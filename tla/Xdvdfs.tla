----------------------------------- MODULE Xdvdfs -----------------------------------
(***************************************************************************)
(* BoundedXdvdfs (xdvdfs.py): the bounded reader of Xbox discs.  It looks  *)
(* for a volume descriptor at known offsets, finds a path directory by     *)
(* directory, walking the tree of each from its root node, and reads a     *)
(* range of the file.  All offsets and lengths come from the image; the    *)
(* file is opened anew for every read and may change between two of them.  *)
(***************************************************************************)
EXTENDS Naturals, Sequences, FiniteSets

CONSTANTS
  Images,           \* what the path may hold, see IsImage
  Replacements,     \* what another program may put there
  Cuts,             \* the lengths it may shorten it to
  Requests,         \* the calls of find, read_file_range and read_file: IsRequest
  Unreadable,       \* a name that is empty, no ASCII, or beyond the data
  MaxDirectorySize, \* max_directory_size
  MaxDepth,         \* the calls that Python nests before it raises RecursionError
  MaxFileSize       \* max_size of a read

\* A node of a directory: 0 stands for "no child", as in the image.
IsNode(n) ==
  /\ n.left \in Nat /\ n.right \in Nat /\ n.directory \in BOOLEAN
  /\ n.sector \in Nat /\ n.size \in Nat
IsTable(t) == DOMAIN t \subseteq Nat /\ \A o \in DOMAIN t : IsNode(t[o])

\* "partitions": the roots that the descriptors at the known offsets declare, where
\* there is one; "tables": the directories that begin at a sector.
IsImage(i) ==
  /\ DOMAIN i = {"length", "partitions", "tables"} /\ i.length \in Nat
  /\ DOMAIN i.partitions \subseteq Nat
  /\ \A p \in DOMAIN i.partitions : i.partitions[p].sector \in Nat /\ i.partitions[p].size \in Nat
  /\ \A s \in DOMAIN i.tables : IsTable(i.tables[s])

\* A call, with the limit of nodes its reader was built with (max_directory_nodes).
IsRequest(r) ==
  /\ r.kind \in {"find", "range", "file"} /\ r.path \in Seq(STRING)
  /\ r.offset \in Nat /\ r.size \in Nat /\ r.nodes \in Nat

ASSUME XdvdfsAssumption ==
  /\ \A i \in Images \cup Replacements : IsImage(i)
  /\ \A r \in Requests : IsRequest(r)
  /\ Cuts \subseteq Nat
  /\ MaxDirectorySize \in Nat /\ MaxDepth \in Nat /\ MaxFileSize \in Nat

VARIABLES
  image,    \* what the path holds
  fileSize, \* the size of the file when it was opened
  step,     \* what the reader does next: see Steps
  request,  \* the call
  depth,    \* how many parts of its path have been found
  extent,   \* the entry found last: the root at first
  table,    \* the directory that is walked, as it was read
  pending,  \* the calls of walk that are still to be made, the next one first
  seen,     \* the offsets that have been walked
  entries,  \* their nodes' offsets, in the order of the walk
  got       \* how much the last read of a file has got

xdvdfsVars == <<image, fileSize, step, request, depth, extent, table, pending, seen, entries, got>>

Steps == {"closed", "open", "directory", "walk", "file", "entry", "absent", "data",
          "format_error", "recursion_error"}
Ended == {"entry", "absent", "data", "format_error", "recursion_error"}

XdvdfsStart ==
  /\ step = "closed" /\ fileSize = 0 /\ depth = 0 /\ got = 0
  /\ extent = [directory |-> TRUE, sector |-> 0, size |-> 0]
  /\ table = <<>> /\ pending = <<>> /\ seen = {} /\ entries = <<>>

XdvdfsInit == image \in Images /\ request \in Requests /\ XdvdfsStart

-----------------------------------------------------------------------------
\* _validate_extent, against the size of the file when it was opened.
Fits(e, size) == e.sector <= size /\ e.size <= size - e.sector

\* What a read of the file as it is now can get.
Available(from, size) ==
  IF from + size <= image.length THEN size
  ELSE IF from <= image.length THEN image.length - from ELSE 0

Descriptors == {p \in DOMAIN image.partitions : image.partitions[p].present}
First(ps) == CHOOSE p \in ps : \A q \in ps : p <= q

Fail == step' = "format_error"

\* The constructor: the first descriptor decides, even if its root is no good.
Open ==
  /\ step = "closed"
  /\ IF Descriptors = {} THEN Fail /\ UNCHANGED <<fileSize, extent>>
     ELSE LET root == image.partitions[First(Descriptors)]
          IN /\ fileSize' = image.length
             /\ extent' = [directory |-> TRUE, sector |-> root.sector, size |-> root.size]
             /\ IF root.size > 0 /\ root.size <= MaxDirectorySize /\ Fits(root, image.length)
                  THEN step' = "open" ELSE Fail
  /\ UNCHANGED <<image, request, depth, table, pending, seen, entries, got>>

\* read_file_range refuses a size beyond its limit before it looks for the path, and a
\* path without parts is not found ("absent": None for find, an error for the others).
Call ==
  /\ step = "open"
  /\ step' = IF request.kind = "range" /\ request.size > MaxFileSize THEN "format_error"
             ELSE IF request.path = <<>> THEN "absent" ELSE "directory"
  /\ UNCHANGED <<image, fileSize, request, depth, extent, table, pending, seen, entries, got>>

\* _read_directory_table, and the first call of walk.
ReadDirectory ==
  /\ step = "directory"
  /\ IF /\ extent.directory /\ extent.size > 0 /\ extent.size <= MaxDirectorySize
        /\ Fits(extent, fileSize)
        /\ Available(extent.sector, extent.size) = extent.size
       THEN LET data == IF extent.sector \in DOMAIN image.tables
                          THEN image.tables[extent.sector] ELSE <<>>
            IN /\ table' = [o \in {d \in DOMAIN data : d < extent.size} |-> data[o]]
               /\ pending' = <<[offset |-> 0, level |-> 1]>>
               /\ seen' = {} /\ entries' = <<>> /\ step' = "walk"
       ELSE Fail /\ UNCHANGED <<table, pending, seen, entries>>
  /\ UNCHANGED <<image, fileSize, request, depth, extent, got>>

Children(n) == {n.left, n.right} \ {0}
ChildCalls(n, level) ==
  (IF n.left = 0 THEN <<>> ELSE <<[offset |-> n.left, level |-> level]>>)
    \o (IF n.right = 0 THEN <<>> ELSE <<[offset |-> n.right, level |-> level]>>)

\* Wrong on purpose: a node that has been seen counts for the limit again.
VisitLimitFirst ==
  /\ step = "walk" /\ pending # <<>>
  /\ LET o == Head(pending).offset
     IN IF Cardinality(seen) >= request.nodes \/ o \notin DOMAIN table \/ table[o].name = Unreadable
          THEN Fail /\ UNCHANGED <<pending, seen, entries>>
        ELSE IF o \in seen
          THEN pending' = Tail(pending) /\ UNCHANGED <<step, seen, entries>>
        ELSE /\ seen' = seen \cup {o} /\ entries' = Append(entries, o)
             /\ pending' = ChildCalls(table[o], 1) \o Tail(pending)
             /\ UNCHANGED step
  /\ UNCHANGED <<image, fileSize, request, depth, extent, table, got>>

\* Wrong on purpose: a node without a left child has no right one.
VisitLeftOnly ==
  /\ step = "walk" /\ pending # <<>>
  /\ LET o == Head(pending).offset
     IN IF o \in seen THEN pending' = Tail(pending) /\ UNCHANGED <<step, seen, entries>>
        ELSE IF o \notin DOMAIN table \/ table[o].name = Unreadable
          THEN Fail /\ UNCHANGED <<pending, seen, entries>>
        ELSE /\ seen' = seen \cup {o} /\ entries' = Append(entries, o)
             /\ pending' = IF table[o].left = 0 THEN Tail(pending)
                                                 ELSE ChildCalls(table[o], 1) \o Tail(pending)
             /\ UNCHANGED step
  /\ UNCHANGED <<image, fileSize, request, depth, extent, table, got>>

\* One call of walk: its own frame, then what has been seen, the limit, the bounds and
\* the name, and only then the children, the left one with all of its own first.
Visit ==
  /\ step = "walk" /\ pending # <<>>
  /\ LET o == Head(pending).offset
         level == Head(pending).level
     IN IF level > MaxDepth
          THEN step' = "recursion_error" /\ UNCHANGED <<pending, seen, entries>>
        ELSE IF o \in seen
          THEN pending' = Tail(pending) /\ UNCHANGED <<step, seen, entries>>
        ELSE IF \/ Cardinality(seen) >= request.nodes \/ o \notin DOMAIN table
                \/ table[o].name = Unreadable
          THEN Fail /\ UNCHANGED <<pending, seen, entries>>
        ELSE /\ seen' = seen \cup {o} /\ entries' = Append(entries, o)
             /\ pending' = ChildCalls(table[o], level + 1) \o Tail(pending)
             /\ UNCHANGED step
  /\ UNCHANGED <<image, fileSize, request, depth, extent, table, got>>

Named(name) == {i \in 1..Len(entries) : table[entries[i]].name = name}

\* find takes the first entry of the name, and the next directory, if any, from it.
Match ==
  /\ step = "walk" /\ pending = <<>>
  /\ LET matches == Named(request.path[depth + 1])
         match == table[entries[First(matches)]]
         last == depth + 1 = Len(request.path)
     IN IF matches = {} \/ (~last /\ ~match.directory)
          THEN step' = "absent" /\ UNCHANGED <<depth, extent>>
          ELSE /\ depth' = depth + 1
               /\ extent' = [directory |-> match.directory, sector |-> match.sector,
                             size |-> match.size]
               /\ step' = IF ~last THEN "directory"
                          ELSE IF request.kind = "find" THEN "entry" ELSE "file"
  /\ UNCHANGED <<image, fileSize, request, table, pending, seen, entries, got>>

\* read_file reads the whole file, read_file_range a part of it.
From == IF request.kind = "file" THEN 0 ELSE request.offset
Count == IF request.kind = "file" THEN extent.size ELSE request.size
InEntry == From <= extent.size /\ Count <= extent.size - From

\* Wrong on purpose: whatever the file still yields is returned.
ReadFileShort ==
  /\ step = "file"
  /\ got' = Available(extent.sector + From, Count)
  /\ step' = IF ~extent.directory /\ InEntry /\ Fits(extent, fileSize) THEN "data"
                                                                   ELSE "format_error"
  /\ UNCHANGED <<image, fileSize, request, depth, extent, table, pending, seen, entries>>

ReadFile ==
  /\ step = "file"
  /\ got' = Available(extent.sector + From, Count)
  /\ step' = IF /\ ~extent.directory /\ InEntry /\ Fits(extent, fileSize) /\ got' = Count
                /\ request.kind = "file" => 0 < extent.size /\ extent.size <= MaxFileSize
               THEN "data" ELSE "format_error"
  /\ UNCHANGED <<image, fileSize, request, depth, extent, table, pending, seen, entries>>

\* Another program shortens the file or puts another one in its place (not under src/).
Rewrite ==
  /\ step \in Steps \ Ended
  /\ \/ \E n \in Cuts : n < image.length /\ image' = [image EXCEPT !.length = n]
     \/ image' \in Replacements
  /\ UNCHANGED <<fileSize, step, request, depth, extent, table, pending, seen, entries, got>>

XdvdfsStep == Open \/ Call \/ ReadDirectory \/ Visit \/ Match \/ ReadFile
XdvdfsNext == XdvdfsStep \/ Rewrite
XdvdfsSpec == XdvdfsInit /\ [][XdvdfsNext]_xdvdfsVars /\ WF_xdvdfsVars(XdvdfsStep)

-----------------------------------------------------------------------------
XdvdfsTypeOK ==
  /\ IsImage(image) /\ IsRequest(request) /\ step \in Steps
  /\ fileSize \in Nat /\ depth \in Nat /\ got \in Nat
  /\ extent.directory \in BOOLEAN /\ extent.sector \in Nat /\ extent.size \in Nat
  /\ IsTable(table) /\ seen \subseteq DOMAIN table
  /\ entries \in Seq(DOMAIN table) /\ pending \in Seq([offset : Nat, level : Nat])

\* The offsets that the tree of the directory refers to, from its root on.
Closed(nodes) ==
  0 \in nodes /\ \A o \in nodes \cap DOMAIN table : Children(table[o]) \subseteq nodes
Offsets == {0} \cup DOMAIN table \cup UNION {Children(table[o]) : o \in DOMAIN table}
Reachable == {o \in Offsets : \A nodes \in SUBSET Offsets : Closed(nodes) => o \in nodes}

\* A listing is complete, and has each entry once: whatever cycles and shared subtrees
\* the image has, exactly the entries that its root reaches.
ListingIsComplete ==
  step = "walk" /\ pending = <<>> =>
    /\ {entries[i] : i \in 1..Len(entries)} = Reachable
    /\ \A i, j \in 1..Len(entries) : entries[i] = entries[j] => i = j

\* A directory is only given up for a cause that is in it: a node that is reached and
\* cannot be read, or more of them than the limits allow.
WalkFailsForCause ==
  step' \in {"format_error", "recursion_error"} /\ step = "walk" =>
    \/ \E o \in Reachable : o \notin DOMAIN table \/ table[o].name = Unreadable
    \/ Cardinality(Reachable) > request.nodes
    \/ step' = "recursion_error" /\ Cardinality(Reachable) >= MaxDepth
NothingGivenUp == [][WalkFailsForCause]_xdvdfsVars

\* Data are what was asked for, from within the entry and the file as it was opened, or
\* there are none, even if the file has become shorter meanwhile.
DataIsWhole ==
  step = "data" =>
    /\ got = Count /\ From + Count <= extent.size
    /\ extent.sector + extent.size <= fileSize /\ ~extent.directory

\* Every call ends, whatever the image says.
CallEnds == step = "closed" ~> step \in Ended
=====================================================================================
