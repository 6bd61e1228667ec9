----------------------------------- MODULE Iso9660 ----------------------------------
(***************************************************************************)
(* BoundedIso9660.read_file (iso9660.py), as the PlayStation adapters call *)
(* it: the volume descriptor, a path found directory by directory, each    *)
(* scanned record by record from sector to sector, and the file's extent.  *)
(* Sizes and positions are counted in units of which a record has at least *)
(* two and a sector SectorSize.                                            *)
(***************************************************************************)
EXTENDS Integers, Sequences

CONSTANTS
  IsoImages,     \* what the path may hold, see IsIso
  IsoPaths,      \* the paths that are asked for
  IsoCuts,       \* the lengths that another program may shorten it to
  SectorSize,    \* ISO_SECTOR_SIZE
  MaxIsoDirectory, MaxIsoFile  \* the limits of the reader

\* A record, where it begins: "valid" says that it has all of its fields, an identifier
\* that fits and numbers that agree in both byte orders; length 0 is padding.
IsRecord(r) ==
  /\ r.length \in Nat /\ r.valid \in BOOLEAN /\ r.directory \in BOOLEAN
  /\ r.extent \in Nat /\ r.size \in Nat
Padding == [length |-> 0, valid |-> FALSE, name |-> "", directory |-> FALSE,
            extent |-> 0, size |-> 0]
IsIso(i) ==
  /\ i.length \in Nat /\ i.descriptor \in BOOLEAN /\ IsRecord(i.root)
  /\ \A e \in DOMAIN i.directories : \A o \in DOMAIN i.directories[e] :
       IsRecord(i.directories[e][o])

ASSUME IsoAssumption ==
  /\ \A i \in IsoImages : IsIso(i)
  /\ IsoPaths \subseteq Seq(STRING) /\ SectorSize \in Nat \ {0} /\ IsoCuts \subseteq Nat
  /\ MaxIsoDirectory \in Nat /\ MaxIsoFile \in Nat

VARIABLES
  iso,      \* what the path holds
  isoSize,  \* the size of the file when it was opened
  isoStep,  \* what the reader does next: see IsoSteps
  path,     \* the path that is asked for
  names,    \* how many of its names have been found
  entry,    \* the entry found last: the root at first
  records,  \* the directory that is scanned: a record for each position
  position, \* where the scan is
  children, \* the positions of the entries found so far
  isoGot    \* how much of the file has been read

isoVars == <<iso, isoSize, isoStep, path, names, entry, records, position, children, isoGot>>

IsoSteps == {"closed", "directory", "scan", "file", "data", "format_error"}

IsoStart ==
  /\ isoStep = "closed" /\ isoSize = 0 /\ names = 0 /\ isoGot = 0
  /\ entry = Padding /\ records = <<>> /\ position = 0 /\ children = <<>>

IsoInit == iso \in IsoImages /\ path \in IsoPaths /\ IsoStart

-----------------------------------------------------------------------------
\* validate_extent, against the size of the file when it was opened; and what a read
\* gets of the file as it is now.
InFile(e) == e.extent * SectorSize <= isoSize /\ e.size <= isoSize - e.extent * SectorSize
Readable(e) == e.extent * SectorSize + e.size <= iso.length

OpenIso ==
  /\ isoStep = "closed"
  /\ isoSize' = iso.length
  /\ IF iso.descriptor
       THEN entry' = iso.root /\ isoStep' = IF path = <<>> THEN "file" ELSE "directory"
       ELSE isoStep' = "format_error" /\ UNCHANGED entry
  /\ UNCHANGED <<iso, path, names, records, position, children, isoGot>>

\* read_directory, until the directory is read.
ReadRecords ==
  /\ isoStep = "directory"
  /\ IF /\ entry.directory /\ 0 < entry.size /\ entry.size <= MaxIsoDirectory
        /\ InFile(entry) /\ Readable(entry)
       THEN /\ records' = [o \in 0..entry.size - 1 |->
                 IF /\ entry.extent \in DOMAIN iso.directories
                    /\ o \in DOMAIN iso.directories[entry.extent]
                   THEN iso.directories[entry.extent][o] ELSE Padding]
            /\ position' = 0 /\ children' = <<>> /\ isoStep' = "scan"
       ELSE isoStep' = "format_error" /\ UNCHANGED <<records, position, children>>
  /\ UNCHANGED <<iso, isoSize, path, names, entry, isoGot>>

\* Where the record or the padding at a position ends.
Smaller(a, b) == IF a <= b THEN a ELSE b

\* Wrong on purpose: padding is skipped by one sector, not to the next one.
AfterOneSector(o, size) ==
  IF records[o].length > 0 THEN o + records[o].length ELSE Smaller(o + SectorSize, size)

After(o, size) ==
  IF records[o].length > 0 THEN o + records[o].length
                           ELSE Smaller((o \div SectorSize + 1) * SectorSize, size)

RunsOver(next) == next > entry.size

\* parse_directory_entry, and the loop around it: padding leads to the next sector.
Scan ==
  /\ isoStep = "scan" /\ position < entry.size
  /\ LET record == records[position]
         next == After(position, entry.size)
     IN IF \/ record.length > 0 /\ (RunsOver(next) \/ ~record.valid)
           \/ next <= position
          THEN isoStep' = "format_error" /\ UNCHANGED <<position, children>>
          ELSE /\ position' = next
               /\ children' = IF record.length = 0 \/ record.name \in {".", ".."}
                                THEN children ELSE Append(children, position)
               /\ UNCHANGED isoStep
  /\ UNCHANGED <<iso, isoSize, path, names, entry, records, isoGot>>

\* find takes the first entry of the name; without one, or with a file where the path
\* goes on, there is no such file.
Choose ==
  /\ isoStep = "scan" /\ position >= entry.size
  /\ LET matches == {i \in 1..Len(children) : records[children[i]].name = path[names + 1]}
         first == CHOOSE i \in matches : \A j \in matches : i <= j
         match == records[children[first]]
     IN IF matches = {} \/ (names + 1 < Len(path) /\ ~match.directory)
          THEN isoStep' = "format_error" /\ UNCHANGED <<names, entry>>
          ELSE /\ names' = names + 1 /\ entry' = match
               /\ isoStep' = IF names + 1 = Len(path) THEN "file" ELSE "directory"
  /\ UNCHANGED <<iso, isoSize, path, records, position, children, isoGot>>

ReadIsoFile ==
  /\ isoStep = "file"
  /\ IF /\ ~entry.directory /\ 0 < entry.size /\ entry.size <= MaxIsoFile
        /\ InFile(entry) /\ Readable(entry)
       THEN isoStep' = "data" /\ isoGot' = entry.size
       ELSE isoStep' = "format_error" /\ UNCHANGED isoGot
  /\ UNCHANGED <<iso, isoSize, path, names, entry, records, position, children>>

\* Another program shortens the file (not under src/).
Shorten ==
  /\ isoStep \notin {"data", "format_error"}
  /\ \E n \in IsoCuts : n < iso.length /\ iso' = [iso EXCEPT !.length = n]
  /\ UNCHANGED <<isoSize, isoStep, path, names, entry, records, position, children, isoGot>>

IsoStep == OpenIso \/ ReadRecords \/ Scan \/ Choose \/ ReadIsoFile
IsoNext == IsoStep \/ Shorten
IsoSpec == IsoInit /\ [][IsoNext]_isoVars /\ WF_isoVars(IsoStep)

-----------------------------------------------------------------------------
IsoTypeOK ==
  /\ IsIso(iso) /\ path \in Seq(STRING) /\ isoStep \in IsoSteps
  /\ isoSize \in Nat /\ names \in 0..Len(path) /\ IsRecord(entry) /\ isoGot \in Nat
  /\ position \in Nat /\ \A i \in 1..Len(children) : children[i] \in DOMAIN records

\* Where records begin by the standard: at the start of every sector, and after every
\* record.  A directory is packed when no record crosses the end of its sector.
Begins(starts) ==
  /\ \A o \in DOMAIN records : o % SectorSize = 0 => o \in starts
  /\ \A o \in starts : LET next == o + records[o].length
                        IN records[o].length > 0 /\ next \in DOMAIN records => next \in starts
Starts == {o \in DOMAIN records : \A s \in SUBSET DOMAIN records : Begins(s) => o \in s}
Packed ==
  \A o \in Starts : records[o].length > 0 =>
    o \div SectorSize = (o + records[o].length - 1) \div SectorSize

\* The entries of a packed directory are all found, those after the padding of a sector
\* included, each once and in their order.
IsoListingIsComplete ==
  isoStep = "scan" /\ position >= entry.size /\ Packed =>
    /\ {children[i] : i \in 1..Len(children)} =
         {o \in Starts : records[o].length > 0 /\ records[o].name \notin {".", ".."}}
    /\ \A i, j \in 1..Len(children) : i < j => children[i] < children[j]

\* A packed directory of valid records that lie within it is never given up.
ScanFailsForCause ==
  isoStep = "scan" /\ position < entry.size /\ isoStep' = "format_error" /\ Packed =>
    \E o \in Starts : /\ records[o].length > 0
                      /\ ~records[o].valid \/ o + records[o].length > entry.size
IsoFailsForCause == [][ScanFailsForCause]_isoVars

\* Every read ends, whatever the image says.
IsoReadEnds == isoStep = "closed" ~> isoStep \in {"data", "format_error"}
=====================================================================================
