---------------------------------- MODULE MCFormats ---------------------------------
(* Small files of every format: sound ones, and one for each thing that can be wrong. *)
EXTENDS Formats, TLC

\* Discs with every header that Dolphin may print, and as far as the Xbox reader may get.
Disc(h, valid, reader) ==
  [regular |-> TRUE, header |-> h, image |-> valid, bounded |-> reader]
WellFormed(fields) == [f \in fields |-> "good"]
MCSources ==
  {[Disc(<<>>, FALSE, "none") EXCEPT !.regular = FALSE], Disc(<<>>, FALSE, "none")}
  \cup {Disc(<<>>, TRUE, reader) : reader \in {"none", "volume", "magic", "certificate"}}
  \cup {Disc(WellFormed(s), FALSE, "none") :
          s \in {{"game_id"}, {"game_id", "revision"}, HeaderFields}}
  \cup {Disc([WellFormed(HeaderFields) EXCEPT ![f] = "bad"], FALSE, "none") :
          f \in {"region", "title_id"}}

\* Directory trees of three nodes with every shape, cycles and lost children included.
Node(left, right, name) ==
  [left |-> left, right |-> right, name |-> name, directory |-> name = "d",
   sector |-> IF name = "d" THEN 4 ELSE 6, size |-> IF name = "d" THEN 2 ELSE 1]
Tree(k, name) == [o \in 0..2 |-> Node(k[2 * o + 1], k[2 * o + 2], name[o + 1])]
Shapes == {0, 1, 3} \X {0, 2} \X {0, 2} \X {0, 1, 2} \X {0, 1} \X {0}
Subdirectory == [o \in 0..1 |-> IF o = 0 THEN Node(1, 0, "f") ELSE Node(0, 0, "d")]
Loop == [o \in 0..0 |-> Node(0, 5, "f")]
Xbox(root, sub) ==
  [length |-> 7,
   partitions |-> <<[present |-> FALSE, sector |-> 0, size |-> 0],
                    [present |-> TRUE, sector |-> 1, size |-> 3]>>,
   tables |-> [s \in {1, 4} |-> IF s = 1 THEN root ELSE sub]]
MCImages == {Xbox(Tree(k, name), Subdirectory) :
               k \in Shapes, name \in {<<"f", "d", "x">>, <<"d", "x", "?">>}}
  \cup {[Xbox(<<>>, Subdirectory) EXCEPT !.partitions = <<>>]}
MCReplacements == {Xbox(Tree(<<1, 2, 0, 0, 0, 0>>, <<"d", "d", "d">>), Loop)}
MCRequests ==
  {[kind |-> "range", path |-> <<"d", "f">>, offset |-> 0, size |-> 1, nodes |-> 3],
   [kind |-> "find", path |-> <<"d", "f">>, offset |-> 0, size |-> 1, nodes |-> 2],
   [kind |-> "file", path |-> <<"f">>, offset |-> 0, size |-> 1, nodes |-> 3]}

\* A root directory of two sectors, with a record or padding at each of six positions.
Record(length, valid, name) ==
  [length |-> length, valid |-> valid, name |-> name, directory |-> name = "d",
   extent |-> IF name = "d" THEN 3 ELSE 4, size |-> IF name = "d" THEN 4 ELSE 2]
Positions == {0, 2, 3, 4, 6, 7}
RootDirectories ==
  {root \in [Positions -> {Padding, Record(2, TRUE, "f"), Record(3, TRUE, "d"),
                           Record(2, FALSE, "f")}] :
     /\ \A o \in {3, 6, 7} : root[o] \in {Padding, Record(2, TRUE, "f")}
     /\ root[0].valid \/ root[0] = Padding}
IsoSubdirectory ==
  [o \in 0..3 |-> IF o = 0 THEN Record(2, TRUE, ".")
                  ELSE IF o = 2 THEN Record(2, TRUE, "f") ELSE Padding]
MCIsoImages ==
  {[length |-> 20, descriptor |-> TRUE,
    root |-> [Record(0, TRUE, "d") EXCEPT !.extent = 1, !.size = 8],
    directories |-> (1 :> [o \in 0..7 |-> IF o \in Positions THEN root[o] ELSE Padding])
                      @@ (3 :> IsoSubdirectory)] : root \in RootDirectories}
  \cup {[length |-> 20, descriptor |-> FALSE, root |-> Padding, directories |-> <<>>]}
MCIsoPaths == {<<"d", "f">>}

\* Packages and game cards whose last entry ends with the file, before it or after it.
Entry(name, offset, size, hashedSize) ==
  [name |-> name, offset |-> offset, size |-> size, hashed |-> hashedSize]
Table(magic, listed) == [magic |-> magic, strings |-> 1, entries |-> listed]
Nsp(listed, documents, length) ==
  [regular |-> TRUE, length |-> length, head |-> FALSE, root |-> 0,
   tables |-> (0 :> Table("PFS0", listed)), documents |-> documents]
TwoDocuments(size) ==
  <<Entry("cnmt_xml", 0, 1, 0), Entry("cnmt_nca", 1, 1, 0), Entry("cnmt_xml", 2, size, 0)>>
Xci(root, listed, secure, length) ==
  [regular |-> TRUE, length |-> length, head |-> TRUE, root |-> root,
   tables |-> (4 :> Table("HFS0", listed)) @@ (12 :> Table("HFS0", secure)),
   documents |-> <<>>]
MCPackages ==
  {Nsp(listed, <<>>, length) : length \in {4, 5},
     listed \in {<<Entry("cnmt_nca", 0, 1, 0)>>, <<Entry("nca", 0, 1, 0)>>,
                 <<Entry("cnmt_nca", 0, 1, 0), Entry("unreadable", 0, 0, 0)>>}}
  \cup {Nsp(TwoDocuments(size), (6 :> one) @@ (8 :> other), 9) :
          one \in Documents, other \in {"app_1", "app_2", "patch"}, size \in {1, 2}}
  \cup {Xci(root, listed, secure, length) : root \in {0, 3, 4}, length \in {18, 19},
          listed \in {<<Entry(n, 3, 7, h)>> : n \in {"secure", "Secure", "other"}, h \in {1, 8}}
                       \cup {<<Entry("secure", 3, 7, 1), Entry("Secure", 1, 0, 0)>>},
          secure \in {<<Entry("nca", 0, 1, 1)>>}
                       \cup {<<Entry("cnmt_nca", 0, z, h)>> : z \in {1, 2}, h \in {1, 2}}}
MCOtherPackages ==
  {[Nsp(<<>>, <<>>, 0) EXCEPT !.regular = FALSE],
   Nsp(TwoDocuments(1), (6 :> "app_1") @@ (8 :> "patch"), 9),
   Xci(4, <<Entry("secure", 3, 7, 1)>>, <<Entry("cnmt_nca", 0, 1, 1)>>, 18)}

\* Cartridges of both header versions, a byte too long, a byte too short and exact.
Cartridge(length, nes2, prgLsb, prgMsb, chrLsb, chrMsb) ==
  [regular |-> TRUE, length |-> length, magic |-> TRUE, trainer |-> FALSE, nes2 |-> nes2,
   prgLsb |-> prgLsb, prgMsb |-> prgMsb, chrLsb |-> chrLsb, chrMsb |-> chrMsb]
Exactly(c) == [c EXCEPT !.length = NesHeaderSize + ContentSize(c)]
WholeCartridges ==
  {Exactly(Cartridge(0, TRUE, 5, 15, 1, 0)), Exactly(Cartridge(0, FALSE, 1, 15, 0, 0)),
   Exactly(Cartridge(0, TRUE, 0, 1, 6, 15))}
MCCartridges ==
  WholeCartridges
  \cup {[c EXCEPT !.length = @ + 1] : c \in WholeCartridges}
  \cup {[c EXCEPT !.length = @ - 1] : c \in WholeCartridges}
  \cup {[Exactly(Cartridge(0, FALSE, 1, 0, 0, 0)) EXCEPT !.trainer = TRUE],
        [Cartridge(16400, FALSE, 1, 0, 0, 0) EXCEPT !.magic = FALSE],
        Cartridge(16, FALSE, 0, 0, 0, 0), Cartridge(15, FALSE, 0, 0, 0, 0),
        Cartridge(3, FALSE, 0, 0, 0, 0),
        [Cartridge(0, FALSE, 0, 0, 0, 0) EXCEPT !.regular = FALSE]}
=====================================================================================
