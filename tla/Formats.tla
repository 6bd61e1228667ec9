----------------------------------- MODULE Formats ----------------------------------
(***************************************************************************)
(* What reads one file to say what it is: the adapters that run an         *)
(* external program, the bounded readers of both disc file systems, the    *)
(* inspection of Switch containers and the NES adapter.  They share the    *)
(* path and nothing else, and a call of one never runs within a call of    *)
(* another, so each behaviour examines one file with one of them; the      *)
(* others stand still before they begin.                                   *)
(***************************************************************************)
EXTENDS DiscAdapters, Xdvdfs, Iso9660, SwitchPackage, Nes

VARIABLE examined  \* the part that examines the file

formatVars == <<examined, discVars, xdvdfsVars, isoVars, packageVars, nesVars>>
ExaminedParts == {"disc", "xdvdfs", "iso9660", "switch", "nes"}

\* What the parts that stand still have before them: nothing, or an empty file.
NoSource == [regular |-> FALSE, header |-> <<>>, image |-> FALSE, bounded |-> "none"]
NoImage == [length |-> 0, partitions |-> <<>>, tables |-> <<>>]
NoRequest == [kind |-> "find", path |-> <<>>, offset |-> 0, size |-> 0, nodes |-> 0]
NoIso == [length |-> 0, descriptor |-> FALSE, root |-> Padding, directories |-> <<>>]
NoPackage ==
  [regular |-> FALSE, length |-> 0, head |-> FALSE, root |-> 0, tables |-> <<>>, documents |-> <<>>]
NoCartridge ==
  [regular |-> FALSE, length |-> 0, magic |-> FALSE, trainer |-> FALSE, nes2 |-> FALSE,
   prgLsb |-> 0, chrLsb |-> 0, prgMsb |-> 0, chrMsb |-> 0]

OneOf(part_, choices, none) == IF examined = part_ THEN choices ELSE {none}

FormatsInit ==
  /\ examined \in ExaminedParts
  /\ source \in OneOf("disc", Sources, NoSource)
  /\ adapter \in OneOf("disc", Programs, "dolphin")
  /\ installed \in OneOf("disc", SUBSET {adapter}, {})
  /\ image \in OneOf("xdvdfs", Images, NoImage)
  /\ request \in OneOf("xdvdfs", Requests, NoRequest)
  /\ iso \in OneOf("iso9660", IsoImages, NoIso) /\ path \in OneOf("iso9660", IsoPaths, <<>>)
  /\ package \in OneOf("switch", Packages, NoPackage)
  /\ cartridge \in OneOf("nes", Cartridges, NoCartridge)
  /\ headerless \in OneOf("nes", BOOLEAN, FALSE) /\ suffix \in OneOf("nes", BOOLEAN, FALSE)
  /\ DiscStart /\ XdvdfsStart /\ IsoStart /\ PackageStart /\ NesStart

StillDisc == UNCHANGED discVars
StillXdvdfs == UNCHANGED xdvdfsVars
StillIso == UNCHANGED isoVars
StillSwitch == UNCHANGED packageVars
StillNes == UNCHANGED nesVars

\* The steps of one part, and nothing of the others.
OfDisc(A) ==
  examined = "disc" /\ A /\ UNCHANGED examined /\ StillXdvdfs /\ StillIso /\ StillSwitch /\ StillNes
OfXdvdfs(A) ==
  examined = "xdvdfs" /\ A /\ UNCHANGED examined /\ StillDisc /\ StillIso /\ StillSwitch /\ StillNes
OfIso(A) ==
  examined = "iso9660" /\ A /\ UNCHANGED examined /\ StillDisc /\ StillXdvdfs /\ StillSwitch /\ StillNes
OfSwitch(A) ==
  examined = "switch" /\ A /\ UNCHANGED examined /\ StillDisc /\ StillXdvdfs /\ StillIso /\ StillNes
OfNes(A) ==
  examined = "nes" /\ A /\ UNCHANGED examined /\ StillDisc /\ StillXdvdfs /\ StillIso /\ StillSwitch

FormatsNext ==
  \/ OfDisc(DiscNext) \/ OfXdvdfs(XdvdfsNext) \/ OfIso(IsoNext)
  \/ OfSwitch(PackageNext) \/ OfNes(NesNext)

\* The callers go on as long as they can, as in the specifications of the parts.
Progress ==
  OfDisc(Conclude \/ Supervising) \/ OfXdvdfs(XdvdfsStep) \/ OfIso(IsoStep)

FormatsSpec == FormatsInit /\ [][FormatsNext]_formatVars /\ WF_formatVars(Progress)

-----------------------------------------------------------------------------
FormatsTypeOK ==
  /\ examined \in ExaminedParts
  /\ DiscTypeOK /\ XdvdfsTypeOK /\ IsoTypeOK /\ PackageTypeOK /\ NesTypeOK

\* Neither disc reader gives up for nothing, whatever it is asked.
ReadersFailForCause == NothingGivenUp /\ IsoFailsForCause

\* A method of an adapter that runs its program ends, although the program may hang for
\* ever, and a read of a disc ends, whatever cycles the image has.
EveryReadEnds ==
  /\ MethodEnds
  /\ examined = "xdvdfs" => CallEnds
  /\ examined = "iso9660" => IsoReadEnds
=====================================================================================
