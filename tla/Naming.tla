---------------------------------- MODULE Naming ----------------------------------
(***************************************************************************)
(* naming.py: the filename that a canonical release proposes for a file,   *)
(* and the same file renamed again and again.  Texts are sequences over a  *)
(* few characters: what the code does to separators, blanks and dots is    *)
(* what the properties are about.                                          *)
(***************************************************************************)
EXTENDS Selection, SequencesExt

CONSTANTS
  Results,    \* the identifications of a file, by the fields that naming reads
  Names,      \* the names files have before the first rename
  MaxRenames, \* bound: the renames that are modelled
  None

\* NamingInput before it is checked: what naming reads of an identification.
NamingFields ==
  LET Optional == Seq(STRING) \cup {None}
  IN  [title : Seq(STRING), structured : BOOLEAN, agrees : BOOLEAN, identifier : Optional,
       region : Optional, disc : (Nat \X Nat) \cup {None}, revision : Optional]

Invalid == {"/"}  \* stands for every character of _INVALID_FILENAME_CHARACTERS
Empty == <<>>

\* A file has its name in a directory: there is no separator in it.  (It may have another
\* of the characters that Invalid stands for, and keeps it in its extension.)
ASSUME NamingAssumption ==
  /\ Results \subseteq NamingFields
  /\ \A n \in Names : n \in Seq(STRING) /\ \A i \in 1..Len(n) : n[i] \notin Invalid
  /\ MaxRenames \in Nat

VARIABLES
  result, original,
  name, renames,
  rejected  \* the last plan raised ValueError

vars == <<result, original, name, renames, rejected>>

-----------------------------------------------------------------------------
(* str and Path                                                            *)

Replace(text) == [i \in 1..Len(text) |-> IF text[i] \in Invalid THEN "_" ELSE text[i]]

\* A run of blanks becomes one.
Collapse(text) ==
  LET kept == Selected([i \in 1..Len(text) |-> i],
                       {i \in 1..Len(text) : text[i] # " " \/ i = 1 \/ text[i - 1] # " "})
  IN  [i \in 1..Len(kept) |-> text[kept[i]]]

RStrip(text, c) ==
  LET rest == {i \in 0..Len(text) : \A j \in (i + 1)..Len(text) : text[j] = c}
  IN  SubSeq(text, 1, CHOOSE i \in rest : \A j \in rest : i <= j)

LStrip(text, c) == Reverse(RStrip(Reverse(text), c))

Strip(text) == LStrip(RStrip(text, " "), " ")

Dots(text) == {i \in 1..Len(text) : text[i] = "."}

\* Path(source).suffix.lstrip("."): what follows the last dot, unless that dot is the
\* first character or the last one.
Extension(source) ==
  LET last == {i \in Dots(source) : \A j \in Dots(source) : j <= i}
  IN  IF \E i \in last : i > 1 /\ i < Len(source)
        THEN SubSeq(source, (CHOOSE i \in last : TRUE) + 1, Len(source))
        ELSE Empty

-----------------------------------------------------------------------------
\* Empty when sanitize_filename_component raises ValueError.
Sanitize(value) == RStrip(Strip(Collapse(Replace(value))), ".")

\* The optional fields of NamingInput: a blank one is absent.
Field(value) ==
  IF value = None THEN None ELSE IF Strip(value) = Empty THEN None ELSE Strip(value)

\* Wrong on purpose: the identifier of any local metadata is used.
IdentifierOfAnyone(r) == Field(r.identifier)

\* naming_input_from_identification: local metadata of another platform names nothing.
Identifier(r) == IF r.agrees THEN Field(r.identifier) ELSE None

\* Region, disc and revision are not added to a release name, which may have them.
Qualified(r) == r.structured /\ r.agrees

Region(r) == IF Qualified(r) THEN Field(r.region) ELSE None

Revision(r) ==
  IF Qualified(r) /\ Field(r.revision) # <<"0">> THEN Field(r.revision) ELSE None

HasDisc(r) ==
  Qualified(r) /\ r.disc # None /\ r.disc[2] > 1 /\ r.disc[1] \in 1..r.disc[2]

\* Wrong on purpose: a part is taken as it is.
PartUnsanitized(open, value, close) ==
  IF value = None THEN Empty ELSE <<" ">> \o open \o value \o close

\* One part of the name after the title.
Part(open, value, close) ==
  IF value = None THEN Empty ELSE <<" ">> \o open \o Sanitize(value) \o close

Base(r) ==
  Sanitize(Strip(r.title))
    \o Part(<<"[">>, Identifier(r), <<"]">>)
    \o Part(<<"(">>, Region(r), <<")">>)
    \o (IF HasDisc(r) THEN <<" ", "(", "D", ")">> ELSE Empty)
    \o Part(<<"(", "R">>, Revision(r), <<")">>)

\* Wrong on purpose: an extension gets its dot once more.
FilenameDotted(base, extension) ==
  IF extension = Empty THEN base ELSE base \o <<".", " ">> \o extension

\* NamingPolicy.structured_filename
Filename(base, extension) ==
  LET normalized == LStrip(Strip(extension), ".")
  IN  IF normalized = Empty THEN base ELSE base \o <<".">> \o normalized

\* NamingInput and sanitize_filename_component refuse what names nothing.
Nameable(r) ==
  /\ Sanitize(Strip(r.title)) # Empty
  /\ \A value \in {Identifier(r), Region(r), Revision(r)} \ {None} : Sanitize(value) # Empty

Destination(r, source) == Filename(Base(r), Extension(source))

-----------------------------------------------------------------------------
Init ==
  /\ result \in Results
  /\ original \in Names
  /\ name = original
  /\ renames = 0
  /\ rejected = FALSE

\* rename --yes on a file that is where the command left it.
Rename ==
  /\ renames < MaxRenames /\ ~rejected
  /\ IF Nameable(result)
       THEN name' = Destination(result, name) /\ UNCHANGED rejected
       ELSE rejected' = TRUE /\ UNCHANGED name
  /\ renames' = renames + 1
  /\ UNCHANGED <<result, original>>

Next == Rename

Spec == Init /\ [][Next]_vars

Renamed == renames > 0 /\ ~rejected

-----------------------------------------------------------------------------
\* A release name, an identifier or a revision that a provider or a file supplies
\* never makes the name a path: renaming stays in the directory of the source.
StaysInDirectory ==
  Renamed => /\ name \notin {Empty, <<".">>, <<".", ".">>}
             /\ \A i \in 1..Len(name) : name[i] \notin Invalid

\* "The source file's existing extension is preserved", however many dots the title
\* has and however often the file is renamed.
ExtensionKept ==
  Renamed /\ Strip(Extension(original)) # Empty =>
    Extension(name) = Strip(Extension(original))

\* Renaming comes to rest, with the extension the file came with: from the second name
\* on, and from the first if the file had an extension, the proposed destination is the
\* name that the file has.
Settles ==
  /\ ExtensionKept
  /\ Renamed /\ (renames > 1 \/ Strip(Extension(original)) # Empty) =>
       Destination(result, name) = name

\* Local metadata of another platform "must not alter the proposed filename".
ForeignMetadataNamesNothing ==
  renames = 1 /\ ~rejected /\ ~result.agrees =>
    name = Destination([result EXCEPT !.identifier = None, !.region = None,
                                      !.disc = None, !.revision = None], original)

\* What rename itself named is already canonical.
RenamedIsCanonical == Renamed => Destination(result, name) = name
===================================================================================
