-------------------------------- MODULE SwitchPackage -------------------------------
(***************************************************************************)
(* inspect_switch_package (switch.py) over the container tables of         *)
(* switch_container.py: a package (PFS0) with its content metadata, or a   *)
(* game card (XCI) with its secure partition.  The file is measured and    *)
(* opened anew for every table and every document, and another program may *)
(* shorten or replace it in between.  The inspector and the detector do    *)
(* the same and take every NintendoSwitchFormatError for "no Switch file". *)
(***************************************************************************)
EXTENDS Selection, FiniteSets

CONSTANTS
  Packages,              \* what the path may hold, see IsPackage
  OtherPackages,         \* what another program may put there
  HeaderSize,            \* the fixed part of a table
  PfsEntrySize, HfsEntrySize, \* an entry of either kind of table
  CardHeaderSize,        \* the header of a game card, which is also the unit of its root
  MaxFiles, MaxRootFiles, MaxStrings, MaxDocument \* the limits

\* Names, by what the code asks of them: "unreadable" has no place or end in the table,
\* is empty or no UTF-8; "Secure" differs from "secure" in its case only.
EntryNames == {"secure", "Secure", "nca", "cnmt_nca", "cnmt_xml", "other", "unreadable"}

\* What a document is: the metadata of an application, of something else, no metadata,
\* or XML in an encoding that the parser refuses with another exception than ParseError.
Documents == {"app_1", "app_2", "patch", "malformed", "strange_encoding"}

SwitchContainerEntry == [name : EntryNames, offset : Nat, size : Nat, hashed : Nat]
IsTableOf(t) ==
  /\ t.magic \in {"PFS0", "HFS0"} /\ t.strings \in Nat
  /\ t.entries \in Seq(SwitchContainerEntry)

\* Tables and documents by where they begin in the file.
IsPackage(p) ==
  /\ p.regular \in BOOLEAN /\ p.length \in Nat /\ p.head \in BOOLEAN /\ p.root \in Nat
  /\ \A o \in DOMAIN p.tables : IsTableOf(p.tables[o])
  /\ \A o \in DOMAIN p.documents : p.documents[o] \in Documents

ASSUME PackageAssumption ==
  /\ \A p \in Packages \cup OtherPackages : IsPackage(p)
  /\ HeaderSize \in Nat \ {0} /\ PfsEntrySize \in Nat /\ HfsEntrySize \in Nat
  /\ CardHeaderSize \in Nat \ {0}
  /\ MaxFiles \in Nat /\ MaxRootFiles \in Nat /\ MaxStrings \in Nat /\ MaxDocument \in Nat

VARIABLES
  package,      \* what the path holds
  untouched,    \* whether it has been the same since the inspection began
  part,         \* what is to be read next: see Parts
  measured,     \* the size of the file for that part, or -1 before it is taken
  at,           \* where the table is that is to be read
  listing,      \* the entries of the package, or of the secure partition
  todo,         \* its documents that are still to be read
  applications, \* the applications they have named
  report        \* the result: see Reports

packageVars ==
  <<package, untouched, part, measured, at, listing, todo, applications, report>>

Parts == {"prefix", "package", "card", "root", "secure", "document", "done"}
Reports == {"none", "package", "card", "format_error", "uncaught"}

PackageStart ==
  /\ untouched = TRUE
  /\ part = "prefix" /\ measured = -1 /\ at = 0
  /\ listing = <<>> /\ todo = <<>> /\ applications = <<>> /\ report = "none"

PackageInit == package \in Packages /\ PackageStart

-----------------------------------------------------------------------------
EndWith(what) == part' = "done" /\ report' = what /\ measured' = -1

\* _read_exact: the range was in the file when it was measured, and still is.
Exact(from, size) ==
  from + size <= measured /\ from + size <= package.length

EntrySize(magic) == IF magic = "PFS0" THEN PfsEntrySize ELSE HfsEntrySize
DataOffset(t, o) == o + HeaderSize + Len(t.entries) * EntrySize(t.magic) + t.strings

\* Wrong on purpose: an entry may not end where the file does.
EntryOkayBefore(t, o, e) ==
  /\ e.name # "unreadable"
  /\ DataOffset(t, o) + e.offset + e.size < measured
  /\ t.magic = "HFS0" => e.hashed <= e.size

EntryOkay(t, o, e) ==
  /\ e.name # "unreadable"
  /\ DataOffset(t, o) + e.offset + e.size <= measured
  /\ t.magic = "HFS0" => e.hashed <= e.size

\* parse_pfs0 and parse_hfs0: one bad entry spoils the table.
Parses(magic, o, limit) ==
  /\ o \in DOMAIN package.tables /\ Exact(o, HeaderSize)
  /\ LET t == package.tables[o]
     IN /\ t.magic = magic /\ Len(t.entries) <= limit /\ t.strings <= MaxStrings
        /\ Exact(o, DataOffset(t, o) - o)
        /\ \A i \in DOMAIN t.entries : EntryOkay(t, o, t.entries[i])

Parsed(o) ==
  LET t == package.tables[o]
  IN [i \in DOMAIN t.entries |->
        [t.entries[i] EXCEPT !.offset = DataOffset(t, o) + t.entries[i].offset]]

EntriesNamed(entries, names) ==
  Selected(entries, {entries[i] : i \in {j \in DOMAIN entries : entries[j].name \in names}})

\* _switch_specific_entries: a content meta archive is an archive as well.
HasContent(entries) == EntriesNamed(entries, {"cnmt_nca"}) # <<>>

-----------------------------------------------------------------------------
\* The first four bytes; a path that is no file raises an OSError.
ReadPrefix ==
  /\ part = "prefix"
  /\ IF package.regular
       THEN /\ part' = IF /\ package.length > 0 /\ 0 \in DOMAIN package.tables
                          /\ package.tables[0].magic = "PFS0" THEN "package" ELSE "card"
            /\ UNCHANGED <<report, measured>>
       ELSE EndWith("format_error")
  /\ UNCHANGED <<package, untouched, at, listing, todo, applications>>

\* _source_size, and the size limit of a document before it.
Measure ==
  /\ part \notin {"prefix", "done"} /\ measured = -1
  /\ IF package.regular /\ (part = "document" => Head(todo).size <= MaxDocument)
       THEN measured' = package.length /\ UNCHANGED <<part, report>>
       ELSE EndWith("format_error")
  /\ UNCHANGED <<package, untouched, at, listing, todo, applications>>

Reading(what) == part = what /\ measured # -1

ReadPackage ==
  /\ Reading("package")
  /\ IF Parses("PFS0", 0, MaxFiles) /\ HasContent(Parsed(0))
       THEN /\ listing' = Parsed(0) /\ todo' = EntriesNamed(listing', {"cnmt_xml"})
            /\ IF todo' = <<>> THEN EndWith("package")
               ELSE part' = "document" /\ measured' = -1 /\ UNCHANGED report
       ELSE EndWith("format_error") /\ UNCHANGED <<listing, todo>>
  /\ UNCHANGED <<package, untouched, at, applications>>

\* Wrong on purpose: the same application may be described twice.
ConcludedByName(found) ==
  IF Cardinality({found[i] : i \in DOMAIN found}) > 1 THEN "format_error" ELSE "package"

\* What is said of the applications when the last document has been read.
Concluded(found) == IF Len(found) > 1 THEN "format_error" ELSE "package"

ReadDocument ==
  /\ Reading("document")
  /\ LET e == Head(todo)
         text == IF e.offset \in DOMAIN package.documents THEN package.documents[e.offset]
                                                          ELSE "malformed"
     IN IF ~Exact(e.offset, e.size) \/ text = "malformed"
          THEN EndWith("format_error") /\ UNCHANGED <<todo, applications>>
        ELSE IF text = "strange_encoding"
          THEN EndWith("uncaught") /\ UNCHANGED <<todo, applications>>
        ELSE /\ todo' = Tail(todo)
             /\ applications' = IF text = "patch" THEN applications
                                                  ELSE Append(applications, text)
             /\ IF todo' = <<>> THEN EndWith(Concluded(applications'))
                ELSE measured' = -1 /\ UNCHANGED <<part, report>>
  /\ UNCHANGED <<package, untouched, at, listing>>

\* parse_xci, as far as the offset of the root table.
ReadCard ==
  /\ Reading("card")
  /\ IF /\ Exact(0, CardHeaderSize) /\ package.head
        /\ package.root >= CardHeaderSize /\ package.root % CardHeaderSize = 0
       THEN part' = "root" /\ at' = package.root /\ measured' = -1 /\ UNCHANGED report
       ELSE EndWith("format_error") /\ UNCHANGED at
  /\ UNCHANGED <<package, untouched, listing, todo, applications>>

\* find_entry folds the case, and refuses two of a name.
SecureNames == {"secure", "Secure"}

ReadRoot ==
  /\ Reading("root")
  /\ LET secure == EntriesNamed(Parsed(at), SecureNames)
     IN IF Parses("HFS0", at, MaxRootFiles) /\ Len(secure) = 1
          THEN part' = "secure" /\ at' = secure[1].offset /\ measured' = -1 /\ UNCHANGED report
          ELSE EndWith("format_error") /\ UNCHANGED at
  /\ UNCHANGED <<package, untouched, listing, todo, applications>>

\* The nested table is bounded by the file, not by the entry that holds it; no document
\* of a game card is read.
ReadSecure ==
  /\ Reading("secure")
  /\ IF Parses("HFS0", at, MaxFiles) /\ HasContent(Parsed(at))
       THEN listing' = Parsed(at) /\ EndWith("card")
       ELSE EndWith("format_error") /\ UNCHANGED listing
  /\ UNCHANGED <<package, untouched, at, todo, applications>>

\* Another program puts another file there, or shortens it (not under src/).
Disturb ==
  /\ part # "done"
  /\ \/ package' \in OtherPackages
     \/ \E n \in 0..package.length : package' = [package EXCEPT !.length = n]
  /\ untouched' = FALSE
  /\ UNCHANGED <<part, measured, at, listing, todo, applications, report>>

PackageStep ==
  \/ ReadPrefix \/ Measure \/ ReadPackage \/ ReadDocument
  \/ ReadCard \/ ReadRoot \/ ReadSecure
PackageNext == PackageStep \/ Disturb
PackageSpec == PackageInit /\ [][PackageNext]_packageVars

-----------------------------------------------------------------------------
\* What the detector and the inspector make of it: evidence of a Switch file, nothing, or
\* an exception that neither expects.  The inspector passes the application on.
Detected ==
  CASE report \in {"package", "card"} -> "evidence"
    [] report = "format_error" -> "nothing"
    [] report \in {"none", "uncaught"} -> report
Described == IF report = "package" THEN {applications[i] : i \in DOMAIN applications} ELSE {}

PackageTypeOK ==
  /\ IsPackage(package) /\ untouched \in BOOLEAN /\ part \in Parts
  /\ measured \in Nat \cup {-1} /\ at \in Nat /\ report \in Reports
  /\ listing \in Seq(SwitchContainerEntry) /\ todo \in Seq(SwitchContainerEntry)
  /\ applications \in Seq({"app_1", "app_2"})

\* A package is described with an application exactly if one of its documents, and no
\* other one, describes one: neither the order of the entries nor a file that changes
\* between two documents hides a second description.
ApplicationIsUnique ==
  Detected = "evidence" =>
    /\ Len(applications) <= 1
    /\ untouched /\ report = "package" =>
         LET described == {i \in DOMAIN listing :
               /\ listing[i].name = "cnmt_xml"
               /\ package.documents[listing[i].offset] \in {"app_1", "app_2"}}
         IN /\ Cardinality(described) = Len(applications)
            /\ Described = {package.documents[listing[i].offset] : i \in described}

\* What may be wrong with a table of the file at the path, with nothing measured yet.
Sound(magic, o, limit) ==
  /\ o \in DOMAIN package.tables
  /\ LET t == package.tables[o]
         data == DataOffset(t, o)
     IN /\ t.magic = magic /\ Len(t.entries) <= limit /\ t.strings <= MaxStrings
        /\ data <= package.length
        /\ \A i \in DOMAIN t.entries :
             /\ t.entries[i].name # "unreadable"
             /\ t.entries[i].offset + t.entries[i].size <= package.length - data
             /\ magic = "HFS0" => t.entries[i].hashed <= t.entries[i].size

SoundPackage ==
  /\ Sound("PFS0", 0, MaxFiles)
  /\ LET documents == {e \in {Parsed(0)[i] : i \in DOMAIN Parsed(0)} : e.name = "cnmt_xml"}
     IN /\ \A e \in documents : /\ e.size <= MaxDocument /\ e.offset \in DOMAIN package.documents
                                /\ package.documents[e.offset] \in {"app_1", "app_2", "patch"}
        /\ Cardinality({i \in DOMAIN Parsed(0) :
             /\ Parsed(0)[i].name = "cnmt_xml"
             /\ package.documents[Parsed(0)[i].offset] # "patch"}) <= 1
  /\ \E i \in DOMAIN Parsed(0) : Parsed(0)[i].name = "cnmt_nca"

SoundCard ==
  /\ package.length > 0 /\ 0 \in DOMAIN package.tables => package.tables[0].magic # "PFS0"
  /\ package.head /\ package.root % CardHeaderSize = 0 /\ package.root > 0
  /\ CardHeaderSize <= package.length
  /\ Sound("HFS0", package.root, MaxRootFiles)
  /\ \E i \in DOMAIN Parsed(package.root) :
       LET partition == Parsed(package.root)[i]
       IN /\ partition.name \in {"secure", "Secure"}
          /\ \A j \in DOMAIN Parsed(package.root) :
               Parsed(package.root)[j].name \in {"secure", "Secure"} => j = i
          /\ Sound("HFS0", partition.offset, MaxFiles)
          /\ \E j \in DOMAIN Parsed(partition.offset) :
               Parsed(partition.offset)[j].name = "cnmt_nca"

\* No Switch file passes for another one, and no other one for it: what is said of a
\* file that nobody touches is that it is sound, exactly if it is.
ReportedExactlyIfSound ==
  part = "done" /\ untouched /\ Detected # "uncaught" =>
    (Detected = "evidence" <=> package.regular /\ (SoundPackage \/ SoundCard))
=====================================================================================
