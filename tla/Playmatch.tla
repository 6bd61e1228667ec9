-------------------------------- MODULE Playmatch --------------------------------
(***************************************************************************)
(* PlaymatchResolver.identify_lookup, asked again and again about one      *)
(* content while the provider's database grows: the request, the failures  *)
(* of its transport, the validation of the answer, and the catalogue       *)
(* records that verify_release (Verification.tla) then reads.              *)
(***************************************************************************)
EXTENDS Verification, FiniteSets

CONSTANTS
  Contents,    \* contents of the files that the provider's catalogues list
  Target,      \* the content that is looked up
  CrcTwins,    \* other contents with the CRC32 of the target
  FileRecords, \* files that the provider may list for the game, see FileRecord
  SentHashes,  \* the sets of hashes that a lookup identity may carry
  MaxRecords   \* the bound on the files of the game

StrongKinds == {"SHA256", "SHA1", "MD5"}
HashKinds == StrongKinds \cup {"CRC"}

\* A file of the game in the database: "recorded" are the hashes it lists.
FileRecord ==
  [content : Contents, recorded : SUBSET HashKinds,
   status : Statuses \cup {None}, current : BOOLEAN]

ASSUME PlaymatchAssumption ==
  /\ Target \in Contents /\ CrcTwins \subseteq Contents
  /\ FileRecords \subseteq FileRecord
  /\ SentHashes \subseteq SUBSET HashKinds
  /\ MaxRecords \in Nat

VARIABLES
  files,      \* the files of the game in the provider's database
  publisher,  \* what the answer says of the catalogue as a whole
  sent,       \* the hashes of the last lookup
  answer,     \* how the last lookup ended
  method,     \* gameMatchType of the last canonical release
  listed,     \* gameFiles of the answer it was made from
  release     \* the last canonical release

lookupVars == <<files, publisher, sent, answer, method, listed, release>>

Publishers == [authority : Authorities \cup {None}, named : BOOLEAN]
Answers == {"unasked", "release", "none", "unavailable", "invalid",
            "os_error", "http_exception", "attribute_error"}

LookupInit ==
  /\ files = {} /\ publisher \in Publishers
  /\ sent = {} /\ answer = "unasked" /\ method = None /\ listed = {} /\ release = None

-----------------------------------------------------------------------------
\* The provider (not under src/): it matches a hash that was sent, or the name and
\* the size of the file, or nothing.  Whatever it matched, the answer may list any
\* of the files of the game, or none: nobody checks gameFiles against the match.
HasHash(file, kind) ==
  kind \in file.recorded /\ (file.content = Target \/ (kind = "CRC" /\ file.content \in CrcTwins))

MatchTypes(hashes) ==
  LET hits == {kind \in hashes : \E file \in files : HasHash(file, kind)}
  IN IF hits # {} THEN hits ELSE {"FileNameAndSize", "NoMatch"}

\* How the exchange goes, by who handles it: "outage" is an HTTPError, a URLError or
\* a TimeoutError, which _identify_payload translates; a connection that is reset
\* or cut short while the answer is read raises what nobody translates.
Transports == {"ok", "outage", "reset", "cut"}

\* What may be wrong with an answer, one thing at most: no JSON object; no match
\* type; a part of the wrong shape (game, name, id, platform, mapping, game file,
\* ...); or a field that is not text where CatalogueEvidence strips it.
Defects == {"nothing", "no_object", "no_match_type", "bad_part", "bad_field"}

Exchanges == {e \in Transports \X Defects : e[1] = "ok" \/ e[2] = "nothing"}

\* Wrong on purpose: any hash of the file will do.
KeepsListedFile(file, kind, hashes) == kind \in HashKinds \cap hashes => kind \in file.recorded

\* An answer of another hash than the match, or without it, is of another file of
\* the game.  A match without a hash, or by one that was not sent, keeps them all.
KeepsFile(file, kind, hashes) == kind \in HashKinds \cap hashes => HasHash(file, kind)

MatchMethod(kind) ==
  IF kind \in StrongKinds THEN "strong" ELSE IF kind = "CRC" THEN "crc" ELSE "other"

Records(list, kind, hashes) ==
  {[method |-> MatchMethod(kind), authority |-> publisher.authority,
    status |-> file.status, current |-> file.current, named |-> publisher.named] :
     file \in {f \in list : KeepsFile(f, kind, hashes)}}

\* Wrong on purpose: an outage passes for "not found".
OutcomeOffline(exchange, list, kind, hashes) ==
  IF exchange[1] # "ok" \/ kind = "NoMatch" THEN "none" ELSE "release"

\* How identify_lookup ends: the transport first, then the object, then NoMatch, and
\* only then the parts; fields are read only of the files that are kept.
Outcome(exchange, list, kind, hashes) ==
  CASE exchange[1] = "outage" -> "unavailable"
    [] exchange[1] = "reset" -> "os_error"
    [] exchange[1] = "cut" -> "http_exception"
    [] exchange[2] \in {"no_object", "no_match_type"} -> "invalid"
    [] exchange = <<"ok", "nothing">> /\ kind # "NoMatch" -> "release"
    [] exchange[2] \in {"nothing", "bad_part", "bad_field"} /\ exchange[1] = "ok"
         /\ kind = "NoMatch" -> "none"
    [] exchange[2] = "bad_part" /\ kind # "NoMatch" -> "invalid"
    [] exchange[2] = "bad_field" /\ kind # "NoMatch" ->
         IF Records(list, kind, hashes) = {} THEN "release" ELSE "attribute_error"

\* One lookup; whatever is not a release leaves the caller with none.
Lookup ==
  \E exchange \in Exchanges, hashes \in SentHashes, list \in SUBSET files :
    \E kind \in MatchTypes(hashes) :
      /\ sent' = hashes
      /\ answer' = Outcome(exchange, list, kind, hashes)
      /\ IF answer' # "release"
           THEN UNCHANGED <<method, listed, release>>
           ELSE /\ method' = kind /\ listed' = list
                /\ \E platform \in Platforms, name \in Releases :
                     release' = [platform |-> platform, name |-> name,
                                 evidence |-> IF kind \in HashKinds THEN "content" ELSE "name",
                                 conflicted |-> FALSE, catalogue |-> Records(list, kind, hashes)]
      /\ UNCHANGED <<files, publisher>>

\* The provider imports another catalogue file.
Import ==
  /\ Cardinality(files) < MaxRecords
  /\ \E file \in FileRecords : files' = files \cup {file}
  /\ UNCHANGED <<publisher, sent, answer, method, listed, release>>

LookupNext == Lookup \/ Import
LookupSpec == LookupInit /\ [][LookupNext]_lookupVars

-----------------------------------------------------------------------------
LookupTypeOK ==
  /\ listed \subseteq files /\ files \subseteq FileRecords /\ publisher \in Publishers
  /\ sent \in SentHashes \cup {{}} /\ answer \in Answers
  /\ release # None =>
       /\ release \in CanonicalRelease
       /\ method \in HashKinds \cup {"FileNameAndSize"}

\* A verdict for or against the dump rests on a catalogue file of the answer with
\* the content that was looked up: never on another file of the same game (a good
\* track beside a bad one), nor on a match by name.  A CRC alone may condemn, never
\* acquit.
VerdictRestsOnThisFile ==
  release # None =>
    /\ VerifyRelease(release) = "known_good" =>
         \E file \in listed : file.content = Target /\ file.status \in Accepted \cup {None}
    /\ VerifyRelease(release) = "known_bad" =>
         \E file \in listed : HasHash(file, method) /\ file.status \in BadStatuses

\* An answer that claims to know the content makes its evidence authoritative, but
\* that alone verifies nothing: without a listed file that has the hash of the
\* match the release is "probable", as if it had been found by name, and only then.
AuthorityIsNoVerdict ==
  release # None /\ release.evidence = "content" =>
    (VerifyRelease(release) = "probable" <=> \A file \in listed : ~HasHash(file, method))

\* Only a complete exchange in which the provider says so is a missing match: an
\* outage or an answer that cannot be read must not send the identification on as
\* if there were no such release.
MissingMatchIsAnAnswer ==
  [][answer' = "none" /\ answer # "none"
       => \A kind \in sent', file \in files : ~HasHash(file, kind)]_lookupVars

\* Asking again when the catalogue has grown makes a verdict by the same method
\* only better informed or more cautious: a bad one is never redeemed by another
\* record, a good one only lost to a bad record, and a catalogue match never falls
\* back to "probable".  No verdict depends on the order of the records.  This needs
\* a provider that lists again what it has listed; the code does not enforce it.
Successors(status) ==
  CASE status = "conflict" -> {"conflict"}
    [] status = "known_bad" -> {"known_bad"}
    [] status = "known_good" -> {"known_good", "known_bad"}
    [] status = "catalogue_match" -> {"catalogue_match", "known_good", "known_bad"}
    [] OTHER -> {status, "catalogue_match", "known_good", "known_bad"}

NeverRedeemed ==
  [][release # None /\ release' # None /\ method' = method /\ listed \subseteq listed'
       => VerifyRelease(release') \in Successors(VerifyRelease(release))]_lookupVars
==================================================================================
