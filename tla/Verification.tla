----------------------------- MODULE Verification -----------------------------
(***************************************************************************)
(* verification.verify_release: what the catalogue records that came with  *)
(* a provider's match say of the content, under a verification policy.     *)
(* These are pure functions; the modules of the identification use them.   *)
(***************************************************************************)
EXTENDS Naturals

CONSTANTS
  None,         \* Python's None
  Platforms,    \* canonical platform names
  Releases,     \* release names
  Authorities,  \* catalogue authorities, case and blanks normalised
  Redump,       \* the one authority whose records carry no file status
  Statuses,     \* file statuses, case and blanks normalised
  BadStatuses,  \* those that say the dump is bad
  Trusted,      \* VerificationPolicy.trusted_authorities
  Accepted,     \* VerificationPolicy.accepted_verified_statuses
  RequireCurrent \* VerificationPolicy.require_current_catalogue

ASSUME NoneAssumption ==
  /\ None \notin Platforms /\ None \notin Releases
  /\ None \notin Authorities /\ None \notin Statuses
ASSUME PolicyAssumption ==
  /\ BadStatuses \subseteq Statuses
  /\ Trusted \subseteq Authorities
  /\ Accepted \subseteq Statuses
  /\ RequireCurrent \in BOOLEAN

\* One catalogue record: how it was matched (a strong hash, a CRC, or no hash at
\* all), who published it, what it says of the file.
CatalogueEvidence ==
  [method : {"strong", "crc", "other"},
   authority : Authorities \cup {None},
   status : Statuses \cup {None},
   current : BOOLEAN,
   named : BOOLEAN]

\* A provider's answer.  "evidence" is its identification evidence: matched by a
\* content hash it is authoritative, matched by name it is not.
CanonicalRelease ==
  [platform : Platforms,
   name : Releases,
   evidence : {"content", "name", "none"},
   conflicted : BOOLEAN,
   catalogue : SUBSET CatalogueEvidence]

VerificationStatus ==
  {"known_good", "known_bad", "catalogue_match", "conflict", "probable", "unknown"}

IsContentMatch(item) == item.method \in {"strong", "crc"}

IsBad(item) == IsContentMatch(item) /\ item.status \in BadStatuses

\* A Redump record without a status is accepted on its hash alone.
AcceptsCatalogueEvidence(item) ==
  /\ item.authority \in Trusted
  /\ item.status \in Accepted \/ (item.authority = Redump /\ item.status = None)

IsGood(item) ==
  /\ item.method = "strong"
  /\ AcceptsCatalogueEvidence(item)
  /\ item.current \/ ~RequireCurrent
  /\ item.named

\* Wrong on purpose: the accepted records are looked at before the bad ones.
VerifyGoodFirst(release) ==
  CASE release.conflicted -> "conflict"
    [] ~release.conflicted /\ (\E i \in release.catalogue : IsGood(i)) -> "known_good"
    [] ~release.conflicted /\ (\E i \in release.catalogue : IsBad(i))
         /\ ~(\E i \in release.catalogue : IsGood(i)) -> "known_bad"
    [] OTHER -> IF \E i \in release.catalogue : IsContentMatch(i)
                  THEN "catalogue_match"
                  ELSE IF release.evidence # "none" THEN "probable" ELSE "unknown"

\* The reasons are tried from the most to the least cautious one.
VerifyRelease(release) ==
  IF release.conflicted THEN "conflict"
  ELSE IF \E i \in release.catalogue : IsBad(i) THEN "known_bad"
  ELSE IF \E i \in release.catalogue : IsGood(i) THEN "known_good"
  ELSE IF \E i \in release.catalogue : IsContentMatch(i) THEN "catalogue_match"
  ELSE IF release.evidence # "none" THEN "probable"
  ELSE "unknown"
===============================================================================
