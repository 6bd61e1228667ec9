-------------------------------- MODULE Evidence --------------------------------
(***************************************************************************)
(* The pure decisions of an identification: what local and provider        *)
(* evidence together say of a file (release_reconciliation,                *)
(* reconciliation, the assessments and result properties of                *)
(* identification), and whether that is enough to name it.                 *)
(***************************************************************************)
EXTENDS Verification

CONSTANTS
  Identifiers,    \* platform-native identifiers, as casefold compares them
  Representations \* what an adapter can say of the physical representation

ASSUME LocalAssumption == None \notin Identifiers /\ None \notin Representations

-----------------------------------------------------------------------------
(***************************************************************************)
(* Local evidence.                                                         *)
(***************************************************************************)

\* PlatformDetection: the candidates of highest confidence, and the first of
\* them.  Nothing reads a candidate of lower confidence.
PlatformDetection ==
  {d \in [top : SUBSET Platforms, best : Platforms \cup {None}] :
     IF d.top = {} THEN d.best = None ELSE d.best \in d.top}

IsAmbiguous(detection) == \E p, q \in detection.top : p # q

\* LocalContentMetadata: its platform, the identifier in that platform's primary
\* namespace, and whether it holds any identifier at all.  Its other values (titles,
\* regions, ...) are not modelled: metadata without a platform and without
\* identifiers counts as empty.
LocalContentMetadata ==
  {m \in [platform : Platforms \cup {None},
          primary : Identifiers \cup {None},
          identified : BOOLEAN] :
     m.primary # None => m.identified /\ m.platform # None}

\* An inspector returns one kind of evidence at least, a normalizer may return
\* neither beside the content.
Structure == [representation : Representations \cup {None},
              metadata : LocalContentMetadata \cup {None}]
InspectionResult == Structure \ {[representation |-> None, metadata |-> None]}

LocalPrimaryIdentifier(metadata, platform) ==
  IF metadata = None THEN None
  ELSE IF metadata.platform # platform THEN None
  ELSE metadata.primary

\* _merge_structural_evidence, where it does not raise.
Agree(current, incoming) == current = None \/ incoming = None \/ current = incoming
\* Wrong on purpose: what comes last wins.
MergeLatest(current, incoming) == IF incoming = None THEN current ELSE incoming
Merge(current, incoming) == IF current = None THEN incoming ELSE current

-----------------------------------------------------------------------------
(***************************************************************************)
(* Provider evidence.                                                      *)
(***************************************************************************)
LookupStatus == {"not_attempted", "matched", "no_match", "unavailable"}

\* Wrong on purpose: equal names are taken for equal releases.
ReconcileByName(physical, normalized) ==
  IF physical = None /\ normalized = None
    THEN [status |-> "unresolved", selected |-> None]
  ELSE IF normalized = None THEN [status |-> "physical_only", selected |-> physical]
  ELSE IF physical = None THEN [status |-> "normalized_only", selected |-> normalized]
  ELSE IF physical.name # normalized.name
    THEN [status |-> "release_conflict", selected |-> None]
  ELSE [status |-> "agreement", selected |-> physical]

ReconcileReleases(physical, normalized) ==
  IF physical = None /\ normalized = None
    THEN [status |-> "unresolved", selected |-> None]
  ELSE IF normalized = None THEN [status |-> "physical_only", selected |-> physical]
  ELSE IF physical = None THEN [status |-> "normalized_only", selected |-> normalized]
  ELSE IF physical.platform # normalized.platform
    THEN [status |-> "platform_conflict", selected |-> None]
  ELSE IF physical.name # normalized.name
    THEN [status |-> "release_conflict", selected |-> None]
  ELSE [status |-> "agreement", selected |-> physical]

CanonicalMatch(physical, normalized) == ReconcileReleases(physical, normalized).selected

HasReleaseConflict(physical, normalized) ==
  ReconcileReleases(physical, normalized).status \in {"platform_conflict", "release_conflict"}

\* The platform the providers agree on, even where their releases differ.
ProviderPlatform(physical, normalized) ==
  IF physical # None /\ normalized # None /\ physical.platform = normalized.platform
    THEN physical.platform
  ELSE IF CanonicalMatch(physical, normalized) # None
    THEN CanonicalMatch(physical, normalized).platform
  ELSE None

ReconcilePlatform(detection, provider) ==
  IF detection.best = None
    THEN IF provider = None THEN [status |-> "unresolved", selected |-> None]
                            ELSE [status |-> "provider_only", selected |-> provider]
  ELSE IF IsAmbiguous(detection)
    THEN IF provider \in detection.top THEN [status |-> "agreement", selected |-> provider]
                                       ELSE [status |-> "ambiguous", selected |-> provider]
  ELSE IF provider = None THEN [status |-> "local_only", selected |-> detection.best]
  ELSE IF detection.best = provider THEN [status |-> "agreement", selected |-> provider]
  ELSE [status |-> "conflict", selected |-> provider]

HasPlatformConflict(detection, physical, normalized) ==
  ReconcilePlatform(detection, ProviderPlatform(physical, normalized)).status = "conflict"

\* The platforms locally asserted, by detection or by the metadata.
LocalPlatforms(detection, metadata) ==
  (IF detection.best = None THEN {} ELSE {detection.best})
    \cup (IF metadata = None THEN {} ELSE {metadata.platform} \ {None})

\* Wrong on purpose: an authoritative physical match is never questioned.
TrustingShouldNormalize(settings, physical, lookup, detection, metadata) ==
  /\ settings.normalizer
  /\ IF settings.force THEN TRUE
     ELSE IF lookup = "unavailable" THEN FALSE
     ELSE IF physical = None THEN TRUE
     ELSE physical.evidence # "content"

\* _should_normalize: without force, not behind an unavailable provider, and not
\* for an authoritative physical match that no local platform contradicts.
ShouldNormalize(settings, physical, lookup, detection, metadata) ==
  /\ settings.normalizer
  /\ IF settings.force THEN TRUE
     ELSE IF lookup = "unavailable" THEN FALSE
     ELSE IF physical = None THEN TRUE
     ELSE IF physical.evidence # "content" THEN TRUE
     ELSE \E p \in LocalPlatforms(detection, metadata) : p # physical.platform

IdentificationStrength(detection, metadata, physical, normalized) ==
  IF CanonicalMatch(physical, normalized) # None THEN "catalogue"
  ELSE IF detection.best # None
    THEN IF metadata # None /\ metadata.identified THEN "local_strong"
                                                        ELSE "local_probable"
  ELSE IF metadata # None /\ (metadata.platform # None \/ metadata.identified)
    THEN "local_probable"
  ELSE "unresolved"

\* _assess_requested_identity: a different platform detected is a mismatch,
\* otherwise the observed primary identifier decides.
AssessRequestedIdentity(selection, detection, metadata) ==
  IF selection.identity = None THEN "none"
  ELSE IF detection.best \notin {None, selection.platform} THEN "mismatch"
  ELSE IF LocalPrimaryIdentifier(metadata, selection.platform) = None THEN "unresolved"
  ELSE IF LocalPrimaryIdentifier(metadata, selection.platform) = selection.identity
    THEN "matched"
  ELSE "mismatch"

-----------------------------------------------------------------------------
(***************************************************************************)
(* verify_identification and the naming policy.                            *)
(***************************************************************************)
Verified(match, status) == match # None /\ VerifyRelease(match) = status

ContentKnownGood(physical, normalized) ==
  Verified(physical, "known_good") \/ Verified(normalized, "known_good")

HasKnownBad(physical, normalized) ==
  Verified(physical, "known_bad") \/ Verified(normalized, "known_bad")

HasConflicts(physical, normalized) ==
  \/ Verified(physical, "conflict") \/ Verified(normalized, "conflict")
  \/ HasReleaseConflict(physical, normalized)

SafeForCanonicalNaming(physical, normalized) ==
  /\ ContentKnownGood(physical, normalized)
  /\ ~HasKnownBad(physical, normalized)
  /\ ~HasConflicts(physical, normalized)

\* plan_identification_rename(...).conflicts: those of the two reports, which are
\* those of their matches; the canonical release is one of the matches.
PlanConflicts(physical, normalized) ==
  Verified(physical, "conflict") \/ Verified(normalized, "conflict")

SafeToApply(physical, normalized) ==
  SafeForCanonicalNaming(physical, normalized) /\ ~PlanConflicts(physical, normalized)

\* cli._rename_plan_status
RenamePlanStatus(detection, physical, normalized) ==
  IF SafeToApply(physical, normalized) THEN "safe"
  ELSE IF \/ HasPlatformConflict(detection, physical, normalized)
          \/ PlanConflicts(physical, normalized)
          \/ HasKnownBad(physical, normalized)
          \/ HasConflicts(physical, normalized)
    THEN "conflict"
  ELSE "unsafe"
=================================================================================
