---------------------------- MODULE CliCommands_proofs ----------------------------
(***************************************************************************)
(* Theorems about an identification and the commands that use it, for      *)
(* every set of platforms, releases and provider answers, and for every    *)
(* verification policy.                                                    *)
(***************************************************************************)
EXTENDS CliCommands, TLAPS

-----------------------------------------------------------------------------
(***************************************************************************)
(* The pure decisions.                                                     *)
(***************************************************************************)

\* reconcile_release_matches selects one of the matches, and then both bear the
\* selected platform and name.
LEMMA SelectedIsShared ==
  ASSUME NEW p, NEW n, CanonicalMatch(p, n) # None
  PROVE  /\ CanonicalMatch(p, n) \in {p, n}
         /\ p # None => Same(p, CanonicalMatch(p, n))
         /\ n # None => Same(n, CanonicalMatch(p, n))
BY DEF CanonicalMatch, ReconcileReleases, Same

\* A safe plan names a known-good release, and neither match says otherwise.
LEMMA SafeIsKnownGood ==
  ASSUME NEW p, NEW n, CanonicalMatch(p, n) # None, SafeToApply(p, n)
  PROVE  /\ \E match \in {p, n} :
              Same(match, CanonicalMatch(p, n)) /\ VerifyRelease(match) = "known_good"
         /\ \A match \in {p, n} \ {None} :
              /\ Same(match, CanonicalMatch(p, n))
              /\ VerifyRelease(match) \notin {"known_bad", "conflict"}
BY SelectedIsShared DEF SafeToApply, SafeForCanonicalNaming, ContentKnownGood, HasKnownBad,
                        HasConflicts, Verified

\* What the verification of the selected release calls bad or conflicting makes the
\* plan a conflict.
LEMMA BadIsPlannedAsConflict ==
  ASSUME NEW d, NEW p, NEW n, CanonicalMatch(p, n) # None,
         VerifyRelease(CanonicalMatch(p, n)) \in {"known_bad", "conflict"}
  PROVE  RenamePlanStatus(d, p, n) = "conflict"
<1>1. HasKnownBad(p, n) \/ HasConflicts(p, n)
  BY SelectedIsShared DEF HasKnownBad, HasConflicts, Verified
<1>2. ~SafeToApply(p, n)
  BY <1>1 DEF SafeToApply, SafeForCanonicalNaming
<1> QED
  BY <1>1, <1>2 DEF RenamePlanStatus

\* With one lookup only, a platform conflict is between its match and the detection.
LEMMA ConflictOfOneLookup ==
  ASSUME NEW d, NEW p, HasPlatformConflict(d, p, None)
  PROVE  p # None /\ d.best # None /\ d.best # p.platform
BY DEF HasPlatformConflict, ReconcilePlatform, ProviderPlatform, CanonicalMatch,
       ReconcileReleases

-----------------------------------------------------------------------------
(***************************************************************************)
(* The identification.                                                     *)
(***************************************************************************)

\* What each stage may rely on: the outcome of the physical lookup, the preflight of
\* a restricted selection, and the reason for which normalization was left out.
IdentifyInv ==
  /\ IdentifyTypeOK
  /\ stage \in Preflight => structure = Nothing /\ selection.restrict
  /\ stage = "check_identity" => selection.identity # None
  /\ stage \in Preflight \cup {"hash", "detect", "lookup"} =>
       physical = None /\ physicalLookup = "not_attempted"
  /\ physicalLookup # "matched" => physical = None
  /\ normalization # "content" => normalized = None /\ normalizedLookup = "not_attempted"
  /\ stage \in Stages \ {"done", "raised", "lookup_normalized"} => normalization = "pending"
  /\ stage = "lookup_normalized" => normalization = "content"
  /\ stage = "done" => normalization # "pending"
  /\ normalization = "skipped" => stage = "done" /\ ~MustNormalize
  /\ physicalLookup = "unavailable" /\ ~settings.force =>
       normalization \in {"pending", "skipped"}
  /\ (selection.restrict /\ stage \notin {"check_platform", "raised"}) =>
       detection # None /\ detection.best = selection.platform
  /\ selection.restrict => stage # "detect"
  /\ (selection.restrict /\ selection.identity # None
        /\ stage \notin Preflight \cup {"raised"}) =>
       /\ structure.metadata # None
       /\ structure.metadata.platform = selection.platform
       /\ structure.metadata.primary = selection.identity

USE NoneAssumption, LocalAssumption, StageAssumption

LEMMA IdentifyInvInit == IdentifyInit => IdentifyInv
BY DEF IdentifyInit, IdentifyInv, IdentifyTypeOK, Preflight, Stages, Selections, Settings,
       Structure, Nothing, LookupStatus

\* Merged evidence has its type, and what was there stays.
LEMMA MergeKeeps ==
  ASSUME NEW current, NEW incoming
  PROVE  /\ Merge(current, incoming) \in {current, incoming}
         /\ current # None => Merge(current, incoming) = current
BY DEF Merge

LEMMA IdentifyInvNext == IdentifyInv /\ [IdentifyNext]_identifyVars => IdentifyInv'
<1> SUFFICES ASSUME IdentifyInv, [IdentifyNext]_identifyVars
             PROVE  IdentifyInv'
  OBVIOUS
<1> USE DEF IdentifyInv, IdentifyTypeOK, Goto, Raise, Preflight, Stages, Exceptions,
            LookupStatus
<1>1. CASE CheckPlatform
  BY <1>1 DEF CheckPlatform
<1>2. CASE CheckIdentity
  <2>1. Nothing \in Structure /\ Inspections \subseteq Structure
    BY DEF Nothing, Structure, InspectionResult
  <2> QED
    BY <1>2, <2>1 DEF CheckIdentity, LocalPrimaryIdentifier
<1>3. CASE Hash
  BY <1>3 DEF Hash, evidence
<1>4. CASE Detect
  BY <1>4 DEF Detect
<1>5. CASE LookUpPhysical
  BY <1>5 DEF LookUpPhysical
<1>6. CASE Inspect
  <2>1. Nothing \in Structure /\ Inspections \subseteq Structure
    BY DEF Nothing, Structure, InspectionResult
  <2> QED
    BY <1>6, <2>1 DEF Inspect, Nothing
<1>7. CASE SkipNormalization
  BY <1>7 DEF SkipNormalization, MustNormalize
<1>8. CASE Normalize
  BY <1>8 DEF Normalize, MustNormalize, ShouldNormalize, Structure, Merge
<1>9. CASE LookUpNormalized
  BY <1>9 DEF LookUpNormalized
<1>10. CASE UNCHANGED identifyVars
  BY <1>10 DEF identifyVars, evidence, MustNormalize
<1> QED
  BY <1>1, <1>2, <1>3, <1>4, <1>5, <1>6, <1>7, <1>8, <1>9, <1>10 DEF IdentifyNext

\* What the stages rely on holds throughout an identification.
THEOREM IdentifyInvariance == IdentifySpec => []IdentifyInv
<1> QED
  BY IdentifyInvInit, IdentifyInvNext, PTL DEF IdentifySpec

\* The types of the identification's variables.
THEOREM IdentifyTypeCorrect == IdentifySpec => []IdentifyTypeOK
<1>1. IdentifyInv => IdentifyTypeOK
  BY DEF IdentifyInv
<1> QED
  BY <1>1, IdentifyInvariance, PTL

\* A hard restriction holds from the first hash on, and of the finished result.
LEMMA InvRestriction == IdentifyInv => RestrictionHolds
<1> SUFFICES ASSUME IdentifyInv, stage \notin Preflight \cup {"raised"}, selection.restrict
             PROVE  /\ detection # None /\ detection.best = selection.platform
                    /\ selection.identity # None =>
                         AssessRequestedIdentity(selection, detection, structure.metadata)
                           = "matched"
  BY DEF RestrictionHolds
<1>1. detection # None /\ detection.best = selection.platform
  BY DEF IdentifyInv, Preflight
<1>2. ASSUME selection.identity # None
      PROVE  AssessRequestedIdentity(selection, detection, structure.metadata) = "matched"
  <2>1. LocalPrimaryIdentifier(structure.metadata, selection.platform) = selection.identity
    BY <1>2 DEF IdentifyInv, LocalPrimaryIdentifier
  <2> QED
    BY <1>1, <1>2, <2>1 DEF AssessRequestedIdentity
<1> QED
  BY <1>1, <1>2

\* A restricted identification goes on only with what was asked for.
THEOREM Restriction == IdentifySpec => []RestrictionHolds
BY IdentifyInvariance, InvRestriction, PTL

\* A conflict between detection and the physical match is never left unexamined.
LEMMA InvCrossChecked == IdentifyInv => ConflictCrossChecked
<1> SUFFICES ASSUME IdentifyInv, stage = "done",
                    HasPlatformConflict(detection, physical, normalized),
                    normalization \notin {"unsupported", "content"}, settings.normalizer
             PROVE  FALSE
  BY DEF ConflictCrossChecked
<1>1. normalization = "skipped" /\ ~MustNormalize /\ normalized = None
  BY DEF IdentifyInv, IdentifyTypeOK
<1>2. physical # None /\ detection.best # None /\ detection.best # physical.platform
  BY <1>1, ConflictOfOneLookup
<1>3. physicalLookup # "unavailable"
  BY <1>2 DEF IdentifyInv
<1>4. detection.best \in LocalPlatforms(detection, structure.metadata)
  BY <1>2 DEF LocalPlatforms
<1>5. MustNormalize
  BY <1>2, <1>3, <1>4 DEF MustNormalize, ShouldNormalize
<1> QED
  BY <1>1, <1>5

\* A contradicted catalogue match is normalized and looked up again where that is
\* possible, before the identification ends.
THEOREM CrossChecked == IdentifySpec => []ConflictCrossChecked
BY IdentifyInvariance, InvCrossChecked, PTL

\* An outage costs no further work.
LEMMA InvOutage == IdentifyInv => OutageStopsWork
BY DEF IdentifyInv, OutageStopsWork

\* After an outage nothing is normalized or looked up unless a setting demands it.
THEOREM OutageStops == IdentifySpec => []OutageStopsWork
BY IdentifyInvariance, InvOutage, PTL

\* No step replaces structural evidence that is there.
LEMMA StepKeeps ==
  IdentifyInv /\ [IdentifyNext]_identifyVars =>
    /\ Kept(structure.representation, structure'.representation)
    /\ Kept(structure.metadata, structure'.metadata)
<1> SUFFICES ASSUME IdentifyInv, IdentifyNext \/ UNCHANGED structure
             PROVE  /\ Kept(structure.representation, structure'.representation)
                    /\ Kept(structure.metadata, structure'.metadata)
  BY DEF identifyVars, evidence
<1>1. CASE UNCHANGED structure
  BY <1>1 DEF Kept
<1>2. CASE CheckIdentity
  BY <1>2 DEF CheckIdentity, Kept, IdentifyInv, Preflight, Nothing
<1>3. CASE Inspect
  BY <1>3 DEF Inspect, Kept, Nothing
<1>4. CASE Normalize
  BY <1>4 DEF Normalize, Kept, Merge
<1>5. CASE CheckPlatform \/ Hash \/ Detect \/ LookUpPhysical \/ SkipNormalization
             \/ LookUpNormalized
  <2>1. UNCHANGED structure
    BY <1>5 DEF CheckPlatform, Hash, Detect, LookUpPhysical, SkipNormalization,
                LookUpNormalized, evidence
  <2> QED
    BY <2>1, <1>1
<1> QED
  BY <1>1, <1>2, <1>3, <1>4, <1>5 DEF IdentifyNext

\* A representation or metadata that a stage has reported is there to the end.
THEOREM EvidenceIsKept == IdentifySpec => NeverOverwritten
<1>1. IdentifyInv /\ [IdentifyNext]_identifyVars =>
        [/\ Kept(structure.representation, structure'.representation)
         /\ Kept(structure.metadata, structure'.metadata)]_identifyVars
  BY StepKeeps
<1> QED
  BY <1>1, IdentifyInvariance, PTL DEF IdentifySpec, NeverOverwritten

-----------------------------------------------------------------------------
(***************************************************************************)
(* The commands.                                                           *)
(***************************************************************************)

\* An answer stands for the evidence it was given on.
CliInv ==
  /\ IdentifyInv
  /\ command \in Commands /\ exit \in Exits
  /\ exit = "apply" => stage = "done" /\ RenameExit = "apply"
  /\ exit = "ok" /\ command = "identify" => stage = "done" /\ IdentifyExit = "ok"
  /\ exit # "none" /\ stage = "done" /\ command = "identify" => exit = IdentifyExit

LEMMA CliInvInit == Init => CliInv
BY IdentifyInvInit DEF Init, CliInv, Exits

LEMMA ExitsOfWorkflow ==
  \A e : WorkflowExit(e) \in {"conflict", "unresolved", "error", "traceback"}
BY DEF WorkflowExit

LEMMA ExitsOfAnswers ==
  /\ IdentifyExit \in {"conflict", "ok", "unresolved"}
  /\ VerifyExit \in {"conflict", "ok", "unresolved"}
  /\ PlanExit \in {"conflict", "ok", "unresolved"}
  /\ RenameExit \in {"conflict", "apply", "unresolved"}
BY DEF IdentifyExit, VerifyExit, PlanExit, RenameExit

LEMMA CliInvNext == CliInv /\ [Next]_vars => CliInv'
<1> SUFFICES ASSUME CliInv, [Next]_vars
             PROVE  CliInv'
  OBVIOUS
<1>1. CASE UNCHANGED identifyVars
  <2>1. IdentifyInv'
    BY <1>1, IdentifyInvNext DEF CliInv
  <2>2. RenameExit' = RenameExit /\ IdentifyExit' = IdentifyExit /\ stage' = stage
    BY <1>1 DEF identifyVars, evidence, RenameExit, RequestedMismatch, Canonical, PlanStatus,
                IdentifyExit, Conflict, Strength
  <2>3. CASE RefusePath
    BY <2>1, <2>2, <2>3 DEF RefusePath, CliInv, Exits, IdentifyInv, IdentifyTypeOK
  <2>4. CASE Fail
    BY <2>1, <2>2, <2>4, ExitsOfWorkflow DEF Fail, CliInv, Exits
  <2>5. CASE Answer
    BY <2>1, <2>2, <2>5, ExitsOfAnswers DEF Answer, CliInv, Exits, Commands
  <2>6. CASE Unnameable
    BY <2>1, <2>2, <2>6 DEF Unnameable, CliInv, Exits
  <2>7. CASE UNCHANGED <<command, exit>>
    BY <2>1, <2>2, <2>7 DEF CliInv
  <2> QED
    BY <2>3, <2>4, <2>5, <2>6, <2>7 DEF Next, Step, vars
<1>2. CASE Step
  BY <1>2, IdentifyInvNext DEF Step, CliInv
<1> QED
  BY <1>1, <1>2 DEF Next, RefusePath, Fail, Answer, Unnameable, vars, identifyVars, evidence

\* The exit code that is given belongs to the evidence it was given on.
THEOREM CliInvariance == Spec => []CliInv
BY CliInvInit, CliInvNext, PTL DEF Spec

\* A command runs one identification, and nothing else touches its evidence.
LEMMA CommandIdentifies == Spec => IdentifySpec
<1>1. Init => IdentifyInit
  BY DEF Init
<1>2. [Next]_vars => [IdentifyNext]_identifyVars
  BY DEF Next, Step, RefusePath, Fail, Answer, Unnameable, vars, identifyVars, evidence
<1> QED
  BY <1>1, <1>2, PTL DEF Spec, IdentifySpec

\* Every command cross-checks a contradicted match and keeps the evidence it has.
THEOREM CommandsCrossCheck == Spec => []ConflictCrossChecked /\ NeverOverwritten
BY CommandIdentifies, CrossChecked, EvidenceIsKept, PTL

\* The types of all variables of a command.
THEOREM CliTypeCorrect == Spec => []TypeOK
<1>1. CliInv => TypeOK
  BY DEF CliInv, IdentifyInv, TypeOK
<1> QED
  BY <1>1, CliInvariance, PTL

\* A rename bears the name of a known-good match.
THEOREM RenamesKnownGood == Spec => []NamesKnownGood
<1>1. CliInv => NamesKnownGood
  <2> SUFFICES ASSUME CliInv, exit = "apply"
               PROVE  NamesKnownGood
    BY DEF NamesKnownGood
  <2>1. Canonical # None /\ SafeToApply(physical, normalized)
    BY DEF CliInv, RenameExit
  <2> QED
    BY <2>1, SafeIsKnownGood DEF NamesKnownGood, Canonical
<1> QED
  BY <1>1, CliInvariance, PTL

\* The commands agree on every result, whatever led to it.
THEOREM Agreement == Spec => []CommandsAgree
<1>1. VerifyExit = "conflict" => PlanExit = "conflict" /\ RenameExit = "conflict"
  <2> SUFFICES ASSUME VerifyExit = "conflict"
               PROVE  PlanExit = "conflict" /\ RenameExit = "conflict"
    OBVIOUS
  <2>1. Canonical # None /\ VerifyRelease(Canonical) \in {"known_bad", "conflict"}
    BY DEF VerifyExit
  <2>2. PlanStatus = "conflict"
    BY <2>1, BadIsPlannedAsConflict DEF Canonical, PlanStatus
  <2>3. ~SafeToApply(physical, normalized)
    BY <2>2 DEF PlanStatus, RenamePlanStatus
  <2> QED
    BY <2>1, <2>2, <2>3 DEF PlanExit, RenameExit
<1>2. RenameExit = "apply" <=> PlanExit = "ok" /\ ~RequestedMismatch
  BY DEF RenameExit, PlanExit, PlanStatus, RenamePlanStatus
<1>3. CommandsAgree
  BY <1>1, <1>2 DEF CommandsAgree
<1> QED
  BY <1>3, PTL

\* A successful identify is supported by the local evidence.
LEMMA OkIsSupported == Spec => []OkAgreesWithDetection
<1>1. CliInv => OkAgreesWithDetection
  <2> SUFFICES ASSUME CliInv, command = "identify", exit = "ok", Canonical # None,
                      detection.best # None, ~IsAmbiguous(detection)
               PROVE  Canonical.platform = detection.best
    BY DEF OkAgreesWithDetection
  <2>1. ~Conflict
    BY DEF CliInv, IdentifyExit
  <2>2. ProviderPlatform(physical, normalized) = Canonical.platform
    BY SelectedIsShared DEF ProviderPlatform, Canonical, Same
  <2>3. Canonical \in CanonicalRelease
    BY SelectedIsShared DEF Canonical, CliInv, IdentifyInv, IdentifyTypeOK
  <2>4. Canonical.platform # None
    BY <2>3 DEF CanonicalRelease
  <2> QED
    BY <2>1, <2>2, <2>4 DEF Conflict, HasPlatformConflict, ReconcilePlatform
<1> QED
  BY <1>1, CliInvariance, PTL

\* No rename goes on with another identifier than the one asked for, and none at all
\* without it when the selection is restricted.
LEMMA RestrictedRenames == Spec => []RestrictedRename
<1>1. CliInv => RestrictedRename
  <2> SUFFICES ASSUME CliInv, exit = "apply", selection.identity # None
               PROVE  LocalPrimaryIdentifier(structure.metadata, selection.platform)
                        \in (IF selection.restrict THEN {selection.identity}
                                                   ELSE {selection.identity, None})
    BY DEF RestrictedRename
  <2>1. stage = "done" /\ ~RequestedMismatch
    BY DEF CliInv, RenameExit
  <2>2. CASE selection.restrict
    <3>1. LocalPrimaryIdentifier(structure.metadata, selection.platform) = selection.identity
      BY <2>1, <2>2 DEF CliInv, IdentifyInv, Preflight, LocalPrimaryIdentifier
    <3> QED
      BY <3>1, <2>2
  <2>3. CASE ~selection.restrict
    BY <2>1, <2>3 DEF RequestedMismatch, AssessRequestedIdentity
  <2> QED
    BY <2>2, <2>3
<1> QED
  BY <1>1, CliInvariance, PTL

\* The progress line of identify and its exit code agree.
LEMMA ProgressIsHonest == Spec => []ProgressAgrees
<1>1. CliInv => ProgressAgrees
  <2> SUFFICES ASSUME CliInv, exit = IdentifyExit
               PROVE  /\ ProgressSymbol = "cross" <=> exit = "conflict"
                      /\ ProgressSymbol = "check" => exit = "ok"
    BY DEF CliInv, ProgressAgrees
  <2> QED
    BY DEF ProgressSymbol, IdentifyExit
<1> QED
  BY <1>1, CliInvariance, PTL

\* Exit code, progress line and evidence of identify agree.
THEOREM IdentifyHonest == Spec => []IdentifyIsHonest
BY OkIsSupported, ProgressIsHonest, PTL DEF IdentifyIsHonest

\* A restriction is kept by the workflow and by the rename that follows it.
THEOREM RestrictionForGood == Spec => []RestrictionKept
<1>1. CliInv => RestrictionHolds
  BY InvRestriction DEF CliInv
<1> QED
  BY <1>1, CliInvariance, RestrictedRenames, PTL DEF RestrictionKept
=====================================================================================
