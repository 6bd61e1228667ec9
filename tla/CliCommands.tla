------------------------------- MODULE CliCommands -------------------------------
(***************************************************************************)
(* What identify, verify, plan-rename and rename make of an                *)
(* identification (cli._run_identification_workflow and the functions that *)
(* call it): the exit code, the progress summary, and whether rename goes  *)
(* on to change the directory (RenameCommand.tla).                         *)
(***************************************************************************)
EXTENDS Identification

VARIABLES
  command,
  exit      \* how the command ended; a rename that goes on ends with "apply"

vars == <<settings, selection, stage, evidence, raised, command, exit>>

\* "library" stands for any other caller of identify_file.
Commands == {"identify", "verify", "plan-rename", "rename", "library"}
Exits == {"none", "ok", "unresolved", "conflict", "error", "apply", "traceback"}

Init ==
  /\ IdentifyInit
  /\ command \in Commands
  /\ command # "library" => settings.inspector /\ ~settings.force
  /\ exit = "none"

-----------------------------------------------------------------------------
\* The handlers of _run_identification_workflow; what none of them catches leaves
\* the program as an uncaught exception.
WorkflowExit(exception) ==
  CASE exception \in {"identity_mismatch", "ambiguous_inspector"} -> "conflict"
    [] exception \in {"identity_unresolved", "platform_unresolved"} -> "unresolved"
    [] exception \in {"provider", "contract", "os_error"} -> "error"
    [] OTHER -> "traceback"

Canonical == CanonicalMatch(physical, normalized)
Strength == IdentificationStrength(detection, structure.metadata, physical, normalized)
Conflict == \/ HasReleaseConflict(physical, normalized)
            \/ HasPlatformConflict(detection, physical, normalized)

\* Wrong on purpose: a catalogue match settles it.
IdentifyExitCatalogueFirst ==
  IF Strength \in {"catalogue", "local_strong"} THEN "ok"
  ELSE IF Conflict THEN "conflict"
  ELSE "unresolved"

IdentifyExit ==
  IF Conflict THEN "conflict"
  ELSE IF Strength \in {"catalogue", "local_strong"} THEN "ok"
  ELSE "unresolved"

VerifyExit ==
  IF Canonical = None THEN "unresolved"
  ELSE CASE VerifyRelease(Canonical) = "known_good" -> "ok"
         [] VerifyRelease(Canonical) \in {"known_bad", "conflict"} -> "conflict"
         [] OTHER -> "unresolved"

PlanStatus == RenamePlanStatus(detection, physical, normalized)

PlanExit ==
  IF Canonical = None THEN "unresolved"
  ELSE CASE PlanStatus = "safe" -> "ok"
         [] PlanStatus = "conflict" -> "conflict"
         [] OTHER -> "unresolved"

RequestedMismatch ==
  AssessRequestedIdentity(selection, detection, structure.metadata) = "mismatch"

\* Wrong on purpose: an authoritative catalogue match is enough to rename.
RenameExitUnverified ==
  IF RequestedMismatch THEN "conflict"
  ELSE IF Canonical = None THEN "unresolved"
  ELSE IF Canonical.evidence = "content" THEN "apply"
  ELSE IF PlanStatus = "conflict" THEN "conflict"
  ELSE "unresolved"

RenameExit ==
  IF RequestedMismatch THEN "conflict"
  ELSE IF Canonical = None THEN "unresolved"
  ELSE IF SafeToApply(physical, normalized) THEN "apply"
  ELSE IF PlanStatus = "conflict" THEN "conflict"
  ELSE "unresolved"

\* The symbol of the last progress line (_identification_progress_result).
ProviderUnavailable == "unavailable" \in {physicalLookup, normalizedLookup}
ProgressSymbol ==
  IF Conflict THEN "cross"
  ELSE IF Strength = "catalogue" \/ (Strength = "local_strong" /\ ~ProviderUnavailable)
    THEN "check"
  ELSE "warning"

-----------------------------------------------------------------------------
\* The path is not there, or is not a regular file.
RefusePath ==
  /\ exit = "none" /\ command # "library"
  /\ stage \in {"check_platform", "hash"} /\ detection = None
  /\ exit' = "error"
  /\ UNCHANGED <<identifyVars, command>>

Step == exit = "none" /\ IdentifyNext /\ UNCHANGED <<command, exit>>

Fail ==
  /\ exit = "none" /\ stage = "raised" /\ command # "library"
  /\ exit' = WorkflowExit(raised)
  /\ UNCHANGED <<identifyVars, command>>

Answer ==
  /\ exit = "none" /\ stage = "done" /\ command # "library"
  /\ exit' = CASE command = "identify" -> IdentifyExit
               [] command = "verify" -> VerifyExit
               [] command = "plan-rename" -> PlanExit
               [] command = "rename" -> RenameExit
  /\ UNCHANGED <<identifyVars, command>>

\* The name of the release, or of its region, may have no part that a file name can
\* keep (a title of dots): planning the rename raises a ValueError, which nobody catches.
Unnameable ==
  /\ exit = "none" /\ stage = "done" /\ Canonical # None
  /\ command = "plan-rename" \/ (command = "rename" /\ ~RequestedMismatch)
  /\ exit' = "traceback"
  /\ UNCHANGED <<identifyVars, command>>

Next == RefusePath \/ Step \/ Fail \/ Answer \/ Unnameable

Spec == Init /\ [][Next]_vars

-----------------------------------------------------------------------------
TypeOK == IdentifyTypeOK /\ command \in Commands /\ exit \in Exits

Same(match, release) ==
  match # None /\ match.platform = release.platform /\ match.name = release.name

\* A rename goes on only with a release name that a known-good match of this very
\* file bears, though the name may come from the other one of the two matches, and
\* although each match is verified by itself.
NamesKnownGood ==
  exit = "apply" =>
    /\ Canonical # None
    /\ \E match \in {physical, normalized} :
         Same(match, Canonical) /\ VerifyRelease(match) = "known_good"
    /\ \A match \in {physical, normalized} \ {None} :
         Same(match, Canonical) /\ VerifyRelease(match) \notin {"known_bad", "conflict"}

\* The commands do not contradict each other on one file: what verify calls bad or
\* conflicting is neither planned as safe nor renamed, and rename goes on exactly
\* with the plans plan-rename calls safe, mismatched identities apart.
CommandsAgree ==
  stage = "done" =>
    /\ VerifyExit = "conflict" => PlanExit = "conflict" /\ RenameExit = "conflict"
    /\ RenameExit = "apply" <=> PlanExit = "ok" /\ ~RequestedMismatch

\* A successful identify names a platform the local evidence supports: an
\* unambiguous detection is never contradicted by exit code 0.
OkAgreesWithDetection ==
  command = "identify" /\ exit = "ok" /\ Canonical # None /\ detection.best # None =>
    IsAmbiguous(detection) \/ Canonical.platform = detection.best

\* The last progress line and the exit code of identify tell the same story: the
\* line fails exactly on a conflict, and only exit code 0 is announced as success.
ProgressAgrees ==
  command = "identify" /\ stage = "done" /\ exit # "none" =>
    /\ ProgressSymbol = "cross" <=> exit = "conflict"
    /\ ProgressSymbol = "check" => exit = "ok"

\* A requested identity that a restricted run refuses is a conflict or unresolved
\* for every command, and no restricted rename goes on without the very identifier.
RestrictedRename ==
  exit = "apply" /\ selection.identity # None =>
    LocalPrimaryIdentifier(structure.metadata, selection.platform)
      \in (IF selection.restrict THEN {selection.identity} ELSE {selection.identity, None})

\* What identify tells its caller, by its exit code and by the progress line, is what the
\* evidence says.
IdentifyIsHonest == OkAgreesWithDetection /\ ProgressAgrees

\* A restriction and a requested identity are kept from the preflight to the rename.
RestrictionKept == RestrictionHolds /\ RestrictedRename

-----------------------------------------------------------------------------
\* What the documentation says of the commands.

\* docs/cli.md, exit codes: 4 is for "Conflicting evidence, known-bad verification, or
\* another explicit conflict result"; here conflicting evidence is what identify reports
\* so, between the two lookups or between the platform detected and the one looked up.
\* It is only about commands that end with an exit code of their own.
ConflictsReturn4 ==
  /\ command \in {"verify", "plan-rename", "rename"} /\ stage = "done"
  /\ exit \notin {"none", "traceback"}
  /\ Conflict \/ HasKnownBad(physical, normalized)
  => exit = "conflict"

\* docs/cli.md, exit codes: 5 is for an operational failure.
OperationalFailureReturns5 ==
  command # "library" /\ stage = "raised" /\ raised \in {"routing", "backend", "provider", "contract", "os_error"}
    => exit \in {"none", "error"}
=================================================================================
