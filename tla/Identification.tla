----------------------------- MODULE Identification -----------------------------
(***************************************************************************)
(* identification.identify_file: one file, up to two provider lookups and  *)
(* the local stages around them.  What a stage reports is chosen freely:   *)
(* no stage knows what another one has seen, and the file may be another   *)
(* one by the time the next stage opens it.  Each stage can also raise.    *)
(***************************************************************************)
EXTENDS Evidence

CONSTANTS
  Detections,  \* what platform detection may report
  Inspections, \* what an applicable structural inspector may return
  Extractions, \* what a normalizer may return beside the content
  Matches      \* what the provider may answer

ASSUME StageAssumption ==
  /\ Detections \subseteq PlatformDetection
  /\ Inspections \subseteq InspectionResult
  /\ Extractions \subseteq Structure
  /\ Matches \subseteq CanonicalRelease
  /\ None \notin Detections \cup Matches

VARIABLES
  settings,   \* the components and options the caller passes
  selection,  \* the requested platform or identity
  stage,      \* the stage that comes next
  detection, physical, physicalLookup,
  structure,  \* representation and local metadata, from both sources
  normalization,  \* what came of it: nothing yet, skipped, unsupported, content
  normalized, normalizedLookup,
  raised      \* the class of the exception that ended it

evidence == <<detection, physical, physicalLookup, structure, normalization,
              normalized, normalizedLookup>>
identifyVars == <<settings, selection, stage, evidence, raised>>

Nothing == [representation |-> None, metadata |-> None]

\* IdentificationSelection: an identity implies its platform, and a restriction
\* needs one.
Selections ==
  {s \in [platform : Platforms \cup {None}, identity : Identifiers \cup {None},
          restrict : BOOLEAN] :
     s.platform = None => s.identity = None /\ ~s.restrict}

Settings == [inspector : BOOLEAN, normalizer : BOOLEAN, force : BOOLEAN]

Preflight == {"check_platform", "check_identity"}
Stages == Preflight \cup {"hash", "detect", "lookup", "inspect", "normalize",
                          "lookup_normalized", "done", "raised"}
Exceptions == {"identity_mismatch", "identity_unresolved", "platform_unresolved",
               "ambiguous_inspector", "contract", "provider", "os_error",
               "routing", "backend"}

IdentifyInit ==
  /\ settings \in Settings
  /\ selection \in Selections
  /\ stage = IF selection.restrict THEN "check_platform" ELSE "hash"
  /\ detection = None
  /\ physical = None /\ physicalLookup = "not_attempted"
  /\ structure = Nothing
  /\ normalization = "pending"
  /\ normalized = None /\ normalizedLookup = "not_attempted"
  /\ raised = None

Goto(next) == stage' = next /\ UNCHANGED <<settings, selection, raised>>

Raise(exception) ==
  /\ stage' = "raised"
  /\ raised' = exception
  /\ UNCHANGED <<settings, selection>>

-----------------------------------------------------------------------------
\* Wrong on purpose: the check of the restricted platform forgets that nothing may
\* have been detected.
CheckPlatformLoosely ==
  /\ stage = "check_platform"
  /\ detection' \in Detections
  /\ UNCHANGED <<physical, physicalLookup, structure, normalization, normalized,
                 normalizedLookup>>
  /\ IF detection'.best \in {None, selection.platform}
       THEN Goto(IF selection.identity = None THEN "hash" ELSE "check_identity")
       ELSE Raise(IF selection.identity = None THEN "platform_unresolved"
                                               ELSE "identity_unresolved")

\* A restricted selection comes first: without local evidence for the requested
\* platform nothing else is done.
CheckPlatform ==
  /\ stage = "check_platform"
  /\ UNCHANGED <<physical, physicalLookup, structure, normalization, normalized,
                 normalizedLookup>>
  /\ \/ /\ detection' \in Detections
        /\ IF detection'.best = selection.platform
             THEN Goto(IF selection.identity = None THEN "hash" ELSE "check_identity")
             ELSE Raise(IF selection.identity = None THEN "platform_unresolved"
                                                     ELSE "identity_unresolved")
     \/ UNCHANGED detection /\ Raise("os_error")

\* The requested identifier must be the observed one, and observed at all; no
\* inspector, or none that recognises the file, observes nothing.
CheckIdentity ==
  /\ stage = "check_identity"
  /\ UNCHANGED <<detection, physical, physicalLookup, normalization, normalized,
                 normalizedLookup>>
  /\ \/ /\ settings.inspector
        /\ structure' \in Inspections \cup {Nothing}
        /\ LET observed == LocalPrimaryIdentifier(structure'.metadata, selection.platform)
           IN  IF observed = None THEN Raise("identity_unresolved")
               ELSE IF observed # selection.identity THEN Raise("identity_mismatch")
               ELSE Goto("hash")
     \/ ~settings.inspector /\ UNCHANGED structure /\ Raise("identity_unresolved")
     \/ /\ settings.inspector
        /\ UNCHANGED structure
        /\ \E e \in {"ambiguous_inspector", "contract", "os_error"} : Raise(e)

\* The hashes of the physical file: what they are does not matter here, only that
\* the file can be read.
Hash ==
  /\ stage = "hash"
  /\ UNCHANGED evidence
  /\ \/ Goto(IF detection = None THEN "detect" ELSE "lookup")
     \/ Raise("os_error")

Detect ==
  /\ stage = "detect"
  /\ UNCHANGED <<physical, physicalLookup, structure, normalization, normalized,
                 normalizedLookup>>
  /\ \/ detection' \in Detections /\ Goto("lookup")
     \/ UNCHANGED detection /\ Raise("os_error")

\* resolver.identify: an unavailable provider is an outcome, an invalid answer or a
\* connection that breaks while it is read is not.
LookUpPhysical ==
  /\ stage = "lookup"
  /\ UNCHANGED <<detection, structure, normalization, normalized, normalizedLookup>>
  /\ \/ physical' \in Matches /\ physicalLookup' = "matched" /\ Goto("inspect")
     \/ /\ UNCHANGED physical
        /\ physicalLookup' \in {"no_match", "unavailable"}
        /\ Goto("inspect")
     \/ /\ UNCHANGED <<physical, physicalLookup>>
        /\ \E e \in {"provider", "os_error"} : Raise(e)

\* The inspection of the preflight is not repeated.
Inspect ==
  /\ stage = "inspect"
  /\ UNCHANGED <<detection, physical, physicalLookup, normalization, normalized,
                 normalizedLookup>>
  /\ \/ /\ settings.inspector /\ structure = Nothing
        /\ structure' \in Inspections \cup {Nothing}
        /\ Goto("normalize")
     \/ /\ ~settings.inspector \/ structure # Nothing
        /\ UNCHANGED structure
        /\ Goto("normalize")
     \/ /\ settings.inspector /\ structure = Nothing
        /\ UNCHANGED structure
        /\ \E e \in {"ambiguous_inspector", "contract", "os_error"} : Raise(e)

MustNormalize ==
  ShouldNormalize(settings, physical, physicalLookup, detection, structure.metadata)

SkipNormalization ==
  /\ stage = "normalize"
  /\ ~MustNormalize
  /\ normalization' = "skipped"
  /\ Goto("done")
  /\ UNCHANGED <<detection, physical, physicalLookup, structure, normalized,
                 normalizedLookup>>

\* Wrong on purpose: the normalizer's evidence is merged without the check.
NormalizeUnchecked ==
  /\ stage = "normalize"
  /\ MustNormalize
  /\ UNCHANGED <<detection, physical, physicalLookup, normalized, normalizedLookup>>
  /\ \E found \in Extractions :
       /\ structure' = [representation |-> MergeLatest(structure.representation,
                                                       found.representation),
                        metadata |-> MergeLatest(structure.metadata, found.metadata)]
       /\ normalization' = "content"
       /\ Goto("lookup_normalized")

\* normalizer.identify: a file that no normalizer supports stays without content;
\* evidence that contradicts the inspector's is refused.
Normalize ==
  /\ stage = "normalize"
  /\ MustNormalize
  /\ UNCHANGED <<detection, physical, physicalLookup, normalized, normalizedLookup>>
  /\ \/ \E found \in Extractions :
          IF /\ Agree(structure.representation, found.representation)
             /\ Agree(structure.metadata, found.metadata)
            THEN /\ structure' = [representation |-> Merge(structure.representation,
                                                           found.representation),
                                  metadata |-> Merge(structure.metadata, found.metadata)]
                 /\ normalization' = "content"
                 /\ Goto("lookup_normalized")
            ELSE UNCHANGED <<structure, normalization>> /\ Raise("contract")
     \/ /\ UNCHANGED structure
        /\ normalization' = "unsupported"
        /\ Goto("done")
     \/ /\ UNCHANGED <<structure, normalization>>
        /\ \E e \in {"routing", "backend", "contract", "os_error"} : Raise(e)

LookUpNormalized ==
  /\ stage = "lookup_normalized"
  /\ UNCHANGED <<detection, physical, physicalLookup, structure, normalization>>
  /\ \/ normalized' \in Matches /\ normalizedLookup' = "matched" /\ Goto("done")
     \/ /\ UNCHANGED normalized
        /\ normalizedLookup' \in {"no_match", "unavailable"}
        /\ Goto("done")
     \/ /\ UNCHANGED <<normalized, normalizedLookup>>
        /\ \E e \in {"provider", "os_error"} : Raise(e)

IdentifyNext ==
  \/ CheckPlatform \/ CheckIdentity \/ Hash \/ Detect \/ LookUpPhysical
  \/ Inspect \/ SkipNormalization \/ Normalize \/ LookUpNormalized

IdentifySpec == IdentifyInit /\ [][IdentifyNext]_identifyVars

-----------------------------------------------------------------------------
IdentifyTypeOK ==
  /\ settings \in Settings /\ selection \in Selections
  /\ stage \in Stages
  /\ detection \in Detections \cup {None}
  /\ stage \notin Preflight \cup {"hash", "detect", "raised"} => detection # None
  /\ physical \in Matches \cup {None} /\ normalized \in Matches \cup {None}
  /\ physicalLookup \in LookupStatus /\ normalizedLookup \in LookupStatus
  /\ structure \in Structure
  /\ normalization \in {"pending", "skipped", "unsupported", "content"}
  /\ raised \in Exceptions \cup {None}

\* "Hard restrictions exist to avoid unrelated work": from the first hash on, the
\* platform detected is the one a restricted selection asks for, and the identifier
\* observed is the requested one.  This still holds of the finished result, whose
\* own assessment reads the metadata merged with the normalizer's.
RestrictionHolds ==
  stage \notin Preflight \cup {"raised"} /\ selection.restrict =>
    /\ detection # None /\ detection.best = selection.platform
    /\ selection.identity # None =>
         AssessRequestedIdentity(selection, detection, structure.metadata) = "matched"

\* "conflicting evidence is rejected rather than silently overwritten": whatever
\* the inspector has reported is still in the result.
Kept(before, after) == before = None \/ after = before
NeverOverwritten ==
  [][/\ Kept(structure.representation, structure'.representation)
     /\ Kept(structure.metadata, structure'.metadata)]_identifyVars

\* A result whose catalogue match contradicts the detected platform was not taken
\* from the physical lookup alone: where a normalizer is there and the provider
\* answered, the content was normalized too, however strong the physical match.
ConflictCrossChecked ==
  (stage = "done" /\ HasPlatformConflict(detection, physical, normalized))
    => \/ normalization \in {"unsupported", "content"}
       \/ ~settings.normalizer

\* What an identification rests on has been asked for: normalized evidence needs a
\* physical lookup that was answered, unless the caller forces it, so an outage
\* costs neither a normalization nor a second request.
OutageStopsWork ==
  physicalLookup = "unavailable" /\ ~settings.force =>
    /\ normalization \in {"pending", "skipped"}
    /\ normalized = None /\ normalizedLookup = "not_attempted"
=================================================================================
