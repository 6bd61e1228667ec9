---------------------------------- MODULE Routing ----------------------------------
(***************************************************************************)
(* The four composites that a runtime builds for one selection             *)
(* (defaults.py): the platform detector, the structural inspector and the  *)
(* normalizer share the preferred platform and the restriction, which the  *)
(* integrity verifier does not have.  identify_file calls the first three  *)
(* for a file; none of them sees the others' answers, so a behaviour is    *)
(* one call of one of them, and the others stay as they were built.        *)
(***************************************************************************)
EXTENDS NormalizerRouting, Sequences, SequencesExt

CONSTANTS
  Inspectors, OwnedByInspector,  \* the registered inspectors and their platforms
  DetectorOrder, OwnedByDetector,    \* the registered detectors, in their order
  Reports,                       \* what a detector may report
  VerifierOrder                      \* the registered verifiers, in their order

ASSUME InspectorAssumption == OwnedByInspector \in [Inspectors -> SUBSET Platforms]
ASSUME DetectorAssumption ==
  /\ DetectorOrder \in Seq(ToSet(DetectorOrder))
  /\ IsInjective(DetectorOrder)
  /\ OwnedByDetector \in [ToSet(DetectorOrder) -> SUBSET Platforms]
  /\ \A report \in Reports : report \in Seq([platform : Platforms, confidence : 0..100])
  /\ None \notin Reports
ASSUME VerifierAssumption ==
  /\ VerifierOrder \in Seq(ToSet(VerifierOrder))
  /\ IsInjective(VerifierOrder)
ASSUME NoneIsNoComponent == None \notin Inspectors \cup ToSet(DetectorOrder)

VARIABLES
  called,                                    \* the composite that is called
  detection, waiting, reported, candidates,  \* the platform detector
  group, unasked, asked, matches, result,    \* the structural inspector
  unprobed, statuses, chosen, report         \* the integrity verifier

detectorVars == <<detection, waiting, reported, candidates>>
inspectorVars == <<group, unasked, asked, matches, result>>
verifierVars == <<unprobed, statuses, chosen, report>>
allVars == <<called, vars, detectorVars, inspectorVars, verifierVars>>

Detector == INSTANCE PlatformDetection
              WITH Registered <- DetectorOrder, Owned <- OwnedByDetector,
                   phase <- detection, todo <- waiting

Inspector == INSTANCE InspectionRouting WITH Owned <- OwnedByInspector, todo <- unasked

Verifier == INSTANCE IntegrityRouting
              WITH Registered <- VerifierOrder, todo <- unprobed, probes <- statuses

Composites == {"detector", "inspector", "normalizer", "verifier"}

RoutingInit ==
  /\ called \in Composites
  /\ Init /\ Detector!Init /\ Inspector!Init /\ Verifier!Init

Detect == /\ called = "detector"
          /\ Detector!Next
          /\ UNCHANGED <<called, inspectorVars, verifierVars, phase, todo, probes, outcome>>

Inspect == /\ called = "inspector"
           /\ Inspector!Next
           /\ UNCHANGED <<called, detectorVars, verifierVars, phase, todo, probes, outcome>>

Normalize == /\ called = "normalizer"
             /\ Next
             /\ UNCHANGED <<called, detectorVars, inspectorVars, verifierVars>>

VerifyIntegrity == /\ called = "verifier"
                   /\ Verifier!Next
                   /\ UNCHANGED <<called, vars, detectorVars, inspectorVars>>

RoutingNext == Detect \/ Inspect \/ Normalize \/ VerifyIntegrity

RoutingSpec == RoutingInit /\ [][RoutingNext]_allVars

-----------------------------------------------------------------------------
\* The types of the four composites.
RoutingTypeOK ==
  called \in Composites /\ TypeOK /\ Detector!TypeOK /\ Inspector!TypeOK

\* "Restricted routing invokes only components that own the requested platform": all three
\* composites that know of platforms keep to it, the normalizers as in RestrictionHolds.
RestrictionHoldsEverywhere ==
  RestrictionHolds /\ Detector!RestrictionHolds /\ Inspector!RestrictionHolds

\* A wrong hint is harmless: one that the file does not bear out leaves the detection as it
\* is without one, and the inspector neither gives a file up nor settles for evidence of
\* the hinted group too early.
HintsAreHarmless == Detector!WrongHintIsHarmless /\ Inspector!NothingOverlooked

\* The inspector decides like a router, and so does the verifier: claims and failures of
\* all components that were asked count, whatever the order.
OthersAreRouters == Inspector!RouterSpec /\ Verifier!RouterSpec
=====================================================================================
