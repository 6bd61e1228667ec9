------------------------------ MODULE Routing_proofs ------------------------------
(***************************************************************************)
(* What routing promises for every set of normalizers, detectors,          *)
(* inspectors and verifiers, whatever platforms they own and whatever they *)
(* report or their probes answer.                                          *)
(***************************************************************************)
EXTENDS Routing, Selection_proofs, SequenceTheorems, TLAPS

\* What the phases know: which group is being probed, and which has been.  The
\* groups are kept apart by todo, which never returns to a probed normalizer.
PhaseInv ==
  /\ restrict => preferred # None
  /\ phase = "preferred" => /\ todo \subseteq PreferredGroup
                            /\ outcome = <<"open">>
                            /\ \A n \in Normalizers :
                                 n \in todo \/ n \notin PreferredGroup <=> probes[n] = "none"
  /\ phase = "remaining" => /\ ~restrict
                            /\ outcome = <<"open">>
                            /\ \A n \in Normalizers : n \notin todo => probes[n] # "none"
  /\ phase = "select" => outcome = <<"open">>
  /\ phase = "identify" => \E n \in Normalizers : outcome = <<"chosen", n>>
  /\ phase = "done" => outcome # <<"open">>

Inv == TypeOK /\ PhaseInv /\ RestrictionHolds /\ PreferenceFallsBack

\* The invariant holds of every routing.
THEOREM RoutingInvariance == Spec => []Inv
<1>1. Init => Inv
  BY OwnedAssumption, NoneAssumption
  DEF Init, Inv, TypeOK, PhaseInv, RestrictionHolds, PreferenceFallsBack,
      PreferredGroup, ProbeStatus, Failed
<1>2. ASSUME Inv, [Next]_vars PROVE Inv'
  <2> USE <1>2 DEF Inv
  <2>1. ASSUME NEW n \in Normalizers, Probe(n) PROVE Inv'
    <3>1. TypeOK'
      BY <2>1 DEF Probe, End, TypeOK, PhaseInv, ProbeStatus, Failed
    <3>2. PhaseInv'
      <4>1. CASE phase' = "done"
        BY <2>1, <4>1 DEF Probe, End, TypeOK, PhaseInv
      <4>2. CASE phase' = phase
        <5>1. PICK status \in ProbeStatus : probes' = [probes EXCEPT ![n] = status]
          BY <2>1, <4>2 DEF Probe, End
        <5>2. /\ todo' = todo \ {n} /\ n \in todo
              /\ UNCHANGED <<preferred, restrict, phase, outcome>>
              /\ phase \in {"preferred", "remaining"}
          BY <2>1, <4>2 DEF Probe, End
        <5>3. /\ status # "none" /\ PreferredGroup' = PreferredGroup
              /\ \A m \in Normalizers : probes'[m] = IF m = n THEN status ELSE probes[m]
          BY <5>1, <5>2 DEF ProbeStatus, Failed, TypeOK, PreferredGroup
        <5> QED BY <5>2, <5>3 DEF PhaseInv
      <4> QED BY <2>1, <4>1, <4>2 DEF Probe, End
    <3>3. RestrictionHolds'
      BY <2>1 DEF Probe, End, TypeOK, PhaseInv, RestrictionHolds, PreferredGroup
    <3>4. PreferenceFallsBack'
      BY <2>1 DEF Probe, End, TypeOK, PhaseInv, PreferenceFallsBack, PreferredGroup
    <3> QED BY <3>1, <3>2, <3>3, <3>4
  <2>2. CASE EndOfPreferred
    <3>1. TypeOK' /\ PhaseInv'
      BY <2>2 DEF EndOfPreferred, TypeOK, PhaseInv, PreferredGroup, ProbeStatus, Failed
    <3>2. RestrictionHolds' /\ PreferenceFallsBack'
      BY <2>2 DEF EndOfPreferred, TypeOK, PhaseInv, RestrictionHolds,
                  PreferenceFallsBack, PreferredGroup
    <3> QED BY <3>1, <3>2
  <2>3. CASE EndOfRemaining
    BY <2>3 DEF EndOfRemaining, TypeOK, PhaseInv, RestrictionHolds,
                PreferenceFallsBack, PreferredGroup
  <2>4. CASE Select
    <3>1. TypeOK' /\ PhaseInv'
      BY <2>4 DEF Select, End, TypeOK, PhaseInv, PreferredGroup, Supporting
    <3>2. RestrictionHolds' /\ PreferenceFallsBack'
      BY <2>4 DEF Select, End, TypeOK, PhaseInv, RestrictionHolds,
                  PreferenceFallsBack, PreferredGroup
    <3> QED BY <3>1, <3>2
  <2>5. CASE Identify
    BY <2>5 DEF Identify, TypeOK, PhaseInv, RestrictionHolds,
                PreferenceFallsBack, PreferredGroup
  <2>6. CASE UNCHANGED vars
    BY <2>6 DEF vars, TypeOK, PhaseInv, RestrictionHolds, PreferenceFallsBack, PreferredGroup
  <2> QED BY <2>1, <2>2, <2>3, <2>4, <2>5, <2>6 DEF Next
<1> QED BY <1>1, <1>2, PTL DEF Spec

\* The state stays well typed and no normalizer is probed twice.
THEOREM RoutingTypeCorrect == Spec => []TypeOK
BY RoutingInvariance, PTL DEF Inv

\* Restricted routing never starts a normalizer of another platform.
THEOREM RestrictedRouting == Spec => []RestrictionHolds
BY RoutingInvariance, PTL DEF Inv

\* Without a claim of the preferred group every normalizer is asked.
THEOREM SoftPreference == Spec => []PreferenceFallsBack
BY RoutingInvariance, PTL DEF Inv

\* Every routing is one of Router: the order of the probes, the groups and the
\* preference decide nothing that the claims and the failures do not.
THEOREM ImplementsRouter == Spec => RouterSpec
<1>1. Init => Routed!Init
  BY DEF Init, Routed!Init, Supporting, Terminal, Decision, Failed
<1>2. ASSUME Inv, [Next]_vars
      PROVE [Routed!Next]_<<Supporting, Terminal, Decision>>
  <2> USE <1>2 DEF Inv
  <2>1. ASSUME NEW n \in Normalizers, Probe(n)
        PROVE [Routed!Next]_<<Supporting, Terminal, Decision>>
    <3>1. outcome = <<"open">>
      BY <2>1 DEF Probe, PhaseInv
    <3>2. CASE UNCHANGED probes /\ End(<<"contract">>)
      <4>1. Routed!Break
        BY <3>1, <3>2 DEF End, Routed!Break, Supporting, Terminal, Decision
      <4> QED BY <4>1 DEF Routed!Next
    <3>3. ASSUME NEW status \in ProbeStatus,
                 probes' = [probes EXCEPT ![n] = status], UNCHANGED outcome
          PROVE [Routed!Next]_<<Supporting, Terminal, Decision>>
      <4>1. probes[n] = "none"
        BY <2>1 DEF Probe, TypeOK
      <4>2. CASE status = "supported"
        <5>1. Supporting' = Supporting \cup {n} /\ Terminal' = Terminal
          BY <3>3, <4>1, <4>2 DEF Supporting, Terminal, TypeOK, Failed
        <5>2. Routed!Claim(n)
          BY <3>1, <3>3, <5>1 DEF Routed!Claim, Decision
        <5> QED BY <5>2 DEF Routed!Next
      <4>3. CASE status \in Failed
        <5>1. Terminal' = Terminal \cup {n} /\ Supporting' = Supporting
          BY <3>3, <4>1, <4>3 DEF Supporting, Terminal, TypeOK, Failed
        <5>2. Routed!Failure(n)
          BY <3>1, <3>3, <5>1 DEF Routed!Failure, Decision
        <5> QED BY <5>2 DEF Routed!Next
      <4>4. CASE status = "unsupported"
        <5>1. Terminal' = Terminal /\ Supporting' = Supporting
          BY <3>3, <4>1, <4>4 DEF Supporting, Terminal, TypeOK, Failed
        <5> QED BY <3>3, <5>1 DEF Decision
      <4> QED BY <4>2, <4>3, <4>4 DEF ProbeStatus
    <3> QED BY <2>1, <3>2, <3>3 DEF Probe
  <2>2. CASE Select
    <3>1. /\ Supporting' = Supporting /\ Terminal' = Terminal
          /\ Decision = <<"open">>
          /\ Decision' = outcome'
      BY <2>2 DEF Select, End, PhaseInv, Supporting, Terminal, Decision
    <3>2. \/ \E m, n \in Supporting : m # n /\ outcome' = <<"ambiguous">>
          \/ \E n \in Supporting : Supporting = {n} /\ outcome' = <<"chosen", n>>
          \/ Supporting = {} /\ Terminal # {} /\ outcome' = <<"failed">>
          \/ Supporting = {} /\ Terminal = {} /\ outcome' = <<"unsupported">>
      BY <2>2 DEF Select, End
    <3>3. Routed!Decide
      BY <3>1, <3>2 DEF Routed!Decide
    <3> QED BY <3>3 DEF Routed!Next
  <2>3. CASE EndOfPreferred \/ EndOfRemaining \/ Identify \/ UNCHANGED vars
    BY <2>3 DEF EndOfPreferred, EndOfRemaining, Identify, vars, Supporting, Terminal, Decision
  <2> QED BY <2>1, <2>2, <2>3 DEF Next
<1> QED BY <1>1, <1>2, RoutingInvariance, PTL DEF Spec, RouterSpec, Routed!Spec

-----------------------------------------------------------------------------
(***************************************************************************)
(* The inspector and the verifier.                                         *)
(***************************************************************************)
\* The selection of the composites is the same for all, and is not changed.
LEMMA SelectionStays ==
  ASSUME [RoutingNext]_allVars PROVE UNCHANGED <<preferred, restrict>>
BY DEF RoutingNext, Detect, Inspect, Normalize, VerifyIntegrity, allVars, vars,
       Next, Probe, End, EndOfPreferred, EndOfRemaining, Select, Identify,
       Detector!Next, Detector!RunDetector, Detector!EndOfPreferred,
       Detector!EndOfRemaining, Inspector!Next, Inspector!Inspect,
       Inspector!FallBack, Inspector!Conclude

LEMMA InspectorStep ==
  ASSUME [RoutingNext]_allVars
  PROVE  [Inspector!Routed!Next]_<<matches, {}, result>>
<1>1. ASSUME NEW i \in Inspectors, Inspector!Inspect(i)
      PROVE  [Inspector!Routed!Next]_<<matches, {}, result>>
  <2>1. CASE matches' = matches \cup {i} /\ result' = result
    <3>1. Inspector!Routed!Claim(i)
      BY <1>1, <2>1 DEF Inspector!Inspect, Inspector!Routed!Claim
    <3> QED
      BY <3>1 DEF Inspector!Routed!Next
  <2>2. CASE matches' = matches /\ result' = <<"contract">>
    <3>1. Inspector!Routed!Break
      BY <1>1, <2>2 DEF Inspector!Inspect, Inspector!Routed!Break
    <3> QED
      BY <3>1 DEF Inspector!Routed!Next
  <2>3. CASE matches' = matches /\ result' = result
    BY <2>3
  <2> QED
    BY <1>1, <2>1, <2>2, <2>3 DEF Inspector!Inspect
<1>2. CASE Inspector!Conclude
  <2>1. Inspector!Routed!Decide
    BY <1>2 DEF Inspector!Conclude, Inspector!Routed!Decide
  <2> QED
    BY <2>1 DEF Inspector!Routed!Next
<1>3. CASE Inspector!FallBack \/ UNCHANGED inspectorVars
  BY <1>3 DEF Inspector!FallBack, inspectorVars
<1> QED
  BY <1>1, <1>2, <1>3
  DEF RoutingNext, Detect, Inspect, Normalize, VerifyIntegrity, Inspector!Next, allVars

\* No verifier is probed twice: those that are still to be probed have no answer yet.
Statuses == {"none", "unsupported", "supported"} \cup Verifier!Failed

VerifierInv ==
  /\ unprobed \in Seq(Verifier!Verifiers)
  /\ statuses \in [Verifier!Verifiers -> Statuses]
  /\ \A i, j \in 1..Len(unprobed) : unprobed[i] = unprobed[j] => i = j
  /\ \A i \in 1..Len(unprobed) : statuses[unprobed[i]] = "none"

LEMMA VerifierInvInit == RoutingInit => VerifierInv
<1> SUFFICES ASSUME RoutingInit PROVE VerifierInv
  OBVIOUS
<1>1. unprobed = VerifierOrder /\ statuses = [v \in Verifier!Verifiers |-> "none"]
  BY DEF RoutingInit, Verifier!Init
<1>2. VerifierOrder \in Seq(Verifier!Verifiers)
  BY VerifierAssumption DEF Verifier!Verifiers, Verifier!ToSet, ToSet
<1>3. \A i, j \in 1..Len(unprobed) : unprobed[i] = unprobed[j] => i = j
  BY <1>1, <1>2, VerifierAssumption DEF IsInjective
<1>4. \A i \in 1..Len(unprobed) : unprobed[i] \in Verifier!Verifiers
  BY <1>1, <1>2
<1> QED
  BY <1>1, <1>2, <1>3, <1>4 DEF VerifierInv, Statuses

\* A probe answers for the first of those that are left, and for no other.
LEMMA VerifierProbed ==
  ASSUME VerifierInv, unprobed # <<>>, NEW status \in Statuses,
         statuses' = [statuses EXCEPT ![Head(unprobed)] = status],
         unprobed' = Tail(unprobed)
  PROVE  /\ Head(unprobed) \in Verifier!Verifiers
         /\ statuses[Head(unprobed)] = "none"
         /\ VerifierInv'
<1> DEFINE v == Head(unprobed)
<1>1. /\ v \in Verifier!Verifiers /\ v = unprobed[1]
      /\ Len(unprobed) \in Nat \ {0}
      /\ Tail(unprobed) \in Seq(Verifier!Verifiers)
      /\ Len(Tail(unprobed)) = Len(unprobed) - 1
      /\ \A i \in 1..Len(Tail(unprobed)) : Tail(unprobed)[i] = unprobed[i + 1]
  BY HeadTailProperties, EmptySeq DEF VerifierInv
<1>2. statuses[v] = "none"
  BY <1>1 DEF VerifierInv
<1>3. (Verifier!Verifiers)' = Verifier!Verifiers /\ Statuses' = Statuses
  BY DEF Verifier!Verifiers, Statuses, Verifier!Failed
<1>4. statuses' \in [Verifier!Verifiers -> Statuses]
  BY <1>1 DEF VerifierInv
<1>5. ASSUME NEW i \in 1..Len(unprobed'), NEW j \in 1..Len(unprobed'),
             unprobed'[i] = unprobed'[j]
      PROVE  i = j
  BY <1>1, <1>5 DEF VerifierInv
<1>6. ASSUME NEW i \in 1..Len(unprobed') PROVE statuses'[unprobed'[i]] = "none"
  <2>1. /\ i + 1 \in 1..Len(unprobed) /\ unprobed'[i] = unprobed[i + 1]
        /\ unprobed[i + 1] # v
    BY <1>1 DEF VerifierInv
  <2>2. unprobed[i + 1] \in Verifier!Verifiers /\ statuses[unprobed[i + 1]] = "none"
    BY <2>1 DEF VerifierInv
  <2> QED
    BY <2>1, <2>2, <1>4 DEF VerifierInv
<1> HIDE DEF v
<1> QED
  BY <1>1, <1>2, <1>3, <1>4, <1>5, <1>6 DEF VerifierInv, v

LEMMA VerifierInvStep ==
  ASSUME VerifierInv, [RoutingNext]_allVars PROVE VerifierInv'
<1>1. CASE UNCHANGED <<unprobed, statuses>>
  <2>1. (Verifier!Verifiers)' = Verifier!Verifiers /\ Statuses' = Statuses
    BY DEF Verifier!Verifiers, Statuses, Verifier!Failed
  <2> QED
    BY <1>1, <2>1 DEF VerifierInv
<1>2. ASSUME NEW status \in Statuses, unprobed # <<>>,
             statuses' = [statuses EXCEPT ![Head(unprobed)] = status],
             unprobed' = Tail(unprobed)
      PROVE  VerifierInv'
  BY <1>2, VerifierProbed
<1>3. CASE Verifier!Probe
  BY <1>1, <1>2, <1>3 DEF Verifier!Probe, Statuses
<1> QED
  BY <1>1, <1>3
  DEF RoutingNext, Detect, Inspect, Normalize, VerifyIntegrity, Verifier!Next,
      Verifier!Select, Verifier!Verify, allVars, verifierVars

LEMMA VerifierStep ==
  ASSUME VerifierInv, [RoutingNext]_allVars
  PROVE  [Verifier!Routed!Next]_<<Verifier!Supporting, Verifier!Terminal, chosen>>
<1>1. CASE UNCHANGED <<statuses, chosen>>
  BY <1>1 DEF Verifier!Supporting, Verifier!Terminal, Verifier!Verifiers, Verifier!Failed
<1>2. CASE Verifier!Probe
  <2>1. CASE chosen' = <<"contract">> /\ UNCHANGED statuses
    <3>1. Verifier!Routed!Break
      BY <1>2, <2>1
      DEF Verifier!Probe, Verifier!Routed!Break, Verifier!Supporting, Verifier!Terminal,
          Verifier!Verifiers, Verifier!Failed
    <3> QED
      BY <3>1 DEF Verifier!Routed!Next
  <2>2. ASSUME NEW status \in {"unsupported", "supported"} \cup Verifier!Failed,
               statuses' = [statuses EXCEPT ![Head(unprobed)] = status],
               unprobed' = Tail(unprobed), UNCHANGED chosen
        PROVE  [Verifier!Routed!Next]_<<Verifier!Supporting, Verifier!Terminal, chosen>>
    <3> DEFINE v == Head(unprobed)
    <3>1. v \in Verifier!Verifiers /\ statuses[v] = "none"
      BY <1>2, <2>2, VerifierProbed DEF Verifier!Probe, Statuses
    <3>2. /\ chosen = <<"open">>
          /\ statuses \in [Verifier!Verifiers -> Statuses]
          /\ statuses' = [statuses EXCEPT ![v] = status]
          /\ chosen' = chosen
      BY <1>2, <2>2 DEF Verifier!Probe, VerifierInv
    <3> HIDE DEF v
    <3>3. CASE status = "supported"
      <4>1. /\ (Verifier!Supporting)' = Verifier!Supporting \cup {v}
            /\ (Verifier!Terminal)' = Verifier!Terminal
        BY <3>1, <3>2, <3>3
        DEF Verifier!Supporting, Verifier!Terminal, Verifier!Verifiers, Verifier!Failed
      <4>2. Verifier!Routed!Claim(v)
        BY <3>1, <3>2, <4>1 DEF Verifier!Routed!Claim
      <4> QED
        BY <3>1, <4>2 DEF Verifier!Routed!Next
    <3>4. CASE status \in Verifier!Failed
      <4>1. /\ (Verifier!Terminal)' = Verifier!Terminal \cup {v}
            /\ (Verifier!Supporting)' = Verifier!Supporting
        BY <3>1, <3>2, <3>4
        DEF Verifier!Supporting, Verifier!Terminal, Verifier!Verifiers, Verifier!Failed
      <4>2. Verifier!Routed!Failure(v)
        BY <3>1, <3>2, <4>1 DEF Verifier!Routed!Failure
      <4> QED
        BY <3>1, <4>2 DEF Verifier!Routed!Next
    <3>5. CASE status = "unsupported"
      BY <3>1, <3>2, <3>5
      DEF Verifier!Supporting, Verifier!Terminal, Verifier!Verifiers, Verifier!Failed
    <3> QED
      BY <3>3, <3>4, <3>5
  <2> QED
    BY <1>2, <2>1, <2>2 DEF Verifier!Probe
<1>3. CASE Verifier!Select
  <2>1. /\ (Verifier!Supporting)' = Verifier!Supporting
        /\ (Verifier!Terminal)' = Verifier!Terminal
    BY <1>3 DEF Verifier!Select, Verifier!Supporting, Verifier!Terminal,
                Verifier!Verifiers, Verifier!Failed
  <2>2. Verifier!Routed!Decide
    BY <1>3, <2>1 DEF Verifier!Select, Verifier!Routed!Decide
  <2> QED
    BY <2>2 DEF Verifier!Routed!Next
<1> QED
  BY <1>1, <1>2, <1>3
  DEF RoutingNext, Detect, Inspect, Normalize, VerifyIntegrity, Verifier!Next,
      Verifier!Verify, allVars, verifierVars

\* The inspector and the verifier are routers too: each decides once, on nothing but the
\* claims and the failures, whatever is asked first.
THEOREM TheOthersAreRouters == RoutingSpec => OthersAreRouters
<1>1. RoutingInit => Inspector!Routed!Init /\ Verifier!Routed!Init
  BY DEF RoutingInit, Inspector!Init, Inspector!Routed!Init, Verifier!Init,
         Verifier!Routed!Init, Verifier!Supporting, Verifier!Terminal, Verifier!Failed
<1>2. RoutingSpec => Inspector!RouterSpec
  BY <1>1, InspectorStep, PTL DEF RoutingSpec, Inspector!RouterSpec, Inspector!Routed!Spec
<1>3. RoutingSpec => Verifier!RouterSpec
  BY <1>1, VerifierInvInit, VerifierInvStep, VerifierStep, PTL
  DEF RoutingSpec, Verifier!RouterSpec, Verifier!Routed!Spec
<1> QED
  BY <1>2, <1>3 DEF OthersAreRouters

\* The inspectors that have answered: of the group that is asked, all but those that are
\* left, and of the preferred group all when the others are asked.
InspectorInv ==
  /\ restrict \in BOOLEAN
  /\ group \in {Inspector!PreferredGroup, Inspector!Remaining}
  /\ unasked \subseteq group
  /\ matches \subseteq group
  /\ asked = IF group = Inspector!PreferredGroup THEN Inspector!PreferredGroup \ unasked
             ELSE Inspectors \ unasked
  /\ restrict => group = Inspector!PreferredGroup
  /\ Inspector!NothingOverlooked

LEMMA InspectorInvInit == RoutingInit => InspectorInv
BY DEF RoutingInit, Inspector!Init, InspectorInv, Inspector!PreferredGroup,
       Inspector!Remaining, Inspector!NothingOverlooked

LEMMA InspectorInvStep ==
  ASSUME InspectorInv, [RoutingNext]_allVars PROVE InspectorInv'
<1>1. /\ UNCHANGED <<preferred, restrict>>
      /\ (Inspector!PreferredGroup)' = Inspector!PreferredGroup
      /\ (Inspector!Remaining)' = Inspector!Remaining
  <2>1. UNCHANGED <<preferred, restrict>>
    BY SelectionStays
  <2> QED
    BY <2>1 DEF Inspector!PreferredGroup, Inspector!Remaining
<1>2. Inspector!PreferredGroup \subseteq Inspectors
      /\ Inspector!Remaining = Inspectors \ Inspector!PreferredGroup
  BY DEF Inspector!PreferredGroup, Inspector!Remaining
<1>3. ASSUME NEW i \in Inspectors, Inspector!Inspect(i) PROVE InspectorInv'
  BY <1>1, <1>2, <1>3 DEF Inspector!Inspect, InspectorInv, Inspector!NothingOverlooked
<1>4. CASE Inspector!FallBack
  BY <1>1, <1>2, <1>4 DEF Inspector!FallBack, InspectorInv, Inspector!NothingOverlooked
<1>5. CASE Inspector!Conclude
  BY <1>1, <1>2, <1>5 DEF Inspector!Conclude, InspectorInv, Inspector!NothingOverlooked
<1>6. CASE UNCHANGED inspectorVars
  BY <1>1, <1>2, <1>6 DEF inspectorVars, InspectorInv, Inspector!NothingOverlooked
<1> QED
  BY <1>3, <1>4, <1>5, <1>6
  DEF RoutingNext, Detect, Inspect, Normalize, VerifyIntegrity, Inspector!Next, allVars

\* No inspector that could have known the file is passed over, whatever platform is
\* preferred, and under a restriction no other is asked.
THEOREM NoInspectorOverlooked ==
  RoutingSpec => [](Inspector!NothingOverlooked /\ Inspector!RestrictionHolds)
<1>1. InspectorInv => Inspector!NothingOverlooked /\ Inspector!RestrictionHolds
  BY DEF InspectorInv, Inspector!RestrictionHolds, Inspector!PreferredGroup
<1> QED
  BY <1>1, InspectorInvInit, InspectorInvStep, PTL DEF RoutingSpec

-----------------------------------------------------------------------------
(***************************************************************************)
(* Candidates of a platform, combined one after the other.                 *)
(***************************************************************************)
Candidates == [platform : Platforms, confidence : 0..100]

Elements(cs) == {cs[i] : i \in 1..Len(cs)}

\* cs has, of every platform that is claimed, one candidate: the claim of most confidence.
BestOfEach(cs, claims) ==
  /\ cs \in Seq(Candidates)
  /\ claims \subseteq Candidates
  /\ \A i, j \in 1..Len(cs) : cs[i].platform = cs[j].platform => i = j
  /\ Elements(cs) \subseteq claims
  /\ \A c \in claims : \E i \in 1..Len(cs) :
       cs[i].platform = c.platform /\ c.confidence <= cs[i].confidence

LEMMA CombineKeeps ==
  ASSUME NEW cs, NEW claims, BestOfEach(cs, claims), NEW c \in Candidates
  PROVE  BestOfEach(Detector!Combine(cs, c), claims \cup {c})
<1> DEFINE ds == Detector!Combine(cs, c)
           more == claims \cup {c}
<1>1. /\ cs \in Seq(Candidates) /\ claims \subseteq Candidates /\ Len(cs) \in Nat
      /\ \A i \in 1..Len(cs) : cs[i] \in Candidates /\ cs[i] \in claims
      /\ c.platform \in Platforms /\ c.confidence \in 0..100
      /\ \A d \in Candidates : d.confidence \in Int
  <2>1. c.platform \in Platforms /\ c.confidence \in 0..100
    BY DEF Candidates
  <2>2. \A d \in Candidates : d.confidence \in Int
    BY DEF Candidates
  <2>3. /\ cs \in Seq(Candidates) /\ claims \subseteq Candidates
        /\ \A i \in 1..Len(cs) : cs[i] \in claims
    BY DEF BestOfEach, Elements
  <2> QED
    BY <2>1, <2>2, <2>3
<1>2. CASE \E i \in 1..Len(cs) : cs[i].platform = c.platform
  <2>1. ds = [i \in 1..Len(cs) |->
                IF cs[i].platform = c.platform /\ cs[i].confidence < c.confidence THEN c ELSE cs[i]]
    BY <1>2 DEF Detector!Combine
  <2>2. /\ ds \in Seq(Candidates) /\ Len(ds) = Len(cs)
        /\ \A i \in 1..Len(cs) :
             ds[i] = IF cs[i].platform = c.platform /\ cs[i].confidence < c.confidence
                       THEN c ELSE cs[i]
    BY <1>1, <2>1
  <2> HIDE DEF ds
  <2>3. \A i \in 1..Len(cs) : /\ ds[i].platform = cs[i].platform
                              /\ cs[i].confidence <= ds[i].confidence
                              /\ ds[i] \in more
    BY <1>1, <2>2
  <2>4. \A i, j \in 1..Len(ds) : ds[i].platform = ds[j].platform => i = j
    BY <2>2, <2>3 DEF BestOfEach
  <2>5. ASSUME NEW d \in more
        PROVE  \E i \in 1..Len(ds) :
                 ds[i].platform = d.platform /\ d.confidence <= ds[i].confidence
    <3>1. CASE d \in claims
      <4>1. PICK i \in 1..Len(cs) :
              cs[i].platform = d.platform /\ d.confidence <= cs[i].confidence
        BY <3>1 DEF BestOfEach
      <4>2. /\ d.confidence \in Int /\ cs[i].confidence \in Int /\ ds[i].confidence \in Int
            /\ i \in 1..Len(ds)
        BY <1>1, <2>2, <2>3, <3>1
      <4> QED
        BY <2>3, <4>1, <4>2
    <3>2. CASE d = c
      <4>1. PICK i \in 1..Len(cs) : cs[i].platform = c.platform
        BY <1>2
      <4>2. cs[i].confidence \in Int /\ c.confidence \in Int /\ i \in 1..Len(ds)
        BY <1>1, <2>2
      <4>3. c.confidence <= ds[i].confidence
        BY <2>2, <4>1, <4>2
      <4> QED
        BY <2>3, <3>2, <4>1, <4>2, <4>3
    <3> QED
      BY <3>1, <3>2
  <2>6. more \subseteq Candidates /\ Elements(ds) \subseteq more
    BY <1>1, <2>2, <2>3 DEF Elements
  <2> HIDE DEF more
  <2>7. BestOfEach(ds, more)
    BY <2>2, <2>4, <2>5, <2>6 DEF BestOfEach
  <2> QED
    BY <2>7 DEF ds, more
<1>3. CASE ~\E i \in 1..Len(cs) : cs[i].platform = c.platform
  <2>1. ds = Append(cs, c)
    BY <1>3 DEF Detector!Combine
  <2>2. /\ ds \in Seq(Candidates) /\ Len(ds) = Len(cs) + 1 /\ ds[Len(cs) + 1] = c
        /\ \A i \in 1..Len(cs) : ds[i] = cs[i]
    BY <1>1, <2>1
  <2> HIDE DEF ds
  <2>3. \A i \in 1..Len(ds) : i \in 1..Len(cs) \/ i = Len(cs) + 1
    BY <1>1, <2>2
  <2>4. \A i, j \in 1..Len(ds) : ds[i].platform = ds[j].platform => i = j
    BY <1>3, <2>2, <2>3 DEF BestOfEach
  <2>5. Elements(ds) \subseteq more
    BY <1>1, <2>2, <2>3 DEF Elements
  <2>6. \A i \in 1..Len(cs) : i \in 1..Len(ds)
    BY <1>1, <2>2
  <2>7. Len(cs) + 1 \in 1..Len(ds)
    BY <1>1, <2>2
  <2>8. ASSUME NEW d \in more
        PROVE  \E i \in 1..Len(ds) :
                 ds[i].platform = d.platform /\ d.confidence <= ds[i].confidence
    <3>1. CASE d \in claims
      BY <2>2, <2>6, <3>1 DEF BestOfEach
    <3>2. CASE d = c
      BY <1>1, <2>2, <2>7, <3>2
    <3> QED
      BY <3>1, <3>2
  <2>9. more \subseteq Candidates
    BY <1>1
  <2> HIDE DEF more
  <2>10. BestOfEach(ds, more)
    BY <2>2, <2>4, <2>5, <2>8, <2>9 DEF BestOfEach
  <2> QED
    BY <2>10 DEF ds, more
<1> QED
  BY <1>2, <1>3

\* The recursive function exists, and is the one that its definition describes.
LEMMA CombinedUpToStep ==
  ASSUME NEW X, NEW cs, NEW r \in Seq(X)
  PROVE  /\ Detector!CombinedUpTo(cs, r)[0] = cs
         /\ \A n \in 1..Len(r) :
              Detector!CombinedUpTo(cs, r)[n] =
                Detector!Combine(Detector!CombinedUpTo(cs, r)[n - 1], r[n])
<1> DEFINE NextOf(g, n) == IF n = 0 THEN cs ELSE Detector!Combine(g[n - 1], r[n])
           Defines(g, m) == g = [n \in 0..m |-> NextOf(g, n)]
           Upto == {m \in Nat : \E g : Defines(g, m)}
<1>1. 0 \in Upto
  <2>1. Defines([n \in 0..0 |-> cs], 0)
    OBVIOUS
  <2> QED
    BY <2>1
<1>2. ASSUME NEW m \in Nat, m \in Upto PROVE m + 1 \in Upto
  <2>1. PICK g : Defines(g, m)
    BY <1>2
  <2> DEFINE h == [n \in 0..m + 1 |-> IF n = m + 1 THEN NextOf(g, n) ELSE g[n]]
  <2>2. \A n \in 0..m + 1 : n # 0 => n - 1 \in 0..m /\ h[n - 1] = g[n - 1]
    <3> HIDE DEF NextOf
    <3> QED
      OBVIOUS
  <2>3. \A n \in 0..m + 1 : NextOf(h, n) = NextOf(g, n)
    <3> HIDE DEF h
    <3> QED
      BY <2>2
  <2>4. \A n \in 0..m + 1 : h[n] = NextOf(g, n)
    <3>1. \A n \in 0..m : g[n] = NextOf(g, n)
      <4> HIDE DEF NextOf
      <4> QED
        BY <2>1
    <3> HIDE DEF NextOf
    <3> QED
      BY <3>1
  <2>5. Defines(h, m + 1)
    <3>1. h = [n \in 0..m + 1 |-> h[n]]
      OBVIOUS
    <3> HIDE DEF h, NextOf
    <3> QED
      BY <2>3, <2>4, <3>1
  <2> HIDE DEF h, Defines
  <2> QED
    BY <2>5
<1>3. Len(r) \in Upto
  <2> HIDE DEF Upto
  <2> QED
    BY <1>1, <1>2, SetInduction
<1> DEFINE f == Detector!CombinedUpTo(cs, r)
<1>4. f = [n \in 0..Len(r) |-> NextOf(f, n)]
  BY <1>3 DEF Detector!CombinedUpTo
<1>5. 0 \in 0..Len(r) /\ \A n \in 1..Len(r) : n \in 0..Len(r) /\ n # 0
  OBVIOUS
<1>6. \A n \in 0..Len(r) : f[n] = NextOf(f, n)
  <2> HIDE DEF f, NextOf
  <2> QED
    BY <1>4
<1> HIDE DEF f
<1>7. f[0] = cs
  BY <1>5, <1>6
<1>8. \A n \in 1..Len(r) : f[n] = Detector!Combine(f[n - 1], r[n])
  BY <1>5, <1>6
<1> QED
  BY <1>7, <1>8 DEF f

LEMMA CombinedKeeps ==
  ASSUME NEW cs, NEW claims, BestOfEach(cs, claims), NEW r \in Seq(Candidates)
  PROVE  BestOfEach(Detector!Combined(cs, r), claims \cup Elements(r))
<1> DEFINE f == Detector!CombinedUpTo(cs, r)
           Said(n) == claims \cup {r[i] : i \in 1..n}
           Fine == {n \in Nat : n <= Len(r) => BestOfEach(f[n], Said(n))}
<1>1. /\ f[0] = cs
      /\ \A n \in 1..Len(r) : f[n] = Detector!Combine(f[n - 1], r[n])
  BY CombinedUpToStep
<1> HIDE DEF f
<1>2. 0 \in Fine
  <2>1. Said(0) = claims
    OBVIOUS
  <2> QED
    BY <1>1, <2>1
<1>3. ASSUME NEW n \in Nat, n \in Fine PROVE n + 1 \in Fine
  <2>1. CASE n + 1 <= Len(r)
    <3>1. n <= Len(r) /\ n + 1 \in 1..Len(r) /\ (n + 1) - 1 = n
      BY <2>1
    <3>2. BestOfEach(f[n], Said(n)) /\ r[n + 1] \in Candidates
      BY <1>3, <3>1
    <3>3. f[n + 1] = Detector!Combine(f[n], r[n + 1])
      BY <1>1, <3>1
    <3>4. Said(n + 1) = Said(n) \cup {r[n + 1]}
      OBVIOUS
    <3> HIDE DEF Said
    <3>5. BestOfEach(f[n + 1], Said(n + 1))
      BY <3>2, <3>3, <3>4, CombineKeeps
    <3> QED
      BY <3>5
  <2> QED
    BY <2>1
<1>4. Len(r) \in Fine
  <2> HIDE DEF Fine
  <2> QED
    BY <1>2, <1>3, SetInduction
<1>5. BestOfEach(f[Len(r)], Said(Len(r)))
  <2> HIDE DEF Said
  <2> QED
    BY <1>4
<1> QED
  BY <1>5 DEF f, Detector!Combined, Elements

LEMMA InOrderUpToStep ==
  ASSUME NEW X, NEW r \in Seq(X)
  PROVE  /\ Detector!InOrderUpTo(r)[0] = <<>>
         /\ \A n \in 1..Len(r) :
              Detector!InOrderUpTo(r)[n] =
                Detector!Combined(Detector!InOrderUpTo(r)[n - 1], r[n])
<1> DEFINE NextOf(g, n) == IF n = 0 THEN <<>> ELSE Detector!Combined(g[n - 1], r[n])
           Defines(g, m) == g = [n \in 0..m |-> NextOf(g, n)]
           Upto == {m \in Nat : \E g : Defines(g, m)}
<1>1. 0 \in Upto
  <2>1. Defines([n \in 0..0 |-> <<>>], 0)
    OBVIOUS
  <2> QED
    BY <2>1
<1>2. ASSUME NEW m \in Nat, m \in Upto PROVE m + 1 \in Upto
  <2>1. PICK g : Defines(g, m)
    BY <1>2
  <2> DEFINE h == [n \in 0..m + 1 |-> IF n = m + 1 THEN NextOf(g, n) ELSE g[n]]
  <2>2. \A n \in 0..m + 1 : n # 0 => n - 1 \in 0..m /\ h[n - 1] = g[n - 1]
    <3> HIDE DEF NextOf
    <3> QED
      OBVIOUS
  <2>3. \A n \in 0..m + 1 : NextOf(h, n) = NextOf(g, n)
    <3> HIDE DEF h
    <3> QED
      BY <2>2
  <2>4. \A n \in 0..m + 1 : h[n] = NextOf(g, n)
    <3>1. \A n \in 0..m : g[n] = NextOf(g, n)
      <4> HIDE DEF NextOf
      <4> QED
        BY <2>1
    <3> HIDE DEF NextOf
    <3> QED
      BY <3>1
  <2>5. Defines(h, m + 1)
    <3>1. h = [n \in 0..m + 1 |-> h[n]]
      OBVIOUS
    <3> HIDE DEF h, NextOf
    <3> QED
      BY <2>3, <2>4, <3>1
  <2> HIDE DEF h, Defines
  <2> QED
    BY <2>5
<1>3. Len(r) \in Upto
  <2> HIDE DEF Upto
  <2> QED
    BY <1>1, <1>2, SetInduction
<1> DEFINE f == Detector!InOrderUpTo(r)
<1>4. f = [n \in 0..Len(r) |-> NextOf(f, n)]
  BY <1>3 DEF Detector!InOrderUpTo
<1>5. 0 \in 0..Len(r) /\ \A n \in 1..Len(r) : n \in 0..Len(r) /\ n # 0
  OBVIOUS
<1>6. \A n \in 0..Len(r) : f[n] = NextOf(f, n)
  <2> HIDE DEF f, NextOf
  <2> QED
    BY <1>4
<1> HIDE DEF f
<1>7. f[0] = <<>>
  BY <1>5, <1>6
<1>8. \A n \in 1..Len(r) : f[n] = Detector!Combined(f[n - 1], r[n])
  BY <1>5, <1>6
<1> QED
  BY <1>7, <1>8 DEF f

LEMMA InOrderKeeps ==
  ASSUME NEW r \in Seq(Seq(Candidates))
  PROVE  BestOfEach(Detector!InOrderUpTo(r)[Len(r)], UNION {Elements(r[i]) : i \in 1..Len(r)})
<1> DEFINE f == Detector!InOrderUpTo(r)
           Said(n) == UNION {Elements(r[i]) : i \in 1..n}
           Fine == {n \in Nat : n <= Len(r) => BestOfEach(f[n], Said(n))}
<1>1. /\ f[0] = <<>>
      /\ \A n \in 1..Len(r) : f[n] = Detector!Combined(f[n - 1], r[n])
  BY InOrderUpToStep
<1> HIDE DEF f
<1>2. 0 \in Fine
  <2>1. Said(0) = {}
    OBVIOUS
  <2>2. BestOfEach(<<>>, {})
    BY DEF BestOfEach, Elements
  <2> HIDE DEF Said
  <2> QED
    BY <1>1, <2>1, <2>2
<1>3. ASSUME NEW n \in Nat, n \in Fine PROVE n + 1 \in Fine
  <2>1. CASE n + 1 <= Len(r)
    <3>1. n <= Len(r) /\ n + 1 \in 1..Len(r) /\ (n + 1) - 1 = n
      BY <2>1
    <3>2. BestOfEach(f[n], Said(n)) /\ r[n + 1] \in Seq(Candidates)
      BY <1>3, <3>1
    <3>3. f[n + 1] = Detector!Combined(f[n], r[n + 1])
      BY <1>1, <3>1
    <3>4. Said(n + 1) = Said(n) \cup Elements(r[n + 1])
      <4>1. 1..(n + 1) = (1..n) \cup {n + 1}
        OBVIOUS
      <4> HIDE DEF Elements
      <4> QED
        BY <4>1
    <3> HIDE DEF Said
    <3>5. BestOfEach(f[n + 1], Said(n + 1))
      BY <3>2, <3>3, <3>4, CombinedKeeps
    <3> QED
      BY <3>5
  <2> QED
    BY <2>1
<1>4. Len(r) \in Fine
  <2> HIDE DEF Fine
  <2> QED
    BY <1>2, <1>3, SetInduction
<1>5. BestOfEach(f[Len(r)], Said(Len(r)))
  <2> HIDE DEF Said
  <2> QED
    BY <1>4
<1> QED
  BY <1>5 DEF f

LEMMA CandidateTyped ==
  \A c \in Candidates : c.confidence \in 0..100
BY DEF Candidates

\* c is d or has less confidence.
Below(c, d) == c = d \/ c.confidence < d.confidence

LEMMA BelowOf ==
  ASSUME NEW c \in Candidates, NEW d \in Candidates, Below(c, d)
  PROVE  /\ c.confidence <= d.confidence
         /\ d.confidence <= c.confidence => c = d
<1> DEFINE x == c.confidence
           y == d.confidence
<1>1. x \in 0..100 /\ y \in 0..100
  BY CandidateTyped
<1> HIDE DEF x, y
<1>2. x \in Int /\ y \in Int /\ (c = d => x = y) /\ (c # d => x < y)
  BY <1>1 DEF Below, x, y
<1>3. x <= y /\ (y <= x => x = y)
  BY <1>2
<1>4. y <= x => c = d
  <2>1. CASE c # d
    <3>1. x < y
      BY <1>2, <2>1
    <3>2. ~(y <= x)
      BY <1>2, <3>1
    <3> QED
      BY <3>2
  <2> QED
    BY <2>1
<1> QED
  BY <1>3, <1>4 DEF x, y

\* Of finitely many confidences one is the highest.
LEMMA Highest ==
  ASSUME NEW n \in Nat \ {0}, NEW f, \A i \in 1..n : f[i] \in 0..100
  PROVE  \E t \in 1..n : \A i \in 1..n : f[i] <= f[t]
<1> DEFINE Gap == {100 - f[i] : i \in 1..n}
<1>1. \A i \in 1..n : f[i] \in 0..100 /\ 100 - f[i] \in Nat
  OBVIOUS
<1>2. Gap \in SUBSET Nat /\ Gap # {}
  <2>1. 1 \in 1..n
    OBVIOUS
  <2> QED
    BY <1>1, <2>1
<1>3. PICK m \in Gap : \A k \in Gap : m <= k
  <2> HIDE DEF Gap
  <2> QED
    BY <1>2, LeastElement
<1>4. PICK t \in 1..n : m = 100 - f[t]
  OBVIOUS
<1>5. ASSUME NEW i \in 1..n PROVE f[i] <= f[t]
  <2>1. 100 - f[t] <= 100 - f[i]
    BY <1>3, <1>4
  <2>2. f[i] \in 0..100 /\ f[t] \in 0..100
    BY <1>1
  <2> DEFINE x == f[i]
             y == f[t]
  <2> HIDE DEF x, y
  <2>3. x <= y
    <3>1. x \in 0..100 /\ y \in 0..100 /\ 100 - y <= 100 - x
      BY <2>1, <2>2 DEF x, y
    <3> QED
      BY <3>1
  <2> QED
    BY <2>3 DEF x, y
<1> QED
  BY <1>5

\* The candidates of most confidence of the same claims are the same.
LEMMA SameElements ==
  ASSUME NEW cs, NEW ds, NEW claims, BestOfEach(cs, claims), BestOfEach(ds, claims)
  PROVE  Elements(cs) \subseteq Elements(ds)
<1> SUFFICES ASSUME NEW i \in 1..Len(cs) PROVE cs[i] \in Elements(ds)
  BY DEF Elements
<1>1. cs[i] \in claims
  BY DEF BestOfEach, Elements
<1>2. PICK j \in 1..Len(ds) :
        ds[j].platform = cs[i].platform /\ cs[i].confidence <= ds[j].confidence
  BY <1>1 DEF BestOfEach
<1>3. ds[j] \in claims
  BY DEF BestOfEach, Elements
<1>4. PICK k \in 1..Len(cs) :
        cs[k].platform = ds[j].platform /\ ds[j].confidence <= cs[k].confidence
  BY <1>3 DEF BestOfEach
<1>5. k = i
  BY <1>2, <1>4 DEF BestOfEach
<1>6. cs[i] \in Candidates /\ ds[j] \in Candidates
  BY <1>1, <1>3 DEF BestOfEach
<1>7. cs[i].confidence = ds[j].confidence
  <2> DEFINE x == cs[i].confidence
             y == ds[j].confidence
  <2>1. x \in 0..100 /\ y \in 0..100
    BY <1>6, CandidateTyped
  <2>2. x <= y /\ y <= x
    BY <1>2, <1>4, <1>5
  <2> HIDE DEF x, y
  <2>3. x = y
    BY <2>1, <2>2
  <2> QED
    BY <2>3 DEF x, y
<1>8. cs[i] = ds[j]
  BY <1>2, <1>6, <1>7 DEF Candidates
<1> QED
  BY <1>8 DEF Elements

\* Unless two of them tie, it does not matter in which order candidates are combined.
LEMMA BestOfSame ==
  ASSUME NEW cs, NEW ds, NEW claims, BestOfEach(cs, claims), BestOfEach(ds, claims),
         ~Detector!IsAmbiguous(cs)
  PROVE  Detector!Best(cs) = Detector!Best(ds)
<1>1. Elements(cs) = Elements(ds)
  BY SameElements
<1>2. /\ cs \in Seq(Candidates) /\ ds \in Seq(Candidates)
      /\ Len(cs) \in Nat /\ Len(ds) \in Nat
      /\ \A i \in 1..Len(cs) : cs[i] \in Candidates
      /\ \A i \in 1..Len(ds) : ds[i] \in Candidates
      /\ \A i, j \in 1..Len(cs) : cs[i].platform = cs[j].platform => i = j
      /\ \A i, j \in 1..Len(ds) : ds[i].platform = ds[j].platform => i = j
  BY DEF BestOfEach
<1>3. \A c \in Candidates : c.confidence \in 0..100
  BY DEF Candidates
<1>4. CASE cs = <<>>
  <2>1. Elements(cs) = {}
    BY <1>4 DEF Elements
  <2>2. ~(\E i \in 1..Len(ds) : TRUE)
    BY <1>1, <2>1 DEF Elements
  <2>3. ds = <<>>
    <3>1. Len(ds) = 0
      BY <1>2, <2>2
    <3> QED
      BY <1>2, <3>1
  <2> QED
    BY <1>4, <2>3
<1>5. CASE cs # <<>>
  <2> DEFINE n == Len(cs)
             f == [i \in 1..n |-> cs[i].confidence]
  <2>1. \A i \in 1..n : cs[i].confidence \in 0..100
    BY <1>2, CandidateTyped
  <2>2. n \in Nat \ {0}
    BY <1>2, <1>5
  <2>3. \A i \in 1..n : f[i] \in 0..100
    BY <2>1
  <2>4. PICK t \in 1..n : \A i \in 1..n : f[i] <= f[t]
    <3> HIDE DEF f, n
    <3> QED
      BY <2>2, <2>3, Highest
  <2> DEFINE top == cs[t]
  <2>5. \A i \in 1..n : f[i] = f[t] => i = t
    <3>1. \A i \in 1..Len(cs) : cs[i].confidence <= cs[t].confidence
      BY <2>4
    <3> QED
      BY <3>1 DEF Detector!IsAmbiguous
  <2>6. \A i \in 1..n : i = t \/ f[i] < f[t]
    <3> HIDE DEF f, n
    <3>1. \A i \in 1..n : f[i] \in 0..100
      BY <2>3
    <3>2. ASSUME NEW i \in 1..n, i # t PROVE f[i] < f[t]
      <4> DEFINE x == f[i]
                 y == f[t]
      <4>1. x \in 0..100 /\ y \in 0..100 /\ x <= y /\ x # y
        BY <2>4, <2>5, <3>1, <3>2
      <4> HIDE DEF x, y
      <4>2. x < y
        BY <4>1
      <4> QED
        BY <4>2 DEF x, y
    <3> QED
      BY <3>2
  <2>7. \A c \in Elements(cs) : Below(c, top)
    BY <2>6 DEF Elements, Below
  <2>8. top \in Elements(cs) /\ top \in Candidates
    BY <1>2 DEF Elements
  <2>9. \A c \in Elements(cs) : c \in Candidates
    BY <1>2 DEF Elements
  <2> HIDE DEF top
  <2>10. ASSUME NEW es \in Seq(Candidates), Elements(es) = Elements(cs),
                \A i, j \in 1..Len(es) : es[i].platform = es[j].platform => i = j
         PROVE  Detector!Best(es) = top
    <3>1. \A i \in 1..Len(es) : es[i] \in Elements(cs)
      BY <2>10 DEF Elements
    <3>2. PICK k \in 1..Len(es) : es[k] = top
      BY <2>8, <2>10 DEF Elements
    <3>3. es # <<>>
      BY <3>2
    <3>4. Len(es) \in Nat
      BY <2>10
    <3>5. \A j \in 1..Len(es) : es[j] = top => j = k
      BY <2>10, <3>2
    <3>6. \A j \in 1..Len(es) : es[j].confidence <= es[k].confidence
      BY <2>7, <2>8, <2>9, <3>1, <3>2, BelowOf
    <3>7. \A j \in 1..(k - 1) : es[j].confidence < es[k].confidence
      <4>1. \A j \in 1..(k - 1) : j \in 1..Len(es) /\ j # k
        BY <3>4
      <4> QED
        BY <2>7, <3>1, <3>2, <3>5, <4>1 DEF Below
    <3>8. ASSUME NEW c, NEW i \in 1..Len(es), c = es[i],
                 \A j \in 1..Len(es) : es[j].confidence <= es[i].confidence
          PROVE  c = top
      <4>1. top.confidence <= c.confidence
        BY <3>2, <3>8
      <4>2. c \in Elements(cs)
        BY <3>1, <3>8
      <4> QED
        BY <2>7, <2>8, <2>9, <4>1, <4>2, BelowOf
    <3>9. top \in Detector!ToSet(es) \cup {None}
      BY <2>10, <3>2 DEF Detector!ToSet
    <3> QED
      BY <3>2, <3>3, <3>6, <3>7, <3>8, <3>9 DEF Detector!Best
  <2>11. Detector!Best(cs) = top
    BY <1>2, <2>10
  <2>12. Detector!Best(ds) = top
    BY <1>1, <1>2, <2>10
  <2> QED
    BY <2>11, <2>12
<1> QED
  BY <1>4, <1>5

-----------------------------------------------------------------------------
(***************************************************************************)
(* The platform detector.                                                  *)
(***************************************************************************)
\* What the detectors that have run have said.
Said == UNION {Elements(reported[d]) : d \in Detector!Ran}

\* Those that wait are those of their group that have not run, each once; and candidates
\* has the best of what was said.
DetectorInv ==
  /\ preferred \in Platforms \cup {None} /\ restrict \in BOOLEAN
  /\ detection \in {"preferred", "remaining", "done", "raised"}
  /\ waiting \in Seq(Detector!Detectors)
  /\ \A i, j \in 1..Len(waiting) : waiting[i] = waiting[j] => i = j
  /\ reported \in [Detector!Detectors -> Reports \cup {None}]
  /\ BestOfEach(candidates, Said)
  /\ detection = "preferred" => /\ Elements(waiting) = Detector!Owners \ Detector!Ran
                                /\ Detector!Ran \subseteq Detector!Owners
  /\ detection = "remaining" => /\ ~restrict
                                /\ Elements(waiting) = Detector!Detectors \ Detector!Ran
  /\ restrict => Detector!Ran \subseteq Detector!Owners
  /\ detection = "done" /\ ~restrict /\ (\A c \in Elements(candidates) : c.platform # preferred)
       => Detector!Ran = Detector!Detectors

LEMMA HeadAndTail ==
  ASSUME NEW X, NEW s \in Seq(X), s # <<>>,
         \A i, j \in 1..Len(s) : s[i] = s[j] => i = j
  PROVE  /\ Head(s) \in X /\ Head(s) \in Elements(s)
         /\ Tail(s) \in Seq(X)
         /\ \A i, j \in 1..Len(Tail(s)) : Tail(s)[i] = Tail(s)[j] => i = j
         /\ Elements(Tail(s)) = Elements(s) \ {Head(s)}
<1> DEFINE t == Tail(s)
<1>1. /\ Head(s) = s[1] /\ Len(s) \in Nat \ {0} /\ t \in Seq(X) /\ Len(t) = Len(s) - 1
      /\ \A i \in 1..Len(t) : t[i] = s[i + 1]
  OBVIOUS
<1> HIDE DEF t
<1>2. 1 \in 1..Len(s) /\ s[1] \in X
  BY <1>1
<1>3. \A i \in 1..Len(t) : i + 1 \in 1..Len(s) /\ i + 1 # 1
  BY <1>1
<1>4. \A i \in 1..Len(s) : i = 1 \/ (i - 1 \in 1..Len(t) /\ (i - 1) + 1 = i)
  BY <1>1
<1>5. Elements(t) = Elements(s) \ {s[1]}
  <2>1. Elements(t) \subseteq Elements(s) \ {s[1]}
    BY <1>1, <1>2, <1>3 DEF Elements
  <2>2. Elements(s) \ {s[1]} \subseteq Elements(t)
    <3> SUFFICES ASSUME NEW i \in 1..Len(s), s[i] # s[1] PROVE s[i] \in Elements(t)
      BY DEF Elements
    <3>1. i - 1 \in 1..Len(t) /\ (i - 1) + 1 = i
      BY <1>4
    <3>2. t[i - 1] = s[i]
      BY <1>1, <3>1
    <3> QED
      BY <3>1, <3>2 DEF Elements
  <2> QED
    BY <2>1, <2>2
<1>6. \A i, j \in 1..Len(t) : t[i] = t[j] => i = j
  <2> SUFFICES ASSUME NEW i \in 1..Len(t), NEW j \in 1..Len(t), t[i] = t[j] PROVE i = j
    OBVIOUS
  <2>1. i + 1 = j + 1
    BY <1>1, <1>3
  <2> QED
    BY <2>1
<1>7. s[1] \in Elements(s)
  BY <1>2 DEF Elements
<1> QED
  BY <1>1, <1>2, <1>5, <1>6, <1>7 DEF t

LEMMA DetectorsListed ==
  /\ DetectorOrder \in Seq(Detector!Detectors)
  /\ \A i, j \in 1..Len(DetectorOrder) : DetectorOrder[i] = DetectorOrder[j] => i = j
  /\ Elements(DetectorOrder) = Detector!Detectors
  /\ None \notin Reports /\ \A r \in Reports : r \in Seq(Candidates)
<1>1. DetectorOrder \in Seq(ToSet(DetectorOrder)) /\ IsInjective(DetectorOrder)
  BY DetectorAssumption
<1>2. Detector!Detectors = ToSet(DetectorOrder)
  BY DEF Detector!Detectors, Detector!ToSet, ToSet
<1>3. DOMAIN DetectorOrder = 1..Len(DetectorOrder)
  BY <1>1
<1> QED
  BY <1>1, <1>2, <1>3, DetectorAssumption DEF IsInjective, Elements, ToSet, Candidates

\* A group of the detectors.
LEMMA GroupOf ==
  ASSUME NEW S \in SUBSET Detector!Detectors
  PROVE  LET g == Selected(DetectorOrder, S)
         IN  /\ g \in Seq(Detector!Detectors) /\ Elements(g) = S
             /\ \A i, j \in 1..Len(g) : g[i] = g[j] => i = j
<1> DEFINE g == Selected(DetectorOrder, S)
<1>1. /\ g \in Seq(Detector!Detectors)
      /\ \A x : (\E k \in 1..Len(g) : g[k] = x)
                  <=> x \in S /\ \E i \in 1..Len(DetectorOrder) : DetectorOrder[i] = x
      /\ \A i, j \in 1..Len(g) : g[i] = g[j] => i = j
  BY DetectorsListed, SelectedElements
<1> HIDE DEF g
<1>2. \A x : x \in Elements(g) <=> x \in S /\ x \in Elements(DetectorOrder)
  BY <1>1 DEF Elements
<1>3. Elements(g) = S
  BY <1>2, DetectorsListed
<1> QED
  BY <1>1, <1>3 DEF g

LEMMA DetectorInvInit == RoutingInit => DetectorInv
<1> SUFFICES ASSUME RoutingInit PROVE DetectorInv
  OBVIOUS
<1> DEFINE mine == Detector!Selected(DetectorOrder, Detector!Owners)
<1>1. /\ preferred \in Platforms \cup {None} /\ restrict \in BOOLEAN
      /\ detection = IF mine # <<>> THEN "preferred"
                     ELSE IF restrict THEN "done" ELSE "remaining"
      /\ waiting = IF mine # <<>> THEN mine ELSE IF restrict THEN <<>> ELSE DetectorOrder
      /\ reported = [d \in Detector!Detectors |-> None] /\ candidates = <<>>
  BY DEF RoutingInit, Detector!Init
<1>2. Detector!Owners \in SUBSET Detector!Detectors
  BY DEF Detector!Owners
<1>3. mine = Selected(DetectorOrder, Detector!Owners)
  BY DEF Detector!Selected, Detector!SelectedUpTo, Selected, SelectedUpTo
<1>4. /\ mine \in Seq(Detector!Detectors) /\ Elements(mine) = Detector!Owners
      /\ \A i, j \in 1..Len(mine) : mine[i] = mine[j] => i = j
  BY <1>2, <1>3, GroupOf
<1> HIDE DEF mine
<1>5. Detector!Ran = {} /\ Said = {}
  BY <1>1 DEF Detector!Ran, Said
<1>6. BestOfEach(candidates, Said)
  BY <1>1, <1>5 DEF BestOfEach, Elements
<1>7. /\ waiting \in Seq(Detector!Detectors)
      /\ \A i, j \in 1..Len(waiting) : waiting[i] = waiting[j] => i = j
      /\ detection \in {"preferred", "remaining", "done", "raised"}
      /\ reported \in [Detector!Detectors -> Reports \cup {None}]
  BY <1>1, <1>4, DetectorsListed
<1>8. detection = "preferred" => Elements(waiting) = Detector!Owners
  BY <1>1, <1>4
<1>9. detection = "remaining" => ~restrict /\ Elements(waiting) = Detector!Detectors
  BY <1>1, DetectorsListed
<1>10. detection = "done" => restrict
  BY <1>1
<1> QED
  BY <1>1, <1>5, <1>6, <1>7, <1>8, <1>9, <1>10 DEF DetectorInv

LEMMA SaidByOneMore ==
  ASSUME NEW f, NEW g, NEW S, NEW d, \A e \in S : f[e] = g[e]
  PROVE  UNION {Elements(f[e]) : e \in S \cup {d}}
           = (UNION {Elements(g[e]) : e \in S}) \cup Elements(f[d])
<1>1. UNION {Elements(f[e]) : e \in S \cup {d}} = (UNION {Elements(f[e]) : e \in S}) \cup Elements(f[d])
  <2>1. {Elements(f[e]) : e \in S \cup {d}} = {Elements(f[e]) : e \in S} \cup {Elements(f[d])}
    OBVIOUS
  <2> DEFINE Of == {Elements(f[e]) : e \in S}
             last == Elements(f[d])
  <2> HIDE DEF Of, last
  <2>2. UNION (Of \cup {last}) = (UNION Of) \cup last
    OBVIOUS
  <2> QED
    BY <2>1, <2>2 DEF Of, last
<1>2. {Elements(f[e]) : e \in S} = {Elements(g[e]) : e \in S}
  OBVIOUS
<1> QED
  BY <1>1, <1>2

LEMMA DetectorRuns ==
  ASSUME DetectorInv, Detector!RunDetector PROVE DetectorInv'
<1>1. /\ detection \in {"preferred", "remaining"} /\ waiting # <<>>
      /\ UNCHANGED <<preferred, restrict>>
  BY DEF Detector!RunDetector
<1>2. CASE detection' = "raised" /\ UNCHANGED <<waiting, reported, candidates>>
  <2>1. /\ (Detector!Ran)' = Detector!Ran /\ Said' = Said
        /\ (Detector!Owners)' = Detector!Owners /\ (Detector!Detectors)' = Detector!Detectors
    BY <1>1, <1>2 DEF Detector!Ran, Said, Detector!Owners, Detector!Owns, Detector!Detectors
  <2> QED
    BY <1>1, <1>2, <2>1 DEF DetectorInv
<1>3. ASSUME NEW r \in Reports,
             reported' = [reported EXCEPT ![Head(waiting)] = r],
             candidates' = Detector!Combined(candidates, r),
             waiting' = Tail(waiting), UNCHANGED detection
      PROVE  DetectorInv'
  <2> DEFINE d == Head(waiting)
  <2>1. /\ d \in Detector!Detectors /\ d \in Elements(waiting)
        /\ Tail(waiting) \in Seq(Detector!Detectors)
        /\ \A i, j \in 1..Len(Tail(waiting)) : Tail(waiting)[i] = Tail(waiting)[j] => i = j
        /\ Elements(Tail(waiting)) = Elements(waiting) \ {d}
    <3>1. /\ waiting \in Seq(Detector!Detectors) /\ waiting # <<>>
          /\ \A i, j \in 1..Len(waiting) : waiting[i] = waiting[j] => i = j
      BY <1>1 DEF DetectorInv
    <3> QED
      BY <3>1, HeadAndTail
  <2> HIDE DEF d
  <2>2. /\ (Detector!Owners)' = Detector!Owners /\ (Detector!Detectors)' = Detector!Detectors
    BY <1>1 DEF Detector!Owners, Detector!Owns, Detector!Detectors
  <2>3. /\ reported \in [Detector!Detectors -> Reports \cup {None}]
        /\ reported' = [reported EXCEPT ![d] = r]
    BY <1>3 DEF DetectorInv, d
  <2>4. reported' \in [Detector!Detectors -> Reports \cup {None}]
    BY <2>3
  <2>5. d \notin Detector!Ran
    BY <1>1, <2>1 DEF DetectorInv
  <2>6. r # None /\ r \in Seq(Candidates)
    BY DetectorsListed
  <2>7. /\ reported'[d] = r
        /\ \A e \in Detector!Detectors \ {d} : reported'[e] = reported[e]
    BY <2>1, <2>3
  <2>8. (Detector!Ran)' = Detector!Ran \cup {d}
    BY <2>1, <2>2, <2>6, <2>7 DEF Detector!Ran
  <2>9. Said' = Said \cup Elements(r)
    <3>1. \A e \in Detector!Ran : reported'[e] = reported[e]
      BY <2>5, <2>7 DEF Detector!Ran
    <3>2. Said' = UNION {Elements(reported'[e]) : e \in Detector!Ran \cup {d}}
      BY <2>8 DEF Said, Elements
    <3> QED
      BY <2>7, <3>1, <3>2, SaidByOneMore DEF Said
  <2>10. BestOfEach(candidates', Said')
    <3>1. BestOfEach(candidates, Said)
      BY DEF DetectorInv
    <3>2. BestOfEach(Detector!Combined(candidates, r), Said \cup Elements(r))
      BY <2>6, <3>1, CombinedKeeps
    <3> QED
      BY <1>3, <2>9, <3>2
  <2>11. BestOfEach(candidates, Said)'
    BY <2>10 DEF BestOfEach, Elements
  <2>12. (Elements(waiting))' = Elements(waiting) \ {d}
    BY <1>3, <2>1 DEF Elements
  <2>13. waiting' \in Seq(Detector!Detectors)
         /\ \A i, j \in 1..Len(waiting') : waiting'[i] = waiting'[j] => i = j
    BY <1>3, <2>1
  <2>14. detection = "preferred" => d \in Detector!Owners
    BY <2>1 DEF DetectorInv
  <2>15. detection = "remaining" => ~restrict
    BY DEF DetectorInv
  <2>16. restrict => d \in Detector!Owners
    BY <1>1, <2>14, <2>15
  <2> QED
    BY <1>1, <1>3, <2>2, <2>4, <2>8, <2>11, <2>12, <2>13, <2>14, <2>16 DEF DetectorInv
<1> QED
  BY <1>1, <1>2, <1>3 DEF Detector!RunDetector

LEMMA PreferredEnds ==
  ASSUME DetectorInv, Detector!EndOfPreferred PROVE DetectorInv'
<1>1. /\ detection = "preferred" /\ waiting = <<>>
      /\ UNCHANGED <<preferred, restrict, reported, candidates>>
  BY DEF Detector!EndOfPreferred
<1>2. /\ (Detector!Ran)' = Detector!Ran /\ Said' = Said
      /\ (Detector!Owners)' = Detector!Owners /\ (Detector!Detectors)' = Detector!Detectors
  BY <1>1 DEF Detector!Ran, Said, Detector!Owners, Detector!Owns, Detector!Detectors
<1>3. Elements(waiting) = {}
  BY <1>1 DEF Elements
<1>4. Detector!Ran = Detector!Owners
  BY <1>1, <1>3 DEF DetectorInv
<1>5. CASE (\E c \in Detector!ToSet(candidates) : c.platform = preferred) \/ restrict
  <2>1. detection' = "done" /\ waiting' = waiting
    BY <1>5 DEF Detector!EndOfPreferred
  <2>2. candidates \in Seq(Candidates)
    BY DEF DetectorInv, BestOfEach
  <2>3. Detector!ToSet(candidates) = Elements(candidates)
    BY <2>2 DEF Detector!ToSet, Elements
  <2>4. (Elements(candidates))' = Elements(candidates)
    BY <1>1 DEF Elements
  <2>5. (BestOfEach(candidates, Said))'
    <3>1. BestOfEach(candidates, Said)
      BY DEF DetectorInv
    <3> QED
      BY <1>1, <1>2, <3>1
  <2> QED
    BY <1>1, <1>2, <1>4, <1>5, <2>1, <2>3, <2>4, <2>5 DEF DetectorInv
<1>6. CASE ~((\E c \in Detector!ToSet(candidates) : c.platform = preferred) \/ restrict)
  <2> DEFINE others == Detector!Selected(DetectorOrder, Detector!Detectors \ Detector!Owners)
  <2>1. detection' = "remaining" /\ waiting' = others /\ ~restrict
    BY <1>6 DEF Detector!EndOfPreferred
  <2>2. others = Selected(DetectorOrder, Detector!Detectors \ Detector!Owners)
    BY DEF Detector!Selected, Detector!SelectedUpTo, Selected, SelectedUpTo
  <2>3. /\ others \in Seq(Detector!Detectors)
        /\ Elements(others) = Detector!Detectors \ Detector!Owners
        /\ \A i, j \in 1..Len(others) : others[i] = others[j] => i = j
    BY <2>2, GroupOf
  <2> HIDE DEF others
  <2>4. /\ waiting' \in Seq(Detector!Detectors)
        /\ (Elements(waiting))' = Detector!Detectors \ Detector!Owners
        /\ \A i, j \in 1..Len(waiting') : waiting'[i] = waiting'[j] => i = j
    BY <2>1, <2>3 DEF Elements
  <2>5. (BestOfEach(candidates, Said))'
    <3>1. BestOfEach(candidates, Said)
      BY DEF DetectorInv
    <3> QED
      BY <1>1, <1>2, <3>1
  <2> QED
    BY <1>1, <1>2, <1>4, <2>1, <2>4, <2>5 DEF DetectorInv
<1> QED
  BY <1>5, <1>6

LEMMA RemainingEnds ==
  ASSUME DetectorInv, Detector!EndOfRemaining PROVE DetectorInv'
<1>1. /\ detection = "remaining" /\ detection' = "done" /\ waiting = <<>>
      /\ UNCHANGED <<preferred, restrict, waiting, reported, candidates>>
  BY DEF Detector!EndOfRemaining
<1>2. /\ (Detector!Ran)' = Detector!Ran /\ Said' = Said
      /\ (Detector!Owners)' = Detector!Owners /\ (Detector!Detectors)' = Detector!Detectors
  BY <1>1 DEF Detector!Ran, Said, Detector!Owners, Detector!Owns, Detector!Detectors
<1>3. Elements(waiting) = {}
  BY <1>1 DEF Elements
<1>4. Detector!Ran = Detector!Detectors
  BY <1>1, <1>3 DEF DetectorInv, Detector!Ran
<1>5. (BestOfEach(candidates, Said))'
  <2>1. BestOfEach(candidates, Said)
    BY DEF DetectorInv
  <2> QED
    BY <1>1, <1>2, <2>1
<1> QED
  BY <1>1, <1>2, <1>4, <1>5 DEF DetectorInv

LEMMA DetectorInvStep ==
  ASSUME DetectorInv, [RoutingNext]_allVars PROVE DetectorInv'
<1>1. CASE UNCHANGED detectorVars
  <2>1. UNCHANGED <<preferred, restrict, detection, waiting, reported, candidates>>
    BY <1>1, SelectionStays DEF detectorVars
  <2>2. /\ (Detector!Ran)' = Detector!Ran /\ Said' = Said
        /\ (Detector!Owners)' = Detector!Owners /\ (Detector!Detectors)' = Detector!Detectors
    BY <2>1 DEF Detector!Ran, Said, Detector!Owners, Detector!Owns, Detector!Detectors
  <2>3. (BestOfEach(candidates, Said))'
    <3>1. BestOfEach(candidates, Said)
      BY DEF DetectorInv
    <3> QED
      BY <2>1, <2>2, <3>1
  <2> QED
    BY <2>1, <2>2, <2>3 DEF DetectorInv, Elements
<1>2. CASE Detector!Next
  BY <1>2, DetectorRuns, PreferredEnds, RemainingEnds DEF Detector!Next
<1> QED
  BY <1>1, <1>2 DEF RoutingNext, Detect, Inspect, Normalize, VerifyIntegrity, allVars

-----------------------------------------------------------------------------
(***************************************************************************)
(* All composites together.                                                *)
(***************************************************************************)
\* What is true of a normalizer by itself is true of it beside the others.
LEMMA NormalizerAlone == RoutingSpec => Spec
<1>1. RoutingInit => Init
  BY DEF RoutingInit
<1>2. [RoutingNext]_allVars => [Next]_vars
  <2> SUFFICES ASSUME [RoutingNext]_allVars, UNCHANGED <<phase, todo, probes, outcome>> \/ Next
               PROVE  [Next]_vars
    BY DEF RoutingNext, Detect, Inspect, Normalize, VerifyIntegrity, allVars, vars
  <2> QED
    BY SelectionStays DEF vars
<1> QED
  BY <1>1, <1>2, PTL DEF RoutingSpec, Spec

\* The types of what an inspector knows.
LEMMA InspectorTypesInit == RoutingInit => Inspector!TypeOK
BY DEF RoutingInit, Inspector!Init, Inspector!TypeOK, Inspector!PreferredGroup, Inspector!Remaining

LEMMA InspectorTypesStep ==
  ASSUME Inspector!TypeOK, InspectorInv, [RoutingNext]_allVars PROVE Inspector!TypeOK'
<1>1. /\ UNCHANGED <<preferred, restrict>>
      /\ (Inspector!PreferredGroup)' = Inspector!PreferredGroup
      /\ (Inspector!Remaining)' = Inspector!Remaining
  BY SelectionStays DEF Inspector!PreferredGroup, Inspector!Remaining
<1>2. Inspector!PreferredGroup \subseteq Inspectors
      /\ Inspector!Remaining = Inspectors \ Inspector!PreferredGroup
  BY DEF Inspector!PreferredGroup, Inspector!Remaining
<1>3. ASSUME NEW i \in Inspectors, Inspector!Inspect(i) PROVE Inspector!TypeOK'
  BY <1>1, <1>2, <1>3 DEF Inspector!Inspect, Inspector!TypeOK
<1>4. CASE Inspector!FallBack
  BY <1>1, <1>2, <1>4 DEF Inspector!FallBack, Inspector!TypeOK, InspectorInv
<1>5. CASE Inspector!Conclude
  BY <1>1, <1>2, <1>5 DEF Inspector!Conclude, Inspector!TypeOK
<1>6. CASE UNCHANGED inspectorVars
  BY <1>1, <1>2, <1>6 DEF inspectorVars, Inspector!TypeOK
<1> QED
  BY <1>3, <1>4, <1>5, <1>6
  DEF RoutingNext, Detect, Inspect, Normalize, VerifyIntegrity, Inspector!Next, allVars

OthersInv == called \in Composites /\ DetectorInv /\ InspectorInv /\ Inspector!TypeOK

\* What is known of the detector and of the inspector holds of every call.
THEOREM OthersInvariance == RoutingSpec => []OthersInv
<1>1. RoutingInit => OthersInv
  BY DetectorInvInit, InspectorInvInit, InspectorTypesInit DEF OthersInv, RoutingInit
<1>2. OthersInv /\ [RoutingNext]_allVars => OthersInv'
  <2> SUFFICES ASSUME OthersInv, [RoutingNext]_allVars PROVE OthersInv'
    OBVIOUS
  <2>1. DetectorInv' /\ InspectorInv' /\ Inspector!TypeOK'
    BY DetectorInvStep, InspectorInvStep, InspectorTypesStep DEF OthersInv
  <2>2. called' \in Composites
    BY DEF OthersInv, RoutingNext, Detect, Inspect, Normalize, VerifyIntegrity, allVars
  <2> QED
    BY <2>1, <2>2 DEF OthersInv
<1> QED
  BY <1>1, <1>2, PTL DEF RoutingSpec

LEMMA DetectorTypes == DetectorInv => Detector!TypeOK
<1> SUFFICES ASSUME DetectorInv PROVE Detector!TypeOK
  OBVIOUS
<1>1. DOMAIN waiting = 1..Len(waiting)
  BY DEF DetectorInv
<1>2. Detector!IsInjective(waiting)
  BY <1>1 DEF DetectorInv, Detector!IsInjective
<1>3. Detector!ToSet(waiting) = Elements(waiting)
  BY <1>1 DEF Detector!ToSet, Elements
<1>4. \A d \in Elements(waiting) : detection \in {"preferred", "remaining"} => d \notin Detector!Ran
  BY DEF DetectorInv
<1>5. \A i, j \in 1..Len(candidates) : candidates[i].platform = candidates[j].platform => i = j
  BY DEF DetectorInv, BestOfEach
<1> QED
  BY <1>2, <1>3, <1>4, <1>5 DEF DetectorInv, Detector!TypeOK

\* The state of all composites stays well typed: no detector waits twice or runs twice, no
\* platform has two candidates, and no inspector is asked again.
THEOREM RoutingTypesCorrect == RoutingSpec => []RoutingTypeOK
<1>1. OthersInv /\ TypeOK => RoutingTypeOK
  BY DetectorTypes DEF OthersInv, RoutingTypeOK
<1> QED
  BY <1>1, OthersInvariance, NormalizerAlone, RoutingTypeCorrect, PTL

\* Under a restriction nothing that does not own the platform is run, asked or probed.
THEOREM RestrictionEverywhere == RoutingSpec => []RestrictionHoldsEverywhere
<1>1. OthersInv => Detector!RestrictionHolds /\ Inspector!RestrictionHolds
  BY DEF OthersInv, DetectorInv, Detector!RestrictionHolds, Detector!Owners,
         InspectorInv, Inspector!RestrictionHolds, Inspector!PreferredGroup
<1>2. OthersInv /\ RestrictionHolds => RestrictionHoldsEverywhere
  BY <1>1 DEF RestrictionHoldsEverywhere
<1> QED
  BY <1>2, OthersInvariance, NormalizerAlone, RestrictedRouting, PTL

\* The normalizer keeps its promises when the other composites are called around it.
THEOREM NormalizerInRouting == RoutingSpec => []PreferenceFallsBack /\ RouterSpec
BY NormalizerAlone, SoftPreference, ImplementsRouter, PTL

\* When all detectors ran, the candidates are those that the registered order gives.
LEMMA OrderDecidesNothing ==
  ASSUME DetectorInv, Detector!Ran = Detector!Detectors, ~Detector!IsAmbiguous(candidates)
  PROVE  Detector!Best(candidates) = Detector!Unhinted
<1> DEFINE n == Len(DetectorOrder)
           reports == [i \in 1..n |-> reported[DetectorOrder[i]]]
<1>1. n \in Nat /\ \A i \in 1..n : DetectorOrder[i] \in Detector!Detectors
  BY DetectorsListed
<1>2. \A d \in Detector!Detectors : reported[d] \in Seq(Candidates)
  BY DetectorsListed DEF DetectorInv, Detector!Ran
<1>3. reports \in Seq(Seq(Candidates)) /\ Len(reports) = n
  BY <1>1, <1>2
<1>4. UNION {Elements(reports[i]) : i \in 1..n} = Said
  <2>1. {Elements(reports[i]) : i \in 1..n} = {Elements(reported[d]) : d \in Elements(DetectorOrder)}
    <3>1. \A i \in 1..n : reports[i] = reported[DetectorOrder[i]]
      OBVIOUS
    <3>2. {Elements(reports[i]) : i \in 1..n} = {Elements(reported[DetectorOrder[i]]) : i \in 1..n}
      <4> HIDE DEF reports, n
      <4> QED
        BY <3>1
    <3>3. {Elements(reported[DetectorOrder[i]]) : i \in 1..n}
            = {Elements(reported[d]) : d \in {DetectorOrder[i] : i \in 1..n}}
      <4> DEFINE Of(d) == Elements(reported[d])
      <4> HIDE DEF Of, n
      <4>1. {Of(DetectorOrder[i]) : i \in 1..n} = {Of(d) : d \in {DetectorOrder[i] : i \in 1..n}}
        OBVIOUS
      <4> QED
        BY <4>1 DEF Of
    <3>4. {DetectorOrder[i] : i \in 1..n} = Elements(DetectorOrder)
      BY DEF Elements
    <3> QED
      BY <3>2, <3>3, <3>4
  <2> HIDE DEF reports, n
  <2> QED
    BY <2>1, DetectorsListed DEF Said
<1> HIDE DEF reports
<1>5. BestOfEach(Detector!InOrderUpTo(reports)[n], Said)
  BY <1>3, <1>4, InOrderKeeps
<1>6. BestOfEach(candidates, Said)
  BY DEF DetectorInv
<1>7. Detector!Best(candidates) = Detector!Best(Detector!InOrderUpTo(reports)[n])
  BY <1>5, <1>6, BestOfSame
<1> QED
  BY <1>7 DEF Detector!Unhinted, reports

\* A hint that the file does not bear out is harmless, whatever the detectors report, in
\* whatever order they are registered and whatever platforms they own.
THEOREM HintsHarmless == RoutingSpec => []HintsAreHarmless
<1>1. ASSUME DetectorInv PROVE Detector!WrongHintIsHarmless
  <2> SUFFICES ASSUME detection = "done", ~restrict,
                      \A c \in Detector!ToSet(candidates) : c.platform # preferred
               PROVE  /\ Detector!Ran = Detector!Detectors
                      /\ Detector!IsAmbiguous(candidates) \/ Detector!Best(candidates) = Detector!Unhinted
    BY DEF Detector!WrongHintIsHarmless
  <2>1. DOMAIN candidates = 1..Len(candidates)
    BY <1>1 DEF DetectorInv, BestOfEach
  <2>2. Detector!ToSet(candidates) = Elements(candidates)
    BY <2>1 DEF Detector!ToSet, Elements
  <2>3. Detector!Ran = Detector!Detectors
    BY <1>1, <2>2 DEF DetectorInv
  <2> QED
    BY <1>1, <2>3, OrderDecidesNothing
<1>2. OthersInv => HintsAreHarmless
  BY <1>1 DEF OthersInv, InspectorInv, HintsAreHarmless
<1> QED
  BY <1>2, OthersInvariance, PTL
===================================================================================
