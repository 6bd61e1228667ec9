---------------------------- MODULE NormalizerRouting ----------------------------
(***************************************************************************)
(* routing.CompositeNormalizer: probe the registered normalizers, those of *)
(* the preferred platform first, choose the only one that supports the     *)
(* file, and let it normalize.  A probe may start an external program,     *)
(* which may be missing, fail or time out.                                 *)
(***************************************************************************)
EXTENDS Naturals, FiniteSets

CONSTANTS
  Normalizers,  \* the registered normalizers
  Platforms,
  Owned,        \* Owned[n]: the platforms that normalizer n supports
  None

ASSUME OwnedAssumption == Owned \in [Normalizers -> SUBSET Platforms]
ASSUME NoneAssumption == None \notin Normalizers \cup Platforms

VARIABLES
  preferred, restrict,  \* the selection the composite was built with
  phase,
  todo,      \* the normalizers of the group that are still to be probed
  probes,    \* the status of each probe made, "none" before
  outcome    \* what identify returned or raised

vars == <<preferred, restrict, phase, todo, probes, outcome>>

Failed == {"unsafe", "backend_unavailable", "backend_failure"}
ProbeStatus == {"unsupported", "supported"} \cup Failed

PreferredGroup == {n \in Normalizers : preferred \in Owned[n]}

Supporting == {n \in Normalizers : probes[n] = "supported"}
Terminal == {n \in Normalizers : probes[n] \in Failed}

Init ==
  /\ preferred \in Platforms \cup {None}
  /\ restrict \in BOOLEAN
  /\ restrict => preferred # None
  /\ phase = IF PreferredGroup # {} THEN "preferred"
             ELSE IF restrict THEN "select" ELSE "remaining"
  /\ todo = IF PreferredGroup # {} THEN PreferredGroup
            ELSE IF restrict THEN {} ELSE Normalizers
  /\ probes = [n \in Normalizers |-> "none"]
  /\ outcome = <<"open">>

End(how) ==
  /\ phase' = "done"
  /\ outcome' = how
  /\ UNCHANGED <<preferred, restrict, todo>>

-----------------------------------------------------------------------------
\* One probe of a group.  The code follows the order of registration; here every
\* order is possible, and nothing depends on it.  A probe under another name, or no
\* probe at all, breaks the contract.
Probe(n) ==
  /\ phase \in {"preferred", "remaining"}
  /\ n \in todo
  /\ \/ \E status \in ProbeStatus :
          /\ probes' = [probes EXCEPT ![n] = status]
          /\ todo' = todo \ {n}
          /\ UNCHANGED <<preferred, restrict, phase, outcome>>
     \/ UNCHANGED probes /\ End(<<"contract">>)

\* Wrong on purpose: a preferred normalizer that failed also ends the probing.
EndOfPreferredOnFailure ==
  /\ phase = "preferred" /\ todo = {}
  /\ IF (\E n \in PreferredGroup : probes[n] # "unsupported") \/ restrict
       THEN phase' = "select" /\ UNCHANGED todo
       ELSE phase' = "remaining" /\ todo' = Normalizers \ PreferredGroup
  /\ UNCHANGED <<preferred, restrict, probes, outcome>>

\* A claim of the preferred group, or the restriction, spares the others.
EndOfPreferred ==
  /\ phase = "preferred" /\ todo = {}
  /\ IF (\E n \in PreferredGroup : probes[n] = "supported") \/ restrict
       THEN phase' = "select" /\ UNCHANGED todo
       ELSE phase' = "remaining" /\ todo' = Normalizers \ PreferredGroup
  /\ UNCHANGED <<preferred, restrict, probes, outcome>>

EndOfRemaining ==
  /\ phase = "remaining" /\ todo = {}
  /\ phase' = "select"
  /\ UNCHANGED <<preferred, restrict, todo, probes, outcome>>

\* Wrong on purpose: a failed probe is reported although another one succeeded.
SelectFailureFirst ==
  /\ phase = "select"
  /\ UNCHANGED probes
  /\ IF Terminal # {} THEN End(<<"failed">>)
     ELSE IF Supporting = {} THEN End(<<"unsupported">>)
     ELSE IF Cardinality(Supporting) > 1 THEN End(<<"ambiguous">>)
     ELSE /\ phase' = "identify"
          /\ \E n \in Supporting : outcome' = <<"chosen", n>>
          /\ UNCHANGED <<preferred, restrict, todo>>

\* select: two claims are an error of their own, one claim wins over failures.
Select ==
  /\ phase = "select"
  /\ UNCHANGED probes
  /\ \/ /\ \E m, n \in Supporting : m # n
        /\ End(<<"ambiguous">>)
     \/ \E n \in Supporting :
          /\ Supporting = {n}
          /\ phase' = "identify"
          /\ outcome' = <<"chosen", n>>
          /\ UNCHANGED <<preferred, restrict, todo>>
     \/ Supporting = {} /\ Terminal # {} /\ End(<<"failed">>)
     \/ Supporting = {} /\ Terminal = {} /\ End(<<"unsupported">>)

\* The chosen normalizer opens the file again: it returns, or raises whatever it
\* raises, and no other one is tried.
Identify ==
  /\ phase = "identify"
  /\ phase' = "done"
  /\ UNCHANGED <<preferred, restrict, todo, probes, outcome>>

Next ==
  \/ \E n \in Normalizers : Probe(n)
  \/ EndOfPreferred \/ EndOfRemaining \/ Select \/ Identify

Spec == Init /\ [][Next]_vars

-----------------------------------------------------------------------------
TypeOK ==
  /\ preferred \in Platforms \cup {None}
  /\ restrict \in BOOLEAN
  /\ phase \in {"preferred", "remaining", "select", "identify", "done"}
  /\ todo \subseteq Normalizers
  /\ \A n \in todo : probes[n] = "none"
  /\ probes \in [Normalizers -> ProbeStatus \cup {"none"}]
  /\ outcome \in
       {<<"open">>, <<"contract">>, <<"ambiguous">>, <<"failed">>, <<"unsupported">>}
         \cup {<<"chosen", n>> : n \in Normalizers}

\* "Restricted routing invokes only components that own the requested platform": no
\* other normalizer, and no program of another normalizer, is ever started.
RestrictionHolds ==
  restrict => \A n \in Normalizers : probes[n] # "none" => preferred \in Owned[n]

\* A soft preference never hides a file: only a claim of a preferred normalizer
\* keeps the others from being asked, so without one every outcome rests on all of
\* the normalizers.
PreferenceFallsBack ==
  /\ phase \in {"select", "identify", "done"} /\ outcome # <<"contract">> /\ ~restrict
  /\ ~(\E n \in PreferredGroup : probes[n] = "supported")
  => \A n \in Normalizers : probes[n] # "none"

\* The probes one by one, in any order and with any failures, look like one
\* decision on the answers.
Decision == outcome

Routed == INSTANCE Router WITH Adapters <- Normalizers, claims <- Supporting,
                               failures <- Terminal, decision <- Decision

RouterSpec == Routed!Spec
==================================================================================
