--------------------------- MODULE InspectionRouting ---------------------------
(***************************************************************************)
(* inspection.CompositeStructuralInspector: ask the registered inspectors  *)
(* for structural evidence, those of the preferred platform first, and     *)
(* return the evidence of the only one of a group that has any.            *)
(***************************************************************************)
CONSTANTS
  Inspectors,  \* the registered inspectors
  Platforms,
  Owned,       \* Owned[i]: the platforms that inspector i supports
  None

VARIABLES
  preferred, restrict,  \* the selection the composite was built with
  group,     \* the inspectors asked together, an empty one when all is said
  todo,      \* those of the group that are still to be asked
  asked,     \* those that have answered
  matches,   \* those of them that have evidence
  result     \* what inspect returned or raised

vars == <<preferred, restrict, group, todo, asked, matches, result>>

PreferredGroup == {i \in Inspectors : preferred \in Owned[i]}
Remaining == Inspectors \ PreferredGroup

Init ==
  /\ preferred \in Platforms \cup {None}
  /\ restrict \in BOOLEAN
  /\ restrict => preferred # None
  /\ group = IF PreferredGroup # {} \/ restrict THEN PreferredGroup ELSE Remaining
  /\ todo = group
  /\ asked = {} /\ matches = {}
  /\ result = <<"open">>

-----------------------------------------------------------------------------
\* Wrong on purpose: the first evidence of a group is taken.
InspectUntilFound(i) ==
  /\ result = <<"open">>
  /\ i \in todo
  /\ asked' = asked \cup {i}
  /\ \/ UNCHANGED matches /\ todo' = todo \ {i}
     \/ matches' = matches \cup {i} /\ todo' = {}
  /\ UNCHANGED <<preferred, restrict, group, result>>

\* One inspector: nothing, evidence, or an error of its own or against the contract.
Inspect(i) ==
  /\ result = <<"open">>
  /\ i \in todo
  /\ \/ /\ todo' = todo \ {i}
        /\ asked' = asked \cup {i}
        /\ matches' \in {matches, matches \cup {i}}
        /\ UNCHANGED result
     \/ result' = <<"contract">> /\ UNCHANGED <<todo, asked, matches>>
  /\ UNCHANGED <<preferred, restrict, group>>

\* Wrong on purpose: the fallback is tried under a restriction as well.
FallBackAlways ==
  /\ result = <<"open">> /\ todo = {}
  /\ group = PreferredGroup /\ group # Remaining
  /\ matches = {}
  /\ group' = Remaining /\ todo' = Remaining
  /\ UNCHANGED <<preferred, restrict, asked, matches, result>>

\* No inspector of the preferred platform has any evidence.
FallBack ==
  /\ result = <<"open">> /\ todo = {}
  /\ group = PreferredGroup /\ group # Remaining
  /\ matches = {} /\ ~restrict
  /\ group' = Remaining /\ todo' = Remaining
  /\ UNCHANGED <<preferred, restrict, asked, matches, result>>

Conclude ==
  /\ result = <<"open">> /\ todo = {}
  /\ \/ (\E i, j \in matches : i # j) /\ result' = <<"ambiguous">>
     \/ \E i \in matches : matches = {i} /\ result' = <<"chosen", i>>
     \/ /\ matches = {}
        /\ restrict \/ group = Remaining
        /\ result' = <<"unsupported">>
  /\ UNCHANGED <<preferred, restrict, group, todo, asked, matches>>

Next == (\E i \in Inspectors : Inspect(i)) \/ FallBack \/ Conclude

Spec == Init /\ [][Next]_vars

-----------------------------------------------------------------------------
TypeOK ==
  /\ preferred \in Platforms \cup {None} /\ restrict \in BOOLEAN
  /\ group \in {PreferredGroup, Remaining}
  /\ todo \subseteq group
  /\ matches \subseteq asked /\ asked \subseteq Inspectors \ todo
  /\ result \in {<<"open">>, <<"contract">>, <<"ambiguous">>, <<"unsupported">>}
                  \cup {<<"chosen", i>> : i \in Inspectors}

\* "Restricted routing invokes only inspectors that own the requested platform."
RestrictionHolds == restrict => \A i \in asked : preferred \in Owned[i]

\* A file is given up only when everyone was asked that could have known it: all
\* inspectors, or under a restriction all that own the platform.  And evidence counts
\* only when everyone in its group was asked, so that a second claim is not missed.
NothingOverlooked ==
  /\ result = <<"unsupported">> =>
       asked = (IF restrict THEN PreferredGroup ELSE Inspectors)
  /\ \A i \in Inspectors : result = <<"chosen", i>> => i \in group /\ group \subseteq asked

\* Evidence of one inspector only, decided once, on nothing but the answers.
Routed == INSTANCE Router WITH Adapters <- Inspectors, claims <- matches,
                               failures <- {}, decision <- result

RouterSpec == Routed!Spec
=================================================================================
