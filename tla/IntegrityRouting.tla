---------------------------- MODULE IntegrityRouting ----------------------------
(***************************************************************************)
(* integrity_routing.CompositeIntegrityVerifier: probe every registered    *)
(* verifier, let the only one that supports the file verify it, and accept *)
(* its report only under its own name.                                     *)
(***************************************************************************)
EXTENDS Naturals, Sequences, SequencesExt

CONSTANT Registered  \* the registered verifiers in their order

VARIABLES
  todo,     \* the verifiers that are still to be probed
  probes,   \* the status of each probe made, "none" before
  chosen,   \* how select ended
  report    \* how verify ended

vars == <<todo, probes, chosen, report>>

Verifiers == ToSet(Registered)
Failed == {"backend_unavailable", "backend_failure"}
Supporting == {v \in Verifiers : probes[v] = "supported"}
Terminal == {v \in Verifiers : probes[v] \in Failed}

Init ==
  /\ todo = Registered
  /\ probes = [v \in Verifiers |-> "none"]
  /\ chosen = <<"open">>
  /\ report = "none"

-----------------------------------------------------------------------------
\* probe_verifiers, one by one; a probe under another name breaks the contract.
Probe ==
  /\ chosen = <<"open">> /\ todo # <<>>
  /\ \/ /\ \E status \in {"unsupported", "supported"} \cup Failed :
             probes' = [probes EXCEPT ![Head(todo)] = status]
        /\ todo' = Tail(todo)
        /\ UNCHANGED chosen
     \/ chosen' = <<"contract">> /\ UNCHANGED <<todo, probes>>
  /\ UNCHANGED report

\* Wrong on purpose: the first verifier that supports the file is taken.
SelectFirst ==
  /\ chosen = <<"open">> /\ todo = <<>>
  /\ chosen' = IF Supporting # {} THEN <<"chosen", CHOOSE v \in Supporting : TRUE>>
               ELSE IF Terminal # {} THEN <<"failed">>
               ELSE <<"unsupported">>
  /\ UNCHANGED <<todo, probes, report>>

Select ==
  /\ chosen = <<"open">> /\ todo = <<>>
  /\ \/ (\E v, w \in Supporting : v # w) /\ chosen' = <<"ambiguous">>
     \/ \E v \in Supporting : Supporting = {v} /\ chosen' = <<"chosen", v>>
     \/ Supporting = {} /\ Terminal # {} /\ chosen' = <<"failed">>
     \/ Supporting = {} /\ Terminal = {} /\ chosen' = <<"unsupported">>
  /\ UNCHANGED <<todo, probes, report>>

\* The chosen verifier reports under a name, or raises.
Verify ==
  /\ report = "none"
  /\ \E v \in Verifiers :
       /\ chosen = <<"chosen", v>>
       /\ \/ \E name \in Verifiers : report' = IF name = v THEN "accepted" ELSE "contract"
          \/ report' = "raised"
  /\ UNCHANGED <<todo, probes, chosen>>

Next == Probe \/ Select \/ Verify

Spec == Init /\ [][Next]_vars

-----------------------------------------------------------------------------
\* "Route one artifact to exactly one specialist verifier": the loop of probes is one
\* decision on all the claims and failures.
Routed == INSTANCE Router WITH Adapters <- Verifiers, claims <- Supporting,
                               failures <- Terminal, decision <- chosen

RouterSpec == Routed!Spec
=================================================================================
