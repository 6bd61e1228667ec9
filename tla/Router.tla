--------------------------------- MODULE Router ---------------------------------
(***************************************************************************)
(* What a router of adapters promises: it asks some of them whether they   *)
(* support a file, and it decides once, on nothing but the answers.  One   *)
(* claim is enough whatever else failed, two claims are never settled by   *)
(* a preference, and a failure is not mistaken for "unsupported".          *)
(***************************************************************************)
CONSTANT Adapters

VARIABLES
  claims,   \* the adapters that support the file
  failures, \* the adapters that could not find out
  decision

Claim(a) ==
  /\ decision = <<"open">>
  /\ a \in Adapters
  /\ claims' = claims \cup {a}
  /\ UNCHANGED <<failures, decision>>

Failure(a) ==
  /\ decision = <<"open">>
  /\ a \in Adapters
  /\ failures' = failures \cup {a}
  /\ UNCHANGED <<claims, decision>>

\* A broken contract ends the routing at any time.
Break ==
  /\ decision = <<"open">>
  /\ decision' = <<"contract">>
  /\ UNCHANGED <<claims, failures>>

Decide ==
  /\ decision = <<"open">>
  /\ \/ \E a \in claims : claims = {a} /\ decision' = <<"chosen", a>>
     \/ (\E a, b \in claims : a # b) /\ decision' = <<"ambiguous">>
     \/ claims = {} /\ failures # {} /\ decision' = <<"failed">>
     \/ claims = {} /\ failures = {} /\ decision' = <<"unsupported">>
  /\ UNCHANGED <<claims, failures>>

Init == claims = {} /\ failures = {} /\ decision = <<"open">>

Next == (\E a \in Adapters : Claim(a) \/ Failure(a)) \/ Break \/ Decide

Spec == Init /\ [][Next]_<<claims, failures, decision>>
=================================================================================
