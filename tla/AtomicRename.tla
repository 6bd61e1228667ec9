------------------------------ MODULE AtomicRename ------------------------------
(***************************************************************************)
(* What the rename command promises of a directory, with all its system    *)
(* calls in one step: a file moves to its canonical name when that name is *)
(* free, or, when the command dies half way, is left under both names.     *)
(***************************************************************************)
CONSTANTS Names, Files, Links, NoEntry, Canonical

VARIABLE entries

Init ==
  /\ entries \in [Names -> Files \cup Links \cup {NoEntry}]
  /\ \A f \in Files : \E n \in Names : entries[n] = f

Move(n, f) ==
  LET d == Canonical[<<n, f>>] IN
  /\ entries[n] = f
  /\ entries[d] = NoEntry
  /\ entries' = [entries EXCEPT ![d] = f, ![n] = NoEntry]

LeaveBoth(n, f) ==
  LET d == Canonical[<<n, f>>] IN
  /\ entries[n] = f
  /\ entries[d] = NoEntry
  /\ entries' = [entries EXCEPT ![d] = f]

Next == \E n \in Names, f \in Files : Move(n, f) \/ LeaveBoth(n, f)

Spec == Init /\ [][Next]_entries
=================================================================================
