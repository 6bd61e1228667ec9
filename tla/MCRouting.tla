--------------------------------- MODULE MCRouting ---------------------------------
(* The shape of the default composition: NES, Dolphin with two platforms and     *)
(* Xbox, an inspector for Switch, and in two of the composites a component that  *)
(* a library user registers for a platform that has one already.  Detectors      *)
(* report up to two candidates of two confidences each.                          *)
EXTENDS Routing

CONSTANTS nes, dolphin, xbox, other, switch, gc, wii, v1, v2, v3

MCOwned == [n \in Normalizers |-> CASE n = dolphin -> {gc, wii} [] n = other -> {gc}
                                    [] OTHER -> {n}]
MCOwnedByInspector ==
  [i \in Inspectors |-> CASE i = dolphin -> {gc, wii} [] i = other -> {gc}
                          [] OTHER -> {i}]
MCDetectors == <<nes, dolphin, xbox>>
MCOwnedByDetector == [d \in {nes, dolphin, xbox} |-> IF d = dolphin THEN {gc, wii} ELSE {d}]
MCVerifiers == <<v1, v2, v3>>

Candidate == [platform : {gc, wii, xbox}, confidence : {50, 100}]
MCReports ==
  {<<>>} \cup {<<c>> : c \in Candidate}
    \cup {<<c, d>> : c \in Candidate, d \in [platform : {xbox}, confidence : {50, 100}]}
=====================================================================================
