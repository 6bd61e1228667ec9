--------------------------- MODULE PlatformDetection ---------------------------
(***************************************************************************)
(* detection.CompositePlatformDetector: run the registered detectors over  *)
(* one file, those of the preferred platform first, and combine what they  *)
(* report.  Which platform wins depends on the order of the reports only   *)
(* where confidence does not tell the platforms apart.                     *)
(***************************************************************************)
EXTENDS Selection, SequencesExt

CONSTANTS
  Registered,  \* the registered detectors in their order
  Platforms,
  Owned,       \* Owned[d]: the platforms that detector d supports
  Reports,     \* what a detector may report: sequences of candidates
  None

VARIABLES
  preferred, restrict,  \* the selection the composite was built with
  phase,
  todo,        \* the detectors of the group that are still to run
  reported,    \* what each detector has reported, None before it ran
  candidates   \* the combined candidates, in the order of their first report

vars == <<preferred, restrict, phase, todo, reported, candidates>>

Detectors == ToSet(Registered)
Owns(d) == preferred \in Owned[d]
Owners == {d \in Detectors : Owns(d)}

Init ==
  /\ preferred \in Platforms \cup {None}
  /\ restrict \in BOOLEAN
  /\ restrict => preferred # None
  /\ LET group == Selected(Registered, Owners)
     IN  /\ phase = IF group # <<>> THEN "preferred"
                    ELSE IF restrict THEN "done" ELSE "remaining"
         /\ todo = IF group # <<>> THEN group ELSE IF restrict THEN <<>> ELSE Registered
  /\ reported = [d \in Detectors |-> None]
  /\ candidates = <<>>

-----------------------------------------------------------------------------
\* PlatformDetection.best: max() takes the first of equal confidence.
Best(cs) ==
  CHOOSE c \in ToSet(cs) \cup {None} :
    IF cs = <<>> THEN c = None
    ELSE \E i \in 1..Len(cs) :
           /\ c = cs[i]
           /\ \A j \in 1..Len(cs) : cs[j].confidence <= cs[i].confidence
           /\ \A j \in 1..(i - 1) : cs[j].confidence < cs[i].confidence

\* PlatformDetection.is_ambiguous: the first two in the order of confidence tie.
IsAmbiguous(cs) ==
  \E i, j \in 1..Len(cs) :
    /\ i # j
    /\ cs[i].confidence = cs[j].confidence
    /\ \A k \in 1..Len(cs) : cs[k].confidence <= cs[i].confidence

\* A platform keeps its place and the higher confidence.
Combine(cs, c) ==
  IF \E i \in 1..Len(cs) : cs[i].platform = c.platform
    THEN [i \in 1..Len(cs) |->
            IF cs[i].platform = c.platform /\ cs[i].confidence < c.confidence THEN c ELSE cs[i]]
    ELSE Append(cs, c)

\* One after the other, the candidates of a report.
CombinedUpTo(cs, report) ==
  LET upTo[n \in 0..Len(report)] ==
        IF n = 0 THEN cs ELSE Combine(upTo[n - 1], report[n])
  IN upTo

Combined(cs, report) == CombinedUpTo(cs, report)[Len(report)]

\* The next detector of the group reports, or raises, which ends the detection.
RunDetector ==
  /\ phase \in {"preferred", "remaining"}
  /\ todo # <<>>
  /\ \/ \E report \in Reports :
          /\ reported' = [reported EXCEPT ![Head(todo)] = report]
          /\ candidates' = Combined(candidates, report)
          /\ todo' = Tail(todo)
          /\ UNCHANGED phase
     \/ phase' = "raised" /\ UNCHANGED <<todo, reported, candidates>>
  /\ UNCHANGED <<preferred, restrict>>

\* Wrong on purpose: the second group is still all of the registered detectors.
EndOfPreferredTwice ==
  /\ phase = "preferred" /\ todo = <<>>
  /\ IF (\E c \in ToSet(candidates) : c.platform = preferred) \/ restrict
       THEN phase' = "done" /\ UNCHANGED todo
       ELSE phase' = "remaining" /\ todo' = Registered
  /\ UNCHANGED <<preferred, restrict, reported, candidates>>

EndOfPreferred ==
  /\ phase = "preferred" /\ todo = <<>>
  /\ IF (\E c \in ToSet(candidates) : c.platform = preferred) \/ restrict
       THEN phase' = "done" /\ UNCHANGED todo
       ELSE phase' = "remaining" /\ todo' = Selected(Registered, Detectors \ Owners)
  /\ UNCHANGED <<preferred, restrict, reported, candidates>>

EndOfRemaining ==
  /\ phase = "remaining" /\ todo = <<>>
  /\ phase' = "done"
  /\ UNCHANGED <<preferred, restrict, todo, reported, candidates>>

Next == RunDetector \/ EndOfPreferred \/ EndOfRemaining

Spec == Init /\ [][Next]_vars

-----------------------------------------------------------------------------
Ran == {d \in Detectors : reported[d] # None}

\* What the detectors that ran say of a platform, in whatever order they ran.
Claims(p) ==
  {c.confidence : c \in {e \in UNION {ToSet(reported[d]) : d \in Ran} : e.platform = p}}

TypeOK ==
  /\ preferred \in Platforms \cup {None} /\ restrict \in BOOLEAN
  /\ phase \in {"preferred", "remaining", "done", "raised"}
  /\ todo \in Seq(Detectors) /\ IsInjective(todo)
  /\ \A d \in ToSet(todo) : phase \in {"preferred", "remaining"} => d \notin Ran
  /\ \A i, j \in 1..Len(candidates) :
       candidates[i].platform = candidates[j].platform => i = j

\* "Restricted routing invokes only components that own the requested platform."
RestrictionHolds == restrict => \A d \in Ran : Owns(d)

\* One after the other, the reports of all detectors.
InOrderUpTo(reports) ==
  LET upTo[n \in 0..Len(reports)] ==
        IF n = 0 THEN <<>> ELSE Combined(upTo[n - 1], reports[n])
  IN upTo

\* A hint that the file does not bear out changes nothing: every detector is run, and
\* the best platform is the one that the registered order gives, ties apart.
Unhinted ==
  Best(InOrderUpTo([i \in 1..Len(Registered) |-> reported[Registered[i]]])[Len(Registered)])

WrongHintIsHarmless ==
  phase = "done" /\ ~restrict /\ (\A c \in ToSet(candidates) : c.platform # preferred) =>
    /\ Ran = Detectors
    /\ IsAmbiguous(candidates) \/ Best(candidates) = Unhinted
=================================================================================
