--------------------------------- MODULE Formats_proofs ------------------------------
(***************************************************************************)
(* Proofs about what reads one file to say what it is, part by part, for   *)
(* any files, any limits, any failures of the external programs and any    *)
(* other program that writes to the file meanwhile; at the end, that each  *)
(* part keeps what was proved of it within the whole.                      *)
(***************************************************************************)
EXTENDS Formats, Selection_proofs, FiniteSetTheorems, TLAPS

-----------------------------------------------------------------------------
(***************************************************************************)
(* The adapters that examine a disc with an external program: for any set  *)
(* of sources, and however the runs of the program end.                    *)
(***************************************************************************)
\* What is known while a method runs: the digests of the runs that are over have been
\* obtained, and as long as the path has held one source, the header is that of it.
RunInv ==
  /\ adapter \in {"dolphin", "xbox"} /\ method \in Methods \cup {"none"}
  /\ stage \in Stages /\ cause \in Causes /\ done \in Nat /\ current \in BOOLEAN
  /\ stage = "idle" <=> method = "none"
  /\ method # "none" => outcome = "none"
  /\ done > 0 => method = "identify"
  /\ adapter = "dolphin" =>
       /\ done > 0 /\ current => header = source.header
       /\ done > 1 => "crc32" \in obtained
       /\ done > 2 => "md5" \in obtained
       /\ done > 3 => "sha1" \in obtained
       /\ done < 5
  /\ adapter = "xbox" =>
       /\ method # "inspect"
       /\ done > 1 => "checksum" \in obtained
       /\ done < 3

\* What Dolphin's methods have said of the present source follows from its header.
ClaimsInv ==
  adapter = "dolphin" =>
    \A c \in claims :
      /\ c[2] = DolphinPlatform(source.header)
      /\ c[1] = "unsupported" <=> "game_id" \notin DOMAIN source.header

DiscInv == RunInv /\ IdentityIsComplete /\ ClaimsInv

LEMMA DiscInitInv == DiscInit => DiscInv
BY SourceAssumption
   DEF DiscInit, DiscStart, BackendInit, DiscInv, RunInv, ClaimsInv, IdentityIsComplete,
       Methods, Stages, Causes, BackendErrors

-----------------------------------------------------------------------------
\* Commands of every method, one by one: the provers do not compute a sequence.
LEMMA CommandsOfDolphin ==
  ASSUME adapter = "dolphin"
  PROVE  /\ Len(Commands("identify")) = 5
         /\ Commands("identify")[1] = "header" /\ Commands("identify")[2] = "crc32"
         /\ Commands("identify")[3] = "md5" /\ Commands("identify")[4] = "sha1"
         /\ Commands("identify")[5] = "rchash"
         /\ \A m \in {"probe", "inspect", "detect"} : Len(Commands(m)) = 1 /\ Commands(m)[1] = "header"
BY DEF Commands

LEMMA CommandsOfXbox ==
  ASSUME adapter = "xbox"
  PROVE  /\ Len(Commands("identify")) = 3
         /\ Commands("identify")[1] = "info" /\ Commands("identify")[2] = "checksum"
         /\ Commands("identify")[3] = "copy-out"
         /\ \A m \in {"probe", "inspect", "detect"} : Len(Commands(m)) = 1 /\ Commands(m)[1] = "info"
BY DEF Commands

LEMMA CommandsOfCapability ==
  Len(Commands("capability")) = 1 /\ Commands("capability")[1] = "health"
BY DEF Commands

\* The answers that let a method go on, command by command: nothing but a digest follows
\* a command that computes one, and nothing but JSON the header.
Answers == IF cause = "completed" THEN Outputs(Commands(method)[done + 1]) ELSE {cause}

AllCommands == Digests \cup {"health", "header", "rchash", "info", "copy-out"}

LEMMA UsableAnswers ==
  ASSUME RunInv, NEW command \in AllCommands, NEW answer, Usable(command, answer),
         answer \in IF cause = "completed" THEN Outputs(command) ELSE {cause}
  PROVE  /\ command \in Digests => answer = "digest"
         /\ command = "header" <=> answer = "json"
<1>1. cause = "completed" /\ answer \in Outputs(command)
  BY DEF RunInv, Usable, Causes, BackendErrors
<1>2. CASE command \in Digests
  BY <1>1, <1>2 DEF Usable, Outputs, Digests
<1>3. CASE command = "header"
  BY <1>1, <1>3 DEF Usable, Outputs, Digests
<1>4. CASE command \in {"health", "rchash", "info", "copy-out"}
  BY <1>1, <1>4 DEF Outputs, Digests
<1> QED
  BY <1>2, <1>3, <1>4 DEF AllCommands

-----------------------------------------------------------------------------
\* What the end of a method says, if it is a claim: only identify identifies, only with
\* an answer it goes on with, and Dolphin's claims follow from the header.
LEMMA ClaimOfDolphin ==
  ASSUME NEW command, NEW answer, NEW h, adapter = "dolphin",
         method \in {"capability", "probe", "inspect", "detect", "identify"},
         Verdict(command, answer, h) \in Claims
  PROVE  /\ method # "capability" /\ Usable(command, answer)
         /\ Verdict(command, answer, h) = "identified" => method = "identify"
         /\ Verdict(command, answer, h) = "unsupported" <=> "game_id" \notin DOMAIN h
<1>1. answer \notin {"os_error", "undecodable"} /\ method # "capability"
  BY DEF Verdict, Capability, Claims
<1>2. Usable(command, answer) /\ Verdict(command, answer, h) = DolphinAccepted(method, h)
  BY <1>1 DEF Verdict, DolphinRefused, Raised, Claims
<1>3. h = <<>> => "game_id" \notin DOMAIN h
  OBVIOUS
<1> QED
  BY <1>1, <1>2, <1>3
     DEF DolphinAccepted, DolphinProbed, DolphinDetected, DolphinInspected, DolphinIdentified,
         Complete, Good, NotBad, Claims

LEMMA ClaimOfXbox ==
  ASSUME NEW command, NEW answer, NEW h, adapter = "xbox",
         method \in {"capability", "probe", "detect", "identify"},
         Verdict(command, answer, h) = "identified"
  PROVE  method = "identify" /\ Usable(command, answer)
BY DEF Verdict, Capability, XboxRefused, XboxAccepted, XboxProbed, XboxDetected, Raised

-----------------------------------------------------------------------------
\* A run that goes on, or that is over, changes nothing but the stage and its cause.
LEMMA BackendStep ==
  ASSUME DiscInv, Supervising \/ Environment
  PROVE  DiscInv'
<1> USE DEF DiscInv, RunInv, ClaimsInv, IdentityIsComplete, DolphinPlatform, adapterVars, Stages,
            Causes, BackendErrors
<1>1. CASE Supervising
  BY <1>1 DEF Supervising, Supervise, Discover, Look, StartProgram, Timeout, EndRun, Methods
<1>2. CASE Environment
  BY <1>2 DEF Environment, ProgramEnds, Administer, EndRun, Methods
<1> QED
  BY <1>1, <1>2

LEMMA BeginStep ==
  ASSUME DiscInv, Begin \/ AnswerAtOnce \/ Replace
  PROVE  DiscInv'
<1> USE DEF DiscInv, RunInv, ClaimsInv, IdentityIsComplete, DolphinPlatform, backendVars, Stages,
            Methods
<1>1. CASE Begin
  BY <1>1 DEF Begin, NeedsProgram
<1>2. CASE AnswerAtOnce
  <2>1. outcome' # "identified"
    BY <1>2 DEF AnswerAtOnce, XboxInspected, Unexamined
  <2>2. adapter = "dolphin" => claims' = claims
    BY <1>2 DEF AnswerAtOnce, NeedsProgram
  <2> QED
    BY <1>2, <2>1, <2>2 DEF AnswerAtOnce
<1>3. CASE Replace
  BY <1>3 DEF Replace
<1> QED
  BY <1>1, <1>2, <1>3

\* The next command of a run that has ended.
LEMMA NextCommand ==
  ASSUME RunInv, stage = "ended"
  PROVE  /\ method # "none" /\ Commands(method)[done + 1] \in AllCommands
         /\ done + 1 < Len(Commands(method)) => method = "identify"
         /\ method = "identify" /\ adapter = "dolphin" =>
              /\ Len(Commands(method)) = 5
              /\ Commands(method)[done + 1] = IF done = 0 THEN "header" ELSE IF done = 1 THEN "crc32"
                   ELSE IF done = 2 THEN "md5" ELSE IF done = 3 THEN "sha1" ELSE "rchash"
         /\ method = "identify" /\ adapter = "xbox" =>
              /\ Len(Commands(method)) = 3
              /\ Commands(method)[done + 1] = IF done = 0 THEN "info" ELSE IF done = 1 THEN "checksum"
                                                                   ELSE "copy-out"
         /\ method \notin {"identify", "capability"} /\ adapter = "dolphin" =>
              Commands(method)[done + 1] = "header"
<1> USE DEF RunInv, Methods, Stages
<1>1. method # "none" /\ (method = "identify" \/ done = 0)
  OBVIOUS
<1>2. CASE method = "capability"
  <2>1. done + 1 = 1
    BY <1>1, <1>2
  <2>2. Len(Commands(method)) = 1 /\ Commands(method)[1] = "health"
    BY <1>2, CommandsOfCapability
  <2>3. method # "none" /\ method # "identify" /\ method \in {"identify", "capability"}
    BY <1>2
  <2> HIDE DEF RunInv
  <2> QED
    BY <2>1, <2>2, <2>3 DEF AllCommands
<1>3. CASE method = "identify" /\ adapter = "dolphin"
  <2>1. done = 0 \/ done = 1 \/ done = 2 \/ done = 3 \/ done = 4
    BY <1>3
  <2> QED
    BY <1>1, <1>3, <2>1, CommandsOfDolphin DEF AllCommands, Digests
<1>4. CASE method = "identify" /\ adapter = "xbox"
  <2>1. done = 0 \/ done = 1 \/ done = 2
    BY <1>4
  <2> QED
    BY <1>1, <1>4, <2>1, CommandsOfXbox DEF AllCommands, Digests
<1>5. CASE method \notin {"capability", "identify"}
  <2>1. done + 1 = 1 /\ method \in {"probe", "inspect", "detect"}
    BY <1>1, <1>5
  <2>2. adapter = "dolphin" => Len(Commands(method)) = 1 /\ Commands(method)[1] = "header"
    BY <2>1, CommandsOfDolphin
  <2>3. adapter = "xbox" => Len(Commands(method)) = 1 /\ Commands(method)[1] = "info"
    BY <2>1, CommandsOfXbox
  <2>4. adapter = "dolphin" \/ adapter = "xbox"
    OBVIOUS
  <2>5. method # "none" /\ method # "identify"
    BY <1>1, <1>5
  <2> HIDE DEF RunInv
  <2>6. Commands(method)[done + 1] \in AllCommands /\ ~(done + 1 < Len(Commands(method)))
    BY <2>1, <2>2, <2>3, <2>4 DEF AllCommands
  <2> QED
    BY <2>1, <2>2, <2>5, <2>6
<1> QED
  BY <1>2, <1>3, <1>4, <1>5

\* What is done with an answer keeps the invariant: a method goes on with the digest it
\* has asked for, and ends with a claim that its header, or its digests, bear out.
LEMMA ConcludeStep ==
  ASSUME DiscInv, Conclude
  PROVE  DiscInv'
<1> DEFINE command == Commands(method)[done + 1]
<1>1. PICK answer \in IF cause = "completed" THEN Outputs(command) ELSE {cause} :
        LET h == IF answer = "json" THEN source.header ELSE header
        IN /\ obtained' = IF answer = "digest" THEN obtained \cup {command} ELSE obtained
           /\ \/ IF Usable(command, answer) /\ done + 1 < Len(Commands(method))
                   THEN /\ stage' = "looking" /\ cause' = "none"
                        /\ done' = done + 1 /\ header' = h
                        /\ UNCHANGED <<installed, source, adapter, method, current, outcome, claims>>
                   ELSE End(Verdict(command, answer, h), h)
              \/ XboxIdentifies /\ End("os_error", h)
  BY DEF Conclude
<1> DEFINE h == IF answer = "json" THEN source.header ELSE header
<1>2. RunInv /\ stage = "ended" /\ IdentityIsComplete /\ ClaimsInv
  BY DEF Conclude, DiscInv
<1>3. Usable(command, answer) => /\ command \in Digests => answer = "digest"
                                 /\ command = "header" <=> answer = "json"
  BY <1>1, <1>2, NextCommand, UsableAnswers
<1> HIDE DEF command
<1>4. CASE /\ Usable(command, answer) /\ done + 1 < Len(Commands(method))
           /\ ~(XboxIdentifies /\ End("os_error", h))
  <2>1. /\ stage' = "looking" /\ cause' = "none" /\ done' = done + 1 /\ header' = h
        /\ UNCHANGED <<installed, source, adapter, method, current, outcome, claims>>
        /\ obtained' = IF answer = "digest" THEN obtained \cup {command} ELSE obtained
    BY <1>1, <1>4
  <2>2. method = "identify"
    BY <1>2, <1>4, NextCommand
  <2>3. CASE adapter = "dolphin"
    <3>0. /\ done + 1 < 5
          /\ command = IF done = 0 THEN "header" ELSE IF done = 1 THEN "crc32"
                       ELSE IF done = 2 THEN "md5" ELSE IF done = 3 THEN "sha1" ELSE "rchash"
      BY <1>2, <1>4, <2>2, <2>3, NextCommand DEF command
    <3>a. current => h = source.header
      BY <1>2, <1>3, <1>4, <2>3, <3>0 DEF RunInv
    <3>b. /\ done + 1 > 1 => "crc32" \in obtained'
          /\ done + 1 > 2 => "md5" \in obtained'
          /\ done + 1 > 3 => "sha1" \in obtained'
      BY <1>2, <1>3, <1>4, <2>1, <2>3, <3>0 DEF RunInv, Digests
    <3>1. RunInv'
      BY <1>2, <2>1, <2>2, <2>3, <3>0, <3>a, <3>b DEF RunInv, Stages, Causes, Methods
    <3> QED
      BY <1>2, <2>1, <2>2, <2>3, <3>1 DEF DiscInv, IdentityIsComplete, ClaimsInv, RunInv, DolphinPlatform
  <2>4. CASE adapter = "xbox"
    <3>0. /\ done + 1 < 3
          /\ command = IF done = 0 THEN "info" ELSE IF done = 1 THEN "checksum" ELSE "copy-out"
      BY <1>2, <1>4, <2>2, <2>4, NextCommand DEF command
    <3>a. done + 1 > 1 => "checksum" \in obtained'
      BY <1>2, <1>3, <1>4, <2>1, <2>4, <3>0 DEF RunInv, Digests
    <3>1. RunInv'
      BY <1>2, <2>1, <2>2, <2>4, <3>0, <3>a DEF RunInv, Stages, Causes, Methods
    <3> QED
      BY <1>2, <2>1, <2>2, <2>4, <3>1 DEF DiscInv, IdentityIsComplete, ClaimsInv, RunInv
  <2> QED
    BY <1>2, <2>3, <2>4 DEF RunInv
<1>5. CASE /\ ~(Usable(command, answer) /\ done + 1 < Len(Commands(method)))
           /\ ~(XboxIdentifies /\ End("os_error", h))
  <2> DEFINE what == Verdict(command, answer, h)
  <2>1. End(what, h) /\ obtained' = IF answer = "digest" THEN obtained \cup {command} ELSE obtained
    BY <1>1, <1>5
  <2> HIDE DEF what
  <2>2. RunInv'
    BY <1>2, <2>1 DEF End, RunInv, Stages, Causes, Methods
  <2>3. CASE adapter = "dolphin"
    <3>1. what \in Claims =>
            /\ method # "capability" /\ Usable(command, answer)
            /\ what = "identified" => method = "identify"
            /\ what = "unsupported" <=> "game_id" \notin DOMAIN h
      BY <1>2, <2>3, ClaimOfDolphin, NextCommand DEF what, RunInv, Methods
    <3>2. what \in Claims /\ current => h = source.header
      <4> SUFFICES ASSUME what \in Claims, current
                   PROVE  answer = "json" \/ header = source.header
        BY DEF h
      <4>1. CASE method = "identify"
        <5>1. Len(Commands(method)) = 5 /\ Usable(command, answer) /\ done \in Nat
          BY <1>2, <2>3, <3>1, <4>1, NextCommand DEF RunInv
        <5>2. done + 1 >= 5
          BY <1>5, <5>1
        <5> QED
          BY <1>2, <2>3, <5>1, <5>2 DEF RunInv
      <4>2. CASE method # "identify"
        BY <1>2, <1>3, <2>3, <3>1, <4>2, NextCommand DEF command
      <4> QED
        BY <4>1, <4>2
    <3>3. ClaimsInv'
      BY <1>2, <2>1, <2>3, <3>1, <3>2 DEF End, ClaimsInv, DolphinPlatform
    <3>4. outcome' = "identified" => {"crc32", "md5", "sha1"} \subseteq obtained'
      <4> SUFFICES ASSUME what = "identified"
                   PROVE  {"crc32", "md5", "sha1"} \subseteq obtained
        BY <2>1 DEF End
      <4>1. method = "identify" /\ Usable(command, answer)
        BY <3>1 DEF Claims
      <4>a. Len(Commands(method)) = 5 /\ done \in Nat
        BY <1>2, <2>3, <4>1, NextCommand DEF RunInv
      <4>b. Usable(command, answer)
        BY <4>1
      <4>2. done + 1 >= 5
        BY <1>5, <4>a, <4>b
      <4> QED
        BY <1>2, <2>3, <4>2, <4>a DEF RunInv
    <3> QED
      BY <2>1, <2>2, <2>3, <3>3, <3>4 DEF DiscInv, IdentityIsComplete, End
  <2>4. CASE adapter = "xbox"
    <3>1. outcome' = "identified" => "checksum" \in obtained'
      <4> SUFFICES ASSUME what = "identified"
                   PROVE  "checksum" \in obtained
        BY <2>1 DEF End
      <4>1. method = "identify" /\ Usable(command, answer)
        BY <1>2, <2>4, ClaimOfXbox, NextCommand DEF what, RunInv, Methods
      <4>a. Len(Commands(method)) = 3 /\ done \in Nat
        BY <1>2, <2>4, <4>1, NextCommand DEF RunInv
      <4>b. ~(done + 1 < Len(Commands(method)))
        BY <1>5, <4>1
      <4>2. done + 1 >= 3
        BY <4>a, <4>b
      <4> QED
        BY <1>2, <2>4, <4>2 DEF RunInv
    <3> QED
      BY <2>1, <2>2, <2>4, <3>1 DEF DiscInv, IdentityIsComplete, ClaimsInv, End
  <2> QED
    BY <1>2, <2>3, <2>4 DEF RunInv
<1>6. CASE XboxIdentifies /\ End("os_error", h)
  <2>1. adapter = "xbox"
    BY <1>6 DEF XboxIdentifies
  <2>2. RunInv'
    BY <1>2, <1>6 DEF End, RunInv, Stages, Causes, Methods
  <2> QED
    BY <1>6, <2>1, <2>2 DEF DiscInv, IdentityIsComplete, ClaimsInv, End
<1> QED
  BY <1>4, <1>5, <1>6

-----------------------------------------------------------------------------
LEMMA NextDisc == DiscInv /\ [DiscNext]_discVars => DiscInv'
<1> SUFFICES ASSUME DiscInv, [DiscNext]_discVars
             PROVE  DiscInv'
  OBVIOUS
<1>1. CASE Begin \/ AnswerAtOnce \/ Replace
  BY <1>1, BeginStep
<1>2. CASE Supervising \/ Environment
  BY <1>2, BackendStep
<1>3. CASE Conclude
  BY <1>3, ConcludeStep
<1>4. CASE UNCHANGED discVars
  BY <1>4 DEF discVars, backendVars, adapterVars, DiscInv, RunInv, ClaimsInv, IdentityIsComplete,
              DolphinPlatform
<1> QED
  BY <1>1, <1>2, <1>3, <1>4 DEF DiscNext

\* What is known of a method of an adapter holds at any moment.
THEOREM DiscInvariance == DiscSpec => []DiscInv
BY DiscInitInv, NextDisc, PTL DEF DiscSpec

\* However its five or three runs end, an identity has every digest that is promised.
THEOREM IdentitiesAreComplete == DiscSpec => []IdentityIsComplete
<1>1. DiscInv => IdentityIsComplete
  BY DEF DiscInv
<1> QED
  BY <1>1, DiscInvariance, PTL

\* Dolphin's methods agree about an image whatever fails in whichever of them.
THEOREM NoContradiction == DiscSpec => []DolphinNeverContradicts
<1>1. DiscInv => DolphinNeverContradicts
  BY DEF DiscInv, ClaimsInv, DolphinNeverContradicts
<1> QED
  BY <1>1, DiscInvariance, PTL

-----------------------------------------------------------------------------
(***************************************************************************)
(* The reader of XDVDFS: the walk of a directory.                          *)
(***************************************************************************)
\* The offsets that a sequence of calls of walk will visit.
Visits(calls) == {calls[i].offset : i \in 1..Len(calls)}
WalkCall == [offset : Nat, level : Nat]
Calls == Seq(WalkCall)

LEMMA VisitsOfHead ==
  ASSUME NEW calls \in Calls, calls # <<>>
  PROVE  /\ Tail(calls) \in Calls /\ Head(calls) \in WalkCall
         /\ Visits(calls) = {Head(calls).offset} \cup Visits(Tail(calls))
<1>1. Tail(calls) \in Calls /\ Head(calls) \in WalkCall /\ Head(calls) = calls[1]
  BY DEF Calls
<1>2. /\ Len(calls) \in Nat /\ Len(calls) >= 1 /\ Len(Tail(calls)) = Len(calls) - 1
      /\ \A i \in 1..Len(calls) - 1 : Tail(calls)[i] = calls[i + 1]
  BY DEF Calls
<1>3. \A i \in 1..Len(calls) : i = 1 \/ (i - 1 \in 1..Len(calls) - 1 /\ calls[i] = Tail(calls)[i - 1])
  BY <1>2
<1>4. \A i \in 1..Len(calls) - 1 : i + 1 \in 1..Len(calls)
  BY <1>2
<1>5. 1 \in 1..Len(calls)
  BY <1>2
<1>6. ASSUME NEW o \in Visits(calls)
      PROVE  o \in {Head(calls).offset} \cup Visits(Tail(calls))
  BY <1>1, <1>2, <1>3, <1>6 DEF Visits
<1>7. ASSUME NEW o \in {Head(calls).offset} \cup Visits(Tail(calls))
      PROVE  o \in Visits(calls)
  BY <1>1, <1>2, <1>4, <1>5, <1>7 DEF Visits
<1> QED
  BY <1>1, <1>6, <1>7

LEMMA VisitsOfBoth ==
  ASSUME NEW first \in Calls, NEW rest \in Calls
  PROVE  first \o rest \in Calls /\ Visits(first \o rest) = Visits(first) \cup Visits(rest)
<1>1. /\ Len(first) \in Nat /\ Len(rest) \in Nat /\ first \o rest \in Calls
      /\ Len(first \o rest) = Len(first) + Len(rest)
      /\ \A i \in 1..Len(first) : (first \o rest)[i] = first[i]
  BY DEF Calls
<1>2. \A i \in 1..Len(rest) : (first \o rest)[Len(first) + i] = rest[i]
  BY DEF Calls
<1>3. \A i \in 1..Len(first) + Len(rest) :
        i \in 1..Len(first) \/ (i - Len(first) \in 1..Len(rest) /\ i = Len(first) + (i - Len(first)))
  BY <1>1
<1>4. \A i \in 1..Len(rest) : Len(first) + i \in 1..Len(first) + Len(rest)
  BY <1>1
<1>5. \A i \in 1..Len(first) : i \in 1..Len(first) + Len(rest)
  BY <1>1
<1>6. ASSUME NEW o \in Visits(first \o rest)
      PROVE  o \in Visits(first) \cup Visits(rest)
  <2>1. PICK i \in 1..Len(first) + Len(rest) : o = (first \o rest)[i].offset
    BY <1>1, <1>6 DEF Visits
  <2>2. CASE i \in 1..Len(first)
    BY <1>1, <2>1, <2>2 DEF Visits
  <2>3. CASE i - Len(first) \in 1..Len(rest)
    BY <1>2, <1>3, <2>1, <2>3 DEF Visits
  <2> QED
    BY <1>3, <2>2, <2>3
<1>7. ASSUME NEW o \in Visits(first) \cup Visits(rest)
      PROVE  o \in Visits(first \o rest)
  BY <1>1, <1>2, <1>4, <1>5, <1>7 DEF Visits
<1> QED
  BY <1>1, <1>6, <1>7

LEMMA VisitsOfChildren ==
  ASSUME NEW n, IsNode(n), NEW level \in Nat
  PROVE  ChildCalls(n, level) \in Calls /\ Visits(ChildCalls(n, level)) = Children(n)
<1> DEFINE left == IF n.left = 0 THEN <<>> ELSE <<[offset |-> n.left, level |-> level]>>
           right == IF n.right = 0 THEN <<>> ELSE <<[offset |-> n.right, level |-> level]>>
<1>1. left \in Calls /\ right \in Calls
  <2>1. \A o \in Nat : [offset |-> o, level |-> level] \in WalkCall
    BY DEF WalkCall
  <2>2. n.left \in Nat /\ n.right \in Nat
    BY DEF IsNode
  <2>3. \A c \in WalkCall : <<c>> \in Seq(WalkCall)
    OBVIOUS
  <2> QED
    BY <2>1, <2>2, <2>3 DEF Calls
<1>2. Visits(left) = {n.left} \ {0} /\ Visits(right) = {n.right} \ {0}
  BY DEF Visits
<1>3. ChildCalls(n, level) = left \o right
  BY DEF ChildCalls
<1> HIDE DEF left, right
<1> QED
  BY <1>1, <1>2, <1>3, VisitsOfBoth DEF Children

-----------------------------------------------------------------------------
\* What the root of a directory reaches: itself, the children of what it reaches, and
\* nothing that a closed set of offsets leaves out.
LEMMA RootIsReached == 0 \in Reachable /\ 0 \in Reachable'
BY DEF Reachable, Offsets, Closed

LEMMA ChildrenAreReached ==
  ASSUME NEW o \in Reachable, o \in DOMAIN table
  PROVE  Children(table[o]) \subseteq Reachable
<1>1. Children(table[o]) \subseteq Offsets
  BY DEF Offsets
<1>2. ASSUME NEW nodes \in SUBSET Offsets, Closed(nodes)
      PROVE  Children(table[o]) \subseteq nodes
  BY <1>2 DEF Reachable, Closed
<1> QED
  BY <1>1, <1>2 DEF Reachable

LEMMA ClosedIsAll ==
  ASSUME NEW nodes \in SUBSET DOMAIN table, Closed(nodes)
  PROVE  Reachable \subseteq nodes
BY DEF Reachable, Offsets

LEMMA ReachesTheSame ==
  ASSUME table' = table
  PROVE  Reachable' = Reachable
BY DEF Reachable, Offsets, Closed

\* During a walk the entries are what has been seen, without repetition; what is seen or
\* pending holds the root and the children of all that is seen, and is reachable.
Listed == {entries[i] : i \in 1..Len(entries)}
NoRepetition == \A i, j \in 1..Len(entries) : entries[i] = entries[j] => i = j
Frontier == seen \cup Visits(pending)
WalkInv ==
  step = "walk" =>
    /\ IsTable(table) /\ pending \in Calls /\ entries \in Seq(DOMAIN table)
    /\ seen = Listed /\ NoRepetition
    /\ 0 \in Frontier /\ \A o \in seen : Children(table[o]) \subseteq Frontier
    /\ Frontier \subseteq Reachable
ListingInv == IsImage(image) /\ WalkInv

LEMMA InitListing == XdvdfsInit => ListingInv
BY XdvdfsAssumption DEF XdvdfsInit, XdvdfsStart, ListingInv, WalkInv

LEMMA ReadDirectoryListing == ASSUME ListingInv, ReadDirectory PROVE ListingInv'
<1>1. IsImage(image')
  BY DEF ListingInv, ReadDirectory
<1>2. SUFFICES ASSUME step' = "walk" PROVE WalkInv'
  BY <1>1 DEF ListingInv, WalkInv
<1>3. PICK data : /\ IsTable(data)
                  /\ table' = [o \in {d \in DOMAIN data : d < extent.size} |-> data[o]]
                  /\ pending' = <<[offset |-> 0, level |-> 1]>>
                  /\ seen' = {} /\ entries' = <<>>
  <2>1. IsTable(<<>>)
    BY DEF IsTable
  <2>2. \A s \in DOMAIN image.tables : IsTable(image.tables[s])
    BY DEF ListingInv, IsImage
  <2> QED
    BY <1>2, <2>1, <2>2 DEF ReadDirectory, Fail
<1>4. IsTable(table')
  BY <1>3 DEF IsTable
<1>5. pending' \in Calls /\ Visits(pending') = {0}
  BY <1>3 DEF Calls, WalkCall, Visits
<1>6. entries' \in Seq(DOMAIN table') /\ Len(entries') = 0
  BY <1>3
<1>7. (Frontier)' = {0}
  BY <1>3, <1>5 DEF Frontier
<1>8. seen' = Listed' /\ NoRepetition'
  BY <1>3, <1>6 DEF Listed, NoRepetition
<1> QED
  BY <1>3, <1>4, <1>5, <1>6, <1>7, <1>8, RootIsReached DEF WalkInv

\* A call of walk that has nothing new, and one that adds a node.
LEMMA VisitListing == ASSUME ListingInv, Visit PROVE ListingInv'
<1> DEFINE o == Head(pending).offset
           level == Head(pending).level
<1>1. IsImage(image')
  BY DEF ListingInv, Visit
<1>2. SUFFICES ASSUME step' = "walk" PROVE WalkInv'
  BY <1>1 DEF ListingInv, WalkInv
<1>3. step = "walk" /\ pending # <<>> /\ table' = table
  BY DEF Visit
<1>4. /\ IsTable(table) /\ pending \in Calls /\ entries \in Seq(DOMAIN table)
      /\ seen = Listed /\ NoRepetition
      /\ 0 \in Frontier /\ \A n \in seen : Children(table[n]) \subseteq Frontier
      /\ Frontier \subseteq Reachable
  BY <1>3 DEF ListingInv, WalkInv
<1>5. /\ Tail(pending) \in Calls /\ Head(pending) \in WalkCall
      /\ Visits(pending) = {o} \cup Visits(Tail(pending))
  BY <1>3, <1>4, VisitsOfHead
<1>6. Reachable' = Reachable
  BY <1>3, ReachesTheSame
<1>0. level <= MaxDepth
  <2>1. level \in Nat /\ MaxDepth \in Nat
    BY <1>5, XdvdfsAssumption DEF WalkCall
  <2>2. CASE level > MaxDepth
    <3>1. step' = "recursion_error"
      BY <2>1, <2>2 DEF Visit
    <3> QED
      BY <1>2, <3>1
  <2> QED
    BY <2>1, <2>2
<1>7. CASE o \in seen
  <2>1. pending' = Tail(pending) /\ UNCHANGED <<seen, entries>>
    BY <1>0, <1>5, <1>7, XdvdfsAssumption DEF Visit, WalkCall
  <2>2. Frontier' = Frontier
    BY <1>5, <1>7, <2>1 DEF Frontier
  <2>3. Listed' = Listed /\ NoRepetition' = NoRepetition
    BY <2>1 DEF Listed, NoRepetition
  <2> QED
    BY <1>3, <1>4, <1>5, <1>6, <2>1, <2>2, <2>3 DEF WalkInv
<1>8. CASE o \notin seen
  <2>1. /\ o \in DOMAIN table /\ seen' = seen \cup {o} /\ entries' = Append(entries, o)
        /\ pending' = ChildCalls(table[o], level + 1) \o Tail(pending)
    BY <1>0, <1>2, <1>5, <1>8, XdvdfsAssumption DEF Visit, WalkCall, Fail
  <2>2. IsNode(table[o]) /\ level + 1 \in Nat
    BY <1>4, <1>5, <2>1 DEF IsTable, WalkCall
  <2>3. /\ ChildCalls(table[o], level + 1) \in Calls
        /\ Visits(ChildCalls(table[o], level + 1)) = Children(table[o])
    BY <2>2, VisitsOfChildren
  <2>4. /\ pending' \in Calls
        /\ Visits(pending') = Children(table[o]) \cup Visits(Tail(pending))
    BY <1>5, <2>1, <2>3, VisitsOfBoth
  <2>5. Frontier' = Frontier \cup Children(table[o])
    BY <1>5, <2>1, <2>4 DEF Frontier
  <2>6. /\ entries' \in Seq(DOMAIN table) /\ Len(entries') = Len(entries) + 1
        /\ \A i \in 1..Len(entries) : entries'[i] = entries[i]
        /\ entries'[Len(entries) + 1] = o /\ Len(entries) \in Nat
    BY <1>4, <2>1
  <2>7. \A i \in 1..Len(entries) + 1 : i \in 1..Len(entries) \/ i = Len(entries) + 1
    BY <2>6
  <2>8. Listed' = Listed \cup {o}
    BY <2>6, <2>7 DEF Listed
  <2>9. NoRepetition'
    BY <1>4, <1>8, <2>6, <2>7 DEF NoRepetition, Listed
  <2>10. Children(table[o]) \subseteq Reachable
    BY <1>4, <1>5, <2>1, ChildrenAreReached DEF Frontier
  <2>11. \A n \in seen' : Children(table'[n]) \subseteq Frontier'
    BY <1>3, <1>4, <2>1, <2>5
  <2> QED
    BY <1>3, <1>4, <1>6, <2>1, <2>4, <2>5, <2>6, <2>8, <2>9, <2>10, <2>11 DEF WalkInv
<1> QED
  BY <1>7, <1>8

LEMMA RewriteListing == ASSUME ListingInv, Rewrite PROVE ListingInv'
<1>1. IsImage(image')
  <2>1. ASSUME NEW n \in Cuts, image' = [image EXCEPT !.length = n] PROVE IsImage(image')
    BY <2>1, XdvdfsAssumption DEF ListingInv, IsImage
  <2> QED
    BY <2>1, XdvdfsAssumption DEF Rewrite
<1>2. WalkInv'
  BY ReachesTheSame DEF Rewrite, ListingInv, WalkInv, Listed, NoRepetition, Frontier
<1> QED
  BY <1>1, <1>2 DEF ListingInv

LEMMA NextListing == ListingInv /\ [XdvdfsNext]_xdvdfsVars => ListingInv'
<1> SUFFICES ASSUME ListingInv, [XdvdfsNext]_xdvdfsVars PROVE ListingInv'
  OBVIOUS
<1>1. CASE Open \/ Call \/ Match \/ ReadFile
  <2>1. image' = image /\ step' # "walk"
    BY <1>1 DEF Open, Call, Match, ReadFile, Fail
  <2> QED
    BY <2>1 DEF ListingInv, WalkInv
<1>2. CASE ReadDirectory
  BY <1>2, ReadDirectoryListing
<1>3. CASE Visit
  BY <1>3, VisitListing
<1>4. CASE Rewrite
  BY <1>4, RewriteListing
<1>5. CASE UNCHANGED xdvdfsVars
  BY <1>5, ReachesTheSame DEF xdvdfsVars, ListingInv, WalkInv, Listed, NoRepetition, Frontier
<1> QED
  BY <1>1, <1>2, <1>3, <1>4, <1>5 DEF XdvdfsNext, XdvdfsStep

LEMMA ListingFollows == ListingInv => ListingIsComplete
<1> SUFFICES ASSUME ListingInv, step = "walk", pending = <<>>
             PROVE  Listed = Reachable /\ NoRepetition
  BY DEF ListingIsComplete, Listed, NoRepetition
<1>1. Visits(pending) = {}
  BY DEF Visits
<1>2. Closed(seen) /\ seen \subseteq Reachable
  BY <1>1 DEF ListingInv, WalkInv, Frontier, Closed
<1>3. seen \in SUBSET DOMAIN table
  BY DEF ListingInv, WalkInv, Listed
<1> QED
  BY <1>2, <1>3, ClosedIsAll DEF ListingInv, WalkInv

\* The walk of a directory lists exactly what its root reaches and each entry once: for
\* any image, with cycles or without, any limits, and any other program that writes to
\* the file meanwhile.
THEOREM ListingComplete == XdvdfsSpec => []ListingIsComplete
<1>1. XdvdfsSpec => []ListingInv
  BY InitListing, NextListing, PTL DEF XdvdfsSpec
<1> QED
  BY <1>1, ListingFollows, PTL

-----------------------------------------------------------------------------
LEMMA FirstIsLeast ==
  ASSUME NEW ps \in SUBSET Nat, ps # {}
  PROVE  First(ps) \in ps /\ \A q \in ps : First(ps) <= q
<1>1. \E p \in ps : \A q \in ps : p <= q
  BY LeastElement
<1> QED
  BY <1>1 DEF First

\* The entry that was found last has a place and a size, and data are within it.
DataInv ==
  /\ ListingInv /\ IsRequest(request)
  /\ fileSize \in Nat /\ extent.sector \in Nat /\ extent.size \in Nat
  /\ DataIsWhole

LEMMA InitData == XdvdfsInit => DataInv
BY InitListing, XdvdfsAssumption DEF XdvdfsInit, XdvdfsStart, DataInv, DataIsWhole

LEMMA OpenData == ASSUME DataInv, Open PROVE DataInv'
<1>1. ListingInv' /\ image' = image /\ request' = request /\ step' # "data"
  BY NextListing DEF DataInv, Open, XdvdfsNext, XdvdfsStep, Fail
<1>2. IsImage(image) /\ image.length \in Nat /\ Descriptors \in SUBSET Nat
  BY DEF DataInv, ListingInv, IsImage, Descriptors
<1>3. CASE Descriptors = {}
  BY <1>1, <1>3 DEF Open, DataInv, DataIsWhole
<1>4. CASE Descriptors # {}
  <2> DEFINE p == First(Descriptors)
  <2>1. p \in Descriptors
    BY <1>2, <1>4, FirstIsLeast
  <2>2. image.partitions[p].sector \in Nat /\ image.partitions[p].size \in Nat
    <3> HIDE DEF p
    <3> QED
      BY <1>2, <2>1 DEF IsImage, Descriptors
  <2>3. /\ fileSize' = image.length
        /\ extent' = [directory |-> TRUE, sector |-> image.partitions[p].sector,
                      size |-> image.partitions[p].size]
    BY <1>4 DEF Open
  <2> HIDE DEF p
  <2> QED
    BY <1>1, <1>2, <2>2, <2>3 DEF DataInv, DataIsWhole
<1> QED
  BY <1>3, <1>4

LEMMA MatchData == ASSUME DataInv, Match PROVE DataInv'
<1> DEFINE matches == Named(request.path[depth + 1])
           match == table[entries[First(matches)]]
<1>1. /\ ListingInv' /\ request' = request /\ fileSize' = fileSize /\ step' # "data"
  BY NextListing DEF DataInv, Match, XdvdfsNext, XdvdfsStep
<1>2. CASE step' = "absent" /\ UNCHANGED <<depth, extent>>
  BY <1>1, <1>2 DEF DataInv, DataIsWhole
<1>3. CASE /\ matches # {}
           /\ extent' = [directory |-> match.directory, sector |-> match.sector,
                         size |-> match.size]
  <2>1. IsTable(table) /\ entries \in Seq(DOMAIN table)
    BY DEF DataInv, ListingInv, WalkInv, Match
  <2>2. matches \in SUBSET Nat /\ matches \subseteq 1..Len(entries)
    BY <2>1 DEF Named
  <2>3. First(matches) \in 1..Len(entries)
    <3> HIDE DEF matches
    <3> QED
      BY <1>3, <2>2, FirstIsLeast
  <2>4. IsNode(match)
    <3> DEFINE f == First(matches)
    <3>1. f \in 1..Len(entries)
      BY <2>3
    <3> HIDE DEF f
    <3>2. entries[f] \in DOMAIN table
      BY <2>1, <3>1
    <3> QED
      BY <2>1, <3>2 DEF IsTable, f
  <2> HIDE DEF match
  <2> QED
    BY <1>1, <1>3, <2>4 DEF DataInv, DataIsWhole, IsNode
<1> QED
  BY <1>2, <1>3 DEF Match

LEMMA ReadFileData == ASSUME DataInv, ReadFile PROVE DataInv'
<1>1. ListingInv' /\ UNCHANGED <<request, fileSize, extent>>
  BY NextListing DEF DataInv, ReadFile, XdvdfsNext, XdvdfsStep
<1>2. From \in Nat /\ Count \in Nat
  BY DEF DataInv, IsRequest, From, Count
<1>3. ASSUME step' = "data" PROVE DataIsWhole'
  <2>1. /\ got' = Count /\ InEntry /\ Fits(extent, fileSize) /\ ~extent.directory
    BY <1>3 DEF ReadFile
  <2>2. From + Count <= extent.size /\ extent.sector + extent.size <= fileSize
    BY <1>2, <2>1 DEF InEntry, Fits, DataInv
  <2>3. From' = From /\ Count' = Count
    BY <1>1 DEF From, Count
  <2> QED
    BY <1>1, <2>1, <2>2, <2>3 DEF DataIsWhole
<1> QED
  BY <1>1, <1>3 DEF DataInv, DataIsWhole

LEMMA NextData == DataInv /\ [XdvdfsNext]_xdvdfsVars => DataInv'
<1> SUFFICES ASSUME DataInv, [XdvdfsNext]_xdvdfsVars PROVE DataInv'
  OBVIOUS
<1>1. ListingInv'
  BY NextListing DEF DataInv
<1>2. CASE Open
  BY <1>2, OpenData
<1>3. CASE Match
  BY <1>3, MatchData
<1>4. CASE ReadFile
  BY <1>4, ReadFileData
<1>5. CASE Call \/ ReadDirectory \/ Visit
  <2>1. UNCHANGED <<request, fileSize, extent>> /\ step' # "data"
    BY <1>5 DEF Call, ReadDirectory, Visit, Fail
  <2> QED
    BY <1>1, <2>1 DEF DataInv, DataIsWhole
<1>6. CASE Rewrite
  BY <1>1, <1>6 DEF Rewrite, DataInv, DataIsWhole, Ended, Steps
<1>7. CASE UNCHANGED xdvdfsVars
  BY <1>1, <1>7 DEF xdvdfsVars, DataInv, DataIsWhole, From, Count
<1> QED
  BY <1>2, <1>3, <1>4, <1>5, <1>6, <1>7 DEF XdvdfsNext, XdvdfsStep

\* A read of an Xbox disc returns all that was asked for, from within the entry and the
\* file as it was opened, whatever the image says and whoever shortens it meanwhile.
THEOREM ReadsAreWhole == XdvdfsSpec => []DataIsWhole
<1>1. DataInv => DataIsWhole
  BY DEF DataInv
<1> QED
  BY <1>1, InitData, NextData, PTL DEF XdvdfsSpec

-----------------------------------------------------------------------------
\* Calls are not nested deeper than a bound.
NestedUpTo(calls, bound) == \A i \in 1..Len(calls) : calls[i].level <= bound

LEMMA NestedOfTail ==
  ASSUME NEW calls \in Calls, calls # <<>>, NEW bound \in Nat, NestedUpTo(calls, bound)
  PROVE  Head(calls).level <= bound /\ NestedUpTo(Tail(calls), bound)
<1>1. /\ Len(calls) \in Nat /\ Len(calls) >= 1 /\ Len(Tail(calls)) = Len(calls) - 1
      /\ \A i \in 1..Len(calls) - 1 : Tail(calls)[i] = calls[i + 1] /\ i + 1 \in 1..Len(calls)
      /\ Head(calls) = calls[1]
  BY DEF Calls
<1> QED
  BY <1>1 DEF NestedUpTo

LEMMA NestedOfBoth ==
  ASSUME NEW first \in Calls, NEW rest \in Calls, NEW bound \in Nat,
         NestedUpTo(first, bound), NestedUpTo(rest, bound)
  PROVE  NestedUpTo(first \o rest, bound)
<1>1. /\ Len(first) \in Nat /\ Len(rest) \in Nat
      /\ Len(first \o rest) = Len(first) + Len(rest)
      /\ \A i \in 1..Len(first) : (first \o rest)[i] = first[i]
      /\ \A i \in 1..Len(rest) : (first \o rest)[Len(first) + i] = rest[i]
  BY DEF Calls
<1>2. \A i \in 1..Len(first) + Len(rest) :
        i \in 1..Len(first) \/ (i - Len(first) \in 1..Len(rest) /\ i = Len(first) + (i - Len(first)))
  BY <1>1
<1>3. ASSUME NEW i \in 1..Len(first) + Len(rest) PROVE (first \o rest)[i].level <= bound
  <2>1. CASE i \in 1..Len(first)
    BY <1>1, <2>1 DEF NestedUpTo
  <2>2. CASE i - Len(first) \in 1..Len(rest) /\ i = Len(first) + (i - Len(first))
    <3> DEFINE j == i - Len(first)
    <3>1. j \in 1..Len(rest) /\ i = Len(first) + j
      BY <2>2
    <3> HIDE DEF j
    <3>2. (first \o rest)[i] = rest[j]
      BY <1>1, <3>1
    <3> QED
      BY <3>1, <3>2 DEF NestedUpTo
  <2> QED
    BY <1>2, <2>1, <2>2
<1> QED
  BY <1>1, <1>3 DEF NestedUpTo

LEMMA LevelsAreNumbers ==
  ASSUME NEW calls \in Calls
  PROVE  \A i \in 1..Len(calls) : calls[i] \in WalkCall /\ calls[i].level \in Nat
<1>1. \A i \in 1..Len(calls) : calls[i] \in WalkCall
  BY DEF Calls
<1> QED
  BY <1>1 DEF WalkCall

LEMMA NestedOfChildren ==
  ASSUME NEW n, IsNode(n), NEW level \in Nat
  PROVE  NestedUpTo(ChildCalls(n, level), level)
<1> DEFINE left == IF n.left = 0 THEN <<>> ELSE <<[offset |-> n.left, level |-> level]>>
           right == IF n.right = 0 THEN <<>> ELSE <<[offset |-> n.right, level |-> level]>>
<1>1. left \in Calls /\ right \in Calls
  <2>1. \A o \in Nat : <<[offset |-> o, level |-> level]>> \in Seq(WalkCall)
    BY DEF WalkCall
  <2> QED
    BY <2>1 DEF Calls, IsNode
<1>2. NestedUpTo(left, level) /\ NestedUpTo(right, level)
  BY DEF NestedUpTo
<1>3. ChildCalls(n, level) = left \o right
  BY DEF ChildCalls
<1> HIDE DEF left, right
<1> QED
  BY <1>1, <1>2, <1>3, NestedOfBoth

\* What a finite table refers to is finite.
LEMMA OffsetsFinite == ASSUME IsFiniteSet(DOMAIN table) PROVE IsFiniteSet(Reachable)
<1> DEFINE D == DOMAIN table
           lefts == [o \in D |-> table[o].left]
           rights == [o \in D |-> table[o].right]
           L == {lefts[o] : o \in D}
           R == {rights[o] : o \in D}
<1>1. IsFiniteSet(L) /\ IsFiniteSet(R)
  <2>1. lefts \in Surjection(D, L) /\ rights \in Surjection(D, R)
    BY DEF Surjection
  <2> HIDE DEF lefts, rights, L, R
  <2> QED
    BY <2>1, FS_Surjection
<1>2. IsFiniteSet(L \cup R) /\ IsFiniteSet({0})
  <2> HIDE DEF L, R
  <2> QED
    BY <1>1, FS_Union, FS_Singleton
<1>3. IsFiniteSet({0} \cup D) /\ IsFiniteSet(({0} \cup D) \cup (L \cup R))
  <2> HIDE DEF L, R
  <2>1. IsFiniteSet({0} \cup D)
    BY <1>2, FS_Union
  <2> QED
    BY <1>2, <2>1, FS_Union
<1>4. Reachable \subseteq ({0} \cup D) \cup (L \cup R)
  <2>1. \A o \in D : Children(table[o]) \subseteq L \cup R
    BY DEF Children
  <2> QED
    BY <2>1 DEF Reachable, Offsets
<1> HIDE DEF L, R, D
<1> QED
  BY <1>3, <1>4, FS_Subset

\* A call of walk is nested no deeper than nodes have been seen, plus one.
DepthInv ==
  step = "walk" =>
    /\ IsFiniteSet(DOMAIN table) /\ IsFiniteSet(seen)
    /\ NestedUpTo(pending, Cardinality(seen) + 1)
CauseInv == DataInv /\ DepthInv

LEMMA ReadDirectoryDepth == ASSUME CauseInv, ReadDirectory PROVE DepthInv'
<1> SUFFICES ASSUME step' = "walk" PROVE DepthInv'
  BY DEF DepthInv
<1>1. PICK data : /\ IsTable(data)
                  /\ table' = [o \in {d \in DOMAIN data : d < extent.size} |-> data[o]]
                  /\ pending' = <<[offset |-> 0, level |-> 1]>>
                  /\ seen' = {}
  <2>1. IsTable(<<>>)
    BY DEF IsTable
  <2>2. \A s \in DOMAIN image.tables : IsTable(image.tables[s])
    BY DEF CauseInv, DataInv, ListingInv, IsImage
  <2> QED
    BY <2>1, <2>2 DEF ReadDirectory, Fail
<1>2. DOMAIN table' \in SUBSET Nat /\ \A o \in DOMAIN table' : o <= extent.size
  BY <1>1 DEF IsTable, CauseInv, DataInv
<1>3. IsFiniteSet(DOMAIN table')
  BY <1>2, FS_BoundedSetOfNaturals DEF CauseInv, DataInv
<1>4. IsFiniteSet(seen') /\ Cardinality(seen') = 0
  BY <1>1, FS_EmptySet
<1>5. NestedUpTo(pending', Cardinality(seen') + 1)
  BY <1>1, <1>4 DEF NestedUpTo
<1> QED
  BY <1>3, <1>4, <1>5 DEF DepthInv

LEMMA VisitDepth == ASSUME CauseInv, Visit PROVE DepthInv'
<1> DEFINE o == Head(pending).offset
           level == Head(pending).level
           n == Cardinality(seen)
<1> SUFFICES ASSUME step' = "walk" PROVE DepthInv'
  BY DEF DepthInv
<1>1. /\ IsTable(table) /\ pending \in Calls /\ pending # <<>> /\ table' = table
      /\ IsFiniteSet(DOMAIN table) /\ IsFiniteSet(seen) /\ NestedUpTo(pending, n + 1)
  BY DEF Visit, CauseInv, DataInv, ListingInv, WalkInv, DepthInv
<1>2. n \in Nat
  BY <1>1, FS_CardinalityType
<1>3. /\ Tail(pending) \in Calls /\ o \in Nat /\ level \in Nat
      /\ level <= n + 1 /\ NestedUpTo(Tail(pending), n + 1)
  BY <1>1, <1>2, VisitsOfHead, NestedOfTail DEF WalkCall
<1>4. CASE pending' = Tail(pending) /\ seen' = seen
  BY <1>1, <1>3, <1>4 DEF DepthInv
<1>5. CASE /\ o \notin seen /\ o \in DOMAIN table /\ seen' = seen \cup {o}
           /\ pending' = ChildCalls(table[o], level + 1) \o Tail(pending)
  <2>1. IsFiniteSet(seen') /\ Cardinality(seen') = n + 1
    BY <1>1, <1>5, FS_AddElement
  <2>2. IsNode(table[o])
    BY <1>1, <1>5 DEF IsTable
  <2> HIDE DEF o, level, n
  <2>3. ChildCalls(table[o], level + 1) \in Calls
    BY <1>3, <2>2, VisitsOfChildren
  <2>4. NestedUpTo(ChildCalls(table[o], level + 1), n + 2)
    <3>1. NestedUpTo(ChildCalls(table[o], level + 1), level + 1)
      BY <1>3, <2>2, NestedOfChildren
    <3>2. \A i \in 1..Len(ChildCalls(table[o], level + 1)) :
            ChildCalls(table[o], level + 1)[i].level \in Nat
      BY <2>3, LevelsAreNumbers
    <3> QED
      BY <1>2, <1>3, <3>1, <3>2 DEF NestedUpTo
  <2>5. NestedUpTo(Tail(pending), n + 2)
    <3>1. \A i \in 1..Len(Tail(pending)) : Tail(pending)[i].level \in Nat
      BY <1>3, LevelsAreNumbers
    <3> QED
      BY <1>2, <1>3, <3>1 DEF NestedUpTo
  <2>6. NestedUpTo(pending', Cardinality(seen') + 1)
    BY <1>2, <1>3, <1>5, <2>1, <2>3, <2>4, <2>5, NestedOfBoth
  <2> QED
    BY <1>1, <2>1, <2>6 DEF DepthInv
<1> QED
  BY <1>4, <1>5 DEF Visit, Fail

LEMMA NextCause == CauseInv /\ [XdvdfsNext]_xdvdfsVars => CauseInv'
<1> SUFFICES ASSUME CauseInv, [XdvdfsNext]_xdvdfsVars PROVE CauseInv'
  OBVIOUS
<1>1. DataInv'
  BY NextData DEF CauseInv
<1>2. (Open \/ Call \/ Match \/ ReadFile) => DepthInv'
  BY DEF DepthInv, Open, Call, Match, ReadFile, Fail
<1>3. ReadDirectory => DepthInv'
  BY ReadDirectoryDepth
<1>4. Visit => DepthInv'
  BY VisitDepth
<1>5. Rewrite => DepthInv'
  BY DEF CauseInv, DepthInv, Rewrite, NestedUpTo
<1>6. UNCHANGED xdvdfsVars => DepthInv'
  BY DEF CauseInv, DepthInv, xdvdfsVars, NestedUpTo
<1>7. DepthInv'
  BY <1>2, <1>3, <1>4, <1>5, <1>6 DEF XdvdfsNext, XdvdfsStep
<1> QED
  BY <1>1, <1>7 DEF CauseInv

LEMMA CauseFollows == ASSUME CauseInv, [XdvdfsNext]_xdvdfsVars PROVE WalkFailsForCause
<1> SUFFICES ASSUME step' \in {"format_error", "recursion_error"}, step = "walk"
             PROVE  \/ \E o \in Reachable : o \notin DOMAIN table \/ table[o].name = Unreadable
                    \/ Cardinality(Reachable) > request.nodes
                    \/ step' = "recursion_error" /\ Cardinality(Reachable) >= MaxDepth
  BY DEF WalkFailsForCause
<1>1. Visit
  BY DEF XdvdfsNext, XdvdfsStep, Open, Call, ReadDirectory, Match, ReadFile, Rewrite, xdvdfsVars
<1> DEFINE o == Head(pending).offset
           level == Head(pending).level
<1>2. /\ IsTable(table) /\ pending \in Calls /\ pending # <<>> /\ Frontier \subseteq Reachable
      /\ IsFiniteSet(DOMAIN table) /\ IsFiniteSet(seen)
      /\ NestedUpTo(pending, Cardinality(seen) + 1) /\ request.nodes \in Nat
  BY <1>1 DEF Visit, CauseInv, DataInv, ListingInv, WalkInv, DepthInv, IsRequest
<1>3. o \in Nat /\ level \in Nat /\ o \in Reachable /\ seen \subseteq Reachable
  BY <1>2, VisitsOfHead DEF WalkCall, Frontier
<1>4. Cardinality(seen) \in Nat /\ level <= Cardinality(seen) + 1
  BY <1>2, FS_CardinalityType, NestedOfTail
<1>5. IsFiniteSet(Reachable) /\ Cardinality(Reachable) \in Nat
      /\ Cardinality(seen) <= Cardinality(Reachable)
  BY <1>2, <1>3, OffsetsFinite, FS_Subset, FS_CardinalityType
<1> HIDE DEF o, level
<1>6. CASE step' = "recursion_error" /\ level > MaxDepth
  BY <1>3, <1>4, <1>5, <1>6, XdvdfsAssumption
<1>7. CASE o \notin seen /\ Cardinality(seen) >= request.nodes
  <2>1. IsFiniteSet(seen \cup {o}) /\ Cardinality(seen \cup {o}) = Cardinality(seen) + 1
    BY <1>2, <1>7, FS_AddElement
  <2>2. Cardinality(seen \cup {o}) <= Cardinality(Reachable)
    BY <1>3, <1>5, FS_Subset
  <2> QED
    BY <1>2, <1>4, <1>5, <1>7, <2>1, <2>2
<1>8. CASE o \notin DOMAIN table \/ table[o].name = Unreadable
  BY <1>3, <1>8
<1> QED
  BY <1>1, <1>6, <1>7, <1>8 DEF Visit, Fail, o, level

LEMMA InitCause == XdvdfsInit => CauseInv
BY InitData DEF XdvdfsInit, XdvdfsStart, CauseInv, DepthInv

\* No directory is given up but for a cause that is in it.
THEOREM WalkCauses == XdvdfsSpec => NothingGivenUp
<1>1. CauseInv /\ [XdvdfsNext]_xdvdfsVars => WalkFailsForCause
  BY CauseFollows
<1> QED
  BY <1>1, InitCause, NextCause, PTL DEF XdvdfsSpec, NothingGivenUp

-----------------------------------------------------------------------------
(***************************************************************************)
(* The reader of ISO 9660: the scan of a directory, record by record.      *)
(***************************************************************************)
\* Where the sector of a position begins and ends.
SectorStart(a) == (a \div SectorSize) * SectorSize

LEMMA SectorOf ==
  ASSUME NEW a \in Nat
  PROVE  /\ a \div SectorSize \in Nat /\ SectorStart(a) \in Nat
         /\ SectorStart(a) <= a /\ a < SectorStart(a) + SectorSize
         /\ a % SectorSize = 0 => a = SectorStart(a)
<1>1. a \div SectorSize \in Nat
  BY IsoAssumption, Z3
<1>2. SectorStart(a) \in Nat
  BY <1>1, IsoAssumption, Z3 DEF SectorStart
<1>3. SectorStart(a) <= a
  BY IsoAssumption, Z3 DEF SectorStart
<1>4. a < SectorStart(a) + SectorSize
  BY IsoAssumption, Z3 DEF SectorStart
<1>5. a % SectorSize = 0 => a = SectorStart(a)
  BY IsoAssumption, Z3 DEF SectorStart
<1> QED
  BY <1>1, <1>2, <1>3, <1>4, <1>5

LEMMA SectorsInOrder ==
  ASSUME NEW a \in Nat, NEW b \in Nat
  PROVE  a \div SectorSize <= b \div SectorSize => SectorStart(a) <= SectorStart(b)
<1>1. a \div SectorSize \in Nat /\ b \div SectorSize \in Nat
  BY SectorOf
<1>2. \A j, k \in Nat : j <= k => j * SectorSize <= k * SectorSize
  BY IsoAssumption, Z3
<1> QED
  BY <1>1, <1>2 DEF SectorStart

LEMMA NextSector ==
  ASSUME NEW a \in Nat
  PROVE  /\ (a \div SectorSize + 1) * SectorSize = SectorStart(a) + SectorSize
         /\ ((a \div SectorSize + 1) * SectorSize) % SectorSize = 0
<1>1. a \div SectorSize \in Nat
  BY SectorOf
<1>2. \A k \in Nat : (k + 1) * SectorSize = k * SectorSize + SectorSize
  BY IsoAssumption, Z3
<1>3. \A k \in Nat : (k * SectorSize) % SectorSize = 0
  BY IsoAssumption, Z3
<1> QED
  BY <1>1, <1>2, <1>3 DEF SectorStart

\* The start of a sector is at most the start of the sector of any later position, and
\* if it lies after the start of that of an earlier one, it lies a sector after it.
LEMMA NothingBetween ==
  ASSUME NEW a \in Nat, NEW b \in Nat, b % SectorSize = 0, a < b
  PROVE  SectorStart(a) + SectorSize <= b
<1>1. a \div SectorSize \in Nat /\ b \div SectorSize \in Nat /\ b = SectorStart(b)
      /\ SectorStart(a) <= a /\ SectorStart(a) \in Nat
  BY SectorOf
<1>2. a \div SectorSize < b \div SectorSize
  <2>1. CASE b \div SectorSize <= a \div SectorSize
    BY <1>1, <2>1, SectorsInOrder
  <2> QED
    BY <1>1, <2>1
<1>3. \A j, k \in Nat : j < k => j * SectorSize + SectorSize <= k * SectorSize
  BY IsoAssumption, Z3
<1> QED
  BY <1>1, <1>2, <1>3 DEF SectorStart

-----------------------------------------------------------------------------
\* Records begin at the start of every sector, and after every record.
LEMMA SectorsAreStarts ==
  ASSUME NEW o \in DOMAIN records, o % SectorSize = 0
  PROVE  o \in Starts
BY DEF Starts, Begins

LEMMA NextIsStart ==
  ASSUME NEW o \in Starts, records[o].length > 0, o + records[o].length \in DOMAIN records
  PROVE  o + records[o].length \in Starts
BY DEF Starts, Begins

LEMMA BeginsIsAll ==
  ASSUME NEW s \in SUBSET DOMAIN records, Begins(s)
  PROVE  Starts \subseteq s
BY DEF Starts

\* Where no sector begins and up to where no record reaches over, none begins.
LEMMA NoStartBetween ==
  ASSUME DOMAIN records \subseteq Nat, \A o \in DOMAIN records : records[o].length \in Nat,
         NEW p \in Nat, NEW next \in Nat, p < next,
         p \in DOMAIN records /\ records[p].length > 0 => next <= p + records[p].length,
         \A o \in Starts : o < p /\ records[o].length > 0 => o + records[o].length <= p,
         \A o \in DOMAIN records : p < o /\ o < next => o % SectorSize # 0
  PROVE  \A o \in Starts : o <= p \/ next <= o
<1> DEFINE rest == {o \in Starts : o <= p \/ next <= o}
<1>1. Starts \subseteq DOMAIN records
  BY DEF Starts
<1>2. ASSUME NEW o \in DOMAIN records, o % SectorSize = 0
      PROVE  o \in rest
  <2>1. o \in Starts
    BY <1>2, SectorsAreStarts
  <2> QED
    BY <1>2, <2>1
<1>3. ASSUME NEW o \in rest, records[o].length > 0, o + records[o].length \in DOMAIN records
      PROVE  o + records[o].length \in rest
  <2>1. o \in Starts /\ o \in Nat /\ records[o].length \in Nat /\ o + records[o].length \in Starts
    BY <1>1, <1>3, NextIsStart
  <2>2. o < p \/ o = p \/ next <= o
    BY <1>3, <2>1
  <2>3. o + records[o].length <= p \/ next <= o + records[o].length
    BY <1>1, <1>3, <2>1, <2>2
  <2> QED
    BY <2>1, <2>3
<1>4. Begins(rest)
  BY <1>2, <1>3 DEF Begins
<1>5. Starts \subseteq rest
  BY <1>1, <1>4, BeginsIsAll
<1> QED
  BY <1>5

LEMMA StartsTheSame ==
  ASSUME records' = records
  PROVE  Starts' = Starts /\ Packed' = Packed
BY DEF Starts, Begins, Packed

\* The scan is at a start, and in a packed directory no record that begins before the
\* position ends after it, so the entries found are those that begin before it.
InOrder ==
  /\ \A i \in 1..Len(children) : children[i] \in Nat /\ children[i] < position
  /\ \A i, j \in 1..Len(children) : i < j => children[i] < children[j]
EntryAt(o) == records[o].length > 0 /\ records[o].name \notin {".", ".."}
FoundSoFar ==
  /\ \A o \in Starts : o < position /\ records[o].length > 0 => o + records[o].length <= position
  /\ {children[i] : i \in 1..Len(children)} = {o \in Starts : o < position /\ EntryAt(o)}
ScanInv ==
  isoStep = "scan" =>
    /\ entry.size \in Nat /\ DOMAIN records = 0..entry.size - 1
    /\ \A o \in DOMAIN records : IsRecord(records[o])
    /\ position \in 0..entry.size /\ (position < entry.size => position \in Starts)
    /\ children \in Seq(Nat) /\ InOrder
    /\ Packed => FoundSoFar
IsoInv == IsIso(iso) /\ IsRecord(entry) /\ ScanInv

LEMMA PaddingIsRecord == IsRecord(Padding)
BY DEF IsRecord, Padding

LEMMA InitIso == IsoInit => IsoInv
BY PaddingIsRecord, IsoAssumption DEF IsoInit, IsoStart, IsoInv, ScanInv

LEMMA ReadRecordsIso == ASSUME IsoInv, ReadRecords PROVE IsoInv'
<1>1. IsIso(iso') /\ IsRecord(entry')
  BY DEF IsoInv, ReadRecords
<1>2. SUFFICES ASSUME isoStep' = "scan" PROVE ScanInv'
  BY <1>1 DEF IsoInv, ScanInv
<1>3. /\ entry' = entry /\ entry.size \in Nat /\ entry.size > 0
      /\ DOMAIN records' = 0..entry.size - 1 /\ position' = 0 /\ children' = <<>>
      /\ \A o \in DOMAIN records' :
           \/ records'[o] = Padding
           \/ entry.extent \in DOMAIN iso.directories
              /\ o \in DOMAIN iso.directories[entry.extent]
              /\ records'[o] = iso.directories[entry.extent][o]
  BY <1>2 DEF ReadRecords, IsoInv, IsRecord
<1>4. \A o \in DOMAIN records' : IsRecord(records'[o])
  BY <1>3, PaddingIsRecord DEF IsoInv, IsIso
<1>5. 0 \in Starts'
  <2>1. 0 % SectorSize = 0 /\ 0 \in DOMAIN records'
    BY <1>3, IsoAssumption
  <2> QED
    BY <2>1 DEF Starts, Begins
<1>6. FoundSoFar'
  <2>1. \A o \in Starts' : ~(o < position')
    BY <1>3 DEF Starts
  <2>2. Len(children') = 0
    BY <1>3
  <2> QED
    BY <2>1, <2>2 DEF FoundSoFar
<1>7. children' \in Seq(Nat) /\ InOrder'
  BY <1>3 DEF InOrder
<1> QED
  BY <1>3, <1>4, <1>5, <1>6, <1>7 DEF ScanInv

\* Where the scan goes from a start: in a packed directory no record begins between.
LEMMA AfterIsNext ==
  ASSUME IsoInv, isoStep = "scan", position < entry.size
  PROVE  LET next == After(position, entry.size)
         IN /\ next \in Nat /\ position < next
            /\ records[position].length > 0 => next = position + records[position].length
            /\ next < entry.size => next \in Starts
            /\ Packed => \A o \in Starts : o <= position \/ next <= o
<1> DEFINE p == position
           length == records[p].length
           next == After(p, entry.size)
<1>1. /\ entry.size \in Nat /\ DOMAIN records = 0..entry.size - 1
      /\ \A o \in DOMAIN records : records[o].length \in Nat
      /\ p \in Nat /\ p \in Starts /\ p \in DOMAIN records /\ p < entry.size
      /\ Packed => \A o \in Starts : o < p /\ records[o].length > 0 => o + records[o].length <= p
  BY DEF IsoInv, ScanInv, FoundSoFar, IsRecord
<1>2. /\ length \in Nat /\ SectorStart(p) \in Nat /\ SectorStart(p) <= p
      /\ p < SectorStart(p) + SectorSize /\ SectorSize \in Nat
  BY <1>1, SectorOf, IsoAssumption
<1>3. CASE length > 0
  <2>1. next = p + length
    BY <1>3 DEF After
  <2>2. next < entry.size => next \in Starts
    BY <1>1, <1>2, <1>3, <2>1, NextIsStart
  <2>3. ASSUME Packed, NEW o \in DOMAIN records, p < o, o < next
        PROVE  o % SectorSize # 0
    <3>1. o \in Nat /\ p + length - 1 \in Nat /\ o <= p + length - 1
      BY <1>1, <1>2, <1>3, <2>1, <2>3
    <3>2. p \div SectorSize = (p + length - 1) \div SectorSize
      BY <1>1, <1>3, <2>3 DEF Packed
    <3>3. SectorStart(p + length - 1) = SectorStart(p) /\ p + length - 1 < SectorStart(p) + SectorSize
      BY <3>1, <3>2, SectorOf DEF SectorStart
    <3> QED
      BY <1>1, <1>2, <2>3, <3>1, <3>3, NothingBetween
  <2>4. next \in Nat /\ p < next
    BY <1>1, <1>2, <1>3, <2>1
  <2>5. Packed => \A o \in Starts : o <= p \/ next <= o
    <3> SUFFICES ASSUME Packed PROVE \A o \in Starts : o <= p \/ next <= o
      OBVIOUS
    <3>1. \A o \in DOMAIN records : p < o /\ o < next => o % SectorSize # 0
      BY <2>3
    <3>2. next <= p + records[p].length /\ DOMAIN records \subseteq Nat
      BY <1>1, <2>1, <2>4
    <3> HIDE DEF next, p
    <3> QED
      BY <1>1, <2>4, <3>1, <3>2, NoStartBetween
  <2> QED
    BY <1>3, <2>1, <2>2, <2>4, <2>5
<1>4. CASE length = 0
  <2> DEFINE end == SectorStart(p) + SectorSize
  <2>1. end = (p \div SectorSize + 1) * SectorSize /\ end % SectorSize = 0
    BY <1>1, NextSector
  <2> HIDE DEF end
  <2>5. end \in Nat /\ next = Smaller(end, entry.size)
    <3>1. next = Smaller((p \div SectorSize + 1) * SectorSize, entry.size)
      BY <1>4 DEF After
    <3>2. end \in Nat
      BY <1>2 DEF end
    <3> QED
      BY <2>1, <3>1, <3>2
  <2>2. next \in Nat /\ p < next /\ next <= end /\ (next < entry.size => next = end)
    BY <1>1, <1>2, <2>5 DEF Smaller, end
  <2>3. next < entry.size => next \in Starts
    BY <1>1, <2>1, <2>2, SectorsAreStarts
  <2>4. ASSUME NEW o \in DOMAIN records, p < o, o < next
        PROVE  o % SectorSize # 0
    <3>1. o \in Nat
      BY <1>1
    <3>2. o % SectorSize = 0 => end <= o
      BY <1>1, <2>4, <3>1, NothingBetween DEF end
    <3> QED
      BY <2>2, <2>4, <2>5, <3>1, <3>2
  <2>6. Packed => \A o \in Starts : o <= p \/ next <= o
    <3>1. ~(records[p].length > 0) /\ DOMAIN records \subseteq Nat
      BY <1>1, <1>4
    <3> HIDE DEF next, p
    <3> QED
      BY <1>1, <2>2, <2>4, <3>1, NoStartBetween
  <2> QED
    BY <1>4, <2>2, <2>3, <2>6
<1> QED
  BY <1>2, <1>3, <1>4

\* A step of the scan that goes on.
LEMMA ScanIso == ASSUME IsoInv, Scan PROVE IsoInv'
<1> DEFINE p == position
           next == After(p, entry.size)
<1>1. IsIso(iso') /\ IsRecord(entry') /\ records' = records /\ entry' = entry
  BY DEF IsoInv, Scan
<1>2. SUFFICES ASSUME isoStep' = "scan" PROVE ScanInv'
  BY <1>1 DEF IsoInv, ScanInv
<1>3. /\ isoStep = "scan" /\ p < entry.size /\ position' = next
      /\ ~(records[p].length > 0 /\ (next > entry.size \/ ~records[p].valid))
      /\ children' = IF records[p].length = 0 \/ records[p].name \in {".", ".."}
                       THEN children ELSE Append(children, p)
  BY <1>2 DEF Scan, RunsOver
<1>4. /\ next \in Nat /\ p < next
      /\ records[p].length > 0 => next = p + records[p].length
      /\ next < entry.size => next \in Starts
      /\ Packed => \A o \in Starts : o <= p \/ next <= o
  BY <1>3, AfterIsNext
<1>5. /\ entry.size \in Nat /\ DOMAIN records = 0..entry.size - 1
      /\ \A o \in DOMAIN records : IsRecord(records[o]) /\ records[o].length \in Nat
      /\ p \in Nat /\ p \in Starts /\ p \in DOMAIN records
      /\ children \in Seq(Nat) /\ InOrder /\ (Packed => FoundSoFar)
      /\ Starts \subseteq Nat
  BY <1>3 DEF IsoInv, ScanInv, IsRecord, Starts
<1>6. next <= entry.size
  <2>1. CASE records[p].length > 0
    BY <1>3, <1>4, <1>5, <2>1
  <2>2. CASE ~(records[p].length > 0)
    <3>1. (p \div SectorSize + 1) * SectorSize \in Nat
      <4>1. SectorStart(p) + SectorSize \in Nat
        <5>1. SectorStart(p) \in Nat
          BY <1>5, SectorOf
        <5>2. SectorSize \in Nat
          BY IsoAssumption
        <5> QED
          BY <5>1, <5>2
      <4> QED
        BY <1>5, <4>1, NextSector
    <3>2. \A a \in Nat : Smaller(a, entry.size) <= entry.size
      BY <1>5 DEF Smaller
    <3> QED
      BY <2>2, <3>1, <3>2 DEF After
  <2> QED
    BY <2>1, <2>2
<1>7. Starts' = Starts /\ Packed' = Packed
  BY <1>1, StartsTheSame
<1> HIDE DEF next, p
<1>10. ASSUME Packed PROVE \A o \in Starts : o < next <=> o < p \/ o = p
  <2> SUFFICES ASSUME NEW o \in Starts PROVE o < next <=> o < p \/ o = p
    OBVIOUS
  <2>1. o <= p \/ next <= o
    BY <1>4, <1>10
  <2>2. o \in Nat /\ p \in Nat /\ next \in Nat /\ p < next
    BY <1>4, <1>5
  <2> QED
    BY <2>1, <2>2
<1>8. CASE ~EntryAt(p)
  <2>1. children' = children
    BY <1>3, <1>5, <1>8 DEF EntryAt
  <2>2. InOrder'
    BY <1>3, <1>4, <1>5, <2>1 DEF InOrder, p
  <2>3. ASSUME Packed PROVE FoundSoFar'
    <3>1. \A o \in Starts : o < next <=> o < p \/ o = p
      BY <1>10, <2>3
    <3>2. \A o \in Starts : o < p /\ records[o].length > 0 => o + records[o].length <= p
      BY <1>5, <2>3 DEF FoundSoFar, p
    <3>3. {children[i] : i \in 1..Len(children)} = {o \in Starts : o < p /\ EntryAt(o)}
      BY <1>5, <2>3 DEF FoundSoFar, p
    <3>4. \A o \in Starts : o < next /\ records[o].length > 0 => o + records[o].length <= next
      <4> SUFFICES ASSUME NEW o \in Starts, o < next, records[o].length > 0
                   PROVE  o + records[o].length <= next
        OBVIOUS
      <4>1. o \in Nat /\ records[o].length \in Nat
        BY <1>5 DEF Starts
      <4> QED
        BY <1>4, <1>5, <3>1, <3>2, <4>1
    <3>5. {o \in Starts : o < p /\ EntryAt(o)} = {o \in Starts : o < next /\ EntryAt(o)}
      BY <1>8, <3>1
    <3>6. \A o : EntryAt(o)' = EntryAt(o)
      BY <1>1 DEF EntryAt
    <3> QED
      BY <1>1, <1>3, <1>7, <2>1, <3>3, <3>4, <3>5, <3>6 DEF FoundSoFar
  <2> QED
    BY <1>1, <1>3, <1>4, <1>5, <1>6, <1>7, <2>1, <2>2, <2>3 DEF ScanInv
<1>9. CASE EntryAt(p)
  <2> DEFINE n == Len(children)
  <2>1. children' = Append(children, p)
    BY <1>3, <1>5, <1>9 DEF EntryAt
  <2>2. /\ n \in Nat /\ Len(children') = n + 1 /\ children' \in Seq(Nat)
        /\ \A i \in 1..n : children'[i] = children[i] /\ i \in 1..n + 1
        /\ children'[n + 1] = p /\ n + 1 \in 1..n + 1
        /\ \A i \in 1..n + 1 : i \in 1..n \/ i = n + 1
    BY <1>5, <2>1
  <2> HIDE DEF n
  <2>3. \A i \in 1..n : children[i] \in Nat /\ children[i] < p
    BY <1>5 DEF InOrder, n, p
  <2>4. InOrder'
    <3>1. \A i \in 1..n + 1 : children'[i] \in Nat /\ children'[i] < next
      <4> SUFFICES ASSUME NEW i \in 1..n + 1
                   PROVE  children'[i] \in Nat /\ children'[i] < next
        OBVIOUS
      <4>1. CASE i \in 1..n
        <5>1. children'[i] = children[i] /\ children[i] \in Nat /\ children[i] < p
          BY <2>2, <2>3, <4>1
        <5> QED
          BY <1>4, <1>5, <5>1
      <4>2. CASE i = n + 1
        BY <1>4, <1>5, <2>2, <4>2
      <4> QED
        BY <2>2, <4>1, <4>2
    <3>2. \A i, j \in 1..n + 1 : i < j => children'[i] < children'[j]
      <4> SUFFICES ASSUME NEW i \in 1..n + 1, NEW j \in 1..n + 1, i < j
                   PROVE  children'[i] < children'[j]
        OBVIOUS
      <4>1. i \in 1..n
        BY <2>2
      <4>2. CASE j \in 1..n
        BY <1>5, <2>2, <4>1, <4>2 DEF InOrder, n
      <4>3. CASE j = n + 1
        BY <2>2, <2>3, <4>1, <4>3
      <4> QED
        BY <2>2, <4>2, <4>3
    <3> QED
      BY <1>3, <2>2, <3>1, <3>2 DEF InOrder
  <2>5. ASSUME Packed PROVE FoundSoFar'
    <3>1. \A o \in Starts : o < next <=> o < p \/ o = p
      BY <1>10, <2>5
    <3>2. \A o \in Starts : o < p /\ records[o].length > 0 => o + records[o].length <= p
      BY <1>5, <2>5 DEF FoundSoFar, p
    <3>3. {children[i] : i \in 1..n} = {o \in Starts : o < p /\ EntryAt(o)}
      BY <1>5, <2>5 DEF FoundSoFar, p, n
    <3>4. \A o \in Starts : o < next /\ records[o].length > 0 => o + records[o].length <= next
      <4> SUFFICES ASSUME NEW o \in Starts, o < next, records[o].length > 0
                   PROVE  o + records[o].length <= next
        OBVIOUS
      <4>1. o \in Nat /\ records[o].length \in Nat
        BY <1>5 DEF Starts
      <4> QED
        BY <1>4, <1>5, <3>1, <3>2, <4>1
    <3>5. {children'[i] : i \in 1..n + 1} = {children[i] : i \in 1..n} \cup {p}
      BY <2>2
    <3>6. {o \in Starts : o < next /\ EntryAt(o)} = {o \in Starts : o < p /\ EntryAt(o)} \cup {p}
      BY <1>5, <1>9, <3>1
    <3>7. \A o : EntryAt(o)' = EntryAt(o)
      BY <1>1 DEF EntryAt
    <3> QED
      BY <1>1, <1>3, <1>7, <2>2, <3>3, <3>4, <3>5, <3>6, <3>7 DEF FoundSoFar
  <2> QED
    BY <1>1, <1>3, <1>4, <1>5, <1>6, <1>7, <2>2, <2>4, <2>5 DEF ScanInv
<1> QED
  BY <1>8, <1>9

LEMMA ChooseIso == ASSUME IsoInv, Choose PROVE IsoInv'
<1>1. iso' = iso /\ isoStep' # "scan" /\ isoStep = "scan"
  BY DEF Choose
<1>2. IsRecord(entry')
  <2> DEFINE matches == {i \in 1..Len(children) : records[children[i]].name = path[names + 1]}
             first == CHOOSE i \in matches : \A j \in matches : i <= j
  <2>1. CASE entry' = entry
    BY <2>1 DEF IsoInv
  <2>2. CASE matches # {} /\ entry' = records[children[first]]
    <3>1. matches \in SUBSET Nat
      OBVIOUS
    <3>2. \E i \in matches : \A j \in matches : i <= j
      <4> HIDE DEF matches
      <4> QED
        BY <2>2, <3>1, LeastElement
    <3>3. first \in matches
      <4> HIDE DEF matches
      <4> QED
        BY <3>2
    <3>4. first \in 1..Len(children)
      BY <3>3
    <3> HIDE DEF first
    <3>5. children[first] \in DOMAIN records /\ IsRecord(records[children[first]])
      BY <1>1, <3>4 DEF IsoInv, ScanInv, InOrder
    <3> QED
      BY <2>2, <3>5
  <2> QED
    BY <2>1, <2>2 DEF Choose
<1> QED
  BY <1>1, <1>2 DEF IsoInv, ScanInv

LEMMA NextIso == IsoInv /\ [IsoNext]_isoVars => IsoInv'
<1> SUFFICES ASSUME IsoInv, [IsoNext]_isoVars PROVE IsoInv'
  OBVIOUS
<1>1. CASE OpenIso
  BY <1>1 DEF OpenIso, IsoInv, ScanInv, IsIso
<1>2. CASE ReadRecords
  BY <1>2, ReadRecordsIso
<1>3. CASE Scan
  BY <1>3, ScanIso
<1>4. CASE Choose
  BY <1>4, ChooseIso
<1>5. CASE ReadIsoFile
  BY <1>5 DEF ReadIsoFile, IsoInv, ScanInv
<1>6. CASE Shorten
  <2>1. IsIso(iso')
    BY <1>6, IsoAssumption DEF Shorten, IsoInv, IsIso
  <2> QED
    BY <1>6, <2>1, StartsTheSame DEF Shorten, IsoInv, ScanInv, InOrder, FoundSoFar, EntryAt
<1>7. CASE UNCHANGED isoVars
  BY <1>7, StartsTheSame DEF isoVars, IsoInv, ScanInv, InOrder, FoundSoFar, EntryAt
<1> QED
  BY <1>1, <1>2, <1>3, <1>4, <1>5, <1>6, <1>7 DEF IsoNext, IsoStep

LEMMA IsoListingFollows == IsoInv => IsoListingIsComplete
<1> SUFFICES ASSUME IsoInv, isoStep = "scan", position >= entry.size, Packed
             PROVE  /\ {children[i] : i \in 1..Len(children)} =
                         {o \in Starts : records[o].length > 0 /\ records[o].name \notin {".", ".."}}
                    /\ \A i, j \in 1..Len(children) : i < j => children[i] < children[j]
  BY DEF IsoListingIsComplete
<1>1. \A o \in Starts : o < position
  BY DEF IsoInv, ScanInv, Starts
<1> QED
  BY <1>1 DEF IsoInv, ScanInv, FoundSoFar, InOrder, EntryAt

\* Every entry of a packed directory is listed once and in order.
THEOREM IsoListingComplete == IsoSpec => []IsoListingIsComplete
BY InitIso, NextIso, IsoListingFollows, PTL DEF IsoSpec

LEMMA IsoCauseFollows == ASSUME IsoInv, [IsoNext]_isoVars PROVE ScanFailsForCause
<1> SUFFICES ASSUME isoStep = "scan", position < entry.size, isoStep' = "format_error"
             PROVE  \E o \in Starts : /\ records[o].length > 0
                                      /\ ~records[o].valid \/ o + records[o].length > entry.size
  BY DEF ScanFailsForCause
<1> DEFINE next == After(position, entry.size)
<1>1. Scan
  <2>1. position \in Nat /\ entry.size \in Nat
    BY DEF IsoInv, ScanInv
  <2>2. ~Choose
    BY <2>1 DEF Choose
  <2> QED
    BY <2>2 DEF IsoNext, IsoStep, OpenIso, ReadRecords, ReadIsoFile, Shorten, isoVars
<1>2. /\ next \in Nat /\ position < next /\ position \in Starts /\ position \in Nat
      /\ records[position].length > 0 => next = position + records[position].length
  BY AfterIsNext DEF IsoInv, ScanInv
<1>3. records[position].length > 0 /\ (next > entry.size \/ ~records[position].valid)
  <2> HIDE DEF next
  <2>1. ~(next <= position)
    BY <1>2
  <2> QED
    BY <1>1, <2>1 DEF Scan, RunsOver, next
<1> HIDE DEF next
<1> QED
  BY <1>2, <1>3

\* A packed directory of valid records that lie within it is never given up.
THEOREM IsoCauses == IsoSpec => IsoFailsForCause
<1>1. IsoInv /\ [IsoNext]_isoVars => ScanFailsForCause
  BY IsoCauseFollows
<1> QED
  BY <1>1, InitIso, NextIso, PTL DEF IsoSpec, IsoFailsForCause

-----------------------------------------------------------------------------
(***************************************************************************)
(* The NES adapter: what is hashed, and what its methods say.              *)
(***************************************************************************)
\* Until it ends a method has no outcome, and before it hashes, the header that was read
\* and the size that was told fit each other.
HashInv ==
  /\ IsCartridge(cartridge)
  /\ nesStep # "idle" => nesMethod \in NesMethods
  /\ nesMethod # "none" => nesOutcome = "none"
  /\ nesStep = "hash" =>
       /\ statSize \in Nat /\ SizeFits(statSize)
       /\ stable => statSize = cartridge.length
  /\ HashIsExact

LEMMA InitHash == NesInit => HashInv
BY CartridgeAssumption DEF NesInit, NesStart, HashInv, HashIsExact

\* No method is identified as such by its header alone.
LEMMA HeaderIdentifiesNothing ==
  ASSUME NEW m \in NesMethods, NEW c
  PROVE  FromHeader(m, c) # "identified"
BY DEF NesMethods, FromHeader, FromHeaderOfProbe, FromHeaderOfIdentify, FromHeaderOfDetect

LEMMA ReadHeaderHash == ASSUME HashInv, ReadHeader PROVE HashInv'
<1>1. nesMethod \in NesMethods /\ nesMethod # "none" /\ nesOutcome = "none" /\ cartridge' = cartridge
  BY DEF HashInv, ReadHeader, NesMethods
<1>2. nesOutcome' # "identified"
  BY <1>1, HeaderIdentifiesNothing DEF ReadHeader, NesEnd
<1>3. \/ nesMethod' = "none" /\ nesStep' = "idle"
      \/ UNCHANGED <<nesMethod, nesOutcome>> /\ nesStep' = "size"
  BY DEF ReadHeader, NesEnd
<1> QED
  BY <1>1, <1>2, <1>3 DEF HashInv, HashIsExact

LEMMA AskSizeHash == ASSUME HashInv, AskSize PROVE HashInv'
<1>1. /\ UNCHANGED <<cartridge, said, hashed, stable>> /\ nesOutcome = "none"
      /\ nesMethod \in NesMethods /\ cartridge.length \in Nat
  BY DEF HashInv, AskSize, IsCartridge, NesMethods
<1>2. CASE UNCHANGED <<nesMethod, nesOutcome>> /\ nesStep' = "hash"
  <2>1. statSize' = cartridge.length /\ SizeFits(cartridge.length)
    BY <1>2 DEF AskSize, NesEnd
  <2>2. SizeFits(statSize)'
    BY <1>1, <2>1 DEF SizeFits
  <2> QED
    BY <1>1, <1>2, <2>1, <2>2 DEF HashInv, HashIsExact
<1>3. CASE nesMethod' = "none" /\ nesStep' = "idle" /\ nesOutcome' # "identified"
  BY <1>1, <1>3 DEF HashInv, HashIsExact
<1> QED
  BY <1>2, <1>3 DEF AskSize, NesEnd

LEMMA HashHash == ASSUME HashInv, Hash PROVE HashInv'
<1>1. /\ UNCHANGED <<cartridge, said, statSize, stable>> /\ statSize \in Nat
      /\ SizeFits(statSize)
      /\ stable => statSize = cartridge.length
      /\ nesMethod' = "none" /\ nesStep' = "idle"
  BY DEF HashInv, Hash, NesEnd
<1>2. CASE nesOutcome' # "identified"
  BY <1>1, <1>2 DEF HashInv, HashIsExact
<1>3. CASE nesOutcome' = "identified"
  <2>1. hashed' = HashRange
    BY <1>3 DEF Hash, NesEnd
  <2>2. said' = said
    BY <1>1
  <2>3. HasMagic(said') = HasMagic(said) /\ ContentSize(said') = ContentSize(said)
    BY <2>2
  <2>4. HasMagic(said) =>
          hashed'.length = ContentSize(said) /\ hashed'.offset = NesHeaderSize
    BY <2>1 DEF HashRange
  <2>5. hashed'.offset + hashed'.length = statSize
    <3>1. CASE HasMagic(said)
      <4>1. statSize = NesHeaderSize + ContentSize(said)
        BY <1>1, <3>1 DEF SizeFits
      <4> QED
        BY <2>4, <3>1, <4>1
    <3>2. CASE ~HasMagic(said)
      BY <1>1, <2>1, <3>2 DEF HashRange
    <3> QED
      BY <3>1, <3>2
  <2>6. HashIsExact'
    BY <1>1, <2>3, <2>4, <2>5 DEF HashIsExact
  <2> QED
    BY <1>1, <2>6 DEF HashInv
<1> QED
  BY <1>2, <1>3

LEMMA NextHash == HashInv /\ [NesNext]_nesVars => HashInv'
<1> SUFFICES ASSUME HashInv, [NesNext]_nesVars PROVE HashInv'
  OBVIOUS
<1>1. CASE NesBegin
  BY <1>1 DEF HashInv, HashIsExact, NesBegin, NesMethods
<1>2. CASE ReadHeader
  BY <1>2, ReadHeaderHash
<1>3. CASE AskSize
  BY <1>3, AskSizeHash
<1>4. CASE Hash
  BY <1>4, HashHash
<1>5. CASE Swap
  BY <1>5, CartridgeAssumption DEF HashInv, HashIsExact, Swap, SizeFits
<1>6. CASE UNCHANGED nesVars
  BY <1>6 DEF nesVars, HashInv, HashIsExact, SizeFits
<1> QED
  BY <1>1, <1>2, <1>3, <1>4, <1>5, <1>6 DEF NesNext, NesStep

\* An identity of the NES adapter is that of exactly the content the header promises and
\* the file has: for any cartridges, although the path may hold another one at each of
\* the three accesses.
THEOREM HashExact == NesSpec => []HashIsExact
<1>1. HashInv => HashIsExact
  BY DEF HashInv
<1> QED
  BY <1>1, InitHash, NextHash, PTL DEF NesSpec

-----------------------------------------------------------------------------
\* What each answer says of a cartridge: what its method found in it.
Sized(c) == c.length = NesHeaderSize + ContentSize(c)
Content(c) == HasMagic(c) /\ c.length >= NesHeaderSize /\ ~c.trainer /\ Sized(c)
Justified(what, c) ==
  /\ what = "supported" => Content(c) \/ (~HasMagic(c) /\ headerless /\ suffix)
  /\ what = "identified" => Content(c) \/ (~HasMagic(c) /\ headerless)
  /\ what = "unsupported" => ~HasMagic(c) /\ ~(headerless /\ suffix)
  /\ what = "unsafe" => HasMagic(c) /\ ~Content(c)
  /\ what = "format_error" => ~Content(c) /\ (HasMagic(c) \/ ~headerless)
  /\ what = "nothing" => ~HasMagic(c) \/ c.length < NesHeaderSize

\* A method that has not been disturbed knows the header and the size of the present
\* file, and what was said of that file is what the methods find in it.
AgreeInv ==
  /\ IsCartridge(cartridge)
  /\ nesStep # "idle" => nesMethod \in NesMethods
  /\ stable /\ nesStep \in {"size", "hash"} =>
       said = cartridge /\ FromHeader(nesMethod, cartridge) = "size"
  /\ stable /\ nesStep = "hash" =>
       nesMethod = "identify" /\ statSize = cartridge.length /\ SizeFits(statSize)
  /\ \A claim \in nesClaims :
       Justified(claim[1], cartridge) /\ claim[2] = Representation(cartridge)

\* A method that ends adds what it says to the claims, if it is about the present file.
LEMMA EndAgrees ==
  ASSUME AgreeInv, NEW what, NEW c, NesEnd(what, c),
         UNCHANGED <<cartridge, headerless, suffix>>,
         stable => c = cartridge /\ Justified(what, cartridge)
  PROVE  AgreeInv'
<1>1. ASSUME NEW claim \in nesClaims'
      PROVE  Justified(claim[1], cartridge)' /\ claim[2] = Representation(cartridge')
  <2>1. claim \in nesClaims \/ (stable /\ claim = <<what, Representation(c)>>)
    BY DEF NesEnd
  <2>2. Justified(claim[1], cartridge) /\ claim[2] = Representation(cartridge)
    <3>1. CASE claim \in nesClaims
      BY <3>1 DEF AgreeInv
    <3>2. CASE stable /\ claim = <<what, Representation(c)>>
      BY <3>2
    <3> QED
      BY <2>1, <3>1, <3>2
  <2>3. cartridge' = cartridge /\ headerless' = headerless /\ suffix' = suffix
    OBVIOUS
  <2> QED
    BY <2>2, <2>3 DEF Justified
<1>2. nesStep' = "idle" /\ cartridge' = cartridge
  BY DEF NesEnd
<1> QED
  BY <1>1, <1>2 DEF AgreeInv

LEMMA HeaderAgrees ==
  ASSUME NEW m \in NesMethods, NEW c, IsCartridge(c), FromHeader(m, c) # "size"
  PROVE  Justified(FromHeader(m, c), c)
<1>1. c.length \in Nat /\ c.trainer \in BOOLEAN
  BY DEF IsCartridge
<1>2. CASE m = "probe"
  BY <1>1, <1>2 DEF FromHeader, FromHeaderOfProbe, Justified, Content, NesHeaderSize
<1>3. CASE m = "identify"
  BY <1>1, <1>3 DEF FromHeader, FromHeaderOfIdentify, Justified, Content, NesHeaderSize
<1>4. CASE m = "detect"
  BY <1>1, <1>4 DEF FromHeader, FromHeaderOfDetect, Justified, Content, NesHeaderSize
<1> QED
  BY <1>2, <1>3, <1>4 DEF NesMethods

\* What a header that is no answer yet has.
LEMMA HeaderLeavesSize ==
  ASSUME NEW m \in NesMethods, NEW c, IsCartridge(c), FromHeader(m, c) = "size"
  PROVE  /\ m \in {"probe", "identify"}
         /\ HasMagic(c) => c.length >= NesHeaderSize /\ ~c.trainer
         /\ ~HasMagic(c) => m = "identify" /\ headerless
<1>1. c.length \in Nat /\ c.trainer \in BOOLEAN
  BY DEF IsCartridge
<1>2. CASE m = "probe"
  BY <1>1, <1>2 DEF FromHeader, FromHeaderOfProbe, NesHeaderSize
<1>3. CASE m = "identify"
  BY <1>1, <1>3 DEF FromHeader, FromHeaderOfIdentify, NesHeaderSize
<1>4. CASE m = "detect"
  BY <1>1, <1>4 DEF FromHeader, FromHeaderOfDetect
<1> QED
  BY <1>2, <1>3, <1>4 DEF NesMethods

LEMMA ReadHeaderAgrees == ASSUME AgreeInv, ReadHeader PROVE AgreeInv'
<1>1. nesMethod \in NesMethods /\ IsCartridge(cartridge)
  BY DEF AgreeInv, ReadHeader
<1>2. CASE ~cartridge.regular
  BY <1>1, <1>2, EndAgrees DEF ReadHeader, Justified
<1>3. CASE cartridge.regular /\ FromHeader(nesMethod, cartridge) # "size"
  BY <1>1, <1>3, EndAgrees, HeaderAgrees DEF ReadHeader
<1>4. CASE nesStep' = "size" /\ UNCHANGED <<nesMethod, nesOutcome, nesClaims>>
           /\ FromHeader(nesMethod, cartridge) = "size"
  BY <1>4 DEF ReadHeader, AgreeInv, Justified, FromHeader, FromHeaderOfProbe,
              FromHeaderOfIdentify, FromHeaderOfDetect
<1> QED
  BY <1>2, <1>3, <1>4 DEF ReadHeader

LEMMA AskSizeAgrees == ASSUME AgreeInv, AskSize PROVE AgreeInv'
<1>1. /\ nesMethod \in NesMethods /\ IsCartridge(cartridge)
      /\ stable => said = cartridge /\ FromHeader(nesMethod, cartridge) = "size"
  BY DEF AgreeInv, AskSize
<1>2. stable => /\ nesMethod \in {"probe", "identify"}
                /\ HasMagic(cartridge) => cartridge.length >= NesHeaderSize /\ ~cartridge.trainer
                /\ ~HasMagic(cartridge) => nesMethod = "identify" /\ headerless
                /\ SizeFits(cartridge.length) <=> ~HasMagic(cartridge) \/ Sized(cartridge)
  BY <1>1, HeaderLeavesSize DEF SizeFits, Sized
<1>3. CASE ~cartridge.regular
  BY <1>1, <1>3, EndAgrees DEF AskSize, Justified
<1>4. CASE cartridge.regular /\ ~SizeFits(cartridge.length)
  <2>1. stable => Justified(IF nesMethod = "probe" THEN "unsafe" ELSE "format_error", cartridge)
    BY <1>2, <1>4 DEF Justified, Content
  <2> QED
    BY <1>1, <1>4, <2>1, EndAgrees DEF AskSize
<1>5. CASE cartridge.regular /\ SizeFits(cartridge.length) /\ nesMethod = "probe"
  <2>1. stable => Justified("supported", cartridge)
    BY <1>2, <1>5 DEF Justified, Content
  <2> QED
    BY <1>1, <1>5, <2>1, EndAgrees DEF AskSize
<1>6. CASE cartridge.regular /\ SizeFits(cartridge.length) /\ nesMethod # "probe"
  BY <1>1, <1>2, <1>6
  DEF AskSize, AgreeInv, Justified, SizeFits, FromHeader, FromHeaderOfIdentify,
      FromHeaderOfProbe, FromHeaderOfDetect
<1> QED
  BY <1>3, <1>4, <1>5, <1>6

\* A range that fitted the size is still in the file.
LEMMA HashAgrees == ASSUME AgreeInv, Hash PROVE AgreeInv'
<1>1. /\ nesMethod \in NesMethods /\ IsCartridge(cartridge)
      /\ stable => /\ said = cartridge /\ FromHeader(nesMethod, cartridge) = "size"
                   /\ statSize = cartridge.length /\ SizeFits(statSize)
  BY DEF AgreeInv, Hash
<1>2. stable => Justified("identified", cartridge)
  BY <1>1, HeaderLeavesSize DEF SizeFits, Sized, Justified, Content
<1>3. stable => HashRange.offset + HashRange.length <= cartridge.length
  <2>1. cartridge.length \in Nat
    BY <1>1 DEF IsCartridge
  <2>2. CASE HasMagic(said)
    BY <1>1, <2>1, <2>2 DEF HashRange, SizeFits
  <2>3. CASE ~HasMagic(said)
    BY <1>1, <2>1, <2>3 DEF HashRange
  <2> QED
    BY <2>2, <2>3
<1>4. CASE NesEnd("os_error", said)
  BY <1>1, <1>4, EndAgrees DEF Hash, Justified
<1>5. CASE NesEnd("identified", said)
  BY <1>1, <1>2, <1>5, EndAgrees DEF Hash
<1>6. CASE NesEnd("format_error", said) /\ ~stable
  BY <1>6, EndAgrees DEF Hash
<1> QED
  BY <1>3, <1>4, <1>5, <1>6 DEF Hash

LEMMA NextAgrees == AgreeInv /\ [NesNext]_nesVars => AgreeInv'
<1> SUFFICES ASSUME AgreeInv, [NesNext]_nesVars PROVE AgreeInv'
  OBVIOUS
<1>1. CASE NesBegin
  BY <1>1 DEF NesBegin, AgreeInv, Justified, NesMethods
<1>2. CASE ReadHeader
  BY <1>2, ReadHeaderAgrees
<1>3. CASE AskSize
  BY <1>3, AskSizeAgrees
<1>4. CASE Hash
  BY <1>4, HashAgrees
<1>5. CASE Swap
  BY <1>5, CartridgeAssumption DEF Swap, AgreeInv
<1>6. CASE UNCHANGED nesVars
  BY <1>6 DEF nesVars, AgreeInv, Justified, SizeFits, FromHeader, FromHeaderOfProbe,
              FromHeaderOfIdentify, FromHeaderOfDetect
<1> QED
  BY <1>1, <1>2, <1>3, <1>4, <1>5, <1>6 DEF NesNext, NesStep

LEMMA AgreementFollows == AgreeInv => NesAgrees
BY DEF AgreeInv, NesAgrees, Justified, Content, Representation, NesHeaderSize, IsCartridge

\* The probe, the identification and the detection never contradict each other about a
\* file that does not change, for any cartridge.
THEOREM MethodsAgree == NesSpec => []NesAgrees
<1>1. NesInit => AgreeInv
  BY CartridgeAssumption DEF NesInit, NesStart, AgreeInv
<1> QED
  BY <1>1, AgreementFollows, NextAgrees, PTL DEF NesSpec

-----------------------------------------------------------------------------
(***************************************************************************)
(* The inspection of Switch containers.                                    *)
(***************************************************************************)
\* Of two different elements a set has at least two.
LEMMA AtMostOne ==
  ASSUME NEW S, IsFiniteSet(S)
  PROVE  Cardinality(S) <= 1 <=> \A x, y \in S : x = y
<1>1. ASSUME \A x, y \in S : x = y PROVE Cardinality(S) <= 1
  <2>1. CASE S = {}
    BY <2>1, FS_EmptySet
  <2>2. ASSUME NEW x \in S PROVE Cardinality(S) <= 1
    <3>1. S = {x}
      BY <1>1, <2>2
    <3> QED
      BY <3>1, FS_Singleton
  <2> QED
    BY <2>1, <2>2
<1>2. ASSUME NEW x \in S, NEW y \in S, x # y PROVE ~(Cardinality(S) <= 1)
  <2>1. IsFiniteSet({x}) /\ Cardinality({x}) = 1
    BY FS_Singleton
  <2>2. Cardinality({x} \cup {y}) = 2
    BY <1>2, <2>1, FS_AddElement
  <2>3. {x} \cup {y} \subseteq S
    OBVIOUS
  <2>4. Cardinality({x} \cup {y}) <= Cardinality(S) /\ Cardinality(S) \in Nat
    BY <2>3, FS_Subset, FS_CardinalityType
  <2> QED
    BY <2>2, <2>4
<1> QED
  BY <1>1, <1>2

LEMMA DataOffsetType ==
  ASSUME NEW t, IsTableOf(t), NEW o \in Nat
  PROVE  DataOffset(t, o) \in Nat /\ DataOffset(t, o) >= o + HeaderSize
<1>1. Len(t.entries) \in Nat /\ EntrySize(t.magic) \in Nat /\ t.strings \in Nat
  BY PackageAssumption DEF IsTableOf, EntrySize
<1>2. \A m, n \in Nat : m * n \in Nat
  BY Z3
<1>3. Len(t.entries) * EntrySize(t.magic) \in Nat
  BY <1>1, <1>2
<1> DEFINE total == Len(t.entries) * EntrySize(t.magic)
<1>4. DataOffset(t, o) = o + HeaderSize + total + t.strings
  BY DEF DataOffset
<1> HIDE DEF total
<1> QED
  BY <1>1, <1>3, <1>4, PackageAssumption DEF total

LEMMA ParsedEntries ==
  ASSUME IsPackage(package), NEW o \in Nat, o \in DOMAIN package.tables
  PROVE  LET t == package.tables[o]
         IN /\ IsTableOf(t) /\ Len(t.entries) \in Nat /\ DOMAIN t.entries = 1..Len(t.entries)
            /\ Parsed(o) \in Seq(SwitchContainerEntry) /\ DOMAIN Parsed(o) = 1..Len(t.entries)
            /\ Len(Parsed(o)) = Len(t.entries)
            /\ \A i \in 1..Len(t.entries) :
                 /\ t.entries[i] \in SwitchContainerEntry
                 /\ Parsed(o)[i].name = t.entries[i].name /\ Parsed(o)[i].size = t.entries[i].size
                 /\ Parsed(o)[i].offset = DataOffset(t, o) + t.entries[i].offset
<1> DEFINE t == package.tables[o]
           n == Len(t.entries)
<1>1. IsTableOf(t)
  BY DEF IsPackage
<1>2. t.entries \in Seq(SwitchContainerEntry) /\ n \in Nat /\ DOMAIN t.entries = 1..n
  BY <1>1 DEF IsTableOf
<1>3. DataOffset(t, o) \in Nat
  BY <1>1, DataOffsetType
<1> DEFINE d == DataOffset(t, o)
           moved(i) == [t.entries[i] EXCEPT !.offset = d + t.entries[i].offset]
<1> HIDE DEF n, t, d
<1>4. ASSUME NEW i \in 1..n
      PROVE  /\ t.entries[i] \in SwitchContainerEntry
             /\ moved(i) \in SwitchContainerEntry
             /\ moved(i).name = t.entries[i].name /\ moved(i).size = t.entries[i].size
             /\ moved(i).offset = d + t.entries[i].offset
  <2>1. t.entries[i] \in SwitchContainerEntry
    BY <1>2, <1>4
  <2> QED
    BY <1>3, <2>1 DEF SwitchContainerEntry, d
<1>5. Parsed(o) = [i \in 1..n |-> moved(i)]
  BY <1>2 DEF Parsed, t, d
<1> HIDE DEF moved
<1>6. Parsed(o) \in Seq(SwitchContainerEntry) /\ Len(Parsed(o)) = n
  BY <1>2, <1>4, <1>5
<1> QED
  BY <1>1, <1>2, <1>4, <1>5, <1>6 DEF t, n, d

\* pos names the positions of the entries that are chosen by name.
ChosenAt(pos, r, list, chosen) ==
  /\ pos \in [1..Len(r) -> 1..Len(list)]
  /\ \A j, k \in 1..Len(r) : j < k => pos[j] < pos[k]
  /\ \A k \in 1..Len(r) : r[k] = list[pos[k]] /\ r[k].name \in chosen
  /\ \A i \in 1..Len(list) : list[i].name \in chosen => \E k \in 1..Len(r) : pos[k] = i

LEMMA NamedEntries ==
  ASSUME NEW list \in Seq(SwitchContainerEntry), NEW chosen
  PROVE  /\ EntriesNamed(list, chosen) \in Seq(SwitchContainerEntry)
         /\ \E pos : ChosenAt(pos, EntriesNamed(list, chosen), list, chosen)
<1> DEFINE S == {list[i] : i \in {j \in DOMAIN list : list[j].name \in chosen}}
<1>1. EntriesNamed(list, chosen) = Selected(list, S)
  BY DEF EntriesNamed
<1>2. \A i \in 1..Len(list) : list[i] \in S <=> list[i].name \in chosen
  OBVIOUS
<1> HIDE DEF S
<1> DEFINE r == Selected(list, S)
<1>3. r \in Seq(SwitchContainerEntry) /\ \E pos : SelectedFrom(pos, r, list, S, Len(list))
  BY SelectedAt
<1> HIDE DEF r
<1>4. PICK pos : SelectedFrom(pos, r, list, S, Len(list))
  BY <1>3
<1>5. /\ pos \in [1..Len(r) -> 1..Len(list)]
      /\ \A j, k \in 1..Len(r) : j < k => pos[j] < pos[k]
      /\ \A k \in 1..Len(r) : r[k] = list[pos[k]] /\ list[pos[k]] \in S
      /\ \A i \in 1..Len(list) : list[i] \in S => \E k \in 1..Len(r) : pos[k] = i
  BY <1>4 DEF SelectedFrom
<1>6. \A k \in 1..Len(r) : r[k].name \in chosen
  BY <1>2, <1>5
<1>7. \A i \in 1..Len(list) : list[i].name \in chosen => \E k \in 1..Len(r) : pos[k] = i
  BY <1>2, <1>5
<1>8. ChosenAt(pos, r, list, chosen)
  BY <1>5, <1>6, <1>7 DEF ChosenAt
<1> QED
  BY <1>1, <1>3, <1>8 DEF r

LEMMA ContentEntries ==
  ASSUME NEW list \in Seq(SwitchContainerEntry)
  PROVE  HasContent(list) <=> \E i \in DOMAIN list : list[i].name = "cnmt_nca"
<1> DEFINE r == EntriesNamed(list, {"cnmt_nca"})
<1>1. r \in Seq(SwitchContainerEntry)
  BY NamedEntries
<1>2. PICK pos : ChosenAt(pos, r, list, {"cnmt_nca"})
  BY NamedEntries
<1>3. HasContent(list) <=> r # <<>>
  BY DEF HasContent
<1> HIDE DEF r
<1>4. r # <<>> <=> 1 \in 1..Len(r)
  BY <1>1
<1>5. Len(r) \in Nat /\ DOMAIN list = 1..Len(list)
  BY <1>1
<1> QED
  BY <1>2, <1>3, <1>4, <1>5 DEF ChosenAt

-----------------------------------------------------------------------------
\* A table of a file that has its measured size parses exactly if it is sound.
LEMMA ParsesIfSound ==
  ASSUME IsPackage(package), measured = package.length, NEW o \in Nat, NEW magic, NEW limit
  PROVE  Parses(magic, o, limit) <=> Sound(magic, o, limit)
<1> SUFFICES ASSUME o \in DOMAIN package.tables
             PROVE  Parses(magic, o, limit) <=> Sound(magic, o, limit)
  BY DEF Parses, Sound
<1> DEFINE t == package.tables[o]
           d == DataOffset(t, o)
<1>1. /\ IsTableOf(t) /\ Len(t.entries) \in Nat /\ DOMAIN t.entries = 1..Len(t.entries)
      /\ \A i \in DOMAIN t.entries : t.entries[i] \in SwitchContainerEntry
      /\ d \in Nat /\ d >= o + HeaderSize /\ HeaderSize \in Nat /\ package.length \in Nat
  BY ParsedEntries, DataOffsetType, PackageAssumption DEF IsPackage
<1> HIDE DEF t, d
<1>2. Exact(o, HeaderSize) /\ Exact(o, d - o) <=> d <= package.length
  BY <1>1 DEF Exact
<1>3. ASSUME NEW i \in DOMAIN t.entries, t.magic = magic
      PROVE  EntryOkay(t, o, t.entries[i]) <=>
               /\ t.entries[i].name # "unreadable"
               /\ t.entries[i].offset + t.entries[i].size <= package.length - d
               /\ magic = "HFS0" => t.entries[i].hashed <= t.entries[i].size
  <2>1. t.entries[i].offset \in Nat /\ t.entries[i].size \in Nat
    BY <1>1, <1>3 DEF SwitchContainerEntry
  <2>2. EntryOkay(t, o, t.entries[i]) <=>
          /\ t.entries[i].name # "unreadable"
          /\ d + t.entries[i].offset + t.entries[i].size <= measured
          /\ magic = "HFS0" => t.entries[i].hashed <= t.entries[i].size
    BY <1>3 DEF EntryOkay, d
  <2>3. d + t.entries[i].offset + t.entries[i].size <= measured <=>
          t.entries[i].offset + t.entries[i].size <= package.length - d
    <3>1. \A a, b, c, l \in Nat : c + a + b <= l <=> a + b <= l - c
      OBVIOUS
    <3> QED
      BY <1>1, <2>1, <3>1
  <2> QED
    BY <2>2, <2>3
<1>4. Parses(magic, o, limit) <=>
        /\ Exact(o, HeaderSize) /\ t.magic = magic /\ Len(t.entries) <= limit
        /\ t.strings <= MaxStrings /\ Exact(o, d - o)
        /\ \A i \in DOMAIN t.entries : EntryOkay(t, o, t.entries[i])
  BY DEF Parses, t, d
<1>5. Sound(magic, o, limit) <=>
        /\ t.magic = magic /\ Len(t.entries) <= limit /\ t.strings <= MaxStrings
        /\ d <= package.length
        /\ \A i \in DOMAIN t.entries :
             /\ t.entries[i].name # "unreadable"
             /\ t.entries[i].offset + t.entries[i].size <= package.length - d
             /\ magic = "HFS0" => t.entries[i].hashed <= t.entries[i].size
  BY DEF Sound, t, d
<1> QED
  BY <1>2, <1>3, <1>4, <1>5

-----------------------------------------------------------------------------
\* The first table of a package, and the header of a game card, as they have to be.
PfsHead ==
  package.length > 0 /\ 0 \in DOMAIN package.tables /\ package.tables[0].magic = "PFS0"
CardHead ==
  /\ ~PfsHead /\ package.head /\ package.root % CardHeaderSize = 0 /\ package.root > 0
  /\ CardHeaderSize <= package.length

\* The only secure partition of a game card.
IsSecure(i) ==
  /\ i \in DOMAIN Parsed(package.root) /\ Parsed(package.root)[i].name \in SecureNames
  /\ \A j \in DOMAIN Parsed(package.root) :
       Parsed(package.root)[j].name \in SecureNames => j = i
SecureFound ==
  /\ Sound("HFS0", package.root, MaxRootFiles)
  /\ \E i : IsSecure(i) /\ at = Parsed(package.root)[i].offset

\* The documents of a package: which have been read, and what they have named.
Xmls == EntriesNamed(Parsed(0), {"cnmt_xml"})
Text(k) == package.documents[Xmls[k].offset]
IsReadable(k) ==
  /\ Xmls[k].size <= MaxDocument /\ Xmls[k].offset \in DOMAIN package.documents
  /\ Text(k) \in {"app_1", "app_2", "patch"}
IsApplication(k) == Text(k) # "patch"
FoundBy(n, found) ==
  /\ \A k \in 1..n : IsReadable(k)
  /\ Len(found) = 0 => \A k \in 1..n : ~IsApplication(k)
  /\ Len(found) = 1 => \E k \in 1..n : /\ Text(k) = found[1] /\ IsApplication(k)
                                     /\ \A j \in 1..n : IsApplication(j) => j = k
  /\ Len(found) >= 2 =>
       \E j, k \in 1..n : j < k /\ IsApplication(j) /\ IsApplication(k)
DocumentsRead(left, found) ==
  LET n == Len(Xmls) - Len(left)
  IN n \in Nat /\ (\A k \in 1..Len(left) : left[k] = Xmls[n + k]) /\ FoundBy(n, found)
PackageOpen ==
  /\ PfsHead /\ Sound("PFS0", 0, MaxFiles) /\ HasContent(Parsed(0))
  /\ listing = Parsed(0)

\* What a step may rely on, whoever else writes to the file ...
PackageTypes ==
  /\ PackageTypeOK
  /\ part = "done" <=> report # "none"
  /\ part = "prefix" => measured = -1
  /\ part = "document" =>
       todo # <<>> /\ (measured # -1 => Head(todo).size <= MaxDocument)
  /\ part \notin {"document", "done"} \/ report = "card" => applications = <<>>
  /\ report = "package" => Len(applications) <= 1

\* ... and what it may as long as nobody does.
StageInv ==
  /\ measured \in {-1, package.length}
  /\ part \notin {"prefix", "done"} => package.regular
  /\ part = "package" => PfsHead
  /\ part = "document" => PackageOpen /\ DocumentsRead(todo, applications)
  /\ part \in {"card", "root", "secure"} => ~PfsHead
  /\ part = "root" => CardHead /\ at = package.root
  /\ part = "secure" => CardHead /\ SecureFound
  /\ report = "package" =>
       package.regular /\ SoundPackage /\ PackageOpen /\ DocumentsRead(<<>>, applications)
  /\ report = "card" => package.regular /\ SoundCard
  /\ report = "format_error" => ~(package.regular /\ (SoundPackage \/ SoundCard))
PackageInv == PackageTypes /\ (untouched => StageInv)

LEMMA SamePackage ==
  ASSUME package' = package
  PROVE  /\ PfsHead' = PfsHead /\ CardHead' = CardHead
         /\ Sound("PFS0", 0, MaxFiles)' = Sound("PFS0", 0, MaxFiles)
         /\ Sound("HFS0", package.root, MaxRootFiles)' = Sound("HFS0", package.root, MaxRootFiles)
         /\ SoundPackage' = SoundPackage /\ SoundCard' = SoundCard
         /\ Parsed(0)' = Parsed(0) /\ Parsed(package.root)' = Parsed(package.root)
         /\ Xmls' = Xmls /\ \A k : Text(k)' = Text(k) /\ IsReadable(k)' = IsReadable(k)
         /\ \A i : IsSecure(i)' = IsSecure(i)
         /\ IsPackage(package)' = IsPackage(package)
BY DEF PfsHead, CardHead, Sound, SoundPackage, SoundCard, Parsed, Xmls, Text, IsReadable,
       IsSecure, DataOffset

\* A file begins in one way only.
LEMMA HeadsDiffer ==
  ASSUME IsPackage(package)
  PROVE  (SoundPackage => PfsHead) /\ (SoundCard => CardHead)
<1>1. ASSUME SoundPackage PROVE PfsHead
  <2>1. Sound("PFS0", 0, MaxFiles)
    BY <1>1 DEF SoundPackage
  <2>2. 0 \in DOMAIN package.tables /\ package.tables[0].magic = "PFS0"
        /\ DataOffset(package.tables[0], 0) <= package.length
    BY <2>1 DEF Sound
  <2>3. /\ DataOffset(package.tables[0], 0) \in Nat /\ package.length \in Nat
        /\ DataOffset(package.tables[0], 0) >= 0 + HeaderSize
    BY <2>2, DataOffsetType DEF IsPackage
  <2> QED
    BY <2>2, <2>3, PackageAssumption DEF PfsHead
<1>2. SoundCard => CardHead
  BY DEF SoundCard, CardHead, PfsHead
<1> QED
  BY <1>1, <1>2

\* The documents are those of the package, and each of them is in its place.
LEMMA XmlsOfPackage ==
  ASSUME IsPackage(package), 0 \in DOMAIN package.tables
  PROVE  /\ Xmls \in Seq(SwitchContainerEntry) /\ Parsed(0) \in Seq(SwitchContainerEntry)
         /\ DOMAIN Parsed(0) = 1..Len(Parsed(0))
         /\ \E pos : ChosenAt(pos, Xmls, Parsed(0), {"cnmt_xml"})
BY ParsedEntries, NamedEntries DEF Xmls

\* What spoils a package: a document that cannot be read, or a second application.
LEMMA SpoiledByDocument ==
  ASSUME IsPackage(package), NEW k \in 1..Len(Xmls), ~IsReadable(k), SoundPackage
  PROVE  FALSE
<1>1. 0 \in DOMAIN package.tables
  BY DEF SoundPackage, Sound
<1>2. PICK pos : ChosenAt(pos, Xmls, Parsed(0), {"cnmt_xml"})
  BY <1>1, XmlsOfPackage
<1>3. /\ pos[k] \in DOMAIN Parsed(0) /\ Xmls[k] = Parsed(0)[pos[k]] /\ Xmls[k].name = "cnmt_xml"
  BY <1>1, <1>2, XmlsOfPackage DEF ChosenAt
<1>4. \A e \in {Parsed(0)[i] : i \in DOMAIN Parsed(0)} : e.name = "cnmt_xml" =>
        /\ e.size <= MaxDocument /\ e.offset \in DOMAIN package.documents
        /\ package.documents[e.offset] \in {"app_1", "app_2", "patch"}
  BY DEF SoundPackage
<1> QED
  BY <1>3, <1>4 DEF IsReadable, Text

\* When all documents have been read: how many applications they describe.
ApplicationPlaces ==
  {i \in DOMAIN Parsed(0) : /\ Parsed(0)[i].name = "cnmt_xml"
                           /\ package.documents[Parsed(0)[i].offset] # "patch"}

LEMMA AllRead ==
  ASSUME IsPackage(package), 0 \in DOMAIN package.tables,
         NEW found \in Seq({"app_1", "app_2"}), DocumentsRead(<<>>, found)
  PROVE  /\ IsFiniteSet(ApplicationPlaces)
         /\ \A i \in DOMAIN Parsed(0) : Parsed(0)[i].name = "cnmt_xml" =>
              LET e == Parsed(0)[i]
              IN /\ e.size <= MaxDocument /\ e.offset \in DOMAIN package.documents
                 /\ package.documents[e.offset] \in {"app_1", "app_2", "patch"}
         /\ Len(found) = 0 => ApplicationPlaces = {}
         /\ Len(found) = 1 =>
              \E i : /\ ApplicationPlaces = {i}
                    /\ package.documents[Parsed(0)[i].offset] = found[1]
         /\ Len(found) >= 2 => \E i, j \in ApplicationPlaces : i # j
<1> DEFINE n == Len(Xmls)
<1>1. PICK pos : ChosenAt(pos, Xmls, Parsed(0), {"cnmt_xml"})
  BY XmlsOfPackage
<1>2. /\ n \in Nat /\ Len(Xmls) - Len(<<>>) = n
      /\ DOMAIN Parsed(0) = 1..Len(Parsed(0)) /\ Len(Parsed(0)) \in Nat
  BY XmlsOfPackage
<1>3. /\ \A k \in 1..n : IsReadable(k)
      /\ Len(found) = 0 => \A k \in 1..n : ~IsApplication(k)
      /\ Len(found) = 1 => \E k \in 1..n : /\ Text(k) = found[1] /\ IsApplication(k)
                                         /\ \A j \in 1..n : IsApplication(j) => j = k
      /\ Len(found) >= 2 => \E j, k \in 1..n : j < k /\ IsApplication(j) /\ IsApplication(k)
  BY <1>2 DEF DocumentsRead, FoundBy
<1>4. /\ \A k \in 1..n : /\ pos[k] \in DOMAIN Parsed(0) /\ Parsed(0)[pos[k]].name = "cnmt_xml"
                         /\ Xmls[k] = Parsed(0)[pos[k]]
      /\ \A j, k \in 1..n : j < k => pos[j] < pos[k]
      /\ \A i \in DOMAIN Parsed(0) : Parsed(0)[i].name = "cnmt_xml" => \E k \in 1..n : pos[k] = i
  BY <1>1, <1>2 DEF ChosenAt
<1> HIDE DEF n
<1>5. IsFiniteSet(ApplicationPlaces)
  <2>1. ApplicationPlaces \in SUBSET Nat /\ \A i \in ApplicationPlaces : i <= Len(Parsed(0))
    BY <1>2 DEF ApplicationPlaces
  <2> QED
    BY <1>2, <2>1, FS_BoundedSetOfNaturals
<1>6. \A k \in 1..n : pos[k] \in ApplicationPlaces <=> IsApplication(k)
  BY <1>4 DEF ApplicationPlaces, IsApplication, Text
<1>7. \A i \in ApplicationPlaces : \E k \in 1..n : pos[k] = i
  BY <1>4 DEF ApplicationPlaces
<1>8. \A i \in DOMAIN Parsed(0) : Parsed(0)[i].name = "cnmt_xml" =>
        /\ Parsed(0)[i].size <= MaxDocument /\ Parsed(0)[i].offset \in DOMAIN package.documents
        /\ package.documents[Parsed(0)[i].offset] \in {"app_1", "app_2", "patch"}
  BY <1>3, <1>4 DEF IsReadable, Text
<1>9. Len(found) = 0 => ApplicationPlaces = {}
  BY <1>3, <1>6, <1>7
<1>10. ASSUME Len(found) = 1
       PROVE  \E i : /\ ApplicationPlaces = {i}
                    /\ package.documents[Parsed(0)[i].offset] = found[1]
  <2>1. PICK k \in 1..n : /\ Text(k) = found[1] /\ IsApplication(k)
                         /\ \A j \in 1..n : IsApplication(j) => j = k
    BY <1>3, <1>10
  <2>2. ApplicationPlaces = {pos[k]}
    BY <1>6, <1>7, <2>1
  <2>3. package.documents[Parsed(0)[pos[k]].offset] = found[1]
    BY <1>4, <2>1 DEF Text
  <2> QED
    BY <2>2, <2>3
<1>11. ASSUME Len(found) >= 2 PROVE \E i, j \in ApplicationPlaces : i # j
  <2>1. PICK j \in 1..n, k \in 1..n : j < k /\ IsApplication(j) /\ IsApplication(k)
    BY <1>3, <1>11
  <2>2. pos[j] < pos[k] /\ pos[j] \in Nat /\ pos[k] \in Nat
    BY <1>2, <1>4, <2>1
  <2> QED
    BY <1>6, <2>1, <2>2
<1> QED
  BY <1>5, <1>8, <1>9, <1>10, <1>11

LEMMA SoundIfAllRead ==
  ASSUME IsPackage(package), 0 \in DOMAIN package.tables, Sound("PFS0", 0, MaxFiles),
         \E i \in DOMAIN Parsed(0) : Parsed(0)[i].name = "cnmt_nca",
         NEW found \in Seq({"app_1", "app_2"}), DocumentsRead(<<>>, found)
  PROVE  SoundPackage <=> Len(found) <= 1
<1>1. /\ 0 \in DOMAIN package.tables /\ Parsed(0) \in Seq(SwitchContainerEntry)
      /\ Sound("PFS0", 0, MaxFiles) /\ \E i \in DOMAIN Parsed(0) : Parsed(0)[i].name = "cnmt_nca"
  BY XmlsOfPackage
<1>2. SoundPackage <=> Cardinality(ApplicationPlaces) <= 1
  <2>1. \A e \in {e \in {Parsed(0)[i] : i \in DOMAIN Parsed(0)} : e.name = "cnmt_xml"} :
          /\ e.size <= MaxDocument /\ e.offset \in DOMAIN package.documents
          /\ package.documents[e.offset] \in {"app_1", "app_2", "patch"}
    BY <1>1, AllRead
  <2> QED
    BY <1>1, <2>1 DEF SoundPackage, ApplicationPlaces
<1>3. Cardinality(ApplicationPlaces) <= 1 <=> \A i, j \in ApplicationPlaces : i = j
  BY <1>1, AllRead, AtMostOne
<1>4. Len(found) \in Nat
  OBVIOUS
<1>5. Len(found) <= 1 <=> \A i, j \in ApplicationPlaces : i = j
  <2>1. /\ Len(found) = 0 => ApplicationPlaces = {}
        /\ Len(found) = 1 => \E i : ApplicationPlaces = {i}
        /\ Len(found) >= 2 => \E i, j \in ApplicationPlaces : i # j
    BY <1>1, AllRead
  <2>2. \A n \in Nat : n = 0 \/ n = 1 \/ n >= 2
    OBVIOUS
  <2>3. ~(Len(found) <= 1) <=> Len(found) >= 2
    BY <1>4
  <2> QED
    BY <1>4, <2>1, <2>2, <2>3
<1> QED
  BY <1>2, <1>3, <1>5

\* A document lies in the package, so it can be read while nobody touches the file.
LEMMA DocumentsLieWithin ==
  ASSUME IsPackage(package), PackageOpen, NEW k \in 1..Len(Xmls)
  PROVE  /\ Xmls[k].offset \in Nat /\ Xmls[k].size \in Nat
         /\ Xmls[k].offset + Xmls[k].size <= package.length
<1> DEFINE t == package.tables[0]
           d == DataOffset(t, 0)
<1>1. 0 \in DOMAIN package.tables /\ package.length \in Nat
  BY DEF PackageOpen, PfsHead, IsPackage
<1>2. PICK pos : ChosenAt(pos, Xmls, Parsed(0), {"cnmt_xml"})
  BY <1>1, XmlsOfPackage
<1>3. /\ DOMAIN t.entries = 1..Len(t.entries) /\ Len(Parsed(0)) = Len(t.entries) /\ d \in Nat
      /\ \A i \in 1..Len(t.entries) :
           /\ t.entries[i] \in SwitchContainerEntry /\ Parsed(0)[i].size = t.entries[i].size
           /\ Parsed(0)[i].offset = d + t.entries[i].offset
  BY <1>1, ParsedEntries, DataOffsetType
<1>4. \A i \in DOMAIN t.entries : t.entries[i].offset + t.entries[i].size <= package.length - d
  BY DEF PackageOpen, Sound
<1> DEFINE e == t.entries[pos[k]]
<1>5. Xmls[k] = Parsed(0)[pos[k]] /\ pos[k] \in 1..Len(t.entries)
  BY <1>2, <1>3 DEF ChosenAt
<1>6. e.offset \in Nat /\ e.size \in Nat
  BY <1>3, <1>5 DEF SwitchContainerEntry
<1> HIDE DEF t, d
<1>7. /\ Xmls[k].size = e.size /\ Xmls[k].offset = d + e.offset
      /\ e.offset + e.size <= package.length - d
  BY <1>3, <1>4, <1>5
<1> HIDE DEF e
<1>8. \A a, b, c, l \in Nat : a + b <= l - c => c + a + b <= l
  OBVIOUS
<1> QED
  BY <1>1, <1>3, <1>6, <1>7, <1>8

\* None has been read at first ...
LEMMA NoneRead ==
  ASSUME IsPackage(package), 0 \in DOMAIN package.tables
  PROVE  DocumentsRead(Xmls, <<>>)
<1>1. Xmls \in Seq(SwitchContainerEntry)
  BY XmlsOfPackage
<1>2. Len(Xmls) - Len(Xmls) = 0 /\ \A k \in 1..Len(Xmls) : Xmls[k] = Xmls[0 + k]
  BY <1>1
<1> QED
  BY <1>2 DEF DocumentsRead, FoundBy

\* ... and then one after the other.
LEMMA HeadIsNext ==
  ASSUME IsPackage(package), 0 \in DOMAIN package.tables,
         NEW left \in Seq(SwitchContainerEntry), left # <<>>, NEW found, DocumentsRead(left, found)
  PROVE  LET n == Len(Xmls) - Len(left)
         IN /\ n \in Nat /\ n + 1 \in 1..Len(Xmls) /\ Head(left) = Xmls[n + 1]
            /\ Len(Xmls) - Len(Tail(left)) = n + 1
            /\ \A k \in 1..Len(Tail(left)) : Tail(left)[k] = Xmls[n + 1 + k]
<1>1. Xmls \in Seq(SwitchContainerEntry) /\ Len(Xmls) \in Nat
  BY XmlsOfPackage
<1>2. /\ Len(left) \in Nat /\ Len(left) >= 1 /\ Head(left) = left[1]
      /\ Len(Tail(left)) = Len(left) - 1 /\ \A k \in 1..Len(left) - 1 : Tail(left)[k] = left[k + 1]
  OBVIOUS
<1> DEFINE n == Len(Xmls) - Len(left)
<1>3. n \in Nat /\ \A k \in 1..Len(left) : left[k] = Xmls[n + k]
  BY DEF DocumentsRead
<1>4. /\ n + 1 \in 1..Len(Xmls) /\ Len(Xmls) - Len(Tail(left)) = n + 1
      /\ \A k \in 1..Len(left) - 1 : k + 1 \in 1..Len(left) /\ n + (k + 1) = n + 1 + k
      /\ 1 \in 1..Len(left)
  BY <1>1, <1>2, <1>3
<1> HIDE DEF n
<1>5. Head(left) = Xmls[n + 1]
  BY <1>2, <1>3, <1>4
<1>6. \A k \in 1..Len(Tail(left)) : Tail(left)[k] = Xmls[n + 1 + k]
  BY <1>2, <1>3, <1>4
<1> QED
  BY <1>3, <1>4, <1>5, <1>6 DEF n

LEMMA OneRead ==
  ASSUME IsPackage(package), 0 \in DOMAIN package.tables,
         NEW left \in Seq(SwitchContainerEntry), left # <<>>,
         NEW found \in Seq({"app_1", "app_2"}), DocumentsRead(left, found),
         NEW text, text = package.documents[Head(left).offset],
         Head(left).size <= MaxDocument, Head(left).offset \in DOMAIN package.documents,
         text \in {"app_1", "app_2", "patch"}
  PROVE  LET all == IF text = "patch" THEN found ELSE Append(found, text)
         IN  all \in Seq({"app_1", "app_2"}) /\ DocumentsRead(Tail(left), all)
<1> DEFINE n == Len(Xmls) - Len(left)
           all == IF text = "patch" THEN found ELSE Append(found, text)
<1>1. /\ n \in Nat /\ n + 1 \in 1..Len(Xmls) /\ Head(left) = Xmls[n + 1]
      /\ Len(Xmls) - Len(Tail(left)) = n + 1
      /\ \A k \in 1..Len(Tail(left)) : Tail(left)[k] = Xmls[n + 1 + k]
  BY HeadIsNext
<1>2. /\ \A k \in 1..n : IsReadable(k)
      /\ Len(found) = 0 => \A k \in 1..n : ~IsApplication(k)
      /\ Len(found) = 1 => \E k \in 1..n : /\ Text(k) = found[1] /\ IsApplication(k)
                                         /\ \A j \in 1..n : IsApplication(j) => j = k
      /\ Len(found) >= 2 => \E j, k \in 1..n : j < k /\ IsApplication(j) /\ IsApplication(k)
  BY DEF DocumentsRead, FoundBy
<1> HIDE DEF n
<1>3. IsReadable(n + 1) /\ Text(n + 1) = text
  BY <1>1 DEF IsReadable, Text
<1>4. /\ \A k \in 1..n + 1 : k \in 1..n \/ k = n + 1
      /\ \A k \in 1..n : k \in 1..n + 1 /\ k < n + 1
      /\ n + 1 \in 1..n + 1
  BY <1>1
<1>5. \A k \in 1..n + 1 : IsReadable(k)
  BY <1>2, <1>3, <1>4
<1>6. ASSUME text = "patch" PROVE FoundBy(n + 1, all) /\ all \in Seq({"app_1", "app_2"})
  <2>1. all = found /\ ~IsApplication(n + 1)
    BY <1>3, <1>6 DEF IsApplication
  <2> HIDE DEF all
  <2>2. Len(found) = 1 => \E k \in 1..n + 1 : /\ Text(k) = found[1] /\ IsApplication(k)
                                            /\ \A j \in 1..n + 1 : IsApplication(j) => j = k
    BY <1>2, <1>4, <2>1
  <2>3. Len(found) >= 2 => \E j, k \in 1..n + 1 : j < k /\ IsApplication(j) /\ IsApplication(k)
    BY <1>2, <1>4
  <2>4. Len(found) = 0 => \A k \in 1..n + 1 : ~IsApplication(k)
    BY <1>2, <1>4, <2>1
  <2> QED
    BY <1>5, <2>1, <2>2, <2>3, <2>4 DEF FoundBy
<1>7. ASSUME text # "patch" PROVE FoundBy(n + 1, all) /\ all \in Seq({"app_1", "app_2"})
  <2>1. /\ all = Append(found, text) /\ IsApplication(n + 1) /\ all \in Seq({"app_1", "app_2"})
        /\ Len(all) = Len(found) + 1 /\ Len(found) \in Nat /\ (Len(found) = 0 => all[1] = text)
    BY <1>3, <1>7 DEF IsApplication
  <2> HIDE DEF all
  <2>2. ASSUME Len(found) = 0
        PROVE  \E k \in 1..n + 1 : /\ Text(k) = all[1] /\ IsApplication(k)
                                  /\ \A j \in 1..n + 1 : IsApplication(j) => j = k
    BY <1>2, <1>3, <1>4, <2>1, <2>2
  <2>3. ASSUME Len(found) # 0
        PROVE  \E j, k \in 1..n + 1 : j < k /\ IsApplication(j) /\ IsApplication(k)
    <3>1. \E j \in 1..n : IsApplication(j)
      <4>1. CASE Len(found) = 1
        BY <1>2, <4>1
      <4>2. CASE Len(found) >= 2
        BY <1>2, <4>2
      <4>3. Len(found) = 1 \/ Len(found) >= 2
        <5>1. Len(found) \in Nat
          OBVIOUS
        <5>2. \A m \in Nat : m # 0 => m = 1 \/ m >= 2
          OBVIOUS
        <5> QED
          BY <2>3, <5>1, <5>2
      <4> QED
        BY <4>1, <4>2, <4>3
    <3> QED
      BY <1>4, <2>1, <3>1
  <2>4. /\ Len(all) = 0 => FALSE
        /\ Len(all) = 1 => Len(found) = 0
        /\ Len(all) >= 2 => Len(found) # 0
    BY <2>1
  <2> QED
    BY <1>5, <2>1, <2>2, <2>3, <2>4 DEF FoundBy
<1> HIDE DEF all
<1>8. n + 1 \in Nat
  BY <1>1
<1> QED
  BY <1>1, <1>6, <1>7, <1>8 DEF DocumentsRead, all

-----------------------------------------------------------------------------
LEMMA InitPackage == PackageInit => PackageInv
<1> SUFFICES ASSUME PackageInit PROVE PackageInv
  OBVIOUS
<1>1. PackageTypes
  BY PackageAssumption DEF PackageInit, PackageStart, PackageTypes, PackageTypeOK, Parts, Reports
<1>2. StageInv
  BY DEF PackageInit, PackageStart, StageInv
<1> QED
  BY <1>1, <1>2 DEF PackageInv

\* Where a step goes on or ends, the rest of the types stands.
LEMMA PrefixInv == ASSUME PackageInv, ReadPrefix PROVE PackageInv'
<1>1. PackageTypes'
  BY DEF PackageInv, PackageTypes, PackageTypeOK, ReadPrefix, EndWith, Parts, Reports
<1>2. ASSUME untouched' PROVE StageInv'
  <2>1. package' = package /\ untouched
    BY <1>2 DEF ReadPrefix
  <2>2. IsPackage(package) /\ PfsHead' = PfsHead /\ SoundPackage' = SoundPackage
        /\ SoundCard' = SoundCard /\ measured = -1 /\ report = "none"
    BY <2>1, SamePackage DEF PackageInv, PackageTypes, PackageTypeOK, ReadPrefix
  <2>3. CASE package.regular
    BY <2>1, <2>2, <2>3 DEF ReadPrefix, StageInv, PfsHead
  <2>4. CASE ~package.regular
    BY <2>1, <2>2, <2>4 DEF ReadPrefix, EndWith, StageInv
  <2> QED
    BY <2>3, <2>4
<1> QED
  BY <1>1, <1>2 DEF PackageInv

\* A size that is taken anew changes nothing of what has been found out.
LEMMA MeasureInv == ASSUME PackageInv, Measure PROVE PackageInv'
<1>1. PackageTypes'
  BY DEF PackageInv, PackageTypes, PackageTypeOK, Measure, EndWith, Parts, Reports, IsPackage
<1>2. ASSUME untouched' PROVE StageInv'
  <2>1. /\ package' = package /\ untouched /\ StageInv /\ IsPackage(package)
        /\ UNCHANGED <<at, listing, todo, applications>> /\ part \notin {"prefix", "done"}
        /\ report = "none" /\ package.regular
    BY <1>2 DEF PackageInv, PackageTypes, PackageTypeOK, Measure, StageInv
  <2>2. CASE UNCHANGED <<part, report>> /\ measured' = package.length
    <3>1. PackageOpen' = PackageOpen /\ SecureFound' = SecureFound
          /\ DocumentsRead(todo, applications)' = DocumentsRead(todo, applications)
          /\ PfsHead' = PfsHead /\ CardHead' = CardHead
      <4>1. DocumentsRead(todo, applications)' = DocumentsRead(todo, applications)
        BY <2>1, SamePackage DEF DocumentsRead, FoundBy, IsApplication
      <4>2. HasContent(Parsed(0))' = HasContent(Parsed(0))
        BY <2>1, SamePackage DEF HasContent, EntriesNamed
      <4>3. PackageOpen' = PackageOpen
        BY <2>1, <4>2, SamePackage DEF PackageOpen
      <4>4. SecureFound' = SecureFound
        BY <2>1, SamePackage DEF SecureFound
      <4> QED
        BY <2>1, <4>1, <4>3, <4>4, SamePackage
    <3> QED
      BY <2>1, <2>2, <3>1 DEF StageInv
  <2>3. CASE part = "document" /\ ~(Head(todo).size <= MaxDocument) /\ EndWith("format_error")
    <3>1. PackageOpen /\ DocumentsRead(todo, applications) /\ todo # <<>>
          /\ todo \in Seq(SwitchContainerEntry) /\ 0 \in DOMAIN package.tables
      BY <2>1, <2>3 DEF StageInv, PackageInv, PackageTypes, PackageTypeOK, PackageOpen, PfsHead
    <3>2. PICK k \in 1..Len(Xmls) : Head(todo) = Xmls[k]
      BY <2>1, <3>1, HeadIsNext
    <3>3. ~SoundPackage /\ ~SoundCard
      BY <2>1, <2>3, <3>1, <3>2, SpoiledByDocument, HeadsDiffer DEF IsReadable, PackageOpen, CardHead
    <3> QED
      BY <2>1, <2>3, <3>3, SamePackage DEF EndWith, StageInv
  <2> QED
    BY <2>1, <2>2, <2>3 DEF Measure
<1> QED
  BY <1>1, <1>2 DEF PackageInv

LEMMA ReadPackageInv == ASSUME PackageInv, ReadPackage PROVE PackageInv'
<1> DEFINE passed == Parses("PFS0", 0, MaxFiles) /\ HasContent(Parsed(0))
<1>1. /\ PackageTypes /\ IsPackage(package) /\ package' = package /\ untouched' = untouched
      /\ part = "package" /\ measured # -1 /\ report = "none" /\ applications = <<>>
      /\ UNCHANGED <<at, applications>>
  BY DEF PackageInv, PackageTypes, PackageTypeOK, ReadPackage, Reading
<1>2. CASE passed
  <2>1. /\ listing' = Parsed(0) /\ todo' = Xmls
        /\ IF todo' = <<>> THEN EndWith("package")
           ELSE part' = "document" /\ measured' = -1 /\ report' = report
    BY <1>1, <1>2 DEF ReadPackage, Xmls
  <2>2. /\ 0 \in DOMAIN package.tables /\ Parsed(0) \in Seq(SwitchContainerEntry)
        /\ Xmls \in Seq(SwitchContainerEntry)
    BY <1>1, <1>2, XmlsOfPackage DEF Parses
  <2>3. PackageTypes'
    BY <1>1, <2>1, <2>2 DEF PackageTypes, PackageTypeOK, EndWith, Parts, Reports
  <2>4. ASSUME untouched' PROVE StageInv'
    <3>1. StageInv /\ measured = package.length /\ PfsHead /\ package.regular
      BY <1>1, <2>4 DEF PackageInv, StageInv
    <3>2. Sound("PFS0", 0, MaxFiles)
      BY <1>1, <1>2, <3>1, ParsesIfSound
    <3>3. PackageOpen' /\ DocumentsRead(todo, applications)'
      <4>1. DocumentsRead(Xmls, <<>>)
        BY <1>1, <2>2, NoneRead
      <4>2. DocumentsRead(todo, applications)' = DocumentsRead(Xmls, <<>>)
        BY <1>1, <2>1, SamePackage DEF DocumentsRead, FoundBy, IsApplication
      <4>3. HasContent(Parsed(0))'
        BY <1>1, <1>2, SamePackage DEF HasContent, EntriesNamed
      <4> QED
        BY <1>1, <2>1, <3>1, <3>2, <4>1, <4>2, <4>3, SamePackage DEF PackageOpen
    <3>4. CASE Xmls # <<>>
      BY <1>1, <2>1, <3>1, <3>3, <3>4 DEF StageInv
    <3>5. CASE Xmls = <<>>
      <4>1. SoundPackage'
        <5>1. DocumentsRead(<<>>, <<>>) /\ Len(<<>>) <= 1 /\ <<>> \in Seq({"app_1", "app_2"})
          BY <1>1, <2>2, <3>5, NoneRead
        <5>2. Sound("PFS0", 0, MaxFiles) /\ \E i \in DOMAIN Parsed(0) : Parsed(0)[i].name = "cnmt_nca"
          BY <1>2, <2>2, <3>2, ContentEntries
        <5>3. SoundPackage
          BY <1>1, <2>2, <5>1, <5>2, SoundIfAllRead
        <5> QED
          BY <1>1, <5>3, SamePackage
      <4> QED
        BY <1>1, <2>1, <3>1, <3>3, <3>5, <4>1 DEF StageInv, EndWith
    <3> QED
      BY <3>4, <3>5
  <2> QED
    BY <2>3, <2>4 DEF PackageInv
<1>3. CASE ~passed
  <2>1. EndWith("format_error") /\ UNCHANGED <<listing, todo>>
    BY <1>3 DEF ReadPackage
  <2>2. PackageTypes'
    BY <1>1, <2>1 DEF PackageTypes, PackageTypeOK, EndWith, Parts, Reports
  <2>3. ASSUME untouched' PROVE StageInv'
    <3>1. StageInv /\ measured = package.length /\ PfsHead
      BY <1>1, <2>3 DEF PackageInv, StageInv
    <3>2. ~SoundPackage
      <4> SUFFICES ASSUME SoundPackage PROVE FALSE
        OBVIOUS
      <4>1. /\ Sound("PFS0", 0, MaxFiles) /\ 0 \in DOMAIN package.tables
            /\ \E i \in DOMAIN Parsed(0) : Parsed(0)[i].name = "cnmt_nca"
        BY DEF SoundPackage, Sound
      <4> QED
        BY <1>1, <1>3, <3>1, <4>1, ParsesIfSound, ContentEntries, XmlsOfPackage
    <3> QED
      BY <1>1, <2>1, <3>1, <3>2, HeadsDiffer, SamePackage DEF CardHead, StageInv, EndWith
  <2> QED
    BY <2>2, <2>3 DEF PackageInv
<1> QED
  BY <1>2, <1>3

LEMMA ReadDocumentInv == ASSUME PackageInv, ReadDocument PROVE PackageInv'
<1> DEFINE e == Head(todo)
           text == IF e.offset \in DOMAIN package.documents THEN package.documents[e.offset]
                                                             ELSE "malformed"
           all == IF text = "patch" THEN applications ELSE Append(applications, text)
<1>1. /\ PackageTypes /\ IsPackage(package) /\ package' = package /\ untouched' = untouched
      /\ part = "document" /\ measured # -1 /\ report = "none" /\ UNCHANGED <<at, listing>>
      /\ todo \in Seq(SwitchContainerEntry) /\ todo # <<>>
      /\ Head(todo).size <= MaxDocument /\ applications \in Seq({"app_1", "app_2"})
  BY DEF PackageInv, PackageTypes, PackageTypeOK, ReadDocument, Reading
<1>2. text \in Documents \cup {"malformed"}
  BY <1>1 DEF IsPackage
<1>3. CASE EndWith("uncaught") /\ UNCHANGED <<todo, applications>>
  <2>1. PackageTypes'
    BY <1>1, <1>3 DEF PackageTypes, PackageTypeOK, EndWith, Parts, Reports
  <2>2. untouched' => StageInv'
    BY <1>1, <1>3 DEF StageInv, EndWith
  <2> QED
    BY <2>1, <2>2 DEF PackageInv
<1>4. CASE /\ ~Exact(e.offset, e.size) \/ text = "malformed"
           /\ EndWith("format_error") /\ UNCHANGED <<todo, applications>>
  <2>1. PackageTypes'
    BY <1>1, <1>4 DEF PackageTypes, PackageTypeOK, EndWith, Parts, Reports
  <2>2. ASSUME untouched' PROVE StageInv'
    <3>1. /\ StageInv /\ measured = package.length /\ PackageOpen
          /\ DocumentsRead(todo, applications) /\ 0 \in DOMAIN package.tables
      BY <1>1, <2>2 DEF PackageInv, StageInv, PackageOpen, PfsHead
    <3>2. PICK k \in 1..Len(Xmls) : e = Xmls[k]
      BY <1>1, <3>1, HeadIsNext
    <3>3. Exact(e.offset, e.size)
      <4>1. e.offset + e.size <= package.length
        BY <1>1, <3>1, <3>2, DocumentsLieWithin
      <4> QED
        BY <3>1, <4>1 DEF Exact
    <3>4. ~IsReadable(k)
      BY <1>4, <3>2, <3>3 DEF IsReadable, Text
    <3>5. ~SoundPackage /\ ~SoundCard
      BY <1>1, <3>1, <3>4, SpoiledByDocument, HeadsDiffer DEF PackageOpen, CardHead
    <3> QED
      BY <1>1, <1>4, <3>5, SamePackage DEF EndWith, StageInv
  <2> QED
    BY <2>1, <2>2 DEF PackageInv
<1>5. CASE /\ text \in {"app_1", "app_2", "patch"} /\ todo' = Tail(todo) /\ applications' = all
           /\ IF todo' = <<>> THEN EndWith(Concluded(applications'))
              ELSE measured' = -1 /\ UNCHANGED <<part, report>>
  <2>1. all \in Seq({"app_1", "app_2"}) /\ Tail(todo) \in Seq(SwitchContainerEntry)
    BY <1>1, <1>5
  <2> HIDE DEF all
  <2>2. PackageTypes'
    BY <1>1, <1>5, <2>1 DEF PackageTypes, PackageTypeOK, EndWith, Concluded, Parts, Reports
  <2>3. ASSUME untouched' PROVE StageInv'
    <3>1. /\ StageInv /\ measured = package.length /\ PackageOpen /\ package.regular
          /\ DocumentsRead(todo, applications) /\ 0 \in DOMAIN package.tables
      BY <1>1, <2>3 DEF PackageInv, StageInv, PackageOpen, PfsHead
    <3>2. e.size <= MaxDocument /\ e.offset \in DOMAIN package.documents
      BY <1>1, <1>5
    <3>3. DocumentsRead(Tail(todo), all)
      BY <1>1, <1>5, <3>1, <3>2, OneRead DEF all
    <3>4. DocumentsRead(todo, applications)'
      <4>1. DocumentsRead(todo, applications)' = DocumentsRead(Tail(todo), all)
        BY <1>1, <1>5, SamePackage DEF DocumentsRead, FoundBy, IsApplication
      <4> QED
        BY <3>3, <4>1
    <3>5. PackageOpen'
      <4>1. HasContent(Parsed(0))' = HasContent(Parsed(0))
        BY <1>1, SamePackage DEF HasContent, EntriesNamed
      <4> QED
        BY <1>1, <3>1, <4>1, SamePackage DEF PackageOpen
    <3>6. CASE Tail(todo) # <<>>
      BY <1>1, <1>5, <3>1, <3>4, <3>5, <3>6 DEF StageInv
    <3>7. CASE Tail(todo) = <<>>
      <4>1. Sound("PFS0", 0, MaxFiles) /\ \E i \in DOMAIN Parsed(0) : Parsed(0)[i].name = "cnmt_nca"
        BY <1>1, <3>1, XmlsOfPackage, ContentEntries DEF PackageOpen
      <4>2. SoundPackage <=> Len(all) <= 1
        BY <1>1, <2>1, <3>1, <3>3, <3>7, <4>1, SoundIfAllRead
      <4>3. SoundPackage' <=> Len(all) <= 1
        BY <1>1, <4>2, SamePackage
      <4>4. SoundCard' = FALSE
        BY <1>1, <3>1, HeadsDiffer, SamePackage DEF PackageOpen, CardHead
      <4>5. Len(all) \in Nat /\ EndWith(IF Len(all) > 1 THEN "format_error" ELSE "package")
        BY <1>5, <2>1, <3>7 DEF Concluded
      <4>6. CASE Len(all) <= 1
        <5>1. DocumentsRead(<<>>, applications)'
          <6>1. DocumentsRead(<<>>, applications)' = DocumentsRead(<<>>, all)
            BY <1>1, <1>5, SamePackage DEF DocumentsRead, FoundBy, IsApplication
          <6> QED
            BY <3>3, <3>7, <6>1
        <5>2. part' = "done" /\ report' = "package" /\ measured' = -1
          BY <4>5, <4>6 DEF EndWith
        <5> QED
          BY <1>1, <3>1, <3>5, <4>3, <4>6, <5>1, <5>2 DEF StageInv
      <4>7. CASE Len(all) > 1
        BY <1>1, <3>1, <4>3, <4>4, <4>5, <4>7 DEF StageInv, EndWith
      <4> QED
        BY <4>5, <4>6, <4>7
    <3> QED
      BY <3>6, <3>7
  <2> QED
    BY <2>2, <2>3 DEF PackageInv
<1> QED
  BY <1>2, <1>3, <1>4, <1>5 DEF ReadDocument, Documents

LEMMA ReadCardInv == ASSUME PackageInv, ReadCard PROVE PackageInv'
<1>1. /\ PackageTypes /\ IsPackage(package) /\ package' = package /\ untouched' = untouched
      /\ part = "card" /\ measured # -1 /\ report = "none"
      /\ UNCHANGED <<listing, todo, applications>>
      /\ package.root \in Nat /\ package.length \in Nat
  BY DEF PackageInv, PackageTypes, PackageTypeOK, ReadCard, Reading, IsPackage
<1>2. PackageTypes'
  BY <1>1 DEF PackageTypes, PackageTypeOK, ReadCard, EndWith, Parts, Reports
<1>3. ASSUME untouched' PROVE StageInv'
  <2>1. StageInv /\ measured = package.length /\ ~PfsHead /\ package.regular
    BY <1>1, <1>3 DEF PackageInv, StageInv
  <2>2. CardHead <=> /\ Exact(0, CardHeaderSize) /\ package.head
                     /\ package.root >= CardHeaderSize /\ package.root % CardHeaderSize = 0
    <3>1. \A r \in Nat, c \in Nat \ {0} : r % c = 0 => (r > 0 <=> r >= c)
      BY Z3
    <3>2. Exact(0, CardHeaderSize) <=> CardHeaderSize <= package.length
      BY <1>1, <2>1, PackageAssumption DEF Exact
    <3> QED
      BY <1>1, <2>1, <3>1, <3>2, PackageAssumption DEF CardHead
  <2>3. CASE CardHead
    BY <1>1, <2>1, <2>2, <2>3, SamePackage DEF ReadCard, StageInv
  <2>4. CASE ~CardHead
    BY <1>1, <2>1, <2>2, <2>4, SamePackage, HeadsDiffer DEF ReadCard, StageInv, EndWith
  <2> QED
    BY <2>3, <2>4
<1> QED
  BY <1>2, <1>3 DEF PackageInv

LEMMA ReadRootInv == ASSUME PackageInv, ReadRoot PROVE PackageInv'
<1> DEFINE secure == EntriesNamed(Parsed(at), SecureNames)
<1>1. /\ PackageTypes /\ IsPackage(package) /\ package' = package /\ untouched' = untouched
      /\ part = "root" /\ measured # -1 /\ report = "none" /\ at \in Nat
      /\ UNCHANGED <<listing, todo, applications>>
  BY DEF PackageInv, PackageTypes, PackageTypeOK, ReadRoot, Reading
<1>2. CASE Parses("HFS0", at, MaxRootFiles) /\ Len(secure) = 1
  <2>1. /\ Parsed(at) \in Seq(SwitchContainerEntry) /\ secure \in Seq(SwitchContainerEntry)
        /\ DOMAIN Parsed(at) = 1..Len(Parsed(at))
    BY <1>1, <1>2, ParsedEntries, NamedEntries DEF Parses
  <2>2. PICK pos : ChosenAt(pos, secure, Parsed(at), SecureNames)
    BY <2>1, NamedEntries
  <2> HIDE DEF secure
  <2>3. /\ part' = "secure" /\ at' = secure[1].offset /\ measured' = -1 /\ report' = report
        /\ secure[1] \in SwitchContainerEntry /\ secure[1].offset \in Nat
    <3>1. Len(secure) = 1
      BY <1>2 DEF secure
    <3>2. secure[1] \in SwitchContainerEntry
      BY <2>1, <3>1
    <3>3. part' = "secure" /\ at' = secure[1].offset /\ measured' = -1 /\ report' = report
      BY <1>2 DEF ReadRoot, secure
    <3> QED
      BY <3>2, <3>3 DEF SwitchContainerEntry
  <2>4. PackageTypes'
    BY <1>1, <2>3 DEF PackageTypes, PackageTypeOK, Parts, Reports
  <2>5. ASSUME untouched' PROVE StageInv'
    <3>1. /\ StageInv /\ measured = package.length /\ CardHead /\ package.regular
          /\ at = package.root /\ ~PfsHead
      BY <1>1, <2>5 DEF PackageInv, StageInv
    <3>2. Sound("HFS0", package.root, MaxRootFiles)
      BY <1>1, <1>2, <3>1, ParsesIfSound
    <3>3. IsSecure(pos[1]) /\ secure[1].offset = Parsed(package.root)[pos[1]].offset
      BY <1>2, <2>1, <2>2, <3>1 DEF IsSecure, ChosenAt
    <3>4. SecureFound'
      BY <1>1, <2>3, <3>2, <3>3, SamePackage DEF SecureFound
    <3> QED
      BY <1>1, <2>3, <3>1, <3>4, SamePackage DEF StageInv
  <2> QED
    BY <2>4, <2>5 DEF PackageInv
<1>3. CASE ~(Parses("HFS0", at, MaxRootFiles) /\ Len(secure) = 1)
  <2>1. EndWith("format_error") /\ at' = at
    BY <1>3 DEF ReadRoot
  <2>2. PackageTypes'
    BY <1>1, <2>1 DEF PackageTypes, PackageTypeOK, EndWith, Parts, Reports
  <2>3. ASSUME untouched' PROVE StageInv'
    <3>1. StageInv /\ measured = package.length /\ at = package.root /\ ~PfsHead
      BY <1>1, <2>3 DEF PackageInv, StageInv
    <3>2. ~SoundCard
      <4> SUFFICES ASSUME SoundCard PROVE FALSE
        OBVIOUS
      <4>1. Sound("HFS0", package.root, MaxRootFiles) /\ package.root \in DOMAIN package.tables
        BY DEF SoundCard, Sound
      <4>2. PICK i : IsSecure(i)
        BY DEF SoundCard, IsSecure, SecureNames
      <4>3. /\ Parsed(at) \in Seq(SwitchContainerEntry) /\ secure \in Seq(SwitchContainerEntry)
            /\ DOMAIN Parsed(at) = 1..Len(Parsed(at))
        BY <1>1, <3>1, <4>1, ParsedEntries, NamedEntries
      <4>4. PICK pos : ChosenAt(pos, secure, Parsed(at), SecureNames)
        BY <4>3, NamedEntries
      <4>5. Parses("HFS0", at, MaxRootFiles)
        BY <1>1, <3>1, <4>1, ParsesIfSound
      <4> HIDE DEF secure
      <4>6. \A k \in 1..Len(secure) : pos[k] = i
        BY <3>1, <4>2, <4>3, <4>4 DEF ChosenAt, IsSecure
      <4>7. \E k \in 1..Len(secure) : pos[k] = i
        BY <3>1, <4>2, <4>3, <4>4 DEF ChosenAt, IsSecure
      <4>8. i \in Nat /\ Len(secure) \in Nat
        BY <3>1, <4>2, <4>3 DEF IsSecure
      <4>9. Len(secure) = 1
        <5>1. \A j, k \in 1..Len(secure) : ~(j < k)
          BY <4>4, <4>6, <4>8 DEF ChosenAt
        <5>2. Len(secure) >= 1
          BY <4>7, <4>8
        <5>3. CASE Len(secure) >= 2
          <6>1. 1 \in 1..Len(secure) /\ 2 \in 1..Len(secure) /\ 1 < 2
            BY <4>8, <5>3
          <6> QED
            BY <5>1, <6>1
        <5>4. \A m \in Nat : m >= 1 => m = 1 \/ m >= 2
          OBVIOUS
        <5> QED
          BY <4>8, <5>2, <5>3, <5>4
      <4> QED
        BY <1>3, <4>5, <4>9
    <3> QED
      BY <1>1, <2>1, <3>1, <3>2, HeadsDiffer, SamePackage DEF StageInv, EndWith
  <2> QED
    BY <2>2, <2>3 DEF PackageInv
<1> QED
  BY <1>2, <1>3

LEMMA ReadSecureInv == ASSUME PackageInv, ReadSecure PROVE PackageInv'
<1>1. /\ PackageTypes /\ IsPackage(package) /\ package' = package /\ untouched' = untouched
      /\ part = "secure" /\ measured # -1 /\ report = "none" /\ at \in Nat
      /\ UNCHANGED <<at, todo, applications>> /\ applications = <<>>
  BY DEF PackageInv, PackageTypes, PackageTypeOK, ReadSecure, Reading
<1> DEFINE passed == Parses("HFS0", at, MaxFiles) /\ HasContent(Parsed(at))
<1>2. ASSUME at \in DOMAIN package.tables
      PROVE  /\ Parsed(at) \in Seq(SwitchContainerEntry)
             /\ HasContent(Parsed(at)) <=> \E j \in DOMAIN Parsed(at) : Parsed(at)[j].name = "cnmt_nca"
  BY <1>1, <1>2, ParsedEntries, ContentEntries
<1>3. CASE passed
  <2>1. listing' = Parsed(at) /\ EndWith("card") /\ at \in DOMAIN package.tables
    BY <1>3 DEF ReadSecure, Parses
  <2>2. PackageTypes'
    BY <1>1, <1>2, <2>1 DEF PackageTypes, PackageTypeOK, EndWith, Parts, Reports
  <2>3. ASSUME untouched' PROVE StageInv'
    <3>1. /\ StageInv /\ measured = package.length /\ CardHead /\ SecureFound /\ package.regular
      BY <1>1, <2>3 DEF PackageInv, StageInv
    <3>2. PICK i : IsSecure(i) /\ at = Parsed(package.root)[i].offset
      BY <3>1 DEF SecureFound
    <3>3. Sound("HFS0", at, MaxFiles) /\ \E j \in DOMAIN Parsed(at) : Parsed(at)[j].name = "cnmt_nca"
      BY <1>1, <1>2, <1>3, <2>1, <3>1, ParsesIfSound
    <3>4. SoundCard
      BY <3>1, <3>2, <3>3 DEF SoundCard, SecureFound, CardHead, PfsHead, IsSecure, SecureNames
    <3> QED
      BY <1>1, <2>1, <3>1, <3>4, SamePackage DEF StageInv, EndWith
  <2> QED
    BY <2>2, <2>3 DEF PackageInv
<1>4. CASE ~passed
  <2>1. EndWith("format_error") /\ listing' = listing
    BY <1>4 DEF ReadSecure
  <2>2. PackageTypes'
    BY <1>1, <2>1 DEF PackageTypes, PackageTypeOK, EndWith, Parts, Reports
  <2>3. ASSUME untouched' PROVE StageInv'
    <3>1. StageInv /\ measured = package.length /\ CardHead /\ SecureFound
      BY <1>1, <2>3 DEF PackageInv, StageInv
    <3>2. PICK i : IsSecure(i) /\ at = Parsed(package.root)[i].offset
      BY <3>1 DEF SecureFound
    <3>3. ~SoundCard
      <4> SUFFICES ASSUME SoundCard PROVE FALSE
        OBVIOUS
      <4>1. PICK k \in DOMAIN Parsed(package.root) :
              /\ Parsed(package.root)[k].name \in SecureNames
              /\ Sound("HFS0", Parsed(package.root)[k].offset, MaxFiles)
              /\ \E j \in DOMAIN Parsed(Parsed(package.root)[k].offset) :
                   Parsed(Parsed(package.root)[k].offset)[j].name = "cnmt_nca"
        BY DEF SoundCard, SecureNames
      <4>2. k = i
        BY <3>2, <4>1 DEF IsSecure
      <4>3. Sound("HFS0", at, MaxFiles) /\ \E j \in DOMAIN Parsed(at) : Parsed(at)[j].name = "cnmt_nca"
        BY <3>2, <4>1, <4>2
      <4>4. at \in DOMAIN package.tables
        BY <4>3 DEF Sound
      <4> QED
        BY <1>1, <1>2, <1>4, <3>1, <4>3, <4>4, ParsesIfSound
    <3>4. ~SoundPackage
      BY <1>1, <3>1, HeadsDiffer DEF CardHead
    <3> QED
      BY <1>1, <2>1, <3>1, <3>3, <3>4, SamePackage DEF StageInv, EndWith
  <2> QED
    BY <2>2, <2>3 DEF PackageInv
<1> QED
  BY <1>3, <1>4

LEMMA NextPackage == PackageInv /\ [PackageNext]_packageVars => PackageInv'
<1> SUFFICES ASSUME PackageInv, [PackageNext]_packageVars PROVE PackageInv'
  OBVIOUS
<1>1. CASE PackageStep
  BY <1>1, PrefixInv, MeasureInv, ReadPackageInv, ReadDocumentInv, ReadCardInv, ReadRootInv,
     ReadSecureInv DEF PackageStep
<1>2. CASE Disturb
  <2>1. IsPackage(package')
    <3>1. CASE package' \in OtherPackages
      BY <3>1, PackageAssumption
    <3>2. ASSUME NEW n \in 0..package.length, package' = [package EXCEPT !.length = n]
          PROVE  IsPackage(package')
      BY <3>2 DEF PackageInv, PackageTypes, PackageTypeOK, IsPackage
    <3> QED
      BY <1>2, <3>1, <3>2 DEF Disturb
  <2> QED
    BY <1>2, <2>1 DEF Disturb, PackageInv, PackageTypes, PackageTypeOK
<1>3. CASE UNCHANGED packageVars
  <2>1. PackageTypes' = PackageTypes
    BY <1>3 DEF packageVars, PackageTypes, PackageTypeOK
  <2>2. StageInv' = StageInv
    BY <1>3 DEF packageVars, StageInv, PackageOpen, SecureFound, DocumentsRead, FoundBy,
      IsApplication, IsReadable, Text, Xmls, CardHead, PfsHead, IsSecure, SoundPackage, SoundCard,
      Sound, Parsed, HasContent, EntriesNamed, DataOffset
  <2> QED
    BY <1>3, <2>1, <2>2 DEF packageVars, PackageInv
<1> QED
  BY <1>1, <1>2, <1>3 DEF PackageNext

LEMMA TypeFollows == PackageInv => PackageTypeOK
BY DEF PackageInv, PackageTypes

LEMMA SoundnessFollows == PackageInv => ReportedExactlyIfSound
BY DEF PackageInv, PackageTypes, PackageTypeOK, StageInv, ReportedExactlyIfSound, Detected, Reports

LEMMA UniquenessFollows == PackageInv => ApplicationIsUnique
<1> SUFFICES ASSUME PackageInv, Detected = "evidence" PROVE ApplicationIsUnique
  BY DEF ApplicationIsUnique
<1>1. /\ report \in {"package", "card"} /\ IsPackage(package)
      /\ applications \in Seq({"app_1", "app_2"})
  BY DEF Detected, PackageInv, PackageTypes, PackageTypeOK, Reports
<1>2. Len(applications) <= 1 /\ Len(applications) \in Nat
  BY <1>1 DEF PackageInv, PackageTypes
<1>3. ASSUME untouched, report = "package"
      PROVE  LET described == {i \in DOMAIN listing :
                   /\ listing[i].name = "cnmt_xml"
                   /\ package.documents[listing[i].offset] \in {"app_1", "app_2"}}
             IN /\ Cardinality(described) = Len(applications)
                /\ Described = {package.documents[listing[i].offset] : i \in described}
  <2> DEFINE described == {i \in DOMAIN listing :
                   /\ listing[i].name = "cnmt_xml"
                   /\ package.documents[listing[i].offset] \in {"app_1", "app_2"}}
  <2>1. /\ 0 \in DOMAIN package.tables /\ listing = Parsed(0)
        /\ DocumentsRead(<<>>, applications)
    BY <1>3 DEF PackageInv, StageInv, PackageOpen, PfsHead
  <2>2. described = ApplicationPlaces
    <3>1. \A i \in DOMAIN Parsed(0) : Parsed(0)[i].name = "cnmt_xml" =>
            package.documents[Parsed(0)[i].offset] \in {"app_1", "app_2", "patch"}
      BY <1>1, <2>1, AllRead
    <3> QED
      BY <2>1, <3>1 DEF ApplicationPlaces
  <2>3. Described = {applications[i] : i \in DOMAIN applications}
    BY <1>3 DEF Described
  <2> HIDE DEF described
  <2>4. /\ Cardinality(ApplicationPlaces) = Len(applications)
        /\ Described = {package.documents[Parsed(0)[i].offset] : i \in ApplicationPlaces}
    <3>1. CASE Len(applications) = 0
      <4>1. ApplicationPlaces = {}
        BY <1>1, <2>1, <3>1, AllRead
      <4>2. Described = {}
        BY <1>1, <2>3, <3>1
      <4> QED
        BY <3>1, <4>1, <4>2, FS_EmptySet
    <3>2. CASE Len(applications) = 1
      <4>1. PICK i : /\ ApplicationPlaces = {i}
                     /\ package.documents[Parsed(0)[i].offset] = applications[1]
        BY <1>1, <2>1, <3>2, AllRead
      <4>2. Described = {applications[1]}
        BY <1>1, <2>3, <3>2
      <4>3. Cardinality({i}) = 1
        BY FS_Singleton
      <4> QED
        BY <3>2, <4>1, <4>2, <4>3
    <3>3. \A m \in Nat : m <= 1 => m = 0 \/ m = 1
      OBVIOUS
    <3> QED
      BY <1>2, <3>1, <3>2, <3>3
  <2> QED
    BY <2>1, <2>2, <2>4 DEF described
<1> QED
  BY <1>2, <1>3 DEF ApplicationIsUnique

\* What is said of a file that nobody touches is that it is a Switch file, exactly if it is
\* one: for any packages and game cards and any limits.
THEOREM ReportedIfSound == PackageSpec => []ReportedExactlyIfSound
BY InitPackage, NextPackage, SoundnessFollows, PTL DEF PackageSpec

\* A package is described with the only application that its documents describe.
THEOREM ApplicationUnique == PackageSpec => []ApplicationIsUnique
BY InitPackage, NextPackage, UniquenessFollows, PTL DEF PackageSpec

-----------------------------------------------------------------------------
(***************************************************************************)
(* The types of what every part keeps, for what no invariant above has said. *)
(***************************************************************************)
\* The rest of the types of the reader: what a walk leaves behind keeps its types when
\* the walk is over.
WalkTypes ==
  /\ step \in Steps /\ depth \in Nat /\ got \in Nat /\ extent.directory \in BOOLEAN
  /\ IsTable(table) /\ seen \subseteq DOMAIN table
  /\ entries \in Seq(DOMAIN table) /\ pending \in Calls

LEMMA OpenTypes == ASSUME DataInv, WalkTypes, Open PROVE WalkTypes'
<1>1. UNCHANGED <<depth, table, pending, seen, entries, got>>
  BY DEF Open
<1>2. step' \in Steps
  BY DEF Open, Fail, Steps
<1>3. \/ extent' = extent
      \/ extent' = [directory |-> TRUE, sector |-> image.partitions[First(Descriptors)].sector,
                    size |-> image.partitions[First(Descriptors)].size]
  BY DEF Open
<1>4. extent'.directory \in BOOLEAN
  <2> DEFINE root == image.partitions[First(Descriptors)]
  <2>1. CASE extent' = [directory |-> TRUE, sector |-> root.sector, size |-> root.size]
    <3> HIDE DEF root
    <3>1. extent'.directory = TRUE
      BY <2>1
    <3> QED
      BY <3>1
  <2>2. CASE extent' = extent
    BY <2>2 DEF WalkTypes
  <2> QED
    BY <1>3, <2>1, <2>2
<1> QED
  BY <1>1, <1>2, <1>4 DEF WalkTypes

LEMMA ReadDirectoryTypes ==
  ASSUME DataInv, WalkTypes, ReadDirectory PROVE WalkTypes'
<1>1. CASE step' = "walk"
  <2>1. ListingInv'
    BY ReadDirectoryListing DEF DataInv
  <2>2. IsTable(table') /\ pending' \in Calls
    BY <1>1, <2>1 DEF ListingInv, WalkInv
  <2>3. seen' = {} /\ entries' = <<>> /\ depth' = depth /\ got' = got /\ extent' = extent
    BY <1>1 DEF ReadDirectory, Fail
  <2> QED
    BY <1>1, <2>2, <2>3 DEF WalkTypes, Steps
<1>2. CASE step' # "walk"
  BY <1>2 DEF WalkTypes, ReadDirectory, Fail, Steps
<1> QED
  BY <1>1, <1>2

LEMMA VisitTypes == ASSUME DataInv, WalkTypes, Visit PROVE WalkTypes'
<1>1. UNCHANGED <<depth, got, extent, table>> /\ step' \in Steps
  BY DEF Visit, Fail, Steps, WalkTypes
<1>2. CASE step' = "walk"
  <2>1. WalkInv'
    BY VisitListing DEF DataInv, ListingInv
  <2>2. pending' \in Calls /\ entries' \in Seq(DOMAIN table') /\ seen' = Listed'
    BY <1>2, <2>1 DEF WalkInv
  <2> HIDE DEF WalkTypes
  <2>3. seen' \subseteq DOMAIN table'
    BY <2>2 DEF Listed
  <2> QED
    BY <1>1, <2>2, <2>3 DEF WalkTypes
<1>3. CASE step' # "walk"
  <2>1. UNCHANGED <<pending, seen, entries>>
    BY <1>3 DEF Visit
  <2> QED
    BY <1>1, <2>1 DEF WalkTypes
<1> QED
  BY <1>2, <1>3

LEMMA MatchTypes == ASSUME DataInv, WalkTypes, Match PROVE WalkTypes'
<1> DEFINE matches == Named(request.path[depth + 1])
           match == table[entries[First(matches)]]
<1>1. UNCHANGED <<got, table, pending, seen, entries>> /\ step' \in Steps /\ depth' \in Nat
  BY DEF Match, Steps, WalkTypes
<1>2. matches # {} => match.directory \in BOOLEAN
  <2> SUFFICES ASSUME matches # {} PROVE match.directory \in BOOLEAN
    OBVIOUS
  <2>1. matches \subseteq 1..Len(entries) /\ matches \in SUBSET Nat
    BY DEF Named, WalkTypes
  <2>2. First(matches) \in 1..Len(entries)
    BY <2>1, FirstIsLeast
  <2>3. entries[First(matches)] \in DOMAIN table
    BY <2>2 DEF WalkTypes
  <2> QED
    BY <2>3 DEF WalkTypes, IsTable, IsNode
<1>3. \/ extent' = extent
      \/ matches # {} /\ extent' = [directory |-> match.directory, sector |-> match.sector,
                                    size |-> match.size]
  BY DEF Match
<1>4. extent'.directory \in BOOLEAN
  BY <1>2, <1>3 DEF WalkTypes
<1> QED
  BY <1>1, <1>4 DEF WalkTypes

LEMMA ReadFileTypes == ASSUME DataInv, WalkTypes, ReadFile PROVE WalkTypes'
<1>1. /\ extent.sector \in Nat /\ extent.size \in Nat /\ image.length \in Nat
      /\ request.offset \in Nat /\ request.size \in Nat
  BY DEF DataInv, ListingInv, IsImage, IsRequest
<1>2. got' \in Nat
  BY <1>1 DEF ReadFile, Available, From, Count
<1> QED
  BY <1>2 DEF ReadFile, WalkTypes, Steps

LEMMA NextTypes == DataInv /\ WalkTypes /\ [XdvdfsNext]_xdvdfsVars => WalkTypes'
<1> SUFFICES ASSUME DataInv, WalkTypes, [XdvdfsNext]_xdvdfsVars PROVE WalkTypes'
  OBVIOUS
<1>1. CASE Open
  BY <1>1, OpenTypes
<1>2. CASE Call
  BY <1>2 DEF Call, WalkTypes, Steps
<1>3. CASE ReadDirectory
  BY <1>3, ReadDirectoryTypes
<1>4. CASE Visit
  BY <1>4, VisitTypes
<1>5. CASE Match
  BY <1>5, MatchTypes
<1>6. CASE ReadFile
  BY <1>6, ReadFileTypes
<1>7. CASE Rewrite
  BY <1>7 DEF Rewrite, WalkTypes
<1>8. CASE UNCHANGED xdvdfsVars
  BY <1>8 DEF xdvdfsVars, WalkTypes
<1> QED
  BY <1>1, <1>2, <1>3, <1>4, <1>5, <1>6, <1>7, <1>8 DEF XdvdfsNext, XdvdfsStep

\* The scan of ISO 9660 alike.
ScanTypes ==
  /\ path \in Seq(STRING) /\ isoStep \in IsoSteps
  /\ isoSize \in Nat /\ names \in 0..Len(path) /\ isoGot \in Nat
  /\ isoStep = "closed" => names = 0
  /\ isoStep \in {"directory", "scan"} => names < Len(path)
  /\ position \in Nat /\ \A i \in 1..Len(children) : children[i] \in DOMAIN records

LEMMA NextScanTypes == IsoInv /\ ScanTypes /\ [IsoNext]_isoVars => ScanTypes'
<1> SUFFICES ASSUME IsoInv, ScanTypes, [IsoNext]_isoVars PROVE ScanTypes'
  OBVIOUS
<1>1. CASE OpenIso
  <2>1. path # <<>> => 0 < Len(path)
    BY DEF ScanTypes
  <2>2. names = 0 /\ UNCHANGED <<path, names, records, position, children, isoGot>>
    BY <1>1 DEF OpenIso, ScanTypes
  <2>3. isoSize' \in Nat
    BY <1>1 DEF OpenIso, IsoInv, IsIso
  <2>4. isoStep' \in {"file", "directory", "format_error"}
    BY <1>1 DEF OpenIso
  <2>5. isoStep' = "directory" => path # <<>>
    BY <1>1 DEF OpenIso
  <2> QED
    BY <2>1, <2>2, <2>3, <2>4, <2>5 DEF ScanTypes, IsoSteps
<1>2. CASE ReadRecords
  <2>1. CASE isoStep' = "scan"
    <3>1. children' = <<>> /\ position' = 0 /\ UNCHANGED <<isoSize, path, names, isoGot>>
      BY <1>2, <2>1 DEF ReadRecords
    <3> QED
      BY <1>2, <2>1, <3>1 DEF ScanTypes, IsoSteps, ReadRecords
  <2>2. CASE isoStep' # "scan"
    BY <1>2, <2>2 DEF ReadRecords, ScanTypes, IsoSteps
  <2> QED
    BY <2>1, <2>2
<1>3. CASE Scan
  <2>1. UNCHANGED <<isoSize, path, names, isoGot, records>> /\ isoStep' \in {"scan", "format_error"}
    BY <1>3 DEF Scan
  <2>2. CASE isoStep' = "format_error"
    <3>1. UNCHANGED <<position, children>>
      BY <1>3, <2>2 DEF Scan
    <3> QED
      BY <2>1, <2>2, <3>1 DEF ScanTypes, IsoSteps
  <2>3. CASE isoStep' = "scan"
    <3>1. position' \in Nat
      BY <1>3, <2>3, ScanIso DEF IsoInv, ScanInv
    <3>2. position \in DOMAIN records /\ children \in Seq(Nat)
      BY <1>3 DEF IsoInv, ScanInv, Scan
    <3>3. children' = children \/ children' = Append(children, position)
      BY <1>3 DEF Scan
    <3>4. \A i \in 1..Len(children') : children'[i] \in DOMAIN records
      <4>1. CASE children' = children
        BY <4>1 DEF ScanTypes
      <4>2. CASE children' = Append(children, position)
        <5>1. /\ Len(children') = Len(children) + 1 /\ Len(children) \in Nat
              /\ \A i \in 1..Len(children) : children'[i] = children[i]
              /\ children'[Len(children) + 1] = position
          BY <3>2, <4>2
        <5>2. \A i \in 1..Len(children) + 1 : i \in 1..Len(children) \/ i = Len(children) + 1
          BY <5>1
        <5> QED
          BY <3>2, <5>1, <5>2 DEF ScanTypes
      <4> QED
        BY <3>3, <4>1, <4>2
    <3> QED
      BY <1>3, <2>1, <2>3, <3>1, <3>4 DEF ScanTypes, IsoSteps, Scan
  <2> QED
    BY <2>1, <2>2, <2>3
<1>4. CASE Choose
  <2>1. /\ UNCHANGED <<isoSize, path, isoGot, records, position, children>>
        /\ names < Len(path) /\ names \in Nat /\ Len(path) \in Nat
    BY <1>4 DEF Choose, ScanTypes
  <2>2. \/ isoStep' = "format_error" /\ names' = names
        \/ names' = names + 1 /\ isoStep' = IF names + 1 = Len(path) THEN "file" ELSE "directory"
    BY <1>4 DEF Choose
  <2>3. names' \in 0..Len(path) /\ isoStep' \in IsoSteps
    BY <2>1, <2>2 DEF IsoSteps
  <2>4. isoStep' \in {"directory", "scan"} => names' < Len(path)
    BY <2>1, <2>2
  <2>5. isoStep' # "closed"
    BY <2>2
  <2> QED
    BY <2>1, <2>3, <2>4, <2>5 DEF ScanTypes
<1>5. CASE ReadIsoFile
  BY <1>5 DEF ReadIsoFile, ScanTypes, IsoSteps, IsoInv, IsRecord
<1>6. CASE Shorten
  BY <1>6 DEF Shorten, ScanTypes
<1>7. CASE UNCHANGED isoVars
  BY <1>7 DEF isoVars, ScanTypes
<1> QED
  BY <1>1, <1>2, <1>3, <1>4, <1>5, <1>6, <1>7 DEF IsoNext, IsoStep

-----------------------------------------------------------------------------
\* The rest of the types of the adapters that run a program.
DiscTypes ==
  /\ IsSource(source) /\ adapter \in Programs /\ installed \subseteq Programs
  /\ IsHeader(header) /\ obtained \subseteq Digests \cup {"rchash"}
  /\ current \in BOOLEAN /\ outcome \in Outcomes
  /\ claims \subseteq Claims \X {"gc", "wii", "xbox"}

\* Every verdict is one of the outcomes, whatever the program has answered.
LEMMA VerdictIsOutcome ==
  ASSUME RunInv, method \in Methods, NEW command, NEW answer, NEW h
  PROVE  Verdict(command, answer, h) \in Outcomes
<1>1. CASE answer \in {"os_error", "undecodable"}
  BY <1>1 DEF Verdict, Outcomes
<1>2. CASE answer \notin {"os_error", "undecodable"} /\ method = "capability"
  BY <1>2 DEF Verdict, Capability, Outcomes
<1>3. CASE answer \notin {"os_error", "undecodable"} /\ method # "capability" /\ adapter = "dolphin"
  <2>1. Verdict(command, answer, h) = IF Usable(command, answer) THEN DolphinAccepted(method, h)
                                                                 ELSE DolphinRefused(method, answer)
    BY <1>3 DEF Verdict
  <2>2. DolphinAccepted(method, h) \in Outcomes
    BY <1>3 DEF DolphinAccepted, DolphinProbed, DolphinDetected, DolphinInspected,
                DolphinIdentified, Methods, Outcomes, Claims
  <2>3. DolphinRefused(method, answer) \in Outcomes
    BY <1>3 DEF DolphinRefused, Raised, Methods, Outcomes
  <2> QED
    BY <2>1, <2>2, <2>3
<1>4. CASE answer \notin {"os_error", "undecodable"} /\ method # "capability" /\ adapter = "xbox"
  <2>1. Verdict(command, answer, h) = IF Usable(command, answer) THEN XboxAccepted(method)
                                                         ELSE XboxRefused(method, command, answer)
    BY <1>4 DEF Verdict
  <2>2. method \in {"probe", "detect", "identify"}
    BY <1>4 DEF RunInv, Methods
  <2>3. XboxAccepted(method) \in Outcomes
    BY <2>2 DEF XboxAccepted, XboxProbed, XboxDetected, XboxIdentified, Outcomes, Claims
  <2>4. XboxRefused(method, command, answer) \in Outcomes
    BY <2>2 DEF XboxRefused, Raised, Outcomes, Claims
  <2> QED
    BY <2>1, <2>3, <2>4
<1> QED
  BY <1>1, <1>2, <1>3, <1>4 DEF RunInv

LEMMA ConcludeTypes == ASSUME RunInv, DiscTypes, Conclude PROVE DiscTypes'
<1> DEFINE command == Commands(method)[done + 1]
<1>1. PICK answer \in IF cause = "completed" THEN Outputs(command) ELSE {cause} :
        LET h == IF answer = "json" THEN source.header ELSE header
        IN /\ obtained' = IF answer = "digest" THEN obtained \cup {command} ELSE obtained
           /\ \/ IF Usable(command, answer) /\ done + 1 < Len(Commands(method))
                   THEN /\ stage' = "looking" /\ cause' = "none"
                        /\ done' = done + 1 /\ header' = h
                        /\ UNCHANGED <<installed, source, adapter, method, current, outcome, claims>>
                   ELSE End(Verdict(command, answer, h), h)
              \/ XboxIdentifies /\ End("os_error", h)
  BY DEF Conclude
<1> DEFINE h == IF answer = "json" THEN source.header ELSE header
<1>2. stage = "ended" /\ method \in Methods /\ command \in AllCommands
  BY NextCommand DEF Conclude, RunInv
<1>3. IsHeader(h)
  BY DEF DiscTypes, IsSource
<1>4. answer = "digest" => command \in Digests \cup {"rchash"}
  <2>1. cause # "digest"
    BY DEF RunInv, Causes, BackendErrors
  <2>2. answer = "digest" => "digest" \in Outputs(command)
    BY <1>1, <2>1
  <2> HIDE DEF command
  <2> QED
    BY <1>2, <2>2 DEF Outputs, AllCommands, Digests
<1>5. Verdict(command, answer, h) \in Outcomes /\ "os_error" \in Outcomes
  BY <1>2, VerdictIsOutcome DEF Outcomes
<1>6. /\ UNCHANGED <<installed, source, adapter, current>>
      /\ obtained' = IF answer = "digest" THEN obtained \cup {command} ELSE obtained
      /\ \/ header' = h /\ UNCHANGED <<outcome, claims>>
         \/ \E what \in Outcomes : End(what, h)
  BY <1>1, <1>5 DEF End
<1> HIDE DEF command, h
<1>7. CASE header' = h /\ UNCHANGED <<outcome, claims>>
  BY <1>3, <1>4, <1>6, <1>7 DEF DiscTypes
<1>8. CASE \E what \in Outcomes : End(what, h)
  <2>1. PICK what \in Outcomes : End(what, h)
    BY <1>8
  <2>2. claims' \subseteq Claims \X {"gc", "wii", "xbox"}
    BY <2>1 DEF End, DiscTypes, DolphinPlatform
  <2>3. header' = <<>> /\ outcome' = what
    BY <2>1 DEF End
  <2>4. IsHeader(<<>>)
    BY DEF IsHeader
  <2> QED
    BY <1>4, <1>6, <2>1, <2>2, <2>3, <2>4 DEF DiscTypes
<1> QED
  BY <1>6, <1>7, <1>8

LEMMA NextDiscTypes == RunInv /\ DiscTypes /\ [DiscNext]_discVars => DiscTypes'
<1> SUFFICES ASSUME RunInv, DiscTypes, [DiscNext]_discVars PROVE DiscTypes'
  OBVIOUS
<1>1. CASE Begin
  BY <1>1 DEF Begin, DiscTypes, Outcomes
<1>2. CASE AnswerAtOnce
  <2>1. outcome' \in Outcomes
    BY <1>2 DEF AnswerAtOnce, XboxInspected, Unexamined, Outcomes, Claims
  <2>2. claims' \subseteq Claims \X {"gc", "wii", "xbox"}
    BY <1>2 DEF AnswerAtOnce, DiscTypes
  <2> QED
    BY <1>2, <2>1, <2>2 DEF AnswerAtOnce, backendVars, DiscTypes
<1>3. CASE Supervising
  <2>1. installed' = installed
    BY <1>3 DEF Supervising, Supervise, Discover, Look, StartProgram, Timeout
  <2> QED
    BY <1>3, <2>1 DEF Supervising, adapterVars, DiscTypes
<1>4. CASE Conclude
  BY <1>4, ConcludeTypes
<1>5. CASE Environment
  <2>1. installed' \subseteq Programs
    BY <1>5 DEF Environment, ProgramEnds, Administer, DiscTypes
  <2> QED
    BY <1>5, <2>1 DEF Environment, adapterVars, DiscTypes
<1>6. CASE Replace
  BY <1>6, SourceAssumption DEF Replace, backendVars, DiscTypes
<1>7. CASE UNCHANGED discVars
  BY <1>7 DEF discVars, backendVars, adapterVars, DiscTypes
<1> QED
  BY <1>1, <1>2, <1>3, <1>4, <1>5, <1>6, <1>7 DEF DiscNext

-----------------------------------------------------------------------------
\* A power of two is the number of the subsets of a set.
LEMMA PowerIsNumber == ASSUME NEW n \in Nat PROVE 2 ^ n \in Nat
<1>1. IsFiniteSet(1..n) /\ Cardinality(1..n) = n
  BY FS_Interval
<1>2. Cardinality(SUBSET (1..n)) = 2 ^ n /\ IsFiniteSet(SUBSET (1..n))
  BY <1>1, FS_SUBSET
<1> QED
  BY <1>2, FS_CardinalityType

LEMMA RomSizeIsNumber ==
  ASSUME NEW lsb \in Nat, NEW msb \in Nat, NEW unit \in Nat
  PROVE  RomSize(lsb, msb, unit) \in Nat
<1>1. lsb \div 4 \in Nat /\ lsb % 4 \in Nat
  BY Z3
<1>2. 2 ^ (lsb \div 4) \in Nat
  BY <1>1, PowerIsNumber
<1>3. \A a, b \in Nat : a * b \in Nat
  BY Z3
<1>4. (lsb % 4) * 2 + 1 \in Nat
  BY <1>1, <1>3
<1>5. 2 ^ (lsb \div 4) * ((lsb % 4) * 2 + 1) \in Nat
  BY <1>2, <1>3, <1>4
<1>6. (msb * 256 + lsb) * unit \in Nat
  <2>1. msb * 256 + lsb \in Nat
    OBVIOUS
  <2> QED
    BY <1>3, <2>1
<1> QED
  BY <1>5, <1>6 DEF RomSize

LEMMA ContentSizeIsNumber == ASSUME NEW c, IsCartridge(c) PROVE ContentSize(c) \in Nat
<1>1. c.prgLsb \in Nat /\ c.chrLsb \in Nat /\ c.prgMsb \in Nat /\ c.chrMsb \in Nat
  BY DEF IsCartridge
<1>2. \A unit \in Nat : /\ RomSize(c.prgLsb, c.prgMsb, unit) \in Nat
                        /\ RomSize(c.chrLsb, c.chrMsb, unit) \in Nat
  BY <1>1, RomSizeIsNumber, Zenon
<1> QED
  BY <1>1, <1>2 DEF ContentSize

\* The rest of the types of the NES adapter.
NesTypes ==
  /\ IsCartridge(said) /\ headerless \in BOOLEAN /\ suffix \in BOOLEAN
  /\ nesStep \in NesSteps /\ nesMethod \in NesMethods \cup {"none"}
  /\ statSize \in Nat /\ hashed \in [offset : Nat, length : Nat]
  /\ nesOutcome \in NesOutcomes /\ stable \in BOOLEAN
  /\ nesClaims \subseteq NesOutcomes \X {"headerless", "ines", "nes2"}

LEMMA NesEndTypes ==
  ASSUME NesTypes, NEW what \in NesOutcomes, NEW c, NesEnd(what, c)
  PROVE  /\ nesStep' \in NesSteps /\ nesMethod' \in NesMethods \cup {"none"}
         /\ nesOutcome' \in NesOutcomes
         /\ nesClaims' \subseteq NesOutcomes \X {"headerless", "ines", "nes2"}
BY DEF NesEnd, NesTypes, NesSteps, Representation

LEMMA NextNesTypes == HashInv /\ NesTypes /\ [NesNext]_nesVars => NesTypes'
<1> SUFFICES ASSUME HashInv, NesTypes, [NesNext]_nesVars PROVE NesTypes'
  OBVIOUS
<1>0. IsCartridge(cartridge) /\ cartridge.length \in Nat
  BY DEF HashInv, IsCartridge
<1>1. CASE NesBegin
  <2>1. hashed' \in [offset : Nat, length : Nat] /\ statSize' \in Nat
    BY <1>1 DEF NesBegin
  <2> QED
    BY <1>0, <1>1, <2>1 DEF NesBegin, NesTypes, NesSteps, NesMethods, NesOutcomes
<1>2. CASE ReadHeader
  <2>1. nesMethod \in NesMethods
    BY <1>2 DEF ReadHeader, HashInv
  <2>2. FromHeader(nesMethod, cartridge) \in NesOutcomes \cup {"size"}
    BY <2>1 DEF FromHeader, FromHeaderOfProbe, FromHeaderOfIdentify, FromHeaderOfDetect,
                NesMethods, NesOutcomes
  <2>3. \/ nesStep' = "size" /\ UNCHANGED <<nesMethod, nesOutcome, nesClaims>>
        \/ \E what \in NesOutcomes : NesEnd(what, cartridge)
    BY <1>2, <2>2 DEF ReadHeader, NesOutcomes
  <2>4. /\ nesStep' \in NesSteps /\ nesMethod' \in NesMethods \cup {"none"}
        /\ nesOutcome' \in NesOutcomes
        /\ nesClaims' \subseteq NesOutcomes \X {"headerless", "ines", "nes2"}
    BY <2>3, NesEndTypes DEF NesTypes, NesSteps
  <2> QED
    BY <1>0, <1>2, <2>4 DEF ReadHeader, NesTypes
<1>3. CASE AskSize
  <2>1. statSize' \in Nat
    BY <1>0, <1>3 DEF AskSize, NesTypes
  <2>2. \/ nesStep' = "hash" /\ UNCHANGED <<nesMethod, nesOutcome, nesClaims>>
        \/ \E what \in NesOutcomes : NesEnd(what, said)
    BY <1>3 DEF AskSize, NesOutcomes
  <2>3. /\ nesStep' \in NesSteps /\ nesMethod' \in NesMethods \cup {"none"}
        /\ nesOutcome' \in NesOutcomes
        /\ nesClaims' \subseteq NesOutcomes \X {"headerless", "ines", "nes2"}
    BY <2>2, NesEndTypes DEF NesTypes, NesSteps
  <2> QED
    BY <1>3, <2>1, <2>3 DEF AskSize, NesTypes
<1>4. CASE Hash
  <2>1. ContentSize(said) \in Nat
    BY ContentSizeIsNumber DEF NesTypes
  <2>2. HashRange \in [offset : Nat, length : Nat]
    BY <2>1 DEF HashRange, NesTypes, NesHeaderSize
  <2>3. hashed' \in [offset : Nat, length : Nat]
    <3>1. hashed' = hashed \/ hashed' = HashRange
      BY <1>4 DEF Hash
    <3> QED
      BY <2>2, <3>1 DEF NesTypes
  <2>4. \E what \in NesOutcomes : NesEnd(what, said)
    BY <1>4 DEF Hash, NesOutcomes
  <2>5. /\ nesStep' \in NesSteps /\ nesMethod' \in NesMethods \cup {"none"}
        /\ nesOutcome' \in NesOutcomes
        /\ nesClaims' \subseteq NesOutcomes \X {"headerless", "ines", "nes2"}
    BY <2>4, NesEndTypes
  <2> QED
    BY <1>4, <2>3, <2>5 DEF Hash, NesTypes
<1>5. CASE Swap
  BY <1>5 DEF Swap, NesTypes
<1>6. CASE UNCHANGED nesVars
  BY <1>6 DEF nesVars, NesTypes
<1> QED
  BY <1>1, <1>2, <1>3, <1>4, <1>5, <1>6 DEF NesNext, NesStep

-----------------------------------------------------------------------------
(***************************************************************************)
(* The parts within the whole: each takes its own steps or stands still, so *)
(* that what was proved of it alone holds here as well.                    *)
(***************************************************************************)
\* A step of the whole is a step of each part, or one that leaves the part alone.
LEMMA StepsOfParts ==
  ASSUME [FormatsNext]_formatVars
  PROVE  /\ [DiscNext]_discVars /\ [XdvdfsNext]_xdvdfsVars /\ [IsoNext]_isoVars
         /\ [PackageNext]_packageVars /\ [NesNext]_nesVars
<1>1. CASE OfDisc(DiscNext)
  BY <1>1 DEF OfDisc, StillXdvdfs, StillIso, StillSwitch, StillNes
<1>2. CASE OfXdvdfs(XdvdfsNext)
  BY <1>2 DEF OfXdvdfs, StillDisc, StillIso, StillSwitch, StillNes
<1>3. CASE OfIso(IsoNext)
  BY <1>3 DEF OfIso, StillDisc, StillXdvdfs, StillSwitch, StillNes
<1>4. CASE OfSwitch(PackageNext)
  BY <1>4 DEF OfSwitch, StillDisc, StillXdvdfs, StillIso, StillNes
<1>5. CASE OfNes(NesNext)
  BY <1>5 DEF OfNes, StillDisc, StillXdvdfs, StillIso, StillSwitch
<1>6. CASE UNCHANGED formatVars
  BY <1>6 DEF formatVars
<1> QED
  BY <1>1, <1>2, <1>3, <1>4, <1>5, <1>6 DEF FormatsNext

LEMMA DiscStarts == FormatsInit => DiscInv
<1> SUFFICES ASSUME FormatsInit PROVE DiscInv
  OBVIOUS
<1>1. DiscStart /\ adapter \in Programs
  BY SourceAssumption DEF FormatsInit, OneOf
<1> QED
  BY <1>1, SourceAssumption
     DEF DiscStart, DiscInv, RunInv, ClaimsInv, IdentityIsComplete, Methods, Stages, Causes,
         BackendErrors

LEMMA XdvdfsStarts == FormatsInit => CauseInv
<1> SUFFICES ASSUME FormatsInit PROVE CauseInv
  OBVIOUS
<1>1. IsImage(NoImage) /\ IsRequest(NoRequest)
  BY DEF IsImage, IsRequest, NoImage, NoRequest
<1>2. IsImage(image) /\ IsRequest(request) /\ XdvdfsStart
  BY <1>1, XdvdfsAssumption DEF FormatsInit, OneOf
<1> QED
  BY <1>2 DEF XdvdfsStart, CauseInv, DepthInv, DataInv, DataIsWhole, ListingInv, WalkInv

LEMMA IsoStarts == FormatsInit => IsoInv
<1> SUFFICES ASSUME FormatsInit PROVE IsoInv
  OBVIOUS
<1>1. IsIso(NoIso)
  BY PaddingIsRecord DEF IsIso, NoIso
<1>2. IsIso(iso) /\ IsoStart
  BY <1>1, IsoAssumption DEF FormatsInit, OneOf
<1> QED
  BY <1>2, PaddingIsRecord DEF IsoStart, IsoInv, ScanInv

LEMMA PackageStarts == FormatsInit => PackageInv
<1> SUFFICES ASSUME FormatsInit PROVE PackageInv
  OBVIOUS
<1>1. IsPackage(NoPackage)
  BY DEF IsPackage, NoPackage
<1>2. IsPackage(package) /\ PackageStart
  BY <1>1, PackageAssumption DEF FormatsInit, OneOf
<1>3. PackageTypes
  BY <1>2 DEF PackageStart, PackageTypes, PackageTypeOK, Parts, Reports
<1> QED
  BY <1>2, <1>3 DEF PackageStart, PackageInv, StageInv

LEMMA NesStarts == FormatsInit => HashInv /\ AgreeInv
<1> SUFFICES ASSUME FormatsInit PROVE HashInv /\ AgreeInv
  OBVIOUS
<1>1. IsCartridge(NoCartridge)
  BY DEF IsCartridge, NoCartridge
<1>2. IsCartridge(cartridge) /\ headerless \in BOOLEAN /\ suffix \in BOOLEAN /\ NesStart
  BY <1>1, CartridgeAssumption DEF FormatsInit, OneOf
<1> QED
  BY <1>2 DEF NesStart, HashInv, AgreeInv, HashIsExact, NesAgrees

\* All that is known of the whole, at any moment.
FormatsInv ==
  /\ examined \in ExaminedParts
  /\ DiscInv /\ DiscTypes
  /\ CauseInv /\ WalkTypes
  /\ IsoInv /\ ScanTypes
  /\ PackageInv
  /\ HashInv /\ AgreeInv /\ NesTypes

LEMMA TypesAtStart == FormatsInit => DiscTypes /\ WalkTypes /\ ScanTypes /\ NesTypes
<1> SUFFICES ASSUME FormatsInit PROVE DiscTypes /\ WalkTypes /\ ScanTypes /\ NesTypes
  OBVIOUS
<1>1. DiscTypes
  <2>1. IsSource(NoSource) /\ IsHeader(<<>>)
    BY DEF NoSource, IsSource, IsHeader
  <2>2. IsSource(source) /\ adapter \in Programs /\ installed \subseteq Programs /\ DiscStart
    BY <2>1, SourceAssumption DEF FormatsInit, OneOf
  <2> QED
    BY <2>1, <2>2 DEF DiscStart, DiscTypes, Outcomes
<1>2. WalkTypes
  <2>1. XdvdfsStart
    BY DEF FormatsInit
  <2>2. DOMAIN <<>> = {} /\ <<>> \in Calls /\ \A S : <<>> \in Seq(S)
    BY DEF Calls
  <2> QED
    BY <2>1, <2>2 DEF XdvdfsStart, WalkTypes, IsTable, Steps
<1>3. ScanTypes
  <2>1. IsoStart /\ (path \in IsoPaths \/ path = <<>>)
    BY DEF FormatsInit, OneOf
  <2>2. path \in Seq(STRING)
    <3>1. <<>> \in Seq(STRING)
      OBVIOUS
    <3> QED
      BY <2>1, <3>1, IsoAssumption
  <2> QED
    BY <2>1, <2>2 DEF IsoStart, ScanTypes, IsoSteps
<1>4. NesTypes
  <2>1. IsCartridge(NoCartridge)
    BY DEF IsCartridge, NoCartridge
  <2>2. IsCartridge(cartridge) /\ headerless \in BOOLEAN /\ suffix \in BOOLEAN /\ NesStart
    BY <2>1, CartridgeAssumption DEF FormatsInit, OneOf
  <2> QED
    BY <2>2 DEF NesStart, NesTypes, NesSteps, NesOutcomes
<1> QED
  BY <1>1, <1>2, <1>3, <1>4

LEMMA FormatsStart == FormatsInit => FormatsInv
<1>1. FormatsInit => examined \in ExaminedParts
  BY DEF FormatsInit
<1> QED
  BY <1>1, DiscStarts, XdvdfsStarts, IsoStarts, PackageStarts, NesStarts, TypesAtStart
     DEF FormatsInv

LEMMA FormatsStep == FormatsInv /\ [FormatsNext]_formatVars => FormatsInv'
<1> SUFFICES ASSUME FormatsInv, [FormatsNext]_formatVars PROVE FormatsInv'
  OBVIOUS
<1>1. /\ [DiscNext]_discVars /\ [XdvdfsNext]_xdvdfsVars /\ [IsoNext]_isoVars
      /\ [PackageNext]_packageVars /\ [NesNext]_nesVars
  BY StepsOfParts
<1>2. UNCHANGED examined
  BY DEF FormatsNext, OfDisc, OfXdvdfs, OfIso, OfSwitch, OfNes, formatVars
<1>3. DiscInv' /\ DiscTypes'
  BY <1>1, NextDisc, NextDiscTypes DEF FormatsInv, DiscInv
<1>4. CauseInv' /\ WalkTypes'
  BY <1>1, NextCause, NextTypes DEF FormatsInv, CauseInv
<1>5. IsoInv' /\ ScanTypes'
  BY <1>1, NextIso, NextScanTypes DEF FormatsInv
<1>6. PackageInv'
  BY <1>1, NextPackage DEF FormatsInv
<1>7. HashInv' /\ AgreeInv' /\ NesTypes'
  BY <1>1, NextHash, NextAgrees, NextNesTypes DEF FormatsInv
<1> QED
  BY <1>2, <1>3, <1>4, <1>5, <1>6, <1>7 DEF FormatsInv

\* What is known of each part holds within the whole.
THEOREM FormatsInvariance == FormatsSpec => []FormatsInv
BY FormatsStart, FormatsStep, PTL DEF FormatsSpec

LEMMA FormatsTypesFollow == FormatsInv => FormatsTypeOK
<1> SUFFICES ASSUME FormatsInv PROVE FormatsTypeOK
  OBVIOUS
<1>1. DiscTypeOK
  <2>1. done \in 0..4
    BY DEF FormatsInv, DiscInv, RunInv
  <2> QED
    BY <2>1 DEF FormatsInv, DiscInv, RunInv, DiscTypes, DiscTypeOK
<1>2. XdvdfsTypeOK
  BY DEF FormatsInv, CauseInv, DataInv, ListingInv, WalkTypes, XdvdfsTypeOK, Calls, WalkCall
<1>3. IsoTypeOK
  BY DEF FormatsInv, IsoInv, ScanTypes, IsoTypeOK
<1>4. PackageTypeOK
  BY TypeFollows DEF FormatsInv
<1>5. NesTypeOK
  BY DEF FormatsInv, HashInv, NesTypes, NesTypeOK
<1> QED
  BY <1>1, <1>2, <1>3, <1>4, <1>5 DEF FormatsInv, FormatsTypeOK

\* Every part keeps its types, whatever the files say: the walk what its offsets are, the
\* scan that what it has found lies in the directory, the NES adapter that the size of a
\* content is a number, for the sizes of NES 2.0 that are powers of two as well.
THEOREM FormatsTypes == FormatsSpec => []FormatsTypeOK
BY FormatsInvariance, FormatsTypesFollow, PTL

\* The invariants of the parts, as the whole keeps them.
THEOREM FormatsSafety ==
  FormatsSpec => [](/\ DolphinNeverContradicts /\ IdentityIsComplete
                    /\ ListingIsComplete /\ DataIsWhole /\ IsoListingIsComplete
                    /\ ReportedExactlyIfSound /\ ApplicationIsUnique
                    /\ HashIsExact /\ NesAgrees)
<1>1. DiscInv => DolphinNeverContradicts /\ IdentityIsComplete
  BY DEF DiscInv, ClaimsInv, DolphinNeverContradicts
<1>2. CauseInv => ListingIsComplete /\ DataIsWhole
  BY ListingFollows DEF CauseInv, DataInv
<1>3. HashInv => HashIsExact
  BY DEF HashInv
<1>4. FormatsInv => /\ DolphinNeverContradicts /\ IdentityIsComplete
                    /\ ListingIsComplete /\ DataIsWhole /\ IsoListingIsComplete
                    /\ ReportedExactlyIfSound /\ ApplicationIsUnique
                    /\ HashIsExact /\ NesAgrees
  BY <1>1, <1>2, <1>3, IsoListingFollows, SoundnessFollows, UniquenessFollows, AgreementFollows
     DEF FormatsInv
<1> QED
  BY <1>4, FormatsInvariance, PTL

\* Neither disc reader gives up for nothing, whatever it is asked.
THEOREM ReadersCauses == FormatsSpec => ReadersFailForCause
<1>1. FormatsInv /\ [FormatsNext]_formatVars => [WalkFailsForCause]_xdvdfsVars
  BY StepsOfParts, CauseFollows DEF FormatsInv
<1>2. FormatsInv /\ [FormatsNext]_formatVars => [ScanFailsForCause]_isoVars
  BY StepsOfParts, IsoCauseFollows DEF FormatsInv
<1>3. FormatsSpec => NothingGivenUp
  BY <1>1, FormatsStart, FormatsStep, PTL DEF FormatsSpec, NothingGivenUp
<1>4. FormatsSpec => IsoFailsForCause
  BY <1>2, FormatsStart, FormatsStep, PTL DEF FormatsSpec, IsoFailsForCause
<1> QED
  BY <1>3, <1>4, PTL DEF ReadersFailForCause
======================================================================================
