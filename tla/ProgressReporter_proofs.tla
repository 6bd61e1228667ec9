------------------------- MODULE ProgressReporter_proofs -------------------------
(***************************************************************************)
(* The safety of the progress display for every workflow: any number of    *)
(* stages with texts of any width, and any number of possible threads.     *)
(***************************************************************************)
EXTENDS ProgressReporter, TLAPS

\* Two threads never draw.  The one the reporter knows is the only one that is not
\* over, it is over before the reporter forgets it, and it draws the stages in order:
\* what the row shows was read before what it will draw next.
ThreadInv ==
  /\ thread = None => \A t \in Threads : pc[t] \in {"none", "ended"}
  /\ thread # None => /\ pc[thread] # "none"
                      /\ \A t \in Threads \ {thread} : pc[t] = "none"
                      /\ read[thread] <= stage
                      /\ row # <<>> => row[1] <= read[thread]
  /\ thread = None /\ caller = "running" => /\ \A t \in Threads : pc[t] = "none"
                                            /\ row = <<>>
                                            /\ stage = 0
  /\ mode # "live" => row = <<>>
  /\ caller \in {"clearing", "printing", "closed"} => thread = None
  /\ caller \in {"printing", "closed"} => row = <<>>
  /\ caller = "printing" => closing = "finish"

Inv == TypeOK /\ ThreadInv /\ OutcomeStands

\* A carriage return and a text leave a row that begins with the text.
LEMMA OverwriteRow ==
  ASSUME NEW columns \in Seq(Stages), NEW s \in Stages
  PROVE  /\ Overwrite(columns, s) \in Seq(Stages)
         /\ Overwrite(columns, s) # <<>>
         /\ Overwrite(columns, s)[1] = s
<1>1. Width[s] \in Nat \ {0}
  BY WidthAssumption DEF Stages
<1> DEFINE n == IF Width[s] > Len(columns) THEN Width[s] ELSE Len(columns)
<1>2. n \in Nat /\ 1 \in 1..n /\ Len(columns) \in Nat /\ 1 <= Width[s]
  BY <1>1
<1>3. \A i \in 1..n : i > Width[s] => i \in 1..Len(columns)
  BY <1>1
<1>4. \A i \in 1..n : (IF i <= Width[s] THEN s ELSE columns[i]) \in Stages
  BY <1>1, <1>3
<1>5. Overwrite(columns, s) = [i \in 1..n |-> IF i <= Width[s] THEN s ELSE columns[i]]
  BY DEF Overwrite
<1>6. Overwrite(columns, s) \in [1..n -> Stages]
  BY <1>4, <1>5
<1>7. Overwrite(columns, s)[1] = s
  BY <1>2, <1>5
<1>8. Overwrite(columns, s) \in Seq(Stages) /\ Len(Overwrite(columns, s)) = n
  BY <1>2, <1>6
<1> HIDE DEF n
<1> QED BY <1>2, <1>7, <1>8

\* The invariant holds of every display.
THEOREM ProgressInvariance == Spec => []Inv
<1>1. Init => Inv
  <2> SUFFICES ASSUME Init PROVE Inv
    OBVIOUS
  <2>1. Len(Width) \in Nat
    BY WidthAssumption
  <2>2. row \in Seq(Stages) /\ lines \in Seq(Lines)
    BY DEF Init
  <2>3. entered \in 0..Len(Width) /\ stage \in 0..entered /\ read \in [Threads -> 0..entered]
    BY <2>1 DEF Init
  <2>4. TypeOK
    BY <2>2, <2>3 DEF Init, TypeOK
  <2>5. ThreadInv /\ OutcomeStands
    BY NoneAssumption DEF Init, ThreadInv, OutcomeStands
  <2> QED BY <2>4, <2>5 DEF Inv
<1>2. ASSUME Inv, [Next]_vars PROVE Inv'
  <2> USE <1>2, NoneAssumption, WidthAssumption DEF Inv
  <2>0. Len(Width) \in Nat
    BY WidthAssumption
  <2>1. CASE Stage
    <3>1. TypeOK'
      <4>1. entered' = entered + 1 /\ entered' \in 1..Len(Width)
        BY <2>0, <2>1 DEF Stage, TypeOK
      <4>2. lines' \in Seq(Lines)
        <5>1. entered' \in Lines
          BY <4>1 DEF Stages, Lines
        <5>2. lines' = lines \/ lines' = Append(lines, entered')
          BY <2>1 DEF Stage
        <5>3. lines \in Seq(Lines)
          BY DEF TypeOK
        <5>4. Append(lines, entered') \in Seq(Lines)
          BY <5>1, <5>3
        <5> QED BY <5>2, <5>3, <5>4
      <4>3. stage' \in 0..entered' /\ read' \in [Threads -> 0..entered']
        BY <2>0, <2>1, <4>1 DEF Stage, TypeOK
      <4>4. /\ thread' \in Threads \cup {None}
            /\ thread' # None => mode' = "live" /\ caller' = "running"
            /\ pc' \in [Threads -> {"none", "check", "read", "write", "wait", "ended"}]
        BY <2>1 DEF Stage, Start, TypeOK
      <4>5. UNCHANGED <<mode, stop, caller, closing, row>>
        BY <2>1 DEF Stage
      <4> HIDE <2>1
      <4> QED BY <4>1, <4>2, <4>3, <4>4, <4>5 DEF TypeOK
    <3>2. ThreadInv' /\ OutcomeStands'
      BY <2>0, <2>1 DEF Stage, Start, TypeOK, ThreadInv, OutcomeStands
    <3> QED BY <3>1, <3>2
  <2>2. CASE Close
    BY <2>2 DEF Close, animation, TypeOK, ThreadInv, OutcomeStands
  <2>3. CASE Join
    BY <2>3 DEF Join, animation, TypeOK, ThreadInv, OutcomeStands
  <2>4. CASE Clear
    BY <2>4 DEF Clear, animation, TypeOK, ThreadInv, OutcomeStands
  <2>5. CASE PrintOutcome
    <3>1. lines' = Append(lines, Outcome)
      BY <2>5 DEF PrintOutcome, ThreadInv
    <3>2. lines' \in Seq(Lines) /\ lines'[Len(lines')] = Outcome
      BY <3>1 DEF TypeOK, Lines
    <3> QED BY <2>5, <3>1, <3>2 DEF PrintOutcome, animation, TypeOK, ThreadInv, OutcomeStands
  <2>6. ASSUME NEW t \in Threads, Animate(t) PROVE Inv'
    <3>1. t = thread
      BY <2>6 DEF Animate, Check, Read, Write, Wake, TypeOK, ThreadInv
    <3>2. CASE Check(t) \/ Wake(t)
      BY <3>1, <3>2 DEF Check, Wake, Goto, TypeOK, ThreadInv, OutcomeStands
    <3>3. CASE Read(t)
      BY <2>0, <3>1, <3>3 DEF Read, Goto, TypeOK, ThreadInv, OutcomeStands, Stages
    <3>4. CASE Write(t)
      <4>1. row' \in Seq(Stages) /\ (row' # <<>> => row'[1] <= read[t])
        <5>1. CASE read[t] = 0
          BY <3>1, <3>4, <5>1 DEF Write, TypeOK, ThreadInv
        <5>2. CASE read[t] # 0
          <6>1. read[t] \in Stages
            BY <2>0, <5>2 DEF TypeOK, Stages
          <6>2. row \in Seq(Stages) /\ row' = Overwrite(row, read[t])
            BY <3>4, <5>2 DEF Write, TypeOK
          <6>3. row' \in Seq(Stages) /\ row'[1] = read[t]
            BY <6>1, <6>2, OverwriteRow
          <6>4. read[t] <= read[t]
            BY <2>0, <6>1 DEF Stages
          <6> QED BY <6>3, <6>4
        <5> QED BY <5>1, <5>2
      <4> QED BY <3>1, <3>4, <4>1 DEF Write, Goto, TypeOK, ThreadInv, OutcomeStands
    <3> QED BY <2>6, <3>2, <3>3, <3>4 DEF Animate
  <2>7. CASE UNCHANGED vars
    BY <2>7 DEF vars, animation, TypeOK, ThreadInv, OutcomeStands
  <2> QED BY <2>1, <2>2, <2>3, <2>4, <2>5, <2>6, <2>7 DEF Next, Closing
<1> QED BY <1>1, <1>2, PTL DEF Spec

\* The state stays well typed: no frame shows a stage that was not announced, and the
\* reporter forgets its thread when it has closed.
THEOREM ProgressTypeCorrect == Spec => []TypeOK
BY ProgressInvariance, PTL DEF Inv

\* When the display is closed no thread draws, and the outcome stands alone.
THEOREM OutcomeIsLast == Spec => []OutcomeStands
BY ProgressInvariance, PTL DEF Inv

\* The frames show the stages in the order the workflow enters them.
THEOREM FramesInOrder == Spec => NeverGoesBack
<1>1. ASSUME Inv, [Next]_vars
      PROVE [row # <<>> /\ row' # <<>> => row'[1] >= row[1]]_row
  <2> USE <1>1, NoneAssumption, WidthAssumption DEF Inv
  <2>1. ASSUME NEW t \in Threads, Write(t), row # <<>>
        PROVE row' = row \/ row'[1] >= row[1]
    <3>1. t = thread
      BY <2>1 DEF Write, ThreadInv
    <3>2. CASE read[t] # 0
      <4>0. Len(Width) \in Nat
        BY WidthAssumption
      <4>1. read[t] \in Stages
        BY <3>2, <4>0 DEF TypeOK, Stages
      <4>2. row'[1] = read[t]
        BY <2>1, <3>2, <4>1, OverwriteRow DEF Write, TypeOK
      <4>3. row[1] <= read[t]
        BY <2>1, <3>1, NoneAssumption DEF ThreadInv
      <4>4. row[1] \in Stages
        BY <2>1 DEF TypeOK
      <4> QED BY <4>0, <4>1, <4>2, <4>3, <4>4 DEF Stages
    <3>3. CASE read[t] = 0
      BY <2>1, <3>3 DEF Write
    <3> QED BY <3>2, <3>3
  <2>2. ASSUME Stage \/ Close \/ Join
               \/ (\E t \in Threads : Check(t) \/ Read(t) \/ Wake(t)) \/ UNCHANGED vars
        PROVE row' = row
    BY <2>2 DEF Stage, Close, Join, Check, Read, Wake, vars
  <2>3. ASSUME Clear \/ PrintOutcome PROVE row' = row \/ row' = <<>>
    BY <2>3 DEF Clear, PrintOutcome
  <2> QED BY <2>1, <2>2, <2>3 DEF Next, Closing, Animate
<1> QED BY <1>1, ProgressInvariance, PTL DEF Spec, NeverGoesBack
====================================================================================
