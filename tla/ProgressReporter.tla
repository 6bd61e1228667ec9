---------------------------- MODULE ProgressReporter ----------------------------
(***************************************************************************)
(* cli._ProgressReporter: the thread of a command announces the stages of  *)
(* the identification and closes the display; on a terminal a second       *)
(* thread redraws the current stage on one row until it is told to stop.   *)
(* A stage is its number in the workflow; all that matters of its text is  *)
(* how many columns it takes.                                              *)
(***************************************************************************)
EXTENDS Integers, Sequences

CONSTANTS
  Width,    \* Width[s]: the columns of the text of stage s, a sequence
  Threads,  \* the animation threads that could exist
  None

ASSUME WidthAssumption == Width \in Seq(Nat \ {0})
ASSUME NoneAssumption == None \notin Threads

Stages == 1..Len(Width)

Outcome == 0   \* a finished row with the final line alone,
Garbled == -1  \* or with the remains of a frame
Lines == Stages \cup {Outcome, Garbled}

VARIABLES
  mode,          \* how the reporter was made: one line per stage, or one live row
  entered,       \* the stages announced so far
  stage,         \* _stage, 0 for the empty text
  stop, thread,  \* _stop and _thread
  caller,        \* where the thread of the command is
  closing,       \* what closes the display, finish or cancel
  pc, read,      \* the animation threads: the next step, and the stage read
  row, lines     \* the terminal: the unfinished row by columns, the finished rows

vars == <<mode, entered, stage, stop, thread, caller, closing, pc, read, row, lines>>
animation == <<pc, read>>

Init ==
  /\ mode \in {"verbose", "lines", "live"}
  /\ entered = 0 /\ stage = 0
  /\ stop = FALSE /\ thread = None
  /\ caller = "running" /\ closing = "none"
  /\ pc = [t \in Threads |-> "none"]
  /\ read = [t \in Threads |-> 0]
  /\ row = <<>> /\ lines = <<>>

Start(t) ==
  /\ pc[t] = "none"
  /\ pc' = [pc EXCEPT ![t] = "check"]
  /\ thread' = t

-----------------------------------------------------------------------------
(* The thread of the command.                                              *)

\* Wrong on purpose: every stage starts a thread of its own.
StageAlwaysStarts ==
  /\ caller = "running" /\ entered < Len(Width)
  /\ entered' = entered + 1
  /\ IF mode = "live"
       THEN /\ stage' = entered'
            /\ \E t \in Threads : Start(t)
            /\ UNCHANGED lines
       ELSE /\ lines' = Append(lines, entered')
            /\ UNCHANGED <<stage, thread, pc>>
  /\ UNCHANGED <<mode, stop, caller, closing, read, row>>

\* Wrong on purpose: a thread that is already running is not told the new stage.
StageOnlyAtStart ==
  /\ caller = "running" /\ entered < Len(Width)
  /\ entered' = entered + 1
  /\ IF mode = "live"
       THEN /\ IF thread = None THEN stage' = entered' /\ \E t \in Threads : Start(t)
                                ELSE UNCHANGED <<stage, thread, pc>>
            /\ UNCHANGED lines
       ELSE /\ lines' = Append(lines, entered')
            /\ UNCHANGED <<stage, thread, pc>>
  /\ UNCHANGED <<mode, stop, caller, closing, read, row>>

\* The workflow enters its next stage.  Only this thread starts another, so storing
\* the stage and starting the first thread are one step.
Stage ==
  /\ caller = "running" /\ entered < Len(Width)
  /\ entered' = entered + 1
  /\ IF mode = "live"
       THEN /\ stage' = entered'
            /\ IF thread = None THEN \E t \in Threads : Start(t)
                                ELSE UNCHANGED <<thread, pc>>
            /\ UNCHANGED lines
       ELSE /\ lines' = Append(lines, entered')
            /\ UNCHANGED <<stage, thread, pc>>
  /\ UNCHANGED <<mode, stop, caller, closing, read, row>>

\* The workflow ends, at any stage, with a result or an error that has a final line,
\* or with an exception that has none.
Close ==
  /\ caller = "running"
  /\ closing' \in {"finish", "cancel"}
  /\ IF thread # None THEN stop' = TRUE /\ caller' = "joining"
                      ELSE UNCHANGED stop /\ caller' = "clearing"
  /\ UNCHANGED <<mode, entered, stage, thread, animation, row, lines>>

\* Wrong on purpose: the thread is told to stop, and not waited for.
JoinAtOnce ==
  /\ caller = "joining"
  /\ thread' = None
  /\ caller' = "clearing"
  /\ UNCHANGED <<mode, entered, stage, stop, closing, animation, row, lines>>

Join ==
  /\ caller = "joining"
  /\ pc[thread] = "ended"
  /\ thread' = None
  /\ caller' = "clearing"
  /\ UNCHANGED <<mode, entered, stage, stop, closing, animation, row, lines>>

Clear ==
  /\ caller = "clearing"
  /\ row' = IF mode = "live" THEN <<>> ELSE row
  /\ caller' = IF closing = "finish" THEN "printing" ELSE "closed"
  /\ UNCHANGED <<mode, entered, stage, stop, thread, closing, animation, lines>>

\* The final line ends the row, together with whatever the row still shows.
PrintOutcome ==
  /\ caller = "printing"
  /\ lines' = Append(lines, IF row = <<>> THEN Outcome ELSE Garbled)
  /\ row' = <<>>
  /\ caller' = "closed"
  /\ UNCHANGED <<mode, entered, stage, stop, thread, closing, animation>>

-----------------------------------------------------------------------------
(* An animation thread.                                                    *)

Goto(t, step) == pc' = [pc EXCEPT ![t] = step]

Check(t) ==
  /\ pc[t] = "check"
  /\ Goto(t, IF stop THEN "ended" ELSE "read")
  /\ UNCHANGED <<mode, entered, stage, stop, thread, caller, closing, read, row, lines>>

\* Under _lock.
Read(t) ==
  /\ pc[t] = "read"
  /\ read' = [read EXCEPT ![t] = stage]
  /\ Goto(t, "write")
  /\ UNCHANGED <<mode, entered, stage, stop, thread, caller, closing, row, lines>>

\* A carriage return and the text: columns beyond the text keep what they show.
Overwrite(columns, s) ==
  [i \in 1..(IF Width[s] > Len(columns) THEN Width[s] ELSE Len(columns)) |->
     IF i <= Width[s] THEN s ELSE columns[i]]

Write(t) ==
  /\ pc[t] = "write"
  /\ row' = IF read[t] # 0 THEN Overwrite(row, read[t]) ELSE row
  /\ Goto(t, "wait")
  /\ UNCHANGED <<mode, entered, stage, stop, thread, caller, closing, read, lines>>

\* The wait ends with its interval, or at once when _stop is set.
Wake(t) ==
  /\ pc[t] = "wait"
  /\ Goto(t, "check")
  /\ UNCHANGED <<mode, entered, stage, stop, thread, caller, closing, read, row, lines>>

Animate(t) == Check(t) \/ Read(t) \/ Write(t) \/ Wake(t)

Closing == Join \/ Clear \/ PrintOutcome

Next == Stage \/ Close \/ Closing \/ \E t \in Threads : Animate(t)

\* Both threads are scheduled; nothing says that a stage ends.
Fairness == WF_vars(Closing) /\ \A t \in Threads : WF_vars(Animate(t))

Spec == Init /\ [][Next]_vars /\ Fairness

-----------------------------------------------------------------------------
TypeOK ==
  /\ mode \in {"verbose", "lines", "live"}
  /\ entered \in 0..Len(Width)
  /\ stage \in 0..entered
  /\ stop \in BOOLEAN
  /\ thread \in Threads \cup {None}
  /\ thread # None => mode = "live" /\ caller \in {"running", "joining"}
  /\ caller \in {"running", "joining", "clearing", "printing", "closed"}
  /\ closing \in {"none", "finish", "cancel"}
  /\ pc \in [Threads -> {"none", "check", "read", "write", "wait", "ended"}]
  /\ read \in [Threads -> 0..entered]
  /\ row \in Seq(Stages)
  /\ lines \in Seq(Lines)

\* Once finish or cancel has returned the terminal is the command's again: no thread
\* is left that could draw over its output, the row is clean, and the outcome is a
\* line of its own, which no frame shares.
OutcomeStands ==
  caller = "closed" =>
    /\ \A t \in Threads : pc[t] \in {"none", "ended"}
    /\ row = <<>>
    /\ closing = "finish" => lines # <<>> /\ lines[Len(lines)] = Outcome

\* "The stage label changes only when the underlying workflow actually enters a new
\* operation": a frame never shows an earlier stage than the frame before, although
\* each is drawn after the lock is released.
NeverGoesBack ==
  [][row # <<>> /\ row' # <<>> => row'[1] >= row[1]]_row

\* A stage that lasts is shown.
StageIsShown ==
  \A s \in Stages :
    mode = "live" /\ entered = s ~>
      (row # <<>> /\ row[1] >= s) \/ entered > s \/ caller # "running"

\* Closing the display never waits for ever: the two threads do not wait for each
\* other, whatever the animation was doing when it was told to stop.
CloseReturns == caller = "joining" ~> caller = "closed"

\* The display keeps up with the command and lets it go.
DisplayGoesOn == StageIsShown /\ CloseReturns
=================================================================================
