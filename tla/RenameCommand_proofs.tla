--------------------------- MODULE RenameCommand_proofs ---------------------------
(***************************************************************************)
(* Proofs about rename commands running at once over one directory, for    *)
(* any number of commands, names and files.                                *)
(***************************************************************************)
EXTENDS RenameCommand, TLAPS

-----------------------------------------------------------------------------
(***************************************************************************)
(* rename_file_no_overwrite alone, for any directory, any objects and any  *)
(* number of calls in progress.                                            *)
(***************************************************************************)
\* Types are preserved by every step of a call and by every other program: the
\* parameters of a call are two different names for as long as it runs.
LEMMA FileStepType ==
  ASSUME FileTypeOK, NEW p \in Instances, FileStep(p)
  PROVE  FileTypeOK'
<1> USE NameAssumption, ObjectAssumption
    DEF FileTypeOK, PreLink, Holding, Outcomes, Objects, Free, Goto, End
<1>1. CASE CheckSymlink(p)
  BY <1>1 DEF CheckSymlink
<1>2. CASE CheckFile(p)
  BY <1>2 DEF CheckFile
<1>3. CASE CheckDestination(p)
  BY <1>3 DEF CheckDestination
<1>4. CASE Link(p)
  BY <1>4 DEF Link
<1>5. CASE Unlink(p)
  BY <1>5 DEF Unlink
<1>6. CASE Rollback(p)
  BY <1>6 DEF Rollback
<1>7. CASE Crash(p)
  BY <1>7 DEF Crash
<1> QED
  BY <1>1, <1>2, <1>3, <1>4, <1>5, <1>6, <1>7 DEF FileStep

LEMMA CallType ==
  ASSUME FileTypeOK, NEW p \in Instances, NEW s \in Names, NEW d \in Names, Call(p, s, d)
  PROVE  FileTypeOK'
BY NameAssumption, ObjectAssumption
   DEF FileTypeOK, PreLink, Holding, Outcomes, Objects, End, Call

LEMMA OutsideType == FileTypeOK /\ Outside => FileTypeOK'
BY DEF FileTypeOK, Outside

LEMMA FileInitType == FileInit => FileTypeOK
BY DEF FileInit, FileTypeOK, Outcomes

\* A call's parameters and places stay within their types whatever the other
\* calls and the other programs do to the directory.
THEOREM FileTypeCorrect == FileSpec => []FileTypeOK
<1>1. FileTypeOK /\ [Calls \/ Outside]_fileVars => FileTypeOK'
  <2> SUFFICES ASSUME FileTypeOK, [Calls \/ Outside]_fileVars
               PROVE  FileTypeOK'
    OBVIOUS
  <2>1. CASE Calls
    BY <2>1, FileStepType, CallType DEF Calls
  <2>2. CASE Outside
    BY <2>2, OutsideType
  <2>3. CASE UNCHANGED fileVars
    BY <2>3 DEF fileVars, FileTypeOK
  <2> QED
    BY <2>1, <2>2, <2>3
<1> QED
  BY <1>1, FileInitType, PTL DEF FileSpec

\* No step of a call puts an object under a name that holds another one: only
\* the link fills an entry, and it fills a free one.
LEMMA StepNeverReplaces ==
  ASSUME FileTypeOK, NEW p \in Instances, FileStep(p), NEW n \in Names, ~Free(n)
  PROVE  dir'[n] \in {dir[n], NoEntry}
BY DEF FileTypeOK, FileStep, CheckSymlink, CheckFile, CheckDestination,
       Link, Unlink, Rollback, Crash, Goto, End, Free

\* The promise of the function's name, for any number of calls and any other
\* programs: it never overwrites.
THEOREM NoOverwrite == FileSpec => NeverReplaces
<1>1. FileTypeOK /\ [Calls \/ Outside]_fileVars
        => [(\E p \in Instances : FileStep(p))
              => \A n \in Names : ~Free(n) => dir'[n] \in {dir[n], NoEntry}]_fileVars
  BY StepNeverReplaces
<1> QED
  BY <1>1, FileTypeCorrect, PTL DEF FileSpec, NeverReplaces

-----------------------------------------------------------------------------
(***************************************************************************)
(* One call at a time and no other program: between the link and its end a *)
(* call finds the one object under both names, so whichever name it removes *)
(* the other is left.                                                      *)
(***************************************************************************)
BothNames ==
  \A p \in Instances : pc[p] \in Holding => dir[src[p]] = dir[dst[p]] /\ ~Free(src[p])

AloneInv == FileTypeOK /\ BothNames

LEMMA AloneStep ==
  ASSUME \A p, q \in Instances : p = q, AloneInv, Calls
  PROVE  AloneInv' /\ \A f \in Files : Named(f) => Named(f)'
<1> USE ObjectAssumption DEF AloneInv, BothNames, FileTypeOK, Holding, PreLink, Free
<1>1. FileTypeOK'
  BY FileStepType, CallType DEF Calls
<1>2. PICK p \in Instances : (\E s, d \in Names : Call(p, s, d)) \/ FileStep(p)
  BY DEF Calls
<1>3. \A q \in Instances : q = p
  OBVIOUS
<1>4. CASE \E s, d \in Names : Call(p, s, d)
  BY <1>1, <1>3, <1>4 DEF Call, End, Named
<1>5. CASE CheckSymlink(p) \/ CheckFile(p) \/ CheckDestination(p) \/ Crash(p)
  BY <1>1, <1>3, <1>5 DEF CheckSymlink, CheckFile, CheckDestination, Crash, Goto, End, Named
<1>6. CASE Link(p)
  <2>1. BothNames'
    BY <1>1, <1>3, <1>6 DEF Link, Goto, End
  <2>2. \A f \in Files : Named(f) => Named(f)'
    BY <1>6 DEF Link, Named, Objects
  <2> QED
    BY <1>1, <2>1, <2>2
<1>7. CASE Unlink(p)
  <2>1. BothNames'
    BY <1>1, <1>3, <1>7 DEF Unlink, Goto, End
  <2>2. \A f \in Files : Named(f) => Named(f)'
    BY <1>7 DEF Unlink, Named, Objects
  <2> QED
    BY <1>1, <2>1, <2>2
<1>8. CASE Rollback(p)
  <2>1. BothNames'
    BY <1>1, <1>3, <1>8 DEF Rollback, End
  <2>2. \A f \in Files : Named(f) => Named(f)'
    BY <1>8 DEF Rollback, Named, Objects
  <2> QED
    BY <1>1, <2>1, <2>2
<1> QED
  BY <1>2, <1>4, <1>5, <1>6, <1>7, <1>8 DEF FileStep

\* A single call loses no file, in any directory, whichever of its system calls
\* fails and wherever it dies.
THEOREM AloneKeepsEveryFile ==
  ASSUME \A p, q \in Instances : p = q
  PROVE  ClosedFileSpec => KeepsEveryFile
<1>1. FileInit => AloneInv
  BY FileInitType DEF FileInit, AloneInv, BothNames, Holding
<1>2. AloneInv /\ [Calls]_fileVars => AloneInv'
  <2>1. CASE Calls
    BY <2>1, AloneStep
  <2>2. CASE UNCHANGED fileVars
    BY <2>2 DEF fileVars, AloneInv, BothNames, FileTypeOK, Holding, Free
  <2> QED
    BY <2>1, <2>2
<1>3. AloneInv /\ [Calls]_fileVars => [\A f \in Files : Named(f) => Named(f)']_fileVars
  BY AloneStep
<1> QED
  BY <1>1, <1>2, <1>3, PTL DEF ClosedFileSpec, KeepsEveryFile

-----------------------------------------------------------------------------
(***************************************************************************)
(* The inductive invariant: SourceOrSettled covers a call until its link,  *)
(* OwnsDestination from the link to its end, and the two below say what    *)
(* the plan has established for good.                                      *)
(***************************************************************************)
Apart ==
  \A p \in Instances : stage[p] \in {"prompt", "calling"} => Destination(p) # path[p]

PlannedSafe ==
  \A p \in Instances : stage[p] \in {"prompt", "calling"} => Verdict[seen[p]] = "safe"

NoLinkFound ==
  \A p \in Instances : stage[p] = "identify" => dir[path[p]] \notin Links

IInv == /\ TypeOK /\ NoFileLost /\ SourceOrSettled /\ OwnsDestination
        /\ Apart /\ PlannedSafe /\ NoLinkFound

-----------------------------------------------------------------------------
\* A planned name is a name, and it is the planned name of what it holds.
LEMMA DestinationType ==
  ASSUME TypeOK, NEW p \in Instances, path[p] \in Names, seen[p] \in Files
  PROVE  /\ Destination(p) \in Names
         /\ Canonical[<<Destination(p), seen[p]>>] = Destination(p)
BY CanonicalAssumption DEF Destination

\* Two commands that have found the same file under the same name, or one of
\* them under the name planned by the other, plan the same name.
LEMMA SamePlan ==
  ASSUME TypeOK, NEW p \in Instances, NEW q \in Instances,
         path[p] \in Names, seen[p] \in Files, seen[q] = seen[p],
         path[q] = path[p] \/ path[q] = Destination(p)
  PROVE  Destination(q) = Destination(p)
BY DestinationType DEF Destination

LEMMA CommandStepType ==
  ASSUME TypeOK, NEW p \in Instances, CommandStep(p)
  PROVE  TypeOK'
<1> USE DEF TypeOK, Stages, Exits, Exit
<1>1. ASSUME UNCHANGED fileVars, stage[p] # "calling", 
             \/ \E c \in Exits : Exit(p, c)
             \/ /\ \E s \in Stages \ {"idle", "calling"}, n \in Names, f \in Files \cup {NoFile} :
                     /\ stage' = [stage EXCEPT ![p] = s]
                     /\ path' = [path EXCEPT ![p] = n]
                     /\ seen' = [seen EXCEPT ![p] = f]
                     /\ s # "identify" => f \in Files
                /\ UNCHANGED exit
      PROVE  TypeOK'
  <2>1. FileTypeOK'
    BY <1>1 DEF fileVars, FileTypeOK
  <2>2. \A q \in Instances : pc'[q] # "out" => q # p
    BY <1>1 DEF fileVars
  <2>3. \A q \in Instances \ {p} : /\ stage'[q] = stage[q] /\ path'[q] = path[q]
                                   /\ seen'[q] = seen[q]
    BY <1>1
  <2>4. \A q \in Instances : pc'[q] # "out" =>
          stage'[q] = "calling" /\ src'[q] = path'[q] /\ dst'[q] = Destination(q)'
    BY <1>1, <2>2, <2>3 DEF fileVars, Destination
  <2>5. /\ stage' \in [Instances -> Stages]
        /\ path' \in [Instances -> Names \cup {NoName}]
        /\ seen' \in [Instances -> Files \cup {NoFile}]
        /\ exit' \in [Instances -> Exits]
    BY <1>1
  <2>6. \A q \in Instances :
          /\ stage'[q] # "idle" => path'[q] \in Names
          /\ stage'[q] \in {"plan", "prompt", "calling"} => seen'[q] \in Files
    BY <1>1, <2>3
  <2> QED
    BY <2>1, <2>4, <2>5, <2>6
<1>2. CASE \E n \in Names : Start(p, n)
  BY <1>1, <1>2 DEF Start
<1>3. CASE Identify(p)
  BY <1>1, <1>3 DEF Identify
<1>4. CASE Plan(p)
  BY <1>1, <1>4 DEF Plan
<1>5. CASE Confirm(p)
  <2>1. Destination(p) \in Names
    BY <1>5, DestinationType DEF Confirm
  <2>2. FileTypeOK'
    BY <1>5, <2>1, CallType DEF Confirm
  <2> QED
    BY <1>5, <2>1, <2>2 DEF Confirm, Call, End, FileTypeOK, Destination
<1>6. CASE Decline(p)
  BY <1>1, <1>6 DEF Decline
<1>7. CASE Report(p)
  <2>1. FileTypeOK'
    BY <1>7 DEF Report, FileTypeOK, Outcomes
  <2> QED
    BY <1>7, <2>1 DEF Report, Destination
<1>8. CASE Kill(p)
  BY <1>1, <1>8 DEF Kill
<1> QED
  BY <1>2, <1>3, <1>4, <1>5, <1>6, <1>7, <1>8 DEF CommandStep

LEMMA CallStepType ==
  ASSUME TypeOK, NEW p \in Instances, FileStep(p), UNCHANGED commandVars
  PROVE  TypeOK'
<1>1. FileTypeOK'
  BY FileStepType DEF TypeOK
<1>2. \A q \in Instances : pc'[q] # "out" => pc[q] # "out" /\ src'[q] = src[q] /\ dst'[q] = dst[q]
  BY DEF TypeOK, FileTypeOK, FileStep, CheckSymlink, CheckFile, CheckDestination, Link,
         Unlink, Rollback, Crash, Goto, End
<1> QED
  BY <1>1, <1>2 DEF TypeOK, commandVars, Destination

\* The types do not depend on what other programs do to the directory.
LEMMA OpenTypes == OpenSpec => []TypeOK
<1>1. Init => TypeOK
  BY FileInitType DEF Init, FileInit, TypeOK, Stages, Exits
<1>2. TypeOK /\ [Next \/ (Outside /\ UNCHANGED commandVars)]_vars => TypeOK'
  <2> SUFFICES ASSUME TypeOK, [Next \/ (Outside /\ UNCHANGED commandVars)]_vars
               PROVE  TypeOK'
    OBVIOUS
  <2>1. CASE Next
    BY <2>1, CommandStepType, CallStepType DEF Next
  <2>2. CASE Outside /\ UNCHANGED commandVars
    <3>1. FileTypeOK'
      BY <2>2, OutsideType DEF TypeOK
    <3> QED
      BY <2>2, <3>1 DEF Outside, TypeOK, commandVars, Destination
  <2>3. CASE UNCHANGED vars
    BY <2>3 DEF vars, TypeOK, FileTypeOK, Destination
  <2> QED
    BY <2>1, <2>2, <2>3
<1> QED
  BY <1>1, <1>2, PTL DEF OpenSpec

\* The commands never overwrite either, whoever else writes to the directory
\* between the plan, the answer and the system calls.
THEOREM CommandsNeverOverwrite == OpenSpec => NeverReplaces
<1>1. TypeOK /\ [Next \/ (Outside /\ UNCHANGED commandVars)]_vars
        => [(\E p \in Instances : FileStep(p))
              => \A n \in Names : ~Free(n) => dir'[n] \in {dir[n], NoEntry}]_fileVars
  BY StepNeverReplaces DEF TypeOK
<1> QED
  BY <1>1, OpenTypes, PTL DEF OpenSpec, NeverReplaces

-----------------------------------------------------------------------------
\* A step of a command outside the call changes neither the directory nor the
\* calls that are past their link.
LEMMA CommandStepFrame ==
  ASSUME TypeOK, NEW p \in Instances, CommandStep(p)
  PROVE  /\ dir' = dir
         /\ \A q \in Instances : q # p =>
              /\ stage'[q] = stage[q] /\ path'[q] = path[q] /\ seen'[q] = seen[q]
              /\ pc'[q] = pc[q] /\ src'[q] = src[q] /\ dst'[q] = dst[q]
         /\ pc[p] \notin Holding /\ pc'[p] \notin Holding
BY DEF TypeOK, FileTypeOK, CommandStep, Start, Identify, Plan, Confirm, Decline, Report,
       Kill, Exit, Call, End, fileVars, Holding

LEMMA CommandStepInv ==
  ASSUME IInv, NEW p \in Instances, CommandStep(p)
  PROVE  IInv'
<1>1. TypeOK'
  BY CommandStepType DEF IInv
<1>2. NoFileLost'
  BY CommandStepFrame DEF IInv, NoFileLost, Named
<1>3. OwnsDestination'
  BY CommandStepFrame DEF IInv, OwnsDestination
<1>4. \A n \in Names, f \in Files : Settled(n, f) => Settled(n, f)'
  BY CommandStepFrame DEF IInv, Settled
<1>5. \A q \in Instances \ {p} : Destination(q)' = Destination(q)
  BY CommandStepFrame DEF IInv, Destination
<1>6. SourceOrSettled'
  <2> SUFFICES ASSUME NEW q \in Instances, Waiting(q)'
               PROVE  dir'[path'[q]] = seen'[q] \/ Settled(Destination(q), seen[q])'
    BY DEF SourceOrSettled
  <2>1. CASE q # p
    <3>1. Waiting(q) /\ path[q] \in Names /\ seen[q] \in Files
      BY <2>1, <1>5, CommandStepFrame DEF IInv, Waiting, TypeOK, PreLink
    <3> QED
      BY <2>1, <3>1, <1>4, <1>5, CommandStepFrame, DestinationType
         DEF IInv, SourceOrSettled, Settled
  <2>2. CASE q = p /\ Identify(p)
    BY <2>2, CommandStepFrame
       DEF IInv, TypeOK, Identify, Waiting, Exit, NoLinkFound, fileVars, PreLink
  <2>3. CASE q = p /\ (Plan(p) \/ Confirm(p))
    <3>1. /\ Waiting(p) /\ path[p] \in Names /\ seen[p] \in Files
          /\ path'[p] = path[p] /\ seen'[p] = seen[p]
      BY <2>3 DEF IInv, TypeOK, FileTypeOK, Plan, Confirm, Waiting, Exit, fileVars,
                  PreLink, Destination, Call, End
    <3> QED
      BY <2>3, <3>1, <1>4, CommandStepFrame, DestinationType
         DEF IInv, SourceOrSettled, Settled, Destination
  <2>4. CASE q = p /\ ~(Identify(p) \/ Plan(p) \/ Confirm(p))
    BY <2>4 DEF IInv, TypeOK, CommandStep, Start, Decline, Report, Kill, Exit, Waiting,
                fileVars, PreLink
  <2> QED
    BY <2>1, <2>2, <2>3, <2>4
<1>7. Apart' /\ PlannedSafe'
  <2> SUFFICES ASSUME NEW q \in Instances, stage'[q] \in {"prompt", "calling"}
               PROVE  Destination(q)' # path'[q] /\ Verdict[seen'[q]] = "safe"
    BY DEF Apart, PlannedSafe
  <2>1. CASE q # p
    BY <2>1, <1>5, CommandStepFrame DEF IInv, Apart, PlannedSafe
  <2>2. CASE q = p
    BY <2>2 DEF IInv, TypeOK, Apart, PlannedSafe, CommandStep, Start, Identify, Plan, Confirm,
                Decline, Report, Kill, Exit, Destination
  <2> QED
    BY <2>1, <2>2
<1>8. NoLinkFound'
  BY CommandStepFrame DEF IInv, TypeOK, NoLinkFound, CommandStep, Start, Identify, Plan,
     Confirm, Decline, Report, Kill, Exit, Stages
<1> QED
  BY <1>1, <1>2, <1>3, <1>6, <1>7, <1>8 DEF IInv

-----------------------------------------------------------------------------
\* A call before its link that finds the destination free has its file at the
\* source.
LEMMA FreeMeansThere ==
  ASSUME IInv, NEW p \in Instances, pc[p] \in PreLink, Free(dst[p])
  PROVE  dir[src[p]] = seen[p]
BY ObjectAssumption
   DEF IInv, TypeOK, FileTypeOK, SourceOrSettled, Waiting, Settled, Free, Apart, Objects, PreLink

\* What a step of a call can do to the directory and to the calls.
LEMMA CallStepEffect ==
  ASSUME IInv, NEW p \in Instances, FileStep(p)
  PROVE  /\ \A q \in Instances : q # p =>
              pc'[q] = pc[q] /\ src'[q] = src[q] /\ dst'[q] = dst[q]
         /\ pc'[p] # "out" => src'[p] = src[p] /\ dst'[p] = dst[p]
         /\ pc'[p] \in PreLink => pc[p] \in PreLink
         /\ \/ dir' = dir /\ (pc'[p] \in Holding => pc[p] \in Holding)
            \/ /\ pc[p] \in PreLink /\ pc'[p] \in Holding /\ Free(dst[p])
               /\ dir[src[p]] = seen[p]
               /\ dir' = [dir EXCEPT ![dst[p]] = seen[p]]
            \/ /\ pc[p] \in Holding /\ pc'[p] = "out"
               /\ \/ dir' = [dir EXCEPT ![src[p]] = NoEntry]
                  \/ dir' = [dir EXCEPT ![dst[p]] = NoEntry]
<1> USE DEF IInv, TypeOK, FileTypeOK, PreLink, Holding, Goto, End
<1>1. CASE CheckSymlink(p) \/ CheckFile(p) \/ CheckDestination(p) \/ Crash(p)
  BY <1>1 DEF CheckSymlink, CheckFile, CheckDestination, Crash
<1>2. CASE Link(p)
  BY <1>2, FreeMeansThere DEF Link
<1>3. CASE Unlink(p)
  BY <1>3 DEF Unlink
<1>4. CASE Rollback(p)
  BY <1>4 DEF Rollback
<1> QED
  BY <1>1, <1>2, <1>3, <1>4 DEF FileStep

\* The removal of a name by a call: it is one of its two names, both of which
\* hold its file, and no file that another call relies on goes with it.
LEMMA RemovalInv ==
  ASSUME IInv, NEW p \in Instances, pc[p] \in Holding, pc'[p] = "out",
         \A q \in Instances : q # p => pc'[q] = pc[q] /\ src'[q] = src[q] /\ dst'[q] = dst[q],
         UNCHANGED commandVars,
         NEW n \in {src[p], dst[p]}, dir' = [dir EXCEPT ![n] = NoEntry]
  PROVE  /\ NoFileLost' /\ OwnsDestination' /\ SourceOrSettled'
         /\ \A m \in Names, f \in Files : Settled(m, f) => dir'[m] = f
<1>1. /\ src[p] \in Names /\ dst[p] \in Names /\ src[p] # dst[p]
      /\ src[p] = path[p] /\ dst[p] = Destination(p) /\ seen[p] \in Files
      /\ dir[src[p]] = seen[p] /\ dir[dst[p]] = seen[p]
      /\ stage[p] = "calling"
      /\ Canonical[<<dst[p], seen[p]>>] = dst[p]
  BY DestinationType DEF IInv, TypeOK, FileTypeOK, OwnsDestination, Holding
<1>2. NoFileLost'
  <2>1. PICK m \in {src[p], dst[p]} : m # n
    BY <1>1
  <2>2. dir'[m] = seen[p] /\ \A k \in Names \ {n} : dir'[k] = dir[k]
    BY <1>1, <2>1 DEF IInv, TypeOK, FileTypeOK
  <2> QED
    BY <1>1, <2>1, <2>2 DEF IInv, NoFileLost, Named
<1>3. \A q \in Instances \ {p} : Destination(q)' = Destination(q)
  BY DEF commandVars, Destination
<1>4. OwnsDestination'
  <2> SUFFICES ASSUME NEW q \in Instances, pc[q] \in Holding, q # p
               PROVE  dst[q] # n /\ src[q] # n
    BY <1>1 DEF IInv, TypeOK, FileTypeOK, OwnsDestination, commandVars, Holding
  <2>1. /\ dir[src[q]] = seen[q] /\ dir[dst[q]] = seen[q] /\ dst[q] # dst[p]
        /\ src[q] = path[q] /\ dst[q] = Destination(q) /\ src[q] # dst[q]
        /\ path[q] \in Names /\ seen[q] \in Files
    BY <1>1 DEF IInv, TypeOK, FileTypeOK, OwnsDestination, Holding
  <2>2. src[q] # dst[p] /\ src[q] # src[p]
    BY <1>1, <2>1, SamePlan DEF IInv, TypeOK
  <2>3. dst[q] # src[p]
    BY <1>1, <2>1, SamePlan DEF IInv, TypeOK
  <2> QED
    BY <2>1, <2>2, <2>3
<1>5. ASSUME NEW m \in Names, NEW f \in Files, Settled(m, f)
      PROVE  Settled(m, f)'
  <2>1. m # dst[p]
    BY <1>5 DEF Settled
  <2>2. m # src[p]
    BY <1>1, <1>5 DEF Settled, Destination
  <2> QED
    BY <1>1, <1>5, <2>1, <2>2 DEF Settled, IInv, TypeOK, FileTypeOK, Holding
<1>6. SourceOrSettled'
  <2> SUFFICES ASSUME NEW q \in Instances, Waiting(q)'
               PROVE  dir'[path[q]] = seen[q] \/ Settled(Destination(q), seen[q])'
    BY DEF SourceOrSettled, commandVars
  <2>1. /\ q # p /\ Waiting(q) /\ path[q] \in Names /\ seen[q] \in Files
        /\ Destination(q) \in Names /\ Destination(q) # path[q]
    BY <1>1, <1>3, DestinationType DEF IInv, TypeOK, Waiting, PreLink, commandVars
  <2>2. CASE Settled(Destination(q), seen[q])
    BY <1>3, <1>5, <2>1, <2>2 DEF commandVars, Settled
  <2>3. CASE dir[path[q]] = seen[q] /\ path[q] # n
    BY <2>1, <2>3, <1>1 DEF IInv, TypeOK, FileTypeOK
  <2>4. CASE dir[path[q]] = seen[q] /\ path[q] = n
    <3>1. seen[q] = seen[p] /\ Destination(q) = Destination(p)
      BY <1>1, <2>1, <2>4, SamePlan DEF IInv
    <3>2. n = src[p]
      BY <1>1, <2>1, <2>4, <3>1
    <3>3. dir'[dst[p]] = seen[p]
      BY <1>1, <3>2 DEF IInv, TypeOK, FileTypeOK
    <3>4. \A r \in Instances : ~(pc'[r] \in Holding /\ dst'[r] = dst[p])
      BY DEF IInv, OwnsDestination, Holding
    <3>5. Canonical[<<dst[p], seen[p]>>] = dst[p]
      BY <1>1
    <3> QED
      BY <1>1, <1>3, <2>1, <3>1, <3>3, <3>4, <3>5 DEF Settled, commandVars
  <2> QED
    BY <2>1, <2>2, <2>3, <2>4 DEF IInv, SourceOrSettled
<1> QED
  BY <1>2, <1>4, <1>5, <1>6 DEF Settled

\* The link: it fills a free name with the file of the call, which becomes the
\* only one to hold that name.
LEMMA LinkInv ==
  ASSUME IInv, NEW p \in Instances, pc[p] \in PreLink, pc'[p] \in Holding, Free(dst[p]),
         src'[p] = src[p] /\ dst'[p] = dst[p],
         \A q \in Instances : q # p => pc'[q] = pc[q] /\ src'[q] = src[q] /\ dst'[q] = dst[q],
         UNCHANGED commandVars,
         dir[src[p]] = seen[p], dir' = [dir EXCEPT ![dst[p]] = seen[p]]
  PROVE  /\ NoFileLost' /\ OwnsDestination' /\ SourceOrSettled'
         /\ \A m \in Names, f \in Files : Settled(m, f) => dir'[m] = f
<1>1. /\ src[p] \in Names /\ dst[p] \in Names /\ src[p] # dst[p]
      /\ src[p] = path[p] /\ dst[p] = Destination(p) /\ seen[p] \in Files
      /\ stage[p] = "calling"
  BY DEF IInv, TypeOK, FileTypeOK, PreLink
<1>2. dir'[dst[p]] = seen[p] /\ \A k \in Names \ {dst[p]} : dir'[k] = dir[k]
  BY <1>1 DEF IInv, TypeOK, FileTypeOK
<1>3. \A k \in Names : dir[k] \in Files => k # dst[p]
  BY ObjectAssumption DEF Free, Objects
<1>4. NoFileLost'
  BY <1>2, <1>3 DEF IInv, NoFileLost, Named
<1>5. OwnsDestination'
  <2>1. \A q \in Instances \ {p} : pc[q] \in Holding =>
          /\ dir[src[q]] = seen[q] /\ dir[dst[q]] = seen[q] /\ seen[q] \in Files
          /\ src[q] \in Names /\ dst[q] \in Names
    BY DEF IInv, TypeOK, FileTypeOK, OwnsDestination, Holding
  <2>2. \A q \in Instances \ {p} : pc[q] \in Holding => dst[q] # dst[p] /\ src[q] # dst[p]
    BY <2>1, <1>3
  <2> QED
    BY <1>1, <1>2, <2>1, <2>2 DEF IInv, OwnsDestination, commandVars
<1>6. \A m \in Names, f \in Files : Settled(m, f) => Settled(m, f)'
  BY <1>2, <1>3 DEF Settled
<1>7. SourceOrSettled'
  <2> SUFFICES ASSUME NEW q \in Instances, Waiting(q)'
               PROVE  dir'[path[q]] = seen[q] \/ Settled(Destination(q), seen[q])'
    BY DEF SourceOrSettled, commandVars
  <2>1. /\ q # p /\ Waiting(q) /\ path[q] \in Names /\ seen[q] \in Files
        /\ Destination(q) \in Names /\ Destination(q)' = Destination(q)
    BY <1>1, DestinationType
       DEF IInv, TypeOK, Waiting, PreLink, Holding, commandVars, Destination
  <2> QED
    BY <1>2, <1>3, <1>6, <2>1 DEF IInv, SourceOrSettled, Settled, commandVars
<1> QED
  BY <1>4, <1>5, <1>6, <1>7 DEF Settled

LEMMA CallStepInv ==
  ASSUME IInv, NEW p \in Instances, FileStep(p), UNCHANGED commandVars
  PROVE  /\ IInv'
         /\ \A m \in Names, f \in Files : Settled(m, f) => dir'[m] = f
<1>1. TypeOK'
  BY CallStepType DEF IInv
<1>2. Apart' /\ PlannedSafe'
  BY DEF IInv, Apart, PlannedSafe, commandVars, Destination
<1>3. NoLinkFound'
  BY CallStepEffect, ObjectAssumption
     DEF IInv, TypeOK, FileTypeOK, NoLinkFound, commandVars, Objects, PreLink, Holding
<1>4. /\ NoFileLost' /\ OwnsDestination' /\ SourceOrSettled'
      /\ \A m \in Names, f \in Files : Settled(m, f) => dir'[m] = f
  <2>1. CASE dir' = dir /\ (pc'[p] \in Holding => pc[p] \in Holding)
    <3>1. \A q \in Instances :
            /\ pc'[q] \in Holding => pc[q] \in Holding
            /\ pc'[q] \in Holding \cup PreLink => src'[q] = src[q] /\ dst'[q] = dst[q]
            /\ pc'[q] \in PreLink => pc[q] \in PreLink
      BY <2>1, CallStepEffect DEF Holding, PreLink
    <3>0. UNCHANGED <<stage, path, seen>>
      BY DEF commandVars
    <3>2. NoFileLost'
      BY <2>1 DEF IInv, NoFileLost, Named
    <3>3. OwnsDestination'
      BY <2>1, <3>0, <3>1 DEF IInv, OwnsDestination, Holding
    <3>4. \A m \in Names, f \in Files : Settled(m, f) => Settled(m, f)'
      BY <2>1, <3>1 DEF Settled, Holding
    <3>5. SourceOrSettled'
      <4> SUFFICES ASSUME NEW q \in Instances, Waiting(q)'
                   PROVE  dir'[path[q]] = seen[q] \/ Settled(Destination(q), seen[q])'
        BY DEF SourceOrSettled, commandVars
      <4>1. /\ Waiting(q) /\ path[q] \in Names /\ seen[q] \in Files
            /\ Destination(q) \in Names /\ Destination(q)' = Destination(q)
        <5>1. Destination(q)' = Destination(q)
          BY <3>0 DEF Destination
        <5>2. Waiting(q)
          BY <3>0, <3>1, <5>1 DEF Waiting
        <5> QED
          BY <5>1, <5>2, DestinationType DEF IInv, TypeOK, Waiting, PreLink
      <4> QED
        BY <2>1, <3>4, <4>1 DEF IInv, SourceOrSettled, Settled, commandVars
    <3> QED
      BY <3>2, <3>3, <3>4, <3>5 DEF Settled
  <2>2. CASE /\ pc[p] \in PreLink /\ pc'[p] \in Holding /\ Free(dst[p])
             /\ dir[src[p]] = seen[p]
             /\ dir' = [dir EXCEPT ![dst[p]] = seen[p]]
    BY <2>2, CallStepEffect, LinkInv DEF Holding
  <2>3. CASE /\ pc[p] \in Holding /\ pc'[p] = "out"
             /\ \/ dir' = [dir EXCEPT ![src[p]] = NoEntry]
                \/ dir' = [dir EXCEPT ![dst[p]] = NoEntry]
    BY <2>3, CallStepEffect, RemovalInv
  <2> QED
    BY <2>1, <2>2, <2>3, CallStepEffect
<1> QED
  BY <1>1, <1>2, <1>3, <1>4 DEF IInv

-----------------------------------------------------------------------------
LEMMA InitInv == Init => IInv
<1>1. Init => TypeOK
  BY FileInitType DEF Init, FileInit, TypeOK, Stages, Exits
<1> QED
  BY <1>1 DEF Init, FileInit, IInv, NoFileLost, SourceOrSettled, OwnsDestination, Apart,
              PlannedSafe, NoLinkFound, Waiting, PreLink, Holding

LEMMA StepInv == IInv /\ [Next]_vars => IInv'
<1> SUFFICES ASSUME IInv, [Next]_vars
             PROVE  IInv'
  OBVIOUS
<1>1. CASE Next
  BY <1>1, CommandStepInv, CallStepInv DEF Next
<1>2. CASE UNCHANGED vars
  BY <1>2 DEF vars, IInv, TypeOK, FileTypeOK, NoFileLost, Named, SourceOrSettled, Waiting,
              Settled, OwnsDestination, Apart, PlannedSafe, NoLinkFound, Destination
<1> QED
  BY <1>1, <1>2

\* The invariant of concurrent commands, from which all that follows is taken.
THEOREM Invariance == Spec => []IInv
BY InitInv, StepInv, PTL DEF Spec

\* The parameters, the stages and the exit codes of the commands stay within
\* their types.
THEOREM TypeCorrect == Spec => []TypeOK
BY Invariance, PTL DEF IInv

\* Any number of rename commands over one directory lose no file, whatever fails
\* and wherever they die.
THEOREM NoLoss == Spec => []NoFileLost
BY Invariance, PTL DEF IInv

\* Between its link and its end a call owns its destination.
THEOREM Ownership == Spec => []OwnsDestination
BY Invariance, PTL DEF IInv

\* What a call removes on success is the name of the file that was verified.
THEOREM VerifiedIsRenamed == Spec => RenamedIsVerified
<1>1. IInv /\ [Next]_vars =>
        [\A p \in Instances :
           pc[p] = "unlink" /\ pc'[p] = "out" /\ outcome'[p] = "ok"
             => /\ dir[path[p]] = seen[p] /\ Verdict[seen[p]] = "safe"
                /\ dir'[Destination(p)] = seen[p]]_vars
  <2> SUFFICES ASSUME IInv, Next, NEW p \in Instances,
                      pc[p] = "unlink", pc'[p] = "out", outcome'[p] = "ok"
               PROVE  /\ dir[path[p]] = seen[p] /\ Verdict[seen[p]] = "safe"
                      /\ dir'[Destination(p)] = seen[p]
    OBVIOUS
  <2>1. /\ src[p] = path[p] /\ dst[p] = Destination(p) /\ stage[p] = "calling"
        /\ src[p] \in Names /\ dst[p] \in Names /\ src[p] # dst[p]
        /\ dir[src[p]] = seen[p] /\ dir[dst[p]] = seen[p]
    BY DEF IInv, TypeOK, FileTypeOK, OwnsDestination, Holding
  <2>2. FileStep(p)
    BY CallStepEffect, CommandStepFrame DEF Next, IInv, Holding
  <2>3. dir' = [dir EXCEPT ![src[p]] = NoEntry]
    BY <2>2 DEF FileStep, CheckSymlink, CheckFile, CheckDestination, Link, Unlink, Rollback,
                Crash, End, Goto, IInv, TypeOK, FileTypeOK
  <2> QED
    BY <2>1, <2>3 DEF IInv, TypeOK, FileTypeOK, PlannedSafe
<1> QED
  BY <1>1, Invariance, PTL DEF Spec, RenamedIsVerified

\* Nothing undoes a finished rename.
THEOREM CanonicalForGood == Spec => CanonicalStays
<1>1. IInv /\ [Next]_vars =>
        [\A n \in Names, f \in Files : Settled(n, f) => dir'[n] = f]_vars
  BY CommandStepFrame, CallStepInv DEF Next, IInv, Settled
<1> QED
  BY <1>1, Invariance, PTL DEF Spec, CanonicalStays

-----------------------------------------------------------------------------
(***************************************************************************)
(* The commands implement atomic renames.  A call past its link hides the  *)
(* name it has made, so that its end is the abstract step: the removal of  *)
(* the source moves the file, the removal of the destination changes       *)
(* nothing, and a crash or a failed roll back leaves both names.           *)
(***************************************************************************)
LEMMA HolderView ==
  ASSUME IInv, NEW p \in Instances, pc[p] \in Holding
  PROVE  /\ src[p] \in Names /\ dst[p] \in Names /\ src[p] # dst[p] /\ seen[p] \in Files
         /\ dir[src[p]] = seen[p] /\ dir[dst[p]] = seen[p]
         /\ Canonical[<<src[p], seen[p]>>] = dst[p]
         /\ \A q \in Instances : pc[q] \in Holding => dst[q] # src[p]
         /\ Entries[src[p]] = seen[p] /\ Entries[dst[p]] = NoEntry
<1>1. \A q \in Instances : pc[q] \in Holding =>
        /\ src[q] \in Names /\ dst[q] \in Names /\ src[q] # dst[q] /\ seen[q] \in Files
        /\ dir[src[q]] = seen[q] /\ dir[dst[q]] = seen[q]
        /\ path[q] = src[q] /\ Destination(q) = dst[q]
  BY DEF IInv, TypeOK, FileTypeOK, OwnsDestination, Holding
<1>2. \A q \in Instances : pc[q] \in Holding => dst[q] # src[p]
  BY <1>1, SamePlan DEF IInv
<1> QED
  BY <1>1, <1>2 DEF Destination, Entries

\* Abstract directories are compared name by name.
LEMMA EntriesIsFunction ==
  /\ Entries = [n \in Names |-> Entries[n]]
  /\ Entries' = [n \in Names |-> Entries'[n]]
BY DEF Entries

LEMMA CommandStepSimulation ==
  ASSUME IInv, NEW p \in Instances, CommandStep(p)
  PROVE  Entries' = Entries
BY CommandStepFrame DEF IInv, Entries

LEMMA CallStepSimulation ==
  ASSUME IInv, NEW p \in Instances, FileStep(p), UNCHANGED commandVars
  PROVE  Atomic!Next \/ Entries' = Entries
<1>1. \A q \in Instances : q # p => pc'[q] = pc[q] /\ dst'[q] = dst[q]
  BY CallStepEffect
<1>2. \A q \in Instances : q # p /\ pc[q] \in Holding /\ pc[p] \in Holding => dst[q] # dst[p]
  BY DEF IInv, OwnsDestination
<1>3. CASE pc[p] \in Holding /\ pc'[p] \in Holding /\ dir' = dir
  BY <1>1, <1>3, CallStepEffect DEF Entries, Holding
<1>4. CASE pc[p] \notin Holding /\ pc'[p] \notin Holding /\ dir' = dir
  BY <1>1, <1>4 DEF Entries
<1>5. CASE pc[p] \in Holding /\ pc'[p] \notin Holding /\ dir' = dir
  <2>1. \A n \in Names :
          Entries'[n] = IF n = dst[p] THEN dir[dst[p]] ELSE Entries[n]
    BY <1>1, <1>2, <1>5 DEF Entries
  <2>2. Entries' = [Entries EXCEPT ![dst[p]] = seen[p]]
    BY <1>5, <2>1, HolderView, EntriesIsFunction
  <2>3. Atomic!LeaveBoth(src[p], seen[p])
    BY <1>5, <2>2, HolderView DEF Atomic!LeaveBoth
  <2> QED
    BY <1>5, <2>3, HolderView DEF Atomic!Next
<1>6. CASE pc[p] \in PreLink /\ pc'[p] \in Holding /\ Free(dst[p])
           /\ dir' = [dir EXCEPT ![dst[p]] = seen[p]]
  <2>1. dst'[p] = dst[p] /\ dst[p] \in Names
    BY <1>6, CallStepEffect DEF Holding, PreLink, IInv, TypeOK, FileTypeOK
  <2> QED
    BY <1>1, <1>6, <2>1 DEF Entries, Free, IInv, TypeOK, FileTypeOK, PreLink, Holding
<1>7. CASE pc[p] \in Holding /\ pc'[p] = "out" /\ dir' = [dir EXCEPT ![dst[p]] = NoEntry]
  BY <1>1, <1>7, HolderView DEF Entries, IInv, TypeOK, FileTypeOK, Holding
<1>8. CASE pc[p] \in Holding /\ pc'[p] = "out" /\ dir' = [dir EXCEPT ![src[p]] = NoEntry]
  <2>1. \A n \in Names : dir'[n] = IF n = src[p] THEN NoEntry ELSE dir[n]
    BY <1>8 DEF IInv, TypeOK, FileTypeOK
  <2>2. \A n \in Names :
          Entries'[n] = IF n = src[p] THEN NoEntry
                        ELSE IF n = dst[p] THEN dir[dst[p]] ELSE Entries[n]
    BY <1>1, <1>2, <1>8, <2>1, HolderView DEF Entries, Holding
  <2>3. Entries' = [Entries EXCEPT ![dst[p]] = seen[p], ![src[p]] = NoEntry]
    BY <1>8, <2>2, HolderView, EntriesIsFunction
  <2>4. Atomic!Move(src[p], seen[p])
    BY <2>3, <1>8, HolderView DEF Atomic!Move
  <2> QED
    BY <1>8, <2>4, HolderView DEF Atomic!Next
<1> QED
  BY <1>3, <1>4, <1>5, <1>6, <1>7, <1>8, CallStepEffect DEF Holding, PreLink

\* Commands over one directory implement atomic renames.
THEOREM ImplementsAtomicRename == Spec => AtomicSpec
<1>1. Init => Atomic!Init
  BY DEF Init, FileInit, Atomic!Init, Entries, Named, Objects, Holding
<1>2. IInv /\ [Next]_vars => [Atomic!Next]_Entries
  <2>1. ASSUME IInv, Next
        PROVE  Atomic!Next \/ Entries' = Entries
    BY <2>1, CommandStepSimulation, CallStepSimulation DEF Next
  <2>2. UNCHANGED vars => Entries' = Entries
    BY DEF vars, Entries
  <2> QED
    BY <2>1, <2>2
<1> QED
  BY <1>1, <1>2, Invariance, PTL DEF Spec, AtomicSpec, Atomic!Spec
====================================================================================
