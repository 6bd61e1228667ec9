----------------------------- MODULE RenameCommand -----------------------------
(***************************************************************************)
(* The rename command of the CLI (cli._rename_path) around                 *)
(* rename_file_no_overwrite: several commands run at once in a directory.  *)
(* Each one identifies the file that a name holds, plans the canonical     *)
(* name of that file, waits for the user's answer and then makes the call, *)
(* which looks at the directory again only for the existence and the kind  *)
(* of what it finds.                                                       *)
(***************************************************************************)
EXTENDS RenameFile

CONSTANTS
  NoFile,     \* the value of a local variable outside a command
  Canonical,  \* Canonical[<<n, f>>]: the planned name of file f found under n
  Verdict     \* Verdict[f]: what verification and naming policy say of f

\* The planned name depends on the content found and on the extension of the
\* name it was found under, which it keeps: it is its own canonical name.
\* (Naming.tla shows the names for which the code keeps this promise.)
ASSUME CanonicalAssumption ==
  /\ Canonical \in [Names \X Files -> Names]
  /\ \A n \in Names, f \in Files :
       Canonical[<<Canonical[<<n, f>>], f>>] = Canonical[<<n, f>>]
ASSUME VerdictAssumption == Verdict \in [Files -> {"safe", "conflict", "unsafe"}]
ASSUME NoFileAssumption == NoFile \notin Files

VARIABLES
  stage,  \* where each command stands
  path,   \* its argument
  seen,   \* the file its identification has read
  exit    \* the exit code of its last run

commandVars == <<stage, path, seen, exit>>
vars == <<dir, pc, src, dst, outcome, stage, path, seen, exit>>

Stages == {"idle", "identify", "plan", "prompt", "calling"}
Exits == {"none", "ok", "unresolved", "conflict", "error", "crashed"}

Init ==
  /\ FileInit
  /\ \A f \in Files : Named(f)
  /\ stage = [p \in Instances |-> "idle"]
  /\ path = [p \in Instances |-> NoName]
  /\ seen = [p \in Instances |-> NoFile]
  /\ exit = [p \in Instances |-> "none"]

Exit(p, code) ==
  /\ stage' = [stage EXCEPT ![p] = "idle"]
  /\ path' = [path EXCEPT ![p] = NoName]
  /\ seen' = [seen EXCEPT ![p] = NoFile]
  /\ exit' = [exit EXCEPT ![p] = code]

Destination(p) == Canonical[<<path[p], seen[p]>>]

-----------------------------------------------------------------------------
\* The command starts: a symbolic link is refused at once.
Start(p, n) ==
  /\ stage[p] = "idle"
  /\ UNCHANGED fileVars
  /\ IF dir[n] \in Links
       THEN Exit(p, "error")
       ELSE /\ stage' = [stage EXCEPT ![p] = "identify"]
            /\ path' = [path EXCEPT ![p] = n]
            /\ UNCHANGED <<seen, exit>>

\* The workflow reads the file, following a link put there meanwhile; a
\* missing path is an error.
Identify(p) ==
  /\ stage[p] = "identify"
  /\ UNCHANGED fileVars
  /\ \/ \E f \in Files :
          /\ dir[path[p]] = f \/ dir[path[p]] \in Links
          /\ stage' = [stage EXCEPT ![p] = "plan"]
          /\ seen' = [seen EXCEPT ![p] = f]
          /\ UNCHANGED <<path, exit>>
     \/ dir[path[p]] \notin Files /\ Exit(p, "error")

\* The plan: unsafe names are refused, a canonical name is left alone, and a
\* destination that exists (links followed) is a conflict.
Plan(p) ==
  /\ stage[p] = "plan"
  /\ UNCHANGED fileVars
  /\ \/ Verdict[seen[p]] = "unsafe" /\ Exit(p, "unresolved")
     \/ Verdict[seen[p]] = "conflict" /\ Exit(p, "conflict")
     \/ Verdict[seen[p]] = "safe" /\ Destination(p) = path[p] /\ Exit(p, "ok")
     \/ /\ Verdict[seen[p]] = "safe" /\ Destination(p) # path[p]
        /\ ~Free(Destination(p))
        /\ Exit(p, "conflict")
     \/ /\ Verdict[seen[p]] = "safe" /\ Destination(p) # path[p]
        /\ dir[Destination(p)] \notin Files
        /\ stage' = [stage EXCEPT ![p] = "prompt"]
        /\ UNCHANGED <<path, seen, exit>>

\* The user takes any time to answer; --yes answers at once.
Confirm(p) ==
  /\ stage[p] = "prompt"
  /\ Call(p, path[p], Destination(p))
  /\ stage' = [stage EXCEPT ![p] = "calling"]
  /\ UNCHANGED <<path, seen, exit>>

Decline(p) ==
  /\ stage[p] = "prompt"
  /\ Exit(p, "ok")
  /\ UNCHANGED fileVars

\* rename_file_no_overwrite has returned or raised.
Report(p) ==
  /\ stage[p] = "calling"
  /\ pc[p] = "out"
  /\ outcome' = [outcome EXCEPT ![p] = "none"]
  /\ UNCHANGED <<dir, pc, src, dst>>
  /\ Exit(p, CASE outcome[p] = "ok" -> "ok"
               [] outcome[p] = "exists" -> "conflict"
               [] outcome[p] = "crashed" -> "crashed"
               [] OTHER -> "error")

\* The process dies before it calls.
Kill(p) ==
  /\ stage[p] \in {"identify", "plan", "prompt"}
  /\ Exit(p, "crashed")
  /\ UNCHANGED fileVars

CommandStep(p) ==
  \/ \E n \in Names : Start(p, n)
  \/ Identify(p) \/ Plan(p) \/ Confirm(p) \/ Decline(p) \/ Report(p) \/ Kill(p)

Next == \E p \in Instances :
          \/ CommandStep(p)
          \/ FileStep(p) /\ UNCHANGED commandVars

Spec == Init /\ [][Next]_vars

\* The same commands in a directory that other programs write to.
OpenSpec == Init /\ [][Next \/ (Outside /\ UNCHANGED commandVars)]_vars

\* The same commands alone, and users who press Ctrl-C.
InterruptSpec ==
  Init /\ [][Next \/ \E p \in Instances : InterruptUnlink(p) /\ UNCHANGED commandVars]_vars

-----------------------------------------------------------------------------
TypeOK ==
  /\ FileTypeOK
  /\ stage \in [Instances -> Stages]
  /\ path \in [Instances -> Names \cup {NoName}]
  /\ seen \in [Instances -> Files \cup {NoFile}]
  /\ exit \in [Instances -> Exits]
  /\ \A p \in Instances :
       /\ stage[p] # "idle" => path[p] \in Names
       /\ stage[p] \in {"plan", "prompt", "calling"} => seen[p] \in Files
       /\ pc[p] # "out" =>
            stage[p] = "calling" /\ src[p] = path[p] /\ dst[p] = Destination(p)

\* However many commands run at once over one directory, and wherever they fail
\* or die, every file keeps a name, although each command removes whatever its
\* source (or, after a failure, its destination) has come to name.
NoFileLost == \A f \in Files : Named(f)

\* The name a call removes when it succeeds still held the very file that was
\* identified and verified, however long the user took to answer, and that file
\* is now under its canonical name.
RenamedIsVerified ==
  [][\A p \in Instances :
       pc[p] = "unlink" /\ pc'[p] = "out" /\ outcome'[p] = "ok"
         => /\ dir[path[p]] = seen[p] /\ Verdict[seen[p]] = "safe"
            /\ dir'[Destination(p)] = seen[p]]_vars

\* While a call is between its hard link and the removal of a name, the new name
\* is its own: no other call removes it, and none believes to have made it.
OwnsDestination ==
  \A p \in Instances : pc[p] \in Holding =>
    /\ dir[dst[p]] = seen[p] /\ dir[src[p]] = seen[p]
    /\ \A q \in Instances \ {p} : pc[q] \in Holding => dst[q] # dst[p]

\* Nothing undoes a finished rename: a file under its canonical name that no
\* call is still working on stays there.
Settled(n, f) == /\ dir[n] = f
                 /\ Canonical[<<n, f>>] = n
                 /\ \A p \in Instances : ~(pc[p] \in Holding /\ dst[p] = n)

CanonicalStays == [][\A n \in Names, f \in Files : Settled(n, f) => dir'[n] = f]_vars

\* Planning, asking and checking take time, and nothing is locked: a command that
\* has not linked yet either still finds its file where it was identified, or
\* another command has moved that very file to the same canonical name for good.
Waiting(p) ==
  /\ stage[p] \in {"plan", "prompt"} \/ pc[p] \in PreLink
  /\ Destination(p) # path[p]

SourceOrSettled ==
  \A p \in Instances :
    Waiting(p) => dir[path[p]] = seen[p] \/ Settled(Destination(p), seen[p])

-----------------------------------------------------------------------------
\* Commands over one directory look like atomic renames of whole files: a name
\* that a call has linked and not yet settled is not there for the abstract
\* directory, and a crash or a failed roll back in between leaves both names.
Entries ==
  [n \in Names |->
     IF \E p \in Instances : pc[p] \in Holding /\ dst[p] = n THEN NoEntry ELSE dir[n]]

Atomic == INSTANCE AtomicRename WITH entries <- Entries

AtomicSpec == Atomic!Spec
===============================================================================
