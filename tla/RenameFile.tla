------------------------------ MODULE RenameFile ------------------------------
(***************************************************************************)
(* file_operations.rename_file_no_overwrite: give a regular file another   *)
(* name in its directory without overwriting anything.  The function is a  *)
(* sequence of system calls, and between any two of them another instance  *)
(* of the program, or any other program, may change the directory: a hard  *)
(* link under the new name, then the removal of the old one, then, when    *)
(* that removal raises, the removal of the new one.                        *)
(*                                                                         *)
(* A directory maps every name to the object it names.  Objects are        *)
(* regular files (Files) or symbolic links (Links); what a file contains   *)
(* is the file itself, so a hard link is a second name for one object.     *)
(***************************************************************************)
EXTENDS Naturals

CONSTANTS
  Names,      \* the names of one directory
  Files,      \* the regular files
  Links,      \* the symbolic links
  Instances,  \* the calls that can be in progress at one time
  NoEntry,    \* what a free name maps to
  NoName      \* the value of a local variable outside a call

Objects == Files \cup Links

ASSUME ObjectAssumption == /\ NoEntry \notin Objects
                           /\ Files \cap Links = {}
ASSUME NameAssumption == NoName \notin Names

VARIABLES
  dir,      \* the directory
  pc,       \* where each call stands, "out" when there is none
  src,      \* its parameter source
  dst,      \* its parameter destination
  outcome   \* how the last call ended

fileVars == <<dir, pc, src, dst, outcome>>

PreLink == {"check_symlink", "check_file", "check_destination", "link"}
Holding == {"unlink", "rollback"}
Outcomes == {"none", "ok", "exists", "invalid", "failed", "crashed"}

Free(n) == dir[n] = NoEntry

FileInit ==
  /\ dir \in [Names -> Objects \cup {NoEntry}]
  /\ pc = [p \in Instances |-> "out"]
  /\ src = [p \in Instances |-> NoName]
  /\ dst = [p \in Instances |-> NoName]
  /\ outcome = [p \in Instances |-> "none"]

(***************************************************************************)
(* Control: the call of p goes on at a step, or it ends and its parameters *)
(* are gone.                                                               *)
(***************************************************************************)
Goto(p, step) ==
  /\ pc' = [pc EXCEPT ![p] = step]
  /\ UNCHANGED <<src, dst, outcome>>

End(p, how) ==
  /\ pc' = [pc EXCEPT ![p] = "out"]
  /\ src' = [src EXCEPT ![p] = NoName]
  /\ dst' = [dst EXCEPT ![p] = NoName]
  /\ outcome' = [outcome EXCEPT ![p] = how]

-----------------------------------------------------------------------------
(***************************************************************************)
(* The steps of the call.                                                  *)
(***************************************************************************)

\* Both names are in the directory (a destination elsewhere is refused before
\* anything is looked at); renaming a file to its own name does nothing.
Call(p, s, d) ==
  /\ pc[p] = "out"
  /\ UNCHANGED dir
  /\ IF s = d
       THEN End(p, "ok")
       ELSE /\ pc' = [pc EXCEPT ![p] = "check_symlink"]
            /\ src' = [src EXCEPT ![p] = s]
            /\ dst' = [dst EXCEPT ![p] = d]
            /\ UNCHANGED outcome

\* source.is_symlink() is false for a name that is not there.
CheckSymlink(p) ==
  /\ pc[p] = "check_symlink"
  /\ UNCHANGED dir
  /\ IF dir[src[p]] \in Links THEN End(p, "invalid") ELSE Goto(p, "check_file")

\* source.is_file() follows a symbolic link, whose target may be anything.
CheckFile(p) ==
  /\ pc[p] = "check_file"
  /\ UNCHANGED dir
  /\ \/ dir[src[p]] \in Objects /\ Goto(p, "check_destination")
     \/ dir[src[p]] \notin Files /\ End(p, "invalid")

\* os.path.lexists(destination) does not follow links.
CheckDestination(p) ==
  /\ pc[p] = "check_destination"
  /\ UNCHANGED dir
  /\ IF Free(dst[p]) THEN Goto(p, "link") ELSE End(p, "exists")

\* Wrong on purpose: a replacing primitive after the check of the destination.
LinkReplacing(p) ==
  /\ pc[p] = "link"
  /\ ~Free(src[p])
  /\ dir' = [dir EXCEPT ![dst[p]] = dir[src[p]]]
  /\ Goto(p, "unlink")

\* Wrong on purpose: an OSError of the link is taken for success.
LinkErrorIgnored(p) ==
  /\ pc[p] = "link"
  /\ \/ /\ ~Free(src[p]) /\ Free(dst[p])
        /\ dir' = [dir EXCEPT ![dst[p]] = dir[src[p]]]
     \/ UNCHANGED dir
  /\ Goto(p, "unlink")

\* os.link(source, destination, follow_symlinks=False): the kernel refuses a
\* missing source and a destination that is taken, and a file system may have
\* no hard links at all.
Link(p) ==
  /\ pc[p] = "link"
  /\ \/ /\ ~Free(src[p]) /\ Free(dst[p])
        /\ dir' = [dir EXCEPT ![dst[p]] = dir[src[p]]]
        /\ Goto(p, "unlink")
     \/ /\ ~Free(src[p]) /\ ~Free(dst[p])
        /\ UNCHANGED dir
        /\ End(p, "exists")
     \/ UNCHANGED dir /\ End(p, "failed")

\* source.unlink() removes whatever the source name maps to by now, or raises:
\* the name is gone, the system refuses, or an interrupt arrives before the call.
Unlink(p) ==
  /\ pc[p] = "unlink"
  /\ \/ /\ ~Free(src[p])
        /\ dir' = [dir EXCEPT ![src[p]] = NoEntry]
        /\ End(p, "ok")
     \/ UNCHANGED dir /\ Goto(p, "rollback")

\* Wrong on purpose: after the roll back the removal of the source is retried.
RollbackThenRetry(p) ==
  /\ pc[p] = "rollback"
  /\ dir' = [dir EXCEPT ![dst[p]] = NoEntry]
  /\ Goto(p, "unlink")

\* destination.unlink() in the handler of that exception; its own failure is
\* swallowed and the first exception goes on to the caller.
Rollback(p) ==
  /\ pc[p] = "rollback"
  /\ \/ dir' = [dir EXCEPT ![dst[p]] = NoEntry]
     \/ UNCHANGED dir
  /\ End(p, "failed")

\* The process dies, or an interrupt arrives outside the guarded statement.
Crash(p) ==
  /\ pc[p] # "out"
  /\ UNCHANGED dir
  /\ End(p, "crashed")

FileStep(p) ==
  \/ CheckSymlink(p) \/ CheckFile(p) \/ CheckDestination(p)
  \/ Link(p) \/ Unlink(p) \/ Rollback(p) \/ Crash(p)

-----------------------------------------------------------------------------
(***************************************************************************)
(* The rest of the world: any program may put an object under a name,      *)
(* whatever was there, or remove a name.                                   *)
(***************************************************************************)
Outside ==
  /\ \E n \in Names, o \in Objects \cup {NoEntry} : dir' = [dir EXCEPT ![n] = o]
  /\ UNCHANGED <<pc, src, dst, outcome>>

Calls == \E p \in Instances :
           \/ \E s, d \in Names : Call(p, s, d)
           \/ FileStep(p)

FileSpec == FileInit /\ [][Calls \/ Outside]_fileVars

\* Without other programs, and with any callers of the function itself.
ClosedFileSpec == FileInit /\ [][Calls]_fileVars

\* One more thing the build can do: source.unlink() runs Python code after the system
\* call has removed the name and before the guarded statement is left, and a
\* KeyboardInterrupt delivered there is caught by the same handler as a failed removal.
InterruptUnlink(p) ==
  /\ pc[p] = "unlink"
  /\ ~Free(src[p])
  /\ dir' = [dir EXCEPT ![src[p]] = NoEntry]
  /\ Goto(p, "rollback")

-----------------------------------------------------------------------------
FileTypeOK ==
  /\ dir \in [Names -> Objects \cup {NoEntry}]
  /\ pc \in [Instances -> PreLink \cup Holding \cup {"out"}]
  /\ src \in [Instances -> Names \cup {NoName}]
  /\ dst \in [Instances -> Names \cup {NoName}]
  /\ outcome \in [Instances -> Outcomes]
  /\ \A p \in Instances :
       IF pc[p] = "out" THEN src[p] = NoName /\ dst[p] = NoName
                        ELSE src[p] \in Names /\ dst[p] \in Names /\ src[p] # dst[p]

\* "Rename one regular file without overwriting an existing path": whatever
\* happens between its checks and its system calls, no step of a call puts an
\* object under a name that holds another one.
NeverReplaces ==
  [][(\E p \in Instances : FileStep(p))
       => \A n \in Names : ~Free(n) => dir'[n] \in {dir[n], NoEntry}]_fileVars

\* A file that has a name keeps one, through every failure of a system call and
\* every crash: the new name is there before the old one goes, and the handler
\* removes the new name only when the old one stayed.
Named(f) == \E n \in Names : dir[n] = f

KeepsEveryFile == [][\A f \in Files : Named(f) => Named(f)']_fileVars
=============================================================================
