------------------------------ MODULE LockFile ------------------------------
(***************************************************************************)
(* The lockfile and tempfile APIs (lockfile.c, lockfile.h, tempfile.c).    *)
(*                                                                         *)
(* Several processes update one file.  Each takes <file>.lock with         *)
(* O_CREAT|O_EXCL, writes the new contents into it and renames it over the *)
(* file.  A step of this module is one system call or one assignment to    *)
(* the tempfile list, because the signal handler that removes temporary    *)
(* files may run between any two of them.                                  *)
(*                                                                         *)
(* The contents of a file are the set of updates written into it, named    *)
(* for the process that made them, and whether they were written to the    *)
(* end.  The inode behind a lockfile is named for the process that created *)
(* it, so that the directory entry and the open file can come apart.       *)
(***************************************************************************)
EXTENDS FiniteSets

CONSTANTS
    Proc,           \* the processes; each makes one update
    NoLock,         \* the directory entry <file>.lock does not exist
    Child,          \* the pid of any forked child
    SignalWindows,  \* the windows inside the API where a signal may arrive
    MayKill         \* whether a process may be killed without cleaning up

(***************************************************************************)
(* The points inside the API where the tempfile list and the directory     *)
(* disagree: the file was created but is not on the list or has no owner   *)
(* yet, or the file is gone but is still on the list.                      *)
(***************************************************************************)
EarlyWindows == {"opened", "listed"}
LateWindows  == {"renamed", "unlinked"}

ASSUME WindowAssumption == SignalWindows \subseteq EarlyWindows \cup LateWindows
ASSUME KillAssumption == MayKill \in BOOLEAN

VARIABLES
    pc,         \* where each process is in its calling sequence
    lock,       \* the inode that <file>.lock names, or NoLock
    file,       \* the contents of the file
    buf,        \* the contents of the inode each process created
    ferr,       \* the processes whose stream has its error flag set
    tempfile,   \* each process's tempfile_list entry: its owner field, if any
    inherited   \* the tempfile_list entry a forked child of the process holds

vars == <<pc, lock, file, buf, ferr, tempfile, inherited>>

NotListed == "not listed"       \* no tempfile on the list
NoOwner   == "owner 0"          \* on the list, owner still 0
NoChild   == "no child"

ASSUME ProcAssumption ==
    Proc \cap {NoLock, Child, NotListed, NoOwner, NoChild} = {} /\ Child \notin {NotListed, NoOwner}

Entry == {NotListed, NoOwner} \cup Proc

Content == [upds : SUBSET Proc, whole : BOOLEAN]

Empty == [upds |-> {}, whole |-> TRUE]

(* The points between two calls of the API while the lock is held. *)
Holding == {"held", "writing", "written", "closed"}

Stopped == {"done", "failed", "exited", "killed"}

Running == {"idle"} \cup EarlyWindows \cup Holding
             \cup {"renaming", "unlinking"} \cup LateWindows

TypeOK ==
    /\ pc \in [Proc -> Running \cup Stopped]
    /\ lock \in Proc \cup {NoLock}
    /\ file \in Content
    /\ buf \in [Proc -> Content]
    /\ ferr \subseteq Proc
    /\ tempfile \in [Proc -> Entry]
    /\ inherited \in [Proc -> Entry \cup {NoChild}]

Init ==
    /\ pc = [p \in Proc |-> "idle"]
    /\ lock = NoLock
    /\ file = Empty
    /\ buf = [p \in Proc |-> Empty]
    /\ ferr = {}
    /\ tempfile = [p \in Proc |-> NotListed]
    /\ inherited = [p \in Proc |-> NoChild]

Goto(p, from, to) ==
    /\ pc[p] \in from
    /\ pc' = [pc EXCEPT ![p] = to]

-----------------------------------------------------------------------------
(* Taking the lock: lock_file() and create_tempfile_mode(). *)

(* Mutant: open() without O_EXCL. *)
OpenShared(p) ==
    /\ Goto(p, {"idle"}, "opened")
    /\ lock' = p
    /\ buf' = [buf EXCEPT ![p] = Empty]
    /\ UNCHANGED <<file, ferr, tempfile, inherited>>

(* open(O_CREAT|O_EXCL) creates the lockfile. *)
OpenExclusive(p) ==
    /\ Goto(p, {"idle"}, "opened")
    /\ lock = NoLock
    /\ lock' = p
    /\ buf' = [buf EXCEPT ![p] = Empty]
    /\ UNCHANGED <<file, ferr, tempfile, inherited>>

(* open() fails with EEXIST and the timeout, if any, has passed. *)
LockFails(p) ==
    /\ Goto(p, {"idle"}, "failed")
    /\ lock # NoLock
    /\ UNCHANGED <<lock, file, buf, ferr, tempfile, inherited>>

(* activate_tempfile() puts the tempfile on the list ... *)
ListAdd(p) ==
    /\ Goto(p, {"opened"}, "listed")
    /\ tempfile' = [tempfile EXCEPT ![p] = NoOwner]
    /\ UNCHANGED <<lock, file, buf, ferr, inherited>>

(* ... and then records its owner.  adjust_shared_perm() may fail, and     *)
(* create_tempfile_mode() then deletes the tempfile.                       *)
SetOwner(p) ==
    /\ \E to \in {"held", "unlinking"} : Goto(p, {"listed"}, to)
    /\ tempfile' = [tempfile EXCEPT ![p] = p]
    /\ UNCHANGED <<lock, file, buf, ferr, inherited>>

-----------------------------------------------------------------------------
(* Writing: the caller reads the file under the lock and writes its        *)
(* replacement to the lockfile.                                            *)

BeginWrite(p) ==
    /\ Goto(p, {"held"}, "writing")
    /\ buf' = [buf EXCEPT ![p] = [upds |-> file.upds \cup {p}, whole |-> FALSE]]
    /\ UNCHANGED <<lock, file, ferr, tempfile, inherited>>

EndWrite(p) ==
    /\ Goto(p, {"writing"}, "written")
    /\ \/ buf' = [buf EXCEPT ![p].whole = TRUE] /\ UNCHANGED ferr
       \/ ferr' = ferr \cup {p} /\ UNCHANGED buf
    /\ UNCHANGED <<lock, file, tempfile, inherited>>

(* close_lock_file_gently(): an error is reported, the lockfile stays, and *)
(* the caller rolls it back.                                               *)
CloseGently(p) ==
    /\ Goto(p, {"written"}, IF p \in ferr THEN "unlinking" ELSE "closed")
    /\ UNCHANGED <<lock, file, buf, ferr, tempfile, inherited>>

(* reopen_lock_file() truncates what was written. *)
Reopen(p) ==
    /\ Goto(p, {"closed"}, "held")
    /\ buf' = [buf EXCEPT ![p] = Empty]
    /\ UNCHANGED <<lock, file, ferr, tempfile, inherited>>

-----------------------------------------------------------------------------
(* commit_lock_file() = rename_tempfile(). *)

(* Mutant: the result of closing the stream is not looked at. *)
CommitCloseUnchecked(p) ==
    /\ Goto(p, {"written", "closed"}, "renaming")
    /\ UNCHANGED <<lock, file, buf, ferr, tempfile, inherited>>

(* Mutant: an error of close() returns without deleting the tempfile. *)
CommitCloseKeepsLock(p) ==
    /\ Goto(p, {"written", "closed"}, IF p \in ferr THEN "failed" ELSE "renaming")
    /\ UNCHANGED <<lock, file, buf, ferr, tempfile, inherited>>

(* close_tempfile_gently(); on an error the tempfile is deleted. *)
CommitClose(p) ==
    /\ Goto(p, {"written", "closed"}, IF p \in ferr THEN "unlinking" ELSE "renaming")
    /\ UNCHANGED <<lock, file, buf, ferr, tempfile, inherited>>

(* Mutant: the file is unlinked to make way before it is replaced. *)
RenameAfterUnlink(p) ==
    \/ /\ Goto(p, {"renaming"}, "renamed")
       /\ lock # NoLock
       /\ file' = buf[lock]
       /\ lock' = NoLock
       /\ UNCHANGED <<buf, ferr, tempfile, inherited>>
    \/ /\ Goto(p, {"renaming"}, "unlinking")
       /\ file' = Empty
       /\ UNCHANGED <<lock, buf, ferr, tempfile, inherited>>

(* rename(2) moves whatever inode the lockfile's name leads to.  It fails  *)
(* if the name is gone, or for any other reason; then the tempfile is      *)
(* deleted.                                                                *)
Rename(p) ==
    \/ /\ Goto(p, {"renaming"}, "renamed")
       /\ lock # NoLock
       /\ file' = buf[lock]
       /\ lock' = NoLock
       /\ UNCHANGED <<buf, ferr, tempfile, inherited>>
    \/ /\ Goto(p, {"renaming"}, "unlinking")
       /\ UNCHANGED <<lock, file, buf, ferr, tempfile, inherited>>

(* deactivate_tempfile() takes the tempfile off the list. *)
CommitDeactivate(p) ==
    /\ Goto(p, {"renamed"}, "done")
    /\ tempfile' = [tempfile EXCEPT ![p] = NotListed]
    /\ UNCHANGED <<lock, file, buf, ferr, inherited>>

-----------------------------------------------------------------------------
(* rollback_lock_file() = delete_tempfile(). *)

(* The caller gives up; close_tempfile_gently() cannot prevent the unlink. *)
Rollback(p) ==
    /\ Goto(p, Holding, "unlinking")
    /\ UNCHANGED <<lock, file, buf, ferr, tempfile, inherited>>

(* unlink(2) removes the name, whatever inode it leads to. *)
Unlink(p) ==
    /\ Goto(p, {"unlinking"}, "unlinked")
    /\ lock' = NoLock
    /\ UNCHANGED <<file, buf, ferr, tempfile, inherited>>

RollbackDeactivate(p) ==
    /\ Goto(p, {"unlinked"}, "failed")
    /\ tempfile' = [tempfile EXCEPT ![p] = NotListed]
    /\ UNCHANGED <<lock, file, buf, ferr, inherited>>

-----------------------------------------------------------------------------
(* The end of a process. *)

(* Mutant: remove_tempfiles() does not look at the owner. *)
RemoveAllTempfiles(entry, me) ==
    lock' = IF entry \in Proc THEN NoLock ELSE lock

(* Mutant: remove_tempfiles() skips the files this process owns. *)
RemoveOthersTempfiles(entry, me) ==
    lock' = IF entry \notin {me, NotListed} THEN NoLock ELSE lock

(* remove_tempfiles() run by the process `me' over a list with this entry. *)
RemoveTempfiles(entry, me) ==
    lock' = IF entry = me THEN NoLock ELSE lock

(* exit() or die() between two calls of the API: the atexit handler runs.  *)
Exit(p) ==
    /\ Goto(p, Holding, "exited")
    /\ RemoveTempfiles(tempfile[p], p)
    /\ UNCHANGED <<file, buf, ferr, tempfile, inherited>>

(* remove_tempfiles_on_signal() interrupts the process, removes its        *)
(* tempfiles and raises the signal again.                                  *)
Signal(p) ==
    /\ Goto(p, (Running \ (EarlyWindows \cup LateWindows)) \cup SignalWindows, "exited")
    /\ RemoveTempfiles(tempfile[p], p)
    /\ UNCHANGED <<file, buf, ferr, tempfile, inherited>>

(* SIGKILL or a power failure: nothing runs. *)
Kill(p) ==
    /\ MayKill
    /\ Goto(p, Running, "killed")
    /\ UNCHANGED <<lock, file, buf, ferr, tempfile, inherited>>

(* A child forked while the lock is held has a copy of the list. *)
Fork(p) ==
    /\ pc[p] \in Holding
    /\ inherited[p] = NoChild
    /\ inherited' = [inherited EXCEPT ![p] = tempfile[p]]
    /\ UNCHANGED <<pc, lock, file, buf, ferr, tempfile>>

(* The child exits and runs its atexit handler; its pid is not the owner.  *)
ChildExit(p) ==
    /\ inherited[p] # NoChild
    /\ RemoveTempfiles(inherited[p], Child)
    /\ inherited' = [inherited EXCEPT ![p] = NoChild]
    /\ UNCHANGED <<pc, file, buf, ferr, tempfile>>

-----------------------------------------------------------------------------
Step(p) ==
    \/ OpenExclusive(p) \/ LockFails(p) \/ ListAdd(p) \/ SetOwner(p)
    \/ BeginWrite(p) \/ EndWrite(p) \/ CloseGently(p) \/ CommitClose(p)
    \/ Rename(p) \/ CommitDeactivate(p)
    \/ Unlink(p) \/ RollbackDeactivate(p)

Next ==
    \E p \in Proc :
        \/ Step(p) \/ Reopen(p) \/ Rollback(p)
        \/ Exit(p) \/ Signal(p) \/ Kill(p)
        \/ Fork(p) \/ ChildExit(p)

Spec == Init /\ [][Next]_vars

(* A process that is scheduled goes on with its calling sequence, and no   *)
(* caller reopens its lockfile for ever.                                   *)
FairSpec ==
    /\ Spec
    /\ \A p \in Proc : WF_vars(Step(p)) /\ SF_vars(CommitClose(p))

-----------------------------------------------------------------------------
(* Properties. *)

(* The process has created the lockfile and has neither renamed nor        *)
(* removed it.                                                             *)
Owns(p) == pc[p] \in EarlyWindows \cup Holding \cup {"renaming", "unlinking"}

(* The lock that a process believes it holds is the one on disk: no other  *)
(* process, forked child or signal handler removed it or took it over.     *)
MutualExclusion == \A p \in Proc : Owns(p) => lock = p

(* A reader of the file never sees contents that were only partly written, *)
(* or that were written through a stream that had an error.                *)
ReadersSeeWholeFile == file.whole

(* Every update that commit_lock_file() reported as committed is in the    *)
(* file: a later writer started from contents that included it.            *)
NoLostUpdate == \A p \in Proc : pc[p] \in {"renamed", "done"} => p \in file.upds

(* A rolled back or failed update is not in the file. *)
FailureLeavesNoTrace == \A p \in Proc : pc[p] = "failed" => p \notin file.upds

(* A process that ended by exit(), die() or a signal when its lockfile was *)
(* recorded as its own left no lockfile.                                   *)
CleanupOnExit == \A p \in Proc : pc[p] = "exited" /\ tempfile[p] = p => lock # p

(* The visible file changes only by whole updates that keep every earlier  *)
(* one.                                                                    *)
Abstract == INSTANCE AtomicUpdate WITH Update <- Proc, content <- file.upds

RefinesAtomicUpdate == Abstract!Spec

(* A lockfile does not stay for ever, unless its process is killed or gets *)
(* a signal before the lockfile is recorded.                               *)
Abandoned(p) == pc[p] = "killed" \/ (pc[p] = "exited" /\ tempfile[p] # p)

LockIsReleased == \A p \in Proc : lock = p ~> lock # p \/ Abandoned(p)
=============================================================================
