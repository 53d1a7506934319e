--------------------------- MODULE ReftableStack ---------------------------
(***************************************************************************)
(* The reftable stack (reftable/stack.c) and the transactions that the     *)
(* reftable reference backend (refs/reftable-backend.c) runs on it.        *)
(*                                                                         *)
(* The file tables.list names a sequence of immutable tables; the newest   *)
(* table that mentions a reference has its value.  A transaction appends a *)
(* table under tables.list.lock.  A compaction locks some adjacent tables, *)
(* merges them without holding tables.list.lock, and then replaces them in *)
(* the list.  Every process keeps the tables of the list it last loaded    *)
(* open and can read them when their files are gone.                       *)
(*                                                                         *)
(* A step creates, renames or removes a file, or looks at one.  A process  *)
(* runs one operation on a stack that it has had open for some time, or    *)
(* that it opens and closes itself.  Which tables are worth compacting is  *)
(* module CompactionSegment; here any range may be chosen.                 *)
(* Reflog records and worktree stacks are not modelled here.               *)
(***************************************************************************)
EXTENDS Naturals, Sequences, FiniteSets

CONSTANTS
    Ref,            \* the reference names
    Oid,            \* the object names
    None,           \* null_oid: no such reference, or a tombstone
    NoOld, NoNew,   \* old_oid not given, new_oid not given
    NoLock,         \* the lockfile does not exist
    MaxInode,       \* the inode numbers are 1 .. MaxInode
    Parents,        \* Parents[r]: the names that are leading components of r
    Writer, Packer, Reader, \* the processes, by what they run
    Resident,       \* those that keep the stack open before and after
    AutoCompact,    \* the packers that run with PACK_REFS_AUTO
    Transactions,   \* the transactions that writers run
    InitStacks,     \* the contents of the tables the stack may start with
    SureTries,      \* the attempts to reload before deadlines count
    MayTimeOut,     \* whether the deadline of a reload may pass
    MayFail,        \* whether writes and renames may fail
    MayKill         \* whether a process may be killed

Proc == Writer \cup Packer \cup Reader
Value == Oid \cup {None}
Update == [old : Value \cup {NoOld}, new : Value \cup {NoNew}]

ASSUME FlagAssumption == {MayFail, MayKill, MayTimeOut} \subseteq BOOLEAN
ASSUME TriesAssumption == SureTries \in Nat \ {0}
ASSUME RoleAssumption ==
    /\ AutoCompact \subseteq Packer /\ Resident \subseteq Proc
    /\ Writer \cap Packer = {} /\ (Writer \cup Packer) \cap Reader = {}
    /\ NoLock \notin Proc
ASSUME ValueAssumption ==
    /\ None \notin Oid \cup {NoOld, NoNew} /\ NoOld \notin Oid /\ NoNew \notin Oid
    /\ Parents \in [Ref -> SUBSET Ref]
ASSUME TransactionAssumption ==
    \A t \in Transactions :
        DOMAIN t \in SUBSET Ref \ {{}} /\ \A r \in DOMAIN t : t[r] \in Update
(* Every process may have two versions of tables.list open, and there are  *)
(* the current one and its lockfile.                                       *)
ASSUME InodeAssumption ==
    IsFiniteSet(Proc) /\ MaxInode \in Nat /\ MaxInode >= 2 * Cardinality(Proc) + 2

(* A file descriptor that is not open. *)
NoFd == 0

VARIABLES
    list,       \* the contents of tables.list: a sequence of table numbers
    ino,        \* the inode of tables.list
    llock,      \* who created tables.list.lock
    lino,       \* the inode of tables.list.lock, or NoFd
    tables,     \* the tables written so far; a table's name is its number
    file,       \* the tables whose .ref file exists
    proc,       \* the state of each process
    seen        \* the values the references had while a reader was at work

disk == <<list, ino, llock, lino, tables, file>>
vars == <<disk, proc, seen>>

(***************************************************************************)
(* The state of a process.                                                 *)
(*   stack    the tables it has loaded (st->readers)                       *)
(*   fd       the inode of st->list_fd, with the cached st->list_st        *)
(*   newfd, names, toopen   the tables.list it is loading, and the tables  *)
(*            of it that are yet to be opened                              *)
(*   tries    how often it has tried to load                               *)
(*   then     where it goes on when it has loaded the stack                *)
(*   txn, queued, applied, outcome   its transaction                       *)
(*   first, last   the range of its stack to compact                       *)
(*   locked   the tables whose lockfile it has created                     *)
(*   new      the table it has written and not yet put on the list, or 0   *)
(*   read     what a reader was told                                       *)
(***************************************************************************)
Start == [pc |-> "idle", stack |-> <<>>, fd |-> NoFd, newfd |-> NoFd,
          names |-> <<>>, toopen |-> <<>>, tries |-> 0, then |-> "ready",
          txn |-> <<>>, queued |-> {}, applied |-> {}, outcome |-> "open",
          first |-> 0, last |-> 0, locked |-> {}, new |-> 0, read |-> <<>>]

At(p, pc) == proc[p].pc = pc
Goto(p, pc) == proc' = [proc EXCEPT ![p].pc = pc]
Ended == {"done", "closed", "exited", "killed"}
Members(s) == {s[i] : i \in DOMAIN s}

(* What a sequence of tables says about a reference: merged tables look at *)
(* the newest table first.                                                 *)
Mentions(s, r) == {i \in DOMAIN s : r \in DOMAIN tables[s[i]].refs}
Lookup(s, r) ==
    IF Mentions(s, r) = {} THEN None
    ELSE tables[s[CHOOSE i \in Mentions(s, r) : \A j \in Mentions(s, r) : j <= i]].refs[r]

Val(r) == Lookup(list, r)

Init ==
    /\ \E s \in InitStacks :
         /\ tables = [i \in DOMAIN s |-> [refs |-> s[i], min |-> i, max |-> i]]
         /\ list = [i \in DOMAIN s |-> i]
         /\ file = DOMAIN s
    /\ ino = 1
    /\ llock = NoLock /\ lino = NoFd
    /\ proc = [p \in Proc |-> IF p \in Resident
                                THEN [Start EXCEPT !.pc = "ready", !.stack = list, !.fd = ino]
                                ELSE Start]
    /\ seen = [p \in Reader |-> {}]

-----------------------------------------------------------------------------
(* Locks and inodes. *)

(* Mutant: the stat information is kept, the descriptor is closed. *)
InUseUncached == {ino, lino} \cup {proc[p].newfd : p \in Proc}

(* The inodes that cannot be handed out: that of a file with a name, and   *)
(* those that a process keeps open, as a reload does with tables.list.     *)
InUse == {ino, lino} \cup {proc[p].newfd : p \in Proc} \cup {proc[p].fd : p \in Proc}

(* The file system hands out an inode that is free; all that are free are  *)
(* alike.                                                                  *)
FreeInode == CHOOSE i \in 1 .. MaxInode \ InUse : \A j \in 1 .. MaxInode \ InUse : i <= j

(* flock_acquire() of tables.list.lock; without it the timeout passes. *)
LockList(p) == llock = NoLock /\ llock' = p /\ lino' = FreeInode

(* flock_release(), or the removal of tempfiles at exit. *)
ReleaseList(p) ==
    IF llock = p THEN llock' = NoLock /\ lino' = NoFd ELSE UNCHANGED <<llock, lino>>

(* flock_commit(): tables.list.lock becomes tables.list. *)
CommitLock(p, names) ==
    list' = names /\ ino' = lino /\ llock' = NoLock /\ lino' = NoFd

Locked(t) == \E p \in Proc : t \in proc[p].locked

(* stack_uptodate(): the same file, or the same names. *)
UpToDate(p) == (proc[p].fd # NoFd /\ proc[p].fd = ino) \/ proc[p].stack = list

(* The operation of a process is over; locks and a table that did not get  *)
(* on the list are removed.                                                *)
Finish(p, result) ==
    /\ ReleaseList(p)
    /\ file' = file \ {proc[p].new}
    /\ proc' = [proc EXCEPT ![p].pc = "done", ![p].outcome = result, ![p].locked = {},
                  ![p].new = 0, ![p].names = <<>>, ![p].toopen = <<>>, ![p].newfd = NoFd,
                  ![p].fd = IF At(p, "missing") THEN NoFd ELSE @]
    /\ UNCHANGED <<list, ino, tables>>

-----------------------------------------------------------------------------
(* reftable_stack_reload_maybe_reuse(). *)

(* A process record that starts to load the stack and then goes on. *)
Reloading(P, then) == [P EXCEPT !.pc = "reload", !.tries = 0, !.then = then]

(* Mutant: what was loaded once is good for ever. *)
ReloadedNever(p, P, then) == [P EXCEPT !.pc = then]

(* reftable_stack_reload(): load it unless it is up to date. *)
Reloaded(p, P, then) == IF UpToDate(p) THEN [P EXCEPT !.pc = then] ELSE Reloading(P, then)

(* reftable_new_stack(). *)
OpenStack(p) ==
    /\ At(p, "idle")
    /\ proc' = [proc EXCEPT ![p] = Reloading(@, "ready")]
    /\ UNCHANGED disk

(* Open tables.list and read the names.  Tables that are open are reused.  *)
ReadList(p) ==
    /\ At(p, "reload")
    /\ proc' = [proc EXCEPT ![p].pc = "open", ![p].newfd = ino, ![p].names = list,
                  ![p].tries = IF @ < SureTries THEN @ + 1 ELSE @,
                  ![p].toopen = SelectSeq(list, LAMBDA t : t \notin Members(proc[p].stack))]
    /\ UNCHANGED disk

(* After some attempts the deadline counts.  The error code is then that   *)
(* of gettimeofday(), so that the old stack is taken to be loaded; if      *)
(* there is none, the process dies when it uses it.                        *)
GiveUp(p) ==
    /\ MayTimeOut /\ At(p, "reload") /\ proc[p].tries = SureTries
    /\ proc' = [proc EXCEPT ![p].fd = NoFd,
                  ![p].pc = IF proc[p].then = "ready" THEN "exited" ELSE proc[p].then]
    /\ UNCHANGED disk

(* Open the next table; it may be gone. *)
OpenTable(p) ==
    /\ At(p, "open") /\ proc[p].toopen # <<>>
    /\ proc' = IF Head(proc[p].toopen) \in file
                 THEN [proc EXCEPT ![p].toopen = Tail(@)]
                 ELSE [proc EXCEPT ![p].pc = "missing"]
    /\ UNCHANGED disk

(* Mutant: tables are closed and unlinked whether they are reused or not. *)
UseTablesReuseNone(p) ==
    /\ At(p, "open") /\ proc[p].toopen = <<>>
    /\ file' = file \ Members(proc[p].stack)
    /\ proc' = [proc EXCEPT ![p].pc = proc[p].then, ![p].stack = proc[p].names,
                  ![p].fd = proc[p].newfd, ![p].newfd = NoFd, ![p].names = <<>>]
    /\ UNCHANGED <<list, ino, llock, lino, tables>>

(* All tables are open: use them, and unlink those that are not reused.    *)
UseTables(p) ==
    /\ At(p, "open") /\ proc[p].toopen = <<>>
    /\ file' = file \ (Members(proc[p].stack) \ Members(proc[p].names))
    /\ proc' = [proc EXCEPT ![p].pc = proc[p].then, ![p].stack = proc[p].names,
                  ![p].fd = proc[p].newfd, ![p].newfd = NoFd, ![p].names = <<>>]
    /\ UNCHANGED <<list, ino, llock, lino, tables>>

(* Mutant: a missing table is an error. *)
CheckNamesNever(p) == At(p, "missing") /\ Finish(p, "missing")

(* A table is missing: try again if the list has changed meanwhile.        *)
CheckNames(p) ==
    /\ At(p, "missing")
    /\ \/ list = proc[p].names /\ Finish(p, "missing")
       \/ /\ list # proc[p].names
          /\ proc' = [proc EXCEPT ![p].pc = "reload", ![p].newfd = NoFd]
          /\ UNCHANGED disk

(* reftable_stack_destroy() unlinks what has left the list. *)
CloseStack(p) ==
    /\ At(p, "done") /\ p \notin Resident
    /\ file' = file \ (Members(proc[p].stack) \ Members(list))
    /\ proc' = [proc EXCEPT ![p].pc = "closed", ![p].fd = NoFd, ![p].stack = <<>>]
    /\ UNCHANGED <<list, ino, llock, lino, tables>>

-----------------------------------------------------------------------------
(* Transactions of the reftable backend. *)

(* reftable_be_transaction_prepare(): reload, *)
BeginUpdate(p) ==
    /\ p \in Writer /\ At(p, "ready")
    /\ \E t \in Transactions :
         proc' = [proc EXCEPT ![p] = Reloaded(p, [@ EXCEPT !.txn = t], "lock")]
    /\ UNCHANGED disk

(* Mutant: the stack is not checked again under the lock. *)
LockForUpdateOnly(p) ==
    /\ At(p, "lock")
    /\ LockList(p)
    /\ Goto(p, "check")
    /\ UNCHANGED <<list, ino, tables, file>>

(* Mutant: wait for the lock for ever. *)
LockForUpdateWaits(p) ==
    /\ At(p, "lock")
    /\ LockList(p)
    /\ proc' = [proc EXCEPT ![p] = Reloaded(p, @, "check")]
    /\ UNCHANGED <<list, ino, tables, file>>

(* reftable_stack_new_addition(): lock, and reload again if need be; *)
LockForUpdate(p) ==
    /\ At(p, "lock")
    /\ \/ /\ LockList(p)
          /\ proc' = [proc EXCEPT ![p] = Reloaded(p, @, "check")]
          /\ UNCHANGED <<list, ino, tables, file>>
       \/ llock # NoLock /\ Finish(p, "failed")

Conflict(q, r) == q \in Parents[r] \/ r \in Parents[q]

(* Mutant: only the transaction itself is looked at. *)
NameTakenInTransaction(p, r) == \E q \in DOMAIN proc[p].txn : Conflict(q, r)

(* refs_verify_refname_available(). *)
NameTaken(p, r) ==
    \E q \in Ref : Conflict(q, r) /\ (Lookup(proc[p].stack, q) # None \/ q \in DOMAIN proc[p].txn)

UpdateAllowed(p, r) ==
    LET v == Lookup(proc[p].stack, r) IN
    /\ proc[p].txn[r].old \in {NoOld, v}
    /\ v = None => ~NameTaken(p, r)

(* check every update and queue those that change something.               *)
CheckUpdates(p) ==
    LET t == proc[p].txn IN
    /\ At(p, "check")
    /\ \/ /\ \A r \in DOMAIN t : UpdateAllowed(p, r)
          /\ proc' = [proc EXCEPT ![p].pc = "prepared",
                        ![p].queued = {r \in DOMAIN t :
                                         t[r].new \notin {NoNew, Lookup(proc[p].stack, r)}}]
          /\ UNCHANGED disk
       \/ /\ \E r \in DOMAIN t : ~UpdateAllowed(p, r)
          /\ Finish(p, "failed")

(* reftable_be_transaction_abort(). *)
Abort(p) == At(p, "prepared") /\ Finish(p, "failed")

(* Mutant: the wrong limit of the last table. *)
LastIndexMin(s) == IF s = <<>> THEN 0 ELSE tables[s[Len(s)]].min

(* reftable_stack_next_update_index(). *)
LastIndex(s) == IF s = <<>> THEN 0 ELSE tables[s[Len(s)]].max

(* reftable_addition_add() with write_transaction_table(). *)
AddTable(p) ==
    LET P == proc[p]
        i == LastIndex(P.stack) + 1
    IN
    /\ At(p, "prepared")
    /\ \/ /\ P.queued # {}
          /\ tables' = Append(tables, [refs |-> [r \in P.queued |-> P.txn[r].new],
                                       min |-> i, max |-> i])
          /\ file' = file \cup {Len(tables')}
          /\ proc' = [proc EXCEPT ![p].pc = "commit", ![p].new = Len(tables')]
          /\ UNCHANGED <<list, ino, llock, lino>>
       \/ P.queued = {} /\ Finish(p, "ok")
       \/ MayFail /\ Finish(p, "failed")

(* Mutant: the new table is not forgotten once it is on the list. *)
CommitUpdateKeepsNew(p) ==
    /\ At(p, "commit")
    /\ CommitLock(p, Append(proc[p].stack, proc[p].new))
    /\ proc' = [proc EXCEPT ![p] = Reloading([@ EXCEPT !.applied = proc[p].queued], "compact")]
    /\ UNCHANGED <<tables, file>>

(* reftable_addition_commit(); the stack is loaded and compacted next.     *)
CommitUpdate(p) ==
    /\ At(p, "commit")
    /\ \/ /\ CommitLock(p, Append(proc[p].stack, proc[p].new))
          /\ proc' = [proc EXCEPT ![p] =
                        Reloading([@ EXCEPT !.applied = proc[p].queued, !.new = 0], "compact")]
          /\ UNCHANGED <<tables, file>>
       \/ MayFail /\ Finish(p, "failed")

EndUpdate(p) == At(p, "finish") /\ Finish(p, "ok")

-----------------------------------------------------------------------------
(* stack_compact_range(), for a transaction that has just committed and    *)
(* for reftable_be_pack_refs().                                            *)

CompactsAll(p) == p \in Packer \ AutoCompact

AtCompaction(p) == At(p, "compact") \/ (p \in Packer /\ At(p, "ready"))
AfterCompaction(p) == IF p \in Writer THEN "finish" ELSE "clean"

(* Mutant: it is. *)
LockErrorFails(p) == Finish(p, "failed")

(* REFTABLE_LOCK_ERROR is no error of a transaction. *)
LockError(p) == Finish(p, IF p \in Writer THEN "ok" ELSE "failed")

NothingToCompact(p) ==
    /\ AtCompaction(p)
    /\ CompactsAll(p) => Len(proc[p].stack) < 2
    /\ Goto(p, AfterCompaction(p))
    /\ UNCHANGED disk

StartCompaction(p) ==
    /\ AtCompaction(p)
    /\ \E first, last \in DOMAIN proc[p].stack :
         /\ first < last
         /\ CompactsAll(p) => first = 1 /\ last = Len(proc[p].stack)
         /\ \/ /\ LockList(p)
               /\ proc' = [proc EXCEPT ![p].pc = "locktables", ![p].first = first, ![p].last = last]
               /\ UNCHANGED <<list, ino, tables, file>>
            \/ llock # NoLock /\ LockError(p)

(* Mutant: tables are not locked. *)
LockNoTables(p) ==
    /\ At(p, "locktables") /\ UpToDate(p)
    /\ ReleaseList(p)
    /\ Goto(p, "merge")
    /\ UNCHANGED <<list, ino, tables, file>>

(* If the stack is still up to date, lock its tables from the last to the  *)
(* first, and release the list.  With STACK_COMPACT_RANGE_BEST_EFFORT a    *)
(* table that is locked already ends the range if two tables are in it.    *)
LockTables(p) ==
    LET P == proc[p]
        busy == {i \in P.first .. P.last : Locked(P.stack[i])}
        from == CHOOSE i \in {P.first} \cup {j + 1 : j \in busy} : \A j \in busy : j < i
        enough == busy = {} \/ (~CompactsAll(p) /\ P.last - from >= 1)
    IN
    /\ At(p, "locktables")
    /\ \/ /\ ~UpToDate(p)
          /\ ReleaseList(p)
          /\ Goto(p, AfterCompaction(p))
          /\ UNCHANGED <<list, ino, tables, file>>
       \/ /\ UpToDate(p) /\ enough
          /\ ReleaseList(p)
          /\ proc' = [proc EXCEPT ![p].pc = "merge", ![p].first = from,
                        ![p].locked = {P.stack[i] : i \in from .. P.last}]
          /\ UNCHANGED <<list, ino, tables, file>>
       \/ UpToDate(p) /\ ~enough /\ LockError(p)

(* stack_write_compact(): a tombstone at the bottom of the stack has       *)
(* nothing left to hide.                                                   *)
MergedRefs(s, first) ==
    LET named == {r \in Ref : Mentions(s, r) # {}}
        kept == {r \in named : first = 1 => Lookup(s, r) # None}
    IN  [r \in kept |-> Lookup(s, r)]

(* stack_compact_locked() writes a temporary file. *)
WriteCompacted(p) ==
    LET P == proc[p]
        refs == MergedRefs(SubSeq(P.stack, P.first, P.last), P.first)
    IN
    /\ At(p, "merge")
    /\ \/ /\ IF refs = <<>> THEN UNCHANGED tables
             ELSE tables' = Append(tables, [refs |-> refs, min |-> tables[P.stack[P.first]].min,
                                            max |-> tables[P.stack[P.last]].max])
          /\ proc' = [proc EXCEPT ![p].pc = "relock",
                        ![p].new = IF refs = <<>> THEN 0 ELSE Len(tables')]
          /\ UNCHANGED <<list, ino, llock, lino, file>>
       \/ MayFail /\ Finish(p, "failed")

Relock(p) ==
    /\ At(p, "relock")
    /\ \/ LockList(p) /\ Goto(p, "install") /\ UNCHANGED <<list, ino, tables, file>>
       \/ llock # NoLock /\ LockError(p)

(* Where the range that was compacted starts in names, if it is there.     *)
Offsets(p, names) ==
    LET P == proc[p]
        n == P.last - P.first
    IN  {i \in 1 .. Len(names) - n : \A j \in 0 .. n : names[i + j] = P.stack[P.first + j]}

(* Under the lock: find the range in the list, and rename the new table.   *)
Install(p) ==
    LET P == proc[p]
        names == IF UpToDate(p) THEN P.stack ELSE list
    IN
    /\ At(p, "install")
    /\ \/ /\ Offsets(p, names) # {}
          /\ file' = IF P.new = 0 THEN file ELSE file \cup {P.new}
          /\ proc' = [proc EXCEPT ![p].pc = "replace", ![p].names = names]
          /\ UNCHANGED <<list, ino, llock, lino, tables>>
       \/ (Offsets(p, names) = {} \/ MayFail) /\ Finish(p, "failed")

(* Replace the range by the new table, or by nothing if it is empty.       *)
Replace(p) ==
    LET P == proc[p]
        at == CHOOSE i \in Offsets(p, P.names) : \A j \in Offsets(p, P.names) : i <= j
        new == IF P.new = 0 THEN <<>> ELSE <<P.new>>
    IN
    /\ At(p, "replace")
    /\ \/ /\ CommitLock(p, SubSeq(P.names, 1, at - 1) \o new
                             \o SubSeq(P.names, at + P.last - P.first + 1, Len(P.names)))
          /\ proc' = [proc EXCEPT ![p] = Reloading([@ EXCEPT !.new = 0, !.names = <<>>], "unlink")]
          /\ UNCHANGED <<tables, file>>
       \/ MayFail /\ Finish(p, "failed")

(* Mutant: the old tables are left to reftable_stack_clean(). *)
UnlockCompacted(p) ==
    /\ At(p, "unlink")
    /\ proc' = [proc EXCEPT ![p].pc = AfterCompaction(p)]
    /\ UNCHANGED disk

(* Unlink the old tables, and unlock them. *)
UnlinkCompacted(p) ==
    /\ At(p, "unlink")
    /\ file' = file \ proc[p].locked
    /\ proc' = [proc EXCEPT ![p].pc = AfterCompaction(p), ![p].locked = {}]
    /\ UNCHANGED <<list, ino, llock, lino, tables>>

(* reftable_stack_clean(): under the lock, and if the stack is up to date, *)
LockForClean(p) ==
    /\ At(p, "clean")
    /\ \/ LockList(p) /\ Goto(p, "cleanfiles") /\ UNCHANGED <<list, ino, tables, file>>
       \/ llock # NoLock /\ Finish(p, "failed")

(* unlink the tables that are not on the list, if they are not newer.      *)
CleanFiles(p) ==
    LET stale == {t \in file \ Members(proc[p].stack) :
                    tables[t].max <= LastIndex(proc[p].stack)}
    IN
    /\ At(p, "cleanfiles")
    /\ ReleaseList(p)
    /\ file' = IF UpToDate(p) THEN file \ stale ELSE file
    /\ proc' = [proc EXCEPT ![p].pc = "done",
                  ![p].outcome = IF UpToDate(p) THEN "ok" ELSE "failed"]
    /\ UNCHANGED <<list, ino, tables>>

-----------------------------------------------------------------------------
(* reftable_be_iterator_begin(): reload, and read from what is open.       *)
BeginRead(p) ==
    /\ p \in Reader /\ At(p, "ready")
    /\ proc' = [proc EXCEPT ![p] = Reloaded(p, @, "read")]
    /\ UNCHANGED disk

ReadRefs(p) ==
    /\ At(p, "read")
    /\ proc' = [proc EXCEPT ![p].pc = "done", ![p].outcome = "ok",
                  ![p].read = [r \in Ref |-> Lookup(proc[p].stack, r)]]
    /\ UNCHANGED disk

(* The end of a process in the middle of its work: by exit() or a signal,  *)
(* after which lockfiles are removed, or killed, after which they stay.    *)
Die(p) ==
    /\ MayKill /\ proc[p].pc \notin {"idle"} \cup Ended
    /\ ReleaseList(p)
    /\ proc' = [proc EXCEPT ![p].pc = "exited", ![p].locked = {}, ![p].fd = NoFd, ![p].newfd = NoFd]
    /\ UNCHANGED <<list, ino, tables, file>>

Kill(p) ==
    /\ MayKill /\ proc[p].pc \notin {"idle"} \cup Ended
    /\ proc' = [proc EXCEPT ![p].pc = "killed", ![p].fd = NoFd, ![p].newfd = NoFd]
    /\ UNCHANGED disk

Reading(P) == P.pc = "read" \/ (P.then = "read" /\ P.pc \notin Ended)

(* Bookkeeping for ReadIsCurrent. *)
Observe ==
    seen' = [p \in Reader |->
              IF Reading(proc'[p]) THEN seen[p] \cup {[r \in Ref |-> Val(r)']} ELSE seen[p]]

-----------------------------------------------------------------------------
Step(p) ==
    \/ OpenStack(p) \/ CloseStack(p) \/ ReadList(p) \/ OpenTable(p) \/ UseTables(p) \/ CheckNames(p)
    \/ BeginUpdate(p) \/ LockForUpdate(p) \/ CheckUpdates(p) \/ AddTable(p)
    \/ CommitUpdate(p) \/ EndUpdate(p)
    \/ NothingToCompact(p) \/ StartCompaction(p) \/ LockTables(p) \/ WriteCompacted(p)
    \/ Relock(p) \/ Install(p) \/ Replace(p) \/ UnlinkCompacted(p)
    \/ LockForClean(p) \/ CleanFiles(p)
    \/ BeginRead(p) \/ ReadRefs(p)

Next ==
    /\ \E p \in Proc : Step(p) \/ GiveUp(p) \/ Abort(p) \/ Die(p) \/ Kill(p)
    /\ Observe

Spec == Init /\ [][Next]_vars

(* A process that is scheduled goes on with its operation. *)
FairSpec == Spec /\ \A p \in Proc : WF_vars(Step(p) /\ Observe)

-----------------------------------------------------------------------------
(* Properties. *)

TableNo == 1 .. Len(tables)

(* Type correctness. *)
TypeOK ==
    /\ list \in Seq(TableNo) /\ file \subseteq TableNo
    /\ ino \in 1 .. MaxInode /\ lino \in 0 .. MaxInode
    /\ llock \in Proc \cup {NoLock} /\ (llock = NoLock <=> lino = NoFd)
    /\ \A t \in TableNo : DOMAIN tables[t].refs \subseteq Ref /\ tables[t].min <= tables[t].max
    /\ DOMAIN proc = Proc
    /\ \A p \in Proc :
         /\ DOMAIN proc[p] = DOMAIN Start
         /\ proc[p].stack \in Seq(TableNo) /\ proc[p].names \in Seq(TableNo)
         /\ proc[p].fd \in 0 .. MaxInode /\ proc[p].newfd \in 0 .. MaxInode
         /\ proc[p].tries \in 0 .. SureTries
         /\ proc[p].applied \subseteq proc[p].queued
         /\ proc[p].queued \subseteq DOMAIN proc[p].txn
         /\ proc[p].locked \subseteq TableNo
         /\ proc[p].new \in 0 .. Len(tables)

(* Every table that tables.list names has its file: none of the five       *)
(* places that unlink tables (a reload, the end of a compaction, a failed  *)
(* addition, reftable_stack_clean() and reftable_stack_destroy()) takes    *)
(* away one that is in use, whatever stale view of the list it acts on.    *)
ListedTablesExist == Members(list) \subseteq file

(* The update indexes of the tables grow along the list, so that a table   *)
(* is newer than those before it also for reftable_stack_clean() and for   *)
(* reflogs.                                                                *)
UpdateIndexesIncrease ==
    \A i \in 1 .. Len(list) - 1 : tables[list[i]].max < tables[list[i + 1]].min

(* The stack behaves like one atomic register per reference: a value       *)
(* changes only by the update of a transaction, once, and from the value   *)
(* it expected.  No update is lost to a concurrent transaction or          *)
(* compaction, and compaction is invisible.                                *)
Abstract == INSTANCE RefStore WITH
    Client <- Writer,
    val <- [r \in Ref |-> Val(r)],
    request <- [p \in Writer |-> proc[p].txn],
    performed <- [p \in Writer |-> proc[p].applied]

RefinesRefStore == Abstract!Spec

(* stack_compact_range() says of its checks after locking the list again   *)
(* that they never fail "because we have locked the tables": the range it  *)
(* has merged is on the list, in one piece and in order.                   *)
CompactedTablesStay ==
    \A p \in Proc : At(p, "install") => Offsets(p, list) # {}

(* A process that loads the stack while others change it never fails with *)
(* REFTABLE_NOT_EXIST_ERROR: it finds a list whose tables it can open.     *)
NoTableMissing == \A p \in Proc : proc[p].outcome # "missing"

(* A reader is told the values that all references had together at one     *)
(* moment while it was at work.                                            *)
ReadIsCurrent ==
    \A p \in Reader : proc[p].read # <<>> => proc[p].read \in seen[p]

(* Two references whose names conflict (a and a/b) never exist together.   *)
NoNameConflict ==
    \A q, r \in Ref : Conflict(q, r) => Val(q) = None \/ Val(r) = None

(* When all processes have ended, and none was killed, no lockfile is left *)
(* and no table that is not on the list.                                   *)
NothingLeftBehind ==
    (\A p \in Proc : proc[p].pc \in {"idle", "ready", "done", "closed"}) =>
        /\ llock = NoLock
        /\ \A t \in TableNo : ~Locked(t)
        /\ file = Members(list)

(* A transaction that returned success has performed every update, and one *)
(* that returned failure has performed none: losing a race after the list  *)
(* is renamed, to a compaction or in a reload, is not reported as failure. *)
OutcomeIsTruthful ==
    \A p \in Writer :
        /\ proc[p].outcome = "ok" => proc[p].applied = proc[p].queued
        /\ proc[p].outcome \in {"failed", "missing"} => proc[p].applied = {}

(* Every operation ends, also when a process is killed with locks held:    *)
(* nobody waits for a lock or tries to reload for ever.                    *)
EveryoneFinishes == \A p \in Proc : <>(proc[p].pc \in Ended)
=============================================================================
