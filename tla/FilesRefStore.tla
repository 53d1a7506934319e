--------------------------- MODULE FilesRefStore ---------------------------
(***************************************************************************)
(* The files reference backend (refs/files-backend.c) with the packed-refs *)
(* file below it (refs/packed-backend.c).                                  *)
(*                                                                         *)
(* A reference is a loose file, an entry of packed-refs, or both, and the  *)
(* loose file wins.  Writers run transactions under one lockfile per       *)
(* reference and packed-refs.lock.  Packers move loose references to       *)
(* packed-refs and then remove the loose files.  Readers take no lock.     *)
(*                                                                         *)
(* A step is a lock, a rename, an unlink, a directory operation or a read  *)
(* of one file: the points where processes meet.  The lockfile API itself  *)
(* is module LockFile.  Every process runs one operation.  The updates of  *)
(* a transaction are handled in an arbitrary order, which stands for every *)
(* order of the updates array.  Symbolic references are not modelled here. *)
(***************************************************************************)
EXTENDS Naturals, FiniteSets

CONSTANTS
    Ref,            \* the reference names
    Oid,            \* the object names
    None,           \* null_oid, or no such file or entry
    NoOld,          \* old_oid not given
    NoNew,          \* new_oid not given
    NoLock,         \* the lockfile does not exist
    Writer, Packer, Reader, Lister,     \* the processes, by what they may run
    Auto,           \* the packers that run with PACK_REFS_AUTO
    Parents,        \* Parents[r]: the names that are leading components of r
    Transactions,   \* the transactions that writers run
    InitStores,     \* the loose and packed values the store may start with
    Attempts,       \* attempts_remaining of lock_raw_ref()
    Retries,        \* remaining_retries of read_ref_internal()
    PruneFlags,     \* whether packers run with PACK_REFS_PRUNE
    MayFail,        \* whether writes, renames and unlinks may fail
    MayKill         \* whether a process may be killed

Proc == Writer \cup Packer \cup Reader \cup Lister
Value == Oid \cup {None}

ASSUME FlagAssumption ==
    MayFail \in BOOLEAN /\ MayKill \in BOOLEAN /\ PruneFlags \subseteq BOOLEAN
ASSUME TriesAssumption == Attempts \in Nat \ {0} /\ Retries \in Nat \ {0}
ASSUME RoleAssumption ==
    /\ Auto \subseteq Packer
    /\ Writer \cap Packer = {} /\ (Writer \cup Packer) \cap (Reader \cup Lister) = {}
    /\ NoLock \notin Proc
ASSUME ValueAssumption ==
    /\ None \notin Oid \cup {NoOld, NoNew} /\ NoOld \notin Oid /\ NoNew \notin Oid
    /\ Parents \in [Ref -> SUBSET Ref]
    /\ InitStores \subseteq [loose : [Ref -> Value], packed : [Ref -> Value]]

(* One update: the value to expect and the value to set.  prune is the     *)
(* flag REF_IS_PRUNING.                                                    *)
Update == [old : Value \cup {NoOld}, new : Value \cup {NoNew}, prune : BOOLEAN]

ASSUME TransactionAssumption ==
    \A t \in Transactions :
        /\ DOMAIN t \in SUBSET Ref \ {{}}
        /\ \A r \in DOMAIN t : t[r] \in Update /\ ~t[r].prune

Conflict(q, r) == q \in Parents[r] \/ r \in Parents[q]

VARIABLES
    loose,      \* the loose file of each reference
    packed,     \* the contents of packed-refs
    staged,     \* the contents of packed-refs.new, or <<>> if there is none
    dir,        \* the names at which there is a directory
    rlock,      \* who created each reference's lockfile
    plock,      \* who created packed-refs.lock
    log,        \* the new value in the last line of each reflog
    proc,       \* the state of each process
    seen        \* the values each reference had while a reader was at work

disk == <<loose, packed, staged, dir, rlock, plock, log>>
vars == <<disk, proc, seen>>

Absent == [r \in Ref |-> None]
NoRef  == "no ref"

(***************************************************************************)
(* The state of a process.                                                 *)
(*   txn      the updates of its transaction                               *)
(*   cur      the reference it is locking, with `tries' attempts left      *)
(*   old      lock->old_oid, for the references it has locked and checked  *)
(*   ispacked those whose value came from packed-refs (REF_ISPACKED)       *)
(*   logged   those whose reflog line it has written                       *)
(*   applied  those whose update has taken effect                          *)
(*   outcome  what the transaction returned                                *)
(*   read     the loose references it has read, with their values          *)
(*   toprune  the references a packer has left to prune                    *)
(***************************************************************************)
Start == [pc |-> "idle", txn |-> <<>>, cur |-> NoRef, tries |-> 0,
          old |-> <<>>, ispacked |-> {}, logged |-> {}, applied |-> {},
          outcome |-> "open", read |-> <<>>, toprune |-> {}]

Partial(D, R) == UNION {[S -> R] : S \in SUBSET D}

PCs == {"idle", "prepare", "open", "check", "prepared", "commit", "packed",
        "unlink", "cleanup", "rmdir", "count", "pack", "packcommit", "prune",
        "stat", "read", "list", "fallback", "done", "exited", "killed"}

Ended == {"done", "exited", "killed"}

TypeOK ==
    /\ loose \in [Ref -> Value] /\ packed \in [Ref -> Value]
    /\ staged = <<>> \/ staged \in [Ref -> Value]
    /\ dir \subseteq Ref
    /\ rlock \in [Ref -> Proc \cup {NoLock}] /\ plock \in Proc \cup {NoLock}
    /\ log \in [Ref -> Value]
    /\ DOMAIN proc = Proc
    /\ \A p \in Proc :
         /\ DOMAIN proc[p] = DOMAIN Start
         /\ proc[p].pc \in PCs
         /\ proc[p].txn \in Partial(Ref, Update)
         /\ proc[p].cur \in Ref \cup {NoRef}
         /\ proc[p].tries \in 0 .. Attempts + Retries
         /\ proc[p].old \in Partial(DOMAIN proc[p].txn, Value)
         /\ proc[p].ispacked \subseteq DOMAIN proc[p].old
         /\ proc[p].logged \subseteq DOMAIN proc[p].old
         /\ proc[p].applied \subseteq DOMAIN proc[p].old
         /\ proc[p].outcome \in {"open", "ok", "refused", "broken"}
         /\ proc[p].read \in Partial(Ref, Value)
         /\ proc[p].toprune \subseteq Ref

Init ==
    /\ \E s \in InitStores :
         /\ loose = s.loose /\ packed = s.packed
         /\ dir = UNION {Parents[r] : r \in {q \in Ref : s.loose[q] # None}}
         /\ log = [r \in Ref |-> IF s.loose[r] # None THEN s.loose[r] ELSE s.packed[r]]
    /\ staged = <<>>
    /\ rlock = [r \in Ref |-> NoLock]
    /\ plock = NoLock
    /\ proc = [p \in Proc |-> Start]
    /\ seen = [p \in Reader \cup Lister |-> [r \in Ref |-> {}]]

(* The value of a reference: read_ref_internal() without interruption.     *)
Val(r) == IF loose[r] # None THEN loose[r] ELSE packed[r]

At(p, pc) == proc[p].pc = pc
Goto(p, pc) == proc' = [proc EXCEPT ![p].pc = pc]

Deletes(t) == {r \in DOMAIN t : t[r].new = None}

(* The deletions that also concern packed-refs. *)
PackedDeletes(t) == {r \in Deletes(t) : ~t[r].prune}

(* The names below a directory, and whether a file is left among them. *)
Below(d) == {r \in Ref : d \in Parents[r]}
Occupied(d) == \E r \in Below(d) : loose[r] # None \/ rlock[r] # NoLock

-----------------------------------------------------------------------------
(* ref_transaction_prepare(). *)

Begin(p) ==
    /\ p \in Writer /\ At(p, "idle")
    /\ \E t \in Transactions :
         proc' = [proc EXCEPT ![p].pc = "prepare", ![p].txn = t]
    /\ UNCHANGED disk

(* files_transaction_prepare() fails: every lock is given back. *)
Refuse(p) == proc' = [proc EXCEPT ![p].pc = "cleanup", ![p].outcome = "refused"]

(* lock_raw_ref(): create the leading directories of the next reference.   *)
(* A loose reference in the place of a directory is an error.              *)
MakeDirs(p, r) ==
    /\ At(p, "prepare")
    /\ \/ proc[p].cur = r
       \/ proc[p].cur = NoRef /\ r \in DOMAIN proc[p].txn \ DOMAIN proc[p].old
    /\ IF \E d \in Parents[r] : loose[d] # None
         THEN Refuse(p) /\ UNCHANGED dir
         ELSE /\ dir' = dir \cup Parents[r]
              /\ proc' = [proc EXCEPT ![p].pc = "open", ![p].cur = r,
                             ![p].tries = IF proc[p].cur = r THEN @ ELSE Attempts]
    /\ UNCHANGED <<loose, packed, staged, rlock, plock, log>>

(* Mutant: wait for the lockfile for ever. *)
OpenLockWaits(p) ==
    LET r == proc[p].cur IN
    /\ At(p, "open")
    /\ Parents[r] \subseteq dir /\ rlock[r] = NoLock
    /\ rlock' = [rlock EXCEPT ![r] = p]
    /\ Goto(p, "check")
    /\ UNCHANGED <<loose, packed, staged, dir, plock, log>>

(* Mutant: an existing lockfile is taken over. *)
OpenLockShared(p) ==
    LET r == proc[p].cur IN
    /\ At(p, "open")
    /\ Parents[r] \subseteq dir
    /\ rlock' = [rlock EXCEPT ![r] = p]
    /\ Goto(p, "check")
    /\ UNCHANGED <<loose, packed, staged, dir, plock, log>>

(* Then create the lockfile.  A directory may have been removed meanwhile; *)
(* if the lockfile exists and stays, the timeout passes.                   *)
OpenLock(p) ==
    LET r == proc[p].cur IN
    /\ At(p, "open")
    /\ \/ /\ ~(Parents[r] \subseteq dir)
          /\ IF proc[p].tries > 1
               THEN proc' = [proc EXCEPT ![p].pc = "prepare", ![p].tries = @ - 1]
               ELSE Refuse(p)
          /\ UNCHANGED rlock
       \/ /\ Parents[r] \subseteq dir
          /\ rlock[r] # NoLock
          /\ Refuse(p)
          /\ UNCHANGED rlock
       \/ /\ Parents[r] \subseteq dir
          /\ rlock[r] = NoLock
          /\ rlock' = [rlock EXCEPT ![r] = p]
          /\ Goto(p, "check")
    /\ UNCHANGED <<loose, packed, staged, dir, plock, log>>

(* Mutant: packed-refs is not looked at. *)
NameTakenInTransaction(t, r) == \E q \in DOMAIN t : Conflict(q, r)

(* refs_verify_refname_available() on packed-refs and on the other names   *)
(* in the transaction.                                                     *)
NameTaken(t, r) == \E q \in Ref : Conflict(q, r) /\ (packed[q] # None \/ q \in DOMAIN t)

(* check_old_oid(). *)
OldMatches(u, r) == u.old \in {NoOld, Val(r)}

(* The lock is held: read the reference, check its name and old value, and *)
(* write the new value to the lockfile.                                    *)
CheckRef(p) ==
    LET r == proc[p].cur
        u == proc[p].txn[r]
        v == Val(r)
        missing == v = None
        mustexist == u.old \notin {NoOld, None}
        blocked == r \in dir /\ Occupied(r)
    IN
    /\ At(p, "check")
    /\ dir' = IF missing /\ ~mustexist /\ ~blocked THEN dir \ ({r} \cup Below(r)) ELSE dir
    /\ \/ /\ missing => ~mustexist /\ ~blocked /\ ~NameTaken(proc[p].txn, r)
          /\ OldMatches(u, r)
          /\ proc' = [proc EXCEPT
                        ![p].pc = "prepare", ![p].cur = NoRef,
                        ![p].old = [q \in DOMAIN @ \cup {r} |-> IF q = r THEN v ELSE @[q]],
                        ![p].ispacked = IF loose[r] = None /\ v # None THEN @ \cup {r} ELSE @]
       \/ /\ \/ missing /\ (mustexist \/ blocked \/ NameTaken(proc[p].txn, r))
             \/ ~OldMatches(u, r)
             \/ MayFail
          /\ Refuse(p)
    /\ UNCHANGED <<loose, packed, staged, rlock, plock, log>>

(* Mutant: packed-refs stays unlocked when it need not be rewritten. *)
PreparePackedIfNeeded(p) ==
    LET D == PackedDeletes(proc[p].txn) IN
    /\ At(p, "prepare") /\ DOMAIN proc[p].old = DOMAIN proc[p].txn
    /\ \/ /\ \A r \in D : packed[r] = None
          /\ Goto(p, "prepared")
          /\ UNCHANGED <<staged, plock>>
       \/ /\ \E r \in D : packed[r] # None
          /\ plock = NoLock /\ plock' = p
          /\ staged' = [r \in Ref |-> IF r \in D THEN None ELSE packed[r]]
          /\ Goto(p, "prepared")
    /\ UNCHANGED <<loose, packed, dir, rlock, log>>

(* All references are locked.  Deletions also need packed-refs.lock, and a *)
(* new packed-refs file if the old one holds a reference to delete.        *)
PreparePacked(p) ==
    LET D == PackedDeletes(proc[p].txn) IN
    /\ At(p, "prepare") /\ DOMAIN proc[p].old = DOMAIN proc[p].txn
    /\ \/ /\ D = {}
          /\ Goto(p, "prepared")
          /\ UNCHANGED <<staged, plock>>
       \/ /\ D # {} /\ plock = NoLock
          /\ plock' = p
          /\ \/ /\ staged' = IF \E r \in D : packed[r] # None
                               THEN [r \in Ref |-> IF r \in D THEN None ELSE packed[r]]
                               ELSE <<>>
                /\ Goto(p, "prepared")
             \/ MayFail /\ Refuse(p) /\ UNCHANGED staged
       \/ /\ D # {} /\ plock # NoLock
          /\ Refuse(p)
          /\ UNCHANGED <<staged, plock>>
    /\ UNCHANGED <<loose, packed, dir, rlock, log>>

(* ref_transaction_abort() by the caller or the reference-transaction hook. *)
Abort(p) ==
    /\ p \in Writer /\ At(p, "prepared")
    /\ Refuse(p)
    /\ UNCHANGED disk

-----------------------------------------------------------------------------
(* files_transaction_finish(). *)

(* A step of it fails: the rest is not performed. *)
Break(p) == proc' = [proc EXCEPT ![p].pc = "cleanup", ![p].outcome = "broken"]

(* Mutant: a reference that is only packed is taken to be up to date. *)
NeedsCommitIfLoose(p) ==
    {r \in DOMAIN proc[p].old \ proc[p].ispacked :
        proc[p].txn[r].new \in Oid \ {proc[p].old[r]}}

(* REF_NEEDS_COMMIT: a new value is waiting in the lockfile. *)
NeedsCommit(p) ==
    {r \in DOMAIN proc[p].old : proc[p].txn[r].new \in Oid \ {proc[p].old[r]}}

(* The updates come first.  Each writes a line to the reflog ... *)
WriteReflog(p, r) ==
    /\ proc[p].pc \in {"prepared", "commit"}
    /\ proc[p].logged = proc[p].applied
    /\ r \in NeedsCommit(p) \ proc[p].logged
    /\ \/ /\ log' = [log EXCEPT ![r] = proc[p].txn[r].new]
          /\ proc' = [proc EXCEPT ![p].pc = "commit", ![p].logged = @ \cup {r}]
       \/ MayFail /\ Break(p) /\ UNCHANGED log
    /\ UNCHANGED <<loose, packed, staged, dir, rlock, plock>>

(* ... and renames the lockfile into place (commit_ref()), which fails if  *)
(* there is a directory that cannot be removed.                            *)
CommitRef(p, r) ==
    /\ At(p, "commit")
    /\ r \in proc[p].logged \ proc[p].applied
    /\ \/ /\ r \in dir => ~Occupied(r)
          /\ loose' = [loose EXCEPT ![r] = proc[p].txn[r].new]
          /\ rlock' = [rlock EXCEPT ![r] = NoLock]
          /\ dir' = dir \ ({r} \cup Below(r))
          /\ proc' = [proc EXCEPT ![p].applied = @ \cup {r}]
       \/ /\ (r \in dir /\ Occupied(r)) \/ MayFail
          /\ Break(p)
          /\ UNCHANGED <<loose, rlock, dir>>
    /\ UNCHANGED <<packed, staged, plock, log>>

(* Mutant: deletions do not wait for the updates. *)
DeleteReflogsEarly(p) ==
    /\ proc[p].pc \in {"prepared", "commit"}
    /\ log' = [r \in Ref |-> IF r \in PackedDeletes(proc[p].txn) THEN None ELSE log[r]]
    /\ Goto(p, "packed")
    /\ UNCHANGED <<loose, packed, staged, dir, rlock, plock>>

(* Mutant: the reflogs of deleted references stay. *)
KeepReflogs(p) ==
    /\ proc[p].pc \in {"prepared", "commit"}
    /\ NeedsCommit(p) \subseteq proc[p].applied
    /\ Goto(p, "packed")
    /\ UNCHANGED disk

(* Then the reflogs of the references to delete are removed, *)
DeleteReflogs(p) ==
    /\ proc[p].pc \in {"prepared", "commit"}
    /\ NeedsCommit(p) \subseteq proc[p].applied
    /\ log' = [r \in Ref |-> IF r \in PackedDeletes(proc[p].txn) THEN None ELSE log[r]]
    /\ Goto(p, "packed")
    /\ UNCHANGED <<loose, packed, staged, dir, rlock, plock>>

(* then their entries in packed-refs, *)
CommitPacked(p) ==
    /\ At(p, "packed")
    /\ \/ /\ IF plock = p /\ staged # <<>>
               THEN packed' = staged /\ staged' = <<>>
               ELSE UNCHANGED <<packed, staged>>
          /\ proc' = [proc EXCEPT ![p].pc = "unlink",
                        ![p].applied = @ \cup (proc[p].ispacked \cap PackedDeletes(proc[p].txn))]
       \/ /\ plock = p /\ staged # <<>> /\ MayFail
          /\ Break(p)
          /\ UNCHANGED <<packed, staged>>
    /\ UNCHANGED <<loose, dir, rlock, plock, log>>

(* and at last their loose files. *)
UnlinkLoose(p, r) ==
    /\ At(p, "unlink")
    /\ r \in Deletes(proc[p].txn) \ (proc[p].ispacked \cup proc[p].applied)
    /\ \/ /\ r \notin dir
          /\ loose' = [loose EXCEPT ![r] = None]
          /\ proc' = [proc EXCEPT ![p].applied = @ \cup {r}]
       \/ (r \in dir \/ MayFail) /\ Break(p) /\ UNCHANGED loose
    /\ UNCHANGED <<packed, staged, dir, rlock, plock, log>>

(* Mutant: packed-refs.lock is forgotten. *)
ReleaseRefLocks(p) ==
    /\ rlock' = [r \in Ref |-> IF rlock[r] = p THEN NoLock ELSE rlock[r]]
    /\ UNCHANGED <<plock, staged>>

(* The locks that a process holds are gone when it gives them back, and    *)
(* when it exits or a signal ends it; so is packed-refs.new.               *)
ReleaseLocks(p) ==
    /\ rlock' = [r \in Ref |-> IF rlock[r] = p THEN NoLock ELSE rlock[r]]
    /\ plock' = IF plock = p THEN NoLock ELSE plock
    /\ staged' = IF plock = p THEN <<>> ELSE staged

(* files_transaction_cleanup(), after a failure or when all is done. *)
Cleanup(p) ==
    /\ \/ At(p, "cleanup")
       \/ At(p, "unlink") /\ Deletes(proc[p].txn) \subseteq proc[p].ispacked \cup proc[p].applied
    /\ ReleaseLocks(p)
    /\ proc' = [proc EXCEPT ![p].pc = "rmdir",
                  ![p].outcome = IF @ = "open" THEN "ok" ELSE @]
    /\ UNCHANGED <<loose, packed, dir, log>>

(* try_remove_empty_parents() of the deleted references (REF_DELETED_RMDIR), *)
(* also of one whose loose file was gone before.                           *)
RemoveEmptyParents(p) ==
    LET gone == IF proc[p].outcome = "ok" THEN proc[p].ispacked ELSE {}
        deleted == Deletes(proc[p].txn) \cap (proc[p].applied \cup gone)
    IN
    /\ At(p, "rmdir")
    /\ dir' = dir \ {d \in UNION {Parents[r] : r \in deleted} :
                       ~Occupied(d) /\ Below(d) \cap dir = {}}
    /\ Goto(p, IF p \in Packer THEN "prune" ELSE "done")
    /\ UNCHANGED <<loose, packed, staged, rlock, plock, log>>

-----------------------------------------------------------------------------
(* files_pack_refs(). *)

(* Read one loose reference into the cache: loose_fill_ref_dir(). *)
ReadLooseRef(p, r) ==
    /\ proc[p].pc \in {"count", "pack", "list"}
    /\ r \notin DOMAIN proc[p].read
    /\ proc' = [proc EXCEPT ![p].read =
                  [q \in DOMAIN @ \cup {r} |-> IF q = r THEN loose[r] ELSE @[q]]]
    /\ UNCHANGED disk

(* should_pack_refs() with PACK_REFS_AUTO counts loose references, and so  *)
(* reads some or all of them before packed-refs is locked.                 *)
CountRefs(p) ==
    /\ p \in Auto /\ At(p, "idle")
    /\ Goto(p, "count")
    /\ UNCHANGED disk

TooFewToPack(p) ==
    /\ At(p, "count") /\ DOMAIN proc[p].read = Ref
    /\ Goto(p, "done")
    /\ UNCHANGED disk

(* packed_refs_lock(LOCK_DIE_ON_ERROR). *)
LockForPacking(p) ==
    /\ p \in Packer /\ At(p, IF p \in Auto THEN "count" ELSE "idle")
    /\ \/ plock = NoLock /\ plock' = p /\ Goto(p, "pack")
       \/ plock # NoLock /\ Goto(p, "exited") /\ UNCHANGED plock
    /\ UNCHANGED <<loose, packed, staged, dir, rlock, log>>

(* All loose references are in the cache.  Those that match the options go *)
(* to packed-refs.new and, with PACK_REFS_PRUNE, on the list to prune.     *)
WritePacked(p) ==
    /\ At(p, "pack") /\ DOMAIN proc[p].read = Ref
    /\ \E S \in SUBSET {r \in Ref : proc[p].read[r] # None}, prune \in PruneFlags :
         /\ staged' = [r \in Ref |-> IF r \in S THEN proc[p].read[r] ELSE packed[r]]
         /\ proc' = [proc EXCEPT ![p].pc = "packcommit", ![p].toprune = IF prune THEN S ELSE {}]
    /\ UNCHANGED <<loose, packed, dir, rlock, plock, log>>

(* packed_transaction_finish() and packed_refs_unlock(). *)
CommitPacking(p) ==
    /\ At(p, "packcommit")
    /\ packed' = staged
    /\ staged' = <<>>
    /\ plock' = NoLock
    /\ Goto(p, "prune")
    /\ UNCHANGED <<loose, dir, rlock, log>>

(* A failure while packing ends in die(). *)
PackingFails(p) ==
    /\ MayFail /\ proc[p].pc \in {"pack", "packcommit"}
    /\ ReleaseLocks(p)
    /\ Goto(p, "exited")
    /\ UNCHANGED <<loose, packed, dir, log>>

(* prune_ref(): a transaction that deletes the loose file if the reference *)
(* still has the value that was packed.  A failure is only reported.       *)
PruneRef(p, r) ==
    /\ At(p, "prune") /\ r \in proc[p].toprune
    /\ proc' = [proc EXCEPT ![p] =
                  [Start EXCEPT !.pc = "prepare", !.read = proc[p].read,
                     !.toprune = proc[p].toprune \ {r},
                     !.txn = [q \in {r} |-> [old |-> proc[p].read[r], new |-> None, prune |-> TRUE]]]]
    /\ UNCHANGED disk

PackDone(p) ==
    /\ At(p, "prune") /\ proc[p].toprune = {}
    /\ Goto(p, "done")
    /\ UNCHANGED disk

-----------------------------------------------------------------------------
(* Readers. *)

(* read_ref_internal() of one reference ... *)
StartRead(p, r) ==
    /\ p \in Reader /\ At(p, "idle")
    /\ proc' = [proc EXCEPT ![p].pc = "stat", ![p].cur = r, ![p].tries = Retries]
    /\ UNCHANGED disk

Answer(p, v) ==
    proc' = [proc EXCEPT ![p].pc = "done", ![p].read = [q \in {proc[p].cur} |-> v]]

(* ... looks for the loose file; without one it goes to packed-refs, ...   *)
Stat(p) ==
    /\ At(p, "stat")
    /\ IF proc[p].tries = 0
         THEN Answer(p, None)
         ELSE proc' = [proc EXCEPT ![p].tries = @ - 1,
                         ![p].pc = IF loose[proc[p].cur] # None THEN "read" ELSE "fallback"]
    /\ UNCHANGED disk

(* Mutant: a file that is gone when it is opened is a missing reference. *)
ReadLooseOnce(p) ==
    /\ At(p, "read")
    /\ Answer(p, loose[proc[p].cur])
    /\ UNCHANGED disk

(* ... opens it, and starts again if it is gone. *)
ReadLoose(p) ==
    /\ At(p, "read")
    /\ IF loose[proc[p].cur] # None
         THEN Answer(p, loose[proc[p].cur])
         ELSE Goto(p, "stat")
    /\ UNCHANGED disk

ReadPacked(p) ==
    /\ p \in Reader /\ At(p, "fallback")
    /\ Answer(p, packed[proc[p].cur])
    /\ UNCHANGED disk

(* files_ref_iterator_begin(): all loose references first, and only then   *)
(* packed-refs; a loose value hides a packed one.                          *)
StartList(p) ==
    /\ p \in Lister /\ At(p, "idle")
    /\ Goto(p, "list")
    /\ UNCHANGED disk

ListPacked(p) ==
    /\ At(p, "list") /\ DOMAIN proc[p].read = Ref
    /\ proc' = [proc EXCEPT ![p].pc = "done",
                  ![p].read = [r \in Ref |-> IF @[r] # None THEN @[r] ELSE packed[r]]]
    /\ UNCHANGED disk

-----------------------------------------------------------------------------
(* The end of a process in the middle of its work: by exit() or a signal,  *)
(* after which the lockfiles are removed, or killed, after which they stay. *)
Die(p) ==
    /\ MayKill /\ proc[p].pc \notin {"idle"} \cup Ended
    /\ ReleaseLocks(p)
    /\ Goto(p, "exited")
    /\ UNCHANGED <<loose, packed, dir, log>>

Kill(p) ==
    /\ MayKill /\ proc[p].pc \notin {"idle"} \cup Ended
    /\ Goto(p, "killed")
    /\ UNCHANGED disk

(* What a reader may be told: the value, or that the reference is gone     *)
(* when its deletion is under way.                                         *)
Visible(r) ==
    {Val(r)} \cup {None : p \in {q \in Writer : At(q, "unlink") /\ r \in Deletes(proc[q].txn)}}

(* Bookkeeping for ReadIsCurrent. *)
Observe ==
    seen' = [p \in Reader \cup Lister |-> [r \in Ref |->
              IF proc'[p].pc \in {"idle"} \cup Ended THEN seen[p][r]
              ELSE seen[p][r] \cup Visible(r)']]

-----------------------------------------------------------------------------
Step(p) ==
    \/ Begin(p) \/ OpenLock(p) \/ CheckRef(p) \/ PreparePacked(p)
    \/ DeleteReflogs(p) \/ CommitPacked(p) \/ Cleanup(p) \/ RemoveEmptyParents(p)
    \/ CountRefs(p) \/ LockForPacking(p) \/ WritePacked(p) \/ CommitPacking(p) \/ PackDone(p)
    \/ Stat(p) \/ ReadLoose(p) \/ ReadPacked(p) \/ StartList(p) \/ ListPacked(p)
    \/ \E r \in Ref :
         \/ MakeDirs(p, r) \/ WriteReflog(p, r) \/ CommitRef(p, r) \/ UnlinkLoose(p, r)
         \/ ReadLooseRef(p, r) \/ PruneRef(p, r) \/ StartRead(p, r)

Next ==
    /\ \E p \in Proc :
         Step(p) \/ Abort(p) \/ TooFewToPack(p) \/ PackingFails(p) \/ Die(p) \/ Kill(p)
    /\ Observe

Spec == Init /\ [][Next]_vars

(* A process that is scheduled goes on with its operation. *)
FairSpec == Spec /\ \A p \in Proc : WF_vars(Step(p) /\ Observe)

-----------------------------------------------------------------------------
(* Properties. *)

InTransaction(p) ==
    proc[p].pc \in {"prepare", "open", "check", "prepared", "commit", "packed", "unlink"}

(* From the check of its old value to the moment its update takes effect,  *)
(* a reference stays locked by the transaction and keeps the value that    *)
(* check_old_oid() saw: neither another transaction nor pack-refs nor its  *)
(* pruning changes it.                                                     *)
ValueStableUnderLock ==
    \A p \in Writer : InTransaction(p) =>
        \A r \in DOMAIN proc[p].old \ proc[p].applied :
            rlock[r] = p /\ Val(r) = proc[p].old[r]

(* The loose and packed files together behave like one atomic register per *)
(* reference: a value changes only by the update of a transaction, once,   *)
(* and from the value that transaction expected.  Packing and pruning, and *)
(* every intermediate state of a deletion, are invisible.                  *)
Abstract == INSTANCE RefStore WITH
    Client <- Writer,
    val <- [r \in Ref |-> Val(r)],
    request <- [p \in Writer |-> proc[p].txn],
    performed <- [p \in Writer |-> proc[p].applied]

RefinesRefStore == Abstract!Spec

(* A reader or an iteration that takes no lock is told a value that the    *)
(* reference had while it was reading.                                     *)
ReadIsCurrent ==
    \A p \in Reader \cup Lister : At(p, "done") =>
        \A r \in DOMAIN proc[p].read : proc[p].read[r] \in seen[p][r]

(* A transaction that returned success has performed every update.         *)
SuccessIsComplete ==
    \A p \in Writer : proc[p].outcome = "ok" =>
        \A r \in DOMAIN proc[p].txn :
            proc[p].txn[r].new \in {NoNew, proc[p].old[r]} \/ r \in proc[p].applied

(* Two references whose names conflict (a and a/b) never exist together.   *)
NoNameConflict ==
    \A q, r \in Ref : Conflict(q, r) => Val(q) = None \/ Val(r) = None

(* A transaction that moves a value from one reference to another never    *)
(* leaves the value without a reference, wherever it stops: updates are    *)
(* performed before deletions.                                             *)
LiveCommitsStayReferenced ==
    \A p \in Writer : \A a \in Deletes(proc[p].txn), b \in DOMAIN proc[p].txn :
        /\ proc[p].txn[b].new \in Oid \cap {proc[p].txn[a].old}
        /\ a \in proc[p].applied
        /\ proc[p].pc # "done"
        => Val(b) = proc[p].txn[b].new

(* When nobody has a reference locked, its reflog ends with its value, and *)
(* a reference that does not exist has no reflog.                          *)
ReflogFollowsRef == \A r \in Ref : rlock[r] = NoLock => log[r] = Val(r)

(* When all processes have ended, and none was killed, no lockfile and no  *)
(* packed-refs.new is left.                                                *)
NothingLeftBehind ==
    (\A p \in Proc : proc[p].pc \in {"idle", "done", "exited"}) =>
        /\ \A r \in Ref : rlock[r] = NoLock
        /\ plock = NoLock /\ staged = <<>>

(* Every operation ends: no set of processes waits for each other's locks. *)
EveryoneFinishes == \A p \in Proc : <>(proc[p].pc \in Ended)
=============================================================================
