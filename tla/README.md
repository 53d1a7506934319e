# A TLA+ verification of Git under concurrency

This directory specifies the parts of Git on which concurrent Git processes
meet, checks the specifications with TLC and proves the main results with
TLAPS. It starts from the bottom: lockfiles, then the two reference backends
that are built on them with the policy that keeps a reftable stack short, the
index, and the object store with its garbage collection. Two more modules are
about threads: the delta search of pack-objects, and the simple IPC servers
that background processes of Git listen on.

File and line numbers refer to `src/`. `PROJECT.json` lists for every
definition the lines it models.

## The system

Git is a set of short-lived processes that share a directory. There is no
server and no shared memory: everything that processes know of each other is
a file, and everything that keeps them apart is a lockfile. The parts that
matter for correctness under concurrency are these.

| Part | State | Operations | What makes it hard | What makes it correct |
|---|---|---|---|---|
| Lockfiles (`lockfile.c`, `tempfile.c`) | `<file>.lock`, the list of temporary files of each process | create, write, close, reopen, rename, delete, remove at exit | signal handlers between any two system calls, forked children, late write errors | exclusion; readers see whole files; nothing is left |
| Reference transactions (`refs.c`) | the requested updates | prepare, commit, abort | several references, old values to compare | each reference is an atomic register |
| Files backend (`refs/files-backend.c`, `refs/packed-backend.c`) | loose files, `packed-refs`, reflogs, directories, one lock per reference, `packed-refs.lock` | transactions, `pack-refs`, pruning, reads, iteration | a value in two places, directories that come and go, readers without locks | the two files together are one register |
| Reftable (`refs/reftable-backend.c`, `reftable/stack.c`) | `tables.list`, immutable tables, table locks, the stacks that processes have open | transactions, compaction, cleaning, reload, reads | merging without the list lock, stale views, reused inodes, five places that unlink tables | no update lost, no table in use removed |
| Compaction policy (`reftable/stack.c`) | table sizes | choose a segment | two loops with different ends | the stack is geometric afterwards |
| Index (`read-cache.c`, `statinfo.c`, `entry.c`) | entries with stat data, the time of the index file, its checksum | refresh, add, check out, write | racy timestamps, opportunistic writes | a change is never missed, staging is never undone |
| Object store (`object-file.c`, `packfile.c`, `tmp-objdir.c`) | loose objects, packs, quarantine | lookup, freshen, write, migrate | packs that disappear, copies in two places | a reachable object is there and is found |
| Garbage collection (`builtin/gc.c`, `builtin/repack.c`, `builtin/prune.c`, `reachable.c`) | `gc.pid`, what was seen, what is recent | repack, loosen or pack cruft, prune | new references meanwhile, a killed gc | what is old and unreachable goes, and nothing else |
| Delta search (`builtin/pack-objects.c`) | lists of work, two kinds of condition variable | hand out, take, steal, join | stealing from a running worker, lost wakeups | all work done once |
| Simple IPC (`compat/simple-ipc/`, `unix-stream-server.c`) | socket file, ring of clients, thread pool | start, accept, serve, stop | shutdown against accept, stolen sockets, a full ring | every client is answered or closed |

`PROJECT.json` has the full list of components, with the reason for each one
that is not modelled, and the hazards at the lines where they arise.

## Modules

| Module | Content |
|---|---|
| `AtomicUpdate` | What a lockfile promises: a file changes only by whole updates that keep all earlier ones |
| `LockFile` | `lockfile.c` and `tempfile.c`; implements `AtomicUpdate` |
| `LockFileProofs` | Proofs about `LockFile` |
| `RefStore` | What a reference store promises: one atomic register per reference |
| `FilesRefStore` | The files backend with packed-refs; implements `RefStore` |
| `ReftableStack` | The reftable backend and stack; implements `RefStore` |
| `CompactionSegment` | `suggest_compaction_segment()` and the compaction after it |
| `CompactionSegmentProofs` | Proofs about `CompactionSegment` |
| `DeltaSearch` | The threads of `ll_find_deltas()` and `ll_find_deltas_by_region()` |
| `DeltaSearchProofs` | Proofs about `DeltaSearch` |
| `Index` | The index file and the commands that read, refresh and write it |
| `IndexProofs` | Proofs about `Index` |
| `SimpleIpc` | Servers, their threads and their clients |
| `SimpleIpcProofs`, `SimpleIpcHolderProofs` | Proofs about `SimpleIpc` |
| `ObjectStore` | Objects, processes that write or look them up, and `git gc` |
| `MC...` | Instances for TLC; the `.cfg` files select them |

The modules build on each other by abstraction. `LockFile` shows what a
lockfile gives its users; `FilesRefStore` and `ReftableStack` then take
creating a lockfile, renaming it and removing it as single steps.
`ReftableStack` lets a transaction compact any range of tables, and
`CompactionSegment` says which one the code picks. `Index` and `SimpleIpc`
take and give back lockfiles in single steps for the same reason, and
`ObjectStore` composes a repack, a prune, writers and readers over one store,
with references as the registers that `RefStore` promises.

Operators whose comment starts with "Mutant:" are deliberately wrong
variants of the operator that follows. No specification uses them. They
show, one per property, that the property notices the bug.

### LockFile

One file, and any number of processes that each make one update. A step is one
system call or one assignment to the tempfile list, since the signal handler
can run between any two. `lock` is the directory entry `<file>.lock`, and
names the inode by the process that created it; `rename(2)` and `unlink(2)`
act on whatever inode the entry leads to. `tempfile[p]` is the process's entry
on `tempfile_list` with its owner field, and `inherited[p]` the copy that a
forked child holds. `SignalWindows` says in which of four windows inside the
API a signal may arrive: "opened" and "listed" (the file exists, the list does
not say so yet), "renamed" and "unlinked" (the file is gone, the list still
has it). Between all other steps a signal may always arrive.

Waiting for a lock is abstracted: an attempt either creates the lockfile or
finds it there and fails. The caller may write correctly or with an error that
only `close()` reports.

### FilesRefStore

A reference has a loose file (`loose`), an entry in `packed-refs` (`packed`),
and a reflog, of which only the last line matters (`log`). `dir` are the names
at which there is a directory; `Parents` says which names are leading
components of others. The steps of a transaction are those of
`files_transaction_prepare()` and `files_transaction_finish()`: make
directories, create the lockfile, read and check the reference, lock
packed-refs if there are deletions, write each reflog line and rename each
lockfile, delete reflogs, replace packed-refs, unlink loose files, release the
locks, remove empty directories. `pack-refs` reads the loose references one by
one, writes packed-refs and prunes by transactions of its own. With
`PACK_REFS_AUTO` (`Auto`) it reads references before it takes the lock.

Abstractions: the updates of a transaction are handled in an arbitrary order,
which stands for all orders of the array. All locks are released in one step.
A reference is created with a reflog. A failure to delete a reflog is ignored,
as in the code. Directories of the loose cache are read reference by
reference. Symbolic references, `HEAD`, rename and copy, the initial
transaction and reflog expiry are not modelled.

### ReftableStack

`tables.list` is a sequence of table numbers with an inode; a table is a set
of references with values or tombstones and the range of its update indexes.
A process has a stack of tables it has opened, and can read them after their
files are gone. Each system call of the reload loop is a step: open and read
the list, open each table, unlink the tables that are not reused, or compare
the list again when a table is missing. A transaction reloads, locks the list,
reloads again if needed, checks, writes a table, renames the list, reloads and
compacts. A compaction locks the list, then its tables, releases the list,
merges, locks the list again, finds its tables in the new list, and replaces
them.

`InUse` models why `list_fd` is kept open: an inode that is open is not handed
out again, so that equal inodes mean equal files.

Abstractions: table names are unique, as their random suffix makes them.
Locking the tables of a range is one step, since nobody else can take a table
lock without the list lock. Unlinking the tables of a finished compaction is
one step. The free inodes are alike, so that the smallest is handed out. Only
the expiry configuration that the backend passes to `compact_all` (none) is
modelled. Log records, symbolic references and worktree stacks are not.

### CompactionSegment

One step per iteration of the two loops of `suggest_compaction_segment()`,
and then the compaction, which replaces the segment by a table that may have
any size up to the sum, or by nothing at the bottom of the stack. Positions
count from 1 and the end is inclusive, where the code counts from 0 with an
exclusive end. The factor is not 0 (the code replaces 0 by 2 first), and sums
do not wrap at 2^64.

### DeltaSearch

The main thread splits a list of objects or regions among the workers; `list`,
`list_size`, `remaining`, `working` and `data_ready` are the fields of `struct
thread_params`. A step is one critical section of `progress_mutex` or of a
worker's own mutex, or a read outside both. `ServeIdle` is the section in which
the main thread picks the idle worker, the victim and what is stolen; `Give`
and `Join` follow. A worker of the search by objects keeps its own pointer
(`cursor`) and takes objects one by one while the end of its list moves; a
worker of the search by regions advances the shared pointer after it has
searched the region. Condition variables may wake up for no reason. With one
thread the code calls `find_deltas()` directly, so there are at least two.

### Index

An entry has an object id, which stands for the contents, and the size and
mtime that `lstat(2)` gave. Time is in seconds (`USE_NSEC` is off by default),
so that an edit can leave size and mtime as they were. `Init` is the hard case:
files checked out in the second in which the index was written. `git status`
reads and refreshes before it takes the lock and does without it if it is
taken; `git diff`, `git add` and `git checkout -- <path>` take it first. The
operators on entries (`ie_match_stat`, `ie_modified`,
`ce_smudge_racily_clean_entry`, ...) are those of `read-cache.c`. The hash of
the index is a set with the hashed entries, or the empty set with
`index.skipHash`.

Abstractions: the user edits only files that no running command has looked at
(the guarantee is about edits after the command). Files are neither
removed nor added. Inode, ctime and mode are left out, which makes fewer
changes show. Taking the lock is fused with starting the command.

### SimpleIpc

`path` is the server whose socket is at the path, `path_lock` the holder of
`<path>.lock`; `main`, `accepting` and `worker` are where the threads of each
server are; `fifo_fds`, `front_pos` and `back_pos` are the ring. A connection
is named by its client: it is in the backlog of the kernel, then open, then
closed. Starting a server is modelled call by call (lock, ping, unlink and
bind, listen, unlock, threads), and so is `unix_ss_free()` (look, unlink,
close). A critical section of `work_available_mutex` is one step.
`MutexIsFree` says that the mutex is held from `ipc_server_init_async()` to
`ipc_server_start_async()`. A server that pings another one is a client as
well, and goes through the other's ring.

Assumptions: a server is started within the minute of the first poll timeout,
the backlog of the kernel is long enough, the inode of a socket is not used
again while its server has it open, and an outsider does not delete the socket
just between the two calls of `unix_ss_free()`. Requests and answers are
"nothing sent", "a part sent", "everything sent" and "answered".

### ObjectStore

An object is loose, in packs, or both; each copy is old or new compared with
the expiry date of gc, and in a cruft pack each object has its own time. What
reaches what is a constant. References stand for all roots of the walks
(references, reflogs, index, HEAD). `gc` goes through the steps of `git gc`:
`gc.pid`; list the packs; walk the references; pack what is reachable and put
what is recent, with what that reaches, into a cruft pack or loosen it; install
the packs; remove the old ones; prune packed loose objects; walk again, mark
what is recent, and prune the rest object by object with a step between
`lstat` and `unlink`. It may be killed anywhere, and leaves `gc.pid`. A writer
brings its objects into the store one after the other (freshen a pack, freshen
a loose object, or write, possibly into a quarantine that is migrated object by
object), and then writes a reference. A reader goes through the steps of
`do_oid_object_info_extended()` with a list of packs that may be out of date.

The documentation (`Documentation/git-gc.adoc`, NOTES) admits that an object
can be lost when a process starts to rely on it while gc runs. `raced` records
exactly this: the process found an object already in the store while a gc had
begun to look and was not finished (`AtWork`), or gc began to look
while the process had seen objects to link to and had not freshened them.
`NothingIsLost` speaks about all other behaviours.

Abstractions: only gc makes packs; objects do not age; gc and the process it
waits for are killed together; the age of `gc.pid` (12 hours) and other hosts,
`--force`, detaching, kept packs, multi-pack indexes, bitmaps, alternates and
the installation of a pack with the name of an old one are left out. `prune`
visits loose objects in any order: what it spares once it would spare later.

## What is checked

Every run explores its instance completely, up to symmetry where only safety
is checked. Deadlock is checked in `delta_search`. Elsewhere it is not, because
every process makes one operation and ends, or (in `index`) the clock stops;
that everybody does end is a liveness property.

| Run | Shows |
|---|---|
| `lockfile` | Two processes with children, write errors, exits, kills, and signals outside the late windows: `MutualExclusion`, `ReadersSeeWholeFile`, `NoLostUpdate`, `CleanupOnExit`, `LockIsReleased`, and that `AtomicUpdate` is implemented |
| `files_atomic` | Two writers and a packer on two references, one of them loose, packed, or both with equal or different values: `ValueStableUnderLock`, `SuccessIsComplete`, `ReflogFollowsRef`, and that `RefStore` is implemented |
| `files_reads` | A reader or an iteration beside two writers and a `pack-refs --auto`: `ReadIsCurrent` |
| `files_names` | Two writers that create, delete and move `a`, `b` and `a/b`, with failures, exits and kills at every step: `NoNameConflict`, `LiveCommitsStayReferenced`, `NothingLeftBehind`, `EveryoneFinishes` |
| `reftable_atomic` | Two writers with compactions, conflicting names, and reloads that give up: `UpdateIndexesIncrease`, `OutcomeIsTruthful`, `NoNameConflict`, and that `RefStore` is implemented |
| `reftable_reads` | A writer, a full compaction with cleaning, and a reader with a stack open for long: `ListedTablesExist`, `CompactedTablesStay`, `NoTableMissing`, `NothingLeftBehind`, `ReadIsCurrent` |
| `reftable_crash` | Failures, exits and kills at every step of a writer and an automatic compaction: `ListedTablesExist`, `EveryoneFinishes` |
| `compaction_segment` | `SegmentIsNeeded`, `RestoresGeometric` |
| `delta_search` | Three threads, ten elements, four patterns of path boundaries, both searches: `TakenOnce`, `DeltaCount`, `SearchEnds` |
| `index` | Two commands at a time, any number one after the other, and edits, in three seconds: `ModificationsAreSeen`, `StagingIsNeverUndone` |
| `simple_ipc` | Two servers, of two workers and one, and two clients, with kills and deleted sockets: `ServersDoNotSteal`, `OneHolder`, `ServersEnd`, `ClientsEnd` |
| `object_store` | Two gcs that may be killed, a client that writes two objects or looks one up, and deleted references, from nine stores: `NothingIsLost`, `LookupsSucceed`, `GarbageIsCollected` |

### Bounds

Two processes and their children are what the lockfile run needs, and its
theorems hold for any number. For the references, three processes are what the
interesting cases need: two that compete and one that interferes (a packer, a
compaction, or a reader). Two references show every relation between the
updates of a transaction. Three object names tell the current value, a new one
and an outdated packed one apart. Retries are those of the code (3 attempts to
lock, 3 to read), except for `SureTries` in `reftable_atomic`, which is lowered
from 3 to 1 so that the deadline can count with few processes. Initial stacks
of tables have two or three tables with a tombstone among them, so that ranges
differ. The compaction run starts from all stacks of up to four tables of sizes
1 to 4 and cuts off above `MaxTotal`; the proofs lift these bounds.

Three threads are the least with a thief, a victim and a third that must not
be picked; ten elements and a window of 1 let a share be split twice. One path
is enough for the index, since its entries are independent but for the index's
time and hash; two paths and two seconds (8.7 million states) were checked as
well, and the proofs lift both bounds. In `simple_ipc`, `MaxActors` limits the
threads and clients that take part in one behaviour to five, in every
combination, and a ring of two slots (which holds one client) is full at once;
`Tries` is the number of times a client connects again. In `object_store`, two
objects of which one reaches the other, and a third that must stay, tell
reachable, recent and reached by something recent apart; the second gc is there
for the pid file of a killed one and for lookups that gc disturbs twice.

Some instances leave out what the next section describes. The transactions
of `files_atomic` never bring back a value a reference had, and its packer runs
without `--auto` and without crashes: with them, the races of
`FilesRefStore_auto_pack.cfg` and `FilesRefStore_prune_again.cfg` break the refinement (a deletion that dies between
replacing packed-refs and unlinking the loose file leaves the same situation as
a reference created again). `files_names` has no packer because of
`FilesRefStore_pack_names.cfg`. The lockfile run has no signals in the late
windows. `index` has `index.skipHash` off, and `object_store` has no object
that is both packed and loose unless `gc.cruftPacks` is on.

### Fairness

A process that can take a step of its operation eventually takes it: weak
fairness of `Step(p)`, which is what the scheduler of the operating system
gives. Aborts, failures, signals, kills and giving up are never fair.
`LockFile` adds strong fairness of closing the lockfile to commit it, which
says that no caller reopens its lockfile for ever. In `DeltaSearch` and
`SimpleIpc` every thread is scheduled, and no spurious wakeup is relied on; a
client gets on with its request, since a worker waits for a client that is
silent in the middle of one. That a thread that waits for a mutex gets it is
part of weak fairness, because no thread holds one for ever. Starting, stopping
and killing a server, and hanging up, are not fair. `ObjectStore` and `Index`
have no liveness property: their commands are loops over finite sets.

## Disagreements between the code and what is said of it

Five configurations in this directory make TLC find a short behaviour of the
code that a comment or a document rules out. They are not among the runs of
`PROJECT.json`, which are all expected to pass.

| Configuration (module) | Violates | Behaviour | What is said |
|---|---|---|---|
| `FilesRefStore_pack_names.cfg` (`MCFilesRefStore`) | `NoNameConflict` | `a` is prepared, which includes the name check against packed-refs (`refs/files-backend.c:862`); `a/b` is created, packed and pruned with its directory; `a` is committed: both exist | `refs/packed-backend.h:9`: "usually it should be wrapped in a `files_ref_store` that prevents D/F conflicts from being created, even among packed refs" |
| `FilesRefStore_auto_pack.cfg` (`MCFilesRefStore`) | `ReflogFollowsRef` | `pack-refs --auto` fills the cache of loose references before it takes `packed-refs.lock` and then iterates over it (`refs/files-backend.c:1418`), so it packs a reference that was deleted in between | `refs/files-backend.c:2955`: "we do need to leave it locked, so that somebody else doesn't pack a reference that we are trying to delete" |
| `FilesRefStore_prune_again.cfg` (`MCFilesRefStore`) | `ReflogFollowsRef` | A reference is deleted and created again with the same value after it was packed; `prune_ref()` compares values and removes its only copy (`refs/files-backend.c:1258`) | `refs/files-backend.c:1257`: "make sure nobody touched the ref, and unlink" |
| `Index_skip_hash.cfg` (`MCIndex`) | `StagingIsNeverUndone` | With `index.skipHash` every index ends with zeros (`csum-file.c:74`), so `verify_index_from()` compares zeros, and the refresh of a `git status` writes the entries it read over those of a `git add` that came in between | `read-cache.c:2750`: "This function verifies if index_state has the correct sha1 of the index file" |
| `ObjectStore_duplicates.cfg` (`MCObjectStore`) | `NothingIsLost` | Without cruft packs: an object is packed and also loose, both old. A process freshens the pack (`object-file.c:2620`). gc finds it recent, but `force_object_loose()` leaves the old loose copy as it is (`object-file.c:2843`); the pack goes, and prune removes the loose copy | `Documentation/git-gc.adoc:158`: "Any object with modification time newer than the `--prune` date is kept, along with everything reachable from it" |

The models contain five more behaviours that differ from what a reader of the
documentation may expect. The properties above are stated, or their instances
chosen, so that they hold beside them:

- A signal between `rename()` or `unlink()` and the removal from the tempfile
  list makes the handler unlink the lockfile of another process
  (`tempfile.c:348`, `369`). With `LateWindows` in `SignalWindows` and three
  processes, `MutualExclusion` fails.
- A signal between `open()` and the recording of the owner leaves the lockfile
  (`tempfile.c:142`, `125`). `CleanupOnExit` and `LockIsReleased` except it.
- The rename of the second lockfile of a transaction may fail when the first
  reference is already updated (`refs/files-backend.c:3201`), for instance
  because somebody has made a directory there. The outcome is then "broken".
- A reftable transaction is reported as failed although it was performed, when
  the reload or the compaction after it fails (`reftable/stack.c:804`, `816`).
  `OutcomeIsTruthful` is checked with `MayFail = FALSE`: it shows that a lost
  race is not such a failure.
- A reload that gives up at its deadline returns success, and a reader answers
  from its old stack (`reftable/stack.c:449`). `ReadIsCurrent` is checked
  without the deadline, and `RefStore` with it.

## What is proved

Each proof holds for every value of the constants that the named assumptions
of the module allow.

**`LockFileProofs`.** `TypeCorrect` and `ExitRemovesLock` are unconditional.
`LockIsExclusive`, `UpdatesAreAtomic`, `CommitsAreKept` and `Implementation`
assume `NoLateSignal`: no signal in the
windows "renamed" and "unlinked", without which `MutualExclusion` does not
hold. `MutualExclusion` alone is not inductive: a handler
that runs in one process must not remove the lock of another, which needs that
an entry on the list with owner `p` means that `p` still has the lockfile
(`OwnerRecorded`). Atomicity needs further that the lockfile of a process that
is about to rename holds all updates of the current file and its own
(`BufferTracksFile`), that committed updates are in the file
(`FileTracksCommits`), and that the file is whole. `IInv` is the conjunction;
its preservation is proved action by action. `Implementation` maps the
contents of the file to `AtomicUpdate`: only `Rename` changes it, and by
`BufferTracksFile` it then adds one update and loses none. `CommitsAreKept` is
part of the same invariant. `ExitRemovesLock` needs only `TypeOK` beside
`CleanupOnExit`: it is about the list of one process, which no other changes.

**`CompactionSegmentProofs`.** `TypeCorrect`, `SegmentNeeded` and
`CompactionRestores`, for every factor and stacks of any length. The invariant
says what the loops know: in the first, all pairs from the counter to the end
are good (`EndLoopInv`); in the second, also all pairs from the counter to the
start of the segment are, and the table before the start is large enough for
the whole segment (`StartLoopInv`). That the running sum includes tables before
the start, so that it only grows, is what makes the last point follow. The
theorem covers new tables at least as large as the newest table of the
segment; a smaller one can leave a pair after it out of proportion, which the
next compaction repairs.

**`DeltaSearchProofs`.** `SearchedOnce` and `CountIsConsistent` (and
`TypeCorrect`), for every list, window and number of threads from two on. The
invariant says of every element that it is untaken exactly as long as it is
unassigned or in the share of one worker (`Ownership`), where the share is what
`list`, `list_size` and `remaining` describe at each point of the worker. For
shares to stay disjoint while they are split, the pointers and counts must agree
(`Shares`), and only a worker that has stopped may be handed something
(`Handshake`). `Counting` relates the counter to the elements taken, and
`Population` and `Rest` say that nothing is left when all threads are joined.

**`IndexProofs`.** `ModificationsAlwaysSeen` and `StagingIsKept`, for any paths,
contents and commands and without a bound on time, from the assumption
`~SkipHash`, without which the second is false. The property itself says nothing
of the copies of the index that commands hold. The invariant requires of each
copy that it hides no modification either (`StatOf`): an entry shows a
modification by its stat data, or is racy for the time of that copy. What makes
writing safe is what holds between writing the entries and dating the file: all
entries show modifications, and those whose files may still be edited are
strictly older than the copy. `BaseOf` and `StagedOf` say what each command is
about to stage; with the lock (`ControlOf`) and equal hashes they give the
action property.

**`SimpleIpcProofs`, `SimpleIpcHolderProofs`.** `ServersKeepTheirSockets`,
`ConnectionsHaveOneHolder` and `TypeCorrect`, for any number of servers,
workers and clients and any size of the ring. For the socket, `IInv` adds to
`ServersDoNotSteal` who may replace or remove the file: a server that pings,
binds or listens has the lock of the path (`HasLock`), one that is about to bind
has seen under it that nobody listens (`NobodyListens`), and one that is about
to unlink has found the file to be its own (`FileIsThere`). For the connections,
`HInv` says that two holders of a connection are the same (`UniqueOf`) and that
there is one exactly if it is open (`HeldOf`). To keep this, the slots of the
ring that are in use must hold connections (`Rings`), the ring must be empty
once a shutdown is requested (`AcceptOf`), a connection must be in one place of
one backlog and held by nobody yet (`Backlogged`), and a server that does not
run yet or has joined its threads must have none that hold anything
(`Threads`). `Frame` says once on which variables each part depends.

Only model-checked: `FilesRefStore`, `ReftableStack` and `ObjectStore`, and all
liveness properties, which are out of reach of the prover.

## Not modelled

Git has some 450,000 lines of C, and most of them are sequential: they parse
and print text, encode and decode file formats, compare trees and texts, walk
graphs, or talk to a network. A single process that does one thing after the
other on data of unbounded shape has few states that matter and many values
that do; a model of it would repeat the code, and its tests reach it well. They
are left out for that reason, and `PROJECT.json` says for each part what it is.

Left out of the modelled parts:

- References: symbolic references, `HEAD` and the split of updates that go
  through it, rename and copy, reflog expiry, the log records of reftables, and
  the waiting times of `lock_file_timeout()`.
- Index: the split index with its shared file, the extensions, sparse
  directories and the untracked cache.
- Object store: packs received from elsewhere, and what gc leaves out above.

Concurrent parts that are not modelled:

- `builtin/grep.c` and `builtin/index-pack.c` hand out work to threads under one
  mutex. The ring of grep is a bounded queue with one more pointer than that of
  `SimpleIpc`.
- `run_processes_parallel()` is one thread that polls its children.
- The fsmonitor daemon depends on the order in which the listeners of the
  platform deliver events, which the source does not state.
- Fetch negotiation, the retries of `gvfs-helper` and the state files of the
  sequencer are protocols with a peer or with a later process of the same user,
  in turns and without interleaving.
