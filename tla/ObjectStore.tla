----------------------------- MODULE ObjectStore -----------------------------
(* The object store and its garbage collection: processes that write or     *)
(* freshen objects and then point a reference at them (object-file.c,       *)
(* tmp-objdir.c), git gc with the repack and the prune that it runs         *)
(* (builtin/gc.c, builtin/repack.c, builtin/pack-objects.c, prune-packed.c, *)
(* builtin/prune.c, reachable.c), and processes that look an object up      *)
(* (object-file.c, packfile.c).  Times are told apart by the expiry date of *)
(* gc only: "new" is after it.                                              *)
EXTENDS FiniteSets, Sequences, Functions

CONSTANTS
    Object,
    Reaches,     \* the objects that each object reaches, itself included
    Ref, Gc, Client, None,
    Stores,      \* the initial stores: ref, loose, base (the only pack), and
                 \* cruft, the value of gc.cruftPacks
    Plans,       \* what a writer may do: objects, in order, and a reference
    Wanted,      \* the object that readers look up; a reference never lets go of it
    MayKill      \* gc may be killed

Base == <<"base">>
Pack == {Base} \cup (Gc \X {"main", "cruft"})
Age == {"none", "old", "new"}

ASSUME ReachAssumption ==
    /\ Reaches \in [Object -> SUBSET Object]
    /\ \A o \in Object : o \in Reaches[o] /\ \A n \in Reaches[o] : Reaches[n] \subseteq Reaches[o]
ASSUME NameAssumption == Wanted \in Object /\ None \notin Object \cup Gc
ASSUME KillAssumption == MayKill \in BOOLEAN

VARIABLES
    ref,
    loose,    \* the mtime of each loose object
    pack,     \* the mtime of each object of each pack: that of the pack, or
              \* what the .mtimes of a cruft pack says
    packs,    \* the packs that have their .idx
    gc_pid,   \* the process that gc.pid names
    gc,
    writer,   \* a client writes objects and updates a reference,
    reader    \* or looks an object up

vars == <<ref, loose, pack, packs, gc_pid, gc, writer, reader>>

Contents(p) == {o \in Object : pack[p][o] /= "none"}
IsStored(o) == loose[o] /= "none" \/ \E p \in packs : o \in Contents(p)
Stored == {o \in Object : IsStored(o)}
Reach(S) == UNION {Reaches[o] : o \in S}
Referenced == Reach(Range(ref) \ {None})
IsCruft(p) == p \in Gc \X {"cruft"}
RecentLoose == {o \in Object : loose[o] = "new"}
RecentIn(P) == {o \in Object : \E p \in P : pack[p][o] = "new"}

(* gc goes by what it has read of the references and of the packs.          *)
AtWork(g) == gc[g].pc \notin {"start", "collect", "all", "end", "done", "refused", "failed", "killed"}
GcAtWork == \E g \in Gc : AtWork(g)

(* What a plan needs and does not write itself: the writer has seen it.     *)
Linked(w) == Reach(Range(writer[w].plan)) \ Range(writer[w].plan)
Writing(w) == writer[w].pc \in {"packed", "utime", "loose", "write", "migrate"}

Process == [pc |-> "start", cruft |-> FALSE, existing |-> {}, seen |-> {}, recent |-> {}, todo |-> {},
            new |-> {}, victim |-> None]
Idle == [pc |-> "start", plan |-> <<>>, todo |-> <<>>, dest |-> None, quarantine |-> FALSE, list |-> {},
         open |-> {}, freshened |-> {}, pack |-> None, tmp |-> {}, raced |-> FALSE]

Init ==
    /\ \E s \in Stores :
          /\ ref = s.ref
          /\ loose = s.loose
          /\ pack = [p \in Pack |-> IF p = Base THEN s.base ELSE [o \in Object |-> "none"]]
          /\ gc = [g \in Gc |-> [Process EXCEPT !.cruft = s.cruft]]
    /\ packs = {Base}
    /\ gc_pid = None
    /\ writer = [w \in Client |-> Idle]
    /\ reader = [r \in Client |-> [pc |-> "start", list |-> {}, during |-> {}]]

-----------------------------------------------------------------------------
(* gc.                                                                      *)

Runs(g, pc) == gc[g].pc = pc
Exit(g, pc) == [gc EXCEPT ![g] = [Process EXCEPT !.pc = pc, !.cruft = gc[g].cruft]]

(* gc.pid, read and replaced under gc.pid.lock, names a process; a process  *)
(* that is no more does not count.                                          *)
lock_repo_for_gc(g) ==
    /\ Runs(g, "start")
    /\ IF gc_pid /= None /\ gc[gc_pid].pc /= "killed"
       THEN gc' = Exit(g, "refused") /\ UNCHANGED gc_pid
       ELSE gc' = [gc EXCEPT ![g].pc = "collect"] /\ gc_pid' = g
    /\ UNCHANGED <<ref, loose, pack, packs, writer, reader>>

(* repack: the packs that the new ones will replace.                        *)
collect_pack_filenames(g) ==
    /\ Runs(g, "collect")
    /\ gc' = [gc EXCEPT ![g].pc = "all", ![g].existing = packs]
    /\ UNCHANGED <<ref, loose, pack, packs, gc_pid, writer, reader>>

(* A walk from every reference by a process that opens the packs first, and *)
(* dies when an object is missing.  "all" is that of pack-objects --all,    *)
(* "walk" that of prune.  A gc that begins its work spoils the plan of a    *)
(* writer that still relies on objects it has seen and did not freshen.     *)
WalkReferences(g) ==
    /\ gc[g].pc \in {"all", "walk"}
    /\ IF Referenced \subseteq Stored
       THEN /\ gc' = [gc EXCEPT ![g].pc = IF @ = "all" THEN "recent" ELSE "walk recent",
                                ![g].recent = RecentIn(packs),
                                ![g].seen = Referenced]
            /\ writer' = [w \in Client |->
                             [writer[w] EXCEPT !.raced = @ \/ (Writing(w) /\ Linked(w) /= {})]]
            /\ UNCHANGED gc_pid
       ELSE /\ gc' = Exit(g, "failed")
            /\ gc_pid' = None
            /\ UNCHANGED writer
    /\ UNCHANGED <<ref, loose, pack, packs, reader>>

(* Mutant: the recent objects, without those that they reach.               *)
add_unseen_recent_objects_alone(recent) == recent \cap Stored

(* Mutant: no object is too old.                                            *)
add_every_object_to_traversal(recent) == Stored

(* The recent objects and what they reach; a missing link is ignored.       *)
add_unseen_recent_objects_to_traversal(recent) == Reach(recent) \cap Stored

(* pack-objects with --cruft --cruft-expiration: everything recent that is  *)
(* not in the main pack, with its time, and what that reaches, with the     *)
(* expiry date.                                                             *)
enumerate_and_traverse_cruft_objects(g) ==
    LET recent == (RecentLoose \cup RecentIn(packs)) \ gc[g].seen
        cruft == add_unseen_recent_objects_to_traversal(recent) \ gc[g].seen
    IN  /\ Runs(g, "recent") /\ gc[g].cruft
        /\ pack' = [pack EXCEPT
                       ![<<g, "main">>] = [o \in Object |-> IF o \in gc[g].seen THEN "new" ELSE "none"],
                       ![<<g, "cruft">>] = [o \in Object |-> IF o \notin cruft THEN "none"
                                                             ELSE IF o \in recent THEN "new" ELSE "old"]]
        /\ gc' = [gc EXCEPT ![g].pc = "install", ![g].seen = {}, ![g].recent = {},
                            ![g].new = {<<g, "main">>} \cup (IF cruft = {} THEN {} ELSE {<<g, "cruft">>})]
        /\ UNCHANGED <<ref, loose, packs, gc_pid, writer, reader>>

(* pack-objects with --unpack-unreachable: what the main pack leaves out is *)
(* loosened unless it can be discarded.                                     *)
loosen_unused_packed_objects(g) ==
    LET recent == add_unseen_recent_objects_to_traversal(RecentLoose \cup gc[g].recent)
        kept == {o \in UNION {Contents(p) : p \in packs} \ gc[g].seen :
                    o \in gc[g].recent \cup recent}
    IN  /\ Runs(g, "recent") /\ ~gc[g].cruft
        /\ pack' = [pack EXCEPT
                       ![<<g, "main">>] = [o \in Object |-> IF o \in gc[g].seen THEN "new" ELSE "none"]]
        /\ gc' = [gc EXCEPT ![g].pc = IF kept = {} THEN "install" ELSE "loosen",
                            ![g].todo = kept, ![g].seen = {},
                            ![g].new = {<<g, "main">>}]
        /\ UNCHANGED <<ref, loose, packs, gc_pid, writer, reader>>

(* The time of the pack becomes that of the loose object, unless there is a *)
(* loose object already.                                                    *)
force_object_loose(g) ==
    \E o \in gc[g].todo :
        /\ Runs(g, "loosen")
        /\ loose' = [loose EXCEPT ![o] = IF @ /= "none" THEN @
                                         ELSE IF o \in gc[g].recent THEN "new" ELSE "old"]
        /\ gc' = [gc EXCEPT ![g].todo = @ \ {o},
                            ![g].recent = IF gc[g].todo = {o} THEN {} ELSE @,
                            ![g].pc = IF gc[g].todo = {o} THEN "install" ELSE @]
        /\ UNCHANGED <<ref, pack, packs, gc_pid, writer, reader>>

(* repack: a new pack gets its name, the .idx last.  After the last one the *)
(* packs are listed again.                                                  *)
InstallPack(g) ==
    \E p \in gc[g].new :
        /\ Runs(g, "install")
        /\ packs' = packs \cup {p}
        /\ gc' = [gc EXCEPT ![g].new = @ \ {p},
                            ![g].pc = IF gc[g].new = {p} THEN "remove" ELSE @]
        /\ UNCHANGED <<ref, loose, pack, gc_pid, writer, reader>>

Disturbed(g) == [r \in Client |-> [reader[r] EXCEPT
                    !.during = IF reader[r].pc \in {"start", "found", "missing"} THEN @ ELSE @ \cup {g}]]

(* repack: an old pack goes, the .idx first.                                *)
remove_redundant_pack(g) ==
    \E p \in gc[g].existing :
        /\ Runs(g, "remove")
        /\ packs' = packs \ {p}
        /\ gc' = [gc EXCEPT ![g].existing = @ \ {p},
                            ![g].pc = IF gc[g].existing = {p} THEN "packed" ELSE @]
        /\ reader' = Disturbed(g)
        /\ UNCHANGED <<ref, loose, pack, gc_pid, writer>>

(* The loose objects that are in a pack that was listed and is still there, *)
(* go, once at the end of repack and once at the end of prune.              *)
prune_packed_objects(g) ==
    /\ gc[g].pc \in {"packed", "packed again"}
    /\ loose' = [o \in Object |-> IF \E p \in packs : o \in Contents(p)
                                  THEN "none"
                                  ELSE loose[o]]
    /\ gc' = [gc EXCEPT ![g].pc = IF @ = "packed" THEN "walk" ELSE "end"]
    /\ reader' = Disturbed(g)
    /\ UNCHANGED <<ref, pack, packs, gc_pid, writer>>

(* prune: the second half of mark_reachable_objects.                        *)
MarkRecent(g) ==
    /\ Runs(g, "walk recent")
    /\ gc' = [gc EXCEPT ![g].pc = "prune",
                        ![g].recent = {},
                        ![g].seen = @ \cup add_unseen_recent_objects_to_traversal(RecentLoose \cup gc[g].recent)]
    /\ UNCHANGED <<ref, loose, pack, packs, gc_pid, writer, reader>>

(* prune: the status of an object is read ...                               *)
prune_object(g) ==
    \E o \in Object :
        /\ Runs(g, "prune")
        /\ loose[o] = "old"
        /\ o \notin gc[g].seen
        /\ gc' = [gc EXCEPT ![g].victim = o, ![g].pc = "unlink"]
        /\ UNCHANGED <<ref, loose, pack, packs, gc_pid, writer, reader>>

(* ... and the object goes.                                                 *)
Unlink(g) ==
    /\ Runs(g, "unlink")
    /\ loose' = [loose EXCEPT ![gc[g].victim] = "none"]
    /\ gc' = [gc EXCEPT ![g].pc = "prune", ![g].victim = None]
    /\ UNCHANGED <<ref, pack, packs, gc_pid, writer, reader>>

(* prune has seen every loose object: an object that it spares once it      *)
(* would spare later as well, so the order does not matter.                 *)
PruneEnds(g) ==
    /\ Runs(g, "prune")
    /\ \A o \in Object : loose[o] = "old" => o \in gc[g].seen
    /\ gc' = [gc EXCEPT ![g].pc = "packed again", ![g].seen = {}]
    /\ UNCHANGED <<ref, loose, pack, packs, gc_pid, writer, reader>>

(* gc.pid is a temporary file of the process.                               *)
GcEnds(g) ==
    /\ Runs(g, "end")
    /\ gc' = Exit(g, "done")
    /\ gc_pid' = None
    /\ UNCHANGED <<ref, loose, pack, packs, writer, reader>>

(* gc is killed, with the process that it waits for, and leaves gc.pid.     *)
Kill(g) ==
    /\ MayKill
    /\ gc[g].pc \notin {"start", "done", "refused", "failed", "killed"}
    /\ gc' = Exit(g, "killed")
    /\ UNCHANGED <<ref, loose, pack, packs, gc_pid, writer, reader>>

-----------------------------------------------------------------------------
(* A process that writes objects and then updates a reference.              *)

Goto(w, pc) == [writer EXCEPT ![w].pc = pc]
Leave(w, pc) == [writer EXCEPT ![w] = [Idle EXCEPT !.pc = pc, !.raced = writer[w].raced]]

(* The object at the head of the plan is in the store.  One that was there  *)
(* before is at risk when gc has looked at the store already.               *)
HaveObject(w, found) ==
    [writer EXCEPT
        ![w].todo = Tail(@),
        ![w].pack = None,
        ![w].pc = IF Len(writer[w].todo) > 1 THEN "packed"
                  ELSE IF writer[w].quarantine THEN "migrate" ELSE "ref",
        ![w].raced = @ \/ (found /\ GcAtWork)]

(* The process lists the packs and reads the objects that it links to.      *)
Begin(w) ==
    \E plan \in Plans :
        /\ writer[w].pc = "start" /\ reader[w].pc = "start"
        /\ LET linked == Reach(Range(plan.objects)) \ Range(plan.objects)
           IN  /\ linked \subseteq Stored
               /\ writer' = [writer EXCEPT
                                ![w].pc = "packed", ![w].plan = plan.objects, ![w].todo = plan.objects,
                                ![w].dest = plan.dest, ![w].quarantine = plan.quarantine,
                                ![w].list = packs,
                                ![w].raced = linked /= {} /\ GcAtWork]
        /\ UNCHANGED <<ref, loose, pack, packs, gc_pid, gc, reader>>

(* A pack that the process has open can be read when it is gone.            *)
find_pack_entry(w) ==
    {p \in writer[w].list \cap (packs \cup writer[w].open) : Head(writer[w].todo) \in Contents(p)}

(* freshen_packed_object, up to the utime of the pack.                      *)
freshen_packed_object(w) ==
    /\ writer[w].pc = "packed"
    /\ \/ /\ find_pack_entry(w) = {}
          /\ writer' = Goto(w, "loose")
       \/ \E p \in find_pack_entry(w) :
             writer' = IF p \in writer[w].freshened
                       THEN HaveObject(w, TRUE)
                       ELSE [writer EXCEPT ![w].open = @ \cup {p},
                                           ![w].pack = IF IsCruft(p) THEN None ELSE p,
                                           ![w].pc = IF IsCruft(p) THEN "loose" ELSE "utime"]
    /\ UNCHANGED <<ref, loose, pack, packs, gc_pid, gc, reader>>

(* freshen_packed_object: the utime, which fails when the pack is gone.     *)
freshen_pack(w) ==
    LET p == writer[w].pack
    IN  /\ writer[w].pc = "utime"
        /\ IF p \in packs
           THEN /\ pack' = [pack EXCEPT ![p] = [o \in Object |-> IF @[o] = "none" THEN "none" ELSE "new"]]
                /\ writer' = [HaveObject(w, TRUE) EXCEPT ![w].freshened = @ \cup {p}]
           ELSE /\ writer' = [writer EXCEPT ![w].pc = "loose", ![w].pack = None]
                /\ UNCHANGED pack
        /\ UNCHANGED <<ref, loose, packs, gc_pid, gc, reader>>

freshen_loose_object(w) ==
    LET o == Head(writer[w].todo)
    IN  /\ writer[w].pc = "loose"
        /\ IF loose[o] /= "none"
           THEN loose' = [loose EXCEPT ![o] = "new"] /\ writer' = HaveObject(w, TRUE)
           ELSE writer' = Goto(w, "write") /\ UNCHANGED loose
        /\ UNCHANGED <<ref, pack, packs, gc_pid, gc, reader>>

(* The new file gets its name unless there is one of that name; in a        *)
(* quarantine there is none.                                                *)
write_loose_object(w) ==
    LET o == Head(writer[w].todo)
    IN  /\ writer[w].pc = "write"
        /\ IF writer[w].quarantine
           THEN /\ writer' = [HaveObject(w, FALSE) EXCEPT ![w].tmp = @ \cup {o}]
                /\ UNCHANGED loose
           ELSE /\ writer' = HaveObject(w, loose[o] /= "none")
                /\ loose' = [loose EXCEPT ![o] = IF @ = "none" THEN "new" ELSE @]
        /\ UNCHANGED <<ref, pack, packs, gc_pid, gc, reader>>

(* tmp_objdir_migrate: the objects of the quarantine, one after the other.  *)
migrate_one(w) ==
    /\ writer[w].pc = "migrate"
    /\ \/ /\ writer[w].tmp = {}
          /\ writer' = Goto(w, "ref")
          /\ UNCHANGED loose
       \/ \E o \in writer[w].tmp :
             /\ writer' = [writer EXCEPT ![w].tmp = @ \ {o},
                                         ![w].raced = @ \/ (loose[o] /= "none" /\ GcAtWork)]
             /\ loose' = [loose EXCEPT ![o] = IF @ = "none" THEN "new" ELSE @]
    /\ UNCHANGED <<ref, pack, packs, gc_pid, gc, reader>>

(* The reference is written when its object can be read.                    *)
write_ref_to_lockfile(w) ==
    LET o == writer[w].plan[Len(writer[w].plan)]
    IN  /\ writer[w].pc = "ref"
        /\ IF IsStored(o)
           THEN ref' = [ref EXCEPT ![writer[w].dest] = o] /\ writer' = Leave(w, "done")
           ELSE writer' = Leave(w, "failed") /\ UNCHANGED ref
        /\ UNCHANGED <<loose, pack, packs, gc_pid, gc, reader>>

(* Someone deletes a reference, but not that of the wanted object.          *)
DeleteReference(r) ==
    /\ ref[r] /= None
    /\ Wanted \notin Reaches[ref[r]]
    /\ ref' = [ref EXCEPT ![r] = None]
    /\ UNCHANGED <<loose, pack, packs, gc_pid, gc, writer, reader>>

-----------------------------------------------------------------------------
(* do_oid_object_info_extended for the wanted object, by a process that has *)
(* listed the packs some time before.                                       *)

IsListed(r) == \E p \in reader[r].list \cap packs : Wanted \in Contents(p)

PrepareLookup(r) ==
    /\ reader[r].pc = "start" /\ writer[r].pc = "start"
    /\ reader' = [reader EXCEPT ![r].pc = "search", ![r].list = packs]
    /\ UNCHANGED <<ref, loose, pack, packs, gc_pid, gc, writer>>

SearchPacks(r) ==
    /\ reader[r].pc = "search"
    /\ reader' = [reader EXCEPT ![r].pc = IF IsListed(r) THEN "found" ELSE "loose"]
    /\ UNCHANGED <<ref, loose, pack, packs, gc_pid, gc, writer>>

loose_object_info(r) ==
    /\ reader[r].pc = "loose"
    /\ reader' = [reader EXCEPT ![r].pc = IF loose[Wanted] /= "none" THEN "found" ELSE "reprepare"]
    /\ UNCHANGED <<ref, loose, pack, packs, gc_pid, gc, writer>>

(* Mutant: the packs that are known stay as they are.                       *)
prepare_packed_git(r) ==
    /\ reader[r].pc = "reprepare"
    /\ reader' = [reader EXCEPT ![r].pc = "again"]
    /\ UNCHANGED <<ref, loose, pack, packs, gc_pid, gc, writer>>

reprepare_packed_git(r) ==
    /\ reader[r].pc = "reprepare"
    /\ reader' = [reader EXCEPT ![r].pc = "again", ![r].list = packs]
    /\ UNCHANGED <<ref, loose, pack, packs, gc_pid, gc, writer>>

SearchAgain(r) ==
    /\ reader[r].pc = "again"
    /\ reader' = [reader EXCEPT ![r].pc = IF IsListed(r) THEN "found" ELSE "missing"]
    /\ UNCHANGED <<ref, loose, pack, packs, gc_pid, gc, writer>>

-----------------------------------------------------------------------------
GcStep(g) ==
    \/ lock_repo_for_gc(g) \/ collect_pack_filenames(g) \/ WalkReferences(g)
    \/ enumerate_and_traverse_cruft_objects(g)
    \/ loosen_unused_packed_objects(g) \/ force_object_loose(g)
    \/ InstallPack(g) \/ remove_redundant_pack(g) \/ prune_packed_objects(g)
    \/ MarkRecent(g) \/ prune_object(g) \/ Unlink(g) \/ PruneEnds(g)
    \/ GcEnds(g) \/ Kill(g)

WriterStep(w) ==
    \/ Begin(w) \/ freshen_packed_object(w) \/ freshen_pack(w) \/ freshen_loose_object(w)
    \/ write_loose_object(w) \/ migrate_one(w) \/ write_ref_to_lockfile(w)

ReaderStep(r) ==
    \/ PrepareLookup(r) \/ SearchPacks(r) \/ loose_object_info(r)
    \/ reprepare_packed_git(r) \/ SearchAgain(r)

Next ==
    \/ \E g \in Gc : GcStep(g)
    \/ \E w \in Client : WriterStep(w)
    \/ \E r \in Client : ReaderStep(r)
    \/ \E r \in Ref : DeleteReference(r)

Spec == Init /\ [][Next]_vars

-----------------------------------------------------------------------------
Written(w) == Range(writer[w].plan) \ Range(writer[w].todo)

(* What a reference reaches is in the store, and so is what a process has   *)
(* written or freshened and not yet referenced, with what that reaches,     *)
(* whatever gc does meanwhile, killed or not: gc keeps what is reachable    *)
(* (WalkReferences), what is recent and what that reaches                   *)
(* (add_unseen_recent_objects_to_traversal).  The exceptions are the ones   *)
(* that git-gc.adoc admits: a process relied on an object that was there    *)
(* already while gc was at work.                                            *)
NothingIsLost ==
    (\A w \in Client : ~writer[w].raced) =>
        /\ Referenced \subseteq Stored
        /\ \A w \in Client : writer[w].pc \in {"packed", "utime", "loose", "write", "migrate", "ref"} =>
              Reach(Written(w)) \subseteq Stored \cup writer[w].tmp \cup Range(writer[w].todo)

(* A lookup of an object that is always referenced finds it though gc moves *)
(* it from loose objects and packs to a new pack meanwhile                  *)
(* (do_oid_object_info_extended lists the packs again): it can miss it only *)
(* when two gc runs take old copies away during the one lookup.             *)
LookupsSucceed ==
    \A r \in Client : reader[r].pc = "missing" => Cardinality(reader[r].during) > 1

(* When gc ends, what is neither recent nor reached by something recent is  *)
(* gone: gc leaves no copy of it in a pack that it replaces                 *)
(* (remove_redundant_pack) nor as a loose object (prune_object).  What is   *)
(* reachable is in the new pack and so recent.                              *)
GarbageIsCollected ==
    [][\A g \in Gc : GcEnds(g) => Stored \subseteq Reach(RecentLoose \cup RecentIn(packs))]_vars

=============================================================================
