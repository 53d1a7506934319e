---------------------------- MODULE IndexProofs ----------------------------
(***************************************************************************)
(* Proofs about Index, for any number of paths, contents and commands, and *)
(* for an index that ends with its hash (index.skipHash is off).           *)
(***************************************************************************)
EXTENDS Index, TLAPS

-----------------------------------------------------------------------------
(* The inductive invariant.                                                *)

(* The stat information gives a modification away.                         *)
Shows(ce, f) == ce_match_stat_basic(ce, f) = {} => ce.oid = f.content

(* It does, or the entry is one that an index of that time has looked into.*)
ShowsOrRacy(timestamp, ce, f) == timestamp <= ce.mtime \/ Shows(ce, f)

Read(c) == pc[c] \notin {"idle", "read"}

(* The commands that have the lock.                                        *)
Locked(c) ==
    \/ pc[c] \in {"read", "add", "checkout", "update", "write", "close", "commit"}
    \/ pc[c] = "refresh" /\ kind[c] = "diff"

(* What kind of command is where.                                          *)
ControlOf(c) ==
    /\ Locked(c) => lock = c
    /\ pc[c] \in {"idle", "hold"} => kind[c] = "status"
    /\ pc[c] \in {"refresh", "update"} => kind[c] \in {"status", "diff"}
    /\ pc[c] \in {"add", "checkout"} => kind[c] = pc[c]
    /\ pc[c] = "read" => kind[c] /= "status"
    /\ kind[c] \in {"add", "checkout"} <=> target[c] \in Paths
    /\ pc[c] \in {"idle", "read", "add", "checkout"} => seen[c] = {}
    /\ kind[c] = "add" /\ pc[c] \in {"write", "close", "commit"} => target[c] \in seen[c]
    /\ istate[c].uptodate \subseteq seen[c]

(* No index is dated later than now.                                       *)
TimeOf(c) == Read(c) => istate[c].timestamp \in 1 .. clock

(* An index in memory hides no modification either.  Once its entries are  *)
(* written and before it gets its new date, none of them is racy that      *)
(* somebody can still edit.                                                *)
StatOf(c) ==
    /\ Read(c) /\ pc[c] /= "close" =>
         \A p \in Paths : ShowsOrRacy(istate[c].timestamp, istate[c].entry[p], file[p])
    /\ pc[c] = "close" =>
         \A p \in Paths :
            /\ Shows(istate[c].entry[p], file[p])
            /\ p \notin seen[c] => istate[c].entry[p].mtime < istate[c].timestamp

(* A path marked up to date is, unless another command has staged          *)
(* something else since a status read the index, and checked that out.     *)
UptodateOf(c) ==
    \A p \in istate[c].uptodate :
        \/ istate[c].entry[p].oid = file[p].content
        \/ /\ kind[c] = "status"
           /\ pc[c] \in {"refresh", "hold", "update"}
           /\ index.entry[p].oid = file[p].content

(* A refresh leaves what is staged as it was when the index was read.      *)
BaseOf(c) ==
    pc[c] \in {"refresh", "hold", "update"} =>
        \A e \in Entries : istate[c].oid = {e} =>
            \A p \in Paths : istate[c].entry[p].oid = e[p].oid

(* What a command that has the lock is about to stage.                     *)
StagedOf(c) ==
    Read(c) /\ Locked(c) /\ ~(kind[c] = "status" /\ pc[c] = "update") =>
        \A p \in Paths :
            istate[c].entry[p].oid =
                IF kind[c] = "add" /\ p = target[c] /\ pc[c] /= "add"
                  THEN file[p].content
                  ELSE index.entry[p].oid

CommandInv(c) ==
    /\ ControlOf(c)
    /\ TimeOf(c)
    /\ StatOf(c)
    /\ UptodateOf(c)
    /\ BaseOf(c)
    /\ StagedOf(c)

DiskInv ==
    /\ clock >= 1
    /\ index.timestamp \in 1 .. clock
    /\ \A p \in Paths : ShowsOrRacy(index.timestamp, index.entry[p], file[p])

IInv ==
    /\ TypeOK
    /\ DiskInv
    /\ \A c \in Commands : CommandInv(c)


-----------------------------------------------------------------------------
(* Comparing an entry with a file.                                         *)

(* The stat information matches when none of it differs.                   *)
LEMMA BasicMatch ==
    ASSUME NEW ce, NEW f
    PROVE  ce_match_stat_basic(ce, f) = {} <=>
             /\ ce.mtime = f.mtime
             /\ ce.size = Size[f.content]
             /\ ~(ce.size = 0 /\ ce.oid /= Empty)
BY DEF ce_match_stat_basic

(* An entry that ie_match_stat finds unchanged is, given that its index    *)
(* hides nothing.                                                          *)
LEMMA MatchIsUnmodified ==
    ASSUME NEW ts \in Nat, ts >= 1, NEW ce \in Entry, NEW f \in File, NEW b \in BOOLEAN,
           ShowsOrRacy(ts, ce, f), ie_match_stat(ts, ce, f, b) = {}
    PROVE  ce.oid = f.content
BY DEF ie_match_stat, ShowsOrRacy, Shows, is_racy_timestamp, ce_modified_check_fs, Entry, File

(* One that ie_modified lets through is unchanged as well.                 *)
LEMMA NotModified ==
    ASSUME NEW ts, NEW ce, NEW f,
           ie_match_stat(ts, ce, f, FALSE) /= {}, ~ie_modified(ts, ce, f)
    PROVE  ce.oid = f.content
BY Zenon DEF ie_modified, ce_modified_check_fs

(* A file written now can match an entry only if that is racy to an index  *)
(* written up to now.                                                      *)
LEMMA WrittenNow ==
    ASSUME NEW ts \in Nat, NEW now \in Nat, ts <= now, NEW ce, NEW x
    PROVE  ShowsOrRacy(ts, ce, [content |-> x, mtime |-> now])
BY BasicMatch DEF ShowsOrRacy, Shows

(* A smudged entry stages the same and matches no file with other contents.*)
LEMMA Smudged ==
    ASSUME NEW ce \in Entry, NEW f \in File
    PROVE  LET new == ce_smudge_racily_clean_entry(ce, f)
           IN  /\ new \in Entry
               /\ new.oid = ce.oid
               /\ Shows(new, f)
<1> DEFINE new == ce_smudge_racily_clean_entry(ce, f)
<1>1. CASE ce_match_stat_basic(ce, f) = {} /\ ce_modified_check_fs(ce, f)
  <2>1. new = [ce EXCEPT !.size = 0]
    BY <1>1 DEF ce_smudge_racily_clean_entry
  <2>2. /\ new \in Entry
        /\ new.oid = ce.oid
        /\ new.size = 0
    BY <2>1 DEF Entry
  <2>3. ce.size = Size[f.content] /\ ~(ce.size = 0 /\ ce.oid /= Empty) /\ ce.oid /= f.content
    BY <1>1, BasicMatch DEF ce_modified_check_fs
  <2>4. f.content \in Contents /\ (Size[f.content] = 0 <=> f.content = Empty)
    BY ContentsAssumption DEF File
  <2>5. ce_match_stat_basic(new, f) /= {}
    BY <2>2, <2>3, <2>4, BasicMatch
  <2> QED BY <2>2, <2>5 DEF Shows
<1>2. CASE ~(ce_match_stat_basic(ce, f) = {} /\ ce_modified_check_fs(ce, f))
  BY <1>2 DEF ce_smudge_racily_clean_entry, ce_modified_check_fs, Shows
<1> QED BY <1>1, <1>2

(* The entry that gets a file's stat information.                          *)
LEMMA Filled ==
    ASSUME NEW ce \in Entry, NEW f \in File
    PROVE  /\ fill_stat_data(ce, f) \in Entry
           /\ fill_stat_data(ce, f).oid = ce.oid
BY Zenon, ContentsAssumption DEF fill_stat_data, Entry, File

-----------------------------------------------------------------------------
(* A command that does not move keeps its part of the invariant while the  *)
(* work tree and the index stay as they are.                               *)
LEMMA Unmoved ==
    ASSUME TypeOK, NEW d \in Commands, CommandInv(d),
           pc'[d] = pc[d], kind'[d] = kind[d], target'[d] = target[d],
           istate'[d] = istate[d], seen'[d] = seen[d],
           clock' = clock, file' = file, index' = index, Locked(d) => lock' = d
    PROVE  CommandInv(d)'
<1>1. ControlOf(d)'
  BY DEF CommandInv, ControlOf, Locked
<1>2. TimeOf(d)'
  BY DEF CommandInv, TimeOf, Read
<1>3. StatOf(d)'
  BY DEF CommandInv, StatOf, Read
<1>4. UptodateOf(d)'
  BY DEF CommandInv, UptodateOf
<1>5. BaseOf(d)'
  BY DEF CommandInv, BaseOf
<1>6. StagedOf(d)'
  BY DEF CommandInv, StagedOf, Read, Locked
<1> QED BY <1>1, <1>2, <1>3, <1>4, <1>5, <1>6 DEF CommandInv

(* A command that is over.                                                 *)
LEMMA Finished ==
    ASSUME TypeOK, NEW c \in Commands, Finish(c)
    PROVE  /\ CommandInv(c)'
           /\ pc' \in [Commands -> {"idle", "hold", "read", "refresh", "add", "checkout",
                                    "update", "write", "close", "commit"}]
           /\ kind' \in [Commands -> Kind]
           /\ target' \in [Commands -> Paths \cup {None}]
           /\ istate' \in [Commands -> IState]
           /\ seen' \in [Commands -> SUBSET Paths]
<1>1. Discarded \in IState
  BY ContentsAssumption DEF Discarded, IState, Entries, Entry
<1>2. pc'[c] = "idle" /\ kind'[c] = "status" /\ target'[c] = None /\ seen'[c] = {} /\ istate'[c] = Discarded
  BY DEF Finish, Goto, TypeOK
<1>3. Discarded.uptodate = {}
  BY DEF Discarded
<1>4. CommandInv(c)'
  BY <1>2, <1>3, NoneAssumption DEF CommandInv, ControlOf, TimeOf, StatOf, UptodateOf, BaseOf, StagedOf, Locked, Read
<1> QED BY <1>1, <1>4 DEF Finish, Goto, TypeOK, Kind

(* Dropping the lock.                                                      *)
LEMMA RolledBack ==
    ASSUME IInv, NEW c \in Commands, lock = c, rollback_lock_file(c)
    PROVE  IInv'
<1> USE DEF rollback_lock_file
<1>1. TypeOK'
  BY Finished DEF IInv, TypeOK
<1>2. DiskInv'
  BY DEF IInv, DiskInv
<1>3. ASSUME NEW d \in Commands PROVE CommandInv(d)'
  <2>1. CASE d = c
    BY <2>1, Finished DEF IInv
  <2>2. CASE d /= c
    BY <2>2, Unmoved DEF IInv, Finish, Goto, TypeOK, CommandInv, ControlOf
  <2> QED BY <2>1, <2>2
<1> QED BY <1>1, <1>2, <1>3 DEF IInv

-----------------------------------------------------------------------------
(* The steps.                                                              *)

LEMMA TickStep == ASSUME IInv, Tick PROVE IInv'
<1> USE DEF Tick
<1>1. TypeOK'
  BY DEF IInv, TypeOK, private
<1>2. DiskInv'
  BY <1>1 DEF IInv, TypeOK, DiskInv, private
<1>3. ASSUME NEW d \in Commands PROVE CommandInv(d)'
  <2>1. ControlOf(d)' /\ UptodateOf(d)' /\ BaseOf(d)' /\ StagedOf(d)' /\ StatOf(d)'
    BY DEF IInv, CommandInv, ControlOf, UptodateOf, BaseOf, StagedOf, StatOf, Locked, Read, private
  <2>2. TimeOf(d)'
    BY DEF IInv, TypeOK, IState, CommandInv, TimeOf, Read, private
  <2> QED BY <2>1, <2>2 DEF CommandInv
<1> QED BY <1>1, <1>2, <1>3 DEF IInv

LEMMA EditStep ==
    ASSUME IInv, NEW p \in Paths, NEW x \in Contents, Edit(p, x)
    PROVE  IInv'
<1> USE DEF Edit
<1>1. TypeOK'
  BY DEF IInv, TypeOK, private, File
<1>2. /\ file'[p] = [content |-> x, mtime |-> clock]
      /\ \A q \in Paths : q /= p => file'[q] = file[q]
      /\ clock \in Nat
  BY DEF IInv, TypeOK
<1>3. ASSUME NEW ts \in Nat, ts <= clock, NEW ce, NEW q \in Paths,
             ShowsOrRacy(ts, ce, file[q])
      PROVE  ShowsOrRacy(ts, ce, file'[q])
  BY <1>2, <1>3, WrittenNow
<1>4. DiskInv'
  BY <1>3 DEF IInv, TypeOK, DiskInv, private
<1>5. ASSUME NEW d \in Commands PROVE CommandInv(d)'
  <2>1. p \notin seen[d] /\ CommandInv(d) /\ istate[d] \in IState
    BY DEF IInv, TypeOK
  <2>2. ControlOf(d)' /\ TimeOf(d)' /\ BaseOf(d)'
    <3>1. ControlOf(d)'
      BY <2>1 DEF CommandInv, private, ControlOf, Locked
    <3>2. TimeOf(d)'
      BY <2>1 DEF CommandInv, private, TimeOf, Read
    <3>3. BaseOf(d)'
      BY <2>1 DEF CommandInv, private, BaseOf
    <3> QED BY <3>1, <3>2, <3>3
  <2>3. UptodateOf(d)'
    BY <1>2, <2>1 DEF CommandInv, ControlOf, UptodateOf, IState, private
  <2>4. StagedOf(d)'
    <3>1. ASSUME kind[d] = "add", Read(d), pc[d] /= "add", Locked(d) PROVE target[d] /= p
      BY <1>2, <2>1, <3>1 DEF CommandInv, ControlOf, Read, Locked
    <3> QED BY <1>2, <2>1, <3>1 DEF CommandInv, StagedOf, Locked, Read, private
  <2>5. StatOf(d)'
    <3>1. CASE pc[d] = "close"
      <4>1. istate[d].entry[p].mtime < istate[d].timestamp /\ istate[d].timestamp <= clock
        BY <2>1, <3>1 DEF CommandInv, StatOf, TimeOf, Read
      <4>2. istate[d].entry[p].mtime /= clock
        BY <4>1, <2>1, <1>2 DEF IState, Entries, Entry
      <4>3. Shows(istate[d].entry[p], file'[p])
        BY <4>2, <1>2, BasicMatch DEF Shows
      <4> QED BY <3>1, <4>3, <1>2, <2>1 DEF CommandInv, StatOf, private
    <3>2. CASE Read(d) /\ pc[d] /= "close"
      BY <3>2, <1>3, <2>1 DEF CommandInv, StatOf, TimeOf, Read, private, IState
    <3>3. CASE ~Read(d)
      BY <3>3 DEF StatOf, Read, private
    <3> QED BY <3>1, <3>2, <3>3
  <2> QED BY <2>2, <2>3, <2>4, <2>5 DEF CommandInv
<1> QED BY <1>1, <1>4, <1>5 DEF IInv

LEMMA HoldStep ==
    ASSUME IInv, NEW c \in Commands, repo_hold_locked_index(c)
    PROVE  IInv'
<1> USE DEF repo_hold_locked_index, Goto
<1>1. TypeOK'
  BY DEF IInv, TypeOK, Kind
<1>2. DiskInv'
  BY DEF IInv, DiskInv
<1>3. ASSUME NEW d \in Commands PROVE CommandInv(d)'
  <2>1. CASE d /= c
    BY <2>1, Unmoved, NoneAssumption DEF IInv, TypeOK, CommandInv, ControlOf
  <2>2. CASE d = c /\ pc[c] = "hold"
    <3>1. pc'[c] = "update" /\ kind'[c] = "status" /\ kind[c] = "status" /\ target'[c] = target[c] /\ lock' = c
      BY <2>2 DEF IInv, TypeOK, CommandInv, ControlOf
    <3>2. CommandInv(c)
      BY DEF IInv
    <3>3. ControlOf(c)' /\ TimeOf(c)' /\ StatOf(c)' /\ BaseOf(c)' /\ StagedOf(c)'
      <4>1. ControlOf(c)'
        BY <2>2, <3>1, <3>2 DEF CommandInv, ControlOf, Locked
      <4>2. TimeOf(c)'
        BY Zenon, <2>2, <3>1, <3>2 DEF CommandInv, TimeOf, Read
      <4>3. StatOf(c)'
        BY <2>2, <3>1, <3>2 DEF CommandInv, StatOf, Read
      <4>4. BaseOf(c)'
        BY <2>2, <3>1, <3>2 DEF CommandInv, BaseOf
      <4>5. StagedOf(c)'
        BY <2>2, <3>1, <3>2 DEF CommandInv, StagedOf, Locked, Read
      <4> QED BY <4>1, <4>2, <4>3, <4>4, <4>5
    <3>4. UptodateOf(c)'
      BY <2>2, <3>1, <3>2 DEF CommandInv, UptodateOf
    <3> QED BY <2>2, <3>3, <3>4 DEF CommandInv
  <2>3. CASE d = c /\ pc[c] = "idle"
    <3>1. /\ pc'[c] = "read" /\ lock' = c /\ kind'[c] /= "status"
          /\ kind'[c] \in {"add", "checkout"} <=> target'[c] \in Paths
      BY Zenon, <2>3, NoneAssumption DEF IInv, TypeOK, CommandInv, ControlOf
    <3>2. seen[c] = {} /\ istate[c].uptodate = {}
      BY <2>3 DEF IInv, CommandInv, ControlOf
    <3>3. ControlOf(c)' /\ UptodateOf(c)'
      <4>1. ControlOf(c)'
        BY <3>1, <3>2 DEF ControlOf, Locked
      <4>2. UptodateOf(c)'
        BY <3>1, <3>2 DEF UptodateOf
      <4> QED BY <4>1, <4>2
    <3> QED BY <2>3, <3>1, <3>3 DEF CommandInv, TimeOf, StatOf, BaseOf, StagedOf, Read
  <2> QED BY Zenon, <2>1, <2>2, <2>3
<1> QED BY <1>1, <1>2, <1>3 DEF IInv

LEMMA LockIsTakenStep ==
    ASSUME IInv, NEW c \in Commands, LockIsTaken(c)
    PROVE  IInv'
<1> USE DEF LockIsTaken, shared
<1>1. TypeOK'
  BY Finished DEF IInv, TypeOK
<1>2. DiskInv'
  BY DEF IInv, DiskInv
<1>3. ASSUME NEW d \in Commands PROVE CommandInv(d)'
  <2>1. CASE d = c
    BY <2>1, Finished DEF IInv
  <2>2. CASE d /= c
    BY Zenon, <2>2, Unmoved DEF IInv, Finish, Goto, TypeOK, CommandInv, ControlOf
  <2> QED BY <2>1, <2>2
<1> QED BY <1>1, <1>2, <1>3 DEF IInv

LEMMA ReadStep ==
    ASSUME ~SkipHash, IInv, NEW c \in Commands, do_read_index(c)
    PROVE  IInv'
<1> USE DEF do_read_index, Goto, shared
<1> DEFINE new == [entry |-> index.entry, timestamp |-> index.timestamp,
                   oid |-> Hash(index.entry), uptodate |-> {}, cache_changed |-> FALSE]
<1>1. new \in IState /\ index.entry \in Entries
  BY DEF IInv, TypeOK, IState, Hash
<1>2. TypeOK'
  BY <1>1 DEF IInv, TypeOK, Kind
<1>3. DiskInv'
  BY DEF IInv, DiskInv
<1>4. ASSUME NEW d \in Commands PROVE CommandInv(d)'
  <2>1. CASE d /= c
    BY <2>1, Unmoved DEF IInv, TypeOK, CommandInv, ControlOf
  <2>2. CASE d = c
    <3>1. /\ istate'[c] = new /\ seen'[c] = {} /\ kind'[c] = kind[c] /\ target'[c] = target[c]
          /\ pc'[c] = IF kind[c] \in {"status", "diff"} THEN "refresh" ELSE kind[c]
          /\ kind[c] \in Kind
      BY Zenon DEF IInv, TypeOK, CommandInv, ControlOf
    <3>2. ControlOf(c)'
      BY <3>1 DEF IInv, CommandInv, ControlOf, Locked, Kind
    <3>3. TimeOf(c)' /\ StatOf(c)'
      <4>1. TimeOf(c)'
        BY <3>1 DEF IInv, DiskInv, Kind, TimeOf, Read
      <4>2. StatOf(c)'
        BY <3>1 DEF IInv, DiskInv, Kind, StatOf, Read
      <4> QED BY <4>1, <4>2
    <3>4. UptodateOf(c)'
      BY <3>1 DEF UptodateOf
    <3>5. BaseOf(c)'
      BY <3>1 DEF BaseOf, Hash
    <3>6. StagedOf(c)'
      BY <3>1 DEF StagedOf, Kind
    <3> QED BY Zenon, <2>2, <3>2, <3>3, <3>4, <3>5, <3>6 DEF CommandInv
  <2> QED BY <2>1, <2>2
<1> QED BY <1>2, <1>3, <1>4 DEF IInv

(* Visiting a path leaves what is staged, and an entry that got new stat   *)
(* information or is up to date stages what the file holds.                *)
LEMMA RefreshStep ==
    ASSUME IInv, NEW c \in Commands, NEW p \in Paths, refresh_cache_ent(c, p)
    PROVE  IInv'
<1> DEFINE ce      == istate[c].entry[p]
           ts      == istate[c].timestamp
           matches == ie_match_stat(ts, ce, file[p], FALSE) = {}
           updated == ~matches /\ ~ie_modified(ts, ce, file[p])
           new     == istate'[c]
<1>1. /\ istate[c] \in IState /\ ce \in Entry /\ file[p] \in File /\ ts \in Nat
      /\ istate[c].entry \in Entries /\ seen[c] \subseteq Paths
  BY DEF IInv, TypeOK, IState, Entries
<1>2. /\ pc[c] = "refresh" /\ p \notin seen[c]
      /\ istate' = [istate EXCEPT
                        ![c].uptodate = IF matches \/ updated THEN @ \cup {p} ELSE @,
                        ![c].entry[p] = IF updated THEN fill_stat_data(@, file[p]) ELSE @,
                        ![c].cache_changed = @ \/ updated]
      /\ seen' = [seen EXCEPT ![c] = @ \cup {p}]
      /\ UNCHANGED <<clock, file, index, lock, pc, kind, target>>
  BY Zenon DEF refresh_cache_ent, shared
<1>3. /\ new = [istate[c] EXCEPT
                    !.uptodate = IF matches \/ updated THEN @ \cup {p} ELSE @,
                    !.entry[p] = IF updated THEN fill_stat_data(@, file[p]) ELSE @,
                    !.cache_changed = @ \/ updated]
      /\ seen'[c] = seen[c] \cup {p}
      /\ \A d \in Commands : d /= c => istate'[d] = istate[d] /\ seen'[d] = seen[d]
  BY Zenon, <1>2 DEF IInv, TypeOK
<1>4. /\ new.timestamp = ts
      /\ new.oid = istate[c].oid
      /\ new.uptodate = IF matches \/ updated THEN istate[c].uptodate \cup {p} ELSE istate[c].uptodate
      /\ new.entry = [istate[c].entry EXCEPT ![p] = IF updated THEN fill_stat_data(@, file[p]) ELSE @]
      /\ new.cache_changed = (istate[c].cache_changed \/ updated)
  BY Zenon, <1>1, <1>3 DEF IState
<1>5. /\ new.entry[p] = IF updated THEN fill_stat_data(ce, file[p]) ELSE ce
      /\ \A q \in Paths : q /= p => new.entry[q] = istate[c].entry[q]
      /\ new.entry \in Entries
  <2>1. fill_stat_data(ce, file[p]) \in Entry
    BY Zenon, <1>1, Filled
  <2>2. new.entry = [istate[c].entry EXCEPT ![p] = IF updated THEN fill_stat_data(ce, file[p]) ELSE ce]
    BY Zenon, <1>1, <1>4 DEF Entries
  <2>3. (IF updated THEN fill_stat_data(ce, file[p]) ELSE ce) \in Entry
    BY Zenon, <1>1, <2>1
  <2> HIDE DEF ce, matches, updated, new
  <2> QED BY <1>1, <2>2, <2>3 DEF Entries
<1>6. new \in IState
  <2>1. new.cache_changed \in BOOLEAN
    BY Zenon, <1>1, <1>4 DEF IState
  <2>2. new.uptodate \in SUBSET Paths
    BY Zenon, <1>1, <1>4 DEF IState
  <2>3. new = [entry |-> new.entry, timestamp |-> new.timestamp, oid |-> new.oid,
               uptodate |-> new.uptodate, cache_changed |-> new.cache_changed]
    BY Zenon, <1>1, <1>3, <1>4 DEF IState
  <2> QED BY Zenon, <1>1, <1>4, <1>5, <2>1, <2>2, <2>3 DEF IState
<1>7. TypeOK'
  <2>1. istate' \in [Commands -> IState]
    BY Zenon, <1>2, <1>3, <1>6 DEF IInv, TypeOK
  <2> QED BY Zenon, <1>2, <1>1, <2>1 DEF IInv, TypeOK
<1>8. DiskInv'
  BY Zenon, <1>2 DEF IInv, DiskInv
<1>9. CommandInv(c) /\ ts >= 1 /\ ShowsOrRacy(ts, ce, file[p])
  <2>1. CommandInv(c)
    BY DEF IInv
  <2>2. TimeOf(c) /\ StatOf(c)
    BY <2>1 DEF CommandInv
  <2>3. ts \in 1 .. clock /\ clock \in Nat
    BY Zenon, <1>2, <2>2 DEF TimeOf, Read, IInv, TypeOK
  <2>4. ShowsOrRacy(ts, ce, file[p])
    BY Zenon, <1>2, <2>2 DEF StatOf, Read
  <2> QED BY <2>1, <2>3, <2>4
<1>10. /\ \A q \in Paths : new.entry[q].oid = istate[c].entry[q].oid
       /\ matches \/ updated => new.entry[p].oid = file[p].content
  <2>1. matches => ce.oid = file[p].content
    BY Zenon, <1>1, <1>9, MatchIsUnmodified
  <2>2. updated => ce.oid = file[p].content
    BY Zenon, NotModified
  <2>3. new.entry[p].oid = ce.oid
    <3>1. CASE updated
      <4>1. new.entry[p] = fill_stat_data(ce, file[p])
        BY <1>5, <3>1
      <4>2. fill_stat_data(ce, file[p]).oid = ce.oid
        BY <1>1, Filled
      <4> QED BY <4>1, <4>2
    <3>2. CASE ~updated
      BY Zenon, <1>5, <3>2
    <3> QED BY Zenon, <3>1, <3>2
  <2> QED BY Zenon, <1>5, <2>1, <2>2, <2>3
<1>11. CommandInv(c)'
  <2>1. ControlOf(c)'
    <3>1. ControlOf(c) /\ pc'[c] = "refresh" /\ kind'[c] = kind[c] /\ target'[c] = target[c] /\ lock' = lock
      BY Zenon, <1>2, <1>9 DEF CommandInv
    <3>2. istate'[c].uptodate \subseteq seen'[c]
      BY Zenon, <1>3, <1>4, <3>1 DEF ControlOf
    <3> QED BY Zenon, <1>2, <3>1, <3>2 DEF ControlOf, Locked
  <2>2. TimeOf(c)'
    BY Zenon, <1>2, <1>4, <1>9 DEF CommandInv, TimeOf, Read
  <2>3. StatOf(c)'
    <3>1. ShowsOrRacy(ts, new.entry[p], file[p])
      BY Zenon, <1>5, <1>9, <1>10 DEF ShowsOrRacy, Shows
    <3> QED BY Zenon, <1>2, <1>4, <1>5, <1>9, <3>1 DEF CommandInv, StatOf, Read
  <2>4. UptodateOf(c)'
    <3> SUFFICES ASSUME NEW q \in new.uptodate
                 PROVE  \/ new.entry[q].oid = file[q].content
                        \/ /\ kind[c] = "status"
                           /\ index.entry[q].oid = file[q].content
      BY Zenon, <1>2 DEF UptodateOf
    <3>1. CASE q = p /\ (matches \/ updated)
      BY Zenon, <3>1, <1>10
    <3>2. CASE q \in istate[c].uptodate
      BY Zenon, <3>2, <1>1, <1>9, <1>10 DEF CommandInv, UptodateOf, IState
    <3> QED BY Zenon, <3>1, <3>2, <1>4
  <2>5. BaseOf(c)'
    BY Zenon, <1>2, <1>4, <1>9, <1>10 DEF CommandInv, BaseOf
  <2>6. StagedOf(c)'
    BY Zenon, <1>2, <1>9, <1>10 DEF CommandInv, StagedOf, Locked, Read
  <2> QED BY <2>1, <2>2, <2>3, <2>4, <2>5, <2>6 DEF CommandInv
<1>12. ASSUME NEW d \in Commands, d /= c PROVE CommandInv(d)'
  BY Zenon, <1>2, <1>3, <1>12, Unmoved DEF IInv, CommandInv, ControlOf
<1> QED BY <1>7, <1>8, <1>11, <1>12 DEF IInv

LEMMA RefreshDoneStep ==
    ASSUME IInv, NEW c \in Commands, refresh_index_done(c)
    PROVE  IInv'
<1> USE DEF refresh_index_done, Goto, shared
<1>1. TypeOK'
  BY DEF IInv, TypeOK
<1>2. DiskInv'
  BY DEF IInv, DiskInv
<1>3. ASSUME NEW d \in Commands PROVE CommandInv(d)'
  <2>1. CASE d /= c
    BY Zenon, <2>1, Unmoved DEF IInv, TypeOK, CommandInv, ControlOf
  <2>2. CASE d = c
    <3>1. /\ pc[c] = "refresh" /\ kind[c] \in {"status", "diff"}
          /\ pc'[c] = IF kind[c] = "status" THEN "hold" ELSE "update"
          /\ CommandInv(c)
      BY Zenon DEF IInv, TypeOK, CommandInv, ControlOf
    <3>0. Read(c) /\ pc[c] /= "close" /\ pc'[c] /= "close"
      BY <3>1 DEF Read
    <3>2. ControlOf(c)' /\ TimeOf(c)' /\ StatOf(c)' /\ BaseOf(c)' /\ StagedOf(c)'
      <4>1. ControlOf(c)'
        BY <3>1 DEF CommandInv, ControlOf, Locked
      <4>2. TimeOf(c)'
        BY Zenon, <3>1 DEF CommandInv, TimeOf, Read
      <4>3. StatOf(c)'
        BY Zenon, <3>0, <3>1 DEF CommandInv, StatOf
      <4>4. BaseOf(c)'
        BY Zenon, <3>1 DEF CommandInv, BaseOf
      <4>5. StagedOf(c)'
        BY <3>1 DEF CommandInv, StagedOf, Locked, Read
      <4> QED BY <4>1, <4>2, <4>3, <4>4, <4>5
    <3>3. UptodateOf(c)'
      BY Zenon, <3>1 DEF CommandInv, UptodateOf
    <3> QED BY Zenon, <2>2, <3>2, <3>3 DEF CommandInv
  <2> QED BY <2>1, <2>2
<1> QED BY <1>1, <1>2, <1>3 DEF IInv

LEMMA AddStep ==
    ASSUME IInv, NEW c \in Commands, add_to_index(c)
    PROVE  IInv'
<1> DEFINE p       == target[c]
           ce      == istate[c].entry[p]
           ts      == istate[c].timestamp
           matches == ie_match_stat(ts, ce, file[p], TRUE) = {}
           fresh   == fill_stat_data([ce EXCEPT !.oid = file[p].content], file[p])
           e       == IF matches THEN ce ELSE fresh
           new     == istate'[c]
<1>1. /\ pc[c] = "add" /\ CommandInv(c)
      /\ seen' = [seen EXCEPT ![c] = @ \cup {p}]
      /\ pc' = [pc EXCEPT ![c] = "write"]
      /\ UNCHANGED <<clock, file, index, lock, kind, target>>
  BY Zenon DEF IInv, add_to_index, shared, Goto
<1>2. kind[c] = "add" /\ p \in Paths /\ seen[c] = {} /\ istate[c].uptodate = {} /\ lock = c
  BY <1>1 DEF CommandInv, ControlOf, Locked
<1>3. istate[c] \in IState /\ ce \in Entry /\ file[p] \in File /\ ts \in Nat
  BY <1>2 DEF IInv, TypeOK, IState, Entries
<1>4. /\ [ce EXCEPT !.oid = file[p].content] \in Entry
      /\ [ce EXCEPT !.oid = file[p].content].oid = file[p].content
  BY <1>3 DEF Entry, File
<1>5. fresh \in Entry /\ fresh.oid = file[p].content
  BY Zenon, <1>3, <1>4, Filled
<1>6. e \in Entry /\ e.oid = file[p].content
  <2>1. ts >= 1 /\ ShowsOrRacy(ts, ce, file[p])
    <3>1. ts \in 1 .. clock /\ clock \in Nat
      BY Zenon, <1>1 DEF CommandInv, TimeOf, Read, IInv, TypeOK
    <3>2. ShowsOrRacy(ts, ce, file[p])
      BY <1>1, <1>2 DEF CommandInv, StatOf, Read
    <3> QED BY <3>1, <3>2
  <2>2. matches => ce.oid = file[p].content
    BY Zenon, <1>3, <2>1, MatchIsUnmodified
  <2> QED BY Zenon, <1>3, <1>5, <2>2
<1>7. /\ new = [istate[c] EXCEPT !.uptodate = istate[c].uptodate \cup {p},
                                 !.entry = [istate[c].entry EXCEPT ![p] = e],
                                 !.cache_changed = istate[c].cache_changed \/ ~matches]
      /\ \A d \in Commands : d /= c => istate'[d] = istate[d] /\ seen'[d] = seen[d] /\ pc'[d] = pc[d]
      /\ istate' = [istate EXCEPT ![c] = new]
      /\ seen'[c] = {p} /\ pc'[c] = "write"
  BY Zenon, <1>1, <1>2, <1>3 DEF add_to_index, IInv, TypeOK, IState
<1> HIDE DEF e, new
<1>9. /\ new \in IState
      /\ new.timestamp = ts
      /\ new.uptodate = {p}
      /\ new.entry[p] = e
      /\ \A q \in Paths : q /= p => new.entry[q] = istate[c].entry[q]
  <2>1. /\ new.timestamp = ts
        /\ new.oid = istate[c].oid
        /\ new.uptodate = {p}
        /\ new.entry = [istate[c].entry EXCEPT ![p] = e]
        /\ new.cache_changed \in BOOLEAN
        /\ new = [entry |-> new.entry, timestamp |-> new.timestamp, oid |-> new.oid,
                  uptodate |-> new.uptodate, cache_changed |-> new.cache_changed]
    BY Zenon, <1>2, <1>3, <1>6, <1>7 DEF IState
  <2>2. /\ new.entry \in Entries
        /\ new.entry[p] = e
        /\ \A q \in Paths : q /= p => new.entry[q] = istate[c].entry[q]
    BY <1>2, <1>3, <1>6, <1>7, <2>1 DEF IState, Entries
  <2>3. new \in IState
    BY Zenon, <1>2, <1>3, <1>6, <1>7, <2>1, <2>2 DEF IState
  <2> QED BY <2>1, <2>2, <2>3
<1>10. TypeOK'
  BY Zenon, <1>1, <1>2, <1>7, <1>9 DEF IInv, TypeOK
<1>11. DiskInv'
  BY <1>1 DEF IInv, DiskInv
<1>12. CommandInv(c)'
  <2>0. istate'[c] = new
    BY DEF new
  <2>1. ControlOf(c)'
    BY <2>0, <1>1, <1>2, <1>7, <1>9 DEF CommandInv, ControlOf, Locked
  <2>2. TimeOf(c)'
    BY Zenon, <2>0, <1>1, <1>7, <1>9 DEF CommandInv, TimeOf, Read
  <2>3. StatOf(c)'
    <3>1. ShowsOrRacy(ts, new.entry[p], file[p])
      BY Zenon, <1>6, <1>9 DEF ShowsOrRacy, Shows
    <3> QED BY Zenon, <2>0, <1>1, <1>2, <1>7, <1>9, <3>1 DEF CommandInv, StatOf, Read
  <2>4. UptodateOf(c)'
    BY <2>0, <1>1, <1>6, <1>9 DEF UptodateOf
  <2>5. BaseOf(c)'
    BY <1>7 DEF BaseOf
  <2>6. StagedOf(c)'
    <3>1. \A q \in Paths : istate[c].entry[q].oid = index.entry[q].oid
      BY <1>1, <1>2 DEF CommandInv, StagedOf, Locked, Read
    <3>2. ASSUME NEW q \in Paths
          PROVE  istate'[c].entry[q].oid = IF q = p THEN file[q].content ELSE index.entry[q].oid
      BY <2>0, <1>6, <1>9, <3>1
    <3>3. kind'[c] = "add" /\ target'[c] = p /\ pc'[c] = "write" /\ file' = file /\ index' = index
      BY <1>1, <1>2, <1>7
    <3> QED BY <3>2, <3>3 DEF StagedOf
  <2> QED BY <2>1, <2>2, <2>3, <2>4, <2>5, <2>6 DEF CommandInv
<1>13. ASSUME NEW d \in Commands, d /= c PROVE CommandInv(d)'
  BY Zenon, <1>1, <1>7, <1>13, Unmoved DEF IInv, CommandInv, ControlOf
<1> QED BY <1>10, <1>11, <1>12, <1>13 DEF IInv

LEMMA CheckoutStep ==
    ASSUME IInv, NEW c \in Commands, checkout_entry(c)
    PROVE  IInv'
<1> DEFINE p       == target[c]
           ce      == istate[c].entry[p]
           ts      == istate[c].timestamp
           matches == ie_match_stat(ts, ce, file[p], FALSE) = {}
           written == [content |-> ce.oid, mtime |-> clock]
           e       == fill_stat_data(ce, written)
<1>1. /\ pc[c] = "checkout" /\ CommandInv(c)
      /\ seen' = [seen EXCEPT ![c] = @ \cup {p}]
      /\ pc' = [pc EXCEPT ![c] = "write"]
      /\ UNCHANGED <<clock, index, lock, kind, target>>
  BY DEF IInv, checkout_entry, Goto
<1>2. /\ kind[c] = "checkout" /\ p \in Paths /\ seen[c] = {} /\ istate[c].uptodate = {} /\ lock = c
      /\ \A q \in Paths : istate[c].entry[q].oid = index.entry[q].oid
  BY <1>1 DEF CommandInv, ControlOf, StagedOf, Locked, Read
<1>3. /\ istate[c] \in IState /\ ce \in Entry /\ file[p] \in File /\ ts \in Nat
      /\ clock \in Nat /\ ts \in 1 .. clock
  BY <1>1, <1>2 DEF IInv, TypeOK, IState, Entries, CommandInv, TimeOf, Read
<1>4. written \in File /\ e \in Entry /\ e.oid = ce.oid
  <2>1. written \in File
    BY <1>3 DEF File, Entry
  <2> QED BY <1>3, <2>1, Filled
<1>5. /\ pc'[c] = "write" /\ seen'[c] = {p} /\ kind'[c] = "checkout" /\ target'[c] = p
      /\ \A d \in Commands : d /= c => seen'[d] = seen[d] /\ pc'[d] = pc[d]
  BY <1>1, <1>2 DEF IInv, TypeOK
<1>6. CASE matches
  <2>1. file' = file /\ istate' = istate
    BY <1>6 DEF checkout_entry
  <2>2. TypeOK'
    BY Zenon, <1>1, <1>2, <2>1 DEF IInv, TypeOK
  <2>3. DiskInv'
    BY <1>1, <2>1 DEF IInv, DiskInv
  <2>4. CommandInv(c)'
    <3>1. ControlOf(c)'
      BY <1>1, <1>2, <1>5, <2>1 DEF ControlOf, Locked
    <3>2. TimeOf(c)' /\ StatOf(c)'
      <4>1. TimeOf(c)'
        BY Zenon, <1>1, <1>5, <2>1 DEF CommandInv, TimeOf, Read
      <4>2. StatOf(c)'
        BY Zenon, <1>1, <1>5, <2>1 DEF CommandInv, StatOf, Read
      <4> QED BY Zenon, <4>1, <4>2
    <3>3. UptodateOf(c)' /\ BaseOf(c)'
      <4>1. UptodateOf(c)'
        BY <1>2, <1>5, <2>1 DEF UptodateOf
      <4>2. BaseOf(c)'
        BY <1>2, <1>5, <2>1 DEF BaseOf
      <4> QED BY <4>1, <4>2
    <3>4. StagedOf(c)'
      BY <1>1, <1>2, <1>5, <2>1 DEF StagedOf
    <3> QED BY Zenon, <3>1, <3>2, <3>3, <3>4 DEF CommandInv
  <2>5. ASSUME NEW d \in Commands, d /= c PROVE CommandInv(d)'
    BY Zenon, <1>1, <1>5, <2>1, <2>5, Unmoved DEF IInv, CommandInv, ControlOf
  <2> QED BY <2>2, <2>3, <2>4, <2>5 DEF IInv
<1>7. CASE ~matches
  <2> DEFINE new == istate'[c]
  <2>1. /\ file' = [file EXCEPT ![p] = written]
        /\ istate' = [istate EXCEPT ![c].entry[p] = fill_stat_data(@, written),
                                    ![c].uptodate = @ \cup {p},
                                    ![c].cache_changed = TRUE]
    BY <1>7 DEF checkout_entry
  <2>2. /\ new = [istate[c] EXCEPT !.uptodate = istate[c].uptodate \cup {p},
                                   !.entry = [istate[c].entry EXCEPT ![p] = e],
                                   !.cache_changed = TRUE]
        /\ \A d \in Commands : d /= c => istate'[d] = istate[d]
        /\ istate' = [istate EXCEPT ![c] = new]
    BY Zenon, <2>1, <1>2, <1>3 DEF IInv, TypeOK, IState
  <2> HIDE DEF e, new, matches
  <2>3. /\ new \in IState
        /\ new.timestamp = ts
        /\ new.uptodate = {p}
        /\ new.entry[p] = e
        /\ \A q \in Paths : q /= p => new.entry[q] = istate[c].entry[q]
    <3>1. /\ new.timestamp = ts
          /\ new.oid = istate[c].oid
          /\ new.uptodate = {p}
          /\ new.entry = [istate[c].entry EXCEPT ![p] = e]
          /\ new.cache_changed \in BOOLEAN
          /\ new = [entry |-> new.entry, timestamp |-> new.timestamp, oid |-> new.oid,
                    uptodate |-> new.uptodate, cache_changed |-> new.cache_changed]
      BY Zenon, <1>2, <1>3, <1>4, <2>2 DEF IState
    <3>2. /\ new.entry \in Entries
          /\ new.entry[p] = e
          /\ \A q \in Paths : q /= p => new.entry[q] = istate[c].entry[q]
      BY <1>2, <1>3, <1>4, <2>2, <3>1 DEF IState, Entries
    <3>3. new \in IState
      BY Zenon, <1>2, <1>3, <1>4, <2>2, <3>1, <3>2 DEF IState
    <3> QED BY <3>1, <3>2, <3>3
  <2>4. /\ file'[p] = written
        /\ \A q \in Paths : q /= p => file'[q] = file[q]
        /\ file'[p].content = index.entry[p].oid
    BY <2>1, <1>2 DEF IInv, TypeOK
  <2>5. ASSUME NEW t \in Nat, t <= clock, NEW x, NEW q \in Paths, ShowsOrRacy(t, x, file[q])
        PROVE  ShowsOrRacy(t, x, file'[q])
    BY Zenon, <1>3, <2>4, <2>5, WrittenNow
  <2>6. TypeOK'
    <3>1. istate' \in [Commands -> IState]
      BY <2>2, <2>3 DEF IInv, TypeOK
    <3>2. file' \in [Paths -> File]
      BY <1>2, <1>4, <2>1 DEF IInv, TypeOK
    <3>3. /\ pc' \in [Commands -> {"idle", "hold", "read", "refresh", "add", "checkout",
                                   "update", "write", "close", "commit"}]
          /\ seen' \in [Commands -> SUBSET Paths]
      BY Zenon, <1>1, <1>2 DEF IInv, TypeOK
    <3> QED BY <1>1, <3>1, <3>2, <3>3 DEF IInv, TypeOK
  <2>7. DiskInv'
    BY <1>1, <2>5 DEF IInv, TypeOK, DiskInv
  <2>8. istate'[c] = new
    BY DEF new
  <2>9. \A q \in Paths : new.entry[q].oid = index.entry[q].oid
    BY Zenon, <1>2, <1>4, <2>3
  <2>10. CommandInv(c)'
    <3>1. ControlOf(c)'
      BY <1>1, <1>2, <1>5, <2>3, <2>8 DEF ControlOf, Locked
    <3>2. TimeOf(c)'
      BY <1>1, <1>3, <2>3, <2>8 DEF TimeOf
    <3>3. StatOf(c)'
      <4>1. ShowsOrRacy(ts, new.entry[p], file'[p])
        BY <2>4, <2>9, <1>2 DEF ShowsOrRacy, Shows
      <4>2. ASSUME NEW q \in Paths, q /= p PROVE ShowsOrRacy(ts, new.entry[q], file'[q])
        BY Zenon, <1>1, <2>3, <2>4, <4>2 DEF CommandInv, StatOf, Read
      <4> QED BY Zenon, <1>5, <2>3, <2>8, <4>1, <4>2 DEF StatOf
    <3>4. UptodateOf(c)'
      <4>1. new.entry[p].oid = file'[p].content
        BY Zenon, <1>2, <2>4, <2>9
      <4>2. istate'[c].uptodate = {p}
        BY Zenon, <2>3, <2>8
      <4> QED BY Zenon, <2>8, <4>1, <4>2 DEF UptodateOf
    <3>5. BaseOf(c)'
      BY Zenon, <1>5 DEF BaseOf
    <3>6. StagedOf(c)'
      BY <1>1, <1>5, <2>8, <2>9 DEF StagedOf
    <3> QED BY <3>1, <3>2, <3>3, <3>4, <3>5, <3>6 DEF CommandInv
  <2>11. ASSUME NEW d \in Commands, d /= c PROVE CommandInv(d)'
    <3>1. /\ CommandInv(d) /\ ~Locked(d) /\ istate[d] \in IState
          /\ UNCHANGED <<pc[d], kind[d], target[d], istate[d], seen[d], lock, clock, index>>
      BY <1>1, <1>2, <1>5, <2>2, <2>11 DEF IInv, TypeOK, CommandInv, ControlOf
    <3>2. ControlOf(d)' /\ TimeOf(d)' /\ BaseOf(d)' /\ StagedOf(d)'
      <4>1. ControlOf(d)'
        BY Zenon, <3>1 DEF CommandInv, ControlOf, Locked
      <4>2. TimeOf(d)'
        BY <3>1 DEF CommandInv, TimeOf, Read
      <4>3. BaseOf(d)'
        BY Zenon, <3>1 DEF CommandInv, BaseOf
      <4>4. StagedOf(d)'
        BY Zenon, <3>1 DEF CommandInv, StagedOf, Locked, Read
      <4> QED BY Zenon, <4>1, <4>2, <4>3, <4>4
    <3>3. StatOf(d)'
      <4>1. CASE Read(d)
        <5>1. istate[d].timestamp \in Nat /\ istate[d].timestamp <= clock /\ pc[d] /= "close"
          BY <3>1, <4>1, <1>3 DEF CommandInv, TimeOf, Locked
        <5> QED BY Zenon, <3>1, <4>1, <5>1, <2>5 DEF CommandInv, StatOf, Read
      <4>2. CASE ~Read(d)
        BY Zenon, <3>1, <4>2 DEF StatOf, Read
      <4> QED BY <4>1, <4>2
    <3>4. UptodateOf(d)'
      <4> SUFFICES ASSUME NEW q \in istate[d].uptodate
                   PROVE  \/ istate[d].entry[q].oid = file'[q].content
                          \/ /\ kind[d] = "status"
                             /\ pc[d] \in {"refresh", "hold", "update"}
                             /\ index.entry[q].oid = file'[q].content
        BY Zenon, <3>1 DEF UptodateOf
      <4>1. q \in Paths /\ q \in seen[d]
        BY <3>1 DEF IState, CommandInv, ControlOf
      <4>2. CASE q /= p
        BY Zenon, <4>1, <4>2, <3>1, <2>4 DEF CommandInv, UptodateOf
      <4>3. CASE q = p
        <5>1. pc[d] \in {"refresh", "hold"} /\ kind[d] = "status"
          BY Zenon, <3>1, <4>1 DEF CommandInv, ControlOf, Locked, IInv, TypeOK
        <5> QED BY <4>3, <5>1, <2>4
      <4> QED BY <4>2, <4>3
    <3> QED BY <3>2, <3>3, <3>4 DEF CommandInv
  <2> QED BY <2>6, <2>7, <2>10, <2>11 DEF IInv
<1> QED BY Zenon, <1>6, <1>7

(* The verification is what makes a refresh fit to be written: the index   *)
(* is the one that was read, so what was up to date still is.              *)
LEMMA UpdateStep ==
    ASSUME ~SkipHash, IInv, NEW c \in Commands, repo_update_index_if_able(c)
    PROVE  IInv'
<1>1. pc[c] = "update" /\ lock = c /\ CommandInv(c)
  BY Zenon DEF repo_update_index_if_able, IInv, CommandInv, ControlOf, Locked
<1>2. CASE rollback_lock_file(c)
  BY <1>1, <1>2, RolledBack
<1>3. CASE ~rollback_lock_file(c)
  <2>1. /\ verify_index_from(c)
        /\ pc' = [pc EXCEPT ![c] = "write"]
        /\ UNCHANGED <<clock, file, index, lock, kind, target, istate, seen>>
    BY <1>3 DEF repo_update_index_if_able, Goto, shared
  <2>2. pc'[c] = "write" /\ \A d \in Commands : d /= c => pc'[d] = pc[d]
    BY <2>1 DEF IInv, TypeOK
  <2>3. istate[c].oid = {index.entry} /\ index.entry \in Entries
    BY <2>1 DEF verify_index_from, Hash, IInv, TypeOK
  <2>4. \A p \in Paths : istate[c].entry[p].oid = index.entry[p].oid
    BY <1>1, <2>3 DEF CommandInv, BaseOf
  <2>5. TypeOK'
    BY <2>1 DEF IInv, TypeOK
  <2>6. DiskInv'
    BY <2>1 DEF IInv, DiskInv
  <2>7. CommandInv(c)'
    <3>1. ControlOf(c)'
      BY <1>1, <2>1, <2>2 DEF CommandInv, ControlOf, Locked
    <3>2. TimeOf(c)' /\ StatOf(c)' /\ BaseOf(c)'
      <4>1. TimeOf(c)'
        BY <1>1, <2>1, <2>2 DEF CommandInv, TimeOf, Read
      <4>2. StatOf(c)'
        BY Zenon, <1>1, <2>1, <2>2 DEF CommandInv, StatOf, Read
      <4>3. BaseOf(c)'
        BY Zenon, <1>1, <2>1, <2>2 DEF CommandInv, BaseOf
      <4> QED BY Zenon, <4>1, <4>2, <4>3
    <3>3. UptodateOf(c)'
      <4>1. istate[c].uptodate \subseteq Paths
        BY DEF IInv, TypeOK, IState
      <4> QED BY Zenon, <1>1, <2>1, <2>4, <4>1 DEF CommandInv, UptodateOf
    <3>4. StagedOf(c)'
      <4>1. kind[c] /= "add"
        BY Zenon, <1>1 DEF CommandInv, ControlOf
      <4> QED BY Zenon, <2>1, <2>4, <4>1 DEF StagedOf
    <3> QED BY Zenon, <3>1, <3>2, <3>3, <3>4 DEF CommandInv
  <2>8. ASSUME NEW d \in Commands, d /= c PROVE CommandInv(d)'
    BY Zenon, <2>1, <2>2, <2>8, Unmoved DEF IInv, CommandInv, ControlOf
  <2> QED BY <2>5, <2>6, <2>7, <2>8 DEF IInv
<1> QED BY Zenon, <1>2, <1>3

LEMMA SkipStep ==
    ASSUME IInv, NEW c \in Commands, SkipIfUnchanged(c)
    PROVE  IInv'
BY Zenon, RolledBack DEF SkipIfUnchanged, IInv, CommandInv, ControlOf, Locked

LEMMA WriteFailsStep ==
    ASSUME IInv, NEW c \in Commands, WriteFails(c)
    PROVE  IInv'
BY Zenon, RolledBack DEF WriteFails, IInv, CommandInv, ControlOf, Locked

(* Writing the entries leaves none that hides a modification, and none     *)
(* that a user can still edit is racy.                                     *)
LEMMA WriteStep ==
    ASSUME IInv, NEW c \in Commands, do_write_index(c)
    PROVE  IInv'
<1> DEFINE ts    == istate[c].timestamp
           ce(p) == istate[c].entry[p]
           new   == istate'[c]
           S     == Suspects(c)
           out   == [p \in Paths |-> IF p \in S THEN ce_smudge_racily_clean_entry(ce(p), file[p])
                                     ELSE ce(p)]
<1>1. /\ pc[c] = "write" /\ CommandInv(c)
      /\ istate' = [istate EXCEPT ![c].entry = out]
      /\ seen' = [seen EXCEPT ![c] = @ \cup S]
      /\ pc' = [pc EXCEPT ![c] = "close"]
      /\ UNCHANGED <<clock, file, index, lock, kind, target>>
  BY DEF IInv, do_write_index, shared, Goto
<1>2. /\ istate[c] \in IState /\ ts \in Nat /\ ts \in 1 .. clock /\ clock \in Nat
      /\ istate[c].uptodate \subseteq Paths /\ istate[c].uptodate \subseteq seen[c]
      /\ lock = c
      /\ \A p \in Paths : ce(p) \in Entry /\ file[p] \in File
  <2>1. TimeOf(c) /\ ControlOf(c) /\ Read(c) /\ Locked(c)
    BY <1>1 DEF CommandInv, Read, Locked
  <2>2. istate[c] \in IState /\ \A p \in Paths : ce(p) \in Entry /\ file[p] \in File
    BY DEF IInv, TypeOK, IState, Entries
  <2> QED BY <2>1, <2>2 DEF TimeOf, ControlOf, IInv, TypeOK, IState
<1>3. S \subseteq Paths
  BY DEF Suspects
<1>4. ASSUME NEW p \in Paths
      PROVE  /\ out[p] \in Entry
             /\ out[p].oid = ce(p).oid
             /\ Shows(out[p], file[p])
             /\ p \notin seen[c] \cup S => out[p].mtime < ts
  <2>1. ce(p) \in Entry /\ file[p] \in File
    BY Zenon, <1>2
  <2>2. CASE p \in S
    BY Zenon, <2>1, <2>2, Smudged
  <2>3. CASE p \notin S /\ p \in istate[c].uptodate
    <3>1. ce(p).oid = file[p].content
      BY Zenon, <1>1, <2>3 DEF CommandInv, UptodateOf
    <3> QED BY <1>2, <2>1, <2>3, <3>1 DEF Shows
  <2>4. CASE p \notin S /\ p \notin istate[c].uptodate
    <3>1. ~(ts <= ce(p).mtime)
      BY <1>2, <2>4 DEF Suspects, is_racy_timestamp
    <3>2. ShowsOrRacy(ts, ce(p), file[p])
      BY <1>1 DEF CommandInv, StatOf, Read
    <3>3. ce(p).mtime \in Nat
      BY <2>1 DEF Entry
    <3> QED BY <1>2, <2>1, <2>4, <3>1, <3>2, <3>3 DEF ShowsOrRacy
  <2> QED BY Zenon, <2>2, <2>3, <2>4
<1>5. /\ new = [istate[c] EXCEPT !.entry = out]
      /\ \A d \in Commands : d /= c => istate'[d] = istate[d] /\ seen'[d] = seen[d] /\ pc'[d] = pc[d]
      /\ istate' = [istate EXCEPT ![c] = new]
      /\ seen'[c] = seen[c] \cup S /\ pc'[c] = "close"
  BY Zenon, <1>1 DEF IInv, TypeOK
<1>6. out \in Entries
  BY <1>4 DEF Entries
<1> HIDE DEF out, new, S
<1>7. /\ new.entry = out
      /\ new.timestamp = ts
      /\ new.uptodate = istate[c].uptodate
      /\ new \in IState
  BY <1>2, <1>5, <1>6 DEF IState
<1>8. istate'[c] = new
  BY DEF new
<1>9. TypeOK'
  <2>1. istate' \in [Commands -> IState]
    BY <1>5, <1>7 DEF IInv, TypeOK
  <2> QED BY <1>1, <1>3, <2>1 DEF IInv, TypeOK
<1>10. DiskInv'
  BY <1>1 DEF IInv, DiskInv
<1>11. CommandInv(c)'
  <2>1. ControlOf(c)'
    BY <1>1, <1>2, <1>5, <1>7, <1>8 DEF CommandInv, ControlOf, Locked
  <2>2. TimeOf(c)'
    BY <1>1, <1>2, <1>7, <1>8 DEF TimeOf
  <2>3. StatOf(c)'
    BY Zenon, <1>1, <1>4, <1>5, <1>7, <1>8 DEF StatOf, Read
  <2>4. UptodateOf(c)'
    BY <1>1, <1>2, <1>4, <1>7, <1>8 DEF CommandInv, UptodateOf
  <2>5. BaseOf(c)'
    BY <1>5 DEF BaseOf
  <2>6. StagedOf(c)'
    <3>1. \A p \in Paths :
            ce(p).oid = IF kind[c] = "add" /\ p = target[c] THEN file[p].content ELSE index.entry[p].oid
      BY <1>1 DEF CommandInv, StagedOf, Locked, Read
    <3> QED BY <1>1, <1>4, <1>5, <1>7, <1>8, <3>1 DEF StagedOf
  <2> QED BY <2>1, <2>2, <2>3, <2>4, <2>5, <2>6 DEF CommandInv
<1>12. ASSUME NEW d \in Commands, d /= c PROVE CommandInv(d)'
  BY <1>1, <1>5, <1>12, Unmoved DEF IInv, CommandInv, ControlOf
<1> QED BY <1>9, <1>10, <1>11, <1>12 DEF IInv

LEMMA FinalizeStep ==
    ASSUME IInv, NEW c \in Commands, finalize_hashfile(c)
    PROVE  IInv'
<1> DEFINE new == istate'[c]
<1>1. /\ pc[c] = "close" /\ CommandInv(c)
      /\ istate' = [istate EXCEPT ![c].timestamp = clock, ![c].oid = Hash(istate[c].entry)]
      /\ pc' = [pc EXCEPT ![c] = "commit"]
      /\ UNCHANGED <<clock, file, index, lock, kind, target, seen>>
  BY DEF IInv, finalize_hashfile, shared, Goto
<1>2. istate[c] \in IState /\ clock \in Nat /\ clock >= 1 /\ Hash(istate[c].entry) \in SUBSET Entries
  BY DEF IInv, DiskInv, TypeOK, IState, Hash
<1>3. /\ new.entry = istate[c].entry /\ new.timestamp = clock
      /\ new.uptodate = istate[c].uptodate /\ new \in IState
      /\ \A d \in Commands : d /= c => istate'[d] = istate[d] /\ pc'[d] = pc[d]
      /\ pc'[c] = "commit"
      /\ istate' = [istate EXCEPT ![c] = new]
  BY Zenon, <1>1, <1>2 DEF IInv, TypeOK, IState
<1> HIDE DEF new
<1>4. istate'[c] = new
  BY DEF new
<1>5. TypeOK'
  <2>1. istate' \in [Commands -> IState]
    BY <1>3 DEF IInv, TypeOK
  <2> QED BY <1>1, <2>1 DEF IInv, TypeOK
<1>6. DiskInv'
  BY <1>1 DEF IInv, DiskInv
<1>7. CommandInv(c)'
  <2>1. ControlOf(c)'
    BY <1>1, <1>3, <1>4 DEF CommandInv, ControlOf, Locked
  <2>2. TimeOf(c)'
    BY <1>1, <1>2, <1>3, <1>4 DEF TimeOf
  <2>3. StatOf(c)'
    BY Zenon, <1>1, <1>3, <1>4 DEF CommandInv, StatOf, ShowsOrRacy, Read
  <2>4. UptodateOf(c)'
    BY Zenon, <1>1, <1>3, <1>4 DEF CommandInv, UptodateOf
  <2>5. BaseOf(c)'
    BY <1>3 DEF BaseOf
  <2>6. StagedOf(c)'
    BY <1>1, <1>3, <1>4 DEF CommandInv, StagedOf, Locked, Read
  <2> QED BY <2>1, <2>2, <2>3, <2>4, <2>5, <2>6 DEF CommandInv
<1>8. ASSUME NEW d \in Commands, d /= c PROVE CommandInv(d)'
  BY Zenon, <1>1, <1>3, <1>8, Unmoved DEF IInv, CommandInv, ControlOf
<1> QED BY <1>5, <1>6, <1>7, <1>8 DEF IInv

(* The new index stages what the old one did, but for the path of an add,  *)
(* where it stages what the file holds.                                    *)
LEMMA Committed ==
    ASSUME IInv, NEW c \in Commands, commit_locked_index(c), NEW p \in Paths
    PROVE  index'.entry[p].oid = IF kind[c] = "add" /\ p = target[c]
                                   THEN file[p].content
                                   ELSE index.entry[p].oid
<1>1. pc[c] = "commit" /\ CommandInv(c) /\ index'.entry = istate[c].entry
  BY DEF IInv, commit_locked_index
<1>2. Read(c) /\ Locked(c)
  BY <1>1 DEF Read, Locked
<1> QED BY <1>1, <1>2 DEF CommandInv, StagedOf

LEMMA CommitStep ==
    ASSUME IInv, NEW c \in Commands, commit_locked_index(c)
    PROVE  IInv'
<1>1. /\ pc[c] = "commit" /\ CommandInv(c) /\ lock = c
      /\ index' = [entry |-> istate[c].entry, timestamp |-> istate[c].timestamp]
      /\ Finish(c)
      /\ lock' = None
      /\ UNCHANGED <<clock, file>>
  BY Zenon DEF IInv, commit_locked_index, CommandInv, ControlOf, Locked
<1>2. TypeOK'
  BY <1>1, Finished DEF IInv, TypeOK, IState
<1>3. DiskInv'
  <2>1. istate[c].timestamp \in 1 .. clock
    BY Zenon, <1>1 DEF CommandInv, TimeOf, Read
  <2>2. \A p \in Paths : ShowsOrRacy(istate[c].timestamp, istate[c].entry[p], file[p])
    BY Zenon, <1>1 DEF CommandInv, StatOf, Read
  <2> QED BY Zenon, <1>1, <2>1, <2>2 DEF IInv, DiskInv
<1>4. CommandInv(c)'
  BY <1>1, Finished DEF IInv
<1>5. ASSUME NEW d \in Commands, d /= c PROVE CommandInv(d)'
  <2>1. /\ CommandInv(d) /\ ~Locked(d) /\ istate[d] \in IState
        /\ UNCHANGED <<pc[d], kind[d], target[d], istate[d], seen[d], clock, file>>
    BY Zenon, <1>1, <1>5 DEF IInv, TypeOK, CommandInv, ControlOf, Finish, Goto
  <2>2. ControlOf(d)' /\ TimeOf(d)' /\ StatOf(d)' /\ BaseOf(d)' /\ StagedOf(d)'
    <3>1. ControlOf(d)'
      BY Zenon, <2>1 DEF CommandInv, ControlOf, Locked
    <3>2. TimeOf(d)'
      BY <2>1 DEF CommandInv, TimeOf, Read
    <3>3. StatOf(d)'
      BY Zenon, <2>1 DEF CommandInv, StatOf, Read
    <3>4. BaseOf(d)'
      BY Zenon, <2>1 DEF CommandInv, BaseOf
    <3>5. StagedOf(d)'
      BY Zenon, <2>1 DEF CommandInv, StagedOf, Locked, Read
    <3> QED BY <3>1, <3>2, <3>3, <3>4, <3>5
  <2>3. UptodateOf(d)'
    <3> SUFFICES ASSUME NEW q \in istate[d].uptodate
                 PROVE  \/ istate[d].entry[q].oid = file[q].content
                        \/ /\ kind[d] = "status"
                           /\ pc[d] \in {"refresh", "hold", "update"}
                           /\ index'.entry[q].oid = file[q].content
      BY <2>1 DEF UptodateOf
    <3>1. q \in Paths
      BY Zenon, <2>1 DEF IState
    <3>2. index'.entry[q].oid \in {file[q].content, index.entry[q].oid}
      BY <3>1, Committed
    <3> QED BY Zenon, <2>1, <3>2 DEF CommandInv, UptodateOf
  <2> QED BY <2>2, <2>3 DEF CommandInv
<1> QED BY <1>2, <1>3, <1>4, <1>5 DEF IInv

-----------------------------------------------------------------------------
(* The invariant holds.                                                    *)

LEMMA InitInv == ASSUME Init PROVE IInv
<1>1. Discarded \in IState
  BY Zenon, ContentsAssumption DEF Discarded, IState, Entries, Entry
<1>2. TypeOK
  <2>1. file \in [Paths -> File]
    BY DEF Init, File
  <2>2. index \in [entry : Entries, timestamp : Nat]
    BY <2>1, ContentsAssumption DEF Init, Entries, Entry, File
  <2> QED BY <1>1, <2>1, <2>2 DEF Init, TypeOK, Kind
<1>3. DiskInv
  BY DEF Init, DiskInv, ShowsOrRacy
<1>4. ASSUME NEW c \in Commands PROVE CommandInv(c)
  <2>1. pc[c] = "idle" /\ kind[c] = "status" /\ target[c] = None /\ seen[c] = {} /\ istate[c].uptodate = {}
    BY DEF Init, Discarded
  <2> QED BY <2>1, NoneAssumption DEF CommandInv, ControlOf, TimeOf, StatOf, UptodateOf, BaseOf, StagedOf, Locked, Read
<1> QED BY <1>2, <1>3, <1>4 DEF IInv

LEMMA Inductive ==
    ASSUME ~SkipHash, IInv, [Next]_vars
    PROVE  IInv'
<1>1. CASE Tick
  BY <1>1, TickStep
<1>2. ASSUME NEW p \in Paths, NEW x \in Contents, Edit(p, x) PROVE IInv'
  BY <1>2, EditStep
<1>3. ASSUME NEW c \in Commands, Step(c) PROVE IInv'
  BY <1>3, HoldStep, LockIsTakenStep, ReadStep, RefreshStep, RefreshDoneStep, AddStep,
     CheckoutStep, UpdateStep, SkipStep, WriteStep, FinalizeStep, CommitStep, WriteFailsStep
  DEF Step
<1>4. CASE UNCHANGED vars
  <2>1. TypeOK' /\ DiskInv'
    BY <1>4 DEF IInv, TypeOK, DiskInv, vars, shared, private
  <2>2. ASSUME NEW d \in Commands PROVE CommandInv(d)'
    BY Zenon, <1>4, Unmoved DEF IInv, CommandInv, ControlOf, vars, shared, private
  <2> QED BY <2>1, <2>2 DEF IInv
<1> QED BY <1>1, <1>2, <1>3, <1>4 DEF Next

(***************************************************************************)
(* IInv is an invariant of an index that ends with its hash.               *)
(***************************************************************************)
THEOREM IndexInvariant == ASSUME ~SkipHash PROVE Spec => []IInv
<1>1. Init => IInv
  BY InitInv
<1>2. IInv /\ [Next]_vars => IInv'
  BY Inductive
<1> QED BY <1>1, <1>2, PTL DEF Spec

(***************************************************************************)
(* No modification of the work tree is ever hidden by the stat information *)
(* that the index caches, for any number of paths and commands and however *)
(* the edits, the commands and the seconds interleave.                     *)
(***************************************************************************)
THEOREM ModificationsAlwaysSeen == ASSUME ~SkipHash PROVE Spec => []ModificationsAreSeen
<1>1. IInv => ModificationsAreSeen
  <2> SUFFICES ASSUME IInv, NEW p \in Paths,
                      ie_match_stat(index.timestamp, index.entry[p], file[p], FALSE) = {}
               PROVE  file[p].content = index.entry[p].oid
    BY Zenon DEF ModificationsAreSeen
  <2>1. /\ index.timestamp \in Nat /\ index.timestamp >= 1
        /\ index.entry[p] \in Entry /\ file[p] \in File
        /\ ShowsOrRacy(index.timestamp, index.entry[p], file[p])
    BY DEF IInv, TypeOK, DiskInv, Entries
  <2> QED BY Zenon, <2>1, MatchIsUnmodified
<1> QED BY <1>1, IndexInvariant, PTL

(* A step that is not a commit leaves the index alone.                     *)
LEMMA OnlyCommitsWrite ==
    ASSUME [Next]_vars, index' /= index
    PROVE  \E c \in Commands : commit_locked_index(c)
<1>1. ASSUME NEW c \in Commands, Step(c), ~commit_locked_index(c) PROVE index' = index
  BY Zenon, <1>1 DEF Step, repo_hold_locked_index, LockIsTaken, do_read_index, refresh_cache_ent,
     refresh_index_done, add_to_index, checkout_entry, repo_update_index_if_able,
     SkipIfUnchanged, do_write_index, finalize_hashfile, WriteFails, rollback_lock_file, shared
<1> QED BY Zenon, <1>1 DEF Next, Tick, Edit, vars, shared

(***************************************************************************)
(* What an add has staged stays staged until an add of the same path: no   *)
(* opportunistic refresh, written from an index read before the lock was   *)
(* taken, undoes it.                                                       *)
(***************************************************************************)
THEOREM StagingIsKept == ASSUME ~SkipHash PROVE Spec => StagingIsNeverUndone
<1>1. IInv /\ [Next]_vars =>
        [Staged' /= Staged =>
           \E c \in Commands :
              /\ kind[c] = "add"
              /\ pc[c] = "commit"
              /\ Staged' = [Staged EXCEPT ![target[c]] = file[target[c]].content]]_vars
  <2> SUFFICES ASSUME IInv, [Next]_vars, Staged' /= Staged
               PROVE  \E c \in Commands :
                        /\ kind[c] = "add"
                        /\ pc[c] = "commit"
                        /\ Staged' = [Staged EXCEPT ![target[c]] = file[target[c]].content]
    OBVIOUS
  <2>1. PICK c \in Commands : commit_locked_index(c)
    BY Zenon, OnlyCommitsWrite DEF Staged
  <2>2. pc[c] = "commit"
    BY Zenon, <2>1 DEF commit_locked_index
  <2>3. \A p \in Paths : Staged'[p] = IF kind[c] = "add" /\ p = target[c]
                                       THEN file[p].content ELSE Staged[p]
    BY <2>1, Committed DEF Staged
  <2>4. kind[c] = "add"
    BY <2>3 DEF Staged
  <2>5. Staged' = [Staged EXCEPT ![target[c]] = file[target[c]].content]
    BY Zenon, <2>3, <2>4 DEF Staged
  <2> QED BY Zenon, <2>2, <2>4, <2>5
<1> QED BY <1>1, IndexInvariant, PTL DEF Spec, StagingIsNeverUndone
=============================================================================
