------------------------------- MODULE Index -------------------------------
(***************************************************************************)
(* The index file, the stat information it caches and the commands that    *)
(* read, refresh and rewrite it while the user edits the work tree         *)
(* (read-cache.c, statinfo.c, builtin/add.c, builtin/commit.c,             *)
(* builtin/diff.c, builtin/checkout.c, entry.c).                           *)
(*                                                                         *)
(* An entry says what is staged for a path and what lstat(2) said of its   *)
(* file.  Time is counted in seconds, the resolution read-cache.c compares *)
(* unless it is built with USE_NSEC, so that an edit can leave the whole   *)
(* stat information as it was.  The index's own mtime tells which entries  *)
(* that can have happened to.                                              *)
(*                                                                         *)
(* A command takes a step for each lock it takes, file it reads and path   *)
(* it looks at, and the clock, the user and other commands move in         *)
(* between.  The paths are regular files that are never removed.           *)
(***************************************************************************)
EXTENDS Naturals

CONSTANTS
    Paths,
    Commands,   \* the commands that can run at the same time
    None,       \* no command, no path
    Contents,   \* what a file may hold: its blob's object id stands for it
    Empty,      \* the empty blob
    Size,       \* the size of each, as munge_st_size has it
    SkipHash,   \* index.skipHash
    MaxTime     \* the last second of a behaviour

ASSUME NoneAssumption == None \notin Commands /\ None \notin Paths
ASSUME ContentsAssumption ==
    /\ Empty \in Contents
    /\ Size \in [Contents -> Nat]
    /\ \A x \in Contents : Size[x] = 0 <=> x = Empty
ASSUME SkipHashAssumption == SkipHash \in BOOLEAN
ASSUME MaxTimeAssumption == MaxTime \in Nat

File    == [content : Contents, mtime : Nat]
Entry   == [oid : Contents, mtime : Nat, size : Nat]
Entries == [Paths -> Entry]
Kind    == {"status", "diff", "add", "checkout"}

VARIABLES
    clock,      \* the time, in seconds
    file,       \* the work tree
    index,      \* .git/index: its entries and its mtime
    lock,       \* who holds .git/index.lock
    pc,         \* where each command is
    kind,       \* which command it is
    target,     \* the path given to add and checkout
    istate,     \* its struct index_state
    seen        \* the paths it has called lstat(2) on

shared  == <<clock, file, index, lock>>
private == <<pc, kind, target, istate, seen>>
vars    == <<shared, private>>

(* What the hash at the end of the index file is computed from: with       *)
(* index.skipHash, of nothing.                                             *)
Hash(entries) == IF SkipHash THEN {} ELSE {entries}

IState == [entry : Entries, timestamp : Nat, oid : SUBSET Entries,
           uptodate : SUBSET Paths, cache_changed : BOOLEAN]

TypeOK ==
    /\ clock \in Nat
    /\ file \in [Paths -> File]
    /\ index \in [entry : Entries, timestamp : Nat]
    /\ lock \in Commands \cup {None}
    /\ pc \in [Commands -> {"idle", "hold", "read", "refresh", "add", "checkout",
                            "update", "write", "close", "commit"}]
    /\ kind \in [Commands -> Kind]
    /\ target \in [Commands -> Paths \cup {None}]
    /\ istate \in [Commands -> IState]
    /\ seen \in [Commands -> SUBSET Paths]

(* An index_state that has not been read into.                             *)
Discarded ==
    [entry |-> [p \in Paths |-> [oid |-> Empty, mtime |-> 0, size |-> 0]],
     timestamp |-> 0, oid |-> {}, uptodate |-> {}, cache_changed |-> FALSE]

(* A clean work tree, checked out in the second the index was written in.  *)
Init ==
    /\ clock = 1
    /\ file \in [Paths -> [content : Contents, mtime : {1}]]
    /\ index = [entry |-> [p \in Paths |-> [oid |-> file[p].content, mtime |-> 1,
                                            size |-> Size[file[p].content]]],
                timestamp |-> 1]
    /\ lock = None
    /\ pc = [c \in Commands |-> "idle"]
    /\ kind = [c \in Commands |-> "status"]
    /\ target = [c \in Commands |-> None]
    /\ istate = [c \in Commands |-> Discarded]
    /\ seen = [c \in Commands |-> {}]

-----------------------------------------------------------------------------
(* Comparing an entry with its file.                                       *)

ce_match_stat_basic(ce, f) ==
    (IF ce.mtime /= f.mtime THEN {"MTIME_CHANGED"} ELSE {})
    \cup
    (IF \/ ce.size /= Size[f.content]
        \/ ce.size = 0 /\ ce.oid /= Empty      \* racily smudged
       THEN {"DATA_CHANGED"}
       ELSE {})

ce_modified_check_fs(ce, f) == ce.oid /= f.content

is_racy_timestamp(timestamp, ce) == timestamp > 0 /\ timestamp <= ce.mtime

ie_match_stat(timestamp, ce, f, assume_racy_is_modified) ==
    LET changed == ce_match_stat_basic(ce, f)
    IN  IF /\ changed = {}
           /\ is_racy_timestamp(timestamp, ce)
           /\ assume_racy_is_modified \/ ce_modified_check_fs(ce, f)
          THEN {"DATA_CHANGED"}
          ELSE changed

ie_modified(timestamp, ce, f) ==
    LET changed == ie_match_stat(timestamp, ce, f, FALSE)
    IN  /\ changed /= {}
        /\ \/ "DATA_CHANGED" \in changed /\ ce.size /= 0
           \/ ce_modified_check_fs(ce, f)

(* The entry with the stat information of the file.                        *)
fill_stat_data(ce, f) == [ce EXCEPT !.mtime = f.mtime, !.size = Size[f.content]]

(* An entry whose stat information matches a file with other contents gets *)
(* a size no such file has.                                                *)
ce_smudge_racily_clean_entry(ce, f) ==
    IF ce_match_stat_basic(ce, f) = {} /\ ce_modified_check_fs(ce, f)
      THEN [ce EXCEPT !.size = 0]
      ELSE ce

-----------------------------------------------------------------------------
(* The world: the clock, and a user who edits any file that no running     *)
(* command has looked at.                                                  *)

Tick ==
    /\ clock < MaxTime
    /\ clock' = clock + 1
    /\ UNCHANGED <<file, index, lock, private>>

Edit(p, x) ==
    /\ \A c \in Commands : p \notin seen[c]
    /\ file' = [file EXCEPT ![p] = [content |-> x, mtime |-> clock]]
    /\ UNCHANGED <<clock, index, lock, private>>

-----------------------------------------------------------------------------
(* The commands.  status reads the index before it takes the lock, the     *)
(* others after it.                                                        *)

Goto(c, l) == pc' = [pc EXCEPT ![c] = l]

(* The command ends or goes on without touching the index again.           *)
Finish(c) ==
    /\ Goto(c, "idle")
    /\ istate' = [istate EXCEPT ![c] = Discarded]
    /\ seen' = [seen EXCEPT ![c] = {}]
    /\ kind' = [kind EXCEPT ![c] = "status"]
    /\ target' = [target EXCEPT ![c] = None]

(* Another command holds the lock: status does without writing the index,  *)
(* the other commands do not start.                                        *)
LockIsTaken(c) ==
    /\ pc[c] = "hold"
    /\ lock /= None
    /\ Finish(c)
    /\ UNCHANGED shared

repo_hold_locked_index(c) ==
    /\ lock = None
    /\ lock' = c
    /\ \/ /\ pc[c] = "hold"
          /\ Goto(c, "update")
          /\ UNCHANGED <<kind, target>>
       \/ /\ pc[c] = "idle"
          /\ Goto(c, "read")
          /\ \/ /\ kind' = [kind EXCEPT ![c] = "diff"]
                /\ UNCHANGED target
             \/ \E k \in {"add", "checkout"}, p \in Paths :
                   /\ kind' = [kind EXCEPT ![c] = k]
                   /\ target' = [target EXCEPT ![c] = p]
    /\ UNCHANGED <<clock, file, index, istate, seen>>

do_read_index(c) ==
    /\ pc[c] \in {"idle", "read"}
    /\ istate' = [istate EXCEPT ![c] =
                    [entry |-> index.entry, timestamp |-> index.timestamp,
                     oid |-> Hash(index.entry), uptodate |-> {}, cache_changed |-> FALSE]]
    /\ Goto(c, IF kind[c] \in {"status", "diff"} THEN "refresh" ELSE kind[c])
    /\ UNCHANGED <<shared, kind, target, seen>>

(* One path of refresh_index.  preload_index's threads visit the paths in  *)
(* no order.                                                               *)
refresh_cache_ent(c, p) ==
    LET ce      == istate[c].entry[p]
        matches == ie_match_stat(istate[c].timestamp, ce, file[p], FALSE) = {}
        updated == ~matches /\ ~ie_modified(istate[c].timestamp, ce, file[p])
    IN  /\ pc[c] = "refresh"
        /\ p \notin seen[c]
        /\ istate' = [istate EXCEPT
                        ![c].uptodate = IF matches \/ updated THEN @ \cup {p} ELSE @,
                        ![c].entry[p] = IF updated THEN fill_stat_data(@, file[p]) ELSE @,
                        ![c].cache_changed = @ \/ updated]
        /\ seen' = [seen EXCEPT ![c] = @ \cup {p}]
        /\ UNCHANGED <<shared, pc, kind, target>>

refresh_index_done(c) ==
    /\ pc[c] = "refresh"
    /\ seen[c] = Paths
    /\ Goto(c, IF kind[c] = "status" THEN "hold" ELSE "update")
    /\ UNCHANGED <<shared, kind, target, istate, seen>>

add_to_index(c) ==
    LET p       == target[c]
        ce      == istate[c].entry[p]
        matches == ie_match_stat(istate[c].timestamp, ce, file[p], TRUE) = {}
    IN  /\ pc[c] = "add"
        /\ istate' = [istate EXCEPT
                        ![c].uptodate = @ \cup {p},
                        ![c].entry[p] = IF matches THEN @
                                        ELSE fill_stat_data([@ EXCEPT !.oid = file[p].content],
                                                            file[p]),
                        ![c].cache_changed = @ \/ ~matches]
        /\ seen' = [seen EXCEPT ![c] = @ \cup {p}]
        /\ Goto(c, "write")
        /\ UNCHANGED <<shared, kind, target>>

(* The path's file gets the staged contents, unless it matches already.    *)
checkout_entry(c) ==
    LET p       == target[c]
        ce      == istate[c].entry[p]
        matches == ie_match_stat(istate[c].timestamp, ce, file[p], FALSE) = {}
        written == [content |-> ce.oid, mtime |-> clock]
    IN  /\ pc[c] = "checkout"
        /\ IF matches
             THEN UNCHANGED <<file, istate>>
             ELSE /\ file' = [file EXCEPT ![p] = written]
                  /\ istate' = [istate EXCEPT
                                  ![c].entry[p] = fill_stat_data(@, written),
                                  ![c].uptodate = @ \cup {p},
                                  ![c].cache_changed = TRUE]
        /\ seen' = [seen EXCEPT ![c] = @ \cup {p}]
        /\ Goto(c, "write")
        /\ UNCHANGED <<clock, index, lock, kind, target>>

-----------------------------------------------------------------------------
(* Writing the index.                                                      *)

rollback_lock_file(c) ==
    /\ lock' = None
    /\ Finish(c)
    /\ UNCHANGED <<clock, file, index>>

has_racy_timestamp(c) ==
    \E p \in Paths : is_racy_timestamp(istate[c].timestamp, istate[c].entry[p])

(* Mutant: the index file only has to be there.                            *)
verify_index_exists(c) == istate[c].timestamp <= index.timestamp

verify_index_from(c) == istate[c].oid = Hash(index.entry)

repo_update_index_if_able(c) ==
    /\ pc[c] = "update"
    /\ IF (istate[c].cache_changed \/ has_racy_timestamp(c)) /\ verify_index_from(c)
         THEN /\ Goto(c, "write")
              /\ UNCHANGED <<shared, kind, target, istate, seen>>
         ELSE rollback_lock_file(c)

(* write_locked_index as add calls it, with SKIP_IF_UNCHANGED.             *)
SkipIfUnchanged(c) ==
    /\ pc[c] = "write"
    /\ kind[c] = "add"
    /\ ~istate[c].cache_changed
    /\ rollback_lock_file(c)

(* The entries do_write_index calls ce_smudge_racily_clean_entry for.      *)
Suspects(c) ==
    {p \in Paths \ istate[c].uptodate :
        is_racy_timestamp(istate[c].timestamp, istate[c].entry[p])}

(* Mutant: the entries are written as they are.                            *)
do_write_index_unsmudged(c) ==
    /\ pc[c] = "write"
    /\ kind[c] = "add" => istate[c].cache_changed
    /\ Goto(c, "close")
    /\ UNCHANGED <<shared, kind, target, istate, seen>>

(* The entries are written out.                                            *)
do_write_index(c) ==
    /\ pc[c] = "write"
    /\ kind[c] = "add" => istate[c].cache_changed
    /\ istate' = [istate EXCEPT ![c].entry =
                    [p \in Paths |-> IF p \in Suspects(c)
                                       THEN ce_smudge_racily_clean_entry(@[p], file[p])
                                       ELSE @[p]]]
    /\ seen' = [seen EXCEPT ![c] = @ \cup Suspects(c)]
    /\ Goto(c, "close")
    /\ UNCHANGED <<shared, kind, target>>

(* The hash is appended and the file closed: its mtime is now.             *)
finalize_hashfile(c) ==
    /\ pc[c] = "close"
    /\ istate' = [istate EXCEPT ![c].timestamp = clock, ![c].oid = Hash(istate[c].entry)]
    /\ Goto(c, "commit")
    /\ UNCHANGED <<shared, kind, target, seen>>

(* index.lock is renamed to index.                                         *)
commit_locked_index(c) ==
    /\ pc[c] = "commit"
    /\ index' = [entry |-> istate[c].entry, timestamp |-> istate[c].timestamp]
    /\ lock' = None
    /\ Finish(c)
    /\ UNCHANGED <<clock, file>>

WriteFails(c) ==
    /\ pc[c] \in {"close", "commit"}
    /\ rollback_lock_file(c)

-----------------------------------------------------------------------------
Step(c) ==
    \/ repo_hold_locked_index(c)
    \/ LockIsTaken(c)
    \/ do_read_index(c)
    \/ \E p \in Paths : refresh_cache_ent(c, p)
    \/ refresh_index_done(c)
    \/ add_to_index(c)
    \/ checkout_entry(c)
    \/ repo_update_index_if_able(c)
    \/ SkipIfUnchanged(c)
    \/ do_write_index(c)
    \/ finalize_hashfile(c)
    \/ commit_locked_index(c)
    \/ WriteFails(c)

Next ==
    \/ Tick
    \/ \E p \in Paths, x \in Contents : Edit(p, x)
    \/ \E c \in Commands : Step(c)

Spec == Init /\ [][Next]_vars

-----------------------------------------------------------------------------
(***************************************************************************)
(* A file whose contents are not the staged ones is never taken for        *)
(* unmodified: whatever commands ran, and however quickly the edits        *)
(* followed them, ie_match_stat called on the index file by a command that *)
(* starts now reports the change.                                          *)
(***************************************************************************)
ModificationsAreSeen ==
    \A p \in Paths :
        ie_match_stat(index.timestamp, index.entry[p], file[p], FALSE) = {}
            => file[p].content = index.entry[p].oid

Staged == [p \in Paths |-> index.entry[p].oid]

(***************************************************************************)
(* What is staged for a path changes only when an add of that path commits *)
(* the index, and then to what the file holds.  A refresh that status or   *)
(* diff write out on the side never brings back what was staged when they  *)
(* read the index, and no command undoes another's add.                    *)
(***************************************************************************)
StagingIsNeverUndone ==
    [][Staged' /= Staged =>
         \E c \in Commands :
            /\ kind[c] = "add"
            /\ pc[c] = "commit"
            /\ Staged' = [Staged EXCEPT ![target[c]] = file[target[c]].content]]_vars
=============================================================================
