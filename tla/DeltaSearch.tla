---------------------------- MODULE DeltaSearch ----------------------------
(***************************************************************************)
(* The threaded delta search of pack-objects (builtin/pack-objects.c):     *)
(* ll_find_deltas and ll_find_deltas_by_region, with their worker threads. *)
(*                                                                         *)
(* The main thread splits the list of work among the workers.  A worker    *)
(* that runs dry clears its "working" flag and sleeps; the main thread     *)
(* steals half of what is left from the worker that has most, hands it     *)
(* over and sets "data_ready".  A worker that is handed nothing exits and  *)
(* is joined.                                                              *)
(*                                                                         *)
(* A step is one critical section of progress_mutex or of a worker's own   *)
(* mutex, or a read of shared state outside both.  The search for a delta  *)
(* itself touches nothing the threads share and is left out: what matters  *)
(* is which thread takes which element of the list.                        *)
(***************************************************************************)
EXTENDS Naturals, FiniteSets

CONSTANTS
    N,          \* the length of the list
    Threads,    \* delta_search_threads
    Window,     \* the window argument of the search
    Inputs      \* the lists: name hashes and the elements only used as bases

ASSUME SizeAssumption == N \in Nat /\ Threads \in Nat \ {0, 1} /\ Window \in Nat \ {0}

Index  == 0 .. N - 1
Thread == 0 .. Threads - 1

ASSUME InputAssumption == Inputs \subseteq [hash : [Index -> Nat], preferred : SUBSET Index]

VARIABLES
    input,          \* the list
    by_region,      \* whether the elements are regions (ll_find_deltas_by_region)
    list,           \* p[t].list or p[t].regions
    list_size,      \* p[t].list_size
    remaining,      \* p[t].remaining
    working,        \* p[t].working
    data_ready,     \* p[t].data_ready
    pc,             \* where each worker is
    cursor,         \* find_deltas's own copy of the list pointer
    taken,          \* how often each element was taken up
    processed,      \* the counter behind the processed argument
    mpc,            \* where the main thread is
    i,              \* its loop counter
    first,          \* its list or regions pointer
    left,           \* its list_size or nr
    target,         \* the idle worker it serves
    sub_size,       \* what it hands over
    active          \* the threads started and not joined (active_threads counts them)

params == <<list, list_size, remaining, working, data_ready>>
worker == <<pc, cursor, taken, processed>>
main   == <<mpc, i, first, left, target, sub_size, active>>
vars   == <<input, by_region, params, worker, main>>

WorkerPC == {"absent", "check", "call", "take", "stop", "region", "await", "asleep", "exited"}
MainPC   == {"partition", "start", "scan", "asleep", "give", "join", "done"}

TypeOK ==
    /\ input \in Inputs
    /\ by_region \in BOOLEAN
    /\ list \in [Thread -> Nat]
    /\ list_size \in [Thread -> Nat]
    /\ remaining \in [Thread -> Nat]
    /\ working \in [Thread -> BOOLEAN]
    /\ data_ready \in [Thread -> BOOLEAN]
    /\ pc \in [Thread -> WorkerPC]
    /\ cursor \in [Thread -> Nat]
    /\ taken \in [Index -> Nat]
    /\ processed \in Nat
    /\ mpc \in MainPC
    /\ i \in 0 .. Threads
    /\ first \in Nat
    /\ left \in Nat
    /\ target \in Thread
    /\ sub_size \in Nat
    /\ active \in SUBSET Thread

Init ==
    /\ input \in Inputs
    /\ by_region \in BOOLEAN
    /\ list = [t \in Thread |-> 0]
    /\ list_size = [t \in Thread |-> 0]
    /\ remaining = [t \in Thread |-> 0]
    /\ working = [t \in Thread |-> FALSE]
    /\ data_ready = [t \in Thread |-> FALSE]
    /\ pc = [t \in Thread |-> "absent"]
    /\ cursor = [t \in Thread |-> 0]
    /\ taken = [e \in Index |-> 0]
    /\ processed = 0
    /\ mpc = "partition"
    /\ i = 0
    /\ first = 0
    /\ left = N
    /\ target = 0
    /\ sub_size = 0
    /\ active = {}

(***************************************************************************)
(* Whether the list may be cut in front of element e: never inside a run   *)
(* of objects whose paths have the same hash.                              *)
(***************************************************************************)
PathBoundary(e) ==
    \/ input.hash[e] = 0
    \/ input.hash[e] /= input.hash[e - 1]

-----------------------------------------------------------------------------
(* The main thread splits the list.                                        *)

(* Worker i's share before it is moved to a path boundary. *)
EvenShare ==
    LET size == left \div (Threads - i)
    IN  IF ~by_region /\ size < 2 * Window /\ i + 1 < Threads THEN 0 ELSE size

(* Its share: the list is cut at the first boundary at or after it.        *)
IsShare(size) ==
    IF by_region \/ EvenShare = 0
      THEN size = EvenShare
      ELSE /\ size >= EvenShare
           /\ size < left => PathBoundary(first + size)
           /\ \A k \in EvenShare .. size - 1 : ~PathBoundary(first + k)

Partition ==
    /\ mpc = "partition" /\ i < Threads
    /\ \E size \in 0 .. left :
          /\ IsShare(size)
          /\ list' = [list EXCEPT ![i] = first]
          /\ list_size' = [list_size EXCEPT ![i] = size]
          /\ remaining' = [remaining EXCEPT ![i] = size]
          /\ first' = first + size
          /\ left' = left - size
    /\ working' = [working EXCEPT ![i] = TRUE]
    /\ data_ready' = [data_ready EXCEPT ![i] = FALSE]
    /\ i' = i + 1
    /\ UNCHANGED <<input, by_region, worker, mpc, target, sub_size, active>>

StartThreads ==
    /\ mpc = "partition" /\ i = Threads
    /\ mpc' = "start"
    /\ i' = 0
    /\ UNCHANGED <<input, by_region, params, worker, first, left, target, sub_size, active>>

(* A worker without a share is never started. *)
StartThread ==
    /\ mpc = "start" /\ i < Threads
    /\ IF list_size[i] = 0
         THEN UNCHANGED <<pc, active>>
         ELSE pc' = [pc EXCEPT ![i] = "check"] /\ active' = active \cup {i}
    /\ i' = i + 1
    /\ UNCHANGED <<input, by_region, params, cursor, taken, processed,
                   mpc, first, left, target, sub_size>>

(* The head of the loop: while (active_threads). *)
NextRound == IF active = {} THEN "done" ELSE "scan"

AllStarted ==
    /\ mpc = "start" /\ i = Threads
    /\ mpc' = NextRound
    /\ UNCHANGED <<input, by_region, params, worker, i, first, left, target, sub_size, active>>

-----------------------------------------------------------------------------
(* The main thread steals work for an idle worker.                         *)

(* The first worker that stopped working. *)
IsTarget(t) == ~working[t] /\ \A u \in 0 .. t - 1 : working[u]

(* The first of the workers with most work left, if that is worth splitting. *)
IsVictim(v) ==
    /\ remaining[v] > 2 * Window
    /\ \A u \in Thread : remaining[u] <= remaining[v]
    /\ \A u \in 0 .. v - 1 : remaining[u] < remaining[v]

(***************************************************************************)
(* How much of the end of the victim's list is stolen: half of it, less    *)
(* what must stay with the path in front of the cut; or exactly half when  *)
(* there is no boundary.  Regions are split anywhere.                      *)
(***************************************************************************)
IsStolen(v, size) ==
    LET half == remaining[v] \div 2
        end  == list[v] + list_size[v]
    IN  IF by_region \/ \A k \in 1 .. half : ~PathBoundary(end - k)
          THEN size = half
          ELSE /\ PathBoundary(end - size)
               /\ \A k \in size + 1 .. half : ~PathBoundary(end - k)

(* Mutant: the start is not moved along with the size to the boundary. *)
StolenFromHalf(v, size) ==
    IF by_region THEN list[v] + remaining[v] - size ELSE list[v] + list_size[v] - remaining[v] \div 2

(* Where the stolen part starts. *)
StolenFrom(v, size) ==
    IF by_region THEN list[v] + remaining[v] - size ELSE list[v] + list_size[v] - size

(* Mutant: the victim's own count is not reduced. *)
StealKeepingCount(t, v, size) ==
    /\ list' = [list EXCEPT ![t] = StolenFrom(v, size)]
    /\ list_size' = [list_size EXCEPT ![v] = @ - size, ![t] = size]
    /\ remaining' = [remaining EXCEPT ![t] = size]
    /\ sub_size' = size

Steal(t, v, size) ==
    /\ list' = [list EXCEPT ![t] = StolenFrom(v, size)]
    /\ list_size' = [list_size EXCEPT ![v] = @ - size, ![t] = size]
    /\ remaining' = [remaining EXCEPT ![v] = @ - size, ![t] = size]
    /\ sub_size' = size

NothingToSteal(t) ==
    /\ list_size' = [list_size EXCEPT ![t] = 0]
    /\ remaining' = [remaining EXCEPT ![t] = 0]
    /\ sub_size' = 0
    /\ UNCHANGED list

(* One critical section of progress_mutex, up to its unlock. *)
ServeIdle ==
    /\ mpc = "scan"
    /\ \E t \in Thread :
          /\ IsTarget(t)
          /\ \/ \E v \in Thread :
                  /\ IsVictim(v)
                  /\ \E size \in 1 .. remaining[v] \div 2 : IsStolen(v, size) /\ Steal(t, v, size)
             \/ /\ \A v \in Thread : remaining[v] <= 2 * Window
                /\ NothingToSteal(t)
          /\ working' = [working EXCEPT ![t] = TRUE]
          /\ target' = t
    /\ mpc' = "give"
    /\ UNCHANGED <<input, by_region, data_ready, worker, i, first, left, active>>

(* Nobody is idle: pthread_cond_wait on progress_cond. *)
WaitForIdle ==
    /\ mpc = "scan"
    /\ \A t \in Thread : working[t]
    /\ mpc' = "asleep"
    /\ UNCHANGED <<input, by_region, params, worker, i, first, left, target, sub_size, active>>

(* The target's own mutex: data_ready is set and its condition signalled.  *)
Give ==
    /\ mpc = "give"
    /\ data_ready' = [data_ready EXCEPT ![target] = TRUE]
    /\ pc' = [pc EXCEPT ![target] = IF @ = "asleep" THEN "await" ELSE @]
    /\ mpc' = IF sub_size = 0 THEN "join" ELSE "scan"
    /\ UNCHANGED <<input, by_region, list, list_size, remaining, working,
                   cursor, taken, processed, i, first, left, target, sub_size, active>>

(* pthread_join of a worker that was handed nothing. *)
Join ==
    /\ mpc = "join" /\ pc[target] = "exited"
    /\ active' = active \ {target}
    /\ mpc' = IF active' = {} THEN "done" ELSE "scan"
    /\ UNCHANGED <<input, by_region, params, worker, i, first, left, target, sub_size>>

-----------------------------------------------------------------------------
(* A worker: threaded_find_deltas and threaded_find_deltas_by_path.        *)

(* pthread_cond_signal(&progress_cond) *)
SignalProgress == mpc' = IF mpc = "asleep" THEN "scan" ELSE mpc

(* while (me->remaining), under progress_mutex. *)
Check(t) ==
    /\ pc[t] = "check"
    /\ pc' = [pc EXCEPT ![t] = IF remaining[t] = 0 THEN "exited" ELSE "call"]
    /\ UNCHANGED <<input, by_region, params, cursor, taken, processed, main>>

(* find_deltas is called with me->list, read outside the lock. *)
CallFindDeltas(t) ==
    /\ pc[t] = "call" /\ ~by_region
    /\ cursor' = [cursor EXCEPT ![t] = list[t]]
    /\ pc' = [pc EXCEPT ![t] = "take"]
    /\ UNCHANGED <<input, by_region, params, taken, processed, main>>

(* The head of find_deltas's loop takes the next object of the list.       *)
Take(t) ==
    /\ pc[t] = "take"
    /\ IF remaining[t] = 0
         THEN /\ pc' = [pc EXCEPT ![t] = "stop"]
              /\ UNCHANGED <<cursor, remaining, taken, processed>>
         ELSE /\ taken' = [taken EXCEPT ![cursor[t]] = @ + 1]
              /\ processed' = IF cursor[t] \in input.preferred THEN processed ELSE processed + 1
              /\ cursor' = [cursor EXCEPT ![t] = @ + 1]
              /\ remaining' = [remaining EXCEPT ![t] = @ - 1]
              /\ UNCHANGED pc
    /\ UNCHANGED <<input, by_region, list, list_size, working, data_ready, main>>

(* The list is used up: working is cleared and the main thread signalled.  *)
StopWork(t) ==
    /\ pc[t] = "stop"
    /\ working' = [working EXCEPT ![t] = FALSE]
    /\ SignalProgress
    /\ pc' = [pc EXCEPT ![t] = "await"]
    /\ UNCHANGED <<input, by_region, list, list_size, remaining, data_ready,
                   cursor, taken, processed, i, first, left, target, sub_size, active>>

(* find_deltas_for_region is called with me->regions, read outside the lock. *)
SearchRegion(t) ==
    /\ pc[t] = "call" /\ by_region
    /\ taken' = [taken EXCEPT ![list[t]] = @ + 1]
    /\ pc' = [pc EXCEPT ![t] = "region"]
    /\ UNCHANGED <<input, by_region, params, cursor, processed, main>>

(* The region is only taken off the list when it is done; the worker goes  *)
(* idle in the same critical section when it was the last.                 *)
RegionDone(t) ==
    /\ pc[t] = "region"
    /\ remaining' = [remaining EXCEPT ![t] = @ - 1]
    /\ list' = [list EXCEPT ![t] = @ + 1]
    /\ IF remaining'[t] = 0
         THEN /\ working' = [working EXCEPT ![t] = FALSE]
              /\ SignalProgress
              /\ pc' = [pc EXCEPT ![t] = "await"]
         ELSE /\ pc' = [pc EXCEPT ![t] = "call"]
              /\ UNCHANGED <<working, mpc>>
    /\ UNCHANGED <<input, by_region, list_size, data_ready,
                   cursor, taken, processed, i, first, left, target, sub_size, active>>

(* Mutant: data_ready is reset before the wait, too. *)
AwaitResettingFirst(t) ==
    /\ pc[t] = "await"
    /\ data_ready' = [data_ready EXCEPT ![t] = FALSE]
    /\ pc' = [pc EXCEPT ![t] = "asleep"]
    /\ UNCHANGED <<input, by_region, list, list_size, remaining, working,
                   cursor, taken, processed, main>>

(* The worker's own mutex: wait for data_ready and reset it. *)
Await(t) ==
    /\ pc[t] = "await"
    /\ data_ready' = [data_ready EXCEPT ![t] = FALSE]
    /\ pc' = [pc EXCEPT ![t] = IF data_ready[t] THEN "check" ELSE "asleep"]
    /\ UNCHANGED <<input, by_region, list, list_size, remaining, working,
                   cursor, taken, processed, main>>

Work(t) ==
    \/ Check(t) \/ CallFindDeltas(t) \/ Take(t) \/ StopWork(t)
    \/ SearchRegion(t) \/ RegionDone(t) \/ Await(t)

Main ==
    \/ Partition \/ StartThreads \/ StartThread \/ AllStarted
    \/ ServeIdle \/ WaitForIdle \/ Give \/ Join

(* A condition variable may wake its waiter for no reason. *)
SpuriousWakeup ==
    \/ /\ mpc = "asleep"
       /\ mpc' = "scan"
       /\ UNCHANGED <<input, by_region, params, worker, i, first, left, target, sub_size, active>>
    \/ /\ \E t \in Thread :
             /\ pc[t] = "asleep"
             /\ pc' = [pc EXCEPT ![t] = "await"]
       /\ UNCHANGED <<input, by_region, params, cursor, taken, processed, main>>

Finished == mpc = "done" /\ UNCHANGED vars

Next == Main \/ (\E t \in Thread : Work(t)) \/ SpuriousWakeup \/ Finished

Spec == Init /\ [][Next]_vars

(* Every thread keeps being scheduled; no spurious wakeup is relied on. *)
FairSpec == Spec /\ WF_vars(Main) /\ \A t \in Thread : WF_vars(Work(t))

-----------------------------------------------------------------------------
(* Properties.                                                             *)

(* No element is searched twice: however work is stolen while workers take *)
(* elements, two threads never have the same object or region.             *)
TakenOnce == \A e \in Index : taken[e] <= 1

(***************************************************************************)
(* When ll_find_deltas returns every element was searched, and for objects *)
(* the counter agrees with prepare_pack's own count, so that it does not   *)
(* die with "inconsistency with delta count".                              *)
(***************************************************************************)
DeltaCount ==
    mpc = "done" =>
        /\ \A e \in Index : taken[e] = 1
        /\ ~by_region => processed = Cardinality(Index \ input.preferred)

(* The search ends: no wakeup between the main thread and a worker is lost. *)
SearchEnds == <>(mpc = "done")
=============================================================================
