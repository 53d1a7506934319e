------------------------- MODULE DeltaSearchProofs -------------------------
(***************************************************************************)
(* The work-stealing search takes every element exactly once, for every    *)
(* list, number of threads and window.                                     *)
(***************************************************************************)
EXTENDS DeltaSearch, TLAPS, FiniteSetTheorems

(* The element a worker takes next, and the end of its share. *)
From(t) ==
    IF by_region
      THEN IF pc[t] = "region" THEN list[t] + 1 ELSE list[t]
      ELSE list[t] + list_size[t] - remaining[t]

Upto(t) == IF by_region THEN list[t] + remaining[t] ELSE list[t] + list_size[t]

InShare(t, e) == From(t) <= e /\ e < Upto(t)

Started == mpc \notin {"partition", "start"}

(* Which program counters go with the flags of the handshake. *)
HandshakeOf(t) ==
    /\ pc[t] \in {"take", "stop"} => ~by_region
    /\ pc[t] = "region" => by_region
    /\ data_ready[t] => working[t] /\ pc[t] \in {"await", "asleep"}
    /\ ~working[t] => remaining[t] = 0 /\ (pc[t] \in {"await", "asleep"} \/ (mpc = "partition" /\ t >= i))
    /\ pc[t] \in {"stop", "exited"} => remaining[t] = 0
    /\ pc[t] \in {"call", "region"} => remaining[t] > 0
    /\ mpc = "give" /\ t = target => pc[t] \in {"await", "asleep"} /\ working[t] /\ ~data_ready[t]

Handshake == \A t \in Thread : HandshakeOf(t)

(* Which threads exist. *)
PopulationOf(t) ==
    /\ mpc = "partition" \/ (mpc = "start" /\ t >= i) => pc[t] = "absent"
    /\ Started \/ (mpc = "start" /\ t < i) => (pc[t] = "absent" => remaining[t] = 0)
    /\ t \notin active => pc[t] \in {"absent", "exited"}

Population ==
    /\ \A t \in Thread : PopulationOf(t)
    /\ mpc = "done" => active = {}

(* A share lies in the list and the loops' own pointers agree with it. *)
ShareOf(t) ==
    /\ Upto(t) <= first
    /\ remaining[t] <= list_size[t]
    /\ pc[t] = "absent" => list_size[t] = remaining[t]
    /\ ~by_region /\ working[t] /\ pc[t] \notin {"take", "stop", "exited"} => list_size[t] = remaining[t]
    /\ pc[t] = "take" => cursor[t] = From(t)
    /\ mpc = "partition" /\ t >= i => remaining[t] = 0 /\ list_size[t] = 0

Shares == \A t \in Thread : ShareOf(t)

(* The main thread hands out all of the list. *)
Rest ==
    /\ first + left = N
    /\ mpc = "partition" /\ i = Threads => left = 0
    /\ mpc /= "partition" => left = 0

(* An element is untaken exactly while it is in one share or unassigned. *)
Ownership ==
    /\ \A e \in Index : taken[e] <= 1
    /\ \A e \in Index : e >= first => taken[e] = 0
    /\ \A t \in Thread, e \in Index : InShare(t, e) => taken[e] = 0
    /\ \A t, u \in Thread, e \in Index : InShare(t, e) /\ InShare(u, e) => t = u
    /\ \A e \in Index : taken[e] = 0 => e >= first \/ \E t \in Thread : InShare(t, e)

(* The elements that processed counts. *)
Counted == {e \in Index \ input.preferred : taken[e] = 1}

Counting == ~by_region => processed = Cardinality(Counted)

Inv == TypeOK /\ Handshake /\ Population /\ Shares /\ Rest /\ Ownership /\ Counting

-----------------------------------------------------------------------------
(* The indices are natural numbers in their ranges. *)
LEMMA Ranges ==
    /\ \A t \in Thread : t \in Nat /\ t < Threads
    /\ \A e : e \in Index <=> e \in Nat /\ e < N
    /\ \A k \in 0 .. Threads : k < Threads => k \in Thread
    /\ \A k \in 0 .. Threads : k < Threads => k + 1 \in 0 .. Threads
    /\ \A k \in 0 .. Threads : k \in Nat
    /\ 0 \in 0 .. Threads /\ 0 \in Thread
BY SizeAssumption DEF Thread, Index

(* Every step keeps the types. *)
LEMMA TypeStep == Inv /\ [Next]_vars => TypeOK'
<1> SUFFICES ASSUME Inv, [Next]_vars PROVE TypeOK'
    OBVIOUS
<1> TypeOK
    BY DEF Inv
<1>1. CASE Partition
    <2>1. i \in Thread /\ i' \in 0 .. Threads
        BY <1>1, Ranges DEF Partition, TypeOK
    <2>2. PICK size \in 0 .. left :
             /\ list' = [list EXCEPT ![i] = first]
             /\ list_size' = [list_size EXCEPT ![i] = size]
             /\ remaining' = [remaining EXCEPT ![i] = size]
             /\ first' = first + size
             /\ left' = left - size
        BY Zenon, <1>1 DEF Partition
    <2>3. size \in Nat /\ size <= left
        BY DEF TypeOK
    <2> QED
        BY <1>1, <2>1, <2>2, <2>3 DEF Partition, TypeOK, worker
<1>2. CASE StartThreads
    BY <1>2, Ranges DEF StartThreads, TypeOK, MainPC, params, worker
<1>3. CASE StartThread
    <2>1. i \in Thread /\ i' \in 0 .. Threads
        BY <1>3, Ranges DEF StartThread, TypeOK
    <2>2. pc' \in [Thread -> WorkerPC] /\ active' \in SUBSET Thread
        BY Zenon, <1>3, <2>1 DEF StartThread, TypeOK, WorkerPC
    <2> QED
        BY <1>3, <2>1, <2>2 DEF StartThread, TypeOK, params
<1>4. CASE AllStarted
    BY Zenon, <1>4 DEF AllStarted, NextRound, TypeOK, MainPC, params, worker
<1>5. CASE ServeIdle
    <2>1. PICK t \in Thread :
             /\ \/ \E v \in Thread :
                     /\ IsVictim(v)
                     /\ \E size \in 1 .. remaining[v] \div 2 : IsStolen(v, size) /\ Steal(t, v, size)
                \/ /\ \A v \in Thread : remaining[v] <= 2 * Window
                   /\ NothingToSteal(t)
             /\ working' = [working EXCEPT ![t] = TRUE]
             /\ target' = t
        BY Zenon, <1>5 DEF ServeIdle
    <2>2. ASSUME NEW v \in Thread, NEW size \in 1 .. remaining[v] \div 2, Steal(t, v, size)
          PROVE  /\ list' \in [Thread -> Nat]
                 /\ list_size' \in [Thread -> Nat]
                 /\ remaining' \in [Thread -> Nat]
                 /\ sub_size' \in Nat
        <3>1. size \in Nat /\ size <= remaining[v]
            BY DEF TypeOK
        <3>2. size <= list_size[v]
            BY <3>1 DEF Inv, Shares, ShareOf, TypeOK
        <3>3. StolenFrom(v, size) \in Nat
            BY <3>1, <3>2 DEF StolenFrom, TypeOK
        <3>4. list' \in [Thread -> Nat] /\ sub_size' \in Nat
            BY <2>2, <3>1, <3>3 DEF Steal, TypeOK
        <3>5. remaining' \in [Thread -> Nat]
            BY <2>2, <3>1 DEF Steal, TypeOK
        <3>6. list_size[v] - size \in Nat
            BY <3>1, <3>2 DEF TypeOK
        <3>7. list_size' \in [Thread -> Nat]
            BY Zenon, <2>2, <3>1, <3>6 DEF Steal, TypeOK
        <3> QED
            BY <3>4, <3>5, <3>7
    <2>3. CASE NothingToSteal(t)
        BY <1>5, <2>1, <2>3 DEF ServeIdle, NothingToSteal, TypeOK, MainPC, worker
    <2> QED
        BY <1>5, <2>1, <2>2, <2>3 DEF ServeIdle, TypeOK, MainPC, worker
<1>6. CASE WaitForIdle
    BY <1>6 DEF WaitForIdle, TypeOK, MainPC, params, worker
<1>7. CASE Give
    BY <1>7 DEF Give, TypeOK, MainPC, WorkerPC
<1>8. CASE Join
    BY <1>8 DEF Join, TypeOK, MainPC, params, worker
<1>9. ASSUME NEW w \in Thread, Check(w) PROVE TypeOK'
    BY <1>9 DEF Check, TypeOK, WorkerPC, params, main
<1>10. ASSUME NEW w \in Thread, CallFindDeltas(w) PROVE TypeOK'
    BY <1>10 DEF CallFindDeltas, TypeOK, WorkerPC, params, main
<1>11. ASSUME NEW w \in Thread, Take(w) PROVE TypeOK'
    <2>1. CASE remaining[w] = 0
        BY <1>11, <2>1 DEF Take, TypeOK, WorkerPC, main
    <2>2. CASE remaining[w] /= 0
        BY <1>11, <2>2 DEF Take, TypeOK, main
    <2> QED
        BY Zenon, <2>1, <2>2
<1>12. ASSUME NEW w \in Thread, StopWork(w) PROVE TypeOK'
    BY <1>12 DEF StopWork, SignalProgress, TypeOK, WorkerPC, MainPC
<1>13. ASSUME NEW w \in Thread, SearchRegion(w) PROVE TypeOK'
    <2>1. remaining[w] > 0 /\ list[w] + remaining[w] <= first /\ first + left = N
        BY <1>13 DEF SearchRegion, Inv, Handshake, HandshakeOf, Shares, ShareOf, Upto, Rest
    <2>2. list[w] \in Index
        BY <2>1, Ranges, SizeAssumption DEF TypeOK
    <2>3. taken' \in [Index -> Nat]
        BY <1>13, <2>2 DEF SearchRegion, TypeOK
    <2> QED
        BY <1>13, <2>3 DEF SearchRegion, TypeOK, WorkerPC, params, main
<1>14. ASSUME NEW w \in Thread, RegionDone(w) PROVE TypeOK'
    <2>1. remaining[w] > 0
        BY <1>14 DEF RegionDone, Inv, Handshake, HandshakeOf
    <2>2. remaining' \in [Thread -> Nat] /\ list' \in [Thread -> Nat]
        BY <1>14, <2>1 DEF RegionDone, TypeOK
    <2>3. pc' \in [Thread -> WorkerPC] /\ working' \in [Thread -> BOOLEAN] /\ mpc' \in MainPC
        BY Zenon, <1>14 DEF RegionDone, SignalProgress, TypeOK, WorkerPC, MainPC
    <2> QED
        BY <1>14, <2>2, <2>3 DEF RegionDone, TypeOK
<1>15. ASSUME NEW w \in Thread, Await(w) PROVE TypeOK'
    BY <1>15 DEF Await, TypeOK, WorkerPC, main
<1>16. CASE SpuriousWakeup
    BY <1>16 DEF SpuriousWakeup, TypeOK, WorkerPC, MainPC, params, worker, main
<1>17. CASE UNCHANGED vars
    BY <1>17 DEF vars, TypeOK, params, worker, main
<1> QED
    BY <1>1, <1>2, <1>3, <1>4, <1>5, <1>6, <1>7, <1>8, <1>9, <1>10, <1>11, <1>12, <1>13,
       <1>14, <1>15, <1>16, <1>17 DEF Next, Main, Work, Finished


(* Every step keeps the handshake consistent. *)
LEMMA HandshakeStep == Inv /\ [Next]_vars => Handshake'
<1> SUFFICES ASSUME Inv, [Next]_vars, NEW t \in Thread PROVE HandshakeOf(t)'
    BY DEF Handshake
<1> TypeOK /\ HandshakeOf(t) /\ PopulationOf(t)
    BY DEF Inv, Handshake, Population
<1> t \in Nat /\ t < Threads
    BY Ranges
<1>1. CASE Partition
    <2>1. i \in Thread /\ i \in Nat /\ i' = i + 1 /\ pc[t] = "absent"
        BY <1>1, Ranges DEF Partition, TypeOK, PopulationOf
    <2>2. t /= i => remaining'[t] = remaining[t] /\ working'[t] = working[t] /\ data_ready'[t] = data_ready[t]
        BY <1>1, <2>1 DEF Partition, TypeOK
    <2>3. working'[i] /\ ~data_ready'[i]
        BY Zenon, <1>1, <2>1 DEF Partition, TypeOK
    <2> QED
        BY <1>1, <2>1, <2>2, <2>3 DEF Partition, HandshakeOf, worker
<1>2. CASE StartThreads
    BY <1>2 DEF StartThreads, HandshakeOf, TypeOK, params, worker
<1>3. CASE StartThread
    <2>1. i \in Thread
        BY <1>3, Ranges DEF StartThread, TypeOK
    <2>2. pc'[t] \in {pc[t], "check"}
        BY <1>3, <2>1 DEF StartThread, TypeOK
    <2>3. pc'[t] /= pc[t] => pc[t] = "absent"
        BY <1>3, <2>1 DEF StartThread, TypeOK, PopulationOf
    <2> QED
        BY <1>3, <2>2, <2>3 DEF StartThread, HandshakeOf, params
<1>4. CASE AllStarted
    BY Zenon, <1>4 DEF AllStarted, NextRound, HandshakeOf, params, worker
<1>5. CASE ServeIdle
    <2>1. PICK u \in Thread :
             /\ IsTarget(u)
             /\ \/ \E v \in Thread :
                     /\ IsVictim(v)
                     /\ \E size \in 1 .. remaining[v] \div 2 : IsStolen(v, size) /\ Steal(u, v, size)
                \/ /\ \A v \in Thread : remaining[v] <= 2 * Window
                   /\ NothingToSteal(u)
             /\ working' = [working EXCEPT ![u] = TRUE]
             /\ target' = u
        BY Zenon, <1>5 DEF ServeIdle
    <2>2. pc[u] \in {"await", "asleep"} /\ remaining[u] = 0 /\ ~working[u]
        BY <1>5, <2>1 DEF ServeIdle, IsTarget, Inv, Handshake, HandshakeOf
    <2>3. t /= u => working'[t] = working[t]
        BY <2>1 DEF TypeOK
    <2>4. ~working[t] /\ t /= u => remaining'[t] = 0
        <3>1. ASSUME NEW v \in Thread, IsVictim(v) PROVE v = t => remaining[t] > 0
            BY <3>1, SizeAssumption DEF IsVictim, TypeOK
        <3>2. ASSUME ~working[t], t /= u, NEW v \in Thread, IsVictim(v),
                     NEW size \in 1 .. remaining[v] \div 2, Steal(u, v, size)
              PROVE  remaining'[t] = 0
            BY <3>1, <3>2 DEF Steal, HandshakeOf, TypeOK
        <3>3. ASSUME ~working[t], t /= u, NothingToSteal(u) PROVE remaining'[t] = 0
            BY <3>3 DEF NothingToSteal, HandshakeOf, TypeOK
        <3> QED
            BY <2>1, <3>2, <3>3
    <2>5. remaining[t] > 0 => remaining'[t] > 0
        <3>1. ASSUME remaining[t] > 0, NEW v \in Thread,
                     NEW size \in 1 .. remaining[v] \div 2, Steal(u, v, size)
              PROVE  remaining'[t] > 0
            <4>1. t /= u
                BY <2>2, <3>1
            <4>2. CASE t = v
                BY <3>1, <4>1, <4>2 DEF Steal, TypeOK
            <4>3. CASE t /= v
                BY <3>1, <4>1, <4>3 DEF Steal, TypeOK
            <4> QED
                BY <4>2, <4>3
        <3>2. ASSUME remaining[t] > 0, NothingToSteal(u) PROVE remaining'[t] > 0
            BY <2>2, <3>2 DEF NothingToSteal, TypeOK
        <3> QED
            BY <2>1, <3>1, <3>2
    <2>6. pc[t] \in {"stop", "exited"} => remaining'[t] = 0
        <3>1. ASSUME NEW v \in Thread, IsVictim(v) PROVE v = t => remaining[t] > 0
            BY <3>1, SizeAssumption DEF IsVictim, TypeOK
        <3>2. ASSUME pc[t] \in {"stop", "exited"}, NEW v \in Thread, IsVictim(v),
                     NEW size \in 1 .. remaining[v] \div 2, Steal(u, v, size)
              PROVE  remaining'[t] = 0
            BY <2>2, <3>1, <3>2 DEF Steal, HandshakeOf, TypeOK
        <3>3. ASSUME pc[t] \in {"stop", "exited"}, NothingToSteal(u) PROVE remaining'[t] = 0
            BY <3>3 DEF NothingToSteal, HandshakeOf, TypeOK
        <3> QED
            BY Zenon, <2>1, <3>2, <3>3
    <2>7. working'[u]
        BY Zenon, <2>1 DEF TypeOK
    <2> QED
        BY <1>5, <2>1, <2>2, <2>3, <2>4, <2>5, <2>6, <2>7 DEF ServeIdle, HandshakeOf, worker
<1>6. CASE WaitForIdle
    BY Zenon, <1>6 DEF WaitForIdle, HandshakeOf, params, worker
<1>7. CASE Give
    BY Zenon, <1>7 DEF Give, HandshakeOf, TypeOK
<1>8. CASE Join
    BY Zenon, <1>8 DEF Join, HandshakeOf, params, worker
<1>9. ASSUME NEW w \in Thread, Check(w) PROVE HandshakeOf(t)'
    BY <1>9 DEF Check, HandshakeOf, TypeOK, params, main
<1>10. ASSUME NEW w \in Thread, CallFindDeltas(w) PROVE HandshakeOf(t)'
    BY Zenon, <1>10 DEF CallFindDeltas, HandshakeOf, TypeOK, params, main
<1>11. ASSUME NEW w \in Thread, Take(w) PROVE HandshakeOf(t)'
    BY Zenon, <1>11 DEF Take, HandshakeOf, TypeOK, main
<1>12. ASSUME NEW w \in Thread, StopWork(w) PROVE HandshakeOf(t)'
    BY Zenon, <1>12 DEF StopWork, HandshakeOf, TypeOK, SignalProgress
<1>13. ASSUME NEW w \in Thread, SearchRegion(w) PROVE HandshakeOf(t)'
    BY Zenon, <1>13 DEF SearchRegion, HandshakeOf, TypeOK, params, main
<1>14. ASSUME NEW w \in Thread, RegionDone(w) PROVE HandshakeOf(t)'
    BY <1>14 DEF RegionDone, HandshakeOf, TypeOK, SignalProgress
<1>15. ASSUME NEW w \in Thread, Await(w) PROVE HandshakeOf(t)'
    BY Zenon, <1>15 DEF Await, HandshakeOf, TypeOK, main
<1>16. CASE SpuriousWakeup
    BY <1>16 DEF SpuriousWakeup, HandshakeOf, TypeOK, params, worker, main
<1>17. CASE UNCHANGED vars
    BY Zenon, <1>17 DEF vars, HandshakeOf, params, worker, main
<1> QED
    BY <1>1, <1>2, <1>3, <1>4, <1>5, <1>6, <1>7, <1>8, <1>9, <1>10, <1>11, <1>12, <1>13,
       <1>14, <1>15, <1>16, <1>17 DEF Next, Main, Work, Finished

(* Every step keeps account of the threads. *)
LEMMA PopulationStep == Inv /\ [Next]_vars => Population'
<1> SUFFICES ASSUME Inv, [Next]_vars, NEW t \in Thread
             PROVE  PopulationOf(t)' /\ (mpc = "done" => active = {})'
    BY Ranges DEF Population
<1> /\ TypeOK /\ HandshakeOf(t) /\ PopulationOf(t) /\ ShareOf(t)
    /\ mpc = "done" => active = {}
    BY DEF Inv, Handshake, Population, Shares
<1> t \in Nat /\ t < Threads
    BY Zenon, Ranges
<1> USE DEF PopulationOf, Started
<1>1. CASE Partition
    BY Zenon, <1>1 DEF Partition, worker
<1>2. CASE StartThreads
    BY <1>2 DEF StartThreads, params, worker
<1>3. CASE StartThread
    <2>1. i \in Thread /\ i \in Nat /\ i' = i + 1
        BY Zenon, <1>3, Ranges DEF StartThread, TypeOK
    <2>2. CASE list_size[i] = 0
        BY <1>3, <2>1, <2>2 DEF StartThread, ShareOf, TypeOK, params
    <2>3. CASE list_size[i] /= 0
        BY <1>3, <2>1, <2>3 DEF StartThread, TypeOK, params
    <2> QED
        BY Zenon, <2>2, <2>3
<1>4. CASE AllStarted
    BY Zenon, <1>4 DEF AllStarted, NextRound, TypeOK, params, worker
<1>5. CASE ServeIdle
    <2>1. pc[t] = "absent" => working[t] /\ remaining[t] = 0
        BY Zenon, <1>5 DEF ServeIdle, HandshakeOf
    <2>2. PICK u \in Thread :
             /\ IsTarget(u)
             /\ \/ \E v \in Thread :
                     /\ IsVictim(v)
                     /\ \E size \in 1 .. remaining[v] \div 2 : Steal(u, v, size)
                \/ NothingToSteal(u)
        BY Zenon, <1>5 DEF ServeIdle
    <2>3. ASSUME pc[t] = "absent", NEW v \in Thread, IsVictim(v),
                 NEW size \in 1 .. remaining[v] \div 2, Steal(u, v, size)
          PROVE  remaining'[t] = 0
        <3>1. v /= t
            BY <2>1, <2>3, SizeAssumption DEF IsVictim, TypeOK
        <3>2. u /= t
            BY Zenon, <2>1, <2>2, <2>3 DEF IsTarget
        <3> QED
            BY Zenon, <2>1, <2>3, <3>1, <3>2 DEF Steal, TypeOK
    <2>4. ASSUME pc[t] = "absent", NothingToSteal(u) PROVE remaining'[t] = 0
        BY <2>1, <2>4 DEF NothingToSteal, TypeOK
    <2> QED
        BY Zenon, <1>5, <2>2, <2>3, <2>4 DEF ServeIdle, worker
<1>6. CASE WaitForIdle
    BY Zenon, <1>6 DEF WaitForIdle, params, worker
<1>7. CASE Give
    BY <1>7 DEF Give, HandshakeOf, TypeOK
<1>8. CASE Join
    BY Zenon, <1>8 DEF Join, params, worker
<1>9. ASSUME NEW w \in Thread, Check(w) PROVE PopulationOf(t)' /\ (mpc = "done" => active = {})'
    BY Zenon, <1>9 DEF Check, TypeOK, params, main
<1>10. ASSUME NEW w \in Thread, CallFindDeltas(w) PROVE PopulationOf(t)' /\ (mpc = "done" => active = {})'
    BY Zenon, <1>10 DEF CallFindDeltas, TypeOK, params, main
<1>11. ASSUME NEW w \in Thread, Take(w) PROVE PopulationOf(t)' /\ (mpc = "done" => active = {})'
    <2>1. CASE remaining[w] = 0
        BY Zenon, <1>11, <2>1 DEF Take, TypeOK, main
    <2>2. CASE remaining[w] /= 0
        BY Zenon, <1>11, <2>2 DEF Take, TypeOK, main
    <2> QED
        BY Zenon, <2>1, <2>2
<1>12. ASSUME NEW w \in Thread, StopWork(w) PROVE PopulationOf(t)' /\ (mpc = "done" => active = {})'
    BY Zenon, <1>12 DEF StopWork, SignalProgress, TypeOK
<1>13. ASSUME NEW w \in Thread, SearchRegion(w) PROVE PopulationOf(t)' /\ (mpc = "done" => active = {})'
    BY Zenon, <1>13 DEF SearchRegion, TypeOK, params, main
<1>14. ASSUME NEW w \in Thread, RegionDone(w) PROVE PopulationOf(t)' /\ (mpc = "done" => active = {})'
    <2>1. pc[w] = "region" /\ (t /= w => remaining'[t] = remaining[t])
        BY Zenon, <1>14 DEF RegionDone, TypeOK
    <2>2. pc'[w] \in {"await", "call"} /\ (t /= w => pc'[t] = pc[t])
        BY Zenon, <1>14 DEF RegionDone, TypeOK
    <2>3. mpc' = mpc \/ (mpc = "asleep" /\ mpc' = "scan")
        BY Zenon, <1>14 DEF RegionDone, SignalProgress
    <2> QED
        BY Zenon, <1>14, <2>1, <2>2, <2>3 DEF RegionDone
<1>15. ASSUME NEW w \in Thread, Await(w) PROVE PopulationOf(t)' /\ (mpc = "done" => active = {})'
    BY <1>15 DEF Await, TypeOK, main
<1>16. CASE SpuriousWakeup
    BY Zenon, <1>16 DEF SpuriousWakeup, TypeOK, params, worker, main
<1>17. CASE UNCHANGED vars
    BY <1>17 DEF vars, params, worker, main
<1> QED
    BY <1>1, <1>2, <1>3, <1>4, <1>5, <1>6, <1>7, <1>8, <1>9, <1>10, <1>11, <1>12, <1>13,
       <1>14, <1>15, <1>16, <1>17 DEF Next, Main, Work, Finished

(* Every step of the partition leaves the rest of the list unassigned. *)
LEMMA RestStep == Inv /\ [Next]_vars => Rest'
<1> SUFFICES ASSUME Inv, [Next]_vars PROVE Rest'
    OBVIOUS
<1> TypeOK /\ Rest
    BY DEF Inv
<1>1. CASE Partition
    <2>1. i \in Nat /\ i < Threads /\ i' = i + 1 /\ mpc = "partition" /\ mpc' = mpc
        BY <1>1, Ranges DEF Partition, TypeOK
    <2>2. PICK size \in 0 .. left : IsShare(size) /\ first' = first + size /\ left' = left - size
        BY <1>1 DEF Partition
    <2>3. size \in Nat /\ size <= left
        BY DEF TypeOK
    <2>4. ASSUME i + 1 = Threads PROVE size = left
        <3>1. Threads - i = 1 /\ left \div 1 = left
            BY <2>1, <2>4, SizeAssumption DEF TypeOK
        <3>2. EvenShare = left
            BY <2>1, <2>4, <3>1, SizeAssumption DEF EvenShare
        <3> QED
            BY <2>2, <2>3, <3>2 DEF IsShare, TypeOK
    <2> QED
        BY <2>1, <2>2, <2>3, <2>4, SizeAssumption DEF Rest, TypeOK
<1>2. CASE StartThreads
    BY <1>2 DEF StartThreads, Rest
<1>3. CASE UNCHANGED <<first, left>> /\ mpc /= "partition" /\ mpc' /= "partition"
    BY <1>3 DEF Rest
<1>4. CASE UNCHANGED <<first, left, mpc, i>>
    BY Zenon, <1>4 DEF Rest
<1>5. CASE StartThread \/ AllStarted \/ WaitForIdle \/ Give \/ Join
    BY Zenon, <1>3, <1>5 DEF StartThread, AllStarted, NextRound, WaitForIdle, Give, Join
<1>6. CASE ServeIdle
    BY <1>3, <1>6 DEF ServeIdle
<1>7. ASSUME NEW w \in Thread, Work(w) PROVE Rest'
    <2>1. UNCHANGED <<first, left, mpc, i>> \/
            (UNCHANGED <<first, left>> /\ mpc = "asleep" /\ mpc' = "scan")
        BY Zenon, <1>7 DEF Work, Check, CallFindDeltas, Take, StopWork, SearchRegion, RegionDone, Await,
                    SignalProgress, main
    <2> QED
        BY <1>3, <1>4, <2>1
<1>8. CASE SpuriousWakeup
    BY <1>3, <1>4, <1>8 DEF SpuriousWakeup, main
<1>9. CASE UNCHANGED vars
    BY <1>4, <1>9 DEF vars, main
<1> QED
    BY <1>1, <1>2, <1>5, <1>6, <1>7, <1>8, <1>9 DEF Next, Main, Finished

(* Every step keeps the shares inside the list. *)
LEMMA SharesStep == Inv /\ [Next]_vars => Shares'
<1> SUFFICES ASSUME Inv, [Next]_vars, NEW t \in Thread PROVE ShareOf(t)'
    BY DEF Shares
<1> TypeOK /\ HandshakeOf(t) /\ PopulationOf(t) /\ ShareOf(t)
    BY Zenon DEF Inv, Handshake, Population, Shares
<1> t \in Nat /\ t < Threads
    BY Zenon, Ranges
<1> USE DEF ShareOf, From, Upto
<1>1. CASE Partition
    <2>1. i \in Thread /\ i \in Nat /\ i' = i + 1 /\ pc[t] = "absent"
        BY <1>1, Ranges DEF Partition, TypeOK, PopulationOf
    <2>2. PICK size \in 0 .. left :
             /\ list' = [list EXCEPT ![i] = first]
             /\ list_size' = [list_size EXCEPT ![i] = size]
             /\ remaining' = [remaining EXCEPT ![i] = size]
             /\ first' = first + size
        BY Zenon, <1>1 DEF Partition
    <2>3. size \in Nat
        BY DEF TypeOK
    <2>4. CASE t = i
        BY <1>1, <2>1, <2>2, <2>3, <2>4 DEF Partition, TypeOK, worker
    <2>5. CASE t /= i
        <3>1. /\ list'[t] = list[t] /\ list_size'[t] = list_size[t] /\ remaining'[t] = remaining[t]
              /\ working'[t] = working[t]
            BY Zenon, <1>1, <2>1, <2>2, <2>5 DEF Partition, TypeOK
        <3> QED
            BY <1>1, <2>1, <2>2, <2>3, <2>5, <3>1 DEF Partition, TypeOK, worker
    <2> QED
        BY Zenon, <2>4, <2>5
<1>2. CASE StartThreads
    BY Zenon, <1>2 DEF StartThreads, params, worker
<1>3. CASE StartThread
    <2>1. i \in Thread
        BY Zenon, <1>3, Ranges DEF StartThread, TypeOK
    <2>2. pc'[t] = pc[t] \/ (pc[t] = "absent" /\ pc'[t] = "check")
        BY <1>3, <2>1 DEF StartThread, TypeOK, PopulationOf
    <2> QED
        BY Zenon, <1>3, <2>2 DEF StartThread, params
<1>4. CASE AllStarted
    BY Zenon, <1>4 DEF AllStarted, NextRound, params, worker
<1>5. CASE ServeIdle
    <2>1. PICK u \in Thread :
             /\ IsTarget(u)
             /\ \/ \E v \in Thread :
                     /\ IsVictim(v)
                     /\ \E size \in 1 .. remaining[v] \div 2 : Steal(u, v, size)
                \/ NothingToSteal(u)
             /\ working' = [working EXCEPT ![u] = TRUE]
        BY Zenon, <1>5 DEF ServeIdle
    <2>2. mpc = "scan" /\ mpc' = "give" /\ first' = first /\ by_region' = by_region
          /\ pc' = pc /\ cursor' = cursor /\ (t /= u => working'[t] = working[t])
        BY Zenon, <1>5, <2>1 DEF ServeIdle, worker, TypeOK
    <2>3. pc[u] \in {"await", "asleep"} /\ remaining[u] = 0 /\ ShareOf(u)
        BY Zenon, <2>1, <2>2 DEF IsTarget, Inv, Handshake, HandshakeOf, Shares
    <2>4. ASSUME NEW v \in Thread, IsVictim(v), NEW size \in 1 .. remaining[v] \div 2, Steal(u, v, size)
          PROVE  ShareOf(t)'
        <3>1. /\ remaining[v] \in Nat /\ size \in Nat /\ size < remaining[v]
              /\ ShareOf(v) /\ remaining[v] > 0 /\ v /= u
            BY <2>3, <2>4, SizeAssumption DEF IsVictim, TypeOK, Inv, Shares
        <3>2. CASE t = u
            BY <2>2, <2>3, <2>4, <3>1, <3>2 DEF Steal, StolenFrom, TypeOK
        <3>3. CASE t = v
            BY <2>2, <2>4, <3>1, <3>3 DEF Steal, TypeOK
        <3>4. CASE t /= u /\ t /= v
            <4>1. list'[t] = list[t] /\ list_size'[t] = list_size[t] /\ remaining'[t] = remaining[t]
                BY Zenon, <2>4, <3>4 DEF Steal, TypeOK
            <4> QED
                BY Zenon, <2>2, <3>4, <4>1
        <3> QED
            BY Zenon, <3>2, <3>3, <3>4
    <2>5. CASE NothingToSteal(u)
        <3>1. CASE t = u
            BY <2>2, <2>3, <2>5, <3>1 DEF NothingToSteal, TypeOK
        <3>2. CASE t /= u
            <4>1. list'[t] = list[t] /\ list_size'[t] = list_size[t] /\ remaining'[t] = remaining[t]
                BY Zenon, <2>5, <3>2 DEF NothingToSteal, TypeOK
            <4> QED
                BY Zenon, <2>2, <3>2, <4>1
        <3> QED
            BY Zenon, <3>1, <3>2
    <2> QED
        BY <2>1, <2>4, <2>5
<1>6. CASE WaitForIdle
    BY Zenon, <1>6 DEF WaitForIdle, params, worker
<1>7. CASE Give
    BY Zenon, <1>7 DEF Give, TypeOK
<1>8. CASE Join
    BY Zenon, <1>8 DEF Join, params, worker
<1>9. ASSUME NEW w \in Thread, Check(w) PROVE ShareOf(t)'
    BY Zenon, <1>9 DEF Check, HandshakeOf, TypeOK, params, main
<1>10. ASSUME NEW w \in Thread, CallFindDeltas(w) PROVE ShareOf(t)'
    <2>1. pc[w] = "call" => working[w]
        BY Zenon DEF Inv, Handshake, HandshakeOf, Population, PopulationOf
    <2>2. CASE t = w
        BY <1>10, <2>1, <2>2 DEF CallFindDeltas, TypeOK, params, main
    <2>3. CASE t /= w
        BY Zenon, <1>10, <2>3 DEF CallFindDeltas, TypeOK, params, main
    <2> QED
        BY <2>2, <2>3
<1>11. ASSUME NEW w \in Thread, Take(w) PROVE ShareOf(t)'
    <2>1. CASE remaining[w] = 0
        BY Zenon, <1>11, <2>1 DEF Take, TypeOK, main
    <2>2. CASE remaining[w] /= 0 /\ t = w
        <3>1. /\ pc[t] = "take" /\ pc' = pc
              /\ cursor' = [cursor EXCEPT ![t] = @ + 1]
              /\ remaining' = [remaining EXCEPT ![t] = @ - 1]
              /\ UNCHANGED <<by_region, list, list_size, working, mpc, i, first>>
            BY Zenon, <1>11, <2>2 DEF Take, main
        <3>2. /\ cursor'[t] = cursor[t] + 1
              /\ remaining'[t] = remaining[t] - 1
              /\ remaining[t] \in Nat /\ remaining[t] > 0
              /\ list[t] \in Nat /\ list_size[t] \in Nat /\ cursor[t] \in Nat /\ first \in Nat
            BY <2>2, <3>1 DEF TypeOK
        <3>3. ~(mpc = "partition" /\ t >= i)
            BY Zenon, <3>1 DEF PopulationOf
        <3>4. Upto(t)' <= first' /\ remaining'[t] <= list_size'[t]
            BY <3>1, <3>2
        <3>5. cursor'[t] = From(t)'
            <4>1. ~by_region /\ ~by_region'
                BY Zenon, <3>1 DEF HandshakeOf
            <4>2. From(t) = list[t] + (list_size[t] - remaining[t])
                BY Zenon, <4>1, <3>1
            <4>3. From(t)' = list[t] + (list_size[t] - remaining'[t])
                BY Zenon, <4>1, <3>1
            <4>4. cursor[t] = From(t)
                BY Zenon, <3>1
            <4> HIDE DEF From, Upto, ShareOf
            <4> QED
                BY <3>2, <4>2, <4>3, <4>4
        <3> QED
            BY Zenon, <3>1, <3>3, <3>4, <3>5
    <2>3. CASE remaining[w] /= 0 /\ t /= w
        BY Zenon, <1>11, <2>3 DEF Take, TypeOK, main
    <2> QED
        BY <2>1, <2>2, <2>3
<1>12. ASSUME NEW w \in Thread, StopWork(w) PROVE ShareOf(t)'
    BY <1>12 DEF StopWork, SignalProgress, TypeOK
<1>13. ASSUME NEW w \in Thread, SearchRegion(w) PROVE ShareOf(t)'
    BY Zenon, <1>13 DEF SearchRegion, TypeOK, params, main
<1>14. ASSUME NEW w \in Thread, RegionDone(w) PROVE ShareOf(t)'
    <2>1. by_region /\ by_region' /\ first' = first /\ i' = i
        BY <1>14 DEF RegionDone, Inv, Handshake, HandshakeOf
    <2>2. mpc' = mpc \/ (mpc = "asleep" /\ mpc' = "scan")
        BY Zenon, <1>14 DEF RegionDone, SignalProgress
    <2>3. pc'[w] \in {"await", "call"} /\ pc[w] = "region" /\ (t /= w => pc'[t] = pc[t])
        BY Zenon, <1>14 DEF RegionDone, TypeOK
    <2>4. CASE t = w
        BY <1>14, <2>1, <2>2, <2>3, <2>4 DEF RegionDone, HandshakeOf, PopulationOf, TypeOK
    <2>5. CASE t /= w
        <3>1. list'[t] = list[t] /\ list_size'[t] = list_size[t] /\ remaining'[t] = remaining[t]
              /\ cursor'[t] = cursor[t]
            BY Zenon, <1>14, <2>5 DEF RegionDone, TypeOK
        <3> QED
            BY Zenon, <2>1, <2>2, <2>3, <2>5, <3>1
    <2> QED
        BY <2>4, <2>5
<1>15. ASSUME NEW w \in Thread, Await(w) PROVE ShareOf(t)'
    BY Zenon, <1>15 DEF Await, HandshakeOf, TypeOK, main
<1>16. CASE SpuriousWakeup
    BY <1>16 DEF SpuriousWakeup, TypeOK, params, worker, main
<1>17. CASE UNCHANGED vars
    BY <1>17 DEF vars, params, worker, main
<1> QED
    BY Zenon, <1>1, <1>2, <1>3, <1>4, <1>5, <1>6, <1>7, <1>8, <1>9, <1>10, <1>11, <1>12, <1>13,
       <1>14, <1>15, <1>16, <1>17 DEF Next, Main, Work, Finished

(* A step that moves no element between shares keeps the ownership. *)
LEMMA SameShares ==
    ASSUME Ownership, UNCHANGED <<taken, first>>,
           \A t \in Thread, e \in Index : InShare(t, e)' <=> InShare(t, e)
    PROVE  Ownership'
BY Zenon DEF Ownership

(* So does a step that takes one element out of the share it is in. *)
LEMMA TakeOne ==
    ASSUME TypeOK, Ownership, NEW w \in Thread, NEW c \in Index, InShare(w, c), c < first,
           taken' = [taken EXCEPT ![c] = @ + 1], first' = first,
           \A e \in Index : InShare(w, e)' <=> InShare(w, e) /\ e /= c,
           \A t \in Thread, e \in Index : t /= w => (InShare(t, e)' <=> InShare(t, e))
    PROVE  Ownership'
<1>1. taken[c] = 0 /\ \A e \in Index : taken'[e] = IF e = c THEN 1 ELSE taken[e]
    BY DEF Ownership, TypeOK
<1>2. \A t \in Thread, e \in Index : InShare(t, e)' => InShare(t, e) /\ e /= c
    BY DEF Ownership
<1>3. \A t \in Thread, e \in Index : InShare(t, e) /\ e /= c => InShare(t, e)'
    OBVIOUS
<1>4. \A e \in Index : e >= first => taken'[e] = 0
    BY <1>1, Ranges DEF Ownership, TypeOK
<1> QED
    BY <1>1, <1>2, <1>3, <1>4 DEF Ownership

(* A step that changes no more than program counters keeps the ownership. *)
LEMMA SamePointers ==
    ASSUME Ownership, UNCHANGED <<taken, first, by_region, list, list_size, remaining>>,
           \A t \in Thread : (pc'[t] = "region") <=> (pc[t] = "region")
    PROVE  Ownership'
<1>1. \A t \in Thread, e \in Index : InShare(t, e)' <=> InShare(t, e)
    BY Zenon DEF InShare, From, Upto
<1> QED
    BY Zenon, <1>1, SameShares

(* Every step keeps each element with one owner. *)
LEMMA OwnershipStep == Inv /\ [Next]_vars => Ownership'
<1> SUFFICES ASSUME Inv, [Next]_vars PROVE Ownership'
    OBVIOUS
<1> TypeOK /\ Handshake /\ Population /\ Shares /\ Rest /\ Ownership
    BY Zenon DEF Inv
<1>1. CASE Partition
    <2> PICK k \in Thread : k = i
        BY Zenon, <1>1, Ranges DEF Partition, TypeOK
    <2>1. k \in Nat /\ first \in Nat /\ left \in Nat
        BY Ranges DEF TypeOK
    <2>2. PICK size \in 0 .. left :
             /\ list' = [list EXCEPT ![k] = first]
             /\ list_size' = [list_size EXCEPT ![k] = size]
             /\ remaining' = [remaining EXCEPT ![k] = size]
             /\ first' = first + size
        BY Zenon, <1>1 DEF Partition
    <2>3. size \in Nat /\ size <= left
        BY <2>1
    <2>4. UNCHANGED <<taken, by_region, pc>> /\ \A t \in Thread : pc[t] = "absent"
        BY Zenon, <1>1 DEF Partition, worker, Population, PopulationOf
    <2>5. \A e \in Index : ~InShare(k, e)
        BY <1>1, <2>1, <2>4, Ranges DEF Partition, Shares, ShareOf, InShare, From, Upto, TypeOK
    <2>6. \A e \in Index : InShare(k, e)' <=> first <= e /\ e < first'
        <3>1. list'[k] = first /\ list_size'[k] = size /\ remaining'[k] = size
            BY Zenon, <2>1, <2>2 DEF TypeOK
        <3>2. From(k)' = first /\ Upto(k)' = first'
            <4>1. pc'[k] = "absent"
                BY Zenon, <2>1, <2>4
            <4> QED
                BY <2>1, <2>2, <2>3, <3>1, <4>1 DEF From, Upto
        <3> QED
            BY Zenon, <3>2 DEF InShare
    <2>7. ASSUME NEW t \in Thread, NEW e \in Index, t /= k PROVE InShare(t, e)' <=> InShare(t, e)
        <3>1. list'[t] = list[t] /\ list_size'[t] = list_size[t] /\ remaining'[t] = remaining[t]
            BY Zenon, <2>1, <2>2, <2>7 DEF TypeOK
        <3> QED
            BY Zenon, <2>4, <3>1 DEF InShare, From, Upto
    <2>8. \A t \in Thread, e \in Index : InShare(t, e) => e < first
        BY Ranges DEF Shares, ShareOf, InShare, Upto, TypeOK
    <2>9. \A t \in Thread, e \in Index : InShare(t, e)' => taken'[e] = 0
        BY Zenon, <2>4, <2>6, <2>7, Ranges DEF Ownership, TypeOK
    <2>10. \A t, o \in Thread, e \in Index : InShare(t, e)' /\ InShare(o, e)' => t = o
        BY <2>1, <2>6, <2>7, <2>8, Ranges DEF Ownership, TypeOK
    <2>11. \A e \in Index : taken'[e] = 0 => e >= first' \/ \E t \in Thread : InShare(t, e)'
        <3>1. ASSUME NEW e \in Index, taken'[e] = 0, ~(e >= first') PROVE \E t \in Thread : InShare(t, e)'
            <4>1. CASE e >= first
                BY <2>1, <2>2, <2>3, <2>6, <3>1, <4>1, Ranges
            <4>2. CASE ~(e >= first)
                BY Zenon, <2>4, <2>5, <2>7, <3>1, <4>2 DEF Ownership
            <4> QED
                BY Zenon, <4>1, <4>2
        <3> QED
            BY <3>1
    <2>12. \A e \in Index : taken'[e] <= 1 /\ (e >= first' => taken'[e] = 0)
        BY <2>1, <2>2, <2>3, <2>4, Ranges DEF Ownership, TypeOK
    <2> QED
        BY Zenon, <2>9, <2>10, <2>11, <2>12 DEF Ownership
<1>2. CASE StartThreads \/ AllStarted \/ WaitForIdle \/ Join
    BY Zenon, <1>2, SamePointers DEF StartThreads, AllStarted, WaitForIdle, Join, params, worker
<1>3. CASE StartThread
    <2>1. i \in Thread /\ pc[i] = "absent"
        BY <1>3, Ranges DEF StartThread, TypeOK, Population, PopulationOf
    <2>2. \A t \in Thread : (pc'[t] = "region") <=> (pc[t] = "region")
        BY Zenon, <1>3, <2>1 DEF StartThread, TypeOK
    <2> QED
        BY Zenon, <1>3, <2>2, SamePointers DEF StartThread, params
<1>4. CASE ServeIdle
    <2>1. PICK u \in Thread :
             /\ IsTarget(u)
             /\ \/ \E v \in Thread :
                     /\ IsVictim(v)
                     /\ \E size \in 1 .. remaining[v] \div 2 : Steal(u, v, size)
                \/ NothingToSteal(u)
        BY Zenon, <1>4 DEF ServeIdle
    <2>2. mpc = "scan" /\ UNCHANGED <<taken, first, by_region, pc>>
        BY Zenon, <1>4 DEF ServeIdle, worker
    <2>3. pc[u] \in {"await", "asleep"} /\ remaining[u] = 0
        BY Zenon, <2>1, <2>2 DEF IsTarget, Handshake, HandshakeOf
    <2>4. \A e \in Index : ~InShare(u, e)
        BY <2>3, Ranges DEF InShare, From, Upto, TypeOK
    <2>5. ASSUME NEW v \in Thread, IsVictim(v), NEW size \in 1 .. remaining[v] \div 2, Steal(u, v, size)
          PROVE  Ownership'
        <3>1. /\ remaining[v] \in Nat /\ size \in Nat /\ size < remaining[v] /\ v /= u
              /\ remaining[v] - size >= 1
              /\ remaining[v] <= list_size[v]
            BY <2>3, <2>5, SizeAssumption DEF IsVictim, TypeOK, Shares, ShareOf
        <3>2. \A e \in Index : InShare(u, e)' <=> StolenFrom(v, size) <= e /\ e < Upto(v)
            BY <2>2, <2>3, <2>5, <3>1, Ranges DEF Steal, StolenFrom, InShare, From, Upto, TypeOK
        <3>3. \A e \in Index : InShare(v, e)' <=> From(v) <= e /\ e < StolenFrom(v, size)
            BY <2>2, <2>5, <3>1, Ranges DEF Steal, StolenFrom, InShare, From, Upto, TypeOK
        <3>4. /\ From(v) \in Nat /\ Upto(v) \in Nat /\ StolenFrom(v, size) \in Nat
              /\ From(v) <= StolenFrom(v, size) /\ StolenFrom(v, size) <= Upto(v)
            BY <3>1 DEF StolenFrom, From, Upto, TypeOK
        <3>5. ASSUME NEW t \in Thread, NEW e \in Index, t /= u, t /= v
              PROVE  InShare(t, e)' <=> InShare(t, e)
            <4>1. list'[t] = list[t] /\ list_size'[t] = list_size[t] /\ remaining'[t] = remaining[t]
                BY Zenon, <2>5, <3>5 DEF Steal, TypeOK
            <4> QED
                BY Zenon, <2>2, <4>1 DEF InShare, From, Upto
        <3>6. \A e \in Index : InShare(v, e) <=> InShare(u, e)' \/ InShare(v, e)'
            BY <3>2, <3>3, <3>4, Ranges DEF InShare
        <3>7. \A e \in Index : ~(InShare(u, e)' /\ InShare(v, e)')
            BY <3>2, <3>3, <3>4, Ranges
        <3>8. \A t \in Thread, e \in Index : InShare(t, e)' => \E o \in Thread : InShare(o, e)
            BY Zenon, <3>5, <3>6
        <3>9. \A t, o \in Thread, e \in Index : InShare(t, e)' /\ InShare(o, e)' => t = o
            BY Zenon, <2>4, <3>5, <3>6, <3>7 DEF Ownership
        <3>10. \A t \in Thread, e \in Index : InShare(t, e) => \E o \in Thread : InShare(o, e)'
            BY Zenon, <2>4, <3>5, <3>6
        <3> QED
            BY Zenon, <2>2, <3>8, <3>9, <3>10 DEF Ownership
    <2>6. CASE NothingToSteal(u)
        <3>1. \A e \in Index : ~InShare(u, e)'
            BY <2>2, <2>6, Ranges DEF NothingToSteal, InShare, From, Upto, TypeOK
        <3>2. ASSUME NEW t \in Thread, NEW e \in Index, t /= u PROVE InShare(t, e)' <=> InShare(t, e)
            <4>1. list'[t] = list[t] /\ list_size'[t] = list_size[t] /\ remaining'[t] = remaining[t]
                BY Zenon, <2>6, <3>2 DEF NothingToSteal, TypeOK
            <4> QED
                BY Zenon, <2>2, <4>1 DEF InShare, From, Upto
        <3> QED
            BY Zenon, <2>2, <2>4, <3>1, <3>2, SameShares
    <2> QED
        BY Zenon, <2>1, <2>5, <2>6
<1>5. CASE Give
    <2>1. \A t \in Thread : (pc'[t] = "region") <=> (pc[t] = "region")
        BY <1>5 DEF Give, TypeOK
    <2> QED
        BY Zenon, <1>5, <2>1, SamePointers DEF Give
<1>6. ASSUME NEW w \in Thread, Check(w) \/ CallFindDeltas(w) \/ StopWork(w) \/ Await(w) PROVE Ownership'
    <2>1. \A t \in Thread : (pc'[t] = "region") <=> (pc[t] = "region")
        BY <1>6 DEF Check, CallFindDeltas, StopWork, Await, TypeOK
    <2> QED
        BY Zenon, <1>6, <2>1, SamePointers DEF Check, CallFindDeltas, StopWork, Await, params, main
<1>7. ASSUME NEW w \in Thread, Take(w), remaining[w] = 0 PROVE Ownership'
    <2>1. \A t \in Thread : (pc'[t] = "region") <=> (pc[t] = "region")
        BY <1>7 DEF Take, TypeOK
    <2> QED
        BY Zenon, <1>7, <2>1, SamePointers DEF Take, main
<1>8. ASSUME NEW w \in Thread, Take(w), remaining[w] /= 0 PROVE Ownership'
    <2>1. /\ UNCHANGED <<by_region, list, list_size, pc, first>>
          /\ remaining' = [remaining EXCEPT ![w] = @ - 1]
          /\ taken' = [taken EXCEPT ![cursor[w]] = @ + 1]
        BY <1>8 DEF Take, main
    <2>2. ~by_region /\ cursor[w] = From(w) /\ Upto(w) <= first /\ remaining[w] <= list_size[w]
        BY Zenon, <1>8 DEF Take, Handshake, HandshakeOf, Shares, ShareOf
    <2>3. cursor[w] \in Index /\ InShare(w, cursor[w]) /\ cursor[w] < first
        BY <1>8, <2>2, Ranges, SizeAssumption DEF InShare, From, Upto, Rest, TypeOK
    <2>4. \A e \in Index : InShare(w, e)' <=> InShare(w, e) /\ e /= cursor[w]
        BY <1>8, <2>1, <2>2, Ranges DEF InShare, From, Upto, TypeOK
    <2>5. \A t \in Thread, e \in Index : t /= w => (InShare(t, e)' <=> InShare(t, e))
        BY <2>1 DEF InShare, From, Upto, TypeOK
    <2> QED
        BY Zenon, <2>1, <2>3, <2>4, <2>5, TakeOne
<1>9. ASSUME NEW w \in Thread, SearchRegion(w) PROVE Ownership'
    <2>1. /\ UNCHANGED <<by_region, list, list_size, remaining, first>> /\ by_region
          /\ pc[w] = "call" /\ pc' = [pc EXCEPT ![w] = "region"]
          /\ taken' = [taken EXCEPT ![list[w]] = @ + 1]
        BY Zenon, <1>9 DEF SearchRegion, params, main
    <2>2. Upto(w) <= first /\ remaining[w] > 0
        BY Zenon, <2>1 DEF Handshake, HandshakeOf, Shares, ShareOf
    <2>3. list[w] \in Index /\ InShare(w, list[w]) /\ list[w] < first
        BY <2>1, <2>2, Ranges, SizeAssumption DEF InShare, From, Upto, Rest, TypeOK
    <2>4. \A e \in Index : InShare(w, e)' <=> InShare(w, e) /\ e /= list[w]
        BY <2>1, Ranges DEF InShare, From, Upto, TypeOK
    <2>5. \A t \in Thread, e \in Index : t /= w => (InShare(t, e)' <=> InShare(t, e))
        BY Zenon, <2>1 DEF InShare, From, Upto, TypeOK
    <2> QED
        BY Zenon, <2>1, <2>3, <2>4, <2>5, TakeOne
<1>10. ASSUME NEW w \in Thread, RegionDone(w) PROVE Ownership'
    <2>1. /\ UNCHANGED <<taken, by_region, first>> /\ by_region /\ pc[w] = "region"
          /\ list' = [list EXCEPT ![w] = @ + 1] /\ remaining' = [remaining EXCEPT ![w] = @ - 1]
        BY Zenon, <1>10 DEF RegionDone, Handshake, HandshakeOf
    <2>2. pc'[w] /= "region" /\ \A t \in Thread : t /= w => pc'[t] = pc[t]
        BY Zenon, <1>10 DEF RegionDone, TypeOK
    <2>3. \A e \in Index : InShare(w, e)' <=> InShare(w, e)
        BY <2>1, <2>2, Ranges DEF InShare, From, Upto, TypeOK
    <2>4. \A t \in Thread, e \in Index : t /= w => (InShare(t, e)' <=> InShare(t, e))
        BY Zenon, <2>1, <2>2 DEF InShare, From, Upto, TypeOK
    <2> QED
        BY Zenon, <2>1, <2>3, <2>4, SameShares
<1>11. CASE SpuriousWakeup
    <2>1. \A t \in Thread : (pc'[t] = "region") <=> (pc[t] = "region")
        BY Zenon, <1>11 DEF SpuriousWakeup, TypeOK, worker
    <2> QED
        BY Zenon, <1>11, <2>1, SamePointers DEF SpuriousWakeup, params, worker, main
<1>12. CASE UNCHANGED vars
    BY Zenon, <1>12, SamePointers DEF vars, params, worker, main
<1> QED
    BY <1>1, <1>2, <1>3, <1>4, <1>5, <1>6, <1>7, <1>8, <1>9, <1>10, <1>11, <1>12
       DEF Next, Main, Work, Finished

(* Every step that takes an object counts it unless it is only a base. *)
LEMMA CountingStep == Inv /\ [Next]_vars => Counting'
<1> SUFFICES ASSUME Inv, [Next]_vars, ~by_region' PROVE processed' = Cardinality(Counted')
    BY DEF Counting
<1> TypeOK /\ Handshake /\ Shares /\ Rest /\ Ownership
    BY Zenon DEF Inv
<1>1. by_region' = by_region /\ input' = input
    BY Zenon DEF Next, Main, Work, Finished, Partition, StartThreads, StartThread, AllStarted, ServeIdle,
           WaitForIdle, Give, Join, Check, CallFindDeltas, Take, StopWork, SearchRegion, RegionDone,
           Await, SpuriousWakeup, vars
<1>2. processed = Cardinality(Counted)
    BY Zenon, <1>1 DEF Inv, Counting
<1>3. CASE UNCHANGED <<taken, processed>>
    BY Zenon, <1>1, <1>2, <1>3 DEF Counted
<1>4. ASSUME NEW w \in Thread, Take(w), remaining[w] /= 0 PROVE processed' = Cardinality(Counted')
    <2>1. /\ taken' = [taken EXCEPT ![cursor[w]] = @ + 1]
          /\ processed' = IF cursor[w] \in input.preferred THEN processed ELSE processed + 1
        BY Zenon, <1>4 DEF Take
    <2>2. ~by_region /\ cursor[w] = From(w) /\ Upto(w) <= first /\ remaining[w] <= list_size[w]
        BY Zenon, <1>4 DEF Take, Handshake, HandshakeOf, Shares, ShareOf
    <2>3. cursor[w] \in Index /\ InShare(w, cursor[w])
        BY <1>4, <2>2, Ranges, SizeAssumption DEF InShare, From, Upto, Rest, TypeOK
    <2>4. taken[cursor[w]] = 0
        BY Zenon, <2>3 DEF Ownership
    <2>5. Counted' = IF cursor[w] \in input.preferred THEN Counted ELSE Counted \cup {cursor[w]}
        BY <1>1, <2>1, <2>3, <2>4 DEF Counted, TypeOK
    <2>6. IsFiniteSet(Counted) /\ cursor[w] \notin Counted
        <3>1. IsFiniteSet(Index)
            BY SizeAssumption, FS_Interval DEF Index
        <3>2. Counted \subseteq Index
            BY Zenon DEF Counted
        <3> QED
            BY <2>4, <3>1, <3>2, FS_Subset DEF Counted
    <2>7. Cardinality(Counted \cup {cursor[w]}) = Cardinality(Counted) + 1
        BY Zenon, <2>6, FS_AddElement
    <2> QED
        BY Zenon, <1>2, <2>1, <2>5, <2>7
<1>5. UNCHANGED <<taken, processed>> \/ \E w \in Thread : Take(w) /\ remaining[w] /= 0
    <2>1. ~by_region
        BY <1>1
    <2> QED
        BY Zenon, <2>1 DEF Next, Main, Work, Finished, Partition, StartThreads, StartThread, AllStarted, ServeIdle,
           WaitForIdle, Give, Join, Check, CallFindDeltas, Take, StopWork, SearchRegion, RegionDone,
           Await, SpuriousWakeup, vars, worker
<1> QED
    BY <1>3, <1>4, <1>5

(* At the start the whole list is unassigned. *)
LEMMA InitInv == Init => Inv
<1> SUFFICES ASSUME Init PROVE Inv
    OBVIOUS
<1>1. TypeOK
    BY Zenon, SizeAssumption, Ranges DEF Init, TypeOK, WorkerPC, MainPC
<1>2. Handshake /\ Population
    BY Ranges DEF Init, Handshake, HandshakeOf, Population, PopulationOf, Started
<1>3. Shares /\ Rest
    BY SizeAssumption, Ranges DEF Init, Shares, ShareOf, From, Upto, Rest
<1>4. Ownership
    BY Ranges DEF Init, Ownership, InShare, From, Upto
<1>5. Counting
    <2>1. Counted = {}
        BY DEF Init, Counted
    <2> QED
        BY Zenon, <2>1, FS_EmptySet DEF Init, Counting
<1> QED
    BY <1>1, <1>2, <1>3, <1>4, <1>5 DEF Inv

(* The invariant holds in every reachable state. *)
THEOREM Invariance == Spec => []Inv
<1>1. Inv /\ [Next]_vars => Inv'
    BY TypeStep, HandshakeStep, PopulationStep, SharesStep, RestStep, OwnershipStep, CountingStep DEF Inv
<1> QED
    BY <1>1, InitInv, PTL DEF Spec

(* Type correctness of the two threaded searches. *)
THEOREM TypeCorrect == Spec => []TypeOK
<1>1. Inv => TypeOK
    BY DEF Inv
<1> QED
    BY <1>1, Invariance, PTL

(* No object or region is searched twice, for every list, number of        *)
(* threads and window, however the steals and the searches interleave.     *)
THEOREM SearchedOnce == Spec => []TakenOnce
<1>1. Inv => TakenOnce
    BY Zenon DEF Inv, Ownership, TakenOnce
<1> QED
    BY <1>1, Invariance, PTL

(* When the search returns nothing was skipped and the count is the one    *)
(* that prepare_pack insists on.                                           *)
THEOREM CountIsConsistent == Spec => []DeltaCount
<1>1. Inv => DeltaCount
    <2> SUFFICES ASSUME Inv, mpc = "done"
                 PROVE  /\ \A e \in Index : taken[e] = 1
                        /\ ~by_region => processed = Cardinality(Index \ input.preferred)
        BY Zenon DEF DeltaCount
    <2>1. first = N
        BY SizeAssumption DEF Inv, Rest, TypeOK
    <2>2. \A t \in Thread : remaining[t] = 0 /\ pc[t] /= "region"
        BY Zenon DEF Inv, Population, PopulationOf, Started, Handshake, HandshakeOf
    <2>3. \A t \in Thread, e \in Index : ~InShare(t, e)
        BY <2>2, Ranges DEF InShare, From, Upto, Inv, TypeOK
    <2>4. \A e \in Index : taken[e] \in Nat /\ taken[e] <= 1 /\ taken[e] /= 0
        <3> TAKE e \in Index
        <3>1. e \in Nat /\ ~(e >= first)
            BY <2>1, Ranges, SizeAssumption
        <3>2. taken[e] /= 0
            BY <2>3, <3>1 DEF Inv, Ownership
        <3> QED
            BY <3>2 DEF Inv, Ownership, TypeOK
    <2>5. \A e \in Index : taken[e] = 1
        BY <2>4
    <2>6. Counted = Index \ input.preferred
        BY <2>5 DEF Counted
    <2> QED
        BY Zenon, <2>5, <2>6 DEF Inv, Counting
<1> QED
    BY <1>1, Invariance, PTL
=============================================================================
