----------------------- MODULE SimpleIpcHolderProofs -----------------------
(***************************************************************************)
(* Every accepted connection of SimpleIpc has one holder until it is       *)
(* closed: the steps that put connections on the ring, take them off it or *)
(* close them keep the invariant HInv of SimpleIpcProofs, and HInv implies *)
(* OneHolder and TypeOK.                                                   *)
(***************************************************************************)
EXTENDS SimpleIpcProofs

(* Under the mutex the connection is queued or closed.                     *)
LEMMA HoldEnqueue ==
  ASSUME HInv, NEW s \in Server, accept_thread_proc(s), ~shutdown_requested[s],
         After(back_pos[s]) /= front_pos[s]
  PROVE  HInv'
<1> DEFINE c == client_fd[s]
           b == back_pos[s]
<1>1. /\ accepting[s] = "enqueue" /\ accepting' = [accepting EXCEPT ![s] = "poll"]
      /\ client_fd' = [client_fd EXCEPT ![s] = None]
      /\ fifo_fds' = [fifo_fds EXCEPT ![s][b] = c]
      /\ back_pos' = [back_pos EXCEPT ![s] = After(@)]
      /\ worker' = Woken(s)
      /\ UNCHANGED front_pos
  BY DEF accept_thread_proc, fifo_enqueue
<1>0. /\ accepting[s] = "enqueue"
      /\ UNCHANGED <<path, path_lock, robbed, main, shutdown_requested, backlog, fd, client, tries,
                     front_pos, conn>>
  BY DEF accept_thread_proc, fifo_enqueue, file, peers
<1>2. /\ accepting \in [Server -> AcceptPC] /\ client_fd \in [Server -> Conn \cup {None}]
      /\ fifo_fds \in [Server -> [Slot -> Conn \cup {None}]] /\ PosTypes
  BY DEF HInv, Types, AcceptTypes, RingTypes
<1>3. c \in Conn /\ c /= None BY <1>0, <1>2 DEF HInv, Accepts, AcceptOf
<1>4. /\ PosTypes'
      /\ b \in Slot /\ b \notin InUse(s)
      /\ InUse(s)' = InUse(s) \cup {b}
      /\ \A t \in Server : t /= s => InUse(t)' = InUse(t)
  BY <1>1, <1>2, RingPut, ZenonT(30)
<1>5. \A t \in Server : t /= s => back_pos'[t] = back_pos[t] BY <1>1, <1>2 DEF PosTypes
<1> HIDE DEF c, b
<1>6. /\ RingTypes'
      /\ fifo_fds'[s][b] = c
      /\ \A k \in Slot : k /= b => fifo_fds'[s][k] = fifo_fds[s][k]
      /\ \A t \in Server : t /= s => fifo_fds'[t] = fifo_fds[t]
  BY <1>1, <1>2, <1>3, <1>4 DEF RingTypes
<1>7. AcceptTypes' BY <1>1, <1>2 DEF AcceptTypes, AcceptPC
<1>8. /\ accepting'[s] = "poll" /\ client_fd'[s] = None
      /\ \A t \in Server : t /= s => accepting'[t] = accepting[t] /\ client_fd'[t] = client_fd[t]
  BY <1>1, <1>2
<1>9. /\ WorkerTypes' /\ Workers'
      /\ \A t \in Server : \A w \in Pool(t) :
            worker[w] \in {"absent", "exited"} => worker'[w] = worker[w]
  <2>1. StillWorks(worker') /\ UNCHANGED fd BY <1>0, <1>1, WokenFacts
  <2> QED BY <2>1, PoolFrame, ZenonT(30)
<1>10. Accepts'
  <2>1. AcceptOf(s)' BY <1>0, <1>8 DEF AcceptOf
  <2>2. \A t \in Server : t /= s => AcceptOf(t)' BY <1>0, <1>5, <1>8 DEF HInv, Accepts, AcceptOf
  <2> QED BY <2>1, <2>2 DEF Accepts
<1>11. Threads'
  <2>1. ~NoThreads(s) /\ ~ThreadsEnded(s) BY <1>0 DEF NoThreads, ThreadsEnded
  <2>2. \A t \in Server : t /= s /\ NoThreads(t) => NoThreads(t)'
    BY <1>0, <1>5, <1>8, <1>9 DEF NoThreads
  <2>3. \A t \in Server : t /= s /\ ThreadsEnded(t) => ThreadsEnded(t)'
    BY <1>8, <1>9 DEF ThreadsEnded
  <2> QED BY <1>0, <2>1, <2>2, <2>3 DEF HInv, Threads, ThreadsOf
<1>12. Rings' BY <1>3, <1>4, <1>6 DEF HInv, Rings, RingOf, InUse
<1>13. ASSUME NEW d \in Conn PROVE UniqueOf(d)' /\ HeldOf(d)'
  <2>1. \A w \in Worker : Served(w, d)' <=> Served(w, d) BY <1>0 DEF Served
  <2>2. \A t \in Server : Accepted(t, d)' <=> t /= s /\ Accepted(t, d)
    BY <1>8, NameAssumption DEF Accepted
  <2>3. \A t \in Server, k \in Slot :
           InRing(t, k, d)' <=> InRing(t, k, d) \/ (t = s /\ k = b /\ d = c)
    BY <1>4, <1>6 DEF InRing
  <2>4. Accepted(s, d) <=> d = c BY DEF Accepted, c
  <2>5. CASE d = c
    <3>1. UniqueOf(d) BY DEF HInv, Holds
    <3>2. /\ \A w \in Worker : ~Served(w, d)
          /\ \A t \in Server : t /= s => ~Accepted(t, d)
          /\ \A t \in Server, k \in Slot : ~InRing(t, k, d)
      BY <2>4, <2>5, <3>1 DEF UniqueOf
    <3>3. UniqueOf(d)' BY <2>1, <2>2, <2>3, <3>2 DEF UniqueOf
    <3>4. IsHeld(d)' BY <1>4, <2>3, <2>5 DEF IsHeld
    <3>5. conn'[d] = "open" BY <1>0, <2>4, <2>5 DEF HInv, Holds, HeldOf, IsHeld
    <3> QED BY <3>3, <3>4, <3>5 DEF HeldOf
  <2>6. CASE d /= c
    <3>1. IsHeld(d)' <=> IsHeld(d) BY <2>1, <2>2, <2>3, <2>4, <2>6 DEF IsHeld
    <3> QED BY <1>0, <2>1, <2>2, <2>3, <2>6, <3>1, Release
  <2> QED BY <2>5, <2>6
<1>14. Holds' BY <1>13 DEF Holds
<1> QED BY <1>0, <1>4, <1>6, <1>7, <1>9, <1>10, <1>11, <1>12, <1>14, Frame, ZenonT(30) DEF HInv, Types

LEMMA HoldDropped ==
  ASSUME HInv, NEW s \in Server, accept_thread_proc(s),
         shutdown_requested[s] \/ After(back_pos[s]) = front_pos[s]
  PROVE  HInv'
<1> DEFINE c  == client_fd[s]
           pc == IF shutdown_requested[s] THEN "exited" ELSE "poll"
<1>1. /\ accepting[s] = "enqueue" /\ accepting' = [accepting EXCEPT ![s] = pc]
      /\ client_fd' = [client_fd EXCEPT ![s] = None]
      /\ Close({c})
      /\ worker' \in {worker, Woken(s)}
      /\ UNCHANGED <<path, path_lock, robbed, main, shutdown_requested, backlog, fd, client, tries,
                     fifo_fds, front_pos, back_pos>>
  BY DEF accept_thread_proc, fifo_enqueue, file, queue, peers
<1>2. accepting \in [Server -> AcceptPC] /\ client_fd \in [Server -> Conn \cup {None}]
  BY DEF HInv, Types, AcceptTypes
<1>3. c \in Conn => conn[c] = "open" BY DEF HInv, Holds, HeldOf, IsHeld, Accepted
<1>4. \A t \in Server : main'[t] \in {"off", "ping"} => main[t] = main'[t] BY <1>1
<1>5. /\ \A d \in Conn : conn'[d] = IF d \in {c} THEN "closed" ELSE conn[d]
      /\ ConnTypes' /\ Unconnected' /\ Backlogged'
  BY <1>1, <1>3, <1>4, Closing
<1>6. AcceptTypes' BY <1>1, <1>2 DEF AcceptTypes, AcceptPC
<1>7. /\ accepting'[s] = pc /\ client_fd'[s] = None
      /\ \A t \in Server : t /= s => accepting'[t] = accepting[t] /\ client_fd'[t] = client_fd[t]
  BY <1>1, <1>2
<1>8. /\ WorkerTypes' /\ Workers'
      /\ \A t \in Server : \A w \in Pool(t) :
            worker[w] \in {"absent", "exited"} => worker'[w] = worker[w]
  BY <1>1, WokenFacts, PoolFrame
<1>9. Accepts'
  <2>1. AcceptOf(s)' BY <1>1, <1>7 DEF HInv, Accepts, AcceptOf
  <2>2. \A t \in Server : t /= s => AcceptOf(t)' BY <1>1, <1>7 DEF HInv, Accepts, AcceptOf
  <2> QED BY <2>1, <2>2 DEF Accepts
<1>10. Threads'
  <2>1. ~NoThreads(s) /\ ~ThreadsEnded(s) BY <1>1 DEF NoThreads, ThreadsEnded
  <2>2. \A t \in Server : t /= s /\ NoThreads(t) => NoThreads(t)'
    BY <1>1, <1>7, <1>8 DEF NoThreads
  <2>3. \A t \in Server : t /= s /\ ThreadsEnded(t) => ThreadsEnded(t)'
    BY <1>7, <1>8 DEF ThreadsEnded
  <2> QED BY <1>1, <2>1, <2>2, <2>3 DEF HInv, Threads, ThreadsOf
<1>11. ASSUME NEW d \in Conn PROVE UniqueOf(d)' /\ HeldOf(d)'
  <2>1. \A w \in Worker : Served(w, d)' <=> Served(w, d) BY <1>1 DEF Served
  <2>2. \A t \in Server : Accepted(t, d)' <=> t /= s /\ Accepted(t, d)
    BY <1>7, NameAssumption DEF Accepted
  <2>3. \A t \in Server, k \in Slot : InRing(t, k, d)' <=> InRing(t, k, d)
    BY <1>1 DEF InRing, InUse
  <2>4. Accepted(s, d) <=> d = c BY DEF Accepted
  <2> HIDE DEF c
  <2>5. CASE d = c
    <3>1. UniqueOf(d) BY DEF HInv, Holds
    <3>2. ~IsHeld(d)' BY <2>1, <2>2, <2>3, <2>4, <2>5, <3>1 DEF UniqueOf, IsHeld
    <3> QED BY <1>5, <2>1, <2>2, <2>3, <2>5, <3>2, Release
  <2>6. CASE d /= c
    <3>1. IsHeld(d)' <=> IsHeld(d) BY <2>1, <2>2, <2>3, <2>4, <2>6 DEF IsHeld
    <3> QED BY <1>5, <2>1, <2>2, <2>3, <2>6, <3>1, Release
  <2> QED BY <2>5, <2>6
<1>12. Holds' BY <1>11 DEF Holds
<1> QED BY <1>1, <1>5, <1>6, <1>8, <1>9, <1>10, <1>12, Frame DEF HInv, Types

(* A worker takes a connection from the ring, sleeps or ends.              *)
LEMMA HoldDequeue ==
  ASSUME HInv, NEW w \in Worker, worker_thread__wait_for_connection(w)
  PROVE  HInv'
<1> DEFINE s == w[1]
<1>1. s \in Server /\ w \in Pool(s) /\ worker[w] = "wait"
  BY PoolFacts DEF worker_thread__wait_for_connection
<1>2. UNCHANGED <<path, path_lock, robbed, main, shutdown_requested, backlog, accepting, client_fd, conn,
                  client, tries>>
  BY DEF worker_thread__wait_for_connection, file, peers
<1>3. CASE worker' \in {[worker EXCEPT ![w] = "exited"], [worker EXCEPT ![w] = "asleep"]}
           /\ UNCHANGED <<queue, fd>>
  <2>1. UNCHANGED <<fifo_fds, front_pos, back_pos, fd>> BY <1>3 DEF queue
  <2>2. PICK pc \in {"exited", "asleep"} : worker' = [worker EXCEPT ![w] = pc] BY <1>3
  <2> QED BY <1>1, <1>2, <2>1, <2>2, WorkerMoves, ZenonT(30) DEF WorkerPC
<1>4. CASE /\ ~shutdown_requested[s] /\ front_pos[s] /= back_pos[s]
           /\ fd' = [fd EXCEPT ![w] = fifo_fds[s][front_pos[s]]]
           /\ fifo_dequeue(s)
           /\ worker' = [worker EXCEPT ![w] = "poll"]
  <2> DEFINE f == front_pos[s]
             c == fifo_fds[s][f]
  <2>1. /\ fifo_fds' = [fifo_fds EXCEPT ![s][f] = None]
        /\ front_pos' = [front_pos EXCEPT ![s] = After(@)]
        /\ UNCHANGED back_pos
    BY <1>4 DEF fifo_dequeue
  <2>2. /\ PosTypes /\ fifo_fds \in [Server -> [Slot -> Conn \cup {None}]]
        /\ worker \in [Worker -> WorkerPC] /\ fd \in [Worker -> Conn \cup {None}]
    BY DEF HInv, Types, RingTypes, WorkerTypes
  <2>3. /\ PosTypes'
        /\ f \in Slot /\ f \in InUse(s)
        /\ InUse(s)' = InUse(s) \ {f}
        /\ \A t \in Server : t /= s => InUse(t)' = InUse(t)
    BY <1>1, <1>4, <2>1, <2>2, RingTake, ZenonT(30)
  <2>4. \A t \in Server : t /= s => front_pos'[t] = front_pos[t] BY <2>1, <2>2 DEF PosTypes
  <2>5. c \in Conn /\ c /= None BY <1>1, <2>2, <2>3 DEF HInv, Rings, RingOf
  <2>6. fd[w] = None BY <1>1 DEF HInv, Workers, WorkerOf
  <2>7. \A d \in Conn : InRing(s, f, d) <=> d = c BY <2>3 DEF InRing
  <2>8. fd' = [fd EXCEPT ![w] = c] BY <1>4
  <2> HIDE DEF f, c, s
  <2>9. /\ RingTypes'
        /\ \A k \in Slot : k /= f => fifo_fds'[s][k] = fifo_fds[s][k]
        /\ \A t \in Server : t /= s => fifo_fds'[t] = fifo_fds[t]
    BY <1>1, <2>1, <2>2, <2>3 DEF RingTypes
  <2>10. WorkerTypes' BY <1>4, <2>2, <2>5, <2>8 DEF WorkerTypes, WorkerPC
  <2>11. /\ worker'[w] = "poll" /\ fd'[w] = c
         /\ \A v \in Worker : v /= w => worker'[v] = worker[v] /\ fd'[v] = fd[v]
    BY <1>4, <2>2, <2>8
  <2>12. Workers' BY <2>5, <2>11 DEF HInv, Workers, WorkerOf
  <2>13. Accepts' BY <1>1, <1>2, <1>4, <2>1, <2>4 DEF HInv, Accepts, AcceptOf
  <2>14. Threads'
    <3>1. ~NoThreads(s) /\ ~ThreadsEnded(s) BY <1>1 DEF NoThreads, ThreadsEnded
    <3>2. \A t \in Server : t /= s => w \notin Pool(t) BY <1>1, PoolFacts
    <3>3. \A t \in Server : t /= s => /\ NoThreads(t) => NoThreads(t)'
                                      /\ ThreadsEnded(t) => ThreadsEnded(t)'
      BY <1>2, <2>1, <2>4, <2>11, <3>2, PoolFacts DEF NoThreads, ThreadsEnded
    <3> QED BY <1>1, <1>2, <3>1, <3>3 DEF HInv, Threads, ThreadsOf
  <2>15. Rings' BY <2>3, <2>9 DEF HInv, Rings, RingOf, InUse
  <2>16. ASSUME NEW d \in Conn PROVE UniqueOf(d)' /\ HeldOf(d)'
    <3>1. \A t \in Server : Accepted(t, d)' <=> Accepted(t, d) BY <1>2 DEF Accepted
    <3>2. \A v \in Worker : Served(v, d)' <=> Served(v, d) \/ (v = w /\ d = c)
      BY <2>6, <2>11, NameAssumption DEF Served
    <3>3. \A t \in Server, k \in Slot : InRing(t, k, d)' <=> InRing(t, k, d) /\ ~(t = s /\ k = f)
      BY <2>3, <2>9 DEF InRing
    <3>4. CASE d = c
      <4>1. UniqueOf(d) /\ InRing(s, f, d) BY <2>7, <3>4 DEF HInv, Holds
      <4>2. /\ \A v \in Worker : ~Served(v, d)
            /\ \A t \in Server : ~Accepted(t, d)
            /\ \A t \in Server, k \in Slot : InRing(t, k, d) => t = s /\ k = f
        BY <1>1, <2>3, <4>1 DEF UniqueOf
      <4>3. UniqueOf(d)' BY <3>1, <3>2, <3>3, <4>2 DEF UniqueOf
      <4>4. IsHeld(d)' BY <3>2, <3>4 DEF IsHeld
      <4>5. conn'[d] = "open" BY <1>1, <1>2, <2>3, <4>1 DEF HInv, Holds, HeldOf, IsHeld
      <4> QED BY <4>3, <4>4, <4>5 DEF HeldOf
    <3>5. CASE d /= c
      <4>1. \A t \in Server, k \in Slot : InRing(t, k, d)' <=> InRing(t, k, d) BY <2>7, <3>3, <3>5
      <4>2. \A v \in Worker : Served(v, d)' <=> Served(v, d) BY <3>2, <3>5
      <4>3. IsHeld(d)' <=> IsHeld(d) BY <3>1, <4>1, <4>2 DEF IsHeld
      <4> QED BY <1>2, <3>1, <4>1, <4>2, <4>3, Release
    <3> QED BY <3>4, <3>5
  <2>17. Holds' BY <2>16 DEF Holds
  <2> QED BY <1>2, <2>3, <2>9, <2>10, <2>12, <2>13, <2>14, <2>15, <2>17, Frame DEF HInv, Types
<1> QED BY <1>3, <1>4 DEF worker_thread__wait_for_connection

(* A worker closes its connection.                                         *)
LEMMA HoldClosed ==
  ASSUME HInv, NEW w \in Worker, worker[w] \in {"poll", "io"}, Close({fd[w]}),
         fd' = [fd EXCEPT ![w] = None],
         NEW pc \in {"wait", "quit"}, worker' = [worker EXCEPT ![w] = pc],
         UNCHANGED <<path, path_lock, robbed, main, shutdown_requested, backlog, fifo_fds, front_pos, back_pos,
                     accepting, client_fd, client, tries>>
  PROVE  HInv'
<1> DEFINE c == fd[w]
<1>1. worker \in [Worker -> WorkerPC] /\ fd \in [Worker -> Conn \cup {None}] BY DEF HInv, Types, WorkerTypes
<1>2. c \in Conn BY <1>1 DEF HInv, Workers, WorkerOf
<1>3. conn[c] = "open" BY <1>2 DEF HInv, Holds, HeldOf, IsHeld, Served
<1>4. \A t \in Server : main'[t] \in {"off", "ping"} => main[t] = main'[t] OBVIOUS
<1>5. /\ \A d \in Conn : conn'[d] = IF d \in {c} THEN "closed" ELSE conn[d]
      /\ ConnTypes' /\ Unconnected' /\ Backlogged'
  BY <1>3, <1>4, Closing
<1>6. /\ worker'[w] = pc /\ fd'[w] = None
      /\ \A v \in Worker : v /= w => worker'[v] = worker[v] /\ fd'[v] = fd[v]
  BY <1>1
<1>7. WorkerTypes' BY <1>1 DEF WorkerTypes, WorkerPC
<1>8. Workers' BY <1>6 DEF HInv, Workers, WorkerOf
<1>9. Threads'
  <2>1. \A v \in Worker : worker[v] \in {"absent", "exited"} => worker'[v] = worker[v] BY <1>6
  <2> QED BY <2>1, PoolFacts DEF HInv, Threads, ThreadsOf, NoThreads, ThreadsEnded
<1>10. ASSUME NEW d \in Conn PROVE UniqueOf(d)' /\ HeldOf(d)'
  <2>1. \A t \in Server : Accepted(t, d)' <=> Accepted(t, d) BY DEF Accepted
  <2>2. \A v \in Worker : Served(v, d)' <=> v /= w /\ Served(v, d)
    BY <1>6, NameAssumption DEF Served
  <2>3. \A t \in Server, k \in Slot : InRing(t, k, d)' <=> InRing(t, k, d)
    BY DEF InRing, InUse
  <2>4. Served(w, d) <=> d = c BY DEF Served
  <2> HIDE DEF c
  <2>5. CASE d = c
    <3>1. UniqueOf(d) BY DEF HInv, Holds
    <3>2. ~IsHeld(d)' BY <2>1, <2>2, <2>3, <2>4, <2>5, <3>1 DEF UniqueOf, IsHeld
    <3> QED BY <1>5, <2>1, <2>2, <2>3, <2>5, <3>2, Release, ZenonT(30)
  <2>6. CASE d /= c
    <3>1. IsHeld(d)' <=> IsHeld(d) BY <2>1, <2>2, <2>3, <2>4, <2>6 DEF IsHeld
    <3> QED BY <1>5, <2>1, <2>2, <2>3, <2>6, <3>1, Release
  <2> QED BY <2>5, <2>6
<1>11. Holds' BY <1>10 DEF Holds
<1> QED BY <1>5, <1>7, <1>8, <1>9, <1>11, Frame DEF HInv, Types

LEMMA HoldRequest ==
  ASSUME HInv, NEW w \in Worker,
         worker_thread__wait_for_io_start(w) \/ worker_thread__do_io(w)
  PROVE  HInv'
<1>1. /\ UNCHANGED <<path, path_lock, robbed, main, shutdown_requested, backlog, fifo_fds, front_pos, back_pos,
                     accepting, client_fd, client, tries>>
      /\ worker[w] \in {"poll", "io"}
  BY DEF worker_thread__wait_for_io_start, worker_thread__do_io, file, queue, peers
<1>2. ASSUME Close({fd[w]}), fd' = [fd EXCEPT ![w] = None],
             NEW pc \in {"wait", "quit"}, worker' = [worker EXCEPT ![w] = pc]
      PROVE  HInv'
  BY <1>1, <1>2, HoldClosed, ZenonT(30)
<1>3. CASE worker' = [worker EXCEPT ![w] = "io"] /\ UNCHANGED <<conn, fd>>
  BY <1>1, <1>3, WorkerMoves, ZenonT(30) DEF WorkerPC
<1> QED BY <1>2, <1>3 DEF worker_thread__wait_for_io_start, worker_thread__do_io, Drop

(* A server ends, and with it what it holds or has in its backlog.         *)
LeftBehind(s, C) ==
    \A d \in Conn : d \in C <=> \/ \E m \in 1 .. Len(backlog[s]) : backlog[s][m] = d
                                \/ Accepted(s, d)
                                \/ \E w \in Pool(s) : Served(w, d)
                                \/ \E k \in Slot : InRing(s, k, d)

LEMMA HoldEnd ==
  ASSUME HInv, NEW s \in Server, NEW C, End(s, C),
         LeftBehind(s, C)
  PROVE  HInv'
<1>1. /\ main' = [main EXCEPT ![s] = "gone"]
      /\ robbed' = robbed \ {s}
      /\ shutdown_requested' = [shutdown_requested EXCEPT ![s] = FALSE]
      /\ backlog' = [backlog EXCEPT ![s] = <<>>]
      /\ fifo_fds' = [fifo_fds EXCEPT ![s] = [k \in Slot |-> None]]
      /\ front_pos' = [front_pos EXCEPT ![s] = 0]
      /\ back_pos' = [back_pos EXCEPT ![s] = 0]
  BY DEF End, Goto
<1>0. UNCHANGED <<path, path_lock, client, tries>> BY DEF End, peers
<1>2. /\ conn' = [c \in Conn |-> IF c \in C THEN "closed" ELSE conn[c]]
      /\ accepting' = [accepting EXCEPT ![s] = "absent"]
      /\ client_fd' = [client_fd EXCEPT ![s] = None]
      /\ worker' = [w \in Worker |-> IF w \in Pool(s) THEN "absent" ELSE worker[w]]
      /\ fd' = [w \in Worker |-> IF w \in Pool(s) THEN None ELSE fd[w]]
  BY DEF End, Close
<1>3. /\ main \in [Server -> MainPC] /\ shutdown_requested \in [Server -> BOOLEAN]
      /\ backlog \in [Server -> Seq(Conn)]
      /\ fifo_fds \in [Server -> [Slot -> Conn \cup {None}]]
      /\ front_pos \in [Server -> Slot] /\ back_pos \in [Server -> Slot]
  BY DEF HInv, Types, MainTypes, StopTypes, BacklogTypes, RingTypes, PosTypes
<1>4. /\ accepting \in [Server -> AcceptPC] /\ client_fd \in [Server -> Conn \cup {None}]
      /\ worker \in [Worker -> WorkerPC] /\ fd \in [Worker -> Conn \cup {None}]
      /\ conn \in [Conn -> ConnState]
  BY DEF HInv, Types, AcceptTypes, WorkerTypes, ConnTypes
<1>5. \A t \in Server : t /= s => /\ main'[t] = main[t]
                                  /\ shutdown_requested'[t] = shutdown_requested[t]
                                  /\ backlog'[t] = backlog[t] /\ fifo_fds'[t] = fifo_fds[t]
                                  /\ front_pos'[t] = front_pos[t] /\ back_pos'[t] = back_pos[t]
  BY <1>1, <1>3
<1>6. \A t \in Server : t /= s => accepting'[t] = accepting[t] /\ client_fd'[t] = client_fd[t]
  BY <1>2, <1>4
<1>7. /\ main'[s] = "gone" /\ shutdown_requested'[s] = FALSE /\ backlog'[s] = <<>>
      /\ front_pos'[s] = 0 /\ back_pos'[s] = 0 /\ accepting'[s] = "absent" /\ client_fd'[s] = None
  BY <1>1, <1>2, <1>3, <1>4
<1>8. \A w \in Worker : IF w \in Pool(s) THEN worker'[w] = "absent" /\ fd'[w] = None
                                         ELSE worker'[w] = worker[w] /\ fd'[w] = fd[w]
  BY <1>2
<1>9. \A d \in Conn : conn'[d] = IF d \in C THEN "closed" ELSE conn[d] BY <1>2
<1>10. Types'
  <2>1. FileTypes' BY <1>0, <1>1 DEF HInv, Types, FileTypes
  <2>2. MainTypes' BY <1>1, <1>3 DEF MainTypes, MainPC
  <2>3. StopTypes' BY <1>1, <1>3 DEF StopTypes
  <2>4. BacklogTypes' BY <1>1, <1>3 DEF BacklogTypes
  <2>5. RingTypes' BY <1>1, <1>3 DEF RingTypes
  <2>6. PosTypes' BY <1>1, <1>3, SizeAssumption DEF PosTypes, Slot
  <2>7. AcceptTypes' BY <1>2, <1>4 DEF AcceptTypes, AcceptPC
  <2>8. WorkerTypes' BY <1>2, <1>4 DEF WorkerTypes, WorkerPC
  <2>9. ConnTypes' BY <1>2, <1>4 DEF ConnTypes, ConnState
  <2>10. ClientTypes' BY <1>0, Frame
  <2> QED BY <2>1, <2>2, <2>3, <2>4, <2>5, <2>6, <2>7, <2>8, <2>9, <2>10 DEF Types
<1>11. Accepts'
  <2>1. AcceptOf(s)' BY <1>7 DEF AcceptOf
  <2>2. \A t \in Server : t /= s => AcceptOf(t)' BY <1>5, <1>6 DEF HInv, Accepts, AcceptOf
  <2> QED BY <2>1, <2>2 DEF Accepts
<1>12. Threads'
  <2>1. ThreadsOf(s)' BY <1>7, <1>8, PoolFacts DEF ThreadsOf, NoThreads, Late
  <2>2. \A t \in Server : t /= s => \A w \in Pool(t) : worker'[w] = worker[w] BY <1>8, PoolFacts
  <2>3. \A t \in Server : t /= s => /\ NoThreads(t) => NoThreads(t)'
                                    /\ ThreadsEnded(t) => ThreadsEnded(t)'
    BY <1>5, <1>6, <2>2 DEF NoThreads, ThreadsEnded
  <2>4. \A t \in Server : t /= s => ThreadsOf(t)' BY <1>5, <2>3 DEF HInv, Threads, ThreadsOf
  <2> QED BY <2>1, <2>4 DEF Threads
<1>13. Workers' BY <1>8 DEF HInv, Workers, WorkerOf
<1>14. \A d \in C : d \in Conn => conn[d] \in {"open", "backlog"}
  BY PoolFacts DEF LeftBehind, HInv, Holds, HeldOf, IsHeld, Backlogged
<1>15. Unconnected'
  <2>1. \A c \in Client : c \in Conn BY DEF Conn
  <2>2. \A t \in Server : t \in Conn BY DEF Conn
  <2>3. \A d \in Conn : conn[d] = "none" => conn'[d] = "none" BY <1>9, <1>14
  <2> QED BY <1>0, <1>5, <1>7, <2>1, <2>2, <2>3 DEF HInv, Unconnected
<1>16. Backlogged'
  <2>1. \A m \in 1 .. Len(backlog'[s]) : FALSE BY <1>7
  <2>2. ASSUME NEW t \in Server, t /= s, NEW m \in 1 .. Len(backlog[t])
        PROVE  conn'[backlog[t][m]] = "backlog"
    <3> DEFINE d == backlog[t][m]
    <3>1. d \in Conn /\ conn[d] = "backlog" BY <1>3 DEF HInv, Backlogged
    <3>2. ~IsHeld(d) BY <3>1 DEF HInv, Holds, HeldOf
    <3>3. \A n \in 1 .. Len(backlog[s]) : backlog[s][n] /= d BY <2>2 DEF HInv, Backlogged
    <3> HIDE DEF d
    <3>4. d \notin C BY <3>1, <3>2, <3>3, PoolFacts DEF LeftBehind, IsHeld
    <3>5. conn'[d] = "backlog" BY <1>9, <3>1, <3>4
    <3> QED BY <3>5 DEF d
  <2>3. \A t \in Server : \A m \in 1 .. Len(backlog'[t]) : t /= s /\ backlog'[t] = backlog[t]
    BY <1>5, <2>1
  <2> QED BY <2>2, <2>3 DEF HInv, Backlogged
<1>17. InUse(s)' = {} BY <1>7, SizeAssumption DEF InUse, Slot
<1>18. \A t \in Server : t /= s => InUse(t)' = InUse(t) BY <1>5 DEF InUse
<1>19. Rings' BY <1>5, <1>17, <1>18 DEF HInv, Rings, RingOf
<1>20. ASSUME NEW d \in Conn PROVE UniqueOf(d)' /\ HeldOf(d)'
  <2>1. d /= None BY NameAssumption
  <2>2. \A t \in Server : Accepted(t, d)' <=> t /= s /\ Accepted(t, d) BY <1>6, <1>7, <2>1 DEF Accepted
  <2>3. \A w \in Worker : Served(w, d)' <=> w \notin Pool(s) /\ Served(w, d) BY <1>8, <2>1 DEF Served
  <2>4. \A t \in Server, k \in Slot : InRing(t, k, d)' <=> t /= s /\ InRing(t, k, d)
    BY <1>5, <1>17, <1>18 DEF InRing
  <2>5. UniqueOf(d) /\ HeldOf(d) BY DEF HInv, Holds
  <2>6. CASE d \in C
    <3>1. CASE \E m \in 1 .. Len(backlog[s]) : backlog[s][m] = d
      <4>1. ~IsHeld(d) BY <2>5, <3>1 DEF HInv, HeldOf, Backlogged
      <4>2. ~IsHeld(d)' BY <2>2, <2>3, <2>4, <4>1 DEF IsHeld
      <4> QED BY <1>9, <2>2, <2>3, <2>4, <2>6, <4>2, Release, ZenonT(30)
    <3>2. CASE Accepted(s, d) \/ (\E w \in Pool(s) : Served(w, d)) \/ \E k \in Slot : InRing(s, k, d)
      <4>1. ~IsHeld(d)' BY <2>2, <2>3, <2>4, <2>5, <3>2, PoolFacts DEF IsHeld, UniqueOf
      <4> QED BY <1>9, <2>2, <2>3, <2>4, <2>6, <4>1, Release, ZenonT(30)
    <3> QED BY <2>6, <3>1, <3>2 DEF LeftBehind
  <2>7. CASE d \notin C
    <3>1. IsHeld(d)' <=> IsHeld(d) BY <2>2, <2>3, <2>4, <2>7, ZenonT(30) DEF LeftBehind, IsHeld
    <3> QED BY <1>9, <2>2, <2>3, <2>4, <2>7, <3>1, Release, ZenonT(30)
  <2> QED BY <2>6, <2>7
<1>21. Holds' BY <1>20 DEF Holds
<1> QED BY <1>10, <1>11, <1>12, <1>13, <1>15, <1>16, <1>19, <1>21 DEF HInv

LEMMA HoldKill ==
  ASSUME HInv, NEW s \in Server, Kill(s)
  PROVE  HInv'
<1> DEFINE C == Range(backlog[s]) \cup Queued(s) \cup {client_fd[s]} \cup {fd[w] : w \in Pool(s)}
<1>1. End(s, C) BY DEF Kill
<1>2. \A d \in Conn : d \in Range(backlog[s]) <=> \E m \in 1 .. Len(backlog[s]) : backlog[s][m] = d
  <2>1. DOMAIN backlog[s] = 1 .. Len(backlog[s]) BY DEF HInv, Types, BacklogTypes
  <2> QED BY <2>1 DEF Range
<1>3. \A d \in Conn : d \in Queued(s) <=> \E k \in Slot : InRing(s, k, d)
  BY DEF Queued, InRing, InUse
<1>4. \A d \in Conn : d \in C <=> \/ \E m \in 1 .. Len(backlog[s]) : backlog[s][m] = d
                                  \/ Accepted(s, d)
                                  \/ \E w \in Pool(s) : Served(w, d)
                                  \/ \E k \in Slot : InRing(s, k, d)
  BY <1>2, <1>3 DEF Accepted, Served
<1> HIDE DEF C
<1>5. LeftBehind(s, C) BY <1>4 DEF LeftBehind
<1> QED BY <1>1, <1>5, HoldEnd

LEMMA HoldCloseSocket ==
  ASSUME HInv, NEW s \in Server, CloseSocket(s)
  PROVE  HInv'
<1>1. End(s, Range(backlog[s])) /\ main[s] = "close" BY DEF CloseSocket
<1>2. \A d \in Conn : d \in Range(backlog[s]) <=> \E m \in 1 .. Len(backlog[s]) : backlog[s][m] = d
  <2>1. DOMAIN backlog[s] = 1 .. Len(backlog[s]) BY DEF HInv, Types, BacklogTypes
  <2> QED BY <2>1 DEF Range
<1>3. \A d \in Conn : /\ ~Accepted(s, d)
                      /\ \A w \in Pool(s) : ~Served(w, d)
                      /\ \A k \in Slot : ~InRing(s, k, d)
  <2>1. ThreadsEnded(s) BY <1>1 DEF HInv, Threads, ThreadsOf, Late
  <2>2. accepting[s] = "exited" /\ shutdown_requested[s] /\ front_pos[s] = back_pos[s]
    BY <2>1 DEF HInv, ThreadsEnded, Accepts, AcceptOf
  <2>3. client_fd[s] = None BY <2>2 DEF HInv, Accepts, AcceptOf
  <2>4. \A w \in Pool(s) : fd[w] = None BY <2>1, PoolFacts DEF HInv, ThreadsEnded, Workers, WorkerOf
  <2>5. InUse(s) = {} BY <2>2, RingEmpty DEF HInv, Types
  <2> QED BY <2>3, <2>4, <2>5, NameAssumption DEF Accepted, Served, InRing
<1>4. LeftBehind(s, Range(backlog[s])) BY <1>2, <1>3 DEF LeftBehind
<1> QED BY <1>1, <1>4, HoldEnd

-----------------------------------------------------------------------------
LEMMA HoldInductive == HInv /\ [Next]_vars => HInv'
<1> SUFFICES ASSUME HInv, [Next]_vars PROVE HInv' OBVIOUS
<1>1. ASSUME NEW s \in Server, hold_lock_file(s) \/ Main(s) \/ ApplicationStops(s) \/ AcceptThread(s) \/ Kill(s)
      PROVE  HInv'
  <2>1. CASE accept_thread_proc(s) BY <2>1, HoldEnqueue, HoldDropped
  <2> QED BY <1>1, <2>1, HoldLock, HoldBind, HoldMain, HoldPing, HoldServe, HoldServerStops, HoldCloseSocket,
             HoldAccept, HoldKill
       DEF Main, AcceptThread
<1>2. ASSUME NEW w \in Worker, WorkerThread(w) \/ SpuriousWakeup(w)
      PROVE  HInv'
  BY <1>2, HoldDequeue, HoldRequest, HoldQuit, HoldWakeup DEF WorkerThread
<1>3. ASSUME NEW c \in Client, Begin(c) \/ ClientStep(c) \/ HangUp(c)
      PROVE  HInv'
  BY <1>3, HoldClient, HoldConnect DEF ClientStep
<1>4. CASE UNCHANGED vars
  <2>1. UNCHANGED <<path, path_lock, robbed, main, shutdown_requested, backlog, fifo_fds, front_pos, back_pos,
                    accepting, client_fd, worker, fd, conn, client, tries>>
    BY <1>4 DEF vars, file, queue, threads, peers
  <2> QED BY <2>1, Frame DEF HInv, Types
<1> QED BY <1>1, <1>2, <1>3, <1>4, HoldDelete DEF Next

(* The holders of a connection, as OneHolder wants them.                   *)
LEMMA CountHolders ==
  ASSUME HInv, NEW c \in Conn
  PROVE  IF conn[c] = "open" THEN \E h \in Holders(c) : Holders(c) = {h} ELSE Holders(c) = {}
<1>1. UniqueOf(c) /\ HeldOf(c) BY DEF HInv, Holds
<1>2. \A x \in Holders(c) :
         \/ \E s \in Server : x = <<"accept_thread", s>> /\ Accepted(s, c)
         \/ \E w \in Worker : x = <<"worker", w>> /\ Served(w, c)
         \/ \E s \in Server, k \in Slot : x = <<"slot", <<s, k>>>> /\ InRing(s, k, c)
  <2>1. ASSUME NEW x \in {"slot"} \X {h \in Server \X Slot : h[2] \in InUse(h[1]) /\ fifo_fds[h[1]][h[2]] = c}
        PROVE  \E s \in Server, k \in Slot : x = <<"slot", <<s, k>>>> /\ InRing(s, k, c)
    <3>1. PICK h \in Server \X Slot : x = <<"slot", h>> /\ h[2] \in InUse(h[1]) /\ fifo_fds[h[1]][h[2]] = c
      OBVIOUS
    <3>2. h = <<h[1], h[2]>> /\ h[1] \in Server /\ h[2] \in Slot OBVIOUS
    <3> QED BY <3>1, <3>2 DEF InRing
  <2>2. ASSUME NEW x \in {"accept_thread"} \X {s \in Server : client_fd[s] = c}
        PROVE  \E s \in Server : x = <<"accept_thread", s>> /\ Accepted(s, c)
    <3>1. PICK s \in {t \in Server : client_fd[t] = c} : x = <<"accept_thread", s>> OBVIOUS
    <3> QED BY <3>1 DEF Accepted
  <2>3. ASSUME NEW x \in {"worker"} \X {w \in Worker : fd[w] = c}
        PROVE  \E w \in Worker : x = <<"worker", w>> /\ Served(w, c)
    <3>1. PICK w \in {v \in Worker : fd[v] = c} : x = <<"worker", w>> OBVIOUS
    <3> QED BY <3>1 DEF Served
  <2> QED BY <2>1, <2>2, <2>3 DEF Holders
<1>3. /\ \A s \in Server : Accepted(s, c) => <<"accept_thread", s>> \in Holders(c)
      /\ \A w \in Worker : Served(w, c) => <<"worker", w>> \in Holders(c)
      /\ \A s \in Server, k \in Slot : InRing(s, k, c) => <<"slot", <<s, k>>>> \in Holders(c)
  BY DEF Holders, Accepted, Served, InRing
<1>4. \A x, y \in Holders(c) : x = y BY <1>1, <1>2 DEF UniqueOf
<1>5. CASE conn[c] = "open"
  <2>1. IsHeld(c) BY <1>1, <1>5 DEF HeldOf
  <2>2. PICK x : x \in Holders(c) BY <1>3, <2>1, ZenonT(30) DEF IsHeld
  <2>3. Holders(c) = {x} BY <1>4, <2>2
  <2> QED BY <1>5, <2>2, <2>3
<1>6. CASE conn[c] /= "open"
  <2>1. ~IsHeld(c) BY <1>1, <1>6 DEF HeldOf
  <2>2. Holders(c) = {} BY <1>2, <2>1 DEF IsHeld
  <2> QED BY <1>6, <2>2
<1> QED BY <1>5, <1>6

(* For any number of servers, workers and clients and any size of the      *)
(* ring, an accepted connection has one holder until it is closed, and a   *)
(* closed one has none: accept_thread_proc, fifo_enqueue, fifo_dequeue,    *)
(* the workers and every way to stop a server hand connections over        *)
(* without losing, doubling or leaking one.                                *)
THEOREM ConnectionsHaveOneHolder == Spec => []OneHolder
<1>1. HInv => OneHolder BY CountHolders DEF OneHolder
<1> QED BY <1>1, HoldInit, HoldInductive, PTL DEF Spec

(* The state stays within its type.                                        *)
THEOREM TypeCorrect == Spec => []TypeOK
<1>1. HInv => TypeOK BY TypesAreTypeOK DEF HInv
<1> QED BY <1>1, HoldInit, HoldInductive, PTL DEF Spec

=============================================================================
