-------------------------- MODULE SimpleIpcProofs --------------------------
(***************************************************************************)
(* Proofs about SimpleIpc for any number of servers, clients and worker    *)
(* threads and any size of the ring.  First, servers do not take the       *)
(* socket file away from each other.  Then the invariant HInv of the       *)
(* threads and of the connections they hold, with the steps up to          *)
(* Accept that keep it; module SimpleIpcHolderProofs has the other steps   *)
(* and what follows.                                                       *)
(***************************************************************************)
EXTENDS SimpleIpc, TLAPS

-----------------------------------------------------------------------------
(* The inductive invariant.                                                *)

(* The servers whose socket file is theirs to remove.                      *)
Owning == {"listen", "unlock", "ready", "await", "free", "unlink"}

FileType ==
    /\ path \in Server \cup {None}
    /\ path_lock \in Server \cup {None}
    /\ robbed \in SUBSET Server
    /\ main \in [Server -> MainPC]

(* A server has the lock from its ping until it listens.                   *)
HasLock == \A s \in Server : main[s] \in {"ping", "bind", "listen", "unlock"} => path_lock = s

(* The file of a server that is there was bound by it, and an outsider has *)
(* not deleted it.                                                         *)
FileIsBound ==
    \A s \in Server :
        /\ path = s => main[s] \notin {"off", "ping", "bind"} /\ s \notin robbed
        /\ main[s] \in {"off", "ping", "bind"} => s \notin robbed

(* The server that is about to bind has seen that nobody listens, and the  *)
(* lock keeps it so.                                                       *)
NobodyListens ==
    \A s, t \in Server : main[s] = "bind" /\ main[t] \in Owning => t \in robbed

(* The one that is about to unlink the file still has it.                  *)
FileIsThere == \A s \in Server : main[s] = "unlink" => path = s

IInv ==
    /\ FileType /\ HasLock /\ FileIsBound /\ NobodyListens /\ FileIsThere
    /\ ServersDoNotSteal

-----------------------------------------------------------------------------
LEMMA InitInv == Init => IInv
  BY NameAssumption DEF Init, IInv, FileType, HasLock, FileIsBound, NobodyListens, FileIsThere,
     ServersDoNotSteal, MainPC, Conn, Owning

(* What most steps do: the file stays and at most one server moves on.     *)
LEMMA UnchangedFile == IInv /\ UNCHANGED <<file, main>> => IInv'
  BY DEF IInv, FileType, HasLock, FileIsBound, NobodyListens, FileIsThere,
     ServersDoNotSteal, file

(* A server that has its file goes on without touching it.                 *)
LEMMA GoesOn ==
  ASSUME IInv, NEW s \in Server, NEW l \in {"ready", "await", "free", "close"},
         main[s] \in Owning \ {"listen", "unlock"},
         UNCHANGED file, main' = [main EXCEPT ![s] = l]
  PROVE  IInv'
  BY DEF IInv, FileType, HasLock, FileIsBound, NobodyListens, FileIsThere,
     ServersDoNotSteal, file, MainPC, Owning

LEMMA HoldStep ==
  ASSUME IInv, NEW s \in Server, hold_lock_file(s)
  PROVE  IInv'
  BY NameAssumption DEF IInv, FileType, HasLock, FileIsBound, NobodyListens, FileIsThere,
     ServersDoNotSteal, MainPC, Owning, hold_lock_file, Goto, Conn

LEMMA PingStep ==
  ASSUME IInv, NEW s \in Server, is_another_server_alive(s)
  PROVE  IInv'
  BY NameAssumption DEF IInv, FileType, HasLock, FileIsBound, NobodyListens, FileIsThere,
     ServersDoNotSteal, MainPC, Owning, is_another_server_alive, Goto, Conn, Connects, Listening

LEMMA BindStep ==
  ASSUME IInv, NEW s \in Server, Bind(s)
  PROVE  IInv'
  BY NameAssumption DEF IInv, FileType, HasLock, FileIsBound, NobodyListens, FileIsThere,
     ServersDoNotSteal, MainPC, Owning, Bind, Goto, Conn

LEMMA ListenStep ==
  ASSUME IInv, NEW s \in Server, Listen(s)
  PROVE  IInv'
  BY NameAssumption DEF IInv, FileType, HasLock, FileIsBound, NobodyListens, FileIsThere,
     ServersDoNotSteal, MainPC, Owning, Listen, Goto, Conn

LEMMA ServeStep ==
  ASSUME IInv, NEW s \in Server, ipc_server_init_async(s)
  PROVE  IInv'
  BY NameAssumption DEF IInv, FileType, HasLock, FileIsBound, NobodyListens, FileIsThere,
     ServersDoNotSteal, MainPC, Owning, ipc_server_init_async, Goto, Conn

LEMMA FreeStep ==
  ASSUME IInv, NEW s \in Server, ipc_server_free(s)
  PROVE  IInv'
  BY NameAssumption DEF IInv, FileType, HasLock, FileIsBound, NobodyListens, FileIsThere,
     ServersDoNotSteal, MainPC, Owning, ipc_server_free, unix_ss_was_stolen, Goto, Conn, file

LEMMA UnlinkStep ==
  ASSUME IInv, NEW s \in Server, Unlink(s)
  PROVE  IInv'
  BY NameAssumption DEF IInv, FileType, HasLock, FileIsBound, NobodyListens, FileIsThere,
     ServersDoNotSteal, MainPC, Owning, Unlink, Goto, Conn

(* A server ends, by itself or killed.                                     *)
LEMMA EndStep ==
  ASSUME IInv, NEW s \in Server, NEW C, main[s] \notin {"off", "gone"}, End(s, C)
  PROVE  IInv'
  BY NameAssumption DEF IInv, FileType, HasLock, FileIsBound, NobodyListens, FileIsThere,
     ServersDoNotSteal, MainPC, Owning, End, Goto, Conn

LEMMA DeleteStep ==
  ASSUME IInv, Delete
  PROVE  IInv'
  BY NameAssumption DEF IInv, FileType, HasLock, FileIsBound, NobodyListens, FileIsThere,
     ServersDoNotSteal, MainPC, Owning, Delete, Conn

LEMMA MainStep ==
  ASSUME IInv, NEW s \in Server, Main(s)
  PROVE  IInv'
<1>1. CASE is_another_server_alive(s) BY <1>1, PingStep
<1>2. CASE Bind(s) BY <1>2, BindStep
<1>3. CASE Listen(s) BY <1>3, ListenStep
<1>4. CASE ipc_server_init_async(s) BY <1>4, ServeStep
<1>5. CASE ipc_server_start_async(s) BY <1>5, GoesOn, ZenonT(30) DEF ipc_server_start_async, Goto, Owning
<1>6. CASE StopBeforeStart(s) BY <1>6, GoesOn, ZenonT(30) DEF StopBeforeStart, Goto, Owning
<1>7. CASE ipc_server_await(s) BY <1>7, GoesOn, ZenonT(30) DEF ipc_server_await, Goto, Owning
<1>8. CASE ipc_server_free(s) BY <1>8, FreeStep
<1>9. CASE Unlink(s) BY <1>9, UnlinkStep
<1>10. CASE CloseSocket(s) BY <1>10, EndStep DEF CloseSocket
<1> QED BY <1>1, <1>2, <1>3, <1>4, <1>5, <1>6, <1>7, <1>8, <1>9, <1>10 DEF Main

LEMMA Inductive == IInv /\ [Next]_vars => IInv'
<1> SUFFICES ASSUME IInv, [Next]_vars PROVE IInv' OBVIOUS
<1>1. ASSUME NEW s \in Server, hold_lock_file(s) PROVE IInv' BY <1>1, HoldStep
<1>2. ASSUME NEW s \in Server, Main(s) PROVE IInv' BY <1>2, MainStep
<1>3. ASSUME NEW s \in Server, ApplicationStops(s) PROVE IInv'
  BY <1>3, UnchangedFile DEF ApplicationStops
<1>4. ASSUME NEW s \in Server, AcceptThread(s) PROVE IInv'
  BY <1>4, UnchangedFile DEF AcceptThread, Accept, AcceptTimeout, accept_thread_proc
<1>5. ASSUME NEW s \in Server, Kill(s) PROVE IInv' BY <1>5, EndStep DEF Kill
<1>6. ASSUME NEW w \in Worker, WorkerThread(w) \/ SpuriousWakeup(w) PROVE IInv'
  BY <1>6, UnchangedFile
     DEF WorkerThread, worker_thread__wait_for_connection, worker_thread__wait_for_io_start,
         worker_thread__do_io, worker_thread_proc, SpuriousWakeup
<1>7. ASSUME NEW c \in Client, Begin(c) \/ ClientStep(c) \/ HangUp(c) PROVE IInv'
  BY <1>7, UnchangedFile
     DEF Begin, ClientStep, connect_to_server, ipc_client_send_command, HangUp
<1>8. CASE Delete BY <1>8, DeleteStep
<1>9. CASE UNCHANGED vars BY <1>9, UnchangedFile DEF vars
<1> QED BY <1>1, <1>2, <1>3, <1>4, <1>5, <1>6, <1>7, <1>8, <1>9 DEF Next

(***************************************************************************)
(* However many servers start and stop at one path, are killed or lose     *)
(* their file to an outsider, none unlinks or replaces the socket file on  *)
(* which another one listens (unix_ss_create, unix_ss_free).               *)
(***************************************************************************)
THEOREM ServersKeepTheirSockets == Spec => []ServersDoNotSteal
<1>1. IInv => ServersDoNotSteal BY DEF IInv
<1> QED BY InitInv, Inductive, <1>1, PTL DEF Spec

-----------------------------------------------------------------------------
(* The inductive invariant behind OneHolder, in parts that depend on few   *)
(* variables each.                                                         *)

AcceptPC  == {"absent", "poll", "enqueue", "exited"}
WorkerPC  == {"absent", "wait", "asleep", "poll", "io", "quit", "exited"}
ConnState == {"none", "backlog", "open", "closed"}
ClientPC  == {"idle", "connect", "send", "flush", "read", "left", "done"}

FileTypes    == path \in Server \cup {None} /\ path_lock \in Server \cup {None} /\ robbed \in SUBSET Server
MainTypes    == main \in [Server -> MainPC]
StopTypes    == shutdown_requested \in [Server -> BOOLEAN]
BacklogTypes == backlog \in [Server -> Seq(Conn)]
RingTypes    == fifo_fds \in [Server -> [Slot -> Conn \cup {None}]]
PosTypes     == front_pos \in [Server -> Slot] /\ back_pos \in [Server -> Slot]
AcceptTypes  == accepting \in [Server -> AcceptPC] /\ client_fd \in [Server -> Conn \cup {None}]
WorkerTypes  == worker \in [Worker -> WorkerPC] /\ fd \in [Worker -> Conn \cup {None}]
ConnTypes    == conn \in [Conn -> ConnState]
ClientTypes  == client \in [Conn -> ClientPC] /\ tries \in [Client -> 0 .. Tries]

Types ==
    /\ FileTypes /\ MainTypes /\ StopTypes /\ BacklogTypes /\ RingTypes /\ PosTypes
    /\ AcceptTypes /\ WorkerTypes /\ ConnTypes /\ ClientTypes

Accepted(s, c)  == client_fd[s] = c
Served(w, c)    == fd[w] = c
InRing(s, k, c) == k \in InUse(s) /\ fifo_fds[s][k] = c

(* Which connections the accept thread has, and when it and the ring are   *)
(* out of use.                                                             *)
AcceptOf(s) ==
    /\ accepting[s] /= "enqueue" => client_fd[s] = None
    /\ accepting[s] = "enqueue" /\ ~shutdown_requested[s] => client_fd[s] /= None
    /\ accepting[s] = "exited" => shutdown_requested[s]
    /\ shutdown_requested[s] => front_pos[s] = back_pos[s]

(* What threads there are before a server is ready, and after it has       *)
(* waited for them.                                                        *)
Early == {"off", "ping", "bind", "listen", "unlock", "gone"}
Late  == {"free", "unlink", "close"}

NoThreads(s) ==
    /\ accepting[s] = "absent"
    /\ front_pos[s] = back_pos[s]
    /\ \A w \in Pool(s) : worker[w] = "absent"

ThreadsEnded(s) ==
    /\ accepting[s] = "exited"
    /\ \A w \in Pool(s) : worker[w] \in {"absent", "exited"}

ThreadsOf(s) ==
    /\ main[s] \in Early => NoThreads(s)
    /\ main[s] \in Late => ThreadsEnded(s)

(* A worker has a connection while it waits for the request and reads it.  *)
WorkerOf(w) == worker[w] \in {"poll", "io"} <=> fd[w] /= None

RingOf(s) == \A k \in InUse(s) : fifo_fds[s][k] /= None

(* A client that has not connected has no connection.                      *)
Unconnected ==
    /\ \A c \in Client : client[c] \in {"idle", "connect"} => conn[c] = "none"
    /\ \A s \in Server : main[s] \in {"off", "ping"} => conn[s] = "none"

(* A connection is in one place of one backlog.                            *)
Backlogged ==
    /\ \A s \in Server : \A m \in 1 .. Len(backlog[s]) : conn[backlog[s][m]] = "backlog"
    /\ \A s, t \in Server : \A m \in 1 .. Len(backlog[s]), n \in 1 .. Len(backlog[t]) :
          backlog[s][m] = backlog[t][n] => s = t /\ m = n

(* Two holders of a connection are the same ...                            *)
UniqueOf(c) ==
    /\ \A s, t \in Server : Accepted(s, c) /\ Accepted(t, c) => s = t
    /\ \A w, v \in Worker : Served(w, c) /\ Served(v, c) => w = v
    /\ \A s, t \in Server, k, j \in Slot : InRing(s, k, c) /\ InRing(t, j, c) => s = t /\ k = j
    /\ \A s \in Server, w \in Worker : ~(Accepted(s, c) /\ Served(w, c))
    /\ \A s, t \in Server, k \in Slot : ~(Accepted(s, c) /\ InRing(t, k, c))
    /\ \A w \in Worker, t \in Server, k \in Slot : ~(Served(w, c) /\ InRing(t, k, c))

(* ... and there is one as long as it is open.                             *)
IsHeld(c) ==
    \/ \E s \in Server : Accepted(s, c)
    \/ \E w \in Worker : Served(w, c)
    \/ \E s \in Server, k \in Slot : InRing(s, k, c)

HeldOf(c) == conn[c] = "open" <=> IsHeld(c)

Accepts == \A s \in Server : AcceptOf(s)
Threads == \A s \in Server : ThreadsOf(s)
Workers == \A w \in Worker : WorkerOf(w)
Rings   == \A s \in Server : RingOf(s)
Holds   == \A c \in Conn : UniqueOf(c) /\ HeldOf(c)

HInv == Types /\ Accepts /\ Threads /\ Workers /\ Rings /\ Unconnected /\ Backlogged /\ Holds

-----------------------------------------------------------------------------
LEMMA TypesAreTypeOK == Types <=> TypeOK
  BY DEF Types, TypeOK, FileTypes, MainTypes, StopTypes, BacklogTypes, RingTypes, PosTypes,
     AcceptTypes, WorkerTypes, ConnTypes, ClientTypes, AcceptPC, WorkerPC, ConnState, ClientPC

LEMMA PoolFacts ==
  /\ \A w \in Worker : w[1] \in Server /\ w \in Pool(w[1])
  /\ \A s \in Server : Pool(s) \subseteq Worker
  /\ \A s, t \in Server : s /= t => \A w \in Pool(t) : w \notin Pool(s)
  BY DEF Worker, Pool

(* Each part of the invariant only depends on some of the variables.       *)
LEMMA Frame ==
  ASSUME HInv
  PROVE  /\ UNCHANGED <<path, path_lock, robbed>> => FileTypes'
         /\ UNCHANGED main => MainTypes'
         /\ UNCHANGED shutdown_requested => StopTypes'
         /\ UNCHANGED backlog => BacklogTypes'
         /\ UNCHANGED fifo_fds => RingTypes'
         /\ UNCHANGED <<front_pos, back_pos>> => PosTypes'
         /\ UNCHANGED <<accepting, client_fd>> => AcceptTypes'
         /\ UNCHANGED <<worker, fd>> => WorkerTypes'
         /\ UNCHANGED conn => ConnTypes'
         /\ UNCHANGED <<client, tries>> => ClientTypes'
         /\ UNCHANGED <<accepting, client_fd, shutdown_requested, front_pos, back_pos>> => Accepts'
         /\ UNCHANGED <<main, accepting, front_pos, back_pos, worker>> => Threads'
         /\ UNCHANGED <<worker, fd>> => Workers'
         /\ UNCHANGED <<fifo_fds, front_pos, back_pos>> => Rings'
         /\ UNCHANGED <<main, client, conn>> => Unconnected'
         /\ UNCHANGED <<backlog, conn>> => Backlogged'
         /\ UNCHANGED <<fifo_fds, front_pos, back_pos, client_fd, fd, conn>> => Holds'
<1>1. /\ UNCHANGED <<path, path_lock, robbed>> => FileTypes'
      /\ UNCHANGED main => MainTypes'
      /\ UNCHANGED shutdown_requested => StopTypes'
      /\ UNCHANGED backlog => BacklogTypes'
      /\ UNCHANGED fifo_fds => RingTypes'
  BY DEF HInv, Types, FileTypes, MainTypes, StopTypes, BacklogTypes, RingTypes
<1>2. /\ UNCHANGED <<front_pos, back_pos>> => PosTypes'
      /\ UNCHANGED <<accepting, client_fd>> => AcceptTypes'
      /\ UNCHANGED <<worker, fd>> => WorkerTypes'
      /\ UNCHANGED conn => ConnTypes'
      /\ UNCHANGED <<client, tries>> => ClientTypes'
  BY DEF HInv, Types, PosTypes, AcceptTypes, WorkerTypes, ConnTypes, ClientTypes
<1>3. UNCHANGED <<accepting, client_fd, shutdown_requested, front_pos, back_pos>> => Accepts'
  BY DEF HInv, Accepts, AcceptOf
<1>4. UNCHANGED <<main, accepting, front_pos, back_pos, worker>> => Threads'
  BY DEF HInv, Threads, ThreadsOf, NoThreads, ThreadsEnded
<1>5. UNCHANGED <<worker, fd>> => Workers' BY DEF HInv, Workers, WorkerOf
<1>6. UNCHANGED <<fifo_fds, front_pos, back_pos>> => Rings' BY DEF HInv, Rings, RingOf, InUse
<1>7. UNCHANGED <<main, client, conn>> => Unconnected' BY DEF HInv, Unconnected
<1>8. UNCHANGED <<backlog, conn>> => Backlogged' BY DEF HInv, Backlogged
<1>9. UNCHANGED <<fifo_fds, front_pos, back_pos, client_fd, fd, conn>> => Holds'
  BY DEF HInv, Holds, InUse, UniqueOf, HeldOf, IsHeld, Accepted, Served, InRing
<1> QED BY <1>1, <1>2, <1>3, <1>4, <1>5, <1>6, <1>7, <1>8, <1>9

LEMMA HoldInit == Init => HInv
<1> SUFFICES ASSUME Init PROVE HInv OBVIOUS
<1>1. Types
  <2>1. TypeOK BY NameAssumption, SizeAssumption DEF Init, TypeOK, MainPC, Slot, Conn
  <2> QED BY <2>1, TypesAreTypeOK
<1>2. Accepts BY DEF Init, Accepts, AcceptOf
<1>3. Threads BY PoolFacts DEF Init, Threads, ThreadsOf, NoThreads, Late
<1>4. Workers BY DEF Init, Workers, WorkerOf
<1>5. \A s \in Server : InUse(s) = {} BY SizeAssumption DEF Init, InUse, Slot
<1>6. Rings BY <1>5 DEF Rings, RingOf
<1>7. Unconnected /\ Backlogged BY DEF Init, Unconnected, Backlogged, Conn
<1>8. \A c \in Conn : /\ \A s \in Server : ~Accepted(s, c)
                      /\ \A w \in Worker : ~Served(w, c)
                      /\ \A s \in Server, k \in Slot : ~InRing(s, k, c)
  BY <1>5, NameAssumption DEF Init, Accepted, Served, InRing
<1>9. Holds BY <1>8 DEF Init, Holds, UniqueOf, HeldOf, IsHeld
<1> QED BY <1>1, <1>2, <1>3, <1>4, <1>6, <1>7, <1>9 DEF HInv

(* A main thread moves on, and has no new threads to account for.          *)
LEMMA Moves ==
  ASSUME HInv, NEW s \in Server, NEW pc \in MainPC, main' = [main EXCEPT ![s] = pc],
         UNCHANGED <<accepting, front_pos, back_pos, worker, client, conn>>,
         pc \in {"off", "ping"} => main[s] \in {"off", "ping"},
         pc \in Early => main[s] \in Early,
         pc \in Late => main[s] \in Late \/ ThreadsEnded(s)
  PROVE  MainTypes' /\ Threads' /\ Unconnected'
<1>1. main \in [Server -> MainPC] BY DEF HInv, Types, MainTypes
<1>2. MainTypes' BY <1>1 DEF MainTypes
<1>3. \A t \in Server : main'[t] = IF t = s THEN pc ELSE main[t] BY <1>1
<1>4. \A t \in Server : (NoThreads(t) => NoThreads(t)') /\ (ThreadsEnded(t) => ThreadsEnded(t)')
  BY DEF NoThreads, ThreadsEnded
<1>5. Threads' BY <1>3, <1>4 DEF HInv, Threads, ThreadsOf
<1>6. Unconnected' BY <1>3 DEF HInv, Unconnected
<1> QED BY <1>2, <1>5, <1>6

LEMMA HoldLock ==
  ASSUME HInv, NEW s \in Server, hold_lock_file(s)
  PROVE  HInv'
<1>1. PICK pc \in {"ping", "gone"} : main[s] = "off" /\ main' = [main EXCEPT ![s] = pc]
  BY DEF hold_lock_file, Goto
<1>2. UNCHANGED <<path, robbed, shutdown_requested, backlog, fifo_fds, front_pos, back_pos,
                  accepting, client_fd, worker, fd, conn, client, tries>>
  BY DEF hold_lock_file, queue, threads, peers
<1>3. FileTypes' BY <1>2 DEF hold_lock_file, HInv, Types, FileTypes
<1>4. MainTypes' /\ Threads' /\ Unconnected' BY <1>1, <1>2, Moves, ZenonT(30) DEF MainPC, Early, Late
<1> QED BY <1>2, <1>3, <1>4, Frame DEF HInv, Types

LEMMA HoldBind ==
  ASSUME HInv, NEW s \in Server, Bind(s) \/ Listen(s) \/ Unlink(s)
  PROVE  HInv'
<1>1. PICK pc \in {"listen", "unlock", "close", "gone"} :
         /\ main' = [main EXCEPT ![s] = pc]
         /\ pc \in Early => main[s] \in Early
         /\ pc = "close" => main[s] \in Late
  BY DEF Bind, Listen, Unlink, Goto, Early, Late
<1>2. UNCHANGED <<robbed, shutdown_requested, backlog, fifo_fds, front_pos, back_pos,
                  accepting, client_fd, worker, fd, conn, client, tries>>
  BY DEF Bind, Listen, Unlink, queue, threads, peers
<1>3. FileTypes' BY <1>2 DEF Bind, Listen, Unlink, HInv, Types, FileTypes
<1>4. MainTypes' /\ Threads' /\ Unconnected' BY <1>1, <1>2, Moves, ZenonT(30) DEF MainPC, Early, Late
<1> QED BY <1>2, <1>3, <1>4, Frame DEF HInv, Types

LEMMA HoldMain ==
  ASSUME HInv, NEW s \in Server,
         ipc_server_start_async(s) \/ ipc_server_await(s) \/ ipc_server_free(s)
  PROVE  HInv'
<1>1. PICK pc \in {"await", "free", "unlink", "close"} :
         /\ main' = [main EXCEPT ![s] = pc]
         /\ pc \in Late => main[s] \in Late \/ ThreadsEnded(s)
  BY DEF ipc_server_start_async, ipc_server_await, ipc_server_free, Goto, ThreadsEnded, Late
<1>2. UNCHANGED <<path, path_lock, robbed, shutdown_requested, backlog, fifo_fds, front_pos, back_pos,
                  accepting, client_fd, worker, fd, conn, client, tries>>
  BY DEF ipc_server_start_async, ipc_server_await, ipc_server_free, file, queue, threads, peers
<1>3. MainTypes' /\ Threads' /\ Unconnected' BY <1>1, <1>2, Moves, ZenonT(30) DEF MainPC, Early, Late
<1> QED BY <1>2, <1>3, Frame DEF HInv, Types

LEMMA HoldServe ==
  ASSUME HInv, NEW s \in Server, ipc_server_init_async(s)
  PROVE  HInv'
<1>1. /\ main[s] = "unlock" /\ main' = [main EXCEPT ![s] = "ready"]
      /\ accepting' = [accepting EXCEPT ![s] = "poll"]
      /\ UNCHANGED <<path, robbed, shutdown_requested, backlog, fifo_fds, front_pos, back_pos,
                     client_fd, fd, conn, client, tries>>
  BY DEF ipc_server_init_async, Goto, queue, peers
<1>2. PICK k \in 1 .. nr_threads[s] :
         worker' = [w \in Worker |-> IF w \in Pool(s) /\ w[2] <= k THEN "wait" ELSE worker[w]]
  BY DEF ipc_server_init_async
<1>3. \A w \in Worker : worker'[w] = worker[w] \/ (w \in Pool(s) /\ worker'[w] = "wait") BY <1>2
<1>4. FileTypes' BY DEF ipc_server_init_async, HInv, Types, FileTypes
<1>5. /\ main \in [Server -> MainPC] /\ accepting \in [Server -> AcceptPC]
      /\ client_fd \in [Server -> Conn \cup {None}]
      /\ worker \in [Worker -> WorkerPC] /\ fd \in [Worker -> Conn \cup {None}]
  BY DEF HInv, Types, MainTypes, AcceptTypes, WorkerTypes
<1>6. MainTypes' BY <1>1, <1>5 DEF MainTypes, MainPC
<1>7. AcceptTypes' BY <1>1, <1>5 DEF AcceptTypes, AcceptPC
<1>8. WorkerTypes' BY <1>1, <1>2, <1>5 DEF WorkerTypes, WorkerPC
<1>9. NoThreads(s) /\ AcceptOf(s) BY <1>1 DEF HInv, Threads, ThreadsOf, Early, Accepts
<1>10. Accepts'
  <2>1. AcceptOf(s)' BY <1>1, <1>5, <1>9 DEF AcceptOf, NoThreads
  <2>2. \A t \in Server : t /= s => AcceptOf(t)' BY <1>1, <1>5 DEF HInv, Accepts, AcceptOf
  <2> QED BY <2>1, <2>2 DEF Accepts
<1>11. Threads'
  <2>1. ThreadsOf(s)' BY <1>1, <1>5 DEF ThreadsOf, Early, Late
  <2>2. ASSUME NEW t \in Server, t /= s PROVE ThreadsOf(t)'
    <3>1. main'[t] = main[t] /\ accepting'[t] = accepting[t] BY <1>1, <1>5, <2>2
    <3>2. \A w \in Pool(t) : worker'[w] = worker[w] BY <1>3, <2>2, PoolFacts
    <3> QED BY <1>1, <3>1, <3>2 DEF HInv, Threads, ThreadsOf, NoThreads, ThreadsEnded
  <2> QED BY <2>1, <2>2 DEF Threads
<1>12. Workers'
  <2>1. \A w \in Pool(s) : worker[w] = "absent" BY <1>9 DEF NoThreads
  <2> QED BY <1>1, <1>3, <2>1 DEF HInv, Workers, WorkerOf
<1>13. Unconnected' BY <1>1, <1>5 DEF HInv, Unconnected
<1> QED BY <1>1, <1>4, <1>6, <1>7, <1>8, <1>10, <1>11, <1>12, <1>13, Frame DEF HInv, Types

(* Steps of clients that have nothing to do with their connection's place. *)
LEMMA HoldClient ==
  ASSUME HInv, NEW c \in Client, Begin(c) \/ ipc_client_send_command(c) \/ HangUp(c)
  PROVE  HInv'
<1>1. UNCHANGED <<path, path_lock, robbed, main, shutdown_requested, backlog, fifo_fds, front_pos, back_pos,
                  accepting, client_fd, worker, fd, conn, tries>>
  BY DEF Begin, ipc_client_send_command, HangUp, file, queue, threads
<1>2. PICK pc \in ClientPC : /\ client' = [client EXCEPT ![c] = pc]
                             /\ pc \in {"idle", "connect"} => client[c] = "idle"
  <2>1. CASE Begin(c) BY <2>1 DEF Begin, ClientPC
  <2>2. CASE ipc_client_send_command(c)
    <3>1. \/ client' = [client EXCEPT ![c] = IF client[c] = "send" THEN "flush" ELSE "read"]
          \/ client' = [client EXCEPT ![c] = "done"]
      BY <2>2 DEF ipc_client_send_command
    <3> QED BY <3>1 DEF ClientPC
  <2>3. CASE HangUp(c)
    <3>1. client' = [client EXCEPT ![c] = IF client[c] = "read" THEN "left" ELSE "done"]
      BY <2>3 DEF HangUp
    <3> QED BY <3>1, ZenonT(30) DEF ClientPC
  <2> QED BY <2>1, <2>2, <2>3
<1>3. client \in [Conn -> ClientPC] /\ tries \in [Client -> 0 .. Tries] BY DEF HInv, Types, ClientTypes
<1>4. ClientTypes' BY <1>1, <1>2, <1>3, ZenonT(30) DEF ClientTypes
<1>5. Unconnected' BY <1>1, <1>2, <1>3 DEF HInv, Unconnected, Conn
<1> QED BY <1>1, <1>4, <1>5, Frame DEF HInv, Types

LEMMA HoldDelete == HInv /\ Delete => HInv'
<1> SUFFICES ASSUME HInv, Delete PROVE HInv' OBVIOUS
<1>1. UNCHANGED <<path_lock, main, shutdown_requested, backlog, fifo_fds, front_pos, back_pos,
                  accepting, client_fd, worker, fd, conn, client, tries>>
  BY DEF Delete, queue, threads, peers
<1>2. FileTypes'
  <2>1. path' = None BY DEF Delete
  <2>2. robbed' \in SUBSET Server BY DEF Delete, HInv, Types, FileTypes
  <2> QED BY <1>1, <2>1, <2>2 DEF HInv, Types, FileTypes
<1> QED BY <1>1, <1>2, Frame DEF HInv, Types

(* A worker moves on with the connection it has, or without one.           *)
LEMMA WorkerMoves ==
  ASSUME HInv, NEW w \in Worker, NEW pc \in WorkerPC, worker' = [worker EXCEPT ![w] = pc],
         worker[w] \notin {"absent", "exited"}, pc /= "absent",
         pc \in {"poll", "io"} <=> worker[w] \in {"poll", "io"},
         UNCHANGED <<path, path_lock, robbed, main, shutdown_requested, backlog, fifo_fds, front_pos, back_pos,
                     accepting, client_fd, fd, conn, client, tries>>
  PROVE  HInv'
<1>1. worker \in [Worker -> WorkerPC] /\ fd \in [Worker -> Conn \cup {None}] BY DEF HInv, Types, WorkerTypes
<1>2. WorkerTypes' BY <1>1 DEF WorkerTypes
<1>3. \A v \in Worker : worker'[v] = IF v = w THEN pc ELSE worker[v] BY <1>1
<1>4. Threads'
  <2>1. \A v \in Worker : worker[v] \in {"absent", "exited"} => worker'[v] = worker[v] BY <1>3
  <2> QED BY <2>1, PoolFacts DEF HInv, Threads, ThreadsOf, NoThreads, ThreadsEnded
<1>5. Workers' BY <1>3 DEF HInv, Workers, WorkerOf
<1> QED BY <1>2, <1>4, <1>5, Frame DEF HInv, Types

LEMMA HoldWakeup ==
  ASSUME HInv, NEW w \in Worker, SpuriousWakeup(w)
  PROVE  HInv'
<1>1. UNCHANGED <<path, path_lock, robbed, main, shutdown_requested, backlog, fifo_fds, front_pos, back_pos,
                  accepting, client_fd, fd, conn, client, tries>>
  BY DEF SpuriousWakeup, file, queue, peers
<1>2. worker[w] = "asleep" /\ worker' = [worker EXCEPT ![w] = "wait"] /\ "wait" \in WorkerPC
  BY DEF SpuriousWakeup, WorkerPC
<1> QED BY <1>1, <1>2, WorkerMoves, ZenonT(30)

(* A connection gets into the backlog of the server that listens.          *)
LEMMA Backlog ==
  ASSUME HInv, NEW c \in Conn, conn[c] = "none", path \in Server,
         backlog' = [backlog EXCEPT ![path] = Append(@, c)],
         conn' = [conn EXCEPT ![c] = "backlog"],
         UNCHANGED <<fifo_fds, front_pos, back_pos, client_fd, fd>>
  PROVE  BacklogTypes' /\ ConnTypes' /\ Backlogged' /\ Holds'
<1>1. backlog \in [Server -> Seq(Conn)] /\ conn \in [Conn -> ConnState]
  BY DEF HInv, Types, BacklogTypes, ConnTypes
<1>2. \A s \in Server : backlog[s] \in Seq(Conn) BY <1>1
<1>3. Append(backlog[path], c) \in Seq(Conn) BY <1>2
<1>4. BacklogTypes' BY <1>1, <1>3 DEF BacklogTypes
<1>5. ConnTypes' BY <1>1 DEF ConnTypes, ConnState
<1>6. \A s \in Server : \A m \in 1 .. Len(backlog'[s]) :
         \/ m \in 1 .. Len(backlog[s]) /\ backlog'[s][m] = backlog[s][m]
         \/ s = path /\ m = Len(backlog[s]) + 1 /\ backlog'[s][m] = c
  <2>1. backlog'[path] = Append(backlog[path], c) BY <1>1
  <2>2. \A s \in Server : s /= path => backlog'[s] = backlog[s] BY <1>1
  <2> QED BY <1>2, <2>1, <2>2
<1>7. \A s \in Server : \A m \in 1 .. Len(backlog[s]) : backlog[s][m] \in Conn /\ backlog[s][m] /= c
  BY <1>2 DEF HInv, Backlogged
<1>8. \A d \in Conn : conn'[d] = IF d = c THEN "backlog" ELSE conn[d] BY <1>1
<1>9. Backlogged' BY <1>6, <1>7, <1>8 DEF HInv, Backlogged
<1>10. \A d \in Conn : /\ UniqueOf(d) => UniqueOf(d)'
                       /\ IsHeld(d)' <=> IsHeld(d)
  BY DEF InUse, UniqueOf, IsHeld, Accepted, Served, InRing
<1>11. Holds' BY <1>8, <1>10 DEF HInv, Holds, HeldOf
<1> QED BY <1>4, <1>5, <1>9, <1>11

LEMMA HoldPing ==
  ASSUME HInv, NEW s \in Server, is_another_server_alive(s)
  PROVE  HInv'
<1>1. UNCHANGED <<path, robbed, shutdown_requested, fifo_fds, front_pos, back_pos,
                  accepting, client_fd, worker, fd, tries>> /\ main[s] = "ping"
  BY ZenonT(30) DEF is_another_server_alive, queue, threads
<1>2. main \in [Server -> MainPC] /\ conn \in [Conn -> ConnState] /\ client \in [Conn -> ClientPC]
  BY DEF HInv, Types, MainTypes, ConnTypes, ClientTypes
<1>3. FileTypes' BY <1>1 DEF is_another_server_alive, HInv, Types, FileTypes
<1>4. CASE Connects
  <2>1. /\ backlog' = [backlog EXCEPT ![path] = Append(@, s)]
        /\ conn' = [conn EXCEPT ![s] = "backlog"]
        /\ client' = [client EXCEPT ![s] = "done"]
        /\ main' = [main EXCEPT ![s] = "gone"]
    BY <1>4 DEF is_another_server_alive, Goto
  <2>2. path \in Server /\ s \in Conn /\ conn[s] = "none"
    BY <1>1, <1>4 DEF Connects, HInv, Types, FileTypes, Unconnected, Conn
  <2>3. BacklogTypes' /\ ConnTypes' /\ Backlogged' /\ Holds' BY <1>1, <2>1, <2>2, Backlog, ZenonT(30)
  <2>4. ClientTypes' BY <1>1, <1>2, <2>1, ZenonT(30) DEF HInv, Types, ClientTypes, ClientPC
  <2>5. MainTypes' BY <1>2, <2>1 DEF MainTypes, MainPC
  <2>6. \A t \in Server : main'[t] = IF t = s THEN "gone" ELSE main[t] BY <1>2, <2>1
  <2>7. \A c \in Conn : c /= s => conn'[c] = conn[c] /\ client'[c] = client[c] BY <1>2, <2>1
  <2>8. Threads'
    <3>1. ThreadsOf(s)' BY <1>1, <2>6 DEF HInv, Threads, ThreadsOf, NoThreads, Early, Late
    <3>2. \A t \in Server : t /= s => ThreadsOf(t)'
      BY <1>1, <2>6 DEF HInv, Threads, ThreadsOf, NoThreads, ThreadsEnded
    <3> QED BY <3>1, <3>2 DEF Threads
  <2>9. Unconnected'
    <3>1. \A c \in Client : c \in Conn /\ c /= s BY NameAssumption DEF Conn
    <3>2. \A t \in Server : t \in Conn BY DEF Conn
    <3> QED BY <2>6, <2>7, <3>1, <3>2 DEF HInv, Unconnected
  <2> QED BY <1>1, <1>3, <2>3, <2>4, <2>5, <2>8, <2>9, Frame DEF HInv, Types
<1>5. CASE ~Connects
  <2>1. main' = [main EXCEPT ![s] = "bind"] /\ UNCHANGED <<backlog, conn, client>>
    BY <1>5 DEF is_another_server_alive, Goto
  <2>2. MainTypes' /\ Threads' /\ Unconnected' BY <1>1, <2>1, Moves, ZenonT(30) DEF MainPC, Early, Late
  <2> QED BY <1>1, <1>3, <2>1, <2>2, Frame DEF HInv, Types
<1> QED BY <1>4, <1>5

LEMMA HoldConnect ==
  ASSUME HInv, NEW c \in Client, connect_to_server(c)
  PROVE  HInv'
<1>1. UNCHANGED <<path, path_lock, robbed, main, shutdown_requested, fifo_fds, front_pos, back_pos,
                  accepting, client_fd, worker, fd>> /\ client[c] = "connect"
  BY DEF connect_to_server, file, queue, threads
<1>2. client \in [Conn -> ClientPC] /\ tries \in [Client -> 0 .. Tries] /\ conn \in [Conn -> ConnState]
  BY DEF HInv, Types, ClientTypes, ConnTypes
<1>3. tries' \in [Client -> 0 .. Tries]
  <2>1. 0 \in 0 .. Tries /\ (tries[c] < Tries => tries[c] + 1 \in 0 .. Tries)
    BY <1>2, SizeAssumption
  <2>2. \/ tries' = [tries EXCEPT ![c] = 0]
        \/ tries[c] < Tries /\ tries' = [tries EXCEPT ![c] = @ + 1]
    BY DEF connect_to_server
  <2> QED BY <1>2, <2>1, <2>2
<1>4. c \in Conn /\ \A s \in Server : s \in Conn /\ s /= c BY NameAssumption DEF Conn
<1>5. CASE /\ Connects
           /\ backlog' = [backlog EXCEPT ![path] = Append(@, c)]
           /\ conn' = [conn EXCEPT ![c] = "backlog"]
           /\ client' = [client EXCEPT ![c] = "send"]
  <2>1. path \in Server /\ conn[c] = "none"
    BY <1>1, <1>5 DEF Connects, HInv, Types, FileTypes, Unconnected
  <2>2. BacklogTypes' /\ ConnTypes' /\ Backlogged' /\ Holds' BY <1>1, <1>4, <1>5, <2>1, Backlog, ZenonT(30)
  <2>3. ClientTypes' BY <1>2, <1>3, <1>5, ZenonT(30) DEF ClientTypes, ClientPC
  <2>4. \A d \in Conn : d /= c => conn'[d] = conn[d] /\ client'[d] = client[d] BY <1>2, <1>5
  <2>5. client'[c] = "send" BY <1>2, <1>4, <1>5
  <2>6. Unconnected'
    <3>1. \A d \in Client : d \in Conn BY DEF Conn
    <3> QED BY <1>1, <1>4, <2>4, <2>5, <3>1 DEF HInv, Unconnected
  <2> QED BY <1>1, <2>2, <2>3, <2>6, Frame DEF HInv, Types
<1>6. CASE UNCHANGED <<backlog, conn>> /\ client' \in {client, [client EXCEPT ![c] = "done"]}
  <2>1. ClientTypes' BY <1>2, <1>3, <1>6 DEF ClientTypes, ClientPC
  <2>2. \A d \in Conn : client'[d] \in {client[d], "done"} BY <1>2, <1>6
  <2>3. Unconnected' BY <1>1, <1>6, <2>2 DEF HInv, Unconnected, Conn
  <2> QED BY <1>1, <1>6, <2>1, <2>3, Frame DEF HInv, Types
<1> QED BY <1>5, <1>6 DEF connect_to_server

-----------------------------------------------------------------------------
(* The ring: what an insertion and a removal do to the slots in use.       *)
LEMMA RingPut ==
  ASSUME PosTypes, NEW s \in Server, After(back_pos[s]) /= front_pos[s],
         back_pos' = [back_pos EXCEPT ![s] = After(@)], UNCHANGED front_pos
  PROVE  /\ PosTypes'
         /\ back_pos[s] \in Slot /\ back_pos[s] \notin InUse(s)
         /\ InUse(s)' = InUse(s) \cup {back_pos[s]}
         /\ \A t \in Server : t /= s => InUse(t)' = InUse(t)
<1>1. back_pos[s] \in Slot /\ front_pos[s] \in Slot BY DEF PosTypes
<1>2. After(back_pos[s]) \in Slot BY <1>1, SizeAssumption DEF After, Slot
<1>3. back_pos'[s] = After(back_pos[s]) BY DEF PosTypes
<1>4. PosTypes' BY <1>2 DEF PosTypes
<1>5. back_pos[s] \notin InUse(s) BY <1>1, SizeAssumption DEF InUse, Slot
<1>6. InUse(s)' = InUse(s) \cup {back_pos[s]}
  <2>1. \A k \in Slot : k \in InUse(s)' <=> k \in InUse(s) \/ k = back_pos[s]
    BY <1>1, <1>2, <1>3, SizeAssumption DEF InUse, Slot, After
  <2>2. InUse(s)' \subseteq Slot /\ InUse(s) \subseteq Slot BY DEF InUse
  <2> QED BY <1>1, <2>1, <2>2
<1>7. \A t \in Server : t /= s => InUse(t)' = InUse(t) BY DEF InUse, PosTypes
<1> QED BY <1>1, <1>4, <1>5, <1>6, <1>7

LEMMA RingTake ==
  ASSUME PosTypes, NEW s \in Server, front_pos[s] /= back_pos[s],
         front_pos' = [front_pos EXCEPT ![s] = After(@)], UNCHANGED back_pos
  PROVE  /\ PosTypes'
         /\ front_pos[s] \in Slot /\ front_pos[s] \in InUse(s)
         /\ InUse(s)' = InUse(s) \ {front_pos[s]}
         /\ \A t \in Server : t /= s => InUse(t)' = InUse(t)
<1>1. back_pos[s] \in Slot /\ front_pos[s] \in Slot BY DEF PosTypes
<1>2. After(front_pos[s]) \in Slot BY <1>1, SizeAssumption DEF After, Slot
<1>3. front_pos'[s] = After(front_pos[s]) BY DEF PosTypes
<1>4. PosTypes' BY <1>2 DEF PosTypes
<1>5. front_pos[s] \in InUse(s) BY <1>1, SizeAssumption DEF InUse, Slot
<1>6. InUse(s)' = InUse(s) \ {front_pos[s]}
  <2>1. \A k \in Slot : k \in InUse(s)' <=> k \in InUse(s) /\ k /= front_pos[s]
    BY <1>1, <1>2, <1>3, SizeAssumption DEF InUse, Slot, After
  <2>2. InUse(s)' \subseteq Slot /\ InUse(s) \subseteq Slot BY DEF InUse
  <2> QED BY <1>1, <2>1, <2>2
<1>7. \A t \in Server : t /= s => InUse(t)' = InUse(t) BY DEF InUse, PosTypes
<1> QED BY <1>1, <1>4, <1>5, <1>6, <1>7

LEMMA RingEmpty ==
  ASSUME PosTypes, NEW s \in Server, front_pos[s] = back_pos[s]
  PROVE  InUse(s) = {}
<1>1. back_pos[s] \in Slot BY DEF PosTypes
<1> QED BY <1>1, SizeAssumption DEF InUse, Slot

(* A connection that gets no new holder.                                   *)
LEMMA Release ==
  ASSUME HInv, NEW d \in Conn,
         \A s \in Server : Accepted(s, d)' => Accepted(s, d),
         \A w \in Worker : Served(w, d)' => Served(w, d),
         \A s \in Server, k \in Slot : InRing(s, k, d)' => InRing(s, k, d),
         \/ (IsHeld(d)' <=> IsHeld(d)) /\ conn'[d] = conn[d]
         \/ ~IsHeld(d)' /\ conn'[d] /= "open"
  PROVE  UniqueOf(d)' /\ HeldOf(d)'
<1>1. UniqueOf(d) /\ HeldOf(d) BY DEF HInv, Holds
<1>2. UniqueOf(d)' BY <1>1, ZenonT(30) DEF UniqueOf
<1>3. HeldOf(d)' BY <1>1, ZenonT(30) DEF HeldOf
<1> QED BY <1>2, <1>3

(* close() of connections that are held, or of none.                       *)
LEMMA Closing ==
  ASSUME HInv, NEW C, Close(C),
         \A c \in C : c \in Conn => conn[c] = "open",
         UNCHANGED <<backlog, client>>,
         \A t \in Server : main'[t] \in {"off", "ping"} => main[t] = main'[t]
  PROVE  /\ \A c \in Conn : conn'[c] = IF c \in C THEN "closed" ELSE conn[c]
         /\ ConnTypes' /\ Unconnected' /\ Backlogged'
<1>1. \A c \in Conn : conn'[c] = IF c \in C THEN "closed" ELSE conn[c] BY DEF Close
<1>2. ConnTypes' BY DEF Close, HInv, Types, ConnTypes, ConnState
<1>3. Unconnected' BY <1>1 DEF HInv, Unconnected, Conn
<1>4. \A s \in Server : \A m \in 1 .. Len(backlog[s]) : backlog[s][m] \in Conn
  BY DEF HInv, Types, BacklogTypes
<1>5. Backlogged' BY <1>1, <1>4 DEF HInv, Backlogged
<1> QED BY <1>1, <1>2, <1>3, <1>5

(* What a pool may be after some of its threads were woken or ended.       *)
StillWorks(pool) ==
    /\ pool \in [Worker -> WorkerPC]
    /\ \A w \in Worker : /\ pool[w] \in {"poll", "io"} <=> worker[w] \in {"poll", "io"}
                         /\ worker[w] \in {"absent", "exited"} => pool[w] = worker[w]

LEMMA WokenFacts ==
  ASSUME HInv, NEW s \in Server
  PROVE  StillWorks(Woken(s)) /\ StillWorks(worker)
  BY DEF HInv, Types, WorkerTypes, WorkerPC, Woken, StillWorks

LEMMA PoolFrame ==
  ASSUME HInv, StillWorks(worker'), UNCHANGED fd
  PROVE  /\ WorkerTypes' /\ Workers'
         /\ \A s \in Server : \A w \in Pool(s) :
               worker[w] \in {"absent", "exited"} => worker'[w] = worker[w]
<1>1. WorkerTypes' BY DEF HInv, Types, WorkerTypes, StillWorks
<1>2. Workers' BY DEF HInv, Workers, WorkerOf, StillWorks
<1> QED BY <1>1, <1>2, PoolFacts DEF StillWorks

-----------------------------------------------------------------------------
(* ipc_server_stop_async(), from whatever thread.                          *)
StopsFrom(s) ==
    /\ UNCHANGED <<file, backlog, accepting, client_fd, fd, peers>>
    /\ \/ UNCHANGED main /\ main[s] \notin Early
       \/ main[s] = "ready" /\ main' = [main EXCEPT ![s] = "await"]

LEMMA HoldStop ==
  ASSUME HInv, NEW s \in Server, NEW pool, StillWorks(pool),
         ipc_server_stop_async(s, pool), StopsFrom(s)
  PROVE  HInv'
<1>1. /\ shutdown_requested' = [shutdown_requested EXCEPT ![s] = TRUE]
      /\ Close(Queued(s))
      /\ fifo_fds' = [fifo_fds EXCEPT ![s] = [k \in Slot |-> IF k \in InUse(s) THEN None ELSE @[k]]]
      /\ front_pos' = [front_pos EXCEPT ![s] = back_pos[s]]
      /\ worker' = pool
      /\ UNCHANGED back_pos
  BY DEF ipc_server_stop_async
<1>0. UNCHANGED <<path, path_lock, robbed, backlog, back_pos, accepting, client_fd, fd, client, tries>>
  BY <1>1 DEF StopsFrom, file, peers
<1>2. /\ main \in [Server -> MainPC] /\ shutdown_requested \in [Server -> BOOLEAN]
      /\ fifo_fds \in [Server -> [Slot -> Conn \cup {None}]]
      /\ front_pos \in [Server -> Slot] /\ back_pos \in [Server -> Slot]
  BY DEF HInv, Types, MainTypes, StopTypes, RingTypes, PosTypes
<1>3. /\ MainTypes'
      /\ main'[s] \notin Early /\ (main'[s] \in Late => main[s] \in Late)
      /\ \A t \in Server : t /= s => main'[t] = main[t]
      /\ \A t \in Server : main'[t] \in {"off", "ping"} => main[t] = main'[t]
  BY <1>2 DEF StopsFrom, MainTypes, MainPC, Early, Late
<1>4. StopTypes' BY <1>1, <1>2 DEF StopTypes
<1>5. RingTypes' BY <1>1, <1>2 DEF RingTypes
<1>6. PosTypes' BY <1>1, <1>2 DEF PosTypes
<1>7. InUse(s)' = {}
  <2>1. front_pos'[s] = back_pos'[s] /\ back_pos'[s] \in Slot BY <1>1, <1>2
  <2> QED BY <2>1, SizeAssumption DEF InUse, Slot
<1>8. \A t \in Server : t /= s => /\ front_pos'[t] = front_pos[t]
                                  /\ fifo_fds'[t] = fifo_fds[t]
                                  /\ shutdown_requested'[t] = shutdown_requested[t]
  BY <1>1, <1>2
<1>9. \A t \in Server : t /= s => InUse(t)' = InUse(t) BY <1>1, <1>8 DEF InUse
<1>10. \A c \in Conn : c \in Queued(s) <=> \E k \in Slot : InRing(s, k, c)
  BY DEF Queued, InRing, InUse
<1>11. \A c \in Queued(s) : c \in Conn => conn[c] = "open"
  BY <1>10 DEF HInv, Holds, HeldOf, IsHeld
<1>13. /\ \A c \in Conn : conn'[c] = IF c \in Queued(s) THEN "closed" ELSE conn[c]
       /\ ConnTypes' /\ Unconnected' /\ Backlogged'
  BY <1>0, <1>1, <1>3, <1>11, Closing, ZenonT(30)
<1>14. /\ WorkerTypes' /\ Workers'
       /\ \A t \in Server : \A w \in Pool(t) :
             worker[w] \in {"absent", "exited"} => worker'[w] = worker[w]
  <2>1. StillWorks(worker') /\ UNCHANGED fd BY <1>0, <1>1
  <2> QED BY <2>1, PoolFrame, ZenonT(30)
<1>15. Accepts'
  <2>1. shutdown_requested'[s] = TRUE /\ front_pos'[s] = back_pos'[s] BY <1>1, <1>2
  <2>2. AcceptOf(s)' BY <1>0, <2>1, ZenonT(30) DEF HInv, Accepts, AcceptOf
  <2>3. \A t \in Server : t /= s => AcceptOf(t)' BY <1>0, <1>8, ZenonT(30) DEF HInv, Accepts, AcceptOf
  <2> QED BY <2>2, <2>3 DEF Accepts
<1>16. Threads'
  <2>2. \A t \in Server : ThreadsEnded(t) => ThreadsEnded(t)' BY <1>0, <1>14 DEF ThreadsEnded
  <2>3. \A t \in Server : t /= s /\ NoThreads(t) => NoThreads(t)'
    BY <1>0, <1>8, <1>14 DEF NoThreads
  <2> QED BY <1>3, <2>2, <2>3 DEF HInv, Threads, ThreadsOf
<1>17. Rings' BY <1>7, <1>8, <1>9 DEF HInv, Rings, RingOf
<1>18. ASSUME NEW d \in Conn PROVE UniqueOf(d)' /\ HeldOf(d)'
  <2>1. \A t \in Server : Accepted(t, d)' <=> Accepted(t, d) BY <1>0 DEF Accepted
  <2>2. \A w \in Worker : Served(w, d)' <=> Served(w, d) BY <1>0 DEF Served
  <2>3. \A t \in Server, k \in Slot : InRing(t, k, d)' <=> t /= s /\ InRing(t, k, d)
    BY <1>7, <1>8, <1>9 DEF InRing
  <2>4. CASE d \in Queued(s)
    <3>1. PICK k \in Slot : InRing(s, k, d) BY <1>10, <2>4
    <3>2. UniqueOf(d) BY DEF HInv, Holds
    <3>3. ~IsHeld(d)' BY <2>1, <2>2, <2>3, <3>1, <3>2 DEF IsHeld, UniqueOf
    <3> QED BY <1>13, <2>1, <2>2, <2>3, <2>4, <3>3, Release, ZenonT(30)
  <2>5. CASE d \notin Queued(s)
    <3>1. IsHeld(d)' <=> IsHeld(d) BY <1>10, <2>1, <2>2, <2>3, <2>5 DEF IsHeld
    <3> QED BY <1>13, <2>1, <2>2, <2>3, <2>5, <3>1, Release, ZenonT(30)
  <2> QED BY <2>4, <2>5
<1>19. Holds' BY <1>18 DEF Holds
<1> QED BY <1>0, <1>3, <1>4, <1>5, <1>6, <1>13, <1>14, <1>15, <1>16, <1>17, <1>19, Frame DEF HInv, Types

LEMMA HoldServerStops ==
  ASSUME HInv, NEW s \in Server, StopBeforeStart(s) \/ ApplicationStops(s) \/ AcceptTimeout(s)
  PROVE  HInv'
<1>1. /\ ipc_server_stop_async(s, Woken(s))
      /\ UNCHANGED <<file, backlog, accepting, client_fd, fd, peers>>
  BY DEF StopBeforeStart, ApplicationStops, AcceptTimeout
<1>2. \/ UNCHANGED main /\ main[s] \notin Early
      \/ main[s] = "ready" /\ main' = [main EXCEPT ![s] = "await"]
  <2>1. accepting[s] = "poll" => main[s] \notin Early BY DEF HInv, Threads, ThreadsOf, NoThreads
  <2> QED BY <2>1 DEF StopBeforeStart, ApplicationStops, AcceptTimeout, Goto, Early
<1>3. StopsFrom(s) BY <1>1, <1>2 DEF StopsFrom
<1> QED BY <1>1, <1>3, WokenFacts, HoldStop

LEMMA HoldQuit ==
  ASSUME HInv, NEW w \in Worker, worker_thread_proc(w)
  PROVE  HInv'
<1> DEFINE s    == w[1]
           pool == [Woken(s) EXCEPT ![w] = "exited"]
<1>1. s \in Server /\ w \in Pool(s) BY PoolFacts
<1>2. worker[w] = "quit" BY DEF worker_thread_proc
<1>3. StillWorks(pool) BY <1>1, <1>2, WokenFacts DEF StillWorks, WorkerPC
<1>4. /\ ipc_server_stop_async(s, pool)
      /\ UNCHANGED <<file, backlog, accepting, client_fd, fd, peers>>
      /\ UNCHANGED main
  BY DEF worker_thread_proc
<1>5. main[s] \notin Early BY <1>1, <1>2 DEF HInv, Threads, ThreadsOf, NoThreads
<1> HIDE DEF s, pool
<1>6. StopsFrom(s) BY <1>4, <1>5 DEF StopsFrom
<1> QED BY <1>1, <1>3, <1>4, <1>6, HoldStop

(* The accept thread takes a connection from the backlog.                  *)
LEMMA HoldAccept ==
  ASSUME HInv, NEW s \in Server, Accept(s)
  PROVE  HInv'
<1>1. /\ accepting[s] = "poll" /\ accepting' = [accepting EXCEPT ![s] = "enqueue"]
  BY DEF Accept
<1>0. UNCHANGED <<path, path_lock, robbed, main, shutdown_requested, fifo_fds, front_pos, back_pos,
                  worker, fd, client, tries>>
  BY DEF Accept, file, queue, peers
<1>2. /\ accepting \in [Server -> AcceptPC] /\ client_fd \in [Server -> Conn \cup {None}]
      /\ backlog \in [Server -> Seq(Conn)] /\ conn \in [Conn -> ConnState]
  BY DEF HInv, Types, AcceptTypes, BacklogTypes, ConnTypes
<1>3. accepting' \in [Server -> AcceptPC] BY <1>1, <1>2 DEF AcceptPC
<1>4. accepting'[s] = "enqueue" /\ \A t \in Server : t /= s => accepting'[t] = accepting[t] BY <1>1, <1>2
<1>5. Threads'
  <2>1. ~NoThreads(s) /\ ~ThreadsEnded(s) BY <1>1 DEF NoThreads, ThreadsEnded
  <2>2. \A t \in Server : t /= s => /\ NoThreads(t) => NoThreads(t)'
                                    /\ ThreadsEnded(t) => ThreadsEnded(t)'
    BY <1>0, <1>4 DEF NoThreads, ThreadsEnded
  <2> QED BY <1>0, <2>1, <2>2 DEF HInv, Threads, ThreadsOf
<1>6. client_fd[s] = None BY <1>1 DEF HInv, Accepts, AcceptOf
<1>7. CASE shutdown_requested[s]
  <2>1. UNCHANGED <<backlog, client_fd, conn>> BY <1>7 DEF Accept
  <2>2. AcceptTypes' BY <1>2, <1>3, <2>1 DEF AcceptTypes
  <2>3. Accepts'
    <3>1. AcceptOf(s)' BY <1>0, <1>4, <1>7, <2>1, ZenonT(30) DEF HInv, Accepts, AcceptOf
    <3>2. \A t \in Server : t /= s => AcceptOf(t)' BY <1>0, <1>4, <2>1, ZenonT(30) DEF HInv, Accepts, AcceptOf
    <3> QED BY <3>1, <3>2 DEF Accepts
  <2> QED BY <1>0, <1>5, <2>1, <2>2, <2>3, Frame DEF HInv, Types
<1>8. CASE ~shutdown_requested[s]
  <2> DEFINE c == Head(backlog[s])
  <2>1. /\ backlog[s] /= <<>> /\ backlog[s] \in Seq(Conn)
        /\ backlog' = [backlog EXCEPT ![s] = Tail(@)]
        /\ client_fd' = [client_fd EXCEPT ![s] = c]
        /\ conn' = [conn EXCEPT ![c] = "open"]
    BY <1>2, <1>8 DEF Accept
  <2>2. c \in Conn /\ c = backlog[s][1] /\ 1 \in 1 .. Len(backlog[s]) BY <2>1
  <2>3. conn[c] = "backlog" /\ c /= None BY <2>2, NameAssumption DEF HInv, Backlogged
  <2> HIDE DEF c
  <2>4. BacklogTypes' BY <1>2, <2>1 DEF BacklogTypes
  <2>5. AcceptTypes' BY <1>2, <1>3, <2>1, <2>2 DEF AcceptTypes
  <2>6. ConnTypes' BY <1>2, <2>1, ZenonT(30) DEF ConnTypes, ConnState
  <2>7. client_fd'[s] = c /\ \A t \in Server : t /= s => client_fd'[t] = client_fd[t] BY <1>2, <2>1
  <2>8. \A d \in Conn : conn'[d] = IF d = c THEN "open" ELSE conn[d] BY <1>2, <2>1
  <2>9. Accepts'
    <3>1. AcceptOf(s)' BY <1>0, <1>4, <1>8, <2>3, <2>7 DEF HInv, Accepts, AcceptOf
    <3>2. \A t \in Server : t /= s => AcceptOf(t)' BY <1>0, <1>4, <2>7 DEF HInv, Accepts, AcceptOf
    <3> QED BY <3>1, <3>2 DEF Accepts
  <2>10. Unconnected' BY <1>0, <2>3, <2>8 DEF HInv, Unconnected, Conn
  <2>11. Backlogged'
    <3>1. /\ Len(backlog'[s]) = Len(backlog[s]) - 1
          /\ \A m \in 1 .. Len(backlog'[s]) :
                m + 1 \in 1 .. Len(backlog[s]) /\ m + 1 /= 1 /\ backlog'[s][m] = backlog[s][m + 1]
      BY <1>2, <2>1
    <3>2. \A t \in Server : t /= s => backlog'[t] = backlog[t] BY <1>2, <2>1
    <3> DEFINE at(t, m) == IF t = s THEN m + 1 ELSE m
    <3>3. \A t \in Server : \A m \in 1 .. Len(backlog'[t]) :
             /\ at(t, m) \in 1 .. Len(backlog[t])
             /\ backlog'[t][m] = backlog[t][at(t, m)]
             /\ t = s => at(t, m) /= 1
      BY <3>1, <3>2
    <3>4. \A t \in Server : \A m, n \in 1 .. Len(backlog'[t]) : at(t, m) = at(t, n) => m = n
      OBVIOUS
    <3> HIDE DEF at
    <3>5. \A t \in Server : \A m \in 1 .. Len(backlog[t]) : backlog[t][m] \in Conn
      BY <1>2
    <3>6. ASSUME NEW t \in Server, NEW m \in 1 .. Len(backlog'[t])
          PROVE  conn'[backlog'[t][m]] = "backlog"
      <4>1. backlog'[t][m] \in Conn /\ conn[backlog'[t][m]] = "backlog"
        BY <3>3, <3>5 DEF HInv, Backlogged
      <4>2. backlog'[t][m] /= c BY <2>2, <3>3 DEF HInv, Backlogged
      <4> QED BY <2>8, <4>1, <4>2
    <3>7. ASSUME NEW t \in Server, NEW u \in Server, NEW m \in 1 .. Len(backlog'[t]),
                 NEW n \in 1 .. Len(backlog'[u]), backlog'[t][m] = backlog'[u][n]
          PROVE  t = u /\ m = n
      <4>1. /\ at(t, m) \in 1 .. Len(backlog[t]) /\ at(u, n) \in 1 .. Len(backlog[u])
            /\ backlog[t][at(t, m)] = backlog[u][at(u, n)]
        BY <3>3, <3>7, ZenonT(30)
      <4>2. t = u /\ at(t, m) = at(u, n) BY <4>1 DEF HInv, Backlogged
      <4> QED BY <3>4, <4>2
    <3> QED BY <3>6, <3>7 DEF Backlogged
  <2>12. ASSUME NEW d \in Conn PROVE UniqueOf(d)' /\ HeldOf(d)'
    <3>1. \A w \in Worker : Served(w, d)' <=> Served(w, d) BY <1>0 DEF Served
    <3>2. \A t \in Server, k \in Slot : InRing(t, k, d)' <=> InRing(t, k, d)
      BY <1>0 DEF InRing, InUse
    <3>3. CASE d = c
      <4>1. ~IsHeld(d) BY <2>3, <3>3 DEF HInv, Holds, HeldOf
      <4>2. \A t \in Server : Accepted(t, d)' <=> t = s
        BY <2>7, <3>3, <4>1 DEF Accepted, IsHeld
      <4>3. UniqueOf(d)' BY <3>1, <3>2, <4>1, <4>2 DEF UniqueOf, IsHeld
      <4>4. HeldOf(d)' BY <2>8, <3>3, <4>2, ZenonT(30) DEF HeldOf, IsHeld
      <4> QED BY <4>3, <4>4
    <3>4. CASE d /= c
      <4>1. d /= None BY NameAssumption
      <4>2. \A t \in Server : Accepted(t, d)' <=> Accepted(t, d)
        BY <1>6, <2>7, <3>4, <4>1 DEF Accepted
      <4>3. IsHeld(d)' <=> IsHeld(d) BY <3>1, <3>2, <4>2 DEF IsHeld
      <4>4. conn'[d] = conn[d] BY <2>8, <3>4
      <4> QED BY <3>1, <3>2, <4>2, <4>3, <4>4, Release, ZenonT(30)
    <3> QED BY <3>3, <3>4
  <2>13. Holds' BY <2>12 DEF Holds
  <2> QED BY <1>0, <1>5, <2>4, <2>5, <2>6, <2>9, <2>10, <2>11, <2>13, Frame DEF HInv, Types
<1> QED BY <1>7, <1>8

=============================================================================
