------------------------------ MODULE SimpleIpc ------------------------------
(* The simple IPC of compat/simple-ipc/ipc-unix-socket.c on top of          *)
(* unix-stream-server.c: servers that compete for one socket path, each     *)
(* with an accept thread, a ring of accepted connections and a pool of      *)
(* worker threads, and the clients that connect to the path.                *)
(* A server's socket file is named by the server; a connection is named by  *)
(* the client, or by the server that pings the path.  What the threads do   *)
(* while they hold work_available_mutex is one step.                        *)
EXTENDS Integers, Sequences, FiniteSets, Functions

CONSTANTS
    Server, Client,
    nr_threads,    \* the size of each server's pool
    None,
    QueueSize,     \* queue_size, a multiple of the pool size in the code
    Tries,         \* attempts of connect_to_server(), 20 in the code
    MaxActors,     \* bound on what takes part, see Actors
    MayDelete,     \* an outsider may delete the socket file
    MayKill        \* servers may be killed

Worker == UNION {{s} \X (1 .. nr_threads[s]) : s \in Server}
Pool(s) == {w \in Worker : w[1] = s}
Conn == Client \cup Server
Slot == 0 .. QueueSize - 1

ASSUME SizeAssumption == QueueSize \in Nat /\ QueueSize >= 2 /\ Tries \in Nat /\ Tries >= 1
ASSUME NameAssumption == Client \cap Server = {} /\ None \notin Conn
ASSUME PoolAssumption == nr_threads \in [Server -> Nat \ {0}]

VARIABLES
    path,                \* the socket file at the path
    path_lock,           \* the holder of <path>.lock
    robbed,              \* the servers whose file an outsider deleted
    main,                \* where each server's main thread is
    shutdown_requested,
    backlog,             \* connections not accepted yet
    fifo_fds, front_pos, back_pos,
    accepting,           \* where each server's accept thread is
    client_fd,           \* the connection it has accepted
    worker,              \* where each worker thread is
    fd,                  \* the connection it has
    conn,                \* the server's end of each connection
    client,              \* where the other end of each connection is
    tries

file    == <<path, path_lock, robbed>>
queue   == <<fifo_fds, front_pos, back_pos>>
threads == <<accepting, client_fd, worker, fd>>
peers   == <<client, tries>>
vars    == <<file, main, shutdown_requested, backlog, queue, threads, conn, peers>>

MainPC == {"off", "ping", "bind", "listen", "unlock", "ready", "await", "free", "unlink", "close", "gone"}

(* listen() was called and the descriptor is open. *)
Listening == {"unlock", "ready", "await", "free", "unlink", "close"}

TypeOK ==
    /\ path \in Server \cup {None}
    /\ path_lock \in Server \cup {None}
    /\ robbed \in SUBSET Server
    /\ main \in [Server -> MainPC]
    /\ shutdown_requested \in [Server -> BOOLEAN]
    /\ backlog \in [Server -> Seq(Conn)]
    /\ fifo_fds \in [Server -> [Slot -> Conn \cup {None}]]
    /\ front_pos \in [Server -> Slot]
    /\ back_pos \in [Server -> Slot]
    /\ accepting \in [Server -> {"absent", "poll", "enqueue", "exited"}]
    /\ client_fd \in [Server -> Conn \cup {None}]
    /\ worker \in [Worker -> {"absent", "wait", "asleep", "poll", "io", "quit", "exited"}]
    /\ fd \in [Worker -> Conn \cup {None}]
    /\ conn \in [Conn -> {"none", "backlog", "open", "closed"}]
    /\ client \in [Conn -> {"idle", "connect", "send", "flush", "read", "left", "done"}]
    /\ tries \in [Client -> 0 .. Tries]

Init ==
    /\ path = None
    /\ path_lock = None
    /\ robbed = {}
    /\ main = [s \in Server |-> "off"]
    /\ shutdown_requested = [s \in Server |-> FALSE]
    /\ backlog = [s \in Server |-> <<>>]
    /\ fifo_fds = [s \in Server |-> [k \in Slot |-> None]]
    /\ front_pos = [s \in Server |-> 0]
    /\ back_pos = [s \in Server |-> 0]
    /\ accepting = [s \in Server |-> "absent"]
    /\ client_fd = [s \in Server |-> None]
    /\ worker = [w \in Worker |-> "absent"]
    /\ fd = [w \in Worker |-> None]
    /\ conn = [c \in Conn |-> "none"]
    /\ client = [c \in Conn |-> "idle"]
    /\ tries = [c \in Client |-> 0]

(* What takes part: a client counts one, a server two and each worker      *)
(* beyond its first one more.                                              *)
Actors ==
    Cardinality({c \in Client : client[c] /= "idle"}) + 2 * Cardinality({s \in Server : main[s] /= "off"})
    + Cardinality({w \in Worker : worker[w] /= "absent"}) - Cardinality({s \in Server : accepting[s] /= "absent"})

Goto(s, pc) == main' = [main EXCEPT ![s] = pc]

Close(C) == conn' = [c \in Conn |-> IF c \in C THEN "closed" ELSE conn[c]]

-----------------------------------------------------------------------------
(* The socket file.                                                        *)

(* connect(2): somebody listens on the socket that is at the path.         *)
Connects == path /= None /\ main[path] \in Listening

(* Mutant: a server whose timeout passes goes on without the lock. *)
hold_lock_file_or_not(s) ==
    /\ main[s] = "off" /\ Actors + 2 <= MaxActors
    /\ path_lock' = IF path_lock = None THEN s ELSE path_lock
    /\ Goto(s, "ping")
    /\ UNCHANGED <<path, robbed, shutdown_requested, backlog, queue, threads, conn, peers>>

(* <path>.lock is created if nobody has it; otherwise the server may still *)
(* wait, or its timeout passes and it gives up.                            *)
hold_lock_file(s) ==
    /\ main[s] = "off" /\ Actors + 2 <= MaxActors
    /\ \/ path_lock = None /\ path_lock' = s /\ Goto(s, "ping")
       \/ path_lock /= None /\ UNCHANGED path_lock /\ Goto(s, "gone")
    /\ UNCHANGED <<path, robbed, shutdown_requested, backlog, queue, threads, conn, peers>>

(* The server connects and hangs up at once; it gives up if that worked.   *)
is_another_server_alive(s) ==
    /\ main[s] = "ping"
    /\ IF Connects
         THEN /\ backlog' = [backlog EXCEPT ![path] = Append(@, s)]
              /\ conn' = [conn EXCEPT ![s] = "backlog"]
              /\ client' = [client EXCEPT ![s] = "done"]
              /\ path_lock' = None
              /\ Goto(s, "gone")
         ELSE Goto(s, "bind") /\ UNCHANGED <<backlog, conn, client, path_lock>>
    /\ UNCHANGED <<path, robbed, shutdown_requested, queue, threads, tries>>

(* unlink() and bind() of unix_stream_listen(); an error ends it.          *)
Bind(s) ==
    /\ main[s] = "bind"
    /\ \/ path' = s /\ Goto(s, "listen") /\ UNCHANGED path_lock
       \/ path' = None /\ Goto(s, "gone") /\ path_lock' = None
    /\ UNCHANGED <<robbed, shutdown_requested, backlog, queue, threads, conn, peers>>

(* listen(); on an error the socket is closed and its file stays.          *)
Listen(s) ==
    /\ main[s] = "listen"
    /\ \/ Goto(s, "unlock") /\ UNCHANGED path_lock
       \/ Goto(s, "gone") /\ path_lock' = None
    /\ UNCHANGED <<path, robbed, shutdown_requested, backlog, queue, threads, conn, peers>>

(* The lock is given back, and the threads are created while the mutex is  *)
(* held; some of the workers may be missing.                               *)
ipc_server_init_async(s) ==
    /\ main[s] = "unlock"
    /\ path_lock' = None
    /\ accepting' = [accepting EXCEPT ![s] = "poll"]
    /\ \E k \in 1 .. nr_threads[s] :
          /\ Actors + k - 1 <= MaxActors
          /\ worker' = [w \in Worker |-> IF w \in Pool(s) /\ w[2] <= k THEN "wait" ELSE worker[w]]
    /\ Goto(s, "ready")
    /\ UNCHANGED <<path, robbed, shutdown_requested, backlog, queue, client_fd, fd, conn, peers>>

(* Mutant: only a missing file counts as stolen. *)
unix_ss_was_deleted(s) == path = None

unix_ss_was_stolen(s) == path /= s

(* The first half of unix_ss_free(): should the file be removed?           *)
ipc_server_free(s) ==
    /\ main[s] = "free"
    /\ Goto(s, IF unix_ss_was_stolen(s) THEN "close" ELSE "unlink")
    /\ UNCHANGED <<file, shutdown_requested, backlog, queue, threads, conn, peers>>

Unlink(s) ==
    /\ main[s] = "unlink"
    /\ path' = None
    /\ Goto(s, "close")
    /\ UNCHANGED <<path_lock, robbed, shutdown_requested, backlog, queue, threads, conn, peers>>

-----------------------------------------------------------------------------
(* The ring.  It is empty when the positions are equal.                    *)

After(k) == IF k + 1 = QueueSize THEN 0 ELSE k + 1

(* The slots from the front to the back.                                   *)
InUse(s) ==
    {k \in Slot : IF front_pos[s] <= back_pos[s]
                  THEN front_pos[s] <= k /\ k < back_pos[s]
                  ELSE front_pos[s] <= k \/ k < back_pos[s]}

Queued(s) == {fifo_fds[s][k] : k \in InUse(s)}

(* Mutant: the ring is not checked for being full. *)
fifo_enqueue_unchecked(s, c) ==
    /\ fifo_fds' = [fifo_fds EXCEPT ![s][back_pos[s]] = c]
    /\ back_pos' = [back_pos EXCEPT ![s] = After(@)]
    /\ UNCHANGED <<front_pos, conn>>

(* A connection that does not fit is dropped.                              *)
fifo_enqueue(s, c) ==
    IF After(back_pos[s]) = front_pos[s]
      THEN Close({c}) /\ UNCHANGED queue
      ELSE /\ fifo_fds' = [fifo_fds EXCEPT ![s][back_pos[s]] = c]
           /\ back_pos' = [back_pos EXCEPT ![s] = After(@)]
           /\ UNCHANGED <<front_pos, conn>>

fifo_dequeue(s) ==
    /\ fifo_fds' = [fifo_fds EXCEPT ![s][front_pos[s]] = None]
    /\ front_pos' = [front_pos EXCEPT ![s] = After(@)]
    /\ UNCHANGED back_pos

(* pthread_cond_broadcast(): the pool checks the ring again.               *)
Woken(s) == [w \in Worker |-> IF w \in Pool(s) /\ worker[w] = "asleep" THEN "wait" ELSE worker[w]]

(* Everything that is queued is closed and everybody is woken; pool is     *)
(* where the worker threads are then.                                      *)
ipc_server_stop_async(s, pool) ==
    /\ shutdown_requested' = [shutdown_requested EXCEPT ![s] = TRUE]
    /\ Close(Queued(s))
    /\ fifo_fds' = [fifo_fds EXCEPT ![s] = [k \in Slot |-> IF k \in InUse(s) THEN None ELSE @[k]]]
    /\ front_pos' = [front_pos EXCEPT ![s] = back_pos[s]]
    /\ worker' = pool
    /\ UNCHANGED back_pos

(* init keeps the mutex until the server is started.                       *)
MutexIsFree(s) == main[s] /= "ready"

-----------------------------------------------------------------------------
(* The main thread, and other threads of the application.                  *)

ipc_server_start_async(s) ==
    /\ main[s] = "ready"
    /\ Goto(s, "await")
    /\ UNCHANGED <<file, shutdown_requested, backlog, queue, threads, conn, peers>>

(* The application could not start, and stops the server instead.          *)
StopBeforeStart(s) ==
    /\ main[s] = "ready"
    /\ ipc_server_stop_async(s, Woken(s))
    /\ Goto(s, "await")
    /\ UNCHANGED <<file, backlog, accepting, client_fd, fd, peers>>

(* Some thread of the application stops the server.                        *)
ApplicationStops(s) ==
    /\ main[s] = "await"
    /\ ~shutdown_requested[s]
    /\ ipc_server_stop_async(s, Woken(s))
    /\ UNCHANGED <<file, main, backlog, accepting, client_fd, fd, peers>>

ipc_server_await(s) ==
    /\ main[s] = "await"
    /\ accepting[s] = "exited"
    /\ \A w \in Pool(s) : worker[w] \in {"absent", "exited"}
    /\ Goto(s, "free")
    /\ UNCHANGED <<file, shutdown_requested, backlog, queue, threads, conn, peers>>

-----------------------------------------------------------------------------
(* The accept thread.                                                      *)

(* The byte in the socket pair goes before a connection.                   *)
Accept(s) ==
    /\ accepting[s] = "poll"
    /\ IF shutdown_requested[s]
         THEN UNCHANGED <<backlog, client_fd, conn>>
         ELSE /\ backlog[s] /= <<>>
              /\ client_fd' = [client_fd EXCEPT ![s] = Head(backlog[s])]
              /\ conn' = [conn EXCEPT ![Head(backlog[s])] = "open"]
              /\ backlog' = [backlog EXCEPT ![s] = Tail(@)]
    /\ accepting' = [accepting EXCEPT ![s] = "enqueue"]
    /\ UNCHANGED <<file, main, shutdown_requested, queue, worker, fd, peers>>

(* poll() times out: is the socket file still there?                       *)
AcceptTimeout(s) ==
    /\ accepting[s] = "poll"
    /\ ~shutdown_requested[s]
    /\ backlog[s] = <<>>
    /\ MutexIsFree(s)
    /\ unix_ss_was_stolen(s)
    /\ ipc_server_stop_async(s, Woken(s))
    /\ UNCHANGED <<file, main, backlog, accepting, client_fd, fd, peers>>

(* Mutant: the pool is not told. *)
accept_thread_quiet(s) ==
    /\ accepting[s] = "enqueue"
    /\ MutexIsFree(s)
    /\ client_fd' = [client_fd EXCEPT ![s] = None]
    /\ IF shutdown_requested[s]
         THEN /\ Close({client_fd[s]})
              /\ accepting' = [accepting EXCEPT ![s] = "exited"]
              /\ UNCHANGED queue
         ELSE /\ fifo_enqueue(s, client_fd[s])
              /\ accepting' = [accepting EXCEPT ![s] = "poll"]
    /\ UNCHANGED <<file, main, shutdown_requested, backlog, worker, fd, peers>>

(* Under the mutex: the connection is queued, or dropped at shutdown.      *)
accept_thread_proc(s) ==
    /\ accepting[s] = "enqueue"
    /\ MutexIsFree(s)
    /\ client_fd' = [client_fd EXCEPT ![s] = None]
    /\ IF shutdown_requested[s]
         THEN /\ Close({client_fd[s]})
              /\ accepting' = [accepting EXCEPT ![s] = "exited"]
              /\ UNCHANGED <<queue, worker>>
         ELSE /\ fifo_enqueue(s, client_fd[s])
              /\ worker' = Woken(s)
              /\ accepting' = [accepting EXCEPT ![s] = "poll"]
    /\ UNCHANGED <<file, main, shutdown_requested, backlog, fd, peers>>

-----------------------------------------------------------------------------
(* The worker threads.                                                     *)

worker_thread__wait_for_connection(w) ==
    LET s == w[1] IN
    /\ worker[w] = "wait"
    /\ MutexIsFree(s)
    /\ \/ /\ shutdown_requested[s]
          /\ worker' = [worker EXCEPT ![w] = "exited"]
          /\ UNCHANGED <<queue, fd>>
       \/ /\ ~shutdown_requested[s]
          /\ front_pos[s] /= back_pos[s]
          /\ fd' = [fd EXCEPT ![w] = fifo_fds[s][front_pos[s]]]
          /\ fifo_dequeue(s)
          /\ worker' = [worker EXCEPT ![w] = "poll"]
       \/ /\ ~shutdown_requested[s]
          /\ front_pos[s] = back_pos[s]
          /\ worker' = [worker EXCEPT ![w] = "asleep"]
          /\ UNCHANGED <<queue, fd>>
    /\ UNCHANGED <<file, main, shutdown_requested, backlog, accepting, client_fd, conn, peers>>

(* pthread_cond_wait() may return for no reason.                           *)
SpuriousWakeup(w) ==
    /\ worker[w] = "asleep"
    /\ worker' = [worker EXCEPT ![w] = "wait"]
    /\ UNCHANGED <<file, main, shutdown_requested, backlog, queue, accepting, client_fd, fd, conn, peers>>

(* The worker closes its connection and looks for another one.             *)
Drop(w) ==
    /\ Close({fd[w]})
    /\ fd' = [fd EXCEPT ![w] = None]
    /\ worker' = [worker EXCEPT ![w] = "wait"]

(* A client that hung up is dropped, and one that has not sent anything    *)
(* is when poll() times out during shutdown.                               *)
worker_thread__wait_for_io_start(w) ==
    /\ worker[w] = "poll"
    /\ \/ client[fd[w]] \in {"left", "done"} /\ Drop(w)
       \/ /\ client[fd[w]] = "send"
          /\ MutexIsFree(w[1]) /\ shutdown_requested[w[1]]
          /\ Drop(w)
       \/ /\ client[fd[w]] \in {"flush", "read"}
          /\ worker' = [worker EXCEPT ![w] = "io"]
          /\ UNCHANGED <<conn, fd>>
    /\ UNCHANGED <<file, main, shutdown_requested, backlog, queue, accepting, client_fd, peers>>

(* The whole request is read and answered, and the application may ask to  *)
(* quit; or the client went away in the middle of it.                      *)
worker_thread__do_io(w) ==
    /\ worker[w] = "io"
    /\ \/ client[fd[w]] \in {"read", "left", "done"} /\ Drop(w)
       \/ /\ client[fd[w]] \in {"read", "left"}
          /\ Close({fd[w]})
          /\ fd' = [fd EXCEPT ![w] = None]
          /\ worker' = [worker EXCEPT ![w] = "quit"]
    /\ UNCHANGED <<file, main, shutdown_requested, backlog, queue, accepting, client_fd, peers>>

(* SIMPLE_IPC_QUIT: the worker stops the server and ends.                  *)
worker_thread_proc(w) ==
    LET s == w[1] IN
    /\ worker[w] = "quit"
    /\ MutexIsFree(s)
    /\ ipc_server_stop_async(s, [Woken(s) EXCEPT ![w] = "exited"])
    /\ UNCHANGED <<file, main, backlog, accepting, client_fd, fd, peers>>

-----------------------------------------------------------------------------
(* The clients.  At "send" a client has sent nothing, at "flush" a part    *)
(* and at "read" all of its request.  One that closes its end has left if  *)
(* it had sent everything, and is done otherwise.                          *)

Begin(c) ==
    /\ client[c] = "idle" /\ Actors + 1 <= MaxActors
    /\ client' = [client EXCEPT ![c] = "connect"]
    /\ UNCHANGED <<file, main, shutdown_requested, backlog, queue, threads, conn, tries>>

(* Whether a failed attempt is repeated is an option of the caller.        *)
connect_to_server(c) ==
    /\ client[c] = "connect"
    /\ \/ /\ Connects
          /\ backlog' = [backlog EXCEPT ![path] = Append(@, c)]
          /\ conn' = [conn EXCEPT ![c] = "backlog"]
          /\ client' = [client EXCEPT ![c] = "send"]
          /\ tries' = [tries EXCEPT ![c] = 0]
       \/ /\ ~Connects
          /\ tries[c] < Tries
          /\ tries' = [tries EXCEPT ![c] = @ + 1]
          /\ UNCHANGED <<backlog, conn, client>>
       \/ /\ ~Connects
          /\ client' = [client EXCEPT ![c] = "done"]
          /\ tries' = [tries EXCEPT ![c] = 0]
          /\ UNCHANGED <<backlog, conn>>
    /\ UNCHANGED <<file, main, shutdown_requested, queue, threads>>

(* The message, the flush packet and the answer; a write to a connection   *)
(* the server has closed fails.                                            *)
ipc_client_send_command(c) ==
    /\ \/ /\ client[c] \in {"send", "flush"} /\ conn[c] /= "closed"
          /\ client' = [client EXCEPT ![c] = IF @ = "send" THEN "flush" ELSE "read"]
       \/ /\ client[c] \in {"send", "flush", "read"} /\ conn[c] = "closed"
          /\ client' = [client EXCEPT ![c] = "done"]
    /\ UNCHANGED <<file, main, shutdown_requested, backlog, queue, threads, conn, tries>>

(* A client that only wanted to know whether somebody listens, or that     *)
(* was killed.                                                             *)
HangUp(c) ==
    /\ client[c] \in {"send", "flush", "read"}
    /\ conn[c] /= "closed"
    /\ client' = [client EXCEPT ![c] = IF @ = "read" THEN "left" ELSE "done"]
    /\ UNCHANGED <<file, main, shutdown_requested, backlog, queue, threads, conn, tries>>

-----------------------------------------------------------------------------
(* The end of a server.                                                    *)

(* The server's memory goes, and the connections C are reset.              *)
End(s, C) ==
    /\ Goto(s, "gone")
    /\ Close(C)
    /\ robbed' = robbed \ {s}
    /\ shutdown_requested' = [shutdown_requested EXCEPT ![s] = FALSE]
    /\ backlog' = [backlog EXCEPT ![s] = <<>>]
    /\ fifo_fds' = [fifo_fds EXCEPT ![s] = [k \in Slot |-> None]]
    /\ front_pos' = [front_pos EXCEPT ![s] = 0]
    /\ back_pos' = [back_pos EXCEPT ![s] = 0]
    /\ accepting' = [accepting EXCEPT ![s] = "absent"]
    /\ client_fd' = [client_fd EXCEPT ![s] = None]
    /\ worker' = [w \in Worker |-> IF w \in Pool(s) THEN "absent" ELSE worker[w]]
    /\ fd' = [w \in Worker |-> IF w \in Pool(s) THEN None ELSE fd[w]]
    /\ UNCHANGED <<path, path_lock, peers>>

(* Closing the listening socket resets the connections in its backlog.     *)
CloseSocket(s) ==
    /\ main[s] = "close"
    /\ End(s, Range(backlog[s]))

(* SIGKILL: descriptors are closed, the lock and the socket file stay.     *)
Kill(s) ==
    /\ MayKill
    /\ main[s] \notin {"off", "gone"}
    /\ End(s, Range(backlog[s]) \cup Queued(s) \cup {client_fd[s]} \cup {fd[w] : w \in Pool(s)})

(* Someone deletes the socket file, but not just between the two halves of *)
(* unix_ss_free().                                                         *)
Delete ==
    /\ MayDelete
    /\ path /= None
    /\ \A s \in Server : main[s] /= "unlink"
    /\ robbed' = IF main[path] = "gone" THEN robbed ELSE robbed \cup {path}
    /\ path' = None
    /\ UNCHANGED <<path_lock, main, shutdown_requested, backlog, queue, threads, conn, peers>>

Main(s) ==
    \/ is_another_server_alive(s) \/ Bind(s) \/ Listen(s) \/ ipc_server_init_async(s)
    \/ ipc_server_start_async(s) \/ StopBeforeStart(s)
    \/ ipc_server_await(s) \/ ipc_server_free(s) \/ Unlink(s) \/ CloseSocket(s)

AcceptThread(s) == Accept(s) \/ AcceptTimeout(s) \/ accept_thread_proc(s)

WorkerThread(w) ==
    \/ worker_thread__wait_for_connection(w) \/ worker_thread__wait_for_io_start(w)
    \/ worker_thread__do_io(w) \/ worker_thread_proc(w)

ClientStep(c) == connect_to_server(c) \/ ipc_client_send_command(c)

Next ==
    \/ \E s \in Server : hold_lock_file(s) \/ Main(s) \/ ApplicationStops(s) \/ AcceptThread(s) \/ Kill(s)
    \/ \E w \in Worker : WorkerThread(w) \/ SpuriousWakeup(w)
    \/ \E c \in Client : Begin(c) \/ ClientStep(c) \/ HangUp(c)
    \/ Delete

Spec == Init /\ [][Next]_vars

(* Every thread runs, and every client gets on with its request.           *)
Fairness ==
    /\ \A s \in Server : WF_vars(Main(s)) /\ WF_vars(AcceptThread(s))
    /\ \A w \in Worker : WF_vars(WorkerThread(w))
    /\ \A c \in Client : WF_vars(ClientStep(c))

FairSpec == Spec /\ Fairness

-----------------------------------------------------------------------------
(* A server's socket file is not replaced or removed by another server: as *)
(* long as a server has not decided to remove it, its file is at the path, *)
(* unless an outsider has deleted it.                                      *)
ServersDoNotSteal ==
    \A s \in Server :
        main[s] \in {"listen", "unlock", "ready", "await", "free", "unlink"} /\ s \notin robbed => path = s

Holders(c) ==
    ({"accept_thread"} \X {s \in Server : client_fd[s] = c})
    \cup ({"worker"} \X {w \in Worker : fd[w] = c})
    \cup ({"slot"} \X {h \in Server \X Slot : h[2] \in InUse(h[1]) /\ fifo_fds[h[1]][h[2]] = c})

(* An accepted connection is held by the accept thread, by one slot of the *)
(* ring or by one worker until it is closed, so that none is lost, served  *)
(* twice or closed twice.                                                  *)
OneHolder ==
    \A c \in Conn :
        IF conn[c] = "open" THEN \E h \in Holders(c) : Holders(c) = {h} ELSE Holders(c) = {}

(* In the end no server is left that was told to stop, by whatever thread  *)
(* and in whatever state its own threads were, or that no client can reach *)
(* any more.  Each server runs once.                                       *)
ServersEnd ==
    <>[](\A s \in Server : ~shutdown_requested[s] /\ (main[s] = "await" => path = s))

(* Every client ends: its connection is answered, refused or closed even   *)
(* when the server stops, loses its socket file or is killed meanwhile.    *)
(* Each client connects once.                                              *)
ClientsEnd == <>[](\A c \in Client : client[c] \in {"idle", "left", "done"})
=============================================================================
