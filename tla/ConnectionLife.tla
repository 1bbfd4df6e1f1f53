--------------------------- MODULE ConnectionLife ---------------------------
(***************************************************************************)
(* How connections begin and end: src/server/run_server.c and the parts of *)
(* rubiks_server.c that accept, fork, open, close, and meet the end of a   *)
(* file, a reset connection or SIGPIPE.                                    *)
(*                                                                         *)
(* The server process forks a child for each client.  fork copies the      *)
(* table of descriptors, so a child also holds the pipe ends and sockets   *)
(* of other slots, and never closes them.  Who holds what decides who sees *)
(* an end of file and whom SIGPIPE kills.  Cubes and commands do not       *)
(* matter here: pipes and sockets are numbers of lines.                    *)
(***************************************************************************)
EXTENDS Integers

CONSTANTS
  N_CLIENTS,        \* client slots (N_FACES in the code)
  N_USERS,          \* bound: clients that users start
  Server,           \* the server process; the child of client c is process c
  PIPE_CAPACITY,    \* lines a pipe holds before its writer blocks
  SOCKET_CAPACITY,  \* the same, for a socket towards the client
  MaxCommands       \* bound: commands sent in a behaviour

Clients == 0 .. N_CLIENTS - 1
Users == 0 .. N_USERS - 1
Processes == Clients \cup {Server}

ASSUME ClientsAssumption == N_CLIENTS \in Nat \ {0}
ASSUME UsersAssumption == N_USERS \in Nat /\ N_CLIENTS <= N_USERS
ASSUME ServerAssumption == Server \notin Clients
ASSUME CapacityAssumption == /\ PIPE_CAPACITY \in Nat \ {0}
                             /\ SOCKET_CAPACITY \in Nat \ {0}
ASSUME BoundAssumption == MaxCommands \in Nat

\* The indices of client_pipes[c][way][side].
CLIENT_TO_SERVER == 0
SERVER_TO_CLIENT == 1
READ == 0
WRITE == 1
PipeEnds == Clients \X {CLIENT_TO_SERVER, SERVER_TO_CLIENT} \X {READ, WRITE}

VARIABLES
  status,        \* of each process
  pipe_ends,     \* descriptors of pipes it has open
  sockets,       \* connections it has a descriptor of
  main_pc,       \* the threads of the server
  num_clients_connected,
  listener_pc,
  broadcast_message_ready,
  broadcaster_pc,
  served,
  pipe_thread,   \* client_facing_thread_listen_to_pipe of each child
  socket_thread, \* client_facing_thread_listen_to_socket of each child
  to_server,     \* lines in the pipe of each slot, client to server
  to_client,     \* and server to client
  from_user,     \* lines in each connection, client to child
  to_user,       \* and child to client
  client,        \* the client processes
  reset,         \* the child's end of the connection has been reset
  sent           \* commands sent so far

descriptors == <<status, pipe_ends, sockets>>
server == <<main_pc, num_clients_connected, listener_pc,
            broadcast_message_ready, broadcaster_pc, served>>
threads == <<pipe_thread, socket_thread>>
pipes == <<to_server, to_client>>
connections == <<from_user, to_user, client, reset, sent>>
vars == <<descriptors, server, threads, pipes, connections>>

Init ==
  /\ status = [p \in Processes |-> IF p = Server THEN "running" ELSE "none"]
  /\ pipe_ends = [p \in Processes |-> IF p = Server THEN PipeEnds ELSE {}]
  /\ sockets = [p \in Processes |-> {}]
  /\ main_pc = "accept"
  /\ num_clients_connected = 0
  /\ listener_pc = [c \in Clients |-> "none"]
  /\ broadcast_message_ready = 0
  /\ broadcaster_pc = "sem_wait"
  /\ served = 0
  /\ pipe_thread = [c \in Clients |-> "none"]
  /\ socket_thread = [c \in Clients |-> "none"]
  /\ to_server = [c \in Clients |-> 0]
  /\ to_client = [c \in Clients |-> 0]
  /\ from_user = [u \in Users |-> 0]
  /\ to_user = [u \in Users |-> 0]
  /\ client = [u \in Users |-> "absent"]
  /\ reset = [u \in Users |-> FALSE]
  /\ sent = 0

Running(p) == status[p] = "running"

Readers(c, way) == {p \in Processes : <<c, way, READ>> \in pipe_ends[p]}
Writers(c, way) == {p \in Processes : <<c, way, WRITE>> \in pipe_ends[p]}

\* A process ends: the kernel closes all it had open.
Ends(p, how) ==
  /\ status' = [status EXCEPT ![p] = how]
  /\ pipe_ends' = [pipe_ends EXCEPT ![p] = {}]
  /\ sockets' = [sockets EXCEPT ![p] = {}]

ClosePipeEnds(p, ends) == pipe_ends' = [pipe_ends EXCEPT ![p] = @ \ ends]

-----------------------------------------------------------------------------
(* The main thread of the server: the loop of main with accept_client. *)

\* accept4 hands out connections in the order they were made, also those
\* whose client has gone by now.
Accept ==
  LET c == num_clients_connected IN
  /\ Running(Server)
  /\ main_pc = "accept"
  /\ client[c] # "absent"
  /\ sockets' = [sockets EXCEPT ![Server] = @ \cup {c}]
  /\ main_pc' = "fork"
  /\ UNCHANGED <<status, pipe_ends, num_clients_connected, listener_pc,
                 broadcast_message_ready, broadcaster_pc, served, threads,
                 pipes, connections>>

\* Seeded bug: the child keeps the pipes of its own slot only.
Tidy_Fork ==
  LET c == num_clients_connected IN
  /\ Running(Server)
  /\ main_pc = "fork"
  /\ status' = [status EXCEPT ![c] = "running"]
  /\ pipe_ends' = [pipe_ends EXCEPT ![c] = {e \in PipeEnds : e[1] = c}]
  /\ sockets' = [sockets EXCEPT ![c] = {c}]
  /\ main_pc' = "close"
  /\ UNCHANGED <<num_clients_connected, listener_pc, broadcast_message_ready,
                 broadcaster_pc, served, threads, pipes, connections>>

Fork ==
  LET c == num_clients_connected IN
  /\ Running(Server)
  /\ main_pc = "fork"
  /\ status' = [status EXCEPT ![c] = "running"]
  /\ pipe_ends' = [pipe_ends EXCEPT ![c] = pipe_ends[Server]]
  /\ sockets' = [sockets EXCEPT ![c] = sockets[Server]]
  /\ main_pc' = "close"
  /\ UNCHANGED <<num_clients_connected, listener_pc, broadcast_message_ready,
                 broadcaster_pc, served, threads, pipes, connections>>

\* Parent, main_pc "close": the rest of accept_client, given the ends to close.
ParentCloses(ends) ==
  LET c == num_clients_connected IN
  /\ Running(Server)
  /\ main_pc = "close"
  /\ ClosePipeEnds(Server, ends)
  /\ listener_pc' = [listener_pc EXCEPT ![c] = "getline"]
  /\ num_clients_connected' = c + 1
  /\ main_pc' = IF c + 1 < N_CLIENTS THEN "accept" ELSE "join"
  /\ UNCHANGED <<status, sockets, broadcast_message_ready, broadcaster_pc,
                 served, threads, pipes, connections>>

\* Seeded bug: the indices of the second pipe are swapped.
Swapped_CreateListener ==
  ParentCloses({<<num_clients_connected, CLIENT_TO_SERVER, WRITE>>,
                <<num_clients_connected, SERVER_TO_CLIENT, WRITE>>})

\* The connection's own descriptor stays open in the server.
CreateListener ==
  ParentCloses({<<num_clients_connected, CLIENT_TO_SERVER, WRITE>>,
                <<num_clients_connected, SERVER_TO_CLIENT, READ>>})

-----------------------------------------------------------------------------
(* The listener threads and the broadcaster. *)

\* One line of server_thread_listen_to_pipe, with interpret_command.
Interpret(c) ==
  /\ Running(Server)
  /\ listener_pc[c] = "getline"
  /\ to_server[c] > 0
  /\ to_server' = [to_server EXCEPT ![c] = @ - 1]
  /\ broadcast_message_ready' = broadcast_message_ready + 1
  /\ UNCHANGED <<descriptors, main_pc, num_clients_connected, listener_pc,
                 broadcaster_pc, served, threads, to_client, connections>>

\* getline returns -1: the last holder of the writing end is gone.
ListenerEnds(c) ==
  /\ Running(Server)
  /\ listener_pc[c] = "getline"
  /\ to_server[c] = 0
  /\ Writers(c, CLIENT_TO_SERVER) = {}
  /\ ClosePipeEnds(Server, {<<c, CLIENT_TO_SERVER, READ>>})
  /\ listener_pc' = [listener_pc EXCEPT ![c] = "done"]
  /\ UNCHANGED <<status, sockets, main_pc, num_clients_connected,
                 broadcast_message_ready, broadcaster_pc, served, threads,
                 pipes, connections>>

SemWait ==
  /\ Running(Server)
  /\ broadcaster_pc = "sem_wait"
  /\ broadcast_message_ready > 0
  /\ broadcast_message_ready' = broadcast_message_ready - 1
  /\ broadcaster_pc' = "write"
  /\ served' = 0
  /\ UNCHANGED <<descriptors, main_pc, num_clients_connected, listener_pc,
                 threads, pipes, connections>>

\* Seeded bug: the loop over the slots goes one too far.
OneTooMany_Write ==
  /\ Running(Server)
  /\ broadcaster_pc = "write"
  /\ Readers(served, SERVER_TO_CLIENT) # {}
  /\ to_client[served] < PIPE_CAPACITY
  /\ to_client' = [to_client EXCEPT ![served] = @ + 1]
  /\ served' = served + 1
  /\ broadcaster_pc' = IF served < N_CLIENTS THEN "write" ELSE "sem_wait"
  /\ UNCHANGED <<descriptors, main_pc, num_clients_connected, listener_pc,
                 broadcast_message_ready, threads, to_server, connections>>

\* fputs and fflush wait while the pipe is full and somebody could read it.
Write ==
  /\ Running(Server)
  /\ broadcaster_pc = "write"
  /\ Readers(served, SERVER_TO_CLIENT) # {}
  /\ to_client[served] < PIPE_CAPACITY
  /\ to_client' = [to_client EXCEPT ![served] = @ + 1]
  /\ served' = served + 1
  /\ broadcaster_pc' = IF served + 1 < N_CLIENTS THEN "write" ELSE "sem_wait"
  /\ UNCHANGED <<descriptors, main_pc, num_clients_connected, listener_pc,
                 broadcast_message_ready, threads, to_server, connections>>

\* Nobody can read the pipe: SIGPIPE, which the server does not handle.
BrokenWrite ==
  /\ Running(Server)
  /\ broadcaster_pc = "write"
  /\ Readers(served, SERVER_TO_CLIENT) = {}
  /\ Ends(Server, "killed")
  /\ UNCHANGED <<server, threads, pipes, connections>>

-----------------------------------------------------------------------------
(* A child process: client_facing_process and its two threads. *)

\* Seeded bug: the child keeps the server's ends of its pipes.
Untidy_CloseAndStart(c) ==
  /\ Running(c)
  /\ pipe_thread[c] = "none"
  /\ pipe_thread' = [pipe_thread EXCEPT ![c] = "fdopen"]
  /\ socket_thread' = [socket_thread EXCEPT ![c] = "fdopen"]
  /\ UNCHANGED <<descriptors, server, pipes, connections>>

CloseAndStart(c) ==
  /\ Running(c)
  /\ pipe_thread[c] = "none"
  /\ ClosePipeEnds(c, {<<c, CLIENT_TO_SERVER, READ>>,
                       <<c, SERVER_TO_CLIENT, WRITE>>})
  /\ pipe_thread' = [pipe_thread EXCEPT ![c] = "fdopen"]
  /\ socket_thread' = [socket_thread EXCEPT ![c] = "fdopen"]
  /\ UNCHANGED <<status, sockets, server, pipes, connections>>

PipeThreadAt(c, pc) == Running(c) /\ pipe_thread[c] = pc
SocketThreadAt(c, pc) == Running(c) /\ socket_thread[c] = pc

PipeThreadGoes(c, pc) ==
  /\ pipe_thread' = [pipe_thread EXCEPT ![c] = pc]
  /\ UNCHANGED <<socket_thread, server>>

SocketThreadGoes(c, pc) ==
  /\ socket_thread' = [socket_thread EXCEPT ![c] = pc]
  /\ UNCHANGED <<pipe_thread, server>>

\* A signal, or error_and_exit, ends the child.
ChildEnds(c, how) ==
  /\ Ends(c, how)
  /\ UNCHANGED <<server, threads, connections>>

\* One of the threads closes the connection, and then its own pipe.
CloseConnection(c) ==
  /\ c \in sockets[c]
  /\ sockets' = [sockets EXCEPT ![c] = @ \ {c}]
  /\ UNCHANGED <<status, pipe_ends, pipes, connections>>

ClosePipe(c, end) ==
  /\ ClosePipeEnds(c, {end})
  /\ UNCHANGED <<status, sockets, pipes, connections>>

\* fdopen fails on a descriptor that the other thread has closed, and so does
\* the second fclose, or one with frames that a reset connection refuses.
ErrorAndExit(c) ==
  /\ \/ /\ \/ PipeThreadAt(c, "fdopen") \/ PipeThreadAt(c, "fclose")
           \/ SocketThreadAt(c, "fdopen") \/ SocketThreadAt(c, "fclose")
        /\ c \notin sockets[c]
     \/ PipeThreadAt(c, "fclose") /\ reset[c]
  /\ ChildEnds(c, "exited")
  /\ UNCHANGED pipes

PipeOpen(c) ==
  /\ PipeThreadAt(c, "fdopen")
  /\ c \in sockets[c]
  /\ PipeThreadGoes(c, "getline")
  /\ UNCHANGED <<descriptors, pipes, connections>>

\* Seeded bug: the thread leaves its pipe alone once the connection is closed.
Stopping_PipeGetLine(c) ==
  /\ PipeThreadAt(c, "getline")
  /\ to_client[c] > 0
  /\ c \in sockets[c]
  /\ to_client' = [to_client EXCEPT ![c] = @ - 1]
  /\ PipeThreadGoes(c, "write")
  /\ UNCHANGED <<descriptors, to_server, connections>>

PipeGetLine(c) ==
  /\ PipeThreadAt(c, "getline")
  /\ to_client[c] > 0
  /\ to_client' = [to_client EXCEPT ![c] = @ - 1]
  /\ PipeThreadGoes(c, "write")
  /\ UNCHANGED <<descriptors, to_server, connections>>

\* Seeded bug: an empty pipe is taken for the end of the file.
Impatient_PipeEOF(c) ==
  /\ PipeThreadAt(c, "getline")
  /\ to_client[c] = 0
  /\ PipeThreadGoes(c, "fclose")
  /\ UNCHANGED <<descriptors, pipes, connections>>

PipeEOF(c) ==
  /\ PipeThreadAt(c, "getline")
  /\ to_client[c] = 0
  /\ Writers(c, SERVER_TO_CLIENT) = {}
  /\ PipeThreadGoes(c, "fclose")
  /\ UNCHANGED <<descriptors, pipes, connections>>

\* The write begins; on a closed descriptor it fails and nobody looks.
PipeWrite(c) ==
  /\ PipeThreadAt(c, "write")
  /\ PipeThreadGoes(c, IF c \in sockets[c] THEN "writing" ELSE "getline")
  /\ UNCHANGED <<descriptors, pipes, connections>>

\* The write waits while the connection is full.
PipeWriteDone(c) ==
  /\ PipeThreadAt(c, "writing")
  /\ client[c] = "connected"
  /\ to_user[c] < SOCKET_CAPACITY
  /\ to_user' = [to_user EXCEPT ![c] = @ + 1]
  /\ PipeThreadGoes(c, "getline")
  /\ UNCHANGED <<descriptors, pipes, from_user, client, reset, sent>>

\* A frame for a client that has gone is answered by a reset; after that, a
\* write is refused and nobody looks.
PipeWriteLost(c) ==
  /\ PipeThreadAt(c, "writing")
  /\ client[c] = "gone"
  /\ reset' = [reset EXCEPT ![c] = TRUE]
  /\ PipeThreadGoes(c, "getline")
  /\ UNCHANGED <<descriptors, pipes, from_user, to_user, client, sent>>

\* Or it raises SIGPIPE, which ends the child.
PipeWriteKilled(c) ==
  /\ PipeThreadAt(c, "writing")
  /\ reset[c]
  /\ ChildEnds(c, "killed")
  /\ UNCHANGED pipes

\* Seeded bug: a second fclose of the connection is let pass.
Lenient_PipeClose(c) ==
  /\ PipeThreadAt(c, "fclose")
  /\ sockets' = [sockets EXCEPT ![c] = @ \ {c}]
  /\ PipeThreadGoes(c, "fclose_pipe")
  /\ UNCHANGED <<status, pipe_ends, pipes, connections>>

PipeClose(c) ==
  /\ PipeThreadAt(c, "fclose")
  /\ CloseConnection(c)
  /\ PipeThreadGoes(c, "fclose_pipe")

PipeThreadEnds(c) ==
  /\ PipeThreadAt(c, "fclose_pipe")
  /\ ClosePipe(c, <<c, SERVER_TO_CLIENT, READ>>)
  /\ PipeThreadGoes(c, "done")

PipeThread(c) ==
  \/ PipeOpen(c) \/ PipeGetLine(c) \/ PipeEOF(c) \/ PipeWrite(c)
  \/ PipeWriteDone(c) \/ PipeWriteLost(c) \/ PipeWriteKilled(c)
  \/ PipeClose(c) \/ PipeThreadEnds(c)

SocketOpen(c) ==
  /\ SocketThreadAt(c, "fdopen")
  /\ c \in sockets[c]
  /\ SocketThreadGoes(c, "getline")
  /\ UNCHANGED <<descriptors, pipes, connections>>

\* The read begins.  While it lasts, it keeps the connection open even if the
\* other thread closes the descriptor.
SocketRead(c) ==
  /\ SocketThreadAt(c, "getline")
  /\ SocketThreadGoes(c, IF c \in sockets[c] THEN "reading" ELSE "fclose")
  /\ UNCHANGED <<descriptors, pipes, connections>>

\* A line; one that stdio has read ahead needs no descriptor.
SocketGetLine(c) ==
  /\ \/ SocketThreadAt(c, "reading")
     \/ SocketThreadAt(c, "getline") /\ c \notin sockets[c]
  /\ from_user[c] > 0
  /\ from_user' = [from_user EXCEPT ![c] = @ - 1]
  /\ SocketThreadGoes(c, "forward")
  /\ UNCHANGED <<descriptors, pipes, to_user, client, reset, sent>>

SocketEOF(c) ==
  /\ SocketThreadAt(c, "reading")
  /\ from_user[c] = 0
  /\ client[c] = "gone"
  /\ SocketThreadGoes(c, "fclose")
  /\ UNCHANGED <<descriptors, pipes, connections>>

SocketForward(c) ==
  /\ SocketThreadAt(c, "forward")
  /\ Readers(c, CLIENT_TO_SERVER) # {}
  /\ to_server[c] < PIPE_CAPACITY
  /\ to_server' = [to_server EXCEPT ![c] = @ + 1]
  /\ SocketThreadGoes(c, "getline")
  /\ UNCHANGED <<descriptors, to_client, connections>>

\* Nobody can read the pipe: SIGPIPE.
SocketForwardKilled(c) ==
  /\ SocketThreadAt(c, "forward")
  /\ Readers(c, CLIENT_TO_SERVER) = {}
  /\ ChildEnds(c, "killed")
  /\ UNCHANGED pipes

SocketClose(c) ==
  /\ SocketThreadAt(c, "fclose")
  /\ CloseConnection(c)
  /\ SocketThreadGoes(c, "fclose_pipe")

SocketThreadEnds(c) ==
  /\ SocketThreadAt(c, "fclose_pipe")
  /\ ClosePipe(c, <<c, CLIENT_TO_SERVER, WRITE>>)
  /\ SocketThreadGoes(c, "done")

SocketThread(c) ==
  \/ SocketOpen(c) \/ SocketRead(c) \/ SocketGetLine(c) \/ SocketEOF(c)
  \/ SocketForward(c) \/ SocketForwardKilled(c)
  \/ SocketClose(c) \/ SocketThreadEnds(c)

-----------------------------------------------------------------------------
(* The clients, each a process of its own on any machine, and its user. *)

Accepted(u) ==
  \/ u < num_clients_connected
  \/ u = num_clients_connected /\ main_pc \in {"fork", "close"}

\* Some process keeps the connection open.  Before accept4 that is any process
\* of the server: the children have the listening socket as well.
ConnectionOpen(u) ==
  \/ \E p \in Processes : u \in sockets[p]
  \/ /\ u \in Clients
     /\ SocketThreadAt(u, "reading") \/ PipeThreadAt(u, "writing")
  \/ ~Accepted(u) /\ \E p \in Processes : Running(p)

Connect(u) ==
  /\ client[u] = "absent"
  /\ \A v \in Users : v < u => client[v] # "absent"
  /\ \E p \in Processes : Running(p)
  /\ client' = [client EXCEPT ![u] = "connected"]
  /\ UNCHANGED <<descriptors, server, threads, pipes, from_user, to_user,
                 reset, sent>>

SendCommand(u) ==
  /\ client[u] = "connected"
  /\ ConnectionOpen(u)
  /\ sent < MaxCommands
  /\ sent' = sent + 1
  /\ from_user' = [from_user EXCEPT ![u] = @ + 1]
  /\ UNCHANGED <<descriptors, server, threads, pipes, to_user, client, reset>>

ReadFrame(u) ==
  /\ client[u] = "connected"
  /\ to_user[u] > 0
  /\ to_user' = [to_user EXCEPT ![u] = @ - 1]
  /\ UNCHANGED <<descriptors, server, threads, pipes, from_user, client,
                 reset, sent>>

\* The client process ends.  With frames it has not read, the connection is
\* reset, and the last commands may be lost.
Leave(u) ==
  /\ client[u] = "connected"
  /\ client' = [client EXCEPT ![u] = "gone"]
  /\ reset' = [reset EXCEPT ![u] = to_user[u] > 0]
  /\ to_user' = [to_user EXCEPT ![u] = 0]
  /\ \E n \in 0 .. from_user[u] :
        /\ to_user[u] = 0 => n = from_user[u]
        /\ from_user' = [from_user EXCEPT ![u] = n]
  /\ UNCHANGED <<descriptors, server, threads, pipes, sent>>

\* Ctrl-C in the server's terminal reaches its children as well.
Interrupt ==
  /\ Running(Server)
  /\ status' = [p \in Processes |->
                  IF Running(p) THEN "interrupted" ELSE status[p]]
  /\ pipe_ends' = [p \in Processes |-> {}]
  /\ sockets' = [p \in Processes |-> {}]
  /\ UNCHANGED <<server, threads, pipes, connections>>

-----------------------------------------------------------------------------
Main == Accept \/ Fork \/ CreateListener
Listener(c) == Interpret(c) \/ ListenerEnds(c)
Broadcaster == SemWait \/ Write \/ BrokenWrite
Child(c) ==
  CloseAndStart(c) \/ PipeThread(c) \/ SocketThread(c) \/ ErrorAndExit(c)
User(u) == Connect(u) \/ SendCommand(u) \/ ReadFrame(u) \/ Leave(u)

Next ==
  \/ Main
  \/ Broadcaster
  \/ \E c \in Clients : Listener(c) \/ Child(c)
  \/ \E u \in Users : User(u)
  \/ Interrupt

Spec == Init /\ [][Next]_vars

\* The schedulers run every thread that can go on, and a connected client reads
\* its frames.  Nothing is assumed of the users.
Fairness ==
  /\ WF_vars(Main)
  /\ WF_vars(Broadcaster)
  /\ \A c \in Clients : /\ WF_vars(Listener(c))
                        /\ WF_vars(CloseAndStart(c))
                        /\ WF_vars(PipeThread(c))
                        /\ WF_vars(SocketThread(c))
                        /\ WF_vars(ErrorAndExit(c))
  /\ \A u \in Users : WF_vars(ReadFrame(u))

FairSpec == Spec /\ Fairness

-----------------------------------------------------------------------------
(* Properties *)

\* A thread that has left its loop, and one that has closed the connection.
Leaving == {"fclose", "fclose_pipe", "done"}
Closed == {"fclose_pipe", "done"}

PipeThreadPCs == {"none", "fdopen", "getline", "write", "writing"} \cup Leaving
SocketThreadPCs ==
  {"none", "fdopen", "getline", "reading", "forward"} \cup Leaving

\* The variables keep their types.
TypeOK ==
  /\ status \in [Processes ->
                   {"none", "running", "killed", "exited", "interrupted"}]
  /\ pipe_ends \in [Processes -> SUBSET PipeEnds]
  /\ sockets \in [Processes -> SUBSET Clients]
  /\ main_pc \in {"accept", "fork", "close", "join"}
  /\ num_clients_connected \in 0 .. N_CLIENTS
  /\ main_pc = "join" <=> num_clients_connected = N_CLIENTS
  /\ listener_pc \in [Clients -> {"none", "getline", "done"}]
  /\ broadcast_message_ready \in Nat
  /\ broadcaster_pc \in {"sem_wait", "write"}
  /\ served \in 0 .. N_CLIENTS
  /\ broadcaster_pc = "write" => served < N_CLIENTS
  /\ pipe_thread \in [Clients -> PipeThreadPCs]
  /\ socket_thread \in [Clients -> SocketThreadPCs]
  /\ to_server \in [Clients -> 0 .. PIPE_CAPACITY]
  /\ to_client \in [Clients -> 0 .. PIPE_CAPACITY]
  /\ from_user \in [Users -> Nat]
  /\ to_user \in [Users -> 0 .. SOCKET_CAPACITY]
  /\ client \in [Users -> {"absent", "connected", "gone"}]
  /\ reset \in [Users -> BOOLEAN]
  /\ sent \in Nat

\* client_facing_process never returns to accept_client.  The header has the
\* child return -1 and leave the loop of main, but the code of that branch is
\* return 0: a child that got there would accept clients as a second server.
\* Of the two threads, the one that closes the connection second fails, so
\* that none gets there (ChildComesBack is the other side of this).
NoChildReturns ==
  \A c \in Clients :
    Running(c) => ~(pipe_thread[c] = "done" /\ socket_thread[c] = "done")

\* As long as the server runs and a client stays, nothing on the way between
\* them is closed, whatever the other clients do: its child runs with both
\* threads in their loops, and the server's listener thread reads its pipe.
ConnectionStands ==
  \A c \in Clients :
    Running(Server) /\ c < num_clients_connected /\ client[c] = "connected" =>
      /\ Running(c)
      /\ c \in sockets[c]
      /\ pipe_thread[c] \notin Leaving
      /\ socket_thread[c] \notin Leaving
      /\ listener_pc[c] = "getline"

\* A broadcast to a child that has died kills the server by SIGPIPE only after
\* the first client has gone: the first child holds the reading ends of all
\* pipes towards clients.
ServerKilledOnlyAfterFirstClient ==
  status[Server] = "killed" => client[0] = "gone"

-----------------------------------------------------------------------------
(* What the three invariants rest on; Inv is inductive. *)

\* Children are forked in the order of their slots, and start both threads.
ForkedInOrder ==
  \A c \in Clients :
    /\ status[c] # "none" <=>
         \/ c < num_clients_connected
         \/ c = num_clients_connected /\ main_pc = "close"
    /\ status[c] = "none" => pipe_thread[c] = "none"
    /\ pipe_thread[c] = "none" <=> socket_thread[c] = "none"

\* What the server holds while it runs.
ServerHolds ==
  Running(Server) =>
    /\ main_pc = "fork" => num_clients_connected \in sockets[Server]
    /\ \A c \in Clients :
         /\ <<c, SERVER_TO_CLIENT, WRITE>> \in pipe_ends[Server]
         /\ listener_pc[c] # "done" =>
              <<c, CLIENT_TO_SERVER, READ>> \in pipe_ends[Server]
         /\ c >= num_clients_connected =>
              /\ <<c, SERVER_TO_CLIENT, READ>> \in pipe_ends[Server]
              /\ <<c, CLIENT_TO_SERVER, WRITE>> \in pipe_ends[Server]
         /\ listener_pc[c] = "none" <=> c >= num_clients_connected

\* What a child holds while the server runs and its client has not gone.
ChildStands(c) ==
  /\ Running(c)
  /\ c \in sockets[c]
  /\ pipe_thread[c] \notin Leaving
  /\ socket_thread[c] \notin Leaving
  /\ <<c, CLIENT_TO_SERVER, WRITE>> \in pipe_ends[c]
  /\ listener_pc[c] # "done"
  /\ c = 0 => \A d \in Clients : <<d, SERVER_TO_CLIENT, READ>> \in pipe_ends[c]

ChildrenStand ==
  \A c \in Clients :
    Running(Server) /\ status[c] # "none" /\ client[c] # "gone" =>
      ChildStands(c)

ResetAfterLeave == \A u \in Users : reset[u] => client[u] = "gone"

\* A thread that has closed the connection is the only one to have done so.
OneThreadCloses ==
  \A c \in Clients : Running(c) =>
    /\ pipe_thread[c] \in Closed => c \notin sockets[c]
    /\ socket_thread[c] \in Closed => c \notin sockets[c]
    /\ ~(pipe_thread[c] \in Closed /\ socket_thread[c] \in Closed)

Inv ==
  /\ TypeOK
  /\ ForkedInOrder
  /\ ServerHolds
  /\ ChildrenStand
  /\ ResetAfterLeave
  /\ OneThreadCloses
  /\ ServerKilledOnlyAfterFirstClient

-----------------------------------------------------------------------------
\* With all slots taken, a broadcast reaches every pipe unless a process of
\* the server has ended: clients that left do not hold it up, since the child
\* of a client that left goes on emptying its pipe.
BroadcastCompletes ==
  (main_pc = "join" /\ broadcaster_pc = "write") ~>
    (broadcaster_pc = "sem_wait" \/ \E p \in Processes : ~Running(p))

\* When the server has died and one child is left, a command of its client
\* brings the child to its end and the connection to a close, so that the
\* client can learn of it.
Alone(c) == \A p \in Processes : Running(p) <=> p = c
LastClientLearns ==
  \A c \in Clients :
    Alone(c) /\ client[c] = "connected" /\ from_user[c] > 0 ~>
      client[c] = "gone" \/ ~ConnectionOpen(c)

-----------------------------------------------------------------------------
(* What the documentation says and the program does not do. *)

\* rubiks_server.h:113, of accept_client: "@return 0 for the parent process and
\* -1 for the child (echo) process."  A child whose threads have both met the
\* end of their files comes back; it does not end in error_and_exit.
ChildComesBack ==
  \A c \in Clients :
    pipe_thread[c] \in Leaving /\ socket_thread[c] \in Leaving =>
      status[c] # "exited"

\* rubiks_server.h:141: "this will send the cube state to each client."  With
\* all slots taken, a pending broadcast is made for the client that stays.
BroadcastSurvivesDepartures ==
  \A c \in Clients :
    main_pc = "join" /\ broadcast_message_ready > 0 /\ client[c] = "connected"
      ~> \/ broadcast_message_ready = 0 \/ status[Server] = "interrupted"
         \/ client[c] = "gone"

=============================================================================
