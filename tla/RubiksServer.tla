---------------------------- MODULE RubiksServer ----------------------------
(***************************************************************************)
(* The server process of src/server/run_server.c and rubiks_server.c.      *)
(*                                                                         *)
(* The main thread accepts clients; for each it forks a child process and  *)
(* creates a listener thread.  The listener of client c reads commands     *)
(* from the pipe to_server[c] and applies them to global_cube_state under  *)
(* global_cube_state_lock.  The broadcaster waits on the semaphore         *)
(* broadcast_message_ready, encodes the cube under the lock and, after it  *)
(* has released it, writes the frame to the pipe to_client[c] of every     *)
(* client slot, connected or not.                                          *)
(*                                                                         *)
(* The child process of client c is the other end of both pipes: Send and  *)
(* Receive.  What closing descriptors, EOF and signals do is not part of   *)
(* this module: here no process goes away.                                 *)
(***************************************************************************)
EXTENDS Encoding, FiniteSets

CONSTANTS
  N_CLIENTS,             \* client slots (N_FACES in the code)
  PIPE_CAPACITY,         \* lines a pipe holds before its writer blocks
  MIN_DEPTH, MAX_DEPTH,  \* shuffle_depths
  Broadcaster, NoThread, \* owners of the lock that are not listeners
  UserLines,             \* bound: the command lines users send
  RandomTurns,           \* bound: the turns rand_r picks for a shuffle
  MaxCommands            \* bound: commands sent in a behaviour

Clients == 0 .. N_CLIENTS - 1

\* What the client's encode_user_input writes: face, direction or 2, newline.
Lines == {<<ZERO + f, ZERO + d, NEWLINE>> : f \in Faces, d \in 0 .. 2}

ASSUME ClientsAssumption == N_CLIENTS \in Nat \ {0}
ASSUME PipeAssumption == PIPE_CAPACITY \in Nat \ {0}
ASSUME DepthAssumption == /\ MIN_DEPTH \in Nat \ {0} /\ MAX_DEPTH \in Nat
                          /\ MIN_DEPTH <= MAX_DEPTH
ASSUME ThreadAssumption == /\ Broadcaster \notin Clients
                           /\ NoThread \notin Clients \cup {Broadcaster}
ASSUME BoundAssumption == /\ UserLines \subseteq Lines
                          /\ RandomTurns \subseteq Faces \X Directions
                          /\ MaxCommands \in Nat

VARIABLES
  global_cube_state,
  global_cube_state_lock,   \* its owner, or NoThread
  broadcast_message_ready,  \* value of the semaphore
  to_server,                \* client_pipes[c][0]: lines from child to server
  to_client,                \* client_pipes[c][1]: frames from server to child
  main_pc,                  \* the main thread
  num_clients_connected,
  listener_pc,              \* the listener thread of each client
  line,                     \* its line, between getline and sem_post
  depth,                    \* turns its shuffle still has to make
  cube_copy,                \* the cube it is writing back
  copied,                   \* faces it has written back
  broadcaster_pc,           \* the broadcast thread
  msg,                      \* its message buffer
  encoded,                  \* faces it has encoded
  served,                   \* clients it has written to
  version,                  \* ghost: which state msg encodes
  history,                  \* ghost: every state of the cube between commands
  received,                 \* ghost: versions of the frames each child has read
  sent                      \* commands sent so far

listener == <<listener_pc, line, depth, cube_copy, copied>>
broadcaster == <<broadcaster_pc, msg, encoded, served, version>>
main == <<main_pc, num_clients_connected>>
environment == <<received, sent>>
vars == <<global_cube_state, global_cube_state_lock, broadcast_message_ready,
          to_server, to_client, main, listener, broadcaster, history,
          environment>>

\* A frame in flight is the text of a message and its (ghost) version.
Frame(text, v) == [text |-> text, version |-> v]

\* Client slots whose child process is running.
Connected(c) ==
  \/ c < num_clients_connected
  \/ c = num_clients_connected /\ main_pc = "create"

Init ==
  /\ global_cube_state = make_cube
  /\ global_cube_state_lock = NoThread
  /\ broadcast_message_ready = 0
  /\ to_server = [c \in Clients |-> <<>>]
  /\ to_client = [c \in Clients |-> <<>>]
  /\ main_pc = "accept"
  /\ num_clients_connected = 0
  /\ listener_pc = [c \in Clients |-> "none"]
  /\ line = [c \in Clients |-> <<>>]
  /\ depth = [c \in Clients |-> 0]
  /\ cube_copy = [c \in Clients |-> make_cube]
  /\ copied = [c \in Clients |-> 0]
  /\ broadcaster_pc = "sem_wait"
  /\ msg = EmptyBuffer
  /\ encoded = 0
  /\ served = 0
  /\ version = 0
  /\ history = <<make_cube>>
  /\ received = [c \in Clients |-> <<>>]
  /\ sent = 0

-----------------------------------------------------------------------------
(* The main thread. *)

\* accept_client up to fork: the child process of the next slot is running.
Accept ==
  /\ main_pc = "accept"
  /\ main_pc' = "create"
  /\ UNCHANGED <<global_cube_state, global_cube_state_lock,
                 broadcast_message_ready, to_server, to_client,
                 num_clients_connected, listener, broadcaster, history,
                 environment>>

\* accept_client from fork to return, and the loop of main: when every slot is
\* taken, main joins the broadcaster, which never returns.
CreateListener ==
  /\ main_pc = "create"
  /\ listener_pc' = [listener_pc EXCEPT ![num_clients_connected] = "getline"]
  /\ num_clients_connected' = num_clients_connected + 1
  /\ main_pc' =
       IF num_clients_connected + 1 < N_CLIENTS THEN "accept" ELSE "join"
  /\ UNCHANGED <<global_cube_state, global_cube_state_lock,
                 broadcast_message_ready, to_server, to_client, line, depth,
                 cube_copy, copied, broadcaster, history, environment>>

-----------------------------------------------------------------------------
(* The child processes, at the other end of the pipes. *)

Send(c, l) ==
  /\ Connected(c)
  /\ sent < MaxCommands
  /\ Len(to_server[c]) < PIPE_CAPACITY
  /\ to_server' = [to_server EXCEPT ![c] = Append(@, l)]
  /\ sent' = sent + 1
  /\ UNCHANGED <<global_cube_state, global_cube_state_lock,
                 broadcast_message_ready, to_client, main, listener,
                 broadcaster, history, received>>

Receive(c) ==
  /\ Connected(c)
  /\ to_client[c] # <<>>
  /\ to_client' = [to_client EXCEPT ![c] = Tail(@)]
  /\ received' = [received EXCEPT ![c] = Append(@, Head(to_client[c]).version)]
  /\ UNCHANGED <<global_cube_state, global_cube_state_lock,
                 broadcast_message_ready, to_server, main, listener,
                 broadcaster, history, sent>>

-----------------------------------------------------------------------------
(* The listener thread of client c: server_thread_listen_to_pipe,          *)
(* interpret_command and decode_user_input.                                *)

GetLine(c) ==
  /\ listener_pc[c] = "getline"
  /\ to_server[c] # <<>>
  /\ line' = [line EXCEPT ![c] = Head(to_server[c])]
  /\ to_server' = [to_server EXCEPT ![c] = Tail(@)]
  /\ listener_pc' = [listener_pc EXCEPT ![c] = "lock"]
  /\ UNCHANGED <<global_cube_state, global_cube_state_lock,
                 broadcast_message_ready, to_client, main, depth, cube_copy,
                 copied, broadcaster, history, environment>>

\* Seeded bug: the command is carried out without waiting for the mutex.
Unguarded_Lock(c) ==
  /\ listener_pc[c] = "lock"
  /\ global_cube_state_lock' = c
  /\ listener_pc' = [listener_pc EXCEPT ![c] = "decode"]
  /\ UNCHANGED <<global_cube_state, broadcast_message_ready, to_server,
                 to_client, main, line, depth, cube_copy, copied, broadcaster,
                 history, environment>>

Lock(c) ==
  /\ listener_pc[c] = "lock"
  /\ global_cube_state_lock = NoThread
  /\ global_cube_state_lock' = c
  /\ listener_pc' = [listener_pc EXCEPT ![c] = "decode"]
  /\ UNCHANGED <<global_cube_state, broadcast_message_ready, to_server,
                 to_client, main, line, depth, cube_copy, copied, broadcaster,
                 history, environment>>

\* Prepare the cube the thread is going to write back, face by face.
WriteBack(c, cube) ==
  /\ cube_copy' = [cube_copy EXCEPT ![c] = cube]
  /\ copied' = [copied EXCEPT ![c] = 0]
  /\ listener_pc' = [listener_pc EXCEPT ![c] = "copy"]

DecodeRotate(c) ==
  LET face_num == line[c][1] - ZERO
      direction == line[c][2] - ZERO
  IN  /\ listener_pc[c] = "decode"
      /\ direction # 2
      /\ WriteBack(c, rotate(global_cube_state, face_num, direction))
      /\ UNCHANGED <<global_cube_state, global_cube_state_lock,
                     broadcast_message_ready, to_server, to_client, main, line,
                     depth, broadcaster, history, environment>>

DecodeShuffle(c) ==
  /\ listener_pc[c] = "decode"
  /\ line[c][2] - ZERO = 2
  /\ is_solved(global_cube_state)
  /\ \E n \in MIN_DEPTH .. MAX_DEPTH : depth' = [depth EXCEPT ![c] = n]
  /\ listener_pc' = [listener_pc EXCEPT ![c] = "shuffle"]
  /\ UNCHANGED <<global_cube_state, global_cube_state_lock,
                 broadcast_message_ready, to_server, to_client, main, line,
                 cube_copy, copied, broadcaster, history, environment>>

\* Every face of an unsolved cube is replaced by a new one.
DecodeSolve(c) ==
  /\ listener_pc[c] = "decode"
  /\ line[c][2] - ZERO = 2
  /\ ~is_solved(global_cube_state)
  /\ WriteBack(c, make_cube)
  /\ UNCHANGED <<global_cube_state, global_cube_state_lock,
                 broadcast_message_ready, to_server, to_client, main, line,
                 depth, broadcaster, history, environment>>

\* The body of the loop of shuffle, up to the end of rotate's work on its copy.
ShuffleTurn(c) ==
  /\ listener_pc[c] = "shuffle"
  /\ \E t \in RandomTurns :
       WriteBack(c, rotate(global_cube_state, t[1], t[2]))
  /\ depth' = [depth EXCEPT ![c] = @ - 1]
  /\ UNCHANGED <<global_cube_state, global_cube_state_lock,
                 broadcast_message_ready, to_server, to_client, main, line,
                 broadcaster, history, environment>>

CopyFace(c) ==
  LET i == copied[c] IN
  /\ listener_pc[c] = "copy"
  /\ global_cube_state' = [global_cube_state EXCEPT ![i] = cube_copy[c][i]]
  /\ copied' = [copied EXCEPT ![c] = @ + 1]
  /\ IF i + 1 < N_FACES
     THEN UNCHANGED listener_pc
     ELSE listener_pc' = [listener_pc EXCEPT
            ![c] = IF depth[c] > 0 THEN "shuffle" ELSE "unlock"]
  /\ UNCHANGED <<global_cube_state_lock, broadcast_message_ready, to_server,
                 to_client, main, line, depth, cube_copy, broadcaster, history,
                 environment>>

\* The thread's copy is gone by now; the state it leaves becomes history.
Unlock(c) ==
  /\ listener_pc[c] = "unlock"
  /\ global_cube_state_lock' = NoThread
  /\ history' = Append(history, global_cube_state)
  /\ listener_pc' = [listener_pc EXCEPT ![c] = "post"]
  /\ cube_copy' = [cube_copy EXCEPT ![c] = make_cube]
  /\ copied' = [copied EXCEPT ![c] = 0]
  /\ UNCHANGED <<global_cube_state, broadcast_message_ready, to_server,
                 to_client, main, line, depth, broadcaster, environment>>

\* Seeded bug: a signal in place of the semaphore, lost when nobody waits.
Lossy_Post(c) ==
  /\ listener_pc[c] = "post"
  /\ broadcast_message_ready' =
       IF broadcaster_pc = "sem_wait" THEN 1 ELSE broadcast_message_ready
  /\ listener_pc' = [listener_pc EXCEPT ![c] = "getline"]
  /\ line' = [line EXCEPT ![c] = <<>>]
  /\ UNCHANGED <<global_cube_state, global_cube_state_lock, to_server,
                 to_client, main, depth, cube_copy, copied, broadcaster,
                 history, environment>>

Post(c) ==
  /\ listener_pc[c] = "post"
  /\ broadcast_message_ready' = broadcast_message_ready + 1
  /\ listener_pc' = [listener_pc EXCEPT ![c] = "getline"]
  /\ line' = [line EXCEPT ![c] = <<>>]
  /\ UNCHANGED <<global_cube_state, global_cube_state_lock, to_server,
                 to_client, main, depth, cube_copy, copied, broadcaster,
                 history, environment>>

Listener(c) ==
  \/ GetLine(c)
  \/ Lock(c)
  \/ DecodeRotate(c)
  \/ DecodeShuffle(c)
  \/ DecodeSolve(c)
  \/ ShuffleTurn(c)
  \/ CopyFace(c)
  \/ Unlock(c)
  \/ Post(c)

-----------------------------------------------------------------------------
(* The broadcast thread: server_thread_wait_and_broadcast.                 *)

\* Seeded bug: one broadcast takes all the wake-ups there are.
Draining_SemWait ==
  /\ broadcaster_pc = "sem_wait"
  /\ broadcast_message_ready > 0
  /\ broadcast_message_ready' = 0
  /\ broadcaster_pc' = "lock"
  /\ UNCHANGED <<global_cube_state, global_cube_state_lock, to_server,
                 to_client, main, listener, msg, encoded, served, version,
                 history, environment>>

SemWait ==
  /\ broadcaster_pc = "sem_wait"
  /\ broadcast_message_ready > 0
  /\ broadcast_message_ready' = broadcast_message_ready - 1
  /\ broadcaster_pc' = "lock"
  /\ UNCHANGED <<global_cube_state, global_cube_state_lock, to_server,
                 to_client, main, listener, msg, encoded, served, version,
                 history, environment>>

\* Seeded bug: the cube is encoded without waiting for the mutex.
Unguarded_BroadcasterLock ==
  /\ broadcaster_pc = "lock"
  /\ global_cube_state_lock' = Broadcaster
  /\ broadcaster_pc' = "encode"
  /\ encoded' = 0
  /\ version' = Len(history)
  /\ UNCHANGED <<global_cube_state, broadcast_message_ready, to_server,
                 to_client, main, listener, msg, served, history, environment>>

BroadcasterLock ==
  /\ broadcaster_pc = "lock"
  /\ global_cube_state_lock = NoThread
  /\ global_cube_state_lock' = Broadcaster
  /\ broadcaster_pc' = "encode"
  /\ encoded' = 0
  /\ version' = Len(history)
  /\ UNCHANGED <<global_cube_state, broadcast_message_ready, to_server,
                 to_client, main, listener, msg, served, history, environment>>

Encode ==
  LET buffer == EncodeFace(msg, global_cube_state, encoded) IN
  /\ broadcaster_pc = "encode"
  /\ encoded' = encoded + 1
  /\ IF encoded + 1 < N_FACES
     THEN /\ msg' = buffer
          /\ UNCHANGED broadcaster_pc
     ELSE /\ msg' = Terminate(buffer)
          /\ broadcaster_pc' = "unlock"
  /\ UNCHANGED <<global_cube_state, global_cube_state_lock,
                 broadcast_message_ready, to_server, to_client, main, listener,
                 served, version, history, environment>>

BroadcasterUnlock ==
  /\ broadcaster_pc = "unlock"
  /\ global_cube_state_lock' = NoThread
  /\ broadcaster_pc' = "write"
  /\ served' = 0
  /\ UNCHANGED <<global_cube_state, broadcast_message_ready, to_server,
                 to_client, main, listener, msg, encoded, version, history,
                 environment>>

\* The end of a round of the loop over the clients.
NextServed ==
  /\ served' = served + 1
  /\ IF served + 1 < N_CLIENTS
     THEN UNCHANGED <<broadcaster_pc, msg>>
     ELSE /\ broadcaster_pc' = "sem_wait"
          /\ msg' = EmptyBuffer
  /\ UNCHANGED <<global_cube_state, global_cube_state_lock,
                 broadcast_message_ready, to_server, main, listener, encoded,
                 version, history, environment>>

WriteFrame ==
  to_client' = [to_client EXCEPT ![served] = Append(@, Frame(msg, version))]

\* Seeded bugs: the pipe has no limit; a frame that finds the pipe full is
\* dropped; slots nobody has connected to are left out.
Unbounded_Write ==
  /\ broadcaster_pc = "write"
  /\ WriteFrame
  /\ NextServed

Dropping_Write ==
  /\ broadcaster_pc = "write"
  /\ IF Len(to_client[served]) < PIPE_CAPACITY
     THEN WriteFrame
     ELSE UNCHANGED to_client
  /\ NextServed

ConnectedOnly_Write ==
  /\ broadcaster_pc = "write"
  /\ IF served < num_clients_connected
     THEN Len(to_client[served]) < PIPE_CAPACITY /\ WriteFrame
     ELSE UNCHANGED to_client
  /\ NextServed

\* One fputs and fflush: the thread waits while the pipe is full, whether or
\* not anybody reads it.  After the last client the buffer's block is left.
Write ==
  /\ broadcaster_pc = "write"
  /\ Len(to_client[served]) < PIPE_CAPACITY
  /\ WriteFrame
  /\ NextServed

Broadcast ==
  \/ SemWait
  \/ BroadcasterLock
  \/ Encode
  \/ BroadcasterUnlock
  \/ Write

-----------------------------------------------------------------------------
Next ==
  \/ Accept
  \/ CreateListener
  \/ Broadcast
  \/ \E c \in Clients : Listener(c)
  \/ \E c \in Clients, l \in UserLines : Send(c, l)
  \/ \E c \in Clients : Receive(c)

Spec == Init /\ [][Next]_vars

-----------------------------------------------------------------------------
(* Properties. *)

ListenerPcs == {"none", "getline", "lock", "decode", "shuffle", "copy",
                "unlock", "post"}
BroadcasterPcs == {"sem_wait", "lock", "encode", "unlock", "write"}

\* Where a thread is when it owns the lock.
ListenerCritical == {"decode", "shuffle", "copy", "unlock"}
BroadcasterCritical == {"encode", "unlock"}

Frames == [text : Buffers, version : Nat]

(* Every variable keeps to its type, and no pipe outgrows its capacity. *)
TypeOK ==
  /\ global_cube_state \in Cubes
  /\ global_cube_state_lock \in Clients \cup {Broadcaster, NoThread}
  /\ broadcast_message_ready \in Nat
  /\ to_server \in [Clients -> Seq(Lines)]
  /\ \A c \in Clients : Len(to_server[c]) <= PIPE_CAPACITY
  /\ to_client \in [Clients -> Seq(Frames)]
  /\ \A c \in Clients : Len(to_client[c]) <= PIPE_CAPACITY
  /\ main_pc \in {"accept", "create", "join"}
  /\ num_clients_connected \in 0 .. N_CLIENTS
  /\ listener_pc \in [Clients -> ListenerPcs]
  /\ line \in [Clients -> Lines \cup {<<>>}]
  /\ depth \in [Clients -> 0 .. MAX_DEPTH]
  /\ cube_copy \in [Clients -> Cubes]
  /\ copied \in [Clients -> 0 .. N_FACES]
  /\ broadcaster_pc \in BroadcasterPcs
  /\ msg \in Buffers
  /\ encoded \in 0 .. N_FACES
  /\ served \in 0 .. N_CLIENTS
  /\ version \in Nat
  /\ history \in Seq(Cubes)
  /\ received \in [Clients -> Seq(Nat)]
  /\ sent \in 0 .. MaxCommands

(***************************************************************************)
(* No client ever reads a torn cube: every frame in a pipe is one line     *)
(* that decodes to a state the cube had between two commands, the one it   *)
(* had when the broadcaster took the lock, although commands and encoding  *)
(* go face by face and run on different threads.                           *)
(***************************************************************************)
FramesAreWhole ==
  \A c \in Clients : \A k \in 1 .. Len(to_client[c]) :
    /\ to_client[c][k].version \in 1 .. Len(history)
    /\ Spells(to_client[c][k].text, history[to_client[c][k].version])

Versions(frames) == [k \in 1 .. Len(frames) |-> frames[k].version]

\* All frames ever written for client c, as versions.
Stream(c) == received[c] \o Versions(to_client[c])

\* The newest state that client c has read; 0 if it has read none.
LastReceived(c) ==
  IF received[c] = <<>> THEN 0 ELSE received[c][Len(received[c])]

\* The newest state that was written for client c; 0 if none was.
Newest(c) ==
  IF to_client[c] = <<>> THEN LastReceived(c)
  ELSE to_client[c][Len(to_client[c])].version

\* A wake-up is stored in the semaphore or about to be.
WakeUpPending ==
  \/ broadcast_message_ready > 0
  \/ \E c \in Clients : listener_pc[c] = "post"
  \/ broadcaster_pc = "lock"

(***************************************************************************)
(* No lost wake-up: a state no client has been sent is on its way.  Either *)
(* the semaphore will wake the broadcaster again, or it is encoding or     *)
(* writing that very state.  The post comes after the unlock and the       *)
(* broadcaster takes the count before the lock; each order matters.        *)
(***************************************************************************)
NewestStateIsAnnounced ==
  \/ WakeUpPending
  \/ version = Len(history) /\ broadcaster_pc # "sem_wait"
  \/ \A c \in Clients : Newest(c) = Len(history) \/ Len(history) = 1

\* Listeners that have unlocked and are about to post.
Posting == {d \in Clients : listener_pc[d] = "post"}

\* The frame of the broadcast under way that client c has yet to get.
UnderWay(c) ==
  IF \/ broadcaster_pc \in {"lock", "encode", "unlock"}
     \/ broadcaster_pc = "write" /\ served <= c
  THEN 1 ELSE 0

\* The frames that are due for client c but not written yet.
Due(c) == broadcast_message_ready + Cardinality(Posting) + UnderWay(c)

\* The lines in the pipes to the server: the slot and the place in its pipe.
CommandsInPipes ==
  {p \in Clients \X (1 .. PIPE_CAPACITY) : p[2] <= Len(to_server[p[1]])}

\* Listeners that have read a command and have not carried it out yet.
Carrying ==
  {c \in Clients : listener_pc[c] \in {"lock"} \cup ListenerCritical}

(***************************************************************************)
(* Every command is broadcast exactly once to every slot: the frames       *)
(* written for a client and those still due are as many as the commands    *)
(* carried out, and a command is in one pipe or one listener or done.      *)
(***************************************************************************)
FramesMatchCommands ==
  \A c \in Clients : Len(Stream(c)) + Due(c) = Len(history) - 1

NoCommandIsLost ==
  sent = Len(history) - 1 + Cardinality(CommandsInPipes)
           + Cardinality(Carrying)

OneFramePerCommand == FramesMatchCommands /\ NoCommandIsLost

(***************************************************************************)
(* All screens tell the same story: the frames of any two slots are the    *)
(* same sequence, of which one slot may lack the last frame, and the       *)
(* states in it never go back in time.  A client that connects late finds  *)
(* the whole sequence in its pipe.                                         *)
(***************************************************************************)
ClientsSeeTheSameHistory ==
  \A c, d \in Clients :
    /\ Len(Stream(c)) - Len(Stream(d)) \in -1 .. 1
    /\ \A k \in 1 .. Len(Stream(c)) :
         /\ k <= Len(Stream(d)) => Stream(c)[k] = Stream(d)[k]
         /\ k > 1 => Stream(c)[k - 1] <= Stream(c)[k]

Shared == INSTANCE SharedCube WITH
  log <- history,
  view <- [c \in Clients |-> LastReceived(c)]

(***************************************************************************)
(* The server implements the one shared cube: however the threads          *)
(* interleave, the commands take effect one after the other, each by a     *)
(* legal move from the state the one before it left, and what a client     *)
(* reads never goes back.                                                  *)
(***************************************************************************)
IsSharedCube == Shared!Spec

-----------------------------------------------------------------------------
(***************************************************************************)
(* Why FramesAreWhole and NewestStateIsAnnounced hold, as an inductive     *)
(* invariant.  The loops stay in their ranges.  A slot nobody has taken    *)
(* has no thread.  Who is between lock and unlock owns the mutex.  While   *)
(* no listener is, the cube is the newest state of the history.  The       *)
(* squares of the faces encoded so far are in the message; behind the      *)
(* mutex the message spells the state it was made from.  A broadcast under *)
(* way is of the newest state or the broadcaster will be woken again, and  *)
(* the clients it has served have its version.                             *)
(***************************************************************************)
LoopsInRange ==
  /\ main_pc # "join" => num_clients_connected < N_CLIENTS
  /\ \A c \in Clients :
       /\ listener_pc[c] \notin {"none", "getline"} => line[c] # <<>>
       /\ listener_pc[c] = "shuffle" => depth[c] > 0
       /\ listener_pc[c] = "copy" => copied[c] < N_FACES
  /\ broadcaster_pc = "encode" => encoded < N_FACES
  /\ broadcaster_pc = "write" => served < N_CLIENTS

ListenersStartInOrder ==
  \A c \in Clients : num_clients_connected <= c => listener_pc[c] = "none"

MutualExclusion ==
  /\ \A c \in Clients :
       listener_pc[c] \in ListenerCritical => global_cube_state_lock = c
  /\ broadcaster_pc \in BroadcasterCritical =>
       global_cube_state_lock = Broadcaster

CubeIsNewestState ==
  /\ history # <<>>
  /\ (\A c \in Clients : listener_pc[c] \notin ListenerCritical) =>
       global_cube_state = history[Len(history)]

EncodedSoFar ==
  /\ broadcaster_pc = "encode" =>
       /\ version = Len(history)
       /\ \A i \in Faces, j \in Squares :
            i < encoded =>
              msg[i * N_SQUARES_PER_FACE + j] = ZERO + global_cube_state[i][j]
  /\ broadcaster_pc = "unlock" =>
       version = Len(history) /\ Spells(msg, global_cube_state)
  /\ broadcaster_pc = "write" =>
       version \in 1 .. Len(history) /\ Spells(msg, history[version])

\* The broadcaster will find the semaphore positive when it comes back to it.
WillWakeAgain ==
  \/ broadcast_message_ready > 0
  \/ \E c \in Clients : listener_pc[c] = "post"

BroadcastIsNewest ==
  /\ broadcaster_pc \in {"encode", "unlock", "write"} =>
       version = Len(history) \/ WillWakeAgain
  /\ broadcaster_pc = "write" =>
       \A c \in Clients : c < served => Newest(c) = version
  /\ broadcaster_pc = "sem_wait" =>
       \/ WillWakeAgain
       \/ \A c \in Clients : Newest(c) = Len(history)
       \/ Len(history) = 1

FrameInv ==
  /\ TypeOK
  /\ LoopsInRange
  /\ ListenersStartInOrder
  /\ MutualExclusion
  /\ CubeIsNewestState
  /\ EncodedSoFar
  /\ FramesAreWhole

Inv == FrameInv /\ BroadcastIsNewest

(***************************************************************************)
(* Why ClientsSeeTheSameHistory holds, as an inductive invariant on top of *)
(* FrameInv.  Outside of the loop that writes, all streams are the same;   *)
(* inside it, those of the slots served have the frame under way on top.   *)
(* No stream has a version newer than the one a broadcast is making, and   *)
(* that is one of the history.                                             *)
(***************************************************************************)
Served(c) == broadcaster_pc = "write" /\ c < served

StreamsAgree ==
  \A c, d \in Clients :
    /\ (Served(c) <=> Served(d)) => Stream(c) = Stream(d)
    /\ Served(c) /\ ~Served(d) => Stream(c) = Append(Stream(d), version)

StreamsAreOrdered ==
  /\ version <= Len(history)
  /\ \A c \in Clients : \A k \in 1 .. Len(Stream(c)) :
       /\ Stream(c)[k] <= version
       /\ k > 1 => Stream(c)[k - 1] <= Stream(c)[k]

StreamInv == StreamsAgree /\ StreamsAreOrdered

(***************************************************************************)
(* Why IsSharedCube holds, as an inductive invariant on top of FrameInv.   *)
(* Inside the mutex the cube is on its way from the newest state of the    *)
(* history to a legal move: with d turns of a shuffle to go, all turns but *)
(* d of a shuffle of a permitted depth have been made.  While faces are    *)
(* being written back, the copy is that cube and the faces before copied   *)
(* are the copy's already.                                                 *)
(***************************************************************************)
OnItsWay(c, cube) ==
  \/ depth[c] = 0 /\ cube \in Shared!LegalMoves
  \/ /\ is_solved(Shared!Current)
     /\ \E n \in MIN_DEPTH .. MAX_DEPTH :
          depth[c] <= n /\ cube \in Shared!Shuffled[n - depth[c]]

WrittenBack(c) ==
  \A i \in Faces : i < copied[c] => global_cube_state[i] = cube_copy[c][i]

CarriesOut(c) ==
  /\ listener_pc[c] \notin {"shuffle", "copy"} => depth[c] = 0
  /\ listener_pc[c] = "decode" => global_cube_state = Shared!Current
  /\ listener_pc[c] = "shuffle" => OnItsWay(c, global_cube_state)
  /\ listener_pc[c] = "copy" => OnItsWay(c, cube_copy[c]) /\ WrittenBack(c)
  /\ listener_pc[c] = "unlock" => global_cube_state \in Shared!LegalMoves

CommandUnderWay == \A c \in Clients : CarriesOut(c)

-----------------------------------------------------------------------------
(***************************************************************************)
(* Progress.  The threads of the server and of the children run as long as *)
(* they can; whether users connect or press keys is up to them.  Weak      *)
(* fairness is enough for the mutex: commands are finitely many here, so a *)
(* thread that waits for it finds it free for good in the end.             *)
(***************************************************************************)
Fairness ==
  /\ WF_vars(CreateListener)
  /\ WF_vars(Broadcast)
  /\ \A c \in Clients : WF_vars(Listener(c)) /\ WF_vars(Receive(c))

FairSpec == Spec /\ Fairness

(***************************************************************************)
(* Every connected client comes to read, later, the newest state there is, *)
(* full pipes or not, unless a slot is empty and more commands were sent   *)
(* than its pipe, which nobody reads, has room for broadcasts.             *)
(***************************************************************************)
ClientsConvergeUnlessClogged ==
  \A c \in Clients :
    Connected(c) /\ Len(history) > 1 ~>
      \/ LastReceived(c) = Len(history)
      \/ sent > PIPE_CAPACITY /\ \E d \in Clients : ~Connected(d)

-----------------------------------------------------------------------------
(* What the documentation says and the program does not do. *)

(***************************************************************************)
(* rubiks_server.h: the thread will "send the new cube state to all        *)
(* clients."  Once the cube has changed, a client that is connected reads, *)
(* later, the newest state there is.                                       *)
(***************************************************************************)
ConnectedClientsConverge ==
  \A c \in Clients :
    Connected(c) /\ Len(history) > 1 ~> LastReceived(c) = Len(history)

=============================================================================
