------------------------------ MODULE EndToEnd ------------------------------
(***************************************************************************)
(* The whole way of a key and of a cube: one client with all its threads   *)
(* (RubiksClient), its child process, the listener threads, the            *)
(* broadcaster with its loop over all slots, and the other clients, of     *)
(* which the commands matter and what their children leave unread.  The    *)
(* client may connect late, when its pipe already holds frames.            *)
(*                                                                         *)
(* Commands take effect at once, and a message is encoded at once, because *)
(* RubiksServer implements SharedCube and its frames are whole.  What a    *)
(* turn does is a parameter; RubiksCube has it.  Server and connection of  *)
(* this client stand until the server is killed, as ConnectionLife shows;  *)
(* what the children do after that is found there too.                     *)
(***************************************************************************)
EXTENDS RubiksClient

CONSTANTS
  rotate(_, _, _),  \* the cube after a turn of a face in a direction
  Shuffles,         \* the cubes that shuffle may leave behind
  N_SLOTS,          \* client slots (N_FACES in the code)
  client_id,        \* the slot of this client
  PIPE_CAPACITY,    \* lines a pipe holds before its writer blocks
  MaxOthers         \* bound: commands of the other clients

Slots == 0 .. N_SLOTS - 1

ASSUME ServerAssumption ==
  /\ InitialCube \in CubesSent /\ Shuffles \subseteq CubesSent
  /\ PIPE_CAPACITY \in Nat \ {0} /\ MaxOthers \in Nat
  /\ \A cube \in CubesSent, f \in Faces, d \in 0 .. 1 :
       rotate(cube, f, d) \in CubesSent
ASSUME SlotAssumption == N_SLOTS \in Nat \ {0} /\ client_id \in Slots

VARIABLES
  slot,                     \* what has become of each slot
  global_cube_state,
  pipe_to_server,           \* client_pipes[client_id][0]
  pipes_to_clients,         \* client_pipes[c][1] of every slot c
  broadcast_message_ready,  \* its value
  broadcaster_pc,
  msg,                      \* the cube in the broadcaster's message
  served,                   \* slots the loop has written to
  others                    \* commands of the other clients so far

clientVars == vars
serverVars == <<global_cube_state, broadcast_message_ready, broadcaster_pc,
                msg, served, others>>
pipes == <<pipe_to_server, pipes_to_clients>>
allVars == <<clientVars, serverVars, slot, pipes>>

EndToEndInit ==
  /\ Init
  /\ slot = [c \in Slots |-> "free"]
  /\ global_cube_state = InitialCube
  /\ pipe_to_server = <<>>
  /\ pipes_to_clients = [c \in Slots |-> <<>>]
  /\ broadcast_message_ready = 0
  /\ broadcaster_pc = "sem_wait"
  /\ msg = InitialCube
  /\ served = 0
  /\ others = 0

ServerRuns == broadcaster_pc # "killed"

-----------------------------------------------------------------------------
(* Slots are given out in order, each client a child of its own. *)

NextFree(c) == slot[c] = "free" /\ \A d \in Slots : d < c => slot[d] # "free"

Connect ==
  /\ ServerRuns
  /\ NextFree(client_id)
  /\ slot' = [slot EXCEPT ![client_id] = "connecting"]
  /\ UNCHANGED <<clientVars, serverVars, pipes>>

AcceptClient ==
  /\ ServerRuns
  /\ slot[client_id] = "connecting"
  /\ slot' = [slot EXCEPT ![client_id] = "accepted"]
  /\ UNCHANGED <<clientVars, serverVars, pipes>>

\* Another client comes and is accepted ...
AcceptOther(c) ==
  /\ ServerRuns
  /\ c # client_id
  /\ NextFree(c)
  /\ \A d \in Slots : slot[d] # "connecting"
  /\ slot' = [slot EXCEPT ![c] = "accepted"]
  /\ UNCHANGED <<clientVars, serverVars, pipes>>

\* ... and leaves, and its child may meet an error or SIGPIPE.  If it does
\* not, it goes on emptying its pipe.
ChildDies(c) ==
  /\ c # client_id
  /\ slot[c] = "accepted"
  /\ slot' = [slot EXCEPT ![c] = "dead"]
  /\ UNCHANGED <<clientVars, serverVars, pipes>>

\* Any step of the client's own threads.
ClientSteps(A) ==
  /\ slot[client_id] # "free"
  /\ A
  /\ UNCHANGED <<serverVars, slot, pipes>>

-----------------------------------------------------------------------------
(* The children. *)

\* The socket thread of this client's: from the socket into the pipe.
ForwardCommand ==
  /\ slot[client_id] = "accepted"
  /\ to_server # <<>>
  /\ Len(pipe_to_server) < PIPE_CAPACITY
  /\ pipe_to_server' = Append(pipe_to_server, Head(to_server))
  /\ to_server' = Tail(to_server)
  /\ UNCHANGED <<cube_face_id, curses_pc, reset, keys, socket, view, main,
                 server, cube_state_to_display, update_view_semaphore,
                 curses_on, from_server, notified, serverVars, slot,
                 pipes_to_clients>>

TakeFrame(c) ==
  /\ slot[c] = "accepted"
  /\ pipes_to_clients[c] # <<>>
  /\ pipes_to_clients' = [pipes_to_clients EXCEPT ![c] = Tail(@)]

\* Its pipe thread: from the pipe into the socket.
ForwardFrame ==
  /\ TakeFrame(client_id)
  /\ ServerSends(Head(pipes_to_clients[client_id]))
  /\ UNCHANGED <<serverVars, slot, pipe_to_server>>

ForwardOther(c) ==
  /\ c # client_id
  /\ TakeFrame(c)
  /\ UNCHANGED <<clientVars, serverVars, slot, pipe_to_server>>

-----------------------------------------------------------------------------
(* The server. *)

\* What a command may make of the cube.
decode_user_input(command) ==
  IF command[2] = 2
  THEN IF global_cube_state = InitialCube THEN Shuffles ELSE {InitialCube}
  ELSE {rotate(global_cube_state, command[1], command[2])}

\* Seeded bug: no post while a broadcast is being made.
Silent_interpret_command(command) ==
  /\ ServerRuns
  /\ global_cube_state' \in decode_user_input(command)
  /\ broadcast_message_ready' =
       broadcast_message_ready + IF broadcaster_pc = "sem_wait" THEN 1 ELSE 0
  /\ UNCHANGED <<clientVars, broadcaster_pc, msg, served, slot,
                 pipes_to_clients>>

interpret_command(command) ==
  /\ ServerRuns
  /\ global_cube_state' \in decode_user_input(command)
  /\ broadcast_message_ready' = broadcast_message_ready + 1
  /\ UNCHANGED <<clientVars, broadcaster_pc, msg, served, slot,
                 pipes_to_clients>>

Interpret ==
  /\ slot[client_id] = "accepted"
  /\ pipe_to_server # <<>>
  /\ interpret_command(Head(pipe_to_server))
  /\ pipe_to_server' = Tail(pipe_to_server)
  /\ UNCHANGED others

\* A command of another client, which may have left since.
InterpretOther ==
  /\ \E c \in Slots : c # client_id /\ slot[c] # "free"
  /\ others < MaxOthers
  /\ others' = others + 1
  /\ \E command \in Faces \X (0 .. 2) : interpret_command(command)
  /\ UNCHANGED pipe_to_server

Encode ==
  /\ broadcaster_pc = "sem_wait"
  /\ broadcast_message_ready > 0
  /\ broadcast_message_ready' = broadcast_message_ready - 1
  /\ msg' = global_cube_state
  /\ broadcaster_pc' = "write"
  /\ served' = 0
  /\ UNCHANGED <<clientVars, global_cube_state, others, slot, pipes>>

\* Somebody could read the pipe of the slot: the server itself as long as the
\* slot is not taken; and the children that were forked no later than its own,
\* because fork copies the reading end.
HasReader(c) ==
  \/ slot[c] \in {"free", "connecting"}
  \/ \E d \in Slots : d <= c /\ slot[d] = "accepted"

NextSlot ==
  /\ served' = served + 1
  /\ broadcaster_pc' = IF served + 1 < N_SLOTS THEN "write" ELSE "sem_wait"
  /\ UNCHANGED <<clientVars, global_cube_state, broadcast_message_ready, msg,
                 others, slot, pipe_to_server>>

\* Seeded bug: a slot without a client is left out.
Skipping_Write ==
  /\ broadcaster_pc = "write"
  /\ IF slot[served] = "free"
     THEN UNCHANGED pipes_to_clients
     ELSE /\ HasReader(served)
          /\ Len(pipes_to_clients[served]) < PIPE_CAPACITY
          /\ pipes_to_clients' =
               [pipes_to_clients EXCEPT ![served] = Append(@, msg)]
  /\ NextSlot

\* To every slot in turn, whoever reads it: the thread waits while the pipe is
\* full and somebody could read it.
Write ==
  /\ broadcaster_pc = "write"
  /\ HasReader(served)
  /\ Len(pipes_to_clients[served]) < PIPE_CAPACITY
  /\ pipes_to_clients' = [pipes_to_clients EXCEPT ![served] = Append(@, msg)]
  /\ NextSlot

\* Nobody can read the pipe: SIGPIPE kills the server.
BrokenWrite ==
  /\ broadcaster_pc = "write"
  /\ ~HasReader(served)
  /\ broadcaster_pc' = "killed"
  /\ UNCHANGED <<clientVars, global_cube_state, broadcast_message_ready, msg,
                 served, others, slot, pipes>>

-----------------------------------------------------------------------------
Broadcaster == Encode \/ Write \/ BrokenWrite

EndToEndNext ==
  \/ Connect \/ AcceptClient
  \/ \E c \in Slots : AcceptOther(c) \/ ChildDies(c) \/ ForwardOther(c)
  \/ ClientSteps(CursesThread)
  \/ ClientSteps(SocketThread)
  \/ ClientSteps(ViewThread)
  \/ ClientSteps(MainThread)
  \/ ForwardCommand \/ ForwardFrame
  \/ Interpret \/ InterpretOther
  \/ Broadcaster

\* The threads of all processes run, and the other clients read the frames they
\* get; nobody makes users connect or press keys.
EndToEndFairness ==
  /\ WF_allVars(AcceptClient)
  /\ WF_allVars(ClientSteps(OpenSocket \/ OpenFails))
  /\ WF_allVars(ClientSteps(FacePost))
  /\ WF_allVars(ClientSteps(SocketThread))
  /\ WF_allVars(ClientSteps(ViewThread))
  /\ WF_allVars(ForwardCommand) /\ WF_allVars(ForwardFrame)
  /\ \A c \in Slots : WF_allVars(ForwardOther(c))
  /\ WF_allVars(Interpret)
  /\ WF_allVars(Broadcaster)

EndToEndSpec ==
  EndToEndInit /\ [][EndToEndNext]_allVars /\ EndToEndFairness

-----------------------------------------------------------------------------
(* Properties. *)

\* No cube is on its way between the server and the screen.
NothingUnderWay ==
  /\ broadcast_message_ready = 0
  /\ broadcaster_pc = "sem_wait"
  /\ pipes_to_clients[client_id] = <<>>
  /\ from_server = <<>>
  /\ Quiescent

(***************************************************************************)
(* With nothing under way, the terminal of a client shows its chosen face  *)
(* of the cube the server has, also when the client has connected late:    *)
(* frames of a slot nobody has taken wait in its pipe.                     *)
(***************************************************************************)
ScreenShowsTheCube ==
  NothingUnderWay /\ notified /\ cube_face_id \in Faces =>
    screen = global_cube_state[cube_face_id]

(***************************************************************************)
(* The types of the server's side.  The server computes an array index     *)
(* from the face of a command without looking at it (decode_user_input);   *)
(* that every command in the pipe names a face, so that a turn makes a     *)
(* cube of the cube, is up to the client, whose cube_face_id starts out as *)
(* garbage.                                                                *)
(***************************************************************************)
ServerTypeOK ==
  /\ slot \in [Slots -> {"free", "connecting", "accepted", "dead"}]
  /\ global_cube_state \in CubesSent
  /\ pipe_to_server \in Seq(Faces \X (0 .. 2))
  /\ pipes_to_clients \in [Slots -> Seq(CubesSent)]
  /\ broadcast_message_ready \in Nat
  /\ broadcaster_pc \in {"sem_wait", "write", "killed"}
  /\ msg \in CubesSent
  /\ served \in 0 .. N_SLOTS
  /\ broadcaster_pc = "write" => served < N_SLOTS
  /\ others \in 0 .. MaxOthers

(***************************************************************************)
(* Why both hold, as an inductive invariant: that of the client; that the  *)
(* commands in its socket name faces already; and that the cube of the     *)
(* server is the newest on its way to this client, or the broadcaster is   *)
(* still to be woken for it.                                               *)
(***************************************************************************)
OnlyLegalCommands ==
  \A k \in 1 .. Len(to_server) : to_server[k][1] \in Faces

NewestUnderWay ==
  IF broadcaster_pc = "write" /\ served <= client_id THEN msg
  ELSE IF pipes_to_clients[client_id] # <<>>
       THEN pipes_to_clients[client_id][Len(pipes_to_clients[client_id])]
  ELSE NewestCube

NewestIsUnderWay ==
  \/ ~ServerRuns
  \/ broadcast_message_ready > 0
  \/ global_cube_state = NewestUnderWay

EndToEndInv ==
  /\ Inv
  /\ OnlyLegalCommands
  /\ ServerTypeOK
  /\ NewestIsUnderWay

(***************************************************************************)
(* The face that a client has chosen comes to be on its terminal as it is  *)
(* on the server, unless the client ends, the server is killed, or the     *)
(* broadcaster waits for good in front of the full pipe of a slot which    *)
(* nobody empties, because it is not taken or its child has died.          *)
(***************************************************************************)
Clogged ==
  /\ broadcaster_pc = "write"
  /\ slot[served] \in {"free", "dead"}
  /\ Len(pipes_to_clients[served]) = PIPE_CAPACITY

CubeReachesScreen ==
  slot[client_id] = "accepted" /\ notified /\ cube_face_id \in Faces ~>
    \/ ~Alive
    \/ ~ServerRuns
    \/ []Clogged
    \/ cube_face_id \in Faces /\ screen = global_cube_state[cube_face_id]

=============================================================================
