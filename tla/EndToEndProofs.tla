--------------------------- MODULE EndToEndProofs ---------------------------
(***************************************************************************)
(* For every size of the cube, every number of slots, every capacity of    *)
(* the pipes and any number of keys and commands: with nothing on its way, *)
(* the terminal of a client shows its face of the cube the server has.     *)
(***************************************************************************)
EXTENDS EndToEnd, RubiksClientProofs, SequenceTheorems

(* Every step keeps the commands in the socket legal: a key is only sent   *)
(* when the face it is for has a code.                                     *)
LEMMA NextLegal ==
  TypeOK /\ OnlyLegalCommands /\ [Next]_vars => OnlyLegalCommands'
<1> SUFFICES ASSUME TypeOK, OnlyLegalCommands, [Next]_vars
             PROVE  OnlyLegalCommands'
  OBVIOUS
<1>1. CASE UNCHANGED to_server
  BY <1>1 DEF OnlyLegalCommands
<1>2. ASSUME NEW input \in {"a", "d", "space"}, SendKey(input)
      PROVE  OnlyLegalCommands'
  <2>1. CASE UNCHANGED to_server
    BY <2>1, <1>1
  <2>2. CASE /\ cube_face_id \in Faces
             /\ to_server' =
                  Append(to_server, encode_user_input(input, cube_face_id))
    <3>1. encode_user_input(input, cube_face_id)[1] = cube_face_id
      BY DEF encode_user_input
    <3>2. encode_user_input(input, cube_face_id) \in
            (Faces \cup {OutOfRange}) \X (0 .. 2)
      BY DEF encode_user_input, TypeOK
    <3>3. to_server \in Seq((Faces \cup {OutOfRange}) \X (0 .. 2))
      BY DEF TypeOK
    <3> HIDE DEF encode_user_input
    <3> QED
      BY <2>2, <3>1, <3>2, <3>3 DEF OnlyLegalCommands
  <2> QED
    BY <1>2, <2>1, <2>2 DEF SendKey, Encodes
<1> QED
  BY <1>1, <1>2
     DEF Next, CursesThread, SocketThread, ViewThread, MainThread, vars,
         curses, OpenSocket, OpenFails, LostKey, FaceKey, FacePost, QuitKey,
         GetLine, EndOfFile, DecodeSquare, FramePost, SemWait, ReadFace,
         DrawSquare, DrawCrashes, JoinCurses, JoinSocket, RunCubeAgain,
         ErrorAndExit, ServerSends, ServerCloses

(* The initial states satisfy the inductive invariant: the cube of the     *)
(* server and that of the client are both what make_cube returns.          *)
LEMMA EndToEndInitInv == EndToEndInit => EndToEndInv
<1> USE ServerAssumption, SlotAssumption
<1> SUFFICES ASSUME EndToEndInit PROVE EndToEndInv
  OBVIOUS
<1>1. Inv
  BY InitInv DEF EndToEndInit
<1>2. OnlyLegalCommands
  BY DEF EndToEndInit, Init, OnlyLegalCommands
<1>3. ServerTypeOK
  BY DEF EndToEndInit, ServerTypeOK, Slots
<1>4. NewestIsUnderWay
  BY DEF EndToEndInit, Init, NewestIsUnderWay, NewestUnderWay, NewestCube
<1> QED
  BY <1>1, <1>2, <1>3, <1>4 DEF EndToEndInv

(* To the client, the child is what takes commands out of its socket ...   *)
LEMMA ForwardCommandInv ==
  ASSUME Inv, OnlyLegalCommands, ForwardCommand
  PROVE  Inv' /\ OnlyLegalCommands'
<1>1. to_server # <<>> /\ to_server' = Tail(to_server)
  BY DEF ForwardCommand
<1>2. to_server \in Seq((Faces \cup {OutOfRange}) \X (0 .. 2))
  BY DEF Inv, TypeOK
<1>3. to_server' \in Seq((Faces \cup {OutOfRange}) \X (0 .. 2))
  BY <1>1, <1>2
<1>4. TypeOK'
  BY <1>3 DEF ForwardCommand, Inv, TypeOK, socket, view, main, server
<1>5. Coherent'
  BY DEF ForwardCommand, Inv, Coherent, CursorsInRange, DecodedSoFar,
         DrawsTheChosenFace, NoStaleSquare, RedrawPending, socket, view, main,
         server
<1>6. OnlyLegalCommands'
  <2>1. \A k \in 1 .. Len(to_server') : /\ to_server'[k] = to_server[k + 1]
                                        /\ k + 1 \in 1 .. Len(to_server)
    BY <1>1, <1>2
  <2> QED
    BY <2>1 DEF OnlyLegalCommands
<1> QED
  BY <1>4, <1>5, <1>6 DEF Inv

(* ... and the server what puts cubes into it.                             *)
LEMMA ClientInv ==
  ASSUME Inv, OnlyLegalCommands, ServerTypeOK, [EndToEndNext]_allVars
  PROVE  Inv' /\ OnlyLegalCommands'
<1>1. CASE [Next]_vars
  BY <1>1, NextInv, NextLegal DEF Inv
<1>2. CASE ForwardCommand
  BY <1>2, ForwardCommandInv
<1>3. CASE ForwardFrame
  <2>1. Head(pipes_to_clients[client_id]) \in CubesSent
    <3>1. pipes_to_clients[client_id] \in Seq(CubesSent)
      BY SlotAssumption DEF ServerTypeOK
    <3>2. pipes_to_clients[client_id] # <<>>
      BY <1>3 DEF ForwardFrame, TakeFrame
    <3> QED
      BY <3>1, <3>2
  <2>2. Next
    BY <1>3, <2>1 DEF ForwardFrame, Next
  <2> QED
    BY <1>1, <2>2
<1>4. \/ ClientSteps(CursesThread) \/ ClientSteps(SocketThread)
      \/ ClientSteps(ViewThread) \/ ClientSteps(MainThread)
      => Next
  BY DEF ClientSteps, Next
<1>5. /\ Connect \/ AcceptClient => UNCHANGED vars
      /\ \A c \in Slots : AcceptOther(c) \/ ChildDies(c) \/ ForwardOther(c)
                             => UNCHANGED vars
  BY DEF Connect, AcceptClient, AcceptOther, ChildDies, ForwardOther,
         clientVars
<1>6. Interpret \/ InterpretOther \/ Broadcaster => UNCHANGED vars
  BY DEF Interpret, InterpretOther, interpret_command, Broadcaster, Encode,
         Write, NextSlot, BrokenWrite, clientVars
<1>7. UNCHANGED allVars => UNCHANGED vars
  BY DEF allVars, clientVars
<1> QED
  BY <1>1, <1>2, <1>3, <1>4, <1>5, <1>6, <1>7 DEF EndToEndNext

(* A command that names a face makes one of the cubes of the cube.         *)
LEMMA DecodedCube ==
  ASSUME ServerTypeOK, NEW command \in Faces \X (0 .. 2)
  PROVE  decode_user_input(command) \subseteq CubesSent
<1> USE ServerAssumption
<1>1. command[1] \in Faces /\ command[2] \in 0 .. 2
  OBVIOUS
<1>2. CASE command[2] = 2
  BY <1>2 DEF decode_user_input
<1>3. CASE command[2] # 2
  <2>1. command[2] \in 0 .. 1
    BY <1>1, <1>3
  <2>2. rotate(global_cube_state, command[1], command[2]) \in CubesSent
    BY <1>1, <2>1 DEF ServerTypeOK
  <2> QED
    BY <1>3, <2>2 DEF decode_user_input
<1> QED
  BY <1>2, <1>3

(* What interpret_command keeps to its type.                               *)
LEMMA InterpretType ==
  ASSUME ServerTypeOK, NEW command \in Faces \X (0 .. 2),
         interpret_command(command)
  PROVE  /\ global_cube_state' \in CubesSent
         /\ broadcast_message_ready' \in Nat \ {0}
         /\ UNCHANGED <<broadcaster_pc, msg, served, slot, pipes_to_clients>>
<1>1. global_cube_state' \in decode_user_input(command)
  BY DEF interpret_command
<1>2. global_cube_state' \in CubesSent
  BY <1>1, DecodedCube
<1>3. broadcast_message_ready' \in Nat \ {0}
  BY DEF interpret_command, ServerTypeOK
<1>4. UNCHANGED <<broadcaster_pc, msg, served, slot, pipes_to_clients>>
  BY DEF interpret_command
<1> QED
  BY <1>2, <1>3, <1>4

(* What a child takes out of a pipe leaves a pipe of cubes.                *)
LEMMA TakeFrameType ==
  ASSUME ServerTypeOK, NEW c \in Slots, TakeFrame(c)
  PROVE  pipes_to_clients' \in [Slots -> Seq(CubesSent)]
<1>1. pipes_to_clients \in [Slots -> Seq(CubesSent)]
  BY DEF ServerTypeOK
<1>2. pipes_to_clients[c] # <<>> /\ pipes_to_clients[c] \in Seq(CubesSent)
  BY <1>1 DEF TakeFrame
<1>3. Tail(pipes_to_clients[c]) \in Seq(CubesSent)
  BY <1>2
<1>4. pipes_to_clients' = [pipes_to_clients EXCEPT ![c] = Tail(@)]
  BY DEF TakeFrame
<1> QED
  BY <1>1, <1>3, <1>4

(* Every step keeps the server's side to its types.                        *)
LEMMA NextServerTypeOK ==
  ASSUME Inv, OnlyLegalCommands, ServerTypeOK, [EndToEndNext]_allVars
  PROVE  ServerTypeOK'
<1> DEFINE Commands == Seq(Faces \X (0 .. 2))
           Frames == Seq(CubesSent)
<1>0. pipe_to_server \in Commands /\ pipes_to_clients \in [Slots -> Frames]
  BY DEF ServerTypeOK
<1>1. CASE Connect \/ AcceptClient
  BY <1>1 DEF Connect, AcceptClient, serverVars, pipes, ServerTypeOK
<1>2. ASSUME NEW c \in Slots, AcceptOther(c) \/ ChildDies(c)
      PROVE  ServerTypeOK'
  BY <1>2 DEF AcceptOther, ChildDies, serverVars, pipes, ServerTypeOK
<1>3. ASSUME NEW c \in Slots, ForwardOther(c) PROVE ServerTypeOK'
  <2>1. pipes_to_clients' \in [Slots -> Frames]
    BY <1>3, TakeFrameType DEF ForwardOther
  <2> QED
    BY <1>3, <2>1 DEF ForwardOther, serverVars, ServerTypeOK
<1>4. ASSUME \/ ClientSteps(CursesThread) \/ ClientSteps(SocketThread)
             \/ ClientSteps(ViewThread) \/ ClientSteps(MainThread)
      PROVE  ServerTypeOK'
  BY <1>4 DEF ClientSteps, serverVars, pipes, ServerTypeOK
<1>5. CASE ForwardCommand
  <2>1. Head(to_server) \in Faces \X (0 .. 2)
    <3>1. /\ to_server # <<>>
          /\ to_server \in Seq((Faces \cup {OutOfRange}) \X (0 .. 2))
      BY <1>5 DEF ForwardCommand, Inv, TypeOK
    <3>2. 1 \in 1 .. Len(to_server) /\ Head(to_server) = to_server[1]
      BY <3>1
    <3> DEFINE F == Faces \cup {OutOfRange}
               D == 0 .. 2
    <3>0. to_server[1] \in F \X D
      <4>1. to_server \in Seq(F \X D)
        BY <3>1
      <4> HIDE DEF F, D
      <4> QED
        BY <3>2, <4>1
    <3>3. PICK f \in F, d \in D : to_server[1] = <<f, d>>
      <4> HIDE DEF F, D
      <4> QED
        BY <3>0
    <3>4. to_server[1][1] \in Faces
      BY <3>2 DEF OnlyLegalCommands
    <3>5. f \in Faces
      BY <3>3, <3>4
    <3> QED
      BY <3>2, <3>3, <3>5
  <2>2. Append(pipe_to_server, Head(to_server)) \in Commands
    <3> DEFINE C == Faces \X (0 .. 2)
    <3>1. pipe_to_server \in Seq(C) /\ Head(to_server) \in C
      BY <1>0, <2>1
    <3> HIDE DEF C
    <3>2. Append(pipe_to_server, Head(to_server)) \in Seq(C)
      BY <3>1
    <3> QED
      BY <3>2 DEF C
  <2> QED
    BY <1>5, <2>2 DEF ForwardCommand, serverVars, ServerTypeOK
<1>6. CASE ForwardFrame
  <2>1. pipes_to_clients' \in [Slots -> Frames]
    BY <1>6, TakeFrameType, SlotAssumption DEF ForwardFrame
  <2> QED
    BY <1>6, <2>1 DEF ForwardFrame, serverVars, ServerTypeOK
<1>7. CASE Interpret
  <2>1. pipe_to_server # <<>>
    BY <1>7 DEF Interpret
  <2>2. /\ Head(pipe_to_server) \in Faces \X (0 .. 2)
        /\ Tail(pipe_to_server) \in Commands
    BY <1>0, <2>1
  <2>3. /\ pipe_to_server' = Tail(pipe_to_server)
        /\ others' = others
        /\ interpret_command(Head(pipe_to_server))
    BY <1>7 DEF Interpret
  <2> QED
    BY <2>2, <2>3, InterpretType DEF ServerTypeOK
<1>8. CASE InterpretOther
  <2>1. PICK command \in Faces \X (0 .. 2) : interpret_command(command)
    BY <1>8 DEF InterpretOther
  <2>2. others' \in 0 .. MaxOthers
    BY <1>8, ServerAssumption DEF InterpretOther, ServerTypeOK
  <2>3. pipe_to_server' = pipe_to_server
    BY <1>8 DEF InterpretOther
  <2> QED
    BY <2>1, <2>2, <2>3, InterpretType DEF ServerTypeOK
<1>9. CASE Encode
  BY <1>9, SlotAssumption DEF Encode, pipes, ServerTypeOK
<1>10. CASE Write
  <2>1. served \in Slots /\ msg \in CubesSent
    BY <1>10, SlotAssumption DEF Write, ServerTypeOK, Slots
  <2>2. Append(pipes_to_clients[served], msg) \in Frames
    BY <1>0, <2>1
  <2>3. pipes_to_clients' \in [Slots -> Frames]
    BY <1>0, <1>10, <2>1, <2>2 DEF Write
  <2>4. /\ served' = served + 1
        /\ broadcaster_pc' =
             IF served + 1 < N_SLOTS THEN "write" ELSE "sem_wait"
    BY <1>10 DEF Write, NextSlot
  <2>5. /\ served' \in 0 .. N_SLOTS
        /\ broadcaster_pc' \in {"sem_wait", "write", "killed"}
        /\ broadcaster_pc' = "write" => served' < N_SLOTS
    BY <2>1, <2>4, SlotAssumption DEF Slots
  <2> QED
    BY <1>10, <2>3, <2>5 DEF Write, NextSlot, ServerTypeOK
<1>11. CASE BrokenWrite
  BY <1>11 DEF BrokenWrite, pipes, ServerTypeOK
<1>12. CASE UNCHANGED allVars
  BY <1>12 DEF allVars, serverVars, pipes, ServerTypeOK
<1> QED
  BY <1>1, <1>2, <1>3, <1>4, <1>5, <1>6, <1>7, <1>8, <1>9, <1>10, <1>11,
     <1>12 DEF EndToEndNext, Broadcaster

(* What is appended to a sequence is its last element.                     *)
LEMMA LastOfAppend ==
  ASSUME NEW S, NEW s \in Seq(S), NEW e \in S
  PROVE  Append(s, e) # <<>> /\ Append(s, e)[Len(Append(s, e))] = e
<1>1. Len(Append(s, e)) = Len(s) + 1 /\ Append(s, e)[Len(s) + 1] = e
  OBVIOUS
<1>2. Len(s) + 1 # 0 /\ Len(<<>>) = 0
  OBVIOUS
<1>3. Append(s, e) # <<>>
  BY <1>1, <1>2
<1> QED
  BY <1>1, <1>3

(* A sequence that loses its head keeps its last element, or is empty.     *)
LEMMA LastOfTail ==
  ASSUME NEW S, NEW s \in Seq(S), s # <<>>
  PROVE  \/ Tail(s) = <<>> /\ Head(s) = s[Len(s)]
         \/ Tail(s) # <<>> /\ Tail(s)[Len(Tail(s))] = s[Len(s)]
<1>1. /\ Len(s) \in Nat \ {0} /\ Head(s) = s[1]
      /\ Tail(s) \in Seq(S) /\ Len(Tail(s)) = Len(s) - 1
      /\ \A k \in 1 .. Len(s) - 1 : Tail(s)[k] = s[k + 1]
  OBVIOUS
<1>2. CASE Len(s) = 1
  <2>1. Tail(s) = <<>>
    <3>1. Len(Tail(s)) = 0
      BY <1>1, <1>2
    <3>2. Tail(s) \in Seq(S)
      BY <1>1
    <3>3. Tail(s) # <<>> => Len(Tail(s)) \in Nat \ {0}
      BY <3>2, EmptySeq, Zenon
    <3> QED
      BY <3>1, <3>3
  <2> QED
    BY <1>1, <1>2, <2>1
<1>3. CASE Len(s) # 1
  <2>1. Len(s) - 1 \in 1 .. Len(s) - 1 /\ (Len(s) - 1) + 1 = Len(s)
    BY <1>1, <1>3
  <2>2. Tail(s)[Len(s) - 1] = s[Len(s)]
    BY <1>1, <2>1
  <2>3. Tail(s) # <<>>
    <3>1. Len(Tail(s)) # 0
      BY <1>1, <1>3
    <3>2. Len(<<>>) = 0
      OBVIOUS
    <3> QED
      BY <3>1, <3>2
  <2> QED
    BY <1>1, <2>2, <2>3
<1> QED
  BY <1>2, <1>3

(* The cube that is nearest to the client stays the same while the client  *)
(* takes it through its socket and its line into cube_state_to_display.    *)
LEMMA SocketThreadKeepsNewest ==
  ASSUME TypeOK, SocketThread
  PROVE  NewestCube' = NewestCube
<1>1. CASE GetLine
  <2>1. from_server \in Seq(Cubes) /\ from_server # <<>>
    BY <1>1 DEF GetLine, TypeOK
  <2>2. /\ line' = Head(from_server) /\ from_server' = Tail(from_server)
        /\ socket_pc' = "decode"
    BY <1>1 DEF GetLine
  <2>3. CASE from_server' = <<>>
    <3>1. Head(from_server) = from_server[Len(from_server)]
      BY <2>1, <2>2, <2>3, LastOfTail
    <3> QED
      BY <2>1, <2>2, <2>3, <3>1 DEF NewestCube
  <2>4. CASE from_server' # <<>>
    <3>1. from_server'[Len(from_server')] = from_server[Len(from_server)]
      BY <2>1, <2>2, <2>4, LastOfTail
    <3> QED
      BY <2>1, <2>4, <3>1 DEF NewestCube
  <2> QED
    BY <2>3, <2>4
<1>2. CASE EndOfFile
  BY <1>2 DEF EndOfFile, NewestCube
<1>3. CASE DecodeSquare
  <2>1. /\ socket_pc = "decode" /\ line' = line /\ from_server' = from_server
        /\ \/ socket_pc' = "decode"
           \/ socket_pc' = "post" /\ last_cube' = line
    BY <1>3 DEF DecodeSquare
  <2> QED
    BY <2>1 DEF NewestCube
<1>4. CASE FramePost
  BY <1>4 DEF FramePost, NewestCube
<1> QED
  BY <1>1, <1>2, <1>3, <1>4 DEF SocketThread

(* No other thread of the client touches it.                               *)
LEMMA OthersKeepNewest ==
  ASSUME CursesThread \/ ViewThread \/ MainThread
  PROVE  NewestCube' = NewestCube
<1>1. UNCHANGED <<from_server, socket_pc, line, last_cube>>
  BY DEF CursesThread, ViewThread, MainThread, OpenSocket, OpenFails,
         SendKey, LostKey, FaceKey, FacePost, QuitKey, SemWait, ReadFace,
         DrawSquare, DrawCrashes, JoinCurses, JoinSocket, RunCubeAgain,
         ErrorAndExit, socket
<1> QED
  BY <1>1 DEF NewestCube

(* A frame stays the newest while the child carries it.                    *)
LEMMA ForwardFrameKeepsNewest ==
  ASSUME TypeOK, ServerTypeOK, ForwardFrame
  PROVE  NewestUnderWay' = NewestUnderWay
<1> DEFINE pipe == pipes_to_clients[client_id]
           Serving == broadcaster_pc = "write" /\ served <= client_id
<1>1. /\ pipe \in Seq(CubesSent) /\ pipe # <<>>
      /\ pipes_to_clients \in [Slots -> Seq(CubesSent)]
  BY SlotAssumption DEF ForwardFrame, TakeFrame, ServerTypeOK
<1>2. pipe' = Tail(pipe)
  BY <1>1, SlotAssumption DEF ForwardFrame, TakeFrame
<1>3. UNCHANGED <<broadcaster_pc, msg, served>>
  BY DEF ForwardFrame, serverVars
<1>4. CASE Serving
  BY <1>3, <1>4 DEF NewestUnderWay
<1>5. CASE ~Serving /\ pipe' = <<>>
  <2>1. pipe[Len(pipe)] = Head(pipe)
    BY <1>1, <1>2, <1>5, LastOfTail
  <2>2. from_server' = Append(from_server, Head(pipe))
    BY DEF ForwardFrame, ServerSends
  <2>3. Head(pipe) \in CubesSent
    BY <1>1
  <2>4. from_server \in Seq(Cubes) /\ Head(pipe) \in Cubes
    BY <2>3, CubeAssumption DEF TypeOK
  <2>5. from_server' # <<>> /\ from_server'[Len(from_server')] = Head(pipe)
    BY <2>2, <2>4, LastOfAppend
  <2>6. NewestUnderWay = Head(pipe)
    BY <1>1, <1>5, <2>1 DEF NewestUnderWay
  <2>7. NewestUnderWay' = NewestCube'
    BY <1>3, <1>5 DEF NewestUnderWay
  <2>8. NewestCube' = Head(pipe)
    BY <2>5 DEF NewestCube
  <2> QED
    BY <2>6, <2>7, <2>8
<1>6. CASE ~Serving /\ pipe' # <<>>
  <2>1. pipe'[Len(pipe')] = pipe[Len(pipe)]
    BY <1>1, <1>2, <1>6, LastOfTail
  <2> QED
    BY <1>1, <1>3, <1>6, <2>1 DEF NewestUnderWay
<1> QED
  BY <1>4, <1>5, <1>6

(* So it does while the loop goes from slot to slot: until the slot of the *)
(* client is served it is the message, and then the last frame in its pipe.*)
LEMMA WriteKeepsNewest ==
  ASSUME ServerTypeOK, Write
  PROVE  NewestUnderWay' = NewestUnderWay
<1> DEFINE pipe == pipes_to_clients[client_id]
<1>1. /\ served \in Slots /\ client_id \in Slots /\ msg \in CubesSent
      /\ pipes_to_clients \in [Slots -> Seq(CubesSent)]
  BY SlotAssumption DEF Write, ServerTypeOK, Slots
<1>2. /\ broadcaster_pc = "write" /\ msg' = msg /\ served' = served + 1
      /\ broadcaster_pc' =
           IF served + 1 < N_SLOTS THEN "write" ELSE "sem_wait"
      /\ pipes_to_clients' =
           [pipes_to_clients EXCEPT ![served] = Append(@, msg)]
  BY DEF Write, NextSlot
<1>3. NewestCube' = NewestCube
  BY DEF Write, NextSlot, clientVars, vars, socket, NewestCube
<1>4. CASE served < client_id
  <2>1. served + 1 <= client_id /\ served + 1 < N_SLOTS /\ served <= client_id
    BY <1>1, <1>4, SlotAssumption DEF Slots
  <2> QED
    BY <1>2, <2>1 DEF NewestUnderWay
<1>5. CASE served = client_id
  <2>1. pipe' = Append(pipe, msg) /\ pipe \in Seq(CubesSent)
    BY <1>1, <1>2, <1>5
  <2>2. pipe' # <<>> /\ pipe'[Len(pipe')] = msg
    BY <1>1, <2>1, LastOfAppend
  <2>3. served <= client_id /\ ~(served' <= client_id)
    BY <1>1, <1>2, <1>5, SlotAssumption DEF Slots
  <2> QED
    BY <1>2, <2>2, <2>3 DEF NewestUnderWay
<1>6. CASE served > client_id
  <2>1. pipe' = pipe
    BY <1>1, <1>2, <1>6 DEF Slots
  <2>2. ~(served <= client_id) /\ ~(served' <= client_id)
    BY <1>1, <1>2, <1>6, SlotAssumption DEF Slots
  <2> QED
    BY <1>3, <2>1, <2>2 DEF NewestUnderWay
<1> QED
  BY <1>1, <1>4, <1>5, <1>6, SlotAssumption DEF Slots

(* The cube of the server stays the newest under way, or a wake-up is      *)
(* stored: a command posts, and encoding takes the cube as it is by then.  *)
LEMMA NextNewest ==
  ASSUME Inv, ServerTypeOK, NewestIsUnderWay, [EndToEndNext]_allVars
  PROVE  NewestIsUnderWay'
<1>0. TypeOK
  BY DEF Inv
<1>1. ASSUME UNCHANGED serverVars, NewestUnderWay' = NewestUnderWay
      PROVE  NewestIsUnderWay'
  BY <1>1 DEF serverVars, ServerRuns, NewestIsUnderWay
<1>2. ASSUME UNCHANGED <<serverVars, pipes_to_clients>>,
             NewestCube' = NewestCube
      PROVE  NewestIsUnderWay'
  BY <1>1, <1>2 DEF serverVars, NewestUnderWay
<1>3. UNCHANGED vars => NewestCube' = NewestCube
  BY DEF vars, socket, NewestCube
<1>4. ASSUME \/ Connect \/ AcceptClient
             \/ \E c \in Slots : AcceptOther(c) \/ ChildDies(c)
      PROVE  NewestIsUnderWay'
  BY <1>2, <1>3, <1>4
     DEF Connect, AcceptClient, AcceptOther, ChildDies, clientVars, pipes
<1>5. ASSUME NEW c \in Slots, ForwardOther(c) PROVE NewestIsUnderWay'
  <2>1. pipes_to_clients'[client_id] = pipes_to_clients[client_id]
    BY <1>5, SlotAssumption DEF ForwardOther, TakeFrame, ServerTypeOK
  <2>2. UNCHANGED serverVars /\ NewestCube' = NewestCube
    BY <1>3, <1>5 DEF ForwardOther, clientVars
  <2> QED
    BY <1>1, <2>1, <2>2 DEF serverVars, NewestUnderWay
<1>6. CASE ClientSteps(SocketThread)
  BY <1>0, <1>2, <1>6, SocketThreadKeepsNewest DEF ClientSteps, pipes
<1>7. ASSUME \/ ClientSteps(CursesThread) \/ ClientSteps(ViewThread)
             \/ ClientSteps(MainThread)
      PROVE  NewestIsUnderWay'
  BY <1>2, <1>7, OthersKeepNewest DEF ClientSteps, pipes
<1>8. CASE ForwardCommand
  <2>1. UNCHANGED <<serverVars, pipes_to_clients, from_server, socket_pc,
                    line, last_cube>>
    BY <1>8 DEF ForwardCommand, socket
  <2> QED
    BY <1>2, <2>1 DEF NewestCube
<1>9. CASE ForwardFrame
  BY <1>0, <1>1, <1>9, ForwardFrameKeepsNewest DEF ForwardFrame
<1>10. CASE Interpret \/ InterpretOther
  <2>1. broadcast_message_ready' = broadcast_message_ready + 1
    BY <1>10 DEF Interpret, InterpretOther, interpret_command
  <2>2. broadcast_message_ready \in Nat
    BY DEF ServerTypeOK
  <2>3. broadcast_message_ready' > 0
    BY <2>1, <2>2
  <2> QED
    BY <2>3 DEF NewestIsUnderWay
<1>11. CASE Encode
  <2>1. 0 <= client_id
    BY SlotAssumption DEF Slots
  <2> QED
    BY <1>11, <2>1 DEF Encode, NewestIsUnderWay, NewestUnderWay
<1>12. CASE Write
  <2>1. /\ ServerRuns
        /\ UNCHANGED <<global_cube_state, broadcast_message_ready>>
    BY <1>12 DEF Write, NextSlot, ServerRuns
  <2> QED
    BY <1>12, <2>1, WriteKeepsNewest DEF NewestIsUnderWay
<1>13. CASE BrokenWrite
  BY <1>13 DEF BrokenWrite, NewestIsUnderWay, ServerRuns
<1>14. CASE UNCHANGED allVars
  BY <1>2, <1>3, <1>14 DEF allVars, clientVars, pipes
<1> QED
  BY <1>4, <1>5, <1>6, <1>7, <1>8, <1>9, <1>10, <1>11, <1>12, <1>13, <1>14
     DEF EndToEndNext, Broadcaster

(* The invariant holds in every reachable state.                           *)
LEMMA EndToEndInvariance == EndToEndSpec => []EndToEndInv
<1>1. EndToEndInit => EndToEndInv
  BY EndToEndInitInv
<1>2. EndToEndInv /\ [EndToEndNext]_allVars => EndToEndInv'
  BY ClientInv, NextServerTypeOK, NextNewest DEF EndToEndInv
<1> QED
  BY <1>1, <1>2, PTL DEF EndToEndSpec

(* Whatever is in memory where cube_face_id was never initialised, and     *)
(* whenever faces are chosen: no command in the server's pipe is for a     *)
(* face that does not exist, so that decode_user_input never indexes       *)
(* outside of its array, and the server's cube stays a cube.               *)
THEOREM ServerTypeCorrect == EndToEndSpec => []ServerTypeOK
<1>1. EndToEndInv => ServerTypeOK
  BY DEF EndToEndInv
<1> QED
  BY <1>1, EndToEndInvariance, PTL

(* interpret_command, the broadcaster, the child and the three threads of  *)
(* the client together: once nothing is on its way any more, the terminal  *)
(* shows the chosen face of the server's cube, however late the client has *)
(* connected.                                                              *)
THEOREM ScreenIsTheCube == EndToEndSpec => []ScreenShowsTheCube
<1>1. EndToEndInv => ScreenShowsTheCube
  <2> SUFFICES ASSUME EndToEndInv, NothingUnderWay, notified,
                      cube_face_id \in Faces
               PROVE  screen = global_cube_state[cube_face_id]
    BY DEF ScreenShowsTheCube
  <2>1. global_cube_state = NewestUnderWay
    BY DEF EndToEndInv, NewestIsUnderWay, NothingUnderWay, ServerRuns
  <2>2. NewestUnderWay = last_cube
    BY DEF NewestUnderWay, NewestCube, NothingUnderWay, Quiescent
  <2>3. screen = last_cube[cube_face_id]
    BY InvImpliesQuiescentScreen
       DEF EndToEndInv, QuiescentScreen, NothingUnderWay
  <2> QED
    BY <2>1, <2>2, <2>3
<1> QED
  BY <1>1, EndToEndInvariance, PTL

=============================================================================
