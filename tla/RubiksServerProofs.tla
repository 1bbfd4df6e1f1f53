------------------------- MODULE RubiksServerProofs -------------------------
(***************************************************************************)
(* The server, for any number of client slots, pipes of any capacity,      *)
(* shuffles of any depth and any number of commands: types, whole frames   *)
(* and no lost wake-up.  The inductive invariant is Inv of RubiksServer.   *)
(***************************************************************************)
EXTENDS RubiksServer, RubiksCubeProofs

(***************************************************************************)
(* The line format carries every cube: what encode writes face by face is  *)
(* a single line, and decode gets the cube back.                           *)
(***************************************************************************)
\* The faces before face n are in the buffer.
Holds(buffer, c, n) ==
  \A i \in Faces, j \in Squares :
    i < n => buffer[i * N_SQUARES_PER_FACE + j] = ZERO + c[i][j]

(* The place of a square in the line: inside the digits, and div and mod   *)
(* lead back to the square.                                                *)
LEMMA PlaceOfSquare ==
  ASSUME NEW i \in Faces, NEW j \in Squares
  PROVE  LET k == i * N_SQUARES_PER_FACE + j
         IN  /\ k \in 0 .. 53 /\ k \in Positions
             /\ k \div N_SQUARES_PER_FACE = i
             /\ k % N_SQUARES_PER_FACE = j
BY DEF Faces, Squares, Positions, N_FACES, N_SQUARES_PER_FACE,
       N_CHARACTERS_TO_ENCODE_CUBE

(* Every place of a digit belongs to a square.                             *)
LEMMA SquareAtPlace ==
  ASSUME NEW k \in 0 .. 53
  PROVE  \E i \in Faces, j \in Squares : k = i * N_SQUARES_PER_FACE + j
<1>1. \A i \in 0 .. 5 :
        i * 9 <= k /\ k <= i * 9 + 8 => k - i * 9 \in 0 .. 8
  OBVIOUS
<1>2. PICK i \in 0 .. 5 : i * 9 <= k /\ k <= i * 9 + 8
  <2>1. \/ k \in 0 .. 8    \/ k \in 9 .. 17   \/ k \in 18 .. 26
        \/ k \in 27 .. 35  \/ k \in 36 .. 44  \/ k \in 45 .. 53
    OBVIOUS
  <2> QED
    BY <2>1
<1>3. k - i * 9 \in 0 .. 8 /\ k = i * 9 + (k - i * 9)
  BY <1>1, <1>2
<1> QED
  BY <1>3 DEF Faces, Squares, N_FACES, N_SQUARES_PER_FACE

(* encode keeps a buffer a buffer.                                         *)
LEMMA EncodeFaceType ==
  ASSUME NEW buffer \in Buffers, NEW c \in Cubes, NEW i \in Faces
  PROVE  EncodeFace(buffer, c, i) \in Buffers
<1>1. ASSUME NEW k \in Positions, k \div N_SQUARES_PER_FACE = i
      PROVE  ZERO + c[i][k % N_SQUARES_PER_FACE] \in 0 .. 255
  <2>1. k % N_SQUARES_PER_FACE \in Squares
    BY DEF Positions, Squares, N_SQUARES_PER_FACE, N_CHARACTERS_TO_ENCODE_CUBE
  <2>2. c[i][k % N_SQUARES_PER_FACE] \in Faces
    BY <2>1 DEF Cubes
  <2> QED
    BY <2>2 DEF Faces, N_FACES, ZERO
<1> QED
  BY <1>1 DEF EncodeFace, Buffers

(* So do the newline and the NUL behind the digits.                        *)
LEMMA TerminateType ==
  ASSUME NEW buffer \in Buffers
  PROVE  Terminate(buffer) \in Buffers
BY DEF Terminate, Buffers, Positions, N_CHARACTERS_TO_ENCODE_CUBE, NEWLINE, NUL

(* A buffer nobody has written to is one.                                  *)
LEMMA EmptyBufferType == EmptyBuffer \in Buffers
BY DEF EmptyBuffer, Buffers, NUL

(* One round of the outer loop of encode adds a face and keeps the others. *)
LEMMA EncodeFaceHolds ==
  ASSUME NEW buffer \in Buffers, NEW c \in Cubes, NEW n \in Faces,
         Holds(buffer, c, n)
  PROVE  Holds(EncodeFace(buffer, c, n), c, n + 1)
<1> SUFFICES ASSUME NEW i \in Faces, NEW j \in Squares, i < n + 1
             PROVE  EncodeFace(buffer, c, n)[i * N_SQUARES_PER_FACE + j]
                      = ZERO + c[i][j]
  BY DEF Holds
<1> DEFINE k == i * N_SQUARES_PER_FACE + j
<1>1. /\ k \in Positions
      /\ k \div N_SQUARES_PER_FACE = i
      /\ k % N_SQUARES_PER_FACE = j
  BY PlaceOfSquare
<1>2. EncodeFace(buffer, c, n)[k] = IF i = n THEN ZERO + c[n][j] ELSE buffer[k]
  BY <1>1 DEF EncodeFace
<1>3. CASE i = n
  BY <1>2, <1>3
<1>4. CASE i # n
  <2>1. i < n
    BY <1>4 DEF Faces, N_FACES
  <2> QED
    BY <1>2, <1>4, <2>1 DEF Holds
<1> QED
  BY <1>3, <1>4

(* A buffer that holds all faces and is terminated spells the cube.        *)
LEMMA TerminateSpells ==
  ASSUME NEW buffer \in Buffers, NEW c \in Cubes, Holds(buffer, c, N_FACES)
  PROVE  Spells(Terminate(buffer), c)
<1> DEFINE text == Terminate(buffer)
<1>1. ASSUME NEW k \in 0 .. 53 PROVE text[k] = buffer[k]
  BY DEF Terminate, Buffers, Positions, N_CHARACTERS_TO_ENCODE_CUBE
<1>2. text[54] = NEWLINE /\ text[55] = NUL
  BY DEF Terminate, Buffers, Positions, N_CHARACTERS_TO_ENCODE_CUBE
<1>3. ASSUME NEW i \in Faces, NEW j \in Squares
      PROVE  /\ text[i * N_SQUARES_PER_FACE + j] = ZERO + c[i][j]
             /\ c[i][j] \in Faces
  <2>1. i * N_SQUARES_PER_FACE + j \in 0 .. 53
    BY PlaceOfSquare
  <2>2. i < N_FACES
    BY DEF Faces, N_FACES
  <2> QED
    BY <1>1, <2>1, <2>2 DEF Holds, Cubes
<1> HIDE DEF text
<1>4. decode(text) = c
  <2>1. ASSUME NEW i \in Faces, NEW j \in Squares
        PROVE  text[i * N_SQUARES_PER_FACE + j] - ZERO = c[i][j]
    BY <1>3 DEF Faces, N_FACES, ZERO
  <2>2. decode(text) = [i \in Faces |-> [j \in Squares |-> c[i][j]]]
    BY <2>1, Zenon DEF decode
  <2>3. c = [i \in Faces |-> [j \in Squares |-> c[i][j]]]
    BY DEF Cubes
  <2>4. [i \in Faces |-> [j \in Squares |-> c[i][j]]] = c
    BY <2>3
  <2> QED
    BY <2>2, <2>4, Zenon
<1>5. ASSUME NEW k \in 0 .. 53 PROVE text[k] # NEWLINE
  <2>1. PICK i \in Faces, j \in Squares : k = i * N_SQUARES_PER_FACE + j
    BY SquareAtPlace
  <2> QED
    BY <1>3, <2>1 DEF Faces, N_FACES, ZERO, NEWLINE
<1>6. ASSUME NEW k \in Positions PROVE k \in 0 .. 53 \/ k = 54 \/ k = 55
  BY DEF Positions, N_CHARACTERS_TO_ENCODE_CUBE
<1>7. \A k \in Positions :
        text[k] = NEWLINE <=> k = N_CHARACTERS_TO_ENCODE_CUBE - 2
  BY <1>2, <1>5, <1>6 DEF NEWLINE, NUL, N_CHARACTERS_TO_ENCODE_CUBE
<1> QED
  BY <1>4, <1>7 DEF Spells, text

-----------------------------------------------------------------------------
(* The characters of a command line are a face and a direction or a 2.     *)
LEMMA CommandType ==
  ASSUME NEW l \in Lines
  PROVE  /\ l[1] - ZERO \in Faces
         /\ l[2] - ZERO \in 0 .. 2
         /\ l[2] - ZERO # 2 => l[2] - ZERO \in Directions
         /\ l # <<>>
<1>1. PICK f \in Faces, d \in 0 .. 2 : l = <<ZERO + f, ZERO + d, NEWLINE>>
  BY DEF Lines
<1>2. l # <<>>
  <2>1. Len(l) = 3 /\ Len(<<>>) = 0
    BY <1>1
  <2> QED
    BY <2>1
<1>3. l[1] = ZERO + f /\ l[2] = ZERO + d
  BY <1>1
<1> QED
  BY <1>2, <1>3 DEF ZERO, Faces, N_FACES, Directions

(* The initial state has the types and satisfies the invariant.            *)
LEMMA InitInv == Init => Inv
<1> SUFFICES ASSUME Init PROVE Inv
  OBVIOUS
<1> USE ClientsAssumption, PipeAssumption, DepthAssumption, ThreadAssumption,
        BoundAssumption
<1>1. make_cube \in Cubes
  BY MakeCubeType
<1>2. TypeOK
  <2>1. EmptyBuffer \in Buffers
    BY EmptyBufferType
  <2> QED
    BY <1>1, <2>1 DEF Init, TypeOK, ListenerPcs, BroadcasterPcs, N_FACES,
       Clients
<1>3. LoopsInRange
  BY DEF Init, LoopsInRange, Clients
<1>4. MutualExclusion
  BY DEF Init, MutualExclusion, ListenerCritical, BroadcasterCritical
<1>5. CubeIsNewestState
  BY DEF Init, CubeIsNewestState
<1>6. EncodedSoFar
  BY DEF Init, EncodedSoFar
<1>7. FramesAreWhole
  BY DEF Init, FramesAreWhole
<1>8. BroadcastIsNewest
  BY DEF Init, BroadcastIsNewest
<1>9. ListenersStartInOrder
  BY DEF Init, ListenersStartInOrder
<1> QED
  BY <1>2, <1>3, <1>4, <1>5, <1>6, <1>7, <1>8, <1>9
     DEF Inv, FrameInv

(* Every step of a thread of the server or of a child keeps the types.     *)
LEMMA NextTypeOK == TypeOK /\ LoopsInRange /\ [Next]_vars => TypeOK'
<1> SUFFICES ASSUME TypeOK, LoopsInRange, [Next]_vars PROVE TypeOK'
  OBVIOUS
<1> USE ClientsAssumption, PipeAssumption, DepthAssumption, ThreadAssumption,
        BoundAssumption
<1> USE DEF main, listener, broadcaster, environment, ListenerPcs,
            BroadcasterPcs
<1>1. CASE Accept
  BY <1>1 DEF Accept, TypeOK
<1>2. CASE CreateListener
  <2>1. num_clients_connected \in Clients
    BY <1>2 DEF CreateListener, TypeOK, LoopsInRange, Clients
  <2>2. num_clients_connected' \in 0 .. N_CLIENTS
    BY <1>2, <2>1 DEF CreateListener, Clients
  <2>3. listener_pc' \in [Clients -> ListenerPcs]
    BY <1>2, <2>1 DEF CreateListener, TypeOK
  <2>4. main_pc' \in {"accept", "create", "join"}
    BY <1>2 DEF CreateListener
  <2> QED
    BY <1>2, <2>2, <2>3, <2>4 DEF CreateListener, TypeOK
<1>3. ASSUME NEW c \in Clients, NEW l \in UserLines, Send(c, l) PROVE TypeOK'
  <2>1. l \in Lines /\ Len(to_server[c]) < PIPE_CAPACITY
    BY <1>3 DEF Send
  <2>2. to_server[c] \in Seq(Lines)
    BY DEF TypeOK
  <2>3. /\ Append(to_server[c], l) \in Seq(Lines)
        /\ Len(Append(to_server[c], l)) <= PIPE_CAPACITY
    BY <2>1, <2>2
  <2>4. to_server' = [to_server EXCEPT ![c] = Append(to_server[c], l)]
    BY <1>3 DEF Send
  <2>5. /\ to_server' \in [Clients -> Seq(Lines)]
        /\ \A d \in Clients : Len(to_server'[d]) <= PIPE_CAPACITY
    BY <2>3, <2>4 DEF TypeOK
  <2>6. sent' \in 0 .. MaxCommands
    BY <1>3 DEF Send, TypeOK
  <2> QED
    BY <1>3, <2>5, <2>6 DEF Send, TypeOK
<1>4. ASSUME NEW c \in Clients, Receive(c) PROVE TypeOK'
  <2>1. to_client[c] \in Seq(Frames) /\ to_client[c] # <<>>
    BY <1>4 DEF Receive, TypeOK
  <2>2. /\ Tail(to_client[c]) \in Seq(Frames)
        /\ Len(Tail(to_client[c])) <= Len(to_client[c])
        /\ Head(to_client[c]).version \in Nat
    <3>1. ASSUME NEW s \in Seq(Frames), s # <<>>
          PROVE  /\ Tail(s) \in Seq(Frames) /\ Head(s) \in Frames
                 /\ Len(Tail(s)) <= Len(s)
      BY <3>1
    <3>2. Head(to_client[c]) \in Frames
      BY <2>1, <3>1
    <3> QED
      BY <2>1, <3>1, <3>2 DEF Frames
  <2>3. to_client' = [to_client EXCEPT ![c] = Tail(to_client[c])]
    BY <1>4 DEF Receive
  <2>4. /\ to_client' \in [Clients -> Seq(Frames)]
        /\ \A d \in Clients : Len(to_client'[d]) <= PIPE_CAPACITY
    BY <2>2, <2>3 DEF TypeOK
  <2>5. Append(received[c], Head(to_client[c]).version) \in Seq(Nat)
    BY <2>2 DEF TypeOK
  <2>6. received' \in [Clients -> Seq(Nat)]
    BY <1>4, <2>5 DEF Receive, TypeOK
  <2> QED
    BY <1>4, <2>4, <2>6 DEF Receive, TypeOK
<1>5. ASSUME NEW c \in Clients, GetLine(c) PROVE TypeOK'
  BY <1>5 DEF GetLine, TypeOK
<1>6. ASSUME NEW c \in Clients, Lock(c) PROVE TypeOK'
  BY <1>6 DEF Lock, TypeOK
<1>7. ASSUME NEW c \in Clients, DecodeRotate(c) PROVE TypeOK'
  <2> DEFINE cube == rotate(global_cube_state, line[c][1] - ZERO,
                            line[c][2] - ZERO)
  <2>1. line[c] \in Lines
    BY <1>7 DEF DecodeRotate, TypeOK, LoopsInRange
  <2>2. cube \in Cubes
    BY <1>7, <2>1, CommandType, RotateType DEF DecodeRotate, TypeOK
  <2>3. WriteBack(c, cube)
    BY <1>7 DEF DecodeRotate
  <2> HIDE DEF cube
  <2> QED
    BY <1>7, <2>2, <2>3 DEF DecodeRotate, WriteBack, TypeOK, N_FACES
<1>8. ASSUME NEW c \in Clients, DecodeShuffle(c) PROVE TypeOK'
  BY <1>8 DEF DecodeShuffle, TypeOK
<1>9. ASSUME NEW c \in Clients, DecodeSolve(c) PROVE TypeOK'
  BY <1>9, MakeCubeType DEF DecodeSolve, WriteBack, TypeOK, N_FACES
<1>10. ASSUME NEW c \in Clients, ShuffleTurn(c) PROVE TypeOK'
  <2>1. PICK t \in RandomTurns :
          WriteBack(c, rotate(global_cube_state, t[1], t[2]))
    BY <1>10 DEF ShuffleTurn
  <2>2. rotate(global_cube_state, t[1], t[2]) \in Cubes
    BY RotateType DEF TypeOK
  <2>3. depth' \in [Clients -> 0 .. MAX_DEPTH]
    <3>1. depth[c] - 1 \in 0 .. MAX_DEPTH
      BY <1>10 DEF ShuffleTurn, TypeOK, LoopsInRange
    <3> QED
      BY <1>10, <3>1 DEF ShuffleTurn, TypeOK
  <2> QED
    BY <1>10, <2>1, <2>2, <2>3 DEF ShuffleTurn, WriteBack, TypeOK, N_FACES
<1>11. ASSUME NEW c \in Clients, CopyFace(c) PROVE TypeOK'
  <2>1. copied[c] \in Faces
    BY <1>11 DEF CopyFace, TypeOK, LoopsInRange, Faces, N_FACES
  <2>2. global_cube_state' \in Cubes
    BY <1>11, <2>1 DEF CopyFace, TypeOK, Cubes
  <2>3. listener_pc' \in [Clients -> ListenerPcs]
    BY <1>11 DEF CopyFace, TypeOK
  <2>4. copied' \in [Clients -> 0 .. N_FACES]
    <3>1. copied[c] + 1 \in 0 .. N_FACES
      BY <2>1 DEF Faces, N_FACES
    <3> QED
      BY <1>11, <3>1 DEF CopyFace, TypeOK
  <2> QED
    BY <1>11, <2>2, <2>3, <2>4 DEF CopyFace, TypeOK
<1>12. ASSUME NEW c \in Clients, Unlock(c) PROVE TypeOK'
  BY <1>12, MakeCubeType DEF Unlock, TypeOK, N_FACES
<1>13. ASSUME NEW c \in Clients, Post(c) PROVE TypeOK'
  BY <1>13 DEF Post, TypeOK
<1>14. CASE SemWait
  BY <1>14 DEF SemWait, TypeOK
<1>15. CASE BroadcasterLock
  BY <1>15 DEF BroadcasterLock, TypeOK, N_FACES
<1>16. CASE Encode
  <2>1. encoded \in Faces
    BY <1>16 DEF Encode, TypeOK, LoopsInRange, Faces, N_FACES
  <2>2. EncodeFace(msg, global_cube_state, encoded) \in Buffers
    BY <2>1, EncodeFaceType DEF TypeOK
  <2>3. msg' \in Buffers /\ broadcaster_pc' \in BroadcasterPcs
    BY <1>16, <2>2, TerminateType DEF Encode, TypeOK
  <2>4. encoded' \in 0 .. N_FACES
    BY <1>16, <2>1 DEF Encode, Faces, N_FACES
  <2> QED
    BY <1>16, <2>3, <2>4 DEF Encode, TypeOK
<1>17. CASE BroadcasterUnlock
  BY <1>17 DEF BroadcasterUnlock, TypeOK
<1>18. CASE Write
  <2>1. served \in Clients
    BY <1>18 DEF Write, TypeOK, LoopsInRange, Clients
  <2>2. Frame(msg, version) \in Frames
    BY DEF Frame, Frames, TypeOK
  <2>3. /\ to_client' \in [Clients -> Seq(Frames)]
        /\ \A c \in Clients : Len(to_client'[c]) <= PIPE_CAPACITY
    BY <1>18, <2>1, <2>2 DEF Write, WriteFrame, TypeOK
  <2>4. msg' \in Buffers /\ broadcaster_pc' \in BroadcasterPcs
    BY <1>18, EmptyBufferType DEF Write, NextServed, TypeOK
  <2>5. served' \in 0 .. N_CLIENTS
    BY <1>18, <2>1 DEF Write, NextServed, Clients
  <2> QED
    BY <1>18, <2>3, <2>4, <2>5 DEF Write, NextServed, TypeOK
<1>19. CASE UNCHANGED vars
  BY <1>19 DEF vars, TypeOK
<1> QED
  BY <1>1, <1>2, <1>3, <1>4, <1>5, <1>6, <1>7, <1>8, <1>9, <1>10, <1>11,
     <1>12, <1>13, <1>14, <1>15, <1>16, <1>17, <1>18, <1>19
     DEF Next, Listener, Broadcast

(* The loops over faces, clients and turns stop where they should.         *)
LEMMA NextLoops == TypeOK /\ LoopsInRange /\ [Next]_vars => LoopsInRange'
<1> SUFFICES ASSUME TypeOK, LoopsInRange, [Next]_vars PROVE LoopsInRange'
  OBVIOUS
<1> USE ClientsAssumption, DepthAssumption
<1> USE DEF main, listener, broadcaster
<1>1. CASE Accept
  BY <1>1 DEF Accept, LoopsInRange
<1>2. CASE CreateListener
  BY <1>2 DEF CreateListener, TypeOK, LoopsInRange
<1>3. ASSUME NEW c \in Clients, NEW l \in UserLines, Send(c, l)
      PROVE  LoopsInRange'
  BY <1>3 DEF Send, LoopsInRange
<1>4. ASSUME NEW c \in Clients, Receive(c) PROVE LoopsInRange'
  BY <1>4 DEF Receive, LoopsInRange
<1>5. ASSUME NEW c \in Clients, GetLine(c) PROVE LoopsInRange'
  <2>1. to_server[c] \in Seq(Lines) /\ to_server[c] # <<>>
    BY <1>5 DEF GetLine, TypeOK
  <2>2. Head(to_server[c]) # <<>>
    <3>1. Head(to_server[c]) \in Lines
      BY <2>1
    <3> QED
      BY <3>1, CommandType
  <2> QED
    BY <1>5, <2>2 DEF GetLine, TypeOK, LoopsInRange
<1>6. ASSUME NEW c \in Clients, Lock(c) PROVE LoopsInRange'
  BY <1>6 DEF Lock, TypeOK, LoopsInRange
<1>7. ASSUME NEW c \in Clients, DecodeRotate(c) PROVE LoopsInRange'
  BY <1>7 DEF DecodeRotate, WriteBack, TypeOK, LoopsInRange, N_FACES
<1>8. ASSUME NEW c \in Clients, DecodeShuffle(c) PROVE LoopsInRange'
  <2>1. PICK n \in MIN_DEPTH .. MAX_DEPTH : depth' = [depth EXCEPT ![c] = n]
    BY <1>8 DEF DecodeShuffle
  <2>2. n > 0
    OBVIOUS
  <2> QED
    BY <1>8, <2>1, <2>2 DEF DecodeShuffle, TypeOK, LoopsInRange
<1>9. ASSUME NEW c \in Clients, DecodeSolve(c) PROVE LoopsInRange'
  BY <1>9 DEF DecodeSolve, WriteBack, TypeOK, LoopsInRange, N_FACES
<1>10. ASSUME NEW c \in Clients, ShuffleTurn(c) PROVE LoopsInRange'
  BY <1>10 DEF ShuffleTurn, WriteBack, TypeOK, LoopsInRange, N_FACES
<1>11. ASSUME NEW c \in Clients, CopyFace(c) PROVE LoopsInRange'
  BY <1>11 DEF CopyFace, TypeOK, LoopsInRange, N_FACES
<1>12. ASSUME NEW c \in Clients, Unlock(c) PROVE LoopsInRange'
  BY <1>12 DEF Unlock, TypeOK, LoopsInRange
<1>13. ASSUME NEW c \in Clients, Post(c) PROVE LoopsInRange'
  BY <1>13 DEF Post, TypeOK, LoopsInRange
<1>14. CASE SemWait
  BY <1>14 DEF SemWait, LoopsInRange
<1>15. CASE BroadcasterLock
  BY <1>15 DEF BroadcasterLock, LoopsInRange, N_FACES
<1>16. CASE Encode
  BY <1>16 DEF Encode, LoopsInRange
<1>17. CASE BroadcasterUnlock
  BY <1>17 DEF BroadcasterUnlock, LoopsInRange
<1>18. CASE Write
  BY <1>18 DEF Write, NextServed, LoopsInRange
<1>19. CASE UNCHANGED vars
  BY <1>19 DEF vars, LoopsInRange
<1> QED
  BY <1>1, <1>2, <1>3, <1>4, <1>5, <1>6, <1>7, <1>8, <1>9, <1>10, <1>11,
     <1>12, <1>13, <1>14, <1>15, <1>16, <1>17, <1>18, <1>19
     DEF Next, Listener, Broadcast

(* One thread at a time is between lock and unlock.                        *)
LEMMA NextMutex == TypeOK /\ MutualExclusion /\ [Next]_vars => MutualExclusion'
<1> SUFFICES ASSUME TypeOK, MutualExclusion, [Next]_vars
             PROVE  MutualExclusion'
  OBVIOUS
<1> USE ThreadAssumption
<1> USE DEF main, listener, broadcaster, ListenerCritical, BroadcasterCritical
<1>1. CASE Accept
  BY <1>1 DEF Accept, MutualExclusion
<1>2. CASE CreateListener
  BY <1>2 DEF CreateListener, TypeOK, MutualExclusion
<1>3. ASSUME NEW c \in Clients, NEW l \in UserLines, Send(c, l)
      PROVE  MutualExclusion'
  BY <1>3 DEF Send, MutualExclusion
<1>4. ASSUME NEW c \in Clients, Receive(c) PROVE MutualExclusion'
  BY <1>4 DEF Receive, MutualExclusion
<1>5. ASSUME NEW c \in Clients, GetLine(c) PROVE MutualExclusion'
  BY <1>5 DEF GetLine, TypeOK, MutualExclusion
<1>6. ASSUME NEW c \in Clients, Lock(c) PROVE MutualExclusion'
  BY <1>6 DEF Lock, TypeOK, MutualExclusion
<1>7. ASSUME NEW c \in Clients, DecodeRotate(c) PROVE MutualExclusion'
  BY <1>7 DEF DecodeRotate, WriteBack, TypeOK, MutualExclusion
<1>8. ASSUME NEW c \in Clients, DecodeShuffle(c) PROVE MutualExclusion'
  BY <1>8 DEF DecodeShuffle, TypeOK, MutualExclusion
<1>9. ASSUME NEW c \in Clients, DecodeSolve(c) PROVE MutualExclusion'
  BY <1>9 DEF DecodeSolve, WriteBack, TypeOK, MutualExclusion
<1>10. ASSUME NEW c \in Clients, ShuffleTurn(c) PROVE MutualExclusion'
  BY <1>10 DEF ShuffleTurn, WriteBack, TypeOK, MutualExclusion
<1>11. ASSUME NEW c \in Clients, CopyFace(c) PROVE MutualExclusion'
  BY <1>11 DEF CopyFace, TypeOK, MutualExclusion
<1>12. ASSUME NEW c \in Clients, Unlock(c) PROVE MutualExclusion'
  BY <1>12 DEF Unlock, TypeOK, MutualExclusion
<1>13. ASSUME NEW c \in Clients, Post(c) PROVE MutualExclusion'
  BY <1>13 DEF Post, TypeOK, MutualExclusion
<1>14. CASE SemWait
  BY <1>14 DEF SemWait, MutualExclusion
<1>15. CASE BroadcasterLock
  BY <1>15 DEF BroadcasterLock, MutualExclusion
<1>16. CASE Encode
  BY <1>16 DEF Encode, MutualExclusion
<1>17. CASE BroadcasterUnlock
  BY <1>17 DEF BroadcasterUnlock, MutualExclusion
<1>18. CASE Write
  BY <1>18 DEF Write, NextServed, MutualExclusion
<1>19. CASE UNCHANGED vars
  BY <1>19 DEF vars, MutualExclusion
<1> QED
  BY <1>1, <1>2, <1>3, <1>4, <1>5, <1>6, <1>7, <1>8, <1>9, <1>10, <1>11,
     <1>12, <1>13, <1>14, <1>15, <1>16, <1>17, <1>18, <1>19
     DEF Next, Listener, Broadcast

(* A listener thread is created before it does anything.                   *)
LEMMA NextListeners ==
  TypeOK /\ ListenersStartInOrder /\ [Next]_vars => ListenersStartInOrder'
<1> SUFFICES ASSUME TypeOK, ListenersStartInOrder, [Next]_vars
             PROVE  ListenersStartInOrder'
  OBVIOUS
<1> USE DEF main, listener
<1>1. CASE CreateListener
  <2>1. num_clients_connected' = num_clients_connected + 1
    BY <1>1 DEF CreateListener
  <2>2. ASSUME NEW d \in Clients, num_clients_connected + 1 <= d
        PROVE  listener_pc'[d] = "none"
    <3>1. d # num_clients_connected /\ num_clients_connected <= d
      BY <2>2 DEF TypeOK, Clients
    <3> QED
      BY <1>1, <3>1 DEF CreateListener, TypeOK, ListenersStartInOrder
  <2> QED
    BY <2>1, <2>2 DEF ListenersStartInOrder
<1>2. ASSUME NEW c \in Clients, Listener(c) PROVE ListenersStartInOrder'
  <2>1. num_clients_connected' = num_clients_connected
    BY <1>2 DEF Listener, GetLine, Lock, DecodeRotate, DecodeShuffle,
                DecodeSolve, ShuffleTurn, CopyFace, Unlock, Post
  <2>2. listener_pc[c] # "none"
    BY <1>2 DEF Listener, GetLine, Lock, DecodeRotate, DecodeShuffle,
                DecodeSolve, ShuffleTurn, CopyFace, Unlock, Post
  <2>3. ASSUME NEW d \in Clients, d # c PROVE listener_pc'[d] = listener_pc[d]
    BY <1>2, <2>3 DEF TypeOK, Listener, GetLine, Lock, DecodeRotate,
       DecodeShuffle, DecodeSolve, ShuffleTurn, CopyFace, Unlock, Post,
       WriteBack
  <2> QED
    BY <2>1, <2>2, <2>3 DEF ListenersStartInOrder
<1>3. CASE UNCHANGED <<num_clients_connected, listener_pc>>
  BY <1>3 DEF ListenersStartInOrder
<1>4. Accept \/ Broadcast \/ UNCHANGED vars
        => UNCHANGED <<num_clients_connected, listener_pc>>
  BY DEF vars, Accept, Broadcast, SemWait, BroadcasterLock, Encode,
         BroadcasterUnlock, Write, NextServed
<1>5. ASSUME NEW c \in Clients, Receive(c) \/ \E l \in UserLines : Send(c, l)
      PROVE  UNCHANGED <<num_clients_connected, listener_pc>>
  BY <1>5 DEF Receive, Send
<1> QED
  BY <1>1, <1>2, <1>3, <1>4, <1>5 DEF Next

(* What appending an element to a sequence does.                           *)
LEMMA AppendFacts ==
  ASSUME NEW S, NEW seq \in Seq(S), NEW elt \in S
  PROVE  /\ Append(seq, elt) # <<>>
         /\ Len(Append(seq, elt)) = Len(seq) + 1
         /\ Append(seq, elt)[Len(seq) + 1] = elt
         /\ \A k \in 1 .. Len(seq) : Append(seq, elt)[k] = seq[k]
<1>1. Len(seq) \in Nat /\ Len(Append(seq, elt)) = Len(seq) + 1
  OBVIOUS
<1>2. Append(seq, elt)[Len(seq) + 1] = elt
  OBVIOUS
<1>3. \A k \in 1 .. Len(seq) : Append(seq, elt)[k] = seq[k]
  OBVIOUS
<1>4. Append(seq, elt) # <<>>
  BY <1>1
<1> QED
  BY <1>1, <1>2, <1>3, <1>4

(* While no listener is between lock and unlock, the cube is the newest    *)
(* state of the history.                                                   *)
LEMMA NextCube ==
  TypeOK /\ ListenersStartInOrder /\ CubeIsNewestState /\ [Next]_vars
    => CubeIsNewestState'
<1> SUFFICES ASSUME TypeOK, ListenersStartInOrder, CubeIsNewestState,
                    [Next]_vars
             PROVE  CubeIsNewestState'
  OBVIOUS
<1> USE DEF main, listener, ListenerCritical
<1>1. CASE CreateListener
  <2>1. num_clients_connected \in Clients =>
          listener_pc[num_clients_connected] = "none"
    BY DEF ListenersStartInOrder, TypeOK
  <2> QED
    BY <1>1, <2>1 DEF CreateListener, TypeOK, CubeIsNewestState
<1>2. ASSUME NEW c \in Clients,
             \/ GetLine(c) \/ Lock(c) \/ DecodeRotate(c) \/ DecodeShuffle(c)
             \/ DecodeSolve(c) \/ ShuffleTurn(c) \/ Post(c)
      PROVE  CubeIsNewestState'
  <2>1. UNCHANGED <<global_cube_state, history>>
    BY <1>2 DEF GetLine, Lock, DecodeRotate, DecodeShuffle, DecodeSolve,
                ShuffleTurn, Post
  <2>2. \A d \in Clients :
          listener_pc[d] \in ListenerCritical =>
            listener_pc'[d] \in ListenerCritical
    BY <1>2 DEF TypeOK, GetLine, Lock, DecodeRotate, DecodeShuffle,
                DecodeSolve, ShuffleTurn, Post, WriteBack
  <2> QED
    BY <2>1, <2>2 DEF CubeIsNewestState
<1>3. ASSUME NEW c \in Clients, CopyFace(c) PROVE CubeIsNewestState'
  <2>1. listener_pc'[c] \in ListenerCritical
    BY <1>3 DEF CopyFace, TypeOK
  <2>2. history' = history
    BY <1>3 DEF CopyFace
  <2> QED
    BY <2>1, <2>2 DEF CubeIsNewestState
<1>4. ASSUME NEW c \in Clients, Unlock(c) PROVE CubeIsNewestState'
  <2>1. /\ global_cube_state' = global_cube_state
        /\ history' = Append(history, global_cube_state)
    BY <1>4 DEF Unlock
  <2>2. history' # <<>> /\ history'[Len(history')] = global_cube_state
    <3>1. history \in Seq(Cubes) /\ global_cube_state \in Cubes
      BY DEF TypeOK
    <3>2. /\ Append(history, global_cube_state) # <<>>
          /\ Len(Append(history, global_cube_state)) = Len(history) + 1
          /\ Append(history, global_cube_state)[Len(history) + 1]
               = global_cube_state
      BY <3>1, AppendFacts
    <3> QED
      BY <2>1, <3>2, Zenon
  <2> QED
    BY <2>1, <2>2 DEF CubeIsNewestState
<1>5. CASE UNCHANGED <<global_cube_state, listener_pc, history>>
  BY <1>5 DEF CubeIsNewestState
<1>6. Accept \/ Broadcast \/ UNCHANGED vars
        => UNCHANGED <<global_cube_state, listener_pc, history>>
  BY DEF vars, Accept, Broadcast, SemWait, BroadcasterLock, Encode,
         BroadcasterUnlock, Write, NextServed
<1>7. ASSUME NEW c \in Clients, Receive(c) \/ \E l \in UserLines : Send(c, l)
      PROVE  UNCHANGED <<global_cube_state, listener_pc, history>>
  BY <1>7 DEF Receive, Send
<1> QED
  BY <1>1, <1>2, <1>3, <1>4, <1>5, <1>6, <1>7 DEF Next, Listener

(* A state of the history stays where it is when another one is added.     *)
LEMMA UnlockAppends ==
  ASSUME TypeOK, NEW c \in Clients, Unlock(c)
  PROVE  /\ Len(history') = Len(history) + 1
         /\ \A k \in 1 .. Len(history) :
              k \in 1 .. Len(history') /\ history'[k] = history[k]
<1>1. /\ history \in Seq(Cubes) /\ global_cube_state \in Cubes
      /\ history' = Append(history, global_cube_state)
  BY DEF Unlock, TypeOK
<1>2. Len(history) \in Nat
  BY <1>1
<1>3. Len(history') = Len(history) + 1
  BY <1>1, AppendFacts
<1>4. \A k \in 1 .. Len(history) : history'[k] = history[k]
  BY <1>1, AppendFacts
<1> QED
  BY <1>2, <1>3, <1>4

(* What the broadcaster has encoded is the cube it has locked; once it has *)
(* let go of the mutex the message is a state of the history.              *)
LEMMA NextEncoded ==
  ASSUME TypeOK, LoopsInRange, MutualExclusion, CubeIsNewestState,
         EncodedSoFar, [Next]_vars
  PROVE  EncodedSoFar'
<1> USE DEF main, listener, broadcaster
<1>1. ASSUME NEW c \in Clients, listener_pc[c] \in ListenerCritical
      PROVE  broadcaster_pc \notin {"encode", "unlock"}
  BY <1>1, ThreadAssumption DEF MutualExclusion, BroadcasterCritical
<1>2. CASE UNCHANGED <<global_cube_state, history, broadcaster>>
  BY <1>2 DEF EncodedSoFar
<1>3. ASSUME NEW c \in Clients,
             \/ GetLine(c) \/ Lock(c) \/ DecodeRotate(c) \/ DecodeShuffle(c)
             \/ DecodeSolve(c) \/ ShuffleTurn(c) \/ Post(c) \/ Receive(c)
             \/ \E l \in UserLines : Send(c, l)
      PROVE  UNCHANGED <<global_cube_state, history, broadcaster>>
  BY <1>3 DEF GetLine, Lock, DecodeRotate, DecodeShuffle, DecodeSolve,
              ShuffleTurn, Post, Send, Receive
<1>4. Accept \/ CreateListener \/ UNCHANGED vars
        => UNCHANGED <<global_cube_state, history, broadcaster>>
  BY DEF vars, Accept, CreateListener
<1>5. ASSUME NEW c \in Clients, CopyFace(c) PROVE EncodedSoFar'
  <2>1. broadcaster_pc \notin {"encode", "unlock"}
    BY <1>1, <1>5 DEF CopyFace, ListenerCritical
  <2>2. UNCHANGED <<history, broadcaster>>
    BY <1>5 DEF CopyFace
  <2> QED
    BY <2>1, <2>2 DEF EncodedSoFar
<1>6. ASSUME NEW c \in Clients, Unlock(c) PROVE EncodedSoFar'
  <2>1. broadcaster_pc \notin {"encode", "unlock"}
    BY <1>1, <1>6 DEF Unlock, ListenerCritical
  <2>2. UNCHANGED broadcaster
    BY <1>6 DEF Unlock
  <2>3. CASE broadcaster_pc = "write"
    <3>1. version \in 1 .. Len(history) /\ Spells(msg, history[version])
      BY <2>3 DEF EncodedSoFar
    <3>2. version \in 1 .. Len(history') /\ history'[version] = history[version]
      BY <1>6, <3>1, UnlockAppends
    <3>3. Spells(msg, history'[version])
      BY <3>1, <3>2, Zenon
    <3> QED
      BY <2>2, <2>3, <3>2, <3>3 DEF EncodedSoFar
  <2> QED
    BY <2>1, <2>2, <2>3 DEF EncodedSoFar
<1>7. CASE SemWait
  BY <1>7 DEF SemWait, EncodedSoFar
<1>8. CASE BroadcasterLock
  <2>1. \A i \in Faces : ~ i < 0
    BY DEF Faces, N_FACES
  <2>2. /\ broadcaster_pc' = "encode" /\ encoded' = 0
        /\ version' = Len(history') /\ UNCHANGED global_cube_state
    BY <1>8 DEF BroadcasterLock
  <2> QED
    BY <2>1, <2>2 DEF EncodedSoFar
<1>9. CASE Encode
  <2> DEFINE buffer == EncodeFace(msg, global_cube_state, encoded)
  <2>1. /\ encoded \in Faces /\ msg \in Buffers /\ global_cube_state \in Cubes
        /\ broadcaster_pc = "encode"
    BY <1>9 DEF Encode, TypeOK, LoopsInRange, Faces, N_FACES
  <2>2. /\ UNCHANGED <<global_cube_state, history, version>>
        /\ encoded' = encoded + 1 /\ version = Len(history)
    BY <1>9, <2>1 DEF Encode, EncodedSoFar
  <2>3. Holds(buffer, global_cube_state, encoded + 1)
    <3>1. Holds(msg, global_cube_state, encoded)
      BY <2>1 DEF EncodedSoFar, Holds
    <3> QED
      BY <2>1, <3>1, EncodeFaceHolds
  <2>4. buffer \in Buffers
    BY <2>1, EncodeFaceType
  <2>5. CASE encoded + 1 < N_FACES
    <3>1. broadcaster_pc' = "encode" /\ msg' = buffer
      BY <1>9, <2>1, <2>5 DEF Encode
    <3>2. Holds(msg', global_cube_state', encoded')
      BY <2>2, <2>3, <3>1
    <3> QED
      BY <2>2, <3>1, <3>2 DEF EncodedSoFar, Holds
  <2>6. CASE ~ encoded + 1 < N_FACES
    <3>1. broadcaster_pc' = "unlock" /\ msg' = Terminate(buffer)
      BY <1>9, <2>6 DEF Encode
    <3>2. encoded + 1 = N_FACES
      BY <2>1, <2>6 DEF Faces, N_FACES
    <3>3. Spells(msg', global_cube_state')
      BY <2>1, <2>2, <2>3, <2>4, <3>1, <3>2, TerminateSpells
    <3> QED
      BY <2>2, <3>1, <3>3 DEF EncodedSoFar
  <2> QED
    BY <2>5, <2>6
<1>10. CASE BroadcasterUnlock
  <2>1. /\ broadcaster_pc = "unlock" /\ broadcaster_pc' = "write"
        /\ UNCHANGED <<history, msg, version>>
    BY <1>10 DEF BroadcasterUnlock
  <2>2. version = Len(history) /\ Spells(msg, global_cube_state)
    BY <2>1 DEF EncodedSoFar
  <2>3. history # <<>> /\ global_cube_state = history[Len(history)]
    BY <1>1, <2>1 DEF CubeIsNewestState
  <2>4. version \in 1 .. Len(history)
    BY <2>2, <2>3 DEF TypeOK
  <2> QED
    BY <2>1, <2>2, <2>3, <2>4 DEF EncodedSoFar
<1>11. CASE Write
  BY <1>11 DEF Write, NextServed, EncodedSoFar
<1> QED
  BY <1>2, <1>3, <1>4, <1>5, <1>6, <1>7, <1>8, <1>9, <1>10, <1>11
     DEF Next, Listener, Broadcast

(* Every frame in a pipe is a whole line and a state of the history.       *)
LEMMA NextFrames ==
  ASSUME TypeOK, LoopsInRange, EncodedSoFar, FramesAreWhole, [Next]_vars
  PROVE  FramesAreWhole'
<1> USE DEF main, listener, broadcaster
<1> DEFINE Whole(frame) == /\ frame.version \in 1 .. Len(history)
                           /\ Spells(frame.text, history[frame.version])
<1>1. \A c \in Clients : \A k \in 1 .. Len(to_client[c]) :
        Whole(to_client[c][k])
  BY DEF FramesAreWhole
<1>2. ASSUME history' = history,
             \A c \in Clients : \A k \in 1 .. Len(to_client'[c]) :
               Whole(to_client'[c][k])
      PROVE  FramesAreWhole'
  BY <1>2 DEF FramesAreWhole
<1> HIDE DEF Whole
<1>3. CASE UNCHANGED <<to_client, history>>
  BY <1>1, <1>2, <1>3
<1>4. ASSUME NEW c \in Clients,
             \/ GetLine(c) \/ Lock(c) \/ DecodeRotate(c) \/ DecodeShuffle(c)
             \/ DecodeSolve(c) \/ ShuffleTurn(c) \/ CopyFace(c) \/ Post(c)
             \/ \E l \in UserLines : Send(c, l)
      PROVE  UNCHANGED <<to_client, history>>
  BY <1>4 DEF GetLine, Lock, DecodeRotate, DecodeShuffle, DecodeSolve,
              ShuffleTurn, CopyFace, Post, Send
<1>5. ASSUME \/ Accept \/ CreateListener \/ SemWait \/ BroadcasterLock
             \/ Encode \/ BroadcasterUnlock \/ UNCHANGED vars
      PROVE  UNCHANGED <<to_client, history>>
  BY <1>5 DEF vars, Accept, CreateListener, SemWait, BroadcasterLock, Encode,
         BroadcasterUnlock
<1>6. ASSUME NEW c \in Clients, Unlock(c) PROVE FramesAreWhole'
  <2>1. to_client' = to_client
    BY <1>6 DEF Unlock
  <2>2. ASSUME NEW d \in Clients, NEW k \in 1 .. Len(to_client[d])
        PROVE  LET v == to_client[d][k].version
               IN  /\ v \in 1 .. Len(history')
                   /\ Spells(to_client[d][k].text, history'[v])
    <3> DEFINE v == to_client[d][k].version
    <3>1. v \in 1 .. Len(history) /\ Spells(to_client[d][k].text, history[v])
      BY <1>1 DEF Whole
    <3>2. v \in 1 .. Len(history') /\ history'[v] = history[v]
      BY <1>6, <3>1, UnlockAppends
    <3> HIDE DEF v
    <3>3. Spells(to_client[d][k].text, history'[v])
      BY <3>1, <3>2, Zenon
    <3> QED
      BY <3>2, <3>3 DEF v
  <2> QED
    BY <2>1, <2>2 DEF FramesAreWhole
<1>7. ASSUME NEW c \in Clients, Receive(c) PROVE FramesAreWhole'
  <2>1. /\ to_client[c] \in Seq(Frames) /\ to_client[c] # <<>>
        /\ to_client' = [to_client EXCEPT ![c] = Tail(to_client[c])]
    BY <1>7 DEF Receive, TypeOK
  <2>2. ASSUME NEW k \in 1 .. Len(Tail(to_client[c]))
        PROVE  /\ k + 1 \in 1 .. Len(to_client[c])
               /\ Tail(to_client[c])[k] = to_client[c][k + 1]
    BY <2>1
  <2>3. ASSUME NEW d \in Clients, NEW k \in 1 .. Len(to_client'[d])
        PROVE  Whole(to_client'[d][k])
    <3>1. CASE d = c
      <4>1. to_client'[d] = Tail(to_client[c])
        BY <2>1, <3>1 DEF TypeOK
      <4> QED
        BY <1>1, <2>2, <4>1
    <3>2. CASE d # c
      <4>1. to_client'[d] = to_client[d]
        BY <2>1, <3>2 DEF TypeOK
      <4> QED
        BY <1>1, <4>1
    <3> QED
      BY <3>1, <3>2
  <2> QED
    BY <1>2, <1>7, <2>3 DEF Receive
<1>8. CASE Write
  <2> DEFINE frame == Frame(msg, version)
  <2>1. served \in Clients
    BY <1>8, ClientsAssumption DEF Write, TypeOK, LoopsInRange, Clients
  <2>2. frame \in Frames /\ Whole(frame)
    BY <1>8 DEF Write, EncodedSoFar, Frame, Frames, Whole, TypeOK
  <2>3. /\ to_client[served] \in Seq(Frames)
        /\ to_client' = [to_client EXCEPT ![served] = Append(@, frame)]
    BY <1>8, <2>1 DEF Write, WriteFrame, TypeOK
  <2> HIDE DEF frame
  <2>4. /\ Len(to_client[served]) \in Nat
        /\ Len(Append(to_client[served], frame)) = Len(to_client[served]) + 1
        /\ Append(to_client[served], frame)[Len(to_client[served]) + 1] = frame
        /\ \A k \in 1 .. Len(to_client[served]) :
             Append(to_client[served], frame)[k] = to_client[served][k]
    <3>1. Len(to_client[served]) \in Nat
      BY <2>3
    <3> QED
      BY <2>2, <2>3, <3>1, AppendFacts
  <2>5. ASSUME NEW d \in Clients, NEW k \in 1 .. Len(to_client'[d])
        PROVE  Whole(to_client'[d][k])
    <3>1. CASE d = served
      <4>1. to_client'[d] = Append(to_client[served], frame)
        BY <2>1, <2>3, <3>1 DEF TypeOK
      <4>2. k \in 1 .. Len(to_client[served]) \/ k = Len(to_client[served]) + 1
        BY <2>4, <4>1
      <4> QED
        BY <1>1, <2>1, <2>2, <2>4, <4>1, <4>2
    <3>2. CASE d # served
      <4>1. to_client'[d] = to_client[d]
        BY <2>3, <3>2 DEF TypeOK
      <4> QED
        BY <1>1, <4>1
    <3> QED
      BY <3>1, <3>2
  <2> QED
    BY <1>2, <1>8, <2>5 DEF Write, NextServed
<1>9. CASE \E c \in Clients : Listener(c) \/ Receive(c)
                                \/ \E l \in UserLines : Send(c, l)
  BY <1>3, <1>4, <1>6, <1>7, <1>9 DEF Listener
<1>10. CASE Accept \/ CreateListener \/ Broadcast \/ UNCHANGED vars
  BY <1>3, <1>5, <1>8, <1>10 DEF Broadcast
<1> QED
  BY <1>9, <1>10 DEF Next

(* Reading a frame does not change which frame is a client's newest.       *)
LEMMA ReceiveKeepsNewest ==
  ASSUME TypeOK, NEW c \in Clients, Receive(c), NEW d \in Clients
  PROVE  Newest(d)' = Newest(d)
<1> DEFINE pipe == to_client[c]
           v == Head(pipe).version
<1>1. /\ pipe \in Seq(Frames) /\ pipe # <<>>
      /\ received[c] \in Seq(Nat)
      /\ to_client' = [to_client EXCEPT ![c] = Tail(pipe)]
      /\ received' = [received EXCEPT ![c] = Append(received[c], v)]
  BY DEF Receive, TypeOK
<1>2. CASE d # c
  <2>1. to_client'[d] = to_client[d] /\ received'[d] = received[d]
    BY <1>1, <1>2 DEF TypeOK
  <2> QED
    BY <2>1 DEF Newest, LastReceived
<1>3. CASE d = c
  <2>1. to_client'[c] = Tail(pipe) /\ received'[c] = Append(received[c], v)
    BY <1>1 DEF TypeOK
  <2>2. Newest(c) = pipe[Len(pipe)].version
    BY <1>1 DEF Newest
  <2> HIDE DEF pipe
  <2>3. CASE Tail(pipe) # <<>>
    <3>1. Len(Tail(pipe)) + 1 = Len(pipe) /\ Len(pipe) \in Nat
      BY <1>1
    <3>2. Len(Tail(pipe)) \in 1 .. Len(Tail(pipe))
      <4>1. ASSUME NEW seq \in Seq(Frames), seq # <<>> PROVE Len(seq) >= 1
        BY <4>1
      <4>2. Tail(pipe) \in Seq(Frames)
        BY <1>1
      <4>3. Len(Tail(pipe)) >= 1
        BY <2>3, <4>1, <4>2
      <4> QED
        BY <3>1, <4>3
    <3>3. \A k \in 1 .. Len(Tail(pipe)) : Tail(pipe)[k] = pipe[k + 1]
      BY <1>1
    <3>4. Tail(pipe)[Len(Tail(pipe))] = pipe[Len(pipe)]
      BY <3>1, <3>2, <3>3
    <3> QED
      BY <1>3, <2>1, <2>2, <2>3, <3>4 DEF Newest
  <2>4. CASE Tail(pipe) = <<>>
    <3>1. Len(pipe) = 1 /\ Head(pipe) = pipe[1]
      <4>1. ASSUME NEW seq \in Seq(Frames), seq # <<>>
            PROVE  /\ Len(Tail(seq)) = Len(seq) - 1
                   /\ Head(seq) = seq[1]
        BY <4>1
      <4>2. Len(Tail(pipe)) = 0
        <5>1. Len(<<>>) = 0
          OBVIOUS
        <5> QED
          BY <2>4, <5>1, Zenon
      <4>3. Len(pipe) \in Nat
        BY <1>1
      <4> QED
        BY <1>1, <4>1, <4>2, <4>3
    <3>2. Head(pipe) \in Frames
      BY <1>1, <3>1
    <3>3. v \in Nat
      BY <3>2 DEF Frames
    <3> HIDE DEF v
    <3>4. /\ Append(received[c], v) # <<>>
          /\ Append(received[c], v)[Len(Append(received[c], v))] = v
      <4>1. /\ Append(received[c], v) # <<>>
            /\ Len(Append(received[c], v)) = Len(received[c]) + 1
            /\ Append(received[c], v)[Len(received[c]) + 1] = v
        <5>1. received[c] \in Seq(Nat)
          BY <1>1
        <5> QED
          BY <3>3, <5>1, AppendFacts
      <4> QED
        BY <4>1, Zenon
    <3>5. Newest(c)' = v
      BY <2>1, <2>4, <3>4 DEF Newest, LastReceived
    <3> QED
      BY <1>3, <2>2, <3>1, <3>5 DEF v
  <2> QED
    BY <2>3, <2>4
<1> QED
  BY <1>2, <1>3

(* Writing a frame makes it the newest of the client it is written for.    *)
LEMMA WriteMakesNewest ==
  ASSUME TypeOK, LoopsInRange, Write, NEW d \in Clients
  PROVE  Newest(d)' = IF d = served THEN version ELSE Newest(d)
<1> DEFINE frame == Frame(msg, version)
<1>1. served \in Clients
  BY ClientsAssumption DEF Write, TypeOK, LoopsInRange, Clients
<1>2. /\ to_client[served] \in Seq(Frames) /\ frame \in Frames
      /\ to_client' = [to_client EXCEPT
                         ![served] = Append(to_client[served], frame)]
      /\ received' = received
  BY <1>1 DEF Write, WriteFrame, NextServed, environment, TypeOK, Frame, Frames
<1>3. frame.version = version
  BY DEF Frame
<1> HIDE DEF frame
<1>4. CASE d = served
  <2>1. to_client'[d] = Append(to_client[served], frame)
    BY <1>2, <1>4 DEF TypeOK
  <2>2. to_client'[d] # <<>> /\ to_client'[d][Len(to_client'[d])] = frame
    BY <1>2, <2>1, AppendFacts
  <2> QED
    BY <1>3, <1>4, <2>2 DEF Newest
<1>5. CASE d # served
  <2>1. to_client'[d] = to_client[d]
    BY <1>2, <1>5 DEF TypeOK
  <2> QED
    BY <1>2, <1>5, <2>1 DEF Newest, LastReceived
<1> QED
  BY <1>4, <1>5

(* A broadcast is of the newest state or another one will follow.          *)
LEMMA NextBroadcast ==
  ASSUME TypeOK, LoopsInRange, ListenersStartInOrder, BroadcastIsNewest,
         [Next]_vars
  PROVE  BroadcastIsNewest'
<1> USE DEF main, listener, broadcaster, environment
<1>1. ASSUME UNCHANGED <<broadcaster_pc, served, version, history>>,
             \A d \in Clients : Newest(d)' = Newest(d),
             WillWakeAgain => WillWakeAgain'
      PROVE  BroadcastIsNewest'
  BY <1>1 DEF BroadcastIsNewest
<1>2. ASSUME UNCHANGED <<to_client, received>>
      PROVE  \A d \in Clients : Newest(d)' = Newest(d)
  BY <1>2 DEF Newest, LastReceived
<1>3. CASE Accept \/ UNCHANGED vars
  BY <1>1, <1>2, <1>3 DEF Accept, vars, WillWakeAgain
<1>4. CASE CreateListener
  <2>1. ASSUME NEW d \in Clients, listener_pc[d] = "post"
        PROVE  listener_pc'[d] = "post"
    <3>1. d # num_clients_connected
      BY <2>1 DEF ListenersStartInOrder, TypeOK, Clients
    <3> QED
      BY <1>4, <2>1, <3>1 DEF CreateListener, TypeOK
  <2>2. WillWakeAgain => WillWakeAgain'
    BY <1>4, <2>1 DEF CreateListener, WillWakeAgain
  <2> QED
    BY <1>1, <1>2, <1>4, <2>2 DEF CreateListener
<1>5. ASSUME NEW c \in Clients, NEW l \in UserLines, Send(c, l)
      PROVE  BroadcastIsNewest'
  BY <1>1, <1>2, <1>5 DEF Send, WillWakeAgain
<1>6. ASSUME NEW c \in Clients, Receive(c) PROVE BroadcastIsNewest'
  <2>1. \A d \in Clients : Newest(d)' = Newest(d)
    BY <1>6, ReceiveKeepsNewest
  <2> QED
    BY <1>1, <1>6, <2>1 DEF Receive, WillWakeAgain
<1>7. ASSUME NEW c \in Clients,
             \/ GetLine(c) \/ Lock(c) \/ DecodeRotate(c) \/ DecodeShuffle(c)
             \/ DecodeSolve(c) \/ ShuffleTurn(c) \/ CopyFace(c)
      PROVE  BroadcastIsNewest'
  <2>1. ASSUME NEW d \in Clients, listener_pc[d] = "post"
        PROVE  listener_pc'[d] = "post"
    BY <1>7, <2>1 DEF TypeOK, GetLine, Lock, DecodeRotate, DecodeShuffle,
       DecodeSolve, ShuffleTurn, CopyFace, WriteBack
  <2>2. UNCHANGED <<broadcast_message_ready, to_client, received,
                    broadcaster, history>>
    BY <1>7 DEF GetLine, Lock, DecodeRotate, DecodeShuffle, DecodeSolve,
                ShuffleTurn, CopyFace
  <2>3. WillWakeAgain => WillWakeAgain'
    BY <2>1, <2>2 DEF WillWakeAgain
  <2> QED
    BY <1>1, <1>2, <2>2, <2>3
<1>8. ASSUME NEW c \in Clients, Unlock(c) PROVE BroadcastIsNewest'
  <2>1. listener_pc'[c] = "post"
    BY <1>8 DEF Unlock, TypeOK
  <2>2. WillWakeAgain'
    BY <2>1 DEF WillWakeAgain
  <2>3. UNCHANGED <<to_client, received, broadcaster>>
    BY <1>8 DEF Unlock
  <2>4. \A d \in Clients : Newest(d)' = Newest(d)
    BY <1>2, <2>3
  <2> QED
    BY <2>2, <2>3, <2>4 DEF BroadcastIsNewest
<1>9. ASSUME NEW c \in Clients, Post(c) PROVE BroadcastIsNewest'
  <2>1. WillWakeAgain'
    BY <1>9 DEF Post, TypeOK, WillWakeAgain
  <2> QED
    BY <1>1, <1>2, <1>9, <2>1 DEF Post
<1>10. CASE SemWait
  BY <1>10 DEF SemWait, BroadcastIsNewest
<1>11. CASE BroadcasterLock
  BY <1>11 DEF BroadcasterLock, BroadcastIsNewest
<1>12. CASE Encode
  <2>1. UNCHANGED <<broadcast_message_ready, listener_pc, version, history>>
    BY <1>12 DEF Encode
  <2>2. /\ broadcaster_pc = "encode"
        /\ broadcaster_pc' \in {"encode", "unlock"}
    BY <1>12 DEF Encode
  <2> QED
    BY <2>1, <2>2 DEF BroadcastIsNewest, WillWakeAgain
<1>13. CASE BroadcasterUnlock
  <2>1. \A d \in Clients : ~ d < 0
    BY ClientsAssumption DEF Clients
  <2>2. UNCHANGED <<broadcast_message_ready, listener_pc, version, history>>
    BY <1>13 DEF BroadcasterUnlock
  <2>3. broadcaster_pc = "unlock" /\ broadcaster_pc' = "write" /\ served' = 0
    BY <1>13 DEF BroadcasterUnlock
  <2> QED
    BY <2>1, <2>2, <2>3 DEF BroadcastIsNewest, WillWakeAgain
<1>14. CASE Write
  <2>1. /\ UNCHANGED <<broadcast_message_ready, listener_pc, version, history>>
        /\ broadcaster_pc = "write" /\ served' = served + 1
        /\ broadcaster_pc' =
             IF served + 1 < N_CLIENTS THEN "write" ELSE "sem_wait"
    BY <1>14 DEF Write, NextServed
  <2>2. version = Len(history) \/ WillWakeAgain
    BY <2>1 DEF BroadcastIsNewest
  <2>3. WillWakeAgain <=> WillWakeAgain'
    BY <2>1 DEF WillWakeAgain
  <2>4. ASSUME NEW d \in Clients, d < served + 1
        PROVE  Newest(d)' = version
    <3>1. d < served \/ d = served
      BY <2>4, ClientsAssumption DEF TypeOK, Clients
    <3>2. d < served => Newest(d) = version
      BY <2>1 DEF BroadcastIsNewest
    <3> QED
      BY <1>14, <3>1, <3>2, WriteMakesNewest
  <2>5. CASE served + 1 < N_CLIENTS
    BY <2>1, <2>2, <2>3, <2>4, <2>5 DEF BroadcastIsNewest
  <2>6. CASE ~ served + 1 < N_CLIENTS
    <3>1. \A d \in Clients : d < served + 1
      BY <2>6, ClientsAssumption DEF TypeOK, Clients
    <3>2. \A d \in Clients : Newest(d)' = version
      BY <2>4, <3>1
    <3> QED
      BY <2>1, <2>2, <2>3, <2>6, <3>2 DEF BroadcastIsNewest
  <2> QED
    BY <2>5, <2>6
<1> QED
  BY <1>3, <1>4, <1>5, <1>6, <1>7, <1>8, <1>9, <1>10, <1>11, <1>12, <1>13,
     <1>14 DEF Next, Listener, Broadcast

(* The whole invariant is inductive.                                       *)
LEMMA NextInv == Inv /\ [Next]_vars => Inv'
BY NextTypeOK, NextLoops, NextListeners, NextMutex, NextCube, NextEncoded,
   NextFrames, NextBroadcast DEF Inv, FrameInv

(* So it holds throughout.                                                 *)
LEMMA Invariance == Spec => []Inv
BY InitInv, NextInv, PTL DEF Spec

(***************************************************************************)
(* Type correctness, for any number of client slots, any capacity of the   *)
(* pipes, any depths of shuffles and any number of commands: no turn, no   *)
(* face-by-face copy and no frame leaves the cube without a colour, and    *)
(* the broadcaster never writes into a full pipe.                          *)
(***************************************************************************)
THEOREM TypeCorrect == Spec => []TypeOK
<1>1. Inv => TypeOK
  BY DEF Inv, FrameInv
<1> QED
  BY <1>1, Invariance, PTL

(***************************************************************************)
(* No client ever reads a torn cube: the listeners write the cube face by  *)
(* face, the broadcaster encodes it face by face, and still every frame    *)
(* in every pipe is one line and a state between two commands.             *)
(***************************************************************************)
THEOREM FramesCorrect == Spec => []FramesAreWhole
<1>1. Inv => FramesAreWhole
  BY DEF Inv, FrameInv
<1> QED
  BY <1>1, Invariance, PTL

(***************************************************************************)
(* No wake-up of the broadcaster is lost: a state that is not the last     *)
(* frame of every client is about to be announced or being written.        *)
(***************************************************************************)
THEOREM AnnouncementCorrect == Spec => []NewestStateIsAnnounced
<1>1. Inv => NewestStateIsAnnounced
  BY DEF Inv, FrameInv, TypeOK, BroadcasterPcs, BroadcastIsNewest,
         WillWakeAgain, NewestStateIsAnnounced, WakeUpPending
<1> QED
  BY <1>1, Invariance, PTL

=============================================================================
