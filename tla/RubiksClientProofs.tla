------------------------- MODULE RubiksClientProofs -------------------------
(***************************************************************************)
(* For every size of the cube, every set of cubes the server may send and  *)
(* every number of keys: the client at rest shows the chosen face of the   *)
(* last cube it has received.                                              *)
(***************************************************************************)
EXTENDS RubiksClient, TLAPS

(* The initial states satisfy the inductive invariant: nothing is pending, *)
(* nothing is drawn, and the cube is the one make_cube returned.           *)
LEMMA InitInv == Init => Inv
<1> USE SizeAssumption, CubeAssumption, ValueAssumption, BoundAssumption
<1> SUFFICES ASSUME Init PROVE Inv
  OBVIOUS
<1>1. TypeOK
  <2>1. 0 \in Faces /\ 0 \in Squares
    BY DEF Faces, Squares
  <2>2. screen \in [Squares -> Colors \cup {Unpainted}]
    BY DEF Init
  <2>3. /\ from_server \in Seq(Cubes)
        /\ to_server \in Seq((Faces \cup {OutOfRange}) \X (0 .. 2))
    BY DEF Init
  <2> QED
    BY <2>1, <2>2, <2>3 DEF Init, TypeOK, CursesPcs, SocketPcs, ViewPcs, MainPcs
<1>2. Coherent
  BY DEF Init, Coherent, CursorsInRange, DecodedSoFar, DrawsTheChosenFace,
         NoStaleSquare
<1> QED
  BY <1>1, <1>2 DEF Inv

(* Every step keeps every variable to its type; that the view thread stops *)
(* drawing behind the last square takes the bound of its cursor.           *)
LEMMA NextTypeOK == TypeOK /\ CursorsInRange /\ [Next]_vars => TypeOK'
<1> USE SizeAssumption, CubeAssumption, ValueAssumption, BoundAssumption
<1> SUFFICES ASSUME TypeOK, CursorsInRange, [Next]_vars PROVE TypeOK'
  OBVIOUS
<1> USE DEF CursesPcs, SocketPcs, ViewPcs, MainPcs, curses, socket, view, main,
            server
<1>1. ASSUME NEW input \in {"a", "d", "space"}, SendKey(input) PROVE TypeOK'
  <2>1. keys' \in 0 .. MaxKeys
    BY <1>1 DEF SendKey, TypeOK, Key
  <2>2. encode_user_input(input, cube_face_id)
          \in (Faces \cup {OutOfRange}) \X (0 .. 2)
    BY DEF encode_user_input, TypeOK
  <2>3. to_server' \in Seq((Faces \cup {OutOfRange}) \X (0 .. 2))
    <3>1. \/ to_server' =
               Append(to_server, encode_user_input(input, cube_face_id))
          \/ to_server' = to_server
      BY <1>1 DEF SendKey
    <3>2. to_server \in Seq((Faces \cup {OutOfRange}) \X (0 .. 2))
      BY DEF TypeOK
    <3> HIDE DEF encode_user_input
    <3> QED
      BY <2>2, <3>1, <3>2
  <2> QED
    BY <1>1, <2>1, <2>3 DEF SendKey, TypeOK
<1>2. CASE LostKey
  <2>1. reset' \in BOOLEAN
    BY <1>2, Zenon DEF LostKey
  <2>2. main_pc' \in MainPcs /\ socket_file_status' = socket_file_status
    BY <1>2 DEF LostKey, TypeOK
  <2> QED
    BY <1>2, <2>1, <2>2 DEF LostKey, Key, TypeOK
<1>3. ASSUME NEW f \in Faces, FaceKey(f) PROVE TypeOK'
  BY <1>3 DEF FaceKey, TypeOK, Key
<1>4. CASE FacePost
  BY <1>4 DEF FacePost, TypeOK
<1>5. CASE QuitKey
  <2>1. keys' \in 0 .. MaxKeys
    BY <1>5 DEF QuitKey, TypeOK, Key
  <2>2. curses_pc' \in CursesPcs /\ curses_on' \in BOOLEAN
    BY <1>5 DEF QuitKey
  <2> QED
    BY <1>5, <2>1, <2>2 DEF QuitKey, TypeOK
<1>6. CASE GetLine
  <2>1. Head(from_server) \in Cubes /\ Tail(from_server) \in Seq(Cubes)
    BY <1>6 DEF GetLine, TypeOK
  <2>2. 0 \in Faces /\ 0 \in Squares
    BY DEF Faces, Squares
  <2> QED
    BY <1>6, <2>1, <2>2 DEF GetLine, TypeOK
<1>7. CASE EndOfFile
  BY <1>7 DEF EndOfFile, TypeOK
<1>8. CASE DecodeSquare
  BY <1>8 DEF DecodeSquare, TypeOK, Faces, Squares, Cubes
<1>9. CASE FramePost
  BY <1>9 DEF FramePost, TypeOK
<1>10. CASE SemWait
  BY <1>10 DEF SemWait, TypeOK
<1>11. CASE ReadFace
  BY <1>11 DEF ReadFace, TypeOK
<1>12. CASE DrawSquare
  <2>1. drawn' \in 0 .. N_SQUARES
    BY <1>12 DEF DrawSquare, TypeOK, CursorsInRange, Squares
  <2>2. screen' \in [Squares -> Colors \cup {Unpainted}]
    <3>1. CASE view_face \in Faces
      <4>1. screen' = [screen EXCEPT
              ![drawn] = cube_state_to_display[view_face][drawn]]
        BY <1>12, <3>1, Zenon DEF DrawSquare
      <4>2. drawn \in Squares =>
              cube_state_to_display[view_face][drawn] \in Colors
        BY <3>1 DEF TypeOK, Cubes
      <4> QED
        BY <4>1, <4>2 DEF TypeOK
    <3>2. CASE view_face \notin Faces
      <4>1. PICK c \in Colors : screen' = [screen EXCEPT ![drawn] = c]
        BY <1>12, <3>2, Zenon DEF DrawSquare
      <4> QED
        BY <4>1 DEF TypeOK
    <3> QED
      BY <3>1, <3>2
  <2>3. view_pc' \in ViewPcs
    <3>1. view_pc' = IF drawn + 1 < N_SQUARES THEN "draw" ELSE "sem_wait"
      BY <1>12, Zenon DEF DrawSquare
    <3> QED
      BY <3>1
  <2> QED
    BY <1>12, <2>1, <2>2, <2>3 DEF DrawSquare, TypeOK
<1>13. CASE DrawCrashes
  BY <1>13 DEF DrawCrashes, TypeOK
<1>14. CASE JoinCurses
  BY <1>14 DEF JoinCurses, TypeOK
<1>15. CASE JoinSocket
  BY <1>15 DEF JoinSocket, TypeOK
<1>16. CASE RunCubeAgain
  BY <1>16 DEF RunCubeAgain, TypeOK
<1>17. CASE ErrorAndExit
  BY <1>17 DEF ErrorAndExit, TypeOK
<1>18. ASSUME NEW cube \in CubesSent, ServerSends(cube) PROVE TypeOK'
  BY <1>18 DEF ServerSends, TypeOK
<1>19. CASE ServerCloses
  BY <1>19 DEF ServerCloses, TypeOK
<1>20. CASE UNCHANGED vars
  BY <1>20 DEF vars, TypeOK
<1>21. CASE OpenSocket
  BY <1>21 DEF OpenSocket, TypeOK
<1>22. CASE OpenFails
  BY <1>22 DEF OpenFails, TypeOK
<1> QED
  BY <1>1, <1>2, <1>3, <1>4, <1>5, <1>6, <1>7, <1>8, <1>9, <1>10,
     <1>11, <1>12, <1>13, <1>14, <1>15, <1>16, <1>17, <1>18, <1>19, <1>20,
     <1>21, <1>22
     DEF Next, CursesThread, SocketThread, ViewThread, MainThread

(* Every step preserves the inductive invariant. *)
LEMMA NextInv == Inv /\ [Next]_vars => Inv'
<1> USE SizeAssumption
<1> SUFFICES ASSUME Inv, [Next]_vars
             PROVE  Coherent'
  BY NextTypeOK DEF Inv, Coherent
<1>0. TypeOK /\ Coherent
  BY DEF Inv
<1> USE <1>0 DEF Coherent, CursorsInRange, DecodedSoFar, DrawsTheChosenFace,
                 NoStaleSquare, RedrawPending, curses, socket, view, main,
                 server
<1>1. ASSUME NEW input \in {"a", "d", "space"}, SendKey(input) PROVE Coherent'
  BY <1>1 DEF SendKey
<1>2. CASE LostKey
  BY <1>2 DEF LostKey
<1>3. ASSUME NEW f \in Faces, FaceKey(f) PROVE Coherent'
  BY <1>3 DEF FaceKey
<1>4. CASE FacePost
  <2>1. CursorsInRange'
    BY <1>4 DEF FacePost
  <2>2. DecodedSoFar'
    BY <1>4 DEF FacePost
  <2>3. DrawsTheChosenFace'
    BY <1>4 DEF FacePost, TypeOK
  <2>4. NoStaleSquare'
    BY <1>4 DEF FacePost, TypeOK
  <2> QED
    BY <2>1, <2>2, <2>3, <2>4
<1>5. CASE QuitKey
  <2>1. UNCHANGED <<cube_face_id, socket, view, cube_state_to_display,
                    update_view_semaphore, notified>>
    BY <1>5 DEF QuitKey
  <2>2. curses_pc # "post"
    BY <1>5 DEF QuitKey, Key
  <2> QED
    BY <2>1, <2>2
<1>6. CASE GetLine
  <2>1. CursorsInRange'
    BY <1>6 DEF GetLine
  <2>2. DecodedSoFar'
    BY <1>6 DEF GetLine, TypeOK, Faces, Squares
  <2>3. DrawsTheChosenFace'
    BY <1>6 DEF GetLine
  <2>4. NoStaleSquare'
    BY <1>6 DEF GetLine
  <2> QED
    BY <2>1, <2>2, <2>3, <2>4
<1>7. CASE EndOfFile
  BY <1>7 DEF EndOfFile
<1>8. CASE DecodeSquare
  <2>1. CursorsInRange'
    BY <1>8 DEF DecodeSquare
  <2>2. DecodedSoFar'
    <3>1. \A f \in Faces, s \in Squares :
            \/ f < decode_i
            \/ f = decode_i /\ s < decode_j
            \/ f = decode_i /\ s = decode_j
            => cube_state_to_display'[f][s] = line[f][s]
      BY <1>8 DEF DecodeSquare, TypeOK, Faces, Squares, Cubes
    <3>2. CASE decode_j + 1 < N_SQUARES
      <4>1. /\ socket_pc' = "decode" /\ line' = line
            /\ decode_i' = decode_i /\ decode_j' = decode_j + 1
        BY <1>8, <3>2 DEF DecodeSquare
      <4>2. ASSUME NEW f \in Faces, NEW s \in Squares,
                   f < decode_i' \/ (f = decode_i' /\ s < decode_j')
            PROVE  cube_state_to_display'[f][s] = line'[f][s]
        <5>1. s < decode_j + 1 => s < decode_j \/ s = decode_j
          BY DEF TypeOK, Squares
        <5> QED
          BY <3>1, <4>1, <4>2, <5>1
      <4> QED
        BY <4>1, <4>2
    <3>3. CASE ~(decode_j + 1 < N_SQUARES) /\ decode_i + 1 < N_FACES
      <4>1. /\ socket_pc' = "decode" /\ line' = line
            /\ decode_i' = decode_i + 1 /\ decode_j' = 0
        BY <1>8, <3>3 DEF DecodeSquare
      <4>2. ASSUME NEW f \in Faces, NEW s \in Squares,
                   f < decode_i' \/ (f = decode_i' /\ s < decode_j')
            PROVE  cube_state_to_display'[f][s] = line'[f][s]
        <5>1. f < decode_i \/ f = decode_i
          BY <4>1, <4>2 DEF TypeOK, Faces, Squares
        <5>2. s < decode_j \/ s = decode_j
          BY <3>3 DEF TypeOK, Squares
        <5> QED
          BY <3>1, <4>1, <5>1, <5>2
      <4> QED
        BY <4>1, <4>2
    <3>4. CASE ~(decode_j + 1 < N_SQUARES) /\ ~(decode_i + 1 < N_FACES)
      <4>1. \A f \in Faces, s \in Squares :
              cube_state_to_display'[f][s] = line[f][s]
        BY <3>1, <3>4 DEF TypeOK, Faces, Squares
      <4>2. cube_state_to_display' = line
        BY <1>8, <4>1, NextTypeOK DEF TypeOK, Cubes
      <4> QED
        BY <1>8, <3>4, <4>2 DEF DecodeSquare
    <3> QED
      BY <3>2, <3>3, <3>4
  <2>3. DrawsTheChosenFace'
    BY <1>8 DEF DecodeSquare
  <2>4. NoStaleSquare'
    BY <1>8 DEF DecodeSquare
  <2> QED
    BY <2>1, <2>2, <2>3, <2>4
<1>9. CASE FramePost
  <2>1. CursorsInRange'
    BY <1>9 DEF FramePost
  <2>2. DecodedSoFar'
    BY <1>9 DEF FramePost
  <2>3. DrawsTheChosenFace'
    BY <1>9 DEF FramePost, TypeOK
  <2>4. NoStaleSquare'
    BY <1>9 DEF FramePost, TypeOK
  <2> QED
    BY <2>1, <2>2, <2>3, <2>4
<1>10. CASE SemWait
  BY <1>10 DEF SemWait
<1>11. CASE ReadFace
  <2>1. CursorsInRange'
    BY <1>11 DEF ReadFace, TypeOK, Squares
  <2>2. DecodedSoFar'
    BY <1>11 DEF ReadFace
  <2>3. DrawsTheChosenFace'
    BY <1>11 DEF ReadFace
  <2>4. NoStaleSquare'
    BY <1>11 DEF ReadFace, TypeOK, Squares
  <2> QED
    BY <2>1, <2>2, <2>3, <2>4
<1>12. CASE DrawSquare
  <2>1. CursorsInRange'
    BY <1>12 DEF DrawSquare, TypeOK, Squares
  <2>2. DecodedSoFar'
    BY <1>12 DEF DrawSquare
  <2>3. DrawsTheChosenFace'
    BY <1>12 DEF DrawSquare
  <2>4. NoStaleSquare'
    <3> SUFFICES ASSUME notified', cube_face_id' \in Faces, ~RedrawPending',
                        NEW s \in Squares
                 PROVE  \/ screen'[s] = cube_state_to_display'[cube_face_id'][s]
                        \/ view_pc' = "draw" /\ drawn' <= s
      OBVIOUS
    <3>1. UNCHANGED <<cube_face_id, cube_state_to_display, notified,
                      update_view_semaphore, curses_pc, socket_pc>>
      BY <1>12 DEF DrawSquare
    <3>2. view_pc = "draw" /\ drawn \in Squares /\ drawn' = drawn + 1
      BY <1>12 DEF DrawSquare
    <3>3. view_face = cube_face_id /\ ~RedrawPending
      BY <3>1, <3>2
    <3>4. screen' = [screen EXCEPT
            ![drawn] = cube_state_to_display[cube_face_id][drawn]]
      BY <1>12, <3>1, <3>3, Zenon DEF DrawSquare
    <3>5. CASE s = drawn
      BY <3>1, <3>4, <3>5 DEF TypeOK
    <3>6. CASE s < drawn
      BY <3>1, <3>3, <3>4, <3>6 DEF TypeOK, Squares
    <3>7. CASE s > drawn
      <4>1. view_pc' = "draw"
        <5>1. view_pc' = IF drawn + 1 < N_SQUARES THEN "draw" ELSE "sem_wait"
          BY <1>12, Zenon DEF DrawSquare
        <5> QED
          BY <3>2, <3>7, <5>1 DEF Squares
      <4> QED
        BY <3>2, <3>7, <4>1 DEF Squares
    <3> QED
      BY <3>2, <3>5, <3>6, <3>7 DEF Squares
  <2> QED
    BY <2>1, <2>2, <2>3, <2>4
<1>13. CASE DrawCrashes
  BY <1>13 DEF DrawCrashes
<1>14. CASE JoinCurses
  BY <1>14 DEF JoinCurses
<1>15. CASE JoinSocket
  BY <1>15 DEF JoinSocket
<1>16. CASE RunCubeAgain
  BY <1>16 DEF RunCubeAgain
<1>17. CASE ErrorAndExit
  BY <1>17 DEF ErrorAndExit
<1>18. ASSUME NEW cube \in CubesSent, ServerSends(cube) PROVE Coherent'
  BY <1>18 DEF ServerSends
<1>19. CASE ServerCloses
  BY <1>19 DEF ServerCloses
<1>20. CASE UNCHANGED vars
  BY <1>20 DEF vars
<1>21. CASE OpenSocket
  BY <1>21 DEF OpenSocket
<1>22. CASE OpenFails
  BY <1>22 DEF OpenFails
<1> QED
  BY <1>1, <1>2, <1>3, <1>4, <1>5, <1>6, <1>7, <1>8, <1>9, <1>10,
     <1>11, <1>12, <1>13, <1>14, <1>15, <1>16, <1>17, <1>18, <1>19, <1>20,
     <1>21, <1>22
     DEF Next, CursesThread, SocketThread, ViewThread, MainThread

(* At rest no redraw is pending and nothing is being drawn, so no square   *)
(* of the screen is stale and no part of the cube is half decoded.         *)
LEMMA InvImpliesQuiescentScreen == Inv => QuiescentScreen
<1> SUFFICES ASSUME Inv, Quiescent, notified, cube_face_id \in Faces
             PROVE  screen = last_cube[cube_face_id]
  BY DEF QuiescentScreen
<1>1. cube_state_to_display = last_cube
  BY DEF Inv, Coherent, DecodedSoFar, Quiescent
<1>2. \A s \in Squares : screen[s] = last_cube[cube_face_id][s]
  BY <1>1 DEF Inv, Coherent, NoStaleSquare, RedrawPending, Quiescent
<1>3. /\ screen \in [Squares -> Colors \cup {Unpainted}]
      /\ last_cube[cube_face_id] \in [Squares -> Colors]
  BY DEF Inv, TypeOK, Cubes
<1> QED
  BY <1>2, <1>3

(* The invariant holds in every reachable state.                           *)
LEMMA Invariance == Spec => []Inv
<1>1. Init => Inv
  BY InitInv
<1>2. Inv /\ [Next]_vars => Inv'
  BY NextInv
<1> QED
  BY <1>1, <1>2, PTL DEF Spec

(* The types of the client's variables: every action of the three threads, *)
(* of main and of the server keeps to them.                                *)
THEOREM TypeCorrect == Spec => []TypeOK
<1>1. Inv => TypeOK
  BY DEF Inv
<1> QED
  BY <1>1, Invariance, PTL

(* update_curses_with_cube_state and decode run without a lock, yet a      *)
(* client at rest shows the chosen face of the last cube it has received.  *)
THEOREM ScreenCorrect == Spec => []QuiescentScreen
<1>1. Inv => QuiescentScreen
  BY InvImpliesQuiescentScreen
<1> QED
  BY <1>1, Invariance, PTL

=============================================================================
