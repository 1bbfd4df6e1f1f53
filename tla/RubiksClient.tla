---------------------------- MODULE RubiksClient ----------------------------
(***************************************************************************)
(* The client process of src/server/run_client.c and rubiks_client.c.      *)
(*                                                                         *)
(* Three threads share the struct client_thread_args: the curses thread    *)
(* reads keys, the socket thread decodes the cubes that the server sends   *)
(* into cube_state_to_display, and the view thread waits on the semaphore  *)
(* update_view_semaphore and redraws the chosen face.  There is no lock:   *)
(* decoding and drawing go square by square and interleave.  The main      *)
(* thread joins the first two.                                             *)
(*                                                                         *)
(* The client only copies colours, so the number of faces and of squares   *)
(* is a parameter here.  The server is the environment: it sends cubes,    *)
(* and may close the connection.                                           *)
(***************************************************************************)
EXTENDS Integers, Sequences

CONSTANTS
  N_FACES, N_SQUARES,  \* faces of the cube, squares of a face
  Colors,
  InitialCube,         \* what make_cube returns
  CubesSent,           \* bound: the cubes the server sends
  OutOfRange,          \* an int that is no face
  Unpainted,           \* a square of the screen nobody has drawn
  MaxKeys,             \* bound: keys pressed
  MaxFrames            \* bound: cubes sent

Faces == 0 .. N_FACES - 1
Squares == 0 .. N_SQUARES - 1
Cubes == [Faces -> [Squares -> Colors]]

ASSUME SizeAssumption == N_FACES \in Nat \ {0} /\ N_SQUARES \in Nat \ {0}
ASSUME CubeAssumption == InitialCube \in Cubes /\ CubesSent \subseteq Cubes
ASSUME ValueAssumption == OutOfRange \notin Faces /\ Unpainted \notin Colors
ASSUME BoundAssumption == MaxKeys \in Nat /\ MaxFrames \in Nat

VARIABLES
  cube_face_id,            \* *cube_face_id_ptr
  cube_state_to_display,
  update_view_semaphore,   \* its value
  curses_pc,               \* the curses thread
  socket_pc,               \* the socket thread
  line,                    \* the cube in its line buffer
  decode_i, decode_j,      \* the face and the square it decodes next
  view_pc,                 \* the view thread
  view_face,               \* the argument cube_face_id it draws with
  drawn,                   \* squares it has drawn
  screen,                  \* what is on the terminal
  curses_on,               \* the terminal is in curses mode
  main_pc,                 \* the main thread, and the fate of the process
  socket_file_status,      \* what run_cube returned last
  from_server,             \* the socket, incoming
  server_closed,           \* the server has closed the connection
  reset,                   \* and has answered a write with a reset
  to_server,               \* the socket, outgoing
  keys, frames,            \* keys pressed, cubes sent
  last_cube,               \* ghost: the last cube decoded completely
  notified                 \* ghost: there has been something to show

curses == <<cube_face_id, curses_pc, to_server, reset, keys>>
socket == <<socket_pc, line, decode_i, decode_j, last_cube>>
view == <<view_pc, view_face, drawn, screen>>
main == <<main_pc, socket_file_status>>
server == <<server_closed, frames>>
vars == <<curses, socket, view, main, server, cube_state_to_display,
          update_view_semaphore, curses_on, from_server, notified>>

Alive == main_pc \notin {"crashed", "killed", "error_exit"}

\* malloc leaves anything at all in *cube_face_id_ptr.
Init ==
  /\ cube_face_id \in Faces \cup {OutOfRange}
  /\ cube_state_to_display = InitialCube
  /\ update_view_semaphore = 0
  /\ curses_pc = "fdopen"
  /\ socket_pc = "getline"
  /\ line = InitialCube
  /\ decode_i = 0
  /\ decode_j = 0
  /\ view_pc = "sem_wait"
  /\ view_face = OutOfRange
  /\ drawn = 0
  /\ screen = [s \in Squares |-> Unpainted]
  /\ curses_on = TRUE
  /\ main_pc = "join_curses"
  /\ socket_file_status = 0
  /\ from_server = <<>>
  /\ server_closed = FALSE
  /\ reset = FALSE
  /\ to_server = <<>>
  /\ keys = 0
  /\ frames = 0
  /\ last_cube = InitialCube
  /\ notified = FALSE

-----------------------------------------------------------------------------
(* The curses thread. *)

OpenSocket ==
  /\ Alive
  /\ curses_pc = "fdopen"
  /\ socket_pc # "done"
  /\ curses_pc' = "getch"
  /\ UNCHANGED <<cube_face_id, to_server, reset, keys, socket, view, main,
                 server, cube_state_to_display, update_view_semaphore,
                 curses_on, from_server, notified>>

\* The socket thread has met the end of the file and closed the descriptor
\* before this thread could open it: error_and_exit.
OpenFails ==
  /\ Alive
  /\ curses_pc = "fdopen"
  /\ socket_pc = "done"
  /\ main_pc' = "error_exit"
  /\ UNCHANGED <<curses, socket, view, socket_file_status, server,
                 cube_state_to_display, update_view_semaphore, curses_on,
                 from_server, notified>>

\* Seeded bug: the switch has no default case.
NoDefault_Encodes(face_num) == TRUE

\* Whether encode_user_input returns 0, and the face and direction it encodes.
Encodes(face_num) == face_num \in Faces

encode_user_input(input, face_num) ==
  <<face_num, IF input = "a" THEN 1 ELSE IF input = "d" THEN 0 ELSE 2>>

Key ==
  /\ Alive
  /\ curses_pc = "getch"
  /\ keys < MaxKeys
  /\ keys' = keys + 1

\* A command, while the connection stands.
SendKey(input) ==
  /\ Key
  /\ ~server_closed
  /\ IF Encodes(cube_face_id)
     THEN to_server' =
            Append(to_server, encode_user_input(input, cube_face_id))
     ELSE UNCHANGED to_server
  /\ UNCHANGED <<cube_face_id, curses_pc, reset, socket, view, main, server,
                 cube_state_to_display, update_view_semaphore, curses_on,
                 from_server, notified>>

\* A command after that is lost: the descriptor is closed (fputs fails and
\* nobody looks), or the peer answers with a reset, or SIGPIPE ends the client.
LostKey ==
  LET writes == Encodes(cube_face_id) /\ socket_pc # "done"
  IN  /\ Key
      /\ server_closed
      /\ reset' = (reset \/ writes)
      /\ \/ UNCHANGED main
         \/ /\ reset /\ writes
            /\ main_pc' = "killed"
            /\ UNCHANGED socket_file_status
      /\ UNCHANGED <<cube_face_id, curses_pc, to_server, socket, view, server,
                     cube_state_to_display, update_view_semaphore, curses_on,
                     from_server, notified>>

FaceKey(f) ==
  /\ Key
  /\ cube_face_id' = f
  /\ curses_pc' = "post"
  /\ notified' = TRUE
  /\ UNCHANGED <<to_server, reset, socket, view, main, server,
                 cube_state_to_display, update_view_semaphore, curses_on,
                 from_server>>

FacePost ==
  /\ Alive
  /\ curses_pc = "post"
  /\ update_view_semaphore' = update_view_semaphore + 1
  /\ curses_pc' = "getch"
  /\ UNCHANGED <<cube_face_id, to_server, reset, keys, socket, view, main,
                 server, cube_state_to_display, curses_on, from_server,
                 notified>>

\* 'q' leaves the loop; the thread closes the window and ends.
QuitKey ==
  /\ Key
  /\ curses_on' = FALSE
  /\ curses_pc' = "done"
  /\ UNCHANGED <<cube_face_id, to_server, reset, socket, view, main, server,
                 cube_state_to_display, update_view_semaphore, from_server,
                 notified>>

-----------------------------------------------------------------------------
(* The socket thread. *)

GetLine ==
  /\ Alive
  /\ socket_pc = "getline"
  /\ from_server # <<>>
  /\ line' = Head(from_server)
  /\ from_server' = Tail(from_server)
  /\ decode_i' = 0
  /\ decode_j' = 0
  /\ socket_pc' = "decode"
  /\ notified' = TRUE
  /\ UNCHANGED <<curses, last_cube, view, main, server, cube_state_to_display,
                 update_view_semaphore, curses_on>>

\* Seeded bug: the thread calls getline again and again.
Ignored_EndOfFile ==
  /\ Alive
  /\ socket_pc = "getline"
  /\ from_server = <<>>
  /\ server_closed
  /\ UNCHANGED vars

\* getline returns -1: the thread closes the socket and ends.
EndOfFile ==
  /\ Alive
  /\ socket_pc = "getline"
  /\ from_server = <<>>
  /\ server_closed
  /\ socket_pc' = "done"
  /\ UNCHANGED <<curses, line, decode_i, decode_j, last_cube, view, main,
                 server, cube_state_to_display, update_view_semaphore,
                 curses_on, from_server, notified>>

\* Seeded bug: the inner loop goes one square too far.
OneTooMany_DecodeSquare ==
  /\ Alive
  /\ socket_pc = "decode"
  /\ cube_state_to_display' = [cube_state_to_display EXCEPT
       ![decode_i][decode_j] = line[decode_i][decode_j]]
  /\ IF decode_j + 1 <= N_SQUARES
     THEN /\ decode_j' = decode_j + 1
          /\ UNCHANGED <<decode_i, socket_pc, last_cube>>
     ELSE IF decode_i + 1 < N_FACES
     THEN /\ decode_i' = decode_i + 1
          /\ decode_j' = 0
          /\ UNCHANGED <<socket_pc, last_cube>>
     ELSE /\ socket_pc' = "post"
          /\ last_cube' = line
          /\ UNCHANGED <<decode_i, decode_j>>
  /\ UNCHANGED <<curses, line, view, main, server, update_view_semaphore,
                 curses_on, from_server, notified>>

\* One round of the inner loop of decode, with the step of both loops.
DecodeSquare ==
  /\ Alive
  /\ socket_pc = "decode"
  /\ cube_state_to_display' = [cube_state_to_display EXCEPT
       ![decode_i][decode_j] = line[decode_i][decode_j]]
  /\ IF decode_j + 1 < N_SQUARES
     THEN /\ decode_j' = decode_j + 1
          /\ UNCHANGED <<decode_i, socket_pc, last_cube>>
     ELSE IF decode_i + 1 < N_FACES
     THEN /\ decode_i' = decode_i + 1
          /\ decode_j' = 0
          /\ UNCHANGED <<socket_pc, last_cube>>
     ELSE /\ socket_pc' = "post"
          /\ last_cube' = line
          /\ UNCHANGED <<decode_i, decode_j>>
  /\ UNCHANGED <<curses, line, view, main, server, update_view_semaphore,
                 curses_on, from_server, notified>>

\* Seeded bug: the semaphore is not posted.
Silent_FramePost ==
  /\ Alive
  /\ socket_pc = "post"
  /\ socket_pc' = "getline"
  /\ UNCHANGED <<curses, line, decode_i, decode_j, last_cube, view, main,
                 server, cube_state_to_display, update_view_semaphore,
                 curses_on, from_server, notified>>

FramePost ==
  /\ Alive
  /\ socket_pc = "post"
  /\ update_view_semaphore' = update_view_semaphore + 1
  /\ socket_pc' = "getline"
  /\ UNCHANGED <<curses, line, decode_i, decode_j, last_cube, view, main,
                 server, cube_state_to_display, curses_on, from_server,
                 notified>>

-----------------------------------------------------------------------------
(* The view thread. *)

SemWait ==
  /\ Alive
  /\ view_pc = "sem_wait"
  /\ update_view_semaphore > 0
  /\ update_view_semaphore' = update_view_semaphore - 1
  /\ view_pc' = "read_face"
  /\ UNCHANGED <<curses, socket, view_face, drawn, screen, main, server,
                 cube_state_to_display, curses_on, from_server, notified>>

\* Seeded bug: the face is read once and then kept.
Cached_ReadFace ==
  /\ Alive
  /\ view_pc = "read_face"
  /\ view_face' = IF view_face \in Faces THEN view_face ELSE cube_face_id
  /\ drawn' = 0
  /\ view_pc' = "draw"
  /\ UNCHANGED <<curses, socket, screen, main, server, cube_state_to_display,
                 update_view_semaphore, curses_on, from_server, notified>>

ReadFace ==
  /\ Alive
  /\ view_pc = "read_face"
  /\ view_face' = cube_face_id
  /\ drawn' = 0
  /\ view_pc' = "draw"
  /\ UNCHANGED <<curses, socket, screen, main, server, cube_state_to_display,
                 update_view_semaphore, curses_on, from_server, notified>>

\* One square of update_curses_with_cube_state, with the refresh that also
\* brings a terminal back that endwin has left.
DrawSquare ==
  /\ Alive
  /\ view_pc = "draw"
  /\ \/ /\ view_face \in Faces
        /\ screen' = [screen EXCEPT
             ![drawn] = cube_state_to_display[view_face][drawn]]
     \/ /\ view_face \notin Faces  \* whatever is in memory there
        /\ \E color \in Colors : screen' = [screen EXCEPT ![drawn] = color]
  /\ curses_on' = TRUE
  /\ drawn' = drawn + 1
  /\ view_pc' = IF drawn + 1 < N_SQUARES THEN "draw" ELSE "sem_wait"
  /\ UNCHANGED <<curses, socket, view_face, main, server,
                 cube_state_to_display, update_view_semaphore, from_server,
                 notified>>

\* faces[cube_face_id] is read outside of the array, and is no pointer.
DrawCrashes ==
  /\ Alive
  /\ view_pc = "draw"
  /\ view_face \notin Faces
  /\ main_pc' = "crashed"
  /\ UNCHANGED <<curses, socket, view, socket_file_status, server,
                 cube_state_to_display, update_view_semaphore, curses_on,
                 from_server, notified>>

-----------------------------------------------------------------------------
(* The main thread: run_cube from the joins on, and main's loop around it. *)

JoinCurses ==
  /\ main_pc = "join_curses"
  /\ curses_pc = "done"
  /\ main_pc' = "join_socket"
  /\ UNCHANGED <<curses, socket, view, socket_file_status, server,
                 cube_state_to_display, update_view_semaphore, curses_on,
                 from_server, notified>>

\* run_cube returns 0, whatever happened.
JoinSocket ==
  /\ main_pc = "join_socket"
  /\ socket_pc = "done"
  /\ main_pc' = "returned"
  /\ socket_file_status' = 0
  /\ UNCHANGED <<curses, socket, view, server, cube_state_to_display,
                 update_view_semaphore, curses_on, from_server, notified>>

\* The loop of main: run_cube starts curses and threads again.  What follows
\* the loop is never reached, because the status is never -1.
RunCubeAgain ==
  /\ main_pc = "returned"
  /\ socket_file_status # -1
  /\ curses_on' = TRUE
  /\ main_pc' = "run_cube_again"
  /\ UNCHANGED <<curses, socket, view, socket_file_status, server,
                 cube_state_to_display, update_view_semaphore, from_server,
                 notified>>

\* The new threads cannot open the socket, which is closed by now.
ErrorAndExit ==
  /\ main_pc = "run_cube_again"
  /\ main_pc' = "error_exit"
  /\ UNCHANGED <<curses, socket, view, socket_file_status, server,
                 cube_state_to_display, update_view_semaphore, curses_on,
                 from_server, notified>>

-----------------------------------------------------------------------------
(* The server, at the other end of the socket. *)

ServerSends(cube) ==
  /\ ~server_closed
  /\ frames < MaxFrames
  /\ from_server' = Append(from_server, cube)
  /\ frames' = frames + 1
  /\ UNCHANGED <<curses, socket, view, main, server_closed,
                 cube_state_to_display, update_view_semaphore, curses_on,
                 notified>>

ServerCloses ==
  /\ ~server_closed
  /\ server_closed' = TRUE
  /\ UNCHANGED <<curses, socket, view, main, frames, cube_state_to_display,
                 update_view_semaphore, curses_on, from_server, notified>>

-----------------------------------------------------------------------------
CursesThread ==
  \/ OpenSocket \/ OpenFails
  \/ \E input \in {"a", "d", "space"} : SendKey(input)
  \/ LostKey
  \/ \E f \in Faces : FaceKey(f)
  \/ FacePost
  \/ QuitKey

SocketThread == GetLine \/ EndOfFile \/ DecodeSquare \/ FramePost

ViewThread == SemWait \/ ReadFace \/ DrawSquare \/ DrawCrashes

MainThread == JoinCurses \/ JoinSocket \/ RunCubeAgain \/ ErrorAndExit

Next ==
  \/ CursesThread
  \/ SocketThread
  \/ ViewThread
  \/ MainThread
  \/ \E cube \in CubesSent : ServerSends(cube)
  \/ ServerCloses

Spec == Init /\ [][Next]_vars

-----------------------------------------------------------------------------
(* Properties. *)

CursesPcs == {"fdopen", "getch", "post", "done"}
SocketPcs == {"getline", "decode", "post", "done"}
ViewPcs == {"sem_wait", "read_face", "draw"}
MainPcs == {"join_curses", "join_socket", "returned", "run_cube_again",
            "error_exit", "crashed", "killed"}

(* Every variable keeps to its type. *)
TypeOK ==
  /\ cube_face_id \in Faces \cup {OutOfRange}
  /\ cube_state_to_display \in Cubes
  /\ update_view_semaphore \in Nat
  /\ curses_pc \in CursesPcs
  /\ socket_pc \in SocketPcs
  /\ line \in Cubes
  /\ decode_i \in Faces
  /\ decode_j \in Squares
  /\ view_pc \in ViewPcs
  /\ view_face \in Faces \cup {OutOfRange}
  /\ drawn \in 0 .. N_SQUARES
  /\ screen \in [Squares -> Colors \cup {Unpainted}]
  /\ curses_on \in BOOLEAN
  /\ main_pc \in MainPcs
  /\ socket_file_status \in {0, -1}
  /\ from_server \in Seq(Cubes)
  /\ server_closed \in BOOLEAN
  /\ reset \in BOOLEAN
  /\ to_server \in Seq((Faces \cup {OutOfRange}) \X (0 .. 2))
  /\ keys \in 0 .. MaxKeys
  /\ frames \in 0 .. MaxFrames
  /\ last_cube \in Cubes
  /\ notified \in BOOLEAN

\* No thread is in the middle of anything.
Quiescent ==
  /\ update_view_semaphore = 0
  /\ curses_pc # "post"
  /\ socket_pc \in {"getline", "done"}
  /\ view_pc = "sem_wait"

(***************************************************************************)
(* When the client has come to rest, the terminal shows the chosen face of *)
(* the last cube the server sent.  Drawing and decoding interleave square  *)
(* by square without a lock, so the screen may well be torn on the way;    *)
(* the post after every change is what repairs it.                         *)
(***************************************************************************)
QuiescentScreen ==
  Quiescent /\ notified /\ cube_face_id \in Faces =>
    screen = last_cube[cube_face_id]

\* A redraw is certain to begin later than now.
RedrawPending ==
  \/ update_view_semaphore > 0
  \/ curses_pc = "post"
  \/ socket_pc \in {"decode", "post"}
  \/ view_pc = "read_face"

(***************************************************************************)
(* Why QuiescentScreen holds, as an inductive invariant.  The cursors stay *)
(* inside the loops.  The squares in front of the decoder's cursor are     *)
(* those of the line, and outside of decode the cube is the last one       *)
(* received.  The view thread draws a face that is no longer the chosen    *)
(* one only if a redraw is pending for the choice.  A square of the screen *)
(* is right unless a redraw is pending or the view thread has yet to reach *)
(* that square.                                                            *)
(***************************************************************************)
CursorsInRange == view_pc = "draw" => drawn \in Squares

DecodedSoFar ==
  IF socket_pc = "decode"
  THEN \A f \in Faces, s \in Squares :
         (f < decode_i \/ (f = decode_i /\ s < decode_j)) =>
           cube_state_to_display[f][s] = line[f][s]
  ELSE cube_state_to_display = last_cube

DrawsTheChosenFace ==
  view_pc = "draw" /\ view_face # cube_face_id =>
    update_view_semaphore > 0 \/ curses_pc = "post"

NoStaleSquare ==
  notified /\ cube_face_id \in Faces /\ ~RedrawPending =>
    \A s \in Squares :
      \/ screen[s] = cube_state_to_display[cube_face_id][s]
      \/ view_pc = "draw" /\ drawn <= s

Coherent ==
  /\ CursorsInRange
  /\ DecodedSoFar
  /\ DrawsTheChosenFace
  /\ NoStaleSquare

Inv == TypeOK /\ Coherent

-----------------------------------------------------------------------------
(***************************************************************************)
(* Progress: the threads run as long as they can, the user and the server  *)
(* do as they please.                                                      *)
(***************************************************************************)
Fairness ==
  /\ WF_vars(OpenSocket \/ OpenFails)
  /\ WF_vars(FacePost)
  /\ WF_vars(SocketThread)
  /\ WF_vars(ViewThread)
  /\ WF_vars(MainThread)

FairSpec == Spec /\ Fairness

\* The newest cube on its way to the screen.
NewestCube ==
  IF from_server # <<>> THEN from_server[Len(from_server)]
  ELSE IF socket_pc = "decode" THEN line
  ELSE last_cube

(***************************************************************************)
(* The screen catches up: a client that has something to show, and whose   *)
(* face is chosen, comes to show that face of the newest cube, unless the  *)
(* process comes to an end first.                                          *)
(***************************************************************************)
ScreenCatchesUp ==
  (notified \/ from_server # <<>>) /\ cube_face_id \in Faces
    ~> \/ ~Alive
       \/ cube_face_id \in Faces /\ screen = NewestCube[cube_face_id]

(***************************************************************************)
(* When the user has quit and the server has closed the connection, the    *)
(* two joins of run_cube succeed and the process ends, one way or another. *)
(***************************************************************************)
ClientEnds == curses_pc = "done" /\ server_closed ~> ~Alive

-----------------------------------------------------------------------------
(* What the documentation says and the program does not do. *)

(***************************************************************************)
(* rubiks_client.h says of update_curses_with_cube_state that its argument *)
(* cube_face_id is "the face index of the face to be displayed (0-5)".     *)
(***************************************************************************)
DrawsAFace == view_pc = "draw" => view_face \in Faces

(***************************************************************************)
(* README.md: "To exit ncurses on a device, press q or Q."  The view       *)
(* thread outlives the key, and its refresh turns curses on again.         *)
(***************************************************************************)
QuitLeavesCurses ==
  curses_pc = "done" /\ main_pc \in {"join_curses", "join_socket"} => ~curses_on

(***************************************************************************)
(* rubiks_client.h: run_cube returns "0 if the entire process succeeded,   *)
(* and -1 if there was an error (which may be EOF)".  It returns only once *)
(* the server has closed the connection, that is, at EOF.                  *)
(***************************************************************************)
RunCubeReportsEOF ==
  main_pc = "returned" /\ server_closed => socket_file_status = -1

=============================================================================
