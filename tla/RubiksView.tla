----------------------------- MODULE RubiksView -----------------------------
(***************************************************************************)
(* src/rubiks_view.c: the program for a single device.  One thread owns    *)
(* the cube; it shuffles it, then displays the current face and obeys one  *)
(* key at a time.                                                          *)
(***************************************************************************)
EXTENDS RubiksCube, FiniteSets, Geometry

CONSTANTS
  MIN_DEPTH, MAX_DEPTH,  \* shuffle_depths
  MaxKeys,               \* bound: keys that change the cube
  Blank                  \* a screen nothing has been drawn on

ASSUME DepthAssumption == /\ MIN_DEPTH \in Nat /\ MAX_DEPTH \in Nat
                          /\ MIN_DEPTH <= MAX_DEPTH
ASSUME BoundAssumption == MaxKeys \in Nat
ASSUME BlankAssumption == Blank \notin [Squares -> Faces]

VARIABLES
  rubiks_cube,   \* the cube
  current_face,  \* the face on display
  pc,            \* where the thread is
  depth,         \* turns the shuffle under way has left to make
  screen,        \* the colours drawn last
  keys,          \* cube-changing keys pressed so far
  odd            \* ghost: an odd number of turns was made since make_cube

vars == <<rubiks_cube, current_face, pc, depth, screen, keys, odd>>

Init ==
  /\ rubiks_cube = make_cube
  /\ current_face = FACE_FRONT
  /\ pc = "shuffle"
  /\ depth \in MIN_DEPTH .. MAX_DEPTH
  /\ screen = Blank
  /\ keys = 0
  /\ odd = FALSE

Turn(f, d) ==
  /\ rubiks_cube' = rotate(rubiks_cube, f, d)
  /\ odd' = ~odd

\* Seeded bug: the loop of shuffle makes one turn too many.
OneTooMany_ShuffleTurn ==
  /\ pc = "shuffle"
  /\ depth >= 0
  /\ \E f \in Faces, d \in Directions : Turn(f, d)
  /\ depth' = depth - 1
  /\ UNCHANGED <<current_face, pc, screen, keys>>

\* The body of the loop of shuffle.
ShuffleTurn ==
  /\ pc = "shuffle"
  /\ depth > 0
  /\ \E f \in Faces, d \in Directions : Turn(f, d)
  /\ depth' = depth - 1
  /\ UNCHANGED <<current_face, pc, screen, keys>>

ShuffleEnds ==
  /\ pc = "shuffle"
  /\ depth = 0
  /\ pc' = "display"
  /\ UNCHANGED <<rubiks_cube, current_face, depth, screen, keys, odd>>

Display ==
  /\ pc = "display"
  /\ screen' = rubiks_cube[current_face]
  /\ pc' = "getch"
  /\ UNCHANGED <<rubiks_cube, current_face, depth, keys, odd>>

\* Seeded bug: the two keys are exchanged.
Exchanged_RotateKey(d) ==
  /\ pc = "getch"
  /\ keys < MaxKeys
  /\ Turn(current_face, 1 - d)
  /\ keys' = keys + 1
  /\ pc' = "display"
  /\ UNCHANGED <<current_face, depth, screen>>

\* 'd' passes direction 0 and 'a' direction 1.
RotateKey(d) ==
  /\ pc = "getch"
  /\ keys < MaxKeys
  /\ Turn(current_face, d)
  /\ keys' = keys + 1
  /\ pc' = "display"
  /\ UNCHANGED <<current_face, depth, screen>>

FaceKey(f) ==
  /\ pc = "getch"
  /\ current_face' = f
  /\ pc' = "display"
  /\ UNCHANGED <<rubiks_cube, depth, screen, keys, odd>>

SpaceKey ==
  /\ pc = "getch"
  /\ keys < MaxKeys
  /\ keys' = keys + 1
  /\ IF is_solved(rubiks_cube)
     THEN /\ depth' \in MIN_DEPTH .. MAX_DEPTH
          /\ pc' = "shuffle"
          /\ UNCHANGED <<rubiks_cube, odd>>
     ELSE /\ rubiks_cube' = make_cube
          /\ odd' = FALSE
          /\ pc' = "display"
          /\ UNCHANGED depth
  /\ UNCHANGED <<current_face, screen>>

\* Any other key: the loop goes round without a change.
OtherKey ==
  /\ pc = "getch"
  /\ pc' = "display"
  /\ UNCHANGED <<rubiks_cube, current_face, depth, screen, keys, odd>>

QuitKey ==
  /\ pc = "getch"
  /\ pc' = "closed"
  /\ screen' = Blank
  /\ UNCHANGED <<rubiks_cube, current_face, depth, keys, odd>>

Next ==
  \/ ShuffleTurn
  \/ ShuffleEnds
  \/ Display
  \/ \E d \in Directions : RotateKey(d)
  \/ \E f \in Faces : FaceKey(f)
  \/ SpaceKey
  \/ OtherKey
  \/ QuitKey

Spec == Init /\ [][Next]_vars

-----------------------------------------------------------------------------
(* Every variable keeps to its type. *)
TypeOK ==
  /\ rubiks_cube \in Cubes
  /\ current_face \in Faces
  /\ pc \in {"shuffle", "display", "getch", "closed"}
  /\ depth \in 0 .. MAX_DEPTH
  /\ screen = Blank \/ screen \in [Squares -> Faces]
  /\ keys \in 0 .. MaxKeys
  /\ odd \in BOOLEAN

(***************************************************************************)
(* What is_solved accepts is what a player calls solved: every face has a  *)
(* single colour, whatever colour that is.  True only because no sequence  *)
(* of calls of rotate moves the middle square of a face.                   *)
(***************************************************************************)
SolvedIffUniform ==
  is_solved(rubiks_cube) <=>
    \A f \in Faces : Cardinality({rubiks_cube[f][s] : s \in Squares}) = 1

(***************************************************************************)
(* A quarter turn is an odd permutation of the corners of the cube, so an  *)
(* odd number of calls of rotate never leaves the cube solved: a shuffle   *)
(* of odd depth always shuffles.                                           *)
(***************************************************************************)
OddTurnsNeverSolve == odd => ~is_solved(rubiks_cube)

-----------------------------------------------------------------------------
(***************************************************************************)
(* The refinement: where each square is in space.  README.md, "Arrange the *)
(* cube", puts FRONT, RIGHT, BACK and LEFT around the cube with their      *)
(* screens facing out, the top screen's bottom edge touching RIGHT and     *)
(* the bottom screen's bottom edge touching LEFT.                          *)
(***************************************************************************)
Normal ==
  [f \in Faces |-> CASE f = FACE_FRONT -> <<0, 0, 1>>
                     [] f = FACE_RIGHT -> <<1, 0, 0>>
                     [] f = FACE_BACK -> <<0, 0, -1>>
                     [] f = FACE_LEFT -> <<-1, 0, 0>>
                     [] f = FACE_TOP -> <<0, 1, 0>>
                     [] f = FACE_BOTTOM -> <<0, -1, 0>>]

\* From the middle of the face to the bottom edge of its screen.
ScreenDown ==
  [f \in Faces |-> IF f = FACE_TOP THEN Normal[FACE_RIGHT]
                   ELSE IF f = FACE_BOTTOM THEN Normal[FACE_LEFT]
                   ELSE Normal[FACE_BOTTOM]]

\* The square of the screen that shows the sticker at a place in space.
SquareOf ==
  [p \in Places |->
     LET f == CHOOSE f \in Faces : Normal[f] = p[2]
         row == Dot(p[1], ScreenDown[f]) + 1
         col == Dot(p[1], Cross(Normal[f], ScreenDown[f])) + 1
     IN  <<f, N_SQUARES_PER_SIDE * row + col>>]

\* A cube of the program, seen in space.
Painted(c) == [p \in Places |-> Normal[ColorAt(c, SquareOf[p])]]

Physical == INSTANCE PhysicalCube WITH paint <- Painted(rubiks_cube)

(***************************************************************************)
(* rubiks_start.h promises that rotate "imitates the physical action of    *)
(* rotating a Rubik's cube in all aspects": every step of the program is a *)
(* quarter turn of the physical cube, its reassembly, or nothing.          *)
(***************************************************************************)
IsPhysicalCube == Physical!Spec

(***************************************************************************)
(* README.md: "Press d to rotate the current face clockwise, and press a   *)
(* to rotate the face counterclockwise".  A key turns no other layer than  *)
(* that of the face on display, and it turns it clockwise as seen by       *)
(* whoever looks at its screen, for d, and the other way for a.            *)
(***************************************************************************)
KeysTurnTheFaceShown ==
  [][\A d \in Directions :
       RotateKey(d) =>
         Painted(rubiks_cube') =
           Physical!Turned(Painted(rubiks_cube), Normal[current_face], d = 0)
    ]_vars

=============================================================================
