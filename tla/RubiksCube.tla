----------------------------- MODULE RubiksCube -----------------------------
(***************************************************************************)
(* The cube of src/constants.h and src/rubiks_start.c: six faces of nine   *)
(* coloured squares, the adjacency tables that say which edges of the      *)
(* neighbours move with a face, and the operations on a cube.              *)
(*                                                                         *)
(* A sticker is a place on the cube, a pair <<face, square>>.  A turn is   *)
(* described by the moves of stickers it makes (Moves) and applied by      *)
(* looking up, for every sticker, the one its colour comes from (Source).  *)
(***************************************************************************)
EXTENDS Integers, Sequences

\* cube_parameters
N_FACES == 6
N_SQUARES_PER_FACE == 9
N_SQUARES_PER_SIDE == 3
N_EDGES_PER_SIDE == 4

\* face_ids
FACE_FRONT == 0
FACE_RIGHT == 1
FACE_TOP == 2
FACE_BOTTOM == 3
FACE_LEFT == 4
FACE_BACK == 5

Faces == 0 .. N_FACES - 1
Squares == 0 .. N_SQUARES_PER_FACE - 1
Stickers == Faces \X Squares
Cubes == [Faces -> [Squares -> Faces]]

\* The direction argument of rotate: 0 is clockwise, 1 counterclockwise.
Directions == 0 .. 1

-----------------------------------------------------------------------------
(***************************************************************************)
(* The adjacency tables.  A triple of square ids names an edge, read from  *)
(* one end to the other; these four are the only ones the tables use.      *)
(*                                                                         *)
(*   UL UM UR     0 1 2                                                    *)
(*   ML MM MR  =  3 4 5                                                    *)
(*   LL LM LR     6 7 8                                                    *)
(***************************************************************************)
LeftDown == <<0, 3, 6>>
RightUp == <<8, 5, 2>>
BottomRight == <<6, 7, 8>>
TopLeft == <<2, 1, 0>>

adjacent_face(face, squares) == [face |-> face, edge_squares |-> squares]

\* The neighbours of each face in clockwise order, with the edge they share.
adjacent_faces ==
  [f \in Faces |->
     CASE f = FACE_FRONT -> <<adjacent_face(FACE_TOP, LeftDown),
                              adjacent_face(FACE_RIGHT, LeftDown),
                              adjacent_face(FACE_BOTTOM, LeftDown),
                              adjacent_face(FACE_LEFT, RightUp)>>
       [] f = FACE_RIGHT -> <<adjacent_face(FACE_FRONT, RightUp),
                              adjacent_face(FACE_TOP, BottomRight),
                              adjacent_face(FACE_BACK, LeftDown),
                              adjacent_face(FACE_BOTTOM, TopLeft)>>
       [] f = FACE_TOP -> <<adjacent_face(FACE_FRONT, TopLeft),
                            adjacent_face(FACE_LEFT, TopLeft),
                            adjacent_face(FACE_BACK, TopLeft),
                            adjacent_face(FACE_RIGHT, TopLeft)>>
       [] f = FACE_BOTTOM -> <<adjacent_face(FACE_FRONT, BottomRight),
                               adjacent_face(FACE_RIGHT, BottomRight),
                               adjacent_face(FACE_BACK, BottomRight),
                               adjacent_face(FACE_LEFT, BottomRight)>>
       [] f = FACE_LEFT -> <<adjacent_face(FACE_FRONT, LeftDown),
                             adjacent_face(FACE_BOTTOM, BottomRight),
                             adjacent_face(FACE_BACK, RightUp),
                             adjacent_face(FACE_TOP, TopLeft)>>
       [] f = FACE_BACK -> <<adjacent_face(FACE_RIGHT, RightUp),
                             adjacent_face(FACE_TOP, RightUp),
                             adjacent_face(FACE_LEFT, LeftDown),
                             adjacent_face(FACE_BOTTOM, RightUp)>>]

Edge(f, i, j) ==
  <<adjacent_faces[f][i].face, adjacent_faces[f][i].edge_squares[j]>>

-----------------------------------------------------------------------------
(***************************************************************************)
(* A turn, as a set of moves [from, to] of stickers: the nine squares of   *)
(* the face itself, and the edges of its four neighbours, each taken to    *)
(* the next neighbour (clockwise) or to the previous one.                  *)
(***************************************************************************)
\* The square whose colour moves to square s of the face being turned.
OwnSource ==
  [d \in Directions |->
     IF d = 0 THEN [s \in Squares |-> <<6, 3, 0, 7, 4, 1, 8, 5, 2>>[s + 1]]
              ELSE [s \in Squares |-> <<2, 5, 8, 1, 4, 7, 0, 3, 6>>[s + 1]]]

transpose_face(f, d) ==
  {[from |-> <<f, OwnSource[d][s]>>, to |-> <<f, s>>] : s \in Squares}

\* Seeded bug: the edges of the neighbours turn the other way.
Swapped_next_adjacent_face(i, d) ==
  IF d = 1 THEN IF i < N_EDGES_PER_SIDE THEN i + 1 ELSE 1
           ELSE IF i > 1 THEN i - 1 ELSE N_EDGES_PER_SIDE

\* The position of the neighbour that receives the edge of neighbour i.
next_adjacent_face(i, d) ==
  IF d = 0 THEN IF i < N_EDGES_PER_SIDE THEN i + 1 ELSE 1
           ELSE IF i > 1 THEN i - 1 ELSE N_EDGES_PER_SIDE

\* Seeded bug: the neighbours are forgotten.
Missing_transpose_other_faces(f, d) == {}

transpose_other_faces(f, d) ==
  {[from |-> Edge(f, i, j), to |-> Edge(f, next_adjacent_face(i, d), j)] :
     i \in 1 .. N_EDGES_PER_SIDE, j \in 1 .. N_SQUARES_PER_SIDE}

Moves(f, d) == transpose_face(f, d) \cup transpose_other_faces(f, d)

SourceOf(moves, sticker) ==
  IF \E m \in moves : m.to = sticker
  THEN (CHOOSE m \in moves : m.to = sticker).from
  ELSE sticker

Source ==
  [f \in Faces |-> [d \in Directions |->
     [g \in Faces |-> [s \in Squares |-> SourceOf(Moves(f, d), <<g, s>>)]]]]

ColorAt(c, sticker) == c[sticker[1]][sticker[2]]

-----------------------------------------------------------------------------
(***************************************************************************)
(* The operations of rubiks_start.h.                                       *)
(***************************************************************************)
make_face(f) == [s \in Squares |-> f]

make_cube == [f \in Faces |-> make_face(f)]

\* What rotate leaves in the cube once it has copied its result back.
rotate(c, f, d) ==
  [g \in Faces |-> [s \in Squares |-> ColorAt(c, Source[f][d][g][s])]]

\* Seeded bug: only the first row of each face is looked at.
FirstRow_is_solved(c) ==
  \A f \in Faces, s \in 0 .. N_SQUARES_PER_SIDE - 1 : c[f][s] = f

is_solved(c) == \A f \in Faces, s \in Squares : c[f][s] = f

=============================================================================
