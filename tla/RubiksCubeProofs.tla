-------------------------- MODULE RubiksCubeProofs --------------------------
(***************************************************************************)
(* Facts about the operations of RubiksCube that hold for every cube.      *)
(***************************************************************************)
EXTENDS RubiksCube, TLAPS

(* An edge square of a neighbour is a sticker of the cube: the adjacency   *)
(* tables of make_face hold face and square ids only.                      *)
LEMMA EdgeType ==
  ASSUME NEW f \in Faces,
         NEW i \in 1 .. N_EDGES_PER_SIDE, NEW j \in 1 .. N_SQUARES_PER_SIDE
  PROVE  Edge(f, i, j) \in Stickers
<1> USE DEF N_FACES, N_SQUARES_PER_FACE, N_EDGES_PER_SIDE, N_SQUARES_PER_SIDE,
            FACE_FRONT, FACE_RIGHT, FACE_TOP, FACE_BOTTOM, FACE_LEFT,
            FACE_BACK, Faces, Squares, Stickers
<1> DEFINE EdgeSquares == {LeftDown, RightUp, BottomRight, TopLeft}
           Neighbours == [face : Faces, edge_squares : EdgeSquares]
<1>1. adjacent_faces[f][i] \in Neighbours
  BY DEF adjacent_faces, adjacent_face
<1>2. \A e \in EdgeSquares : e[j] \in Squares
  BY DEF LeftDown, RightUp, BottomRight, TopLeft
<1> QED
  BY <1>1, <1>2 DEF Edge

(* The moves of a turn take stickers to stickers.                          *)
LEMMA MovesType ==
  ASSUME NEW f \in Faces, NEW d \in Directions
  PROVE  Moves(f, d) \subseteq [from : Stickers, to : Stickers]
<1>1. transpose_face(f, d) \subseteq [from : Stickers, to : Stickers]
  <2>1. \A s \in Squares : OwnSource[d][s] \in Squares
    BY DEF OwnSource, Squares, N_SQUARES_PER_FACE, Directions
  <2> QED
    BY <2>1 DEF transpose_face, Stickers
<1>2. transpose_other_faces(f, d) \subseteq [from : Stickers, to : Stickers]
  <2>1. \A i \in 1 .. N_EDGES_PER_SIDE :
          next_adjacent_face(i, d) \in 1 .. N_EDGES_PER_SIDE
    BY DEF next_adjacent_face, N_EDGES_PER_SIDE
  <2> QED
    BY <2>1, EdgeType DEF transpose_other_faces
<1> QED
  BY <1>1, <1>2 DEF Moves

(* Every colour after a turn comes from a sticker of the cube before it.   *)
LEMMA SourceType ==
  Source \in [Faces -> [Directions -> [Faces -> [Squares -> Stickers]]]]
<1>1. ASSUME NEW f \in Faces, NEW d \in Directions,
             NEW g \in Faces, NEW s \in Squares
      PROVE  SourceOf(Moves(f, d), <<g, s>>) \in Stickers
  <2>1. CASE \E m \in Moves(f, d) : m.to = <<g, s>>
    BY <2>1, MovesType DEF SourceOf
  <2>2. CASE ~ \E m \in Moves(f, d) : m.to = <<g, s>>
    BY <2>2 DEF SourceOf, Stickers
  <2> QED
    BY <2>1, <2>2
<1> QED
  BY <1>1 DEF Source

(* rotate makes a cube of a cube.                                          *)
LEMMA RotateType ==
  ASSUME NEW c \in Cubes, NEW f \in Faces, NEW d \in Directions
  PROVE  rotate(c, f, d) \in Cubes
<1>1. ASSUME NEW g \in Faces, NEW s \in Squares
      PROVE  ColorAt(c, Source[f][d][g][s]) \in Faces
  <2>1. Source[f][d][g][s] \in Stickers
    BY SourceType
  <2> QED
    BY <2>1 DEF ColorAt, Stickers, Cubes
<1> QED
  BY <1>1 DEF rotate, Cubes

\* The middle of a face.
SQUARE_MM == 4

(* No edge that a turn moves has the middle of a face in it, and the face  *)
(* that is turned keeps its own: the source of a middle is that middle.    *)
LEMMA MiddleSource ==
  ASSUME NEW f \in Faces, NEW d \in Directions, NEW g \in Faces
  PROVE  Source[f][d][g][SQUARE_MM] = <<g, SQUARE_MM>>
<1>1. SQUARE_MM \in Squares
  BY DEF SQUARE_MM, Squares, N_SQUARES_PER_FACE
<1>2. \A i \in 1 .. N_EDGES_PER_SIDE, j \in 1 .. N_SQUARES_PER_SIDE :
        Edge(f, i, j)[2] # SQUARE_MM
  <2> USE DEF N_FACES, N_EDGES_PER_SIDE, N_SQUARES_PER_SIDE, FACE_FRONT,
              FACE_RIGHT, FACE_TOP, FACE_BOTTOM, FACE_LEFT, FACE_BACK, Faces
  <2> DEFINE EdgeSquares == {LeftDown, RightUp, BottomRight, TopLeft}
  <2>1. \A i \in 1 .. N_EDGES_PER_SIDE :
          adjacent_faces[f][i].edge_squares \in EdgeSquares
    BY DEF adjacent_faces, adjacent_face
  <2>2. \A e \in EdgeSquares, j \in 1 .. N_SQUARES_PER_SIDE : e[j] # SQUARE_MM
    BY DEF LeftDown, RightUp, BottomRight, TopLeft, SQUARE_MM
  <2> QED
    BY <2>1, <2>2 DEF Edge
<1>3. ASSUME NEW m \in Moves(f, d), m.to = <<g, SQUARE_MM>>
      PROVE  m.from = <<g, SQUARE_MM>>
  <2>1. CASE m \in transpose_face(f, d)
    <3>1. PICK s \in Squares : m = [from |-> <<f, OwnSource[d][s]>>,
                                    to |-> <<f, s>>]
      BY <2>1 DEF transpose_face
    <3>2. s = SQUARE_MM /\ f = g
      BY <1>3, <3>1
    <3>3. OwnSource[d][SQUARE_MM] = SQUARE_MM
      BY DEF OwnSource, Squares, N_SQUARES_PER_FACE, Directions, SQUARE_MM
    <3> QED
      BY <3>1, <3>2, <3>3
  <2>2. CASE m \in transpose_other_faces(f, d)
    <3>1. \A i \in 1 .. N_EDGES_PER_SIDE :
            next_adjacent_face(i, d) \in 1 .. N_EDGES_PER_SIDE
      BY DEF next_adjacent_face, N_EDGES_PER_SIDE
    <3> QED
      BY <1>2, <1>3, <2>2, <3>1 DEF transpose_other_faces
  <2> QED
    BY <2>1, <2>2 DEF Moves
<1>4. SourceOf(Moves(f, d), <<g, SQUARE_MM>>) = <<g, SQUARE_MM>>
  BY <1>3 DEF SourceOf
<1> QED
  BY <1>1, <1>4 DEF Source

(* rotate leaves the middle squares alone.                                 *)
LEMMA RotateKeepsMiddles ==
  ASSUME NEW c \in Cubes, NEW f \in Faces, NEW d \in Directions,
         NEW g \in Faces
  PROVE  rotate(c, f, d)[g][SQUARE_MM] = c[g][SQUARE_MM]
<1>1. SQUARE_MM \in Squares
  BY DEF SQUARE_MM, Squares, N_SQUARES_PER_FACE
<1> QED
  BY <1>1, MiddleSource DEF rotate, ColorAt

(* make_cube makes a cube.                                                 *)
LEMMA MakeCubeType == make_cube \in Cubes
BY DEF make_cube, make_face, Cubes

=============================================================================
