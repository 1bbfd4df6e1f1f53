-------------------------- MODULE RubiksViewProofs --------------------------
(***************************************************************************)
(* The single-device program, for shuffles of any depth and any number of  *)
(* keys: is_solved is true of exactly the cubes whose faces are uniform,   *)
(* every turn is the turn of a real cube in space, and an odd number of    *)
(* turns never leaves the cube solved.                                     *)
(***************************************************************************)
EXTENDS RubiksView, RubiksCubeProofs, FiniteSetTheorems

\* The middle of each face has the colour of the face.
MiddlesInPlace == \A f \in Faces : rubiks_cube[f][SQUARE_MM] = f

Inv == TypeOK /\ MiddlesInPlace

(* The cube that make_cube returns has the types and the middles.          *)
LEMMA InitInv == Init => Inv
<1> SUFFICES ASSUME Init PROVE Inv
  OBVIOUS
<1>1. TypeOK
  <2>1. rubiks_cube \in Cubes
    BY MakeCubeType DEF Init
  <2>2. current_face \in Faces
    BY DEF Init, Faces, N_FACES, FACE_FRONT
  <2>3. depth \in 0 .. MAX_DEPTH /\ keys \in 0 .. MaxKeys
    BY DepthAssumption, BoundAssumption DEF Init
  <2> QED
    BY <2>1, <2>2, <2>3 DEF Init, TypeOK
<1>2. MiddlesInPlace
  BY DEF Init, MiddlesInPlace, make_cube, make_face, SQUARE_MM, Squares,
         N_SQUARES_PER_FACE
<1> QED
  BY <1>1, <1>2 DEF Inv

(* A turn keeps types and middles, in a shuffle as on a key.               *)
LEMMA TurnInv ==
  ASSUME Inv, NEW f \in Faces, NEW d \in Directions, Turn(f, d)
  PROVE  rubiks_cube' \in Cubes /\ odd' \in BOOLEAN /\ MiddlesInPlace'
<1>1. rubiks_cube \in Cubes /\ rubiks_cube' = rotate(rubiks_cube, f, d)
  BY DEF Inv, TypeOK, Turn
<1>2. rubiks_cube' \in Cubes
  BY <1>1, RotateType
<1>3. MiddlesInPlace'
  BY <1>1, RotateKeepsMiddles DEF Inv, MiddlesInPlace
<1> QED
  BY <1>2, <1>3 DEF Turn

(* Every step of the program preserves the invariant.                      *)
LEMMA NextInv == Inv /\ [Next]_vars => Inv'
<1> USE DepthAssumption, BoundAssumption
<1> SUFFICES ASSUME Inv, [Next]_vars PROVE Inv'
  OBVIOUS
<1>1. CASE ShuffleTurn
  <2>1. rubiks_cube' \in Cubes /\ odd' \in BOOLEAN /\ MiddlesInPlace'
    BY <1>1, TurnInv DEF ShuffleTurn
  <2> QED
    BY <1>1, <2>1 DEF ShuffleTurn, Inv, TypeOK
<1>2. CASE ShuffleEnds
  BY <1>2 DEF ShuffleEnds, Inv, TypeOK, MiddlesInPlace
<1>3. CASE Display
  BY <1>3 DEF Display, Inv, TypeOK, MiddlesInPlace, Cubes
<1>4. ASSUME NEW d \in Directions, RotateKey(d) PROVE Inv'
  <2>1. rubiks_cube' \in Cubes /\ odd' \in BOOLEAN /\ MiddlesInPlace'
    BY <1>4, TurnInv DEF RotateKey, Inv, TypeOK
  <2> QED
    BY <1>4, <2>1 DEF RotateKey, Inv, TypeOK
<1>5. ASSUME NEW f \in Faces, FaceKey(f) PROVE Inv'
  BY <1>5 DEF FaceKey, Inv, TypeOK, MiddlesInPlace
<1>6. CASE SpaceKey
  <2>1. CASE is_solved(rubiks_cube)
    BY <1>6, <2>1 DEF SpaceKey, Inv, TypeOK, MiddlesInPlace
  <2>2. CASE ~is_solved(rubiks_cube)
    <3>1. rubiks_cube' = make_cube
      BY <1>6, <2>2 DEF SpaceKey
    <3>2. MiddlesInPlace'
      BY <3>1 DEF MiddlesInPlace, make_cube, make_face, SQUARE_MM, Squares,
                  N_SQUARES_PER_FACE
    <3>3. rubiks_cube' \in Cubes
      BY <3>1, MakeCubeType
    <3>4. keys' \in 0 .. MaxKeys /\ pc' = "display" /\ odd' = FALSE
      BY <1>6, <2>2 DEF SpaceKey, Inv, TypeOK
    <3>5. UNCHANGED <<current_face, depth, screen>>
      BY <1>6, <2>2 DEF SpaceKey
    <3> QED
      BY <3>2, <3>3, <3>4, <3>5 DEF Inv, TypeOK
  <2> QED
    BY <2>1, <2>2
<1>7. CASE OtherKey
  BY <1>7 DEF OtherKey, Inv, TypeOK, MiddlesInPlace
<1>8. CASE QuitKey
  BY <1>8 DEF QuitKey, Inv, TypeOK, MiddlesInPlace
<1>9. CASE UNCHANGED vars
  BY <1>9 DEF vars, Inv, TypeOK, MiddlesInPlace
<1> QED
  BY <1>1, <1>2, <1>3, <1>4, <1>5, <1>6, <1>7, <1>8, <1>9 DEF Next

(* A face has one colour if and only if that is the colour of its middle.  *)
LEMMA UniformFace ==
  ASSUME Inv, NEW f \in Faces
  PROVE  Cardinality({rubiks_cube[f][s] : s \in Squares}) = 1
           <=> \A s \in Squares : rubiks_cube[f][s] = f
<1> DEFINE Colors == {rubiks_cube[f][s] : s \in Squares}
<1>1. SQUARE_MM \in Squares /\ rubiks_cube[f][SQUARE_MM] = f
  BY DEF Inv, MiddlesInPlace, SQUARE_MM, Squares, N_SQUARES_PER_FACE
<1>2. f \in Colors
  BY <1>1
<1>3. ASSUME \A s \in Squares : rubiks_cube[f][s] = f
      PROVE  Cardinality(Colors) = 1
  <2>1. Colors = {f}
    BY <1>2, <1>3
  <2> QED
    BY <2>1, FS_Singleton
<1>4. ASSUME Cardinality(Colors) = 1
      PROVE  \A s \in Squares : rubiks_cube[f][s] = f
  <2>1. IsFiniteSet(Colors)
    <3>1. IsFiniteSet(Faces)
      <4>1. IsFiniteSet(0 .. 6 - 1)
        BY 0 \in Int, 6 - 1 \in Int, FS_Interval
      <4> QED
        BY <4>1 DEF Faces, N_FACES
    <3>2. Colors \subseteq Faces
      BY DEF Inv, TypeOK, Cubes
    <3> HIDE DEF Colors
    <3> QED
      BY <3>1, <3>2, FS_Subset
  <2>2. \E x : Colors = {x}
    BY <1>4, <2>1, FS_Singleton
  <2>3. Colors = {f}
    BY <1>2, <2>2
  <2> QED
    BY <2>3
<1> QED
  BY <1>3, <1>4

(* Types hold, for shuffles of any depth and any number of keys.           *)
LEMMA Invariance == Spec => []Inv
<1> QED
  BY InitInv, NextInv, PTL DEF Spec

(* Every variable of rubiks_view keeps to its type: rotate, shuffle and    *)
(* reassembly only ever make cubes of six faces in six colours.            *)
THEOREM TypeCorrect == Spec => []TypeOK
<1>1. Inv => TypeOK
  BY DEF Inv
<1> QED
  BY <1>1, Invariance, PTL

(* is_solved, which compares every square with the number of its face, is  *)
(* true exactly if every face has a single colour, after any number of     *)
(* turns: no sequence of calls of rotate moves a middle square.            *)
THEOREM SolvedCorrect == Spec => []SolvedIffUniform
<1>1. ASSUME Inv PROVE SolvedIffUniform
  BY <1>1, UniformFace DEF SolvedIffUniform, is_solved
<1>2. Inv => SolvedIffUniform
  BY <1>1
<1> QED
  BY <1>2, Invariance, PTL

-----------------------------------------------------------------------------
(***************************************************************************)
(* Where the squares of the screens are in space.  Everything about single *)
(* faces is decided by writing out the coordinates of the six of them.     *)
(***************************************************************************)
\* To the right on the screen of a face, seen from its middle.
Across(g) == Cross(Normal[g], ScreenDown[g])

\* Where the square in row r and column c of a face is in space, if rows and
\* columns are counted from the middle of the face; and its number.
At(g, r, c) ==
  <<Plus(Normal[g], Plus(Times(r, ScreenDown[g]), Times(c, Across(g)))),
    Normal[g]>>

Square(r, c) == N_SQUARES_PER_SIDE * (r + 1) + (c + 1)

Thirds == -1 .. 1

(* Where the faces are, in coordinates.                                    *)
LEMMA FaceVectors ==
  /\ Faces = {0, 1, 2, 3, 4, 5}
  /\ Normal[0] = <<0, 0, 1>>  /\ ScreenDown[0] = <<0, -1, 0>>
  /\ Normal[1] = <<1, 0, 0>>  /\ ScreenDown[1] = <<0, -1, 0>>
  /\ Normal[2] = <<0, 1, 0>>  /\ ScreenDown[2] = <<1, 0, 0>>
  /\ Normal[3] = <<0, -1, 0>> /\ ScreenDown[3] = <<-1, 0, 0>>
  /\ Normal[4] = <<-1, 0, 0>> /\ ScreenDown[4] = <<0, -1, 0>>
  /\ Normal[5] = <<0, 0, -1>> /\ ScreenDown[5] = <<0, -1, 0>>
<1> USE DEF FACE_FRONT, FACE_RIGHT, FACE_TOP, FACE_BOTTOM, FACE_LEFT, FACE_BACK
<1>1. Faces = {0, 1, 2, 3, 4, 5}
  BY DEF Faces, N_FACES
<1>2. /\ Normal[0] = <<0, 0, 1>> /\ Normal[1] = <<1, 0, 0>>
      /\ Normal[2] = <<0, 1, 0>> /\ Normal[3] = <<0, -1, 0>>
      /\ Normal[4] = <<-1, 0, 0>> /\ Normal[5] = <<0, 0, -1>>
  BY <1>1 DEF Normal
<1>3. /\ ScreenDown[0] = <<0, -1, 0>> /\ ScreenDown[1] = <<0, -1, 0>>
      /\ ScreenDown[2] = <<1, 0, 0>> /\ ScreenDown[3] = <<-1, 0, 0>>
      /\ ScreenDown[4] = <<0, -1, 0>> /\ ScreenDown[5] = <<0, -1, 0>>
  BY <1>1, <1>2 DEF ScreenDown
<1> QED
  BY <1>1, <1>2, <1>3

(* The square in row r and column c of each face, in coordinates.          *)
LEMMA AtValues ==
  ASSUME NEW r \in Thirds, NEW c \in Thirds
  PROVE  /\ At(0, r, c) = <<<<c, -r, 1>>, <<0, 0, 1>>>>
         /\ At(1, r, c) = <<<<1, -r, -c>>, <<1, 0, 0>>>>
         /\ At(2, r, c) = <<<<r, 1, -c>>, <<0, 1, 0>>>>
         /\ At(3, r, c) = <<<<-r, -1, -c>>, <<0, -1, 0>>>>
         /\ At(4, r, c) = <<<<-1, -r, c>>, <<-1, 0, 0>>>>
         /\ At(5, r, c) = <<<<-c, -r, -1>>, <<0, 0, -1>>>>
<1>0. r \in Int /\ c \in Int
  BY DEF Thirds
<1>1. /\ Across(0) = <<1, 0, 0>>
      /\ Across(1) = <<0, 0, -1>>
      /\ Across(2) = <<0, 0, -1>>
      /\ Across(3) = <<0, 0, -1>>
      /\ Across(4) = <<0, 0, 1>>
      /\ Across(5) = <<-1, 0, 0>>
  BY FaceVectors DEF Across, Cross
<1>2. At(0, r, c) = <<<<c, -r, 1>>, <<0, 0, 1>>>>
  <2>1. Plus(<<0, 0, 1>>,
            Plus(Times(r, <<0, -1, 0>>), Times(c, <<1, 0, 0>>)))
          = <<c, -r, 1>>
    BY <1>0 DEF Plus, Times
  <2> QED
    BY <1>1, <2>1, FaceVectors, Zenon DEF At
<1>3. At(1, r, c) = <<<<1, -r, -c>>, <<1, 0, 0>>>>
  <2>1. Plus(<<1, 0, 0>>,
            Plus(Times(r, <<0, -1, 0>>), Times(c, <<0, 0, -1>>)))
          = <<1, -r, -c>>
    BY <1>0 DEF Plus, Times
  <2> QED
    BY <1>1, <2>1, FaceVectors, Zenon DEF At
<1>4. At(2, r, c) = <<<<r, 1, -c>>, <<0, 1, 0>>>>
  <2>1. Plus(<<0, 1, 0>>,
            Plus(Times(r, <<1, 0, 0>>), Times(c, <<0, 0, -1>>)))
          = <<r, 1, -c>>
    BY <1>0 DEF Plus, Times
  <2> QED
    BY <1>1, <2>1, FaceVectors, Zenon DEF At
<1>5. At(3, r, c) = <<<<-r, -1, -c>>, <<0, -1, 0>>>>
  <2>1. Plus(<<0, -1, 0>>,
            Plus(Times(r, <<-1, 0, 0>>), Times(c, <<0, 0, -1>>)))
          = <<-r, -1, -c>>
    BY <1>0 DEF Plus, Times
  <2> QED
    BY <1>1, <2>1, FaceVectors, Zenon DEF At
<1>6. At(4, r, c) = <<<<-1, -r, c>>, <<-1, 0, 0>>>>
  <2>1. Plus(<<-1, 0, 0>>,
            Plus(Times(r, <<0, -1, 0>>), Times(c, <<0, 0, 1>>)))
          = <<-1, -r, c>>
    BY <1>0 DEF Plus, Times
  <2> QED
    BY <1>1, <2>1, FaceVectors, Zenon DEF At
<1>7. At(5, r, c) = <<<<-c, -r, -1>>, <<0, 0, -1>>>>
  <2>1. Plus(<<0, 0, -1>>,
            Plus(Times(r, <<0, -1, 0>>), Times(c, <<-1, 0, 0>>)))
          = <<-c, -r, -1>>
    BY <1>0 DEF Plus, Times
  <2> QED
    BY <1>1, <2>1, FaceVectors, Zenon DEF At
<1> QED
  BY <1>2, <1>3, <1>4, <1>5, <1>6, <1>7

(* Every square of a screen is in one of three rows and three columns.     *)
LEMMA SquareIsSquare ==
  ASSUME NEW s \in Squares
  PROVE  \E r, c \in Thirds : s = Square(r, c)
<1>1. s \in 0 .. 8
  BY DEF Squares, N_SQUARES_PER_FACE
<1>2. PICK r \in Thirds : s - 3 * (r + 1) \in 0 .. 2
  BY <1>1 DEF Thirds
<1>3. s - 3 * (r + 1) - 1 \in Thirds /\ s = Square(r, s - 3 * (r + 1) - 1)
  BY <1>1, <1>2 DEF Thirds, Square, N_SQUARES_PER_SIDE
<1> QED
  BY <1>3

(* Three rows of three squares are numbered as the nine squares.           *)
LEMMA SquareType ==
  ASSUME NEW r \in Thirds, NEW c \in Thirds
  PROVE  Square(r, c) \in Squares
BY DEF Thirds, Square, Squares, N_SQUARES_PER_SIDE, N_SQUARES_PER_FACE

(* The faces point in the six directions in which a cube has sides.        *)
LEMMA SidesAreNormals ==
  /\ \A g \in Faces : Normal[g] \in Sides
  /\ \A n \in Sides : \E g \in Faces : n = Normal[g]
<1>1. ASSUME NEW n \in Sides PROVE \E g \in Faces : n = Normal[g]
  <2>1. PICK a \in Thirds, b \in Thirds, c \in Thirds : n = <<a, b, c>>
    BY DEF Sides, Block, Thirds
  <2>2. a * a + b * b + c * c = 1
    BY <2>1 DEF Sides, Dot
  <2>3. \/ a = 1 /\ b = 0 /\ c = 0
        \/ a = -1 /\ b = 0 /\ c = 0
        \/ a = 0 /\ b = 1 /\ c = 0
        \/ a = 0 /\ b = -1 /\ c = 0
        \/ a = 0 /\ b = 0 /\ c = 1
        \/ a = 0 /\ b = 0 /\ c = -1
    BY <2>2 DEF Thirds
  <2> QED
    BY <2>1, <2>3, FaceVectors
<1>2. ASSUME NEW g \in Faces PROVE Normal[g] \in Sides
  <2>1. <<0, 0, 1>> \in Sides
    BY DEF Sides, Block, Dot
  <2>2. <<1, 0, 0>> \in Sides
    BY DEF Sides, Block, Dot
  <2>3. <<0, 1, 0>> \in Sides
    BY DEF Sides, Block, Dot
  <2>4. <<0, -1, 0>> \in Sides
    BY DEF Sides, Block, Dot
  <2>5. <<-1, 0, 0>> \in Sides
    BY DEF Sides, Block, Dot
  <2>6. <<0, 0, -1>> \in Sides
    BY DEF Sides, Block, Dot
  <2> QED
    BY <2>1, <2>2, <2>3, <2>4, <2>5, <2>6, FaceVectors
<1> QED
  BY <1>1, <1>2

(* Every square of the program is a place on the cube in space.            *)
LEMMA AtPlaces ==
  ASSUME NEW g \in Faces, NEW r \in Thirds, NEW c \in Thirds
  PROVE  At(g, r, c) \in Places
<1>1. /\ -r \in Thirds /\ -c \in Thirds
      /\ 1 \in Thirds /\ -1 \in Thirds /\ 0 \in Thirds
      /\ r \in Int /\ c \in Int
  BY DEF Thirds
<1>2. \A x, y, z \in Thirds : <<x, y, z>> \in Block
  BY DEF Block, Thirds
<1>3. At(g, r, c)[1] \in Block /\ Dot(At(g, r, c)[1], Normal[g]) = 1
  <2>1. CASE g = 0
    <3>1. <<c, -r, 1>> \in Block /\ Dot(<<c, -r, 1>>, <<0, 0, 1>>) = 1
      BY <1>1, <1>2 DEF Dot
    <3>2. At(g, r, c)[1] = <<c, -r, 1>> /\ Normal[g] = <<0, 0, 1>>
      <4>1. At(g, r, c) = <<<<c, -r, 1>>, <<0, 0, 1>>>>
        BY <2>1, AtValues
      <4>2. Normal[g] = <<0, 0, 1>>
        BY <2>1, FaceVectors
      <4> QED
        BY <4>1, <4>2
    <3> QED
      BY <3>1, <3>2, Zenon
  <2>2. CASE g = 1
    <3>1. <<1, -r, -c>> \in Block /\ Dot(<<1, -r, -c>>, <<1, 0, 0>>) = 1
      BY <1>1, <1>2 DEF Dot
    <3>2. At(g, r, c)[1] = <<1, -r, -c>> /\ Normal[g] = <<1, 0, 0>>
      <4>1. At(g, r, c) = <<<<1, -r, -c>>, <<1, 0, 0>>>>
        BY <2>2, AtValues
      <4>2. Normal[g] = <<1, 0, 0>>
        BY <2>2, FaceVectors
      <4> QED
        BY <4>1, <4>2
    <3> QED
      BY <3>1, <3>2, Zenon
  <2>3. CASE g = 2
    <3>1. <<r, 1, -c>> \in Block /\ Dot(<<r, 1, -c>>, <<0, 1, 0>>) = 1
      BY <1>1, <1>2 DEF Dot
    <3>2. At(g, r, c)[1] = <<r, 1, -c>> /\ Normal[g] = <<0, 1, 0>>
      <4>1. At(g, r, c) = <<<<r, 1, -c>>, <<0, 1, 0>>>>
        BY <2>3, AtValues
      <4>2. Normal[g] = <<0, 1, 0>>
        BY <2>3, FaceVectors
      <4> QED
        BY <4>1, <4>2
    <3> QED
      BY <3>1, <3>2, Zenon
  <2>4. CASE g = 3
    <3>1. <<-r, -1, -c>> \in Block /\ Dot(<<-r, -1, -c>>, <<0, -1, 0>>) = 1
      BY <1>1, <1>2 DEF Dot
    <3>2. At(g, r, c)[1] = <<-r, -1, -c>> /\ Normal[g] = <<0, -1, 0>>
      <4>1. At(g, r, c) = <<<<-r, -1, -c>>, <<0, -1, 0>>>>
        BY <2>4, AtValues
      <4>2. Normal[g] = <<0, -1, 0>>
        BY <2>4, FaceVectors
      <4> QED
        BY <4>1, <4>2
    <3> QED
      BY <3>1, <3>2, Zenon
  <2>5. CASE g = 4
    <3>1. <<-1, -r, c>> \in Block /\ Dot(<<-1, -r, c>>, <<-1, 0, 0>>) = 1
      BY <1>1, <1>2 DEF Dot
    <3>2. At(g, r, c)[1] = <<-1, -r, c>> /\ Normal[g] = <<-1, 0, 0>>
      <4>1. At(g, r, c) = <<<<-1, -r, c>>, <<-1, 0, 0>>>>
        BY <2>5, AtValues
      <4>2. Normal[g] = <<-1, 0, 0>>
        BY <2>5, FaceVectors
      <4> QED
        BY <4>1, <4>2
    <3> QED
      BY <3>1, <3>2, Zenon
  <2>6. CASE g = 5
    <3>1. <<-c, -r, -1>> \in Block /\ Dot(<<-c, -r, -1>>, <<0, 0, -1>>) = 1
      BY <1>1, <1>2 DEF Dot
    <3>2. At(g, r, c)[1] = <<-c, -r, -1>> /\ Normal[g] = <<0, 0, -1>>
      <4>1. At(g, r, c) = <<<<-c, -r, -1>>, <<0, 0, -1>>>>
        BY <2>6, AtValues
      <4>2. Normal[g] = <<0, 0, -1>>
        BY <2>6, FaceVectors
      <4> QED
        BY <4>1, <4>2
    <3> QED
      BY <3>1, <3>2, Zenon
  <2> QED
    BY <2>1, <2>2, <2>3, <2>4, <2>5, <2>6, FaceVectors
<1>4. Normal[g] \in Sides
  BY SidesAreNormals
<1> QED
  BY <1>3, <1>4 DEF Places, At

(* No two faces point in one direction.                                    *)
LEMMA NormalInjective ==
  ASSUME NEW f \in Faces, NEW g \in Faces, Normal[f] = Normal[g]
  PROVE  f = g
BY FaceVectors

(* SquareOf, by which the refinement looks at the cube, finds the square   *)
(* that was put at a place.                                                *)
LEMMA SquareOfAt ==
  ASSUME NEW g \in Faces, NEW r \in Thirds, NEW c \in Thirds
  PROVE  SquareOf[At(g, r, c)] = <<g, Square(r, c)>>
<1> DEFINE p == At(g, r, c)
<1>1. p \in Places
  BY AtPlaces
<1>2. p[2] = Normal[g]
  BY DEF At
<1>3. (CHOOSE f \in Faces : Normal[f] = p[2]) = g
  BY <1>2, NormalInjective
<1>4. /\ Dot(p[1], ScreenDown[g]) = r
      /\ Dot(p[1], Cross(Normal[g], ScreenDown[g])) = c
  <2>0. r \in Int /\ c \in Int
    BY DEF Thirds
  <2>1. CASE g = 0
    <3>1. p[1] = <<c, -r, 1>>
      <4>1. p = <<<<c, -r, 1>>, <<0, 0, 1>>>>
        BY <2>1, AtValues
      <4> QED
        BY <4>1
    <3>2. Normal[g] = <<0, 0, 1>> /\ ScreenDown[g] = <<0, -1, 0>>
      BY <2>1, FaceVectors
    <3>3. Cross(<<0, 0, 1>>, <<0, -1, 0>>) = <<1, 0, 0>>
      BY DEF Cross
    <3>4. /\ Dot(<<c, -r, 1>>, <<0, -1, 0>>) = r
          /\ Dot(<<c, -r, 1>>, <<1, 0, 0>>) = c
      BY <2>0 DEF Dot
    <3> QED
      BY <3>1, <3>2, <3>3, <3>4, Zenon
  <2>2. CASE g = 1
    <3>1. p[1] = <<1, -r, -c>>
      <4>1. p = <<<<1, -r, -c>>, <<1, 0, 0>>>>
        BY <2>2, AtValues
      <4> QED
        BY <4>1
    <3>2. Normal[g] = <<1, 0, 0>> /\ ScreenDown[g] = <<0, -1, 0>>
      BY <2>2, FaceVectors
    <3>3. Cross(<<1, 0, 0>>, <<0, -1, 0>>) = <<0, 0, -1>>
      BY DEF Cross
    <3>4. /\ Dot(<<1, -r, -c>>, <<0, -1, 0>>) = r
          /\ Dot(<<1, -r, -c>>, <<0, 0, -1>>) = c
      BY <2>0 DEF Dot
    <3> QED
      BY <3>1, <3>2, <3>3, <3>4, Zenon
  <2>3. CASE g = 2
    <3>1. p[1] = <<r, 1, -c>>
      <4>1. p = <<<<r, 1, -c>>, <<0, 1, 0>>>>
        BY <2>3, AtValues
      <4> QED
        BY <4>1
    <3>2. Normal[g] = <<0, 1, 0>> /\ ScreenDown[g] = <<1, 0, 0>>
      BY <2>3, FaceVectors
    <3>3. Cross(<<0, 1, 0>>, <<1, 0, 0>>) = <<0, 0, -1>>
      BY DEF Cross
    <3>4. /\ Dot(<<r, 1, -c>>, <<1, 0, 0>>) = r
          /\ Dot(<<r, 1, -c>>, <<0, 0, -1>>) = c
      BY <2>0 DEF Dot
    <3> QED
      BY <3>1, <3>2, <3>3, <3>4, Zenon
  <2>4. CASE g = 3
    <3>1. p[1] = <<-r, -1, -c>>
      <4>1. p = <<<<-r, -1, -c>>, <<0, -1, 0>>>>
        BY <2>4, AtValues
      <4> QED
        BY <4>1
    <3>2. Normal[g] = <<0, -1, 0>> /\ ScreenDown[g] = <<-1, 0, 0>>
      BY <2>4, FaceVectors
    <3>3. Cross(<<0, -1, 0>>, <<-1, 0, 0>>) = <<0, 0, -1>>
      BY DEF Cross
    <3>4. /\ Dot(<<-r, -1, -c>>, <<-1, 0, 0>>) = r
          /\ Dot(<<-r, -1, -c>>, <<0, 0, -1>>) = c
      BY <2>0 DEF Dot
    <3> QED
      BY <3>1, <3>2, <3>3, <3>4, Zenon
  <2>5. CASE g = 4
    <3>1. p[1] = <<-1, -r, c>>
      <4>1. p = <<<<-1, -r, c>>, <<-1, 0, 0>>>>
        BY <2>5, AtValues
      <4> QED
        BY <4>1
    <3>2. Normal[g] = <<-1, 0, 0>> /\ ScreenDown[g] = <<0, -1, 0>>
      BY <2>5, FaceVectors
    <3>3. Cross(<<-1, 0, 0>>, <<0, -1, 0>>) = <<0, 0, 1>>
      BY DEF Cross
    <3>4. /\ Dot(<<-1, -r, c>>, <<0, -1, 0>>) = r
          /\ Dot(<<-1, -r, c>>, <<0, 0, 1>>) = c
      BY <2>0 DEF Dot
    <3> QED
      BY <3>1, <3>2, <3>3, <3>4, Zenon
  <2>6. CASE g = 5
    <3>1. p[1] = <<-c, -r, -1>>
      <4>1. p = <<<<-c, -r, -1>>, <<0, 0, -1>>>>
        BY <2>6, AtValues
      <4> QED
        BY <4>1
    <3>2. Normal[g] = <<0, 0, -1>> /\ ScreenDown[g] = <<0, -1, 0>>
      BY <2>6, FaceVectors
    <3>3. Cross(<<0, 0, -1>>, <<0, -1, 0>>) = <<-1, 0, 0>>
      BY DEF Cross
    <3>4. /\ Dot(<<-c, -r, -1>>, <<0, -1, 0>>) = r
          /\ Dot(<<-c, -r, -1>>, <<-1, 0, 0>>) = c
      BY <2>0 DEF Dot
    <3> QED
      BY <3>1, <3>2, <3>3, <3>4, Zenon
  <2> QED
    BY <2>1, <2>2, <2>3, <2>4, <2>5, <2>6, FaceVectors
<1> HIDE DEF p
<1>5. SquareOf[p] = <<g, 3 * (r + 1) + (c + 1)>>
  BY <1>1, <1>3, <1>4 DEF SquareOf, N_SQUARES_PER_SIDE
<1> QED
  BY <1>5 DEF p, Square, N_SQUARES_PER_SIDE

(* Every place on the cube in space is a square of the program.            *)
LEMMA PlacesAreAt ==
  ASSUME NEW p \in Places
  PROVE  \E g \in Faces, r, c \in Thirds : p = At(g, r, c)
<1>1. PICK x \in Thirds, y \in Thirds, z \in Thirds : p[1] = <<x, y, z>>
  BY DEF Places, Block, Thirds
<1>2. PICK g \in Faces : p[2] = Normal[g]
  BY SidesAreNormals DEF Places
<1>3. p = <<<<x, y, z>>, Normal[g]>>
  BY <1>1, <1>2 DEF Places
<1>4. Dot(<<x, y, z>>, Normal[g]) = 1
  BY <1>1, <1>2 DEF Places
<1>5. /\ -x \in Thirds /\ -y \in Thirds /\ -z \in Thirds
      /\ -(-x) = x /\ -(-y) = y /\ -(-z) = z
  BY DEF Thirds
<1>6. CASE g = 0
  <2>1. p = At(0, -y, x)
    BY <1>3, <1>4, <1>5, <1>6, FaceVectors, AtValues DEF Dot, Thirds
  <2> QED
    BY <1>5, <1>6, <2>1
<1>7. CASE g = 1
  <2>1. p = At(1, -y, -z)
    BY <1>3, <1>4, <1>5, <1>7, FaceVectors, AtValues DEF Dot, Thirds
  <2> QED
    BY <1>5, <1>7, <2>1
<1>8. CASE g = 2
  <2>1. p = At(2, x, -z)
    BY <1>3, <1>4, <1>5, <1>8, FaceVectors, AtValues DEF Dot, Thirds
  <2> QED
    BY <1>5, <1>8, <2>1
<1>9. CASE g = 3
  <2>1. p = At(3, -x, -z)
    BY <1>3, <1>4, <1>5, <1>9, FaceVectors, AtValues DEF Dot, Thirds
  <2> QED
    BY <1>5, <1>9, <2>1
<1>10. CASE g = 4
  <2>1. p = At(4, -y, z)
    BY <1>3, <1>4, <1>5, <1>10, FaceVectors, AtValues DEF Dot, Thirds
  <2> QED
    BY <1>5, <1>10, <2>1
<1>11. CASE g = 5
  <2>1. p = At(5, -y, -x)
    BY <1>3, <1>4, <1>5, <1>11, FaceVectors, AtValues DEF Dot, Thirds
  <2> QED
    BY <1>5, <1>11, <2>1
<1> QED
  BY <1>6, <1>7, <1>8, <1>9, <1>10, <1>11, FaceVectors

\* The place in space of a sticker of the program's cube.
PlaceOf(sticker) == CHOOSE p \in Places : SquareOf[p] = sticker

(* The squares of a face are counted row by row: no number stands for two  *)
(* squares.                                                                *)
LEMMA SquareInjective ==
  ASSUME NEW r \in Thirds, NEW c \in Thirds,
         NEW r2 \in Thirds, NEW c2 \in Thirds, Square(r, c) = Square(r2, c2)
  PROVE  r = r2 /\ c = c2
BY DEF Thirds, Square, N_SQUARES_PER_SIDE

(* PlaceOf finds the place at which a square was put.                      *)
LEMMA PlaceOfAt ==
  ASSUME NEW g \in Faces, NEW r \in Thirds, NEW c \in Thirds
  PROVE  PlaceOf(<<g, Square(r, c)>>) = At(g, r, c)
<1>1. At(g, r, c) \in Places /\ SquareOf[At(g, r, c)] = <<g, Square(r, c)>>
  BY AtPlaces, SquareOfAt
<1>2. ASSUME NEW p \in Places, SquareOf[p] = <<g, Square(r, c)>>
      PROVE  p = At(g, r, c)
  <2>1. PICK g2 \in Faces, r2 \in Thirds, c2 \in Thirds : p = At(g2, r2, c2)
    BY PlacesAreAt
  <2>2. <<g2, Square(r2, c2)>> = <<g, Square(r, c)>>
    BY <1>2, <2>1, SquareOfAt
  <2>3. g2 = g /\ Square(r2, c2) = Square(r, c)
    BY <2>2
  <2> QED
    BY <2>1, <2>3, SquareInjective
<1> QED
  BY <1>1, <1>2 DEF PlaceOf

(* Squares and places in space correspond one to one.                      *)
LEMMA StickersArePlaces ==
  /\ \A st \in Stickers : PlaceOf(st) \in Places /\ SquareOf[PlaceOf(st)] = st
  /\ \A p \in Places : SquareOf[p] \in Stickers /\ PlaceOf(SquareOf[p]) = p
<1>1. ASSUME NEW st \in Stickers
      PROVE  PlaceOf(st) \in Places /\ SquareOf[PlaceOf(st)] = st
  <2>1. PICK g \in Faces, s \in Squares : st = <<g, s>>
    BY DEF Stickers
  <2>2. PICK r \in Thirds, c \in Thirds : s = Square(r, c)
    BY SquareIsSquare
  <2>3. PlaceOf(<<g, Square(r, c)>>) = At(g, r, c)
    BY PlaceOfAt
  <2>4. At(g, r, c) \in Places /\ SquareOf[At(g, r, c)] = <<g, Square(r, c)>>
    BY AtPlaces, SquareOfAt
  <2> QED
    BY <2>1, <2>2, <2>3, <2>4
<1>2. ASSUME NEW p \in Places
      PROVE  SquareOf[p] \in Stickers /\ PlaceOf(SquareOf[p]) = p
  <2>1. PICK g \in Faces, r \in Thirds, c \in Thirds : p = At(g, r, c)
    BY PlacesAreAt
  <2>2. SquareOf[p] = <<g, Square(r, c)>> /\ Square(r, c) \in Squares
    BY <2>1, SquareOfAt, SquareType
  <2>3. PlaceOf(<<g, Square(r, c)>>) = At(g, r, c)
    BY PlaceOfAt
  <2> QED
    BY <2>1, <2>2, <2>3 DEF Stickers
<1> QED
  BY <1>1, <1>2

(* The triples of the adjacency tables name the four edges of a screen,    *)
(* each read from one end to the other.                                    *)
LEMMA EdgeSquares ==
  ASSUME NEW k \in Thirds
  PROVE  /\ LeftDown[k + 2] = Square(k, -1)
         /\ RightUp[k + 2] = Square(-k, 1)
         /\ BottomRight[k + 2] = Square(1, k)
         /\ TopLeft[k + 2] = Square(-1, -k)
BY DEF Thirds, Square, N_SQUARES_PER_SIDE, LeftDown, RightUp, BottomRight,
   TopLeft

(* The neighbours of each face, in clockwise order, with their edges.      *)
LEMMA Neighbours ==
  /\ adjacent_faces[0][1] = adjacent_face(2, LeftDown)
  /\ adjacent_faces[0][2] = adjacent_face(1, LeftDown)
  /\ adjacent_faces[0][3] = adjacent_face(3, LeftDown)
  /\ adjacent_faces[0][4] = adjacent_face(4, RightUp)
  /\ adjacent_faces[1][1] = adjacent_face(0, RightUp)
  /\ adjacent_faces[1][2] = adjacent_face(2, BottomRight)
  /\ adjacent_faces[1][3] = adjacent_face(5, LeftDown)
  /\ adjacent_faces[1][4] = adjacent_face(3, TopLeft)
  /\ adjacent_faces[2][1] = adjacent_face(0, TopLeft)
  /\ adjacent_faces[2][2] = adjacent_face(4, TopLeft)
  /\ adjacent_faces[2][3] = adjacent_face(5, TopLeft)
  /\ adjacent_faces[2][4] = adjacent_face(1, TopLeft)
  /\ adjacent_faces[3][1] = adjacent_face(0, BottomRight)
  /\ adjacent_faces[3][2] = adjacent_face(1, BottomRight)
  /\ adjacent_faces[3][3] = adjacent_face(5, BottomRight)
  /\ adjacent_faces[3][4] = adjacent_face(4, BottomRight)
  /\ adjacent_faces[4][1] = adjacent_face(0, LeftDown)
  /\ adjacent_faces[4][2] = adjacent_face(3, BottomRight)
  /\ adjacent_faces[4][3] = adjacent_face(5, RightUp)
  /\ adjacent_faces[4][4] = adjacent_face(2, TopLeft)
  /\ adjacent_faces[5][1] = adjacent_face(1, RightUp)
  /\ adjacent_faces[5][2] = adjacent_face(2, RightUp)
  /\ adjacent_faces[5][3] = adjacent_face(4, LeftDown)
  /\ adjacent_faces[5][4] = adjacent_face(3, RightUp)
<1> USE FaceVectors DEF FACE_FRONT, FACE_RIGHT, FACE_TOP, FACE_BOTTOM,
                       FACE_LEFT, FACE_BACK
<1>1. adjacent_faces[0] = <<adjacent_face(2, LeftDown),
         adjacent_face(1, LeftDown),
         adjacent_face(3, LeftDown),
         adjacent_face(4, RightUp)>>
  BY DEF adjacent_faces
<1>2. adjacent_faces[1] = <<adjacent_face(0, RightUp),
         adjacent_face(2, BottomRight),
         adjacent_face(5, LeftDown),
         adjacent_face(3, TopLeft)>>
  BY DEF adjacent_faces
<1>3. adjacent_faces[2] = <<adjacent_face(0, TopLeft),
         adjacent_face(4, TopLeft),
         adjacent_face(5, TopLeft),
         adjacent_face(1, TopLeft)>>
  BY DEF adjacent_faces
<1>4. adjacent_faces[3] = <<adjacent_face(0, BottomRight),
         adjacent_face(1, BottomRight),
         adjacent_face(5, BottomRight),
         adjacent_face(4, BottomRight)>>
  BY DEF adjacent_faces
<1>5. adjacent_faces[4] = <<adjacent_face(0, LeftDown),
         adjacent_face(3, BottomRight),
         adjacent_face(5, RightUp),
         adjacent_face(2, TopLeft)>>
  BY DEF adjacent_faces
<1>6. adjacent_faces[5] = <<adjacent_face(1, RightUp),
         adjacent_face(2, RightUp),
         adjacent_face(4, LeftDown),
         adjacent_face(3, RightUp)>>
  BY DEF adjacent_faces
<1> QED
  BY <1>1, <1>2, <1>3, <1>4, <1>5, <1>6

(* Where the squares that the tables name are in space: along the rim of   *)
(* the layer that turns.                                                   *)
LEMMA EdgePlaces ==
  ASSUME NEW k \in Thirds
  PROVE
    /\ PlaceOf(Edge(0, 1, k + 2)) = <<<<k, 1, 1>>, <<0, 1, 0>>>>
    /\ PlaceOf(Edge(0, 2, k + 2)) = <<<<1, -k, 1>>, <<1, 0, 0>>>>
    /\ PlaceOf(Edge(0, 3, k + 2)) = <<<<-k, -1, 1>>, <<0, -1, 0>>>>
    /\ PlaceOf(Edge(0, 4, k + 2)) = <<<<-1, k, 1>>, <<-1, 0, 0>>>>
    /\ PlaceOf(Edge(1, 1, k + 2)) = <<<<1, k, 1>>, <<0, 0, 1>>>>
    /\ PlaceOf(Edge(1, 2, k + 2)) = <<<<1, 1, -k>>, <<0, 1, 0>>>>
    /\ PlaceOf(Edge(1, 3, k + 2)) = <<<<1, -k, -1>>, <<0, 0, -1>>>>
    /\ PlaceOf(Edge(1, 4, k + 2)) = <<<<1, -1, k>>, <<0, -1, 0>>>>
    /\ PlaceOf(Edge(2, 1, k + 2)) = <<<<-k, 1, 1>>, <<0, 0, 1>>>>
    /\ PlaceOf(Edge(2, 2, k + 2)) = <<<<-1, 1, -k>>, <<-1, 0, 0>>>>
    /\ PlaceOf(Edge(2, 3, k + 2)) = <<<<k, 1, -1>>, <<0, 0, -1>>>>
    /\ PlaceOf(Edge(2, 4, k + 2)) = <<<<1, 1, k>>, <<1, 0, 0>>>>
    /\ PlaceOf(Edge(3, 1, k + 2)) = <<<<k, -1, 1>>, <<0, 0, 1>>>>
    /\ PlaceOf(Edge(3, 2, k + 2)) = <<<<1, -1, -k>>, <<1, 0, 0>>>>
    /\ PlaceOf(Edge(3, 3, k + 2)) = <<<<-k, -1, -1>>, <<0, 0, -1>>>>
    /\ PlaceOf(Edge(3, 4, k + 2)) = <<<<-1, -1, k>>, <<-1, 0, 0>>>>
    /\ PlaceOf(Edge(4, 1, k + 2)) = <<<<-1, -k, 1>>, <<0, 0, 1>>>>
    /\ PlaceOf(Edge(4, 2, k + 2)) = <<<<-1, -1, -k>>, <<0, -1, 0>>>>
    /\ PlaceOf(Edge(4, 3, k + 2)) = <<<<-1, k, -1>>, <<0, 0, -1>>>>
    /\ PlaceOf(Edge(4, 4, k + 2)) = <<<<-1, 1, k>>, <<0, 1, 0>>>>
    /\ PlaceOf(Edge(5, 1, k + 2)) = <<<<1, k, -1>>, <<1, 0, 0>>>>
    /\ PlaceOf(Edge(5, 2, k + 2)) = <<<<-k, 1, -1>>, <<0, 1, 0>>>>
    /\ PlaceOf(Edge(5, 3, k + 2)) = <<<<-1, -k, -1>>, <<-1, 0, 0>>>>
    /\ PlaceOf(Edge(5, 4, k + 2)) = <<<<k, -1, -1>>, <<0, -1, 0>>>>
<1>1. k \in Thirds /\ -k \in Thirds /\ 1 \in Thirds /\ -1 \in Thirds
      /\ -(-k) = k
  BY DEF Thirds
<1>2. Faces = {0, 1, 2, 3, 4, 5}
  BY FaceVectors
<1>3. PlaceOf(Edge(0, 1, k + 2)) = <<<<k, 1, 1>>, <<0, 1, 0>>>>
  <2>1. Edge(0, 1, k + 2) = <<2, Square(k, -1)>>
    BY Neighbours, EdgeSquares DEF Edge, adjacent_face
  <2>2. At(2, k, -1) = <<<<k, 1, 1>>, <<0, 1, 0>>>>
    <3>1. At(2, k, -1) = <<<<k, 1, -(-1)>>, <<0, 1, 0>>>>
      BY <1>1, AtValues, Zenon
    <3> QED
      BY <1>1, <3>1
  <2>3. PlaceOf(<<2, Square(k, -1)>>) = At(2, k, -1)
    BY <1>1, <1>2, PlaceOfAt
  <2> QED
    BY <2>1, <2>2, <2>3, Zenon
<1>4. PlaceOf(Edge(0, 2, k + 2)) = <<<<1, -k, 1>>, <<1, 0, 0>>>>
  <2>1. Edge(0, 2, k + 2) = <<1, Square(k, -1)>>
    BY Neighbours, EdgeSquares DEF Edge, adjacent_face
  <2>2. At(1, k, -1) = <<<<1, -k, 1>>, <<1, 0, 0>>>>
    <3>1. At(1, k, -1) = <<<<1, -k, -(-1)>>, <<1, 0, 0>>>>
      BY <1>1, AtValues, Zenon
    <3> QED
      BY <1>1, <3>1
  <2>3. PlaceOf(<<1, Square(k, -1)>>) = At(1, k, -1)
    BY <1>1, <1>2, PlaceOfAt
  <2> QED
    BY <2>1, <2>2, <2>3, Zenon
<1>5. PlaceOf(Edge(0, 3, k + 2)) = <<<<-k, -1, 1>>, <<0, -1, 0>>>>
  <2>1. Edge(0, 3, k + 2) = <<3, Square(k, -1)>>
    BY Neighbours, EdgeSquares DEF Edge, adjacent_face
  <2>2. At(3, k, -1) = <<<<-k, -1, 1>>, <<0, -1, 0>>>>
    <3>1. At(3, k, -1) = <<<<-k, -1, -(-1)>>, <<0, -1, 0>>>>
      BY <1>1, AtValues, Zenon
    <3> QED
      BY <1>1, <3>1
  <2>3. PlaceOf(<<3, Square(k, -1)>>) = At(3, k, -1)
    BY <1>1, <1>2, PlaceOfAt
  <2> QED
    BY <2>1, <2>2, <2>3, Zenon
<1>6. PlaceOf(Edge(0, 4, k + 2)) = <<<<-1, k, 1>>, <<-1, 0, 0>>>>
  <2>1. Edge(0, 4, k + 2) = <<4, Square(-k, 1)>>
    BY Neighbours, EdgeSquares DEF Edge, adjacent_face
  <2>2. At(4, -k, 1) = <<<<-1, k, 1>>, <<-1, 0, 0>>>>
    <3>1. At(4, -k, 1) = <<<<-1, -(-k), 1>>, <<-1, 0, 0>>>>
      BY <1>1, AtValues, Zenon
    <3> QED
      BY <1>1, <3>1
  <2>3. PlaceOf(<<4, Square(-k, 1)>>) = At(4, -k, 1)
    BY <1>1, <1>2, PlaceOfAt
  <2> QED
    BY <2>1, <2>2, <2>3, Zenon
<1>7. PlaceOf(Edge(1, 1, k + 2)) = <<<<1, k, 1>>, <<0, 0, 1>>>>
  <2>1. Edge(1, 1, k + 2) = <<0, Square(-k, 1)>>
    BY Neighbours, EdgeSquares DEF Edge, adjacent_face
  <2>2. At(0, -k, 1) = <<<<1, k, 1>>, <<0, 0, 1>>>>
    <3>1. At(0, -k, 1) = <<<<1, -(-k), 1>>, <<0, 0, 1>>>>
      BY <1>1, AtValues, Zenon
    <3> QED
      BY <1>1, <3>1
  <2>3. PlaceOf(<<0, Square(-k, 1)>>) = At(0, -k, 1)
    BY <1>1, <1>2, PlaceOfAt
  <2> QED
    BY <2>1, <2>2, <2>3, Zenon
<1>8. PlaceOf(Edge(1, 2, k + 2)) = <<<<1, 1, -k>>, <<0, 1, 0>>>>
  <2>1. Edge(1, 2, k + 2) = <<2, Square(1, k)>>
    BY Neighbours, EdgeSquares DEF Edge, adjacent_face
  <2>2. At(2, 1, k) = <<<<1, 1, -k>>, <<0, 1, 0>>>>
    BY <1>1, AtValues, Zenon
  <2>3. PlaceOf(<<2, Square(1, k)>>) = At(2, 1, k)
    BY <1>1, <1>2, PlaceOfAt
  <2> QED
    BY <2>1, <2>2, <2>3, Zenon
<1>9. PlaceOf(Edge(1, 3, k + 2)) = <<<<1, -k, -1>>, <<0, 0, -1>>>>
  <2>1. Edge(1, 3, k + 2) = <<5, Square(k, -1)>>
    BY Neighbours, EdgeSquares DEF Edge, adjacent_face
  <2>2. At(5, k, -1) = <<<<1, -k, -1>>, <<0, 0, -1>>>>
    <3>1. At(5, k, -1) = <<<<-(-1), -k, -1>>, <<0, 0, -1>>>>
      BY <1>1, AtValues, Zenon
    <3> QED
      BY <1>1, <3>1
  <2>3. PlaceOf(<<5, Square(k, -1)>>) = At(5, k, -1)
    BY <1>1, <1>2, PlaceOfAt
  <2> QED
    BY <2>1, <2>2, <2>3, Zenon
<1>10. PlaceOf(Edge(1, 4, k + 2)) = <<<<1, -1, k>>, <<0, -1, 0>>>>
  <2>1. Edge(1, 4, k + 2) = <<3, Square(-1, -k)>>
    BY Neighbours, EdgeSquares DEF Edge, adjacent_face
  <2>2. At(3, -1, -k) = <<<<1, -1, k>>, <<0, -1, 0>>>>
    <3>1. At(3, -1, -k) = <<<<-(-1), -1, -(-k)>>, <<0, -1, 0>>>>
      BY <1>1, AtValues, Zenon
    <3> QED
      BY <1>1, <3>1
  <2>3. PlaceOf(<<3, Square(-1, -k)>>) = At(3, -1, -k)
    BY <1>1, <1>2, PlaceOfAt
  <2> QED
    BY <2>1, <2>2, <2>3, Zenon
<1>11. PlaceOf(Edge(2, 1, k + 2)) = <<<<-k, 1, 1>>, <<0, 0, 1>>>>
  <2>1. Edge(2, 1, k + 2) = <<0, Square(-1, -k)>>
    BY Neighbours, EdgeSquares DEF Edge, adjacent_face
  <2>2. At(0, -1, -k) = <<<<-k, 1, 1>>, <<0, 0, 1>>>>
    <3>1. At(0, -1, -k) = <<<<-k, -(-1), 1>>, <<0, 0, 1>>>>
      BY <1>1, AtValues, Zenon
    <3> QED
      BY <1>1, <3>1
  <2>3. PlaceOf(<<0, Square(-1, -k)>>) = At(0, -1, -k)
    BY <1>1, <1>2, PlaceOfAt
  <2> QED
    BY <2>1, <2>2, <2>3, Zenon
<1>12. PlaceOf(Edge(2, 2, k + 2)) = <<<<-1, 1, -k>>, <<-1, 0, 0>>>>
  <2>1. Edge(2, 2, k + 2) = <<4, Square(-1, -k)>>
    BY Neighbours, EdgeSquares DEF Edge, adjacent_face
  <2>2. At(4, -1, -k) = <<<<-1, 1, -k>>, <<-1, 0, 0>>>>
    <3>1. At(4, -1, -k) = <<<<-1, -(-1), -k>>, <<-1, 0, 0>>>>
      BY <1>1, AtValues, Zenon
    <3> QED
      BY <1>1, <3>1
  <2>3. PlaceOf(<<4, Square(-1, -k)>>) = At(4, -1, -k)
    BY <1>1, <1>2, PlaceOfAt
  <2> QED
    BY <2>1, <2>2, <2>3, Zenon
<1>13. PlaceOf(Edge(2, 3, k + 2)) = <<<<k, 1, -1>>, <<0, 0, -1>>>>
  <2>1. Edge(2, 3, k + 2) = <<5, Square(-1, -k)>>
    BY Neighbours, EdgeSquares DEF Edge, adjacent_face
  <2>2. At(5, -1, -k) = <<<<k, 1, -1>>, <<0, 0, -1>>>>
    <3>1. At(5, -1, -k) = <<<<-(-k), -(-1), -1>>, <<0, 0, -1>>>>
      BY <1>1, AtValues, Zenon
    <3> QED
      BY <1>1, <3>1
  <2>3. PlaceOf(<<5, Square(-1, -k)>>) = At(5, -1, -k)
    BY <1>1, <1>2, PlaceOfAt
  <2> QED
    BY <2>1, <2>2, <2>3, Zenon
<1>14. PlaceOf(Edge(2, 4, k + 2)) = <<<<1, 1, k>>, <<1, 0, 0>>>>
  <2>1. Edge(2, 4, k + 2) = <<1, Square(-1, -k)>>
    BY Neighbours, EdgeSquares DEF Edge, adjacent_face
  <2>2. At(1, -1, -k) = <<<<1, 1, k>>, <<1, 0, 0>>>>
    <3>1. At(1, -1, -k) = <<<<1, -(-1), -(-k)>>, <<1, 0, 0>>>>
      BY <1>1, AtValues, Zenon
    <3> QED
      BY <1>1, <3>1
  <2>3. PlaceOf(<<1, Square(-1, -k)>>) = At(1, -1, -k)
    BY <1>1, <1>2, PlaceOfAt
  <2> QED
    BY <2>1, <2>2, <2>3, Zenon
<1>15. PlaceOf(Edge(3, 1, k + 2)) = <<<<k, -1, 1>>, <<0, 0, 1>>>>
  <2>1. Edge(3, 1, k + 2) = <<0, Square(1, k)>>
    BY Neighbours, EdgeSquares DEF Edge, adjacent_face
  <2>2. At(0, 1, k) = <<<<k, -1, 1>>, <<0, 0, 1>>>>
    BY <1>1, AtValues, Zenon
  <2>3. PlaceOf(<<0, Square(1, k)>>) = At(0, 1, k)
    BY <1>1, <1>2, PlaceOfAt
  <2> QED
    BY <2>1, <2>2, <2>3, Zenon
<1>16. PlaceOf(Edge(3, 2, k + 2)) = <<<<1, -1, -k>>, <<1, 0, 0>>>>
  <2>1. Edge(3, 2, k + 2) = <<1, Square(1, k)>>
    BY Neighbours, EdgeSquares DEF Edge, adjacent_face
  <2>2. At(1, 1, k) = <<<<1, -1, -k>>, <<1, 0, 0>>>>
    BY <1>1, AtValues, Zenon
  <2>3. PlaceOf(<<1, Square(1, k)>>) = At(1, 1, k)
    BY <1>1, <1>2, PlaceOfAt
  <2> QED
    BY <2>1, <2>2, <2>3, Zenon
<1>17. PlaceOf(Edge(3, 3, k + 2)) = <<<<-k, -1, -1>>, <<0, 0, -1>>>>
  <2>1. Edge(3, 3, k + 2) = <<5, Square(1, k)>>
    BY Neighbours, EdgeSquares DEF Edge, adjacent_face
  <2>2. At(5, 1, k) = <<<<-k, -1, -1>>, <<0, 0, -1>>>>
    BY <1>1, AtValues, Zenon
  <2>3. PlaceOf(<<5, Square(1, k)>>) = At(5, 1, k)
    BY <1>1, <1>2, PlaceOfAt
  <2> QED
    BY <2>1, <2>2, <2>3, Zenon
<1>18. PlaceOf(Edge(3, 4, k + 2)) = <<<<-1, -1, k>>, <<-1, 0, 0>>>>
  <2>1. Edge(3, 4, k + 2) = <<4, Square(1, k)>>
    BY Neighbours, EdgeSquares DEF Edge, adjacent_face
  <2>2. At(4, 1, k) = <<<<-1, -1, k>>, <<-1, 0, 0>>>>
    BY <1>1, AtValues, Zenon
  <2>3. PlaceOf(<<4, Square(1, k)>>) = At(4, 1, k)
    BY <1>1, <1>2, PlaceOfAt
  <2> QED
    BY <2>1, <2>2, <2>3, Zenon
<1>19. PlaceOf(Edge(4, 1, k + 2)) = <<<<-1, -k, 1>>, <<0, 0, 1>>>>
  <2>1. Edge(4, 1, k + 2) = <<0, Square(k, -1)>>
    BY Neighbours, EdgeSquares DEF Edge, adjacent_face
  <2>2. At(0, k, -1) = <<<<-1, -k, 1>>, <<0, 0, 1>>>>
    BY <1>1, AtValues, Zenon
  <2>3. PlaceOf(<<0, Square(k, -1)>>) = At(0, k, -1)
    BY <1>1, <1>2, PlaceOfAt
  <2> QED
    BY <2>1, <2>2, <2>3, Zenon
<1>20. PlaceOf(Edge(4, 2, k + 2)) = <<<<-1, -1, -k>>, <<0, -1, 0>>>>
  <2>1. Edge(4, 2, k + 2) = <<3, Square(1, k)>>
    BY Neighbours, EdgeSquares DEF Edge, adjacent_face
  <2>2. At(3, 1, k) = <<<<-1, -1, -k>>, <<0, -1, 0>>>>
    BY <1>1, AtValues, Zenon
  <2>3. PlaceOf(<<3, Square(1, k)>>) = At(3, 1, k)
    BY <1>1, <1>2, PlaceOfAt
  <2> QED
    BY <2>1, <2>2, <2>3, Zenon
<1>21. PlaceOf(Edge(4, 3, k + 2)) = <<<<-1, k, -1>>, <<0, 0, -1>>>>
  <2>1. Edge(4, 3, k + 2) = <<5, Square(-k, 1)>>
    BY Neighbours, EdgeSquares DEF Edge, adjacent_face
  <2>2. At(5, -k, 1) = <<<<-1, k, -1>>, <<0, 0, -1>>>>
    <3>1. At(5, -k, 1) = <<<<-1, -(-k), -1>>, <<0, 0, -1>>>>
      BY <1>1, AtValues, Zenon
    <3> QED
      BY <1>1, <3>1
  <2>3. PlaceOf(<<5, Square(-k, 1)>>) = At(5, -k, 1)
    BY <1>1, <1>2, PlaceOfAt
  <2> QED
    BY <2>1, <2>2, <2>3, Zenon
<1>22. PlaceOf(Edge(4, 4, k + 2)) = <<<<-1, 1, k>>, <<0, 1, 0>>>>
  <2>1. Edge(4, 4, k + 2) = <<2, Square(-1, -k)>>
    BY Neighbours, EdgeSquares DEF Edge, adjacent_face
  <2>2. At(2, -1, -k) = <<<<-1, 1, k>>, <<0, 1, 0>>>>
    <3>1. At(2, -1, -k) = <<<<-1, 1, -(-k)>>, <<0, 1, 0>>>>
      BY <1>1, AtValues, Zenon
    <3> QED
      BY <1>1, <3>1
  <2>3. PlaceOf(<<2, Square(-1, -k)>>) = At(2, -1, -k)
    BY <1>1, <1>2, PlaceOfAt
  <2> QED
    BY <2>1, <2>2, <2>3, Zenon
<1>23. PlaceOf(Edge(5, 1, k + 2)) = <<<<1, k, -1>>, <<1, 0, 0>>>>
  <2>1. Edge(5, 1, k + 2) = <<1, Square(-k, 1)>>
    BY Neighbours, EdgeSquares DEF Edge, adjacent_face
  <2>2. At(1, -k, 1) = <<<<1, k, -1>>, <<1, 0, 0>>>>
    <3>1. At(1, -k, 1) = <<<<1, -(-k), -1>>, <<1, 0, 0>>>>
      BY <1>1, AtValues, Zenon
    <3> QED
      BY <1>1, <3>1
  <2>3. PlaceOf(<<1, Square(-k, 1)>>) = At(1, -k, 1)
    BY <1>1, <1>2, PlaceOfAt
  <2> QED
    BY <2>1, <2>2, <2>3, Zenon
<1>24. PlaceOf(Edge(5, 2, k + 2)) = <<<<-k, 1, -1>>, <<0, 1, 0>>>>
  <2>1. Edge(5, 2, k + 2) = <<2, Square(-k, 1)>>
    BY Neighbours, EdgeSquares DEF Edge, adjacent_face
  <2>2. At(2, -k, 1) = <<<<-k, 1, -1>>, <<0, 1, 0>>>>
    BY <1>1, AtValues, Zenon
  <2>3. PlaceOf(<<2, Square(-k, 1)>>) = At(2, -k, 1)
    BY <1>1, <1>2, PlaceOfAt
  <2> QED
    BY <2>1, <2>2, <2>3, Zenon
<1>25. PlaceOf(Edge(5, 3, k + 2)) = <<<<-1, -k, -1>>, <<-1, 0, 0>>>>
  <2>1. Edge(5, 3, k + 2) = <<4, Square(k, -1)>>
    BY Neighbours, EdgeSquares DEF Edge, adjacent_face
  <2>2. At(4, k, -1) = <<<<-1, -k, -1>>, <<-1, 0, 0>>>>
    BY <1>1, AtValues, Zenon
  <2>3. PlaceOf(<<4, Square(k, -1)>>) = At(4, k, -1)
    BY <1>1, <1>2, PlaceOfAt
  <2> QED
    BY <2>1, <2>2, <2>3, Zenon
<1>26. PlaceOf(Edge(5, 4, k + 2)) = <<<<k, -1, -1>>, <<0, -1, 0>>>>
  <2>1. Edge(5, 4, k + 2) = <<3, Square(-k, 1)>>
    BY Neighbours, EdgeSquares DEF Edge, adjacent_face
  <2>2. At(3, -k, 1) = <<<<k, -1, -1>>, <<0, -1, 0>>>>
    <3>1. At(3, -k, 1) = <<<<-(-k), -1, -1>>, <<0, -1, 0>>>>
      BY <1>1, AtValues, Zenon
    <3> QED
      BY <1>1, <3>1
  <2>3. PlaceOf(<<3, Square(-k, 1)>>) = At(3, -k, 1)
    BY <1>1, <1>2, PlaceOfAt
  <2> QED
    BY <2>1, <2>2, <2>3, Zenon
<1> QED
  BY <1>3, <1>4, <1>5, <1>6, <1>7, <1>8, <1>9, <1>10, <1>11, <1>12, <1>13,
     <1>14, <1>15, <1>16, <1>17, <1>18, <1>19, <1>20, <1>21, <1>22, <1>23,
     <1>24, <1>25, <1>26

-----------------------------------------------------------------------------
(***************************************************************************)
(* What rotate does in space: the moves of a turn, one by one.             *)
(***************************************************************************)
(* Where the stickers of a layer come from when its face is turned, in     *)
(* coordinates.                                                            *)
LEMMA LayerTurns ==
  ASSUME NEW d \in Directions
  PROVE
    /\ d = 0 =>
         \A x, y, z, a, b, c \in Int :
           z = 1 => ComesFrom(Normal[0], d = 0, <<<<x, y, z>>, <<a, b, c>>>>)
             = <<<<-y, x, z>>, <<-b, a, c>>>>
    /\ d = 1 =>
         \A x, y, z, a, b, c \in Int :
           z = 1 => ComesFrom(Normal[0], d = 0, <<<<x, y, z>>, <<a, b, c>>>>)
             = <<<<y, -x, z>>, <<b, -a, c>>>>
    /\ d = 0 =>
         \A x, y, z, a, b, c \in Int :
           x = 1 => ComesFrom(Normal[1], d = 0, <<<<x, y, z>>, <<a, b, c>>>>)
             = <<<<x, -z, y>>, <<a, -c, b>>>>
    /\ d = 1 =>
         \A x, y, z, a, b, c \in Int :
           x = 1 => ComesFrom(Normal[1], d = 0, <<<<x, y, z>>, <<a, b, c>>>>)
             = <<<<x, z, -y>>, <<a, c, -b>>>>
    /\ d = 0 =>
         \A x, y, z, a, b, c \in Int :
           y = 1 => ComesFrom(Normal[2], d = 0, <<<<x, y, z>>, <<a, b, c>>>>)
             = <<<<z, y, -x>>, <<c, b, -a>>>>
    /\ d = 1 =>
         \A x, y, z, a, b, c \in Int :
           y = 1 => ComesFrom(Normal[2], d = 0, <<<<x, y, z>>, <<a, b, c>>>>)
             = <<<<-z, y, x>>, <<-c, b, a>>>>
    /\ d = 0 =>
         \A x, y, z, a, b, c \in Int :
           y = -1 => ComesFrom(Normal[3], d = 0, <<<<x, y, z>>, <<a, b, c>>>>)
             = <<<<-z, y, x>>, <<-c, b, a>>>>
    /\ d = 1 =>
         \A x, y, z, a, b, c \in Int :
           y = -1 => ComesFrom(Normal[3], d = 0, <<<<x, y, z>>, <<a, b, c>>>>)
             = <<<<z, y, -x>>, <<c, b, -a>>>>
    /\ d = 0 =>
         \A x, y, z, a, b, c \in Int :
           x = -1 => ComesFrom(Normal[4], d = 0, <<<<x, y, z>>, <<a, b, c>>>>)
             = <<<<x, z, -y>>, <<a, c, -b>>>>
    /\ d = 1 =>
         \A x, y, z, a, b, c \in Int :
           x = -1 => ComesFrom(Normal[4], d = 0, <<<<x, y, z>>, <<a, b, c>>>>)
             = <<<<x, -z, y>>, <<a, -c, b>>>>
    /\ d = 0 =>
         \A x, y, z, a, b, c \in Int :
           z = -1 => ComesFrom(Normal[5], d = 0, <<<<x, y, z>>, <<a, b, c>>>>)
             = <<<<y, -x, z>>, <<b, -a, c>>>>
    /\ d = 1 =>
         \A x, y, z, a, b, c \in Int :
           z = -1 => ComesFrom(Normal[5], d = 0, <<<<x, y, z>>, <<a, b, c>>>>)
             = <<<<-y, x, z>>, <<-b, a, c>>>>
<1>1. ASSUME NEW m, NEW p, Dot(p[1], m) = 1, d = 0
      PROVE  ComesFrom(m, d = 0, p)
               = <<QuarterTurn(m, p[1]), QuarterTurn(m, p[2])>>
  BY <1>1 DEF ComesFrom
<1>2. ASSUME NEW m, NEW p, Dot(p[1], m) = 1, d = 1
      PROVE  ComesFrom(m, d = 0, p)
               = <<QuarterTurn(Times(-1, m), p[1]),
                   QuarterTurn(Times(-1, m), p[2])>>
  BY <1>2 DEF ComesFrom
<1>3. ASSUME d = 0,
             NEW x \in Int, NEW y \in Int, NEW z \in Int,
             NEW a \in Int, NEW b \in Int, NEW c \in Int, z = 1
      PROVE  ComesFrom(Normal[0], d = 0, <<<<x, y, z>>, <<a, b, c>>>>)
               = <<<<-y, x, z>>, <<-b, a, c>>>>
  <2> DEFINE p == <<<<x, y, z>>, <<a, b, c>>>>
  <2>1. p[1] = <<x, y, z>> /\ p[2] = <<a, b, c>>
    OBVIOUS
  <2>2. Normal[0] = <<0, 0, 1>>
    BY FaceVectors
  <2>3. Dot(p[1], <<0, 0, 1>>) = 1
    BY <1>3 DEF Dot
  <2>4. /\ QuarterTurn(<<0, 0, 1>>, <<x, y, z>>) = <<-y, x, z>>
        /\ QuarterTurn(<<0, 0, 1>>, <<a, b, c>>) = <<-b, a, c>>
    BY DEF QuarterTurn, Plus, Times, Dot, Cross
  <2> HIDE DEF p
  <2>5. ComesFrom(<<0, 0, 1>>, d = 0, p)
          = <<QuarterTurn(<<0, 0, 1>>, p[1]),
              QuarterTurn(<<0, 0, 1>>, p[2])>>
    BY <1>1, <1>3, <2>3, Zenon
  <2>6. ComesFrom(Normal[0], d = 0, p) = <<<<-y, x, z>>, <<-b, a, c>>>>
    BY <2>1, <2>2, <2>4, <2>5, Zenon
  <2> QED
    BY <2>6 DEF p
<1>4. ASSUME d = 1,
             NEW x \in Int, NEW y \in Int, NEW z \in Int,
             NEW a \in Int, NEW b \in Int, NEW c \in Int, z = 1
      PROVE  ComesFrom(Normal[0], d = 0, <<<<x, y, z>>, <<a, b, c>>>>)
               = <<<<y, -x, z>>, <<b, -a, c>>>>
  <2> DEFINE p == <<<<x, y, z>>, <<a, b, c>>>>
  <2>1. p[1] = <<x, y, z>> /\ p[2] = <<a, b, c>>
    OBVIOUS
  <2>2. Normal[0] = <<0, 0, 1>>
    BY FaceVectors
  <2>3. Dot(p[1], <<0, 0, 1>>) = 1
    BY <1>4 DEF Dot
  <2>4. Times(-1, <<0, 0, 1>>) = <<0, 0, -1>>
    BY DEF Times
  <2>5. /\ QuarterTurn(<<0, 0, -1>>, <<x, y, z>>) = <<y, -x, z>>
        /\ QuarterTurn(<<0, 0, -1>>, <<a, b, c>>) = <<b, -a, c>>
    BY DEF QuarterTurn, Plus, Times, Dot, Cross
  <2> HIDE DEF p
  <2>6. ComesFrom(<<0, 0, 1>>, d = 0, p)
          = <<QuarterTurn(<<0, 0, -1>>, p[1]),
              QuarterTurn(<<0, 0, -1>>, p[2])>>
    <3> DEFINE m == <<0, 0, 1>>
    <3>1. Times(-1, m) = <<0, 0, -1>> /\ Dot(p[1], m) = 1
      BY <2>3, <2>4
    <3> HIDE DEF m
    <3>2. ComesFrom(m, d = 0, p)
            = <<QuarterTurn(Times(-1, m), p[1]),
                QuarterTurn(Times(-1, m), p[2])>>
      BY <1>2, <1>4, <3>1, Zenon
    <3>3. ComesFrom(m, d = 0, p) = <<QuarterTurn(<<0, 0, -1>>, p[1]),
                                     QuarterTurn(<<0, 0, -1>>, p[2])>>
      BY <3>1, <3>2, Zenon
    <3> QED
      BY <3>3 DEF m
  <2>7. ComesFrom(Normal[0], d = 0, p) = <<<<y, -x, z>>, <<b, -a, c>>>>
    BY <2>1, <2>2, <2>5, <2>6, Zenon
  <2> QED
    BY <2>7 DEF p
<1>5. ASSUME d = 0,
             NEW x \in Int, NEW y \in Int, NEW z \in Int,
             NEW a \in Int, NEW b \in Int, NEW c \in Int, x = 1
      PROVE  ComesFrom(Normal[1], d = 0, <<<<x, y, z>>, <<a, b, c>>>>)
               = <<<<x, -z, y>>, <<a, -c, b>>>>
  <2> DEFINE p == <<<<x, y, z>>, <<a, b, c>>>>
  <2>1. p[1] = <<x, y, z>> /\ p[2] = <<a, b, c>>
    OBVIOUS
  <2>2. Normal[1] = <<1, 0, 0>>
    BY FaceVectors
  <2>3. Dot(p[1], <<1, 0, 0>>) = 1
    BY <1>5 DEF Dot
  <2>4. /\ QuarterTurn(<<1, 0, 0>>, <<x, y, z>>) = <<x, -z, y>>
        /\ QuarterTurn(<<1, 0, 0>>, <<a, b, c>>) = <<a, -c, b>>
    BY DEF QuarterTurn, Plus, Times, Dot, Cross
  <2> HIDE DEF p
  <2>5. ComesFrom(<<1, 0, 0>>, d = 0, p)
          = <<QuarterTurn(<<1, 0, 0>>, p[1]),
              QuarterTurn(<<1, 0, 0>>, p[2])>>
    BY <1>1, <1>5, <2>3, Zenon
  <2>6. ComesFrom(Normal[1], d = 0, p) = <<<<x, -z, y>>, <<a, -c, b>>>>
    BY <2>1, <2>2, <2>4, <2>5, Zenon
  <2> QED
    BY <2>6 DEF p
<1>6. ASSUME d = 1,
             NEW x \in Int, NEW y \in Int, NEW z \in Int,
             NEW a \in Int, NEW b \in Int, NEW c \in Int, x = 1
      PROVE  ComesFrom(Normal[1], d = 0, <<<<x, y, z>>, <<a, b, c>>>>)
               = <<<<x, z, -y>>, <<a, c, -b>>>>
  <2> DEFINE p == <<<<x, y, z>>, <<a, b, c>>>>
  <2>1. p[1] = <<x, y, z>> /\ p[2] = <<a, b, c>>
    OBVIOUS
  <2>2. Normal[1] = <<1, 0, 0>>
    BY FaceVectors
  <2>3. Dot(p[1], <<1, 0, 0>>) = 1
    BY <1>6 DEF Dot
  <2>4. Times(-1, <<1, 0, 0>>) = <<-1, 0, 0>>
    BY DEF Times
  <2>5. /\ QuarterTurn(<<-1, 0, 0>>, <<x, y, z>>) = <<x, z, -y>>
        /\ QuarterTurn(<<-1, 0, 0>>, <<a, b, c>>) = <<a, c, -b>>
    BY DEF QuarterTurn, Plus, Times, Dot, Cross
  <2> HIDE DEF p
  <2>6. ComesFrom(<<1, 0, 0>>, d = 0, p)
          = <<QuarterTurn(<<-1, 0, 0>>, p[1]),
              QuarterTurn(<<-1, 0, 0>>, p[2])>>
    <3> DEFINE m == <<1, 0, 0>>
    <3>1. Times(-1, m) = <<-1, 0, 0>> /\ Dot(p[1], m) = 1
      BY <2>3, <2>4
    <3> HIDE DEF m
    <3>2. ComesFrom(m, d = 0, p)
            = <<QuarterTurn(Times(-1, m), p[1]),
                QuarterTurn(Times(-1, m), p[2])>>
      BY <1>2, <1>6, <3>1, Zenon
    <3>3. ComesFrom(m, d = 0, p) = <<QuarterTurn(<<-1, 0, 0>>, p[1]),
                                     QuarterTurn(<<-1, 0, 0>>, p[2])>>
      BY <3>1, <3>2, Zenon
    <3> QED
      BY <3>3 DEF m
  <2>7. ComesFrom(Normal[1], d = 0, p) = <<<<x, z, -y>>, <<a, c, -b>>>>
    BY <2>1, <2>2, <2>5, <2>6, Zenon
  <2> QED
    BY <2>7 DEF p
<1>7. ASSUME d = 0,
             NEW x \in Int, NEW y \in Int, NEW z \in Int,
             NEW a \in Int, NEW b \in Int, NEW c \in Int, y = 1
      PROVE  ComesFrom(Normal[2], d = 0, <<<<x, y, z>>, <<a, b, c>>>>)
               = <<<<z, y, -x>>, <<c, b, -a>>>>
  <2> DEFINE p == <<<<x, y, z>>, <<a, b, c>>>>
  <2>1. p[1] = <<x, y, z>> /\ p[2] = <<a, b, c>>
    OBVIOUS
  <2>2. Normal[2] = <<0, 1, 0>>
    BY FaceVectors
  <2>3. Dot(p[1], <<0, 1, 0>>) = 1
    BY <1>7 DEF Dot
  <2>4. /\ QuarterTurn(<<0, 1, 0>>, <<x, y, z>>) = <<z, y, -x>>
        /\ QuarterTurn(<<0, 1, 0>>, <<a, b, c>>) = <<c, b, -a>>
    BY DEF QuarterTurn, Plus, Times, Dot, Cross
  <2> HIDE DEF p
  <2>5. ComesFrom(<<0, 1, 0>>, d = 0, p)
          = <<QuarterTurn(<<0, 1, 0>>, p[1]),
              QuarterTurn(<<0, 1, 0>>, p[2])>>
    BY <1>1, <1>7, <2>3, Zenon
  <2>6. ComesFrom(Normal[2], d = 0, p) = <<<<z, y, -x>>, <<c, b, -a>>>>
    BY <2>1, <2>2, <2>4, <2>5, Zenon
  <2> QED
    BY <2>6 DEF p
<1>8. ASSUME d = 1,
             NEW x \in Int, NEW y \in Int, NEW z \in Int,
             NEW a \in Int, NEW b \in Int, NEW c \in Int, y = 1
      PROVE  ComesFrom(Normal[2], d = 0, <<<<x, y, z>>, <<a, b, c>>>>)
               = <<<<-z, y, x>>, <<-c, b, a>>>>
  <2> DEFINE p == <<<<x, y, z>>, <<a, b, c>>>>
  <2>1. p[1] = <<x, y, z>> /\ p[2] = <<a, b, c>>
    OBVIOUS
  <2>2. Normal[2] = <<0, 1, 0>>
    BY FaceVectors
  <2>3. Dot(p[1], <<0, 1, 0>>) = 1
    BY <1>8 DEF Dot
  <2>4. Times(-1, <<0, 1, 0>>) = <<0, -1, 0>>
    BY DEF Times
  <2>5. /\ QuarterTurn(<<0, -1, 0>>, <<x, y, z>>) = <<-z, y, x>>
        /\ QuarterTurn(<<0, -1, 0>>, <<a, b, c>>) = <<-c, b, a>>
    BY DEF QuarterTurn, Plus, Times, Dot, Cross
  <2> HIDE DEF p
  <2>6. ComesFrom(<<0, 1, 0>>, d = 0, p)
          = <<QuarterTurn(<<0, -1, 0>>, p[1]),
              QuarterTurn(<<0, -1, 0>>, p[2])>>
    <3> DEFINE m == <<0, 1, 0>>
    <3>1. Times(-1, m) = <<0, -1, 0>> /\ Dot(p[1], m) = 1
      BY <2>3, <2>4
    <3> HIDE DEF m
    <3>2. ComesFrom(m, d = 0, p)
            = <<QuarterTurn(Times(-1, m), p[1]),
                QuarterTurn(Times(-1, m), p[2])>>
      BY <1>2, <1>8, <3>1, Zenon
    <3>3. ComesFrom(m, d = 0, p) = <<QuarterTurn(<<0, -1, 0>>, p[1]),
                                     QuarterTurn(<<0, -1, 0>>, p[2])>>
      BY <3>1, <3>2, Zenon
    <3> QED
      BY <3>3 DEF m
  <2>7. ComesFrom(Normal[2], d = 0, p) = <<<<-z, y, x>>, <<-c, b, a>>>>
    BY <2>1, <2>2, <2>5, <2>6, Zenon
  <2> QED
    BY <2>7 DEF p
<1>9. ASSUME d = 0,
             NEW x \in Int, NEW y \in Int, NEW z \in Int,
             NEW a \in Int, NEW b \in Int, NEW c \in Int, y = -1
      PROVE  ComesFrom(Normal[3], d = 0, <<<<x, y, z>>, <<a, b, c>>>>)
               = <<<<-z, y, x>>, <<-c, b, a>>>>
  <2> DEFINE p == <<<<x, y, z>>, <<a, b, c>>>>
  <2>1. p[1] = <<x, y, z>> /\ p[2] = <<a, b, c>>
    OBVIOUS
  <2>2. Normal[3] = <<0, -1, 0>>
    BY FaceVectors
  <2>3. Dot(p[1], <<0, -1, 0>>) = 1
    BY <1>9 DEF Dot
  <2>4. /\ QuarterTurn(<<0, -1, 0>>, <<x, y, z>>) = <<-z, y, x>>
        /\ QuarterTurn(<<0, -1, 0>>, <<a, b, c>>) = <<-c, b, a>>
    BY DEF QuarterTurn, Plus, Times, Dot, Cross
  <2> HIDE DEF p
  <2>5. ComesFrom(<<0, -1, 0>>, d = 0, p)
          = <<QuarterTurn(<<0, -1, 0>>, p[1]),
              QuarterTurn(<<0, -1, 0>>, p[2])>>
    BY <1>1, <1>9, <2>3, Zenon
  <2>6. ComesFrom(Normal[3], d = 0, p) = <<<<-z, y, x>>, <<-c, b, a>>>>
    BY <2>1, <2>2, <2>4, <2>5, Zenon
  <2> QED
    BY <2>6 DEF p
<1>10. ASSUME d = 1,
             NEW x \in Int, NEW y \in Int, NEW z \in Int,
             NEW a \in Int, NEW b \in Int, NEW c \in Int, y = -1
      PROVE  ComesFrom(Normal[3], d = 0, <<<<x, y, z>>, <<a, b, c>>>>)
               = <<<<z, y, -x>>, <<c, b, -a>>>>
  <2> DEFINE p == <<<<x, y, z>>, <<a, b, c>>>>
  <2>1. p[1] = <<x, y, z>> /\ p[2] = <<a, b, c>>
    OBVIOUS
  <2>2. Normal[3] = <<0, -1, 0>>
    BY FaceVectors
  <2>3. Dot(p[1], <<0, -1, 0>>) = 1
    BY <1>10 DEF Dot
  <2>4. Times(-1, <<0, -1, 0>>) = <<0, 1, 0>>
    BY DEF Times
  <2>5. /\ QuarterTurn(<<0, 1, 0>>, <<x, y, z>>) = <<z, y, -x>>
        /\ QuarterTurn(<<0, 1, 0>>, <<a, b, c>>) = <<c, b, -a>>
    BY DEF QuarterTurn, Plus, Times, Dot, Cross
  <2> HIDE DEF p
  <2>6. ComesFrom(<<0, -1, 0>>, d = 0, p)
          = <<QuarterTurn(<<0, 1, 0>>, p[1]),
              QuarterTurn(<<0, 1, 0>>, p[2])>>
    <3> DEFINE m == <<0, -1, 0>>
    <3>1. Times(-1, m) = <<0, 1, 0>> /\ Dot(p[1], m) = 1
      BY <2>3, <2>4
    <3> HIDE DEF m
    <3>2. ComesFrom(m, d = 0, p)
            = <<QuarterTurn(Times(-1, m), p[1]),
                QuarterTurn(Times(-1, m), p[2])>>
      BY <1>2, <1>10, <3>1, Zenon
    <3>3. ComesFrom(m, d = 0, p) = <<QuarterTurn(<<0, 1, 0>>, p[1]),
                                     QuarterTurn(<<0, 1, 0>>, p[2])>>
      BY <3>1, <3>2, Zenon
    <3> QED
      BY <3>3 DEF m
  <2>7. ComesFrom(Normal[3], d = 0, p) = <<<<z, y, -x>>, <<c, b, -a>>>>
    BY <2>1, <2>2, <2>5, <2>6, Zenon
  <2> QED
    BY <2>7 DEF p
<1>11. ASSUME d = 0,
             NEW x \in Int, NEW y \in Int, NEW z \in Int,
             NEW a \in Int, NEW b \in Int, NEW c \in Int, x = -1
      PROVE  ComesFrom(Normal[4], d = 0, <<<<x, y, z>>, <<a, b, c>>>>)
               = <<<<x, z, -y>>, <<a, c, -b>>>>
  <2> DEFINE p == <<<<x, y, z>>, <<a, b, c>>>>
  <2>1. p[1] = <<x, y, z>> /\ p[2] = <<a, b, c>>
    OBVIOUS
  <2>2. Normal[4] = <<-1, 0, 0>>
    BY FaceVectors
  <2>3. Dot(p[1], <<-1, 0, 0>>) = 1
    BY <1>11 DEF Dot
  <2>4. /\ QuarterTurn(<<-1, 0, 0>>, <<x, y, z>>) = <<x, z, -y>>
        /\ QuarterTurn(<<-1, 0, 0>>, <<a, b, c>>) = <<a, c, -b>>
    BY DEF QuarterTurn, Plus, Times, Dot, Cross
  <2> HIDE DEF p
  <2>5. ComesFrom(<<-1, 0, 0>>, d = 0, p)
          = <<QuarterTurn(<<-1, 0, 0>>, p[1]),
              QuarterTurn(<<-1, 0, 0>>, p[2])>>
    BY <1>1, <1>11, <2>3, Zenon
  <2>6. ComesFrom(Normal[4], d = 0, p) = <<<<x, z, -y>>, <<a, c, -b>>>>
    BY <2>1, <2>2, <2>4, <2>5, Zenon
  <2> QED
    BY <2>6 DEF p
<1>12. ASSUME d = 1,
             NEW x \in Int, NEW y \in Int, NEW z \in Int,
             NEW a \in Int, NEW b \in Int, NEW c \in Int, x = -1
      PROVE  ComesFrom(Normal[4], d = 0, <<<<x, y, z>>, <<a, b, c>>>>)
               = <<<<x, -z, y>>, <<a, -c, b>>>>
  <2> DEFINE p == <<<<x, y, z>>, <<a, b, c>>>>
  <2>1. p[1] = <<x, y, z>> /\ p[2] = <<a, b, c>>
    OBVIOUS
  <2>2. Normal[4] = <<-1, 0, 0>>
    BY FaceVectors
  <2>3. Dot(p[1], <<-1, 0, 0>>) = 1
    BY <1>12 DEF Dot
  <2>4. Times(-1, <<-1, 0, 0>>) = <<1, 0, 0>>
    BY DEF Times
  <2>5. /\ QuarterTurn(<<1, 0, 0>>, <<x, y, z>>) = <<x, -z, y>>
        /\ QuarterTurn(<<1, 0, 0>>, <<a, b, c>>) = <<a, -c, b>>
    BY DEF QuarterTurn, Plus, Times, Dot, Cross
  <2> HIDE DEF p
  <2>6. ComesFrom(<<-1, 0, 0>>, d = 0, p)
          = <<QuarterTurn(<<1, 0, 0>>, p[1]),
              QuarterTurn(<<1, 0, 0>>, p[2])>>
    <3> DEFINE m == <<-1, 0, 0>>
    <3>1. Times(-1, m) = <<1, 0, 0>> /\ Dot(p[1], m) = 1
      BY <2>3, <2>4
    <3> HIDE DEF m
    <3>2. ComesFrom(m, d = 0, p)
            = <<QuarterTurn(Times(-1, m), p[1]),
                QuarterTurn(Times(-1, m), p[2])>>
      BY <1>2, <1>12, <3>1, Zenon
    <3>3. ComesFrom(m, d = 0, p) = <<QuarterTurn(<<1, 0, 0>>, p[1]),
                                     QuarterTurn(<<1, 0, 0>>, p[2])>>
      BY <3>1, <3>2, Zenon
    <3> QED
      BY <3>3 DEF m
  <2>7. ComesFrom(Normal[4], d = 0, p) = <<<<x, -z, y>>, <<a, -c, b>>>>
    BY <2>1, <2>2, <2>5, <2>6, Zenon
  <2> QED
    BY <2>7 DEF p
<1>13. ASSUME d = 0,
             NEW x \in Int, NEW y \in Int, NEW z \in Int,
             NEW a \in Int, NEW b \in Int, NEW c \in Int, z = -1
      PROVE  ComesFrom(Normal[5], d = 0, <<<<x, y, z>>, <<a, b, c>>>>)
               = <<<<y, -x, z>>, <<b, -a, c>>>>
  <2> DEFINE p == <<<<x, y, z>>, <<a, b, c>>>>
  <2>1. p[1] = <<x, y, z>> /\ p[2] = <<a, b, c>>
    OBVIOUS
  <2>2. Normal[5] = <<0, 0, -1>>
    BY FaceVectors
  <2>3. Dot(p[1], <<0, 0, -1>>) = 1
    BY <1>13 DEF Dot
  <2>4. /\ QuarterTurn(<<0, 0, -1>>, <<x, y, z>>) = <<y, -x, z>>
        /\ QuarterTurn(<<0, 0, -1>>, <<a, b, c>>) = <<b, -a, c>>
    BY DEF QuarterTurn, Plus, Times, Dot, Cross
  <2> HIDE DEF p
  <2>5. ComesFrom(<<0, 0, -1>>, d = 0, p)
          = <<QuarterTurn(<<0, 0, -1>>, p[1]),
              QuarterTurn(<<0, 0, -1>>, p[2])>>
    BY <1>1, <1>13, <2>3, Zenon
  <2>6. ComesFrom(Normal[5], d = 0, p) = <<<<y, -x, z>>, <<b, -a, c>>>>
    BY <2>1, <2>2, <2>4, <2>5, Zenon
  <2> QED
    BY <2>6 DEF p
<1>14. ASSUME d = 1,
             NEW x \in Int, NEW y \in Int, NEW z \in Int,
             NEW a \in Int, NEW b \in Int, NEW c \in Int, z = -1
      PROVE  ComesFrom(Normal[5], d = 0, <<<<x, y, z>>, <<a, b, c>>>>)
               = <<<<-y, x, z>>, <<-b, a, c>>>>
  <2> DEFINE p == <<<<x, y, z>>, <<a, b, c>>>>
  <2>1. p[1] = <<x, y, z>> /\ p[2] = <<a, b, c>>
    OBVIOUS
  <2>2. Normal[5] = <<0, 0, -1>>
    BY FaceVectors
  <2>3. Dot(p[1], <<0, 0, -1>>) = 1
    BY <1>14 DEF Dot
  <2>4. Times(-1, <<0, 0, -1>>) = <<0, 0, 1>>
    BY DEF Times
  <2>5. /\ QuarterTurn(<<0, 0, 1>>, <<x, y, z>>) = <<-y, x, z>>
        /\ QuarterTurn(<<0, 0, 1>>, <<a, b, c>>) = <<-b, a, c>>
    BY DEF QuarterTurn, Plus, Times, Dot, Cross
  <2> HIDE DEF p
  <2>6. ComesFrom(<<0, 0, -1>>, d = 0, p)
          = <<QuarterTurn(<<0, 0, 1>>, p[1]),
              QuarterTurn(<<0, 0, 1>>, p[2])>>
    <3> DEFINE m == <<0, 0, -1>>
    <3>1. Times(-1, m) = <<0, 0, 1>> /\ Dot(p[1], m) = 1
      BY <2>3, <2>4
    <3> HIDE DEF m
    <3>2. ComesFrom(m, d = 0, p)
            = <<QuarterTurn(Times(-1, m), p[1]),
                QuarterTurn(Times(-1, m), p[2])>>
      BY <1>2, <1>14, <3>1, Zenon
    <3>3. ComesFrom(m, d = 0, p) = <<QuarterTurn(<<0, 0, 1>>, p[1]),
                                     QuarterTurn(<<0, 0, 1>>, p[2])>>
      BY <3>1, <3>2, Zenon
    <3> QED
      BY <3>3 DEF m
  <2>7. ComesFrom(Normal[5], d = 0, p) = <<<<-y, x, z>>, <<-b, a, c>>>>
    BY <2>1, <2>2, <2>5, <2>6, Zenon
  <2> QED
    BY <2>7 DEF p
<1> QED
  BY <1>3, <1>4, <1>5, <1>6, <1>7, <1>8, <1>9, <1>10, <1>11, <1>12, <1>13,
     <1>14

(* rotate's loop over the neighbours: what arrives at an edge square comes *)
(* from where a quarter turn of the layer brings it from.                  *)
LEMMA EdgeMoves ==
  ASSUME NEW f \in Faces, NEW d \in Directions,
         NEW i \in 1 .. N_EDGES_PER_SIDE, NEW j \in 1 .. N_SQUARES_PER_SIDE
  PROVE  PlaceOf(Edge(f, i, j))
           = ComesFrom(Normal[f], d = 0,
                       PlaceOf(Edge(f, next_adjacent_face(i, d), j)))
<1>1. i \in {1, 2, 3, 4} /\ d \in {0, 1} /\ f \in {0, 1, 2, 3, 4, 5}
  BY FaceVectors DEF N_EDGES_PER_SIDE, Directions
<1>2. PICK k \in Thirds : j = k + 2
  <2>1. j - 2 \in Thirds /\ j = (j - 2) + 2
    BY DEF N_SQUARES_PER_SIDE, Thirds
  <2> QED
    BY <2>1
<1>3. /\ k \in Int
      /\ -k \in Int
      /\ -(-k) = k
      /\ 0 \in Int
      /\ 1 \in Int
      /\ -1 \in Int
  BY DEF Thirds
<1>4. /\ next_adjacent_face(1, 0) = 2 /\ next_adjacent_face(2, 0) = 3
      /\ next_adjacent_face(3, 0) = 4 /\ next_adjacent_face(4, 0) = 1
      /\ next_adjacent_face(1, 1) = 4 /\ next_adjacent_face(2, 1) = 1
      /\ next_adjacent_face(3, 1) = 2 /\ next_adjacent_face(4, 1) = 3
  BY DEF next_adjacent_face, N_EDGES_PER_SIDE
<1> DEFINE P(g, n) == PlaceOf(Edge(g, n, k + 2))
           C(g, p) == ComesFrom(Normal[g], d = 0, p)
<1>5. CASE f = 0 /\ d = 0
  <2>1. \A x, y, z, a, b, c \in Int :
          z = 1 => C(0, <<<<x, y, z>>, <<a, b, c>>>>)
            = <<<<-y, x, z>>, <<-b, a, c>>>>
    <3>1. d = 0
      BY <1>5
    <3> QED
      BY <3>1, LayerTurns, Zenon
  <2>2. P(0, 1) = C(0, P(0, 2))
    <3> HIDE DEF C
    <3>1. C(0, <<<<1, -k, 1>>, <<1, 0, 0>>>>) = <<<<k, 1, 1>>, <<0, 1, 0>>>>
      BY <1>3, <2>1
    <3> QED
      BY <3>1, EdgePlaces, Zenon
  <2>3. P(0, 2) = C(0, P(0, 3))
    <3> HIDE DEF C
    <3>1. C(0, <<<<-k, -1, 1>>, <<0, -1, 0>>>>) = <<<<1, -k, 1>>, <<1, 0, 0>>>>
      BY <1>3, <2>1
    <3> QED
      BY <3>1, EdgePlaces, Zenon
  <2>4. P(0, 3) = C(0, P(0, 4))
    <3> HIDE DEF C
    <3>1. C(0, <<<<-1, k, 1>>, <<-1, 0, 0>>>>)
            = <<<<-k, -1, 1>>, <<0, -1, 0>>>>
      BY <1>3, <2>1
    <3> QED
      BY <3>1, EdgePlaces, Zenon
  <2>5. P(0, 4) = C(0, P(0, 1))
    <3> HIDE DEF C
    <3>1. C(0, <<<<k, 1, 1>>, <<0, 1, 0>>>>) = <<<<-1, k, 1>>, <<-1, 0, 0>>>>
      BY <1>3, <2>1
    <3> QED
      BY <3>1, EdgePlaces, Zenon
  <2> QED
    BY <1>1, <1>2, <1>4, <1>5, <2>2, <2>3, <2>4, <2>5
<1>6. CASE f = 0 /\ d = 1
  <2>1. \A x, y, z, a, b, c \in Int :
          z = 1 => C(0, <<<<x, y, z>>, <<a, b, c>>>>)
            = <<<<y, -x, z>>, <<b, -a, c>>>>
    <3>1. d = 1
      BY <1>6
    <3> QED
      BY <3>1, LayerTurns, Zenon
  <2>2. P(0, 1) = C(0, P(0, 4))
    <3> HIDE DEF C
    <3>1. C(0, <<<<-1, k, 1>>, <<-1, 0, 0>>>>) = <<<<k, 1, 1>>, <<0, 1, 0>>>>
      BY <1>3, <2>1
    <3> QED
      BY <3>1, EdgePlaces, Zenon
  <2>3. P(0, 2) = C(0, P(0, 1))
    <3> HIDE DEF C
    <3>1. C(0, <<<<k, 1, 1>>, <<0, 1, 0>>>>) = <<<<1, -k, 1>>, <<1, 0, 0>>>>
      BY <1>3, <2>1
    <3> QED
      BY <3>1, EdgePlaces, Zenon
  <2>4. P(0, 3) = C(0, P(0, 2))
    <3> HIDE DEF C
    <3>1. C(0, <<<<1, -k, 1>>, <<1, 0, 0>>>>) = <<<<-k, -1, 1>>, <<0, -1, 0>>>>
      BY <1>3, <2>1
    <3> QED
      BY <3>1, EdgePlaces, Zenon
  <2>5. P(0, 4) = C(0, P(0, 3))
    <3> HIDE DEF C
    <3>1. C(0, <<<<-k, -1, 1>>, <<0, -1, 0>>>>)
            = <<<<-1, k, 1>>, <<-1, 0, 0>>>>
      BY <1>3, <2>1
    <3> QED
      BY <3>1, EdgePlaces, Zenon
  <2> QED
    BY <1>1, <1>2, <1>4, <1>6, <2>2, <2>3, <2>4, <2>5
<1>7. CASE f = 1 /\ d = 0
  <2>1. \A x, y, z, a, b, c \in Int :
          x = 1 => C(1, <<<<x, y, z>>, <<a, b, c>>>>)
            = <<<<x, -z, y>>, <<a, -c, b>>>>
    <3>1. d = 0
      BY <1>7
    <3> QED
      BY <3>1, LayerTurns, Zenon
  <2>2. P(1, 1) = C(1, P(1, 2))
    <3> HIDE DEF C
    <3>1. C(1, <<<<1, 1, -k>>, <<0, 1, 0>>>>) = <<<<1, k, 1>>, <<0, 0, 1>>>>
      BY <1>3, <2>1
    <3> QED
      BY <3>1, EdgePlaces, Zenon
  <2>3. P(1, 2) = C(1, P(1, 3))
    <3> HIDE DEF C
    <3>1. C(1, <<<<1, -k, -1>>, <<0, 0, -1>>>>) = <<<<1, 1, -k>>, <<0, 1, 0>>>>
      BY <1>3, <2>1
    <3> QED
      BY <3>1, EdgePlaces, Zenon
  <2>4. P(1, 3) = C(1, P(1, 4))
    <3> HIDE DEF C
    <3>1. C(1, <<<<1, -1, k>>, <<0, -1, 0>>>>)
            = <<<<1, -k, -1>>, <<0, 0, -1>>>>
      BY <1>3, <2>1
    <3> QED
      BY <3>1, EdgePlaces, Zenon
  <2>5. P(1, 4) = C(1, P(1, 1))
    <3> HIDE DEF C
    <3>1. C(1, <<<<1, k, 1>>, <<0, 0, 1>>>>) = <<<<1, -1, k>>, <<0, -1, 0>>>>
      BY <1>3, <2>1
    <3> QED
      BY <3>1, EdgePlaces, Zenon
  <2> QED
    BY <1>1, <1>2, <1>4, <1>7, <2>2, <2>3, <2>4, <2>5
<1>8. CASE f = 1 /\ d = 1
  <2>1. \A x, y, z, a, b, c \in Int :
          x = 1 => C(1, <<<<x, y, z>>, <<a, b, c>>>>)
            = <<<<x, z, -y>>, <<a, c, -b>>>>
    <3>1. d = 1
      BY <1>8
    <3> QED
      BY <3>1, LayerTurns, Zenon
  <2>2. P(1, 1) = C(1, P(1, 4))
    <3> HIDE DEF C
    <3>1. C(1, <<<<1, -1, k>>, <<0, -1, 0>>>>) = <<<<1, k, 1>>, <<0, 0, 1>>>>
      BY <1>3, <2>1
    <3> QED
      BY <3>1, EdgePlaces, Zenon
  <2>3. P(1, 2) = C(1, P(1, 1))
    <3> HIDE DEF C
    <3>1. C(1, <<<<1, k, 1>>, <<0, 0, 1>>>>) = <<<<1, 1, -k>>, <<0, 1, 0>>>>
      BY <1>3, <2>1
    <3> QED
      BY <3>1, EdgePlaces, Zenon
  <2>4. P(1, 3) = C(1, P(1, 2))
    <3> HIDE DEF C
    <3>1. C(1, <<<<1, 1, -k>>, <<0, 1, 0>>>>) = <<<<1, -k, -1>>, <<0, 0, -1>>>>
      BY <1>3, <2>1
    <3> QED
      BY <3>1, EdgePlaces, Zenon
  <2>5. P(1, 4) = C(1, P(1, 3))
    <3> HIDE DEF C
    <3>1. C(1, <<<<1, -k, -1>>, <<0, 0, -1>>>>)
            = <<<<1, -1, k>>, <<0, -1, 0>>>>
      BY <1>3, <2>1
    <3> QED
      BY <3>1, EdgePlaces, Zenon
  <2> QED
    BY <1>1, <1>2, <1>4, <1>8, <2>2, <2>3, <2>4, <2>5
<1>9. CASE f = 2 /\ d = 0
  <2>1. \A x, y, z, a, b, c \in Int :
          y = 1 => C(2, <<<<x, y, z>>, <<a, b, c>>>>)
            = <<<<z, y, -x>>, <<c, b, -a>>>>
    <3>1. d = 0
      BY <1>9
    <3> QED
      BY <3>1, LayerTurns, Zenon
  <2>2. P(2, 1) = C(2, P(2, 2))
    <3> HIDE DEF C
    <3>1. C(2, <<<<-1, 1, -k>>, <<-1, 0, 0>>>>) = <<<<-k, 1, 1>>, <<0, 0, 1>>>>
      BY <1>3, <2>1
    <3> QED
      BY <3>1, EdgePlaces, Zenon
  <2>3. P(2, 2) = C(2, P(2, 3))
    <3> HIDE DEF C
    <3>1. C(2, <<<<k, 1, -1>>, <<0, 0, -1>>>>)
            = <<<<-1, 1, -k>>, <<-1, 0, 0>>>>
      BY <1>3, <2>1
    <3> QED
      BY <3>1, EdgePlaces, Zenon
  <2>4. P(2, 3) = C(2, P(2, 4))
    <3> HIDE DEF C
    <3>1. C(2, <<<<1, 1, k>>, <<1, 0, 0>>>>) = <<<<k, 1, -1>>, <<0, 0, -1>>>>
      BY <1>3, <2>1
    <3> QED
      BY <3>1, EdgePlaces, Zenon
  <2>5. P(2, 4) = C(2, P(2, 1))
    <3> HIDE DEF C
    <3>1. C(2, <<<<-k, 1, 1>>, <<0, 0, 1>>>>) = <<<<1, 1, k>>, <<1, 0, 0>>>>
      BY <1>3, <2>1
    <3> QED
      BY <3>1, EdgePlaces, Zenon
  <2> QED
    BY <1>1, <1>2, <1>4, <1>9, <2>2, <2>3, <2>4, <2>5
<1>10. CASE f = 2 /\ d = 1
  <2>1. \A x, y, z, a, b, c \in Int :
          y = 1 => C(2, <<<<x, y, z>>, <<a, b, c>>>>)
            = <<<<-z, y, x>>, <<-c, b, a>>>>
    <3>1. d = 1
      BY <1>10
    <3> QED
      BY <3>1, LayerTurns, Zenon
  <2>2. P(2, 1) = C(2, P(2, 4))
    <3> HIDE DEF C
    <3>1. C(2, <<<<1, 1, k>>, <<1, 0, 0>>>>) = <<<<-k, 1, 1>>, <<0, 0, 1>>>>
      BY <1>3, <2>1
    <3> QED
      BY <3>1, EdgePlaces, Zenon
  <2>3. P(2, 2) = C(2, P(2, 1))
    <3> HIDE DEF C
    <3>1. C(2, <<<<-k, 1, 1>>, <<0, 0, 1>>>>) = <<<<-1, 1, -k>>, <<-1, 0, 0>>>>
      BY <1>3, <2>1
    <3> QED
      BY <3>1, EdgePlaces, Zenon
  <2>4. P(2, 3) = C(2, P(2, 2))
    <3> HIDE DEF C
    <3>1. C(2, <<<<-1, 1, -k>>, <<-1, 0, 0>>>>)
            = <<<<k, 1, -1>>, <<0, 0, -1>>>>
      BY <1>3, <2>1
    <3> QED
      BY <3>1, EdgePlaces, Zenon
  <2>5. P(2, 4) = C(2, P(2, 3))
    <3> HIDE DEF C
    <3>1. C(2, <<<<k, 1, -1>>, <<0, 0, -1>>>>) = <<<<1, 1, k>>, <<1, 0, 0>>>>
      BY <1>3, <2>1
    <3> QED
      BY <3>1, EdgePlaces, Zenon
  <2> QED
    BY <1>1, <1>2, <1>4, <1>10, <2>2, <2>3, <2>4, <2>5
<1>11. CASE f = 3 /\ d = 0
  <2>1. \A x, y, z, a, b, c \in Int :
          y = -1 => C(3, <<<<x, y, z>>, <<a, b, c>>>>)
            = <<<<-z, y, x>>, <<-c, b, a>>>>
    <3>1. d = 0
      BY <1>11
    <3> QED
      BY <3>1, LayerTurns, Zenon
  <2>2. P(3, 1) = C(3, P(3, 2))
    <3> HIDE DEF C
    <3>1. C(3, <<<<1, -1, -k>>, <<1, 0, 0>>>>) = <<<<k, -1, 1>>, <<0, 0, 1>>>>
      BY <1>3, <2>1
    <3> QED
      BY <3>1, EdgePlaces, Zenon
  <2>3. P(3, 2) = C(3, P(3, 3))
    <3> HIDE DEF C
    <3>1. C(3, <<<<-k, -1, -1>>, <<0, 0, -1>>>>)
            = <<<<1, -1, -k>>, <<1, 0, 0>>>>
      BY <1>3, <2>1
    <3> QED
      BY <3>1, EdgePlaces, Zenon
  <2>4. P(3, 3) = C(3, P(3, 4))
    <3> HIDE DEF C
    <3>1. C(3, <<<<-1, -1, k>>, <<-1, 0, 0>>>>)
            = <<<<-k, -1, -1>>, <<0, 0, -1>>>>
      BY <1>3, <2>1
    <3> QED
      BY <3>1, EdgePlaces, Zenon
  <2>5. P(3, 4) = C(3, P(3, 1))
    <3> HIDE DEF C
    <3>1. C(3, <<<<k, -1, 1>>, <<0, 0, 1>>>>) = <<<<-1, -1, k>>, <<-1, 0, 0>>>>
      BY <1>3, <2>1
    <3> QED
      BY <3>1, EdgePlaces, Zenon
  <2> QED
    BY <1>1, <1>2, <1>4, <1>11, <2>2, <2>3, <2>4, <2>5
<1>12. CASE f = 3 /\ d = 1
  <2>1. \A x, y, z, a, b, c \in Int :
          y = -1 => C(3, <<<<x, y, z>>, <<a, b, c>>>>)
            = <<<<z, y, -x>>, <<c, b, -a>>>>
    <3>1. d = 1
      BY <1>12
    <3> QED
      BY <3>1, LayerTurns, Zenon
  <2>2. P(3, 1) = C(3, P(3, 4))
    <3> HIDE DEF C
    <3>1. C(3, <<<<-1, -1, k>>, <<-1, 0, 0>>>>) = <<<<k, -1, 1>>, <<0, 0, 1>>>>
      BY <1>3, <2>1
    <3> QED
      BY <3>1, EdgePlaces, Zenon
  <2>3. P(3, 2) = C(3, P(3, 1))
    <3> HIDE DEF C
    <3>1. C(3, <<<<k, -1, 1>>, <<0, 0, 1>>>>) = <<<<1, -1, -k>>, <<1, 0, 0>>>>
      BY <1>3, <2>1
    <3> QED
      BY <3>1, EdgePlaces, Zenon
  <2>4. P(3, 3) = C(3, P(3, 2))
    <3> HIDE DEF C
    <3>1. C(3, <<<<1, -1, -k>>, <<1, 0, 0>>>>)
            = <<<<-k, -1, -1>>, <<0, 0, -1>>>>
      BY <1>3, <2>1
    <3> QED
      BY <3>1, EdgePlaces, Zenon
  <2>5. P(3, 4) = C(3, P(3, 3))
    <3> HIDE DEF C
    <3>1. C(3, <<<<-k, -1, -1>>, <<0, 0, -1>>>>)
            = <<<<-1, -1, k>>, <<-1, 0, 0>>>>
      BY <1>3, <2>1
    <3> QED
      BY <3>1, EdgePlaces, Zenon
  <2> QED
    BY <1>1, <1>2, <1>4, <1>12, <2>2, <2>3, <2>4, <2>5
<1>13. CASE f = 4 /\ d = 0
  <2>1. \A x, y, z, a, b, c \in Int :
          x = -1 => C(4, <<<<x, y, z>>, <<a, b, c>>>>)
            = <<<<x, z, -y>>, <<a, c, -b>>>>
    <3>1. d = 0
      BY <1>13
    <3> QED
      BY <3>1, LayerTurns, Zenon
  <2>2. P(4, 1) = C(4, P(4, 2))
    <3> HIDE DEF C
    <3>1. C(4, <<<<-1, -1, -k>>, <<0, -1, 0>>>>)
            = <<<<-1, -k, 1>>, <<0, 0, 1>>>>
      BY <1>3, <2>1
    <3> QED
      BY <3>1, EdgePlaces, Zenon
  <2>3. P(4, 2) = C(4, P(4, 3))
    <3> HIDE DEF C
    <3>1. C(4, <<<<-1, k, -1>>, <<0, 0, -1>>>>)
            = <<<<-1, -1, -k>>, <<0, -1, 0>>>>
      BY <1>3, <2>1
    <3> QED
      BY <3>1, EdgePlaces, Zenon
  <2>4. P(4, 3) = C(4, P(4, 4))
    <3> HIDE DEF C
    <3>1. C(4, <<<<-1, 1, k>>, <<0, 1, 0>>>>) = <<<<-1, k, -1>>, <<0, 0, -1>>>>
      BY <1>3, <2>1
    <3> QED
      BY <3>1, EdgePlaces, Zenon
  <2>5. P(4, 4) = C(4, P(4, 1))
    <3> HIDE DEF C
    <3>1. C(4, <<<<-1, -k, 1>>, <<0, 0, 1>>>>) = <<<<-1, 1, k>>, <<0, 1, 0>>>>
      BY <1>3, <2>1
    <3> QED
      BY <3>1, EdgePlaces, Zenon
  <2> QED
    BY <1>1, <1>2, <1>4, <1>13, <2>2, <2>3, <2>4, <2>5
<1>14. CASE f = 4 /\ d = 1
  <2>1. \A x, y, z, a, b, c \in Int :
          x = -1 => C(4, <<<<x, y, z>>, <<a, b, c>>>>)
            = <<<<x, -z, y>>, <<a, -c, b>>>>
    <3>1. d = 1
      BY <1>14
    <3> QED
      BY <3>1, LayerTurns, Zenon
  <2>2. P(4, 1) = C(4, P(4, 4))
    <3> HIDE DEF C
    <3>1. C(4, <<<<-1, 1, k>>, <<0, 1, 0>>>>) = <<<<-1, -k, 1>>, <<0, 0, 1>>>>
      BY <1>3, <2>1
    <3> QED
      BY <3>1, EdgePlaces, Zenon
  <2>3. P(4, 2) = C(4, P(4, 1))
    <3> HIDE DEF C
    <3>1. C(4, <<<<-1, -k, 1>>, <<0, 0, 1>>>>)
            = <<<<-1, -1, -k>>, <<0, -1, 0>>>>
      BY <1>3, <2>1
    <3> QED
      BY <3>1, EdgePlaces, Zenon
  <2>4. P(4, 3) = C(4, P(4, 2))
    <3> HIDE DEF C
    <3>1. C(4, <<<<-1, -1, -k>>, <<0, -1, 0>>>>)
            = <<<<-1, k, -1>>, <<0, 0, -1>>>>
      BY <1>3, <2>1
    <3> QED
      BY <3>1, EdgePlaces, Zenon
  <2>5. P(4, 4) = C(4, P(4, 3))
    <3> HIDE DEF C
    <3>1. C(4, <<<<-1, k, -1>>, <<0, 0, -1>>>>) = <<<<-1, 1, k>>, <<0, 1, 0>>>>
      BY <1>3, <2>1
    <3> QED
      BY <3>1, EdgePlaces, Zenon
  <2> QED
    BY <1>1, <1>2, <1>4, <1>14, <2>2, <2>3, <2>4, <2>5
<1>15. CASE f = 5 /\ d = 0
  <2>1. \A x, y, z, a, b, c \in Int :
          z = -1 => C(5, <<<<x, y, z>>, <<a, b, c>>>>)
            = <<<<y, -x, z>>, <<b, -a, c>>>>
    <3>1. d = 0
      BY <1>15
    <3> QED
      BY <3>1, LayerTurns, Zenon
  <2>2. P(5, 1) = C(5, P(5, 2))
    <3> HIDE DEF C
    <3>1. C(5, <<<<-k, 1, -1>>, <<0, 1, 0>>>>) = <<<<1, k, -1>>, <<1, 0, 0>>>>
      BY <1>3, <2>1
    <3> QED
      BY <3>1, EdgePlaces, Zenon
  <2>3. P(5, 2) = C(5, P(5, 3))
    <3> HIDE DEF C
    <3>1. C(5, <<<<-1, -k, -1>>, <<-1, 0, 0>>>>)
            = <<<<-k, 1, -1>>, <<0, 1, 0>>>>
      BY <1>3, <2>1
    <3> QED
      BY <3>1, EdgePlaces, Zenon
  <2>4. P(5, 3) = C(5, P(5, 4))
    <3> HIDE DEF C
    <3>1. C(5, <<<<k, -1, -1>>, <<0, -1, 0>>>>)
            = <<<<-1, -k, -1>>, <<-1, 0, 0>>>>
      BY <1>3, <2>1
    <3> QED
      BY <3>1, EdgePlaces, Zenon
  <2>5. P(5, 4) = C(5, P(5, 1))
    <3> HIDE DEF C
    <3>1. C(5, <<<<1, k, -1>>, <<1, 0, 0>>>>) = <<<<k, -1, -1>>, <<0, -1, 0>>>>
      BY <1>3, <2>1
    <3> QED
      BY <3>1, EdgePlaces, Zenon
  <2> QED
    BY <1>1, <1>2, <1>4, <1>15, <2>2, <2>3, <2>4, <2>5
<1>16. CASE f = 5 /\ d = 1
  <2>1. \A x, y, z, a, b, c \in Int :
          z = -1 => C(5, <<<<x, y, z>>, <<a, b, c>>>>)
            = <<<<-y, x, z>>, <<-b, a, c>>>>
    <3>1. d = 1
      BY <1>16
    <3> QED
      BY <3>1, LayerTurns, Zenon
  <2>2. P(5, 1) = C(5, P(5, 4))
    <3> HIDE DEF C
    <3>1. C(5, <<<<k, -1, -1>>, <<0, -1, 0>>>>) = <<<<1, k, -1>>, <<1, 0, 0>>>>
      BY <1>3, <2>1
    <3> QED
      BY <3>1, EdgePlaces, Zenon
  <2>3. P(5, 2) = C(5, P(5, 1))
    <3> HIDE DEF C
    <3>1. C(5, <<<<1, k, -1>>, <<1, 0, 0>>>>) = <<<<-k, 1, -1>>, <<0, 1, 0>>>>
      BY <1>3, <2>1
    <3> QED
      BY <3>1, EdgePlaces, Zenon
  <2>4. P(5, 3) = C(5, P(5, 2))
    <3> HIDE DEF C
    <3>1. C(5, <<<<-k, 1, -1>>, <<0, 1, 0>>>>)
            = <<<<-1, -k, -1>>, <<-1, 0, 0>>>>
      BY <1>3, <2>1
    <3> QED
      BY <3>1, EdgePlaces, Zenon
  <2>5. P(5, 4) = C(5, P(5, 3))
    <3> HIDE DEF C
    <3>1. C(5, <<<<-1, -k, -1>>, <<-1, 0, 0>>>>)
            = <<<<k, -1, -1>>, <<0, -1, 0>>>>
      BY <1>3, <2>1
    <3> QED
      BY <3>1, EdgePlaces, Zenon
  <2> QED
    BY <1>1, <1>2, <1>4, <1>16, <2>2, <2>3, <2>4, <2>5
<1> QED
  BY <1>1, <1>5, <1>6, <1>7, <1>8, <1>9, <1>10, <1>11, <1>12, <1>13, <1>14,
     <1>15, <1>16

(* transpose_face: what arrives at a square of the face that is turned     *)
(* comes from where a quarter turn of the layer brings it from.            *)
LEMMA OwnMoves ==
  ASSUME NEW f \in Faces, NEW d \in Directions, NEW s \in Squares
  PROVE  PlaceOf(<<f, OwnSource[d][s]>>)
           = ComesFrom(Normal[f], d = 0, PlaceOf(<<f, s>>))
<1>1. PICK r \in Thirds, c \in Thirds : s = Square(r, c)
  BY SquareIsSquare
<1>2. /\ -r \in Thirds /\ -c \in Thirds
      /\ r \in Int /\ c \in Int /\ -r \in Int /\ -c \in Int
      /\ 0 \in Int /\ 1 \in Int /\ -1 \in Int
      /\ -(-r) = r /\ -(-c) = c
  BY DEF Thirds
<1>3. /\ OwnSource[0][Square(r, c)] = Square(-c, r)
      /\ OwnSource[1][Square(r, c)] = Square(c, -r)
  BY SquareType DEF OwnSource, Directions, Square, Thirds, N_SQUARES_PER_SIDE,
         Squares, N_SQUARES_PER_FACE
<1>4. f \in {0, 1, 2, 3, 4, 5} /\ d \in {0, 1}
  BY FaceVectors DEF Directions
<1> DEFINE C(g, p) == ComesFrom(Normal[g], d = 0, p)
<1>5. CASE f = 0 /\ d = 0
  <2>1. \A x, y, z, a, b, c0 \in Int :
          z = 1 => C(0, <<<<x, y, z>>, <<a, b, c0>>>>)
            = <<<<-y, x, z>>, <<-b, a, c0>>>>
    BY <1>5, LayerTurns, Zenon
  <2>2. /\ At(0, r, c) = <<<<c, -r, 1>>, <<0, 0, 1>>>>
        /\ At(0, -c, r) = <<<<r, c, 1>>, <<0, 0, 1>>>>
    <3>1. At(0, r, c) = <<<<c, -r, 1>>, <<0, 0, 1>>>>
      BY AtValues, Zenon
    <3>2. At(0, -c, r) = <<<<r, -(-c), 1>>, <<0, 0, 1>>>>
      BY <1>2, AtValues, Zenon
    <3> QED
      BY <1>2, <3>1, <3>2
  <2> HIDE DEF C
  <2>3. C(0, <<<<c, -r, 1>>, <<0, 0, 1>>>>) = <<<<r, c, 1>>, <<0, 0, 1>>>>
    BY <1>2, <2>1
  <2>4. /\ PlaceOf(<<f, Square(r, c)>>) = At(f, r, c)
        /\ PlaceOf(<<f, Square(-c, r)>>) = At(f, -c, r)
    BY <1>2, PlaceOfAt
  <2>5. PlaceOf(<<f, OwnSource[d][s]>>) = C(f, PlaceOf(<<f, s>>))
    BY <1>1, <1>3, <1>5, <2>2, <2>3, <2>4, Zenon
  <2> QED
    BY <2>5 DEF C
<1>6. CASE f = 0 /\ d = 1
  <2>1. \A x, y, z, a, b, c0 \in Int :
          z = 1 => C(0, <<<<x, y, z>>, <<a, b, c0>>>>)
            = <<<<y, -x, z>>, <<b, -a, c0>>>>
    BY <1>6, LayerTurns, Zenon
  <2>2. /\ At(0, r, c) = <<<<c, -r, 1>>, <<0, 0, 1>>>>
        /\ At(0, c, -r) = <<<<-r, -c, 1>>, <<0, 0, 1>>>>
    <3>1. At(0, r, c) = <<<<c, -r, 1>>, <<0, 0, 1>>>>
      BY AtValues, Zenon
    <3>2. At(0, c, -r) = <<<<-r, -c, 1>>, <<0, 0, 1>>>>
      BY <1>2, AtValues, Zenon
    <3> QED
      BY <1>2, <3>1, <3>2
  <2> HIDE DEF C
  <2>3. C(0, <<<<c, -r, 1>>, <<0, 0, 1>>>>) = <<<<-r, -c, 1>>, <<0, 0, 1>>>>
    BY <1>2, <2>1
  <2>4. /\ PlaceOf(<<f, Square(r, c)>>) = At(f, r, c)
        /\ PlaceOf(<<f, Square(c, -r)>>) = At(f, c, -r)
    BY <1>2, PlaceOfAt
  <2>5. PlaceOf(<<f, OwnSource[d][s]>>) = C(f, PlaceOf(<<f, s>>))
    BY <1>1, <1>3, <1>6, <2>2, <2>3, <2>4, Zenon
  <2> QED
    BY <2>5 DEF C
<1>7. CASE f = 1 /\ d = 0
  <2>1. \A x, y, z, a, b, c0 \in Int :
          x = 1 => C(1, <<<<x, y, z>>, <<a, b, c0>>>>)
            = <<<<x, -z, y>>, <<a, -c0, b>>>>
    BY <1>7, LayerTurns, Zenon
  <2>2. /\ At(1, r, c) = <<<<1, -r, -c>>, <<1, 0, 0>>>>
        /\ At(1, -c, r) = <<<<1, c, -r>>, <<1, 0, 0>>>>
    <3>1. At(1, r, c) = <<<<1, -r, -c>>, <<1, 0, 0>>>>
      BY AtValues, Zenon
    <3>2. At(1, -c, r) = <<<<1, -(-c), -r>>, <<1, 0, 0>>>>
      BY <1>2, AtValues, Zenon
    <3> QED
      BY <1>2, <3>1, <3>2
  <2> HIDE DEF C
  <2>3. C(1, <<<<1, -r, -c>>, <<1, 0, 0>>>>) = <<<<1, c, -r>>, <<1, 0, 0>>>>
    BY <1>2, <2>1
  <2>4. /\ PlaceOf(<<f, Square(r, c)>>) = At(f, r, c)
        /\ PlaceOf(<<f, Square(-c, r)>>) = At(f, -c, r)
    BY <1>2, PlaceOfAt
  <2>5. PlaceOf(<<f, OwnSource[d][s]>>) = C(f, PlaceOf(<<f, s>>))
    BY <1>1, <1>3, <1>7, <2>2, <2>3, <2>4, Zenon
  <2> QED
    BY <2>5 DEF C
<1>8. CASE f = 1 /\ d = 1
  <2>1. \A x, y, z, a, b, c0 \in Int :
          x = 1 => C(1, <<<<x, y, z>>, <<a, b, c0>>>>)
            = <<<<x, z, -y>>, <<a, c0, -b>>>>
    BY <1>8, LayerTurns, Zenon
  <2>2. /\ At(1, r, c) = <<<<1, -r, -c>>, <<1, 0, 0>>>>
        /\ At(1, c, -r) = <<<<1, -c, r>>, <<1, 0, 0>>>>
    <3>1. At(1, r, c) = <<<<1, -r, -c>>, <<1, 0, 0>>>>
      BY AtValues, Zenon
    <3>2. At(1, c, -r) = <<<<1, -c, -(-r)>>, <<1, 0, 0>>>>
      BY <1>2, AtValues, Zenon
    <3> QED
      BY <1>2, <3>1, <3>2
  <2> HIDE DEF C
  <2>3. C(1, <<<<1, -r, -c>>, <<1, 0, 0>>>>) = <<<<1, -c, r>>, <<1, 0, 0>>>>
    BY <1>2, <2>1
  <2>4. /\ PlaceOf(<<f, Square(r, c)>>) = At(f, r, c)
        /\ PlaceOf(<<f, Square(c, -r)>>) = At(f, c, -r)
    BY <1>2, PlaceOfAt
  <2>5. PlaceOf(<<f, OwnSource[d][s]>>) = C(f, PlaceOf(<<f, s>>))
    BY <1>1, <1>3, <1>8, <2>2, <2>3, <2>4, Zenon
  <2> QED
    BY <2>5 DEF C
<1>9. CASE f = 2 /\ d = 0
  <2>1. \A x, y, z, a, b, c0 \in Int :
          y = 1 => C(2, <<<<x, y, z>>, <<a, b, c0>>>>)
            = <<<<z, y, -x>>, <<c0, b, -a>>>>
    BY <1>9, LayerTurns, Zenon
  <2>2. /\ At(2, r, c) = <<<<r, 1, -c>>, <<0, 1, 0>>>>
        /\ At(2, -c, r) = <<<<-c, 1, -r>>, <<0, 1, 0>>>>
    <3>1. At(2, r, c) = <<<<r, 1, -c>>, <<0, 1, 0>>>>
      BY AtValues, Zenon
    <3>2. At(2, -c, r) = <<<<-c, 1, -r>>, <<0, 1, 0>>>>
      BY <1>2, AtValues, Zenon
    <3> QED
      BY <1>2, <3>1, <3>2
  <2> HIDE DEF C
  <2>3. C(2, <<<<r, 1, -c>>, <<0, 1, 0>>>>) = <<<<-c, 1, -r>>, <<0, 1, 0>>>>
    BY <1>2, <2>1
  <2>4. /\ PlaceOf(<<f, Square(r, c)>>) = At(f, r, c)
        /\ PlaceOf(<<f, Square(-c, r)>>) = At(f, -c, r)
    BY <1>2, PlaceOfAt
  <2>5. PlaceOf(<<f, OwnSource[d][s]>>) = C(f, PlaceOf(<<f, s>>))
    BY <1>1, <1>3, <1>9, <2>2, <2>3, <2>4, Zenon
  <2> QED
    BY <2>5 DEF C
<1>10. CASE f = 2 /\ d = 1
  <2>1. \A x, y, z, a, b, c0 \in Int :
          y = 1 => C(2, <<<<x, y, z>>, <<a, b, c0>>>>)
            = <<<<-z, y, x>>, <<-c0, b, a>>>>
    BY <1>10, LayerTurns, Zenon
  <2>2. /\ At(2, r, c) = <<<<r, 1, -c>>, <<0, 1, 0>>>>
        /\ At(2, c, -r) = <<<<c, 1, r>>, <<0, 1, 0>>>>
    <3>1. At(2, r, c) = <<<<r, 1, -c>>, <<0, 1, 0>>>>
      BY AtValues, Zenon
    <3>2. At(2, c, -r) = <<<<c, 1, -(-r)>>, <<0, 1, 0>>>>
      BY <1>2, AtValues, Zenon
    <3> QED
      BY <1>2, <3>1, <3>2
  <2> HIDE DEF C
  <2>3. C(2, <<<<r, 1, -c>>, <<0, 1, 0>>>>) = <<<<c, 1, r>>, <<0, 1, 0>>>>
    BY <1>2, <2>1
  <2>4. /\ PlaceOf(<<f, Square(r, c)>>) = At(f, r, c)
        /\ PlaceOf(<<f, Square(c, -r)>>) = At(f, c, -r)
    BY <1>2, PlaceOfAt
  <2>5. PlaceOf(<<f, OwnSource[d][s]>>) = C(f, PlaceOf(<<f, s>>))
    BY <1>1, <1>3, <1>10, <2>2, <2>3, <2>4, Zenon
  <2> QED
    BY <2>5 DEF C
<1>11. CASE f = 3 /\ d = 0
  <2>1. \A x, y, z, a, b, c0 \in Int :
          y = -1 => C(3, <<<<x, y, z>>, <<a, b, c0>>>>)
            = <<<<-z, y, x>>, <<-c0, b, a>>>>
    BY <1>11, LayerTurns, Zenon
  <2>2. /\ At(3, r, c) = <<<<-r, -1, -c>>, <<0, -1, 0>>>>
        /\ At(3, -c, r) = <<<<c, -1, -r>>, <<0, -1, 0>>>>
    <3>1. At(3, r, c) = <<<<-r, -1, -c>>, <<0, -1, 0>>>>
      BY AtValues, Zenon
    <3>2. At(3, -c, r) = <<<<-(-c), -1, -r>>, <<0, -1, 0>>>>
      BY <1>2, AtValues, Zenon
    <3> QED
      BY <1>2, <3>1, <3>2
  <2> HIDE DEF C
  <2>3. C(3, <<<<-r, -1, -c>>, <<0, -1, 0>>>>)
          = <<<<c, -1, -r>>, <<0, -1, 0>>>>
    BY <1>2, <2>1
  <2>4. /\ PlaceOf(<<f, Square(r, c)>>) = At(f, r, c)
        /\ PlaceOf(<<f, Square(-c, r)>>) = At(f, -c, r)
    BY <1>2, PlaceOfAt
  <2>5. PlaceOf(<<f, OwnSource[d][s]>>) = C(f, PlaceOf(<<f, s>>))
    BY <1>1, <1>3, <1>11, <2>2, <2>3, <2>4, Zenon
  <2> QED
    BY <2>5 DEF C
<1>12. CASE f = 3 /\ d = 1
  <2>1. \A x, y, z, a, b, c0 \in Int :
          y = -1 => C(3, <<<<x, y, z>>, <<a, b, c0>>>>)
            = <<<<z, y, -x>>, <<c0, b, -a>>>>
    BY <1>12, LayerTurns, Zenon
  <2>2. /\ At(3, r, c) = <<<<-r, -1, -c>>, <<0, -1, 0>>>>
        /\ At(3, c, -r) = <<<<-c, -1, r>>, <<0, -1, 0>>>>
    <3>1. At(3, r, c) = <<<<-r, -1, -c>>, <<0, -1, 0>>>>
      BY AtValues, Zenon
    <3>2. At(3, c, -r) = <<<<-c, -1, -(-r)>>, <<0, -1, 0>>>>
      BY <1>2, AtValues, Zenon
    <3> QED
      BY <1>2, <3>1, <3>2
  <2> HIDE DEF C
  <2>3. C(3, <<<<-r, -1, -c>>, <<0, -1, 0>>>>)
          = <<<<-c, -1, r>>, <<0, -1, 0>>>>
    BY <1>2, <2>1
  <2>4. /\ PlaceOf(<<f, Square(r, c)>>) = At(f, r, c)
        /\ PlaceOf(<<f, Square(c, -r)>>) = At(f, c, -r)
    BY <1>2, PlaceOfAt
  <2>5. PlaceOf(<<f, OwnSource[d][s]>>) = C(f, PlaceOf(<<f, s>>))
    BY <1>1, <1>3, <1>12, <2>2, <2>3, <2>4, Zenon
  <2> QED
    BY <2>5 DEF C
<1>13. CASE f = 4 /\ d = 0
  <2>1. \A x, y, z, a, b, c0 \in Int :
          x = -1 => C(4, <<<<x, y, z>>, <<a, b, c0>>>>)
            = <<<<x, z, -y>>, <<a, c0, -b>>>>
    BY <1>13, LayerTurns, Zenon
  <2>2. /\ At(4, r, c) = <<<<-1, -r, c>>, <<-1, 0, 0>>>>
        /\ At(4, -c, r) = <<<<-1, c, r>>, <<-1, 0, 0>>>>
    <3>1. At(4, r, c) = <<<<-1, -r, c>>, <<-1, 0, 0>>>>
      BY AtValues, Zenon
    <3>2. At(4, -c, r) = <<<<-1, -(-c), r>>, <<-1, 0, 0>>>>
      BY <1>2, AtValues, Zenon
    <3> QED
      BY <1>2, <3>1, <3>2
  <2> HIDE DEF C
  <2>3. C(4, <<<<-1, -r, c>>, <<-1, 0, 0>>>>) = <<<<-1, c, r>>, <<-1, 0, 0>>>>
    BY <1>2, <2>1
  <2>4. /\ PlaceOf(<<f, Square(r, c)>>) = At(f, r, c)
        /\ PlaceOf(<<f, Square(-c, r)>>) = At(f, -c, r)
    BY <1>2, PlaceOfAt
  <2>5. PlaceOf(<<f, OwnSource[d][s]>>) = C(f, PlaceOf(<<f, s>>))
    BY <1>1, <1>3, <1>13, <2>2, <2>3, <2>4, Zenon
  <2> QED
    BY <2>5 DEF C
<1>14. CASE f = 4 /\ d = 1
  <2>1. \A x, y, z, a, b, c0 \in Int :
          x = -1 => C(4, <<<<x, y, z>>, <<a, b, c0>>>>)
            = <<<<x, -z, y>>, <<a, -c0, b>>>>
    BY <1>14, LayerTurns, Zenon
  <2>2. /\ At(4, r, c) = <<<<-1, -r, c>>, <<-1, 0, 0>>>>
        /\ At(4, c, -r) = <<<<-1, -c, -r>>, <<-1, 0, 0>>>>
    <3>1. At(4, r, c) = <<<<-1, -r, c>>, <<-1, 0, 0>>>>
      BY AtValues, Zenon
    <3>2. At(4, c, -r) = <<<<-1, -c, -r>>, <<-1, 0, 0>>>>
      BY <1>2, AtValues, Zenon
    <3> QED
      BY <1>2, <3>1, <3>2
  <2> HIDE DEF C
  <2>3. C(4, <<<<-1, -r, c>>, <<-1, 0, 0>>>>)
          = <<<<-1, -c, -r>>, <<-1, 0, 0>>>>
    BY <1>2, <2>1
  <2>4. /\ PlaceOf(<<f, Square(r, c)>>) = At(f, r, c)
        /\ PlaceOf(<<f, Square(c, -r)>>) = At(f, c, -r)
    BY <1>2, PlaceOfAt
  <2>5. PlaceOf(<<f, OwnSource[d][s]>>) = C(f, PlaceOf(<<f, s>>))
    BY <1>1, <1>3, <1>14, <2>2, <2>3, <2>4, Zenon
  <2> QED
    BY <2>5 DEF C
<1>15. CASE f = 5 /\ d = 0
  <2>1. \A x, y, z, a, b, c0 \in Int :
          z = -1 => C(5, <<<<x, y, z>>, <<a, b, c0>>>>)
            = <<<<y, -x, z>>, <<b, -a, c0>>>>
    BY <1>15, LayerTurns, Zenon
  <2>2. /\ At(5, r, c) = <<<<-c, -r, -1>>, <<0, 0, -1>>>>
        /\ At(5, -c, r) = <<<<-r, c, -1>>, <<0, 0, -1>>>>
    <3>1. At(5, r, c) = <<<<-c, -r, -1>>, <<0, 0, -1>>>>
      BY AtValues, Zenon
    <3>2. At(5, -c, r) = <<<<-r, -(-c), -1>>, <<0, 0, -1>>>>
      BY <1>2, AtValues, Zenon
    <3> QED
      BY <1>2, <3>1, <3>2
  <2> HIDE DEF C
  <2>3. C(5, <<<<-c, -r, -1>>, <<0, 0, -1>>>>)
          = <<<<-r, c, -1>>, <<0, 0, -1>>>>
    BY <1>2, <2>1
  <2>4. /\ PlaceOf(<<f, Square(r, c)>>) = At(f, r, c)
        /\ PlaceOf(<<f, Square(-c, r)>>) = At(f, -c, r)
    BY <1>2, PlaceOfAt
  <2>5. PlaceOf(<<f, OwnSource[d][s]>>) = C(f, PlaceOf(<<f, s>>))
    BY <1>1, <1>3, <1>15, <2>2, <2>3, <2>4, Zenon
  <2> QED
    BY <2>5 DEF C
<1>16. CASE f = 5 /\ d = 1
  <2>1. \A x, y, z, a, b, c0 \in Int :
          z = -1 => C(5, <<<<x, y, z>>, <<a, b, c0>>>>)
            = <<<<-y, x, z>>, <<-b, a, c0>>>>
    BY <1>16, LayerTurns, Zenon
  <2>2. /\ At(5, r, c) = <<<<-c, -r, -1>>, <<0, 0, -1>>>>
        /\ At(5, c, -r) = <<<<r, -c, -1>>, <<0, 0, -1>>>>
    <3>1. At(5, r, c) = <<<<-c, -r, -1>>, <<0, 0, -1>>>>
      BY AtValues, Zenon
    <3>2. At(5, c, -r) = <<<<-(-r), -c, -1>>, <<0, 0, -1>>>>
      BY <1>2, AtValues, Zenon
    <3> QED
      BY <1>2, <3>1, <3>2
  <2> HIDE DEF C
  <2>3. C(5, <<<<-c, -r, -1>>, <<0, 0, -1>>>>)
          = <<<<r, -c, -1>>, <<0, 0, -1>>>>
    BY <1>2, <2>1
  <2>4. /\ PlaceOf(<<f, Square(r, c)>>) = At(f, r, c)
        /\ PlaceOf(<<f, Square(c, -r)>>) = At(f, c, -r)
    BY <1>2, PlaceOfAt
  <2>5. PlaceOf(<<f, OwnSource[d][s]>>) = C(f, PlaceOf(<<f, s>>))
    BY <1>1, <1>3, <1>16, <2>2, <2>3, <2>4, Zenon
  <2> QED
    BY <2>5 DEF C
<1> QED
  BY <1>4, <1>5, <1>6, <1>7, <1>8, <1>9, <1>10, <1>11, <1>12, <1>13, <1>14,
     <1>15, <1>16

(* Every move of a turn is what a quarter turn of the layer does.          *)
LEMMA MovesInSpace ==
  ASSUME NEW f \in Faces, NEW d \in Directions, NEW m \in Moves(f, d)
  PROVE  PlaceOf(m.from) = ComesFrom(Normal[f], d = 0, PlaceOf(m.to))
<1>1. CASE m \in transpose_face(f, d)
  <2>1. PICK s \in Squares : m = [from |-> <<f, OwnSource[d][s]>>,
                                  to |-> <<f, s>>]
    BY <1>1 DEF transpose_face
  <2>2. m.from = <<f, OwnSource[d][s]>> /\ m.to = <<f, s>>
    BY <2>1
  <2> QED
    BY <2>2, OwnMoves
<1>2. CASE m \in transpose_other_faces(f, d)
  <2>1. PICK i \in 1 .. N_EDGES_PER_SIDE, j \in 1 .. N_SQUARES_PER_SIDE :
          m = [from |-> Edge(f, i, j),
               to |-> Edge(f, next_adjacent_face(i, d), j)]
    BY <1>2 DEF transpose_other_faces
  <2>2. m.from = Edge(f, i, j) /\ m.to = Edge(f, next_adjacent_face(i, d), j)
    BY <2>1
  <2> QED
    BY <2>2, EdgeMoves
<1> QED
  BY <1>1, <1>2 DEF Moves

(* The squares of the neighbours that are in the layer of a face are those *)
(* that its adjacency table names.                                         *)
LEMMA RimIsEdges ==
  ASSUME NEW f \in Faces, NEW p \in Places, Dot(p[1], Normal[f]) = 1,
         p[2] # Normal[f]
  PROVE  \E i \in {1, 2, 3, 4}, k \in Thirds : p = PlaceOf(Edge(f, i, k + 2))
<1>1. PICK x \in Thirds, y \in Thirds, z \in Thirds : p[1] = <<x, y, z>>
  BY DEF Places, Block, Thirds
<1>2. PICK g \in Faces : p[2] = Normal[g]
  BY SidesAreNormals DEF Places
<1>3. p = <<<<x, y, z>>, Normal[g]>>
  BY <1>1, <1>2 DEF Places
<1>4. Dot(<<x, y, z>>, Normal[f]) = 1 /\ Dot(<<x, y, z>>, Normal[g]) = 1
  BY <1>1, <1>2 DEF Places
<1>5. f # g
  BY <1>2
<1>6. /\ -x \in Thirds /\ -y \in Thirds /\ -z \in Thirds
      /\ x \in Int /\ y \in Int /\ z \in Int
      /\ -(-x) = x /\ -(-y) = y /\ -(-z) = z
  BY DEF Thirds
<1>7. f \in {0, 1, 2, 3, 4, 5} /\ g \in {0, 1, 2, 3, 4, 5}
  BY FaceVectors
<1>8. CASE f = 0
  <2>1. Dot(<<x, y, z>>, <<0, 0, 1>>) = 1
    BY <1>4, <1>8, FaceVectors, Zenon
  <2>2. z = 1
    BY <1>6, <2>1 DEF Dot
  <2>3. CASE g = 1
    <3>1. Dot(<<x, y, z>>, <<1, 0, 0>>) = 1
      BY <1>4, <2>3, FaceVectors, Zenon
    <3>2. x = 1
      BY <1>6, <3>1 DEF Dot
    <3>3. p = <<<<1, y, 1>>, <<1, 0, 0>>>>
      BY <1>3, <2>2, <2>3, <3>2, FaceVectors, Zenon
    <3>4. PlaceOf(Edge(0, 2, -y + 2)) = <<<<1, -(-y), 1>>, <<1, 0, 0>>>>
      BY <1>6, EdgePlaces, Zenon
    <3>5. p = PlaceOf(Edge(f, 2, -y + 2))
      BY <1>6, <1>8, <3>3, <3>4, Zenon
    <3> QED
      BY <1>6, <3>5
  <2>4. CASE g = 2
    <3>1. Dot(<<x, y, z>>, <<0, 1, 0>>) = 1
      BY <1>4, <2>4, FaceVectors, Zenon
    <3>2. y = 1
      BY <1>6, <3>1 DEF Dot
    <3>3. p = <<<<x, 1, 1>>, <<0, 1, 0>>>>
      BY <1>3, <2>2, <2>4, <3>2, FaceVectors, Zenon
    <3>4. PlaceOf(Edge(0, 1, x + 2)) = <<<<x, 1, 1>>, <<0, 1, 0>>>>
      BY <1>6, EdgePlaces, Zenon
    <3>5. p = PlaceOf(Edge(f, 1, x + 2))
      BY <1>6, <1>8, <3>3, <3>4, Zenon
    <3> QED
      BY <1>6, <3>5
  <2>5. CASE g = 3
    <3>1. Dot(<<x, y, z>>, <<0, -1, 0>>) = 1
      BY <1>4, <2>5, FaceVectors, Zenon
    <3>2. y = -1
      BY <1>6, <3>1 DEF Dot
    <3>3. p = <<<<x, -1, 1>>, <<0, -1, 0>>>>
      BY <1>3, <2>2, <2>5, <3>2, FaceVectors, Zenon
    <3>4. PlaceOf(Edge(0, 3, -x + 2)) = <<<<-(-x), -1, 1>>, <<0, -1, 0>>>>
      BY <1>6, EdgePlaces, Zenon
    <3>5. p = PlaceOf(Edge(f, 3, -x + 2))
      BY <1>6, <1>8, <3>3, <3>4, Zenon
    <3> QED
      BY <1>6, <3>5
  <2>6. CASE g = 4
    <3>1. Dot(<<x, y, z>>, <<-1, 0, 0>>) = 1
      BY <1>4, <2>6, FaceVectors, Zenon
    <3>2. x = -1
      BY <1>6, <3>1 DEF Dot
    <3>3. p = <<<<-1, y, 1>>, <<-1, 0, 0>>>>
      BY <1>3, <2>2, <2>6, <3>2, FaceVectors, Zenon
    <3>4. PlaceOf(Edge(0, 4, y + 2)) = <<<<-1, y, 1>>, <<-1, 0, 0>>>>
      BY <1>6, EdgePlaces, Zenon
    <3>5. p = PlaceOf(Edge(f, 4, y + 2))
      BY <1>6, <1>8, <3>3, <3>4, Zenon
    <3> QED
      BY <1>6, <3>5
  <2>7. CASE g = 5
    <3>1. Dot(<<x, y, z>>, <<0, 0, -1>>) = 1
      BY <1>4, <2>7, FaceVectors, Zenon
    <3>2. z = -1
      BY <1>6, <3>1 DEF Dot
    <3> QED
      BY <2>2, <3>2
  <2> QED
    BY <1>5, <1>7, <1>8, <2>3, <2>4, <2>5, <2>6, <2>7
<1>9. CASE f = 1
  <2>1. Dot(<<x, y, z>>, <<1, 0, 0>>) = 1
    BY <1>4, <1>9, FaceVectors, Zenon
  <2>2. x = 1
    BY <1>6, <2>1 DEF Dot
  <2>3. CASE g = 0
    <3>1. Dot(<<x, y, z>>, <<0, 0, 1>>) = 1
      BY <1>4, <2>3, FaceVectors, Zenon
    <3>2. z = 1
      BY <1>6, <3>1 DEF Dot
    <3>3. p = <<<<1, y, 1>>, <<0, 0, 1>>>>
      BY <1>3, <2>2, <2>3, <3>2, FaceVectors, Zenon
    <3>4. PlaceOf(Edge(1, 1, y + 2)) = <<<<1, y, 1>>, <<0, 0, 1>>>>
      BY <1>6, EdgePlaces, Zenon
    <3>5. p = PlaceOf(Edge(f, 1, y + 2))
      BY <1>6, <1>9, <3>3, <3>4, Zenon
    <3> QED
      BY <1>6, <3>5
  <2>4. CASE g = 2
    <3>1. Dot(<<x, y, z>>, <<0, 1, 0>>) = 1
      BY <1>4, <2>4, FaceVectors, Zenon
    <3>2. y = 1
      BY <1>6, <3>1 DEF Dot
    <3>3. p = <<<<1, 1, z>>, <<0, 1, 0>>>>
      BY <1>3, <2>2, <2>4, <3>2, FaceVectors, Zenon
    <3>4. PlaceOf(Edge(1, 2, -z + 2)) = <<<<1, 1, -(-z)>>, <<0, 1, 0>>>>
      BY <1>6, EdgePlaces, Zenon
    <3>5. p = PlaceOf(Edge(f, 2, -z + 2))
      BY <1>6, <1>9, <3>3, <3>4, Zenon
    <3> QED
      BY <1>6, <3>5
  <2>5. CASE g = 3
    <3>1. Dot(<<x, y, z>>, <<0, -1, 0>>) = 1
      BY <1>4, <2>5, FaceVectors, Zenon
    <3>2. y = -1
      BY <1>6, <3>1 DEF Dot
    <3>3. p = <<<<1, -1, z>>, <<0, -1, 0>>>>
      BY <1>3, <2>2, <2>5, <3>2, FaceVectors, Zenon
    <3>4. PlaceOf(Edge(1, 4, z + 2)) = <<<<1, -1, z>>, <<0, -1, 0>>>>
      BY <1>6, EdgePlaces, Zenon
    <3>5. p = PlaceOf(Edge(f, 4, z + 2))
      BY <1>6, <1>9, <3>3, <3>4, Zenon
    <3> QED
      BY <1>6, <3>5
  <2>6. CASE g = 4
    <3>1. Dot(<<x, y, z>>, <<-1, 0, 0>>) = 1
      BY <1>4, <2>6, FaceVectors, Zenon
    <3>2. x = -1
      BY <1>6, <3>1 DEF Dot
    <3> QED
      BY <2>2, <3>2
  <2>7. CASE g = 5
    <3>1. Dot(<<x, y, z>>, <<0, 0, -1>>) = 1
      BY <1>4, <2>7, FaceVectors, Zenon
    <3>2. z = -1
      BY <1>6, <3>1 DEF Dot
    <3>3. p = <<<<1, y, -1>>, <<0, 0, -1>>>>
      BY <1>3, <2>2, <2>7, <3>2, FaceVectors, Zenon
    <3>4. PlaceOf(Edge(1, 3, -y + 2)) = <<<<1, -(-y), -1>>, <<0, 0, -1>>>>
      BY <1>6, EdgePlaces, Zenon
    <3>5. p = PlaceOf(Edge(f, 3, -y + 2))
      BY <1>6, <1>9, <3>3, <3>4, Zenon
    <3> QED
      BY <1>6, <3>5
  <2> QED
    BY <1>5, <1>7, <1>9, <2>3, <2>4, <2>5, <2>6, <2>7
<1>10. CASE f = 2
  <2>1. Dot(<<x, y, z>>, <<0, 1, 0>>) = 1
    BY <1>4, <1>10, FaceVectors, Zenon
  <2>2. y = 1
    BY <1>6, <2>1 DEF Dot
  <2>3. CASE g = 0
    <3>1. Dot(<<x, y, z>>, <<0, 0, 1>>) = 1
      BY <1>4, <2>3, FaceVectors, Zenon
    <3>2. z = 1
      BY <1>6, <3>1 DEF Dot
    <3>3. p = <<<<x, 1, 1>>, <<0, 0, 1>>>>
      BY <1>3, <2>2, <2>3, <3>2, FaceVectors, Zenon
    <3>4. PlaceOf(Edge(2, 1, -x + 2)) = <<<<-(-x), 1, 1>>, <<0, 0, 1>>>>
      BY <1>6, EdgePlaces, Zenon
    <3>5. p = PlaceOf(Edge(f, 1, -x + 2))
      BY <1>6, <1>10, <3>3, <3>4, Zenon
    <3> QED
      BY <1>6, <3>5
  <2>4. CASE g = 1
    <3>1. Dot(<<x, y, z>>, <<1, 0, 0>>) = 1
      BY <1>4, <2>4, FaceVectors, Zenon
    <3>2. x = 1
      BY <1>6, <3>1 DEF Dot
    <3>3. p = <<<<1, 1, z>>, <<1, 0, 0>>>>
      BY <1>3, <2>2, <2>4, <3>2, FaceVectors, Zenon
    <3>4. PlaceOf(Edge(2, 4, z + 2)) = <<<<1, 1, z>>, <<1, 0, 0>>>>
      BY <1>6, EdgePlaces, Zenon
    <3>5. p = PlaceOf(Edge(f, 4, z + 2))
      BY <1>6, <1>10, <3>3, <3>4, Zenon
    <3> QED
      BY <1>6, <3>5
  <2>5. CASE g = 3
    <3>1. Dot(<<x, y, z>>, <<0, -1, 0>>) = 1
      BY <1>4, <2>5, FaceVectors, Zenon
    <3>2. y = -1
      BY <1>6, <3>1 DEF Dot
    <3> QED
      BY <2>2, <3>2
  <2>6. CASE g = 4
    <3>1. Dot(<<x, y, z>>, <<-1, 0, 0>>) = 1
      BY <1>4, <2>6, FaceVectors, Zenon
    <3>2. x = -1
      BY <1>6, <3>1 DEF Dot
    <3>3. p = <<<<-1, 1, z>>, <<-1, 0, 0>>>>
      BY <1>3, <2>2, <2>6, <3>2, FaceVectors, Zenon
    <3>4. PlaceOf(Edge(2, 2, -z + 2)) = <<<<-1, 1, -(-z)>>, <<-1, 0, 0>>>>
      BY <1>6, EdgePlaces, Zenon
    <3>5. p = PlaceOf(Edge(f, 2, -z + 2))
      BY <1>6, <1>10, <3>3, <3>4, Zenon
    <3> QED
      BY <1>6, <3>5
  <2>7. CASE g = 5
    <3>1. Dot(<<x, y, z>>, <<0, 0, -1>>) = 1
      BY <1>4, <2>7, FaceVectors, Zenon
    <3>2. z = -1
      BY <1>6, <3>1 DEF Dot
    <3>3. p = <<<<x, 1, -1>>, <<0, 0, -1>>>>
      BY <1>3, <2>2, <2>7, <3>2, FaceVectors, Zenon
    <3>4. PlaceOf(Edge(2, 3, x + 2)) = <<<<x, 1, -1>>, <<0, 0, -1>>>>
      BY <1>6, EdgePlaces, Zenon
    <3>5. p = PlaceOf(Edge(f, 3, x + 2))
      BY <1>6, <1>10, <3>3, <3>4, Zenon
    <3> QED
      BY <1>6, <3>5
  <2> QED
    BY <1>5, <1>7, <1>10, <2>3, <2>4, <2>5, <2>6, <2>7
<1>11. CASE f = 3
  <2>1. Dot(<<x, y, z>>, <<0, -1, 0>>) = 1
    BY <1>4, <1>11, FaceVectors, Zenon
  <2>2. y = -1
    BY <1>6, <2>1 DEF Dot
  <2>3. CASE g = 0
    <3>1. Dot(<<x, y, z>>, <<0, 0, 1>>) = 1
      BY <1>4, <2>3, FaceVectors, Zenon
    <3>2. z = 1
      BY <1>6, <3>1 DEF Dot
    <3>3. p = <<<<x, -1, 1>>, <<0, 0, 1>>>>
      BY <1>3, <2>2, <2>3, <3>2, FaceVectors, Zenon
    <3>4. PlaceOf(Edge(3, 1, x + 2)) = <<<<x, -1, 1>>, <<0, 0, 1>>>>
      BY <1>6, EdgePlaces, Zenon
    <3>5. p = PlaceOf(Edge(f, 1, x + 2))
      BY <1>6, <1>11, <3>3, <3>4, Zenon
    <3> QED
      BY <1>6, <3>5
  <2>4. CASE g = 1
    <3>1. Dot(<<x, y, z>>, <<1, 0, 0>>) = 1
      BY <1>4, <2>4, FaceVectors, Zenon
    <3>2. x = 1
      BY <1>6, <3>1 DEF Dot
    <3>3. p = <<<<1, -1, z>>, <<1, 0, 0>>>>
      BY <1>3, <2>2, <2>4, <3>2, FaceVectors, Zenon
    <3>4. PlaceOf(Edge(3, 2, -z + 2)) = <<<<1, -1, -(-z)>>, <<1, 0, 0>>>>
      BY <1>6, EdgePlaces, Zenon
    <3>5. p = PlaceOf(Edge(f, 2, -z + 2))
      BY <1>6, <1>11, <3>3, <3>4, Zenon
    <3> QED
      BY <1>6, <3>5
  <2>5. CASE g = 2
    <3>1. Dot(<<x, y, z>>, <<0, 1, 0>>) = 1
      BY <1>4, <2>5, FaceVectors, Zenon
    <3>2. y = 1
      BY <1>6, <3>1 DEF Dot
    <3> QED
      BY <2>2, <3>2
  <2>6. CASE g = 4
    <3>1. Dot(<<x, y, z>>, <<-1, 0, 0>>) = 1
      BY <1>4, <2>6, FaceVectors, Zenon
    <3>2. x = -1
      BY <1>6, <3>1 DEF Dot
    <3>3. p = <<<<-1, -1, z>>, <<-1, 0, 0>>>>
      BY <1>3, <2>2, <2>6, <3>2, FaceVectors, Zenon
    <3>4. PlaceOf(Edge(3, 4, z + 2)) = <<<<-1, -1, z>>, <<-1, 0, 0>>>>
      BY <1>6, EdgePlaces, Zenon
    <3>5. p = PlaceOf(Edge(f, 4, z + 2))
      BY <1>6, <1>11, <3>3, <3>4, Zenon
    <3> QED
      BY <1>6, <3>5
  <2>7. CASE g = 5
    <3>1. Dot(<<x, y, z>>, <<0, 0, -1>>) = 1
      BY <1>4, <2>7, FaceVectors, Zenon
    <3>2. z = -1
      BY <1>6, <3>1 DEF Dot
    <3>3. p = <<<<x, -1, -1>>, <<0, 0, -1>>>>
      BY <1>3, <2>2, <2>7, <3>2, FaceVectors, Zenon
    <3>4. PlaceOf(Edge(3, 3, -x + 2)) = <<<<-(-x), -1, -1>>, <<0, 0, -1>>>>
      BY <1>6, EdgePlaces, Zenon
    <3>5. p = PlaceOf(Edge(f, 3, -x + 2))
      BY <1>6, <1>11, <3>3, <3>4, Zenon
    <3> QED
      BY <1>6, <3>5
  <2> QED
    BY <1>5, <1>7, <1>11, <2>3, <2>4, <2>5, <2>6, <2>7
<1>12. CASE f = 4
  <2>1. Dot(<<x, y, z>>, <<-1, 0, 0>>) = 1
    BY <1>4, <1>12, FaceVectors, Zenon
  <2>2. x = -1
    BY <1>6, <2>1 DEF Dot
  <2>3. CASE g = 0
    <3>1. Dot(<<x, y, z>>, <<0, 0, 1>>) = 1
      BY <1>4, <2>3, FaceVectors, Zenon
    <3>2. z = 1
      BY <1>6, <3>1 DEF Dot
    <3>3. p = <<<<-1, y, 1>>, <<0, 0, 1>>>>
      BY <1>3, <2>2, <2>3, <3>2, FaceVectors, Zenon
    <3>4. PlaceOf(Edge(4, 1, -y + 2)) = <<<<-1, -(-y), 1>>, <<0, 0, 1>>>>
      BY <1>6, EdgePlaces, Zenon
    <3>5. p = PlaceOf(Edge(f, 1, -y + 2))
      BY <1>6, <1>12, <3>3, <3>4, Zenon
    <3> QED
      BY <1>6, <3>5
  <2>4. CASE g = 1
    <3>1. Dot(<<x, y, z>>, <<1, 0, 0>>) = 1
      BY <1>4, <2>4, FaceVectors, Zenon
    <3>2. x = 1
      BY <1>6, <3>1 DEF Dot
    <3> QED
      BY <2>2, <3>2
  <2>5. CASE g = 2
    <3>1. Dot(<<x, y, z>>, <<0, 1, 0>>) = 1
      BY <1>4, <2>5, FaceVectors, Zenon
    <3>2. y = 1
      BY <1>6, <3>1 DEF Dot
    <3>3. p = <<<<-1, 1, z>>, <<0, 1, 0>>>>
      BY <1>3, <2>2, <2>5, <3>2, FaceVectors, Zenon
    <3>4. PlaceOf(Edge(4, 4, z + 2)) = <<<<-1, 1, z>>, <<0, 1, 0>>>>
      BY <1>6, EdgePlaces, Zenon
    <3>5. p = PlaceOf(Edge(f, 4, z + 2))
      BY <1>6, <1>12, <3>3, <3>4, Zenon
    <3> QED
      BY <1>6, <3>5
  <2>6. CASE g = 3
    <3>1. Dot(<<x, y, z>>, <<0, -1, 0>>) = 1
      BY <1>4, <2>6, FaceVectors, Zenon
    <3>2. y = -1
      BY <1>6, <3>1 DEF Dot
    <3>3. p = <<<<-1, -1, z>>, <<0, -1, 0>>>>
      BY <1>3, <2>2, <2>6, <3>2, FaceVectors, Zenon
    <3>4. PlaceOf(Edge(4, 2, -z + 2)) = <<<<-1, -1, -(-z)>>, <<0, -1, 0>>>>
      BY <1>6, EdgePlaces, Zenon
    <3>5. p = PlaceOf(Edge(f, 2, -z + 2))
      BY <1>6, <1>12, <3>3, <3>4, Zenon
    <3> QED
      BY <1>6, <3>5
  <2>7. CASE g = 5
    <3>1. Dot(<<x, y, z>>, <<0, 0, -1>>) = 1
      BY <1>4, <2>7, FaceVectors, Zenon
    <3>2. z = -1
      BY <1>6, <3>1 DEF Dot
    <3>3. p = <<<<-1, y, -1>>, <<0, 0, -1>>>>
      BY <1>3, <2>2, <2>7, <3>2, FaceVectors, Zenon
    <3>4. PlaceOf(Edge(4, 3, y + 2)) = <<<<-1, y, -1>>, <<0, 0, -1>>>>
      BY <1>6, EdgePlaces, Zenon
    <3>5. p = PlaceOf(Edge(f, 3, y + 2))
      BY <1>6, <1>12, <3>3, <3>4, Zenon
    <3> QED
      BY <1>6, <3>5
  <2> QED
    BY <1>5, <1>7, <1>12, <2>3, <2>4, <2>5, <2>6, <2>7
<1>13. CASE f = 5
  <2>1. Dot(<<x, y, z>>, <<0, 0, -1>>) = 1
    BY <1>4, <1>13, FaceVectors, Zenon
  <2>2. z = -1
    BY <1>6, <2>1 DEF Dot
  <2>3. CASE g = 0
    <3>1. Dot(<<x, y, z>>, <<0, 0, 1>>) = 1
      BY <1>4, <2>3, FaceVectors, Zenon
    <3>2. z = 1
      BY <1>6, <3>1 DEF Dot
    <3> QED
      BY <2>2, <3>2
  <2>4. CASE g = 1
    <3>1. Dot(<<x, y, z>>, <<1, 0, 0>>) = 1
      BY <1>4, <2>4, FaceVectors, Zenon
    <3>2. x = 1
      BY <1>6, <3>1 DEF Dot
    <3>3. p = <<<<1, y, -1>>, <<1, 0, 0>>>>
      BY <1>3, <2>2, <2>4, <3>2, FaceVectors, Zenon
    <3>4. PlaceOf(Edge(5, 1, y + 2)) = <<<<1, y, -1>>, <<1, 0, 0>>>>
      BY <1>6, EdgePlaces, Zenon
    <3>5. p = PlaceOf(Edge(f, 1, y + 2))
      BY <1>6, <1>13, <3>3, <3>4, Zenon
    <3> QED
      BY <1>6, <3>5
  <2>5. CASE g = 2
    <3>1. Dot(<<x, y, z>>, <<0, 1, 0>>) = 1
      BY <1>4, <2>5, FaceVectors, Zenon
    <3>2. y = 1
      BY <1>6, <3>1 DEF Dot
    <3>3. p = <<<<x, 1, -1>>, <<0, 1, 0>>>>
      BY <1>3, <2>2, <2>5, <3>2, FaceVectors, Zenon
    <3>4. PlaceOf(Edge(5, 2, -x + 2)) = <<<<-(-x), 1, -1>>, <<0, 1, 0>>>>
      BY <1>6, EdgePlaces, Zenon
    <3>5. p = PlaceOf(Edge(f, 2, -x + 2))
      BY <1>6, <1>13, <3>3, <3>4, Zenon
    <3> QED
      BY <1>6, <3>5
  <2>6. CASE g = 3
    <3>1. Dot(<<x, y, z>>, <<0, -1, 0>>) = 1
      BY <1>4, <2>6, FaceVectors, Zenon
    <3>2. y = -1
      BY <1>6, <3>1 DEF Dot
    <3>3. p = <<<<x, -1, -1>>, <<0, -1, 0>>>>
      BY <1>3, <2>2, <2>6, <3>2, FaceVectors, Zenon
    <3>4. PlaceOf(Edge(5, 4, x + 2)) = <<<<x, -1, -1>>, <<0, -1, 0>>>>
      BY <1>6, EdgePlaces, Zenon
    <3>5. p = PlaceOf(Edge(f, 4, x + 2))
      BY <1>6, <1>13, <3>3, <3>4, Zenon
    <3> QED
      BY <1>6, <3>5
  <2>7. CASE g = 4
    <3>1. Dot(<<x, y, z>>, <<-1, 0, 0>>) = 1
      BY <1>4, <2>7, FaceVectors, Zenon
    <3>2. x = -1
      BY <1>6, <3>1 DEF Dot
    <3>3. p = <<<<-1, y, -1>>, <<-1, 0, 0>>>>
      BY <1>3, <2>2, <2>7, <3>2, FaceVectors, Zenon
    <3>4. PlaceOf(Edge(5, 3, -y + 2)) = <<<<-1, -(-y), -1>>, <<-1, 0, 0>>>>
      BY <1>6, EdgePlaces, Zenon
    <3>5. p = PlaceOf(Edge(f, 3, -y + 2))
      BY <1>6, <1>13, <3>3, <3>4, Zenon
    <3> QED
      BY <1>6, <3>5
  <2> QED
    BY <1>5, <1>7, <1>13, <2>3, <2>4, <2>5, <2>6, <2>7
<1> QED
  BY <1>7, <1>8, <1>9, <1>10, <1>11, <1>12, <1>13

(* A turn moves every sticker of the layer of its face.                    *)
LEMMA LayerIsMoved ==
  ASSUME NEW f \in Faces, NEW d \in Directions, NEW st \in Stickers,
         Dot(PlaceOf(st)[1], Normal[f]) = 1
  PROVE  \E m \in Moves(f, d) : m.to = st
<1>1. PlaceOf(st) \in Places /\ SquareOf[PlaceOf(st)] = st
  BY StickersArePlaces
<1>2. CASE PlaceOf(st)[2] = Normal[f]
  <2>1. PICK g \in Faces, r \in Thirds, c \in Thirds : PlaceOf(st)
          = At(g, r, c)
    BY <1>1, PlacesAreAt
  <2>2. g = f
    <3>1. Normal[g] = Normal[f]
      BY <1>2, <2>1 DEF At
    <3> QED
      BY <3>1, NormalInjective
  <2>3. st = <<f, Square(r, c)>> /\ Square(r, c) \in Squares
    BY <1>1, <2>1, <2>2, SquareOfAt, SquareType
  <2> DEFINE m == [from |-> <<f, OwnSource[d][Square(r, c)]>>,
                   to |-> <<f, Square(r, c)>>]
  <2>4. m \in Moves(f, d) /\ m.to = st
    BY <2>3 DEF Moves, transpose_face
  <2> QED
    BY <2>4
<1>3. CASE PlaceOf(st)[2] # Normal[f]
  <2>1. PICK i \in {1, 2, 3, 4}, k \in Thirds :
          PlaceOf(st) = PlaceOf(Edge(f, i, k + 2))
    BY <1>1, <1>3, RimIsEdges
  <2>2. i \in 1 .. N_EDGES_PER_SIDE /\ k + 2 \in 1 .. N_SQUARES_PER_SIDE
    BY DEF N_EDGES_PER_SIDE, N_SQUARES_PER_SIDE, Thirds
  <2>3. Edge(f, i, k + 2) = st
    BY <1>1, <2>1, <2>2, EdgeType, StickersArePlaces
  <2>4. PICK h \in 1 .. N_EDGES_PER_SIDE : next_adjacent_face(h, d) = i
    <3>1. next_adjacent_face(i, 1 - d) \in 1 .. N_EDGES_PER_SIDE
      BY <2>2 DEF next_adjacent_face, N_EDGES_PER_SIDE
    <3>2. next_adjacent_face(next_adjacent_face(i, 1 - d), d) = i
      BY <2>2 DEF next_adjacent_face, N_EDGES_PER_SIDE, Directions
    <3> QED
      BY <3>1, <3>2
  <2> DEFINE m == [from |-> Edge(f, h, k + 2),
                   to |-> Edge(f, next_adjacent_face(h, d), k + 2)]
  <2>5. m \in Moves(f, d) /\ m.to = st
    BY <2>2, <2>3, <2>4 DEF Moves, transpose_other_faces
  <2> QED
    BY <2>5
<1> QED
  BY <1>2, <1>3

(* rotate looks up, for every square, the one that a quarter turn of the   *)
(* layer in space brings there.                                            *)
LEMMA SourceInSpace ==
  ASSUME NEW f \in Faces, NEW d \in Directions, NEW g \in Faces,
         NEW s \in Squares
  PROVE  PlaceOf(Source[f][d][g][s])
           = ComesFrom(Normal[f], d = 0, PlaceOf(<<g, s>>))
<1> DEFINE st == <<g, s>>
<1>1. Source[f][d][g][s] = SourceOf(Moves(f, d), st)
  BY DEF Source
<1>2. st \in Stickers
  BY DEF Stickers
<1> HIDE DEF st
<1>3. CASE \E m \in Moves(f, d) : m.to = st
  <2>1. PICK m \in Moves(f, d) :
          m.to = st /\ SourceOf(Moves(f, d), st) = m.from
    <3> DEFINE m == CHOOSE m \in Moves(f, d) : m.to = st
    <3>1. m \in Moves(f, d) /\ m.to = st
      BY <1>3
    <3>2. SourceOf(Moves(f, d), st) = m.from
      BY <1>3 DEF SourceOf
    <3> HIDE DEF m
    <3> QED
      BY <3>1, <3>2
  <2>2. PlaceOf(m.from) = ComesFrom(Normal[f], d = 0, PlaceOf(m.to))
    BY MovesInSpace
  <2> QED
    BY <1>1, <2>1, <2>2 DEF st
<1>4. CASE ~ \E m \in Moves(f, d) : m.to = st
  <2>1. SourceOf(Moves(f, d), st) = st
    BY <1>4 DEF SourceOf
  <2>2. Dot(PlaceOf(st)[1], Normal[f]) # 1
    BY <1>2, <1>4, LayerIsMoved
  <2>3. ComesFrom(Normal[f], d = 0, PlaceOf(st)) = PlaceOf(st)
    BY <2>2 DEF ComesFrom
  <2> QED
    BY <1>1, <2>1, <2>3 DEF st
<1> QED
  BY <1>3, <1>4

-----------------------------------------------------------------------------
(***************************************************************************)
(* The refinement of PhysicalCube.                                         *)
(***************************************************************************)
(* The refinement looks at the cube in the space of this module.           *)
LEMMA SameSpace ==
  /\ Physical!Sides = Sides
  /\ Physical!Places = Places
  /\ \A n, clockwise, p : Physical!ComesFrom(n, clockwise, p)
                              = ComesFrom(n, clockwise, p)
<1>1. \A u, v : Physical!Dot(u, v) = Dot(u, v)
  BY DEF Physical!Dot, Dot
<1>2. Physical!Block = Block
  BY DEF Physical!Block, Block
<1>3. Physical!Sides = Sides
  BY <1>1, <1>2 DEF Physical!Sides, Sides
<1>4. Physical!Places = Places
  BY <1>1, <1>2, <1>3 DEF Physical!Places, Places
<1>5. \A n, clockwise, p :
        Physical!ComesFrom(n, clockwise, p) = ComesFrom(n, clockwise, p)
  BY DEF Physical!ComesFrom, ComesFrom, Physical!QuarterTurn, QuarterTurn,
         Physical!Plus, Plus, Physical!Times, Times, Physical!Cross, Cross,
         Physical!Dot, Dot
<1> QED
  BY <1>3, <1>4, <1>5

(* rotate imitates the turn of a real cube: seen in space, its result is   *)
(* the cube with the layer of the face given a quarter turn.               *)
LEMMA RotateTurns ==
  ASSUME NEW cube \in Cubes, NEW f \in Faces, NEW d \in Directions
  PROVE  Painted(rotate(cube, f, d))
           = Physical!Turned(Painted(cube), Normal[f], d = 0)
<1>1. ASSUME NEW p \in Places
      PROVE  Painted(rotate(cube, f, d))[p]
               = Painted(cube)[ComesFrom(Normal[f], d = 0, p)]
  <2>1. PICK g \in Faces, s \in Squares : SquareOf[p] = <<g, s>>
    BY StickersArePlaces DEF Stickers
  <2>2. PlaceOf(<<g, s>>) = p
    BY <2>1, StickersArePlaces
  <2> DEFINE from == Source[f][d][g][s]
             q == ComesFrom(Normal[f], d = 0, p)
  <2>3. from \in Stickers
    BY SourceType
  <2>4. PlaceOf(from) = q
    BY <2>2, SourceInSpace, Zenon
  <2>5. q \in Places /\ SquareOf[q] = from
    BY <2>3, <2>4, StickersArePlaces, Zenon
  <2>6. ColorAt(rotate(cube, f, d), SquareOf[p]) = ColorAt(cube, from)
    BY <2>1 DEF rotate, ColorAt
  <2> HIDE DEF from, q
  <2>7. Painted(rotate(cube, f, d))[p]
          = Normal[ColorAt(rotate(cube, f, d), SquareOf[p])]
    BY DEF Painted
  <2>8. Painted(cube)[q] = Normal[ColorAt(cube, SquareOf[q])]
    BY <2>5 DEF Painted
  <2>9. Painted(rotate(cube, f, d))[p] = Painted(cube)[q]
    BY <2>5, <2>6, <2>7, <2>8, Zenon
  <2> QED
    BY <2>9 DEF q
<1>2. Painted(rotate(cube, f, d))
        = [p \in Places |-> Painted(rotate(cube, f, d))[p]]
  BY DEF Painted
<1> DEFINE turned == Painted(rotate(cube, f, d))
           was == Painted(cube)
           n == Normal[f]
           clockwise == d = 0
<1> HIDE DEF turned, was, n, clockwise
<1>3. /\ turned = [p \in Places |-> turned[p]]
      /\ \A p \in Places : turned[p] = was[ComesFrom(n, clockwise, p)]
  BY <1>1, <1>2, Zenon DEF turned, was, n, clockwise
<1>4. turned = Physical!Turned(was, n, clockwise)
  BY <1>3, SameSpace DEF Physical!Turned
<1> QED
  BY <1>4 DEF turned, was, n, clockwise

(* make_cube makes the cube that a player calls solved.                    *)
LEMMA MakeCubeIsSolved == Painted(make_cube) = Physical!Solved
<1>1. ASSUME NEW p \in Places PROVE Normal[ColorAt(make_cube, SquareOf[p])]
        = p[2]
  <2>1. PICK g \in Faces, r \in Thirds, c \in Thirds : p = At(g, r, c)
    BY PlacesAreAt
  <2>2. SquareOf[p] = <<g, Square(r, c)>> /\ Square(r, c) \in Squares
    BY <2>1, SquareOfAt, SquareType
  <2>3. ColorAt(make_cube, SquareOf[p]) = g
    BY <2>2 DEF ColorAt, make_cube, make_face
  <2>4. p[2] = Normal[g]
    BY <2>1 DEF At
  <2> QED
    BY <2>3, <2>4
<1>2. Painted(make_cube)
        = [p \in Places |-> Normal[ColorAt(make_cube, SquareOf[p])]]
  BY DEF Painted
<1> QED
  BY <1>1, <1>2, SameSpace DEF Physical!Solved

(* A turn of rubiks_view turns the face that it names, and no other.       *)
LEMMA TurnIsPhysical ==
  ASSUME Inv, NEW f \in Faces, NEW d \in Directions, Turn(f, d)
  PROVE  Painted(rubiks_cube')
           = Physical!Turned(Painted(rubiks_cube), Normal[f], d = 0)
<1>1. rubiks_cube \in Cubes /\ rubiks_cube' = rotate(rubiks_cube, f, d)
  BY DEF Inv, TypeOK, Turn
<1> QED
  BY <1>1, RotateTurns

(* Every step of the program is a turn, a reassembly, or no change.        *)
LEMMA NextIsPhysical ==
  ASSUME Inv, [Next]_vars
  PROVE  [Physical!Next]_(Painted(rubiks_cube))
<1>1. ASSUME NEW f \in Faces, NEW d \in Directions, Turn(f, d)
      PROVE  Physical!Next
  <2>1. Physical!Turn(Normal[f], d = 0)
    <3>1. Painted(rubiks_cube')
            = Physical!Turned(Painted(rubiks_cube), Normal[f], d = 0)
      BY <1>1, TurnIsPhysical
    <3> QED
      BY <3>1, Zenon DEF Physical!Turn
  <2>2. Normal[f] \in Sides /\ (d = 0) \in BOOLEAN
    BY SidesAreNormals
  <2> QED
    BY <2>1, <2>2, SameSpace DEF Physical!Next
<1>2. CASE ShuffleTurn
  BY <1>1, <1>2 DEF ShuffleTurn
<1>3. ASSUME NEW d \in Directions, RotateKey(d) PROVE Physical!Next
  BY <1>1, <1>3 DEF RotateKey, Inv, TypeOK
<1>4. CASE SpaceKey
  <2>1. CASE is_solved(rubiks_cube)
    <3>1. rubiks_cube' = rubiks_cube
      BY <1>4, <2>1 DEF SpaceKey
    <3> QED
      BY <3>1
  <2>2. CASE ~is_solved(rubiks_cube)
    <3>1. rubiks_cube' = make_cube
      BY <1>4, <2>2 DEF SpaceKey
    <3>2. Painted(rubiks_cube') = Physical!Solved
      BY <3>1, MakeCubeIsSolved, Zenon
    <3> QED
      BY <3>2 DEF Physical!Next, Physical!Solve
  <2> QED
    BY <2>1, <2>2
<1>5. CASE UNCHANGED rubiks_cube
  BY <1>5
<1>6. ShuffleEnds => UNCHANGED rubiks_cube
  BY DEF ShuffleEnds
<1>7. Display => UNCHANGED rubiks_cube
  BY DEF Display
<1>8. ASSUME NEW f \in Faces, FaceKey(f) PROVE UNCHANGED rubiks_cube
  BY <1>8 DEF FaceKey
<1>9. OtherKey => UNCHANGED rubiks_cube
  BY DEF OtherKey
<1>10. QuitKey => UNCHANGED rubiks_cube
  BY DEF QuitKey
<1>11. UNCHANGED vars => UNCHANGED rubiks_cube
  BY DEF vars
<1> QED
  BY <1>2, <1>3, <1>4, <1>5, <1>6, <1>7, <1>8, <1>9, <1>10, <1>11 DEF Next

(* rotate imitates the physical action of rotating a Rubik's cube, for     *)
(* every cube, shuffle and sequence of keys: rubiks_view implements the    *)
(* cube in space, whose definition knows no face numbers and no tables.    *)
THEOREM ImplementsPhysicalCube == Spec => IsPhysicalCube
<1>1. Init => Physical!Init
  BY MakeCubeIsSolved DEF Init, Physical!Init
<1>2. Inv /\ [Next]_vars => [Physical!Next]_(Painted(rubiks_cube))
  BY NextIsPhysical
<1> QED
  BY <1>1, <1>2, Invariance, PTL DEF Spec, IsPhysicalCube, Physical!Spec

(* The keys d and a turn the face on display, clockwise for d as seen by   *)
(* whoever looks at its screen and counterclockwise for a, and turn no     *)
(* other layer.                                                            *)
THEOREM KeysAreTurns == Spec => KeysTurnTheFaceShown
<1> DEFINE A == \A d \in Directions :
                  RotateKey(d) =>
                    Painted(rubiks_cube') =
                      Physical!Turned(Painted(rubiks_cube),
                                      Normal[current_face], d = 0)
<1>1. Inv => A
  <2> SUFFICES ASSUME Inv, NEW d \in Directions, RotateKey(d)
               PROVE  Painted(rubiks_cube') =
                        Physical!Turned(Painted(rubiks_cube),
                                        Normal[current_face], d = 0)
    OBVIOUS
  <2>1. Turn(current_face, d) /\ current_face \in Faces
    BY DEF RotateKey, Inv, TypeOK
  <2> QED
    BY <2>1, TurnIsPhysical
<1>2. Inv /\ [Next]_vars => [A]_vars
  BY <1>1
<1> QED
  BY <1>2, Invariance, PTL DEF Spec, KeysTurnTheFaceShown

-----------------------------------------------------------------------------
(***************************************************************************)
(* The parity of the turns made.  Each turn takes four of the eight        *)
(* corners a quarter further, an odd permutation of the corners; so the    *)
(* parity of the number of pairs of corners that are in the wrong order is *)
(* that of the number of turns.  On the solved cube no pair is.            *)
(***************************************************************************)
\* The places of the eight corners of the block, by increasing weight.
CornerAt ==
  <<<<-1, -1, -1>>, <<1, -1, -1>>, <<-1, 1, -1>>, <<1, 1, -1>>,
    <<-1, -1, 1>>, <<1, -1, 1>>, <<-1, 1, 1>>, <<1, 1, 1>>>>

CornerIds == 1 .. 8

Weight(p) == p[1] + 2 * p[2] + 4 * p[3]

\* Which corner is at each of the places, if there are eight of them.
Arranged(who) ==
  /\ who \in [CornerIds -> Block]
  /\ \A i, j \in CornerIds : i # j => Weight(who[i]) # Weight(who[j])

\* The stickers at the place of a corner have colours of that corner.
Shows(p, who) ==
  \A s \in Places, i \in CornerIds :
    s[1] = CornerAt[i] => Dot(who[i], p[s]) = 1

Above(who, i, j) == IF Weight(who[i]) > Weight(who[j]) THEN 1 ELSE 0

\* How many pairs of corners are in the wrong order.
Inversions(who) ==
  LET A(i, j) == Above(who, i, j)
  IN  A(1, 2) + A(1, 3) + A(1, 4) + A(1, 5) + A(1, 6) + A(1, 7) + A(1, 8)
      + A(2, 3) + A(2, 4) + A(2, 5) + A(2, 6) + A(2, 7) + A(2, 8)
      + A(3, 4) + A(3, 5) + A(3, 6) + A(3, 7) + A(3, 8)
      + A(4, 5) + A(4, 6) + A(4, 7) + A(4, 8)
      + A(5, 6) + A(5, 7) + A(5, 8)
      + A(6, 7) + A(6, 8)
      + A(7, 8)

Rearranged(who, t) == [i \in CornerIds |-> who[t[i]]]

\* Where a turn takes the corners from: a cycle of four of the eight places.
Cycles ==
  {<<1, 2, 3, 4, 6, 8, 5, 7>>, <<1, 2, 3, 4, 7, 5, 8, 6>>,
   <<1, 4, 3, 8, 5, 2, 7, 6>>, <<1, 6, 3, 2, 5, 8, 7, 4>>,
   <<1, 2, 7, 3, 5, 6, 8, 4>>, <<1, 2, 4, 8, 5, 6, 3, 7>>,
   <<2, 6, 3, 4, 1, 5, 7, 8>>, <<5, 1, 3, 4, 6, 2, 7, 8>>,
   <<5, 2, 1, 4, 7, 6, 3, 8>>, <<3, 2, 7, 4, 1, 6, 5, 8>>,
   <<3, 1, 4, 2, 5, 6, 7, 8>>, <<2, 4, 1, 3, 5, 6, 7, 8>>}

\* Where the corner that a turn of face f brings to p comes from.
CornerSource(f, d, p) ==
  IF Dot(p, Normal[f]) = 1
  THEN QuarterTurn(IF d = 0 THEN Normal[f] ELSE Times(-1, Normal[f]), p)
  ELSE p

IsCycleOf(f, d, t) ==
  \A i \in CornerIds : /\ t[i] \in CornerIds
                        /\ CornerSource(f, d, CornerAt[i]) = CornerAt[t[i]]

(* Of two corners, one is above the other.                                 *)
LEMMA AboveType ==
  ASSUME NEW who, Arranged(who)
  PROVE  /\ \A i, j \in CornerIds : Above(who, i, j) \in Int
         /\ \A i, j \in CornerIds :
              i # j => Above(who, i, j) = 1 - Above(who, j, i)
<1>1. \A i \in CornerIds : Weight(who[i]) \in Int
  <2>1. \A p \in Block : Weight(p) \in Int
    BY DEF Block, Weight
  <2> QED
    BY <2>1 DEF Arranged
<1>2. \A i, j \in CornerIds : i # j => Weight(who[i]) # Weight(who[j])
  BY DEF Arranged
<1> QED
  BY <1>1, <1>2 DEF Above

(* A quarter turn of four corners is an odd permutation: it changes the    *)
(* parity of the number of pairs in the wrong order.                       *)
LEMMA CyclesAreOdd ==
  ASSUME NEW who, Arranged(who), NEW t \in Cycles
  PROVE  /\ Arranged(Rearranged(who, t))
         /\ Inversions(who) \in Int
         /\ \E q \in Int :
              Inversions(Rearranged(who, t)) = Inversions(who) + 1 + 2 * q
<1> DEFINE new == Rearranged(who, t)
<1> HIDE DEF new
<1>1. CornerIds = {1, 2, 3, 4, 5, 6, 7, 8}
  BY DEF CornerIds
<1>2. /\ \A i \in CornerIds : t[i] \in CornerIds
      /\ \A i, j \in CornerIds : i # j => t[i] # t[j]
  BY <1>1 DEF Cycles
<1>3. \A i \in CornerIds : new[i] = who[t[i]]
  BY DEF new, Rearranged
<1>4. Arranged(new)
  <2>1. new \in [CornerIds -> Block]
    BY <1>2 DEF new, Rearranged, Arranged
  <2> QED
    BY <1>2, <1>3, <2>1 DEF Arranged
<1>5. \A i, j \in CornerIds : Above(new, i, j) = Above(who, t[i], t[j])
  BY <1>3 DEF Above
<1>6. /\ \A i, j \in CornerIds : Above(who, i, j) \in Int
      /\ \A i, j \in CornerIds :
           i # j => Above(who, i, j) = 1 - Above(who, j, i)
  BY AboveType
<1> DEFINE A(i, j) == Above(who, i, j)
           B(i, j) == Above(new, i, j)
<1>7. /\ A(1, 2) \in Int /\ A(1, 3) \in Int /\ A(1, 4) \in Int
      /\ A(1, 5) \in Int /\ A(1, 6) \in Int /\ A(1, 7) \in Int
      /\ A(1, 8) \in Int /\ A(2, 3) \in Int /\ A(2, 4) \in Int
      /\ A(2, 5) \in Int /\ A(2, 6) \in Int /\ A(2, 7) \in Int
      /\ A(2, 8) \in Int /\ A(3, 4) \in Int /\ A(3, 5) \in Int
      /\ A(3, 6) \in Int /\ A(3, 7) \in Int /\ A(3, 8) \in Int
      /\ A(4, 5) \in Int /\ A(4, 6) \in Int /\ A(4, 7) \in Int
      /\ A(4, 8) \in Int /\ A(5, 6) \in Int /\ A(5, 7) \in Int
      /\ A(5, 8) \in Int /\ A(6, 7) \in Int /\ A(6, 8) \in Int
      /\ A(7, 8) \in Int
  BY <1>1, <1>6
<1>8. PICK a12, a13, a14, a15, a16, a17, a18,
           a23, a24, a25, a26, a27, a28,
           a34, a35, a36, a37, a38,
           a45, a46, a47, a48,
           a56, a57, a58,
           a67, a68,
           a78 \in Int :
        /\ a12 = A(1, 2) /\ a13 = A(1, 3) /\ a14 = A(1, 4)
        /\ a15 = A(1, 5) /\ a16 = A(1, 6) /\ a17 = A(1, 7)
        /\ a18 = A(1, 8) /\ a23 = A(2, 3) /\ a24 = A(2, 4)
        /\ a25 = A(2, 5) /\ a26 = A(2, 6) /\ a27 = A(2, 7)
        /\ a28 = A(2, 8) /\ a34 = A(3, 4) /\ a35 = A(3, 5)
        /\ a36 = A(3, 6) /\ a37 = A(3, 7) /\ a38 = A(3, 8)
        /\ a45 = A(4, 5) /\ a46 = A(4, 6) /\ a47 = A(4, 7)
        /\ a48 = A(4, 8) /\ a56 = A(5, 6) /\ a57 = A(5, 7)
        /\ a58 = A(5, 8) /\ a67 = A(6, 7) /\ a68 = A(6, 8)
        /\ a78 = A(7, 8)
  BY <1>7, Zenon
<1>9. Inversions(who)
        = a12 + a13 + a14 + a15 + a16 + a17 + a18
          + a23 + a24 + a25 + a26 + a27 + a28
          + a34 + a35 + a36 + a37 + a38
          + a45 + a46 + a47 + a48
          + a56 + a57 + a58
          + a67 + a68
          + a78
  BY <1>8 DEF Inversions
<1>10. Inversions(who) \in Int
  BY <1>9
<1> DEFINE Odd == \E q \in Int : Inversions(new) = Inversions(who) + 1 + 2 * q
<1>11. ASSUME t = <<1, 2, 3, 4, 6, 8, 5, 7>> PROVE Odd
  <2>1. /\ t[1] = 1 /\ t[2] = 2 /\ t[3] = 3 /\ t[4] = 4
        /\ t[5] = 6 /\ t[6] = 8 /\ t[7] = 5 /\ t[8] = 7
    BY <1>11
  <2>2. /\ B(1, 2) = a12 /\ B(1, 3) = a13 /\ B(1, 4) = a14
        /\ B(1, 5) = a16 /\ B(1, 6) = a18 /\ B(1, 7) = a15
        /\ B(1, 8) = a17 /\ B(2, 3) = a23 /\ B(2, 4) = a24
        /\ B(2, 5) = a26 /\ B(2, 6) = a28 /\ B(2, 7) = a25
        /\ B(2, 8) = a27 /\ B(3, 4) = a34 /\ B(3, 5) = a36
        /\ B(3, 6) = a38 /\ B(3, 7) = a35 /\ B(3, 8) = a37
        /\ B(4, 5) = a46 /\ B(4, 6) = a48 /\ B(4, 7) = a45
        /\ B(4, 8) = a47 /\ B(5, 6) = a68 /\ B(5, 7) = 1 - a56
        /\ B(5, 8) = a67 /\ B(6, 7) = 1 - a58 /\ B(6, 8) = 1 - a78
        /\ B(7, 8) = a57
    BY <1>1, <1>5, <1>6, <1>8, <2>1
  <2>3. Inversions(new)
          = a12 + a13 + a14 + a16 + a18 + a15 + a17
            + a23 + a24 + a26 + a28 + a25 + a27
            + a34 + a36 + a38 + a35 + a37
            + a46 + a48 + a45 + a47
            + a68 + (1 - a56) + a67
            + (1 - a58) + (1 - a78)
            + a57
    BY <2>2 DEF Inversions
  <2> DEFINE q == 1 - (a56 + a58 + a78)
  <2>4. q \in Int
    OBVIOUS
  <2>5. Inversions(new) = Inversions(who) + 1 + 2 * q
    BY <1>9, <2>3
  <2> HIDE DEF q
  <2> QED
    BY <2>4, <2>5
<1>12. ASSUME t = <<1, 2, 3, 4, 7, 5, 8, 6>> PROVE Odd
  <2>1. /\ t[1] = 1 /\ t[2] = 2 /\ t[3] = 3 /\ t[4] = 4
        /\ t[5] = 7 /\ t[6] = 5 /\ t[7] = 8 /\ t[8] = 6
    BY <1>12
  <2>2. /\ B(1, 2) = a12 /\ B(1, 3) = a13 /\ B(1, 4) = a14
        /\ B(1, 5) = a17 /\ B(1, 6) = a15 /\ B(1, 7) = a18
        /\ B(1, 8) = a16 /\ B(2, 3) = a23 /\ B(2, 4) = a24
        /\ B(2, 5) = a27 /\ B(2, 6) = a25 /\ B(2, 7) = a28
        /\ B(2, 8) = a26 /\ B(3, 4) = a34 /\ B(3, 5) = a37
        /\ B(3, 6) = a35 /\ B(3, 7) = a38 /\ B(3, 8) = a36
        /\ B(4, 5) = a47 /\ B(4, 6) = a45 /\ B(4, 7) = a48
        /\ B(4, 8) = a46 /\ B(5, 6) = 1 - a57 /\ B(5, 7) = a78
        /\ B(5, 8) = 1 - a67 /\ B(6, 7) = a58 /\ B(6, 8) = a56
        /\ B(7, 8) = 1 - a68
    BY <1>1, <1>5, <1>6, <1>8, <2>1
  <2>3. Inversions(new)
          = a12 + a13 + a14 + a17 + a15 + a18 + a16
            + a23 + a24 + a27 + a25 + a28 + a26
            + a34 + a37 + a35 + a38 + a36
            + a47 + a45 + a48 + a46
            + (1 - a57) + a78 + (1 - a67)
            + a58 + a56
            + (1 - a68)
    BY <2>2 DEF Inversions
  <2> DEFINE q == 1 - (a57 + a67 + a68)
  <2>4. q \in Int
    OBVIOUS
  <2>5. Inversions(new) = Inversions(who) + 1 + 2 * q
    BY <1>9, <2>3
  <2> HIDE DEF q
  <2> QED
    BY <2>4, <2>5
<1>13. ASSUME t = <<1, 4, 3, 8, 5, 2, 7, 6>> PROVE Odd
  <2>1. /\ t[1] = 1 /\ t[2] = 4 /\ t[3] = 3 /\ t[4] = 8
        /\ t[5] = 5 /\ t[6] = 2 /\ t[7] = 7 /\ t[8] = 6
    BY <1>13
  <2>2. /\ B(1, 2) = a14 /\ B(1, 3) = a13 /\ B(1, 4) = a18
        /\ B(1, 5) = a15 /\ B(1, 6) = a12 /\ B(1, 7) = a17
        /\ B(1, 8) = a16 /\ B(2, 3) = 1 - a34 /\ B(2, 4) = a48
        /\ B(2, 5) = a45 /\ B(2, 6) = 1 - a24 /\ B(2, 7) = a47
        /\ B(2, 8) = a46 /\ B(3, 4) = a38 /\ B(3, 5) = a35
        /\ B(3, 6) = 1 - a23 /\ B(3, 7) = a37 /\ B(3, 8) = a36
        /\ B(4, 5) = 1 - a58 /\ B(4, 6) = 1 - a28 /\ B(4, 7) = 1 - a78
        /\ B(4, 8) = 1 - a68 /\ B(5, 6) = 1 - a25 /\ B(5, 7) = a57
        /\ B(5, 8) = a56 /\ B(6, 7) = a27 /\ B(6, 8) = a26
        /\ B(7, 8) = 1 - a67
    BY <1>1, <1>5, <1>6, <1>8, <2>1
  <2>3. Inversions(new)
          = a14 + a13 + a18 + a15 + a12 + a17 + a16
            + (1 - a34) + a48 + a45 + (1 - a24) + a47 + a46
            + a38 + a35 + (1 - a23) + a37 + a36
            + (1 - a58) + (1 - a28) + (1 - a78) + (1 - a68)
            + (1 - a25) + a57 + a56
            + a27 + a26
            + (1 - a67)
    BY <2>2 DEF Inversions
  <2> DEFINE q == 4 - (a34 + a24 + a23 + a58 + a28 + a78 + a68 + a25 + a67)
  <2>4. q \in Int
    OBVIOUS
  <2>5. Inversions(new) = Inversions(who) + 1 + 2 * q
    BY <1>9, <2>3
  <2> HIDE DEF q
  <2> QED
    BY <2>4, <2>5
<1>14. ASSUME t = <<1, 6, 3, 2, 5, 8, 7, 4>> PROVE Odd
  <2>1. /\ t[1] = 1 /\ t[2] = 6 /\ t[3] = 3 /\ t[4] = 2
        /\ t[5] = 5 /\ t[6] = 8 /\ t[7] = 7 /\ t[8] = 4
    BY <1>14
  <2>2. /\ B(1, 2) = a16 /\ B(1, 3) = a13 /\ B(1, 4) = a12
        /\ B(1, 5) = a15 /\ B(1, 6) = a18 /\ B(1, 7) = a17
        /\ B(1, 8) = a14 /\ B(2, 3) = 1 - a36 /\ B(2, 4) = 1 - a26
        /\ B(2, 5) = 1 - a56 /\ B(2, 6) = a68 /\ B(2, 7) = a67
        /\ B(2, 8) = 1 - a46 /\ B(3, 4) = 1 - a23 /\ B(3, 5) = a35
        /\ B(3, 6) = a38 /\ B(3, 7) = a37 /\ B(3, 8) = a34
        /\ B(4, 5) = a25 /\ B(4, 6) = a28 /\ B(4, 7) = a27
        /\ B(4, 8) = a24 /\ B(5, 6) = a58 /\ B(5, 7) = a57
        /\ B(5, 8) = 1 - a45 /\ B(6, 7) = 1 - a78 /\ B(6, 8) = 1 - a48
        /\ B(7, 8) = 1 - a47
    BY <1>1, <1>5, <1>6, <1>8, <2>1
  <2>3. Inversions(new)
          = a16 + a13 + a12 + a15 + a18 + a17 + a14
            + (1 - a36) + (1 - a26) + (1 - a56) + a68 + a67 + (1 - a46)
            + (1 - a23) + a35 + a38 + a37 + a34
            + a25 + a28 + a27 + a24
            + a58 + a57 + (1 - a45)
            + (1 - a78) + (1 - a48)
            + (1 - a47)
    BY <2>2 DEF Inversions
  <2> DEFINE q == 4 - (a36 + a26 + a56 + a46 + a23 + a45 + a78 + a48 + a47)
  <2>4. q \in Int
    OBVIOUS
  <2>5. Inversions(new) = Inversions(who) + 1 + 2 * q
    BY <1>9, <2>3
  <2> HIDE DEF q
  <2> QED
    BY <2>4, <2>5
<1>15. ASSUME t = <<1, 2, 7, 3, 5, 6, 8, 4>> PROVE Odd
  <2>1. /\ t[1] = 1 /\ t[2] = 2 /\ t[3] = 7 /\ t[4] = 3
        /\ t[5] = 5 /\ t[6] = 6 /\ t[7] = 8 /\ t[8] = 4
    BY <1>15
  <2>2. /\ B(1, 2) = a12 /\ B(1, 3) = a17 /\ B(1, 4) = a13
        /\ B(1, 5) = a15 /\ B(1, 6) = a16 /\ B(1, 7) = a18
        /\ B(1, 8) = a14 /\ B(2, 3) = a27 /\ B(2, 4) = a23
        /\ B(2, 5) = a25 /\ B(2, 6) = a26 /\ B(2, 7) = a28
        /\ B(2, 8) = a24 /\ B(3, 4) = 1 - a37 /\ B(3, 5) = 1 - a57
        /\ B(3, 6) = 1 - a67 /\ B(3, 7) = a78 /\ B(3, 8) = 1 - a47
        /\ B(4, 5) = a35 /\ B(4, 6) = a36 /\ B(4, 7) = a38
        /\ B(4, 8) = a34 /\ B(5, 6) = a56 /\ B(5, 7) = a58
        /\ B(5, 8) = 1 - a45 /\ B(6, 7) = a68 /\ B(6, 8) = 1 - a46
        /\ B(7, 8) = 1 - a48
    BY <1>1, <1>5, <1>6, <1>8, <2>1
  <2>3. Inversions(new)
          = a12 + a17 + a13 + a15 + a16 + a18 + a14
            + a27 + a23 + a25 + a26 + a28 + a24
            + (1 - a37) + (1 - a57) + (1 - a67) + a78 + (1 - a47)
            + a35 + a36 + a38 + a34
            + a56 + a58 + (1 - a45)
            + a68 + (1 - a46)
            + (1 - a48)
    BY <2>2 DEF Inversions
  <2> DEFINE q == 3 - (a37 + a57 + a67 + a47 + a45 + a46 + a48)
  <2>4. q \in Int
    OBVIOUS
  <2>5. Inversions(new) = Inversions(who) + 1 + 2 * q
    BY <1>9, <2>3
  <2> HIDE DEF q
  <2> QED
    BY <2>4, <2>5
<1>16. ASSUME t = <<1, 2, 4, 8, 5, 6, 3, 7>> PROVE Odd
  <2>1. /\ t[1] = 1 /\ t[2] = 2 /\ t[3] = 4 /\ t[4] = 8
        /\ t[5] = 5 /\ t[6] = 6 /\ t[7] = 3 /\ t[8] = 7
    BY <1>16
  <2>2. /\ B(1, 2) = a12 /\ B(1, 3) = a14 /\ B(1, 4) = a18
        /\ B(1, 5) = a15 /\ B(1, 6) = a16 /\ B(1, 7) = a13
        /\ B(1, 8) = a17 /\ B(2, 3) = a24 /\ B(2, 4) = a28
        /\ B(2, 5) = a25 /\ B(2, 6) = a26 /\ B(2, 7) = a23
        /\ B(2, 8) = a27 /\ B(3, 4) = a48 /\ B(3, 5) = a45
        /\ B(3, 6) = a46 /\ B(3, 7) = 1 - a34 /\ B(3, 8) = a47
        /\ B(4, 5) = 1 - a58 /\ B(4, 6) = 1 - a68 /\ B(4, 7) = 1 - a38
        /\ B(4, 8) = 1 - a78 /\ B(5, 6) = a56 /\ B(5, 7) = 1 - a35
        /\ B(5, 8) = a57 /\ B(6, 7) = 1 - a36 /\ B(6, 8) = a67
        /\ B(7, 8) = a37
    BY <1>1, <1>5, <1>6, <1>8, <2>1
  <2>3. Inversions(new)
          = a12 + a14 + a18 + a15 + a16 + a13 + a17
            + a24 + a28 + a25 + a26 + a23 + a27
            + a48 + a45 + a46 + (1 - a34) + a47
            + (1 - a58) + (1 - a68) + (1 - a38) + (1 - a78)
            + a56 + (1 - a35) + a57
            + (1 - a36) + a67
            + a37
    BY <2>2 DEF Inversions
  <2> DEFINE q == 3 - (a34 + a58 + a68 + a38 + a78 + a35 + a36)
  <2>4. q \in Int
    OBVIOUS
  <2>5. Inversions(new) = Inversions(who) + 1 + 2 * q
    BY <1>9, <2>3
  <2> HIDE DEF q
  <2> QED
    BY <2>4, <2>5
<1>17. ASSUME t = <<2, 6, 3, 4, 1, 5, 7, 8>> PROVE Odd
  <2>1. /\ t[1] = 2 /\ t[2] = 6 /\ t[3] = 3 /\ t[4] = 4
        /\ t[5] = 1 /\ t[6] = 5 /\ t[7] = 7 /\ t[8] = 8
    BY <1>17
  <2>2. /\ B(1, 2) = a26 /\ B(1, 3) = a23 /\ B(1, 4) = a24
        /\ B(1, 5) = 1 - a12 /\ B(1, 6) = a25 /\ B(1, 7) = a27
        /\ B(1, 8) = a28 /\ B(2, 3) = 1 - a36 /\ B(2, 4) = 1 - a46
        /\ B(2, 5) = 1 - a16 /\ B(2, 6) = 1 - a56 /\ B(2, 7) = a67
        /\ B(2, 8) = a68 /\ B(3, 4) = a34 /\ B(3, 5) = 1 - a13
        /\ B(3, 6) = a35 /\ B(3, 7) = a37 /\ B(3, 8) = a38
        /\ B(4, 5) = 1 - a14 /\ B(4, 6) = a45 /\ B(4, 7) = a47
        /\ B(4, 8) = a48 /\ B(5, 6) = a15 /\ B(5, 7) = a17
        /\ B(5, 8) = a18 /\ B(6, 7) = a57 /\ B(6, 8) = a58
        /\ B(7, 8) = a78
    BY <1>1, <1>5, <1>6, <1>8, <2>1
  <2>3. Inversions(new)
          = a26 + a23 + a24 + (1 - a12) + a25 + a27 + a28
            + (1 - a36) + (1 - a46) + (1 - a16) + (1 - a56) + a67 + a68
            + a34 + (1 - a13) + a35 + a37 + a38
            + (1 - a14) + a45 + a47 + a48
            + a15 + a17 + a18
            + a57 + a58
            + a78
    BY <2>2 DEF Inversions
  <2> DEFINE q == 3 - (a12 + a36 + a46 + a16 + a56 + a13 + a14)
  <2>4. q \in Int
    OBVIOUS
  <2>5. Inversions(new) = Inversions(who) + 1 + 2 * q
    BY <1>9, <2>3
  <2> HIDE DEF q
  <2> QED
    BY <2>4, <2>5
<1>18. ASSUME t = <<5, 1, 3, 4, 6, 2, 7, 8>> PROVE Odd
  <2>1. /\ t[1] = 5 /\ t[2] = 1 /\ t[3] = 3 /\ t[4] = 4
        /\ t[5] = 6 /\ t[6] = 2 /\ t[7] = 7 /\ t[8] = 8
    BY <1>18
  <2>2. /\ B(1, 2) = 1 - a15 /\ B(1, 3) = 1 - a35 /\ B(1, 4) = 1 - a45
        /\ B(1, 5) = a56 /\ B(1, 6) = 1 - a25 /\ B(1, 7) = a57
        /\ B(1, 8) = a58 /\ B(2, 3) = a13 /\ B(2, 4) = a14
        /\ B(2, 5) = a16 /\ B(2, 6) = a12 /\ B(2, 7) = a17
        /\ B(2, 8) = a18 /\ B(3, 4) = a34 /\ B(3, 5) = a36
        /\ B(3, 6) = 1 - a23 /\ B(3, 7) = a37 /\ B(3, 8) = a38
        /\ B(4, 5) = a46 /\ B(4, 6) = 1 - a24 /\ B(4, 7) = a47
        /\ B(4, 8) = a48 /\ B(5, 6) = 1 - a26 /\ B(5, 7) = a67
        /\ B(5, 8) = a68 /\ B(6, 7) = a27 /\ B(6, 8) = a28
        /\ B(7, 8) = a78
    BY <1>1, <1>5, <1>6, <1>8, <2>1
  <2>3. Inversions(new)
          = (1 - a15) + (1 - a35) + (1 - a45) + a56 + (1 - a25) + a57 + a58
            + a13 + a14 + a16 + a12 + a17 + a18
            + a34 + a36 + (1 - a23) + a37 + a38
            + a46 + (1 - a24) + a47 + a48
            + (1 - a26) + a67 + a68
            + a27 + a28
            + a78
    BY <2>2 DEF Inversions
  <2> DEFINE q == 3 - (a15 + a35 + a45 + a25 + a23 + a24 + a26)
  <2>4. q \in Int
    OBVIOUS
  <2>5. Inversions(new) = Inversions(who) + 1 + 2 * q
    BY <1>9, <2>3
  <2> HIDE DEF q
  <2> QED
    BY <2>4, <2>5
<1>19. ASSUME t = <<5, 2, 1, 4, 7, 6, 3, 8>> PROVE Odd
  <2>1. /\ t[1] = 5 /\ t[2] = 2 /\ t[3] = 1 /\ t[4] = 4
        /\ t[5] = 7 /\ t[6] = 6 /\ t[7] = 3 /\ t[8] = 8
    BY <1>19
  <2>2. /\ B(1, 2) = 1 - a25 /\ B(1, 3) = 1 - a15 /\ B(1, 4) = 1 - a45
        /\ B(1, 5) = a57 /\ B(1, 6) = a56 /\ B(1, 7) = 1 - a35
        /\ B(1, 8) = a58 /\ B(2, 3) = 1 - a12 /\ B(2, 4) = a24
        /\ B(2, 5) = a27 /\ B(2, 6) = a26 /\ B(2, 7) = a23
        /\ B(2, 8) = a28 /\ B(3, 4) = a14 /\ B(3, 5) = a17
        /\ B(3, 6) = a16 /\ B(3, 7) = a13 /\ B(3, 8) = a18
        /\ B(4, 5) = a47 /\ B(4, 6) = a46 /\ B(4, 7) = 1 - a34
        /\ B(4, 8) = a48 /\ B(5, 6) = 1 - a67 /\ B(5, 7) = 1 - a37
        /\ B(5, 8) = a78 /\ B(6, 7) = 1 - a36 /\ B(6, 8) = a68
        /\ B(7, 8) = a38
    BY <1>1, <1>5, <1>6, <1>8, <2>1
  <2>3. Inversions(new)
          = (1 - a25) + (1 - a15) + (1 - a45) + a57 + a56 + (1 - a35) + a58
            + (1 - a12) + a24 + a27 + a26 + a23 + a28
            + a14 + a17 + a16 + a13 + a18
            + a47 + a46 + (1 - a34) + a48
            + (1 - a67) + (1 - a37) + a78
            + (1 - a36) + a68
            + a38
    BY <2>2 DEF Inversions
  <2> DEFINE q == 4 - (a25 + a15 + a45 + a35 + a12 + a34 + a67 + a37 + a36)
  <2>4. q \in Int
    OBVIOUS
  <2>5. Inversions(new) = Inversions(who) + 1 + 2 * q
    BY <1>9, <2>3
  <2> HIDE DEF q
  <2> QED
    BY <2>4, <2>5
<1>20. ASSUME t = <<3, 2, 7, 4, 1, 6, 5, 8>> PROVE Odd
  <2>1. /\ t[1] = 3 /\ t[2] = 2 /\ t[3] = 7 /\ t[4] = 4
        /\ t[5] = 1 /\ t[6] = 6 /\ t[7] = 5 /\ t[8] = 8
    BY <1>20
  <2>2. /\ B(1, 2) = 1 - a23 /\ B(1, 3) = a37 /\ B(1, 4) = a34
        /\ B(1, 5) = 1 - a13 /\ B(1, 6) = a36 /\ B(1, 7) = a35
        /\ B(1, 8) = a38 /\ B(2, 3) = a27 /\ B(2, 4) = a24
        /\ B(2, 5) = 1 - a12 /\ B(2, 6) = a26 /\ B(2, 7) = a25
        /\ B(2, 8) = a28 /\ B(3, 4) = 1 - a47 /\ B(3, 5) = 1 - a17
        /\ B(3, 6) = 1 - a67 /\ B(3, 7) = 1 - a57 /\ B(3, 8) = a78
        /\ B(4, 5) = 1 - a14 /\ B(4, 6) = a46 /\ B(4, 7) = a45
        /\ B(4, 8) = a48 /\ B(5, 6) = a16 /\ B(5, 7) = a15
        /\ B(5, 8) = a18 /\ B(6, 7) = 1 - a56 /\ B(6, 8) = a68
        /\ B(7, 8) = a58
    BY <1>1, <1>5, <1>6, <1>8, <2>1
  <2>3. Inversions(new)
          = (1 - a23) + a37 + a34 + (1 - a13) + a36 + a35 + a38
            + a27 + a24 + (1 - a12) + a26 + a25 + a28
            + (1 - a47) + (1 - a17) + (1 - a67) + (1 - a57) + a78
            + (1 - a14) + a46 + a45 + a48
            + a16 + a15 + a18
            + (1 - a56) + a68
            + a58
    BY <2>2 DEF Inversions
  <2> DEFINE q == 4 - (a23 + a13 + a12 + a47 + a17 + a67 + a57 + a14 + a56)
  <2>4. q \in Int
    OBVIOUS
  <2>5. Inversions(new) = Inversions(who) + 1 + 2 * q
    BY <1>9, <2>3
  <2> HIDE DEF q
  <2> QED
    BY <2>4, <2>5
<1>21. ASSUME t = <<3, 1, 4, 2, 5, 6, 7, 8>> PROVE Odd
  <2>1. /\ t[1] = 3 /\ t[2] = 1 /\ t[3] = 4 /\ t[4] = 2
        /\ t[5] = 5 /\ t[6] = 6 /\ t[7] = 7 /\ t[8] = 8
    BY <1>21
  <2>2. /\ B(1, 2) = 1 - a13 /\ B(1, 3) = a34 /\ B(1, 4) = 1 - a23
        /\ B(1, 5) = a35 /\ B(1, 6) = a36 /\ B(1, 7) = a37
        /\ B(1, 8) = a38 /\ B(2, 3) = a14 /\ B(2, 4) = a12
        /\ B(2, 5) = a15 /\ B(2, 6) = a16 /\ B(2, 7) = a17
        /\ B(2, 8) = a18 /\ B(3, 4) = 1 - a24 /\ B(3, 5) = a45
        /\ B(3, 6) = a46 /\ B(3, 7) = a47 /\ B(3, 8) = a48
        /\ B(4, 5) = a25 /\ B(4, 6) = a26 /\ B(4, 7) = a27
        /\ B(4, 8) = a28 /\ B(5, 6) = a56 /\ B(5, 7) = a57
        /\ B(5, 8) = a58 /\ B(6, 7) = a67 /\ B(6, 8) = a68
        /\ B(7, 8) = a78
    BY <1>1, <1>5, <1>6, <1>8, <2>1
  <2>3. Inversions(new)
          = (1 - a13) + a34 + (1 - a23) + a35 + a36 + a37 + a38
            + a14 + a12 + a15 + a16 + a17 + a18
            + (1 - a24) + a45 + a46 + a47 + a48
            + a25 + a26 + a27 + a28
            + a56 + a57 + a58
            + a67 + a68
            + a78
    BY <2>2 DEF Inversions
  <2> DEFINE q == 1 - (a13 + a23 + a24)
  <2>4. q \in Int
    OBVIOUS
  <2>5. Inversions(new) = Inversions(who) + 1 + 2 * q
    BY <1>9, <2>3
  <2> HIDE DEF q
  <2> QED
    BY <2>4, <2>5
<1>22. ASSUME t = <<2, 4, 1, 3, 5, 6, 7, 8>> PROVE Odd
  <2>1. /\ t[1] = 2 /\ t[2] = 4 /\ t[3] = 1 /\ t[4] = 3
        /\ t[5] = 5 /\ t[6] = 6 /\ t[7] = 7 /\ t[8] = 8
    BY <1>22
  <2>2. /\ B(1, 2) = a24 /\ B(1, 3) = 1 - a12 /\ B(1, 4) = a23
        /\ B(1, 5) = a25 /\ B(1, 6) = a26 /\ B(1, 7) = a27
        /\ B(1, 8) = a28 /\ B(2, 3) = 1 - a14 /\ B(2, 4) = 1 - a34
        /\ B(2, 5) = a45 /\ B(2, 6) = a46 /\ B(2, 7) = a47
        /\ B(2, 8) = a48 /\ B(3, 4) = a13 /\ B(3, 5) = a15
        /\ B(3, 6) = a16 /\ B(3, 7) = a17 /\ B(3, 8) = a18
        /\ B(4, 5) = a35 /\ B(4, 6) = a36 /\ B(4, 7) = a37
        /\ B(4, 8) = a38 /\ B(5, 6) = a56 /\ B(5, 7) = a57
        /\ B(5, 8) = a58 /\ B(6, 7) = a67 /\ B(6, 8) = a68
        /\ B(7, 8) = a78
    BY <1>1, <1>5, <1>6, <1>8, <2>1
  <2>3. Inversions(new)
          = a24 + (1 - a12) + a23 + a25 + a26 + a27 + a28
            + (1 - a14) + (1 - a34) + a45 + a46 + a47 + a48
            + a13 + a15 + a16 + a17 + a18
            + a35 + a36 + a37 + a38
            + a56 + a57 + a58
            + a67 + a68
            + a78
    BY <2>2 DEF Inversions
  <2> DEFINE q == 1 - (a12 + a14 + a34)
  <2>4. q \in Int
    OBVIOUS
  <2>5. Inversions(new) = Inversions(who) + 1 + 2 * q
    BY <1>9, <2>3
  <2> HIDE DEF q
  <2> QED
    BY <2>4, <2>5
<1>23. Odd
  BY <1>11, <1>12, <1>13, <1>14, <1>15, <1>16,
     <1>17, <1>18, <1>19, <1>20, <1>21, <1>22 DEF Cycles
<1> QED
  BY <1>4, <1>10, <1>23 DEF new

(* A turn takes every corner of its layer a quarter further.               *)
LEMMA TurnsAreCycles ==
  ASSUME NEW f \in Faces, NEW d \in Directions
  PROVE  \E t \in Cycles : IsCycleOf(f, d, t)
<1>1. f \in {0, 1, 2, 3, 4, 5} /\ d \in {0, 1}
  BY FaceVectors DEF Directions
<1>2. CornerIds = {1, 2, 3, 4, 5, 6, 7, 8}
  BY DEF CornerIds
<1>3. CASE f = 0 /\ d = 0
  <2> DEFINE n == <<0, 0, 1>>
             a == <<0, 0, 1>>
  <2>1. /\ Normal[f] = n
        /\ (IF d = 0 THEN Normal[f] ELSE Times(-1, Normal[f])) = a
    BY <1>3, FaceVectors DEF Times
  <2>2. \A p : CornerSource(f, d, p)
                = IF Dot(p, n) = 1 THEN QuarterTurn(a, p) ELSE p
    BY <2>1, Zenon DEF CornerSource
  <2>3. /\ Dot(<<-1, -1, 1>>, n) = 1
        /\ QuarterTurn(a, <<-1, -1, 1>>) = <<1, -1, 1>>
        /\ Dot(<<1, -1, 1>>, n) = 1
        /\ QuarterTurn(a, <<1, -1, 1>>) = <<1, 1, 1>>
        /\ Dot(<<-1, 1, 1>>, n) = 1
        /\ QuarterTurn(a, <<-1, 1, 1>>) = <<-1, -1, 1>>
        /\ Dot(<<1, 1, 1>>, n) = 1
        /\ QuarterTurn(a, <<1, 1, 1>>) = <<-1, 1, 1>>
    BY DEF Dot, QuarterTurn, Plus, Times, Cross
  <2>4. /\ Dot(<<-1, -1, -1>>, n) # 1
        /\ Dot(<<1, -1, -1>>, n) # 1
        /\ Dot(<<-1, 1, -1>>, n) # 1
        /\ Dot(<<1, 1, -1>>, n) # 1
    BY DEF Dot
  <2> HIDE DEF n, a
  <2>5. /\ CornerSource(f, d, <<-1, -1, -1>>) = <<-1, -1, -1>>
        /\ CornerSource(f, d, <<1, -1, -1>>) = <<1, -1, -1>>
        /\ CornerSource(f, d, <<-1, 1, -1>>) = <<-1, 1, -1>>
        /\ CornerSource(f, d, <<1, 1, -1>>) = <<1, 1, -1>>
        /\ CornerSource(f, d, <<-1, -1, 1>>) = <<1, -1, 1>>
        /\ CornerSource(f, d, <<1, -1, 1>>) = <<1, 1, 1>>
        /\ CornerSource(f, d, <<-1, 1, 1>>) = <<-1, -1, 1>>
        /\ CornerSource(f, d, <<1, 1, 1>>) = <<-1, 1, 1>>
    BY <2>2, <2>3, <2>4, Zenon
  <2> DEFINE t == <<1, 2, 3, 4, 6, 8, 5, 7>>
  <2>6. t \in Cycles
    BY DEF Cycles
  <2>7. IsCycleOf(f, d, t)
    BY <1>2, <2>5 DEF CornerAt, IsCycleOf
  <2> QED
    BY <2>6, <2>7
<1>4. CASE f = 0 /\ d = 1
  <2> DEFINE n == <<0, 0, 1>>
             a == <<0, 0, -1>>
  <2>1. /\ Normal[f] = n
        /\ (IF d = 0 THEN Normal[f] ELSE Times(-1, Normal[f])) = a
    BY <1>4, FaceVectors DEF Times
  <2>2. \A p : CornerSource(f, d, p)
                = IF Dot(p, n) = 1 THEN QuarterTurn(a, p) ELSE p
    BY <2>1, Zenon DEF CornerSource
  <2>3. /\ Dot(<<-1, -1, 1>>, n) = 1
        /\ QuarterTurn(a, <<-1, -1, 1>>) = <<-1, 1, 1>>
        /\ Dot(<<1, -1, 1>>, n) = 1
        /\ QuarterTurn(a, <<1, -1, 1>>) = <<-1, -1, 1>>
        /\ Dot(<<-1, 1, 1>>, n) = 1
        /\ QuarterTurn(a, <<-1, 1, 1>>) = <<1, 1, 1>>
        /\ Dot(<<1, 1, 1>>, n) = 1
        /\ QuarterTurn(a, <<1, 1, 1>>) = <<1, -1, 1>>
    BY DEF Dot, QuarterTurn, Plus, Times, Cross
  <2>4. /\ Dot(<<-1, -1, -1>>, n) # 1
        /\ Dot(<<1, -1, -1>>, n) # 1
        /\ Dot(<<-1, 1, -1>>, n) # 1
        /\ Dot(<<1, 1, -1>>, n) # 1
    BY DEF Dot
  <2> HIDE DEF n, a
  <2>5. /\ CornerSource(f, d, <<-1, -1, -1>>) = <<-1, -1, -1>>
        /\ CornerSource(f, d, <<1, -1, -1>>) = <<1, -1, -1>>
        /\ CornerSource(f, d, <<-1, 1, -1>>) = <<-1, 1, -1>>
        /\ CornerSource(f, d, <<1, 1, -1>>) = <<1, 1, -1>>
        /\ CornerSource(f, d, <<-1, -1, 1>>) = <<-1, 1, 1>>
        /\ CornerSource(f, d, <<1, -1, 1>>) = <<-1, -1, 1>>
        /\ CornerSource(f, d, <<-1, 1, 1>>) = <<1, 1, 1>>
        /\ CornerSource(f, d, <<1, 1, 1>>) = <<1, -1, 1>>
    BY <2>2, <2>3, <2>4, Zenon
  <2> DEFINE t == <<1, 2, 3, 4, 7, 5, 8, 6>>
  <2>6. t \in Cycles
    BY DEF Cycles
  <2>7. IsCycleOf(f, d, t)
    BY <1>2, <2>5 DEF CornerAt, IsCycleOf
  <2> QED
    BY <2>6, <2>7
<1>5. CASE f = 1 /\ d = 0
  <2> DEFINE n == <<1, 0, 0>>
             a == <<1, 0, 0>>
  <2>1. /\ Normal[f] = n
        /\ (IF d = 0 THEN Normal[f] ELSE Times(-1, Normal[f])) = a
    BY <1>5, FaceVectors DEF Times
  <2>2. \A p : CornerSource(f, d, p)
                = IF Dot(p, n) = 1 THEN QuarterTurn(a, p) ELSE p
    BY <2>1, Zenon DEF CornerSource
  <2>3. /\ Dot(<<1, -1, -1>>, n) = 1
        /\ QuarterTurn(a, <<1, -1, -1>>) = <<1, 1, -1>>
        /\ Dot(<<1, 1, -1>>, n) = 1
        /\ QuarterTurn(a, <<1, 1, -1>>) = <<1, 1, 1>>
        /\ Dot(<<1, -1, 1>>, n) = 1
        /\ QuarterTurn(a, <<1, -1, 1>>) = <<1, -1, -1>>
        /\ Dot(<<1, 1, 1>>, n) = 1
        /\ QuarterTurn(a, <<1, 1, 1>>) = <<1, -1, 1>>
    BY DEF Dot, QuarterTurn, Plus, Times, Cross
  <2>4. /\ Dot(<<-1, -1, -1>>, n) # 1
        /\ Dot(<<-1, 1, -1>>, n) # 1
        /\ Dot(<<-1, -1, 1>>, n) # 1
        /\ Dot(<<-1, 1, 1>>, n) # 1
    BY DEF Dot
  <2> HIDE DEF n, a
  <2>5. /\ CornerSource(f, d, <<-1, -1, -1>>) = <<-1, -1, -1>>
        /\ CornerSource(f, d, <<1, -1, -1>>) = <<1, 1, -1>>
        /\ CornerSource(f, d, <<-1, 1, -1>>) = <<-1, 1, -1>>
        /\ CornerSource(f, d, <<1, 1, -1>>) = <<1, 1, 1>>
        /\ CornerSource(f, d, <<-1, -1, 1>>) = <<-1, -1, 1>>
        /\ CornerSource(f, d, <<1, -1, 1>>) = <<1, -1, -1>>
        /\ CornerSource(f, d, <<-1, 1, 1>>) = <<-1, 1, 1>>
        /\ CornerSource(f, d, <<1, 1, 1>>) = <<1, -1, 1>>
    BY <2>2, <2>3, <2>4, Zenon
  <2> DEFINE t == <<1, 4, 3, 8, 5, 2, 7, 6>>
  <2>6. t \in Cycles
    BY DEF Cycles
  <2>7. IsCycleOf(f, d, t)
    BY <1>2, <2>5 DEF CornerAt, IsCycleOf
  <2> QED
    BY <2>6, <2>7
<1>6. CASE f = 1 /\ d = 1
  <2> DEFINE n == <<1, 0, 0>>
             a == <<-1, 0, 0>>
  <2>1. /\ Normal[f] = n
        /\ (IF d = 0 THEN Normal[f] ELSE Times(-1, Normal[f])) = a
    BY <1>6, FaceVectors DEF Times
  <2>2. \A p : CornerSource(f, d, p)
                = IF Dot(p, n) = 1 THEN QuarterTurn(a, p) ELSE p
    BY <2>1, Zenon DEF CornerSource
  <2>3. /\ Dot(<<1, -1, -1>>, n) = 1
        /\ QuarterTurn(a, <<1, -1, -1>>) = <<1, -1, 1>>
        /\ Dot(<<1, 1, -1>>, n) = 1
        /\ QuarterTurn(a, <<1, 1, -1>>) = <<1, -1, -1>>
        /\ Dot(<<1, -1, 1>>, n) = 1
        /\ QuarterTurn(a, <<1, -1, 1>>) = <<1, 1, 1>>
        /\ Dot(<<1, 1, 1>>, n) = 1
        /\ QuarterTurn(a, <<1, 1, 1>>) = <<1, 1, -1>>
    BY DEF Dot, QuarterTurn, Plus, Times, Cross
  <2>4. /\ Dot(<<-1, -1, -1>>, n) # 1
        /\ Dot(<<-1, 1, -1>>, n) # 1
        /\ Dot(<<-1, -1, 1>>, n) # 1
        /\ Dot(<<-1, 1, 1>>, n) # 1
    BY DEF Dot
  <2> HIDE DEF n, a
  <2>5. /\ CornerSource(f, d, <<-1, -1, -1>>) = <<-1, -1, -1>>
        /\ CornerSource(f, d, <<1, -1, -1>>) = <<1, -1, 1>>
        /\ CornerSource(f, d, <<-1, 1, -1>>) = <<-1, 1, -1>>
        /\ CornerSource(f, d, <<1, 1, -1>>) = <<1, -1, -1>>
        /\ CornerSource(f, d, <<-1, -1, 1>>) = <<-1, -1, 1>>
        /\ CornerSource(f, d, <<1, -1, 1>>) = <<1, 1, 1>>
        /\ CornerSource(f, d, <<-1, 1, 1>>) = <<-1, 1, 1>>
        /\ CornerSource(f, d, <<1, 1, 1>>) = <<1, 1, -1>>
    BY <2>2, <2>3, <2>4, Zenon
  <2> DEFINE t == <<1, 6, 3, 2, 5, 8, 7, 4>>
  <2>6. t \in Cycles
    BY DEF Cycles
  <2>7. IsCycleOf(f, d, t)
    BY <1>2, <2>5 DEF CornerAt, IsCycleOf
  <2> QED
    BY <2>6, <2>7
<1>7. CASE f = 2 /\ d = 0
  <2> DEFINE n == <<0, 1, 0>>
             a == <<0, 1, 0>>
  <2>1. /\ Normal[f] = n
        /\ (IF d = 0 THEN Normal[f] ELSE Times(-1, Normal[f])) = a
    BY <1>7, FaceVectors DEF Times
  <2>2. \A p : CornerSource(f, d, p)
                = IF Dot(p, n) = 1 THEN QuarterTurn(a, p) ELSE p
    BY <2>1, Zenon DEF CornerSource
  <2>3. /\ Dot(<<-1, 1, -1>>, n) = 1
        /\ QuarterTurn(a, <<-1, 1, -1>>) = <<-1, 1, 1>>
        /\ Dot(<<1, 1, -1>>, n) = 1
        /\ QuarterTurn(a, <<1, 1, -1>>) = <<-1, 1, -1>>
        /\ Dot(<<-1, 1, 1>>, n) = 1
        /\ QuarterTurn(a, <<-1, 1, 1>>) = <<1, 1, 1>>
        /\ Dot(<<1, 1, 1>>, n) = 1
        /\ QuarterTurn(a, <<1, 1, 1>>) = <<1, 1, -1>>
    BY DEF Dot, QuarterTurn, Plus, Times, Cross
  <2>4. /\ Dot(<<-1, -1, -1>>, n) # 1
        /\ Dot(<<1, -1, -1>>, n) # 1
        /\ Dot(<<-1, -1, 1>>, n) # 1
        /\ Dot(<<1, -1, 1>>, n) # 1
    BY DEF Dot
  <2> HIDE DEF n, a
  <2>5. /\ CornerSource(f, d, <<-1, -1, -1>>) = <<-1, -1, -1>>
        /\ CornerSource(f, d, <<1, -1, -1>>) = <<1, -1, -1>>
        /\ CornerSource(f, d, <<-1, 1, -1>>) = <<-1, 1, 1>>
        /\ CornerSource(f, d, <<1, 1, -1>>) = <<-1, 1, -1>>
        /\ CornerSource(f, d, <<-1, -1, 1>>) = <<-1, -1, 1>>
        /\ CornerSource(f, d, <<1, -1, 1>>) = <<1, -1, 1>>
        /\ CornerSource(f, d, <<-1, 1, 1>>) = <<1, 1, 1>>
        /\ CornerSource(f, d, <<1, 1, 1>>) = <<1, 1, -1>>
    BY <2>2, <2>3, <2>4, Zenon
  <2> DEFINE t == <<1, 2, 7, 3, 5, 6, 8, 4>>
  <2>6. t \in Cycles
    BY DEF Cycles
  <2>7. IsCycleOf(f, d, t)
    BY <1>2, <2>5 DEF CornerAt, IsCycleOf
  <2> QED
    BY <2>6, <2>7
<1>8. CASE f = 2 /\ d = 1
  <2> DEFINE n == <<0, 1, 0>>
             a == <<0, -1, 0>>
  <2>1. /\ Normal[f] = n
        /\ (IF d = 0 THEN Normal[f] ELSE Times(-1, Normal[f])) = a
    BY <1>8, FaceVectors DEF Times
  <2>2. \A p : CornerSource(f, d, p)
                = IF Dot(p, n) = 1 THEN QuarterTurn(a, p) ELSE p
    BY <2>1, Zenon DEF CornerSource
  <2>3. /\ Dot(<<-1, 1, -1>>, n) = 1
        /\ QuarterTurn(a, <<-1, 1, -1>>) = <<1, 1, -1>>
        /\ Dot(<<1, 1, -1>>, n) = 1
        /\ QuarterTurn(a, <<1, 1, -1>>) = <<1, 1, 1>>
        /\ Dot(<<-1, 1, 1>>, n) = 1
        /\ QuarterTurn(a, <<-1, 1, 1>>) = <<-1, 1, -1>>
        /\ Dot(<<1, 1, 1>>, n) = 1
        /\ QuarterTurn(a, <<1, 1, 1>>) = <<-1, 1, 1>>
    BY DEF Dot, QuarterTurn, Plus, Times, Cross
  <2>4. /\ Dot(<<-1, -1, -1>>, n) # 1
        /\ Dot(<<1, -1, -1>>, n) # 1
        /\ Dot(<<-1, -1, 1>>, n) # 1
        /\ Dot(<<1, -1, 1>>, n) # 1
    BY DEF Dot
  <2> HIDE DEF n, a
  <2>5. /\ CornerSource(f, d, <<-1, -1, -1>>) = <<-1, -1, -1>>
        /\ CornerSource(f, d, <<1, -1, -1>>) = <<1, -1, -1>>
        /\ CornerSource(f, d, <<-1, 1, -1>>) = <<1, 1, -1>>
        /\ CornerSource(f, d, <<1, 1, -1>>) = <<1, 1, 1>>
        /\ CornerSource(f, d, <<-1, -1, 1>>) = <<-1, -1, 1>>
        /\ CornerSource(f, d, <<1, -1, 1>>) = <<1, -1, 1>>
        /\ CornerSource(f, d, <<-1, 1, 1>>) = <<-1, 1, -1>>
        /\ CornerSource(f, d, <<1, 1, 1>>) = <<-1, 1, 1>>
    BY <2>2, <2>3, <2>4, Zenon
  <2> DEFINE t == <<1, 2, 4, 8, 5, 6, 3, 7>>
  <2>6. t \in Cycles
    BY DEF Cycles
  <2>7. IsCycleOf(f, d, t)
    BY <1>2, <2>5 DEF CornerAt, IsCycleOf
  <2> QED
    BY <2>6, <2>7
<1>9. CASE f = 3 /\ d = 0
  <2> DEFINE n == <<0, -1, 0>>
             a == <<0, -1, 0>>
  <2>1. /\ Normal[f] = n
        /\ (IF d = 0 THEN Normal[f] ELSE Times(-1, Normal[f])) = a
    BY <1>9, FaceVectors DEF Times
  <2>2. \A p : CornerSource(f, d, p)
                = IF Dot(p, n) = 1 THEN QuarterTurn(a, p) ELSE p
    BY <2>1, Zenon DEF CornerSource
  <2>3. /\ Dot(<<-1, -1, -1>>, n) = 1
        /\ QuarterTurn(a, <<-1, -1, -1>>) = <<1, -1, -1>>
        /\ Dot(<<1, -1, -1>>, n) = 1
        /\ QuarterTurn(a, <<1, -1, -1>>) = <<1, -1, 1>>
        /\ Dot(<<-1, -1, 1>>, n) = 1
        /\ QuarterTurn(a, <<-1, -1, 1>>) = <<-1, -1, -1>>
        /\ Dot(<<1, -1, 1>>, n) = 1
        /\ QuarterTurn(a, <<1, -1, 1>>) = <<-1, -1, 1>>
    BY DEF Dot, QuarterTurn, Plus, Times, Cross
  <2>4. /\ Dot(<<-1, 1, -1>>, n) # 1
        /\ Dot(<<1, 1, -1>>, n) # 1
        /\ Dot(<<-1, 1, 1>>, n) # 1
        /\ Dot(<<1, 1, 1>>, n) # 1
    BY DEF Dot
  <2> HIDE DEF n, a
  <2>5. /\ CornerSource(f, d, <<-1, -1, -1>>) = <<1, -1, -1>>
        /\ CornerSource(f, d, <<1, -1, -1>>) = <<1, -1, 1>>
        /\ CornerSource(f, d, <<-1, 1, -1>>) = <<-1, 1, -1>>
        /\ CornerSource(f, d, <<1, 1, -1>>) = <<1, 1, -1>>
        /\ CornerSource(f, d, <<-1, -1, 1>>) = <<-1, -1, -1>>
        /\ CornerSource(f, d, <<1, -1, 1>>) = <<-1, -1, 1>>
        /\ CornerSource(f, d, <<-1, 1, 1>>) = <<-1, 1, 1>>
        /\ CornerSource(f, d, <<1, 1, 1>>) = <<1, 1, 1>>
    BY <2>2, <2>3, <2>4, Zenon
  <2> DEFINE t == <<2, 6, 3, 4, 1, 5, 7, 8>>
  <2>6. t \in Cycles
    BY DEF Cycles
  <2>7. IsCycleOf(f, d, t)
    BY <1>2, <2>5 DEF CornerAt, IsCycleOf
  <2> QED
    BY <2>6, <2>7
<1>10. CASE f = 3 /\ d = 1
  <2> DEFINE n == <<0, -1, 0>>
             a == <<0, 1, 0>>
  <2>1. /\ Normal[f] = n
        /\ (IF d = 0 THEN Normal[f] ELSE Times(-1, Normal[f])) = a
    BY <1>10, FaceVectors DEF Times
  <2>2. \A p : CornerSource(f, d, p)
                = IF Dot(p, n) = 1 THEN QuarterTurn(a, p) ELSE p
    BY <2>1, Zenon DEF CornerSource
  <2>3. /\ Dot(<<-1, -1, -1>>, n) = 1
        /\ QuarterTurn(a, <<-1, -1, -1>>) = <<-1, -1, 1>>
        /\ Dot(<<1, -1, -1>>, n) = 1
        /\ QuarterTurn(a, <<1, -1, -1>>) = <<-1, -1, -1>>
        /\ Dot(<<-1, -1, 1>>, n) = 1
        /\ QuarterTurn(a, <<-1, -1, 1>>) = <<1, -1, 1>>
        /\ Dot(<<1, -1, 1>>, n) = 1
        /\ QuarterTurn(a, <<1, -1, 1>>) = <<1, -1, -1>>
    BY DEF Dot, QuarterTurn, Plus, Times, Cross
  <2>4. /\ Dot(<<-1, 1, -1>>, n) # 1
        /\ Dot(<<1, 1, -1>>, n) # 1
        /\ Dot(<<-1, 1, 1>>, n) # 1
        /\ Dot(<<1, 1, 1>>, n) # 1
    BY DEF Dot
  <2> HIDE DEF n, a
  <2>5. /\ CornerSource(f, d, <<-1, -1, -1>>) = <<-1, -1, 1>>
        /\ CornerSource(f, d, <<1, -1, -1>>) = <<-1, -1, -1>>
        /\ CornerSource(f, d, <<-1, 1, -1>>) = <<-1, 1, -1>>
        /\ CornerSource(f, d, <<1, 1, -1>>) = <<1, 1, -1>>
        /\ CornerSource(f, d, <<-1, -1, 1>>) = <<1, -1, 1>>
        /\ CornerSource(f, d, <<1, -1, 1>>) = <<1, -1, -1>>
        /\ CornerSource(f, d, <<-1, 1, 1>>) = <<-1, 1, 1>>
        /\ CornerSource(f, d, <<1, 1, 1>>) = <<1, 1, 1>>
    BY <2>2, <2>3, <2>4, Zenon
  <2> DEFINE t == <<5, 1, 3, 4, 6, 2, 7, 8>>
  <2>6. t \in Cycles
    BY DEF Cycles
  <2>7. IsCycleOf(f, d, t)
    BY <1>2, <2>5 DEF CornerAt, IsCycleOf
  <2> QED
    BY <2>6, <2>7
<1>11. CASE f = 4 /\ d = 0
  <2> DEFINE n == <<-1, 0, 0>>
             a == <<-1, 0, 0>>
  <2>1. /\ Normal[f] = n
        /\ (IF d = 0 THEN Normal[f] ELSE Times(-1, Normal[f])) = a
    BY <1>11, FaceVectors DEF Times
  <2>2. \A p : CornerSource(f, d, p)
                = IF Dot(p, n) = 1 THEN QuarterTurn(a, p) ELSE p
    BY <2>1, Zenon DEF CornerSource
  <2>3. /\ Dot(<<-1, -1, -1>>, n) = 1
        /\ QuarterTurn(a, <<-1, -1, -1>>) = <<-1, -1, 1>>
        /\ Dot(<<-1, 1, -1>>, n) = 1
        /\ QuarterTurn(a, <<-1, 1, -1>>) = <<-1, -1, -1>>
        /\ Dot(<<-1, -1, 1>>, n) = 1
        /\ QuarterTurn(a, <<-1, -1, 1>>) = <<-1, 1, 1>>
        /\ Dot(<<-1, 1, 1>>, n) = 1
        /\ QuarterTurn(a, <<-1, 1, 1>>) = <<-1, 1, -1>>
    BY DEF Dot, QuarterTurn, Plus, Times, Cross
  <2>4. /\ Dot(<<1, -1, -1>>, n) # 1
        /\ Dot(<<1, 1, -1>>, n) # 1
        /\ Dot(<<1, -1, 1>>, n) # 1
        /\ Dot(<<1, 1, 1>>, n) # 1
    BY DEF Dot
  <2> HIDE DEF n, a
  <2>5. /\ CornerSource(f, d, <<-1, -1, -1>>) = <<-1, -1, 1>>
        /\ CornerSource(f, d, <<1, -1, -1>>) = <<1, -1, -1>>
        /\ CornerSource(f, d, <<-1, 1, -1>>) = <<-1, -1, -1>>
        /\ CornerSource(f, d, <<1, 1, -1>>) = <<1, 1, -1>>
        /\ CornerSource(f, d, <<-1, -1, 1>>) = <<-1, 1, 1>>
        /\ CornerSource(f, d, <<1, -1, 1>>) = <<1, -1, 1>>
        /\ CornerSource(f, d, <<-1, 1, 1>>) = <<-1, 1, -1>>
        /\ CornerSource(f, d, <<1, 1, 1>>) = <<1, 1, 1>>
    BY <2>2, <2>3, <2>4, Zenon
  <2> DEFINE t == <<5, 2, 1, 4, 7, 6, 3, 8>>
  <2>6. t \in Cycles
    BY DEF Cycles
  <2>7. IsCycleOf(f, d, t)
    BY <1>2, <2>5 DEF CornerAt, IsCycleOf
  <2> QED
    BY <2>6, <2>7
<1>12. CASE f = 4 /\ d = 1
  <2> DEFINE n == <<-1, 0, 0>>
             a == <<1, 0, 0>>
  <2>1. /\ Normal[f] = n
        /\ (IF d = 0 THEN Normal[f] ELSE Times(-1, Normal[f])) = a
    BY <1>12, FaceVectors DEF Times
  <2>2. \A p : CornerSource(f, d, p)
                = IF Dot(p, n) = 1 THEN QuarterTurn(a, p) ELSE p
    BY <2>1, Zenon DEF CornerSource
  <2>3. /\ Dot(<<-1, -1, -1>>, n) = 1
        /\ QuarterTurn(a, <<-1, -1, -1>>) = <<-1, 1, -1>>
        /\ Dot(<<-1, 1, -1>>, n) = 1
        /\ QuarterTurn(a, <<-1, 1, -1>>) = <<-1, 1, 1>>
        /\ Dot(<<-1, -1, 1>>, n) = 1
        /\ QuarterTurn(a, <<-1, -1, 1>>) = <<-1, -1, -1>>
        /\ Dot(<<-1, 1, 1>>, n) = 1
        /\ QuarterTurn(a, <<-1, 1, 1>>) = <<-1, -1, 1>>
    BY DEF Dot, QuarterTurn, Plus, Times, Cross
  <2>4. /\ Dot(<<1, -1, -1>>, n) # 1
        /\ Dot(<<1, 1, -1>>, n) # 1
        /\ Dot(<<1, -1, 1>>, n) # 1
        /\ Dot(<<1, 1, 1>>, n) # 1
    BY DEF Dot
  <2> HIDE DEF n, a
  <2>5. /\ CornerSource(f, d, <<-1, -1, -1>>) = <<-1, 1, -1>>
        /\ CornerSource(f, d, <<1, -1, -1>>) = <<1, -1, -1>>
        /\ CornerSource(f, d, <<-1, 1, -1>>) = <<-1, 1, 1>>
        /\ CornerSource(f, d, <<1, 1, -1>>) = <<1, 1, -1>>
        /\ CornerSource(f, d, <<-1, -1, 1>>) = <<-1, -1, -1>>
        /\ CornerSource(f, d, <<1, -1, 1>>) = <<1, -1, 1>>
        /\ CornerSource(f, d, <<-1, 1, 1>>) = <<-1, -1, 1>>
        /\ CornerSource(f, d, <<1, 1, 1>>) = <<1, 1, 1>>
    BY <2>2, <2>3, <2>4, Zenon
  <2> DEFINE t == <<3, 2, 7, 4, 1, 6, 5, 8>>
  <2>6. t \in Cycles
    BY DEF Cycles
  <2>7. IsCycleOf(f, d, t)
    BY <1>2, <2>5 DEF CornerAt, IsCycleOf
  <2> QED
    BY <2>6, <2>7
<1>13. CASE f = 5 /\ d = 0
  <2> DEFINE n == <<0, 0, -1>>
             a == <<0, 0, -1>>
  <2>1. /\ Normal[f] = n
        /\ (IF d = 0 THEN Normal[f] ELSE Times(-1, Normal[f])) = a
    BY <1>13, FaceVectors DEF Times
  <2>2. \A p : CornerSource(f, d, p)
                = IF Dot(p, n) = 1 THEN QuarterTurn(a, p) ELSE p
    BY <2>1, Zenon DEF CornerSource
  <2>3. /\ Dot(<<-1, -1, -1>>, n) = 1
        /\ QuarterTurn(a, <<-1, -1, -1>>) = <<-1, 1, -1>>
        /\ Dot(<<1, -1, -1>>, n) = 1
        /\ QuarterTurn(a, <<1, -1, -1>>) = <<-1, -1, -1>>
        /\ Dot(<<-1, 1, -1>>, n) = 1
        /\ QuarterTurn(a, <<-1, 1, -1>>) = <<1, 1, -1>>
        /\ Dot(<<1, 1, -1>>, n) = 1
        /\ QuarterTurn(a, <<1, 1, -1>>) = <<1, -1, -1>>
    BY DEF Dot, QuarterTurn, Plus, Times, Cross
  <2>4. /\ Dot(<<-1, -1, 1>>, n) # 1
        /\ Dot(<<1, -1, 1>>, n) # 1
        /\ Dot(<<-1, 1, 1>>, n) # 1
        /\ Dot(<<1, 1, 1>>, n) # 1
    BY DEF Dot
  <2> HIDE DEF n, a
  <2>5. /\ CornerSource(f, d, <<-1, -1, -1>>) = <<-1, 1, -1>>
        /\ CornerSource(f, d, <<1, -1, -1>>) = <<-1, -1, -1>>
        /\ CornerSource(f, d, <<-1, 1, -1>>) = <<1, 1, -1>>
        /\ CornerSource(f, d, <<1, 1, -1>>) = <<1, -1, -1>>
        /\ CornerSource(f, d, <<-1, -1, 1>>) = <<-1, -1, 1>>
        /\ CornerSource(f, d, <<1, -1, 1>>) = <<1, -1, 1>>
        /\ CornerSource(f, d, <<-1, 1, 1>>) = <<-1, 1, 1>>
        /\ CornerSource(f, d, <<1, 1, 1>>) = <<1, 1, 1>>
    BY <2>2, <2>3, <2>4, Zenon
  <2> DEFINE t == <<3, 1, 4, 2, 5, 6, 7, 8>>
  <2>6. t \in Cycles
    BY DEF Cycles
  <2>7. IsCycleOf(f, d, t)
    BY <1>2, <2>5 DEF CornerAt, IsCycleOf
  <2> QED
    BY <2>6, <2>7
<1>14. CASE f = 5 /\ d = 1
  <2> DEFINE n == <<0, 0, -1>>
             a == <<0, 0, 1>>
  <2>1. /\ Normal[f] = n
        /\ (IF d = 0 THEN Normal[f] ELSE Times(-1, Normal[f])) = a
    BY <1>14, FaceVectors DEF Times
  <2>2. \A p : CornerSource(f, d, p)
                = IF Dot(p, n) = 1 THEN QuarterTurn(a, p) ELSE p
    BY <2>1, Zenon DEF CornerSource
  <2>3. /\ Dot(<<-1, -1, -1>>, n) = 1
        /\ QuarterTurn(a, <<-1, -1, -1>>) = <<1, -1, -1>>
        /\ Dot(<<1, -1, -1>>, n) = 1
        /\ QuarterTurn(a, <<1, -1, -1>>) = <<1, 1, -1>>
        /\ Dot(<<-1, 1, -1>>, n) = 1
        /\ QuarterTurn(a, <<-1, 1, -1>>) = <<-1, -1, -1>>
        /\ Dot(<<1, 1, -1>>, n) = 1
        /\ QuarterTurn(a, <<1, 1, -1>>) = <<-1, 1, -1>>
    BY DEF Dot, QuarterTurn, Plus, Times, Cross
  <2>4. /\ Dot(<<-1, -1, 1>>, n) # 1
        /\ Dot(<<1, -1, 1>>, n) # 1
        /\ Dot(<<-1, 1, 1>>, n) # 1
        /\ Dot(<<1, 1, 1>>, n) # 1
    BY DEF Dot
  <2> HIDE DEF n, a
  <2>5. /\ CornerSource(f, d, <<-1, -1, -1>>) = <<1, -1, -1>>
        /\ CornerSource(f, d, <<1, -1, -1>>) = <<1, 1, -1>>
        /\ CornerSource(f, d, <<-1, 1, -1>>) = <<-1, -1, -1>>
        /\ CornerSource(f, d, <<1, 1, -1>>) = <<-1, 1, -1>>
        /\ CornerSource(f, d, <<-1, -1, 1>>) = <<-1, -1, 1>>
        /\ CornerSource(f, d, <<1, -1, 1>>) = <<1, -1, 1>>
        /\ CornerSource(f, d, <<-1, 1, 1>>) = <<-1, 1, 1>>
        /\ CornerSource(f, d, <<1, 1, 1>>) = <<1, 1, 1>>
    BY <2>2, <2>3, <2>4, Zenon
  <2> DEFINE t == <<2, 4, 1, 3, 5, 6, 7, 8>>
  <2>6. t \in Cycles
    BY DEF Cycles
  <2>7. IsCycleOf(f, d, t)
    BY <1>2, <2>5 DEF CornerAt, IsCycleOf
  <2> QED
    BY <2>6, <2>7
<1> QED
  BY <1>1, <1>3, <1>4, <1>5, <1>6, <1>7, <1>8, <1>9, <1>10,
     <1>11, <1>12, <1>13, <1>14

\* Following the corners through the turns made, one finds each corner of the
\* cube somewhere, and the parity of their order tells that of the turns.
CornersFollow ==
  \E who \in [CornerIds -> Block] :
    /\ Arranged(who)
    /\ Shows(Painted(rubiks_cube), who)
    /\ odd <=> Inversions(who) % 2 = 1

(* In the order of their places the corners are in order.                  *)
LEMMA CornersInOrder ==
  /\ CornerAt \in [CornerIds -> Block]
  /\ Arranged(CornerAt)
  /\ Inversions(CornerAt) = 0
<1>1. CornerIds = {1, 2, 3, 4, 5, 6, 7, 8}
  BY DEF CornerIds
<1>2. CornerAt \in [CornerIds -> Block]
  <2>1. \A i \in CornerIds : CornerAt[i] \in Block
    BY <1>1 DEF CornerAt, Block
  <2>2. /\ DOMAIN CornerAt = CornerIds
        /\ CornerAt = [i \in CornerIds |-> CornerAt[i]]
    BY DEF CornerAt, CornerIds
  <2> QED
    BY <2>1, <2>2
<1>3. /\ Weight(CornerAt[1]) = -7 /\ Weight(CornerAt[2]) = -5
      /\ Weight(CornerAt[3]) = -3 /\ Weight(CornerAt[4]) = -1
      /\ Weight(CornerAt[5]) = 1 /\ Weight(CornerAt[6]) = 3
      /\ Weight(CornerAt[7]) = 5 /\ Weight(CornerAt[8]) = 7
  BY DEF CornerAt, Weight
<1>4. Arranged(CornerAt)
  BY <1>1, <1>2, <1>3 DEF Arranged
<1>5. \A i, j \in CornerIds : i < j => Above(CornerAt, i, j) = 0
  BY <1>1, <1>3 DEF Above
<1>6. Inversions(CornerAt) = 0
  <2> DEFINE A(i, j) == Above(CornerAt, i, j)
  <2>1. /\ A(1, 2) = 0 /\ A(1, 3) = 0 /\ A(1, 4) = 0 /\ A(1, 5) = 0
        /\ A(1, 6) = 0 /\ A(1, 7) = 0 /\ A(1, 8) = 0 /\ A(2, 3) = 0
        /\ A(2, 4) = 0 /\ A(2, 5) = 0 /\ A(2, 6) = 0 /\ A(2, 7) = 0
        /\ A(2, 8) = 0 /\ A(3, 4) = 0 /\ A(3, 5) = 0 /\ A(3, 6) = 0
        /\ A(3, 7) = 0 /\ A(3, 8) = 0 /\ A(4, 5) = 0 /\ A(4, 6) = 0
        /\ A(4, 7) = 0 /\ A(4, 8) = 0 /\ A(5, 6) = 0 /\ A(5, 7) = 0
        /\ A(5, 8) = 0 /\ A(6, 7) = 0 /\ A(6, 8) = 0 /\ A(7, 8) = 0
    BY <1>1, <1>5
  <2> QED
    BY <2>1 DEF Inversions
<1> QED
  BY <1>2, <1>4, <1>6

(* On the solved cube every corner is at its place.                        *)
LEMMA SolvedShows == Shows(Painted(make_cube), CornerAt)
<1>1. ASSUME NEW s \in Places PROVE Painted(make_cube)[s] = s[2]
  BY MakeCubeIsSolved, SameSpace DEF Physical!Solved
<1>2. \A s \in Places : Dot(s[1], s[2]) = 1
  BY DEF Places
<1> QED
  BY <1>1, <1>2 DEF Shows

(* And it shows the corners in no other arrangement.                       *)
LEMMA SolvedShowsOnly ==
  ASSUME NEW who \in [CornerIds -> Block], Shows(Painted(make_cube), who)
  PROVE  who = CornerAt
<1>1. ASSUME NEW s \in Places PROVE Painted(make_cube)[s] = s[2]
  BY MakeCubeIsSolved, SameSpace DEF Physical!Solved
<1>2. ASSUME NEW i \in CornerIds PROVE who[i] = CornerAt[i]
  <2>1. PICK x \in {-1, 1}, y \in {-1, 1}, z \in {-1, 1} :
          CornerAt[i] = <<x, y, z>>
    BY DEF CornerAt, CornerIds
  <2>2. PICK a \in -1 .. 1, b \in -1 .. 1, c \in -1 .. 1 : who[i] = <<a, b, c>>
    BY DEF Block
  <2>3. /\ <<x, 0, 0>> \in Sides
        /\ <<0, y, 0>> \in Sides
        /\ <<0, 0, z>> \in Sides
        /\ <<x, y, z>> \in Block
    BY DEF Sides, Block, Dot
  <2>4. /\ Dot(<<x, y, z>>, <<x, 0, 0>>) = 1
        /\ Dot(<<x, y, z>>, <<0, y, 0>>) = 1
        /\ Dot(<<x, y, z>>, <<0, 0, z>>) = 1
    BY DEF Dot
  <2>5. \A m \in Sides :
          Dot(<<x, y, z>>, m) = 1 => Dot(<<a, b, c>>, m) = 1
    <3> SUFFICES ASSUME NEW m \in Sides, Dot(<<x, y, z>>, m) = 1
                 PROVE  Dot(<<a, b, c>>, m) = 1
      OBVIOUS
    <3> DEFINE s == <<<<x, y, z>>, m>>
    <3>1. s \in Places /\ s[1] = CornerAt[i] /\ s[2] = m
      BY <2>1, <2>3 DEF Places
    <3> HIDE DEF s
    <3>2. Dot(who[i], Painted(make_cube)[s]) = 1
      BY <3>1 DEF Shows
    <3> QED
      BY <1>1, <2>2, <3>1, <3>2
  <2>6. /\ Dot(<<a, b, c>>, <<x, 0, 0>>) = 1
        /\ Dot(<<a, b, c>>, <<0, y, 0>>) = 1
        /\ Dot(<<a, b, c>>, <<0, 0, z>>) = 1
    BY <2>3, <2>4, <2>5
  <2>7. a = x /\ b = y /\ c = z
    BY <2>6 DEF Dot
  <2> QED
    BY <2>1, <2>2, <2>7
<1>3. CornerAt \in [CornerIds -> Block]
  BY CornersInOrder
<1> QED
  BY <1>2, <1>3

(* Where a sticker of a corner comes from is a sticker of the corner that  *)
(* comes.                                                                  *)
LEMMA CornersComeWhole ==
  ASSUME NEW f \in Faces, NEW d \in Directions, NEW s \in Places
  PROVE  /\ ComesFrom(Normal[f], d = 0, s) \in Places
         /\ ComesFrom(Normal[f], d = 0, s)[1] = CornerSource(f, d, s[1])
<1>1. ComesFrom(Normal[f], d = 0, s) \in Places
  <2>1. PICK g \in Faces, q \in Squares : SquareOf[s] = <<g, q>>
    BY StickersArePlaces DEF Stickers
  <2>2. PlaceOf(<<g, q>>) = s
    BY <2>1, StickersArePlaces
  <2>3. PlaceOf(Source[f][d][g][q]) = ComesFrom(Normal[f], d = 0, s)
    BY <2>2, SourceInSpace, Zenon
  <2>4. Source[f][d][g][q] \in Stickers
    BY SourceType
  <2> QED
    BY <2>3, <2>4, StickersArePlaces
<1>2. ComesFrom(Normal[f], d = 0, s)[1] = CornerSource(f, d, s[1])
  <2>1. CASE Dot(s[1], Normal[f]) = 1
    BY <2>1 DEF ComesFrom, CornerSource
  <2>2. CASE Dot(s[1], Normal[f]) # 1
    BY <2>2 DEF ComesFrom, CornerSource
  <2> QED
    BY <2>1, <2>2
<1> QED
  BY <1>1, <1>2

(* rotate moves four corners in a cycle, with their stickers.              *)
LEMMA RotateRearranges ==
  ASSUME NEW cube \in Cubes, NEW f \in Faces, NEW d \in Directions,
         NEW who, Arranged(who), Shows(Painted(cube), who)
  PROVE  \E t \in Cycles :
           Shows(Painted(rotate(cube, f, d)), Rearranged(who, t))
<1>1. PICK t \in Cycles : IsCycleOf(f, d, t)
  BY TurnsAreCycles
<1>2. ASSUME NEW s \in Places, NEW i \in CornerIds, s[1] = CornerAt[i]
      PROVE  Dot(Rearranged(who, t)[i], Painted(rotate(cube, f, d))[s]) = 1
  <2> DEFINE u == ComesFrom(Normal[f], d = 0, s)
  <2>1. u \in Places /\ u[1] = CornerAt[t[i]] /\ t[i] \in CornerIds
    <3>1. u \in Places /\ u[1] = CornerSource(f, d, s[1])
      BY CornersComeWhole
    <3> HIDE DEF u
    <3> QED
      BY <1>1, <1>2, <3>1 DEF IsCycleOf
  <2>2. Painted(rotate(cube, f, d))[s] = Painted(cube)[u]
    <3> DEFINE now == Painted(rotate(cube, f, d))
               was == Painted(cube)
               n == Normal[f]
               clockwise == d = 0
    <3>1. now = Physical!Turned(was, n, clockwise)
      BY RotateTurns
    <3>2. u = ComesFrom(n, clockwise, s)
      OBVIOUS
    <3> HIDE DEF now, was, n, clockwise, u
    <3>3. now[s] = was[u]
      BY <3>1, <3>2, SameSpace DEF Physical!Turned
    <3> QED
      BY <3>3 DEF now, was
  <2> HIDE DEF u
  <2>3. Rearranged(who, t)[i] = who[t[i]]
    BY DEF Rearranged
  <2>4. Dot(who[t[i]], Painted(cube)[u]) = 1
    BY <2>1 DEF Shows
  <2> QED
    BY <2>2, <2>3, <2>4, Zenon
<1> QED
  BY <1>2 DEF Shows

(* A turn keeps track of the corners and changes the parity of their order.*)
LEMMA TurnKeepsCorners ==
  ASSUME Inv, CornersFollow, NEW f \in Faces, NEW d \in Directions, Turn(f, d)
  PROVE  CornersFollow'
<1>1. /\ rubiks_cube \in Cubes /\ odd \in BOOLEAN
      /\ rubiks_cube' = rotate(rubiks_cube, f, d)
      /\ odd' = ~odd
  BY DEF Inv, TypeOK, Turn
<1>2. PICK who \in [CornerIds -> Block] :
        /\ Arranged(who)
        /\ Shows(Painted(rubiks_cube), who)
        /\ odd <=> Inversions(who) % 2 = 1
  BY DEF CornersFollow
<1>3. PICK t \in Cycles :
        Shows(Painted(rotate(rubiks_cube, f, d)), Rearranged(who, t))
  BY <1>1, <1>2, RotateRearranges
<1> DEFINE new == Rearranged(who, t)
<1>4. Shows(Painted(rubiks_cube'), new)
  BY <1>1, <1>3, Zenon
<1>5. PICK q \in Int : /\ Arranged(new)
                       /\ Inversions(who) \in Int
                       /\ Inversions(new) = Inversions(who) + 1 + 2 * q
  BY <1>2, CyclesAreOdd, Zenon
<1> HIDE DEF new
<1>6. Inversions(new) % 2 = 1 <=> Inversions(who) % 2 # 1
  <2> DEFINE x == Inversions(who)
             y == Inversions(new)
  <2>1. x \in Int /\ y = x + 1 + 2 * q
    BY <1>5
  <2> HIDE DEF x, y
  <2>2. y % 2 = 1 <=> x % 2 # 1
    BY <2>1
  <2> QED
    BY <2>2 DEF x, y
<1>7. odd' <=> Inversions(new) % 2 = 1
  BY <1>1, <1>2, <1>6
<1>8. new \in [CornerIds -> Block]
  BY <1>5 DEF Arranged
<1> QED
  BY <1>4, <1>5, <1>7, <1>8 DEF CornersFollow

(* Assembling the cube puts the corners in order.                          *)
LEMMA MakeCubeKeepsCorners ==
  Shows(Painted(make_cube), CornerAt) /\ ~ (Inversions(CornerAt) % 2 = 1)
<1>1. Inversions(CornerAt) = 0
  BY CornersInOrder
<1> QED
  BY <1>1, SolvedShows

(* Every step of the program keeps track of the corners.                   *)
LEMMA NextKeepsCorners ==
  Inv /\ CornersFollow /\ [Next]_vars => CornersFollow'
<1> SUFFICES ASSUME Inv, CornersFollow, [Next]_vars PROVE CornersFollow'
  OBVIOUS
<1>1. CASE ShuffleTurn
  BY <1>1, TurnKeepsCorners DEF ShuffleTurn
<1>2. ASSUME NEW d \in Directions, RotateKey(d) PROVE CornersFollow'
  BY <1>2, TurnKeepsCorners DEF RotateKey, Inv, TypeOK
<1>3. CASE SpaceKey /\ ~is_solved(rubiks_cube)
  <2>1. rubiks_cube' = make_cube /\ odd' = FALSE
    BY <1>3 DEF SpaceKey
  <2>2. Shows(Painted(rubiks_cube'), CornerAt)
    BY <2>1, MakeCubeKeepsCorners, Zenon
  <2> QED
    BY <2>1, <2>2, CornersInOrder, MakeCubeKeepsCorners DEF CornersFollow
<1>4. CASE UNCHANGED <<rubiks_cube, odd>>
  BY <1>4 DEF CornersFollow
<1>5. SpaceKey /\ is_solved(rubiks_cube) => UNCHANGED <<rubiks_cube, odd>>
  BY DEF SpaceKey
<1>6. ShuffleEnds => UNCHANGED <<rubiks_cube, odd>>
  BY DEF ShuffleEnds
<1>7. Display => UNCHANGED <<rubiks_cube, odd>>
  BY DEF Display
<1>8. ASSUME NEW f \in Faces, FaceKey(f)
      PROVE  UNCHANGED <<rubiks_cube, odd>>
  BY <1>8 DEF FaceKey
<1>9. OtherKey \/ QuitKey => UNCHANGED <<rubiks_cube, odd>>
  BY DEF OtherKey, QuitKey
<1>10. UNCHANGED vars => UNCHANGED <<rubiks_cube, odd>>
  BY DEF vars
<1> QED
  BY <1>1, <1>2, <1>3, <1>4, <1>5, <1>6, <1>7, <1>8, <1>9, <1>10 DEF Next

(* An odd number of turns, made in any order by shuffles and keys since    *)
(* the cube was assembled, never leaves it solved.                         *)
THEOREM OddTurnsShuffle == Spec => []OddTurnsNeverSolve
<1>1. Init => CornersFollow
  <2> SUFFICES ASSUME Init PROVE CornersFollow
    OBVIOUS
  <2>1. rubiks_cube = make_cube /\ odd = FALSE
    BY DEF Init
  <2>2. Shows(Painted(rubiks_cube), CornerAt)
    BY <2>1, MakeCubeKeepsCorners, Zenon
  <2> QED
    BY <2>1, <2>2, CornersInOrder, MakeCubeKeepsCorners DEF CornersFollow
<1>2. Inv /\ CornersFollow => OddTurnsNeverSolve
  <2> SUFFICES ASSUME Inv, CornersFollow, is_solved(rubiks_cube)
               PROVE  ~odd
    BY DEF OddTurnsNeverSolve
  <2>1. rubiks_cube = make_cube
    BY DEF Inv, TypeOK, Cubes, is_solved, make_cube, make_face
  <2>2. PICK who \in [CornerIds -> Block] :
          /\ Shows(Painted(rubiks_cube), who)
          /\ odd <=> Inversions(who) % 2 = 1
    BY DEF CornersFollow
  <2>3. Shows(Painted(make_cube), who)
    BY <2>1, <2>2, Zenon
  <2>4. who = CornerAt
    BY <2>3, SolvedShowsOnly
  <2> QED
    BY <2>2, <2>4, MakeCubeKeepsCorners
<1> QED
  BY <1>1, <1>2, NextKeepsCorners, Invariance, PTL DEF Spec

=============================================================================
