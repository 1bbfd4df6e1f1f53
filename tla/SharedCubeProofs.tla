--------------------------- MODULE SharedCubeProofs ---------------------------
(***************************************************************************)
(* The server implements the one shared cube of SharedCube, for any number *)
(* of client slots, pipes of any capacity, shuffles of any depth and any   *)
(* number of commands.  The inductive invariant is CommandUnderWay of      *)
(* RubiksServer, on top of Inv.                                            *)
(***************************************************************************)
EXTENDS RubiksServerStreamProofs, WellFoundedInduction

(* The tables of the cube of SharedCube are those of the server's cube.    *)
LEMMA SameAdjacency == Shared!adjacent_faces = adjacent_faces
BY Zenon DEF Shared!adjacent_faces, adjacent_faces,
     Shared!adjacent_face, adjacent_face,
     Shared!LeftDown, LeftDown, Shared!RightUp, RightUp,
     Shared!BottomRight, BottomRight, Shared!TopLeft, TopLeft,
     Shared!FACE_FRONT, FACE_FRONT, Shared!FACE_RIGHT, FACE_RIGHT,
     Shared!FACE_TOP, FACE_TOP, Shared!FACE_BOTTOM, FACE_BOTTOM,
     Shared!FACE_LEFT, FACE_LEFT, Shared!FACE_BACK, FACE_BACK,
     Shared!Faces, Faces, Shared!N_FACES, N_FACES

(* So are the moves of a turn.                                             *)
LEMMA SameMoves ==
  ASSUME NEW f, NEW d
  PROVE  Shared!Moves(f, d) = Moves(f, d)
<1>1. Shared!transpose_face(f, d) = transpose_face(f, d)
  BY Zenon DEF Shared!transpose_face, transpose_face,
       Shared!OwnSource, OwnSource, Shared!Squares, Squares,
       Shared!N_SQUARES_PER_FACE, N_SQUARES_PER_FACE,
       Shared!Directions, Directions
<1>2. ASSUME NEW i
      PROVE  Shared!next_adjacent_face(i, d) = next_adjacent_face(i, d)
  BY Zenon DEF Shared!next_adjacent_face, next_adjacent_face,
       Shared!N_EDGES_PER_SIDE, N_EDGES_PER_SIDE
<1>3. ASSUME NEW i, NEW j PROVE Shared!Edge(f, i, j) = Edge(f, i, j)
  BY SameAdjacency, Zenon DEF Shared!Edge, Edge
<1>4. Shared!transpose_other_faces(f, d) = transpose_other_faces(f, d)
  BY <1>2, <1>3, SMT DEF Shared!transpose_other_faces, transpose_other_faces,
       Shared!N_EDGES_PER_SIDE, N_EDGES_PER_SIDE,
       Shared!N_SQUARES_PER_SIDE, N_SQUARES_PER_SIDE
<1> QED
  BY <1>1, <1>4, Zenon DEF Shared!Moves, Moves

(* And the sources.                                                        *)
LEMMA SameSource == Shared!Source = Source
BY SameMoves, Zenon DEF Shared!Source, Source, Shared!SourceOf, SourceOf,
     Shared!Faces, Faces, Shared!N_FACES, N_FACES, Shared!Squares, Squares,
     Shared!N_SQUARES_PER_FACE, N_SQUARES_PER_FACE,
     Shared!Directions, Directions

(* So the operations of the two cubes are the same.                        *)
LEMMA SameCube ==
  /\ Shared!make_cube = make_cube
  /\ \A c : Shared!is_solved(c) <=> is_solved(c)
  /\ \A c, f, d : Shared!rotate(c, f, d) = rotate(c, f, d)
BY SameSource, Zenon
   DEF Shared!make_cube, make_cube, Shared!make_face, make_face,
       Shared!is_solved, is_solved, Shared!rotate, rotate,
       Shared!ColorAt, ColorAt, Shared!Faces, Faces, Shared!N_FACES, N_FACES,
       Shared!Squares, Squares, Shared!N_SQUARES_PER_FACE, N_SQUARES_PER_FACE

(* Induction, for a set of numbers: the least number outside of it would   *)
(* have a predecessor inside.                                              *)
LEMMA NatSetInduction ==
  ASSUME NEW S, 0 \in S, \A n \in Nat : n \in S => n + 1 \in S
  PROVE  Nat \subseteq S
<1> DEFINE Less == OpToRel(<, Nat)
           Outside == Nat \ S
<1>1. \A i, j \in Nat : i < j => <<i, j>> \in Less
  BY DEF OpToRel
<1>2. IsWellFoundedOn(Less, Nat)
  BY NatLessThanWellFounded
<1> HIDE DEF Less
<1>3. ASSUME Outside # {} PROVE FALSE
  <2>1. PICK n \in Outside : \A k \in Outside : <<k, n>> \notin Less
    BY <1>2, <1>3, WFMin
  <2>2. n \in Nat /\ n # 0
    BY <2>1
  <2>3. n - 1 \in Nat /\ n - 1 < n /\ (n - 1) + 1 = n
    BY <2>2
  <2>4. n - 1 \in S
    BY <1>1, <2>1, <2>2, <2>3
  <2> QED
    BY <2>1, <2>3, <2>4
<1> QED
  BY <1>3

\* A function on 0 .. m that starts with a and goes on step by step.
IsStepwise(f, D, a, step, m) ==
  /\ f \in [0 .. m -> D]
  /\ f[0] = a
  /\ \A k \in 1 .. m : f[k] = step[f[k - 1]]

(* A function can be defined by its first value and a step.                *)
LEMMA StepwiseFunction ==
  ASSUME NEW D, NEW a \in D, NEW step \in [D -> D], NEW m \in Nat
  PROVE  \E f : IsStepwise(f, D, a, step, m)
<1> USE DEF IsStepwise
<1> DEFINE Follows(f, n) == f[0] = a /\ \A k \in 1 .. n : f[k] = step[f[k - 1]]
           S == {n \in Nat : \E f \in [0 .. n -> D] : Follows(f, n)}
<1>1. 0 \in S
  <2> DEFINE f == [k \in 0 .. 0 |-> a]
  <2>1. f \in [0 .. 0 -> D] /\ f[0] = a
    OBVIOUS
  <2>2. 1 .. 0 = {}
    OBVIOUS
  <2>3. Follows(f, 0)
    BY <2>1, <2>2
  <2> HIDE DEF f
  <2> QED
    BY <2>1, <2>3
<1>2. ASSUME NEW n \in Nat, n \in S PROVE n + 1 \in S
  <2>1. PICK f \in [0 .. n -> D] : Follows(f, n)
    BY <1>2
  <2> DEFINE g == [k \in 0 .. n + 1 |->
                     IF k = n + 1 THEN step[f[n]] ELSE f[k]]
  <2>2. n \in 0 .. n /\ f[n] \in D
    OBVIOUS
  <2>3. g[0] = f[0] /\ g[n + 1] = step[f[n]]
        /\ \A k \in 0 .. n : g[k] = f[k]
    OBVIOUS
  <2>4. g \in [0 .. n + 1 -> D]
    BY <2>2
  <2> HIDE DEF g
  <2>5. ASSUME NEW k \in 1 .. n + 1 PROVE g[k] = step[g[k - 1]]
    <3>1. CASE k = n + 1
      <4>1. k - 1 = n
        BY <3>1
      <4> QED
        BY <2>2, <2>3, <3>1, <4>1
    <3>2. CASE k # n + 1
      <4>1. k \in 1 .. n /\ k \in 0 .. n /\ k - 1 \in 0 .. n
        BY <3>2
      <4> QED
        BY <2>1, <2>3, <4>1
    <3> QED
      BY <3>1, <3>2
  <2>6. Follows(g, n + 1)
    BY <2>1, <2>3, <2>5
  <2> HIDE DEF Follows
  <2> QED
    BY <2>4, <2>6
<1> HIDE DEF S
<1>3. m \in S
  BY <1>1, <1>2, NatSetInduction
<1> QED
  BY <1>3 DEF S

(* A random turn makes cubes of cubes.                                     *)
LEMMA OneTurnMoreType ==
  ASSUME NEW cubes \in SUBSET Cubes
  PROVE  Shared!OneTurnMore(cubes) \in SUBSET Cubes
<1> SUFFICES ASSUME NEW c \in cubes, NEW t \in RandomTurns
             PROVE  rotate(c, t[1], t[2]) \in Cubes
  BY SameCube DEF Shared!OneTurnMore
<1>1. c \in Cubes /\ t[1] \in Faces /\ t[2] \in Directions
  BY BoundAssumption
<1> QED
  BY <1>1, RotateType

(* What the recursive definition of Shuffled defines: the solved cube,     *)
(* and whatever one more random turn leads to.                             *)
LEMMA ShuffledSteps ==
  /\ Shared!Shuffled[0] = {make_cube}
  /\ \A n \in 1 .. MAX_DEPTH :
       Shared!Shuffled[n] = Shared!OneTurnMore(Shared!Shuffled[n - 1])
  /\ \A n \in 0 .. MAX_DEPTH : Shared!Shuffled[n] \subseteq Cubes
<1> DEFINE D == SUBSET Cubes
           step == [cubes \in D |-> Shared!OneTurnMore(cubes)]
           first == {make_cube}
<1>0. MAX_DEPTH \in Nat
  BY DepthAssumption
<1>1. step \in [D -> D]
  BY OneTurnMoreType
<1>2. first \in D
  BY MakeCubeType
<1>3. \A cubes \in D : step[cubes] = Shared!OneTurnMore(cubes)
  OBVIOUS
<1> HIDE DEF D, step, first
<1>4. PICK f \in [0 .. MAX_DEPTH -> D] :
        /\ f[0] = first
        /\ \A k \in 1 .. MAX_DEPTH : f[k] = step[f[k - 1]]
  <2>1. \E f : IsStepwise(f, D, first, step, MAX_DEPTH)
    BY <1>0, <1>1, <1>2, StepwiseFunction, Zenon
  <2> QED
    BY <2>1, Zenon DEF IsStepwise
<1> DEFINE IsShuffled(h) ==
             h = [n \in 0 .. MAX_DEPTH |->
                    IF n = 0 THEN {make_cube}
                    ELSE Shared!OneTurnMore(h[n - 1])]
<1>5. IsShuffled(f)
  <2>1. ASSUME NEW n \in 0 .. MAX_DEPTH
        PROVE  f[n] = IF n = 0 THEN {make_cube}
                      ELSE Shared!OneTurnMore(f[n - 1])
    <3>1. CASE n = 0
      BY <1>4, <3>1 DEF first
    <3>2. CASE n # 0
      <4>1. n \in 1 .. MAX_DEPTH /\ n - 1 \in 0 .. MAX_DEPTH
        BY <1>0, <3>2
      <4>2. f[n - 1] \in D
        BY <4>1
      <4> QED
        BY <1>3, <1>4, <3>2, <4>1, <4>2
    <3> QED
      BY <3>1, <3>2
  <2>2. f = [n \in 0 .. MAX_DEPTH |->
               IF n = 0 THEN {make_cube} ELSE Shared!OneTurnMore(f[n - 1])]
    BY <2>1
  <2> QED
    BY <2>2, Zenon
<1>6. Shared!Shuffled = CHOOSE h : IsShuffled(h)
  BY SameCube, Zenon DEF Shared!Shuffled
<1>7. IsShuffled(Shared!Shuffled)
  <2> HIDE DEF IsShuffled
  <2> QED
    BY <1>5, <1>6, Zenon
<1> DEFINE h == Shared!Shuffled
<1>8. h = [n \in 0 .. MAX_DEPTH |->
             IF n = 0 THEN {make_cube} ELSE Shared!OneTurnMore(h[n - 1])]
  BY <1>7, Zenon
<1> HIDE DEF h
<1>9. ASSUME NEW n \in 0 .. MAX_DEPTH
      PROVE  h[n] = IF n = 0 THEN {make_cube} ELSE Shared!OneTurnMore(h[n - 1])
  BY <1>8
<1>10. h[0] = {make_cube}
  BY <1>0, <1>9
<1>11. \A n \in 1 .. MAX_DEPTH : h[n] = Shared!OneTurnMore(h[n - 1])
  <2>1. \A n \in 1 .. MAX_DEPTH : n \in 0 .. MAX_DEPTH /\ n # 0
    BY <1>0
  <2> QED
    BY <1>9, <2>1
<1>12. \A n \in 0 .. MAX_DEPTH : h[n] \subseteq Cubes
  <2> DEFINE S == {n \in Nat : n <= MAX_DEPTH => h[n] \subseteq Cubes}
  <2>1. 0 \in S
    BY <1>10, MakeCubeType
  <2>2. ASSUME NEW n \in Nat, n \in S PROVE n + 1 \in S
    <3>1. CASE n + 1 <= MAX_DEPTH
      <4>1. n + 1 \in 1 .. MAX_DEPTH /\ n <= MAX_DEPTH /\ (n + 1) - 1 = n
        BY <1>0, <3>1
      <4>2. h[n + 1] = Shared!OneTurnMore(h[n]) /\ h[n] \subseteq Cubes
        BY <1>11, <2>2, <4>1
      <4>3. h[n + 1] \subseteq Cubes
        BY <4>2, OneTurnMoreType
      <4> QED
        BY <4>3
    <3>2. CASE ~(n + 1 <= MAX_DEPTH)
      BY <3>2
    <3> QED
      BY <3>1, <3>2
  <2> HIDE DEF S
  <2>3. Nat \subseteq S
    BY <2>1, <2>2, NatSetInduction
  <2> QED
    BY <1>0, <2>3 DEF S
<1> QED
  BY <1>10, <1>11, <1>12 DEF h

(* The newest state is a cube, and if it is solved it is the one that      *)
(* make_cube makes.                                                        *)
LEMMA CurrentType ==
  ASSUME TypeOK, CubeIsNewestState
  PROVE  /\ Shared!Current \in Cubes
         /\ Shared!Current = history[Len(history)]
         /\ is_solved(Shared!Current) => Shared!Current = make_cube
<1>1. Shared!Current = history[Len(history)]
  BY Zenon DEF Shared!Current
<1>2. history \in Seq(Cubes) /\ history # <<>>
  BY DEF TypeOK, CubeIsNewestState
<1>3. Len(history) \in 1 .. Len(history)
  BY <1>2
<1>4. history[Len(history)] \in Cubes
  BY <1>2, <1>3, ElementOfSeq
<1>5. \A c \in Cubes : is_solved(c) => c = make_cube
  BY DEF Cubes, is_solved, make_cube, make_face
<1> QED
  BY <1>1, <1>4, <1>5

(* What SharedCube allows a command to do.                                 *)
LEMMA LegalMovesAre ==
  /\ \A f \in Faces, d \in Directions :
       rotate(Shared!Current, f, d) \in Shared!LegalMoves
  /\ is_solved(Shared!Current) =>
       \A n \in MIN_DEPTH .. MAX_DEPTH :
         Shared!Shuffled[n] \subseteq Shared!LegalMoves
  /\ ~is_solved(Shared!Current) => make_cube \in Shared!LegalMoves
<1> DEFINE cur == Shared!Current
           shuf == Shared!Shuffled
<1>1. Shared!Faces = Faces /\ Shared!Directions = Directions
  BY Zenon DEF Shared!Faces, Faces, Shared!N_FACES, N_FACES,
               Shared!Directions, Directions
<1>2. Shared!LegalMoves =
        {rotate(cur, f, d) : f \in Faces, d \in Directions}
          \cup (IF is_solved(cur)
                THEN UNION {shuf[n] : n \in MIN_DEPTH .. MAX_DEPTH}
                ELSE {make_cube})
  BY <1>1, SameCube, SMT DEF Shared!LegalMoves
<1> HIDE DEF cur, shuf
<1>3. /\ \A f \in Faces, d \in Directions :
           rotate(cur, f, d) \in Shared!LegalMoves
      /\ is_solved(cur) =>
           \A n \in MIN_DEPTH .. MAX_DEPTH : shuf[n] \subseteq Shared!LegalMoves
      /\ ~is_solved(cur) => make_cube \in Shared!LegalMoves
  BY <1>2
<1> QED
  BY <1>3 DEF cur, shuf

(* What is legal depends on the history only.                              *)
LEMMA SameLegalMoves ==
  ASSUME history' = history
  PROVE  /\ Shared!Current' = Shared!Current
         /\ Shared!LegalMoves' = Shared!LegalMoves
         /\ Shared!Shuffled' = Shared!Shuffled
<1>1. Shared!Current' = Shared!Current
  BY Zenon DEF Shared!Current
<1>2. Shared!Shuffled' = Shared!Shuffled
  OBVIOUS
<1>3. Shared!LegalMoves' = Shared!LegalMoves
  BY <1>1, <1>2 DEF Shared!LegalMoves
<1> QED
  BY <1>1, <1>2, <1>3

(* A cube that is on its way and has no turn to go is a legal move.        *)
LEMMA Arrived ==
  ASSUME NEW c \in Clients, NEW cube, OnItsWay(c, cube), depth[c] = 0
  PROVE  cube \in Shared!LegalMoves
<1>1. CASE cube \in Shared!LegalMoves
  BY <1>1
<1>2. CASE /\ is_solved(Shared!Current)
           /\ \E n \in MIN_DEPTH .. MAX_DEPTH :
                depth[c] <= n /\ cube \in Shared!Shuffled[n - depth[c]]
  <2>1. PICK n \in MIN_DEPTH .. MAX_DEPTH :
               cube \in Shared!Shuffled[n - depth[c]]
    BY <1>2
  <2>2. n - depth[c] = n
    BY <2>1, DepthAssumption
  <2>3. Shared!Shuffled[n] \subseteq Shared!LegalMoves
    BY <1>2, LegalMovesAre
  <2> QED
    BY <2>1, <2>2, <2>3
<1> QED
  BY <1>1, <1>2 DEF OnItsWay

(* A listener that is not inside the mutex and does nothing.               *)
LEMMA OutsiderKeeps ==
  ASSUME NEW d \in Clients, CarriesOut(d),
         listener_pc[d] \notin ListenerCritical,
         listener_pc'[d] = listener_pc[d], depth'[d] = depth[d]
  PROVE  CarriesOut(d)'
BY DEF CarriesOut, ListenerCritical

(* A listener that does nothing while the cube stays as it is.             *)
LEMMA BystanderKeeps ==
  ASSUME NEW d \in Clients, CarriesOut(d),
         UNCHANGED <<global_cube_state, history>>,
         listener_pc'[d] = listener_pc[d], depth'[d] = depth[d],
         cube_copy'[d] = cube_copy[d], copied'[d] = copied[d]
  PROVE  CarriesOut(d)'
<1>1. /\ OnItsWay(d, global_cube_state)' <=> OnItsWay(d, global_cube_state)
      /\ OnItsWay(d, cube_copy[d])' <=> OnItsWay(d, cube_copy[d])
  BY SameLegalMoves, Zenon DEF OnItsWay
<1>2. WrittenBack(d)' <=> WrittenBack(d)
  BY Zenon DEF WrittenBack
<1> QED
  BY <1>1, <1>2, SameLegalMoves DEF CarriesOut

(* Who is inside the mutex is alone there.                                 *)
LEMMA AloneInside ==
  ASSUME MutualExclusion, NEW c \in Clients, NEW d \in Clients, d # c,
         listener_pc[c] \in ListenerCritical
  PROVE  listener_pc[d] \notin ListenerCritical
BY DEF MutualExclusion

(* While one listener is inside the mutex, its step is the only one that   *)
(* matters.                                                                *)
LEMMA InsideSteps ==
  ASSUME TypeOK, MutualExclusion, CommandUnderWay, NEW c \in Clients,
         listener_pc[c] \in ListenerCritical,
         \A d \in Clients : d # c => /\ listener_pc'[d] = listener_pc[d]
                                     /\ depth'[d] = depth[d],
         CarriesOut(c)'
  PROVE  CommandUnderWay'
<1> SUFFICES ASSUME NEW d \in Clients, d # c PROVE CarriesOut(d)'
  BY DEF CommandUnderWay
<1>1. listener_pc[d] \notin ListenerCritical
  BY AloneInside
<1>2. CarriesOut(d)
  BY DEF CommandUnderWay
<1> QED
  BY <1>1, <1>2, OutsiderKeeps

(* What a listener that prepares a cube to write back leaves behind.       *)
LEMMA WriteBackSets ==
  ASSUME TypeOK, NEW c \in Clients, NEW cube, WriteBack(c, cube)
  PROVE  /\ listener_pc'[c] = "copy" /\ cube_copy'[c] = cube /\ copied'[c] = 0
         /\ \A d \in Clients : d # c => listener_pc'[d] = listener_pc[d]
<1>1. /\ cube_copy' = [cube_copy EXCEPT ![c] = cube]
      /\ copied' = [copied EXCEPT ![c] = 0]
      /\ listener_pc' = [listener_pc EXCEPT ![c] = "copy"]
  BY Zenon DEF WriteBack
<1> HIDE DEF WriteBack
<1>2. /\ cube_copy \in [Clients -> Cubes]
      /\ copied \in [Clients -> 0 .. N_FACES]
      /\ listener_pc \in [Clients -> ListenerPcs]
  BY DEF TypeOK
<1> QED
  BY <1>1, <1>2

(* So, once what it writes back is on its way.                             *)
LEMMA WriteBackCarries ==
  ASSUME TypeOK, NEW c \in Clients, NEW cube, WriteBack(c, cube),
         OnItsWay(c, cube)'
  PROVE  CarriesOut(c)'
<1>1. listener_pc'[c] = "copy" /\ cube_copy'[c] = cube /\ copied'[c] = 0
  BY WriteBackSets
<1>2. OnItsWay(c, cube_copy[c])'
  BY <1>1, Zenon DEF OnItsWay
<1>3. WrittenBack(c)'
  BY <1>1 DEF WrittenBack, Faces, N_FACES
<1> QED
  BY <1>1, <1>2, <1>3 DEF CarriesOut

(* A turn or a reassembly: the cube it makes is a legal move.              *)
LEMMA DecodeCarries ==
  ASSUME TypeOK, LoopsInRange, MutualExclusion, CubeIsNewestState,
         CommandUnderWay, NEW c \in Clients, DecodeRotate(c) \/ DecodeSolve(c)
  PROVE  CommandUnderWay'
<1>1. /\ listener_pc[c] = "decode" /\ depth[c] = 0
      /\ global_cube_state = Shared!Current
  BY DEF CommandUnderWay, CarriesOut, DecodeRotate, DecodeSolve
<1>2. UNCHANGED <<depth, history>>
  BY DEF DecodeRotate, DecodeSolve
<1>3. PICK cube \in Shared!LegalMoves : WriteBack(c, cube)
  <2>1. CASE DecodeRotate(c)
    <3> DEFINE f == line[c][1] - ZERO
               d == line[c][2] - ZERO
    <3>1. d # 2 /\ WriteBack(c, rotate(global_cube_state, f, d))
      BY <2>1, Zenon DEF DecodeRotate
    <3>2. f \in Faces /\ d \in Directions
      <4>1. line[c] \in Lines
        BY <1>1 DEF TypeOK, LoopsInRange
      <4> QED
        BY <3>1, <4>1, CommandType
    <3>3. rotate(Shared!Current, f, d) \in Shared!LegalMoves
      BY <3>2, LegalMovesAre
    <3> QED
      BY <1>1, <3>1, <3>3, Zenon
  <2>2. CASE DecodeSolve(c)
    <3>1. ~is_solved(global_cube_state) /\ WriteBack(c, make_cube)
      BY <2>2, Zenon DEF DecodeSolve
    <3>2. make_cube \in Shared!LegalMoves
      BY <1>1, <3>1, LegalMovesAre
    <3> QED
      BY <3>1, <3>2, Zenon
  <2> QED
    BY <2>1, <2>2
<1>4. OnItsWay(c, cube)'
  <2>1. cube \in Shared!LegalMoves'
    BY <1>2, <1>3, SameLegalMoves
  <2>2. depth'[c] = 0
    BY <1>1, <1>2
  <2> QED
    BY <2>1, <2>2, Zenon DEF OnItsWay
<1>5. CarriesOut(c)'
  BY <1>3, <1>4, WriteBackCarries
<1>6. \A d \in Clients : d # c => /\ listener_pc'[d] = listener_pc[d]
                                  /\ depth'[d] = depth[d]
  BY <1>2, <1>3, WriteBackSets
<1> QED
  BY <1>1, <1>5, <1>6, InsideSteps DEF ListenerCritical

(* A shuffle begins: no turn of it has been made.                          *)
LEMMA DecodeShuffleCarries ==
  ASSUME TypeOK, MutualExclusion, CubeIsNewestState, CommandUnderWay,
         NEW c \in Clients, DecodeShuffle(c)
  PROVE  CommandUnderWay'
<1>1. /\ listener_pc[c] = "decode"
      /\ is_solved(global_cube_state)
      /\ listener_pc' = [listener_pc EXCEPT ![c] = "shuffle"]
      /\ UNCHANGED <<global_cube_state, history>>
  BY DEF DecodeShuffle
<1>2. PICK n \in MIN_DEPTH .. MAX_DEPTH : depth' = [depth EXCEPT ![c] = n]
  BY DEF DecodeShuffle
<1>3. global_cube_state = make_cube /\ is_solved(Shared!Current)
  BY <1>1, CurrentType DEF CommandUnderWay, CarriesOut
<1>4. /\ listener_pc'[c] = "shuffle" /\ depth'[c] = n
      /\ \A d \in Clients : d # c => /\ listener_pc'[d] = listener_pc[d]
                                     /\ depth'[d] = depth[d]
  BY <1>1, <1>2 DEF TypeOK
<1>5. OnItsWay(c, global_cube_state)'
  <2>1. is_solved(Shared!Current')
    BY <1>1, <1>3, SameLegalMoves
  <2>2. n <= n /\ n - n = 0
    BY DepthAssumption
  <2>3. make_cube \in Shared!Shuffled[n - n]
    BY <2>2, ShuffledSteps
  <2>4. global_cube_state' = make_cube
    BY <1>1, <1>3
  <2> QED
    BY <1>4, <2>1, <2>2, <2>3, <2>4, Zenon DEF OnItsWay
<1>6. CarriesOut(c)'
  BY <1>4, <1>5 DEF CarriesOut
<1> QED
  BY <1>1, <1>4, <1>6, InsideSteps DEF ListenerCritical

(* A turn of a shuffle: one more made, one fewer to go.                    *)
LEMMA ShuffleTurnCarries ==
  ASSUME TypeOK, LoopsInRange, MutualExclusion, CommandUnderWay,
         NEW c \in Clients, ShuffleTurn(c)
  PROVE  CommandUnderWay'
<1>1. /\ listener_pc[c] = "shuffle"
      /\ depth' = [depth EXCEPT ![c] = depth[c] - 1]
      /\ UNCHANGED <<global_cube_state, history>>
  BY Zenon DEF ShuffleTurn
<1>2. PICK t \in RandomTurns :
        WriteBack(c, rotate(global_cube_state, t[1], t[2]))
  BY Zenon DEF ShuffleTurn
<1>0. PICK cube : /\ cube = rotate(global_cube_state, t[1], t[2])
                  /\ WriteBack(c, cube)
  BY <1>2, Zenon
<1> DEFINE shuf == Shared!Shuffled
<1>3. depth[c] \in 0 .. MAX_DEPTH /\ depth[c] > 0
  BY <1>1 DEF TypeOK, LoopsInRange
<1>4. /\ depth'[c] = depth[c] - 1
      /\ \A d \in Clients : d # c => depth'[d] = depth[d]
  BY <1>1 DEF TypeOK
<1>5. OnItsWay(c, global_cube_state)
  BY <1>1 DEF CommandUnderWay, CarriesOut
<1>6. PICK n \in MIN_DEPTH .. MAX_DEPTH :
        /\ depth[c] <= n
        /\ global_cube_state \in shuf[n - depth[c]]
  BY <1>3, <1>5 DEF OnItsWay
<1>7. is_solved(Shared!Current)
  BY <1>3, <1>5 DEF OnItsWay
<1>8. depth'[c] <= n /\ cube \in shuf[n - depth'[c]]
  <2> DEFINE k == n - depth[c]
  <2>1. /\ k + 1 \in 1 .. MAX_DEPTH /\ (k + 1) - 1 = k
        /\ n - depth'[c] = k + 1 /\ depth'[c] <= n
    BY <1>3, <1>4, <1>6, DepthAssumption
  <2> HIDE DEF k
  <2>2. Shared!Shuffled[k + 1] = Shared!OneTurnMore(Shared!Shuffled[k])
    BY <2>1, ShuffledSteps
  <2>3. cube \in Shared!OneTurnMore(Shared!Shuffled[k])
    <3>1. global_cube_state \in Shared!Shuffled[k]
      BY <1>6 DEF k
    <3> QED
      BY <1>0, <3>1, SameCube, SMT DEF Shared!OneTurnMore
  <2> QED
    BY <2>1, <2>2, <2>3
<1>9. OnItsWay(c, cube)'
  <2>1. is_solved(Shared!Current')
    BY <1>1, <1>7, SameLegalMoves
  <2> QED
    BY <1>8, <2>1, Zenon DEF OnItsWay
<1>10. CarriesOut(c)'
  BY <1>0, <1>9, WriteBackCarries
<1>11. \A d \in Clients : d # c => listener_pc'[d] = listener_pc[d]
  BY <1>0, WriteBackSets
<1> QED
  BY <1>1, <1>4, <1>10, <1>11, InsideSteps DEF ListenerCritical

(* A face is written back; after the last one the cube is the copy.        *)
LEMMA CopyFaceCarries ==
  ASSUME TypeOK, LoopsInRange, MutualExclusion, CommandUnderWay,
         NEW c \in Clients, CopyFace(c)
  PROVE  CommandUnderWay'
<1> DEFINE i == copied[c]
<1>1. /\ listener_pc[c] = "copy"
      /\ global_cube_state' = [global_cube_state EXCEPT ![i] = cube_copy[c][i]]
      /\ copied' = [copied EXCEPT ![c] = i + 1]
      /\ UNCHANGED <<depth, cube_copy, history>>
  BY Zenon DEF CopyFace
<1>2. IF i + 1 < N_FACES
      THEN UNCHANGED listener_pc
      ELSE listener_pc' = [listener_pc EXCEPT
             ![c] = IF depth[c] > 0 THEN "shuffle" ELSE "unlock"]
  BY Zenon DEF CopyFace
<1>3. /\ i \in 0 .. N_FACES /\ i < N_FACES /\ i \in Faces
      /\ cube_copy[c] \in Cubes /\ global_cube_state \in Cubes
      /\ depth[c] \in 0 .. MAX_DEPTH
  BY <1>1 DEF TypeOK, LoopsInRange, Faces, N_FACES
<1>4. OnItsWay(c, cube_copy[c]) /\ WrittenBack(c)
  BY <1>1 DEF CommandUnderWay, CarriesOut
<1>5. copied'[c] = i + 1
  BY <1>1 DEF TypeOK
<1>6. ASSUME NEW j \in Faces, j < i + 1
      PROVE  global_cube_state'[j] = cube_copy[c][j]
  <2>1. CASE j = i
    BY <1>1, <1>3, <2>1 DEF Cubes
  <2>2. CASE j # i
    <3>1. j < i
      BY <1>3, <1>6, <2>2 DEF Faces, N_FACES
    <3>2. global_cube_state'[j] = global_cube_state[j]
      BY <1>1, <1>3, <2>2 DEF Cubes
    <3> QED
      BY <1>4, <3>1, <3>2 DEF WrittenBack
  <2> QED
    BY <2>1, <2>2
<1>7. PICK cube : cube = cube_copy[c]
  OBVIOUS
<1>8. OnItsWay(c, cube)'
  <2>1. OnItsWay(c, cube)
    BY <1>4, <1>7
  <2> QED
    BY <1>1, <2>1, SameLegalMoves, Zenon DEF OnItsWay
<1>9. cube_copy'[c] = cube
  BY <1>1, <1>7
<1>10. \A d \in Clients : d # c => listener_pc'[d] = listener_pc[d]
  BY <1>2 DEF TypeOK
<1> HIDE DEF i
<1>11. CarriesOut(c)'
  <2>1. CASE i + 1 < N_FACES
    <3>1. listener_pc'[c] = "copy"
      BY <1>1, <1>2, <2>1
    <3>2. WrittenBack(c)'
      BY <1>5, <1>6, <1>7, <1>9 DEF WrittenBack
    <3>3. OnItsWay(c, cube_copy[c])'
      BY <1>8, <1>9, Zenon DEF OnItsWay
    <3> QED
      BY <3>1, <3>2, <3>3 DEF CarriesOut
  <2>2. CASE ~(i + 1 < N_FACES)
    <3>1. global_cube_state' = cube
      <4>1. \A j \in Faces : j < i + 1
        BY <1>3, <2>2 DEF Faces, N_FACES
      <4>2. \A j \in Faces : global_cube_state'[j] = cube[j]
        BY <1>6, <1>7, <4>1
      <4>3. global_cube_state' \in Cubes /\ cube \in Cubes
        BY <1>1, <1>3, <1>7 DEF Cubes
      <4> QED
        BY <4>2, <4>3 DEF Cubes
    <3>2. OnItsWay(c, global_cube_state)'
      BY <1>8, <3>1, Zenon DEF OnItsWay
    <3>3. CASE depth[c] > 0
      <4>1. listener_pc'[c] = "shuffle"
        BY <1>2, <2>2, <3>3 DEF TypeOK
      <4> QED
        BY <3>2, <4>1 DEF CarriesOut
    <3>4. CASE ~(depth[c] > 0)
      <4>1. listener_pc'[c] = "unlock"
        BY <1>2, <2>2, <3>4 DEF TypeOK
      <4>2. depth[c] = 0 /\ depth'[c] = 0
        BY <1>1, <1>3, <3>4
      <4>3. cube \in Shared!LegalMoves
        BY <1>4, <1>7, <4>2, Arrived
      <4>4. Shared!LegalMoves' = Shared!LegalMoves
        BY <1>1, SameLegalMoves
      <4>5. global_cube_state' \in Shared!LegalMoves'
        BY <3>1, <4>3, <4>4, Zenon
      <4> QED
        BY <4>1, <4>2, <4>5 DEF CarriesOut
    <3> QED
      BY <3>3, <3>4
  <2> QED
    BY <2>1, <2>2
<1> QED
  BY <1>1, <1>10, <1>11, InsideSteps DEF ListenerCritical

(* The command is done.                                                    *)
LEMMA UnlockCarries ==
  ASSUME TypeOK, MutualExclusion, CommandUnderWay,
         NEW c \in Clients, Unlock(c)
  PROVE  CommandUnderWay'
<1>1. /\ listener_pc[c] = "unlock"
      /\ listener_pc' = [listener_pc EXCEPT ![c] = "post"]
      /\ depth' = depth
  BY DEF Unlock
<1>2. /\ listener_pc'[c] = "post"
      /\ \A d \in Clients : d # c => listener_pc'[d] = listener_pc[d]
  BY <1>1 DEF TypeOK
<1>3. CarriesOut(c)'
  BY <1>1, <1>2 DEF CommandUnderWay, CarriesOut
<1> QED
  BY <1>1, <1>2, <1>3, InsideSteps DEF ListenerCritical

(* The steps of a listener outside of the mutex, and the one that takes it *)
(* and finds the newest state there.                                       *)
LEMMA OutsideCarries ==
  ASSUME TypeOK, MutualExclusion, CubeIsNewestState, CommandUnderWay,
         NEW c \in Clients, GetLine(c) \/ Lock(c) \/ Post(c)
  PROVE  CommandUnderWay'
<1>1. /\ listener_pc[c] \in {"getline", "lock", "post"}
      /\ UNCHANGED <<global_cube_state, history, depth, cube_copy, copied>>
      /\ \E pc \in {"lock", "decode", "getline"} :
           listener_pc' = [listener_pc EXCEPT ![c] = pc]
  BY DEF GetLine, Lock, Post
<1>2. /\ listener_pc'[c] \in {"lock", "decode", "getline"}
      /\ \A d \in Clients : d # c => listener_pc'[d] = listener_pc[d]
  BY <1>1 DEF TypeOK
<1>3. listener_pc'[c] = "decode" => global_cube_state' = Shared!Current'
  <2>1. CASE Lock(c)
    <3>1. global_cube_state_lock = NoThread
      BY <2>1 DEF Lock
    <3>2. \A d \in Clients : listener_pc[d] \notin ListenerCritical
      BY <3>1, ThreadAssumption DEF MutualExclusion
    <3>3. global_cube_state = Shared!Current
      BY <3>2, CurrentType DEF CubeIsNewestState
    <3> QED
      BY <1>1, <3>3, SameLegalMoves
  <2>2. CASE GetLine(c) \/ Post(c)
    <3>1. listener_pc'[c] # "decode"
      BY <1>1, <2>2 DEF GetLine, Post, TypeOK
    <3> QED
      BY <3>1
  <2> QED
    BY <2>1, <2>2
<1>4. depth[c] = 0
  BY <1>1 DEF CommandUnderWay, CarriesOut
<1>5. CarriesOut(c)'
  BY <1>1, <1>2, <1>3, <1>4 DEF CarriesOut
<1>6. ASSUME NEW d \in Clients, d # c PROVE CarriesOut(d)'
  BY <1>1, <1>2, <1>6, BystanderKeeps DEF CommandUnderWay
<1> QED
  BY <1>5, <1>6 DEF CommandUnderWay

(* Whatever the next step is, a command under way stays on its way.        *)
LEMMA NextCommand ==
  ASSUME TypeOK, LoopsInRange, ListenersStartInOrder, MutualExclusion,
         CubeIsNewestState, CommandUnderWay, [Next]_vars
  PROVE  CommandUnderWay'
<1>1. ASSUME NEW c \in Clients, Listener(c) PROVE CommandUnderWay'
  BY <1>1, OutsideCarries, DecodeCarries, DecodeShuffleCarries,
     ShuffleTurnCarries, CopyFaceCarries, UnlockCarries DEF Listener
<1>2. ASSUME UNCHANGED <<global_cube_state, history, listener>>
      PROVE  CommandUnderWay'
  BY <1>2, BystanderKeeps DEF CommandUnderWay, listener
<1>3. CASE CreateListener
  <2> DEFINE n == num_clients_connected
  <2>1. /\ listener_pc' = [listener_pc EXCEPT ![n] = "getline"]
        /\ UNCHANGED <<global_cube_state, history, depth, cube_copy, copied>>
    BY <1>3 DEF CreateListener
  <2> SUFFICES ASSUME NEW d \in Clients PROVE CarriesOut(d)'
    BY DEF CommandUnderWay
  <2>2. CASE d # n
    <3>1. listener_pc'[d] = listener_pc[d]
      BY <2>1, <2>2 DEF TypeOK
    <3> QED
      BY <2>1, <3>1, BystanderKeeps DEF CommandUnderWay
  <2>3. CASE d = n
    <3>1. listener_pc[d] = "none"
      BY <2>3, ClientsAssumption DEF ListenersStartInOrder, TypeOK, Clients
    <3>2. depth[d] = 0
      BY <3>1 DEF CommandUnderWay, CarriesOut
    <3>3. listener_pc'[d] = "getline" /\ depth'[d] = 0
      BY <2>1, <2>3, <3>2 DEF TypeOK
    <3> QED
      BY <3>3 DEF CarriesOut
  <2> QED
    BY <2>2, <2>3
<1>4. CASE Accept \/ Broadcast
  <2>1. UNCHANGED <<global_cube_state, history, listener>>
    BY <1>4 DEF Accept, Broadcast, SemWait, BroadcasterLock, Encode,
                BroadcasterUnlock, Write, NextServed
  <2> QED
    BY <1>2, <2>1
<1>5. ASSUME NEW c \in Clients,
             Receive(c) \/ \E l \in UserLines : Send(c, l)
      PROVE  CommandUnderWay'
  <2>1. UNCHANGED <<global_cube_state, history, listener>>
    BY <1>5 DEF Receive, Send
  <2> QED
    BY <1>2, <2>1
<1>6. CASE UNCHANGED vars
  BY <1>2, <1>6 DEF vars
<1> QED
  BY <1>1, <1>3, <1>4, <1>5, <1>6 DEF Next


(* At first there is no command.                                           *)
LEMMA InitCommand == Init => CommandUnderWay
BY DEF Init, CommandUnderWay, CarriesOut

(* What a client read last is in its stream, below everything to come.     *)
LEMMA LastReceivedInStream ==
  ASSUME TypeOK, StreamsAreOrdered, NEW c \in Clients
  PROVE  LastReceived(c) \in 0 .. version
<1>1. /\ received[c] \in Seq(Nat) /\ to_client[c] \in Seq(Frames)
      /\ version \in Nat
  BY DEF TypeOK
<1>2. CASE received[c] = <<>>
  BY <1>1, <1>2 DEF LastReceived
<1>3. CASE received[c] # <<>>
  <2> DEFINE n == Len(received[c])
             s == to_client[c]
  <2>1. n \in Nat \ {0} /\ Len(s) \in Nat
    BY <1>1, <1>3
  <2>2. /\ Len(Stream(c)) = n + Len(s)
        /\ \A k \in 1 .. n + Len(s) : k <= n => Stream(c)[k] = received[c][k]
    BY <1>1, ConcatVersions DEF Stream
  <2> HIDE DEF n, s
  <2>3. n \in 1 .. n + Len(s) /\ n <= n /\ n \in 1 .. n
    BY <2>1
  <2>4. Stream(c)[n] = received[c][n] /\ n \in 1 .. Len(Stream(c))
    BY <2>2, <2>3
  <2>5. received[c][n] \in Nat /\ received[c][n] <= version
    <3>1. received[c][n] \in Nat
      BY <1>1, <2>3, ElementOfSeq DEF n
    <3> QED
      BY <2>4, <3>1 DEF StreamsAreOrdered
  <2>6. LastReceived(c) = received[c][n]
    BY <1>3 DEF LastReceived, n
  <2> QED
    BY <1>1, <2>5, <2>6
<1> QED
  BY <1>2, <1>3

(* To read a frame is to watch the cube: what is read is a state of the    *)
(* history, not older than the one read before.                            *)
LEMMA ReceiveWatches ==
  ASSUME TypeOK, StreamsAreOrdered, NEW c \in Clients, Receive(c)
  PROVE  /\ LastReceived(c)' \in LastReceived(c) .. Len(history)
         /\ \A d \in Clients : d # c => LastReceived(d)' = LastReceived(d)
<1> DEFINE r == received[c]
           s == to_client[c]
           v == Head(s).version
<1>1. /\ r \in Seq(Nat) /\ s \in Seq(Frames) /\ s # <<>> /\ version \in Nat
      /\ received' = [received EXCEPT ![c] = Append(r, v)]
  BY DEF TypeOK, Receive
<1>2. Len(history) \in Nat /\ version <= Len(history)
  BY LenProperties DEF TypeOK, StreamsAreOrdered
<1>3. Head(s) = s[1] /\ 1 \in 1 .. Len(s) /\ Len(r) \in Nat /\ Len(s) \in Nat
  BY <1>1
<1>4. v \in Nat
  <2>1. s[1] \in Frames
    BY <1>1, <1>3, ElementOfSeq
  <2> QED
    BY <1>3, <2>1 DEF Frames
<1>5. /\ Stream(c) \in Seq(Nat) /\ Len(Stream(c)) = Len(r) + Len(s)
      /\ \A k \in 1 .. Len(r) + Len(s) :
           Stream(c)[k] = IF k <= Len(r) THEN r[k] ELSE Versions(s)[k - Len(r)]
  BY <1>1, ConcatVersions DEF Stream
<1>6. Versions(s)[1] = v
  BY <1>1, <1>3, VersionsType
<1> HIDE DEF v
<1>7. /\ Append(r, v) \in Seq(Nat) /\ Len(Append(r, v)) = Len(r) + 1
      /\ Append(r, v)[Len(r) + 1] = v
  BY <1>1, <1>4, AppendFacts, AppendProperties
<1> DEFINE k == Len(r) + 1
<1>8. /\ k \in 1 .. Len(r) + Len(s) /\ ~(k <= Len(r)) /\ k - Len(r) = 1
      /\ Len(r) > 0 => /\ k > 1 /\ k - 1 = Len(r) /\ Len(r) <= Len(r)
                       /\ Len(r) \in 1 .. Len(r) + Len(s)
                       /\ Len(r) \in 1 .. Len(r)
  <2> DEFINE m == Len(r)
             n == Len(s)
  <2>1. m \in Nat /\ n \in Nat /\ n >= 1
    BY <1>3
  <2> HIDE DEF m, n
  <2>2. m + 1 \in 1 .. m + n /\ ~(m + 1 <= m) /\ (m + 1) - m = 1
    BY <2>1
  <2>3. m > 0 => /\ m + 1 > 1 /\ (m + 1) - 1 = m /\ m <= m
                 /\ m \in 1 .. m + n /\ m \in 1 .. m
    BY <2>1
  <2> QED
    BY <2>2, <2>3 DEF m, n
<1>9. Stream(c)[k] = v
  BY <1>5, <1>6, <1>8
<1>10. v <= version
  BY <1>5, <1>8, <1>9 DEF StreamsAreOrdered
<1>11. LastReceived(c) <= v /\ LastReceived(c) \in Nat
  <2>1. CASE r = <<>>
    BY <1>4, <2>1 DEF LastReceived
  <2>2. CASE r # <<>>
    <3>1. Len(r) > 0
      BY <1>1, <2>2
    <3>2. Stream(c)[Len(r)] = r[Len(r)]
      <4> DEFINE m == Len(r)
      <4>1. m \in 1 .. Len(r) + Len(s) /\ m <= Len(r)
        BY <1>8, <3>1
      <4> HIDE DEF m
      <4>2. Stream(c)[m] = r[m]
        BY <1>5, <4>1
      <4> QED
        BY <4>2 DEF m
    <3>3. Stream(c)[k - 1] <= Stream(c)[k]
      BY <1>5, <1>8, <3>1 DEF StreamsAreOrdered
    <3>4. r[Len(r)] <= v
      BY <1>8, <1>9, <3>1, <3>2, <3>3
    <3>5. r[Len(r)] \in Nat
      BY <1>1, <1>8, <3>1, ElementOfSeq
    <3> QED
      BY <2>2, <3>4, <3>5 DEF LastReceived
  <2> QED
    BY <2>1, <2>2
<1>12. LastReceived(c)' = v
  <2>1. received'[c] = Append(r, v)
    BY <1>1 DEF TypeOK
  <2> DEFINE a == Append(r, v)
  <2>2. a # <<>> /\ a[Len(a)] = v
    BY <1>1, <1>7
  <2> HIDE DEF a
  <2>3. received'[c] = a
    BY <2>1 DEF a
  <2> QED
    BY <2>2, <2>3, Zenon DEF LastReceived
<1>13. ASSUME NEW d \in Clients, d # c PROVE LastReceived(d)' = LastReceived(d)
  <2>1. received'[d] = received[d]
    BY <1>1, <1>13 DEF TypeOK
  <2> QED
    BY <2>1 DEF LastReceived
<1>14. v \in LastReceived(c) .. Len(history)
  <2> DEFINE old == LastReceived(c)
             n == Len(history)
  <2>1. /\ n \in Nat /\ version <= n /\ v \in Nat /\ v <= version
        /\ version \in Nat /\ old \in Nat /\ old <= v
    BY <1>1, <1>2, <1>4, <1>10, <1>11
  <2> HIDE DEF old, n
  <2>2. v \in old .. n
    BY <2>1
  <2> QED
    BY <2>2 DEF old, n
<1> QED
  BY <1>12, <1>13, <1>14, Zenon

\* What the clients watch, as SharedCube sees it.
Views == [c \in Clients |-> LastReceived(c)]

(* An unlock is a change of the shared cube.                               *)
LEMMA UnlockChanges ==
  ASSUME CommandUnderWay, NEW c \in Clients, Unlock(c)
  PROVE  Shared!Change
<1>1. /\ listener_pc[c] = "unlock" /\ received' = received
      /\ history' = Append(history, global_cube_state)
  BY DEF Unlock, environment
<1>2. global_cube_state \in Shared!LegalMoves
  BY <1>1 DEF CommandUnderWay, CarriesOut
<1>3. Views' = Views
  BY <1>1 DEF Views, LastReceived
<1> QED
  BY <1>1, <1>2, <1>3, Zenon DEF Shared!Change, Views

(* To read a frame is to watch it.                                         *)
LEMMA ReceiveIsWatch ==
  ASSUME TypeOK, StreamsAreOrdered, NEW c \in Clients, Receive(c)
  PROVE  Shared!Watch(c)
<1>1. history' = history
  BY DEF Receive
<1>2. PICK v \in LastReceived(c) .. Len(history) : v = LastReceived(c)'
  BY ReceiveWatches
<1>3. Views' = [Views EXCEPT ![c] = v]
  BY <1>2, ReceiveWatches DEF Views
<1>4. Views[c] = LastReceived(c)
  BY DEF Views
<1>5. \E w \in Views[c] .. Len(history) : Views' = [Views EXCEPT ![c] = w]
  BY <1>2, <1>3, <1>4
<1> QED
  BY <1>1, <1>5, Zenon DEF Shared!Watch, Views

(* Every other step is invisible.                                          *)
LEMMA OthersAreInvisible ==
  ASSUME [Next]_vars, ~ \E c \in Clients : Unlock(c) \/ Receive(c)
  PROVE  history' = history /\ Views' = Views
<1>1. UNCHANGED <<history, received>>
  BY DEF Next, vars, environment, Accept, CreateListener, Listener, GetLine,
         Lock, DecodeRotate, DecodeShuffle, DecodeSolve, ShuffleTurn,
         CopyFace, Post, Send, Broadcast, SemWait, BroadcasterLock, Encode,
         BroadcasterUnlock, Write, NextServed
<1> QED
  BY <1>1 DEF Views, LastReceived

(* The inductive invariant of the refinement.                              *)
LEMMA RefinementInvariance == Spec => [](Inv /\ StreamInv /\ CommandUnderWay)
<1>1. Init => StreamInv /\ CommandUnderWay
  BY InitStreams, InitCommand DEF StreamInv
<1>2. Inv /\ StreamInv /\ [Next]_vars => StreamInv'
  BY NextAgree, NextOrdered DEF Inv, FrameInv, StreamInv
<1>3. Inv /\ CommandUnderWay /\ [Next]_vars => CommandUnderWay'
  BY NextCommand DEF Inv, FrameInv
<1>4. Spec => []Inv
  BY Invariance
<1> QED
  BY <1>1, <1>2, <1>3, <1>4, PTL DEF Spec

(* rubiks_server.c serves one cube: whatever the threads do in between,    *)
(* an unlock makes one legal move of the state before it, a client that    *)
(* reads goes forward in the history, and no other step can be seen.       *)
THEOREM ServerIsSharedCube == Spec => IsSharedCube
<1>1. Init => Shared!Init
  <2> SUFFICES ASSUME Init PROVE Shared!Init
    OBVIOUS
  <2>1. history = <<Shared!make_cube>>
    BY SameCube DEF Init
  <2>2. Views = [c \in Clients |-> 0]
    BY DEF Init, Views, LastReceived
  <2> QED
    BY <2>1, <2>2, Zenon DEF Shared!Init, Views
<1>2. Inv /\ StreamInv /\ CommandUnderWay /\ [Next]_vars
        => [Shared!Next]_<<history, Views>>
  <2> SUFFICES ASSUME Inv, StreamInv, CommandUnderWay, [Next]_vars
               PROVE  [Shared!Next]_<<history, Views>>
    OBVIOUS
  <2>0. TypeOK /\ StreamsAreOrdered
    BY DEF Inv, FrameInv, StreamInv
  <2>1. ASSUME NEW c \in Clients, Unlock(c) PROVE Shared!Next
    BY <2>1, UnlockChanges, Zenon DEF Shared!Next
  <2>2. ASSUME NEW c \in Clients, Receive(c) PROVE Shared!Next
    BY <2>0, <2>2, ReceiveIsWatch, Zenon DEF Shared!Next
  <2>3. ASSUME ~ \E c \in Clients : Unlock(c) \/ Receive(c)
        PROVE  UNCHANGED <<history, Views>>
    BY <2>3, OthersAreInvisible
  <2> QED
    BY <2>1, <2>2, <2>3
<1> QED
  BY <1>1, <1>2, RefinementInvariance, PTL
     DEF Spec, IsSharedCube, Shared!Spec, Views

=============================================================================
