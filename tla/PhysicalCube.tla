---------------------------- MODULE PhysicalCube ----------------------------
(***************************************************************************)
(* What a Rubik's cube is, without face numbers or tables: a block whose   *)
(* outer layers can be turned by a quarter, carrying the stickers of the   *)
(* layer along.  The colour of a sticker is named by the direction it      *)
(* faces on the solved cube.                                               *)
(***************************************************************************)
EXTENDS Geometry

VARIABLE paint

Solved == [s \in Places |-> s[2]]

Init == paint = Solved

Turned(p, n, clockwise) ==
  [s \in Places |-> p[ComesFrom(n, clockwise, s)]]

Turn(n, clockwise) == paint' = Turned(paint, n, clockwise)

\* Taking the cube apart and assembling it solved.
Solve == paint' = Solved

Next == \/ \E n \in Sides, clockwise \in BOOLEAN : Turn(n, clockwise)
        \/ Solve

Spec == Init /\ [][Next]_paint

=============================================================================
