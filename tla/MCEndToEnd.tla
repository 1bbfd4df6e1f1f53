----------------------------- MODULE MCEndToEnd -----------------------------
(* Values for the model checker: a cube of two faces with one square each. *)
EXTENDS EndToEnd

TwoColors == {0, 1}

Solved == [f \in Faces |-> [s \in Squares |-> f]]

AllCubes == Cubes

\* One turn changes the colour of its face, the other exchanges the faces, so
\* that turns do not commute.
Turn(cube, f, d) ==
  IF d = 0 THEN [cube EXCEPT ![f][0] = 1 - cube[f][0]]
  ELSE [cube EXCEPT ![f] = cube[1 - f], ![1 - f] = cube[f]]

OneTurn == {Turn(Solved, 0, 0)}
=============================================================================
