------------------------------ MODULE Geometry ------------------------------
(***************************************************************************)
(* The stickers of a 3x3x3 block in space and how a quarter turn of one of *)
(* its layers moves them.  A sticker sits at a position of the block and   *)
(* faces along one of the six unit vectors.                                *)
(***************************************************************************)
EXTENDS Integers

Dot(u, v) == u[1] * v[1] + u[2] * v[2] + u[3] * v[3]

Cross(u, v) == <<u[2] * v[3] - u[3] * v[2],
                 u[3] * v[1] - u[1] * v[3],
                 u[1] * v[2] - u[2] * v[1]>>

Plus(u, v) == <<u[1] + v[1], u[2] + v[2], u[3] + v[3]>>
Times(k, v) == <<k * v[1], k * v[2], k * v[3]>>

Block == (-1 .. 1) \X (-1 .. 1) \X (-1 .. 1)
Sides == {n \in Block : Dot(n, n) = 1}
Places == {s \in Block \X Sides : Dot(s[1], s[2]) = 1}

\* A quarter turn of the vector v about the axis n, by the right-hand rule.
QuarterTurn(n, v) == Plus(Times(Dot(v, n), n), Cross(n, v))

\* Clockwise, as seen by somebody looking at side n, is against that rule; the
\* sticker that arrives at s comes from the place a quarter turn back.
ComesFrom(n, clockwise, s) ==
  LET axis == IF clockwise THEN n ELSE Times(-1, n)
  IN  IF Dot(s[1], n) = 1
      THEN <<QuarterTurn(axis, s[1]), QuarterTurn(axis, s[2])>>
      ELSE s

=============================================================================
