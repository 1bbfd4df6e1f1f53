--------------------------- MODULE MCRubiksServer ---------------------------
(* Values for the model checker: the server with a few clients. *)
EXTENDS RubiksServer

\* Turning the front, and the space bar.
TurnAndSpace ==
  {<<ZERO + FACE_FRONT, ZERO + 0, NEWLINE>>,
   <<ZERO + FACE_RIGHT, ZERO + 2, NEWLINE>>}

\* The same turn again and again.
OneTurn == {<<ZERO + FACE_FRONT, ZERO + 0, NEWLINE>>}

\* What rand_r picks when a shuffle is made of turns of the top face.
TopTurns == {<<FACE_TOP, 0>>, <<FACE_TOP, 1>>}
=============================================================================
