--------------------------- MODULE MCRubiksClient ---------------------------
(* Values for the model checker: a cube of two faces with two squares each, *)
(* and two cubes to send that differ from each other in every square.      *)
EXTENDS RubiksClient

TwoColors == {0, 1}

Solved == [f \in Faces |-> [s \in Squares |-> f]]

Inverted == [f \in Faces |-> [s \in Squares |-> 1 - f]]

TwoCubes == {Inverted, Solved}

OneCube == {Inverted}
=============================================================================
