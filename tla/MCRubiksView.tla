---------------------------- MODULE MCRubiksView ----------------------------
(* Values for the model checker: the program for a single device. *)
EXTENDS RubiksView
=============================================================================
