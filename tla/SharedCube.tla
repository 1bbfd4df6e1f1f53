----------------------------- MODULE SharedCube -----------------------------
(***************************************************************************)
(* What the server promises its users: there is one cube.  Commands change *)
(* it one after the other, each by a legal move; every client watches the  *)
(* cube, perhaps late and perhaps missing states, but never going back.    *)
(***************************************************************************)
EXTENDS RubiksCube

CONSTANTS Clients, MIN_DEPTH, MAX_DEPTH, RandomTurns

VARIABLES
  log,   \* the states of the cube, oldest first
  view   \* for each client, the index in log of the state it saw last, or 0

\* The cubes that one random turn more leads to.
OneTurnMore(cubes) ==
  {rotate(c, t[1], t[2]) : c \in cubes, t \in RandomTurns}

\* The cubes that n random turns of a solved cube can lead to.
Shuffled[n \in 0 .. MAX_DEPTH] ==
  IF n = 0 THEN {make_cube} ELSE OneTurnMore(Shuffled[n - 1])

Init ==
  /\ log = <<make_cube>>
  /\ view = [c \in Clients |-> 0]

Current == log[Len(log)]

LegalMoves ==
  {rotate(Current, f, d) : f \in Faces, d \in Directions}
    \cup (IF is_solved(Current)
          THEN UNION {Shuffled[n] : n \in MIN_DEPTH .. MAX_DEPTH}
          ELSE {make_cube})

Change ==
  /\ \E cube \in LegalMoves : log' = Append(log, cube)
  /\ UNCHANGED view

Watch(c) ==
  /\ \E v \in view[c] .. Len(log) : view' = [view EXCEPT ![c] = v]
  /\ UNCHANGED log

Next == Change \/ \E c \in Clients : Watch(c)

Spec == Init /\ [][Next]_<<log, view>>

=============================================================================
