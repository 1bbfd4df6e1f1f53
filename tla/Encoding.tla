------------------------------ MODULE Encoding ------------------------------
(***************************************************************************)
(* The wire format of src/server/encoding.c: a cube is a line of 54        *)
(* digits, a newline and a terminating NUL.  Characters are their codes.   *)
(***************************************************************************)
EXTENDS RubiksCube

N_CHARACTERS_TO_ENCODE_CUBE == 56
NUL == 0
NEWLINE == 10
ZERO == 48

Positions == 0 .. N_CHARACTERS_TO_ENCODE_CUBE - 1
Buffers == [Positions -> 0 .. 255]

\* A buffer nobody has written to yet.
EmptyBuffer == [k \in Positions |-> NUL]

\* One round of the outer loop of encode: the nine digits of face i.
EncodeFace(buffer, c, i) ==
  [k \in Positions |-> IF k \div N_SQUARES_PER_FACE = i
                       THEN ZERO + c[i][k % N_SQUARES_PER_FACE]
                       ELSE buffer[k]]

\* The two characters that encode writes after the loop.
Terminate(buffer) ==
  [buffer EXCEPT ![N_CHARACTERS_TO_ENCODE_CUBE - 2] = NEWLINE,
                 ![N_CHARACTERS_TO_ENCODE_CUBE - 1] = NUL]

decode(line) ==
  [i \in Faces |-> [j \in Squares |-> line[i * N_SQUARES_PER_FACE + j] - ZERO]]

\* A buffer is the line of a cube: it decodes to the cube, and a reader that
\* cuts its input at newlines finds exactly one, behind the last digit.
Spells(text, cube) ==
  /\ decode(text) = cube
  /\ \A k \in Positions :
       text[k] = NEWLINE <=> k = N_CHARACTERS_TO_ENCODE_CUBE - 2

=============================================================================
