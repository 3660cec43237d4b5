------------------------------- MODULE MCNode -------------------------------
(***************************************************************************)
(* Small instances of the node state machine for TLC.                      *)
(***************************************************************************)
EXTENDS NodeProperties, TLC

CONSTANTS
    b0, b1, b2,       \* boards
    j1, j2, j3, j4    \* JOIN nonces, compared with == only

\* The index a board is compiled with: sketches use 0, 1 and 2.
Boards2 == {b0, b1}
Boards3 == {b0, b1, b2}
NoneBooted == {}

Joins1 == {j1}
Joins2 == {j1, j2}
Joins3 == {j1, j2, j3}
Joins4 == {j1, j2, j3, j4}

\* JOIN nonces are interchangeable, and so are boards with one index.
Symmetry == Permutations(Joins4) \cup Permutations(Boards3)

Index01 == b0 :> 0 @@ b1 :> 1
Index012 == b0 :> 0 @@ b1 :> 1 @@ b2 :> 2
Index111 == b0 :> 1 @@ b1 :> 1 @@ b2 :> 1
Index001 == b0 :> 0 @@ b1 :> 0 @@ b2 :> 1
Index00 == b0 :> 0 @@ b1 :> 0
=============================================================================
