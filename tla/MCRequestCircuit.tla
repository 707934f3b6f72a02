--------------------------- MODULE MCRequestCircuit ---------------------------
(* Values for model checking RequestCircuit.                               *)
EXTENDS RequestCircuit

CONSTANTS w1, w2, w3

ThreeWorkers == {w1, w2, w3}
=============================================================================
