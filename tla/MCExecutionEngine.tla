-------------------------- MODULE MCExecutionEngine --------------------------
(* Constant values with which TLC checks ExecutionEngine.                  *)
EXTENDS ExecutionEngine

CONSTANT o1

OneOrder == {o1}
=============================================================================
