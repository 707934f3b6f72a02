-------------------------- MODULE MCPaperSupervisor --------------------------
(* Constant values with which TLC checks PaperSupervisor.                  *)
EXTENDS PaperSupervisor

CONSTANTS r1

OneRequest == {r1}
=============================================================================
