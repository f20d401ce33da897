---------------------------- MODULE MCExecution ----------------------------
(* Model-checking instance of Execution: requests and executions are         *)
(* interchangeable, so runs without liveness properties use the symmetry.    *)
EXTENDS Execution, TLC

Symmetry == Permutations(Requests) \cup Permutations(Executions)
=============================================================================
