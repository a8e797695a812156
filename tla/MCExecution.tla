----------------------------- MODULE MCExecution -----------------------------
(* Instances of Execution for TLC: task and control ids are model values,  *)
(* interchangeable in the safety runs.                                     *)
EXTENDS Execution, TLC

Symmetry == Permutations(Tasks) \cup Permutations(Controls)
              \cup Permutations(Nodes)
=============================================================================
