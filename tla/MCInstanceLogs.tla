--------------------------- MODULE MCInstanceLogs ---------------------------
(* Values of the constants of InstanceLogs for the model checker.          *)
EXTENDS InstanceLogs

CONSTANTS in, out

MCSymmetry == Permutations({in, out})
=============================================================================
