--------------------------- MODULE MCServiceRuntime ---------------------------
(* ServiceRuntime for TLC; handlers are interchangeable. *)
EXTENDS ServiceRuntime, TLC

Symmetry == Permutations(Handlers)
================================================================================
