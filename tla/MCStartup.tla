------------------------------- MODULE MCStartup -------------------------------
(* Startup for TLC: sizes in range, at its edges and past them. *)
EXTENDS Startup

MCInts == {-17, 0, 7, 8, 18}
================================================================================
