---------------------------- MODULE MCOrderService ----------------------------
(***************************************************************************)
(* OrderService for TLC.  Handlers, order ids and users are model values   *)
(* that no definition tells apart: permuting them is sound for invariants. *)
(***************************************************************************)
EXTENDS OrderService, TLC

Symmetry ==
  Permutations(Handlers) \cup Permutations(OrderIds) \cup Permutations(Users)
================================================================================
