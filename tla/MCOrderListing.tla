---------------------------- MODULE MCOrderListing ----------------------------
(***************************************************************************)
(* OrderListing for TLC.  Orders and users are interchangeable.  The sizes *)
(* of the requests reach from none to past the maximum.  The pages are one *)
(* that is taken for page 1, the one after it, and one whose offset wraps: *)
(* to a negative number for some sizes and to a small one for others.      *)
(***************************************************************************)
EXTENDS OrderListing, TLC

Symmetry == Permutations(OrderIds) \cup Permutations(Users)
FewPages == {0, 2, 12}
AllSizes == {0, 2, 3, 4}
================================================================================
