----------------------------- MODULE MCMigrations -----------------------------
(* Migrations for TLC; replicas are interchangeable. *)
EXTENDS Migrations, TLC

Symmetry == Permutations(Replicas)
================================================================================
