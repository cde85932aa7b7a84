---------------------------- MODULE MCResultStore ----------------------------
(***************************************************************************)
(* A small result store for TLC: interchangeable threads and one RID, for  *)
(* what happens to one RID depends on no other.                            *)
(***************************************************************************)
EXTENDS ResultStore, TLC

Symmetry == Permutations(Thread)
=============================================================================
