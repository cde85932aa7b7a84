---------------------------- MODULE MCKmsServer ----------------------------
(***************************************************************************)
(* A few KMS processes for TLC, interchangeable: the first to generate a   *)
(* secret, one that races it, and one that comes later.                    *)
(***************************************************************************)
EXTENDS KmsServer, TLC

CONSTANTS p1, p2, p3

Symmetry == Permutations(Proc)
=============================================================================
