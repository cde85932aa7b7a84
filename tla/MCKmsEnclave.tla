---------------------------- MODULE MCKmsEnclave ----------------------------
(***************************************************************************)
(* A small KMS enclave for TLC: an ordinary FID, one too long for its      *)
(* field that strncpy cuts down to the ordinary one, and default_fid; a    *)
(* label and one too long that is cut down to it.                          *)
(***************************************************************************)
EXTENDS KmsEnclave, TLC

CONSTANTS fShort, fLong, lShort, lLong

MCKeptFid == [f \in FID |-> IF f = fLong THEN fShort ELSE f]
MCKeptLabel == [l \in Label |-> IF l = lLong THEN lShort ELSE l]

Symmetry == Permutations(MRE) \cup Permutations(PK)
=============================================================================
