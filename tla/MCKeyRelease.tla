---------------------------- MODULE MCKeyRelease ----------------------------
(***************************************************************************)
(* Lengths around every limit: the longest FID with a BF-IBE release and   *)
(* the next, that of a digest, the longest that fits the registry and the  *)
(* next; the label of the SDK and one that does not fit.  In               *)
(* KeyReleaseDigest.cfg the FID is the one the SDK makes.                  *)
(***************************************************************************)
EXTENDS KeyRelease

MCBinding == FID \X Label
=============================================================================
