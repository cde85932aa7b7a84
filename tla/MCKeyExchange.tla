--------------------------- MODULE MCKeyExchange ---------------------------
(***************************************************************************)
(* Two workers and a server with two descriptors, for TLC: one worker may  *)
(* spoil connections until the server runs out of them, under the other's  *)
(* request.                                                                *)
(***************************************************************************)
EXTENDS KeyExchange

CONSTANTS w1, w2
=============================================================================
