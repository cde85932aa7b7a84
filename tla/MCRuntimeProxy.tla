--------------------------- MODULE MCRuntimeProxy ---------------------------
(***************************************************************************)
(* A small runtime adapter for TLC: a request that names no profile, one   *)
(* of the other profile and a further one of the default profile, at most  *)
(* two at once.  Of the five files there are the first one written, the    *)
(* one that stays and the last.                                            *)
(***************************************************************************)
EXTENDS RuntimeProxy

CONSTANTS r1, r2, r3, p1, p2

MCProfileOf == [r \in Req |-> IF r = r1 THEN None ELSE IF r = r2 THEN p2 ELSE p1]
MCFiles == <<"input", "ckfunc", "nonce">>
=============================================================================
