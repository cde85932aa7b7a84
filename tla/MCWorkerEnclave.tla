--------------------------- MODULE MCWorkerEnclave ---------------------------
(***************************************************************************)
(* A small worker enclave for TLC: FID fA with two packages, of which one  *)
(* is bound, and FID fB with one that hides the same code; requests with a *)
(* payload, and one without KEM and without payload.  The first package of *)
(* fA has every kind of C_k_func: for its label under both profiles, for   *)
(* the FID, and for a locally derived label key.                           *)
(***************************************************************************)
EXTENDS WorkerEnclave

CONSTANTS fA, fB, code1, code2, s1, s2

Pkg(f, c) == [fid |-> f, code |-> c]
Req(f, s) == [fid |-> f, sender |-> s, empty |-> FALSE]
EmptyReq(f) == [fid |-> f, sender |-> NoSender, empty |-> TRUE]
A1 == Pkg(fA, code1)
A2 == Pkg(fA, code2)
B1 == Pkg(fB, code1)

MCFunc == {A1, A2, B1}
MCRequest == {Req(fA, s1), Req(fA, s2), Req(fB, s1), EmptyReq(fB)}
MCBound == {<<fA, A1>>, <<fB, B1>>}
ForFunc(p, c, i, local) == [profile |-> p, func |-> c, to |-> i, local |-> local]
MCFuncKey ==
  {ForFunc("eccibe", A1, A1, FALSE), ForFunc("eccibe", A1, fA, TRUE),
   ForFunc("bfibe", A1, A1, FALSE), ForFunc("bfibe", A1, fA, FALSE),
   ForFunc("eccibe", B1, B1, FALSE)}
ForReq(p, r, i) == [profile |-> p, req |-> r, to |-> i]
MCReqKey ==
  {ForReq("eccibe", Req(fA, s1), fA), ForReq("bfibe", Req(fA, s1), fA),
   ForReq("bfibe", Req(fA, s1), A1), ForReq("eccibe", Req(fA, s2), fA),
   ForReq("eccibe", Req(fB, s1), fB)}

\* A host that names any FID for any key, and one that names each key's own.
MCLoads == [key : Released, label : Released, fid : FID]
HonestLoads == {[key |-> b[1], label |-> b[2], fid |-> b[1]] : b \in Bound}
=============================================================================
