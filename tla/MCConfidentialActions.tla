----------------------- MODULE MCConfidentialActions -----------------------
(***************************************************************************)
(* Two interchangeable clients of one function and interchangeable         *)
(* executions, for TLC: a duplicate of one request can race with the other *)
(* request.                                                                *)
(***************************************************************************)
EXTENDS ConfidentialActions, TLC

CONSTANT f

MCThread == Execution \cup Client
MCFidOf == [c \in Client |-> f]
MCRid == [fid : FID, c_req : Client]
Symmetry == Permutations(Execution) \cup Permutations(Client)
=============================================================================
