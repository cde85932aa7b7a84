----------------------- MODULE MCTargetBoundDispatch -----------------------
(***************************************************************************)
(* Two containers and two activations for TLC, one container with two      *)
(* pulls and one with a single one; the calls that fail are bounded.       *)
(***************************************************************************)
EXTENDS TargetBoundDispatch

CONSTANTS c1, c2

MCPull == {<<c1, 1>>, <<c1, 2>>, <<c2, 1>>}
MCCorrelation == 0..Activations
=============================================================================
