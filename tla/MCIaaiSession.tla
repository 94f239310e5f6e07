--------------------------- MODULE MCIaaiSession ---------------------------
(***************************************************************************)
(* IaaiSession for TLC: two interchangeable operations.                    *)
(***************************************************************************)
EXTENDS IaaiSession, TLC

CONSTANTS c1, c2

IaaiCalls == {c1, c2}
Symmetry == Permutations(IaaiCalls)
=============================================================================
