------------------------ MODULE MCRefreshJobRuntime ------------------------
(***************************************************************************)
(* RefreshJobRuntime for TLC.  Two resources of one worker loop are enough *)
(* for a cycle whose time is old when it reaches the second one, and a     *)
(* cycle may run longer than a lease or a back-off lasts, so leases that   *)
(* have run out before they are granted occur.  Two loops are alike, so    *)
(* the safety run of two workers may use their symmetry.                   *)
(***************************************************************************)
EXTENDS RefreshJobRuntime, TLC

WorkerSymmetry == Permutations(Workers)
=============================================================================
