-------------------------- MODULE MCCopartSession --------------------------
(***************************************************************************)
(* CopartSession for TLC: a gateway configured with every optional path,   *)
(* and one with none: no challenge and no verification.                    *)
(***************************************************************************)
EXTENDS CopartSession

CopartConfigs == {{"challenge", "identity", "verify"}, {}}
=============================================================================
