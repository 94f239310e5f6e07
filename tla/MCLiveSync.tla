----------------------------- MODULE MCLiveSync -----------------------------
(***************************************************************************)
(* LiveSync for TLC with one setting, the stale window of 1 or 2; 3 is     *)
(* what an earlier release allowed.                                        *)
(***************************************************************************)
EXTENDS LiveSync, TLC

MCTypeOf == [k \in Keys |-> "integer"]
MCLow == [k \in Keys |-> 1]
MCHigh == [k \in Keys |-> 2]
MCDefault == [k \in Keys |-> {1}]
MCRaws == {[type |-> "integer", items |-> {n}] : n \in {2, 3}}
=============================================================================
