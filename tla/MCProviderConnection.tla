------------------------ MODULE MCProviderConnection ------------------------
(***************************************************************************)
(* ProviderConnection for TLC.  Two operations make every race for one     *)
(* version, and two rotations a chain; a second login makes the race of a  *)
(* login against the operations of an earlier one.                         *)
(***************************************************************************)
EXTENDS ProviderConnection
=============================================================================
