---------------------------- MODULE PushPromise ----------------------------
(***************************************************************************)
(* What NotificationService promises its callers: each event reaches each  *)
(* device once, and once more at most for each thing that went wrong       *)
(* between a delivery and the record of it.                                *)
(***************************************************************************)
EXTENDS Naturals

CONSTANTS Events, Devices

VARIABLES
  got,       \* got[e, d]: how often device d showed event e
  troubles   \* what went wrong so far

Init ==
  /\ got = [x \in Events \X Devices |-> 0]
  /\ troubles = 0

Trouble == troubles' = troubles + 1

Deliver(x) ==
  /\ got[x] <= troubles
  /\ got' = [got EXCEPT ![x] = @ + 1]
  /\ Trouble \/ UNCHANGED troubles

Next ==
  \/ \E x \in Events \X Devices : Deliver(x)
  \/ Trouble /\ UNCHANGED got

Spec == Init /\ [][Next]_<<got, troubles>>
=============================================================================
