---------------------------- MODULE RefreshGate ----------------------------
(***************************************************************************)
(* What the per-resource refresh runtime promises to the rest of CarTrap   *)
(* (README, "Reliability Model"): a resource is free, busy with one run,   *)
(* or cooling down after a retryable failure.  A run starts only on a free *)
(* resource, or once the deadline of the busy or cooling period has        *)
(* passed; an outcome is recorded only for a busy resource.                *)
(*                                                                         *)
(* Deadlines are kept relative to the clock: left[j] is the time until the *)
(* current period of j may be cut short, and LongPast stands for every     *)
(* deadline that no caller can still be waiting for.                       *)
(***************************************************************************)
EXTENDS Integers

CONSTANTS
  Jobs,       \* execution keys, one per tracked lot or saved search
  Lease,      \* the longest time a run may keep a resource to itself
  Backoff,    \* the longest pause after a retryable failure
  LongPast    \* how far behind the clock a deadline is still told apart

VARIABLES
  gate,       \* gate[j]: "free", "busy" or "cooling"
  left        \* left[j]: time until a busy or cooling period may be cut short

vars == <<gate, left>>

Init ==
  /\ gate = [j \in Jobs |-> "free"]
  /\ left = [j \in Jobs |-> -LongPast]

\* A run of j starts; the lease it is given never exceeds Lease.
Start(j) ==
  /\ gate[j] = "free" \/ left[j] <= 0
  /\ gate' = [gate EXCEPT ![j] = "busy"]
  /\ \E t \in -LongPast..Lease : left' = [left EXCEPT ![j] = t]

\* The run of j ends for good: the resource is free at once.
Finish(j) ==
  /\ gate[j] = "busy"
  /\ gate' = [gate EXCEPT ![j] = "free"]
  /\ left' = [left EXCEPT ![j] = -LongPast]

\* The run of j ends with a retryable failure: the resource cools down.
BackOff(j) ==
  /\ gate[j] = "busy"
  /\ gate' = [gate EXCEPT ![j] = "cooling"]
  /\ \E t \in -LongPast..Backoff : left' = [left EXCEPT ![j] = t]

\* One unit of time passes; no deadline is pushed away by it.
Pass ==
  /\ left' = [j \in Jobs |-> IF left[j] > -LongPast THEN left[j] - 1 ELSE left[j]]
  /\ UNCHANGED gate

Next == Pass \/ \E j \in Jobs : Start(j) \/ Finish(j) \/ BackOff(j)

Spec == Init /\ [][Next]_vars
=============================================================================
