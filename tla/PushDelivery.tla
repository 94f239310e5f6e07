---------------------------- MODULE PushDelivery ----------------------------
(***************************************************************************)
(* Web push (modules/notifications): the push_subscriptions of one owner,  *)
(* the push_delivery_receipts and _send_payload_to_owner, which loads the  *)
(* subscriptions once and then takes them one by one: receipt there        *)
(* already, sent and recorded, failed, or gone and removed.                *)
(*                                                                         *)
(* Two senders run at once: the worker, whose events have a dedupe key,    *)
(* and the owner's test notification, which has none.  An endpoint stands  *)
(* for a device; the push service may forget it for good.  An event is     *)
(* whatever makes a dedupe key different (lot and snapshot, search and new *)
(* lots, sale date and offset).                                            *)
(***************************************************************************)
EXTENDS Naturals

CONSTANTS
  Events,        \* what the worker may have to tell
  Devices,       \* the endpoints of the owner
  Test,          \* the payload of a test notification
  MaxInserts,    \* bound: the last _id of a subscription
  MaxTroubles,   \* bound: what goes wrong
  MaxChurn       \* bound: what happens besides

ASSUME DeliveryAssumption ==
  /\ Test \notin Events
  /\ MaxInserts \in Nat \ {0}
  /\ MaxTroubles \in Nat
  /\ MaxChurn \in Nat

VARIABLES
  subs,          \* subs[d]: _id of the subscription of d, 0 if there is none
  inserted,      \* the last _id given; the first subscriptions have 1
  alive,         \* the endpoints the push service knows
  receipts,      \* the delivery receipts
  sender,        \* sender[s]: a run of _send_payload_to_owner
  got,           \* got[e, d]: how often device d showed event e
  troubles,      \* deliveries that were cut off, failed or left without a receipt
  churn          \* what happened besides so far

pushVars == <<subs, inserted, alive, receipts, sender, got, troubles, churn>>

Senders == {"worker", "test"}
NoDevice == [device |-> Test, id |-> 0]
Resting == [pc |-> "idle", event |-> Test, left |-> {}, at |-> NoDevice]

PushInit ==
  /\ subs \in [Devices -> {0, 1}]
  /\ inserted = 1
  /\ alive = Devices
  /\ receipts = {}
  /\ sender = [s \in Senders |-> Resting]
  /\ got = [x \in Events \X Devices |-> 0]
  /\ troubles = 0
  /\ churn = 0

----------------------------------------------------------------------------
(* The owner's devices.                                                    *)

Churn ==
  /\ churn < MaxChurn
  /\ churn' = churn + 1

\* upsert_subscription: a known endpoint keeps its document.
Subscribe(d) ==
  /\ subs[d] = 0
  /\ inserted < MaxInserts
  /\ Churn
  /\ inserted' = inserted + 1
  /\ subs' = [subs EXCEPT ![d] = inserted']
  /\ UNCHANGED <<alive, receipts, sender, got, troubles>>

\* unsubscribe; 404 when there is nothing to delete.
Unsubscribe(d) ==
  /\ subs[d] # 0
  /\ Churn
  /\ subs' = [subs EXCEPT ![d] = 0]
  /\ UNCHANGED <<inserted, alive, receipts, sender, got, troubles>>

EndpointExpires(d) ==
  /\ d \in alive
  /\ Churn
  /\ alive' = alive \ {d}
  /\ UNCHANGED <<subs, inserted, receipts, sender, got, troubles>>

----------------------------------------------------------------------------
(* _send_payload_to_owner.                                                 *)

Load(s, e) ==
  /\ sender[s].pc = "idle"
  /\ sender' = [sender EXCEPT ![s] =
       [pc |-> "next", event |-> e, at |-> NoDevice,
        left |-> {[device |-> d, id |-> subs[d]] : d \in {x \in Devices : subs[x] # 0}}]]

\* The worker's events carry a dedupe key.
SendEvent(e) ==
  /\ Load("worker", e)
  /\ UNCHANGED <<subs, inserted, alive, receipts, got, troubles, churn>>

SendTest ==
  /\ Churn
  /\ Load("test", Test)
  /\ UNCHANGED <<subs, inserted, alive, receipts, got, troubles>>

\* Mutated form: the receipt is not looked for.
ToldNothing(e, d) == FALSE

\* The receipt has the dedupe key of the event and the endpoint.
Told(e, d) == <<e, d>> \in receipts

GoOn(s, sub) ==
  sender' = [sender EXCEPT ![s] = [pc |-> "next", event |-> sender[s].event,
                                   at |-> NoDevice, left |-> sender[s].left \ {sub}]]
Handle(s, sub, pc) ==
  sender' = [sender EXCEPT ![s] = [pc |-> pc, event |-> sender[s].event, at |-> sub,
                                   left |-> sender[s].left \ {sub}]]

SkipDuplicate(s, sub) ==
  /\ sender[s].pc = "next"
  /\ sub \in sender[s].left
  /\ Told(sender[s].event, sub.device)
  /\ GoOn(s, sub)
  /\ UNCHANGED <<subs, inserted, alive, receipts, got, troubles, churn>>

ToSend(s, sub) ==
  /\ sender[s].pc = "next"
  /\ sub \in sender[s].left
  /\ ~Told(sender[s].event, sub.device)

Shown(e, d) == IF e = Test THEN got ELSE [got EXCEPT ![<<e, d>>] = @ + 1]

\* A test notification leaves no receipt.
Send(s, sub) ==
  /\ ToSend(s, sub)
  /\ sub.device \in alive
  /\ got' = Shown(sender[s].event, sub.device)
  /\ IF sender[s].event = Test THEN GoOn(s, sub) ELSE Handle(s, sub, "receipt")
  /\ UNCHANGED <<subs, inserted, alive, receipts, troubles, churn>>

\* Any other failure; the push service may have taken the message all the same.
SendFails(s, sub) ==
  /\ ToSend(s, sub)
  /\ sender[s].event # Test
  /\ troubles < MaxTroubles
  /\ troubles' = troubles + 1
  /\ \/ UNCHANGED got
     \/ sub.device \in alive /\ got' = Shown(sender[s].event, sub.device)
  /\ GoOn(s, sub)
  /\ UNCHANGED <<subs, inserted, alive, receipts, churn>>

\* 404 or 410 from the push service.
EndpointGone(s, sub) ==
  /\ ToSend(s, sub)
  /\ sub.device \notin alive
  /\ Handle(s, sub, "remove")
  /\ UNCHANGED <<subs, inserted, alive, receipts, got, troubles, churn>>

\* Mutated form: a receipt that swaps event and device.
CreateReceiptOf(s) ==
  /\ sender[s].pc = "receipt"
  /\ receipts' = receipts \cup {<<sender[s].at.device, sender[s].event>>}
  /\ GoOn(s, sender[s].at)
  /\ UNCHANGED <<subs, inserted, alive, got, troubles, churn>>

CreateReceipt(s) ==
  /\ sender[s].pc = "receipt"
  /\ receipts' = receipts \cup {<<sender[s].event, sender[s].at.device>>}
  /\ GoOn(s, sender[s].at)
  /\ UNCHANGED <<subs, inserted, alive, got, troubles, churn>>

\* An exception of the write counts as a failed delivery.
ReceiptFails(s) ==
  /\ sender[s].pc = "receipt"
  /\ troubles < MaxTroubles
  /\ troubles' = troubles + 1
  /\ GoOn(s, sender[s].at)
  /\ UNCHANGED <<subs, inserted, alive, receipts, got, churn>>

\* delete_subscription_by_id: the document the sender has loaded, no later one.
RemoveSubscription(s) ==
  /\ sender[s].pc = "remove"
  /\ LET sub == sender[s].at IN
     subs' = IF subs[sub.device] = sub.id THEN [subs EXCEPT ![sub.device] = 0] ELSE subs
  /\ GoOn(s, sender[s].at)
  /\ UNCHANGED <<inserted, alive, receipts, got, troubles, churn>>

Finish(s) ==
  /\ sender[s].pc = "next"
  /\ sender[s].left = {}
  /\ sender' = [sender EXCEPT ![s] = Resting]
  /\ UNCHANGED <<subs, inserted, alive, receipts, got, troubles, churn>>

\* The process is cut off.
CutOff(s) ==
  /\ sender[s].pc # "idle"
  /\ troubles < MaxTroubles
  /\ troubles' = troubles + 1
  /\ sender' = [sender EXCEPT ![s] = Resting]
  /\ UNCHANGED <<subs, inserted, alive, receipts, got, churn>>

----------------------------------------------------------------------------
DeliveryStep(s) ==
  \/ \E sub \in sender[s].left :
       SkipDuplicate(s, sub) \/ Send(s, sub) \/ SendFails(s, sub) \/ EndpointGone(s, sub)
  \/ CreateReceipt(s) \/ ReceiptFails(s) \/ RemoveSubscription(s)

DeviceStep ==
  \/ \E d \in Devices : Subscribe(d) \/ Unsubscribe(d) \/ EndpointExpires(d)
  \/ SendTest

PushNext ==
  \/ DeviceStep
  \/ \E e \in Events : SendEvent(e)
  \/ \E s \in Senders : DeliveryStep(s) \/ Finish(s) \/ CutOff(s)

PushSpec == PushInit /\ [][PushNext]_pushVars

----------------------------------------------------------------------------
Subscriptions == [device : Devices, id : Nat \ {0}]

\* Documents and senders stay well formed.
PushTypeOK ==
  /\ subs \in [Devices -> Nat]
  /\ inserted \in 1..MaxInserts
  /\ alive \subseteq Devices
  /\ receipts \subseteq Events \X Devices
  /\ \A s \in Senders :
       /\ sender[s].pc \in {"idle", "next", "receipt", "remove"}
       /\ sender[s].event \in Events \cup {Test}
       /\ sender[s].left \subseteq Subscriptions
       /\ sender[s].pc \in {"receipt", "remove"} => sender[s].at \in Subscriptions
  /\ got \in [Events \X Devices -> Nat]
  /\ troubles \in 0..MaxTroubles
  /\ churn \in 0..MaxChurn

Promise == INSTANCE PushPromise

\* "preserve single-delivery semantics ... when retries or duplicate execution
\* attempts occur" (docs/plans/20260321-operational-reliability-spine.md): however
\* often an event is handed over, a device shows it once, and once more at most for
\* each delivery that was cut off or left without its receipt.
OncePerDevice == Promise!Spec
=============================================================================
