----------------------- MODULE AuctionRemindersProofs -----------------------
(***************************************************************************)
(* Proofs for any number of events, devices and failures: PushDelivery     *)
(* implements PushPromise, on its own and beneath AuctionReminders, and    *)
(* what AuctionReminders stores as sent has been shown.                    *)
(***************************************************************************)
EXTENDS AuctionReminders, TLAPS

Subscribed == [device : Devices, id : Nat]

SenderStates ==
  [pc : {"idle", "next", "receipt", "remove"}, event : Events \cup {Test},
   left : SUBSET Subscribed, at : Subscribed \cup {NoDevice}]

SendersTyped ==
  /\ sender \in [Senders -> SenderStates]
  /\ sender["test"].event = Test
  /\ \A s \in Senders :
       sender[s].pc \in {"receipt", "remove"} => sender[s].at \in Subscribed

\* The worker has delivered e to d and has not recorded it yet.
Unrecorded(e, d) ==
  /\ sender["worker"].pc = "receipt"
  /\ sender["worker"].event = e
  /\ sender["worker"].at.device = d

Recorded(e, d) == Told(e, d) \/ Unrecorded(e, d)

\* One delivery too many for each trouble, and one more only with its record.
Counted ==
  \A e \in Events, d \in Devices :
    /\ got[<<e, d>>] <= troubles + 1
    /\ ~Recorded(e, d) => got[<<e, d>>] <= troubles

DInv ==
  /\ subs \in [Devices -> Nat]
  /\ troubles \in Nat /\ inserted \in Nat
  /\ got \in [Events \X Devices -> Nat]
  /\ SendersTyped
  /\ Counted

Promised == [Promise!Next]_<<got, troubles>>

LEMMA RestingTyped ==
  Resting \in SenderStates /\ Resting.pc = "idle" /\ Resting.event = Test
  BY DEF Resting, SenderStates, NoDevice

LEMMA SendersMove ==
  ASSUME SendersTyped, NEW s \in Senders, NEW q \in SenderStates,
         sender' = [sender EXCEPT ![s] = q], s = "test" => q.event = Test,
         q.pc \in {"receipt", "remove"} => q.at \in Subscribed
  PROVE  SendersTyped'
  BY DEF SendersTyped, Senders

\* Nothing is shown; a delivery that loses its record is a trouble.
LEMMA CountKept ==
  ASSUME DInv, got' = got,
         \/ troubles' = troubles + 1
         \/ /\ troubles' = troubles
            /\ \A e \in Events, d \in Devices : Recorded(e, d) => Recorded(e, d)'
  PROVE  Counted' /\ troubles' \in Nat /\ Promised
<1>1. \A e \in Events, d \in Devices : got[<<e, d>>] \in Nat
  BY DEF DInv
<1>2. Counted'
  <2>1. ASSUME NEW e \in Events, NEW d \in Devices
        PROVE  /\ got[<<e, d>>] <= troubles' + 1
               /\ ~Recorded(e, d)' => got[<<e, d>>] <= troubles'
    <3>1. /\ got[<<e, d>>] <= troubles + 1
          /\ ~Recorded(e, d) => got[<<e, d>>] <= troubles
      BY DEF DInv, Counted
    <3>2. got[<<e, d>>] \in Nat /\ troubles \in Nat
      BY <1>1 DEF DInv
    <3>3. QED
      BY <3>1, <3>2
  <2>2. QED
    BY <2>1 DEF Counted
<1>3. Promised
  BY DEF Promised, Promise!Next, Promise!Trouble
<1>4. QED
  BY <1>2, <1>3 DEF DInv

LEMMA RecordsStay ==
  ASSUME receipts \subseteq receipts', sender'["worker"] = sender["worker"]
  PROVE  \A e \in Events, d \in Devices : Recorded(e, d) => Recorded(e, d)'
  BY DEF Recorded, Told, Unrecorded

LEMMA NothingPending ==
  ASSUME receipts \subseteq receipts', sender["worker"].pc # "receipt"
  PROVE  \A e \in Events, d \in Devices : Recorded(e, d) => Recorded(e, d)'
  BY DEF Recorded, Told, Unrecorded

\* A step of a sender that shows nothing and was not about to record anything.
LEMMA QuietStep ==
  ASSUME DInv, NEW s \in Senders, NEW q \in SenderStates,
         sender' = [sender EXCEPT ![s] = q], s = "test" => q.event = Test,
         q.pc \in {"receipt", "remove"} => q.at \in Subscribed,
         UNCHANGED <<inserted, receipts, got>>, subs' \in [Devices -> Nat],
         \/ troubles' = troubles + 1
         \/ troubles' = troubles /\ sender[s].pc # "receipt"
  PROVE  DInv' /\ Promised
<1>1. SendersTyped'
  BY SendersMove DEF DInv
<1>2. \/ troubles' = troubles + 1
      \/ /\ troubles' = troubles
         /\ \A e \in Events, d \in Devices : Recorded(e, d) => Recorded(e, d)'
  <2>1. CASE s = "worker"
    BY <2>1, NothingPending
  <2>2. CASE s = "test"
    <3>1. sender'["worker"] = sender["worker"]
      BY <2>2 DEF DInv, SendersTyped, Senders
    <3>2. QED
      BY <3>1, RecordsStay
  <2>3. QED
    BY <2>1, <2>2 DEF Senders
<1>3. Counted' /\ troubles' \in Nat /\ Promised
  BY <1>2, CountKept
<1>4. QED
  BY <1>1, <1>3 DEF DInv

\* Steps that leave the senders alone as well.
LEMMA DevicesOnly ==
  ASSUME DInv, UNCHANGED <<sender, receipts, got, troubles>>,
         subs' \in [Devices -> Nat], inserted' \in Nat
  PROVE  DInv' /\ Promised
<1>1. Counted' /\ Promised
  BY RecordsStay, CountKept
<1>2. QED
  BY <1>1 DEF DInv, SendersTyped

LEMMA SenderFields ==
  ASSUME DInv, NEW s \in Senders
  PROVE  /\ sender[s].event \in Events \cup {Test}
         /\ sender[s].left \in SUBSET Subscribed
         /\ sender[s].at \in Subscribed \cup {NoDevice}
         /\ s = "test" => sender[s].event = Test
  BY DEF DInv, SendersTyped, SenderStates

\* Where GoOn and Handle leave a sender.
LEMMA MovesTyped ==
  ASSUME DInv, NEW s \in Senders, NEW sub \in Subscribed \cup {NoDevice},
         NEW pc \in {"next", "receipt", "remove"}, NEW at \in Subscribed \cup {NoDevice}
  PROVE  LET q == [pc |-> pc, event |-> sender[s].event, at |-> at,
                   left |-> sender[s].left \ {sub}]
         IN q \in SenderStates /\ q.event = sender[s].event
  BY SenderFields DEF SenderStates

LEMMA GoOnMoves ==
  ASSUME DInv, NEW s \in Senders, NEW sub \in Subscribed \cup {NoDevice}, GoOn(s, sub)
  PROVE  \E q \in SenderStates :
           /\ sender' = [sender EXCEPT ![s] = q]
           /\ q.event = sender[s].event /\ q.pc = "next"
<1> DEFINE q == [pc |-> "next", event |-> sender[s].event, at |-> NoDevice,
                 left |-> sender[s].left \ {sub}]
<1>1. q \in SenderStates /\ q.event = sender[s].event
  BY MovesTyped
<1>2. q.pc = "next" /\ sender' = [sender EXCEPT ![s] = q]
  BY DEF GoOn
<1> HIDE DEF q
<1>3. QED
  BY <1>1, <1>2

LEMMA HandleMoves ==
  ASSUME DInv, NEW s \in Senders, NEW sub \in Subscribed,
         NEW pc \in {"receipt", "remove"}, Handle(s, sub, pc)
  PROVE  \E q \in SenderStates :
           /\ sender' = [sender EXCEPT ![s] = q]
           /\ q.event = sender[s].event /\ q.pc = pc /\ q.at = sub
<1> DEFINE q == [pc |-> pc, event |-> sender[s].event, at |-> sub,
                 left |-> sender[s].left \ {sub}]
<1>1. q \in SenderStates /\ q.event = sender[s].event
  BY MovesTyped
<1>2. q.pc = pc /\ q.at = sub /\ sender' = [sender EXCEPT ![s] = q]
  BY DEF Handle
<1> HIDE DEF q
<1>3. QED
  BY <1>1, <1>2

----------------------------------------------------------------------------
(* Each step.                                                              *)

LEMMA LoadKeeps ==
  ASSUME DInv, NEW s \in Senders, NEW e \in Events \cup {Test},
         s = "test" => e = Test, Load(s, e),
         UNCHANGED <<subs, inserted, receipts, got, troubles>>
  PROVE  DInv' /\ Promised
<1> DEFINE found == {[device |-> d, id |-> subs[d]] : d \in {x \in Devices : subs[x] # 0}}
           q == [pc |-> "next", event |-> e, at |-> NoDevice, left |-> found]
<1>1. found \in SUBSET Subscribed
  BY DEF DInv, Subscribed
<1>2. q \in SenderStates /\ q.event = e /\ q.pc = "next"
  <2> HIDE DEF found
  <2>1. QED
    BY <1>1 DEF SenderStates
<1>3. sender' = [sender EXCEPT ![s] = q] /\ sender[s].pc = "idle"
  BY DEF Load
<1> HIDE DEF q
<1>4. QED
  BY <1>2, <1>3, QuietStep DEF DInv

LEMMA DeviceKeeps ==
  ASSUME DInv, DeviceStep PROVE DInv' /\ Promised
<1>1. CASE SendTest
  BY <1>1, LoadKeeps DEF SendTest, Churn, Senders
<1>2. CASE \E d \in Devices : Subscribe(d) \/ Unsubscribe(d) \/ EndpointExpires(d)
  <2>1. UNCHANGED <<sender, receipts, got, troubles>>
    BY <1>2 DEF Subscribe, Unsubscribe, EndpointExpires
  <2>2. subs' \in [Devices -> Nat] /\ inserted' \in Nat
    BY <1>2 DEF Subscribe, Unsubscribe, EndpointExpires, DInv
  <2>3. QED
    BY <2>1, <2>2, DevicesOnly
<1>3. QED
  BY <1>1, <1>2 DEF DeviceStep

\* A device shows an event: it had no record of it, and gets one next, or the
\* delivery counts as failed.
LEMMA ShowKeeps ==
  ASSUME DInv, NEW s \in Senders, NEW sub \in Subscribed, ToSend(s, sub),
         sender[s].event # Test, got' = Shown(sender[s].event, sub.device),
         NEW q \in SenderStates, sender' = [sender EXCEPT ![s] = q],
         q.event = sender[s].event, UNCHANGED <<subs, inserted, receipts>>,
         \/ troubles' = troubles /\ q.pc = "receipt" /\ q.at = sub
         \/ troubles' = troubles + 1 /\ q.pc = "next"
  PROVE  DInv' /\ Promised
<1> DEFINE e == sender[s].event
           d == sub.device
<1>1. s = "worker" /\ e \in Events /\ d \in Devices
  BY SenderFields DEF Senders, Subscribed
<1>2. <<e, d>> \in Events \X Devices
  BY <1>1
<1>3. got' = [got EXCEPT ![<<e, d>>] = @ + 1]
  BY DEF Shown
<1>4. ~Recorded(e, d)
  BY <1>1 DEF ToSend, Recorded, Unrecorded
<1>5. got[<<e, d>>] <= troubles /\ got[<<e, d>>] \in Nat /\ troubles \in Nat
  BY <1>1, <1>2, <1>4 DEF DInv, Counted
<1>6. SendersTyped'
  <2>1. q.pc \in {"receipt", "remove"} => q.at \in Subscribed
    OBVIOUS
  <2>2. QED
    BY <1>1, <2>1, SendersMove DEF DInv
<1>7. sender'["worker"] = q
  BY <1>1 DEF DInv, SendersTyped, Senders
<1>8. ASSUME NEW f \in Events, NEW g \in Devices
      PROVE  /\ got'[<<f, g>>] <= troubles' + 1
             /\ ~Recorded(f, g)' => got'[<<f, g>>] <= troubles'
  <2>1. <<f, g>> \in Events \X Devices /\ got[<<f, g>>] \in Nat
    BY DEF DInv
  <2>2. CASE f = e /\ g = d
    <3>1. got'[<<f, g>>] = got[<<e, d>>] + 1
      BY <1>2, <1>3, <2>2 DEF DInv
    <3>2. troubles' = troubles => Recorded(f, g)'
      <4>1. troubles' = troubles => q.pc = "receipt" /\ q.at = sub
        BY <1>5
      <4>2. QED
        BY <1>7, <2>2, <4>1 DEF Recorded, Unrecorded
    <3>3. QED
      BY <1>5, <3>1, <3>2
  <2>3. CASE ~(f = e /\ g = d)
    <3>1. <<f, g>> # <<e, d>>
      BY <2>3
    <3>2. got'[<<f, g>>] = got[<<f, g>>]
      BY <1>3, <2>1, <3>1 DEF DInv
    <3>3. /\ got[<<f, g>>] <= troubles + 1
          /\ ~Recorded(f, g) => got[<<f, g>>] <= troubles
      BY DEF DInv, Counted
    <3>4. Recorded(f, g) => Recorded(f, g)'
      BY <1>1, NothingPending DEF ToSend
    <3>5. QED
      BY <1>5, <2>1, <3>2, <3>3, <3>4
  <2>4. QED
    BY <2>2, <2>3
<1>9. got' \in [Events \X Devices -> Nat] /\ troubles' \in Nat
  BY <1>2, <1>3, <1>5 DEF DInv
<1>10. Promised
  BY <1>2, <1>3, <1>5
     DEF Promised, Promise!Next, Promise!Deliver, Promise!Trouble
<1>11. QED
  BY <1>6, <1>8, <1>9, <1>10 DEF DInv, Counted

LEMMA SendKeeps ==
  ASSUME DInv, NEW s \in Senders, NEW sub \in sender[s].left,
         Send(s, sub) \/ SendFails(s, sub)
  PROVE  DInv' /\ Promised
<1>1. sub \in Subscribed
  BY SenderFields
<1>2. CASE sender[s].event = Test
  <2>1. GoOn(s, sub) /\ UNCHANGED <<subs, inserted, receipts, got, troubles>>
    BY <1>2 DEF Send, SendFails, Shown
  <2>2. sender[s].pc # "receipt"
    BY DEF Send, SendFails, ToSend
  <2>3. PICK q \in SenderStates :
          /\ sender' = [sender EXCEPT ![s] = q]
          /\ q.event = sender[s].event /\ q.pc = "next"
    BY <1>1, <2>1, GoOnMoves
  <2>4. QED
    BY <1>2, <2>1, <2>2, <2>3, QuietStep DEF DInv
<1>3. CASE Send(s, sub) /\ sender[s].event # Test
  <2>1. PICK q \in SenderStates :
          /\ sender' = [sender EXCEPT ![s] = q]
          /\ q.event = sender[s].event /\ q.pc = "receipt" /\ q.at = sub
    BY <1>1, <1>3, HandleMoves DEF Send
  <2>2. QED
    BY <1>1, <1>3, <2>1, ShowKeeps DEF Send
<1>4. CASE SendFails(s, sub) /\ sender[s].event # Test
  <2>1. PICK q \in SenderStates :
          /\ sender' = [sender EXCEPT ![s] = q]
          /\ q.event = sender[s].event /\ q.pc = "next"
    BY <1>1, <1>4, GoOnMoves DEF SendFails
  <2>2. CASE got' = got
    BY <1>4, <2>1, <2>2, SenderFields, QuietStep DEF SendFails, DInv
  <2>3. CASE got' = Shown(sender[s].event, sub.device)
    BY <1>1, <1>4, <2>1, <2>3, ShowKeeps DEF SendFails
  <2>4. QED
    BY <1>4, <2>2, <2>3 DEF SendFails
<1>5. QED
  BY <1>2, <1>3, <1>4

LEMMA ReceiptKeeps ==
  ASSUME DInv, NEW s \in Senders, CreateReceipt(s)
  PROVE  DInv' /\ Promised
<1>1. /\ sender[s].pc = "receipt"
      /\ receipts' = receipts \cup {<<sender[s].event, sender[s].at.device>>}
      /\ UNCHANGED <<subs, inserted, got, troubles>>
  BY DEF CreateReceipt
<1>2. sender[s].at \in Subscribed \cup {NoDevice}
  BY SenderFields
<1>3. PICK q \in SenderStates :
        /\ sender' = [sender EXCEPT ![s] = q]
        /\ q.event = sender[s].event /\ q.pc = "next"
  BY <1>2, GoOnMoves DEF CreateReceipt
<1>4. SendersTyped'
  BY <1>3, SenderFields, SendersMove DEF DInv
<1>5. ASSUME NEW e \in Events, NEW d \in Devices, Recorded(e, d)
      PROVE  Recorded(e, d)'
  <2>1. CASE Told(e, d)
    BY <1>1, <2>1 DEF Told, Recorded
  <2>2. CASE Unrecorded(e, d) /\ s = "worker"
    BY <1>1, <2>2 DEF Unrecorded, Told, Recorded
  <2>3. CASE Unrecorded(e, d) /\ s # "worker"
    <3>1. sender'["worker"] = sender["worker"]
      BY <1>3, <2>3 DEF DInv, SendersTyped, Senders
    <3>2. QED
      BY <2>3, <3>1 DEF Unrecorded, Recorded
  <2>4. QED
    BY <1>5, <2>1, <2>2, <2>3 DEF Recorded
<1>6. Counted' /\ troubles' \in Nat /\ Promised
  BY <1>1, <1>5, CountKept
<1>7. QED
  BY <1>1, <1>4, <1>6 DEF DInv

\* A sender takes up a state of its kind.
Moves(s) ==
  \E q \in SenderStates :
    /\ sender' = [sender EXCEPT ![s] = q]
    /\ s = "test" => q.event = Test
    /\ q.pc \in {"receipt", "remove"} => q.at \in Subscribed

LEMMA OtherMoves ==
  ASSUME DInv, NEW s \in Senders,
         \/ \E sub \in sender[s].left : SkipDuplicate(s, sub) \/ EndpointGone(s, sub)
         \/ ReceiptFails(s) \/ RemoveSubscription(s) \/ Finish(s) \/ CutOff(s)
  PROVE  Moves(s)
<1>1. ASSUME NEW sub \in Subscribed \cup {NoDevice}, GoOn(s, sub) PROVE Moves(s)
  BY <1>1, GoOnMoves, SenderFields DEF Moves
<1>2. ASSUME NEW sub \in sender[s].left, SkipDuplicate(s, sub) PROVE Moves(s)
  BY <1>1, <1>2, SenderFields DEF SkipDuplicate
<1>3. ASSUME NEW sub \in sender[s].left, EndpointGone(s, sub) PROVE Moves(s)
  <2>1. sub \in Subscribed /\ Handle(s, sub, "remove")
    BY <1>3, SenderFields DEF EndpointGone
  <2>2. QED
    BY <2>1, HandleMoves, SenderFields DEF Moves
<1>4. CASE ReceiptFails(s) \/ RemoveSubscription(s)
  BY <1>1, <1>4, SenderFields DEF ReceiptFails, RemoveSubscription
<1>5. CASE Finish(s) \/ CutOff(s)
  BY <1>5, RestingTyped DEF Finish, CutOff, Moves
<1>6. QED
  BY <1>2, <1>3, <1>4, <1>5

LEMMA OtherKeeps ==
  ASSUME DInv, NEW s \in Senders,
         \/ \E sub \in sender[s].left : SkipDuplicate(s, sub) \/ EndpointGone(s, sub)
         \/ ReceiptFails(s) \/ RemoveSubscription(s) \/ Finish(s) \/ CutOff(s)
  PROVE  DInv' /\ Promised
<1>1. UNCHANGED <<inserted, receipts, got>>
  BY DEF SkipDuplicate, EndpointGone, ReceiptFails, RemoveSubscription, Finish, CutOff
<1>2. subs' \in [Devices -> Nat]
  BY DEF SkipDuplicate, EndpointGone, ReceiptFails, RemoveSubscription, Finish, CutOff, DInv
<1>3. \/ troubles' = troubles + 1
      \/ troubles' = troubles /\ sender[s].pc # "receipt"
  BY DEF SkipDuplicate, EndpointGone, ToSend, ReceiptFails, RemoveSubscription, Finish, CutOff
<1>4. QED
  BY <1>1, <1>2, <1>3, OtherMoves, QuietStep DEF Moves

LEMMA DeliveryKeeps ==
  ASSUME DInv, NEW s \in Senders, DeliveryStep(s) \/ Finish(s) \/ CutOff(s)
  PROVE  DInv' /\ Promised
  BY SendKeeps, ReceiptKeeps, OtherKeeps DEF DeliveryStep

LEMMA EventKeeps ==
  ASSUME DInv, NEW e \in Events, SendEvent(e) PROVE DInv' /\ Promised
  BY LoadKeeps DEF SendEvent, Senders

LEMMA PushStarts == PushInit => DInv /\ Promise!Init
<1> SUFFICES ASSUME PushInit PROVE DInv /\ Promise!Init
  OBVIOUS
<1>1. Promise!Init
  BY DEF PushInit, Promise!Init
<1>2. SendersTyped
  BY RestingTyped DEF PushInit, SendersTyped, Senders
<1>3. \A e \in Events, d \in Devices : got[<<e, d>>] = 0
  BY DEF PushInit
<1>4. QED
  BY <1>1, <1>2, <1>3 DEF PushInit, DInv, Counted

LEMMA PushStays ==
  ASSUME DInv, UNCHANGED pushVars PROVE DInv' /\ Promised
  BY DevicesOnly DEF pushVars, DInv

\* However events are handed over, whatever the devices, the push service and
\* the processes do: a device shows an event once, and once more at most for
\* each delivery that was cut off or left without its receipt.
THEOREM PromiseKept == PushSpec => OncePerDevice
<1>1. DInv /\ [PushNext]_pushVars => DInv' /\ Promised
  <2> SUFFICES ASSUME DInv, [PushNext]_pushVars PROVE DInv' /\ Promised
    OBVIOUS
  <2>1. CASE DeviceStep
    BY <2>1, DeviceKeeps
  <2>2. CASE \E e \in Events : SendEvent(e)
    BY <2>2, EventKeeps
  <2>3. ASSUME NEW s \in Senders, DeliveryStep(s) \/ Finish(s) \/ CutOff(s)
        PROVE  DInv' /\ Promised
    BY <2>3, DeliveryKeeps
  <2>4. CASE UNCHANGED pushVars
    BY <2>4, PushStays
  <2>5. QED
    BY <2>1, <2>2, <2>3, <2>4 DEF PushNext
<1>2. DInv /\ [PushNext]_pushVars => [Promise!Next]_<<got, troubles>>
  BY <1>1 DEF Promised
<1>3. QED
  BY <1>1, <1>2, PushStarts, PTL DEF PushSpec, OncePerDevice, Promise!Spec

----------------------------------------------------------------------------
(* Beneath the reminders.                                                  *)

\* The dates and offsets that reminders are computed from.
CycleTyped ==
  /\ page \in Dates /\ lot.sale \in Dates /\ offsets \in Offsets
  /\ cycle.pc \in {"fetch", "store"} => cycle.sale \in Dates /\ cycle.offsets \in Offsets
  /\ cycle.pc = "send" =>
       /\ cycle.left \subseteq UNION Offsets
       /\ cycle.left # {} => cycle.sale \in SaleDates
  /\ manual.pc = "store" => manual.sale \in Dates

LEMMA SendingFields ==
  \A pc, sale, left : /\ Sending(pc, sale, left).pc = pc
                      /\ Sending(pc, sale, left).sale = sale
                      /\ Sending(pc, sale, left).left = left
  BY DEF Sending

LEMMA RemindersTyped ==
  ASSUME CycleTyped, cycle.pc = "store"
  PROVE  /\ ReminderState(cycle, cycle.sale).due \subseteq UNION Offsets
         /\ ReminderState(cycle, cycle.sale).due # {} => cycle.sale \in SaleDates
<1> DEFINE known == SentFor(cycle.sale, cycle.remSale, cycle.sent)
           due == {o \in cycle.offsets \ known : ReminderDue(cycle.sale, cycle.now, o)}
<1>1. CASE cycle.sale = NoSale
  BY <1>1 DEF ReminderState
<1>2. CASE cycle.sale # NoSale
  <2>1. ReminderState(cycle, cycle.sale).due = due
    BY <1>2 DEF ReminderState
  <2>2. due \subseteq UNION Offsets
    BY DEF CycleTyped
  <2>3. cycle.sale \in SaleDates
    BY <1>2 DEF CycleTyped, Dates
  <2>4. QED
    BY <2>1, <2>2, <2>3
<1>3. QED
  BY <1>1, <1>2

LEMMA CycleKeeps == CycleTyped /\ [Next]_vars => CycleTyped'
<1> SUFFICES ASSUME CycleTyped, [Next]_vars PROVE CycleTyped'
  OBVIOUS
<1>1. AtRest.pc = "idle" /\ NoRefresh.pc = "idle"
  BY SendingFields DEF AtRest, NoRefresh
<1>2. CASE Store
  <2>1. /\ cycle'.pc = "send" /\ cycle'.sale = cycle.sale
        /\ cycle'.left = ReminderState(cycle, cycle.sale).due
        /\ lot'.sale \in {cycle.sale, lot.sale}
        /\ UNCHANGED <<page, offsets, manual>> /\ cycle.pc = "store"
    BY <1>2, SendingFields DEF Store
  <2>2. QED
    BY <2>1, RemindersTyped DEF CycleTyped
<1>3. CASE \E o \in cycle.left : SendReminder(o)
  <2>1. PICK o \in cycle.left :
          /\ cycle.pc = "send" /\ cycle' = Sending("send", cycle.sale, cycle.left \ {o})
          /\ UNCHANGED <<page, offsets, lot, manual>>
    BY <1>3 DEF SendReminder
  <2>2. QED
    BY <2>1, SendingFields DEF CycleTyped
<1>4. CASE StartPoll \/ Fetch
  BY <1>4 DEF StartPoll, Fetch, CycleTyped
<1>5. CASE PassBy \/ PollFails \/ EndPoll \/ WorkerCutOff
  BY <1>1, <1>5 DEF PassBy, PollFails, EndPoll, WorkerCutOff, CycleTyped
<1>6. CASE RefreshPage \/ RefreshStore \/ MoveSale \/ SetOffsets \/ Tick
  BY <1>1, <1>6 DEF RefreshPage, RefreshStore, MoveSale, SetOffsets, Tick, CycleTyped
<1>7. CASE PushStep \/ (CutOff("test") /\ UNCHANGED lotVars) \/ UNCHANGED vars
  BY <1>7 DEF PushStep, lotVars, vars, CycleTyped
<1>8. QED
  BY <1>2, <1>3, <1>4, <1>5, <1>6, <1>7 DEF Next, PollStep

LEMMA ReminderSteps ==
  ASSUME DInv, CycleTyped, [Next]_vars PROVE DInv' /\ Promised
<1>1. CASE PushStep \/ CutOff("test")
  BY <1>1, DeviceKeeps, DeliveryKeeps DEF PushStep, Senders
<1>2. CASE \E o \in cycle.left : SendReminder(o)
  <2>1. PICK o \in cycle.left : cycle.pc = "send" /\ SendEvent(<<cycle.sale, o>>)
    BY <1>2 DEF SendReminder
  <2>2. <<cycle.sale, o>> \in Events
    BY <2>1, RemindersAssumption DEF CycleTyped
  <2>3. QED
    BY <2>1, <2>2, EventKeeps
<1>3. CASE WorkerCutOff
  <2>1. /\ sender' = [sender EXCEPT !["worker"] = Resting] /\ troubles' = troubles + 1
        /\ UNCHANGED <<subs, inserted, receipts, got>>
    BY <1>3 DEF WorkerCutOff
  <2>2. QED
    BY <2>1, RestingTyped, QuietStep DEF DInv, Senders
<1>4. CASE \/ StartPoll \/ PassBy \/ Fetch \/ Store \/ PollFails \/ EndPoll
           \/ RefreshPage \/ RefreshStore \/ MoveSale \/ SetOffsets \/ Tick
           \/ UNCHANGED vars
  <2>1. UNCHANGED <<subs, inserted, sender, receipts, got, troubles>>
    BY <1>4 DEF StartPoll, PassBy, Fetch, Store, PollFails, EndPoll, RefreshPage,
                RefreshStore, MoveSale, SetOffsets, Tick, Disturb, pushVars, vars
  <2>2. QED
    BY <2>1, DevicesOnly DEF DInv
<1>5. QED
  BY <1>1, <1>2, <1>3, <1>4 DEF Next, PollStep

\* The reminders of a lot keep the promise as well, whatever the polls, the sale
\* dates, the settings and the owner's refreshes do.
THEOREM RemindersKeepPromise == Spec => OncePerDevice
<1>1. Init => DInv /\ CycleTyped /\ Promise!Init
  BY PushStarts, SendingFields DEF Init, CycleTyped, AtRest, NoRefresh
<1>2. DInv /\ CycleTyped /\ [Next]_vars => DInv' /\ CycleTyped'
  BY ReminderSteps, CycleKeeps
<1>3. DInv /\ CycleTyped /\ [Next]_vars => [Promise!Next]_<<got, troubles>>
  BY ReminderSteps DEF Promised
<1>4. QED
  BY <1>1, <1>2, <1>3, PTL DEF Spec, OncePerDevice, Promise!Spec

----------------------------------------------------------------------------
(* What is stored as sent has been shown.                                  *)

\* By every device that was subscribed all the time; a later subscription has a
\* later _id.
ShownAll(e) == \A d \in alive : subs[d] = 1 => got[<<e, d>>] > 0

\* The worker has loaded, and not yet taken up, whom e is still to be shown to.
OnTheWay(e) ==
  \A d \in alive : subs[d] = 1 =>
    got[<<e, d>>] > 0 \/ [device |-> d, id |-> 1] \in sender["worker"].left

\* A reminder that is stored as sent is shown, or on its way, or comes next.
Accounted(o) ==
  \/ ShownAll(<<lot.remSale, o>>)
  \/ /\ cycle.pc = "send" /\ cycle.sale = lot.remSale
     /\ o \in cycle.left
        \/ (sender["worker"].pc # "idle" /\ sender["worker"].event = <<lot.remSale, o>>)

ReceiptsTrue ==
  /\ \A e \in Events, d \in Devices : <<e, d>> \in receipts => got[<<e, d>>] > 0
  /\ sender["worker"].pc = "receipt" /\ sender["worker"].event \in Events
     => got[<<sender["worker"].event, sender["worker"].at.device>>] > 0

WorkerSends ==
  /\ sender["worker"].pc # "idle" => cycle.pc = "send" /\ sender["worker"].event \in Events
  /\ sender["worker"].pc = "remove" => sender["worker"].at.device \notin alive

SentTyped ==
  /\ \A o \in lot.sent : <<lot.remSale, o>> \in Events
  /\ cycle.pc \in {"fetch", "store"} => \A o \in cycle.sent : <<cycle.remSale, o>> \in Events

Loaded == sender["worker"].pc # "idle" => OnTheWay(sender["worker"].event)

CopyShown ==
  cycle.pc \in {"fetch", "store"} => \A o \in cycle.sent : ShownAll(<<cycle.remSale, o>>)

Stored == \A o \in lot.sent : Accounted(o)

NothingForgotten == troubles = 0 => Loaded /\ CopyShown /\ Stored

\* All of it, without what holds of the senders and the cycle anyhow.
Honest == ReceiptsTrue /\ WorkerSends /\ SentTyped /\ NothingForgotten

Known == inserted >= 1 /\ alive \subseteq Devices

SInv == DInv /\ CycleTyped /\ Known /\ Honest

\* Devices leave, troubles stay, and nothing shown is taken back.
Grows ==
  /\ alive' \subseteq alive
  /\ troubles' = 0 => troubles = 0
  /\ \A d \in Devices : subs'[d] = 1 => subs[d] = 1
  /\ \A e \in Events, d \in Devices : got[<<e, d>>] > 0 => got'[<<e, d>>] > 0

LEMMA ShownStays ==
  ASSUME Known, Grows, NEW e \in Events, ShownAll(e) PROVE ShownAll(e)'
  BY DEF ShownAll, Known, Grows

LEMMA ShowGrows ==
  ASSUME DInv, NEW e, NEW d, got' \in {got, Shown(e, d)}
  PROVE  \A f \in Events, g \in Devices : got[<<f, g>>] > 0 => got'[<<f, g>>] > 0
<1> SUFFICES ASSUME NEW f \in Events, NEW g \in Devices, got[<<f, g>>] > 0
             PROVE  got'[<<f, g>>] > 0
  OBVIOUS
<1>1. got[<<f, g>>] \in Nat /\ <<f, g>> \in Events \X Devices
  BY DEF DInv
<1>2. CASE got' = got
  BY <1>2
<1>3. CASE got' = [got EXCEPT ![<<e, d>>] = @ + 1]
  <2>1. got'[<<f, g>>] \in {got[<<f, g>>], got[<<f, g>>] + 1}
    BY <1>1, <1>3 DEF DInv
  <2>2. QED
    BY <1>1, <2>1
<1>4. QED
  BY <1>2, <1>3 DEF Shown

LEMMA DeliveryGrows ==
  ASSUME DInv, Known, NEW s \in Senders, DeliveryStep(s) \/ Finish(s) \/ CutOff(s)
  PROVE  Grows /\ Known'
<1>1. alive' = alive /\ inserted' = inserted
  BY DEF DeliveryStep, SkipDuplicate, Send, SendFails, EndpointGone, CreateReceipt,
         ReceiptFails, RemoveSubscription, Finish, CutOff
<1>2. \E e, d : got' \in {got, Shown(e, d)}
  BY DEF DeliveryStep, SkipDuplicate, Send, SendFails, EndpointGone, CreateReceipt,
         ReceiptFails, RemoveSubscription, Finish, CutOff
<1>3. troubles' = troubles \/ troubles' = troubles + 1
  BY DEF DeliveryStep, SkipDuplicate, Send, SendFails, EndpointGone, CreateReceipt,
         ReceiptFails, RemoveSubscription, Finish, CutOff
<1>4. \A d \in Devices : subs'[d] = 1 => subs[d] = 1
  <2>1. subs' = subs \/ \E d \in Devices : subs' = [subs EXCEPT ![d] = 0]
    <3>1. CASE RemoveSubscription(s)
      <4>1. sender[s].at \in Subscribed
        BY <3>1 DEF RemoveSubscription, DInv, SendersTyped
      <4>2. QED
        BY <3>1, <4>1 DEF RemoveSubscription, Subscribed
    <3>2. CASE subs' = subs
      BY <3>2
    <3>3. QED
      BY <3>1, <3>2 DEF DeliveryStep, SkipDuplicate, Send, SendFails, EndpointGone,
                        CreateReceipt, ReceiptFails, Finish, CutOff
  <2>2. QED
    BY <2>1 DEF DInv
<1>5. QED
  BY <1>1, <1>2, <1>3, <1>4, ShowGrows DEF Grows, Known, DInv

LEMMA DeviceGrows ==
  ASSUME DInv, Known, DeviceStep PROVE Grows /\ Known'
<1>1. CASE SendTest
  BY <1>1 DEF SendTest, Grows, Known
<1>2. ASSUME NEW d \in Devices, Subscribe(d) PROVE Grows /\ Known'
  <2>1. inserted + 1 # 1 /\ inserted + 1 >= 1
    BY DEF DInv, Known
  <2>2. inserted' = inserted + 1 /\ subs' = [subs EXCEPT ![d] = inserted + 1]
        /\ UNCHANGED <<alive, got, troubles>>
    BY <1>2 DEF Subscribe
  <2>3. QED
    BY <2>1, <2>2 DEF Grows, Known, DInv
<1>3. ASSUME NEW d \in Devices, Unsubscribe(d) \/ EndpointExpires(d)
      PROVE  Grows /\ Known'
  BY <1>3 DEF Unsubscribe, EndpointExpires, Grows, Known, DInv
<1>4. QED
  BY <1>1, <1>2, <1>3 DEF DeviceStep

----------------------------------------------------------------------------
\* The worker and what it has stored stay as they are.
LEMMA OthersHonest ==
  ASSUME SInv, Grows, sender'["worker"] = sender["worker"],
         cycle' = cycle, lot'.remSale = lot.remSale, lot'.sent = lot.sent,
         \A e \in Events, d \in Devices : <<e, d>> \in receipts' => <<e, d>> \in receipts
  PROVE  Honest'
<1> USE DEF SInv, Honest
<1>1. ReceiptsTrue'
  <2>1. sender["worker"].pc = "receipt" => sender["worker"].at.device \in Devices
    BY DEF DInv, SendersTyped, Subscribed, Senders
  <2>2. QED
    BY <2>1 DEF ReceiptsTrue, Grows
<1>2. WorkerSends' /\ SentTyped'
  BY DEF WorkerSends, SentTyped, Grows
<1>3. NothingForgotten'
  <2> SUFFICES ASSUME troubles' = 0 PROVE Loaded' /\ CopyShown' /\ Stored'
    BY DEF NothingForgotten
  <2>1. Loaded /\ CopyShown /\ Stored
    BY DEF NothingForgotten, Grows
  <2>2. Loaded'
    BY <2>1 DEF Loaded, OnTheWay, WorkerSends, Grows, Known
  <2>3. CopyShown'
    BY <2>1, ShownStays DEF CopyShown, SentTyped
  <2>4. ASSUME NEW o \in lot.sent PROVE Accounted(o)'
    <3>1. <<lot.remSale, o>> \in Events
      BY DEF SentTyped
    <3>2. CASE ShownAll(<<lot.remSale, o>>)
      BY <3>1, <3>2, ShownStays DEF Accounted
    <3>3. CASE ~ShownAll(<<lot.remSale, o>>)
      BY <2>1, <3>3 DEF Stored, Accounted
    <3>4. QED
      BY <3>2, <3>3
  <2>5. QED
    BY <2>2, <2>3, <2>4 DEF Stored
<1>4. QED
  BY <1>1, <1>2, <1>3

LEMMA WorkerHas ==
  ASSUME SInv, sender["worker"].pc # "idle"
  PROVE  /\ sender["worker"].event \in Events /\ sender["worker"].event # Test
         /\ sender["worker"].left \in SUBSET Subscribed /\ cycle.pc = "send"
         /\ sender["worker"].pc \in {"receipt", "remove"}
            => sender["worker"].at \in Subscribed
  BY SenderFields, DeliveryAssumption
     DEF SInv, Honest, WorkerSends, DInv, SendersTyped, Senders

\* The worker goes on to the next device with what it has shown or need not show.
LEMMA WorkerGoesOn ==
  ASSUME SInv, Grows, UNCHANGED <<cycle, lot>>, sender["worker"].pc # "idle",
         sender'["worker"].pc # "idle",
         sender'["worker"].event = sender["worker"].event,
         NEW sub \in Subscribed,
         sender'["worker"].left = sender["worker"].left \ {sub},
         \/ troubles' # 0
         \/ sub.device \in alive' /\ subs'[sub.device] = 1
            => got'[<<sender["worker"].event, sub.device>>] > 0
  PROVE  NothingForgotten'
<1> SUFFICES ASSUME troubles' = 0 PROVE Loaded' /\ CopyShown' /\ Stored'
  BY DEF NothingForgotten
<1> DEFINE e == sender["worker"].event
<1>1. e \in Events /\ cycle.pc = "send"
  BY WorkerHas
<1>2. Loaded /\ CopyShown /\ Stored
  BY DEF SInv, Honest, NothingForgotten, Grows
<1>3. Loaded'
  <2> SUFFICES ASSUME NEW d \in alive', subs'[d] = 1
               PROVE  got'[<<e, d>>] > 0
                      \/ [device |-> d, id |-> 1] \in sender'["worker"].left
    BY DEF Loaded, OnTheWay
  <2>1. d \in alive /\ d \in Devices /\ subs[d] = 1
    BY DEF Grows, SInv, Known
  <2>2. CASE got[<<e, d>>] > 0
    BY <1>1, <2>1, <2>2 DEF Grows
  <2>3. CASE [device |-> d, id |-> 1] \in sender["worker"].left
    <3>1. CASE sub = [device |-> d, id |-> 1]
      BY <3>1
    <3>2. CASE sub # [device |-> d, id |-> 1]
      BY <2>3, <3>2
    <3>3. QED
      BY <3>1, <3>2
  <2>4. QED
    BY <1>2, <2>1, <2>2, <2>3 DEF Loaded, OnTheWay
<1>4. CopyShown'
  BY <1>1 DEF CopyShown
<1>5. ASSUME NEW o \in lot.sent PROVE Accounted(o)'
  <2>1. <<lot.remSale, o>> \in Events
    BY DEF SInv, Honest, SentTyped
  <2>2. CASE ShownAll(<<lot.remSale, o>>)
    BY <2>1, <2>2, ShownStays DEF SInv, Accounted
  <2>3. CASE ~ShownAll(<<lot.remSale, o>>)
    BY <1>2, <2>3 DEF Stored, Accounted
  <2>4. QED
    BY <2>2, <2>3
<1>6. QED
  BY <1>3, <1>4, <1>5 DEF Stored

LEMMA WorkerMoves ==
  ASSUME DInv, NEW sub, NEW pc,
         \/ GoOn("worker", sub) /\ pc = "next"
         \/ Handle("worker", sub, pc)
  PROVE  /\ sender'["worker"].pc = pc
         /\ sender'["worker"].event = sender["worker"].event
         /\ sender'["worker"].left = sender["worker"].left \ {sub}
         /\ Handle("worker", sub, pc) => sender'["worker"].at = sub
  BY DEF GoOn, Handle, DInv, SendersTyped, Senders

\* What the receipts say stays true when nothing new is recorded.
LEMMA ReceiptsStay ==
  ASSUME SInv, Grows, receipts' = receipts,
         sender'["worker"].pc = "receipt" => 
           got'[<<sender'["worker"].event, sender'["worker"].at.device>>] > 0
  PROVE  ReceiptsTrue'
  BY DEF SInv, Honest, ReceiptsTrue, Grows

LEMMA WorkerSendsOn ==
  ASSUME SInv, UNCHANGED <<cycle, lot, alive>>, sender["worker"].pc # "idle",
         sender'["worker"].event = sender["worker"].event,
         sender'["worker"].pc = "remove" => sender'["worker"].at.device \notin alive
  PROVE  WorkerSends' /\ SentTyped'
  BY WorkerHas DEF SInv, Honest, WorkerSends, SentTyped

LEMMA WorkerDelivers ==
  ASSUME SInv, DeliveryStep("worker"), UNCHANGED <<cycle, lot>>
  PROVE  Honest'
<1> DEFINE w == sender["worker"]
           e == w.event
<1>1. Grows /\ alive' = alive /\ w.pc # "idle"
  <2>1. Grows
    BY DeliveryGrows DEF SInv, Senders
  <2>2. QED
    BY <2>1 DEF DeliveryStep, SkipDuplicate, Send, SendFails, EndpointGone, ToSend,
                CreateReceipt, ReceiptFails, RemoveSubscription
<1>2. e \in Events /\ w.left \in SUBSET Subscribed /\ e # Test
      /\ (w.pc \in {"receipt", "remove"} => w.at \in Subscribed)
  BY <1>1, WorkerHas
<1>3. DInv
  BY DEF SInv
<1>4. ASSUME NEW sub \in w.left, SkipDuplicate("worker", sub) PROVE Honest'
  <2>1. GoOn("worker", sub) /\ receipts' = receipts /\ <<e, sub.device>> \in receipts
        /\ got' = got
    BY <1>4 DEF SkipDuplicate, Told
  <2>2. /\ sender'["worker"].pc = "next" /\ sender'["worker"].event = e
        /\ sender'["worker"].left = w.left \ {sub}
    BY <1>3, <2>1, WorkerMoves
  <2>3. got'[<<e, sub.device>>] > 0 /\ sub \in Subscribed
    BY <1>2, <2>1 DEF SInv, Honest, ReceiptsTrue, Subscribed
  <2>4. NothingForgotten'
    BY <1>1, <2>2, <2>3, WorkerGoesOn
  <2>5. QED
    BY <1>1, <2>1, <2>2, <2>4, ReceiptsStay, WorkerSendsOn DEF Honest
<1>5. ASSUME NEW sub \in w.left, Send("worker", sub) PROVE Honest'
  <2>1. /\ Handle("worker", sub, "receipt") /\ receipts' = receipts
        /\ got' = [got EXCEPT ![<<e, sub.device>>] = @ + 1]
    BY <1>2, <1>5 DEF Send, Shown
  <2>2. /\ sender'["worker"].pc = "receipt" /\ sender'["worker"].event = e
        /\ sender'["worker"].left = w.left \ {sub} /\ sender'["worker"].at = sub
    BY <1>3, <2>1, WorkerMoves
  <2>3. sub \in Subscribed /\ <<e, sub.device>> \in Events \X Devices
    BY <1>2 DEF Subscribed
  <2>4. got'[<<e, sub.device>>] > 0
    <3>1. got'[<<e, sub.device>>] = got[<<e, sub.device>>] + 1
          /\ got[<<e, sub.device>>] \in Nat
      BY <2>1, <2>3 DEF SInv, DInv
    <3>2. QED
      BY <3>1
  <2>5. NothingForgotten'
    BY <1>1, <2>2, <2>3, <2>4, WorkerGoesOn
  <2>6. QED
    BY <1>1, <2>1, <2>2, <2>4, <2>5, ReceiptsStay, WorkerSendsOn DEF Honest
<1>6. ASSUME NEW sub \in w.left, SendFails("worker", sub) PROVE Honest'
  <2>1. GoOn("worker", sub) /\ receipts' = receipts /\ troubles' # 0
    BY <1>3, <1>6 DEF SendFails, DInv
  <2>2. /\ sender'["worker"].pc = "next" /\ sender'["worker"].event = e
        /\ sender'["worker"].left = w.left \ {sub}
    BY <1>3, <2>1, WorkerMoves
  <2>3. NothingForgotten'
    BY <2>1 DEF NothingForgotten
  <2>4. QED
    BY <1>1, <2>1, <2>2, <2>3, ReceiptsStay, WorkerSendsOn DEF Honest
<1>7. ASSUME NEW sub \in w.left, EndpointGone("worker", sub) PROVE Honest'
  <2>1. Handle("worker", sub, "remove") /\ receipts' = receipts
        /\ sub.device \notin alive
    BY <1>7 DEF EndpointGone
  <2>2. /\ sender'["worker"].pc = "remove" /\ sender'["worker"].event = e
        /\ sender'["worker"].left = w.left \ {sub} /\ sender'["worker"].at = sub
    BY <1>3, <2>1, WorkerMoves
  <2>3. NothingForgotten'
    BY <1>1, <1>2, <2>1, <2>2, WorkerGoesOn
  <2>4. QED
    BY <1>1, <2>1, <2>2, <2>3, ReceiptsStay, WorkerSendsOn DEF Honest
<1>8. ASSUME CreateReceipt("worker") \/ ReceiptFails("worker")
             \/ RemoveSubscription("worker")
      PROVE  Honest'
  <2>1. GoOn("worker", w.at) /\ w.pc \in {"receipt", "remove"} /\ got' = got
    BY <1>8 DEF CreateReceipt, ReceiptFails, RemoveSubscription
  <2>2. /\ sender'["worker"].pc = "next" /\ sender'["worker"].event = e
        /\ sender'["worker"].left = w.left \ {w.at} /\ w.at \in Subscribed
    BY <1>2, <1>3, <2>1, WorkerMoves
  <2>3. \/ got'[<<e, w.at.device>>] > 0
        \/ w.at.device \notin alive
    BY <1>2, <2>1 DEF SInv, Honest, ReceiptsTrue, WorkerSends
  <2>4. NothingForgotten'
    BY <1>1, <2>2, <2>3, WorkerGoesOn
  <2>5. ReceiptsTrue'
    <3>1. CASE receipts' = receipts
      BY <1>1, <2>2, <3>1, ReceiptsStay
    <3>2. CASE CreateReceipt("worker")
      <4>1. /\ w.pc = "receipt"
            /\ receipts' = receipts \cup {<<e, w.at.device>>}
        BY <3>2 DEF CreateReceipt
      <4>2. got[<<e, w.at.device>>] > 0
        BY <1>2, <4>1 DEF SInv, Honest, ReceiptsTrue
      <4>3. QED
        BY <2>1, <2>2, <4>1, <4>2 DEF SInv, Honest, ReceiptsTrue
    <3>3. QED
      BY <1>8, <3>1, <3>2 DEF ReceiptFails, RemoveSubscription
  <2>6. QED
    BY <1>1, <2>2, <2>4, <2>5, WorkerSendsOn DEF Honest
<1>9. QED
  BY <1>4, <1>5, <1>6, <1>7, <1>8 DEF DeliveryStep

\* The worker is done with an event: everybody it was to be shown to has seen it.
LEMMA WorkerFinishes ==
  ASSUME SInv, Finish("worker"), UNCHANGED <<cycle, lot>>
  PROVE  Honest'
<1> DEFINE w == sender["worker"]
<1>1. /\ w.pc = "next" /\ w.left = {} /\ sender'["worker"].pc = "idle"
      /\ UNCHANGED <<subs, inserted, alive, receipts, got, troubles>>
  BY RestingTyped DEF Finish, SInv, DInv, SendersTyped, Senders
<1>2. Grows
  BY DeliveryGrows DEF SInv, Senders
<1>3. ReceiptsTrue' /\ WorkerSends' /\ SentTyped'
  BY <1>1, <1>2, ReceiptsStay DEF SInv, Honest, WorkerSends, SentTyped
<1>4. NothingForgotten'
  <2> SUFFICES ASSUME troubles' = 0 PROVE Loaded' /\ CopyShown' /\ Stored'
    BY DEF NothingForgotten
  <2>1. Loaded /\ CopyShown /\ Stored
    BY <1>2 DEF SInv, Honest, NothingForgotten, Grows
  <2>2. ShownAll(w.event)
    BY <1>1, <2>1 DEF Loaded, OnTheWay, ShownAll
  <2>3. ASSUME NEW o \in lot.sent PROVE Accounted(o)'
    <3>1. <<lot.remSale, o>> \in Events
      BY DEF SInv, Honest, SentTyped
    <3>2. CASE ShownAll(<<lot.remSale, o>>)
      BY <1>2, <3>1, <3>2, ShownStays DEF SInv, Accounted
    <3>3. CASE ~ShownAll(<<lot.remSale, o>>)
      BY <2>1, <2>2, <3>3 DEF Stored, Accounted
    <3>4. QED
      BY <3>2, <3>3
  <2>4. QED
    BY <1>1, <2>1, <2>3, WorkerHas DEF Loaded, CopyShown, Stored
<1>5. QED
  BY <1>3, <1>4 DEF Honest

----------------------------------------------------------------------------
(* The steps of a cycle.                                                   *)

LEMMA CalmGrows ==
  ASSUME Known, UNCHANGED <<subs, inserted, alive, got>>,
         troubles' = 0 => troubles = 0
  PROVE  Grows /\ Known'
  BY DEF Grows, Known

\* The worker's sender rests unless the worker sends.
LEMMA SenderRests ==
  ASSUME SInv, cycle.pc # "send" PROVE sender["worker"].pc = "idle"
  BY DEF SInv, Honest, WorkerSends

LEMMA StartHonest ==
  ASSUME SInv, StartPoll PROVE Honest'
<1>1. /\ cycle.pc = "idle" /\ sender["worker"].pc = "idle"
      /\ cycle'.pc = "fetch" /\ cycle'.sent = lot.sent /\ cycle'.remSale = lot.remSale
      /\ lot' = lot
      /\ UNCHANGED <<subs, inserted, alive, receipts, sender, got, troubles>>
  BY DEF StartPoll, Idle, pushVars
<1>2. ReceiptsTrue' /\ WorkerSends' /\ SentTyped'
  BY <1>1 DEF SInv, Honest, ReceiptsTrue, WorkerSends, SentTyped
<1>3. NothingForgotten'
  BY <1>1 DEF SInv, Honest, NothingForgotten, Loaded, CopyShown, Stored, Accounted, ShownAll
<1>4. QED
  BY <1>2, <1>3 DEF Honest

LEMMA FetchHonest ==
  ASSUME SInv, Fetch PROVE Honest'
<1>1. /\ cycle.pc = "fetch" /\ cycle'.pc = "store"
      /\ cycle'.sent = cycle.sent /\ cycle'.remSale = cycle.remSale /\ lot' = lot
      /\ UNCHANGED <<subs, inserted, alive, receipts, sender, got, troubles>>
  BY DEF Fetch, pushVars
<1>2. sender["worker"].pc = "idle"
  BY <1>1, SenderRests
<1>3. ReceiptsTrue' /\ WorkerSends' /\ SentTyped'
  BY <1>1, <1>2 DEF SInv, Honest, ReceiptsTrue, WorkerSends, SentTyped
<1>4. NothingForgotten'
  BY <1>1, <1>2
     DEF SInv, Honest, NothingForgotten, Loaded, CopyShown, Stored, Accounted, ShownAll
<1>5. QED
  BY <1>3, <1>4 DEF Honest

\* What is stored was sent for the same sale date before or is sent next.
LEMMA StoreKnows ==
  ASSUME CycleTyped, Store
  PROVE  /\ cycle.pc = "store" /\ cycle'.pc = "send" /\ cycle'.sale = lot'.remSale
         /\ lot'.remSale = cycle.sale
         /\ \A o \in lot'.sent :
              \/ o \in cycle'.left /\ o \in UNION Offsets /\ cycle.sale \in SaleDates
              \/ cycle.sale = cycle.remSale /\ o \in cycle.sent
<1> DEFINE state == ReminderState(cycle, cycle.sale)
           known == SentFor(cycle.sale, cycle.remSale, cycle.sent)
           due == {o \in cycle.offsets \ known : ReminderDue(cycle.sale, cycle.now, o)}
<1>1. /\ cycle.pc = "store" /\ cycle'.pc = "send" /\ cycle'.sale = cycle.sale
      /\ cycle'.left = state.due /\ lot'.remSale = state.remSale /\ lot'.sent = state.sent
  BY SendingFields DEF Store
<1>2. state.due \subseteq UNION Offsets /\ (state.due # {} => cycle.sale \in SaleDates)
  BY <1>1, RemindersTyped
<1>3. CASE cycle.sale = NoSale
  <2>1. state.remSale = cycle.sale /\ state.sent = {}
    BY <1>3 DEF ReminderState
  <2>2. QED
    BY <1>1, <2>1
<1>4. CASE cycle.sale # NoSale
  <2>1. /\ state.remSale = cycle.sale /\ state.due = due
        /\ state.sent = (known \cup due) \cap cycle.offsets
    BY <1>4 DEF ReminderState
  <2>2. known \subseteq cycle.sent /\ (known # {} => cycle.sale = cycle.remSale)
    BY DEF SentFor
  <2> HIDE DEF state, known, due
  <2>3. QED
    BY <1>1, <1>2, <2>1, <2>2
<1>5. QED
  BY <1>3, <1>4

LEMMA StoreHonest ==
  ASSUME SInv, Store PROVE Honest'
<1>1. /\ cycle.pc = "store" /\ cycle'.pc = "send" /\ cycle'.sale = lot'.remSale
      /\ lot'.remSale = cycle.sale
      /\ \A o \in lot'.sent :
           \/ o \in cycle'.left /\ o \in UNION Offsets /\ cycle.sale \in SaleDates
           \/ cycle.sale = cycle.remSale /\ o \in cycle.sent
  BY StoreKnows DEF SInv
<1>2. UNCHANGED <<subs, inserted, alive, receipts, sender, got, troubles>>
  BY DEF Store, pushVars
<1>3. sender["worker"].pc = "idle"
  BY <1>1, SenderRests
<1>4. ReceiptsTrue' /\ WorkerSends'
  BY <1>1, <1>2, <1>3 DEF SInv, Honest, ReceiptsTrue, WorkerSends
<1>5. SentTyped'
  <2>1. ASSUME NEW o \in lot'.sent PROVE <<lot'.remSale, o>> \in Events
    <3>1. CASE o \in cycle'.left /\ o \in UNION Offsets /\ cycle.sale \in SaleDates
      BY <1>1, <3>1, RemindersAssumption
    <3>2. CASE cycle.sale = cycle.remSale /\ o \in cycle.sent
      BY <1>1, <3>2 DEF SInv, Honest, SentTyped
    <3>3. QED
      BY <1>1, <3>1, <3>2
  <2>2. QED
    BY <1>1, <2>1 DEF SentTyped
<1>6. NothingForgotten'
  <2> SUFFICES ASSUME troubles' = 0 PROVE Loaded' /\ CopyShown' /\ Stored'
    BY DEF NothingForgotten
  <2>1. CopyShown
    BY <1>2 DEF SInv, Honest, NothingForgotten
  <2>2. ASSUME NEW o \in lot'.sent PROVE Accounted(o)'
    <3>1. CASE o \in cycle'.left
      BY <1>1, <3>1 DEF Accounted
    <3>2. CASE cycle.sale = cycle.remSale /\ o \in cycle.sent
      <4>1. ShownAll(<<lot'.remSale, o>>)
        BY <1>1, <2>1, <3>2 DEF CopyShown
      <4>2. QED
        BY <1>2, <4>1 DEF Accounted, ShownAll
    <3>3. QED
      BY <1>1, <3>1, <3>2
  <2>3. QED
    BY <1>1, <1>2, <1>3, <2>2 DEF Loaded, CopyShown, Stored
<1>7. QED
  BY <1>4, <1>5, <1>6 DEF Honest

\* A cycle that ends, without having stored anything or with nothing left to send.
LEMMA EndHonest ==
  ASSUME SInv, PollFails \/ EndPoll PROVE Honest'
<1>1. /\ cycle'.pc = "idle" /\ lot' = lot /\ sender["worker"].pc = "idle"
      /\ UNCHANGED <<subs, inserted, alive, receipts, sender, got, troubles>>
  BY SendingFields, SenderRests DEF PollFails, EndPoll, Disturb, AtRest, pushVars
<1>2. ReceiptsTrue' /\ WorkerSends' /\ SentTyped'
  BY <1>1 DEF SInv, Honest, ReceiptsTrue, WorkerSends, SentTyped
<1>3. \A o \in lot.sent : Accounted(o) => ShownAll(<<lot.remSale, o>>)
  BY <1>1 DEF PollFails, EndPoll, Accounted
<1>4. NothingForgotten'
  BY <1>1, <1>3
     DEF SInv, Honest, NothingForgotten, Loaded, CopyShown, Stored, Accounted, ShownAll
<1>5. QED
  BY <1>2, <1>4 DEF Honest

LEMMA CutOffHonest ==
  ASSUME SInv, WorkerCutOff PROVE Honest'
<1>1. /\ cycle'.pc = "idle" /\ lot' = lot /\ troubles' # 0
      /\ sender'["worker"].pc = "idle"
      /\ UNCHANGED <<alive, receipts, got>>
  BY SendingFields, RestingTyped
     DEF WorkerCutOff, AtRest, SInv, DInv, SendersTyped, Senders
<1>2. ReceiptsTrue' /\ WorkerSends' /\ SentTyped'
  BY <1>1 DEF SInv, Honest, ReceiptsTrue, WorkerSends, SentTyped
<1>3. NothingForgotten'
  BY <1>1 DEF NothingForgotten
<1>4. QED
  BY <1>2, <1>3 DEF Honest

LEMMA SendHonest ==
  ASSUME SInv, NEW o \in cycle.left, SendReminder(o) PROVE Honest'
<1> DEFINE e == <<cycle.sale, o>>
           found == {[device |-> d, id |-> subs[d]] : d \in {x \in Devices : subs[x] # 0}}
<1>1. /\ cycle.pc = "send" /\ cycle'.pc = "send" /\ cycle'.sale = cycle.sale
      /\ cycle'.left = cycle.left \ {o} /\ lot' = lot
      /\ UNCHANGED <<subs, inserted, alive, receipts, got, troubles>>
  BY SendingFields DEF SendReminder, SendEvent
<1>2. /\ sender["worker"].pc = "idle" /\ sender'["worker"].pc = "next"
      /\ sender'["worker"].event = e /\ sender'["worker"].left = found
  BY DEF SendReminder, SendEvent, Load, SInv, DInv, SendersTyped, Senders
<1>3. e \in Events
  BY <1>1, RemindersAssumption DEF SInv, CycleTyped
<1>4. ReceiptsTrue' /\ WorkerSends' /\ SentTyped'
  BY <1>1, <1>2, <1>3 DEF SInv, Honest, ReceiptsTrue, WorkerSends, SentTyped
<1>5. NothingForgotten'
  <2> SUFFICES ASSUME troubles' = 0 PROVE Loaded' /\ CopyShown' /\ Stored'
    BY DEF NothingForgotten
  <2>1. Stored
    BY <1>1 DEF SInv, Honest, NothingForgotten
  <2>2. ASSUME NEW d \in alive, subs[d] = 1
        PROVE  [device |-> d, id |-> 1] \in found
    <3>1. d \in Devices
      BY DEF SInv, Known
    <3>2. QED
      BY <2>2, <3>1
  <2>3. Loaded'
    <3> HIDE DEF found
    <3>1. QED
      BY <1>1, <1>2, <2>2 DEF Loaded, OnTheWay
  <2>4. ASSUME NEW p \in lot.sent PROVE Accounted(p)'
    <3>1. CASE ShownAll(<<lot.remSale, p>>)
      BY <1>1, <3>1 DEF Accounted, ShownAll
    <3>2. CASE cycle.sale = lot.remSale /\ p \in cycle.left
      BY <1>1, <1>2, <3>2 DEF Accounted
    <3>3. QED
      BY <1>2, <2>1, <3>1, <3>2 DEF Stored, Accounted
  <2>5. QED
    BY <1>1, <2>3, <2>4 DEF CopyShown, Stored
<1>6. QED
  BY <1>4, <1>5 DEF Honest

----------------------------------------------------------------------------
(* All steps.                                                              *)

\* Everybody else: the owner, the administrator, the provider, the clock, the
\* devices and the sender of test notifications.
OtherStep ==
  \/ RefreshPage \/ RefreshStore \/ MoveSale \/ SetOffsets \/ Tick \/ PassBy
  \/ UNCHANGED vars
  \/ UNCHANGED lotVars /\ (DeviceStep \/ DeliveryStep("test") \/ Finish("test")
                           \/ CutOff("test"))

LEMMA TestReceipts ==
  ASSUME DInv, DeviceStep \/ DeliveryStep("test") \/ Finish("test") \/ CutOff("test")
  PROVE  /\ sender'["worker"] = sender["worker"]
         /\ \A e \in Events, d \in Devices :
              <<e, d>> \in receipts' => <<e, d>> \in receipts
<1>1. sender["test"].event = Test /\ Test \notin Events
  BY DeliveryAssumption DEF DInv, SendersTyped
<1>2. sender'["worker"] = sender["worker"]
  <2>1. sender' = sender \/ \E q : sender' = [sender EXCEPT !["test"] = q]
    BY DEF DeviceStep, Subscribe, Unsubscribe, EndpointExpires, SendTest, Load,
           DeliveryStep, SkipDuplicate, Send, SendFails, EndpointGone, CreateReceipt,
           ReceiptFails, RemoveSubscription, GoOn, Handle, Finish, CutOff
  <2>2. QED
    BY <2>1 DEF DInv, SendersTyped, Senders
<1>3. receipts' = receipts \/ receipts' = receipts \cup {<<Test, sender["test"].at.device>>}
  BY <1>1 DEF DeviceStep, Subscribe, Unsubscribe, EndpointExpires, SendTest,
              DeliveryStep, SkipDuplicate, Send, SendFails, EndpointGone, CreateReceipt,
              ReceiptFails, RemoveSubscription, Finish, CutOff
<1>4. QED
  BY <1>1, <1>2, <1>3

LEMMA OthersKeep ==
  ASSUME SInv, OtherStep PROVE Known' /\ Honest'
<1>1. CASE \/ RefreshPage \/ RefreshStore \/ MoveSale \/ SetOffsets \/ Tick \/ PassBy
           \/ UNCHANGED vars
  <2>1. /\ UNCHANGED <<subs, inserted, alive, receipts, sender, got, troubles, cycle>>
        /\ lot'.remSale = lot.remSale /\ lot'.sent = lot.sent
    <3>1. CASE RefreshPage \/ RefreshStore \/ MoveSale \/ SetOffsets \/ Tick
      BY <3>1 DEF RefreshPage, RefreshStore, MoveSale, SetOffsets, Tick, Disturb, pushVars
    <3>2. CASE PassBy \/ UNCHANGED vars
      BY <3>2 DEF PassBy, pushVars, lotVars, vars
    <3>3. QED
      BY <1>1, <3>1, <3>2
  <2>2. Grows /\ Known'
    BY <2>1, CalmGrows DEF SInv
  <2>3. QED
    BY <2>1, <2>2, OthersHonest
<1>2. CASE /\ UNCHANGED lotVars
           /\ DeviceStep \/ DeliveryStep("test") \/ Finish("test") \/ CutOff("test")
  <2>1. Grows /\ Known'
    BY <1>2, DeviceGrows, DeliveryGrows DEF SInv, Senders
  <2>2. QED
    BY <1>2, <2>1, TestReceipts, OthersHonest DEF SInv, lotVars
<1>3. QED
  BY <1>1, <1>2 DEF OtherStep

LEMMA WorkerKeeps ==
  ASSUME SInv,
         \/ StartPoll \/ Fetch \/ Store \/ PollFails \/ EndPoll \/ WorkerCutOff
         \/ \E o \in cycle.left : SendReminder(o)
  PROVE  Known' /\ Honest'
<1>1. Honest'
  BY StartHonest, FetchHonest, StoreHonest, EndHonest, CutOffHonest, SendHonest
<1>2. UNCHANGED <<inserted, alive>>
  BY DEF StartPoll, Fetch, Store, PollFails, EndPoll, WorkerCutOff, SendReminder,
         SendEvent, Disturb, pushVars
<1>3. QED
  BY <1>1, <1>2 DEF SInv, Known

LEMMA SStarts == Init => SInv
<1> SUFFICES ASSUME Init PROVE SInv
  OBVIOUS
<1>1. DInv
  BY PushStarts DEF Init
<1>2. /\ cycle.pc = "idle" /\ manual.pc = "idle" /\ lot.sent = {}
      /\ sender["worker"].pc = "idle" /\ receipts = {}
  BY SendingFields, RestingTyped
     DEF Init, AtRest, NoRefresh, PushInit, Senders
<1>3. CycleTyped /\ Known
  BY <1>2 DEF Init, PushInit, CycleTyped, Known
<1>4. Honest
  BY <1>2 DEF Honest, ReceiptsTrue, WorkerSends, SentTyped, NothingForgotten, Loaded,
              CopyShown, Stored
<1>5. QED
  BY <1>1, <1>3, <1>4 DEF SInv

LEMMA SKeeps == SInv /\ [Next]_vars => SInv'
<1> SUFFICES ASSUME SInv, [Next]_vars PROVE SInv'
  OBVIOUS
<1>1. DInv' /\ CycleTyped'
  BY ReminderSteps, CycleKeeps DEF SInv
<1>2. Known' /\ Honest'
  <2>1. CASE DeliveryStep("worker") /\ UNCHANGED lotVars
    BY <2>1, WorkerDelivers, DeliveryGrows DEF SInv, lotVars, Senders
  <2>2. CASE Finish("worker") /\ UNCHANGED lotVars
    BY <2>2, WorkerFinishes, DeliveryGrows DEF SInv, lotVars, Senders
  <2>3. CASE \/ StartPoll \/ Fetch \/ Store \/ PollFails \/ EndPoll \/ WorkerCutOff
             \/ \E o \in cycle.left : SendReminder(o)
    BY <2>3, WorkerKeeps
  <2>4. CASE OtherStep
    BY <2>4, OthersKeep
  <2>5. QED
    BY <2>1, <2>2, <2>3, <2>4 DEF Next, PollStep, PushStep, OtherStep, Senders
<1>3. QED
  BY <1>1, <1>2 DEF SInv

\* Unless a delivery failed or was cut off, a reminder that the document of the lot
\* lists as sent has been shown by every device that was there all the time: storing
\* it before sending it loses nothing, whatever the sale dates, the settings, the
\* owner's refreshes and the test notifications do in between.
THEOREM StoredIsShown == Spec => []SentMeansShown
<1>1. SInv => SentMeansShown
  BY DEF SInv, Honest, NothingForgotten, Stored, Accounted, ShownAll, SentMeansShown, Idle
<1>2. QED
  BY <1>1, SStarts, SKeeps, PTL DEF Spec

----------------------------------------------------------------------------
(* On time.                                                                *)

LotFields ==
  [sale : Dates, remSale : Dates, sent : SUBSET UNION Offsets, checked : Nat]

\* Times in their order; a poll works with the time of the cycle it belongs to.
Timed ==
  /\ clock \in Nat /\ visited \in 0..clock /\ touched \in 0..clock
  /\ lot \in LotFields /\ lot.checked <= clock /\ retryAt \in Nat
  /\ manual.pc = "store" => manual.now \in 0..clock
  /\ cycle.pc \in {"fetch", "store"} =>
       /\ cycle.now = visited
       /\ cycle.remSale \in Dates /\ cycle.sent \subseteq UNION Offsets

\* The reminders due at time t that nobody's change excuses are stored as sent.
SentAt(t) ==
  lot.sale # NoSale =>
    \A o \in offsets :
      ReminderDue(lot.sale, t, o) /\ lot.sale - o > touched
        => lot.remSale = lot.sale /\ o \in lot.sent

\* The settings and the sale date a poll works with are those in force, unless
\* somebody has changed the lot or the settings since it began.
CopyCurrent ==
  cycle.pc \in {"fetch", "store"} /\ touched < cycle.now =>
    /\ cycle.offsets = offsets
    /\ cycle.pc = "fetch" \/ ~cycle.modified => cycle.sale = lot.sale

\* Likewise, what a poll has stored is the last check.
CheckCurrent == cycle.pc = "send" /\ touched < visited => lot.checked = visited

\* The worker has come by at this tick, the job runtime did not refuse the lot, and
\* no poll was given up.
CameBy == cycle.pc = "idle" /\ visited = clock /\ ~unread /\ clock >= retryAt

Timely == SentAt(lot.checked) /\ CopyCurrent /\ CheckCurrent /\ (CameBy => SentAt(clock))

TInv == CycleTyped /\ Timed /\ Timely

LEMMA DatesAreNumbers ==
  ASSUME CycleTyped
  PROVE  /\ lot.sale \in Int /\ offsets \subseteq Nat
         /\ lot.sale # NoSale => lot.sale \in Nat
<1>1. offsets \subseteq Nat
  BY RemindersAssumption DEF CycleTyped
<1>2. lot.sale # NoSale => lot.sale \in Nat
  BY RemindersAssumption DEF CycleTyped, Dates
<1>3. NoSale \in Int
  BY DEF NoSale
<1>4. QED
  BY <1>1, <1>2, <1>3

\* A reminder due now belongs to a threshold that is not after now: a change made
\* now excuses it.
LEMMA JustChanged ==
  ASSUME CycleTyped', touched' \in Nat, NEW t \in Nat, t <= touched'
  PROVE  SentAt(t)'
<1> SUFFICES ASSUME lot'.sale # NoSale, NEW o \in offsets', ReminderDue(lot'.sale, t, o),
                    lot'.sale - o > touched'
             PROVE  FALSE
  BY DEF SentAt, ReminderDue
<1>1. lot'.sale \in Nat /\ o \in Nat
  BY RemindersAssumption DEF CycleTyped, Dates
<1>2. lot'.sale - o <= t
  BY <1>1 DEF ReminderDue
<1>3. QED
  BY <1>1, <1>2

\* Nothing that SentAt depends on changes.
LEMMA SentStays ==
  ASSUME NEW t, SentAt(t), lot'.sale = lot.sale, lot'.remSale = lot.remSale,
         lot'.sent = lot.sent, offsets' = offsets, touched' = touched
  PROVE  SentAt(t)'
  BY DEF SentAt, ReminderDue

\* A cycle that passes the lot by: no threshold has been crossed since the last
\* check, at which what was due had been stored as sent.
LEMMA NotCrossed ==
  ASSUME TInv, ~Crossed(clock) PROVE SentAt(clock)
<1> SUFFICES ASSUME lot.sale # NoSale, NEW o \in offsets, ReminderDue(lot.sale, clock, o),
                    lot.sale - o > touched
             PROVE  lot.remSale = lot.sale /\ o \in lot.sent
  BY DEF SentAt
<1>1. lot.sale \in Nat /\ o \in Nat /\ clock \in Nat /\ lot.checked \in Nat
      /\ lot.checked <= clock
  BY DatesAreNumbers DEF TInv, Timed, LotFields
<1>2. lot.sale - o <= clock /\ (o > 0 => clock < lot.sale)
  BY <1>1 DEF ReminderDue
<1>3. CASE o \in SentFor(lot.sale, lot.remSale, lot.sent)
  BY <1>3 DEF SentFor
<1>4. CASE o \notin SentFor(lot.sale, lot.remSale, lot.sent)
  <2>1. ~(lot.checked < lot.sale - o)
    BY <1>2, <1>4 DEF Crossed
  <2>2. ReminderDue(lot.sale, lot.checked, o)
    BY <1>1, <1>2, <2>1 DEF ReminderDue
  <2>3. QED
    BY <2>2 DEF TInv, Timely, SentAt
<1>5. QED
  BY <1>3, <1>4

\* What is due at the time of the poll is stored as sent.
LEMMA StoreSends ==
  ASSUME TInv, Store PROVE SentAt(lot.checked)'
<1> DEFINE state == ReminderState(cycle, cycle.sale)
           known == SentFor(cycle.sale, cycle.remSale, cycle.sent)
           due == {o \in cycle.offsets \ known : ReminderDue(cycle.sale, cycle.now, o)}
<1>1. /\ cycle.pc = "store" /\ lot'.checked = cycle.now
      /\ lot'.sale = (IF cycle.modified THEN cycle.sale ELSE lot.sale)
      /\ lot'.remSale = state.remSale /\ lot'.sent = state.sent
      /\ UNCHANGED <<offsets, touched, visited>>
  BY DEF Store
<1>2. cycle.now = visited /\ visited \in Nat /\ touched \in Nat /\ CycleTyped'
  BY <1>1, CycleKeeps DEF TInv, Timed, Next, PollStep
<1>3. CASE touched < cycle.now
  <2>1. cycle.offsets = offsets /\ lot'.sale = cycle.sale
    BY <1>1, <1>3 DEF TInv, Timely, CopyCurrent
  <2>2. ASSUME cycle.sale # NoSale, NEW o \in offsets, ReminderDue(cycle.sale, cycle.now, o)
        PROVE  state.remSale = cycle.sale /\ o \in state.sent
    <3>1. state.remSale = cycle.sale /\ state.sent = (known \cup due) \cap cycle.offsets
      BY <2>2 DEF ReminderState
    <3>2. o \in known \cup due
      BY <2>1, <2>2
    <3> HIDE DEF state, known, due
    <3>3. QED
      BY <2>1, <2>2, <3>1, <3>2
  <2> HIDE DEF state
  <2>3. QED
    BY <1>1, <2>1, <2>2 DEF SentAt
<1>4. CASE ~(touched < cycle.now)
  <2>1. PICK t \in Nat : t = cycle.now
    BY <1>2
  <2>2. t <= touched' /\ touched' \in Nat
    BY <1>1, <1>2, <1>4, <2>1
  <2>3. SentAt(t)'
    BY <1>2, <2>2, JustChanged
  <2>4. QED
    BY <1>1, <2>1, <2>3 DEF SentAt
<1>5. QED
  BY <1>3, <1>4

\* The fields of what a poll stores.
LEMMA StoredTyped ==
  ASSUME CycleTyped, Timed, Store PROVE lot' \in LotFields /\ lot'.checked = cycle.now
<1> DEFINE state == ReminderState(cycle, cycle.sale)
           sale == IF cycle.modified THEN cycle.sale ELSE lot.sale
<1>1. /\ cycle.pc = "store"
      /\ lot' = [sale |-> sale, checked |-> cycle.now, remSale |-> state.remSale,
                 sent |-> state.sent]
  BY DEF Store
<1>2. cycle.sale \in Dates /\ cycle.offsets \in Offsets /\ cycle.now \in Nat
      /\ sale \in Dates
  BY <1>1 DEF CycleTyped, Timed
<1>3. state.remSale \in Dates /\ state.sent \in SUBSET UNION Offsets
  <2>1. CASE cycle.sale = NoSale
    <3>1. state.remSale = NoSale /\ state.sent = {}
      BY <2>1 DEF ReminderState
    <3>2. QED
      BY <3>1 DEF Dates
  <2>2. CASE cycle.sale # NoSale
    <3>1. state.remSale = cycle.sale /\ state.sent \subseteq cycle.offsets
      BY <2>2 DEF ReminderState
    <3>2. QED
      BY <1>2, <3>1
  <2>3. QED
    BY <2>1, <2>2
<1> HIDE DEF state, sale
<1>4. QED
  BY <1>1, <1>2, <1>3 DEF LotFields

LEMMA TimedKeeps ==
  ASSUME CycleTyped, Timed, [Next]_vars PROVE Timed'
<1>1. AtRest.pc = "idle" /\ NoRefresh.pc = "idle"
  BY SendingFields DEF AtRest, NoRefresh
<1>2. lot.sent \subseteq UNION Offsets /\ lot.remSale \in Dates /\ lot.sale \in Dates
      /\ lot.checked \in Nat
  BY DEF Timed, LotFields
<1>3. CASE Store
  <2>1. /\ cycle.pc = "store" /\ cycle'.pc = "send"
        /\ UNCHANGED <<clock, visited, touched, manual, retryAt>>
    BY <1>3, SendingFields DEF Store
  <2>2. QED
    BY <1>3, <2>1, StoredTyped DEF Timed
<1>4. CASE \E o \in cycle.left : SendReminder(o)
  <2>1. cycle'.pc = "send" /\ UNCHANGED <<clock, visited, touched, manual, lot, retryAt>>
    BY <1>4, SendingFields DEF SendReminder
  <2>2. QED
    BY <2>1 DEF Timed
<1>5. CASE StartPoll
  <2>1. /\ cycle'.pc = "fetch" /\ cycle'.now = clock /\ visited' = clock
        /\ cycle'.remSale = lot.remSale /\ cycle'.sent = lot.sent
        /\ UNCHANGED <<clock, touched, manual, lot, retryAt>>
    BY <1>5 DEF StartPoll
  <2>2. QED
    BY <1>2, <2>1 DEF Timed
<1>6. CASE Fetch
  <2>1. /\ cycle.pc = "fetch" /\ cycle'.now = cycle.now
        /\ cycle'.remSale = cycle.remSale /\ cycle'.sent = cycle.sent
        /\ UNCHANGED <<clock, visited, touched, manual, lot, retryAt>>
    BY <1>6 DEF Fetch
  <2>2. QED
    BY <2>1 DEF Timed
<1>7. CASE PassBy
  <2>1. /\ cycle'.pc = "idle" /\ visited' = clock
        /\ UNCHANGED <<clock, touched, manual, lot, retryAt>>
    BY <1>7 DEF PassBy, Idle
  <2>2. QED
    BY <2>1 DEF Timed
<1>8. CASE PollFails \/ EndPoll \/ WorkerCutOff
  <2>1. cycle'.pc = "idle" /\ UNCHANGED <<clock, visited, touched, manual, lot>>
    BY <1>1, <1>8 DEF PollFails, EndPoll, WorkerCutOff
  <2>2. retryAt' \in {retryAt, visited, visited + Backoff}
    BY <1>8 DEF PollFails, EndPoll, WorkerCutOff, Timed
  <2>3. QED
    BY <2>1, <2>2, RemindersAssumption DEF Timed
<1>9. CASE RefreshPage
  <2>1. manual'.now = clock /\ UNCHANGED <<clock, visited, touched, lot, cycle, retryAt>>
    BY <1>9 DEF RefreshPage
  <2>2. QED
    BY <2>1 DEF Timed
<1>10. CASE RefreshStore
  <2>1. /\ manual.pc = "store" /\ manual'.pc = "idle" /\ touched' = clock
        /\ lot' = [sale |-> manual.sale, remSale |-> lot.remSale, sent |-> lot.sent,
                   checked |-> manual.now]
        /\ UNCHANGED <<clock, visited, cycle, retryAt>>
    BY <1>1, <1>10 DEF RefreshStore
  <2>2. manual.sale \in Dates /\ manual.now \in 0..clock /\ clock \in Nat
    BY <2>1 DEF CycleTyped, Timed
  <2>3. lot' \in LotFields /\ lot'.checked <= clock
    BY <1>2, <2>1, <2>2 DEF LotFields
  <2>4. QED
    BY <2>1, <2>3 DEF Timed
<1>11. CASE MoveSale \/ PushStep \/ (CutOff("test") /\ UNCHANGED lotVars) \/ UNCHANGED vars
  <2>1. UNCHANGED <<clock, visited, touched, manual, lot, cycle, retryAt>>
    BY <1>11 DEF MoveSale, PushStep, lotVars, vars
  <2>2. QED
    BY <2>1 DEF Timed
<1>12. CASE SetOffsets
  <2>1. touched' = clock /\ UNCHANGED <<clock, visited, manual, lot, cycle, retryAt>>
    BY <1>12 DEF SetOffsets
  <2>2. QED
    BY <2>1 DEF Timed
<1>13. CASE Tick
  <2>1. clock' = clock + 1 /\ UNCHANGED <<visited, touched, manual, lot, cycle, retryAt>>
    BY <1>13 DEF Tick
  <2>2. QED
    BY <1>2, <2>1 DEF Timed
<1>14. QED
  BY <1>3, <1>4, <1>5, <1>6, <1>7, <1>8, <1>9, <1>10, <1>11, <1>12, <1>13
     DEF Next, PollStep

LEMMA TimelyKeeps ==
  ASSUME TInv, [Next]_vars PROVE Timely'
<1>1. AtRest.pc = "idle" /\ NoRefresh.pc = "idle"
  BY SendingFields DEF AtRest, NoRefresh
<1>2. CycleTyped' /\ Timed'
  BY CycleKeeps, TimedKeeps DEF TInv
<1>3. /\ clock \in Nat /\ visited \in 0..clock /\ touched \in 0..clock
      /\ lot.checked \in Nat /\ lot.checked <= clock
  BY DEF TInv, Timed, LotFields
<1>4. SentAt(lot.checked) /\ CopyCurrent /\ CheckCurrent /\ (CameBy => SentAt(clock))
  BY DEF TInv, Timely
<1>5. CASE StartPoll
  <2>1. /\ cycle'.pc = "fetch" /\ cycle'.offsets = offsets /\ cycle'.sale = lot.sale
        /\ UNCHANGED <<offsets, lot, touched>>
    BY <1>5 DEF StartPoll
  <2>2. SentAt(lot.checked)'
    BY <1>4, <2>1 DEF SentAt, ReminderDue
  <2>3. QED
    BY <2>1, <2>2 DEF Timely, CopyCurrent, CheckCurrent, CameBy
<1>6. CASE PassBy
  <2>1. /\ cycle'.pc = "idle"
        /\ ~Crossed(clock) \/ clock < retryAt
        /\ UNCHANGED <<offsets, lot, touched, clock, retryAt>>
    BY <1>6 DEF PassBy, Idle, ShouldPoll
  <2>2. SentAt(lot.checked)'
    BY <1>4, <2>1 DEF SentAt, ReminderDue
  <2>3. ASSUME CameBy' PROVE SentAt(clock)'
    <3>1. clock >= retryAt /\ retryAt \in Nat
      BY <2>1, <2>3 DEF CameBy, TInv, Timed
    <3>2. SentAt(clock)
      BY <1>3, <2>1, <3>1, NotCrossed
    <3>3. QED
      BY <2>1, <3>2 DEF SentAt, ReminderDue
  <2>4. CopyCurrent' /\ CheckCurrent'
    BY <2>1 DEF CopyCurrent, CheckCurrent
  <2>5. QED
    BY <2>2, <2>3, <2>4 DEF Timely
<1>7. CASE Fetch
  <2>1. /\ cycle.pc = "fetch" /\ cycle'.pc = "store" /\ cycle'.now = cycle.now
        /\ cycle'.offsets = cycle.offsets /\ cycle'.sale = page
        /\ UNCHANGED <<offsets, lot, touched>>
    BY <1>7 DEF Fetch
  <2>2. ~cycle'.modified => cycle.sale = page
    <3>1. PICK modified \in {TRUE, cycle.sale # page} :
            cycle' = [pc |-> "store", now |-> cycle.now, sale |-> page,
                      remSale |-> cycle.remSale, sent |-> cycle.sent,
                      offsets |-> cycle.offsets, modified |-> modified, left |-> {}]
      BY <1>7, Zenon DEF Fetch
    <3>2. cycle'.modified = modified
      BY <3>1
    <3>3. modified = TRUE \/ modified = (cycle.sale # page)
      BY <3>1, Zenon
    <3>4. QED
      BY <3>2, <3>3, Zenon
  <2>3. SentAt(lot.checked)'
    BY <1>4, <2>1 DEF SentAt, ReminderDue
  <2>4. CopyCurrent'
    BY <1>4, <2>1, <2>2 DEF CopyCurrent
  <2>5. QED
    BY <2>1, <2>3, <2>4 DEF Timely, CheckCurrent, CameBy
<1>8. CASE Store
  <2>1. /\ cycle.pc = "store" /\ cycle'.pc = "send" /\ lot'.checked = cycle.now
        /\ visited' = visited
    BY <1>8, SendingFields DEF Store
  <2>2. cycle.now = visited
    BY <2>1 DEF TInv, Timed
  <2>3. QED
    BY <1>8, <2>1, <2>2, StoreSends DEF Timely, CopyCurrent, CheckCurrent, CameBy
<1>9. CASE PollFails \/ WorkerCutOff
  <2>1. /\ cycle'.pc = "idle" /\ unread' = TRUE
        /\ UNCHANGED <<offsets, lot, touched, clock, visited>>
    BY <1>1, <1>9 DEF PollFails, WorkerCutOff, TInv, Timed
  <2>3. ~CameBy'
    BY <2>1 DEF CameBy
  <2>4. SentAt(lot.checked)'
    BY <1>4, <2>1 DEF SentAt, ReminderDue
  <2>5. QED
    BY <2>1, <2>3, <2>4 DEF Timely, CopyCurrent, CheckCurrent
<1>10. CASE \E o \in cycle.left : SendReminder(o)
  <2>1. /\ cycle.pc = "send" /\ cycle'.pc = "send"
        /\ UNCHANGED <<offsets, lot, touched, visited>>
    BY <1>10, SendingFields DEF SendReminder
  <2>2. SentAt(lot.checked)'
    BY <1>4, <2>1 DEF SentAt, ReminderDue
  <2>3. QED
    BY <1>4, <2>1, <2>2 DEF Timely, CopyCurrent, CheckCurrent, CameBy
<1>11. CASE EndPoll
  <2>1. /\ cycle.pc = "send" /\ cycle'.pc = "idle"
        /\ UNCHANGED <<offsets, lot, touched, clock, visited>>
    BY <1>1, <1>11 DEF EndPoll
  <2>2. SentAt(lot.checked)'
    BY <1>4, <2>1 DEF SentAt, ReminderDue
  <2>3. ASSUME CameBy' PROVE SentAt(clock)'
    <3>1. visited = clock
      BY <2>1, <2>3 DEF CameBy
    <3>2. CASE touched < visited
      BY <1>4, <2>1, <2>2, <3>1, <3>2 DEF CheckCurrent, SentAt
    <3>3. CASE ~(touched < visited)
      <4>1. PICK t \in Nat : t = clock
        BY <1>3
      <4>2. touched' \in Nat /\ t <= touched'
        BY <1>3, <2>1, <3>1, <3>3, <4>1
      <4>3. SentAt(t)'
        BY <1>2, <4>2, JustChanged
      <4>4. QED
        BY <2>1, <4>1, <4>3 DEF SentAt
    <3>4. QED
      BY <3>2, <3>3
  <2>4. QED
    BY <2>1, <2>2, <2>3 DEF Timely, CopyCurrent, CheckCurrent
<1>12. CASE RefreshStore \/ SetOffsets
  <2>1. touched' = clock /\ UNCHANGED <<clock, visited, cycle>>
    BY <1>12 DEF RefreshStore, SetOffsets
  <2>2. ASSUME NEW t \in Nat, t <= clock PROVE SentAt(t)'
    BY <1>2, <1>3, <2>1, <2>2, JustChanged
  <2>3. SentAt(lot.checked)'
    <3>1. lot'.checked \in Nat /\ lot'.checked <= clock
      BY <1>2, <2>1 DEF Timed, LotFields
    <3>2. QED
      BY <2>2, <3>1 DEF SentAt
  <2>4. SentAt(clock)'
    BY <1>3, <2>1, <2>2 DEF SentAt
  <2>5. touched' >= visited'
    BY <1>3, <2>1
  <2>6. cycle.pc \in {"fetch", "store"} => cycle.now = visited
    BY DEF TInv, Timed
  <2>7. CopyCurrent' /\ CheckCurrent'
    BY <1>3, <2>1, <2>6 DEF CopyCurrent, CheckCurrent
  <2>8. QED
    BY <2>3, <2>4, <2>7 DEF Timely
<1>13. CASE Tick
  <2>1. clock' = clock + 1 /\ UNCHANGED <<visited, offsets, lot, cycle, touched>>
    BY <1>13 DEF Tick
  <2>2. ~CameBy'
    BY <1>3, <2>1 DEF CameBy
  <2>3. SentAt(lot.checked)'
    BY <1>4, <2>1 DEF SentAt, ReminderDue
  <2>4. QED
    BY <1>4, <2>1, <2>2, <2>3 DEF Timely, CopyCurrent, CheckCurrent
<1>14. CASE \/ RefreshPage \/ MoveSale \/ PushStep
            \/ (CutOff("test") /\ UNCHANGED lotVars) \/ UNCHANGED vars
  <2>1. UNCHANGED <<clock, visited, unread, offsets, lot, retryAt, cycle, touched>>
    BY <1>14 DEF RefreshPage, MoveSale, PushStep, lotVars, vars
  <2>2. SentAt(lot.checked)' /\ (SentAt(clock) => SentAt(clock)')
    BY <1>4, <2>1 DEF SentAt, ReminderDue
  <2>3. QED
    BY <1>4, <2>1, <2>2 DEF Timely, CopyCurrent, CheckCurrent, CameBy
<1>15. QED
  BY <1>5, <1>6, <1>7, <1>8, <1>9, <1>10, <1>11, <1>12, <1>13, <1>14
     DEF Next, PollStep

LEMMA TimeStarts == Init => CycleTyped /\ Timed /\ Timely
<1> SUFFICES ASSUME Init PROVE CycleTyped /\ Timed /\ Timely
  OBVIOUS
<1>1. /\ clock = 0 /\ visited = 0 /\ touched = 0 /\ retryAt = 0 /\ cycle.pc = "idle"
      /\ manual.pc = "idle" /\ page \in Dates /\ offsets \in Offsets
      /\ lot = [sale |-> page, remSale |-> page, sent |-> {}, checked |-> 0]
  BY SendingFields DEF Init, AtRest, NoRefresh
<1>2. CycleTyped /\ Timed
  BY <1>1 DEF CycleTyped, Timed, LotFields
<1>3. SentAt(0)
  <2> SUFFICES ASSUME lot.sale # NoSale, NEW o \in offsets, ReminderDue(lot.sale, 0, o),
                      lot.sale - o > touched
               PROVE  FALSE
    BY DEF SentAt
  <2>1. lot.sale \in Nat /\ o \in Nat
    BY <1>2, DatesAreNumbers
  <2>2. QED
    BY <1>1, <2>1 DEF ReminderDue
<1>4. QED
  BY <1>1, <1>2, <1>3 DEF Timely, CopyCurrent, CheckCurrent, SentAt

LEMMA TKeeps == TInv /\ [Next]_vars => TInv'
  BY CycleKeeps, TimedKeeps, TimelyKeeps DEF TInv

\* However long the polling interval is, after failed polls, back-offs and cycles cut
\* off, the first cycle that comes by after the threshold of a reminder, is not
\* refused the lot and finishes its poll if it begins one, sends that reminder, unless
\* the lot or the settings were changed by others after the threshold.
THEOREM RemindersOnTime == Spec => []OnTime
<1>1. TInv => OnTime
  BY DEF TInv, Timely, CameBy, SentAt, OnTime, Idle
<1>2. Init => TInv
  BY TimeStarts DEF TInv
<1>3. QED
  BY <1>1, <1>2, TKeeps, PTL DEF Spec

----------------------------------------------------------------------------
(* Well formed.                                                            *)

\* Only subscriptions that exist are loaded, and only events leave receipts.
SenderSound(q) ==
  /\ q.left \subseteq Subscriptions
  /\ q.pc \in {"receipt", "remove"} => q.at \in Subscriptions
  /\ q.pc = "receipt" => q.event \in Events

PushBounded ==
  /\ inserted \in 1..MaxInserts /\ alive \subseteq Devices
  /\ receipts \subseteq Events \X Devices
  /\ \A s \in Senders : SenderSound(sender[s])
  /\ troubles \in 0..MaxTroubles /\ churn \in 0..MaxChurn

ClockBounded ==
  /\ clock <= Horizon
  /\ cycle.pc \in {"idle", "fetch", "store", "send"} /\ cycle.left \subseteq UNION Offsets
  /\ manual.pc \in {"idle", "store"}

LEMMA RestingSound == SenderSound(Resting)
  BY DEF SenderSound, Resting

LEMMA SoundMoves ==
  ASSUME DInv, PushBounded, NEW s \in Senders, NEW q, SenderSound(q),
         sender' = [sender EXCEPT ![s] = q]
  PROVE  \A t \in Senders : SenderSound(sender'[t])
  BY DEF DInv, SendersTyped, PushBounded

LEMMA SoundGoOn ==
  ASSUME DInv, PushBounded, NEW s \in Senders, NEW sub, GoOn(s, sub)
  PROVE  \A t \in Senders : SenderSound(sender'[t])
<1> DEFINE q == [pc |-> "next", event |-> sender[s].event, at |-> NoDevice,
                 left |-> sender[s].left \ {sub}]
<1>1. SenderSound(q)
  BY DEF SenderSound, PushBounded
<1>2. sender' = [sender EXCEPT ![s] = q]
  BY DEF GoOn
<1> HIDE DEF q
<1>3. QED
  BY <1>1, <1>2, SoundMoves

LEMMA SoundHandle ==
  ASSUME DInv, PushBounded, NEW s \in Senders, NEW sub \in sender[s].left,
         NEW pc \in {"receipt", "remove"}, Handle(s, sub, pc),
         pc = "receipt" => sender[s].event \in Events
  PROVE  \A t \in Senders : SenderSound(sender'[t])
<1> DEFINE q == [pc |-> pc, event |-> sender[s].event, at |-> sub,
                 left |-> sender[s].left \ {sub}]
<1>1. SenderSound(q)
  BY DEF SenderSound, PushBounded
<1>2. sender' = [sender EXCEPT ![s] = q]
  BY DEF Handle
<1> HIDE DEF q
<1>3. QED
  BY <1>1, <1>2, SoundMoves

LEMMA SoundLoad ==
  ASSUME DInv, PushBounded, NEW s \in Senders, NEW e, Load(s, e)
  PROVE  \A t \in Senders : SenderSound(sender'[t])
<1> DEFINE found == {[device |-> d, id |-> subs[d]] : d \in {x \in Devices : subs[x] # 0}}
           q == [pc |-> "next", event |-> e, at |-> NoDevice, left |-> found]
<1>1. found \subseteq Subscriptions
  BY DEF DInv, Subscriptions
<1>2. SenderSound(q)
  <2> HIDE DEF found
  <2>1. QED
    BY <1>1 DEF SenderSound
<1>3. sender' = [sender EXCEPT ![s] = q]
  BY DEF Load
<1> HIDE DEF q
<1>4. QED
  BY <1>2, <1>3, SoundMoves

LEMMA DeliveryBounded ==
  ASSUME DInv, PushBounded, NEW s \in Senders, DeliveryStep(s) \/ Finish(s) \/ CutOff(s)
  PROVE  PushBounded'
<1>1. UNCHANGED <<inserted, alive, churn>>
  BY DEF DeliveryStep, SkipDuplicate, Send, SendFails, EndpointGone, CreateReceipt,
         ReceiptFails, RemoveSubscription, Finish, CutOff
<1>2. troubles' \in 0..MaxTroubles
  <2>1. troubles' = troubles \/ (troubles < MaxTroubles /\ troubles' = troubles + 1)
    BY DEF DeliveryStep, SkipDuplicate, Send, SendFails, EndpointGone, CreateReceipt,
           ReceiptFails, RemoveSubscription, Finish, CutOff
  <2>2. QED
    BY <2>1, DeliveryAssumption DEF PushBounded
<1>3. receipts' \subseteq Events \X Devices
  <2>1. CASE CreateReceipt(s)
    <3>1. /\ sender[s].pc = "receipt"
          /\ receipts' = receipts \cup {<<sender[s].event, sender[s].at.device>>}
      BY <2>1 DEF CreateReceipt
    <3>2. SenderSound(sender[s])
      BY DEF PushBounded
    <3>3. sender[s].event \in Events /\ sender[s].at.device \in Devices
      BY <3>1, <3>2 DEF SenderSound, Subscriptions
    <3>4. QED
      BY <3>1, <3>3 DEF PushBounded
  <2>2. CASE receipts' = receipts
    BY <2>2 DEF PushBounded
  <2>3. QED
    BY <2>1, <2>2 DEF DeliveryStep, SkipDuplicate, Send, SendFails, EndpointGone,
                      ReceiptFails, RemoveSubscription, Finish, CutOff
<1>4. \A t \in Senders : SenderSound(sender'[t])
  <2>1. sender[s].event \in Events \cup {Test}
    BY SenderFields
  <2>2. ASSUME NEW sub \in sender[s].left,
               \/ SkipDuplicate(s, sub) \/ Send(s, sub) \/ SendFails(s, sub)
               \/ EndpointGone(s, sub)
        PROVE  \A t \in Senders : SenderSound(sender'[t])
    <3>1. \/ GoOn(s, sub) \/ Handle(s, sub, "remove")
          \/ Handle(s, sub, "receipt") /\ sender[s].event \in Events
      BY <2>1, <2>2 DEF SkipDuplicate, Send, SendFails, EndpointGone
    <3>2. QED
      BY <3>1, SoundGoOn, SoundHandle
  <2>3. CASE CreateReceipt(s) \/ ReceiptFails(s) \/ RemoveSubscription(s)
    BY <2>3, SoundGoOn DEF CreateReceipt, ReceiptFails, RemoveSubscription
  <2>4. CASE Finish(s) \/ CutOff(s)
    BY <2>4, RestingSound, SoundMoves DEF Finish, CutOff
  <2>5. QED
    BY <2>2, <2>3, <2>4 DEF DeliveryStep
<1>5. QED
  BY <1>1, <1>2, <1>3, <1>4 DEF PushBounded

LEMMA DeviceBounded ==
  ASSUME DInv, PushBounded, DeviceStep PROVE PushBounded'
<1>1. churn < MaxChurn /\ churn' = churn + 1 /\ UNCHANGED <<receipts, troubles>>
      /\ alive' \subseteq alive
  BY DEF DeviceStep, Subscribe, Unsubscribe, EndpointExpires, SendTest, Churn
<1>2. churn' \in 0..MaxChurn
  BY <1>1, DeliveryAssumption DEF PushBounded
<1>3. inserted' \in 1..MaxInserts
  <2>1. inserted' = inserted \/ (inserted < MaxInserts /\ inserted' = inserted + 1)
    BY DEF DeviceStep, Subscribe, Unsubscribe, EndpointExpires, SendTest
  <2>2. QED
    BY <2>1, DeliveryAssumption DEF PushBounded
<1>4. \A t \in Senders : SenderSound(sender'[t])
  <2>1. CASE SendTest
    BY <2>1, SoundLoad DEF SendTest, Senders
  <2>2. CASE sender' = sender
    BY <2>2 DEF PushBounded
  <2>3. QED
    BY <2>1, <2>2 DEF DeviceStep, Subscribe, Unsubscribe, EndpointExpires
<1>5. QED
  BY <1>1, <1>2, <1>3, <1>4 DEF PushBounded

LEMMA PushBoundKept ==
  ASSUME DInv, PushBounded, [Next]_vars PROVE PushBounded'
<1>1. CASE PushStep \/ CutOff("test")
  BY <1>1, DeviceBounded, DeliveryBounded DEF PushStep, Senders
<1>2. CASE \E o \in cycle.left : SendReminder(o)
  <2>1. PICK o \in cycle.left : SendEvent(<<cycle.sale, o>>)
    BY <1>2 DEF SendReminder
  <2>2. \A t \in Senders : SenderSound(sender'[t])
    BY <2>1, SoundLoad DEF SendEvent, Senders
  <2>3. QED
    BY <2>1, <2>2 DEF SendEvent, PushBounded
<1>3. CASE WorkerCutOff
  <2>1. /\ sender' = [sender EXCEPT !["worker"] = Resting]
        /\ troubles < MaxTroubles /\ troubles' = troubles + 1
        /\ UNCHANGED <<inserted, alive, receipts, churn>>
    BY <1>3 DEF WorkerCutOff
  <2>2. \A t \in Senders : SenderSound(sender'[t])
    BY <2>1, RestingSound, SoundMoves DEF Senders
  <2>3. troubles' \in 0..MaxTroubles
    BY <2>1, DeliveryAssumption DEF PushBounded
  <2>4. QED
    BY <2>1, <2>2, <2>3 DEF PushBounded
<1>4. CASE PollFails \/ RefreshPage \/ MoveSale \/ SetOffsets
  <2>1. /\ churn < MaxChurn /\ churn' = churn + 1
        /\ UNCHANGED <<inserted, alive, receipts, sender, troubles>>
    BY <1>4 DEF PollFails, RefreshPage, MoveSale, SetOffsets, Disturb, Churn
  <2>2. churn' \in 0..MaxChurn
    BY <2>1, DeliveryAssumption DEF PushBounded
  <2>3. QED
    BY <2>1, <2>2 DEF PushBounded
<1>5. CASE \/ StartPoll \/ PassBy \/ Fetch \/ Store \/ EndPoll \/ RefreshStore \/ Tick
           \/ UNCHANGED vars
  <2>1. UNCHANGED <<inserted, alive, receipts, sender, troubles, churn>>
    BY <1>5 DEF StartPoll, PassBy, Fetch, Store, EndPoll, RefreshStore, Tick, pushVars, vars
  <2>2. QED
    BY <2>1 DEF PushBounded
<1>6. QED
  BY <1>1, <1>2, <1>3, <1>4, <1>5 DEF Next, PollStep

LEMMA AtRestFields ==
  /\ AtRest.pc = "idle" /\ AtRest.left = {}
  /\ NoRefresh.pc = "idle"
  BY SendingFields DEF AtRest, NoRefresh

LEMMA ClockBoundKept ==
  ASSUME CycleTyped, Timed, ClockBounded, [Next]_vars PROVE ClockBounded'
<1>1. CASE Store
  <2>1. /\ cycle'.pc = "send" /\ cycle'.left = ReminderState(cycle, cycle.sale).due
        /\ cycle.pc = "store" /\ UNCHANGED <<clock, manual>>
    BY <1>1, SendingFields DEF Store
  <2>2. QED
    BY <2>1, RemindersTyped DEF ClockBounded
<1>2. CASE \E o \in cycle.left : SendReminder(o)
  <2>1. /\ cycle'.pc = "send" /\ cycle'.left \subseteq cycle.left
        /\ UNCHANGED <<clock, manual>>
    BY <1>2, SendingFields DEF SendReminder
  <2>2. QED
    BY <2>1 DEF ClockBounded
<1>3. CASE StartPoll \/ Fetch
  <2>1. /\ cycle'.pc \in {"fetch", "store"} /\ cycle'.left = {}
        /\ UNCHANGED <<clock, manual>>
    BY <1>3 DEF StartPoll, Fetch
  <2>2. QED
    BY <2>1 DEF ClockBounded
<1>4. CASE PassBy \/ PollFails \/ EndPoll \/ WorkerCutOff
  <2>1. cycle' \in {cycle, AtRest} /\ UNCHANGED <<clock, manual>>
    BY <1>4 DEF PassBy, PollFails, EndPoll, WorkerCutOff
  <2>2. QED
    BY <2>1, AtRestFields DEF ClockBounded
<1>5. CASE RefreshPage \/ RefreshStore \/ MoveSale \/ SetOffsets
  <2>1. manual'.pc \in {"idle", "store"} /\ UNCHANGED <<clock, cycle>>
    BY <1>5, AtRestFields DEF RefreshPage, RefreshStore, MoveSale, SetOffsets, ClockBounded
  <2>2. QED
    BY <2>1 DEF ClockBounded
<1>6. CASE Tick
  <2>1. clock < Horizon /\ clock' = clock + 1 /\ UNCHANGED <<cycle, manual>>
    BY <1>6 DEF Tick
  <2>2. clock' <= Horizon
    BY <2>1, RemindersAssumption DEF Timed
  <2>3. QED
    BY <2>1, <2>2 DEF ClockBounded
<1>7. CASE PushStep \/ (CutOff("test") /\ UNCHANGED lotVars) \/ UNCHANGED vars
  BY <1>7 DEF PushStep, lotVars, vars, ClockBounded
<1>8. QED
  BY <1>1, <1>2, <1>3, <1>4, <1>5, <1>6, <1>7 DEF Next, PollStep

LEMMA UnreadTyped ==
  ASSUME unread \in BOOLEAN, [Next]_vars PROVE unread' \in BOOLEAN
<1>1. CASE PollStep
  <2>1. unread' \in {unread, FALSE, TRUE}
    BY <1>1 DEF PollStep, StartPoll, PassBy, Fetch, Store, PollFails, SendReminder, EndPoll,
                WorkerCutOff
  <2>2. QED
    BY <2>1
<1>2. CASE ~PollStep
  <2>1. unread' = unread
    BY <1>2 DEF Next, PushStep, RefreshPage, RefreshStore, MoveSale, SetOffsets, Tick,
                lotVars, vars
  <2>2. QED
    BY <2>1
<1>3. QED
  BY <1>1, <1>2

\* The documents, the senders, the poll and the refresh stay well formed, and no
\* counter passes its bound.
THEOREM TypeCorrect == Spec => []TypeOK
<1> DEFINE IInv == /\ DInv /\ CycleTyped /\ Timed /\ PushBounded /\ ClockBounded
                   /\ unread \in BOOLEAN
<1>1. IInv => TypeOK
  <2> SUFFICES ASSUME IInv PROVE TypeOK
    OBVIOUS
  <2>1. ASSUME NEW s \in Senders
        PROVE  /\ sender[s].pc \in {"idle", "next", "receipt", "remove"}
               /\ sender[s].event \in Events \cup {Test}
               /\ sender[s].left \subseteq Subscriptions
               /\ sender[s].pc \in {"receipt", "remove"} => sender[s].at \in Subscriptions
    <3>1. SenderSound(sender[s])
      BY DEF PushBounded
    <3>2. sender[s] \in SenderStates
      BY DEF DInv, SendersTyped
    <3>3. QED
      BY <3>1, <3>2 DEF SenderSound, SenderStates
  <2>2. PushTypeOK
    BY <2>1 DEF PushTypeOK, DInv, PushBounded
  <2>3. clock \in 0..Horizon
    BY RemindersAssumption DEF Timed, ClockBounded
  <2>4. lot \in [sale : Dates, remSale : Dates, sent : SUBSET UNION Offsets,
                 checked : 0..clock]
    BY DEF Timed, LotFields
  <2>5. QED
    BY <2>2, <2>3, <2>4 DEF TypeOK, Timed, CycleTyped, ClockBounded
<1>2. Init => IInv
  <2> SUFFICES ASSUME Init PROVE IInv
    OBVIOUS
  <2>1. DInv /\ CycleTyped /\ Timed
    BY PushStarts, TimeStarts DEF Init
  <2>2. \A s \in Senders : SenderSound(sender[s])
    BY RestingSound DEF Init, PushInit
  <2>3. PushBounded
    BY <2>2, DeliveryAssumption DEF Init, PushInit, PushBounded
  <2>4. ClockBounded
    BY AtRestFields, RemindersAssumption DEF Init, ClockBounded
  <2>5. unread \in BOOLEAN
    BY DEF Init
  <2>6. QED
    BY <2>1, <2>3, <2>4, <2>5
<1>3. IInv /\ [Next]_vars => IInv'
  BY ReminderSteps, CycleKeeps, TimedKeeps, PushBoundKept, ClockBoundKept, UnreadTyped
<1>4. QED
  BY <1>1, <1>2, <1>3, PTL DEF Spec
=============================================================================
