-------------------------- MODULE AuctionReminders --------------------------
(***************************************************************************)
(* Reminders before an auction (modules/monitoring/service.py with         *)
(* polling_policy.py) on top of PushDelivery.  One tracked lot: the worker *)
(* copies it at the start of a cycle with the time and the settings then   *)
(* in force, decides whether to poll it, fetches the page, computes which  *)
(* reminders have become due, stores them as sent together with the sale   *)
(* date and then sends them one after the other.  Meanwhile the page may   *)
(* move the sale, the owner may refresh the lot by hand, the administrator *)
(* may change the reminder offsets.                                        *)
(*                                                                         *)
(* Times are ticks of a bounded clock.  What else a refresh changes is in  *)
(* WatchlistMonitoring.                                                    *)
(***************************************************************************)
EXTENDS PushDelivery, Integers, FiniteSets

CONSTANTS
  SaleDates,        \* the dates the page may show
  Offsets,          \* the sets of reminder offsets the settings may hold
  DefaultInterval,  \* watchlist_default_poll_interval_minutes
  NearInterval,     \* watchlist_near_auction_poll_interval_minutes
  NearWindow,       \* watchlist_near_auction_window_minutes
  Backoff,          \* the job runtime's back-off, and its lease
  MaxLag,           \* bound: how old the time of a cycle gets
  Horizon           \* bound: the end of time

ASSUME RemindersAssumption ==
  /\ SaleDates \subseteq Nat
  /\ Offsets \subseteq SUBSET Nat
  /\ {DefaultInterval, NearInterval, NearWindow, Backoff, MaxLag, Horizon} \subseteq Nat
  /\ Events = SaleDates \X UNION Offsets

VARIABLES
  clock,
  visited,      \* the time of the last cycle that came by the lot
  unread,       \* that cycle began to poll the lot and could not finish
  page,         \* the sale date on the page of the lot
  offsets,      \* the reminder offsets in force
  lot,          \* the tracked_lots document: sale date, reminder state, last check
  retryAt,      \* the job runtime refuses the lot before
  cycle,        \* the worker's work on the lot
  touched,      \* when somebody else last changed the lot or the settings
  manual        \* the owner's refresh

lotVars == <<clock, visited, unread, page, offsets, lot, retryAt, cycle, touched, manual>>
vars == <<pushVars, lotVars>>

NoSale == -1
Dates == SaleDates \cup {NoSale}
\* What of the copied document a poll still needs, its time and its settings.
Sending(pc, sale, left) ==
  [pc |-> pc, now |-> 0, sale |-> sale, remSale |-> NoSale, sent |-> {},
   offsets |-> {}, modified |-> FALSE, left |-> left]
AtRest == Sending("idle", NoSale, {})
NoRefresh == [pc |-> "idle", now |-> 0, sale |-> NoSale]

\* add_tracked_lot has just stored the lot.
Init ==
  /\ PushInit
  /\ clock = 0
  /\ visited = 0
  /\ unread = FALSE
  /\ page \in Dates
  /\ offsets \in Offsets
  /\ lot = [sale |-> page, remSale |-> page, sent |-> {}, checked |-> 0]
  /\ retryAt = 0
  /\ cycle = AtRest
  /\ touched = 0
  /\ manual = NoRefresh

----------------------------------------------------------------------------
\* Whatever else than the worker's and the senders' own steps happens is bounded by
\* one bound for all.
Disturb ==
  /\ Churn
  /\ UNCHANGED <<subs, inserted, alive, receipts, sender, got, troubles>>

(* When to poll: is_due_for_poll and _should_poll_tracked_lot.             *)

\* get_poll_interval_minutes
Interval(sale, now) ==
  IF sale # NoSale /\ sale - now \in 0..NearWindow THEN NearInterval ELSE DefaultInterval

Due(now) == now - lot.checked >= Interval(lot.sale, now)

\* Reminders stored for another date do not count.
SentFor(sale, remSale, sent) == IF sale = remSale THEN sent ELSE {}

\* Mutated form: a threshold reached at the very time of a cycle is not yet crossed.
CrossedLate(now) ==
  /\ lot.sale # NoSale
  /\ \E o \in offsets \ SentFor(lot.sale, lot.remSale, lot.sent) :
       /\ o > 0 => now < lot.sale
       /\ lot.checked < lot.sale - o /\ lot.sale - o < now

\* _crossed_pending_auction_reminder_threshold
Crossed(now) ==
  /\ lot.sale # NoSale
  /\ \E o \in offsets \ SentFor(lot.sale, lot.remSale, lot.sent) :
       /\ o > 0 => now < lot.sale
       /\ lot.checked < lot.sale - o /\ lot.sale - o <= now

\* A document older than the fields of today is also polled when the owner's list
\* has asked for its repair, which may be at any time.
ShouldPoll(now, repair) == repair \/ Due(now) \/ Crossed(now)

\* _is_auction_reminder_due
ReminderDue(sale, now, o) ==
  IF o = 0 THEN now >= sale ELSE sale - o <= now /\ now < sale

----------------------------------------------------------------------------
(* The worker.                                                             *)

Idle == cycle.pc = "idle" /\ sender["worker"].pc = "idle"

\* A cycle that leaves the lot alone: not due, or refused by the job runtime.
PassBy ==
  /\ Idle
  /\ visited # clock
  /\ ~ShouldPoll(clock, FALSE) \/ clock < retryAt
  /\ visited' = clock
  /\ unread' = FALSE
  /\ UNCHANGED <<pushVars, clock, page, offsets, lot, retryAt, cycle, touched, manual>>

StartPoll ==
  /\ Idle
  /\ visited # clock
  /\ \E repair \in BOOLEAN : ShouldPoll(clock, repair)
  /\ clock >= retryAt
  /\ visited' = clock
  /\ unread' = FALSE
  /\ cycle' = [pc |-> "fetch", now |-> clock, sale |-> lot.sale, remSale |-> lot.remSale,
               sent |-> lot.sent, offsets |-> offsets, modified |-> FALSE, left |-> {}]
  /\ UNCHANGED <<pushVars, clock, page, offsets, lot, retryAt, touched, manual>>

\* Mutated form: thresholds of another sale date still count as sent.
ReminderStateKept(copy, sale) ==
  IF sale = NoSale THEN [remSale |-> NoSale, sent |-> {}, due |-> {}]
  ELSE LET due == {o \in copy.offsets \ copy.sent : ReminderDue(sale, copy.now, o)}
       IN [remSale |-> sale, sent |-> (copy.sent \cup due) \cap copy.offsets, due |-> due]

\* _build_auction_reminders: the reminders to send and the state to store; only
\* offsets still in force are kept.
ReminderState(copy, sale) ==
  IF sale = NoSale THEN [remSale |-> NoSale, sent |-> {}, due |-> {}]
  ELSE LET known == SentFor(sale, copy.remSale, copy.sent)
           due == {o \in copy.offsets \ known : ReminderDue(sale, copy.now, o)}
       IN [remSale |-> sale, sent |-> (known \cup due) \cap copy.offsets, due |-> due]

\* "Not modified" is an answer about the page that was copied.
Fetch ==
  /\ cycle.pc = "fetch"
  /\ \E modified \in {TRUE, cycle.sale # page} :
       cycle' = [pc |-> "store", now |-> cycle.now, sale |-> page,
                 remSale |-> cycle.remSale, sent |-> cycle.sent,
                 offsets |-> cycle.offsets, modified |-> modified, left |-> {}]
  /\ UNCHANGED <<pushVars, clock, visited, unread, page, offsets, lot, retryAt, touched, manual>>

\* The update of the document; without a new page the sale date is left alone.
Store ==
  /\ cycle.pc = "store"
  /\ LET reminders == ReminderState(cycle, cycle.sale)
     IN /\ lot' = [sale |-> IF cycle.modified THEN cycle.sale ELSE lot.sale,
                   checked |-> cycle.now, remSale |-> reminders.remSale,
                   sent |-> reminders.sent]
        /\ cycle' = Sending("send", cycle.sale, reminders.due)
  /\ UNCHANGED <<pushVars, clock, visited, unread, page, offsets, retryAt, touched, manual>>

\* A failed poll stores no check.  The job runtime backs off if it is worth another
\* try; it does not if the connection is not ready or refuses the lot.
PollFails ==
  /\ cycle.pc = "fetch"
  /\ Disturb
  /\ retryAt' \in {cycle.now + Backoff, cycle.now}
  /\ unread' = TRUE
  /\ cycle' = AtRest
  /\ UNCHANGED <<clock, visited, page, offsets, lot, touched, manual>>

\* send_auction_reminder_notification, in the order of the offsets.
SendReminder(o) ==
  /\ cycle.pc = "send"
  /\ o \in cycle.left
  /\ \A p \in cycle.left : p <= o
  /\ SendEvent(<<cycle.sale, o>>)
  /\ cycle' = Sending("send", cycle.sale, cycle.left \ {o})
  /\ UNCHANGED <<clock, visited, unread, page, offsets, lot, retryAt, touched, manual>>

EndPoll ==
  /\ cycle.pc = "send"
  /\ cycle.left = {}
  /\ sender["worker"].pc = "idle"
  /\ cycle' = AtRest
  /\ UNCHANGED <<pushVars, clock, visited, unread, page, offsets, lot, retryAt, touched, manual>>

\* The worker dies; what it has stored as sent stays so, and so does its lease.
WorkerCutOff ==
  /\ cycle.pc # "idle"
  /\ troubles < MaxTroubles
  /\ retryAt' = visited + Backoff
  /\ unread' = TRUE
  /\ troubles' = troubles + 1
  /\ sender' = [sender EXCEPT !["worker"] = Resting]
  /\ cycle' = AtRest
  /\ UNCHANGED <<subs, inserted, alive, receipts, got, churn, clock, visited, page, offsets,
                 lot, touched, manual>>

----------------------------------------------------------------------------
(* The owner, the administrator, the provider and the time.                *)

\* refresh_tracked_lot_live reads the page ...
RefreshPage ==
  /\ manual.pc = "idle"
  /\ Disturb
  /\ manual' = [pc |-> "store", now |-> clock, sale |-> page]
  /\ UNCHANGED <<clock, visited, unread, page, offsets, lot, retryAt, cycle, touched>>

\* ... and stores it, the reminder state left alone.
RefreshStore ==
  /\ manual.pc = "store"
  /\ lot' = [sale |-> manual.sale, remSale |-> lot.remSale, sent |-> lot.sent,
             checked |-> manual.now]
  /\ manual' = NoRefresh
  /\ touched' = clock
  /\ UNCHANGED <<pushVars, clock, visited, unread, page, offsets, retryAt, cycle>>

MoveSale ==
  /\ Disturb
  /\ page' \in Dates \ {page}
  /\ UNCHANGED <<clock, visited, unread, offsets, lot, retryAt, cycle, touched, manual>>

\* update_runtime_settings; the worker reads them at its next cycle.
SetOffsets ==
  /\ Disturb
  /\ offsets' \in Offsets \ {offsets}
  /\ touched' = clock
  /\ UNCHANGED <<clock, visited, unread, page, lot, retryAt, cycle, manual>>

\* The worker comes by at each tick unless it is at work.
Tick ==
  /\ clock < Horizon
  /\ clock' = clock + 1
  /\ IF Idle THEN visited = clock ELSE clock - visited < MaxLag
  /\ manual.pc = "store" => clock - manual.now < MaxLag
  /\ UNCHANGED <<pushVars, visited, unread, page, offsets, lot, retryAt, cycle, touched, manual>>

----------------------------------------------------------------------------
PollStep ==
  \/ StartPoll \/ PassBy \/ Fetch \/ Store \/ PollFails
  \/ \E o \in cycle.left : SendReminder(o)
  \/ EndPoll \/ WorkerCutOff

PushStep ==
  /\ DeviceStep \/ \E s \in Senders : DeliveryStep(s) \/ Finish(s)
  /\ UNCHANGED lotVars

Next ==
  \/ PollStep
  \/ PushStep
  \/ CutOff("test") /\ UNCHANGED lotVars
  \/ RefreshPage \/ RefreshStore \/ MoveSale \/ SetOffsets
  \/ Tick

Spec == Init /\ [][Next]_vars

----------------------------------------------------------------------------
\* Documents and processes stay well formed.
TypeOK ==
  /\ PushTypeOK
  /\ clock \in 0..Horizon
  /\ visited \in 0..clock
  /\ unread \in BOOLEAN
  /\ page \in Dates
  /\ offsets \in Offsets
  /\ lot \in [sale : Dates, remSale : Dates, sent : SUBSET UNION Offsets, checked : 0..clock]
  /\ cycle.pc \in {"idle", "fetch", "store", "send"}
  /\ touched \in 0..clock
  /\ cycle.left \subseteq UNION Offsets
  /\ manual.pc \in {"idle", "store"}

\* "persisted once-only reminder state" (docs/database-schema.md) is not persisted
\* instead of a reminder: unless something went wrong, what is stored as sent has
\* been shown by every device that was subscribed all the time and is alive,
\* whatever sale dates and settings did meanwhile.
SentMeansShown ==
  Idle /\ troubles = 0 =>
    \A o \in lot.sent, d \in alive : subs[d] = 1 => got[<<<<lot.remSale, o>>, d>>] > 0

\* The first cycle that can read the page after a threshold has been crossed sends
\* its reminder, however long the polling interval is and however many polls failed
\* before; only a refused cycle, one that cannot finish its poll and a change by
\* others after the threshold may make it wait.
OnTime ==
  /\ Idle
  /\ visited = clock /\ ~unread /\ clock >= retryAt
  /\ lot.sale # NoSale
  => \A o \in offsets :
       ReminderDue(lot.sale, clock, o) /\ lot.sale - o > touched
         => lot.remSale = lot.sale /\ o \in lot.sent
=============================================================================
