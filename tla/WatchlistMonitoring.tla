------------------------ MODULE WatchlistMonitoring ------------------------
(***************************************************************************)
(* One lot on a user's watchlist (modules/watchlist, modules/monitoring):  *)
(* the tracked_lots document and the lot_snapshots of its history, written *)
(* by the polling worker, by manual refreshes of the owner and by the      *)
(* requests that add, acknowledge and remove the lot.  Every write below   *)
(* is one write to MongoDB; whatever stands between two of them can be     *)
(* overtaken by the other processes or cut off.                            *)
(*                                                                         *)
(* The provider's page of the lot goes through revisions 0, 1, 2, ...  A   *)
(* revision stands for the fields change detection compares and for the    *)
(* etag the provider may send with them; a page without an etag has the    *)
(* label NoRev.  Of times only the order matters: whoever takes the time   *)
(* gets one later than all times still in use.                             *)
(* Reminders, refresh status fields and the work on other lots between two *)
(* steps of a cycle are left out.                                          *)
(***************************************************************************)
EXTENDS Integers, FiniteSets

CONSTANTS
  Requests,     \* bound: the manual refreshes that are made
  Etags,        \* does the provider label its pages: {TRUE}, {FALSE} or both
  MaxRevision,  \* bound: the last revision of the page
  MaxCrashes    \* bound: how many processes are cut off

ASSUME MonitoringAssumption ==
  /\ Etags \in (SUBSET BOOLEAN) \ {{}}
  /\ MaxRevision \in Nat
  /\ MaxCrashes \in Nat

VARIABLES
  remote,       \* the revision the provider shows
  quiet,        \* when it last changed nobody was at work, and nobody was
                \* cut off since
  lot,          \* the tracked_lots document
  snaps,        \* the lot_snapshots documents of the lot
  pushes,       \* pushes[r]: notifications sent about revision r
  owner,        \* the requests that add and remove the lot
  worker,       \* the worker's poll of this lot
  request,      \* request[q]: a manual refresh
  crashes       \* processes cut off so far

vars == <<remote, quiet, lot, snaps, pushes, owner, worker, request, crashes>>

NoRev == -1
Revisions == 0..MaxRevision
NoLot == [tracked |-> FALSE, content |-> NoRev, etag |-> NoRev, unseen |-> FALSE]
IdleWorker == [pc |-> "idle", now |-> 0, etag |-> NoRev, rev |-> NoRev,
               label |-> NoRev, latest |-> NoRev]
IdleRequest == [pc |-> "idle", now |-> 0, rev |-> NoRev, label |-> NoRev,
                latest |-> NoRev]
DoneRequest == [IdleRequest EXCEPT !.pc = "done"]

Init ==
  /\ remote = 0
  /\ quiet = TRUE
  /\ lot = NoLot
  /\ snaps = {}
  /\ pushes = [r \in Revisions |-> 0]
  /\ owner = [pc |-> "none", now |-> 0, rev |-> NoRev, label |-> NoRev]
  /\ worker = IdleWorker
  /\ request = [q \in Requests |-> IdleRequest]
  /\ crashes = 0

----------------------------------------------------------------------------
(* What the repositories read and write.                                   *)

Busy ==
  \/ worker.pc # "idle"
  \/ owner.pc \in {"insert", "initial", "cleanup"}
  \/ \E q \in Requests : request[q].pc \notin {"idle", "done"}

\* A time later than every detected_at and every `now` still in use.
TimesInUse ==
  {0, worker.now, owner.now} \cup {s.at : s \in snaps}
    \cup {request[q].now : q \in Requests}
Now == 1 + CHOOSE t \in TimesInUse : \A u \in TimesInUse : u <= t

\* Mutated form: sorted by detected_at ascending.
LatestRevOldest ==
  IF snaps = {} THEN NoRev
  ELSE (CHOOSE s \in snaps : \A t \in snaps : s.at <= t.at).rev

\* get_latest_snapshot_for_tracked_lot
LatestRev ==
  IF snaps = {} THEN NoRev
  ELSE (CHOOSE s \in snaps : \A t \in snaps : t.at <= s.at).rev

\* Mutated form: without a snapshot to compare with nothing has changed.
ChangedFromKnown(latest, rev) == latest \notin {NoRev, rev}

\* detect_significant_changes: is anything different from the last snapshot?
Changed(latest, rev) == latest # rev

\* A page without an etag leaves the stored one alone.
Etag(l, p) == IF p.label = NoRev THEN l.etag ELSE p.label

\* Mutated forms: the flag is recomputed at each refresh; the etag of a changed
\* page is kept without the page.
RefreshedFlagReset(l, p) ==
  [l EXCEPT !.content = p.rev, !.etag = Etag(l, p), !.unseen = Changed(p.latest, p.rev)]
RefreshedEtagOnly(l, p) ==
  [l EXCEPT !.content = IF Changed(p.latest, p.rev) THEN @ ELSE p.rev, !.etag = Etag(l, p),
            !.unseen = @ \/ Changed(p.latest, p.rev)]

\* The document after a refresh that read a page.
Refreshed(l, p) ==
  [tracked |-> l.tracked, content |-> p.rev, etag |-> Etag(l, p),
   unseen |-> l.unseen \/ Changed(p.latest, p.rev)]

\* update_tracked_lot_state matches nothing once the lot is removed.
UpdateLot(l) == lot' = IF lot.tracked THEN l ELSE lot

AddSnapshot(p) == snaps' = snaps \cup {[rev |-> p.rev, at |-> p.now]}

\* The etag header of an answer with a page, NoRev if there is none.
Labels == {IF labelled THEN remote ELSE NoRev : labelled \in Etags}

----------------------------------------------------------------------------
(* The owner's other requests.                                             *)

\* add_tracked_lot reads the page first, ...
FetchNewLot ==
  /\ owner.pc = "none"
  /\ \E e \in Labels :
       owner' = [pc |-> "insert", now |-> 0, rev |-> remote, label |-> e]
  /\ UNCHANGED <<remote, quiet, lot, snaps, pushes, worker, request, crashes>>

\* ... inserts the lot, ...
InsertLot ==
  /\ owner.pc = "insert"
  /\ owner' = [pc |-> "initial", now |-> Now, rev |-> owner.rev, label |-> owner.label]
  /\ lot' = [tracked |-> TRUE, content |-> owner.rev, etag |-> owner.label,
             unseen |-> FALSE]
  /\ UNCHANGED <<remote, quiet, snaps, pushes, worker, request, crashes>>

\* ... and then its first snapshot.
InsertInitialSnapshot ==
  /\ owner.pc = "initial"
  /\ owner' = [pc |-> "tracking", now |-> 0, rev |-> owner.rev, label |-> owner.label]
  /\ AddSnapshot(owner)
  /\ UNCHANGED <<remote, quiet, lot, pushes, worker, request, crashes>>

\* acknowledge_tracked_lot_update: a blind write, once the mark has been seen; if
\* the mark or the lot is gone by then it changes nothing.
Acknowledge ==
  /\ lot.tracked
  /\ lot.unseen
  /\ lot' = [lot EXCEPT !.unseen = FALSE]
  /\ UNCHANGED <<remote, quiet, snaps, pushes, owner, worker, request, crashes>>

\* delete_tracked_lot deletes the lot first, ...
DeleteLot ==
  /\ owner.pc = "tracking"
  /\ owner' = [owner EXCEPT !.pc = "cleanup"]
  /\ lot' = NoLot
  /\ UNCHANGED <<remote, quiet, snaps, pushes, worker, request, crashes>>

\* ... then the snapshots there are.
DeleteSnapshots ==
  /\ owner.pc = "cleanup"
  /\ owner' = [owner EXCEPT !.pc = "gone"]
  /\ snaps' = {}
  /\ UNCHANGED <<remote, quiet, lot, pushes, worker, request, crashes>>

----------------------------------------------------------------------------
(* The worker: poll_due_lots, _poll_single_lot.                            *)

Worker(w) == worker' = w

\* The cycle takes the time and copies the document; other lots come first.
StartCycle ==
  /\ worker.pc = "idle"
  /\ lot.tracked
  /\ Worker([pc |-> "fetch", now |-> Now, etag |-> lot.etag, rev |-> NoRev,
             label |-> NoRev, latest |-> NoRev])
  /\ UNCHANGED <<remote, quiet, lot, snaps, pushes, owner, request, crashes>>

FetchModified ==
  /\ worker.pc = "fetch"
  /\ worker.etag # remote
  /\ \E e \in Labels :
       Worker([pc |-> "read", now |-> worker.now, etag |-> NoRev, rev |-> remote,
               label |-> e, latest |-> NoRev])
  /\ UNCHANGED <<remote, quiet, lot, snaps, pushes, owner, request, crashes>>

\* Mutated form: an answer without a page is taken for an empty page.
FetchNotModifiedAsPage ==
  /\ worker.pc = "fetch"
  /\ worker.etag = remote
  /\ Worker([worker EXCEPT !.pc = "read"])
  /\ UNCHANGED <<remote, quiet, lot, snaps, pushes, owner, request, crashes>>

FetchNotModified ==
  /\ worker.pc = "fetch"
  /\ worker.etag = remote
  /\ Worker([worker EXCEPT !.pc = "touch"])
  /\ UNCHANGED <<remote, quiet, lot, snaps, pushes, owner, request, crashes>>

\* No usable connection, a gateway error: only refresh status fields change.
FetchFailed ==
  /\ worker.pc = "fetch"
  /\ Worker(IdleWorker)
  /\ UNCHANGED <<remote, quiet, lot, snaps, pushes, owner, request, crashes>>

\* The answer "not modified" carries the etag that was sent, and it is stored.
TouchLot ==
  /\ worker.pc = "touch"
  /\ UpdateLot([lot EXCEPT !.etag = worker.etag])
  /\ Worker(IdleWorker)
  /\ UNCHANGED <<remote, quiet, snaps, pushes, owner, request, crashes>>

ReadLatest ==
  /\ worker.pc = "read"
  /\ Worker([pc |-> "state", now |-> worker.now, etag |-> NoRev, rev |-> worker.rev,
             label |-> worker.label, latest |-> LatestRev])
  /\ UNCHANGED <<remote, quiet, lot, snaps, pushes, owner, request, crashes>>

\* The state is written before the snapshot it was compared for.
WriteState ==
  /\ worker.pc = "state"
  /\ UpdateLot(Refreshed(lot, worker))
  /\ Worker(IF Changed(worker.latest, worker.rev) THEN [worker EXCEPT !.pc = "snapshot"]
                               ELSE IdleWorker)
  /\ UNCHANGED <<remote, quiet, snaps, pushes, owner, request, crashes>>

WriteSnapshot ==
  /\ worker.pc = "snapshot"
  /\ AddSnapshot(worker)
  /\ Worker([worker EXCEPT !.pc = "push"])
  /\ UNCHANGED <<remote, quiet, lot, pushes, owner, request, crashes>>

\* send_lot_change_notification: a receipt per snapshot never finds another.
PushChange ==
  /\ worker.pc = "push"
  /\ pushes' = [pushes EXCEPT ![worker.rev] = @ + 1]
  /\ Worker(IdleWorker)
  /\ UNCHANGED <<remote, quiet, lot, snaps, owner, request, crashes>>

----------------------------------------------------------------------------
(* Manual refresh: refresh_tracked_lot_live, without a lease.              *)

Request(q, r) == request' = [request EXCEPT ![q] = r]

StartRefresh(q) ==
  /\ request[q].pc = "idle"
  /\ lot.tracked
  /\ Request(q, [pc |-> "fetch", now |-> Now, rev |-> NoRev, label |-> NoRev,
                 latest |-> NoRev])
  /\ UNCHANGED <<remote, quiet, lot, snaps, pushes, owner, worker, crashes>>

\* The page is asked for unconditionally.
FetchPage(q) ==
  /\ request[q].pc = "fetch"
  /\ \E e \in Labels :
       Request(q, [pc |-> "read", now |-> request[q].now, rev |-> remote,
                   label |-> e, latest |-> NoRev])
  /\ UNCHANGED <<remote, quiet, lot, snaps, pushes, owner, worker, crashes>>

FetchPageFailed(q) ==
  /\ request[q].pc = "fetch"
  /\ Request(q, DoneRequest)
  /\ UNCHANGED <<remote, quiet, lot, snaps, pushes, owner, worker, crashes>>

CompareWithLatest(q) ==
  /\ request[q].pc = "read"
  /\ Request(q, [pc |-> IF Changed(LatestRev, request[q].rev) THEN "snapshot" ELSE "state",
                 now |-> request[q].now, rev |-> request[q].rev,
                 label |-> request[q].label, latest |-> LatestRev])
  /\ UNCHANGED <<remote, quiet, lot, snaps, pushes, owner, worker, crashes>>

\* Here the snapshot is written before the state.
StoreSnapshot(q) ==
  /\ request[q].pc = "snapshot"
  /\ AddSnapshot(request[q])
  /\ Request(q, [request[q] EXCEPT !.pc = "state"])
  /\ UNCHANGED <<remote, quiet, lot, pushes, owner, worker, crashes>>

StoreState(q) ==
  /\ request[q].pc = "state"
  /\ UpdateLot(Refreshed(lot, request[q]))
  /\ Request(q, DoneRequest)
  /\ UNCHANGED <<remote, quiet, snaps, pushes, owner, worker, crashes>>

----------------------------------------------------------------------------
(* The provider, and processes that are cut off.                           *)

RemoteChange ==
  /\ remote < MaxRevision
  /\ remote' = remote + 1
  /\ quiet' = ~Busy
  /\ UNCHANGED <<lot, snaps, pushes, owner, worker, request, crashes>>

\* What is left of the owner's request.
GivenUp == [insert |-> "none", initial |-> "tracking", cleanup |-> "gone"]

\* The process dies, or a write raises and the handler gives the poll up.
Crash ==
  /\ crashes < MaxCrashes
  /\ crashes' = crashes + 1
  /\ \/ worker.pc # "idle" /\ worker' = IdleWorker /\ UNCHANGED <<owner, request>>
     \/ /\ owner.pc \in {"insert", "initial", "cleanup"}
        /\ owner' = [pc |-> GivenUp[owner.pc], now |-> 0, rev |-> owner.rev,
                     label |-> owner.label]
        /\ UNCHANGED <<worker, request>>
     \/ \E q \in Requests :
          /\ request[q].pc \notin {"idle", "done"}
          /\ Request(q, DoneRequest)
          /\ UNCHANGED <<owner, worker>>
  /\ quiet' = FALSE
  /\ UNCHANGED <<remote, lot, snaps, pushes>>

OwnerStep == FetchNewLot \/ InsertLot \/ InsertInitialSnapshot \/ Acknowledge
               \/ DeleteLot \/ DeleteSnapshots

WorkerStep == FetchModified \/ FetchNotModified \/ FetchFailed \/ TouchLot
                \/ ReadLatest \/ WriteState \/ WriteSnapshot \/ PushChange

RefreshStep(q) == FetchPage(q) \/ FetchPageFailed(q) \/ CompareWithLatest(q)
                    \/ StoreSnapshot(q) \/ StoreState(q)

Next ==
  \/ OwnerStep
  \/ StartCycle
  \/ WorkerStep
  \/ \E q \in Requests : StartRefresh(q) \/ RefreshStep(q)
  \/ RemoteChange
  \/ Crash

Spec == Init /\ [][Next]_vars

\* The worker wakes up every half minute and finishes what it began; a page can
\* be had again and again.  Requests that have begun end.  Nobody has to add,
\* refresh, acknowledge or remove anything.
Fairness ==
  /\ WF_vars(StartCycle)
  /\ WF_vars(WorkerStep)
  /\ SF_vars(FetchModified \/ FetchNotModified)
  /\ WF_vars(InsertLot \/ InsertInitialSnapshot \/ DeleteSnapshots)
  /\ \A q \in Requests : WF_vars(RefreshStep(q))

FairSpec == Spec /\ Fairness

----------------------------------------------------------------------------
\* Documents and processes stay well formed.
TypeOK ==
  LET Revs == Revisions \cup {NoRev} IN
  /\ remote \in Revisions
  /\ quiet \in BOOLEAN
  /\ lot \in [tracked : BOOLEAN, content : Revs, etag : Revs, unseen : BOOLEAN]
  /\ \A s \in snaps : s.rev \in Revisions /\ s.at \in Nat \ {0}
  /\ pushes \in [Revisions -> Nat]
  /\ owner.pc \in {"none", "insert", "initial", "tracking", "cleanup", "gone"}
  /\ worker.pc \in {"idle", "fetch", "touch", "read", "state", "snapshot", "push"}
  /\ \A q \in Requests :
       request[q].pc \in {"idle", "fetch", "read", "snapshot", "state", "done"}
  /\ crashes \in 0..MaxCrashes

\* "preserve single-delivery push/reminder behavior" (README.md): the owner is
\* not notified twice that a lot on the watchlist is in one and the same state.
PushedOnce == lot.tracked => \A r \in Revisions : pushes[r] <= 1

\* "Not modified" can be trusted: the etag the next poll sends is only the one of
\* the provider's present page if the lot shows that page, whatever is cut off.
EtagTrusted == lot.tracked /\ lot.etag = remote => lot.content = remote

\* With nobody at work the newest snapshot recorded what the lot shows, as long as
\* nobody was cut off: polls that overlap with the lot being added or removed keep
\* lot and history together.
HistoryKeepsUp ==
  lot.tracked /\ ~Busy /\ crashes = 0 => lot.content = LatestRev

\* "update tracked_lot with the latest known state without losing history in
\* lot_snapshots" (copart-pwa-mvp plan, Task 5): the same whatever is cut off, for
\* a lot that has a history.
NoHistoryLost ==
  lot.tracked /\ ~Busy /\ snaps # {} => lot.content = LatestRev

\* "deleting a tracked lot also deletes its snapshots" (docs/database-schema.md):
\* once the removal has finished and nobody is at work, none is left.
NoOrphanSnapshots == owner.pc = "gone" /\ ~Busy => snaps = {}

\* A change nobody has looked at stays marked: only the owner's acknowledgement
\* (or the removal of the lot) takes has_unseen_update back, whatever refreshes
\* find or fail to find meanwhile.
UnseenUntilAcked ==
  [][lot.unseen /\ ~lot'.unseen => Acknowledge \/ DeleteLot]_vars

\* When the page stops changing the lot ends up showing it.
ContentConverges == <>[](lot.tracked => lot.content = remote)

\* When the page stops changing and nobody was cut off, its last state is recorded
\* and, unless it is the one the lot was added with, the owner has been notified
\* of it once.
LastChangeAnnounced ==
  <>[](lot.tracked /\ crashes = 0
         => /\ LatestRev = remote
            /\ remote # owner.rev => pushes[remote] = 1)

\* Whatever races and crashes have left behind, the next change of the page that
\* happens while nobody is at work repairs both the lot and its history, if
\* nobody is cut off again.
HealsAtQuietChange ==
  <>[](lot.tracked /\ quiet => lot.content = remote /\ LatestRev = remote)
=============================================================================
