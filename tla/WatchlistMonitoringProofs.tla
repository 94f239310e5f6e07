---------------------- MODULE WatchlistMonitoringProofs ----------------------
(***************************************************************************)
(* Proofs about WatchlistMonitoring: types and the unseen mark for any     *)
(* number of manual refreshes; notifications, etags and history for the    *)
(* polls of one worker alone.  The order of snapshots by time is the order *)
(* of revisions, and what the worker carries through a poll lies between   *)
(* the newest snapshot and the provider's page.                            *)
(***************************************************************************)
EXTENDS WatchlistMonitoring, WellFoundedInduction, TLAPS

Revs == Revisions \cup {NoRev}

OwnerSteps == {"none", "insert", "initial", "tracking", "cleanup", "gone"}
WorkerSteps == {"idle", "fetch", "touch", "read", "state", "snapshot", "push"}
RequestSteps == {"idle", "fetch", "read", "snapshot", "state", "done"}

Lots == [tracked : BOOLEAN, content : Revs, etag : Revs, unseen : BOOLEAN]
Owners == [pc : OwnerSteps, now : Nat, rev : Revs, label : Revs]
Workers == [pc : WorkerSteps, now : Nat, etag : Revs, rev : Revs, label : Revs,
            latest : Revs]
Refreshes == [pc : RequestSteps, now : Nat, rev : Revs, label : Revs, latest : Revs]
Snapshots == [rev : Revisions, at : Nat \ {0}]

\* Who has read a page holds its revision, and who may write a snapshot a time.
Loaded(p) == p.pc \notin {"idle", "fetch", "touch", "none", "done"}
               => p.rev \in Revisions
Timed(p) == p.pc \in {"initial", "fetch", "touch", "read", "state", "snapshot", "push"}
               => p.now # 0

\* Times do not grow beyond bounds: there is a latest one.
Bounded == \E b \in Nat : \A t \in TimesInUse : t <= b

Typed ==
  /\ remote \in Revisions
  /\ quiet \in BOOLEAN
  /\ lot \in Lots
  /\ snaps \in SUBSET Snapshots
  /\ pushes \in [Revisions -> Nat]
  /\ owner \in Owners /\ Loaded(owner) /\ Timed(owner)
  /\ worker \in Workers /\ Loaded(worker) /\ Timed(worker)
  /\ request \in [Requests -> Refreshes]
  /\ \A q \in Requests : Loaded(request[q]) /\ Timed(request[q])
  /\ crashes \in 0..MaxCrashes
  /\ Bounded

----------------------------------------------------------------------------
(* What holds with a single worker and no manual refresh.                  *)

\* The owner removed the lot, or is about to have; it is never tracked again.
Removed == owner.pc \in {"cleanup", "gone"}

\* Only an inserted lot is tracked, and nothing is left of a removed one.
Untracked ==
  owner.pc \notin {"initial", "tracking"} => ~ lot.tracked /\ ~ lot.unseen

\* Before the lot is inserted there is nothing to poll.
NothingYet ==
  owner.pc \in {"none", "insert"} =>
    /\ ~ lot.tracked /\ worker.pc = "idle" /\ snaps = {}
    /\ \A r \in Revisions : pushes[r] = 0

\* Later snapshots are of later pages, and no two are of one time.
HistoryInOrder ==
  /\ \A s, t \in snaps : s.at <= t.at => s.rev <= t.rev
  /\ \A s, t \in snaps : s.at = t.at => s = t
  /\ \A s \in snaps : s.rev <= remote

\* A poll is later than what is recorded, until it records something itself.
PollIsLatest ==
  /\ worker.rev <= remote
  /\ worker.pc \in {"fetch", "touch", "read", "state", "snapshot"} =>
       \A s \in snaps : s.at < worker.now
  /\ worker.pc \in {"read", "state", "snapshot"} =>
       \A s \in snaps : s.rev <= worker.rev

\* The first snapshot comes before those of polls, even when it is written later.
InitialIsFirst ==
  owner.pc = "initial" =>
    /\ owner.rev <= remote
    /\ \A s \in snaps : owner.now < s.at /\ owner.rev <= s.rev
    /\ worker.pc # "idle" => owner.now < worker.now
    /\ worker.pc \in {"read", "state", "snapshot", "push"} => owner.rev <= worker.rev

\* What was announced was recorded before, and what is compared with is the newest
\* record, unless only the first one was written since.
AnnouncedRecorded ==
  /\ \A r \in Revisions : pushes[r] <= 1
  /\ \A r \in Revisions : pushes[r] = 1 => \E s \in snaps : s.rev = r
  /\ worker.pc = "state" => worker.latest = LatestRev \/ worker.latest = NoRev
  /\ worker.pc = "state" /\ pushes[worker.rev] = 1 => worker.latest = worker.rev
  /\ worker.pc \in {"snapshot", "push"} => pushes[worker.rev] = 0
  /\ worker.pc = "push" => \E s \in snaps : s.rev = worker.rev

\* An etag comes with its page and is stored with it.
EtagWithPage ==
  /\ owner.label \in {NoRev, owner.rev} /\ owner.rev <= remote
  /\ worker.label \in {NoRev, worker.rev}
  /\ lot.tracked =>
       /\ lot.etag <= remote
       /\ lot.etag = remote => lot.content = remote
       /\ worker.pc \in {"fetch", "touch"} => worker.etag = lot.etag
       /\ worker.pc \in {"read", "state"} => lot.etag <= worker.rev

\* Lot and history agree but for a poll between its two writes, and for an addition
\* between its own.
HistoryShown ==
  lot.tracked /\ crashes = 0 =>
    /\ owner.pc \in {"initial", "tracking"}
    /\ owner.pc = "tracking" => snaps # {}
    /\ worker.pc = "snapshot" => lot.content = worker.rev
    /\ worker.pc # "snapshot" =>
         lot.content = IF snaps = {} THEN owner.rev ELSE LatestRev

Order == ~ Removed => HistoryInOrder /\ PollIsLatest /\ InitialIsFirst
Announced == ~ Removed => AnnouncedRecorded
Shown == ~ Removed => HistoryShown

IInv == NothingYet /\ Order /\ Announced /\ EtagWithPage /\ Shown

----------------------------------------------------------------------------
(* Times.                                                                  *)

LEMMA LeastNat ==
  ASSUME NEW T \in SUBSET Nat, T # {}
  PROVE  \E x \in T : \A y \in T : x <= y
  <1> DEFINE R == OpToRel(<, Nat)
  <1>1. IsWellFoundedOn(R, Nat)
    BY NatLessThanWellFounded
  <1>2. \A x, y \in Nat : x < y => <<x, y>> \in R
    BY DEF OpToRel
  <1> HIDE DEF R
  <1>3. PICK x \in T : \A y \in T : ~ (<<y, x>> \in R)
    BY <1>1, WFMin
  <1>4. \A y \in T : ~ (y < x)
    BY <1>2, <1>3
  <1> QED BY <1>3, <1>4

LEMMA GreatestNat ==
  ASSUME NEW T \in SUBSET Nat, T # {}, NEW b \in Nat, \A t \in T : t <= b
  PROVE  \E x \in T : \A y \in T : y <= x
  <1> DEFINE U == {b - t : t \in T}
  <1>1. U \in SUBSET Nat
    OBVIOUS
  <1>2. PICK t \in T : TRUE
    OBVIOUS
  <1>3. b - t \in U
    BY <1>2
  <1>4. PICK u \in U : \A v \in U : u <= v
    BY <1>1, <1>3, LeastNat
  <1>5. PICK x \in T : u = b - x
    BY <1>4
  <1>6. \A y \in T : b - x <= b - y
    BY <1>4, <1>5
  <1> QED BY <1>5, <1>6

\* The time somebody takes is later than all times in use.
LEMMA NowIsLater ==
  ASSUME Typed
  PROVE  Now \in Nat \ {0} /\ \A t \in TimesInUse : t < Now
  <1>1. TimesInUse \in SUBSET Nat /\ 0 \in TimesInUse
    BY DEF TimesInUse, Typed, Owners, Workers, Refreshes, Snapshots
  <1>2. PICK b \in Nat : \A t \in TimesInUse : t <= b
    BY DEF Typed, Bounded
  <1>3. \E x \in TimesInUse : \A y \in TimesInUse : y <= x
    BY <1>1, <1>2, GreatestNat
  <1> DEFINE x == CHOOSE x \in TimesInUse : \A y \in TimesInUse : y <= x
  <1>4. x \in TimesInUse /\ \A y \in TimesInUse : y <= x
    BY <1>3
  <1>5. Now = 1 + x
    BY DEF Now
  <1> HIDE DEF x
  <1> QED BY <1>1, <1>4, <1>5

\* Only Now is ever added to them.
LEMMA StaysBounded ==
  ASSUME Typed, TimesInUse' \subseteq TimesInUse \cup {Now}
  PROVE  Bounded'
  <1>1. Now \in Nat /\ \A t \in TimesInUse' : t <= Now
    <2>1. TimesInUse \in SUBSET Nat
      BY DEF TimesInUse, Typed, Owners, Workers, Refreshes, Snapshots
    <2> QED BY <2>1, NowIsLater
  <1> QED BY <1>1 DEF Bounded

\* get_latest_snapshot_for_tracked_lot finds the newest, if there is one.
NewestFound ==
  /\ snaps = {} => LatestRev = NoRev
  /\ snaps # {} => \E s \in snaps : LatestRev = s.rev /\ \A t \in snaps : t.at <= s.at
  /\ LatestRev \in Revs

LEMMA LatestIsNewest == Typed => NewestFound
  <1> SUFFICES ASSUME Typed
               PROVE  NewestFound
    OBVIOUS
  <1> USE DEF NewestFound
  <1>1. CASE snaps = {}
    BY <1>1 DEF LatestRev, Revs
  <1>2. CASE snaps # {}
    <2> DEFINE T == {s.at : s \in snaps}
    <2>1. T \in SUBSET Nat /\ T # {}
      BY <1>2 DEF Typed, Snapshots
    <2>2. PICK b \in Nat : \A t \in T : t <= b
      BY DEF Typed, Bounded, TimesInUse
    <2>3. PICK x \in T : \A y \in T : y <= x
      BY <2>1, <2>2, GreatestNat
    <2>4. \E s \in snaps : \A t \in snaps : t.at <= s.at
      BY <2>3
    <2> DEFINE m == CHOOSE s \in snaps : \A t \in snaps : t.at <= s.at
    <2>5. m \in snaps /\ \A t \in snaps : t.at <= m.at
      BY <2>4
    <2>6. LatestRev = m.rev
      BY <1>2 DEF LatestRev
    <2> HIDE DEF m
    <2> QED BY <1>2, <2>5, <2>6 DEF Typed, Snapshots, Revs
  <1> QED BY <1>1, <1>2

----------------------------------------------------------------------------
(* Types.                                                                  *)

LEMMA InitTyped == Init => Typed
  <1> SUFFICES ASSUME Init
               PROVE  Typed
    OBVIOUS
  <1> USE MonitoringAssumption
  <1>1. Bounded
    <2>1. \A t \in TimesInUse : t <= 0
      BY DEF Init, TimesInUse, IdleWorker, IdleRequest
    <2> QED BY <2>1 DEF Bounded
  <1>2. worker \in Workers /\ Loaded(worker) /\ Timed(worker)
    BY DEF Init, IdleWorker, Workers, WorkerSteps, Revs, Loaded, Timed
  <1>3. /\ request \in [Requests -> Refreshes]
        /\ \A q \in Requests : Loaded(request[q]) /\ Timed(request[q])
    BY DEF Init, IdleRequest, Refreshes, RequestSteps, Revs, Loaded, Timed
  <1>4. owner \in Owners /\ Loaded(owner) /\ Timed(owner)
    BY DEF Init, Owners, OwnerSteps, Revs, Loaded, Timed
  <1>5. lot \in Lots
    BY DEF Init, NoLot, Lots, Revs
  <1>6. pushes \in [Revisions -> Nat] /\ remote \in Revisions
    BY DEF Init, Revisions
  <1> QED BY <1>1, <1>2, <1>3, <1>4, <1>5, <1>6 DEF Init, Typed

\* Labels are revisions or missing.
LEMMA LabelsTyped == Typed => \A e \in Labels : e \in {NoRev, remote} /\ e \in Revs
  BY DEF Labels, Typed, Revs

LEMMA OwnerTyped == Typed /\ OwnerStep => Typed'
  <1> SUFFICES ASSUME Typed, OwnerStep
               PROVE  Typed'
    OBVIOUS
  <1>0. /\ Now \in Nat \ {0}
        /\ lot \in Lots /\ owner \in Owners /\ Loaded(owner) /\ Timed(owner)
    BY NowIsLater DEF Typed
  <1> DEFINE Kept == UNCHANGED <<remote, quiet, pushes, worker, request, crashes>>
  <1>1. ASSUME Kept, lot' \in Lots, snaps' \in SUBSET Snapshots, owner' \in Owners,
               Loaded(owner'), Timed(owner'), TimesInUse' \subseteq TimesInUse \cup {Now}
        PROVE  Typed'
    BY <1>1, StaysBounded DEF Typed, Loaded, Timed
  <1>2. Kept
    BY DEF OwnerStep, FetchNewLot, InsertLot, InsertInitialSnapshot, Acknowledge,
           DeleteLot, DeleteSnapshots
  <1>3. TimesInUse' \subseteq TimesInUse \cup {Now}
    <2>1. owner'.now \in {0, owner.now, Now}
      BY <1>0 DEF OwnerStep, FetchNewLot, InsertLot, InsertInitialSnapshot, Acknowledge,
                  DeleteLot, DeleteSnapshots, Owners
    <2>2. \A s \in snaps' : s \in snaps \/ s.at = owner.now
      BY DEF OwnerStep, FetchNewLot, InsertLot, InsertInitialSnapshot, Acknowledge,
             DeleteLot, DeleteSnapshots, AddSnapshot
    <2> QED BY <1>2, <2>1, <2>2 DEF TimesInUse
  <1>4. owner' \in Owners /\ Loaded(owner') /\ Timed(owner')
    <2>1. CASE FetchNewLot
      <3>1. PICK e \in Labels :
               owner' = [pc |-> "insert", now |-> 0, rev |-> remote, label |-> e]
        BY <2>1 DEF FetchNewLot
      <3> QED BY <3>1, LabelsTyped DEF Typed, Owners, OwnerSteps, Loaded, Timed, Revs
    <2>2. CASE InsertLot \/ InsertInitialSnapshot
      BY <1>0, <2>2 DEF InsertLot, InsertInitialSnapshot, Owners, OwnerSteps, Loaded, Timed
    <2>3. CASE Acknowledge
      BY <1>0, <2>3 DEF Acknowledge
    <2>4. CASE DeleteLot \/ DeleteSnapshots
      BY <1>0, <2>4 DEF DeleteLot, DeleteSnapshots, Owners, OwnerSteps, Loaded, Timed
    <2> QED BY <2>1, <2>2, <2>3, <2>4 DEF OwnerStep
  <1>5. lot' \in Lots
    <2>1. CASE InsertLot
      BY <1>0, <2>1 DEF InsertLot, Lots, Owners
    <2>2. CASE Acknowledge
      BY <1>0, <2>2 DEF Acknowledge, Lots
    <2>3. CASE DeleteLot
      BY <2>3 DEF DeleteLot, NoLot, Lots, Revs
    <2>4. CASE FetchNewLot \/ InsertInitialSnapshot \/ DeleteSnapshots
      BY <1>0, <2>4 DEF FetchNewLot, InsertInitialSnapshot, DeleteSnapshots
    <2> QED BY <2>1, <2>2, <2>3, <2>4 DEF OwnerStep
  <1>6. snaps' \in SUBSET Snapshots
    <2>1. CASE InsertInitialSnapshot
      <3>1. [rev |-> owner.rev, at |-> owner.now] \in Snapshots
        BY <1>0, <2>1 DEF InsertInitialSnapshot, Owners, Snapshots, Loaded, Timed
      <3> QED BY <2>1, <3>1 DEF InsertInitialSnapshot, AddSnapshot, Typed
    <2>2. CASE ~ InsertInitialSnapshot
      BY <2>2 DEF OwnerStep, FetchNewLot, InsertLot, Acknowledge, DeleteLot,
                  DeleteSnapshots, Typed
    <2> QED BY <2>1, <2>2
  <1> QED BY <1>1, <1>2, <1>3, <1>4, <1>5, <1>6

\* What a refresh makes of the document.
LEMMA RefreshedTyped ==
  ASSUME NEW l \in Lots, NEW p, p.rev \in Revs, p.label \in Revs
  PROVE  Refreshed(l, p) \in Lots
  BY DEF Refreshed, Etag, Lots, Revs, Changed

\* What a refresh knows of its page goes into the document, if there is one.
LEMMA WrittenTyped ==
  ASSUME Typed, NEW p, p.rev \in Revs, p.label \in Revs,
         UpdateLot(Refreshed(lot, p)) \/ UpdateLot([lot EXCEPT !.etag = p.label])
  PROVE  lot' \in Lots
  <1>1. Refreshed(lot, p) \in Lots
    BY RefreshedTyped DEF Typed
  <1>2. [lot EXCEPT !.etag = p.label] \in Lots
    BY DEF Typed, Lots
  <1> QED BY <1>1, <1>2 DEF UpdateLot, Typed

LEMMA SnapshotTyped ==
  ASSUME Typed, NEW p, p.rev \in Revisions, p.now \in Nat \ {0}, AddSnapshot(p)
  PROVE  snaps' \in SUBSET Snapshots
  BY DEF AddSnapshot, Snapshots, Typed

LEMMA WorkerTyped == Typed /\ (StartCycle \/ WorkerStep) => Typed'
  <1> SUFFICES ASSUME Typed, StartCycle \/ WorkerStep
               PROVE  Typed'
    OBVIOUS
  <1>0. /\ Now \in Nat \ {0}
        /\ lot \in Lots /\ worker \in Workers /\ Loaded(worker) /\ Timed(worker)
    BY NowIsLater DEF Typed
  <1>1. IdleWorker \in Workers /\ Loaded(IdleWorker) /\ Timed(IdleWorker)
    BY DEF IdleWorker, Workers, WorkerSteps, Revs, Loaded, Timed
  <1>2. UNCHANGED <<remote, quiet, owner, request, crashes>>
    BY DEF StartCycle, WorkerStep, FetchModified, FetchNotModified, FetchFailed, TouchLot,
           ReadLatest, WriteState, WriteSnapshot, PushChange
  <1>3. worker' \in Workers /\ Loaded(worker') /\ Timed(worker')
    <2>1. CASE StartCycle
      BY <1>0, <2>1 DEF StartCycle, Worker, Workers, WorkerSteps, Lots, Revs, Loaded, Timed
    <2>2. CASE FetchModified
      <3>1. PICK e \in Labels :
              worker' = [pc |-> "read", now |-> worker.now, etag |-> NoRev, rev |-> remote,
                         label |-> e, latest |-> NoRev]
        BY <2>2 DEF FetchModified, Worker
      <3>2. remote \in Revisions
        BY DEF Typed
      <3> QED BY <1>0, <2>2, <3>1, <3>2, LabelsTyped
          DEF FetchModified, Workers, WorkerSteps, Revs, Loaded, Timed
    <2>3. CASE ReadLatest
      BY <1>0, <2>3, LatestIsNewest
      DEF ReadLatest, NewestFound, Worker, Workers, WorkerSteps, Revs, Loaded, Timed
    <2>4. CASE FetchNotModified \/ WriteSnapshot
      BY <1>0, <2>4 DEF FetchNotModified, WriteSnapshot, Worker, Workers, WorkerSteps,
                        Loaded, Timed
    <2>5. CASE WriteState
      BY <1>0, <1>1, <2>5 DEF WriteState, Worker, Workers, WorkerSteps, Loaded, Timed
    <2>6. CASE FetchFailed \/ TouchLot \/ PushChange
      BY <1>1, <2>6 DEF FetchFailed, TouchLot, PushChange, Worker
    <2> QED BY <2>1, <2>2, <2>3, <2>4, <2>5, <2>6 DEF WorkerStep
  <1>4. lot' \in Lots
    <2>1. CASE TouchLot
      <3>1. [lot EXCEPT !.etag = worker.etag] \in Lots
        BY <1>0 DEF Lots, Workers
      <3> QED BY <1>0, <2>1, <3>1 DEF TouchLot, UpdateLot
    <2>2. CASE WriteState
      BY <1>0, <2>2, WrittenTyped DEF WriteState, Workers
    <2>3. CASE ~ (TouchLot \/ WriteState)
      BY <1>0, <2>3 DEF StartCycle, WorkerStep, FetchModified, FetchNotModified,
                        FetchFailed, ReadLatest, WriteSnapshot, PushChange
    <2> QED BY <2>1, <2>2, <2>3
  <1>5. snaps' \in SUBSET Snapshots
    <2>1. CASE WriteSnapshot
      BY <1>0, <2>1, SnapshotTyped DEF WriteSnapshot, Workers, Loaded, Timed
    <2>2. CASE ~ WriteSnapshot
      BY <2>2 DEF StartCycle, WorkerStep, FetchModified, FetchNotModified, FetchFailed,
                  TouchLot, ReadLatest, WriteState, PushChange, Typed
    <2> QED BY <2>1, <2>2
  <1>6. pushes' \in [Revisions -> Nat]
    BY DEF StartCycle, WorkerStep, FetchModified, FetchNotModified, FetchFailed, TouchLot,
           ReadLatest, WriteState, WriteSnapshot, PushChange, Typed
  <1>7. TimesInUse' \subseteq TimesInUse \cup {Now}
    <2>1. worker'.now \in {0, worker.now, Now}
      BY <1>0 DEF StartCycle, WorkerStep, FetchModified, FetchNotModified, FetchFailed,
         TouchLot, ReadLatest, WriteState, WriteSnapshot, PushChange, Worker, IdleWorker,
         Workers
    <2>2. \A s \in snaps' : s \in snaps \/ s.at = worker.now
      BY DEF StartCycle, WorkerStep, FetchModified, FetchNotModified, FetchFailed,
         TouchLot, ReadLatest, WriteState, WriteSnapshot, PushChange, AddSnapshot
    <2> QED BY <1>2, <2>1, <2>2 DEF TimesInUse
  <1> QED BY <1>2, <1>3, <1>4, <1>5, <1>6, <1>7, StaysBounded DEF Typed, Loaded, Timed

LEMMA RequestTyped ==
  ASSUME NEW q \in Requests
  PROVE  Typed /\ (StartRefresh(q) \/ RefreshStep(q)) => Typed'
  <1> SUFFICES ASSUME Typed, StartRefresh(q) \/ RefreshStep(q)
               PROVE  Typed'
    OBVIOUS
  <1> DEFINE Proper(r) == r \in Refreshes /\ Loaded(r) /\ Timed(r)
  <1>0. Now \in Nat \ {0} /\ lot \in Lots /\ \A p \in Requests : Proper(request[p])
    BY NowIsLater DEF Typed
  <1>1. Proper(DoneRequest)
    BY DEF DoneRequest, IdleRequest, Refreshes, RequestSteps, Revs, Loaded, Timed
  <1>2. UNCHANGED <<remote, quiet, owner, worker, pushes, crashes>>
    BY DEF StartRefresh, RefreshStep, FetchPage, FetchPageFailed, CompareWithLatest,
           StoreSnapshot, StoreState
  <1>3. \E r : Proper(r) /\ Request(q, r) /\ r.now \in {0, request[q].now, Now}
    <2>1. CASE StartRefresh(q)
      <3> DEFINE r == [pc |-> "fetch", now |-> Now, rev |-> NoRev, label |-> NoRev,
                       latest |-> NoRev]
      <3>1. Proper(r) /\ r.now = Now
        BY <1>0 DEF Refreshes, RequestSteps, Revs, Loaded, Timed
      <3>2. Request(q, r)
        BY <2>1 DEF StartRefresh
      <3> HIDE DEF r, Proper
      <3> QED BY <3>1, <3>2
    <2>2. CASE FetchPage(q)
      <3>1. PICK e \in Labels :
              Request(q, [pc |-> "read", now |-> request[q].now, rev |-> remote,
                          label |-> e, latest |-> NoRev])
        BY <2>2 DEF FetchPage
      <3> DEFINE r == [pc |-> "read", now |-> request[q].now, rev |-> remote,
                       label |-> e, latest |-> NoRev]
      <3>2. remote \in Revisions /\ request[q].pc = "fetch"
        BY <2>2 DEF Typed, FetchPage
      <3>3. Proper(r) /\ r.now = request[q].now
        BY <1>0, <3>2, LabelsTyped DEF Refreshes, RequestSteps, Revs, Loaded, Timed
      <3>4. Request(q, r)
        BY <3>1
      <3> HIDE DEF r, Proper
      <3> QED BY <3>3, <3>4
    <2>3. CASE CompareWithLatest(q)
      <3> DEFINE r == [pc |-> IF Changed(LatestRev, request[q].rev) THEN "snapshot"
                                                                   ELSE "state",
                       now |-> request[q].now, rev |-> request[q].rev,
                       label |-> request[q].label, latest |-> LatestRev]
      <3>1. request[q].pc = "read"
        BY <2>3 DEF CompareWithLatest
      <3>2. Proper(r) /\ r.now = request[q].now
        BY <1>0, <3>1, LatestIsNewest DEF NewestFound, Refreshes, RequestSteps, Loaded, Timed
      <3>3. Request(q, r)
        BY <2>3 DEF CompareWithLatest
      <3> HIDE DEF r, Proper
      <3> QED BY <3>2, <3>3
    <2>4. CASE StoreSnapshot(q)
      <3> DEFINE r == [request[q] EXCEPT !.pc = "state"]
      <3>1. request[q].pc = "snapshot"
        BY <2>4 DEF StoreSnapshot
      <3>2. Proper(r) /\ r.now = request[q].now
        BY <1>0, <3>1 DEF Refreshes, RequestSteps, Loaded, Timed
      <3>3. Request(q, r)
        BY <2>4 DEF StoreSnapshot
      <3> HIDE DEF r, Proper
      <3> QED BY <3>2, <3>3
    <2>5. CASE FetchPageFailed(q) \/ StoreState(q)
      <3>1. DoneRequest.now = 0
        BY DEF DoneRequest, IdleRequest
      <3> HIDE DEF Proper
      <3> QED BY <1>1, <2>5, <3>1 DEF FetchPageFailed, StoreState
    <2> QED BY <2>1, <2>2, <2>3, <2>4, <2>5 DEF RefreshStep
  <1>4. /\ request' \in [Requests -> Refreshes]
        /\ \A p \in Requests : Loaded(request'[p]) /\ Timed(request'[p])
        /\ \A p \in Requests : request'[p].now \in {0, request[p].now, Now}
    BY <1>0, <1>3 DEF Request, Typed
  <1>5. lot' \in Lots
    <2>1. CASE StoreState(q)
      BY <1>0, <2>1, WrittenTyped DEF StoreState, Refreshes
    <2>2. CASE ~ StoreState(q)
      BY <1>0, <2>2 DEF StartRefresh, RefreshStep, FetchPage, FetchPageFailed,
                        CompareWithLatest, StoreSnapshot
    <2> QED BY <2>1, <2>2
  <1>6. snaps' \in SUBSET Snapshots /\ \A s \in snaps' : s \in snaps \/ s.at = request[q].now
    <2>1. CASE StoreSnapshot(q)
      <3>1. snaps' \in SUBSET Snapshots
        BY <1>0, <2>1, SnapshotTyped DEF StoreSnapshot, Refreshes, Loaded, Timed
      <3> QED BY <2>1, <3>1 DEF StoreSnapshot, AddSnapshot
    <2>2. CASE ~ StoreSnapshot(q)
      BY <2>2 DEF StartRefresh, RefreshStep, FetchPage, FetchPageFailed,
                  CompareWithLatest, StoreState, Typed
    <2> QED BY <2>1, <2>2
  <1>7. TimesInUse' \subseteq TimesInUse \cup {Now}
    BY <1>2, <1>4, <1>6 DEF TimesInUse
  <1> QED BY <1>2, <1>4, <1>5, <1>6, <1>7, StaysBounded DEF Typed, Loaded, Timed

LEMMA OutsideTyped == Typed /\ (RemoteChange \/ Crash) => Typed'
  <1> SUFFICES ASSUME Typed, RemoteChange \/ Crash
               PROVE  Typed'
    OBVIOUS
  <1>1. CASE RemoteChange
    <2>1. remote' \in Revisions /\ quiet' \in BOOLEAN
      BY <1>1, MonitoringAssumption DEF RemoteChange, Typed, Revisions
    <2>2. TimesInUse' \subseteq TimesInUse \cup {Now}
      BY <1>1 DEF RemoteChange, TimesInUse
    <2> QED BY <1>1, <2>1, <2>2, StaysBounded DEF RemoteChange, Typed, Loaded, Timed
  <1>2. CASE Crash
    <2>1. UNCHANGED <<remote, lot, snaps, pushes>> /\ crashes' \in 0..MaxCrashes
      BY <1>2, MonitoringAssumption DEF Crash, Typed
    <2>6. quiet' \in BOOLEAN
      BY <1>2, Zenon DEF Crash
    <2>2. worker' \in Workers /\ Loaded(worker') /\ Timed(worker')
          /\ worker'.now \in {0, worker.now}
      <3>1. /\ IdleWorker \in Workers /\ Loaded(IdleWorker) /\ Timed(IdleWorker)
            /\ IdleWorker.now = 0
        BY DEF IdleWorker, Workers, WorkerSteps, Revs, Loaded, Timed
      <3> QED BY <1>2, <3>1 DEF Crash, Typed
    <2>3. owner' \in Owners /\ Loaded(owner') /\ Timed(owner')
          /\ owner'.now \in {0, owner.now}
      <3>1. \A c \in {"insert", "initial", "cleanup"} :
               GivenUp[c] \in {"none", "tracking", "gone"} /\ (c # "insert" => GivenUp[c] # "none")
        BY DEF GivenUp
      <3>2. CASE owner' = owner
        BY <3>2 DEF Typed
      <3>3. CASE owner' # owner
        <4>1. /\ owner.pc \in {"insert", "initial", "cleanup"}
              /\ owner' = [pc |-> GivenUp[owner.pc], now |-> 0, rev |-> owner.rev,
                           label |-> owner.label]
          BY <1>2, <3>3 DEF Crash
        <4> QED BY <3>1, <4>1 DEF Typed, Owners, OwnerSteps, Loaded, Timed
      <3> QED BY <3>2, <3>3
    <2>4. /\ request' \in [Requests -> Refreshes]
          /\ \A p \in Requests : Loaded(request'[p]) /\ Timed(request'[p])
          /\ \A p \in Requests : request'[p].now \in {0, request[p].now}
      <3>1. /\ DoneRequest \in Refreshes /\ Loaded(DoneRequest) /\ Timed(DoneRequest)
            /\ DoneRequest.now = 0
        BY DEF DoneRequest, IdleRequest, Refreshes, RequestSteps, Revs, Loaded, Timed
      <3> QED BY <1>2, <3>1 DEF Crash, Request, Typed
    <2>5. TimesInUse' \subseteq TimesInUse \cup {Now}
      BY <2>1, <2>2, <2>3, <2>4 DEF TimesInUse
    <2> QED BY <2>1, <2>2, <2>3, <2>4, <2>5, <2>6, StaysBounded DEF Typed
  <1> QED BY <1>1, <1>2

LEMMA StepTyped == Typed /\ [Next]_vars => Typed'
  <1>1. Typed /\ UNCHANGED vars => Typed'
    BY DEF Typed, vars, Loaded, Timed, Bounded, TimesInUse
  <1> QED BY <1>1, OwnerTyped, WorkerTyped, RequestTyped, OutsideTyped DEF Next

\* The documents stay well formed and snapshots dated, for any number of refreshes,
\* revisions and interrupted processes.
THEOREM TypeCorrect == Spec => []TypeOK
  <1>1. Typed => TypeOK
    BY DEF Typed, TypeOK, Lots, Owners, Workers, Refreshes, Snapshots, OwnerSteps,
           WorkerSteps, RequestSteps, Revs
  <1> QED BY InitTyped, StepTyped, <1>1, PTL DEF Spec

----------------------------------------------------------------------------
(* The mark of an unseen change, for any number of refreshes.              *)

\* The document is written for a tracked lot only, and keeps the mark.
LEMMA WritesKeepMark ==
  ASSUME Typed, Untracked, [Next]_vars
  PROVE  /\ Untracked'
         /\ lot.unseen /\ ~ lot'.unseen => Acknowledge \/ DeleteLot
         /\ Removed => Removed'
  <1> USE DEF Untracked, Removed
  <1>1. CASE OwnerStep
    BY <1>1 DEF OwnerStep, FetchNewLot, InsertLot, InsertInitialSnapshot, Acknowledge,
                DeleteLot, DeleteSnapshots, NoLot, Typed, Lots, Owners
  <1>2. CASE StartCycle \/ WorkerStep
    <2>1. owner' = owner
      BY <1>2 DEF StartCycle, WorkerStep, FetchModified, FetchNotModified, FetchFailed,
                  TouchLot, ReadLatest, WriteState, WriteSnapshot, PushChange
    <2>2. lot' = lot \/ (lot.tracked /\ (lot.unseen => lot'.unseen))
      BY <1>2 DEF StartCycle, WorkerStep, FetchModified, FetchNotModified, FetchFailed,
                  TouchLot, ReadLatest, WriteState, WriteSnapshot, PushChange, UpdateLot,
                  Refreshed, Typed, Lots
    <2> QED BY <2>1, <2>2
  <1>3. ASSUME NEW q \in Requests, StartRefresh(q) \/ RefreshStep(q)
        PROVE  owner' = owner /\ (lot' = lot \/ (lot.tracked /\ (lot.unseen => lot'.unseen)))
    BY <1>3 DEF StartRefresh, RefreshStep, FetchPage, FetchPageFailed, CompareWithLatest,
                StoreSnapshot, StoreState, UpdateLot, Refreshed, Typed, Lots
  <1>4. CASE RemoteChange
    BY <1>4 DEF RemoteChange
  <1>5. CASE Crash
    <2>1. lot' = lot /\ (owner' = owner \/ owner'.pc = GivenUp[owner.pc])
      BY <1>5 DEF Crash
    <2>2. owner' # owner => owner.pc \in {"insert", "initial", "cleanup"}
      BY <1>5 DEF Crash
    <2> QED BY <2>1, <2>2 DEF GivenUp
  <1>6. CASE UNCHANGED vars
    BY <1>6 DEF vars
  <1> QED BY <1>1, <1>2, <1>3, <1>4, <1>5, <1>6 DEF Next

\* Only the owner's acknowledgement or the removal of the lot takes the mark of an
\* unseen change away, for any number of refreshes, revisions and interruptions.
THEOREM MarkIsTheOwners == Spec => UnseenUntilAcked
  <1>1. Init => Untracked
    BY DEF Init, Untracked, NoLot
  <1>2. Typed /\ Untracked /\ [Next]_vars
          => (lot.unseen /\ ~lot'.unseen => Acknowledge \/ DeleteLot)
    BY WritesKeepMark
  <1>3. Typed /\ Untracked /\ [Next]_vars => Untracked'
    BY WritesKeepMark
  <1> QED BY InitTyped, StepTyped, <1>1, <1>2, <1>3, PTL DEF Spec, UnseenUntilAcked

----------------------------------------------------------------------------
(* The polls of one worker.                                                *)

LEMMA NothingYetStep ==
  ASSUME Typed, Untracked, NothingYet, Requests = {}, [Next]_vars
  PROVE  NothingYet'
  <1>1. CASE OwnerStep
    BY <1>1 DEF OwnerStep, FetchNewLot, InsertLot, InsertInitialSnapshot, Acknowledge,
                DeleteLot, DeleteSnapshots, NothingYet, Untracked, Typed, Owners
  <1>2. CASE StartCycle \/ WorkerStep
    <2>1. lot.tracked \/ worker.pc # "idle"
      BY <1>2 DEF StartCycle, WorkerStep, FetchModified, FetchNotModified, FetchFailed,
                  TouchLot, ReadLatest, WriteState, WriteSnapshot, PushChange
    <2>2. owner' = owner
      BY <1>2 DEF StartCycle, WorkerStep, FetchModified, FetchNotModified, FetchFailed,
                  TouchLot, ReadLatest, WriteState, WriteSnapshot, PushChange
    <2> QED BY <2>1, <2>2 DEF NothingYet
  <1>3. CASE RemoteChange
    BY <1>3 DEF RemoteChange, NothingYet
  <1>4. CASE Crash
    <2>1. \A c \in {"insert", "initial", "cleanup"} :
             GivenUp[c] \in {"none", "insert"} => c = "insert"
      BY DEF GivenUp
    <2>2. UNCHANGED <<lot, snaps, pushes>> /\ (worker' = worker \/ worker'.pc = "idle")
      BY <1>4 DEF Crash, IdleWorker
    <2>3. owner'.pc \in {"none", "insert"} => owner.pc \in {"none", "insert"}
      BY <1>4, <2>1 DEF Crash
    <2> QED BY <2>2, <2>3 DEF NothingYet
  <1>5. CASE UNCHANGED vars
    BY <1>5 DEF vars, NothingYet
  <1> QED BY <1>1, <1>2, <1>3, <1>4, <1>5 DEF Next

\* The numbers the order is about.
LEMMA Numbers ==
  ASSUME Typed
  PROVE  /\ remote \in Nat /\ worker.rev \in Int /\ owner.rev \in Int
         /\ worker.now \in Nat /\ owner.now \in Nat
         /\ \A s \in snaps : s.rev \in Nat /\ s.at \in Nat \ {0}
         /\ lot.etag \in Int /\ worker.etag \in Int /\ worker.label \in Int
         /\ owner.label \in Int
  <1>1. Revisions \subseteq Nat /\ Revs \subseteq Int
    BY MonitoringAssumption DEF Revisions, Revs, NoRev
  <1> QED BY <1>1 DEF Typed, Workers, Owners, Snapshots, Lots

LEMMA OwnerOrder ==
  ASSUME Typed, NothingYet, Order, EtagWithPage, OwnerStep
  PROVE  Order'
  <1> SUFFICES ASSUME ~ Removed'
               PROVE  (HistoryInOrder /\ PollIsLatest /\ InitialIsFirst)'
    BY DEF Order
  <1> USE Numbers
  <1>1. UNCHANGED <<remote, worker>>
    BY DEF OwnerStep, FetchNewLot, InsertLot, InsertInitialSnapshot, Acknowledge,
           DeleteLot, DeleteSnapshots
  <1>2. CASE FetchNewLot
    <2>1. /\ owner.pc = "none" /\ owner'.pc = "insert" /\ snaps' = snaps
      BY <1>2 DEF FetchNewLot
    <2> QED BY <1>1, <2>1
        DEF Order, Removed, HistoryInOrder, PollIsLatest, InitialIsFirst
  <1>3. CASE InsertLot
    <2>1. owner.pc = "insert" /\ snaps' = snaps /\ owner'.rev = owner.rev
      BY <1>3 DEF InsertLot
    <2>2. snaps = {} /\ worker.pc = "idle" /\ owner.rev <= remote
      BY <2>1 DEF NothingYet, EtagWithPage
    <2> QED BY <1>1, <2>1, <2>2
        DEF Order, Removed, HistoryInOrder, PollIsLatest, InitialIsFirst
  <1>4. CASE InsertInitialSnapshot
    <2>1. /\ owner.pc = "initial" /\ owner'.pc = "tracking"
          /\ snaps' = snaps \cup {[rev |-> owner.rev, at |-> owner.now]}
      BY <1>4 DEF InsertInitialSnapshot, AddSnapshot
    <2>2. HistoryInOrder /\ PollIsLatest /\ InitialIsFirst
      BY <2>1 DEF Order, Removed
    <2>3. HistoryInOrder'
      BY <1>1, <2>1, <2>2 DEF HistoryInOrder, InitialIsFirst
    <2>4. PollIsLatest'
      BY <1>1, <2>1, <2>2 DEF PollIsLatest, InitialIsFirst
    <2> QED BY <2>1, <2>3, <2>4 DEF InitialIsFirst
  <1>5. CASE Acknowledge
    BY <1>1, <1>5 DEF Acknowledge, Order, Removed, HistoryInOrder, PollIsLatest,
                      InitialIsFirst
  <1>6. CASE DeleteLot \/ DeleteSnapshots
    BY <1>6 DEF DeleteLot, DeleteSnapshots, Removed, Typed, Owners
  <1> QED BY <1>2, <1>3, <1>4, <1>5, <1>6 DEF OwnerStep

LEMMA WorkerOrder ==
  ASSUME Typed, Order, EtagWithPage, StartCycle \/ WorkerStep
  PROVE  Order'
  <1> SUFFICES ASSUME ~ Removed'
               PROVE  (HistoryInOrder /\ PollIsLatest /\ InitialIsFirst)'
    BY DEF Order
  <1> USE Numbers
  <1>0. /\ UNCHANGED <<remote, owner>>
        /\ HistoryInOrder /\ PollIsLatest /\ InitialIsFirst
    <2>1. UNCHANGED <<remote, owner>>
      BY DEF StartCycle, WorkerStep, FetchModified, FetchNotModified, FetchFailed,
             TouchLot, ReadLatest, WriteState, WriteSnapshot, PushChange
    <2> QED BY <2>1 DEF Order, Removed
  <1>1. CASE StartCycle
    <2>1. /\ worker'.pc = "fetch" /\ worker'.now = Now /\ worker'.rev = NoRev
          /\ snaps' = snaps
      BY <1>1 DEF StartCycle, Worker
    <2>2. /\ Now \in Nat /\ owner.now < Now /\ \A s \in snaps : s.at < Now
      BY NowIsLater DEF TimesInUse
    <2> QED BY <1>0, <2>1, <2>2 DEF HistoryInOrder, PollIsLatest, InitialIsFirst, NoRev
  <1>2. CASE FetchModified
    <2>1. /\ worker.pc = "fetch" /\ worker'.pc = "read" /\ worker'.now = worker.now
          /\ worker'.rev = remote /\ snaps' = snaps
      BY <1>2 DEF FetchModified, Worker
    <2> QED BY <1>0, <2>1 DEF HistoryInOrder, PollIsLatest, InitialIsFirst
  <1>3. CASE worker'.pc = "idle" /\ worker'.rev = NoRev /\ snaps' = snaps
    BY <1>0, <1>3 DEF HistoryInOrder, PollIsLatest, InitialIsFirst, NoRev
  <1>4. CASE FetchNotModified
    <2>1. /\ worker.pc = "fetch" /\ worker'.pc = "touch" /\ worker'.now = worker.now
          /\ worker'.rev = worker.rev /\ snaps' = snaps
      BY <1>4 DEF FetchNotModified, Worker, Typed, Workers
    <2> QED BY <1>0, <2>1 DEF HistoryInOrder, PollIsLatest, InitialIsFirst
  <1>5. CASE ReadLatest
    <2>1. /\ worker.pc = "read" /\ worker'.pc = "state" /\ worker'.now = worker.now
          /\ worker'.rev = worker.rev /\ snaps' = snaps
      BY <1>5 DEF ReadLatest, Worker
    <2> QED BY <1>0, <2>1 DEF HistoryInOrder, PollIsLatest, InitialIsFirst
  <1>6. CASE WriteState /\ Changed(worker.latest, worker.rev)
    <2>1. /\ worker.pc = "state" /\ worker'.pc = "snapshot" /\ worker'.now = worker.now
          /\ worker'.rev = worker.rev /\ snaps' = snaps
      BY <1>6 DEF WriteState, Worker, Typed, Workers
    <2> QED BY <1>0, <2>1 DEF HistoryInOrder, PollIsLatest, InitialIsFirst
  <1>7. CASE WriteSnapshot
    <2>1. /\ worker.pc = "snapshot" /\ worker'.pc = "push" /\ worker'.now = worker.now
          /\ worker'.rev = worker.rev
          /\ snaps' = snaps \cup {[rev |-> worker.rev, at |-> worker.now]}
      BY <1>7 DEF WriteSnapshot, AddSnapshot, Worker, Typed, Workers
    <2>2. HistoryInOrder'
      BY <1>0, <2>1 DEF HistoryInOrder, PollIsLatest
    <2>3. PollIsLatest'
      BY <1>0, <2>1 DEF PollIsLatest
    <2>4. InitialIsFirst'
      BY <1>0, <2>1 DEF InitialIsFirst, HistoryInOrder
    <2> QED BY <2>2, <2>3, <2>4
  <1> QED BY <1>1, <1>2, <1>3, <1>4, <1>5, <1>6, <1>7
      DEF WorkerStep, FetchFailed, TouchLot, WriteState, PushChange, Worker, IdleWorker

LEMMA OrderStep ==
  ASSUME Typed, NothingYet, Order, EtagWithPage, Requests = {}, [Next]_vars
  PROVE  Order'
  <1> USE Numbers
  <1>1. CASE RemoteChange
    BY <1>1 DEF RemoteChange, Order, Removed, HistoryInOrder, PollIsLatest, InitialIsFirst
  <1>2. CASE Crash
    <2>1. UNCHANGED <<remote, snaps>>
      BY <1>2 DEF Crash
    <2>2. CASE worker' = IdleWorker /\ owner' = owner
      BY <2>1, <2>2 DEF IdleWorker, NoRev, Order, Removed, HistoryInOrder, PollIsLatest,
                        InitialIsFirst
    <2>3. CASE worker' = worker /\ owner'.pc = GivenUp[owner.pc]
                 /\ owner.pc \in {"insert", "initial", "cleanup"}
      <3>1. owner'.pc # "initial" /\ (~ Removed' => ~ Removed)
        BY <2>3 DEF GivenUp, Removed
      <3> QED BY <2>1, <2>3, <3>1 DEF Order, HistoryInOrder, PollIsLatest, InitialIsFirst
    <2> QED BY <1>2, <2>2, <2>3 DEF Crash
  <1>3. CASE UNCHANGED vars
    BY <1>3 DEF vars, Order, Removed, HistoryInOrder, PollIsLatest, InitialIsFirst
  <1> QED BY <1>1, <1>2, <1>3, OwnerOrder, WorkerOrder DEF Next

LEMMA EtagStep ==
  ASSUME Typed, Untracked, NothingYet, Order, EtagWithPage, Requests = {}, [Next]_vars
  PROVE  EtagWithPage'
  <1> USE Numbers
  <1>1. CASE OwnerStep
    <2>1. CASE FetchNewLot
      <3>1. PICK e \in Labels :
               owner' = [pc |-> "insert", now |-> 0, rev |-> remote, label |-> e]
        BY <2>1 DEF FetchNewLot
      <3>2. e \in {NoRev, remote}
        BY LabelsTyped
      <3> QED BY <2>1, <3>1, <3>2 DEF FetchNewLot, EtagWithPage
    <2>2. CASE InsertLot
      <3>1. /\ owner.pc = "insert" /\ owner'.rev = owner.rev /\ owner'.label = owner.label
            /\ lot'.etag = owner.label /\ lot'.content = owner.rev
            /\ UNCHANGED <<remote, worker>>
        BY <2>2 DEF InsertLot
      <3>2. worker.pc = "idle"
        BY <3>1 DEF NothingYet
      <3> QED BY <3>1, <3>2 DEF EtagWithPage, NoRev
    <2>3. CASE InsertInitialSnapshot
      BY <2>3 DEF InsertInitialSnapshot, EtagWithPage
    <2>4. CASE Acknowledge
      BY <2>4 DEF Acknowledge, EtagWithPage, Typed, Lots
    <2>5. CASE DeleteLot \/ DeleteSnapshots
      BY <2>5 DEF DeleteLot, DeleteSnapshots, NoLot, EtagWithPage, Typed, Owners
    <2> QED BY <1>1, <2>1, <2>2, <2>3, <2>4, <2>5 DEF OwnerStep
  <1>2. CASE StartCycle \/ WorkerStep
    <2>0. UNCHANGED <<remote, owner>>
      BY <1>2 DEF StartCycle, WorkerStep, FetchModified, FetchNotModified, FetchFailed,
             TouchLot, ReadLatest, WriteState, WriteSnapshot, PushChange
    <2>1. CASE StartCycle
      BY <2>0, <2>1 DEF StartCycle, Worker, EtagWithPage
    <2>2. CASE FetchModified
      <3>1. PICK e \in Labels :
              worker' = [pc |-> "read", now |-> worker.now, etag |-> NoRev, rev |-> remote,
                         label |-> e, latest |-> NoRev]
        BY <2>2 DEF FetchModified, Worker
      <3>2. e \in {NoRev, remote}
        BY LabelsTyped
      <3> QED BY <2>0, <2>2, <3>1, <3>2 DEF FetchModified, EtagWithPage
    <2>3. CASE FetchNotModified
      BY <2>0, <2>3 DEF FetchNotModified, Worker, EtagWithPage, Typed, Workers
    <2>4. CASE ReadLatest
      BY <2>0, <2>4 DEF ReadLatest, Worker, EtagWithPage
    <2>5. CASE TouchLot
      <3>1. lot'.tracked => lot.tracked /\ lot'.etag = worker.etag /\ lot'.content = lot.content
        BY <2>5 DEF TouchLot, UpdateLot, Typed, Lots
      <3>2. worker.pc = "touch" /\ worker' = IdleWorker
        BY <2>5 DEF TouchLot, Worker
      <3> QED BY <2>0, <3>1, <3>2 DEF EtagWithPage, IdleWorker
    <2>6. CASE WriteState
      <3>1. /\ worker.pc = "state"
            /\ worker'.pc \notin {"fetch", "touch", "read", "state"}
        BY <2>6 DEF WriteState, Worker, IdleWorker, Typed, Workers
      <3>2. lot'.tracked => /\ lot.tracked /\ lot'.content = worker.rev
                            /\ lot'.etag = Etag(lot, worker)
        BY <2>6 DEF WriteState, UpdateLot, Refreshed
      <3>3. worker'.label \in {NoRev, worker'.rev}
        BY <2>6 DEF WriteState, Worker, IdleWorker, Typed, Workers, EtagWithPage
      <3>4. worker.rev <= remote \/ ~ lot.tracked
        BY DEF Untracked, Order, Removed, PollIsLatest
      <3> QED BY <2>0, <3>1, <3>2, <3>3, <3>4 DEF EtagWithPage, Etag
    <2>7. CASE WriteSnapshot
      BY <2>0, <2>7 DEF WriteSnapshot, Worker, EtagWithPage, Typed, Workers
    <2>8. CASE FetchFailed \/ PushChange
      BY <2>0, <2>8 DEF FetchFailed, PushChange, Worker, IdleWorker, EtagWithPage
    <2> QED BY <1>2, <2>1, <2>2, <2>3, <2>4, <2>5, <2>6, <2>7, <2>8 DEF WorkerStep
  <1>3. CASE RemoteChange
    BY <1>3 DEF RemoteChange, EtagWithPage
  <1>4. CASE Crash
    <2>1. /\ UNCHANGED <<remote, lot>> /\ owner'.rev = owner.rev
          /\ owner'.label = owner.label
      BY <1>4 DEF Crash
    <2>2. worker' = worker \/ (worker'.pc = "idle" /\ worker'.label = NoRev)
      BY <1>4 DEF Crash, IdleWorker
    <2> QED BY <2>1, <2>2 DEF EtagWithPage
  <1>5. CASE UNCHANGED vars
    BY <1>5 DEF vars, EtagWithPage
  <1> QED BY <1>1, <1>2, <1>3, <1>4, <1>5 DEF Next

\* A snapshot older than all others does not become the latest one, unless it is
\* the only one.
LEMMA OlderIsNotLatest ==
  ASSUME Typed, Typed', HistoryInOrder, NEW s \in Snapshots,
         snaps' = snaps \cup {s}, \A t \in snaps : s.at < t.at
  PROVE  LatestRev' = IF snaps = {} THEN s.rev ELSE LatestRev
  <1> USE Numbers DEF Snapshots
  <1>1. NewestFound /\ NewestFound'
    BY LatestIsNewest, PTL
  <1>2. PICK n \in snaps' : LatestRev' = n.rev /\ \A t \in snaps' : t.at <= n.at
    BY <1>1 DEF NewestFound
  <1>3. CASE snaps # {}
    <2>1. PICK m \in snaps : LatestRev = m.rev /\ \A t \in snaps : t.at <= m.at
      BY <1>1, <1>3 DEF NewestFound
    <2>2. n \in snaps /\ n.at = m.at
      BY <1>2, <2>1
    <2> QED BY <1>2, <1>3, <2>1, <2>2 DEF HistoryInOrder
  <1> QED BY <1>2, <1>3

\* One later than all others does.
LEMMA NewestIsLatest ==
  ASSUME Typed, Typed', NEW s \in Snapshots,
         snaps' = snaps \cup {s}, \A t \in snaps : t.at < s.at
  PROVE  LatestRev' = s.rev
  <1> USE Numbers DEF Snapshots
  <1>1. NewestFound'
    BY LatestIsNewest, PTL
  <1>2. PICK n \in snaps' : LatestRev' = n.rev /\ \A t \in snaps' : t.at <= n.at
    BY <1>1 DEF NewestFound
  <1> QED BY <1>2

\* What the steps of the worker and of the owner that write no history leave alone.
LEMMA OwnerLeaves ==
  ASSUME Typed, Order, OwnerStep, ~ Removed'
  PROVE  /\ UNCHANGED <<remote, worker, pushes, crashes>> /\ ~ Removed
         /\ \/ snaps' = snaps
            \/ /\ InsertInitialSnapshot /\ HistoryInOrder
               /\ \E s \in Snapshots : /\ snaps' = snaps \cup {s} /\ s.rev = owner.rev
                                       /\ \A t \in snaps : s.at < t.at
  <1>1. CASE InsertInitialSnapshot
    <2> DEFINE s == [rev |-> owner.rev, at |-> owner.now]
    <2>1. owner.pc = "initial" /\ ~ Removed /\ snaps' = snaps \cup {s}
      BY <1>1 DEF InsertInitialSnapshot, AddSnapshot, Removed
    <2>2. s \in Snapshots /\ s.rev = owner.rev /\ \A t \in snaps : s.at < t.at
      BY <2>1 DEF Order, InitialIsFirst, Snapshots, Typed, Owners, Loaded, Timed
    <2>3. UNCHANGED <<remote, worker, pushes, crashes>>
      BY <1>1 DEF InsertInitialSnapshot
    <2> HIDE DEF s
    <2> QED BY <1>1, <2>1, <2>2, <2>3 DEF Order
  <1>2. CASE FetchNewLot \/ InsertLot \/ Acknowledge
    BY <1>2 DEF FetchNewLot, InsertLot, Acknowledge, Removed
  <1>3. CASE DeleteLot \/ DeleteSnapshots
    BY <1>3 DEF DeleteLot, DeleteSnapshots, Removed, Typed, Owners
  <1> QED BY <1>1, <1>2, <1>3 DEF OwnerStep

LEMMA AnnouncedStep ==
  ASSUME Typed, Typed', NothingYet, Order, Announced, Requests = {}, [Next]_vars
  PROVE  Announced'
  <1> SUFFICES ASSUME ~ Removed'
               PROVE  AnnouncedRecorded'
    BY DEF Announced
  <1> USE Numbers
  <1>0. /\ worker \in Workers /\ Loaded(worker) /\ pushes \in [Revisions -> Nat]
        /\ NewestFound
    BY LatestIsNewest DEF Typed
  <1>1. CASE OwnerStep
    <2>1. UNCHANGED <<worker, pushes>> /\ AnnouncedRecorded
      BY <1>1, OwnerLeaves DEF Announced
    <2>2. CASE snaps' = snaps
      BY <2>1, <2>2 DEF AnnouncedRecorded, LatestRev
    <2>3. CASE snaps' # snaps
      <3>1. LatestRev' = LatestRev \/ LatestRev = NoRev
        BY <1>0, <1>1, <2>3, OwnerLeaves, OlderIsNotLatest DEF NewestFound
      <3>2. snaps \subseteq snaps'
        BY <1>1, <2>3, OwnerLeaves
      <3> QED BY <2>1, <3>1, <3>2 DEF AnnouncedRecorded
    <2> QED BY <2>2, <2>3
  <1>2. CASE StartCycle \/ WorkerStep
    <2>0. owner' = owner /\ AnnouncedRecorded /\ HistoryInOrder /\ PollIsLatest
      <3>1. owner' = owner
        BY <1>2 DEF StartCycle, WorkerStep, FetchModified, FetchNotModified, FetchFailed,
               TouchLot, ReadLatest, WriteState, WriteSnapshot, PushChange
      <3> QED BY <3>1 DEF Announced, Order, Removed
    <2>1. CASE worker'.pc \notin {"state", "snapshot", "push"} /\ UNCHANGED <<snaps, pushes>>
      BY <2>0, <2>1 DEF AnnouncedRecorded
    <2>2. CASE ReadLatest
      <3>1. /\ worker.pc = "read" /\ worker'.pc = "state" /\ worker'.rev = worker.rev
            /\ worker'.latest = LatestRev /\ UNCHANGED <<snaps, pushes>>
        BY <2>2 DEF ReadLatest, Worker
      <3>2. ASSUME pushes[worker.rev] = 1
            PROVE  LatestRev = worker.rev
        <4>1. PICK s \in snaps : s.rev = worker.rev
          BY <1>0, <2>0, <3>1, <3>2 DEF AnnouncedRecorded, Loaded
        <4>2. PICK m \in snaps : LatestRev = m.rev /\ \A t \in snaps : t.at <= m.at
          BY <1>0, <4>1 DEF NewestFound
        <4>3. s.rev <= m.rev /\ m.rev <= worker.rev
          BY <2>0, <3>1, <4>2 DEF HistoryInOrder, PollIsLatest
        <4> QED BY <4>1, <4>2, <4>3
      <3> QED BY <2>0, <3>1, <3>2 DEF AnnouncedRecorded, LatestRev
    <2>3. CASE WriteState /\ Changed(worker.latest, worker.rev)
      <3>1. /\ worker.pc = "state" /\ worker'.pc = "snapshot" /\ worker'.rev = worker.rev
            /\ UNCHANGED <<snaps, pushes>>
        BY <1>0, <2>3 DEF WriteState, Worker, Workers
      <3>2. pushes[worker.rev] \in {0, 1}
        <4>1. worker.rev \in Revisions
          BY <1>0, <3>1 DEF Loaded
        <4> QED BY <1>0, <2>0, <4>1 DEF AnnouncedRecorded
      <3>3. pushes[worker.rev] = 0
        BY <2>0, <2>3, <3>1, <3>2 DEF AnnouncedRecorded, Changed
      <3> QED BY <2>0, <3>1, <3>3 DEF AnnouncedRecorded
    <2>4. CASE WriteSnapshot
      <3>1. /\ worker.pc = "snapshot" /\ worker'.pc = "push" /\ worker'.rev = worker.rev
            /\ snaps' = snaps \cup {[rev |-> worker.rev, at |-> worker.now]}
            /\ pushes' = pushes
        BY <1>0, <2>4 DEF WriteSnapshot, AddSnapshot, Worker, Workers
      <3> DEFINE s == [rev |-> worker.rev, at |-> worker.now]
      <3>2. s.rev = worker.rev /\ snaps' = snaps \cup {s}
        BY <3>1
      <3> HIDE DEF s
      <3>3. snaps \subseteq snaps' /\ s \in snaps'
        BY <3>2
      <3> QED BY <2>0, <3>1, <3>2, <3>3 DEF AnnouncedRecorded
    <2>5. CASE PushChange
      <3>1. /\ worker.pc = "push" /\ worker' = IdleWorker /\ snaps' = snaps
            /\ pushes' = [pushes EXCEPT ![worker.rev] = @ + 1]
        BY <2>5 DEF PushChange, Worker
      <3>2. worker.rev \in Revisions /\ pushes[worker.rev] = 0
            /\ \E s \in snaps : s.rev = worker.rev
        BY <1>0, <2>0, <3>1 DEF AnnouncedRecorded, Loaded
      <3>3. /\ pushes'[worker.rev] = 1
            /\ \A r \in Revisions \ {worker.rev} : pushes'[r] = pushes[r]
        BY <1>0, <3>1, <3>2
      <3>4. worker'.pc = "idle"
        BY <3>1 DEF IdleWorker
      <3> QED BY <2>0, <3>1, <3>2, <3>3, <3>4 DEF AnnouncedRecorded
    <2> QED BY <1>2, <2>1, <2>2, <2>3, <2>4, <2>5
        DEF StartCycle, WorkerStep, FetchModified, FetchNotModified, FetchFailed, TouchLot,
            WriteState, Worker, IdleWorker, Typed, Workers
  <1>3. CASE RemoteChange
    BY <1>3 DEF RemoteChange, Removed, Announced, AnnouncedRecorded, LatestRev
  <1>4. CASE Crash
    <2>1. UNCHANGED <<snaps, pushes>> /\ (worker' = worker \/ worker'.pc = "idle")
      BY <1>4 DEF Crash, IdleWorker
    <2>2. ~ Removed
      BY <1>4 DEF Crash, GivenUp, Removed
    <2> QED BY <2>1, <2>2 DEF Announced, AnnouncedRecorded, LatestRev
  <1>5. CASE UNCHANGED vars
    BY <1>5 DEF vars, Removed, Announced, AnnouncedRecorded, LatestRev
  <1> QED BY <1>1, <1>2, <1>3, <1>4, <1>5 DEF Next

LEMMA ShownStep ==
  ASSUME Typed, Typed', Untracked, Untracked', NothingYet, Order, Announced, EtagWithPage,
         Shown, Requests = {}, [Next]_vars
  PROVE  Shown'
  <1> SUFFICES ASSUME ~ Removed', lot'.tracked, crashes' = 0
               PROVE  HistoryShown'
    BY DEF Shown, HistoryShown
  <1> USE Numbers
  <1>0. /\ worker \in Workers /\ Loaded(worker) /\ NewestFound
        /\ owner'.pc \in {"initial", "tracking"}
    BY LatestIsNewest DEF Typed, Untracked
  <1>1. CASE OwnerStep
    <2>1. UNCHANGED <<worker, crashes>>
      BY <1>1, OwnerLeaves
    <2>2. CASE InsertLot
      <3>1. /\ owner.pc = "insert" /\ owner'.pc = "initial" /\ snaps' = snaps
            /\ owner'.rev = owner.rev /\ lot'.content = owner.rev
        BY <2>2 DEF InsertLot
      <3>2. snaps = {} /\ worker.pc = "idle"
        BY <3>1 DEF NothingYet
      <3> QED BY <2>1, <3>1, <3>2 DEF HistoryShown
    <2>3. CASE InsertInitialSnapshot
      <3>1. /\ owner.pc = "initial" /\ owner'.pc = "tracking" /\ owner'.rev = owner.rev
            /\ lot' = lot
        BY <2>3 DEF InsertInitialSnapshot
      <3>2. HistoryShown
        BY <3>1 DEF Shown, Removed
      <3>3. PICK s \in Snapshots : /\ snaps' = snaps \cup {s} /\ s.rev = owner.rev
                                   /\ \A t \in snaps : s.at < t.at
        <4>1. snaps' = snaps \cup {[rev |-> owner.rev, at |-> owner.now]}
          BY <2>3 DEF InsertInitialSnapshot, AddSnapshot
        <4>2. \A t \in snaps : owner.now < t.at
          BY <3>1 DEF Order, Removed, InitialIsFirst
        <4>3. [rev |-> owner.rev, at |-> owner.now] \in Snapshots
          BY <3>1 DEF Typed, Owners, Loaded, Timed, Snapshots
        <4> QED BY <4>1, <4>2, <4>3
      <3>4. LatestRev' = IF snaps = {} THEN owner.rev ELSE LatestRev
        BY <3>1, <3>3, OlderIsNotLatest DEF Order, Removed
      <3> QED BY <1>0, <2>1, <3>1, <3>2, <3>3, <3>4 DEF HistoryShown
    <2>4. CASE FetchNewLot
      BY <2>4 DEF FetchNewLot, Untracked
    <2>5. CASE Acknowledge
      BY <1>0, <2>5 DEF Acknowledge, Shown, Removed, HistoryShown, LatestRev, Typed, Lots
    <2>6. CASE DeleteLot \/ DeleteSnapshots
      BY <1>0, <2>6 DEF DeleteLot, DeleteSnapshots, Typed, Owners
    <2> QED BY <1>1, <2>2, <2>3, <2>4, <2>5, <2>6 DEF OwnerStep
  <1>2. CASE StartCycle \/ WorkerStep
    <2>0. /\ owner' = owner /\ crashes' = crashes
          /\ HistoryShown /\ AnnouncedRecorded /\ PollIsLatest
      <3>1. owner' = owner /\ crashes' = crashes
        BY <1>2 DEF StartCycle, WorkerStep, FetchModified, FetchNotModified, FetchFailed,
               TouchLot, ReadLatest, WriteState, WriteSnapshot, PushChange
      <3> QED BY <3>1 DEF Announced, Order, Shown, Removed
    <2>1. CASE /\ worker.pc # "snapshot" /\ worker'.pc # "snapshot" /\ snaps' = snaps
               /\ lot'.tracked => lot.tracked /\ lot'.content = lot.content
      BY <1>0, <2>0, <2>1 DEF HistoryShown, LatestRev
    <2>2. CASE StartCycle \/ FetchModified \/ FetchNotModified \/ FetchFailed \/ ReadLatest
                 \/ PushChange
      <3>1. worker.pc # "snapshot" /\ worker'.pc # "snapshot" /\ snaps' = snaps /\ lot' = lot
        BY <1>0, <2>2 DEF StartCycle, FetchModified, FetchNotModified, FetchFailed,
           ReadLatest, PushChange, Worker, IdleWorker, Workers
      <3> QED BY <2>1, <3>1
    <2>3. CASE TouchLot
      <3>1. /\ worker.pc # "snapshot" /\ worker'.pc # "snapshot" /\ snaps' = snaps
            /\ lot'.tracked => lot.tracked /\ lot'.content = lot.content
        BY <2>3 DEF TouchLot, UpdateLot, Worker, IdleWorker, Typed, Lots
      <3> QED BY <2>1, <3>1
    <2>4. CASE WriteState
      <3>1. /\ worker.pc = "state" /\ snaps' = snaps
            /\ lot.tracked /\ lot'.content = worker.rev
        BY <2>4 DEF WriteState, UpdateLot, Refreshed
      <3>2. CASE Changed(worker.latest, worker.rev)
        <4>1. worker'.pc = "snapshot" /\ worker'.rev = worker.rev
          BY <1>0, <2>4, <3>2 DEF WriteState, Worker, Workers
        <4> QED BY <1>0, <2>0, <3>1, <4>1 DEF HistoryShown
      <3>3. CASE ~ Changed(worker.latest, worker.rev)
        <4>1. worker'.pc = "idle"
          BY <2>4, <3>3 DEF WriteState, Worker, IdleWorker
        <4>2. worker.rev # NoRev /\ worker.latest = worker.rev
          BY <1>0, <3>1, <3>3, MonitoringAssumption DEF Loaded, Revisions, NoRev, Changed
        <4>3. LatestRev = worker.rev /\ snaps # {}
          BY <1>0, <2>0, <3>1, <4>2 DEF AnnouncedRecorded, NewestFound
        <4> QED BY <1>0, <2>0, <3>1, <4>1, <4>3 DEF HistoryShown, LatestRev
      <3> QED BY <3>2, <3>3
    <2>5. CASE WriteSnapshot
      <3> DEFINE s == [rev |-> worker.rev, at |-> worker.now]
      <3>1. /\ worker.pc = "snapshot" /\ worker'.pc = "push" /\ lot' = lot
            /\ snaps' = snaps \cup {s}
        BY <1>0, <2>5 DEF WriteSnapshot, AddSnapshot, Worker, Workers
      <3>2. s \in Snapshots /\ s.rev = worker.rev /\ \A t \in snaps : t.at < s.at
        BY <1>0, <2>0, <3>1 DEF PollIsLatest, Workers, Loaded, Snapshots, Typed, Timed
      <3> HIDE DEF s
      <3>3. LatestRev' = worker.rev /\ snaps' # {}
        BY <3>1, <3>2, NewestIsLatest
      <3> QED BY <1>0, <2>0, <3>1, <3>3 DEF HistoryShown
    <2> QED BY <1>2, <2>2, <2>3, <2>4, <2>5 DEF WorkerStep
  <1>3. CASE RemoteChange
    BY <1>0, <1>3 DEF RemoteChange, Shown, Removed, HistoryShown, LatestRev
  <1>4. CASE Crash
    BY <1>4 DEF Crash, Typed
  <1>5. CASE UNCHANGED vars
    BY <1>0, <1>5 DEF vars, Shown, Removed, HistoryShown, LatestRev
  <1> QED BY <1>1, <1>2, <1>3, <1>4, <1>5 DEF Next

LEMMA InitInv == Init => Untracked /\ IInv
  BY MonitoringAssumption
  DEF Init, NoLot, IdleWorker, NoRev, IInv, Untracked, Removed, NothingYet, Order,
      HistoryInOrder, PollIsLatest, InitialIsFirst, Announced, AnnouncedRecorded,
      EtagWithPage, Shown, HistoryShown

LEMMA StepInv ==
  ASSUME Requests = {}
  PROVE  Typed /\ Typed' /\ Untracked /\ IInv /\ [Next]_vars => IInv'
  BY WritesKeepMark, NothingYetStep, OrderStep, AnnouncedStep, EtagStep, ShownStep DEF IInv

LEMMA OnePollHolds ==
  ASSUME Requests = {}
  PROVE  Spec => [](Typed /\ Untracked /\ IInv)
  <1>1. Typed /\ Untracked /\ [Next]_vars => Untracked'
    BY WritesKeepMark
  <1> QED BY InitTyped, StepTyped, InitInv, StepInv, <1>1, PTL DEF Spec

\* Without manual refreshes no state of the page is announced twice, for any number
\* of revisions, with or without etags, wherever polls are cut off.
THEOREM AnnouncedAtMostOnce ==
  ASSUME Requests = {}
  PROVE  Spec => []PushedOnce
  <1>1. Typed /\ Untracked /\ IInv => PushedOnce
    BY DEF IInv, Untracked, Removed, Announced, AnnouncedRecorded, PushedOnce
  <1> QED BY OnePollHolds, <1>1, PTL

\* Without manual refreshes an etag is only sent for the page the lot shows, wherever
\* polls are cut off and whether or not each page has an etag.
THEOREM NotModifiedIsTrue ==
  ASSUME Requests = {}
  PROVE  Spec => []EtagTrusted
  <1>1. Typed /\ Untracked /\ IInv => EtagTrusted
    BY DEF IInv, EtagWithPage, EtagTrusted
  <1> QED BY OnePollHolds, <1>1, PTL

\* Without manual refreshes, and as long as nobody is cut off, lot and history agree
\* whenever nobody is at work.
THEOREM HistoryFollows ==
  ASSUME Requests = {}
  PROVE  Spec => []HistoryKeepsUp
  <1>1. Typed /\ Untracked /\ IInv => HistoryKeepsUp
    BY DEF IInv, Untracked, Removed, Shown, HistoryShown, HistoryKeepsUp, Busy
  <1> QED BY OnePollHolds, <1>1, PTL
=============================================================================
