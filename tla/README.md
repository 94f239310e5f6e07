# CarTrap in TLA+

TLA+ models of the parts of CarTrap in which processes meet on shared documents, model-checked
with TLC on small instances and, where the property matters most, proved with TLAPS for every
value of the constants. `PROJECT.json` names the runs, the mutations each property was tried
against, the lines of source each definition stands for, the hazards found in the code, the
findings and the theorems.

```
tlc -workers 2 -config WatchlistPolls.cfg MCWatchlistMonitoring.tla    # one run
tlapm ProviderConnectionProofs.tla                                     # one proof module
```

## 1. The system

CarTrap lets a user watch lots of two car auctions (Copart, IAAI) and searches for lots. A
FastAPI backend serves a PWA, one worker process polls the auctions, both share a MongoDB
database, and gateways on another network forward what the providers are asked.

| Component | Source (under `backend/src/cartrap` unless said) | State it keeps | Operations |
|---|---|---|---|
| Worker loop | `worker/main.py` | none between cycles | every 30 s: poll due lots, then due searches; an error ends the half it is in |
| Refresh job runtime | `modules/monitoring/job_runtime.py` | `job_runtime`: status, lease, back-off per resource | acquire, describe_skip, complete, fail |
| Lot monitoring | `modules/monitoring` | none of its own | poll_due_lots: fetch, compare, write, push, remind |
| Watchlist | `modules/watchlist` | `tracked_lots`, `lot_snapshots` | add, list, remove, refresh, acknowledge, history |
| Saved searches | `modules/search` | `saved_searches`, `saved_search_results_cache` | save, view, remove, refresh, poll |
| Search catalog | `modules/search` | one generated document | read, refresh |
| Provider connections | `modules/provider_connections` | `provider_connections`: encrypted session, version, status | connect, reconnect, disconnect, live call |
| Push notifications | `modules/notifications` | `push_subscriptions`, `push_delivery_receipts` | subscribe, unsubscribe, send with receipt |
| Live sync status | `modules/system_status` | one document | mark available, mark degraded, freshness |
| Authentication | `modules/auth` | `users`, `invites` | bootstrap, invite, revoke, accept, login, refresh |
| Administration | `modules/admin` | (the others' collections) | block, demote, delete users; purge; disconnect |
| Runtime settings | `modules/runtime_settings` | overrides of settings | update, reset |
| Gateways and provider clients | `modules/{copart,iaai}_{gateway,provider}` | client pool, rate limiter | forward, parse |
| Frontend | `frontend/src` | session, resources | token refresh, reloads |
| Service worker | `frontend/public/sw.js` | badge counter | push, clear |

How they meet:

* **Worker and requests share documents and nothing else.** Request handlers are synchronous
  functions run in threads, the worker is another process; no transaction spans two writes. Each
  MongoDB call is atomic on one document. Everything between two calls can be overtaken by
  another process or cut off. This is the grain of all models here: *one action per database
  call (or per answer of a provider) that another process can tell apart.*
* A poll or manual refresh goes through a **provider connection**: it copies the stored session,
  calls the provider with it and writes back the rotated session by compare-and-swap.
* The worker takes a **lease** on each resource from the job runtime; manual refreshes do not.
* Polls produce **pushes**, deduplicated by receipts, and NEW / unseen marks which the owner's
  views and acknowledgements take away.

Hard behaviours: documents copied before a slow call and written from the copy after it; the
same collection written from five places by different keys; two documents written one after
the other; times taken at the start of a cycle and used at its end; processes cut off between
two writes; a resource removed while a poll of it is in flight.

What makes the components correct:

* *Job runtime*: no run of a resource starts inside the lease of another or inside a back-off;
  an abandoned lease does not last for ever; a skip is explained truthfully.
* *Connections*: the compare-and-swap loses no rotation; the session of a deleted document does not
  come back in the one that follows it; a dead session is noticed.
* *Watchlist*: the lot shows the page, the history records what the lot shows, each state is
  announced once, a mark of an unseen change is taken away by its owner only.
* *Saved searches*: a match is marked NEW until its owner was given it, and only then; none is
  announced twice while the polls find it; in the end the cache agrees with the pages that are fetched
  and the count with what the providers say they have.
* *Push and reminders*: each event reaches each device once; a reminder stored as sent was shown, and
  none waits for a long polling interval to pass or is lost with cycles that failed.
* *Accounts*: an active administrator remains; one invite makes one account; nothing is left of a
  deleted account.
* *Settings and live sync*: what an administrator was told is saved is in effect; a cycle works with
  one consistent set of values; the status recovers when the providers do.
* *Provider sessions*: a password is sent once; an outage costs nobody the session; the tokens stored
  are never older than the ones replaced; the limit on logins lifts.

## 2. Plan

The modules were written from the centre outwards: first the documents the worker and the requests
share, then what they cause (pushes, reminders), then who may act (accounts, administration), then
what steers them (settings, status), then the sessions behind a connection.

| Component | Abstract promise | Code | Theorems in |
|---|---|---|---|
| Refresh job runtime | `RefreshGate` | `RefreshJobRuntime` | `WorkerProofs` |
| Provider connections | | `ProviderConnection` | `ProviderConnectionProofs` |
| Watchlist, lot monitoring | | `WatchlistMonitoring` | `WatchlistMonitoringProofs` |
| Saved searches | | `SavedSearchRefresh` | `SavedSearchRefreshProofs` |
| Push, reminders, poll scheduling | `PushPromise` | `PushDelivery`, extended by `AuctionReminders` | `AuctionRemindersProofs` |
| Accounts, administration | | `Accounts`, extended by `AdminActions` | `AdminActionsProofs` |
| Settings, live sync | | `RuntimeSettings`, extended by `LiveSync` | `WorkerProofs` |
| Gateway and client of IAAI | | `GatewayErrors`, `IaaiSession` | `IaaiSessionProofs` |
| Gateway and client of Copart | | `GatewayErrors`, `CopartSession` | `CopartSessionProofs` |

What would come next, in this order: the badge of the service worker (`frontend/public/sw.js`: one
promise queue for pushes and clear messages, beside a page that clears the badge itself); the pool of
HTTP clients the provider clients share; `WorkerCycle`, the job runtime composed with a poll of
`WatchlistMonitoring`, to show when a manual refresh and a poll of one lot overlap.

Each module takes its bounds as CONSTANTS, has one action per step, and uses no RECURSIVE
operator, so that it can be proved about.

## 3. Modules and the code

### RefreshGate, RefreshJobRuntime

`RefreshGate` is the promise: a resource is free, busy or cooling, a run starts on a free
resource or after the deadline of the current period. `RefreshJobRuntime` is the code: `acquire`
is a read (`AcquireRead`: back-off test, lease test) and an unconditional update (`AcquireWrite`);
the outcomes overwrite the document by key (`PersistOutcome`); `describe_skip` reads again
(`DescribeSkip`). A cycle takes the time when it starts and uses it throughout, so deadlines are
kept relative to the clock and `lag` says how old the cycle's time is. `Abort` is an error that
escapes the handler of one resource; the document stays as it is.
The refinement mapping (`gateOf`, `leftOf`) reads a running document as busy with its lease, and a
retryable failure as cooling with its back-off; any other is free.

### ProviderConnection

One document, the owner's login and disconnect requests, and live operations which copy the document
(`StartOperation`), call the provider any number of times with that copy, and after each call write
by compare-and-swap (`PersistRotatedBundle`) or, when the session was rejected, mark the connection by
`_id` (`RecordReconnectRequired`). A bundle is abstracted to the login it came from and the number of
rotations; the provider decides which logins are alive. What a bundle contains, its encryption, labels
and dates are left out; the status a successful call reports (`connected`, `expiring`,
`reconnect_required`, by expiry) is a free choice. A call is rejected when its session has died, or was
replaced by a rotation the copy does not know of (`CallRejected`). Documents of different users never meet.

### WatchlistMonitoring

One lot. The provider's page goes through revisions; a revision stands for the fields change
detection compares, and for the etag. `StartCycle` copies the document (its etag) with the time;
`FetchModified` / `FetchNotModified` is the conditional request; `ReadLatest`, `WriteState`,
`WriteSnapshot`, `PushChange` are the database calls of `_poll_single_lot` and `poll_due_lots` in
their order. `TouchLot` stores the etag that was sent, as the code does. The manual refresh reads
unconditionally and writes the snapshot *before* the state. Snapshots are ordered by the time their
writer took, not by when they are written. An acknowledgement reads the lot only to answer 404 or with
the document it has just written, so it is one step. Revisions only grow: a page that shows an earlier
content again is a new edition with an etag of its own, and "not modified" is an answer about the
edition whose etag was sent. Left out: refresh status fields, reminders, the legacy
backfill flag, other lots of the cycle (time that passes between two steps).

### SavedSearchRefresh

One search over several providers, and a few lots among the many that fill their pages of results; a
lot is on some page or does not match. `ReadCache` copies the cache before the providers are asked,
page by page (`PollProvider`, `Asked`; any provider may fail, and one answer is enough): Copart's
pages beyond the first are fetched when it is asked alone, of every other search only the first page
is read (`AllPages`, `PagesAfter`), while the count is the sum of what the providers say they have
found (`Matches`). Lots come, go and move between two requests for pages. `UpsertCache` writes results
and merged NEW marks from the copy; then `UpdatePollState`, then `PushMatches` unless a receipt for the
same count and lots exists. The manual refresh stores results with no marks and answers last. The
upserts insert a cache also for a search that is gone. `shown`, `missed` and `hidden` are history
variables: what the owner was given; what was taken for known without being given (first results of a
search saved without results; a refresh cut off before its answer); and the lots that a poll could not
find for a time although they may have matched, since they went out of reach of the pages fetched, moved
while these were fetched, or were at a provider that did not answer. What `AnnouncedOnce` promises is
about all others, since the code cannot tell a lot it did not find from one that is gone.

### PushPromise, PushDelivery

`PushPromise` says that a device shows an event once, and once more at most for each thing that went
wrong. `PushDelivery` is `_send_payload_to_owner`: it loads the subscriptions once (`Load`) and takes
them one by one in any order; each is skipped when a receipt is there (`SkipDuplicate`), or sent
(`Send`), which may fail (`SendFails`) or find the endpoint gone (`EndpointGone`, then
`RemoveSubscription` by `_id`), and a delivery is recorded (`CreateReceipt`), unless that write fails
(`ReceiptFails`). Two senders run at once, the worker and the owner's test notification, which has
no dedupe key. The owner subscribes and unsubscribes meanwhile. An event is whatever makes a dedupe key
different; `got` and `troubles` are what the promise is about and map to it by name. The sender is
configured: without one nothing is read, sent or recorded, and the reminders stored as sent are not
shown (notifications/service.py:262-276).

### AuctionReminders

One lot. A cycle copies it with the time, decides whether to poll (`Due`, `Crossed`), fetches the page,
computes which reminders are due (`ReminderState`), stores them as sent with the sale date (`Store`) and
then sends them through `PushDelivery` (`SendReminder`). A failure that is worth another try keeps the
lot from being taken for a back-off (`retryAt`); a refusal, or a connection that is not ready, does not.
Neither stores a check. `unread` remembers that the last cycle began to poll and could not finish; the
worker may be cut off anywhere. A document older than the fields of today may be polled at any time
(`repair_requested_at`). Meanwhile the sale moves, offsets change
and the owner refreshes by hand: that stores the new date and leaves the reminder state alone. Times
are ticks, `touched` is when somebody other than the worker last changed what reminders depend on.

### Accounts, AdminActions

`Accounts` has users, unique by email, invites and requests. A request authenticates once (by the `_id`
in its token, against the account's status and role) and then reads and writes one document at a time;
any may be cut off. `ensure_bootstrap_admin` runs at each start (`Startup`). `AdminActions` adds
`execute_user_action`: the target is read (`StartAction`), `_ensure_not_last_active_admin` counts the
others (`Guard`), and the account is updated (`UpdateUser`) or a plan of deletions is followed,
collection by collection (`Plan`, `EraseList`, `EraseDocs`, `EraseInvites`, `EraseAccount`), in the order of the
code. Owners add searches, lots, subscriptions and connections, and the worker stores results for what
it has copied. `crowded`, `torn` and `late` are history variables that name the exceptions the
properties make. Left out: passwords, tokens, `reset_password`, disconnecting providers, and
what a deleted account leaves in collections the code never deletes from (section 5).

### RuntimeSettings, LiveSync

`RuntimeSettings`: an update validates all values first and then writes one document per key
(`UpsertOverride`), a reset deletes all its documents at once (`DeleteOverrides`); `Effective` normalises what is stored and falls back to the default; a cycle
resolves all settings when it builds its services (`BuildServices`). A value is the set of its
numbers. Documents an earlier release stored with other bounds are initial states.
`LiveSync` adds the status document: a cycle marks its polls with the time the cycle began, a search,
also one a cycle makes, with the time of the mark; `ShownStatus` is what a page reads, with the stale
window of the moment.

### GatewayErrors, IaaiSession, CopartSession

`GatewayErrors` follows a failure through four layers: the client at the site, the gateway's router
(header), the backend's client (exception) and the connection service (answer, or what becomes of
the connection), as tables from one to the next.
`IaaiSession`: a login by hand, then perhaps in the fallback browser; an operation that renews a token
that is due, sends, and renews once when it is refused; tokens numbered by the grant that issued them;
an answer that is lost after the site has already replaced the refresh token. The wrapper of the
backend keeps the document it was built with.
`CopartSession`: the limiter of logins, which logs attempts that pass and refuses without logging; the
login with challenge, identity and verification, each of which may be configured or not; the
site may replace the session in any answer. Both write back by the compare-and-swap that
`ProviderConnection` models for any number of operations, deletions and disconnects.

## 4. Runs

| Run | Shows | Instance |
|---|---|---|
| JobRuntimeOneWorker | `TypeOK`, `GateKept` (refinement of `RefreshGate`), `SkipExplained`, `StuckLeaseRecovered` | 1 loop, 2 resources, lease 2, back-off 1, lag up to 3, 2 aborts |
| ConnectionInFlight | `TypeOK`, `BundleMatchesVersion`, `RotationsChain`, `SessionsStayHome`, `DeadSessionNoticed` | 2 operations, 2 logins, versions up to 3 |
| WatchlistPolls | `TypeOK`, `HistoryKeepsUp`, `PushedOnce`, `EtagTrusted`, `ContentConverges`, `LastChangeAnnounced` | 4 revisions, with and without etags, 2 processes cut off |
| WatchlistManual | `UnseenUntilAcked`, `HealsAtQuietChange` | 1 manual refresh, 4 revisions, 1 cut off |
| SavedSearchOverlap | `TypeOK`, `NoSilentMatch`, `AnnouncedOnce`, `CacheConverges` | 2 providers or one of them, 2 pages each, 1 lot of each, 1 manual refresh, 1 change, 1 outage or cut off |
| SavedSearchFalseNew | *violation* of `NewMeansNew`: lots of a provider that failed once come back as NEW | the same, no refresh, no change, 1 outage |
| AuctionReminders | `TypeOK`, `SentMeansShown`, `OnTime`, `OncePerDevice` (refinement of `PushPromise`) | 1 device, 2 sale dates, offsets {0, 2} or {0}, intervals 4 and 1, window 1, back-off 1, lag 1, time to 5, 1 trouble, 2 disturbances |
| AdminRaces | `TypeOK`, `AdminRemains`, `OneAccountPerInvite` | 2 emails, 1 invite, 2 requests at once, 4 in all, 3 accounts |
| UserDeletion | `NothingLeft` | 2 requests at once, 3 in all, 2 accounts, 1 search or lot |
| LiveSync | `LiveTypeOK`, `AnsweredIsInEffect`, `CycleUpToDate`, `Recovers` | 1 setting, 2 administrators, 2 changes, 1 request of the API, time to 2 |
| IaaiSession | `TypeOK`, `PasswordSentOnce`, `GivenUpForCause`, `TokensNeverGoBack` | 2 operations, 2 grants, versions up to 3, with the fallback browser |
| CopartSession | `TypeOK`, `StatusEarned`, `LimitLifts` | all optional paths or none, 1 connect request, 1 operation, limit 2 in a window of 1, 2 sessions, versions up to 3 |

Why the bounds are enough.

* *Job runtime*: the tests compare one deadline with one cycle's time; lag above the lease makes
  every order of deadline, cycle start and clock occur, and a second resource makes the cycle's
  time old when it is reached.
* *Connections*: a race needs two holders of one copy and a login or deletion between; two
  rotations make a chain in which a stale one could be lost.
* *Watchlist*: three changes give a page older than the one stored, the one stored, a newer one, and
  a change after the race; a single worker has one poll in flight.
* *Searches*: one lot of each provider is enough for a partial answer, and one change for a match
  that appears, disappears or moves to another page while a poll holds an old copy or is between two
  pages; every choice of providers and of pages is an initial state. With 3 changes, outages and
  cut-offs as in the run and no refresh, `AnnouncedOnce` was checked too (1,282,111 states), and without
  `\ hidden` it is violated: a lot that leaves the pages fetched and returns is announced again.
* *Reminders*: two dates let the sale move and move back; the default interval is longer than the
  distance of two thresholds, so a reminder that waited for it would be late; offset 2 lies outside
  the near-auction window and 0 inside; one device that leaves and comes back has two `_id`s. One trouble
  is a cut-off, a delivery that failed or a receipt that was lost, and the promise is about each more.
  Failed polls count among the disturbances, and two follow each other; with 3 disturbances the run
  takes 6,037,894 states and finds nothing else.
* *Accounts*: a guard is overtaken by one other request; a third account is the bootstrap account made
  again. Deletion needs the deletion, a writer and one action before or between.
* *Settings*: two requests of two administrators overlap in every way with one setting. That updates of
  several mix, and a reset of several does not, was checked with two settings and nothing else (11,266
  states), and `SavedIsInEffect` proves it for any number of them. Time 2 makes a mark
  that is older than the stale window of 1 and not than the one of 2.
* *IAAI*: a race needs two operations with copies of one bundle and one grant after the login's. Two
  grants leave one for a renewal and one for a login, or two renewals.
* *Copart*: one more session than the login's makes a session replaced in an answer; the limit of 2 is
  reached by one request repeated. What several owners share is the limit alone, per user name.

Deadlock checking is off where the system may really stop: owners and administrators need not ask for
anything again, and the numbers of logins, refreshes, changes and ticks are bounded.

Fairness. The worker loop runs for ever (`while True`, sleep of 30 s) and ends each cycle, since
every provider call has a time-out: weak fairness of the worker's steps. A due resource is found due
again: strong fairness of a cycle that visits it (`RefreshJobRuntime`), and of a poll in some cycle
(`LiveSync`). For a page or a live call, strong fairness of the answer: a provider that can be
reached again and again answers in the end; connections that stay unusable are in the operator's
hands. Requests that have begun end. `LimitLifts` is about an owner who keeps trying, and says so: weak
fairness of `Connect` and of the clock. Otherwise nothing is assumed of users or of what the
providers do; `Recovers` has the providers' answering for good in its premise.

The mutations: every property of a passing run is violated when one mapped definition is
replaced by a plausible mistake, kept next to it in the module (a test never made, a filter
without its version, the mark recomputed at each poll, a receipt never looked for, a blocked
administrator counted as another one, a plan of deletions in another order, ...).

## 5. Findings

`SavedSearchFalseNew` is the finding of a run: `NEW` is to mean "appeared since the last time the
user viewed this saved search", but a search succeeds with the results of one provider, the other's
lots leave the cache, and the next poll marks and announces all of them.

### Divergences the models show with other constants

Stated as definitions of the modules and false; TLC finds each counterexample in seconds with the
constants given (safety only, `SPECIFICATION Spec`).

| Definition | What the repository says | What happens | Instance |
|---|---|---|---|
| `NoDuplicateRefresh` (`RefreshJobRuntime`) | README.md:35: leases "avoid duplicate concurrent refreshes" | `acquire` reads and then updates unconditionally: two loops are both granted a resource. One loop is deployed | 2 workers, 1 job, no aborts |
| `NoClobber` (`ProviderConnection`) | per-user connector plan: "do not clobber concurrent user-driven session refreshes"; docs/backend-api.md:564 | `bundle_version` restarts at 1 at each login and disconnect, so a leftover rotation matches a new session or fills a disconnected document | 1 operation, 2 logins, versions up to 2 |
| `NoFalseReconnect` (`ProviderConnection`) | docs/backend-api.md:517: "stored session became invalid" | a failed call marks the connection by `_id`, whichever session failed | the same |
| `PushedOnce` (`WatchlistMonitoring`) | a change is announced once | a manual refresh takes no lease and may make the worker announce a state twice | 1 refresh, 3 revisions |
| `NoHistoryLost` (`WatchlistMonitoring`) | PWA plan, task 5: "without losing history in lot_snapshots" | cut off between state and snapshot, the new etag hides the change | 1 cut off, 2 revisions |
| `NoOrphanSnapshots` (`WatchlistMonitoring`) | docs/database-schema.md:190: "deleting a tracked lot also deletes its snapshots" | a poll in flight leaves a snapshot of a removed lot | no cut off, 2 revisions |
| `MarkerGrowsStale` (`LiveSync`) | runtime_settings/models.py: a failure marker older than the window "is treated as stale" | a failure marked with the time of its cycle's start, older than a success already stored, is never stale | the run's |

### Divergences read while modelling

The models contain what the code does here; no property promises otherwise.

* *Accounts*: two overlapping actions may remove the last active administrator (docs/backend-api.md:454
  promises the contrary; `AdminRemains` names the exception `crowded`). A deleted bootstrap
  administrator is made again at the next start. `delete_user` leaves `push_delivery_receipts` and
  `job_runtime` documents. A deletion that is cut off leaves documents until it is tried again; what the
  owner or the worker stores behind a deletion may stay for good.
* *Paging*: docs/backend-api.md:1115 says that a search "transparently loads all pages"; the code does
  so for Copart alone (`search/service.py:126`). With both providers, or with IAAI, a lot that is
  pushed off the first page leaves the cache, and is new and announced when it returns.
* *Reminders*: thresholds are stored as sent before they are pushed, so a cycle cut off in between, or a
  backend without a configured sender, loses the reminder. While the connection is not ready no
  reminder is sent at all, and one whose sale passes meanwhile never is.
* *IAAI*: a second call of one wrapper sends the document it was built with, and so a refresh token the
  first call has spent; the site refuses it and the connection is given up. Tokens renewed by a call
  that then fails, or whose answer is lost, are lost with it. A 403 of the bot filter after a renewal
  and an unreadable answer to a renewal count as a dead session. A login whose answer carries no
  code is reported as wrong credentials. The cookies stored after a renewal are the client's own, so
  the bot filter's may be lost.
* *Copart*: `bootstrap_connector_session` verifies a session and stores its own bundle, not the one the
  verification's answer replaced (client.py:618): the connection is stored as connected with a dead
  session. A new `SessionID` without an expiry keeps the old expiry. An answer that clears the cookie
  raises `CopartChallengeError`, and IAAI's bot filter `IaaiGatewayUnavailable` or a WAF error, which
  `_execute_live_operation` does not catch. A 200 that is not JSON loses a replaced session. The limit on
  logins lives in the memory of one gateway process.
* *Lots through a gateway*: the connector endpoints answer lot details with neither an etag header nor
  a 304, so the conditional requests of `_poll_single_lot` are answered with the page. The runs of the
  watchlist take pages with and without etags, as the code of the poll does.
* *Administration*: the directory's lots compute their freshness from the environment's default interval
  (`admin/service.py:751`) and not from the overridden setting read just before.

## 6. Proofs

Eight modules, `<module>Proofs` each; everything is checked by tlapm with SMT, Zenon and LS4 from
the named assumptions on the constants. Where a state is a record with many fields, the model
builds it with a constructor (`Sending`, `ChangeState`, `CycleState`, ...) and the proof has one lemma on
its fields, so that leaves need not expand records.

* `WorkerProofs` is about what steers the worker: the job runtime and, with the settings, its live sync
  status. The two specifications share nothing, and each theorem is about one of them; `LiveSync`
  names its parts apart (`LiveSpec`, `LiveTypeOK`, ...) so that one module can extend both.
* `WorkerProofs!RuntimeTypeCorrect`: the job runtime's `TypeOK` is inductive by itself: deadlines are set
  from `lease - lag` and only decrease.
* `WorkerProofs!OneWorkerKeepsGate`: for `Workers = {only}`, `Spec => GateKept`.
  The inductive invariant (`SingleWorkerInvariant`) adds to the types that while the worker is
  about to write (`claim`) the document it read still allows the run, and that while it refreshes
  the document is still the running one it wrote. Both need that there is no second writer, which
  is exactly what fails with two loops. Each action then maps to a step of the gate or
  to a stutter.
* `WorkerProofs!OneWorkerExplains`: the same premise gives `SkipExplained`: what made
  `acquire` refuse is still so when `describe_skip` reads, because the cycle goes on measuring with
  its own time: the clock lowers a deadline and raises the lag by one, and leaves their sum alone.
* `ProviderConnectionProofs!TypeCorrect`, `BundleGuarded`, `NoRotationLost`, `DeletedSessionsStayGone`: for
  any number of users' requests, operations, logins and rotations. The inductive invariant says
  that the document *and every copy an operation holds* are coherent (version = rotations + 1, a
  usable one has a bundle) and that `_id`s are numbers of logins already granted and never used
  again, so a document inserted after a deletion differs from every copy held; `BundleMatchesVersion`
  alone is not inductive, because a compare-and-swap writes from a copy. `SessionsStayHome` is a relation of
  the document with the copies and needs the same of the copies among themselves (`OneHome`), which new
  logins keep because their numbers are fresh (`LoginsFresh`, `SessionsNamed`).
* `SavedSearchRefreshProofs!TypeCorrect`, `NothingSilent`, `AnnouncedAtMostOnce`: for any number
  of providers, lots, pages, refreshes, changes and outages. `NoSilentMatch` is not inductive: a poll merges
  marks from its copy of the cache, so the invariant (`AllTold`) promises of the copy, and of the
  results a save is about to store, what the property promises of the cache; it survives other
  processes' steps because what the owner was given only grows (`GivenGrows`). `AnnouncedOnce` follows
  from `QuietSearch`: while it is not `hidden`, an announced lot is in the cache, in the copy of the
  cache and, once the page that shows it was asked for, among the results, so it is never new again.
* `WatchlistMonitoringProofs!TypeCorrect`, `MarkIsTheOwners`: for any number of polls, revisions,
  crashes and manual refreshes; `TypeCorrect` says that every snapshot has a revision of the page and a
  time somebody took, and nothing of their order (`Order` below does, for the polls alone); `MarkIsTheOwners` is the property `UnseenUntilAcked`.
* `WatchlistMonitoringProofs!AnnouncedAtMostOnce`, `NotModifiedIsTrue`, `HistoryFollows`: the same, but
  assuming `Requests = {}`, the polls alone. With a refresh of the owner's in flight the first is
  false (section 5). A poll compares the page with the newest snapshot and
  not with what was announced, so the properties are not inductive; the invariant (`IInv`) adds
  that snapshots in the order of their times are in the order of their revisions (`Order`), what a
  poll carries lies between the newest snapshot and the page, what was announced was recorded
  (`Announced`), and an etag is only ever stored together with the page it came with
  (`EtagWithPage`). The newest snapshot exists because sets of naturals have a least element
  (`LeastNat`), which the proof takes from the well-foundedness of `<`.
* `AuctionRemindersProofs!PromiseKept` and `RemindersKeepPromise` (`OncePerDevice`): delivery implements
  `PushPromise`, alone and beneath the reminders, for any events, devices and failures. The invariant
  (`Counted`) says that a device has shown an event at most as often as there were troubles, and once
  more only when that delivery is recorded or about to be: the promise alone is not inductive,
  because what allows a delivery is that no receipt is there.
* `AuctionRemindersProofs!StoredIsShown` (`SentMeansShown`): a reminder is stored as sent before it is
  sent. The invariant (`Honest`) says that receipts are true, that the worker sends only for a cycle
  that is sending, and that each stored reminder was shown, is on its way (the subscription it needs
  is among those loaded) or is among those the cycle has yet to send, and the same of the copy a cycle
  holds. A subscription with the first `_id` has been there all along, which is why the property
  speaks of those.
* `AuctionRemindersProofs!RemindersOnTime` (`OnTime`): for any dates, offsets, intervals and back-offs. The
  invariant (`TInv`) says of the last check what the property says of now: whatever was due then, and is
  not excused by a later change, is stored as sent (`SentAt(lot.checked)`). A poll establishes it, since it
  works with the settings and the date in force or somebody has changed them since (`CopyCurrent`); a cycle
  that passes the lot by has found no threshold crossed since the last check (`NotCrossed`), so what holds
  at the check holds now; and a change excuses whatever is due by its time (`JustChanged`). A cycle that
  began to poll and could not finish, with or without a back-off, has stored no check, and so what was
  crossed stays crossed until one can.
* `AuctionRemindersProofs!TypeCorrect`, `CopartSessionProofs!TypeCorrect`: with the orders of times and the
  bounds of counters (`Timed`, `PushBounded`, `ClockBounded`), respectively with what the log of attempts,
  the answers and the sessions the site accepts add to `Shape` (`WInv`): a challenge is only ever answered
  for a session that was opened, and a session that is accepted then is no longer pending.
* `AdminActionsProofs!TypeCorrect`: a request knows the account it acts on and the step of its plan it has
  come to (`Coherent`, `Known`); an account never changes its email, and a deleted one stays as it is
  (`Keeps`), so that live accounts have different emails.
* `AdminActionsProofs!AnAdminRemains` (`AdminRemains`): unless two removals overlapped, at most one request
  under way may remove an administrator, and once it is past its check, an administrator other than its
  target is there (`Cleared`): the check is of a moment, and everything else that happens until the update must
  leave that administrator alone.
* `AdminActionsProofs!OneInviteOneAccount` (`OneAccountPerInvite`): once an account was made of an invite,
  either its email is taken, and keeps a second one out, or the invite has gone and every answer still
  under way is late (`Spent`); a deletion that has come to the account has the invites behind it
  (`Closing`), which is where the order of the plan matters.
* `AdminActionsProofs!NothingIsLeft` (`NothingLeft`): says for each step of each plan what the deletion has
  done by then and what it knows (`Swept`): no search is left when it comes to the caches, or it has listed
  those it deleted; no snapshot without a lot but those another deletion will find. A cache without a
  search, stored in order, is left only where a deletion will find it (`CachesOK`, `SnapshotsOK`);
  searches and lots of the same number have the same owner, no listed number is later than the last one
  given, and the numbers a deletion has listed are its account's (`IdsOK`).
* `IaaiSessionProofs!TypeCorrect`, `PasswordOnce`, `CauseHeard`, `TokensGrowNewer`: for any number of
  operations, grants and versions, with and without the browser. The form is sent by one step, and
  the browser is reached only before it (`SubmitsFollow`); a failed call that will give the connection up
  has heard something (`CausesKnown`). For the tokens, a copy with the stored version has the stored
  bundle, and what an operation is about to write has tokens no older than its copy's (`Ageing`):
  with the compare-and-swap that makes each replacement newer.
* `CopartSessionProofs!EarnedStatus`: for any requests, operations and configured paths. A session is
  pending from its opening or never (`Rested`), so one that has passed the challenge, or needed none, can
  be carried to its storage; a status that gives up is carried together with the expiry that has passed.
* `WorkerProofs!LiveTypeCorrect`, `SavedIsInEffect`, `CycleSettings`: for any settings, administrators and
  stored leftovers. Each request says of each key that it has yet to write it, that another has
  written it since, or that what is stored is what it wants (`Written`), and what it wants was checked
  (`Wanted`), so it is not normalised away when it is read. The marks of calls do not touch settings and
  are one step of the proof (`OutsideOK`).

Every invariant of the runs is proved, and every action property and refinement. Only model-checked is
liveness, which TLAPS does not handle: `StuckLeaseRecovered`, `DeadSessionNoticed`, `ContentConverges`,
`LastChangeAnnounced`, `HealsAtQuietChange`, `CacheConverges`, `Recovers`, `LimitLifts`.

Two things in the models are written for the proofs and say the same as the code. The plans of
`execute_user_action` are a table of steps (`Plan`) instead of a sequence computed from the action. The
limiter keeps the attempts that are still in the window as a prefix of the log (`Tick`): they are noted one
after the other, the latest first, so that those are the ones the code's filter keeps.

## 7. Not modelled

* Parsing of provider pages, search forms, HTTP, routing, serialisation and formatting: no shared state,
  and a unit test reaches them. The search catalog is generated data and a lookup, refreshed in one
  write.
* The anonymous proxy endpoints of the gateways, which forward a request and its answer; the pool of
  HTTP clients, a cache under one lock.
* The order in which due lots and searches are polled: each is modelled by itself, and the time other
  resources take is the lag of a cycle.
* The administrator's directory and overview, which only read.
* The frontend and its service worker: the badge is a counter in one browser, changed through one
  promise queue. `PROJECT.json` lists the hazard without a property.
* Deployment.
