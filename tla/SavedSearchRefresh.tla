------------------------- MODULE SavedSearchRefresh -------------------------
(***************************************************************************)
(* One saved search of a user (modules/search): the saved_searches         *)
(* document, the cache of its results with their NEW marks, and those who  *)
(* write them: the polling worker, manual refreshes, views, and the        *)
(* requests that save and remove the search.  Every write below is one     *)
(* write to MongoDB.                                                       *)
(*                                                                         *)
(* The model follows some lots among the many that fill the pages of       *)
(* results.  Only a search of Copart alone fetches more pages than the     *)
(* first, one request after the other, while lots may move between them;   *)
(* the count of a search is what the providers say they have found, on     *)
(* whatever page.                                                          *)
(*                                                                         *)
(* Of the saved_searches document only result_count is kept: refresh       *)
(* states decide nothing here, and search_etag is never sent (the clients  *)
(* of a user's connection drop it), so no answer is "not modified".        *)
(* Legacy documents without lot keys are left out.                         *)
(***************************************************************************)
EXTENDS Integers, FiniteSets

CONSTANTS
  Lots,         \* the lots followed: pairs of their provider and a name
  Copart,       \* the provider whose pages are all fetched when it is alone
  Pages,        \* the pages of results of a provider
  Requests,     \* bound: the manual refreshes that are made
  MaxChanges,   \* bound: how often a lot appears, disappears or moves
  MaxTroubles   \* bound: outages of providers, and processes that are cut off

ASSUME SearchAssumption ==
  /\ IsFiniteSet(Lots) /\ Pages \in Nat \ {0}
  /\ MaxChanges \in Nat /\ MaxTroubles \in Nat

VARIABLES
  providers,    \* the providers of the search's criteria
  remote,       \* remote[l]: the page that shows the lot, 0 if it does not match
  hidden,       \* lots that a poll could not find for a time (history variable)
  search,       \* [pc, count, seed]: the document and the requests that save
                \* and remove it
  cache,        \* the cache document, NoCache when there is none
  worker,       \* the worker's poll of this search
  request,      \* request[q]: a manual refresh
  announced,    \* announced[l]: notifications that l is a new match
  receipts,     \* delivery receipts: count and lots of a notification
  shown,        \* lots the owner was ever given in a list of results
  missed,       \* lots that were taken for known and not given to the owner
  changes,      \* changes at the providers so far
  troubles      \* outages, and processes cut off, so far

vars == <<providers, remote, hidden, search, cache, worker, request, announced,
          receipts, shown, missed, changes, troubles>>

Providers == {l[1] : l \in Lots}
NoCache == [stored |-> FALSE, results |-> {}, new |-> {}]
Caches == [stored : BOOLEAN, results : SUBSET Lots, new : SUBSET Lots]
Idle == [pc |-> "idle", copy |-> NoCache, todo |-> {}, ok |-> {}, results |-> {},
         count |-> 0, fresh |-> {}]
Done == [Idle EXCEPT !.pc = "done"]

Saved == search.pc \in {"seed", "saved"}

Init ==
  /\ providers \in (SUBSET Providers) \ {{}}
  /\ remote \in [Lots -> 0..Pages]
  /\ \A l \in Lots : remote[l] # 0 => l[1] \in providers
  /\ hidden = {}
  /\ search = [pc |-> "none", count |-> 0, seed |-> {}]
  /\ cache = NoCache
  /\ worker = Idle
  /\ request = [q \in Requests |-> Idle]
  /\ announced = [l \in Lots |-> 0]
  /\ receipts = {}
  /\ shown = {}
  /\ missed = {}
  /\ changes = 0
  /\ troubles = 0

----------------------------------------------------------------------------
(* Results, new matches and NEW marks.                                     *)

\* Locals before the first page is asked for, and after the cache is stored.
Searching(copy) == [Idle EXCEPT !.pc = "search", !.copy = copy,
                                !.todo = {<<p, 1>> : p \in providers}]
Found(s, fresh) == [Idle EXCEPT !.pc = "state", !.results = s.results,
                                !.count = s.count, !.fresh = fresh]

\* _execute_search asks for one page after the other, ...
NextPage(s) == CHOOSE g \in s.todo : \A h \in s.todo : g[2] <= h[2]

\* ... beyond the first one only when Copart is asked alone.
AllPages == providers = {Copart}

\* The lots that match at some of the providers, and those a search can find.
Matches(ps) == {l \in Lots : l[1] \in ps /\ remote[l] # 0}
InReach == {l \in Lots : remote[l] # 0 /\ (remote[l] = 1 \/ AllPages)}

\* Mutated form: the number of pages is rounded down.
PagesAfterRounded(g) ==
  IF AllPages /\ g[2] = 1 THEN {g[1]} \X (2..(Pages - 1)) ELSE {}

\* The pages there are after page g, by the number found.
PagesAfter(g) == IF AllPages /\ g[2] = 1 THEN {g[1]} \X (2..Pages) ELSE {}

\* The provider answers with a page and, on the first, with the number it found.
\* All it answered is dropped if it fails; then the others are asked.  (A provider
\* without a usable connection is passed over, which is the same; and so is, for a
\* poll of one provider, a failure of the count it asks for before.)
Asked(s, answers) ==
  LET g == NextPage(s)
  IN IF answers
     THEN [s EXCEPT
            !.todo = (s.todo \ {g}) \cup PagesAfter(g),
            !.ok = s.ok \cup {g[1]},
            !.results = s.results \cup {l \in Lots : l[1] = g[1] /\ remote[l] = g[2]},
            !.count = s.count + IF g[2] = 1 THEN Cardinality(Matches({g[1]})) ELSE 0]
     ELSE [s EXCEPT
            !.todo = {h \in s.todo : h[1] # g[1]},
            !.ok = s.ok \ {g[1]},
            !.results = {l \in s.results : l[1] # g[1]}]

\* An outage that began with the first provider may take the next one with it.
Outage(s) == s.ok = {} /\ Cardinality(s.todo) < Cardinality(providers)

\* Whether the next page is answered; each outage counts once.
Answered(s, answers) ==
  IF answers \/ Outage(s)
  THEN troubles' = troubles
  ELSE troubles < MaxTroubles /\ troubles' = troubles + 1

Searched(s) == s.pc = "search" /\ s.todo = {} /\ s.ok # {}
SearchFailed(s) == s.pc = "search" /\ s.todo = {} /\ s.ok = {}

\* Mutated form: compared with the marked lots only.
TrulyNewUnmarked(s) == IF s.copy.stored THEN s.results \ s.copy.new ELSE {}

\* truly_new_lot_keys: nothing is new to a cache that does not exist yet.
TrulyNew(s) == IF s.copy.stored THEN s.results \ s.copy.results ELSE {}

\* Mutated form: only the matches of this poll are marked.
MergedNewFreshOnly(s) == TrulyNew(s)

\* Mutated form: marks of lots that no longer match are kept.
MergedNewStale(s) == s.copy.new \cup TrulyNew(s)

\* merged_new_lot_keys
MergedNew(s) == (s.results \cap s.copy.new) \cup TrulyNew(s)

Cached(results, new) == [stored |-> TRUE, results |-> results, new |-> new]

\* update_saved_search_poll_state
Counted(n) == search' = IF Saved THEN [search EXCEPT !.count = n] ELSE search

----------------------------------------------------------------------------
(* The owner's other requests.                                             *)

\* save_search inserts the document, with the results the owner looks at: those
\* of a search that some of the providers answered, or none.
InsertSearch ==
  /\ search.pc = "none"
  /\ \E ps \in SUBSET providers :
       LET seed == {l \in InReach : l[1] \in ps}
       IN /\ search' = [pc |-> IF seed = {} THEN "saved" ELSE "seed",
                        count |-> Cardinality(Matches(ps)), seed |-> seed]
          /\ shown' = shown \cup seed
  /\ UNCHANGED <<providers, remote, hidden, cache, worker, request, announced,
                 receipts, missed, changes, troubles>>

\* ... and then the cache, unless there are no results.
SeedCache ==
  /\ search.pc = "seed"
  /\ search' = [search EXCEPT !.pc = "saved"]
  /\ cache' = Cached(search.seed, {})
  /\ UNCHANGED <<providers, remote, hidden, worker, request, announced,
                 receipts, shown, missed, changes, troubles>>

\* view_saved_search: the answer holds the cache as it was before.
View ==
  /\ Saved
  /\ cache.stored
  /\ cache' = [cache EXCEPT !.new = {}]
  /\ shown' = shown \cup cache.results
  /\ UNCHANGED <<providers, remote, hidden, search, worker, request, announced,
                 receipts, missed, changes, troubles>>

\* delete_saved_search deletes the document first, ...
RemoveSearch ==
  /\ search.pc = "saved"
  /\ search' = [search EXCEPT !.pc = "cleanup"]
  /\ UNCHANGED <<providers, remote, hidden, cache, worker, request, announced,
                 receipts, shown, missed, changes, troubles>>

\* ... then the cache there is.
DeleteCache ==
  /\ search.pc = "cleanup"
  /\ search' = [search EXCEPT !.pc = "gone"]
  /\ cache' = NoCache
  /\ UNCHANGED <<providers, remote, hidden, worker, request, announced,
                 receipts, shown, missed, changes, troubles>>

----------------------------------------------------------------------------
(* The worker: poll_due_saved_searches, _poll_single_saved_search.         *)

Worker(w) == worker' = w

\* A search is due some minutes after it was saved.
StartPoll ==
  /\ worker.pc = "idle"
  /\ search.pc = "saved"
  /\ Worker([Idle EXCEPT !.pc = "read"])
  /\ UNCHANGED <<providers, remote, hidden, search, cache, request, announced,
                 receipts, shown, missed, changes, troubles>>

\* The cache is read before the providers are asked.
ReadCache ==
  /\ worker.pc = "read"
  /\ Worker(Searching(cache))
  /\ UNCHANGED <<providers, remote, hidden, search, cache, request, announced,
                 receipts, shown, missed, changes, troubles>>

PollProvider(answers) ==
  /\ worker.pc = "search"
  /\ worker.todo # {}
  /\ Answered(worker, answers)
  /\ Worker(Asked(worker, answers))
  /\ UNCHANGED <<providers, remote, hidden, search, cache, request, announced,
                 receipts, shown, missed, changes>>

PollFailed ==
  /\ SearchFailed(worker)
  /\ Worker(Idle)
  /\ UNCHANGED <<providers, remote, hidden, search, cache, request, announced,
                 receipts, shown, missed, changes, troubles>>

\* upsert_saved_search_cache, from the copy read before.
UpsertCache ==
  /\ Searched(worker)
  /\ cache' = Cached(worker.results, MergedNew(worker))
  /\ missed' = missed \cup IF worker.copy.stored THEN {} ELSE worker.results
  /\ hidden' = hidden \cup {l \in Lots : l[1] \notin worker.ok}
  /\ Worker(Found(worker, TrulyNew(worker)))
  /\ UNCHANGED <<providers, remote, search, request, announced, receipts, shown,
                 changes, troubles>>

UpdatePollState ==
  /\ worker.pc = "state"
  /\ Counted(worker.count)
  /\ Worker(IF worker.fresh = {} THEN Idle ELSE [worker EXCEPT !.pc = "push"])
  /\ UNCHANGED <<providers, remote, hidden, cache, request, announced, receipts,
                 shown, missed, changes, troubles>>

\* send_saved_search_match_notification, to one device that takes every message:
\* once per receipt, and a receipt names the count and the new lots.
PushMatches ==
  /\ worker.pc = "push"
  /\ LET r == [count |-> worker.count, lots |-> worker.fresh]
     IN /\ receipts' = receipts \cup {r}
        /\ announced' = [l \in Lots |->
             announced[l] + IF r \notin receipts /\ l \in r.lots THEN 1 ELSE 0]
  /\ Worker(Idle)
  /\ UNCHANGED <<providers, remote, hidden, search, cache, request, shown,
                 missed, changes, troubles>>

----------------------------------------------------------------------------
(* Manual refresh: refresh_saved_search_live.                              *)

Request(q, r) == request' = [request EXCEPT ![q] = r]

StartRefresh(q) ==
  /\ request[q].pc = "idle"
  /\ Saved
  /\ Request(q, Searching(NoCache))
  /\ UNCHANGED <<providers, remote, hidden, search, cache, worker, announced,
                 receipts, shown, missed, changes, troubles>>

RefreshProvider(q, answers) ==
  /\ request[q].pc = "search"
  /\ request[q].todo # {}
  /\ Answered(request[q], answers)
  /\ Request(q, Asked(request[q], answers))
  /\ UNCHANGED <<providers, remote, hidden, search, cache, worker, announced,
                 receipts, shown, missed, changes>>

RefreshFailed(q) ==
  /\ SearchFailed(request[q])
  /\ Request(q, Done)
  /\ UNCHANGED <<providers, remote, hidden, search, cache, worker, announced,
                 receipts, shown, missed, changes, troubles>>

StoreCache(q) ==
  /\ Searched(request[q])
  /\ cache' = Cached(request[q].results, {})
  /\ Request(q, Found(request[q], {}))
  /\ UNCHANGED <<providers, remote, hidden, search, worker, announced, receipts,
                 shown, missed, changes, troubles>>

\* The last writes; the answer with the results follows.
StoreState(q) ==
  /\ request[q].pc = "state"
  /\ Counted(request[q].count)
  /\ shown' = shown \cup request[q].results
  /\ Request(q, Done)
  /\ UNCHANGED <<providers, remote, hidden, cache, worker, announced, receipts,
                 missed, changes, troubles>>

----------------------------------------------------------------------------
(* The providers, and processes that are cut off.                          *)

\* A lot appears, disappears or moves to another page.  Polls do not find one that
\* goes out of reach, nor perhaps one that moves while they go from page to page.
RemoteChange(l) ==
  /\ changes < MaxChanges
  /\ changes' = changes + 1
  /\ l[1] \in providers
  /\ \E n \in (0..Pages) \ {remote[l]} : remote' = [remote EXCEPT ![l] = n]
  /\ hidden' = IF l \in InReach /\ (worker.pc = "search" \/ remote'[l] = 0 \/ ~ AllPages)
               THEN hidden \cup {l} ELSE hidden
  /\ UNCHANGED <<providers, search, cache, worker, request, announced, receipts,
                 shown, missed, troubles>>

\* A poll, a refresh that may have stored its results, or a save is cut off.
Crash ==
  /\ troubles < MaxTroubles
  /\ troubles' = troubles + 1
  /\ \/ worker.pc # "idle" /\ Worker(Idle) /\ UNCHANGED <<search, request, missed>>
     \/ \E q \in Requests :
          /\ request[q].pc \notin {"idle", "done"}
          /\ missed' = missed \cup IF request[q].pc = "state" THEN request[q].results
                                                              ELSE {}
          /\ Request(q, Done)
          /\ UNCHANGED <<search, worker>>
     \/ /\ search.pc \in {"seed", "cleanup"}
        /\ search' = [search EXCEPT !.pc = IF @ = "seed" THEN "saved" ELSE "gone"]
        /\ UNCHANGED <<worker, request, missed>>
  /\ UNCHANGED <<providers, remote, hidden, cache, announced, receipts, shown,
                 changes>>

WorkerStep ==
  \/ ReadCache
  \/ \E answers \in BOOLEAN : PollProvider(answers)
  \/ PollFailed
  \/ UpsertCache
  \/ UpdatePollState
  \/ PushMatches

RefreshStep(q) ==
  \/ \E answers \in BOOLEAN : RefreshProvider(q, answers)
  \/ RefreshFailed(q)
  \/ StoreCache(q)
  \/ StoreState(q)

OwnerStep == InsertSearch \/ SeedCache \/ View \/ RemoveSearch \/ DeleteCache

Next ==
  \/ OwnerStep
  \/ StartPoll
  \/ WorkerStep
  \/ \E q \in Requests : StartRefresh(q) \/ RefreshStep(q)
  \/ \E l \in Lots : RemoteChange(l)
  \/ Crash

Spec == Init /\ [][Next]_vars

\* The worker polls again and again and ends what it began; so do requests that
\* have begun.  Nobody has to save, view, refresh or remove anything.
Fairness ==
  /\ WF_vars(StartPoll)
  /\ WF_vars(WorkerStep)
  /\ WF_vars(SeedCache \/ DeleteCache)
  /\ \A q \in Requests : WF_vars(RefreshStep(q))

FairSpec == Spec /\ Fairness

----------------------------------------------------------------------------
\* Documents and processes stay well formed; only lots among the results carry a
\* NEW mark.
TypeOK ==
  /\ providers \in SUBSET Providers
  /\ remote \in [Lots -> 0..Pages] /\ hidden \in SUBSET Lots
  /\ search.pc \in {"none", "seed", "saved", "cleanup", "gone"}
  /\ search.count \in Nat
  /\ cache \in Caches /\ cache.new \subseteq cache.results
  /\ worker.pc \in {"idle", "read", "search", "state", "push"}
  /\ \A q \in Requests : request[q].pc \in {"idle", "search", "state", "done"}
  /\ announced \in [Lots -> Nat]
  /\ shown \in SUBSET Lots /\ missed \in SUBSET Lots
  /\ troubles \in 0..MaxTroubles

\* "preserve seen semantics" (saved-search-cache plan, Task 3): whatever polls,
\* views and refreshes overlap, a match without a NEW mark is one the owner was
\* given in a list, or is about to be.  The exceptions are in `missed`: the first
\* results of a search saved without any, and a refresh whose answer was lost.
NoSilentMatch ==
  cache.results \ cache.new \subseteq
    shown \cup missed
      \cup UNION {request[q].results : q \in {r \in Requests : request[r].pc = "state"}}

\* "push notifications for saved searches still fire when new matches appear, using
\* the cache diff result as the source of truth" (same plan): as long as the owner
\* does not refresh, no lot is announced twice while the polls find it, whatever
\* the owner views, wherever polls are cut off and whichever provider fails.  The
\* exceptions are in `hidden`: lots that went out of reach, also by moving to a
\* page that is not fetched; those that moved while a poll went from page to page;
\* and those of a provider that a stored poll did not reach.
AnnouncedOnce ==
  (\A q \in Requests : request[q].pc = "idle")
    => \A l \in Lots \ hidden : announced[l] <= 1

\* When the providers come to rest, the cache and the count of the search, two
\* documents written by polls and refreshes in two steps each, come to agree with
\* them: the cache with the pages that are fetched, the count with all that matches.
CacheConverges ==
  <>[](search.pc = "saved" =>
         cache.results = InReach /\ search.count = Cardinality(Matches(providers)))

\* "NEW means appeared since the last time the user viewed this saved search"
\* (saved-search-cache plan): while nothing changes at the providers, a lot the
\* owner was given in a list carries no NEW mark.
NewMeansNew == changes = 0 => cache.new \cap shown = {}
=============================================================================
