----------------------- MODULE SavedSearchRefreshProofs -----------------------
(***************************************************************************)
(* Proofs about SavedSearchRefresh, for any number of providers, lots and  *)
(* manual refreshes.  The poll writes from a copy of the cache, so what is *)
(* promised of the cache has to be promised of the copy too, and must not  *)
(* be lost while the copy is held: what the owner was given only grows.    *)
(***************************************************************************)
EXTENDS SavedSearchRefresh, FiniteSetTheorems, WellFoundedInduction, TLAPS

\* Locals of a poll or a refresh at one of the steps pcs.
Processes(pcs) ==
  [pc : pcs, copy : Caches, todo : SUBSET (Providers \X (1..Pages)), ok : SUBSET Providers,
   results : SUBSET Lots, count : Nat, fresh : SUBSET Lots]

WorkerSteps == {"idle", "read", "search", "state", "push"}
RequestSteps == {"idle", "search", "state", "done"}

\* TypeOK says this of the parts a reader asks for, the proofs need all of it.
Typed ==
  /\ providers \in SUBSET Providers
  /\ remote \in [Lots -> 0..Pages] /\ hidden \in SUBSET Lots
  /\ search \in [pc : {"none", "seed", "saved", "cleanup", "gone"},
                 count : Nat, seed : SUBSET Lots]
  /\ cache \in Caches /\ cache.new \subseteq cache.results
  /\ worker \in Processes(WorkerSteps)
  /\ request \in [Requests -> Processes(RequestSteps)]
  /\ announced \in [Lots -> Nat]
  /\ shown \in SUBSET Lots /\ missed \in SUBSET Lots
  /\ troubles \in 0..MaxTroubles

\* The lots an answer on its way will give to the owner.
Pending == UNION {request[q].results : q \in {r \in Requests : request[r].pc = "state"}}
Given == shown \cup missed \cup Pending

\* No match of a cache is silent.
Told(c) == c.results \ c.new \subseteq Given

\* The cache, the copy of it the worker will merge with, and the results a save
\* is about to store.
AllTold ==
  /\ Told(cache)
  /\ Told(worker.copy)
  /\ search.pc = "seed" => search.seed \subseteq shown

\* The condition of AnnouncedOnce.
Quiet == \A q \in Requests : request[q].pc = "idle"

\* Found by this poll and not announced yet.
Fresh(l) == worker.pc \in {"state", "push"} /\ l \in worker.fresh

\* Announced, or about to be.
Marked(l) == announced[l] = 1 \/ Fresh(l)

\* Whether the page that shows the lot was fetched by the search the worker makes.
Fetched(l) == worker.pc = "search" /\ l[1] \in worker.ok /\ <<l[1], remote[l]>> \notin worker.todo

\* Where an announced lot is while the polls find it: wherever there is a cache or
\* a copy of one, and among the results once its page was fetched.
Remembered(l) ==
  /\ announced[l] <= 1
  /\ Fresh(l) => announced[l] = 0
  /\ Marked(l) => /\ l \in InReach
                  /\ cache.stored => l \in cache.results
                  /\ worker.copy.stored => l \in worker.copy.results
  /\ Marked(l) /\ Fetched(l) => l \in worker.results

\* Nothing was announced of a search that is not saved yet, further pages are
\* fetched of providers that answered with the first one, and what the worker found
\* is still in reach unless it is hidden.
QuietSearch ==
  /\ search.pc \in {"none", "seed"} =>
       worker.pc = "idle" /\ \A l \in Lots : announced[l] = 0
  /\ \A g \in worker.todo : g[2] # 1 => AllPages /\ g[1] \in worker.ok
  /\ worker.results \subseteq InReach \cup hidden
  /\ \A l \in Lots \ hidden : Remembered(l)

----------------------------------------------------------------------------
(* Types.                                                                  *)

\* The number of results is a number.
LEMMA Countable ==
  ASSUME NEW S \in SUBSET Lots
  PROVE  Cardinality(S) \in Nat
  BY SearchAssumption, FS_Subset, FS_CardinalityType

\* The next page is one of those still to be fetched: there is a lowest number.
LEMMA NextPageExists ==
  ASSUME NEW s, s.todo \in SUBSET (Providers \X (1..Pages)), s.todo # {}
  PROVE  NextPage(s) \in s.todo
  <1> DEFINE T == {g[2] : g \in s.todo}
  <1>1. T \subseteq Nat /\ T # {}
    BY SearchAssumption
  <1>2. \E x \in T : \A y \in T : <<y, x>> \notin OpToRel(<, Nat)
    BY <1>1, NatLessThanWellFounded, WFMin
  <1>3. PICK g \in s.todo : \A h \in s.todo : ~ (h[2] < g[2])
    BY <1>1, <1>2 DEF OpToRel
  <1>4. \A h \in s.todo : g[2] <= h[2]
    BY <1>3, SearchAssumption
  <1> QED BY <1>4 DEF NextPage

\* What the steps of a poll or a refresh make of its locals.
LEMMA LocalsTyped ==
  ASSUME NEW pcs, {"search", "state"} \subseteq pcs, Typed
  PROVE  /\ \A c \in Caches : Searching(c) \in Processes(pcs)
         /\ \A s \in Processes(pcs), answers \in BOOLEAN :
              s.pc = "search" /\ s.todo # {} => Asked(s, answers) \in Processes(pcs)
         /\ \A qcs : \A s \in Processes(qcs) : \A F \in SUBSET Lots :
              Found(s, F) \in Processes(pcs)
  <1>1. ASSUME NEW s \in Processes(pcs), NEW answers \in BOOLEAN, s.todo # {}
        PROVE  Asked(s, answers) \in Processes(pcs)
    <2> DEFINE g == NextPage(s)
    <2>1. g \in s.todo /\ g \in Providers \X (1..Pages)
      BY <1>1, NextPageExists DEF Processes
    <2>2. g[1] \in Providers /\ PagesAfter(g) \subseteq Providers \X (1..Pages)
      BY <2>1, SearchAssumption DEF PagesAfter
    <2>3. Cardinality(Matches({g[1]})) \in Nat
      BY Countable DEF Matches
    <2> HIDE DEF g
    <2> DEFINE n == s.count + IF g[2] = 1 THEN Cardinality(Matches({g[1]})) ELSE 0
    <2>4. n \in Nat
      BY <2>3 DEF Processes
    <2> HIDE DEF n
    <2>5. CASE answers
      <3>1. Asked(s, answers) =
              [s EXCEPT
                !.todo = (s.todo \ {g}) \cup PagesAfter(g),
                !.ok = s.ok \cup {g[1]},
                !.results = s.results \cup {l \in Lots : l[1] = g[1] /\ remote[l] = g[2]},
                !.count = n]
        BY <2>5 DEF Asked, g, n
      <3>2. (s.todo \ {g}) \cup PagesAfter(g) \in SUBSET (Providers \X (1..Pages))
        BY <2>2 DEF Processes
      <3>3. s.ok \cup {g[1]} \in SUBSET Providers
        BY <2>2 DEF Processes
      <3>4. s.results \cup {l \in Lots : l[1] = g[1] /\ remote[l] = g[2]} \in SUBSET Lots
        BY DEF Processes
      <3> QED BY <2>4, <3>1, <3>2, <3>3, <3>4 DEF Processes
    <2>6. CASE ~ answers
      BY <2>6 DEF Asked, Processes
    <2> QED BY <2>5, <2>6
  <1>2. \A c \in Caches : Searching(c) \in Processes(pcs)
    <2>1. {<<p, 1>> : p \in providers} \subseteq Providers \X (1..Pages)
      BY SearchAssumption DEF Typed
    <2> QED BY <2>1 DEF Searching, Idle, Processes
  <1>3. NoCache \in Caches
    BY DEF NoCache, Caches
  <1>4. \A qcs : \A s \in Processes(qcs) : \A F \in SUBSET Lots :
          Found(s, F) \in Processes(pcs)
    BY <1>3 DEF Found, Idle, Processes
  <1> QED BY <1>1, <1>2, <1>4

\* Nobody has begun, and what has ended.
LEMMA IdleTyped ==
  /\ Idle \in Processes(WorkerSteps) /\ Idle \in Processes(RequestSteps)
  /\ Done \in Processes(RequestSteps)
  /\ Idle.pc = "idle" /\ Idle.copy = NoCache /\ Idle.results = {}
  /\ Done.pc = "done" /\ Done.results = {}
  /\ NoCache \in Caches
  BY DEF Idle, Done, NoCache, Caches, Processes, WorkerSteps, RequestSteps

\* New matches and marks are among the results of the poll.
LEMMA MarksAreResults ==
  ASSUME NEW s \in Processes(WorkerSteps)
  PROVE  /\ TrulyNew(s) \in SUBSET Lots
         /\ MergedNew(s) \subseteq s.results
         /\ Cached(s.results, MergedNew(s)) \in Caches
  BY DEF TrulyNew, MergedNew, Cached, Caches, Processes

LEMMA InitTyped == Init => Typed
  <1> SUFFICES ASSUME Init
               PROVE  Typed
    OBVIOUS
  <1>1. cache \in Caches /\ cache.new \subseteq cache.results
    BY DEF Init, NoCache, Caches
  <1>2. announced \in [Lots -> Nat]
    BY DEF Init
  <1>3. worker \in Processes(WorkerSteps) /\ request \in [Requests -> Processes(RequestSteps)]
    BY IdleTyped DEF Init
  <1>4. search \in [pc : {"none", "seed", "saved", "cleanup", "gone"},
                    count : Nat, seed : SUBSET Lots]
    BY DEF Init
  <1> QED BY <1>1, <1>2, <1>3, <1>4, SearchAssumption DEF Init, Typed

\* A step of the owner writes a document or a cache of the right type.
LEMMA OwnerTyped == Typed /\ OwnerStep => Typed'
  <1> SUFFICES ASSUME Typed, OwnerStep
               PROVE  Typed'
    OBVIOUS
  <1> USE DEF Typed
  <1>1. CASE InsertSearch
    <2>1. PICK ps \in SUBSET providers :
            LET seed == {l \in InReach : l[1] \in ps}
            IN /\ search' = [pc |-> IF seed = {} THEN "saved" ELSE "seed",
                             count |-> Cardinality(Matches(ps)), seed |-> seed]
               /\ shown' = shown \cup seed
      BY <1>1 DEF InsertSearch
    <2>2. Cardinality(Matches(ps)) \in Nat
      BY Countable DEF Matches
    <2>3. {l \in InReach : l[1] \in ps} \in SUBSET Lots
      BY DEF InReach
    <2> QED BY <1>1, <2>1, <2>2, <2>3 DEF InsertSearch
  <1>2. CASE SeedCache
    <2>1. cache' \in Caches /\ cache'.new \subseteq cache'.results
      BY <1>2 DEF SeedCache, Cached, Caches
    <2> QED BY <1>2, <2>1 DEF SeedCache
  <1>3. CASE View
    <2>1. cache' \in Caches /\ cache'.new = {} /\ cache.results \in SUBSET Lots
      BY <1>3 DEF View, Caches
    <2> QED BY <1>3, <2>1 DEF View
  <1>4. CASE RemoveSearch
    BY <1>4 DEF RemoveSearch
  <1>5. CASE DeleteCache
    <2>1. cache' \in Caches /\ cache'.new = {}
      BY <1>5 DEF DeleteCache, NoCache, Caches
    <2> QED BY <1>5, <2>1 DEF DeleteCache
  <1> QED BY <1>1, <1>2, <1>3, <1>4, <1>5 DEF OwnerStep

LEMMA WorkerTyped == Typed /\ (StartPoll \/ WorkerStep) => Typed'
  <1> SUFFICES ASSUME Typed, StartPoll \/ WorkerStep
               PROVE  Typed'
    OBVIOUS
  <1> USE DEF Typed, Worker
  <1>0. {"search", "state"} \subseteq WorkerSteps
    BY DEF WorkerSteps
  <1>1. CASE StartPoll
    <2>1. [Idle EXCEPT !.pc = "read"] \in Processes(WorkerSteps)
      BY IdleTyped DEF Processes, WorkerSteps
    <2> QED BY <1>1, <2>1 DEF StartPoll
  <1>2. CASE ReadCache
    BY <1>0, <1>2, LocalsTyped DEF ReadCache
  <1>3. ASSUME NEW answers \in BOOLEAN, PollProvider(answers)
        PROVE  Typed'
    <2>1. troubles' \in 0..MaxTroubles
      BY <1>3, SearchAssumption DEF PollProvider, Answered
    <2>2. worker' \in Processes(WorkerSteps)
      BY <1>0, <1>3, LocalsTyped DEF PollProvider, Typed
    <2> QED BY <1>3, <2>1, <2>2 DEF PollProvider
  <1>4. CASE PollFailed
    BY <1>4, IdleTyped DEF PollFailed
  <1>5. CASE UpsertCache
    <2>1. worker.results \in SUBSET Lots
      BY DEF Processes
    <2>2. worker' \in Processes(WorkerSteps)
      BY <1>0, <1>5, <2>1, LocalsTyped, MarksAreResults DEF UpsertCache
    <2>3. cache' \in Caches
      BY <1>5, MarksAreResults DEF UpsertCache
    <2>4. cache'.new \subseteq cache'.results
      BY <1>5, MarksAreResults DEF UpsertCache, Cached
    <2> QED BY <1>5, <2>1, <2>2, <2>3, <2>4 DEF UpsertCache
  <1>6. CASE UpdatePollState
    <2>1. [worker EXCEPT !.pc = "push"] \in Processes(WorkerSteps)
      BY DEF Processes, WorkerSteps
    <2>2. worker.count \in Nat
      BY DEF Processes
    <2>3. search' \in [pc : {"none", "seed", "saved", "cleanup", "gone"},
                       count : Nat, seed : SUBSET Lots]
      BY <1>6, <2>2 DEF UpdatePollState, Counted
    <2> QED BY <1>6, <2>1, <2>3, IdleTyped DEF UpdatePollState
  <1>7. CASE PushMatches
    <2>1. announced' \in [Lots -> Nat]
      BY <1>7 DEF PushMatches
    <2> QED BY <1>7, <2>1, IdleTyped DEF PushMatches
  <1> QED BY <1>1, <1>2, <1>3, <1>4, <1>5, <1>6, <1>7 DEF WorkerStep

LEMMA RequestTyped ==
  ASSUME NEW q \in Requests
  PROVE  Typed /\ (StartRefresh(q) \/ RefreshStep(q)) => Typed'
  <1> SUFFICES ASSUME Typed, StartRefresh(q) \/ RefreshStep(q)
               PROVE  Typed'
    OBVIOUS
  <1> USE DEF Typed
  <1>0. {"search", "state"} \subseteq RequestSteps
    BY DEF RequestSteps
  <1>1. \A r \in Processes(RequestSteps) :
          Request(q, r) => request' \in [Requests -> Processes(RequestSteps)]
    BY DEF Request
  <1>2. request[q].results \in SUBSET Lots
    BY DEF Processes
  <1>3. CASE StartRefresh(q)
    BY <1>0, <1>1, <1>3, IdleTyped, LocalsTyped DEF StartRefresh
  <1>4. ASSUME NEW answers \in BOOLEAN, RefreshProvider(q, answers)
        PROVE  Typed'
    <2>1. troubles' \in 0..MaxTroubles
      BY <1>4, SearchAssumption DEF RefreshProvider, Answered
    <2>2. request' \in [Requests -> Processes(RequestSteps)]
      BY <1>0, <1>1, <1>4, LocalsTyped DEF RefreshProvider
    <2> QED BY <1>4, <2>1, <2>2 DEF RefreshProvider
  <1>5. CASE RefreshFailed(q)
    BY <1>1, <1>5, IdleTyped DEF RefreshFailed
  <1>6. CASE StoreCache(q)
    <2>1. cache' \in Caches /\ cache'.new = {}
      BY <1>2, <1>6 DEF StoreCache, Cached, Caches
    <2>2. request' \in [Requests -> Processes(RequestSteps)]
      BY <1>0, <1>1, <1>2, <1>6, LocalsTyped DEF StoreCache
    <2> QED BY <1>6, <2>1, <2>2 DEF StoreCache
  <1>7. CASE StoreState(q)
    <2>1. request[q].count \in Nat
      BY DEF Processes
    <2>2. search' \in [pc : {"none", "seed", "saved", "cleanup", "gone"},
                       count : Nat, seed : SUBSET Lots]
      BY <1>7, <2>1 DEF StoreState, Counted
    <2> QED BY <1>1, <1>2, <1>7, <2>2, IdleTyped DEF StoreState
  <1> QED BY <1>3, <1>4, <1>5, <1>6, <1>7 DEF RefreshStep

LEMMA OutsideTyped ==
  Typed /\ ((\E l \in Lots : RemoteChange(l)) \/ Crash) => Typed'
  <1> SUFFICES ASSUME Typed, (\E l \in Lots : RemoteChange(l)) \/ Crash
               PROVE  Typed'
    OBVIOUS
  <1> USE DEF Typed
  <1>1. ASSUME NEW l \in Lots, RemoteChange(l)
        PROVE  Typed'
    BY <1>1 DEF RemoteChange
  <1>2. CASE Crash
    <2>1. troubles' \in 0..MaxTroubles
      BY <1>2, SearchAssumption DEF Crash
    <2>2. worker' \in Processes(WorkerSteps)
      BY <1>2, IdleTyped DEF Crash, Worker
    <2>3. request' \in [Requests -> Processes(RequestSteps)]
      BY <1>2, IdleTyped DEF Crash, Request
    <2>4. missed' \in SUBSET Lots
      BY <1>2 DEF Crash, Processes
    <2>5. search' \in [pc : {"none", "seed", "saved", "cleanup", "gone"},
                       count : Nat, seed : SUBSET Lots]
      BY <1>2 DEF Crash
    <2> QED BY <1>2, <2>1, <2>2, <2>3, <2>4, <2>5 DEF Crash
  <1> QED BY <1>1, <1>2

LEMMA StepTyped == Typed /\ [Next]_vars => Typed'
  <1>1. Typed /\ UNCHANGED vars => Typed'
    BY DEF Typed, vars
  <1> QED BY <1>1, OwnerTyped, WorkerTyped, RequestTyped, OutsideTyped DEF Next

\* The types hold for every number of providers, pages, lots, requests, outages and
\* interrupted processes; only lots among the results carry a NEW mark.
THEOREM TypeCorrect == Spec => []TypeOK
  <1>1. Typed => TypeOK
    BY DEF Typed, TypeOK, Processes, WorkerSteps, RequestSteps
  <1> QED BY InitTyped, StepTyped, <1>1, PTL DEF Spec

----------------------------------------------------------------------------
(* No match is silent.                                                     *)

\* Who is going to give a lot to the owner.
LEMMA PendingOf ==
  /\ \A l : l \in Pending <=>
       \E q \in Requests : request[q].pc = "state" /\ l \in request[q].results
  /\ \A l : l \in Pending' <=>
       \E q \in Requests : request'[q].pc = "state" /\ l \in request'[q].results
  BY DEF Pending

\* A refresh that goes on keeps what it will give, until it gives it; one that
\* is cut off leaves it among the missed.
LEMMA RequestKeeps ==
  ASSUME Typed, NEW q \in Requests, StartRefresh(q) \/ RefreshStep(q), NEW l \in Given
  PROVE  l \in Given'
  <1> USE DEF Typed
  <1>1. shown \subseteq shown' /\ missed' = missed
    BY DEF StartRefresh, RefreshStep, RefreshProvider, RefreshFailed, StoreCache,
           StoreState
  <1>2. \A p \in Requests \ {q} : request'[p] = request[p]
    BY DEF StartRefresh, RefreshStep, RefreshProvider, RefreshFailed, StoreCache,
           StoreState, Request
  <1>3. request[q].pc = "state" => request[q].results \subseteq shown'
    BY DEF StartRefresh, RefreshStep, RefreshProvider, RefreshFailed, StoreCache,
           StoreState, Searched, SearchFailed
  <1> QED BY <1>1, <1>2, <1>3, PendingOf DEF Given

LEMMA CrashKeeps ==
  ASSUME Typed, Crash, NEW l \in Given
  PROVE  l \in Given'
  <1> USE DEF Typed
  <1>1. shown' = shown /\ missed \subseteq missed'
    BY DEF Crash
  <1>2. CASE request' = request
    BY <1>1, <1>2, PendingOf DEF Given
  <1>3. CASE request' # request
    <2>1. PICK q \in Requests :
            /\ missed' = missed \cup IF request[q].pc = "state" THEN request[q].results
                                                                ELSE {}
            /\ Request(q, Done)
      BY <1>3 DEF Crash
    <2>2. \A p \in Requests \ {q} : request'[p] = request[p]
      BY <2>1 DEF Request
    <2>3. request[q].pc = "state" => request[q].results \subseteq missed'
      BY <2>1
    <2> QED BY <1>1, <2>2, <2>3, PendingOf DEF Given
  <1> QED BY <1>2, <1>3

\* What the owner was given, or is about to be, is never taken back.
LEMMA GivenGrows == Typed /\ [Next]_vars => Given \subseteq Given'
  <1> SUFFICES ASSUME Typed, [Next]_vars, NEW l \in Given
               PROVE  l \in Given'
    OBVIOUS
  <1>1. CASE shown \subseteq shown' /\ missed \subseteq missed' /\ request' = request
    BY <1>1, PendingOf DEF Given
  <1>2. CASE OwnerStep
    BY <1>1, <1>2 DEF OwnerStep, InsertSearch, SeedCache, View, RemoveSearch, DeleteCache
  <1>3. CASE StartPoll \/ WorkerStep
    BY <1>1, <1>3 DEF StartPoll, WorkerStep, ReadCache, PollProvider, PollFailed,
                      UpsertCache, UpdatePollState, PushMatches
  <1>4. ASSUME NEW q \in Requests, StartRefresh(q) \/ RefreshStep(q)
        PROVE  l \in Given'
    BY <1>4, RequestKeeps
  <1>5. CASE \E r \in Lots : RemoteChange(r)
    BY <1>1, <1>5 DEF RemoteChange
  <1>6. CASE Crash
    BY <1>6, CrashKeeps
  <1>7. CASE UNCHANGED vars
    BY <1>1, <1>7 DEF vars
  <1> QED BY <1>2, <1>3, <1>4, <1>5, <1>6, <1>7 DEF Next

\* The merge: a result that is neither new nor marked was in the copy without a
\* mark, or there was no copy and it is among the missed.
LEMMA MergeTells ==
  ASSUME Typed, AllTold, UpsertCache
  PROVE  Told(cache)'
  <1>1. Given \subseteq Given'
    BY GivenGrows DEF Next, WorkerStep
  <1>2. cache'.results = worker.results /\ cache'.new = MergedNew(worker)
    BY DEF UpsertCache, Cached
  <1>3. CASE worker.copy.stored
    <2>1. \A l \in worker.results \ MergedNew(worker) :
             l \in worker.copy.results \ worker.copy.new
      BY <1>3 DEF MergedNew, TrulyNew
    <2> QED BY <1>1, <1>2, <2>1 DEF AllTold, Told
  <1>4. CASE ~worker.copy.stored
    <2>1. worker.results \subseteq missed'
      BY <1>4 DEF UpsertCache
    <2> QED BY <1>2, <2>1 DEF Told, Given
  <1> QED BY <1>3, <1>4

\* A refresh stores no marks: all its results are on their way to the owner.
LEMMA RefreshTells ==
  ASSUME Typed, NEW q \in Requests, StoreCache(q)
  PROVE  Told(cache)'
  <1>1. cache'.results = request[q].results
    BY DEF StoreCache, Cached
  <1>2. request'[q].pc = "state" /\ request'[q].results = request[q].results
    BY DEF StoreCache, Request, Found, Typed
  <1> QED BY <1>1, <1>2, PendingOf DEF Told, Given

LEMMA StepTold == Typed /\ AllTold /\ [Next]_vars => AllTold'
  <1> SUFFICES ASSUME Typed, AllTold, [Next]_vars
               PROVE  AllTold'
    OBVIOUS
  <1>0. Given \subseteq Given'
    BY GivenGrows
  <1> DEFINE Kept == cache' = cache \/ Told(cache)'
             Copied == worker'.copy \in {worker.copy, cache, NoCache}
             Seeded == search'.pc = "seed" => search'.seed \subseteq shown'
  <1>1. ASSUME Kept, Copied, Seeded
        PROVE  AllTold'
    <2>1. NoCache.results = {}
      BY DEF NoCache
    <2>2. Told(worker.copy)'
      BY <1>0, <1>1, <2>1 DEF AllTold, Told
    <2> QED BY <1>0, <1>1, <2>2 DEF AllTold, Told
  <1>2. CASE OwnerStep
    <2>1. Seeded
      BY <1>2 DEF OwnerStep, InsertSearch, SeedCache, View, RemoveSearch, DeleteCache,
                  AllTold, Typed
    <2>2. CASE SeedCache
      <3>1. cache'.results = search.seed /\ search.seed \subseteq shown'
        BY <2>2 DEF SeedCache, Cached, AllTold
      <3>2. Told(cache)'
        BY <3>1 DEF Told, Given
      <3> QED BY <1>1, <2>1, <2>2, <3>2 DEF SeedCache
    <2>3. CASE View
      <3>1. cache'.results = cache.results /\ cache.results \subseteq shown'
        BY <2>3 DEF View, Typed, Caches
      <3>2. Told(cache)'
        BY <3>1 DEF Told, Given
      <3> QED BY <1>1, <2>1, <2>3, <3>2 DEF View
    <2>4. CASE DeleteCache
      <3>1. Told(cache)'
        BY <2>4 DEF DeleteCache, NoCache, Told
      <3> QED BY <1>1, <2>1, <2>4, <3>1 DEF DeleteCache
    <2> QED BY <1>1, <1>2, <2>1, <2>2, <2>3, <2>4 DEF OwnerStep, InsertSearch, RemoveSearch
  <1>3. CASE StartPoll \/ WorkerStep
    <2>1. Seeded
      BY <1>3 DEF StartPoll, WorkerStep, ReadCache, PollProvider, PollFailed,
                  UpsertCache, UpdatePollState, PushMatches, Counted, AllTold, Typed, Saved
    <2>2. Kept
      BY <1>3, MergeTells DEF StartPoll, WorkerStep, ReadCache, PollProvider,
                              PollFailed, UpdatePollState, PushMatches
    <2>3. CASE StartPoll \/ ReadCache \/ PollFailed \/ UpdatePollState \/ PushMatches
      <3>1. Copied
        BY <2>3, IdleTyped DEF StartPoll, ReadCache, PollFailed, UpdatePollState,
           PushMatches, Worker, Searching, Typed, Processes
      <3> QED BY <1>1, <2>1, <2>2, <3>1
    <2>4. ASSUME NEW answers \in BOOLEAN, PollProvider(answers)
          PROVE  AllTold'
      <3>1. Copied
        BY <2>4 DEF PollProvider, Worker, Asked
      <3> QED BY <1>1, <2>1, <2>2, <3>1
    <2>5. CASE UpsertCache
      <3>1. Copied
        BY <2>5 DEF UpsertCache, Worker, Found, Idle
      <3> QED BY <1>1, <2>1, <2>2, <3>1
    <2> QED BY <1>3, <2>3, <2>4, <2>5 DEF WorkerStep
  <1>4. ASSUME NEW q \in Requests, StartRefresh(q) \/ RefreshStep(q)
        PROVE  AllTold'
    <2>1. Seeded
      BY <1>4 DEF StartRefresh, RefreshStep, RefreshProvider, RefreshFailed, StoreCache,
                  StoreState, Counted, AllTold, Typed, Saved
    <2>2. Kept
      BY <1>4, RefreshTells DEF StartRefresh, RefreshStep, RefreshProvider,
                                RefreshFailed, StoreState
    <2>3. Copied
      BY <1>4 DEF StartRefresh, RefreshStep, RefreshProvider, RefreshFailed, StoreCache,
                  StoreState
    <2> QED BY <1>1, <2>1, <2>2, <2>3
  <1>5. CASE \E r \in Lots : RemoteChange(r)
    BY <1>1, <1>5 DEF RemoteChange, AllTold
  <1>6. CASE Crash
    <2>1. Copied
      BY <1>6, IdleTyped DEF Crash, Worker
    <2>2. Seeded
      BY <1>6 DEF Crash, AllTold, Typed
    <2> QED BY <1>1, <1>6, <2>1, <2>2 DEF Crash
  <1>7. CASE UNCHANGED vars
    BY <1>1, <1>7 DEF vars, AllTold
  <1> QED BY <1>2, <1>3, <1>4, <1>5, <1>6, <1>7 DEF Next

\* No match loses its NEW mark before the owner was given it, whichever polls,
\* views, refreshes and removals overlap, for any number of them.
THEOREM NothingSilent == Spec => []NoSilentMatch
  <1>1. Init => AllTold
    BY IdleTyped DEF Init, AllTold, Told, NoCache
  <1>2. Typed /\ AllTold => NoSilentMatch
    BY DEF AllTold, Told, Given, Pending, NoSilentMatch
  <1> QED BY InitTyped, StepTyped, StepTold, <1>1, <1>2, PTL DEF Spec

----------------------------------------------------------------------------
(* Nothing is announced twice.                                             *)

\* A quiet state comes from a quiet one, by a step of nobody's refresh.
LEMMA QuietBefore ==
  ASSUME Typed, [Next]_vars, Quiet'
  PROVE  /\ Quiet
         /\ request' = request
         /\ [OwnerStep \/ StartPoll \/ WorkerStep \/ (\E l \in Lots : RemoteChange(l))
              \/ Crash]_vars
  <1> USE DEF Typed
  <1>1. ASSUME NEW q \in Requests, StartRefresh(q) \/ RefreshStep(q)
        PROVE  FALSE
    <2>1. CASE \E answers \in BOOLEAN : RefreshProvider(q, answers)
      <3>1. request'[q].pc = "search"
        BY <2>1 DEF RefreshProvider, Request, Asked, Processes
      <3> QED BY <3>1 DEF Quiet
    <2>2. CASE ~ \E answers \in BOOLEAN : RefreshProvider(q, answers)
      <3>1. request'[q].pc \in {"search", "state", "done"}
        BY <1>1, <2>2, IdleTyped
        DEF StartRefresh, RefreshStep, RefreshFailed, StoreCache, StoreState, Request,
            Searching, Found, Idle
      <3> QED BY <3>1 DEF Quiet
    <2> QED BY <2>1, <2>2
  <1>2. request' = request
    <2>1. ASSUME NEW q \in Requests, Request(q, Done)
          PROVE  FALSE
      <3>1. request'[q].pc = "done"
        BY <2>1, IdleTyped DEF Request
      <3> QED BY <3>1 DEF Quiet
    <2>2. CASE OwnerStep
      BY <2>2 DEF OwnerStep, InsertSearch, SeedCache, View, RemoveSearch, DeleteCache
    <2>3. CASE StartPoll \/ WorkerStep
      BY <2>3 DEF StartPoll, WorkerStep, ReadCache, PollProvider, PollFailed,
                  UpsertCache, UpdatePollState, PushMatches
    <2>4. CASE UNCHANGED vars
      BY <2>4 DEF vars
    <2>5. CASE \E l \in Lots : RemoteChange(l)
      BY <2>5 DEF RemoteChange
    <2>6. CASE Crash
      BY <2>1, <2>6 DEF Crash
    <2> QED BY <1>1, <2>2, <2>3, <2>4, <2>5, <2>6 DEF Next
  <1>3. Quiet
    BY <1>2 DEF Quiet
  <1> QED BY <1>1, <1>2, <1>3 DEF Next

\* The owner's steps neither announce anything nor drop a result of a cache that
\* stays.
LEMMA OwnerQuiet == Typed /\ QuietSearch /\ OwnerStep => QuietSearch'
  <1> SUFFICES ASSUME Typed, QuietSearch, OwnerStep
               PROVE  QuietSearch'
    OBVIOUS
  <1>1. UNCHANGED <<providers, remote, hidden, worker, announced>>
    BY DEF OwnerStep, InsertSearch, SeedCache, View, RemoveSearch, DeleteCache
  <1>2. search'.pc \in {"none", "seed"} => search.pc \in {"none", "seed"}
    BY DEF OwnerStep, InsertSearch, SeedCache, View, RemoveSearch, DeleteCache, Typed, Saved
  <1>3. ASSUME NEW l \in Lots \ hidden
        PROVE  Remembered(l)'
    <2>1. CASE SeedCache
      <3>1. ~ Marked(l)
        BY <2>1 DEF SeedCache, QuietSearch, Marked, Fresh
      <3> QED BY <1>1, <1>3, <3>1 DEF QuietSearch, Remembered, Marked, Fresh, Fetched,
          InReach, AllPages
    <2>2. CASE ~ SeedCache
      <3>1. cache'.stored => cache.stored /\ cache'.results = cache.results
        BY <2>2 DEF OwnerStep, InsertSearch, View, RemoveSearch, DeleteCache, NoCache,
                    Typed, Caches
      <3> QED BY <1>1, <1>3, <3>1 DEF QuietSearch, Remembered, Marked, Fresh, Fetched,
          InReach, AllPages
    <2> QED BY <2>1, <2>2
  <1> QED BY <1>1, <1>2, <1>3 DEF QuietSearch, InReach, AllPages

\* A worker that gives up, or goes on with nothing, forgets no announcement.
LEMMA IdleQuiet ==
  ASSUME Typed, QuietSearch, UNCHANGED <<providers, remote, hidden, announced, cache>>,
         search'.pc = search.pc \/ search'.pc \notin {"none", "seed"},
         worker' = Idle \/ (worker' = [Idle EXCEPT !.pc = "read"]
                              /\ search.pc = "saved" /\ search' = search)
  PROVE  QuietSearch'
  <1>1. worker'.pc \in {"idle", "read"} /\ worker'.copy = NoCache /\ worker'.results = {}
        /\ worker'.todo = {}
    BY DEF Idle
  <1>2. ~ NoCache.stored
    BY DEF NoCache
  <1>3. \A l \in Lots \ hidden : Remembered(l)'
    BY <1>1, <1>2 DEF QuietSearch, Remembered, Marked, Fresh, Fetched,
          InReach, AllPages
  <1>4. search'.pc \in {"none", "seed"} => worker'.pc = "idle"
    BY IdleTyped
  <1> QED BY <1>1, <1>3, <1>4 DEF QuietSearch, InReach, AllPages

LEMMA PollQuiet ==
  ASSUME Typed, QuietSearch, NEW answers \in BOOLEAN, PollProvider(answers)
  PROVE  QuietSearch'
  <1> DEFINE g == NextPage(worker)
             page == {l \in Lots : l[1] = g[1] /\ remote[l] = g[2]}
  <1>0. worker.pc = "search" /\ worker.todo # {} /\ g \in worker.todo
    BY NextPageExists DEF PollProvider, Typed, Processes
  <1>1. UNCHANGED <<providers, remote, hidden, search, cache, announced>>
    BY DEF PollProvider
  <1>2. worker'.pc = "search" /\ worker'.copy = worker.copy
    BY <1>0 DEF PollProvider, Worker, Asked, Typed, Processes
  <1>3. search'.pc \notin {"none", "seed"}
    BY <1>0, <1>1 DEF QuietSearch
  <1>4. page \subseteq InReach
    BY <1>0, SearchAssumption DEF QuietSearch, InReach, Typed, Processes
  <1>5. g[1] \in worker.ok \/ g[2] = 1
    BY <1>0 DEF QuietSearch
  <1>6. CASE answers
    <2>1. /\ worker'.todo = (worker.todo \ {g}) \cup PagesAfter(g)
          /\ worker'.ok = worker.ok \cup {g[1]}
          /\ worker'.results = worker.results \cup page
      BY <1>6 DEF PollProvider, Worker, Asked, Typed, Processes
    <2>2. \A h \in PagesAfter(g) : AllPages /\ h[1] = g[1]
      BY DEF PagesAfter
    <2>3. ASSUME NEW l \in Lots \ hidden, Marked(l), Fetched(l)'
          PROVE  l \in worker'.results
      <3>1. l \in InReach /\ ~ Fresh(l)
        BY <1>0, <2>3 DEF QuietSearch, Remembered, Fresh
      <3>2. l[1] \in worker'.ok /\ <<l[1], remote[l]>> \notin worker'.todo
        BY <1>1, <2>3 DEF Fetched
      <3>3. CASE l[1] \in worker.ok /\ <<l[1], remote[l]>> \notin worker.todo
        BY <1>0, <2>1, <2>3, <3>3 DEF QuietSearch, Remembered, Fetched
      <3>4. CASE <<l[1], remote[l]>> = g
        BY <2>1, <3>4
      <3>5. CASE l[1] = g[1] /\ g[2] = 1 /\ remote[l] # 1
        <4>1. remote[l] \in 2..Pages /\ AllPages
          BY <3>1, <3>5, SearchAssumption DEF InReach, Typed
        <4>2. <<l[1], remote[l]>> \in PagesAfter(g)
          BY <3>5, <4>1 DEF PagesAfter
        <4> QED BY <2>1, <3>2, <4>2
      <3>6. g = <<g[1], g[2]>>
        BY <1>0 DEF Typed, Processes
      <3> QED BY <1>5, <2>1, <3>2, <3>3, <3>4, <3>5, <3>6
    <2>4. ASSUME NEW l \in Lots \ hidden
          PROVE  Remembered(l)'
      BY <1>0, <1>1, <1>2, <2>3, <2>4 DEF QuietSearch, Remembered, Marked, Fresh, InReach, AllPages
    <2> QED BY <1>1, <1>3, <1>4, <2>1, <2>2, <2>4 DEF QuietSearch, InReach, AllPages
  <1>7. CASE ~ answers
    <2>1. /\ worker'.todo = {h \in worker.todo : h[1] # g[1]}
          /\ worker'.ok = worker.ok \ {g[1]}
          /\ worker'.results = {l \in worker.results : l[1] # g[1]}
      BY <1>7 DEF PollProvider, Worker, Asked, Typed, Processes
    <2>2. ASSUME NEW l \in Lots \ hidden, Marked(l), Fetched(l)'
          PROVE  l \in worker'.results
      <3>1. l[1] # g[1] /\ Fetched(l)
        BY <1>0, <1>1, <2>1, <2>2 DEF Fetched
      <3> QED BY <2>1, <2>2, <3>1 DEF QuietSearch, Remembered
    <2>3. ASSUME NEW l \in Lots \ hidden
          PROVE  Remembered(l)'
      BY <1>0, <1>1, <1>2, <2>2, <2>3 DEF QuietSearch, Remembered, Marked, Fresh, InReach, AllPages
    <2> QED BY <1>1, <1>3, <2>1, <2>3 DEF QuietSearch, InReach, AllPages
  <1> QED BY <1>6, <1>7

\* What is new to the copy was never announced, and whatever was announced is
\* among the results again.
LEMMA UpsertQuiet ==
  ASSUME Typed, QuietSearch, UpsertCache
  PROVE  QuietSearch'
  <1>1. /\ worker.pc = "search" /\ worker.todo = {}
        /\ worker'.pc = "state" /\ worker'.copy = NoCache
        /\ worker'.results = worker.results /\ worker'.fresh = TrulyNew(worker)
        /\ cache'.results = worker.results
    BY DEF UpsertCache, Searched, Worker, Found, Idle, Cached
  <1>2. /\ UNCHANGED <<providers, remote, search, announced>>
        /\ hidden' = hidden \cup {l \in Lots : l[1] \notin worker.ok}
        /\ worker'.todo = {}
    BY DEF UpsertCache, Worker, Found, Idle
  <1>3. ~ NoCache.stored
    BY DEF NoCache
  <1>4. ASSUME NEW l \in Lots \ hidden'
        PROVE  Remembered(l)'
    <2>0. l \notin hidden /\ l[1] \in worker.ok
      BY <1>2, <1>4
    <2>1. Remembered(l) /\ ~ Fresh(l)
      BY <1>1, <1>4, <2>0 DEF QuietSearch, Fresh
    <2>2. announced[l] = 1 => l \in worker.results /\ l \notin TrulyNew(worker)
      BY <1>1, <2>0, <2>1 DEF Remembered, Marked, TrulyNew, Fetched
    <2>3. l \in TrulyNew(worker) => l \in worker.results /\ l \in InReach
      BY <1>4, <2>0 DEF TrulyNew, QuietSearch
    <2>4. announced[l] \in {0, 1}
      BY <2>1, <1>4 DEF Remembered, Typed
    <2> QED BY <1>1, <1>2, <1>3, <2>1, <2>2, <2>3, <2>4
        DEF Remembered, Marked, Fresh, InReach, AllPages, Fetched
  <1> QED BY <1>1, <1>2, <1>4 DEF QuietSearch, InReach, AllPages

LEMMA PushQuiet ==
  ASSUME Typed, QuietSearch, PushMatches
  PROVE  QuietSearch'
  <1>1. /\ worker.pc = "push" /\ worker' = Idle
        /\ UNCHANGED <<providers, remote, hidden, search, cache>>
    BY DEF PushMatches, Worker
  <1>2. \A l \in Lots : \/ announced'[l] = announced[l]
                        \/ announced'[l] = announced[l] + 1 /\ l \in worker.fresh
    BY DEF PushMatches, Typed
  <1>3. /\ worker'.pc = "idle" /\ worker'.copy = NoCache /\ worker'.results = {}
        /\ worker'.todo = {} /\ ~ NoCache.stored
    BY <1>1 DEF Idle, NoCache
  <1>4. ASSUME NEW l \in Lots \ hidden
        PROVE  Remembered(l)'
    <2>1. Remembered(l) /\ announced[l] \in Nat
      BY <1>4 DEF QuietSearch, Typed
    <2> QED BY <1>1, <1>2, <1>3, <1>4, <2>1 DEF Remembered, Marked, Fresh, Fetched,
          InReach, AllPages
  <1>5. search.pc \notin {"none", "seed"}
    BY <1>1 DEF QuietSearch
  <1> QED BY <1>1, <1>3, <1>4, <1>5 DEF QuietSearch, InReach, AllPages

LEMMA WorkerQuiet ==
  ASSUME Typed, QuietSearch, Quiet, Quiet', StartPoll \/ WorkerStep
  PROVE  QuietSearch'
  <1>1. CASE StartPoll
    BY <1>1, IdleQuiet DEF StartPoll, Worker
  <1>2. CASE ReadCache
    <2>1. /\ worker'.pc = "search" /\ worker'.copy = cache /\ worker'.ok = {}
          /\ worker'.todo = {<<p, 1>> : p \in providers}
          /\ worker'.results = {} /\ worker.pc = "read"
          /\ UNCHANGED <<providers, remote, hidden, search, cache, announced>>
      BY <1>2 DEF ReadCache, Worker, Searching, Idle
    <2>2. \A l \in Lots \ hidden : Remembered(l)'
      BY <2>1 DEF QuietSearch, Remembered, Marked, Fresh, Fetched,
          InReach, AllPages
    <2> QED BY <2>1, <2>2 DEF QuietSearch
  <1>3. CASE PollFailed
    BY <1>3, IdleQuiet DEF PollFailed, Worker
  <1>4. CASE UpdatePollState
    <2>1. search'.pc = search.pc /\ UNCHANGED <<providers, remote, hidden, announced, cache>>
      BY <1>4 DEF UpdatePollState, Counted, Typed
    <2>2. CASE worker.fresh = {}
      BY <1>4, <2>1, <2>2, IdleQuiet DEF UpdatePollState, Worker
    <2>3. CASE worker.fresh # {}
      <3>1. /\ worker.pc = "state" /\ worker'.pc = "push"
            /\ worker'.copy = worker.copy /\ worker'.results = worker.results
            /\ worker'.fresh = worker.fresh
            /\ worker'.todo = worker.todo /\ worker'.ok = worker.ok
        BY <1>4, <2>3 DEF UpdatePollState, Worker, Typed, Processes
      <3>2. \A l \in Lots \ hidden : Remembered(l)'
        BY <2>1, <3>1 DEF QuietSearch, Remembered, Marked, Fresh, Fetched,
          InReach, AllPages
      <3> QED BY <2>1, <3>1, <3>2 DEF QuietSearch, InReach, AllPages
    <2> QED BY <2>2, <2>3
  <1> QED BY <1>1, <1>2, <1>3, <1>4, PollQuiet, UpsertQuiet, PushQuiet DEF WorkerStep

LEMMA OutsideQuiet ==
  ASSUME Typed, QuietSearch, (\E l \in Lots : RemoteChange(l)) \/ Crash, request' = request
  PROVE  QuietSearch'
  <1>1. ASSUME NEW m \in Lots, RemoteChange(m)
        PROVE  QuietSearch'
    <2>1. UNCHANGED <<providers, search, cache, worker, announced>> /\ hidden \subseteq hidden'
      BY <1>1 DEF RemoteChange
    <2>2. \A l \in Lots : l # m => remote'[l] = remote[l]
      BY <1>1 DEF RemoteChange, Typed
    <2>3. ASSUME NEW l \in InReach
          PROVE  /\ l \in InReach' \/ l \in hidden'
                 /\ l \notin hidden' /\ worker.pc = "search" => remote'[l] = remote[l]
      <3>1. l \in Lots /\ (remote[l] = 1 \/ AllPages)
        BY DEF InReach
      <3>2. CASE l = m
        BY <1>1, <2>1, <2>3, <3>1, <3>2 DEF RemoteChange, InReach, AllPages
      <3>3. CASE l # m
        BY <2>1, <2>2, <2>3, <3>3 DEF InReach, AllPages
      <3> QED BY <3>2, <3>3
    <2>4. ASSUME NEW l \in Lots \ hidden'
          PROVE  Remembered(l)'
      BY <2>1, <2>3, <2>4 DEF QuietSearch, Remembered, Marked, Fresh, Fetched
    <2>5. worker.results \subseteq InReach' \cup hidden'
      BY <2>1, <2>3 DEF QuietSearch
    <2> QED BY <2>1, <2>4, <2>5 DEF QuietSearch, AllPages
  <1>2. CASE Crash
    <2>1. UNCHANGED <<providers, remote, hidden, cache, announced>>
      BY <1>2 DEF Crash
    <2>2. CASE worker' = Idle /\ search' = search
      BY <2>1, <2>2, IdleQuiet
    <2>3. CASE worker' = worker /\ (search' = search \/ search'.pc \in {"saved", "gone"})
      <3>1. \A l \in Lots \ hidden : Remembered(l)'
        BY <2>1, <2>3 DEF QuietSearch, Remembered, Marked, Fresh, Fetched,
          InReach, AllPages
      <3> QED BY <2>1, <2>3, <3>1 DEF QuietSearch, InReach, AllPages
    <2> QED BY <1>2, <2>2, <2>3 DEF Crash, Worker, Typed
  <1> QED BY <1>1, <1>2

LEMMA StepQuiet == Typed /\ (Quiet => QuietSearch) /\ [Next]_vars
                     => (Quiet' => QuietSearch')
  <1> SUFFICES ASSUME Typed, Quiet => QuietSearch, [Next]_vars, Quiet'
               PROVE  QuietSearch'
    OBVIOUS
  <1>1. Quiet /\ QuietSearch /\ request' = request
    BY QuietBefore
  <1>2. CASE UNCHANGED vars
    BY <1>1, <1>2 DEF vars, QuietSearch, Remembered, Marked, Fresh, Fetched,
          InReach, AllPages
  <1> QED BY <1>1, <1>2, QuietBefore, OwnerQuiet, WorkerQuiet, OutsideQuiet

\* While nobody refreshes by hand, no match is announced twice as long as the polls
\* find it, for any number of providers, pages and lots, of changes, of outages and
\* of polls cut off, and whatever lots move between the pages.
THEOREM AnnouncedAtMostOnce == Spec => []AnnouncedOnce
  <1>1. Init => (Quiet => QuietSearch)
    BY IdleTyped DEF Init, Idle, QuietSearch, Remembered, Marked, Fresh, Fetched
  <1>2. Typed /\ (Quiet => QuietSearch) => AnnouncedOnce
    BY DEF Quiet, QuietSearch, Remembered, AnnouncedOnce
  <1> QED BY InitTyped, StepTyped, StepQuiet, <1>1, <1>2, PTL DEF Spec
=============================================================================
