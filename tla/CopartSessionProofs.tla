------------------------ MODULE CopartSessionProofs ------------------------
(***************************************************************************)
(* Proofs about CopartSession for any number of requests, operations and   *)
(* sessions, and any set of configured paths.                              *)
(***************************************************************************)
EXTENDS CopartSession, SequenceTheorems, TLAPS

Connections == [status : Statuses, version : 1..MaxVersion, bundle : Bundles]

RequestSet == [pc : RequestStates, bundle : Bundles, status : Statuses]

CallSet == [pc : CallStates, doc : Connections, bundle : Bundles,
            status : Statuses, failure : (DOMAIN CopartHeader) \cup {"none"}]

\* What TypeOK says without the log of attempts.
Shape ==
  /\ sessions \in 0..MaxSessions
  /\ pending \in SUBSET (1..sessions)
  /\ passed \in SUBSET (1..sessions)
  /\ request \in [Requests -> RequestSet]
  /\ conn \in Connections
  /\ call \in [Calls -> CallSet]

\* With s sessions opened and a challenge wanted for those of p: b's session
\* is not among them, and never will be, for only new sessions are.
Rested(b, s, p) == b.session \in (0..s) \ p

RequestSound(q, s, p, e) ==
  /\ q.bundle.session \in 0..s
  /\ q.pc \in {"identity", "verify", "store"} => q.bundle.session \notin p
  /\ q.pc = "store" /\ q.status = "reconnect_required"
     => q.bundle.expiry \in e

CallSound(k, s, p, e) ==
  /\ Rested(k.doc.bundle, s, p) /\ Rested(k.bundle, s, p)
  /\ k.pc = "persist" /\ k.status = "reconnect_required"
     => k.bundle.expiry \in e
  /\ k.pc = "failed" => k.failure \in DOMAIN CopartHeader

SInv ==
  /\ Shape
  /\ Rested(conn.bundle, sessions, pending)
  /\ \A r \in Requests : RequestSound(request[r], sessions, pending, passed)
  /\ \A c \in Calls : CallSound(call[c], sessions, pending, passed)

\* What a step does to the sessions of the site.
SiteGrows ==
  /\ sessions' \in 0..MaxSessions /\ sessions <= sessions'
  /\ pending' \in SUBSET (1..sessions')
  /\ pending' \cap (0..sessions) \subseteq pending
  /\ passed' \in SUBSET (1..sessions') /\ passed \subseteq passed'

LEMMA Failures ==
  /\ {"login_rejected", "credentials", "session_invalid", "challenge",
      "rate_limited", "unavailable", "malformed"} \subseteq DOMAIN CopartHeader
  /\ \A f \in DOMAIN CopartHeader : CopartGivesUp(f) => f = "session_invalid"
  BY DEF CopartHeader, CopartRaised, CopartGivesUp, GivesUp

LEMMA NoneTyped ==
  NoBundle \in Bundles /\ NoConn \in Connections
  /\ NoBundle.session = 0 /\ NoConn.bundle = NoBundle
  BY CopartAssumption DEF NoBundle, Bundles, NoConn, Connections, Statuses

LEMMA NoneRested ==
  SInv => /\ Rested(NoBundle, sessions, pending)
          /\ SiteGrows => Rested(NoBundle, sessions', pending')
  BY NoneTyped, CopartAssumption DEF SInv, Shape, Rested, SiteGrows

LEMMA StillRested ==
  ASSUME Shape, SiteGrows, NEW b, Rested(b, sessions, pending)
  PROVE  Rested(b, sessions', pending')
  BY CopartAssumption DEF Shape, SiteGrows, Rested

LEMMA RequestFields ==
  \A pc, b, st : /\ RequestState(pc, b, st).pc = pc
                 /\ RequestState(pc, b, st).bundle = b
                 /\ RequestState(pc, b, st).status = st
  BY DEF RequestState

LEMMA RequestTyped ==
  ASSUME NEW pc \in RequestStates, NEW b \in Bundles, NEW st \in Statuses
  PROVE  RequestState(pc, b, st) \in RequestSet
  BY DEF RequestState, RequestSet

LEMMA CallFields ==
  \A pc, d, b, st, f :
    /\ CallState(pc, d, b, st, f).pc = pc
    /\ CallState(pc, d, b, st, f).doc = d
    /\ CallState(pc, d, b, st, f).bundle = b
    /\ CallState(pc, d, b, st, f).status = st
    /\ CallState(pc, d, b, st, f).failure = f
  BY DEF CallState

LEMMA CallTyped ==
  ASSUME NEW pc \in CallStates, NEW d \in Connections, NEW b \in Bundles,
         NEW st \in Statuses, NEW f \in (DOMAIN CopartHeader) \cup {"none"}
  PROVE  CallState(pc, d, b, st, f) \in CallSet
  BY DEF CallState, CallSet

----------------------------------------------------------------------------
(* Steps that leave the stored connection alone.                           *)

LEMMA OthersStill ==
  ASSUME SInv, SiteGrows
  PROVE  /\ Rested(conn.bundle, sessions', pending')
         /\ \A r \in Requests :
              RequestSound(request[r], sessions', pending', passed')
         /\ \A c \in Calls : CallSound(call[c], sessions', pending', passed')
<1>1. Rested(conn.bundle, sessions', pending')
  BY StillRested DEF SInv
<1>2. ASSUME NEW r \in Requests
      PROVE  RequestSound(request[r], sessions', pending', passed')
  <2>1. RequestSound(request[r], sessions, pending, passed)
    BY DEF SInv
  <2>2. 0..sessions \subseteq 0..sessions'
    BY CopartAssumption DEF SInv, Shape, SiteGrows
  <2>3. QED
    BY <2>1, <2>2 DEF RequestSound, SiteGrows
<1>3. ASSUME NEW c \in Calls
      PROVE  CallSound(call[c], sessions', pending', passed')
  <2>1. CallSound(call[c], sessions, pending, passed)
    BY DEF SInv
  <2>2. /\ Rested(call[c].doc.bundle, sessions', pending')
        /\ Rested(call[c].bundle, sessions', pending')
    BY <2>1, StillRested DEF CallSound, SInv
  <2>3. QED
    BY <2>1, <2>2 DEF CallSound, SiteGrows
<1>4. QED
  BY <1>1, <1>2, <1>3

LEMMA SiteStep ==
  ASSUME SInv, SiteGrows, UNCHANGED <<request, conn, call>> PROVE SInv'
  BY OthersStill DEF SInv, Shape, SiteGrows

LEMMA RequestStep ==
  ASSUME SInv, SiteGrows, UNCHANGED <<conn, call>>,
         NEW r \in Requests, NEW q \in RequestSet,
         request' = [request EXCEPT ![r] = q],
         RequestSound(q, sessions', pending', passed')
  PROVE  SInv'
<1>1. ASSUME NEW o \in Requests
      PROVE  RequestSound(request'[o], sessions', pending', passed')
  BY OthersStill DEF SInv, Shape
<1>2. request' \in [Requests -> RequestSet]
  BY DEF SInv, Shape
<1>3. QED
  BY <1>1, <1>2, OthersStill DEF SInv, Shape, SiteGrows

LEMMA CallStep ==
  ASSUME SInv, SiteGrows, UNCHANGED <<request, conn>>,
         NEW c \in Calls, NEW k \in CallSet, call' = [call EXCEPT ![c] = k],
         CallSound(k, sessions', pending', passed')
  PROVE  SInv'
<1>1. ASSUME NEW d \in Calls
      PROVE  CallSound(call'[d], sessions', pending', passed')
  BY OthersStill DEF SInv, Shape
<1>2. call' \in [Calls -> CallSet]
  BY DEF SInv, Shape
<1>3. QED
  BY <1>1, <1>2, OthersStill DEF SInv, Shape, SiteGrows

LEMMA SiteSame == SInv /\ UNCHANGED site => SiteGrows
  BY CopartAssumption DEF SInv, Shape, SiteGrows, site

\* An answer may replace the session; the expiry the bundle then carries has
\* passed only if the old one's had.
LEMMA AnsweredGrows ==
  ASSUME SInv, NEW b \in Bundles, NEW n \in Bundles,
         Rested(b, sessions, pending), Answered(b, n)
  PROVE  /\ SiteGrows
         /\ Rested(b, sessions', pending') /\ Rested(n, sessions', pending')
         /\ passed' = passed
         /\ StatusFor(n) = "reconnect_required"
            => n.expiry \in passed /\ b.expiry \in passed
         /\ StatusFor(n) \in Statuses
<1>1. passed' = passed /\ pending' = pending
  BY DEF Answered, Kept, Replaced
<1>2. /\ sessions \in 0..MaxSessions /\ pending \in SUBSET (1..sessions)
      /\ passed \in SUBSET (1..sessions)
  BY DEF SInv, Shape
<1>3. StatusFor(n) \in Statuses
      /\ (StatusFor(n) = "reconnect_required" => n.expiry \in passed)
  BY DEF StatusFor, Statuses
<1>4. CASE Kept(b, n)
  BY <1>1, <1>2, <1>3, <1>4, CopartAssumption DEF Kept, SiteGrows
<1>5. CASE Replaced(b, n)
  <2>1. /\ sessions < MaxSessions /\ n.session = sessions + 1
        /\ n.expiry \in {b.expiry, sessions + 1} /\ sessions' = sessions + 1
    BY <1>5 DEF Replaced, NewBundles
  <2>2. SiteGrows
    BY <1>1, <1>2, <2>1, CopartAssumption DEF SiteGrows
  <2>3. sessions + 1 \notin passed /\ sessions + 1 \notin pending
    BY <1>2, CopartAssumption
  <2>4. Rested(b, sessions', pending') /\ Rested(n, sessions', pending')
    BY <1>1, <1>2, <2>1, <2>3, CopartAssumption DEF Rested
  <2>5. QED
    BY <1>1, <1>3, <2>1, <2>2, <2>3, <2>4
<1>6. QED
  BY <1>4, <1>5 DEF Answered

\* A request that is over, for good or for ill.
LEMMA EndsKeep ==
  ASSUME SInv, SiteGrows, UNCHANGED <<conn, call>>, NEW r \in Requests,
         NEW f, Ends(r, f)
  PROVE  SInv'
<1>1. IdleRequest \in RequestSet
  BY NoneTyped, RequestTyped DEF IdleRequest, RequestStates, Statuses
<1>2. RequestSound(IdleRequest, sessions', pending', passed')
  BY NoneTyped, NoneRested, RequestFields DEF IdleRequest, RequestSound, Rested
<1>3. QED
  BY <1>1, <1>2, RequestStep DEF Ends

LEMMA GoesKeeps ==
  ASSUME SInv, SiteGrows, UNCHANGED <<conn, call>>, NEW r \in Requests,
         NEW pc \in {"login", "challenge", "identity", "verify"},
         NEW b \in Bundles, b.session \in 0..sessions',
         pc \in {"identity", "verify"} => b.session \notin pending',
         request' = [request EXCEPT ![r] = RequestState(pc, b, "absent")]
  PROVE  SInv'
<1> DEFINE q == RequestState(pc, b, "absent")
<1>1. q \in RequestSet
  BY RequestTyped DEF RequestStates, Statuses
<1>2. RequestSound(q, sessions', pending', passed')
  BY RequestFields DEF RequestSound
<1>3. request' = [request EXCEPT ![r] = q]
  OBVIOUS
<1> HIDE DEF q
<1>4. QED
  BY <1>1, <1>2, <1>3, RequestStep

LEMMA RequestHas ==
  ASSUME SInv, NEW r \in Requests
  PROVE  /\ request[r].bundle \in Bundles
         /\ request[r].bundle.session \in 0..sessions
         /\ request[r].pc \in {"identity", "verify", "store"}
            => Rested(request[r].bundle, sessions, pending)
  BY DEF SInv, Shape, RequestSet, RequestSound, Rested

LEMMA AcceptedKeeps ==
  ASSUME SInv, NEW r \in Requests, LoginAccepted(r) PROVE SInv'
<1>1. PICK asked \in BOOLEAN, expiry \in {0, sessions + 1} :
        LET b == [session |-> sessions + 1, expiry |-> expiry]
        IN /\ pending' = IF asked THEN pending \cup {b.session} ELSE pending
           /\ \/ ~asked /\ Goes(r, AfterChallenge, b)
              \/ Goes(r, "challenge", b)
              \/ Ends(r, "challenge")
  BY DEF LoginAccepted, ChallengeNeeded
<1> DEFINE b == [session |-> sessions + 1, expiry |-> expiry]
<1>2. /\ sessions \in 0..MaxSessions /\ pending \in SUBSET (1..sessions)
      /\ passed \in SUBSET (1..sessions) /\ sessions < MaxSessions
      /\ sessions' = sessions + 1 /\ passed' = passed
      /\ UNCHANGED <<conn, call>>
  BY DEF SInv, Shape, LoginAccepted
<1>3. b \in Bundles /\ b.session = sessions + 1
  BY <1>2, CopartAssumption DEF Bundles
<1>4. pending' = IF asked THEN pending \cup {sessions + 1} ELSE pending
  BY <1>1
<1>5. SiteGrows
  BY <1>2, <1>4, CopartAssumption DEF SiteGrows
<1>6. /\ b.session \in 0..sessions'
      /\ ~asked => b.session \notin pending'
  BY <1>2, <1>3, <1>4, CopartAssumption
<1>7. AfterChallenge \in {"identity", "verify"}
  BY DEF AfterChallenge
<1>8. \/ ~asked /\ Goes(r, AfterChallenge, b)
      \/ Goes(r, "challenge", b) \/ Ends(r, "challenge")
  BY <1>1
<1> HIDE DEF b
<1>9. CASE ~asked /\ Goes(r, AfterChallenge, b)
  BY <1>2, <1>3, <1>5, <1>6, <1>7, <1>9, GoesKeeps DEF Goes
<1>10. CASE Goes(r, "challenge", b)
  BY <1>2, <1>3, <1>5, <1>6, <1>10, GoesKeeps DEF Goes
<1>11. CASE Ends(r, "challenge")
  BY <1>2, <1>5, <1>11, EndsKeep
<1>12. QED
  BY <1>8, <1>9, <1>10, <1>11

LEMMA ChallengeKeeps ==
  ASSUME SInv, NEW r \in Requests, ChallengeAnswered(r) PROVE SInv'
<1> DEFINE old == request[r].bundle
<1>1. PICK b \in {old} \cup NewBundles(old) :
        /\ sessions' = IF b = old THEN sessions ELSE b.session
        /\ pending' = pending \ {old.session}
        /\ Goes(r, AfterChallenge, b)
  BY DEF ChallengeAnswered
<1>2. /\ sessions \in 0..MaxSessions /\ pending \in SUBSET (1..sessions)
      /\ passed \in SUBSET (1..sessions) /\ passed' = passed
      /\ UNCHANGED <<conn, call>>
  BY DEF SInv, Shape, ChallengeAnswered
<1>3. old \in Bundles /\ old.session \in 0..sessions
  BY RequestHas
<1>4. AfterChallenge \in {"identity", "verify"}
  BY DEF AfterChallenge
<1>5. /\ b \in Bundles /\ b.session \in 0..sessions' /\ SiteGrows
      /\ b.session \notin pending'
  <2>1. CASE b = old
    <3>1. sessions' = sessions /\ pending' = pending \ {old.session}
      BY <1>1, <2>1
    <3>2. SiteGrows
      <4>1. /\ pending' \subseteq pending /\ pending' \in SUBSET (1..sessions')
            /\ passed' \in SUBSET (1..sessions') /\ passed \subseteq passed'
        BY <1>2, <3>1
      <4>2. sessions' \in 0..MaxSessions /\ sessions <= sessions'
        BY <1>2, <3>1, CopartAssumption
      <4>3. QED
        BY <4>1, <4>2 DEF SiteGrows
    <3>3. QED
      BY <1>3, <2>1, <3>1, <3>2
  <2>2. CASE b \in NewBundles(old) /\ b # old
    <3>1. /\ sessions < MaxSessions /\ b.session = sessions + 1
          /\ sessions' = sessions + 1
      BY <1>1, <2>2 DEF NewBundles
    <3>2. b \in Bundles
      BY <1>2, <1>3, <2>2, CopartAssumption DEF NewBundles, Bundles
    <3>3. pending' \in SUBSET (1..sessions) /\ pending' \subseteq pending
      BY <1>1, <1>2
    <3>4. SiteGrows
      BY <1>2, <3>1, <3>3, CopartAssumption DEF SiteGrows
    <3>5. sessions + 1 \notin 1..sessions
      BY <1>2, CopartAssumption
    <3>6. QED
      BY <1>2, <3>1, <3>2, <3>3, <3>4, <3>5, CopartAssumption
  <2>3. QED
    BY <1>1, <2>1, <2>2
<1>6. QED
  BY <1>1, <1>2, <1>4, <1>5, GoesKeeps DEF Goes

LEMMA IdentifiedKeeps ==
  ASSUME SInv, NEW r \in Requests, Identified(r) PROVE SInv'
<1>1. PICK b \in Bundles : Answered(request[r].bundle, b) /\ Goes(r, "verify", b)
  BY DEF Identified
<1>2. /\ Rested(request[r].bundle, sessions, pending)
      /\ request[r].bundle \in Bundles
  BY RequestHas DEF Identified
<1>3. SiteGrows /\ Rested(b, sessions', pending')
  BY <1>1, <1>2, AnsweredGrows
<1>4. QED
  BY <1>1, <1>3, GoesKeeps DEF Identified, Goes, Rested

\* What is stored after a verification is the bundle that was verified; its
\* own expiry has passed when that of the verification's answer has.
LEMMA VerifiedKeeps ==
  ASSUME SInv, NEW r \in Requests, Verified(r) PROVE SInv'
<1> DEFINE old == request[r].bundle
<1>1. old \in Bundles /\ Rested(old, sessions, pending)
  BY RequestHas DEF Verified
<1>2. PICK st \in Statuses :
        /\ Verifies(r, st) /\ SiteGrows
        /\ Rested(old, sessions', pending')
        /\ st = "reconnect_required" => old.expiry \in passed'
  <2>1. CASE "verify" \in paths
    <3>1. PICK b \in Bundles : Answered(old, b) /\ Verifies(r, StatusFor(b))
      BY <2>1 DEF Verified
    <3>2. QED
      BY <1>1, <3>1, AnsweredGrows
  <2>2. CASE "verify" \notin paths
    <3>1. Verifies(r, StatusFor(old)) /\ UNCHANGED site
      BY <2>2 DEF Verified
    <3>2. StatusFor(old) \in Statuses
          /\ (StatusFor(old) = "reconnect_required" => old.expiry \in passed)
      BY DEF StatusFor, Statuses
    <3>3. QED
      BY <1>1, <3>1, <3>2, SiteSame DEF site
  <2>3. QED
    BY <2>1, <2>2
<1> DEFINE q == RequestState("store", old, st)
<1>3. q \in RequestSet
  BY <1>1, RequestTyped DEF RequestStates
<1>4. RequestSound(q, sessions', pending', passed')
  BY <1>2, RequestFields DEF RequestSound, Rested
<1>5. request' = [request EXCEPT ![r] = q] /\ UNCHANGED <<conn, call>>
  BY <1>2 DEF Verified, Verifies
<1> HIDE DEF q
<1>6. QED
  BY <1>2, <1>3, <1>4, <1>5, RequestStep

----------------------------------------------------------------------------
(* The stored connection.                                                  *)

LEMMA StoreKeeps ==
  ASSUME SInv, NEW r \in Requests, StoreConnection(r)
  PROVE  /\ SInv'
         /\ conn'.bundle.session \notin pending
         /\ conn'.status = "reconnect_required" => conn'.bundle.expiry \in passed
<1>1. /\ request[r].pc = "store"
      /\ conn' = [status |-> request[r].status, version |-> 1,
                  bundle |-> request[r].bundle]
      /\ request' = [request EXCEPT ![r] = IdleRequest]
      /\ UNCHANGED <<site, call>>
  BY DEF StoreConnection
<1>2. /\ RequestSound(request[r], sessions, pending, passed)
      /\ request[r] \in RequestSet
  BY DEF SInv, Shape
<1>3. conn' \in Connections
  BY <1>1, <1>2, CopartAssumption DEF RequestSet, Connections
<1>4. /\ conn'.bundle = request[r].bundle /\ conn'.status = request[r].status
      /\ Rested(conn'.bundle, sessions, pending)
  BY <1>1, <1>2 DEF RequestSound, Rested
<1>5. IdleRequest \in RequestSet
  BY NoneTyped, RequestTyped DEF IdleRequest, RequestStates, Statuses
<1>6. RequestSound(IdleRequest, sessions, pending, passed)
  BY NoneTyped, NoneRested, RequestFields DEF IdleRequest, RequestSound, Rested
<1>7. SInv'
  BY <1>1, <1>3, <1>4, <1>5, <1>6 DEF SInv, Shape, site
<1>8. QED
  BY <1>1, <1>2, <1>4, <1>7 DEF RequestSound, Rested

LEMMA CallHas ==
  ASSUME SInv, NEW c \in Calls
  PROVE  /\ call[c].doc \in Connections /\ call[c].doc.bundle \in Bundles
         /\ call[c].bundle \in Bundles /\ call[c].status \in Statuses
         /\ CallSound(call[c], sessions, pending, passed)
  BY DEF SInv, Shape, CallSet, Connections

LEMMA ReadyFine ==
  ASSUME SInv, SiteGrows, NEW d \in Connections,
         Rested(d.bundle, sessions', pending')
  PROVE  /\ Ready(d) \in CallSet
         /\ CallSound(Ready(d), sessions', pending', passed')
<1>1. Ready(d) \in CallSet
  BY NoneTyped, CallTyped DEF Ready, CallStates, Statuses
<1>2. QED
  BY <1>1, NoneRested, CallFields DEF Ready, CallSound

LEMMA RestFine ==
  ASSUME SInv, SiteGrows, NEW f \in DOMAIN CopartHeader
  PROVE  /\ Failed(f) \in CallSet /\ IdleCall \in CallSet
         /\ CallSound(Failed(f), sessions', pending', passed')
         /\ CallSound(IdleCall, sessions', pending', passed')
<1>1. Failed(f) \in CallSet /\ IdleCall \in CallSet
  BY NoneTyped, CallTyped DEF Failed, IdleCall, CallStates, Statuses
<1>2. QED
  BY <1>1, NoneTyped, NoneRested, CallFields DEF Failed, IdleCall, CallSound

LEMMA PersistKeeps ==
  ASSUME SInv, NEW c \in Calls, Persist(c)
  PROVE  /\ SInv'
         /\ conn' # conn =>
              /\ conn'.bundle.session \notin pending
              /\ conn'.status = "reconnect_required"
                 => conn'.bundle.expiry \in passed
<1>1. /\ call[c].pc = "persist" /\ call' = [call EXCEPT ![c] = Ready(call[c].doc)]
      /\ UNCHANGED <<site, request>>
  BY DEF Persist
<1>2. /\ call[c].doc \in Connections /\ call[c].bundle \in Bundles
      /\ call[c].status \in Statuses
      /\ CallSound(call[c], sessions, pending, passed)
  BY CallHas
<1>3. SiteGrows
  BY <1>1, SiteSame
<1>4. /\ Ready(call[c].doc) \in CallSet
      /\ CallSound(Ready(call[c].doc), sessions', pending', passed')
  BY <1>1, <1>2, <1>3, ReadyFine DEF CallSound, site
<1>5. conn' = conn \/ conn' = [status |-> call[c].status,
                               version |-> conn.version + 1,
                               bundle |-> call[c].bundle]
  BY DEF Persist
<1>6. /\ conn' \in Connections /\ Rested(conn'.bundle, sessions, pending)
      /\ conn' # conn => conn'.bundle = call[c].bundle
                         /\ conn'.status = call[c].status
  <2>1. conn \in Connections /\ Rested(conn.bundle, sessions, pending)
        /\ conn.version + 1 \in 1..MaxVersion
    BY CopartAssumption DEF SInv, Shape, Persist, Connections
  <2>2. QED
    BY <1>2, <1>5, <2>1 DEF Connections, CallSound
<1>7. SInv'
  <2> DEFINE k == Ready(call[c].doc)
  <2>1. k \in CallSet /\ CallSound(k, sessions, pending, passed)
        /\ call' = [call EXCEPT ![c] = k]
    BY <1>1, <1>4 DEF site
  <2> HIDE DEF k
  <2>2. QED
    BY <1>1, <1>6, <2>1 DEF SInv, Shape, site
<1>8. QED
  BY <1>1, <1>2, <1>6, <1>7 DEF CallSound, Rested

LEMMA FailKeeps ==
  ASSUME SInv, NEW c \in Calls, Fail(c)
  PROVE  /\ SInv'
         /\ conn'.bundle = conn.bundle
         /\ conn' # conn => /\ call[c].pc = "failed"
                            /\ call[c].failure = "session_invalid"
<1>1. /\ call[c].pc = "failed" /\ call' = [call EXCEPT ![c] = IdleCall]
      /\ UNCHANGED <<site, request>>
  BY DEF Fail
<1>2. conn' # conn => call[c].failure = "session_invalid"
  BY <1>1, CallHas, Failures DEF Fail, CallSound
<1>3. conn' \in Connections /\ conn'.bundle = conn.bundle
  BY DEF Fail, SInv, Shape, Connections, Statuses
<1>4. /\ IdleCall \in CallSet
      /\ CallSound(IdleCall, sessions, pending, passed)
  BY <1>1, SiteSame, RestFine, Failures DEF site
<1>5. SInv'
  BY <1>1, <1>3, <1>4 DEF SInv, Shape, site
<1>6. QED
  BY <1>1, <1>2, <1>3, <1>5

LEMMA SendKeeps ==
  ASSUME SInv, NEW c \in Calls,
         Begin(c) \/ SendAnswered(c) \/ SendRefused(c) \/ SendFailed(c)
         \/ Finish(c)
  PROVE  SInv'
<1>1. UNCHANGED <<request, conn>>
  BY DEF Begin, SendAnswered, SendRefused, SendFailed, Finish
<1>2. /\ call[c].doc \in Connections /\ call[c].doc.bundle \in Bundles
      /\ Rested(call[c].doc.bundle, sessions, pending)
  BY CallHas DEF CallSound
<1>3. CASE Begin(c)
  <2>1. SiteGrows /\ call' = [call EXCEPT ![c] = Ready(conn)]
    BY <1>3, SiteSame DEF Begin
  <2>2. conn \in Connections /\ Rested(conn.bundle, sessions', pending')
    BY <1>3 DEF SInv, Shape, Begin, site
  <2>3. QED
    BY <1>1, <2>1, <2>2, ReadyFine, CallStep
<1>4. CASE SendAnswered(c)
  <2>1. PICK b \in Bundles :
          /\ Answered(call[c].doc.bundle, b)
          /\ call' = [call EXCEPT ![c] =
               CallState("persist", call[c].doc, b, StatusFor(b), "none")]
    BY <1>4 DEF SendAnswered
  <2>2. /\ SiteGrows /\ Rested(call[c].doc.bundle, sessions', pending')
        /\ Rested(b, sessions', pending') /\ StatusFor(b) \in Statuses
        /\ StatusFor(b) = "reconnect_required" => b.expiry \in passed'
    BY <1>2, <2>1, AnsweredGrows
  <2> DEFINE k == CallState("persist", call[c].doc, b, StatusFor(b), "none")
  <2>3. k \in CallSet
    BY <1>2, <2>2, CallTyped DEF CallStates
  <2>4. CallSound(k, sessions', pending', passed')
    BY <2>2, CallFields DEF CallSound
  <2>5. call' = [call EXCEPT ![c] = k]
    BY <2>1
  <2> HIDE DEF k
  <2>6. QED
    BY <1>1, <2>2, <2>3, <2>4, <2>5, CallStep
<1>5. CASE SendRefused(c) \/ SendFailed(c)
  <2>1. SiteGrows
    <3>1. UNCHANGED site \/ \E b \in Bundles : Answered(call[c].doc.bundle, b)
      BY <1>5 DEF SendRefused, SendFailed
    <3>2. QED
      BY <1>2, <3>1, SiteSame, AnsweredGrows
  <2>2. PICK f \in DOMAIN CopartHeader : call' = [call EXCEPT ![c] = Failed(f)]
    BY <1>5, Failures DEF SendRefused, SendFailed
  <2>3. QED
    BY <1>1, <2>1, <2>2, RestFine, CallStep
<1>6. CASE Finish(c)
  BY <1>1, <1>6, SiteSame, RestFine, CallStep, Failures DEF Finish
<1>7. QED
  BY <1>3, <1>4, <1>5, <1>6

----------------------------------------------------------------------------
LEMMA RequestKeeps ==
  ASSUME SInv, NEW r \in Requests, RequestNext(r), ~StoreConnection(r)
  PROVE  SInv' /\ conn' = conn
<1>1. conn' = conn
  BY DEF RequestNext, Connect, LoginAccepted, LoginRefused, ChallengeAnswered,
         ChallengeFailed, Identified, Verified, CheckFailed, ConnectLost
<1>2. CASE LoginAccepted(r) \/ ChallengeAnswered(r) \/ Identified(r) \/ Verified(r)
  BY <1>1, <1>2, AcceptedKeeps, ChallengeKeeps, IdentifiedKeeps, VerifiedKeeps
<1>3. CASE Connect(r)
  <2>1. SiteGrows /\ UNCHANGED <<conn, call>>
    BY <1>3, SiteSame DEF Connect
  <2>2. CASE Ends(r, "rate_limited")
    BY <2>1, <2>2, EndsKeep
  <2>3. CASE request' = [request EXCEPT ![r] =
                           RequestState("login", NoBundle, "absent")]
    <3>1. NoBundle \in Bundles /\ NoBundle.session \in 0..sessions'
      BY <2>1, NoneTyped, NoneRested DEF Rested
    <3>2. QED
      BY <2>1, <2>3, <3>1, GoesKeeps
  <2>4. QED
    BY <1>3, <2>2, <2>3 DEF Connect
<1>4. CASE LoginRefused(r) \/ ChallengeFailed(r) \/ CheckFailed(r) \/ ConnectLost(r)
  <2>1. SiteGrows /\ UNCHANGED <<conn, call>> /\ \E f : Ends(r, f)
    BY <1>4, SiteSame
       DEF LoginRefused, ChallengeFailed, CheckFailed, ConnectLost
  <2>2. QED
    BY <1>1, <2>1, EndsKeep
<1>5. QED
  BY <1>1, <1>2, <1>3, <1>4 DEF RequestNext

Earned ==
  /\ conn'.bundle # conn.bundle => conn'.bundle.session \notin pending
  /\ /\ conn.status = "usable"
     /\ conn'.status = "reconnect_required"
     => \/ \E c \in Calls :
             call[c].pc = "failed" /\ call[c].failure = "session_invalid"
        \/ conn'.bundle.expiry \in passed

LEMMA NextKeeps == SInv /\ [Next]_vars => SInv' /\ Earned
<1> SUFFICES ASSUME SInv, [Next]_vars PROVE SInv' /\ Earned
  OBVIOUS
<1>1. ASSUME NEW r \in Requests, RequestNext(r) PROVE SInv' /\ Earned
  BY <1>1, RequestKeeps, StoreKeeps DEF Earned
<1>2. ASSUME NEW c \in Calls, CallNext(c) PROVE SInv' /\ Earned
  <2>1. CASE Persist(c)
    BY <2>1, PersistKeeps DEF Earned
  <2>2. CASE Fail(c)
    BY <2>2, FailKeeps DEF Earned
  <2>3. CASE Begin(c) \/ SendAnswered(c) \/ SendRefused(c) \/ SendFailed(c)
             \/ Finish(c)
    <3>1. conn' = conn
      BY <2>3 DEF Begin, SendAnswered, SendRefused, SendFailed, Finish
    <3>2. QED
      BY <2>3, <3>1, SendKeeps DEF Earned
  <2>4. QED
    BY <1>2, <2>1, <2>2, <2>3 DEF CallNext
<1>3. CASE Tick \/ SiteNext \/ UNCHANGED vars
  <2>1. UNCHANGED <<sessions, pending, request, conn, call>>
    BY <1>3 DEF Tick, SiteNext, ExpiryPasses, SiteEnds, vars, site
  <2>2. passed' = passed \/ \E s \in 1..sessions : passed' = passed \cup {s}
    BY <1>3 DEF Tick, SiteNext, ExpiryPasses, SiteEnds, vars, site
  <2>3. SiteGrows
    <3>1. /\ sessions \in 0..MaxSessions /\ pending \in SUBSET (1..sessions)
          /\ passed \in SUBSET (1..sessions)
      BY DEF SInv, Shape
    <3>2. passed' \in SUBSET (1..sessions) /\ passed \subseteq passed'
      BY <2>2, <3>1
    <3>3. QED
      BY <2>1, <3>1, <3>2, CopartAssumption DEF SiteGrows
  <2>4. QED
    BY <2>1, <2>3, SiteStep DEF Earned
<1>4. QED
  BY <1>1, <1>2, <1>3 DEF Next

LEMMA InitHolds == Init => SInv
<1> SUFFICES ASSUME Init PROVE SInv
  OBVIOUS
<1>1. IdleRequest \in RequestSet /\ IdleCall \in CallSet
  BY NoneTyped, RequestTyped, CallTyped
     DEF IdleRequest, IdleCall, RequestStates, CallStates, Statuses
<1>2. Shape
  BY <1>1, NoneTyped, CopartAssumption DEF Init, Shape
<1>3. /\ Rested(NoBundle, 0, {})
      /\ RequestSound(IdleRequest, 0, {}, {})
      /\ CallSound(IdleCall, 0, {}, {})
  BY NoneTyped, RequestFields, CallFields
     DEF Rested, RequestSound, CallSound, IdleRequest, IdleCall
<1>4. QED
  BY <1>2, <1>3, NoneTyped DEF Init, SInv

\* Whatever paths are configured and whatever requests and operations overlap:
\* no session is stored that a challenge is wanted for, and a usable connection
\* is given up only on a refused session or on an expiry that has passed.
THEOREM EarnedStatus == Spec => StatusEarned
<1>1. SInv /\ [Next]_vars => SInv'
  BY NextKeeps
<1>2. SInv /\ [Next]_vars =>
        [/\ conn'.bundle # conn.bundle => conn'.bundle.session \notin pending
         /\ /\ conn.status = "usable"
            /\ conn'.status = "reconnect_required"
            => \/ \E c \in Calls :
                    call[c].pc = "failed" /\ call[c].failure = "session_invalid"
               \/ conn'.bundle.expiry \in passed]_vars
  BY NextKeeps DEF Earned
<1>3. QED
  BY <1>1, <1>2, InitHolds, PTL DEF Spec, StatusEarned

----------------------------------------------------------------------------
(* Well formed: what Shape leaves out.                                     *)

ConnectAnswers == {0, 200, 401, 429, 502, 503}

LogTyped == attempts \in Seq(0..Window) /\ Len(attempts) <= Limit

\* A challenge is answered for a session the site has opened.
Challenged(q) == q.pc = "challenge" => q.bundle.session # 0

\* The site accepts sessions it has opened and wants no challenge for.
OpenFine ==
  /\ open \in SUBSET ((1..sessions) \ pending)
  /\ \A r \in Requests : Challenged(request[r])

WInv == paths \in Configs /\ LogTyped /\ answer \in ConnectAnswers /\ OpenFine

LEMMA AnswerTyped == \A f : CopartConnectAnswer(f) \in ConnectAnswers
  BY DEF CopartConnectAnswer, ConnectAnswer, ConnectAnswers

LEMMA ConnectNotes ==
  ASSUME LogTyped, NEW r \in Requests, Connect(r) PROVE LogTyped'
<1>1. CASE WithinLimit
  <2>1. attempts' = <<0>> \o attempts /\ Len(attempts) < Limit
    BY <1>1 DEF Connect, Counted, WithinLimit
  <2>2. <<0>> \in Seq(0..Window) /\ Len(<<0>>) = 1
    BY CopartAssumption
  <2>3. attempts' \in Seq(0..Window) /\ Len(attempts') = 1 + Len(attempts)
    BY <2>1, <2>2 DEF LogTyped
  <2>4. Len(attempts) \in Nat
    BY DEF LogTyped
  <2>5. QED
    BY <2>1, <2>3, <2>4, CopartAssumption DEF LogTyped
<1>2. CASE ~WithinLimit
  BY <1>2 DEF Connect, Counted, LogTyped
<1>3. QED
  BY <1>1, <1>2

LEMMA TickNotes == LogTyped /\ Tick => LogTyped'
<1> SUFFICES ASSUME LogTyped, Tick PROVE LogTyped'
  OBVIOUS
<1>1. PICK n \in 0..Len(attempts) :
        /\ {i \in DOMAIN attempts : attempts[i] < Window} = 1..n
        /\ attempts' = [i \in 1..n |-> attempts[i] + 1]
  BY DEF Tick
<1>2. attempts \in Seq(0..Window) /\ Len(attempts) \in Nat /\ Len(attempts) <= Limit
  BY DEF LogTyped
<1>3. ASSUME NEW i \in 1..n PROVE attempts[i] + 1 \in 0..Window
  <2>1. i \in DOMAIN attempts /\ attempts[i] < Window
    BY <1>1
  <2>2. i \in 1..Len(attempts)
    BY <1>2, <2>1
  <2>3. attempts[i] \in 0..Window
    BY <1>2, <2>2, ElementOfSeq
  <2>4. QED
    BY <2>1, <2>3, CopartAssumption
<1>4. n \in Nat /\ n <= Limit
  BY <1>1, <1>2, CopartAssumption
<1>5. attempts' \in Seq(0..Window)
  BY <1>1, <1>3, <1>4
<1>6. Len(attempts') = n
  BY <1>1, <1>4
<1>7. QED
  BY <1>4, <1>5, <1>6 DEF LogTyped

LEMMA LogKeeps ==
  ASSUME LogTyped, [Next]_vars PROVE LogTyped'
<1>1. CASE UNCHANGED attempts
  BY <1>1 DEF LogTyped
<1>2. CASE ~UNCHANGED attempts
  <2>1. Tick \/ \E r \in Requests : Connect(r)
    BY <1>2 DEF Next, RequestNext, LoginAccepted, LoginRefused, ChallengeAnswered,
                ChallengeFailed, Identified, Verified, CheckFailed, StoreConnection,
                ConnectLost, CallNext, Begin, SendAnswered, SendRefused, SendFailed,
                Persist, Fail, Finish, SiteNext, ExpiryPasses, SiteEnds, vars
  <2>2. QED
    BY <2>1, TickNotes, ConnectNotes
<1>3. QED
  BY <1>1, <1>2

LEMMA AnswerKeeps ==
  ASSUME answer \in ConnectAnswers, [Next]_vars PROVE answer' \in ConnectAnswers
<1>1. ASSUME NEW r \in Requests, RequestNext(r) PROVE answer' \in ConnectAnswers
  <2>1. answer' \in {answer, 0, 200} \/ \E f : answer' = CopartConnectAnswer(f)
    BY <1>1 DEF RequestNext, Connect, LoginAccepted, LoginRefused, ChallengeAnswered,
                ChallengeFailed, Identified, Verified, CheckFailed, StoreConnection,
                ConnectLost, Ends, Goes, Verifies
  <2>2. QED
    BY <2>1, AnswerTyped DEF ConnectAnswers
<1>2. ASSUME NEW c \in Calls, CallNext(c) PROVE answer' \in ConnectAnswers
  BY <1>2 DEF CallNext, Begin, SendAnswered, SendRefused, SendFailed, Persist, Fail, Finish
<1>3. CASE Tick \/ SiteNext \/ UNCHANGED vars
  BY <1>3 DEF Tick, SiteNext, ExpiryPasses, SiteEnds, vars
<1>4. QED
  BY <1>1, <1>2, <1>3 DEF Next

LEMMA PathsStay == [Next]_vars => paths' = paths
  BY DEF Next, RequestNext, Connect, LoginAccepted, LoginRefused, ChallengeAnswered,
         ChallengeFailed, Identified, Verified, CheckFailed, StoreConnection,
         ConnectLost, CallNext, Begin, SendAnswered, SendRefused, SendFailed,
         Persist, Fail, Finish, Tick, SiteNext, ExpiryPasses, SiteEnds, vars

----------------------------------------------------------------------------
(* The sessions the site accepts.                                          *)

LEMMA SiteTyped ==
  SInv => /\ sessions \in 0..MaxSessions /\ sessions \in Nat
          /\ pending \in SUBSET (1..sessions)
          /\ 1..sessions \subseteq 1..(sessions + 1)
          /\ sessions + 1 \in (1..(sessions + 1)) \ (1..sessions)
  BY CopartAssumption DEF SInv, Shape

\* An answer of the site to a session it accepts.
LEMMA AnsweredOpen ==
  ASSUME SInv, OpenFine, NEW b \in Bundles, NEW n, Answered(b, n)
  PROVE  open' \in SUBSET ((1..sessions') \ pending')
<1>1. CASE Kept(b, n)
  BY <1>1 DEF Kept, OpenFine
<1>2. CASE Replaced(b, n)
  <2>1. /\ n.session = sessions + 1 /\ sessions' = sessions + 1 /\ pending' = pending
        /\ open' = (open \ {b.session}) \cup {sessions + 1}
    BY <1>2 DEF Replaced, NewBundles
  <2>2. open \in SUBSET ((1..sessions) \ pending)
    BY DEF OpenFine
  <2>3. QED
    BY <2>1, <2>2, SiteTyped
<1>3. QED
  BY <1>1, <1>2 DEF Answered

\* Requests that do not come to wait for the answer to a challenge.
LEMMA RequestMoves ==
  ASSUME SInv, OpenFine, NEW r \in Requests, NEW q,
         request' = [request EXCEPT ![r] = q], Challenged(q)
  PROVE  \A o \in Requests : Challenged(request'[o])
  BY DEF SInv, Shape, OpenFine

LEMMA StatesUnchallenged ==
  ASSUME NEW pc \in {"idle", "login", "identity", "verify", "store"}, NEW b, NEW st
  PROVE  Challenged(RequestState(pc, b, st))
  BY RequestFields DEF Challenged

LEMMA RequestEnds ==
  ASSUME SInv, OpenFine, NEW r \in Requests,
         \/ \E f : Ends(r, f)
         \/ \E pc \in {"login", "identity", "verify"} : \E b : Goes(r, pc, b)
         \/ \E st : Verifies(r, st)
         \/ request' = [request EXCEPT ![r] = IdleRequest]
  PROVE  \A o \in Requests : Challenged(request'[o])
<1>1. \E pc \in {"idle", "login", "identity", "verify", "store"} : \E b, st :
        request' = [request EXCEPT ![r] = RequestState(pc, b, st)]
  BY DEF Ends, Goes, Verifies, IdleRequest
<1>2. QED
  BY <1>1, StatesUnchallenged, RequestMoves

LEMMA AcceptedOpen ==
  ASSUME SInv, OpenFine, NEW r \in Requests, LoginAccepted(r) PROVE OpenFine'
<1>1. PICK asked \in BOOLEAN, expiry \in {0, sessions + 1} :
        LET b == [session |-> sessions + 1, expiry |-> expiry]
        IN /\ pending' = IF asked THEN pending \cup {b.session} ELSE pending
           /\ open' = IF asked THEN open ELSE open \cup {b.session}
           /\ \/ Goes(r, AfterChallenge, b)
              \/ Goes(r, "challenge", b)
              \/ Ends(r, "challenge")
  BY DEF LoginAccepted
<1> DEFINE b == [session |-> sessions + 1, expiry |-> expiry]
<1>2. /\ pending' = IF asked THEN pending \cup {sessions + 1} ELSE pending
      /\ open' = IF asked THEN open ELSE open \cup {sessions + 1}
      /\ sessions' = sessions + 1
  BY <1>1 DEF LoginAccepted
<1>3. open' \in SUBSET ((1..sessions') \ pending')
  <2>1. open \in SUBSET ((1..sessions) \ pending)
    BY DEF OpenFine
  <2>2. CASE asked
    BY <1>2, <2>1, <2>2, SiteTyped
  <2>3. CASE ~asked
    BY <1>2, <2>1, <2>3, SiteTyped
  <2>4. QED
    BY <2>2, <2>3
<1>4. b.session # 0
  BY SiteTyped
<1>5. \/ Goes(r, AfterChallenge, b) \/ Goes(r, "challenge", b)
      \/ Ends(r, "challenge")
  BY <1>1
<1> HIDE DEF b
<1>6. AfterChallenge \in {"identity", "verify"}
  BY DEF AfterChallenge
<1>7. \A o \in Requests : Challenged(request'[o])
  <2>1. CASE Goes(r, "challenge", b)
    <3>1. Challenged(RequestState("challenge", b, "absent"))
      BY <1>4, RequestFields DEF Challenged
    <3>2. QED
      BY <2>1, <3>1, RequestMoves DEF Goes
  <2>2. CASE Goes(r, AfterChallenge, b) \/ Ends(r, "challenge")
    BY <1>6, <2>2, RequestEnds
  <2>3. QED
    BY <1>5, <2>1, <2>2
<1>8. QED
  BY <1>3, <1>7 DEF OpenFine

LEMMA ChallengeOpen ==
  ASSUME SInv, OpenFine, NEW r \in Requests, ChallengeAnswered(r) PROVE OpenFine'
<1> DEFINE old == request[r].bundle
<1>1. PICK b \in {old} \cup NewBundles(old) :
        /\ sessions' = IF b = old THEN sessions ELSE b.session
        /\ pending' = pending \ {old.session}
        /\ open' = open \cup {b.session}
        /\ Goes(r, AfterChallenge, b)
  BY DEF ChallengeAnswered
<1>2. old.session \in 1..sessions
  <2>1. old.session \in 0..sessions /\ old.session # 0
    BY RequestHas DEF ChallengeAnswered, OpenFine, Challenged
  <2>2. QED
    BY <2>1, SiteTyped
<1>3. open' \in SUBSET ((1..sessions') \ pending')
  <2>1. CASE b = old
    BY <1>1, <1>2, <2>1 DEF OpenFine
  <2>2. CASE b # old
    <3>1. b.session = sessions + 1 /\ sessions' = sessions + 1
      BY <1>1, <2>2 DEF NewBundles
    <3>2. QED
      BY <1>1, <3>1, SiteTyped DEF OpenFine
  <2>3. QED
    BY <2>1, <2>2
<1>4. AfterChallenge \in {"identity", "verify"}
  BY DEF AfterChallenge
<1>5. QED
  BY <1>1, <1>3, <1>4, RequestEnds DEF OpenFine

LEMMA RequestOpen ==
  ASSUME SInv, OpenFine, NEW r \in Requests, RequestNext(r) PROVE OpenFine'
<1>1. CASE LoginAccepted(r) \/ ChallengeAnswered(r)
  BY <1>1, AcceptedOpen, ChallengeOpen
<1>2. CASE Identified(r)
  <2>1. PICK b \in Bundles : Answered(request[r].bundle, b) /\ Goes(r, "verify", b)
    BY <1>2 DEF Identified
  <2>2. QED
    BY <2>1, RequestHas, AnsweredOpen, RequestEnds DEF OpenFine
<1>3. CASE Verified(r)
  <2>1. \E st : Verifies(r, st)
    BY <1>3 DEF Verified
  <2>2. UNCHANGED site \/ \E b \in Bundles : Answered(request[r].bundle, b)
    BY <1>3 DEF Verified
  <2>3. open' \in SUBSET ((1..sessions') \ pending')
    BY <2>2, RequestHas, AnsweredOpen DEF OpenFine, site
  <2>4. QED
    BY <2>1, <2>3, RequestEnds DEF OpenFine
<1>4. CASE \/ Connect(r) \/ LoginRefused(r) \/ ChallengeFailed(r) \/ CheckFailed(r)
           \/ StoreConnection(r) \/ ConnectLost(r)
  <2>1. UNCHANGED site
    BY <1>4 DEF Connect, LoginRefused, ChallengeFailed, CheckFailed, StoreConnection,
                ConnectLost
  <2>2. \/ \E f : Ends(r, f)
        \/ request' = [request EXCEPT ![r] = RequestState("login", NoBundle, "absent")]
        \/ request' = [request EXCEPT ![r] = IdleRequest]
    BY <1>4 DEF Connect, LoginRefused, ChallengeFailed, CheckFailed, StoreConnection,
                ConnectLost
  <2>3. \A o \in Requests : Challenged(request'[o])
    BY <2>2, RequestEnds, RequestMoves, StatesUnchallenged
  <2>4. QED
    BY <2>1, <2>3 DEF OpenFine, site
<1>5. QED
  BY <1>1, <1>2, <1>3, <1>4 DEF RequestNext

LEMMA OpenKeeps ==
  ASSUME SInv, OpenFine, [Next]_vars PROVE OpenFine'
<1>1. ASSUME NEW r \in Requests, RequestNext(r) PROVE OpenFine'
  BY <1>1, RequestOpen
<1>2. ASSUME NEW c \in Calls, CallNext(c) PROVE OpenFine'
  <2>1. /\ request' = request
        /\ UNCHANGED site \/ \E b \in Bundles : Answered(call[c].doc.bundle, b)
    BY <1>2 DEF CallNext, Begin, SendAnswered, SendRefused, SendFailed, Persist, Fail,
                Finish
  <2>2. open' \in SUBSET ((1..sessions') \ pending')
    BY <2>1, CallHas, AnsweredOpen DEF OpenFine, site
  <2>3. QED
    BY <2>1, <2>2 DEF OpenFine
<1>3. CASE Tick \/ SiteNext \/ UNCHANGED vars
  <2>1. UNCHANGED <<sessions, pending, request>> /\ open' \subseteq open
    BY <1>3 DEF Tick, SiteNext, ExpiryPasses, SiteEnds, vars, site
  <2>2. QED
    BY <2>1 DEF OpenFine
<1>4. QED
  BY <1>1, <1>2, <1>3 DEF Next

\* Sessions, requests, operations and the stored connection stay well formed; a
\* session is never both accepted and waiting for its challenge; the log of
\* attempts keeps within the limit, however fast the owner tries.
THEOREM TypeCorrect == Spec => []TypeOK
<1>1. SInv /\ WInv => TypeOK
  <2> SUFFICES ASSUME SInv, WInv PROVE TypeOK
    OBVIOUS
  <2>1. request \in [Requests ->
          [pc : RequestStates, bundle : Bundles, status : Statuses]]
    BY DEF SInv, Shape, RequestSet
  <2>2. conn \in [status : Statuses, version : 1..MaxVersion, bundle : Bundles]
    BY DEF SInv, Shape, Connections
  <2>3. call \in [Calls -> [pc : CallStates, bundle : Bundles, status : Statuses,
                doc : [status : Statuses, version : 1..MaxVersion,
                       bundle : Bundles],
                failure : (DOMAIN CopartHeader) \cup {"none"}]]
    BY DEF SInv, Shape, CallSet, Connections
  <2>4. QED
    BY <2>1, <2>2, <2>3
       DEF TypeOK, SInv, Shape, WInv, LogTyped, OpenFine, ConnectAnswers
<1>2. Init => SInv /\ WInv
  <2> SUFFICES ASSUME Init PROVE WInv
    BY InitHolds
  <2>1. LogTyped
    BY CopartAssumption DEF Init, LogTyped
  <2>2. OpenFine
    BY RequestFields DEF Init, OpenFine, Challenged, IdleRequest
  <2>3. QED
    BY <2>1, <2>2 DEF Init, WInv, ConnectAnswers
<1>3. SInv /\ WInv /\ [Next]_vars => SInv' /\ WInv'
  BY NextKeeps, LogKeeps, AnswerKeeps, PathsStay, OpenKeeps DEF WInv
<1>4. QED
  BY <1>1, <1>2, <1>3, PTL DEF Spec
=============================================================================
