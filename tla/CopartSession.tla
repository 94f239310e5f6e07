--------------------------- MODULE CopartSession ---------------------------
(***************************************************************************)
(* A Copart session as the gateway's client opens, checks and uses it      *)
(* (modules/copart_provider/client.py, modules/copart_gateway), the limit  *)
(* the gateway sets on logins, and the stored connection.  A connection    *)
(* works only through the gateway: the direct transport takes a raw bundle *)
(* and the backend stores an encrypted one.                                *)
(*                                                                         *)
(* One owner under one user name.  Sessions are numbered as the site opens *)
(* them; the site may replace one in any answer (Set-Cookie: SessionID),   *)
(* and may ask for a challenge before it lets a new one do anything.  A    *)
(* bundle is a session and the session whose cookie set the expiry the     *)
(* bundle carries, 0 when none did.  Device, token and other cookies,      *)
(* header profile, labels and encryption are left out; "connected" and     *)
(* "expiring" are both usable and not told apart.                          *)
(***************************************************************************)
EXTENDS Integers, Sequences, GatewayErrors

CONSTANTS
  Requests,      \* connect requests that may run at the same time
  Calls,         \* live operations that may run at the same time
  Configs,       \* sets of optional paths the gateway may be configured with
  Limit,         \* connect_rate_limit_attempts
  Window,        \* connect_rate_limit_window_seconds
  MaxSessions,   \* bound: sessions the site opens
  MaxVersion     \* bound: the largest bundle_version

ASSUME CopartAssumption ==
  /\ Configs \subseteq SUBSET {"challenge", "identity", "verify"}
  /\ Limit \in Nat \ {0}
  /\ Window \in Nat \ {0}
  /\ MaxSessions \in Nat
  /\ MaxVersion \in Nat \ {0}

VARIABLES
  paths,      \* the optional paths configured
  sessions,   \* sessions the site has opened
  pending,    \* sessions the site wants a challenge answered for
  open,       \* sessions the site accepts otherwise
  passed,     \* sessions whose cookie's expiry has passed
  attempts,   \* ages of the attempts in the window, the newest first
  answer,     \* what the last connect request was answered, 0 for not yet
  request,    \* request[r]: the connect request of r
  conn,       \* the stored connection
  call        \* call[c]: the live operation of c and the provider it uses

site == <<sessions, pending, open, passed>>
vars == <<paths, site, attempts, answer, request, conn, call>>

NoBundle == [session |-> 0, expiry |-> 0]
Bundles == [session : 0..MaxSessions, expiry : 0..MaxSessions]
NoConn == [status |-> "absent", version |-> 1, bundle |-> NoBundle]

RequestState(pc, bundle, status) ==
  [pc |-> pc, bundle |-> bundle, status |-> status]

IdleRequest == RequestState("idle", NoBundle, "absent")

CallState(pc, doc, bundle, status, failure) ==
  [pc |-> pc, doc |-> doc, bundle |-> bundle, status |-> status,
   failure |-> failure]

Ready(doc) == CallState("ready", doc, NoBundle, "absent", "none")
Failed(f) == CallState("failed", NoConn, NoBundle, "absent", f)
IdleCall == CallState("idle", NoConn, NoBundle, "absent", "none")

Init ==
  /\ paths \in Configs
  /\ sessions = 0
  /\ pending = {}
  /\ open = {}
  /\ passed = {}
  /\ attempts = << >>
  /\ answer = 0
  /\ request = [r \in Requests |-> IdleRequest]
  /\ conn = NoConn
  /\ call = [c \in Calls |-> IdleCall]

----------------------------------------------------------------------------
(* What an answer makes of a bundle.                                       *)

\* The site answers and leaves the session alone.
Kept(b, new) == new = b /\ UNCHANGED <<sessions, pending, open>>

\* A new SessionID.  One that comes without an expiry leaves the expiry of the
\* old one in the bundle (from_http_response).
NewBundles(b) ==
  IF sessions < MaxSessions
  THEN {[session |-> sessions + 1, expiry |-> e] : e \in {b.expiry, sessions + 1}}
  ELSE {}

Replaced(b, new) ==
  /\ new \in NewBundles(b)
  /\ sessions' = new.session
  /\ open' = (open \ {b.session}) \cup {new.session}
  /\ UNCHANGED pending

Answered(b, new) == (Kept(b, new) \/ Replaced(b, new)) /\ UNCHANGED passed

\* _connection_status_for_expiry
StatusFor(b) ==
  IF b.expiry \in passed THEN "reconnect_required" ELSE "usable"

----------------------------------------------------------------------------
(* Logging in.                                                             *)

\* Mutated form: an attempt that is turned away counts as one.
CountedAlways(admitted) ==
  <<0>> \o SubSeq(attempts, 1, Len(attempts) - (Len(attempts) \div Limit))

\* _enforce_connect_rate_limit raises before it notes the attempt.
Counted(admitted) == IF admitted THEN <<0>> \o attempts ELSE attempts

Ends(r, f) ==
  /\ request' = [request EXCEPT ![r] = IdleRequest]
  /\ answer' = CopartConnectAnswer(f)

Goes(r, pc, b) ==
  /\ request' = [request EXCEPT ![r] = RequestState(pc, b, "absent")]
  /\ UNCHANGED answer

Verifies(r, status) ==
  /\ request' = [request EXCEPT ![r] =
                   RequestState("store", request[r].bundle, status)]
  /\ UNCHANGED answer

\* Mutated form: one attempt too many.
WithinLimitInclusive == Len(attempts) <= Limit

\* Attempts older than the window are dropped first; here they go with time.
WithinLimit == Len(attempts) < Limit

Connect(r) ==
  /\ request[r].pc = "idle"
  /\ LET admitted == WithinLimit
     IN /\ attempts' = Counted(admitted)
        /\ \/ /\ admitted
              /\ request' = [request EXCEPT ![r] =
                               RequestState("login", NoBundle, "absent")]
              /\ answer' = 0
           \/ /\ ~admitted
              /\ Ends(r, "rate_limited")
  /\ UNCHANGED <<paths, site, conn, call>>

\* Where a login goes on once the session may be used.
AfterChallenge == IF "identity" \in paths THEN "identity" ELSE "verify"

\* Mutated form: a challenge that has no path is passed over.
ChallengeNeededWithPath(asked) == asked /\ "challenge" \in paths

\* _response_requires_challenge
ChallengeNeeded(asked) == asked

\* The site opens a session.  Without a path or a token for the challenge the
\* login ends there.
LoginAccepted(r) ==
  /\ request[r].pc = "login"
  /\ sessions < MaxSessions
  /\ sessions' = sessions + 1
  /\ UNCHANGED passed
  /\ \E asked \in BOOLEAN, expiry \in {0, sessions + 1} :
       LET b == [session |-> sessions + 1, expiry |-> expiry]
       IN /\ pending' = IF asked THEN pending \cup {b.session} ELSE pending
          /\ open' = IF asked THEN open ELSE open \cup {b.session}
          /\ \/ /\ ~ChallengeNeeded(asked)
                /\ Goes(r, AfterChallenge, b)
             \/ /\ ChallengeNeeded(asked)
                /\ "challenge" \in paths
                /\ Goes(r, "challenge", b)
             \/ /\ ChallengeNeeded(asked)
                /\ Ends(r, "challenge")
  /\ UNCHANGED <<paths, attempts, conn, call>>

\* Wrong credentials, a refused profile, no session in the answer, no answer.
LoginRefused(r) ==
  /\ request[r].pc = "login"
  /\ \E f \in {"credentials", "login_rejected", "challenge", "unavailable"} :
       Ends(r, f)
  /\ UNCHANGED <<paths, site, attempts, conn, call>>

\* The site lets the session in, or a new one in its place.
ChallengeAnswered(r) ==
  /\ request[r].pc = "challenge"
  /\ LET old == request[r].bundle
     IN \E b \in {old} \cup NewBundles(old) :
          /\ sessions' = IF b = old THEN sessions ELSE b.session
          /\ pending' = pending \ {old.session}
          /\ open' = open \cup {b.session}
          /\ Goes(r, AfterChallenge, b)
  /\ UNCHANGED <<paths, passed, attempts, conn, call>>

ChallengeFailed(r) ==
  /\ request[r].pc = "challenge"
  /\ Ends(r, "challenge") \/ Ends(r, "unavailable")
  /\ UNCHANGED <<paths, site, attempts, conn, call>>

Identified(r) ==
  /\ request[r].pc = "identity"
  /\ request[r].bundle.session \in open
  /\ \E b \in Bundles :
       /\ Answered(request[r].bundle, b)
       /\ Goes(r, "verify", b)
  /\ UNCHANGED <<paths, attempts, conn, call>>

\* verify_connector_session.  bootstrap_connector_session takes the status of
\* the verification and keeps its own bundle: a session that the site replaced
\* in this answer is not stored, the one it replaced is.
Verified(r) ==
  /\ request[r].pc = "verify"
  /\ LET old == request[r].bundle
     IN IF "verify" \in paths
        THEN /\ old.session \in open
             /\ \E b \in Bundles :
                  /\ Answered(old, b)
                  /\ Verifies(r, StatusFor(b))
        ELSE /\ Verifies(r, StatusFor(old))
             /\ UNCHANGED site
  /\ UNCHANGED <<paths, attempts, conn, call>>

\* Any error status of the identity request is an outage; the verification
\* tells a refusal apart; either answer may take the session back.
CheckFailed(r) ==
  /\ request[r].pc \in {"identity", "verify"} \cap paths
  /\ \/ Ends(r, "unavailable")
     \/ Ends(r, "challenge")
     \/ request[r].pc = "verify" /\ Ends(r, "session_invalid")
  /\ UNCHANGED <<paths, site, attempts, conn, call>>

\* upsert_connection, with the status of the verification.
StoreConnection(r) ==
  /\ request[r].pc = "store"
  /\ conn' = [status |-> request[r].status, version |-> 1,
              bundle |-> request[r].bundle]
  /\ request' = [request EXCEPT ![r] = IdleRequest]
  /\ answer' = 200
  /\ UNCHANGED <<paths, site, attempts, call>>

\* The backend gave up on the gateway before its answer.
ConnectLost(r) ==
  /\ request[r].pc # "idle"
  /\ Ends(r, "unavailable")
  /\ UNCHANGED <<paths, site, attempts, conn, call>>

RequestNext(r) ==
  \/ Connect(r) \/ LoginAccepted(r) \/ LoginRefused(r) \/ ChallengeAnswered(r)
  \/ ChallengeFailed(r) \/ Identified(r) \/ Verified(r) \/ CheckFailed(r)
  \/ StoreConnection(r) \/ ConnectLost(r)

----------------------------------------------------------------------------
(* Live operations: a search or a lot's details with the stored session.   *)

Begin(c) ==
  /\ call[c].pc = "idle"
  /\ conn.status = "usable"
  /\ call' = [call EXCEPT ![c] = Ready(conn)]
  /\ UNCHANGED <<paths, site, attempts, answer, request, conn>>

SendAnswered(c) ==
  /\ call[c].pc = "ready"
  /\ call[c].doc.bundle.session \in open
  /\ \E b \in Bundles :
       /\ Answered(call[c].doc.bundle, b)
       /\ call' = [call EXCEPT ![c] =
            CallState("persist", call[c].doc, b, StatusFor(b), "none")]
  /\ UNCHANGED <<paths, attempts, answer, request, conn>>

SendRefused(c) ==
  /\ call[c].pc = "ready"
  /\ call[c].doc.bundle.session \notin open
  /\ call' = [call EXCEPT ![c] = Failed("session_invalid")]
  /\ UNCHANGED <<paths, site, attempts, answer, request, conn>>

\* No answer or an error status, an answer that takes the session back, or one
\* with a new session and a body that is no JSON: the new session is lost.
SendFailed(c) ==
  /\ call[c].pc = "ready"
  /\ \E f \in {"unavailable", "challenge", "malformed"} :
       call' = [call EXCEPT ![c] = Failed(f)]
  /\ IF call[c].doc.bundle.session \in open
     THEN \E b \in Bundles : Answered(call[c].doc.bundle, b)
     ELSE UNCHANGED site
  /\ UNCHANGED <<paths, attempts, answer, request, conn>>

\* persist_rotated_bundle; the wrapper keeps its document for the next call.
Persist(c) ==
  /\ call[c].pc = "persist"
  /\ conn.version < MaxVersion
  /\ conn' = IF conn.version = call[c].doc.version
             THEN [status |-> call[c].status,
                   version |-> conn.version + 1, bundle |-> call[c].bundle]
             ELSE conn
  /\ call' = [call EXCEPT ![c] = Ready(call[c].doc)]
  /\ UNCHANGED <<paths, site, attempts, answer, request>>

Fail(c) ==
  /\ call[c].pc = "failed"
  /\ conn' = IF CopartGivesUp(call[c].failure)
             THEN [status |-> "reconnect_required",
                   version |-> conn.version, bundle |-> conn.bundle]
             ELSE conn
  /\ call' = [call EXCEPT ![c] = IdleCall]
  /\ UNCHANGED <<paths, site, attempts, answer, request>>

\* The operation needs no further call, or the gateway's answer is lost.
Finish(c) ==
  /\ call[c].pc # "idle"
  /\ call' = [call EXCEPT ![c] = IdleCall]
  /\ UNCHANGED <<paths, site, attempts, answer, request, conn>>

CallNext(c) ==
  \/ Begin(c) \/ SendAnswered(c) \/ SendRefused(c) \/ SendFailed(c)
  \/ Persist(c) \/ Fail(c) \/ Finish(c)

----------------------------------------------------------------------------
\* Time passes: attempts grow older and leave the window.  Those that stay are the
\* latest, for they are noted one after the other under the lock.
Tick ==
  /\ \E n \in 0..Len(attempts) :
       /\ {i \in DOMAIN attempts : attempts[i] < Window} = 1..n
       /\ attempts' = [i \in 1..n |-> attempts[i] + 1]
  /\ UNCHANGED <<paths, site, answer, request, conn, call>>

ExpiryPasses(s) ==
  /\ passed' = passed \cup {s}
  /\ UNCHANGED <<paths, sessions, pending, open, attempts, answer, request,
                 conn, call>>

SiteEnds(s) ==
  /\ open' = open \ {s}
  /\ UNCHANGED <<paths, sessions, pending, passed, attempts, answer, request,
                 conn, call>>

SiteNext ==
  \/ \E s \in 1..sessions : ExpiryPasses(s)
  \/ \E s \in open : SiteEnds(s)

Next ==
  \/ \E r \in Requests : RequestNext(r)
  \/ \E c \in Calls : CallNext(c)
  \/ Tick
  \/ SiteNext

\* An owner who is turned away tries again, and time passes.
Fairness == WF_vars(Tick) /\ \A r \in Requests : WF_vars(Connect(r))

Spec == Init /\ [][Next]_vars /\ Fairness

----------------------------------------------------------------------------
RequestStates == {"idle", "login", "challenge", "identity", "verify", "store"}
CallStates == {"idle", "ready", "persist", "failed"}
Statuses == {"absent", "usable", "reconnect_required"}

\* Every record stays well formed; a session is pending or open, not both; the
\* log of attempts never outgrows the limit.
TypeOK ==
  /\ paths \in Configs
  /\ sessions \in 0..MaxSessions
  /\ pending \in SUBSET (1..sessions)
  /\ open \in SUBSET ((1..sessions) \ pending)
  /\ passed \in SUBSET (1..sessions)
  /\ attempts \in Seq(0..Window) /\ Len(attempts) <= Limit
  /\ answer \in {0, 200, 401, 429, 502, 503}
  /\ request \in [Requests ->
       [pc : RequestStates, bundle : Bundles, status : Statuses]]
  /\ conn \in [status : Statuses, version : 1..MaxVersion, bundle : Bundles]
  /\ call \in [Calls -> [pc : CallStates, bundle : Bundles, status : Statuses,
                doc : [status : Statuses, version : 1..MaxVersion,
                       bundle : Bundles],
                failure : (DOMAIN CopartHeader) \cup {"none"}]]

\* The stored status is earned: no session is stored that the site still wants
\* a challenge answered for, whatever paths are configured; and a connection is
\* given up only when the site refused its session or the expiry it carries has
\* passed, never for an outage of the site or of the gateway.
StatusEarned ==
  [][/\ conn'.bundle # conn.bundle => conn'.bundle.session \notin pending
     /\ /\ conn.status = "usable"
        /\ conn'.status = "reconnect_required"
        => \/ \E c \in Calls :
                call[c].pc = "failed" /\ call[c].failure = "session_invalid"
           \/ conn'.bundle.expiry \in passed]_vars

\* An owner who keeps trying is not turned away by the limit for ever, however
\* often and however fast (_enforce_connect_rate_limit).
LimitLifts == answer = 429 ~> answer # 429
=============================================================================
