------------------------- MODULE IaaiSessionProofs -------------------------
(***************************************************************************)
(* Proofs about IaaiSession for any number of operations, grants and       *)
(* versions, with and without the fallback browser.                        *)
(***************************************************************************)
EXTENDS IaaiSession, TLAPS

Unsent == {"idle", "login_page", "imperva_preflight", "imperva_post",
           "login_submit", "browser"}
Delivered == {"authorize_callback", "token_exchange", "store"}

\* The login form is sent by one step of the flow, and the flow reaches the
\* browser only before that step.
SubmitsFollow ==
  /\ login.pc \in Unsent => login.submits = 0
  /\ login.pc \in Delivered => login.submits = 1
  /\ login.submits <= 1
  /\ login.answer = 401 => login.submits = 1

\* Every stored login has its own grant.
GrantsSuffice == login.pc = "store" => logins < tokens

\* What a failed call was told.
CausesKnown ==
  \A c \in Calls : call[c].pc = "failed" /\ IaaiGivesUp(call[c].failure)
                   => call[c].heard # "nothing"

IInv == TypeOK /\ SubmitsFollow /\ GrantsSuffice /\ CausesKnown

LEMMA Answers ==
  \A f \in DOMAIN IaaiHeader :
    /\ IaaiConnectAnswer(f) \in {401, 502, 503}
    /\ IaaiConnectAnswer(f) = 401 => f = "credentials"
    /\ IaaiGivesUp(f) => f \in {"session_invalid", "refresh_error"}
  BY DEF IaaiConnectAnswer, ConnectAnswer, IaaiGivesUp, GivesUp, IaaiRaised,
         IaaiHeader

LEMMA FailureKinds ==
  {"waf", "credentials", "session_invalid", "refresh_error", "unavailable",
   "malformed", "configuration"} = DOMAIN IaaiHeader
  BY DEF IaaiHeader

LEMMA NoneTyped == NoBundle \in Bundles /\ NoConn \in Connections
  BY IaaiAssumption DEF NoBundle, Bundles, NoConn, Connections

LEMMA MergedTyped == \A jar, set \in Jars : Merged(jar, set) \in Jars
  BY DEF Merged, Jars

\* How a login moves on.
LEMMA LoginTyped ==
  ASSUME NEW pc \in LoginRequests \cup {"idle", "browser", "store", "failed"},
         NEW n \in 0..2, NEW b \in Bundles, NEW a \in {0, 401, 502, 503}
  PROVE  /\ LoginState(pc, n, b, a) \in Logins
         /\ LoginState(pc, n, b, a).pc = pc
         /\ LoginState(pc, n, b, a).submits = n
         /\ LoginState(pc, n, b, a).answer = a
         /\ LoginState(pc, n, b, a).bundle = b
  BY DEF LoginState, Logins

LEMMA WorkingTyped ==
  ASSUME NEW pc \in {"idle", "ready", "refresh", "send", "persist"},
         NEW d \in Connections, NEW b \in Bundles, NEW t \in BOOLEAN,
         NEW j \in Jars,
         NEW h \in {"nothing", "refused", "unreadable", "unusable"}
  PROVE  /\ Working(pc, d, b, t, j, h) \in CallStates
         /\ Working(pc, d, b, t, j, h).pc = pc
  BY DEF Working, CallStates

LEMMA UntriedTyped ==
  ASSUME NEW pc \in {"idle", "ready", "refresh", "send", "persist"},
         NEW d \in Connections, NEW b \in Bundles
  PROVE  /\ Untried(pc, d, b) \in CallStates
         /\ Untried(pc, d, b).pc = pc
  BY DEF Untried, Working, CallStates, Jars

----------------------------------------------------------------------------
(* Logging in.                                                             *)

LEMMA SentOnce ==
  IInv => /\ Sent(login) \in {0, 1}
          /\ login.pc \in Unsent \ {"login_submit"} => Sent(login) = 0
          /\ login.pc \in Delivered \cup {"login_submit"} => Sent(login) = 1
  BY DEF IInv, TypeOK, SubmitsFollow, Sent, Unsent, Delivered, Logins

\* A step that touches the login alone.
LEMMA LoginOnly ==
  ASSUME IInv, UNCHANGED <<site, logins, conn, call>>, login' \in Logins,
         SubmitsFollow', login'.pc # "store"
  PROVE  IInv'
  BY DEF IInv, TypeOK, GrantsSuffice, CausesKnown, site

LEMMA AtKeeps ==
  ASSUME IInv, UNCHANGED <<site, logins, conn, call>>,
         NEW pc \in (Unsent \cup Delivered) \ {"store"}, LoginAt(pc),
         pc \in Unsent <=> Sent(login) = 0
  PROVE  IInv'
<1>1. /\ login' \in Logins
      /\ login'.pc = pc
      /\ login'.submits = Sent(login)
      /\ login'.answer = 0
  BY SentOnce, NoneTyped, LoginTyped
     DEF LoginAt, Unsent, Delivered, LoginRequests
<1>2. SubmitsFollow'
  BY <1>1, SentOnce DEF SubmitsFollow, Unsent, Delivered
<1>3. QED
  BY <1>1, <1>2, LoginOnly

LEMMA FailsKeeps ==
  ASSUME IInv, UNCHANGED <<site, logins, conn, call>>,
         NEW f \in DOMAIN IaaiHeader, LoginFails(f),
         f = "credentials" => Sent(login) = 1
  PROVE  IInv'
<1>1. /\ login' \in Logins
      /\ login'.pc = "failed"
      /\ login'.submits = Sent(login)
      /\ login'.answer = IaaiConnectAnswer(f)
  <2>1. Sent(login) \in 0..2
    BY SentOnce
  <2>2. IaaiConnectAnswer(f) \in {0, 401, 502, 503}
    BY Answers
  <2>3. QED
    BY <2>1, <2>2, NoneTyped, LoginTyped DEF LoginFails
<1>2. SubmitsFollow'
  BY <1>1, SentOnce, Answers DEF SubmitsFollow, Unsent, Delivered
<1>3. QED
  BY <1>1, <1>2, LoginOnly

\* The browser is tried only before the form was sent.
LEMMA BlockedKeeps ==
  ASSUME IInv, UNCHANGED <<site, logins, conn, call>>, NEW hint, Blocked(hint)
  PROVE  IInv'
<1>1. CASE Fallback(login.pc, hint)
  <2>1. login.pc \in Unsent \ {"login_submit"}
    BY <1>1 DEF Fallback, Unsent
  <2>2. LoginAt("browser") /\ Sent(login) = 0
    BY <1>1, <2>1, SentOnce DEF Blocked
  <2>3. QED
    BY <2>2, AtKeeps DEF Unsent, Delivered
<1>2. CASE ~Fallback(login.pc, hint)
  BY <1>2, FailsKeeps, FailureKinds DEF Blocked
<1>3. QED
  BY <1>1, <1>2

LEMMA LoginKeeps == IInv /\ LoginNext => IInv'
<1> SUFFICES ASSUME IInv, LoginNext PROVE IInv'
  OBVIOUS
<1>1. CASE Connect
  <2>1. Sent(login) = 0
    BY <1>1, SentOnce DEF Connect, Unsent
  <2>2. QED
    BY <1>1, <2>1, AtKeeps DEF Connect, Unsent, Delivered
<1>2. CASE LoginPage
  <2>1. Sent(login) = 0
    BY <1>2, SentOnce DEF LoginPage, Unsent
  <2>2. QED
    BY <1>2, <2>1, AtKeeps DEF LoginPage, Unsent, Delivered
<1>3. CASE StepFailed
  <2>1. CASE LoginFails("unavailable")
    BY <1>3, <2>1, FailsKeeps, FailureKinds DEF StepFailed
  <2>2. CASE Blocked("imperva_or_waf")
    BY <1>3, <2>2, BlockedKeeps DEF StepFailed
  <2>3. CASE login.pc = "login_page" /\ LoginFails("configuration")
    BY <1>3, <2>3, FailsKeeps, FailureKinds DEF StepFailed
  <2>4. QED
    BY <1>3, <2>1, <2>2, <2>3 DEF StepFailed
<1>4. CASE Preflight
  <2>1. Sent(login) = 0
    BY <1>4, SentOnce DEF Preflight, Unsent
  <2>2. CASE \E hint : Blocked(hint)
    BY <1>4, <2>2, BlockedKeeps DEF Preflight
  <2>3. CASE LoginAt("imperva_post")
    BY <1>4, <2>1, <2>3, AtKeeps DEF Preflight, Unsent, Delivered
  <2>4. QED
    BY <1>4, <2>2, <2>3 DEF Preflight
<1>5. CASE PreflightPosted
  <2>1. Sent(login) = 0
    BY <1>5, SentOnce DEF PreflightPosted, Unsent
  <2>2. CASE Blocked("missing_imperva_post_state")
    BY <1>5, <2>2, BlockedKeeps DEF PreflightPosted
  <2>3. CASE LoginFails("configuration")
    BY <1>5, <2>3, FailsKeeps, FailureKinds DEF PreflightPosted
  <2>4. CASE LoginAt("login_submit")
    BY <1>5, <2>1, <2>4, AtKeeps DEF PreflightPosted, Unsent, Delivered
  <2>5. QED
    BY <1>5, <2>2, <2>3, <2>4 DEF PreflightPosted
<1>6. CASE LoginSubmitted \/ CallbackFollowed
  <2>1. /\ UNCHANGED <<site, logins, conn, call>>
        /\ Sent(login) = 1
        /\ \/ LoginAt("token_exchange") \/ LoginAt("authorize_callback")
           \/ LoginFails("credentials")
    BY <1>6, SentOnce DEF LoginSubmitted, CallbackFollowed, Delivered
  <2>2. CASE LoginFails("credentials")
    BY <2>1, <2>2, FailsKeeps, FailureKinds
  <2>3. CASE LoginAt("token_exchange")
    BY <2>1, <2>3, AtKeeps DEF Unsent, Delivered
  <2>4. CASE LoginAt("authorize_callback")
    BY <2>1, <2>4, AtKeeps DEF Unsent, Delivered
  <2>5. QED
    BY <2>1, <2>2, <2>3, <2>4
<1>7. CASE BrowserLogin
  <2>1. login.submits = 0
    BY <1>7 DEF BrowserLogin, IInv, SubmitsFollow, Unsent
  <2>2. CASE login' = LoginState("token_exchange", login.submits + 1,
                                 NoBundle, 0)
    <3>1. /\ login' \in Logins
          /\ login'.pc = "token_exchange"
          /\ login'.submits = 1
          /\ login'.answer = 0
      BY <2>1, <2>2, NoneTyped, LoginTyped DEF LoginRequests
    <3>2. SubmitsFollow'
      BY <3>1 DEF SubmitsFollow, Unsent, Delivered
    <3>3. QED
      BY <1>7, <3>1, <3>2, LoginOnly DEF BrowserLogin
  <2>3. ASSUME NEW sent \in {0, 1}, NEW f \in {"waf", "configuration"},
               login' = LoginState("failed", login.submits + sent, NoBundle,
                                   IaaiConnectAnswer(f))
        PROVE  IInv'
    <3>1. IaaiConnectAnswer(f) \in {401, 502, 503} \ {401}
      BY Answers, FailureKinds
    <3>2. /\ login' \in Logins
          /\ login'.pc = "failed"
          /\ login'.submits = sent
          /\ login'.answer # 401
      BY <2>1, <2>3, <3>1, NoneTyped, LoginTyped
    <3>3. SubmitsFollow'
      BY <3>2 DEF SubmitsFollow, Unsent, Delivered
    <3>4. QED
      BY <1>7, <3>2, <3>3, LoginOnly DEF BrowserLogin
  <2>4. QED
    BY <1>7, <2>2, <2>3 DEF BrowserLogin
<1>8. CASE TokensGranted
  <2>1. PICK replaced \in BOOLEAN, imperva \in BOOLEAN :
          /\ Grant(0, replaced)
          /\ login' = LoginState("store", login.submits,
                         [access |-> tokens + 1,
                          refresh |-> IF replaced THEN tokens + 1 ELSE 0,
                          imperva |-> imperva], 0)
    BY <1>8 DEF TokensGranted
  <2> DEFINE b == [access |-> tokens + 1,
                   refresh |-> IF replaced THEN tokens + 1 ELSE 0,
                   imperva |-> imperva]
  <2>2. /\ tokens' = tokens + 1 /\ tokens' \in 0..MaxTokens
        /\ refresh' \in SUBSET (1..tokens') /\ due' \in SUBSET (1..tokens')
        /\ logins' \in 0..tokens' /\ logins' < tokens'
    BY <1>8, <2>1, IaaiAssumption DEF TokensGranted, Grant, IInv, TypeOK
  <2>3. b \in Bundles
    BY <2>2, IaaiAssumption DEF Bundles, IInv, TypeOK
  <2>4. login.submits = 1
    BY <1>8 DEF TokensGranted, IInv, SubmitsFollow, Delivered
  <2>5. /\ login' \in Logins
        /\ login'.pc = "store"
        /\ login'.submits = 1
        /\ login'.answer = 0
    <3> HIDE DEF b
    <3>1. login' = LoginState("store", 1, b, 0)
      BY <2>1, <2>4 DEF b
    <3>2. QED
      BY <2>3, <3>1 DEF LoginState, Logins
  <2>6. SubmitsFollow'
    BY <2>5 DEF SubmitsFollow, Unsent, Delivered
  <2>7. QED
    BY <1>8, <2>2, <2>5, <2>6
       DEF TokensGranted, IInv, TypeOK, GrantsSuffice, CausesKnown
<1>9. CASE TokensRefused
  <2>1. PICK f \in {"credentials", "configuration", "malformed"} :
          LoginFails(f)
    BY <1>9 DEF TokensRefused
  <2>2. Sent(login) = 1
    BY <1>9, SentOnce DEF TokensRefused, Delivered
  <2>3. QED
    BY <1>9, <2>1, <2>2, FailsKeeps, FailureKinds DEF TokensRefused
<1>10. IdleLogin \in Logins /\ (login' = IdleLogin => SubmitsFollow')
  <2>1. /\ IdleLogin \in Logins /\ IdleLogin.pc = "idle"
        /\ IdleLogin.submits = 0 /\ IdleLogin.answer = 0
    BY NoneTyped, LoginTyped DEF IdleLogin
  <2>2. QED
    BY <2>1 DEF SubmitsFollow, Unsent, Delivered
<1>11. IdleLogin.pc = "idle"
  BY DEF IdleLogin, LoginState
<1>12. CASE StoreConnection
  <2>1. logins' \in 0..tokens'
    BY <1>12 DEF StoreConnection, IInv, TypeOK, GrantsSuffice, site
  <2>2. conn' \in Connections
    BY <1>12, IaaiAssumption
       DEF StoreConnection, IInv, TypeOK, Connections, Logins
  <2>3. QED
    BY <1>10, <1>11, <1>12, <2>1, <2>2
       DEF StoreConnection, IInv, TypeOK, GrantsSuffice, CausesKnown, site
<1>13. CASE ConnectRefused
  BY <1>10, <1>11, <1>13, LoginOnly DEF ConnectRefused
<1>14. QED
  BY <1>1, <1>2, <1>3, <1>4, <1>5, <1>6, <1>7, <1>8, <1>9, <1>12, <1>13
     DEF LoginNext

----------------------------------------------------------------------------
(* Live operations.                                                        *)

LEMMA CallMoves ==
  ASSUME IInv, NEW c \in Calls, NEW r \in CallStates,
         call' = [call EXCEPT ![c] = r],
         r.pc = "failed" /\ IaaiGivesUp(r.failure) => r.heard # "nothing"
  PROVE  call' \in [Calls -> CallStates] /\ CausesKnown'
  BY DEF IInv, TypeOK, CausesKnown

LEMMA CallOnly ==
  ASSUME IInv, UNCHANGED <<site, login, logins, conn>>,
         call' \in [Calls -> CallStates], CausesKnown'
  PROVE  IInv'
  BY DEF IInv, TypeOK, SubmitsFollow, GrantsSuffice, site

LEMMA FailsTyped ==
  ASSUME IInv, NEW c \in Calls, NEW f \in DOMAIN IaaiHeader,
         NEW h \in {"nothing", "refused", "unreadable", "unusable"},
         Fails(c, f, h), IaaiGivesUp(f) => h # "nothing"
  PROVE  call' \in [Calls -> CallStates] /\ CausesKnown'
<1> DEFINE r == [pc |-> "failed", doc |-> NoConn, bundle |-> NoBundle,
                 retried |-> FALSE, jar |-> "empty", heard |-> h,
                 failure |-> f]
<1>1. r \in CallStates
  BY NoneTyped DEF CallStates, Jars
<1>2. r.heard = h /\ r.failure = f
  OBVIOUS
<1>3. call' = [call EXCEPT ![c] = r]
  BY DEF Fails
<1> HIDE DEF r
<1>4. QED
  BY <1>1, <1>2, <1>3, CallMoves

LEMMA UntriedMoves ==
  ASSUME IInv, NEW c \in Calls,
         NEW pc \in {"idle", "ready", "refresh", "send", "persist"},
         NEW d \in Connections, NEW b \in Bundles,
         call' = [call EXCEPT ![c] = Untried(pc, d, b)]
  PROVE  call' \in [Calls -> CallStates] /\ CausesKnown'
  BY UntriedTyped, CallMoves

LEMMA GrantTyped ==
  ASSUME IInv, NEW spent, NEW replaced \in BOOLEAN, Grant(spent, replaced)
  PROVE  /\ tokens' \in 0..MaxTokens
         /\ tokens' = tokens + 1
         /\ refresh' \in SUBSET (1..tokens')
         /\ due' \in SUBSET (1..tokens')
<1>1. /\ tokens \in Nat /\ refresh \in SUBSET (1..tokens)
      /\ due \in SUBSET (1..tokens)
  BY DEF IInv, TypeOK
<1>2. tokens < MaxTokens /\ tokens' = tokens + 1 /\ due' = due
  BY DEF Grant
<1>3. 1..tokens \subseteq 1..tokens' /\ tokens + 1 \in 1..tokens'
  BY <1>1, <1>2
<1>4. refresh' \subseteq refresh \cup {tokens + 1}
  BY DEF Grant
<1>5. tokens' \in 0..MaxTokens
  BY <1>1, <1>2, IaaiAssumption
<1>6. QED
  BY <1>1, <1>2, <1>3, <1>4, <1>5

\* A step that takes tokens from the site and touches a call.
LEMMA GrantKeeps ==
  ASSUME IInv, NEW spent, NEW replaced \in BOOLEAN, Grant(spent, replaced),
         UNCHANGED <<login, logins, conn>>,
         call' \in [Calls -> CallStates], CausesKnown'
  PROVE  IInv'
  BY GrantTyped, IaaiAssumption DEF IInv, TypeOK, SubmitsFollow, GrantsSuffice

LEMMA CallFields ==
  ASSUME IInv, NEW c \in Calls
  PROVE  /\ call[c].doc \in Connections
         /\ call[c].doc.bundle \in Bundles
         /\ call[c].bundle \in Bundles
         /\ call[c].retried \in BOOLEAN
         /\ call[c].jar \in Jars
         /\ call[c].heard \in {"nothing", "refused", "unreadable", "unusable"}
  BY DEF IInv, TypeOK, CallStates, Connections

LEMMA RenewedTyped ==
  ASSUME tokens \in Nat, tokens < MaxTokens, NEW b \in Bundles,
         NEW replaced \in BOOLEAN, NEW jar \in Jars
  PROVE  Renewed(b, replaced, jar) \in Bundles
<1> DEFINE spare == IF replaced THEN tokens + 1 ELSE b.refresh
           cookie == IF jar = "empty" THEN b.imperva ELSE jar = "imperva"
<1>1. tokens + 1 \in 0..MaxTokens /\ spare \in 0..MaxTokens
  BY IaaiAssumption DEF Bundles
<1>2. b.imperva \in BOOLEAN
  BY DEF Bundles
<1>3. cookie \in BOOLEAN
  BY <1>2, Zenon
<1>4. Renewed(b, replaced, jar) =
        [access |-> tokens + 1, refresh |-> spare, imperva |-> cookie]
  BY DEF Renewed
<1> HIDE DEF spare, cookie
<1>5. QED
  BY <1>1, <1>3, <1>4 DEF Bundles

LEMMA RefreshKeeps ==
  ASSUME IInv, NEW c \in Calls,
         \/ RefreshGranted(c) \/ RefreshRefused(c)
         \/ RefreshUnreadable(c) \/ RefreshOutage(c)
  PROVE  IInv'
<1>1. CASE RefreshGranted(c)
  <2>1. PICK replaced \in BOOLEAN, set \in Jars :
          LET jar == Merged(call[c].jar, set)
          IN /\ Grant(call[c].bundle.refresh, replaced)
             /\ call' = [call EXCEPT ![c] =
                  Working("send", call[c].doc,
                          Renewed(call[c].bundle, replaced, jar),
                          call[c].retried, jar, "nothing")]
    BY <1>1 DEF RefreshGranted
  <2> DEFINE jar == Merged(call[c].jar, set)
             b == Renewed(call[c].bundle, replaced, jar)
             r == Working("send", call[c].doc, b, call[c].retried, jar, "nothing")
  <2>2. jar \in Jars
    BY CallFields, MergedTyped
  <2>3. b \in Bundles
    <3> HIDE DEF jar
    <3>1. tokens \in Nat /\ tokens < MaxTokens
      BY <2>1 DEF Grant, IInv, TypeOK
    <3>2. QED
      BY <2>2, <3>1, CallFields, RenewedTyped
  <2>4. r \in CallStates /\ r.pc = "send"
    <3> HIDE DEF jar, b
    <3>1. QED
      BY <2>2, <2>3, CallFields, WorkingTyped
  <2>5. call' = [call EXCEPT ![c] = r]
    BY <2>1
  <2>6. call' \in [Calls -> CallStates] /\ CausesKnown'
    <3> HIDE DEF r
    <3>1. QED
      BY <2>4, <2>5, CallMoves
  <2>7. QED
    BY <1>1, <2>1, <2>6, GrantKeeps DEF RefreshGranted
<1>2. CASE RefreshRefused(c)
  <2>1. call' \in [Calls -> CallStates] /\ CausesKnown'
    BY <1>2, FailsTyped, FailureKinds DEF RefreshRefused
  <2>2. QED
    BY <1>2, <2>1, CallOnly DEF RefreshRefused
<1>3. CASE RefreshUnreadable(c)
  <2>1. call' \in [Calls -> CallStates] /\ CausesKnown'
    BY <1>3, FailsTyped, FailureKinds DEF RefreshUnreadable
  <2>2. QED
    BY <1>3, <2>1, GrantKeeps DEF RefreshUnreadable
<1>4. CASE RefreshOutage(c)
  <2>1. PICK f \in {"unavailable", "malformed"} : Fails(c, f, call[c].heard)
    BY <1>4 DEF RefreshOutage
  <2>2. f \in DOMAIN IaaiHeader /\ ~IaaiGivesUp(f)
    BY <2>1, Answers, FailureKinds
  <2>3. call' \in [Calls -> CallStates] /\ CausesKnown'
    BY <2>1, <2>2, CallFields, FailsTyped
  <2>4. CASE UNCHANGED site
    BY <1>4, <2>3, <2>4, CallOnly DEF RefreshOutage
  <2>5. CASE \E replaced \in BOOLEAN : Grant(call[c].bundle.refresh, replaced)
    BY <1>4, <2>3, <2>5, GrantKeeps DEF RefreshOutage
  <2>6. QED
    BY <1>4, <2>4, <2>5 DEF RefreshOutage
<1>5. QED
  BY <1>1, <1>2, <1>3, <1>4

LEMMA SendKeeps ==
  ASSUME IInv, NEW c \in Calls,
         SendAnswered(c) \/ SendRefused(c) \/ SendFailed(c)
  PROVE  IInv'
<1>1. CASE SendAnswered(c)
  <2>1. call' \in [Calls -> CallStates] /\ CausesKnown'
    BY <1>1, CallFields, UntriedMoves DEF SendAnswered
  <2>2. QED
    BY <1>1, <2>1, CallOnly DEF SendAnswered
<1>2. CASE SendRefused(c) /\ Renews(call[c])
  <2>1. PICK set \in Jars :
          call' = [call EXCEPT ![c] =
            Working("refresh", call[c].doc, call[c].bundle, TRUE,
                    Merged(call[c].jar, set), "refused")]
    BY <1>2 DEF SendRefused
  <2> DEFINE jar == Merged(call[c].jar, set)
             r == Working("refresh", call[c].doc, call[c].bundle, TRUE, jar,
                          "refused")
  <2>2. jar \in Jars
    BY CallFields, MergedTyped
  <2>3. r \in CallStates /\ r.pc = "refresh"
    <3> HIDE DEF jar
    <3>1. /\ call[c].doc \in Connections /\ call[c].bundle \in Bundles
      BY CallFields
    <3>2. QED
      BY <2>2, <3>1 DEF Working, CallStates
  <2>4. call' \in [Calls -> CallStates] /\ CausesKnown'
    <3>1. call' = [call EXCEPT ![c] = r]
      BY <2>1
    <3> HIDE DEF r
    <3>2. QED
      BY <2>3, <3>1, CallMoves
  <2>5. QED
    BY <1>2, <2>4, CallOnly DEF SendRefused
<1>3. CASE SendRefused(c) /\ ~Renews(call[c])
  <2>1. call' \in [Calls -> CallStates] /\ CausesKnown'
    BY <1>3, FailsTyped, FailureKinds DEF SendRefused
  <2>2. QED
    BY <1>3, <2>1, CallOnly DEF SendRefused
<1>4. CASE SendFailed(c)
  <2>1. PICK f \in {"unavailable", "malformed"} : Fails(c, f, call[c].heard)
    BY <1>4 DEF SendFailed
  <2>2. f \in DOMAIN IaaiHeader /\ ~IaaiGivesUp(f)
    BY <2>1, Answers, FailureKinds
  <2>3. call' \in [Calls -> CallStates] /\ CausesKnown'
    BY <2>1, <2>2, CallFields, FailsTyped
  <2>4. QED
    BY <1>4, <2>3, CallOnly DEF SendFailed
<1>5. QED
  BY <1>1, <1>2, <1>3, <1>4

LEMMA ExecuteKeeps == ASSUME IInv, NEW c \in Calls, Execute(c) PROVE IInv'
<1>1. \/ Calling(c, "send") \/ Calling(c, "refresh")
      \/ Fails(c, "session_invalid", "unusable")
  BY DEF Execute
<1>2. call' \in [Calls -> CallStates] /\ CausesKnown'
  <2>1. CASE Calling(c, "send") \/ Calling(c, "refresh")
    BY <2>1, CallFields, UntriedMoves DEF Calling
  <2>2. CASE Fails(c, "session_invalid", "unusable")
    BY <2>2, FailsTyped, FailureKinds
  <2>3. QED
    BY <1>1, <2>1, <2>2
<1>3. QED
  BY <1>2, CallOnly DEF Execute

LEMMA EndsKeep ==
  ASSUME IInv, NEW c \in Calls,
         Begin(c) \/ AnswerLost(c) \/ Persist(c) \/ Fail(c) \/ Finish(c)
  PROVE  IInv'
<1>1. conn' \in Connections
  BY CallFields, IaaiAssumption
     DEF Begin, AnswerLost, Persist, Fail, Finish, IInv, TypeOK, Connections
<1>2. call' \in [Calls -> CallStates] /\ CausesKnown'
  <2>1. conn \in Connections
    BY DEF IInv, TypeOK
  <2>2. CASE Begin(c)
    BY <2>1, <2>2, NoneTyped, UntriedMoves DEF Begin
  <2>3. CASE Persist(c)
    BY <2>3, NoneTyped, CallFields, UntriedMoves DEF Persist
  <2>4. CASE AnswerLost(c) \/ Fail(c) \/ Finish(c)
    BY <2>4, NoneTyped, UntriedMoves DEF AnswerLost, Fail, Finish, IdleCall
  <2>5. QED
    BY <2>2, <2>3, <2>4
<1>3. UNCHANGED <<site, login, logins>>
  BY DEF Begin, AnswerLost, Persist, Fail, Finish
<1>4. QED
  BY <1>1, <1>2, <1>3 DEF IInv, TypeOK, SubmitsFollow, GrantsSuffice, site

LEMMA SiteKeeps == IInv /\ SiteNext => IInv'
  BY DEF SiteNext, ComesDue, EndRefresh, IInv, TypeOK, SubmitsFollow,
         GrantsSuffice, CausesKnown

LEMMA StutterKeeps == IInv /\ UNCHANGED vars => IInv'
  BY DEF vars, site, IInv, TypeOK, SubmitsFollow, GrantsSuffice, CausesKnown

LEMMA InitHolds == Init => IInv
<1> SUFFICES ASSUME Init PROVE IInv
  OBVIOUS
<1>1. /\ IdleLogin \in Logins /\ IdleLogin.pc = "idle"
      /\ IdleLogin.submits = 0 /\ IdleLogin.answer = 0
  <2>1. 0 \in 0..2 /\ 0 \in {0, 401, 502, 503}
    OBVIOUS
  <2>2. "idle" \in LoginRequests \cup {"idle", "browser", "store", "failed"}
    OBVIOUS
  <2>3. QED
    BY <2>1, <2>2, NoneTyped DEF IdleLogin, LoginState, Logins
<1>2. IdleCall \in CallStates /\ IdleCall.pc = "idle"
  BY NoneTyped, UntriedTyped DEF IdleCall
<1>3. TypeOK
  BY <1>1, <1>2, NoneTyped, IaaiAssumption DEF Init, TypeOK
<1>4. SubmitsFollow /\ GrantsSuffice /\ CausesKnown
  BY <1>1, <1>2
     DEF Init, SubmitsFollow, GrantsSuffice, CausesKnown, Unsent, Delivered
<1>5. QED
  BY <1>3, <1>4 DEF IInv

LEMMA NextKeeps == IInv /\ [Next]_vars => IInv'
<1> SUFFICES ASSUME IInv, [Next]_vars PROVE IInv'
  OBVIOUS
<1>1. CASE LoginNext
  BY <1>1, LoginKeeps
<1>2. ASSUME NEW c \in Calls, CallNext(c) PROVE IInv'
  BY <1>2, ExecuteKeeps, RefreshKeeps, SendKeeps, EndsKeep DEF CallNext
<1>3. CASE SiteNext
  BY <1>3, SiteKeeps
<1>4. CASE UNCHANGED vars
  BY <1>4, StutterKeeps
<1>5. QED
  BY <1>1, <1>2, <1>3, <1>4 DEF Next

LEMMA Invariant == Spec => []IInv
  BY InitHolds, NextKeeps, PTL DEF Spec

\* Connect requests, calls and the stored connection stay well formed, and no
\* more logins are stored than the site has granted.
THEOREM TypeCorrect == Spec => []TypeOK
<1>1. IInv => TypeOK
  BY DEF IInv
<1>2. QED
  BY <1>1, Invariant, PTL

\* However the flow ends, by hand or in the browser, the password was sent at
\* most once, and wrong credentials are reported only after it was sent.
THEOREM PasswordOnce == Spec => []PasswordSentOnce
<1>1. IInv => PasswordSentOnce
  BY DEF IInv, SubmitsFollow, PasswordSentOnce
<1>2. QED
  BY <1>1, Invariant, PTL

\* A usable connection comes to need another login in one step only, the
\* handling of an exception by an operation that heard a reason for it.
THEOREM CauseHeard == Spec => GivenUpForCause
<1> DEFINE Gone == conn.status = "usable"
                   /\ conn'.status = "reconnect_required"
           Heard == \E c \in Calls :
                      call[c].pc = "failed" /\ call[c].heard # "nothing"
<1>1. ASSUME IInv, [Next]_vars, Gone PROVE Heard
  <2>1. conn' # conn /\ conn'.status # "usable"
    BY <1>1
  <2>2. CASE LoginNext
    <3>1. conn' = conn \/ conn'.status = "usable"
      BY <2>2 DEF LoginNext, Connect, LoginPage, StepFailed, Preflight,
                  PreflightPosted, LoginSubmitted, CallbackFollowed,
                  BrowserLogin, TokensGranted, TokensRefused, StoreConnection,
                  ConnectRefused
    <3>2. QED
      BY <2>1, <3>1
  <2>3. ASSUME NEW c \in Calls, CallNext(c) PROVE Heard
    <3>1. CASE Fail(c)
      <4>1. call[c].pc = "failed" /\ IaaiGivesUp(call[c].failure)
        BY <2>1, <3>1 DEF Fail
      <4>2. QED
        BY <1>1, <4>1 DEF IInv, CausesKnown
    <3>2. CASE Persist(c)
      BY <2>1, <3>2 DEF Persist
    <3>3. CASE UNCHANGED conn
      BY <2>1, <3>3
    <3>4. QED
      BY <2>3, <3>1, <3>2, <3>3
         DEF CallNext, Begin, Execute, RefreshGranted, RefreshRefused,
             RefreshUnreadable, RefreshOutage, SendAnswered, SendRefused,
             SendFailed, AnswerLost, Finish
  <2>4. CASE SiteNext \/ UNCHANGED vars
    BY <2>1, <2>4 DEF SiteNext, ComesDue, EndRefresh, vars
  <2>5. QED
    BY <1>1, <2>2, <2>3, <2>4 DEF Next
<1>2. IInv /\ [Next]_vars => [Gone => Heard]_vars
  BY <1>1
<1>3. QED
  BY <1>2, Invariant, PTL DEF Spec, GivenUpForCause

----------------------------------------------------------------------------
(* The tokens of the stored connection never go back.                      *)

Live == {"ready", "refresh", "send", "persist"}

Issued(b, t) == b.access <= t /\ b.refresh <= t

Newer(b, old) == b.access >= old.access /\ b.refresh >= old.refresh

\* A call that is under way began with the connection k or with an older
\* version of it, and holds tokens as new as those it began with.
Ages(r, t, n, k) ==
  /\ Issued(r.doc.bundle, t) /\ Issued(r.bundle, t)
  /\ r.pc \in {"refresh", "send", "persist"} => Newer(r.bundle, r.doc.bundle)
  /\ n = 0 => r.pc = "idle"
  /\ n = 1 /\ r.pc \in Live =>
       /\ r.doc.version <= k.version
       /\ r.doc.version = k.version => r.doc.bundle = k.bundle

Ageing ==
  /\ Issued(login.bundle, tokens) /\ Issued(conn.bundle, tokens)
  /\ logins = 0 => conn.status = "absent"
  /\ \A c \in Calls : Ages(call[c], tokens, logins, conn)

LEMMA NothingIssued == \A t \in Nat : Issued(NoBundle, t)
  BY DEF Issued, NoBundle

LEMMA LaterIssued ==
  \A b \in Bundles, t, u \in Nat : t <= u /\ Issued(b, t) => Issued(b, u)
  BY IaaiAssumption DEF Issued, Bundles

LEMMA Counts == IInv => tokens \in Nat /\ logins \in Nat
  BY IaaiAssumption DEF IInv, TypeOK

\* A step of one call that leaves the stored connection alone.
LEMMA CallAges ==
  ASSUME IInv, Ageing, NEW c \in Calls, NEW r,
         call' = [call EXCEPT ![c] = r],
         UNCHANGED <<login, logins, conn>>, tokens' \in Nat, tokens <= tokens',
         Ages(r, tokens', logins, conn)
  PROVE  Ageing'
<1>1. Issued(login.bundle, tokens') /\ Issued(conn.bundle, tokens')
  BY Counts, LaterIssued DEF Ageing, IInv, TypeOK, Logins, Connections
<1>2. ASSUME NEW d \in Calls PROVE Ages(call'[d], tokens', logins, conn)
  <2>1. CASE d = c
    BY <2>1 DEF IInv, TypeOK
  <2>2. CASE d # c
    <3>1. call'[d] = call[d] /\ Ages(call[d], tokens, logins, conn)
      BY <2>2 DEF IInv, TypeOK, Ageing
    <3>2. call[d].doc.bundle \in Bundles /\ call[d].bundle \in Bundles
      BY CallFields
    <3>3. QED
      BY <3>1, <3>2, Counts, LaterIssued DEF Ages
  <2>3. QED
    BY <2>1, <2>2
<1>3. QED
  BY <1>1, <1>2 DEF Ageing

LEMMA CallAgesAlone ==
  ASSUME IInv, Ageing, NEW c \in Calls, NEW r,
         call' = [call EXCEPT ![c] = r],
         UNCHANGED <<tokens, login, logins, conn>>,
         Ages(r, tokens, logins, conn)
  PROVE  Ageing'
<1>1. tokens' \in Nat /\ tokens <= tokens'
  BY Counts
<1>2. Ages(r, tokens', logins, conn)
  OBVIOUS
<1>3. QED
  BY <1>1, <1>2, CallAges

\* A call that has failed or that is over.
LEMMA RestAges ==
  ASSUME IInv, Ageing, NEW c \in Calls, call[c].pc # "idle",
         UNCHANGED <<login, logins, conn>>, tokens' \in Nat, tokens <= tokens',
         \/ call' = [call EXCEPT ![c] = IdleCall]
         \/ \E f, h : Fails(c, f, h)
  PROVE  Ageing'
<1>1. PICK r : /\ call' = [call EXCEPT ![c] = r]
               /\ r.doc = NoConn /\ r.bundle = NoBundle
               /\ r.pc \in {"idle", "failed"}
  <2>1. CASE call' = [call EXCEPT ![c] = IdleCall]
    <3>1. /\ IdleCall.doc = NoConn /\ IdleCall.bundle = NoBundle
          /\ IdleCall.pc = "idle"
      BY DEF IdleCall, Untried, Working
    <3>2. QED
      BY <2>1, <3>1
  <2>2. ASSUME NEW f, NEW h, Fails(c, f, h)
        PROVE  \E r : /\ call' = [call EXCEPT ![c] = r]
                      /\ r.doc = NoConn /\ r.bundle = NoBundle
                      /\ r.pc \in {"idle", "failed"}
    <3> DEFINE r == [pc |-> "failed", doc |-> NoConn, bundle |-> NoBundle,
                     retried |-> FALSE, jar |-> "empty", heard |-> h,
                     failure |-> f]
    <3>1. /\ call' = [call EXCEPT ![c] = r]
          /\ r.doc = NoConn /\ r.bundle = NoBundle /\ r.pc = "failed"
      BY <2>2 DEF Fails
    <3> HIDE DEF r
    <3>2. QED
      BY <3>1
  <2>3. QED
    BY <2>1, <2>2
<1>2. NoConn.bundle = NoBundle
  BY DEF NoConn
<1>3. logins # 0
  BY DEF Ageing, Ages
<1>4. Ages(r, tokens', logins, conn)
  BY <1>1, <1>2, <1>3, NothingIssued DEF Ages, Live
<1>5. QED
  BY <1>1, <1>4, CallAges

LEMMA RefreshAges ==
  ASSUME IInv, Ageing, NEW c \in Calls,
         \/ RefreshGranted(c) \/ RefreshRefused(c)
         \/ RefreshUnreadable(c) \/ RefreshOutage(c)
  PROVE  Ageing'
<1>1. tokens' \in Nat /\ tokens <= tokens'
  BY Counts DEF RefreshGranted, RefreshRefused, RefreshUnreadable,
                RefreshOutage, Grant, site
<1>2. call[c].pc = "refresh" /\ UNCHANGED <<login, logins, conn>>
  BY DEF RefreshGranted, RefreshRefused, RefreshUnreadable, RefreshOutage
<1>3. CASE RefreshGranted(c)
  <2>1. PICK replaced \in BOOLEAN, set \in Jars :
          /\ tokens' = tokens + 1
          /\ call' = [call EXCEPT ![c] =
               Working("send", call[c].doc,
                       Renewed(call[c].bundle, replaced, Merged(call[c].jar, set)),
                       call[c].retried, Merged(call[c].jar, set), "nothing")]
    BY <1>3 DEF RefreshGranted, Grant
  <2> DEFINE jar == Merged(call[c].jar, set)
             b == Renewed(call[c].bundle, replaced, jar)
             r == Working("send", call[c].doc, b, call[c].retried, jar, "nothing")
  <2>2. /\ call[c].doc.bundle \in Bundles /\ call[c].bundle \in Bundles
        /\ Ages(call[c], tokens, logins, conn)
    BY CallFields DEF Ageing
  <2>3. b.access = tokens + 1 /\ b.refresh \in {tokens + 1, call[c].bundle.refresh}
    BY DEF Renewed
  <2>4. Issued(b, tokens') /\ Newer(b, call[c].doc.bundle)
    <3> HIDE DEF b
    <3>1. QED
      BY <1>2, <2>1, <2>2, <2>3, Counts, IaaiAssumption
         DEF Ages, Issued, Newer, Bundles
  <2>5. r.pc = "send" /\ r.doc = call[c].doc /\ r.bundle = b
    <3> HIDE DEF b
    <3>1. QED
      BY DEF Working
  <2>6. Ages(r, tokens', logins, conn)
    <3> HIDE DEF b, r
    <3>1. QED
      BY <1>1, <1>2, <2>2, <2>4, <2>5, Counts, LaterIssued DEF Ages, Live
  <2>7. call' = [call EXCEPT ![c] = r]
    BY <2>1
  <2>8. QED
    <3> HIDE DEF r
    <3>1. QED
      BY <1>1, <1>2, <2>6, <2>7, CallAges
<1>4. CASE RefreshRefused(c) \/ RefreshUnreadable(c) \/ RefreshOutage(c)
  <2>1. \E f, h : Fails(c, f, h)
    BY <1>4 DEF RefreshRefused, RefreshUnreadable, RefreshOutage
  <2>2. QED
    BY <1>1, <1>2, <2>1, RestAges
<1>5. QED
  BY <1>3, <1>4

LEMMA UntriedFields ==
  \A pc, d, b : /\ Untried(pc, d, b).pc = pc
                /\ Untried(pc, d, b).doc = d
                /\ Untried(pc, d, b).bundle = b
  BY DEF Untried, Working

LEMMA BeginAges == ASSUME IInv, Ageing, NEW c \in Calls, Begin(c) PROVE Ageing'
<1>1. Ages(Untried("ready", conn, NoBundle), tokens, logins, conn)
  <2>1. conn.status = "usable" /\ logins # 0
    BY DEF Begin, Ageing
  <2>2. Issued(conn.bundle, tokens) /\ Issued(NoBundle, tokens)
    BY Counts, NothingIssued DEF Ageing
  <2>3. conn.version <= conn.version
    BY IaaiAssumption DEF IInv, TypeOK, Connections
  <2>4. QED
    BY <2>1, <2>2, <2>3, UntriedFields DEF Ages
<1>2. QED
  <2> DEFINE r == Untried("ready", conn, NoBundle)
  <2>1. /\ call' = [call EXCEPT ![c] = r] /\ Ages(r, tokens, logins, conn)
        /\ UNCHANGED <<tokens, login, logins, conn>>
    BY <1>1 DEF Begin, site
  <2> HIDE DEF r
  <2>2. QED
    BY <2>1, CallAgesAlone

LEMMA ExecuteAges ==
  ASSUME IInv, Ageing, NEW c \in Calls, Execute(c) PROVE Ageing'
<1>1. /\ call[c].pc = "ready" /\ tokens' = tokens
      /\ UNCHANGED <<login, logins, conn>>
  BY DEF Execute, site
<1>2. ASSUME NEW pc \in {"send", "refresh"}, Calling(c, pc) PROVE Ageing'
  <2>1. /\ Ages(call[c], tokens, logins, conn)
        /\ call[c].doc.bundle \in Bundles
    BY CallFields DEF Ageing
  <2>2. Newer(call[c].doc.bundle, call[c].doc.bundle)
    BY <2>1, IaaiAssumption DEF Newer, Bundles
  <2>3. Ages(Untried(pc, call[c].doc, call[c].doc.bundle), tokens, logins, conn)
    BY <1>1, <2>1, <2>2, UntriedFields DEF Ages, Live
  <2>4. QED
    <3> DEFINE r == Untried(pc, call[c].doc, call[c].doc.bundle)
    <3>1. call' = [call EXCEPT ![c] = r] /\ Ages(r, tokens, logins, conn)
      BY <1>2, <2>3 DEF Calling
    <3> HIDE DEF r
    <3>2. QED
      BY <1>1, <3>1, CallAgesAlone
<1>3. CASE \E f, h : Fails(c, f, h)
  BY <1>1, <1>3, Counts, RestAges
<1>4. QED
  BY <1>2, <1>3 DEF Execute

LEMMA SendAges ==
  ASSUME IInv, Ageing, NEW c \in Calls,
         SendAnswered(c) \/ SendRefused(c) \/ SendFailed(c)
  PROVE  Ageing'
<1>1. /\ call[c].pc = "send" /\ tokens' = tokens
      /\ UNCHANGED <<login, logins, conn>>
  BY DEF SendAnswered, SendRefused, SendFailed, site
<1>2. CASE \E f, h : Fails(c, f, h)
  BY <1>1, <1>2, Counts, RestAges
<1>3. ASSUME NEW r, call' = [call EXCEPT ![c] = r],
             r.pc \in {"persist", "refresh"}, r.doc = call[c].doc,
             r.bundle = call[c].bundle
      PROVE  Ageing'
  <2>1. Ages(r, tokens, logins, conn)
    BY <1>1, <1>3 DEF Ageing, Ages, Live
  <2>2. QED
    BY <1>1, <1>3, <2>1, CallAgesAlone
<1>4. CASE SendAnswered(c)
  <2> DEFINE r == Untried("persist", call[c].doc, call[c].bundle)
  <2>1. /\ call' = [call EXCEPT ![c] = r] /\ r.pc = "persist"
        /\ r.doc = call[c].doc /\ r.bundle = call[c].bundle
    BY <1>4, UntriedFields DEF SendAnswered
  <2> HIDE DEF r
  <2>2. QED
    BY <1>3, <2>1
<1>5. CASE SendRefused(c) /\ Renews(call[c])
  BY <1>3, <1>5 DEF SendRefused, Working
<1>6. QED
  BY <1>2, <1>4, <1>5 DEF SendRefused, SendFailed

\* The connection changes hands here: what was read with an older version is
\* not written, and what is written follows what was read.
LEMMA PersistAges ==
  ASSUME IInv, Ageing, NEW c \in Calls, Persist(c)
  PROVE  /\ Ageing'
         /\ logins = 1 => Newer(conn'.bundle, conn.bundle)
<1> DEFINE r == Untried("ready", call[c].doc, NoBundle)
<1>1. /\ call[c].pc = "persist" /\ Ages(call[c], tokens, logins, conn)
      /\ call' = [call EXCEPT ![c] = r]
      /\ UNCHANGED <<site, login, logins>>
      /\ conn \in Connections /\ call[c] \in CallStates
  BY DEF Persist, Ageing, IInv, TypeOK
<1>2. r.pc = "ready" /\ r.doc = call[c].doc /\ r.bundle = NoBundle
  BY UntriedFields
<1>3. logins # 0
  BY <1>1 DEF Ages
<1> HIDE DEF r
<1>4. CASE Swaps(call[c].doc)
  <2>1. /\ conn'.version = conn.version + 1
        /\ conn'.bundle = call[c].bundle
        /\ conn.version = call[c].doc.version
    BY <1>4 DEF Persist, Swaps
  <2>2. conn.version \in Nat /\ \A d \in Calls : call[d].doc.version \in Nat
    BY IaaiAssumption DEF IInv, TypeOK, Connections, CallStates
  <2>3. ASSUME NEW d \in Calls PROVE Ages(call'[d], tokens', logins', conn')
    <3>1. CASE d = c
      <4>1. call'[d] = r
        BY <1>1, <3>1 DEF IInv, TypeOK
      <4>2. QED
        BY <1>1, <1>2, <1>3, <2>1, <2>2, <4>1, Counts, NothingIssued
           DEF Ages, Live, site
    <3>2. CASE d # c
      <4>1. call'[d] = call[d] /\ Ages(call[d], tokens, logins, conn)
        BY <1>1, <3>2 DEF IInv, TypeOK, Ageing
      <4>2. QED
        BY <1>1, <2>1, <2>2, <4>1 DEF Ages, Live, site
    <3>3. QED
      BY <3>1, <3>2
  <2>4. Issued(conn'.bundle, tokens')
    BY <1>1, <2>1 DEF Ages, site
  <2>5. logins = 1 => Newer(conn'.bundle, conn.bundle)
    BY <1>1, <2>1 DEF Ages, Live
  <2>6. QED
    BY <1>1, <1>3, <2>3, <2>4, <2>5 DEF Ageing, site
<1>5. CASE ~Swaps(call[c].doc)
  <2>1. conn' = conn
    BY <1>5 DEF Persist
  <2>2. Ages(r, tokens, logins, conn)
    BY <1>1, <1>2, <1>3, Counts, NothingIssued DEF Ages, Live
  <2>3. Ageing'
    BY <1>1, <2>1, <2>2, CallAgesAlone DEF site
  <2>4. Newer(conn'.bundle, conn.bundle)
    BY <1>1, <2>1, IaaiAssumption DEF Newer, Connections, Bundles
  <2>5. QED
    BY <2>3, <2>4
<1>6. QED
  BY <1>4, <1>5

LEMMA FailAges ==
  ASSUME IInv, Ageing, NEW c \in Calls, Fail(c)
  PROVE  Ageing' /\ conn'.bundle = conn.bundle
<1>1. /\ call[c].pc = "failed" /\ call' = [call EXCEPT ![c] = IdleCall]
      /\ UNCHANGED <<site, login, logins>>
      /\ conn'.version = conn.version /\ conn'.bundle = conn.bundle
  BY DEF Fail
<1>2. logins # 0
  BY <1>1 DEF Ageing, Ages
<1>3. ASSUME NEW d \in Calls PROVE Ages(call'[d], tokens', logins', conn')
  <2>1. CASE d = c
    <3>1. call'[d] = Untried("idle", NoConn, NoBundle)
      BY <1>1, <2>1 DEF IInv, TypeOK, IdleCall
    <3>2. NoConn.bundle = NoBundle
      BY DEF NoConn
    <3>3. QED
      BY <1>1, <3>1, <3>2, Counts, NothingIssued, UntriedFields
         DEF Ages, Live, site
  <2>2. CASE d # c
    <3>1. call'[d] = call[d] /\ Ages(call[d], tokens, logins, conn)
      BY <1>1, <2>2 DEF IInv, TypeOK, Ageing
    <3>2. QED
      BY <1>1, <3>1 DEF Ages, site
  <2>3. QED
    BY <2>1, <2>2
<1>4. QED
  BY <1>1, <1>2, <1>3 DEF Ageing, site

LEMMA LoginAges ==
  ASSUME IInv, Ageing, LoginNext
  PROVE  /\ Ageing'
         /\ conn' = conn \/ logins' = logins + 1
<1> USE Counts
<1>1. CASE StoreConnection
  <2>1. /\ conn'.bundle = login.bundle /\ conn'.status = "usable"
        /\ login' = IdleLogin /\ logins' = logins + 1
        /\ call' = call /\ tokens' = tokens
    BY <1>1 DEF StoreConnection, site
  <2>2. IdleLogin.bundle = NoBundle
    BY DEF IdleLogin, LoginState
  <2>3. ASSUME NEW d \in Calls PROVE Ages(call[d], tokens, logins', conn')
    <3>1. Ages(call[d], tokens, logins, conn)
      BY DEF Ageing
    <3>2. QED
      BY <2>1, <3>1 DEF Ages, Live
  <2>4. QED
    BY <2>1, <2>2, <2>3, NothingIssued DEF Ageing
<1>2. CASE TokensGranted
  <2>1. /\ login'.bundle.access = tokens + 1
        /\ login'.bundle.refresh \in {0, tokens + 1}
        /\ tokens' = tokens + 1 /\ UNCHANGED <<logins, conn, call>>
    BY <1>2 DEF TokensGranted, Grant, LoginState
  <2>2. Issued(login'.bundle, tokens') /\ Issued(conn.bundle, tokens')
    BY <2>1 DEF Ageing, Issued, IInv, TypeOK, Connections, Bundles
  <2>3. ASSUME NEW d \in Calls PROVE Ages(call[d], tokens', logins, conn)
    <3>1. /\ Ages(call[d], tokens, logins, conn)
          /\ call[d].doc.bundle \in Bundles /\ call[d].bundle \in Bundles
      BY CallFields DEF Ageing
    <3>2. QED
      BY <2>1, <3>1, LaterIssued DEF Ages
  <2>4. QED
    BY <2>1, <2>2, <2>3 DEF Ageing
<1>3. CASE login'.bundle = NoBundle /\ UNCHANGED <<site, logins, conn, call>>
  BY <1>3, NothingIssued DEF Ageing, site
<1>4. QED
  <2>1. \A pc, n, a : LoginState(pc, n, NoBundle, a).bundle = NoBundle
    BY DEF LoginState
  <2>2. QED
    BY <1>1, <1>2, <1>3, <2>1
       DEF LoginNext, Connect, LoginPage, StepFailed, Preflight,
           PreflightPosted, LoginSubmitted, CallbackFollowed, BrowserLogin,
           TokensRefused, ConnectRefused, LoginAt, LoginFails, Blocked,
           IdleLogin

LEMMA NextAges ==
  ASSUME IInv, Ageing, [Next]_vars
  PROVE  /\ Ageing'
         /\ logins = 1 /\ logins' = 1 => Newer(conn'.bundle, conn.bundle)
<1>1. Newer(conn.bundle, conn.bundle)
  BY IaaiAssumption DEF Newer, IInv, TypeOK, Connections, Bundles
<1>2. CASE LoginNext
  BY <1>1, <1>2, LoginAges
<1>3. ASSUME NEW c \in Calls, CallNext(c)
      PROVE  /\ Ageing'
             /\ logins = 1 => Newer(conn'.bundle, conn.bundle)
  <2>1. CASE Persist(c)
    BY <2>1, PersistAges
  <2>2. CASE Fail(c)
    BY <1>1, <2>2, FailAges
  <2>3. CASE AnswerLost(c) \/ Finish(c)
    <3>1. Ageing'
      BY <2>3, Counts, RestAges DEF AnswerLost, Finish, site
    <3>2. QED
      BY <1>1, <2>3, <3>1 DEF AnswerLost, Finish
  <2>4. CASE \/ RefreshGranted(c) \/ RefreshRefused(c)
             \/ RefreshUnreadable(c) \/ RefreshOutage(c)
    <3>1. conn' = conn
      BY <2>4 DEF RefreshGranted, RefreshRefused, RefreshUnreadable,
                  RefreshOutage
    <3>2. QED
      BY <1>1, <2>4, <3>1, RefreshAges
  <2>5. CASE \/ Begin(c) \/ Execute(c) \/ SendAnswered(c)
             \/ SendRefused(c) \/ SendFailed(c)
    <3>1. conn' = conn
      BY <2>5 DEF Begin, Execute, SendAnswered, SendRefused, SendFailed
    <3>2. QED
      BY <1>1, <2>5, <3>1, BeginAges, ExecuteAges, SendAges
  <2>6. QED
    BY <1>3, <2>1, <2>2, <2>3, <2>4, <2>5 DEF CallNext
<1>4. CASE SiteNext \/ UNCHANGED vars
  <2>1. UNCHANGED <<tokens, login, logins, conn, call>>
    BY <1>4 DEF SiteNext, ComesDue, EndRefresh, vars, site
  <2>2. QED
    BY <1>1, <2>1 DEF Ageing
<1>5. QED
  BY <1>2, <1>3, <1>4 DEF Next

LEMMA InitAges == Init => Ageing
<1> SUFFICES ASSUME Init PROVE Ageing
  OBVIOUS
<1>1. /\ IdleLogin.bundle = NoBundle /\ NoConn.bundle = NoBundle
      /\ NoConn.status = "absent" /\ IdleCall.pc = "idle"
      /\ IdleCall.doc = NoConn /\ IdleCall.bundle = NoBundle
  BY UntriedFields DEF IdleLogin, LoginState, NoConn, IdleCall
<1>2. QED
  BY <1>1, NothingIssued DEF Init, Ageing, Ages

\* Between two logins the stored tokens only grow newer, whatever operations
\* overlap: the swap by bundle_version writes only what follows the bundle that
\* is stored.
THEOREM TokensGrowNewer == Spec => TokensNeverGoBack
<1>1. IInv /\ Ageing /\ [Next]_vars => Ageing'
  BY NextAges
<1>2. IInv /\ Ageing /\ [Next]_vars =>
        [logins = 1 /\ logins' = 1
         => /\ conn'.bundle.refresh >= conn.bundle.refresh
            /\ conn'.bundle.access >= conn.bundle.access]_vars
  BY NextAges DEF Newer
<1>3. QED
  BY <1>1, <1>2, InitAges, Invariant, PTL DEF Spec, TokensNeverGoBack
=============================================================================
