---------------------------- MODULE IaaiSession ----------------------------
(***************************************************************************)
(* An IAAI session as the client of the gateway builds, sends and renews   *)
(* it (modules/iaai_provider/client.py, modules/iaai_gateway), and the     *)
(* stored connection it is written back to.                                *)
(*                                                                         *)
(* IAAI is an OAuth site behind a bot filter: a login exchanges a code for *)
(* an access and maybe a refresh token, and a call whose access token is   *)
(* due or refused spends the refresh token on a new pair.  The site may    *)
(* replace the refresh token when it is used and then accepts the old one  *)
(* no more.  Tokens are numbered by the grant that issued them, 0 is none. *)
(* A bundle is the tokens and whether its cookies still hold one of the    *)
(* bot filter's; header profile, labels, dates and encryption are left     *)
(* out, as are diagnostics, the owner's disconnect and the account's end   *)
(* (ProviderConnection has them).  "connected" and "expiring" are both     *)
(* usable and not told apart.                                              *)
(***************************************************************************)
EXTENDS Integers, GatewayErrors

CONSTANTS
  Calls,           \* live operations that may run at the same time
  MaxTokens,       \* bound: grants the site makes
  MaxVersion,      \* bound: the largest bundle_version
  BrowserEnabled   \* iaai_browser_bootstrap_enabled

ASSUME IaaiAssumption ==
  /\ MaxTokens \in Nat
  /\ MaxVersion \in Nat \ {0}
  /\ BrowserEnabled \in BOOLEAN

VARIABLES
  tokens,   \* grants so far
  refresh,  \* refresh tokens the site accepts
  due,      \* access tokens within a minute of their expires_at
  login,    \* the owner's connect request
  logins,   \* connections stored by a login
  conn,     \* the stored connection, NoConn before the first
  call      \* call[c]: the live operation of c and the provider it uses

site == <<tokens, refresh, due>>
vars == <<site, login, logins, conn, call>>

NoBundle == [access |-> 0, refresh |-> 0, imperva |-> FALSE]
NoConn == [status |-> "absent", version |-> 1, bundle |-> NoBundle]

Bundles == [access : 0..MaxTokens, refresh : 0..MaxTokens, imperva : BOOLEAN]
Connections == [status : {"absent", "usable", "reconnect_required"},
                version : 1..MaxVersion, bundle : Bundles]

\* The cookies a client has been set: none, none of the bot filter's, or one.
Jars == {"empty", "other", "imperva"}

Merged(jar, set) ==
  IF "imperva" \in {jar, set} THEN "imperva"
  ELSE IF "other" \in {jar, set} THEN "other" ELSE "empty"

LoginState(pc, submits, bundle, answer) ==
  [pc |-> pc, submits |-> submits, bundle |-> bundle, answer |-> answer]

IdleLogin == LoginState("idle", 0, NoBundle, 0)

\* A call under way, and one that has not asked the site anything yet.
Working(pc, doc, bundle, retried, jar, heard) ==
  [pc |-> pc, doc |-> doc, bundle |-> bundle, retried |-> retried,
   jar |-> jar, heard |-> heard, failure |-> "none"]

Untried(pc, doc, bundle) == Working(pc, doc, bundle, FALSE, "empty", "nothing")

IdleCall == Untried("idle", NoConn, NoBundle)

Init ==
  /\ tokens = 0
  /\ refresh = {}
  /\ due = {}
  /\ login = IdleLogin
  /\ logins = 0
  /\ conn = NoConn
  /\ call = [c \in Calls |-> IdleCall]

----------------------------------------------------------------------------
(* The site.                                                               *)

\* A new access token; `spent` is the refresh token that paid for it, and it
\* is replaced when the answer carries a new one.
Grant(spent, replaced) ==
  /\ tokens < MaxTokens
  /\ tokens' = tokens + 1
  /\ refresh' = IF replaced THEN (refresh \ {spent}) \cup {tokens + 1}
                            ELSE refresh
  /\ UNCHANGED due

\* Time passes for an access token.
ComesDue(t) ==
  /\ due' = due \cup {t}
  /\ UNCHANGED <<tokens, refresh, login, logins, conn, call>>

\* The site ends a session at its own time.
EndRefresh(t) ==
  /\ refresh' = refresh \ {t}
  /\ UNCHANGED <<tokens, due, login, logins, conn, call>>

----------------------------------------------------------------------------
(* Logging in.  Every request of the flow may time out, be answered with a *)
(* server error or be answered with a page of the bot filter.              *)

\* The requests for the metadata, the authorization and the login page come to
\* one step; imperva_post is the second request of imperva_preflight.
LoginRequests == {"login_page", "imperva_preflight", "imperva_post",
                  "login_submit", "authorize_callback", "token_exchange"}

BrowserFallbackHints ==
  {"missing_reese84_cookie_after_script_get", "missing_imperva_post_state"}

\* Mutated form: whatever the bot filter refuses is tried in a browser.
FallbackOnAnyRejection(step, hint) == BrowserEnabled

\* _should_use_browser_fallback
Fallback(step, hint) ==
  /\ BrowserEnabled
  /\ step \in {"imperva_preflight", "imperva_post"}
  /\ hint \in BrowserFallbackHints

\* The password leaves with the login form.
Sent(l) == IF l.pc = "login_submit" THEN l.submits + 1 ELSE l.submits

LoginAt(pc) == login' = LoginState(pc, Sent(login), NoBundle, 0)

LoginFails(f) ==
  login' = LoginState("failed", Sent(login), NoBundle, IaaiConnectAnswer(f))

Blocked(hint) ==
  IF Fallback(login.pc, hint) THEN LoginAt("browser") ELSE LoginFails("waf")

Connect ==
  /\ login.pc = "idle"
  /\ LoginAt("login_page")
  /\ UNCHANGED <<site, logins, conn, call>>

LoginPage ==
  /\ login.pc = "login_page"
  /\ LoginAt("imperva_preflight")
  /\ UNCHANGED <<site, logins, conn, call>>

\* What the metadata say may also be unreadable.
StepFailed ==
  /\ login.pc \in LoginRequests
  /\ \/ LoginFails("unavailable")
     \/ Blocked("imperva_or_waf")
     \/ login.pc = "login_page" /\ LoginFails("configuration")
  /\ UNCHANGED <<site, logins, conn, call>>

\* The login page has no script of the bot filter, or the script gives no
\* cookie, or it was read and its answer is posted next.
Preflight ==
  /\ login.pc = "imperva_preflight"
  /\ \/ Blocked("missing_imperva_script")
     \/ Blocked("missing_reese84_cookie_after_script_get")
     \/ LoginAt("imperva_post")
  /\ UNCHANGED <<site, logins, conn, call>>

\* The answer lacks the state that shows the filter is satisfied, the login
\* page lacks its form token, or the form is sent next.
PreflightPosted ==
  /\ login.pc = "imperva_post"
  /\ \/ Blocked("missing_imperva_post_state")
     \/ LoginFails("configuration")
     \/ LoginAt("login_submit")
  /\ UNCHANGED <<site, logins, conn, call>>

\* _resolve_authorization_code: a code at once, a redirect to follow first, or
\* none at all, which is taken for wrong credentials.
LoginSubmitted ==
  /\ login.pc = "login_submit"
  /\ \/ LoginAt("token_exchange")
     \/ LoginAt("authorize_callback")
     \/ LoginFails("credentials")
  /\ UNCHANGED <<site, logins, conn, call>>

CallbackFollowed ==
  /\ login.pc = "authorize_callback"
  /\ LoginAt("token_exchange") \/ LoginFails("credentials")
  /\ UNCHANGED <<site, logins, conn, call>>

\* The browser fills in the form itself.  It may time out before or after, or end
\* without a code; any other failure, such as a browser that is not installed or a
\* page that cannot be loaded, reaches the backend without an error header.
BrowserLogin ==
  /\ login.pc = "browser"
  /\ \/ login' = LoginState("token_exchange", login.submits + 1, NoBundle, 0)
     \/ \E sent \in {0, 1}, f \in {"waf", "configuration"} :
          login' = LoginState("failed", login.submits + sent, NoBundle,
                              IaaiConnectAnswer(f))
  /\ UNCHANGED <<site, logins, conn, call>>

\* The bundle is built from what the site answered and is not validated here.
TokensGranted ==
  /\ login.pc = "token_exchange"
  /\ \E replaced, imperva \in BOOLEAN :
       /\ Grant(0, replaced)
       /\ login' = LoginState("store", login.submits,
                      [access |-> tokens + 1,
                       refresh |-> IF replaced THEN tokens + 1 ELSE 0,
                       imperva |-> imperva], 0)
  /\ UNCHANGED <<logins, conn, call>>

TokensRefused ==
  /\ login.pc = "token_exchange"
  /\ \E f \in {"credentials", "configuration", "malformed"} : LoginFails(f)
  /\ UNCHANGED <<site, logins, conn, call>>

\* Mutated form: what a refused login leaves is stored as well.
StoreAnything ==
  /\ login.pc \in {"store", "failed"}
  /\ conn' = [status |-> "usable", version |-> 1, bundle |-> login.bundle]
  /\ logins' = logins + 1
  /\ login' = IdleLogin
  /\ UNCHANGED <<site, call>>

\* upsert_connection.  An IAAI bundle is "connected" or "expiring", never in
\* need of another login (_connection_status_for_bundle).
StoreConnection ==
  /\ login.pc = "store"
  /\ conn' = [status |-> "usable", version |-> 1, bundle |-> login.bundle]
  /\ logins' = logins + 1
  /\ login' = IdleLogin
  /\ UNCHANGED <<site, call>>

\* The owner is answered; the backend may also have given up on the gateway
\* before its answer, and then nothing is stored.
ConnectRefused ==
  /\ login.pc \in {"failed", "store"}
  /\ login' = IdleLogin
  /\ UNCHANGED <<site, logins, conn, call>>

LoginNext ==
  \/ Connect \/ LoginPage \/ StepFailed \/ Preflight \/ PreflightPosted
  \/ LoginSubmitted \/ CallbackFollowed \/ BrowserLogin \/ TokensGranted
  \/ TokensRefused \/ StoreConnection \/ ConnectRefused

----------------------------------------------------------------------------
(* Live operations.  The gateway builds a client for each call; the        *)
(* backend's wrapper sends the bundle of the document it began with.       *)

Due(b) == b.access \in due

Begin(c) ==
  /\ call[c].pc = "idle"
  /\ conn.status = "usable"
  /\ call' = [call EXCEPT ![c] = Untried("ready", conn, NoBundle)]
  /\ UNCHANGED <<site, login, logins, conn>>

Calling(c, pc) ==
  call' = [call EXCEPT ![c] = Untried(pc, call[c].doc, call[c].doc.bundle)]

Fails(c, f, h) ==
  call' = [call EXCEPT ![c] =
    [pc |-> "failed", doc |-> NoConn, bundle |-> NoBundle, retried |-> FALSE,
     jar |-> "empty", heard |-> h, failure |-> f]]

\* _require_bundle, _ensure_fresh_access_token: a bundle without the bot
\* filter's cookies is not sent, and a token that is due is renewed first.
Execute(c) ==
  /\ call[c].pc = "ready"
  /\ LET b == call[c].doc.bundle
     IN \/ /\ b.imperva
           /\ ~Due(b)
           /\ Calling(c, "send")
        \/ /\ b.imperva
           /\ Due(b)
           /\ b.refresh # 0
           /\ Calling(c, "refresh")
        \/ /\ ~b.imperva \/ (Due(b) /\ b.refresh = 0)
           /\ Fails(c, "session_invalid", "unusable")
  /\ UNCHANGED <<site, login, logins, conn>>

\* _refresh_session_bundle: the refresh token stays when no new one came, and
\* the cookies are those this client has been set, if it has been set any.
Renewed(b, replaced, jar) ==
  [access |-> tokens + 1,
   refresh |-> IF replaced THEN tokens + 1 ELSE b.refresh,
   imperva |-> IF jar = "empty" THEN b.imperva ELSE jar = "imperva"]

RefreshGranted(c) ==
  /\ call[c].pc = "refresh"
  /\ call[c].bundle.refresh \in refresh
  /\ \E replaced \in BOOLEAN, set \in Jars :
       LET jar == Merged(call[c].jar, set)
       IN /\ Grant(call[c].bundle.refresh, replaced)
          /\ call' = [call EXCEPT ![c] =
               Working("send", call[c].doc,
                       Renewed(call[c].bundle, replaced, jar),
                       call[c].retried, jar, "nothing")]
  /\ UNCHANGED <<login, logins, conn>>

RefreshRefused(c) ==
  /\ call[c].pc = "refresh"
  /\ call[c].bundle.refresh \notin refresh
  /\ Fails(c, "refresh_error", "refused")
  /\ UNCHANGED <<site, login, logins, conn>>

\* The site has renewed the tokens, but the answer holds no access token.
RefreshUnreadable(c) ==
  /\ call[c].pc = "refresh"
  /\ call[c].bundle.refresh \in refresh
  /\ \E replaced \in BOOLEAN : Grant(call[c].bundle.refresh, replaced)
  /\ Fails(c, "refresh_error", "unreadable")
  /\ UNCHANGED <<login, logins, conn>>

\* No answer, no JSON, or a status that is neither success nor 400 or 401: the
\* site may have renewed the tokens all the same.
RefreshOutage(c) ==
  /\ call[c].pc = "refresh"
  /\ \/ UNCHANGED site
     \/ /\ call[c].bundle.refresh \in refresh
        /\ \E replaced \in BOOLEAN : Grant(call[c].bundle.refresh, replaced)
  /\ \E f \in {"unavailable", "malformed"} : Fails(c, f, call[c].heard)
  /\ UNCHANGED <<login, logins, conn>>

SendAnswered(c) ==
  /\ call[c].pc = "send"
  /\ call' = [call EXCEPT ![c] =
                Untried("persist", call[c].doc, call[c].bundle)]
  /\ UNCHANGED <<site, login, logins, conn>>

\* A first 401 or 403 is answered with a renewal, a second one ends the call.
Renews(op) == op.bundle.refresh # 0 /\ ~op.retried

\* 401 or 403: the token is refused, or the bot filter does not let it pass.
SendRefused(c) ==
  /\ call[c].pc = "send"
  /\ IF Renews(call[c])
     THEN \E set \in Jars :
            call' = [call EXCEPT ![c] =
              Working("refresh", call[c].doc, call[c].bundle, TRUE,
                      Merged(call[c].jar, set), "refused")]
     ELSE Fails(c, "session_invalid", "refused")
  /\ UNCHANGED <<site, login, logins, conn>>

\* A server error, no answer, or a body that is no JSON.  A renewal made before
\* it goes with the exception.
SendFailed(c) ==
  /\ call[c].pc = "send"
  /\ \E f \in {"unavailable", "malformed"} : Fails(c, f, call[c].heard)
  /\ UNCHANGED <<site, login, logins, conn>>

\* The backend gave up on the gateway before its answer.
AnswerLost(c) ==
  /\ call[c].pc \in {"persist", "failed"}
  /\ call' = [call EXCEPT ![c] = IdleCall]
  /\ UNCHANGED <<site, login, logins, conn>>

\* Mutated form: the bundle is written by the _id alone.
SwapsAnyVersion(doc) == TRUE

\* The filter of compare_and_swap_bundle.
Swaps(doc) == conn.version = doc.version

\* persist_rotated_bundle; the wrapper keeps its document for the next call.
Persist(c) ==
  /\ call[c].pc = "persist"
  /\ conn.version < MaxVersion
  /\ conn' = IF Swaps(call[c].doc)
             THEN [status |-> "usable",
                   version |-> conn.version + 1, bundle |-> call[c].bundle]
             ELSE conn
  /\ call' = [call EXCEPT ![c] = Untried("ready", call[c].doc, NoBundle)]
  /\ UNCHANGED <<site, login, logins>>

\* _execute_live_operation: what the exception does to the connection.
Fail(c) ==
  /\ call[c].pc = "failed"
  /\ conn' = IF IaaiGivesUp(call[c].failure)
             THEN [status |-> "reconnect_required",
                   version |-> conn.version, bundle |-> conn.bundle]
             ELSE conn
  /\ call' = [call EXCEPT ![c] = IdleCall]
  /\ UNCHANGED <<site, login, logins>>

\* The operation needs no further call.
Finish(c) ==
  /\ call[c].pc = "ready"
  /\ call' = [call EXCEPT ![c] = IdleCall]
  /\ UNCHANGED <<site, login, logins, conn>>

CallNext(c) ==
  \/ Begin(c) \/ Execute(c) \/ RefreshGranted(c) \/ RefreshRefused(c)
  \/ RefreshUnreadable(c) \/ RefreshOutage(c) \/ SendAnswered(c)
  \/ SendRefused(c) \/ SendFailed(c) \/ AnswerLost(c) \/ Persist(c) \/ Fail(c)
  \/ Finish(c)

SiteNext ==
  \E t \in 1..tokens : ComesDue(t) \/ EndRefresh(t)

Next == LoginNext \/ (\E c \in Calls : CallNext(c)) \/ SiteNext

Spec == Init /\ [][Next]_vars

----------------------------------------------------------------------------
Logins ==
  [pc : LoginRequests \cup {"idle", "browser", "store", "failed"},
   submits : 0..2, bundle : Bundles, answer : {0, 401, 502, 503}]

CallStates ==
  [pc : {"idle", "ready", "refresh", "send", "persist", "failed"},
   doc : Connections, bundle : Bundles, retried : BOOLEAN,
   jar : Jars, heard : {"nothing", "refused", "unreadable", "unusable"},
   failure : (DOMAIN IaaiHeader) \cup {"none"}]

\* Every record stays well formed and the site accepts only tokens it issued.
TypeOK ==
  /\ tokens \in 0..MaxTokens
  /\ refresh \in SUBSET (1..tokens)
  /\ due \in SUBSET (1..tokens)
  /\ login \in Logins
  /\ logins \in 0..tokens
  /\ conn \in Connections
  /\ call \in [Calls -> CallStates]

\* A connect request sends the password to the site at most once, although it
\* may try the flow twice, by hand and in a browser; and the owner is told that
\* the credentials are wrong only if they were sent (bootstrap_connector_session).
PasswordSentOnce ==
  /\ login.submits <= 1
  /\ login.answer = 401 => login.submits = 1

\* An operation gives the connection up only on the word of the site, an answer
\* nobody can read or a bundle that cannot be sent: an outage at the site, of
\* the gateway or between the two costs nobody the session
\* (_execute_live_operation, _invoke_connector, _raise_gateway_error).
GivenUpForCause ==
  [][/\ conn.status = "usable"
     /\ conn'.status = "reconnect_required"
     => \E c \in Calls : call[c].pc = "failed" /\ call[c].heard # "nothing"]_vars

\* As long as the owner does not log in again, the stored tokens never go back
\* to older ones: an operation that was overtaken by another one does not put
\* the spent refresh token back (compare_and_swap_bundle).
TokensNeverGoBack ==
  [][logins = 1 /\ logins' = 1
     => /\ conn'.bundle.refresh >= conn.bundle.refresh
        /\ conn'.bundle.access >= conn.bundle.access]_vars
=============================================================================
