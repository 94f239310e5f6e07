------------------------- MODULE ProviderConnection -------------------------
(***************************************************************************)
(* One user's connection to one provider (modules/provider_connections):   *)
(* the stored document with its encrypted session bundle, the requests     *)
(* that log in, disconnect or delete it, and the live operations (user     *)
(* requests and the polling worker) that send the stored session to the    *)
(* provider and write back what the call returned.                         *)
(*                                                                         *)
(* Documents of different users or providers never meet, so one suffices.  *)
(* The provider numbers its logins; `alive` holds those it still accepts.  *)
(* A bundle is the login it came from and how many calls have rotated it   *)
(* since.  The _id of a document is the number of the login that inserted  *)
(* it.  Labels, dates, last_error and the encryption are left out.         *)
(***************************************************************************)
EXTENDS Integers

CONSTANTS
  Users,        \* requests of the owner that may log in at the same time
  Ops,          \* live operations that may run at the same time
  MaxLogins,    \* bound: how often the owner logs in
  MaxVersion    \* bound: the largest bundle_version

ASSUME ConnectionAssumption ==
  /\ MaxLogins \in Nat \ {0}
  /\ MaxVersion \in Nat \ {0}

VARIABLES
  conn,         \* the stored document, NoConn when there is none
  logins,       \* logins the provider has granted
  alive,        \* the logins the provider still accepts
  user,         \* user[u]: the connect request of u
  op            \* op[o]: the live operation of o

vars == <<conn, logins, alive, user, op>>

Usable == {"connected", "expiring"}
ResultStatus == Usable \cup {"reconnect_required"}
Status == ResultStatus \cup {"disconnected", "absent"}

NoBundle == [login |-> 0, gen |-> 0]
Bundles == [login : 0..MaxLogins, gen : 0..(MaxVersion - 1)]
Connections == [id : 0..MaxLogins, status : Status,
                version : 1..MaxVersion, bundle : Bundles]
Operations == [pc : {"idle", "call", "persist", "reject"},
               doc : Connections, result : ResultStatus]
Requests == [pc : {"idle", "bootstrap", "store"}, login : 0..MaxLogins]
NoConn == [id |-> 0, status |-> "absent", version |-> 1, bundle |-> NoBundle]

IdleUser == [pc |-> "idle", login |-> 0]
IdleOp == [pc |-> "idle", doc |-> NoConn, result |-> "connected"]

Init ==
  /\ conn = NoConn
  /\ logins = 0
  /\ alive = {}
  /\ user = [u \in Users |-> IdleUser]
  /\ op = [o \in Ops |-> IdleOp]

----------------------------------------------------------------------------
(* What the repository stores.                                             *)

\* Mutated form: the upsert leaves the version of the replaced bundle alone.
ConnectedVersionKept(c, l, s) ==
  [id |-> IF c = NoConn THEN l ELSE c.id, status |-> s,
   version |-> c.version, bundle |-> [login |-> l, gen |-> 0]]

\* upsert_connection keeps the _id of the document it finds.
Connected(c, l, s) ==
  [id |-> IF c = NoConn THEN l ELSE c.id, status |-> s,
   version |-> 1, bundle |-> [login |-> l, gen |-> 0]]

\* disconnect_connection
Disconnected(c) ==
  [id |-> c.id, status |-> "disconnected", version |-> 1, bundle |-> NoBundle]

\* Mutated forms: a filter without the version, one without the _id.
CasMatchesAnyVersion(c, doc) == c # NoConn /\ c.id = doc.id
CasMatchesAnyId(c, doc) == c # NoConn /\ c.version = doc.version

\* The filter of compare_and_swap_bundle.
CasMatches(c, doc) == c # NoConn /\ c.id = doc.id /\ c.version = doc.version

\* compare_and_swap_bundle: the update it makes when the filter matches.
Rotated(c, doc, s) ==
  [id |-> c.id, status |-> s, version |-> c.version + 1,
   bundle |-> [login |-> doc.bundle.login, gen |-> doc.bundle.gen + 1]]

\* Mutated form: the failure is reported to the caller and not recorded.
ReconnectRequiredUnrecorded(c, doc) == c

\* record_reconnect_required: an update by _id alone.
ReconnectRequired(c, doc) ==
  IF c # NoConn /\ c.id = doc.id
  THEN [c EXCEPT !.status = "reconnect_required"]
  ELSE c

----------------------------------------------------------------------------
(* The owner.                                                              *)

Connect(u) ==
  /\ user[u].pc = "idle"
  /\ logins < MaxLogins
  /\ user' = [user EXCEPT ![u] = [pc |-> "bootstrap", login |-> 0]]
  /\ UNCHANGED <<conn, logins, alive, op>>

\* reconnect answers 404 unless there is a connection to renew.
Reconnect(u) ==
  /\ conn.status \notin {"absent", "disconnected"}
  /\ Connect(u)

\* The provider accepts the credentials and opens a session.
BootstrapAccepted(u) ==
  /\ user[u].pc = "bootstrap"
  /\ logins < MaxLogins
  /\ logins' = logins + 1
  /\ alive' = alive \cup {logins + 1}
  /\ user' = [user EXCEPT ![u] = [pc |-> "store", login |-> logins + 1]]
  /\ UNCHANGED <<conn, op>>

\* Wrong credentials, a challenge, a gateway error: the request ends there.
BootstrapFailed(u) ==
  /\ user[u].pc = "bootstrap"
  /\ user' = [user EXCEPT ![u] = IdleUser]
  /\ UNCHANGED <<conn, logins, alive, op>>

StoreConnection(u) ==
  /\ user[u].pc = "store"
  /\ \E s \in ResultStatus : conn' = Connected(conn, user[u].login, s)
  /\ user' = [user EXCEPT ![u] = IdleUser]
  /\ UNCHANGED <<logins, alive, op>>

\* By the owner or by an administrator.
Disconnect ==
  /\ conn # NoConn
  /\ conn' = Disconnected(conn)
  /\ UNCHANGED <<logins, alive, user, op>>

\* The user account is deleted with everything it owns.
DeleteForOwner ==
  /\ conn # NoConn
  /\ conn' = NoConn
  /\ UNCHANGED <<logins, alive, user, op>>

----------------------------------------------------------------------------
(* Live operations.  The client wrapper keeps the document it was built    *)
(* with for every call it makes.                                           *)

\* require_usable_connection
StartOperation(o) ==
  /\ op[o].pc = "idle"
  /\ conn.status \in Usable
  /\ conn.bundle # NoBundle
  /\ op' = [op EXCEPT ![o] = [pc |-> "call", doc |-> conn,
                               result |-> "connected"]]
  /\ UNCHANGED <<conn, logins, alive, user>>

CallAccepted(o) ==
  /\ op[o].pc = "call"
  /\ op[o].doc.bundle.login \in alive
  /\ op[o].doc.version < MaxVersion
  /\ \E s \in ResultStatus :
       op' = [op EXCEPT ![o] = [pc |-> "persist", doc |-> op[o].doc,
                                result |-> s]]
  /\ UNCHANGED <<conn, logins, alive, user>>

\* The provider has ended the session the copy holds.
Dead(o) == op[o].doc.bundle.login \notin alive

\* Another call has rotated the session since the copy was taken.
Spent(o) ==
  \/ /\ conn.bundle.login = op[o].doc.bundle.login
     /\ conn.bundle.gen > op[o].doc.bundle.gen
  \/ \E p \in Ops \ {o} : /\ op[p].pc = "persist"
                          /\ op[p].doc.bundle = op[o].doc.bundle

\* An ended session is always refused, a rotated one when its credentials can
\* be used only once.
CallRejected(o) ==
  /\ op[o].pc = "call"
  /\ Dead(o) \/ Spent(o)
  /\ op' = [op EXCEPT ![o] = [pc |-> "reject", doc |-> op[o].doc,
                               result |-> "reconnect_required"]]
  /\ UNCHANGED <<conn, logins, alive, user>>

\* The gateway cannot be reached, or the operation needs no further call.
EndOperation(o) ==
  /\ op[o].pc = "call"
  /\ op' = [op EXCEPT ![o] = IdleOp]
  /\ UNCHANGED <<conn, logins, alive, user>>

\* A conflict is logged and forgotten; the wrapper goes on with its copy.
PersistRotatedBundle(o) ==
  /\ op[o].pc = "persist"
  /\ conn' = IF CasMatches(conn, op[o].doc)
             THEN Rotated(conn, op[o].doc, op[o].result)
             ELSE conn
  /\ op' = [op EXCEPT ![o] = [pc |-> "call", doc |-> op[o].doc,
                               result |-> "connected"]]
  /\ UNCHANGED <<logins, alive, user>>

RecordReconnectRequired(o) ==
  /\ op[o].pc = "reject"
  /\ conn' = ReconnectRequired(conn, op[o].doc)
  /\ op' = [op EXCEPT ![o] = IdleOp]
  /\ UNCHANGED <<logins, alive, user>>

----------------------------------------------------------------------------
\* The provider ends a session.
Expire(l) ==
  /\ alive' = alive \ {l}
  /\ UNCHANGED <<conn, logins, user, op>>

UserStep(u) ==
  Connect(u) \/ Reconnect(u) \/ BootstrapAccepted(u) \/ BootstrapFailed(u)
    \/ StoreConnection(u)

OperationStep(o) ==
  StartOperation(o) \/ CallAccepted(o) \/ CallRejected(o) \/ EndOperation(o)
    \/ PersistRotatedBundle(o) \/ RecordReconnectRequired(o)

Next ==
  \/ \E u \in Users : UserStep(u)
  \/ Disconnect
  \/ DeleteForOwner
  \/ \E o \in Ops : OperationStep(o)
  \/ \E l \in alive : Expire(l)

Spec == Init /\ [][Next]_vars

\* The polling worker keeps using the connection for as long as it is usable
\* and no operation makes calls for ever or is always cut off by an
\* unreachable gateway.  Nothing is assumed of the owner or of sessions.
Fairness ==
  \A o \in Ops :
    /\ WF_vars(StartOperation(o))
    /\ SF_vars(Dead(o) /\ CallRejected(o))
    /\ SF_vars(EndOperation(o))
    /\ WF_vars(PersistRotatedBundle(o) \/ RecordReconnectRequired(o))

FairSpec == Spec /\ Fairness

----------------------------------------------------------------------------
\* The stored document and every request in flight stay well formed; the
\* version never passes the bound operations respect.
TypeOK ==
  /\ conn \in Connections
  /\ logins \in 0..MaxLogins
  /\ alive \in SUBSET (1..logins)
  /\ user \in [Users -> Requests]
  /\ op \in [Ops -> Operations]

\* Whatever writes meet on the document (repository.py updates it from five
\* places, three of them on the strength of an old copy), a connection offered
\* as usable has a session to send, a disconnected one has none, and the
\* version is one more than the rotations of the session it guards.
Coherent(c) ==
  /\ c.status \in Usable => c.bundle # NoBundle
  /\ c.status \in {"absent", "disconnected"} => c.bundle = NoBundle
  /\ c.version = c.bundle.gen + 1

BundleMatchesVersion == Coherent(conn)

\* The compare-and-swap loses no rotation and stores none twice while the same
\* login stays in place: from one stored bundle of a login to the next, exactly
\* one call has rotated the session (persist_rotated_bundle).
RotationStep ==
  conn.bundle.login = conn'.bundle.login /\ conn.bundle # conn'.bundle
    => conn'.bundle.gen = conn.bundle.gen + 1

RotationsChain == [][RotationStep]_vars

\* A session belongs to one document for good: the user may have been deleted
\* and have logged in anew while an operation still held a copy of the earlier
\* document, at the same version as the new one, and no late write carries the
\* session of the one into the other (the _id in compare_and_swap_bundle, which
\* upsert_connection keeps and an insertion renews).
SessionsStayHome ==
  \A o \in Ops :
    /\ conn.bundle # NoBundle
    /\ op[o].doc.bundle.login = conn.bundle.login
    => op[o].doc.id = conn.id

\* A session the provider has ended is not offered as usable for ever, even
\* though a call that succeeded before the end may be written after the failure
\* was recorded: the next operation finds out again.
DeadSessionNoticed ==
  (conn.status \in Usable /\ conn.bundle.login \notin alive)
    ~> (conn.status \notin Usable \/ conn.bundle.login \in alive)

----------------------------------------------------------------------------
(* What the documents say of the connection and the code does not keep.    *)

\* "do not clobber concurrent user-driven session refreshes" (copart-per-user-
\* connector plan), "clears the stored encrypted session bundle" of a disconnect
\* (docs/backend-api.md): only a login of the owner stores a session of another
\* login than the one stored, or any session where none is stored.
NoClobber ==
  [][conn'.bundle.login \notin {0, conn.bundle.login} => user' # user]_vars

\* "reconnect_required: stored session became invalid" (docs/backend-api.md): a
\* failed call marks the connection only when the stored session is the dead
\* one.
NoFalseReconnect ==
  [][/\ conn.status \in Usable
     /\ conn'.status = "reconnect_required"
     /\ conn'.bundle = conn.bundle
     => conn.bundle.login \notin alive]_vars
=============================================================================
