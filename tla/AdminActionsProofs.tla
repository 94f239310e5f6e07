------------------------- MODULE AdminActionsProofs -------------------------
(***************************************************************************)
(* Proofs about AdminActions, for any number of requests at once, accounts *)
(* invites and documents, and whatever the owners and the worker do in the *)
(* meantime.                                                               *)
(***************************************************************************)
EXTENDS AdminActions, TLAPS

UserDocs == [email : Emails, role : {"user", "admin"},
             status : {"none", "active", "blocked", "deleted"}]

InviteDocs == [email : Emails, fresh : BOOLEAN,
               status : {"none", "pending", "accepted", "revoked", "deleted"}]

Bases == Ids \X {"search", "lot"} \X (1..MaxDocs)

Pcs == {"idle", "start", "insert", "revoke", "create", "mark", "derive", "guard", "update",
        "erase"}

RequestDocs ==
  [op : AdminOps \cup UserOps \cup {"accept_invite", "idle"}, pc : Pcs,
   by : Ids \cup {Nobody}, target : Ids \cup Invites \cup {Nobody}, seen : UserDocs,
   email : Emails, listed : (SUBSET Nat) \cup SUBSET Bases, at : Nat, late : BOOLEAN]

Steps(op) == Len(Plan[op])

\* What a request in progress may rely on; its target stays the account it has read.
Coherent(q) ==
  /\ q.pc \in {"create", "mark", "revoke"} => q.target \in Invites
  /\ q.pc = "start" => q.by \in Ids /\ q.at = 1 /\ q.listed = {}
  /\ q.pc = "derive" => q.listed \subseteq Bases
  /\ q.pc = "guard" => q.op \in Guarded /\ q.at = 1 /\ q.listed = {}
  /\ q.pc = "erase" => q.op \in DeleteOps /\ q.at \in 1..Steps(q.op) /\ q.listed \subseteq Nat

Known(q, accounts) ==
  q.pc \in {"guard", "update", "erase"} =>
    /\ q.target \in Ids
    /\ accounts[q.target].status # "none"
    /\ accounts[q.target].email = q.seen.email

Alive(accounts, u) == accounts[u].status \in {"active", "blocked"}

UsersOK(accounts) ==
  /\ accounts \in [Ids -> UserDocs]
  /\ \A u, v \in Ids :
       Alive(accounts, u) /\ Alive(accounts, v) /\ accounts[u].email = accounts[v].email => u = v

RequestsOK ==
  /\ req \in [Requests -> RequestDocs]
  /\ \A r \in Requests : Coherent(req[r]) /\ Known(req[r], users)

AccountsInv ==
  /\ UsersOK(users)
  /\ invites \in [Invites -> InviteDocs]
  /\ RequestsOK
  /\ calls \in 0..MaxCalls
  /\ made \in [Invites -> Nat]

DataInv ==
  /\ docs \subseteq Ids \X Kinds \X (0..MaxDocs)
  /\ serial \in 0..MaxDocs
  /\ \A d \in docs : d[2] \in {"search", "lot"} => d[3] \in 1..serial
  /\ copies \subseteq Bases
  /\ torn \subseteq Ids /\ late \subseteq Ids

Typed == AccountsInv /\ DataInv

----------------------------------------------------------------------------
(* What a step may do to the accounts.                                     *)

\* No account changes its email, and a deleted one stays as it is.
Keeps(accounts, then) ==
  \A u \in Ids :
    /\ accounts[u].status # "none" =>
         then[u].status # "none" /\ then[u].email = accounts[u].email
    /\ accounts[u].status = "deleted" => then[u] = accounts[u]

LEMMA InsertKeeps ==
  ASSUME UsersOK(users), NEW email \in Emails, NEW role \in {"user", "admin"},
         Insert(email, role)
  PROVE  UsersOK(users') /\ Keeps(users, users')
<1>1. PICK u \in Ids : /\ users[u].status = "none"
                       /\ users' = [users EXCEPT ![u] = Account(email, role)]
  BY DEF Insert
<1>2. /\ \A v \in Ids : Alive(users, v) => users[v].email # email
      /\ Account(email, role) \in UserDocs /\ Account(email, role).email = email
      /\ users'[u] = Account(email, role) /\ \A v \in Ids \ {u} : users'[v] = users[v]
  BY <1>1 DEF Insert, Taken, Live, Alive, Account, UserDocs, UsersOK
<1>3. users' \in [Ids -> UserDocs]
  BY <1>1, <1>2 DEF UsersOK
<1>4. QED
  BY <1>1, <1>2, <1>3 DEF UsersOK, Keeps, Alive

LEMMA UpdateKeeps ==
  ASSUME UsersOK(users), NEW u \in Ids, Live(u),
         NEW d \in UserDocs, d.email = users[u].email, d.status \in {"active", "blocked"},
         users' = [users EXCEPT ![u] = d]
  PROVE  UsersOK(users') /\ Keeps(users, users')
<1>1. /\ users'[u] = d /\ \A v \in Ids \ {u} : users'[v] = users[v]
      /\ Alive(users', u) /\ Alive(users, u)
  BY DEF UsersOK, Live, Alive
<1>2. users' \in [Ids -> UserDocs]
  BY DEF UsersOK
<1>3. QED
  BY <1>1, <1>2 DEF UsersOK, Keeps, Alive

LEMMA EraseKeeps ==
  ASSUME UsersOK(users), NEW u \in Ids, users[u].status # "none",
         users' = [users EXCEPT ![u].status = "deleted"]
  PROVE  UsersOK(users') /\ Keeps(users, users')
<1>1. /\ users'[u] = [users[u] EXCEPT !.status = "deleted"]
      /\ \A v \in Ids \ {u} : users'[v] = users[v]
  BY DEF UsersOK
<1>2. /\ users'[u] \in UserDocs /\ users'[u].email = users[u].email
      /\ users'[u].status = "deleted"
      /\ users[u].status = "deleted" => users'[u] = users[u]
  BY <1>1 DEF UsersOK, UserDocs
<1>3. users' \in [Ids -> UserDocs]
  BY <1>1, <1>2 DEF UsersOK
<1>4. QED
  BY <1>1, <1>2, <1>3 DEF UsersOK, Keeps, Alive

\* Insert, UpdateUser and EraseAccount are all that changes an account.
LEMMA UsersStep ==
  ASSUME Typed, [Next]_vars PROVE UsersOK(users') /\ Keeps(users, users')
<1> USE DEF Typed, AccountsInv
<1>1. CASE UNCHANGED users
  BY <1>1 DEF Keeps, UsersOK
<1>2. CASE Startup
  BY <1>2, InsertKeeps, AccountsAssumption DEF Startup
<1>3. ASSUME NEW r \in Requests, CreateUser(r) PROVE UsersOK(users') /\ Keeps(users, users')
  <2>1. req[r].target \in Invites
    BY <1>3 DEF RequestsOK, Coherent, CreateUser
  <2>2. invites[req[r].target].email \in Emails
    BY <2>1 DEF InviteDocs
  <2>3. QED
    BY <1>3, <2>2, InsertKeeps DEF CreateUser
<1>4. ASSUME NEW r \in Requests,
             \/ UpdateUser(r, "block", "status", "blocked")
             \/ UpdateUser(r, "unblock", "status", "active")
             \/ UpdateUser(r, "promote", "role", "admin")
             \/ UpdateUser(r, "demote", "role", "user")
      PROVE UsersOK(users') /\ Keeps(users, users')
  <2>1. req[r].target \in Ids
    BY <1>4 DEF RequestsOK, Known, UpdateUser
  <2>2. CASE ~Live(req[r].target)
    BY <1>1, <1>4, <2>2 DEF UpdateUser
  <2>3. CASE Live(req[r].target)
    <3> DEFINE u == req[r].target
               Set(field, value) == [users[u] EXCEPT ![field] = value]
    <3>1. \E field, value :
            /\ \/ field = "status" /\ value \in {"active", "blocked"}
               \/ field = "role" /\ value \in {"admin", "user"}
            /\ users' = [users EXCEPT ![u] = Set(field, value)]
      BY <1>4, <2>3 DEF UpdateUser
    <3>2. users[u] \in UserDocs /\ users[u].status \in {"active", "blocked"}
      BY <2>1, <2>3 DEF UsersOK, Live
    <3>3. \E d \in UserDocs : /\ d.email = users[u].email /\ d.status \in {"active", "blocked"}
                              /\ users' = [users EXCEPT ![u] = d]
      BY <3>1, <3>2 DEF UserDocs
    <3>4. QED
      BY <2>1, <2>3, <3>3, UpdateKeeps
  <2>4. QED
    BY <2>2, <2>3
<1>5. ASSUME NEW r \in Requests, EraseAccount(r) PROVE UsersOK(users') /\ Keeps(users, users')
  <2>1. req[r].target \in Ids /\ users[req[r].target].status # "none"
    BY <1>5 DEF RequestsOK, Known, EraseAccount
  <2>2. QED
    BY <1>5, <2>1, EraseKeeps DEF EraseAccount
<1>6. ASSUME NEW r \in Requests, ActionStep(r) PROVE UsersOK(users') /\ Keeps(users, users')
  BY <1>1, <1>4, <1>5, <1>6
     DEF ActionStep, StartAction, Guard, EraseList, EraseDocs, EraseInvites
<1>7. CASE AccountStep
  BY <1>1, <1>2, <1>3, <1>7
     DEF AccountStep, InviteStep, Authenticate, StartInvite, InsertInvite, Expire, StartRevoke,
         Revoke, StartAccept, MarkAccepted
<1>8. ASSUME NEW r \in Requests, OwnerStep(r) \/ RequestCutOff(r)
      PROVE UsersOK(users') /\ Keeps(users, users')
  BY <1>1, <1>8 DEF OwnerStep, Add, Derive, Upsert, RequestCutOff, CutOff
<1>9. CASE (\E d \in docs : Copy(d)) \/ (\E d \in copies : StoreResults(d)) \/ UNCHANGED vars
  BY <1>1, <1>9 DEF Copy, StoreResults, accountVars, vars
<1>10. QED
  BY <1>6, <1>7, <1>8, <1>9 DEF Next

----------------------------------------------------------------------------
(* What a step may do to the requests.                                     *)

LEMMA IdleFields ==
  /\ Idle \in RequestDocs /\ Coherent(Idle) /\ Idle.pc = "idle" /\ Idle.op = "idle"
  /\ Idle.at = 1 /\ Idle.listed = {} /\ Idle.late = FALSE
<1>1. NoUser \in UserDocs
  BY AccountsAssumption DEF NoUser, UserDocs
<1>2. Idle \in RequestDocs
  BY <1>1, AccountsAssumption DEF Idle, RequestDocs, Pcs
<1>3. QED
  BY <1>2 DEF Idle, Coherent

LEMMA KnownKept ==
  ASSUME Keeps(users, users'), NEW q, Known(q, users) PROVE Known(q, users')
  BY DEF Keeps, Known

LEMMA OneMoves ==
  ASSUME RequestsOK, Keeps(users, users'), NEW r \in Requests,
         NEW q \in RequestDocs, Coherent(q), Known(q, users'),
         req' = [req EXCEPT ![r] = q]
  PROVE  RequestsOK'
<1>1. req' \in [Requests -> RequestDocs]
  BY DEF RequestsOK
<1>2. \A p \in Requests : Coherent(req'[p]) /\ Known(req'[p], users')
  <2>1. req'[r] = q /\ \A p \in Requests \ {r} : req'[p] = req[p]
    BY DEF RequestsOK
  <2>2. QED
    BY <2>1, KnownKept DEF RequestsOK
<1>3. QED
  BY <1>1, <1>2 DEF RequestsOK

LEMMA ReturnKeeps ==
  ASSUME RequestsOK, Keeps(users, users'), NEW r \in Requests, Return(r)
  PROVE  RequestsOK'
  BY IdleFields, OneMoves DEF Return, Known

\* A request that begins.
LEMMA CallFields ==
  \A op \in AdminOps \cup UserOps, u \in Ids :
    LET q == [Idle EXCEPT !.op = op, !.pc = "start", !.by = u]
    IN /\ q \in RequestDocs /\ Coherent(q) /\ q.pc = "start" /\ q.op = op /\ q.late = FALSE
<1> SUFFICES ASSUME NEW op \in AdminOps \cup UserOps, NEW u \in Ids
             PROVE  LET q == [Idle EXCEPT !.op = op, !.pc = "start", !.by = u]
                    IN /\ q \in RequestDocs /\ Coherent(q) /\ q.pc = "start" /\ q.op = op
                       /\ q.late = FALSE
  OBVIOUS
<1> DEFINE q == [Idle EXCEPT !.op = op, !.pc = "start", !.by = u]
<1>1. /\ q.pc = "start" /\ q.op = op /\ q.by = u /\ q.late = FALSE /\ q.at = 1
      /\ q.listed = {}
  BY IdleFields DEF RequestDocs
<1>2. q \in RequestDocs
  BY IdleFields DEF RequestDocs, Pcs
<1>3. QED
  BY <1>1, <1>2 DEF Coherent

LEMMA AnswerFields ==
  \A i \in Invites :
    LET q == [Idle EXCEPT !.op = "accept_invite", !.pc = "create", !.target = i]
    IN /\ q \in RequestDocs /\ Coherent(q) /\ q.pc = "create" /\ q.op = "accept_invite"
       /\ q.target = i /\ q.late = FALSE
  BY IdleFields DEF RequestDocs, Pcs, Coherent

LEMMA InviteFields ==
  ASSUME NEW q \in RequestDocs, NEW email \in Emails
  PROVE  LET p == [q EXCEPT !.pc = "insert", !.email = email]
         IN p \in RequestDocs /\ p.pc = "insert"
  BY DEF RequestDocs, Pcs

LEMMA RevokeFields ==
  ASSUME NEW q \in RequestDocs, NEW i \in Invites
  PROVE  LET p == [q EXCEPT !.pc = "revoke", !.target = i]
         IN p \in RequestDocs /\ p.pc = "revoke" /\ p.target = i
  BY DEF RequestDocs, Pcs

LEMMA PcFields ==
  ASSUME NEW q \in RequestDocs, NEW pc \in Pcs
  PROVE  LET p == [q EXCEPT !.pc = pc]
         IN /\ p \in RequestDocs /\ p.pc = pc /\ p.op = q.op /\ p.target = q.target
            /\ p.seen = q.seen /\ p.at = q.at /\ p.listed = q.listed /\ p.by = q.by
            /\ p.late = q.late
  BY DEF RequestDocs

LEMMA LateFields ==
  ASSUME NEW q \in RequestDocs
  PROVE  LET p == [q EXCEPT !.late = TRUE]
         IN /\ p \in RequestDocs /\ p.pc = q.pc /\ p.op = q.op /\ p.target = q.target
            /\ p.seen = q.seen /\ p.at = q.at /\ p.listed = q.listed /\ p.by = q.by
            /\ p.late = TRUE
  BY DEF RequestDocs

LEMMA NextFields ==
  ASSUME NEW q \in RequestDocs, NEW listed \in SUBSET Nat
  PROVE  LET p == [q EXCEPT !.at = @ + 1, !.listed = listed]
         IN /\ p \in RequestDocs /\ p.pc = q.pc /\ p.op = q.op /\ p.target = q.target
            /\ p.seen = q.seen /\ p.at = q.at + 1 /\ p.listed = listed /\ p.by = q.by
            /\ p.late = q.late
<1> DEFINE p == [q EXCEPT !.at = @ + 1, !.listed = listed]
<1>1. q.at + 1 \in Nat
  BY DEF RequestDocs
<1>2. p.at = q.at + 1 /\ p.listed = listed
  BY DEF RequestDocs
<1>3. /\ p.pc = q.pc /\ p.op = q.op /\ p.target = q.target /\ p.seen = q.seen /\ p.by = q.by
      /\ p.late = q.late /\ p.email = q.email
  BY DEF RequestDocs
<1>4. p \in RequestDocs
  BY <1>1 DEF RequestDocs
<1>5. QED
  BY <1>2, <1>3, <1>4

LEMMA AddFields ==
  ASSUME NEW q \in RequestDocs, NEW d \in Bases
  PROVE  LET p == [q EXCEPT !.pc = "derive", !.listed = {d}]
         IN p \in RequestDocs /\ p.pc = "derive" /\ p.listed = {d}
  BY DEF RequestDocs, Pcs

\* The steps of the deletions, and the step at which a deletion is.
SavedSearchAt(at, verb, kind) ==
  \/ at = 1 /\ verb = "pick" /\ kind = "search"
  \/ at = 2 /\ verb = "delete_listed" /\ kind = "search"
  \/ at = 3 /\ verb = "delete_listed" /\ kind = "cache"

LEMMA SavedSearchSteps ==
  /\ Steps("delete_saved_search") = 3
  /\ \A at \in 1..3 :
       SavedSearchAt(at, Plan["delete_saved_search"][at][1], Plan["delete_saved_search"][at][2])
<1>1. Steps("delete_saved_search") = 3
  BY DEF Plan, Steps
<1>2. /\ Plan["delete_saved_search"][1][1] = "pick"
      /\ Plan["delete_saved_search"][1][2] = "search"
      /\ Plan["delete_saved_search"][2][1] = "delete_listed"
      /\ Plan["delete_saved_search"][2][2] = "search"
      /\ Plan["delete_saved_search"][3][1] = "delete_listed"
      /\ Plan["delete_saved_search"][3][2] = "cache"
  BY DEF Plan
<1>3. \A at \in 1..3 : at = 1 \/ at = 2 \/ at = 3
  OBVIOUS
<1>4. QED
  BY <1>1, <1>2, <1>3 DEF SavedSearchAt

AllSearchesAt(at, verb, kind) ==
  \/ at = 1 /\ verb = "list" /\ kind = "search"
  \/ at = 2 /\ verb = "delete" /\ kind = "search"
  \/ at = 3 /\ verb = "delete_found" /\ kind = "cache"

LEMMA AllSearchesSteps ==
  /\ Steps("delete_all_saved_searches") = 3
  /\ \A at \in 1..3 :
       AllSearchesAt(at, Plan["delete_all_saved_searches"][at][1],
                     Plan["delete_all_saved_searches"][at][2])
<1>1. Steps("delete_all_saved_searches") = 3
  BY DEF Plan, Steps
<1>2. /\ Plan["delete_all_saved_searches"][1][1] = "list"
      /\ Plan["delete_all_saved_searches"][1][2] = "search"
      /\ Plan["delete_all_saved_searches"][2][1] = "delete"
      /\ Plan["delete_all_saved_searches"][2][2] = "search"
      /\ Plan["delete_all_saved_searches"][3][1] = "delete_found"
      /\ Plan["delete_all_saved_searches"][3][2] = "cache"
  BY DEF Plan
<1>3. \A at \in 1..3 : at = 1 \/ at = 2 \/ at = 3
  OBVIOUS
<1>4. QED
  BY <1>1, <1>2, <1>3 DEF AllSearchesAt

TrackedLotAt(at, verb, kind) ==
  \/ at = 1 /\ verb = "pick" /\ kind = "lot"
  \/ at = 2 /\ verb = "delete_listed" /\ kind = "lot"
  \/ at = 3 /\ verb = "delete_listed" /\ kind = "snapshot"

LEMMA TrackedLotSteps ==
  /\ Steps("delete_tracked_lot") = 3
  /\ \A at \in 1..3 :
       TrackedLotAt(at, Plan["delete_tracked_lot"][at][1], Plan["delete_tracked_lot"][at][2])
<1>1. Steps("delete_tracked_lot") = 3
  BY DEF Plan, Steps
<1>2. /\ Plan["delete_tracked_lot"][1][1] = "pick"
      /\ Plan["delete_tracked_lot"][1][2] = "lot"
      /\ Plan["delete_tracked_lot"][2][1] = "delete_listed"
      /\ Plan["delete_tracked_lot"][2][2] = "lot"
      /\ Plan["delete_tracked_lot"][3][1] = "delete_listed"
      /\ Plan["delete_tracked_lot"][3][2] = "snapshot"
  BY DEF Plan
<1>3. \A at \in 1..3 : at = 1 \/ at = 2 \/ at = 3
  OBVIOUS
<1>4. QED
  BY <1>1, <1>2, <1>3 DEF TrackedLotAt

AllLotsAt(at, verb, kind) ==
  \/ at = 1 /\ verb = "list" /\ kind = "lot"
  \/ at = 2 /\ verb = "delete_listed" /\ kind = "snapshot"
  \/ at = 3 /\ verb = "delete" /\ kind = "lot"

LEMMA AllLotsSteps ==
  /\ Steps("delete_all_tracked_lots") = 3
  /\ \A at \in 1..3 :
       AllLotsAt(at, Plan["delete_all_tracked_lots"][at][1],
                 Plan["delete_all_tracked_lots"][at][2])
<1>1. Steps("delete_all_tracked_lots") = 3
  BY DEF Plan, Steps
<1>2. /\ Plan["delete_all_tracked_lots"][1][1] = "list"
      /\ Plan["delete_all_tracked_lots"][1][2] = "lot"
      /\ Plan["delete_all_tracked_lots"][2][1] = "delete_listed"
      /\ Plan["delete_all_tracked_lots"][2][2] = "snapshot"
      /\ Plan["delete_all_tracked_lots"][3][1] = "delete"
      /\ Plan["delete_all_tracked_lots"][3][2] = "lot"
  BY DEF Plan
<1>3. \A at \in 1..3 : at = 1 \/ at = 2 \/ at = 3
  OBVIOUS
<1>4. QED
  BY <1>1, <1>2, <1>3 DEF AllLotsAt

PurgeAt(at, verb, kind) ==
  \/ at = 1 /\ verb = "list" /\ kind = "lot"
  \/ at = 2 /\ verb = "delete_listed" /\ kind = "snapshot"

LEMMA PurgeSteps ==
  /\ Steps("purge_snapshots") = 2
  /\ \A at \in 1..2 :
       PurgeAt(at, Plan["purge_snapshots"][at][1], Plan["purge_snapshots"][at][2])
<1>1. Steps("purge_snapshots") = 2
  BY DEF Plan, Steps
<1>2. /\ Plan["purge_snapshots"][1][1] = "list" /\ Plan["purge_snapshots"][1][2] = "lot"
      /\ Plan["purge_snapshots"][2][1] = "delete_listed"
      /\ Plan["purge_snapshots"][2][2] = "snapshot"
  BY DEF Plan
<1>3. \A at \in 1..2 : at = 1 \/ at = 2
  OBVIOUS
<1>4. QED
  BY <1>1, <1>2, <1>3 DEF PurgeAt

PushAt(at, verb, kind) ==
  \/ at = 1 /\ verb = "delete" /\ kind = "subscription"

LEMMA PushSteps ==
  /\ Steps("delete_all_push_subscriptions") = 1
  /\ \A at \in 1..1 :
       PushAt(at, Plan["delete_all_push_subscriptions"][at][1],
              Plan["delete_all_push_subscriptions"][at][2])
<1>1. Steps("delete_all_push_subscriptions") = 1
  BY DEF Plan, Steps
<1>2. /\ Plan["delete_all_push_subscriptions"][1][1] = "delete"
      /\ Plan["delete_all_push_subscriptions"][1][2] = "subscription"
  BY DEF Plan
<1>3. \A at \in 1..1 : at = 1
  OBVIOUS
<1>4. QED
  BY <1>1, <1>2, <1>3 DEF PushAt

UserAt(at, verb, kind) ==
  \/ at = 1 /\ verb = "list" /\ kind = "search"
  \/ at = 2 /\ verb = "delete" /\ kind = "search"
  \/ at = 3 /\ verb = "delete_found" /\ kind = "cache"
  \/ at = 4 /\ verb = "list" /\ kind = "lot"
  \/ at = 5 /\ verb = "delete_listed" /\ kind = "snapshot"
  \/ at = 6 /\ verb = "delete" /\ kind = "lot"
  \/ at = 7 /\ verb = "delete" /\ kind = "connection"
  \/ at = 8 /\ verb = "delete" /\ kind = "subscription"
  \/ at = 9 /\ verb = "delete" /\ kind = "invite"
  \/ at = 10 /\ verb = "delete" /\ kind = "account"

LEMMA UserSteps ==
  /\ Steps("delete_user") = 10
  /\ \A at \in 1..10 : UserAt(at, Plan["delete_user"][at][1], Plan["delete_user"][at][2])
<1>1. Steps("delete_user") = 10
  BY DEF Plan, Steps
<1>2. /\ Plan["delete_user"][1][1] = "list" /\ Plan["delete_user"][1][2] = "search"
      /\ Plan["delete_user"][2][1] = "delete" /\ Plan["delete_user"][2][2] = "search"
      /\ Plan["delete_user"][3][1] = "delete_found"
      /\ Plan["delete_user"][3][2] = "cache"
      /\ Plan["delete_user"][4][1] = "list" /\ Plan["delete_user"][4][2] = "lot"
      /\ Plan["delete_user"][5][1] = "delete_listed"
      /\ Plan["delete_user"][5][2] = "snapshot"
  BY DEF Plan
<1>3. /\ Plan["delete_user"][6][1] = "delete" /\ Plan["delete_user"][6][2] = "lot"
      /\ Plan["delete_user"][7][1] = "delete" /\ Plan["delete_user"][7][2] = "connection"
      /\ Plan["delete_user"][8][1] = "delete"
      /\ Plan["delete_user"][8][2] = "subscription"
      /\ Plan["delete_user"][9][1] = "delete" /\ Plan["delete_user"][9][2] = "invite"
      /\ Plan["delete_user"][10][1] = "delete" /\ Plan["delete_user"][10][2] = "account"
  BY DEF Plan
<1>4. \A at \in 1..10 : at \in 1..5 \/ at \in 6..10
  OBVIOUS
<1>5. \A at \in 1..5 : UserAt(at, Plan["delete_user"][at][1], Plan["delete_user"][at][2])
  <2>1. \A at \in 1..5 : at = 1 \/ at = 2 \/ at = 3 \/ at = 4 \/ at = 5
    OBVIOUS
  <2>2. QED
    BY <1>2, <2>1 DEF UserAt
<1>6. \A at \in 6..10 : UserAt(at, Plan["delete_user"][at][1], Plan["delete_user"][at][2])
  <2>1. \A at \in 6..10 : at = 6 \/ at = 7 \/ at = 8 \/ at = 9 \/ at = 10
    OBVIOUS
  <2>2. QED
    BY <1>3, <2>1 DEF UserAt
<1>7. QED
  BY <1>1, <1>4, <1>5, <1>6

LEMMA PlanLengths == \A op \in DeleteOps : Steps(op) \in 1..10
  BY SavedSearchSteps, AllSearchesSteps, TrackedLotSteps, AllLotsSteps, PurgeSteps, PushSteps,
     UserSteps DEF DeleteOps

LEMMA StepTable ==
  ASSUME NEW op \in DeleteOps, NEW at \in 1..Steps(op)
  PROVE  \/ op = "delete_saved_search" /\ SavedSearchAt(at, Plan[op][at][1], Plan[op][at][2])
         \/ op = "delete_all_saved_searches" /\ AllSearchesAt(at, Plan[op][at][1], Plan[op][at][2])
         \/ op = "delete_tracked_lot" /\ TrackedLotAt(at, Plan[op][at][1], Plan[op][at][2])
         \/ op = "delete_all_tracked_lots" /\ AllLotsAt(at, Plan[op][at][1], Plan[op][at][2])
         \/ op = "purge_snapshots" /\ PurgeAt(at, Plan[op][at][1], Plan[op][at][2])
         \/ op = "delete_all_push_subscriptions" /\ PushAt(at, Plan[op][at][1], Plan[op][at][2])
         \/ op = "delete_user" /\ UserAt(at, Plan[op][at][1], Plan[op][at][2])
  BY SavedSearchSteps, AllSearchesSteps, TrackedLotSteps, AllLotsSteps, PurgeSteps, PushSteps,
     UserSteps DEF DeleteOps

\* Only the deletion of a user touches invites and accounts.
LEMMA AccountStepOnly ==
  ASSUME NEW op \in DeleteOps, NEW at \in 1..Steps(op)
  PROVE  /\ Plan[op][at][2] = "invite" => op = "delete_user" /\ at = 9
         /\ Plan[op][at][2] = "account" => op = "delete_user" /\ at = 10
<1> DEFINE verb == Plan[op][at][1]
           kind == Plan[op][at][2]
<1>1. CASE SavedSearchAt(at, verb, kind) \/ AllSearchesAt(at, verb, kind)
  BY <1>1 DEF SavedSearchAt, AllSearchesAt
<1>2. CASE TrackedLotAt(at, verb, kind) \/ AllLotsAt(at, verb, kind)
  BY <1>2 DEF TrackedLotAt, AllLotsAt
<1>3. CASE PurgeAt(at, verb, kind) \/ PushAt(at, verb, kind)
  BY <1>3 DEF PurgeAt, PushAt
<1>4. CASE op = "delete_user" /\ UserAt(at, verb, kind)
  BY <1>4 DEF UserAt
<1>5. QED
  BY <1>1, <1>2, <1>3, <1>4, StepTable

LEMMA NextStepMoves ==
  ASSUME RequestsOK, NEW r \in Requests, req[r].pc = "erase",
         NEW listed \in SUBSET Nat, NextStep(r, listed), req[r].at # Steps(req[r].op)
  PROVE  req' = [req EXCEPT ![r] = [req[r] EXCEPT !.at = @ + 1, !.listed = listed]]
  BY DEF NextStep, RequestsOK, Steps

LEMMA NextStepKeeps ==
  ASSUME RequestsOK, Keeps(users, users'), NEW r \in Requests, req[r].pc = "erase",
         NEW listed \in SUBSET Nat, NextStep(r, listed)
  PROVE  RequestsOK'
<1>1. CASE req[r].at = Steps(req[r].op)
  BY <1>1, ReturnKeeps DEF NextStep, Steps
<1>2. CASE req[r].at # Steps(req[r].op)
  <2> DEFINE q == [req[r] EXCEPT !.at = @ + 1, !.listed = listed]
  <2>1. req[r] \in RequestDocs /\ Coherent(req[r]) /\ Known(req[r], users')
    BY KnownKept DEF RequestsOK
  <2>2. /\ q \in RequestDocs /\ q.pc = req[r].pc /\ q.op = req[r].op
        /\ q.target = req[r].target /\ q.seen = req[r].seen /\ q.at = req[r].at + 1
        /\ q.listed = listed
    BY <2>1, NextFields
  <2>3. q.at \in 1..Steps(q.op) /\ q.op \in DeleteOps
    BY <1>2, <2>1, <2>2, PlanLengths DEF Coherent
  <2>4. Coherent(q) /\ Known(q, users')
    BY <2>1, <2>2, <2>3 DEF Coherent, Known
  <2>5. req' = [req EXCEPT ![r] = q]
    BY <1>2, NextStepMoves
  <2>6. QED
    BY <2>2, <2>4, <2>5, OneMoves
<1>3. QED
  BY <1>1, <1>2

LEMMA StartActionMoves ==
  ASSUME Typed, NEW r \in Requests, NEW u \in Ids, StartAction(r, u)
  PROVE  \E q \in RequestDocs :
           /\ req' = [req EXCEPT ![r] = q]
           /\ q.op = req[r].op /\ q.target = u /\ q.seen = users[u] /\ q.at = 1 /\ q.listed = {}
           /\ q.pc = IF q.op \in Guarded THEN "guard"
                     ELSE IF q.op \in DeleteOps THEN "erase" ELSE "update"
<1> DEFINE read == [req[r] EXCEPT !.target = u, !.seen = users[u]]
<1>1. /\ req[r] \in RequestDocs /\ req[r].at = 1 /\ req[r].listed = {} /\ users[u] \in UserDocs
  BY DEF StartAction, Typed, AccountsInv, RequestsOK, UsersOK, Coherent
<1>2. /\ read \in RequestDocs /\ read.op = req[r].op /\ read.target = u /\ read.seen = users[u]
      /\ read.at = req[r].at /\ read.listed = req[r].listed
  BY <1>1 DEF RequestDocs
<1>3. req' = [req EXCEPT ![r] = IF read.op \in Guarded THEN [read EXCEPT !.pc = "guard"]
                                ELSE Proceed(read)]
  BY DEF StartAction
<1> HIDE DEF read
<1> DEFINE pc == IF read.op \in Guarded THEN "guard"
                 ELSE IF read.op \in DeleteOps THEN "erase" ELSE "update"
           q == [read EXCEPT !.pc = pc]
<1>4. pc \in Pcs
  BY DEF Pcs
<1>5. req' = [req EXCEPT ![r] = q]
  BY <1>3 DEF Proceed
<1> HIDE DEF pc
<1>6. /\ q \in RequestDocs /\ q.pc = pc /\ q.op = read.op /\ q.target = read.target
      /\ q.seen = read.seen /\ q.at = read.at /\ q.listed = read.listed
  BY <1>2, <1>4, PcFields
<1> HIDE DEF q
<1>7. QED
  BY <1>1, <1>2, <1>5, <1>6 DEF pc

LEMMA GuardMoves ==
  ASSUME Typed, NEW r \in Requests, Guard(r), ~Return(r)
  PROVE  \E q \in RequestDocs :
           /\ req' = [req EXCEPT ![r] = q]
           /\ q.op = req[r].op /\ q.target = req[r].target /\ q.seen = req[r].seen
           /\ q.at = 1 /\ q.listed = {}
           /\ q.pc = IF q.op \in DeleteOps THEN "erase" ELSE "update"
<1>1. req[r] \in RequestDocs /\ req[r].at = 1 /\ req[r].listed = {}
  BY DEF Guard, Typed, AccountsInv, RequestsOK, Coherent
<1> DEFINE pc == IF req[r].op \in DeleteOps THEN "erase" ELSE "update"
           q == [req[r] EXCEPT !.pc = pc]
<1>2. pc \in Pcs
  BY DEF Pcs
<1>3. req' = [req EXCEPT ![r] = q]
  BY DEF Guard, Typed, AccountsInv, RequestsOK, Proceed
<1> HIDE DEF pc
<1>4. /\ q \in RequestDocs /\ q.pc = pc /\ q.op = req[r].op /\ q.target = req[r].target
      /\ q.seen = req[r].seen /\ q.at = req[r].at /\ q.listed = req[r].listed
  BY <1>1, <1>2, PcFields
<1> HIDE DEF q
<1>5. QED
  BY <1>1, <1>3, <1>4 DEF pc

\* The answers under way become late.
LEMMA EraseAccountMoves ==
  ASSUME RequestsOK, NEW r \in Requests, EraseAccount(r), Keeps(users, users')
  PROVE  /\ RequestsOK' /\ req[r].op = "delete_user" /\ req[r].at = 10 /\ req'[r] = Idle
         /\ \A p \in Requests \ {r} :
              req'[p] = IF req[p].pc = "create" THEN [req[p] EXCEPT !.late = TRUE] ELSE req[p]
<1>1. req[r].op \in DeleteOps /\ req[r].at \in 1..Steps(req[r].op)
      /\ Step(req[r])[2] = "account"
  BY DEF RequestsOK, Coherent, EraseAccount
<1>2. req[r].op = "delete_user" /\ req[r].at = 10
  BY <1>1, AccountStepOnly DEF Step
<1>3. /\ req'[r] = Idle
      /\ \A p \in Requests \ {r} :
           req'[p] = IF req[p].pc = "create" THEN [req[p] EXCEPT !.late = TRUE] ELSE req[p]
  BY <1>2, UserSteps DEF EraseAccount, Steps
<1>4. \A p \in Requests : req'[p] \in RequestDocs /\ Coherent(req'[p]) /\ Known(req'[p], users')
  <2> SUFFICES ASSUME NEW p \in Requests
               PROVE  req'[p] \in RequestDocs /\ Coherent(req'[p]) /\ Known(req'[p], users')
    OBVIOUS
  <2>1. req[p] \in RequestDocs /\ Coherent(req[p]) /\ Known(req[p], users')
    BY KnownKept DEF RequestsOK
  <2>2. CASE p = r
    BY <1>3, <2>2, IdleFields DEF Known
  <2>3. CASE p # r /\ req[p].pc = "create"
    BY <1>3, <2>1, <2>3, LateFields DEF Coherent, Known
  <2>4. CASE p # r /\ req[p].pc # "create"
    BY <1>3, <2>1, <2>4
  <2>5. QED
    BY <2>2, <2>3, <2>4
<1>5. req' \in [Requests -> RequestDocs]
  BY <1>4 DEF EraseAccount
<1>6. QED
  BY <1>2, <1>3, <1>4, <1>5 DEF RequestsOK

LEMMA AddMoves ==
  ASSUME Typed, NEW r \in Requests, NEW op \in UserOps, NEW kind \in {"search", "lot"},
         Add(r, op, kind)
  PROVE  /\ serial' = serial + 1 /\ serial' \in 0..MaxDocs
         /\ <<req[r].by, kind, serial'>> \in Bases
         /\ \E q \in RequestDocs : /\ req' = [req EXCEPT ![r] = q] /\ q.pc = "derive"
                                  /\ q.listed = {<<req[r].by, kind, serial'>>}
<1> DEFINE d == <<req[r].by, kind, serial'>>
           q == [req[r] EXCEPT !.pc = "derive", !.listed = {d}]
<1>1. req[r] \in RequestDocs /\ req[r].by \in Ids
  BY DEF Add, Typed, AccountsInv, RequestsOK, Coherent
<1>2. serial' = serial + 1 /\ serial' \in 1..MaxDocs /\ serial' \in 0..MaxDocs
  BY DocsAssumption DEF Add, Typed, DataInv
<1>3. d \in Bases
  BY <1>1, <1>2 DEF Bases
<1>4. req' = [req EXCEPT ![r] = q]
  BY DEF Add, Typed, AccountsInv, RequestsOK
<1>5. q \in RequestDocs /\ q.pc = "derive" /\ q.listed = {d}
  BY <1>1, <1>3, AddFields
<1> HIDE DEF q
<1>6. QED
  BY <1>2, <1>3, <1>4, <1>5

LEMMA ListedTyped ==
  ASSUME Typed, NEW r \in Requests, EraseList(r) \/ EraseDocs(r) \/ EraseInvites(r)
  PROVE  \E listed \in SUBSET Nat : NextStep(r, listed) /\ req[r].pc = "erase"
<1>1. \A d \in docs : d[3] \in Nat
  BY DocsAssumption DEF Typed, DataInv
<1>2. CASE EraseList(r)
  <2> DEFINE found == {d[3] : d \in KindOf(OwnedBy(req[r].target), Step(req[r])[2])}
  <2>1. found \subseteq Nat
    BY <1>1 DEF KindOf, OwnedBy
  <2>2. NextStep(r, found) \/ \E k \in found : NextStep(r, {k})
    BY <1>2 DEF EraseList
  <2> HIDE DEF found
  <2>3. QED
    BY <1>2, <2>1, <2>2 DEF EraseList
<1>3. CASE EraseDocs(r)
  <2>1. req[r].listed \in SUBSET Nat /\ req[r].pc = "erase"
    BY <1>3 DEF EraseDocs, Typed, AccountsInv, RequestsOK, Coherent
  <2>2. QED
    BY <1>3, <2>1 DEF EraseDocs
<1>4. CASE EraseInvites(r)
  BY <1>4 DEF EraseInvites
<1>5. QED
  BY <1>2, <1>3, <1>4

\* Every step leaves the requests coherent, and their targets known.
LEMMA RequestsStep ==
  ASSUME Typed, [Next]_vars PROVE RequestsOK'
<1>1. RequestsOK /\ Keeps(users, users')
  BY UsersStep DEF Typed, AccountsInv
<1>2. \A r \in Requests : req[r] \in RequestDocs /\ Coherent(req[r]) /\ Known(req[r], users')
  BY <1>1, KnownKept DEF RequestsOK
<1>3. CASE UNCHANGED req
  BY <1>1, <1>2, <1>3 DEF RequestsOK
<1>4. ASSUME NEW r \in Requests, Return(r) PROVE RequestsOK'
  BY <1>1, <1>4, ReturnKeeps
<1>5. ASSUME NEW r \in Requests, NEW email \in Emails, StartInvite(r, email) PROVE RequestsOK'
  <2> DEFINE q == [req[r] EXCEPT !.pc = "insert", !.email = email]
  <2>1. q \in RequestDocs /\ q.pc = "insert"
    BY <1>2, InviteFields
  <2>2. req' = [req EXCEPT ![r] = q]
    BY <1>1, <1>5 DEF StartInvite, RequestsOK
  <2> HIDE DEF q
  <2>3. QED
    BY <1>1, <2>1, <2>2, OneMoves DEF Coherent, Known
<1>6. ASSUME NEW r \in Requests, NEW i \in Invites, StartRevoke(r, i) PROVE RequestsOK'
  <2> DEFINE q == [req[r] EXCEPT !.pc = "revoke", !.target = i]
  <2>1. q \in RequestDocs /\ q.pc = "revoke" /\ q.target = i
    BY <1>2, RevokeFields
  <2>2. req' = [req EXCEPT ![r] = q]
    BY <1>1, <1>6 DEF StartRevoke, RequestsOK
  <2> HIDE DEF q
  <2>3. QED
    BY <1>1, <2>1, <2>2, OneMoves DEF Coherent, Known
<1>7. ASSUME NEW r \in Requests, NEW i \in Invites, StartAccept(r, i) PROVE RequestsOK'
  <2> DEFINE q == [Idle EXCEPT !.op = "accept_invite", !.pc = "create", !.target = i]
  <2>1. q \in RequestDocs /\ Coherent(q) /\ q.pc = "create"
    BY AnswerFields
  <2>2. req' = [req EXCEPT ![r] = q]
    BY <1>7 DEF StartAccept, Call
  <2> HIDE DEF q
  <2>3. QED
    BY <1>1, <2>1, <2>2, OneMoves DEF Known
<1>8. ASSUME NEW r \in Requests, NEW u \in Ids, NEW op \in Ops, Authenticate(r, u, op)
      PROVE  RequestsOK'
  <2> DEFINE q == [Idle EXCEPT !.op = op, !.pc = "start", !.by = u]
  <2>1. q \in RequestDocs /\ Coherent(q) /\ q.pc = "start"
    BY CallFields, AccountsAssumption
  <2>2. req' = [req EXCEPT ![r] = q]
    BY <1>8 DEF Authenticate, Call
  <2> HIDE DEF q
  <2>3. QED
    BY <1>1, <2>1, <2>2, OneMoves DEF Known
<1>9. ASSUME NEW r \in Requests, CreateUser(r) PROVE RequestsOK'
  <2> DEFINE q == [req[r] EXCEPT !.pc = "mark"]
  <2>1. q \in RequestDocs /\ q.pc = "mark" /\ q.target = req[r].target
    BY <1>2, PcFields DEF Pcs
  <2>2. req' = [req EXCEPT ![r] = q] /\ req[r].target \in Invites
    BY <1>1, <1>2, <1>9 DEF CreateUser, Goto, RequestsOK, Coherent
  <2> HIDE DEF q
  <2>3. QED
    BY <1>1, <2>1, <2>2, OneMoves DEF Coherent, Known
<1>10. ASSUME NEW r \in Requests, NEW op \in UserOps, NEW kind \in {"search", "lot"},
         Add(r, op, kind)
       PROVE  RequestsOK'
  <2>0. Add(r, op, kind)
    BY <1>10
  <2>1. /\ <<req[r].by, kind, serial'>> \in Bases
        /\ \E q \in RequestDocs : /\ req' = [req EXCEPT ![r] = q] /\ q.pc = "derive"
                                 /\ q.listed = {<<req[r].by, kind, serial'>>}
    BY <2>0, AddMoves
  <2>2. QED
    BY <1>1, <2>1, OneMoves DEF Coherent, Known
<1>11. ASSUME NEW r \in Requests, NEW u \in Ids, StartAction(r, u) PROVE RequestsOK'
  <2>1. PICK q \in RequestDocs :
          /\ req' = [req EXCEPT ![r] = q]
          /\ q.op = req[r].op /\ q.target = u /\ q.seen = users[u] /\ q.at = 1 /\ q.listed = {}
          /\ q.pc = IF q.op \in Guarded THEN "guard"
                    ELSE IF q.op \in DeleteOps THEN "erase" ELSE "update"
    BY <1>11, StartActionMoves
  <2>2. Coherent(q)
    BY <2>1, PlanLengths DEF Coherent
  <2>3. users' = users /\ users[u].status # "none"
    BY <1>11 DEF StartAction, Live
  <2>4. Known(q, users')
    BY <2>1, <2>3 DEF Known
  <2>5. QED
    BY <1>1, <2>1, <2>2, <2>4, OneMoves
<1>12. ASSUME NEW r \in Requests, Guard(r), ~Return(r) PROVE RequestsOK'
  <2>1. PICK q \in RequestDocs :
          /\ req' = [req EXCEPT ![r] = q]
          /\ q.op = req[r].op /\ q.target = req[r].target /\ q.seen = req[r].seen
          /\ q.at = 1 /\ q.listed = {}
          /\ q.pc = IF q.op \in DeleteOps THEN "erase" ELSE "update"
    BY <1>12, GuardMoves
  <2>2. Coherent(q)
    BY <2>1, PlanLengths DEF Coherent
  <2>3. Known(q, users')
    BY <1>2, <1>12, <2>1 DEF Known, Guard
  <2>4. QED
    BY <1>1, <2>1, <2>2, <2>3, OneMoves
<1>13. ASSUME NEW r \in Requests, EraseList(r) \/ EraseDocs(r) \/ EraseInvites(r)
       PROVE  RequestsOK'
  <2>1. \E listed \in SUBSET Nat : NextStep(r, listed) /\ req[r].pc = "erase"
    BY <1>2, <1>13, ListedTyped
  <2>2. QED
    BY <1>1, <2>1, NextStepKeeps
<1>14. ASSUME NEW r \in Requests, EraseAccount(r) PROVE RequestsOK'
  BY <1>1, <1>14, EraseAccountMoves
<1>15. ASSUME NEW r \in Requests, ActionStep(r) PROVE RequestsOK'
  BY <1>4, <1>11, <1>12, <1>13, <1>14, <1>15 DEF ActionStep, UpdateUser
<1>16. CASE AccountStep
  BY <1>3, <1>4, <1>5, <1>6, <1>7, <1>8, <1>9, <1>16
     DEF AccountStep, InviteStep, Startup, InsertInvite, Expire, Revoke, MarkAccepted
<1>17. ASSUME NEW r \in Requests, OwnerStep(r) \/ RequestCutOff(r) PROVE RequestsOK'
  BY <1>4, <1>10, <1>17 DEF OwnerStep, UserOps, Derive, Upsert, RequestCutOff, CutOff
<1>18. CASE (\E d \in docs : Copy(d)) \/ (\E d \in copies : StoreResults(d)) \/ UNCHANGED vars
  BY <1>3, <1>18 DEF Copy, StoreResults, accountVars, vars
<1>19. QED
  BY <1>15, <1>16, <1>17, <1>18 DEF Next

----------------------------------------------------------------------------
(* Type correctness.                                                       *)

LEMMA CountersStep ==
  ASSUME Typed, [Next]_vars PROVE calls' \in 0..MaxCalls /\ made' \in [Invites -> Nat]
<1> USE DEF Typed, AccountsInv
<1>1. ASSUME NEW r \in Requests, NEW q, Call(r, q) PROVE calls' \in 0..MaxCalls
  BY <1>1, AccountsAssumption DEF Call
<1>2. ASSUME NEW r \in Requests, CreateUser(r) PROVE made' \in [Invites -> Nat]
  <2>1. req[r].target \in Invites
    BY <1>2 DEF RequestsOK, Coherent, CreateUser
  <2>2. made[req[r].target] + 1 \in Nat
    BY <2>1
  <2>3. QED
    BY <1>2, <2>1, <2>2 DEF CreateUser
<1>3. CASE AccountStep
  BY <1>1, <1>2, <1>3
     DEF AccountStep, InviteStep, Authenticate, StartInvite, InsertInvite, Expire, StartRevoke,
         Revoke, StartAccept, CreateUser, MarkAccepted, Startup
<1>4. ASSUME NEW r \in Requests, OwnerStep(r) \/ RequestCutOff(r)
      PROVE  UNCHANGED <<calls, made>>
  BY <1>4 DEF OwnerStep, Add, Derive, Upsert, RequestCutOff, CutOff
<1>5. ASSUME NEW r \in Requests, ActionStep(r) PROVE UNCHANGED <<calls, made>>
  BY <1>5 DEF ActionStep, StartAction, Guard, UpdateUser, EraseList, EraseDocs, EraseInvites,
              EraseAccount
<1>6. CASE (\E d \in docs : Copy(d)) \/ (\E d \in copies : StoreResults(d)) \/ UNCHANGED vars
  BY <1>6 DEF Copy, StoreResults, accountVars, vars
<1>7. QED
  BY <1>3, <1>4, <1>5, <1>6 DEF Next

\* An invite is stored once; after that its email stays, and so does its deletion.
Lasting(before, then) ==
  \A i \in Invites :
    /\ before[i].status # "none" => then[i].status # "none" /\ then[i].email = before[i].email
    /\ before[i].status = "deleted" => then[i].status = "deleted"

LEMMA InviteChanges ==
  ASSUME invites \in [Invites -> InviteDocs], NEW i \in Invites, NEW d \in InviteDocs,
         invites[i].status # "none" =>
           /\ d.status # "none" /\ d.email = invites[i].email
           /\ invites[i].status = "deleted" => d.status = "deleted",
         invites' = [invites EXCEPT ![i] = d]
  PROVE  invites' \in [Invites -> InviteDocs] /\ Lasting(invites, invites')
  BY DEF Lasting

LEMMA MarkKeeps ==
  ASSUME invites \in [Invites -> InviteDocs], NEW i \in Invites,
         NEW status \in {"revoked", "accepted"}, Mark(i, status)
  PROVE  invites' \in [Invites -> InviteDocs] /\ Lasting(invites, invites')
<1> DEFINE d == [invites[i] EXCEPT !.status = status]
<1>1. d \in InviteDocs /\ d.email = invites[i].email /\ d.status = status
  BY DEF InviteDocs
<1>2. CASE invites[i].status = "deleted"
  BY <1>2 DEF Mark, Lasting
<1>3. CASE invites[i].status # "deleted"
  <2>1. invites' = [invites EXCEPT ![i] = d]
    BY <1>3 DEF Mark
  <2> HIDE DEF d
  <2>2. QED
    BY <1>1, <1>3, <2>1, InviteChanges
<1>4. QED
  BY <1>2, <1>3

LEMMA EraseInvitesKeeps ==
  ASSUME invites \in [Invites -> InviteDocs], NEW r \in Requests, EraseInvites(r)
  PROVE  invites' \in [Invites -> InviteDocs] /\ Lasting(invites, invites')
<1>1. \A i \in Invites : /\ invites'[i] \in InviteDocs /\ invites'[i].email = invites[i].email
                         /\ invites'[i].status \in {invites[i].status, "deleted"}
  BY DEF EraseInvites, InviteDocs
<1>2. invites' \in [Invites -> InviteDocs]
  BY <1>1 DEF EraseInvites
<1>3. QED
  BY <1>1, <1>2 DEF Lasting

LEMMA InvitesStep ==
  ASSUME Typed, [Next]_vars
  PROVE  invites' \in [Invites -> InviteDocs] /\ Lasting(invites, invites')
<1> USE DEF Typed, AccountsInv
<1>1. CASE UNCHANGED invites
  BY <1>1 DEF Lasting
<1>2. ASSUME NEW r \in Requests, NEW i \in Invites, InsertInvite(r, i)
      PROVE  invites' \in [Invites -> InviteDocs] /\ Lasting(invites, invites')
  <2>1. [email |-> req[r].email, status |-> "pending", fresh |-> TRUE] \in InviteDocs
    BY DEF RequestsOK, RequestDocs, InviteDocs
  <2>2. QED
    BY <1>2, <2>1, InviteChanges DEF InsertInvite
<1>3. ASSUME NEW i \in Invites, Expire(i)
      PROVE  invites' \in [Invites -> InviteDocs] /\ Lasting(invites, invites')
  <2> DEFINE d == [invites[i] EXCEPT !.fresh = FALSE]
  <2>1. d \in InviteDocs /\ d.email = invites[i].email /\ d.status = invites[i].status
    BY DEF InviteDocs
  <2>2. invites' = [invites EXCEPT ![i] = d]
    BY <1>3 DEF Expire
  <2> HIDE DEF d
  <2>3. QED
    BY <2>1, <2>2, InviteChanges
<1>4. ASSUME NEW r \in Requests, Revoke(r) \/ MarkAccepted(r)
      PROVE  invites' \in [Invites -> InviteDocs] /\ Lasting(invites, invites')
  <2>1. req[r].target \in Invites
    BY <1>4 DEF RequestsOK, Coherent, Revoke, MarkAccepted
  <2>2. QED
    BY <1>4, <2>1, MarkKeeps DEF Revoke, MarkAccepted
<1>5. CASE AccountStep
  BY <1>1, <1>2, <1>3, <1>4, <1>5
     DEF AccountStep, InviteStep, Authenticate, StartInvite, StartRevoke, StartAccept,
         CreateUser, Startup
<1>6. ASSUME NEW r \in Requests, OwnerStep(r) \/ RequestCutOff(r) PROVE UNCHANGED invites
  BY <1>6 DEF OwnerStep, Add, Derive, Upsert, RequestCutOff, CutOff
<1>7. ASSUME NEW r \in Requests, ActionStep(r), ~EraseInvites(r) PROVE UNCHANGED invites
  BY <1>7 DEF ActionStep, StartAction, Guard, UpdateUser, EraseList, EraseDocs, EraseAccount
<1>8. CASE (\E d \in docs : Copy(d)) \/ (\E d \in copies : StoreResults(d)) \/ UNCHANGED vars
  BY <1>1, <1>8 DEF Copy, StoreResults, accountVars, vars
<1>9. QED
  BY <1>1, <1>5, <1>6, <1>7, <1>8, EraseInvitesKeeps DEF Next

----------------------------------------------------------------------------
(* What a step may do to the documents.                                    *)

Erasing(q, u) == q.pc = "erase" /\ q.target = u

Has(set, u, kind, k) == \E d \in set : d[1] = u /\ d[2] = kind /\ d[3] = k

\* No deletion of u's has begun.
Undisturbed(u, accounts, requests, broken) ==
  u \notin broken /\ Alive(accounts, u) /\ \A r \in Requests : ~Erasing(requests[r], u)

\* What may be stored for an owner who is not late.
Justified(set, d) ==
  \/ d[2] \in {"search", "lot", "subscription", "connection"}
  \/ d[2] = "cache" /\ Has(set, d[1], "search", d[3])
  \/ d[2] = "snapshot" /\ Has(set, d[1], "lot", d[3])

Stored ==
  \E d \in Ids \X Kinds \X (0..MaxDocs) :
    /\ docs' = docs \cup {d}
    /\ late' \in {late, late \cup {d[1]}}
    /\ d[1] \notin late' => Undisturbed(d[1], users, req, torn) /\ Justified(docs, d)
    /\ IF d[2] \in {"search", "lot"} THEN d[3] = serial + 1 /\ serial' = d[3]
       ELSE serial' = serial

LEMMA StoreOne ==
  ASSUME Typed, NEW d \in Ids \X Kinds \X (0..MaxDocs), NEW inOrder \in BOOLEAN,
         Store(d, inOrder), inOrder => Justified(docs, d),
         IF d[2] \in {"search", "lot"} THEN d[3] = serial + 1 /\ serial' = d[3]
         ELSE serial' = serial
  PROVE  Stored
<1>1. docs' = docs \cup {d} /\ late' \in {late, late \cup {d[1]}}
  BY DEF Store
<1>2. ASSUME d[1] \notin late' PROVE inOrder /\ ~BeingDeleted(d[1])
  BY <1>2 DEF Store
<1>3. ASSUME ~BeingDeleted(d[1]) PROVE Undisturbed(d[1], users, req, torn)
  BY <1>3 DEF BeingDeleted, Undisturbed, Live, Alive, Erasing
<1>4. QED
  BY <1>1, <1>2, <1>3 DEF Stored

LEMMA DeriveFromStores ==
  ASSUME Typed, NEW d \in Bases, DeriveFrom(d), serial' = serial PROVE Stored
<1> DEFINE e == <<d[1], Derived[d[2]], d[3]>>
<1>1. /\ d[1] \in Ids /\ d[2] \in {"search", "lot"} /\ d[3] \in 1..MaxDocs
      /\ d = <<d[1], d[2], d[3]>>
  BY DEF Bases
<1>2. /\ d[2] = "search" => Derived[d[2]] = "cache"
      /\ d[2] = "lot" => Derived[d[2]] = "snapshot"
  BY DEF Derived
<1>3. e \in Ids \X Kinds \X (0..MaxDocs) /\ e[1] = d[1] /\ e[3] = d[3]
      /\ e[2] \in {"cache", "snapshot"} /\ e[2] = Derived[d[2]]
  BY <1>1, <1>2, DocsAssumption DEF Kinds
<1>4. (d \in docs) => Justified(docs, e)
  BY <1>1, <1>2, <1>3 DEF Justified, Has
<1>5. Store(e, d \in docs)
  BY DEF DeriveFrom
<1> HIDE DEF e
<1>6. (d \in docs) \in BOOLEAN
  OBVIOUS
<1>7. QED
  BY <1>3, <1>4, <1>5, <1>6, StoreOne

LEMMA AddStores ==
  ASSUME Typed, NEW r \in Requests, NEW op \in UserOps, NEW kind \in {"search", "lot"},
         Add(r, op, kind)
  PROVE  Stored
<1>1. PICK d \in Bases : /\ d = <<req[r].by, kind, serial'>> /\ d[2] = kind
                         /\ d[3] = serial + 1 /\ serial' = d[3]
  BY AddMoves
<1>2. d \in Ids \X Kinds \X (0..MaxDocs)
  BY DocsAssumption DEF Bases, Kinds
<1>3. Store(d, TRUE)
  BY <1>1 DEF Add
<1>4. QED
  BY <1>1, <1>2, <1>3, StoreOne DEF Justified

LEMMA DeriveStores ==
  ASSUME Typed, NEW r \in Requests, Derive(r) PROVE Stored
<1>1. \E d \in req[r].listed : DeriveFrom(d)
  BY DEF Derive
<1>2. req[r].listed \subseteq Bases /\ serial' = serial
  BY DEF Derive, Typed, AccountsInv, RequestsOK, Coherent
<1>3. QED
  BY <1>1, <1>2, DeriveFromStores

LEMMA UpsertStores ==
  ASSUME Typed, NEW r \in Requests, NEW op \in UserOps,
         NEW kind \in {"subscription", "connection"}, Upsert(r, op, kind)
  PROVE  Stored
<1>1. req[r].by \in Ids /\ 0 \in 0..MaxDocs
  BY DocsAssumption DEF Upsert, Typed, AccountsInv, RequestsOK, Coherent
<1>2. kind \in Kinds
  BY DEF Kinds
<1> DEFINE e == <<req[r].by, kind, 0>>
<1>3. e \in Ids \X Kinds \X (0..MaxDocs) /\ e[2] = kind
  BY <1>1, <1>2
<1>4. Store(e, TRUE) /\ serial' = serial
  BY DEF Upsert
<1> HIDE DEF e
<1>5. QED
  BY <1>3, <1>4, StoreOne DEF Justified

LEMMA ResultsStore ==
  ASSUME Typed, NEW d \in copies, StoreResults(d) PROVE Stored
  BY DeriveFromStores DEF StoreResults, Typed, DataInv

\* Documents are stored one at a time, or some are deleted, or all stay.
LEMMA CutOffTears ==
  ASSUME Typed, NEW r \in Requests, RequestCutOff(r)
  PROVE  /\ UNCHANGED <<docs, serial, copies, users>> /\ late \subseteq late'
         /\ late' \subseteq late \cup Ids /\ torn' \subseteq torn \cup Ids
<1>1. req[r].pc = "erase" => req[r].target \in Ids
  BY DEF Typed, AccountsInv, RequestsOK, Known
<1>2. QED
  BY <1>1 DEF RequestCutOff, CutOff

LEMMA DocsStep ==
  ASSUME Typed, [Next]_vars
  PROVE  \/ Stored
         \/ \E r \in Requests : EraseDocs(r)
         \/ UNCHANGED <<docs, serial>> /\ late \subseteq late' /\ late' \subseteq late \cup Ids
<1>1. ASSUME NEW r \in Requests, OwnerStep(r) PROVE Stored
  BY <1>1, AddStores, DeriveStores, UpsertStores DEF OwnerStep, UserOps
<1>2. ASSUME NEW r \in Requests, ActionStep(r), ~EraseDocs(r)
      PROVE  UNCHANGED <<docs, serial, late>>
  BY <1>2 DEF ActionStep, StartAction, Guard, UpdateUser, EraseList, EraseInvites,
              EraseAccount, dataVars
<1>3. CASE AccountStep \/ (\E d \in docs : Copy(d)) \/ UNCHANGED vars
  BY <1>3 DEF AccountStep, Copy, dataVars, vars
<1>4. QED
  BY <1>1, <1>2, <1>3, CutOffTears, ResultsStore DEF Next

LEMMA DataStep ==
  ASSUME Typed, [Next]_vars PROVE DataInv'
<1> USE DEF Typed, DataInv
<1>1. /\ docs' \subseteq Ids \X Kinds \X (0..MaxDocs) /\ serial' \in 0..MaxDocs
      /\ late' \subseteq Ids
      /\ \A d \in docs' : d[2] \in {"search", "lot"} => d[3] \in 1..serial'
  <2>1. CASE Stored
    <3>1. PICK d \in Ids \X Kinds \X (0..MaxDocs) :
            /\ docs' = docs \cup {d} /\ late' \in {late, late \cup {d[1]}}
            /\ IF d[2] \in {"search", "lot"} THEN d[3] = serial + 1 /\ serial' = d[3]
               ELSE serial' = serial
      BY <2>1 DEF Stored
    <3>2. d[1] \in Ids /\ d[3] \in 0..MaxDocs
      OBVIOUS
    <3>3. serial' \in 0..MaxDocs /\ serial <= serial'
          /\ (d[2] \in {"search", "lot"} => d[3] \in 1..serial')
      BY <3>1, <3>2, DocsAssumption
    <3>4. QED
      BY <3>1, <3>2, <3>3
  <2>2. ASSUME NEW r \in Requests, EraseDocs(r)
        PROVE  docs' \subseteq docs /\ UNCHANGED <<serial, late>>
    BY <2>2 DEF EraseDocs
  <2>3. CASE UNCHANGED <<docs, serial>> /\ late' \subseteq late \cup Ids
    BY <2>3
  <2>4. QED
    BY <2>1, <2>2, <2>3, DocsStep
<1>2. ASSUME NEW d \in docs, Copy(d) PROVE copies' \subseteq Bases /\ torn' = torn
  <2>1. d \in Ids \X Kinds \X (0..MaxDocs) /\ d[2] \in {"search", "lot"}
    BY <1>2 DEF Copy, KindOf
  <2>2. d[3] \in 1..MaxDocs
    BY <2>1
  <2>3. d \in Bases
    BY <2>1, <2>2 DEF Bases
  <2>4. QED
    BY <1>2, <2>3 DEF Copy
<1>3. ASSUME NEW r \in Requests, OwnerStep(r) \/ ActionStep(r) PROVE UNCHANGED <<copies, torn>>
  BY <1>3 DEF OwnerStep, Add, Derive, Upsert, ActionStep, StartAction, Guard, UpdateUser,
              EraseList, EraseDocs, EraseInvites, EraseAccount, dataVars
<1>4. ASSUME NEW d \in copies, StoreResults(d) PROVE copies' \subseteq copies /\ torn' = torn
  BY <1>4 DEF StoreResults
<1>5. CASE AccountStep \/ UNCHANGED vars
  BY <1>5 DEF AccountStep, dataVars, vars
<1>6. QED
  BY <1>1, <1>2, <1>3, <1>4, <1>5, CutOffTears DEF Next

LEMMA TypedInit == Init => Typed
<1> SUFFICES ASSUME Init PROVE Typed
  OBVIOUS
<1>1. UsersOK(users)
  <2>1. PICK second \in {NoUser} \cup {Account(e, role) : e \in Emails \ {BootstrapEmail},
                                                         role \in {"user", "admin"}} :
          users = [u \in Ids |-> CASE u = 1 -> Account(BootstrapEmail, "admin")
                                   [] u = 2 -> second
                                   [] OTHER -> NoUser]
    BY DEF Init, AccountsInit
  <2>2. /\ NoUser \in UserDocs /\ NoUser.status = "none"
        /\ \A e \in Emails, role \in {"user", "admin"} :
             Account(e, role) \in UserDocs /\ Account(e, role).email = e
    BY AccountsAssumption DEF NoUser, UserDocs, Account
  <2>3. /\ second \in UserDocs
        /\ second.status = "none" \/ second.email # BootstrapEmail
    BY <2>1, <2>2
  <2>4. \A u \in Ids : users[u] = IF u = 1 THEN Account(BootstrapEmail, "admin")
                                  ELSE IF u = 2 THEN second ELSE NoUser
    BY <2>1
  <2>5. QED
    BY <2>1, <2>2, <2>3, <2>4, AccountsAssumption DEF UsersOK, Alive
<1>2. RequestsOK
  BY IdleFields DEF Init, AccountsInit, RequestsOK, Known
<1>3. AccountsInv
  BY <1>1, <1>2, AccountsAssumption
     DEF Init, AccountsInit, AccountsInv, NoInvite, InviteDocs
<1>4. DataInv
  <2>1. PICK keys \in SUBSET (1..MaxDocs \cap {1}) :
          docs = {<<1, kind, k>> : kind \in {"search", "cache", "lot", "snapshot"}, k \in keys}
    BY DEF Init
  <2>2. 1 \in Ids
    BY AccountsAssumption DEF Ids
  <2>3. \A d \in docs : d \in Ids \X Kinds \X (0..MaxDocs) /\ d[3] = 1 /\ 1 \in 1..MaxDocs
    BY <2>1, <2>2, DocsAssumption DEF Kinds
  <2>4. serial = (IF docs = {} THEN 0 ELSE 1) /\ copies = {} /\ torn = {} /\ late = {}
    BY DEF Init
  <2>5. QED
    BY <2>3, <2>4, DocsAssumption DEF DataInv
<1>5. QED
  BY <1>3, <1>4 DEF Typed

LEMMA TypedNext == Typed /\ [Next]_vars => Typed'
  BY UsersStep, RequestsStep, CountersStep, InvitesStep, DataStep DEF Typed, AccountsInv

LEMMA TypedImplies == Typed => TypeOK
<1> SUFFICES ASSUME Typed PROVE TypeOK
  OBVIOUS
<1>1. AccountsTypeOK
  BY DEF AccountsTypeOK, Typed, AccountsInv, UsersOK, RequestsOK, UserDocs, InviteDocs,
         RequestDocs, Live, Alive
<1>2. QED
  BY <1>1 DEF TypeOK, Typed, DataInv, Bases

LEMMA AlwaysTyped == Spec => []Typed
  BY TypedInit, TypedNext, PTL DEF Spec

\* However requests overlap and are cut off, documents and requests stay well formed,
\* and no two accounts have one email.
THEOREM TypeCorrect == Spec => []TypeOK
  BY AlwaysTyped, TypedImplies, PTL

----------------------------------------------------------------------------
(* The last administrator.                                                 *)

AdminIn(accounts, u) == accounts[u].status = "active" /\ accounts[u].role = "admin"

\* A request that may remove an administrator.
Removing(q) == q.op \in Guarded /\ q.pc \in {"guard", "update", "erase"}

\* Before it has looked it may rest on its target being one of several; then it has
\* found another one.
Cleared(q, accounts) ==
  \/ q.pc = "guard" /\ q.seen.role = "admin" /\ q.seen.status = "active"
  \/ \E v \in Ids : v # q.target /\ AdminIn(accounts, v)

AdminsOK(accounts, requests) ==
  /\ \E u \in Ids : AdminIn(accounts, u)
  /\ \A r, q \in Requests : Removing(requests[r]) /\ Removing(requests[q]) => r = q
  /\ \A r \in Requests : Removing(requests[r]) => Cleared(requests[r], accounts)

AdminsInv == crowded \/ AdminsOK(users, req)

\* The administrators there are stay, and no request begins to remove one.
LEMMA AdminsStay ==
  ASSUME AdminsOK(users, req),
         \A u \in Ids : AdminIn(users, u) => AdminIn(users', u),
         \A r \in Requests : Removing(req'[r]) =>
           Removing(req[r]) /\ req'[r].target = req[r].target
             /\ (req'[r].pc = "guard" => req[r].pc = "guard" /\ req'[r].seen = req[r].seen)
             /\ (req'[r].pc # "guard" => Cleared(req'[r], users) \/ req[r].pc # "guard")
  PROVE  AdminsOK(users', req')
<1>1. \A r \in Requests : Removing(req'[r]) => Cleared(req'[r], users')
  <2> SUFFICES ASSUME NEW r \in Requests, Removing(req'[r]) PROVE Cleared(req'[r], users')
    OBVIOUS
  <2>1. /\ Cleared(req[r], users) /\ req'[r].target = req[r].target
        /\ (req'[r].pc = "guard" => req[r].pc = "guard" /\ req'[r].seen = req[r].seen)
        /\ (req'[r].pc # "guard" => Cleared(req'[r], users) \/ req[r].pc # "guard")
    BY DEF AdminsOK
  <2>2. QED
    BY <2>1 DEF Cleared
<1>2. QED
  BY <1>1 DEF AdminsOK

\* Its one removal goes ahead, with another administrator left.
LEMMA OneRemoves ==
  ASSUME AdminsOK(users, req), NEW r \in Requests, Removing(req[r]), req[r].pc # "guard",
         ~Removing(req'[r]),
         \A q \in Requests \ {r} : Removing(req'[q]) => Removing(req[q]),
         \A u \in Ids \ {req[r].target} : AdminIn(users, u) => AdminIn(users', u)
  PROVE  AdminsOK(users', req')
<1>1. PICK v \in Ids : v # req[r].target /\ AdminIn(users, v)
  BY DEF AdminsOK, Cleared
<1>2. AdminIn(users', v)
  BY <1>1
<1>3. \A q \in Requests : ~Removing(req'[q])
  BY DEF AdminsOK
<1>4. QED
  BY <1>2, <1>3 DEF AdminsOK

\* A request that does not remove administrators, or ends.
Harmless(r, requests, then) ==
  /\ \A q \in Requests \ {r} : then[q] = requests[q]
  /\ Removing(then[r]) => then[r] = requests[r]

LEMMA HarmlessStay ==
  ASSUME AdminsOK(users, req), NEW r \in Requests, Harmless(r, req, req'),
         \A u \in Ids : AdminIn(users, u) => AdminIn(users', u)
  PROVE  AdminsOK(users', req')
<1>1. \A q \in Requests : Removing(req'[q]) => req'[q] = req[q]
  BY DEF Harmless
<1>2. QED
  BY <1>1, AdminsStay

LEMMA ReturnHarmless ==
  ASSUME RequestsOK, NEW r \in Requests, Return(r)
  PROVE  Harmless(r, req, req') /\ ~Removing(req'[r])
  BY IdleFields DEF Return, RequestsOK, Harmless, Removing

LEMMA InsertAdmins ==
  ASSUME UsersOK(users), NEW email, NEW role, Insert(email, role)
  PROVE  \A u \in Ids : AdminIn(users, u) => AdminIn(users', u)
  BY DEF Insert, UsersOK, AdminIn

LEMMA UpdateAdmins ==
  ASSUME Typed, AdminsOK(users, req), NEW r \in Requests,
         \/ UpdateUser(r, "block", "status", "blocked")
         \/ UpdateUser(r, "unblock", "status", "active")
         \/ UpdateUser(r, "promote", "role", "admin")
         \/ UpdateUser(r, "demote", "role", "user")
  PROVE  AdminsOK(users', req')
<1>1. Return(r) /\ req[r].pc = "update"
  BY DEF UpdateUser
<1>2. Harmless(r, req, req') /\ ~Removing(req'[r])
  BY <1>1, ReturnHarmless DEF Typed, AccountsInv
<1>3. req[r].target \in Ids /\ users \in [Ids -> UserDocs]
  BY <1>1 DEF Typed, AccountsInv, UsersOK, RequestsOK, Known
<1>4. CASE UpdateUser(r, "unblock", "status", "active") \/ UpdateUser(r, "promote", "role", "admin")
  <2>1. \A u \in Ids : AdminIn(users, u) => AdminIn(users', u)
    BY <1>3, <1>4 DEF UpdateUser, UserDocs, AdminIn
  <2>2. QED
    BY <1>2, <2>1, HarmlessStay
<1>5. CASE UpdateUser(r, "block", "status", "blocked") \/ UpdateUser(r, "demote", "role", "user")
  <2>1. \A u \in Ids \ {req[r].target} : AdminIn(users, u) => AdminIn(users', u)
    BY <1>3, <1>5 DEF UpdateUser, AdminIn
  <2>2. Removing(req[r]) /\ req[r].pc # "guard"
    BY <1>1, <1>5 DEF UpdateUser, Removing, Guarded
  <2>3. QED
    BY <1>2, <2>1, <2>2, OneRemoves DEF Harmless
<1>6. QED
  BY <1>4, <1>5

LEMMA EraseAdmins ==
  ASSUME Typed, AdminsOK(users, req), NEW r \in Requests, EraseAccount(r),
         Keeps(users, users')
  PROVE  AdminsOK(users', req')
<1>1. /\ req[r].op = "delete_user" /\ req[r].pc = "erase" /\ req'[r] = Idle
      /\ \A p \in Requests \ {r} :
           req'[p] = IF req[p].pc = "create" THEN [req[p] EXCEPT !.late = TRUE] ELSE req[p]
  BY EraseAccountMoves DEF Typed, AccountsInv, EraseAccount
<1>2. \A p \in Requests \ {r} : Removing(req'[p]) => Removing(req[p])
  <2> SUFFICES ASSUME NEW p \in Requests \ {r}, Removing(req'[p]) PROVE Removing(req[p])
    OBVIOUS
  <2>1. req[p] \in RequestDocs
    BY DEF Typed, AccountsInv, RequestsOK
  <2>2. [req[p] EXCEPT !.late = TRUE].pc = req[p].pc
    BY <2>1, LateFields
  <2>3. req[p].pc # "create"
    BY <1>1, <2>2 DEF Removing
  <2>4. QED
    BY <1>1, <2>3
<1>3. Removing(req[r]) /\ req[r].pc # "guard" /\ ~Removing(req'[r])
  BY <1>1, IdleFields DEF Removing, Guarded
<1>4. \A u \in Ids \ {req[r].target} : AdminIn(users, u) => AdminIn(users', u)
  BY DEF EraseAccount, AdminIn, Typed, AccountsInv, UsersOK
<1>5. QED
  BY <1>2, <1>3, <1>4, OneRemoves

LEMMA StartAdmins ==
  ASSUME Typed, AdminsOK(users, req), NEW r \in Requests, NEW u \in Ids, StartAction(r, u),
         ~crowded'
  PROVE  AdminsOK(users', req')
<1>1. PICK q \in RequestDocs :
        /\ req' = [req EXCEPT ![r] = q]
        /\ q.op = req[r].op /\ q.target = u /\ q.seen = users[u] /\ q.at = 1 /\ q.listed = {}
        /\ q.pc = IF q.op \in Guarded THEN "guard"
                  ELSE IF q.op \in DeleteOps THEN "erase" ELSE "update"
  BY StartActionMoves
<1>2. req'[r] = q /\ \A p \in Requests \ {r} : req'[p] = req[p]
  BY <1>1 DEF Typed, AccountsInv, RequestsOK
<1>3. users' = users
  BY DEF StartAction
<1>4. CASE q.op \notin Guarded
  <2>1. Harmless(r, req, req')
    BY <1>2, <1>4 DEF Harmless, Removing
  <2>2. QED
    BY <1>3, <2>1, HarmlessStay
<1>5. CASE q.op \in Guarded
  <2>1. \A p \in Requests \ {r} : ~Removing(req[p])
    BY <1>1, <1>5 DEF StartAction, Removing
  <2>2. Cleared(q, users)
    BY <1>1, <1>5 DEF Cleared, AdminsOK, AdminIn
  <2>3. QED
    BY <1>2, <1>3, <2>1, <2>2 DEF AdminsOK
<1>6. QED
  BY <1>4, <1>5

LEMMA GuardAdmins ==
  ASSUME Typed, AdminsOK(users, req), NEW r \in Requests, Guard(r)
  PROVE  AdminsOK(users', req')
<1>1. users' = users /\ req[r].pc = "guard"
  BY DEF Guard
<1>2. CASE Return(r)
  <2>1. Harmless(r, req, req')
    BY <1>2, ReturnHarmless DEF Typed, AccountsInv
  <2>2. QED
    BY <1>1, <2>1, HarmlessStay
<1>3. CASE ~Return(r)
  <2>1. PICK q \in RequestDocs :
          /\ req' = [req EXCEPT ![r] = q]
          /\ q.op = req[r].op /\ q.target = req[r].target /\ q.seen = req[r].seen
          /\ q.at = 1 /\ q.listed = {}
          /\ q.pc = IF q.op \in DeleteOps THEN "erase" ELSE "update"
    BY <1>3, GuardMoves
  <2>2. req'[r] = q /\ \A p \in Requests \ {r} : req'[p] = req[p]
    BY <2>1 DEF Typed, AccountsInv, RequestsOK
  <2>3. Removing(req[r])
    BY <1>1 DEF Typed, AccountsInv, RequestsOK, Coherent, Removing
  <2>4. ~LastActiveAdmin(req[r].seen, req[r].target)
    BY <1>3 DEF Guard
  <2>5. Cleared(req[r], users)
    BY <2>3 DEF AdminsOK
  <2>6. \E v \in Ids : v # req[r].target /\ AdminIn(users, v)
    BY <2>4, <2>5 DEF Cleared, LastActiveAdmin, Admin, Active, AdminIn
  <2>7. Cleared(q, users)
    BY <2>1, <2>6 DEF Cleared
  <2>8. QED
    BY <1>1, <2>2, <2>3, <2>7 DEF AdminsOK, Removing
<1>4. QED
  BY <1>2, <1>3

LEMMA NextStepAdmins ==
  ASSUME Typed, AdminsOK(users, req), NEW r \in Requests,
         EraseList(r) \/ EraseDocs(r) \/ EraseInvites(r)
  PROVE  AdminsOK(users', req')
<1>1. users' = users
  BY DEF EraseList, EraseDocs, EraseInvites
<1>2. PICK listed \in SUBSET Nat : NextStep(r, listed) /\ req[r].pc = "erase"
  BY ListedTyped
<1>3. CASE Return(r)
  <2>1. Harmless(r, req, req')
    BY <1>3, ReturnHarmless DEF Typed, AccountsInv
  <2>2. QED
    BY <1>1, <2>1, HarmlessStay
<1>4. CASE ~Return(r)
  <2> DEFINE q == [req[r] EXCEPT !.at = @ + 1, !.listed = listed]
  <2>1. req' = [req EXCEPT ![r] = q]
    BY <1>2, <1>4, NextStepMoves DEF Typed, AccountsInv, NextStep, Steps
  <2>2. q.pc = req[r].pc /\ q.op = req[r].op /\ q.target = req[r].target
    BY NextFields DEF Typed, AccountsInv, RequestsOK
  <2> HIDE DEF q
  <2>3. req'[r] = q /\ \A p \in Requests \ {r} : req'[p] = req[p]
    BY <2>1 DEF Typed, AccountsInv, RequestsOK
  <2>4. QED
    BY <1>1, <1>2, <2>2, <2>3, AdminsStay DEF Removing
<1>5. QED
  BY <1>3, <1>4

\* What else happens to a request leaves it in no position to remove anybody.
LEMMA PlainAdmins ==
  ASSUME AdminsOK(users, req), RequestsOK, NEW r \in Requests, NEW q,
         q.pc \notin {"guard", "update", "erase"}, req' = [req EXCEPT ![r] = q],
         \A u \in Ids : AdminIn(users, u) => AdminIn(users', u)
  PROVE  AdminsOK(users', req')
<1>1. Harmless(r, req, req')
  BY DEF Harmless, RequestsOK, Removing
<1>2. QED
  BY <1>1, HarmlessStay

LEMMA AdminsStep ==
  ASSUME Typed, AdminsInv, [Next]_vars PROVE AdminsInv'
<1> SUFFICES ASSUME ~crowded' PROVE AdminsOK(users', req')
  BY DEF AdminsInv
<1>1. RequestsOK /\ UsersOK(users) /\ Keeps(users, users')
  BY UsersStep DEF Typed, AccountsInv
<1>2. AdminsOK(users, req)
  <2>1. ~crowded
    BY DEF Next, vars, AccountStep, dataVars, OwnerStep, Add, Derive, Upsert, ActionStep,
           StartAction, Guard, UpdateUser, EraseList, EraseDocs, EraseInvites, EraseAccount,
           RequestCutOff, Copy, StoreResults
  <2>2. QED
    BY <2>1 DEF AdminsInv
<1>3. CASE UNCHANGED <<users, req>>
  BY <1>2, <1>3
<1>4. ASSUME NEW r \in Requests, Return(r), users' = users PROVE AdminsOK(users', req')
  BY <1>1, <1>2, <1>4, ReturnHarmless, HarmlessStay
<1>5. ASSUME NEW r \in Requests, NEW q, Call(r, q), users' = users, q.pc \in {"start", "create"}
      PROVE  AdminsOK(users', req')
  BY <1>1, <1>2, <1>5, PlainAdmins DEF Call
<1>6. CASE Startup
  <2>1. \A u \in Ids : AdminIn(users, u) => AdminIn(users', u)
    BY <1>1, <1>6, InsertAdmins DEF Startup
  <2>2. req' = req
    BY <1>6 DEF Startup
  <2>3. QED
    BY <1>2, <2>1, <2>2, AdminsStay
<1>7. ASSUME NEW r \in Requests, CreateUser(r) PROVE AdminsOK(users', req')
  <2>1. \A u \in Ids : AdminIn(users, u) => AdminIn(users', u)
    BY <1>1, <1>7, InsertAdmins DEF CreateUser
  <2>2. req' = [req EXCEPT ![r].pc = "mark"] /\ "mark" \in Pcs \ {"guard", "update", "erase"}
    BY <1>7 DEF CreateUser, Goto, Pcs
  <2>3. [req[r] EXCEPT !.pc = "mark"].pc = "mark"
    BY <1>1 DEF RequestsOK, RequestDocs
  <2>4. req' = [req EXCEPT ![r] = [req[r] EXCEPT !.pc = "mark"]]
    BY <1>1, <2>2 DEF RequestsOK
  <2>5. QED
    BY <1>1, <1>2, <2>1, <2>3, <2>4, PlainAdmins
<1>8. ASSUME NEW r \in Requests, NEW email \in Emails, StartInvite(r, email)
      PROVE  AdminsOK(users', req')
  <2> DEFINE q == [req[r] EXCEPT !.pc = "insert", !.email = email]
  <2>1. q.pc = "insert"
    BY <1>1, InviteFields DEF RequestsOK
  <2>2. req' = [req EXCEPT ![r] = q] /\ users' = users
    BY <1>1, <1>8 DEF StartInvite, RequestsOK
  <2> HIDE DEF q
  <2>3. QED
    BY <1>1, <1>2, <2>1, <2>2, PlainAdmins
<1>9. ASSUME NEW r \in Requests, NEW i \in Invites, StartRevoke(r, i)
      PROVE  AdminsOK(users', req')
  <2> DEFINE q == [req[r] EXCEPT !.pc = "revoke", !.target = i]
  <2>1. q.pc = "revoke"
    BY <1>1, RevokeFields DEF RequestsOK
  <2>2. req' = [req EXCEPT ![r] = q] /\ users' = users
    BY <1>1, <1>9 DEF StartRevoke, RequestsOK
  <2> HIDE DEF q
  <2>3. QED
    BY <1>1, <1>2, <2>1, <2>2, PlainAdmins
<1>10. ASSUME NEW r \in Requests, NEW i \in Invites, StartAccept(r, i)
       PROVE  AdminsOK(users', req')
  BY <1>5, <1>10, AnswerFields DEF StartAccept
<1>11. ASSUME NEW r \in Requests, NEW u \in Ids, NEW op \in Ops, Authenticate(r, u, op)
       PROVE  AdminsOK(users', req')
  <2> DEFINE q == [Idle EXCEPT !.op = op, !.pc = "start", !.by = u]
  <2>1. q.pc = "start"
    BY CallFields, AccountsAssumption
  <2>2. Call(r, q) /\ users' = users
    BY <1>11 DEF Authenticate
  <2> HIDE DEF q
  <2>3. QED
    BY <1>5, <2>1, <2>2
<1>12. ASSUME NEW r \in Requests, NEW op \in UserOps, NEW kind \in {"search", "lot"},
         Add(r, op, kind)
       PROVE  AdminsOK(users', req')
  <2>0. Add(r, op, kind) /\ users' = users
    BY <1>12 DEF Add
  <2>1. PICK q \in RequestDocs : req' = [req EXCEPT ![r] = q] /\ q.pc = "derive"
    BY <2>0, AddMoves
  <2>2. QED
    BY <1>1, <1>2, <2>0, <2>1, PlainAdmins
<1>13. CASE AccountStep
  BY <1>3, <1>4, <1>6, <1>7, <1>8, <1>9, <1>10, <1>11, <1>13
     DEF AccountStep, InviteStep, InsertInvite, Expire, Revoke, MarkAccepted
<1>14. ASSUME NEW r \in Requests, OwnerStep(r) \/ RequestCutOff(r)
       PROVE  AdminsOK(users', req')
  BY <1>4, <1>12, <1>14 DEF OwnerStep, UserOps, Derive, Upsert, RequestCutOff, CutOff
<1>15. ASSUME NEW r \in Requests, ActionStep(r) PROVE AdminsOK(users', req')
  BY <1>1, <1>2, <1>15, StartAdmins, GuardAdmins, UpdateAdmins, EraseAdmins, NextStepAdmins
     DEF ActionStep
<1>16. CASE (\E d \in docs : Copy(d)) \/ (\E d \in copies : StoreResults(d)) \/ UNCHANGED vars
  BY <1>3, <1>16 DEF Copy, StoreResults, accountVars, vars
<1>17. QED
  BY <1>13, <1>14, <1>15, <1>16 DEF Next

LEMMA AdminsInit == Init => AdminsInv
<1> SUFFICES ASSUME Init PROVE AdminsOK(users, req)
  BY DEF AdminsInv
<1>1. \A r \in Requests : ~Removing(req[r])
  BY IdleFields DEF Init, AccountsInit, Removing
<1>2. 1 \in Ids
  BY AccountsAssumption DEF Ids
<1>3. users[1] = Account(BootstrapEmail, "admin")
  BY <1>2 DEF Init, AccountsInit
<1>4. AdminIn(users, 1)
  BY <1>3 DEF Account, AdminIn
<1>5. QED
  BY <1>1, <1>2, <1>4 DEF AdminsOK

\* The check that its target is not the last active administrator holds until the
\* action is done, whatever else happens, when no other such action is in progress:
\* an active administrator remains.
THEOREM AnAdminRemains == Spec => []AdminRemains
<1>1. Typed /\ AdminsInv /\ [Next]_vars => AdminsInv'
  BY AdminsStep
<1>2. AdminsInv => AdminRemains
  <2> SUFFICES ASSUME AdminsInv, ~crowded PROVE \E u \in Ids : Admin(u)
    BY DEF AdminRemains
  <2>1. PICK u \in Ids : AdminIn(users, u)
    BY DEF AdminsInv, AdminsOK
  <2>2. u # Nobody
    BY AccountsAssumption DEF Ids, Nobody
  <2>3. QED
    BY <2>1, <2>2 DEF Admin, Active, AdminIn
<1>3. QED
  BY <1>1, <1>2, AlwaysTyped, AdminsInit, PTL DEF Spec

----------------------------------------------------------------------------
(* One account per invite.                                                 *)

TakenBy(accounts, email) == \E u \in Ids : Alive(accounts, u) /\ accounts[u].email = email

\* A deletion that has come to the account itself.
Closing(q) == q.pc = "erase" /\ q.op = "delete_user" /\ q.at = 10

Answering(q, i) == q.pc = "create" /\ q.target = i

\* The account made of an invite is there, or the invite has gone and every answer
\* still under way is late.
Spent(i, accounts, offers, requests) ==
  /\ offers[i].status # "none"
  /\ \/ TakenBy(accounts, offers[i].email)
     \/ /\ offers[i].status = "deleted"
        /\ \A r \in Requests : Answering(requests[r], i) => requests[r].late

AnswersOK(accounts, offers, requests, count) ==
  /\ \A i \in Invites : /\ count[i] \in {0, 1}
                        /\ count[i] = 1 => Spent(i, accounts, offers, requests)
  /\ \A r \in Requests, i \in Invites :
       Answering(requests[r], i) => offers[i].status # "none"
  /\ \A r \in Requests, i \in Invites :
       Closing(requests[r]) /\ Alive(accounts, requests[r].target) /\ count[i] = 1
         /\ offers[i].email = accounts[requests[r].target].email =>
           offers[i].status = "deleted"

AnswersInv == AnswersOK(users, invites, req, made)

\* An account whose deletion is in progress and that is there now was there before.
LEMMA AliveBefore ==
  ASSUME UsersOK(users), Keeps(users, users'), NEW u \in Ids, users[u].status # "none",
         Alive(users', u)
  PROVE  Alive(users, u) /\ users'[u].email = users[u].email
<1>1. users[u].status = "deleted" => users'[u].status = "deleted"
  BY DEF Keeps
<1>2. users'[u].email = users[u].email
  BY DEF Keeps
<1>3. users[u].status \in {"none", "active", "blocked", "deleted"}
  BY DEF UsersOK, UserDocs
<1>4. QED
  BY <1>1, <1>2, <1>3 DEF Alive

\* Accounts stay, no answer begins except to a pending invite, no deletion comes to
\* the account.
LEMMA AnswersStay ==
  ASSUME Typed, AnswersInv, Keeps(users, users'), Lasting(invites, invites'), made' = made,
         \A u \in Ids : Alive(users, u) => Alive(users', u),
         \A r \in Requests, i \in Invites : Answering(req'[r], i) =>
           req'[r] = req[r] \/ (invites[i].status = "pending" /\ invites' = invites),
         \A r \in Requests : Closing(req'[r]) =>
           Closing(req[r]) /\ req'[r].target = req[r].target
  PROVE  AnswersInv'
<1>1. ASSUME NEW i \in Invites, made[i] = 1 PROVE Spent(i, users', invites', req')
  <2>1. /\ Spent(i, users, invites, req) /\ invites'[i].status # "none"
        /\ invites'[i].email = invites[i].email
        /\ invites[i].status = "deleted" => invites'[i].status = "deleted"
    BY <1>1 DEF AnswersInv, AnswersOK, Lasting, Spent
  <2>2. CASE TakenBy(users, invites[i].email)
    BY <2>1, <2>2 DEF Spent, TakenBy, Keeps, Alive
  <2>3. CASE ~TakenBy(users, invites[i].email)
    BY <2>1, <2>3 DEF Spent
  <2>4. QED
    BY <2>2, <2>3
<1>2. ASSUME NEW r \in Requests, NEW i \in Invites, Answering(req'[r], i)
      PROVE  invites'[i].status # "none"
  BY <1>2 DEF AnswersInv, AnswersOK, Lasting
<1>3. ASSUME NEW r \in Requests, NEW i \in Invites, Closing(req'[r]), made[i] = 1,
             Alive(users', req'[r].target),
             invites'[i].email = users'[req'[r].target].email
      PROVE  invites'[i].status = "deleted"
  <2> DEFINE u == req[r].target
  <2>1. Closing(req[r]) /\ req'[r].target = u
    BY <1>3
  <2>2. u \in Ids /\ users[u].status # "none"
    BY <2>1 DEF Typed, AccountsInv, RequestsOK, Known, Closing
  <2>3. Alive(users, u) /\ users'[u].email = users[u].email
    BY <1>3, <2>1, <2>2, AliveBefore DEF Typed, AccountsInv
  <2>4. /\ invites[i].status # "none" => invites'[i].email = invites[i].email
        /\ invites[i].status = "deleted" => invites'[i].status = "deleted"
        /\ invites[i].status # "none"
    BY <1>3 DEF Lasting, AnswersInv, AnswersOK, Spent
  <2>5. QED
    BY <1>3, <2>1, <2>3, <2>4 DEF AnswersInv, AnswersOK
<1>4. QED
  BY <1>1, <1>2, <1>3 DEF AnswersInv, AnswersOK

LEMMA CreateAnswers ==
  ASSUME Typed, AnswersInv, NEW r \in Requests, CreateUser(r),
         Keeps(users, users'), UsersOK(users')
  PROVE  AnswersInv'
<1> DEFINE j == req[r].target
           q == [req[r] EXCEPT !.pc = "mark"]
<1>1. /\ j \in Invites /\ invites' = invites /\ Answering(req[r], j)
      /\ made \in [Invites -> Nat]
  BY DEF Typed, AccountsInv, RequestsOK, Coherent, CreateUser, Answering
<1>2. /\ q.pc = "mark"
      /\ req'[r] = q /\ \A p \in Requests \ {r} : req'[p] = req[p]
  <2>1. req \in [Requests -> RequestDocs] /\ req[r] \in RequestDocs
    BY DEF Typed, AccountsInv, RequestsOK
  <2>2. q.pc = "mark"
    BY <2>1 DEF RequestDocs
  <2>3. req' = [req EXCEPT ![r] = q]
    BY <2>1 DEF CreateUser, Goto
  <2>4. QED
    BY <2>1, <2>2, <2>3
<1> HIDE DEF q
<1>3. ~TakenBy(users, invites[j].email)
  BY DEF CreateUser, Insert, Taken, TakenBy, Live, Alive
<1>4. /\ TakenBy(users', invites[j].email)
      /\ \A u \in Ids : Alive(users, u) => Alive(users', u)
  BY DEF CreateUser, Insert, TakenBy, Alive, Account, Typed, AccountsInv, UsersOK
<1>5. \A i \in Invites : TakenBy(users, invites[i].email) => TakenBy(users', invites[i].email)
  BY <1>4 DEF TakenBy, Keeps, Alive
<1>6. invites[j].status # "none"
  BY <1>1 DEF AnswersInv, AnswersOK
<1>7. \A i \in Invites : made'[i] = 1 /\ made[i] # 1 => i = j
  BY <1>1 DEF CreateUser
<1>8. made'[j] \in {0, 1} /\ \A i \in Invites \ {j} : made'[i] = made[i]
  <2>1. CASE req[r].late
    BY <1>1, <2>1 DEF CreateUser, AnswersInv, AnswersOK
  <2>2. CASE ~req[r].late
    <3>1. made[j] # 1
      BY <1>1, <1>3, <2>2 DEF AnswersInv, AnswersOK, Spent
    <3>2. made[j] = 0
      BY <1>1, <3>1 DEF AnswersInv, AnswersOK
    <3>3. made' = [made EXCEPT ![j] = made[j] + 1]
      BY <2>2 DEF CreateUser
    <3>4. QED
      BY <1>1, <3>2, <3>3
  <2>3. QED
    BY <2>1, <2>2
<1>9. \A i \in Invites : made'[i] = 1 => Spent(i, users', invites', req')
  <2>1. Spent(j, users', invites', req')
    BY <1>1, <1>4, <1>6 DEF Spent
  <2>2. ASSUME NEW i \in Invites \ {j}, made'[i] = 1 PROVE Spent(i, users', invites', req')
    BY <1>1, <1>2, <1>5, <1>8, <2>2 DEF Spent, AnswersInv, AnswersOK, Answering
  <2>3. QED
    BY <2>1, <2>2
<1>10. \A p \in Requests, i \in Invites : Answering(req'[p], i) => invites'[i].status # "none"
  BY <1>1, <1>2 DEF AnswersInv, AnswersOK, Answering
<1>11. ASSUME NEW p \in Requests, NEW i \in Invites, Closing(req'[p]), made'[i] = 1,
              Alive(users', req'[p].target),
              invites'[i].email = users'[req'[p].target].email
       PROVE  invites'[i].status = "deleted"
  <2> DEFINE u == req[p].target
  <2>1. Closing(req[p]) /\ req'[p] = req[p]
    BY <1>2, <1>11 DEF Closing
  <2>2. u \in Ids /\ users[u].status # "none"
    BY <2>1 DEF Typed, AccountsInv, RequestsOK, Known, Closing
  <2>3. Alive(users, u) /\ users'[u].email = users[u].email
    BY <1>11, <2>1, <2>2, AliveBefore DEF Typed, AccountsInv
  <2>4. i # j
    BY <1>1, <1>3, <1>11, <2>1, <2>2, <2>3 DEF TakenBy
  <2>5. QED
    BY <1>1, <1>8, <1>11, <2>1, <2>3, <2>4 DEF AnswersInv, AnswersOK
<1>12. QED
  BY <1>8, <1>9, <1>10, <1>11 DEF AnswersInv, AnswersOK

LEMMA EraseInvitesMoves ==
  ASSUME Typed, NEW r \in Requests, EraseInvites(r)
  PROVE  /\ req[r].op = "delete_user" /\ req[r].at = 9
         /\ req'[r].pc = "erase" /\ req'[r].op = req[r].op /\ req'[r].target = req[r].target
         /\ req'[r].seen = req[r].seen /\ req'[r].at = 10
         /\ \A p \in Requests \ {r} : req'[p] = req[p]
<1>1. /\ req[r] \in RequestDocs /\ req[r].pc = "erase" /\ req[r].op \in DeleteOps
      /\ req[r].at \in 1..Steps(req[r].op) /\ req \in [Requests -> RequestDocs]
      /\ Step(req[r]) = <<"delete", "invite">>
  BY DEF Typed, AccountsInv, RequestsOK, Coherent, EraseInvites
<1>2. req[r].op = "delete_user" /\ req[r].at = 9
  BY <1>1, AccountStepOnly DEF Step
<1>3. req[r].at # Steps(req[r].op)
  BY <1>2, UserSteps
<1> DEFINE q == [req[r] EXCEPT !.at = @ + 1, !.listed = {}]
<1>4. req' = [req EXCEPT ![r] = q]
  BY <1>1, <1>3, NextStepMoves DEF EraseInvites, Typed, AccountsInv
<1>5. /\ q.pc = req[r].pc /\ q.op = req[r].op /\ q.target = req[r].target
      /\ q.seen = req[r].seen /\ q.at = req[r].at + 1
  BY <1>1, NextFields
<1> HIDE DEF q
<1>6. QED
  BY <1>1, <1>2, <1>4, <1>5

LEMMA EraseInvitesAnswers ==
  ASSUME Typed, AnswersInv, NEW r \in Requests, EraseInvites(r), Lasting(invites, invites')
  PROVE  AnswersInv'
<1> DEFINE u == req[r].target
<1>1. /\ req'[r].pc = "erase" /\ req'[r].target = u
      /\ \A p \in Requests \ {r} : req'[p] = req[p]
  BY EraseInvitesMoves
<1>2. users' = users /\ made' = made
  BY DEF EraseInvites
<1>3. u \in Ids /\ users[u].email = req[r].seen.email
  BY DEF EraseInvites, Typed, AccountsInv, RequestsOK, Known
<1>4. \A i \in Invites : invites[i].status # "none" /\ invites[i].email = users[u].email =>
                           invites'[i].status = "deleted"
  BY <1>3 DEF EraseInvites, Typed, AccountsInv, InviteDocs
<1>5. \A p \in Requests, i \in Invites : Answering(req'[p], i) => req'[p] = req[p]
  BY <1>1 DEF Answering
<1>6. \A i \in Invites : made[i] = 1 => Spent(i, users', invites', req')
  BY <1>2, <1>5 DEF Spent, Lasting, AnswersInv, AnswersOK
<1>7. \A p \in Requests, i \in Invites : Answering(req'[p], i) => invites'[i].status # "none"
  BY <1>5 DEF Lasting, AnswersInv, AnswersOK
<1>8. ASSUME NEW p \in Requests, NEW i \in Invites, Closing(req'[p]), made[i] = 1,
             Alive(users, req'[p].target),
             invites'[i].email = users[req'[p].target].email
      PROVE  invites'[i].status = "deleted"
  <2>1. /\ invites[i].status # "none" /\ invites'[i].email = invites[i].email
        /\ invites[i].status = "deleted" => invites'[i].status = "deleted"
    BY <1>8 DEF Lasting, AnswersInv, AnswersOK, Spent
  <2>2. CASE p = r
    BY <1>1, <1>4, <1>8, <2>1, <2>2
  <2>3. CASE p # r
    BY <1>1, <1>8, <2>1, <2>3 DEF AnswersInv, AnswersOK
  <2>4. QED
    BY <2>2, <2>3
<1>9. QED
  BY <1>2, <1>6, <1>7, <1>8 DEF AnswersInv, AnswersOK

LEMMA EraseAccountAnswers ==
  ASSUME Typed, AnswersInv, NEW r \in Requests, EraseAccount(r), Keeps(users, users')
  PROVE  AnswersInv'
<1> DEFINE u == req[r].target
<1>1. /\ Closing(req[r]) /\ u \in Ids /\ req'[r] = Idle
      /\ \A p \in Requests \ {r} :
           req'[p] = IF req[p].pc = "create" THEN [req[p] EXCEPT !.late = TRUE] ELSE req[p]
  BY EraseAccountMoves DEF Typed, AccountsInv, RequestsOK, Known, EraseAccount, Closing
<1>2. invites' = invites /\ made' = made
  BY DEF EraseAccount
<1>3. \A v \in Ids \ {u} : users'[v] = users[v]
  BY <1>1 DEF EraseAccount, Typed, AccountsInv, UsersOK
<1>4. ASSUME NEW p \in Requests, NEW i \in Invites, Answering(req'[p], i)
      PROVE  Answering(req[p], i) /\ req'[p].late
  <2>1. p # r
    BY <1>1, <1>4, IdleFields DEF Answering
  <2>2. req[p] \in RequestDocs
    BY DEF Typed, AccountsInv, RequestsOK
  <2>3. req[p].pc = "create"
    BY <1>1, <1>4, <2>1 DEF Answering
  <2>4. req'[p] = [req[p] EXCEPT !.late = TRUE]
    BY <1>1, <2>1, <2>3
  <2>5. req'[p].target = req[p].target /\ req'[p].late = TRUE
    BY <2>2, <2>4, LateFields
  <2>6. QED
    BY <1>4, <2>3, <2>5 DEF Answering
<1>5. ASSUME NEW i \in Invites, made[i] = 1 PROVE Spent(i, users', invites', req')
  <2>1. invites[i].status # "none"
    BY <1>5 DEF AnswersInv, AnswersOK, Spent
  <2>2. CASE invites[i].status = "deleted"
    BY <1>2, <1>4, <2>2 DEF Spent
  <2>3. CASE invites[i].status # "deleted"
    <3>1. PICK v \in Ids : Alive(users, v) /\ users[v].email = invites[i].email
      BY <1>5, <2>3 DEF AnswersInv, AnswersOK, Spent, TakenBy
    <3>2. v # u
      BY <1>1, <1>5, <2>3, <3>1 DEF AnswersInv, AnswersOK
    <3>3. Alive(users', v) /\ users'[v].email = invites[i].email
      BY <1>3, <3>1, <3>2 DEF Alive
    <3>4. QED
      BY <1>2, <2>1, <3>3 DEF Spent, TakenBy
  <2>4. QED
    BY <2>2, <2>3
<1>6. \A p \in Requests, i \in Invites : Answering(req'[p], i) => invites'[i].status # "none"
  BY <1>2, <1>4 DEF AnswersInv, AnswersOK
<1>7. ASSUME NEW p \in Requests, NEW i \in Invites, Closing(req'[p]), made[i] = 1,
             Alive(users', req'[p].target),
             invites[i].email = users'[req'[p].target].email
      PROVE  invites[i].status = "deleted"
  <2>1. req[p] \in RequestDocs
    BY DEF Typed, AccountsInv, RequestsOK
  <2>2. [req[p] EXCEPT !.late = TRUE].pc = req[p].pc
    BY <2>1, LateFields
  <2>3. p # r /\ req'[p] = req[p]
    BY <1>1, <1>7, <2>2, IdleFields DEF Closing
  <2>4. req[p].target \in Ids /\ users[req[p].target].status # "none"
    BY <1>7, <2>3 DEF Closing, Typed, AccountsInv, RequestsOK, Known
  <2>5. Alive(users, req[p].target) /\ users'[req[p].target].email = users[req[p].target].email
    BY <1>7, <2>3, <2>4, AliveBefore DEF Typed, AccountsInv
  <2>6. QED
    BY <1>7, <2>3, <2>5 DEF AnswersInv, AnswersOK
<1>8. QED
  BY <1>2, <1>5, <1>6, <1>7 DEF AnswersInv, AnswersOK

LEMMA OneAnswers ==
  ASSUME Typed, AnswersInv, Keeps(users, users'), Lasting(invites, invites'), made' = made,
         \A u \in Ids : Alive(users, u) => Alive(users', u),
         NEW r \in Requests, NEW q, req' = [req EXCEPT ![r] = q],
         q.pc # "create", ~Closing(q)
  PROVE  AnswersInv'
<1>1. req'[r] = q /\ \A p \in Requests \ {r} : req'[p] = req[p]
  BY DEF Typed, AccountsInv, RequestsOK
<1>2. \A p \in Requests, i \in Invites : Answering(req'[p], i) => req'[p] = req[p]
  BY <1>1 DEF Answering
<1>3. \A p \in Requests : Closing(req'[p]) => req'[p] = req[p]
  BY <1>1
<1>4. QED
  BY <1>2, <1>3, AnswersStay

\* Only delete_user's ninth step brings it to the account.
LEMMA NextStepAnswers ==
  ASSUME Typed, AnswersInv, Keeps(users, users'), Lasting(invites, invites'),
         NEW r \in Requests, EraseList(r) \/ EraseDocs(r)
  PROVE  AnswersInv'
<1>1. UNCHANGED <<users, made>>
  BY DEF EraseList, EraseDocs
<1>2. PICK listed \in SUBSET Nat : NextStep(r, listed) /\ req[r].pc = "erase"
  BY ListedTyped
<1>3. CASE Return(r)
  BY <1>1, <1>3, OneAnswers, IdleFields DEF Return, Closing
<1>4. CASE ~Return(r)
  <2> DEFINE q == [req[r] EXCEPT !.at = @ + 1, !.listed = listed]
  <2>1. req' = [req EXCEPT ![r] = q]
    BY <1>2, <1>4, NextStepMoves DEF Typed, AccountsInv, NextStep, Steps
  <2>2. q.pc = "erase" /\ q.op = req[r].op /\ q.at = req[r].at + 1
    BY <1>2, NextFields DEF Typed, AccountsInv, RequestsOK
  <2> HIDE DEF q
  <2>3. req[r].op \in DeleteOps /\ req[r].at \in 1..Steps(req[r].op)
    BY <1>2 DEF Typed, AccountsInv, RequestsOK, Coherent
  <2>4. Step(req[r])[1] \in {"list", "pick"} \/ Step(req[r])[2] \in Kinds
    BY DEF EraseList, EraseDocs
  <2>5. ASSUME req[r].op = "delete_user", req[r].at = 9 PROVE FALSE
    <3>1. UserAt(9, Plan["delete_user"][9][1], Plan["delete_user"][9][2])
      BY UserSteps
    <3>2. Plan["delete_user"][9][1] = "delete" /\ Plan["delete_user"][9][2] = "invite"
      BY <3>1 DEF UserAt
    <3>3. QED
      BY <2>4, <2>5, <3>2 DEF Step, Kinds
  <2>6. ~Closing(q)
    BY <2>2, <2>3, <2>5 DEF Closing
  <2>7. QED
    BY <1>1, <2>1, <2>2, <2>6, OneAnswers
<1>5. QED
  BY <1>3, <1>4

LEMMA AnswersStep ==
  ASSUME Typed, AnswersInv, [Next]_vars PROVE AnswersInv'
<1>1. /\ RequestsOK /\ UsersOK(users) /\ UsersOK(users') /\ Keeps(users, users')
      /\ Lasting(invites, invites')
  BY UsersStep, InvitesStep DEF Typed, AccountsInv
<1>2. CASE UNCHANGED <<users, req, made>>
  BY <1>1, <1>2, AnswersStay
<1>3. ASSUME NEW r \in Requests, NEW q, req' = [req EXCEPT ![r] = q], UNCHANGED <<users, made>>,
             q.pc \notin {"create", "erase"} \/ (q.pc = "erase" /\ q.at = 1)
      PROVE  AnswersInv'
  <2>1. q.pc # "create" /\ ~Closing(q)
    BY <1>3 DEF Closing
  <2>2. QED
    BY <1>1, <1>3, <2>1, OneAnswers
<1>4. ASSUME NEW r \in Requests, Return(r), UNCHANGED <<users, made>> PROVE AnswersInv'
  BY <1>3, <1>4, IdleFields DEF Return
<1>5. CASE Startup
  <2>1. \A u \in Ids : Alive(users, u) => Alive(users', u)
    BY <1>1, <1>5 DEF Startup, Insert, UsersOK, Alive
  <2>2. req' = req /\ made' = made
    BY <1>5 DEF Startup
  <2>3. QED
    BY <1>1, <2>1, <2>2, AnswersStay
<1>6. ASSUME NEW r \in Requests, NEW email \in Emails, StartInvite(r, email) PROVE AnswersInv'
  <2> DEFINE q == [req[r] EXCEPT !.pc = "insert", !.email = email]
  <2>1. q.pc = "insert"
    BY <1>1, InviteFields DEF RequestsOK
  <2>2. req' = [req EXCEPT ![r] = q] /\ UNCHANGED <<users, made>>
    BY <1>1, <1>6 DEF StartInvite, RequestsOK
  <2> HIDE DEF q
  <2>3. QED
    BY <1>3, <2>1, <2>2
<1>7. ASSUME NEW r \in Requests, NEW i \in Invites, StartRevoke(r, i) PROVE AnswersInv'
  <2> DEFINE q == [req[r] EXCEPT !.pc = "revoke", !.target = i]
  <2>1. q.pc = "revoke"
    BY <1>1, RevokeFields DEF RequestsOK
  <2>2. req' = [req EXCEPT ![r] = q] /\ UNCHANGED <<users, made>>
    BY <1>1, <1>7 DEF StartRevoke, RequestsOK
  <2> HIDE DEF q
  <2>3. QED
    BY <1>3, <2>1, <2>2
<1>8. ASSUME NEW r \in Requests, NEW i \in Invites, StartAccept(r, i) PROVE AnswersInv'
  <2> DEFINE q == [Idle EXCEPT !.op = "accept_invite", !.pc = "create", !.target = i]
  <2>1. q.pc = "create" /\ q.target = i
    BY AnswerFields
  <2>2. /\ req' = [req EXCEPT ![r] = q] /\ UNCHANGED <<users, invites, made>>
        /\ invites[i].status = "pending"
    BY <1>8 DEF StartAccept, Call, Answerable
  <2> HIDE DEF q
  <2>3. req'[r] = q /\ \A p \in Requests \ {r} : req'[p] = req[p]
    BY <1>1, <2>2 DEF RequestsOK
  <2>4. \A p \in Requests, j \in Invites : Answering(req'[p], j) =>
          req'[p] = req[p] \/ (invites[j].status = "pending" /\ invites' = invites)
    BY <2>1, <2>2, <2>3 DEF Answering
  <2>5. \A p \in Requests : Closing(req'[p]) => req'[p] = req[p]
    BY <2>1, <2>3 DEF Closing
  <2>6. QED
    BY <1>1, <2>2, <2>4, <2>5, AnswersStay
<1>9. ASSUME NEW r \in Requests, NEW u \in Ids, NEW op \in Ops, Authenticate(r, u, op)
      PROVE  AnswersInv'
  <2> DEFINE q == [Idle EXCEPT !.op = op, !.pc = "start", !.by = u]
  <2>1. q.pc = "start"
    BY CallFields, AccountsAssumption
  <2>2. req' = [req EXCEPT ![r] = q] /\ UNCHANGED <<users, made>>
    BY <1>9 DEF Authenticate, Call
  <2> HIDE DEF q
  <2>3. QED
    BY <1>3, <2>1, <2>2
<1>10. ASSUME NEW r \in Requests, NEW op \in UserOps, NEW kind \in {"search", "lot"},
         Add(r, op, kind)
       PROVE  AnswersInv'
  <2>0. Add(r, op, kind) /\ UNCHANGED <<users, made>>
    BY <1>10 DEF Add
  <2>1. PICK q \in RequestDocs : req' = [req EXCEPT ![r] = q] /\ q.pc = "derive"
    BY <2>0, AddMoves
  <2>2. QED
    BY <1>3, <2>0, <2>1
<1>11. ASSUME NEW r \in Requests, NEW u \in Ids, StartAction(r, u) PROVE AnswersInv'
  <2>1. PICK q \in RequestDocs :
          /\ req' = [req EXCEPT ![r] = q] /\ q.at = 1
          /\ q.pc = IF q.op \in Guarded THEN "guard"
                    ELSE IF q.op \in DeleteOps THEN "erase" ELSE "update"
    BY <1>11, StartActionMoves
  <2>2. UNCHANGED <<users, made>>
    BY <1>11 DEF StartAction
  <2>3. QED
    BY <1>3, <2>1, <2>2
<1>12. ASSUME NEW r \in Requests, Guard(r) PROVE AnswersInv'
  <2>1. UNCHANGED <<users, made>>
    BY <1>12 DEF Guard
  <2>2. CASE ~Return(r)
    <3>1. PICK q \in RequestDocs :
            /\ req' = [req EXCEPT ![r] = q] /\ q.at = 1
            /\ q.pc = IF q.op \in DeleteOps THEN "erase" ELSE "update"
      BY <1>12, <2>2, GuardMoves
    <3>2. QED
      BY <1>3, <2>1, <3>1
  <2>3. QED
    BY <1>4, <2>1, <2>2
<1>13. ASSUME NEW r \in Requests,
              \/ UpdateUser(r, "block", "status", "blocked")
              \/ UpdateUser(r, "unblock", "status", "active")
              \/ UpdateUser(r, "promote", "role", "admin")
              \/ UpdateUser(r, "demote", "role", "user")
       PROVE  AnswersInv'
  <2>1. req[r].target \in Ids
    BY <1>1, <1>13 DEF RequestsOK, Known, UpdateUser
  <2>2. \A u \in Ids : Alive(users, u) => Alive(users', u)
    BY <1>1, <1>13, <2>1 DEF UpdateUser, UsersOK, UserDocs, Alive
  <2>3. Return(r) /\ made' = made
    BY <1>13 DEF UpdateUser
  <2>4. QED
    BY <1>1, <2>2, <2>3, OneAnswers, IdleFields DEF Return, Closing
<1>14. CASE AccountStep
  BY <1>1, <1>2, <1>4, <1>5, <1>6, <1>7, <1>8, <1>9, <1>14, CreateAnswers
     DEF AccountStep, InviteStep, InsertInvite, Expire, Revoke, MarkAccepted
<1>15. ASSUME NEW r \in Requests, OwnerStep(r) \/ RequestCutOff(r) PROVE AnswersInv'
  BY <1>4, <1>10, <1>15 DEF OwnerStep, UserOps, Derive, Upsert, RequestCutOff, CutOff
<1>16. ASSUME NEW r \in Requests, ActionStep(r) PROVE AnswersInv'
  BY <1>1, <1>11, <1>12, <1>13, <1>16, NextStepAnswers, EraseInvitesAnswers,
     EraseAccountAnswers DEF ActionStep
<1>17. CASE (\E d \in docs : Copy(d)) \/ (\E d \in copies : StoreResults(d)) \/ UNCHANGED vars
  BY <1>2, <1>17 DEF Copy, StoreResults, accountVars, vars
<1>18. QED
  BY <1>14, <1>15, <1>16, <1>17 DEF Next

\* While the account made of an invite is there, its email keeps a second one out; and
\* it goes after the invite, whose answers under way are late by then: an invite makes
\* one account.
THEOREM OneInviteOneAccount == Spec => []OneAccountPerInvite
<1>1. Init => AnswersInv
  <2> SUFFICES ASSUME Init PROVE AnswersInv
    OBVIOUS
  <2>1. /\ \A i \in Invites : made[i] = 0
        /\ \A r \in Requests : req[r].pc = "idle"
    BY IdleFields DEF Init, AccountsInit
  <2>2. QED
    BY <2>1 DEF AnswersInv, AnswersOK, Answering, Closing
<1>2. Typed /\ AnswersInv /\ [Next]_vars => AnswersInv'
  BY AnswersStep
<1>3. AnswersInv => OneAccountPerInvite
  BY DEF AnswersInv, AnswersOK, OneAccountPerInvite
<1>4. QED
  BY <1>1, <1>2, <1>3, AlwaysTyped, PTL DEF Spec

----------------------------------------------------------------------------
(* What deletions leave behind.                                            *)

None(set, u, kind) == \A d \in set : d[1] = u => d[2] # kind

\* What the deletion of one search or lot, its last step still to come, will find.
Pending(requests, u, op, k) ==
  \E r \in Requests : /\ Erasing(requests[r], u) /\ requests[r].op = op
                      /\ requests[r].at = 3 /\ k \in requests[r].listed

CachePending(requests, u, k) == Pending(requests, u, "delete_saved_search", k)
SnapshotPending(requests, u, k) == Pending(requests, u, "delete_tracked_lot", k)

CachesPending(set, requests, u) ==
  \A d \in set : d[1] = u /\ d[2] = "cache" => CachePending(requests, u, d[3])
SnapshotsPending(set, requests, u) ==
  \A d \in set : d[1] = u /\ d[2] = "snapshot" => SnapshotPending(requests, u, d[3])

\* A deletion of every search: it goes on to the caches, of those it has listed or of all.
SweepsSearches(q) == q.op \in {"delete_all_saved_searches", "delete_user"}

SweepUnderWay(requests, u) ==
  \E r \in Requests : /\ Erasing(requests[r], u) /\ SweepsSearches(requests[r])
                      /\ requests[r].at = 3

\* A cache without a search is left only where a deletion will find it.
CachesOK(u, set, requests, broken) ==
  \A d \in set : d[1] = u /\ d[2] = "cache" =>
    \/ Has(set, u, "search", d[3])
    \/ CachePending(requests, u, d[3])
    \/ None(set, u, "search") /\ (u \in broken \/ SweepUnderWay(requests, u))

SnapshotsOK(u, set, requests) ==
  \A d \in set : d[1] = u /\ d[2] = "snapshot" =>
    Has(set, u, "lot", d[3]) \/ SnapshotPending(requests, u, d[3])

GoneOK(u, set, requests, accounts) ==
  accounts[u].status = "deleted" =>
    /\ \A d \in set : d[1] = u => d[2] \in {"cache", "snapshot"}
    /\ CachesPending(set, requests, u) /\ SnapshotsPending(set, requests, u)

\* What a deletion has done and knows by the step it has come to.
CachesFoundBy(q, u, set, requests) ==
  SweepsSearches(q) /\ q.at \in {2, 3} /\ q.listed # {} =>
    \A d \in set : d[1] = u /\ d[2] = "cache" =>
      d[3] \in q.listed \/ CachePending(requests, u, d[3])

LotsFoundBy(q, u, set) ==
  \/ q.op = "delete_all_tracked_lots" /\ q.at = 2
  \/ q.op = "delete_user" /\ q.at = 5
  => \A d \in set : d[1] = u /\ d[2] = "lot" => d[3] \in q.listed

SnapshotsSwept(q, u, set, requests) ==
  \/ q.op = "delete_all_tracked_lots" /\ q.at = 3
  \/ q.op = "delete_user" /\ q.at >= 6
  => SnapshotsPending(set, requests, u)

Swept(q, u, set, requests) ==
  /\ CachesFoundBy(q, u, set, requests)
  /\ SweepsSearches(q) /\ q.at >= 3 => None(set, u, "search")
  /\ q.op = "delete_user" /\ q.at >= 4 => CachesPending(set, requests, u)
  /\ LotsFoundBy(q, u, set)
  /\ SnapshotsSwept(q, u, set, requests)
  /\ q.op = "delete_user" /\ q.at >= 7 => None(set, u, "lot")
  /\ q.op = "delete_user" /\ q.at >= 8 => None(set, u, "connection")
  /\ q.op = "delete_user" /\ q.at >= 9 => None(set, u, "subscription")

OwnerOK(u, set, requests, broken, accounts) ==
  /\ CachesOK(u, set, requests, broken)
  /\ SnapshotsOK(u, set, requests)
  /\ GoneOK(u, set, requests, accounts)
  /\ \A r \in Requests : Erasing(requests[r], u) => Swept(requests[r], u, set, requests)

\* The deletion of one search or lot, about to delete it.
About(q, kind) ==
  /\ q.pc = "erase" /\ q.at = 2
  /\ \/ q.op = "delete_saved_search" /\ kind = "search"
     \/ q.op = "delete_tracked_lot" /\ kind = "lot"

IdsOK(set, last, requests) ==
  /\ \A d, e \in set : d[2] \in {"search", "lot"} /\ d[2] = e[2] /\ d[3] = e[3] => d[1] = e[1]
  /\ \A r \in Requests : requests[r].pc = "erase" => \A k \in requests[r].listed : k <= last
  /\ \A r \in Requests : \A d \in set :
       About(requests[r], d[2]) /\ d[3] \in requests[r].listed => d[1] = requests[r].target

DeletionInv ==
  /\ IdsOK(docs, serial, req)
  /\ \A u \in Ids : u \notin late => OwnerOK(u, docs, req, torn, users)

\* What will be found is found, or goes on to be.
Persists(u, set, requests, then) ==
  \A d \in set : d[1] = u =>
    /\ d[2] = "cache" /\ CachePending(requests, u, d[3]) => CachePending(then, u, d[3])
    /\ d[2] = "snapshot" /\ SnapshotPending(requests, u, d[3]) => SnapshotPending(then, u, d[3])

LEMMA SweptPersists ==
  ASSUME docs' \subseteq docs, NEW u, NEW q, Persists(u, docs', req, req'),
         Swept(q, u, docs, req)
  PROVE  Swept(q, u, docs', req')
<1>1. CachesPending(docs, req, u) => CachesPending(docs', req', u)
  BY DEF CachesPending, Persists
<1>2. SnapshotsPending(docs, req, u) => SnapshotsPending(docs', req', u)
  BY DEF SnapshotsPending, Persists
<1>3. \A kind : None(docs, u, kind) => None(docs', u, kind)
  BY DEF None
<1>4. CachesFoundBy(q, u, docs', req')
  BY DEF CachesFoundBy, Swept, Persists
<1>5. LotsFoundBy(q, u, docs')
  BY DEF LotsFoundBy, Swept
<1>6. QED
  BY <1>1, <1>2, <1>3, <1>4, <1>5 DEF Swept, SnapshotsSwept

\* Nothing is deleted and every deletion stays where it is; others may begin.
LEMMA QuietKeeps ==
  ASSUME DeletionInv, docs' = docs, serial' = serial, torn' = torn, late \subseteq late',
         \A r \in Requests : req[r].pc = "erase" => req'[r] = req[r],
         \A r \in Requests : req'[r].pc = "erase" =>
           req'[r] = req[r] \/ (req'[r].at = 1 /\ req'[r].listed = {}),
         \A u \in Ids : users'[u].status = "deleted" => users[u].status = "deleted"
  PROVE  DeletionInv'
<1>1. IdsOK(docs', serial', req')
  BY DEF DeletionInv, IdsOK, About
<1>2. ASSUME NEW u \in Ids, u \notin late' PROVE OwnerOK(u, docs', req', torn', users')
  <2>1. OwnerOK(u, docs, req, torn, users)
    BY <1>2 DEF DeletionInv
  <2>2. \A op, k : Pending(req, u, op, k) => Pending(req', u, op, k)
    BY DEF Pending, Erasing
  <2>3. Persists(u, docs', req, req')
    BY <2>2 DEF Persists, CachePending, SnapshotPending
  <2>4. SweepUnderWay(req, u) => SweepUnderWay(req', u)
    BY DEF SweepUnderWay, Erasing
  <2>5. CachesOK(u, docs', req', torn')
    BY <2>1, <2>3, <2>4 DEF OwnerOK, CachesOK, Persists
  <2>6. SnapshotsOK(u, docs', req')
    BY <2>1, <2>3 DEF OwnerOK, SnapshotsOK, Persists
  <2>7. GoneOK(u, docs', req', users')
    BY <2>1, <2>3 DEF OwnerOK, GoneOK, CachesPending, SnapshotsPending, Persists
  <2>8. ASSUME NEW r \in Requests, Erasing(req'[r], u) PROVE Swept(req'[r], u, docs', req')
    <3>1. CASE req'[r] = req[r]
      BY <1>2, <2>1, <2>3, <2>8, <3>1, SweptPersists DEF OwnerOK
    <3>2. CASE req'[r].at = 1
      BY <3>2 DEF Swept, CachesFoundBy, LotsFoundBy, SnapshotsSwept
    <3>3. QED
      BY <2>8, <3>1, <3>2 DEF Erasing
  <2>9. QED
    BY <2>5, <2>6, <2>7, <2>8 DEF OwnerOK
<1>3. QED
  BY <1>1, <1>2 DEF DeletionInv

\* What is stored in order is stored for an owner none of whose deletions has begun.
LEMMA StoredKeeps ==
  ASSUME Typed, DeletionInv, Stored, torn' = torn, users' = users,
         \A r \in Requests : req[r].pc = "erase" \/ req'[r].pc = "erase" => req'[r] = req[r]
  PROVE  DeletionInv'
<1>1. PICK d \in Ids \X Kinds \X (0..MaxDocs) :
        /\ docs' = docs \cup {d}
        /\ late' \in {late, late \cup {d[1]}}
        /\ d[1] \notin late' => Undisturbed(d[1], users, req, torn) /\ Justified(docs, d)
        /\ IF d[2] \in {"search", "lot"} THEN d[3] = serial + 1 /\ serial' = d[3]
           ELSE serial' = serial
  BY DEF Stored
<1>2. IdsOK(docs', serial', req')
  <2>1. serial \in Nat /\ serial <= serial'
        /\ \A e \in docs : e[2] \in {"search", "lot"} => e[3] \in Nat /\ e[3] <= serial
    BY <1>1, DocsAssumption DEF Typed, DataInv
  <2>2. \A r \in Requests : req'[r].pc = "erase" =>
          /\ req'[r] = req[r]
          /\ \A k \in req[r].listed : k \in Nat /\ k <= serial
    BY DEF DeletionInv, IdsOK, Typed, AccountsInv, RequestsOK, Coherent
  <2>3. \A e, f \in docs' : e[2] \in {"search", "lot"} /\ e[2] = f[2] /\ e[3] = f[3] =>
                              e[1] = f[1]
    BY <1>1, <2>1 DEF DeletionInv, IdsOK
  <2>4. \A r \in Requests : req'[r].pc = "erase" => \A k \in req'[r].listed : k <= serial'
    BY <1>1, <2>1, <2>2
  <2>5. ASSUME NEW r \in Requests, NEW e \in docs', About(req'[r], e[2]), e[3] \in req'[r].listed
        PROVE  e[1] = req'[r].target
    <3>1. /\ req'[r] = req[r] /\ e[2] \in {"search", "lot"} /\ e[3] \in Nat /\ e[3] <= serial
      BY <2>2, <2>5 DEF About
    <3>2. e \in docs
      BY <1>1, <2>1, <3>1
    <3>3. QED
      BY <2>5, <3>1, <3>2 DEF DeletionInv, IdsOK
  <2>6. QED
    BY <2>3, <2>4, <2>5 DEF IdsOK
<1>3. ASSUME NEW u \in Ids, u \notin late' PROVE OwnerOK(u, docs', req', torn', users')
  <2>1. OwnerOK(u, docs, req, torn, users)
    BY <1>1, <1>3 DEF DeletionInv
  <2>2. /\ \A k : CachePending(req, u, k) <=> CachePending(req', u, k)
        /\ \A k : SnapshotPending(req, u, k) <=> SnapshotPending(req', u, k)
        /\ SweepUnderWay(req, u) <=> SweepUnderWay(req', u)
    BY DEF CachePending, SnapshotPending, Pending, SweepUnderWay, Erasing
  <2>3. CASE u = d[1]
    <3>1. Undisturbed(u, users, req, torn) /\ Justified(docs, d)
      BY <1>1, <1>3, <2>3
    <3>2. /\ \A k : ~CachePending(req, u, k) /\ ~SnapshotPending(req, u, k)
          /\ ~SweepUnderWay(req, u) /\ u \notin torn /\ users[u].status # "deleted"
          /\ \A r \in Requests : ~Erasing(req[r], u) /\ ~Erasing(req'[r], u)
      BY <3>1 DEF Undisturbed, CachePending, SnapshotPending, Pending, SweepUnderWay, Alive,
                  Erasing
    <3>3. CachesOK(u, docs', req', torn')
      BY <1>1, <2>1, <2>3, <3>1, <3>2 DEF OwnerOK, CachesOK, Has, Justified
    <3>4. SnapshotsOK(u, docs', req')
      BY <1>1, <2>1, <2>3, <3>1, <3>2 DEF OwnerOK, SnapshotsOK, Has, Justified
    <3>5. QED
      BY <3>2, <3>3, <3>4 DEF OwnerOK, GoneOK
  <2>4. CASE u # d[1]
    <3>1. \A e \in docs' : e[1] = u => e \in docs
      BY <1>1, <2>4
    <3>2. /\ \A kind : None(docs, u, kind) => None(docs', u, kind)
          /\ \A kind, k : Has(docs, u, kind, k) => Has(docs', u, kind, k)
      BY <1>1, <3>1 DEF None, Has
    <3>3. CachesOK(u, docs', req', torn')
      BY <2>1, <2>2, <3>1, <3>2 DEF OwnerOK, CachesOK
    <3>4. SnapshotsOK(u, docs', req')
      BY <2>1, <2>2, <3>1, <3>2 DEF OwnerOK, SnapshotsOK
    <3>5. /\ CachesPending(docs, req, u) => CachesPending(docs', req', u)
          /\ SnapshotsPending(docs, req, u) => SnapshotsPending(docs', req', u)
      BY <2>2, <3>1 DEF CachesPending, SnapshotsPending
    <3>6. GoneOK(u, docs', req', users')
      BY <2>1, <3>1, <3>5 DEF OwnerOK, GoneOK
    <3>7. ASSUME NEW r \in Requests, Erasing(req'[r], u) PROVE Swept(req'[r], u, docs', req')
      <4>1. req'[r] = req[r] /\ Swept(req[r], u, docs, req)
        BY <2>1, <3>7 DEF OwnerOK, Erasing
      <4>2. CachesFoundBy(req[r], u, docs', req') /\ LotsFoundBy(req[r], u, docs')
        BY <2>2, <3>1, <4>1 DEF Swept, CachesFoundBy, LotsFoundBy
      <4>3. QED
        BY <3>2, <3>5, <4>1, <4>2 DEF Swept, SnapshotsSwept
    <3>8. QED
      BY <3>3, <3>4, <3>6, <3>7 DEF OwnerOK
  <2>5. QED
    BY <2>3, <2>4
<1>4. QED
  BY <1>2, <1>3 DEF DeletionInv

\* A deletion that is cut off leaves its owner torn; that of one search or lot late.
LEMMA CutOffKeeps ==
  ASSUME Typed, DeletionInv, NEW r \in Requests, RequestCutOff(r) PROVE DeletionInv'
<1>1. /\ req'[r] = Idle /\ \A p \in Requests \ {r} : req'[p] = req[p]
      /\ docs' = docs /\ serial' = serial /\ users' = users /\ torn \subseteq torn'
      /\ late \subseteq late'
  BY DEF RequestCutOff, CutOff, Return, Typed, AccountsInv, RequestsOK
<1>2. req[r].pc = "erase" =>
        /\ req[r].target \in torn'
        /\ req[r].op \in {"delete_saved_search", "delete_tracked_lot"} => req[r].target \in late'
  BY DEF RequestCutOff
<1>3. req'[r].pc = "idle"
  BY <1>1, IdleFields
<1>4. IdsOK(docs', serial', req')
  BY <1>1, <1>3 DEF DeletionInv, IdsOK, About
<1>5. ASSUME NEW u \in Ids, u \notin late' PROVE OwnerOK(u, docs', req', torn', users')
  <2>1. OwnerOK(u, docs, req, torn, users)
    BY <1>1, <1>5 DEF DeletionInv
  <2>2. /\ \A k : CachePending(req, u, k) => CachePending(req', u, k)
        /\ \A k : SnapshotPending(req, u, k) => SnapshotPending(req', u, k)
    BY <1>1, <1>2, <1>5 DEF CachePending, SnapshotPending, Pending, Erasing
  <2>3. SweepUnderWay(req, u) => SweepUnderWay(req', u) \/ u \in torn'
    BY <1>1, <1>2 DEF SweepUnderWay, Erasing
  <2>4. Persists(u, docs', req, req')
    BY <2>2 DEF Persists
  <2>5. CachesOK(u, docs', req', torn')
    BY <1>1, <2>1, <2>2, <2>3 DEF OwnerOK, CachesOK
  <2>6. SnapshotsOK(u, docs', req')
    BY <1>1, <2>1, <2>2 DEF OwnerOK, SnapshotsOK
  <2>7. GoneOK(u, docs', req', users')
    BY <1>1, <2>1, <2>2 DEF OwnerOK, GoneOK, CachesPending, SnapshotsPending
  <2>8. ASSUME NEW p \in Requests, Erasing(req'[p], u) PROVE Swept(req'[p], u, docs', req')
    <3>1. req'[p] = req[p]
      BY <1>1, <1>3, <2>8 DEF Erasing
    <3>2. QED
      BY <1>1, <2>1, <2>4, <2>8, <3>1, SweptPersists DEF OwnerOK
  <2>9. QED
    BY <2>5, <2>6, <2>7, <2>8 DEF OwnerOK
<1>6. QED
  BY <1>4, <1>5 DEF DeletionInv

SweepOp(op) == op \in {"delete_all_saved_searches", "delete_user"}

\* What a deletion does, by the step it has come to: about searches and caches, ...
OnSearches(op, at, verb, kind) ==
  /\ kind = "search" =>
       \/ verb \in {"list", "pick"}
       \/ verb = "delete_listed" /\ op = "delete_saved_search" /\ at = 2
       \/ verb = "delete" /\ SweepOp(op) /\ at = 2
  /\ op = "delete_saved_search" /\ at = 1 => verb = "pick" /\ kind = "search"
  /\ op = "delete_saved_search" /\ at = 3 =>
       verb = "delete_listed" /\ kind = "cache"
  /\ SweepOp(op) /\ at = 1 => verb = "list" /\ kind = "search"
  /\ SweepOp(op) /\ at = 2 => verb = "delete" /\ kind = "search"
  /\ SweepOp(op) /\ at = 3 => verb = "delete_found" /\ kind = "cache"

LEMMA SearchSteps ==
  ASSUME NEW op \in DeleteOps, NEW at \in 1..Steps(op)
  PROVE  OnSearches(op, at, Plan[op][at][1], Plan[op][at][2])
<1> DEFINE verb == Plan[op][at][1]
           kind == Plan[op][at][2]
<1>0. at \in Nat
  BY PlanLengths
<1> HIDE DEF verb, kind
<1>1. ASSUME op = "delete_saved_search" /\ SavedSearchAt(at, verb, kind)
      PROVE  OnSearches(op, at, verb, kind)
  BY <1>0, <1>1 DEF OnSearches, SavedSearchAt, SweepOp
<1>2. ASSUME op = "delete_all_saved_searches" /\ AllSearchesAt(at, verb, kind)
      PROVE  OnSearches(op, at, verb, kind)
  BY <1>0, <1>2 DEF OnSearches, AllSearchesAt, SweepOp
<1>3. ASSUME op = "delete_tracked_lot" /\ TrackedLotAt(at, verb, kind)
      PROVE  OnSearches(op, at, verb, kind)
  BY <1>0, <1>3 DEF OnSearches, TrackedLotAt, SweepOp
<1>4. ASSUME op = "delete_all_tracked_lots" /\ AllLotsAt(at, verb, kind)
      PROVE  OnSearches(op, at, verb, kind)
  BY <1>0, <1>4 DEF OnSearches, AllLotsAt, SweepOp
<1>5. ASSUME op = "purge_snapshots" /\ PurgeAt(at, verb, kind)
      PROVE  OnSearches(op, at, verb, kind)
  BY <1>0, <1>5 DEF OnSearches, PurgeAt, SweepOp
<1>6. ASSUME op = "delete_all_push_subscriptions" /\ PushAt(at, verb, kind)
      PROVE  OnSearches(op, at, verb, kind)
  BY <1>0, <1>6 DEF OnSearches, PushAt, SweepOp
<1>7. ASSUME op = "delete_user" /\ UserAt(at, verb, kind)
      PROVE  OnSearches(op, at, verb, kind)
  BY <1>0, <1>7 DEF OnSearches, UserAt, SweepOp
<1>8. QED
  BY <1>1, <1>2, <1>3, <1>4, <1>5, <1>6, <1>7, StepTable DEF verb, kind

\* ... about lots and snapshots, ...
OnLots(op, at, verb, kind) ==
  /\ kind = "lot" =>
       \/ verb \in {"list", "pick"}
       \/ verb = "delete_listed" /\ op = "delete_tracked_lot" /\ at = 2
       \/ verb = "delete" /\ op = "delete_all_tracked_lots" /\ at = 3
       \/ verb = "delete" /\ op = "delete_user" /\ at = 6
  /\ op = "delete_tracked_lot" /\ at = 1 => verb = "pick" /\ kind = "lot"
  /\ op = "delete_tracked_lot" /\ at = 3 =>
       verb = "delete_listed" /\ kind = "snapshot"
  /\ (op = "delete_all_tracked_lots" /\ at = 1) \/ (op = "delete_user" /\ at = 4) =>
       verb = "list" /\ kind = "lot"
  /\ (op = "delete_all_tracked_lots" /\ at = 2) \/ (op = "delete_user" /\ at = 5) =>
       verb = "delete_listed" /\ kind = "snapshot"
  /\ op = "delete_user" /\ at = 6 => verb = "delete" /\ kind = "lot"

LEMMA LotSteps ==
  ASSUME NEW op \in DeleteOps, NEW at \in 1..Steps(op)
  PROVE  OnLots(op, at, Plan[op][at][1], Plan[op][at][2])
<1> DEFINE verb == Plan[op][at][1]
           kind == Plan[op][at][2]
<1>0. at \in Nat
  BY PlanLengths
<1> HIDE DEF verb, kind
<1>1. ASSUME op = "delete_saved_search" /\ SavedSearchAt(at, verb, kind)
      PROVE  OnLots(op, at, verb, kind)
  BY <1>0, <1>1 DEF OnLots, SavedSearchAt
<1>2. ASSUME op = "delete_all_saved_searches" /\ AllSearchesAt(at, verb, kind)
      PROVE  OnLots(op, at, verb, kind)
  BY <1>0, <1>2 DEF OnLots, AllSearchesAt
<1>3. ASSUME op = "delete_tracked_lot" /\ TrackedLotAt(at, verb, kind)
      PROVE  OnLots(op, at, verb, kind)
  BY <1>0, <1>3 DEF OnLots, TrackedLotAt
<1>4. ASSUME op = "delete_all_tracked_lots" /\ AllLotsAt(at, verb, kind)
      PROVE  OnLots(op, at, verb, kind)
  BY <1>0, <1>4 DEF OnLots, AllLotsAt
<1>5. ASSUME op = "purge_snapshots" /\ PurgeAt(at, verb, kind)
      PROVE  OnLots(op, at, verb, kind)
  BY <1>0, <1>5 DEF OnLots, PurgeAt
<1>6. ASSUME op = "delete_all_push_subscriptions" /\ PushAt(at, verb, kind)
      PROVE  OnLots(op, at, verb, kind)
  BY <1>0, <1>6 DEF OnLots, PushAt
<1>7. ASSUME op = "delete_user" /\ UserAt(at, verb, kind) PROVE OnLots(op, at, verb, kind)
  BY <1>0, <1>7 DEF OnLots, UserAt
<1>8. QED
  BY <1>1, <1>2, <1>3, <1>4, <1>5, <1>6, <1>7, StepTable DEF verb, kind

\* ... and about the rest.
OnTheRest(op, at, verb, kind) ==
  /\ verb \in {"list", "pick"} => kind \in {"search", "lot"}
  /\ verb = "pick" => at = 1 /\ op \in {"delete_saved_search", "delete_tracked_lot"}
  /\ verb = "list" => at = 1 \/ (op = "delete_user" /\ at = 4)
  /\ verb \in {"list", "pick", "delete", "delete_listed", "delete_found"}
  /\ verb = "delete_found" => kind = "cache"
  /\ op = "delete_user" /\ at = 7 => verb = "delete" /\ kind = "connection"
  /\ op = "delete_user" /\ at = 8 => verb = "delete" /\ kind = "subscription"
  /\ op = "delete_user" /\ at \in {9, 10} => verb = "delete" /\ kind \notin Kinds

LEMMA OtherSteps ==
  ASSUME NEW op \in DeleteOps, NEW at \in 1..Steps(op)
  PROVE  OnTheRest(op, at, Plan[op][at][1], Plan[op][at][2])
<1> DEFINE verb == Plan[op][at][1]
           kind == Plan[op][at][2]
<1>0. at \in Nat
  BY PlanLengths
<1> HIDE DEF verb, kind
<1>1. ASSUME op = "delete_saved_search" /\ SavedSearchAt(at, verb, kind)
      PROVE  OnTheRest(op, at, verb, kind)
  BY <1>0, <1>1 DEF OnTheRest, SavedSearchAt, Kinds
<1>2. ASSUME op = "delete_all_saved_searches" /\ AllSearchesAt(at, verb, kind)
      PROVE  OnTheRest(op, at, verb, kind)
  BY <1>0, <1>2 DEF OnTheRest, AllSearchesAt, Kinds
<1>3. ASSUME op = "delete_tracked_lot" /\ TrackedLotAt(at, verb, kind)
      PROVE  OnTheRest(op, at, verb, kind)
  BY <1>0, <1>3 DEF OnTheRest, TrackedLotAt, Kinds
<1>4. ASSUME op = "delete_all_tracked_lots" /\ AllLotsAt(at, verb, kind)
      PROVE  OnTheRest(op, at, verb, kind)
  BY <1>0, <1>4 DEF OnTheRest, AllLotsAt, Kinds
<1>5. ASSUME op = "purge_snapshots" /\ PurgeAt(at, verb, kind)
      PROVE  OnTheRest(op, at, verb, kind)
  BY <1>0, <1>5 DEF OnTheRest, PurgeAt, Kinds
<1>6. ASSUME op = "delete_all_push_subscriptions" /\ PushAt(at, verb, kind)
      PROVE  OnTheRest(op, at, verb, kind)
  BY <1>0, <1>6 DEF OnTheRest, PushAt, Kinds
<1>7. ASSUME op = "delete_user" /\ UserAt(at, verb, kind)
      PROVE  OnTheRest(op, at, verb, kind)
  BY <1>0, <1>7 DEF OnTheRest, UserAt, Kinds
<1>8. QED
  BY <1>1, <1>2, <1>3, <1>4, <1>5, <1>6, <1>7, StepTable DEF verb, kind

LEMMA NextStepFields ==
  ASSUME RequestsOK, NEW r \in Requests, req[r].pc = "erase", NEW listed \in SUBSET Nat,
         NextStep(r, listed)
  PROVE  /\ \A p \in Requests \ {r} : req'[p] = req[p]
         /\ req'[r].pc = "erase" =>
              /\ req'[r].op = req[r].op /\ req'[r].target = req[r].target
              /\ req'[r].at = req[r].at + 1 /\ req'[r].listed = listed
         /\ req[r].at # Steps(req[r].op) => req'[r].pc = "erase"
<1>1. req[r] \in RequestDocs /\ req \in [Requests -> RequestDocs]
  BY DEF RequestsOK
<1>2. CASE req[r].at = Steps(req[r].op)
  BY <1>1, <1>2, IdleFields DEF NextStep, Steps, Return
<1>3. CASE req[r].at # Steps(req[r].op)
  <2> DEFINE q == [req[r] EXCEPT !.at = @ + 1, !.listed = listed]
  <2>1. req' = [req EXCEPT ![r] = q]
    BY <1>3, NextStepMoves
  <2>2. /\ q.pc = req[r].pc /\ q.op = req[r].op /\ q.target = req[r].target
        /\ q.at = req[r].at + 1 /\ q.listed = listed
    BY <1>1, NextFields
  <2> HIDE DEF q
  <2>3. QED
    BY <1>1, <2>1, <2>2
<1>4. QED
  BY <1>2, <1>3

\* A deletion that has come to its last step deletes what it was to find.
LEMMA PersistsBut ==
  ASSUME NEW r \in Requests, docs' \subseteq docs,
         \A p \in Requests \ {r} : req[p].pc = "erase" => req'[p] = req[p],
         \A d \in docs' : \/ d[2] # "cache" \/ req[r].op # "delete_saved_search"
                          \/ req[r].pc # "erase" \/ req[r].at # 3 \/ d[3] \notin req[r].listed,
         \A d \in docs' : \/ d[2] # "snapshot" \/ req[r].op # "delete_tracked_lot"
                          \/ req[r].pc # "erase" \/ req[r].at # 3 \/ d[3] \notin req[r].listed
  PROVE  \A u \in Ids : Persists(u, docs', req, req')
<1> SUFFICES ASSUME NEW u \in Ids, NEW d \in docs', d[1] = u
             PROVE  /\ d[2] = "cache" /\ CachePending(req, u, d[3]) =>
                         CachePending(req', u, d[3])
                    /\ d[2] = "snapshot" /\ SnapshotPending(req, u, d[3]) =>
                         SnapshotPending(req', u, d[3])
  BY DEF Persists
<1>1. ASSUME d[2] = "cache", CachePending(req, u, d[3]) PROVE CachePending(req', u, d[3])
  BY <1>1 DEF CachePending, Pending, Erasing
<1>2. ASSUME d[2] = "snapshot", SnapshotPending(req, u, d[3])
      PROVE  SnapshotPending(req', u, d[3])
  BY <1>2 DEF SnapshotPending, Pending, Erasing
<1>3. QED
  BY <1>1, <1>2

Verb(q) == Plan[q.op][q.at][1]
What(q) == Plan[q.op][q.at][2]

\* The facts about the step a deletion has come to.
LEMMA PlanFacts ==
  ASSUME RequestsOK, NEW r \in Requests, req[r].pc = "erase"
  PROVE  /\ req[r].op \in DeleteOps /\ req[r].at \in 1..10
         /\ OnSearches(req[r].op, req[r].at, Verb(req[r]), What(req[r]))
         /\ OnLots(req[r].op, req[r].at, Verb(req[r]), What(req[r]))
         /\ OnTheRest(req[r].op, req[r].at, Verb(req[r]), What(req[r]))
<1>1. req[r].op \in DeleteOps /\ req[r].at \in 1..Steps(req[r].op)
  BY DEF RequestsOK, Coherent
<1>2. QED
  BY <1>1, SearchSteps, LotSteps, OtherSteps, PlanLengths DEF Verb, What

LEMMA EraseDocsMoves ==
  ASSUME Typed, NEW r \in Requests, EraseDocs(r)
  PROVE  /\ req[r].pc = "erase" /\ req[r].target \in Ids
         /\ \A p \in Requests \ {r} : req'[p] = req[p]
         /\ req'[r].pc = "erase" =>
              /\ req'[r].op = req[r].op /\ req'[r].target = req[r].target
              /\ req'[r].at = req[r].at + 1 /\ req'[r].listed = req[r].listed
         /\ req[r].at # Steps(req[r].op) => req'[r].pc = "erase"
         /\ UNCHANGED <<users, serial, torn, late>>
<1>1. req[r].listed \in SUBSET Nat /\ req[r].pc = "erase" /\ req[r].target \in Ids
  BY DEF EraseDocs, Typed, AccountsInv, RequestsOK, Coherent, Known
<1>2. NextStep(r, req[r].listed) /\ UNCHANGED <<users, serial, torn, late>>
  BY DEF EraseDocs
<1>3. QED
  BY <1>1, <1>2, NextStepFields DEF Typed, AccountsInv

\* What goes, and what stays.
LEMMA EraseDocsErases ==
  ASSUME Typed, NEW r \in Requests, EraseDocs(r)
  PROVE  /\ docs' \subseteq docs
         /\ Verb(req[r]) \notin {"list", "pick"} /\ What(req[r]) \in Kinds
         /\ \A d \in docs : d \in docs' \/
              /\ d[2] = What(req[r])
              /\ IF Verb(req[r]) = "delete_listed" THEN d[3] \in req[r].listed
                 ELSE d[1] = req[r].target
         /\ \A d \in docs' : d[2] = What(req[r]) =>
              /\ Verb(req[r]) = "delete" => d[1] # req[r].target
              /\ Verb(req[r]) = "delete_listed" => d[3] \notin req[r].listed
              /\ Verb(req[r]) = "delete_found" /\ d[1] = req[r].target =>
                   req[r].listed # {} /\ d[3] \notin req[r].listed
<1> DEFINE step == Step(req[r])
           verb == Verb(req[r])
           kind == What(req[r])
           u == req[r].target
           listed == req[r].listed
<1>1. step[1] = verb /\ step[2] = kind
  BY DEF Step, Verb, What
<1>2. /\ verb \notin {"list", "pick"} /\ kind \in Kinds
      /\ docs' = docs \ Deleted(step, u, listed)
  BY <1>1 DEF EraseDocs
<1>3. /\ verb \in {"delete", "delete_listed", "delete_found"}
      /\ verb = "delete_found" => kind = "cache"
  BY <1>2, PlanFacts DEF Typed, AccountsInv, OnTheRest, EraseDocs
<1> HIDE DEF step, verb, kind, u, listed
<1>4. CASE verb = "delete"
  <2>1. Deleted(step, u, listed) = {d \in docs : d[1] = u /\ d[2] = kind}
    BY <1>1, <1>4 DEF Deleted, KindOf, OwnedBy
  <2>2. QED
    BY <1>2, <1>4, <2>1 DEF step, verb, kind, u, listed
<1>5. CASE verb = "delete_listed"
  <2>1. Deleted(step, u, listed) = {d \in docs : d[2] = kind /\ d[3] \in listed}
    BY <1>1, <1>5 DEF Deleted, KindOf
  <2>2. QED
    BY <1>2, <1>5, <2>1 DEF step, verb, kind, u, listed
<1>6. CASE verb = "delete_found"
  <2>1. Deleted(step, u, listed) =
          {d \in docs : d[1] = u /\ d[2] = kind /\ (listed = {} \/ d[3] \in listed)}
    BY <1>1, <1>3, <1>6 DEF Deleted, KindOf, OwnedBy, CachesFound
  <2>2. QED
    BY <1>2, <1>6, <2>1 DEF step, verb, kind, u, listed
<1>7. QED
  BY <1>3, <1>4, <1>5, <1>6

LEMMA EraseDocsPersists ==
  ASSUME Typed, NEW r \in Requests, EraseDocs(r)
  PROVE  \A u \in Ids : Persists(u, docs', req, req')
<1>1. /\ req[r].op = "delete_saved_search" /\ req[r].at = 3 =>
           Verb(req[r]) = "delete_listed" /\ What(req[r]) = "cache"
      /\ req[r].op = "delete_tracked_lot" /\ req[r].at = 3 =>
           Verb(req[r]) = "delete_listed" /\ What(req[r]) = "snapshot"
  BY PlanFacts, EraseDocsMoves DEF Typed, AccountsInv, OnSearches, OnLots
<1>2. QED
  BY <1>1, EraseDocsMoves, EraseDocsErases, PersistsBut

LEMMA EraseDocsIds ==
  ASSUME Typed, DeletionInv, NEW r \in Requests, EraseDocs(r)
  PROVE  IdsOK(docs', serial', req')
<1>1. docs' \subseteq docs /\ serial' = serial
  BY EraseDocsMoves, EraseDocsErases
<1>2. \A p \in Requests : req'[p].pc = "erase" =>
        req[p].pc = "erase" /\ req'[p].listed = req[p].listed /\ req'[p].target = req[p].target
  BY EraseDocsMoves
<1>3. ASSUME NEW p \in Requests, NEW kind, About(req'[p], kind) PROVE About(req[p], kind)
  <2>1. CASE p # r
    BY <1>3, <2>1, EraseDocsMoves
  <2>2. CASE p = r
    <3>1. /\ req[r].op \in {"delete_saved_search", "delete_tracked_lot"} /\ req[r].at + 1 = 2
      BY <1>3, <2>2, EraseDocsMoves DEF About
    <3>2. req[r].at \in 1..10 /\ OnSearches(req[r].op, req[r].at, Verb(req[r]), What(req[r]))
          /\ OnLots(req[r].op, req[r].at, Verb(req[r]), What(req[r]))
      BY PlanFacts, EraseDocsMoves DEF Typed, AccountsInv
    <3>3. Verb(req[r]) = "pick"
      BY <3>1, <3>2 DEF OnSearches, OnLots
    <3>4. QED
      BY <3>3, EraseDocsErases
  <2>3. QED
    BY <2>1, <2>2
<1>4. QED
  BY <1>1, <1>2, <1>3 DEF DeletionInv, IdsOK, About

\* A search deleted alone is found again by its cache's turn; with all others, no
\* search is left, and the caches' turn is next.
LEMMA EraseDocsCaches ==
  ASSUME Typed, DeletionInv, NEW r \in Requests, EraseDocs(r), NEW u \in Ids, u \notin late
  PROVE  CachesOK(u, docs', req', torn')
<1> SUFFICES ASSUME NEW d \in docs', d[1] = u, d[2] = "cache",
                    ~Has(docs', u, "search", d[3]), ~CachePending(req', u, d[3])
             PROVE  None(docs', u, "search") /\ (u \in torn' \/ SweepUnderWay(req', u))
  BY DEF CachesOK
<1>1. /\ docs' \subseteq docs /\ torn' = torn /\ OwnerOK(u, docs, req, torn, users)
      /\ \A p \in Requests \ {r} : req'[p] = req[p]
      /\ req[r].pc = "erase" /\ req[r].at \in 1..10 /\ req[r].op \in DeleteOps
      /\ OnSearches(req[r].op, req[r].at, Verb(req[r]), What(req[r]))
  BY PlanFacts, EraseDocsMoves, EraseDocsErases DEF DeletionInv, Typed, AccountsInv
<1>2. ~CachePending(req, u, d[3])
  BY EraseDocsPersists DEF Persists
<1>3. ASSUME Has(docs, u, "search", d[3])
      PROVE  None(docs', u, "search") /\ SweepUnderWay(req', u)
  <2>1. PICK s \in docs : s[1] = u /\ s[2] = "search" /\ s[3] = d[3]
    BY <1>3 DEF Has
  <2>2. /\ s \notin docs'
        /\ What(req[r]) = "search"
        /\ IF Verb(req[r]) = "delete_listed" THEN s[3] \in req[r].listed
           ELSE s[1] = req[r].target
    BY <2>1, EraseDocsErases DEF Has
  <2>3. req[r].at # Steps(req[r].op)
    BY <1>1, <2>2, EraseDocsErases, SavedSearchSteps, AllSearchesSteps, UserSteps
       DEF OnSearches, SweepOp
  <2>4. /\ req'[r].pc = "erase" /\ req'[r].op = req[r].op /\ req'[r].target = req[r].target
        /\ req'[r].at = req[r].at + 1 /\ req'[r].listed = req[r].listed
    BY <2>3, EraseDocsMoves
  <2>5. CASE Verb(req[r]) = "delete_listed"
    <3>1. req[r].op = "delete_saved_search" /\ req[r].at = 2
      BY <1>1, <2>2, <2>5 DEF OnSearches
    <3>2. req[r].target = u
      BY <1>1, <2>1, <2>2, <2>5, <3>1 DEF DeletionInv, IdsOK, About
    <3>3. CachePending(req', u, d[3])
      BY <2>1, <2>2, <2>4, <2>5, <3>1, <3>2 DEF CachePending, Pending, Erasing
    <3>4. QED
      BY <3>3
  <2>6. CASE Verb(req[r]) # "delete_listed"
    <3>1. SweepOp(req[r].op) /\ req[r].at = 2 /\ Verb(req[r]) = "delete"
      BY <1>1, <2>2, <2>6, EraseDocsErases DEF OnSearches
    <3>2. req[r].target = u
      BY <2>1, <2>2, <2>6
    <3>3. None(docs', u, "search")
      BY <2>2, <3>1, <3>2, EraseDocsErases DEF None
    <3>4. SweepUnderWay(req', u)
      BY <2>4, <3>1, <3>2 DEF SweepUnderWay, Erasing, SweepsSearches, SweepOp
    <3>5. QED
      BY <3>3, <3>4
  <2>7. QED
    BY <2>5, <2>6
<1>4. ASSUME ~Has(docs, u, "search", d[3])
      PROVE  None(docs', u, "search") /\ (u \in torn' \/ SweepUnderWay(req', u))
  <2>1. None(docs, u, "search") /\ (u \in torn \/ SweepUnderWay(req, u))
    BY <1>1, <1>2, <1>4 DEF OwnerOK, CachesOK
  <2>2. None(docs', u, "search")
    BY <1>1, <2>1 DEF None
  <2>3. ASSUME SweepUnderWay(req, u), ~SweepUnderWay(req', u) PROVE FALSE
    <3>1. Erasing(req[r], u) /\ SweepsSearches(req[r]) /\ req[r].at = 3
      BY <1>1, <2>3 DEF SweepUnderWay
    <3>2. Verb(req[r]) = "delete_found" /\ What(req[r]) = "cache" /\ req[r].target = u
      BY <1>1, <3>1 DEF OnSearches, SweepsSearches, SweepOp, Erasing
    <3>3. req[r].listed # {} /\ d[3] \notin req[r].listed
      BY <3>2, EraseDocsErases
    <3>4. CachesFoundBy(req[r], u, docs, req)
      BY <1>1, <3>1 DEF OwnerOK, Swept
    <3>5. QED
      BY <1>1, <1>2, <3>1, <3>3, <3>4 DEF CachesFoundBy
  <2>4. QED
    BY <1>1, <2>1, <2>2, <2>3
<1>5. QED
  BY <1>3, <1>4

\* A lot deleted alone is found again by its snapshots' turn; with all others, it goes
\* after the snapshots.
LEMMA EraseDocsSnapshots ==
  ASSUME Typed, DeletionInv, NEW r \in Requests, EraseDocs(r), NEW u \in Ids, u \notin late
  PROVE  SnapshotsOK(u, docs', req')
<1> SUFFICES ASSUME NEW d \in docs', d[1] = u, d[2] = "snapshot", ~Has(docs', u, "lot", d[3])
             PROVE  SnapshotPending(req', u, d[3])
  BY DEF SnapshotsOK
<1>1. /\ docs' \subseteq docs /\ OwnerOK(u, docs, req, torn, users)
      /\ req[r].pc = "erase" /\ req[r].at \in 1..10 /\ req[r].op \in DeleteOps
      /\ OnLots(req[r].op, req[r].at, Verb(req[r]), What(req[r]))
  BY PlanFacts, EraseDocsMoves, EraseDocsErases DEF DeletionInv, Typed, AccountsInv
<1>2. SnapshotPending(req, u, d[3]) => SnapshotPending(req', u, d[3])
  BY EraseDocsPersists DEF Persists
<1>3. ASSUME Has(docs, u, "lot", d[3]) PROVE SnapshotPending(req', u, d[3])
  <2>1. PICK s \in docs : s[1] = u /\ s[2] = "lot" /\ s[3] = d[3]
    BY <1>3 DEF Has
  <2>2. /\ s \notin docs'
        /\ What(req[r]) = "lot"
        /\ IF Verb(req[r]) = "delete_listed" THEN s[3] \in req[r].listed
           ELSE s[1] = req[r].target
    BY <2>1, EraseDocsErases DEF Has
  <2>3. CASE Verb(req[r]) = "delete_listed"
    <3>1. req[r].op = "delete_tracked_lot" /\ req[r].at = 2
      BY <1>1, <2>2, <2>3 DEF OnLots
    <3>2. req[r].target = u
      BY <1>1, <2>1, <2>2, <2>3, <3>1 DEF DeletionInv, IdsOK, About
    <3>3. /\ req'[r].pc = "erase" /\ req'[r].op = req[r].op /\ req'[r].target = req[r].target
          /\ req'[r].at = req[r].at + 1 /\ req'[r].listed = req[r].listed
      BY <3>1, EraseDocsMoves, TrackedLotSteps
    <3>4. QED
      BY <2>1, <2>2, <2>3, <3>1, <3>2, <3>3 DEF SnapshotPending, Pending, Erasing
  <2>4. CASE Verb(req[r]) # "delete_listed"
    <3>1. \/ req[r].op = "delete_all_tracked_lots" /\ req[r].at = 3
          \/ req[r].op = "delete_user" /\ req[r].at = 6
      BY <1>1, <2>2, <2>4, EraseDocsErases DEF OnLots
    <3>2. req[r].target = u
      BY <2>1, <2>2, <2>4
    <3>3. SnapshotsSwept(req[r], u, docs, req)
      BY <1>1, <3>2 DEF OwnerOK, Swept, Erasing
    <3>4. SnapshotPending(req, u, d[3])
      BY <1>1, <3>1, <3>3 DEF SnapshotsSwept, SnapshotsPending
    <3>5. QED
      BY <1>2, <3>4
  <2>5. QED
    BY <2>3, <2>4
<1>4. QED
  BY <1>1, <1>2, <1>3 DEF OwnerOK, SnapshotsOK

LEMMA EraseDocsGone ==
  ASSUME Typed, DeletionInv, NEW r \in Requests, EraseDocs(r), NEW u \in Ids, u \notin late
  PROVE  GoneOK(u, docs', req', users')
<1>1. /\ docs' \subseteq docs /\ users' = users /\ GoneOK(u, docs, req, users)
      /\ Persists(u, docs', req, req')
  BY EraseDocsMoves, EraseDocsErases, EraseDocsPersists DEF DeletionInv, OwnerOK
<1>2. QED
  BY <1>1 DEF GoneOK, CachesPending, SnapshotsPending, Persists

\* The step adds to what the deletion has done by then.
LEMMA EraseDocsSwept ==
  ASSUME Typed, DeletionInv, NEW r \in Requests, EraseDocs(r), NEW u \in Ids, u \notin late,
         Erasing(req'[r], u)
  PROVE  Swept(req'[r], u, docs', req')
<1> DEFINE op == req[r].op
           at == req[r].at
           listed == req[r].listed
           verb == Verb(req[r])
           kind == What(req[r])
<1>1. /\ op \in DeleteOps /\ at \in 1..10
      /\ OnSearches(op, at, verb, kind) /\ OnLots(op, at, verb, kind)
      /\ OnTheRest(op, at, verb, kind)
      /\ req'[r].op = op /\ req'[r].at = at + 1 /\ req'[r].listed = listed
      /\ req[r].target = u /\ docs' \subseteq docs /\ verb \notin {"list", "pick"}
  BY PlanFacts, EraseDocsMoves, EraseDocsErases DEF Typed, AccountsInv, Erasing
<1>2. \A d \in docs' : d[2] = kind =>
        /\ verb = "delete" => d[1] # u
        /\ verb = "delete_listed" => d[3] \notin listed
        /\ verb = "delete_found" /\ d[1] = u => listed # {} /\ d[3] \notin listed
  BY <1>1, EraseDocsErases
<1>3. Swept(req[r], u, docs', req')
  <2>1. Swept(req[r], u, docs, req)
    BY <1>1, EraseDocsMoves DEF DeletionInv, OwnerOK, Erasing
  <2>2. Persists(u, docs', req, req')
    BY EraseDocsPersists
  <2>3. QED
    BY <1>1, <2>1, <2>2, SweptPersists
<1>4. SnapshotsOK(u, docs', req')
  BY EraseDocsSnapshots
<1> DEFINE q == req'[r]
<1>5. q.op = op /\ q.at = at + 1 /\ q.listed = listed
  BY <1>1
<1>6. SweepsSearches(q) <=> SweepOp(op)
  BY <1>5 DEF SweepsSearches, SweepOp
<1>7. SweepsSearches(req[r]) <=> SweepOp(op)
  BY DEF SweepsSearches, SweepOp
<1>8. req[r].op = op /\ req[r].at = at /\ req[r].listed = listed
  OBVIOUS
<1> HIDE DEF op, at, listed, verb, kind, q
<1>9. CachesFoundBy(q, u, docs', req')
  BY <1>1, <1>3, <1>5, <1>6, <1>7, <1>8 DEF Swept, CachesFoundBy, OnSearches
<1>10. SweepsSearches(q) /\ q.at >= 3 => None(docs', u, "search")
  <2>1. CASE at = 2
    BY <1>1, <1>2, <1>6, <2>1 DEF OnSearches, None
  <2>2. CASE at # 2
    BY <1>1, <1>3, <1>5, <1>6, <1>7, <1>8, <2>2 DEF Swept
  <2>3. QED
    BY <2>1, <2>2
<1>11. q.op = "delete_user" /\ q.at >= 4 => CachesPending(docs', req', u)
  <2>1. CASE at = 3
    <3>1. CachesFoundBy(req[r], u, docs', req')
      BY <1>3 DEF Swept
    <3>2. QED
      BY <1>1, <1>2, <1>5, <1>7, <1>8, <2>1, <3>1
         DEF OnSearches, SweepOp, CachesFoundBy, CachesPending
  <2>2. CASE at # 3
    BY <1>1, <1>3, <1>5, <1>8, <2>2 DEF Swept
  <2>3. QED
    BY <2>1, <2>2
<1>12. LotsFoundBy(q, u, docs')
  BY <1>1, <1>5 DEF LotsFoundBy, OnLots
<1>13. SnapshotsSwept(q, u, docs', req')
  <2>1. CASE (op = "delete_all_tracked_lots" /\ at = 2) \/ (op = "delete_user" /\ at = 5)
    <3>1. verb = "delete_listed" /\ kind = "snapshot"
      BY <1>1, <2>1 DEF OnLots
    <3>2. \A d \in docs' : d[1] = u /\ d[2] = "lot" => d[3] \in listed
      BY <1>3, <1>8, <2>1 DEF Swept, LotsFoundBy
    <3>3. SnapshotsPending(docs', req', u)
      BY <1>2, <1>4, <3>1, <3>2 DEF SnapshotsOK, SnapshotsPending, Has
    <3>4. QED
      BY <3>3 DEF SnapshotsSwept
  <2>2. CASE ~((op = "delete_all_tracked_lots" /\ at = 2) \/ (op = "delete_user" /\ at = 5))
    BY <1>1, <1>3, <1>5, <1>8, <2>2 DEF Swept, SnapshotsSwept
  <2>3. QED
    BY <2>1, <2>2
<1>14. q.op = "delete_user" /\ q.at >= 7 => None(docs', u, "lot")
  <2>1. CASE at = 6
    BY <1>1, <1>2, <1>5, <2>1 DEF OnLots, None
  <2>2. CASE at # 6
    BY <1>1, <1>3, <1>5, <1>8, <2>2 DEF Swept
  <2>3. QED
    BY <2>1, <2>2
<1>15. q.op = "delete_user" /\ q.at >= 8 => None(docs', u, "connection")
  <2>1. CASE at = 7
    BY <1>1, <1>2, <1>5, <2>1 DEF OnTheRest, None
  <2>2. CASE at # 7
    BY <1>1, <1>3, <1>5, <1>8, <2>2 DEF Swept
  <2>3. QED
    BY <2>1, <2>2
<1>16. q.op = "delete_user" /\ q.at >= 9 => None(docs', u, "subscription")
  <2>1. CASE at = 8
    BY <1>1, <1>2, <1>5, <2>1 DEF OnTheRest, None
  <2>2. CASE at # 8
    BY <1>1, <1>3, <1>5, <1>8, <2>2 DEF Swept
  <2>3. QED
    BY <2>1, <2>2
<1>17. Swept(q, u, docs', req')
  BY <1>9, <1>10, <1>11, <1>12, <1>13, <1>14, <1>15, <1>16 DEF Swept
<1>18. QED
  BY <1>17 DEF q

LEMMA EraseDocsDeletes ==
  ASSUME Typed, DeletionInv, NEW r \in Requests, EraseDocs(r) PROVE DeletionInv'
<1>1. IdsOK(docs', serial', req') /\ late' = late
  BY EraseDocsIds, EraseDocsMoves
<1>2. ASSUME NEW u \in Ids, u \notin late PROVE OwnerOK(u, docs', req', torn', users')
  <2>1. CachesOK(u, docs', req', torn')
    BY <1>2, EraseDocsCaches
  <2>2. SnapshotsOK(u, docs', req')
    BY <1>2, EraseDocsSnapshots
  <2>3. GoneOK(u, docs', req', users')
    BY <1>2, EraseDocsGone
  <2>4. ASSUME NEW p \in Requests, Erasing(req'[p], u) PROVE Swept(req'[p], u, docs', req')
    <3>1. CASE p = r
      BY <1>2, <2>4, <3>1, EraseDocsSwept
    <3>2. CASE p # r
      <4>1. req'[p] = req[p] /\ docs' \subseteq docs /\ Persists(u, docs', req, req')
        BY <3>2, EraseDocsMoves, EraseDocsErases, EraseDocsPersists
      <4>2. Swept(req[p], u, docs, req)
        BY <1>2, <2>4, <4>1 DEF DeletionInv, OwnerOK
      <4>3. QED
        BY <4>1, <4>2, SweptPersists
    <3>3. QED
      BY <3>1, <3>2
  <2>5. QED
    BY <2>1, <2>2, <2>3, <2>4 DEF OwnerOK
<1>3. QED
  BY <1>1, <1>2 DEF DeletionInv


\* A deletion goes on without having deleted a document.
LEMMA MovesKeeps ==
  ASSUME DeletionInv, NEW r \in Requests, UNCHANGED <<docs, torn, late>>,
         req[r].pc = "erase", req[r].at # 3,
         \A p \in Requests \ {r} :
           req[p].pc = "erase" \/ req'[p].pc = "erase" => req'[p] = req[p],
         \A u \in Ids : users'[u].status = "deleted" =>
           users[u].status = "deleted" \/ u \in late \/ GoneOK(u, docs, req, users'),
         IdsOK(docs', serial', req'),
         \A u \in Ids : u \notin late /\ Erasing(req'[r], u) => Swept(req'[r], u, docs', req')
  PROVE  DeletionInv'
<1>1. ASSUME NEW u \in Ids, u \notin late PROVE OwnerOK(u, docs', req', torn', users')
  <2>1. OwnerOK(u, docs, req, torn, users)
    BY <1>1 DEF DeletionInv
  <2>2. Persists(u, docs', req, req')
    BY PersistsBut
  <2>3. SweepUnderWay(req, u) => SweepUnderWay(req', u)
    BY DEF SweepUnderWay, Erasing
  <2>4. CachesOK(u, docs', req', torn')
    BY <2>1, <2>2, <2>3 DEF OwnerOK, CachesOK, Persists
  <2>5. SnapshotsOK(u, docs', req')
    BY <2>1, <2>2 DEF OwnerOK, SnapshotsOK, Persists
  <2>6. GoneOK(u, docs', req', users')
    <3>1. users'[u].status = "deleted" => GoneOK(u, docs, req, users')
      BY <1>1, <2>1 DEF OwnerOK, GoneOK
    <3>2. QED
      BY <2>2, <3>1 DEF GoneOK, CachesPending, SnapshotsPending, Persists
  <2>7. ASSUME NEW p \in Requests, Erasing(req'[p], u) PROVE Swept(req'[p], u, docs', req')
    <3>1. CASE p = r
      BY <1>1, <2>7, <3>1
    <3>2. CASE p # r
      <4>1. req'[p] = req[p] /\ docs' \subseteq docs
        BY <2>7, <3>2 DEF Erasing
      <4>2. Swept(req[p], u, docs, req)
        BY <2>1, <2>7, <4>1 DEF OwnerOK
      <4>3. QED
        BY <2>2, <4>1, <4>2, SweptPersists
    <3>3. QED
      BY <3>1, <3>2
  <2>8. QED
    BY <2>4, <2>5, <2>6, <2>7 DEF OwnerOK
<1>2. QED
  BY <1>1 DEF DeletionInv

\* A list is of the searches or the lots of the owner.
LEMMA EraseListMoves ==
  ASSUME Typed, NEW r \in Requests, EraseList(r)
  PROVE  /\ UNCHANGED <<docs, serial, torn, late, users>>
         /\ req[r].pc = "erase" /\ req[r].target \in Ids
         /\ \A p \in Requests \ {r} : req'[p] = req[p]
         /\ Verb(req[r]) \in {"list", "pick"} /\ What(req[r]) \in {"search", "lot"}
         /\ req'[r].pc = "erase" =>
              /\ req'[r].op = req[r].op /\ req'[r].target = req[r].target
              /\ req'[r].at = req[r].at + 1
              /\ \A k \in req'[r].listed : \E d \in docs :
                   d[1] = req[r].target /\ d[2] = What(req[r]) /\ d[3] = k
              /\ Verb(req[r]) = "list" => \A d \in docs :
                   d[1] = req[r].target /\ d[2] = What(req[r]) => d[3] \in req'[r].listed
<1> DEFINE found == {d[3] : d \in KindOf(OwnedBy(req[r].target), What(req[r]))}
<1>1. /\ UNCHANGED <<docs, serial, torn, late, users>>
      /\ req[r].pc = "erase" /\ req[r].target \in Ids
  BY DEF EraseList, dataVars, Typed, AccountsInv, RequestsOK, Known
<1>2. /\ Verb(req[r]) \in {"list", "pick"}
      /\ \/ Verb(req[r]) = "list" /\ NextStep(r, found)
         \/ Verb(req[r]) = "pick" /\ \E k \in found : NextStep(r, {k})
  BY DEF EraseList, Verb, What, Step
<1>3. What(req[r]) \in {"search", "lot"}
  BY <1>1, <1>2, PlanFacts DEF OnTheRest, Typed, AccountsInv
<1>4. /\ found \subseteq Nat
      /\ \A k \in found : \E d \in docs :
           d[1] = req[r].target /\ d[2] = What(req[r]) /\ d[3] = k
      /\ \A d \in docs : d[1] = req[r].target /\ d[2] = What(req[r]) => d[3] \in found
  BY DocsAssumption DEF KindOf, OwnedBy, Typed, DataInv
<1> HIDE DEF found
<1>5. PICK listed \in SUBSET Nat : /\ listed \subseteq found /\ NextStep(r, listed)
                                   /\ Verb(req[r]) = "list" => listed = found
  BY <1>2, <1>4
<1>6. NextStep(r, listed) /\ req[r].pc = "erase" /\ RequestsOK
  BY <1>1, <1>5 DEF Typed, AccountsInv
<1>7. /\ \A p \in Requests \ {r} : req'[p] = req[p]
      /\ req'[r].pc = "erase" =>
           /\ req'[r].op = req[r].op /\ req'[r].target = req[r].target
           /\ req'[r].at = req[r].at + 1 /\ req'[r].listed = listed
  BY <1>6, NextStepFields
<1>8. ASSUME req'[r].pc = "erase"
      PROVE  /\ \A k \in req'[r].listed : \E d \in docs :
                  d[1] = req[r].target /\ d[2] = What(req[r]) /\ d[3] = k
             /\ Verb(req[r]) = "list" => \A d \in docs :
                  d[1] = req[r].target /\ d[2] = What(req[r]) => d[3] \in req'[r].listed
  <2>1. req'[r].listed \subseteq found /\ (Verb(req[r]) = "list" => req'[r].listed = found)
    BY <1>5, <1>7, <1>8
  <2>2. QED
    BY <1>4, <2>1
<1>9. QED
  BY <1>1, <1>2, <1>3, <1>7, <1>8

LEMMA EraseListSwept ==
  ASSUME Typed, DeletionInv, NEW r \in Requests, EraseList(r), NEW u \in Ids, u \notin late,
         Erasing(req'[r], u)
  PROVE  Swept(req'[r], u, docs', req')
<1> DEFINE op == req[r].op
           at == req[r].at
           verb == Verb(req[r])
           kind == What(req[r])
           q == req'[r]
<1>1. /\ op \in DeleteOps /\ at \in 1..10
      /\ OnSearches(op, at, verb, kind) /\ OnLots(op, at, verb, kind)
      /\ OnTheRest(op, at, verb, kind)
      /\ verb \in {"list", "pick"} /\ req[r].pc = "erase" /\ req[r].target = u
      /\ q.op = op /\ q.at = at + 1 /\ docs' = docs
      /\ \A p \in Requests \ {r} : req'[p] = req[p]
  BY PlanFacts, EraseListMoves DEF Typed, AccountsInv, Erasing
<1>2. /\ \A k \in q.listed : \E d \in docs' : d[1] = u /\ d[2] = kind /\ d[3] = k
      /\ verb = "list" => \A d \in docs' : d[1] = u /\ d[2] = kind => d[3] \in q.listed
  BY <1>1, EraseListMoves DEF Erasing
<1>3. at = 1 \/ (op = "delete_user" /\ at = 4)
  BY <1>1 DEF OnTheRest
<1>4. Persists(u, docs', req, req')
  BY <1>1, <1>3, PersistsBut
<1>5. OwnerOK(u, docs, req, torn, users) /\ Erasing(req[r], u)
  BY <1>1 DEF DeletionInv, Erasing
<1>6. Swept(req[r], u, docs', req')
  <2>1. Swept(req[r], u, docs, req) /\ docs' \subseteq docs
    BY <1>1, <1>5 DEF OwnerOK
  <2>2. QED
    BY <1>4, <2>1, SweptPersists
<1>7. \A d \in docs' : d[1] = u /\ d[2] = "cache" =>
        Has(docs', u, "search", d[3]) \/ CachePending(req', u, d[3]) \/ None(docs', u, "search")
  BY <1>1, <1>4, <1>5 DEF OwnerOK, CachesOK, Persists
<1>8. (SweepsSearches(q) <=> SweepOp(op)) /\ (SweepsSearches(req[r]) <=> SweepOp(op))
  BY <1>1 DEF SweepsSearches, SweepOp
<1>9. req[r].op = op /\ req[r].at = at
  OBVIOUS
<1> HIDE DEF op, at, verb, kind, q
<1>10. ASSUME at = 1 PROVE Swept(q, u, docs', req')
  <2>1. CachesFoundBy(q, u, docs', req')
    <3>1. SUFFICES ASSUME SweepOp(op), q.listed # {}, NEW d \in docs', d[1] = u,
                          d[2] = "cache"
                   PROVE  d[3] \in q.listed \/ CachePending(req', u, d[3])
      BY <1>8 DEF CachesFoundBy
    <3>2. verb = "list" /\ kind = "search"
      BY <1>1, <1>10, <3>1 DEF OnSearches
    <3>3. ~None(docs', u, "search")
      BY <1>2, <3>1, <3>2 DEF None
    <3>4. QED
      BY <1>2, <1>7, <3>1, <3>2, <3>3 DEF Has
  <2>2. LotsFoundBy(q, u, docs')
    BY <1>1, <1>2, <1>10 DEF LotsFoundBy, OnLots
  <2>3. SnapshotsSwept(q, u, docs', req') /\ q.at = 2
    BY <1>1, <1>10 DEF SnapshotsSwept
  <2>4. QED
    BY <2>1, <2>2, <2>3 DEF Swept
<1>11. ASSUME op = "delete_user" /\ at = 4 PROVE Swept(q, u, docs', req')
  <2>1. CachesFoundBy(q, u, docs', req') /\ SnapshotsSwept(q, u, docs', req') /\ q.at = 5
    BY <1>1, <1>11 DEF CachesFoundBy, SnapshotsSwept
  <2>2. LotsFoundBy(q, u, docs')
    BY <1>1, <1>2, <1>11 DEF LotsFoundBy, OnLots
  <2>3. None(docs', u, "search") /\ CachesPending(docs', req', u)
    BY <1>6, <1>8, <1>9, <1>11 DEF Swept, SweepOp
  <2>4. QED
    BY <2>1, <2>2, <2>3 DEF Swept
<1>12. QED
  BY <1>3, <1>10, <1>11 DEF q

LEMMA EraseListIds ==
  ASSUME Typed, DeletionInv, NEW r \in Requests, EraseList(r)
  PROVE  IdsOK(docs', serial', req')
<1> DEFINE kind == What(req[r])
           u == req[r].target
<1>1. /\ docs' = docs /\ serial' = serial /\ kind \in {"search", "lot"}
      /\ \A p \in Requests \ {r} : req'[p] = req[p]
      /\ req'[r].pc = "erase" => /\ req'[r].op = req[r].op /\ req'[r].target = u
                                 /\ req'[r].at = req[r].at + 1
      /\ req'[r].pc = "erase" => \A k \in req'[r].listed : \E d \in docs :
                                   d[1] = u /\ d[2] = kind /\ d[3] = k
  BY EraseListMoves
<1>2. /\ OnSearches(req[r].op, req[r].at, Verb(req[r]), kind) /\ req[r].at \in 1..10
      /\ OnLots(req[r].op, req[r].at, Verb(req[r]), kind)
  BY PlanFacts, EraseListMoves DEF Typed, AccountsInv
<1> HIDE DEF kind, u
<1>3. \A p \in Requests : req'[p].pc = "erase" => \A k \in req'[p].listed : k <= serial'
  <2>1. \A d \in docs : d[2] \in {"search", "lot"} => d[3] <= serial
    BY DocsAssumption DEF Typed, DataInv
  <2>2. QED
    BY <1>1, <2>1 DEF DeletionInv, IdsOK
<1>4. ASSUME NEW d \in docs, About(req'[r], d[2]), d[3] \in req'[r].listed
      PROVE  d[1] = req'[r].target
  <2>1. d[2] = kind
    BY <1>1, <1>2, <1>4 DEF About, OnSearches, OnLots
  <2>2. PICK e \in docs : e[1] = u /\ e[2] = kind /\ e[3] = d[3]
    BY <1>1, <1>4 DEF About
  <2>3. d[1] = e[1]
    BY <1>1, <2>1, <2>2 DEF DeletionInv, IdsOK
  <2>4. QED
    BY <1>1, <1>4, <2>2, <2>3 DEF About
<1>5. QED
  BY <1>1, <1>3, <1>4 DEF DeletionInv, IdsOK

LEMMA EraseListDeletes ==
  ASSUME Typed, DeletionInv, NEW r \in Requests, EraseList(r) PROVE DeletionInv'
<1>1. IdsOK(docs', serial', req')
  BY EraseListIds
<1>2. \A u \in Ids : u \notin late /\ Erasing(req'[r], u) => Swept(req'[r], u, docs', req')
  BY EraseListSwept
<1>3. req[r].at # 3
  <2>1. Verb(req[r]) \in {"list", "pick"} /\ req[r].pc = "erase"
    BY EraseListMoves
  <2>2. QED
    BY <2>1, PlanFacts DEF OnTheRest, Typed, AccountsInv
<1>4. QED
  BY <1>1, <1>2, <1>3, EraseListMoves, MovesKeeps


LEMMA EraseInvitesDeletes ==
  ASSUME Typed, DeletionInv, NEW r \in Requests, EraseInvites(r) PROVE DeletionInv'
<1>1. /\ req[r].op = "delete_user" /\ req[r].at = 9 /\ req[r].pc = "erase"
      /\ req'[r].op = req[r].op /\ req'[r].target = req[r].target /\ req'[r].at = 10
      /\ \A p \in Requests \ {r} : req'[p] = req[p]
      /\ UNCHANGED <<docs, serial, torn, late, users>>
  BY EraseInvitesMoves DEF EraseInvites, dataVars
<1>2. req'[r].listed = {}
  <2>1. NextStep(r, {}) /\ RequestsOK /\ req'[r].pc = "erase"
    BY EraseInvitesMoves DEF EraseInvites, Typed, AccountsInv
  <2>2. QED
    BY <1>1, <2>1, NextStepFields
<1>3. IdsOK(docs', serial', req')
  BY <1>1, <1>2 DEF DeletionInv, IdsOK, About
<1>4. ASSUME NEW u \in Ids, u \notin late, Erasing(req'[r], u)
      PROVE  Swept(req'[r], u, docs', req')
  <2>1. Swept(req[r], u, docs, req)
    BY <1>1, <1>4 DEF DeletionInv, OwnerOK, Erasing
  <2>2. Persists(u, docs', req, req')
    BY <1>1, PersistsBut
  <2>3. docs' \subseteq docs
    BY <1>1
  <2>4. Swept(req[r], u, docs', req')
    BY <2>1, <2>2, <2>3, SweptPersists
  <2>5. QED
    BY <1>1, <2>4 DEF Swept, CachesFoundBy, LotsFoundBy, SnapshotsSwept, SweepsSearches
<1>5. QED
  BY <1>1, <1>3, <1>4, MovesKeeps

\* The account goes last: what is left of it then is what other deletions will find.
LEMMA EraseAccountDeletes ==
  ASSUME Typed, DeletionInv, NEW r \in Requests, EraseAccount(r), Keeps(users, users')
  PROVE  DeletionInv'
<1> DEFINE u == req[r].target
<1>1. /\ req[r].op = "delete_user" /\ req[r].at = 10 /\ req[r].pc = "erase" /\ u \in Ids
      /\ req'[r].pc = "idle" /\ UNCHANGED <<docs, serial, torn, late>>
  BY EraseAccountMoves, IdleFields
     DEF EraseAccount, dataVars, Typed, AccountsInv, RequestsOK, Known
<1>2. ASSUME NEW p \in Requests \ {r}, req[p].pc = "erase" \/ req'[p].pc = "erase"
      PROVE  req'[p] = req[p]
  <2>1. req'[p] = IF req[p].pc = "create" THEN [req[p] EXCEPT !.late = TRUE] ELSE req[p]
    BY EraseAccountMoves DEF Typed, AccountsInv
  <2>2. req[p] \in RequestDocs
    BY DEF Typed, AccountsInv, RequestsOK
  <2>3. [req[p] EXCEPT !.late = TRUE].pc = req[p].pc
    BY <2>2, LateFields
  <2>4. QED
    BY <1>2, <2>1, <2>3
<1>3. \A v \in Ids \ {u} : users'[v] = users[v]
  BY <1>1 DEF EraseAccount, Typed, AccountsInv, UsersOK
<1>4. ASSUME u \notin late PROVE GoneOK(u, docs, req, users')
  <2>1. Swept(req[r], u, docs, req) /\ SnapshotsSwept(req[r], u, docs, req)
    BY <1>1, <1>4 DEF DeletionInv, OwnerOK, Erasing, Swept
  <2>2. /\ CachesPending(docs, req, u) /\ SnapshotsPending(docs, req, u)
        /\ \A kind \in {"search", "lot", "connection", "subscription"} : None(docs, u, kind)
    BY <1>1, <2>1 DEF Swept, SnapshotsSwept, SweepsSearches
  <2>3. \A d \in docs : d[2] \in Kinds
    BY DEF Typed, DataInv
  <2>4. QED
    BY <2>2, <2>3 DEF GoneOK, None, Kinds
<1>5. IdsOK(docs', serial', req')
  BY <1>1, <1>2 DEF DeletionInv, IdsOK, About
<1>6. \A v \in Ids : ~Erasing(req'[r], v)
  BY <1>1 DEF Erasing
<1>7. \A v \in Ids : users'[v].status = "deleted" =>
        users[v].status = "deleted" \/ v \in late \/ GoneOK(v, docs, req, users')
  BY <1>1, <1>3, <1>4
<1> HIDE DEF u
<1>8. QED
  BY <1>1, <1>2, <1>5, <1>6, <1>7, MovesKeeps

\* A request that does not delete moves on, or a deletion begins.
LEMMA RequestMovesQuietly ==
  ASSUME Typed, DeletionInv, UNCHANGED <<docs, serial, torn, late>>,
         \A u \in Ids : users'[u].status = "deleted" => users[u].status = "deleted",
         NEW r \in Requests, req[r].pc # "erase", NEW q, req' = [req EXCEPT ![r] = q],
         q.pc = "erase" => q.at = 1 /\ q.listed = {}
  PROVE  DeletionInv'
<1>1. req'[r] = q /\ \A p \in Requests \ {r} : req'[p] = req[p]
  BY DEF Typed, AccountsInv, RequestsOK
<1>2. QED
  BY <1>1, QuietKeeps

\* So is what a request stores.
LEMMA RequestStores ==
  ASSUME Typed, DeletionInv, Stored, UNCHANGED <<torn, users>>,
         NEW r \in Requests, req[r].pc # "erase", NEW q, req' = [req EXCEPT ![r] = q],
         q.pc # "erase"
  PROVE  DeletionInv'
<1>1. req'[r] = q /\ \A p \in Requests \ {r} : req'[p] = req[p]
  BY DEF Typed, AccountsInv, RequestsOK
<1>2. QED
  BY <1>1, StoredKeeps


LEMMA InsertsNoDeleted ==
  ASSUME Typed, NEW email, NEW role, Insert(email, role)
  PROVE  \A u \in Ids : users'[u].status = "deleted" => users[u].status = "deleted"
<1>1. PICK u \in Ids : users' = [users EXCEPT ![u] = Account(email, role)]
  BY DEF Insert
<1>2. Account(email, role).status = "active"
  BY DEF Account
<1>3. QED
  BY <1>1, <1>2 DEF Typed, AccountsInv, UsersOK

LEMMA AccountStepDeletes ==
  ASSUME Typed, DeletionInv, AccountStep PROVE DeletionInv'
<1>1. UNCHANGED <<docs, serial, torn, late>> /\ req \in [Requests -> RequestDocs]
  BY DEF AccountStep, dataVars, Typed, AccountsInv, RequestsOK
<1>2. \A u \in Ids : users'[u].status = "deleted" => users[u].status = "deleted"
  <2>1. CASE UNCHANGED users
    BY <2>1
  <2>2. CASE Startup
    BY <2>2, InsertsNoDeleted DEF Startup
  <2>3. ASSUME NEW r \in Requests, CreateUser(r)
        PROVE  \A u \in Ids : users'[u].status = "deleted" => users[u].status = "deleted"
    BY <2>3, InsertsNoDeleted DEF CreateUser
  <2>4. QED
    BY <2>1, <2>2, <2>3
       DEF AccountStep, InviteStep, Authenticate, StartInvite, InsertInvite, Expire,
           StartRevoke, Revoke, StartAccept, MarkAccepted
<1>3. CASE UNCHANGED req
  BY <1>1, <1>2, <1>3, QuietKeeps
<1>4. ASSUME NEW r \in Requests, req[r].pc # "erase", NEW q, req' = [req EXCEPT ![r] = q],
             q.pc # "erase"
      PROVE  DeletionInv'
  BY <1>1, <1>2, <1>4, RequestMovesQuietly
<1>5. ASSUME NEW r \in Requests, req[r].pc # "erase", Return(r) PROVE DeletionInv'
  BY <1>4, <1>5, IdleFields DEF Return
<1>6. ASSUME NEW r \in Requests, NEW email \in Emails, StartInvite(r, email)
      PROVE  DeletionInv'
  <2> DEFINE q == [req[r] EXCEPT !.pc = "insert", !.email = email]
  <2>1. q.pc = "insert"
    BY <1>1, InviteFields
  <2>2. req' = [req EXCEPT ![r] = q] /\ req[r].pc # "erase"
    BY <1>1, <1>6 DEF StartInvite
  <2> HIDE DEF q
  <2>3. QED
    BY <1>4, <2>1, <2>2
<1>7. ASSUME NEW r \in Requests, NEW i \in Invites, StartRevoke(r, i) PROVE DeletionInv'
  <2> DEFINE q == [req[r] EXCEPT !.pc = "revoke", !.target = i]
  <2>1. q.pc = "revoke"
    BY <1>1, RevokeFields
  <2>2. req' = [req EXCEPT ![r] = q] /\ req[r].pc # "erase"
    BY <1>1, <1>7 DEF StartRevoke
  <2> HIDE DEF q
  <2>3. QED
    BY <1>4, <2>1, <2>2
<1>8. ASSUME NEW r \in Requests, NEW i \in Invites, StartAccept(r, i) PROVE DeletionInv'
  <2> DEFINE q == [Idle EXCEPT !.op = "accept_invite", !.pc = "create", !.target = i]
  <2>1. q.pc = "create"
    BY AnswerFields
  <2>2. req' = [req EXCEPT ![r] = q] /\ req[r] = Idle
    BY <1>8 DEF StartAccept, Call
  <2> HIDE DEF q
  <2>3. QED
    BY <1>4, <2>1, <2>2, IdleFields
<1>9. ASSUME NEW r \in Requests, NEW u \in Ids, NEW op \in Ops, Authenticate(r, u, op)
      PROVE  DeletionInv'
  <2> DEFINE q == [Idle EXCEPT !.op = op, !.pc = "start", !.by = u]
  <2>1. q.pc = "start"
    BY CallFields, AccountsAssumption
  <2>2. req' = [req EXCEPT ![r] = q] /\ req[r] = Idle
    BY <1>9 DEF Authenticate, Call
  <2> HIDE DEF q
  <2>3. QED
    BY <1>4, <2>1, <2>2, IdleFields
<1>10. ASSUME NEW r \in Requests, CreateUser(r) PROVE DeletionInv'
  <2> DEFINE q == [req[r] EXCEPT !.pc = "mark"]
  <2>1. q.pc = "mark"
    BY <1>1, PcFields DEF Pcs
  <2>2. req' = [req EXCEPT ![r] = q] /\ req[r].pc # "erase"
    BY <1>1, <1>10 DEF CreateUser, Goto
  <2> HIDE DEF q
  <2>3. QED
    BY <1>4, <2>1, <2>2
<1>11. ASSUME NEW r \in Requests,
              Revoke(r) \/ MarkAccepted(r) \/ \E i \in Invites : InsertInvite(r, i)
       PROVE  DeletionInv'
  <2>1. Return(r) /\ req[r].pc # "erase"
    BY <1>11 DEF Revoke, MarkAccepted, InsertInvite
  <2>2. QED
    BY <1>5, <2>1
<1>12. QED
  BY <1>3, <1>6, <1>7, <1>8, <1>9, <1>10, <1>11 DEF AccountStep, InviteStep, Startup, Expire

LEMMA OwnerStepDeletes ==
  ASSUME Typed, DeletionInv, NEW r \in Requests, OwnerStep(r) PROVE DeletionInv'
<1>1. Stored /\ UNCHANGED <<torn, users>> /\ req[r].pc # "erase"
  BY AddStores, DeriveStores, UpsertStores DEF OwnerStep, UserOps, Add, Derive, Upsert
<1>2. CASE Return(r)
  BY <1>1, <1>2, RequestStores, IdleFields DEF Return
<1>3. ASSUME NEW op \in UserOps, NEW kind \in {"search", "lot"}, Add(r, op, kind)
      PROVE  DeletionInv'
  <2>1. PICK q \in RequestDocs : req' = [req EXCEPT ![r] = q] /\ q.pc = "derive"
    BY <1>3, AddMoves
  <2>2. QED
    BY <1>1, <2>1, RequestStores
<1>4. QED
  BY <1>2, <1>3 DEF OwnerStep, UserOps, Derive, Upsert

LEMMA ActionStepDeletes ==
  ASSUME Typed, DeletionInv, NEW r \in Requests, ActionStep(r), Keeps(users, users')
  PROVE  DeletionInv'
<1>1. ASSUME NEW u \in Ids, StartAction(r, u) PROVE DeletionInv'
  <2>1. PICK q \in RequestDocs : req' = [req EXCEPT ![r] = q] /\ q.at = 1 /\ q.listed = {}
    BY <1>1, StartActionMoves
  <2>2. UNCHANGED <<docs, serial, torn, late, users>> /\ req[r].pc # "erase"
    BY <1>1 DEF StartAction
  <2>3. QED
    BY <2>1, <2>2, RequestMovesQuietly
<1>2. ASSUME Guard(r) PROVE DeletionInv'
  <2>1. UNCHANGED <<docs, serial, torn, late, users>> /\ req[r].pc # "erase"
    BY <1>2 DEF Guard, dataVars
  <2>2. CASE Return(r)
    BY <2>1, <2>2, RequestMovesQuietly, IdleFields DEF Return
  <2>3. CASE ~Return(r)
    <3>1. PICK q \in RequestDocs : req' = [req EXCEPT ![r] = q] /\ q.at = 1 /\ q.listed = {}
      BY <1>2, <2>3, GuardMoves
    <3>2. QED
      BY <2>1, <3>1, RequestMovesQuietly
  <2>4. QED
    BY <2>2, <2>3
<1>3. ASSUME \/ UpdateUser(r, "block", "status", "blocked")
             \/ UpdateUser(r, "unblock", "status", "active")
             \/ UpdateUser(r, "promote", "role", "admin")
             \/ UpdateUser(r, "demote", "role", "user")
      PROVE  DeletionInv'
  <2>1. UNCHANGED <<docs, serial, torn, late>> /\ req[r].pc # "erase" /\ Return(r)
    BY <1>3 DEF UpdateUser, dataVars
  <2>2. req[r].target \in Ids
    BY <1>3 DEF Typed, AccountsInv, RequestsOK, Known, UpdateUser
  <2>3. \A u \in Ids : users'[u].status = "deleted" => users[u].status = "deleted"
    BY <1>3, <2>2 DEF UpdateUser, Typed, AccountsInv, UsersOK, UserDocs
  <2>4. QED
    BY <2>1, <2>3, RequestMovesQuietly, IdleFields DEF Return
<1>4. QED
  BY <1>1, <1>2, <1>3, EraseListDeletes, EraseDocsDeletes, EraseInvitesDeletes,
     EraseAccountDeletes DEF ActionStep

LEMMA DeletionStep ==
  ASSUME Typed, DeletionInv, [Next]_vars PROVE DeletionInv'
<1>1. Keeps(users, users')
  BY UsersStep
<1>2. CASE (\E d \in docs : Copy(d)) \/ UNCHANGED vars
  <2>1. UNCHANGED <<docs, serial, torn, late, users, req>>
    BY <1>2 DEF Copy, accountVars, dataVars, vars
  <2>2. QED
    BY <2>1, QuietKeeps
<1>3. ASSUME NEW d \in copies, StoreResults(d) PROVE DeletionInv'
  <2>1. UNCHANGED <<torn, users, req>>
    BY <1>3 DEF StoreResults, accountVars
  <2>2. Stored
    BY <1>3, ResultsStore
  <2>3. QED
    BY <2>1, <2>2, StoredKeeps
<1>4. QED
  BY <1>1, <1>2, <1>3, AccountStepDeletes, OwnerStepDeletes, ActionStepDeletes, CutOffKeeps
     DEF Next

\* The first account's search and lot have their cache and snapshot.
LEMMA DeletionInit == Init => DeletionInv
<1> SUFFICES ASSUME Init PROVE DeletionInv
  OBVIOUS
<1>1. /\ \A r \in Requests : req[r].pc = "idle"
      /\ \A u \in Ids : users[u].status # "deleted"
  <2>1. \A r \in Requests : req[r].pc = "idle"
    BY IdleFields DEF Init, AccountsInit
  <2>2. \A u \in Ids : users[u].status # "deleted"
    BY DEF Init, AccountsInit, Account, NoUser
  <2>3. QED
    BY <2>1, <2>2
<1>2. \A d \in docs : d[1] = 1
  BY DEF Init
<1>3. \A d \in docs : /\ d[2] = "cache" => Has(docs, d[1], "search", d[3])
                      /\ d[2] = "snapshot" => Has(docs, d[1], "lot", d[3])
  <2>1. PICK keys \in SUBSET (1..MaxDocs \cap {1}) :
          docs = {<<1, kind, k>> : kind \in {"search", "cache", "lot", "snapshot"}, k \in keys}
    BY DEF Init
  <2>2. ASSUME NEW k \in keys PROVE Has(docs, 1, "search", k) /\ Has(docs, 1, "lot", k)
    <3>1. <<1, "search", k>> \in docs /\ <<1, "lot", k>> \in docs
      BY <2>1
    <3>2. QED
      BY <3>1 DEF Has
  <2>3. \A d \in docs : d[1] = 1 /\ d[3] \in keys
    BY <2>1
  <2>4. QED
    BY <2>2, <2>3
<1>4. IdsOK(docs, serial, req)
  BY <1>1, <1>2 DEF IdsOK, About
<1>5. ASSUME NEW u \in Ids PROVE OwnerOK(u, docs, req, torn, users)
  <2>1. CachesOK(u, docs, req, torn)
    <3>1. ASSUME NEW d \in docs, d[1] = u, d[2] = "cache" PROVE Has(docs, u, "search", d[3])
      BY <1>3, <3>1
    <3>2. QED
      BY <3>1 DEF CachesOK
  <2>2. SnapshotsOK(u, docs, req)
    BY <1>3 DEF SnapshotsOK
  <2>3. GoneOK(u, docs, req, users)
    BY <1>1 DEF GoneOK
  <2>4. QED
    BY <1>1, <2>1, <2>2, <2>3 DEF OwnerOK, Erasing
<1>6. QED
  BY <1>4, <1>5 DEF DeletionInv

\* What is left of a deleted account, stored in order, is caches and snapshots that the
\* deletion of one search or lot, still under way, will find: delete_user goes to the
\* caches after the searches, with or without a list of them, and to the lots after
\* their snapshots.
THEOREM NothingIsLeft == Spec => []NothingLeft
<1>1. Typed /\ DeletionInv => NothingLeft
  <2> SUFFICES ASSUME Typed, DeletionInv, NEW u \in Ids, users[u].status = "deleted",
                      u \notin late, NEW d \in docs, d[1] = u
               PROVE  \E r \in Requests : req[r].pc = "erase" /\ req[r].target = u
    BY DEF NothingLeft, OwnedBy
  <2>1. GoneOK(u, docs, req, users)
    BY DEF DeletionInv, OwnerOK
  <2>2. CachePending(req, u, d[3]) \/ SnapshotPending(req, u, d[3])
    BY <2>1 DEF GoneOK, CachesPending, SnapshotsPending
  <2>3. QED
    BY <2>2 DEF CachePending, SnapshotPending, Pending, Erasing
<1>2. Typed /\ DeletionInv /\ [Next]_vars => DeletionInv'
  BY DeletionStep
<1>3. QED
  BY <1>1, <1>2, AlwaysTyped, DeletionInit, PTL DEF Spec

=============================================================================
