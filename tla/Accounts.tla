------------------------------ MODULE Accounts ------------------------------
(***************************************************************************)
(* Accounts and invites (modules/auth with the dependencies of the API):   *)
(* the users, unique by email, the invites, and the requests at work on    *)
(* them.  A request authenticates first, by the _id in its token, and then *)
(* reads and writes one document at a time.  AdminActions adds the         *)
(* administrator's actions and the data a user owns.                       *)
(***************************************************************************)
EXTENDS Naturals, FiniteSets

CONSTANTS
  Emails,
  BootstrapEmail,  \* bootstrap_admin_email
  Invites,         \* the invites there may be
  Requests,        \* what is handled at once
  Ops,             \* what may be requested
  MaxUsers,        \* bound: accounts ever created
  MaxCalls         \* bound: requests ever made

DeleteOps == {"delete_saved_search", "delete_all_saved_searches", "delete_tracked_lot",
              "delete_all_tracked_lots", "purge_snapshots", "delete_all_push_subscriptions",
              "delete_user"}
AdminOps == {"create_invite", "revoke_invite", "block", "unblock", "promote", "demote"}
            \cup DeleteOps
UserOps == {"save_search", "add_tracked_lot", "upsert_subscription", "connect"}

ASSUME AccountsAssumption ==
  /\ BootstrapEmail \in Emails
  /\ Ops \subseteq AdminOps \cup UserOps
  /\ {MaxUsers, MaxCalls} \subseteq Nat \ {0}

VARIABLES
  users,     \* users[u]: the account with _id u
  invites,
  req,       \* req[r]: the request in progress, by the account that authenticated
  calls,     \* requests so far
  made       \* made[i]: accounts made of invite i by answers that no deletion overtook

accountVars == <<users, invites, req, calls, made>>

Ids == 1..MaxUsers
Nobody == 0
NoUser == [email |-> BootstrapEmail, role |-> "user", status |-> "none"]
NoInvite == [email |-> BootstrapEmail, status |-> "none", fresh |-> FALSE]
\* email: whom to invite; seen: the target as it was read; listed: what was found; at: the
\* step of a deletion that comes next; late: overtaken by a deletion.
Idle == [op |-> "idle", pc |-> "idle", by |-> Nobody, target |-> Nobody, seen |-> NoUser,
         email |-> BootstrapEmail, listed |-> {}, at |-> 1, late |-> FALSE]

Account(email, role) == [email |-> email, role |-> role, status |-> "active"]

\* The bootstrap administrator, and perhaps an account made earlier.
AccountsInit ==
  /\ \E second \in {NoUser} \cup {Account(e, role) : e \in Emails \ {BootstrapEmail},
                                                   role \in {"user", "admin"}} :
       users = [u \in Ids |-> CASE u = 1 -> Account(BootstrapEmail, "admin")
                                [] u = 2 -> second
                                [] OTHER -> NoUser]
  /\ invites = [i \in Invites |-> NoInvite]
  /\ req = [r \in Requests |-> Idle]
  /\ calls = 0
  /\ made = [i \in Invites |-> 0]

----------------------------------------------------------------------------
Live(u) == users[u].status \in {"active", "blocked"}

\* Mutated form: there is no such index.
TakenNever(email) == FALSE

Taken(email) == \E u \in Ids : Live(u) /\ users[u].email = email

\* create_user: the index on email is unique.
Insert(email, role) ==
  /\ ~Taken(email)
  /\ \E u \in Ids :
       /\ users[u].status = "none"
       /\ \A v \in 1..(u - 1) : users[v].status # "none"
       /\ users' = [users EXCEPT ![u] = Account(email, role)]

\* ensure_bootstrap_admin, at every start of a process.
Startup ==
  /\ Insert(BootstrapEmail, "admin")
  /\ UNCHANGED <<invites, req, calls, made>>

----------------------------------------------------------------------------
(* Authentication: get_current_user and require_admin.                     *)

Active(u) == u # Nobody /\ users[u].status = "active"
Admin(u) == Active(u) /\ users[u].role = "admin"

Call(r, request) ==
  /\ req[r] = Idle
  /\ calls < MaxCalls
  /\ calls' = calls + 1
  /\ req' = [req EXCEPT ![r] = request]

Goto(r, pc) == req' = [req EXCEPT ![r].pc = pc]
Return(r) == req' = [req EXCEPT ![r] = Idle]

Authenticate(r, u, op) ==
  /\ IF op \in AdminOps THEN Admin(u) ELSE Active(u)
  /\ Call(r, [Idle EXCEPT !.op = op, !.pc = "start", !.by = u])
  /\ UNCHANGED <<users, invites, made>>

\* A request comes to nothing: the database fails or the process stops.
CutOff(r) ==
  /\ req[r] # Idle
  /\ Return(r)
  /\ UNCHANGED <<users, invites, calls, made>>

----------------------------------------------------------------------------
(* Invites.                                                                *)

StartInvite(r, email) ==
  /\ req[r].op = "create_invite"
  /\ req[r].pc = "start"
  /\ ~Taken(email)
  /\ req' = [req EXCEPT ![r].pc = "insert", ![r].email = email]
  /\ UNCHANGED <<users, invites, calls, made>>

InsertInvite(r, i) ==
  /\ req[r].pc = "insert"
  /\ invites[i].status = "none"
  /\ invites' = [invites EXCEPT ![i] = [email |-> req[r].email, status |-> "pending",
                                        fresh |-> TRUE]]
  /\ Return(r)
  /\ UNCHANGED <<users, calls, made>>

Expire(i) ==
  /\ invites[i].fresh
  /\ invites' = [invites EXCEPT ![i].fresh = FALSE]
  /\ UNCHANGED <<users, req, calls, made>>

StartRevoke(r, i) ==
  /\ req[r].op = "revoke_invite"
  /\ req[r].pc = "start"
  /\ invites[i].status = "pending"
  /\ req' = [req EXCEPT ![r].pc = "revoke", ![r].target = i]
  /\ UNCHANGED <<users, invites, calls, made>>

\* update_one finds nothing when the invite is gone; whatever its status is, it
\* becomes the new one.
Mark(i, status) ==
  invites' = IF invites[i].status = "deleted" THEN invites
             ELSE [invites EXCEPT ![i].status = status]

Revoke(r) ==
  /\ req[r].pc = "revoke"
  /\ Mark(req[r].target, "revoked")
  /\ Return(r)
  /\ UNCHANGED <<users, calls, made>>

Answerable(i) == invites[i].status = "pending" /\ invites[i].fresh

\* accept_invite needs no account, only the token of the invite.
StartAccept(r, i) ==
  /\ Answerable(i)
  /\ Call(r, [Idle EXCEPT !.op = "accept_invite", !.pc = "create", !.target = i])
  /\ UNCHANGED <<users, invites, made>>

CreateUser(r) ==
  /\ req[r].pc = "create"
  /\ LET i == req[r].target IN
     /\ Insert(invites[i].email, "user")
     /\ made' = IF req[r].late THEN made ELSE [made EXCEPT ![i] = @ + 1]
  /\ Goto(r, "mark")
  /\ UNCHANGED <<invites, calls>>

MarkAccepted(r) ==
  /\ req[r].pc = "mark"
  /\ Mark(req[r].target, "accepted")
  /\ Return(r)
  /\ UNCHANGED <<users, calls, made>>

InviteStep ==
  \/ \E r \in Requests, e \in Emails : StartInvite(r, e)
  \/ \E r \in Requests, i \in Invites : InsertInvite(r, i) \/ StartRevoke(r, i) \/ StartAccept(r, i)
  \/ \E r \in Requests : Revoke(r) \/ CreateUser(r) \/ MarkAccepted(r)
  \/ \E i \in Invites : Expire(i)

----------------------------------------------------------------------------
AccountsTypeOK ==
  /\ users \in [Ids -> [email : Emails, role : {"user", "admin"},
                        status : {"none", "active", "blocked", "deleted"}]]
  /\ invites \in [Invites -> [email : Emails, fresh : BOOLEAN,
                              status : {"none", "pending", "accepted", "revoked", "deleted"}]]
  /\ \A r \in Requests : req[r].op \in AdminOps \cup UserOps \cup {"accept_invite", "idle"}
  /\ calls \in 0..MaxCalls
  /\ made \in [Invites -> Nat]
  /\ \A u, v \in Ids : Live(u) /\ Live(v) /\ users[u].email = users[v].email => u = v
=============================================================================
