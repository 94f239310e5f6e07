---------------------------- MODULE AdminActions ----------------------------
(***************************************************************************)
(* Administration (modules/admin): what administrators do to accounts and  *)
(* to the data of their owners, on top of Accounts, beside the owners' own *)
(* requests and the worker, which stores results for the copies it has     *)
(* made.  An action reads its target, may have to find another active      *)
(* administrator, and then updates the account or deletes collection after *)
(* collection.                                                             *)
(*                                                                         *)
(* A document is its owner, its kind and an _id, which a cache shares with *)
(* its search and a snapshot with its lot.                                 *)
(***************************************************************************)
EXTENDS Accounts, Sequences

CONSTANT MaxDocs   \* bound: searches and lots ever made

ASSUME DocsAssumption == MaxDocs \in Nat

VARIABLES
  docs,       \* <<owner, kind, _id>> of the documents there are
  serial,     \* the last _id given
  copies,     \* the searches and lots the worker has copied
  torn,       \* the owners one of whose deletions was cut off
  late,       \* the owners for whom something was stored out of order
  crowded     \* two actions that may remove an administrator were in progress at once

dataVars == <<docs, serial, copies, torn, late, crowded>>
vars == <<accountVars, dataVars>>

Derived == [search |-> "cache", lot |-> "snapshot"]
Kinds == {"search", "cache", "lot", "snapshot", "subscription", "connection"}
OwnedBy(u) == {d \in docs : d[1] = u}
KindOf(set, kind) == {d \in set : d[2] = kind}

\* The first account may have a search and a lot.
Init ==
  /\ AccountsInit
  /\ docs \in {{<<1, kind, k>> : kind \in {"search", "cache", "lot", "snapshot"}, k \in keys} :
               keys \in SUBSET (1..MaxDocs \cap {1})}
  /\ serial = IF docs = {} THEN 0 ELSE 1
  /\ copies = {}
  /\ torn = {}
  /\ late = {}
  /\ crowded = FALSE

----------------------------------------------------------------------------
(* The data of an owner.                                                   *)

BeingDeleted(u) ==
  \/ u \in torn \/ ~Live(u)
  \/ \E r \in Requests : req[r].pc = "erase" /\ req[r].target = u

\* Out of order is what is stored once a deletion has begun, and a cache or a
\* snapshot whose search or lot is gone.  A cut-off deletion of one search or lot
\* counts as well.
Store(d, inOrder) ==
  /\ docs' = docs \cup {d}
  /\ late' = IF inOrder /\ ~BeingDeleted(d[1]) THEN late ELSE late \cup {d[1]}

DeriveFrom(d) == Store(<<d[1], Derived[d[2]], d[3]>>, d \in docs)

\* save_search, add_tracked_lot: the search or lot first, then what is derived from it.
Add(r, op, kind) ==
  /\ req[r].op = op
  /\ req[r].pc = "start"
  /\ serial < MaxDocs
  /\ serial' = serial + 1
  /\ LET d == <<req[r].by, kind, serial'>>
     IN Store(d, TRUE) /\ req' = [req EXCEPT ![r].pc = "derive", ![r].listed = {d}]
  /\ UNCHANGED <<users, invites, calls, made, copies, torn, crowded>>

Derive(r) ==
  /\ req[r].pc = "derive"
  /\ \E d \in req[r].listed : DeriveFrom(d)
  /\ Return(r)
  /\ UNCHANGED <<users, invites, calls, made, serial, copies, torn, crowded>>

\* upsert_subscription, connect_account
Upsert(r, op, kind) ==
  /\ req[r].op = op
  /\ req[r].pc = "start"
  /\ Store(<<req[r].by, kind, 0>>, TRUE)
  /\ Return(r)
  /\ UNCHANGED <<users, invites, calls, made, serial, copies, torn, crowded>>

\* The worker copies a search or lot ...
Copy(d) ==
  /\ d \in KindOf(docs, "search") \cup KindOf(docs, "lot")
  /\ copies = {}
  /\ copies' = {d}
  /\ UNCHANGED <<accountVars, docs, serial, torn, late, crowded>>

\* ... and stores its results, wherever the document is by then.
StoreResults(d) ==
  /\ d \in copies
  /\ DeriveFrom(d)
  /\ copies' = copies \ {d}
  /\ UNCHANGED <<accountVars, serial, torn, crowded>>

OwnerStep(r) ==
  \/ Add(r, "save_search", "search") \/ Add(r, "add_tracked_lot", "lot") \/ Derive(r)
  \/ Upsert(r, "upsert_subscription", "subscription") \/ Upsert(r, "connect", "connection")

----------------------------------------------------------------------------
(* execute_user_action.                                                    *)

Guarded == {"block", "demote", "delete_user"}

\* Mutated form: the account goes before the invites.
PlanUserFirst ==
  [op \in DeleteOps |->
     <<<<"list", "search">>, <<"delete", "search">>, <<"delete_found", "cache">>,
       <<"list", "lot">>, <<"delete_listed", "snapshot">>, <<"delete", "lot">>,
       <<"delete", "connection">>, <<"delete", "subscription">>,
       <<"delete", "account">>, <<"delete", "invite">>>>]

\* delete_user deletes the searches and the lots as the actions on all of them do.
Plan ==
  [delete_saved_search |->
     <<<<"pick", "search">>, <<"delete_listed", "search">>, <<"delete_listed", "cache">>>>,
   delete_all_saved_searches |->
     <<<<"list", "search">>, <<"delete", "search">>, <<"delete_found", "cache">>>>,
   delete_tracked_lot |->
     <<<<"pick", "lot">>, <<"delete_listed", "lot">>, <<"delete_listed", "snapshot">>>>,
   delete_all_tracked_lots |->
     <<<<"list", "lot">>, <<"delete_listed", "snapshot">>, <<"delete", "lot">>>>,
   purge_snapshots |-> <<<<"list", "lot">>, <<"delete_listed", "snapshot">>>>,
   delete_all_push_subscriptions |-> <<<<"delete", "subscription">>>>,
   delete_user |->
     <<<<"list", "search">>, <<"delete", "search">>, <<"delete_found", "cache">>,
       <<"list", "lot">>, <<"delete_listed", "snapshot">>, <<"delete", "lot">>,
       <<"delete", "connection">>, <<"delete", "subscription">>,
       <<"delete", "invite">>, <<"delete", "account">>>>]

Proceed(q) == [q EXCEPT !.pc = IF q.op \in DeleteOps THEN "erase" ELSE "update"]

\* _require_user
StartAction(r, u) ==
  /\ req[r].op \in AdminOps \ {"create_invite", "revoke_invite"}
  /\ req[r].pc = "start"
  /\ Live(u)
  /\ LET q == [req[r] EXCEPT !.target = u, !.seen = users[u]]
     IN req' = [req EXCEPT ![r] =
                  IF q.op \in Guarded THEN [q EXCEPT !.pc = "guard"] ELSE Proceed(q)]
  /\ crowded' = (crowded \/ (req[r].op \in Guarded /\ \E q \in Requests \ {r} :
                   req[q].op \in Guarded /\ req[q].pc \in {"guard", "update", "erase"}))
  /\ UNCHANGED <<users, invites, calls, made, docs, serial, copies, torn, late>>

\* Mutated form: a blocked administrator counts as another one.
LastActiveAdminOfAll(seen, u) ==
  /\ seen.role = "admin" /\ seen.status = "active"
  /\ \A v \in Ids \ {u} : Live(v) => users[v].role # "admin"

LastActiveAdmin(seen, u) ==
  /\ seen.role = "admin" /\ seen.status = "active"
  /\ \A v \in Ids \ {u} : ~Admin(v)

\* _ensure_not_last_active_admin; 409 ends the request.
Guard(r) ==
  /\ req[r].pc = "guard"
  /\ IF LastActiveAdmin(req[r].seen, req[r].target) THEN Return(r)
     ELSE req' = [req EXCEPT ![r] = Proceed(@)]
  /\ UNCHANGED <<users, invites, calls, made, dataVars>>

\* block, unblock, promote, demote: find_one_and_update, 404 when the account is gone.
UpdateUser(r, op, field, value) ==
  /\ req[r].op = op
  /\ req[r].pc = "update"
  /\ LET u == req[r].target IN
     users' = IF Live(u) THEN [users EXCEPT ![u][field] = value] ELSE users
  /\ Return(r)
  /\ UNCHANGED <<invites, calls, made, dataVars>>

\* Mutated form: without searches there is nothing to look for.
CachesListed(u, listed) == {d \in KindOf(OwnedBy(u), "cache") : d[3] \in listed}

\* delete_saved_searches_for_owner: the caches of the searches found, every cache of
\* the owner when there were none.
CachesFound(u, listed) ==
  {d \in KindOf(OwnedBy(u), "cache") : listed = {} \/ d[3] \in listed}

Deleted(step, u, listed) ==
  CASE step[1] = "delete" -> KindOf(OwnedBy(u), step[2])
    [] step[1] = "delete_listed" -> {d \in KindOf(docs, step[2]) : d[3] \in listed}
    [] step[1] = "delete_found" -> CachesFound(u, listed)
    [] OTHER -> {}

Step(q) == Plan[q.op][q.at]

NextStep(r, listed) ==
  IF req[r].at = Len(Plan[req[r].op]) THEN Return(r)
  ELSE req' = [req EXCEPT ![r].at = @ + 1, ![r].listed = listed]

EraseList(r) ==
  /\ req[r].pc = "erase"
  /\ LET step == Step(req[r])
         found == {d[3] : d \in KindOf(OwnedBy(req[r].target), step[2])}
     IN \/ step[1] = "list" /\ NextStep(r, found)
        \/ step[1] = "pick" /\ \E k \in found : NextStep(r, {k})
  /\ UNCHANGED <<users, invites, calls, made, dataVars>>

EraseDocs(r) ==
  /\ req[r].pc = "erase"
  /\ LET step == Step(req[r]) IN
     /\ step[1] \notin {"list", "pick"} /\ step[2] \in Kinds
     /\ docs' = docs \ Deleted(step, req[r].target, req[r].listed)
  /\ NextStep(r, req[r].listed)
  /\ UNCHANGED <<users, invites, calls, made, serial, copies, torn, late, crowded>>

EraseInvites(r) ==
  /\ req[r].pc = "erase"
  /\ Step(req[r]) = <<"delete", "invite">>
  /\ invites' = [i \in Invites |->
       IF invites[i].status # "none" /\ invites[i].email = req[r].seen.email
       THEN [invites[i] EXCEPT !.status = "deleted", !.fresh = FALSE] ELSE invites[i]]
  /\ NextStep(r, {})
  /\ UNCHANGED <<users, calls, made, dataVars>>

\* The answers to an invite that are under way are overtaken.
EraseAccount(r) ==
  /\ req[r].pc = "erase"
  /\ Step(req[r]) = <<"delete", "account">>
  /\ users' = [users EXCEPT ![req[r].target].status = "deleted"]
  /\ req' = [q \in Requests |->
       IF q = r THEN (IF req[r].at = Len(Plan[req[r].op]) THEN Idle
                      ELSE [req[r] EXCEPT !.at = @ + 1])
       ELSE IF req[q].pc = "create" THEN [req[q] EXCEPT !.late = TRUE] ELSE req[q]]
  /\ UNCHANGED <<invites, calls, made, dataVars>>

ActionStep(r) ==
  \/ \E u \in Ids : StartAction(r, u)
  \/ Guard(r)
  \/ UpdateUser(r, "block", "status", "blocked") \/ UpdateUser(r, "unblock", "status", "active")
  \/ UpdateUser(r, "promote", "role", "admin") \/ UpdateUser(r, "demote", "role", "user")
  \/ EraseList(r) \/ EraseDocs(r) \/ EraseInvites(r) \/ EraseAccount(r)

----------------------------------------------------------------------------
AccountStep ==
  /\ \/ Startup
     \/ InviteStep
     \/ \E r \in Requests, u \in Ids, op \in Ops : Authenticate(r, u, op)
  /\ UNCHANGED dataVars

RequestCutOff(r) ==
  /\ CutOff(r)
  /\ LET whose == IF req[r].pc = "erase" THEN {req[r].target} ELSE {} IN
     /\ torn' = torn \cup whose
     /\ late' = IF req[r].op \in {"delete_saved_search", "delete_tracked_lot"}
                THEN late \cup whose ELSE late
  /\ UNCHANGED <<docs, serial, copies, crowded>>

Next ==
  \/ AccountStep
  \/ \E r \in Requests : OwnerStep(r) \/ ActionStep(r) \/ RequestCutOff(r)
  \/ \E d \in docs : Copy(d)
  \/ \E d \in copies : StoreResults(d)

Spec == Init /\ [][Next]_vars

----------------------------------------------------------------------------
\* Documents and requests stay well formed; no two accounts have one email.
TypeOK ==
  /\ AccountsTypeOK
  /\ docs \subseteq Ids \X Kinds \X (0..MaxDocs)
  /\ serial \in 0..MaxDocs
  /\ copies \subseteq Ids \X {"search", "lot"} \X (1..MaxDocs)
  /\ torn \cup late \subseteq Ids

\* "demote, block, and delete_user reject attempts to remove the last active admin
\* account" (docs/backend-api.md:454): an active administrator remains, unless two
\* such actions were in progress at once.
AdminRemains == crowded \/ \E u \in Ids : Admin(u)

\* "delete_user also deletes owned provider connections, saved searches, ... and
\* invite records" (docs/backend-api.md:455): nothing is left of a deleted account,
\* however often its deletion was cut off before, unless something was stored for it
\* out of order, or the deletion of one search or one lot, which go before their cache
\* and snapshots, was cut off or is still under way.
NothingLeft ==
  \A u \in Ids : users[u].status = "deleted" =>
    \/ OwnedBy(u) = {}
    \/ u \in late
    \/ \E r \in Requests : req[r].pc = "erase" /\ req[r].target = u

\* One invite, one account: neither a second answer nor one after a cut-off deletion
\* brings a deleted account back, unless the answer was under way when it went.
OneAccountPerInvite == \A i \in Invites : made[i] <= 1
=============================================================================
