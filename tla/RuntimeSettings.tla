--------------------------- MODULE RuntimeSettings ---------------------------
(***************************************************************************)
(* The settings administrators may override while the program runs         *)
(* (modules/runtime_settings), and the poll cycles that work with them     *)
(* (worker/main.py): every cycle resolves the settings anew.  A value is   *)
(* the set of its numbers, which is all that int() and sorted(set(...))    *)
(* keep of it.                                                             *)
(***************************************************************************)
EXTENDS Naturals, FiniteSets

CONSTANTS
  Keys,       \* RUNTIME_SETTING_DEFINITIONS
  Unlisted,   \* a key that is not among them
  TypeOf,     \* value_type: "integer" or "integer_list"
  Low, High,  \* min_value, max_value
  MaxItems,   \* max_items of a list
  Default,    \* the value the environment gives
  Raws,       \* what a client may send, or an earlier release stored
  Admins,
  MaxChanges  \* bound: requests to change settings

ASSUME SettingsAssumption ==
  /\ Unlisted \notin Keys
  /\ TypeOf \in [Keys -> {"integer", "integer_list"}]
  /\ {Low, High} \subseteq [Keys -> Nat]
  /\ Default \in [Keys -> (SUBSET Nat) \ {{}}]
  /\ Raws \subseteq [type : {"integer", "integer_list", "text"}, items : SUBSET Nat]
  /\ {MaxItems, MaxChanges} \subseteq Nat

VARIABLES
  stored,   \* stored[k]: the override document of k
  change,   \* change[a]: the update or reset an administrator has asked for
  changes,  \* requests so far
  cycle     \* the worker's poll cycle, with the settings it was built from

settingsVars == <<stored, change, changes, cycle>>

NoOverride == [type |-> "none", items |-> {}]
\* want: what each key is to hold; todo: the keys not yet written; lost: keys that
\* another request has written since this one did.
ChangeState(pc, want, todo, lost) == [pc |-> pc, want |-> want, todo |-> todo, lost |-> lost]
NoChange == ChangeState("idle", << >>, {}, {})
\* changed: keys written since the cycle began.
CycleState(pc, values, changed) == [pc |-> pc, values |-> values, changed |-> changed]
Asleep == CycleState("asleep", Default, {})

\* An integer comes as a number, or as text that int() can read.
Accepts(k, raw) ==
  /\ IF TypeOf[k] = "integer" THEN raw.type \in {"integer", "text"} /\ Cardinality(raw.items) = 1
                              ELSE raw.type = "integer_list" /\ Cardinality(raw.items) \in 1..MaxItems
  /\ raw.items \subseteq Low[k]..High[k]

Normal(k, raw) == [type |-> TypeOf[k], items |-> raw.items]

\* What an earlier release stored may be out of today's bounds.
SettingsInit ==
  /\ stored \in [Keys -> Raws \cup {NoOverride}]
  /\ change = [a \in Admins |-> NoChange]
  /\ changes = 0
  /\ cycle = Asleep

\* Mutated form: whatever is stored is used.
EffectiveStored(k) == stored[k].items
Effective(k) == IF Accepts(k, stored[k]) THEN stored[k].items ELSE Default[k]

----------------------------------------------------------------------------
(* Requests of administrators                                              *)

Wants == UNION {[ks -> Raws] : ks \in (SUBSET (Keys \cup {Unlisted})) \ {{}}}

\* Mutated form: the keys are checked, the values are not.
CheckedKeys(want) == DOMAIN want \subseteq Keys
Checked(want) == \A k \in DOMAIN want : k \in Keys /\ Accepts(k, want[k])

Begin(a, want) ==
  /\ change[a].pc = "idle" /\ changes < MaxChanges
  /\ changes' = changes + 1
  /\ change' = [change EXCEPT ![a] = ChangeState("writing", want, DOMAIN want, {})]
  /\ UNCHANGED <<stored, cycle>>

\* Every value is checked before the first is written; otherwise the answer is an
\* error, and nothing has changed.
UpdateSettings(a) ==
  \E want \in Wants :
    Checked(want) /\ Begin(a, [k \in DOMAIN want \cap Keys |-> Normal(k, want[k])])

ResetSettings(a) ==
  \E ks \in (SUBSET Keys) \ {{}} : Begin(a, [k \in ks |-> NoOverride])

\* The documents of ks are written at once.
Write(a, ks) ==
  /\ change[a].pc = "writing" /\ ks # {} /\ ks \subseteq change[a].todo
  /\ stored' = [k \in Keys |-> IF k \in ks THEN change[a].want[k] ELSE stored[k]]
  /\ change' = [b \in Admins |->
       LET q == change[b] IN
       IF b = a THEN ChangeState("writing", q.want, q.todo \ ks, q.lost \ ks)
                ELSE ChangeState(q.pc, q.want, q.todo, q.lost \cup (ks \cap DOMAIN q.want))]
  /\ cycle' = IF cycle.pc = "asleep" THEN cycle
              ELSE CycleState("polling", cycle.values, cycle.changed \cup ks)
  /\ UNCHANGED changes

\* An update writes one document at a time: requests may mix.
UpsertOverride(a, k) ==
  /\ k \in change[a].todo /\ change[a].want[k] # NoOverride
  /\ Write(a, {k})

\* A reset deletes all its documents at once.
DeleteOverrides(a) ==
  /\ \A k \in change[a].todo : change[a].want[k] = NoOverride
  /\ Write(a, change[a].todo)

Respond(a) ==
  /\ change[a].pc = "writing" /\ change[a].todo = {}
  /\ change' = [change EXCEPT ![a] = ChangeState("answered", @.want, {}, @.lost)]
  /\ UNCHANGED <<stored, changes, cycle>>

\* The administrator reads the answer, or the database fails half way.
Leave(a) ==
  /\ change[a].pc # "idle"
  /\ change' = [change EXCEPT ![a] = NoChange]
  /\ UNCHANGED <<stored, changes, cycle>>

----------------------------------------------------------------------------
(* The worker's cycle                                                      *)

\* Mutated form: the services are built from the environment alone.
ResolveDefault == Default
Resolve == [k \in Keys |-> Effective(k)]

BuildServices ==
  /\ cycle.pc = "asleep"
  /\ cycle' = CycleState("polling", Resolve, {})
  /\ UNCHANGED <<stored, change, changes>>

\* run_single_poll_cycle returns, or the worker is cut off and started again.
CycleEnds ==
  /\ cycle.pc = "polling"
  /\ cycle' = Asleep
  /\ UNCHANGED <<stored, change, changes>>

AdminStep(a) ==
  \/ UpdateSettings(a) \/ ResetSettings(a)
  \/ (\E k \in Keys : UpsertOverride(a, k)) \/ DeleteOverrides(a)
  \/ Respond(a) \/ Leave(a)

----------------------------------------------------------------------------
SettingsTypeOK ==
  /\ stored \in [Keys -> Raws \cup {NoOverride} \cup [type : {"integer", "integer_list"}, items : SUBSET Nat]]
  /\ \A a \in Admins :
       /\ change[a].pc \in {"idle", "writing", "answered"}
       /\ change[a].todo \subseteq DOMAIN change[a].want
       /\ change[a].lost \subseteq DOMAIN change[a].want
       /\ DOMAIN change[a].want \subseteq Keys
  /\ changes \in 0..MaxChanges
  /\ cycle.pc \in {"asleep", "polling"} /\ cycle.changed \subseteq Keys
  /\ cycle.values \in [Keys -> (SUBSET Nat) \ {{}}]

\* An administrator told that settings were saved finds them in effect, the default
\* where they were reset, unless another request has written the same setting since.
AnsweredIsInEffect ==
  \A a \in Admins : change[a].pc = "answered" =>
    \A k \in DOMAIN change[a].want \ change[a].lost :
      Effective(k) = IF change[a].want[k] = NoOverride THEN Default[k] ELSE change[a].want[k].items

\* A poll cycle works with the settings in effect when it began, each within its bounds
\* or the environment's own: what an earlier release stored with other bounds is not used.
CycleUpToDate ==
  cycle.pc = "polling" =>
    \A k \in Keys :
      /\ k \notin cycle.changed => cycle.values[k] = Effective(k)
      /\ cycle.values[k] \subseteq Low[k]..High[k] \/ cycle.values[k] = Default[k]
=============================================================================
