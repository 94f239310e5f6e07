----------------------------- MODULE WorkerProofs -----------------------------
(***************************************************************************)
(* Proofs about what a worker loop relies on: the job documents through    *)
(* which it takes the resources it refreshes (RefreshJobRuntime), for      *)
(* every set of resources and every lease, back-off and cycle length, and  *)
(* the settings it reads at each cycle (RuntimeSettings, in the whole of   *)
(* LiveSync), for any settings, administrators, requests and changes.      *)
(***************************************************************************)
EXTENDS RefreshJobRuntime, LiveSync, FiniteSetTheorems, TLAPS

\* For any number of workers the job documents stay well formed: whatever two
\* loops overwrite in each other's documents, no deadline is ever further away
\* than the lease or the back-off that set it.
THEOREM RuntimeTypeCorrect == Spec => []TypeOK
<1>1. Init => TypeOK
  BY RuntimeAssumption DEF Init, TypeOK, Status, Phase, Reason
<1>2. TypeOK /\ [Next]_vars => TypeOK'
  <2> SUFFICES ASSUME TypeOK, [Next]_vars PROVE TypeOK'
    OBVIOUS
  <2> USE RuntimeAssumption DEF TypeOK, Status, Phase, Reason
  <2>1. CASE Tick
    BY <2>1 DEF Tick, Sooner
  <2>2. ASSUME NEW w \in Workers, NEW due \in SUBSET Jobs, StartCycle(w, due)
        PROVE TypeOK'
    BY <2>2 DEF StartCycle, Goto
  <2>3. ASSUME NEW w \in Workers, NEW j \in Jobs, AcquireRead(w, j)
        PROVE TypeOK'
    BY <2>3 DEF AcquireRead, Goto
  <2>4. ASSUME NEW w \in Workers, AcquireWrite(w)
        PROVE TypeOK'
    BY <2>4 DEF AcquireWrite, Goto
  <2>5. ASSUME NEW w \in Workers, DescribeSkip(w)
        PROVE TypeOK'
    BY <2>5 DEF DescribeSkip, SkipReason, Goto
  <2>6. ASSUME NEW w \in Workers, Complete(w)
        PROVE TypeOK'
    BY <2>6 DEF Complete, PersistOutcome, Goto
  <2>7. ASSUME NEW w \in Workers, FailRetryable(w)
        PROVE TypeOK'
    BY <2>7 DEF FailRetryable, PersistOutcome, Goto
  <2>8. ASSUME NEW w \in Workers, FailNonRetryable(w)
        PROVE TypeOK'
    BY <2>8 DEF FailNonRetryable, PersistOutcome, Goto
  <2>9. ASSUME NEW w \in Workers, EndCycle(w)
        PROVE TypeOK'
    BY <2>9 DEF EndCycle, Goto
  <2>10. ASSUME NEW w \in Workers, Abort(w)
         PROVE TypeOK'
    BY <2>10 DEF Abort, Goto
  <2>11. CASE UNCHANGED vars
    BY <2>11 DEF vars
  <2>12. QED
    BY <2>1, <2>2, <2>3, <2>4, <2>5, <2>6, <2>7, <2>8, <2>9, <2>10, <2>11
       DEF Next, Work
<1>3. QED
  BY <1>1, <1>2, PTL DEF Spec

----------------------------------------------------------------------------
(***************************************************************************)
(* With one worker loop the runtime implements RefreshGate.  What acquire  *)
(* read is still true when it writes, because nobody else writes the       *)
(* document and time only makes deadlines pass; and while the loop         *)
(* refreshes a resource, its document still says "running".                *)
(***************************************************************************)

ReadStillTrue(w) ==
  phase[w] = "claim" =>
    /\ status[job[w]] = "running" => leaseLeft[job[w]] <= 0
    /\ retryLeft[job[w]] <= 0

OwnsDocument(w) == phase[w] = "refresh" => status[job[w]] = "running"

LoopInv == TypeOK /\ \A w \in Workers : ReadStillTrue(w) /\ OwnsDocument(w)

\* The strengthened invariant of a single worker loop is inductive.
LEMMA SingleWorkerInvariant ==
  ASSUME NEW only, Workers = {only}
  PROVE  Spec => []LoopInv
<1>1. Init => LoopInv
  BY RuntimeAssumption DEF Init, LoopInv, TypeOK, Status, Phase, Reason, ReadStillTrue, OwnsDocument
<1>2. TypeOK /\ TypeOK' /\ LoopInv /\ [Next]_vars => LoopInv'
  <2> SUFFICES ASSUME TypeOK, TypeOK', LoopInv, [Next]_vars
               PROVE  ReadStillTrue(only)' /\ OwnsDocument(only)'
    BY DEF LoopInv
  <2> USE RuntimeAssumption DEF LoopInv, TypeOK, ReadStillTrue, OwnsDocument
  <2>1. CASE Tick
    BY <2>1 DEF Tick, Sooner
  <2>2. ASSUME NEW due \in SUBSET Jobs, StartCycle(only, due)
        PROVE  ReadStillTrue(only)' /\ OwnsDocument(only)'
    BY <2>2 DEF StartCycle, Goto
  <2>3. ASSUME NEW j \in Jobs, AcquireRead(only, j)
        PROVE  ReadStillTrue(only)' /\ OwnsDocument(only)'
    BY <2>3 DEF AcquireRead, InBackoff, Locked, Goto
  <2>4. CASE AcquireWrite(only)
    BY <2>4 DEF AcquireWrite, Goto
  <2>5. CASE DescribeSkip(only)
    BY <2>5 DEF DescribeSkip, Goto
  <2>6. CASE Complete(only) \/ FailRetryable(only) \/ FailNonRetryable(only)
    BY <2>6 DEF Complete, FailRetryable, FailNonRetryable, PersistOutcome, Goto
  <2>7. CASE EndCycle(only)
    BY <2>7 DEF EndCycle, Goto
  <2>8. CASE Abort(only)
    BY <2>8 DEF Abort, Goto
  <2>9. CASE UNCHANGED vars
    BY <2>9 DEF vars
  <2>10. QED
    BY <2>1, <2>2, <2>3, <2>4, <2>5, <2>6, <2>7, <2>8, <2>9 DEF Next, Work
<1>3. QED
  BY <1>1, <1>2, RuntimeTypeCorrect, PTL DEF Spec

\* One worker loop, any number of resources: the job runtime keeps the gate. No
\* run starts inside the lease of an aborted run or inside the back-off of a
\* failed one, and every outcome is recorded for the run that holds the
\* resource (job_runtime.py acquire and _persist_outcome).
THEOREM OneWorkerKeepsGate ==
  ASSUME NEW only, Workers = {only}
  PROVE  Spec => GateKept
<1>1. Init => Gate!Init
  BY DEF Init, Gate!Init, gateOf, leftOf
<1>2. LoopInv /\ LoopInv' /\ [Next]_vars => [Gate!Next]_(Gate!vars)
  <2> SUFFICES ASSUME LoopInv, LoopInv', [Next]_vars
               PROVE  [Gate!Next]_(Gate!vars)
    OBVIOUS
  <2> USE RuntimeAssumption DEF LoopInv, TypeOK, ReadStillTrue, OwnsDocument
  <2>1. CASE Tick
    <3>1. Gate!Pass
      BY <2>1 DEF Tick, Sooner, Gate!Pass, gateOf, leftOf
    <3>2. QED
      BY <3>1 DEF Gate!Next
  <2>2. CASE AcquireWrite(only)
    <3> DEFINE j == job[only]
    <3>1. gateOf[j] = "free" \/ leftOf[j] <= 0
      BY <2>2 DEF AcquireWrite, gateOf, leftOf
    <3>2. gateOf' = [gateOf EXCEPT ![j] = "busy"]
      BY <2>2 DEF AcquireWrite, gateOf
    <3>3. leftOf' = [leftOf EXCEPT ![j] = Lease - lag[only]]
      BY <2>2 DEF AcquireWrite, leftOf
    <3>4. Lease - lag[only] \in -MaxLag..Lease
      OBVIOUS
    <3>5. Gate!Start(j)
      BY <3>1, <3>2, <3>3, <3>4 DEF Gate!Start
    <3>6. QED
      BY <3>5 DEF Gate!Next
  <2>3. CASE Complete(only) \/ FailNonRetryable(only)
    <3> DEFINE j == job[only]
    <3>1. gateOf[j] = "busy"
      BY <2>3 DEF Complete, FailNonRetryable, PersistOutcome, gateOf
    <3>2. gateOf' = [gateOf EXCEPT ![j] = "free"]
      BY <2>3 DEF Complete, FailNonRetryable, PersistOutcome, gateOf
    <3>3. leftOf' = [leftOf EXCEPT ![j] = -MaxLag]
      BY <2>3 DEF Complete, FailNonRetryable, PersistOutcome, leftOf
    <3>4. Gate!Finish(j)
      BY <3>1, <3>2, <3>3 DEF Gate!Finish
    <3>5. QED
      BY <3>4 DEF Gate!Next
  <2>4. CASE FailRetryable(only)
    <3> DEFINE j == job[only]
    <3>1. gateOf[j] = "busy"
      BY <2>4 DEF FailRetryable, PersistOutcome, gateOf
    <3>2. gateOf' = [gateOf EXCEPT ![j] = "cooling"]
      BY <2>4 DEF FailRetryable, PersistOutcome, gateOf
    <3>3. leftOf' = [leftOf EXCEPT ![j] = Backoff - lag[only]]
      BY <2>4 DEF FailRetryable, PersistOutcome, leftOf
    <3>4. Backoff - lag[only] \in -MaxLag..Backoff
      OBVIOUS
    <3>5. Gate!BackOff(j)
      BY <3>1, <3>2, <3>3, <3>4 DEF Gate!BackOff
    <3>6. QED
      BY <3>5 DEF Gate!Next
  <2>5. CASE UNCHANGED jobVars
    BY <2>5 DEF jobVars, Gate!vars, gateOf, leftOf
  <2>6. QED
    BY <2>1, <2>2, <2>3, <2>4, <2>5
       DEF Next, Work, vars, jobVars, StartCycle, AcquireRead, DescribeSkip, EndCycle, Abort
<1>3. QED
  BY <1>1, <1>2, SingleWorkerInvariant, PTL DEF Spec, GateKept, Gate!Spec

----------------------------------------------------------------------------
(* One worker loop and the reasons it gives.                               *)

\* What made the loop skip a resource still holds when it says why: nobody else
\* writes the document, and the cycle measures with the time it began with.
SkipStillTrue(w) ==
  phase[w] = "skip" => InBackoff(w, job[w]) \/ Locked(w, job[w])

ReasonGiven(w) == reason[w] # "not_eligible" /\ SkipStillTrue(w)

\* With one worker loop a resource is skipped for a reason that acquire and
\* describe_skip, which read the document one after the other, agree on.
THEOREM OneWorkerExplains ==
  ASSUME NEW only, Workers = {only}
  PROVE  Spec => []SkipExplained
<1>1. Init => ReasonGiven(only)
  BY DEF Init, ReasonGiven, SkipStillTrue
<1>2. TypeOK /\ TypeOK' /\ ReasonGiven(only) /\ [Next]_vars => ReasonGiven(only)'
  <2> SUFFICES ASSUME TypeOK, TypeOK', ReasonGiven(only), [Next]_vars
               PROVE  ReasonGiven(only)'
    OBVIOUS
  <2> USE RuntimeAssumption DEF TypeOK, ReasonGiven, SkipStillTrue
  <2>1. CASE Tick
    <3> DEFINE j == job[only]
    <3>1. /\ phase' = phase /\ job' = job /\ reason' = reason /\ status' = status
          /\ lag[only] < MaxLag
          /\ leaseLeft'[j] = Sooner(leaseLeft[j]) /\ retryLeft'[j] = Sooner(retryLeft[j])
      BY <2>1 DEF Tick
    <3>2. phase[only] = "skip" => lag'[only] = lag[only] + 1
      BY <2>1 DEF Tick
    <3>3. \A d \in Int : d + lag[only] > 0 => Sooner(d) + (lag[only] + 1) > 0
      BY <3>1 DEF Sooner
    <3>4. leaseLeft[j] \in Int /\ retryLeft[j] \in Int
      OBVIOUS
    <3>5. QED
      BY <3>1, <3>2, <3>3, <3>4 DEF InBackoff, Locked
  <2>2. ASSUME NEW j \in Jobs, AcquireRead(only, j) PROVE ReasonGiven(only)'
    <3>1. /\ job'[only] = j /\ reason' = reason
          /\ UNCHANGED <<status, leaseLeft, retryLeft, lag>>
          /\ phase'[only] = "skip" => InBackoff(only, j) \/ Locked(only, j)
      BY <2>2 DEF AcquireRead, Goto
    <3>2. QED
      BY <3>1 DEF InBackoff, Locked
  <2>3. CASE DescribeSkip(only)
    <3>1. SkipReason(only, job[only]) # "not_eligible"
      BY <2>3 DEF DescribeSkip, SkipReason
    <3>2. QED
      BY <2>3, <3>1 DEF DescribeSkip, Goto
  <2>4. ASSUME \/ \E due \in SUBSET Jobs : StartCycle(only, due)
               \/ AcquireWrite(only) \/ EndCycle(only) \/ Abort(only)
               \/ Complete(only) \/ FailRetryable(only) \/ FailNonRetryable(only)
        PROVE  ReasonGiven(only)'
    <3>1. phase'[only] # "skip" /\ reason' = reason
      BY <2>4 DEF StartCycle, AcquireWrite, EndCycle, Abort, Complete, FailRetryable,
                  FailNonRetryable, PersistOutcome, Goto, Phase
    <3>2. QED
      BY <3>1
  <2>5. CASE UNCHANGED vars
    BY <2>5 DEF vars, InBackoff, Locked
  <2>6. QED
    BY <2>1, <2>2, <2>3, <2>4, <2>5 DEF Next, Work
<1>3. ReasonGiven(only) => SkipExplained
  BY DEF ReasonGiven, SkipExplained
<1>4. QED
  BY <1>1, <1>2, <1>3, RuntimeTypeCorrect, PTL DEF Spec

----------------------------------------------------------------------------
Checks == [type : {"integer", "integer_list"}, items : SUBSET Nat]

Documents == Raws \cup {NoOverride} \cup Checks

\* A request wants to reset a setting, or to write a value that was checked.
Wanted(q) ==
  \A k \in DOMAIN q.want :
    q.want[k] = NoOverride \/ (q.want[k] \in Checks /\ Accepts(k, q.want[k]))

ChangeTyped(q) ==
  /\ q.pc \in {"idle", "writing", "answered"}
  /\ DOMAIN q.want \subseteq Keys
  /\ q.todo \subseteq DOMAIN q.want
  /\ q.lost \subseteq DOMAIN q.want
  /\ q.pc = "answered" => q.todo = {}

\* What a request has written is stored, unless another has written it since.
Written(q, docs) ==
  \A k \in DOMAIN q.want : k \in q.todo \/ k \in q.lost \/ docs[k] = q.want[k]

ChangeOK(q, docs) == ChangeTyped(q) /\ Wanted(q) /\ Written(q, docs)

\* Values a cycle may work with.
Usable(k, v) == v \in (SUBSET Nat) \ {{}} /\ (v \subseteq Low[k]..High[k] \/ v = Default[k])

CycleOK ==
  /\ cycle.pc \in {"asleep", "polling"} /\ cycle.changed \subseteq Keys
  /\ cycle.values \in [Keys -> (SUBSET Nat) \ {{}}]
  /\ cycle.pc = "polling" =>
       \A k \in Keys : /\ Usable(k, cycle.values[k])
                       /\ k \notin cycle.changed => cycle.values[k] = Effective(k)

StoredTyped == stored \in [Keys -> Documents]

ChangesOK == \A a \in Admins : ChangeOK(change[a], stored)

SettingsInv ==
  /\ StoredTyped /\ changes \in 0..MaxChanges
  /\ change = [a \in Admins |-> change[a]]
  /\ ChangesOK
  /\ CycleOK

LEMMA ChangeFields ==
  \A pc, want, left, lost :
    LET q == ChangeState(pc, want, left, lost)
    IN q.pc = pc /\ q.want = want /\ q.todo = left /\ q.lost = lost
  BY DEF ChangeState

LEMMA CycleFields ==
  \A pc, values, changed :
    LET q == CycleState(pc, values, changed)
    IN q.pc = pc /\ q.values = values /\ q.changed = changed
  BY DEF CycleState

----------------------------------------------------------------------------
(* Values.                                                                 *)

\* An accepted value is a set of numbers within the bounds, and not empty.
LEMMA AcceptedUsable ==
  ASSUME NEW k \in Keys, NEW raw, Accepts(k, raw)
  PROVE  Usable(k, raw.items)
<1>1. Low[k] \in Nat /\ High[k] \in Nat /\ Low[k]..High[k] \subseteq Nat
  BY SettingsAssumption
<1>2. raw.items \subseteq Low[k]..High[k]
  BY DEF Accepts
<1>3. raw.items # {}
  <2>1. Cardinality(raw.items) # 0
    BY SettingsAssumption DEF Accepts
  <2>2. QED
    BY <2>1, FS_EmptySet
<1>4. QED
  BY <1>1, <1>2, <1>3 DEF Usable

LEMMA EffectiveUsable ==
  ASSUME NEW k \in Keys PROVE Usable(k, Effective(k))
<1>1. CASE Accepts(k, stored[k])
  BY <1>1, AcceptedUsable DEF Effective
<1>2. CASE ~Accepts(k, stored[k])
  BY <1>2, SettingsAssumption DEF Effective, Usable
<1>3. QED
  BY <1>1, <1>2

LEMMA NormalAccepted ==
  ASSUME NEW k \in Keys, NEW raw \in Raws, Accepts(k, raw)
  PROVE  Normal(k, raw) \in Checks /\ Accepts(k, Normal(k, raw))
<1>1. TypeOf[k] \in {"integer", "integer_list"}
  BY SettingsAssumption
<1>2. raw.items \in SUBSET Nat
  BY SettingsAssumption
<1>3. QED
  BY <1>1, <1>2 DEF Normal, Accepts, Checks

LEMMA NoOverrideRefused == \A k \in Keys : ~Accepts(k, NoOverride)
<1>1. \A k \in Keys : TypeOf[k] \in {"integer", "integer_list"}
  BY SettingsAssumption
<1>2. NoOverride.type = "none"
  BY DEF NoOverride
<1>3. QED
  BY <1>1, <1>2 DEF Accepts

----------------------------------------------------------------------------
(* The administrators' requests.                                           *)

LEMMA NoChangeOK == ChangeOK(NoChange, stored)
<1>1. DOMAIN << >> = {}
  OBVIOUS
<1>2. NoChange.pc = "idle" /\ NoChange.want = << >> /\ NoChange.todo = {} /\ NoChange.lost = {}
  BY ChangeFields DEF NoChange
<1>3. DOMAIN NoChange.want = {}
  BY <1>1, <1>2
<1>4. QED
  BY <1>2, <1>3 DEF ChangeOK, ChangeTyped, Wanted, Written

\* One request goes on, nothing is written.
LEMMA OneChanges ==
  ASSUME SettingsInv, NEW a \in Admins, NEW q, ChangeOK(q, stored),
         change' = [change EXCEPT ![a] = q], UNCHANGED <<stored, cycle>>,
         changes' \in 0..MaxChanges
  PROVE  SettingsInv'
<1>1. change' = [b \in Admins |-> change'[b]]
  BY DEF SettingsInv
<1>2. ChangesOK'
  BY DEF SettingsInv, ChangesOK
<1>3. CycleOK'
  BY DEF SettingsInv, CycleOK, Effective
<1>4. QED
  BY <1>1, <1>2, <1>3 DEF SettingsInv, StoredTyped

LEMMA BeginKeeps ==
  ASSUME SettingsInv, NEW a \in Admins, NEW want, DOMAIN want \subseteq Keys,
         \A k \in DOMAIN want :
           want[k] = NoOverride \/ (want[k] \in Checks /\ Accepts(k, want[k])),
         Begin(a, want)
  PROVE  SettingsInv'
<1> DEFINE q == ChangeState("writing", want, DOMAIN want, {})
<1>1. q.pc = "writing" /\ q.want = want /\ q.todo = DOMAIN want /\ q.lost = {}
  BY ChangeFields
<1>2. change' = [change EXCEPT ![a] = q] /\ UNCHANGED <<stored, cycle>>
  BY DEF Begin
<1>3. changes' \in 0..MaxChanges
  BY SettingsAssumption DEF Begin, SettingsInv
<1> HIDE DEF q
<1>4. ChangeOK(q, stored)
  BY <1>1 DEF ChangeOK, ChangeTyped, Wanted, Written
<1>5. QED
  BY <1>2, <1>3, <1>4, OneChanges

LEMMA UpdateKeeps ==
  ASSUME SettingsInv, NEW a \in Admins, UpdateSettings(a) PROVE SettingsInv'
<1>1. PICK want \in Wants :
        Checked(want) /\ Begin(a, [k \in DOMAIN want \cap Keys |-> Normal(k, want[k])])
  BY DEF UpdateSettings
<1>2. \A k \in DOMAIN want : k \in Keys /\ want[k] \in Raws /\ Accepts(k, want[k])
  BY <1>1 DEF Wants, Checked
<1> DEFINE norm == [k \in DOMAIN want \cap Keys |-> Normal(k, want[k])]
<1>3. DOMAIN norm \subseteq Keys
  OBVIOUS
<1>4. \A k \in DOMAIN norm : norm[k] \in Checks /\ Accepts(k, norm[k])
  BY <1>2, NormalAccepted
<1> HIDE DEF norm
<1>5. QED
  BY <1>1, <1>3, <1>4, BeginKeeps DEF norm

LEMMA ResetKeeps ==
  ASSUME SettingsInv, NEW a \in Admins, ResetSettings(a) PROVE SettingsInv'
<1>1. PICK ks \in (SUBSET Keys) \ {{}} : Begin(a, [k \in ks |-> NoOverride])
  BY DEF ResetSettings
<1> DEFINE none == [k \in ks |-> NoOverride]
<1>2. DOMAIN none \subseteq Keys /\ \A k \in DOMAIN none : none[k] = NoOverride
  OBVIOUS
<1> HIDE DEF none
<1>3. QED
  BY <1>1, <1>2, BeginKeeps DEF none

LEMMA AnswerKeeps ==
  ASSUME SettingsInv, NEW a \in Admins, Respond(a) \/ Leave(a) PROVE SettingsInv'
<1>1. CASE Respond(a)
  <2> DEFINE q == ChangeState("answered", change[a].want, {}, change[a].lost)
  <2>1. q.pc = "answered" /\ q.want = change[a].want /\ q.todo = {} /\ q.lost = change[a].lost
    BY ChangeFields
  <2>2. change[a].todo = {} /\ change' = [change EXCEPT ![a] = q]
        /\ UNCHANGED <<stored, changes, cycle>>
    BY <1>1 DEF Respond, SettingsInv
  <2> HIDE DEF q
  <2>3. ChangeOK(q, stored)
    BY <2>1, <2>2 DEF SettingsInv, ChangesOK, ChangeOK, ChangeTyped, Wanted, Written
  <2>4. QED
    BY <2>2, <2>3, OneChanges DEF SettingsInv
<1>2. CASE Leave(a)
  BY <1>2, NoChangeOK, OneChanges DEF Leave, SettingsInv
<1>3. QED
  BY <1>1, <1>2

\* A write is the newest of its settings: its own request has not lost them, every
\* other that wants one of them has.
LEMMA WriteKeeps ==
  ASSUME SettingsInv, NEW a \in Admins, NEW ks, Write(a, ks)
  PROVE  SettingsInv'
<1> DEFINE want == change[a].want
<1>1. /\ ks \subseteq change[a].todo /\ ks \subseteq DOMAIN want /\ ks \subseteq Keys
      /\ stored' = [i \in Keys |-> IF i \in ks THEN want[i] ELSE stored[i]]
      /\ changes' = changes
  BY DEF Write, SettingsInv, ChangesOK, ChangeOK, ChangeTyped
<1>2. StoredTyped'
  <2>1. \A k \in ks : want[k] \in Documents
    BY <1>1 DEF SettingsInv, ChangesOK, ChangeOK, Wanted, Documents
  <2>2. QED
    BY <1>1, <2>1 DEF SettingsInv, StoredTyped
<1>3. /\ \A i \in ks : stored'[i] = want[i]
      /\ \A i \in Keys \ ks : stored'[i] = stored[i]
  BY <1>1 DEF SettingsInv, StoredTyped
<1>4. ASSUME NEW b \in Admins PROVE ChangeOK(change'[b], stored')
  <2> DEFINE q == change[b]
  <2>1. ChangeOK(q, stored)
    BY DEF SettingsInv, ChangesOK
  <2> SUFFICES ASSUME NEW r, r = change'[b] PROVE ChangeOK(r, stored')
    OBVIOUS
  <2>2. CASE b = a
    <3>1. r = ChangeState("writing", q.want, q.todo \ ks, q.lost \ ks)
      BY <2>2 DEF Write
    <3>2. r.pc = "writing" /\ r.want = q.want /\ r.todo = q.todo \ ks /\ r.lost = q.lost \ ks
      BY <3>1, ChangeFields
    <3>3. QED
      BY <1>3, <2>1, <2>2, <3>2 DEF ChangeOK, ChangeTyped, Wanted, Written
  <2>3. CASE b # a
    <3>1. r = ChangeState(q.pc, q.want, q.todo, q.lost \cup (ks \cap DOMAIN q.want))
      BY <2>3 DEF Write
    <3>2. /\ r.pc = q.pc /\ r.want = q.want /\ r.todo = q.todo
          /\ r.lost = q.lost \cup (ks \cap DOMAIN q.want)
      BY <3>1, ChangeFields
    <3>3. QED
      BY <1>3, <2>1, <3>2 DEF ChangeOK, ChangeTyped, Wanted, Written
  <2>4. QED
    BY <2>2, <2>3
<1>5. change' = [b \in Admins |-> change'[b]]
  BY DEF Write
<1>6. CycleOK'
  <2>1. CASE cycle.pc = "asleep"
    BY <2>1 DEF Write, SettingsInv, CycleOK
  <2>2. CASE cycle.pc = "polling"
    <3>1. cycle' = CycleState("polling", cycle.values, cycle.changed \cup ks)
      BY <2>2 DEF Write
    <3>2. /\ cycle'.pc = "polling" /\ cycle'.values = cycle.values
          /\ cycle'.changed = cycle.changed \cup ks
      BY <3>1, CycleFields
    <3>3. \A i \in Keys \ ks : Effective(i)' = Effective(i)
      BY <1>3 DEF Effective
    <3>4. QED
      BY <1>1, <2>2, <3>2, <3>3 DEF SettingsInv, CycleOK
  <2>3. QED
    BY <2>1, <2>2 DEF SettingsInv, CycleOK
<1>7. QED
  BY <1>1, <1>2, <1>4, <1>5, <1>6 DEF SettingsInv, ChangesOK

----------------------------------------------------------------------------
(* All steps.                                                              *)

LEMMA AsleepOK == Asleep.pc = "asleep" /\ Asleep.changed = {} /\ Asleep.values = Default
  BY CycleFields DEF Asleep

LEMMA CycleKeeps ==
  ASSUME SettingsInv, BuildServices \/ CycleEnds PROVE SettingsInv'
<1>1. UNCHANGED <<stored, change, changes>>
  BY DEF BuildServices, CycleEnds
<1>2. CASE BuildServices
  <2>1. cycle'.pc = "polling" /\ cycle'.values = Resolve /\ cycle'.changed = {}
    BY <1>2, CycleFields DEF BuildServices
  <2>2. Resolve \in [Keys -> (SUBSET Nat) \ {{}}]
    BY EffectiveUsable DEF Resolve, Usable
  <2>3. \A k \in Keys : cycle'.values[k] = Effective(k) /\ Effective(k)' = Effective(k)
    BY <1>1, <2>1 DEF Resolve, Effective
  <2>4. CycleOK'
    BY <2>1, <2>2, <2>3, EffectiveUsable DEF CycleOK
  <2>5. QED
    BY <1>1, <2>4 DEF SettingsInv, StoredTyped, ChangesOK
<1>3. CASE CycleEnds
  <2>1. CycleOK'
    BY <1>3, AsleepOK, SettingsAssumption DEF CycleEnds, CycleOK
  <2>2. QED
    BY <1>1, <2>1 DEF SettingsInv, StoredTyped, ChangesOK
<1>4. QED
  BY <1>2, <1>3

LEMMA SettingsStart == LiveInit => SettingsInv
<1> SUFFICES ASSUME LiveInit PROVE SettingsInv
  OBVIOUS
<1>1. StoredTyped /\ changes \in 0..MaxChanges
  BY SettingsAssumption DEF LiveInit, SettingsInit, StoredTyped, Documents
<1>2. change = [a \in Admins |-> change[a]] /\ ChangesOK
  BY NoChangeOK DEF LiveInit, SettingsInit, ChangesOK
<1>3. CycleOK
  BY AsleepOK, SettingsAssumption DEF LiveInit, SettingsInit, CycleOK
<1>4. QED
  BY <1>1, <1>2, <1>3 DEF SettingsInv

LEMMA SettingsKeep == SettingsInv /\ [LiveNext]_liveVars => SettingsInv'
<1> SUFFICES ASSUME SettingsInv, [LiveNext]_liveVars PROVE SettingsInv'
  OBVIOUS
<1>1. CASE UNCHANGED settingsVars
  BY <1>1 DEF settingsVars, SettingsInv, StoredTyped, ChangesOK, CycleOK, Effective
<1>2. CASE BuildServices \/ CycleEnds
  BY <1>2, CycleKeeps
<1>3. ASSUME NEW a \in Admins, AdminStep(a) PROVE SettingsInv'
  BY <1>3, UpdateKeeps, ResetKeeps, WriteKeeps, AnswerKeeps
     DEF AdminStep, UpsertOverride, DeleteOverrides
<1>4. QED
  BY <1>1, <1>2, <1>3
     DEF LiveNext, WorkerStep, BeginCycle, PollDue, MarkPoll, CycleFailed, FinishCycle,
         RequestStep, Call, MarkRequest, SettingsStep, Flip, ClockTicks, liveVars

\* However the requests of administrators interleave, one that was answered has its
\* settings in effect where no other has written the same setting since.
THEOREM SavedIsInEffect == LiveSpec => []AnsweredIsInEffect
<1>1. SettingsInv => AnsweredIsInEffect
  <2> SUFFICES ASSUME SettingsInv, NEW a \in Admins, change[a].pc = "answered",
                      NEW k \in DOMAIN change[a].want \ change[a].lost
               PROVE  Effective(k) = IF change[a].want[k] = NoOverride THEN Default[k]
                                     ELSE change[a].want[k].items
    BY DEF AnsweredIsInEffect
  <2>1. ChangeOK(change[a], stored)
    BY DEF SettingsInv, ChangesOK
  <2>2. k \in Keys /\ stored[k] = change[a].want[k]
    BY <2>1 DEF ChangeOK, ChangeTyped, Written
  <2>3. CASE change[a].want[k] = NoOverride
    BY <2>2, <2>3, NoOverrideRefused DEF Effective
  <2>4. CASE change[a].want[k] # NoOverride
    BY <2>1, <2>2, <2>4 DEF ChangeOK, Wanted, Effective
  <2>5. QED
    BY <2>3, <2>4
<1>2. QED
  BY <1>1, SettingsStart, SettingsKeep, PTL DEF LiveSpec

\* A poll cycle works with the settings in effect when it began, within their bounds
\* or the environment's own, whatever an earlier release has stored.
THEOREM CycleSettings == LiveSpec => []CycleUpToDate
<1>1. SettingsInv => CycleUpToDate
  BY DEF SettingsInv, CycleOK, Usable, CycleUpToDate
<1>2. QED
  BY <1>1, SettingsStart, SettingsKeep, PTL DEF LiveSpec

----------------------------------------------------------------------------
(* The marks.                                                              *)

Answers == [answer : {"none", "ok", "error"}, at : 0..MaxTime]
LiveStatuses ==
  [availability : {"available", "degraded"}, okAt : 0..Never, failAt : 0..Never]

OutsideOK ==
  /\ up \in BOOLEAN
  /\ clock \in 0..MaxTime
  /\ live \in LiveStatuses
  /\ work \in [Callers -> Answers]

LEMMA AnswerTyped ==
  ASSUME NEW answer \in {"none", "ok", "error"}, NEW at \in 0..MaxTime
  PROVE  CallState(answer, at) \in Answers
  BY DEF CallState, Answers

LEMMA MarkTyped ==
  ASSUME OutsideOK, NEW at \in 0..MaxTime, MarkAvailable(at) \/ MarkDegraded(at)
  PROVE  live' \in LiveStatuses
<1>1. at \in 0..Never /\ live.okAt \in 0..Never /\ live.failAt \in 0..Never
  BY LiveSyncAssumption DEF OutsideOK, LiveStatuses, Never
<1>2. QED
  BY <1>1 DEF MarkAvailable, MarkDegraded, LiveStatus, LiveStatuses

LEMMA WorkFields ==
  ASSUME OutsideOK, NEW p \in Callers PROVE work[p].at \in 0..MaxTime
  BY DEF OutsideOK, Answers

LEMMA WorkMoves ==
  ASSUME OutsideOK, NEW p \in Callers, NEW q \in Answers, work' = [work EXCEPT ![p] = q]
  PROVE  work' \in [Callers -> Answers]
  BY DEF OutsideOK

LEMMA CallKeeps ==
  ASSUME OutsideOK, NEW p \in Callers, Call(p) PROVE OutsideOK'
<1>1. (IF up THEN "ok" ELSE "error") \in {"none", "ok", "error"}
  OBVIOUS
<1>2. CallState(IF up THEN "ok" ELSE "error", work[p].at) \in Answers
  BY <1>1, WorkFields, AnswerTyped
<1>3. work' = [work EXCEPT ![p] = CallState(IF up THEN "ok" ELSE "error", work[p].at)]
  BY DEF Call
<1>4. work' \in [Callers -> Answers]
  BY <1>2, <1>3, WorkMoves
<1>5. QED
  BY <1>4 DEF Call, OutsideOK

LEMMA OutsideKeeps == OutsideOK /\ [LiveNext]_liveVars => OutsideOK'
<1> SUFFICES ASSUME OutsideOK, [LiveNext]_liveVars PROVE OutsideOK'
  OBVIOUS
<1>1. Worker \in Callers /\ Requests \subseteq Callers /\ 0 \in 0..MaxTime
  BY LiveSyncAssumption DEF Callers
<1>2. NoCall \in Answers
  BY <1>1, AnswerTyped DEF NoCall
<1>3. CASE BeginCycle
  <2>1. CallState("none", clock) \in Answers
    BY AnswerTyped DEF OutsideOK
  <2>2. QED
    BY <1>1, <1>3, <2>1, WorkMoves DEF BeginCycle, OutsideOK
<1>4. CASE MarkPoll
  <2>1. CallState("none", work[Worker].at) \in Answers
    BY <1>1, WorkFields, AnswerTyped
  <2>2. work' \in [Callers -> Answers]
    BY <1>1, <1>4, <2>1, WorkMoves DEF MarkPoll
  <2>3. live' \in LiveStatuses
    BY <1>1, <1>4, WorkFields, MarkTyped DEF MarkPoll, Mark, OutsideOK
  <2>4. QED
    BY <1>4, <2>2, <2>3 DEF MarkPoll, OutsideOK
<1>5. CASE CycleFailed
  BY <1>5, MarkTyped DEF CycleFailed, OutsideOK
<1>6. CASE FinishCycle
  BY <1>1, <1>2, <1>6, WorkMoves DEF FinishCycle, OutsideOK
<1>7. CASE PollDue
  BY <1>1, <1>7, CallKeeps DEF PollDue
<1>8. ASSUME NEW r \in Requests, RequestStep(r) PROVE OutsideOK'
  <2>1. CASE Call(r)
    BY <1>1, <2>1, CallKeeps
  <2>2. CASE MarkRequest(r)
    <3>1. work' \in [Callers -> Answers]
      BY <1>1, <1>2, <2>2, WorkMoves DEF MarkRequest
    <3>2. live' \in LiveStatuses
      BY <2>2, MarkTyped DEF MarkRequest, Mark, OutsideOK
    <3>3. QED
      BY <2>2, <3>1, <3>2 DEF MarkRequest, OutsideOK
  <2>3. QED
    BY <1>8, <2>1, <2>2 DEF RequestStep
<1>9. CASE Flip \/ ClockTicks
  <2>1. up' \in BOOLEAN
    BY <1>9 DEF Flip, ClockTicks, OutsideOK
  <2>2. clock' \in 0..MaxTime
    BY <1>9, LiveSyncAssumption DEF Flip, ClockTicks, OutsideOK
  <2>3. QED
    BY <1>9, <2>1, <2>2 DEF Flip, ClockTicks, OutsideOK
<1>10. CASE (\E a \in Admins : SettingsStep(a)) \/ UNCHANGED liveVars
  BY <1>10 DEF SettingsStep, outside, liveVars, OutsideOK
<1>11. QED
  BY <1>3, <1>4, <1>5, <1>6, <1>7, <1>8, <1>9, <1>10 DEF LiveNext, WorkerStep

\* Override documents, requests, cycles and the status stay well formed: no value
\* that was not checked is stored, and no cycle works with an empty one.
THEOREM LiveTypeCorrect == LiveSpec => []LiveTypeOK
<1>1. LiveInit => OutsideOK
  <2> SUFFICES ASSUME LiveInit PROVE OutsideOK
    OBVIOUS
  <2>1. NoCall \in Answers /\ 0 \in 0..MaxTime
    BY LiveSyncAssumption, AnswerTyped DEF NoCall
  <2>2. NoStatus \in LiveStatuses
    BY LiveSyncAssumption DEF NoStatus, LiveStatus, LiveStatuses, Never
  <2>3. QED
    BY <2>1, <2>2 DEF LiveInit, OutsideOK
<1>2. SettingsInv => SettingsTypeOK
  BY DEF SettingsInv, StoredTyped, Documents, Checks, ChangesOK, ChangeOK, ChangeTyped,
         CycleOK, SettingsTypeOK
<1>3. OutsideOK /\ SettingsTypeOK => LiveTypeOK
  BY DEF OutsideOK, Answers, LiveStatuses, LiveTypeOK
<1>4. QED
  BY <1>1, <1>2, <1>3, SettingsStart, SettingsKeep, OutsideKeeps, PTL DEF LiveSpec
=============================================================================
