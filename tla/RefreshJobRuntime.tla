------------------------- MODULE RefreshJobRuntime -------------------------
(***************************************************************************)
(* The refresh job runtime (monitoring/job_runtime.py) as the polling      *)
(* worker uses it: worker loops visit the resources that are due, acquire  *)
(* a lease on each, refresh it and record the outcome.                     *)
(*                                                                         *)
(* Every cycle takes the time once, when it starts, and passes it to each  *)
(* acquire and each outcome as `now`.  Deadlines are therefore kept        *)
(* relative to the clock: leaseLeft[j] is lease_expires_at - clock,        *)
(* retryLeft[j] is next_retry_at - clock, and lag[w] is clock - now of w's *)
(* cycle, so a deadline d lies after `now` exactly when d + lag[w] > 0.    *)
(* Values below -MaxLag are all alike, and a missing date is one of them.  *)
(*                                                                         *)
(* Reporting fields nobody reads back to decide anything (run_id,          *)
(* attempt_count, messages, metadata, started and finished times) are left *)
(* out.                                                                    *)
(***************************************************************************)
EXTENDS Integers

CONSTANTS
  Workers,      \* worker loops running at the same time
  Jobs,         \* execution keys
  Lease,        \* lease_seconds, in clock units
  Backoff,      \* retry_backoff_seconds, in clock units
  MaxLag,       \* bound: the longest a polling cycle runs
  MaxAborts     \* bound: how many cycles are cut short

ASSUME RuntimeAssumption ==
  /\ Lease \in Nat \ {0}
  /\ Backoff \in Nat \ {0}
  /\ MaxLag \in Nat
  /\ MaxAborts \in Nat

VARIABLES
  status,       \* status[j] of the job document, "absent" before the first run
  leaseLeft,    \* leaseLeft[j]: lease_expires_at relative to the clock
  retryLeft,    \* retryLeft[j]: next_retry_at relative to the clock
  phase,        \* phase[w]: where worker w is in its loop
  job,          \* job[w]: the resource w is working on
  todo,         \* todo[w]: resources w's cycle has still to visit
  lag,          \* lag[w]: how long ago w's cycle took its time
  reason,       \* reason[w]: skip_reason of w's latest describe_skip
  aborts        \* how many cycles were cut short so far

jobVars == <<status, leaseLeft, retryLeft>>
vars == <<status, leaseLeft, retryLeft, phase, job, todo, lag, reason, aborts>>

Status == {"absent", "running", "succeeded", "retryable_failure", "failed"}
Phase == {"idle", "scan", "claim", "skip", "refresh"}
Reason == {"none", "locked", "backoff", "not_eligible"}

\* Every field of the job documents and of the worker loops stays in range; in
\* particular no stored deadline is ever further away than the lease or the
\* back-off that set it.
TypeOK ==
  /\ status \in [Jobs -> Status]
  /\ leaseLeft \in [Jobs -> -MaxLag..Lease]
  /\ retryLeft \in [Jobs -> -MaxLag..Backoff]
  /\ phase \in [Workers -> Phase]
  /\ job \in [Workers -> Jobs]
  /\ todo \in [Workers -> SUBSET Jobs]
  /\ lag \in [Workers -> 0..MaxLag]
  /\ reason \in [Workers -> Reason]
  /\ aborts \in 0..MaxAborts

Init ==
  /\ status = [j \in Jobs |-> "absent"]
  /\ leaseLeft = [j \in Jobs |-> -MaxLag]
  /\ retryLeft = [j \in Jobs |-> -MaxLag]
  /\ phase = [w \in Workers |-> "idle"]
  /\ job \in [Workers -> Jobs]
  /\ todo = [w \in Workers |-> {}]
  /\ lag = [w \in Workers |-> 0]
  /\ reason = [w \in Workers |-> "none"]
  /\ aborts = 0

----------------------------------------------------------------------------
(* The tests acquire and describe_skip make on the document they read.     *)

InBackoff(w, j) == retryLeft[j] + lag[w] > 0

\* Mutated forms: a lease that is never looked at, one that never expires.
LockedNever(w, j) == FALSE
LockedForever(w, j) == status[j] = "running"

Locked(w, j) == status[j] = "running" /\ leaseLeft[j] + lag[w] > 0

\* Mutated form: describe_skip written before back-off was added.
SkipReasonLeaseOnly(w, j) == IF Locked(w, j) THEN "locked" ELSE "not_eligible"

\* describe_skip looks at the lease before it looks at the back-off.
SkipReason(w, j) ==
  IF Locked(w, j) THEN "locked"
  ELSE IF InBackoff(w, j) THEN "backoff"
  ELSE "not_eligible"

Goto(w, p) == phase' = [phase EXCEPT ![w] = p]

----------------------------------------------------------------------------
\* The loop wakes up, takes the time and lists the resources that are due.
StartCycle(w, due) ==
  /\ phase[w] = "idle"
  /\ todo' = [todo EXCEPT ![w] = due]
  /\ lag' = [lag EXCEPT ![w] = 0]
  /\ Goto(w, "scan")
  /\ UNCHANGED <<status, leaseLeft, retryLeft, job, reason, aborts>>

\* acquire, first half: read the document of the next resource and decide.
AcquireRead(w, j) ==
  /\ phase[w] = "scan"
  /\ j \in todo[w]
  /\ todo' = [todo EXCEPT ![w] = @ \ {j}]
  /\ job' = [job EXCEPT ![w] = j]
  /\ Goto(w, IF InBackoff(w, j) \/ Locked(w, j) THEN "skip" ELSE "claim")
  /\ UNCHANGED <<status, leaseLeft, retryLeft, lag, reason, aborts>>

\* acquire, second half: overwrite the document, whatever it holds by now.
AcquireWrite(w) ==
  /\ phase[w] = "claim"
  /\ status' = [status EXCEPT ![job[w]] = "running"]
  /\ leaseLeft' = [leaseLeft EXCEPT ![job[w]] = Lease - lag[w]]
  /\ retryLeft' = [retryLeft EXCEPT ![job[w]] = -MaxLag]
  /\ Goto(w, "refresh")
  /\ UNCHANGED <<job, todo, lag, reason, aborts>>

\* describe_skip reads the document once more to say why it was skipped.
DescribeSkip(w) ==
  /\ phase[w] = "skip"
  /\ reason' = [reason EXCEPT ![w] = SkipReason(w, job[w])]
  /\ Goto(w, "scan")
  /\ UNCHANGED <<status, leaseLeft, retryLeft, job, todo, lag, aborts>>

\* _persist_outcome: the document is overwritten by execution key alone.
PersistOutcome(w, s, retry) ==
  /\ phase[w] = "refresh"
  /\ status' = [status EXCEPT ![job[w]] = s]
  /\ leaseLeft' = [leaseLeft EXCEPT ![job[w]] = -lag[w]]
  /\ retryLeft' = [retryLeft EXCEPT ![job[w]] = retry]
  /\ Goto(w, "scan")
  /\ UNCHANGED <<job, todo, lag, reason, aborts>>

Complete(w) == PersistOutcome(w, "succeeded", -MaxLag)

\* Mutated form: the two durations of the constructor mixed up.
FailRetryableForLease(w) == PersistOutcome(w, "retryable_failure", Lease - lag[w])

FailRetryable(w) == PersistOutcome(w, "retryable_failure", Backoff - lag[w])

FailNonRetryable(w) == PersistOutcome(w, "failed", -MaxLag)

\* The cycle has visited every resource; the loop goes to sleep.
EndCycle(w) ==
  /\ phase[w] = "scan"
  /\ todo[w] = {}
  /\ lag' = [lag EXCEPT ![w] = 0]
  /\ Goto(w, "idle")
  /\ UNCHANGED <<status, leaseLeft, retryLeft, job, todo, reason, aborts>>

\* The cycle is cut short between two database calls: an error that escapes
\* the per-resource handler ends it, and the document is left as it is.
Abort(w) ==
  /\ phase[w] # "idle"
  /\ aborts < MaxAborts
  /\ aborts' = aborts + 1
  /\ todo' = [todo EXCEPT ![w] = {}]
  /\ lag' = [lag EXCEPT ![w] = 0]
  /\ Goto(w, "idle")
  /\ UNCHANGED <<status, leaseLeft, retryLeft, job, reason>>

Sooner(d) == IF d > -MaxLag THEN d - 1 ELSE d

Tick ==
  /\ \A w \in Workers : lag[w] < MaxLag
  /\ leaseLeft' = [j \in Jobs |-> Sooner(leaseLeft[j])]
  /\ retryLeft' = [j \in Jobs |-> Sooner(retryLeft[j])]
  /\ lag' = [w \in Workers |-> IF phase[w] = "idle" THEN 0 ELSE lag[w] + 1]
  /\ UNCHANGED <<status, phase, job, todo, reason, aborts>>

Work(w) ==
  \/ \E due \in SUBSET Jobs : StartCycle(w, due)
  \/ \E j \in Jobs : AcquireRead(w, j)
  \/ AcquireWrite(w)
  \/ DescribeSkip(w)
  \/ Complete(w)
  \/ FailRetryable(w)
  \/ FailNonRetryable(w)
  \/ EndCycle(w)

Next == Tick \/ \E w \in Workers : Work(w) \/ Abort(w)

\* Some cycle of w finds j due.
CycleWith(w, j) == \E due \in SUBSET Jobs : j \in due /\ StartCycle(w, due)

\* Time passes; the loop never stops by itself (every refresh has a time-out);
\* and a resource that is not refreshed becomes due again and again, because
\* its last_checked_at falls behind.
Fairness ==
  /\ WF_vars(Tick)
  /\ \A w \in Workers : WF_vars(Work(w))
  /\ \A w \in Workers, j \in Jobs : SF_vars(CycleWith(w, j))

Spec == Init /\ [][Next]_vars /\ Fairness

----------------------------------------------------------------------------
(* Properties.                                                             *)

Refreshing(w, j) == phase[w] = "refresh" /\ job[w] = j

\* The job documents, read as free, busy or cooling resources.
gateOf == [j \in Jobs |->
  IF status[j] = "running" THEN "busy"
  ELSE IF status[j] = "retryable_failure" THEN "cooling"
  ELSE "free"]

leftOf == [j \in Jobs |->
  IF status[j] = "running" THEN leaseLeft[j]
  ELSE IF status[j] = "retryable_failure" THEN retryLeft[j]
  ELSE -MaxLag]

Gate == INSTANCE RefreshGate WITH LongPast <- MaxLag, gate <- gateOf, left <- leftOf

\* The job documents, read as free, busy or cooling resources, behave like
\* RefreshGate: no run starts inside another run's lease or inside the back-off
\* of a failure, whichever cycle's time the two were measured with and wherever
\* an earlier cycle was cut short (acquire and _persist_outcome together).
GateKept == Gate!Spec

\* A resource whose run was cut short does not stay locked: its lease runs out
\* and a later cycle takes it up again (the lease test of acquire).
Stuck(j) == status[j] = "running" /\ \A w \in Workers : ~Refreshing(w, j)

StuckLeaseRecovered == \A j \in Jobs : Stuck(j) ~> ~Stuck(j)

\* A skipped resource is always reported as locked or backing off: acquire and
\* describe_skip, two reads and two orders of the same tests, never disagree.
SkipExplained == \A w \in Workers : reason[w] # "not_eligible"

\* README.md:35: leases "avoid duplicate concurrent refreshes".
NoDuplicateRefresh ==
  \A v, w \in Workers, j \in Jobs : Refreshing(v, j) /\ Refreshing(w, j) => v = w
=============================================================================
