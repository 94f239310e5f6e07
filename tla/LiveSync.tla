------------------------------ MODULE LiveSync ------------------------------
(***************************************************************************)
(* The live sync status (modules/system_status): one document that the     *)
(* poll cycles and the API's own searches overwrite with how their last    *)
(* call of a provider went, and that every page reads.  A cycle marks its  *)
(* polls with the time it began, a search, also that of a saved-search     *)
(* poll, with the time of the mark.                                        *)
(***************************************************************************)
EXTENDS RuntimeSettings

CONSTANTS
  StaleKey,  \* "live_sync_stale_after_minutes"
  Requests,  \* searches and catalog refreshes under way in the API
  MaxTime    \* bound: the clock

ASSUME LiveSyncAssumption ==
  /\ StaleKey \in Keys /\ TypeOf[StaleKey] = "integer" /\ Cardinality(Default[StaleKey]) = 1
  /\ MaxTime \in Nat

VARIABLES
  up,     \* whether the providers answer, and the worker runs undisturbed
  clock,
  live,   \* the live sync status document
  work    \* work[p]: the call of a provider by p

outside == <<up, clock, live, work>>
liveVars == <<settingsVars, outside>>

Never == MaxTime + 1
LiveStatus(availability, okAt, failAt) ==
  [availability |-> availability, okAt |-> okAt, failAt |-> failAt]
NoStatus == LiveStatus("available", Never, Never)
Worker == "worker"
Callers == Requests \cup {Worker}
\* at: the start of the worker's cycle.
CallState(answer, at) == [answer |-> answer, at |-> at]
NoCall == CallState("none", 0)

LiveInit ==
  /\ SettingsInit
  /\ up \in BOOLEAN
  /\ clock = 0
  /\ live = NoStatus
  /\ work = [p \in Callers |-> NoCall]

\* get_live_sync_status, with the window in effect.
Window == CHOOSE n \in Effective(StaleKey) : TRUE

Stale ==
  /\ live.availability = "degraded" /\ live.failAt # Never
  /\ clock > live.failAt + Window
  /\ live.okAt = Never \/ live.failAt >= live.okAt

ShownStatus == IF Stale THEN "available" ELSE live.availability

----------------------------------------------------------------------------
(* Marks and calls                                                         *)

\* Mutated form: a success is noted, and the status left as it was.
MarkSuccessOnly(at) == live' = LiveStatus(live.availability, at, live.failAt)
MarkAvailable(at) == live' = LiveStatus("available", at, live.failAt)
MarkDegraded(at) == live' = LiveStatus("degraded", live.okAt, at)
Mark(answer, at) == IF answer = "ok" THEN MarkAvailable(at) ELSE MarkDegraded(at)

Call(p) ==
  /\ work[p].answer = "none"
  /\ work' = [work EXCEPT ![p] = CallState(IF up THEN "ok" ELSE "error", @.at)]
  /\ UNCHANGED <<settingsVars, up, clock, live>>

----------------------------------------------------------------------------
(* The worker                                                              *)

BeginCycle ==
  /\ BuildServices
  /\ work' = [work EXCEPT ![Worker] = CallState("none", clock)]
  /\ UNCHANGED <<up, clock, live>>

\* Something is due, and its connection ready.
PollDue == cycle.pc = "polling" /\ Call(Worker)

\* The polls of lots, and the counts of saved searches, are marked with the start of
\* the cycle; the searches that follow such a count with the time of the mark.
MarkPoll ==
  /\ work[Worker].answer # "none"
  /\ \E at \in {work[Worker].at, clock} : Mark(work[Worker].answer, at)
  /\ work' = [work EXCEPT ![Worker] = CallState("none", @.at)]
  /\ UNCHANGED <<settingsVars, up, clock>>

\* An exception outside the polls of single lots and searches.
CycleFailed ==
  /\ cycle.pc = "polling" /\ ~up
  /\ MarkDegraded(clock)
  /\ UNCHANGED <<settingsVars, up, clock, work>>

FinishCycle ==
  /\ work[Worker].answer = "none" \/ ~up  \* a crash while it is disturbed
  /\ CycleEnds
  /\ work' = [work EXCEPT ![Worker] = NoCall]
  /\ UNCHANGED <<up, clock, live>>

----------------------------------------------------------------------------
(* Requests that call a provider, and what happens around them             *)

MarkRequest(r) ==
  /\ work[r].answer # "none"
  /\ Mark(work[r].answer, clock)
  /\ work' = [work EXCEPT ![r] = NoCall]
  /\ UNCHANGED <<settingsVars, up, clock>>

Flip ==
  /\ up' = ~up
  /\ UNCHANGED <<settingsVars, clock, live, work>>

ClockTicks ==
  /\ clock < MaxTime
  /\ clock' = clock + 1
  /\ UNCHANGED <<settingsVars, up, live, work>>

WorkerStep == BeginCycle \/ PollDue \/ MarkPoll \/ CycleFailed \/ FinishCycle
RequestStep(r) == Call(r) \/ MarkRequest(r)
SettingsStep(a) == AdminStep(a) /\ UNCHANGED outside

LiveNext ==
  \/ WorkerStep
  \/ \E r \in Requests : RequestStep(r)
  \/ \E a \in Admins : SettingsStep(a)
  \/ Flip \/ ClockTicks

\* The worker's loop never ends, and something falls due again and again, which some
\* cycle polls; administrators and the requests of clients need not go on.
LiveSpec ==
  /\ LiveInit /\ [][LiveNext]_liveVars
  /\ WF_liveVars(BeginCycle) /\ WF_liveVars(MarkPoll) /\ WF_liveVars(FinishCycle) /\ SF_liveVars(PollDue)

----------------------------------------------------------------------------
LiveTypeOK ==
  /\ SettingsTypeOK
  /\ up \in BOOLEAN /\ clock \in 0..MaxTime
  /\ live \in [availability : {"available", "degraded"}, okAt : 0..Never, failAt : 0..Never]
  /\ work \in [Callers -> [answer : {"none", "ok", "error"}, at : 0..MaxTime]]

\* When the providers answer for good, and no request is still to mark an older failure,
\* the pages come to show that live sync is available and go on showing it
\* (mark_live_sync_available after every poll).
Recovers ==
  <>[](up /\ \A r \in Requests : work[r].answer # "error") => <>[](ShownStatus = "available")

\* runtime_settings/models.py says of live_sync_stale_after_minutes: "Minutes before a
\* degraded live-sync failure marker is treated as stale and downgraded to available."
MarkerGrowsStale ==
  live.availability = "degraded" /\ clock > live.failAt + Window => ShownStatus = "available"
=============================================================================
