----------------------------- MODULE HealthProbe -----------------------------
(***************************************************************************)
(* The background probes of S3 and of the OIDC provider behind /ready      *)
(* (src/src/http/health.rs), and the answer of /ready itself.              *)
(*                                                                         *)
(* The task waits on one tokio Interval.  Its state is the time left until *)
(* the next tick is due; a tick that is consumed late moves the deadline   *)
(* by one period from where it was (MissedTickBehavior::Burst, the         *)
(* default).  One unit of time is the 100 ms of the inner timeout.         *)
(***************************************************************************)
EXTENDS Integers

CONSTANTS
    Period,       \* the interval, in units of the inner timeout
    MaxLate,      \* the longest time the runtime leaves a ready task waiting
    MaxOutages    \* bound on how often a dependency goes away

ASSUME ProbeAssumption ==
    /\ Period \in Nat \ {0, 1}
    /\ MaxLate \in Nat
    /\ MaxOutages \in Nat

Dependency == {"s3", "oidc"}

VARIABLES
    probeAt,      \* where the loop is
    due,          \* time until the interval's next deadline; <= 0 is due
    left,         \* time left of the inner timeout
    late,         \* how long the task has been ready and not run
    reach,        \* whether each dependency answers, refuses or hangs
    healthy,      \* DependencyHealth
    stopping,     \* the CancellationToken
    outages

probeVars == <<probeAt, due, left, late, reach, healthy, stopping, outages>>

\* Where the loop stands, the clock of its interval, and the two flags.
ProbeTypeOK ==
    /\ probeAt \in {"tick", "timeout", "s3", "oidc", "ended"}
    /\ due \in -(MaxLate + 1)..Period
    /\ left \in 0..1
    /\ late \in 0..MaxLate
    /\ reach \in [Dependency -> {"up", "down", "hung"}]
    /\ healthy \in [Dependency -> BOOLEAN]
    /\ stopping \in BOOLEAN
    /\ outages \in 0..MaxOutages

\* DependencyHealth::new: startup already reached both.
ProbeInit ==
    /\ probeAt = "tick"
    /\ due = 0
    /\ left = 0
    /\ late = 0
    /\ reach = [d \in Dependency |-> "up"]
    /\ healthy = [d \in Dependency |-> TRUE]
    /\ stopping = FALSE
    /\ outages = 0

-----------------------------------------------------------------------------
IsHealthy == healthy["s3"] /\ healthy["oidc"]

\* The answer of /ready as far as the dependencies decide it.
ReadyStatus == IF IsHealthy THEN 200 ELSE 503

\* The task can be polled to completion of the await it stands at.
Runnable ==
    \/ probeAt = "tick" /\ due <= 0
    \/ probeAt = "timeout" /\ (due <= 0 \/ left = 0)
    \/ probeAt \in Dependency /\ reach[probeAt] # "hung"

\* A tick that completes sets the next deadline one period after this one.
TakeTick == due' = due + Period

\* if cancel.is_cancelled() { break }
BreakOr(next) == probeAt' = IF stopping THEN "ended" ELSE next

\* interval.tick().await, then the check of the token.
Ticks ==
    /\ probeAt = "tick" /\ due <= 0
    /\ TakeTick
    /\ BreakOr("timeout")
    /\ left' = 1

\* timeout(100ms, interval.tick()): the tick is polled before the timer.  A
\* timeout drops the tick future, which leaves the deadline where it is, and
\* the loop starts over.
Guard ==
    /\ probeAt = "timeout"
    /\ \/ due <= 0 /\ TakeTick /\ BreakOr("s3")
       \/ due > 0 /\ left = 0 /\ probeAt' = "tick" /\ UNCHANGED due
    /\ left' = 0

\* The two probes, each storing its flag when its answer is in.
Probe ==
    /\ probeAt \in Dependency /\ reach[probeAt] # "hung"
    /\ healthy' = [healthy EXCEPT ![probeAt] = reach[probeAt] = "up"]
    /\ probeAt' = IF probeAt = "s3" THEN "oidc" ELSE "tick"
    /\ UNCHANGED <<due, left>>

ProbeLoop ==
    /\ \/ Ticks /\ UNCHANGED healthy
       \/ Guard /\ UNCHANGED healthy
       \/ Probe
    /\ late' = 0
    /\ UNCHANGED <<reach, stopping, outages>>

ProbeClock ==
    /\ probeAt # "ended"
    /\ Runnable => late < MaxLate
    /\ late' = IF Runnable THEN late + 1 ELSE late
    /\ due' = IF due > -(MaxLate + 1) THEN due - 1 ELSE due
    /\ left' = IF left > 0 THEN left - 1 ELSE 0
    /\ UNCHANGED <<probeAt, reach, healthy, stopping, outages>>

Outage(d) ==
    /\ reach[d] = "up" /\ outages < MaxOutages
    /\ \E how \in {"down", "hung"} : reach' = [reach EXCEPT ![d] = how]
    /\ outages' = outages + 1
    /\ UNCHANGED <<probeAt, due, left, late, healthy, stopping>>

Recovery(d) ==
    /\ reach[d] # "up"
    /\ reach' = [reach EXCEPT ![d] = "up"]
    /\ UNCHANGED <<probeAt, due, left, late, healthy, stopping, outages>>

\* serve cancels the token once the listener has stopped.
ProbeCancel ==
    /\ ~stopping
    /\ stopping' = TRUE
    /\ UNCHANGED <<probeAt, due, left, late, reach, healthy, outages>>

ProbeNext ==
    \/ ProbeLoop \/ ProbeClock \/ ProbeCancel
    \/ \E d \in Dependency : Outage(d) \/ Recovery(d)

ProbeFairness == WF_probeVars(ProbeLoop) /\ WF_probeVars(ProbeClock)

ProbeSpec == ProbeInit /\ [][ProbeNext]_probeVars /\ ProbeFairness

-----------------------------------------------------------------------------

\* A dependency that refuses every request is reported: "/ready returns 503
\* when the last background probe of S3 or OIDC failed", and the task
\* "refreshes both flags periodically".
OutageNoticed ==
    \A d \in Dependency :
        (reach[d] = "down") ~> (reach[d] # "down" \/ ReadyStatus = 503 \/ stopping)
=============================================================================
