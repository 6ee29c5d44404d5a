------------------------------ MODULE ServeLife ------------------------------
(***************************************************************************)
(* The life of a process of this crate (src/src/main.rs): a server from    *)
(* the config to the flush of the telemetry, and the policy subcommands,   *)
(* which claim the same lease and open the same stores.  The listener and  *)
(* its shutdown are those of src/src/http/mod.rs, the background tasks the *)
(* ones that serve spawns.                                                 *)
(*                                                                         *)
(* The lease is what WriterLease shows it to be: at most one holder, whom  *)
(* a claim does not displace while it lives, and a record that goes stale  *)
(* once its process is gone.                                               *)
(***************************************************************************)
EXTENDS Naturals, Sequences

CONSTANTS
    Server, Command,   \* processes that run serve, and policy subcommands
    Nobody,
    MaxRequests        \* requests in flight at once

ASSUME LifeAssumption ==
    /\ Server \cap Command = {}
    /\ Nobody \notin Server \cup Command
    /\ MaxRequests \in Nat

Process == Server \cup Command
BackgroundTask == {"reactive", "gc", "probes", "builds"}

\* The steps of serve and of run_policy_command, in their order.  "telemetry"
\* includes the public address; "engines" is the policy engine and the fs
\* engine; "mirror" is the last store before the pool of builders.
ServeSteps == <<"config", "telemetry", "oidc", "claim", "policy", "fs", "wal",
                "engines", "gc", "objects", "mirror", "bind">>
CommandSteps == <<"config", "claim", "policy", "wal", "work">>
Stores == {"policy", "fs", "wal"}

VARIABLES
    leaseOn,     \* writer_lease_ttl_secs > 0 on a real object store
    step,         \* 0 before a start, then the step a process is at
    mode,         \* "starting", "serving", "draining", "closing", "gone"
    prefixHolder,       \* the process whose record the lease object holds
    guard,        \* the process owns a LeaseGuard
    epoch,        \* per store, the process that opened it last
    opened,       \* the stores each process has opened
    tasks,        \* per process and task: "none", "idle", "busy", "ended"
    cancelled,    \* the CancellationToken of each process
    requests      \* requests in flight

lifeVars == <<leaseOn, step, mode, prefixHolder, guard, epoch, opened, tasks,
              cancelled, requests>>

Steps(p) == IF p \in Server THEN ServeSteps ELSE CommandSteps

\* Where each process stands, and what it holds of the lease and the stores.
LifeTypeOK ==
    /\ leaseOn \in BOOLEAN
    /\ step \in [Process -> 0..Len(ServeSteps)]
    /\ mode \in [Process -> {"starting", "serving", "draining", "closing", "gone"}]
    /\ prefixHolder \in Process \cup {Nobody}
    /\ guard \in [Process -> BOOLEAN]
    /\ epoch \in [Stores -> Process \cup {Nobody}]
    /\ opened \in [Process -> SUBSET Stores]
    /\ tasks \in [Process -> [BackgroundTask -> {"none", "idle", "busy", "ended"}]]
    /\ cancelled \in [Process -> BOOLEAN]
    /\ requests \in [Process -> 0..MaxRequests]

LifeInit ==
    /\ leaseOn \in BOOLEAN
    /\ step = [p \in Process |-> 0]
    /\ mode = [p \in Process |-> "starting"]
    /\ prefixHolder = Nobody
    /\ guard = [p \in Process |-> FALSE]
    /\ epoch = [s \in Stores |-> Nobody]
    /\ opened = [p \in Process |-> {}]
    /\ tasks = [p \in Process |-> [t \in BackgroundTask |-> "none"]]
    /\ cancelled = [p \in Process |-> FALSE]
    /\ requests = [p \in Process |-> 0]

-----------------------------------------------------------------------------
At(p, s) == mode[p] = "starting" /\ step[p] > 0 /\ Steps(p)[step[p]] = s

Advance(p) == step' = [step EXCEPT ![p] = @ + 1]
EnterMode(p, m) == mode' = [mode EXCEPT ![p] = m]

\* tokio::spawn of background tasks.
Spawn(p, ts) == tasks' = [tasks EXCEPT ![p] = [t \in BackgroundTask |->
                             IF t \in ts THEN "idle" ELSE tasks[p][t]]]

\* The runtime goes away with main, and drops whatever still runs.
Exit(p) ==
    /\ EnterMode(p, "gone")
    /\ tasks' = [tasks EXCEPT ![p] = [t \in BackgroundTask |-> "none"]]
    /\ requests' = [requests EXCEPT ![p] = 0]

LifeStart(p) ==
    /\ mode[p] = "starting" /\ step[p] = 0
    /\ Advance(p)
    /\ UNCHANGED <<leaseOn, mode, prefixHolder, guard, epoch, opened, tasks, cancelled, requests>>

\* claim_writer_lease: a lease that is switched off gives no guard, a live
\* holder refuses the claim.
ClaimPrefix(p) ==
    /\ At(p, "claim")
    /\ IF ~leaseOn
         THEN Advance(p) /\ UNCHANGED <<mode, prefixHolder, guard, tasks, requests>>
         ELSE IF prefixHolder \in {Nobody, p}
           THEN /\ prefixHolder' = p
                /\ guard' = [guard EXCEPT ![p] = TRUE]
                /\ Advance(p)
                /\ UNCHANGED <<mode, tasks, requests>>
           ELSE Exit(p) /\ UNCHANGED <<step, prefixHolder, guard>>
    /\ UNCHANGED <<leaseOn, epoch, opened, cancelled>>

\* build_s3_store: opening a store bumps its epoch.  An export opens the
\* policy store only and an import the wal store too.
OpenStore(p) ==
    /\ \E s \in Stores :
          /\ At(p, s)
          /\ \/ /\ opened' = [opened EXCEPT ![p] = @ \cup {s}]
                /\ epoch' = [epoch EXCEPT ![s] = p]
             \/ p \in Command /\ s = "wal" /\ UNCHANGED <<opened, epoch>>
    /\ Advance(p)
    /\ UNCHANGED <<leaseOn, mode, prefixHolder, guard, tasks, cancelled, requests>>

\* The steps that only build values, and the tasks some of them spawn.
Build(p) ==
    /\ \E s \in {"config", "telemetry", "oidc", "engines", "gc", "objects", "mirror"} :
          /\ At(p, s)
          /\ Spawn(p, CASE s = "gc" -> {"reactive", "gc"}
                        [] s = "objects" -> {"probes"}
                        [] s = "mirror" -> {"builds"}
                        [] OTHER -> {})
    /\ Advance(p)
    /\ UNCHANGED <<leaseOn, mode, prefixHolder, guard, epoch, opened, cancelled, requests>>

\* The `?` of a step of serve, or of a command before its claim.  The guard
\* is dropped, which only makes the release runnable: the record goes, or it
\* is left to expire.
StartFails(p) ==
    /\ mode[p] = "starting" /\ step[p] > 0
    /\ IF p \in Server THEN ~At(p, "bind") ELSE At(p, "config")
    /\ Exit(p)
    /\ prefixHolder' \in IF guard[p] THEN {prefixHolder, Nobody} ELSE {prefixHolder}
    /\ guard' = [guard EXCEPT ![p] = FALSE]
    /\ UNCHANGED <<leaseOn, step, epoch, opened, cancelled>>

\* ApiService::start: a bind that fails is kept in `served` and takes the
\* orderly way out.
Bind(p) ==
    /\ At(p, "bind")
    /\ \E m \in {"serving", "closing"} : EnterMode(p, m)
    /\ UNCHANGED <<leaseOn, step, prefixHolder, guard, epoch, opened, tasks, cancelled, requests>>

\* export_policy, import_policy: done or failed, the command releases.
CommandEnds(p) ==
    /\ p \in Command /\ mode[p] = "starting"
    /\ \E s \in {"policy", "wal", "work"} : At(p, s)
    /\ EnterMode(p, "closing")
    /\ UNCHANGED <<leaseOn, step, prefixHolder, guard, epoch, opened, tasks, cancelled, requests>>

-----------------------------------------------------------------------------
(* Serving and shutting down *)

Request(p) ==
    /\ mode[p] = "serving" /\ requests[p] < MaxRequests
    /\ requests' = [requests EXCEPT ![p] = @ + 1]
    /\ UNCHANGED <<leaseOn, step, mode, prefixHolder, guard, epoch, opened, tasks, cancelled>>

Answer(p) ==
    /\ requests[p] > 0
    /\ requests' = [requests EXCEPT ![p] = @ - 1]
    /\ UNCHANGED <<leaseOn, step, mode, prefixHolder, guard, epoch, opened, tasks, cancelled>>

\* One round of a background task, and its end once the token is cancelled.
TaskRun(p, t) ==
    /\ mode[p] # "gone"
    /\ \/ tasks[p][t] = "idle" /\ ~cancelled[p] /\ tasks' = [tasks EXCEPT ![p][t] = "busy"]
       \/ tasks[p][t] = "busy" /\ tasks' = [tasks EXCEPT ![p][t] = "idle"]
       \/ tasks[p][t] = "idle" /\ cancelled[p] /\ tasks' = [tasks EXCEPT ![p][t] = "ended"]
    /\ UNCHANGED <<leaseOn, step, mode, prefixHolder, guard, epoch, opened, cancelled, requests>>

\* shutdown_signal: SIGTERM or Ctrl-C; the listener stops accepting.
Signal(p) ==
    /\ mode[p] = "serving"
    /\ EnterMode(p, "draining")
    /\ UNCHANGED <<leaseOn, step, prefixHolder, guard, epoch, opened, tasks, cancelled, requests>>

\* handle.stop(true): the workers end with the last request, or after
\* SHUTDOWN_TIMEOUT_SECS with whatever is left.
Drained(p) ==
    /\ mode[p] = "draining"
    /\ EnterMode(p, "closing")
    /\ requests' = [requests EXCEPT ![p] = 0]
    /\ UNCHANGED <<leaseOn, step, prefixHolder, guard, epoch, opened, tasks, cancelled>>

Cancel(p) ==
    /\ mode[p] = "closing" /\ p \in Server /\ ~cancelled[p]
    /\ cancelled' = [cancelled EXCEPT ![p] = TRUE]
    /\ UNCHANGED <<leaseOn, step, mode, prefixHolder, guard, epoch, opened, tasks, requests>>

\* Mutant: the release before the services are awaited.
MayReleaseAtOnce(p) == mode[p] = "closing"

\* The handles of the reactive services are awaited, those of the collector,
\* the probes and the builders are not.
MayRelease(p) ==
    /\ mode[p] = "closing"
    /\ p \in Server => cancelled[p] /\ tasks[p]["reactive"] \in {"none", "ended"}

\* guard.release().await: the record goes, or the release times out and the
\* record is left to expire.
Release(p) ==
    /\ MayRelease(p) /\ guard[p]
    /\ prefixHolder' \in {Nobody, prefixHolder}
    /\ guard' = [guard EXCEPT ![p] = FALSE]
    /\ UNCHANGED <<leaseOn, step, mode, epoch, opened, tasks, cancelled, requests>>

\* served?, the flush of the telemetry, and the end of main.
Finish(p) ==
    /\ MayRelease(p) /\ ~guard[p]
    /\ Exit(p)
    /\ UNCHANGED <<leaseOn, step, prefixHolder, guard, epoch, opened, cancelled>>

Killed(p) ==
    /\ step[p] > 0 /\ mode[p] # "gone"
    /\ Exit(p)
    /\ guard' = [guard EXCEPT ![p] = FALSE]
    /\ UNCHANGED <<leaseOn, step, prefixHolder, epoch, opened, cancelled>>

\* The record of a process that no longer renews goes stale.
Expire ==
    /\ prefixHolder # Nobody /\ ~guard[prefixHolder]
    /\ prefixHolder' = Nobody
    /\ UNCHANGED <<leaseOn, step, mode, guard, epoch, opened, tasks, cancelled, requests>>

\* What a process does of its own accord.
Proceed(p) ==
    \/ ClaimPrefix(p) \/ OpenStore(p) \/ Build(p) \/ Bind(p) \/ Drained(p)
    \/ Cancel(p) \/ Release(p) \/ Finish(p)
    \/ p \in Command /\ CommandEnds(p)

LifeNext ==
    \/ \E p \in Process :
          \/ LifeStart(p) \/ Proceed(p) \/ StartFails(p) \/ Request(p)
          \/ Answer(p) \/ Signal(p) \/ Killed(p)
          \/ \E t \in BackgroundTask : TaskRun(p, t)
    \/ Expire

LifeFairness ==
    /\ \A p \in Process : WF_lifeVars(Proceed(p))
    /\ \A p \in Process : WF_lifeVars(TaskRun(p, "reactive"))
    /\ WF_lifeVars(Expire)

LifeSpec == LifeInit /\ [][LifeNext]_lifeVars /\ LifeFairness

-----------------------------------------------------------------------------

\* The prefix is given back only when no request and no reactive service of
\* the process can still write: the listener has drained, the token is
\* cancelled, and the services have returned.
ReleaseAfterServices ==
    [][\A p \in Server :
          (guard[p] /\ ~guard'[p] /\ mode'[p] # "gone") =>
              /\ requests[p] = 0
              /\ tasks[p]["reactive"] \in {"none", "ended"}]_lifeVars

\* A stopped process hands the prefix over: after the signal the lease is
\* free again, whether the release went through, timed out or never ran.
ShutdownHandsOver ==
    \A p \in Server : (mode[p] = "draining") ~> (prefixHolder # p /\ mode[p] = "gone")

\* serve hands the prefix over on shutdown: it does so in the end, and not
\* while its own services may still write.
CleanHandover == ReleaseAfterServices /\ ShutdownHandsOver
=============================================================================
