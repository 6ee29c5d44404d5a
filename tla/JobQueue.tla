------------------------------ MODULE JobQueue ------------------------------
(***************************************************************************)
(* The job queue: QueueWorker (src/src/queue/worker.rs) with its lease     *)
(* extender, over MemoryQueue (src/src/queue/memory.rs), whose operations  *)
(* are critical sections, and over DurableQueue (src/src/queue/durable.rs),*)
(* which lists or loads under a read lock and writes under a write lock    *)
(* taken later.  A durable operation is one step per lock.                 *)
(*                                                                         *)
(* Times are relative: an expiry or a schedule is the number of ticks that *)
(* are left, in the store and in every copy of a record, and 0 is a time   *)
(* that has come.  So the clock needs no bound.  A job is its id, and is   *)
(* enqueued once.                                                          *)
(***************************************************************************)
EXTENDS Integers, FiniteSets

CONSTANTS
    Job,          \* job ids
    Key,          \* idempotency keys
    Worker,
    Absent,       \* no record, no key, no answer
    Rank,         \* order of jobs by priority, then age, then id
    Sites,        \* backend, workers and their lease in ticks, jobs sent, and
                  \* those of a kind that no worker handles
    MaxAttempts,  \* Job.max_attempts; enqueue refuses 0
    BatchSize,    \* QueueWorker.batch_size
    Delay,        \* of a retry, in ticks
    MaxFaults     \* bound on store errors and crashes

ASSUME QueueAssumption ==
    /\ Absent \notin Job \cup Key \cup Worker
    /\ Absent \notin [st : {"queued", "leased", "succeeded", "failed", "dead"},
                      exp : Nat, attempt : Nat, sched : Nat]
    /\ IsFiniteSet(Worker)
    /\ Rank \in [Job -> Nat] /\ \A i, j \in Job : Rank[i] = Rank[j] => i = j
    /\ Sites \subseteq [backend : {"memory", "durable"},
                        workers : SUBSET Worker, lease : Nat \ {0},
                        jobs : SUBSET Job, unhandled : SUBSET Job]
    /\ MaxAttempts \in Nat \ {0} /\ BatchSize \in Nat \ {0}
    /\ Delay \in Nat /\ MaxFaults \in Nat

VARIABLES
    site,      \* which of Sites this is
    rec,       \* the job records
    idem,      \* the idempotency index
    client, key, ans,   \* per job: its enqueue call, its key, the id returned
    at,        \* where each process is
    todo,      \* expired jobs that a sweep has still to requeue
    copy,      \* a record to be written
    pend, pexp,    \* candidates still to be leased, and their expiry
    batch,     \* jobs a worker has reserved and not reported
    outcome,   \* of the worker's current job
    extjob,    \* the job whose lease the extender extends
    failures,  \* how often a job's handler has failed, to MaxAttempts
    lapsed,    \* some lease has run out
    faults

store == <<rec, idem>>
clients == <<client, key, ans>>
reserving == <<pend, pexp>>
vars == <<site, store, clients, at, todo, copy, reserving, batch, outcome, extjob, failures, lapsed, faults>>

\* Each worker is two tasks: run, and the extender of the job in hand.  A
\* third kind of process asks for a job's status.
Run(w) == <<w, "run">>
Ext(w) == <<w, "ext">>
Asker == <<Absent, "status">>
Proc == (Worker \X {"run", "ext"}) \cup {Asker}
Start(p) == CASE p[2] = "run" -> "poll" [] p[2] = "ext" -> "off" [] OTHER -> "idle"

Outcomes == {"none", "ok", "error", "unhandled"}
Record == [st : {"queued", "leased", "succeeded", "failed", "dead"},
           exp : 0..site.lease, attempt : 0..MaxAttempts - 1, sched : 0..Delay]

QueueTypeOK ==
    /\ rec \in [Job -> Record \cup {Absent}]
    /\ idem \in [Key -> Job \cup {Absent}]
    /\ client \in [Job -> {"new", "write", "done"}]
    /\ key \in [Job -> Key \cup {Absent}] /\ ans \in [Job -> Job \cup {Absent}]
    /\ at \in [Proc -> {"poll", "sweep", "list", "lease", "take", "handle", "join",
                        "load", "write", "off", "sleep", "idle"}]
    /\ todo \in [Proc -> SUBSET Job]
    /\ copy \in [Proc -> Record \cup {Absent}]
    /\ pend \in [Worker -> SUBSET [job : Job, attempt : 0..MaxAttempts - 1]]
    /\ pexp \in [Worker -> 0..site.lease]
    /\ batch \in [Worker -> SUBSET Job]
    /\ outcome \in [Worker -> Outcomes] /\ extjob \in [Worker -> Job \cup {Absent}]

\* Records, copies of them and the workers' batches have their types; in
\* particular no record has used up its attempts and still waits to run.
TypeOK ==
    /\ site \in Sites
    /\ QueueTypeOK
    /\ failures \in [Job -> 0..MaxAttempts]
    /\ lapsed \in BOOLEAN /\ faults \in 0..MaxFaults

Init ==
    /\ site \in Sites
    /\ rec = [j \in Job |-> Absent] /\ idem = [k \in Key |-> Absent]
    /\ client = [j \in Job |-> "new"]
    /\ key = [j \in Job |-> Absent] /\ ans = [j \in Job |-> Absent]
    /\ at = [p \in Proc |-> Start(p)]
    /\ todo = [p \in Proc |-> {}] /\ copy = [p \in Proc |-> Absent]
    /\ pend = [w \in Worker |-> {}] /\ pexp = [w \in Worker |-> 0]
    /\ batch = [w \in Worker |-> {}] /\ outcome = [w \in Worker |-> "none"]
    /\ extjob = [w \in Worker |-> Absent]
    /\ failures = [j \in Job |-> 0]
    /\ lapsed = FALSE /\ faults = 0

Memory == site.backend = "memory"
Durable == site.backend = "durable"
Goto(p, where) == at' = [at EXCEPT ![p] = where]

-----------------------------------------------------------------------------
(* What the operations do to a record *)

Fresh == [st |-> "queued", exp |-> 0, attempt |-> 0, sched |-> 0]
Due(j) == rec[j] # Absent /\ rec[j].st = "queued" /\ rec[j].sched = 0
Expired(r) == r # Absent /\ r.st = "leased" /\ r.exp = 0
Requeued(r) == [r EXCEPT !.st = "queued", !.exp = 0]
Leased(r, expiry) == [r EXCEPT !.st = "leased", !.exp = expiry]
Finished(r, st) == [r EXCEPT !.st = st, !.exp = 0]

\* Mutant: the attempt that is being reported is left out of the count.
NackedLate(r) ==
    IF r.attempt >= MaxAttempts THEN Finished(r, "dead")
    ELSE [r EXCEPT !.st = "queued", !.exp = 0, !.attempt = @ + 1, !.sched = Delay]

\* nack with a retry: the attempt is counted, or the job is dead.
Nacked(r) ==
    IF r.attempt + 1 >= MaxAttempts THEN Finished(r, "dead")
    ELSE [r EXCEPT !.st = "queued", !.exp = 0, !.attempt = @ + 1, !.sched = Delay]

\* ack, nack without and nack with a retry.  None looks at the status that
\* the record has, nor at who holds it.
Reported(r, o) ==
    CASE o = "ok" -> Finished(r, "succeeded")
      [] o = "unhandled" -> Finished(r, "failed")
      [] o = "error" -> Nacked(r)

\* The jobs in S that a reserve takes: sorted by rank and truncated.
Front(S) == {j \in S : Cardinality({i \in S : Rank[i] < Rank[j]}) < BatchSize}
First(S) == CHOOSE j \in S : \A i \in S : Rank[j] <= Rank[i]
Current(w) == First(batch[w])

-----------------------------------------------------------------------------
(* enqueue *)

Insert(j, k) ==
    /\ rec' = [rec EXCEPT ![j] = Fresh]
    /\ idem' = IF k = Absent THEN idem ELSE [idem EXCEPT ![k] = j]
    /\ ans' = [ans EXCEPT ![j] = j]

MemoryEnqueue(j, k) ==
    /\ Memory /\ client[j] = "new"
    /\ client' = [client EXCEPT ![j] = "done"] /\ key' = [key EXCEPT ![j] = k]
    /\ IF k # Absent /\ idem[k] # Absent
       THEN ans' = [ans EXCEPT ![j] = idem[k]] /\ UNCHANGED store
       ELSE Insert(j, k)
    /\ UNCHANGED <<site, at, todo, copy, reserving, batch, outcome, extjob, failures, lapsed, faults>>

\* Mutant: the key is entered by the call that finds it free.
DurableEnqueueReadClaims(j, k) ==
    /\ Durable /\ client[j] = "new"
    /\ key' = [key EXCEPT ![j] = k]
    /\ IF k # Absent /\ idem[k] # Absent
       THEN ans' = [ans EXCEPT ![j] = idem[k]] /\ client' = [client EXCEPT ![j] = "done"]
            /\ UNCHANGED idem
       ELSE client' = [client EXCEPT ![j] = "write"] /\ UNCHANGED ans
            /\ idem' = IF k = Absent THEN idem ELSE [idem EXCEPT ![k] = j]
    /\ UNCHANGED <<site, rec, at, todo, copy, reserving, batch, outcome, extjob, failures, lapsed, faults>>

\* The key is looked up under the read lock ...
DurableEnqueueRead(j, k) ==
    /\ Durable /\ client[j] = "new"
    /\ key' = [key EXCEPT ![j] = k]
    /\ IF k # Absent /\ idem[k] # Absent
       THEN ans' = [ans EXCEPT ![j] = idem[k]] /\ client' = [client EXCEPT ![j] = "done"]
       ELSE client' = [client EXCEPT ![j] = "write"] /\ UNCHANGED ans
    /\ UNCHANGED <<site, store, at, todo, copy, reserving, batch, outcome, extjob, failures, lapsed, faults>>

\* ... and job and key are written in one transaction, without a second look.
DurableEnqueueWrite(j) ==
    /\ client[j] = "write"
    /\ client' = [client EXCEPT ![j] = "done"]
    /\ Insert(j, key[j])
    /\ UNCHANGED <<site, key, at, todo, copy, reserving, batch, outcome, extjob, failures, lapsed, faults>>

-----------------------------------------------------------------------------
(* sweep_expired, at the start of reserve, extend_lease and status *)

\* The extender's token is cancelled when the handler has returned.
Cancelled(w) == at[Run(w)] # "handle"

\* The extender is back at the head of its loop.
Loop(w) ==
    IF Cancelled(w) THEN Goto(Ext(w), "off") /\ extjob' = [extjob EXCEPT ![w] = Absent]
                    ELSE Goto(Ext(w), "sleep") /\ UNCHANGED extjob

MaySweep(p) ==
    CASE p[2] = "run" -> at[p] = "poll"
      [] p[2] = "ext" -> at[p] = "sleep" /\ ~Cancelled(p[1])
      [] OTHER -> at[p] = "idle"
AfterSweep(p) == CASE p[2] = "run" -> "list" [] p[2] = "ext" -> "load" [] OTHER -> "idle"

\* Mutant: a lease is swept a tick before it ends.
SweptEarly ==
    [j \in Job |-> IF rec[j] # Absent /\ rec[j].st = "leased" /\ rec[j].exp <= 1
                   THEN Requeued(rec[j]) ELSE rec[j]]

\* MemoryQueue: all of it inside the caller's critical section.
Swept == [j \in Job |-> IF Expired(rec[j]) THEN Requeued(rec[j]) ELSE rec[j]]

SweepList(p) ==
    /\ Durable /\ MaySweep(p)
    /\ todo' = [todo EXCEPT ![p] = {j \in Job : Expired(rec[j])}]
    /\ Goto(p, IF todo'[p] = {} THEN AfterSweep(p) ELSE "sweep")
    /\ UNCHANGED <<site, store, clients, copy, reserving, batch, outcome, extjob, failures, lapsed, faults>>

\* Mutant: the transaction rolls back a record that is still leased.
SweepWriteRollsBack(p) ==
    /\ at[p] = "sweep"
    /\ \E j \in todo[p] : todo' = [todo EXCEPT ![p] = @ \ {j}]
    /\ Goto(p, IF todo'[p] = {} THEN AfterSweep(p) ELSE "sweep")
    /\ UNCHANGED <<site, store, clients, copy, reserving, batch, outcome, extjob, failures, lapsed, faults>>

\* A record that is still leased is requeued, whether or not the lease is
\* the one that the listing found expired.
SweepWrite(p) ==
    /\ at[p] = "sweep"
    /\ \E j \in todo[p] :
        /\ rec' = IF rec[j].st = "leased" THEN [rec EXCEPT ![j] = Requeued(@)] ELSE rec
        /\ todo' = [todo EXCEPT ![p] = @ \ {j}]
    /\ Goto(p, IF todo'[p] = {} THEN AfterSweep(p) ELSE "sweep")
    /\ UNCHANGED <<site, idem, clients, copy, reserving, batch, outcome, extjob, failures, lapsed, faults>>

MemoryStatus ==
    /\ Memory
    /\ rec' = Swept
    /\ UNCHANGED <<site, idem, clients, at, todo, copy, reserving, batch, outcome, extjob, failures, lapsed, faults>>

-----------------------------------------------------------------------------
(* reserve *)

MemoryReserve(w) ==
    /\ Memory /\ at[Run(w)] = "poll"
    /\ LET due == {j \in Job : Swept[j] # Absent /\ Swept[j].st = "queued" /\ Swept[j].sched = 0}
           got == Front(due)
       IN  /\ rec' = [j \in Job |-> IF j \in got THEN Leased(Swept[j], site.lease) ELSE Swept[j]]
           /\ batch' = [batch EXCEPT ![w] = got]
           /\ Goto(Run(w), IF got = {} THEN "poll" ELSE "take")
    /\ UNCHANGED <<site, idem, clients, todo, copy, reserving, outcome, extjob, failures, lapsed, faults>>

\* Every candidate gets the expiry computed here, and its record of now.
DurableList(w) ==
    /\ at[Run(w)] = "list"
    /\ LET got == Front({j \in Job : Due(j)})
       IN  /\ pend' = [pend EXCEPT ![w] = {[job |-> j, attempt |-> rec[j].attempt] : j \in got}]
           /\ pexp' = [pexp EXCEPT ![w] = IF got = {} THEN 0 ELSE site.lease]
           /\ Goto(Run(w), IF got = {} THEN "poll" ELSE "lease")
    /\ UNCHANGED <<site, store, clients, todo, copy, batch, outcome, extjob, failures, lapsed, faults>>

\* One candidate is written back as leased, over whatever is there now.
DurableLease(w) ==
    /\ at[Run(w)] = "lease"
    /\ LET j == First({c.job : c \in pend[w]})
           c == CHOOSE c \in pend[w] : c.job = j
       IN  /\ rec' = [rec EXCEPT ![j] = Leased([Fresh EXCEPT !.attempt = c.attempt], pexp[w])]
           /\ batch' = [batch EXCEPT ![w] = @ \cup {j}]
           /\ pend' = [pend EXCEPT ![w] = @ \ {c}]
    /\ pexp' = [pexp EXCEPT ![w] = IF pend'[w] = {} THEN 0 ELSE @]
    /\ Goto(Run(w), IF pend'[w] = {} THEN "take" ELSE "lease")
    /\ UNCHANGED <<site, idem, clients, todo, copy, outcome, extjob, failures, lapsed, faults>>

-----------------------------------------------------------------------------
(* process *)

\* The next job of the batch: its handler and extender start together.
Take(w) ==
    /\ at[Run(w)] = "take"
    /\ \/ batch[w] = {} /\ Goto(Run(w), "poll") /\ UNCHANGED <<outcome, extjob>>
       \/ /\ batch[w] # {} /\ Current(w) \in site.unhandled
          /\ outcome' = [outcome EXCEPT ![w] = "unhandled"]
          /\ Goto(Run(w), "load")
          /\ UNCHANGED extjob
       \/ /\ batch[w] # {} /\ Current(w) \notin site.unhandled
          /\ at' = [at EXCEPT ![Run(w)] = "handle", ![Ext(w)] = "sleep"]
          /\ extjob' = [extjob EXCEPT ![w] = Current(w)]
          /\ UNCHANGED outcome
    /\ UNCHANGED <<site, store, clients, todo, copy, reserving, batch, failures, lapsed, faults>>

HandlerReturns(w, o) ==
    /\ at[Run(w)] = "handle"
    /\ outcome' = [outcome EXCEPT ![w] = o]
    /\ failures' = IF o = "error" /\ failures[Current(w)] < MaxAttempts
                   THEN [failures EXCEPT ![Current(w)] = @ + 1] ELSE failures
    /\ Goto(Run(w), "join")
    /\ UNCHANGED <<site, store, clients, todo, copy, reserving, batch, extjob, lapsed, faults>>

\* Mutant: the extender is cancelled and not awaited.
JoinAtOnce(w) ==
    /\ at[Run(w)] = "join"
    /\ Goto(Run(w), "load")
    /\ UNCHANGED <<site, store, clients, todo, copy, reserving, batch, outcome, extjob, failures, lapsed, faults>>

Join(w) ==
    /\ at[Run(w)] = "join" /\ at[Ext(w)] = "off"
    /\ Goto(Run(w), "load")
    /\ UNCHANGED <<site, store, clients, todo, copy, reserving, batch, outcome, extjob, failures, lapsed, faults>>

\* The worker is done with its current job.
Done(w) ==
    /\ Goto(Run(w), "take")
    /\ batch' = [batch EXCEPT ![w] = @ \ {Current(w)}]
    /\ outcome' = [outcome EXCEPT ![w] = "none"]
    /\ copy' = [copy EXCEPT ![Run(w)] = Absent]

MemoryReport(w) ==
    /\ Memory /\ at[Run(w)] = "load"
    /\ rec' = [rec EXCEPT ![Current(w)] = Reported(@, outcome[w])]
    /\ Done(w)
    /\ UNCHANGED <<site, idem, clients, todo, reserving, extjob, failures, lapsed, faults>>

DurableReportLoad(w) ==
    /\ Durable /\ at[Run(w)] = "load"
    /\ copy' = [copy EXCEPT ![Run(w)] = Reported(rec[Current(w)], outcome[w])]
    /\ Goto(Run(w), "write")
    /\ UNCHANGED <<site, store, clients, todo, reserving, batch, outcome, extjob, failures, lapsed, faults>>

DurableReportWrite(w) ==
    /\ at[Run(w)] = "write"
    /\ rec' = [rec EXCEPT ![Current(w)] = copy[Run(w)]]
    /\ Done(w)
    /\ UNCHANGED <<site, idem, clients, todo, reserving, extjob, failures, lapsed, faults>>

-----------------------------------------------------------------------------
(* the extender and extend_lease *)

ExtStop(w) ==
    /\ at[Ext(w)] = "sleep" /\ Cancelled(w)
    /\ Loop(w)
    /\ UNCHANGED <<site, store, clients, todo, copy, reserving, batch, outcome, failures, lapsed, faults>>

\* After the sweep, a lease that is left has time left.
MemoryExtend(w) ==
    /\ Memory /\ at[Ext(w)] = "sleep" /\ ~Cancelled(w)
    /\ LET j == extjob[w]
       IN  rec' = IF Swept[j].st = "leased"
                  THEN [Swept EXCEPT ![j] = Leased(@, site.lease)] ELSE Swept
    /\ UNCHANGED <<site, idem, clients, at, todo, copy, reserving, batch, outcome, extjob, failures, lapsed, faults>>

DurableExtendLoad(w) ==
    /\ at[Ext(w)] = "load"
    /\ LET r == rec[extjob[w]]
       IN  IF r.st = "leased" /\ r.exp > 0
           THEN /\ copy' = [copy EXCEPT ![Ext(w)] = Leased(r, site.lease)]
                /\ Goto(Ext(w), "write")
                /\ UNCHANGED extjob
           ELSE Loop(w) /\ UNCHANGED copy
    /\ UNCHANGED <<site, store, clients, todo, reserving, batch, outcome, failures, lapsed, faults>>

DurableExtendWrite(w) ==
    /\ at[Ext(w)] = "write"
    /\ rec' = [rec EXCEPT ![extjob[w]] = copy[Ext(w)]]
    /\ copy' = [copy EXCEPT ![Ext(w)] = Absent]
    /\ Loop(w)
    /\ UNCHANGED <<site, idem, clients, todo, reserving, batch, outcome, failures, lapsed, faults>>

-----------------------------------------------------------------------------
(* Failures and time *)

\* A reserve that fails gives up what it has leased; a report that fails is
\* not repeated; an extension that fails is tried again a third later.
ReserveFails(w) ==
    /\ faults < MaxFaults /\ faults' = faults + 1
    /\ Durable /\ at[Run(w)] \in {"sweep", "list", "lease"}
    /\ Goto(Run(w), "poll")
    /\ todo' = [todo EXCEPT ![Run(w)] = {}]
    /\ pend' = [pend EXCEPT ![w] = {}] /\ pexp' = [pexp EXCEPT ![w] = 0]
    /\ batch' = [batch EXCEPT ![w] = {}]
    /\ UNCHANGED <<site, store, clients, copy, outcome, extjob, failures, lapsed>>

ReportFails(w) ==
    /\ faults < MaxFaults /\ faults' = faults + 1
    /\ Durable /\ at[Run(w)] \in {"load", "write"}
    /\ Done(w)
    /\ UNCHANGED <<site, store, clients, todo, reserving, extjob, failures, lapsed>>

ExtendFails(w) ==
    /\ faults < MaxFaults /\ faults' = faults + 1
    /\ Durable /\ at[Ext(w)] \in {"sweep", "load", "write"}
    /\ Loop(w)
    /\ todo' = [todo EXCEPT ![Ext(w)] = {}] /\ copy' = [copy EXCEPT ![Ext(w)] = Absent]
    /\ UNCHANGED <<site, store, clients, reserving, batch, outcome, failures, lapsed>>

\* The process dies; the store stays.  A memory queue would go with it.
Crash ==
    /\ faults < MaxFaults /\ faults' = faults + 1
    /\ Durable
    /\ client' = [j \in Job |-> IF client[j] = "write" THEN "done" ELSE client[j]]
    /\ at' = [p \in Proc |-> Start(p)]
    /\ todo' = [p \in Proc |-> {}] /\ copy' = [p \in Proc |-> Absent]
    /\ pend' = [w \in Worker |-> {}] /\ pexp' = [w \in Worker |-> 0]
    /\ batch' = [w \in Worker |-> {}] /\ outcome' = [w \in Worker |-> "none"]
    /\ extjob' = [w \in Worker |-> Absent]
    /\ UNCHANGED <<site, store, key, ans, failures, lapsed>>

Less(n) == IF n = 0 THEN 0 ELSE n - 1
Older(r) == IF r = Absent THEN Absent
            ELSE [r EXCEPT !.exp = Less(@), !.sched = Less(@)]

Tick ==
    /\ rec' = [j \in Job |-> Older(rec[j])]
    /\ copy' = [p \in Proc |-> Older(copy[p])]
    /\ pexp' = [w \in Worker |-> Less(pexp[w])]
    /\ lapsed' = (lapsed \/ \E j \in Job : Expired(rec'[j]))
    /\ UNCHANGED <<site, idem, clients, at, todo, pend, batch, outcome, extjob, failures, faults>>

-----------------------------------------------------------------------------
Reserve(w) ==
    \/ MemoryReserve(w)
    \/ SweepList(Run(w)) \/ SweepWrite(Run(w)) \/ DurableList(w) \/ DurableLease(w)

Process(w) ==
    \/ Take(w) \/ \E o \in {"ok", "error"} : HandlerReturns(w, o)
    \/ Join(w) \/ MemoryReport(w) \/ DurableReportLoad(w) \/ DurableReportWrite(w)

Extend(w) ==
    \/ ExtStop(w) \/ MemoryExtend(w)
    \/ SweepList(Ext(w)) \/ SweepWrite(Ext(w)) \/ DurableExtendLoad(w) \/ DurableExtendWrite(w)

Enqueue(j) ==
    \/ \E k \in Key \cup {Absent} : MemoryEnqueue(j, k) \/ DurableEnqueueRead(j, k)
    \/ DurableEnqueueWrite(j)

Status == MemoryStatus \/ SweepList(Asker) \/ SweepWrite(Asker)

Next ==
    \/ \E j \in site.jobs : Enqueue(j)
    \/ \E w \in site.workers :
        \/ Reserve(w) \/ Process(w) \/ Extend(w)
        \/ ReserveFails(w) \/ ReportFails(w) \/ ExtendFails(w)
    \/ Status \/ Crash \/ Tick

Spec == Init /\ [][Next]_vars

\* Time passes, a worker's run and its extender are scheduled, and a handler
\* returns.
FairSpec ==
    /\ Spec /\ WF_vars(Tick)
    /\ \A w \in Worker :
        /\ WF_vars(w \in site.workers /\ (Reserve(w) \/ Process(w)))
        /\ WF_vars(w \in site.workers /\ Extend(w))

-----------------------------------------------------------------------------
(* Properties *)

OneWorker == Cardinality(site.workers) = 1
IsFinished(j) == rec[j] # Absent /\ rec[j].st \in {"succeeded", "failed", "dead"}

\* enqueue: the id it returns, its own or one found under its key, is the id
\* of a job in the queue, in either backend and across a crash.
AnsweredIsStored ==
    \A j \in Job : ans[j] # Absent => rec[ans[j]] # Absent

\* Job.idempotency_key, in memory: two calls with one key get one id.
OneJobPerKey ==
    Memory => \A i, j \in Job :
        key[i] # Absent /\ key[i] = key[j] /\ client[i] = "done" /\ client[j] = "done"
            => ans[i] = ans[j]

\* nack: whatever workers, sweeps and late reports did to the record, a job
\* is dead only after its handler has failed max_attempts times.
DeadWasTried ==
    \A j \in Job : rec[j] # Absent /\ rec[j].st = "dead" => failures[j] = MaxAttempts

\* reserve, in memory: as long as no lease has run out, a job that one
\* worker still has to report is with no other.
SoleHolder ==
    Memory /\ ~lapsed => \A v, w \in Worker : v # w => batch[v] \cap batch[w] = {}

\* A finished job is not taken up again, with a single worker in either
\* backend, or in memory as long as no lease has run out.
FinishedStays ==
    [][OneWorker \/ (Memory /\ ~lapsed) =>
        \A j \in Job : IsFinished(j) => rec'[j].st = rec[j].st]_vars

\* At-least-once delivery: a stored job is finished in the end, whatever
\* calls fail and wherever the process dies.  (Workers that share a durable
\* queue may undo each other's attempts for ever.)
JobFinishes ==
    \A j \in Job : (rec[j] # Absent /\ (Memory \/ OneWorker)) ~> IsFinished(j)

\* Every job is accounted for: an accepted one is stored, once for its key,
\* and given up only after its attempts.
JobsAccounted == AnsweredIsStored /\ OneJobPerKey /\ DeadWasTried
=============================================================================
