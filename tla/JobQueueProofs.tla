--------------------------- MODULE JobQueueProofs ---------------------------
(***************************************************************************)
(* What holds of the queue for every number of jobs, keys and workers, in  *)
(* memory and in the durable store, for every lease, delay, batch size and *)
(* number of attempts, and whatever fails.                                 *)
(***************************************************************************)
EXTENDS JobQueue, FiniteSetTheorems, WellFoundedInduction, TLAPS

\* A non-empty set of naturals has a least element.
LEMMA LeastNat ==
  ASSUME NEW T, T \subseteq Nat, T # {}
  PROVE  \E n \in T : \A m \in T : n <= m
<1>1. PICK n \in T : \A m \in T : ~ (<<m, n>> \in OpToRel(<, Nat))
  BY NatLessThanWellFounded, WFMin, Zenon
<1>2. \A m \in T : ~(m < n)
  BY <1>1 DEF OpToRel
<1> QED
  BY <1>2

\* The first job of a batch is a job of the batch: ranks are naturals.
LEMMA FirstIn ==
  ASSUME NEW S, S \subseteq Job, S # {}
  PROVE  First(S) \in S
<1>1. {Rank[j] : j \in S} \subseteq Nat /\ {Rank[j] : j \in S} # {}
  BY QueueAssumption
<1>2. PICK n \in {Rank[j] : j \in S} : \A m \in {Rank[j] : j \in S} : n <= m
  BY <1>1, LeastNat
<1>3. \E j \in S : \A i \in S : Rank[j] <= Rank[i]
  BY <1>2
<1> QED
  BY <1>3 DEF First

\* A worker's run, its extender and the asker are processes of their own.
LEMMA ProcFacts ==
  /\ \A w \in Worker : Run(w) \in Proc /\ Ext(w) \in Proc /\ Run(w) # Asker /\ Ext(w) # Asker
  /\ Asker \in Proc
  /\ \A v, w \in Worker : /\ Run(v) = Run(w) <=> v = w
                          /\ Ext(v) = Ext(w) <=> v = w
                          /\ Run(v) # Ext(w)
  /\ \A p \in Proc : p = Asker \/ \E w \in Worker : p = Run(w) \/ p = Ext(w)
  /\ \A w \in Worker : Run(w)[2] = "run" /\ Ext(w)[2] = "ext" /\ Ext(w)[1] = w
  /\ Asker[2] = "status"
BY DEF Run, Ext, Asker, Proc

\* A record keeps its type when its fields are given values of theirs.
LEMMA FieldsSet ==
  ASSUME NEW S, NEW E, NEW A, NEW D, NEW r \in [st : S, exp : E, attempt : A, sched : D],
         NEW s \in S, NEW e \in E, NEW a \in A, NEW d \in D
  PROVE  /\ [r EXCEPT !.st = s, !.exp = e] \in [st : S, exp : E, attempt : A, sched : D]
         /\ [r EXCEPT !.exp = e, !.sched = d] \in [st : S, exp : E, attempt : A, sched : D]
         /\ [r EXCEPT !.attempt = a] \in [st : S, exp : E, attempt : A, sched : D]
         /\ [r EXCEPT !.st = s, !.exp = e, !.attempt = a, !.sched = d]
              \in [st : S, exp : E, attempt : A, sched : D]
OBVIOUS

\* The same for the records of the queue.
LEMMA RecordSet ==
  ASSUME NEW r \in Record, NEW s \in {"queued", "leased", "succeeded", "failed", "dead"},
         NEW e \in 0..site.lease, NEW a \in 0..MaxAttempts - 1, NEW d \in 0..Delay
  PROVE  /\ [r EXCEPT !.st = s, !.exp = e] \in Record
         /\ [r EXCEPT !.exp = e, !.sched = d] \in Record
         /\ [r EXCEPT !.attempt = a] \in Record
         /\ [r EXCEPT !.st = s, !.exp = e, !.attempt = a, !.sched = d] \in Record
BY FieldsSet, Zenon DEF Record

\* What the operations of the queue make of a record is a record: its state
\* is the operation's, and its attempts are those it had.
LEMMA RecordOps ==
  ASSUME site \in Sites
  PROVE  /\ Absent \notin Record /\ Fresh \in Record /\ Older(Absent) = Absent
         /\ Fresh.st = "queued" /\ Fresh.attempt = 0
         /\ \A r \in Record :
             /\ Requeued(r) \in Record /\ Requeued(r).st = "queued"
             /\ Requeued(r).attempt = r.attempt
             /\ Older(r) \in Record /\ Older(r).st = r.st /\ Older(r).attempt = r.attempt
         /\ \A r \in Record, e \in 0..site.lease :
             /\ Leased(r, e) \in Record /\ Leased(r, e).st = "leased"
             /\ Leased(r, e).exp = e /\ Leased(r, e).attempt = r.attempt
<1>1. /\ site.lease \in Nat /\ site.lease >= 1 /\ MaxAttempts \in Nat /\ MaxAttempts >= 1
      /\ Delay \in Nat
  BY QueueAssumption
<1>2. /\ 0 \in 0..site.lease /\ 0 \in 0..MaxAttempts - 1 /\ 0 \in 0..Delay
  BY <1>1
<1>3. Absent \notin Record
  <2>1. Record \subseteq [st : {"queued", "leased", "succeeded", "failed", "dead"},
                          exp : Nat, attempt : Nat, sched : Nat]
    BY <1>1 DEF Record
  <2> QED
    BY <2>1, QueueAssumption
<1>4. Fresh \in Record /\ Fresh.st = "queued" /\ Fresh.attempt = 0
  BY <1>1 DEF Fresh, Record
<1>5. ASSUME NEW r \in Record
      PROVE  /\ Requeued(r) \in Record /\ Requeued(r).st = "queued"
             /\ Requeued(r).attempt = r.attempt
  <2>1. Requeued(r) \in Record
    BY <1>2, <1>5, RecordSet DEF Requeued
  <2> QED
    BY <1>1, <1>5, <2>1 DEF Requeued, Record
<1>6. ASSUME NEW r \in Record, NEW e \in 0..site.lease
      PROVE  /\ Leased(r, e) \in Record /\ Leased(r, e).st = "leased"
             /\ Leased(r, e).exp = e /\ Leased(r, e).attempt = r.attempt
  <2>1. Leased(r, e) \in Record
    BY <1>2, <1>6, RecordSet DEF Leased
  <2> QED
    BY <1>1, <1>6, <2>1 DEF Leased, Record
<1>7. ASSUME NEW r \in Record
      PROVE  Older(r) \in Record /\ Older(r).st = r.st /\ Older(r).attempt = r.attempt
  <2>1. Less(r.exp) \in 0..site.lease /\ Less(r.sched) \in 0..Delay
    BY <1>1, <1>7 DEF Record, Less
  <2>2. Older(r) = [r EXCEPT !.exp = Less(r.exp), !.sched = Less(r.sched)]
    BY <1>3, <1>7 DEF Older
  <2>3. [r EXCEPT !.exp = Less(r.exp), !.sched = Less(r.sched)] \in Record
    BY <1>2, <1>7, <2>1, RecordSet
  <2> QED
    BY <1>7, <2>2, <2>3 DEF Record
<1>8. Older(Absent) = Absent
  BY DEF Older
<1> QED
  BY <1>3, <1>4, <1>5, <1>6, <1>7, <1>8

\* A candidate that is leased is a record with the attempts it was listed
\* with.
LEMMA CandidateOps ==
  ASSUME site \in Sites, NEW a \in 0..MaxAttempts - 1, NEW e \in 0..site.lease
  PROVE  /\ Leased([Fresh EXCEPT !.attempt = a], e) \in Record
         /\ Leased([Fresh EXCEPT !.attempt = a], e).st = "leased"
         /\ Leased([Fresh EXCEPT !.attempt = a], e).attempt = a
<1>1. Fresh \in Record /\ 0 \in 0..Delay
  BY RecordOps, QueueAssumption
<1>2. [Fresh EXCEPT !.attempt = a] \in Record
  BY <1>1, RecordSet
<1>3. [Fresh EXCEPT !.attempt = a].attempt = a
  BY DEF Fresh
<1> QED
  BY <1>2, <1>3, RecordOps

\* A report finishes a record or, after a failure that leaves attempts,
\* requeues it with one attempt more.
LEMMA ReportOps ==
  ASSUME site \in Sites, NEW r \in Record, NEW o \in Outcomes \ {"none"}
  PROVE  /\ Reported(r, o) \in Record
         /\ Reported(r, o).st # "leased"
         /\ Reported(r, o).attempt = r.attempt \/
            (o = "error" /\ Reported(r, o).attempt = r.attempt + 1)
         /\ Reported(r, o).st = "dead" => o = "error" /\ r.attempt = MaxAttempts - 1
<1>1. /\ site.lease \in Nat /\ MaxAttempts \in Nat /\ MaxAttempts >= 1 /\ Delay \in Nat
      /\ r.attempt \in 0..MaxAttempts - 1
  BY QueueAssumption DEF Record
<1>2. 0 \in 0..site.lease /\ 0 \in 0..MaxAttempts - 1 /\ Delay \in 0..Delay
  BY <1>1
<1>3. ASSUME NEW s \in {"succeeded", "failed", "dead"}
      PROVE  Finished(r, s) \in Record /\ Finished(r, s).st = s /\ Finished(r, s).attempt = r.attempt
  <2>1. Finished(r, s) \in Record
    BY <1>2, <1>3, RecordSet DEF Finished
  <2> QED
    BY <1>3, <2>1 DEF Finished, Record
<1>4. ASSUME o = "error", ~(r.attempt + 1 >= MaxAttempts)
      PROVE  /\ Nacked(r) \in Record /\ Nacked(r).st = "queued"
             /\ Nacked(r).attempt = r.attempt + 1
  <2>1. r.attempt + 1 \in 0..MaxAttempts - 1
    BY <1>1, <1>4
  <2>2. Nacked(r) = [r EXCEPT !.st = "queued", !.exp = 0, !.attempt = r.attempt + 1, !.sched = Delay]
    BY <1>4 DEF Nacked
  <2>3. [r EXCEPT !.st = "queued", !.exp = 0, !.attempt = r.attempt + 1, !.sched = Delay] \in Record
    BY <1>2, <2>1, RecordSet
  <2>4. Nacked(r).st = "queued"
    BY <2>2 DEF Record
  <2>5. Nacked(r).attempt = r.attempt + 1
    BY <1>1, <2>2 DEF Record
  <2> QED
    BY <2>2, <2>3, <2>4, <2>5
<1>5. CASE o \in {"ok", "unhandled"}
  BY <1>3, <1>5 DEF Reported
<1>6. CASE o = "error" /\ r.attempt + 1 >= MaxAttempts
  BY <1>1, <1>3, <1>6 DEF Reported, Nacked
<1>7. CASE o = "error" /\ ~(r.attempt + 1 >= MaxAttempts)
  BY <1>4, <1>7 DEF Reported
<1> QED
  BY <1>5, <1>6, <1>7 DEF Outcomes

\* Where the run of a worker, its extender and a status call can be.
RunPcs == {"poll", "sweep", "list", "lease", "take", "handle", "join", "load", "write"}
ExtPcs == {"off", "sleep", "sweep", "load", "write"}

\* The processes that there are at this site.
SiteProc == (site.workers \X {"run", "ext"}) \cup {Asker}

\* What each process has in hand where it is: a run its batch and an
\* outcome, an extender its job, a writer the record to write.
Stages ==
    /\ \A w \in Worker :
        /\ at[Run(w)] \in RunPcs /\ at[Ext(w)] \in ExtPcs
        /\ at[Run(w)] \in {"handle", "join", "load", "write"} => batch[w] # {}
        /\ at[Run(w)] \in {"poll", "sweep", "list"} => batch[w] = {}
        /\ at[Run(w)] = "lease" <=> pend[w] # {}
        /\ outcome[w] # "none" <=> at[Run(w)] \in {"join", "load", "write"}
        /\ at[Run(w)] = "write" <=> copy[Run(w)] # Absent
        /\ at[Ext(w)] = "write" <=> copy[Ext(w)] # Absent
        /\ copy[Ext(w)] # Absent => copy[Ext(w)].st = "leased"
        /\ at[Ext(w)] = "off" <=> extjob[w] = Absent
        /\ at[Run(w)] \notin {"handle", "join"} => at[Ext(w)] = "off"
        /\ at[Ext(w)] # "off" => extjob[w] = Current(w)
    /\ at[Asker] \in {"idle", "sweep"}
    /\ Memory => /\ \A j \in Job : client[j] # "write"
                 /\ \A p \in Proc : at[p] \notin {"sweep", "list", "lease", "write"}
                 /\ \A w \in Worker : at[Ext(w)] # "load"

\* A job that somebody names is in the queue: nothing deletes a record.
Named ==
    /\ \A k \in Key : idem[k] # Absent => rec[idem[k]] # Absent
    /\ AnsweredIsStored
    /\ \A w \in Worker :
        /\ \A j \in batch[w] : rec[j] # Absent
        /\ \A c \in pend[w] : rec[c.job] # Absent
    /\ \A p \in Proc : \A j \in todo[p] : rec[j] # Absent

\* In memory, the index has the answer to every call that gave a key.
Indexed ==
    /\ \A j \in Job : client[j] # "done" => rec[j] = Absent
    /\ Memory => \A j \in Job : client[j] = "done" /\ key[j] # Absent =>
        ans[j] # Absent /\ idem[key[j]] = ans[j]

\* The workers whose handler failed at job j and who have not yet counted it.
Owed(j) == {w \in Worker : /\ outcome[w] = "error" /\ at[Run(w)] \in {"join", "load"}
                           /\ Current(w) = j}

\* The attempt counts of each job that its failures account for, with those
\* still owed.
Covered ==
    [j \in Job |-> {a \in 0..MaxAttempts :
        failures[j] = MaxAttempts \/ a + Cardinality(Owed(j)) <= failures[j]}]
Counted(j, r) == r.attempt \in Covered[j] /\ (r.st = "dead" => failures[j] = MaxAttempts)

\* No record, candidate or copy is ahead of the failures of its job.
RecordsCounted == \A j \in Job : 0 \in Covered[j] /\ (rec[j] # Absent => Counted(j, rec[j]))
ListedCounted == \A w \in Worker : \A c \in pend[w] : c.attempt \in Covered[c.job]
CopiesCounted ==
    \A w \in Worker : /\ copy[Run(w)] # Absent => Counted(Current(w), copy[Run(w)])
                      /\ copy[Ext(w)] # Absent => Counted(extjob[w], copy[Ext(w)])
AttemptsCounted == RecordsCounted /\ ListedCounted /\ CopiesCounted

\* In memory and before any lease has run out, a batch holds leases.
LeasesHeld ==
    Memory /\ ~lapsed =>
        /\ \A j \in Job : ~Expired(rec[j])
        /\ \A w \in Worker : \A j \in batch[w] : rec[j].st = "leased"
        /\ SoleHolder

\* A worker that is not of the site has nothing in hand.
OutsideIdle ==
    \A w \in Worker \ site.workers : batch[w] = {} /\ at[Run(w)] = "poll" /\ at[Ext(w)] = "off"

\* A worker that has its queue alone holds and lists what is unfinished.
AloneUnfinished ==
    OneWorker => \A w \in site.workers :
        /\ \A j \in batch[w] : ~IsFinished(j)
        /\ \A c \in pend[w] : ~IsFinished(c.job)

QueueInv ==
    /\ TypeOK /\ Stages /\ Named /\ Indexed
    /\ AttemptsCounted /\ LeasesHeld /\ OutsideIdle /\ AloneUnfinished

\* A step keeps every record of the queue, and the type of all of them; a
\* new one is that of an enqueue, which is then done.
Kept ==
    /\ rec' \in [Job -> Record \cup {Absent}]
    /\ \A j \in Job : rec[j] # Absent => rec'[j] # Absent
    /\ \A j \in Job : rec[j] = Absent /\ rec'[j] # Absent => client'[j] = "done"

\* How the state of a record can change: by a sweep, by a reserve, by an
\* extension that was under way, or by the report of a worker that has it.
Moved(j) ==
    \/ rec'[j].st = rec[j].st
    \/ rec[j].st = "leased" /\ rec'[j].st = "queued" /\ (Memory => Expired(rec[j]))
    \/ /\ rec'[j].st = "leased"
       /\ Memory => rec[j].st = "queued" \/ Expired(rec[j])
       /\ Durable => \E w \in site.workers : \/ \E c \in pend[w] : c.job = j
                                             \/ at[Ext(w)] = "write" /\ j = Current(w)
    \/ \E w \in site.workers :
        at[Run(w)] \in {"load", "write"} /\ j = Current(w) /\ batch'[w] = batch[w] \ {j}

Moves ==
    \A j \in Job : /\ rec[j] # Absent => Moved(j)
                   /\ Memory /\ Expired(rec'[j]) => Expired(rec[j]) \/ lapsed'

\* What a worker can get in hand: jobs it leases, and candidates that wait.
Hands ==
    \A w \in Worker :
        /\ \A j \in batch'[w] \ batch[w] :
            /\ rec'[j].st = "leased"
            /\ Memory => /\ rec[j].st = "queued" \/ Expired(rec[j])
                         /\ \A v \in Worker \ {w} : batch'[v] = batch[v]
        /\ \A c \in pend'[w] \ pend[w] : /\ rec'[c.job] = rec[c.job] /\ rec[c.job].st = "queued"
                                         /\ rec[c.job] # Absent /\ c.attempt = rec[c.job].attempt

\* The counters keep their bounds, and a lease that ran out did.
Meters ==
    /\ failures' \in [Job -> 0..MaxAttempts] /\ lapsed' \in BOOLEAN /\ faults' \in 0..MaxFaults
    /\ lapsed => lapsed'

\* A worker that comes to owe a failure of job j adds it to the failures.
OwedKept ==
    \A j \in Job :
        \/ failures'[j] = failures[j] /\ Owed(j)' \subseteq Owed(j)
        \/ failures'[j] = MaxAttempts
        \/ failures'[j] = failures[j] + 1 /\ \E w \in Worker : Owed(j)' \subseteq Owed(j) \cup {w}

\* What a worker has to write: what it had, aged by the clock at most, or
\* what it makes of the record that it reads in this step.
Aged(p) == /\ copy[p] # Absent
           /\ copy'[p].attempt = copy[p].attempt /\ copy'[p].st = copy[p].st
Copied ==
    \A w \in Worker :
        /\ copy'[Run(w)] # Absent =>
            /\ batch'[w] = batch[w]
            /\ \/ Aged(Run(w))
               \/ /\ at[Run(w)] = "load" /\ at'[Run(w)] = "write" /\ failures' = failures
                  /\ copy'[Run(w)] = Reported(rec[Current(w)], outcome[w])
        /\ copy'[Ext(w)] # Absent =>
            /\ extjob'[w] = extjob[w]
            /\ \/ Aged(Ext(w))
               \/ /\ at[Ext(w)] = "load" /\ copy'[Ext(w)].st = "leased"
                  /\ copy'[Ext(w)].attempt = rec[extjob[w]].attempt


\* What every step of the argument uses of types, constants and processes.
LEMMA QueueFacts ==
  ASSUME QueueInv
  PROVE  /\ TypeOK /\ site \in Sites /\ site.workers \subseteq Worker /\ site.jobs \subseteq Job
         /\ site.lease \in Nat /\ site.lease >= 1 /\ site.lease \in 0..site.lease /\ 0 \in 0..site.lease
         /\ Memory <=> ~Durable
         /\ MaxAttempts \in Nat /\ MaxAttempts >= 1 /\ MaxFaults \in Nat
         /\ Absent \notin Job /\ Absent \notin Key /\ Absent \notin Worker /\ Absent \notin Record
         /\ \A w \in Worker : batch[w] # {} => Current(w) \in batch[w] /\ Current(w) \in Job
         /\ \A w \in Worker : Run(w) \in Proc /\ Ext(w) \in Proc
         /\ Asker \in Proc /\ Asker \in SiteProc /\ SiteProc \subseteq Proc
         /\ \A w \in site.workers : Run(w) \in SiteProc /\ Ext(w) \in SiteProc
         /\ \A p \in SiteProc : p = Asker \/ \E w \in site.workers : p = Run(w) \/ p = Ext(w)
<1>1. TypeOK /\ site \in Sites
  BY DEF QueueInv, TypeOK
<1>2. /\ site.workers \subseteq Worker /\ site.jobs \subseteq Job
      /\ site.lease \in Nat /\ site.lease >= 1
      /\ MaxAttempts \in Nat /\ MaxAttempts >= 1 /\ MaxFaults \in Nat
      /\ Absent \notin Job /\ Absent \notin Key /\ Absent \notin Worker
  BY <1>1, QueueAssumption
<1>3. Memory <=> ~Durable
  BY <1>1, QueueAssumption DEF Memory, Durable
<1>4. \A w \in Worker : batch[w] # {} => Current(w) \in batch[w] /\ Current(w) \in Job
  BY <1>1, FirstIn DEF TypeOK, QueueTypeOK, Current
<1>5. site.lease \in 0..site.lease /\ 0 \in 0..site.lease
  BY <1>2
<1>6. /\ Asker \in SiteProc /\ SiteProc \subseteq Proc
      /\ \A w \in site.workers : Run(w) \in SiteProc /\ Ext(w) \in SiteProc
      /\ \A p \in SiteProc : p = Asker \/ \E w \in site.workers : p = Run(w) \/ p = Ext(w)
  BY <1>2 DEF SiteProc, Proc, Run, Ext
<1> QED
  BY <1>1, <1>2, <1>3, <1>4, <1>5, <1>6, RecordOps, ProcFacts

\* No step changes which site this is.
LEMMA SiteFixed ==
  ASSUME [Next]_vars
  PROVE  site' = site /\ Record' = Record /\ (Memory' <=> Memory) /\ (OneWorker' <=> OneWorker)
<1>1. site' = site
  BY ZenonT(60) DEF Next, vars, Enqueue, Reserve, Process, Extend, Status,
     MemoryEnqueue, DurableEnqueueRead, DurableEnqueueWrite, SweepList, SweepWrite,
     MemoryStatus, MemoryReserve, DurableList, DurableLease, Take, HandlerReturns, Join,
     MemoryReport, DurableReportLoad, DurableReportWrite, ExtStop, MemoryExtend,
     DurableExtendLoad, DurableExtendWrite, ReserveFails, ReportFails, ExtendFails, Crash,
     Tick
<1> QED
  BY <1>1 DEF Record, Memory, OneWorker

\* A sweep in memory requeues expired leases and leaves the rest as it is.
LEMMA SweptFacts ==
  ASSUME QueueInv
  PROVE  /\ Swept \in [Job -> Record \cup {Absent}]
         /\ \A j \in Job :
             /\ Swept[j] = Absent <=> rec[j] = Absent
             /\ ~Expired(rec[j]) => Swept[j] = rec[j]
             /\ rec[j] # Absent => /\ Swept[j].attempt = rec[j].attempt
                                   /\ Swept[j].st = rec[j].st \/ (Expired(rec[j]) /\ Swept[j].st = "queued")
<1>1. TypeOK /\ site \in Sites /\ rec \in [Job -> Record \cup {Absent}]
  BY DEF QueueInv, TypeOK, QueueTypeOK
<1>2. ASSUME NEW j \in Job
      PROVE  /\ Swept[j] \in Record \cup {Absent}
             /\ Swept[j] = Absent <=> rec[j] = Absent
             /\ ~Expired(rec[j]) => Swept[j] = rec[j]
             /\ rec[j] # Absent => /\ Swept[j].attempt = rec[j].attempt
                                   /\ Swept[j].st = rec[j].st \/ (Expired(rec[j]) /\ Swept[j].st = "queued")
  <2>1. Swept[j] = IF Expired(rec[j]) THEN Requeued(rec[j]) ELSE rec[j]
    BY <1>2 DEF Swept
  <2>2. Expired(rec[j]) => rec[j] \in Record
    BY <1>1, <1>2 DEF Expired
  <2> QED
    BY <1>1, <1>2, <2>1, <2>2, RecordOps
<1> QED
  BY <1>2 DEF Swept

\* A lease for the site's whole time is a record that has not expired.
LEMMA FullLease ==
  ASSUME QueueInv, NEW r \in Record
  PROVE  /\ Leased(r, site.lease) \in Record /\ Leased(r, site.lease) # Absent
         /\ Leased(r, site.lease).st = "leased" /\ Leased(r, site.lease).attempt = r.attempt
         /\ ~Expired(Leased(r, site.lease))
<1>1. /\ site \in Sites /\ site.lease \in 0..site.lease /\ site.lease # 0
      /\ Absent \notin Record
  BY QueueFacts
<1> QED
  BY <1>1, RecordOps DEF Expired

\* reserve takes its jobs from those that are due.
LEMMA FrontIn == \A S : Front(S) \subseteq S
BY DEF Front

\* DurableList takes jobs that are due, each with its attempts of now.
LEMMA ListStep ==
  ASSUME QueueInv, NEW w \in Worker, DurableList(w)
  PROVE  /\ at[Run(w)] = "list"
         /\ \A c \in pend'[w] : /\ c.job \in Job /\ rec[c.job] # Absent /\ rec[c.job].st = "queued"
                                /\ c.attempt = rec[c.job].attempt
         /\ pend' = [pend EXCEPT ![w] = pend'[w]]
         /\ pend'[w] \subseteq [job : Job, attempt : 0..MaxAttempts - 1]
         /\ pexp' = [pexp EXCEPT ![w] = pexp'[w]] /\ pexp'[w] \in 0..site.lease
         /\ at' = [at EXCEPT ![Run(w)] = IF pend'[w] = {} THEN "poll" ELSE "lease"]
         /\ UNCHANGED <<site, store, clients, todo, copy, batch, outcome, extjob, failures, lapsed, faults>>
<1> DEFINE got == Front({j \in Job : Due(j)})
<1>1. \A j \in got : j \in Job /\ rec[j] # Absent /\ rec[j].st = "queued"
  BY FrontIn DEF Due
<1>2. \A j \in got : rec[j] \in Record /\ rec[j].attempt \in 0..MaxAttempts - 1
  BY <1>1, QueueFacts DEF TypeOK, QueueTypeOK, Record
<1>3. /\ at[Run(w)] = "list"
      /\ pend' = [pend EXCEPT ![w] = {[job |-> j, attempt |-> rec[j].attempt] : j \in got}]
      /\ pexp' = [pexp EXCEPT ![w] = IF got = {} THEN 0 ELSE site.lease]
      /\ at' = [at EXCEPT ![Run(w)] = IF got = {} THEN "poll" ELSE "lease"]
      /\ UNCHANGED <<site, store, clients, todo, copy, batch, outcome, extjob, failures, lapsed, faults>>
  BY DEF DurableList, Goto
<1> HIDE DEF got
<1>4. pend'[w] = {[job |-> j, attempt |-> rec[j].attempt] : j \in got}
  BY <1>3, QueueFacts DEF TypeOK, QueueTypeOK
<1>5. pexp'[w] = IF got = {} THEN 0 ELSE site.lease
  BY <1>3, QueueFacts DEF TypeOK, QueueTypeOK
<1>6. pend'[w] = {} <=> got = {}
  BY <1>4
<1>7. \A c \in pend'[w] : /\ c.job \in Job /\ rec[c.job] # Absent /\ rec[c.job].st = "queued"
                          /\ c.attempt = rec[c.job].attempt
                          /\ c \in [job : Job, attempt : 0..MaxAttempts - 1]
  BY <1>1, <1>2, <1>4
<1> QED
  BY <1>3, <1>4, <1>5, <1>6, <1>7, QueueFacts

\* DurableLease writes the candidate c back as leased.
LeasesOne(w, c) ==
    /\ at[Run(w)] = "lease"
    /\ c.job \in Job /\ c.attempt \in 0..MaxAttempts - 1 /\ pexp[w] \in 0..site.lease
    /\ rec' = [rec EXCEPT ![c.job] = Leased([Fresh EXCEPT !.attempt = c.attempt], pexp[w])]
    /\ batch' = [batch EXCEPT ![w] = @ \cup {c.job}]
    /\ pend' = [pend EXCEPT ![w] = @ \ {c}]
    /\ pexp' = [pexp EXCEPT ![w] = IF pend'[w] = {} THEN 0 ELSE @]
    /\ at' = [at EXCEPT ![Run(w)] = IF pend'[w] = {} THEN "take" ELSE "lease"]
    /\ UNCHANGED <<site, idem, clients, todo, copy, outcome, extjob, failures, lapsed, faults>>

\* The candidate that a lease takes is one of those still to be leased.
LEMMA LeaseStep ==
  ASSUME QueueInv, NEW w \in Worker, DurableLease(w)
  PROVE  \E c \in pend[w] : LeasesOne(w, c)
<1> DEFINE jobs == {d.job : d \in pend[w]}
           j == First(jobs)
           e == CHOOSE d \in pend[w] : d.job = j
<1>1. pend[w] \subseteq [job : Job, attempt : 0..MaxAttempts - 1] /\ pend[w] # {}
  BY QueueFacts DEF TypeOK, QueueTypeOK, DurableLease, QueueInv, Stages
<1>2. jobs \subseteq Job /\ jobs # {}
  BY <1>1
<1>3. j \in jobs
  BY <1>2, FirstIn
<1>4. e \in pend[w] /\ e.job = j
  BY <1>3
<1>5. /\ at[Run(w)] = "lease"
      /\ rec' = [rec EXCEPT ![j] = Leased([Fresh EXCEPT !.attempt = e.attempt], pexp[w])]
      /\ batch' = [batch EXCEPT ![w] = @ \cup {j}]
      /\ pend' = [pend EXCEPT ![w] = @ \ {e}]
      /\ pexp' = [pexp EXCEPT ![w] = IF pend'[w] = {} THEN 0 ELSE @]
      /\ at' = [at EXCEPT ![Run(w)] = IF pend'[w] = {} THEN "take" ELSE "lease"]
      /\ UNCHANGED <<site, idem, clients, todo, copy, outcome, extjob, failures, lapsed, faults>>
  BY DEF DurableLease, Goto
<1> HIDE DEF e, j
<1>6. e.job \in Job /\ e.attempt \in 0..MaxAttempts - 1 /\ pexp[w] \in 0..site.lease
  BY <1>1, <1>4, QueueFacts DEF TypeOK, QueueTypeOK
<1> QED
  BY <1>4, <1>5, <1>6 DEF LeasesOne

\* Where a process is, it has what that stage needs.
LEMMA StagesStep ==
  ASSUME QueueInv, [Next]_vars
  PROVE  Stages'
<1>i. Stages /\ Named
  BY DEF QueueInv
<1> USE DEF TypeOK, QueueTypeOK, Stages, RunPcs, ExtPcs, Current, store, clients, reserving
<1>1. ASSUME NEW j \in site.jobs, NEW k \in Key \cup {Absent}, MemoryEnqueue(j, k) PROVE
      Stages'
  BY QueueFacts, SiteFixed, ProcFacts, <1>i, <1>1 DEF MemoryEnqueue, Insert
<1>2. ASSUME NEW j \in site.jobs, NEW k \in Key \cup {Absent}, DurableEnqueueRead(j, k)
      PROVE Stages'
  BY QueueFacts, SiteFixed, ProcFacts, <1>i, <1>2 DEF DurableEnqueueRead
<1>3. ASSUME NEW j \in site.jobs, DurableEnqueueWrite(j) PROVE Stages'
  BY QueueFacts, SiteFixed, ProcFacts, <1>i, <1>3 DEF DurableEnqueueWrite, Insert
<1>4. ASSUME NEW p \in SiteProc, SweepList(p) PROVE Stages'
  BY QueueFacts, SiteFixed, ProcFacts, <1>i, <1>4 DEF SweepList, Goto, MaySweep, AfterSweep
<1>5. ASSUME NEW p \in SiteProc, SweepWrite(p) PROVE Stages'
  BY QueueFacts, SiteFixed, ProcFacts, <1>i, <1>5 DEF SweepWrite, Goto, AfterSweep
<1>6. CASE MemoryStatus
  BY QueueFacts, SiteFixed, ProcFacts, <1>i, <1>6 DEF MemoryStatus
<1>7. ASSUME NEW w \in site.workers, MemoryReserve(w) PROVE Stages'
  BY QueueFacts, SiteFixed, ProcFacts, <1>i, <1>7 DEF MemoryReserve, Goto
<1>8. ASSUME NEW w \in site.workers, DurableList(w) PROVE Stages'
  BY QueueFacts, SiteFixed, ProcFacts, <1>i, <1>8, ListStep
<1>9. ASSUME NEW w \in site.workers, DurableLease(w) PROVE Stages'
  <2>1. PICK c \in pend[w] : LeasesOne(w, c)
    BY QueueFacts, <1>9, LeaseStep
  <2> QED
    BY QueueFacts, SiteFixed, ProcFacts, <1>i, <2>1 DEF LeasesOne
<1>10. ASSUME NEW w \in site.workers, Take(w) PROVE Stages'
  <2>1. CASE batch[w] = {}
    BY QueueFacts, SiteFixed, ProcFacts, <1>i, <1>10, <2>1 DEF Take, Goto
  <2>2. CASE batch[w] # {} /\ Current(w) \in site.unhandled
    <3>1. /\ at[Run(w)] = "take" /\ at' = [at EXCEPT ![Run(w)] = "load"]
          /\ outcome' = [outcome EXCEPT ![w] = "unhandled"]
          /\ UNCHANGED <<clients, copy, pend, batch, extjob>>
      BY <1>10, <2>2 DEF Take, Goto
    <3> QED
      BY QueueFacts, SiteFixed, ProcFacts, <1>i, <2>2, <3>1
  <2>3. CASE batch[w] # {} /\ Current(w) \notin site.unhandled
    <3>1. /\ at[Run(w)] = "take"
          /\ at' = [at EXCEPT ![Run(w)] = "handle", ![Ext(w)] = "sleep"]
          /\ extjob' = [extjob EXCEPT ![w] = Current(w)]
          /\ UNCHANGED <<clients, copy, pend, batch, outcome>>
      BY <1>10, <2>3 DEF Take, Goto
    <3> QED
      BY QueueFacts, SiteFixed, ProcFacts, <1>i, <2>3, <3>1
  <2> QED
    BY <2>1, <2>2, <2>3
<1>11. ASSUME NEW w \in site.workers, NEW o \in {"ok", "error"}, HandlerReturns(w, o)
      PROVE Stages'
  BY QueueFacts, SiteFixed, ProcFacts, <1>i, <1>11 DEF HandlerReturns, Goto
<1>12. ASSUME NEW w \in site.workers, Join(w) PROVE Stages'
  BY QueueFacts, SiteFixed, ProcFacts, <1>i, <1>12 DEF Join, Goto
<1>13. ASSUME NEW w \in site.workers, MemoryReport(w) PROVE Stages'
  BY QueueFacts, SiteFixed, ProcFacts, <1>i, <1>13 DEF MemoryReport, Done, Goto
<1>14. ASSUME NEW w \in site.workers, DurableReportLoad(w) PROVE Stages'
  <2>1. rec[Current(w)] \in Record /\ outcome[w] \in Outcomes \ {"none"}
    BY QueueFacts, SiteFixed, ProcFacts, <1>i, <1>14 DEF Named, DurableReportLoad
  <2>2. Reported(rec[Current(w)], outcome[w]) # Absent
    BY QueueFacts, <2>1, ReportOps
  <2> QED
    BY QueueFacts, SiteFixed, ProcFacts, <1>i, <1>14, <2>2 DEF DurableReportLoad, Goto
<1>15. ASSUME NEW w \in site.workers, DurableReportWrite(w) PROVE Stages'
  BY QueueFacts, SiteFixed, ProcFacts, <1>i, <1>15 DEF DurableReportWrite, Done, Goto
<1>16. ASSUME NEW w \in site.workers, ExtStop(w) PROVE Stages'
  BY QueueFacts, SiteFixed, ProcFacts, <1>i, <1>16 DEF ExtStop, Loop, Cancelled, Goto
<1>17. ASSUME NEW w \in site.workers, MemoryExtend(w) PROVE Stages'
  BY QueueFacts, SiteFixed, ProcFacts, <1>i, <1>17 DEF MemoryExtend, Cancelled
<1>18. ASSUME NEW w \in site.workers, DurableExtendLoad(w) PROVE Stages'
  <2>1. rec[extjob[w]] \in Record
    BY QueueFacts, SiteFixed, ProcFacts, <1>i, <1>18 DEF Named, DurableExtendLoad
  <2>2. /\ Leased(rec[extjob[w]], site.lease) # Absent
        /\ Leased(rec[extjob[w]], site.lease).st = "leased"
    BY <2>1, FullLease
  <2> QED
    BY QueueFacts, SiteFixed, ProcFacts, <1>i, <1>18, <2>2 DEF DurableExtendLoad, Loop,
       Cancelled, Goto
<1>19. ASSUME NEW w \in site.workers, DurableExtendWrite(w) PROVE Stages'
  BY QueueFacts, SiteFixed, ProcFacts, <1>i, <1>19 DEF DurableExtendWrite, Loop, Cancelled,
     Goto
<1>20. ASSUME NEW w \in site.workers, ReserveFails(w) PROVE Stages'
  BY QueueFacts, SiteFixed, ProcFacts, <1>i, <1>20 DEF ReserveFails, Goto
<1>21. ASSUME NEW w \in site.workers, ReportFails(w) PROVE Stages'
  BY QueueFacts, SiteFixed, ProcFacts, <1>i, <1>21 DEF ReportFails, Done, Goto
<1>22. ASSUME NEW w \in site.workers, ExtendFails(w) PROVE Stages'
  BY QueueFacts, SiteFixed, ProcFacts, <1>i, <1>22 DEF ExtendFails, Loop, Cancelled, Goto
<1>23. CASE Crash
  BY QueueFacts, SiteFixed, ProcFacts, <1>i, <1>23 DEF Crash, Start
<1>24. CASE Tick
  <2>1. \A p \in Proc : /\ Older(copy[p]) = Absent <=> copy[p] = Absent
                        /\ copy[p] # Absent => Older(copy[p]).st = copy[p].st
    BY QueueFacts, RecordOps
  <2> QED
    <3>1. /\ copy' = [p \in Proc |-> Older(copy[p])]
          /\ UNCHANGED <<clients, at, pend, batch, outcome, extjob>>
      BY <1>24 DEF Tick
    <3>2. \A p \in Proc : /\ copy'[p] = Absent <=> copy[p] = Absent
                          /\ copy[p] # Absent => copy'[p].st = copy[p].st
      BY <2>1, <3>1
    <3>3. \A w \in Worker : /\ Run(w) \in Proc /\ Ext(w) \in Proc
                            /\ copy[Ext(w)] # Absent => copy[Ext(w)].st = "leased"
      BY QueueFacts, <1>i
    <3>4. \A w \in Worker : /\ copy'[Run(w)] = Absent <=> copy[Run(w)] = Absent
                            /\ copy'[Ext(w)] = Absent <=> copy[Ext(w)] = Absent
                            /\ copy'[Ext(w)] # Absent => copy'[Ext(w)].st = "leased"
      BY <3>2, <3>3
    <3> HIDE DEF TypeOK, QueueTypeOK, RunPcs, ExtPcs
    <3> QED
      BY SiteFixed, <1>i, <3>1, <3>4
<1>25. CASE UNCHANGED vars
  BY QueueFacts, SiteFixed, ProcFacts, <1>i, <1>25 DEF vars
<1> QED
  BY QueueFacts, <1>1, <1>2, <1>3, <1>4, <1>5, <1>6, <1>7, <1>8, <1>9, <1>10, <1>11, <1>12,
     <1>13, <1>14, <1>15, <1>16, <1>17, <1>18, <1>19, <1>20, <1>21, <1>22, <1>23, <1>24, <1>25
     DEF Next, Enqueue, Reserve, Process, Extend, Status

\* No operation deletes a record, and every write of one is typed.
LEMMA KeptStep ==
  ASSUME QueueInv, [Next]_vars
  PROVE  Kept
<1>i. Stages /\ Named
  BY DEF QueueInv
<1> USE DEF TypeOK, QueueTypeOK, Kept, store, clients, reserving
<1>1. ASSUME NEW j \in site.jobs, NEW k \in Key \cup {Absent}, MemoryEnqueue(j, k) PROVE
      Kept
  <2>1. /\ rec' = rec \/ rec' = [rec EXCEPT ![j] = Fresh]
        /\ client' = [client EXCEPT ![j] = "done"]
    BY <1>1 DEF MemoryEnqueue, Insert
  <2>2. j \in Job /\ Fresh \in Record
    BY QueueFacts, RecordOps
  <2> QED
    BY QueueFacts, <2>1, <2>2
<1>2. ASSUME NEW j \in site.jobs, NEW k \in Key \cup {Absent}, DurableEnqueueRead(j, k)
      PROVE Kept
  BY QueueFacts, <1>i, <1>2 DEF DurableEnqueueRead
<1>3. ASSUME NEW j \in site.jobs, DurableEnqueueWrite(j) PROVE Kept
  BY QueueFacts, RecordOps, <1>3 DEF DurableEnqueueWrite, Insert
<1>4. ASSUME NEW p \in SiteProc, SweepList(p) PROVE Kept
  BY QueueFacts, <1>i, <1>4 DEF SweepList, Goto, MaySweep, AfterSweep
<1>5. ASSUME NEW p \in SiteProc, SweepWrite(p) PROVE Kept
  <2>1. PICK j \in todo[p] :
            rec' = IF rec[j].st = "leased" THEN [rec EXCEPT ![j] = Requeued(@)] ELSE rec
    BY <1>5 DEF SweepWrite
  <2>2. j \in Job /\ rec[j] \in Record
    BY QueueFacts, <1>i, <1>5 DEF Named
  <2>3. Requeued(rec[j]) \in Record
    BY QueueFacts, <2>2, RecordOps
  <2> QED
    BY QueueFacts, <2>1, <2>2, <2>3
<1>6. CASE MemoryStatus
  BY SweptFacts, <1>6 DEF MemoryStatus
<1>7. ASSUME NEW w \in site.workers, MemoryReserve(w) PROVE Kept
  <2>1. PICK got \in SUBSET {j \in Job : Swept[j] # Absent} :
            rec' = [j \in Job |-> IF j \in got THEN Leased(Swept[j], site.lease) ELSE Swept[j]]
    BY <1>7, FrontIn DEF MemoryReserve
  <2>2. \A j \in got : Leased(Swept[j], site.lease) \in Record
    BY QueueFacts, SweptFacts, FullLease
  <2> QED
    BY QueueFacts, SweptFacts, <2>1, <2>2
<1>8. ASSUME NEW w \in site.workers, DurableList(w) PROVE Kept
  BY QueueFacts, <1>8, ListStep
<1>9. ASSUME NEW w \in site.workers, DurableLease(w) PROVE Kept
  <2>1. PICK c \in pend[w] : LeasesOne(w, c)
    BY QueueFacts, <1>9, LeaseStep
  <2>2. Leased([Fresh EXCEPT !.attempt = c.attempt], pexp[w]) \in Record
    BY QueueFacts, <2>1, CandidateOps DEF LeasesOne
  <2>3. rec[c.job] # Absent
    BY QueueFacts, <1>i, <2>1 DEF Named
  <2> QED
    BY QueueFacts, <2>1, <2>2, <2>3 DEF LeasesOne
<1>10. ASSUME NEW w \in site.workers, Take(w) PROVE Kept
  BY QueueFacts, <1>i, <1>10 DEF Take, Goto
<1>11. ASSUME NEW w \in site.workers, NEW o \in {"ok", "error"}, HandlerReturns(w, o)
      PROVE Kept
  BY QueueFacts, <1>i, <1>11 DEF HandlerReturns, Goto
<1>12. ASSUME NEW w \in site.workers, Join(w) PROVE Kept
  BY QueueFacts, <1>i, <1>12 DEF Join, Goto
<1>13. ASSUME NEW w \in site.workers, MemoryReport(w) PROVE Kept
  <2>1. Current(w) \in Job /\ rec[Current(w)] \in Record /\ outcome[w] \in Outcomes \ {"none"}
    BY QueueFacts, <1>i, <1>13 DEF MemoryReport, Stages, Named
  <2>2. Reported(rec[Current(w)], outcome[w]) \in Record
    BY QueueFacts, <2>1, ReportOps
  <2> QED
    BY QueueFacts, <1>13, <2>1, <2>2 DEF MemoryReport
<1>14. ASSUME NEW w \in site.workers, DurableReportLoad(w) PROVE Kept
  BY QueueFacts, <1>i, <1>14 DEF DurableReportLoad, Goto
<1>15. ASSUME NEW w \in site.workers, DurableReportWrite(w) PROVE Kept
  <2>1. Current(w) \in Job /\ copy[Run(w)] \in Record /\ rec[Current(w)] # Absent
    BY QueueFacts, <1>i, <1>15 DEF DurableReportWrite, Stages, Named
  <2> QED
    BY QueueFacts, <1>15, <2>1 DEF DurableReportWrite
<1>16. ASSUME NEW w \in site.workers, ExtStop(w) PROVE Kept
  BY QueueFacts, <1>i, <1>16 DEF ExtStop, Loop, Cancelled, Goto
<1>17. ASSUME NEW w \in site.workers, MemoryExtend(w) PROVE Kept
  <2>1. extjob[w] \in Job /\ Swept[extjob[w]] \in Record
    BY QueueFacts, SweptFacts, <1>i, <1>17, SMTT(30) DEF MemoryExtend, Stages, Named
  <2>2. Leased(Swept[extjob[w]], site.lease) \in Record
    BY <2>1, FullLease
  <2>3. \/ rec' = Swept
        \/ rec' = [Swept EXCEPT ![extjob[w]] = Leased(Swept[extjob[w]], site.lease)]
    BY <1>17 DEF MemoryExtend
  <2> QED
    BY QueueFacts, SweptFacts, <2>1, <2>2, <2>3
<1>18. ASSUME NEW w \in site.workers, DurableExtendLoad(w) PROVE Kept
  BY QueueFacts, <1>i, <1>18 DEF DurableExtendLoad, Loop, Cancelled, Goto
<1>19. ASSUME NEW w \in site.workers, DurableExtendWrite(w) PROVE Kept
  <2>1. extjob[w] \in Job /\ copy[Ext(w)] \in Record /\ rec[extjob[w]] # Absent
    BY QueueFacts, <1>i, <1>19 DEF DurableExtendWrite, Stages, Named
  <2> QED
    BY QueueFacts, <1>19, <2>1 DEF DurableExtendWrite
<1>20. ASSUME NEW w \in site.workers, ReserveFails(w) PROVE Kept
  BY QueueFacts, <1>i, <1>20 DEF ReserveFails, Goto
<1>21. ASSUME NEW w \in site.workers, ReportFails(w) PROVE Kept
  BY QueueFacts, <1>i, <1>21 DEF ReportFails, Done, Goto
<1>22. ASSUME NEW w \in site.workers, ExtendFails(w) PROVE Kept
  BY QueueFacts, <1>i, <1>22 DEF ExtendFails, Loop, Cancelled, Goto
<1>23. CASE Crash
  BY QueueFacts, <1>i, <1>23 DEF Crash, Start
<1>24. CASE Tick
  BY QueueFacts, RecordOps, <1>24 DEF Tick
<1>25. CASE UNCHANGED vars
  BY QueueFacts, <1>i, <1>25 DEF vars
<1> QED
  BY QueueFacts, <1>1, <1>2, <1>3, <1>4, <1>5, <1>6, <1>7, <1>8, <1>9, <1>10, <1>11, <1>12,
     <1>13, <1>14, <1>15, <1>16, <1>17, <1>18, <1>19, <1>20, <1>21, <1>22, <1>23, <1>24, <1>25
     DEF Next, Enqueue, Reserve, Process, Extend, Status

\* What a call, a worker or a sweep names stays in the queue.
LEMMA NamedStep ==
  ASSUME QueueInv, [Next]_vars
  PROVE  Named'
<1>i. Stages /\ Named
  BY DEF QueueInv
<1> USE DEF TypeOK, QueueTypeOK, Kept, Named, AnsweredIsStored, store, clients, reserving
<1>1. ASSUME NEW j \in site.jobs, NEW k \in Key \cup {Absent}, MemoryEnqueue(j, k) PROVE
      Named'
  <2>1. CASE k # Absent /\ idem[k] # Absent
    BY QueueFacts, KeptStep, <1>i, <1>1, <2>1 DEF MemoryEnqueue
  <2>2. CASE Insert(j, k)
    <3>1. j \in Job /\ Fresh # Absent /\ (k = Absent \/ k \in Key)
      BY QueueFacts, RecordOps
    <3>2. /\ rec'[j] = Fresh
          /\ \A i \in Job : ans'[i] = IF i = j THEN j ELSE ans[i]
          /\ \A l \in Key : idem'[l] = idem[l] \/ idem'[l] = j
      BY QueueFacts, <2>2, <3>1 DEF Insert
    <3>3. UNCHANGED <<todo, reserving, batch>>
      BY <1>1 DEF MemoryEnqueue
    <3> QED
      BY QueueFacts, KeptStep, <1>i, <3>1, <3>2, <3>3
  <2> QED
    BY <1>1, <2>1, <2>2 DEF MemoryEnqueue
<1>2. ASSUME NEW j \in site.jobs, NEW k \in Key \cup {Absent}, DurableEnqueueRead(j, k)
      PROVE Named'
  BY QueueFacts, KeptStep, ProcFacts, <1>i, <1>2 DEF DurableEnqueueRead
<1>3. ASSUME NEW j \in site.jobs, DurableEnqueueWrite(j) PROVE Named'
  <2>1. CASE Insert(j, key[j])
    <3>1. j \in Job /\ Fresh # Absent /\ (key[j] = Absent \/ key[j] \in Key)
      BY QueueFacts, RecordOps
    <3>2. /\ rec'[j] = Fresh
          /\ \A i \in Job : ans'[i] = IF i = j THEN j ELSE ans[i]
          /\ \A l \in Key : idem'[l] = idem[l] \/ idem'[l] = j
      BY QueueFacts, <2>1, <3>1 DEF Insert
    <3>3. UNCHANGED <<todo, reserving, batch>>
      BY <1>3 DEF DurableEnqueueWrite
    <3> QED
      BY QueueFacts, KeptStep, <1>i, <3>1, <3>2, <3>3
  <2> QED
    BY <1>3, <2>1 DEF DurableEnqueueWrite
<1>4. ASSUME NEW p \in SiteProc, SweepList(p) PROVE Named'
  BY QueueFacts, KeptStep, ProcFacts, <1>i, <1>4 DEF SweepList, Expired
<1>5. ASSUME NEW p \in SiteProc, SweepWrite(p) PROVE Named'
  BY QueueFacts, KeptStep, ProcFacts, <1>i, <1>5 DEF SweepWrite, Goto, AfterSweep
<1>6. CASE MemoryStatus
  BY QueueFacts, KeptStep, ProcFacts, <1>i, <1>6 DEF MemoryStatus
<1>7. ASSUME NEW w \in site.workers, MemoryReserve(w) PROVE Named'
  <2>1. PICK got \in SUBSET {j \in Job : Swept[j] # Absent} : batch' = [batch EXCEPT ![w] = got]
    BY <1>7, FrontIn DEF MemoryReserve
  <2>2. \A j \in got : rec[j] # Absent
    BY SweptFacts
  <2>3. UNCHANGED <<idem, clients, todo, pend>>
    BY <1>7 DEF MemoryReserve
  <2>4. \A v \in Worker : batch'[v] \subseteq batch[v] \cup got /\ batch[v] \subseteq Job
    BY QueueFacts, <2>1
  <2> QED
    BY QueueFacts, KeptStep, <1>i, <2>1, <2>2, <2>3, <2>4
<1>8. ASSUME NEW w \in site.workers, DurableList(w) PROVE Named'
  BY QueueFacts, KeptStep, <1>i, <1>8, ListStep
<1>9. ASSUME NEW w \in site.workers, DurableLease(w) PROVE Named'
  <2>1. PICK c \in pend[w] : LeasesOne(w, c)
    BY QueueFacts, <1>9, LeaseStep
  <2>2. \A v \in Worker : batch'[v] \subseteq batch[v] \cup {c.job} /\ pend'[v] \subseteq pend[v]
    BY QueueFacts, <2>1 DEF LeasesOne
  <2>3. \A v \in Worker : \A d \in pend[v] : d.job \in Job
    BY QueueFacts
  <2>4. UNCHANGED <<idem, clients, todo>>
    BY <2>1 DEF LeasesOne
  <2>5. \A v \in Worker : batch[v] \subseteq Job
    BY QueueFacts
  <2> QED
    BY QueueFacts, KeptStep, <1>i, <2>1, <2>2, <2>3, <2>4, <2>5
<1>10. ASSUME NEW w \in site.workers, Take(w) PROVE Named'
  BY QueueFacts, KeptStep, ProcFacts, <1>i, <1>10 DEF Take, Goto
<1>11. ASSUME NEW w \in site.workers, NEW o \in {"ok", "error"}, HandlerReturns(w, o)
      PROVE Named'
  BY QueueFacts, KeptStep, ProcFacts, <1>i, <1>11 DEF HandlerReturns, Goto
<1>12. ASSUME NEW w \in site.workers, Join(w) PROVE Named'
  BY QueueFacts, KeptStep, ProcFacts, <1>i, <1>12 DEF Join, Goto
<1>13. ASSUME NEW w \in site.workers, MemoryReport(w) PROVE Named'
  BY QueueFacts, KeptStep, ProcFacts, <1>i, <1>13 DEF MemoryReport, Done, Goto
<1>14. ASSUME NEW w \in site.workers, DurableReportLoad(w) PROVE Named'
  BY QueueFacts, KeptStep, ProcFacts, <1>i, <1>14 DEF DurableReportLoad, Goto
<1>15. ASSUME NEW w \in site.workers, DurableReportWrite(w) PROVE Named'
  BY QueueFacts, KeptStep, ProcFacts, <1>i, <1>15 DEF DurableReportWrite, Done, Goto
<1>16. ASSUME NEW w \in site.workers, ExtStop(w) PROVE Named'
  BY QueueFacts, KeptStep, ProcFacts, <1>i, <1>16 DEF ExtStop, Loop, Cancelled, Goto
<1>17. ASSUME NEW w \in site.workers, MemoryExtend(w) PROVE Named'
  BY QueueFacts, KeptStep, ProcFacts, <1>i, <1>17 DEF MemoryExtend, Cancelled
<1>18. ASSUME NEW w \in site.workers, DurableExtendLoad(w) PROVE Named'
  BY QueueFacts, KeptStep, ProcFacts, <1>i, <1>18 DEF DurableExtendLoad, Loop, Cancelled,
     Goto
<1>19. ASSUME NEW w \in site.workers, DurableExtendWrite(w) PROVE Named'
  BY QueueFacts, KeptStep, ProcFacts, <1>i, <1>19 DEF DurableExtendWrite, Loop, Cancelled,
     Goto
<1>20. ASSUME NEW w \in site.workers, ReserveFails(w) PROVE Named'
  BY QueueFacts, KeptStep, ProcFacts, <1>i, <1>20 DEF ReserveFails, Goto
<1>21. ASSUME NEW w \in site.workers, ReportFails(w) PROVE Named'
  BY QueueFacts, KeptStep, ProcFacts, <1>i, <1>21 DEF ReportFails, Done, Goto
<1>22. ASSUME NEW w \in site.workers, ExtendFails(w) PROVE Named'
  BY QueueFacts, KeptStep, ProcFacts, <1>i, <1>22 DEF ExtendFails, Loop, Cancelled, Goto
<1>23. CASE Crash
  BY QueueFacts, KeptStep, ProcFacts, <1>i, <1>23 DEF Crash, Start
<1>24. CASE Tick
  BY QueueFacts, KeptStep, ProcFacts, <1>i, <1>24 DEF Tick
<1>25. CASE UNCHANGED vars
  BY QueueFacts, KeptStep, ProcFacts, <1>i, <1>25 DEF vars
<1> QED
  BY QueueFacts, <1>1, <1>2, <1>3, <1>4, <1>5, <1>6, <1>7, <1>8, <1>9, <1>10, <1>11, <1>12,
     <1>13, <1>14, <1>15, <1>16, <1>17, <1>18, <1>19, <1>20, <1>21, <1>22, <1>23, <1>24, <1>25
     DEF Next, Enqueue, Reserve, Process, Extend, Status

\* In memory the index answers every call that gave a key as it answered the
\* first of them.
LEMMA IndexedStep ==
  ASSUME QueueInv, [Next]_vars
  PROVE  Indexed'
<1>i. Stages /\ Indexed
  BY DEF QueueInv
<1> USE DEF TypeOK, QueueTypeOK, Kept, Indexed, store, clients, reserving
<1>1. ASSUME NEW j \in site.jobs, NEW k \in Key \cup {Absent}, MemoryEnqueue(j, k) PROVE
      Indexed'
  BY QueueFacts, SiteFixed, KeptStep, <1>i, <1>1 DEF MemoryEnqueue, Insert
<1>2. ASSUME NEW j \in site.jobs, NEW k \in Key \cup {Absent}, DurableEnqueueRead(j, k)
      PROVE Indexed'
  BY QueueFacts, SiteFixed, KeptStep, <1>i, <1>2 DEF DurableEnqueueRead
<1>3. ASSUME NEW j \in site.jobs, DurableEnqueueWrite(j) PROVE Indexed'
  BY QueueFacts, SiteFixed, KeptStep, <1>i, <1>3 DEF DurableEnqueueWrite, Insert, Stages
<1>4. ASSUME NEW p \in SiteProc, SweepList(p) \/ SweepWrite(p) PROVE Indexed'
  BY QueueFacts, SiteFixed, KeptStep, <1>i, <1>4 DEF SweepList, SweepWrite, Goto, MaySweep,
     AfterSweep
<1>5. ASSUME NEW w \in site.workers, MemoryReserve(w) \/ DurableList(w) \/
      DurableLease(w) \/ Take(w) \/ Join(w) \/ MemoryReport(w) \/ DurableReportLoad(w) \/
      DurableReportWrite(w) \/ ExtStop(w) \/ MemoryExtend(w) \/ DurableExtendLoad(w) \/
      DurableExtendWrite(w) \/ ReserveFails(w) \/ ReportFails(w) \/ ExtendFails(w) PROVE
      Indexed'
  BY QueueFacts, SiteFixed, KeptStep, <1>i, <1>5 DEF MemoryReserve, DurableList,
     DurableLease, Take, Join, MemoryReport, DurableReportLoad, DurableReportWrite, ExtStop,
     MemoryExtend, DurableExtendLoad, DurableExtendWrite, ReserveFails, ReportFails,
     ExtendFails, Goto, Due, Done, Loop, Cancelled
<1>6. ASSUME NEW w \in site.workers, NEW o \in {"ok", "error"}, HandlerReturns(w, o)
      PROVE Indexed'
  BY QueueFacts, SiteFixed, KeptStep, <1>i, <1>6 DEF HandlerReturns, Goto
<1>7. CASE MemoryStatus \/ Crash \/ Tick
  BY QueueFacts, SiteFixed, KeptStep, <1>i, <1>7 DEF MemoryStatus, Crash, Tick, Start
<1>8. CASE UNCHANGED vars
  BY QueueFacts, SiteFixed, KeptStep, <1>i, <1>8 DEF vars
<1> QED
  BY QueueFacts, <1>1, <1>2, <1>3, <1>4, <1>5, <1>6, <1>7, <1>8 DEF Next, Enqueue, Reserve,
     Process, Extend, Status

\* Each action moves a record in one of the ways that Moved lists.
LEMMA MovesStep ==
  ASSUME QueueInv, [Next]_vars
  PROVE  Moves
<1>i. Stages /\ Named /\ Indexed
  BY DEF QueueInv
<1> USE DEF TypeOK, QueueTypeOK, Kept, Moves, Moved, store, clients, reserving
<1>1. ASSUME NEW j \in site.jobs, NEW k \in Key \cup {Absent}, MemoryEnqueue(j, k) PROVE
      Moves
  <2>1. rec' = rec \/ rec' = [rec EXCEPT ![j] = Fresh]
    BY <1>1 DEF MemoryEnqueue, Insert
  <2>2. j \in Job /\ rec[j] = Absent /\ ~Expired(Fresh)
    BY QueueFacts, <1>i, <1>1 DEF MemoryEnqueue, Indexed, Expired, Fresh
  <2> QED
    BY QueueFacts, <2>1, <2>2
<1>2. ASSUME NEW j \in site.jobs, NEW k \in Key \cup {Absent}, DurableEnqueueRead(j, k)
      PROVE Moves
  BY QueueFacts, <1>i, <1>2 DEF DurableEnqueueRead
<1>3. ASSUME NEW j \in site.jobs, DurableEnqueueWrite(j) PROVE Moves
  <2>1. rec' = [rec EXCEPT ![j] = Fresh]
    BY <1>3 DEF DurableEnqueueWrite, Insert
  <2>2. j \in Job /\ rec[j] = Absent /\ ~Expired(Fresh)
    BY QueueFacts, <1>i, <1>3 DEF DurableEnqueueWrite, Indexed, Expired, Fresh
  <2> QED
    BY QueueFacts, <2>1, <2>2
<1>4. ASSUME NEW p \in SiteProc, SweepList(p) PROVE Moves
  BY QueueFacts, <1>i, <1>4 DEF SweepList, Goto, MaySweep, AfterSweep
<1>5. ASSUME NEW p \in SiteProc, SweepWrite(p) PROVE Moves
  <2>1. PICK j \in todo[p] :
            rec' = IF rec[j].st = "leased" THEN [rec EXCEPT ![j] = Requeued(@)] ELSE rec
    BY <1>5 DEF SweepWrite
  <2>2. j \in Job /\ rec[j] \in Record /\ ~Memory
    BY QueueFacts, <1>i, <1>5 DEF Named, Stages, SweepWrite
  <2>3. Requeued(rec[j]).st = "queued"
    BY QueueFacts, <2>2, RecordOps
  <2> QED
    BY QueueFacts, <2>1, <2>2, <2>3
<1>6. CASE MemoryStatus
  BY QueueFacts, SweptFacts, <1>6 DEF MemoryStatus, Expired
<1>7. ASSUME NEW w \in site.workers, MemoryReserve(w) PROVE Moves
  <2>1. PICK got \in SUBSET {j \in Job : Swept[j] # Absent /\ Swept[j].st = "queued"} :
            rec' = [j \in Job |-> IF j \in got THEN Leased(Swept[j], site.lease) ELSE Swept[j]]
    BY <1>7, FrontIn DEF MemoryReserve
  <2>2. \A j \in got : /\ Leased(Swept[j], site.lease).st = "leased"
                       /\ ~Expired(Leased(Swept[j], site.lease))
    BY SweptFacts, FullLease
  <2>3. Memory
    BY <1>7 DEF MemoryReserve
  <2> QED
    BY QueueFacts, SweptFacts, <2>1, <2>2, <2>3 DEF Expired
<1>8. ASSUME NEW w \in site.workers, DurableList(w) PROVE Moves
  BY QueueFacts, <1>8, ListStep
<1>9. ASSUME NEW w \in site.workers, DurableLease(w) PROVE Moves
  <2>1. PICK c \in pend[w] : LeasesOne(w, c)
    BY QueueFacts, <1>9, LeaseStep
  <2>2. Leased([Fresh EXCEPT !.attempt = c.attempt], pexp[w]).st = "leased"
    BY QueueFacts, <2>1, CandidateOps DEF LeasesOne
  <2>3. ~Memory
    BY QueueFacts, <1>i, <2>1 DEF LeasesOne, Stages
  <2> QED
    BY QueueFacts, <2>1, <2>2, <2>3 DEF LeasesOne
<1>10. ASSUME NEW w \in site.workers, Take(w) PROVE Moves
  BY QueueFacts, <1>i, <1>10 DEF Take, Goto
<1>11. ASSUME NEW w \in site.workers, NEW o \in {"ok", "error"}, HandlerReturns(w, o)
      PROVE Moves
  BY QueueFacts, <1>i, <1>11 DEF HandlerReturns, Goto
<1>12. ASSUME NEW w \in site.workers, Join(w) PROVE Moves
  BY QueueFacts, <1>i, <1>12 DEF Join, Goto
<1>13. ASSUME NEW w \in site.workers, MemoryReport(w) PROVE Moves
  <2>1. Current(w) \in Job /\ rec[Current(w)] \in Record /\ outcome[w] \in Outcomes \ {"none"}
    BY QueueFacts, <1>i, <1>13 DEF MemoryReport, Stages, Named
  <2>2. Reported(rec[Current(w)], outcome[w]).st # "leased"
    BY QueueFacts, <2>1, ReportOps
  <2> QED
    BY QueueFacts, <1>13, <2>1, <2>2 DEF MemoryReport, Done, Expired
<1>14. ASSUME NEW w \in site.workers, DurableReportLoad(w) PROVE Moves
  BY QueueFacts, <1>i, <1>14 DEF DurableReportLoad, Goto
<1>15. ASSUME NEW w \in site.workers, DurableReportWrite(w) PROVE Moves
  <2>1. Current(w) \in Job /\ ~Memory
    BY QueueFacts, <1>i, <1>15 DEF DurableReportWrite, Stages
  <2> QED
    BY QueueFacts, <1>15, <2>1 DEF DurableReportWrite, Done
<1>16. ASSUME NEW w \in site.workers, ExtStop(w) PROVE Moves
  BY QueueFacts, <1>i, <1>16 DEF ExtStop, Loop, Cancelled, Goto
<1>17. ASSUME NEW w \in site.workers, MemoryExtend(w) PROVE Moves
  <2>1. extjob[w] \in Job /\ Swept[extjob[w]] \in Record
    BY QueueFacts, SweptFacts, <1>i, <1>17, SMTT(30) DEF MemoryExtend, Stages, Named
  <2>2. /\ Leased(Swept[extjob[w]], site.lease).st = "leased"
        /\ ~Expired(Leased(Swept[extjob[w]], site.lease))
    BY <2>1, FullLease
  <2>3. \/ rec' = Swept
        \/ /\ Swept[extjob[w]].st = "leased"
           /\ rec' = [Swept EXCEPT ![extjob[w]] = Leased(Swept[extjob[w]], site.lease)]
    BY <1>17 DEF MemoryExtend
  <2> QED
    BY QueueFacts, SweptFacts, <2>1, <2>2, <2>3 DEF Expired
<1>18. ASSUME NEW w \in site.workers, DurableExtendLoad(w) PROVE Moves
  BY QueueFacts, <1>i, <1>18 DEF DurableExtendLoad, Loop, Cancelled, Goto
<1>19. ASSUME NEW w \in site.workers, DurableExtendWrite(w) PROVE Moves
  <2>1. /\ extjob[w] \in Job /\ extjob[w] = Current(w) /\ ~Memory
        /\ copy[Ext(w)].st = "leased"
    BY QueueFacts, <1>i, <1>19 DEF DurableExtendWrite, Stages
  <2> QED
    BY QueueFacts, <1>19, <2>1 DEF DurableExtendWrite
<1>20. ASSUME NEW w \in site.workers, ReserveFails(w) PROVE Moves
  BY QueueFacts, <1>i, <1>20 DEF ReserveFails, Goto
<1>21. ASSUME NEW w \in site.workers, ReportFails(w) PROVE Moves
  BY QueueFacts, <1>i, <1>21 DEF ReportFails, Done, Goto
<1>22. ASSUME NEW w \in site.workers, ExtendFails(w) PROVE Moves
  BY QueueFacts, <1>i, <1>22 DEF ExtendFails, Loop, Cancelled, Goto
<1>23. CASE Crash
  BY QueueFacts, <1>i, <1>23 DEF Crash, Start
<1>24. CASE Tick
  <2>1. \A j \in Job : rec[j] # Absent => Older(rec[j]).st = rec[j].st
    BY QueueFacts, RecordOps
  <2> QED
    BY QueueFacts, <2>1, <1>24 DEF Tick
<1>25. CASE UNCHANGED vars
  BY QueueFacts, <1>i, <1>25 DEF vars
<1> QED
  BY QueueFacts, <1>1, <1>2, <1>3, <1>4, <1>5, <1>6, <1>7, <1>8, <1>9, <1>10, <1>11, <1>12,
     <1>13, <1>14, <1>15, <1>16, <1>17, <1>18, <1>19, <1>20, <1>21, <1>22, <1>23, <1>24, <1>25
     DEF Next, Enqueue, Reserve, Process, Extend, Status

\* A worker gets only what it leases, and lists only what waits.
LEMMA HandsStep ==
  ASSUME QueueInv, [Next]_vars
  PROVE  Hands
<1>i. Stages
  BY DEF QueueInv
<1> USE DEF TypeOK, QueueTypeOK, Hands, store, clients, reserving
<1>1. ASSUME NEW j \in site.jobs, NEW k \in Key \cup {Absent}, MemoryEnqueue(j, k) \/
      DurableEnqueueRead(j, k) PROVE Hands
  BY QueueFacts, <1>i, <1>1 DEF MemoryEnqueue, DurableEnqueueRead, Insert
<1>2. ASSUME NEW j \in site.jobs, DurableEnqueueWrite(j) PROVE Hands
  BY QueueFacts, <1>i, <1>2 DEF DurableEnqueueWrite, Insert
<1>3. ASSUME NEW p \in SiteProc, SweepList(p) \/ SweepWrite(p) PROVE Hands
  BY QueueFacts, <1>i, <1>3 DEF SweepList, SweepWrite, Goto, MaySweep, AfterSweep
<1>4. ASSUME NEW w \in site.workers, MemoryReserve(w) PROVE Hands
  <2>1. PICK got \in SUBSET {j \in Job : Swept[j] # Absent /\ Swept[j].st = "queued"} :
            /\ rec' = [j \in Job |-> IF j \in got THEN Leased(Swept[j], site.lease) ELSE Swept[j]]
            /\ batch' = [batch EXCEPT ![w] = got]
            /\ pend' = pend
    BY <1>4, FrontIn DEF MemoryReserve
  <2>2. \A j \in got : Leased(Swept[j], site.lease).st = "leased"
    BY SweptFacts, FullLease
  <2> QED
    BY QueueFacts, SweptFacts, <2>1, <2>2
<1>5. ASSUME NEW w \in site.workers, DurableList(w) PROVE Hands
  BY QueueFacts, <1>5, ListStep
<1>6. ASSUME NEW w \in site.workers, DurableLease(w) PROVE Hands
  <2>1. PICK c \in pend[w] : LeasesOne(w, c)
    BY QueueFacts, <1>6, LeaseStep
  <2>2. Leased([Fresh EXCEPT !.attempt = c.attempt], pexp[w]).st = "leased"
    BY QueueFacts, <2>1, CandidateOps DEF LeasesOne
  <2>3. ~Memory
    BY QueueFacts, <1>i, <2>1 DEF LeasesOne, Stages
  <2> QED
    BY QueueFacts, <2>1, <2>2, <2>3 DEF LeasesOne
<1>7. ASSUME NEW w \in site.workers, Take(w) \/ Join(w) \/ MemoryReport(w) \/
      DurableReportLoad(w) \/ DurableReportWrite(w) \/ ExtStop(w) \/ MemoryExtend(w) \/
      DurableExtendLoad(w) \/ DurableExtendWrite(w) \/ ReserveFails(w) \/ ReportFails(w) \/
      ExtendFails(w) PROVE Hands
  BY QueueFacts, <1>i, <1>7 DEF Take, Join, MemoryReport, DurableReportLoad,
     DurableReportWrite, ExtStop, MemoryExtend, DurableExtendLoad, DurableExtendWrite,
     ReserveFails, ReportFails, ExtendFails, Goto, Done, Loop, Cancelled
<1>8. ASSUME NEW w \in site.workers, NEW o \in {"ok", "error"}, HandlerReturns(w, o)
      PROVE Hands
  BY QueueFacts, <1>i, <1>8 DEF HandlerReturns, Goto
<1>9. CASE MemoryStatus \/ Crash \/ Tick
  BY QueueFacts, <1>i, <1>9 DEF MemoryStatus, Crash, Tick, Start
<1>10. CASE UNCHANGED vars
  BY QueueFacts, <1>i, <1>10 DEF vars
<1> QED
  BY QueueFacts, <1>1, <1>2, <1>3, <1>4, <1>5, <1>6, <1>7, <1>8, <1>9, <1>10 DEF Next,
     Enqueue, Reserve, Process, Extend, Status

\* Every operation keeps the types of the queue, of the calls and of the
\* workers.
LEMMA QueueTyped ==
  ASSUME QueueInv, [Next]_vars
  PROVE  QueueTypeOK'
<1>i. Stages /\ Named
  BY DEF QueueInv
<1> USE DEF TypeOK, QueueTypeOK, Kept, Outcomes, store, clients, reserving
<1>1. ASSUME NEW j \in site.jobs, NEW k \in Key \cup {Absent}, MemoryEnqueue(j, k) PROVE
      QueueTypeOK'
  <2>1. /\ j \in Job /\ client' = [client EXCEPT ![j] = "done"] /\ key' = [key EXCEPT ![j] = k]
        /\ UNCHANGED <<at, todo, copy, reserving, batch, outcome, extjob>>
    BY QueueFacts, <1>1 DEF MemoryEnqueue
  <2>2. idem' \in [Key -> Job \cup {Absent}]
    BY QueueFacts, <1>1 DEF MemoryEnqueue, Insert
  <2>3. ans' \in [Job -> Job \cup {Absent}]
    BY QueueFacts, <1>1 DEF MemoryEnqueue, Insert
  <2> QED
    BY QueueFacts, KeptStep, SiteFixed, <2>1, <2>2, <2>3
<1>2. ASSUME NEW j \in site.jobs, NEW k \in Key \cup {Absent}, DurableEnqueueRead(j, k)
      PROVE QueueTypeOK'
  <2>1. /\ j \in Job /\ key' = [key EXCEPT ![j] = k]
        /\ client' = [client EXCEPT ![j] = "done"] \/ client' = [client EXCEPT ![j] = "write"]
        /\ UNCHANGED <<idem, at, todo, copy, reserving, batch, outcome, extjob>>
    BY QueueFacts, <1>2 DEF DurableEnqueueRead
  <2>2. ans' \in [Job -> Job \cup {Absent}]
    BY QueueFacts, <1>2 DEF DurableEnqueueRead
  <2>3. client' \in [Job -> {"new", "write", "done"}]
    BY QueueFacts, <2>1
  <2> QED
    BY QueueFacts, KeptStep, SiteFixed, <2>1, <2>2, <2>3
<1>3. ASSUME NEW j \in site.jobs, DurableEnqueueWrite(j) PROVE QueueTypeOK'
  BY QueueFacts, ProcFacts, KeptStep, SiteFixed, <1>i, <1>3 DEF DurableEnqueueWrite, Insert
<1>4. ASSUME NEW p \in SiteProc, SweepList(p) PROVE QueueTypeOK'
  BY QueueFacts, ProcFacts, KeptStep, SiteFixed, <1>i, <1>4 DEF SweepList, Goto, MaySweep,
     AfterSweep
<1>5. ASSUME NEW p \in SiteProc, SweepWrite(p) PROVE QueueTypeOK'
  BY QueueFacts, ProcFacts, KeptStep, SiteFixed, <1>i, <1>5 DEF SweepWrite, Goto,
     AfterSweep
<1>6. CASE MemoryStatus
  BY QueueFacts, ProcFacts, KeptStep, SiteFixed, <1>i, <1>6 DEF MemoryStatus
<1>7. ASSUME NEW w \in site.workers, MemoryReserve(w) PROVE QueueTypeOK'
  <2>1. PICK got \in SUBSET Job : batch' = [batch EXCEPT ![w] = got]
    BY <1>7, FrontIn DEF MemoryReserve
  <2> QED
    BY QueueFacts, KeptStep, SiteFixed, <1>7, <2>1 DEF MemoryReserve, Goto
<1>8. ASSUME NEW w \in site.workers, DurableList(w) PROVE QueueTypeOK'
  <2>1. /\ pend' = [pend EXCEPT ![w] = pend'[w]]
        /\ pend'[w] \subseteq [job : Job, attempt : 0..MaxAttempts - 1]
        /\ pexp' = [pexp EXCEPT ![w] = pexp'[w]] /\ pexp'[w] \in 0..site.lease
        /\ at' = [at EXCEPT ![Run(w)] = IF pend'[w] = {} THEN "poll" ELSE "lease"]
        /\ UNCHANGED <<idem, clients, todo, copy, batch, outcome, extjob>>
    BY QueueFacts, <1>8, ListStep
  <2>2. pend' \in [Worker -> SUBSET [job : Job, attempt : 0..MaxAttempts - 1]]
    BY QueueFacts, <2>1
  <2>3. pexp' \in [Worker -> 0..site.lease]
    BY QueueFacts, <2>1
  <2>4. at' = [at EXCEPT ![Run(w)] = "poll"] \/ at' = [at EXCEPT ![Run(w)] = "lease"]
    BY <2>1
  <2> QED
    BY QueueFacts, KeptStep, SiteFixed, <2>1, <2>2, <2>3, <2>4
<1>9. ASSUME NEW w \in site.workers, DurableLease(w) PROVE QueueTypeOK'
  <2>1. PICK c \in pend[w] : LeasesOne(w, c)
    BY QueueFacts, <1>9, LeaseStep
  <2> QED
    BY QueueFacts, KeptStep, SiteFixed, <2>1 DEF LeasesOne
<1>10. ASSUME NEW w \in site.workers, Take(w) PROVE QueueTypeOK'
  <2>1. UNCHANGED <<idem, clients, todo, copy, reserving, batch>>
    BY <1>10 DEF Take
  <2>2. outcome' = outcome \/ outcome' = [outcome EXCEPT ![w] = "unhandled"]
    BY <1>10 DEF Take
  <2>3. extjob' = extjob \/ (extjob' = [extjob EXCEPT ![w] = Current(w)] /\ batch[w] # {})
    BY <1>10 DEF Take
  <2>4. \/ at' = [at EXCEPT ![Run(w)] = "poll"] \/ at' = [at EXCEPT ![Run(w)] = "load"]
        \/ at' = [at EXCEPT ![Run(w)] = "handle", ![Ext(w)] = "sleep"]
    BY <1>10 DEF Take, Goto
  <2> QED
    BY QueueFacts, KeptStep, SiteFixed, <2>1, <2>2, <2>3, <2>4
<1>11. ASSUME NEW w \in site.workers, NEW o \in {"ok", "error"}, HandlerReturns(w, o)
      PROVE QueueTypeOK'
  BY QueueFacts, ProcFacts, KeptStep, SiteFixed, <1>i, <1>11 DEF HandlerReturns, Goto
<1>12. ASSUME NEW w \in site.workers, Join(w) PROVE QueueTypeOK'
  BY QueueFacts, ProcFacts, KeptStep, SiteFixed, <1>i, <1>12 DEF Join, Goto
<1>13. ASSUME NEW w \in site.workers, MemoryReport(w) PROVE QueueTypeOK'
  BY QueueFacts, ProcFacts, KeptStep, SiteFixed, <1>i, <1>13 DEF MemoryReport, Done, Goto
<1>14. ASSUME NEW w \in site.workers, DurableReportLoad(w) PROVE QueueTypeOK'
  <2>1. rec[Current(w)] \in Record /\ outcome[w] \in Outcomes \ {"none"}
    BY QueueFacts, <1>i, <1>14 DEF Named, Stages, DurableReportLoad
  <2>2. Reported(rec[Current(w)], outcome[w]) \in Record
    BY QueueFacts, <2>1, ReportOps
  <2> QED
    BY QueueFacts, KeptStep, SiteFixed, <1>14, <2>2 DEF DurableReportLoad, Goto
<1>15. ASSUME NEW w \in site.workers, DurableReportWrite(w) PROVE QueueTypeOK'
  BY QueueFacts, ProcFacts, KeptStep, SiteFixed, <1>i, <1>15 DEF DurableReportWrite, Done,
     Goto
<1>16. ASSUME NEW w \in site.workers, ExtStop(w) PROVE QueueTypeOK'
  <2>1. /\ extjob' = extjob \/ extjob' = [extjob EXCEPT ![w] = Absent]
        /\ at' = [at EXCEPT ![Ext(w)] = "off"] \/ at' = [at EXCEPT ![Ext(w)] = "sleep"]
    BY <1>16 DEF ExtStop, Loop, Goto
  <2>2. UNCHANGED <<idem, clients, todo, copy, reserving, batch, outcome>>
    BY <1>16 DEF ExtStop
  <2> QED
    BY QueueFacts, KeptStep, SiteFixed, <2>1, <2>2
<1>17. ASSUME NEW w \in site.workers, MemoryExtend(w) PROVE QueueTypeOK'
  BY QueueFacts, ProcFacts, KeptStep, SiteFixed, <1>i, <1>17 DEF MemoryExtend, Cancelled
<1>18. ASSUME NEW w \in site.workers, DurableExtendLoad(w) PROVE QueueTypeOK'
  <2>1. rec[extjob[w]] \in Record
    BY QueueFacts, <1>i, <1>18 DEF Named, Stages, DurableExtendLoad
  <2>2. Leased(rec[extjob[w]], site.lease) \in Record
    BY <2>1, FullLease
  <2> QED
    BY QueueFacts, KeptStep, SiteFixed, <1>18, <2>2 DEF DurableExtendLoad, Loop, Cancelled, Goto
<1>19. ASSUME NEW w \in site.workers, DurableExtendWrite(w) PROVE QueueTypeOK'
  <2>1. /\ extjob' = extjob \/ extjob' = [extjob EXCEPT ![w] = Absent]
        /\ at' = [at EXCEPT ![Ext(w)] = "off"] \/ at' = [at EXCEPT ![Ext(w)] = "sleep"]
    BY <1>19 DEF DurableExtendWrite, Loop, Goto
  <2>2. /\ copy' = [copy EXCEPT ![Ext(w)] = Absent]
        /\ UNCHANGED <<idem, clients, todo, reserving, batch, outcome>>
    BY <1>19 DEF DurableExtendWrite
  <2> QED
    BY QueueFacts, KeptStep, SiteFixed, <2>1, <2>2
<1>20. ASSUME NEW w \in site.workers, ReserveFails(w) PROVE QueueTypeOK'
  BY QueueFacts, ProcFacts, KeptStep, SiteFixed, <1>i, <1>20 DEF ReserveFails, Goto
<1>21. ASSUME NEW w \in site.workers, ReportFails(w) PROVE QueueTypeOK'
  BY QueueFacts, ProcFacts, KeptStep, SiteFixed, <1>i, <1>21 DEF ReportFails, Done, Goto
<1>22. ASSUME NEW w \in site.workers, ExtendFails(w) PROVE QueueTypeOK'
  <2>1. /\ extjob' = extjob \/ extjob' = [extjob EXCEPT ![w] = Absent]
        /\ at' = [at EXCEPT ![Ext(w)] = "off"] \/ at' = [at EXCEPT ![Ext(w)] = "sleep"]
    BY <1>22 DEF ExtendFails, Loop, Goto
  <2>2. /\ copy' = [copy EXCEPT ![Ext(w)] = Absent] /\ todo' = [todo EXCEPT ![Ext(w)] = {}]
        /\ UNCHANGED <<idem, clients, reserving, batch, outcome>>
    BY <1>22 DEF ExtendFails
  <2> QED
    BY QueueFacts, KeptStep, SiteFixed, <2>1, <2>2
<1>23. CASE Crash
  BY QueueFacts, ProcFacts, KeptStep, SiteFixed, <1>i, <1>23 DEF Crash, Start
<1>24. CASE Tick
  <2>1. \A p \in Proc : Older(copy[p]) \in Record \cup {Absent}
    BY QueueFacts, RecordOps
  <2>2. \A v \in Worker : Less(pexp[v]) \in 0..site.lease
    <3>1. site.lease \in Nat /\ \A v \in Worker : pexp[v] \in 0..site.lease
      BY QueueFacts
    <3> QED
      BY <3>1 DEF Less
  <2>3. /\ copy' = [p \in Proc |-> Older(copy[p])] /\ pexp' = [v \in Worker |-> Less(pexp[v])]
        /\ UNCHANGED <<site, idem, clients, at, todo, pend, batch, outcome, extjob, failures, faults>>
    BY <1>24 DEF Tick
  <2> QED
    BY QueueFacts, KeptStep, SiteFixed, <2>1, <2>2, <2>3
<1>25. CASE UNCHANGED vars
  BY QueueFacts, ProcFacts, KeptStep, SiteFixed, <1>i, <1>25 DEF vars
<1> QED
  BY QueueFacts, <1>1, <1>2, <1>3, <1>4, <1>5, <1>6, <1>7, <1>8, <1>9, <1>10, <1>11, <1>12,
     <1>13, <1>14, <1>15, <1>16, <1>17, <1>18, <1>19, <1>20, <1>21, <1>22, <1>23, <1>24, <1>25
     DEF Next, Enqueue, Reserve, Process, Extend, Status

\* No operation takes a counter out of its bounds.
LEMMA MetersStep ==
  ASSUME QueueInv, [Next]_vars
  PROVE  Meters
<1>i. Stages
  BY DEF QueueInv
<1> USE DEF TypeOK, QueueTypeOK, Meters, store, clients, reserving
<1>1. ASSUME NEW j \in site.jobs, NEW k \in Key \cup {Absent}, MemoryEnqueue(j, k) \/
      DurableEnqueueRead(j, k) PROVE Meters
  BY QueueFacts, <1>i, <1>1 DEF MemoryEnqueue, DurableEnqueueRead, Insert
<1>2. ASSUME NEW j \in site.jobs, DurableEnqueueWrite(j) PROVE Meters
  BY QueueFacts, <1>i, <1>2 DEF DurableEnqueueWrite, Insert
<1>3. ASSUME NEW p \in SiteProc, SweepList(p) \/ SweepWrite(p) PROVE Meters
  BY QueueFacts, <1>i, <1>3 DEF SweepList, SweepWrite, Goto, MaySweep, AfterSweep
<1>4. ASSUME NEW w \in site.workers, MemoryReserve(w) \/ DurableList(w) \/
      DurableLease(w) \/ Take(w) \/ Join(w) \/ MemoryReport(w) \/ DurableReportLoad(w) \/
      DurableReportWrite(w) \/ ExtStop(w) \/ MemoryExtend(w) \/ DurableExtendLoad(w) \/
      DurableExtendWrite(w) \/ ReserveFails(w) \/ ReportFails(w) \/ ExtendFails(w) PROVE
      Meters
  BY QueueFacts, <1>i, <1>4 DEF MemoryReserve, DurableList, DurableLease, Take, Join,
     MemoryReport, DurableReportLoad, DurableReportWrite, ExtStop, MemoryExtend,
     DurableExtendLoad, DurableExtendWrite, ReserveFails, ReportFails, ExtendFails, Goto, Due,
     Done, Loop, Cancelled
<1>5. ASSUME NEW w \in site.workers, NEW o \in {"ok", "error"}, HandlerReturns(w, o)
      PROVE Meters
  <2>1. Current(w) \in Job
    BY QueueFacts, <1>i, <1>5 DEF HandlerReturns, Stages
  <2>2. failures' \in [Job -> 0..MaxAttempts]
    BY QueueFacts, <2>1, <1>5 DEF HandlerReturns
  <2> QED
    BY QueueFacts, <2>2, <1>5 DEF HandlerReturns
<1>6. CASE MemoryStatus \/ Crash
  BY QueueFacts, <1>i, <1>6 DEF MemoryStatus, Crash, Start
<1>7. CASE Tick
  BY QueueFacts, <1>i, <1>7 DEF Tick
<1>8. CASE UNCHANGED vars
  BY QueueFacts, <1>i, <1>8 DEF vars
<1> QED
  BY QueueFacts, <1>1, <1>2, <1>3, <1>4, <1>5, <1>6, <1>7, <1>8 DEF Next, Enqueue, Reserve,
     Process, Extend, Status

\* A worker that is not of the site takes no step.
LEMMA OutsideStep ==
  ASSUME QueueInv, [Next]_vars
  PROVE  OutsideIdle'
<1>i. OutsideIdle
  BY DEF QueueInv
<1> USE DEF TypeOK, QueueTypeOK, OutsideIdle, store, clients, reserving
<1>1. ASSUME NEW j \in site.jobs, NEW k \in Key \cup {Absent}, MemoryEnqueue(j, k) PROVE
      OutsideIdle'
  BY QueueFacts, ProcFacts, SiteFixed, <1>i, <1>1 DEF MemoryEnqueue, Insert
<1>2. ASSUME NEW j \in site.jobs, NEW k \in Key \cup {Absent}, DurableEnqueueRead(j, k)
      PROVE OutsideIdle'
  BY QueueFacts, ProcFacts, SiteFixed, <1>i, <1>2 DEF DurableEnqueueRead
<1>3. ASSUME NEW j \in site.jobs, DurableEnqueueWrite(j) PROVE OutsideIdle'
  BY QueueFacts, ProcFacts, SiteFixed, <1>i, <1>3 DEF DurableEnqueueWrite, Insert
<1>4. ASSUME NEW p \in SiteProc, SweepList(p) PROVE OutsideIdle'
  BY QueueFacts, ProcFacts, SiteFixed, <1>i, <1>4 DEF SweepList, Goto, MaySweep, AfterSweep
<1>5. ASSUME NEW p \in SiteProc, SweepWrite(p) PROVE OutsideIdle'
  BY QueueFacts, ProcFacts, SiteFixed, <1>i, <1>5 DEF SweepWrite, Goto, AfterSweep
<1>6. CASE MemoryStatus
  BY QueueFacts, ProcFacts, SiteFixed, <1>i, <1>6 DEF MemoryStatus
<1>7. ASSUME NEW w \in site.workers, MemoryReserve(w) PROVE OutsideIdle'
  BY QueueFacts, ProcFacts, SiteFixed, <1>i, <1>7 DEF MemoryReserve, Goto
<1>8. ASSUME NEW w \in site.workers, DurableList(w) PROVE OutsideIdle'
  BY QueueFacts, ProcFacts, SiteFixed, <1>i, <1>8, ListStep
<1>9. ASSUME NEW w \in site.workers, DurableLease(w) PROVE OutsideIdle'
  <2>1. PICK c \in pend[w] : LeasesOne(w, c)
    BY QueueFacts, <1>9, LeaseStep
  <2> QED
    BY QueueFacts, ProcFacts, SiteFixed, <1>i, <2>1 DEF LeasesOne
<1>10. ASSUME NEW w \in site.workers, Take(w) PROVE OutsideIdle'
  BY QueueFacts, ProcFacts, SiteFixed, <1>i, <1>10 DEF Take, Goto
<1>11. ASSUME NEW w \in site.workers, NEW o \in {"ok", "error"}, HandlerReturns(w, o)
      PROVE OutsideIdle'
  BY QueueFacts, ProcFacts, SiteFixed, <1>i, <1>11 DEF HandlerReturns, Goto
<1>12. ASSUME NEW w \in site.workers, Join(w) PROVE OutsideIdle'
  BY QueueFacts, ProcFacts, SiteFixed, <1>i, <1>12 DEF Join, Goto
<1>13. ASSUME NEW w \in site.workers, MemoryReport(w) PROVE OutsideIdle'
  BY QueueFacts, ProcFacts, SiteFixed, <1>i, <1>13 DEF MemoryReport, Done, Goto
<1>14. ASSUME NEW w \in site.workers, DurableReportLoad(w) PROVE OutsideIdle'
  BY QueueFacts, ProcFacts, SiteFixed, <1>i, <1>14 DEF DurableReportLoad, Goto
<1>15. ASSUME NEW w \in site.workers, DurableReportWrite(w) PROVE OutsideIdle'
  BY QueueFacts, ProcFacts, SiteFixed, <1>i, <1>15 DEF DurableReportWrite, Done, Goto
<1>16. ASSUME NEW w \in site.workers, ExtStop(w) PROVE OutsideIdle'
  BY QueueFacts, ProcFacts, SiteFixed, <1>i, <1>16 DEF ExtStop, Loop, Cancelled, Goto
<1>17. ASSUME NEW w \in site.workers, MemoryExtend(w) PROVE OutsideIdle'
  BY QueueFacts, ProcFacts, SiteFixed, <1>i, <1>17 DEF MemoryExtend, Cancelled
<1>18. ASSUME NEW w \in site.workers, DurableExtendLoad(w) PROVE OutsideIdle'
  BY QueueFacts, ProcFacts, SiteFixed, <1>i, <1>18 DEF DurableExtendLoad, Loop, Cancelled,
     Goto
<1>19. ASSUME NEW w \in site.workers, DurableExtendWrite(w) PROVE OutsideIdle'
  BY QueueFacts, ProcFacts, SiteFixed, <1>i, <1>19 DEF DurableExtendWrite, Loop, Cancelled,
     Goto
<1>20. ASSUME NEW w \in site.workers, ReserveFails(w) PROVE OutsideIdle'
  BY QueueFacts, ProcFacts, SiteFixed, <1>i, <1>20 DEF ReserveFails, Goto
<1>21. ASSUME NEW w \in site.workers, ReportFails(w) PROVE OutsideIdle'
  BY QueueFacts, ProcFacts, SiteFixed, <1>i, <1>21 DEF ReportFails, Done, Goto
<1>22. ASSUME NEW w \in site.workers, ExtendFails(w) PROVE OutsideIdle'
  BY QueueFacts, ProcFacts, SiteFixed, <1>i, <1>22 DEF ExtendFails, Loop, Cancelled, Goto
<1>23. CASE Crash
  BY QueueFacts, ProcFacts, SiteFixed, <1>i, <1>23 DEF Crash, Start
<1>24. CASE Tick
  BY QueueFacts, ProcFacts, SiteFixed, <1>i, <1>24 DEF Tick
<1>25. CASE UNCHANGED vars
  BY QueueFacts, ProcFacts, SiteFixed, <1>i, <1>25 DEF vars
<1> QED
  BY QueueFacts, <1>1, <1>2, <1>3, <1>4, <1>5, <1>6, <1>7, <1>8, <1>9, <1>10, <1>11, <1>12,
     <1>13, <1>14, <1>15, <1>16, <1>17, <1>18, <1>19, <1>20, <1>21, <1>22, <1>23, <1>24, <1>25
     DEF Next, Enqueue, Reserve, Process, Extend, Status

\* In memory and before any lease has run out, nobody else can take or
\* report a job that a worker has, so the batches stay apart and leased.
LEMMA LeasesStep ==
  ASSUME QueueInv, [Next]_vars
  PROVE  LeasesHeld'
<1> SUFFICES ASSUME Memory, ~lapsed'
             PROVE  /\ \A j \in Job : ~Expired(rec'[j])
                    /\ \A w \in Worker : \A j \in batch'[w] : rec'[j].st = "leased"
                    /\ \A v, w \in Worker : v # w => batch'[v] \cap batch'[w] = {}
  BY SiteFixed DEF LeasesHeld, SoleHolder, Expired
<1>1. /\ \A j \in Job : ~Expired(rec[j])
      /\ \A w \in Worker : \A j \in batch[w] : rec[j].st = "leased"
      /\ \A v, w \in Worker : v # w => batch[v] \cap batch[w] = {}
  BY MetersStep DEF QueueInv, LeasesHeld, SoleHolder, Meters
<1>2. /\ \A w \in Worker : batch'[w] \subseteq Job /\ batch[w] \subseteq Job
      /\ site.workers \subseteq Worker
  BY QueueTyped, QueueFacts DEF TypeOK, QueueTypeOK
<1>3. \A j \in Job : ~Expired(rec'[j])
  BY <1>1, MovesStep DEF Moves
<1>4. ASSUME NEW w \in Worker, NEW j \in batch'[w]
      PROVE  rec'[j].st = "leased"
  <2>1. CASE j \notin batch[w]
    BY <1>4, <2>1, HandsStep DEF Hands
  <2>2. CASE j \in batch[w]
    <3>1. rec[j] # Absent /\ Moved(j) /\ rec[j].st = "leased" /\ ~Expired(rec[j])
      BY <1>1, <1>2, <2>2, MovesStep DEF Moves, QueueInv, Named
    <3>2. ASSUME NEW v \in site.workers, at[Run(v)] \in {"load", "write"}, j = Current(v),
                 batch'[v] = batch[v] \ {j}
          PROVE  FALSE
      <4>1. v \in Worker /\ j \in batch[v]
        BY <1>2, <3>2, QueueFacts DEF QueueInv, Stages
      <4> QED
        BY <1>1, <1>4, <2>2, <3>2, <4>1
    <3> QED
      BY <3>1, <3>2 DEF Moved
  <2> QED
    BY <2>1, <2>2
<1>5. ASSUME NEW v \in Worker, NEW w \in Worker, v # w
      PROVE  batch'[v] \cap batch'[w] = {}
  <2>1. ASSUME NEW x \in Worker, NEW y \in Worker, x # y, NEW j \in batch'[x] \ batch[x]
        PROVE  j \notin batch'[y]
    <3>1. rec[j].st = "queued" \/ Expired(rec[j])
      BY <2>1, HandsStep DEF Hands
    <3>2. batch'[y] = batch[y]
      BY <2>1, HandsStep DEF Hands
    <3> QED
      BY <1>1, <1>2, <2>1, <3>1, <3>2
  <2> QED
    BY <1>1, <1>5, <2>1
<1> QED
  BY <1>3, <1>4, <1>5

\* A worker that has its queue alone takes up only what waits, and is rid
\* of a job in the step that finishes it.
LEMMA AloneStep ==
  ASSUME QueueInv, [Next]_vars
  PROVE  AloneUnfinished'
<1> SUFFICES ASSUME OneWorker, NEW w \in site.workers
             PROVE  /\ \A j \in batch'[w] : ~IsFinished(j)'
                    /\ \A c \in pend'[w] : ~IsFinished(c.job)'
  BY SiteFixed DEF AloneUnfinished
<1>1. site.workers = {w}
  <2>1. IsFiniteSet(site.workers)
    BY QueueFacts, QueueAssumption, FS_Subset
  <2>2. \E x : site.workers = {x}
    BY <2>1, FS_Singleton DEF OneWorker
  <2> QED
    BY <2>2
<1>2. /\ w \in Worker /\ batch'[w] \subseteq Job /\ batch[w] \subseteq Job
      /\ \A c \in pend'[w] : c.job \in Job
      /\ \A c \in pend[w] : c.job \in Job
  BY QueueTyped, QueueFacts DEF TypeOK, QueueTypeOK
<1>3. /\ \A j \in batch[w] : rec[j] # Absent /\ ~IsFinished(j)
      /\ \A c \in pend[w] : rec[c.job] # Absent /\ ~IsFinished(c.job)
  BY <1>2 DEF QueueInv, Named, AloneUnfinished
<1>4. ASSUME NEW j \in Job, rec[j] # Absent, ~IsFinished(j)
      PROVE  \/ ~IsFinished(j)'
             \/ at[Run(w)] \in {"load", "write"} /\ j \notin batch'[w]
  <2>1. Moved(j)
    BY <1>4, MovesStep DEF Moves
  <2> QED
    BY <1>1, <1>4, <2>1 DEF Moved, IsFinished
<1>5. ASSUME NEW j \in batch'[w] PROVE ~IsFinished(j)'
  <2>1. CASE j \in batch[w]
    BY <1>2, <1>3, <1>4, <1>5, <2>1
  <2>2. CASE j \notin batch[w]
    BY <1>2, <1>5, <2>2, HandsStep DEF Hands, IsFinished
  <2> QED
    BY <2>1, <2>2
<1>6. ASSUME NEW c \in pend'[w] PROVE ~IsFinished(c.job)'
  <2>1. CASE c \in pend[w]
    <3>1. at[Run(w)] = "lease"
      BY <1>2, <2>1 DEF QueueInv, Stages
    <3> QED
      BY <1>2, <1>3, <1>4, <2>1, <3>1
  <2>2. CASE c \notin pend[w]
    BY <1>2, <1>6, <2>2, HandsStep DEF Hands, IsFinished
  <2> QED
    BY <2>1, <2>2
<1> QED
  BY <1>5, <1>6

\* Only a handler that fails adds to the failures that are owed, and it adds
\* to the failures.
LEMMA OwedStep ==
  ASSUME QueueInv, [Next]_vars
  PROVE  OwedKept
<1>i. Stages
  BY DEF QueueInv
<1> USE DEF TypeOK, QueueTypeOK, OwedKept, Owed, Current, store, clients, reserving
<1>1. ASSUME NEW j \in site.jobs, NEW k \in Key \cup {Absent}, MemoryEnqueue(j, k) PROVE
      OwedKept
  BY QueueFacts, ProcFacts, <1>i, <1>1 DEF MemoryEnqueue, Insert
<1>2. ASSUME NEW j \in site.jobs, NEW k \in Key \cup {Absent}, DurableEnqueueRead(j, k)
      PROVE OwedKept
  BY QueueFacts, ProcFacts, <1>i, <1>2 DEF DurableEnqueueRead
<1>3. ASSUME NEW j \in site.jobs, DurableEnqueueWrite(j) PROVE OwedKept
  BY QueueFacts, ProcFacts, <1>i, <1>3 DEF DurableEnqueueWrite, Insert
<1>4. ASSUME NEW p \in SiteProc, SweepList(p) PROVE OwedKept
  BY QueueFacts, ProcFacts, <1>i, <1>4 DEF SweepList, Goto, MaySweep, AfterSweep
<1>5. ASSUME NEW p \in SiteProc, SweepWrite(p) PROVE OwedKept
  BY QueueFacts, ProcFacts, <1>i, <1>5 DEF SweepWrite, Goto, AfterSweep
<1>6. CASE MemoryStatus
  BY QueueFacts, ProcFacts, <1>i, <1>6 DEF MemoryStatus
<1>7. ASSUME NEW w \in site.workers, MemoryReserve(w) PROVE OwedKept
  BY QueueFacts, ProcFacts, <1>i, <1>7 DEF MemoryReserve, Goto
<1>8. ASSUME NEW w \in site.workers, DurableList(w) PROVE OwedKept
  BY QueueFacts, ProcFacts, <1>8, ListStep
<1>9. ASSUME NEW w \in site.workers, DurableLease(w) PROVE OwedKept
  <2>1. PICK c \in pend[w] : LeasesOne(w, c)
    BY QueueFacts, <1>9, LeaseStep
  <2> QED
    BY QueueFacts, ProcFacts, <2>1 DEF LeasesOne
<1>10. ASSUME NEW w \in site.workers, Take(w) PROVE OwedKept
  BY QueueFacts, ProcFacts, <1>i, <1>10 DEF Take, Goto
<1>11. ASSUME NEW w \in site.workers, NEW o \in {"ok", "error"}, HandlerReturns(w, o)
      PROVE OwedKept
  <2>1. /\ at[Run(w)] = "handle" /\ at' = [at EXCEPT ![Run(w)] = "join"]
        /\ outcome' = [outcome EXCEPT ![w] = o] /\ batch' = batch
        /\ failures' = IF o = "error" /\ failures[Current(w)] < MaxAttempts
                       THEN [failures EXCEPT ![Current(w)] = @ + 1] ELSE failures
    BY <1>11 DEF HandlerReturns, Goto
  <2>2. w \in Worker /\ Current(w) \in Job
    BY QueueFacts, <1>i, <2>1 DEF Stages
  <2>3. ASSUME NEW j \in Job PROVE Owed(j)' \subseteq Owed(j) \cup {w}
    BY QueueFacts, ProcFacts, <2>1, <2>2
  <2>4. ASSUME NEW j \in Job, o # "error" \/ Current(w) # j PROVE Owed(j)' \subseteq Owed(j)
    BY QueueFacts, ProcFacts, <2>1, <2>2, <2>4
  <2>5. ASSUME NEW j \in Job, o = "error", Current(w) = j
        PROVE  failures'[j] = MaxAttempts \/ failures'[j] = failures[j] + 1
    <3>1. failures[j] \in 0..MaxAttempts /\ MaxAttempts \in Nat
      BY QueueFacts
    <3>2. failures \in [Job -> 0..MaxAttempts]
      BY QueueFacts
    <3> HIDE DEF TypeOK, QueueTypeOK, Owed
    <3>3. CASE failures[j] < MaxAttempts
      <4>1. failures' = [failures EXCEPT ![j] = failures[j] + 1]
        BY <2>1, <2>5, <3>3
      <4> QED
        BY <3>2, <4>1
    <3>4. CASE ~(failures[j] < MaxAttempts)
      <4>1. failures' = failures
        BY <2>1, <2>5, <3>4
      <4> QED
        BY <3>1, <3>4, <4>1
    <3> QED
      BY <3>3, <3>4
  <2>6. ASSUME NEW j \in Job, o # "error" \/ Current(w) # j PROVE failures'[j] = failures[j]
    BY QueueFacts, <2>1, <2>2, <2>6
  <2> HIDE DEF Owed, TypeOK
  <2> QED
    BY <2>2, <2>3, <2>4, <2>5, <2>6
<1>12. ASSUME NEW w \in site.workers, Join(w) PROVE OwedKept
  BY QueueFacts, ProcFacts, <1>i, <1>12 DEF Join, Goto
<1>13. ASSUME NEW w \in site.workers, MemoryReport(w) PROVE OwedKept
  BY QueueFacts, ProcFacts, <1>i, <1>13 DEF MemoryReport, Done, Goto
<1>14. ASSUME NEW w \in site.workers, DurableReportLoad(w) PROVE OwedKept
  BY QueueFacts, ProcFacts, <1>i, <1>14 DEF DurableReportLoad, Goto
<1>15. ASSUME NEW w \in site.workers, DurableReportWrite(w) PROVE OwedKept
  BY QueueFacts, ProcFacts, <1>i, <1>15 DEF DurableReportWrite, Done, Goto
<1>16. ASSUME NEW w \in site.workers, ExtStop(w) PROVE OwedKept
  BY QueueFacts, ProcFacts, <1>i, <1>16 DEF ExtStop, Loop, Cancelled, Goto
<1>17. ASSUME NEW w \in site.workers, MemoryExtend(w) PROVE OwedKept
  BY QueueFacts, ProcFacts, <1>i, <1>17 DEF MemoryExtend, Cancelled
<1>18. ASSUME NEW w \in site.workers, DurableExtendLoad(w) PROVE OwedKept
  BY QueueFacts, ProcFacts, <1>i, <1>18 DEF DurableExtendLoad, Loop, Cancelled, Goto
<1>19. ASSUME NEW w \in site.workers, DurableExtendWrite(w) PROVE OwedKept
  BY QueueFacts, ProcFacts, <1>i, <1>19 DEF DurableExtendWrite, Loop, Cancelled, Goto
<1>20. ASSUME NEW w \in site.workers, ReserveFails(w) PROVE OwedKept
  BY QueueFacts, ProcFacts, <1>i, <1>20 DEF ReserveFails, Goto
<1>21. ASSUME NEW w \in site.workers, ReportFails(w) PROVE OwedKept
  BY QueueFacts, ProcFacts, <1>i, <1>21 DEF ReportFails, Done, Goto
<1>22. ASSUME NEW w \in site.workers, ExtendFails(w) PROVE OwedKept
  BY QueueFacts, ProcFacts, <1>i, <1>22 DEF ExtendFails, Loop, Cancelled, Goto
<1>23. CASE Crash
  BY QueueFacts, ProcFacts, <1>i, <1>23 DEF Crash, Start
<1>24. CASE Tick
  BY QueueFacts, ProcFacts, <1>i, <1>24 DEF Tick
<1>25. CASE UNCHANGED vars
  BY QueueFacts, ProcFacts, <1>i, <1>25 DEF vars
<1> QED
  BY QueueFacts, <1>1, <1>2, <1>3, <1>4, <1>5, <1>6, <1>7, <1>8, <1>9, <1>10, <1>11, <1>12,
     <1>13, <1>14, <1>15, <1>16, <1>17, <1>18, <1>19, <1>20, <1>21, <1>22, <1>23, <1>24, <1>25
     DEF Next, Enqueue, Reserve, Process, Extend, Status

\* What the failures of a job cover they go on covering.
LEMMA CoveredKept ==
  ASSUME QueueInv, [Next]_vars, NEW j \in Job
  PROVE  Covered[j] \subseteq Covered'[j] /\ (failures[j] = MaxAttempts => failures'[j] = MaxAttempts)
<1>1. /\ MaxAttempts \in Nat /\ failures[j] \in 0..MaxAttempts /\ failures'[j] \in 0..MaxAttempts
  BY QueueFacts, MetersStep DEF TypeOK, Meters
<1>2. /\ IsFiniteSet(Owed(j)) /\ IsFiniteSet(Owed(j)')
      /\ Cardinality(Owed(j)) \in Nat /\ Cardinality(Owed(j)') \in Nat
  <2>1. Owed(j) \subseteq Worker /\ Owed(j)' \subseteq Worker
    BY DEF Owed
  <2> QED
    BY <2>1, QueueAssumption, FS_Subset, FS_CardinalityType
<1>3. \A X : X \subseteq Owed(j) => Cardinality(X) <= Cardinality(Owed(j))
  BY <1>2, FS_Subset
<1>4. ASSUME NEW w PROVE Cardinality(Owed(j) \cup {w}) <= Cardinality(Owed(j)) + 1
  <2>1. Cardinality(Owed(j) \cup {w}) = IF w \in Owed(j) THEN Cardinality(Owed(j)) ELSE Cardinality(Owed(j)) + 1
    BY <1>2, FS_AddElement
  <2> QED
    BY <1>2, <2>1
<1>5. ASSUME NEW w, Owed(j)' \subseteq Owed(j) \cup {w}
      PROVE  Cardinality(Owed(j)') <= Cardinality(Owed(j)) + 1
  <2>1. /\ IsFiniteSet(Owed(j) \cup {w}) /\ Cardinality(Owed(j) \cup {w}) \in Nat
        /\ Cardinality(Owed(j)') <= Cardinality(Owed(j) \cup {w})
    BY <1>2, <1>5, FS_AddElement, FS_CardinalityType, FS_Subset
  <2> QED
    BY <1>2, <1>4, <2>1
<1>6. \/ failures'[j] = failures[j] /\ Cardinality(Owed(j)') <= Cardinality(Owed(j))
      \/ failures'[j] = MaxAttempts
      \/ failures'[j] = failures[j] + 1 /\ Cardinality(Owed(j)') <= Cardinality(Owed(j)) + 1
  BY <1>3, <1>5, OwedStep DEF OwedKept
<1>7. ASSUME NEW a \in 0..MaxAttempts,
             failures[j] = MaxAttempts \/ a + Cardinality(Owed(j)) <= failures[j]
      PROVE  failures'[j] = MaxAttempts \/ a + Cardinality(Owed(j)') <= failures'[j]
  BY <1>1, <1>2, <1>6, <1>7
<1> QED
  BY <1>1, <1>6, <1>7 DEF Covered

\* The report of a failure counts the one that was owed; the last attempt
\* is reported dead when every one of them has failed.
LEMMA ReportCounted ==
  ASSUME QueueInv, [Next]_vars, NEW w \in Worker, NEW j \in Job, j = Current(w),
         at[Run(w)] = "load", rec[j] \in Record, failures' = failures,
         at'[Run(w)] \notin {"join", "load"}
  PROVE  LET r == Reported(rec[j], outcome[w])
         IN  r.attempt \in Covered'[j] /\ (r.st = "dead" => failures[j] = MaxAttempts)
<1> DEFINE r == Reported(rec[j], outcome[w])
<1>1. outcome[w] \in Outcomes \ {"none"}
  BY QueueFacts DEF TypeOK, QueueTypeOK, QueueInv, Stages
<1>2. /\ r.attempt = rec[j].attempt \/ (outcome[w] = "error" /\ r.attempt = rec[j].attempt + 1)
      /\ r.st = "dead" => outcome[w] = "error" /\ rec[j].attempt = MaxAttempts - 1
      /\ r \in Record
  BY <1>1, QueueFacts, ReportOps
<1>3. rec[j].attempt \in Covered[j] /\ rec[j].attempt \in 0..MaxAttempts - 1
  BY QueueFacts DEF QueueInv, AttemptsCounted, RecordsCounted, Counted, Record
<1>4. /\ MaxAttempts \in Nat /\ failures[j] \in 0..MaxAttempts /\ MaxAttempts >= 1
  BY QueueFacts DEF TypeOK
<1>5. failures[j] = MaxAttempts \/ rec[j].attempt + Cardinality(Owed(j)) <= failures[j]
  BY <1>3 DEF Covered
<1>o. Owed(j)' \subseteq Owed(j) \/ failures[j] = MaxAttempts
  BY <1>4, OwedStep DEF OwedKept
<1>6. CASE r.attempt = rec[j].attempt /\ r.st # "dead"
  BY <1>3, <1>6, CoveredKept
<1>m. CASE failures[j] = MaxAttempts
  <2>1. r.attempt \in 0..MaxAttempts
    BY <1>2, <1>3, <1>4
  <2> QED
    BY <1>m, <2>1 DEF Covered
<1>7. CASE outcome[w] = "error" /\ Owed(j)' \subseteq Owed(j)
  <2>1. w \in Owed(j) /\ w \notin Owed(j)'
    BY <1>7 DEF Owed
  <2>2. /\ Cardinality(Owed(j)') \in Nat /\ Cardinality(Owed(j)) \in Nat
        /\ Cardinality(Owed(j)') + 1 <= Cardinality(Owed(j))
    <3>1. IsFiniteSet(Owed(j))
      BY QueueAssumption, FS_Subset DEF Owed
    <3>2. /\ IsFiniteSet(Owed(j) \ {w}) /\ Cardinality(Owed(j) \ {w}) = Cardinality(Owed(j)) - 1
      BY <2>1, <3>1, FS_RemoveElement
    <3>3. /\ IsFiniteSet(Owed(j)') /\ Cardinality(Owed(j)') <= Cardinality(Owed(j) \ {w})
      BY <1>7, <2>1, <3>2, FS_Subset
    <3> QED
      BY <3>1, <3>2, <3>3, FS_CardinalityType
  <2>3. r.attempt \in 0..MaxAttempts /\ r.attempt <= rec[j].attempt + 1
    BY <1>2, <1>3, <1>4
  <2>4. r.st = "dead" => failures[j] = MaxAttempts
    BY <1>2, <1>3, <1>4, <1>5, <2>2
  <2>5. failures[j] = MaxAttempts \/ r.attempt + Cardinality(Owed(j)') <= failures[j]
    BY <1>3, <1>4, <1>5, <2>2, <2>3
  <2> QED
    BY <2>3, <2>4, <2>5 DEF Covered
<1> QED
  BY <1>2, <1>o, <1>6, <1>m, <1>7

\* No write puts a record ahead of the failures of its job.
LEMMA RecordsStep ==
  ASSUME QueueInv, [Next]_vars
  PROVE  RecordsCounted'
<1>i. Stages /\ Named /\ Indexed /\ RecordsCounted /\ ListedCounted /\ CopiesCounted
  BY DEF QueueInv, AttemptsCounted
<1> USE DEF TypeOK, QueueTypeOK, Kept, RecordsCounted, Counted, store, clients, reserving
<1>1. ASSUME NEW j \in site.jobs, NEW k \in Key \cup {Absent}, MemoryEnqueue(j, k) PROVE
      RecordsCounted'
  <2>1. rec' = rec \/ rec' = [rec EXCEPT ![j] = Fresh]
    BY <1>1 DEF MemoryEnqueue, Insert
  <2>2. j \in Job /\ Fresh.st # "dead" /\ Fresh.attempt = 0
    BY QueueFacts, RecordOps
  <2> QED
    BY QueueFacts, CoveredKept, <1>i, <2>1, <2>2, SMTT(30)
<1>2. ASSUME NEW j \in site.jobs, NEW k \in Key \cup {Absent}, DurableEnqueueRead(j, k)
      PROVE RecordsCounted'
  BY QueueFacts, KeptStep, CoveredKept, <1>i, <1>2 DEF DurableEnqueueRead
<1>3. ASSUME NEW j \in site.jobs, DurableEnqueueWrite(j) PROVE RecordsCounted'
  <2>1. rec' = [rec EXCEPT ![j] = Fresh]
    BY <1>3 DEF DurableEnqueueWrite, Insert
  <2>2. j \in Job /\ Fresh.st # "dead" /\ Fresh.attempt = 0
    BY QueueFacts, RecordOps
  <2> QED
    BY QueueFacts, CoveredKept, <1>i, <2>1, <2>2
<1>4. ASSUME NEW p \in SiteProc, SweepList(p) PROVE RecordsCounted'
  BY QueueFacts, KeptStep, CoveredKept, <1>i, <1>4 DEF SweepList, Goto, MaySweep,
     AfterSweep
<1>5. ASSUME NEW p \in SiteProc, SweepWrite(p) PROVE RecordsCounted'
  <2>1. PICK j \in todo[p] :
            rec' = IF rec[j].st = "leased" THEN [rec EXCEPT ![j] = Requeued(@)] ELSE rec
    BY <1>5 DEF SweepWrite
  <2>2. j \in Job /\ rec[j] \in Record
    BY QueueFacts, <1>i, <1>5 DEF Named
  <2>3. Requeued(rec[j]).st = "queued" /\ Requeued(rec[j]).attempt = rec[j].attempt
    BY QueueFacts, <2>2, RecordOps
  <2> QED
    BY QueueFacts, CoveredKept, <1>i, <2>1, <2>2, <2>3
<1>6. CASE MemoryStatus
  BY QueueFacts, CoveredKept, SweptFacts, <1>i, <1>6 DEF MemoryStatus
<1>7. ASSUME NEW w \in site.workers, MemoryReserve(w) PROVE RecordsCounted'
  <2>1. PICK got \in SUBSET {j \in Job : Swept[j] # Absent} :
            rec' = [j \in Job |-> IF j \in got THEN Leased(Swept[j], site.lease) ELSE Swept[j]]
    BY <1>7, FrontIn DEF MemoryReserve
  <2>2. \A j \in got : /\ Leased(Swept[j], site.lease).st = "leased"
                       /\ Leased(Swept[j], site.lease).attempt = Swept[j].attempt
    BY SweptFacts, FullLease
  <2>3. \A j \in Job : rec'[j] # Absent => /\ rec[j] # Absent /\ rec'[j].attempt = rec[j].attempt
                                           /\ rec'[j].st = "dead" => rec[j].st = "dead"
    BY SweptFacts, <2>1, <2>2
  <2> QED
    BY QueueFacts, CoveredKept, <1>i, <2>3
<1>8. ASSUME NEW w \in site.workers, DurableList(w) PROVE RecordsCounted'
  BY QueueFacts, CoveredKept, <1>i, <1>8, ListStep
<1>9. ASSUME NEW w \in site.workers, DurableLease(w) PROVE RecordsCounted'
  <2>1. PICK c \in pend[w] : LeasesOne(w, c)
    BY QueueFacts, <1>9, LeaseStep
  <2> DEFINE r == Leased([Fresh EXCEPT !.attempt = c.attempt], pexp[w])
  <2>2. r.st = "leased" /\ r.attempt = c.attempt
    BY QueueFacts, <2>1, CandidateOps DEF LeasesOne
  <2>3. c.job \in Job /\ rec' = [rec EXCEPT ![c.job] = r]
    BY <2>1 DEF LeasesOne
  <2>4. c.attempt \in Covered[c.job]
    BY QueueFacts, <1>i DEF ListedCounted
  <2> HIDE DEF r
  <2> QED
    BY QueueFacts, CoveredKept, <1>i, <2>2, <2>3, <2>4
<1>10. ASSUME NEW w \in site.workers, Take(w) PROVE RecordsCounted'
  BY QueueFacts, KeptStep, CoveredKept, <1>i, <1>10 DEF Take, Goto
<1>11. ASSUME NEW w \in site.workers, NEW o \in {"ok", "error"}, HandlerReturns(w, o)
      PROVE RecordsCounted'
  BY QueueFacts, KeptStep, CoveredKept, <1>i, <1>11 DEF HandlerReturns, Goto
<1>12. ASSUME NEW w \in site.workers, Join(w) PROVE RecordsCounted'
  BY QueueFacts, KeptStep, CoveredKept, <1>i, <1>12 DEF Join, Goto
<1>13. ASSUME NEW w \in site.workers, MemoryReport(w) PROVE RecordsCounted'
  <2>1. /\ w \in Worker /\ Current(w) \in Job /\ rec[Current(w)] \in Record /\ batch[w] # {}
    BY QueueFacts, <1>i, <1>13 DEF MemoryReport, Stages, Named
  <2>2. /\ at[Run(w)] = "load" /\ failures' = failures /\ at'[Run(w)] = "take"
        /\ rec' = [rec EXCEPT ![Current(w)] = Reported(@, outcome[w])]
    BY QueueFacts, <1>13 DEF MemoryReport, Done, Goto
  <2> QED
    BY QueueFacts, CoveredKept, ReportCounted, <1>i, <2>1, <2>2
<1>14. ASSUME NEW w \in site.workers, DurableReportLoad(w) PROVE RecordsCounted'
  BY QueueFacts, KeptStep, CoveredKept, <1>i, <1>14 DEF DurableReportLoad, Goto
<1>15. ASSUME NEW w \in site.workers, DurableReportWrite(w) PROVE RecordsCounted'
  <2>1. Current(w) \in Job /\ copy[Run(w)] # Absent
    BY QueueFacts, <1>i, <1>15 DEF DurableReportWrite, Stages
  <2> QED
    BY QueueFacts, CoveredKept, <1>i, <2>1, <1>15 DEF DurableReportWrite, CopiesCounted
<1>16. ASSUME NEW w \in site.workers, ExtStop(w) PROVE RecordsCounted'
  BY QueueFacts, KeptStep, CoveredKept, <1>i, <1>16 DEF ExtStop, Loop, Cancelled, Goto
<1>17. ASSUME NEW w \in site.workers, MemoryExtend(w) PROVE RecordsCounted'
  <2>1. extjob[w] \in Job /\ Swept[extjob[w]] \in Record
    BY QueueFacts, SweptFacts, <1>i, <1>17, SMTT(30) DEF MemoryExtend, Stages, Named
  <2>2. /\ Leased(Swept[extjob[w]], site.lease).st = "leased"
        /\ Leased(Swept[extjob[w]], site.lease).attempt = Swept[extjob[w]].attempt
    BY <2>1, FullLease
  <2>3. \/ rec' = Swept
        \/ rec' = [Swept EXCEPT ![extjob[w]] = Leased(Swept[extjob[w]], site.lease)]
    BY <1>17 DEF MemoryExtend
  <2>4. \A j \in Job : rec'[j] # Absent => /\ rec[j] # Absent /\ rec'[j].attempt = rec[j].attempt
                                           /\ rec'[j].st = "dead" => rec[j].st = "dead"
    BY QueueFacts, SweptFacts, <2>1, <2>2, <2>3
  <2> QED
    BY QueueFacts, CoveredKept, <1>i, <2>4
<1>18. ASSUME NEW w \in site.workers, DurableExtendLoad(w) PROVE RecordsCounted'
  BY QueueFacts, KeptStep, CoveredKept, <1>i, <1>18 DEF DurableExtendLoad, Loop, Cancelled,
     Goto
<1>19. ASSUME NEW w \in site.workers, DurableExtendWrite(w) PROVE RecordsCounted'
  <2>1. extjob[w] \in Job /\ copy[Ext(w)] # Absent
    BY QueueFacts, <1>i, <1>19 DEF DurableExtendWrite, Stages
  <2> QED
    BY QueueFacts, CoveredKept, <1>i, <2>1, <1>19 DEF DurableExtendWrite, CopiesCounted
<1>20. ASSUME NEW w \in site.workers, ReserveFails(w) PROVE RecordsCounted'
  BY QueueFacts, KeptStep, CoveredKept, <1>i, <1>20 DEF ReserveFails, Goto
<1>21. ASSUME NEW w \in site.workers, ReportFails(w) PROVE RecordsCounted'
  BY QueueFacts, KeptStep, CoveredKept, <1>i, <1>21 DEF ReportFails, Done, Goto
<1>22. ASSUME NEW w \in site.workers, ExtendFails(w) PROVE RecordsCounted'
  BY QueueFacts, KeptStep, CoveredKept, <1>i, <1>22 DEF ExtendFails, Loop, Cancelled, Goto
<1>23. CASE Crash
  BY QueueFacts, KeptStep, CoveredKept, <1>i, <1>23 DEF Crash, Start
<1>24. CASE Tick
  <2>1. \A j \in Job : rec'[j] = Older(rec[j])
    BY <1>24 DEF Tick
  <2>2. \A j \in Job : rec'[j] # Absent => /\ rec[j] # Absent /\ rec'[j].attempt = rec[j].attempt
                                           /\ rec'[j].st = rec[j].st
    <3>1. ASSUME NEW j \in Job, rec'[j] # Absent
          PROVE  rec[j] # Absent /\ rec'[j].attempt = rec[j].attempt /\ rec'[j].st = rec[j].st
      <4>1. rec[j] \in Record
        BY QueueFacts, RecordOps, <2>1, <3>1
      <4>2. site \in Sites /\ Absent \notin Record
        BY QueueFacts
      <4>3. Older(rec[j]).st = rec[j].st /\ Older(rec[j]).attempt = rec[j].attempt
        BY <4>1, <4>2, RecordOps
      <4> QED
        BY <2>1, <3>1, <4>1, <4>2, <4>3
    <3> QED
      BY <3>1
  <2> QED
    BY QueueFacts, CoveredKept, <1>i, <2>2
<1>25. CASE UNCHANGED vars
  BY QueueFacts, KeptStep, CoveredKept, <1>i, <1>25 DEF vars
<1> QED
  BY QueueFacts, <1>1, <1>2, <1>3, <1>4, <1>5, <1>6, <1>7, <1>8, <1>9, <1>10, <1>11, <1>12,
     <1>13, <1>14, <1>15, <1>16, <1>17, <1>18, <1>19, <1>20, <1>21, <1>22, <1>23, <1>24, <1>25
     DEF Next, Enqueue, Reserve, Process, Extend, Status

\* A candidate is listed with the attempts its record has.
LEMMA ListedStep ==
  ASSUME QueueInv, [Next]_vars
  PROVE  ListedCounted'
<1> SUFFICES ASSUME NEW w \in Worker, NEW c \in pend'[w]
             PROVE  c.attempt \in Covered'[c.job]
  BY DEF ListedCounted
<1>1. c.job \in Job
  BY QueueTyped DEF QueueTypeOK
<1>2. CASE c \in pend[w]
  BY <1>1, <1>2, CoveredKept DEF QueueInv, AttemptsCounted, ListedCounted
<1>3. CASE c \notin pend[w]
  <2>1. rec[c.job] # Absent /\ c.attempt = rec[c.job].attempt
    BY <1>3, HandsStep DEF Hands
  <2> QED
    BY <1>1, <2>1, CoveredKept DEF QueueInv, AttemptsCounted, RecordsCounted, Counted
<1> QED
  BY <1>2, <1>3

\* Each operation leaves a copy alone, makes one of the record it reads, or
\* is done with it.
LEMMA CopiedStep ==
  ASSUME QueueInv, [Next]_vars
  PROVE  Copied
<1>i. Stages /\ Named
  BY DEF QueueInv
<1> USE DEF TypeOK, QueueTypeOK, Copied, Aged, store, clients, reserving
<1>1. ASSUME NEW j \in site.jobs, NEW k \in Key \cup {Absent}, MemoryEnqueue(j, k) \/
      DurableEnqueueRead(j, k) PROVE Copied
  BY QueueFacts, ProcFacts, <1>i, <1>1 DEF MemoryEnqueue, DurableEnqueueRead, Insert
<1>2. ASSUME NEW j \in site.jobs, DurableEnqueueWrite(j) PROVE Copied
  BY QueueFacts, ProcFacts, <1>i, <1>2 DEF DurableEnqueueWrite, Insert
<1>3. ASSUME NEW p \in SiteProc, SweepList(p) \/ SweepWrite(p) PROVE Copied
  BY QueueFacts, ProcFacts, <1>i, <1>3 DEF SweepList, SweepWrite, Goto, MaySweep,
     AfterSweep
<1>4. ASSUME NEW w \in site.workers, MemoryReserve(w) PROVE Copied
  <2>1. /\ \A v \in Worker : v # w => batch'[v] = batch[v]
        /\ UNCHANGED <<copy, extjob>> /\ at[Run(w)] = "poll"
    BY QueueFacts, <1>4 DEF MemoryReserve
  <2> QED
    BY QueueFacts, <1>i, <2>1 DEF Stages
<1>5. ASSUME NEW w \in site.workers, DurableList(w) PROVE Copied
  BY QueueFacts, <1>5, ListStep
<1>6. ASSUME NEW w \in site.workers, DurableLease(w) PROVE Copied
  <2>1. PICK c \in pend[w] : LeasesOne(w, c)
    BY QueueFacts, <1>6, LeaseStep
  <2>2. /\ \A v \in Worker : v # w => batch'[v] = batch[v]
        /\ UNCHANGED <<copy, extjob>> /\ at[Run(w)] = "lease"
    BY QueueFacts, <2>1 DEF LeasesOne
  <2> QED
    BY QueueFacts, <1>i, <2>2 DEF Stages
<1>7. ASSUME NEW w \in site.workers, Take(w) PROVE Copied
  <2>1. /\ \A v \in Worker : v # w => extjob'[v] = extjob[v]
        /\ UNCHANGED <<copy, batch>> /\ at[Run(w)] = "take"
    BY QueueFacts, <1>7 DEF Take
  <2>2. copy[Ext(w)] = Absent
    BY QueueFacts, <1>i, <2>1 DEF Stages
  <2> QED
    BY QueueFacts, <2>1, <2>2
<1>8. ASSUME NEW w \in site.workers, NEW o \in {"ok", "error"}, HandlerReturns(w, o)
      PROVE Copied
  BY QueueFacts, ProcFacts, <1>i, <1>8 DEF HandlerReturns, Goto
<1>9. ASSUME NEW w \in site.workers, Join(w) \/ MemoryReport(w) \/ DurableReportWrite(w)
      \/ ReportFails(w) PROVE Copied
  BY QueueFacts, ProcFacts, <1>i, <1>9 DEF Join, MemoryReport, DurableReportWrite,
     ReportFails, Goto, Done
<1>10. ASSUME NEW w \in site.workers, DurableReportLoad(w) PROVE Copied
  BY QueueFacts, ProcFacts, <1>i, <1>10 DEF DurableReportLoad, Goto
<1>11. ASSUME NEW w \in site.workers, ExtStop(w) PROVE Copied
  <2>1. /\ \A v \in Worker : v # w => extjob'[v] = extjob[v]
        /\ UNCHANGED <<copy, batch>> /\ at[Ext(w)] = "sleep"
    BY QueueFacts, <1>11 DEF ExtStop, Loop
  <2>2. copy[Ext(w)] = Absent
    BY QueueFacts, <1>i, <2>1 DEF Stages
  <2> QED
    BY QueueFacts, <2>1, <2>2
<1>12. ASSUME NEW w \in site.workers, MemoryExtend(w) PROVE Copied
  BY QueueFacts, ProcFacts, <1>i, <1>12 DEF MemoryExtend, Cancelled
<1>13. ASSUME NEW w \in site.workers, DurableExtendLoad(w) PROVE Copied
  <2>1. rec[extjob[w]] \in Record
    BY QueueFacts, <1>i, <1>13 DEF DurableExtendLoad, Stages, Named
  <2>2. /\ Leased(rec[extjob[w]], site.lease).st = "leased"
        /\ Leased(rec[extjob[w]], site.lease).attempt = rec[extjob[w]].attempt
    BY <2>1, FullLease
  <2>3. /\ batch' = batch /\ at[Ext(w)] = "load"
        /\ \/ copy' = [copy EXCEPT ![Ext(w)] = Leased(rec[extjob[w]], site.lease)] /\ extjob' = extjob
           \/ copy' = copy /\ \A v \in Worker : v # w => extjob'[v] = extjob[v]
    BY QueueFacts, <1>13 DEF DurableExtendLoad, Loop
  <2>4. copy[Ext(w)] = Absent
    BY QueueFacts, <1>i, <2>3 DEF Stages
  <2> QED
    BY QueueFacts, ProcFacts, <2>2, <2>3, <2>4
<1>14. ASSUME NEW w \in site.workers, DurableExtendWrite(w) PROVE Copied
  BY QueueFacts, ProcFacts, <1>i, <1>14 DEF DurableExtendWrite, Loop, Cancelled, Goto
<1>15. ASSUME NEW w \in site.workers, ReserveFails(w) PROVE Copied
  <2>1. /\ \A v \in Worker : v # w => batch'[v] = batch[v]
        /\ UNCHANGED <<copy, extjob>> /\ at[Run(w)] # "write"
    BY QueueFacts, <1>15 DEF ReserveFails
  <2> QED
    BY QueueFacts, <1>i, <2>1 DEF Stages
<1>16. ASSUME NEW w \in site.workers, ExtendFails(w) PROVE Copied
  BY QueueFacts, ProcFacts, <1>i, <1>16 DEF ExtendFails, Loop, Cancelled, Goto
<1>17. CASE MemoryStatus
  BY QueueFacts, <1>17 DEF MemoryStatus
<1>18. CASE Crash
  BY QueueFacts, ProcFacts, <1>i, <1>18 DEF Crash, Start
<1>19. CASE Tick
  <2>1. UNCHANGED <<batch, extjob>> /\ \A p \in Proc : copy'[p] = Older(copy[p])
    BY <1>19 DEF Tick
  <2>2. ASSUME NEW p \in Proc, copy'[p] # Absent PROVE Aged(p)
    <3>1. copy[p] \in Record
      BY QueueFacts, RecordOps, <2>1, <2>2
    <3>2. site \in Sites /\ Absent \notin Record
      BY QueueFacts
    <3>3. Older(copy[p]).st = copy[p].st /\ Older(copy[p]).attempt = copy[p].attempt
      BY <3>1, <3>2, RecordOps
    <3> QED
      BY <2>1, <2>2, <3>1, <3>2, <3>3
  <2> QED
    BY ProcFacts, <2>1, <2>2
<1>20. CASE UNCHANGED vars
  BY QueueFacts, ProcFacts, <1>i, <1>20 DEF vars
<1> QED
  BY QueueFacts, ZenonT(60), <1>1, <1>2, <1>3, <1>4, <1>5, <1>6, <1>7, <1>8, <1>9, <1>10, <1>11, <1>12,
     <1>13, <1>14, <1>15, <1>16, <1>17, <1>18, <1>19, <1>20 DEF Next, Enqueue, Reserve,
     Process, Extend, Status

\* A report and an extension carry the attempts their record had when it
\* was read.
LEMMA CopiesStep ==
  ASSUME QueueInv, [Next]_vars
  PROVE  CopiesCounted'
<1> SUFFICES ASSUME NEW w \in Worker
             PROVE  /\ copy'[Run(w)] # Absent =>
                        /\ copy'[Run(w)].attempt \in Covered'[First(batch'[w])]
                        /\ copy'[Run(w)].st = "dead" => failures'[First(batch'[w])] = MaxAttempts
                    /\ copy'[Ext(w)] # Absent =>
                        /\ copy'[Ext(w)].attempt \in Covered'[extjob'[w]]
                        /\ copy'[Ext(w)].st = "dead" => failures'[extjob'[w]] = MaxAttempts
  BY DEF CopiesCounted, Counted, Current
<1>1. /\ Stages /\ Named /\ RecordsCounted /\ CopiesCounted
  BY DEF QueueInv, AttemptsCounted
<1>2. ASSUME copy'[Run(w)] # Absent
      PROVE  /\ copy'[Run(w)].attempt \in Covered'[First(batch'[w])]
             /\ copy'[Run(w)].st = "dead" => failures'[First(batch'[w])] = MaxAttempts
  <2>1. /\ batch'[w] = batch[w]
        /\ \/ Aged(Run(w))
           \/ /\ at[Run(w)] = "load" /\ at'[Run(w)] = "write" /\ failures' = failures
              /\ copy'[Run(w)] = Reported(rec[Current(w)], outcome[w])
    BY <1>2, CopiedStep DEF Copied
  <2>2. PICK j : j = Current(w)
    OBVIOUS
  <2>3. First(batch'[w]) = j
    BY <2>1, <2>2 DEF Current
  <2>4. j \in Job /\ j \in batch[w]
    BY <1>1, <2>1, <2>2, QueueFacts DEF Stages, Aged
  <2>5. CASE Aged(Run(w))
    BY <1>1, <2>2, <2>3, <2>4, <2>5, CoveredKept DEF Aged, CopiesCounted, Counted
  <2>6. CASE ~Aged(Run(w))
    <3>1. rec[j] \in Record
      BY <1>1, <2>4, QueueFacts DEF Named, TypeOK, QueueTypeOK
    <3> QED
      BY <2>1, <2>2, <2>3, <2>4, <2>6, <3>1, ReportCounted
  <2> QED
    BY <2>5, <2>6
<1>3. ASSUME copy'[Ext(w)] # Absent
      PROVE  /\ copy'[Ext(w)].attempt \in Covered'[extjob'[w]]
             /\ copy'[Ext(w)].st = "dead" => failures'[extjob'[w]] = MaxAttempts
  <2>1. /\ extjob'[w] = extjob[w]
        /\ \/ Aged(Ext(w))
           \/ /\ at[Ext(w)] = "load" /\ copy'[Ext(w)].st = "leased"
              /\ copy'[Ext(w)].attempt = rec[extjob[w]].attempt
    BY <1>3, CopiedStep DEF Copied
  <2>2. extjob[w] \in Job /\ extjob[w] \in batch[w]
    BY <1>1, <2>1, QueueFacts DEF Stages, Aged, TypeOK, QueueTypeOK
  <2>3. rec[extjob[w]] # Absent
    BY <1>1, <2>2 DEF Named
  <2> QED
    BY <1>1, <2>1, <2>2, <2>3, CoveredKept DEF Aged, CopiesCounted, RecordsCounted, Counted
<1> QED
  BY <1>2, <1>3

\* Where nothing has been enqueued nothing is owed, named or held.
LEMMA QueueInit ==
  ASSUME Init
  PROVE  QueueInv
<1>1. /\ site \in Sites /\ site.lease \in Nat /\ 0 \in 0..site.lease
      /\ MaxAttempts \in Nat /\ 0 \in 0..MaxAttempts /\ MaxFaults \in Nat /\ 0 \in 0..MaxFaults
  BY QueueAssumption DEF Init
<1>2. /\ \A w \in Worker : at[Run(w)] = "poll" /\ at[Ext(w)] = "off"
      /\ at[Asker] = "idle"
      /\ \A p \in Proc : at[p] \in {"poll", "off", "idle"}
  BY ProcFacts DEF Init, Start
<1>3. QueueTypeOK
  BY <1>1 DEF Init, QueueTypeOK, Start, Outcomes
<1>4. TypeOK
  BY <1>1, <1>3 DEF Init, TypeOK
<1>5. Stages
  BY <1>2, ProcFacts DEF Init, Stages, RunPcs, ExtPcs
<1>6. Named /\ Indexed
  BY DEF Init, Named, AnsweredIsStored, Indexed
<1>7. ASSUME NEW j \in Job PROVE 0 \in Covered[j]
  <2>1. Owed(j) = {}
    BY <1>7 DEF Init, Owed
  <2>2. Cardinality(Owed(j)) = 0
    BY <2>1, FS_EmptySet
  <2> QED
    BY <1>1, <1>7, <2>2 DEF Init, Covered
<1>8. AttemptsCounted
  BY <1>7, ProcFacts DEF Init, AttemptsCounted, RecordsCounted, ListedCounted, CopiesCounted
<1>9. LeasesHeld /\ OutsideIdle /\ AloneUnfinished
  BY <1>1, <1>2, QueueAssumption DEF Init, LeasesHeld, SoleHolder, Expired, OutsideIdle,
     AloneUnfinished
<1> QED
  BY <1>4, <1>5, <1>6, <1>8, <1>9 DEF QueueInv

\* Every step of the queue keeps the invariant.
LEMMA QueueStep ==
  ASSUME QueueInv, [Next]_vars
  PROVE  QueueInv'
<1>1. TypeOK'
  <2>1. site' \in Sites
    BY QueueFacts, SiteFixed
  <2> QED
    BY <2>1, QueueTyped, MetersStep DEF TypeOK, Meters
<1>2. AttemptsCounted'
  BY RecordsStep, ListedStep, CopiesStep DEF AttemptsCounted
<1> QED
  BY <1>1, <1>2, StagesStep, NamedStep, IndexedStep, LeasesStep, OutsideStep, AloneStep
  DEF QueueInv

\* The inductive invariant of the queue: what each process has in hand,
\* that it is stored, and that attempts and leases are accounted for.
THEOREM QueueInvariant == Spec => []QueueInv
<1>1. Init => QueueInv
  BY QueueInit
<1>2. QueueInv /\ [Next]_vars => QueueInv'
  BY QueueStep
<1> QED
  BY <1>1, <1>2, PTL DEF Spec

\* Job, JobEnvelope and the worker's state keep their types: in particular
\* no record in the store or on its way there has used up max_attempts.
THEOREM QueueTypeCorrect == Spec => []TypeOK
<1>1. QueueInv => TypeOK
  BY DEF QueueInv
<1> QED
  BY <1>1, QueueInvariant, PTL

\* enqueue and nack: the id a call was given is that of a stored job, in
\* memory one key has one job, and no job is dead before its handler has
\* failed max_attempts times, for any workers, jobs, crashes and failures.
THEOREM JobsAreAccounted == Spec => []JobsAccounted
<1>1. QueueInv => JobsAccounted
  <2> SUFFICES ASSUME QueueInv PROVE JobsAccounted
    OBVIOUS
  <2>1. AnsweredIsStored
    BY DEF QueueInv, Named
  <2>2. OneJobPerKey
    BY DEF QueueInv, Indexed, OneJobPerKey
  <2>3. DeadWasTried
    BY DEF QueueInv, AttemptsCounted, RecordsCounted, Counted, DeadWasTried
  <2> QED
    BY <2>1, <2>2, <2>3 DEF JobsAccounted
<1> QED
  BY <1>1, QueueInvariant, PTL

\* MemoryQueue::reserve: as long as no lease has run out, no two workers
\* have the same job to report.
THEOREM QueueSoleHolder == Spec => []SoleHolder
<1>1. QueueInv => SoleHolder
  BY DEF QueueInv, LeasesHeld, SoleHolder
<1> QED
  BY <1>1, QueueInvariant, PTL

\* ack, nack, reserve and the sweep: a single worker of either backend, or
\* any number of them in memory with no lease run out, never takes a
\* finished job up again, nor finishes it another way.
THEOREM FinishedJobsStay == Spec => FinishedStays
<1>1. ASSUME QueueInv, [Next]_vars, OneWorker \/ (Memory /\ ~lapsed), NEW j \in Job, IsFinished(j)
      PROVE  rec'[j].st = rec[j].st
  <2>1. rec[j] # Absent /\ Moved(j)
    BY <1>1, MovesStep DEF Moves, IsFinished
  <2>2. \A w \in site.workers : w \in Worker
    BY <1>1, QueueFacts
  <2>3. ASSUME NEW w \in site.workers
        PROVE  j \notin batch[w] /\ (OneWorker => \A c \in pend[w] : c.job # j)
    <3>1. CASE OneWorker
      BY <1>1, <2>2, <2>3, <3>1 DEF QueueInv, AloneUnfinished
    <3>2. CASE ~OneWorker
      <4>1. Memory /\ ~lapsed
        BY <1>1, <3>2
      <4>2. \A i \in batch[w] : rec[i].st = "leased"
        BY <1>1, <2>2, <2>3, <4>1 DEF QueueInv, LeasesHeld
      <4> QED
        BY <1>1, <3>2, <4>2 DEF IsFinished
    <3> QED
      BY <3>1, <3>2
  <2>4. ASSUME NEW w \in site.workers
        PROVE  ~(at[Run(w)] \in {"load", "write"} /\ j = Current(w))
    BY <1>1, <2>2, <2>3, <2>4, QueueFacts DEF QueueInv, Stages
  <2>5. ASSUME NEW w \in site.workers
        PROVE  ~(at[Ext(w)] = "write" /\ j = Current(w))
    BY <1>1, <2>2, <2>3, <2>5, QueueFacts DEF QueueInv, Stages
  <2>6. rec[j].st # "leased" /\ rec[j].st # "queued" /\ ~Expired(rec[j])
    BY <1>1 DEF IsFinished, Expired
  <2> QED
    BY <1>1, <2>1, <2>3, <2>4, <2>5, <2>6, QueueFacts DEF Moved
<1>2. QueueInv /\ [Next]_vars =>
        [OneWorker \/ (Memory /\ ~lapsed) =>
            \A j \in Job : IsFinished(j) => rec'[j].st = rec[j].st]_vars
  BY <1>1
<1> QED
  BY <1>2, QueueInvariant, PTL DEF Spec, FinishedStays
=============================================================================
