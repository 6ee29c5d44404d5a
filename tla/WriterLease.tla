----------------------------- MODULE WriterLease -----------------------------
(***************************************************************************)
(* The single-writer lease on one [database].prefix (src/src/lease.rs),    *)
(* the oxkv store epochs it guards, the fencing latch                      *)
(* (src/src/fencing.rs) and the lease half of /ready (src/src/main.rs).    *)
(*                                                                         *)
(* A process is an element of Instance: instance_id() draws a fresh UUID   *)
(* per start.  Every request to the object store is a step of its own, so  *)
(* another process may act between a read and the write that follows it.   *)
(* Time is one clock of whole seconds that every process reads.            *)
(***************************************************************************)
EXTENDS Integers

CONSTANTS
    Instance,     \* processes that may claim the prefix
    NoLease,      \* the lease object is absent
    Outsider,     \* a writer that opens the stores without the lease
    TTL,          \* [database].writer_lease_ttl_secs
    NumStores,    \* oxkv stores opened in order: policy, fs, wal
    MaxClock,     \* bound on the clock
    MaxCrashes,   \* bound on the number of crashes
    Faults,       \* requests that may fail
    Timely,       \* no holder, and no claim, outlives its own record's TTL
    PromptStart,  \* no second passes between a claim's clock read and fetch
    Outsiders     \* an Outsider may open the stores

Requests == {"create", "fetch", "takeover", "renew_fetch", "renew_put",
             "release_fetch", "release_delete"}

LeaseRecord == [instance : Instance, renewed : Nat]

ASSUME LeaseAssumption ==
    /\ TTL \in Nat \ {0}
    /\ NumStores \in Nat
    /\ MaxClock \in Nat
    /\ MaxCrashes \in Nat
    /\ Faults \subseteq Requests
    /\ Timely \in BOOLEAN
    /\ PromptStart \in BOOLEAN
    /\ Outsiders \in BOOLEAN
    /\ NoLease \notin LeaseRecord
    /\ Outsider \notin Instance

VARIABLES
    clock,    \* chrono::Utc::now().timestamp()
    object,   \* the lease object in the bucket
    pc,       \* where each process is
    record,   \* WriterLease.record: what the process writes
    seen,     \* the record (and so the ETag) a claim fetched
    lost,     \* WriterLease.lost
    owner,    \* per store, who bumped the epoch last
    built,    \* how many stores the process has opened
    fenced,   \* the fencing latch
    crashes

vars == <<clock, object, pc, record, seen, lost, owner, built, fenced, crashes>>
leaseVars == <<object, record, seen, lost>>
storeVars == <<owner, built, fenced>>

Starting == {"creating", "fetching", "taking"}
Serving  == {"held", "renewing"}
Gone     == {"refused", "stopped", "crashed"}
PcValues == Starting \cup Serving \cup Gone \cup {"off", "deleting"}

\* The lease object, what each process of main.rs keeps in memory, and the
\* store epochs are of these types.
TypeOK ==
    /\ clock \in 0..MaxClock
    /\ object \in LeaseRecord \cup {NoLease}
    /\ pc \in [Instance -> PcValues]
    /\ record \in [Instance -> LeaseRecord]
    /\ seen \in [Instance -> LeaseRecord \cup {NoLease}]
    /\ lost \in [Instance -> BOOLEAN]
    /\ owner \in [1..NumStores -> Instance \cup {Outsider}]
    /\ built \in [Instance -> 0..NumStores]
    /\ fenced \in [Instance -> BOOLEAN]
    /\ crashes \in 0..MaxCrashes

Init ==
    /\ clock = 0
    /\ object = NoLease
    /\ pc = [i \in Instance |-> "off"]
    /\ record = [i \in Instance |-> [instance |-> i, renewed |-> 0]]
    /\ seen = [i \in Instance |-> NoLease]
    /\ lost = [i \in Instance |-> FALSE]
    /\ owner = [s \in 1..NumStores |-> Outsider]
    /\ built = [i \in Instance |-> 0]
    /\ fenced = [i \in Instance |-> FALSE]
    /\ crashes = 0

-----------------------------------------------------------------------------
Holds(i) == object # NoLease /\ object.instance = i
Taken(i) == object # NoLease /\ object.instance # i

\* The process believes that it holds the lease.
Holder(i) == pc[i] \in Serving \cup {"deleting"} /\ ~lost[i]

\* /ready, as far as the lease and the latch decide it.
Ready(i) == pc[i] \in Serving /\ built[i] = NumStores /\ ~lost[i] /\ ~fenced[i]

\* A later writer bumped the epoch of a store this process has open.
Superseded(i) == \E s \in 1..built[i] : owner[s] # i

\* LeaseRecord::is_live_at.  An age below zero does not convert to u64, so
\* is_ok_and answers false and the record counts as stale.
IsLive(r, now) == now - r.renewed >= 0 /\ now - r.renewed < TTL

Goto(i, where) == pc' = [pc EXCEPT ![i] = where]
Stamp(i) == record' = [record EXCEPT ![i].renewed = clock]

\* A failed write may have been applied all the same.
FailedWrite(request, new) == request \in Faults /\ object' \in {object, new}

-----------------------------------------------------------------------------
(* WriterLease::acquire *)

\* The clock is read once, before the first request.
AcquireStart(i) ==
    /\ pc[i] = "off"
    /\ Goto(i, "creating")
    /\ Stamp(i)
    /\ UNCHANGED <<clock, object, seen, lost, storeVars, crashes>>

\* PutMode::Create.  Any error, not only AlreadyExists, falls through.
AcquireCreate(i) ==
    /\ pc[i] = "creating"
    /\ \/ object = NoLease /\ object' = record[i] /\ Goto(i, "held")
       \/ object # NoLease /\ UNCHANGED object /\ Goto(i, "fetching")
       \/ /\ FailedWrite("create", IF object = NoLease THEN record[i] ELSE object)
          /\ Goto(i, "fetching")
    /\ UNCHANGED <<clock, record, seen, lost, storeVars, crashes>>

\* The record is compared with the clock read at the start.
AcquireFetch(i) ==
    /\ pc[i] = "fetching"
    /\ \/ "fetch" \in Faults /\ Goto(i, "refused") /\ UNCHANGED seen
       \/ object = NoLease /\ Goto(i, "refused") /\ UNCHANGED seen
       \/ /\ object # NoLease /\ IsLive(object, record[i].renewed)
          /\ Goto(i, "refused") /\ UNCHANGED seen
       \/ /\ object # NoLease /\ ~IsLive(object, record[i].renewed)
          /\ Goto(i, "taking")
          /\ seen' = [seen EXCEPT ![i] = object]
    /\ UNCHANGED <<clock, object, record, lost, storeVars, crashes>>

\* Mutations of TakeOver: a plain overwrite, and a create that can only fail.
TakeOverBlind(i) ==
    /\ pc[i] = "taking"
    /\ object' = record[i]
    /\ Goto(i, "held")
    /\ UNCHANGED <<clock, record, seen, lost, storeVars, crashes>>

TakeOverCreate(i) ==
    /\ pc[i] = "taking"
    /\ \/ object = NoLease /\ object' = record[i] /\ Goto(i, "held")
       \/ object # NoLease /\ UNCHANGED object /\ Goto(i, "refused")
    /\ UNCHANGED <<clock, record, seen, lost, storeVars, crashes>>

\* PutMode::Update on the fetched ETag, which is a hash of the record.  On a
\* failed precondition the winner is fetched only to be named in the error.
TakeOver(i) ==
    /\ pc[i] = "taking"
    /\ \/ object = seen[i] /\ object' = record[i] /\ Goto(i, "held")
       \/ object # seen[i] /\ UNCHANGED object /\ Goto(i, "refused")
       \/ /\ FailedWrite("takeover", IF object = seen[i] THEN record[i] ELSE object)
          /\ Goto(i, "refused")
    /\ UNCHANGED <<clock, record, seen, lost, storeVars, crashes>>

-----------------------------------------------------------------------------
(* WriterLease::renew, driven by spawn_renewer's ticker *)

\* A record of another instance, or a failed read, sets lost for good.  A
\* record that is gone counts as still held.
RenewFetch(i) ==
    /\ pc[i] = "held"
    /\ ~lost[i]
    /\ \/ /\ object # NoLease /\ object.instance # i
          /\ lost' = [lost EXCEPT ![i] = TRUE]
          /\ UNCHANGED <<pc, record>>
       \/ /\ "renew_fetch" \in Faults
          /\ lost' = [lost EXCEPT ![i] = TRUE]
          /\ UNCHANGED <<pc, record>>
       \/ /\ ~Taken(i)
          /\ Goto(i, "renewing")
          /\ Stamp(i)
          /\ UNCHANGED lost
    /\ UNCHANGED <<clock, object, seen, storeVars, crashes>>

\* PutMode::Overwrite: whatever the object holds by now is replaced.
RenewPut(i) ==
    /\ pc[i] = "renewing"
    /\ \/ object' = record[i] /\ UNCHANGED lost
       \/ FailedWrite("renew_put", record[i]) /\ lost' = [lost EXCEPT ![i] = TRUE]
    /\ Goto(i, "held")
    /\ UNCHANGED <<clock, record, seen, storeVars, crashes>>

-----------------------------------------------------------------------------
(* LeaseGuard::release: the renewal loop has left its select, so no renewal *)
(* is in flight; then WriterLease::release runs.                            *)

ReleaseFetch(i) ==
    /\ pc[i] = "held"
    /\ \/ "release_fetch" \in Faults /\ Goto(i, "stopped")
       \/ Taken(i) /\ Goto(i, "stopped")
       \/ ~Taken(i) /\ Goto(i, "deleting")
    /\ UNCHANGED <<clock, leaseVars, storeVars, crashes>>

\* The guard stops waiting, at an error or when RELEASE_TIMEOUT runs out: the
\* delete may still have landed, and otherwise the record is left to expire.
ReleaseUnanswered == FailedWrite("release_delete", NoLease)

\* The delete is unconditional.
ReleaseDelete(i) ==
    /\ pc[i] = "deleting"
    /\ \/ object' = NoLease
       \/ ReleaseUnanswered
    /\ Goto(i, "stopped")
    /\ UNCHANGED <<clock, record, seen, lost, storeVars, crashes>>

-----------------------------------------------------------------------------
(* main.rs: the stores are opened one after another once the lease is held, *)
(* whatever the renewal task finds meanwhile.                               *)

\* Mutant: stores opened before the lease is claimed.
BuildStoreEarly(i) ==
    /\ pc[i] \in Serving \cup Starting
    /\ built[i] < NumStores
    /\ built' = [built EXCEPT ![i] = @ + 1]
    /\ owner' = [owner EXCEPT ![built[i] + 1] = i]
    /\ UNCHANGED <<clock, pc, leaseVars, fenced, crashes>>

BuildStore(i) ==
    /\ pc[i] \in Serving
    /\ built[i] < NumStores
    /\ built' = [built EXCEPT ![i] = @ + 1]
    /\ owner' = [owner EXCEPT ![built[i] + 1] = i]
    /\ UNCHANGED <<clock, pc, leaseVars, fenced, crashes>>

\* A writer without the lease (ttl 0, an older build) opens a store.
OutsiderBuilds(s) ==
    /\ Outsiders
    /\ owner' = [owner EXCEPT ![s] = Outsider]
    /\ UNCHANGED <<clock, pc, leaseVars, built, fenced, crashes>>

\* A mutation of StoreWrite: the Fenced error is returned and not recorded.
StoreWriteUnlatched(i, s) ==
    /\ pc[i] \in Serving
    /\ built[i] = NumStores
    /\ owner[s] # i
    /\ UNCHANGED vars

\* A request writes to store s.  With the newest epoch it commits, which
\* changes nothing here; without it oxkv answers Fenced and the latch trips.
StoreWrite(i, s) ==
    /\ pc[i] \in Serving
    /\ built[i] = NumStores
    /\ owner[s] # i
    /\ fenced' = [fenced EXCEPT ![i] = TRUE]
    /\ UNCHANGED <<clock, pc, leaseVars, owner, built, crashes>>

-----------------------------------------------------------------------------
(* The environment *)

\* A kill, an early error exit, or a runtime that drops the renewal task.
Crash(i) ==
    /\ crashes < MaxCrashes
    /\ pc[i] \notin Gone \cup {"off"}
    /\ Goto(i, "crashed")
    /\ crashes' = crashes + 1
    /\ UNCHANGED <<clock, leaseVars, storeVars>>

\* A process that is gone and left no record behind can stand for a fresh
\* instance of the next start.
Restart(i) ==
    /\ pc[i] \in Gone
    /\ ~Holds(i)
    /\ \A j \in Instance : pc[j] = "taking" => seen[j].instance # i
    /\ Goto(i, "off")
    /\ seen' = [seen EXCEPT ![i] = NoLease]
    /\ lost' = [lost EXCEPT ![i] = FALSE]
    /\ built' = [built EXCEPT ![i] = 0]
    /\ fenced' = [fenced EXCEPT ![i] = FALSE]
    /\ UNCHANGED <<clock, object, record, owner, crashes>>

InTime(i) ==
    /\ Holder(i) /\ Holds(i) => clock + 1 < object.renewed + TTL
    /\ pc[i] \in Starting => clock + 1 < record[i].renewed + TTL

Tick ==
    /\ clock < MaxClock
    /\ Timely => \A i \in Instance : InTime(i)
    /\ PromptStart => \A i \in Instance : pc[i] \notin {"creating", "fetching"}
    /\ clock' = clock + 1
    /\ UNCHANGED <<pc, leaseVars, storeVars, crashes>>

-----------------------------------------------------------------------------
LeaseStep(i) ==
    \/ AcquireStart(i) \/ AcquireCreate(i) \/ AcquireFetch(i) \/ TakeOver(i)
    \/ RenewFetch(i) \/ RenewPut(i)
    \/ ReleaseFetch(i) \/ ReleaseDelete(i)

Next ==
    \/ \E i \in Instance :
        \/ LeaseStep(i) \/ BuildStore(i) \/ Crash(i) \/ Restart(i)
        \/ \E s \in 1..NumStores : StoreWrite(i, s)
    \/ \E s \in 1..NumStores : OutsiderBuilds(s)
    \/ Tick

Spec == Init /\ [][Next]_vars

\* The ticker keeps firing and requests keep being answered (RenewFetch and
\* RenewPut), a start runs through, and time passes.  Nothing obliges a
\* process to shut down or to crash.
Fairness ==
    /\ SF_vars(Tick)
    /\ \A i \in Instance :
        /\ WF_vars(AcquireCreate(i)) /\ WF_vars(AcquireFetch(i))
        /\ WF_vars(TakeOver(i)) /\ WF_vars(ReleaseDelete(i))
        /\ WF_vars(RenewFetch(i)) /\ WF_vars(RenewPut(i))
        /\ WF_vars(BuildStore(i))

FairSpec == Spec /\ Fairness

\* An orchestrator restarts what is gone, and clients keep writing to every
\* store.
ServiceSpec ==
    /\ FairSpec
    /\ \A i \in Instance :
        /\ WF_vars(AcquireStart(i)) /\ WF_vars(Restart(i))
        /\ \A s \in 1..NumStores : WF_vars(StoreWrite(i, s))

-----------------------------------------------------------------------------
(* Properties *)

\* Never two processes that both believe they hold the prefix: what
\* acquire's create and compare-and-set, and a renewal in time, add up to.
AtMostOneHolder ==
    \A i, j \in Instance : Holder(i) /\ Holder(j) => i = j

\* The lease guards the epochs (lease.rs, "that epoch is the thing the lease
\* guards"): a process that believes in its lease is never fenced out of a
\* store it has opened.
OwnerHoldsLease ==
    \A i \in Instance : Holder(i) => ~Superseded(i)

\* A record whose writer is gone is replaced once it is stale, with no
\* manual cleanup.  (A record stamped too close to MaxClock never gets stale
\* inside the bound.)
DeadLeaseReplaced ==
    \A i \in Instance :
        (pc[i] \in Gone /\ Holds(i) /\ object.renewed + TTL <= MaxClock) ~> ~Holds(i)

\* "The predecessor finds out on its next renewal, and reports itself
\* unready": while the successor that took the lease over is still there.
PredecessorFindsOut ==
    \A i, j \in Instance : i # j =>
        ((Ready(i) /\ Holds(j) /\ Holder(j)) ~> (~Ready(i) \/ pc[j] \in Gone))

\* Under traffic the Fenced answer reaches the latch: a process that a later
\* writer, with or without the lease, has superseded stops reporting
\* ready, even if its renewals keep succeeding.
SupersededReportsUnready ==
    \A i \in Instance : (Ready(i) /\ Superseded(i)) ~> ~Ready(i)
=============================================================================
