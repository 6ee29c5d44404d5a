-------------------------- MODULE WriterLeaseProofs --------------------------
(***************************************************************************)
(* For every set of processes, every TTL and every number of stores: with  *)
(* holders that renew in time, claims that read the record in the second   *)
(* in which they read the clock, and renewals that do not fail, the lease  *)
(* is exclusive and it protects the store epochs.  Crashes, restarts,      *)
(* racing claims, and failures of every other request are all allowed.     *)
(***************************************************************************)
EXTENDS WriterLease, TLAPS

\* The environment the exclusion rests on.
ReliableRenewals ==
    /\ Timely
    /\ PromptStart
    /\ "renew_fetch" \notin Faults
    /\ "renew_put" \notin Faults

\* Clock facts: no stamp is from the future, a claim's stamp is fresh until
\* its fetch, and a claim only sets out to replace a record past its TTL.
Stamps ==
    /\ object # NoLease => object.renewed <= clock
    /\ \A i \in Instance :
        /\ record[i].instance = i
        /\ record[i].renewed <= clock
        /\ pc[i] \in {"creating", "fetching"} => record[i].renewed = clock
        /\ pc[i] = "taking" =>
            /\ clock < record[i].renewed + TTL
            /\ seen[i] \in LeaseRecord
            /\ seen[i].renewed + TTL <= clock

\* A process that believes in its lease has its record in the bucket, the
\* record is still live, and a renewal in flight only makes it younger.
Covered ==
    \A i \in Instance :
        /\ ~lost[i]
        /\ Holder(i) =>
            /\ Holds(i)
            /\ clock < object.renewed + TTL
            /\ pc[i] = "renewing" => object.renewed <= record[i].renewed

LeaseInv == TypeOK /\ Stamps /\ Covered

\* Nothing is opened before the lease is held.
EpochInv ==
    \A i \in Instance :
        /\ pc[i] \in Starting \cup {"off"} => built[i] = 0
        /\ Holder(i) => \A s \in 1..built[i] : owner[s] = i

-----------------------------------------------------------------------------
(* The type invariant *)

\* A prefix nobody has claimed yet is of the declared type.
LEMMA TypeInit == Init => TypeOK
BY LeaseAssumption DEF Init, TypeOK, LeaseRecord, PcValues

\* A stamp keeps a record a record, of the same instance, at this second.
LEMMA StampFacts ==
  ASSUME TypeOK, NEW i \in Instance, Stamp(i)
  PROVE  /\ record' \in [Instance -> LeaseRecord]
         /\ record'[i] = [instance |-> record[i].instance, renewed |-> clock]
         /\ \A j \in Instance : j # i => record'[j] = record[j]
<1>1. record[i] \in LeaseRecord /\ clock \in Nat
  BY LeaseAssumption DEF TypeOK
<1>2. [record[i] EXCEPT !.renewed = clock]
        = [instance |-> record[i].instance, renewed |-> clock]
  BY <1>1 DEF LeaseRecord
<1>3. [record[i] EXCEPT !.renewed = clock] \in LeaseRecord
  BY <1>1, <1>2 DEF LeaseRecord
<1>4. record' = [record EXCEPT ![i] = [record[i] EXCEPT !.renewed = clock]]
  BY DEF Stamp
<1> QED
  BY <1>2, <1>3, <1>4 DEF TypeOK

\* Every step of the lease, the stores and the environment keeps the types.
LEMMA TypeStep == TypeOK /\ [Next]_vars => TypeOK'
<1> SUFFICES ASSUME TypeOK, [Next]_vars PROVE TypeOK'
  OBVIOUS
<1> USE LeaseAssumption DEF TypeOK, PcValues, Starting, Serving, Gone, Goto,
        FailedWrite, leaseVars, storeVars
<1>1. ASSUME NEW i \in Instance, AcquireStart(i) PROVE TypeOK'
  BY <1>1, StampFacts DEF AcquireStart
<1>2. ASSUME NEW i \in Instance, AcquireCreate(i) PROVE TypeOK'
  BY <1>2 DEF AcquireCreate
<1>3. ASSUME NEW i \in Instance, AcquireFetch(i) PROVE TypeOK'
  BY <1>3, ZenonT(60) DEF AcquireFetch
<1>4. ASSUME NEW i \in Instance, TakeOver(i) PROVE TypeOK'
  BY <1>4 DEF TakeOver
<1>5. ASSUME NEW i \in Instance, RenewFetch(i) PROVE TypeOK'
  <2>1. record' \in [Instance -> LeaseRecord]
    BY <1>5, StampFacts DEF RenewFetch
  <2> QED
    BY <1>5, <2>1 DEF RenewFetch
<1>6. ASSUME NEW i \in Instance, RenewPut(i) PROVE TypeOK'
  <2>1. object' \in LeaseRecord \cup {NoLease}
    BY <1>6 DEF RenewPut
  <2>2. lost' \in [Instance -> BOOLEAN]
    BY <1>6 DEF RenewPut
  <2> QED
    BY <1>6, <2>1, <2>2 DEF RenewPut
<1>7. ASSUME NEW i \in Instance, ReleaseFetch(i) PROVE TypeOK'
  BY <1>7 DEF ReleaseFetch
<1>8. ASSUME NEW i \in Instance, ReleaseDelete(i) PROVE TypeOK'
  BY <1>8 DEF ReleaseDelete, ReleaseUnanswered
<1>9. ASSUME NEW i \in Instance, BuildStore(i) PROVE TypeOK'
  BY <1>9 DEF BuildStore
<1>10. ASSUME NEW i \in Instance, Crash(i) PROVE TypeOK'
  BY <1>10 DEF Crash
<1>11. ASSUME NEW i \in Instance, Restart(i) PROVE TypeOK'
  BY <1>11 DEF Restart
<1>12. ASSUME NEW i \in Instance, NEW s \in 1..NumStores, StoreWrite(i, s) PROVE TypeOK'
  BY <1>12 DEF StoreWrite
<1>13. ASSUME NEW s \in 1..NumStores, OutsiderBuilds(s) PROVE TypeOK'
  BY <1>13 DEF OutsiderBuilds
<1>14. ASSUME Tick PROVE TypeOK'
  BY <1>14 DEF Tick
<1>15. ASSUME UNCHANGED vars PROVE TypeOK'
  BY <1>15 DEF vars
<1> QED
  BY <1>1, <1>2, <1>3, <1>4, <1>5, <1>6, <1>7, <1>8, <1>9, <1>10, <1>11, <1>12,
     <1>13, <1>14, <1>15 DEF Next, LeaseStep

\* Every reachable state of the lease, its store epochs and its latch is of
\* the declared type, whatever fails and however slow a process is.
THEOREM LeaseTypeCorrect == Spec => []TypeOK
BY TypeInit, TypeStep, PTL DEF Spec

-----------------------------------------------------------------------------
(* Exclusion *)

\* The inductive invariant holds at the start.
LEMMA LeaseInit == Init => LeaseInv
BY TypeInit, LeaseAssumption
   DEF Init, LeaseInv, Stamps, Covered, Holder, Serving

\* Every step of the protocol preserves it, in a reliable environment.
LEMMA LeaseInvStep ==
  ASSUME ReliableRenewals, LeaseInv, [Next]_vars
  PROVE  LeaseInv'
<1>0. TypeOK /\ TypeOK'
  BY TypeStep DEF LeaseInv
<1>c. /\ clock \in Nat /\ clock' \in Nat /\ TTL \in Nat /\ TTL > 0
      /\ \A j \in Instance : /\ record[j] \in LeaseRecord
                             /\ record[j].renewed \in Nat
                             /\ record[j].instance \in Instance
                             /\ record[j] # NoLease
      /\ object # NoLease => object \in LeaseRecord /\ object.renewed \in Nat
  BY <1>0, LeaseAssumption DEF TypeOK, LeaseRecord
<1> USE DEF Starting, Serving, Gone, Goto, leaseVars, storeVars
<1> SUFFICES Stamps' /\ Covered'
  BY <1>0 DEF LeaseInv
<1>1. ASSUME NEW i \in Instance, AcquireStart(i) PROVE Stamps' /\ Covered'
  <2>1. /\ record'[i] = [instance |-> i, renewed |-> clock]
        /\ \A j \in Instance : j # i => record'[j] = record[j]
    BY <1>0, <1>1, StampFacts DEF AcquireStart, LeaseInv, Stamps
  <2>2. Stamps'
    BY <1>0, <1>c, <1>1, <2>1 DEF AcquireStart, LeaseInv, Stamps, TypeOK
  <2>3. Covered'
    BY <1>0, <1>c, <1>1, <2>1 DEF AcquireStart, LeaseInv, Covered, Holder, Holds, TypeOK
  <2> QED BY <2>2, <2>3
<1>2. ASSUME NEW i \in Instance, AcquireCreate(i) PROVE Stamps' /\ Covered'
  <2>1. Stamps'
    BY <1>0, <1>c, <1>2 DEF AcquireCreate, FailedWrite, LeaseInv, Stamps, TypeOK
  <2>2. Covered'
    BY <1>0, <1>c, <1>2 DEF AcquireCreate, FailedWrite, LeaseInv, Stamps, Covered, Holder, Holds, TypeOK
  <2> QED BY <2>1, <2>2
<1>3. ASSUME NEW i \in Instance, AcquireFetch(i) PROVE Stamps' /\ Covered'
  <2>1. Stamps'
    BY <1>0, <1>c, <1>3 DEF AcquireFetch, IsLive, LeaseInv, Stamps, TypeOK
  <2>2. Covered'
    BY <1>0, <1>c, <1>3 DEF AcquireFetch, LeaseInv, Stamps, Covered, Holder, Holds, TypeOK
  <2> QED BY <2>1, <2>2
<1>4. ASSUME NEW i \in Instance, TakeOver(i) PROVE Stamps' /\ Covered'
  <2>1. Stamps'
    BY <1>0, <1>c, <1>4 DEF TakeOver, FailedWrite, LeaseInv, Stamps, TypeOK
  <2>2. ASSUME object = seen[i], NEW j \in Instance PROVE ~Holder(j)
    BY <1>0, <1>c, <1>4, <2>2 DEF TakeOver, LeaseInv, Stamps, Covered, Holds
  <2>3. CASE object = seen[i]
    BY <1>0, <1>c, <1>4, <2>2, <2>3
       DEF TakeOver, FailedWrite, LeaseInv, Stamps, Covered, Holder, Holds, TypeOK
  <2>4. CASE object # seen[i]
    BY <1>0, <1>c, <1>4, <2>1, <2>4
       DEF TakeOver, FailedWrite, LeaseInv, Covered, Holder, Holds, TypeOK
  <2> QED BY <2>1, <2>3, <2>4
<1>5. ASSUME NEW i \in Instance, RenewFetch(i) PROVE Stamps' /\ Covered'
  <2>1. Holder(i) /\ Holds(i)
    BY <1>5 DEF RenewFetch, LeaseInv, Covered, Holder
  <2>2. /\ Stamp(i) /\ Goto(i, "renewing")
        /\ UNCHANGED <<lost, clock, object, seen>>
    BY <1>5, <2>1 DEF RenewFetch, ReliableRenewals, Taken, Holds
  <2>3. /\ record'[i] = [instance |-> i, renewed |-> clock]
        /\ \A j \in Instance : j # i => record'[j] = record[j]
    BY <1>0, <2>2, StampFacts DEF LeaseInv, Stamps
  <2>4. Stamps'
    BY <1>0, <1>c, <2>2, <2>3 DEF LeaseInv, Stamps, TypeOK
  <2>5. Covered'
    BY <1>0, <1>c, <2>1, <2>2, <2>3 DEF LeaseInv, Stamps, Covered, Holder, Holds, TypeOK
  <2> QED BY <2>4, <2>5
<1>6. ASSUME NEW i \in Instance, RenewPut(i) PROVE Stamps' /\ Covered'
  <2>1. /\ object' = record[i] /\ Goto(i, "held")
        /\ UNCHANGED <<lost, clock, record, seen>>
    BY <1>6 DEF RenewPut, FailedWrite, ReliableRenewals
  <2>2. Holder(i) /\ pc[i] = "renewing"
    BY <1>6 DEF RenewPut, LeaseInv, Covered, Holder
  <2>3. ASSUME NEW j \in Instance, Holder(j) PROVE j = i
    BY <2>2, <2>3 DEF LeaseInv, Covered, Holds
  <2>4. Stamps'
    BY <1>0, <1>c, <2>1 DEF LeaseInv, Stamps, TypeOK
  <2>5. Covered'
    BY <1>0, <1>c, <2>1, <2>2, <2>3 DEF LeaseInv, Stamps, Covered, Holder, Holds, TypeOK
  <2> QED BY <2>4, <2>5
<1>7. ASSUME NEW i \in Instance, ReleaseFetch(i) PROVE Stamps' /\ Covered'
  BY <1>0, <1>c, <1>7 DEF ReleaseFetch, LeaseInv, Stamps, Covered, Holder, Holds, TypeOK
<1>8. ASSUME NEW i \in Instance, ReleaseDelete(i) PROVE Stamps' /\ Covered'
  <2>1. ASSUME NEW j \in Instance, Holder(j) PROVE j = i
    BY <1>8, <2>1 DEF ReleaseDelete, LeaseInv, Covered, Holder, Holds
  <2> QED
    BY <1>0, <1>c, <1>8, <2>1
       DEF ReleaseDelete, ReleaseUnanswered, FailedWrite, LeaseInv, Stamps, Covered, Holder, Holds, TypeOK
<1>9. ASSUME NEW i \in Instance, BuildStore(i) PROVE Stamps' /\ Covered'
  BY <1>9 DEF BuildStore, LeaseInv, Stamps, Covered, Holder, Holds
<1>10. ASSUME NEW i \in Instance, Crash(i) PROVE Stamps' /\ Covered'
  BY <1>0, <1>10 DEF Crash, LeaseInv, Stamps, Covered, Holder, Holds, TypeOK
<1>11. ASSUME NEW i \in Instance, Restart(i) PROVE Stamps' /\ Covered'
  <2>1. Stamps'
    BY <1>0, <1>c, <1>11 DEF Restart, LeaseInv, Stamps, TypeOK
  <2>2. Covered'
    BY <1>0, <1>c, <1>11 DEF Restart, LeaseInv, Covered, Holder, Holds, TypeOK
  <2> QED BY <2>1, <2>2
<1>12. ASSUME NEW i \in Instance, NEW s \in 1..NumStores, StoreWrite(i, s)
       PROVE  Stamps' /\ Covered'
  BY <1>12 DEF StoreWrite, LeaseInv, Stamps, Covered, Holder, Holds
<1>13. ASSUME NEW s \in 1..NumStores, OutsiderBuilds(s) PROVE Stamps' /\ Covered'
  BY <1>13 DEF OutsiderBuilds, LeaseInv, Stamps, Covered, Holder, Holds
<1>14. ASSUME Tick PROVE Stamps' /\ Covered'
  <2>1. Stamps'
    <3>1. \A j \in Instance : pc[j] = "taking" =>
            /\ clock + 1 < record[j].renewed + TTL
            /\ seen[j].renewed \in Nat /\ seen[j].renewed + TTL <= clock
      BY <1>14 DEF Tick, InTime, ReliableRenewals, LeaseInv, Stamps, LeaseRecord
    <3> QED
      BY <1>c, <1>14, <3>1 DEF Tick, ReliableRenewals, LeaseInv, Stamps
  <2>2. Covered'
    <3>1. ASSUME NEW j \in Instance, Holder(j) PROVE Holds(j) /\ clock + 1 < object.renewed + TTL
      BY <1>14, <3>1 DEF Tick, InTime, ReliableRenewals, LeaseInv, Covered
    <3> QED
      BY <1>c, <1>14, <3>1 DEF Tick, LeaseInv, Covered, Holder, Holds
  <2> QED BY <2>1, <2>2
<1>15. ASSUME UNCHANGED vars PROVE Stamps' /\ Covered'
  BY <1>15 DEF vars, LeaseInv, Stamps, Covered, Holder, Holds
<1> QED
  BY <1>1, <1>2, <1>3, <1>4, <1>5, <1>6, <1>7, <1>8, <1>9, <1>10, <1>11, <1>12,
     <1>13, <1>14, <1>15 DEF Next, LeaseStep

\* Two believers would both have their record in the one lease object.
LEMMA LeaseInvExcludes == LeaseInv => AtMostOneHolder
BY DEF LeaseInv, Covered, AtMostOneHolder, Holds

\* Never two processes that believe they hold the prefix: acquire's create
\* and compare-and-set, renew and release exclude each other.
THEOREM LeaseExclusive ==
  ASSUME ReliableRenewals
  PROVE  Spec => []AtMostOneHolder
<1>1. LeaseInv /\ [Next]_vars => LeaseInv'
  BY LeaseInvStep
<1> QED
  BY <1>1, LeaseInit, LeaseInvExcludes, PTL DEF Spec

-----------------------------------------------------------------------------
(* The epochs *)

\* Opening a store, crashing and restarting keep every believer's epochs.
LEMMA EpochInvStep ==
  ASSUME ReliableRenewals, ~Outsiders, LeaseInv, EpochInv, [Next]_vars
  PROVE  EpochInv'
<1>0. TypeOK /\ AtMostOneHolder /\ NumStores \in Nat
  BY LeaseInvExcludes, LeaseAssumption DEF LeaseInv
<1>l. \A j \in Instance : ~lost[j]
  BY DEF LeaseInv, Covered
<1> USE DEF Starting, Serving, Gone, Goto, leaseVars, storeVars
<1>1. ASSUME NEW i \in Instance, LeaseStep(i) PROVE EpochInv'
  <2>1. UNCHANGED <<owner, built>>
    BY <1>1 DEF LeaseStep, AcquireStart, AcquireCreate, AcquireFetch, TakeOver,
                RenewFetch, RenewPut, ReleaseFetch, ReleaseDelete
  <2>2. \A j \in Instance : j # i => pc'[j] = pc[j]
    BY <1>0, <1>1 DEF LeaseStep, AcquireStart, AcquireCreate, AcquireFetch, TakeOver,
                RenewFetch, RenewPut, ReleaseFetch, ReleaseDelete, TypeOK
  <2>3. /\ pc'[i] \in Starting \cup {"off"} => pc[i] \in Starting \cup {"off"}
        /\ pc'[i] \in Serving \cup {"deleting"} =>
             pc[i] \in Starting \cup Serving \cup {"deleting"}
    BY <1>0, <1>1 DEF LeaseStep, AcquireStart, AcquireCreate, AcquireFetch, TakeOver,
                RenewFetch, RenewPut, ReleaseFetch, ReleaseDelete, TypeOK
  <2> QED
    BY <1>l, <2>1, <2>2, <2>3 DEF EpochInv, Holder
<1>2. ASSUME NEW i \in Instance, BuildStore(i) PROVE EpochInv'
  <2>1. \A j \in Instance : Holder(j) => j = i
    BY <1>0, <1>2, <1>l DEF BuildStore, Holder, AtMostOneHolder
  <2>2. /\ built[i] \in Nat /\ built'[i] = built[i] + 1
        /\ built[i] + 1 \in 1..NumStores
        /\ owner'[built[i] + 1] = i
        /\ \A s \in 1..built[i] : owner'[s] = owner[s]
        /\ \A j \in Instance : j # i => built'[j] = built[j]
    BY <1>0, <1>2 DEF BuildStore, TypeOK
  <2> QED
    BY <1>0, <1>2, <1>l, <2>1, <2>2 DEF BuildStore, EpochInv, Holder
<1>3. ASSUME NEW i \in Instance, Crash(i) PROVE EpochInv'
  BY <1>0, <1>3 DEF Crash, EpochInv, Holder, TypeOK
<1>4. ASSUME NEW i \in Instance, Restart(i) PROVE EpochInv'
  BY <1>0, <1>4 DEF Restart, EpochInv, Holder, TypeOK
<1>5. ASSUME NEW i \in Instance, NEW s \in 1..NumStores, StoreWrite(i, s) PROVE EpochInv'
  BY <1>5 DEF StoreWrite, EpochInv, Holder
<1>6. ASSUME NEW s \in 1..NumStores, OutsiderBuilds(s) PROVE EpochInv'
  BY <1>6 DEF OutsiderBuilds
<1>7. ASSUME Tick PROVE EpochInv'
  BY <1>7 DEF Tick, EpochInv, Holder
<1>8. ASSUME UNCHANGED vars PROVE EpochInv'
  BY <1>8 DEF vars, EpochInv, Holder
<1> QED
  BY <1>1, <1>2, <1>3, <1>4, <1>5, <1>6, <1>7, <1>8 DEF Next

\* As long as every writer takes the lease, a process that believes in its
\* lease is never fenced out of a store it has opened.
THEOREM LeaseGuardsEpochs ==
  ASSUME ReliableRenewals, ~Outsiders
  PROVE  Spec => []OwnerHoldsLease
<1>1. LeaseInv /\ [Next]_vars => LeaseInv'
  BY LeaseInvStep
<1>2. LeaseInv /\ EpochInv /\ [Next]_vars => EpochInv'
  BY EpochInvStep
<1>3. Init => EpochInv
  BY DEF Init, EpochInv, Holder, Serving
<1>4. EpochInv => OwnerHoldsLease
  BY DEF EpochInv, OwnerHoldsLease, Superseded
<1> QED
  BY <1>1, <1>2, <1>3, <1>4, LeaseInit, PTL DEF Spec
=============================================================================
