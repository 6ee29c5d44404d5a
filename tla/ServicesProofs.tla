---------------------------- MODULE ServicesProofs ----------------------------
(***************************************************************************)
(* The lock table of the upload sessions, for every finite set of tasks    *)
(* and every set of sessions and addresses; the refreshes of the key cache *)
(* and the life of a process, for every number of callers, keys and        *)
(* processes; and the types of the plane they make up with the probes.     *)
(***************************************************************************)
EXTENDS MCServices, FiniteSetTheorems, TLAPS

-----------------------------------------------------------------------------
(* The session locks *)

\* A claim and its key go together.
ClaimsComplete ==
    \A t \in Task :
        /\ taskAt[t] = "idle" <=> entry[t] = None
        /\ taskAt[t] = "idle" <=> key[t] = None

\* The heart of it: a claim's entry stays in the map under the claim's key,
\* so a later claim on that session finds the same mutex.
ClaimsMapped ==
    \A t \in Task : taskAt[t] # "idle" => map[key[t]] = entry[t]

\* No entry serves two sessions, and an entry in the map has as many claims
\* as its counter says, at least one.
EntriesCounted ==
    /\ \A k, l \in Key : map[k] # None /\ map[k] = map[l] => k = l
    /\ \A k \in Key : map[k] # None =>
        /\ Claimants(map[k]) # {}
        /\ claims[map[k]] = Cardinality(Claimants(map[k]))

\* The task inside is the one the entry's mutex names.
InsideHolds ==
    \A t \in Task : taskAt[t] = "inside" => holder[entry[t]] = t

LockInv == LocksTypeOK /\ ClaimsComplete /\ ClaimsMapped /\ EntriesCounted /\ InsideHolds

\* The initial table is empty.
LEMMA LockInit == LocksInit => LockInv
BY LockAssumption
   DEF LocksInit, LockInv, LocksTypeOK, ClaimsComplete, ClaimsMapped, EntriesCounted, InsideHolds

\* Adding a task to, or removing it from, the claimants moves their number
\* by one.
LEMMA CountStep ==
  ASSUME NEW S \in SUBSET Task, NEW t \in Task
  PROVE  /\ Cardinality(S) \in Nat
         /\ t \notin S => Cardinality(S \cup {t}) = Cardinality(S) + 1
         /\ t \in S => Cardinality(S \ {t}) = Cardinality(S) - 1
         /\ Cardinality(S) = 0 <=> S = {}
BY LockAssumption, FS_Subset, FS_CardinalityType, FS_AddElement, FS_RemoveElement, FS_EmptySet

\* Registering preserves the invariant: the found entry gains one claimant,
\* an inserted one has exactly one.
LEMMA RegisterStep ==
  ASSUME LockInv, NEW t \in Task, NEW k \in Key, Register(t, k)
  PROVE  LockInv'
<1> USE LockAssumption
<1>t. LocksTypeOK BY DEF LockInv
<1>n. entry[t] = None /\ key[t] = None /\ taskAt[t] = "idle"
  BY DEF LockInv, ClaimsComplete, Register
<1>1. CASE map[k] # None
  <2>1. PICK e \in Entry : /\ e = map[k] /\ Claim(t, k, e, claims[e])
                           /\ UNCHANGED <<map, holder>>
    BY <1>1, <1>t DEF Register, LocksTypeOK
  <2>2. LocksTypeOK'
    BY <1>t, <2>1 DEF LocksTypeOK, Claim
  <2>3. /\ Claimants(e)' = Claimants(e) \cup {t} /\ t \notin Claimants(e)
        /\ \A f \in Entry : f # e => Claimants(f)' = Claimants(f)
    BY <1>t, <1>n, <2>1 DEF Claimants, Claim, LocksTypeOK
  <2>4. claims'[e] = Cardinality(Claimants(e)')
    <3>1. claims[e] = Cardinality(Claimants(e)) /\ claims'[e] = claims[e] + 1
      BY <1>1, <1>t, <2>1 DEF Claim, LockInv, EntriesCounted, LocksTypeOK
    <3>2. Claimants(e) \in SUBSET Task
      BY DEF Claimants
    <3> QED BY <2>3, <3>1, <3>2, CountStep
  <2>5. EntriesCounted'
    BY <1>t, <2>1, <2>3, <2>4 DEF LockInv, EntriesCounted, Claim, LocksTypeOK
  <2>6. ClaimsComplete' /\ ClaimsMapped' /\ InsideHolds'
    BY <1>t, <2>1 DEF LockInv, ClaimsComplete, ClaimsMapped, InsideHolds, Claim, LocksTypeOK
  <2> QED BY <2>2, <2>5, <2>6 DEF LockInv
<1>2. CASE map[k] = None
  <2>1. PICK e \in Entry : /\ Free(e) /\ Claim(t, k, e, 0)
                           /\ map' = [map EXCEPT ![k] = e]
                           /\ holder' = [holder EXCEPT ![e] = None]
    BY <1>2 DEF Register
  <2>2. LocksTypeOK'
    BY <1>t, <2>1 DEF LocksTypeOK, Claim
  <2>3. /\ Claimants(e)' = {t}
        /\ \A f \in Entry : f # e => Claimants(f)' = Claimants(f)
    BY <1>t, <1>n, <2>1 DEF Claimants, Claim, LocksTypeOK, Free
  <2>4. claims'[e] = 1 /\ Cardinality({t}) = 1
    <3>1. claims'[e] = 1
      BY <1>t, <2>1 DEF Claim, LocksTypeOK
    <3>2. Cardinality({t}) = 1
      BY FS_Singleton
    <3> QED BY <3>1, <3>2
  <2>5. EntriesCounted'
    BY <1>t, <2>1, <2>3, <2>4 DEF LockInv, EntriesCounted, Claim, Free, LocksTypeOK
  <2>6. \A u \in Task : entry[u] # e
    BY <2>1 DEF Free, Claimants
  <2>7. ClaimsComplete' /\ ClaimsMapped' /\ InsideHolds'
    BY <1>t, <1>2, <2>1, <2>6 DEF LockInv, ClaimsComplete, ClaimsMapped, InsideHolds, Claim, LocksTypeOK
  <2> QED BY <2>2, <2>5, <2>7 DEF LockInv
<1> QED BY <1>1, <1>2

\* Returning a claim preserves the invariant: the entry leaves the map with
\* its last claimant and not before.
LEMMA DropClaimStep ==
  ASSUME LockInv, NEW t \in Task, DropClaim(t)
  PROVE  LockInv'
<1> USE LockAssumption
<1>t. LocksTypeOK BY DEF LockInv
<1>1. PICK e \in Entry, k \in Key :
        taskAt[t] = "leaving" /\ e = entry[t] /\ k = key[t] /\ map[k] = e
  BY <1>t DEF LockInv, ClaimsComplete, ClaimsMapped, DropClaim, LocksTypeOK
<1>2. /\ claims' = [claims EXCEPT ![e] = @ - 1]
      /\ map' = [map EXCEPT ![k] = IF claims[e] = 1 THEN None ELSE @]
      /\ taskAt' = [taskAt EXCEPT ![t] = "idle"]
      /\ key' = [key EXCEPT ![t] = None]
      /\ entry' = [entry EXCEPT ![t] = None]
      /\ UNCHANGED holder
  BY <1>1 DEF DropClaim, Depart
<1>3. /\ Claimants(e)' = Claimants(e) \ {t} /\ t \in Claimants(e)
      /\ \A f \in Entry : f # e => Claimants(f)' = Claimants(f)
  BY <1>t, <1>1, <1>2 DEF Claimants, LocksTypeOK
<1>4. /\ claims[e] = Cardinality(Claimants(e)) /\ claims[e] > 0
      /\ Cardinality(Claimants(e)') = claims[e] - 1
      /\ claims[e] = 1 <=> Claimants(e)' = {}
  <2>1. Claimants(e) \in SUBSET Task /\ Claimants(e)' \in SUBSET Task
    BY <1>3 DEF Claimants
  <2>2. claims[e] = Cardinality(Claimants(e)) /\ Claimants(e) # {}
    BY <1>1 DEF LockInv, EntriesCounted
  <2>3. Cardinality(Claimants(e)) \in Nat /\ Cardinality(Claimants(e)) # 0
    BY <2>1, <2>2, CountStep
  <2>4. Cardinality(Claimants(e) \ {t}) = Cardinality(Claimants(e)) - 1
    BY <1>3, <2>1, CountStep
  <2>5. Cardinality(Claimants(e)') = 0 <=> Claimants(e)' = {}
    BY <2>1, CountStep
  <2> QED BY <1>3, <2>2, <2>3, <2>4, <2>5
<1>5. LocksTypeOK'
  BY <1>t, <1>1, <1>2, <1>4 DEF LocksTypeOK
<1>6. EntriesCounted'
  <2>1. ASSUME NEW l \in Key, map'[l] # None, l # k
        PROVE  map'[l] = map[l] /\ map[l] \in Entry /\ map[l] # e
    BY <1>t, <1>1, <1>2, <2>1 DEF LockInv, EntriesCounted, LocksTypeOK
  <2>2. map'[k] # None => map'[k] = e /\ claims[e] # 1
    BY <1>t, <1>1, <1>2 DEF LocksTypeOK
  <2>3. claims'[e] = claims[e] - 1 /\ \A f \in Entry : f # e => claims'[f] = claims[f]
    BY <1>t, <1>1, <1>2 DEF LocksTypeOK
  <2> QED
    BY <1>3, <1>4, <2>1, <2>2, <2>3 DEF LockInv, EntriesCounted
<1>7. ClaimsMapped'
  <2>1. ASSUME NEW u \in Task, taskAt'[u] # "idle" PROVE map'[key'[u]] = entry'[u]
    <3>1. u # t /\ taskAt[u] # "idle" /\ key'[u] = key[u] /\ entry'[u] = entry[u]
      BY <1>t, <1>2, <2>1 DEF LocksTypeOK
    <3>2. key[u] \in Key /\ map[key[u]] = entry[u] /\ entry[u] \in Entry
      BY <1>t, <3>1 DEF LockInv, ClaimsMapped, ClaimsComplete, LocksTypeOK
    <3>3. CASE key[u] = k
      <4>1. u \in Claimants(e)'
        BY <1>1, <3>1, <3>2, <3>3 DEF Claimants
      <4> QED BY <1>t, <1>1, <1>2, <1>4, <3>1, <3>2, <3>3, <4>1 DEF LocksTypeOK
    <3>4. CASE key[u] # k
      BY <1>t, <1>1, <1>2, <3>1, <3>2, <3>4 DEF LocksTypeOK
    <3> QED BY <3>3, <3>4
  <2> QED BY <2>1 DEF ClaimsMapped
<1>8. ClaimsComplete' /\ InsideHolds'
  BY <1>t, <1>1, <1>2 DEF LockInv, ClaimsComplete, InsideHolds, LocksTypeOK
<1> QED BY <1>5, <1>6, <1>7, <1>8 DEF LockInv

\* Every step preserves the invariant.
LEMMA LockStep == LockInv /\ [LocksNext]_lockVars => LockInv'
<1> SUFFICES ASSUME LockInv, [LocksNext]_lockVars PROVE LockInv'
  OBVIOUS
<1> USE LockAssumption
<1>t. LocksTypeOK BY DEF LockInv
<1>1. ASSUME NEW t \in Task, Enter(t) \/ Abandon(t) \/ Leave(t) PROVE LockInv'
  <2>1. UNCHANGED <<map, claims, key, entry>>
    BY <1>1 DEF Enter, Abandon, Leave
  <2>2. entry[t] \in Entry /\ LocksTypeOK'
    BY <1>t, <1>1, <2>1 DEF LocksTypeOK, Enter, Abandon, Leave, LockInv, ClaimsComplete
  <2>3. EntriesCounted' /\ ClaimsComplete' /\ ClaimsMapped'
    BY <1>t, <1>1, <2>1, SMTT(30) DEF LockInv, EntriesCounted, Claimants, ClaimsComplete,
       ClaimsMapped, LocksTypeOK, Enter, Abandon, Leave
  <2>4. InsideHolds'
    <3>1. ASSUME NEW u \in Task, taskAt'[u] = "inside", u # t PROVE holder'[entry[u]] = u
      <4>1. taskAt[u] = "inside" /\ holder[entry[u]] = u /\ u # None
        BY <1>t, <1>1, <3>1 DEF LockInv, InsideHolds, LocksTypeOK, Enter, Abandon, Leave
      <4>2. holder[entry[t]] \in {None, t} \/ UNCHANGED holder
        BY <1>1 DEF LockInv, InsideHolds, Enter, Abandon, Leave
      <4>3. entry[u] \in Entry
        BY <1>t, <4>1 DEF LockInv, ClaimsComplete, LocksTypeOK
      <4> QED
        BY <1>t, <1>1, <2>2, <3>1, <4>1, <4>2, <4>3 DEF LocksTypeOK, Enter, Abandon, Leave
    <3>2. taskAt'[t] = "inside" => holder'[entry[t]] = t
      BY <1>t, <1>1, <2>2 DEF LocksTypeOK, Enter, Abandon, Leave
    <3> QED
      BY <2>1, <3>1, <3>2 DEF InsideHolds
  <2> QED BY <2>2, <2>3, <2>4 DEF LockInv
<1>2. CASE UNCHANGED lockVars
  <2>1. LocksTypeOK' /\ ClaimsComplete' /\ ClaimsMapped' /\ InsideHolds'
    BY <1>2 DEF lockVars, LockInv, LocksTypeOK, ClaimsComplete, ClaimsMapped, InsideHolds
  <2>2. \A e : Claimants(e)' = Claimants(e)
    BY <1>2 DEF lockVars, Claimants
  <2> QED
    BY <1>2, <2>1, <2>2 DEF lockVars, LockInv, EntriesCounted
<1> QED
  BY <1>1, <1>2, RegisterStep, DropClaimStep DEF LocksNext

\* One session never has two tasks inside its critical section: merge_part,
\* complete_upload, cancel_upload and the GC's session pass exclude each other.
THEOREM SessionMutualExclusion == LocksSpec => []MutualExclusion
<1>1. LockInv => MutualExclusion
  BY DEF LockInv, ClaimsComplete, ClaimsMapped, InsideHolds, MutualExclusion, LocksTypeOK
<1> QED BY <1>1, LockInit, LockStep, PTL DEF LocksSpec

\* The map holds exactly the sessions with a claim, so it neither loses a
\* pending claim's mutex nor grows with abandoned sessions.
THEOREM SessionMapExact == LocksSpec => []MapMatchesClaims
<1>1. LockInv => MapMatchesClaims
  <2> SUFFICES ASSUME LockInv, NEW k \in Key
               PROVE  map[k] # None <=> \E t \in Task : key[t] = k
    BY DEF MapMatchesClaims
  <2>1. ASSUME map[k] # None PROVE \E t \in Task : key[t] = k
    <3>1. PICK t \in Task : entry[t] = map[k]
      BY <2>1 DEF LockInv, EntriesCounted, Claimants
    <3>2. map[key[t]] = map[k] /\ key[t] \in Key
      BY <2>1, <3>1 DEF LockInv, ClaimsComplete, ClaimsMapped, LocksTypeOK
    <3> QED BY <2>1, <3>2 DEF LockInv, EntriesCounted
  <2>2. ASSUME NEW t \in Task, key[t] = k PROVE map[k] # None
    BY <2>2, LockAssumption DEF LockInv, ClaimsComplete, ClaimsMapped, LocksTypeOK
  <2> QED BY <2>1, <2>2
<1> QED BY <1>1, LockInit, LockStep, PTL DEF LocksSpec

-----------------------------------------------------------------------------
(* Refinement: the table implements one everlasting mutex per session. *)

\* The task the mapping chooses is the one that is there.
LEMMA SoleTaskOfOne ==
  ASSUME NEW t \in Task
  PROVE  SoleTask({t}) = t
BY DEF SoleTask

\* The mapped owner of a session is the task inside it, if there is one.
LEMMA OwnerIsInside ==
  ASSUME LockInv, NEW k \in Key
  PROVE  \A t \in Task : OwnerOf(k) = t <=> taskAt[t] = "inside" /\ key[t] = k
<1> USE LockAssumption
<1>1. \A t, u \in Inside(k) : t = u
  BY DEF LockInv, ClaimsComplete, ClaimsMapped, InsideHolds, Inside, LocksTypeOK
<1>2. CASE Inside(k) = {}
  BY <1>2 DEF OwnerOf, Inside
<1>3. CASE Inside(k) # {}
  <2>1. PICK t \in Task : Inside(k) = {t}
    BY <1>1, <1>3 DEF Inside
  <2>2. OwnerOf(k) = t
    BY <1>3, <2>1, SoleTaskOfOne DEF OwnerOf
  <2> QED BY <2>1, <2>2 DEF Inside
<1> QED BY <1>2, <1>3

\* A claimant has a session, which no step but the return of the claim changes.
LEMMA ClaimantHasKey ==
  ASSUME LockInv, NEW t \in Task, taskAt[t] # "idle"
  PROVE  key[t] \in Key /\ entry[t] \in Entry /\ map[key[t]] = entry[t]
BY DEF LockInv, ClaimsComplete, ClaimsMapped, LocksTypeOK

\* A session whose insiders do not change keeps its owner.
LEMMA OwnerKept ==
  ASSUME NEW k \in Key, Inside(k)' = Inside(k)
  PROVE  OwnerOf(k)' = OwnerOf(k)
BY DEF OwnerOf

\* Registering is a request, whether the entry was found or inserted.
LEMMA RegisterRequests ==
  ASSUME LockInv, NEW t \in Task, NEW k \in Key, Register(t, k)
  PROVE  Mutex!Request(t, k)
<1> USE LockAssumption
<1>t. LocksTypeOK BY DEF LockInv
<1>1. /\ taskAt[t] = "idle"
      /\ taskAt' = [taskAt EXCEPT ![t] = "waiting"] /\ key' = [key EXCEPT ![t] = k]
  BY DEF Register, Claim
<1>2. \A l \in Key : OwnerOf(l)' = OwnerOf(l)
  <2>1. \A l \in Key : Inside(l)' = Inside(l)
    BY <1>t, <1>1 DEF Inside, LocksTypeOK
  <2> QED BY <2>1, OwnerKept
<1>3. WaitersOf(k)' = WaitersOf(k) \cup {t}
  BY <1>t, <1>1 DEF WaitersOf, LocksTypeOK
<1>4. ASSUME NEW l \in Key, l # k PROVE WaitersOf(l)' = WaitersOf(l)
  BY <1>t, <1>1, <1>4 DEF WaitersOf, LocksTypeOK
<1>5. \A l \in Key : OwnerOf(l) # t /\ t \notin WaitersOf(l)
  BY <1>1, OwnerIsInside DEF WaitersOf
<1> QED
  BY <1>2, <1>3, <1>4, <1>5 DEF Mutex!Request, Mutex!Away

\* The guard is granted by the session's own mutex: the entry a waiter holds
\* is the one every other claimant of the session holds.
LEMMA EnterGrants ==
  ASSUME LockInv, NEW t \in Task, Enter(t), NEW k \in Key, k = key[t]
  PROVE  Mutex!Grant(t, k)
<1> USE LockAssumption
<1>t. LocksTypeOK BY DEF LockInv
<1>1. /\ taskAt[t] = "waiting" /\ holder[entry[t]] = None /\ key' = key
      /\ taskAt' = [taskAt EXCEPT ![t] = "inside"]
  BY DEF Enter
<1>2. Inside(k) = {} /\ OwnerOf(k) = None
  BY <1>1, ClaimantHasKey DEF LockInv, ClaimsMapped, InsideHolds, Inside, OwnerOf
<1>3. OwnerOf(k)' = t
  <2>1. Inside(k)' = {t}
    BY <1>t, <1>1, <1>2 DEF Inside, LocksTypeOK
  <2> QED BY <2>1, SoleTaskOfOne DEF OwnerOf
<1>4. ASSUME NEW l \in Key, l # k PROVE OwnerOf(l)' = OwnerOf(l) /\ WaitersOf(l)' = WaitersOf(l)
  <2>1. Inside(l)' = Inside(l)
    BY <1>t, <1>1, <1>4 DEF Inside, LocksTypeOK
  <2>2. WaitersOf(l)' = WaitersOf(l)
    BY <1>t, <1>1, <1>4 DEF WaitersOf, LocksTypeOK
  <2> QED BY <2>1, <2>2, OwnerKept
<1>5. t \in WaitersOf(k) /\ WaitersOf(k)' = WaitersOf(k) \ {t}
  BY <1>t, <1>1 DEF WaitersOf, LocksTypeOK
<1> QED
  BY <1>2, <1>3, <1>4, <1>5 DEF Mutex!Grant

\* A dropped future gives up and nothing else.
LEMMA AbandonGivesUp ==
  ASSUME LockInv, NEW t \in Task, Abandon(t), NEW k \in Key, k = key[t]
  PROVE  Mutex!GiveUp(t, k)
<1>t. LocksTypeOK BY DEF LockInv
<1>1. taskAt[t] = "waiting" /\ key' = key /\ taskAt' = [taskAt EXCEPT ![t] = "leaving"]
  BY DEF Abandon
<1>2. \A l \in Key : OwnerOf(l)' = OwnerOf(l)
  <2>1. \A l \in Key : Inside(l)' = Inside(l)
    BY <1>t, <1>1 DEF Inside, LocksTypeOK
  <2> QED BY <2>1, OwnerKept
<1>3. t \in WaitersOf(k) /\ WaitersOf(k)' = WaitersOf(k) \ {t}
  BY <1>t, <1>1 DEF WaitersOf, LocksTypeOK
<1>4. ASSUME NEW l \in Key, l # k PROVE WaitersOf(l)' = WaitersOf(l)
  BY <1>t, <1>1, <1>4 DEF WaitersOf, LocksTypeOK
<1> QED
  BY <1>2, <1>3, <1>4 DEF Mutex!GiveUp

\* Dropping the guard unlocks the session, although the claim is still there.
LEMMA LeaveUnlocks ==
  ASSUME LockInv, NEW t \in Task, Leave(t), NEW k \in Key, k = key[t]
  PROVE  Mutex!Unlock(t, k)
<1> USE LockAssumption
<1>t. LocksTypeOK BY DEF LockInv
<1>1. taskAt[t] = "inside" /\ key' = key /\ taskAt' = [taskAt EXCEPT ![t] = "leaving"]
  BY DEF Leave
<1>2. OwnerOf(k) = t
  BY <1>1, OwnerIsInside
<1>3. OwnerOf(k)' = None
  <2>1. \A u \in Inside(k) : u = t
    BY <1>1 DEF LockInv, ClaimsComplete, ClaimsMapped, InsideHolds, Inside, LocksTypeOK
  <2>2. Inside(k)' = {}
    BY <1>t, <1>1, <2>1 DEF Inside, LocksTypeOK
  <2> QED BY <2>2 DEF OwnerOf
<1>4. ASSUME NEW l \in Key, l # k PROVE OwnerOf(l)' = OwnerOf(l)
  <2>1. Inside(l)' = Inside(l)
    BY <1>t, <1>1, <1>4 DEF Inside, LocksTypeOK
  <2> QED BY <2>1, OwnerKept
<1>5. \A l \in Key : WaitersOf(l)' = WaitersOf(l)
  BY <1>t, <1>1 DEF WaitersOf, LocksTypeOK
<1> QED
  BY <1>2, <1>3, <1>4, <1>5 DEF Mutex!Unlock

\* The return of a claim, and with it the end of an entry, is not visible.
LEMMA DropClaimStutters ==
  ASSUME LockInv, NEW t \in Task, DropClaim(t)
  PROVE  UNCHANGED Mutex!mutexVars
<1>t. LocksTypeOK BY DEF LockInv
<1>1. /\ taskAt[t] = "leaving" /\ taskAt' = [taskAt EXCEPT ![t] = "idle"]
      /\ key' = [key EXCEPT ![t] = None]
  BY DEF DropClaim, Depart
<1>2. \A l \in Key : Inside(l)' = Inside(l) /\ WaitersOf(l)' = WaitersOf(l)
  BY <1>t, <1>1 DEF Inside, WaitersOf, LocksTypeOK
<1> QED
  BY <1>2, OwnerKept DEF Mutex!mutexVars

\* The lock table implements one mutex per session, there from the start and
\* for ever: entries that come, go and are shared never show.
THEOREM SessionImplementsMutex == LocksSpec => ImplementsMutex
<1>1. LocksInit => Mutex!MutexInit
  BY DEF LocksInit, Mutex!MutexInit, Inside, OwnerOf, WaitersOf
<1>2. LockInv /\ [LocksNext]_lockVars => [Mutex!MutexNext]_(Mutex!mutexVars)
  <2> SUFFICES ASSUME LockInv, [LocksNext]_lockVars
               PROVE  [Mutex!MutexNext]_(Mutex!mutexVars)
    OBVIOUS
  <2>1. ASSUME NEW t \in Task, NEW k \in Key, Register(t, k) PROVE Mutex!MutexNext
    BY <2>1, RegisterRequests DEF Mutex!MutexNext
  <2>2. ASSUME NEW t \in Task, Enter(t) PROVE Mutex!MutexNext
    <3>1. key[t] \in Key BY <2>2, ClaimantHasKey DEF Enter
    <3> QED BY <2>2, <3>1, EnterGrants DEF Mutex!MutexNext
  <2>3. ASSUME NEW t \in Task, Abandon(t) PROVE Mutex!MutexNext
    <3>1. key[t] \in Key BY <2>3, ClaimantHasKey DEF Abandon
    <3> QED BY <2>3, <3>1, AbandonGivesUp DEF Mutex!MutexNext
  <2>4. ASSUME NEW t \in Task, Leave(t) PROVE Mutex!MutexNext
    <3>1. key[t] \in Key BY <2>4, ClaimantHasKey DEF Leave
    <3> QED BY <2>4, <3>1, LeaveUnlocks DEF Mutex!MutexNext
  <2>5. CASE UNCHANGED lockVars
    BY <2>5 DEF lockVars, Mutex!mutexVars, Inside, OwnerOf, WaitersOf
  <2> QED BY <2>1, <2>2, <2>3, <2>4, <2>5, DropClaimStutters DEF LocksNext
<1> QED
  BY <1>1, <1>2, LockInit, LockStep, PTL DEF LocksSpec, ImplementsMutex, Mutex!MutexSpec

-----------------------------------------------------------------------------
(* The key cache *)

Calls == [pc : {"idle", "lookup", "refresh", "fetch", "landed", "again", "done"},
          kid : Kids \cup {NoKid}, doc : SUBSET Kids, found : BOOLEAN]

\* last_refresh is the time at which the last fetch started.
JwksInv == JwksTypeOK /\ sinceRefresh = sinceFetch

LEMMA JwksStarts == JwksInit \/ JwksAtRest => JwksInv
<1> SUFFICES ASSUME JwksInit \/ JwksAtRest PROVE JwksInv
  OBVIOUS
<1>1. Usable(Doc[1]) \subseteq Kids /\ 1 \in 1..Len(Doc)
  BY JwksAssumption DEF Kids
<1>2. Idle \in Calls
  BY DEF Idle, Calls
<1>3. get \in [Caller -> Calls]
  BY <1>2 DEF JwksInit, JwksAtRest
<1> QED
  BY <1>1, <1>3, JwksAssumption DEF JwksInit, JwksAtRest, JwksInv, JwksTypeOK, Calls

LEMMA JwksKeeps == JwksInv /\ [JwksNext]_jwksVars => JwksInv'
<1> SUFFICES ASSUME JwksInv, [JwksNext]_jwksVars PROVE JwksInv'
  OBVIOUS
<1>0. /\ Debounce \in Nat /\ MaxFaults \in Nat /\ Len(Doc) \in Nat
      /\ \A v \in 1..Len(Doc) : Usable(Doc[v]) \subseteq Kids
      /\ get \in [Caller -> Calls] /\ cache \subseteq Kids /\ version \in 1..Len(Doc)
  BY JwksAssumption DEF Kids, JwksInv, JwksTypeOK, Calls
<1>1. ASSUME NEW c \in Caller, NEW kid \in Kids \cup {NoKid}, JwksGet(c, kid) PROVE JwksInv'
  <2>1. [Idle EXCEPT !.pc = "lookup", !.kid = kid] \in Calls
    <3>1. Idle \in Calls
      BY DEF Idle, Calls
    <3> QED
      BY <3>1 DEF Calls
  <2>2. get' \in [Caller -> Calls]
    BY <1>0, <1>1, <2>1 DEF JwksGet
  <2> QED
    BY <1>1, <2>2 DEF JwksGet, JwksInv, JwksTypeOK, Calls
<1>2. ASSUME NEW c \in Caller, JwksLookup(c) PROVE JwksInv'
  <2>1. Lookup(get[c].kid) \in BOOLEAN
    <3>1. CASE get[c].kid = NoKid
      BY <3>1 DEF Lookup
    <3>2. CASE get[c].kid # NoKid
      BY <3>2 DEF Lookup
    <3> QED
      BY <3>1, <3>2
  <2>2. get' \in [Caller -> Calls]
    BY <1>0, <1>2, <2>1, ZenonT(60) DEF JwksLookup, Calls
  <2> QED
    BY <1>2, <2>2 DEF JwksLookup, JwksInv, JwksTypeOK, Calls
<1>3. ASSUME NEW c \in Caller, MaybeRefresh(c) PROVE JwksInv'
  <2>1. get' \in [Caller -> Calls]
    BY <1>0, <1>3 DEF MaybeRefresh, Calls
  <2> QED
    BY <1>0, <1>3, <2>1 DEF MaybeRefresh, JwksInv, JwksTypeOK, Calls
<1>4. ASSUME NEW c \in Caller, FetchKeys(c) PROVE JwksInv'
  <2>1. get' \in [Caller -> Calls]
    BY <1>0, <1>4 DEF FetchKeys, Calls
  <2>2. faults' \in 0..MaxFaults
    BY <1>0, <1>4 DEF FetchKeys, JwksInv, JwksTypeOK
  <2> QED
    BY <1>4, <2>1, <2>2 DEF FetchKeys, JwksInv, JwksTypeOK, Calls
<1>5. ASSUME NEW c \in Caller, StoreKeys(c) PROVE JwksInv'
  <2>1. get' \in [Caller -> Calls] /\ cache' \subseteq Kids
    BY <1>0, <1>5, ZenonT(60) DEF StoreKeys, Calls
  <2> QED
    BY <1>5, <2>1 DEF StoreKeys, JwksInv, JwksTypeOK, Calls
<1>6. ASSUME NEW c \in Caller, JwksReturn(c) PROVE JwksInv'
  <2>1. Idle \in Calls
    BY DEF Idle, Calls
  <2>2. get' \in [Caller -> Calls]
    BY <1>0, <1>6, <2>1 DEF JwksReturn
  <2> QED
    BY <1>6, <2>2 DEF JwksReturn, JwksInv, JwksTypeOK, Calls
<1>7. CASE JwksTick
  BY <1>0, <1>7 DEF JwksTick, JwksInv, JwksTypeOK
<1>8. CASE ProviderRotates
  BY <1>0, <1>8 DEF ProviderRotates, JwksInv, JwksTypeOK
<1>9. CASE UNCHANGED jwksVars
  BY <1>9 DEF jwksVars, JwksInv, JwksTypeOK
<1> QED
  BY <1>1, <1>2, <1>3, <1>4, <1>5, <1>6, <1>7, <1>8, <1>9 DEF JwksNext, JwksStep

\* A step from a state of the invariant starts a fetch only a whole window after
\* the last one started (maybe_refresh).
LEMMA FetchIsDebounced ==
    JwksInv /\ [JwksNext]_jwksVars =>
        [(\E c \in Caller : get[c].pc # "fetch" /\ get'[c].pc = "fetch") => sinceFetch = Debounce]_jwksVars
<1> SUFFICES ASSUME JwksInv, JwksNext, NEW c \in Caller, get[c].pc # "fetch", get'[c].pc = "fetch"
             PROVE  sinceFetch = Debounce
  OBVIOUS
<1>0. get \in [Caller -> Calls] /\ Debounce \in Nat /\ sinceRefresh \in 0..Debounce /\ sinceRefresh = sinceFetch
  BY JwksAssumption DEF JwksInv, JwksTypeOK, Calls
<1>1. ASSUME NEW d \in Caller, MaybeRefresh(d) PROVE sinceFetch = Debounce
  <2>1. CASE sinceRefresh < Debounce
    <3>1. get' = [get EXCEPT ![d].pc = "again"]
      BY <1>1, <2>1 DEF MaybeRefresh
    <3> QED
      BY <1>0, <3>1
  <2>2. CASE ~(sinceRefresh < Debounce)
    BY <1>0, <2>2
  <2> QED
    BY <2>1, <2>2
<1>2. ASSUME NEW d \in Caller, NEW kid, JwksGet(d, kid) PROVE FALSE
  BY <1>0, <1>2 DEF JwksGet, Idle
<1>3. ASSUME NEW d \in Caller, JwksLookup(d) PROVE FALSE
  BY <1>0, <1>3 DEF JwksLookup
<1>4. ASSUME NEW d \in Caller, FetchKeys(d) PROVE FALSE
  BY <1>0, <1>4 DEF FetchKeys
<1>5. ASSUME NEW d \in Caller, StoreKeys(d) PROVE FALSE
  BY <1>0, <1>5 DEF StoreKeys
<1>6. ASSUME NEW d \in Caller, JwksReturn(d) PROVE FALSE
  BY <1>0, <1>6 DEF JwksReturn, Idle
<1> QED
  BY <1>1, <1>2, <1>3, <1>4, <1>5, <1>6 DEF JwksNext, JwksStep, JwksTick, ProviderRotates

\* "At most once per JWKS_REFRESH_DEBOUNCE", for every number of callers that
\* miss at once, every window, and whatever fails (maybe_refresh).
THEOREM RefreshesAreDebounced == JwksInit /\ [][JwksNext]_jwksVars => OneFetchPerWindow
<1>1. JwksInit => JwksInv
  BY JwksStarts
<1> QED
  BY <1>1, JwksKeeps, FetchIsDebounced, PTL DEF OneFetchPerWindow

-----------------------------------------------------------------------------
(* The life of a process *)

\* How many steps there are.
StepCount(p) == IF p \in Server THEN 12 ELSE 5

\* Requests are in flight only while there is a listener, and a start ends with
\* the last of its steps.
LifeInv ==
    /\ LifeTypeOK
    /\ \A p \in Process :
        /\ mode[p] \in {"starting", "closing", "gone"} => requests[p] = 0
        /\ mode[p] = "starting" => step[p] <= StepCount(p)

LEMMA StepCounts ==
    /\ Len(ServeSteps) = 12
    /\ \A p \in Process : Steps(p)[StepCount(p)] \in {"bind", "work"}
<1>1. Len(ServeSteps) = 12 /\ ServeSteps[12] = "bind" /\ CommandSteps[5] = "work"
  BY DEF ServeSteps, CommandSteps
<1>2. ASSUME NEW p \in Process PROVE Steps(p)[StepCount(p)] \in {"bind", "work"}
  <2>1. CASE p \in Server
    <3>1. Steps(p) = ServeSteps /\ StepCount(p) = 12
      BY <2>1 DEF Steps, StepCount
    <3> QED
      BY <1>1, <3>1
  <2>2. CASE p \notin Server
    <3>1. Steps(p) = CommandSteps /\ StepCount(p) = 5
      BY <2>2 DEF Steps, StepCount
    <3> QED
      BY <1>1, <3>1
  <2> QED
    BY <2>1, <2>2
<1> QED
  BY <1>1, <1>2

LEMMA LifeStarts == LifeInit => LifeInv
<1> SUFFICES ASSUME LifeInit PROVE LifeInv
  OBVIOUS
<1>1. LifeTypeOK
  BY LifeAssumption, StepCounts DEF LifeInit, LifeTypeOK, BackgroundTask, Stores
<1>2. \A p \in Process : requests[p] = 0 /\ step[p] = 0
  BY DEF LifeInit
<1> QED
  BY <1>1, <1>2 DEF LifeInv, StepCount

LEMMA LifeKeeps == LifeInv /\ [LifeNext]_lifeVars => LifeInv'
<1> SUFFICES ASSUME LifeInv, [LifeNext]_lifeVars PROVE LifeInv'
  OBVIOUS
<1>0. LifeTypeOK /\ MaxRequests \in Nat
  BY LifeAssumption DEF LifeInv
\* A step of the list that is not its last one has a next one.
<1>b. ASSUME NEW p \in Process, NEW s, At(p, s), s # "bind", s # "work", Advance(p)
      PROVE  step' \in [Process -> 0..Len(ServeSteps)] /\ step'[p] <= StepCount(p)
             /\ \A q \in Process \ {p} : step'[q] = step[q]
  <2>1. step[p] <= StepCount(p) /\ step[p] \in Nat /\ step[p] # StepCount(p)
    <3>1. step[p] <= StepCount(p)
      BY <1>b DEF At, LifeInv
    <3>2. step[p] \in Nat
      <4>1. Len(ServeSteps) \in Nat
        BY StepCounts
      <4>2. step[p] \in 0..Len(ServeSteps)
        BY <1>0 DEF LifeTypeOK
      <4> QED
        BY <4>1, <4>2
    <3>3. Steps(p)[step[p]] = s
      BY <1>b DEF At
    <3> QED
      BY <1>b, <3>1, <3>2, <3>3, StepCounts
  <2>2. step[p] + 1 \in 0..Len(ServeSteps) /\ step[p] + 1 <= StepCount(p)
    BY <2>1, StepCounts DEF StepCount
  <2>3. step' = [step EXCEPT ![p] = step[p] + 1]
    BY <1>b DEF Advance
  <2> QED
    BY <1>0, <2>2, <2>3 DEF LifeTypeOK
<1>c. ASSUME NEW p \in Process, Exit(p), step' = step
      PROVE  /\ mode' \in [Process -> {"starting", "serving", "draining", "closing", "gone"}]
             /\ tasks' \in [Process -> [BackgroundTask -> {"none", "idle", "busy", "ended"}]]
             /\ requests' \in [Process -> 0..MaxRequests]
             /\ \A q \in Process : /\ mode'[q] \in {"starting", "closing", "gone"} => requests'[q] = 0
                                   /\ mode'[q] = "starting" => step'[q] <= StepCount(q)
  BY <1>0, <1>c DEF Exit, EnterMode, LifeInv, LifeTypeOK
<1>1. ASSUME NEW p \in Process, LifeStart(p) PROVE LifeInv'
  <2>1. step' = [step EXCEPT ![p] = 1] /\ 1 \in 0..Len(ServeSteps) /\ 1 <= StepCount(p)
    BY <1>1, StepCounts DEF LifeStart, Advance, StepCount
  <2> QED
    BY <1>0, <1>1, <2>1 DEF LifeStart, LifeInv, LifeTypeOK
<1>2. ASSUME NEW p \in Process, ClaimPrefix(p) PROVE LifeInv'
  <2>1. CASE ~leaseOn
    BY <1>0, <1>2, <1>b, <2>1 DEF ClaimPrefix, LifeInv, LifeTypeOK
  <2>2. CASE leaseOn /\ prefixHolder \in {Nobody, p}
    BY <1>0, <1>2, <1>b, <2>2 DEF ClaimPrefix, LifeInv, LifeTypeOK
  <2>3. CASE leaseOn /\ prefixHolder \notin {Nobody, p}
    BY <1>0, <1>2, <1>c, <2>3 DEF ClaimPrefix, LifeInv, LifeTypeOK
  <2> QED
    BY <2>1, <2>2, <2>3
<1>3. ASSUME NEW p \in Process, OpenStore(p) PROVE LifeInv'
  <2>1. PICK s \in Stores : /\ At(p, s)
                            /\ \/ /\ opened' = [opened EXCEPT ![p] = @ \cup {s}]
                                  /\ epoch' = [epoch EXCEPT ![s] = p]
                               \/ UNCHANGED <<opened, epoch>>
    BY <1>3 DEF OpenStore
  <2>2. s # "bind" /\ s # "work"
    BY DEF Stores
  <2> QED
    <3>1. /\ step' \in [Process -> 0..Len(ServeSteps)] /\ step'[p] <= StepCount(p)
          /\ \A q \in Process \ {p} : step'[q] = step[q]
      BY <1>3, <1>b, <2>1, <2>2 DEF OpenStore
    <3>2. opened' \in [Process -> SUBSET Stores]
      <4>1. opened \in [Process -> SUBSET Stores] /\ opened[p] \cup {s} \in SUBSET Stores
        BY <1>0 DEF LifeTypeOK
      <4>2. opened' = opened \/ opened' = [opened EXCEPT ![p] = opened[p] \cup {s}]
        BY <2>1
      <4> QED
        BY <4>1, <4>2
    <3>3. epoch' \in [Stores -> Process \cup {Nobody}]
      <4>1. epoch \in [Stores -> Process \cup {Nobody}] /\ p \in Process \cup {Nobody}
        BY <1>0 DEF LifeTypeOK
      <4>2. epoch' = epoch \/ epoch' = [epoch EXCEPT ![s] = p]
        BY <2>1
      <4> QED
        BY <4>1, <4>2
    <3> QED
      BY <1>0, <1>3, <3>1, <3>2, <3>3 DEF OpenStore, LifeInv, LifeTypeOK
<1>4. ASSUME NEW p \in Process, Build(p) PROVE LifeInv'
  <2>0. PICK s \in {"config", "telemetry", "oidc", "engines", "gc", "objects", "mirror"} :
          At(p, s) /\ \E ts : Spawn(p, ts)
    BY <1>4 DEF Build
  <2>1. PICK ts : Spawn(p, ts)
    BY <2>0
  <2>2. tasks' \in [Process -> [BackgroundTask -> {"none", "idle", "busy", "ended"}]]
    BY <1>0, <2>1 DEF Spawn, LifeTypeOK
  <2> QED
    BY <1>0, <1>4, <1>b, <2>0, <2>1, <2>2 DEF Build, LifeInv, LifeTypeOK
<1>5. ASSUME NEW p \in Process, StartFails(p) PROVE LifeInv'
  BY <1>0, <1>5, <1>c DEF StartFails, LifeInv, LifeTypeOK
<1>6. ASSUME NEW p \in Process, Bind(p) \/ CommandEnds(p) PROVE LifeInv'
  BY <1>0, <1>6 DEF Bind, CommandEnds, At, EnterMode, LifeInv, LifeTypeOK
<1>7. ASSUME NEW p \in Process, Request(p) PROVE LifeInv'
  BY <1>0, <1>7 DEF Request, LifeInv, LifeTypeOK
<1>8. ASSUME NEW p \in Process, Answer(p) PROVE LifeInv'
  BY <1>0, <1>8 DEF Answer, LifeInv, LifeTypeOK
<1>9. ASSUME NEW p \in Process, NEW t \in BackgroundTask, TaskRun(p, t) PROVE LifeInv'
  <2>1. tasks' \in [Process -> [BackgroundTask -> {"none", "idle", "busy", "ended"}]]
    <3>1. PICK x \in {"none", "idle", "busy", "ended"} : tasks' = [tasks EXCEPT ![p][t] = x]
      BY <1>9 DEF TaskRun
    <3>2. [tasks[p] EXCEPT ![t] = x] \in [BackgroundTask -> {"none", "idle", "busy", "ended"}]
      BY <1>0 DEF LifeTypeOK
    <3> QED
      BY <1>0, <3>1, <3>2 DEF LifeTypeOK
  <2> QED
    BY <1>0, <1>9, <2>1 DEF TaskRun, LifeInv, LifeTypeOK
<1>10. ASSUME NEW p \in Process, Signal(p) \/ Drained(p) PROVE LifeInv'
  <2>1. CASE Signal(p)
    BY <1>0, <2>1 DEF Signal, EnterMode, LifeInv, LifeTypeOK
  <2>2. CASE Drained(p)
    BY <1>0, <2>2 DEF Drained, EnterMode, LifeInv, LifeTypeOK
  <2> QED
    BY <1>10, <2>1, <2>2
<1>11. ASSUME NEW p \in Process, Cancel(p) PROVE LifeInv'
  BY <1>0, <1>11 DEF Cancel, LifeInv, LifeTypeOK
<1>12. ASSUME NEW p \in Process, Release(p) PROVE LifeInv'
  BY <1>0, <1>12 DEF Release, LifeInv, LifeTypeOK
<1>13. ASSUME NEW p \in Process, Finish(p) \/ Killed(p) PROVE LifeInv'
  BY <1>0, <1>13, <1>c DEF Finish, Killed, LifeInv, LifeTypeOK
<1>14. CASE Expire
  BY <1>0, <1>14 DEF Expire, LifeInv, LifeTypeOK
<1>15. CASE UNCHANGED lifeVars
  BY <1>0, <1>15 DEF lifeVars, LifeInv, LifeTypeOK
<1> QED
  BY <1>1, <1>2, <1>3, <1>4, <1>5, <1>6, <1>7, <1>8, <1>9, <1>10, <1>11, <1>12, <1>13, <1>14, <1>15
  DEF LifeNext, Proceed

\* The prefix is given back only when neither a request nor a reactive service of
\* the process can still write, for every number of servers and commands and
\* wherever one of them fails or is killed (serve).
THEOREM ReleasedAfterServices == LifeSpec => ReleaseAfterServices
<1> DEFINE Settled == \A p \in Server :
        (guard[p] /\ ~guard'[p] /\ mode'[p] # "gone") =>
            /\ requests[p] = 0
            /\ tasks[p]["reactive"] \in {"none", "ended"}
<1>1. LifeInv /\ [LifeNext]_lifeVars => [Settled]_lifeVars
  <2> SUFFICES ASSUME LifeInv, LifeNext, NEW p \in Server, guard[p], ~guard'[p], mode'[p] # "gone"
               PROVE  requests[p] = 0 /\ tasks[p]["reactive"] \in {"none", "ended"}
    OBVIOUS
  <2>0. LifeTypeOK /\ p \in Process
    BY DEF LifeInv, Process
  <2>1. ASSUME NEW q \in Process, Exit(q), guard' = guard \/ guard' = [guard EXCEPT ![q] = FALSE]
        PROVE  FALSE
    BY <2>0, <2>1 DEF Exit, EnterMode, LifeTypeOK
  <2>2. PICK q \in Process : Release(q)
    <3>1. ASSUME NEW q \in Process, ClaimPrefix(q) PROVE FALSE
      BY <2>0, <3>1 DEF ClaimPrefix, LifeTypeOK
    <3>2. ASSUME NEW q \in Process, StartFails(q) \/ Killed(q) PROVE FALSE
      BY <2>1, <3>2 DEF StartFails, Killed
    <3> QED
      BY <3>1, <3>2
      DEF LifeNext, Proceed, LifeStart, OpenStore, Build, Bind, CommandEnds, Request, Answer, TaskRun,
          Signal, Drained, Cancel, Finish, Expire
  <2>3. q = p
    BY <2>0, <2>2 DEF Release, LifeTypeOK
  <2> QED
    BY <2>0, <2>2, <2>3 DEF Release, MayRelease, LifeInv
<1> QED
  BY <1>1, LifeStarts, LifeKeeps, PTL DEF LifeSpec, ReleaseAfterServices

-----------------------------------------------------------------------------
(* The probes *)

LEMMA ProbeStarts == ProbeInit => ProbeTypeOK
<1> SUFFICES ASSUME ProbeInit PROVE ProbeTypeOK
  OBVIOUS
<1>1. healthy \in [Dependency -> BOOLEAN] /\ stopping \in BOOLEAN
  BY Zenon DEF ProbeInit
<1>2. due \in -(MaxLate + 1)..Period /\ left \in 0..1 /\ late \in 0..MaxLate /\ outages \in 0..MaxOutages
  BY ProbeAssumption DEF ProbeInit
<1>3. probeAt = "tick" /\ reach \in [Dependency -> {"up", "down", "hung"}]
  BY DEF ProbeInit
<1> QED
  BY <1>1, <1>2, <1>3 DEF ProbeTypeOK

LEMMA ProbeKeeps == ProbeTypeOK /\ [ProbeNext]_probeVars => ProbeTypeOK'
<1> SUFFICES ASSUME ProbeTypeOK, [ProbeNext]_probeVars PROVE ProbeTypeOK'
  OBVIOUS
<1>0. Period \in Nat /\ MaxLate \in Nat /\ MaxOutages \in Nat /\ Period >= 1
  BY ProbeAssumption
<1>1. CASE ProbeLoop
  <2>1. late' \in 0..MaxLate /\ UNCHANGED <<reach, stopping, outages>>
    BY <1>0, <1>1 DEF ProbeLoop
  <2>2. due' \in -(MaxLate + 1)..Period /\ left' \in 0..1
    BY <1>0, <1>1 DEF ProbeLoop, Ticks, Guard, Probe, TakeTick, ProbeTypeOK
  <2>3. probeAt' \in {"tick", "timeout", "s3", "oidc", "ended"}
    BY <1>1 DEF ProbeLoop, Ticks, Guard, Probe, BreakOr, ProbeTypeOK
  <2>4. healthy' \in [Dependency -> BOOLEAN]
    <3>1. CASE UNCHANGED healthy
      BY <3>1 DEF ProbeTypeOK
    <3>2. CASE Probe
      <4>1. (reach[probeAt] = "up") \in BOOLEAN
        OBVIOUS
      <4> QED
        BY <3>2, <4>1 DEF Probe, ProbeTypeOK
    <3> QED
      BY <1>1, <3>1, <3>2 DEF ProbeLoop
  <2> QED
    BY <2>1, <2>2, <2>3, <2>4 DEF ProbeTypeOK
<1>2. CASE ProbeClock
  BY <1>0, <1>2 DEF ProbeClock, ProbeTypeOK
<1>3. CASE ProbeCancel
  BY <1>3 DEF ProbeCancel, ProbeTypeOK
<1>4. ASSUME NEW d \in Dependency, Outage(d) \/ Recovery(d) PROVE ProbeTypeOK'
  BY <1>0, <1>4 DEF Outage, Recovery, ProbeTypeOK
<1>5. CASE UNCHANGED probeVars
  BY <1>5 DEF probeVars, ProbeTypeOK
<1> QED
  BY <1>1, <1>2, <1>3, <1>4, <1>5 DEF ProbeNext

-----------------------------------------------------------------------------
(* The plane *)

\* Locks, key cache, probes and processes keep their types in every behaviour of
\* the plane.
THEOREM ServicesTypeCorrect == ServicesSpec => []ServicesTypesOK
<1>1. ServicesInit => LockInv /\ JwksInv /\ ProbeTypeOK /\ LifeInv
  BY LockInit, JwksStarts, ProbeStarts, LifeStarts DEF ServicesInit
<1>2. [ServicesNext]_<<component, vars, lockVars, jwksVars, probeVars, lifeVars>> =>
        /\ [LocksNext]_lockVars /\ [JwksNext]_jwksVars
        /\ [ProbeNext]_probeVars /\ [LifeNext]_lifeVars
  BY DEF ServicesNext
<1>3. LockInv /\ JwksInv /\ ProbeTypeOK /\ LifeInv => ServicesTypesOK
  BY DEF LockInv, JwksInv, LifeInv, ServicesTypesOK
<1> QED
  BY <1>1, <1>2, <1>3, LockStep, JwksKeeps, ProbeKeeps, LifeKeeps, PTL DEF ServicesSpec
=============================================================================
