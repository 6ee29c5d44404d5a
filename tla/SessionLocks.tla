---------------------------- MODULE SessionLocks ----------------------------
(***************************************************************************)
(* FsEngine's per-upload lock table (SessionLocks, src/src/fs/mod.rs): a   *)
(* map from a session id to a counted entry that holds an async mutex.     *)
(* Tasks are request handlers and the garbage collector.  A handler's      *)
(* future may be dropped at any await.                                     *)
(***************************************************************************)
EXTENDS Integers, FiniteSets

CONSTANTS
    Task,     \* concurrent claimants
    Key,      \* session ids
    Entry,    \* addresses an Arc<SessionEntry> may have
    None      \* no entry, no task, no key

ASSUME LockAssumption ==
    /\ IsFiniteSet(Task)
    /\ None \notin Task \cup Key \cup Entry

VARIABLES
    map,      \* SessionLocks.inner
    claims,   \* SessionEntry.claims
    holder,   \* SessionEntry.lock: the task inside, or None
    taskAt,   \* idle, waiting, inside, leaving
    key,      \* SessionLock.key
    entry     \* SessionLock.entry

lockVars == <<map, claims, holder, taskAt, key, entry>>

\* Claim counters never go below zero, and every SessionLock names a key and
\* an entry or neither.
LocksTypeOK ==
    /\ map \in [Key -> Entry \cup {None}]
    /\ claims \in [Entry -> Nat]
    /\ holder \in [Entry -> Task \cup {None}]
    /\ taskAt \in [Task -> {"idle", "waiting", "inside", "leaving"}]
    /\ key \in [Task -> Key \cup {None}]
    /\ entry \in [Task -> Entry \cup {None}]

LocksInit ==
    /\ map = [k \in Key |-> None]
    /\ claims = [e \in Entry |-> 0]
    /\ holder = [e \in Entry |-> None]
    /\ taskAt = [t \in Task |-> "idle"]
    /\ key = [t \in Task |-> None]
    /\ entry = [t \in Task |-> None]

\* The tasks that own a claim on an entry, waiting ones included.
Claimants(e) == {t \in Task : entry[t] = e}

\* An address is free once neither the map nor a claim refers to it.
Free(e) == (\A k \in Key : map[k] # e) /\ Claimants(e) = {}

Claim(t, k, e, n) ==
    /\ claims' = [claims EXCEPT ![e] = n + 1]
    /\ taskAt' = [taskAt EXCEPT ![t] = "waiting"]
    /\ key' = [key EXCEPT ![t] = k]
    /\ entry' = [entry EXCEPT ![t] = e]

\* A mutation of Register: an entry that is inserted is not counted.
RegisterUncounted(t, k) ==
    /\ taskAt[t] = "idle"
    /\ \/ /\ map[k] # None
          /\ Claim(t, k, map[k], claims[map[k]])
          /\ UNCHANGED <<map, holder>>
       \/ /\ map[k] = None
          /\ \E e \in Entry :
                /\ Free(e)
                /\ Claim(t, k, e, 0 - 1)
                /\ map' = [map EXCEPT ![k] = e]
                /\ holder' = [holder EXCEPT ![e] = None]

\* SessionLocks::acquire, all of it under the map's mutex: the entry is
\* found or inserted with zero claims, and counted.
Register(t, k) ==
    /\ taskAt[t] = "idle"
    /\ \/ /\ map[k] # None
          /\ Claim(t, k, map[k], claims[map[k]])
          /\ UNCHANGED <<map, holder>>
       \/ /\ map[k] = None
          /\ \E e \in Entry :
                /\ Free(e)
                /\ Claim(t, k, e, 0)
                /\ map' = [map EXCEPT ![k] = e]
                /\ holder' = [holder EXCEPT ![e] = None]

\* SessionLock::acquire returns the guard.
Enter(t) ==
    /\ taskAt[t] = "waiting"
    /\ holder[entry[t]] = None
    /\ holder' = [holder EXCEPT ![entry[t]] = t]
    /\ taskAt' = [taskAt EXCEPT ![t] = "inside"]
    /\ UNCHANGED <<map, claims, key, entry>>

\* The handler's future is dropped while it waits for the mutex.
Abandon(t) ==
    /\ taskAt[t] = "waiting"
    /\ taskAt' = [taskAt EXCEPT ![t] = "leaving"]
    /\ UNCHANGED <<map, claims, holder, key, entry>>

\* A mutation of Leave: the guard outlives the critical section.
LeaveHolding(t) ==
    /\ taskAt[t] = "inside"
    /\ taskAt' = [taskAt EXCEPT ![t] = "leaving"]
    /\ UNCHANGED <<map, claims, holder, key, entry>>

\* The critical section ends, or its future is dropped.  Locals drop in
\* reverse order, so the guard goes before the claim.
Leave(t) ==
    /\ taskAt[t] = "inside"
    /\ holder' = [holder EXCEPT ![entry[t]] = None]
    /\ taskAt' = [taskAt EXCEPT ![t] = "leaving"]
    /\ UNCHANGED <<map, claims, key, entry>>

Depart(t) ==
    /\ taskAt' = [taskAt EXCEPT ![t] = "idle"]
    /\ key' = [key EXCEPT ![t] = None]
    /\ entry' = [entry EXCEPT ![t] = None]
    /\ UNCHANGED holder

\* Mutant: the entry goes with the first claim that leaves.
DropClaimRemoves(t) ==
    /\ taskAt[t] = "leaving"
    /\ map' = [map EXCEPT ![key[t]] = None]
    /\ claims' = [claims EXCEPT ![entry[t]] = @ - 1]
    /\ Depart(t)

\* Drop for SessionLock, under the map's mutex.
DropClaim(t) ==
    /\ taskAt[t] = "leaving"
    /\ IF map[key[t]] = entry[t]
       THEN /\ claims' = [claims EXCEPT ![entry[t]] = @ - 1]
            /\ map' = [map EXCEPT ![key[t]] = IF claims[entry[t]] = 1 THEN None ELSE @]
       ELSE UNCHANGED <<map, claims>>
    /\ Depart(t)

LocksNext ==
    \E t \in Task :
        \/ \E k \in Key : Register(t, k)
        \/ Enter(t) \/ Abandon(t) \/ Leave(t) \/ DropClaim(t)

LocksSpec == LocksInit /\ [][LocksNext]_lockVars

\* A guard is dropped in the end and so is a claim.  The Tokio mutex hands
\* over in FIFO order, so a waiter is not overtaken for ever.
LocksFairness ==
    \A t \in Task : SF_lockVars(Enter(t)) /\ WF_lockVars(Leave(t)) /\ WF_lockVars(DropClaim(t))

-----------------------------------------------------------------------------
(* Properties *)

\* "Two claims and two critical sections give exactly the lost update that
\* this type prevents": one session never has two tasks inside.
MutualExclusion ==
    \A t, u \in Task :
        taskAt[t] = "inside" /\ taskAt[u] = "inside" /\ key[t] = key[u] => t = u

\* "The map cannot grow with abandoned sessions", and an entry with a
\* pending claim never vanishes: a session is in the map exactly while some
\* task has a claim on it.
MapMatchesClaims ==
    \A k \in Key : map[k] # None <=> \E t \in Task : key[t] = k

\* The table is not visible to its users: whatever entries come, go and are
\* counted, every step is a step of one everlasting mutex per session, or no
\* step at all.
Inside(k) == {t \in Task : taskAt[t] = "inside" /\ key[t] = k}

SoleTask(S) == CHOOSE t \in Task : t \in S

OwnerOf(k) == IF Inside(k) = {} THEN None ELSE SoleTask(Inside(k))

WaitersOf(k) == {t \in Task : taskAt[t] = "waiting" /\ key[t] = k}

Mutex == INSTANCE KeyedMutex WITH
    owner <- [k \in Key |-> OwnerOf(k)],
    waiting <- [k \in Key |-> WaitersOf(k)]

ImplementsMutex == Mutex!MutexSpec

\* Whoever registers gets in, unless its future is dropped.
WaiterEnters ==
    \A t \in Task : taskAt[t] = "waiting" ~> taskAt[t] # "waiting"
=============================================================================
