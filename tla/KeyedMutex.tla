----------------------------- MODULE KeyedMutex -----------------------------
(***************************************************************************)
(* What the handlers of src/src/fs/mod.rs rely on when they call           *)
(* SessionLocks::acquire: one mutex per session id, there from the start   *)
(* and for ever.  No table, no entries, no counters.  A waiter may give    *)
(* up, which is what a dropped future does.                                *)
(***************************************************************************)
CONSTANTS Task, Key, None

VARIABLES
    owner,     \* the task in the critical section of each session, or None
    waiting    \* the tasks that wait for each session

mutexVars == <<owner, waiting>>

MutexInit ==
    /\ owner = [k \in Key |-> None]
    /\ waiting = [k \in Key |-> {}]

\* A task takes part for one session at a time.
Away(t) == \A k \in Key : owner[k] # t /\ t \notin waiting[k]

Request(t, k) ==
    /\ Away(t)
    /\ waiting' = [waiting EXCEPT ![k] = @ \cup {t}]
    /\ UNCHANGED owner

Grant(t, k) ==
    /\ t \in waiting[k] /\ owner[k] = None
    /\ owner' = [owner EXCEPT ![k] = t]
    /\ waiting' = [waiting EXCEPT ![k] = @ \ {t}]

GiveUp(t, k) ==
    /\ t \in waiting[k]
    /\ waiting' = [waiting EXCEPT ![k] = @ \ {t}]
    /\ UNCHANGED owner

Unlock(t, k) ==
    /\ owner[k] = t
    /\ owner' = [owner EXCEPT ![k] = None]
    /\ UNCHANGED waiting

MutexNext ==
    \E t \in Task, k \in Key :
        Request(t, k) \/ Grant(t, k) \/ GiveUp(t, k) \/ Unlock(t, k)

MutexSpec == MutexInit /\ [][MutexNext]_mutexVars
=============================================================================
