----------------------------- MODULE MCServices ------------------------------
(* What must happen in the end, for the lease, the locks of the upload     *)
(* sessions, the key cache, the dependency probes and the life of a        *)
(* process, side by side.  They share no state: a behaviour runs one of    *)
(* them, and the others rest in a state in which none of their fair        *)
(* actions is enabled (the lease is never at rest, so its fairness names   *)
(* the component).                                                         *)
EXTENDS MCWriterLease, SessionLocks, MCJwksCache, HealthProbe, ServeLife

VARIABLE component

JwksAtRest ==
    /\ version = 1 /\ cache = Usable(Doc[1])
    /\ sinceRefresh = Debounce /\ sinceFetch = Debounce
    /\ get = [c \in Caller |-> Idle] /\ faults = 0

ServicesInit ==
    /\ component \in {"lease", "locks", "jwks", "probes", "life"}
    /\ Init /\ LocksInit /\ ProbeInit /\ LifeInit
    /\ IF component = "jwks" THEN JwksInit ELSE JwksAtRest
    /\ component # "life" => leaseOn

ServicesNext ==
    /\ UNCHANGED component
    /\ \/ /\ component = "lease" /\ Next
          /\ UNCHANGED <<lockVars, jwksVars, probeVars, lifeVars>>
       \/ /\ component = "locks" /\ LocksNext
          /\ UNCHANGED <<vars, jwksVars, probeVars, lifeVars>>
       \/ /\ component = "jwks" /\ JwksNext
          /\ UNCHANGED <<vars, lockVars, probeVars, lifeVars>>
       \/ /\ component = "probes" /\ ProbeNext
          /\ UNCHANGED <<vars, lockVars, jwksVars, lifeVars>>
       \/ /\ component = "life" /\ LifeNext
          /\ UNCHANGED <<vars, lockVars, jwksVars, probeVars>>

LeaseRuns(A) == component = "lease" /\ A

LeaseFairness ==
    /\ SF_vars(LeaseRuns(Tick))
    /\ \A i \in Instance :
        /\ WF_vars(LeaseRuns(AcquireCreate(i))) /\ WF_vars(LeaseRuns(AcquireFetch(i)))
        /\ WF_vars(LeaseRuns(TakeOver(i))) /\ WF_vars(LeaseRuns(ReleaseDelete(i)))
        /\ WF_vars(LeaseRuns(RenewFetch(i))) /\ WF_vars(LeaseRuns(RenewPut(i)))
        /\ WF_vars(LeaseRuns(BuildStore(i)))
        /\ WF_vars(LeaseRuns(AcquireStart(i))) /\ WF_vars(LeaseRuns(Restart(i)))
        /\ \A s \in 1..NumStores : WF_vars(LeaseRuns(StoreWrite(i, s)))

ServicesSpec ==
    /\ ServicesInit
    /\ [][ServicesNext]_<<component, vars, lockVars, jwksVars, probeVars, lifeVars>>
    /\ LeaseFairness /\ LocksFairness /\ JwksFairness /\ LifeFairness

\* The state of every component keeps its type.
ServicesTypesOK == LocksTypeOK /\ JwksTypeOK /\ ProbeTypeOK /\ LifeTypeOK
=============================================================================
