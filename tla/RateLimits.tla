----------------------------- MODULE RateLimits -----------------------------
(***************************************************************************)
(* The request limiter (limits.rs): one token bucket per peer address      *)
(* behind a mutex, a cap on the peers tracked, and an idle sweep that one  *)
(* request in SweepEvery claims with an atomic counter.                    *)
(*                                                                         *)
(* Time is relative: a bucket keeps how old its `last` is, and a request   *)
(* how old its reading of the clock is, which take reads before it waits   *)
(* for the mutex.  The counter is unsigned and wraps at CounterMod.        *)
(***************************************************************************)
EXTENDS Naturals, FiniteSets

CONSTANTS
    Peer, Worker,
    Capacity, Refill,   \* tokens, and tokens gained per tick
    IdleEvict,          \* IDLE_EVICT in ticks
    MaxLag,             \* bound: ticks from the clock reading of take to its lock
    MaxTracked,         \* MAX_TRACKED_PEERS
    SweepEvery,         \* IDLE_SWEEP_EVERY
    CounterMod,         \* 2^64, scaled down
    Untracked, NoPeer

ASSUME LimitsAssumption ==
    /\ {Capacity, Refill, IdleEvict, MaxTracked, SweepEvery} \subseteq Nat \ {0}
    /\ MaxLag \in Nat
    /\ IsFiniteSet(Worker) /\ CounterMod \in Nat /\ CounterMod > SweepEvery + Cardinality(Worker)
    /\ Untracked \notin [tokens : 0..Capacity, age : 0..IdleEvict + MaxLag]

\* "Ten minutes is far longer than any bucket takes to fill again."  So with
\* the default burst, the tokens of one minute; a configured rate_burst above
\* ten times rate_per_minute breaks it.
FillsInTime == IdleEvict * Refill >= Capacity

VARIABLES
    buckets,       \* peer -> [tokens, age] or Untracked
    sinceSweep,    \* the atomic counter
    limitJob,      \* the call of the middleware each worker runs
    budget,        \* history: tokens that the peer has a claim to
    displaced      \* history: peers whose bucket went to make room

limitVars == <<buckets, sinceSweep, limitJob, budget, displaced>>

Tracked == {p \in Peer : buckets[p] # Untracked}
NoJob == [pc |-> "idle", peer |-> NoPeer, seen |-> 0, lag |-> 0]

\* Older than this, a bucket is full for every request and idle for a sweep.
MaxAge == IdleEvict + MaxLag

LimitsTypeOK ==
    /\ buckets \in [Peer -> [tokens : 0..Capacity, age : 0..MaxAge] \cup {Untracked}]
    /\ sinceSweep \in 0..(CounterMod - 1)
    /\ limitJob \in [Worker -> [pc : {"idle", "count", "claim", "sweep", "clock", "take"},
                           peer : Peer \cup {NoPeer}, seen : 0..(CounterMod - 1),
                           lag : 0..MaxLag]]
    /\ budget \in [Peer -> 0..Capacity]
    /\ displaced \subseteq Peer

\* TokenBucket::new: the counter starts one short, so the first call sweeps.
LimitsInit ==
    /\ buckets = [p \in Peer |-> Untracked]
    /\ sinceSweep = SweepEvery - 1
    /\ limitJob = [w \in Worker |-> NoJob]
    /\ budget = [p \in Peer |-> Capacity]
    /\ displaced = {}

\* A request of a peer reaches RateLimitMiddleware::call.
Arrive(w, p) ==
    /\ limitJob[w].pc = "idle"
    /\ limitJob' = [limitJob EXCEPT ![w] = [NoJob EXCEPT !.pc = "count", !.peer = p]]
    /\ UNCHANGED <<buckets, sinceSweep, budget, displaced>>

\* sweep_due, fetch_add
SweepDue(w) ==
    /\ limitJob[w].pc = "count"
    /\ sinceSweep' = (sinceSweep + 1) % CounterMod
    /\ limitJob' = IF (sinceSweep + 1) % CounterMod < SweepEvery
              THEN [limitJob EXCEPT ![w].pc = "clock"]
              ELSE [limitJob EXCEPT ![w].pc = "claim", ![w].seen = sinceSweep]
    /\ UNCHANGED <<buckets, budget, displaced>>

\* Mutant: the counter is taken down without the wrap of an unsigned one.
ClaimSweepSigned(w) ==
    /\ limitJob[w].pc = "claim"
    /\ sinceSweep' = sinceSweep - (limitJob[w].seen + 1)
    /\ limitJob' = [limitJob EXCEPT ![w].pc = "sweep", ![w].seen = 0]
    /\ UNCHANGED <<buckets, budget, displaced>>

\* sweep_due, fetch_sub(seen + 1)
ClaimSweep(w) ==
    /\ limitJob[w].pc = "claim"
    /\ sinceSweep' = (sinceSweep + CounterMod - ((limitJob[w].seen + 1) % CounterMod)) % CounterMod
    /\ limitJob' = [limitJob EXCEPT ![w].pc = "sweep", ![w].seen = 0]
    /\ UNCHANGED <<buckets, budget, displaced>>

\* Mutant: the sweep drops buckets that are still filling.
EvictIdleEarly(w) ==
    /\ limitJob[w].pc = "sweep"
    /\ buckets' = [p \in Peer |->
                    IF p \in Tracked /\ buckets[p].age >= 1 THEN Untracked ELSE buckets[p]]
    /\ limitJob' = [limitJob EXCEPT ![w].pc = "clock"]
    /\ UNCHANGED <<sinceSweep, budget, displaced>>

\* evict_idle reads the clock under the mutex.
EvictIdle(w) ==
    /\ limitJob[w].pc = "sweep"
    /\ buckets' = [p \in Peer |->
                    IF p \in Tracked /\ buckets[p].age >= IdleEvict THEN Untracked ELSE buckets[p]]
    /\ limitJob' = [limitJob EXCEPT ![w].pc = "clock"]
    /\ UNCHANGED <<sinceSweep, budget, displaced>>

\* make_room: the peers that go are the coldest ones, down to one below the
\* cap; the map never holds more than the cap, so at most one goes.
MakeRoom(out) ==
    IF Cardinality(Tracked) < MaxTracked THEN out = {}
    ELSE \E p \in Tracked : out = {p} /\ \A q \in Tracked : buckets[q].age <= buckets[p].age

\* Instant::now() of take, before it waits for the mutex.
ReadClock(w) ==
    /\ limitJob[w].pc = "clock"
    /\ limitJob' = [limitJob EXCEPT ![w].pc = "take"]
    /\ UNCHANGED <<buckets, sinceSweep, budget, displaced>>

\* The tokens of p for a request whose reading is lag ticks old; the time
\* since `last` is zero when `last` is the later of the two.
Smaller(x, y) == IF x < y THEN x ELSE y
Elapsed(p, lag) == IF buckets[p].age > lag THEN buckets[p].age - lag ELSE 0
Refilled(p, lag) == IF buckets[p] = Untracked THEN Capacity
                    ELSE Smaller(buckets[p].tokens + Elapsed(p, lag) * Refill, Capacity)

\* take, under the mutex: a new key makes room and starts full, and is
\* inserted before the decision.  `last` becomes the reading of this request,
\* also where that sets it back.  The time between the reading and the lock
\* counts again with the next refill, which the budget allows.
Take(w) ==
    LET p == limitJob[w].peer
        lag == limitJob[w].lag
        had == Refilled(p, lag)
        left == IF had >= 1 THEN had - 1 ELSE 0
    IN  /\ limitJob[w].pc = "take"
        /\ \E out \in SUBSET Tracked :
            /\ IF p \in Tracked THEN out = {} ELSE MakeRoom(out)
            /\ buckets' = [q \in Peer |-> CASE q = p -> [tokens |-> left, age |-> lag]
                                            [] q \in out -> Untracked
                                            [] OTHER -> buckets[q]]
            /\ displaced' = (displaced \ {p}) \cup out
            /\ budget' = [budget EXCEPT ![p] =
                            LET b == IF p \in displaced THEN Capacity ELSE budget[p]
                                paid == IF had >= 1 /\ b >= 1 THEN b - 1 ELSE b
                            IN  Smaller(paid + lag * Refill, Capacity)]
        /\ limitJob' = [limitJob EXCEPT ![w] = NoJob]
        /\ UNCHANGED sinceSweep

LimitsTick ==
    /\ \A w \in Worker : limitJob[w].pc = "take" => limitJob[w].lag < MaxLag
    /\ buckets' = [p \in Peer |-> IF p \in Tracked
                    THEN [buckets[p] EXCEPT !.age = Smaller(@ + 1, MaxAge)] ELSE Untracked]
    /\ budget' = [p \in Peer |-> Smaller(budget[p] + Refill, Capacity)]
    /\ limitJob' = [w \in Worker |-> IF limitJob[w].pc = "take"
                    THEN [limitJob[w] EXCEPT !.lag = @ + 1] ELSE limitJob[w]]
    /\ <<buckets', budget', limitJob'>> # <<buckets, budget, limitJob>>
    /\ UNCHANGED <<sinceSweep, displaced>>

LimitStep(w) == SweepDue(w) \/ ClaimSweep(w) \/ EvictIdle(w) \/ ReadClock(w) \/ Take(w)

LimitsNext ==
    \/ \E w \in Worker : (\E p \in Peer : Arrive(w, p)) \/ LimitStep(w)
    \/ LimitsTick

LimitsSpec == LimitsInit /\ [][LimitsNext]_limitVars

-----------------------------------------------------------------------------
(* MAX_TRACKED_PEERS is a hard bound on the map, at every moment and for   *)
(* every burst of addresses (limits.rs: "The hard bound is").              *)
TrackedBounded == Cardinality(Tracked) <= MaxTracked

(* "A dropped bucket therefore looks the same as a full one": sweeps, and  *)
(* two workers that both sweep, never give a peer tokens that its bucket   *)
(* would not have had.  A peer is owed the tokens of the time that passes  *)
(* and, with each of its requests, once more those of the time between the *)
(* clock reading and the lock of take; nothing else gives any.  Only a     *)
(* peer whose bucket went to make room starts again with a full one: that  *)
(* happens to a peer that is still sending, too, when others fill the map. *)
SweepGivesNothing == \A p \in Peer \ displaced : Refilled(p, 0) <= budget[p]

(* Evictions keep the map small and give nobody a token.                   *)
EvictionSound == TrackedBounded /\ SweepGivesNothing
=============================================================================
