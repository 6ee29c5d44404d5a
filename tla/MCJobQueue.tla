----------------------------- MODULE MCJobQueue -----------------------------
(* Two workers on two jobs in memory, one on two jobs in a durable store, *)
(* and two that share a durable store with one job.                       *)
EXTENDS JobQueue

CONSTANTS j1, j2, k1, w1, w2

MCJob == {j1, j2}
MCRank == [j \in MCJob |-> IF j = j1 THEN 1 ELSE 2]
MCSites == {
    [backend |-> "memory", workers |-> {w1, w2}, lease |-> 2,
     jobs |-> MCJob, unhandled |-> {}],
    [backend |-> "durable", workers |-> {w1}, lease |-> 1,
     jobs |-> MCJob, unhandled |-> {j2}],
    [backend |-> "durable", workers |-> {w1, w2}, lease |-> 1,
     jobs |-> {j1}, unhandled |-> {}]}
=============================================================================
