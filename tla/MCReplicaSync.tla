---------------------------- MODULE MCReplicaSync ----------------------------
(* ReplicaSync for one user, two files (f1 is the user's own), one row and *)
(* two groups.                                                             *)
EXTENDS ReplicaSync, TLC

CONSTANTS f1, f2, r1, g1, g2, u, m1, m2, p1, p2

MCFile == {f1, f2}
MCMine == {f1}
MCRow == {r1}
MCGroup == {g1, g2}
MCMutator == {m1, m2}
MCMutator1 == {m1}
MCPoll == {p1, p2}

Nested == <<g1, g2>>
Member == <<u, g1>>
OnRow == {<<r1, f2>>}

MCEdges == {Member, Nested}

\* A row with two readable files, more than a replay takes at once; and
\* masters one step away from a grant by membership, by rule, by attach.
FullRow == [files |-> MCFile, rel |-> MCRow \X MCFile, rules |-> {<<g1, r1>>}, links |-> {Member}]
OneFile == [files |-> {f2}, rel |-> OnRow, rules |-> {<<g1, r1>>}, links |-> {Member}]
MCReadable == {FullRow, OneFile}
MCMasters == {
    FullRow,
    [files |-> {f2}, rel |-> OnRow, rules |-> {<<g2, r1>>}, links |-> {Nested}],
    [files |-> {f2}, rel |-> OnRow, rules |-> {}, links |-> {Member, Nested}],
    [files |-> {f2}, rel |-> {}, rules |-> {<<g1, r1>>}, links |-> {Member}]}

\* Safety only: mutators and polls are interchangeable.
MCSymmetry == Permutations(MCMutator) \cup Permutations(MCPoll)
=============================================================================
