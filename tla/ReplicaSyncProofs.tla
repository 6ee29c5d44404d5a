-------------------------- MODULE ReplicaSyncProofs --------------------------
(***************************************************************************)
(* Proofs about ReplicaSync, for every master, feed and number of polls    *)
(* and mutations: the claim on a user's build slot has exactly one holder, *)
(* the marker of a replica never goes back, and a replica at the head has  *)
(* every file that its user may read.                                      *)
(***************************************************************************)
EXTENDS ReplicaSync, FiniteSetTheorems, SequenceTheorems, TLAPS

Places == {"idle", "claim", "replay", "apply", "mark"}

\* The types that the two theorems rest on.
SyncTypes ==
    /\ wal \in Seq(Ops)
    /\ todo \in [Mutator -> Ops \cup {None}]
    /\ stage \in [Mutator -> {"idle", "store", "announce", "row"}]
    /\ \A m \in Mutator : stage[m] # "idle" => todo[m] \in Ops
    /\ pc \in [Poll -> Places]
    /\ head \in [Poll -> Nat]
    /\ job \in {"none", "queued", "copying"}
    /\ applied \in Int /\ target \in Nat

\* Whoever is about to write the marker writes one that is not older.
MarkerReady ==
    /\ applied <= Len(wal)
    /\ \A p \in Poll : head[p] <= Len(wal)
    /\ \A p \in Poll : pc[p] \in {"apply", "mark"} => applied <= head[p]
    /\ job = "copying" => applied <= target /\ target <= Len(wal)

IInv == SyncTypes /\ ClaimHasHolder /\ MarkerReady

\* Announced entries are well formed and the feed grows by one.
LEMMA EntryAppended ==
    ASSUME NEW m \in Mutator, SyncTypes, Announce(m)
    PROVE  wal' \in Seq(Ops) /\ Len(wal') = Len(wal) + 1
<1>1. todo[m] \in Ops  BY DEF SyncTypes, Announce
<1> QED  BY <1>1, AppendProperties DEF SyncTypes, Announce

\* Every mutation begins by noting a well-formed entry.
LEMMA MutationBegins ==
    ASSUME NEW m \in Mutator, Mutate(m)
    PROVE  \E op \in Ops, where \in {"store", "announce"} : Began(m, op, where)
<1>1. ASSUME NEW f \in File, CreateFile(m, f) \/ DeleteFile(m, f)
      PROVE  \E op \in Ops, where \in {"store", "announce"} : Began(m, op, where)
  <2>1. /\ [kind |-> "create", file |-> f] \in Ops
        /\ [kind |-> "delete", file |-> f] \in Ops
    BY DEF Ops
  <2> QED  BY <1>1, <2>1 DEF CreateFile, DeleteFile
<1>2. ASSUME NEW r \in Row, NEW f \in File, AttachCheck(m, r, f) \/ Detach(m, r, f)
      PROVE  \E op \in Ops, where \in {"store", "announce"} : Began(m, op, where)
  <2>1. /\ [kind |-> "attach", row |-> r, file |-> f] \in Ops
        /\ [kind |-> "detach", row |-> r, file |-> f] \in Ops
    BY DEF Ops
  <2> QED  BY <1>2, <2>1 DEF AttachCheck, Detach, Detached
<1>3. ASSUME NEW s \in Subject, NEW r \in Row, AddRule(m, s, r) \/ RemoveRule(m, s, r)
      PROVE  \E op \in Ops, where \in {"store", "announce"} : Began(m, op, where)
  <2>1. /\ [kind |-> "rule_add", sub |-> s, row |-> r] \in Ops
        /\ [kind |-> "rule_remove", sub |-> s, row |-> r] \in Ops
    BY DEF Ops
  <2> QED  BY <1>3, <2>1 DEF AddRule, RemoveRule
<1>4. ASSUME NEW x \in Subject, NEW g \in Group, AssignGroup(m, x, g) \/ RemoveFromGroup(m, x, g)
      PROVE  \E op \in Ops, where \in {"store", "announce"} : Began(m, op, where)
  <2>1. /\ [kind |-> "group_add", user |-> x, group |-> g] \in Ops
        /\ [kind |-> "group_remove", user |-> x, group |-> g] \in Ops
    BY DEF Ops
  <2> QED  BY <1>4, <2>1 DEF AssignGroup, RemoveFromGroup
<1>5. ASSUME NEW g \in Group, DeleteGroup(m, g)
      PROVE  \E op \in Ops, where \in {"store", "announce"} : Began(m, op, where)
  <2>1. [kind |-> "group_delete", group |-> g] \in Ops
    BY DEF Ops
  <2> QED  BY <1>5, <2>1 DEF DeleteGroup
<1> QED  BY <1>1, <1>2, <1>3, <1>4, <1>5 DEF Mutate

\* A mutator leaves the polls and the pool alone, and the feed only grows.
LEMMA MutatorStep ==
    ASSUME NEW m \in Mutator, IInv, Mutate(m) \/ Finish(m)
    PROVE  IInv' /\ applied' = applied
<1>0. Len(wal) \in Nat  BY LenProperties DEF IInv, SyncTypes
<1> USE DEF IInv, SyncTypes, ClaimHasHolder, Replaying, MarkerReady, replica, polls, pool
<1>1. CASE Mutate(m)
  <2>1. PICK op \in Ops, where \in {"store", "announce"} : Began(m, op, where)
    BY <1>1, MutationBegins
  <2> QED  BY <2>1 DEF Began
<1>2. CASE AttachStore(m)
  BY <1>2 DEF AttachStore
<1>3. CASE Announce(m)
  <2>1. wal' \in Seq(Ops) /\ Len(wal') = Len(wal) + 1
    BY <1>3, EntryAppended
  <2>2. SyncTypes'
    BY <1>3, <2>1 DEF Announce
  <2>3. ClaimHasHolder' /\ applied' = applied
    BY <1>3 DEF Announce
  <2>4. MarkerReady'
    BY <1>0, <1>3, <2>1 DEF Announce
  <2> QED  BY <2>2, <2>3, <2>4
<1>4. CASE DeleteRow(m)
  BY <1>4 DEF DeleteRow
<1> QED  BY <1>1, <1>2, <1>3, <1>4 DEF Finish

\* What the claim says of one poll at a time.
HoldsClaim(p) == pc[p] \in {"replay", "apply", "mark"}

LEMMA ClaimPerPoll ==
    ClaimHasHolder <=> /\ claimed <=> ((\E p \in Poll : HoldsClaim(p)) \/ job # "none")
                       /\ \A p, q \in Poll : HoldsClaim(p) /\ HoldsClaim(q) => p = q
                       /\ \A p \in Poll : HoldsClaim(p) => job = "none"
BY Zenon DEF ClaimHasHolder, Replaying, HoldsClaim

LEMMA ClaimPerPollNext ==
    ClaimHasHolder' <=> /\ claimed' <=> ((\E p \in Poll : HoldsClaim(p)') \/ job' # "none")
                        /\ \A p, q \in Poll : HoldsClaim(p)' /\ HoldsClaim(q)' => p = q
                        /\ \A p \in Poll : HoldsClaim(p)' => job' = "none"
BY Zenon DEF ClaimHasHolder, Replaying, HoldsClaim

\* Moving one poll changes nothing for the others.
LEMMA PollMoves ==
    ASSUME SyncTypes, NEW p \in Poll, NEW place \in Places, pc' = [pc EXCEPT ![p] = place]
    PROVE  /\ pc' \in [Poll -> Places] /\ pc'[p] = place
           /\ \A q \in Poll : q # p => pc'[q] = pc[q]
           /\ \A q \in Poll : q # p => (HoldsClaim(q)' <=> HoldsClaim(q))
BY DEF SyncTypes, HoldsClaim

\* A holder that leaves frees the slot, or leaves it to a job.
LEMMA HolderLeaves ==
    ASSUME IInv, NEW p \in Poll, HoldsClaim(p), pc' = [pc EXCEPT ![p] = "idle"],
           \/ claimed' = FALSE /\ job' = job
           \/ claimed' = claimed /\ job' = "queued"
    PROVE  ClaimHasHolder'
<1>1. ~HoldsClaim(p)' /\ \A q \in Poll : q # p => (HoldsClaim(q)' <=> HoldsClaim(q))
  BY PollMoves DEF IInv, Places, HoldsClaim
<1>2. \A q \in Poll : ~HoldsClaim(q)'
  BY <1>1, ClaimPerPoll DEF IInv
<1>3. claimed /\ job = "none"
  BY ClaimPerPoll DEF IInv
<1> QED  BY <1>2, <1>3, ClaimPerPollNext

\* A holder that goes on keeps the slot.
LEMMA HolderStays ==
    ASSUME IInv, NEW p \in Poll, HoldsClaim(p), NEW place \in {"apply", "mark"},
           pc' = [pc EXCEPT ![p] = place], claimed' <=> claimed, job' = job
    PROVE  ClaimHasHolder'
<1>1. HoldsClaim(p)' /\ \A q \in Poll : q # p => (HoldsClaim(q)' <=> HoldsClaim(q))
  BY PollMoves DEF IInv, Places, HoldsClaim
<1> QED  BY <1>1, ClaimPerPoll, ClaimPerPollNext DEF IInv

\* Without the claim, a poll moves outside.
LEMMA OutsiderMoves ==
    ASSUME IInv, NEW p \in Poll, ~HoldsClaim(p), NEW place \in {"idle", "claim"},
           pc' = [pc EXCEPT ![p] = place], claimed' <=> claimed, job' = job
    PROVE  ClaimHasHolder'
<1>1. ~HoldsClaim(p)' /\ \A q \in Poll : q # p => (HoldsClaim(q)' <=> HoldsClaim(q))
  BY PollMoves DEF IInv, Places, HoldsClaim
<1> QED  BY <1>1, ClaimPerPoll, ClaimPerPollNext DEF IInv

\* A poll that returns without writing the marker.
LEMMA PollReturns ==
    ASSUME IInv, NEW p \in Poll, Return(p), job' = job \/ job' = "queued",
           UNCHANGED <<wal, todo, stage, applied, target>>
    PROVE  SyncTypes' /\ MarkerReady'
<1>0. Len(wal) \in Nat  BY LenProperties DEF IInv, SyncTypes
<1>1. SyncTypes'  BY DEF IInv, SyncTypes, Places, Return, Goto
<1>2. \A q \in Poll : head'[q] <= head[q] /\ head'[q] <= Len(wal)
  BY <1>0 DEF IInv, SyncTypes, MarkerReady, Return
<1>3. \A q \in Poll : pc'[q] \in {"apply", "mark"} => applied <= head'[q]
  BY DEF IInv, SyncTypes, MarkerReady, Return, Goto
<1> QED  BY <1>0, <1>1, <1>2, <1>3 DEF IInv, SyncTypes, MarkerReady

\* A holder that goes on with a head that is not behind the marker.
LEMMA PollGoesOn ==
    ASSUME IInv, NEW p \in Poll, NEW place \in {"replay", "apply", "mark"}, Goto(p, place),
           place # "replay" => applied <= head[p],
           UNCHANGED <<wal, todo, stage, applied, target, job, head>>
    PROVE  SyncTypes' /\ MarkerReady'
<1>0. Len(wal) \in Nat  BY LenProperties DEF IInv, SyncTypes
<1>1. SyncTypes'  BY DEF IInv, SyncTypes, Places, Goto
<1>2. \A q \in Poll : pc'[q] \in {"apply", "mark"} => applied <= head[q]
  BY DEF IInv, SyncTypes, MarkerReady, Goto
<1> QED  BY <1>0, <1>1, <1>2 DEF IInv, SyncTypes, MarkerReady

\* A poll takes the claim only when it is free, writes a marker only as its
\* holder, and gives the claim back or hands it to a job on every way out.
LEMMA PollStep ==
    ASSUME NEW p \in Poll, IInv, Advance(p) \/ DropPoll(p)
    PROVE  IInv' /\ applied' >= applied
<1>0. Len(wal) \in Nat /\ applied \in Int  BY LenProperties DEF IInv, SyncTypes
<1> USE DEF IInv, Places, Goto, Return, master, mutators, replica, pool
<1>1. CASE AdvanceRead(p)
  <2>1. SyncTypes'  BY <1>0, <1>1 DEF AdvanceRead, SyncTypes
  <2>2. ClaimHasHolder'  BY <1>1, OutsiderMoves DEF AdvanceRead, HoldsClaim
  <2>3. MarkerReady' /\ applied' = applied
    BY <1>0, <1>1 DEF AdvanceRead, SyncTypes, MarkerReady
  <2> QED  BY <2>1, <2>2, <2>3 DEF SyncTypes
<1>2. CASE AdvanceClaim(p)
  <2>1. CASE claimed
    <3>1. ClaimHasHolder'  BY <1>2, <2>1, OutsiderMoves DEF AdvanceClaim, HoldsClaim
    <3>2. SyncTypes' /\ MarkerReady'  BY <1>2, <2>1, PollReturns DEF AdvanceClaim
    <3> QED  BY <1>0, <1>2, <3>1, <3>2 DEF AdvanceClaim
  <2>2. CASE ~claimed
    <3>1. pc' = [pc EXCEPT ![p] = "replay"] /\ claimed' /\ job' = job
      BY <1>2, <2>2 DEF AdvanceClaim
    <3>2. HoldsClaim(p)' /\ \A q \in Poll : q # p => (HoldsClaim(q)' <=> HoldsClaim(q))
      BY <3>1, PollMoves DEF HoldsClaim
    <3>3. job = "none" /\ \A q \in Poll : ~HoldsClaim(q)
      BY <2>2, ClaimPerPoll
    <3>4. ClaimHasHolder'  BY <3>1, <3>2, <3>3, ClaimPerPollNext
    <3> QED  BY <1>2, <2>2, <3>4, PollGoesOn DEF AdvanceClaim, SyncTypes
  <2> QED  BY <2>1, <2>2
<1>3. CASE ReplayStart(p)
  <2>0. HoldsClaim(p) /\ UNCHANGED <<wal, todo, stage, applied>> /\ applied' = applied
    BY <1>3 DEF ReplayStart, HoldsClaim
  <2>1. CASE Dispatch(p)
    <3>1. ClaimHasHolder'  BY <2>0, <2>1, HolderLeaves DEF Dispatch
    <3>2. SyncTypes' /\ MarkerReady'  BY <2>0, <2>1, PollReturns DEF Dispatch
    <3> QED  BY <1>0, <2>0, <3>1, <3>2
  <2>2. CASE claimed' = FALSE /\ Return(p) /\ UNCHANGED pool
    <3>1. ClaimHasHolder'  BY <2>0, <2>2, HolderLeaves
    <3>2. SyncTypes' /\ MarkerReady'  BY <2>0, <2>2, PollReturns
    <3> QED  BY <1>0, <2>0, <3>1, <3>2
  <2>3. CASE ~NeedsFullRebuild(p) /\ Goto(p, "apply") /\ UNCHANGED <<claimed, head, pool>>
    <3>1. ClaimHasHolder'  BY <2>0, <2>3, HolderStays
    <3>2. applied <= head[p]  BY <2>3 DEF NeedsFullRebuild, SyncTypes
    <3>3. SyncTypes' /\ MarkerReady'  BY <2>0, <2>3, <3>2, PollGoesOn
    <3> QED  BY <1>0, <2>0, <3>1, <3>3
  <2> QED  BY <1>3, <2>1, <2>2, <2>3 DEF ReplayStart
<1>4. CASE ApplyOp(p)
  <2>0. /\ HoldsClaim(p) /\ pc[p] = "apply"
        /\ UNCHANGED <<applied, wal, todo, stage>> /\ applied' = applied
    BY <1>4 DEF ApplyOp, HoldsClaim
  <2>1. CASE Dispatch(p)
    <3>1. ClaimHasHolder'  BY <2>0, <2>1, HolderLeaves DEF Dispatch
    <3>2. SyncTypes' /\ MarkerReady'  BY <2>0, <2>1, PollReturns DEF Dispatch
    <3> QED  BY <1>0, <2>0, <3>1, <3>2
  <2>2. CASE NextEntry(p)
    <3>1. PICK place \in {"apply", "mark"} : Goto(p, place)
      BY <2>2 DEF NextEntry
    <3>2. ClaimHasHolder'  BY <2>0, <2>2, <3>1, HolderStays DEF NextEntry
    <3>3. applied <= head[p]  BY <2>0 DEF MarkerReady
    <3>4. SyncTypes' /\ MarkerReady'  BY <2>0, <2>2, <3>1, <3>3, PollGoesOn DEF NextEntry
    <3> QED  BY <1>0, <2>0, <3>2, <3>4
  <2> QED  BY <1>4, <2>1, <2>2 DEF ApplyOp
<1>5. CASE Mark(p)
  <2>1. SyncTypes'  BY <1>5 DEF Mark, SyncTypes
  <2>2. ClaimHasHolder'  BY <1>5, HolderLeaves DEF Mark, HoldsClaim
  <2>3. applied' >= applied /\ applied' <= Len(wal)
    BY <1>0, <1>5 DEF Mark, SyncTypes, MarkerReady
  <2>4. \A q \in Poll : pc'[q] \notin {"apply", "mark"}
    BY <1>5, ClaimPerPoll, PollMoves DEF Mark, HoldsClaim
  <2>5. job' = "none"
    BY <1>5, ClaimPerPoll DEF Mark, HoldsClaim
  <2>6. MarkerReady'
    BY <1>0, <1>5, <2>3, <2>4, <2>5 DEF Mark, SyncTypes, MarkerReady
  <2> QED  BY <2>1, <2>2, <2>3, <2>6
<1>6. CASE DropPoll(p)
  <2>1. SyncTypes'  BY <1>6 DEF DropPoll, SyncTypes
  <2>2. ClaimHasHolder'
    <3>1. CASE pc[p] = "claim"
      BY <1>6, <3>1, OutsiderMoves DEF DropPoll, HoldsClaim, SyncTypes
    <3>2. CASE pc[p] # "claim"
      <4>1. HoldsClaim(p)  BY <1>6, <3>2 DEF DropPoll, HoldsClaim, SyncTypes
      <4>2. claimed' = FALSE  BY <1>6, <3>2 DEF DropPoll
      <4> QED  BY <1>6, <4>1, <4>2, HolderLeaves DEF DropPoll
    <3> QED  BY <3>1, <3>2
  <2>3. MarkerReady' /\ applied' = applied
    BY <1>0, <1>6 DEF DropPoll, SyncTypes, MarkerReady
  <2> QED  BY <2>1, <2>2, <2>3 DEF SyncTypes
<1> QED  BY <1>1, <1>2, <1>3, <1>4, <1>5, <1>6 DEF Advance

\* A job owns the claim from the queue to its end, and covers at least what
\* the replica had when it read the head.
LEMMA PoolStep ==
    ASSUME IInv, Build \/ BuildFail
    PROVE  IInv' /\ applied' >= applied
<1>0. Len(wal) \in Nat  BY LenProperties DEF IInv, SyncTypes
<1> USE DEF IInv, SyncTypes, Places, MarkerReady, master, mutators, replica, polls, JobDone
<1>1. CASE BuildStart
  <2>1. ClaimHasHolder'
    BY <1>1, ClaimPerPoll, ClaimPerPollNext DEF BuildStart, HoldsClaim
  <2> QED  BY <1>0, <1>1, <2>1 DEF BuildStart
<1>2. CASE \E f \in File : CopyFile(f)
  <2>1. ClaimHasHolder'
    BY <1>2 DEF CopyFile, NextFile, ClaimHasHolder, Replaying
  <2> QED  BY <1>0, <1>2, <2>1 DEF CopyFile
<1>3. CASE BuildCommit \/ BuildFail
  <2>1. job # "none" /\ job' = "none" /\ claimed' = FALSE /\ pc' = pc /\ head' = head
    BY <1>3 DEF BuildCommit, BuildFail
  <2>2. \A q \in Poll : ~HoldsClaim(q)
    BY <2>1, ClaimPerPoll
  <2>3. ClaimHasHolder'
    BY <2>1, <2>2, ClaimPerPollNext DEF HoldsClaim
  <2>4. UNCHANGED <<wal, todo, stage>> /\ target' = 0
    BY <1>3 DEF BuildCommit, BuildFail
  <2>5. applied' >= applied /\ applied' <= Len(wal) /\ applied' \in Int
    BY <1>0, <1>3 DEF BuildCommit, BuildFail
  <2> QED  BY <1>0, <2>1, <2>2, <2>3, <2>4, <2>5 DEF HoldsClaim
<1> QED  BY <1>1, <1>2, <1>3 DEF Build

\* Nothing is claimed and nothing is applied at first.
LEMMA SyncInit == Init => IInv
<1> SUFFICES ASSUME Init PROVE IInv  OBVIOUS
<1>1. wal \in Seq(Ops) /\ Len(wal) = 0
  BY EmptySeq DEF Init
<1>2. SyncTypes  BY <1>1 DEF Init, SyncTypes, Places
<1>3. ClaimHasHolder  BY ClaimPerPoll DEF Init, HoldsClaim
<1>4. MarkerReady  BY <1>1 DEF Init, MarkerReady
<1> QED  BY <1>2, <1>3, <1>4 DEF IInv

\* Every step keeps the invariant and the marker.
LEMMA SyncStep ==
    ASSUME IInv, [Next]_vars
    PROVE  IInv' /\ applied' >= applied
<1>1. CASE UNCHANGED vars
  BY <1>1 DEF vars, master, mutators, replica, polls, pool, IInv, SyncTypes,
              ClaimHasHolder, Replaying, MarkerReady
<1>2. CASE Next
  <2>0. applied \in Int  BY DEF IInv, SyncTypes
  <2> QED  BY <1>2, <2>0, MutatorStep, PollStep, PoolStep DEF Next
<1> QED  BY <1>1, <1>2

\* Spec keeps the slot of a user in the build queue exact: it is taken if and
\* only if one replay or one job is under way (BuildQueue::claim and the
\* Drop of BuildClaim), whatever is dropped or fails.
THEOREM SyncClaimExact == Spec => []ClaimHasHolder
<1>1. IInv /\ [Next]_vars => IInv'  BY SyncStep
<1>2. IInv => ClaimHasHolder  BY DEF IInv
<1> QED  BY <1>1, <1>2, SyncInit, PTL DEF Spec

\* Spec never moves sync:applied back (replay and build_full).
THEOREM SyncMarkerMonotone == Spec => MarkerMonotone
<1>1. IInv /\ [Next]_vars => IInv'  BY SyncStep
<1>2. IInv /\ [Next]_vars => [applied' >= applied]_vars  BY SyncStep
<1> QED  BY <1>1, <1>2, SyncInit, PTL DEF Spec, MarkerMonotone

-----------------------------------------------------------------------------
(* The types of the whole state, with the place of every replay in the feed *)

\* Mutations whose entry is still to come.
Unannounced == {m \in Mutator : stage[m] \in {"store", "announce"}}

MasterTypes ==
    /\ files \subseteq used /\ used \subseteq File
    /\ rel \subseteq Row \X File
    /\ rules \subseteq Subject \X Row
    /\ links \subseteq Subject \X Group
    /\ \A m \in Mutator : stage[m] = "store" => todo[m].kind = "attach"
    /\ \A m \in Mutator : stage[m] = "row" => todo[m].kind = "delete"
    /\ Len(wal) + Cardinality(Unannounced) <= MaxOps

ReplicaTypes ==
    /\ rfiles \subseteq File /\ rrel \subseteq Row \X File
    /\ copy \in [files : SUBSET File, rel : SUBSET (Row \X File)]
    /\ left \subseteq File
    /\ claimed \in BOOLEAN /\ skewed \in BOOLEAN
    /\ drops \in 0..MaxDrops

\* A replay stands behind the marker and not past the head it read.
Cursors ==
    /\ applied >= -1 /\ target <= Len(wal)
    /\ pos \in [Poll -> Nat \ {0}]
    /\ \A p \in Poll : pos[p] <= head[p] + 1
    /\ \A p \in Poll : pc[p] = "apply" => applied < pos[p] /\ pos[p] <= head[p]
    /\ \A p \in Poll : pc[p] = "mark" => applied < pos[p] /\ pos[p] = head[p] + 1

\* No relation without its file, in the replica and in a copy of a rebuild.
RowsTogether ==
    /\ RelationsHaveFiles
    /\ \A x \in copy.rel : x[2] \in copy.files

DetailInv == IInv /\ MasterTypes /\ ReplicaTypes /\ Cursors /\ RowsTogether

LEMMA OpFields ==
    ASSUME NEW op \in Ops
    PROVE  /\ op.kind \in {"create", "delete", "attach", "detach"} => op.file \in File
           /\ op.kind \in {"attach", "detach"} => op.row \in Row
           /\ op.kind \in {"rule_add", "rule_remove"} => op.sub \in Subject /\ op.row \in Row
           /\ op.kind \in {"group_add", "group_remove"} => op.user \in Subject /\ op.group \in Group
           /\ op.kind = "group_delete" => op.group \in Group
BY DEF Ops

LEMMA UnannouncedCount == IsFiniteSet(Unannounced) /\ Cardinality(Unannounced) \in Nat
BY SyncAssumption, FS_Subset, FS_CardinalityType DEF Unannounced

\* The entry that a replay is about to apply is in the feed.
LEMMA EntryInFeed ==
    ASSUME DetailInv, NEW p \in Poll, pc[p] = "apply"
    PROVE  pos[p] \in 1..Len(wal) /\ wal[pos[p]] \in Ops
<1>1. Len(wal) \in Nat /\ wal \in Seq(Ops)  BY LenProperties DEF DetailInv, IInv, SyncTypes
<1>2. pos[p] \in 1..Len(wal)
  BY <1>1 DEF DetailInv, IInv, SyncTypes, MarkerReady, Cursors
<1> QED  BY <1>1, <1>2, ElementOfSeq

\* A mutation begins within the bound on the feed.
LEMMA BeginBounded ==
    ASSUME DetailInv, NEW m \in Mutator, NEW op \in Ops, NEW where \in {"store", "announce"},
           Began(m, op, where)
    PROVE  Len(wal') + Cardinality(Unannounced') <= MaxOps
<1> DEFINE Busy == {n \in Mutator : stage[n] # "idle"}
<1>1. IsFiniteSet(Busy) /\ Cardinality(Busy) \in Nat
  BY SyncAssumption, FS_Subset, FS_CardinalityType
<1>2. Unannounced \subseteq Busy /\ m \notin Unannounced
  BY DEF Unannounced, Began
<1>3. Cardinality(Unannounced) <= Cardinality(Busy)
  BY <1>1, <1>2, FS_Subset
<1>4. Unannounced' = Unannounced \cup {m}
  BY DEF Unannounced, Began, DetailInv, IInv, SyncTypes
<1>5. Cardinality(Unannounced') = Cardinality(Unannounced) + 1
  BY <1>2, <1>4, UnannouncedCount, FS_AddElement
<1>6. Len(wal) + Cardinality(Busy) < MaxOps /\ wal' = wal
  BY DEF Began
<1>7. Len(wal) \in Nat /\ MaxOps \in Nat
  BY LenProperties, SyncAssumption DEF DetailInv, IInv, SyncTypes
<1> QED  BY <1>1, <1>3, <1>5, <1>6, <1>7, UnannouncedCount

\* Every mutation leaves a well-typed master; only an attach has its store
\* step left.
LEMMA MutationTyped ==
    ASSUME DetailInv, NEW m \in Mutator, Mutate(m)
    PROVE  MasterTypes' /\ UNCHANGED <<wal, replica, claimed, polls, pool, skewed, drops>>
<1>0. MasterTypes /\ stage \in [Mutator -> {"idle", "store", "announce", "row"}]
      /\ todo \in [Mutator -> Ops \cup {None}]
  BY DEF DetailInv, IInv, SyncTypes
<1>1. PICK op \in Ops, where \in {"store", "announce"} : Began(m, op, where)
  BY MutationBegins
<1>2. Len(wal') + Cardinality(Unannounced') <= MaxOps
  BY <1>1, BeginBounded
<1>3. \A n \in Mutator : stage'[n] = "store" => todo'[n].kind = "attach"
  <2>1. stage'[m] = "store" => todo'[m].kind = "attach"
    <3>1. ASSUME NEW f \in File, CreateFile(m, f) \/ DeleteFile(m, f)
          PROVE  stage'[m] # "store"
      BY <1>0, <3>1 DEF CreateFile, DeleteFile, Began
    <3>2. ASSUME NEW r \in Row, NEW f \in File, AttachCheck(m, r, f)
          PROVE  todo'[m].kind = "attach"
      BY <1>0, <3>2 DEF AttachCheck, Began
    <3>3. ASSUME NEW r \in Row, NEW f \in File, Detach(m, r, f)
          PROVE  stage'[m] # "store"
      BY <1>0, <3>3 DEF Detach, Began
    <3>4. ASSUME NEW s \in Subject, NEW r \in Row, AddRule(m, s, r) \/ RemoveRule(m, s, r)
          PROVE  stage'[m] # "store"
      BY <1>0, <3>4 DEF AddRule, RemoveRule, Began
    <3>5. ASSUME NEW x \in Subject, NEW g \in Group,
                 AssignGroup(m, x, g) \/ RemoveFromGroup(m, x, g)
          PROVE  stage'[m] # "store"
      BY <1>0, <3>5 DEF AssignGroup, RemoveFromGroup, Began
    <3>6. ASSUME NEW g \in Group, DeleteGroup(m, g)
          PROVE  stage'[m] # "store"
      BY <1>0, <3>6 DEF DeleteGroup, Began
    <3> QED  BY <3>1, <3>2, <3>3, <3>4, <3>5, <3>6 DEF Mutate
  <2>2. \A n \in Mutator : n # m => stage'[n] = stage[n] /\ todo'[n] = todo[n]
    BY <1>0, <1>1 DEF Began
  <2> QED  BY <1>0, <2>1, <2>2 DEF MasterTypes
<1>4. \A n \in Mutator : stage'[n] = "row" => todo'[n].kind = "delete"
  BY <1>0, <1>1 DEF Began, MasterTypes
<1>5. /\ files' \subseteq used' /\ used' \subseteq File
      /\ rel' \subseteq Row \X File
      /\ rules' \subseteq Subject \X Row
      /\ links' \subseteq Subject \X Group
  <2> DEFINE Typed == /\ files' \subseteq used' /\ used' \subseteq File
                      /\ rel' \subseteq Row \X File
                      /\ rules' \subseteq Subject \X Row
                      /\ links' \subseteq Subject \X Group
  <2> USE DEF MasterTypes
  <2>1. ASSUME NEW f \in File, CreateFile(m, f) \/ DeleteFile(m, f)  PROVE Typed
    BY <1>0, <2>1 DEF CreateFile, DeleteFile, master
  <2>2. ASSUME NEW r \in Row, NEW f \in File, AttachCheck(m, r, f) \/ Detach(m, r, f)
        PROVE  Typed
    BY <1>0, <2>2 DEF AttachCheck, Detach, Detached, master
  <2>3. ASSUME NEW s \in Subject, NEW r \in Row, AddRule(m, s, r) \/ RemoveRule(m, s, r)
        PROVE  Typed
    BY <1>0, <2>3 DEF AddRule, RemoveRule
  <2>4. ASSUME NEW x \in Subject, NEW g \in Group, AssignGroup(m, x, g) \/ RemoveFromGroup(m, x, g)
        PROVE  Typed
    BY <1>0, <2>4 DEF AssignGroup, RemoveFromGroup
  <2>5. ASSUME NEW g \in Group, DeleteGroup(m, g)  PROVE Typed
    BY <1>0, <2>5 DEF DeleteGroup
  <2> QED  BY <2>1, <2>2, <2>3, <2>4, <2>5 DEF Mutate
<1> QED  BY <1>1, <1>2, <1>3, <1>4, <1>5 DEF MasterTypes, Began

\* So does the rest of a mutation.
LEMMA FinishTyped ==
    ASSUME DetailInv, NEW m \in Mutator, Finish(m)
    PROVE  MasterTypes' /\ UNCHANGED <<replica, claimed, polls, pool, skewed, drops>>
<1>0. /\ MasterTypes /\ stage \in [Mutator -> {"idle", "store", "announce", "row"}]
      /\ todo \in [Mutator -> Ops \cup {None}]
      /\ Len(wal) \in Nat /\ MaxOps \in Nat
  BY LenProperties, SyncAssumption DEF DetailInv, IInv, SyncTypes
<1>1. CASE AttachStore(m)
  <2>1. todo[m] \in Ops /\ todo[m].kind = "attach"
    BY <1>1 DEF AttachStore, DetailInv, IInv, SyncTypes, MasterTypes
  <2>2. rel' \subseteq Row \X File
    BY <1>0, <1>1, <2>1, OpFields DEF AttachStore, MasterTypes
  <2>3. Unannounced' = Unannounced
    BY <1>0, <1>1 DEF AttachStore, Unannounced
  <2>4. \A n \in Mutator : n # m => stage'[n] = stage[n] /\ todo'[n] = todo[n]
    BY <1>0, <1>1 DEF AttachStore
  <2> QED  BY <1>0, <1>1, <2>2, <2>3, <2>4 DEF AttachStore, MasterTypes
<1>2. CASE Announce(m)
  <2>1. Unannounced' = Unannounced \ {m} /\ m \in Unannounced
    BY <1>0, <1>2 DEF Announce, Unannounced
  <2>2. Cardinality(Unannounced') = Cardinality(Unannounced) - 1
    BY <2>1, UnannouncedCount, FS_RemoveElement
  <2>3. Len(wal') = Len(wal) + 1
    BY <1>2, EntryAppended DEF DetailInv, IInv
  <2>4. Len(wal') + Cardinality(Unannounced') <= MaxOps
    BY <1>0, <2>2, <2>3, UnannouncedCount DEF MasterTypes
  <2>5. \A n \in Mutator : n # m => stage'[n] = stage[n] /\ todo'[n] = todo[n]
    BY <1>0, <1>2 DEF Announce
  <2>6. stage'[m] # "store" /\ (stage'[m] = "row" => todo'[m].kind = "delete")
    BY <1>0, <1>2 DEF Announce
  <2> QED  BY <1>0, <1>2, <2>4, <2>5, <2>6 DEF Announce, MasterTypes, master
<1>3. CASE DeleteRow(m)
  <2>1. Unannounced' = Unannounced
    BY <1>0, <1>3 DEF DeleteRow, Unannounced
  <2>2. \A n \in Mutator : n # m => stage'[n] = stage[n] /\ todo'[n] = todo[n]
    BY <1>0, <1>3 DEF DeleteRow
  <2> QED  BY <1>0, <1>3, <2>1, <2>2 DEF DeleteRow, MasterTypes
<1> QED  BY <1>1, <1>2, <1>3 DEF Finish

\* A mutator moves neither a replay nor a rebuild.
LEMMA MutatorDetail ==
    ASSUME DetailInv, NEW m \in Mutator, Mutate(m) \/ Finish(m)
    PROVE  DetailInv'
<1>1. IInv'  BY MutatorStep DEF DetailInv
<1>2. MasterTypes' /\ UNCHANGED <<replica, claimed, polls, pool, skewed, drops>>
  BY MutationTyped, FinishTyped
<1>3. Len(wal) \in Nat /\ Len(wal') \in Nat /\ Len(wal') >= Len(wal)
  <2>1. Len(wal) \in Nat  BY LenProperties DEF DetailInv, IInv, SyncTypes
  <2>2. wal' = wal \/ Len(wal') = Len(wal) + 1
    BY MutationTyped, EntryAppended DEF Finish, AttachStore, DeleteRow, DetailInv, IInv
  <2> QED  BY <2>1, <2>2
<1>4. Cursors'
  BY <1>2, <1>3 DEF DetailInv, IInv, SyncTypes, Cursors, replica, polls, pool
<1>5. ReplicaTypes' /\ RowsTogether'
  BY <1>2 DEF DetailInv, ReplicaTypes, RowsTogether, RelationsHaveFiles, replica, pool
<1> QED  BY <1>1, <1>2, <1>4, <1>5 DEF DetailInv

\* What a poll leaves alone keeps its type.
LEMMA MasterUntouched ==
    ASSUME MasterTypes, UNCHANGED <<master, wal, mutators>>
    PROVE  MasterTypes'
BY DEF MasterTypes, Unannounced, master, mutators

\* A poll that returns leaves the other cursors where they are.
LEMMA CursorReturns ==
    ASSUME DetailInv, NEW p \in Poll, Return(p), UNCHANGED <<wal, applied, target>>
    PROVE  Cursors'
<1>1. \A q \in Poll : q # p => pc'[q] = pc[q] /\ head'[q] = head[q] /\ pos'[q] = pos[q]
  BY DEF Return, Goto, DetailInv, IInv, SyncTypes, Cursors
<1>2. pc'[p] = "idle" /\ head'[p] = 0 /\ pos'[p] = 1 /\ pos' \in [Poll -> Nat \ {0}]
  BY DEF Return, Goto, DetailInv, IInv, SyncTypes, Cursors
<1> QED  BY <1>1, <1>2 DEF DetailInv, Cursors

\* A resync writes rows of the master only, and a relation with its file.
LEMMA ResyncTyped ==
    ASSUME DetailInv, NEW rows, Resync(rows), UNCHANGED skewed
    PROVE  /\ rfiles' \subseteq File /\ rrel' \subseteq Row \X File
           /\ RelationsHaveFiles'
<1> DEFINE onRows == FilesForRows(rows)
           touched == {x[2] : x \in onRows}
<1>1. onRows \subseteq Row \X File /\ touched \subseteq File
  BY DEF FilesForRows, DetailInv, MasterTypes
<1>2. /\ rfiles' = {f \in rfiles \cup touched : f \in touched => CanRead(f)}
      /\ rrel' = {x \in rrel \cup onRows :
                        /\ x[2] \in touched => CanRead(x[2])
                        /\ x \in onRows => AuthorizeRow(x[1])}
  BY DEF Resync
<1>3. rfiles' \subseteq File /\ rrel' \subseteq Row \X File
  BY <1>1, <1>2 DEF DetailInv, ReplicaTypes
<1>4. ASSUME ~skewed, NEW x \in rrel'
      PROVE  x[2] \in rfiles'
  <2>1. x \in rrel => x[2] \in rfiles
    BY <1>4 DEF DetailInv, RowsTogether, RelationsHaveFiles
  <2>2. x \in onRows => x[2] \in touched
    OBVIOUS
  <2>3. x \in rrel \cup onRows /\ (x[2] \in touched => CanRead(x[2]))
    BY <1>2, <1>4
  <2> QED  BY <1>2, <2>1, <2>2, <2>3
<1> QED  BY <1>3, <1>4 DEF RelationsHaveFiles

\* The same of the entries about files.
LEMMA ApplyFileTyped ==
    ASSUME DetailInv, NEW op \in Ops, ApplyFile(op), UNCHANGED skewed
    PROVE  /\ rfiles' \subseteq File /\ rrel' \subseteq Row \X File
           /\ RelationsHaveFiles'
<1>1. op.kind \in FileKinds /\ op.file \in File
  BY OpFields DEF ApplyFile, FileKinds
<1>2. op.kind \in {"attach", "detach"} => op.row \in Row
  BY OpFields
<1> USE DEF DetailInv, ReplicaTypes, RowsTogether, RelationsHaveFiles
<1>3. CASE op.kind = "create"
  BY <1>1, <1>3 DEF ApplyFile
<1>4. CASE op.kind = "delete"
  BY <1>1, <1>4 DEF ApplyFile
<1>5. CASE op.kind = "attach"
  <2>1. /\ rfiles' = rfiles \cup {f \in {op.file} : CanRead(f)}
        /\ rrel' = rrel \cup {x \in {<<op.row, op.file>>} : CanRead(op.file) /\ AuthorizeRow(op.row)}
    BY <1>5 DEF ApplyFile
  <2>2. rfiles' \subseteq File /\ rrel' \subseteq Row \X File
    BY <1>1, <1>2, <1>5, <2>1
  <2>3. ASSUME ~skewed, NEW x \in rrel'  PROVE x[2] \in rfiles'
    BY <2>1, <2>3
  <2> QED  BY <2>2, <2>3
<1>6. CASE op.kind = "detach"
  BY <1>1, <1>6 DEF ApplyFile
<1> QED  BY <1>1, <1>3, <1>4, <1>5, <1>6 DEF FileKinds

\* Every step of a poll keeps the types, and its cursor in the feed.
LEMMA PollDetail ==
    ASSUME DetailInv, NEW p \in Poll, Advance(p) \/ DropPoll(p)
    PROVE  DetailInv'
<1>0. Len(wal) \in Nat /\ IInv /\ MasterTypes /\ ReplicaTypes /\ Cursors /\ RowsTogether
  BY LenProperties DEF DetailInv, IInv, SyncTypes
<1>t. head \in [Poll -> Nat] /\ applied \in Int /\ target \in Nat /\ pc \in [Poll -> Places]
  BY <1>0 DEF IInv, SyncTypes
<1>1. IInv'  BY PollStep DEF DetailInv
<1>2. UNCHANGED <<master, wal, mutators, skewed>>
  BY DEF Advance, AdvanceRead, AdvanceClaim, ReplayStart, ApplyOp, Mark, DropPoll
<1>3. MasterTypes'  BY <1>0, <1>2, MasterUntouched
<1>4. CASE AdvanceRead(p)
  <2>1. \A q \in Poll : q # p => pc'[q] = pc[q] /\ head'[q] = head[q]
    BY <1>4, <1>t DEF AdvanceRead, Goto
  <2>2. pc'[p] = "claim" /\ head'[p] = Len(wal) /\ head[p] <= Len(wal)
    BY <1>0, <1>4, <1>t DEF AdvanceRead, Goto, IInv, MarkerReady
  <2>3. Cursors'
    BY <1>0, <1>4, <1>t, <2>1, <2>2 DEF AdvanceRead, Cursors, replica, pool
  <2>4. ReplicaTypes' /\ RowsTogether'
    BY <1>0, <1>4 DEF AdvanceRead, ReplicaTypes, RowsTogether, RelationsHaveFiles, replica, pool
  <2> QED  BY <1>1, <1>3, <2>3, <2>4 DEF DetailInv
<1>5. CASE AdvanceClaim(p)
  <2>1. ReplicaTypes' /\ RowsTogether'
    BY <1>0, <1>5 DEF AdvanceClaim, ReplicaTypes, RowsTogether, RelationsHaveFiles, replica, pool
  <2>2. CASE claimed
    BY <1>1, <1>3, <1>5, <2>1, <2>2, CursorReturns DEF AdvanceClaim, DetailInv, replica, pool
  <2>3. CASE ~claimed
    <3>1. Cursors'
      BY <1>0, <1>5, <1>t, <2>3 DEF AdvanceClaim, Goto, Cursors, replica, pool
    <3> QED  BY <1>1, <1>3, <2>1, <3>1 DEF DetailInv
  <2> QED  BY <2>2, <2>3
<1>6. CASE ReplayStart(p)
  <2>1. ReplicaTypes' /\ RowsTogether'
    BY <1>0, <1>6 DEF ReplayStart, Dispatch, ReplicaTypes, RowsTogether, RelationsHaveFiles,
                      replica, pool
  <2>2. CASE Return(p)
    <3>1. UNCHANGED <<wal, applied, target>>
      BY <1>6, <2>2, <1>t DEF ReplayStart, Dispatch, replica, pool, Return, Goto
    <3> QED  BY <1>1, <1>3, <2>1, <2>2, <3>1, CursorReturns DEF DetailInv
  <2>3. CASE /\ ~NeedsFullRebuild(p) /\ ~CaughtUp(head[p])
             /\ pos' = [pos EXCEPT ![p] = applied + 1]
             /\ Goto(p, "apply")
             /\ UNCHANGED <<head, pool>>
    <3>1. applied >= 0 /\ applied < head[p]
      BY <1>0, <1>t, <2>3 DEF NeedsFullRebuild, CaughtUp, Cursors
    <3>2. \A q \in Poll : q # p => pc'[q] = pc[q] /\ pos'[q] = pos[q]
      BY <1>0, <1>t, <2>3 DEF Goto, Cursors
    <3>3. pc'[p] = "apply" /\ pos'[p] = applied + 1 /\ pos' \in [Poll -> Nat \ {0}]
      BY <1>0, <1>t, <2>3, <3>1 DEF Goto, Cursors
    <3>4. Cursors'
      BY <1>0, <1>6, <1>t, <2>3, <3>1, <3>2, <3>3 DEF ReplayStart, Cursors, replica, pool
    <3> QED  BY <1>1, <1>3, <2>1, <3>4 DEF DetailInv
  <2> QED  BY <1>6, <2>2, <2>3 DEF ReplayStart, Dispatch
<1>7. CASE ApplyOp(p)
  <2> DEFINE op == wal[pos[p]]
  <2>0. pc[p] = "apply" /\ op \in Ops
    BY <1>7, EntryInFeed DEF ApplyOp
  <2>1. ApplyFile(op) \/ \E rows : Resync(rows)
    BY <1>7 DEF ApplyOp
  <2>2. rfiles' \subseteq File /\ rrel' \subseteq Row \X File /\ RelationsHaveFiles'
    BY <1>2, <2>0, <2>1, ApplyFileTyped, ResyncTyped
  <2>3. UNCHANGED <<copy, left, claimed, skewed, drops, target, applied, wal>>
    BY <1>7 DEF ApplyOp, NextEntry, Dispatch, pool
  <2>4. ReplicaTypes' /\ RowsTogether'
    BY <1>0, <2>2, <2>3 DEF ReplicaTypes, RowsTogether
  <2>5. CASE Dispatch(p)
    BY <1>1, <1>3, <2>3, <2>4, <2>5, CursorReturns DEF Dispatch, DetailInv
  <2>6. CASE NextEntry(p)
    <3>1. \A q \in Poll : q # p => pc'[q] = pc[q] /\ pos'[q] = pos[q]
      BY <1>0, <1>t, <2>6 DEF NextEntry, Goto, Cursors
    <3>2. /\ pc'[p] = IF pos[p] = head[p] THEN "mark" ELSE "apply"
          /\ pos'[p] = pos[p] + 1 /\ pos' \in [Poll -> Nat \ {0}] /\ head' = head
      BY <1>0, <1>t, <2>6 DEF NextEntry, Goto, Cursors
    <3>3. pos[p] \in Nat /\ applied < pos[p] /\ pos[p] <= head[p]
      BY <1>0, <2>0 DEF Cursors
    <3>4. /\ head[p] \in Nat /\ head'[p] = head[p]
          /\ applied' = applied /\ target' = target /\ wal' = wal
      BY <1>t, <2>3, <3>2
    <3>5. \A q \in Poll : q # p => head'[q] = head[q]
      BY <3>2
    <3>6. applied' >= -1 /\ target' <= Len(wal')
      BY <1>0, <3>4 DEF Cursors
    <3>7. /\ pos'[p] <= head'[p] + 1
          /\ pc'[p] = "apply" => applied' < pos'[p] /\ pos'[p] <= head'[p]
          /\ pc'[p] = "mark" => applied' < pos'[p] /\ pos'[p] = head'[p] + 1
      BY <1>t, <3>2, <3>3, <3>4
    <3>8. Cursors'
      BY <1>0, <3>1, <3>2, <3>4, <3>5, <3>6, <3>7 DEF Cursors
    <3> QED  BY <1>1, <1>3, <2>4, <3>8 DEF DetailInv
  <2> QED  BY <1>7, <2>5, <2>6 DEF ApplyOp
<1>8. CASE Mark(p)
  <2>1. ReplicaTypes' /\ RowsTogether'
    BY <1>0, <1>8 DEF Mark, ReplicaTypes, RowsTogether, RelationsHaveFiles, pool
  <2>2. \A q \in Poll : pc'[q] \notin {"apply", "mark"}
    BY <1>0, <1>8, ClaimPerPoll, PollMoves DEF Mark, Return, Goto, HoldsClaim, IInv, Places
  <2>3. \A q \in Poll : q # p => head'[q] = head[q] /\ pos'[q] = pos[q]
    BY <1>0, <1>t, <1>8 DEF Mark, Return, Cursors
  <2>4. head'[p] = 0 /\ pos'[p] = 1 /\ pos' \in [Poll -> Nat \ {0}]
    BY <1>0, <1>t, <1>8 DEF Mark, Return, Cursors
  <2>5. applied' >= -1 /\ target' = target /\ wal' = wal
    BY <1>t, <1>8 DEF Mark, pool
  <2>6. \A q \in Poll : pos'[q] <= head'[q] + 1
    BY <1>0, <2>3, <2>4 DEF Cursors
  <2>7. Cursors'
    BY <1>0, <2>2, <2>4, <2>5, <2>6 DEF Cursors
  <2> QED  BY <1>1, <1>3, <2>1, <2>7 DEF DetailInv
<1>9. CASE DropPoll(p)
  <2>1. ReplicaTypes' /\ RowsTogether'
    BY <1>0, <1>9, SyncAssumption DEF DropPoll, ReplicaTypes, RowsTogether, RelationsHaveFiles,
                                      replica, pool
  <2> QED  BY <1>1, <1>3, <1>9, <2>1, CursorReturns DEF DropPoll, DetailInv, replica, pool
<1> QED  BY <1>4, <1>5, <1>6, <1>7, <1>8, <1>9 DEF Advance

\* Every step of a rebuild keeps the types; its copy and the rows it commits
\* have a file with every relation.
LEMMA PoolDetail ==
    ASSUME DetailInv, Build \/ BuildFail
    PROVE  DetailInv'
<1>0. Len(wal) \in Nat /\ IInv /\ MasterTypes /\ ReplicaTypes /\ Cursors /\ RowsTogether
  BY LenProperties DEF DetailInv, IInv, SyncTypes
<1>t. head \in [Poll -> Nat] /\ applied \in Int /\ target \in Nat /\ pc \in [Poll -> Places]
  BY <1>0 DEF IInv, SyncTypes
<1>1. IInv'  BY PoolStep DEF DetailInv
<1>2. UNCHANGED <<master, wal, mutators, polls>>
  BY DEF Build, BuildStart, CopyFile, BuildCommit, BuildFail
<1>3. MasterTypes'  BY <1>0, <1>2, MasterUntouched
<1>4. Nothing \in [files : SUBSET File, rel : SUBSET (Row \X File)]
  BY DEF Nothing
<1>5. CASE BuildStart
  <2>1. ReplicaTypes' /\ RowsTogether'
    BY <1>0, <1>4, <1>5 DEF BuildStart, ReplicaTypes, RowsTogether, RelationsHaveFiles, replica,
                            Nothing
  <2>2. Cursors'
    BY <1>0, <1>2, <1>5 DEF BuildStart, Cursors, replica, polls
  <2> QED  BY <1>1, <1>3, <2>1, <2>2 DEF DetailInv
<1>6. ASSUME NEW f \in File, CopyFile(f)
      PROVE  DetailInv'
  <2>1. VisibleRows(f) \subseteq Row
    BY DEF VisibleRows, RowsForFile
  <2>2. copy' \in [files : SUBSET File, rel : SUBSET (Row \X File)]
    BY <1>0, <1>6, <2>1 DEF CopyFile, ReplicaTypes
  <2>3. \A x \in copy'.rel : x[2] \in copy'.files
    BY <1>0, <1>6 DEF CopyFile, ReplicaTypes, RowsTogether
  <2>4. left' \subseteq File /\ UNCHANGED <<replica, claimed, target, skewed, drops>>
    BY <1>0, <1>6 DEF CopyFile, ReplicaTypes
  <2>5. ReplicaTypes' /\ RowsTogether'
    BY <1>0, <2>2, <2>3, <2>4 DEF ReplicaTypes, RowsTogether, RelationsHaveFiles, replica
  <2>6. Cursors'
    BY <1>0, <1>2, <2>4 DEF Cursors, replica, polls
  <2> QED  BY <1>1, <1>3, <2>5, <2>6 DEF DetailInv
<1>7. CASE BuildCommit
  <2>1. \/ rfiles' = copy.files /\ rrel' = copy.rel /\ UNCHANGED skewed
        \/ rfiles' = {} /\ rrel' = {} /\ skewed' = TRUE
    BY <1>7 DEF BuildCommit
  <2>2. ReplicaTypes' /\ RowsTogether'
    BY <1>0, <1>4, <1>7, <2>1 DEF BuildCommit, JobDone, Nothing, ReplicaTypes, RowsTogether,
                                  RelationsHaveFiles
  <2>3. \A q \in Poll : pc[q] \notin {"apply", "mark"}
    BY <1>0, <1>7, ClaimPerPoll DEF BuildCommit, IInv, HoldsClaim
  <2>4. Cursors'
    BY <1>0, <1>2, <1>7, <1>t, <2>3 DEF BuildCommit, JobDone, Cursors, polls
  <2> QED  BY <1>1, <1>3, <2>2, <2>4 DEF DetailInv
<1>8. CASE BuildFail
  <2>1. drops' \in 0..MaxDrops
    BY <1>0, <1>8, SyncAssumption DEF BuildFail, ReplicaTypes
  <2>2. left' = {} /\ copy' = Nothing /\ claimed' = FALSE /\ UNCHANGED <<rfiles, rrel, skewed>>
    BY <1>8 DEF BuildFail, JobDone, replica
  <2>3. ReplicaTypes'
    BY <1>0, <1>4, <2>1, <2>2 DEF ReplicaTypes
  <2>4. RowsTogether'
    BY <1>0, <2>2 DEF Nothing, RowsTogether, RelationsHaveFiles
  <2>5. Cursors'
    BY <1>0, <1>2, <1>8 DEF BuildFail, JobDone, Cursors, replica, polls
  <2> QED  BY <1>1, <1>3, <2>3, <2>4, <2>5 DEF DetailInv
<1> QED  BY <1>5, <1>6, <1>7, <1>8 DEF Build

\* A master of Masters, an empty feed, nothing begun.
LEMMA DetailInit == Init => DetailInv
<1> SUFFICES ASSUME Init PROVE DetailInv  OBVIOUS
<1>1. IInv  BY SyncInit
<1>2. Unannounced = {} /\ Cardinality(Unannounced) = 0 /\ Len(wal) = 0
  BY FS_EmptySet DEF Init, Unannounced
<1>3. MasterTypes  BY <1>2, SyncAssumption DEF Init, MasterTypes
<1>4. ReplicaTypes
  <2>1. Nothing \in [files : SUBSET File, rel : SUBSET (Row \X File)]  BY DEF Nothing
  <2>2. drops \in 0..MaxDrops  BY SyncAssumption DEF Init
  <2> QED  BY <2>1, <2>2 DEF Init, ReplicaTypes
<1>5. Cursors  BY <1>2 DEF Init, Cursors
<1>6. RowsTogether  BY DEF Init, RowsTogether, RelationsHaveFiles, Nothing
<1> QED  BY <1>1, <1>3, <1>4, <1>5, <1>6 DEF DetailInv

LEMMA DetailStep ==
    ASSUME DetailInv, [Next]_vars
    PROVE  DetailInv'
<1>1. CASE UNCHANGED vars
  <2>1. IInv'  BY SyncStep DEF DetailInv
  <2> QED  BY <1>1, <2>1 DEF vars, master, mutators, replica, polls, pool, DetailInv, MasterTypes,
                Unannounced, ReplicaTypes, Cursors, RowsTogether, RelationsHaveFiles
<1>2. CASE Next
  BY <1>2, MutatorDetail, PollDetail, PoolDetail DEF Next
<1> QED  BY <1>1, <1>2

LEMMA DetailTyped == DetailInv => TypeOK
<1> SUFFICES ASSUME DetailInv PROVE TypeOK  OBVIOUS
<1>0. /\ Len(wal) \in Nat /\ wal \in Seq(Ops) /\ MaxOps \in Nat
      /\ IInv /\ MasterTypes /\ ReplicaTypes /\ Cursors
  BY LenProperties, SyncAssumption DEF DetailInv, IInv, SyncTypes
<1>1. Len(wal) <= MaxOps
  BY <1>0, UnannouncedCount DEF MasterTypes
<1>2. head \in [Poll -> 0..Len(wal)]
  BY <1>0 DEF IInv, SyncTypes, MarkerReady
<1>3. pos \in [Poll -> 1..MaxOps + 1]
  BY <1>0, <1>1, <1>2 DEF Cursors
<1>4. applied \in -1..Len(wal) /\ target \in 0..Len(wal)
  BY <1>0 DEF IInv, SyncTypes, MarkerReady, Cursors
<1> QED
  BY <1>0, <1>1, <1>2, <1>3, <1>4 DEF TypeOK, IInv, SyncTypes, Places, MasterTypes, ReplicaTypes

\* The master, the feed, the replica, every poll and the pool keep their
\* types: no replay reads past the end of the feed, and neither the marker
\* nor a rebuild's target is ahead of it.
THEOREM SyncTypeCorrect == Spec => []TypeOK
<1>1. DetailInv /\ [Next]_vars => DetailInv'  BY DetailStep
<1> QED  BY <1>1, DetailInit, DetailTyped, PTL DEF Spec

-----------------------------------------------------------------------------
(* Completeness of a replica at the head.                                   *)
(*                                                                          *)
(* A file is readable because it is its owner's, or by paths: it is on a    *)
(* row, the row is granted to a subject, and User reaches the subject by a  *)
(* first membership.  The invariant: when a replica, a replay or a copy     *)
(* lacks a file, every path to the file has an entry still to come that     *)
(* makes the replay look at that file again.                                *)

\* User reaches subject s, first through g (or is s).
Reach(g, s) ==
    \/ g = User /\ s = User
    \/ g \in Group /\ <<User, g>> \in links /\ s \in {g} \cup ImplicitGroups(g)

Path(f, r, s, g) == <<r, f>> \in rel /\ <<s, r>> \in rules /\ Reach(g, s)

CreateOf(f) == [kind |-> "create", file |-> f]
DeleteOf(f) == [kind |-> "delete", file |-> f]
AttachOf(r, f) == [kind |-> "attach", row |-> r, file |-> f]
RuleOf(s, r) == [kind |-> "rule_add", sub |-> s, row |-> r]
MemberOf(g) == [kind |-> "group_add", user |-> User, group |-> g]

\* The entries that open a path.
Openings(f, r, s, g) == {CreateOf(f), AttachOf(r, f), RuleOf(s, r), MemberOf(g)}

\* The feed has op at k or later, or a mutation is about to announce it.
Coming(op, k) ==
    \/ \E i \in 1..Len(wal) : i >= k /\ wal[i] = op
    \/ \E m \in Unannounced : todo[m] = op

AwaitedFrom(f, k) ==
    /\ f \in Mine => Coming(CreateOf(f), k)
    /\ \A r \in Row, s \in Subject, g \in Subject :
        Path(f, r, s, g) => \E op \in Openings(f, r, s, g) : Coming(op, k)

\* A delete that was announced has the row left to remove.
Deleting(f) == \E m \in Mutator : stage[m] = "row" /\ todo[m].file = f
Live(f) == f \in files /\ ~Deleting(f)

\* What stands before entry k of the feed lacks f: the replica at its
\* marker, a replay at its cursor, or the copy of a rebuild at its target.
Lacks(f, k) ==
    \/ applied # -1 /\ k = applied + 1 /\ f \notin rfiles
    \/ f \notin rfiles /\ \E p \in Poll : pc[p] \in {"apply", "mark"} /\ k = pos[p]
    \/ job = "copying" /\ k = target + 1 /\ f \notin copy.files /\ f \notin left

\* No group joins another one.
NoNesting == \A op \in Ops : Coming(op, 1) /\ op.kind = "group_add" => op.user = User

NothingLost ==
    ~skewed /\ NoNesting =>
        \A f \in File, k \in Nat : Live(f) /\ Lacks(f, k) => AwaitedFrom(f, k)

\* A delete of the feed is final: its file is gone or going, for good.
DeletesFinal ==
    \A f \in File :
        /\ Coming(DeleteOf(f), 1) => f \in used
        /\ \A i \in 1..Len(wal) : wal[i] = DeleteOf(f) => ~Live(f)

CompleteInv == DetailInv /\ DeletesFinal /\ NothingLost

\* Memberships follow one another.
LEMMA GroupsChain ==
    ASSUME NEW g \in Subject, NEW h \in {g} \cup ImplicitGroups(g), NEW j \in Group, <<h, j>> \in links
    PROVE  j \in ImplicitGroups(g)
<1>1. ASSUME NEW S \in SUBSET Group,
             \A x \in Group : <<g, x>> \in links => x \in S,
             \A x \in S, y \in Group : <<x, y>> \in links => y \in S
      PROVE  j \in S
  <2>1. h = g \/ h \in S  BY <1>1 DEF ImplicitGroups
  <2> QED  BY <1>1, <2>1
<1> QED  BY <1>1 DEF ImplicitGroups

\* Whom User reaches is User or one of its groups, at any depth.
LEMMA ReachedGroups ==
    ASSUME NEW s \in Subject
    PROVE  s \in {User} \cup ImplicitGroups(User) <=> \E g \in Subject : Reach(g, s)
<1>0. User \in Subject /\ Group \subseteq Subject  BY DEF Subject
<1>1. ASSUME NEW g \in Subject, Reach(g, s)
      PROVE  s \in {User} \cup ImplicitGroups(User)
  <2>1. CASE g = User /\ s = User
    BY <2>1
  <2>2. CASE g \in Group /\ <<User, g>> \in links /\ s \in {g} \cup ImplicitGroups(g)
    <3>1. ASSUME NEW S \in SUBSET Group,
                 \A x \in Group : <<User, x>> \in links => x \in S,
                 \A x \in S, y \in Group : <<x, y>> \in links => y \in S
          PROVE  s \in S
      <4>1. g \in S  BY <2>2, <3>1
      <4>2. \A x \in Group : <<g, x>> \in links => x \in S  BY <3>1, <4>1
      <4> QED  BY <2>2, <3>1, <4>1, <4>2 DEF ImplicitGroups
    <3>2. s \in Group  BY <2>2 DEF ImplicitGroups
    <3> QED  BY <3>1, <3>2 DEF ImplicitGroups
  <2> QED  BY <1>1, <2>1, <2>2 DEF Reach
<1>2. ASSUME s \in ImplicitGroups(User)
      PROVE  \E g \in Subject : Reach(g, s)
  <2> DEFINE S == {h \in Group : \E g \in Group : <<User, g>> \in links /\ h \in {g} \cup ImplicitGroups(g)}
  <2>1. S \in SUBSET Group  OBVIOUS
  <2>2. \A x \in Group : <<User, x>> \in links => x \in S  OBVIOUS
  <2>3. ASSUME NEW x \in S, NEW y \in Group, <<x, y>> \in links
        PROVE  y \in S
    <3>1. PICK g \in Group : <<User, g>> \in links /\ x \in {g} \cup ImplicitGroups(g)
      OBVIOUS
    <3>2. y \in ImplicitGroups(g)  BY <1>0, <2>3, <3>1, GroupsChain
    <3> QED  BY <3>1, <3>2
  <2> HIDE DEF S
  <2>4. s \in S  BY <1>2, <2>1, <2>2, <2>3 DEF ImplicitGroups
  <2>5. PICK g \in Group : <<User, g>> \in links /\ s \in {g} \cup ImplicitGroups(g)
    BY <2>4 DEF S
  <2> QED  BY <1>0, <2>5 DEF Reach
<1>3. ASSUME s = User PROVE \E g \in Subject : Reach(g, s)
  BY <1>0, <1>3 DEF Reach
<1> QED  BY <1>1, <1>2, <1>3

\* What makes a file readable is an owner or a path.
LEMMA ReadableByPath ==
    ASSUME NEW f \in File, f \in files
    PROVE  CanRead(f) <=> \/ f \in Mine
                          \/ \E r \in Row, s \in Subject, g \in Subject : Path(f, r, s, g)
<1>1. \A r \in Row : AuthorizeRow(r) <=> \E s \in Subject, g \in Subject : <<s, r>> \in rules /\ Reach(g, s)
  <2>1. {User} \cup ImplicitGroups(User) \subseteq Subject  BY DEF ImplicitGroups, Subject
  <2> QED  BY <2>1, ReachedGroups DEF AuthorizeRow
<1> QED  BY <1>1 DEF CanRead, VisibleRows, RowsForFile, Path

LEMMA UnreadableAwaited ==
    ASSUME NEW f \in File, NEW k, f \in files, ~CanRead(f)
    PROVE  AwaitedFrom(f, k)
BY ReadableByPath DEF AwaitedFrom

\* Fewer memberships reach fewer subjects.
LEMMA ReachShrinks ==
    ASSUME NEW g \in Subject, NEW s \in Subject, links' \subseteq links, Reach(g, s)'
    PROVE  Reach(g, s)
<1>1. ASSUME g \in Group, s \in ImplicitGroups(g)'
      PROVE  s \in ImplicitGroups(g)
  <2>1. ASSUME NEW S \in SUBSET Group,
               \A x \in Group : <<g, x>> \in links => x \in S,
               \A x \in S, y \in Group : <<x, y>> \in links => y \in S
        PROVE  s \in S
    <3>1. /\ \A x \in Group : <<g, x>> \in links' => x \in S
          /\ \A x \in S, y \in Group : <<x, y>> \in links' => y \in S
      BY <2>1
    <3> QED  BY <1>1, <3>1 DEF ImplicitGroups
  <2>2. s \in Group  BY <1>1 DEF ImplicitGroups
  <2> QED  BY <2>1, <2>2 DEF ImplicitGroups
<1> QED  BY <1>1 DEF Reach

\* A membership of User's own reaches more through that group only.
LEMMA ReachByMember ==
    ASSUME NEW g \in Subject, NEW s \in Subject, NEW new \in Group,
           links' = links \cup {<<User, new>>}, Reach(g, s)'
    PROVE  Reach(g, s) \/ g = new
<1>0. User \notin Group  BY SyncAssumption
<1>1. ASSUME g \in Group, s \in ImplicitGroups(g)'
      PROVE  s \in ImplicitGroups(g)
  <2>1. ASSUME NEW S \in SUBSET Group,
               \A x \in Group : <<g, x>> \in links => x \in S,
               \A x \in S, y \in Group : <<x, y>> \in links => y \in S
        PROVE  s \in S
    <3>1. \A x \in Group, y \in Group : <<x, y>> \in links' => <<x, y>> \in links
      BY <1>0
    <3>2. /\ \A x \in Group : <<g, x>> \in links' => x \in S
          /\ \A x \in S, y \in Group : <<x, y>> \in links' => y \in S
      BY <1>1, <2>1, <3>1
    <3> QED  BY <1>1, <3>2 DEF ImplicitGroups
  <2>2. s \in Group  BY <1>1 DEF ImplicitGroups
  <2> QED  BY <2>1, <2>2 DEF ImplicitGroups
<1>2. CASE g = User /\ s = User
  BY <1>2 DEF Reach
<1>3. CASE g \in Group /\ <<User, g>> \in links' /\ s \in {g} \cup ImplicitGroups(g)'
  <2>1. <<User, g>> \in links \/ g = new  BY <1>3
  <2> QED  BY <1>1, <1>3, <2>1 DEF Reach
<1> QED  BY <1>2, <1>3 DEF Reach

\* The shape of an entry is fixed by its kind.
LEMMA OpShapes ==
    ASSUME NEW op \in Ops
    PROVE  /\ op.kind = "create" => op = CreateOf(op.file)
           /\ op.kind = "delete" => op = DeleteOf(op.file)
           /\ op.kind = "attach" => op = AttachOf(op.row, op.file)
BY DEF Ops, CreateOf, DeleteOf, AttachOf

\* An entry that is to come stays so: it moves from its mutation to the end
\* of the feed.
LEMMA ComingStays ==
    ASSUME DetailInv, NEW m \in Mutator, Mutate(m) \/ Finish(m),
           NEW op, NEW k \in Nat, k <= Len(wal) + 1, Coming(op, k)
    PROVE  Coming(op, k)'
<1>0. /\ Len(wal) \in Nat /\ wal \in Seq(Ops) /\ todo \in [Mutator -> Ops \cup {None}]
      /\ stage \in [Mutator -> {"idle", "store", "announce", "row"}]
  BY LenProperties DEF DetailInv, IInv, SyncTypes
<1>1. CASE Mutate(m)
  <2>1. PICK o \in Ops, where \in {"store", "announce"} : Began(m, o, where)
    BY <1>1, MutationBegins
  <2>2. wal' = wal /\ \A n \in Unannounced : n \in Unannounced' /\ todo'[n] = todo[n]
    BY <1>0, <2>1 DEF Began, Unannounced
  <2> QED  BY <2>2 DEF Coming
<1>2. CASE Announce(m)
  <2>1. wal' = Append(wal, todo[m]) /\ todo[m] \in Ops
    BY <1>2 DEF Announce, DetailInv, IInv, SyncTypes
  <2>2. /\ Len(wal') = Len(wal) + 1 /\ wal'[Len(wal) + 1] = todo[m]
        /\ \A i \in 1..Len(wal) : wal'[i] = wal[i]
    BY <1>0, <2>1, AppendProperties
  <2>3. \A n \in Unannounced : n # m => n \in Unannounced' /\ todo'[n] = todo[n]
    BY <1>0, <1>2 DEF Announce, Unannounced
  <2>4. CASE \E i \in 1..Len(wal) : i >= k /\ wal[i] = op
    BY <1>0, <2>2, <2>4 DEF Coming
  <2>5. CASE \E n \in Unannounced : todo[n] = op
    <3>1. PICK n \in Unannounced : todo[n] = op  BY <2>5
    <3>2. CASE n = m
      <4>1. Len(wal) + 1 \in 1..Len(wal') /\ Len(wal) + 1 >= k /\ wal'[Len(wal) + 1] = op
        BY <1>0, <2>2, <3>1, <3>2
      <4> QED  BY <4>1 DEF Coming
    <3>3. CASE n # m
      BY <2>3, <3>1, <3>3 DEF Coming
    <3> QED  BY <3>2, <3>3
  <2> QED  BY <2>4, <2>5 DEF Coming
<1>3. CASE AttachStore(m) \/ DeleteRow(m)
  <2>1. wal' = wal /\ \A n \in Unannounced : n \in Unannounced' /\ todo'[n] = todo[n]
    BY <1>0, <1>3 DEF AttachStore, DeleteRow, Unannounced
  <2> QED  BY <2>1 DEF Coming
<1> QED  BY <1>1, <1>2, <1>3 DEF Finish

\* What a mutation begins with is to come.
LEMMA BegunComing ==
    ASSUME DetailInv, NEW m \in Mutator, NEW op, NEW where \in {"store", "announce"},
           Began(m, op, where), NEW k
    PROVE  Coming(op, k)'
BY DEF Began, Coming, Unannounced, DetailInv, IInv, SyncTypes

LEMMA NestingStays ==
    ASSUME DetailInv, NEW m \in Mutator, Mutate(m) \/ Finish(m), NoNesting'
    PROVE  NoNesting
<1>1. Len(wal) \in Nat  BY LenProperties DEF DetailInv, IInv, SyncTypes
<1>2. \A op \in Ops : Coming(op, 1) => Coming(op, 1)'
  BY <1>1, ComingStays
<1> QED  BY <1>2 DEF NoNesting

\* A mutation that removes grants, or none, opens no path.
LEMMA PathShrinks ==
    ASSUME NEW f \in File, NEW r \in Row, NEW s \in Subject, NEW g \in Subject,
           rel' \subseteq rel, rules' \subseteq rules, links' \subseteq links,
           Path(f, r, s, g)'
    PROVE  Path(f, r, s, g)
BY ReachShrinks DEF Path

\* A path that a mutation opens has the mutation's entry to come.
LEMMA PathOpened ==
    ASSUME DetailInv, NEW m \in Mutator, Mutate(m) \/ Finish(m), NoNesting',
           NEW f \in File, NEW r \in Row, NEW s \in Subject, NEW g \in Subject, NEW k \in Nat,
           Path(f, r, s, g)', ~Path(f, r, s, g)
    PROVE  \E op \in Openings(f, r, s, g) : Coming(op, k)'
<1>0. /\ todo \in [Mutator -> Ops \cup {None}]
      /\ stage \in [Mutator -> {"idle", "store", "announce", "row"}]
  BY DEF DetailInv, IInv, SyncTypes
<1>1. ~(rel' \subseteq rel /\ rules' \subseteq rules /\ links' \subseteq links)
  BY PathShrinks
<1>2. CASE AttachStore(m)
  <2>1. todo[m] \in Ops /\ todo[m].kind = "attach"
    BY <1>2 DEF AttachStore, DetailInv, IInv, SyncTypes, MasterTypes
  <2>2. rel' = rel \cup {<<todo[m].row, todo[m].file>>} /\ rules' = rules /\ links' = links
    BY <1>2 DEF AttachStore
  <2>3. Reach(g, s)  BY <2>2, ReachShrinks DEF Path
  <2>4. r = todo[m].row /\ f = todo[m].file
    BY <2>2, <2>3 DEF Path
  <2>5. todo[m] = AttachOf(r, f)  BY <2>1, <2>4, OpShapes
  <2>6. m \in Unannounced' /\ todo'[m] = todo[m]
    BY <1>0, <1>2 DEF AttachStore, Unannounced
  <2> QED  BY <2>5, <2>6 DEF Coming, Openings
<1>3. ASSUME NEW x \in Subject, NEW y \in Row, AddRule(m, x, y)
      PROVE  \E op \in Openings(f, r, s, g) : Coming(op, k)'
  <2>1. rules' = rules \cup {<<x, y>>} /\ rel' = rel /\ links' = links
    BY <1>3 DEF AddRule
  <2>2. Reach(g, s)  BY <2>1, ReachShrinks DEF Path
  <2>3. x = s /\ y = r  BY <2>1, <2>2 DEF Path
  <2>4. Coming(RuleOf(s, r), k)'
    BY <1>3, <2>3, BegunComing DEF AddRule, RuleOf
  <2> QED  BY <2>4 DEF Openings
<1>4. ASSUME NEW x \in Subject, NEW y \in Group, AssignGroup(m, x, y)
      PROVE  \E op \in Openings(f, r, s, g) : Coming(op, k)'
  <2> DEFINE added == [kind |-> "group_add", user |-> x, group |-> y]
  <2>1. links' = links \cup {<<x, y>>} /\ rel' = rel /\ rules' = rules
    BY <1>4 DEF AssignGroup
  <2>2. added \in Ops  BY DEF Ops
  <2>3. Coming(added, 1)' /\ Coming(added, k)'
    BY <1>4, BegunComing DEF AssignGroup
  <2>4. x = User  BY <2>2, <2>3 DEF NoNesting
  <2>5. Reach(g, s) \/ g = y  BY <2>1, <2>4, ReachByMember DEF Path
  <2>6. g = y  BY <2>1, <2>5 DEF Path
  <2> QED  BY <2>3, <2>4, <2>6 DEF Openings, MemberOf
<1>5. CASE Mutate(m)
  <2>1. ASSUME NEW x \in File, CreateFile(m, x) \/ DeleteFile(m, x)
        PROVE  FALSE
    BY <1>1, <2>1 DEF CreateFile, DeleteFile, master
  <2>2. ASSUME NEW x \in Row, NEW y \in File, AttachCheck(m, x, y) \/ Detach(m, x, y)
        PROVE  FALSE
    BY <1>1, <2>2 DEF AttachCheck, Detach, Detached, master
  <2>3. ASSUME NEW x \in Subject, NEW y \in Row, RemoveRule(m, x, y)
        PROVE  FALSE
    BY <1>1, <2>3 DEF RemoveRule
  <2>4. ASSUME NEW x \in Subject, NEW y \in Group, RemoveFromGroup(m, x, y)
        PROVE  FALSE
    BY <1>1, <2>4 DEF RemoveFromGroup
  <2>5. ASSUME NEW y \in Group, DeleteGroup(m, y)
        PROVE  FALSE
    BY <1>1, <2>5 DEF DeleteGroup
  <2> QED  BY <1>3, <1>4, <1>5, <2>1, <2>2, <2>3, <2>4, <2>5 DEF Mutate
<1>6. CASE Announce(m) \/ DeleteRow(m)
  BY <1>1, <1>6 DEF Announce, DeleteRow, master
<1> QED  BY <1>2, <1>5, <1>6 DEF Finish

\* A file comes to life by its creation only.
LEMMA LiveCreated ==
    ASSUME DetailInv, NEW m \in Mutator, Mutate(m) \/ Finish(m), NEW f \in File,
           Live(f)', ~Live(f), NEW k \in Nat
    PROVE  f \notin used /\ Coming(CreateOf(f), k)'
<1>0. /\ todo \in [Mutator -> Ops \cup {None}]
      /\ stage \in [Mutator -> {"idle", "store", "announce", "row"}]
      /\ files \subseteq used
  BY DEF DetailInv, IInv, SyncTypes, MasterTypes
<1>1. CASE Mutate(m)
  <2>1. PICK o \in Ops, where \in {"store", "announce"} : Began(m, o, where)
    BY <1>1, MutationBegins
  <2>2. Deleting(f)' <=> Deleting(f)
    BY <1>0, <2>1 DEF Began, Deleting
  <2>3. f \in files' \ files
    BY <2>2 DEF Live
  <2>4. PICK x \in File : CreateFile(m, x)
    <3>1. ASSUME NEW x \in File, DeleteFile(m, x)  PROVE FALSE
      BY <2>3, <3>1 DEF DeleteFile, master
    <3>2. ASSUME NEW x \in Row, NEW y \in File, AttachCheck(m, x, y) \/ Detach(m, x, y)  PROVE FALSE
      BY <2>3, <3>2 DEF AttachCheck, Detach, master
    <3>3. ASSUME NEW x \in Subject, NEW y \in Row, AddRule(m, x, y) \/ RemoveRule(m, x, y)
          PROVE  FALSE
      BY <2>3, <3>3 DEF AddRule, RemoveRule
    <3>4. ASSUME NEW x \in Subject, NEW y \in Group, AssignGroup(m, x, y) \/ RemoveFromGroup(m, x, y)
          PROVE  FALSE
      BY <2>3, <3>4 DEF AssignGroup, RemoveFromGroup
    <3>5. ASSUME NEW y \in Group, DeleteGroup(m, y)  PROVE FALSE
      BY <2>3, <3>5 DEF DeleteGroup
    <3> QED  BY <1>1, <3>1, <3>2, <3>3, <3>4, <3>5 DEF Mutate
  <2>5. f = x /\ f \notin used
    BY <2>3, <2>4 DEF CreateFile
  <2> QED  BY <2>4, <2>5, BegunComing DEF CreateFile, CreateOf
<1>2. CASE AttachStore(m) \/ Announce(m)
  <2>1. Deleting(f) => Deleting(f)'
    BY <1>0, <1>2 DEF AttachStore, Announce, Deleting
  <2>2. files' = files  BY <1>2 DEF AttachStore, Announce, master
  <2> QED  BY <2>1, <2>2 DEF Live
<1>3. CASE DeleteRow(m)
  <2>1. files' = files \ {todo[m].file}  BY <1>3 DEF DeleteRow
  <2>2. Deleting(f) => Deleting(f)' \/ f = todo[m].file
    BY <1>0, <1>3 DEF DeleteRow, Deleting
  <2> QED  BY <2>1, <2>2 DEF Live
<1> QED  BY <1>1, <1>2, <1>3 DEF Finish

\* Mutations lose nothing: what is awaited stays awaited, and so is what they
\* make readable.
LEMMA MutatorKeeps ==
    ASSUME DetailInv, NEW m \in Mutator, Mutate(m) \/ Finish(m), NoNesting',
           NEW f \in File, NEW k \in Nat, k <= Len(wal) + 1,
           Live(f)', Live(f) => AwaitedFrom(f, k)
    PROVE  AwaitedFrom(f, k)'
<1>1. CASE ~Live(f)
  <2>1. Coming(CreateOf(f), k)'  BY <1>1, LiveCreated
  <2> QED  BY <2>1 DEF AwaitedFrom, Openings
<1>2. CASE Live(f)
  <2>1. \A op : Coming(op, k) => Coming(op, k)'  BY ComingStays
  <2>2. ASSUME NEW r \in Row, NEW s \in Subject, NEW g \in Subject, Path(f, r, s, g)'
        PROVE  \E op \in Openings(f, r, s, g) : Coming(op, k)'
    <3>1. CASE Path(f, r, s, g)
      BY <1>2, <2>1, <3>1 DEF AwaitedFrom
    <3>2. CASE ~Path(f, r, s, g)
      BY <2>2, <3>2, PathOpened
    <3> QED  BY <3>1, <3>2
  <2>3. f \in Mine => Coming(CreateOf(f), k)'
    BY <1>2, <2>1 DEF AwaitedFrom
  <2> QED  BY <2>2, <2>3 DEF AwaitedFrom
<1> QED  BY <1>1, <1>2

\* Every place in the feed that something stands at is in the feed.
LEMMA LacksInFeed ==
    ASSUME DetailInv, NEW f, NEW k \in Nat, Lacks(f, k)
    PROVE  k <= Len(wal) + 1
<1>1. Len(wal) \in Nat  BY LenProperties DEF DetailInv, IInv, SyncTypes
<1> QED  BY <1>1 DEF DetailInv, IInv, SyncTypes, MarkerReady, Cursors, Lacks

\* A mutator moves nothing that stands in the feed, and a delete is final.
LEMMA MutatorComplete ==
    ASSUME CompleteInv, NEW m \in Mutator, Mutate(m) \/ Finish(m)
    PROVE  CompleteInv'
<1>0. /\ DetailInv /\ Len(wal) \in Nat /\ wal \in Seq(Ops)
      /\ todo \in [Mutator -> Ops \cup {None}]
      /\ stage \in [Mutator -> {"idle", "store", "announce", "row"}]
  BY LenProperties DEF CompleteInv, DetailInv, IInv, SyncTypes
<1>1. DetailInv'  BY <1>0, MutatorDetail
<1>2. UNCHANGED <<replica, claimed, polls, pool, skewed, drops>>
  BY <1>0, MutationTyped, FinishTyped
<1>3. NothingLost'
  <2> SUFFICES ASSUME ~skewed', NoNesting', NEW f \in File, NEW k \in Nat, Live(f)', Lacks(f, k)'
               PROVE  AwaitedFrom(f, k)'
    BY DEF NothingLost
  <2>1. ~skewed /\ NoNesting  BY <1>0, <1>2, NestingStays
  <2>2. Lacks(f, k)  BY <1>2 DEF Lacks, replica, polls, pool
  <2>3. Live(f) => AwaitedFrom(f, k)  BY <2>1, <2>2 DEF CompleteInv, NothingLost
  <2> QED  BY <1>0, <2>2, <2>3, LacksInFeed, MutatorKeeps
<1>4. used \subseteq used'
  <2>1. ASSUME NEW x \in File, CreateFile(m, x) \/ DeleteFile(m, x)  PROVE used \subseteq used'
    BY <2>1 DEF CreateFile, DeleteFile, master
  <2>2. ASSUME NEW x \in Row, NEW y \in File, AttachCheck(m, x, y) \/ Detach(m, x, y)
        PROVE  used \subseteq used'
    BY <2>2 DEF AttachCheck, Detach, master
  <2>3. ASSUME NEW x \in Subject, NEW y \in Row, AddRule(m, x, y) \/ RemoveRule(m, x, y)
        PROVE  used \subseteq used'
    BY <2>3 DEF AddRule, RemoveRule
  <2>4. ASSUME NEW x \in Subject, NEW y \in Group, AssignGroup(m, x, y) \/ RemoveFromGroup(m, x, y)
        PROVE  used \subseteq used'
    BY <2>4 DEF AssignGroup, RemoveFromGroup
  <2>5. ASSUME NEW y \in Group, DeleteGroup(m, y)  PROVE used \subseteq used'
    BY <2>5 DEF DeleteGroup
  <2>6. CASE Finish(m)
    BY <2>6 DEF Finish, AttachStore, Announce, DeleteRow, master
  <2> QED  BY <2>1, <2>2, <2>3, <2>4, <2>5, <2>6 DEF Mutate
<1>5. ASSUME NEW f \in File, Coming(DeleteOf(f), 1)'
      PROVE  f \in used'
  <2>1. CASE Coming(DeleteOf(f), 1)
    BY <1>4, <2>1 DEF CompleteInv, DeletesFinal
  <2>2. CASE ~Coming(DeleteOf(f), 1)
    <3>1. CASE Mutate(m)
      <4>1. PICK o \in Ops, where \in {"store", "announce"} : Began(m, o, where)
        BY <3>1, MutationBegins
      <4>2. todo'[m] = DeleteOf(f)
        BY <1>0, <1>5, <2>2, <4>1 DEF Began, Coming, Unannounced
      <4>3. todo'[m].kind = "delete" /\ todo'[m].file = f  BY <4>2 DEF DeleteOf
      <4>4. ASSUME NEW x \in File, CreateFile(m, x)  PROVE FALSE
        BY <1>0, <4>3, <4>4 DEF CreateFile, Began
      <4>5. ASSUME NEW x \in File, DeleteFile(m, x)  PROVE f \in used'
        BY <1>0, <4>3, <4>5 DEF DeleteFile, Began, master, DetailInv, MasterTypes
      <4>6. ASSUME NEW x \in Row, NEW y \in File, AttachCheck(m, x, y) \/ Detach(m, x, y)
            PROVE  FALSE
        BY <1>0, <4>3, <4>6 DEF AttachCheck, Detach, Began
      <4>7. ASSUME NEW x \in Subject, NEW y \in Row, AddRule(m, x, y) \/ RemoveRule(m, x, y)
            PROVE  FALSE
        BY <1>0, <4>3, <4>7 DEF AddRule, RemoveRule, Began
      <4>8. ASSUME NEW x \in Subject, NEW y \in Group,
                   AssignGroup(m, x, y) \/ RemoveFromGroup(m, x, y)
            PROVE  FALSE
        BY <1>0, <4>3, <4>8 DEF AssignGroup, RemoveFromGroup, Began
      <4>9. ASSUME NEW y \in Group, DeleteGroup(m, y)  PROVE FALSE
        BY <1>0, <4>3, <4>9 DEF DeleteGroup, Began
      <4> QED  BY <3>1, <4>4, <4>5, <4>6, <4>7, <4>8, <4>9 DEF Mutate
    <3>2. CASE Announce(m)
      <4>1. wal' = Append(wal, todo[m]) /\ todo[m] \in Ops
        BY <3>2 DEF Announce, DetailInv, IInv, SyncTypes, CompleteInv
      <4>2. /\ Len(wal') = Len(wal) + 1 /\ wal'[Len(wal) + 1] = todo[m]
            /\ \A i \in 1..Len(wal) : wal'[i] = wal[i]
        BY <1>0, <4>1, AppendProperties
      <4>3. m \in Unannounced /\ \A n \in Unannounced' : n \in Unannounced /\ todo'[n] = todo[n]
        BY <1>0, <3>2 DEF Announce, Unannounced
      <4> QED  BY <1>0, <1>5, <2>2, <4>2, <4>3 DEF Coming
    <3>3. CASE AttachStore(m) \/ DeleteRow(m)
      <4>1. wal' = wal /\ \A n \in Unannounced' : n \in Unannounced /\ todo'[n] = todo[n]
        BY <1>0, <3>3 DEF AttachStore, DeleteRow, Unannounced
      <4> QED  BY <1>5, <2>2, <4>1 DEF Coming
    <3> QED  BY <3>1, <3>2, <3>3 DEF Finish
  <2> QED  BY <2>1, <2>2
<1>6. ASSUME NEW f \in File, NEW i \in 1..Len(wal'), wal'[i] = DeleteOf(f)
      PROVE  ~Live(f)'
  <2>1. CASE i \in 1..Len(wal) /\ wal[i] = DeleteOf(f)
    <3>1. ~Live(f)  BY <2>1 DEF CompleteInv, DeletesFinal
    <3>2. Coming(DeleteOf(f), 1)  BY <2>1 DEF Coming
    <3>3. f \in used  BY <3>2 DEF CompleteInv, DeletesFinal
    <3> QED  BY <1>0, <3>1, <3>3, LiveCreated
  <2>2. CASE Announce(m)
    <3>1. wal' = Append(wal, todo[m]) /\ todo[m] \in Ops
      BY <2>2 DEF Announce, DetailInv, IInv, SyncTypes, CompleteInv
    <3>2. /\ Len(wal') = Len(wal) + 1 /\ wal'[Len(wal) + 1] = todo[m]
          /\ \A j \in 1..Len(wal) : wal'[j] = wal[j]
      BY <1>0, <3>1, AppendProperties
    <3>3. CASE i = Len(wal) + 1
      <4>1. todo[m] = DeleteOf(f)  BY <1>6, <3>2, <3>3
      <4>2. todo[m].kind = "delete" /\ todo[m].file = f  BY <4>1 DEF DeleteOf
      <4>3. stage'[m] = "row" /\ todo'[m].file = f
        BY <1>0, <2>2, <4>2 DEF Announce
      <4> QED  BY <4>3 DEF Live, Deleting
    <3>4. CASE i # Len(wal) + 1
      <4>1. i \in 1..Len(wal)  BY <1>0, <3>2, <3>4
      <4> QED  BY <1>6, <2>1, <3>2, <4>1
    <3> QED  BY <3>3, <3>4
  <2>3. CASE wal' = wal
    BY <1>6, <2>1, <2>3
  <2> QED  BY <1>0, <2>2, <2>3, MutationTyped DEF Finish, AttachStore, DeleteRow
<1>7. DeletesFinal'  BY <1>5, <1>6 DEF DeletesFinal
<1> QED  BY <1>1, <1>3, <1>7 DEF CompleteInv

\* Polls and rebuilds leave the master and the feed alone.
LEMMA StillAwaited ==
    ASSUME UNCHANGED <<master, wal, mutators>>
    PROVE  /\ \A f, k : AwaitedFrom(f, k) <=> AwaitedFrom(f, k)'
           /\ \A f : Live(f) <=> Live(f)'
           /\ NoNesting <=> NoNesting'
           /\ DeletesFinal <=> DeletesFinal'
<1>1. UNCHANGED <<files, used, rel, rules, links, wal, todo, stage>>
  BY DEF master, mutators
<1>2. \A op, k : Coming(op, k) <=> Coming(op, k)'
  BY <1>1 DEF Coming, Unannounced
<1>3. \A f, r, s, g : Path(f, r, s, g) <=> Path(f, r, s, g)'
  BY <1>1 DEF Path, Reach, ImplicitGroups
<1>4. \A f : Live(f) <=> Live(f)'
  BY <1>1 DEF Live, Deleting
<1>5. NoNesting <=> NoNesting'
  BY <1>2 DEF NoNesting
<1>6. DeletesFinal <=> DeletesFinal'
  BY <1>1, <1>2, <1>4 DEF DeletesFinal
<1>7. \A f, k : AwaitedFrom(f, k) <=> AwaitedFrom(f, k)'
  BY <1>2, <1>3 DEF AwaitedFrom
<1> QED  BY <1>4, <1>5, <1>6, <1>7

\* It is enough that what stands somewhere after a step lacks a file only if
\* the file is awaited from there.
LEMMA StepComplete ==
    ASSUME CompleteInv, DetailInv', UNCHANGED <<master, wal, mutators>>, skewed => skewed',
           ASSUME ~skewed, ~skewed', NEW f \in File, NEW k \in Nat, Live(f), Lacks(f, k)',
                  \A j \in Nat : Lacks(f, j) => AwaitedFrom(f, j)
           PROVE  AwaitedFrom(f, k)
    PROVE  CompleteInv'
<1>1. DeletesFinal'  BY StillAwaited DEF CompleteInv
<1>2. NothingLost'
  <2> SUFFICES ASSUME ~skewed', NoNesting', NEW f \in File, NEW k \in Nat, Live(f)', Lacks(f, k)'
               PROVE  AwaitedFrom(f, k)'
    BY DEF NothingLost
  <2>1. ~skewed /\ NoNesting /\ Live(f)  BY StillAwaited
  <2>2. \A j \in Nat : Lacks(f, j) => AwaitedFrom(f, j)
    BY <2>1 DEF CompleteInv, NothingLost
  <2>3. AwaitedFrom(f, k)  BY <2>1, <2>2
  <2> QED  BY <2>3, StillAwaited
<1> QED  BY <1>1, <1>2 DEF CompleteInv

\* An applied entry leaves a readable file in the replica, if it opened one
\* of the file's paths.
LEMMA EntryBrings ==
    ASSUME DetailInv, NEW p \in Poll, ApplyOp(p), NextEntry(p), NEW f \in File, f \in files,
           NEW op, op = wal[pos[p]], f \notin rfiles',
           \/ op = CreateOf(f) /\ CanRead(f)
           \/ \E r \in Row, s \in Subject, g \in Subject :
                Path(f, r, s, g) /\ op \in Openings(f, r, s, g)
    PROVE  FALSE
<1>1. CanRead(f)  BY ReadableByPath
<1>2. CASE op = CreateOf(f)
  <2>1. op.kind = "create" /\ op.file = f  BY <1>2 DEF CreateOf
  <2>2. ApplyFile(op)  BY <2>1 DEF ApplyOp, FileKinds
  <2> QED  BY <1>1, <2>1, <2>2 DEF ApplyFile
<1>3. ASSUME NEW r \in Row, NEW s \in Subject, NEW g \in Subject,
             Path(f, r, s, g), op \in Openings(f, r, s, g)
      PROVE  FALSE
  <2>0. s \in {User} \cup ImplicitGroups(User)
    BY <1>3, ReachedGroups DEF Path
  <2>1. CASE op = AttachOf(r, f)
    <3>1. op.kind = "attach" /\ op.file = f  BY <2>1 DEF AttachOf
    <3>2. ApplyFile(op)  BY <3>1 DEF ApplyOp, FileKinds
    <3> QED  BY <1>1, <3>1, <3>2 DEF ApplyFile
  <2>2. ASSUME op.kind \notin FileKinds, r \in Affected(op)
        PROVE  FALSE
    <3>1. \E rows : r \in rows /\ Resync(rows)
      <4>1. CASE Resync(Affected(op))
        BY <2>2, <4>1
      <4>2. CASE Dispatch(p)
        <5>1. pc' = [pc EXCEPT ![p] = "idle"] /\ pc \in [Poll -> Places]
          BY <4>2 DEF Dispatch, Return, Goto, DetailInv, IInv, SyncTypes
        <5>2. pc' = [pc EXCEPT ![p] = IF pos[p] = head[p] THEN "mark" ELSE "apply"]
          BY DEF NextEntry, Goto
        <5> QED  BY <5>1, <5>2
      <4> QED  BY <2>2, <4>1, <4>2 DEF ApplyOp
    <3>2. PICK rows : r \in rows /\ Resync(rows)  BY <3>1
    <3>3. <<r, f>> \in FilesForRows(rows)
      BY <1>3, <3>2 DEF Path, FilesForRows
    <3>4. f \in {x[2] : x \in FilesForRows(rows)}
      <4>1. <<r, f>>[2] = f  OBVIOUS
      <4> QED  BY <3>3, <4>1
    <3> QED  BY <1>1, <3>2, <3>4 DEF Resync
  <2>3. CASE op = RuleOf(s, r)
    <3>1. op.kind = "rule_add" /\ op.sub = s /\ op.row = r  BY <2>3 DEF RuleOf
    <3>2. r \in Affected(op)  BY <2>0, <3>1 DEF Affected
    <3> QED  BY <2>2, <3>1, <3>2 DEF FileKinds
  <2>4. CASE op = MemberOf(g)
    <3>1. op.kind = "group_add" /\ op.user = User /\ op.group = g  BY <2>4 DEF MemberOf
    <3>2. g # User => s \in {g} \cup ImplicitGroups(g)
      BY <1>3 DEF Path, Reach
    <3>3. g \in Group
      <4>1. op \in Ops  BY EntryInFeed DEF ApplyOp
      <4> QED  BY <3>1, <4>1, OpFields
    <3>4. s \in {g} \cup ImplicitGroups(g)
      BY <3>2, <3>3, SyncAssumption
    <3>5. r \in RulesForSubject(s)
      BY <1>3 DEF Path, RulesForSubject
    <3>6. r \in ReadRowsForGroup(g)
      BY <3>4, <3>5 DEF ReadRowsForGroup
    <3>7. r \in Affected(op)  BY <3>1, <3>6 DEF Affected
    <3> QED  BY <2>2, <3>1, <3>7 DEF FileKinds
  <2> QED  BY <1>2, <1>3, <2>1, <2>3, <2>4 DEF Openings
<1> QED  BY <1>2, <1>3

\* Past one entry, a file is awaited still or was brought.
LEMMA EntryPassed ==
    ASSUME DetailInv, NEW p \in Poll, ApplyOp(p), NextEntry(p), NEW f \in File, f \in files,
           NEW k \in Nat, k = pos[p], AwaitedFrom(f, k), f \notin rfiles'
    PROVE  AwaitedFrom(f, k + 1)
<1>0. pc[p] = "apply" /\ Len(wal) \in Nat
  BY LenProperties DEF ApplyOp, DetailInv, IInv, SyncTypes
<1>1. \A op : Coming(op, k) => Coming(op, k + 1) \/ op = wal[k]
  BY <1>0 DEF Coming
<1>2. f \in Mine => Coming(CreateOf(f), k + 1)
  <2> SUFFICES ASSUME f \in Mine PROVE Coming(CreateOf(f), k + 1)  OBVIOUS
  <2>1. CanRead(f)  BY DEF CanRead
  <2>2. Coming(CreateOf(f), k)  BY DEF AwaitedFrom
  <2> QED  BY <1>1, <2>1, <2>2, EntryBrings
<1>3. ASSUME NEW r \in Row, NEW s \in Subject, NEW g \in Subject, Path(f, r, s, g)
      PROVE  \E op \in Openings(f, r, s, g) : Coming(op, k + 1)
  <2>1. PICK op \in Openings(f, r, s, g) : Coming(op, k)
    BY <1>3 DEF AwaitedFrom
  <2>2. op # wal[k]  BY <1>3, EntryBrings
  <2> QED  BY <1>1, <2>1, <2>2
<1> QED  BY <1>2, <1>3 DEF AwaitedFrom

\* An entry takes a file from the replica when it was deleted, or when it is
\* not readable any more.
LEMMA EntryTakes ==
    ASSUME DetailInv, NEW p \in Poll, ApplyOp(p), NEW f \in File, f \in rfiles, f \notin rfiles'
    PROVE  ~CanRead(f) \/ wal[pos[p]] = DeleteOf(f)
<1> DEFINE op == wal[pos[p]]
<1>0. op \in Ops  BY EntryInFeed DEF ApplyOp
<1>1. CASE ApplyFile(op)
  <2>1. op.kind = "delete" /\ op.file = f  BY <1>1 DEF ApplyFile
  <2> QED  BY <1>0, <2>1, OpShapes
<1>2. ASSUME NEW rows, Resync(rows)
      PROVE  ~CanRead(f)
  BY <1>2 DEF Resync
<1> QED  BY <1>1, <1>2 DEF ApplyOp

\* A replay, and whatever else a poll does, loses no file.
LEMMA PollComplete ==
    ASSUME CompleteInv, NEW p \in Poll, Advance(p) \/ DropPoll(p)
    PROVE  CompleteInv'
<1>0. /\ DetailInv /\ IInv /\ Cursors /\ pos \in [Poll -> Nat \ {0}]
      /\ head \in [Poll -> Nat] /\ applied \in Int /\ pc \in [Poll -> Places]
  BY DEF CompleteInv, DetailInv, IInv, SyncTypes, Cursors
<1>1. DetailInv'  BY <1>0, PollDetail
<1>2. UNCHANGED <<master, wal, mutators, skewed>>
  BY DEF Advance, AdvanceRead, AdvanceClaim, ReplayStart, ApplyOp, Mark, DropPoll
<1>3. SUFFICES ASSUME NEW f \in File, NEW k \in Nat, Live(f), Lacks(f, k)',
                      \A j \in Nat : Lacks(f, j) => AwaitedFrom(f, j)
               PROVE  AwaitedFrom(f, k)
  BY <1>1, <1>2, StepComplete
<1>4. f \in files  BY <1>3 DEF Live
<1>5. CASE AdvanceRead(p) \/ AdvanceClaim(p) \/ DropPoll(p)
  <2>1. UNCHANGED <<replica, pool>>
    BY <1>5 DEF AdvanceRead, AdvanceClaim, DropPoll
  <2>2. pc'[p] \notin {"apply", "mark"} /\ \A q \in Poll : q # p => pc'[q] = pc[q] /\ pos'[q] = pos[q]
    BY <1>0, <1>5 DEF AdvanceRead, AdvanceClaim, DropPoll, Return, Goto
  <2>3. Lacks(f, k)  BY <1>3, <2>1, <2>2 DEF Lacks, replica, pool
  <2> QED  BY <1>3, <2>3
<1>6. CASE ReplayStart(p)
  <2>1. UNCHANGED replica /\ \A q \in Poll : q # p => pc'[q] = pc[q] /\ pos'[q] = pos[q]
    BY <1>0, <1>6 DEF ReplayStart, Dispatch, Return, Goto
  <2>2. UNCHANGED <<target, left, copy>> /\ (job' = job \/ job' = "queued")
    BY <1>6 DEF ReplayStart, Dispatch, pool
  <2>3. \/ pc'[p] = "idle"
        \/ pc'[p] = "apply" /\ pos'[p] = applied + 1 /\ applied # -1
    BY <1>0, <1>6 DEF ReplayStart, Dispatch, Return, Goto, NeedsFullRebuild
  <2>4. Lacks(f, k)
    BY <1>3, <2>1, <2>2, <2>3 DEF Lacks, replica
  <2> QED  BY <1>3, <2>4
<1>7. CASE ApplyOp(p)
  <2>0. pc[p] = "apply" /\ applied' = applied  BY <1>7 DEF ApplyOp
  <2>1. CASE f \in rfiles /\ f \notin rfiles'
    <3>1. wal[pos[p]] # DeleteOf(f)
      <4>1. pos[p] \in 1..Len(wal)  BY <1>0, <2>0, EntryInFeed
      <4> QED  BY <1>3, <4>1 DEF CompleteInv, DeletesFinal
    <3>2. ~CanRead(f)  BY <1>0, <1>7, <2>1, <3>1, EntryTakes
    <3> QED  BY <1>4, <3>2, UnreadableAwaited
  <2>2. CASE f \in rfiles' \/ f \notin rfiles
    <3>1. UNCHANGED <<target, left, copy>> /\ (job' = job \/ job' = "queued")
      BY <1>7 DEF ApplyOp, NextEntry, Dispatch, pool
    <3>2. \A q \in Poll : q # p => pc'[q] = pc[q] /\ pos'[q] = pos[q]
      BY <1>0, <1>7 DEF ApplyOp, NextEntry, Dispatch, Return, Goto
    <3>3. CASE Dispatch(p)
      <4>1. pc'[p] = "idle"  BY <1>0, <3>3 DEF Dispatch, Return, Goto
      <4>2. Lacks(f, k)  BY <1>3, <2>0, <2>2, <3>1, <3>2, <4>1 DEF Lacks
      <4> QED  BY <1>3, <4>2
    <3>4. CASE NextEntry(p)
      <4>1. pos'[p] = pos[p] + 1  BY <1>0, <3>4 DEF NextEntry
      <4>2. Lacks(f, k) \/ (f \notin rfiles' /\ k = pos[p] + 1)
        BY <1>3, <2>0, <2>2, <3>1, <3>2, <4>1 DEF Lacks
      <4>3. ASSUME f \notin rfiles', k = pos[p] + 1
            PROVE  AwaitedFrom(f, k)
        <5>1. PICK j \in Nat : j = pos[p]  BY <1>0
        <5>2. Lacks(f, j)  BY <2>0, <2>2, <4>3, <5>1 DEF Lacks
        <5>3. AwaitedFrom(f, j)  BY <1>3, <5>2
        <5>4. AwaitedFrom(f, j + 1)
          BY <1>0, <1>4, <1>7, <3>4, <4>3, <5>1, <5>3, EntryPassed
        <5> QED  BY <4>3, <5>1, <5>4
      <4> QED  BY <1>3, <4>2, <4>3
    <3> QED  BY <1>7, <3>3, <3>4 DEF ApplyOp
  <2> QED  BY <2>1, <2>2
<1>8. CASE Mark(p)
  <2>1. pc[p] = "mark" /\ applied' = head[p] /\ UNCHANGED <<rfiles, pool>>
    BY <1>8 DEF Mark
  <2>2. \A q \in Poll : pc'[q] \notin {"apply", "mark"}
    BY <1>0, <1>8, ClaimPerPoll, PollMoves DEF Mark, Return, Goto, HoldsClaim, IInv, Places
  <2>3. pos[p] = head[p] + 1  BY <1>0, <2>1 DEF Cursors
  <2>4. Lacks(f, k)
    BY <1>3, <2>1, <2>2, <2>3 DEF Lacks, pool
  <2> QED  BY <1>3, <2>4
<1> QED  BY <1>5, <1>6, <1>7, <1>8 DEF Advance

\* A rebuild loses no file: a file it does not copy was not readable then.
LEMMA PoolComplete ==
    ASSUME CompleteInv, Build \/ BuildFail
    PROVE  CompleteInv'
<1>0. DetailInv /\ IInv  BY DEF CompleteInv, DetailInv
<1>1. DetailInv'  BY <1>0, PoolDetail
<1>2. UNCHANGED <<master, wal, mutators, polls>> /\ (skewed => skewed')
  BY DEF Build, BuildStart, CopyFile, BuildCommit, BuildFail
<1>3. SUFFICES ASSUME ~skewed, ~skewed', NEW f \in File, NEW k \in Nat, Live(f), Lacks(f, k)',
                      \A j \in Nat : Lacks(f, j) => AwaitedFrom(f, j)
               PROVE  AwaitedFrom(f, k)
  BY <1>1, <1>2, StepComplete
<1>4. f \in files  BY <1>3 DEF Live
<1>5. CASE BuildStart \/ BuildFail
  <2>1. UNCHANGED replica /\ (job' = "copying" => left' = File)
    BY <1>5 DEF BuildStart, BuildFail, JobDone
  <2>2. Lacks(f, k)  BY <1>2, <1>3, <2>1 DEF Lacks, replica, polls
  <2> QED  BY <1>3, <2>2
<1>6. ASSUME NEW x \in File, CopyFile(x)
      PROVE  AwaitedFrom(f, k)
  <2>0. job = "copying" /\ UNCHANGED <<replica, job, target>> /\ left' = left \ {x}
    BY <1>6 DEF CopyFile
  <2>1. CASE CanRead(x)
    <3>1. copy'.files = copy.files \cup {x}  BY <1>6, <2>1 DEF CopyFile
    <3>2. Lacks(f, k)  BY <1>2, <1>3, <2>0, <3>1 DEF Lacks, replica, polls
    <3> QED  BY <1>3, <3>2
  <2>2. CASE ~CanRead(x)
    <3>1. copy' = copy  BY <1>6, <2>2 DEF CopyFile
    <3>2. CASE f = x
      BY <1>4, <2>2, <3>2, UnreadableAwaited
    <3>3. CASE f # x
      <4>1. Lacks(f, k)  BY <1>2, <1>3, <2>0, <3>1, <3>3 DEF Lacks, replica, polls
      <4> QED  BY <1>3, <4>1
    <3> QED  BY <3>2, <3>3
  <2> QED  BY <2>1, <2>2
<1>7. CASE BuildCommit
  <2>1. /\ job = "copying" /\ left = {} /\ rfiles' = copy.files
        /\ applied' = target /\ job' = "none"
    BY <1>3, <1>7 DEF BuildCommit, JobDone
  <2>2. \A q \in Poll : pc[q] \notin {"apply", "mark"}
    BY <1>0, <2>1, ClaimPerPoll DEF IInv, HoldsClaim
  <2>3. Lacks(f, k)  BY <1>2, <1>3, <2>1, <2>2 DEF Lacks, polls
  <2> QED  BY <1>3, <2>3
<1> QED  BY <1>5, <1>6, <1>7 DEF Build

LEMMA CompleteInit == Init => CompleteInv
<1> SUFFICES ASSUME Init PROVE CompleteInv  OBVIOUS
<1>1. DetailInv  BY DetailInit
<1>2. Unannounced = {} /\ Len(wal) = 0
  BY DEF Init, Unannounced
<1>3. \A op, k : ~Coming(op, k)
  BY <1>2 DEF Coming
<1>4. DeletesFinal  BY <1>2, <1>3 DEF DeletesFinal
<1>5. \A f, k : ~Lacks(f, k)
  BY DEF Init, Lacks
<1>6. NothingLost  BY <1>5 DEF NothingLost
<1> QED  BY <1>1, <1>4, <1>6 DEF CompleteInv

LEMMA CompleteStep ==
    ASSUME CompleteInv, [Next]_vars
    PROVE  CompleteInv'
<1>1. CASE UNCHANGED vars
  <2>1. DetailInv'  BY DetailStep DEF CompleteInv
  <2>2. UNCHANGED <<master, wal, mutators, skewed, replica, polls, pool>>  BY <1>1 DEF vars
  <2>3. \A f, k : Lacks(f, k)' <=> Lacks(f, k)
    BY <2>2 DEF Lacks, replica, polls, pool
  <2>4. NothingLost'
    BY <2>2, <2>3, StillAwaited DEF CompleteInv, NothingLost
  <2> QED  BY <2>1, <2>2, <2>4, StillAwaited DEF CompleteInv
<1>2. CASE Next
  BY <1>2, MutatorComplete, PollComplete, PoolComplete DEF Next
<1> QED  BY <1>1, <1>2

\* At the head, with no mutation under way, there is nothing left to await.
LEMMA CompleteAtHead == CompleteInv => ReplicaComplete
<1> SUFFICES ASSUME CompleteInv PROVE ReplicaComplete  OBVIOUS
<1>1. RelationsHaveFiles  BY DEF CompleteInv, DetailInv, RowsTogether
<1>2. ASSUME Settled, Replayable, NEW f \in File, CanRead(f), f \notin rfiles
      PROVE  FALSE
  <2>0. Len(wal) \in Nat /\ wal \in Seq(Ops)
    BY LenProperties DEF CompleteInv, DetailInv, IInv, SyncTypes
  <2>1. Unannounced = {}  BY <1>2 DEF Settled, Unannounced
  <2>2. NoNesting
    BY <1>2, <2>1 DEF Replayable, NoNesting, Coming
  <2>3. Live(f)  BY <1>2 DEF Settled, Live, Deleting, CanRead
  <2>4. PICK k \in Nat : k = Len(wal) + 1  BY <2>0
  <2>5. Lacks(f, k)  BY <1>2, <2>0, <2>4 DEF Settled, Lacks
  <2>6. AwaitedFrom(f, k)
    BY <1>2, <2>2, <2>3, <2>5 DEF Replayable, CompleteInv, NothingLost
  <2>7. \A op : ~Coming(op, k)
    BY <2>0, <2>1, <2>4 DEF Coming
  <2>8. f \in files  BY <2>3 DEF Live
  <2> QED  BY <1>2, <2>6, <2>7, <2>8, ReadableByPath DEF AwaitedFrom
<1>3. FilesComplete  BY <1>2 DEF FilesComplete
<1> QED  BY <1>1, <1>3 DEF ReplicaComplete

\* A replica at the head has every file its user may read, and no relation
\* without its file, however commits, announces, replays, dropped requests
\* and rebuilds interleave (advance, replay and build_full of snapshot.rs).
THEOREM ReplicaIsComplete == Spec => []ReplicaComplete
<1>1. CompleteInv /\ [Next]_vars => CompleteInv'  BY CompleteStep
<1> QED  BY <1>1, CompleteInit, CompleteAtHead, PTL DEF Spec
=============================================================================
