---------------------------- MODULE ReplicaMerge ----------------------------
(***************************************************************************)
(* SnapshotManager::build_full (src/src/sync/snapshot.rs): one user's      *)
(* filtered view of the master is compared with the live replica, key by   *)
(* key, and the difference is committed with the coverage marker.          *)
(*                                                                         *)
(* A store is a function from Key to a value or Absent; keys are numbered  *)
(* in their order.  The marker has a variable of its own, as next_data_key *)
(* keeps its key out of the comparison.  The pages of a store are read     *)
(* with a cursor: the last key returned, 0 before the first, End after the *)
(* last.                                                                   *)
(***************************************************************************)
EXTENDS Integers

CONSTANTS
    MaxKey,    \* keys are 1..MaxKey
    Value,     \* row contents
    Absent,    \* no row under this key
    MaxHead    \* bound on the WAL head

Key == 1..MaxKey
End == MaxKey + 1
Store == [Key -> Value \cup {Absent}]
EmptyStore == [k \in Key |-> Absent]

ASSUME MergeAssumption ==
    /\ MaxKey \in Nat
    /\ MaxHead \in Nat
    /\ Absent \notin Value

VARIABLES
    head,      \* WAL head
    replica,   \* the committed rows of the replica prefix
    applied,   \* sync:applied, -1 when there is none
    buildAt,        \* idle, copying, merging, committing
    target,    \* the head the build read
    desired,   \* the scratch store
    a, b,      \* cursors into desired and into the live replica
    staged,    \* the rows as the open transaction sees them
    wrote

mergeVars == <<head, replica, applied, buildAt, target, desired, a, b, staged, wrote>>

\* A build stages rows of the replica's key space and covers a head that the
\* feed has reached.
MergeTypeOK ==
    /\ head \in 0..MaxHead
    /\ replica \in Store /\ desired \in Store /\ staged \in Store
    /\ applied \in -1..head
    /\ buildAt \in {"idle", "copying", "merging", "committing"}
    /\ target \in 0..head
    /\ a \in 0..End /\ b \in 0..End
    /\ wrote \in BOOLEAN

MergeInit ==
    /\ head = 0
    /\ replica = EmptyStore /\ applied = -1
    /\ buildAt = "idle" /\ target = 0 /\ desired = EmptyStore
    /\ a = 0 /\ b = 0 /\ staged = EmptyStore /\ wrote = FALSE

-----------------------------------------------------------------------------
\* KvPages::next: k is the first row of s after cursor c, or End.
IsNext(s, c, k) ==
    \/ c = End /\ k = End
    \/ /\ c < End
       /\ k \in c+1..End
       /\ k \in Key => s[k] # Absent
       /\ \A j \in Key : c < j /\ j < k => s[j] = Absent

\* A mutation of the master reaches the feed.
FeedAppend ==
    /\ head < MaxHead
    /\ head' = head + 1
    /\ UNCHANGED <<replica, applied, buildAt, target, desired, a, b, staged, wrote>>

\* Mutant: the sequence number the next append will get, not the head.
BuildStartAhead ==
    /\ buildAt = "idle"
    /\ buildAt' = "copying"
    /\ target' = head + 1
    /\ UNCHANGED <<head, replica, applied, desired, a, b, staged, wrote>>

\* The head is read before the master is.
BuildStart ==
    /\ buildAt = "idle"
    /\ buildAt' = "copying"
    /\ target' = head
    /\ UNCHANGED <<head, replica, applied, desired, a, b, staged, wrote>>

\* copy_filtered reads the master row by row while it changes, so the copy
\* may be any store.  The writer then sees the committed replica.
CopyFiltered ==
    /\ buildAt = "copying"
    /\ buildAt' = "merging"
    /\ desired' \in Store
    /\ a' = 0 /\ b' = 0
    /\ staged' = replica /\ wrote' = FALSE
    /\ UNCHANGED <<head, replica, applied, target>>

Put(k) ==
    /\ staged' = [staged EXCEPT ![k] = desired[k]]
    /\ wrote' = TRUE

\* Mutant: a live key with no partner is kept.
CompareKeepsLive(x, y) ==
    \/ x < y /\ Put(x)
    \/ y < x /\ UNCHANGED <<staged, wrote>>
    \/ x = y /\ desired[x] # replica[x] /\ Put(x)
    \/ x = y /\ desired[x] = replica[x] /\ UNCHANGED <<staged, wrote>>

\* The arms of the match on one row of each side; a side that has ended
\* compares as greater than every key.
Compare(x, y) ==
    \/ x < y /\ Put(x)
    \/ y < x /\ staged' = [staged EXCEPT ![y] = Absent] /\ wrote' = TRUE
    \/ x = y /\ desired[x] # replica[x] /\ Put(x)
    \/ x = y /\ desired[x] = replica[x] /\ UNCHANGED <<staged, wrote>>

\* One turn of the loop takes the next row of BOTH sides, whichever arm runs.
MergeStep ==
    /\ buildAt = "merging"
    /\ \E x, y \in 1..End :
        /\ IsNext(desired, a, x) /\ IsNext(replica, b, y)
        /\ a' = x /\ b' = y
        /\ \/ /\ x = End /\ y = End
              /\ buildAt' = "committing"
              /\ UNCHANGED <<staged, wrote>>
           \/ /\ x # End \/ y # End
              /\ Compare(x, y)
              /\ UNCHANGED buildAt
    /\ UNCHANGED <<head, replica, applied, target, desired>>

\* One transaction holds the rows and the marker.  With nothing to write and
\* the marker already there, it is rolled back.
Commit ==
    /\ buildAt = "committing"
    /\ buildAt' = "idle"
    /\ IF ~wrote /\ applied = target
       THEN UNCHANGED <<replica, applied>>
       ELSE replica' = staged /\ applied' = target
    /\ UNCHANGED <<head, target, desired, a, b, staged, wrote>>

\* A store error, an undecodable master row, or a crash: nothing is committed.
Abandon ==
    /\ buildAt # "idle"
    /\ buildAt' = "idle"
    /\ UNCHANGED <<head, replica, applied, target, desired, a, b, staged, wrote>>

MergeNext == FeedAppend \/ BuildStart \/ CopyFiltered \/ MergeStep \/ Commit \/ Abandon

MergeSpec == MergeInit /\ [][MergeNext]_mergeVars

-----------------------------------------------------------------------------
(* Properties *)

Rows(s) == {k \in Key : s[k] # Absent}

\* The rows of s come first among those of t, key by key.
Leads(s, t) ==
    Rows(s) \subseteq Rows(t) /\ \A j \in Rows(s), k \in Rows(t) \ Rows(s) : j < k

\* "The loop performs a merge join": what a build is about to commit is the
\* user's filtered view, whatever the replica held before.
RebuildExact ==
    buildAt = "committing" => staged = desired

\* "An empty diff commits nothing": when no arm of the loop wrote, the
\* replica already is the filtered view.
EmptyDiffIsExact ==
    buildAt = "committing" /\ ~wrote => replica = desired

\* A build whose keys line up with the replica's from the first key on (a
\* first build, changed values, rows added or dropped at the end) commits
\* the filtered view.
ExactWhenAligned ==
    buildAt = "committing" /\ (Leads(desired, replica) \/ Leads(replica, desired)) =>
        staged = desired
=============================================================================
