----------------------------- MODULE ReplicaSync -----------------------------
(***************************************************************************)
(* One user's replica (src/src/sync/snapshot.rs) against the master it     *)
(* filters: the mutations of FsEngine and PolicyEngine with their          *)
(* announces, the feed (src/src/sync/wal.rs), SnapshotManager::advance and *)
(* replay run by polls, and the rebuilds run by the pool.                  *)
(*                                                                         *)
(* A mutation and its announce are separate steps, so the feed's order may *)
(* differ from the commit order.  Applying one entry is one step; it reads *)
(* the master as it is then.  Rules are read rules on rows, the only ones  *)
(* a replica depends on.  A mutation runs to its end: an announce that     *)
(* fails after the commit is outside this module.                          *)
(***************************************************************************)
EXTENDS Integers, Sequences, FiniteSets

CONSTANTS
    File, Row, Group,
    User,        \* the replica's owner
    Mine,        \* the files User owns
    None,
    Mutator,     \* concurrent mutations of the master
    Poll,        \* concurrent POST /sync/sync requests of User
    MaxOps,      \* bound on the feed
    MaxDrops,    \* bound on dropped requests and failed rebuilds
    MaxReplay,   \* MAX_REPLAY_OPS
    MaxFanout,   \* MAX_POLICY_REPLAY_FILES
    Masters,     \* the masters a run starts from
    Edges        \* the memberships a run assigns

Subject == {User} \cup Group
Ops == [kind : {"create", "delete"}, file : File]
        \cup [kind : {"attach", "detach"}, row : Row, file : File]
        \cup [kind : {"rule_add", "rule_remove"}, sub : Subject, row : Row]
        \cup [kind : {"group_add", "group_remove"}, user : Subject, group : Group]
        \cup [kind : {"group_delete"}, group : Group]

ASSUME SyncAssumption ==
    /\ Mine \subseteq File /\ IsFiniteSet(Mutator)
    /\ MaxOps \in Nat /\ MaxDrops \in Nat /\ MaxReplay \in Nat /\ MaxFanout \in Nat
    /\ Edges \subseteq Subject \X Group
    /\ \A x \in Masters :
        /\ x.files \subseteq File /\ x.rel \subseteq Row \X x.files
        /\ x.rules \subseteq Subject \X Row /\ x.links \subseteq Subject \X Group
    /\ User \notin Group
    /\ None \notin Ops

VARIABLES
    files, used,     \* master file rows, and the ids ever created
    rel,             \* master relations
    rules, links,    \* policy: read rules <<subject, row>>, memberships
    wal,             \* the feed
    todo, stage,     \* per mutator: its op, and what is left of it
    rfiles, rrel,    \* the replica's rows
    applied,         \* sync:applied, -1 when there is none
    claimed,         \* User is in BuildQueue.inflight
    pc, head, pos,   \* per poll: place, head it read, next entry
    job, target, left, copy,   \* the pool's worker on User's build
    skewed,          \* a rebuild ran over other rows: rfiles and rrel are unknown
    drops

master == <<files, used, rel, rules, links>>
mutators == <<todo, stage>>
replica == <<rfiles, rrel, applied>>
polls == <<pc, head, pos>>
pool == <<job, target, left, copy>>
vars == <<master, wal, mutators, replica, claimed, polls, pool, skewed, drops>>

\* A poll only ever applies entries that the feed has, and the marker never
\* covers more than the feed.
TypeOK ==
    /\ files \subseteq used /\ used \subseteq File
    /\ rel \subseteq Row \X File
    /\ rules \subseteq Subject \X Row
    /\ links \subseteq Subject \X Group
    /\ wal \in Seq(Ops) /\ Len(wal) <= MaxOps
    /\ todo \in [Mutator -> Ops \cup {None}]
    /\ stage \in [Mutator -> {"idle", "store", "announce", "row"}]
    /\ rfiles \subseteq File /\ rrel \subseteq Row \X File
    /\ applied \in -1..Len(wal)
    /\ claimed \in BOOLEAN
    /\ pc \in [Poll -> {"idle", "claim", "replay", "apply", "mark"}]
    /\ head \in [Poll -> 0..Len(wal)]
    /\ pos \in [Poll -> 1..MaxOps + 1]
    /\ job \in {"none", "queued", "copying"}
    /\ left \subseteq File
    /\ target \in 0..Len(wal)
    /\ copy \in [files : SUBSET File, rel : SUBSET (Row \X File)]
    /\ skewed \in BOOLEAN
    /\ drops \in 0..MaxDrops

Nothing == [files |-> {}, rel |-> {}]

\* A master, with a feed that starts at zero and no replica yet.
Init ==
    /\ \E x \in Masters :
        /\ files = x.files /\ used = x.files /\ rel = x.rel
        /\ rules = x.rules /\ links = x.links
    /\ wal = <<>>
    /\ todo = [m \in Mutator |-> None] /\ stage = [m \in Mutator |-> "idle"]
    /\ rfiles = {} /\ rrel = {} /\ applied = -1
    /\ claimed = FALSE
    /\ pc = [p \in Poll |-> "idle"]
    /\ head = [p \in Poll |-> 0] /\ pos = [p \in Poll |-> 1]
    /\ job = "none" /\ target = 0 /\ left = {} /\ copy = Nothing
    /\ skewed = FALSE /\ drops = 0

-----------------------------------------------------------------------------
(* What User may see *)

\* implicit_groups: the least set closed under membership.
ImplicitGroups(x) ==
    {g \in Group :
        \A S \in SUBSET Group :
            (/\ \A h \in Group : <<x, h>> \in links => h \in S
             /\ \A h \in S, k \in Group : <<h, k>> \in links => k \in S)
            => g \in S}

AuthorizeRow(r) == \E s \in {User} \cup ImplicitGroups(User) : <<s, r>> \in rules
RowsForFile(f) == {r \in Row : <<r, f>> \in rel}
VisibleRows(f) == {r \in RowsForFile(f) : AuthorizeRow(r)}
CanRead(f) == f \in files /\ (f \in Mine \/ VisibleRows(f) # {})


-----------------------------------------------------------------------------
(* Mutations of the master.  A policy change that changes nothing is not   *)
(* announced and left out; an attach or a detach is always announced.      *)

\* The step that comes first: every mutation but a delete commits and has
\* its announce left; attach has looked for the file, and a delete is to be
\* announced.
Began(m, op, where) ==
    /\ stage[m] = "idle" /\ Len(wal) + Cardinality({n \in Mutator : stage[n] # "idle"}) < MaxOps
    /\ todo' = [todo EXCEPT ![m] = op]
    /\ stage' = [stage EXCEPT ![m] = where]
    /\ UNCHANGED <<wal, replica, claimed, polls, pool, skewed, drops>>

CreateFile(m, f) ==
    /\ f \notin used
    /\ files' = files \cup {f} /\ used' = used \cup {f}
    /\ UNCHANGED <<rel, rules, links>>
    /\ Began(m, [kind |-> "create", file |-> f], "announce")

DeleteFile(m, f) ==
    /\ f \in files
    /\ UNCHANGED master
    /\ Began(m, [kind |-> "delete", file |-> f], "announce")

AttachCheck(m, r, f) ==
    /\ f \in files
    /\ UNCHANGED master
    /\ Began(m, [kind |-> "attach", row |-> r, file |-> f], "store")

AttachStore(m) ==
    /\ stage[m] = "store"
    /\ rel' = rel \cup {<<todo[m].row, todo[m].file>>}
    /\ stage' = [stage EXCEPT ![m] = "announce"]
    /\ UNCHANGED <<files, used, rules, links, wal, todo, replica, claimed, polls, pool, skewed, drops>>

\* The relations after the store's transaction; no relation is no error.
Detached(r, f) == rel \ {<<r, f>>}

Detach(m, r, f) ==
    /\ rel' = Detached(r, f)
    /\ UNCHANGED <<files, used, rules, links>>
    /\ Began(m, [kind |-> "detach", row |-> r, file |-> f], "announce")

AddRule(m, s, r) ==
    /\ <<s, r>> \notin rules
    /\ rules' = rules \cup {<<s, r>>}
    /\ UNCHANGED <<files, used, rel, links>>
    /\ Began(m, [kind |-> "rule_add", sub |-> s, row |-> r], "announce")

RemoveRule(m, s, r) ==
    /\ <<s, r>> \in rules
    /\ rules' = rules \ {<<s, r>>}
    /\ UNCHANGED <<files, used, rel, links>>
    /\ Began(m, [kind |-> "rule_remove", sub |-> s, row |-> r], "announce")

AssignGroup(m, x, g) ==
    /\ <<x, g>> \in Edges \ links
    /\ links' = links \cup {<<x, g>>}
    /\ UNCHANGED <<files, used, rel, rules>>
    /\ Began(m, [kind |-> "group_add", user |-> x, group |-> g], "announce")

RemoveFromGroup(m, x, g) ==
    /\ <<x, g>> \in links
    /\ links' = links \ {<<x, g>>}
    /\ UNCHANGED <<files, used, rel, rules>>
    /\ Began(m, [kind |-> "group_remove", user |-> x, group |-> g], "announce")

DeleteGroup(m, g) ==
    /\ \E x \in Subject : <<x, g>> \in links
    /\ links' = {l \in links : l[2] # g}
    /\ UNCHANGED <<files, used, rel, rules>>
    /\ Began(m, [kind |-> "group_delete", group |-> g], "announce")

\* Wal::append: entry and head in one transaction, under the append lock.
Announce(m) ==
    /\ stage[m] = "announce"
    /\ wal' = Append(wal, todo[m])
    /\ IF todo[m].kind = "delete"
       THEN stage' = [stage EXCEPT ![m] = "row"] /\ UNCHANGED todo
       ELSE stage' = [stage EXCEPT ![m] = "idle"] /\ todo' = [todo EXCEPT ![m] = None]
    /\ UNCHANGED <<master, replica, claimed, polls, pool, skewed, drops>>

\* FsStore::delete_file takes the relations with the row.
DeleteRow(m) ==
    /\ stage[m] = "row"
    /\ files' = files \ {todo[m].file}
    /\ rel' = {x \in rel : x[2] # todo[m].file}
    /\ stage' = [stage EXCEPT ![m] = "idle"]
    /\ todo' = [todo EXCEPT ![m] = None]
    /\ UNCHANGED <<used, rules, links, wal, replica, claimed, polls, pool, skewed, drops>>

Mutate(m) ==
    \/ \E f \in File : CreateFile(m, f) \/ DeleteFile(m, f)
    \/ \E r \in Row, f \in File : AttachCheck(m, r, f) \/ Detach(m, r, f)
    \/ \E s \in Subject, r \in Row : AddRule(m, s, r) \/ RemoveRule(m, s, r)
    \/ \E x \in Subject, g \in Group : AssignGroup(m, x, g) \/ RemoveFromGroup(m, x, g)
    \/ \E g \in Group : DeleteGroup(m, g)

Finish(m) == AttachStore(m) \/ Announce(m) \/ DeleteRow(m)

-----------------------------------------------------------------------------
(* SnapshotManager::advance, run by a poll *)

Goto(p, label) == pc' = [pc EXCEPT ![p] = label]
Return(p) ==
    /\ Goto(p, "idle")
    /\ head' = [head EXCEPT ![p] = 0] /\ pos' = [pos EXCEPT ![p] = 1]
CaughtUp(h) == applied = h

\* Reads head and marker, before any claim: both may be old when used.
AdvanceRead(p) ==
    /\ pc[p] = "idle" /\ ~CaughtUp(Len(wal))
    /\ head' = [head EXCEPT ![p] = Len(wal)]
    /\ Goto(p, "claim")
    /\ UNCHANGED <<master, wal, mutators, replica, claimed, pos, pool, skewed, drops>>

\* No claim: somebody is advancing this user, and the answer is pending.
AdvanceClaim(p) ==
    /\ pc[p] = "claim"
    /\ claimed' = TRUE
    /\ IF claimed THEN Return(p) ELSE Goto(p, "replay") /\ UNCHANGED <<head, pos>>
    /\ UNCHANGED <<master, wal, mutators, replica, pool, skewed, drops>>

\* The claim travels with the job.
Dispatch(p) == job' = "queued" /\ Return(p) /\ UNCHANGED <<claimed, target, left, copy>>

NeedsFullRebuild(p) == applied = -1 \/ applied > head[p] \/ head[p] - applied > MaxReplay

\* Variant: a poll with an old head writes that head as the marker.
ReplayStartRewinds(p) ==
    /\ pc[p] = "replay"
    /\ \/ /\ applied = -1 \/ head[p] - applied > MaxReplay
          /\ Dispatch(p) /\ UNCHANGED applied
       \/ /\ applied # -1 /\ applied >= head[p]
          /\ applied' = head[p]
          /\ claimed' = FALSE /\ Return(p) /\ UNCHANGED pool
       \/ /\ applied # -1 /\ head[p] - applied \in 1..MaxReplay
          /\ pos' = [pos EXCEPT ![p] = applied + 1]
          /\ Goto(p, "apply")
          /\ UNCHANGED <<applied, claimed, head, pool>>
    /\ UNCHANGED <<master, wal, mutators, rfiles, rrel, skewed, drops>>

ReplayStart(p) ==
    /\ pc[p] = "replay"
    /\ \/ NeedsFullRebuild(p) /\ Dispatch(p)
       \/ CaughtUp(head[p]) /\ claimed' = FALSE /\ Return(p) /\ UNCHANGED pool
       \/ /\ ~NeedsFullRebuild(p) /\ ~CaughtUp(head[p])
          /\ pos' = [pos EXCEPT ![p] = applied + 1]
          /\ Goto(p, "apply")
          /\ UNCHANGED <<claimed, head, pool>>
    /\ UNCHANGED <<master, wal, mutators, replica, skewed, drops>>

\* The rows that rules of the subject itself grant.
RulesForSubject(s) == {r \in Row : <<s, r>> \in rules}

\* Variant: the rules of g itself only.
ReadRowsDirect(g) == RulesForSubject(g)

\* read_rows_for_group: rows that g can read, at any depth.
ReadRowsForGroup(g) == UNION {RulesForSubject(s) : s \in {g} \cup ImplicitGroups(g)}

\* The rows whose files a policy entry makes the replay look at again.
Affected(op) ==
    CASE op.kind \in {"rule_add", "rule_remove"} ->
            {r \in {op.row} : op.sub \in {User} \cup ImplicitGroups(User)}
      [] op.kind \in {"group_add", "group_remove"} ->
            IF op.user = User THEN ReadRowsForGroup(op.group) ELSE {}
      [] op.kind = "group_delete" -> ReadRowsForGroup(op.group)
      [] OTHER -> {}

\* files_for_row, for each of these rows.
FilesForRows(rows) == {x \in rel : x[1] \in rows}
Fanout(rows) == Cardinality(FilesForRows(rows))

\* resync_file for every file on these rows.
Resync(rows) ==
    LET onRows == FilesForRows(rows)
        touched == {x[2] : x \in onRows}
    IN  /\ rfiles' = {f \in rfiles \cup touched : f \in touched => CanRead(f)}
        /\ rrel' = {x \in rrel \cup onRows :
                        /\ x[2] \in touched => CanRead(x[2])
                        /\ x \in onRows => AuthorizeRow(x[1])}

\* The file entries of apply_op.
ApplyFile(op) ==
    \/ /\ op.kind = "create"
       /\ rfiles' = rfiles \cup {f \in {op.file} : CanRead(f)} /\ UNCHANGED rrel
    \/ /\ op.kind = "delete"
       /\ rfiles' = rfiles \ {op.file} /\ rrel' = {x \in rrel : x[2] # op.file}
    \/ /\ op.kind = "attach"
       /\ rfiles' = rfiles \cup {f \in {op.file} : CanRead(f)}
       /\ rrel' = rrel \cup {x \in {<<op.row, op.file>>} : CanRead(op.file) /\ AuthorizeRow(op.row)}
    \/ /\ op.kind = "detach"
       /\ rrel' = rrel \ {<<op.row, op.file>>} /\ UNCHANGED rfiles

FileKinds == {"create", "delete", "attach", "detach"}

NextEntry(p) ==
    /\ pos' = [pos EXCEPT ![p] = @ + 1]
    /\ Goto(p, IF pos[p] = head[p] THEN "mark" ELSE "apply")
    /\ UNCHANGED <<claimed, head, pool>>

\* A fan-out over the limit gives up with some of the rows done already.
ApplyOp(p) ==
    LET op == wal[pos[p]]
        rows == Affected(op)
    IN  /\ pc[p] = "apply"
        /\ \/ op.kind \in FileKinds /\ ApplyFile(op) /\ NextEntry(p)
           \/ op.kind \notin FileKinds /\ Fanout(rows) <= MaxFanout /\ Resync(rows) /\ NextEntry(p)
           \/ /\ op.kind \notin FileKinds /\ Fanout(rows) > MaxFanout
              /\ \E done \in SUBSET rows : Fanout(done) <= MaxFanout /\ Resync(done)
              /\ Dispatch(p)
        /\ UNCHANGED <<master, wal, mutators, applied, skewed, drops>>

Mark(p) ==
    /\ pc[p] = "mark"
    /\ applied' = head[p]
    /\ claimed' = FALSE
    /\ Return(p)
    /\ UNCHANGED <<master, wal, mutators, rfiles, rrel, pool, skewed, drops>>

\* Variant: the claim is released by hand, and not when the future is dropped.
DropPollLeaks(p) ==
    /\ pc[p] # "idle" /\ drops < MaxDrops
    /\ drops' = drops + 1
    /\ Return(p)
    /\ UNCHANGED <<master, wal, mutators, replica, claimed, pool, skewed>>

\* The client goes away, or the store fails: Drop for BuildClaim.
DropPoll(p) ==
    /\ pc[p] # "idle" /\ drops < MaxDrops
    /\ drops' = drops + 1
    /\ claimed' = (claimed /\ pc[p] = "claim")
    /\ Return(p)
    /\ UNCHANGED <<master, wal, mutators, replica, pool, skewed>>

Advance(p) == AdvanceRead(p) \/ AdvanceClaim(p) \/ ReplayStart(p) \/ ApplyOp(p) \/ Mark(p)

-----------------------------------------------------------------------------
(* BuildPool: build_full *)

BuildStart ==
    /\ job = "queued"
    /\ job' = "copying" /\ target' = Len(wal) /\ left' = File /\ copy' = Nothing
    /\ UNCHANGED <<master, wal, mutators, replica, claimed, polls, skewed, drops>>

\* copy_filtered judges one file at a time, against a master that moves.
\* The walk over the master's files may come to f next.
NextFile(f) == f \in left

CopyFile(f) ==
    /\ job = "copying" /\ NextFile(f)
    /\ left' = left \ {f}
    /\ copy' = IF CanRead(f)
               THEN [files |-> copy.files \cup {f},
                     rel |-> copy.rel \cup {<<r, f>> : r \in VisibleRows(f)}]
               ELSE copy
    /\ UNCHANGED <<master, wal, mutators, replica, claimed, polls, job, target, skewed, drops>>

\* The claim goes with the job.
JobDone ==
    /\ claimed' = FALSE
    /\ job' = "none" /\ target' = 0 /\ left' = {} /\ copy' = Nothing

\* The diff and the marker in one commit.  Over a replica that is not empty
\* and differs from the copy the merge loop may keep or drop any row (module
\* ReplicaMerge): from then on only the marker is tracked.
BuildCommit ==
    /\ job = "copying" /\ left = {}
    /\ LET exact == ~skewed /\ [files |-> rfiles, rel |-> rrel] \in {Nothing, copy}
       IN  \/ exact /\ rfiles' = copy.files /\ rrel' = copy.rel /\ UNCHANGED skewed
           \/ ~exact /\ rfiles' = {} /\ rrel' = {} /\ skewed' = TRUE
    /\ applied' = target
    /\ JobDone
    /\ UNCHANGED <<master, wal, mutators, polls, drops>>

BuildFail ==
    /\ job # "none" /\ drops < MaxDrops
    /\ drops' = drops + 1
    /\ JobDone
    /\ UNCHANGED <<master, wal, mutators, replica, polls, skewed>>

Build == BuildStart \/ (\E f \in File : CopyFile(f)) \/ BuildCommit

-----------------------------------------------------------------------------
Next ==
    \/ \E m \in Mutator : Mutate(m) \/ Finish(m)
    \/ \E p \in Poll : Advance(p) \/ DropPoll(p)
    \/ Build \/ BuildFail

\* Mutations end, clients keep polling, and the pool works off its queue.
Fairness ==
    /\ \A m \in Mutator : WF_vars(Finish(m))
    /\ \A p \in Poll : WF_vars(Advance(p))
    /\ WF_vars(Build)

Spec == Init /\ [][Next]_vars
FairSpec == Spec /\ Fairness

-----------------------------------------------------------------------------
(* Properties *)

Settled == (\A m \in Mutator : stage[m] = "idle") /\ applied = Len(wal)

\* The merge loop has not run over a stale replica, and no group was put
\* into another one (apply_membership_op passes such an entry by).
Replayable ==
    /\ ~skewed
    /\ \A i \in 1..Len(wal) : wal[i].kind = "group_add" => wal[i].user = User

\* A replica whose marker is at the head has every file its user may read:
\* no interleaving of commits, announces, replays, dropped requests and
\* rebuilds lets a grant slip between a scan and the entries after it.
FilesComplete == Settled /\ Replayable => \A f \in File : CanRead(f) => f \in rfiles

\* No relation of the replica names a file the replica does not have: the
\* entries and the resyncs keep the two kinds of rows together.
RelationsHaveFiles == ~skewed => \A x \in rrel : x[2] \in rfiles

\* User's slot in the build queue is taken exactly while one poll replays or
\* one job is queued or running, so nobody is turned away for ever and no
\* two of them write the replica at once.
Replaying == {p \in Poll : pc[p] \in {"replay", "apply", "mark"}}
ClaimHasHolder ==
    /\ claimed <=> (Replaying # {} \/ job # "none")
    /\ \A p, q \in Replaying : p = q
    /\ Replaying # {} => job = "none"

\* sync:applied never goes back, also when a poll replays with a head it
\* read before others advanced the replica.
MarkerMonotone == [][applied' >= applied]_vars

\* The replica catches up with every entry of the feed, although requests
\* are dropped and rebuilds fail: no path leaks the claim.
CatchesUp == \A n \in 1..MaxOps : (Len(wal) >= n) ~> (applied >= n)

\* The rows of a replica at the head: every file its user may read, and no
\* relation without its file.
ReplicaComplete == FilesComplete /\ RelationsHaveFiles
=============================================================================
