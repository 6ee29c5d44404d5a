# Verification of rust-api

TLA+ models of the parts of this service whose correctness depends on the order
in which things happen: the single-writer lease and the life of a process around
it, the upload engine with its session locks and its garbage collector, access to
committed files, the per-user replicas that are kept up to date from a change feed
and the routes that serve them, the policy store, the login session with its key
cache, the limits, the capability tokens, and the job queue with its workers. TLC
checks the models on small instances; TLAPS proves the safety properties of all parts
for every size.

Source paths below are relative to `src/` of the repository (`src/src/` seen from
the directory that holds this project).

## 1. The system

| Part | State | Operations | What is hard about it |
|---|---|---|---|
| Writer lease (`lease.rs`) | one lease object per prefix; per process its record and a `lost` flag | `acquire`, `renew` (task), `release`, guard drop | claims race; a fetch and the write after it are two requests; holders die |
| Store epochs, fencing (`fencing.rs`, `main.rs`) | writer epoch per oxkv store; a process-wide latch; `/ready` | open a store, write, report readiness | a second writer silently fences the first out |
| Session locks (`fs/mod.rs`) | map session → counted entry with a Tokio mutex | claim, wait, enter, leave, drop | futures are dropped at any await; entry removal races new claims |
| Upload engine (`fs/mod.rs`, `fs/store.rs`, `fs/object_store.rs`) | session row, multipart row, file row, S3 object and parts, in-memory multipart table | `init_upload`, `upload_part`, `complete_upload`, `cancel_upload`, `delete_file` | several stores without a common transaction; restarts lose the table; retries |
| Garbage collector (`fs/gc.rs`) | none of its own: lists taken at the start of a sweep | session, file and orphan-byte passes | acts on stale lists while clients go on |
| Relations (`fs/relation.rs`, `fs/store.rs`) | row ↔ file relations with reference counts | `attach`, `detach` | counts read and acted on without a lock |
| Feed (`sync/wal.rs`, `records.rs`) | ordered entries and a head | `append`, `range`, `head` | appended after the commit it announces |
| Replica manager (`sync/snapshot.rs`) | per user: rows and coverage marker in a store of its own; a set of users in flight and a job queue | `advance`, `replay`, `build_full`, pool | replays, rebuilds, mutations and disconnecting clients at once |
| Job queue (`queue/`) | job records with leases | `enqueue`, `reserve`, `ack`, `nack`, `extend_lease`, sweep, worker | leases expire under a working worker; read and write are separate |
| Policy (`policy/`) | casbin rules and memberships, in memory and in a store of their own | rule and group changes, `authorize`, superadmin claim, import | store, then memory, then announcement; several writes per claim; nested groups |
| Identity (`oidc/`, `http/middleware/jw*.rs`) | key cache; cookies of a browser; tokens | login, callback, refresh, logout, verify | answers overtake each other; keys rotate; refresh tokens work once |
| Limits (`limits.rs`) | token buckets with an atomic sweep counter; a semaphore | take, sweep, make room, acquire | the counter is read and written in two steps |
| Sync routes (`sync/route.rs`) | validators and cache policies | status, sync, object | a 304 that is not true; a body cached for a year |
| Capability tokens, configuration (`fs/token.rs`, `config.rs`) | current and previous key; file and environment | load, mint, verify | rotation over restarts |
| Process life (`main.rs`, `http/mod.rs`, `reactive.rs`, `http/health.rs`) | what is claimed, opened, spawned, cancelled | start, serve, drain, release, probe | the order of all of it |
| The rest (`http/` middleware, `telemetry.rs`, `audit.rs`, `retry.rs`, `docs.rs`) | none that matters | plumbing | |

How they meet. `serve` (`main.rs`) takes the lease first and then opens the
policy, file and feed stores, each of which takes a writer epoch. Every
mutation of `FsEngine` and `PolicyEngine` commits to its own store and then
appends an entry to the feed (a file deletion appends first). A client polls
`POST /sync/sync`; `advance` replays the entries its replica has not seen, or
queues a full rebuild for the pool. The garbage collector shares the session
locks and the stores with the upload handlers.

What makes each part correct: a prefix has one writer, and a writer that lost
it says so; a session's rows are changed by one task at a time; a committed file
has its bytes, exactly as uploaded, and will reach the feed; abandoned uploads
are reclaimed and leave nothing behind; a replica whose marker is at the head
has what its user may read; a cached answer is a true one; the policy in memory is the
policy in the store, and whoever claims it first can use it; a session that was
established stays so; a job is not lost.

## 2. Modules

| Module | Models | Proofs | Instances |
|---|---|---|---|
| `WriterLease` | `lease.rs`, `fencing.rs`, the lease part of `main.rs` | `WriterLeaseProofs` | `MCWriterLease` |
| `SessionLocks` | `SessionLocks`, `SessionLock`, `SessionEntry` in `fs/mod.rs` | `ServicesProofs` | `MCServices` |
| `KeyedMutex` | what the handlers rely on: one mutex per session | | |
| `FsUpload` | one upload through `fs/mod.rs`, `fs/store.rs`, `fs/object_store.rs`, `fs/gc.rs` | `FsUploadProofs` | `MCFsUpload`, `MCFilePlane` |
| `PartIntake` | upload requests, part lengths and bodies: `fs/model.rs`, `upload_part` | `FilePlaneProofs` | `MCFilePlane` |
| `FileAccess` | a committed file, its rows and its readers: `fs/mod.rs`, `fs/route.rs`, `fs/store.rs`, file pass of `fs/gc.rs` | `FilePlaneProofs` | `MCFilePlane` |
| `ReplicaMerge` | the diff of `build_full`, row by row | `ControlPlaneProofs` | `MCReplicaMerge` |
| `ReplicaSync` | one user's replica against the moving master: mutations, feed, `advance`, `replay`, the pool | `ReplicaSyncProofs` | `MCReplicaSync` |
| `JobQueue` | `queue.rs`, both backends `queue/memory.rs` and `queue/durable.rs`, `queue/worker.rs` | `JobQueueProofs` | `MCJobQueue` |
| `SyncServe` | `sync/route.rs`, the download gate of `limits.rs` | `DataPlaneProofs` | `MCDataPlane` |
| `PolicyStore` | `policy/mod.rs`, `policy/adapter.rs`, `policy/route.rs`, `policy/setup.rs`, `policy/admin.rs` | `DataPlaneProofs` | `MCDataPlane` |
| `RateLimits` | the token buckets of `limits.rs` | `DataPlaneProofs` | `MCDataPlane` |
| `CapabilityTokens` | `config.rs`, `fs/token.rs`, `resolve_token_keys` | `DataPlaneProofs` | `MCDataPlane` |
| `JwksCache` | `http/middleware/jwks.rs` | `ServicesProofs` | `MCJwksCache`, `MCServices` |
| `AuthSession` | `oidc/`, `http/middleware/jwt.rs`, `bearer_token.rs`, over `JwksCache` | `ControlPlaneProofs` | `MCAuthSession`, `MCControlPlane` |
| `ServeLife` | `main.rs`, `http/mod.rs`, `reactive.rs`, `db.rs` | `ServicesProofs` | `MCServices` |
| `HealthProbe` | `http/health.rs` | `ServicesProofs` (types) | `MCServices` |

Modules lean on each other where the code does. `SessionLocks` implements `KeyedMutex`
(`ImplementsMutex`), which justifies the single `lock` variable of `FsUpload`. `ReplicaMerge`
justifies the two outcomes of `BuildCommit` in `ReplicaSync`. `AuthSession` extends
`JwksCache`: every request asks the cache. `ServeLife` takes the lease as `WriterLease`
shows it to be; `SyncServe` takes the replica as something that advances, which is
`ReplicaSync`; the feed entries of `FileAccess` and `PolicyStore` are replayed there.

Components that share no state are checked side by side: `MCControlPlane`, `MCServices`,
`MCFilePlane` and `MCDataPlane` run one of their components in each behaviour and leave
the others at their initial state, so one run explores the union of the components'
state graphs, never their product.

### WriterLease

`object` is the lease object, `record`, `lost` and `pc` are a process's memory,
`owner[s]` says who opened store `s` last, `fenced` is the latch. Each request to
the object store is an action: `AcquireStart` reads the clock, `AcquireCreate` is
the create-if-absent, `AcquireFetch` the read that judges the record found,
`TakeOver` the compare-and-set on it; `RenewFetch` and `RenewPut`, `ReleaseFetch`
and `ReleaseDelete` are the two halves of `renew` and `release`. `Faults` names the
requests that may fail. `BuildStore` opens the next store, `StoreWrite` is a write
that meets the epoch, `OutsiderBuilds` a writer that did not take the lease (a
command-line run with another configuration). Processes crash and come back.

`Timely` restricts the clock: it does not pass the end of a record whose owner
still believes in it. `PromptStart` says that a claim fetches in the second in
which it read its clock.

### SessionLocks

`map` is the table, `claims` the counters, `holder` the mutexes; `Entry` are heap
addresses, which are reused. `Register` is the critical section of
`SessionLocks::acquire`, `Enter` and `Leave` the Tokio mutex, `Abandon` a future
dropped while it waits, `DropClaim` the `Drop` of `SessionLock`.

### FsUpload

One file id. `session`, `mrow` and `file` are the rows, `states` the multipart table
in memory, `mp` and `bytes` what is in the bucket, `feed` the last entry announced.
A handler is cut at each await whose result another task can see. `Fail` ends a
handler between any two steps (an error, or a dropped request); `Restart` empties
`states` and ends every handler. The sweep works on `sawSession` and `sawFile`, its
lists from the start of the sweep. `total` is the number of parts that the request
fixed. Content of a part is a tag, so that a re-upload
of a part is a different content.

### ReplicaMerge

A store is a function from ordered keys to values. `MergeStep` takes the next row of
both sides, as the loop does, and `Compare` is its `match`. `Commit` writes rows and
marker.

### ReplicaSync

`files`, `rel`, `rules` and `links` are the master, `wal` the feed, `rfiles`, `rrel` and
`applied` the replica. A mutator commits and announces in separate steps
(`AttachCheck`, `AttachStore`, `Announce`; a deletion announces and then removes the
row). A poll goes through `AdvanceRead`, `AdvanceClaim`, `ReplayStart`, one `ApplyOp`
per entry and `Mark`; `DropPoll` ends it anywhere. The pool runs `BuildStart`, one
`CopyFile` per file, and `BuildCommit`, or `BuildFail`. `claimed` is the user's entry in
`BuildQueue::inflight`. `Affected` is what the three policy arms of `apply_op` look at
again, `Resync` is `resync_file` on all of it.

When a rebuild commits over a replica that is neither empty nor equal to the copy,
the merge loop may go wrong (section 6); the model then stops tracking the rows and
sets `skewed`. The row properties are about replicas that are not skewed.

### JobQueue

`rec` and `idem` are the store. An operation of `MemoryQueue` is one action (it holds one
mutex); an operation of `DurableQueue` is one action per lock it takes, with what it
read in between kept in `todo`, `pend` or `copy`: `SweepList` and `SweepWrite`, `DurableList`
and `DurableLease`, `DurableReportLoad` and `DurableReportWrite`. A worker is two tasks, `Run(w)`
and the extender `Ext(w)` of the job in hand; `Take`, `HandlerReturns`, `Join` and the
reports follow `QueueWorker::process`. Any task may ask for a status, which sweeps.
`ReserveFails`, `ReportFails` and `ExtendFails` are store errors, `Crash` ends the process
and keeps the store. Times are the ticks that are left, so the clock has no bound.
`site` says which backend, workers and jobs there are. `failures` and `lapsed` are
history: what the handlers returned, and whether any lease has run out.

### FileAccess

One committed file. `faRows` and `faRefs` are the two halves of a relation (the rows, and
the `RefInfo` with its count and orphan stamp), `faGrants` what the policy says of the rows.
A request is cut at every call it makes: `can_access` reads the file, then the rows, then
asks the policy row by row, while `PolicyChange`, `AttachTx`, `DetachTx` and both deletions
go on. `GcCount`, `GcObject` and `GcRow` are the file pass. `faRaced` marks the one race that
the code leaves open: an attach after a deletion has decided. `ParseRange` and
`RangeReply` are `parse_range`, with its returns in the order of the code, and the answer
built from it. A header is any combination of numbers, missing bounds and bounds that are
no numbers (`BadNumber`). `RangeExact` compares the answer with the bytes that a well-formed
header names (`Selected`); a header that is not well-formed gets the whole file, or 416 where
the code refuses it before it has looked at all of it (`RefusedEarly`, section 6).

### PartIntake

The three numbers of an upload request, validated as `InitRequest::validate` does, in
integers that wrap at `Word`; the length `upload_part` expects; and the body, chunk by chunk,
with or without a declared length, broken off or sent again.

### SyncServe

`held` is what a client keeps. `StatusHead` and `StatusReply` are the two reads of
`status_handler`, between which the replica may commit. A pointer is revalidated with its
tag; an object sent under the immutable policy is never asked for again. Download
permits belong to the stream (`Acquire`, `StreamEnd`). `SyncReply` is `POST /sync/sync`, for a
user without a replica too: it queues the rebuild and says so.

### PolicyStore

`stored` is the policy store, `enforced` casbin's memory. A request is checked (`PolRequire`),
waits for the write lock (`PolLock`), and then, tuple after tuple, commits the transaction of
the adapter (`PolCommit`) and changes the memory when the commit has answered (`PolApply`); it
announces after the lock is gone (`PolAnnounce`). `PolFail` ends it with an error: a refused
write, a commit whose answer is lost, a refused feed entry. `PolDrop` ends it at whatever await
it is in, because its client went away, and gives no error to anybody. `PolStop` is a crash,
`PolServe` the start that loads the store, `PolImport` the import command. `ClaimPlan` is what
`claim_superadmin` writes, the repair of a half-done claim included.

The store keeps a tuple under `RuleKey`, its fields joined with U+001F. `Pieces` cuts a field
at that character, so that two tuples may have one key; the memory compares tuples. `adrift`
collects the tuples of which only the store has changed, `dropped` those that nobody will
announce any more.

### RateLimits, CapabilityTokens

`SweepDue` and `ClaimSweep` are the `fetch_add` and the `fetch_sub` of `sweep_due`, on a counter
that wraps. `ReadClock` is the `Instant::now()` of `take`, before it waits for the mutex; the
reading is up to `MaxLag` ticks old when `Take` uses it, and may be older than the `last` it
replaces. `budget` is what a peer has a claim to if it is never swept: the tokens of the time
that passes and, with each request, once more those of the time between reading and lock.
`EvictionSound` says that no sweep gives a peer more. A bucket that goes to make room is
the exception (`displaced`, section 6). In `CapabilityTokens` an operator edits file and
environment,
`LoadConfig` restarts the process with them, tokens are minted and verified with the
current and the previous key. A token's subject is left out, as `verify` does not look at it.

### JwksCache and AuthSession

`get` is a call of `JwksKeys::get` from look-up to second look-up; `MaybeRefresh` is the
critical section on `last_refresh`, `FetchKeys` and `StoreKeys` the two ends of a fetch, with
other fetches in between. In `AuthSession` a request carries the cookies of its moment
and its answer is delivered in any order. `Authenticate` and `WayOut` are the middleware
before and after the handler; the handlers are `Login`, `Callback`, `Refresh`, `Logout`, `Me`.

### ServeLife and HealthProbe

`ServeSteps` is the order of `serve`, `CommandSteps` that of the policy commands; each may
fail at any step. `Signal`, `Drained`, `Cancel`, `Release`, `Finish` are the shutdown. `HealthProbe`
has the interval and the inner timeout of the probe loop in units of 100 ms.

## 3. Runs

| Run | Shows | Bounds |
|---|---|---|
| `control_plane`, lease | `AtMostOneHolder`; `OwnerHoldsLease`: who believes in its lease is not fenced out | 3 processes, TTL 2, clock to 4, one crash, every request but renewals may fail |
| `control_plane`, merge | `ExactWhenAligned` | every pair of stores over 4 keys and 2 values, 2 builds in a row |
| `control_plane`, session | `TenantGate`, `RefreshCookieLive`, `SessionEstablished` | 2 requests in flight, one login flow, two tokens, a key rotation, two tenants |
| `services` | `DeadLeaseReplaced`, `SupersededReportsUnready`; `ImplementsMutex`, `WaiterEnters`; `RotationHandled`; `CleanHandover` | 2 processes with outsiders; 3 tasks, 2 sessions, 3 addresses; 2 callers, window of 2 ticks, one failed fetch; one server and one command; probes with period 4, up to 5 late |
| `file_plane`, uploads | `UploadKept`, `CommittedIsReplayable` | 2 handlers, 2 parts, 2 contents, 2 failures or restarts; no cancel, no sweep |
| `file_plane`, parts | `IntakeExact`: the parts tile the file, buffers are bounded | every request below 14, unit 2, parts up to 4 bytes, up to 3 parts, 2 handlers |
| `file_plane`, access | `ServedWasGranted`, `AttachedHasBytes`, `RangeExact` | 2 requests, owner and guest, one row, sizes 0 to 3 with every range around them, reversed, past the end and with bounds that are no numbers |
| `data_plane`, replica | `ReplicaComplete`, `ClaimHasHolder`, `MarkerMonotone` | 4 masters, 2 mutations at once, 2 polls, one dropped request or failed rebuild |
| `data_plane`, the others | `CachesHonest`; `EnforcerIsStore`, `ClaimSound`, `ChangesAnnounced`; `EvictionSound`; `TokensHonoured` | 2 clients and 2 feed entries; 2 policy requests, 3 edits, one fault, any number of dropped handlers, two memberships with one key; 2 workers, 2 peers, cap 1, clock readings up to a tick old; 3 secrets, 4 loads |
| `upload_sweep` | `CommittedHasBytes`, `NoStagedPartsLeak`, `ExpiredSessionReclaimed` | 2 handlers; one part with deletions, or two parts with cancels and one failure; sweeps before and after the TTL |
| `replica_progress` | `CatchesUp` | 2 masters, 2 mutations in a row, 2 polls, one drop |
| `job_queue` | `JobsAccounted`, `SoleHolder`, `FinishedStays`, `JobFinishes` | 2 workers on 2 jobs in memory, 1 on 2 jobs in a durable queue, 2 on one job in a durable queue; 2 attempts, one fault |
| `lease_displaced` | violation: the successor, not the predecessor, finds out | 2 processes, late renewals |
| `upload_bytes_gone` | violation: committed bytes deleted after a failed announce | 1 handler, 1 part, one failure |
| `merge_exact` | violation: a rebuild drops a row the user can read | 2 keys, 1 value |
| `login_lockout` | violation: 401 on `/auth/login` for a cookie of a rotated key | one request, one rotation |
| `probe_outage` | violation: an outage nobody notices | a runtime that is in time |

Every run that passes also checks the types of its modules (`ControlTypesOK`,
`ServicesTypesOK`, `FilePlaneTypesOK`, `DataTypesOK`, `TypeOK`). Several properties are
conjunctions of named parts, stated next to them in the module: `UploadKept` is
`CommittedContent` and `RecordCoversSession`, `ReplicaComplete` is `FilesComplete` and
`RelationsHaveFiles`, `IntakeExact` is `PartsTile` and `BufferBounded`, `CachesHonest` is
`NotModifiedHonest` and `CachedForGood`, `ClaimSound` is `OneClaimWins` and `ClaimHeals`,
`EvictionSound` is `TrackedBounded` and `SweepGivesNothing`, `RotationHandled` is
`OneFetchPerWindow` and `RotationNoticed`, `CleanHandover` is `ReleaseAfterServices` and
`ShutdownHandsOver`, `JobsAccounted` is `AnsweredIsStored`, `OneJobPerKey` and `DeadWasTried`.

Why the bounds are enough. Three lease processes are a holder, a successor and
a third that meets both; a clock of TTL + 2 lets a record go stale and its
replacement too. Three addresses are one more than sessions, so that an
address is reused while an old claim still leaves. Two parts are the
smallest upload that S3 assembles; one part takes the `put_object` path, which has
no multipart state. In the uploads one tick takes a row past the TTL. In
`data_plane` the four masters are each one mutation away from a grant (by
membership in a nested group, by rule, by attach) or from a fan-out that is too large,
so two entries reach a replay that grants and one that revokes; `MaxReplay` and
`MaxFanout` are small enough to be exceeded. In `job_queue` two workers and two jobs let a
batch wait behind its first job while its lease runs out; a memory lease of two ticks
can be extended before it ends; one job is enough for durable workers to meet on it.
`AnsweredIsStored` and `DeadWasTried` hold everywhere, the others where the code
can keep them (section 6). Two requests of one browser are the smallest overlap; two
tokens are a session and its refresh. In `PartIntake` a word of 14 is the smallest in
which the limits of the code do not wrap and every larger request does. A cap of one
peer and a threshold of two make evictions and double sweeps happen at once; the counter
wraps at 7; with two workers and a lag of one tick a `last` is set back. Three policy edits
are two memberships under one key, added and removed, after a claim. Four loads are a rotation
of two edits with a bad edit in between. Requests,
polls and mutators are interchangeable, and symmetry is used in safety runs only.

Deadlock is not checked where a bounded system really stops: once the failures and the
file are used up, the feed is full and applied, the tokens are issued, or the processes
are gone.

## 4. Fairness

* Lease: the renewer's ticker fires and requests are answered (weak fairness on
  each request), a start runs through, time passes. The run adds what a
  deployment provides: an orchestrator restarts processes and clients write.
  Nothing makes a process stop or crash.
* Session locks: a held guard and a claim are dropped in the end; the Tokio mutex
  is FIFO, which strong fairness of `Enter` abstracts.
* Uploads: the handler inside the session's lock goes on, the sweep comes back every hour, the
  lock is FIFO.
* Replicas: mutations end, clients keep polling, the pool works off its queue.
  Dropped requests and failed rebuilds are bounded in number.
* Key cache: a call of `get` goes on (the HTTP client has a timeout) and time passes;
  `RotationNoticed` supposes that requests keep asking for the new key.
* Process life: a process takes its next step, a reactive service that is told to stop
  returns, an unrenewed record goes stale. Nothing makes a signal or a request come.
* Probes (`probe_outage`): the loop is scheduled and time passes.
* Job queue: a worker's loop and its extender are scheduled, handlers return, time
  passes. Nobody has to enqueue or to ask for a status; faults are bounded in number.

## 5. Proofs

Proved for all values of the constants, from the assumptions stated with them:

* `LeaseTypeCorrect`: `TypeOK` of `WriterLease`, whatever fails.
* `LeaseExclusive`: `AtMostOneHolder`, under `ReliableRenewals` (renewals neither late nor
  failing, a claim's fetch in the second of its clock reading). `AtMostOneHolder` is not
  inductive: the invariant `LeaseInv` adds that no stamp is from the future, that a
  take-over in flight aims at a record past its TTL (`Stamps`), and that a believer's
  record is in the bucket and live (`Covered`). Two believers would then both own the
  one object.
* `LeaseGuardsEpochs`: `OwnerHoldsLease`, when also no outsider opens a store; `EpochInv`
  says that nothing is opened before the lease is held.
* `SessionMutualExclusion` and `SessionMapExact`, for any finite set of tasks. The
  inductive invariant `LockInv` says that a claim's entry is in the map under the
  claim's key (`ClaimsMapped`), that counters count (`EntriesCounted`) and that whoever is
  inside is the holder its entry names.
* `SessionImplementsMutex`: `ImplementsMutex`, the refinement of `KeyedMutex`, from the same
  `LockInv`. The mapping's owner of a session is the one task inside it. `Register` maps to
  `Request`, `Enter` to `Grant`, `Abandon` to `GiveUp`, `Leave` to `Unlock`, and `DropClaim`,
  with the removal of an entry, to no step. `Enter` is the case that needs `ClaimsMapped`:
  a free mutex means an empty critical section only if all claimants of the session
  share that mutex.
* `MergeEmptyDiff` and `MergeAligned`: `MergeInv` says, of the rows behind the cursors, that
  they agree as long as nothing was written, and that, with aligned keys, they are done.
* `SyncClaimExact` and `SyncMarkerMonotone`: `IInv` joins the exact claim to `MarkerReady`
  (whoever is about to write the marker has a value not below it). Each needs the other:
  without the claim a second poll could move the marker under the first.
* `UploadInvariant`: the inductive invariant `UploadInv` of `FsUpload`, and from it
  `UploadTypeCorrect`, `UploadLeaksNothing`, `MultipartKept`, `MultipartHasBytes` and
  `CompletionReplayable`. Its parts say who holds the session's lock (`LockHeld`) and that the
  holder still finds the session it has read (`SessionThere`); that `init_upload` is alone
  until it answers (`InitAlone`); that an open multipart upload has its rows (`OpenHasRows`);
  that the record has a part before the session lists it (`PartRecorded`); that a file is
  saved once, from what was assembled (`SavedOnce`); that an object which the sweep takes
  for an orphan has neither session nor file (`OrphanOver`); and that the session outlives
  the announcement where neither a cancel nor the sweep removes it (`AnnouncedFirst`). The
  statements about content and bytes are for uploads of several parts, with `~Single`: a
  single part is put over the object in place, and run `upload_bytes_gone` shows what then
  becomes of its bytes.
* `QueueInvariant`: `QueueInv` of `JobQueue`, and from it `QueueTypeCorrect`, `JobsAreAccounted`,
  `QueueSoleHolder` and the action property `FinishedJobsStay`. Every id that is listed,
  leased, indexed or answered is stored (`Named`, `Indexed`); no record, candidate or copy that
  may yet be written has counted more attempts than its handlers have failed, less those
  that a worker has still to count (`AttemptsCounted`); in memory a batch holds its leases as
  long as none has run out (`LeasesHeld`); a worker that is alone has only unfinished jobs
  in hand (`AloneUnfinished`).
* `IntakeIsExact`: with `IntakeInv`, each received part has the length that `upload_part`
  expects of it, and each body under way buffers no more. That the lengths add up to the file needs
  no induction: all parts but the last are of one size, so the sum is a product.
* `FileInvariant`: `FileInv` of `FileAccess` says what each stage of a request has behind it
  (`Staged`), that the evidence of a request contains what is true now (`Seen`), and that a
  collector which finds rows after its decision was overtaken (`GcOvertaken`); hence
  `ServedAreGranted` and `AttachedKeepBytes`. `RangeReplyExact` is a fact about the two operators,
  for every header, well-formed or not, and every length, an empty file included; it gives
  `DownloadsExact`.
* `SyncTypeCorrect` and `ReplicaIsComplete`. `FilesComplete` is not inductive, because it speaks
  of a replica at the head only. `NothingLost` says it of every moment: when the replica at
  its marker, a replay at its cursor or a rebuild's copy at its target lacks a file that
  the user may read, each way to that file (the row it is attached to, the rule on the row,
  the first membership that leads to the rule's subject) has an entry which opens it still
  to come, in the feed or from a mutator. `DeletesFinal` keeps a replayed deletion from
  hiding a live file, `Cursors` keeps every cursor within the feed, and `IInv` is needed for
  the marker. `ReplayStart` and `ReadRowsForGroup` are the steps where it matters that
  policy entries look at all rows of a group and of the groups above it.
* `CachesStayHonest`, from `ServeInv`: a validator names all that its body says
  (`PointersTagged`), a copy that is kept for good and a stream under way have the bytes of a
  segment that is not written again (`SegmentsKept`, `StreamsTrue`).
* `MapIsBounded` and `EvictionIsSound`, from `LimitsInv`: an untracked peer's bucket would be
  full, for which the idle window has to be long enough (`FillsInTime`, section 6), and a
  request that has read the clock and not the bucket finds no more than the budget holds
  for a request of now. `MaxLag` is arbitrary.
* `PolicyInvariant`: `PolicyInv` of `PolicyStore`, and from it `EnforcerMatchesStore`,
  `ClaimIsSound`
  and `ChangesAreAnnounced`. Whoever commits or applies holds the lock (`WriterCommits`), and
  between its commit and the memory the store has what it added and nothing of what it
  removed (`ApplyReady`), so that `PolApply` closes the difference that `PolCommit` opened,
  whatever an earlier request left apart. Nothing is in flight in a stopped process
  (`ModesHeld`), nobody has won while a first
  claim holds the lock or while the role is empty (`ClaimOpen`), and the rules that a claim has
  not stored are in its plan (`ClaimRepairs`). `Pieces` is arbitrary, except that no other
  tuple has the key of a seeded rule (`PolicyAssumption`).
* `TokensAreHonoured`, from `CapabilityInv`: an edit that loads keeps the secret or rotates it
  as documented (`EditsSettled`), the keys are those of the last configuration that loaded
  (`KeysSettled`), and a token that is still alive has the current or the previous key
  (`TokensCovered`).
* `AuthInvariant`: `AuthInv` of `AuthSession`, and from it `TenantsAreGated`, `RefreshStaysLive` and
  the action property `SessionsAreEstablished`. Cookies, requests and answers carry tokens of
  allowed tenants only (`JarGated`, `RequestsGated`). `RefreshCookieLive` speaks of a browser at
  rest and is not inductive: a refresh uses up the token before its answer arrives. While the
  provider keeps its keys, a cookie whose refresh token is used up has an answer under
  way that replaces it (`CookieReplaced`), and the token which such an answer brings works
  and is in nobody's hands (`RepliesUnused`), so that no other request can use it up first.
* `RefreshesAreDebounced`: `OneFetchPerWindow` of `JwksCache`. `JwksInv` says that the time
  since the
  last fetch, which the property is about, is the age of the stamp that the code compares.
* `ReleasedAfterServices`: `ReleaseAfterServices` of `ServeLife`. `LifeInv` says that requests are
  under way only while a listener is up and that a start is within its list of steps.
* `PlaneComposes`, `DataComposes` and `ControlComposes`: each behaviour of the composed planes is
  one of every component, so that the theorems above hold in the compositions that the
  runs check; `PlaneTypeCorrect`, `DataTypeCorrect`, `ControlTypeCorrect` and `ServicesTypeCorrect`
  are their types.

The assumptions on constants are those of the modules (`UploadAssumption`, `QueueAssumption`,
`IntakeAssumption`, `FileAssumption`, `SyncAssumption`, `ServeAssumption`, `PolicyAssumption`,
`LimitsAssumption`, `CapabilityAssumption`, `AuthAssumption`, `JwksAssumption`, `LifeAssumption`
and those of the lease, the locks and the merge):
counts and times are natural numbers, the value that stands for nothing is none of
the others, workers, mutators, tasks and rows are finite in number, the limits of an
upload request do not wrap, the provider publishes at least one set of keys, and the
sweep counter is wider than its threshold. TLC
evaluates each of them in a run. Whatever else a theorem needs is a hypothesis in its
statement: `ReliableRenewals` of the lease, `FillsInTime` of the limits, `~Single` and the
absence of
cancels and sweeps of uploads.

The inductive invariants were tried with TLC on small instances before they were proved. What a
proof depends on can be tried out: with the rows of a group's direct rules
in place of `ReadRowsForGroup`, one step of `ReplicaIsComplete` has no proof.

Model-checked only: all liveness properties, because fairness and `ENABLED` are outside the
prover's reach (`DeadLeaseReplaced`, `SupersededReportsUnready`, `WaiterEnters`, `RotationNoticed`,
`ShutdownHandsOver`, `ExpiredSessionReclaimed`, `CatchesUp`, `JobFinishes`), and the object of a
committed one-part upload.

## 6. Where the code disagrees with its own words

* `lease_displaced`: `renew` fetches, then overwrites unconditionally (`lease.rs:334`). A holder
  that pauses between the two for longer than the TTL puts its record back over a
  successor's; the successor then reports itself lost. The module documentation
  says that the predecessor finds out.
* `upload_bytes_gone`: a one-part upload whose announce failed keeps its session by
  design. After the TTL the session pass aborts it, and for a one-part upload abort
  means deleting the object of the committed file (`fs/gc.rs:169`).
* `merge_exact`: the loop of `build_full` advances both sides on every turn
  (`sync/snapshot.rs:731`). With desired = {k2} and live = {k1, k2} it deletes both rows. A
  rebuild over a replica that is not aligned with the filtered view is therefore not
  exact; the marker says it is.
* `login_lockout`: a token whose `kid` the refreshed key set does not have is a hard refusal
  (`http/middleware/jwt.rs:407`), so a browser with a cookie of a rotated key gets 401 from
  `/auth/login` itself, and the cookie stays. The comment at `jwt.rs:374` describes exactly this
  lockout as fixed, for expired tokens it is.
* `probe_outage`: the probe loop waits for a tick of its ten-second interval and then for
  another one with a timeout of 100 ms, and starts over when that times out
  (`http/health.rs:175`). In time, no probe is ever sent and `/ready` does not see an outage.

Gaps that the models show and no run states:

* `is_live_at` (`lease.rs:101`) reads a negative age as stale, its comment says live.
  `PromptStart` keeps this out of the exclusive run.
* `release` deletes after a separate fetch and may remove a successor's record if its
  own was allowed to go stale.
* A cancel drops the session of a committed, unannounced upload, so that
  `CommittedIsReplayable` needs uploads without cancels.
* A membership of a group in a group is passed by when a member's replica replays it
  (`sync/snapshot.rs:1072`); `FilesComplete` leaves such feeds out.
* A rule removal and a membership removal that are replayed together can leave a
  file behind in a replica, and a detach leaves the file's own row.
* A failed announce of a policy change is not repeated: the retry finds nothing to
  change. When the client goes away while the handler waits in `announce`
  (`policy/mod.rs:358`), the entry is lost and nobody gets an error, although
  `policy/mod.rs:316` says that the feed never silently misses a committed write.
  `ChangesAnnounced` lists these ways, with a crash and a change that the memory did not see,
  and says that there is no other.
* A policy handler that is dropped in `commit` (`policy/adapter.rs:310`), or whose commit took
  effect and whose answer is lost, leaves store and memory apart. A revoked rule then stays
  in force until the next start, or until it is added and removed once more: the retry finds
  nothing in the store to remove, and casbin
  does not touch its memory. A membership so stored and claimed again is answered as won
  although the memory does not have it. `EnforcerIsStore` excepts these tuples by name (`adrift`).
* `rule_key` (`policy/adapter.rs:28`) joins the fields with U+001F, which a field may contain.
  Of two
  rules with one key the second add is taken for a duplicate; removing the other one
  deletes the row and leaves the first rule in the memory, also until the next start.
* A `Range` header whose start is past the end is answered with 416 before its end is looked at
  (`fs/route.rs:271`), and any byte range of an empty file is. The documentation of `parse_range`
  (`fs/route.rs:236`) says that bad syntax and reversed bounds give the whole file with 200.
* `take` reads the clock before it locks (`limits.rs:193`). A request that locks late sets `last`
  back, and the time in between is refilled a second time by the next one.
* A peer whose bucket is dropped by `make_room` starts again with a full one. `limits.rs:86` says
  that a peer which is still sending keeps its budget; the coldest of
  `MAX_TRACKED_PEERS` peers may well be sending when enough others arrive.
* A key with an `alg` that the code does not know is kept as an RS256 key
  (`http/middleware/jwks.rs:235`),
  where the documentation above it says skipped.
* The claims of a capability token name "the subject that may use the token" (`fs/token.rs:17`);
  `verify` never compares it with anybody.
* `sweep_due` (`limits.rs:168`) claims a sweep with two atomic steps, its comment speaks of one
  `fetch_update`: two requests may both sweep, which `EvictionSound` shows to be harmless.
* "Ten minutes is far longer than any bucket takes to fill again" (`limits.rs:51`) is true of the
  default burst, the tokens of one minute. `rate_burst` is not bounded by `rate_per_minute`
  (`config.rs:489`): with a burst above ten times the rate an idle peer is dropped before its
  bucket is full, and comes back to a full one. `EvictionIsSound` therefore has the
  hypothesis `FillsInTime`; `MapIsBounded` has none.
* The login client keeps the provider's keys of its start (`oidc/mod.rs:204`): after a
  rotation every callback fails until the process restarts.
* An answer that clears an expired `auth_token` may arrive after another tab's login.
* A policy route checks the caller's right and changes the policy in two critical
  sections (`policy/route.rs:270`); a right that is lost in between still counts.
* An attach that races a deletion may leave a relation to a file without bytes or
  without a record; `AttachedHasBytes` excepts it by name (`faRaced`).
* `serve` awaits its reactive services and neither the collector nor the builders
  (`main.rs:498`): one of them may still be at work when the lease is released.
* The probes send requests without a timeout (`http/health.rs:184`); a dependency that
  hangs holds their task for ever.
* `parse_toml` validates the file before the environment is overlaid (`config.rs:122`), so a file
  without `client_secret` is refused although `README.md:64` says secrets can stay out of it.
* Two durable enqueues with one idempotency key may both create a job
  (`queue/durable.rs:140`), and two workers on a durable queue may lease one job at once
  (`queue/durable.rs:236` writes over what the listing saw). A lease so written also brings
  back the attempt count of the listing, so that workers can retry a failing job for
  ever. `OneJobPerKey` and `SoleHolder` are therefore stated for the memory queue,
  `JobFinishes` and `FinishedStays` for that or for a single worker.
* `ack` and `nack` do not look at the lease: in memory too, a worker whose lease ran out may
  requeue a job that another has finished. Delivery is at least once, as the README says.

## 7. Not modelled

Cryptography is perfect in the models: a token verifies exactly with its key. What only
reads is left out: the listings of `policy/route.rs` and their pagination, the export,
`get_progress`, `sanitize_filename`. The environment's overrides of the S3, origin and queue
settings (`config.rs:185`) are left out because no property depends on them. Presigned URLs
(`fs/s3.rs`), error mapping, request ids,
tracing, telemetry, audit and API documentation keep no state that matters. `retry.rs` has
no caller outside its tests, the RabbitMQ backend is a stub, and the RAM mirror of the master store
(`mirror_master`) is an optional prototype. Of the S3 protocol only what the code relies on
is there; that S3 itself wants parts of at least 5 MiB, which no accepted multipart
request has, is outside.

## 8. Plan

1. The object of a committed one-part upload, proved under the hypothesis that no session
   pass overtakes the announcement.
2. `PolicyStore` and `FileAccess` writing the feed that `ReplicaSync` replays, as one
   composition, if the state space allows it.
3. Feeds with memberships of groups in groups, once the code replays them.
