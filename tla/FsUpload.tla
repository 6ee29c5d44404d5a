------------------------------ MODULE FsUpload ------------------------------
(***************************************************************************)
(* One upload of FsEngine (src/src/fs/mod.rs), from init_upload to the     *)
(* committed file and its deletion, with the multipart state of the byte   *)
(* client (src/src/fs/object_store.rs), the rows of FsStore                *)
(* (src/src/fs/store.rs) and the sweeper (src/src/fs/gc.rs).               *)
(*                                                                         *)
(* Rows and bytes survive a restart, the client's multipart state does not.*)
(* A step ends at an await whose result another task can observe.  Session *)
(* and multipart rows are written only under the session's lock, so a read *)
(* and the write that follows it under that lock share a step.             *)
(***************************************************************************)
EXTENDS Integers

CONSTANTS
    Task,       \* concurrent request handlers
    PartCounts, \* how many parts an upload may have
    Tag,        \* content ids a part may get
    NoTag,      \* an empty etag slot
    Absent,     \* no row, no object
    Sweeper,    \* the GC as a lock holder
    Ops,        \* what runs, by part count: upload, complete, cancel, delete, gc
    TTL,        \* gc.rs TTL_SECS
    MaxTime,    \* bound on the clock
    MaxFails    \* bound on failed or dropped handlers and on restarts, by part count

ASSUME UploadAssumption ==
    /\ PartCounts \subseteq Nat \ {0}
    /\ TTL \in Nat /\ MaxTime \in Nat /\ MaxFails \in [PartCounts -> Nat]
    /\ Ops \in [PartCounts -> SUBSET {"upload", "complete", "cancel", "delete", "gc"}]
    /\ NoTag \notin Tag
    /\ Sweeper \notin Task /\ Absent \notin Task \cup {Sweeper}
    /\ \A n \in PartCounts :
        LET slots == [1..n -> Tag \cup {NoTag}]      \* Absent is no row and no object
        IN  /\ Absent \notin slots /\ Absent \notin [created : Nat, etags : slots]
            /\ Absent \notin [created : Nat, content : slots]
            /\ Absent \notin [content : slots, modified : Nat]

VARIABLES
    total,     \* UploadSession.file_total_parts, fixed by init_upload's request
    clock,
    known,     \* init_upload has answered: clients have the file id
    session,   \* UploadSession row: created_at and etags
    mrow,      \* PersistedMultipart.parts
    states,    \* ObjectStoreClient.states: parts, in memory
    mp,        \* the bucket's multipart upload: whether open, and its parts
    bytes,     \* the object under s3_key: content and last_modified
    file,      \* FileRecord: created_at, and the content it was committed for
    feed,      \* the last op announced for this file
    lock,      \* who is inside the session's lock
    pc, part, tag, copy,      \* per handler
    gc, now, sawSession, sawFile,   \* the sweep
    expiring,  \* the sweep has begun to expire the file
    fails

rows == <<session, mrow, file, feed>>
s3 == <<states, mp, bytes>>
task == <<pc, part, tag, copy>>
sweep == <<gc, now, sawSession, sawFile, expiring>>
vars == <<total, clock, known, rows, s3, lock, task, sweep, fails>>

Part == 1..total
Single == total = 1
Slots == [Part -> Tag \cup {NoTag}]
EmptySlots == [p \in Part |-> NoTag]

Init ==
    /\ total \in PartCounts
    /\ clock = 0 /\ known = FALSE
    /\ session = Absent /\ mrow = Absent /\ file = Absent /\ feed = "none"
    /\ states = Absent /\ mp = [open |-> FALSE, parts |-> EmptySlots] /\ bytes = Absent
    /\ lock = Absent
    /\ pc = [t \in Task |-> "idle"]
    /\ part = [t \in Task |-> 1]
    /\ tag = [t \in Task |-> NoTag]
    /\ copy = [t \in Task |-> Absent]
    /\ gc = "idle" /\ now = 0 /\ sawSession = FALSE /\ sawFile = Absent /\ expiring = FALSE
    /\ fails = 0

Pcs == {"idle", "init_session", "init_row",
        "put_object", "load", "restore", "put_part", "note_part",
        "merge_lock", "merge_row", "merge_session",
        "complete_read", "complete_load", "complete_restore", "take_state", "assemble",
        "drop_row", "save_file", "announce", "drop_session",
        "cancel_read", "abort", "delete_announce", "delete_row", "delete_bytes"}

GcPcs == {"idle", "list_files", "session_lock", "session_read", "session_bytes",
          "session_abort", "session_drop", "file_pass", "file_announce", "file_row",
          "orphan_list", "orphan_delete"}

\* The rows of FsStore, the client's state and the bucket.
StoreTypeOK ==
    /\ session = Absent \/ session \in [created : Nat, etags : Slots]
    /\ mrow = Absent \/ mrow \in Slots
    /\ states = Absent \/ states \in Slots
    /\ mp \in [open : BOOLEAN, parts : Slots]
    /\ bytes = Absent \/ bytes \in [content : Slots, modified : Nat]
    /\ file = Absent \/ file \in [created : Nat, content : Slots]
    /\ feed \in {"none", "create", "delete"}

HandlerTypeOK ==
    /\ lock \in Task \cup {Sweeper, Absent}
    /\ pc \in [Task -> Pcs] /\ part \in [Task -> Part] /\ tag \in [Task -> Tag \cup {NoTag}]
    /\ copy \in [Task -> Slots \cup {Absent}]

SweepTypeOK ==
    /\ gc \in GcPcs /\ now \in 0..MaxTime /\ sawSession \in BOOLEAN /\ expiring \in BOOLEAN
    /\ sawFile = Absent \/ sawFile \in [created : Nat, content : Slots]

\* The store, the handlers' locals and the sweep have their types: a part is
\* stored under a slot of its own upload only.
TypeOK ==
    /\ total \in PartCounts
    /\ clock \in 0..MaxTime
    /\ known \in BOOLEAN
    /\ StoreTypeOK /\ HandlerTypeOK /\ SweepTypeOK
    /\ fails \in 0..MaxFails[total]

Goto(t, where) == pc' = [pc EXCEPT ![t] = where]
Expired(since, at) == at - since > TTL

\* The handler returns: its locals go, and the lock if it holds it.
Return(t) ==
    /\ pc' = [pc EXCEPT ![t] = "idle"]
    /\ tag' = [tag EXCEPT ![t] = NoTag]
    /\ copy' = [copy EXCEPT ![t] = Absent]
    /\ part' = [part EXCEPT ![t] = 1]
    /\ lock' = IF lock = t THEN Absent ELSE lock

TakeLock(t, where) ==
    /\ lock = Absent
    /\ lock' = t
    /\ Goto(t, where)

-----------------------------------------------------------------------------
(* init_upload: create_multipart_upload, save_session, save_multipart *)

InitCreate(t) ==
    /\ pc[t] = "idle" /\ ~known /\ session = Absent /\ ~mp.open
    /\ \A u \in Task : pc[u] = "idle"
    /\ mp' = [mp EXCEPT !.open = ~Single]
    /\ states' = IF Single THEN states ELSE EmptySlots
    /\ Goto(t, "init_session")
    /\ UNCHANGED <<total, clock, known, rows, bytes, lock, part, tag, copy, sweep, fails>>

InitSession(t) ==
    /\ pc[t] = "init_session"
    /\ session' = [created |-> clock, etags |-> EmptySlots]
    /\ IF Single THEN known' = TRUE /\ Return(t)
                 ELSE Goto(t, "init_row") /\ UNCHANGED <<known, part, tag, copy, lock>>
    /\ UNCHANGED <<total, clock, mrow, file, feed, s3, sweep, fails>>

InitRow(t) ==
    /\ pc[t] = "init_row"
    /\ mrow' = EmptySlots
    /\ known' = TRUE
    /\ Return(t)
    /\ UNCHANGED <<total, clock, session, file, feed, s3, sweep, fails>>

-----------------------------------------------------------------------------
(* upload_part.  The size checks of a part are left out: they read only    *)
(* fields that are fixed at init.                                          *)

UploadStart(t, p, e) ==
    /\ "upload" \in Ops[total] /\ known
    /\ pc[t] = "idle" /\ session # Absent
    /\ part' = [part EXCEPT ![t] = p]
    /\ tag' = [tag EXCEPT ![t] = e]
    /\ Goto(t, IF Single THEN "put_object" ELSE "load")
    /\ UNCHANGED <<total, clock, known, rows, s3, lock, copy, sweep, fails>>

\* put_object overwrites the object under the session's key.
PutObject(t) ==
    /\ pc[t] = "put_object"
    /\ bytes' = [content |-> [p \in Part |-> tag[t]], modified |-> clock]
    /\ Goto(t, "merge_lock")
    /\ UNCHANGED <<total, clock, known, rows, states, mp, lock, part, tag, copy, sweep, fails>>

\* ensure_multipart: the row is loaded (load, complete_load) ...
EnsureLoad(t) ==
    /\ pc[t] \in {"load", "complete_load"}
    /\ \/ mrow = Absent /\ Return(t)
       \/ /\ mrow # Absent
          /\ copy' = [copy EXCEPT ![t] = mrow]
          /\ Goto(t, IF pc[t] = "load" THEN "restore" ELSE "complete_restore")
          /\ UNCHANGED <<part, tag, lock>>
    /\ UNCHANGED <<total, clock, known, rows, s3, sweep, fails>>

\* ... and restore_multipart replaces the client's state by it.
EnsureRestore(t) ==
    /\ pc[t] \in {"restore", "complete_restore"}
    /\ states' = copy[t]
    /\ copy' = [copy EXCEPT ![t] = Absent]
    /\ Goto(t, IF pc[t] = "restore" THEN "put_part" ELSE "take_state")
    /\ UNCHANGED <<total, clock, known, rows, mp, bytes, lock, part, tag, sweep, fails>>

\* put_part fails without the client's state or on a closed upload.
PutPart(t) ==
    /\ pc[t] = "put_part"
    /\ \/ (states = Absent \/ ~mp.open) /\ Return(t) /\ UNCHANGED mp
       \/ /\ states # Absent /\ mp.open
          /\ mp' = [mp EXCEPT !.parts[part[t]] = tag[t]]
          /\ Goto(t, "note_part")
          /\ UNCHANGED <<part, tag, copy, lock>>
    /\ UNCHANGED <<total, clock, known, rows, states, bytes, sweep, fails>>

NotePart(t) ==
    /\ pc[t] = "note_part"
    /\ states' = IF states = Absent THEN Absent ELSE [states EXCEPT ![part[t]] = tag[t]]
    /\ Goto(t, "merge_lock")
    /\ UNCHANGED <<total, clock, known, rows, mp, bytes, lock, part, tag, copy, sweep, fails>>

\* merge_part: under the lock, the record first and the session second.
MergeLock(t) ==
    /\ pc[t] = "merge_lock"
    /\ TakeLock(t, "merge_row")
    /\ UNCHANGED <<total, clock, known, rows, s3, part, tag, copy, sweep, fails>>

\* Mutant: the record is indexed by part_number, one past the slot.
MergeRowOffByOne(t) ==
    /\ pc[t] = "merge_row" /\ session # Absent
    /\ mrow' = IF mrow = Absent THEN Absent
               ELSE [q \in Part \cup {part[t] + 1} |->
                        IF q = part[t] + 1 THEN tag[t] ELSE mrow[q]]
    /\ Goto(t, "merge_session")
    /\ UNCHANGED <<total, clock, known, session, file, feed, part, tag, copy, lock, s3, sweep, fails>>

\* Mutant: the part is merged into the session only.
MergeRowSkipped(t) ==
    /\ pc[t] = "merge_row" /\ session # Absent
    /\ Goto(t, "merge_session")
    /\ UNCHANGED <<total, clock, known, rows, part, tag, copy, lock, s3, sweep, fails>>

MergeRow(t) ==
    /\ pc[t] = "merge_row"
    /\ \/ session = Absent /\ Return(t) /\ UNCHANGED mrow
       \/ /\ session # Absent
          /\ mrow' = IF mrow = Absent THEN Absent ELSE [mrow EXCEPT ![part[t]] = tag[t]]
          /\ Goto(t, "merge_session")
          /\ UNCHANGED <<part, tag, copy, lock>>
    /\ UNCHANGED <<total, clock, known, session, file, feed, s3, sweep, fails>>

MergeSession(t) ==
    /\ pc[t] = "merge_session"
    /\ session' = [session EXCEPT !.etags[part[t]] = tag[t]]
    /\ Return(t)
    /\ UNCHANGED <<total, clock, known, mrow, file, feed, s3, sweep, fails>>

-----------------------------------------------------------------------------
(* complete_upload, all of it under the lock *)

CompleteLock(t) ==
    /\ "complete" \in Ops[total] /\ known
    /\ pc[t] = "idle"
    /\ TakeLock(t, "complete_read")
    /\ UNCHANGED <<total, clock, known, rows, s3, part, tag, copy, sweep, fails>>

\* A committed record with its session still there is announced again;
\* without one the call has nothing left to do.
CompleteRead(t) ==
    /\ pc[t] = "complete_read"
    /\ \/ session = Absent /\ Return(t)
       \/ /\ session # Absent /\ file # Absent
          /\ Goto(t, "announce")
          /\ UNCHANGED <<part, tag, copy, lock>>
       \/ /\ session # Absent /\ file = Absent
          /\ \E p \in Part : session.etags[p] = NoTag
          /\ Return(t)
       \/ /\ session # Absent /\ file = Absent
          /\ \A p \in Part : session.etags[p] # NoTag
          /\ Goto(t, IF Single THEN "save_file" ELSE "complete_load")
          /\ UNCHANGED <<part, tag, copy, lock>>
    /\ UNCHANGED <<total, clock, known, rows, s3, sweep, fails>>

\* complete_multipart_upload takes the state out, then compares every etag.
TakeState(t) ==
    /\ pc[t] = "take_state"
    /\ states' = Absent
    /\ \/ states # session.etags /\ Return(t)
       \/ /\ states = session.etags
          /\ Goto(t, "assemble")
          /\ UNCHANGED <<part, tag, copy, lock>>
    /\ UNCHANGED <<total, clock, known, rows, mp, bytes, sweep, fails>>

\* The bucket assembles the object if it has exactly those parts.
Assemble(t) ==
    /\ pc[t] = "assemble"
    /\ \/ /\ ~(mp.open /\ mp.parts = session.etags)
          /\ Return(t) /\ UNCHANGED <<mp, bytes>>
       \/ /\ mp.open /\ mp.parts = session.etags
          /\ mp' = [mp EXCEPT !.open = FALSE]
          /\ bytes' = [content |-> mp.parts, modified |-> clock]
          /\ Goto(t, "drop_row")
          /\ UNCHANGED <<part, tag, copy, lock>>
    /\ UNCHANGED <<total, clock, known, rows, states, sweep, fails>>

DropRow(t) ==
    /\ pc[t] = "drop_row"
    /\ mrow' = Absent
    /\ Goto(t, "save_file")
    /\ UNCHANGED <<total, clock, known, session, file, feed, s3, lock, part, tag, copy, sweep, fails>>

\* Mutant: the session goes with the commit, before the announce.
SaveFileDropsSession(t) ==
    /\ pc[t] = "save_file"
    /\ file' = [created |-> clock, content |-> session.etags]
    /\ session' = Absent
    /\ Goto(t, "announce")
    /\ UNCHANGED <<total, clock, known, mrow, feed, s3, lock, part, tag, copy, sweep, fails>>

SaveFile(t) ==
    /\ pc[t] = "save_file"
    /\ file' = [created |-> clock, content |-> session.etags]
    /\ Goto(t, "announce")
    /\ UNCHANGED <<total, clock, known, session, mrow, feed, s3, lock, part, tag, copy, sweep, fails>>

AnnounceCreate(t) ==
    /\ pc[t] = "announce"
    /\ feed' = "create"
    /\ Goto(t, "drop_session")
    /\ UNCHANGED <<total, clock, known, session, mrow, file, s3, lock, part, tag, copy, sweep, fails>>

\* delete_session: the session and its multipart row in one transaction.
DropSession(t) ==
    /\ pc[t] = "drop_session"
    /\ session' = Absent /\ mrow' = Absent
    /\ Return(t)
    /\ UNCHANGED <<total, clock, known, file, feed, s3, sweep, fails>>

-----------------------------------------------------------------------------
(* cancel_upload, under the lock.  A single-part cancel leaves its bytes.  *)

CancelLock(t) ==
    /\ "cancel" \in Ops[total] /\ known
    /\ pc[t] = "idle"
    /\ TakeLock(t, "cancel_read")
    /\ UNCHANGED <<total, clock, known, rows, s3, part, tag, copy, sweep, fails>>

\* Mutant: a cancel drops the rows and leaves the staged parts.
CancelReadKeepsParts(t) ==
    /\ pc[t] = "cancel_read" /\ session # Absent
    /\ Goto(t, "drop_session")
    /\ UNCHANGED <<total, clock, known, rows, part, tag, copy, lock, s3, sweep, fails>>

CancelRead(t) ==
    /\ pc[t] = "cancel_read"
    /\ \/ session = Absent /\ Return(t)
       \/ /\ session # Absent
          /\ Goto(t, IF mrow = Absent THEN "drop_session" ELSE "abort")
          /\ UNCHANGED <<part, tag, copy, lock>>
    /\ UNCHANGED <<total, clock, known, rows, s3, sweep, fails>>

\* abort_session_upload with a multipart row: restore, then abort.  An
\* upload that is already gone counts as aborted.
Aborted == states' = Absent /\ mp' = [mp EXCEPT !.open = FALSE]

CancelAbort(t) ==
    /\ pc[t] = "abort"
    /\ Aborted
    /\ Goto(t, "drop_session")
    /\ UNCHANGED <<total, clock, known, rows, bytes, lock, part, tag, copy, sweep, fails>>

-----------------------------------------------------------------------------
(* delete_file by its owner, outside the lock: announce, row, bytes *)

DeleteStart(t) ==
    /\ "delete" \in Ops[total]
    /\ pc[t] = "idle" /\ file # Absent
    /\ Goto(t, "delete_announce")
    /\ UNCHANGED <<total, clock, known, rows, s3, lock, part, tag, copy, sweep, fails>>

DeleteAnnounce(t) ==
    /\ pc[t] = "delete_announce"
    /\ feed' = "delete"
    /\ Goto(t, "delete_row")
    /\ UNCHANGED <<total, clock, known, session, mrow, file, s3, lock, part, tag, copy, sweep, fails>>

DeleteRow(t) ==
    /\ pc[t] = "delete_row"
    /\ file' = Absent
    /\ Goto(t, "delete_bytes")
    /\ UNCHANGED <<total, clock, known, session, mrow, feed, s3, lock, part, tag, copy, sweep, fails>>

DeleteBytes(t) ==
    /\ pc[t] = "delete_bytes"
    /\ bytes' = Absent
    /\ Return(t)
    /\ UNCHANGED <<total, clock, known, rows, states, mp, sweep, fails>>

-----------------------------------------------------------------------------
(* gc::sweep_once.  The sweep reads the clock once and lists the sessions  *)
(* before the files; each pass works from those two listings.  The store's *)
(* own WAL orphan pass touches none of this state.                         *)

GcListSessions ==
    /\ "gc" \in Ops[total]
    /\ gc = "idle"
    /\ now' = clock
    /\ sawSession' = (session # Absent)
    /\ gc' = "list_files"
    /\ UNCHANGED <<total, clock, known, rows, s3, lock, task, sawFile, expiring, fails>>

GcListFiles ==
    /\ gc = "list_files"
    /\ sawFile' = file
    /\ gc' = IF sawSession THEN "session_lock" ELSE "file_pass"
    /\ UNCHANGED <<total, clock, known, rows, s3, lock, task, now, sawSession, expiring, fails>>

GcSessionLock ==
    /\ gc = "session_lock"
    /\ lock = Absent
    /\ lock' = Sweeper
    /\ gc' = "session_read"
    /\ UNCHANGED <<total, clock, known, rows, s3, task, now, sawSession, sawFile, expiring, fails>>

\* The row is read again under the lock.  Then abort_session_upload: bytes
\* of a single-part upload, the multipart upload if its row is there.
GcSessionRead ==
    /\ gc = "session_read"
    /\ IF session = Absent \/ ~Expired(session.created, now)
       THEN gc' = "file_pass" /\ lock' = Absent
       ELSE /\ gc' = IF Single THEN "session_bytes"
                     ELSE IF mrow = Absent THEN "session_drop" ELSE "session_abort"
            /\ UNCHANGED lock
    /\ UNCHANGED <<total, clock, known, rows, s3, task, now, sawSession, sawFile, expiring, fails>>

GcSessionBytes ==
    /\ gc = "session_bytes"
    /\ bytes' = Absent
    /\ gc' = "session_drop"
    /\ UNCHANGED <<total, clock, known, rows, states, mp, lock, task, now, sawSession, sawFile, expiring, fails>>

GcSessionAbort ==
    /\ gc = "session_abort"
    /\ Aborted
    /\ gc' = "session_drop"
    /\ UNCHANGED <<total, clock, known, rows, bytes, lock, task, now, sawSession, sawFile, expiring, fails>>

\* Mutant: delete_multipart in place of delete_session.
GcSessionDropRow ==
    /\ gc = "session_drop"
    /\ mrow' = Absent
    /\ gc' = "file_pass"
    /\ lock' = Absent
    /\ UNCHANGED <<total, clock, known, session, file, feed, s3, task, now, sawSession, sawFile, expiring, fails>>

GcSessionDrop ==
    /\ gc = "session_drop"
    /\ session' = Absent /\ mrow' = Absent
    /\ gc' = "file_pass"
    /\ lock' = Absent
    /\ UNCHANGED <<total, clock, known, file, feed, s3, task, now, sawSession, sawFile, expiring, fails>>

\* The file pass: this file is attached to nothing, so its age decides.
GcFileBytes ==
    /\ gc = "file_pass"
    /\ IF sawFile # Absent /\ Expired(sawFile.created, now)
       THEN bytes' = Absent /\ expiring' = TRUE /\ gc' = "file_announce"
       ELSE gc' = "orphan_list" /\ UNCHANGED <<bytes, expiring>>
    /\ UNCHANGED <<total, clock, known, rows, states, mp, lock, task, now, sawSession, sawFile, fails>>

GcFileAnnounce ==
    /\ gc = "file_announce"
    /\ feed' = "delete"
    /\ gc' = "file_row"
    /\ UNCHANGED <<total, clock, known, session, mrow, file, s3, lock, task, now, sawSession, sawFile, expiring, fails>>

GcFileRow ==
    /\ gc = "file_row"
    /\ file' = Absent
    /\ gc' = "orphan_list"
    /\ UNCHANGED <<total, clock, known, session, mrow, feed, s3, lock, task, now, sawSession, sawFile, expiring, fails>>

\* The bucket listing names the file's key.
Listed == bytes # Absent

\* Mutant: an unreferenced key is deleted whatever its age.
GcOrphanListAgeless ==
    /\ gc = "orphan_list"
    /\ gc' = IF Listed /\ ~sawSession /\ sawFile = Absent
             THEN "orphan_delete" ELSE "idle"
    /\ UNCHANGED <<total, clock, known, rows, s3, lock, task, now, sawSession, sawFile, expiring, fails>>

\* The orphan-byte pass lists the bucket; a key that neither listing
\* references and that is old enough is deleted.
GcOrphanList ==
    /\ gc = "orphan_list"
    /\ gc' = IF /\ Listed
                /\ ~sawSession /\ sawFile = Absent
                /\ Expired(bytes.modified, now)
             THEN "orphan_delete" ELSE "idle"
    /\ UNCHANGED <<total, clock, known, rows, s3, lock, task, now, sawSession, sawFile, expiring, fails>>

GcOrphanDelete ==
    /\ gc = "orphan_delete"
    /\ bytes' = Absent
    /\ gc' = "idle"
    /\ UNCHANGED <<total, clock, known, rows, states, mp, lock, task, now, sawSession, sawFile, expiring, fails>>

GcStep ==
    \/ GcListSessions \/ GcListFiles \/ GcSessionLock \/ GcSessionRead
    \/ GcSessionBytes \/ GcSessionAbort \/ GcSessionDrop
    \/ GcFileBytes \/ GcFileAnnounce \/ GcFileRow
    \/ GcOrphanList \/ GcOrphanDelete

-----------------------------------------------------------------------------
(* Failures *)

\* The next call of a handler fails, or the client goes away and the
\* handler's future is dropped.
Fail(t) ==
    /\ fails < MaxFails[total] /\ fails' = fails + 1
    /\ pc[t] # "idle"
    /\ Return(t)
    /\ UNCHANGED <<total, clock, known, rows, s3, sweep>>

\* A failed abort or byte delete keeps the session, a failed byte delete or
\* announce keeps the file, and the sweep goes on; a failed row delete or
\* listing ends the sweep.
GcFail ==
    /\ fails < MaxFails[total] /\ fails' = fails + 1
    /\ gc \notin {"idle", "session_lock"}
    /\ gc' = CASE gc \in {"session_bytes", "session_abort"} -> "file_pass"
               [] gc \in {"file_pass", "file_announce"} -> "orphan_list"
               [] OTHER -> "idle"
    /\ lock' = IF lock = Sweeper THEN Absent ELSE lock
    /\ UNCHANGED <<total, clock, known, rows, s3, task, now, sawSession, sawFile, expiring>>

\* The process dies and starts again.
Restart ==
    /\ fails < MaxFails[total] /\ fails' = fails + 1
    /\ states' = Absent
    /\ lock' = Absent
    /\ pc' = [t \in Task |-> "idle"]
    /\ part' = [t \in Task |-> 1]
    /\ tag' = [t \in Task |-> NoTag]
    /\ copy' = [t \in Task |-> Absent]
    /\ gc' = "idle"
    /\ UNCHANGED <<total, clock, known, rows, mp, bytes, now, sawSession, sawFile, expiring>>

\* An init takes two writes of a row; it does not take the TTL.
Tick ==
    /\ clock < MaxTime
    /\ \A t \in Task : pc[t] \notin {"init_session", "init_row"}
    /\ clock' = clock + 1
    /\ UNCHANGED <<total, known, rows, s3, lock, task, sweep, fails>>

-----------------------------------------------------------------------------
\* The steps that carry a handler that has begun to its end.
Work(t) ==
    \/ InitSession(t) \/ InitRow(t)
    \/ PutObject(t) \/ EnsureLoad(t) \/ EnsureRestore(t) \/ PutPart(t) \/ NotePart(t)
    \/ MergeRow(t) \/ MergeSession(t)
    \/ CompleteRead(t) \/ TakeState(t) \/ Assemble(t) \/ DropRow(t) \/ SaveFile(t)
    \/ AnnounceCreate(t) \/ DropSession(t)
    \/ CancelRead(t) \/ CancelAbort(t)
    \/ DeleteAnnounce(t) \/ DeleteRow(t) \/ DeleteBytes(t)

Next ==
    \/ \E t \in Task :
        \/ InitCreate(t)
        \/ \E p \in Part, e \in Tag : UploadStart(t, p, e)
        \/ MergeLock(t) \/ CompleteLock(t) \/ CancelLock(t) \/ DeleteStart(t)
        \/ Work(t) \/ Fail(t)
    \/ GcStep \/ GcFail \/ Restart \/ Tick

Spec == Init /\ [][Next]_vars

\* The handler inside the session's lock makes progress, the lock is handed
\* over in FIFO order, the sweep runs every hour, and time passes.
FairSpec ==
    /\ Spec
    /\ WF_vars(Tick) /\ SF_vars(GcSessionLock)
    /\ WF_vars(GcStep /\ gc # "session_lock")
    /\ WF_vars(lock \in Task /\ Work(lock))


-----------------------------------------------------------------------------
(* Properties *)

\* gc.rs: no ordering of sweep, part upload and completion "ends with a file
\* whose bytes are gone", unless the sweep is expiring that very file.
CommittedHasBytes ==
    file # Absent /\ ~expiring => bytes # Absent

\* The object of a committed file has the parts that complete_upload was
\* asked to assemble.
CommittedContent ==
    file # Absent /\ bytes # Absent => bytes.content = file.content

\* merge_part: "never the record short of one part", whatever part uploads,
\* completions, failures and restarts interleave.
RecordCoversSession ==
    session # Absent /\ mrow # Absent =>
        \A p \in Part : session.etags[p] # NoTag => mrow[p] # NoTag

\* Once an upload's rows are gone, its multipart upload is not left open in
\* the bucket (an init that never answered aside).
NoStagedPartsLeak ==
    known /\ session = Absent => ~mp.open

\* with_change_sink: "Every announce failure therefore leaves something that
\* a later request can replay it from": a committed file is in the feed, or
\* its session is still there to retry complete_upload with.
CommittedIsReplayable ==
    file # Absent => feed # "none" \/ session # Absent

\* An upload past the TTL is reclaimed, however its clients behave.
ExpiredSessionReclaimed ==
    (session # Absent /\ Expired(session.created, clock)) ~> session = Absent

\* What a client uploaded is what is kept: a part that was answered stays in
\* the record, and the object is made of the parts of the completion.
UploadKept == CommittedContent /\ RecordCoversSession
=============================================================================
