--------------------------- MODULE FsUploadProofs ---------------------------
(***************************************************************************)
(* What holds of an upload for every number of tasks, parts and contents,  *)
(* and for every bound on time and failures.                               *)
(***************************************************************************)
EXTENDS FsUpload, TLAPS

\* What the constants say of an upload of this size.
LEMMA Constants ==
  ASSUME total \in PartCounts
  PROVE  /\ total \in Nat /\ total >= 1 /\ 1 \in Part /\ Part \subseteq Nat
         /\ MaxFails[total] \in Nat /\ TTL \in Nat /\ MaxTime \in Nat
         /\ Sweeper \notin Task /\ Absent \notin Task /\ Absent # Sweeper
         /\ NoTag \notin Tag
         /\ EmptySlots \in Slots
         /\ Absent \notin Slots /\ Absent \notin [created : Nat, etags : Slots]
         /\ Absent \notin [created : Nat, content : Slots]
         /\ Absent \notin [content : Slots, modified : Nat]
BY UploadAssumption DEF Part, Slots, EmptySlots

\* A part's tag goes into a slot of the record, the session or the bucket's
\* list of parts, and what it goes into keeps its type.
LEMMA SlotSet ==
  ASSUME total \in PartCounts, NEW p \in Part, NEW e \in Tag \cup {NoTag}
  PROVE  /\ \A s \in Slots : [s EXCEPT ![p] = e] \in Slots /\ [s EXCEPT ![p] = e] # Absent
         /\ \A r \in [created : Nat, etags : Slots] :
                /\ [r EXCEPT !.etags[p] = e] \in [created : Nat, etags : Slots]
                /\ [r EXCEPT !.etags[p] = e] # Absent
                /\ [r EXCEPT !.etags[p] = e].etags = [r.etags EXCEPT ![p] = e]
         /\ \A m \in [open : BOOLEAN, parts : Slots] :
                [m EXCEPT !.parts[p] = e] \in [open : BOOLEAN, parts : Slots]
<1>1. \A s \in Slots : [s EXCEPT ![p] = e] \in Slots /\ [s EXCEPT ![p] = e] # Absent
  BY Constants DEF Slots
<1>2. \A r \in [created : Nat, etags : Slots] :
         /\ [r EXCEPT !.etags[p] = e] \in [created : Nat, etags : Slots]
         /\ [r EXCEPT !.etags[p] = e].etags = [r.etags EXCEPT ![p] = e]
  BY <1>1
<1>3. \A m \in [open : BOOLEAN, parts : Slots] :
         [m EXCEPT !.parts[p] = e] \in [open : BOOLEAN, parts : Slots]
  BY <1>1
<1> QED
  BY <1>1, <1>2, <1>3, Constants

\* Every row and local has its type at the start.
LEMMA TypeInit == Init => TypeOK
<1> SUFFICES ASSUME Init PROVE TypeOK
  OBVIOUS
<1>1. total \in PartCounts
  BY DEF Init
<1>2. StoreTypeOK
  BY <1>1, Constants DEF Init, StoreTypeOK
<1>3. HandlerTypeOK
  BY <1>1, Constants DEF Init, HandlerTypeOK, Pcs
<1>4. gc \in GcPcs /\ now \in 0..MaxTime /\ clock \in 0..MaxTime /\ fails \in 0..MaxFails[total]
  BY <1>1, Constants DEF Init, GcPcs
<1>5. SweepTypeOK /\ known \in BOOLEAN
  BY <1>4 DEF Init, SweepTypeOK
<1> QED
  BY <1>1, <1>2, <1>3, <1>4, <1>5 DEF TypeOK

\* The request's part count never changes, and what depends on it neither.
LEMMA TotalFixed ==
  ASSUME [Next]_vars
  PROVE  /\ total' = total /\ Part' = Part /\ Slots' = Slots /\ EmptySlots' = EmptySlots
         /\ Single' = Single
<1>1. total' = total
  BY DEF Next, vars, Work, GcStep, InitCreate, UploadStart, MergeLock, CompleteLock, CancelLock,
     DeleteStart, Fail, GcFail, Restart, Tick, InitSession, InitRow, PutObject, EnsureLoad,
     EnsureRestore, PutPart, NotePart, MergeRow, MergeSession, CompleteRead, TakeState, Assemble,
     DropRow, SaveFile, AnnounceCreate, DropSession, CancelRead, CancelAbort, DeleteAnnounce,
     DeleteRow, DeleteBytes, GcListSessions, GcListFiles, GcSessionLock, GcSessionRead,
     GcSessionBytes, GcSessionAbort, GcSessionDrop, GcFileBytes, GcFileAnnounce, GcFileRow,
     GcOrphanList, GcOrphanDelete
<1> QED
  BY <1>1 DEF Part, Slots, EmptySlots, Single

\* Where a handler, and the sweep, is inside the session's lock.
LockedPcs == {"merge_row", "merge_session", "complete_read", "complete_load", "complete_restore",
              "take_state", "assemble", "drop_row", "save_file", "announce", "drop_session",
              "cancel_read", "abort"}
SweepLocked == {"session_read", "session_bytes", "session_abort", "session_drop"}

\* The lock is held by whoever is inside it, and by nobody else.
LockHeld ==
    /\ \A t \in Task : lock = t <=> pc[t] \in LockedPcs
    /\ lock = Sweeper <=> gc \in SweepLocked

\* Whoever has read the session under the lock still finds it there.
SessionThere ==
    /\ \A t \in Task : pc[t] \in LockedPcs \ {"merge_row", "complete_read", "cancel_read"} =>
          session # Absent
    /\ gc \in SweepLocked \ {"session_read"} => session # Absent

InitPcs == {"init_session", "init_row"}

\* Before init_upload has answered, only one handler runs, and it is the
\* init; the sweep does not reclaim what it writes.
InitAlone ==
    /\ ~known => /\ mrow = Absent /\ file = Absent /\ bytes = Absent /\ sawFile = Absent
                 /\ session # Absent => session.etags = EmptySlots
                 /\ \A t \in Task : pc[t] \in InitPcs \cup {"idle"}
    /\ \A t \in Task : pc[t] \in InitPcs => ~known
    /\ \A t, u \in Task : pc[t] \in InitPcs /\ pc[u] \in InitPcs => t = u
    /\ now <= clock
    /\ \A t \in Task : pc[t] = "init_session" => session = Absent
    /\ \A t \in Task : pc[t] = "init_row" =>
        /\ session # Absent /\ session.created = clock
        /\ gc \notin SweepLocked \ {"session_read"}

\* An open multipart upload has its rows; it is closed before they go, and
\* before the file is there.
OpenHasRows ==
    /\ Single => ~mp.open
    /\ ~Single => gc # "session_bytes" /\ \A t \in Task : pc[t] # "put_object"
    /\ known /\ mp.open => session # Absent /\ mrow # Absent
    /\ file # Absent => ~mp.open
    /\ \A t \in Task : pc[t] \in {"drop_row", "save_file", "announce", "drop_session"} => ~mp.open
    /\ gc = "session_drop" /\ known => ~mp.open

UploadPcs == {"put_object", "load", "restore", "put_part", "note_part", "merge_lock",
              "merge_row", "merge_session"}

\* A part is in the record before it is in the session.
PartRecorded ==
    /\ RecordCoversSession
    /\ \A t \in Task : pc[t] \in UploadPcs => tag[t] # NoTag
    /\ \A t \in Task : pc[t] = "merge_session" /\ mrow # Absent => mrow[part[t]] # NoTag

Saving == {"drop_row", "save_file"}
Deleting == {"delete_announce", "delete_row", "delete_bytes"}

\* The file of an upload in several parts is saved once, from the object
\* that was assembled for it, and nothing deletes that object before.
SavedOnce ==
    /\ \A t \in Task :
        pc[t] \in Saving \cup {"complete_load", "complete_restore", "take_state", "assemble"}
            => file = Absent
    /\ ~Single =>
        /\ bytes # Absent \/ file # Absent \/ sawFile # Absent => known /\ ~mp.open
        /\ \A t \in Task : pc[t] \in Saving =>
            /\ ~expiring => bytes # Absent
            /\ bytes # Absent => bytes.content = session.etags
            /\ sawFile = Absent
        /\ CommittedContent
        /\ CommittedHasBytes
        /\ \A t \in Task : pc[t] \in Deleting =>
            /\ known /\ ~mp.open
            /\ \A u \in Task : pc[u] \notin Saving
        /\ \A t \in Task : pc[t] = "delete_bytes" => file = Absent

\* Bytes that the sweep takes for orphans belong to an upload that is over.
OrphanOver ==
    ~Single =>
        /\ (gc # "idle" /\ ~sawSession /\ bytes # Absent /\ bytes.modified < now)
            => session = Absent /\ (gc # "list_files" /\ sawFile = Absent => file = Absent)
        /\ gc = "orphan_delete" => file = Absent /\ session = Absent /\ known

\* Without cancels and sweeps, the session goes only after the announcement.
AnnouncedFirst ==
    Ops[total] \cap {"cancel", "gc"} = {} =>
        /\ gc = "idle" /\ \A t \in Task : pc[t] \notin {"cancel_read", "abort"}
        /\ \A t \in Task : pc[t] = "drop_session" => feed # "none"
        /\ CommittedIsReplayable

\* The inductive invariant.
UploadInv ==
    /\ TypeOK /\ LockHeld /\ SessionThere /\ InitAlone /\ OpenHasRows
    /\ PartRecorded /\ SavedOnce /\ OrphanOver /\ AnnouncedFirst

\* What every step of the argument uses of the types and the constants.
LEMMA UploadFacts ==
  ASSUME UploadInv
  PROVE  /\ TypeOK /\ HandlerTypeOK /\ StoreTypeOK /\ SweepTypeOK /\ clock \in 0..MaxTime
         /\ total \in PartCounts /\ total \in Nat /\ total >= 1 /\ 1 \in Part /\ Part \subseteq Nat
         /\ MaxFails[total] \in Nat /\ TTL \in Nat /\ MaxTime \in Nat /\ EmptySlots \in Slots
         /\ Sweeper \notin Task /\ Absent \notin Task /\ Absent # Sweeper
         /\ NoTag \notin Tag /\ Absent \notin Slots
         /\ \A n \in Nat, s \in Slots : /\ [created |-> n, etags |-> s] # Absent
                                        /\ [created |-> n, content |-> s] # Absent
                                        /\ [content |-> s, modified |-> n] # Absent
<1>1. TypeOK /\ total \in PartCounts
  BY DEF UploadInv, TypeOK
<1>2. HandlerTypeOK /\ StoreTypeOK /\ SweepTypeOK /\ clock \in 0..MaxTime
  BY <1>1 DEF TypeOK
<1> QED
  BY <1>1, <1>2, Constants

\* A handler's program counter, part, tag and copy keep their types, and the
\* lock is held by a handler, by the sweep or by nobody.
LEMMA HandlersTyped ==
  ASSUME UploadInv, [Next]_vars
  PROVE  HandlerTypeOK'
<1>i. LockHeld
  BY DEF UploadInv
<1> USE DEF HandlerTypeOK, Pcs, StoreTypeOK, rows, s3, task, sweep
<1>1. ASSUME NEW t \in Task, InitCreate(t) \/ InitSession(t) \/ InitRow(t) PROVE
      HandlerTypeOK'
  BY TotalFixed, UploadFacts, <1>i, <1>1 DEF InitCreate, InitSession, InitRow, Goto, Return
<1>2. ASSUME NEW t \in Task, NEW p \in Part, NEW e \in Tag, UploadStart(t, p, e) PROVE
      HandlerTypeOK'
  BY TotalFixed, UploadFacts, <1>i, <1>2 DEF UploadStart, Goto
<1>3. ASSUME NEW t \in Task, PutObject(t) \/ EnsureLoad(t) \/ EnsureRestore(t) \/
      PutPart(t) \/ NotePart(t) PROVE HandlerTypeOK'
  BY TotalFixed, UploadFacts, <1>i, <1>3 DEF PutObject, EnsureLoad, EnsureRestore, PutPart,
     NotePart, Goto, Return
<1>4. ASSUME NEW t \in Task, MergeLock(t) \/ MergeRow(t) \/ MergeSession(t) PROVE
      HandlerTypeOK'
  BY TotalFixed, UploadFacts, <1>i, <1>4 DEF MergeLock, MergeRow, MergeSession, TakeLock,
     Goto, Return
<1>5. ASSUME NEW t \in Task, CompleteLock(t) \/ CompleteRead(t) \/ TakeState(t) \/
      Assemble(t) \/ DropRow(t) \/ SaveFile(t) \/ AnnounceCreate(t) \/ DropSession(t) PROVE
      HandlerTypeOK'
  BY TotalFixed, UploadFacts, <1>i, <1>5 DEF CompleteLock, CompleteRead, TakeState, Assemble,
     DropRow, SaveFile, AnnounceCreate, DropSession, TakeLock, Goto, Return
<1>6. ASSUME NEW t \in Task, CancelLock(t) \/ CancelRead(t) \/ CancelAbort(t) PROVE
      HandlerTypeOK'
  BY TotalFixed, UploadFacts, <1>i, <1>6 DEF CancelLock, CancelRead, CancelAbort, TakeLock,
     Goto, Return, Aborted
<1>7. ASSUME NEW t \in Task, DeleteStart(t) \/ DeleteAnnounce(t) \/ DeleteRow(t) \/
      DeleteBytes(t) PROVE HandlerTypeOK'
  BY TotalFixed, UploadFacts, <1>i, <1>7 DEF DeleteStart, DeleteAnnounce, DeleteRow,
     DeleteBytes, Goto, Return
<1>8. CASE GcListSessions \/ GcListFiles \/ GcSessionLock \/ GcSessionRead \/
      GcSessionBytes \/ GcSessionAbort \/ GcSessionDrop \/ GcFileBytes \/ GcFileAnnounce \/
      GcFileRow \/ GcOrphanList \/ GcOrphanDelete
  BY TotalFixed, UploadFacts, <1>i, <1>8 DEF GcListSessions, GcListFiles, GcSessionLock,
     GcSessionRead, GcSessionBytes, GcSessionAbort, GcSessionDrop, GcFileBytes, GcFileAnnounce,
     GcFileRow, GcOrphanList, GcOrphanDelete, Expired, Aborted, Listed
<1>9. ASSUME NEW t \in Task, Fail(t) PROVE HandlerTypeOK'
  BY TotalFixed, UploadFacts, <1>i, <1>9 DEF Fail, Return
<1>10. CASE GcFail \/ Restart \/ Tick
  BY TotalFixed, UploadFacts, <1>i, <1>10 DEF GcFail, Restart, Tick
<1>11. CASE UNCHANGED vars
  BY TotalFixed, UploadFacts, <1>i, <1>11 DEF vars
<1> QED
  BY <1>1, <1>2, <1>3, <1>4, <1>5, <1>6, <1>7, <1>8, <1>9, <1>10, <1>11 DEF Next, Work,
     GcStep

\* Whoever is between taking the session's lock and returning holds it, and
\* nobody else does: Return and the sweep's exits release exactly their own.
LEMMA LockStep ==
  ASSUME UploadInv, [Next]_vars
  PROVE  LockHeld'
<1>i. LockHeld
  BY DEF UploadInv
<1> USE DEF HandlerTypeOK, Pcs, LockHeld, LockedPcs, SweepLocked, rows, s3, task, sweep
<1>1. ASSUME NEW t \in Task, InitCreate(t) \/ InitSession(t) \/ InitRow(t) PROVE LockHeld'
  BY TotalFixed, UploadFacts, <1>i, <1>1 DEF InitCreate, InitSession, InitRow, Goto, Return
<1>2. ASSUME NEW t \in Task, NEW p \in Part, NEW e \in Tag, UploadStart(t, p, e) PROVE
      LockHeld'
  BY TotalFixed, UploadFacts, <1>i, <1>2 DEF UploadStart, Goto
<1>3. ASSUME NEW t \in Task, PutObject(t) \/ EnsureLoad(t) \/ EnsureRestore(t) \/
      PutPart(t) \/ NotePart(t) PROVE LockHeld'
  BY TotalFixed, UploadFacts, <1>i, <1>3 DEF PutObject, EnsureLoad, EnsureRestore, PutPart,
     NotePart, Goto, Return
<1>4. ASSUME NEW t \in Task, MergeLock(t) \/ MergeRow(t) \/ MergeSession(t) PROVE
      LockHeld'
  BY TotalFixed, UploadFacts, <1>i, <1>4 DEF MergeLock, MergeRow, MergeSession, TakeLock,
     Goto, Return
<1>5. ASSUME NEW t \in Task, CompleteLock(t) \/ CompleteRead(t) \/ TakeState(t) \/
      Assemble(t) \/ DropRow(t) \/ SaveFile(t) \/ AnnounceCreate(t) \/ DropSession(t) PROVE
      LockHeld'
  BY TotalFixed, UploadFacts, <1>i, <1>5 DEF CompleteLock, CompleteRead, TakeState, Assemble,
     DropRow, SaveFile, AnnounceCreate, DropSession, TakeLock, Goto, Return
<1>6. ASSUME NEW t \in Task, CancelLock(t) \/ CancelRead(t) \/ CancelAbort(t) PROVE
      LockHeld'
  BY TotalFixed, UploadFacts, <1>i, <1>6 DEF CancelLock, CancelRead, CancelAbort, TakeLock,
     Goto, Return, Aborted
<1>7. ASSUME NEW t \in Task, DeleteStart(t) \/ DeleteAnnounce(t) \/ DeleteRow(t) \/
      DeleteBytes(t) PROVE LockHeld'
  BY TotalFixed, UploadFacts, <1>i, <1>7 DEF DeleteStart, DeleteAnnounce, DeleteRow,
     DeleteBytes, Goto, Return
<1>8. CASE GcListSessions \/ GcListFiles \/ GcSessionLock \/ GcSessionRead \/
      GcSessionBytes \/ GcSessionAbort \/ GcSessionDrop \/ GcFileBytes \/ GcFileAnnounce \/
      GcFileRow \/ GcOrphanList \/ GcOrphanDelete
  BY TotalFixed, UploadFacts, <1>i, <1>8 DEF GcListSessions, GcListFiles, GcSessionLock,
     GcSessionRead, GcSessionBytes, GcSessionAbort, GcSessionDrop, GcFileBytes, GcFileAnnounce,
     GcFileRow, GcOrphanList, GcOrphanDelete, Expired, Aborted, Listed
<1>9. ASSUME NEW t \in Task, Fail(t) PROVE LockHeld'
  BY TotalFixed, UploadFacts, <1>i, <1>9 DEF Fail, Return
<1>10. CASE GcFail \/ Restart \/ Tick
  BY TotalFixed, UploadFacts, <1>i, <1>10 DEF GcFail, Restart, Tick
<1>11. CASE UNCHANGED vars
  BY TotalFixed, UploadFacts, <1>i, <1>11 DEF vars
<1> QED
  BY <1>1, <1>2, <1>3, <1>4, <1>5, <1>6, <1>7, <1>8, <1>9, <1>10, <1>11 DEF Next, Work,
     GcStep

\* Only the lock's holder deletes the session, so one that was read under the
\* lock is there until its reader is done.
LEMMA SessionStep ==
  ASSUME UploadInv, [Next]_vars
  PROVE  SessionThere'
<1>i. LockHeld /\ SessionThere /\ InitAlone
  BY DEF UploadInv
<1> USE DEF HandlerTypeOK, Pcs, LockHeld, SessionThere, InitAlone, InitPcs, LockedPcs,
    SweepLocked, rows, s3, task, sweep
<1>1. ASSUME NEW t \in Task, InitCreate(t) \/ InitSession(t) \/ InitRow(t) PROVE
      SessionThere'
  BY TotalFixed, UploadFacts, <1>i, <1>1 DEF InitCreate, InitSession, InitRow, Goto, Return
<1>2. ASSUME NEW t \in Task, NEW p \in Part, NEW e \in Tag, UploadStart(t, p, e) PROVE
      SessionThere'
  BY TotalFixed, UploadFacts, <1>i, <1>2 DEF UploadStart, Goto
<1>3. ASSUME NEW t \in Task, PutObject(t) \/ EnsureLoad(t) \/ EnsureRestore(t) \/
      PutPart(t) \/ NotePart(t) PROVE SessionThere'
  BY TotalFixed, UploadFacts, <1>i, <1>3 DEF PutObject, EnsureLoad, EnsureRestore, PutPart,
     NotePart, Goto, Return
<1>4. ASSUME NEW t \in Task, MergeLock(t) \/ MergeRow(t) \/ MergeSession(t) PROVE
      SessionThere'
  BY TotalFixed, UploadFacts, <1>i, <1>4 DEF MergeLock, MergeRow, MergeSession, TakeLock,
     Goto, Return
<1>5. ASSUME NEW t \in Task, CompleteLock(t) \/ CompleteRead(t) \/ TakeState(t) \/
      Assemble(t) \/ DropRow(t) \/ SaveFile(t) \/ AnnounceCreate(t) \/ DropSession(t) PROVE
      SessionThere'
  BY TotalFixed, UploadFacts, <1>i, <1>5 DEF CompleteLock, CompleteRead, TakeState, Assemble,
     DropRow, SaveFile, AnnounceCreate, DropSession, TakeLock, Goto, Return
<1>6. ASSUME NEW t \in Task, CancelLock(t) \/ CancelRead(t) \/ CancelAbort(t) PROVE
      SessionThere'
  BY TotalFixed, UploadFacts, <1>i, <1>6 DEF CancelLock, CancelRead, CancelAbort, TakeLock,
     Goto, Return, Aborted
<1>7. ASSUME NEW t \in Task, DeleteStart(t) \/ DeleteAnnounce(t) \/ DeleteRow(t) \/
      DeleteBytes(t) PROVE SessionThere'
  BY TotalFixed, UploadFacts, <1>i, <1>7 DEF DeleteStart, DeleteAnnounce, DeleteRow,
     DeleteBytes, Goto, Return
<1>8. CASE GcListSessions \/ GcListFiles \/ GcSessionLock \/ GcSessionRead \/
      GcSessionBytes \/ GcSessionAbort \/ GcSessionDrop \/ GcFileBytes \/ GcFileAnnounce \/
      GcFileRow \/ GcOrphanList \/ GcOrphanDelete
  BY TotalFixed, UploadFacts, <1>i, <1>8 DEF GcListSessions, GcListFiles, GcSessionLock,
     GcSessionRead, GcSessionBytes, GcSessionAbort, GcSessionDrop, GcFileBytes, GcFileAnnounce,
     GcFileRow, GcOrphanList, GcOrphanDelete, Expired, Aborted, Listed
<1>9. ASSUME NEW t \in Task, Fail(t) PROVE SessionThere'
  BY TotalFixed, UploadFacts, <1>i, <1>9 DEF Fail, Return
<1>10. CASE GcFail \/ Restart \/ Tick
  BY TotalFixed, UploadFacts, <1>i, <1>10 DEF GcFail, Restart, Tick
<1>11. CASE UNCHANGED vars
  BY TotalFixed, UploadFacts, <1>i, <1>11 DEF vars
<1> QED
  BY <1>1, <1>2, <1>3, <1>4, <1>5, <1>6, <1>7, <1>8, <1>9, <1>10, <1>11 DEF Next, Work,
     GcStep

\* An init that has not answered runs alone: no client has the id, and the
\* sweep finds its session too young.
LEMMA InitStep ==
  ASSUME UploadInv, [Next]_vars
  PROVE  InitAlone'
<1>i. LockHeld /\ SessionThere /\ InitAlone
  BY DEF UploadInv
<1> USE DEF HandlerTypeOK, Pcs, SweepTypeOK, StoreTypeOK, LockHeld, SessionThere, InitAlone,
    InitPcs, LockedPcs, SweepLocked, rows, s3, task, sweep
<1>1. ASSUME NEW t \in Task, InitCreate(t) \/ InitSession(t) \/ InitRow(t) PROVE
      InitAlone'
  BY TotalFixed, UploadFacts, <1>i, <1>1 DEF InitCreate, InitSession, InitRow, Goto, Return
<1>2. ASSUME NEW t \in Task, NEW p \in Part, NEW e \in Tag, UploadStart(t, p, e) PROVE
      InitAlone'
  BY TotalFixed, UploadFacts, <1>i, <1>2 DEF UploadStart, Goto
<1>3. ASSUME NEW t \in Task, PutObject(t) \/ EnsureLoad(t) \/ EnsureRestore(t) \/
      PutPart(t) \/ NotePart(t) PROVE InitAlone'
  BY TotalFixed, UploadFacts, <1>i, <1>3 DEF PutObject, EnsureLoad, EnsureRestore, PutPart,
     NotePart, Goto, Return
<1>4. ASSUME NEW t \in Task, MergeLock(t) \/ MergeRow(t) \/ MergeSession(t) PROVE
      InitAlone'
  BY TotalFixed, UploadFacts, <1>i, <1>4 DEF MergeLock, MergeRow, MergeSession, TakeLock,
     Goto, Return
<1>5. ASSUME NEW t \in Task, CompleteLock(t) \/ CompleteRead(t) \/ TakeState(t) \/
      Assemble(t) \/ DropRow(t) \/ SaveFile(t) \/ AnnounceCreate(t) \/ DropSession(t) PROVE
      InitAlone'
  BY TotalFixed, UploadFacts, <1>i, <1>5 DEF CompleteLock, CompleteRead, TakeState, Assemble,
     DropRow, SaveFile, AnnounceCreate, DropSession, TakeLock, Goto, Return
<1>6. ASSUME NEW t \in Task, CancelLock(t) \/ CancelRead(t) \/ CancelAbort(t) PROVE
      InitAlone'
  BY TotalFixed, UploadFacts, <1>i, <1>6 DEF CancelLock, CancelRead, CancelAbort, TakeLock,
     Goto, Return, Aborted
<1>7. ASSUME NEW t \in Task, DeleteStart(t) \/ DeleteAnnounce(t) \/ DeleteRow(t) \/
      DeleteBytes(t) PROVE InitAlone'
  BY TotalFixed, UploadFacts, <1>i, <1>7 DEF DeleteStart, DeleteAnnounce, DeleteRow,
     DeleteBytes, Goto, Return
<1>8. CASE GcListSessions \/ GcListFiles \/ GcSessionLock \/ GcSessionRead \/
      GcSessionBytes \/ GcSessionAbort \/ GcSessionDrop \/ GcFileBytes \/ GcFileAnnounce \/
      GcFileRow \/ GcOrphanList \/ GcOrphanDelete
  BY TotalFixed, UploadFacts, <1>i, <1>8 DEF GcListSessions, GcListFiles, GcSessionLock,
     GcSessionRead, GcSessionBytes, GcSessionAbort, GcSessionDrop, GcFileBytes, GcFileAnnounce,
     GcFileRow, GcOrphanList, GcOrphanDelete, Expired, Aborted, Listed
<1>9. ASSUME NEW t \in Task, Fail(t) PROVE InitAlone'
  BY TotalFixed, UploadFacts, <1>i, <1>9 DEF Fail, Return
<1>10. CASE GcFail \/ Restart \/ Tick
  BY TotalFixed, UploadFacts, <1>i, <1>10 DEF GcFail, Restart, Tick
<1>11. CASE UNCHANGED vars
  BY TotalFixed, UploadFacts, <1>i, <1>11 DEF vars
<1> QED
  BY <1>1, <1>2, <1>3, <1>4, <1>5, <1>6, <1>7, <1>8, <1>9, <1>10, <1>11 DEF Next, Work,
     GcStep

\* complete, abort and the sweep close the multipart upload before they delete
\* its rows.
LEMMA OpenStep ==
  ASSUME UploadInv, [Next]_vars
  PROVE  OpenHasRows'
<1>i. LockHeld /\ SessionThere /\ InitAlone /\ OpenHasRows
  BY DEF UploadInv
<1> USE DEF HandlerTypeOK, Pcs, StoreTypeOK, LockHeld, SessionThere, InitAlone, OpenHasRows,
    InitPcs, LockedPcs, SweepLocked, rows, s3, task, sweep
<1>1. ASSUME NEW t \in Task, InitCreate(t) \/ InitSession(t) \/ InitRow(t) PROVE
      OpenHasRows'
  BY TotalFixed, UploadFacts, <1>i, <1>1 DEF InitCreate, InitSession, InitRow, Goto, Return
<1>2. ASSUME NEW t \in Task, NEW p \in Part, NEW e \in Tag, UploadStart(t, p, e) PROVE
      OpenHasRows'
  BY TotalFixed, UploadFacts, <1>i, <1>2 DEF UploadStart, Goto
<1>3. ASSUME NEW t \in Task, PutObject(t) \/ EnsureLoad(t) \/ EnsureRestore(t) \/
      PutPart(t) \/ NotePart(t) PROVE OpenHasRows'
  BY TotalFixed, UploadFacts, <1>i, <1>3 DEF PutObject, EnsureLoad, EnsureRestore, PutPart,
     NotePart, Goto, Return
<1>4. ASSUME NEW t \in Task, MergeLock(t) PROVE OpenHasRows'
  BY TotalFixed, UploadFacts, <1>i, <1>4 DEF MergeLock, TakeLock, Goto
<1>5. ASSUME NEW t \in Task, MergeRow(t) PROVE OpenHasRows'
  <2>1. part[t] \in Part /\ tag[t] \in Tag \cup {NoTag}
    BY UploadFacts DEF HandlerTypeOK
  <2>2. mrow # Absent =>
          [mrow EXCEPT ![part[t]] = tag[t]] \in Slots /\ [mrow EXCEPT ![part[t]] = tag[t]] # Absent
    BY UploadFacts, <2>1, SlotSet DEF TypeOK, StoreTypeOK
  <2> QED
    BY TotalFixed, UploadFacts, <1>i, <1>5, <2>1, <2>2 DEF MergeRow, Goto, Return
<1>6. ASSUME NEW t \in Task, MergeSession(t) PROVE OpenHasRows'
  <2>1. /\ part[t] \in Part /\ tag[t] \in Tag \cup {NoTag}
        /\ session \in [created : Nat, etags : Slots]
    BY UploadFacts, <1>i, <1>6 DEF MergeSession, HandlerTypeOK, StoreTypeOK, SessionThere,
       LockedPcs
  <2>2. session' \in [created : Nat, etags : Slots] /\ session' # Absent
    BY UploadFacts, <2>1, <1>6, SlotSet DEF TypeOK, MergeSession
  <2>3. /\ pc[t] = "merge_session" /\ Return(t)
        /\ UNCHANGED <<total, clock, known, mrow, file, feed, s3, sweep, fails>>
    BY <1>6 DEF MergeSession
  <2> QED
    BY TotalFixed, UploadFacts, <1>i, <2>1, <2>2, <2>3 DEF Return
<1>7. ASSUME NEW t \in Task, CompleteLock(t) \/ CompleteRead(t) \/ TakeState(t) \/
      Assemble(t) \/ DropRow(t) \/ SaveFile(t) \/ AnnounceCreate(t) \/ DropSession(t) PROVE
      OpenHasRows'
  BY TotalFixed, UploadFacts, <1>i, <1>7 DEF CompleteLock, CompleteRead, TakeState, Assemble,
     DropRow, SaveFile, AnnounceCreate, DropSession, TakeLock, Goto, Return
<1>8. ASSUME NEW t \in Task, CancelLock(t) \/ CancelRead(t) \/ CancelAbort(t) PROVE
      OpenHasRows'
  BY TotalFixed, UploadFacts, <1>i, <1>8 DEF CancelLock, CancelRead, CancelAbort, TakeLock,
     Goto, Return, Aborted
<1>9. ASSUME NEW t \in Task, DeleteStart(t) \/ DeleteAnnounce(t) \/ DeleteRow(t) \/
      DeleteBytes(t) PROVE OpenHasRows'
  BY TotalFixed, UploadFacts, <1>i, <1>9 DEF DeleteStart, DeleteAnnounce, DeleteRow,
     DeleteBytes, Goto, Return
<1>10. CASE GcListSessions \/ GcListFiles \/ GcSessionLock \/ GcSessionRead \/
      GcSessionBytes \/ GcSessionAbort \/ GcSessionDrop \/ GcFileBytes \/ GcFileAnnounce \/
      GcFileRow \/ GcOrphanList \/ GcOrphanDelete
  BY TotalFixed, UploadFacts, <1>i, <1>10 DEF GcListSessions, GcListFiles, GcSessionLock,
     GcSessionRead, GcSessionBytes, GcSessionAbort, GcSessionDrop, GcFileBytes, GcFileAnnounce,
     GcFileRow, GcOrphanList, GcOrphanDelete, Expired, Aborted, Listed
<1>11. ASSUME NEW t \in Task, Fail(t) PROVE OpenHasRows'
  BY TotalFixed, UploadFacts, <1>i, <1>11 DEF Fail, Return
<1>12. CASE GcFail \/ Restart \/ Tick
  BY TotalFixed, UploadFacts, <1>i, <1>12 DEF GcFail, Restart, Tick
<1>13. CASE UNCHANGED vars
  BY TotalFixed, UploadFacts, <1>i, <1>13 DEF vars
<1> QED
  BY <1>1, <1>2, <1>3, <1>4, <1>5, <1>6, <1>7, <1>8, <1>9, <1>10, <1>11, <1>12, <1>13 DEF
     Next, Work, GcStep

\* merge_part writes the record first and the session second, under one lock,
\* so the record never lacks a part the session has.
LEMMA RecordedStep ==
  ASSUME UploadInv, [Next]_vars
  PROVE  PartRecorded'
<1>i. LockHeld /\ SessionThere /\ InitAlone /\ PartRecorded
  BY DEF UploadInv
<1> USE DEF HandlerTypeOK, Pcs, StoreTypeOK, LockHeld, SessionThere, InitAlone, PartRecorded,
    RecordCoversSession, UploadPcs, InitPcs, LockedPcs, SweepLocked, rows, s3, task,
    sweep
<1>1. ASSUME NEW t \in Task, InitCreate(t) \/ InitSession(t) \/ InitRow(t) PROVE
      PartRecorded'
  BY TotalFixed, UploadFacts, <1>i, <1>1 DEF Slots, EmptySlots, InitCreate, InitSession,
     InitRow, Goto, Return
<1>2. ASSUME NEW t \in Task, NEW p \in Part, NEW e \in Tag, UploadStart(t, p, e) PROVE
      PartRecorded'
  BY TotalFixed, UploadFacts, <1>i, <1>2 DEF UploadStart, Goto
<1>3. ASSUME NEW t \in Task, PutObject(t) \/ EnsureLoad(t) \/ EnsureRestore(t) \/
      PutPart(t) \/ NotePart(t) PROVE PartRecorded'
  BY TotalFixed, UploadFacts, <1>i, <1>3 DEF PutObject, EnsureLoad, EnsureRestore, PutPart,
     NotePart, Goto, Return
<1>4. ASSUME NEW t \in Task, MergeLock(t) \/ MergeRow(t) \/ MergeSession(t) PROVE
      PartRecorded'
  BY TotalFixed, UploadFacts, <1>i, <1>4 DEF Slots, EmptySlots, MergeLock, MergeRow,
     MergeSession, TakeLock, Goto, Return
<1>5. ASSUME NEW t \in Task, CompleteLock(t) \/ CompleteRead(t) \/ TakeState(t) \/
      Assemble(t) \/ DropRow(t) \/ SaveFile(t) \/ AnnounceCreate(t) \/ DropSession(t) PROVE
      PartRecorded'
  BY TotalFixed, UploadFacts, <1>i, <1>5 DEF CompleteLock, CompleteRead, TakeState, Assemble,
     DropRow, SaveFile, AnnounceCreate, DropSession, TakeLock, Goto, Return
<1>6. ASSUME NEW t \in Task, CancelLock(t) \/ CancelRead(t) \/ CancelAbort(t) PROVE
      PartRecorded'
  BY TotalFixed, UploadFacts, <1>i, <1>6 DEF CancelLock, CancelRead, CancelAbort, TakeLock,
     Goto, Return, Aborted
<1>7. ASSUME NEW t \in Task, DeleteStart(t) \/ DeleteAnnounce(t) \/ DeleteRow(t) \/
      DeleteBytes(t) PROVE PartRecorded'
  BY TotalFixed, UploadFacts, <1>i, <1>7 DEF DeleteStart, DeleteAnnounce, DeleteRow,
     DeleteBytes, Goto, Return
<1>8. CASE GcListSessions \/ GcListFiles \/ GcSessionLock \/ GcSessionRead \/
      GcSessionBytes \/ GcSessionAbort \/ GcSessionDrop \/ GcFileBytes \/ GcFileAnnounce \/
      GcFileRow \/ GcOrphanList \/ GcOrphanDelete
  BY TotalFixed, UploadFacts, <1>i, <1>8 DEF GcListSessions, GcListFiles, GcSessionLock,
     GcSessionRead, GcSessionBytes, GcSessionAbort, GcSessionDrop, GcFileBytes, GcFileAnnounce,
     GcFileRow, GcOrphanList, GcOrphanDelete, Expired, Aborted, Listed
<1>9. ASSUME NEW t \in Task, Fail(t) PROVE PartRecorded'
  BY TotalFixed, UploadFacts, <1>i, <1>9 DEF Fail, Return
<1>10. CASE GcFail \/ Restart \/ Tick
  BY TotalFixed, UploadFacts, <1>i, <1>10 DEF GcFail, Restart, Tick
<1>11. CASE UNCHANGED vars
  BY TotalFixed, UploadFacts, <1>i, <1>11 DEF vars
<1> QED
  BY <1>1, <1>2, <1>3, <1>4, <1>5, <1>6, <1>7, <1>8, <1>9, <1>10, <1>11 DEF Next, Work,
     GcStep

\* The file of an upload in several parts is saved once, from the object
\* assembled for it, which no delete and no sweep has taken.
LEMMA SavedStep ==
  ASSUME UploadInv, [Next]_vars
  PROVE  SavedOnce'
<1>i. LockHeld /\ SessionThere /\ InitAlone /\ OpenHasRows /\ SavedOnce /\ OrphanOver
  BY DEF UploadInv
<1> USE DEF HandlerTypeOK, Pcs, StoreTypeOK, LockHeld, SessionThere, InitAlone, OpenHasRows,
    SavedOnce, OrphanOver, CommittedContent, CommittedHasBytes, Saving, Deleting,
    InitPcs, LockedPcs, SweepLocked, rows, s3, task, sweep
<1>1. ASSUME NEW t \in Task, InitCreate(t) \/ InitSession(t) \/ InitRow(t) PROVE
      SavedOnce'
  BY TotalFixed, UploadFacts, <1>i, <1>1 DEF InitCreate, InitSession, InitRow, Goto, Return
<1>2. ASSUME NEW t \in Task, NEW p \in Part, NEW e \in Tag, UploadStart(t, p, e) PROVE
      SavedOnce'
  BY TotalFixed, UploadFacts, <1>i, <1>2 DEF UploadStart, Goto
<1>3. ASSUME NEW t \in Task, PutObject(t) \/ EnsureLoad(t) \/ EnsureRestore(t) \/
      PutPart(t) \/ NotePart(t) PROVE SavedOnce'
  BY TotalFixed, UploadFacts, <1>i, <1>3 DEF PutObject, EnsureLoad, EnsureRestore, PutPart,
     NotePart, Goto, Return
<1>4. ASSUME NEW t \in Task, MergeLock(t) \/ MergeRow(t) \/ MergeSession(t) PROVE
      SavedOnce'
  BY TotalFixed, UploadFacts, <1>i, <1>4 DEF MergeLock, MergeRow, MergeSession, TakeLock,
     Goto, Return
<1>5. ASSUME NEW t \in Task, CompleteLock(t) \/ CompleteRead(t) \/ TakeState(t) \/
      Assemble(t) \/ DropRow(t) \/ SaveFile(t) \/ AnnounceCreate(t) \/ DropSession(t) PROVE
      SavedOnce'
  BY TotalFixed, UploadFacts, <1>i, <1>5 DEF CompleteLock, CompleteRead, TakeState, Assemble,
     DropRow, SaveFile, AnnounceCreate, DropSession, TakeLock, Goto, Return
<1>6. ASSUME NEW t \in Task, CancelLock(t) \/ CancelRead(t) \/ CancelAbort(t) PROVE
      SavedOnce'
  BY TotalFixed, UploadFacts, <1>i, <1>6 DEF CancelLock, CancelRead, CancelAbort, TakeLock,
     Goto, Return, Aborted
<1>7. ASSUME NEW t \in Task, DeleteStart(t) \/ DeleteAnnounce(t) \/ DeleteRow(t) \/
      DeleteBytes(t) PROVE SavedOnce'
  BY TotalFixed, UploadFacts, <1>i, <1>7 DEF DeleteStart, DeleteAnnounce, DeleteRow,
     DeleteBytes, Goto, Return
<1>8. CASE GcListSessions \/ GcListFiles \/ GcSessionLock \/ GcSessionRead \/
      GcSessionBytes \/ GcSessionAbort \/ GcSessionDrop \/ GcFileBytes \/ GcFileAnnounce \/
      GcFileRow \/ GcOrphanList \/ GcOrphanDelete
  BY TotalFixed, UploadFacts, <1>i, <1>8 DEF GcListSessions, GcListFiles, GcSessionLock,
     GcSessionRead, GcSessionBytes, GcSessionAbort, GcSessionDrop, GcFileBytes, GcFileAnnounce,
     GcFileRow, GcOrphanList, GcOrphanDelete, Expired, Aborted, Listed
<1>9. ASSUME NEW t \in Task, Fail(t) PROVE SavedOnce'
  BY TotalFixed, UploadFacts, <1>i, <1>9 DEF Fail, Return
<1>10. CASE GcFail \/ Restart \/ Tick
  BY TotalFixed, UploadFacts, <1>i, <1>10 DEF GcFail, Restart, Tick
<1>11. CASE UNCHANGED vars
  BY TotalFixed, UploadFacts, <1>i, <1>11 DEF vars
<1> QED
  BY <1>1, <1>2, <1>3, <1>4, <1>5, <1>6, <1>7, <1>8, <1>9, <1>10, <1>11 DEF Next, Work,
     GcStep

\* The orphan pass listed sessions before files and files before bytes: what
\* it found in none of them belongs to no upload still under way.
LEMMA OrphanStep ==
  ASSUME UploadInv, [Next]_vars
  PROVE  OrphanOver'
<1>i. LockHeld /\ SessionThere /\ InitAlone /\ SavedOnce /\ OrphanOver
  BY DEF UploadInv
<1> USE DEF HandlerTypeOK, Pcs, SweepTypeOK, StoreTypeOK, LockHeld, SessionThere, InitAlone,
    SavedOnce, OrphanOver, InitPcs, LockedPcs, SweepLocked, rows, s3, task, sweep
<1>1. ASSUME NEW t \in Task, InitCreate(t) \/ InitSession(t) \/ InitRow(t) PROVE
      OrphanOver'
  BY TotalFixed, UploadFacts, <1>i, <1>1 DEF InitCreate, InitSession, InitRow, Goto, Return
<1>2. ASSUME NEW t \in Task, NEW p \in Part, NEW e \in Tag, UploadStart(t, p, e) PROVE
      OrphanOver'
  BY TotalFixed, UploadFacts, <1>i, <1>2 DEF UploadStart, Goto
<1>3. ASSUME NEW t \in Task, PutObject(t) \/ EnsureLoad(t) \/ EnsureRestore(t) \/
      PutPart(t) \/ NotePart(t) PROVE OrphanOver'
  BY TotalFixed, UploadFacts, <1>i, <1>3 DEF PutObject, EnsureLoad, EnsureRestore, PutPart,
     NotePart, Goto, Return
<1>4. ASSUME NEW t \in Task, MergeLock(t) \/ MergeRow(t) \/ MergeSession(t) PROVE
      OrphanOver'
  BY TotalFixed, UploadFacts, <1>i, <1>4 DEF MergeLock, MergeRow, MergeSession, TakeLock,
     Goto, Return
<1>5. ASSUME NEW t \in Task, CompleteLock(t) \/ CompleteRead(t) \/ TakeState(t) \/
      Assemble(t) \/ DropRow(t) \/ SaveFile(t) \/ AnnounceCreate(t) \/ DropSession(t) PROVE
      OrphanOver'
  BY TotalFixed, UploadFacts, <1>i, <1>5 DEF CompleteLock, CompleteRead, TakeState, Assemble,
     DropRow, SaveFile, AnnounceCreate, DropSession, TakeLock, Goto, Return
<1>6. ASSUME NEW t \in Task, CancelLock(t) \/ CancelRead(t) \/ CancelAbort(t) PROVE
      OrphanOver'
  BY TotalFixed, UploadFacts, <1>i, <1>6 DEF CancelLock, CancelRead, CancelAbort, TakeLock,
     Goto, Return, Aborted
<1>7. ASSUME NEW t \in Task, DeleteStart(t) \/ DeleteAnnounce(t) \/ DeleteRow(t) \/
      DeleteBytes(t) PROVE OrphanOver'
  BY TotalFixed, UploadFacts, <1>i, <1>7 DEF DeleteStart, DeleteAnnounce, DeleteRow,
     DeleteBytes, Goto, Return
<1>8. CASE GcListSessions
  BY TotalFixed, UploadFacts, <1>i, <1>8 DEF GcListSessions
<1>9. CASE GcListFiles
  BY TotalFixed, UploadFacts, <1>i, <1>9 DEF GcListFiles
<1>10. CASE GcSessionLock \/ GcSessionRead \/ GcSessionBytes \/ GcSessionAbort \/
      GcSessionDrop
  BY TotalFixed, UploadFacts, <1>i, <1>10 DEF GcSessionLock, GcSessionRead, GcSessionBytes,
     GcSessionAbort, GcSessionDrop, Expired, Aborted
<1>11. CASE GcFileBytes \/ GcFileAnnounce \/ GcFileRow
  BY TotalFixed, UploadFacts, <1>i, <1>11 DEF GcFileBytes, GcFileAnnounce, GcFileRow, Expired
<1>12. CASE GcOrphanList \/ GcOrphanDelete
  BY TotalFixed, UploadFacts, <1>i, <1>12 DEF GcOrphanList, GcOrphanDelete, Expired, Listed
<1>13. ASSUME NEW t \in Task, Fail(t) PROVE OrphanOver'
  BY TotalFixed, UploadFacts, <1>i, <1>13 DEF Fail, Return
<1>14. CASE GcFail \/ Restart \/ Tick
  BY TotalFixed, UploadFacts, <1>i, <1>14 DEF GcFail, Restart, Tick
<1>15. CASE UNCHANGED vars
  BY TotalFixed, UploadFacts, <1>i, <1>15 DEF vars
<1> QED
  BY <1>1, <1>2, <1>3, <1>4, <1>5, <1>6, <1>7, <1>8, <1>9, <1>10, <1>11, <1>12, <1>13, <1>14,
     <1>15 DEF Next, Work, GcStep

\* Rows, the client's multipart state, the bucket and the object keep their
\* types.
LEMMA StoreTyped ==
  ASSUME UploadInv, [Next]_vars
  PROVE  StoreTypeOK'
<1>i. LockHeld /\ SessionThere
  BY DEF UploadInv
<1> USE DEF HandlerTypeOK, Pcs, StoreTypeOK, LockHeld, SessionThere, LockedPcs, SweepLocked,
    rows, s3, task, sweep
<1>1. ASSUME NEW t \in Task, InitCreate(t) PROVE StoreTypeOK'
  <2>1. mp' \in [open : BOOLEAN, parts : Slots]
    BY UploadFacts, <1>1 DEF StoreTypeOK, InitCreate
  <2>2. /\ states' = IF Single THEN states ELSE EmptySlots
        /\ UNCHANGED <<rows, bytes>>
    BY <1>1 DEF InitCreate
  <2> QED
    BY TotalFixed, UploadFacts, <2>1, <2>2 DEF StoreTypeOK, rows
<1>2. ASSUME NEW t \in Task, InitSession(t) \/ InitRow(t) PROVE StoreTypeOK'
  BY TotalFixed, UploadFacts, <1>i, <1>2 DEF InitSession, InitRow, Goto, Return
<1>3. ASSUME NEW t \in Task, NEW p \in Part, NEW e \in Tag, UploadStart(t, p, e) PROVE
      StoreTypeOK'
  BY TotalFixed, UploadFacts, <1>i, <1>3 DEF UploadStart, Goto
<1>4. ASSUME NEW t \in Task, PutObject(t) PROVE StoreTypeOK'
  <2>1. [p \in Part |-> tag[t]] \in Slots
    BY UploadFacts DEF HandlerTypeOK, Slots
  <2>2. clock \in Nat
    BY UploadFacts
  <2>3. /\ bytes' = [content |-> [p \in Part |-> tag[t]], modified |-> clock]
        /\ UNCHANGED <<rows, states, mp>>
    BY <1>4 DEF PutObject
  <2>4. bytes' \in [content : Slots, modified : Nat]
    BY <2>1, <2>2, <2>3
  <2> QED
    BY TotalFixed, UploadFacts, <2>3, <2>4 DEF StoreTypeOK, rows
<1>5. ASSUME NEW t \in Task, EnsureLoad(t) \/ EnsureRestore(t) PROVE StoreTypeOK'
  BY TotalFixed, UploadFacts, <1>i, <1>5 DEF EnsureLoad, EnsureRestore, Goto, Return
<1>6. ASSUME NEW t \in Task, PutPart(t) PROVE StoreTypeOK'
  <2>1. part[t] \in Part /\ tag[t] \in Tag \cup {NoTag}
    BY UploadFacts DEF HandlerTypeOK
  <2>2. [mp EXCEPT !.parts[part[t]] = tag[t]] \in [open : BOOLEAN, parts : Slots]
    BY UploadFacts, <2>1, SlotSet DEF TypeOK, StoreTypeOK
  <2>3. /\ mp' = mp \/ mp' = [mp EXCEPT !.parts[part[t]] = tag[t]]
        /\ UNCHANGED <<rows, states, bytes>>
    BY <1>6 DEF PutPart
  <2> QED
    BY TotalFixed, UploadFacts, <2>2, <2>3 DEF StoreTypeOK, rows
<1>7. ASSUME NEW t \in Task, NotePart(t) PROVE StoreTypeOK'
  <2>1. part[t] \in Part /\ tag[t] \in Tag \cup {NoTag}
    BY UploadFacts DEF HandlerTypeOK
  <2>2. states # Absent => [states EXCEPT ![part[t]] = tag[t]] \in Slots
    BY UploadFacts, <2>1, SlotSet DEF TypeOK, StoreTypeOK
  <2>3. /\ states' = IF states = Absent THEN Absent ELSE [states EXCEPT ![part[t]] = tag[t]]
        /\ UNCHANGED <<rows, mp, bytes>>
    BY <1>7 DEF NotePart
  <2> QED
    BY TotalFixed, UploadFacts, <2>2, <2>3 DEF StoreTypeOK, rows
<1>8. ASSUME NEW t \in Task, MergeLock(t) PROVE StoreTypeOK'
  BY TotalFixed, UploadFacts, <1>i, <1>8 DEF MergeLock, TakeLock, Goto
<1>9. ASSUME NEW t \in Task, MergeRow(t) PROVE StoreTypeOK'
  <2>1. part[t] \in Part /\ tag[t] \in Tag \cup {NoTag}
    BY UploadFacts DEF HandlerTypeOK
  <2>2. mrow # Absent =>
          [mrow EXCEPT ![part[t]] = tag[t]] \in Slots /\ [mrow EXCEPT ![part[t]] = tag[t]] # Absent
    BY UploadFacts, <2>1, SlotSet DEF TypeOK, StoreTypeOK
  <2> QED
    BY TotalFixed, UploadFacts, <1>i, <1>9, <2>1, <2>2 DEF MergeRow, Goto, Return
<1>10. ASSUME NEW t \in Task, MergeSession(t) PROVE StoreTypeOK'
  <2>1. /\ part[t] \in Part /\ tag[t] \in Tag \cup {NoTag}
        /\ session \in [created : Nat, etags : Slots]
    BY UploadFacts, <1>i, <1>10 DEF MergeSession, HandlerTypeOK, StoreTypeOK, SessionThere,
       LockedPcs
  <2>2. session' \in [created : Nat, etags : Slots] /\ session' # Absent
    BY UploadFacts, <2>1, <1>10, SlotSet DEF TypeOK, MergeSession
  <2>3. /\ pc[t] = "merge_session" /\ Return(t)
        /\ UNCHANGED <<total, clock, known, mrow, file, feed, s3, sweep, fails>>
    BY <1>10 DEF MergeSession
  <2> QED
    BY TotalFixed, UploadFacts, <1>i, <2>1, <2>2, <2>3 DEF Return
<1>11. ASSUME NEW t \in Task, CompleteLock(t) \/ CompleteRead(t) \/ TakeState(t) PROVE
      StoreTypeOK'
  BY TotalFixed, UploadFacts, <1>i, <1>11 DEF CompleteLock, CompleteRead, TakeState,
     TakeLock, Goto, Return
<1>12. ASSUME NEW t \in Task, Assemble(t) PROVE StoreTypeOK'
  <2>0. mp.parts \in Slots /\ [mp EXCEPT !.open = FALSE] \in [open : BOOLEAN, parts : Slots]
    BY UploadFacts DEF StoreTypeOK
  <2>1. clock \in Nat
    BY UploadFacts
  <2>2. [content |-> mp.parts, modified |-> clock] \in [content : Slots, modified : Nat]
    BY <2>0, <2>1
  <2>3. /\ \/ mp' = mp /\ bytes' = bytes
           \/ mp' = [mp EXCEPT !.open = FALSE] /\ bytes' = [content |-> mp.parts, modified |-> clock]
        /\ UNCHANGED <<rows, states>>
    BY <1>12 DEF Assemble
  <2> QED
    BY TotalFixed, UploadFacts, <2>0, <2>2, <2>3 DEF StoreTypeOK, rows
<1>13. ASSUME NEW t \in Task, DropRow(t) \/ SaveFile(t) \/ AnnounceCreate(t) \/
      DropSession(t) PROVE StoreTypeOK'
  BY TotalFixed, UploadFacts, <1>i, <1>13 DEF DropRow, SaveFile, AnnounceCreate, DropSession,
     Goto, Return
<1>14. ASSUME NEW t \in Task, CancelLock(t) \/ CancelRead(t) \/ CancelAbort(t) PROVE
      StoreTypeOK'
  BY TotalFixed, UploadFacts, <1>i, <1>14, ZenonT(60) DEF CancelLock, CancelRead, CancelAbort,
     TakeLock, Goto, Return, Aborted
<1>15. ASSUME NEW t \in Task, DeleteStart(t) \/ DeleteAnnounce(t) \/ DeleteRow(t) \/
      DeleteBytes(t) PROVE StoreTypeOK'
  BY TotalFixed, UploadFacts, <1>i, <1>15 DEF DeleteStart, DeleteAnnounce, DeleteRow,
     DeleteBytes, Goto, Return
<1>16. CASE GcListSessions \/ GcListFiles \/ GcSessionLock \/ GcSessionRead \/
      GcSessionBytes \/ GcSessionAbort \/ GcSessionDrop \/ GcFileBytes \/ GcFileAnnounce \/
      GcFileRow \/ GcOrphanList \/ GcOrphanDelete
  BY TotalFixed, UploadFacts, <1>i, <1>16, ZenonT(60) DEF GcListSessions, GcListFiles,
     GcSessionLock, GcSessionRead, GcSessionBytes, GcSessionAbort, GcSessionDrop, GcFileBytes,
     GcFileAnnounce, GcFileRow, GcOrphanList, GcOrphanDelete, Expired, Aborted, Listed
<1>17. ASSUME NEW t \in Task, Fail(t) PROVE StoreTypeOK'
  BY TotalFixed, UploadFacts, <1>i, <1>17 DEF Fail, Return
<1>18. CASE GcFail \/ Restart \/ Tick
  BY TotalFixed, UploadFacts, <1>i, <1>18 DEF GcFail, Restart, Tick
<1>19. CASE UNCHANGED vars
  BY TotalFixed, UploadFacts, <1>i, <1>19 DEF vars
<1> QED
  BY <1>1, <1>2, <1>3, <1>4, <1>5, <1>6, <1>7, <1>8, <1>9, <1>10, <1>11, <1>12, <1>13, <1>14,
     <1>15, <1>16, <1>17, <1>18, <1>19 DEF Next, Work, GcStep

\* The sweep's position, its clock and its two listings keep their types.
LEMMA SweepTyped ==
  ASSUME UploadInv, [Next]_vars
  PROVE  SweepTypeOK'
<1>i. LockHeld
  BY DEF UploadInv
<1> USE DEF StoreTypeOK, GcPcs, SweepTypeOK, rows, s3, task, sweep
<1>1. ASSUME NEW t \in Task, InitCreate(t) \/ InitSession(t) \/ InitRow(t) PROVE
      SweepTypeOK'
  BY TotalFixed, UploadFacts, <1>i, <1>1 DEF InitCreate, InitSession, InitRow, Goto, Return
<1>2. ASSUME NEW t \in Task, NEW p \in Part, NEW e \in Tag, UploadStart(t, p, e) PROVE
      SweepTypeOK'
  BY TotalFixed, UploadFacts, <1>i, <1>2 DEF UploadStart, Goto
<1>3. ASSUME NEW t \in Task, PutObject(t) \/ EnsureLoad(t) \/ EnsureRestore(t) \/
      PutPart(t) \/ NotePart(t) PROVE SweepTypeOK'
  BY TotalFixed, UploadFacts, <1>i, <1>3 DEF PutObject, EnsureLoad, EnsureRestore, PutPart,
     NotePart, Goto, Return
<1>4. ASSUME NEW t \in Task, MergeLock(t) \/ MergeRow(t) \/ MergeSession(t) PROVE
      SweepTypeOK'
  BY TotalFixed, UploadFacts, <1>i, <1>4 DEF MergeLock, MergeRow, MergeSession, TakeLock,
     Goto, Return
<1>5. ASSUME NEW t \in Task, CompleteLock(t) \/ CompleteRead(t) \/ TakeState(t) \/
      Assemble(t) \/ DropRow(t) \/ SaveFile(t) \/ AnnounceCreate(t) \/ DropSession(t) PROVE
      SweepTypeOK'
  BY TotalFixed, UploadFacts, <1>i, <1>5 DEF CompleteLock, CompleteRead, TakeState, Assemble,
     DropRow, SaveFile, AnnounceCreate, DropSession, TakeLock, Goto, Return
<1>6. ASSUME NEW t \in Task, CancelLock(t) \/ CancelRead(t) \/ CancelAbort(t) PROVE
      SweepTypeOK'
  BY TotalFixed, UploadFacts, <1>i, <1>6 DEF CancelLock, CancelRead, CancelAbort, TakeLock,
     Goto, Return, Aborted
<1>7. ASSUME NEW t \in Task, DeleteStart(t) \/ DeleteAnnounce(t) \/ DeleteRow(t) \/
      DeleteBytes(t) PROVE SweepTypeOK'
  BY TotalFixed, UploadFacts, <1>i, <1>7 DEF DeleteStart, DeleteAnnounce, DeleteRow,
     DeleteBytes, Goto, Return
<1>8. CASE GcListSessions \/ GcListFiles \/ GcSessionLock \/ GcSessionRead \/
      GcSessionBytes \/ GcSessionAbort \/ GcSessionDrop \/ GcFileBytes \/ GcFileAnnounce \/
      GcFileRow \/ GcOrphanList \/ GcOrphanDelete
  BY TotalFixed, UploadFacts, <1>i, <1>8 DEF GcListSessions, GcListFiles, GcSessionLock,
     GcSessionRead, GcSessionBytes, GcSessionAbort, GcSessionDrop, GcFileBytes, GcFileAnnounce,
     GcFileRow, GcOrphanList, GcOrphanDelete, Expired, Aborted, Listed
<1>9. ASSUME NEW t \in Task, Fail(t) PROVE SweepTypeOK'
  BY TotalFixed, UploadFacts, <1>i, <1>9 DEF Fail, Return
<1>10. CASE GcFail \/ Restart \/ Tick
  BY TotalFixed, UploadFacts, <1>i, <1>10 DEF GcFail, Restart, Tick
<1>11. CASE UNCHANGED vars
  BY TotalFixed, UploadFacts, <1>i, <1>11 DEF vars
<1> QED
  BY <1>1, <1>2, <1>3, <1>4, <1>5, <1>6, <1>7, <1>8, <1>9, <1>10, <1>11 DEF Next, Work,
     GcStep

\* Without cancels and sweeps only a completion drops the session, and it has
\* announced the file before.
LEMMA AnnouncedStep ==
  ASSUME UploadInv, [Next]_vars
  PROVE  AnnouncedFirst'
<1>i. LockHeld /\ SessionThere /\ AnnouncedFirst
  BY DEF UploadInv
<1> USE DEF HandlerTypeOK, Pcs, StoreTypeOK, LockHeld, SessionThere, AnnouncedFirst,
    CommittedIsReplayable, LockedPcs, SweepLocked, rows, s3, task, sweep
<1>1. ASSUME NEW t \in Task, InitCreate(t) \/ InitSession(t) \/ InitRow(t) PROVE
      AnnouncedFirst'
  BY TotalFixed, UploadFacts, <1>i, <1>1 DEF InitCreate, InitSession, InitRow, Goto, Return
<1>2. ASSUME NEW t \in Task, NEW p \in Part, NEW e \in Tag, UploadStart(t, p, e) PROVE
      AnnouncedFirst'
  BY TotalFixed, UploadFacts, <1>i, <1>2 DEF UploadStart, Goto
<1>3. ASSUME NEW t \in Task, PutObject(t) \/ EnsureLoad(t) \/ EnsureRestore(t) \/
      PutPart(t) \/ NotePart(t) PROVE AnnouncedFirst'
  BY TotalFixed, UploadFacts, <1>i, <1>3 DEF PutObject, EnsureLoad, EnsureRestore, PutPart,
     NotePart, Goto, Return
<1>4. ASSUME NEW t \in Task, MergeLock(t) PROVE AnnouncedFirst'
  BY TotalFixed, UploadFacts, <1>i, <1>4 DEF MergeLock, TakeLock, Goto
<1>5. ASSUME NEW t \in Task, MergeRow(t) PROVE AnnouncedFirst'
  <2>1. part[t] \in Part /\ tag[t] \in Tag \cup {NoTag}
    BY UploadFacts DEF HandlerTypeOK
  <2>2. mrow # Absent =>
          [mrow EXCEPT ![part[t]] = tag[t]] \in Slots /\ [mrow EXCEPT ![part[t]] = tag[t]] # Absent
    BY UploadFacts, <2>1, SlotSet DEF TypeOK, StoreTypeOK
  <2> QED
    BY TotalFixed, UploadFacts, <1>i, <1>5, <2>1, <2>2 DEF MergeRow, Goto, Return
<1>6. ASSUME NEW t \in Task, MergeSession(t) PROVE AnnouncedFirst'
  <2>1. /\ part[t] \in Part /\ tag[t] \in Tag \cup {NoTag}
        /\ session \in [created : Nat, etags : Slots]
    BY UploadFacts, <1>i, <1>6 DEF MergeSession, HandlerTypeOK, StoreTypeOK, SessionThere,
       LockedPcs
  <2>2. session' \in [created : Nat, etags : Slots] /\ session' # Absent
    BY UploadFacts, <2>1, <1>6, SlotSet DEF TypeOK, MergeSession
  <2>3. /\ pc[t] = "merge_session" /\ Return(t)
        /\ UNCHANGED <<total, clock, known, mrow, file, feed, s3, sweep, fails>>
    BY <1>6 DEF MergeSession
  <2> QED
    BY TotalFixed, UploadFacts, <1>i, <2>1, <2>2, <2>3 DEF Return
<1>7. ASSUME NEW t \in Task, CompleteLock(t) \/ CompleteRead(t) \/ TakeState(t) \/
      Assemble(t) \/ DropRow(t) \/ SaveFile(t) \/ AnnounceCreate(t) \/ DropSession(t) PROVE
      AnnouncedFirst'
  BY TotalFixed, UploadFacts, <1>i, <1>7 DEF CompleteLock, CompleteRead, TakeState, Assemble,
     DropRow, SaveFile, AnnounceCreate, DropSession, TakeLock, Goto, Return
<1>8. ASSUME NEW t \in Task, CancelLock(t) \/ CancelRead(t) \/ CancelAbort(t) PROVE
      AnnouncedFirst'
  BY TotalFixed, UploadFacts, <1>i, <1>8 DEF CancelLock, CancelRead, CancelAbort, TakeLock,
     Goto, Return, Aborted
<1>9. ASSUME NEW t \in Task, DeleteStart(t) \/ DeleteAnnounce(t) \/ DeleteRow(t) \/
      DeleteBytes(t) PROVE AnnouncedFirst'
  BY TotalFixed, UploadFacts, <1>i, <1>9 DEF DeleteStart, DeleteAnnounce, DeleteRow,
     DeleteBytes, Goto, Return
<1>10. CASE GcListSessions \/ GcListFiles \/ GcSessionLock \/ GcSessionRead \/
      GcSessionBytes \/ GcSessionAbort \/ GcSessionDrop \/ GcFileBytes \/ GcFileAnnounce \/
      GcFileRow \/ GcOrphanList \/ GcOrphanDelete
  BY TotalFixed, UploadFacts, <1>i, <1>10 DEF GcListSessions, GcListFiles, GcSessionLock,
     GcSessionRead, GcSessionBytes, GcSessionAbort, GcSessionDrop, GcFileBytes, GcFileAnnounce,
     GcFileRow, GcOrphanList, GcOrphanDelete, Expired, Aborted, Listed
<1>11. ASSUME NEW t \in Task, Fail(t) PROVE AnnouncedFirst'
  BY TotalFixed, UploadFacts, <1>i, <1>11 DEF Fail, Return
<1>12. CASE GcFail \/ Restart \/ Tick
  BY TotalFixed, UploadFacts, <1>i, <1>12 DEF GcFail, Restart, Tick
<1>13. CASE UNCHANGED vars
  BY TotalFixed, UploadFacts, <1>i, <1>13 DEF vars
<1> QED
  BY <1>1, <1>2, <1>3, <1>4, <1>5, <1>6, <1>7, <1>8, <1>9, <1>10, <1>11, <1>12, <1>13 DEF
     Next, Work, GcStep

\* The clock, the failures and the answer of init_upload keep their types.
LEMMA ScalarsTyped ==
  ASSUME UploadInv, [Next]_vars
  PROVE  clock' \in 0..MaxTime /\ known' \in BOOLEAN /\ fails' \in 0..MaxFails[total]
<1>1. /\ clock' = clock \/ Tick
      /\ known' = known \/ known' = TRUE
      /\ fails' = fails \/ (fails < MaxFails[total] /\ fails' = fails + 1)
  BY DEF Next, vars, Work, GcStep, InitCreate, UploadStart, MergeLock, CompleteLock, CancelLock,
     DeleteStart, Fail, GcFail, Restart, Tick, InitSession, InitRow, PutObject, EnsureLoad,
     EnsureRestore, PutPart, NotePart, MergeRow, MergeSession, CompleteRead, TakeState, Assemble,
     DropRow, SaveFile, AnnounceCreate, DropSession, CancelRead, CancelAbort, DeleteAnnounce,
     DeleteRow, DeleteBytes, GcListSessions, GcListFiles, GcSessionLock, GcSessionRead,
     GcSessionBytes, GcSessionAbort, GcSessionDrop, GcFileBytes, GcFileAnnounce, GcFileRow,
     GcOrphanList, GcOrphanDelete
<1>2. /\ clock \in 0..MaxTime /\ known \in BOOLEAN /\ fails \in 0..MaxFails[total]
      /\ MaxFails[total] \in Nat /\ MaxTime \in Nat
  BY Constants DEF UploadInv, TypeOK
<1>3. clock' \in 0..MaxTime /\ fails' \in 0..MaxFails[total]
  BY <1>1, <1>2 DEF Tick
<1>4. known' \in BOOLEAN
  BY <1>1, <1>2
<1> QED
  BY <1>3, <1>4

-----------------------------------------------------------------------------
\* The invariant holds before init_upload is called: nothing is there, every
\* handler is idle and the sweep has not begun.
LEMMA UploadInit == Init => UploadInv
<1> SUFFICES ASSUME Init PROVE UploadInv
  OBVIOUS
<1>1. TypeOK
  BY TypeInit
<1>2. Sweeper \notin Task /\ Absent \notin Task /\ Absent # Sweeper
  BY <1>1, Constants DEF TypeOK
<1>3. LockHeld /\ SessionThere
  BY <1>2 DEF Init, LockHeld, SessionThere, LockedPcs, SweepLocked
<1>4. InitAlone
  BY DEF Init, InitAlone, InitPcs, SweepLocked
<1>5. OpenHasRows /\ PartRecorded
  BY DEF Init, OpenHasRows, PartRecorded, RecordCoversSession, UploadPcs
<1>6. SavedOnce /\ OrphanOver
  BY DEF Init, SavedOnce, OrphanOver, Saving, Deleting, CommittedContent, CommittedHasBytes
<1>7. AnnouncedFirst
  BY DEF Init, AnnouncedFirst, CommittedIsReplayable
<1> QED
  BY <1>1, <1>3, <1>4, <1>5, <1>6, <1>7 DEF UploadInv

\* Every step keeps the invariant: each part from the parts it rests on.
LEMMA UploadStep == UploadInv /\ [Next]_vars => UploadInv'
<1> SUFFICES ASSUME UploadInv, [Next]_vars PROVE UploadInv'
  OBVIOUS
<1>1. StoreTypeOK' /\ HandlerTypeOK' /\ SweepTypeOK'
  BY StoreTyped, HandlersTyped, SweepTyped
<1>2. total' = total /\ total \in PartCounts
  BY TotalFixed DEF UploadInv, TypeOK
<1>3. TypeOK'
  BY <1>1, <1>2, ScalarsTyped DEF TypeOK
<1>4. LockHeld' /\ SessionThere' /\ InitAlone' /\ OpenHasRows'
  BY LockStep, SessionStep, InitStep, OpenStep
<1>5. PartRecorded' /\ SavedOnce' /\ OrphanOver' /\ AnnouncedFirst'
  BY RecordedStep, SavedStep, OrphanStep, AnnouncedStep
<1> QED
  BY <1>3, <1>4, <1>5 DEF UploadInv

\* UploadInv holds throughout every upload.
THEOREM UploadInvariant == Spec => []UploadInv
BY UploadInit, UploadStep, PTL DEF Spec

\* Rows, bytes, the handlers' locals and the sweep keep their types: no step
\* writes a part outside the slots of its upload.
THEOREM UploadTypeCorrect == Spec => []TypeOK
<1>1. UploadInv => TypeOK
  BY DEF UploadInv
<1> QED
  BY <1>1, UploadInvariant, PTL

\* complete_upload, cancel_upload and the sweep close the multipart upload
\* before its rows go, whatever fails or restarts between the two: once
\* init_upload has answered, staged parts without a session do not exist.
THEOREM UploadLeaksNothing == Spec => []NoStagedPartsLeak
<1>1. UploadInv => NoStagedPartsLeak
  BY DEF UploadInv, OpenHasRows, NoStagedPartsLeak
<1> QED
  BY <1>1, UploadInvariant, PTL

\* The record merge_part writes is never short of a part the session has,
\* and the object of a file uploaded in several parts is the one its
\* completion compared and assembled.  (The object of a single part may be
\* overwritten by a late put_object, which the sweep run shows.)
THEOREM MultipartKept == Spec => [](RecordCoversSession /\ (~Single => UploadKept))
<1>1. UploadInv => RecordCoversSession /\ (~Single => UploadKept)
  BY DEF UploadInv, PartRecorded, SavedOnce, UploadKept
<1> QED
  BY <1>1, UploadInvariant, PTL

\* gc.rs promises that no ordering of sweep, part upload and completion ends
\* with a file whose bytes are gone.  For an upload in several parts it
\* keeps the promise: the orphan pass takes only bytes that were there, and
\* old, before both listings, and then the upload is over.
THEOREM MultipartHasBytes == Spec => [](~Single => CommittedHasBytes)
<1>1. UploadInv => (~Single => CommittedHasBytes)
  BY DEF UploadInv, SavedOnce
<1> QED
  BY <1>1, UploadInvariant, PTL

\* Where no cancel and no sweep runs, complete_upload leaves a committed file
\* in the feed or its session to announce it from, whichever of its steps
\* fails and however often it is retried.
THEOREM CompletionReplayable ==
  Spec => [](Ops[total] \cap {"cancel", "gc"} = {} => CommittedIsReplayable)
<1>1. UploadInv => (Ops[total] \cap {"cancel", "gc"} = {} => CommittedIsReplayable)
  BY DEF UploadInv, AnnouncedFirst
<1> QED
  BY <1>1, UploadInvariant, PTL
=============================================================================
