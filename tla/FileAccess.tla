----------------------------- MODULE FileAccess ------------------------------
(***************************************************************************)
(* One committed file, the rows it is attached to, and who may use it      *)
(* (fs/mod.rs, fs/store.rs, fs/route.rs), with the file pass of the        *)
(* garbage collector (fs/gc.rs) beside the requests.                       *)
(*                                                                         *)
(* Every step is one call of the store, the policy or the object store, so *)
(* that the policy, the rows and the file may change between the checks of *)
(* a request and what it does.  The feed entries of these operations are   *)
(* in ReplicaSync.                                                         *)
(***************************************************************************)
EXTENDS Integers, FiniteSets

CONSTANTS
    FileTask,          \* requests in flight
    Owner,         \* the subject that uploaded the file
    Guest,         \* another subject
    FileRow,
    FileCall,      \* <<operation, subject>> of the requests
    GrantChoice,   \* <<subject, row, action>> that the policy may grant
    Size,          \* bound: bytes of a file
    RangeSpec,     \* Range headers that requests carry
    FileTTL,       \* TTL_SECS of the collector
    MaxFaClock,    \* bound: the clock
    BadNumber,     \* what u64 does not parse, in a Range header
    Nil

ASSUME FileAssumption ==
    /\ IsFiniteSet(FileRow) /\ Nil \notin FileRow \cup {Owner, Guest} \cup Nat
    /\ LET ops == {"meta", "get", "delete", "attach", "detach"}
       IN  Nil \notin ops /\ FileCall \subseteq ops \X {Owner, Guest}
    /\ {Size, FileTTL, MaxFaClock} \subseteq Nat
    /\ BadNumber \notin Nat \cup {Nil}
    /\ \A spec \in RangeSpec :
        \/ spec.kind = "none"
        \/ spec.kind = "suffix" /\ spec.n \in Nat \cup {BadNumber}
        \/ spec.kind = "first" /\ spec.first \in Nat \cup {BadNumber}
                               /\ spec.last \in Nat \cup {BadNumber, Nil}

VARIABLES
    faFile, faBytes,   \* the file record and the object exist
    faRows,            \* rows_for_file: the relations
    faRefs,            \* the RefInfo of the file
    faGrants,          \* row decisions of the policy
    faTask,            \* requests
    faGc,              \* the collector at this file
    faNow,
    faRaced            \* history: attached after a deletion had decided

faVars == <<faFile, faBytes, faRows, faRefs, faGrants, faTask, faGc, faNow, faRaced>>

Least(a, b) == IF a <= b THEN a ELSE b
Greatest(a, b) == IF a >= b THEN a ELSE b
ActOf == [meta |-> "read", get |-> "read", delete |-> "delete", attach |-> "write", detach |-> "write"]
IdleTask == [pc |-> "idle", op |-> Nil, sub |-> Nil, row |-> Nil, second |-> FALSE,
             left |-> {}, rows |-> {}, granted |-> {}, bare |-> FALSE]

FileRequest ==
    [pc : {"idle", "file", "rows", "row", "record", "bytes", "refs", "remove", "object",
           "require", "exists", "store", "done"},
     op : DOMAIN ActOf \cup {Nil}, sub : {Owner, Guest, Nil}, row : FileRow \cup {Nil},
     second : BOOLEAN, left : SUBSET FileRow,
     rows : SUBSET FileRow, granted : SUBSET FileRow, bare : BOOLEAN]

FileTypeOK ==
    /\ faFile \in BOOLEAN /\ faBytes \in BOOLEAN
    /\ faRows \subseteq FileRow
    /\ faRefs \in [count : 0..Cardinality(FileRow), orphan : -1..MaxFaClock]
    /\ faGrants \subseteq GrantChoice
    /\ faTask \in [FileTask -> FileRequest]
    /\ faGc \in {"idle", "count", "object", "remove"}
    /\ faNow \in 0..MaxFaClock /\ faRaced \in BOOLEAN

FileInit ==
    /\ faFile = TRUE /\ faBytes = TRUE
    /\ faRows = {} /\ faRefs = [count |-> 0, orphan |-> -1]
    /\ faGrants = {}
    /\ faTask = [t \in FileTask |-> IdleTask]
    /\ faGc = "idle" /\ faNow = 0 /\ faRaced = FALSE

-----------------------------------------------------------------------------
(* Evidence: what a request could have seen since it began, kept for the   *)
(* property about what it was served.                                      *)
Witness(task, file, rows, grants) ==
    IF task.op \notin {"meta", "get", "delete"} THEN task
    ELSE [task EXCEPT !.rows = @ \cup rows,
                      !.granted = @ \cup {r \in FileRow : <<task.sub, r, ActOf[task.op]>> \in grants},
                      !.bare = @ \/ (file /\ rows = {})]
Witnessed(tasks) == [t \in FileTask |-> Witness(tasks[t], faFile', faRows', faGrants')]

FaBegin(t, op, sub, row) ==
    /\ faTask[t].pc = "idle"
    /\ UNCHANGED <<faFile, faBytes, faRows, faRefs, faGrants, faGc, faNow, faRaced>>
    /\ faTask' = Witnessed([faTask EXCEPT ![t] = [IdleTask EXCEPT
            !.op = op, !.sub = sub, !.row = row,
            !.pc = CASE op \in {"meta", "get"} -> "file"
                     [] op = "delete" -> "exists"
                     [] OTHER -> "require"]])

\* The request answers, or goes on at pc.
Ends(t) == faTask' = [faTask EXCEPT ![t] = IdleTask]
GoesTo(t, pc) == faTask' = [faTask EXCEPT ![t].pc = pc]

\* can_access: the file, its rows, and one decision after the other.
CanAccessFile(t) ==
    /\ faTask[t].pc = "file"
    /\ IF faFile THEN GoesTo(t, "rows") ELSE Ends(t)
    /\ UNCHANGED <<faFile, faBytes, faRows, faRefs, faGrants, faGc, faNow, faRaced>>

Allowed(t) == GoesTo(t, IF faTask[t].op = "delete" THEN "remove" ELSE "record")

\* Mutant: the owner passes whatever the rows say.
OwnerDecidesAlways(t, rows) == rows = {} \/ faTask[t].sub = Owner

\* Only a file without rows is its owner's.
OwnerDecides(t, rows) == rows = {}

CanAccessRows(t) ==
    /\ faTask[t].pc = "rows"
    /\ IF OwnerDecides(t, faRows)
       THEN IF faTask[t].sub = Owner THEN Allowed(t) ELSE Ends(t)
       ELSE faTask' = [faTask EXCEPT ![t].pc = "row", ![t].left = faRows]
    /\ UNCHANGED <<faFile, faBytes, faRows, faRefs, faGrants, faGc, faNow, faRaced>>

\* authorize_row on the next row of the list.
CanAccessRow(t) ==
    LET task == faTask[t] IN
    /\ task.pc = "row"
    /\ IF task.left = {} THEN Ends(t)
       ELSE \E r \in task.left :
            IF <<task.sub, r, ActOf[task.op]>> \in faGrants THEN Allowed(t)
            ELSE faTask' = [faTask EXCEPT ![t].left = @ \ {r}]
    /\ UNCHANGED <<faFile, faBytes, faRows, faRefs, faGrants, faGc, faNow, faRaced>>

-----------------------------------------------------------------------------
(* GET /fs/files/{id} and its metadata: can_access and get_file once for   *)
(* the metadata and the Range header, and again for the bytes.             *)

\* Mutant: the end of the range is taken as exclusive.
ParseRangeShort(spec, total) ==
    LET last == IF spec.last = Nil THEN total - 1 ELSE Least(spec.last - 1, total - 1) IN
    IF spec.kind = "none" THEN [kind |-> "full"]
    ELSE IF total = 0 THEN [kind |-> "unsatisfiable"]
    ELSE IF spec.kind = "suffix" THEN
        IF spec.n \in {BadNumber, 0} THEN [kind |-> "full"]
        ELSE [kind |-> "ranged", first |-> total - Least(spec.n, total), last |-> total - 1]
    ELSE IF spec.first = BadNumber THEN [kind |-> "full"]
    ELSE IF spec.first >= total THEN [kind |-> "unsatisfiable"]
    ELSE IF spec.last = BadNumber \/ last < spec.first THEN [kind |-> "full"]
    ELSE [kind |-> "ranged", first |-> spec.first, last |-> last]

\* parse_range, in the order of its returns: the start is compared with the
\* size before the end is parsed.  A header without "bytes=", with a comma or
\* without a dash is the spec "none".
ParseRange(spec, total) ==
    LET last == IF spec.last = Nil THEN total - 1 ELSE Least(spec.last, total - 1) IN
    IF spec.kind = "none" THEN [kind |-> "full"]
    ELSE IF total = 0 THEN [kind |-> "unsatisfiable"]
    ELSE IF spec.kind = "suffix" THEN
        IF spec.n \in {BadNumber, 0} THEN [kind |-> "full"]
        ELSE [kind |-> "ranged", first |-> total - Least(spec.n, total), last |-> total - 1]
    ELSE IF spec.first = BadNumber THEN [kind |-> "full"]
    ELSE IF spec.first >= total THEN [kind |-> "unsatisfiable"]
    ELSE IF spec.last = BadNumber \/ last < spec.first THEN [kind |-> "full"]
    ELSE [kind |-> "ranged", first |-> spec.first, last |-> last]

\* get_object_range clamps the range to the record; the Content-Range header
\* takes its end from the length that the object store sent.
RangeReply(spec, total) ==
    LET range == ParseRange(spec, total)
        from == Least(range.first, total)
        to == Greatest(Least(range.last + 1, total), from)
    IN CASE range.kind = "full" -> [status |-> 200, sent |-> 0..total - 1]
         [] range.kind = "unsatisfiable" -> [status |-> 416, sent |-> {}]
         [] range.kind = "ranged" ->
                [status |-> 206, sent |-> from..to - 1,
                 header |-> <<range.first, range.first + Greatest(to - from - 1, 0)>>]

\* get_file after the decision; then the metadata or 416, or the second pass.
ReadRecord(t) ==
    LET task == faTask[t] IN
    /\ task.pc = "record"
    /\ \/ ~faFile /\ Ends(t)
       \/ faFile /\ ~task.second /\ GoesTo(t, "done")
       \/ faFile /\ task.op = "get" /\ ~task.second
            /\ faTask' = [faTask EXCEPT ![t].pc = "file", ![t].second = TRUE]
       \/ faFile /\ task.second /\ GoesTo(t, "bytes")
    /\ UNCHANGED <<faFile, faBytes, faRows, faRefs, faGrants, faGc, faNow, faRaced>>

ReadBytes(t) ==
    /\ faTask[t].pc = "bytes"
    /\ IF faBytes THEN GoesTo(t, "done") ELSE Ends(t)
    /\ UNCHANGED <<faFile, faBytes, faRows, faRefs, faGrants, faGc, faNow, faRaced>>

FaDone(t) ==
    /\ faTask[t].pc = "done" /\ Ends(t)
    /\ UNCHANGED <<faFile, faBytes, faRows, faRefs, faGrants, faGc, faNow, faRaced>>

-----------------------------------------------------------------------------
(* attach and detach: the row decision, for attach the file, and one       *)
(* transaction on the relation and the count.                              *)
RequireRow(t) ==
    LET task == faTask[t] IN
    /\ task.pc = "require"
    /\ IF <<task.sub, task.row, "write">> \in faGrants
       THEN GoesTo(t, IF task.op = "attach" THEN "exists" ELSE "store") ELSE Ends(t)
    /\ UNCHANGED <<faFile, faBytes, faRows, faRefs, faGrants, faGc, faNow, faRaced>>

\* attach and delete_file look for the file.
FileExists(t) ==
    /\ faTask[t].pc = "exists"
    /\ IF ~faFile THEN Ends(t) ELSE GoesTo(t, IF faTask[t].op = "attach" THEN "store" ELSE "refs")
    /\ UNCHANGED <<faFile, faBytes, faRows, faRefs, faGrants, faGc, faNow, faRaced>>

\* A deletion has taken its decision on the count.
Deciding == faGc \in {"object", "remove"} \/ \E t \in FileTask : faTask[t].pc \in {"remove", "object"}

AttachTx(row) ==
    IF row \in faRows THEN UNCHANGED <<faRows, faRefs>>
    ELSE faRows' = faRows \cup {row} /\ faRefs' = [count |-> faRefs.count + 1, orphan |-> -1]

DetachTx(row) ==
    IF row \notin faRows THEN UNCHANGED <<faRows, faRefs>>
    ELSE /\ faRows' = faRows \ {row}
         /\ faRefs' = [count |-> Greatest(faRefs.count - 1, 0),
                       orphan |-> IF faRefs.count <= 1 THEN faNow ELSE faRefs.orphan]

RelationTx(t) ==
    /\ faTask[t].pc = "store"
    /\ IF faTask[t].op = "attach" THEN AttachTx(faTask[t].row) ELSE DetachTx(faTask[t].row)
    /\ faRaced' = (faRaced \/ (faTask[t].op = "attach" /\ (Deciding \/ ~faFile \/ ~faBytes)))
    /\ UNCHANGED <<faFile, faBytes, faGrants, faGc, faNow>>
    /\ faTask' = Witnessed([faTask EXCEPT ![t] = IdleTask])

-----------------------------------------------------------------------------
(* delete_file: the count decides between the owner and can_access; the    *)
(* announcement may fail and keep the file; the row goes, then the bytes.  *)
DeleteRefs(t) ==
    /\ faTask[t].pc = "refs"
    /\ IF faRefs.count # 0 THEN GoesTo(t, "file")
       ELSE IF faTask[t].sub = Owner THEN GoesTo(t, "remove") ELSE Ends(t)
    /\ UNCHANGED <<faFile, faBytes, faRows, faRefs, faGrants, faGc, faNow, faRaced>>

RemoveFile ==
    faFile' = FALSE /\ faRows' = {} /\ faRefs' = [count |-> 0, orphan |-> -1]

DeleteRecord(t) ==
    /\ faTask[t].pc = "remove"
    /\ UNCHANGED <<faBytes, faGrants, faGc, faNow, faRaced>>
    /\ \/ UNCHANGED <<faFile, faRows, faRefs>> /\ Ends(t)
       \/ RemoveFile /\ faTask' = Witnessed([faTask EXCEPT ![t].pc = "object"])

DeleteObject(t) ==
    /\ faTask[t].pc = "object"
    /\ faBytes' \in {faBytes, FALSE} /\ Ends(t)
    /\ UNCHANGED <<faFile, faRows, faRefs, faGrants, faGc, faNow, faRaced>>

-----------------------------------------------------------------------------
(* The file pass of sweep_once at this file: the count and the age, the    *)
(* bytes, the announcement and the row.  Each failure keeps the file.      *)
GcBegin ==
    /\ faGc = "idle" /\ faFile /\ faGc' = "count"
    /\ UNCHANGED <<faFile, faBytes, faRows, faRefs, faGrants, faTask, faNow, faRaced>>

\* Mutant: the count is not looked at, only the age.
GcExpiresByAge == faNow - (IF faRefs.orphan = -1 THEN 0 ELSE faRefs.orphan) > FileTTL

\* orphan_since, or created_at for a file that was never attached.
GcExpires ==
    /\ faRefs.count = 0
    /\ faNow - (IF faRefs.orphan = -1 THEN 0 ELSE faRefs.orphan) > FileTTL

GcCount ==
    /\ faGc = "count" /\ faGc' = IF GcExpires THEN "object" ELSE "idle"
    /\ UNCHANGED <<faFile, faBytes, faRows, faRefs, faGrants, faTask, faNow, faRaced>>

GcObject ==
    /\ faGc = "object"
    /\ \/ faBytes' = FALSE /\ faGc' = "remove"
       \/ UNCHANGED faBytes /\ faGc' = "idle"
    /\ UNCHANGED <<faFile, faRows, faRefs, faGrants, faTask, faNow, faRaced>>

GcRow ==
    /\ faGc = "remove" /\ faGc' = "idle"
    /\ RemoveFile \/ UNCHANGED <<faFile, faRows, faRefs>>
    /\ UNCHANGED <<faBytes, faGrants, faNow, faRaced>>
    /\ faTask' = Witnessed(faTask)

-----------------------------------------------------------------------------
PolicyChange(g) ==
    /\ faGrants' = IF g \in faGrants THEN faGrants \ {g} ELSE faGrants \cup {g}
    /\ UNCHANGED <<faFile, faBytes, faRows, faRefs, faGc, faNow, faRaced>>
    /\ faTask' = Witnessed(faTask)

FaTick ==
    /\ faNow < MaxFaClock /\ faNow' = faNow + 1
    /\ UNCHANGED <<faFile, faBytes, faRows, faRefs, faGrants, faTask, faGc, faRaced>>

FileNext ==
    \/ FaTick \/ \E g \in GrantChoice : PolicyChange(g)
    \/ GcBegin \/ GcCount \/ GcObject \/ GcRow
    \/ \E t \in FileTask :
        \/ \E c \in FileCall :
            \E row \in IF c[1] \in {"attach", "detach"} THEN FileRow ELSE {Nil} :
                FaBegin(t, c[1], c[2], row)
        \/ CanAccessFile(t) \/ CanAccessRows(t) \/ CanAccessRow(t)
        \/ ReadRecord(t) \/ ReadBytes(t) \/ FaDone(t)
        \/ RequireRow(t) \/ FileExists(t) \/ RelationTx(t)
        \/ DeleteRefs(t) \/ DeleteRecord(t) \/ DeleteObject(t)

FileSpec == FileInit /\ [][FileNext]_faVars

-----------------------------------------------------------------------------

(* Whoever is served a file or its metadata, or deletes it, was its owner  *)
(* at a moment of the request at which the file had no row, or was granted *)
(* a row that the file had during the request: the rows are read before    *)
(* the policy, which "governs the user who uploaded the file as well".     *)
ServedWasGranted ==
    \A t \in FileTask : (faTask[t].pc = "done" \/ (faTask[t].pc = "remove" /\ faFile)) =>
        \/ faTask[t].sub = Owner /\ faTask[t].bare
        \/ faTask[t].rows \cap faTask[t].granted # {}

(* The bytes of an attached file are taken only by a deletion that took    *)
(* its decision before the attach: the collector and delete_file read the  *)
(* count and act on it later, and a collector whose announcement failed    *)
(* keeps the row of a file whose bytes are gone.                           *)
AttachedHasBytes == (faFile /\ faRows # {} /\ ~faBytes) => faRaced

(* A single byte range of RFC 9110: its bounds are numbers in order, and a *)
(* suffix takes at least one byte.                                         *)
WellFormed(spec) ==
    \/ spec.kind = "suffix" /\ spec.n \notin {BadNumber, 0}
    \/ /\ spec.kind = "first" /\ spec.first # BadNumber /\ spec.last # BadNumber
       /\ spec.last = Nil \/ spec.first <= spec.last

(* The byte positions that it selects.                                     *)
Selected(spec, total) ==
    {i \in 0..total - 1 :
        \/ spec.kind = "suffix" /\ i >= total - spec.n
        \/ spec.kind = "first" /\ i >= spec.first /\ (spec.last = Nil \/ i <= spec.last)}

(* "Bad syntax, and bounds in reverse order" are to fall back to a full    *)
(* 200 (fs/route.rs, parse_range).  They do not when the file is empty or  *)
(* the start alone is past its end: the code has answered 416 by then.     *)
RefusedEarly(spec, total) ==
    /\ spec.kind # "none"
    /\ \/ total = 0
       \/ spec.kind = "first" /\ spec.first # BadNumber /\ spec.first >= total

(* A well-formed range gets the bytes it selects, named in Content-Range,  *)
(* and 416 when it selects none.  Any other header never gets a part: it   *)
(* gets the whole file, or 416 in the case above.                          *)
ExactReply(spec, total) ==
    LET reply == RangeReply(spec, total)
        want == Selected(spec, total)
    IN IF WellFormed(spec)
       THEN IF want = {} THEN reply.status = 416
            ELSE /\ reply.status = 206 /\ reply.sent = want
                 /\ reply.header[1]..reply.header[2] = want
       ELSE IF RefusedEarly(spec, total) THEN reply.status = 416
            ELSE reply.status = 200 /\ reply.sent = 0..total - 1

(* For every Range header and size, a download is answered with the bytes  *)
(* that the header selects (parse_range, get_object_range).                *)
RangeExact ==
    (\E t \in FileTask : faTask[t].op = "get" /\ faTask[t].pc = "done") =>
        \A spec \in RangeSpec, total \in 0..Size : ExactReply(spec, total)
=============================================================================
