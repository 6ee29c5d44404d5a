----------------------------- MODULE PartIntake ------------------------------
(***************************************************************************)
(* The arithmetic of an upload: what POST /fs/uploads accepts (fs/         *)
(* model.rs), the length that upload_part expects of each part, and the    *)
(* body that it takes in chunk by chunk (fs/mod.rs).  FsUpload has the     *)
(* rest of the upload, where parts have no length.                         *)
(*                                                                         *)
(* Lengths are u64 values, which wrap at Word.  The limits of the code     *)
(* (1 KiB, 512 KiB, 10 MiB, 10,000 parts) are constants.                   *)
(***************************************************************************)
EXTENDS Naturals

CONSTANTS
    Kib,           \* the unit of a part size
    MaxPartSize,   \* bytes of a part of a multipart upload
    MaxSingle,     \* bytes of a single-part upload
    MaxParts,      \* MAX_MULTIPART_PARTS
    Word,          \* 2^64
    Handler,       \* part requests in flight
    Chunk,         \* lengths of the chunks of a body
    Undeclared, NoPlan

ASSUME IntakeAssumption ==
    /\ {Kib, MaxPartSize, MaxSingle, MaxParts, Word} \subseteq Nat \ {0}
    /\ MaxPartSize <= MaxSingle /\ MaxSingle < Word
    /\ MaxParts * MaxPartSize < Word
    /\ Chunk \subseteq Nat \ {0}
    /\ NoPlan \notin [size : Nat, part : Nat, parts : Nat]
    /\ Undeclared \notin Nat

VARIABLES
    plan,          \* the request that init_upload has accepted
    received,      \* part -> bytes stored, 0 before
    intake,        \* the part each handler takes in, and its last answer
    whole          \* complete_upload has succeeded

intakeVars == <<plan, received, intake, whole>>

U64 == 0..(Word - 1)
InitRequest == [size : U64, part : U64, parts : U64]
Parts == 0..(MaxParts - 1)

IntakeTypeOK ==
    /\ plan \in InitRequest \cup {NoPlan}
    /\ received \in [Parts -> U64]
    /\ intake \in [Handler -> [pc : {"idle", "body", "stored", "bad_request", "too_large"},
                               part : Parts, total : U64]]
    /\ whole \in BOOLEAN

IntakeInit ==
    /\ plan = NoPlan
    /\ received = [i \in Parts |-> 0]
    /\ intake = [h \in Handler |-> [pc |-> "idle", part |-> 0, total |-> 0]]
    /\ whole = FALSE

-----------------------------------------------------------------------------
(* InitRequest::validate *)

DivCeil(a, b) == a \div b + (IF a % b = 0 THEN 0 ELSE 1)
Times(a, b) == (a * b) % Word
Minus(a, b) == (a + Word - b) % Word

ValidSingle(q) == q.part = q.size /\ q.size <= MaxSingle

ValidMultipart(q) ==
    /\ q.parts <= MaxParts
    /\ q.part % Kib = 0 /\ q.part <= MaxPartSize
    /\ q.parts = DivCeil(q.size, q.part)
    /\ q.size > Times(q.parts - 1, q.part) /\ q.size <= Times(q.parts, q.part)

ValidRequest(q) ==
    /\ q.size # 0 /\ q.part # 0 /\ q.parts # 0
    /\ IF q.parts = 1 THEN ValidSingle(q) ELSE ValidMultipart(q)

\* A request that does not validate gets 400 and no session.
InitUpload(q) ==
    /\ plan = NoPlan
    /\ ValidRequest(q)
    /\ plan' = q
    /\ UNCHANGED <<received, intake, whole>>

-----------------------------------------------------------------------------
(* upload_part *)

\* Mutant: the last part is expected to be as long as the others.
ExpectedPadded(i) == plan.part

Expected(i) ==
    IF i = plan.parts - 1 THEN Minus(plan.size, Times(plan.part, i)) ELSE plan.part

ShortLastPart(i) == plan.parts > 1 /\ i = plan.parts - 1 /\ Expected(i) < plan.part

\* The answer to a body that is longer than the part.
TooLong(i) == IF ShortLastPart(i) THEN "bad_request" ELSE "too_large"

\* The content-length header: one that is missing or no number declares nothing.
DeclaredLen == U64 \cup {Undeclared}

Answers(h, pc) == intake' = [intake EXCEPT ![h].pc = pc]

\* The index and the declared length, before a byte is read.
PartBegins(h, i, declared) ==
    /\ plan # NoPlan /\ ~whole /\ intake[h].pc # "body"
    /\ \/ /\ i >= plan.parts \/ (declared # Undeclared /\ declared < Expected(i))
          /\ Answers(h, "bad_request")
       \/ /\ i < plan.parts /\ declared # Undeclared /\ declared > Expected(i)
          /\ Answers(h, TooLong(i))
       \/ /\ i < plan.parts /\ declared \in {Undeclared, Expected(i)}
          /\ intake' = [intake EXCEPT ![h] = [pc |-> "body", part |-> i, total |-> 0]]
    /\ UNCHANGED <<plan, received, whole>>

\* A chunk that exceeds the part ends the request and is not buffered.
BodyChunk(h, n) ==
    LET total == intake[h].total + n IN
    /\ intake[h].pc = "body"
    /\ IF total > Expected(intake[h].part)
       THEN Answers(h, TooLong(intake[h].part))
       ELSE intake' = [intake EXCEPT ![h].total = total]
    /\ UNCHANGED <<plan, received, whole>>

\* The end of the body: stored when the length is right.
BodyEnds(h) ==
    LET i == intake[h].part IN
    /\ intake[h].pc = "body"
    /\ IF intake[h].total = Expected(i)
       THEN received' = [received EXCEPT ![i] = intake[h].total] /\ Answers(h, "stored")
       ELSE UNCHANGED received /\ Answers(h, "bad_request")
    /\ UNCHANGED <<plan, whole>>

\* The client goes away in the middle of the body.
BodyBreaks(h) ==
    /\ intake[h].pc = "body"
    /\ Answers(h, "bad_request")
    /\ UNCHANGED <<plan, received, whole>>

\* complete_upload asks for an etag in every slot.
CompleteParts ==
    /\ plan # NoPlan /\ ~whole
    /\ \A i \in Parts : i < plan.parts => received[i] # 0
    /\ whole' = TRUE
    /\ UNCHANGED <<plan, received, intake>>

IntakeNext ==
    \/ \E q \in InitRequest : InitUpload(q)
    \/ \E h \in Handler :
        \/ \E i \in Parts, declared \in DeclaredLen : PartBegins(h, i, declared)
        \/ \E n \in Chunk : BodyChunk(h, n)
        \/ BodyEnds(h) \/ BodyBreaks(h)
    \/ CompleteParts

IntakeSpec == IntakeInit /\ [][IntakeNext]_intakeVars

-----------------------------------------------------------------------------
(* "Every part except the last part has part_size bytes.  The last part    *)
(* has the remaining bytes": the parts of a completed upload cover the     *)
(* declared file without a gap, an overlap or an empty part, whatever the  *)
(* request, the re-sent and broken bodies, and the width of the integers.  *)
PartsTile ==
    whole =>
        \A i \in Parts : i < plan.parts =>
            /\ received[i] \in 1..plan.part
            /\ i * plan.part + received[i] =
                  IF i = plan.parts - 1 THEN plan.size ELSE (i + 1) * plan.part

(* "The bound is now the part size, which is at most 10 MiB by init        *)
(* validation" (upload_part): no body, of whatever length and with or      *)
(* without a declared one, makes a handler buffer more than that.          *)
BufferBounded ==
    \A h \in Handler : intake[h].pc = "body" =>
        intake[h].total <= plan.part /\ intake[h].total <= MaxSingle

(* upload_part takes in exactly the bytes of the plan, and buffers no more *)
(* than one part.                                                          *)
IntakeExact == PartsTile /\ BufferBounded
=============================================================================
