--------------------------- MODULE FilePlaneProofs ---------------------------
(***************************************************************************)
(* What holds of the parts of an upload for every size, width of integers  *)
(* and chunking of bodies, and of the use of a committed file for every    *)
(* number of requests, rows and decisions of the policy; and what of all   *)
(* this the composition of the file plane inherits.                        *)
(***************************************************************************)
EXTENDS MCFilePlane, FsUploadProofs, FiniteSetTheorems

-----------------------------------------------------------------------------
(* The parts of an upload *)

\* Products grow with their factors.
LEMMA MulMono ==
  ASSUME NEW a \in Nat, NEW b \in Nat, NEW c \in Nat, NEW d \in Nat, a <= c, b <= d
  PROVE  a * b <= c * d /\ a * b \in Nat /\ c * d \in Nat
<1>1. a * b <= c * b
  OBVIOUS
<1>2. c * b <= c * d
  OBVIOUS
<1> QED
  BY <1>1, <1>2

\* A product, and a difference, that fits the word is what Rust computes.
LEMMA WordOps ==
  ASSUME NEW a \in Nat, NEW b \in Nat
  PROVE  /\ a * b < Word => Times(a, b) = a * b
         /\ b <= a /\ a < Word => Minus(a, b) = a - b
<1>1. Word \in Nat /\ Word > 0
  BY IntakeAssumption
<1>2. ASSUME NEW n \in Nat, n < Word PROVE n % Word = n /\ (n + Word) % Word = n
  BY <1>1, <1>2
<1>3. a * b \in Nat
  OBVIOUS
<1>4. a * b < Word => Times(a, b) = a * b
  BY <1>2, <1>3 DEF Times
<1>5. ASSUME b <= a, a < Word PROVE Minus(a, b) = a - b
  <2>1. a - b \in Nat /\ a - b < Word /\ a + Word - b = (a - b) + Word
    BY <1>1, <1>5
  <2> QED
    BY <1>2, <2>1 DEF Minus
<1> QED
  BY <1>4, <1>5

\* InitRequest::validate leaves a last part that is neither empty nor longer
\* than the others, and no product of it wraps.
LEMMA ValidPlan ==
  ASSUME NEW q \in InitRequest, ValidRequest(q)
  PROVE  /\ q.size \in Nat /\ q.part \in Nat /\ q.parts \in Nat /\ q.parts >= 1
         /\ q.part >= 1 /\ q.part <= MaxSingle /\ q.size < Word
         /\ (q.parts - 1) * q.part < q.size /\ q.size <= q.parts * q.part
         /\ \A i \in 0..q.parts - 1 : q.part * i < Word /\ q.part * i \in Nat
<1>1. /\ Word \in Nat /\ MaxParts \in Nat /\ MaxPartSize \in Nat /\ MaxSingle \in Nat
      /\ MaxPartSize <= MaxSingle /\ MaxSingle < Word /\ MaxParts * MaxPartSize < Word
  BY IntakeAssumption
<1>2. /\ q.size \in Nat /\ q.part \in Nat /\ q.parts \in Nat /\ q.parts >= 1
      /\ q.part >= 1 /\ q.size >= 1 /\ q.size < Word
  BY <1>1 DEF InitRequest, U64, ValidRequest
<1>3. CASE q.parts = 1
  <2>1. q.part = q.size /\ q.size <= MaxSingle
    BY <1>3 DEF ValidRequest, ValidSingle
  <2>2. (q.parts - 1) * q.part = 0 /\ q.parts * q.part = q.part
    BY <1>2, <1>3
  <2>3. \A i \in 0..q.parts - 1 : q.part * i = 0
    BY <1>2, <1>3
  <2> QED
    BY <1>1, <1>2, <2>1, <2>2, <2>3
<1>4. CASE q.parts # 1
  <2>1. /\ q.parts <= MaxParts /\ q.part <= MaxPartSize
        /\ q.size > Times(q.parts - 1, q.part) /\ q.size <= Times(q.parts, q.part)
    BY <1>4 DEF ValidRequest, ValidMultipart
  <2>2. q.parts - 1 \in Nat /\ q.parts - 1 <= MaxParts
    BY <1>1, <1>2, <2>1
  <2>3. /\ q.parts * q.part < Word /\ (q.parts - 1) * q.part < Word
    <3>1. q.parts * q.part <= MaxParts * MaxPartSize /\ q.parts * q.part \in Nat
      BY <1>1, <1>2, <2>1, MulMono
    <3>2. (q.parts - 1) * q.part <= MaxParts * MaxPartSize /\ (q.parts - 1) * q.part \in Nat
      BY <1>1, <1>2, <2>1, <2>2, MulMono
    <3>3. MaxParts * MaxPartSize \in Nat
      BY <1>1
    <3> HIDE <1>4
    <3> QED
      BY <1>1, <3>1, <3>2, <3>3
  <2>4. Times(q.parts - 1, q.part) = (q.parts - 1) * q.part /\ Times(q.parts, q.part) = q.parts * q.part
    BY <1>2, <2>2, <2>3, WordOps
  <2>5. ASSUME NEW i \in 0..q.parts - 1 PROVE q.part * i < Word /\ q.part * i \in Nat
    <3>1. i \in Nat /\ i <= q.parts
      BY <1>2
    <3>2. q.part * i <= q.part * q.parts /\ q.part * i \in Nat /\ q.part * q.parts \in Nat
      BY <1>2, <3>1, MulMono
    <3>3. q.part * q.parts = q.parts * q.part
      BY <1>2
    <3> QED
      BY <1>1, <2>3, <3>2, <3>3
  <2>6. q.part <= MaxSingle
    BY <1>1, <1>2, <2>1
  <2> QED
    BY <1>2, <2>1, <2>4, <2>5, <2>6
<1> QED
  BY <1>3, <1>4

\* The parts that upload_part expects tile the file that was declared.
LEMMA ExpectedTiles ==
  ASSUME plan \in InitRequest, ValidRequest(plan), NEW i \in Nat, i < plan.parts
  PROVE  /\ Expected(i) \in 1..plan.part
         /\ i * plan.part + Expected(i) =
                IF i = plan.parts - 1 THEN plan.size ELSE (i + 1) * plan.part
<1>1. /\ plan.size \in Nat /\ plan.part \in Nat /\ plan.parts \in Nat /\ plan.parts >= 1
      /\ plan.part >= 1 /\ plan.size < Word
      /\ (plan.parts - 1) * plan.part < plan.size /\ plan.size <= plan.parts * plan.part
      /\ plan.part * i < Word /\ plan.part * i \in Nat
  BY ValidPlan
<1>2. CASE i # plan.parts - 1
  <2>1. Expected(i) = plan.part
    BY <1>2 DEF Expected
  <2>2. i * plan.part + plan.part = (i + 1) * plan.part
    BY <1>1
  <2> QED
    BY <1>1, <1>2, <2>1, <2>2
<1>3. CASE i = plan.parts - 1
  <2>1. Times(plan.part, i) = plan.part * i /\ plan.part * i = i * plan.part
    BY <1>1, WordOps
  <2>2. i * plan.part < plan.size
    BY <1>1, <1>3
  <2>3. Minus(plan.size, plan.part * i) = plan.size - plan.part * i
    BY <1>1, <2>1, <2>2, WordOps
  <2>4. Expected(i) = plan.size - plan.part * i
    BY <1>3, <2>1, <2>3 DEF Expected
  <2>5. plan.parts * plan.part = i * plan.part + plan.part
    <3>1. plan.parts = i + 1
      BY <1>1, <1>3
    <3> QED
      BY <1>1, <3>1
  <2>6. i * plan.part \in Nat
    BY <1>1, <2>1
  <2> QED
    BY <1>1, <1>3, <2>1, <2>2, <2>4, <2>5, <2>6
<1> QED
  BY <1>2, <1>3

\* The length that upload_part expects of each part.
Lengths == [i \in Parts |-> Expected(i)]

\* What a handler has buffered, and what is stored, never exceeds what the
\* plan that was accepted expects of the part.
IntakeInv ==
    /\ IntakeTypeOK
    /\ plan = NoPlan => ~whole /\ \A i \in Parts : received[i] = 0
    /\ plan # NoPlan => /\ ValidRequest(plan)
                        /\ \A i \in Parts : i < plan.parts => received[i] \in {0, Lengths[i]}
                        /\ whole => \A i \in Parts : i < plan.parts => received[i] # 0
    /\ \A h \in Handler : intake[h].pc = "body" =>
        /\ plan # NoPlan /\ intake[h].part < plan.parts
        /\ intake[h].total <= Lengths[intake[h].part]

IntakePc == {"idle", "body", "stored", "bad_request", "too_large"}

\* upload_part answers, buffers and stores within the plan.
LEMMA IntakeStep ==
  ASSUME IntakeInv, [IntakeNext]_intakeVars
  PROVE  IntakeInv'
<1>0. plan' = plan => Lengths' = Lengths
  BY DEF Lengths, Expected
<1>1. /\ Word \in Nat /\ Word >= 1 /\ NoPlan \notin InitRequest /\ MaxParts \in Nat
      /\ Chunk \subseteq Nat /\ Parts \subseteq Nat
  BY IntakeAssumption DEF InitRequest, U64, Parts
<1>2. /\ intake \in [Handler -> [pc : IntakePc, part : Parts, total : U64]]
      /\ received \in [Parts -> U64] /\ plan \in InitRequest \cup {NoPlan} /\ whole \in BOOLEAN
  BY DEF IntakeInv, IntakeTypeOK, IntakePc
<1>3. ASSUME plan # NoPlan, NEW i \in Parts, i < plan.parts
      PROVE  /\ Lengths[i] = Expected(i)
             /\ Lengths[i] \in 1..plan.part /\ Lengths[i] \in U64 /\ plan.part \in U64
  <2>1. plan \in InitRequest /\ ValidRequest(plan) /\ plan.part \in U64
    BY <1>2, <1>3 DEF IntakeInv, InitRequest
  <2> QED
    BY <1>1, <1>3, <2>1, ExpectedTiles DEF U64, Lengths
<1>4. ASSUME NEW q \in InitRequest, InitUpload(q) PROVE IntakeInv'
  <2>1. /\ plan = NoPlan /\ ValidRequest(q) /\ plan' = q
        /\ UNCHANGED <<received, intake, whole>>
    BY <1>4 DEF InitUpload
  <2> QED
    BY <1>1, <1>4, <2>1 DEF IntakeInv, IntakeTypeOK, Lengths, Expected
\* A handler that answers has nothing in hand.
<1>5. ASSUME NEW h \in Handler, NEW ans \in IntakePc \ {"body"}, Answers(h, ans),
             UNCHANGED <<plan, whole>>,
             received' = received \/
                /\ plan # NoPlan
                /\ \E i \in Parts : /\ i < plan.parts
                                    /\ received' = [received EXCEPT ![i] = Lengths[i]]
      PROVE  IntakeInv'
  <2>1. intake' \in [Handler -> [pc : IntakePc, part : Parts, total : U64]]
    BY <1>2, <1>5 DEF Answers
  <2>2. received' \in [Parts -> U64]
    BY <1>2, <1>3, <1>5
  <2>3. \A g \in Handler : intake'[g].pc = "body" => intake'[g] = intake[g]
    BY <1>2, <1>5 DEF Answers
  <2>4. Lengths' = Lengths
    BY <1>0, <1>5
  <2>5. ASSUME plan # NoPlan, NEW i \in Parts, i < plan.parts
        PROVE  /\ received'[i] \in {0, Lengths[i]}
               /\ received[i] # 0 => received'[i] # 0
    <3>1. received[i] \in {0, Lengths[i]} /\ Lengths[i] # 0
      BY <1>3, <2>5 DEF IntakeInv
    <3> QED
      BY <1>2, <1>5, <2>5, <3>1
  <2>6. \A g \in Handler : intake[g].part \in Parts
    BY <1>2
  <2>7. plan = NoPlan => received' = received
    BY <1>5
  <2>8. \A g \in Handler : intake'[g].pc = "body" =>
            /\ plan' # NoPlan /\ intake'[g].part < plan'.parts
            /\ intake'[g].total <= Lengths'[intake'[g].part]
    BY <1>5, <2>3, <2>4, <2>6 DEF IntakeInv
  <2>9. IntakeTypeOK'
    BY <1>2, <1>5, <2>1, <2>2 DEF IntakeTypeOK, IntakePc
  <2> QED
    BY <1>5, <2>4, <2>5, <2>7, <2>8, <2>9 DEF IntakeInv
<1>6. ASSUME NEW h \in Handler, NEW i \in Parts, NEW d \in DeclaredLen, PartBegins(h, i, d)
      PROVE  IntakeInv'
  <2>1. \/ \E ans \in IntakePc \ {"body"} : Answers(h, ans)
        \/ /\ i < plan.parts
           /\ intake' = [intake EXCEPT ![h] = [pc |-> "body", part |-> i, total |-> 0]]
    BY <1>6 DEF PartBegins, TooLong, IntakePc
  <2>2. UNCHANGED <<plan, received, whole>> /\ plan # NoPlan
    BY <1>6 DEF PartBegins
  <2>3. CASE \E ans \in IntakePc \ {"body"} : Answers(h, ans)
    BY <1>5, <2>2, <2>3
  <2>4. CASE i < plan.parts /\ intake' = [intake EXCEPT ![h] = [pc |-> "body", part |-> i, total |-> 0]]
    <3>1. Lengths[i] \in U64 /\ 0 \in U64
      BY <1>1, <1>3, <2>2, <2>4 DEF U64
    <3>2. intake' \in [Handler -> [pc : IntakePc, part : Parts, total : U64]]
      BY <1>2, <2>4, <3>1 DEF IntakePc
    <3>3. \A g \in Handler : intake'[g].pc = "body" =>
            /\ plan' # NoPlan /\ intake'[g].part < plan'.parts
            /\ intake'[g].total <= Lengths'[intake'[g].part]
      <4>1. ASSUME NEW g \in Handler, intake'[g].pc = "body", g # h
            PROVE  /\ plan' # NoPlan /\ intake'[g].part < plan'.parts
                   /\ intake'[g].total <= Lengths'[intake'[g].part]
        BY <1>0, <1>2, <2>2, <2>4, <4>1 DEF IntakeInv
      <4>2. intake'[h].part = i /\ intake'[h].total = 0 /\ 0 <= Lengths[i]
        BY <1>1, <1>2, <2>4, <3>1 DEF U64
      <4> QED
        BY <1>0, <2>2, <2>4, <4>1, <4>2
    <3>4. Lengths' = Lengths
      BY <1>0, <2>2
    <3>5. IntakeTypeOK'
      BY <1>2, <2>2, <3>2 DEF IntakeTypeOK, IntakePc
    <3> QED
      BY <2>2, <3>3, <3>4, <3>5 DEF IntakeInv
  <2> QED
    BY <2>1, <2>3, <2>4
<1>7. ASSUME NEW h \in Handler, NEW n \in Chunk, BodyChunk(h, n) PROVE IntakeInv'
  <2>1. /\ intake[h].pc = "body" /\ UNCHANGED <<plan, received, whole>>
        /\ \/ Answers(h, TooLong(intake[h].part))
           \/ /\ ~(intake[h].total + n > Expected(intake[h].part))
              /\ intake' = [intake EXCEPT ![h].total = intake[h].total + n]
    BY <1>7 DEF BodyChunk
  <2>2. CASE Answers(h, TooLong(intake[h].part))
    <3>1. TooLong(intake[h].part) \in IntakePc \ {"body"}
      BY DEF TooLong, IntakePc
    <3> QED
      BY <1>5, <2>1, <2>2, <3>1
  <2>3. CASE /\ ~(intake[h].total + n > Expected(intake[h].part))
             /\ intake' = [intake EXCEPT ![h].total = intake[h].total + n]
    <3>1. plan # NoPlan /\ intake[h].part \in Parts /\ intake[h].part < plan.parts
      BY <1>2, <2>1 DEF IntakeInv
    <3>2. Lengths[intake[h].part] \in U64 /\ intake[h].total \in U64 /\ n \in Nat
      BY <1>1, <1>2, <1>3, <3>1
    <3>3. intake[h].total + n \in U64 /\ intake[h].total + n <= Lengths[intake[h].part]
      BY <1>1, <1>3, <2>3, <3>1, <3>2 DEF U64
    <3>4. intake' \in [Handler -> [pc : IntakePc, part : Parts, total : U64]]
      BY <1>2, <2>3, <3>3
    <3>5. \A g \in Handler : /\ intake'[g].pc = intake[g].pc /\ intake'[g].part = intake[g].part
                             /\ intake'[g].total = IF g = h THEN intake[h].total + n
                                                            ELSE intake[g].total
      BY <1>2, <2>3
    <3>6. Lengths' = Lengths
      BY <1>0, <2>1
    <3>7. \A g \in Handler : intake'[g].pc = "body" =>
            /\ plan' # NoPlan /\ intake'[g].part < plan'.parts
            /\ intake'[g].total <= Lengths'[intake'[g].part]
      BY <2>1, <3>1, <3>3, <3>5, <3>6 DEF IntakeInv
    <3>9. IntakeTypeOK'
      BY <1>2, <2>1, <3>4 DEF IntakeTypeOK, IntakePc
    <3> QED
      BY <2>1, <3>6, <3>7, <3>9 DEF IntakeInv
  <2> QED
    BY <2>1, <2>2, <2>3
<1>8. ASSUME NEW h \in Handler, BodyEnds(h) PROVE IntakeInv'
  <2>1. plan # NoPlan /\ intake[h].part \in Parts /\ intake[h].part < plan.parts
    BY <1>2, <1>8 DEF IntakeInv, BodyEnds
  <2>2. /\ UNCHANGED <<plan, whole>>
        /\ \/ /\ received' = [received EXCEPT ![intake[h].part] = Lengths[intake[h].part]]
              /\ Answers(h, "stored")
           \/ received' = received /\ Answers(h, "bad_request")
    BY <1>3, <1>8, <2>1 DEF BodyEnds
  <2>3. "stored" \in IntakePc \ {"body"} /\ "bad_request" \in IntakePc \ {"body"}
    BY DEF IntakePc
  <2> QED
    BY <1>5, <2>1, <2>2, <2>3
<1>9. ASSUME NEW h \in Handler, BodyBreaks(h) PROVE IntakeInv'
  <2>1. "bad_request" \in IntakePc \ {"body"}
    BY DEF IntakePc
  <2> QED
    BY <1>5, <1>9, <2>1 DEF BodyBreaks
<1>10. CASE CompleteParts
  BY <1>0, <1>10 DEF CompleteParts, IntakeInv, IntakeTypeOK
<1>11. CASE UNCHANGED intakeVars
  BY <1>0, <1>11 DEF intakeVars, IntakeInv, IntakeTypeOK
<1> QED
  BY <1>4, <1>6, <1>7, <1>8, <1>9, <1>10, <1>11 DEF IntakeNext

\* The invariant of the intake.
THEOREM IntakeInvariant == IntakeSpec => []IntakeInv
<1>1. IntakeInit => IntakeInv
  <2>1. Word \in Nat /\ Word >= 1 /\ MaxParts \in Nat /\ MaxParts >= 1
    BY IntakeAssumption
  <2>2. 0 \in U64 /\ 0 \in Parts
    BY <2>1 DEF U64, Parts
  <2> SUFFICES ASSUME IntakeInit PROVE IntakeInv
    OBVIOUS
  <2>3. IntakeTypeOK
    BY <2>2 DEF IntakeInit, IntakeTypeOK
  <2>4. /\ plan = NoPlan /\ ~whole /\ \A i \in Parts : received[i] = 0
        /\ \A h \in Handler : intake[h].pc # "body"
    BY DEF IntakeInit
  <2> QED
    BY <2>3, <2>4 DEF IntakeInv
<1> QED
  BY <1>1, IntakeStep, PTL DEF IntakeSpec

\* upload_part and complete_upload: for every size, part size, number of
\* parts and word that InitRequest::validate accepts, the parts of a
\* completed upload tile the file, and no body makes a handler buffer more
\* than one part or more than MaxSingle.
THEOREM IntakeIsExact == IntakeSpec => []IntakeExact
<1>1. IntakeInv => IntakeExact
  <2> SUFFICES ASSUME IntakeInv PROVE IntakeExact
    OBVIOUS
  <2>1. Parts \subseteq Nat /\ plan \in InitRequest \cup {NoPlan}
    BY IntakeAssumption DEF Parts, IntakeInv, IntakeTypeOK
  <2>2. ASSUME plan # NoPlan, NEW i \in Parts, i < plan.parts
        PROVE  /\ Lengths[i] = Expected(i)
               /\ Expected(i) \in 1..plan.part /\ plan.part \in Nat /\ plan.part <= MaxSingle
               /\ i * plan.part + Expected(i) =
                    IF i = plan.parts - 1 THEN plan.size ELSE (i + 1) * plan.part
    <3>1. plan \in InitRequest /\ ValidRequest(plan) /\ i \in Nat
      BY <2>1, <2>2 DEF IntakeInv
    <3>2. plan.part \in Nat /\ plan.part <= MaxSingle
      BY <3>1, ValidPlan
    <3> QED
      BY <2>2, <3>1, <3>2, ExpectedTiles DEF Lengths
  <2>3. PartsTile
    <3> SUFFICES ASSUME whole, NEW i \in Parts, i < plan.parts
                 PROVE  /\ received[i] \in 1..plan.part
                        /\ i * plan.part + received[i] =
                              IF i = plan.parts - 1 THEN plan.size ELSE (i + 1) * plan.part
      BY DEF PartsTile
    <3>1. plan # NoPlan /\ received[i] = Lengths[i]
      BY DEF IntakeInv
    <3> QED
      BY <2>2, <3>1
  <2>4. BufferBounded
    <3> SUFFICES ASSUME NEW h \in Handler, intake[h].pc = "body"
                 PROVE  intake[h].total <= plan.part /\ intake[h].total <= MaxSingle
      BY DEF BufferBounded
    <3>1. /\ plan # NoPlan /\ intake[h].part \in Parts /\ intake[h].part < plan.parts
          /\ intake[h].total <= Lengths[intake[h].part] /\ intake[h].total \in Nat
      BY IntakeAssumption DEF IntakeInv, IntakeTypeOK, U64
    <3>2. Lengths[intake[h].part] \in 1..plan.part /\ plan.part \in Nat /\ plan.part <= MaxSingle
      BY <2>2, <3>1
    <3>3. MaxSingle \in Nat
      BY IntakeAssumption
    <3> QED
      BY <3>1, <3>2, <3>3
  <2> QED
    BY <2>3, <2>4 DEF IntakeExact
<1> QED
  BY <1>1, IntakeInvariant, PTL

-----------------------------------------------------------------------------
(* The use of a file *)

FileReads == {"meta", "get", "delete"}

\* What entitles a request: its subject owns a file that had no row, or was
\* granted a row that the file had.
Entitled(req) == (req.sub = Owner /\ req.bare) \/ req.rows \cap req.granted # {}

\* Where a request is, it is of a kind that comes there and, past the
\* checks, entitled, unless the file has gone meanwhile.
Staged(req, exists) ==
    /\ req.pc \in {"file", "rows", "row", "record", "bytes", "refs", "remove", "object", "done"} =>
            req.op \in FileReads
    /\ req.pc = "exists" => req.op \in {"attach", "delete"}
    /\ req.pc \in {"require", "store"} => req.op \in {"attach", "detach"}
    /\ req.op \in {"attach", "detach"} => req.row \in FileRow
    /\ req.left \subseteq req.rows
    /\ req.pc \in {"bytes", "done"} \/ (exists /\ req.pc \in {"record", "remove"}) => Entitled(req)
    /\ req.pc = "object" => ~exists

\* The evidence of a request has what there is now.
Seen(req, exists, attached, grants) ==
    req.op \in FileReads =>
        /\ attached \subseteq req.rows
        /\ \A r \in FileRow : <<req.sub, r, ActOf[req.op]>> \in grants => r \in req.granted
        /\ exists /\ attached = {} => req.bare

\* A collector that has decided and finds rows was overtaken by an attach.
GcOvertaken == faGc \in {"object", "remove"} /\ faFile /\ faRows # {} => faRaced

FileInv ==
    /\ FileTypeOK
    /\ faRefs.count = Cardinality(faRows)
    /\ AttachedHasBytes /\ GcOvertaken
    /\ \A t \in FileTask : /\ Staged(faTask[t], faFile)
                           /\ Seen(faTask[t], faFile, faRows, faGrants)

\* A file whose count is 0 has no row.
LEMMA CountsRows ==
  ASSUME FileInv
  PROVE  /\ faRefs.count = 0 => faRows = {}
         /\ IsFiniteSet(faRows) /\ Cardinality(faRows) \in Nat /\ Cardinality(FileRow) \in Nat
<1>1. IsFiniteSet(faRows) /\ IsFiniteSet(FileRow)
  BY FileAssumption, FS_Subset DEF FileInv, FileTypeOK
<1> QED
  BY <1>1, FS_CardinalityType, FS_EmptySet DEF FileInv

\* The evidence that is added keeps a request what it is.
LEMMA WitnessKeeps ==
  ASSUME NEW req \in FileRequest, NEW was \in BOOLEAN, NEW is \in BOOLEAN, is => was,
         NEW attached \in SUBSET FileRow, NEW grants, Staged(req, was)
  PROVE  LET seen == Witness(req, is, attached, grants)
         IN  seen \in FileRequest /\ Staged(seen, is) /\ Seen(seen, is, attached, grants)
<1> DEFINE seen == Witness(req, is, attached, grants)
<1>1. CASE req.op \notin FileReads
  <2>1. seen = req
    BY <1>1 DEF Witness, FileReads
  <2> QED
    BY <1>1, <2>1 DEF Staged, Seen
<1>2. CASE req.op \in FileReads
  <2> DEFINE held == {r \in FileRow : <<req.sub, r, ActOf[req.op]>> \in grants}
  <2>1. seen = [req EXCEPT !.rows = req.rows \cup attached, !.granted = req.granted \cup held,
                            !.bare = req.bare \/ (is /\ attached = {})]
    BY <1>2 DEF Witness, FileReads
  <2>2. /\ req.rows \in SUBSET FileRow /\ req.granted \in SUBSET FileRow /\ req.bare \in BOOLEAN
    BY DEF FileRequest
  <2>3. /\ req.rows \cup attached \in SUBSET FileRow /\ req.granted \cup held \in SUBSET FileRow
        /\ (req.bare \/ (is /\ attached = {})) \in BOOLEAN
    BY <2>2
  <2>4. seen \in FileRequest
    BY <2>1, <2>3, Zenon DEF FileRequest
  <2>5. /\ seen.pc = req.pc /\ seen.op = req.op /\ seen.sub = req.sub /\ seen.row = req.row
        /\ seen.left = req.left
        /\ seen.rows = req.rows \cup attached /\ seen.granted = req.granted \cup held
        /\ seen.bare <=> req.bare \/ (is /\ attached = {})
    BY <2>1 DEF FileRequest
  <2> HIDE DEF seen
  <2>6. Entitled(req) => Entitled(seen)
    BY <2>5 DEF Entitled
  <2>7. Staged(seen, is)
    BY <2>5, <2>6 DEF Staged
  <2>8. Seen(seen, is, attached, grants)
    BY <2>5 DEF Seen
  <2> QED
    BY <2>4, <2>7, <2>8 DEF seen
<1> QED
  BY <1>1, <1>2

FilePcs == {"idle", "file", "rows", "row", "record", "bytes", "refs", "remove", "object",
            "require", "exists", "store", "done"}

\* The rest of the state, and what is known of it, as it was.
WorldKept ==
    /\ UNCHANGED <<faFile, faRows, faRefs, faGrants, faGc, faNow, faRaced>>
    /\ faBytes' = faBytes \/ (~faFile /\ faBytes' = FALSE)

\* A request may turn into any that fits its stage and has seen what there is.
LEMMA OneRequest ==
  ASSUME FileInv, NEW t \in FileTask, NEW req \in FileRequest, WorldKept,
         Staged(req, faFile), Seen(req, faFile, faRows, faGrants),
         faTask' = [faTask EXCEPT ![t] = req]
  PROVE  FileInv'
<1>1. /\ faTask' \in [FileTask -> FileRequest]
      /\ \A u \in FileTask : faTask'[u] = IF u = t THEN req ELSE faTask[u]
  BY DEF FileInv, FileTypeOK
<1>2. \A u \in FileTask : Staged(faTask'[u], faFile) /\ Seen(faTask'[u], faFile, faRows, faGrants)
  BY <1>1 DEF FileInv
<1>3. FileTypeOK'
  BY <1>1 DEF FileInv, FileTypeOK, WorldKept
<1>4. AttachedHasBytes' /\ GcOvertaken' /\ faRefs'.count = Cardinality(faRows')
  BY DEF FileInv, AttachedHasBytes, GcOvertaken, WorldKept
<1>5. \A u \in FileTask : Staged(faTask'[u], faFile') /\ Seen(faTask'[u], faFile', faRows', faGrants')
  BY <1>2 DEF WorldKept
<1> QED
  BY <1>3, <1>4, <1>5 DEF FileInv

\* A request that ends is idle.
LEMMA EndsStep ==
  ASSUME FileInv, NEW t \in FileTask, WorldKept, Ends(t)
  PROVE  FileInv'
<1>1. IdleTask \in FileRequest /\ Staged(IdleTask, faFile) /\ Seen(IdleTask, faFile, faRows, faGrants)
  BY FileAssumption DEF IdleTask, FileRequest, Staged, Seen, FileReads
<1> QED
  BY <1>1, OneRequest DEF Ends

\* A request that goes on has to fit the stage it comes to.
LEMMA GoesStep ==
  ASSUME FileInv, NEW t \in FileTask, NEW where \in FilePcs, WorldKept, GoesTo(t, where),
         where \in {"file", "rows", "row", "record", "bytes", "refs", "remove", "object", "done"} =>
            faTask[t].op \in FileReads,
         where = "exists" => faTask[t].op \in {"attach", "delete"},
         where \in {"require", "store"} => faTask[t].op \in {"attach", "detach"},
         where \in {"bytes", "done"} \/ (faFile /\ where \in {"record", "remove"}) => Entitled(faTask[t]),
         where = "object" => ~faFile
  PROVE  FileInv'
<1> DEFINE req == [faTask[t] EXCEPT !.pc = where]
<1>1. faTask[t] \in FileRequest /\ Staged(faTask[t], faFile) /\ Seen(faTask[t], faFile, faRows, faGrants)
  BY DEF FileInv, FileTypeOK
<1>2. req \in FileRequest
  BY <1>1, Zenon DEF FileRequest, FilePcs
<1>3. /\ req.pc = where /\ req.op = faTask[t].op /\ req.sub = faTask[t].sub /\ req.row = faTask[t].row
      /\ req.left = faTask[t].left /\ req.rows = faTask[t].rows /\ req.granted = faTask[t].granted
      /\ req.bare = faTask[t].bare
  BY <1>1 DEF FileRequest
<1>4. faTask' = [faTask EXCEPT ![t] = req]
  BY DEF GoesTo
<1> HIDE DEF req
<1>5. Staged(req, faFile)
  BY <1>1, <1>3 DEF Staged, Entitled
<1>6. Seen(req, faFile, faRows, faGrants)
  BY <1>1, <1>3 DEF Seen
<1> QED
  BY <1>2, <1>4, <1>5, <1>6, OneRequest

\* Whatever becomes of the file, its rows and the grants, requests that are
\* told of it keep their evidence.
LEMMA WitnessedStep ==
  ASSUME FileInv, NEW reqs \in [FileTask -> FileRequest], faTask' = Witnessed(reqs),
         faFile' \in BOOLEAN, faRows' \in SUBSET FileRow,
         \A t \in FileTask : Staged(reqs[t], faFile')
  PROVE  /\ faTask' \in [FileTask -> FileRequest]
         /\ \A t \in FileTask : /\ Staged(faTask'[t], faFile')
                                /\ Seen(faTask'[t], faFile', faRows', faGrants')
<1>1. \A t \in FileTask : faTask'[t] = Witness(reqs[t], faFile', faRows', faGrants')
  BY DEF Witnessed
<1>2. ASSUME NEW t \in FileTask
      PROVE  /\ faTask'[t] \in FileRequest /\ Staged(faTask'[t], faFile')
             /\ Seen(faTask'[t], faFile', faRows', faGrants')
  BY <1>1, <1>2, WitnessKeeps
<1> QED
  BY <1>2 DEF Witnessed

\* What was staged stays so when the file goes.
LEMMA StagedWithout ==
  ASSUME NEW req, NEW was \in BOOLEAN, NEW is \in BOOLEAN, is => was, Staged(req, was)
  PROVE  Staged(req, is)
BY DEF Staged

\* Each step of a request or of the collector keeps the invariant.
LEMMA FileStep ==
  ASSUME FileInv, [FileNext]_faVars
  PROVE  FileInv'
<1>1. /\ faTask \in [FileTask -> FileRequest] /\ faFile \in BOOLEAN /\ faBytes \in BOOLEAN
      /\ faRows \in SUBSET FileRow /\ faRefs.count = Cardinality(faRows)
      /\ faGc \in {"idle", "count", "object", "remove"} /\ faRaced \in BOOLEAN
      /\ faRefs \in [count : 0..Cardinality(FileRow), orphan : -1..MaxFaClock]
      /\ faNow \in 0..MaxFaClock /\ faGrants \subseteq GrantChoice
  BY DEF FileInv, FileTypeOK
<1>2. \A t \in FileTask : /\ faTask[t] \in FileRequest /\ Staged(faTask[t], faFile)
                          /\ Seen(faTask[t], faFile, faRows, faGrants)
  BY <1>1 DEF FileInv
<1>3. MaxFaClock \in Nat /\ Cardinality(FileRow) \in Nat /\ Cardinality(faRows) \in Nat
  BY FileAssumption, CountsRows
\* The requests
<1>4. ASSUME NEW t \in FileTask, NEW c \in FileCall,
             NEW row \in IF c[1] \in {"attach", "detach"} THEN FileRow ELSE {Nil},
             FaBegin(t, c[1], c[2], row)
      PROVE  FileInv'
  <2> DEFINE req == [IdleTask EXCEPT !.op = c[1], !.sub = c[2], !.row = row,
                        !.pc = CASE c[1] \in {"meta", "get"} -> "file"
                                 [] c[1] = "delete" -> "exists"
                                 [] OTHER -> "require"]
             reqs == [faTask EXCEPT ![t] = req]
  <2>1. /\ UNCHANGED <<faFile, faBytes, faRows, faRefs, faGrants, faGc, faNow, faRaced>>
        /\ faTask' = Witnessed(reqs)
    BY <1>4 DEF FaBegin
  <2>2. c[1] \in {"meta", "get", "delete", "attach", "detach"} /\ c[2] \in {Owner, Guest}
    BY FileAssumption
  <2>3. /\ req.op = c[1] /\ req.row = row /\ req.left = {} /\ req.rows = {}
        /\ req.pc \in {"file", "exists", "require"}
        /\ req.pc = "file" => c[1] \in {"meta", "get"}
        /\ req.pc = "exists" => c[1] = "delete"
        /\ req.pc = "require" => c[1] \in {"attach", "detach"}
    BY <2>2 DEF IdleTask
  <2>4. req \in FileRequest
    BY <2>2, <2>3 DEF IdleTask, FileRequest, ActOf
  <2> HIDE DEF req
  <2>5. Staged(req, faFile)
    BY <2>2, <2>3 DEF Staged, FileReads
  <2>6. reqs \in [FileTask -> FileRequest] /\ \A u \in FileTask : Staged(reqs[u], faFile')
    BY <1>1, <1>2, <2>1, <2>4, <2>5
  <2> HIDE DEF reqs
  <2>7. /\ faTask' \in [FileTask -> FileRequest]
        /\ \A u \in FileTask : /\ Staged(faTask'[u], faFile')
                               /\ Seen(faTask'[u], faFile', faRows', faGrants')
    BY <1>1, <2>1, <2>6, WitnessedStep
  <2> QED
    BY <2>1, <2>7 DEF FileInv, FileTypeOK, AttachedHasBytes, GcOvertaken
<1>5. ASSUME NEW t \in FileTask, CanAccessFile(t) PROVE FileInv'
  <2>1. WorldKept /\ faTask[t].pc = "file" /\ (GoesTo(t, "rows") \/ Ends(t))
    BY <1>5 DEF CanAccessFile, WorldKept
  <2>2. faTask[t].op \in FileReads
    BY <1>2, <2>1 DEF Staged
  <2>3. CASE GoesTo(t, "rows")
    BY <2>1, <2>2, <2>3, GoesStep DEF FilePcs
  <2> QED
    BY <2>1, <2>3, EndsStep
\* A request that is allowed is entitled, or the file is gone.
<1>6. ASSUME NEW t \in FileTask, WorldKept, Allowed(t), faTask[t].op \in FileReads,
             faFile => Entitled(faTask[t])
      PROVE  FileInv'
  <2>1. \/ GoesTo(t, "remove") \/ GoesTo(t, "record")
    BY <1>6 DEF Allowed
  <2>2. "remove" \in FilePcs /\ "record" \in FilePcs
    BY DEF FilePcs
  <2>3. CASE GoesTo(t, "remove")
    BY <1>6, <2>2, <2>3, GoesStep
  <2>4. CASE GoesTo(t, "record")
    BY <1>6, <2>2, <2>4, GoesStep
  <2> QED
    BY <2>1, <2>3, <2>4
<1>7. ASSUME NEW t \in FileTask, CanAccessRows(t) PROVE FileInv'
  <2>1. WorldKept /\ faTask[t].pc = "rows"
    BY <1>7 DEF CanAccessRows, WorldKept
  <2>2. faTask[t].op \in FileReads
    BY <1>2, <2>1 DEF Staged
  <2>3. CASE faRows = {} /\ faTask[t].sub = Owner /\ Allowed(t)
    <3>1. faFile => Entitled(faTask[t])
      BY <1>2, <2>2, <2>3 DEF Seen, Entitled
    <3> QED
      BY <1>6, <2>1, <2>2, <2>3, <3>1
  <2>4. CASE Ends(t)
    BY <2>1, <2>4, EndsStep
  <2>5. CASE faTask' = [faTask EXCEPT ![t].pc = "row", ![t].left = faRows]
    <3> DEFINE req == [faTask[t] EXCEPT !.pc = "row", !.left = faRows]
    <3>1. req \in FileRequest
      BY <1>1, <1>2, ZenonT(60) DEF FileRequest
    <3>2. /\ req.pc = "row" /\ req.op = faTask[t].op /\ req.sub = faTask[t].sub
          /\ req.row = faTask[t].row /\ req.left = faRows /\ req.rows = faTask[t].rows
          /\ req.granted = faTask[t].granted /\ req.bare = faTask[t].bare
      BY <1>2 DEF FileRequest
    <3>3. faTask' = [faTask EXCEPT ![t] = req]
      BY <1>1, <2>5
    <3> HIDE DEF req
    <3>4. Seen(req, faFile, faRows, faGrants)
      BY <1>2, <3>2 DEF Seen
    <3>5. Staged(req, faFile)
      BY <1>2, <2>2, <3>2 DEF Staged, Seen
    <3> QED
      BY <2>1, <3>1, <3>3, <3>4, <3>5, OneRequest
  <2> QED
    BY <1>7, <2>3, <2>4, <2>5 DEF CanAccessRows, OwnerDecides
<1>8. ASSUME NEW t \in FileTask, CanAccessRow(t) PROVE FileInv'
  <2>1. WorldKept /\ faTask[t].pc = "row"
    BY <1>8 DEF CanAccessRow, WorldKept
  <2>2. faTask[t].op \in FileReads /\ faTask[t].left \subseteq FileRow
    BY <1>2, <2>1 DEF Staged, FileRequest
  <2>3. CASE Ends(t)
    BY <2>1, <2>3, EndsStep
  <2>4. CASE \E r \in faTask[t].left :
                <<faTask[t].sub, r, ActOf[faTask[t].op]>> \in faGrants /\ Allowed(t)
    <3>1. Entitled(faTask[t])
      BY <1>2, <2>2, <2>4 DEF Seen, Staged, Entitled
    <3> QED
      BY <1>6, <2>1, <2>2, <2>4, <3>1
  <2>5. CASE \E r \in faTask[t].left : faTask' = [faTask EXCEPT ![t].left = @ \ {r}]
    <3>1. PICK r \in faTask[t].left : faTask' = [faTask EXCEPT ![t].left = @ \ {r}]
      BY <2>5
    <3> DEFINE rest == faTask[t].left \ {r}
               req == [faTask[t] EXCEPT !.left = rest]
    <3>2. rest \in SUBSET FileRow
      BY <2>2
    <3>3. req \in FileRequest
      BY <1>2, <3>2, Zenon DEF FileRequest
    <3>4. /\ req.pc = "row" /\ req.op = faTask[t].op /\ req.sub = faTask[t].sub
          /\ req.row = faTask[t].row /\ req.left = rest /\ req.rows = faTask[t].rows
          /\ req.granted = faTask[t].granted /\ req.bare = faTask[t].bare
      BY <1>2, <2>1 DEF FileRequest
    <3>5. faTask' = [faTask EXCEPT ![t] = req]
      BY <1>1, <3>1
    <3> HIDE DEF req
    <3>6. Seen(req, faFile, faRows, faGrants)
      BY <1>2, <3>4 DEF Seen
    <3>7. Staged(req, faFile)
      BY <1>2, <2>2, <3>4 DEF Staged
    <3> QED
      BY <2>1, <3>3, <3>5, <3>6, <3>7, OneRequest
  <2> QED
    BY <1>8, <2>3, <2>4, <2>5 DEF CanAccessRow
<1>9. ASSUME NEW t \in FileTask, ReadRecord(t) PROVE FileInv'
  <2>1. WorldKept /\ faTask[t].pc = "record"
    BY <1>9 DEF ReadRecord, WorldKept
  <2>2. faTask[t].op \in FileReads /\ (faFile => Entitled(faTask[t]))
    BY <1>2, <2>1 DEF Staged
  <2>3. CASE Ends(t)
    BY <2>1, <2>3, EndsStep
  <2>4. CASE faFile /\ (GoesTo(t, "done") \/ GoesTo(t, "bytes"))
    <3>1. "done" \in FilePcs /\ "bytes" \in FilePcs
      BY DEF FilePcs
    <3>2. CASE GoesTo(t, "done")
      BY <2>1, <2>2, <2>4, <3>1, <3>2, GoesStep
    <3>3. CASE GoesTo(t, "bytes")
      BY <2>1, <2>2, <2>4, <3>1, <3>3, GoesStep
    <3> QED
      BY <2>4, <3>2, <3>3
  <2>5. CASE faTask' = [faTask EXCEPT ![t].pc = "file", ![t].second = TRUE]
    <3> DEFINE req == [faTask[t] EXCEPT !.pc = "file", !.second = TRUE]
    <3>1. req \in FileRequest
      BY <1>2, Zenon DEF FileRequest
    <3>2. /\ req.pc = "file" /\ req.op = faTask[t].op /\ req.sub = faTask[t].sub
          /\ req.row = faTask[t].row /\ req.left = faTask[t].left /\ req.rows = faTask[t].rows
          /\ req.granted = faTask[t].granted /\ req.bare = faTask[t].bare
      BY <1>2 DEF FileRequest
    <3>3. faTask' = [faTask EXCEPT ![t] = req]
      BY <1>1, <2>5
    <3> HIDE DEF req
    <3>4. Seen(req, faFile, faRows, faGrants)
      BY <1>2, <3>2 DEF Seen
    <3>5. Staged(req, faFile)
      BY <1>2, <2>2, <3>2 DEF Staged
    <3> QED
      BY <2>1, <3>1, <3>3, <3>4, <3>5, OneRequest
  <2> QED
    BY <1>9, <2>3, <2>4, <2>5 DEF ReadRecord
<1>10. ASSUME NEW t \in FileTask, ReadBytes(t) PROVE FileInv'
  <2>1. WorldKept /\ faTask[t].pc = "bytes" /\ (GoesTo(t, "done") \/ Ends(t))
    BY <1>10 DEF ReadBytes, WorldKept
  <2>2. faTask[t].op \in FileReads /\ Entitled(faTask[t]) /\ "done" \in FilePcs
    BY <1>2, <2>1 DEF Staged, FilePcs
  <2>3. CASE GoesTo(t, "done")
    BY <2>1, <2>2, <2>3, GoesStep
  <2> QED
    BY <2>1, <2>3, EndsStep
<1>11. ASSUME NEW t \in FileTask, FaDone(t) PROVE FileInv'
  BY <1>11, EndsStep DEF FaDone, WorldKept
<1>12. ASSUME NEW t \in FileTask, RequireRow(t) PROVE FileInv'
  <2>1. /\ WorldKept /\ faTask[t].pc = "require"
        /\ \/ faTask[t].op = "attach" /\ GoesTo(t, "exists")
           \/ GoesTo(t, "store") \/ Ends(t)
    BY <1>12 DEF RequireRow, WorldKept
  <2>2. faTask[t].op \in {"attach", "detach"} /\ "exists" \in FilePcs /\ "store" \in FilePcs
    BY <1>2, <2>1 DEF Staged, FilePcs
  <2>3. CASE faTask[t].op = "attach" /\ GoesTo(t, "exists")
    BY <2>1, <2>2, <2>3, GoesStep
  <2>4. CASE GoesTo(t, "store")
    BY <2>1, <2>2, <2>4, GoesStep
  <2> QED
    BY <2>1, <2>3, <2>4, EndsStep
<1>13. ASSUME NEW t \in FileTask, FileExists(t) PROVE FileInv'
  <2>1. /\ WorldKept /\ faTask[t].pc = "exists"
        /\ \/ faTask[t].op = "attach" /\ GoesTo(t, "store")
           \/ faTask[t].op # "attach" /\ GoesTo(t, "refs")
           \/ Ends(t)
    BY <1>13 DEF FileExists, WorldKept
  <2>2. faTask[t].op \in {"attach", "delete"} /\ "refs" \in FilePcs /\ "store" \in FilePcs
    BY <1>2, <2>1 DEF Staged, FilePcs
  <2>3. CASE faTask[t].op = "attach" /\ GoesTo(t, "store")
    BY <2>1, <2>2, <2>3, GoesStep
  <2>4. CASE faTask[t].op # "attach" /\ GoesTo(t, "refs")
    BY <2>1, <2>2, <2>4, GoesStep DEF FileReads
  <2> QED
    BY <2>1, <2>3, <2>4, EndsStep
<1>14. ASSUME NEW t \in FileTask, DeleteRefs(t) PROVE FileInv'
  <2>1. /\ WorldKept /\ faTask[t].pc = "refs"
        /\ \/ GoesTo(t, "file")
           \/ faRefs.count = 0 /\ faTask[t].sub = Owner /\ GoesTo(t, "remove")
           \/ Ends(t)
    BY <1>14 DEF DeleteRefs, WorldKept
  <2>2. faTask[t].op \in FileReads /\ "file" \in FilePcs /\ "remove" \in FilePcs
    BY <1>2, <2>1 DEF Staged, FilePcs
  <2>3. CASE GoesTo(t, "file")
    BY <2>1, <2>2, <2>3, GoesStep
  <2>4. CASE faRefs.count = 0 /\ faTask[t].sub = Owner /\ GoesTo(t, "remove")
    <3>1. faFile => Entitled(faTask[t])
      BY <1>2, <2>2, <2>4, CountsRows DEF Seen, Entitled
    <3> QED
      BY <2>1, <2>2, <2>4, <3>1, GoesStep
  <2> QED
    BY <2>1, <2>3, <2>4, EndsStep
<1>15. ASSUME NEW t \in FileTask, DeleteObject(t) PROVE FileInv'
  <2>1. ~faFile
    BY <1>2, <1>15 DEF DeleteObject, Staged
  <2>2. WorldKept
    BY <1>15, <2>1 DEF DeleteObject, WorldKept
  <2> QED
    BY <1>15, <2>2, EndsStep DEF DeleteObject
\* The file goes, with its rows and their count.
<1>16. ASSUME RemoveFile, NEW reqs \in [FileTask -> FileRequest], faTask' = Witnessed(reqs),
              \A t \in FileTask : Staged(reqs[t], FALSE),
              UNCHANGED <<faBytes, faGrants, faNow, faRaced>>, faGc' \in {faGc, "idle"}
       PROVE  FileInv'
  <2>1. faFile' = FALSE /\ faRows' = {} /\ faRefs' = [count |-> 0, orphan |-> -1]
    BY <1>16 DEF RemoveFile
  <2>2. /\ faTask' \in [FileTask -> FileRequest]
        /\ \A u \in FileTask : /\ Staged(faTask'[u], faFile')
                               /\ Seen(faTask'[u], faFile', faRows', faGrants')
    BY <1>16, <2>1, WitnessedStep
  <2>3. faRefs' \in [count : 0..Cardinality(FileRow), orphan : -1..MaxFaClock]
    BY <1>3, <2>1
  <2>4. FileTypeOK'
    BY <1>1, <1>16, <2>1, <2>2, <2>3 DEF FileTypeOK
  <2>5. faRefs'.count = Cardinality(faRows')
    BY <2>1, FS_EmptySet
  <2> QED
    BY <2>1, <2>2, <2>4, <2>5 DEF FileInv, AttachedHasBytes, GcOvertaken
<1>17. ASSUME NEW t \in FileTask, DeleteRecord(t) PROVE FileInv'
  <2>1. CASE UNCHANGED <<faFile, faRows, faRefs>> /\ Ends(t)
    BY <1>17, <2>1, EndsStep DEF DeleteRecord, WorldKept
  <2>2. CASE RemoveFile /\ faTask' = Witnessed([faTask EXCEPT ![t].pc = "object"])
    <3> DEFINE req == [faTask[t] EXCEPT !.pc = "object"]
               reqs == [faTask EXCEPT ![t] = req]
    <3>1. req \in FileRequest
      BY <1>2, Zenon DEF FileRequest
    <3>2. /\ req.pc = "object" /\ req.op = faTask[t].op /\ req.left = faTask[t].left
          /\ req.rows = faTask[t].rows /\ req.row = faTask[t].row
      BY <1>2 DEF FileRequest
    <3>3. [faTask EXCEPT ![t].pc = "object"] = reqs
      BY <1>1
    <3> HIDE DEF req
    <3>4. Staged(req, FALSE)
      BY <1>2, <1>17, <3>2 DEF Staged, DeleteRecord
    <3>5. reqs \in [FileTask -> FileRequest] /\ \A u \in FileTask : Staged(reqs[u], FALSE)
      BY <1>1, <1>2, <3>1, <3>4, StagedWithout
    <3> HIDE DEF reqs
    <3> QED
      BY <1>16, <1>17, <2>2, <3>3, <3>5 DEF DeleteRecord
  <2> QED
    BY <1>17, <2>1, <2>2 DEF DeleteRecord
\* One transaction on the relation and the count.
<1>18. ASSUME NEW t \in FileTask, RelationTx(t) PROVE FileInv'
  <2> DEFINE row == faTask[t].row
             reqs == [faTask EXCEPT ![t] = IdleTask]
  <2>1. /\ faTask[t].op \in {"attach", "detach"} /\ row \in FileRow
    BY <1>2, <1>18 DEF Staged, RelationTx
  <2>2. /\ UNCHANGED <<faFile, faBytes, faGrants, faGc, faNow>> /\ faTask' = Witnessed(reqs)
        /\ faRaced' = (faRaced \/ (faTask[t].op = "attach" /\ (Deciding \/ ~faFile \/ ~faBytes)))
    BY <1>18 DEF RelationTx
  <2>3. /\ faRows' \in SUBSET FileRow /\ faRefs'.count = Cardinality(faRows')
        /\ faRefs' \in [count : 0..Cardinality(FileRow), orphan : -1..MaxFaClock]
        /\ faTask[t].op = "detach" => faRows' \subseteq faRows
    <3>1. IsFiniteSet(faRows) /\ IsFiniteSet(FileRow)
      BY FileAssumption, CountsRows
    <3>2. CASE faRows' = faRows /\ faRefs' = faRefs
      BY <1>1, <3>2
    <3>3. CASE /\ faTask[t].op = "attach" /\ row \notin faRows /\ faRows' = faRows \cup {row}
               /\ faRefs' = [count |-> faRefs.count + 1, orphan |-> -1]
      <4>1. faRows' \subseteq FileRow /\ IsFiniteSet(faRows')
        BY <1>1, <2>1, <3>1, <3>3, FS_AddElement
      <4>2. Cardinality(faRows') = Cardinality(faRows) + 1
        BY <3>1, <3>3, FS_AddElement
      <4>3. Cardinality(faRows') <= Cardinality(FileRow)
        BY <3>1, <4>1, FS_Subset
      <4>4. faRefs'.count = Cardinality(faRows') /\ faRefs'.count \in 0..Cardinality(FileRow)
        BY <1>1, <1>3, <3>3, <4>2, <4>3
      <4>5. faRefs'.orphan = -1 /\ -1 \in -1..MaxFaClock
        BY <1>3, <3>3
      <4> QED
        BY <3>3, <4>1, <4>4, <4>5
    <3>4. CASE /\ faTask[t].op = "detach" /\ row \in faRows /\ faRows' = faRows \ {row}
               /\ faRefs' = [count |-> Greatest(faRefs.count - 1, 0),
                             orphan |-> IF faRefs.count <= 1 THEN faNow ELSE faRefs.orphan]
      <4>1. faRows' \subseteq FileRow /\ IsFiniteSet(faRows')
        BY <1>1, <3>1, <3>4, FS_RemoveElement
      <4>2. Cardinality(faRows') = Cardinality(faRows) - 1 /\ Cardinality(faRows') \in Nat
        BY <3>1, <3>4, <4>1, FS_RemoveElement, FS_CardinalityType
      <4>3. Cardinality(faRows') <= Cardinality(FileRow)
        BY <3>1, <4>1, FS_Subset
      <4>4. faRefs'.count = Cardinality(faRows') /\ faRefs'.count \in 0..Cardinality(FileRow)
        BY <1>1, <1>3, <3>4, <4>2, <4>3 DEF Greatest
      <4>5. faRefs'.orphan \in -1..MaxFaClock
        BY <1>1, <1>3, <3>4
      <4> QED
        BY <3>4, <4>1, <4>4, <4>5
    <3> QED
      BY <1>18, <2>1, <3>2, <3>3, <3>4 DEF RelationTx, AttachTx, DetachTx
  <2>4. reqs \in [FileTask -> FileRequest] /\ \A u \in FileTask : Staged(reqs[u], faFile')
    <3>1. IdleTask \in FileRequest /\ Staged(IdleTask, faFile)
      BY FileAssumption DEF IdleTask, FileRequest, Staged, FileReads
    <3> QED
      BY <1>1, <1>2, <2>2, <3>1
  <2> HIDE DEF reqs, row
  <2>5. /\ faTask' \in [FileTask -> FileRequest]
        /\ \A u \in FileTask : /\ Staged(faTask'[u], faFile')
                               /\ Seen(faTask'[u], faFile', faRows', faGrants')
    BY <1>1, <2>2, <2>3, <2>4, WitnessedStep
  <2>6. FileTypeOK'
    BY <1>1, <2>2, <2>3, <2>5 DEF FileTypeOK
  <2>7. AttachedHasBytes' /\ GcOvertaken'
    BY <1>1, <2>1, <2>2, <2>3 DEF FileInv, AttachedHasBytes, GcOvertaken, Deciding
  <2> QED
    BY <2>3, <2>5, <2>6, <2>7 DEF FileInv
\* The collector, the policy and the clock
<1>19. CASE GcBegin \/ GcObject
  <2>1. /\ UNCHANGED <<faFile, faRows, faRefs, faGrants, faTask, faNow, faRaced>>
        /\ faGc' \in {"idle", "count", "object", "remove"} /\ faBytes' \in {faBytes, FALSE}
        /\ faBytes' # faBytes => faGc = "object"
        /\ faGc' \in {"object", "remove"} => faGc = "object"
    BY <1>19 DEF GcBegin, GcObject
  <2>2. FileTypeOK'
    BY <1>1, <2>1 DEF FileTypeOK
  <2>3. AttachedHasBytes' /\ GcOvertaken'
    BY <1>1, <2>1 DEF FileInv, AttachedHasBytes, GcOvertaken
  <2> QED
    BY <1>1, <1>2, <2>1, <2>2, <2>3 DEF FileInv
<1>20. CASE GcCount
  <2>1. faGc' = "object" => faRows = {}
    BY <1>20, CountsRows DEF GcCount, GcExpires
  <2> QED
    BY <1>1, <1>2, <1>20, <2>1 DEF GcCount, FileInv, FileTypeOK, AttachedHasBytes, GcOvertaken
<1>21. CASE GcRow
  <2>1. CASE RemoveFile
    <3>1. \A u \in FileTask : Staged(faTask[u], FALSE)
      BY <1>1, <1>2, StagedWithout
    <3> QED
      BY <1>1, <1>16, <1>21, <2>1, <3>1 DEF GcRow
  <2>2. CASE UNCHANGED <<faFile, faRows, faRefs>>
    <3>1. /\ faTask' \in [FileTask -> FileRequest]
          /\ \A u \in FileTask : /\ Staged(faTask'[u], faFile')
                                 /\ Seen(faTask'[u], faFile', faRows', faGrants')
      BY <1>1, <1>2, <1>21, <2>2, WitnessedStep DEF GcRow
    <3> QED
      BY <1>1, <1>21, <2>2, <3>1 DEF GcRow, FileInv, FileTypeOK, AttachedHasBytes, GcOvertaken
  <2> QED
    BY <1>21, <2>1, <2>2 DEF GcRow
<1>22. ASSUME NEW g \in GrantChoice, PolicyChange(g) PROVE FileInv'
  <2>1. /\ faTask' \in [FileTask -> FileRequest]
        /\ \A u \in FileTask : /\ Staged(faTask'[u], faFile')
                               /\ Seen(faTask'[u], faFile', faRows', faGrants')
    BY <1>1, <1>2, <1>22, WitnessedStep DEF PolicyChange
  <2> QED
    BY <1>1, <1>22, <2>1 DEF PolicyChange, FileInv, FileTypeOK, AttachedHasBytes, GcOvertaken
<1>23. CASE FaTick
  BY <1>1, <1>2, <1>3, <1>23 DEF FaTick, FileInv, FileTypeOK, AttachedHasBytes, GcOvertaken
<1>24. CASE UNCHANGED faVars
  BY <1>1, <1>2, <1>24 DEF faVars, FileInv, FileTypeOK, AttachedHasBytes, GcOvertaken
<1> QED
  BY <1>4, <1>5, <1>7, <1>8, <1>9, <1>10, <1>11, <1>12, <1>13, <1>14, <1>15, <1>17, <1>18, <1>19,
     <1>20, <1>21, <1>22, <1>23, <1>24 DEF FileNext

\* The invariant of a file in use.
THEOREM FileInvariant == FileSpec => []FileInv
<1>1. FileInit => FileInv
  <2> SUFFICES ASSUME FileInit PROVE FileInv
    OBVIOUS
  <2>1. MaxFaClock \in Nat /\ Cardinality(FileRow) \in Nat
    BY FileAssumption, FS_CardinalityType
  <2>2. IdleTask \in FileRequest /\ Staged(IdleTask, TRUE) /\ Seen(IdleTask, TRUE, {}, {})
    BY FileAssumption DEF IdleTask, FileRequest, Staged, Seen, FileReads
  <2>3. [count |-> 0, orphan |-> -1] \in [count : 0..Cardinality(FileRow), orphan : -1..MaxFaClock]
    BY <2>1
  <2>4. FileTypeOK
    <3>1. faTask \in [FileTask -> FileRequest]
      BY <2>2 DEF FileInit
    <3>2. faRefs \in [count : 0..Cardinality(FileRow), orphan : -1..MaxFaClock] /\ faNow \in 0..MaxFaClock
      BY <2>1, <2>3 DEF FileInit
    <3> QED
      BY <3>1, <3>2 DEF FileInit, FileTypeOK
  <2>5. faRefs.count = Cardinality(faRows)
    BY FS_EmptySet DEF FileInit
  <2> QED
    BY <2>2, <2>4, <2>5 DEF FileInit, FileInv, AttachedHasBytes, GcOvertaken
<1> QED
  BY <1>1, FileStep, PTL DEF FileSpec

\* can_access, get_file and delete_file, for any number of requests, rows
\* and grants, whatever changes between their checks: who is served or
\* deletes was the owner of a file without rows, or was granted one of them.
THEOREM ServedAreGranted == FileSpec => []ServedWasGranted
<1>1. FileInv => ServedWasGranted
  BY DEF FileInv, ServedWasGranted, Staged, Entitled
<1> QED
  BY <1>1, FileInvariant, PTL

\* sweep_once and delete_file take the bytes of an attached file only when
\* it was attached after they had decided.
THEOREM AttachedKeepBytes == FileSpec => []AttachedHasBytes
<1>1. FileInv => AttachedHasBytes
  BY DEF FileInv
<1> QED
  BY <1>1, FileInvariant, PTL

-----------------------------------------------------------------------------
(* The range of a download *)

\* The headers that parse_range tells apart.
IsRange(spec) ==
    \/ spec.kind = "none"
    \/ spec.kind = "suffix" /\ spec.n \in Nat \cup {BadNumber}
    \/ /\ spec.kind = "first" /\ spec.first \in Nat \cup {BadNumber}
       /\ spec.last \in Nat \cup {BadNumber, Nil}

\* parse_range with get_object_range, for a header of any bounds, parsable or
\* not, and a file of any size: the answer to a well-formed range is that of
\* RFC 9110, and any other header gets the whole file, or 416 when the file is
\* empty or the start of the header is past its end.
THEOREM RangeReplyExact ==
  ASSUME NEW spec, IsRange(spec), NEW len \in Nat
  PROVE  ExactReply(spec, len)
<1> DEFINE reply == RangeReply(spec, len)
           want == Selected(spec, len)
<1>0. Nil \notin Nat /\ BadNumber \notin Nat /\ BadNumber # Nil
  BY FileAssumption
\* The whole file.
<1>1. ASSUME ParseRange(spec, len) = [kind |-> "full"],
             ~WellFormed(spec), ~RefusedEarly(spec, len)
      PROVE  ExactReply(spec, len)
  <2>1. reply = [status |-> 200, sent |-> 0..len - 1]
    BY <1>1 DEF RangeReply
  <2> QED
    BY <1>1, <2>1 DEF ExactReply
\* Nothing.
<1>2. ASSUME ParseRange(spec, len) = [kind |-> "unsatisfiable"],
             IF WellFormed(spec) THEN want = {} ELSE RefusedEarly(spec, len)
      PROVE  ExactReply(spec, len)
  <2>1. reply = [status |-> 416, sent |-> {}]
    BY <1>2 DEF RangeReply
  <2> QED
    BY <1>2, <2>1 DEF ExactReply
\* A range within the file.
<1>3. ASSUME NEW lo \in Nat, NEW hi \in Nat, lo <= hi, hi < len, WellFormed(spec), want = lo..hi,
             ParseRange(spec, len) = [kind |-> "ranged", first |-> lo, last |-> hi]
      PROVE  ExactReply(spec, len)
  <2>0. lo <= hi /\ hi < len
    BY <1>3
  <2>1. /\ Least(lo, len) = lo /\ Least(hi + 1, len) = hi + 1
        /\ Greatest(hi + 1, lo) = hi + 1 /\ Greatest(hi + 1 - lo - 1, 0) = hi - lo
    <3>0. lo <= len /\ hi + 1 <= len
      BY <2>0
    <3>1. Least(lo, len) = lo /\ Least(hi + 1, len) = hi + 1
      BY <3>0 DEF Least
    <3>2. Greatest(hi + 1, lo) = hi + 1
      BY <2>0 DEF Greatest
    <3>3. hi + 1 - lo - 1 = hi - lo /\ hi - lo >= 0
      BY <2>0
    <3> QED
      BY <3>1, <3>2, <3>3 DEF Greatest
  <2>2. reply = [status |-> 206, sent |-> lo..(hi + 1) - 1, header |-> <<lo, lo + (hi - lo)>>]
    <3> DEFINE range == ParseRange(spec, len)
    <3>1. range.kind = "ranged" /\ range.first = lo /\ range.last = hi
      BY <1>3
    <3> HIDE DEF range
    <3>2. reply = LET to == Greatest(Least(hi + 1, len), Least(lo, len))
                  IN  [status |-> 206, sent |-> Least(lo, len)..to - 1,
                       header |-> <<lo, lo + Greatest(to - Least(lo, len) - 1, 0)>>]
      BY <3>1 DEF RangeReply, range
    <3> QED
      BY <2>1, <3>2
  <2>3. (hi + 1) - 1 = hi /\ lo + (hi - lo) = hi /\ lo \in lo..hi
    BY <1>3
  <2>4. reply.status = 206 /\ reply.sent = lo..hi /\ reply.header = <<lo, hi>>
    BY <2>2, <2>3
  <2> QED
    BY <1>3, <2>3, <2>4 DEF ExactReply
<1>4. CASE spec.kind = "none"
  BY <1>1, <1>4 DEF ParseRange, WellFormed, RefusedEarly
<1>5. CASE spec.kind # "none" /\ len = 0
  <2>1. ParseRange(spec, len) = [kind |-> "unsatisfiable"] /\ RefusedEarly(spec, len)
    BY <1>5 DEF ParseRange, RefusedEarly
  <2>2. want = {}
    BY <1>5 DEF Selected
  <2> QED
    BY <1>2, <2>1, <2>2
<1>6. CASE spec.kind = "suffix" /\ len > 0 /\ spec.n \in {BadNumber, 0}
  BY <1>1, <1>6 DEF ParseRange, WellFormed, RefusedEarly
<1>7. CASE spec.kind = "suffix" /\ len > 0 /\ spec.n \notin {BadNumber, 0}
  <2>1. spec.n \in Nat /\ spec.n > 0 /\ WellFormed(spec)
    BY <1>7 DEF IsRange, WellFormed
  <2>2. PICK a \in Nat : a = len - Least(spec.n, len) /\ a <= len - 1
    BY <1>7, <2>1 DEF Least
  <2>3. ParseRange(spec, len) = [kind |-> "ranged", first |-> a, last |-> len - 1]
    BY <1>7, <2>2 DEF ParseRange
  <2>4. want = a..len - 1
    <3>1. \A i \in 0..len - 1 : i >= len - spec.n <=> i >= a
      BY <2>1, <2>2 DEF Least
    <3>2. want = {i \in 0..len - 1 : i >= len - spec.n}
      BY <1>7 DEF Selected
    <3> QED
      BY <2>2, <3>1, <3>2
  <2> QED
    BY <1>3, <1>7, <2>1, <2>2, <2>3, <2>4
\* The start of the header decides before its end is looked at.
<1>8. CASE spec.kind = "first" /\ len > 0 /\ spec.first = BadNumber
  BY <1>1, <1>8 DEF ParseRange, WellFormed, RefusedEarly
<1>9. CASE spec.kind = "first" /\ len > 0 /\ spec.first # BadNumber /\ spec.first >= len
  <2>1. spec.first \in Nat
    BY <1>9 DEF IsRange
  <2>2. ParseRange(spec, len) = [kind |-> "unsatisfiable"] /\ RefusedEarly(spec, len)
    BY <1>9 DEF ParseRange, RefusedEarly
  <2>3. want = {}
    BY <1>9, <2>1 DEF Selected
  <2> QED
    BY <1>2, <2>2, <2>3
<1>10. CASE spec.kind = "first" /\ len > 0 /\ spec.first # BadNumber /\ spec.first < len
  <2>1. spec.first \in Nat /\ spec.last \in Nat \cup {BadNumber, Nil} /\ ~RefusedEarly(spec, len)
    BY <1>10 DEF IsRange, RefusedEarly
  <2>2. CASE spec.last = BadNumber
    BY <1>0, <1>1, <1>10, <2>1, <2>2 DEF ParseRange, WellFormed
  <2>3. CASE spec.last # BadNumber
    <3>1. PICK b \in Int : b = IF spec.last = Nil THEN len - 1 ELSE Least(spec.last, len - 1)
      BY <1>0, <2>1, <2>3 DEF Least
    <3>2. b \in Nat /\ b < len
      BY <1>0, <1>10, <2>1, <2>3, <3>1 DEF Least
    <3>3. ParseRange(spec, len) = IF b < spec.first THEN [kind |-> "full"]
                                  ELSE [kind |-> "ranged", first |-> spec.first, last |-> b]
      BY <1>10, <2>1, <2>3, <3>1 DEF ParseRange
    <3>4. want = spec.first..b
      <4>1. want = {i \in 0..len - 1 : i >= spec.first /\ (spec.last = Nil \/ i <= spec.last)}
        BY <1>10 DEF Selected
      <4>2. \A i \in 0..len - 1 : (spec.last = Nil \/ i <= spec.last) <=> i <= b
        BY <1>0, <2>1, <2>3, <3>1 DEF Least
      <4>3. want = {i \in 0..len - 1 : i >= spec.first /\ i <= b}
        BY <4>1, <4>2
      <4> QED
        BY <2>1, <3>2, <4>3
    <3>5. WellFormed(spec) <=> spec.first <= b
      BY <1>0, <1>10, <2>1, <2>3, <3>1 DEF WellFormed, Least
    <3>6. CASE b < spec.first
      BY <1>1, <2>1, <3>2, <3>3, <3>5, <3>6
    <3>7. CASE spec.first <= b
      <4>1. ParseRange(spec, len) = [kind |-> "ranged", first |-> spec.first, last |-> b]
        BY <2>1, <3>2, <3>3, <3>7
      <4> QED
        BY <1>3, <2>1, <3>2, <3>4, <3>5, <3>7, <4>1
    <3> QED
      BY <2>1, <3>2, <3>6, <3>7
  <2> QED
    BY <2>2, <2>3
<1>11. spec.kind = "first" /\ spec.first # BadNumber => spec.first \in Nat
  BY DEF IsRange
<1> QED
  BY <1>4, <1>5, <1>6, <1>7, <1>8, <1>9, <1>10, <1>11 DEF IsRange

\* Every download is answered with the bytes that its Range header selects,
\* or as RangeReplyExact says when it selects none.
THEOREM DownloadsExact == FileSpec => []RangeExact
<1>1. RangeExact
  <2> SUFFICES ASSUME NEW spec \in RangeSpec, NEW len \in 0..Size PROVE ExactReply(spec, len)
    BY DEF RangeExact
  <2>1. IsRange(spec) /\ len \in Nat
    BY FileAssumption DEF IsRange
  <2> QED
    BY <2>1, RangeReplyExact
<1> QED
  BY <1>1, PTL

-----------------------------------------------------------------------------
(* The file plane *)

\* A behaviour of the composition is one of each of its components.
THEOREM PlaneComposes == FilePlaneSpec => Spec /\ IntakeSpec /\ FileSpec
<1>1. FilePlaneInit => Init /\ IntakeInit /\ FileInit
  BY DEF FilePlaneInit
<1>2. [FilePlaneNext]_<<component, vars, intakeVars, faVars>> =>
        [Next]_vars /\ [IntakeNext]_intakeVars /\ [FileNext]_faVars
  BY DEF FilePlaneNext
<1> QED
  BY <1>1, <1>2, PTL DEF FilePlaneSpec, Spec, IntakeSpec, FileSpec

\* The upload, its parts and the file in use keep their types in every
\* behaviour of the file plane.
THEOREM PlaneTypeCorrect == FilePlaneSpec => []FilePlaneTypesOK
<1>1. IntakeInv /\ FileInv /\ TypeOK => FilePlaneTypesOK
  BY DEF IntakeInv, FileInv, FilePlaneTypesOK
<1> QED
  BY <1>1, PlaneComposes, UploadTypeCorrect, IntakeInvariant, FileInvariant, PTL
==============================================================================
