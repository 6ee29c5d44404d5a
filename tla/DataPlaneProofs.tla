--------------------------- MODULE DataPlaneProofs ---------------------------
(***************************************************************************)
(* Proofs about the parts of the data plane that MCDataPlane checks side   *)
(* by side: the caches of the sync routes (SyncServe), the policy engine   *)
(* (PolicyStore), the rate limit (RateLimits) and the capability tokens    *)
(* (CapabilityTokens), each for every value of its constants.              *)
(***************************************************************************)
EXTENDS MCDataPlane, ReplicaSyncProofs

-----------------------------------------------------------------------------
(* The sync routes *)

Bytes == 0..MaxWalHead
Coverage == Bytes \cup {NotBuilt}

\* The copies that a client can hold of each resource: the validator of a copy
\* names everything that its body says.
StatusCopyOf(a, h) == [tag |-> StatusEtag(a, h), body |-> StatusBody(a, h), fresh |-> FALSE]
SyncCopyOf(a, p) == [tag |-> AdvanceEtag(a, p), body |-> SyncBody(a, p), fresh |-> FALSE]
StatusCopy == UNION {{StatusCopyOf(a, h) : a \in Coverage} : h \in Bytes}
SyncCopy == UNION {{SyncCopyOf(a, p) : a \in Coverage} : p \in BOOLEAN}
ObjectCopy == [tag : {<<"bytes", b>> : b \in Bytes}, body : Bytes, fresh : BOOLEAN]
AnyCopy == StatusCopy \cup SyncCopy \cup ObjectCopy \cup {NoCopy}
CallRecord == [pc : {"idle", "marker", "fetch", "stream"}, res : Object \cup {NoCopy},
               head : Bytes, bytes : Bytes \cup {Dropped}]

ServeTypes ==
    /\ walHead \in Bytes /\ coverage \in Coverage /\ rebuild \in BOOLEAN
    /\ objects \in [Object -> Bytes \cup {NotBuilt, Dropped}]
    /\ held \in [Client -> [RouteResource -> AnyCopy]]
    /\ call \in [Client -> CallRecord]

PointersTagged ==
    \A c \in Client :
        /\ held[c]["status"] \in StatusCopy \cup {NoCopy}
        /\ held[c]["sync"] \in SyncCopy \cup {NoCopy}

\* A copy kept for good is of a segment, and has the bytes of the segment for
\* as long as there is one.
SegmentsKept ==
    \A c \in Client, k \in Object :
        /\ held[c][k] \in ObjectCopy \cup {NoCopy}
        /\ held[c][k] # NoCopy /\ held[c][k].fresh =>
            k # Manifest /\ objects[k] \in {held[c][k].body, Dropped}

\* A stream under way sends bytes of the object it was opened on.
StreamsTrue ==
    \A c \in Client :
        /\ call[c].pc \in {"fetch", "stream"} => call[c].res \in Object
        /\ call[c].pc = "stream" =>
            /\ call[c].bytes \in Bytes
            /\ call[c].res # Manifest => objects[call[c].res] \in {call[c].bytes, Dropped}

ServeInv == ServeTypes /\ PointersTagged /\ SegmentsKept /\ StreamsTrue

\* An answer changes one copy of one client, or none.
LEMMA CopyReplaced ==
    ASSUME held \in [Client -> [RouteResource -> AnyCopy]],
           NEW c \in Client, NEW r \in RouteResource, NEW new \in AnyCopy,
           held' = held \/ held' = [held EXCEPT ![c][r] = new]
    PROVE  /\ held' \in [Client -> [RouteResource -> AnyCopy]]
           /\ \A d \in Client, q \in RouteResource :
                held'[d][q] = held[d][q] \/ (d = c /\ q = r /\ held'[d][q] = new)
<1>1. CASE held' = held  BY <1>1
<1>2. CASE held' = [held EXCEPT ![c][r] = new]
  <2>1. held' = [held EXCEPT ![c] = [held[c] EXCEPT ![r] = new]]  BY <1>2
  <2>2. [held[c] EXCEPT ![r] = new] \in [RouteResource -> AnyCopy]  OBVIOUS
  <2> QED  BY <2>1, <2>2
<1> QED  BY <1>1, <1>2

LEMMA ServeStarts == ServeInit => ServeInv
<1> SUFFICES ASSUME ServeInit PROVE ServeInv  OBVIOUS
<1>1. NoCall \in CallRecord
  BY ServeAssumption DEF NoCall, CallRecord, Bytes
<1>2. ServeTypes
  <2>1. held \in [Client -> [RouteResource -> AnyCopy]]  BY DEF ServeInit, AnyCopy
  <2>2. walHead \in Bytes  BY ServeAssumption DEF ServeInit, Bytes
  <2>3. objects \in [Object -> Bytes \cup {NotBuilt, Dropped}] /\ call \in [Client -> CallRecord]
    BY <1>1 DEF ServeInit
  <2> QED  BY <2>1, <2>2, <2>3 DEF ServeTypes, ServeInit, Coverage
<1>3. PointersTagged  BY DEF PointersTagged, ServeInit, RouteResource
<1>4. SegmentsKept  BY DEF SegmentsKept, ServeInit, RouteResource
<1>5. StreamsTrue  BY DEF StreamsTrue, ServeInit, NoCall
<1> QED  BY <1>2, <1>3, <1>4, <1>5 DEF ServeInv

\* The feed, the replica and the compaction: only objects change, and a
\* segment is written once and dropped once.
LEMMA ServeReplicaSteps ==
    ASSUME ServeInv, FeedGrows \/ ReplicaCommits \/ Compaction
    PROVE  ServeInv'
<1>1. held' = held /\ call' = call
  BY DEF FeedGrows, ReplicaCommits, Compaction
<1>2. /\ objects' \in [Object -> Bytes \cup {NotBuilt, Dropped}]
      /\ walHead' \in Bytes /\ coverage' \in Coverage /\ rebuild' \in BOOLEAN
  <2>1. CASE FeedGrows
    <3>1. walHead' \in Bytes
      BY <2>1, ServeAssumption DEF FeedGrows, ServeInv, ServeTypes, Bytes
    <3>2. rebuild' \in BOOLEAN  BY <2>1 DEF FeedGrows, ServeInv, ServeTypes
    <3> QED  BY <2>1, <3>1, <3>2 DEF FeedGrows, ServeInv, ServeTypes
  <2>2. CASE ReplicaCommits
    BY <2>2, ServeAssumption, ZenonT(60) DEF ReplicaCommits, ServeInv, ServeTypes, Coverage, Object
  <2>3. CASE Compaction
    BY <2>3, ServeAssumption DEF Compaction, ServeInv, ServeTypes, Object
  <2> QED  BY <2>1, <2>2, <2>3
<1>3. \A k \in Object : k # Manifest =>
        objects'[k] = objects[k] \/ objects[k] = NotBuilt \/ objects'[k] = Dropped
  BY DEF FeedGrows, ReplicaCommits, Compaction, Exists, ServeInv, ServeTypes, Object
<1>8. \A k \in Object : k # Manifest /\ objects[k] = Dropped => objects'[k] = Dropped
  BY ServeAssumption DEF FeedGrows, ReplicaCommits, Compaction, ServeInv, ServeTypes, Object
<1>4. ServeTypes'  BY <1>1, <1>2 DEF ServeInv, ServeTypes
<1>5. PointersTagged'  BY <1>1 DEF ServeInv, PointersTagged
<1>6. SegmentsKept'
  <2> SUFFICES ASSUME NEW c \in Client, NEW k \in Object
               PROVE  /\ held[c][k] \in ObjectCopy \cup {NoCopy}
                      /\ held[c][k] # NoCopy /\ held[c][k].fresh =>
                            k # Manifest /\ objects'[k] \in {held[c][k].body, Dropped}
    BY <1>1 DEF SegmentsKept
  <2>1. held[c][k] \in ObjectCopy \cup {NoCopy}  BY DEF ServeInv, SegmentsKept
  <2>2. held[c][k] # NoCopy => held[c][k].body # NotBuilt
    BY <2>1, ServeAssumption DEF ObjectCopy, Bytes
  <2>3. held[c][k] # NoCopy /\ held[c][k].fresh =>
            k # Manifest /\ objects[k] \in {held[c][k].body, Dropped}
    BY DEF ServeInv, SegmentsKept
  <2>4. k # Manifest =>
            objects'[k] = objects[k] \/ objects[k] = NotBuilt \/ objects'[k] = Dropped
    BY <1>3
  <2>5. objects[k] = Dropped => objects'[k] = Dropped \/ k = Manifest
    BY <1>8
  <2> QED  BY <2>1, <2>2, <2>3, <2>4, <2>5, ServeAssumption
<1>7. StreamsTrue'
  <2> SUFFICES ASSUME NEW c \in Client
               PROVE  /\ call[c].pc \in {"fetch", "stream"} => call[c].res \in Object
                      /\ call[c].pc = "stream" =>
                            /\ call[c].bytes \in Bytes
                            /\ call[c].res # Manifest =>
                                objects'[call[c].res] \in {call[c].bytes, Dropped}
    BY <1>1 DEF StreamsTrue
  <2>1. call[c].bytes \in Bytes => call[c].bytes # NotBuilt
    BY ServeAssumption DEF Bytes
  <2> QED  BY <2>1, <1>3, <1>8 DEF ServeInv, StreamsTrue
<1> QED  BY <1>4, <1>5, <1>6, <1>7 DEF ServeInv

\* A request that moves without an answer that the client keeps.
LEMMA ServeCallSteps ==
    ASSUME ServeInv, NEW c \in Client,
           StatusHead(c) \/ (\E k \in Object : ObjectStart(c, k)) \/ ObjectGet(c)
    PROVE  ServeInv'
<1>1. /\ held' = held /\ objects' = objects
      /\ walHead' = walHead /\ coverage' = coverage /\ rebuild' = rebuild
  BY DEF StatusHead, ObjectStart, ObjectGet
<1>2. PICK q \in CallRecord :
        /\ call' = [call EXCEPT ![c] = q]
        /\ q.pc \in {"fetch", "stream"} => q.res \in Object
        /\ q.pc = "stream" => q.bytes \in Bytes /\
                (q.res # Manifest => objects[q.res] \in {q.bytes, Dropped})
  <2>0. NoCall \in CallRecord /\ NoCall.pc = "idle"
    BY ServeAssumption DEF NoCall, CallRecord, Bytes
  <2>1. CASE StatusHead(c)
    <3> DEFINE q == [NoCall EXCEPT !.pc = "marker", !.head = walHead]
    <3>1. q \in CallRecord /\ q.pc = "marker"
      BY <2>0 DEF CallRecord, NoCall, ServeInv, ServeTypes
    <3> QED  BY <2>1, <3>1 DEF StatusHead
  <2>2. CASE \E k \in Object : ObjectStart(c, k)
    <3>0. PICK k \in Object : ObjectStart(c, k)  BY <2>2
    <3> DEFINE q == [NoCall EXCEPT !.pc = "fetch", !.res = k]
    <3>1. q \in CallRecord /\ q.pc = "fetch" /\ q.res = k
      BY <2>0 DEF CallRecord, NoCall
    <3>2. call' = [call EXCEPT ![c] = q]  BY <3>0 DEF ObjectStart
    <3> QED  BY <3>1, <3>2
  <2>3. CASE ObjectGet(c)
    <3>0. call[c] \in CallRecord /\ call[c].pc = "fetch" /\ call[c].res \in Object
      BY <2>3 DEF ObjectGet, ServeInv, ServeTypes, StreamsTrue
    <3>1. CASE call' = [call EXCEPT ![c] = NoCall]  BY <3>1, <2>0
    <3>2. CASE /\ Exists(call[c].res)
               /\ call' = [call EXCEPT ![c].pc = "stream", ![c].bytes = objects[call[c].res]]
      <4> DEFINE q == [call[c] EXCEPT !.pc = "stream", !.bytes = objects[call[c].res]]
      <4>1. objects[call[c].res] \in Bytes
        BY <3>0, <3>2 DEF Exists, ServeInv, ServeTypes
      <4>2. q \in CallRecord /\ q.pc = "stream" /\ q.res = call[c].res
            /\ q.bytes = objects[call[c].res]
        BY <3>0, <4>1 DEF CallRecord
      <4>3. call' = [call EXCEPT ![c] = q]
        BY <3>2 DEF ServeInv, ServeTypes
      <4> QED  BY <3>0, <4>1, <4>2, <4>3
    <3> QED  BY <2>3, <3>1, <3>2 DEF ObjectGet
  <2> QED  BY <2>1, <2>2, <2>3
<1>3. ServeTypes'  BY <1>1, <1>2 DEF ServeInv, ServeTypes
<1>4. PointersTagged' /\ SegmentsKept'
  BY <1>1 DEF ServeInv, PointersTagged, SegmentsKept
<1>5. StreamsTrue'  BY <1>1, <1>2 DEF ServeInv, ServeTypes, StreamsTrue
<1> QED  BY <1>3, <1>4, <1>5 DEF ServeInv

\* An answer of a pointer: its copy is made from what its tag names.
LEMMA ServePointerSteps ==
    ASSUME ServeInv, NEW c \in Client, StatusReply(c) \/ SyncReply(c)
    PROVE  ServeInv'
<1>0. /\ objects' = objects /\ walHead' = walHead /\ coverage' = coverage
      /\ rebuild' \in BOOLEAN
  BY Zenon DEF StatusReply, SyncReply, PendingBuild, ServeInv, ServeTypes
<1>1. call' \in [Client -> CallRecord] /\ StreamsTrue'
  <2>1. NoCall \in CallRecord /\ NoCall.pc = "idle"
    BY ServeAssumption DEF NoCall, CallRecord, Bytes
  <2>2. call' = call \/ call' = [call EXCEPT ![c] = NoCall]
    BY DEF StatusReply, SyncReply
  <2> QED  BY <1>0, <2>1, <2>2 DEF ServeInv, ServeTypes, StreamsTrue
<1>2. "status" \in RouteResource /\ "sync" \in RouteResource
      /\ "status" \notin Object /\ "sync" \notin Object /\ Object \subseteq RouteResource
  BY ServeAssumption DEF RouteResource, Object
<1>3. /\ held' \in [Client -> [RouteResource -> AnyCopy]]
      /\ \A d \in Client, q \in RouteResource :
            \/ held'[d][q] = held[d][q]
            \/ q = "status" /\ held'[d][q] \in StatusCopy
            \/ q = "sync" /\ held'[d][q] \in SyncCopy
  <2>1. CASE StatusReply(c)
    <3> DEFINE h == call[c].head
               new == [tag |-> StatusEtag(coverage, h), body |-> StatusBody(coverage, h),
                       fresh |-> FALSE]
    <3>1. h \in Bytes  BY DEF ServeInv, ServeTypes, CallRecord
    <3>a. coverage \in Coverage  BY DEF ServeInv, ServeTypes
    <3>2. new \in StatusCopy  
      <4>1. \A a \in Coverage, n \in Bytes : StatusCopyOf(a, n) \in StatusCopy
        <5> SUFFICES ASSUME NEW a \in Coverage, NEW n \in Bytes
                     PROVE  StatusCopyOf(a, n) \in StatusCopy
          OBVIOUS
        <5>1. StatusCopyOf(a, n) \in {StatusCopyOf(x, n) : x \in Coverage}  OBVIOUS
        <5>2. {StatusCopyOf(x, n) : x \in Coverage} \in
                {{StatusCopyOf(x, y) : x \in Coverage} : y \in Bytes}
          OBVIOUS
        <5> QED  BY <5>1, <5>2 DEF StatusCopy
      <4> QED  BY <3>1, <3>a, <4>1 DEF StatusCopyOf
    <3>3. new \in AnyCopy  BY <3>2 DEF AnyCopy
    <3>4. held' = held \/ held' = [held EXCEPT ![c]["status"] = new]
      BY <2>1 DEF StatusReply, Respond
    <3> HIDE DEF new
    <3>5. "status" \in RouteResource  BY <1>2
    <3> QED  BY <3>2, <3>3, <3>4, <3>5, CopyReplaced DEF ServeInv, ServeTypes
  <2>2. CASE SyncReply(c)
    <3> DEFINE new == [tag |-> AdvanceEtag(AppliedSeq, PendingBuild),
                       body |-> SyncBody(AppliedSeq, PendingBuild), fresh |-> FALSE]
    <3>0. PendingBuild \in BOOLEAN  BY Zenon DEF PendingBuild
    <3>a. AppliedSeq \in Coverage /\ PendingBuild \in BOOLEAN
      <4>1. 0 \in Bytes /\ coverage \in Bytes \cup {NotBuilt}
        BY ServeAssumption DEF ServeInv, ServeTypes, Bytes, Coverage
      <4> QED  BY <3>0, <4>1 DEF AppliedSeq, Coverage
    <3>2. new \in SyncCopy  BY <3>a, ZenonT(60) DEF SyncCopy, SyncCopyOf
    <3>3. new \in AnyCopy  BY <3>2 DEF AnyCopy
    <3>4. held' = held \/ held' = [held EXCEPT ![c]["sync"] = new]
      BY <2>2 DEF SyncReply, Respond
    <3> HIDE DEF new
    <3>5. "sync" \in RouteResource  BY <1>2
    <3> QED  BY <3>2, <3>3, <3>4, <3>5, CopyReplaced DEF ServeInv, ServeTypes
  <2> QED  BY <2>1, <2>2
<1>4. ServeTypes'  BY <1>0, <1>1, <1>3 DEF ServeInv, ServeTypes
<1>5. PointersTagged'  BY <1>2, <1>3 DEF ServeInv, PointersTagged
<1>6. SegmentsKept'
  <2>1. \A d \in Client, k \in Object : held'[d][k] = held[d][k]
    BY <1>2, <1>3
  <2> QED  BY <2>1, <1>0 DEF ServeInv, SegmentsKept
<1> QED  BY <1>1, <1>4, <1>5, <1>6 DEF ServeInv

\* The end of a stream: a complete body of a segment is kept for good.
LEMMA ServeStreamEnd ==
    ASSUME ServeInv, NEW c \in Client, StreamEnd(c)
    PROVE  ServeInv'
<1> DEFINE k == call[c].res
           b == call[c].bytes
           new == [tag |-> <<"bytes", b>>, body |-> b, fresh |-> ~IsMutable(k)]
<1>0. /\ objects' = objects /\ walHead' = walHead /\ coverage' = coverage
      /\ rebuild' = rebuild /\ call' = [call EXCEPT ![c] = NoCall]
  BY DEF StreamEnd
<1>1. call' \in [Client -> CallRecord] /\ StreamsTrue'
  <2>1. NoCall \in CallRecord /\ NoCall.pc = "idle"
    BY ServeAssumption DEF NoCall, CallRecord, Bytes
  <2> QED  BY <1>0, <2>1 DEF ServeInv, ServeTypes, StreamsTrue
<1>2. k \in Object /\ b \in Bytes /\ (k # Manifest => objects[k] \in {b, Dropped})
  BY DEF StreamEnd, ServeInv, StreamsTrue
<1>3. "status" \notin Object /\ "sync" \notin Object /\ Object \subseteq RouteResource
  BY ServeAssumption DEF RouteResource, Object
<1>4. new \in ObjectCopy /\ new.body = b /\ (new.fresh <=> k # Manifest)
  BY <1>2 DEF ObjectCopy, IsMutable
<1>5. /\ held' \in [Client -> [RouteResource -> AnyCopy]]
      /\ \A d \in Client, q \in RouteResource :
            held'[d][q] = held[d][q] \/ (q = k /\ held'[d][q] = new)
  <2>1. CASE Respond(c, k, <<"bytes", b>>, b, ~IsMutable(k))
    <3>1. new \in AnyCopy  BY <1>4 DEF AnyCopy
    <3>2. k \in RouteResource  BY <1>2, <1>3
    <3>3. held' = held \/ held' = [held EXCEPT ![c][k] = new]  BY <2>1 DEF Respond
    <3> HIDE DEF k, b, new
    <3> QED  BY <3>1, <3>2, <3>3, CopyReplaced DEF ServeInv, ServeTypes
  <2>2. CASE held' = held  BY <2>2 DEF ServeInv, ServeTypes
  <2> QED  BY <2>1, <2>2 DEF StreamEnd
<1> HIDE DEF k, b, new
<1>6. ServeTypes'  BY <1>0, <1>1, <1>5 DEF ServeInv, ServeTypes
<1>7. PointersTagged'
  <2>1. \A d \in Client : held'[d]["status"] = held[d]["status"]
                          /\ held'[d]["sync"] = held[d]["sync"]
    BY <1>2, <1>3, <1>5 DEF RouteResource
  <2> QED  BY <2>1 DEF ServeInv, PointersTagged
<1>8. SegmentsKept'
  <2> SUFFICES ASSUME NEW d \in Client, NEW o \in Object
               PROVE  /\ held'[d][o] \in ObjectCopy \cup {NoCopy}
                      /\ held'[d][o] # NoCopy /\ held'[d][o].fresh =>
                            o # Manifest /\ objects[o] \in {held'[d][o].body, Dropped}
    BY <1>0 DEF SegmentsKept
  <2>1. CASE held'[d][o] = held[d][o]  BY <2>1 DEF ServeInv, SegmentsKept
  <2>2. CASE o = k /\ held'[d][o] = new  BY <2>2, <1>2, <1>4
  <2> QED  BY <2>1, <2>2, <1>3, <1>5
<1> QED  BY <1>1, <1>6, <1>7, <1>8 DEF ServeInv

LEMMA ServeStep ==
    ASSUME ServeInv, [ServeNext]_serveVars
    PROVE  ServeInv'
<1>1. CASE UNCHANGED serveVars
  BY <1>1 DEF serveVars, ServeInv, ServeTypes, PointersTagged, SegmentsKept, StreamsTrue
<1>2. CASE ServeNext
  BY <1>2, ServeReplicaSteps, ServeCallSteps, ServePointerSteps, ServeStreamEnd DEF ServeNext
<1> QED  BY <1>1, <1>2

\* The routes keep the invariant, whatever the clients cache and however the
\* feed and the replica move between their reads.
THEOREM ServeInvariant == ServeSpec => []ServeInv
BY ServeStarts, ServeStep, PTL DEF ServeSpec

\* A 304 of /sync/status or /sync/sync stands for the body the client holds,
\* and an object cached under the immutable policy has the bytes of its key
\* for as long as the key exists (sync/route.rs).
THEOREM CachesStayHonest == ServeSpec => []CachesHonest
<1>1. ServeInv => CachesHonest
  <2> SUFFICES ASSUME ServeInv PROVE CachesHonest  OBVIOUS
  <2>1. ASSUME NEW c \in Client, EtagMatches(c, "status", StatusEtag(coverage, walHead))
        PROVE  held[c]["status"].body = StatusBody(coverage, walHead)
    <3>1. PICK a \in Coverage, h \in Bytes : held[c]["status"] =
            [tag |-> StatusEtag(a, h), body |-> StatusBody(a, h), fresh |-> FALSE]
      <4>1. held[c]["status"] \in StatusCopy
        BY <2>1 DEF EtagMatches, ServeInv, PointersTagged
      <4> QED  BY <4>1 DEF StatusCopy, StatusCopyOf
    <3>2. a = coverage /\ h = walHead
      BY <2>1, <3>1 DEF EtagMatches, StatusEtag
    <3> QED  BY <3>1, <3>2
  <2>2. ASSUME NEW c \in Client, EtagMatches(c, "sync", AdvanceEtag(AppliedSeq, PendingBuild))
        PROVE  held[c]["sync"].body = SyncBody(AppliedSeq, PendingBuild)
    <3>1. PICK a \in Coverage, p \in BOOLEAN : held[c]["sync"] =
            [tag |-> AdvanceEtag(a, p), body |-> SyncBody(a, p), fresh |-> FALSE]
      <4>1. held[c]["sync"] \in SyncCopy
        BY <2>2 DEF EtagMatches, ServeInv, PointersTagged
      <4> QED  BY <4>1, Zenon DEF SyncCopy, SyncCopyOf
    <3>2. a = AppliedSeq /\ p = PendingBuild
      BY <2>2, <3>1 DEF EtagMatches, AdvanceEtag
    <3> QED  BY <3>1, <3>2
  <2>3. CachedForGood
    BY DEF ServeInv, SegmentsKept, CachedForGood, MayReuse, Exists
  <2> QED  BY <2>1, <2>2, <2>3 DEF CachesHonest, NotModifiedHonest
<1> QED  BY <1>1, ServeInvariant, PTL

-----------------------------------------------------------------------------
(* The rate limit *)

BucketState == [tokens : 0..Capacity, age : 0..MaxAge]
LimitCall == [pc : {"idle", "count", "claim", "sweep", "clock", "take"},
              peer : Peer \cup {NoPeer}, seen : 0..(CounterMod - 1), lag : 0..MaxLag]

\* Every call that has arrived has a peer, and the map is finite although the
\* set of addresses need not be.
LimitsInv ==
    /\ LimitsTypeOK
    /\ \A w \in Worker : limitJob[w].pc # "idle" => limitJob[w].peer \in Peer
    /\ IsFiniteSet(Tracked) /\ TrackedBounded
    /\ FillsInTime => SweepGivesNothing

\* A counter taken modulo stays in its range.
LEMMA Wraps ==
    ASSUME NEW x \in Nat, NEW m \in Nat, m > 0
    PROVE  x % m \in 0..(m - 1)
OBVIOUS

LEMMA LimitsConstants ==
    /\ Capacity \in Nat /\ Refill \in Nat /\ IdleEvict \in Nat /\ MaxTracked \in Nat
    /\ SweepEvery \in Nat /\ CounterMod \in Nat /\ CounterMod > SweepEvery
    /\ Capacity > 0 /\ Refill > 0 /\ IdleEvict > 0 /\ MaxTracked > 0 /\ SweepEvery > 0
    /\ MaxLag \in Nat /\ MaxAge \in Nat /\ MaxAge = IdleEvict + MaxLag
<1>1. Cardinality(Worker) \in Nat  BY LimitsAssumption, FS_CardinalityType
<1> QED  BY <1>1, LimitsAssumption DEF MaxAge

\* SweepGivesNothing for one peer, in terms of its bucket.
GivenNothing(p) ==
    /\ buckets[p] = Untracked => Capacity <= budget[p]
    /\ buckets[p] # Untracked =>
        Smaller(buckets[p].tokens + buckets[p].age * Refill, Capacity) <= budget[p]

\* A time of no lag is the whole age, also of the bucket after a step.
LEMMA NoLag ==
    ASSUME NEW a \in Nat PROVE (IF a > 0 THEN a - 0 ELSE 0) = a
OBVIOUS

LEMMA GivenPerPeer ==
    ASSUME buckets \in [Peer -> BucketState \cup {Untracked}]
    PROVE  SweepGivesNothing <=> \A p \in Peer \ displaced : GivenNothing(p)
<1> SUFFICES ASSUME NEW p \in Peer PROVE Refilled(p, 0) <= budget[p] <=> GivenNothing(p)
  BY DEF SweepGivesNothing
<1>1. CASE buckets[p] = Untracked  BY <1>1 DEF Refilled, GivenNothing
<1>2. CASE buckets[p] # Untracked
  <2>1. buckets[p].age \in Nat  BY <1>2, LimitsConstants DEF BucketState
  <2>2. Elapsed(p, 0) = buckets[p].age  BY <2>1, NoLag DEF Elapsed
  <2> QED  BY <1>2, <2>2 DEF Refilled, GivenNothing
<1> QED  BY <1>1, <1>2

LEMMA GivenPerPeerNext ==
    ASSUME buckets' \in [Peer -> BucketState \cup {Untracked}],
           \A p \in Peer \ displaced' : GivenNothing(p)'
    PROVE  SweepGivesNothing'
<1> SUFFICES ASSUME NEW p \in Peer \ displaced' PROVE Refilled(p, 0)' <= budget'[p]
  BY DEF SweepGivesNothing
<1>0. GivenNothing(p)'  OBVIOUS
<1>1. CASE buckets'[p] = Untracked  BY <1>0, <1>1 DEF Refilled, GivenNothing
<1>2. CASE buckets'[p] # Untracked
  <2>1. buckets'[p].age \in Nat  BY <1>2, LimitsConstants DEF BucketState
  <2>2. Elapsed(p, 0)' = buckets'[p].age  BY <2>1, NoLag DEF Elapsed
  <2> QED  BY <1>0, <1>2, <2>2 DEF Refilled, GivenNothing
<1> QED  BY <1>1, <1>2

LEMMA LimitsStarts == LimitsInit => LimitsInv
<1> SUFFICES ASSUME LimitsInit PROVE LimitsInv  OBVIOUS
<1>0. Tracked = {}  BY DEF LimitsInit, Tracked
<1>1. IsFiniteSet(Tracked) /\ Cardinality(Tracked) = 0  BY <1>0, FS_EmptySet
<1>2. NoJob \in LimitCall /\ NoJob.pc = "idle"
  BY LimitsConstants DEF NoJob, LimitCall
<1>3. sinceSweep \in 0..(CounterMod - 1)
  BY LimitsConstants DEF LimitsInit
<1>4. LimitsTypeOK
  BY <1>2, <1>3, LimitsConstants DEF LimitsInit, LimitsTypeOK, LimitCall
<1>5. SweepGivesNothing
  BY LimitsConstants DEF LimitsInit, SweepGivesNothing, Refilled
<1> QED  BY <1>1, <1>2, <1>4, <1>5, LimitsConstants DEF LimitsInv, LimitsInit, TrackedBounded

\* The steps before the mutex: a worker moves on, no bucket changes.
LEMMA CounterSteps ==
    ASSUME LimitsInv, NEW w \in Worker,
           (\E p \in Peer : Arrive(w, p)) \/ SweepDue(w) \/ ClaimSweep(w) \/ ReadClock(w)
    PROVE  LimitsInv'
<1>0. limitJob \in [Worker -> LimitCall] /\ sinceSweep \in 0..(CounterMod - 1)
  BY DEF LimitsInv, LimitsTypeOK, LimitCall
<1>1. buckets' = buckets /\ budget' = budget /\ displaced' = displaced
  BY DEF Arrive, SweepDue, ClaimSweep, ReadClock
<1>z. 0 \in 0..(CounterMod - 1)  BY LimitsConstants
<1>2. sinceSweep' \in 0..(CounterMod - 1)
  <2>1. CASE \E p \in Peer : Arrive(w, p)  BY <2>1, <1>0 DEF Arrive
  <2>2. CASE SweepDue(w)
    <3>1. sinceSweep + 1 \in Nat  BY <1>0, LimitsConstants
    <3>2. (sinceSweep + 1) % CounterMod \in 0..(CounterMod - 1)
      BY <3>1, Wraps, LimitsConstants
    <3> QED  BY <2>2, <3>2 DEF SweepDue
  <2>3. CASE ClaimSweep(w)
    <3>1. limitJob[w].seen + 1 \in Nat  BY <1>0 DEF LimitCall
    <3>2. (limitJob[w].seen + 1) % CounterMod \in 0..(CounterMod - 1)
      BY <3>1, Wraps, LimitsConstants
    <3>3. sinceSweep + CounterMod - ((limitJob[w].seen + 1) % CounterMod) \in Nat
      BY <3>2, <1>0, LimitsConstants
    <3> DEFINE x == sinceSweep + CounterMod - ((limitJob[w].seen + 1) % CounterMod)
    <3>4. sinceSweep' = x % CounterMod  BY <2>3 DEF ClaimSweep
    <3>5. x \in Nat  BY <3>3
    <3> HIDE DEF x
    <3>6. x % CounterMod \in 0..(CounterMod - 1)  BY <3>5, Wraps, LimitsConstants
    <3> QED  BY <3>4, <3>6
  <2>4. CASE ReadClock(w)  BY <2>4, <1>0 DEF ReadClock
  <2> QED  BY <2>1, <2>2, <2>3, <2>4
<1>3. PICK q \in LimitCall : limitJob' = [limitJob EXCEPT ![w] = q] /\ q.peer \in Peer
  <2>1. CASE \E p \in Peer : Arrive(w, p)
    <3>1. PICK p \in Peer : Arrive(w, p)  BY <2>1
    <3> DEFINE q == [NoJob EXCEPT !.pc = "count", !.peer = p]
    <3>2. q \in LimitCall /\ q.peer = p
      <4>1. 0 \in 0..MaxLag  BY LimitsConstants
      <4> QED  BY <4>1, <1>z DEF NoJob, LimitCall
    <3> QED  BY <3>1, <3>2 DEF Arrive
  <2>2. CASE SweepDue(w)
    <3>0. limitJob[w] \in LimitCall /\ limitJob[w].peer \in Peer
      BY <2>2, <1>0 DEF SweepDue, LimitsInv
    <3>1. CASE limitJob' = [limitJob EXCEPT ![w].pc = "clock"]
      <4> DEFINE q == [limitJob[w] EXCEPT !.pc = "clock"]
      <4>1. q \in LimitCall /\ q.peer = limitJob[w].peer  BY <3>0 DEF LimitCall
      <4> QED  BY <3>0, <3>1, <4>1
    <3>2. CASE limitJob' = [limitJob EXCEPT ![w].pc = "claim", ![w].seen = sinceSweep]
      <4> DEFINE q == [limitJob[w] EXCEPT !.pc = "claim", !.seen = sinceSweep]
      <4>1. q \in LimitCall /\ q.peer = limitJob[w].peer  BY <1>0, <3>0 DEF LimitCall
      <4>2. limitJob' = [limitJob EXCEPT ![w] = q]  BY <1>0, <3>2
      <4> QED  BY <3>0, <4>1, <4>2
    <3> QED  BY <2>2, <3>1, <3>2 DEF SweepDue
  <2>3. CASE ClaimSweep(w)
    <3>0. limitJob[w] \in LimitCall /\ limitJob[w].peer \in Peer
      BY <2>3, <1>0 DEF ClaimSweep, LimitsInv
    <3> DEFINE q == [limitJob[w] EXCEPT !.pc = "sweep", !.seen = 0]
    <3>1. q \in LimitCall /\ q.peer = limitJob[w].peer
      BY <3>0, <1>z DEF LimitCall
    <3>2. limitJob' = [limitJob EXCEPT ![w] = q]  BY <1>0, <2>3 DEF ClaimSweep
    <3> QED  BY <3>0, <3>1, <3>2
  <2>4. CASE ReadClock(w)
    <3>0. limitJob[w] \in LimitCall /\ limitJob[w].peer \in Peer
      BY <2>4, <1>0 DEF ReadClock, LimitsInv
    <3> DEFINE q == [limitJob[w] EXCEPT !.pc = "take"]
    <3>1. q \in LimitCall /\ q.peer = limitJob[w].peer  BY <3>0 DEF LimitCall
    <3>2. limitJob' = [limitJob EXCEPT ![w] = q]  BY <1>0, <2>4 DEF ReadClock
    <3> QED  BY <3>0, <3>1, <3>2
  <2> QED  BY <2>1, <2>2, <2>3, <2>4
<1>4. LimitsTypeOK'  BY <1>0, <1>1, <1>2, <1>3 DEF LimitsInv, LimitsTypeOK, LimitCall
<1>5. \A v \in Worker : limitJob'[v].pc # "idle" => limitJob'[v].peer \in Peer
  BY <1>0, <1>3 DEF LimitsInv
<1>6. (IsFiniteSet(Tracked) /\ TrackedBounded /\ (FillsInTime => SweepGivesNothing))'
  BY <1>1 DEF LimitsInv, Tracked, TrackedBounded, SweepGivesNothing, Refilled, Elapsed
<1> QED  BY <1>4, <1>5, <1>6 DEF LimitsInv

\* A bucket that is as old as the idle window is full.
LEMMA FullInTime ==
    ASSUME FillsInTime, NEW x \in Nat, NEW a \in Nat, a >= IdleEvict
    PROVE  Smaller(x + a * Refill, Capacity) = Capacity
<1>1. PICK d \in Nat : a = IdleEvict + d
  <2>1. a - IdleEvict \in Nat /\ a = IdleEvict + (a - IdleEvict)  BY LimitsConstants
  <2> QED  BY <2>1
<1>2. a * Refill = IdleEvict * Refill + d * Refill  BY <1>1, LimitsConstants
<1> DEFINE y == IdleEvict * Refill
           z == d * Refill
<1>3. y \in Nat /\ z \in Nat /\ y >= Capacity  BY LimitsConstants DEF FillsInTime
<1>4. a * Refill = y + z  BY <1>2
<1> HIDE DEF y, z
<1> QED  BY <1>3, <1>4, LimitsConstants DEF Smaller

\* A sweep: a bucket that goes has had the time to fill.
LEMMA SweepStep ==
    ASSUME LimitsInv, NEW w \in Worker, EvictIdle(w)
    PROVE  LimitsInv'
<1>0. /\ limitJob \in [Worker -> LimitCall]
      /\ buckets \in [Peer -> BucketState \cup {Untracked}] /\ budget \in [Peer -> 0..Capacity]
  BY DEF LimitsInv, LimitsTypeOK, LimitCall, BucketState
<1>1. /\ budget' = budget /\ displaced' = displaced /\ sinceSweep' = sinceSweep
      /\ limitJob' = [limitJob EXCEPT ![w].pc = "clock"]
      /\ buckets' = [p \in Peer |->
            IF p \in Tracked /\ buckets[p].age >= IdleEvict THEN Untracked ELSE buckets[p]]
      /\ limitJob[w].pc = "sweep"
  BY DEF EvictIdle
<1>2. limitJob' \in [Worker -> LimitCall]
      /\ \A v \in Worker : limitJob'[v].pc # "idle" => limitJob'[v].peer \in Peer
  BY <1>0, <1>1 DEF LimitsInv, LimitCall
<1>3. buckets' \in [Peer -> BucketState \cup {Untracked}]  BY <1>0, <1>1
<1>4. IsFiniteSet(Tracked') /\ Cardinality(Tracked') <= MaxTracked
  <2>1. Tracked' \subseteq Tracked  BY <1>1 DEF Tracked
  <2>2. IsFiniteSet(Tracked') /\ Cardinality(Tracked') <= Cardinality(Tracked)
    BY <2>1, FS_Subset DEF LimitsInv
  <2>3. Cardinality(Tracked) \in Nat /\ Cardinality(Tracked') \in Nat
    BY <2>2, FS_CardinalityType DEF LimitsInv
  <2> QED  BY <2>2, <2>3, LimitsConstants DEF LimitsInv, TrackedBounded
<1>5. FillsInTime => SweepGivesNothing'
  <2> SUFFICES ASSUME FillsInTime, NEW p \in Peer \ displaced PROVE GivenNothing(p)'
    BY <1>1, <1>3, GivenPerPeerNext
  <2>1. GivenNothing(p)  BY <1>0, GivenPerPeer DEF LimitsInv
  <2>2. CASE buckets'[p] = buckets[p]  BY <2>1, <2>2, <1>1 DEF GivenNothing
  <2>3. CASE buckets'[p] # buckets[p]
    <3>1. buckets[p] \in BucketState /\ buckets[p] # Untracked
          /\ buckets[p].age >= IdleEvict /\ buckets'[p] = Untracked
      BY <2>3, <1>0, <1>1 DEF Tracked
    <3> DEFINE a == buckets[p].age
               x == buckets[p].tokens
    <3>2. a \in Nat /\ a >= IdleEvict /\ x \in Nat
      BY <3>1, LimitsConstants DEF BucketState
    <3>3. Smaller(x + a * Refill, Capacity) = Capacity
      BY <3>2, FullInTime
    <3> QED  BY <2>1, <3>1, <3>3, <1>1, LimitsConstants DEF GivenNothing
  <2> QED  BY <2>2, <2>3
<1> QED
  BY <1>0, <1>1, <1>2, <1>3, <1>4, <1>5
  DEF LimitsInv, LimitsTypeOK, LimitCall, BucketState, TrackedBounded

\* The clock: a bucket gains no more than the budget does.
LEMMA TickStep ==
    ASSUME LimitsInv, LimitsTick
    PROVE  LimitsInv'
<1>0. /\ buckets \in [Peer -> BucketState \cup {Untracked}] /\ budget \in [Peer -> 0..Capacity]
      /\ Untracked \notin BucketState
  BY LimitsAssumption DEF LimitsInv, LimitsTypeOK, BucketState, MaxAge
<1>1. /\ sinceSweep' = sinceSweep /\ displaced' = displaced
      /\ budget' = [p \in Peer |-> Smaller(budget[p] + Refill, Capacity)]
  BY DEF LimitsTick
<1>2. \A p \in Peer :
        /\ buckets[p] = Untracked => buckets'[p] = Untracked
        /\ buckets[p] # Untracked => buckets'[p] =
                [buckets[p] EXCEPT !.age = Smaller(buckets[p].age + 1, MaxAge)]
  BY DEF LimitsTick, Tracked
<1>3. \A p \in Peer : buckets[p] # Untracked =>
        /\ buckets'[p] \in BucketState /\ buckets'[p].tokens = buckets[p].tokens
        /\ buckets'[p].age = Smaller(buckets[p].age + 1, MaxAge)
  <2> SUFFICES ASSUME NEW p \in Peer, buckets[p] # Untracked
               PROVE  /\ buckets'[p] \in BucketState /\ buckets'[p].tokens = buckets[p].tokens
                      /\ buckets'[p].age = Smaller(buckets[p].age + 1, MaxAge)
    OBVIOUS
  <2>1. buckets[p] \in BucketState  BY <1>0
  <2>2. Smaller(buckets[p].age + 1, MaxAge) \in 0..MaxAge
    BY <2>1, LimitsConstants DEF BucketState, Smaller
  <2> QED  BY <1>2, <2>1, <2>2 DEF BucketState
<1>4. buckets' \in [Peer -> BucketState \cup {Untracked}]
  <2>1. buckets' = [p \in Peer |-> buckets'[p]]  BY DEF LimitsTick
  <2> QED  BY <2>1, <1>2, <1>3
<1>5. budget' \in [Peer -> 0..Capacity]
  BY <1>0, <1>1, LimitsConstants DEF Smaller
<1>6. Tracked' = Tracked  BY <1>0, <1>2, <1>3 DEF Tracked
<1>j. limitJob' \in [Worker -> LimitCall]
      /\ \A v \in Worker : limitJob'[v].pc # "idle" => limitJob'[v].peer \in Peer
  <2>1. limitJob \in [Worker -> LimitCall]  BY DEF LimitsInv, LimitsTypeOK, LimitCall
  <2>2. \A v \in Worker : limitJob'[v] = IF limitJob[v].pc = "take"
            THEN [limitJob[v] EXCEPT !.lag = @ + 1] ELSE limitJob[v]
    BY DEF LimitsTick
  <2>3. \A v \in Worker : limitJob[v].pc = "take" => limitJob[v].lag + 1 \in 0..MaxLag
    BY <2>1, LimitsConstants DEF LimitsTick, LimitCall
  <2>4. \A v \in Worker : /\ limitJob'[v] \in LimitCall
                         /\ limitJob'[v].pc = limitJob[v].pc /\ limitJob'[v].peer = limitJob[v].peer
    BY <2>1, <2>2, <2>3 DEF LimitCall
  <2>5. limitJob' = [v \in Worker |-> limitJob'[v]]  BY DEF LimitsTick
  <2> QED  BY <2>4, <2>5 DEF LimitsInv
<1>7. FillsInTime => SweepGivesNothing'
  <2> SUFFICES ASSUME FillsInTime, NEW p \in Peer \ displaced PROVE GivenNothing(p)'
    BY <1>1, <1>4, GivenPerPeerNext
  <2>1. GivenNothing(p)  BY <1>0, GivenPerPeer DEF LimitsInv
  <2>2. budget[p] \in Nat /\ budget'[p] = Smaller(budget[p] + Refill, Capacity)
    BY <1>0, <1>1, LimitsConstants
  <2>3. CASE buckets[p] = Untracked
    <3>1. buckets'[p] = Untracked  BY <2>3, <1>2
    <3>2. Capacity <= budget'[p]
      BY <2>1, <2>2, <2>3, LimitsConstants DEF GivenNothing, Smaller
    <3> QED  BY <3>1, <3>2 DEF GivenNothing
  <2>4. CASE buckets[p] # Untracked
    <3> DEFINE a == buckets[p].age
               t == buckets[p].tokens
    <3>1. a \in Nat /\ t \in Nat /\ a <= MaxAge /\ t <= Capacity
      BY <2>4, <1>0, LimitsConstants DEF BucketState
    <3>2. buckets'[p] # Untracked /\ buckets'[p].tokens = t
          /\ buckets'[p].age = Smaller(a + 1, MaxAge)
      BY <2>4, <1>0, <1>3
    <3>3. Smaller(t + a * Refill, Capacity) <= budget[p]
      BY <2>1, <2>4 DEF GivenNothing
    <3> HIDE DEF a, t
    <3>4. a * Refill \in Nat /\ (a + 1) * Refill = a * Refill + Refill
      BY <3>1, LimitsConstants
    <3>6. Smaller(t + Smaller(a + 1, MaxAge) * Refill, Capacity) <= budget'[p]
      <4>1. CASE a < MaxAge
        <5>1. Smaller(a + 1, MaxAge) = a + 1
          BY <4>1, <3>1, LimitsConstants DEF Smaller
        <5>2. Smaller(t + (a * Refill + Refill), Capacity) <= budget'[p]
          <6> DEFINE x == a * Refill
          <6>1. x \in Nat /\ Smaller(t + x, Capacity) <= budget[p]  BY <3>3, <3>4
          <6> HIDE DEF x
          <6>2. Smaller(t + (x + Refill), Capacity) <= budget'[p]
            BY <6>1, <2>2, <3>1, LimitsConstants DEF Smaller
          <6> QED  BY <6>2 DEF x
        <5> QED  BY <5>1, <5>2, <3>4
      <4>2. CASE a = MaxAge
        <5>1. Smaller(a + 1, MaxAge) = a
          BY <4>2, LimitsConstants DEF Smaller
        <5>2. Smaller(t + a * Refill, Capacity) = Capacity
          BY <4>2, <3>1, FullInTime, LimitsConstants
        <5>3. Capacity <= budget'[p]  BY <5>2, <3>3, <2>2, LimitsConstants DEF Smaller
        <5> QED  BY <5>1, <5>2, <5>3
      <4> QED  BY <4>1, <4>2, <3>1, LimitsConstants
    <3> QED  BY <3>2, <3>6 DEF GivenNothing
  <2> QED  BY <2>3, <2>4
<1> QED
  BY <1>1, <1>4, <1>5, <1>6, <1>7, <1>j
  DEF LimitsInv, LimitsTypeOK, LimitCall, BucketState, TrackedBounded

\* A request takes its token: a peer that is tracked pays from its bucket, a
\* new one makes room for itself, and what went to make room is displaced.
LEMMA TakeStep ==
    ASSUME LimitsInv, NEW w \in Worker, Take(w)
    PROVE  LimitsInv'
<1> DEFINE p == limitJob[w].peer
           lag == limitJob[w].lag
           had == Refilled(p, lag)
           rest == IF had >= 1 THEN had - 1 ELSE 0
           b == IF p \in displaced THEN Capacity ELSE budget[p]
           paid == IF had >= 1 /\ b >= 1 THEN b - 1 ELSE b
<1>0. /\ limitJob \in [Worker -> LimitCall] /\ displaced \subseteq Peer
      /\ buckets \in [Peer -> BucketState \cup {Untracked}] /\ budget \in [Peer -> 0..Capacity]
      /\ Untracked \notin BucketState
  BY LimitsAssumption DEF LimitsInv, LimitsTypeOK, LimitCall, BucketState, MaxAge
<1>1. p \in Peer  BY DEF Take, LimitsInv
<1>l. lag \in Nat /\ lag <= MaxLag  BY <1>0, LimitsConstants DEF LimitCall
<1>2. PICK out \in SUBSET Tracked :
        /\ IF p \in Tracked THEN out = {} ELSE MakeRoom(out)
        /\ buckets' = [q \in Peer |-> CASE q = p -> [tokens |-> rest, age |-> lag]
                                        [] q \in out -> Untracked
                                        [] OTHER -> buckets[q]]
        /\ displaced' = (displaced \ {p}) \cup out
        /\ budget' = [budget EXCEPT ![p] = Smaller(paid + lag * Refill, Capacity)]
  BY Zenon DEF Take
<1>3. sinceSweep' = sinceSweep /\ limitJob' = [limitJob EXCEPT ![w] = NoJob]
  BY DEF Take
<1>4. /\ had \in 0..Capacity /\ rest \in 0..Capacity /\ b \in 0..Capacity
      /\ paid \in 0..Capacity /\ lag * Refill \in Nat
  <2>1. had \in 0..Capacity
    <3>1. CASE buckets[p] = Untracked  BY <3>1, LimitsConstants DEF Refilled
    <3>2. CASE buckets[p] # Untracked
      <4>1. buckets[p].tokens \in Nat /\ buckets[p].age \in Nat
        BY <3>2, <1>0, <1>1, LimitsConstants DEF BucketState
      <4>2. Elapsed(p, lag) \in Nat  BY <4>1, <1>l DEF Elapsed
      <4>3. Elapsed(p, lag) * Refill \in Nat  BY <4>2, LimitsConstants
      <4>4. buckets[p].tokens + Elapsed(p, lag) * Refill \in Nat  BY <4>1, <4>3
      <4> QED  BY <3>2, <4>4, LimitsConstants DEF Refilled, Smaller
    <3> QED  BY <3>1, <3>2
  <2>2. rest \in 0..Capacity  BY <2>1, LimitsConstants
  <2>3. b \in 0..Capacity  BY <1>0, <1>1, LimitsConstants
  <2>4. paid \in 0..Capacity  BY <2>1, <2>3, LimitsConstants
  <2>5. lag * Refill \in Nat  BY <1>l, LimitsConstants
  <2> QED  BY <2>1, <2>2, <2>3, <2>4, <2>5
<1>5. FillsInTime /\ p \notin displaced => had <= b
  <2> SUFFICES ASSUME FillsInTime, p \notin displaced PROVE had <= budget[p]
    OBVIOUS
  <2>1. GivenNothing(p)  BY <1>0, <1>1, GivenPerPeer DEF LimitsInv
  <2>2. CASE buckets[p] = Untracked  BY <2>1, <2>2 DEF GivenNothing, Refilled
  <2>3. CASE buckets[p] # Untracked
    <3> DEFINE t == buckets[p].tokens
               a == buckets[p].age
               e == Elapsed(p, lag)
    <3>1. t \in Nat /\ a \in Nat  BY <2>3, <1>0, <1>1, LimitsConstants DEF BucketState
    <3>2. PICK d \in Nat : e \in Nat /\ a = e + d
      <4>1. e \in Nat /\ a - e \in Nat /\ a = e + (a - e)  BY <3>1, <1>l DEF Elapsed
      <4> QED  BY <4>1
    <3>3. Smaller(t + a * Refill, Capacity) <= budget[p]  BY <2>1, <2>3 DEF GivenNothing
    <3>4. had = Smaller(t + e * Refill, Capacity)  BY <2>3 DEF Refilled
    <3> HIDE DEF t, a, e
    <3>5. a * Refill = e * Refill + d * Refill  BY <3>1, <3>2, LimitsConstants
    <3> DEFINE x == e * Refill
               y == d * Refill
    <3>6. x \in Nat /\ y \in Nat /\ a * Refill = x + y  BY <3>2, <3>5, LimitsConstants
    <3>7. had = Smaller(t + x, Capacity) /\ Smaller(t + (x + y), Capacity) <= budget[p]
      BY <3>3, <3>4, <3>6
    <3>8. budget[p] \in Nat  BY <1>0, <1>1, LimitsConstants
    <3> HIDE DEF x, y, had, p
    <3> QED  BY <3>1, <3>6, <3>7, <3>8, LimitsConstants DEF Smaller
  <2> QED  BY <2>2, <2>3
<1>6. p \in displaced => b = Capacity  OBVIOUS
<1>7. FillsInTime => rest <= paid
  BY <1>4, <1>5, <1>6, LimitsConstants
<1>8. p \notin out  BY <1>2 DEF MakeRoom
<1>9. /\ buckets'[p] = [tokens |-> rest, age |-> lag]
      /\ \A q \in Peer : q # p => buckets'[q] = IF q \in out THEN Untracked ELSE buckets[q]
  BY <1>1, <1>2
<1> HIDE DEF p, lag, had, rest, b, paid
<1>10. [tokens |-> rest, age |-> lag] \in BucketState
  BY <1>4, <1>l, LimitsConstants DEF BucketState
<1>11. buckets' \in [Peer -> BucketState \cup {Untracked}]
  <2>1. buckets' = [q \in Peer |-> buckets'[q]]  BY <1>2
  <2> QED  BY <2>1, <1>0, <1>9, <1>10
<1>12. limitJob' \in [Worker -> LimitCall]
       /\ \A v \in Worker : limitJob'[v].pc # "idle" => limitJob'[v].peer \in Peer
  <2>1. NoJob \in LimitCall /\ NoJob.pc = "idle"  BY LimitsConstants DEF NoJob, LimitCall
  <2> QED  BY <2>1, <1>0, <1>3 DEF LimitsInv
<1>13. budget' \in [Peer -> 0..Capacity] /\ displaced' \subseteq Peer
  <2>1. Smaller(paid + lag * Refill, Capacity) \in 0..Capacity
    <3> DEFINE x == lag * Refill
    <3>1. x \in Nat  BY <1>4
    <3> HIDE DEF x
    <3>2. Smaller(paid + x, Capacity) \in 0..Capacity
      BY <3>1, <1>4, LimitsConstants DEF Smaller
    <3> QED  BY <3>2 DEF x
  <2>2. budget' \in [Peer -> 0..Capacity]  BY <2>1, <1>0, <1>2
  <2> QED  BY <2>2, <1>0, <1>2 DEF Tracked
<1>14. IsFiniteSet(Tracked') /\ Cardinality(Tracked') <= MaxTracked
  <2>0. IsFiniteSet(Tracked) /\ Cardinality(Tracked) \in Nat /\ Cardinality(Tracked) <= MaxTracked
    BY FS_CardinalityType DEF LimitsInv, TrackedBounded
  <2>1. Tracked' = (Tracked \ out) \cup {p}
    BY <1>0, <1>1, <1>9, <1>10 DEF Tracked
  <2>2. CASE p \in Tracked
    <3>1. Tracked' = Tracked  BY <2>1, <2>2, <1>2
    <3> QED  BY <3>1, <2>0
  <2>3. CASE p \notin Tracked /\ out = {} /\ Cardinality(Tracked) < MaxTracked
    <3>1. Tracked' = Tracked \cup {p}  BY <2>1, <2>3
    <3>2. IsFiniteSet(Tracked') /\ Cardinality(Tracked') = Cardinality(Tracked) + 1
      BY <3>1, <2>0, <2>3, FS_AddElement
    <3> QED  BY <3>2, <2>0, <2>3, LimitsConstants
  <2>4. CASE p \notin Tracked /\ \E q \in Tracked : out = {q}
    <3>1. PICK q \in Tracked : out = {q}  BY <2>4
    <3>2. IsFiniteSet(Tracked \ {q}) /\ Cardinality(Tracked \ {q}) = Cardinality(Tracked) - 1
      BY <2>0, FS_RemoveElement
    <3>3. IsFiniteSet((Tracked \ {q}) \cup {p})
          /\ Cardinality((Tracked \ {q}) \cup {p}) = Cardinality(Tracked \ {q}) + 1
      BY <3>2, <2>4, FS_AddElement
    <3>4. Tracked' = (Tracked \ {q}) \cup {p}  BY <2>1, <3>1
    <3> QED  BY <2>0, <3>2, <3>3, <3>4, LimitsConstants
  <2> QED  BY <2>2, <2>3, <2>4, <1>2 DEF MakeRoom
<1>15. FillsInTime => SweepGivesNothing'
  <2> SUFFICES ASSUME FillsInTime, NEW q \in Peer \ displaced' PROVE GivenNothing(q)'
    BY <1>11, GivenPerPeerNext
  <2>1. CASE q = p
    <3>1. /\ buckets'[q] # Untracked
          /\ buckets'[q].tokens = rest /\ buckets'[q].age = lag
      BY <2>1, <1>0, <1>9, <1>10
    <3>2. budget'[q] = Smaller(paid + lag * Refill, Capacity)
      BY <2>1, <1>0, <1>2
    <3>3. Smaller(rest + lag * Refill, Capacity) <= Smaller(paid + lag * Refill, Capacity)
      <4> DEFINE x == lag * Refill
      <4>1. x \in Nat  BY <1>4
      <4> HIDE DEF x
      <4>2. Smaller(rest + x, Capacity) <= Smaller(paid + x, Capacity)
        BY <4>1, <1>4, <1>7, LimitsConstants DEF Smaller
      <4> QED  BY <4>2 DEF x
    <3> QED  BY <3>1, <3>2, <3>3 DEF GivenNothing
  <2>2. CASE q # p
    <3>1. q \notin displaced /\ q \notin out  BY <2>2, <1>2
    <3>2. buckets'[q] = buckets[q] /\ budget'[q] = budget[q]
      BY <2>2, <3>1, <1>0, <1>2, <1>9
    <3>3. GivenNothing(q)  BY <3>1, <1>0, GivenPerPeer DEF LimitsInv
    <3> QED  BY <3>2, <3>3 DEF GivenNothing
  <2> QED  BY <2>1, <2>2
<1> QED
  BY <1>0, <1>3, <1>11, <1>12, <1>13, <1>14, <1>15
  DEF LimitsInv, LimitsTypeOK, LimitCall, BucketState, TrackedBounded

LEMMA LimitsStep ==
    ASSUME LimitsInv, [LimitsNext]_limitVars
    PROVE  LimitsInv'
<1>1. CASE UNCHANGED limitVars
  BY <1>1 DEF limitVars, LimitsInv, LimitsTypeOK, Tracked, TrackedBounded, SweepGivesNothing,
              Refilled, Elapsed
<1>2. CASE LimitsNext
  BY <1>2, CounterSteps, SweepStep, TickStep, TakeStep DEF LimitsNext, LimitStep
<1> QED  BY <1>1, <1>2

\* The limiter keeps its invariant for every number of peers and workers and
\* every cap.
THEOREM LimitsInvariant == LimitsSpec => []LimitsInv
<1>1. LimitsInv /\ [LimitsNext]_limitVars => LimitsInv'  BY LimitsStep
<1> QED  BY <1>1, LimitsStarts, PTL DEF LimitsSpec

\* The map of TokenBucket never passes MAX_TRACKED_PEERS, for every burst,
\* capacity and rate (make_room, take).
THEOREM MapIsBounded == LimitsSpec => []TrackedBounded
<1>1. LimitsInv => TrackedBounded  BY DEF LimitsInv
<1> QED  BY <1>1, LimitsInvariant, PTL

\* Where a bucket fills in the idle window, no sweep, by one worker or by two
\* at once, gives a peer a token that its bucket would not have had, and the
\* map stays bounded (evict_idle, make_room, take).
THEOREM EvictionIsSound ==
    ASSUME FillsInTime
    PROVE  LimitsSpec => []EvictionSound
<1>1. LimitsInv => EvictionSound  BY DEF LimitsInv, EvictionSound
<1> QED  BY <1>1, LimitsInvariant, PTL

-----------------------------------------------------------------------------
(* The policy engine *)

PolicyOp == {"none", "claim", "import", "add_rule", "remove_rule", "assign", "unassign",
             "delete_group"}
Seeds == ToSet(SeedRules)

\* What a plan is made of: tuples, and the group of a filtered removal.
PolicyArg == PolicyTuple \cup EditGroup \cup {Free}

RequestRecord == [op : PolicyOp, sub : PolicySubject \cup {Free}, arg : PolicyArg,
                  pc : Phase, todo : Seq(PolicyArg), out : Seq(SUBSET PolicyArg),
                  first : BOOLEAN, moved : SUBSET PolicyTuple]

Locked == {"commit", "apply"}

\* A request: with the lock it has something left to do, in the announcement
\* something left to announce, and before the lock nothing to announce.  An
\* import announces one change at a time.  What is added is a tuple.
PolicyRequest ==
    {q \in RequestRecord :
        /\ q.pc \in Locked => q.todo # <<>>
        /\ q.pc = "announce" => q.out # <<>>
        /\ q.pc = "lock" /\ q.op = "import" => q.todo # <<>>
        /\ q.pc \in {"idle", "require", "lock"} => q.out = <<>>
        /\ q.op = "import" => q.pc # "require"
        /\ q.op = "import" /\ q.pc \in Locked => q.out = <<>>
        /\ q.op = "import" /\ q.pc = "announce" => Tail(q.out) = <<>>
        /\ q.op = "claim" => q.sub \in PolicySubject
        /\ q.first => q.op = "claim"
        /\ q.pc # "apply" => q.moved = {}
        /\ q.op \notin Removal => q.todo \in Seq(PolicyTuple)
        /\ q.op \in {"add_rule", "assign"} => q.arg \in PolicyTuple
        /\ q.pc # "idle" => q.op # "none"}

PolicyTypes ==
    /\ polMode \in {"serve", "import", "down"}
    /\ stored \subseteq PolicyTuple /\ enforced \subseteq PolicyTuple
    /\ writer \in Req \cup {Free}
    /\ preq \in [Req -> PolicyRequest]
    /\ healed \in BOOLEAN

PolicyCounters ==
    /\ edits \in 0..MaxEdits /\ polFaults \in 0..MaxPolFaults
    /\ wins \in 0..1 /\ (wins = 1 => edits >= 1)
    /\ \A r \in Req : preq[r].pc # "idle" => edits >= 1

WriterCommits == \A r \in Req : preq[r].pc \in Locked <=> writer = r
StoredValid == \A t \in stored : Validate(t)

\* Nothing is in flight while the process is down, and an import runs alone.
ModesHeld ==
    /\ polMode = "down" => \A r \in Req : preq[r].pc = "idle"
    /\ \A r \in Req : preq[r].pc # "idle" => (preq[r].op = "import" <=> polMode = "import")
    /\ polMode = "import" =>
        \A r, s \in Req : preq[r].pc # "idle" /\ preq[s].pc # "idle" => r = s

\* Between the commit and the memory: what was added is stored, of what was
\* removed nothing is, and a group takes no other tuple with it.
ApplyReady ==
    \A r \in Req : preq[r].pc = "apply" =>
        /\ preq[r].op \notin Removal =>
            Head(preq[r].todo) \in stored /\ preq[r].moved = {Head(preq[r].todo)}
        /\ preq[r].op \in Removal => \A t \in stored : ~Names(preq[r], t)
        /\ preq[r].op = "delete_group" => \A t \in preq[r].moved : Names(preq[r], t)

\* While a first claim holds the lock nobody has won, and so it is while the
\* enforcer knows nobody in the role.
ClaimOpen ==
    /\ \A r \in Req : preq[r].pc \in Locked /\ preq[r].first => wins = 0
    /\ polMode # "down" /\ Members(enforced, Superadmin) = {} => wins = 0

\* The rules that a claim with the lock has not stored are left in its plan.
ClaimRepairs ==
    \A r \in Req : preq[r].op = "claim" =>
        /\ preq[r].pc = "commit" => Seeds \subseteq stored \cup ToSet(preq[r].todo)
        /\ preq[r].pc = "apply" => Seeds \subseteq stored \cup ToSet(Tail(preq[r].todo))

PolicyInv ==
    /\ PolicyTypes /\ PolicyCounters /\ WriterCommits /\ ModesHeld /\ StoredValid /\ ApplyReady
    /\ EnforcerIsStore /\ ClaimOpen /\ ClaimRepairs /\ ClaimHeals /\ ChangesAnnounced

\* The changes that each request has still to announce, and those that the
\* memory does not have yet.
Sending == [r \in Req |-> Unsent(preq[r])]
Moving == [r \in Req |-> preq[r].moved]

LEMMA AnnouncedPerRequest ==
    ChangesAnnounced <=>
        \A x \in unannounced : x \in dropped \/ \E r \in Req : x \in Sending[r]
BY DEF ChangesAnnounced, Sending

LEMMA AnnouncedPerRequestNext ==
    (\A x \in unannounced' : x \in dropped' \/ \E r \in Req : x \in Sending'[r])
        => ChangesAnnounced'
BY DEF ChangesAnnounced, Sending

LEMMA SendingMoves ==
    ASSUME preq \in [Req -> PolicyRequest], NEW r \in Req, NEW q,
           preq' = [preq EXCEPT ![r] = q]
    PROVE  /\ Sending' = [Sending EXCEPT ![r] = Unsent(q)]
           /\ Moving' = [Moving EXCEPT ![r] = q.moved]
BY DEF Sending, Moving

LEMMA NothingMoves ==
    ASSUME preq \in [Req -> PolicyRequest], NEW r \in Req, NEW q,
           preq' = [preq EXCEPT ![r] = q], q.moved = {}, preq[r].moved = {}
    PROVE  Moving' = Moving
<1>1. Moving' = [s \in Req |-> preq'[s].moved] /\ Moving = [s \in Req |-> preq[s].moved]
  BY DEF Moving
<1>2. \A s \in Req : preq'[s].moved = preq[s].moved  OBVIOUS
<1> QED  BY <1>1, <1>2

\* EnforcerIsStore for one tuple, before and after a step.
Differs(x) == ~(x \in enforced <=> x \in stored)

LEMMA MatchPerTuple ==
    EnforcerIsStore <=>
        (polMode # "down" =>
            \A x : Differs(x) => x \in adrift \/ \E r \in Req : x \in Moving[r])
BY DEF EnforcerIsStore, Differs, Moving

LEMMA MatchPerTupleNext ==
    (polMode' # "down" =>
            \A x : Differs(x)' => x \in adrift' \/ \E r \in Req : x \in Moving'[r])
        => EnforcerIsStore'
BY DEF EnforcerIsStore, Differs, Moving

\* The elements of a sequence.
LEMMA ElementsEmpty == ToSet(<<>>) = {}
BY DEF ToSet

LEMMA ElementsHead ==
    ASSUME NEW S, NEW s \in Seq(S), s # <<>>
    PROVE  /\ Head(s) \in S /\ Tail(s) \in Seq(S)
           /\ ToSet(s) = {Head(s)} \cup ToSet(Tail(s))
<1>1. Head(s) \in S /\ Tail(s) \in Seq(S) /\ Len(Tail(s)) = Len(s) - 1 /\ Len(s) \in Nat /\ Len(s) > 0
  OBVIOUS
<1>2. \A i \in 1..Len(Tail(s)) : Tail(s)[i] = s[i + 1]  OBVIOUS
<1>3. Head(s) = s[1]  OBVIOUS
<1>4. DOMAIN s = 1..Len(s) /\ DOMAIN Tail(s) = 1..Len(Tail(s))  BY <1>1
<1>5. ASSUME NEW x \in ToSet(s) PROVE x \in {Head(s)} \cup ToSet(Tail(s))
  <2>1. PICK i \in 1..Len(s) : x = s[i]  BY <1>4 DEF ToSet
  <2>2. CASE i = 1  BY <2>1, <2>2, <1>3
  <2>3. CASE i # 1
    <3>1. i - 1 \in 1..Len(Tail(s)) /\ Tail(s)[i - 1] = s[i]
      BY <2>1, <2>3, <1>1, <1>2
    <3> QED  BY <2>1, <3>1, <1>4 DEF ToSet
  <2> QED  BY <2>2, <2>3
<1>6. ASSUME NEW x \in ToSet(Tail(s)) PROVE x \in ToSet(s)
  <2>1. PICK i \in 1..Len(Tail(s)) : x = Tail(s)[i]  BY <1>4 DEF ToSet
  <2>2. i + 1 \in 1..Len(s) /\ x = s[i + 1]  BY <2>1, <1>1, <1>2
  <2> QED  BY <2>2, <1>4 DEF ToSet
<1>7. Head(s) \in ToSet(s)
  <2>1. 1 \in 1..Len(s)  BY <1>1
  <2> QED  BY <2>1, <1>3, <1>4 DEF ToSet
<1> QED  BY <1>1, <1>5, <1>6, <1>7

LEMMA ElementsConcat ==
    ASSUME NEW S, NEW s \in Seq(S), NEW t \in Seq(S)
    PROVE  s \o t \in Seq(S) /\ ToSet(s \o t) = ToSet(s) \cup ToSet(t)
<1>0. Len(s) \in Nat /\ Len(t) \in Nat /\ DOMAIN s = 1..Len(s) /\ DOMAIN t = 1..Len(t)
  OBVIOUS
<1>1. s \o t \in Seq(S) /\ Len(s \o t) = Len(s) + Len(t)
      /\ DOMAIN (s \o t) = 1..(Len(s) + Len(t))
  OBVIOUS
<1>2. \A i \in 1..Len(s) : (s \o t)[i] = s[i]  OBVIOUS
<1>3. \A i \in 1..Len(t) : (s \o t)[Len(s) + i] = t[i]  OBVIOUS
<1>4. ASSUME NEW x \in ToSet(s \o t) PROVE x \in ToSet(s) \cup ToSet(t)
  <2>1. PICK i \in 1..(Len(s) + Len(t)) : x = (s \o t)[i]  BY <1>1 DEF ToSet
  <2>2. CASE i <= Len(s)
    <3>1. i \in 1..Len(s) /\ x = s[i]  BY <2>1, <2>2, <1>0, <1>2
    <3> QED  BY <3>1, <1>0 DEF ToSet
  <2>3. CASE i > Len(s)
    <3>1. i - Len(s) \in 1..Len(t) /\ Len(s) + (i - Len(s)) = i  BY <2>3, <1>0
    <3>2. x = t[i - Len(s)]  BY <3>1, <2>1, <1>3
    <3> QED  BY <3>1, <3>2, <1>0 DEF ToSet
  <2> QED  BY <2>2, <2>3, <1>0
<1>5. ASSUME NEW x \in ToSet(s) PROVE x \in ToSet(s \o t)
  <2>1. PICK i \in 1..Len(s) : x = s[i]  BY <1>0 DEF ToSet
  <2>2. i \in 1..(Len(s) + Len(t)) /\ x = (s \o t)[i]  BY <2>1, <1>0, <1>2
  <2> QED  BY <2>2, <1>1 DEF ToSet
<1>6. ASSUME NEW x \in ToSet(t) PROVE x \in ToSet(s \o t)
  <2>1. PICK i \in 1..Len(t) : x = t[i]  BY <1>0 DEF ToSet
  <2>2. Len(s) + i \in 1..(Len(s) + Len(t)) /\ x = (s \o t)[Len(s) + i]
    BY <2>1, <1>0, <1>3
  <2> QED  BY <2>2, <1>1 DEF ToSet
<1> QED  BY <1>1, <1>4, <1>5, <1>6

LEMMA ElementsOne ==
    ASSUME NEW S, NEW x \in S
    PROVE  <<x>> \in Seq(S) /\ <<x>> # <<>> /\ Head(<<x>>) = x /\ ToSet(<<x>>) = {x}
<1>1. <<x>> \in Seq(S) /\ Head(<<x>>) = x /\ <<x>> # <<>>  OBVIOUS
<1>2. DOMAIN <<x>> = {1} /\ <<x>>[1] = x  OBVIOUS
<1> QED  BY <1>1, <1>2 DEF ToSet

LEMMA ArgParts ==
    /\ Free \in PolicyArg /\ EditTuple \subseteq PolicyTuple /\ EditGroup \subseteq PolicyArg
    /\ Seeds \subseteq PolicyTuple /\ PolicyTuple \subseteq PolicyArg
    /\ \A dump \in Dumps : ToSet(dump) \subseteq PolicyTuple
    /\ \A s \in PolicySubject : <<"g", s, Superadmin>> \in PolicyTuple
<1>1. ASSUME NEW dump \in Dumps, NEW x \in ToSet(dump) PROVE x \in PolicyTuple
  <2>1. x \in DumpTuple  BY DEF DumpTuple
  <2> QED  BY <2>1 DEF PolicyTuple
<1>2. ASSUME NEW s \in PolicySubject PROVE <<"g", s, Superadmin>> \in PolicyTuple
  <2>1. <<"g", s, Superadmin>> \in ClaimTuple  BY DEF ClaimTuple
  <2> QED  BY <2>1 DEF PolicyTuple
<1>3. EditTuple \subseteq PolicyTuple  BY DEF PolicyTuple
<1>4. Seeds \subseteq PolicyTuple
  <2> SUFFICES ASSUME NEW x \in ToSet(SeedRules) PROVE x \in PolicyTuple  BY DEF Seeds
  <2> QED  BY DEF PolicyTuple
<1>5. Free \in PolicyArg /\ EditGroup \subseteq PolicyArg /\ PolicyTuple \subseteq PolicyArg
  BY DEF PolicyArg
<1> QED  BY <1>1, <1>2, <1>3, <1>4, <1>5

\* The idle request, and the rules of the role.
LEMMA IdleIsRequest ==
    /\ IdleReq \in PolicyRequest /\ IdleReq.pc = "idle"
    /\ Unsent(IdleReq) = {} /\ IdleReq.moved = {}
<1>1. IdleReq \in RequestRecord
  <2>1. Free \in PolicyArg /\ <<>> \in Seq(PolicyArg) /\ <<>> \in Seq(SUBSET PolicyArg)
    BY ArgParts
  <2> QED  BY <2>1 DEF IdleReq, RequestRecord, PolicyOp, Phase
<1>2. /\ IdleReq.pc = "idle" /\ IdleReq.out = <<>> /\ IdleReq.op = "none"
      /\ IdleReq.moved = {} /\ IdleReq.first = FALSE /\ IdleReq.todo = <<>>
  BY DEF IdleReq
<1>3. Unsent(IdleReq) = {}  BY <1>2, ElementsEmpty DEF Unsent
<1>4. <<>> \in Seq(PolicyTuple)  OBVIOUS
<1> QED  BY <1>1, <1>2, <1>3, <1>4 DEF PolicyRequest, Locked

LEMMA SeedsPlanned ==
    /\ SeedRules \in Seq(PolicyTuple) /\ SeedRules # <<>> /\ IsRule(Head(SeedRules))
    /\ \A s \in PolicySubject :
        /\ << <<"g", s, Superadmin>> >> \o SeedRules \in Seq(PolicyTuple)
        /\ << <<"g", s, Superadmin>> >> \o SeedRules # <<>>
        /\ Seeds \subseteq ToSet(<< <<"g", s, Superadmin>> >> \o SeedRules)
<1>1. SeedRules \in Seq(Seeds) /\ SeedRules # <<>>
  <2>1. DOMAIN SeedRules = 1..4 /\ SeedRules # <<>>  BY DEF SeedRules
  <2>2. \A i \in 1..4 : SeedRules[i] \in Seeds  BY <2>1 DEF Seeds, ToSet
  <2>3. SeedRules = [i \in 1..4 |-> SeedRules[i]]  BY <2>1 DEF SeedRules
  <2> QED  BY <2>1, <2>2, <2>3
<1>2. SeedRules \in Seq(PolicyTuple)  BY <1>1, ArgParts
<1>3. IsRule(Head(SeedRules))  BY DEF SeedRules, IsRule
<1>4. ASSUME NEW s \in PolicySubject
      PROVE  /\ << <<"g", s, Superadmin>> >> \o SeedRules \in Seq(PolicyTuple)
             /\ << <<"g", s, Superadmin>> >> \o SeedRules # <<>>
             /\ Seeds \subseteq ToSet(<< <<"g", s, Superadmin>> >> \o SeedRules)
  <2> DEFINE x == <<"g", s, Superadmin>>
  <2>1. x \in PolicyTuple
    BY ArgParts
  <2> HIDE DEF x
  <2>2. <<x>> \in Seq(PolicyTuple) /\ ToSet(<<x>>) = {x}  BY <2>1, ElementsOne
  <2>3. <<x>> \o SeedRules \in Seq(PolicyTuple) /\ ToSet(<<x>> \o SeedRules) = {x} \cup Seeds
    <3> DEFINE one == <<x>>
    <3>1. one \in Seq(PolicyTuple) /\ ToSet(one) = {x}  BY <2>2
    <3> HIDE DEF one
    <3>2. one \o SeedRules \in Seq(PolicyTuple)
          /\ ToSet(one \o SeedRules) = ToSet(one) \cup ToSet(SeedRules)
      BY <3>1, <1>2, ElementsConcat
    <3> QED  BY <3>1, <3>2 DEF Seeds, one
  <2>4. x \in ToSet(<<x>> \o SeedRules)  BY <2>3
  <2>5. <<x>> \o SeedRules # <<>>  BY <2>4, ElementsEmpty
  <2> QED  BY <2>3, <2>5 DEF x
<1> QED  BY <1>1, <1>2, <1>3, <1>4

LEMMA PolicyStarts == PolicyInit => PolicyInv
<1> SUFFICES ASSUME PolicyInit PROVE PolicyInv  OBVIOUS
<1>1. PolicyTypes  BY IdleIsRequest DEF PolicyInit, PolicyTypes
<1>2. \A r \in Req : preq[r].pc = "idle" /\ preq[r].op = "none"
  BY DEF PolicyInit, IdleReq
<1>3. PolicyCounters  BY <1>2, PolicyAssumption DEF PolicyInit, PolicyCounters
<1>4. WriterCommits /\ ModesHeld /\ ApplyReady /\ ClaimRepairs
  BY <1>2, PolicyAssumption
  DEF PolicyInit, WriterCommits, ModesHeld, ApplyReady, ClaimRepairs, Locked
<1>5. StoredValid /\ EnforcerIsStore /\ ClaimOpen /\ ClaimHeals /\ ChangesAnnounced
  BY DEF PolicyInit, StoredValid, EnforcerIsStore, ClaimOpen, ClaimHeals, ChangesAnnounced
<1> QED  BY <1>1, <1>3, <1>4, <1>5 DEF PolicyInv

\* The fields of a request, for the steps that follow.
LEMMA RequestFields ==
    ASSUME NEW q \in PolicyRequest
    PROVE  /\ q \in RequestRecord
           /\ q.op \in PolicyOp /\ q.sub \in PolicySubject \cup {Free} /\ q.arg \in PolicyArg
           /\ q.pc \in Phase /\ q.todo \in Seq(PolicyArg) /\ q.out \in Seq(SUBSET PolicyArg)
           /\ q.first \in BOOLEAN /\ q.moved \in SUBSET PolicyTuple
           /\ q.pc \in Locked => q.todo # <<>>
           /\ q.pc = "announce" => q.out # <<>>
           /\ q.pc = "lock" /\ q.op = "import" => q.todo # <<>>
           /\ q.pc \in {"idle", "require", "lock"} => q.out = <<>>
           /\ q.op = "import" => q.pc # "require"
           /\ q.op = "import" /\ q.pc \in Locked => q.out = <<>>
           /\ q.op = "import" /\ q.pc = "announce" => Tail(q.out) = <<>>
           /\ q.op = "claim" => q.sub \in PolicySubject
           /\ q.first => q.op = "claim"
           /\ q.pc # "apply" => q.moved = {}
           /\ q.op \notin Removal => q.todo \in Seq(PolicyTuple)
           /\ q.op \in {"add_rule", "assign"} => q.arg \in PolicyTuple
           /\ q.pc # "idle" => q.op # "none"
BY DEF PolicyRequest, RequestRecord

\* What one request has to keep when it moves to q and leaves the tuples alone.
LEMMA RequestMoves ==
    ASSUME PolicyInv, NEW r \in Req, NEW q \in PolicyRequest,
           preq' = [preq EXCEPT ![r] = q],
           stored' = stored, enforced' = enforced, adrift' = adrift, wins' = wins,
           healed' = healed, polMode' = polMode, polMode # "down",
           writer' = writer, preq[r].pc \notin Locked, q.pc \notin Locked,
           q.pc # "idle" =>
               /\ q.op = "import" <=> polMode = "import"
               /\ polMode = "import" => preq[r].pc # "idle"
    PROVE  /\ PolicyTypes' /\ WriterCommits' /\ ModesHeld' /\ StoredValid' /\ ApplyReady'
           /\ EnforcerIsStore' /\ ClaimOpen' /\ ClaimRepairs' /\ ClaimHeals'
<1>0. preq \in [Req -> PolicyRequest] /\ preq[r] \in PolicyRequest
  BY DEF PolicyInv, PolicyTypes
<1>1. PolicyTypes'  BY DEF PolicyInv, PolicyTypes
<1>2. WriterCommits'  BY <1>0 DEF PolicyInv, WriterCommits
<1>3. ModesHeld'  BY <1>0 DEF PolicyInv, ModesHeld
<1>4. (StoredValid /\ ClaimHeals)'
  BY DEF PolicyInv, StoredValid, ClaimHeals
<1>5. ClaimOpen'  BY <1>0 DEF PolicyInv, ClaimOpen
<1>6. ClaimRepairs'  BY <1>0 DEF PolicyInv, ClaimRepairs, Locked
<1>7. ApplyReady'  BY <1>0 DEF PolicyInv, ApplyReady, Locked, Names
<1>8. EnforcerIsStore'
  <2>1. q.moved = {} /\ preq[r].moved = {}  BY <1>0, RequestFields DEF Locked
  <2>3. Moving' = Moving  BY <1>0, <2>1, NothingMoves
  <2> QED  BY <2>3, MatchPerTuple, MatchPerTupleNext DEF PolicyInv, Differs
<1> QED  BY <1>1, <1>2, <1>3, <1>4, <1>5, <1>6, <1>7, <1>8

\* A route begins a request.
RouteBegins(r) ==
    \E op \in PolicyOp \ {"none", "import"}, s \in PolicySubject, x \in PolicyArg :
        PolBegin(r, op, s, x) /\ (op \in {"add_rule", "assign"} => x \in PolicyTuple)

LEMMA BeginStep ==
    ASSUME PolicyInv, NEW r \in Req, RouteBegins(r)
    PROVE  PolicyInv'
<1>1. PICK op \in PolicyOp \ {"none", "import"}, s \in PolicySubject, x \in PolicyArg :
        PolBegin(r, op, s, x) /\ (op \in {"add_rule", "assign"} => x \in PolicyTuple)
  BY DEF RouteBegins
<1> DEFINE q == [IdleReq EXCEPT !.op = op, !.sub = s, !.arg = x,
                                !.pc = IF op = "claim" THEN "lock" ELSE "require"]
<1>2. /\ preq' = [preq EXCEPT ![r] = q]
      /\ polMode = "serve" /\ preq[r].pc = "idle" /\ edits < MaxEdits /\ edits' = edits + 1
      /\ polMode' = polMode /\ stored' = stored /\ enforced' = enforced /\ writer' = writer
      /\ unannounced' = unannounced /\ dropped' = dropped /\ wins' = wins /\ healed' = healed
      /\ polFaults' = polFaults /\ adrift' = adrift
  BY <1>1 DEF PolBegin
<1>3. /\ q.op = op /\ q.sub = s /\ q.out = <<>> /\ q.pc \in {"lock", "require"}
      /\ q.arg = x /\ q.todo = <<>> /\ q.moved = {} /\ q.first = FALSE
      /\ q \in RequestRecord
  <2>1. IdleReq \in RequestRecord  BY IdleIsRequest, RequestFields
  <2> QED  BY <2>1 DEF IdleReq, RequestRecord, Phase
<1> HIDE DEF q
<1>4. q \in PolicyRequest
  <2>1. <<>> \in Seq(PolicyTuple)  OBVIOUS
  <2> QED  BY <1>1, <1>3, <2>1 DEF PolicyRequest, Locked
<1>5. preq \in [Req -> PolicyRequest] /\ preq[r] \in PolicyRequest
  BY DEF PolicyInv, PolicyTypes
<1>6. /\ PolicyTypes' /\ WriterCommits' /\ ModesHeld' /\ StoredValid' /\ ApplyReady'
      /\ EnforcerIsStore' /\ ClaimOpen' /\ ClaimRepairs' /\ ClaimHeals'
  <2>1. q.pc \notin Locked /\ preq[r].pc \notin Locked  BY <1>2, <1>3 DEF Locked
  <2> QED  BY <2>1, <1>2, <1>3, <1>4, RequestMoves
<1>7. PolicyCounters'
  BY <1>2, <1>5, PolicyAssumption DEF PolicyInv, PolicyCounters
<1>8. ChangesAnnounced'
  <2>1. preq[r].out = <<>> /\ preq[r].moved = {}  BY <1>2, <1>5, RequestFields
  <2>2. Unsent(q) = {} /\ Sending[r] = {}
    BY <1>3, <2>1, ElementsEmpty DEF Unsent, Sending
  <2>3. Sending' = [Sending EXCEPT ![r] = {}]  BY <1>2, <1>5, <2>2, SendingMoves
  <2>4. Sending' = Sending  BY <2>2, <2>3 DEF Sending
  <2> QED  BY <1>2, <2>4, AnnouncedPerRequest, AnnouncedPerRequestNext DEF PolicyInv
<1> QED  BY <1>6, <1>7, <1>8 DEF PolicyInv

LEMMA RequireStep ==
    ASSUME PolicyInv, NEW r \in Req, PolRequire(r)
    PROVE  PolicyInv'
<1>0. preq \in [Req -> PolicyRequest] /\ preq[r] \in PolicyRequest
  BY DEF PolicyInv, PolicyTypes
<1>1. /\ polMode' = polMode /\ stored' = stored /\ enforced' = enforced /\ writer' = writer
      /\ unannounced' = unannounced /\ dropped' = dropped /\ wins' = wins /\ healed' = healed
      /\ polFaults' = polFaults /\ edits' = edits /\ adrift' = adrift
      /\ preq[r].pc = "require"
      /\ \/ preq' = [preq EXCEPT ![r] = [preq[r] EXCEPT !.pc = "lock"]]
         \/ preq' = [preq EXCEPT ![r] = IdleReq]
  BY DEF PolRequire
<1>2. PICK q \in PolicyRequest :
        /\ preq' = [preq EXCEPT ![r] = q] /\ q.pc \in {"idle", "lock"} /\ q.out = <<>>
        /\ q.pc # "idle" => q.op = preq[r].op
  <2>1. CASE preq' = [preq EXCEPT ![r] = IdleReq]
    BY <2>1, IdleIsRequest, RequestFields
  <2>2. CASE preq' = [preq EXCEPT ![r] = [preq[r] EXCEPT !.pc = "lock"]]
    <3> DEFINE q == [preq[r] EXCEPT !.pc = "lock"]
    <3>0. preq[r].op # "import" /\ preq[r].moved = {}  BY <1>0, <1>1, RequestFields
    <3>1. q \in RequestRecord /\ q.pc = "lock" /\ q.op = preq[r].op /\ q.out = <<>>
          /\ q.sub = preq[r].sub /\ q.arg = preq[r].arg /\ q.todo = preq[r].todo
          /\ q.moved = preq[r].moved /\ q.first = preq[r].first
      BY <1>0, <1>1, RequestFields DEF RequestRecord, Phase
    <3>2. preq' = [preq EXCEPT ![r] = q]  BY <2>2
    <3> HIDE DEF q
    <3>3. q \in PolicyRequest
      BY <3>0, <3>1, <1>0, <1>1, RequestFields DEF PolicyRequest, Locked
    <3> QED  BY <3>1, <3>2, <3>3
  <2> QED  BY <1>1, <2>1, <2>2
<1>3. polMode # "down" /\ (preq[r].op = "import" <=> polMode = "import")
  BY <1>1 DEF PolicyInv, ModesHeld
<1>4. /\ PolicyTypes' /\ WriterCommits' /\ ModesHeld' /\ StoredValid' /\ ApplyReady'
      /\ EnforcerIsStore' /\ ClaimOpen' /\ ClaimRepairs' /\ ClaimHeals'
  <2>1. q.pc \notin Locked /\ preq[r].pc \notin Locked  BY <1>1, <1>2 DEF Locked
  <2> QED  BY <2>1, <1>1, <1>2, <1>3, RequestMoves
<1>5. PolicyCounters'
  BY <1>0, <1>1, <1>2 DEF PolicyInv, PolicyCounters
<1>6. ChangesAnnounced'
  <2>1. preq[r].out = <<>> /\ preq[r].moved = {} /\ q.moved = {}
    BY <1>0, <1>1, <1>2, RequestFields
  <2>2. Unsent(q) = {} /\ Sending[r] = {}
    BY <1>2, <2>1, ElementsEmpty DEF Unsent, Sending
  <2>3. Sending' = [Sending EXCEPT ![r] = {}]  BY <1>0, <1>2, <2>2, SendingMoves
  <2>4. Sending' = Sending  BY <2>2, <2>3 DEF Sending
  <2> QED  BY <1>1, <2>4, AnnouncedPerRequest, AnnouncedPerRequestNext DEF PolicyInv
<1> QED  BY <1>4, <1>5, <1>6 DEF PolicyInv

\* The write lock: the plan of a claim is made while nobody else can write.
LEMMA LockStep ==
    ASSUME PolicyInv, NEW r \in Req, PolLock(r)
    PROVE  PolicyInv'
<1> DEFINE plan == IF preq[r].op = "claim" THEN ClaimPlan(preq[r].sub)
                   ELSE IF preq[r].op = "import" THEN preq[r].todo ELSE <<preq[r].arg>>
           won == preq[r].op = "claim" /\ ~IsRule(Head(plan))
           q == [preq[r] EXCEPT !.pc = "commit", !.todo = plan, !.first = won]
<1>0. preq \in [Req -> PolicyRequest] /\ preq[r] \in PolicyRequest
  BY DEF PolicyInv, PolicyTypes
<1>1. /\ polMode' = polMode /\ stored' = stored /\ enforced' = enforced /\ adrift' = adrift
      /\ unannounced' = unannounced /\ dropped' = dropped /\ wins' = wins /\ healed' = healed
      /\ polFaults' = polFaults /\ edits' = edits
      /\ preq[r].pc = "lock" /\ writer = Free /\ writer' = r
  BY DEF PolLock
<1>2. preq' = [preq EXCEPT ![r] = q]  BY <1>0 DEF PolLock
<1>3. /\ plan \in Seq(PolicyArg) /\ plan # <<>>
      /\ preq[r].op = "claim" => Seeds \subseteq ToSet(plan)
      /\ won => Members(enforced, Superadmin) = {}
      /\ preq[r].op \in {"claim", "import", "add_rule", "assign"} => plan \in Seq(PolicyTuple)
  <2>0. Seq(PolicyTuple) \subseteq Seq(PolicyArg)  BY ArgParts
  <2>1. CASE preq[r].op = "claim"
    <3>1. plan = ClaimPlan(preq[r].sub) /\ preq[r].sub \in PolicySubject
      BY <2>1, <1>0, RequestFields
    <3>2. CASE Members(enforced, Superadmin) = {}
      <4>1. plan = << <<"g", preq[r].sub, Superadmin>> >> \o SeedRules
        BY <3>1, <3>2 DEF ClaimPlan
      <4> HIDE DEF plan
      <4> QED  BY <4>1, <3>1, <3>2, <2>0, SeedsPlanned
    <3>3. CASE Members(enforced, Superadmin) # {}
      <4>1. plan = SeedRules  BY <3>1, <3>3 DEF ClaimPlan
      <4> HIDE DEF plan
      <4> QED  BY <4>1, <2>0, SeedsPlanned DEF Seeds
    <3> QED  BY <3>2, <3>3
  <2>2. CASE preq[r].op = "import"
    <3>1. plan = preq[r].todo /\ plan \in Seq(PolicyTuple) /\ plan # <<>>
      BY <2>2, <1>0, <1>1, RequestFields DEF Removal
    <3> QED  BY <2>0, <2>2, <3>1
  <2>3. CASE preq[r].op \notin {"claim", "import"}
    <3>1. /\ plan = <<preq[r].arg>> /\ preq[r].arg \in PolicyArg
          /\ preq[r].op \in {"add_rule", "assign"} => preq[r].arg \in PolicyTuple
      BY <2>3, <1>0, RequestFields
    <3> HIDE DEF plan
    <3>2. plan \in Seq(PolicyArg) /\ plan # <<>>  BY <3>1, ElementsOne
    <3>3. preq[r].op \in {"add_rule", "assign"} => plan \in Seq(PolicyTuple)
      BY <3>1, ElementsOne
    <3>4. ~won  BY <2>3
    <3> QED  BY <2>3, <3>2, <3>3, <3>4
  <2> QED  BY <2>1, <2>2, <2>3
<1>4. won \in BOOLEAN /\ (won => preq[r].op = "claim")  OBVIOUS
<1> HIDE DEF plan, won
<1>5. /\ q \in RequestRecord /\ q.pc = "commit" /\ q.todo = plan /\ q.op = preq[r].op
      /\ q.first = won /\ q.out = preq[r].out /\ q.sub = preq[r].sub
      /\ q.arg = preq[r].arg /\ q.moved = preq[r].moved
  BY <1>0, <1>3, <1>4, RequestFields DEF RequestRecord, Phase
<1> HIDE DEF q
<1>6. q \in PolicyRequest /\ q.out = <<>> /\ q.moved = {} /\ preq[r].moved = {}
  <2>1. q.out = <<>> /\ q.moved = {} /\ preq[r].moved = {}
    BY <1>0, <1>1, <1>5, RequestFields
  <2>2. q.op \in PolicyOp /\ q.op # "none"  BY <1>0, <1>1, <1>5, RequestFields
  <2>3. q.op \notin Removal => plan \in Seq(PolicyTuple)
    BY <2>2, <1>3, <1>5 DEF PolicyOp, Removal
  <2>4. q.first => q.op = "claim"  BY <1>4, <1>5, Zenon
  <2> QED
    BY <2>1, <2>2, <2>3, <2>4, <1>0, <1>3, <1>5, RequestFields DEF PolicyRequest, Locked
<1>7. polMode # "down" /\ (preq[r].op = "import" <=> polMode = "import")
  BY <1>1 DEF PolicyInv, ModesHeld
<1>8. PolicyTypes'  BY <1>0, <1>1, <1>2, <1>6 DEF PolicyInv, PolicyTypes
<1>9. PolicyCounters'  BY <1>0, <1>1, <1>2 DEF PolicyInv, PolicyCounters
<1>10. WriterCommits'
  BY <1>0, <1>1, <1>2, <1>5, PolicyAssumption DEF PolicyInv, WriterCommits, Locked
<1>11. ModesHeld'  BY <1>0, <1>1, <1>2, <1>5, <1>7 DEF PolicyInv, ModesHeld
<1>12. (StoredValid /\ ClaimHeals)'
  BY <1>1 DEF PolicyInv, StoredValid, ClaimHeals
<1>13. ClaimOpen'
  <2>1. won => wins = 0  BY <1>3, <1>7 DEF PolicyInv, ClaimOpen
  <2> QED  BY <2>1, <1>0, <1>1, <1>2, <1>5 DEF PolicyInv, ClaimOpen
<1>14. ClaimRepairs'
  BY <1>0, <1>1, <1>2, <1>3, <1>5 DEF PolicyInv, ClaimRepairs
<1>15. ChangesAnnounced'
  <2>1. Unsent(q) = Sending[r]  BY <1>5 DEF Unsent, Sending
  <2>2. Sending' = Sending  BY <1>0, <1>2, <2>1, SendingMoves DEF Sending
  <2> QED  BY <1>1, <2>2, AnnouncedPerRequest, AnnouncedPerRequestNext DEF PolicyInv
<1>16. ApplyReady'
  BY <1>0, <1>1, <1>2, <1>5 DEF PolicyInv, ApplyReady, Names
<1>17. EnforcerIsStore'
  <2>2. Moving' = Moving  BY <1>0, <1>2, <1>6, NothingMoves
  <2> QED  BY <1>1, <2>2, MatchPerTuple, MatchPerTupleNext DEF PolicyInv, Differs
<1> QED
  BY <1>8, <1>9, <1>10, <1>11, <1>12, <1>13, <1>14, <1>15, <1>16, <1>17 DEF PolicyInv

\* A call into the enforcer that returns: what it changed in the memory is to
\* be announced, with what the request had to announce already.
LEMMA ReturnedRequest ==
    ASSUME PolicyInv, NEW r \in Req, NEW change \in SUBSET PolicyTuple,
           preq[r].pc \in Locked, Returned(r, change),
           \A t \in change : Names(preq[r], t)
    PROVE  LET q == preq[r]
               last == Tail(q.todo) = <<>> \/ q.op = "import"
           IN  \E n \in PolicyRequest :
                /\ preq' = [preq EXCEPT ![r] = n]
                /\ UNION ToSet(q.out) \subseteq Unsent(n) /\ change \subseteq Unsent(n)
                /\ n.moved = {} /\ n.pc # "apply"
                /\ n.pc # "idle" => n.op = q.op
                /\ n.pc = "commit" <=> ~last
                /\ n.pc = "commit" => n.todo = Tail(q.todo) /\ n.first = q.first
                /\ writer' = IF last THEN Free ELSE writer
                /\ polMode' = polMode \/ (polMode' = "down" /\ n.pc = "idle" /\ q.op = "import")
<1> DEFINE q == preq[r]
           rest == Tail(q.todo)
           more == AnnounceOp(q, change)
           out == q.out \o more
           last == rest = <<>> \/ q.op = "import"
           next == [q EXCEPT !.todo = rest, !.moved = {}]
<1>0. preq \in [Req -> PolicyRequest] /\ q \in PolicyRequest  BY DEF PolicyInv, PolicyTypes
<1>1. q.todo \in Seq(PolicyArg) /\ q.todo # <<>>  BY <1>0, RequestFields
<1>2. /\ rest \in Seq(PolicyArg) /\ Head(q.todo) \in PolicyArg
      /\ q.op \notin Removal => rest \in Seq(PolicyTuple)
  <2>1. rest \in Seq(PolicyArg) /\ Head(q.todo) \in PolicyArg  BY <1>1, ElementsHead
  <2>2. ASSUME q.op \notin Removal PROVE rest \in Seq(PolicyTuple)
    <3>1. q.todo \in Seq(PolicyTuple)  BY <2>2, <1>0, RequestFields
    <3> QED  BY <3>1, <1>1, ElementsHead
  <2> QED  BY <2>1, <2>2
<1>3. q.out \in Seq(SUBSET PolicyArg) /\ q.moved \subseteq PolicyTuple /\ q.pc # "idle"
      /\ q.op # "none"
  BY <1>0, RequestFields DEF Locked
<1>4. \/ more = <<>> /\ change = {}
      \/ \E e \in SUBSET PolicyArg : more = <<e>> /\ change \subseteq e
  <2>1. CASE q.first /\ ~IsRule(Head(q.todo))
    <3>1. more = <<{Head(q.todo)}>>  BY <2>1 DEF AnnounceOp
    <3>2. q.op = "claim"  BY <2>1, <1>0, RequestFields
    <3>3. change \subseteq {Head(q.todo)}  BY <3>2 DEF Names
    <3> QED  BY <3>1, <3>3, <1>2
  <2>2. CASE ~(q.first /\ ~IsRule(Head(q.todo))) /\ change = {}
    BY <2>2 DEF AnnounceOp
  <2>3. CASE ~(q.first /\ ~IsRule(Head(q.todo))) /\ change # {}
    <3> DEFINE e == {t \in change \cup q.moved : Names(q, t)}
    <3>1. more = <<e>>  BY <2>3 DEF AnnounceOp
    <3>2. change \subseteq e  OBVIOUS
    <3>3. e \in SUBSET PolicyArg  BY <1>3, ArgParts
    <3> QED  BY <3>1, <3>2, <3>3
  <2> QED  BY <2>1, <2>2, <2>3
<1> HIDE DEF rest, more
<1>5. /\ out \in Seq(SUBSET PolicyArg)
      /\ UNION ToSet(q.out) \subseteq UNION ToSet(out) /\ change \subseteq UNION ToSet(out)
      /\ q.op = "import" => out = <<>> \/ Tail(out) = <<>>
  <2>0. q.op = "import" => q.out = <<>>  BY <1>0, RequestFields
  <2>1. CASE more = <<>> /\ change = {}
    <3>1. out = q.out  BY <2>1, <1>3
    <3> HIDE DEF out
    <3> QED  BY <2>0, <2>1, <1>3, <3>1
  <2>2. CASE \E e \in SUBSET PolicyArg : more = <<e>> /\ change \subseteq e
    <3>1. PICK e \in SUBSET PolicyArg : more = <<e>> /\ change \subseteq e  BY <2>2
    <3>2. more \in Seq(SUBSET PolicyArg) /\ ToSet(more) = {e}  BY <3>1, ElementsOne
    <3>3. out \in Seq(SUBSET PolicyArg) /\ ToSet(out) = ToSet(q.out) \cup {e}
      BY <3>2, <1>3, ElementsConcat
    <3>4. q.op = "import" => Tail(out) = <<>>
      <4>1. <<>> \o <<e>> = <<e>> /\ Tail(<<e>>) = <<>>  OBVIOUS
      <4> QED  BY <4>1, <3>1, <2>0
    <3> HIDE DEF out
    <3>5. UNION ToSet(q.out) \subseteq UNION ToSet(out) /\ e \subseteq UNION ToSet(out)
      <4>1. ToSet(q.out) \subseteq ToSet(out) /\ e \in ToSet(out)  BY <3>3
      <4> HIDE DEF q
      <4> QED  BY <4>1, Zenon
    <3>6. change \subseteq UNION ToSet(out)  BY <3>1, <3>5, Zenon
    <3> QED  BY <3>3, <3>4, <3>5, <3>6
  <2> QED  BY <1>4, <2>1, <2>2
<1>6. /\ preq' = [preq EXCEPT ![r] =
            IF ~last THEN [next EXCEPT !.pc = "commit", !.out = out]
            ELSE IF out # <<>> THEN [next EXCEPT !.pc = "announce", !.out = out]
            ELSE IF rest # <<>> THEN [next EXCEPT !.pc = "lock"]
            ELSE IdleReq]
      /\ writer' = IF last THEN Free ELSE writer
      /\ polMode' = IF q.op = "import" /\ rest = <<>> /\ out = <<>> THEN "down" ELSE polMode
  BY DEF Returned, rest, more
<1>7. /\ next \in RequestRecord /\ next.todo = rest /\ next.moved = {} /\ next.op = q.op
      /\ next.sub = q.sub /\ next.arg = q.arg /\ next.first = q.first /\ next.out = q.out
  BY <1>0, <1>2, RequestFields DEF RequestRecord
<1> HIDE DEF out, q, next
<1>8. CASE ~last
  <2> DEFINE n == [next EXCEPT !.pc = "commit", !.out = out]
  <2>1. /\ n \in RequestRecord /\ n.pc = "commit" /\ n.out = out /\ n.op = q.op /\ n.arg = q.arg
        /\ n.sub = q.sub /\ n.todo = rest /\ n.first = q.first /\ n.moved = {}
    BY <1>5, <1>7 DEF RequestRecord, Phase
  <2>2. preq' = [preq EXCEPT ![r] = n]  BY <1>6, <1>8
  <2> HIDE DEF n
  <2>3. n \in PolicyRequest
    BY <2>1, <1>0, <1>2, <1>3, <1>8, RequestFields DEF PolicyRequest, Locked
  <2>4. UNION ToSet(q.out) \subseteq Unsent(n) /\ change \subseteq Unsent(n)  BY <2>1, <1>5 DEF Unsent
  <2>5. polMode' = polMode  BY <1>6, <1>8
  <2> QED  BY <2>1, <2>2, <2>3, <2>4, <2>5, <1>6, <1>8 DEF q, rest
<1>9. CASE last /\ out # <<>>
  <2> DEFINE n == [next EXCEPT !.pc = "announce", !.out = out]
  <2>1. /\ n \in RequestRecord /\ n.pc = "announce" /\ n.out = out /\ n.op = q.op
        /\ n.sub = q.sub /\ n.todo = rest /\ n.first = q.first /\ n.moved = {} /\ n.arg = q.arg
    BY <1>5, <1>7 DEF RequestRecord, Phase
  <2>2. preq' = [preq EXCEPT ![r] = n]  BY <1>6, <1>9
  <2> HIDE DEF n
  <2>3. n \in PolicyRequest
    BY <2>1, <1>0, <1>2, <1>3, <1>5, <1>9, RequestFields DEF PolicyRequest, Locked
  <2>4. UNION ToSet(q.out) \subseteq Unsent(n) /\ change \subseteq Unsent(n)  BY <2>1, <1>5 DEF Unsent
  <2>5. polMode' = polMode  BY <1>6, <1>9
  <2> QED  BY <2>1, <2>2, <2>3, <2>4, <2>5, <1>6, <1>9 DEF q, rest
<1>10. CASE last /\ out = <<>> /\ rest # <<>>
  <2> DEFINE n == [next EXCEPT !.pc = "lock"]
  <2>0. UNION ToSet(q.out) = {} /\ change = {} /\ q.op = "import"
    BY <1>5, <1>10, ElementsEmpty
  <2>1. /\ n \in RequestRecord /\ n.pc = "lock" /\ n.out = q.out /\ n.op = q.op /\ n.arg = q.arg
        /\ n.sub = q.sub /\ n.todo = rest /\ n.first = q.first /\ n.moved = {}
    BY <1>7 DEF RequestRecord, Phase
  <2>2. preq' = [preq EXCEPT ![r] = n]  BY <1>6, <1>10
  <2> HIDE DEF n
  <2>3. q.out = <<>>  BY <2>0, <1>0, RequestFields DEF q
  <2>4. n \in PolicyRequest
    BY <2>0, <2>1, <2>3, <1>0, <1>2, <1>3, <1>10, RequestFields DEF PolicyRequest, Locked, Removal
  <2>5. polMode' = polMode  BY <1>6, <1>10
  <2> QED  BY <2>0, <2>1, <2>2, <2>4, <2>5, <1>6, <1>10 DEF q, rest
<1>11. CASE last /\ out = <<>> /\ rest = <<>>
  <2>1. preq' = [preq EXCEPT ![r] = IdleReq]  BY <1>6, <1>11
  <2>2. UNION ToSet(q.out) = {} /\ change = {}  BY <1>5, <1>11, ElementsEmpty
  <2> QED  BY <2>1, <2>2, <1>6, <1>11, IdleIsRequest DEF q, rest
<1> QED  BY <1>8, <1>9, <1>10, <1>11

\* What the request that moves leaves alone.
LEMMA OthersStay ==
    ASSUME PolicyInv, NEW r \in Req, NEW n, preq' = [preq EXCEPT ![r] = n], writer = r
    PROVE  /\ preq'[r] = n
           /\ \A s \in Req : s # r => /\ preq'[s] = preq[s] /\ preq[s].pc \notin Locked
                                      /\ preq[s].moved = {}
<1>0. preq \in [Req -> PolicyRequest]  BY DEF PolicyInv, PolicyTypes
<1>1. preq'[r] = n /\ \A s \in Req : s # r => preq'[s] = preq[s]  BY <1>0
<1>2. \A s \in Req : s # r => preq[s].pc \notin Locked  BY DEF PolicyInv, WriterCommits
<1>3. \A s \in Req : s # r => preq[s].moved = {}
  BY <1>0, <1>2, RequestFields DEF Locked
<1> QED  BY <1>1, <1>2, <1>3

\* The modes, when one request moves on and an import may end with it.
LEMMA ModesMove ==
    ASSUME PolicyInv, NEW r \in Req, NEW n, preq' = [preq EXCEPT ![r] = n],
           preq[r].pc # "idle", n.pc # "idle" => n.op = preq[r].op,
           polMode' = polMode \/ (polMode' = "down" /\ n.pc = "idle" /\ preq[r].op = "import")
    PROVE  ModesHeld'
<1>0. preq \in [Req -> PolicyRequest]  BY DEF PolicyInv, PolicyTypes
<1>1. polMode # "down" /\ (preq[r].op = "import" <=> polMode = "import")
  BY DEF PolicyInv, ModesHeld
<1>2. polMode = "import" => \A s \in Req : s # r => preq[s].pc = "idle"
  BY DEF PolicyInv, ModesHeld
<1>3. \A s \in Req : s # r /\ preq[s].pc # "idle" =>
        (preq[s].op = "import" <=> polMode = "import")
  BY DEF PolicyInv, ModesHeld
<1>4. preq'[r] = n /\ \A s \in Req : s # r => preq'[s] = preq[s]  BY <1>0
<1> QED  BY <1>1, <1>2, <1>3, <1>4 DEF ModesHeld

\* The parts of the invariant that a returning call touches, whether it
\* changed the memory or not.
LEMMA ReturnedMoves ==
    ASSUME PolicyInv, NEW r \in Req, NEW change \in SUBSET PolicyTuple,
           preq[r].pc \in Locked, Returned(r, change),
           \A t \in change : Names(preq[r], t),
           stored' = stored, enforced' \subseteq PolicyTuple,
           edits' = edits, polFaults' = polFaults,
           preq[r].op = "claim" => Seeds \subseteq stored \cup ToSet(Tail(preq[r].todo))
    PROVE  /\ PolicyTypes' /\ PolicyCounters' /\ WriterCommits' /\ ModesHeld' /\ StoredValid'
           /\ ApplyReady' /\ ClaimOpen' /\ ClaimRepairs' /\ ClaimHeals'
           /\ \A s \in Req : Moving'[s] = {}
           /\ \A s \in Req : Sending[s] \subseteq Sending'[s] \cup preq[r].moved
           /\ change \subseteq Sending'[r]
<1> DEFINE q == preq[r]
           last == Tail(q.todo) = <<>> \/ q.op = "import"
<1>0. preq \in [Req -> PolicyRequest] /\ q \in PolicyRequest  BY DEF PolicyInv, PolicyTypes
<1>1. PICK n \in PolicyRequest :
        /\ preq' = [preq EXCEPT ![r] = n]
        /\ UNION ToSet(q.out) \subseteq Unsent(n) /\ change \subseteq Unsent(n)
        /\ n.moved = {} /\ n.pc # "apply"
        /\ n.pc # "idle" => n.op = q.op
        /\ n.pc = "commit" <=> ~last
        /\ n.pc = "commit" => n.todo = Tail(q.todo) /\ n.first = q.first
        /\ writer' = IF last THEN Free ELSE writer
        /\ polMode' = polMode \/ (polMode' = "down" /\ n.pc = "idle" /\ q.op = "import")
  BY ReturnedRequest
<1>2. /\ wins' = IF Members(enforced', Superadmin) = {} THEN 0
                 ELSE IF last /\ q.first THEN wins + 1 ELSE wins
      /\ healed' = (healed \/ (last /\ q.op = "claim"))
  BY DEF Returned
<1>3. writer = r /\ edits >= 1 /\ (q.first => wins = 0) /\ wins \in 0..1 /\ q.pc # "idle"
  BY DEF PolicyInv, PolicyCounters, ClaimOpen, WriterCommits, Locked
<1>4. /\ preq'[r] = n
      /\ \A s \in Req : s # r => /\ preq'[s] = preq[s] /\ preq[s].pc \notin Locked
                                 /\ preq[s].moved = {}
  BY <1>1, <1>3, OthersStay
<1>5. q.op = "claim" => Seeds \subseteq stored \cup ToSet(Tail(q.todo))  OBVIOUS
<1>m. ModesHeld'  BY <1>1, <1>3, ModesMove
<1> HIDE DEF q, last
<1>6. PolicyTypes'
  <2>1. healed' \in BOOLEAN  BY <1>2, Zenon
  <2>2. polMode' \in {"serve", "import", "down"} /\ writer' \in Req \cup {Free}
    BY <1>1, <1>3 DEF PolicyInv, PolicyTypes
  <2>3. stored' \subseteq PolicyTuple  BY DEF PolicyInv, PolicyTypes
  <2> QED  BY <2>1, <2>2, <2>3, <1>0, <1>1 DEF PolicyTypes
<1>7. PolicyCounters'
  <2>1. wins' \in 0..1 /\ (wins' = 1 => edits' >= 1)  BY <1>2, <1>3
  <2>2. \A s \in Req : preq'[s].pc # "idle" => edits' >= 1
    BY <1>3
  <2> QED  BY <2>1, <2>2 DEF PolicyInv, PolicyCounters
<1>8. WriterCommits'
  BY <1>1, <1>3, <1>4, PolicyAssumption DEF WriterCommits, Locked
<1>9. StoredValid'  BY DEF PolicyInv, StoredValid
<1>10. ApplyReady'  BY <1>1, <1>4 DEF ApplyReady, Locked
<1>11. ClaimOpen'
  <2>1. Members(enforced', Superadmin) = {} => wins' = 0  BY <1>2
  <2>2. Members(enforced, Superadmin)' = Members(enforced', Superadmin)  BY DEF Members
  <2>3. n.pc \in Locked /\ n.first => wins' = 0  BY <1>1, <1>2, <1>3 DEF Locked
  <2> QED  BY <2>1, <2>2, <2>3, <1>4 DEF ClaimOpen
<1>12. ClaimRepairs'
  BY <1>1, <1>4, <1>5 DEF ClaimRepairs, Locked
<1>13. ClaimHeals'
  <2> SUFFICES ASSUME healed' PROVE Seeds \subseteq stored
    BY DEF ClaimHeals, Seeds
  <2>1. CASE healed  BY <2>1 DEF PolicyInv, ClaimHeals, Seeds
  <2>2. CASE last /\ q.op = "claim"
    <3>1. Tail(q.todo) = <<>>  BY <2>2 DEF last
    <3> QED  BY <2>2, <3>1, <1>5, ElementsEmpty
  <2> QED  BY <2>1, <2>2, <1>2
<1>14. \A s \in Req : Moving'[s] = {}  BY <1>1, <1>4 DEF Moving
<1>15. Sending' = [Sending EXCEPT ![r] = Unsent(n)]  BY <1>0, <1>1, SendingMoves
<1>16. Sending[r] = q.moved \cup UNION ToSet(q.out)  BY DEF Sending, Unsent, q
<1>17. \A s \in Req : Sending[s] \subseteq Sending'[s] \cup q.moved
  BY <1>1, <1>15, <1>16 DEF Sending
<1>18. change \subseteq Sending'[r]
  <2>1. change \subseteq Unsent(n)  BY <1>1
  <2>2. Sending'[r] = Unsent(n)  BY <1>15 DEF Sending
  <2> QED  BY <2>1, <2>2
<1> QED
  BY <1>6, <1>7, <1>8, <1>m, <1>9, <1>10, <1>11, <1>12, <1>13, <1>14, <1>17, <1>18 DEF q

\* The transaction: what it stages, and what is left of the plan of a claim.
LEMMA CommitTuples ==
    ASSUME PolicyInv, NEW r \in Req, preq[r].pc = "commit", EncodeRule(preq[r])
    PROVE  LET q == preq[r]
               adds == AdapterAdds(q)
               gone == AdapterRemoves(q)
           IN  /\ gone \subseteq stored /\ adds \subseteq PolicyTuple
               /\ \A t \in adds : Validate(t)
               /\ q.op \in Removal => adds = {} /\ \A t \in stored \ gone : ~Names(q, t)
               /\ q.op = "delete_group" => \A t \in gone : Names(q, t)
               /\ q.op \notin Removal =>
                    /\ gone = {} /\ adds \subseteq {Head(q.todo)}
                    /\ Head(q.todo) \in Seeds => Head(q.todo) \in stored \cup adds
<1> DEFINE q == preq[r]
           x == Head(q.todo)
           adds == AdapterAdds(q)
           gone == AdapterRemoves(q)
<1>0. q \in PolicyRequest  BY DEF PolicyInv, PolicyTypes
<1>1. CASE q.op \in Removal
  <2>1. adds = {}  BY <1>1 DEF AdapterAdds
  <2>2. CASE q.op = "delete_group"
    <3>1. gone = {t \in stored : Names(q, t)}  BY <2>2 DEF AdapterRemoves
    <3> QED  BY <2>1, <2>2, <3>1, <1>1
  <2>3. CASE q.op \in {"remove_rule", "unassign"}
    <3>1. gone = {t \in stored : RuleKey(t) = RuleKey(x)}
      BY <2>3 DEF AdapterRemoves, KeyHeld
    <3>2. \A t : Names(q, t) <=> t = x  BY <2>3 DEF Names
    <3> HIDE DEF gone, adds, x, q
    <3>3. \A t \in stored \ gone : ~Names(q, t)  BY <3>1, <3>2
    <3>4. gone \subseteq stored  BY <3>1
    <3> QED  BY <2>1, <2>3, <3>3, <3>4, <1>1 DEF gone, adds, x, q
  <2> QED  BY <1>1, <2>2, <2>3 DEF Removal
<1>2. CASE q.op \notin Removal
  <2>1. gone = {}  BY <1>2 DEF AdapterRemoves, Removal
  <2>2. adds = IF KeyHeld(q) # {} THEN {} ELSE {x}  BY <1>2 DEF AdapterAdds
  <2>3. x \in PolicyTuple /\ Validate(x)
    <3>1. q.todo \in Seq(PolicyTuple) /\ q.todo # <<>>
      BY <1>0, <1>2, RequestFields DEF Locked
    <3>2. x \in PolicyTuple  BY <3>1, ElementsHead
    <3> QED  BY <3>2, <1>2 DEF EncodeRule
  <2>4. ASSUME x \in Seeds, KeyHeld(q) # {} PROVE x \in stored
    <3>1. PICK t \in stored : RuleKey(t) = RuleKey(x)  BY <2>4 DEF KeyHeld
    <3>2. t \in PolicyTuple /\ Validate(t)  BY DEF PolicyInv, PolicyTypes, StoredValid
    <3>3. t = x  BY <2>4, <3>1, <3>2, PolicyAssumption DEF Seeds
    <3> QED  BY <3>3
  <2> HIDE DEF gone, adds, x, q
  <2> QED  BY <2>1, <2>2, <2>3, <2>4, <1>2 DEF gone, adds, x, q
<1> QED  BY <1>1, <1>2

LEMMA CommitStep ==
    ASSUME PolicyInv, NEW r \in Req, PolCommit(r)
    PROVE  PolicyInv'
<1> DEFINE q == preq[r]
           adds == AdapterAdds(q)
           gone == AdapterRemoves(q)
           change == adds \cup gone
<1>0. preq \in [Req -> PolicyRequest] /\ q \in PolicyRequest  BY DEF PolicyInv, PolicyTypes
<1>1. /\ q.pc = "commit" /\ EncodeRule(q)
      /\ stored' = (stored \ gone) \cup adds /\ unannounced' = unannounced \cup change
      /\ enforced' = enforced /\ dropped' = dropped /\ adrift' = adrift
      /\ edits' = edits /\ polFaults' = polFaults
  BY DEF PolCommit
<1>2. /\ gone \subseteq stored /\ adds \subseteq PolicyTuple
      /\ \A t \in adds : Validate(t)
      /\ q.op \in Removal => adds = {} /\ \A t \in stored \ gone : ~Names(q, t)
      /\ q.op = "delete_group" => \A t \in gone : Names(q, t)
      /\ q.op \notin Removal =>
            /\ gone = {} /\ adds \subseteq {Head(q.todo)}
            /\ Head(q.todo) \in Seeds => Head(q.todo) \in stored \cup adds
  BY <1>1, CommitTuples
<1>3. /\ q.todo \in Seq(PolicyArg) /\ q.todo # <<>> /\ q.moved = {} /\ q.pc \in Locked
      /\ ToSet(q.todo) = {Head(q.todo)} \cup ToSet(Tail(q.todo))
  <2>1. q.todo \in Seq(PolicyArg) /\ q.todo # <<>> /\ q.moved = {} /\ q.pc \in Locked
    BY <1>0, <1>1, RequestFields DEF Locked
  <2> QED  BY <2>1, ElementsHead
<1>4. q.op = "claim" => Seeds \subseteq stored' \cup ToSet(Tail(q.todo))
  <2> SUFFICES ASSUME q.op = "claim" PROVE Seeds \subseteq stored' \cup ToSet(Tail(q.todo))
    OBVIOUS
  <2>1. gone = {} /\ (Head(q.todo) \in Seeds => Head(q.todo) \in stored \cup adds)
    BY <1>2 DEF Removal
  <2>2. Seeds \subseteq stored \cup ToSet(q.todo)  BY <1>1 DEF PolicyInv, ClaimRepairs
  <2> QED  BY <2>1, <2>2, <1>1, <1>3
<1>5. CASE change = {}
  <2>1. Returned(r, {})  BY <1>5 DEF PolCommit
  <2>2. stored' = stored /\ unannounced' = unannounced  BY <1>1, <1>5
  <2>3. enforced' \subseteq PolicyTuple /\ {} \in SUBSET PolicyTuple
    BY <1>1 DEF PolicyInv, PolicyTypes
  <2>4. /\ PolicyTypes' /\ PolicyCounters' /\ WriterCommits' /\ ModesHeld' /\ StoredValid'
        /\ ApplyReady' /\ ClaimOpen' /\ ClaimRepairs' /\ ClaimHeals'
        /\ \A s \in Req : Moving'[s] = {}
        /\ \A s \in Req : Sending[s] \subseteq Sending'[s] \cup q.moved
    <3>1. \A t \in {} : Names(preq[r], t)  OBVIOUS
    <3> HIDE DEF adds, gone
    <3> QED  BY <2>1, <2>2, <2>3, <3>1, <1>1, <1>3, <1>4, ReturnedMoves
  <2>5. EnforcerIsStore'
    <3>1. \A s \in Req : Moving[s] = {}
      <4>1. \A s \in Req : preq[s].pc # "apply"
        BY <1>1, <1>3 DEF PolicyInv, WriterCommits, Locked
      <4> QED  BY <4>1, <1>0, RequestFields DEF Moving
    <3>2. polMode # "down"  BY <1>1 DEF PolicyInv, ModesHeld
    <3> QED  BY <2>2, <3>1, <3>2, <1>1, MatchPerTuple, MatchPerTupleNext DEF PolicyInv, Differs
  <2>6. ChangesAnnounced'
    BY <2>2, <2>4, <1>1, <1>3, AnnouncedPerRequest, AnnouncedPerRequestNext DEF PolicyInv
  <2> QED  BY <2>4, <2>5, <2>6 DEF PolicyInv
<1>6. CASE change # {}
  <2> DEFINE n == [q EXCEPT !.pc = "apply", !.moved = change]
  <2>1. /\ preq' = [preq EXCEPT ![r] = n] /\ polMode' = polMode /\ writer' = writer
        /\ wins' = wins
        /\ healed' = (healed /\ (q.op \notin Removal \/ change \cap Seeds = {}))
    BY <1>0, <1>6 DEF PolCommit, Seeds
  <2>2. change \subseteq PolicyTuple  BY <1>2 DEF PolicyInv, PolicyTypes
  <2> HIDE DEF change
  <2>3. /\ n \in RequestRecord /\ n.pc = "apply" /\ n.moved = change /\ n.op = q.op
        /\ n.sub = q.sub /\ n.arg = q.arg /\ n.todo = q.todo /\ n.out = q.out
        /\ n.first = q.first
    BY <2>2, <1>0, RequestFields DEF RequestRecord, Phase
  <2>4. writer = r /\ polMode # "down" /\ edits >= 1
    BY <1>1, <1>3 DEF PolicyInv, WriterCommits, ModesHeld, PolicyCounters
  <2> HIDE DEF n, q, adds, gone
  <2>5. n \in PolicyRequest
    BY <2>3, <1>0, <1>1, <1>3, RequestFields DEF PolicyRequest, Locked, q
  <2>6. /\ preq'[r] = n
        /\ \A s \in Req : s # r => /\ preq'[s] = preq[s] /\ preq[s].pc \notin Locked
                                   /\ preq[s].moved = {}
    BY <2>1, <2>4, OthersStay
  <2>7. PolicyTypes'
    <3>1. healed' \in BOOLEAN  BY <2>1, Zenon DEF PolicyInv, PolicyTypes
    <3>2. stored' \subseteq PolicyTuple /\ enforced' \subseteq PolicyTuple
      BY <1>1, <1>2 DEF PolicyInv, PolicyTypes
    <3> QED  BY <3>1, <3>2, <2>1, <2>5, <1>0 DEF PolicyInv, PolicyTypes
  <2>8. PolicyCounters'
    BY <2>1, <2>4, <1>1 DEF PolicyInv, PolicyCounters
  <2>9. WriterCommits'  BY <2>1, <2>3, <2>4, <2>6 DEF WriterCommits, Locked
  <2>10. ModesHeld'  BY <2>1, <2>3, <1>1, ModesMove DEF q
  <2>11. StoredValid'  BY <1>1, <1>2 DEF PolicyInv, StoredValid
  <2>12. ApplyReady'
    <3>1. \A t : Names(n, t) <=> Names(q, t)  BY <2>3 DEF Names
    <3>2. q.op \notin Removal => Head(q.todo) \in stored' /\ change = {Head(q.todo)}
      BY <1>1, <1>2, <1>6 DEF change
    <3>3. q.op \in Removal => \A t \in stored' : ~Names(q, t)  BY <1>1, <1>2
    <3>4. q.op = "delete_group" => \A t \in change : Names(q, t)
      BY <1>2 DEF change, Removal
    <3>5. \A t : Names(preq[r], t)' <=> Names(n, t)  BY <2>6 DEF Names
    <3>6. \A s \in Req : preq'[s].pc = "apply" => s = r  BY <2>6 DEF Locked
    <3>7. ASSUME NEW s \in Req, preq'[s].pc = "apply"
          PROVE  /\ preq'[s].op \notin Removal =>
                     Head(preq'[s].todo) \in stored' /\ preq'[s].moved = {Head(preq'[s].todo)}
                 /\ preq'[s].op \in Removal => \A t \in stored' : ~Names(preq[s], t)'
                 /\ preq'[s].op = "delete_group" => \A t \in preq'[s].moved : Names(preq[s], t)'
      <4>1. s = r /\ preq'[s] = n  BY <3>6, <3>7, <2>6
      <4>2. /\ n.op \notin Removal => Head(n.todo) \in stored' /\ n.moved = {Head(n.todo)}
            /\ n.op \in Removal => \A t \in stored' : ~Names(n, t)
            /\ n.op = "delete_group" => \A t \in n.moved : Names(n, t)
        BY <3>1, <3>2, <3>3, <3>4, <2>3
      <4> QED  BY <4>1, <4>2, <3>5
    <3> QED  BY <3>7 DEF ApplyReady
  <2>13. ClaimOpen'
    <3>1. Members(enforced, Superadmin)' = Members(enforced, Superadmin)
      BY <1>1 DEF Members
    <3>2. q.first => wins = 0  BY <1>3 DEF PolicyInv, ClaimOpen, q
    <3>3. polMode # "down" /\ Members(enforced, Superadmin) = {} => wins = 0
      BY DEF PolicyInv, ClaimOpen
    <3> QED  BY <3>1, <3>2, <3>3, <2>1, <2>3, <2>6 DEF ClaimOpen
  <2>14. ClaimRepairs'
    BY <2>3, <2>6, <1>4 DEF ClaimRepairs, Locked
  <2>15. ClaimHeals'
    <3> SUFFICES ASSUME healed' PROVE Seeds \subseteq stored'
      BY DEF ClaimHeals, Seeds
    <3>1. Seeds \subseteq stored /\ (q.op \notin Removal \/ change \cap Seeds = {})
      BY <2>1 DEF PolicyInv, ClaimHeals, Seeds
    <3>2. gone \cap Seeds = {}  BY <3>1, <1>2 DEF change
    <3> QED  BY <3>1, <3>2, <1>1
  <2>16. EnforcerIsStore'
    <3>1. \A s \in Req : Moving[s] = {}
      BY <2>6, <1>3 DEF Moving, q
    <3>2. Moving'[r] = change  BY <2>3, <2>6 DEF Moving
    <3>3. \A x : Differs(x)' => Differs(x) \/ x \in change
      BY <1>1 DEF Differs, change
    <3>4. \A x : Differs(x) => x \in adrift
      BY <3>1, <2>4, MatchPerTuple DEF PolicyInv
    <3>5. \A x : Differs(x)' => x \in adrift' \/ \E s \in Req : x \in Moving'[s]
      BY <3>2, <3>3, <3>4, <1>1
    <3> QED  BY <3>5, MatchPerTupleNext
  <2>17. ChangesAnnounced'
    <3>1. Sending' = [Sending EXCEPT ![r] = Unsent(n)]  BY <1>0, <2>1, SendingMoves
    <3>2. Unsent(n) = Sending[r] \cup change
      BY <2>3, <1>3 DEF Sending, Unsent, q
    <3>3. \A s \in Req : Sending[s] \subseteq Sending'[s]  BY <3>1, <3>2 DEF Sending
    <3>4. change \subseteq Sending'[r]  BY <3>1, <3>2 DEF Sending
    <3>5. \A x \in unannounced : x \in dropped \/ \E s \in Req : x \in Sending[s]
      BY AnnouncedPerRequest DEF PolicyInv
    <3>6. \A x \in unannounced' : x \in dropped' \/ \E s \in Req : x \in Sending'[s]
      BY <3>3, <3>4, <3>5, <1>1 DEF change
    <3> QED  BY <3>6, AnnouncedPerRequestNext
  <2> QED
    BY <2>7, <2>8, <2>9, <2>10, <2>11, <2>12, <2>13, <2>14, <2>15, <2>16, <2>17
    DEF PolicyInv
<1> QED  BY <1>5, <1>6

\* The memory follows: on the tuples that the call names it agrees with the
\* store again, and a row that went under another key is set adrift.
LEMMA ApplyStep ==
    ASSUME PolicyInv, NEW r \in Req, PolApply(r)
    PROVE  PolicyInv'
<1> DEFINE q == preq[r]
           change == IF q.op \in Removal THEN {t \in enforced : Names(q, t)}
                     ELSE {Head(q.todo)} \ enforced
<1>0. preq \in [Req -> PolicyRequest] /\ q \in PolicyRequest  BY DEF PolicyInv, PolicyTypes
<1>1. /\ q.pc = "apply" /\ Returned(r, change)
      /\ enforced' = IF q.op \in Removal THEN enforced \ change ELSE enforced \cup change
      /\ adrift' = {t \in adrift : ~Names(q, t)}
                     \cup IF q.op = "delete_group" THEN {} ELSE {t \in q.moved : ~Names(q, t)}
      /\ unannounced' = unannounced \cup change
      /\ dropped' = dropped \cup (q.moved \ change)
      /\ stored' = stored /\ edits' = edits /\ polFaults' = polFaults
  BY DEF PolApply
<1>2. /\ q.op \notin Removal => Head(q.todo) \in stored /\ q.moved = {Head(q.todo)}
      /\ q.op \in Removal => \A t \in stored : ~Names(q, t)
      /\ q.op = "delete_group" => \A t \in q.moved : Names(q, t)
  BY <1>1 DEF PolicyInv, ApplyReady
<1>3. q.pc \in Locked /\ polMode # "down" /\ writer = r
  BY <1>1 DEF Locked, PolicyInv, ModesHeld, WriterCommits
<1>4. q.op \notin Removal => \A t : Names(q, t) <=> t = Head(q.todo)
  BY DEF Names, Removal
<1>5. /\ change \in SUBSET PolicyTuple /\ enforced' \subseteq PolicyTuple
      /\ \A t \in change : Names(q, t)
  <2>1. CASE q.op \in Removal  BY <2>1, <1>1 DEF PolicyInv, PolicyTypes
  <2>2. CASE q.op \notin Removal
    <3>1. change \subseteq {Head(q.todo)} /\ enforced' = enforced \cup change  BY <2>2, <1>1
    <3>2. Head(q.todo) \in PolicyTuple  BY <2>2, <1>2 DEF PolicyInv, PolicyTypes
    <3> HIDE DEF change
    <3> QED  BY <2>2, <3>1, <3>2, <1>4 DEF PolicyInv, PolicyTypes
  <2> QED  BY <2>1, <2>2
<1>6. q.op = "claim" => Seeds \subseteq stored \cup ToSet(Tail(q.todo))
  BY <1>1 DEF PolicyInv, ClaimRepairs
<1>7. /\ PolicyTypes' /\ PolicyCounters' /\ WriterCommits' /\ ModesHeld' /\ StoredValid'
      /\ ApplyReady' /\ ClaimOpen' /\ ClaimRepairs' /\ ClaimHeals'
      /\ \A s \in Req : Sending[s] \subseteq Sending'[s] \cup q.moved
      /\ change \subseteq Sending'[r]
  <2> HIDE DEF change
  <2> QED  BY <1>1, <1>3, <1>5, <1>6, ReturnedMoves
<1>8. EnforcerIsStore'
  <2> SUFFICES ASSUME NEW x, Differs(x)' PROVE x \in adrift'
    BY MatchPerTupleNext
  <2>1. ~(x \in enforced' <=> x \in stored)  BY <1>1 DEF Differs
  <2>2. ~Names(q, x)
    <3>1. CASE q.op \in Removal  BY <3>1, <2>1, <1>1, <1>2
    <3>2. CASE q.op \notin Removal  BY <3>2, <2>1, <1>1, <1>2, <1>4
    <3> QED  BY <3>1, <3>2
  <2>3. x \in enforced' <=> x \in enforced
    <3>1. x \notin change  BY <2>2, <1>5
    <3> HIDE DEF change
    <3> QED  BY <3>1, <1>1
  <2>4. x \in adrift \/ x \in q.moved
    <3>1. Differs(x)  BY <2>1, <2>3 DEF Differs
    <3>2. x \in adrift \/ \E s \in Req : x \in Moving[s]
      BY <3>1, <1>3, MatchPerTuple DEF PolicyInv
    <3>3. \A s \in Req : s # r => preq[s].moved = {}
      <4>1. \A s \in Req : s # r => preq[s].pc # "apply"
        BY <1>3 DEF PolicyInv, WriterCommits, Locked
      <4> QED  BY <4>1, <1>0, RequestFields
    <3> QED  BY <3>2, <3>3 DEF Moving
  <2> HIDE DEF change, q
  <2>5. CASE x \in adrift  BY <2>2, <2>5, <1>1
  <2>6. CASE x \in q.moved  BY <2>2, <2>6, <1>1, <1>2
  <2> QED  BY <2>4, <2>5, <2>6
<1>9. ChangesAnnounced'
  <2>1. \A x \in unannounced : x \in dropped \/ \E s \in Req : x \in Sending[s]
    BY AnnouncedPerRequest DEF PolicyInv
  <2> HIDE DEF change, q
  <2>2. \A x \in unannounced' : x \in dropped' \/ \E s \in Req : x \in Sending'[s]
    BY <2>1, <1>1, <1>7
  <2> QED  BY <2>2, AnnouncedPerRequestNext
<1> QED  BY <1>7, <1>8, <1>9 DEF PolicyInv

\* An announcement, and the end of a request that drops the ones that are
\* left: the request moves on to n, and the process of an import may end with
\* it.
LEMMA ReleaseMoves ==
    ASSUME PolicyInv, NEW r \in Req, NEW n \in PolicyRequest,
           preq' = [preq EXCEPT ![r] = n],
           stored' = stored, enforced' = enforced, wins' = wins, healed' = healed,
           adrift' = adrift \cup preq[r].moved,
           edits' = edits, polFaults' \in 0..MaxPolFaults,
           preq[r].pc # "idle", n.pc \notin Locked,
           writer' = IF writer = r THEN Free ELSE writer,
           n.pc # "idle" => n.op = preq[r].op,
           polMode' = polMode \/ (polMode' = "down" /\ n.pc = "idle" /\ preq[r].op = "import")
    PROVE  /\ PolicyTypes' /\ PolicyCounters' /\ WriterCommits' /\ ModesHeld' /\ StoredValid'
           /\ ApplyReady' /\ EnforcerIsStore' /\ ClaimOpen' /\ ClaimRepairs' /\ ClaimHeals'
<1>0. preq \in [Req -> PolicyRequest]  BY DEF PolicyInv, PolicyTypes
<1>1. PolicyTypes'  BY <1>0 DEF PolicyInv, PolicyTypes
<1>2. PolicyCounters'  BY <1>0 DEF PolicyInv, PolicyCounters
<1>3. WriterCommits'  BY <1>0, PolicyAssumption DEF PolicyInv, WriterCommits
<1>4. ModesHeld'  BY ModesMove
<1>5. preq'[r] = n /\ \A s \in Req : s # r => preq'[s] = preq[s]  BY <1>0
<1>6. (StoredValid /\ ClaimHeals)'  BY DEF PolicyInv, StoredValid, ClaimHeals
<1>7. ClaimOpen'
  <2>1. Members(enforced, Superadmin)' = Members(enforced, Superadmin)  BY DEF Members
  <2>2. polMode' # "down" => polMode # "down"  OBVIOUS
  <2> QED  BY <2>1, <2>2, <1>5 DEF PolicyInv, ClaimOpen
<1>8. ClaimRepairs'  BY <1>5 DEF PolicyInv, ClaimRepairs, Locked
<1>9. ApplyReady'  BY <1>5 DEF PolicyInv, ApplyReady, Locked, Names
<1>10. EnforcerIsStore'
  <2>1. \A s \in Req : Moving[s] \subseteq Moving'[s] \cup adrift'
    BY <1>5 DEF Moving
  <2>2. polMode' # "down" => polMode # "down"  OBVIOUS
  <2>3. \A x : Differs(x)' => Differs(x)  BY DEF Differs
  <2> QED  BY <2>1, <2>2, <2>3, MatchPerTuple, MatchPerTupleNext DEF PolicyInv
<1> QED  BY <1>1, <1>2, <1>3, <1>4, <1>6, <1>7, <1>8, <1>9, <1>10

LEMMA AnnounceStep ==
    ASSUME PolicyInv, NEW r \in Req, PolAnnounce(r)
    PROVE  PolicyInv'
<1> DEFINE q == preq[r]
<1>0. preq \in [Req -> PolicyRequest] /\ q \in PolicyRequest  BY DEF PolicyInv, PolicyTypes
<1>1. /\ q.pc = "announce"
      /\ unannounced' = unannounced \ Head(q.out) /\ dropped' = dropped \ Head(q.out)
      /\ stored' = stored /\ enforced' = enforced /\ writer' = writer /\ wins' = wins
      /\ healed' = healed /\ edits' = edits /\ polFaults' = polFaults /\ adrift' = adrift
      /\ polMode' = IF q.op = "import" /\ q.todo = <<>> THEN "down" ELSE polMode
      /\ preq' = [preq EXCEPT ![r] =
            IF Tail(q.out) # <<>> THEN [q EXCEPT !.out = Tail(q.out)]
            ELSE IF q.todo # <<>> THEN [q EXCEPT !.pc = "lock", !.out = <<>>]
            ELSE IdleReq]
  BY DEF PolAnnounce
<1>2. q.out \in Seq(SUBSET PolicyArg) /\ q.out # <<>> /\ q.moved = {}  BY <1>0, <1>1, RequestFields
<1>3. /\ Tail(q.out) \in Seq(SUBSET PolicyArg)
      /\ Unsent(q) = Head(q.out) \cup UNION ToSet(Tail(q.out))
  BY <1>2, ElementsHead DEF Unsent
<1> HIDE DEF q
<1>4. PICK n \in PolicyRequest :
        /\ preq' = [preq EXCEPT ![r] = n]
        /\ Unsent(n) = UNION ToSet(Tail(q.out))
        /\ n.pc \notin Locked /\ (n.pc # "idle" => n.op = q.op)
        /\ n.pc = "idle" \/ Tail(q.out) # <<>> \/ q.todo # <<>>
  <2>1. CASE Tail(q.out) # <<>>
    <3> DEFINE n == [q EXCEPT !.out = Tail(q.out)]
    <3>1. preq' = [preq EXCEPT ![r] = n]  BY <1>1, <2>1
    <3>2. n \in RequestRecord /\ n.pc = "announce" /\ n.op = q.op /\ n.sub = q.sub
          /\ n.out = Tail(q.out) /\ n.todo = q.todo
          /\ n.arg = q.arg /\ n.moved = q.moved /\ n.first = q.first
      BY <1>0, <1>1, <1>3, RequestFields DEF RequestRecord
    <3> HIDE DEF n
    <3>3. n \in PolicyRequest
      BY <3>2, <2>1, <1>0, <1>1, <1>2, RequestFields DEF PolicyRequest, Locked
    <3> QED  BY <2>1, <3>1, <3>2, <3>3, <1>2 DEF Unsent, Locked
  <2>2. CASE Tail(q.out) = <<>> /\ q.todo # <<>>
    <3> DEFINE n == [q EXCEPT !.pc = "lock", !.out = <<>>]
    <3>1. preq' = [preq EXCEPT ![r] = n]  BY <1>1, <2>2
    <3>2. n \in RequestRecord /\ n.pc = "lock" /\ n.op = q.op /\ n.sub = q.sub
          /\ n.out = <<>> /\ n.todo = q.todo
          /\ n.arg = q.arg /\ n.moved = q.moved /\ n.first = q.first
      <4>1. <<>> \in Seq(SUBSET PolicyArg)  OBVIOUS
      <4> QED  BY <4>1, <1>0, RequestFields DEF RequestRecord, Phase
    <3> HIDE DEF n
    <3>3. n \in PolicyRequest
      BY <3>2, <2>2, <1>0, <1>1, <1>2, RequestFields DEF PolicyRequest, Locked
    <3> QED  BY <2>2, <3>1, <3>2, <3>3, <1>2 DEF Unsent, Locked
  <2>3. CASE Tail(q.out) = <<>> /\ q.todo = <<>>
    <3>1. preq' = [preq EXCEPT ![r] = IdleReq]  BY <1>1, <2>3
    <3>2. UNION ToSet(Tail(q.out)) = {}  BY <2>3, ElementsEmpty
    <3> QED  BY <3>1, <3>2, IdleIsRequest DEF Locked
  <2> QED  BY <2>1, <2>2, <2>3
<1>5. polMode' = polMode \/ (polMode' = "down" /\ n.pc = "idle" /\ q.op = "import")
  <2>1. q.op = "import" => Tail(q.out) = <<>>  BY <1>0, <1>1, RequestFields
  <2> QED  BY <2>1, <1>1, <1>4
<1>6. writer' = IF writer = r THEN Free ELSE writer
  BY <1>1 DEF PolicyInv, WriterCommits, Locked, q
<1>7. polFaults' \in 0..MaxPolFaults  BY <1>1 DEF PolicyInv, PolicyCounters
<1>8. /\ PolicyTypes' /\ PolicyCounters' /\ WriterCommits' /\ ModesHeld' /\ StoredValid'
      /\ ApplyReady' /\ EnforcerIsStore' /\ ClaimOpen' /\ ClaimRepairs' /\ ClaimHeals'
  <2>1. preq[r].pc # "idle" /\ adrift' = adrift \cup preq[r].moved  BY <1>1, <1>2 DEF q
  <2> QED  BY <2>1, <1>1, <1>4, <1>5, <1>6, <1>7, ReleaseMoves DEF q
<1>9. ChangesAnnounced'
  <2>1. Sending' = [Sending EXCEPT ![r] = Unsent(n)]  BY <1>0, <1>4, SendingMoves
  <2>2. Sending[r] = Unsent(q)  BY DEF Sending, q
  <2>3. \A s \in Req : Sending[s] \subseteq Head(q.out) \cup Sending'[s]
    BY <2>1, <2>2, <1>3, <1>4 DEF Sending
  <2>4. \A x \in unannounced : x \in dropped \/ \E s \in Req : x \in Sending[s]
    BY AnnouncedPerRequest DEF PolicyInv
  <2>5. \A x \in unannounced' : x \in dropped' \/ \E s \in Req : x \in Sending'[s]
    BY <2>3, <2>4, <1>1
  <2> QED  BY <2>5, AnnouncedPerRequestNext
<1> QED  BY <1>8, <1>9 DEF PolicyInv

\* A request that ends where it is, with an error or with its client.
LEMMA EndStep ==
    ASSUME PolicyInv, NEW r \in Req, PolFail(r) \/ PolDrop(r)
    PROVE  PolicyInv'
<1> DEFINE q == preq[r]
<1>0. preq \in [Req -> PolicyRequest]  BY DEF PolicyInv, PolicyTypes
<1>1. /\ q.pc # "idle"
      /\ dropped' = dropped \cup Unsent(q) /\ unannounced' = unannounced
      /\ adrift' = adrift \cup q.moved
      /\ writer' = IF writer = r THEN Free ELSE writer
      /\ preq' = [preq EXCEPT ![r] = IdleReq]
      /\ polMode' = polMode \/ (polMode' = "down" /\ q.op = "import")
      /\ stored' = stored /\ enforced' = enforced /\ wins' = wins /\ healed' = healed
      /\ edits' = edits
      /\ polFaults' = polFaults \/ (polFaults < MaxPolFaults /\ polFaults' = polFaults + 1)
  BY DEF PolFail, PolDrop, Ends
<1>2. polFaults' \in 0..MaxPolFaults
  BY <1>1, PolicyAssumption DEF PolicyInv, PolicyCounters
<1>3. /\ PolicyTypes' /\ PolicyCounters' /\ WriterCommits' /\ ModesHeld' /\ StoredValid'
      /\ ApplyReady' /\ EnforcerIsStore' /\ ClaimOpen' /\ ClaimRepairs' /\ ClaimHeals'
  <2>1. IdleReq.pc \notin Locked  BY IdleIsRequest DEF Locked
  <2> QED  BY <2>1, <1>1, <1>2, IdleIsRequest, ReleaseMoves
<1>4. ChangesAnnounced'
  <2>0. Sending' = [Sending EXCEPT ![r] = Unsent(IdleReq)]  BY <1>0, <1>1, SendingMoves
  <2>1. Sending' = [Sending EXCEPT ![r] = {}]  BY <2>0, IdleIsRequest
  <2>2. \A s \in Req : Sending[s] \subseteq Sending'[s] \cup dropped'
    BY <2>1, <1>1 DEF Sending
  <2>3. \A x \in unannounced : x \in dropped \/ \E s \in Req : x \in Sending[s]
    BY AnnouncedPerRequest DEF PolicyInv
  <2>4. \A x \in unannounced' : x \in dropped' \/ \E s \in Req : x \in Sending'[s]
    BY <2>2, <2>3, <1>1
  <2> QED  BY <2>4, AnnouncedPerRequestNext
<1> QED  BY <1>3, <1>4 DEF PolicyInv

\* The process ends: what was in flight is dropped, what was stored stays.
LEMMA StopStep ==
    ASSUME PolicyInv, PolStop
    PROVE  PolicyInv'
<1>1. /\ polMode' = "down" /\ enforced' = {} /\ writer' = Free
      /\ dropped' = dropped \cup UNION {Unsent(preq[r]) : r \in Req}
      /\ preq' = [r \in Req |-> IdleReq]
      /\ stored' = stored /\ unannounced' = unannounced /\ wins' = wins /\ healed' = healed
      /\ edits' = edits
      /\ polFaults' = polFaults \/ (polFaults < MaxPolFaults /\ polFaults' = polFaults + 1)
  BY DEF PolStop
<1>2. \A r \in Req : preq'[r].pc = "idle"  BY <1>1, IdleIsRequest
<1>3. PolicyTypes'  BY <1>1, IdleIsRequest DEF PolicyInv, PolicyTypes
<1>4. PolicyCounters'
  BY <1>1, <1>2, PolicyAssumption DEF PolicyInv, PolicyCounters
<1>5. WriterCommits' /\ ModesHeld' /\ ApplyReady' /\ EnforcerIsStore' /\ ClaimRepairs'
  BY <1>1, <1>2, PolicyAssumption
  DEF WriterCommits, ModesHeld, ApplyReady, EnforcerIsStore, ClaimRepairs, Locked
<1>6. StoredValid' /\ ClaimHeals'  BY <1>1 DEF PolicyInv, StoredValid, ClaimHeals
<1>7. ClaimOpen'  BY <1>1, <1>2 DEF ClaimOpen, Locked
<1>8. ChangesAnnounced'
  <2>1. unannounced' \subseteq dropped'  BY <1>1 DEF PolicyInv, ChangesAnnounced
  <2> QED  BY <2>1 DEF ChangesAnnounced
<1> QED  BY <1>3, <1>4, <1>5, <1>6, <1>7, <1>8 DEF PolicyInv

\* A process starts, to serve or to import, and loads what is stored.
LEMMA StartStep ==
    ASSUME PolicyInv,
           PolServe \/ \E r \in Req, dump \in Dumps : PolImport(r, dump)
    PROVE  PolicyInv'
<1>0. preq \in [Req -> PolicyRequest] /\ polMode = "down" /\ \A r \in Req : preq[r].pc = "idle"
  BY DEF PolServe, PolImport, LoadPolicy, PolicyInv, PolicyTypes, ModesHeld
<1>1. /\ enforced' = stored /\ stored' = stored /\ adrift' = {} /\ writer' = writer
      /\ unannounced' = unannounced /\ dropped' = dropped /\ healed' = healed
      /\ polFaults' = polFaults
      /\ wins' = IF Members(stored, Superadmin) = {} THEN 0 ELSE wins
  BY DEF PolServe, PolImport, LoadPolicy
<1>2. (StoredValid /\ EnforcerIsStore /\ ClaimHeals)'
  BY <1>1 DEF PolicyInv, StoredValid, EnforcerIsStore, ClaimHeals
<1>3. Members(enforced, Superadmin)' = {} => wins' = 0
  <2>1. Members(enforced, Superadmin)' = Members(stored, Superadmin)  BY <1>1 DEF Members
  <2> QED  BY <2>1, <1>1
<1>4. \A s \in Req : preq[s].pc \notin Locked  BY <1>0 DEF Locked
<1>5. wins' \in 0..1 /\ (wins' = 1 => edits >= 1)
  BY <1>1 DEF PolicyInv, PolicyCounters
<1>6. CASE PolServe
  <2>1. polMode' = "serve" /\ preq' = preq /\ edits' = edits  BY <1>6 DEF PolServe
  <2>2. PolicyTypes' /\ PolicyCounters' /\ WriterCommits' /\ ModesHeld'
    BY <2>1, <1>0, <1>1, <1>5
    DEF PolicyInv, PolicyTypes, PolicyCounters, WriterCommits, ModesHeld
  <2>3. (ApplyReady /\ ClaimOpen /\ ClaimRepairs)'
    BY <2>1, <1>0, <1>3, <1>4 DEF ApplyReady, ClaimOpen, ClaimRepairs
  <2>4. ChangesAnnounced'  BY <2>1, <1>1 DEF PolicyInv, ChangesAnnounced
  <2> QED  BY <2>2, <2>3, <2>4, <1>2 DEF PolicyInv
<1>7. ASSUME NEW r \in Req, NEW dump \in Dumps, PolImport(r, dump)  PROVE PolicyInv'
  <2> DEFINE q == [IdleReq EXCEPT !.op = "import", !.pc = "lock", !.todo = dump]
  <2>1. /\ polMode' = "import" /\ preq' = [preq EXCEPT ![r] = q]
        /\ edits < MaxEdits /\ edits' = edits + 1
    BY <1>7 DEF PolImport
  <2>2. dump \in Seq(PolicyTuple) /\ dump \in Seq(PolicyArg) /\ dump # <<>>
    <3>1. dump \in Seq(ToSet(dump)) /\ dump # <<>>  BY PolicyAssumption DEF ToSet
    <3>2. ToSet(dump) \subseteq PolicyTuple /\ PolicyTuple \subseteq PolicyArg  BY ArgParts
    <3> QED  BY <3>1, <3>2
  <2>3. /\ q \in RequestRecord /\ q.op = "import" /\ q.pc = "lock" /\ q.todo = dump
        /\ q.out = <<>> /\ q.moved = {} /\ q.first = FALSE
    <3>1. IdleReq \in RequestRecord  BY IdleIsRequest, RequestFields
    <3> QED  BY <2>2, <3>1 DEF IdleReq, RequestRecord, Phase, PolicyOp
  <2> HIDE DEF q
  <2>4. q \in PolicyRequest  BY <2>2, <2>3 DEF PolicyRequest, Locked
  <2>5. PolicyTypes'  BY <2>1, <2>4, <1>0, <1>1 DEF PolicyInv, PolicyTypes
  <2>6. PolicyCounters'
    BY <2>1, <1>0, <1>1, <1>5, PolicyAssumption DEF PolicyInv, PolicyCounters
  <2>7. WriterCommits'
    BY <2>1, <2>3, <1>0, <1>1 DEF PolicyInv, WriterCommits, Locked
  <2>8. ModesHeld'  BY <2>1, <2>3, <1>0 DEF ModesHeld
  <2>9. ApplyReady' /\ ClaimRepairs' /\ ClaimOpen'
    <3>1. \A s \in Req : preq'[s].pc \notin Locked  BY <2>1, <2>3, <1>0, <1>4 DEF Locked
    <3> QED  BY <3>1, <1>3 DEF ApplyReady, ClaimRepairs, ClaimOpen, Locked
  <2>10. ChangesAnnounced'
    <3>1. preq[r].out = <<>> /\ preq[r].moved = {}  BY <1>0, RequestFields
    <3>2. Unsent(q) = {} /\ Sending[r] = {}
      BY <2>3, <3>1, ElementsEmpty DEF Unsent, Sending
    <3>3. Sending' = [Sending EXCEPT ![r] = {}]  BY <1>0, <2>1, <3>2, SendingMoves
    <3>4. Sending' = Sending  BY <3>2, <3>3 DEF Sending
    <3> QED  BY <1>1, <3>4, AnnouncedPerRequest, AnnouncedPerRequestNext DEF PolicyInv
  <2> QED  BY <2>5, <2>6, <2>7, <2>8, <2>9, <2>10, <1>2 DEF PolicyInv
<1> QED  BY <1>6, <1>7

LEMMA RoutesBegin ==
    ASSUME NEW r \in Req, NEW s \in PolicySubject,
           \/ ClaimAdminRoute(r, s)
           \/ \E t \in EditTuple :
                \/ AddRuleRoute(r, s, t) \/ RemoveRuleRoute(r, s, t)
                \/ AssignGroupRoute(r, s, t) \/ RemoveUserRoute(r, s, t)
           \/ \E g \in EditGroup : DeleteGroupRoute(r, s, g)
    PROVE  RouteBegins(r)
BY ArgParts DEF ClaimAdminRoute, AddRuleRoute, RemoveRuleRoute, AssignGroupRoute,
                RemoveUserRoute, DeleteGroupRoute, RouteBegins, PolicyOp

LEMMA PolicyStep ==
    ASSUME PolicyInv, [PolicyNext]_polVars
    PROVE  PolicyInv'
<1>1. CASE UNCHANGED polVars
  <2>1. PolicyTypes' /\ PolicyCounters' /\ WriterCommits' /\ ModesHeld'
    BY <1>1 DEF polVars, PolicyInv, PolicyTypes, PolicyCounters, WriterCommits, ModesHeld
  <2>2. (StoredValid /\ EnforcerIsStore /\ ClaimOpen /\ ClaimRepairs /\ ClaimHeals)'
    BY <1>1 DEF polVars, PolicyInv, StoredValid, EnforcerIsStore, ClaimOpen, ClaimRepairs,
                ClaimHeals, Members
  <2>4. ApplyReady'  BY <1>1 DEF polVars, PolicyInv, ApplyReady, Names
  <2>3. ChangesAnnounced'  BY <1>1 DEF polVars, PolicyInv, ChangesAnnounced
  <2> QED  BY <2>1, <2>2, <2>3, <2>4 DEF PolicyInv
<1>2. CASE PolicyNext
  <2>1. CASE PolStop  BY <2>1, StopStep
  <2>2. CASE PolServe  BY <2>2, StartStep
  <2>3. ASSUME NEW r \in Req,
               \/ PolRequire(r) \/ PolLock(r) \/ PolCommit(r) \/ PolApply(r)
               \/ PolAnnounce(r) \/ PolFail(r) \/ PolDrop(r)
        PROVE  PolicyInv'
    BY <2>3, RequireStep, LockStep, CommitStep, ApplyStep, AnnounceStep, EndStep
  <2>4. ASSUME NEW r \in Req, NEW s \in PolicySubject,
               \/ ClaimAdminRoute(r, s)
               \/ \E t \in EditTuple :
                    \/ AddRuleRoute(r, s, t) \/ RemoveRuleRoute(r, s, t)
                    \/ AssignGroupRoute(r, s, t) \/ RemoveUserRoute(r, s, t)
               \/ \E g \in EditGroup : DeleteGroupRoute(r, s, g)
        PROVE  PolicyInv'
    BY <2>4, RoutesBegin, BeginStep
  <2>5. ASSUME NEW r \in Req, NEW dump \in Dumps, PolImport(r, dump)
        PROVE  PolicyInv'
    BY <2>5, StartStep
  <2> QED  BY <1>2, <2>1, <2>2, <2>3, <2>4, <2>5 DEF PolicyNext
<1> QED  BY <1>1, <1>2

\* The policy engine keeps its invariant, for every set of requests, tuples,
\* groups and import files.
THEOREM PolicyInvariant == PolicySpec => []PolicyInv
BY PolicyStarts, PolicyStep, PTL DEF PolicySpec

\* The enforcer decides on what a restart would load, after every change, error
\* and import, except for the tuples of a request that ended between the commit
\* and the memory and for a row that went under the key of another tuple
\* (adapter.rs, rule_key and the awaited commits).
THEOREM EnforcerMatchesStore == PolicySpec => []EnforcerIsStore
<1>1. PolicyInv => EnforcerIsStore  BY DEF PolicyInv
<1> QED  BY <1>1, PolicyInvariant, PTL

\* claim_superadmin has one winner while the enforcer knows somebody in the
\* role, and a claim that completes leaves all of the rules, wherever earlier
\* claims failed or were dropped.
THEOREM ClaimIsSound == PolicySpec => []ClaimSound
<1>1. PolicyInv => ClaimSound
  BY DEF PolicyInv, PolicyCounters, ClaimSound, OneClaimWins
<1> QED  BY <1>1, PolicyInvariant, PTL

\* A request that answers with success has announced what it changed: a change
\* that the feed has not heard of is still to be announced, or it was left by a
\* request that ended in an error, with its client or with the process, or the
\* enforcer did not see it (policy/mod.rs, policy/admin.rs).
THEOREM ChangesAreAnnounced == PolicySpec => []ChangesAnnounced
<1>1. PolicyInv => ChangesAnnounced  BY DEF PolicyInv
<1> QED  BY <1>1, PolicyInvariant, PTL

-----------------------------------------------------------------------------
(* The capability tokens *)

\* The secrets that take effect of a file and an environment.
EffSecret(f, e) == PreferEnv(e["secret"], f.secret)
EffPrevious(f, e) == PreferEnv(e["previous"], f.previous)

GoodSecret == EffSecret(lastGood[1], lastGood[2])
GoodPrevious == EffPrevious(lastGood[1], lastGood[2])
NowSecret == EffSecret(file, env)
NowPrevious == EffPrevious(file, env)

\* A variable holds a previous secret only beside a secret.
EnvPaired(e) == e["secret"] \in {Unset, Blank} => e["previous"] \in {Unset, Blank}

\* A configuration that would load has the secrets of the last one that did, or
\* is its documented rotation, after the tokens of the one before have run out.
SameSecrets == NowSecret = GoodSecret /\ NowPrevious = GoodPrevious
RotatedSecrets ==
    /\ GoodSecret \in Secret /\ NowSecret \in Secret \ {GoodSecret}
    /\ NowPrevious = GoodSecret
    /\ second - switched > TokenTTL

EditsSettled ==
    /\ EnvPaired(lastGood[2])
    /\ Loads(file, env) => EnvPaired(env) /\ (SameSecrets \/ RotatedSecrets)

\* The keys are those of the last configuration that loaded.
KeysSettled ==
    /\ keys.previous \in Secret \cup {Unset}
    /\ keys.current \in Secret => keys.current = GoodSecret /\ keys.previous = GoodPrevious
    /\ keys.current \in Ephemeral =>
        keys.previous = Unset /\ (GoodSecret = Unset \/ (capTokens = {} /\ running = Unset))

\* A token of a former key runs out within its life after the switch, and one
\* that has not run out has a key that verify still tries.
TokensCovered ==
    \A t \in capTokens :
        /\ t.claims.exp <= second + TokenTTL
        /\ t.key # keys.current => t.claims.exp <= switched + TokenTTL
        /\ t.key \in Secret /\ t.claims.exp >= second => t.key \in {keys.current, keys.previous}

CapabilityInv == CapabilityTypeOK /\ EditsSettled /\ KeysSettled /\ TokensCovered

LEMMA CapabilityConstants ==
    /\ TokenTTL \in Nat /\ TokenTTL > 0 /\ MaxNow \in Nat /\ MaxLoads \in Nat /\ MaxLoads > 0
    /\ Weak \notin Secret /\ Spaces \notin Secret /\ Blank \notin Secret /\ Unset \notin Secret
    /\ Weak # Unset /\ Spaces # Blank /\ Spaces # Unset
    /\ Ephemeral \cap Secret = {} /\ Unset \notin Ephemeral
BY CapabilityAssumption DEF Ephemeral

\* What a configuration that loads looks like.
LEMMA OverlayFields ==
    ASSUME NEW f \in FileConfig, NEW e \in EnvConfig
    PROVE  /\ Overlay(f, e) \in FileConfig
           /\ Overlay(f, e).secret = EffSecret(f, e) /\ Overlay(f, e).previous = EffPrevious(f, e)
           /\ Overlay(f, e).client = PreferEnv(e["client"], f.client)
<1>1. \A x \in Fields : e[x] \in Text \cup {Unset}  BY DEF EnvConfig
<1>2. e["client"] \in Text \cup {Unset} /\ e["secret"] \in Text \cup {Unset}
      /\ e["previous"] \in Text \cup {Unset}
  BY <1>1 DEF Fields
<1>3. /\ PreferEnv(e["client"], f.client) \in Text
      /\ PreferEnv(e["secret"], f.secret) \in Text \cup {Unset}
      /\ PreferEnv(e["previous"], f.previous) \in Text \cup {Unset}
  BY <1>2 DEF PreferEnv, FileConfig
<1>4. Overlay(f, e) = [f EXCEPT !.client = PreferEnv(e["client"], f.client),
                                !.secret = PreferEnv(e["secret"], f.secret),
                                !.previous = PreferEnv(e["previous"], f.previous)]
  BY DEF Overlay
<1> QED  BY <1>3, <1>4 DEF FileConfig, EffSecret, EffPrevious

LEMMA LoadedSecrets ==
    ASSUME NEW f \in FileConfig, NEW e \in EnvConfig, Loads(f, e)
    PROVE  /\ EffSecret(f, e) \in Secret \cup {Unset}
           /\ EffPrevious(f, e) \in Secret \cup {Unset}
<1>1. {Overlay(f, e).secret, Overlay(f, e).previous} \subseteq Secret \cup {Unset}
  BY DEF Loads, Valid
<1> QED  BY <1>1, OverlayFields

LEMMA CapabilityStarts == CapabilityInit => CapabilityInv
<1> SUFFICES ASSUME CapabilityInit PROVE CapabilityInv  OBVIOUS
<1>1. file \in FileConfig /\ file.previous = Unset
  BY DEF CapabilityInit, FileConfig, Text
<1>2. env \in EnvConfig /\ env["secret"] \in {Unset, Blank} /\ env["previous"] = Unset
  BY DEF CapabilityInit
<1>3. lastGood = <<file, env>> /\ lastGood \in FileConfig \X EnvConfig
  BY <1>1, <1>2 DEF CapabilityInit
<1>4. keys.current \in Ephemeral /\ keys.previous = Unset /\ keys \in TokenKeys
  <2>1. [drawn |-> 1] \in Ephemeral  BY CapabilityConstants DEF Ephemeral
  <2> QED  BY <2>1 DEF CapabilityInit, TokenKeys, SigningKey
<1>5. /\ second = 0 /\ switched = -(TokenTTL + 1) /\ loads = 0 /\ capTokens = {}
      /\ running = Unset
  BY DEF CapabilityInit
<1>6. CapabilityTypeOK
  <2>1. second \in 0..MaxNow /\ loads \in 0..MaxLoads /\ switched \in -(TokenTTL + 1)..MaxNow
    BY <1>5, CapabilityConstants
  <2> QED  BY <2>1, <1>1, <1>2, <1>3, <1>4, <1>5 DEF CapabilityTypeOK
<1>7. EditsSettled
  BY <1>2, <1>3 DEF EditsSettled, EnvPaired, SameSecrets, NowSecret, GoodSecret, NowPrevious,
                    GoodPrevious
<1>8. KeysSettled  BY <1>4, <1>5, CapabilityConstants DEF KeysSettled
<1>9. TokensCovered  BY <1>5 DEF TokensCovered
<1> QED  BY <1>6, <1>7, <1>8, <1>9 DEF CapabilityInv

\* The process starts with what was deployed.
LEMMA LoadStep ==
    ASSUME CapabilityInv, LoadConfig
    PROVE  CapabilityInv'
<1>0. /\ file \in FileConfig /\ env \in EnvConfig /\ lastGood \in FileConfig \X EnvConfig
      /\ running \in FileConfig \cup {Unset} /\ keys \in TokenKeys
      /\ second \in 0..MaxNow /\ switched \in -(TokenTTL + 1)..MaxNow /\ loads \in 0..MaxLoads
      /\ \A t \in capTokens : t.key \in SigningKey /\ t.claims \in FsClaims
  BY DEF CapabilityInv, CapabilityTypeOK
<1>1. /\ loads < MaxLoads /\ loads' = loads + 1
      /\ file' = file /\ env' = env /\ capTokens' = capTokens /\ second' = second
  BY DEF LoadConfig
<1>2. loads' \in 0..MaxLoads  BY <1>0, <1>1, CapabilityConstants
<1>3. CASE ~Loads(file, env)
  <2>1. running' = Unset /\ keys' = keys /\ lastGood' = lastGood /\ switched' = switched
    BY <1>3 DEF LoadConfig
  <2>2. CapabilityTypeOK'  BY <1>0, <1>1, <1>2, <2>1 DEF CapabilityTypeOK
  <2>3. EditsSettled'
    BY <1>1, <2>1, <1>3 DEF CapabilityInv, EditsSettled, Loads, Valid
  <2>4. KeysSettled'
    BY <1>1, <2>1 DEF CapabilityInv, KeysSettled, GoodSecret, GoodPrevious
  <2>5. TokensCovered'  BY <1>1, <2>1 DEF CapabilityInv, TokensCovered
  <2> QED  BY <2>2, <2>3, <2>4, <2>5 DEF CapabilityInv
<1>4. CASE Loads(file, env)
  <2>1. /\ running' = Overlay(file, env)
        /\ keys' = ResolveTokenKeys(Overlay(file, env), loads + 1)
        /\ switched' = IF keys'.current = keys.current THEN switched ELSE second
        /\ lastGood' = <<file, env>>
    BY <1>4 DEF LoadConfig
  <2>2. /\ Overlay(file, env) \in FileConfig /\ Overlay(file, env).secret = NowSecret
        /\ Overlay(file, env).previous = NowPrevious
    BY <1>0, OverlayFields DEF NowSecret, NowPrevious
  <2>3. NowSecret \in Secret \cup {Unset} /\ NowPrevious \in Secret \cup {Unset}
    BY <1>0, <1>4, LoadedSecrets DEF NowSecret, NowPrevious
  <2>4. [drawn |-> loads + 1] \in Ephemeral
    BY <1>0, <1>1, CapabilityConstants DEF Ephemeral
  <2>5. /\ NowSecret = Unset => keys'.current \in Ephemeral /\ keys'.previous = Unset
        /\ NowSecret \in Secret => keys'.current = NowSecret /\ keys'.previous = NowPrevious
        /\ keys' \in TokenKeys /\ keys'.previous \in Secret \cup {Unset}
    <3>1. CASE NowSecret = Unset
      <4>1. keys' = [current |-> [drawn |-> loads + 1], previous |-> Unset]
        BY <3>1, <2>1, <2>2 DEF ResolveTokenKeys
      <4> DEFINE d == [drawn |-> loads + 1]
      <4>2. d \in Ephemeral /\ keys' = [current |-> d, previous |-> Unset]  BY <4>1, <2>4
      <4> HIDE DEF d
      <4> QED  BY <3>1, <4>2, CapabilityConstants DEF TokenKeys, SigningKey
    <3>2. CASE NowSecret \in Secret
      <4>1. keys' = [current |-> NowSecret, previous |-> NowPrevious]
        BY <3>2, <2>1, <2>2, CapabilityConstants DEF ResolveTokenKeys, FromHex
      <4> QED  BY <3>2, <4>1, <2>3, CapabilityConstants DEF TokenKeys, SigningKey
    <3> QED  BY <3>1, <3>2, <2>3
  <2>6. GoodSecret' = NowSecret /\ GoodPrevious' = NowPrevious
    BY <2>1 DEF GoodSecret, GoodPrevious, NowSecret, NowPrevious
  <2>7. NowSecret' = NowSecret /\ NowPrevious' = NowPrevious
    BY <1>1 DEF NowSecret, NowPrevious
  <2>8. CapabilityTypeOK'
    <3>1. switched' \in -(TokenTTL + 1)..MaxNow  BY <1>0, <2>1, CapabilityConstants
    <3>2. lastGood' \in FileConfig \X EnvConfig /\ running' \in FileConfig \cup {Unset}
      BY <1>0, <2>1, <2>2
    <3> QED  BY <1>0, <1>1, <1>2, <2>5, <3>1, <3>2 DEF CapabilityTypeOK
  <2>9. EditsSettled'
    <3>1. EnvPaired(env)  BY <1>4 DEF CapabilityInv, EditsSettled
    <3>2. EnvPaired(lastGood[2])' /\ EnvPaired(env)'
      BY <3>1, <1>1, <2>1 DEF EnvPaired
    <3>3. SameSecrets'  BY <2>6, <2>7 DEF SameSecrets
    <3> QED  BY <3>2, <3>3 DEF EditsSettled
  <2>10. KeysSettled'
    BY <2>3, <2>5, <2>6, CapabilityConstants DEF KeysSettled
  <2>11. TokensCovered'
    <3> SUFFICES ASSUME NEW t \in capTokens
                 PROVE  /\ t.claims.exp <= second + TokenTTL
                        /\ t.key # keys'.current => t.claims.exp <= switched' + TokenTTL
                        /\ t.key \in Secret /\ t.claims.exp >= second =>
                            t.key \in {keys'.current, keys'.previous}
      BY <1>1 DEF TokensCovered
    <3>0. t.claims.exp \in Nat /\ second \in Int /\ switched \in Int
      BY <1>0 DEF FsClaims
    <3>1. /\ t.claims.exp <= second + TokenTTL
          /\ t.key # keys.current => t.claims.exp <= switched + TokenTTL
          /\ t.key \in Secret /\ t.claims.exp >= second =>
                t.key \in {keys.current, keys.previous}
      BY DEF CapabilityInv, TokensCovered
    <3>2. t.key # keys'.current => t.claims.exp <= switched' + TokenTTL
      BY <2>1, <3>1
    <3>3. ASSUME t.key \in Secret, t.claims.exp >= second
          PROVE  t.key \in {keys'.current, keys'.previous}
      <4>1. t.key \in {keys.current, keys.previous}  BY <3>1, <3>3
      <4>2. keys.current \in Secret \cup Ephemeral  BY <1>0 DEF TokenKeys, SigningKey
      <4>3. keys.current \in Secret
        BY <3>3, <4>1, <4>2, CapabilityConstants DEF CapabilityInv, KeysSettled
      <4>4. keys.current = GoodSecret /\ keys.previous = GoodPrevious
        BY <4>3 DEF CapabilityInv, KeysSettled
      <4>5. CASE SameSecrets
        BY <4>1, <4>3, <4>4, <4>5, <2>5 DEF SameSecrets
      <4>6. CASE RotatedSecrets
        <5>1. NowSecret \in Secret /\ NowPrevious = GoodSecret /\ second - switched > TokenTTL
          BY <4>6 DEF RotatedSecrets
        <5>2. t.key = keys.current
          BY <3>0, <3>1, <3>3, <5>1, CapabilityConstants
        <5> QED  BY <5>1, <5>2, <4>4, <2>5
      <4> QED  BY <4>5, <4>6, <1>4 DEF CapabilityInv, EditsSettled
    <3> QED  BY <3>1, <3>2, <3>3
  <2> QED  BY <2>8, <2>9, <2>10, <2>11 DEF CapabilityInv
<1> QED  BY <1>3, <1>4

\* A token is minted with the current key.
LEMMA MintStep ==
    ASSUME CapabilityInv, NEW f \in FileId, NEW a \in TokenAct, MintToken(f, a)
    PROVE  CapabilityInv'
<1> DEFINE t == MintClaims(keys, f, a)
<1>1. /\ running # Unset /\ capTokens' = capTokens \cup {t}
      /\ file' = file /\ env' = env /\ lastGood' = lastGood /\ running' = running /\ keys' = keys
      /\ second' = second /\ switched' = switched /\ loads' = loads
  BY DEF MintToken
<1>2. second \in 0..MaxNow /\ keys.current \in SigningKey /\ keys.current # Unset
  BY CapabilityConstants DEF CapabilityInv, CapabilityTypeOK, TokenKeys, SigningKey
<1>3. second + TokenTTL \in Nat  BY <1>2, CapabilityConstants
<1>4. t.key = keys.current /\ t.claims \in FsClaims /\ t.claims.exp = second + TokenTTL
  BY <1>3 DEF MintClaims, FsClaims
<1> HIDE DEF t
<1>5. CapabilityTypeOK'
  BY <1>1, <1>2, <1>4 DEF CapabilityInv, CapabilityTypeOK
<1>6. EditsSettled'
  BY <1>1 DEF CapabilityInv, EditsSettled, EnvPaired, Loads, Valid, SameSecrets, RotatedSecrets,
              NowSecret, NowPrevious, GoodSecret, GoodPrevious
<1>7. KeysSettled'
  BY <1>1 DEF CapabilityInv, KeysSettled, GoodSecret, GoodPrevious
<1>8. TokensCovered'
  <2>1. second + TokenTTL <= second + TokenTTL  BY <1>3
  <2> QED  BY <2>1, <1>1, <1>4 DEF CapabilityInv, TokensCovered
<1> QED  BY <1>5, <1>6, <1>7, <1>8 DEF CapabilityInv

\* An edit of the file or of the environment leaves the process alone.
LEMMA EditMoves ==
    ASSUME CapabilityInv, file' \in FileConfig, env' \in EnvConfig,
           lastGood' = lastGood, running' = running, keys' = keys, capTokens' = capTokens,
           second' = second, switched' = switched, loads' = loads,
           Loads(file', env') => EnvPaired(env') /\ (SameSecrets' \/ RotatedSecrets')
    PROVE  CapabilityInv'
<1>1. CapabilityTypeOK'  BY DEF CapabilityInv, CapabilityTypeOK
<1>2. EditsSettled'
  <2>1. Loads(file, env)' => Loads(file', env')  BY DEF Loads, Valid, Overlay, PreferEnv
  <2>2. EnvPaired(env') => EnvPaired(env)'  BY DEF EnvPaired
  <2>3. EnvPaired(lastGood[2])'  BY DEF CapabilityInv, EditsSettled, EnvPaired
  <2> QED  BY <2>1, <2>2, <2>3 DEF EditsSettled
<1>3. KeysSettled'  BY DEF CapabilityInv, KeysSettled, GoodSecret, GoodPrevious
<1>4. TokensCovered'  BY DEF CapabilityInv, TokensCovered
<1> QED  BY <1>1, <1>2, <1>3, <1>4 DEF CapabilityInv

\* The types of an edit, and the secrets that took effect before it.
LEMMA BeforeEdit ==
    ASSUME CapabilityInv
    PROVE  /\ file \in FileConfig /\ env \in EnvConfig
           /\ lastGood[1] \in FileConfig /\ lastGood[2] \in EnvConfig
           /\ EnvPaired(lastGood[2])
           /\ <<file, env>> = lastGood =>
                /\ EnvPaired(env)
                /\ GoodSecret = EffSecret(file, env) /\ GoodPrevious = EffPrevious(file, env)
<1>1. /\ file \in FileConfig /\ env \in EnvConfig /\ lastGood \in FileConfig \X EnvConfig
      /\ EnvPaired(lastGood[2])
  BY DEF CapabilityInv, CapabilityTypeOK, EditsSettled
<1>2. ASSUME <<file, env>> = lastGood  PROVE lastGood[1] = file /\ lastGood[2] = env
  BY <1>2
<1> QED  BY <1>1, <1>2 DEF GoodSecret, GoodPrevious

LEMMA EnvEdited ==
    ASSUME NEW e \in EnvConfig, NEW x \in Fields, NEW v \in Text \cup {Unset}
    PROVE  [e EXCEPT ![x] = v] \in EnvConfig
BY DEF EnvConfig

LEMMA RotateStep ==
    ASSUME CapabilityInv, NEW s \in Secret, Rotate(s)
    PROVE  CapabilityInv'
<1>0. /\ second - switched > TokenTTL /\ <<file, env>> = lastGood
      /\ lastGood' = lastGood /\ running' = running /\ keys' = keys /\ capTokens' = capTokens
      /\ second' = second /\ switched' = switched /\ loads' = loads
  BY DEF Rotate
<1>1. /\ file \in FileConfig /\ env \in EnvConfig /\ EnvPaired(env)
      /\ GoodSecret = EffSecret(file, env)
  BY <1>0, BeforeEdit
<1>2. GoodSecret' = GoodSecret  BY <1>0 DEF GoodSecret
<1>3. CASE /\ env["secret"] \in Secret \ {s} /\ file' = file
           /\ env' = [env EXCEPT !["secret"] = s, !["previous"] = env["secret"]]
  <2>1. env' \in EnvConfig
    <3>1. [env EXCEPT !["secret"] = s] \in EnvConfig
      BY <1>1, EnvEdited DEF Fields, Text
    <3>2. env["secret"] \in Text \cup {Unset}  BY <1>3 DEF Text
    <3>3. [[env EXCEPT !["secret"] = s] EXCEPT !["previous"] = env["secret"]] \in EnvConfig
      BY <3>1, <3>2, EnvEdited DEF Fields
    <3> QED  BY <1>3, <3>3
  <2>2. env'["secret"] = s /\ env'["previous"] = env["secret"]
    BY <1>1, <1>3 DEF EnvConfig, Fields
  <2>3. GoodSecret = env["secret"]
    BY <1>1, <1>3, CapabilityConstants DEF EffSecret, PreferEnv
  <2>4. NowSecret' = s /\ NowPrevious' = env["secret"]
    BY <1>3, <2>2, CapabilityConstants
    DEF NowSecret, NowPrevious, EffSecret, EffPrevious, PreferEnv
  <2>5. RotatedSecrets'  BY <1>0, <1>2, <1>3, <2>3, <2>4 DEF RotatedSecrets
  <2>6. EnvPaired(env')  BY <2>2, CapabilityConstants DEF EnvPaired
  <2> QED  BY <1>0, <1>1, <1>3, <2>1, <2>5, <2>6, EditMoves
<1>4. CASE /\ env["secret"] \in {Unset, Blank} /\ file.secret \in Secret \ {s} /\ env' = env
           /\ file' = [file EXCEPT !.secret = s, !.previous = file.secret]
  <2>1. file' \in FileConfig /\ file'.secret = s /\ file'.previous = file.secret
    BY <1>1, <1>4 DEF FileConfig, Text
  <2>2. env["previous"] \in {Unset, Blank}  BY <1>1, <1>4 DEF EnvPaired
  <2>3. GoodSecret = file.secret  BY <1>1, <1>4 DEF EffSecret, PreferEnv
  <2>4. NowSecret' = s /\ NowPrevious' = file.secret
    BY <1>4, <2>1, <2>2 DEF NowSecret, NowPrevious, EffSecret, EffPrevious, PreferEnv
  <2>5. RotatedSecrets'  BY <1>0, <1>2, <1>4, <2>3, <2>4 DEF RotatedSecrets
  <2>6. EnvPaired(env')  BY <1>1, <1>4
  <2> QED  BY <1>0, <1>1, <1>4, <2>1, <2>5, <2>6, EditMoves
<1> QED  BY <1>3, <1>4 DEF Rotate

LEMMA MoveStep ==
    ASSUME CapabilityInv, MoveToEnv
    PROVE  CapabilityInv'
<1>0. /\ <<file, env>> = lastGood /\ file.secret \in Secret /\ env["secret"] \in {Unset, Blank}
      /\ env' = [env EXCEPT !["secret"] = file.secret, !["previous"] = file.previous]
      /\ file' = file
      /\ lastGood' = lastGood /\ running' = running /\ keys' = keys /\ capTokens' = capTokens
      /\ second' = second /\ switched' = switched /\ loads' = loads
  BY DEF MoveToEnv
<1>1. /\ file \in FileConfig /\ env \in EnvConfig /\ EnvPaired(env)
      /\ GoodSecret = EffSecret(file, env) /\ GoodPrevious = EffPrevious(file, env)
  BY <1>0, BeforeEdit
<1>2. env' \in EnvConfig
  <2>1. file.secret \in Text \cup {Unset} /\ file.previous \in Text \cup {Unset}
    BY <1>1 DEF FileConfig
  <2>2. [env EXCEPT !["secret"] = file.secret] \in EnvConfig
    BY <1>1, <2>1, EnvEdited DEF Fields
  <2>3. [[env EXCEPT !["secret"] = file.secret] EXCEPT !["previous"] = file.previous] \in EnvConfig
    BY <2>1, <2>2, EnvEdited DEF Fields
  <2> QED  BY <1>0, <2>3
<1>3. env'["secret"] = file.secret /\ env'["previous"] = file.previous
  BY <1>0, <1>1 DEF EnvConfig, Fields
<1>4. env["previous"] \in {Unset, Blank}  BY <1>0, <1>1 DEF EnvPaired
<1>5. GoodSecret = file.secret /\ GoodPrevious = file.previous
  BY <1>0, <1>1, <1>4 DEF EffSecret, EffPrevious, PreferEnv
<1>6. NowSecret' = file.secret /\ NowPrevious' = file.previous
  BY <1>0, <1>3 DEF NowSecret, NowPrevious, EffSecret, EffPrevious, PreferEnv
<1>7. SameSecrets'
  BY <1>0, <1>5, <1>6 DEF SameSecrets, GoodSecret, GoodPrevious
<1>8. EnvPaired(env')  BY <1>0, <1>3, <1>2, CapabilityConstants DEF EnvPaired, PreferEnv, EnvConfig
<1> QED  BY <1>0, <1>1, <1>2, <1>7, <1>8, EditMoves

\* A bad edit does not load.
LEMMA BadEditStep ==
    ASSUME CapabilityInv, BadEdit
    PROVE  CapabilityInv'
<1>0. /\ lastGood' = lastGood /\ running' = running /\ keys' = keys /\ capTokens' = capTokens
      /\ second' = second /\ switched' = switched /\ loads' = loads
  BY DEF BadEdit
<1>1. file \in FileConfig /\ env \in EnvConfig  BY BeforeEdit
<1>2. ASSUME NEW x \in Fields, env' = [env EXCEPT ![x] = Spaces], file' = file
      PROVE  file' \in FileConfig /\ env' \in EnvConfig /\ ~Loads(file', env')
  <2>1. env' \in EnvConfig  BY <1>1, <1>2, EnvEdited DEF Text
  <2>2. env'[x] = Spaces  BY <1>1, <1>2 DEF EnvConfig
  <2>3. /\ Overlay(file', env').secret = EffSecret(file', env')
        /\ Overlay(file', env').previous = EffPrevious(file', env')
        /\ Overlay(file', env').client = PreferEnv(env'["client"], file'.client)
    BY <1>1, <1>2, <2>1, OverlayFields
  <2>4. CASE x = "client"
    <3>1. Overlay(file', env').client = Spaces
      BY <2>2, <2>3, <2>4, CapabilityConstants DEF PreferEnv
    <3> QED  BY <3>1, <2>1, <1>1, <1>2 DEF Loads, Valid
  <2>5. CASE x = "secret"
    <3>1. Overlay(file', env').secret = Spaces
      BY <2>2, <2>3, <2>5, CapabilityConstants DEF EffSecret, PreferEnv
    <3> QED  BY <3>1, <2>1, <1>1, <1>2, CapabilityConstants DEF Loads, Valid
  <2>6. CASE x = "previous"
    <3>1. Overlay(file', env').previous = Spaces
      BY <2>2, <2>3, <2>6, CapabilityConstants DEF EffPrevious, PreferEnv
    <3> QED  BY <3>1, <2>1, <1>1, <1>2, CapabilityConstants DEF Loads, Valid
  <2> QED  BY <2>4, <2>5, <2>6 DEF Fields
<1>3. ASSUME file' \in {[file EXCEPT !.rest = "bad"], [file EXCEPT !.secret = Weak]}, env' = env
      PROVE  file' \in FileConfig /\ env' \in EnvConfig /\ ~Loads(file', env')
  <2>1. file' \in FileConfig /\ (file'.rest = "bad" \/ file'.secret = Weak)
    BY <1>1, <1>3 DEF FileConfig, Text
  <2>2. ~Valid(file')  BY <2>1, CapabilityConstants DEF Valid
  <2> QED  BY <2>1, <2>2, <1>1, <1>3 DEF Loads
<1>4. file' \in FileConfig /\ env' \in EnvConfig /\ ~Loads(file', env')
  BY <1>2, <1>3 DEF BadEdit
<1> QED  BY <1>0, <1>4, EditMoves

LEMMA RevertStep ==
    ASSUME CapabilityInv, Revert
    PROVE  CapabilityInv'
<1>0. /\ file' = lastGood[1] /\ env' = lastGood[2]
      /\ lastGood' = lastGood /\ running' = running /\ keys' = keys /\ capTokens' = capTokens
      /\ second' = second /\ switched' = switched /\ loads' = loads
  BY DEF Revert
<1>1. file' \in FileConfig /\ env' \in EnvConfig /\ EnvPaired(env')
  BY <1>0, BeforeEdit
<1>2. SameSecrets'
  BY <1>0 DEF SameSecrets, NowSecret, NowPrevious, GoodSecret, GoodPrevious
<1> QED  BY <1>0, <1>1, <1>2, EditMoves

LEMMA ClockStep ==
    ASSUME CapabilityInv, CapabilityTick
    PROVE  CapabilityInv'
<1>0. /\ second < MaxNow /\ second' = second + 1 /\ file' = file /\ env' = env
      /\ lastGood' = lastGood /\ running' = running /\ keys' = keys /\ capTokens' = capTokens
      /\ switched' = switched /\ loads' = loads
  BY DEF CapabilityTick
<1>1. second \in 0..MaxNow /\ switched \in Int
  BY DEF CapabilityInv, CapabilityTypeOK
<1>2. second' \in 0..MaxNow  BY <1>0, <1>1, CapabilityConstants
<1>3. CapabilityTypeOK'  BY <1>0, <1>2 DEF CapabilityInv, CapabilityTypeOK
<1>4. EditsSettled'
  <2>1. EnvPaired(lastGood[2])' /\ (EnvPaired(env) => EnvPaired(env)')
    BY <1>0 DEF CapabilityInv, EditsSettled, EnvPaired
  <2>2. Loads(file, env)' => Loads(file, env)  BY <1>0 DEF Loads, Valid, Overlay, PreferEnv
  <2>3. /\ NowSecret' = NowSecret /\ NowPrevious' = NowPrevious
        /\ GoodSecret' = GoodSecret /\ GoodPrevious' = GoodPrevious
    BY <1>0 DEF NowSecret, NowPrevious, GoodSecret, GoodPrevious
  <2>4. SameSecrets => SameSecrets'  BY <2>3 DEF SameSecrets
  <2>5. RotatedSecrets => RotatedSecrets'
    <3>1. second - switched > TokenTTL => second' - switched' > TokenTTL
      BY <1>0, <1>1, CapabilityConstants
    <3> QED  BY <2>3, <3>1 DEF RotatedSecrets
  <2> QED  BY <2>1, <2>2, <2>4, <2>5 DEF CapabilityInv, EditsSettled
<1>5. KeysSettled'  BY <1>0 DEF CapabilityInv, KeysSettled, GoodSecret, GoodPrevious
<1>6. TokensCovered'
  <2> SUFFICES ASSUME NEW t \in capTokens
               PROVE  /\ t.claims.exp <= second' + TokenTTL
                      /\ t.key # keys.current => t.claims.exp <= switched + TokenTTL
                      /\ t.key \in Secret /\ t.claims.exp >= second' =>
                            t.key \in {keys.current, keys.previous}
    BY <1>0 DEF TokensCovered
  <2>1. t.claims.exp \in Nat  BY DEF CapabilityInv, CapabilityTypeOK, FsClaims
  <2>2. t.claims.exp >= second' => t.claims.exp >= second  BY <1>0, <1>1, <2>1
  <2>3. t.claims.exp <= second + TokenTTL => t.claims.exp <= second' + TokenTTL
    BY <1>0, <1>1, <2>1, CapabilityConstants
  <2> QED  BY <2>2, <2>3 DEF CapabilityInv, TokensCovered
<1> QED  BY <1>3, <1>4, <1>5, <1>6 DEF CapabilityInv

LEMMA CapabilityStep ==
    ASSUME CapabilityInv, [CapabilityNext]_capVars
    PROVE  CapabilityInv'
<1>1. CASE UNCHANGED capVars
  <2>1. CapabilityTypeOK' /\ TokensCovered'
    BY <1>1 DEF capVars, CapabilityInv, CapabilityTypeOK, TokensCovered
  <2>2. EditsSettled'
    BY <1>1 DEF capVars, CapabilityInv, EditsSettled, EnvPaired, Loads, Valid, SameSecrets,
                RotatedSecrets, NowSecret, NowPrevious, GoodSecret, GoodPrevious
  <2>3. KeysSettled'
    BY <1>1 DEF capVars, CapabilityInv, KeysSettled, GoodSecret, GoodPrevious
  <2> QED  BY <2>1, <2>2, <2>3 DEF CapabilityInv
<1>2. CASE CapabilityNext
  BY <1>2, LoadStep, MoveStep, BadEditStep, RevertStep, ClockStep, RotateStep, MintStep
  DEF CapabilityNext
<1> QED  BY <1>1, <1>2

\* The configuration, the keys and the tokens keep their invariant, for every
\* set of secrets and every token life.
THEOREM CapabilityInvariant == CapabilitySpec => []CapabilityInv
BY CapabilityStarts, CapabilityStep, PTL DEF CapabilitySpec

\* A capability token grants what it was minted for until it expires, and no
\* longer, over restarts, documented rotations and bad edits (token.rs verify,
\* config.rs try_from_with).
THEOREM TokensAreHonoured == CapabilitySpec => []TokensHonoured
<1>1. CapabilityInv => TokensHonoured
  <2> SUFFICES ASSUME CapabilityInv, NEW t \in capTokens, NEW f \in FileId, NEW a \in TokenAct
               PROVE  Verify(keys, t, f, a) <=>
                        /\ t.claims.file = f /\ t.claims.act = a
                        /\ second <= t.claims.exp
                        /\ t.key \in Ephemeral => t.key = keys.current
    BY DEF TokensHonoured
  <2>0. /\ t.key \in Secret \cup Ephemeral /\ keys.current \in Secret \cup Ephemeral
        /\ keys.previous \in Secret \cup {Unset} /\ t.claims.exp \in Nat /\ second \in Nat
    BY DEF CapabilityInv, CapabilityTypeOK, KeysSettled, TokenKeys, SigningKey, FsClaims
  <2>1. t.claims.exp >= second <=> second <= t.claims.exp  BY <2>0
  <2>2. t.key \in Secret /\ t.claims.exp >= second => t.key \in {keys.current, keys.previous}
    BY DEF CapabilityInv, TokensCovered
  <2>3. keys.current # Unset /\ t.key # Unset
    BY <2>0, CapabilityConstants
  <2>4. Verify(keys, t, f, a) <=>
            /\ t.key \in {keys.current, keys.previous} \ {Unset} /\ t.claims.exp >= second
            /\ t.claims.file = f /\ t.claims.act = a
    BY DEF Verify, Secrets, DecodesToken
  <2> QED  BY <2>0, <2>1, <2>2, <2>3, <2>4, CapabilityConstants
<1> QED  BY <1>1, CapabilityInvariant, PTL


------------------------------------------------------------------------------
(* The data plane: the five components side by side.                         *)

\* Every behaviour of the composition is a behaviour of the replica manager,
\* of the routes, of the policy engine, of the rate limit and of the tokens:
\* what is proved of each holds of the behaviours the run explores.
THEOREM DataComposes ==
    DataSpec => Spec /\ ServeSpec /\ PolicySpec /\ LimitsSpec /\ CapabilitySpec
<1>1. DataInit => Init /\ ServeInit /\ PolicyInit /\ LimitsInit /\ CapabilityInit
  BY DEF DataInit
<1>2. [DataNext]_<<component, vars, serveVars, polVars, limitVars, capVars>> =>
        /\ [Next]_vars
        /\ [ServeNext]_serveVars
        /\ [PolicyNext]_polVars
        /\ [LimitsNext]_limitVars
        /\ [CapabilityNext]_capVars
  BY DEF DataNext
<1> QED
  BY <1>1, <1>2, PTL DEF DataSpec, Spec, ServeSpec, PolicySpec, LimitsSpec, CapabilitySpec

\* The state of every component keeps its type in every behaviour of the data
\* plane, from each component's own invariant.
THEOREM DataTypeCorrect == DataSpec => []DataTypesOK
<1>1. ServeInv => ServeTypeOK
  <2> SUFFICES ASSUME ServeInv PROVE ServeTypeOK  OBVIOUS
  <2>1. \A c \in Client : call[c] \in CallRecord /\ held[c] \in [RouteResource -> AnyCopy]
    BY DEF ServeInv, ServeTypes
  <2>2. \A c \in Client : call[c].pc \in {"idle", "marker", "fetch", "stream"}
    BY <2>1 DEF CallRecord
  <2>3. DOMAIN held = Client /\ \A c \in Client : DOMAIN held[c] = RouteResource
    BY <2>1 DEF ServeInv, ServeTypes
  <2> QED  BY <2>2, <2>3 DEF ServeInv, ServeTypes, ServeTypeOK, Bytes, Coverage
<1>2. PolicyInv => PolicyTypeOK
  <2> SUFFICES ASSUME PolicyInv PROVE PolicyTypeOK  OBVIOUS
  <2>1. \A r \in Req : preq[r].pc \in Phase
    BY DEF PolicyInv, PolicyTypes, PolicyRequest, RequestRecord
  <2>2. wins \in 0..MaxEdits
    BY PolicyAssumption DEF PolicyInv, PolicyCounters
  <2> QED
    BY <2>1, <2>2 DEF PolicyInv, PolicyTypes, PolicyCounters, WriterCommits, Locked,
        StoredValid, PolicyTypeOK
<1>3. TypeOK /\ ServeInv /\ PolicyInv /\ LimitsInv /\ CapabilityInv => DataTypesOK
  BY <1>1, <1>2 DEF LimitsInv, CapabilityInv, DataTypesOK
<1> QED
  BY <1>3, DataComposes, SyncTypeCorrect, ServeInvariant, PolicyInvariant, LimitsInvariant,
     CapabilityInvariant, PTL
=============================================================================
