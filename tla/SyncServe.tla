------------------------------ MODULE SyncServe ------------------------------
(***************************************************************************)
(* The sync routes (sync/route.rs) as a client with an HTTP cache sees     *)
(* them: the pointers /sync/status and /sync/sync with their validators,   *)
(* and the replica objects behind the download gate (limits.rs).           *)
(*                                                                         *)
(* The feed and the replica advance on their own (ReplicaSync has the      *)
(* detail).  A client revalidates what it holds, except an object it got   *)
(* under the immutable cache policy, which it never asks for again.        *)
(***************************************************************************)
EXTENDS Naturals, FiniteSets

CONSTANTS
    Client,
    Caching,       \* the clients that keep what they are sent
    MaxWalHead,    \* bound: entries of the feed
    Segment,       \* names of engine files that are written once
    Manifest,      \* manifest.json, which every commit rewrites
    Permits,       \* max_concurrent_downloads; 0 switches the gate off
    NotBuilt, Dropped, NoCopy

ASSUME ServeAssumption ==
    /\ MaxWalHead \in Nat
    /\ NotBuilt \notin Nat /\ Dropped \notin Nat /\ NotBuilt # Dropped
    /\ Manifest \notin Segment
    /\ {"status", "sync"} \cap (Segment \cup {Manifest}) = {}

VARIABLES
    walHead, coverage, rebuild,  \* the feed, the coverage marker, a queued rebuild
    objects,       \* object key -> bytes, named by a number; NotBuilt before, Dropped after
    held,          \* client -> resource -> cached [tag, body, fresh]
    call           \* the request of each client

serveVars == <<walHead, coverage, rebuild, objects, held, call>>

Object == Segment \cup {Manifest}
RouteResource == Object \cup {"status", "sync"}
Exists(k) == objects[k] \notin {NotBuilt, Dropped}
NoCall == [pc |-> "idle", res |-> NoCopy, head |-> 0, bytes |-> Dropped]

\* A body of a pointer is what the client learns from it.
StatusBody(a, h) == [applied |-> a, head |-> h]
SyncBody(a, p) == [applied |-> a, pending |-> p]

ServeTypeOK ==
    /\ walHead \in 0..MaxWalHead /\ coverage \in 0..MaxWalHead \cup {NotBuilt} /\ rebuild \in BOOLEAN
    /\ objects \in [Object -> 0..MaxWalHead \cup {NotBuilt, Dropped}]
    /\ DOMAIN held = Client /\ \A c \in Client : DOMAIN held[c] = RouteResource
    /\ \A c \in Client : call[c].pc \in {"idle", "marker", "fetch", "stream"}

ServeInit ==
    /\ walHead = 0 /\ coverage = NotBuilt /\ rebuild = FALSE
    /\ objects = [k \in Object |-> NotBuilt]
    /\ held = [c \in Client |-> [r \in RouteResource |-> NoCopy]]
    /\ call = [c \in Client |-> NoCall]

-----------------------------------------------------------------------------
(* The feed grows, a commit moves the marker and rewrites the manifest, a  *)
(* rebuild is queued and ends; the engine writes and drops segments, whose *)
(* names (uuids) it never uses again.                                      *)
FeedGrows ==
    /\ walHead < MaxWalHead
    /\ walHead' = walHead + 1
    /\ rebuild' \in {rebuild, TRUE}
    /\ UNCHANGED <<coverage, objects, held, call>>

ReplicaCommits ==
    /\ coverage # walHead
    /\ coverage' = walHead
    /\ rebuild' = FALSE
    /\ \E k \in {s \in Segment : objects[s] = NotBuilt} \cup {Manifest} :
        objects' = [objects EXCEPT ![Manifest] = walHead, ![k] = walHead]
    /\ UNCHANGED <<walHead, held, call>>

Compaction ==
    /\ \E s \in Segment : Exists(s) /\ objects' = [objects EXCEPT ![s] = Dropped]
    /\ UNCHANGED <<walHead, coverage, rebuild, held, call>>

-----------------------------------------------------------------------------
\* Mutant: the tag leaves out the head, which other subjects move.
StatusEtagHeadless(a, h) == <<"snap", a>>

StatusEtag(a, h) == <<"snap", a, "h", h>>

\* Mutant: the tag leaves out the queued rebuild.
AdvanceEtagCoverage(a, p) == <<"snap", a>>

AdvanceEtag(a, p) == <<"snap", a, "p", p>>

\* etag_matches: the client offers the tag of what it holds.
EtagMatches(c, res, tag) == held[c][res] # NoCopy /\ held[c][res].tag = tag

\* A 304 leaves the copy of the client; a 200 replaces it, where one is kept.
Respond(c, res, tag, body, fresh) ==
    held' = IF c \notin Caching \/ EtagMatches(c, res, tag) THEN held
            ELSE [held EXCEPT ![c][res] = [tag |-> tag, body |-> body, fresh |-> fresh]]

\* status_handler reads the head, then the marker.
StatusHead(c) ==
    /\ call[c].pc = "idle"
    /\ call' = [call EXCEPT ![c] = [NoCall EXCEPT !.pc = "marker", !.head = walHead]]
    /\ UNCHANGED <<walHead, coverage, rebuild, objects, held>>

StatusReply(c) ==
    /\ call[c].pc = "marker"
    /\ Respond(c, "status", StatusEtag(coverage, call[c].head), StatusBody(coverage, call[c].head), FALSE)
    /\ call' = [call EXCEPT ![c] = NoCall]
    /\ UNCHANGED <<walHead, coverage, rebuild, objects>>

\* The outcome of advance: a replica that was never built covers 0, and the
\* rebuild that it needs is queued.
AppliedSeq == IF coverage = NotBuilt THEN 0 ELSE coverage
PendingBuild == rebuild \/ coverage = NotBuilt

\* sync_handler answers with the outcome of advance.
SyncReply(c) ==
    /\ call[c].pc = "idle"
    /\ Respond(c, "sync", AdvanceEtag(AppliedSeq, PendingBuild),
               SyncBody(AppliedSeq, PendingBuild), FALSE)
    /\ rebuild' = PendingBuild
    /\ UNCHANGED <<walHead, coverage, objects, call>>

-----------------------------------------------------------------------------
(* GET /sync/db/{object} *)

\* resolve_object: a path with an empty or .. segment is refused, so every
\* object has one spelling.  is_mutable_object_key decides on the key.
IsMutable(k) == k = Manifest

\* The permits are those that requests in the store and streams hold.
Holding == {c \in Client : call[c].pc \in {"fetch", "stream"}}

\* ConcurrencyGate::acquire: none when the gate is off, else try_acquire.
Acquire == Permits = 0 \/ Cardinality(Holding) < Permits

MayReuse(c, k) == held[c][k] # NoCopy /\ held[c][k].fresh

\* A client asks unless it may use its copy; without a permit it gets 429.
ObjectStart(c, k) ==
    /\ call[c].pc = "idle"
    /\ ~MayReuse(c, k)
    /\ Acquire
    /\ call' = [call EXCEPT ![c] = [NoCall EXCEPT !.pc = "fetch", !.res = k]]
    /\ UNCHANGED <<walHead, coverage, rebuild, objects, held>>

\* The store answers: 404, 304, or the bytes as a stream with the permit.
\* The tag of an object is that of its bytes.
ObjectGet(c) ==
    LET k == call[c].res IN
    /\ call[c].pc = "fetch"
    /\ IF ~Exists(k) \/ EtagMatches(c, k, <<"bytes", objects[k]>>)
       THEN call' = [call EXCEPT ![c] = NoCall]
       ELSE call' = [call EXCEPT ![c].pc = "stream", ![c].bytes = objects[k]]
    /\ UNCHANGED <<walHead, coverage, rebuild, objects, held>>

\* The stream ends, and drops its permit; only a complete body is kept.
StreamEnd(c) ==
    LET k == call[c].res IN
    /\ call[c].pc = "stream"
    /\ \/ Respond(c, k, <<"bytes", call[c].bytes>>, call[c].bytes, ~IsMutable(k))
       \/ UNCHANGED <<held>>
    /\ call' = [call EXCEPT ![c] = NoCall]
    /\ UNCHANGED <<walHead, coverage, rebuild, objects>>

ServeNext ==
    \/ FeedGrows \/ ReplicaCommits \/ Compaction
    \/ \E c \in Client :
        \/ StatusHead(c) \/ StatusReply(c) \/ SyncReply(c)
        \/ \E k \in Object : ObjectStart(c, k)
        \/ ObjectGet(c) \/ StreamEnd(c)

ServeSpec == ServeInit /\ [][ServeNext]_serveVars

-----------------------------------------------------------------------------
(* A 304 is honest: when the validator of a copy is the one the server     *)
(* would send now, the copy is the body it would send now, also for the    *)
(* queued rebuild and for a head that only other subjects moved ("the 304  *)
(* fired exactly when there was new work").                                *)
NotModifiedHonest ==
    \A c \in Client :
        /\ EtagMatches(c, "status", StatusEtag(coverage, walHead))
            => held[c]["status"].body = StatusBody(coverage, walHead)
        /\ EtagMatches(c, "sync", AdvanceEtag(AppliedSeq, PendingBuild))
            => held[c]["sync"].body = SyncBody(AppliedSeq, PendingBuild)

(* "Caching it is how a client ends up pinned to a replica state that no   *)
(* longer exists": a copy that a client uses without asking has the bytes  *)
(* the key holds for as long as the key exists.                            *)
CachedForGood ==
    \A c \in Client, k \in Object :
        (MayReuse(c, k) /\ Exists(k))
            => held[c][k].body = objects[k]

(* What a client may show from its cache, after a 304 or under the         *)
(* immutable policy, is what the server has.                               *)
CachesHonest == NotModifiedHonest /\ CachedForGood
=============================================================================
