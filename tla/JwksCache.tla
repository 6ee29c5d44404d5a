------------------------------ MODULE JwksCache ------------------------------
(***************************************************************************)
(* The signing keys of the identity provider as the JWT middleware sees    *)
(* them (http/middleware/jwks.rs): a key map behind a read-write lock, a   *)
(* refresh on an unknown kid, and a window that bounds the refreshes.      *)
(*                                                                         *)
(* The provider publishes the documents Doc[1], Doc[2], ... one after the  *)
(* other.  A fetch takes its answer from the document of the moment and    *)
(* stores it in a later step: the window is shorter than the timeout of    *)
(* the HTTP client, so a second fetch can start and land in between.       *)
(***************************************************************************)
EXTENDS Naturals, FiniteSets, Sequences

CONSTANTS
    Caller,        \* the requests that ask for a key
    Doc,           \* the documents of the provider, in publication order
    SignKid,       \* the key the provider signs with under each document
    Debounce,      \* JWKS_REFRESH_DEBOUNCE in ticks
    MaxFaults,     \* bound: fetches that fail or hold no usable key
    NoKid          \* a JWK, or a token header, without a kid

VARIABLES
    version,       \* the document the provider serves
    cache,         \* JwksKeysInner::keys
    sinceRefresh,  \* last_refresh.elapsed(), up to Debounce
    sinceFetch,    \* history: ticks since a fetch started, up to Debounce
    get,           \* the call of JwksKeys::get of each caller
    faults

jwksVars == <<version, cache, sinceRefresh, sinceFetch, get, faults>>

\* A JWK is [kid, kty, alg]; alg "none" stands for an absent alg and "unknown"
\* for one that is not recognised, which the code keeps as RS256 as well
\* (its comment says that it is skipped); one for encryption is dropped.
ToSigningKey(jwk) ==
    /\ jwk.kty # "oct"
    /\ jwk.alg \in {"none", "unknown", "RS256", "ES256"}
    /\ jwk.kid # NoKid

Usable(doc) == {jwk.kid : jwk \in {j \in doc : ToSigningKey(j)}}

Kids == UNION {Usable(Doc[v]) : v \in 1..Len(Doc)}

ASSUME JwksAssumption ==
    /\ Len(Doc) \in Nat \ {0} /\ MaxFaults \in Nat
    /\ Usable(Doc[1]) # {}
    /\ \A v \in 1..Len(Doc) : SignKid[v] \in Usable(Doc[v])
    /\ Debounce \in Nat \ {0}

Idle == [pc |-> "idle", kid |-> NoKid, doc |-> {}, found |-> FALSE]

JwksTypeOK ==
    /\ version \in 1..Len(Doc)
    /\ cache \subseteq Kids
    /\ sinceRefresh \in 0..Debounce
    /\ sinceFetch \in 0..Debounce
    /\ get \in [Caller -> [pc : {"idle", "lookup", "refresh", "fetch", "landed", "again", "done"},
                           kid : Kids \cup {NoKid}, doc : SUBSET Kids, found : BOOLEAN]]
    /\ faults \in 0..MaxFaults

\* JwksKeys::build: the first fetch must give keys, and opens the window.
JwksInit ==
    /\ version = 1
    /\ cache = Usable(Doc[1])
    /\ sinceRefresh = 0
    /\ sinceFetch = 0
    /\ get = [c \in Caller |-> Idle]
    /\ faults = 0

\* A missing kid is resolved only by a cache of exactly one key.
Lookup(kid) == IF kid = NoKid THEN Cardinality(cache) = 1 ELSE kid \in cache

JwksGet(c, kid) ==
    /\ get[c].pc = "idle"
    /\ get' = [get EXCEPT ![c] = [Idle EXCEPT !.pc = "lookup", !.kid = kid]]
    /\ UNCHANGED <<version, cache, sinceRefresh, sinceFetch, faults>>

\* The fast path, and the lookup after the refresh, which ends the call.
JwksLookup(c) ==
    /\ get[c].pc \in {"lookup", "again"}
    /\ get' = IF Lookup(get[c].kid) \/ get[c].pc = "again"
              THEN [get EXCEPT ![c].pc = "done", ![c].doc = {}, ![c].found = Lookup(get[c].kid)]
              ELSE [get EXCEPT ![c].pc = "refresh"]
    /\ UNCHANGED <<version, cache, sinceRefresh, sinceFetch, faults>>

\* The critical section of last_refresh: the attempt consumes the window.
MaybeRefresh(c) ==
    /\ get[c].pc = "refresh"
    /\ IF sinceRefresh < Debounce
       THEN /\ get' = [get EXCEPT ![c].pc = "again"]
            /\ UNCHANGED <<sinceRefresh, sinceFetch>>
       ELSE /\ get' = [get EXCEPT ![c].pc = "fetch"]
            /\ sinceRefresh' = 0
            /\ sinceFetch' = 0
    /\ UNCHANGED <<version, cache, faults>>

\* fetch_keys: the document of the moment, one without a usable key, or an
\* error; the last two leave nothing to store.
FetchKeys(c) ==
    /\ get[c].pc = "fetch"
    /\ \/ /\ get' = [get EXCEPT ![c].pc = "landed", ![c].doc = Usable(Doc[version])]
          /\ UNCHANGED faults
       \/ /\ faults < MaxFaults
          /\ faults' = faults + 1
          /\ get' = [get EXCEPT ![c].pc = "landed", ![c].doc = {}]
    /\ UNCHANGED <<version, cache, sinceRefresh, sinceFetch>>

\* Mutant: no store after a failure.
StoreKeysOnce(c) ==
    /\ get[c].pc = "landed"
    /\ cache' = IF get[c].doc # {} /\ faults = 0 THEN get[c].doc ELSE cache
    /\ get' = [get EXCEPT ![c].pc = "again", ![c].doc = {}]
    /\ UNCHANGED <<version, sinceRefresh, sinceFetch, faults>>

\* The second half of maybe_refresh: replace the keys unless there are none.
StoreKeys(c) ==
    /\ get[c].pc = "landed"
    /\ cache' = IF get[c].doc # {} THEN get[c].doc ELSE cache
    /\ get' = [get EXCEPT ![c].pc = "again", ![c].doc = {}]
    /\ UNCHANGED <<version, sinceRefresh, sinceFetch, faults>>

JwksReturn(c) ==
    /\ get[c].pc = "done"
    /\ get' = [get EXCEPT ![c] = Idle]
    /\ UNCHANGED <<version, cache, sinceRefresh, sinceFetch, faults>>

JwksTick ==
    /\ sinceRefresh < Debounce \/ sinceFetch < Debounce
    /\ sinceRefresh' = IF sinceRefresh < Debounce THEN sinceRefresh + 1 ELSE Debounce
    /\ sinceFetch' = IF sinceFetch < Debounce THEN sinceFetch + 1 ELSE Debounce
    /\ UNCHANGED <<version, cache, get, faults>>

\* The provider publishes its next document.
ProviderRotates ==
    /\ version < Len(Doc)
    /\ version' = version + 1
    /\ UNCHANGED <<cache, sinceRefresh, sinceFetch, get, faults>>

JwksStep(c) ==
    JwksLookup(c) \/ MaybeRefresh(c) \/ FetchKeys(c) \/ StoreKeys(c)

JwksNext ==
    \/ \E c \in Caller :
        \/ \E kid \in Kids \cup {NoKid} : JwksGet(c, kid)
        \/ JwksStep(c)
        \/ JwksReturn(c)
    \/ JwksTick
    \/ ProviderRotates

\* A call of get runs to its end (the HTTP client has a timeout), and time
\* passes.
JwksFairness ==
    /\ \A c \in Caller : WF_jwksVars(JwksStep(c)) /\ WF_jwksVars(JwksReturn(c))
    /\ WF_jwksVars(JwksTick)

-----------------------------------------------------------------------------

(* "At most once per JWKS_REFRESH_DEBOUNCE": a fetch starts only when the  *)
(* last one, successful or not, started a whole window ago.                *)
OneFetchPerWindow ==
    [][(\E c \in Caller : get[c].pc # "fetch" /\ get'[c].pc = "fetch")
        => sinceFetch = Debounce]_jwksVars

\* Callers ask again and again for the key of the last document.
LastKid == SignKid[Len(Doc)]
Asked == \E c \in Caller : get[c].pc = "lookup" /\ get[c].kid = LastKid

(* After the provider's last rotation, a key that requests keep asking for *)
(* arrives in the cache and stays there: neither the failures nor an older *)
(* fetch that lands late (get then misses and refreshes again) loses it.   *)
RotationNoticed ==
    (<>(version = Len(Doc)) /\ []<>Asked) => <>[](LastKid \in cache)

(* The debounce window bounds the fetches, and the key still arrives.      *)
RotationHandled == OneFetchPerWindow /\ RotationNoticed
=============================================================================
