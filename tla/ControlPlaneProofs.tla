-------------------------- MODULE ControlPlaneProofs --------------------------
(***************************************************************************)
(* The merge of a rebuild and the login session, for every key space and   *)
(* every pair of stores, and for every number of requests, tokens, flows,  *)
(* keys and tenants; and the types of the plane that they make up with the *)
(* lease.                                                                  *)
(***************************************************************************)
EXTENDS MCControlPlane, WriterLeaseProofs

-----------------------------------------------------------------------------
(* The merge *)

Open == buildAt \in {"merging", "committing"}
Aligned == Leads(desired, replica) \/ Leads(replica, desired)

\* No arm has written: the cursors are level and no key up to them differs.
NoDiffSoFar ==
    Open /\ ~wrote =>
        a = b /\ \A k \in Key : k <= a => desired[k] = replica[k]

\* The rows up to both cursors are done, the others are as they were; a
\* cursor that is ahead has ended, and left nothing behind the other.
DoneBehind ==
    Open /\ Aligned =>
        /\ a = b \/ a = End \/ b = End
        /\ a = End => \A k \in Key : b < k => desired[k] = Absent
        /\ b = End => \A k \in Key : a < k => replica[k] = Absent
        /\ \A k \in Key : k <= a /\ k <= b => staged[k] = desired[k]
        /\ \A k \in Key : a < k \/ b < k => staged[k] = replica[k]

AtEnd == buildAt = "committing" => a = End /\ b = End

MergeInv == MergeTypeOK /\ NoDiffSoFar /\ DoneBehind /\ AtEnd

-----------------------------------------------------------------------------
\* Nothing is being built at the start.
LEMMA MergeInitInv == MergeInit => MergeInv
<1> SUFFICES ASSUME MergeInit PROVE MergeInv
  OBVIOUS
<1>1. EmptyStore \in Store
  BY DEF EmptyStore, Store
<1>a. head \in 0..MaxHead /\ applied \in -1..head /\ target \in 0..head /\ a \in 0..End /\ b \in 0..End
  BY MergeAssumption, SMT DEF MergeInit, End
<1>b. wrote \in BOOLEAN
  BY Zenon DEF MergeInit
<1>2. MergeTypeOK
  BY <1>1, <1>a, <1>b, Zenon DEF MergeInit, MergeTypeOK
<1> QED BY <1>2 DEF MergeInit, MergeInv, NoDiffSoFar, DoneBehind, AtEnd, Open

\* One arm of the match keeps the types.
LEMMA CompareType ==
    ASSUME MergeTypeOK, NEW x \in 1..End, NEW y \in 1..End, x # End \/ y # End, Compare(x, y)
    PROVE  staged' \in Store /\ wrote' \in BOOLEAN
BY MergeAssumption DEF MergeTypeOK, Compare, Put, Store, Key, End

\* A turn of the loop that takes x and y: a difference sets wrote, and with
\* aligned keys the rows up to both cursors become the desired ones.
LEMMA MergeStepInv == MergeInv /\ MergeStep => MergeInv'
<1> SUFFICES ASSUME MergeInv, MergeStep PROVE MergeInv'
  OBVIOUS
<1>0. PICK x \in 1..End, y \in 1..End :
        /\ IsNext(desired, a, x) /\ IsNext(replica, b, y)
        /\ a' = x /\ b' = y
        /\ \/ x = End /\ y = End /\ buildAt' = "committing" /\ UNCHANGED <<staged, wrote>>
           \/ (x # End \/ y # End) /\ Compare(x, y) /\ UNCHANGED buildAt
  BY DEF MergeStep
<1>1. /\ buildAt = "merging"
      /\ UNCHANGED <<head, replica, applied, target, desired>>
      /\ MaxKey \in Nat /\ Absent \notin Value
      /\ End = MaxKey + 1 /\ Key = 1..MaxKey
  BY MergeAssumption DEF MergeStep, Key, End
<1>2. MergeTypeOK'
  <2>1. staged' \in Store /\ wrote' \in BOOLEAN
    BY <1>0, CompareType DEF MergeInv, MergeTypeOK
  <2>2. buildAt' \in {"merging", "committing"}
    BY <1>0, <1>1
  <2> QED BY <1>0, <1>1, <2>1, <2>2 DEF MergeInv, MergeTypeOK
<1>3. NoDiffSoFar'
  <2> SUFFICES ASSUME ~wrote'
               PROVE  x = y /\ \A k \in Key : k <= x => desired[k] = replica[k]
    BY <1>0, <1>1 DEF NoDiffSoFar, Open
  <2>1. x = y /\ ~wrote /\ (x \in Key => desired[x] = replica[x])
    BY <1>0, <1>1 DEF MergeInv, MergeTypeOK, Compare, Put
  <2>2. a = b /\ a \in 0..End /\ \A k \in Key : k <= a => desired[k] = replica[k]
    BY <2>1, <1>1 DEF MergeInv, MergeTypeOK, NoDiffSoFar, Open
  <2>3. \A k \in Key : a < k /\ k < x => desired[k] = Absent /\ replica[k] = Absent
    BY <1>0, <1>1, <2>1, <2>2 DEF IsNext
  <2> QED BY <1>1, <2>1, <2>2, <2>3
<1>4. DoneBehind'
  <2> SUFFICES ASSUME Aligned'
               PROVE  /\ x = y \/ x = End \/ y = End
                      /\ x = End => \A k \in Key : y < k => desired[k] = Absent
                      /\ y = End => \A k \in Key : x < k => replica[k] = Absent
                      /\ \A k \in Key : k <= x /\ k <= y => staged'[k] = desired[k]
                      /\ \A k \in Key : x < k \/ y < k => staged'[k] = replica[k]
    BY <1>0, <1>1 DEF DoneBehind
  <2>1. Aligned
    BY <1>1 DEF Aligned, Leads, Rows
  <2>2. /\ a = b \/ a = End \/ b = End
        /\ a = End => \A k \in Key : b < k => desired[k] = Absent
        /\ b = End => \A k \in Key : a < k => replica[k] = Absent
        /\ \A k \in Key : k <= a /\ k <= b => staged[k] = desired[k]
        /\ \A k \in Key : a < k \/ b < k => staged[k] = replica[k]
        /\ a \in 0..End /\ b \in 0..End
    BY <1>1, <2>1 DEF MergeInv, DoneBehind, Open, MergeTypeOK
  <2>3. /\ a <= x /\ b <= y
        /\ x # End => x \in Key /\ a < x /\ desired[x] # Absent
        /\ y # End => y \in Key /\ b < y /\ replica[y] # Absent
        /\ \A k \in Key : a < k /\ k < x => desired[k] = Absent
        /\ \A k \in Key : b < k /\ k < y => replica[k] = Absent
    BY <1>0, <1>1, <2>2 DEF IsNext
  <2>4. x = y \/ x = End \/ y = End
    <3> SUFFICES ASSUME x # y, x # End, y # End PROVE FALSE
      OBVIOUS
    <3>1. a = b
      BY <2>2, <2>3, <1>1
    <3>2. x < y => desired[x] # Absent /\ replica[x] = Absent
      BY <2>3, <3>1, <1>1
    <3>3. y < x => replica[y] # Absent /\ desired[y] = Absent
      BY <2>3, <3>1, <1>1
    <3> QED BY <2>1, <2>3, <3>2, <3>3, <1>1 DEF Aligned, Leads, Rows
  <2>5. /\ x = End => \A k \in Key : y < k => desired[k] = Absent
        /\ y = End => \A k \in Key : x < k => replica[k] = Absent
    BY <1>1, <2>2, <2>3
  <2>6. staged \in Store
    BY DEF MergeInv, MergeTypeOK
  <2>7. ASSUME NEW k \in Key
        PROVE  /\ k <= x /\ k <= y => staged'[k] = desired[k]
               /\ x < k \/ y < k => staged'[k] = replica[k]
    <3>1. CASE x = End /\ y = End
      <4>1. staged' = staged
        BY <3>1, <1>0
      <4>2. CASE k <= a /\ k <= b
        BY <4>1, <4>2, <3>1, <2>2, <1>1
      <4>3. CASE a < k \/ b < k
        BY <4>1, <4>3, <3>1, <2>2, <2>3, <1>1
      <4> QED BY <4>2, <4>3, <2>2, <1>1
    <3>2. CASE x < y
      <4>1. staged' = [staged EXCEPT ![x] = desired[x]] /\ x \in Key
        BY <3>2, <1>0, <1>1 DEF Compare, Put
      <4>2. staged'[k] = IF k = x THEN desired[x] ELSE staged[k]
        BY <4>1, <2>6 DEF Store
      <4>3. y = End /\ x # End /\ (a = b \/ b = End)
        BY <3>2, <2>2, <2>3, <2>4, <1>1
      <4>4. a < k /\ k # x => staged[k] = replica[k] /\ replica[k] = Absent
        BY <4>3, <2>2, <2>3, <1>1
      <4>5. k <= a => staged[k] = desired[k]
        BY <4>3, <2>2, <1>1
      <4> QED BY <4>1, <4>2, <4>3, <4>4, <4>5, <2>2, <2>3, <1>1
    <3>3. CASE y < x
      <4>1. staged' = [staged EXCEPT ![y] = Absent] /\ y \in Key
        BY <3>3, <1>0, <1>1 DEF Compare, Put
      <4>2. staged'[k] = IF k = y THEN Absent ELSE staged[k]
        BY <4>1, <2>6 DEF Store
      <4> QED BY <4>1, <4>2, <3>3, <2>2, <2>3, <2>4, <1>1
    <3>4. CASE x = y /\ x # End
      <4>1. \/ staged' = [staged EXCEPT ![x] = desired[x]]
            \/ staged' = staged /\ desired[x] = replica[x]
        BY <3>4, <1>0, <1>1 DEF Compare, Put
      <4>2. \/ staged'[k] = IF k = x THEN desired[x] ELSE staged[k]
            \/ staged'[k] = staged[k] /\ desired[x] = replica[x]
        BY <4>1, <2>6 DEF Store
      <4> QED BY <4>2, <3>4, <2>2, <2>3, <1>1
    <3> QED BY <3>1, <3>2, <3>3, <3>4, <1>1
  <2> QED BY <2>4, <2>5, <2>7
<1>5. AtEnd'
  BY <1>0, <1>1 DEF AtEnd
<1> QED BY <1>2, <1>3, <1>4, <1>5 DEF MergeInv

\* Every step preserves the invariant: only CopyFiltered and the loop touch
\* what it speaks of while a build is open.
LEMMA MergeNextInv == MergeInv /\ [MergeNext]_mergeVars => MergeInv'
<1> SUFFICES ASSUME MergeInv, [MergeNext]_mergeVars PROVE MergeInv'
  OBVIOUS
<1> USE MergeAssumption
<1>1. CASE UNCHANGED mergeVars
  BY <1>1 DEF mergeVars, MergeInv, MergeTypeOK, NoDiffSoFar, DoneBehind, AtEnd, Open, Aligned, Leads, Rows
<1>2. CASE FeedAppend
  BY <1>2 DEF FeedAppend, MergeInv, MergeTypeOK, NoDiffSoFar, DoneBehind, AtEnd, Open, Aligned, Leads, Rows
<1>3. CASE BuildStart
  BY <1>3 DEF BuildStart, MergeInv, MergeTypeOK, NoDiffSoFar, DoneBehind, AtEnd, Open
<1>4. CASE CopyFiltered
  <2>a. a' \in 0..End /\ b' \in 0..End /\ buildAt' = "merging" /\ AtEnd'
    BY <1>4, SMT DEF CopyFiltered, AtEnd, End
  <2>b. wrote' \in BOOLEAN
    BY <1>4, Zenon DEF CopyFiltered
  <2>1. MergeTypeOK'
    BY <1>4, <2>a, <2>b, Zenon DEF CopyFiltered, MergeInv, MergeTypeOK
  <2>2. a' = 0 /\ b' = 0 /\ staged' = replica' /\ End \in Nat \ {0} /\ Key = 1..MaxKey
    BY <1>4 DEF CopyFiltered, Key, End
  <2>3. NoDiffSoFar'
    BY <2>2 DEF NoDiffSoFar
  <2>4. DoneBehind'
    BY <2>2 DEF DoneBehind
  <2> QED BY <2>a, <2>1, <2>3, <2>4 DEF MergeInv
<1>5. CASE MergeStep
  BY <1>5, MergeStepInv
<1>6. CASE Commit
  BY <1>6 DEF Commit, MergeInv, MergeTypeOK, NoDiffSoFar, DoneBehind, AtEnd, Open
<1>7. CASE Abandon
  BY <1>7 DEF Abandon, MergeInv, MergeTypeOK, NoDiffSoFar, DoneBehind, AtEnd, Open
<1> QED BY <1>1, <1>2, <1>3, <1>4, <1>5, <1>6, <1>7 DEF MergeNext

\* A build that staged nothing found the replica equal to the filtered view,
\* so rolling it back, or moving only the marker, loses nothing.
THEOREM MergeEmptyDiff == MergeSpec => []EmptyDiffIsExact
<1>1. MergeInv => EmptyDiffIsExact
  <2> SUFFICES ASSUME MergeInv, buildAt = "committing", ~wrote PROVE replica = desired
    BY DEF EmptyDiffIsExact
  <2>1. \A k \in Key : desired[k] = replica[k]
    BY MergeAssumption DEF MergeInv, NoDiffSoFar, AtEnd, Open, Key, End
  <2> QED BY <2>1 DEF MergeInv, MergeTypeOK, Store
<1> QED BY <1>1, MergeInitInv, MergeNextInv, PTL DEF MergeSpec

\* With keys that line up from the first one on, build_full commits exactly
\* the filtered view: first builds, changed values, and rows added or
\* dropped at the end.
THEOREM MergeAligned == MergeSpec => []ExactWhenAligned
<1>1. MergeInv => ExactWhenAligned
  <2> SUFFICES ASSUME MergeInv, buildAt = "committing", Aligned PROVE staged = desired
    BY DEF ExactWhenAligned, Aligned
  <2>1. \A k \in Key : staged[k] = desired[k]
    BY MergeAssumption DEF MergeInv, DoneBehind, AtEnd, Open, Key, End
  <2> QED BY <2>1 DEF MergeInv, MergeTypeOK, Store
<1> QED BY <1>1, MergeInitInv, MergeNextInv, PTL DEF MergeSpec

-----------------------------------------------------------------------------
(* The login session *)

Status == {"ok", "failed", "refused"}
Set == Jars({Keep})
Request ==
    [pc : {"idle", "keys", "handler", "reply"}, op : Op \cup {"none"},
     arg : {None, Path, BadPath, Denied} \cup Flow, carried : Flow \cup TokenId \cup {None},
     tok : TokenId \cup {Junk, None}, cookie : BOOLEAN, claims : BOOLEAN, unusable : BOOLEAN,
     reply : [status : Status, set : Set] \cup {None}]

AuthTypes ==
    /\ JwksTypeOK /\ started \in 1..version /\ deployment \in Deployments
    /\ jar \in Jars({})
    /\ flows \in 0..MaxFlow /\ redeemed \subseteq 1..flows
    /\ tokens \in Seq([kid : Kids, ten : Tenant]) /\ Len(tokens) <= MaxToken
    /\ expired \subseteq DOMAIN tokens
    /\ grants \subseteq DOMAIN tokens /\ revoking \subseteq DOMAIN tokens
    /\ req \in [Caller -> Request]

\* A token that has been issued, to a tenant that may have one.
Gated == {t \in DOMAIN tokens : deployment = "templated" => tokens[t].ten \in AllowedTenants}

JarGated == jar.auth \in Gated \cup {None} /\ jar.refresh \in Gated \cup {None}

\* What a request carries came from the cookies, and what an answer sets was
\* verified; an answer of success sets a session.
RequestGated(q, issued, gated, begun) ==
    /\ q.pc = "keys" => q.tok \in issued
    /\ q.claims => q.tok \in gated
    /\ q.op = "callback" => q.arg \in {Denied, None} \cup 1..begun
    /\ q.op \in {"refresh", "logout"} => q.carried \in gated \cup {None}
    /\ q.pc = "reply" =>
        /\ q.carried = None /\ q.reply \in [status : Status, set : Set]
        /\ q.reply.set.auth \in gated \cup {None, Keep}
        /\ q.reply.set.refresh \in gated \cup {None, Keep}
        /\ q.op \in {"callback", "refresh"} /\ q.reply.status = "ok" => q.reply.set.auth \in TokenId

RequestsGated == \A r \in Caller : RequestGated(req[r], DOMAIN tokens, Gated, flows)

\* The answer to r, under way, that replaces the refresh token.
Replaces(q) == q.pc = "reply" /\ q.reply.set.refresh # Keep
Live == grants \ revoking

\* A refresh token that does not work any more is about to be replaced, and
\* one that an answer brings works and is in nobody's hands yet.
CookieReplaced ==
    version = 1 =>
        jar.refresh \in Live \cup {None} \/ \E r \in Caller : Replaces(req[r])
InHand(q) == IF q.op \in {"refresh", "logout"} THEN {q.carried} ELSE {}
Unused(r) ==
    LET t == req[r].reply.set.refresh IN
    Replaces(req[r]) /\ t # None =>
        /\ t \in Live /\ t # jar.refresh
        /\ \A s \in Caller : /\ t \notin InHand(req[s])
                             /\ s # r /\ Replaces(req[s]) => req[s].reply.set.refresh # t
RepliesUnused == version = 1 => \A r \in Caller : Unused(r)

AuthInv == AuthTypes /\ JarGated /\ RequestsGated /\ CookieReplaced /\ RepliesUnused
-----------------------------------------------------------------------------
LEMMA AuthConstants ==
    /\ MaxFlow \in Nat /\ MaxToken \in Nat /\ Len(Doc) \in Nat /\ Len(Doc) >= 1
    /\ None \notin Nat /\ Keep \notin Nat /\ Junk \notin Nat /\ Malformed \notin Nat /\ Denied \notin Nat
    /\ Keep # None /\ Keep # Path /\ Junk # None
    /\ HomeTenant \in Tenant /\ Deployments \subseteq {"single", "templated"}
    /\ Op \subseteq {"login", "callback", "refresh", "logout", "me"}
    /\ Flow \subseteq Nat /\ TokenId \subseteq Nat
    /\ \A v \in 1..Len(Doc) : SignKid[v] \in Usable(Doc[v]) /\ Usable(Doc[v]) \subseteq Kids
BY AuthAssumption, JwksAssumption DEF Flow, TokenId, Kids

\* A token that is issued changes nothing about the earlier ones.
LEMMA TokenIssued ==
    ASSUME tokens \in Seq([kid : Kids, ten : Tenant]), NEW tok \in [kid : Kids, ten : Tenant],
           tokens' = Append(tokens, tok)
    PROVE  /\ tokens' \in Seq([kid : Kids, ten : Tenant])
           /\ Len(tokens') = Len(tokens) + 1 /\ Len(tokens) \in Nat
           /\ DOMAIN tokens = 1..Len(tokens)
           /\ DOMAIN tokens' = DOMAIN tokens \cup {Fresh} /\ Fresh \notin DOMAIN tokens
           /\ \A t \in DOMAIN tokens : tokens'[t] = tokens[t]
           /\ tokens'[Fresh] = tok
<1> DEFINE S == [kid : Kids, ten : Tenant]
<1> HIDE DEF S
<1>0. tokens \in Seq(S) /\ tok \in S  BY DEF S
<1>1. tokens' \in Seq(S)  BY <1>0
<1>2. Len(tokens') = Len(tokens) + 1 /\ Len(tokens) \in Nat  BY <1>0
<1>3. DOMAIN tokens = 1..Len(tokens) /\ DOMAIN tokens' = 1..Len(tokens')  BY <1>0, <1>1
<1>4. \A t \in 1..Len(tokens) : tokens'[t] = tokens[t]  BY <1>0
<1>5. tokens'[Len(tokens) + 1] = tok  BY <1>0
<1> QED  BY <1>1, <1>2, <1>3, <1>4, <1>5 DEF Fresh, S

\* The tokens of a step: the same, or one more.
TokensGrow == tokens' = tokens \/ \E tok \in [kid : Kids, ten : Tenant] : tokens' = Append(tokens, tok)

LEMMA GatedGrows ==
    ASSUME tokens \in Seq([kid : Kids, ten : Tenant]), TokensGrow, deployment' = deployment
    PROVE  Gated \subseteq Gated' /\ DOMAIN tokens \subseteq DOMAIN tokens'
<1>1. DOMAIN tokens \subseteq DOMAIN tokens' /\ \A t \in DOMAIN tokens : tokens'[t] = tokens[t]
  BY TokenIssued DEF TokensGrow
<1> QED  BY <1>1 DEF Gated

LEMMA GatedKept ==
    ASSUME NEW q, NEW some, NEW good, NEW few \in Nat, NEW more, NEW better, NEW many \in Nat,
           RequestGated(q, some, good, few), some \subseteq more, good \subseteq better, few <= many
    PROVE  RequestGated(q, more, better, many)
<1>1. 1..few \subseteq 1..many  OBVIOUS
<1> QED  BY <1>1 DEF RequestGated

LEMMA NoReqType == NoReq \in Request /\ ~NoReq.claims /\ ~NoReq.unusable
<1>1. NoReq \in Request  BY DEF NoReq, Request
<1>2. ~NoReq.claims /\ ~NoReq.unusable  BY DEF NoReq
<1> QED  BY <1>1, <1>2

\* The form of an answer.
LEMMA AnswerForm ==
    ASSUME req \in [Caller -> Request], NEW r \in Caller, NEW s \in Status, NEW set \in Set,
           req' = Answer(r, [status |-> s, set |-> set])
    PROVE  /\ req' \in [Caller -> Request]
           /\ \A q \in Caller \ {r} : req'[q] = req[q]
           /\ req'[r].pc = "reply" /\ req'[r].op = req[r].op /\ req'[r].carried = None
           /\ ~req'[r].claims /\ req'[r].arg = None
           /\ req'[r].reply = [status |-> s, set |-> set]
<1> DEFINE rep == [status |-> s, set |-> set]
           new == [NoReq EXCEPT !.pc = "reply", !.op = req[r].op, !.cookie = req[r].cookie, !.reply = rep]
<1>0. req[r].op \in Op \cup {"none"} /\ req[r].cookie \in BOOLEAN  BY DEF Request
<1>1. rep \in [status : Status, set : Set]  OBVIOUS
<1>2. req' = [req EXCEPT ![r] = new]  BY DEF Answer
<1> HIDE DEF rep
<1>3. new \in Request  BY <1>0, <1>1, NoReqType DEF Request
<1>4. /\ new.pc = "reply" /\ new.op = req[r].op /\ new.carried = None /\ new.arg = None
      /\ new.reply = rep /\ new.claims = NoReq.claims
  BY <1>0, <1>1 DEF NoReq
<1>5. ~new.claims  BY <1>4, NoReqType
<1> HIDE DEF new
<1> QED  BY <1>2, <1>3, <1>4, <1>5 DEF rep

LEMMA SetFields ==
    ASSUME NEW set \in Set
    PROVE  /\ set = [auth |-> set.auth, refresh |-> set.refresh, flow |-> set.flow, ret |-> set.ret]
           /\ set.auth \in TokenId \cup {None, Keep} /\ set.refresh \in TokenId \cup {None, Keep}
           /\ set.flow \in Flow \cup {None, Keep} /\ set.ret \in {Path, None, Keep}
BY DEF Set, Jars

LEMMA WayOutForm ==
    ASSUME NEW r \in Caller, NEW set \in Set
    PROVE  /\ WayOut(r, set) \in Set /\ WayOut(r, set).refresh = set.refresh
           /\ WayOut(r, set).auth \in {set.auth, None}
           /\ set.auth \in TokenId => WayOut(r, set).auth = set.auth
<1>1. CASE WayOut(r, set) = set  BY <1>1
<1>2. CASE WayOut(r, set) = [set EXCEPT !.auth = None] /\ set.auth \notin TokenId
  <2>1. [set EXCEPT !.auth = None] = [auth |-> None, refresh |-> set.refresh, flow |-> set.flow, ret |-> set.ret]
    BY SetFields
  <2>2. [auth |-> None, refresh |-> set.refresh, flow |-> set.flow, ret |-> set.ret] \in Set
    BY SetFields DEF Set, Jars
  <2> QED  BY <1>2, <2>1, <2>2
<1> QED  BY <1>1, <1>2 DEF WayOut

\* What a handler may answer, and do to the refresh tokens meanwhile: it keeps
\* those that others hold, and brings one that is new.
AnswerSound(r, s, set) ==
    /\ set.auth \in Gated' \cup {None, Keep} /\ set.refresh \in Gated' \cup {None, Keep}
    /\ req[r].op \in {"callback", "refresh"} /\ s = "ok" => set.auth \in TokenId
    /\ version = 1 =>
        /\ Live \ InHand(req[r]) \subseteq Live'
        /\ set.refresh = Keep => Live \subseteq Live'
        /\ set.refresh \notin {None, Keep} => set.refresh \in Live' \ DOMAIN tokens

LEMMA HandlerAnswers ==
    ASSUME AuthInv, NEW r \in Caller, req[r].pc = "handler", NEW s \in Status, NEW set \in Set,
           Reply(r, s, set), AnswerSound(r, s, set), TokensGrow, flows' \in {flows, flows + 1},
           UNCHANGED <<started, deployment, jar, expired, jwksVars>>
    PROVE  req' \in [Caller -> Request] /\ JarGated' /\ RequestsGated' /\ CookieReplaced' /\ RepliesUnused'
<1> DEFINE out == WayOut(r, set)
<1>0. AuthTypes /\ flows \in Nat /\ flows' \in Nat /\ flows <= flows'
  BY AuthConstants DEF AuthInv, AuthTypes
<1>1. /\ out \in Set /\ out.refresh = set.refresh /\ out.auth \in {set.auth, None}
      /\ set.auth \in TokenId => out.auth = set.auth
  BY WayOutForm
<1>2. /\ req' \in [Caller -> Request]
      /\ \A q \in Caller \ {r} : req'[q] = req[q]
      /\ req'[r].pc = "reply" /\ req'[r].op = req[r].op /\ req'[r].carried = None
      /\ ~req'[r].claims /\ req'[r].arg = None
      /\ req'[r].reply = [status |-> s, set |-> out]
  <2>1. req' = Answer(r, [status |-> s, set |-> out])  BY DEF Reply
  <2> HIDE DEF out
  <2> QED  BY <1>0, <1>1, <2>1, AnswerForm DEF AuthTypes
<1> HIDE DEF out
<1>3. Gated \subseteq Gated' /\ DOMAIN tokens \subseteq DOMAIN tokens'
  BY <1>0, GatedGrows DEF AuthTypes
<1>4. JarGated'  BY <1>3 DEF JarGated, AuthInv
<1>5. RequestsGated'
  <2> SUFFICES ASSUME NEW q \in Caller PROVE RequestGated(req'[q], DOMAIN tokens', Gated', flows')
    BY DEF RequestsGated
  <2>1. CASE q # r
    <3>1. RequestGated(req[q], DOMAIN tokens, Gated, flows)  BY DEF AuthInv, RequestsGated
    <3> QED  BY <2>1, <3>1, <1>0, <1>2, <1>3, GatedKept
  <2>2. CASE q = r
    <3>1. [status |-> s, set |-> out] \in [status : Status, set : Set]
      BY <1>1
    <3> QED  BY <2>2, <3>1, <1>1, <1>2, AuthConstants DEF RequestGated, AnswerSound
  <2> QED  BY <2>1, <2>2
<1>6. CookieReplaced'
  <2> SUFFICES ASSUME version = 1
               PROVE  jar.refresh \in Live' \cup {None} \/ \E q \in Caller : Replaces(req'[q])
    BY DEF CookieReplaced, jwksVars
  <2>1. CASE set.refresh # Keep  BY <2>1, <1>1, <1>2 DEF Replaces
  <2>2. CASE set.refresh = Keep
    <3>1. CASE jar.refresh \in Live \cup {None}  BY <2>2, <3>1 DEF AnswerSound
    <3>2. CASE \E q \in Caller : Replaces(req[q])
      <4>1. PICK q \in Caller : Replaces(req[q])  BY <3>2
      <4>2. q # r  BY <4>1 DEF Replaces
      <4> QED  BY <4>1, <4>2, <1>2
    <3> QED  BY <3>1, <3>2 DEF AuthInv, CookieReplaced
  <2> QED  BY <2>1, <2>2
<1>7. RepliesUnused'
  <2> SUFFICES ASSUME version = 1, NEW q \in Caller,
                      Replaces(req'[q]), req'[q].reply.set.refresh # None
               PROVE  LET t == req'[q].reply.set.refresh IN
                        /\ t \in Live' /\ t # jar.refresh
                        /\ \A p \in Caller : /\ t \notin InHand(req'[p])
                                             /\ p # q /\ Replaces(req'[p]) => req'[p].reply.set.refresh # t
    BY DEF RepliesUnused, Unused, jwksVars
  <2> DEFINE t == req'[q].reply.set.refresh
  <2>0. InHand(req'[r]) \subseteq {None} /\ \A p \in Caller \ {r} : InHand(req'[p]) = InHand(req[p])
    BY <1>2 DEF InHand
  <2>1. CASE q = r
    <3>1. t = set.refresh /\ t \notin {None, Keep}  BY <2>1, <1>1, <1>2 DEF Replaces
    <3>2. t \in Live' /\ t \notin DOMAIN tokens  BY <3>1 DEF AnswerSound
    <3>3. t # jar.refresh  BY <3>1, <3>2 DEF AuthInv, JarGated, Gated
    <3>4. \A p \in Caller : t \notin InHand(req[p])
      BY <3>1, <3>2 DEF AuthInv, RequestsGated, RequestGated, Gated, InHand
    <3>5. \A p \in Caller : Replaces(req[p]) => req[p].reply.set.refresh # t
      BY <3>1, <3>2 DEF AuthInv, RequestsGated, RequestGated, Gated, Replaces
    <3> QED  BY <2>1, <2>0, <1>2, <3>1, <3>2, <3>3, <3>4, <3>5
  <2>2. CASE q # r
    <3>1. req'[q] = req[q]  BY <2>2, <1>2
    <3>2. /\ t \in Live /\ t # jar.refresh
          /\ \A p \in Caller : /\ t \notin InHand(req[p])
                               /\ p # q /\ Replaces(req[p]) => req[p].reply.set.refresh # t
      BY <3>1 DEF AuthInv, RepliesUnused, Unused
    <3>3. t \in Live'  BY <3>2 DEF AnswerSound
    <3>4. t \in DOMAIN tokens  BY <3>2, <1>0 DEF Live, AuthTypes
    <3>5. Replaces(req'[r]) => req'[r].reply.set.refresh # t
      BY <1>1, <1>2, <3>4 DEF Replaces, AnswerSound
    <3> QED  BY <2>0, <1>2, <3>1, <3>2, <3>3, <3>5
  <2> QED  BY <2>1, <2>2
<1> QED  BY <1>2, <1>4, <1>5, <1>6, <1>7

\* What an answer may set.
LEMMA Answers ==
    /\ Untouched \in Set /\ Untouched.auth = Keep /\ Untouched.refresh = Keep
    /\ FlowCleared \in Set /\ FlowCleared.auth = Keep /\ FlowCleared.refresh = Keep
    /\ Refused = [status |-> "refused", set |-> Untouched]
BY DEF Untouched, FlowCleared, Refused, Set, Jars

LEMMA LoginStep ==
    ASSUME AuthInv, NEW r \in Caller, req[r].pc = "handler", Login(r),
           UNCHANGED <<started, deployment, jar, expired, jwksVars>>
    PROVE  AuthInv'
<1>0. AuthTypes  BY DEF AuthInv
<1>1. CASE UNCHANGED flows
  <2>1. Reply(r, "failed", Untouched)
    BY <1>0, <1>1, AuthConstants DEF Login, GetAuthUrl, AuthTypes
  <2>2. AnswerSound(r, "failed", Untouched)  BY Answers DEF AnswerSound, Live, Login
  <2>3. req' \in [Caller -> Request] /\ JarGated' /\ RequestsGated' /\ CookieReplaced' /\ RepliesUnused'
    BY <1>1, <2>1, <2>2, Answers, HandlerAnswers DEF Login, TokensGrow, Status
  <2>4. AuthTypes'  BY <1>0, <1>1, <2>3 DEF Login, AuthTypes, jwksVars, JwksTypeOK
  <2> QED  BY <2>3, <2>4 DEF AuthInv
<1>2. CASE ~UNCHANGED flows
  <2> DEFINE set == [Untouched EXCEPT !.flow = flows', !.ret = IF req[r].arg = Path THEN Path ELSE Keep]
  <2>1. flows < MaxFlow /\ flows' = flows + 1 /\ Reply(r, "ok", set) /\ req[r].op = "login"
    BY <1>2 DEF Login, GetAuthUrl
  <2>2. flows \in Nat /\ flows' \in Flow /\ flows' \in 0..MaxFlow /\ flows <= flows'
    BY <1>0, <2>1, AuthConstants DEF Flow, AuthTypes
  <2>3. set \in Set /\ set.auth = Keep /\ set.refresh = Keep
    BY <2>2 DEF Untouched, Set, Jars
  <2> HIDE DEF set
  <2>4. AnswerSound(r, "ok", set)  BY <2>1, <2>3 DEF AnswerSound, Live, Login
  <2>5. req' \in [Caller -> Request] /\ JarGated' /\ RequestsGated' /\ CookieReplaced' /\ RepliesUnused'
    BY <2>1, <2>3, <2>4, HandlerAnswers DEF Login, TokensGrow, Status
  <2>6. redeemed' \subseteq 1..flows'
    BY <1>0, <2>2 DEF Login, AuthTypes
  <2>7. AuthTypes'  BY <1>0, <2>2, <2>5, <2>6 DEF Login, AuthTypes, jwksVars, JwksTypeOK
  <2> QED  BY <2>5, <2>7 DEF AuthInv
<1> QED  BY <1>1, <1>2

LEMMA LogoutStep ==
    ASSUME AuthInv, NEW r \in Caller, req[r].pc = "handler", Logout(r),
           UNCHANGED <<started, deployment, jar, expired, jwksVars>>
    PROVE  AuthInv'
<1>0. AuthTypes  BY DEF AuthInv
<1> DEFINE set == [Untouched EXCEPT !.auth = None, !.refresh = None]
<1>1. set \in Set /\ set.auth = None /\ set.refresh = None  BY DEF Untouched, Set, Jars
<1>2. Reply(r, "ok", set) /\ req[r].op = "logout"  BY DEF Logout
<1> HIDE DEF set
<1>3. revoking' \subseteq revoking \cup {req[r].carried} /\ grants' = grants  BY DEF Logout
<1>4. AnswerSound(r, "ok", set)
  BY <1>1, <1>2, <1>3, AuthConstants DEF AnswerSound, Live, InHand
<1>5. req' \in [Caller -> Request] /\ JarGated' /\ RequestsGated' /\ CookieReplaced' /\ RepliesUnused'
  BY <1>1, <1>2, <1>4, HandlerAnswers DEF Logout, TokensGrow, Status
<1>6. revoking' \subseteq DOMAIN tokens
  BY <1>0, <1>2 DEF Logout, AuthTypes, AuthInv, RequestsGated, RequestGated, Gated
<1>7. AuthTypes'  BY <1>0, <1>5, <1>6 DEF Logout, AuthTypes, jwksVars, JwksTypeOK
<1> QED  BY <1>5, <1>7 DEF AuthInv

LEMMA MeStep ==
    ASSUME AuthInv, NEW r \in Caller, req[r].pc = "handler", Me(r),
           UNCHANGED <<started, deployment, jar, expired, jwksVars>>
    PROVE  AuthInv'
<1>0. AuthTypes  BY DEF AuthInv
<1>1. PICK s \in {"ok", "failed"} : Reply(r, s, Untouched)  BY DEF Me
<1>2. AnswerSound(r, s, Untouched)  BY Answers DEF AnswerSound, Live, Me
<1>3. req' \in [Caller -> Request] /\ JarGated' /\ RequestsGated' /\ CookieReplaced' /\ RepliesUnused'
  BY <1>1, <1>2, Answers, HandlerAnswers DEF Me, TokensGrow, Status
<1>4. AuthTypes'  BY <1>0, <1>3 DEF Me, AuthTypes, jwksVars, JwksTypeOK
<1> QED  BY <1>3, <1>4 DEF AuthInv

\* A token that the provider issues.
LEMMA Minted ==
    ASSUME AuthTypes, NEW tok \in [kid : Kids, ten : Tenant], Mint(tok), deployment' = deployment
    PROVE  /\ tokens' \in Seq([kid : Kids, ten : Tenant]) /\ Len(tokens') <= MaxToken
           /\ Fresh \in TokenId /\ Fresh \notin DOMAIN tokens
           /\ DOMAIN tokens' = DOMAIN tokens \cup {Fresh}
           /\ TokensGrow
           /\ IdTokenVerifies(tok) => Fresh \in Gated'
           /\ version = 1 => tok.kid \in LoginKeys
<1>1. /\ tokens' \in Seq([kid : Kids, ten : Tenant])
      /\ Len(tokens') = Len(tokens) + 1 /\ Len(tokens) \in Nat
      /\ DOMAIN tokens' = DOMAIN tokens \cup {Fresh} /\ Fresh \notin DOMAIN tokens
      /\ tokens'[Fresh] = tok
  BY TokenIssued DEF Mint, AuthTypes
<1>2. Len(tokens') <= MaxToken /\ Fresh \in TokenId
  BY <1>1, AuthConstants DEF Mint, Fresh, TokenId
<1>3. IdTokenVerifies(tok) => Fresh \in Gated'
  BY <1>1 DEF IdTokenVerifies, ResolveChecked, Gated
<1>4. version = 1 => tok.kid \in LoginKeys
  <2> SUFFICES ASSUME version = 1 PROVE tok.kid \in LoginKeys  OBVIOUS
  <2>1. started = 1  BY DEF AuthTypes
  <2>2. tok.kid = SignKid[1]  BY DEF Mint
  <2> QED  BY <2>1, <2>2, AuthConstants DEF LoginKeys
<1>5. TokensGrow  BY DEF TokensGrow, Mint
<1> QED  BY <1>1, <1>2, <1>3, <1>4, <1>5

\* A step with a new token keeps the types.
LEMMA IssuedTypes ==
    ASSUME AuthTypes, tokens' \in Seq([kid : Kids, ten : Tenant]), Len(tokens') <= MaxToken,
           DOMAIN tokens \subseteq DOMAIN tokens', req' \in [Caller -> Request],
           grants' \subseteq DOMAIN tokens', redeemed' \subseteq 1..flows,
           UNCHANGED <<started, deployment, jar, expired, jwksVars, flows, revoking>>
    PROVE  AuthTypes'
<1>1. JwksTypeOK'  BY DEF AuthTypes, JwksTypeOK, jwksVars
<1>2. expired' \subseteq DOMAIN tokens' /\ revoking' \subseteq DOMAIN tokens'  BY DEF AuthTypes
<1> QED  BY <1>1, <1>2 DEF AuthTypes, jwksVars

LEMMA CallbackStep ==
    ASSUME AuthInv, NEW r \in Caller, req[r].pc = "handler", Callback(r),
           UNCHANGED <<started, deployment, jar, expired, jwksVars>>
    PROVE  AuthInv'
<1>0. AuthTypes  BY DEF AuthInv
<1>1. req[r].op = "callback" /\ flows' = flows /\ revoking' = revoking  BY DEF Callback
<1>2. CASE CallbackFailure(r) /\ UNCHANGED <<redeemed, tokens, grants>>
  <2>1. Reply(r, "failed", FlowCleared)  BY <1>2 DEF CallbackFailure
  <2>2. AnswerSound(r, "failed", FlowCleared)  BY <1>1, <1>2, Answers DEF AnswerSound, Live
  <2>3. req' \in [Caller -> Request] /\ JarGated' /\ RequestsGated' /\ CookieReplaced' /\ RepliesUnused'
    BY <1>1, <1>2, <2>1, <2>2, Answers, HandlerAnswers DEF TokensGrow, Status
  <2>4. AuthTypes'  BY <1>0, <1>1, <1>2, <2>3, IssuedTypes DEF AuthTypes
  <2> QED  BY <2>3, <2>4 DEF AuthInv
<1>3. ASSUME req[r].arg \in Flow,
             NEW tok \in [kid : Kids, ten : Tenant], NEW refresh \in BOOLEAN, NEW ok \in BOOLEAN,
             ExchangeCode(req[r].arg, tok, refresh, ok),
             IF ok THEN Reply(r, "ok", [FlowCleared EXCEPT !.auth = Fresh,
                                           !.refresh = IF refresh THEN Fresh ELSE Keep])
             ELSE CallbackFailure(r)
      PROVE  AuthInv'
  <2> DEFINE set == IF ok THEN [FlowCleared EXCEPT !.auth = Fresh,
                                   !.refresh = IF refresh THEN Fresh ELSE Keep]
                    ELSE FlowCleared
             s == IF ok THEN "ok" ELSE "failed"
  <2>1. /\ tokens' \in Seq([kid : Kids, ten : Tenant]) /\ Len(tokens') <= MaxToken
        /\ Fresh \in TokenId /\ Fresh \notin DOMAIN tokens
        /\ DOMAIN tokens' = DOMAIN tokens \cup {Fresh}
        /\ TokensGrow
        /\ ok => Fresh \in Gated'
    BY <1>0, <1>3, Minted DEF ExchangeCode
  <2>2. /\ set \in Set
        /\ ok => set.auth = Fresh /\ set.refresh = IF refresh THEN Fresh ELSE Keep
        /\ ~ok => set.auth = Keep /\ set.refresh = Keep
    BY <2>1, Answers, ZenonT(60) DEF FlowCleared, Untouched, Set, Jars
  <2>3. Reply(r, s, set)  BY <1>3 DEF CallbackFailure
  <2>4. grants' = IF refresh THEN grants \cup {Fresh} ELSE grants  BY <1>3 DEF ExchangeCode
  <2>5. AnswerSound(r, s, set)
    <3> HIDE DEF set
    <3>1. Live \subseteq Live' /\ (refresh => Fresh \in Live')
      BY <1>0, <1>1, <2>1, <2>4 DEF Live, AuthTypes
    <3> QED  BY <1>1, <2>1, <2>2, <3>1 DEF AnswerSound
  <2>6. req' \in [Caller -> Request] /\ JarGated' /\ RequestsGated' /\ CookieReplaced' /\ RepliesUnused'
    <3>1. s \in Status  BY DEF Status
    <3> HIDE DEF set, s
    <3> QED  BY <1>1, <2>1, <2>2, <2>3, <2>5, <3>1, HandlerAnswers
  <2>7. redeemed' \subseteq 1..flows
    <3>1. req[r].arg \in 1..flows
      BY <1>1, <1>3, AuthConstants DEF AuthInv, RequestsGated, RequestGated
    <3> QED  BY <1>0, <1>3, <3>1 DEF ExchangeCode, AuthTypes
  <2>8. grants' \subseteq DOMAIN tokens'  BY <1>0, <2>1, <2>4 DEF AuthTypes
  <2>9. AuthTypes'  BY <1>0, <1>1, <2>1, <2>6, <2>7, <2>8, IssuedTypes
  <2> QED  BY <2>6, <2>9 DEF AuthInv
<1>4. CASE CallbackRefuses(r)  BY <1>2, <1>4 DEF CallbackRefuses
<1>5. CASE CallbackExchanges(r)  BY <1>2, <1>3, <1>5 DEF CallbackExchanges
<1> QED  BY <1>4, <1>5 DEF Callback

LEMMA RefreshStep ==
    ASSUME AuthInv, NEW r \in Caller, req[r].pc = "handler", Refresh(r),
           UNCHANGED <<started, deployment, jar, expired, jwksVars>>
    PROVE  AuthInv'
<1>0. AuthTypes  BY DEF AuthInv
<1>1. req[r].op = "refresh" /\ flows' = flows /\ redeemed' = redeemed /\ revoking' = revoking
  BY DEF Refresh
<1>2. CASE Reply(r, "failed", Untouched) /\ UNCHANGED <<tokens, grants>>
  <2>2. AnswerSound(r, "failed", Untouched)  BY <1>1, <1>2, Answers DEF AnswerSound, Live
  <2>3. req' \in [Caller -> Request] /\ JarGated' /\ RequestsGated' /\ CookieReplaced' /\ RepliesUnused'
    BY <1>1, <1>2, <2>2, Answers, HandlerAnswers DEF TokensGrow, Status
  <2>4. AuthTypes'  BY <1>0, <1>1, <1>2, <2>3, IssuedTypes DEF AuthTypes
  <2> QED  BY <2>3, <2>4 DEF AuthInv
<1>3. ASSUME NEW tok \in [kid : Kids, ten : Tenant], NEW rotate \in BOOLEAN, NEW ok \in BOOLEAN,
             RefreshToken(req[r].carried, tok, rotate, ok),
             IF ok THEN Reply(r, "ok", Refreshed(rotate)) ELSE Reply(r, "failed", Untouched)
      PROVE  AuthInv'
  <2> DEFINE set == IF ok THEN Refreshed(rotate) ELSE Untouched
             s == IF ok THEN "ok" ELSE "failed"
             old == req[r].carried
  <2>1. /\ tokens' \in Seq([kid : Kids, ten : Tenant]) /\ Len(tokens') <= MaxToken
        /\ Fresh \in TokenId /\ Fresh \notin DOMAIN tokens
        /\ DOMAIN tokens' = DOMAIN tokens \cup {Fresh}
        /\ TokensGrow
        /\ ok => Fresh \in Gated'
        /\ version = 1 => tok.kid \in LoginKeys
    BY <1>0, <1>3, Minted DEF RefreshToken
  <2>2. /\ set \in Set
        /\ ok => set.auth = Fresh /\ set.refresh = IF rotate THEN Fresh ELSE Keep
        /\ ~ok => set.auth = Keep /\ set.refresh = Keep
    BY <2>1, Answers DEF Refreshed, Untouched, Set, Jars
  <2>3. Reply(r, s, set)  BY <1>3
  <2>4. /\ grants' = IF rotate THEN (grants \ {old}) \cup {Fresh} ELSE grants
        /\ old \in grants /\ tok.ten = tokens[old].ten /\ ok = IdTokenVerifies(tok)
    BY <1>3 DEF RefreshToken
  <2>5. version = 1 => ok
    <3>1. old \in Gated
      BY <1>0, <1>1, <2>4, AuthConstants DEF AuthInv, AuthTypes, RequestsGated, RequestGated
    <3>2. ResolveChecked(tok.ten)  BY <3>1, <2>4 DEF Gated, ResolveChecked
    <3> QED  BY <2>1, <2>4, <3>2 DEF IdTokenVerifies
  <2>6. AnswerSound(r, s, set)
    <3> HIDE DEF set
    <3>1. InHand(req[r]) = {old}  BY <1>1 DEF InHand
    <3>2. /\ Live \ {old} \subseteq Live' /\ (rotate => Fresh \in Live')
          /\ ~rotate => Live \subseteq Live'
      BY <1>0, <1>1, <2>1, <2>4 DEF Live, AuthTypes
    <3>3. Keep # Fresh  BY <2>1, AuthConstants
    <3> QED  BY <1>1, <2>1, <2>2, <2>5, <3>1, <3>2, <3>3 DEF AnswerSound
  <2>7. req' \in [Caller -> Request] /\ JarGated' /\ RequestsGated' /\ CookieReplaced' /\ RepliesUnused'
    <3>1. s \in Status  BY DEF Status
    <3> HIDE DEF set, s
    <3> QED  BY <1>1, <2>1, <2>2, <2>3, <2>6, <3>1, HandlerAnswers
  <2>8. grants' \subseteq DOMAIN tokens'  BY <1>0, <2>1, <2>4 DEF AuthTypes
  <2>9. AuthTypes'  BY <1>0, <1>1, <2>1, <2>7, <2>8, IssuedTypes DEF AuthTypes
  <2> QED  BY <2>7, <2>9 DEF AuthInv
<1> QED  BY <1>2, <1>3 DEF Refresh

\* A step after which a request is another one, and holds and replaces nothing
\* more than the cookies do.
LEMMA RequestChanged ==
    ASSUME AuthInv, NEW r \in Caller, NEW new \in Request, req' = [req EXCEPT ![r] = new],
           RequestGated(new, DOMAIN tokens, Gated, flows), ~Replaces(req[r]), ~Replaces(new),
           InHand(new) \subseteq InHand(req[r]) \cup {None, jar.refresh},
           UNCHANGED <<started, deployment, jar, flows, redeemed, tokens, expired, grants, revoking>>,
           UNCHANGED version, JwksTypeOK'
    PROVE  AuthInv'
<1>0. AuthTypes  BY DEF AuthInv
<1>1. req' \in [Caller -> Request] /\ req'[r] = new /\ \A q \in Caller \ {r} : req'[q] = req[q]
  BY <1>0 DEF AuthTypes
<1>2. AuthTypes'  BY <1>0, <1>1 DEF AuthTypes
<1>3. Gated' = Gated /\ Live' = Live  BY DEF Gated, Live
<1>4. JarGated'  BY <1>3 DEF JarGated, AuthInv
<1>5. RequestsGated'  BY <1>1, <1>3 DEF RequestsGated, AuthInv
<1>6. CookieReplaced'  BY <1>1, <1>3 DEF CookieReplaced, AuthInv
<1>7. RepliesUnused'
  <2> SUFFICES ASSUME version = 1, NEW q \in Caller,
                      Replaces(req'[q]), req'[q].reply.set.refresh # None
               PROVE  LET t == req'[q].reply.set.refresh IN
                        /\ t \in Live' /\ t # jar.refresh
                        /\ \A p \in Caller : /\ t \notin InHand(req'[p])
                                             /\ p # q /\ Replaces(req'[p]) => req'[p].reply.set.refresh # t
    BY DEF RepliesUnused, Unused
  <2> DEFINE t == req'[q].reply.set.refresh
  <2>1. q # r /\ req'[q] = req[q]  BY <1>1
  <2>2. /\ t \in Live /\ t # jar.refresh
        /\ \A p \in Caller : /\ t \notin InHand(req[p])
                             /\ p # q /\ Replaces(req[p]) => req[p].reply.set.refresh # t
    BY <2>1 DEF AuthInv, RepliesUnused, Unused
  <2> QED  BY <1>1, <1>3, <2>1, <2>2
<1> QED  BY <1>2, <1>4, <1>5, <1>6, <1>7 DEF AuthInv

LEMMA SendStep ==
    ASSUME AuthInv, NEW r \in Caller, NEW op \in Op, NEW header \in Headers(op), NEW arg \in Args(op),
           Send(r, op, arg, header)
    PROVE  AuthInv'
<1>0. AuthTypes  BY DEF AuthInv
<1> DEFINE bearer == Bearer(header)
           tok == IF bearer # None THEN bearer ELSE jar.auth
           pc0 == CASE tok = None -> "handler" [] tok = Junk -> "reply" [] OTHER -> "keys"
           cookie == (bearer = None /\ jar.auth # None)
           reply == IF tok = Junk THEN Refused ELSE None
           new == [NoReq EXCEPT !.pc = pc0, !.op = op, !.arg = arg, !.carried = Carried(op),
                                !.tok = tok, !.cookie = cookie, !.reply = reply]
<1>1. req[r].pc = "idle" /\ req' = [req EXCEPT ![r] = new]
  BY DEF Send
<1>2. DOMAIN tokens = 1..Len(tokens) /\ DOMAIN tokens \subseteq TokenId
  <2>1. DOMAIN tokens = 1..Len(tokens) /\ Len(tokens) \in Nat  BY <1>0 DEF AuthTypes
  <2> QED  BY <1>0, <2>1, AuthConstants DEF AuthTypes, TokenId
<1>3. bearer \in DOMAIN tokens \cup {None} \/ (bearer = Junk /\ op = "me")
  BY <1>2, AuthConstants DEF Bearer, Headers
<1>4. tok \in DOMAIN tokens \cup {None} \/ (tok = Junk /\ op = "me")
  BY <1>3 DEF AuthInv, JarGated, Gated
<1>5. arg \in {None, Path, BadPath, Denied} \cup Flow /\ (op = "callback" => arg \in {Denied, None} \cup 1..flows)
  BY <1>0, AuthConstants DEF Args, AuthTypes, Flow
<1>6. /\ Carried(op) \in Flow \cup TokenId \cup {None}
      /\ op \in {"refresh", "logout"} => Carried(op) = jar.refresh
      /\ op = "me" => Carried(op) = None
  <2>1. jar.flow \in Flow \cup {None} /\ jar.refresh \in TokenId \cup {None}  BY <1>0 DEF AuthTypes, Jars
  <2> QED  BY <2>1 DEF Carried
<1>7. pc0 \in {"handler", "reply", "keys"}
      /\ (pc0 = "keys" => tok \in DOMAIN tokens) /\ (pc0 = "reply" => tok = Junk /\ op = "me")
  <2> HIDE DEF bearer, tok
  <2>1. CASE tok = None  BY <2>1, AuthConstants
  <2>2. CASE tok = Junk /\ op = "me"  BY <2>2, AuthConstants
  <2>3. CASE tok \in DOMAIN tokens
    <3>1. tok \in Nat  BY <2>3, <1>2, AuthConstants
    <3>2. tok # None /\ tok # Junk  BY <3>1, AuthConstants
    <3> QED  BY <2>3, <3>2
  <2> QED  BY <1>4, <2>1, <2>2, <2>3
<1>8. reply \in [status : Status, set : Set] \cup {None} /\ (pc0 = "reply" => reply = Refused)
  BY <1>7, Answers DEF Status
<1>9. new \in Request
  <2>1. tok \in TokenId \cup {Junk, None}  BY <1>2, <1>4
  <2>2. cookie \in BOOLEAN  OBVIOUS
  <2> DEFINE carried == Carried(op)
  <2>3. carried \in Flow \cup TokenId \cup {None}  BY <1>6
  <2> HIDE DEF bearer, tok, pc0, cookie, reply, carried
  <2> DEFINE half == [NoReq EXCEPT !.pc = pc0, !.op = op, !.arg = arg, !.carried = carried]
  <2>4. half \in Request  BY <1>5, <1>7, <2>3, NoReqType, ZenonT(60) DEF Request
  <2>5. new = [half EXCEPT !.tok = tok, !.cookie = cookie, !.reply = reply]  BY DEF carried
  <2> HIDE DEF half, new
  <2>6. [half EXCEPT !.tok = tok, !.cookie = cookie, !.reply = reply] \in Request
    BY <1>8, <2>1, <2>2, <2>4 DEF Request
  <2> QED  BY <2>5, <2>6
<1>10. /\ new.pc = pc0 /\ new.op = op /\ new.arg = arg /\ new.carried = Carried(op) /\ new.tok = tok
       /\ new.reply = reply /\ new.claims = NoReq.claims
  <2> HIDE DEF bearer, tok, pc0, cookie, reply
  <2> QED  BY DEF NoReq
<1>11. ~new.claims  BY <1>10, NoReqType
<1> HIDE DEF new, bearer, tok, pc0, cookie, reply
<1>12. RequestGated(new, DOMAIN tokens, Gated, flows)
  <2>1. jar.refresh \in Gated \cup {None}  BY DEF AuthInv, JarGated
  <2>2. Refused \in [status : Status, set : Set] /\ Refused.status = "refused"
        /\ Refused.set.auth = Keep /\ Refused.set.refresh = Keep
    BY Answers DEF Status
  <2> QED  BY <1>5, <1>6, <1>7, <1>8, <1>10, <1>11, <2>1, <2>2 DEF RequestGated
<1>13. ~Replaces(req[r]) /\ ~Replaces(new)
  BY <1>1, <1>8, <1>10, Answers DEF Replaces
<1>14. InHand(new) \subseteq {jar.refresh}  BY <1>6, <1>10 DEF InHand
<1>15. JwksTypeOK' /\ version' = version  BY <1>0 DEF Send, jwksVars, JwksTypeOK, AuthTypes
<1> QED  BY <1>1, <1>9, <1>12, <1>13, <1>14, <1>15, RequestChanged DEF Send

LEMMA AuthenticateStep ==
    ASSUME AuthInv, NEW r \in Caller, Authenticate(r)
    PROVE  AuthInv'
<1>0. AuthTypes /\ version \in 1..Len(Doc)  BY DEF AuthInv, AuthTypes, JwksTypeOK
<1> DEFINE id == req[r].tok
<1>1. req[r].pc = "keys" /\ req[r] \in Request /\ RequestGated(req[r], DOMAIN tokens, Gated, flows)
  BY <1>0 DEF Authenticate, AuthInv, AuthTypes, RequestsGated
<1>2. id \in DOMAIN tokens  BY <1>1 DEF RequestGated
<1>3. version' = version /\ JwksTypeOK'
  <2>1. cache' = cache \/ cache' = Usable(Doc[version])  BY DEF Authenticate, GetKey
  <2>2. cache' \subseteq Kids  BY <1>0, <2>1, AuthConstants DEF AuthTypes, JwksTypeOK
  <2> QED  BY <1>0, <2>2 DEF Authenticate, AuthTypes, JwksTypeOK
<1>4. UNCHANGED <<started, deployment, jar, flows, redeemed, tokens, expired, grants, revoking>>
  BY DEF Authenticate
<1>5. ~Replaces(req[r])  BY <1>1 DEF Replaces
<1>6. CASE req' = Answer(r, Refused)
  <2> DEFINE new == [NoReq EXCEPT !.pc = "reply", !.op = req[r].op, !.cookie = req[r].cookie, !.reply = Refused]
  <2>1. req' = [req EXCEPT ![r] = new]  BY <1>6 DEF Answer
  <2>2. Refused \in [status : Status, set : Set] /\ Refused.status = "refused"
        /\ Refused.set.auth = Keep /\ Refused.set.refresh = Keep
    BY Answers DEF Status
  <2>3. new \in Request
    <3>1. req[r].op \in Op \cup {"none"} /\ req[r].cookie \in BOOLEAN  BY <1>1 DEF Request
    <3> QED  BY <2>2, <3>1, NoReqType DEF Request
  <2>4. /\ new.pc = "reply" /\ new.op = req[r].op /\ new.carried = None /\ new.arg = None
        /\ new.reply = Refused /\ new.claims = NoReq.claims
    BY DEF NoReq
  <2>5. ~new.claims  BY <2>4, NoReqType
  <2> HIDE DEF new
  <2>6. RequestGated(new, DOMAIN tokens, Gated, flows)  BY <2>2, <2>4, <2>5 DEF RequestGated
  <2>7. ~Replaces(new) /\ InHand(new) \subseteq {None}  BY <2>2, <2>4 DEF Replaces, InHand
  <2> QED  BY <1>3, <1>4, <1>5, <2>1, <2>3, <2>6, <2>7, RequestChanged
<1>7. CASE /\ ResolveChecked(tokens[id].ten)
           /\ req' = [req EXCEPT ![r].pc = "handler", ![r].claims = Decodes(id), ![r].unusable = ~Decodes(id)]
  <2> DEFINE new == [req[r] EXCEPT !.pc = "handler", !.claims = Decodes(id), !.unusable = ~Decodes(id)]
  <2>1. req' = [req EXCEPT ![r] = new]  BY <1>0, <1>7 DEF AuthTypes
  <2>2. Decodes(id) \in BOOLEAN  BY DEF Decodes
  <2>3. new \in Request  BY <1>1, <2>2 DEF Request
  <2>4. /\ new.pc = "handler" /\ new.op = req[r].op /\ new.carried = req[r].carried /\ new.arg = req[r].arg
        /\ new.tok = id
    BY <1>1 DEF Request
  <2>5. id \in Gated  BY <1>2, <1>7 DEF Gated, ResolveChecked
  <2> HIDE DEF new
  <2>6. RequestGated(new, DOMAIN tokens, Gated, flows)  BY <1>1, <2>4, <2>5 DEF RequestGated
  <2>7. ~Replaces(new) /\ InHand(new) = InHand(req[r])  BY <2>4 DEF Replaces, InHand
  <2> QED  BY <1>3, <1>4, <1>5, <2>1, <2>3, <2>6, <2>7, RequestChanged
<1> QED  BY <1>6, <1>7 DEF Authenticate

LEMMA DeliverStep ==
    ASSUME AuthInv, NEW r \in Caller, Deliver(r)
    PROVE  AuthInv'
<1>0. AuthTypes  BY DEF AuthInv
<1> DEFINE set == req[r].reply.set
<1>1. req[r].pc = "reply" /\ RequestGated(req[r], DOMAIN tokens, Gated, flows)
  BY DEF Deliver, AuthInv, RequestsGated
<1>2. set \in Set /\ set.auth \in Gated \cup {None, Keep} /\ set.refresh \in Gated \cup {None, Keep}
  BY <1>1 DEF RequestGated
<1>3. /\ jar' \in Jars({})
      /\ jar'.auth = IF set.auth = Keep THEN jar.auth ELSE set.auth
      /\ jar'.refresh = IF set.refresh = Keep THEN jar.refresh ELSE set.refresh
  <2>1. jar = [auth |-> jar.auth, refresh |-> jar.refresh, flow |-> jar.flow, ret |-> jar.ret]
        /\ jar.auth \in TokenId \cup {None} /\ jar.refresh \in TokenId \cup {None}
        /\ jar.flow \in Flow \cup {None} /\ jar.ret \in {Path, None}
    BY <1>0 DEF AuthTypes, Jars
  <2>2. DOMAIN jar = {"auth", "refresh", "flow", "ret"}  BY <2>1
  <2> DEFINE After(n) == IF set[n] = Keep THEN jar[n] ELSE set[n]
  <2>3. jar' = [n \in DOMAIN jar |-> After(n)]  BY DEF Deliver
  <2>4. /\ After("auth") \in TokenId \cup {None} /\ After("refresh") \in TokenId \cup {None}
        /\ After("flow") \in Flow \cup {None} /\ After("ret") \in {Path, None}
    BY <1>2, <2>1, SetFields, AuthConstants
  <2> HIDE DEF After
  <2>5. jar' = [auth |-> After("auth"), refresh |-> After("refresh"), flow |-> After("flow"), ret |-> After("ret")]
    BY <2>2, <2>3
  <2>6. jar' \in Jars({})  BY <2>4, <2>5 DEF Jars
  <2>7. jar'.auth = After("auth") /\ jar'.refresh = After("refresh")  BY <2>5
  <2> QED  BY <2>6, <2>7 DEF After
<1>4. req' \in [Caller -> Request] /\ req'[r] = NoReq /\ \A q \in Caller \ {r} : req'[q] = req[q]
  BY <1>0, NoReqType DEF Deliver, AuthTypes
<1>5. UNCHANGED <<started, deployment, flows, redeemed, tokens, expired, grants, revoking, jwksVars>>
  BY DEF Deliver
<1>6. AuthTypes'  BY <1>0, <1>3, <1>4, <1>5 DEF AuthTypes, jwksVars, JwksTypeOK
<1>7. Gated' = Gated /\ Live' = Live /\ version' = version  BY <1>5 DEF Gated, Live, jwksVars
<1>8. JarGated'  BY <1>2, <1>3, <1>7 DEF JarGated, AuthInv
<1>9. NoReq.pc = "idle" /\ NoReq.op = "none" /\ ~NoReq.claims  BY NoReqType DEF NoReq
<1>10. RequestsGated'  BY <1>4, <1>5, <1>7, <1>9 DEF RequestsGated, RequestGated, AuthInv
<1>11. CookieReplaced'
  <2> SUFFICES ASSUME version = 1
               PROVE  jar'.refresh \in Live \cup {None} \/ \E q \in Caller : Replaces(req'[q])
    BY <1>7 DEF CookieReplaced
  <2>1. CASE set.refresh # Keep
    <3>1. Unused(r)  BY DEF AuthInv, RepliesUnused
    <3> QED  BY <1>1, <1>3, <2>1, <3>1 DEF Unused, Replaces
  <2>2. CASE set.refresh = Keep
    <3>1. ~Replaces(req[r])  BY <2>2 DEF Replaces
    <3> QED  BY <1>3, <1>4, <2>2, <3>1 DEF AuthInv, CookieReplaced
  <2> QED  BY <2>1, <2>2
<1>12. RepliesUnused'
  <2> SUFFICES ASSUME version = 1, NEW q \in Caller,
                      Replaces(req'[q]), req'[q].reply.set.refresh # None
               PROVE  LET t == req'[q].reply.set.refresh IN
                        /\ t \in Live' /\ t # jar'.refresh
                        /\ \A p \in Caller : /\ t \notin InHand(req'[p])
                                             /\ p # q /\ Replaces(req'[p]) => req'[p].reply.set.refresh # t
    BY <1>7 DEF RepliesUnused, Unused
  <2> DEFINE t == req'[q].reply.set.refresh
  <2>0. ~Replaces(NoReq) /\ InHand(NoReq) = {}  BY <1>9 DEF Replaces, InHand
  <2>1. q # r /\ req'[q] = req[q]  BY <1>4, <2>0
  <2>2. /\ t \in Live /\ t # jar.refresh
        /\ \A p \in Caller : /\ t \notin InHand(req[p])
                             /\ p # q /\ Replaces(req[p]) => req[p].reply.set.refresh # t
    BY <2>1 DEF AuthInv, RepliesUnused, Unused
  <2>3. t # jar'.refresh  BY <1>1, <1>3, <2>1, <2>2 DEF Replaces
  <2> QED  BY <1>4, <1>7, <2>0, <2>1, <2>2, <2>3
<1> QED  BY <1>6, <1>8, <1>10, <1>11, <1>12 DEF AuthInv

\* The steps of the provider, of the clock and of the process change no request.
LEMMA WorldStep ==
    ASSUME AuthInv, UNCHANGED <<deployment, flows, redeemed, tokens, req>>,
           TokenExpires \/ FlowCookiesExpire \/ (\E t \in revoking : Revoke(t)) \/ RestartServer
             \/ (ProviderRotates /\ UNCHANGED authVars)
    PROVE  AuthInv'
<1>0. AuthTypes /\ version \in 1..Len(Doc)  BY DEF AuthInv, AuthTypes, JwksTypeOK
<1>1. jar' \in Jars({}) /\ jar'.auth = jar.auth /\ jar'.refresh = jar.refresh
  <2>1. CASE jar' = jar  BY <1>0, <2>1 DEF AuthTypes
  <2>2. CASE FlowCookiesExpire
    <3>1. jar' = [jar EXCEPT !.flow = None, !.ret = None]  BY <2>2 DEF FlowCookiesExpire
    <3> QED  BY <1>0, <3>1 DEF AuthTypes, Jars
  <2> QED  BY <2>1, <2>2 DEF TokenExpires, Revoke, RestartServer, authVars
<1>2. Gated' = Gated  BY DEF Gated
<1>3. JarGated'  BY <1>1, <1>2 DEF JarGated, AuthInv
<1>4. RequestsGated'  BY <1>2 DEF RequestsGated, AuthInv
<1>5. version' = 1 => version = 1
  BY <1>0 DEF TokenExpires, FlowCookiesExpire, Revoke, RestartServer, ProviderRotates, jwksVars
<1>6. Live \subseteq Live'
  BY DEF Live, TokenExpires, FlowCookiesExpire, Revoke, RestartServer, authVars
<1>7. CookieReplaced'  BY <1>1, <1>5, <1>6 DEF CookieReplaced, AuthInv
<1>8. RepliesUnused'
  <2> SUFFICES ASSUME version' = 1, NEW r \in Caller PROVE Unused(r)'
    BY DEF RepliesUnused
  <2>1. Unused(r)  BY <1>5 DEF AuthInv, RepliesUnused
  <2> QED  BY <1>1, <1>6, <2>1 DEF Unused
<1>9. AuthTypes'
  <2>1. expired' \subseteq DOMAIN tokens /\ grants' \subseteq DOMAIN tokens /\ revoking' \subseteq DOMAIN tokens
    BY <1>0 DEF AuthTypes, TokenExpires, FlowCookiesExpire, Revoke, RestartServer, authVars
  <2>2. version' \in 1..Len(Doc) /\ started' \in 1..version' /\ cache' \subseteq Kids
    <3>1. CASE RestartServer
      BY <1>0, <3>1, AuthConstants DEF RestartServer
    <3>2. CASE ProviderRotates /\ started' = started
      BY <1>0, <3>2, AuthConstants DEF ProviderRotates, AuthTypes, JwksTypeOK
    <3>3. CASE UNCHANGED <<started, jwksVars>>
      BY <1>0, <3>3 DEF jwksVars, AuthTypes, JwksTypeOK
    <3> QED  BY <3>1, <3>2, <3>3 DEF TokenExpires, FlowCookiesExpire, Revoke, authVars
  <2>3. UNCHANGED <<sinceRefresh, sinceFetch, get, faults>>
    BY DEF TokenExpires, FlowCookiesExpire, Revoke, RestartServer, ProviderRotates, jwksVars
  <2>4. JwksTypeOK'  BY <1>0, <2>2, <2>3 DEF AuthTypes, JwksTypeOK
  <2> QED  BY <1>0, <1>1, <2>1, <2>2, <2>4 DEF AuthTypes
<1> QED  BY <1>3, <1>4, <1>7, <1>8, <1>9 DEF AuthInv

LEMMA AuthStarts == JwksInit /\ AuthInit => AuthInv
<1> SUFFICES ASSUME JwksInit, AuthInit PROVE AuthInv  OBVIOUS
<1>1. NoReq \in Request /\ NoReq.pc = "idle" /\ NoReq.op = "none" /\ ~NoReq.claims
  BY NoReqType DEF NoReq
<1>2. \A r \in Caller : req[r] = NoReq  BY DEF AuthInit
<1>3. Idle \in [pc : {"idle", "lookup", "refresh", "fetch", "landed", "again", "done"},
                kid : Kids \cup {NoKid}, doc : SUBSET Kids, found : BOOLEAN]
  BY DEF Idle
<1>4. JwksTypeOK
  BY <1>3, AuthConstants, JwksAssumption DEF JwksInit, JwksTypeOK
<1>5. jar \in Jars({}) /\ jar.auth = None /\ jar.refresh = None  BY DEF AuthInit, Jars
<1>6. req \in [Caller -> Request]  BY <1>1 DEF AuthInit
<1>7. tokens \in Seq([kid : Kids, ten : Tenant]) /\ Len(tokens) = 0  BY DEF AuthInit
<1>8. AuthTypes
  BY <1>4, <1>5, <1>6, <1>7, AuthConstants DEF AuthTypes, AuthInit, JwksInit
<1>9. JarGated /\ RequestsGated
  BY <1>1, <1>2, <1>5 DEF JarGated, RequestsGated, RequestGated
<1>10. CookieReplaced /\ RepliesUnused
  BY <1>1, <1>2, <1>5 DEF CookieReplaced, RepliesUnused, Unused, Replaces
<1> QED  BY <1>8, <1>9, <1>10 DEF AuthInv

LEMMA AuthStep == AuthInv /\ [AuthNext]_<<authVars, jwksVars>> => AuthInv'
<1> SUFFICES ASSUME AuthInv, [AuthNext]_<<authVars, jwksVars>> PROVE AuthInv'  OBVIOUS
<1>1. ASSUME NEW r \in Caller, NEW op \in Op, NEW header \in Headers(op), NEW arg \in Args(op),
             Send(r, op, arg, header)
      PROVE  AuthInv'
  BY <1>1, SendStep
<1>2. ASSUME NEW r \in Caller, Authenticate(r) PROVE AuthInv'  BY <1>2, AuthenticateStep
<1>3. ASSUME NEW r \in Caller, Handle(r) PROVE AuthInv'
  BY <1>3, LoginStep, CallbackStep, RefreshStep, LogoutStep, MeStep DEF Handle
<1>4. ASSUME NEW r \in Caller, Deliver(r) PROVE AuthInv'  BY <1>4, DeliverStep
<1>5. CASE TokenExpires  BY <1>5, WorldStep DEF TokenExpires
<1>6. CASE FlowCookiesExpire  BY <1>6, WorldStep DEF FlowCookiesExpire
<1>7. ASSUME NEW t \in revoking, Revoke(t) PROVE AuthInv'  BY <1>7, WorldStep DEF Revoke
<1>8. CASE RestartServer  BY <1>8, WorldStep DEF RestartServer
<1>9. CASE ProviderRotates /\ UNCHANGED authVars  BY <1>9, WorldStep DEF authVars
<1>10. CASE UNCHANGED <<authVars, jwksVars>>
  <2>1. UNCHANGED <<started, deployment, jar, flows, redeemed, tokens, expired, grants, revoking, req>>
        /\ UNCHANGED <<version, cache, sinceRefresh, sinceFetch, get, faults>>
    BY <1>10 DEF authVars, jwksVars
  <2>2. AuthTypes'  BY <2>1 DEF AuthInv, AuthTypes, JwksTypeOK
  <2>3. Gated' = Gated /\ Live' = Live  BY <2>1 DEF Gated, Live
  <2>4. JarGated' /\ RequestsGated'  BY <2>1, <2>3 DEF AuthInv, JarGated, RequestsGated
  <2>5. CookieReplaced' /\ RepliesUnused'
    BY <2>1, <2>3 DEF AuthInv, CookieReplaced, RepliesUnused, Unused
  <2> QED  BY <2>2, <2>4, <2>5 DEF AuthInv
<1> QED  BY <1>1, <1>2, <1>3, <1>4, <1>5, <1>6, <1>7, <1>8, <1>9, <1>10 DEF AuthNext

\* Every behaviour of the session keeps the invariant.
THEOREM AuthInvariant == AuthSpec => []AuthInv
BY AuthStarts, AuthStep, PTL DEF AuthSpec

\* With a templated issuer only tokens of allowed tenants become session
\* cookies or the claims of a request (resolve_checked).
THEOREM TenantsAreGated == AuthSpec => []TenantGate
<1>1. AuthInv => TenantGate
  BY AuthConstants DEF AuthInv, JarGated, RequestsGated, RequestGated, Gated, TenantGate
<1> QED  BY <1>1, AuthInvariant, PTL

\* As long as the provider keeps its keys, a browser with no request under way
\* has a refresh token that works, or none.
THEOREM RefreshStaysLive == AuthSpec => []RefreshCookieLive
<1>1. AuthInv => RefreshCookieLive
  BY DEF AuthInv, CookieReplaced, Live, Replaces, RefreshCookieLive
<1> QED  BY <1>1, AuthInvariant, PTL

\* The browser that gets the answer of a successful callback or refresh has
\* its session afterwards (the way out of the JWT middleware).
THEOREM SessionsAreEstablished == AuthSpec => SessionEstablished
<1> DEFINE Kept == \A r \in Caller :
        (/\ req[r].pc = "reply" /\ req'[r].pc = "idle"
         /\ req[r].op \in {"callback", "refresh"} /\ req[r].reply.status = "ok")
        => jar'.auth # None
<1>1. AuthInv /\ [AuthNext]_<<authVars, jwksVars>> => [Kept]_<<authVars, jwksVars>>
  <2> SUFFICES ASSUME AuthInv, AuthNext, NEW r \in Caller,
                      req[r].pc = "reply", req'[r].pc = "idle",
                      req[r].op \in {"callback", "refresh"}, req[r].reply.status = "ok"
               PROVE  jar'.auth # None
    OBVIOUS
  <2>0. req \in [Caller -> Request]  BY DEF AuthInv, AuthTypes
  <2>1. Deliver(r)
    <3>1. req'[r] # req[r]  OBVIOUS
    <3>2. ASSUME NEW q \in Caller, q # r, NEW new, req' = [req EXCEPT ![q] = new] PROVE FALSE
      BY <3>1, <3>2, <2>0
    <3>3. ASSUME NEW q \in Caller, NEW op, NEW header, NEW arg, Send(q, op, arg, header) PROVE FALSE
      BY <3>2, <3>3, <2>0 DEF Send
    <3>4. ASSUME NEW q \in Caller, Authenticate(q) PROVE FALSE
      BY <3>2, <3>4, <2>0 DEF Authenticate, Answer
    <3>5. ASSUME NEW q \in Caller, Handle(q) PROVE FALSE
      <4>1. PICK s, set : Reply(q, s, set)
        BY <3>5 DEF Handle, Login, Callback, CallbackRefuses, CallbackExchanges, CallbackFailure,
                    Refresh, Logout, Me
      <4> QED  BY <4>1, <3>2, <3>5, <2>0 DEF Handle, Reply, Answer
    <3>6. ASSUME NEW q \in Caller, q # r, Deliver(q) PROVE FALSE
      BY <3>2, <3>6, <2>0 DEF Deliver
    <3> QED
      BY <3>1, <3>3, <3>4, <3>5, <3>6
      DEF AuthNext, TokenExpires, FlowCookiesExpire, Revoke, RestartServer, authVars
  <2>2. req[r].reply.set.auth \in TokenId  BY DEF AuthInv, RequestsGated, RequestGated
  <2>3. jar \in Jars({})  BY DEF AuthInv, AuthTypes
  <2>4. jar'["auth"] = req[r].reply.set["auth"]
    <3>1. "auth" \in DOMAIN jar  BY <2>3 DEF Jars
    <3> QED  BY <2>1, <2>2, <3>1, AuthConstants DEF Deliver
  <2> QED  BY <2>2, <2>4, AuthConstants
<1> QED  BY <1>1, AuthInvariant, PTL DEF AuthSpec, SessionEstablished

-----------------------------------------------------------------------------
(* The plane *)

\* A behaviour of the composed plane is one of each of its components.
THEOREM ControlComposes == ControlSpec => Spec /\ MergeSpec /\ AuthSpec
<1>1. ControlInit => Init /\ MergeInit /\ JwksInit /\ AuthInit
  BY DEF ControlInit
<1>2. [ControlNext]_<<component, vars, mergeVars, jwksVars, authVars>> =>
        [Next]_vars /\ [MergeNext]_mergeVars /\ [AuthNext]_<<authVars, jwksVars>>
  BY DEF ControlNext
<1> QED
  BY <1>1, <1>2, PTL DEF ControlSpec, Spec, MergeSpec, AuthSpec

\* The lease, the merge and the session keep their types in every behaviour of
\* the plane, whatever fails.
THEOREM ControlTypeCorrect == ControlSpec => []ControlTypesOK
<1>1. MergeInv => MergeTypeOK
  BY DEF MergeInv
<1>2. AuthInv => JwksTypeOK /\ AuthTypeOK
  <2> SUFFICES ASSUME AuthInv PROVE AuthTypeOK
    BY DEF AuthInv, AuthTypes
  <2>1. AuthTypes
    BY DEF AuthInv
  <2>2. ASSUME NEW r \in Caller
        PROVE  /\ req[r].pc \in {"idle", "keys", "handler", "reply"}
               /\ req[r].carried \in Flow \cup TokenId \cup {None}
    BY <2>1 DEF AuthTypes, Request
  <2>3. ASSUME NEW r \in Caller, req[r].pc = "reply"
        PROVE  req[r].reply.set \in Jars({Keep})
    BY <2>3 DEF AuthInv, RequestsGated, RequestGated, Set
  <2> QED
    BY <2>1, <2>2, <2>3 DEF AuthTypes, AuthTypeOK
<1>3. MergeSpec => []MergeInv
  BY MergeInitInv, MergeNextInv, PTL DEF MergeSpec
<1>4. TypeOK /\ MergeTypeOK /\ JwksTypeOK /\ AuthTypeOK => ControlTypesOK
  BY DEF ControlTypesOK
<1> QED
  BY <1>1, <1>2, <1>3, <1>4, ControlComposes, LeaseTypeCorrect, AuthInvariant, PTL
=============================================================================
