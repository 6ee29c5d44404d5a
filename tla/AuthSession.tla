----------------------------- MODULE AuthSession -----------------------------
(***************************************************************************)
(* A browser, its cookies and the /auth routes (oidc/route.rs, oidc/       *)
(* mod.rs), behind the JWT middleware (http/middleware/jwt.rs,             *)
(* bearer_token.rs) with its key cache (JwksCache).                        *)
(*                                                                         *)
(* A request takes the cookies of the moment with it; its answer changes   *)
(* the cookies when it arrives, and answers arrive in any order.           *)
(* The three cookies of a login flow (csrf, nonce, pkce) carry one flow    *)
(* number; a token keeps what the checks look at: its key, its tenant and  *)
(* whether it has expired.  The provider is external: codes and rotated    *)
(* refresh tokens work once.                                               *)
(***************************************************************************)
EXTENDS JwksCache

CONSTANTS
    None,          \* no cookie
    Keep,          \* an answer that leaves a cookie alone
    Path, BadPath, \* a return_to that is a local path, and one that is not
    Malformed, Junk,  \* an Authorization header, and a token, that do not parse
    Denied,        \* a callback without a code
    Tenant, AllowedTenants, HomeTenant,
    Deployments,   \* subset of {"single", "templated"}
    Op,            \* the requests clients make
    MaxFlow, MaxToken   \* bounds: logins started, tokens issued

ASSUME AuthAssumption ==
    /\ {MaxFlow, MaxToken} \subseteq Nat
    /\ {None, Keep, Junk, Malformed, Denied} \cap Nat = {}
    /\ Keep \notin {None, Path} /\ Junk # None
    /\ HomeTenant \in Tenant /\ Deployments \subseteq {"single", "templated"}
    /\ Op \subseteq {"login", "callback", "refresh", "logout", "me"}

VARIABLES
    started,       \* the document the provider served when the process started
    deployment,    \* whether the issuer is a {tenantid} template
    jar,           \* the cookies of the browser
    flows,         \* login flows started
    redeemed,      \* codes the provider has exchanged
    tokens,        \* ID tokens issued, in order
    expired,       \* those past their exp
    grants,        \* refresh tokens the provider accepts
    revoking,      \* spawned revocations
    req            \* the requests in flight

authVars == <<started, deployment, jar, flows, redeemed, tokens, expired, grants, revoking, req>>

Flow == 1..MaxFlow
TokenId == 1..MaxToken
NoReq == [pc |-> "idle", op |-> "none", arg |-> None, carried |-> None, tok |-> None,
          cookie |-> FALSE, claims |-> FALSE, unusable |-> FALSE, reply |-> None]

\* A cookie, or what an answer does to it.
Jars(extra) == [auth : TokenId \cup {None} \cup extra, refresh : TokenId \cup {None} \cup extra,
                flow : Flow \cup {None} \cup extra, ret : {Path, None} \cup extra]

Untouched == [auth |-> Keep, refresh |-> Keep, flow |-> Keep, ret |-> Keep]

AuthTypeOK ==
    /\ started \in 1..version
    /\ deployment \in Deployments
    /\ jar \in Jars({})
    /\ flows \in 0..MaxFlow /\ redeemed \subseteq 1..flows
    /\ tokens \in Seq([kid : Kids, ten : Tenant]) /\ Len(tokens) <= MaxToken
    /\ expired \subseteq DOMAIN tokens
    /\ grants \subseteq DOMAIN tokens /\ revoking \subseteq DOMAIN tokens
    /\ \A r \in Caller :
        /\ req[r].pc \in {"idle", "keys", "handler", "reply"}
        /\ req[r].carried \in Flow \cup TokenId \cup {None}
        /\ req[r].pc = "reply" => req[r].reply.set \in Jars({Keep})

AuthInit ==
    /\ started = 1
    /\ deployment \in Deployments
    /\ jar = [auth |-> None, refresh |-> None, flow |-> None, ret |-> None]
    /\ flows = 0 /\ redeemed = {} /\ tokens = <<>> /\ expired = {}
    /\ grants = {} /\ revoking = {}
    /\ req = [r \in Caller |-> NoReq]

-----------------------------------------------------------------------------
(* What the provider and the verifiers say. *)

\* OidcClient::new fetched the keys of the ID-token verifier, once.
LoginKeys == Usable(Doc[started])

\* Mutant: any tenant of the provider will do.
ResolveCheckedAny(ten) == deployment = "templated" => ten \in Tenant

\* IssuerTemplate::resolve_checked
ResolveChecked(ten) == deployment = "templated" => ten \in AllowedTenants

\* id_token.claims() and the tenant gate of exchange_code and refresh_token
IdTokenVerifies(tok) == tok.kid \in LoginKeys /\ ResolveChecked(tok.ten)

\* An ID token that the provider issues, signed with the key of the moment.  Only a templated
\* issuer signs for other tenants.
Mint(tok) ==
    /\ Len(tokens) < MaxToken
    /\ tok \in [kid : {SignKid[version]}, ten : IF deployment = "single" THEN {HomeTenant} ELSE Tenant]
    /\ tokens' = Append(tokens, tok)

Fresh == Len(tokens) + 1

-----------------------------------------------------------------------------
(* The middleware. *)

\* parse_bearer_token: a malformed header is no header.
Bearer(header) == IF header \in TokenId \cup {Junk} THEN header ELSE None

\* The cookie the handler of op reads.
Carried(op) ==
    CASE op = "callback" -> jar.flow
      [] op \in {"refresh", "logout"} -> jar.refresh
      [] OTHER -> None

Refused == [status |-> "refused", set |-> Untouched]

Answer(r, reply) ==
    [req EXCEPT ![r] = [NoReq EXCEPT !.pc = "reply", !.op = req[r].op, !.cookie = req[r].cookie,
                                  !.reply = reply]]

\* The request reaches the middleware: the bearer header wins over the
\* cookie, and an undecodable header of the token is refused at once.
Send(r, op, arg, header) ==
    LET bearer == Bearer(header)
        tok == IF bearer # None THEN bearer ELSE jar.auth
    IN  /\ req[r].pc = "idle"
        /\ req' = [req EXCEPT ![r] = [NoReq EXCEPT
                !.pc = CASE tok = None -> "handler" [] tok = Junk -> "reply" [] OTHER -> "keys",
                !.op = op, !.arg = arg, !.carried = Carried(op), !.tok = tok,
                !.cookie = (bearer = None /\ jar.auth # None),
                !.reply = IF tok = Junk THEN Refused ELSE None]]
        /\ UNCHANGED <<started, deployment, jar, flows, redeemed, tokens, expired, grants, revoking, jwksVars>>

\* JwksKeys::get in one step (JwksCache has its interleavings): a hit, a miss
\* that refreshes, or a miss inside the window or with a failed fetch.
GetKey(kid, found) ==
    \/ kid \in cache /\ found /\ UNCHANGED cache
    \/ kid \notin cache /\ ~found /\ UNCHANGED cache
    \/ kid \notin cache /\ cache' = Usable(Doc[version]) /\ found = (kid \in cache')

\* decode: signature, algorithm, exp, audience and issuer
Decodes(id) == id \notin expired /\ (deployment = "single" => tokens[id].ten = HomeTenant)

\* No key and a tenant outside the allowlist refuse the request; a token
\* that does not decode makes it anonymous.
Authenticate(r) ==
    LET tok == tokens[req[r].tok] IN
    /\ req[r].pc = "keys"
    /\ \E found \in BOOLEAN :
        /\ GetKey(tok.kid, found)
        /\ req' = IF found /\ ResolveChecked(tok.ten)
                  THEN [req EXCEPT ![r].pc = "handler", ![r].claims = Decodes(req[r].tok),
                                   ![r].unusable = ~Decodes(req[r].tok)]
                  ELSE Answer(r, Refused)
    /\ UNCHANGED <<version, sinceRefresh, sinceFetch, get, faults>>
    /\ UNCHANGED <<started, deployment, jar, flows, redeemed, tokens, expired, grants, revoking>>

\* Mutant: the way out clears the cookie whatever the handler has set.
WayOutAlways(r, set) ==
    IF req[r].unusable /\ req[r].cookie THEN [set EXCEPT !.auth = None] ELSE set

\* The way out: clear the cookie that did not decode, unless the handler
\* has set a session.
WayOut(r, set) ==
    IF req[r].unusable /\ req[r].cookie /\ set.auth \notin TokenId
    THEN [set EXCEPT !.auth = None] ELSE set

Reply(r, status, set) == req' = Answer(r, [status |-> status, set |-> WayOut(r, set)])

-----------------------------------------------------------------------------
(* The handlers. *)

\* get_auth_url: new secrets, here the number of a new flow.
GetAuthUrl == flows < MaxFlow /\ flows' = flows + 1

\* A valid return_to sets its cookie; no return_to leaves an older one.
Login(r) ==
    /\ req[r].op = "login"
    /\ \/ /\ req[r].arg = BadPath
          /\ Reply(r, "failed", Untouched)
          /\ UNCHANGED flows
       \/ /\ req[r].arg # BadPath
          /\ GetAuthUrl
          /\ Reply(r, "ok", [Untouched EXCEPT !.flow = flows',
                                !.ret = IF req[r].arg = Path THEN Path ELSE Keep])
    /\ UNCHANGED <<redeemed, tokens, grants, revoking>>

\* clear_auth_flow_cookies
FlowCleared == [Untouched EXCEPT !.flow = None, !.ret = None]

\* callback_failure: JSON, or a redirect when there is a return path.
CallbackFailure(r) == Reply(r, "failed", FlowCleared)

\* The provider answered with an error, the cookies or the code are
\* missing, or the state is that of another flow.
CallbackRefuses(r) ==
    /\ req[r].arg \notin Flow \/ req[r].carried # req[r].arg
    /\ CallbackFailure(r)
    /\ UNCHANGED <<redeemed, tokens, grants>>

\* exchange_code: the provider redeems the code, with or without a refresh
\* token; what it issued is used only if the ID token verifies.
ExchangeCode(code, tok, refresh, verified) ==
    /\ code \notin redeemed
    /\ Mint(tok)
    /\ redeemed' = redeemed \cup {code}
    /\ grants' = IF refresh THEN grants \cup {Fresh} ELSE grants
    /\ verified = IdTokenVerifies(tok)

\* The exchange succeeds, the ID token does not verify, or the provider refuses.
CallbackExchanges(r) ==
    /\ req[r].arg \in Flow /\ req[r].carried = req[r].arg
    /\ \/ \E tok \in [kid : Kids, ten : Tenant], refresh \in BOOLEAN :
            \/ /\ ExchangeCode(req[r].arg, tok, refresh, TRUE)
               /\ Reply(r, "ok", [FlowCleared EXCEPT !.auth = Fresh,
                                     !.refresh = IF refresh THEN Fresh ELSE Keep])
            \/ ExchangeCode(req[r].arg, tok, refresh, FALSE) /\ CallbackFailure(r)
       \/ CallbackFailure(r) /\ UNCHANGED <<redeemed, tokens, grants>>

Callback(r) ==
    /\ req[r].op = "callback"
    /\ CallbackRefuses(r) \/ CallbackExchanges(r)
    /\ UNCHANGED <<flows, revoking>>

\* refresh_token: the provider may rotate the refresh token.
RefreshToken(old, tok, rotate, verified) ==
    /\ old \in grants
    /\ Mint(tok)
    /\ tok.ten = tokens[old].ten
    /\ grants' = IF rotate THEN (grants \ {old}) \cup {Fresh} ELSE grants
    /\ verified = IdTokenVerifies(tok)

\* Mutant: the rotated refresh token is not stored.
RefreshedKeepsOld(rotate) == [Untouched EXCEPT !.auth = Fresh]

\* The cookies of a successful refresh.
Refreshed(rotate) ==
    [Untouched EXCEPT !.auth = Fresh, !.refresh = IF rotate THEN Fresh ELSE Keep]

\* Without the cookie, and when the provider refuses, nothing changes.
Refresh(r) ==
    /\ req[r].op = "refresh"
    /\ \/ Reply(r, "failed", Untouched) /\ UNCHANGED <<tokens, grants>>
       \/ \E tok \in [kid : Kids, ten : Tenant], rotate \in BOOLEAN :
            \/ RefreshToken(req[r].carried, tok, rotate, TRUE) /\ Reply(r, "ok", Refreshed(rotate))
            \/ RefreshToken(req[r].carried, tok, rotate, FALSE) /\ Reply(r, "failed", Untouched)
    /\ UNCHANGED <<flows, redeemed, revoking>>

\* logout clears both cookies and spawns the revocation.
Logout(r) ==
    /\ req[r].op = "logout"
    /\ revoking' = IF req[r].carried = None THEN revoking
                   ELSE revoking \cup {req[r].carried}
    /\ Reply(r, "ok", [Untouched EXCEPT !.auth = None, !.refresh = None])
    /\ UNCHANGED <<flows, redeemed, tokens, grants>>

\* The extractor Validated<Claims>: the claims, or 401.
Validated(r) == req[r].claims

Me(r) ==
    /\ req[r].op = "me"
    /\ Reply(r, IF Validated(r) THEN "ok" ELSE "failed", Untouched)
    /\ UNCHANGED <<flows, redeemed, tokens, grants, revoking>>

Handle(r) ==
    /\ req[r].pc = "handler"
    /\ Login(r) \/ Callback(r) \/ Refresh(r) \/ Logout(r) \/ Me(r)
    /\ UNCHANGED <<started, deployment, jar, expired, jwksVars>>

-----------------------------------------------------------------------------
(* The world outside. *)

\* The answer arrives, and the browser applies its Set-Cookie headers.
Deliver(r) ==
    /\ req[r].pc = "reply"
    /\ jar' = [n \in DOMAIN jar |->
                IF req[r].reply.set[n] = Keep THEN jar[n] ELSE req[r].reply.set[n]]
    /\ req' = [req EXCEPT ![r] = NoReq]
    /\ UNCHANGED <<started, deployment, flows, redeemed, tokens, expired, grants, revoking, jwksVars>>

TokenExpires ==
    /\ \E t \in DOMAIN tokens \ expired : expired' = expired \cup {t}
    /\ UNCHANGED <<started, deployment, jar, flows, redeemed, tokens, grants, revoking, req, jwksVars>>

\* The five minutes of the flow cookies are over.
FlowCookiesExpire ==
    /\ jar.flow # None
    /\ jar' = [jar EXCEPT !.flow = None, !.ret = None]
    /\ UNCHANGED <<started, deployment, flows, redeemed, tokens, expired, grants, revoking, req, jwksVars>>

\* revoke_token of the spawned task; a failure is logged and forgotten.
Revoke(t) ==
    /\ t \in revoking
    /\ revoking' = revoking \ {t}
    /\ grants' \in {grants, grants \ {t}}
    /\ UNCHANGED <<started, deployment, jar, flows, redeemed, tokens, expired, req, jwksVars>>

\* A drained process is replaced: discovery and both key stores start from
\* the document of the moment, and spawned revocations are gone.
RestartServer ==
    /\ \A r \in Caller : req[r].pc = "idle"
    /\ started' = version
    /\ cache' = Usable(Doc[version])
    /\ revoking' = {}
    /\ UNCHANGED <<version, sinceRefresh, sinceFetch, get, faults>>
    /\ UNCHANGED <<deployment, jar, flows, redeemed, tokens, expired, grants, req>>

\* What each request can carry.
Args(op) ==
    CASE op = "login" -> {None, Path, BadPath}
      [] op = "callback" -> {Denied} \cup 1..flows
      [] OTHER -> {None}

\* Bound: only the session probe is called with an Authorization header.
Headers(op) ==
    IF op = "me" THEN {None, Malformed, Junk} \cup DOMAIN tokens
    ELSE {None}

AuthNext ==
    \/ \E r \in Caller :
        \/ \E op \in Op : \E header \in Headers(op), arg \in Args(op) : Send(r, op, arg, header)
        \/ Authenticate(r)
        \/ Handle(r)
        \/ Deliver(r)
    \/ \E t \in revoking : Revoke(t)
    \/ TokenExpires
    \/ FlowCookiesExpire
    \/ RestartServer
    \/ ProviderRotates /\ UNCHANGED authVars

AuthSpec == JwksInit /\ AuthInit /\ [][AuthNext]_<<authVars, jwksVars>>

-----------------------------------------------------------------------------
(* The tenant gate: with a templated issuer, no token of a tenant outside  *)
(* the allowlist becomes a session cookie or the claims of a request,      *)
(* whichever of callback, refresh and middleware it comes through.         *)
TenantGate ==
    deployment = "templated" =>
        /\ jar.auth # None => tokens[jar.auth].ten \in AllowedTenants
        /\ \A r \in Caller : req[r].claims => tokens[req[r].tok].ten \in AllowedTenants

(* "The callback would complete after it DELETED the session that it had   *)
(* just established" (jwt.rs): the browser that receives the answer of a   *)
(* successful callback or refresh has its new session afterwards, whatever *)
(* cookie the request carried.                                             *)
SessionEstablished ==
    [][\A r \in Caller :
        (/\ req[r].pc = "reply" /\ req'[r].pc = "idle"
         /\ req[r].op \in {"callback", "refresh"} /\ req[r].reply.status = "ok")
        => jar'.auth # None]_<<authVars, jwksVars>>

(* While the provider keeps its keys and answers arrive, a browser at rest *)
(* holds a refresh token the provider accepts, or none: concurrent         *)
(* refreshes, logins and logouts never leave it with a consumed one.       *)
RefreshCookieLive ==
    (version = 1 /\ \A r \in Caller : req[r].pc = "idle")
        => jar.refresh \in grants \cup {None}

(* An unusable session "continues unauthenticated so the public auth       *)
(* routes stay reachable" (jwt.rs): a browser that sends nothing but the   *)
(* cookie this server gave it gets through to the handler of login.        *)
LoginReachable ==
    \A r \in Caller :
        req[r].op = "login" /\ req[r].cookie /\ req[r].pc = "reply"
            => req[r].reply.status # "refused"
=============================================================================
