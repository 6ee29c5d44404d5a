--------------------------- MODULE CapabilityTokens ---------------------------
(***************************************************************************)
(* The configuration that serve loads (src/src/config.rs), the signing     *)
(* keys of the file capability tokens that come out of it                 *)
(* (src/src/main.rs, src/src/fs/mod.rs) and the tokens themselves          *)
(* (src/src/fs/token.rs), over restarts, key rotations and bad edits.      *)
(*                                                                         *)
(* A secret is a model value.  Weak stands for text that is not 64 hex     *)
(* characters, Spaces for text that trims to nothing.  Of the fields of    *)
(* the file that no variable of the environment overrides, only whether    *)
(* validate accepts them is kept (rest).                                   *)
(***************************************************************************)
EXTENDS Integers, FiniteSets

CONSTANTS
    Secret,       \* 32-byte secrets in hex
    Weak, Spaces, Blank, Unset,
    FileId, TokenAct,
    TokenTTL,     \* DEFAULT_TTL_SECS
    MaxNow, MaxLoads, MaxTokens

ASSUME CapabilityAssumption ==
    /\ TokenTTL \in Nat \ {0}
    /\ {MaxNow, MaxTokens} \subseteq Nat /\ MaxLoads \in Nat \ {0}
    /\ {Weak, Spaces, Blank, Unset} \cap Secret = {}
    /\ Weak # Unset /\ Spaces \notin {Blank, Unset}
    /\ [drawn : 1..MaxLoads] \cap (Secret \cup {Unset}) = {}

Text == Secret \cup {Weak, Spaces, Blank}

\* TokenKeys::ephemeral: a key no other process has.
Ephemeral == [drawn : 1..MaxLoads]
SigningKey == Secret \cup Ephemeral

FsClaims == [file : FileId, act : TokenAct, exp : Nat]

VARIABLES
    file,      \* the TOML file
    env,       \* the RUST_API_* variables
    lastGood,  \* the file and variables the last load accepted
    running,   \* the config of the running process, or Unset
    keys,      \* TokenKeys
    capTokens,    \* every token minted
    second,    \* now
    switched,  \* when a process last started with another key
    loads

capVars == <<file, env, lastGood, running, keys, capTokens, second, switched, loads>>

Fields == {"client", "secret", "previous"}
EnvConfig == [Fields -> Text \cup {Unset}]
FileConfig == [client : Text, secret : Text \cup {Unset},
               previous : Text \cup {Unset}, rest : {"ok", "bad"}]
TokenKeys == [current : SigningKey, previous : SigningKey \cup {Unset}]

\* The file, the environment, the process and its tokens.
CapabilityTypeOK ==
    /\ file \in FileConfig /\ env \in EnvConfig
    /\ lastGood \in FileConfig \X EnvConfig
    /\ running \in FileConfig \cup {Unset}
    /\ keys \in TokenKeys
    /\ \A t \in capTokens : t.key \in SigningKey /\ t.claims \in FsClaims
    /\ second \in 0..MaxNow /\ switched \in -(TokenTTL + 1)..MaxNow
    /\ loads \in 0..MaxLoads

-----------------------------------------------------------------------------
(* config.rs *)

\* prefer_env, prefer_env_opt: a value that is present and not empty wins.
PreferEnv(e, f) == IF e \in {Unset, Blank} THEN f ELSE e

\* apply_overrides_from; the overrides of the S3, origin and queue settings are
\* left out, they are part of what `rest` stands for.
Overlay(f, e) ==
    [f EXCEPT !.client = PreferEnv(e["client"], @),
              !.secret = PreferEnv(e["secret"], @),
              !.previous = PreferEnv(e["previous"], @)]

\* Config::validate
Valid(c) ==
    /\ c.rest = "ok"
    /\ c.client \notin {Blank, Spaces}
    /\ {c.secret, c.previous} \subseteq Secret \cup {Unset}

\* Config::try_from_with: validated as parsed, and again after the overlay.
Loads(f, e) == Valid(f) /\ Valid(Overlay(f, e))

\* TokenKeys::from_hex, of secrets that validate has accepted.
FromHex(current, previous) == [current |-> current, previous |-> previous]

\* resolve_token_keys
ResolveTokenKeys(c, n) ==
    IF c.secret = Unset
      THEN [current |-> [drawn |-> n], previous |-> Unset]
      ELSE FromHex(c.secret, c.previous)

-----------------------------------------------------------------------------
(* token.rs *)

\* The claims also name a subject, "that may use the token"; verify does not
\* look at it, so whoever has the token may use it, and it is left out.
MintClaims(k, f, a) ==
    [key |-> k.current,
     claims |-> [file |-> f, act |-> a, exp |-> second + TokenTTL]]

\* Mutation of Secrets: the previous key is not consulted.
SecretsCurrentOnly(k) == {k.current}

\* The secrets that verify tries.
Secrets(k) == {k.current, k.previous} \ {Unset}

\* jsonwebtoken::decode with leeway 0: the signature and the expiry.
DecodesToken(t, secret) == t.key = secret /\ t.claims.exp >= second

\* verify: the first secret that decodes the token decides.
Verify(k, t, f, a) ==
    \E s \in Secrets(k) : DecodesToken(t, s) /\ t.claims.file = f /\ t.claims.act = a

-----------------------------------------------------------------------------
\* A deployment that signs with a stable secret, or with none, and that keeps
\* the client secret in the file, in the environment or nowhere.
CapabilityInit ==
    /\ file \in [client : {Weak, Blank}, secret : {Unset} \cup Secret,
                 previous : {Unset}, rest : {"ok"}]
    /\ env \in {e \in EnvConfig : /\ e["client"] \in {Weak, Unset}
                                 /\ e["secret"] \in {Unset, Blank} /\ e["previous"] = Unset}
    /\ lastGood = <<file, env>>
    /\ running = Unset
    /\ keys = [current |-> [drawn |-> 1], previous |-> Unset]
    /\ capTokens = {}
    /\ second = 0
    /\ switched = -(TokenTTL + 1)
    /\ loads = 0

\* The process starts, or a deployment restarts it.  A config that does not
\* load leaves nothing running.
LoadConfig ==
    /\ loads < MaxLoads
    /\ loads' = loads + 1
    /\ IF Loads(file, env)
         THEN /\ running' = Overlay(file, env)
              /\ keys' = ResolveTokenKeys(Overlay(file, env), loads + 1)
              /\ switched' = IF keys'.current = keys.current THEN switched ELSE second
              /\ lastGood' = <<file, env>>
         ELSE /\ running' = Unset
              /\ UNCHANGED <<keys, lastGood, switched>>
    /\ UNCHANGED <<file, env, capTokens, second>>

\* FsEngine::mint_token
MintToken(f, a) ==
    /\ running # Unset
    /\ Cardinality(capTokens) < MaxTokens
    /\ capTokens' = capTokens \cup {MintClaims(keys, f, a)}
    /\ UNCHANGED <<file, env, lastGood, running, keys, second, switched, loads>>

\* The documented rotation, after the tokens of the last one have run out:
\* the secret moves to previous_secret and a new one is deployed, both where
\* the secret takes effect.
Rotate(s) ==
    /\ second - switched > TokenTTL
    /\ <<file, env>> = lastGood /\ running # Unset
    /\ \/ /\ env["secret"] \in Secret \ {s}
          /\ env' = [env EXCEPT !["secret"] = s, !["previous"] = env["secret"]]
          /\ UNCHANGED file
       \/ /\ env["secret"] \in {Unset, Blank}
          /\ file.secret \in Secret \ {s}
          /\ file' = [file EXCEPT !.secret = s, !.previous = file.secret]
          /\ UNCHANGED env
    /\ UNCHANGED <<lastGood, running, keys, capTokens, second, switched, loads>>

\* The operator moves a secret of the file to the environment.
MoveToEnv ==
    /\ <<file, env>> = lastGood
    /\ file.secret \in Secret /\ env["secret"] \in {Unset, Blank}
    /\ env' = [env EXCEPT !["secret"] = file.secret, !["previous"] = file.previous]
    /\ UNCHANGED <<file, lastGood, running, keys, capTokens, second, switched, loads>>

\* A bad edit of a variable or of the file, and taking it back.
BadEdit ==
    /\ <<file, env>> = lastGood
    /\ \/ \E f \in Fields : env' = [env EXCEPT ![f] = Spaces] /\ UNCHANGED file
       \/ file' \in {[file EXCEPT !.rest = "bad"], [file EXCEPT !.secret = Weak]}
          /\ UNCHANGED env
    /\ UNCHANGED <<lastGood, running, keys, capTokens, second, switched, loads>>

Revert ==
    /\ ~Loads(file, env)
    /\ <<file, env>> # lastGood
    /\ file' = lastGood[1] /\ env' = lastGood[2]
    /\ UNCHANGED <<lastGood, running, keys, capTokens, second, switched, loads>>

CapabilityTick ==
    /\ second < MaxNow
    /\ second' = second + 1
    /\ UNCHANGED <<file, env, lastGood, running, keys, capTokens, switched, loads>>

CapabilityNext ==
    \/ LoadConfig \/ MoveToEnv \/ BadEdit \/ Revert \/ CapabilityTick
    \/ \E s \in Secret : Rotate(s)
    \/ \E f \in FileId, a \in TokenAct : MintToken(f, a)

CapabilitySpec == CapabilityInit /\ [][CapabilityNext]_capVars

-----------------------------------------------------------------------------
\* A capability token grants what it was minted for, until it expires and no
\* longer, across restarts, rotations and bad deployments in between: a token
\* of a stable secret as long as the operator rotates as documented, a token
\* of an ephemeral key in the process that drew the key.
TokensHonoured ==
    running # Unset =>
        \A t \in capTokens, f \in FileId, a \in TokenAct :
            Verify(keys, t, f, a) <=>
                /\ t.claims.file = f /\ t.claims.act = a
                /\ second <= t.claims.exp
                /\ t.key \in Ephemeral => t.key = keys.current

=============================================================================
