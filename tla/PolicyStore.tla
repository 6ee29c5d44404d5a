----------------------------- MODULE PolicyStore -----------------------------
(***************************************************************************)
(* The policy engine (policy/mod.rs) over its storage adapter              *)
(* (policy/adapter.rs), with the callers that change it: the /policy       *)
(* routes, the bootstrap route (policy/setup.rs) and the import command    *)
(* (policy/admin.rs).                                                      *)
(*                                                                         *)
(* A tuple is a rule <<"p", sub, obj, act>> or a membership                *)
(* <<"g", user, group>>.  The enforcer (casbin, external) with auto-save   *)
(* awaits the adapter first and changes its memory only when the adapter   *)
(* did change the store; both happen under the write lock, one tuple at a  *)
(* time.  The change is announced after the lock is released.  At each     *)
(* await the request may end: with an error, or because the client leaves  *)
(* and the server drops the handler.  A lost store epoch is in             *)
(* WriterLease; here it is one of the refused writes.                      *)
(***************************************************************************)
EXTENDS Naturals, Sequences, FiniteSets

CONSTANTS
    Req,           \* requests in flight
    PolicySubject,       \* subjects of the tokens
    Superadmin,    \* the role SUPERADMIN_ROLE
    EditTuple,     \* tuples that requests add and remove
    EditGroup,     \* groups that requests delete
    Dumps,         \* import files: sequences of tuples, rules first
    MaxPolFaults,  \* bound: failed writes and announcements, and crashes
    MaxEdits,      \* bound: requests that pass their check
    Pieces(_),     \* a field as the pieces between its separators U+001F
    Free

\* The rules that ensure_superadmin_rules adds, in its order.
SeedRules == << <<"p", Superadmin, "rules", "read">>,
                <<"p", Superadmin, "rules", "write">>,
                <<"p", Superadmin, "user_groups", "read">>,
                <<"p", Superadmin, "user_groups", "write">> >>
ToSet(s) == {s[i] : i \in DOMAIN s}
IsRule(t) == t[1] = "p"

\* PolicyRuleValidator: the fields that a rule and a membership have.
ExpectedArity(sec) == IF sec = "p" THEN 3 ELSE 2
Validate(t) == Len(t) = 1 + ExpectedArity(t[1])

\* rule_key: the section and the fields joined with a separator that a field
\* may hold itself, so two tuples can have one key.
RuleKey(t) ==
    LET joined[n \in 1..Len(t)] == IF n = 1 THEN <<t[1]>> ELSE joined[n - 1] \o Pieces(t[n])
    IN joined[Len(t)]

\* The tuples that requests, import files and claims add.
DumpTuple == UNION {ToSet(dump) : dump \in Dumps}
ClaimTuple == {<<"g", s, Superadmin>> : s \in PolicySubject}
PolicyTuple == EditTuple \cup DumpTuple \cup ToSet(SeedRules) \cup ClaimTuple

\* An import of an empty file changes nothing and is left out.  The fields of
\* the seeded rules hold no separator, so no other rule has their key.
ASSUME PolicyAssumption ==
    /\ Free \notin Req /\ {MaxPolFaults, MaxEdits} \subseteq Nat
    /\ \A dump \in Dumps : dump # <<>> /\ dump \in Seq({dump[i] : i \in DOMAIN dump})
    /\ \A s \in ToSet(SeedRules), t \in PolicyTuple :
            Validate(t) /\ RuleKey(t) = RuleKey(s) => t = s

VARIABLES
    polMode,       \* "serve", "import" or "down"
    stored,        \* the tuples in the policy store
    enforced,      \* the tuples in the memory of the enforcer
    writer,        \* the request with the write lock, or Free
    preq,          \* the requests; the import runs as the one of Importer
    unannounced,   \* history: tuples changed since their last announcement
    dropped,       \* history: tuples that nobody announces any more
    adrift,        \* history: tuples of which only the store changed
    wins,          \* history: claims that won since the role was empty
    healed,        \* history: a claim ended and no seeded rule was removed
    edits, polFaults

polVars == <<polMode, stored, enforced, writer, preq, unannounced, dropped, adrift,
             wins, healed, edits, polFaults>>

IdleReq == [op |-> "none", sub |-> Free, arg |-> Free, pc |-> "idle",
            todo |-> <<>>, out |-> <<>>, first |-> FALSE, moved |-> {}]
Phase == {"idle", "require", "lock", "commit", "apply", "announce"}

PolicyTypeOK ==
    /\ polMode \in {"serve", "import", "down"}
    /\ writer \in Req \cup {Free}
    /\ \A r \in Req : preq[r].pc \in Phase /\ (preq[r].pc \in {"commit", "apply"} <=> writer = r)
    /\ \A t \in stored : Validate(t)       \* what a restart can load
    /\ wins \in 0..MaxEdits /\ healed \in BOOLEAN
    /\ edits \in 0..MaxEdits /\ polFaults \in 0..MaxPolFaults

PolicyInit ==
    /\ polMode = "serve"
    /\ stored = {} /\ enforced = {}
    /\ writer = Free
    /\ preq = [r \in Req |-> IdleReq]
    /\ unannounced = {} /\ dropped = {} /\ adrift = {} /\ wins = 0 /\ healed = FALSE
    /\ edits = 0 /\ polFaults = 0

-----------------------------------------------------------------------------
(* The enforcer *)

MaxHierarchy == 10     \* the depth to which casbin follows memberships

\* g(r.sub, p.sub): the subject itself and the groups it reaches.
Roles(s) ==
    LET reach[n \in 0..MaxHierarchy] ==
            IF n = 0 THEN {s}
            ELSE LET below == reach[n - 1]
                 IN below \cup {t[3] : t \in {u \in enforced : ~IsRule(u) /\ u[2] \in below}}
    IN reach[MaxHierarchy]

\* Authorizer::authorize with the matcher of RBAC_MODEL.
Authorize(s, obj, act) == \E role \in Roles(s) : <<"p", role, obj, act>> \in enforced

\* get_users_for_role
Members(tuples, g) == {t[2] : t \in {u \in tuples : ~IsRule(u) /\ u[3] = g}}

-----------------------------------------------------------------------------
(* The routes: the JWT middleware names the subject, the body is           *)
(* validated, require() reads the policy, and the change follows later.    *)
Resource(op) == IF op \in {"add_rule", "remove_rule"} THEN "rules" ELSE "user_groups"

PolBegin(r, op, sub, arg) ==
    /\ polMode = "serve" /\ preq[r].pc = "idle" /\ edits < MaxEdits
    /\ edits' = edits + 1
    /\ preq' = [preq EXCEPT ![r] = [IdleReq EXCEPT
            !.op = op, !.sub = sub, !.arg = arg,
            !.pc = IF op = "claim" THEN "lock" ELSE "require"]]
    /\ UNCHANGED <<polMode, stored, enforced, writer, unannounced, dropped, adrift, wins, healed, polFaults>>

AddRuleRoute(r, sub, t) == IsRule(t) /\ PolBegin(r, "add_rule", sub, t)
RemoveRuleRoute(r, sub, t) == IsRule(t) /\ PolBegin(r, "remove_rule", sub, t)
AssignGroupRoute(r, sub, t) == ~IsRule(t) /\ PolBegin(r, "assign", sub, t)
RemoveUserRoute(r, sub, t) == ~IsRule(t) /\ PolBegin(r, "unassign", sub, t)
DeleteGroupRoute(r, sub, g) == PolBegin(r, "delete_group", sub, g)
ClaimAdminRoute(r, sub) == PolBegin(r, "claim", sub, Free)

\* Every route but the claim checks the caller first.
PolRequire(r) ==
    /\ preq[r].pc = "require" /\ writer = Free
    /\ preq' = [preq EXCEPT ![r] =
            IF Authorize(preq[r].sub, Resource(preq[r].op), "write")
            THEN [preq[r] EXCEPT !.pc = "lock"] ELSE IdleReq]
    /\ UNCHANGED <<polMode, stored, enforced, writer, unannounced, dropped, adrift, wins, healed, edits,
                   polFaults>>

\* Mutant: the conflict answers without the repair of the rules.
ClaimPlanNoRepair(sub) ==
    IF Members(enforced, Superadmin) = {} THEN << <<"g", sub, Superadmin>> >> \o SeedRules
    ELSE <<SeedRules[1]>>

\* claim_superadmin: the role for the first caller, and the rules in any case.
ClaimPlan(sub) ==
    IF Members(enforced, Superadmin) = {} THEN << <<"g", sub, Superadmin>> >> \o SeedRules
    ELSE SeedRules

\* The write lock.  The plan holds the arguments of the changes to make: the
\* tuples, one call each, or the group of a filtered removal.
PolLock(r) ==
    LET q == preq[r]
        plan == IF q.op = "claim" THEN ClaimPlan(q.sub)
                ELSE IF q.op = "import" THEN q.todo ELSE <<q.arg>>
    IN
    /\ q.pc = "lock" /\ writer = Free
    /\ writer' = r
    /\ preq' = [preq EXCEPT ![r].pc = "commit", ![r].todo = plan,
                            ![r].first = (q.op = "claim" /\ ~IsRule(Head(plan)))]
    /\ UNCHANGED <<polMode, stored, enforced, unannounced, dropped, adrift, wins, healed, edits,
                   polFaults>>

-----------------------------------------------------------------------------
(* One change: the adapter in one transaction, then the enforcer.          *)
Removal == {"remove_rule", "unassign", "delete_group"}

\* encode_rule: an import file may hold a rule with the wrong fields.
EncodeRule(q) == q.op \notin Removal => Validate(Head(q.todo))

\* The tuples that the call is about: one, or the memberships of a group.
Names(q, t) == IF q.op = "delete_group" THEN ~IsRule(t) /\ t[3] = Head(q.todo)
               ELSE t = Head(q.todo)

\* The rows under the key of the tuple.
KeyHeld(q) == {t \in stored : RuleKey(t) = RuleKey(Head(q.todo))}

\* add_policies stages only a key that the store does not have.
AdapterAdds(q) == IF q.op \in Removal THEN {} ELSE IF KeyHeld(q) # {} THEN {} ELSE {Head(q.todo)}

\* Mutant: the filter ignores the section and the index of the field.
AdapterRemovesAnyField(q) ==
    CASE q.op = "delete_group" -> {t \in stored : q.arg \in {t[2], t[3]}}
      [] q.op \in {"remove_rule", "unassign"} -> KeyHeld(q)
      [] OTHER -> {}

\* remove_policies by key, and remove_filtered_policy with field index 1.
AdapterRemoves(q) ==
    CASE q.op = "delete_group" -> {t \in stored : Names(q, t)}
      [] q.op \in {"remove_rule", "unassign"} -> KeyHeld(q)
      [] OTHER -> {}

\* Mutant: a change that an import or a claim makes is not announced.
AnnounceOpRouteOnly(q, change) ==
    IF change = {} \/ q.op \in {"claim", "import"} THEN <<>> ELSE <<change>>

\* What the caller announces: what the memory did, a group as a whole, and
\* the membership of a first claim in any case.
AnnounceOp(q, change) ==
    IF q.first /\ ~IsRule(Head(q.todo)) THEN <<{Head(q.todo)}>>
    ELSE IF change = {} THEN <<>>
    ELSE <<{t \in change \cup q.moved : Names(q, t)}>>

\* The call into the enforcer returns, having changed its memory or not: the
\* next one of the plan, or the lock goes and the announcements follow.
Returned(r, change) ==
    LET q == preq[r]
        rest == Tail(q.todo)
        out == q.out \o AnnounceOp(q, change)
        last == rest = <<>> \/ q.op = "import"     \* an import announces each one
        next == [q EXCEPT !.todo = rest, !.moved = {}]
    IN
    /\ preq' = [preq EXCEPT ![r] =
            IF ~last THEN [next EXCEPT !.pc = "commit", !.out = out]
            ELSE IF out # <<>> THEN [next EXCEPT !.pc = "announce", !.out = out]
            ELSE IF rest # <<>> THEN [next EXCEPT !.pc = "lock"]
            ELSE IdleReq]
    /\ writer' = IF last THEN Free ELSE writer
    /\ wins' = IF Members(enforced', Superadmin) = {} THEN 0
               ELSE IF last /\ q.first THEN wins + 1 ELSE wins
    /\ healed' = (healed \/ (last /\ q.op = "claim"))
    /\ polMode' = IF q.op = "import" /\ rest = <<>> /\ out = <<>> THEN "down" ELSE polMode

\* The transaction of the adapter.  A duplicate, or a key that is not there,
\* rolls it back, and the enforcer leaves its memory alone.
PolCommit(r) ==
    LET q == preq[r]
        change == AdapterAdds(q) \cup AdapterRemoves(q)
    IN
    /\ q.pc = "commit" /\ EncodeRule(q)
    /\ stored' = (stored \ AdapterRemoves(q)) \cup AdapterAdds(q)
    /\ unannounced' = unannounced \cup change
    /\ UNCHANGED <<enforced, dropped, adrift, edits, polFaults>>
    /\ IF change = {} THEN Returned(r, {})
       ELSE /\ preq' = [preq EXCEPT ![r].pc = "apply", ![r].moved = change]
            /\ healed' = (healed /\ (q.op \notin Removal \/ change \cap ToSet(SeedRules) = {}))
            /\ UNCHANGED <<polMode, writer, wins>>

\* The commit has answered and casbin changes its memory, by the tuple and not
\* by the key.  It says whether the memory changed, and the feed hears of that.
PolApply(r) ==
    LET q == preq[r]
        change == IF q.op \in Removal THEN {t \in enforced : Names(q, t)}
                  ELSE {Head(q.todo)} \ enforced
    IN
    /\ q.pc = "apply"
    /\ enforced' = IF q.op \in Removal THEN enforced \ change ELSE enforced \cup change
    /\ adrift' = {t \in adrift : ~Names(q, t)}
                   \cup IF q.op = "delete_group" THEN {} ELSE {t \in q.moved : ~Names(q, t)}
    /\ unannounced' = unannounced \cup change
    /\ dropped' = dropped \cup (q.moved \ change)
    /\ Returned(r, change)
    /\ UNCHANGED <<stored, edits, polFaults>>

\* announce: the feed takes one entry after the other.
PolAnnounce(r) ==
    LET q == preq[r] IN
    /\ q.pc = "announce"
    /\ unannounced' = unannounced \ Head(q.out)
    /\ dropped' = dropped \ Head(q.out)
    /\ preq' = [preq EXCEPT ![r] =
            IF Tail(q.out) # <<>> THEN [q EXCEPT !.out = Tail(q.out)]
            ELSE IF q.todo # <<>> THEN [q EXCEPT !.pc = "lock", !.out = <<>>]
            ELSE IdleReq]
    /\ polMode' = IF q.op = "import" /\ q.todo = <<>> THEN "down" ELSE polMode
    /\ UNCHANGED <<stored, enforced, writer, adrift, wins, healed, edits, polFaults>>

\* What a request has changed and not announced.
Unsent(q) == q.moved \cup UNION ToSet(q.out)

\* The request ends where it is: what is left of its plan and of its
\* announcements is dropped, and a change that only the store has stays so.
Ends(r) ==
    /\ dropped' = dropped \cup Unsent(preq[r])
    /\ adrift' = adrift \cup preq[r].moved
    /\ writer' = IF writer = r THEN Free ELSE writer
    /\ preq' = [preq EXCEPT ![r] = IdleReq]
    /\ UNCHANGED <<stored, enforced, unannounced, wins, healed, edits>>

\* The adapter refuses the rule, the store the write, the answer of a commit
\* that took effect is lost, or the feed refuses the entry: the caller gets
\* the error.
PolFail(r) ==
    /\ preq[r].pc \in {"commit", "apply", "announce"}
    /\ \/ preq[r].pc = "commit" /\ ~EncodeRule(preq[r]) /\ UNCHANGED polFaults
       \/ polFaults < MaxPolFaults /\ polFaults' = polFaults + 1
    /\ polMode' = IF preq[r].op = "import" THEN "down" ELSE polMode
    /\ Ends(r)

\* The client leaves and the server drops the handler at the await that it is
\* in.  Nobody gets an error.
PolDrop(r) ==
    /\ preq[r].pc # "idle" /\ preq[r].op # "import"
    /\ Ends(r)
    /\ UNCHANGED <<polMode, polFaults>>

-----------------------------------------------------------------------------
(* The process ends, with requests in flight or without, and another one,  *)
(* the server or an import, loads the store.                               *)
PolStop ==
    /\ polMode # "down"
    /\ \/ polMode = "serve" /\ (\A r \in Req : preq[r].pc = "idle") /\ UNCHANGED polFaults
       \/ polFaults < MaxPolFaults /\ polFaults' = polFaults + 1
    /\ polMode' = "down"
    /\ enforced' = {}
    /\ writer' = Free
    /\ dropped' = dropped \cup UNION {Unsent(preq[r]) : r \in Req}
    /\ preq' = [r \in Req |-> IdleReq]
    /\ UNCHANGED <<stored, unannounced, adrift, wins, healed, edits>>

\* load_policy reads every key of the store.
LoadPolicy ==
    /\ polMode = "down"
    /\ enforced' = stored /\ adrift' = {}
    /\ wins' = IF Members(stored, Superadmin) = {} THEN 0 ELSE wins
    /\ UNCHANGED <<stored, writer, unannounced, dropped, healed, polFaults>>

PolServe == LoadPolicy /\ polMode' = "serve" /\ UNCHANGED <<preq, edits>>

PolImport(r, dump) ==
    /\ LoadPolicy /\ polMode' = "import"
    /\ edits < MaxEdits /\ edits' = edits + 1
    /\ preq' = [preq EXCEPT ![r] = [IdleReq EXCEPT !.op = "import", !.pc = "lock", !.todo = dump]]

PolicyNext ==
    \/ PolStop \/ PolServe
    \/ \E r \in Req :
        \/ \E s \in PolicySubject :
            \/ ClaimAdminRoute(r, s)
            \/ \E t \in EditTuple :
                \/ AddRuleRoute(r, s, t) \/ RemoveRuleRoute(r, s, t)
                \/ AssignGroupRoute(r, s, t) \/ RemoveUserRoute(r, s, t)
            \/ \E g \in EditGroup : DeleteGroupRoute(r, s, g)
        \/ PolRequire(r) \/ PolLock(r) \/ PolCommit(r) \/ PolApply(r) \/ PolAnnounce(r)
        \/ PolFail(r) \/ PolDrop(r)
        \/ \E dump \in Dumps : PolImport(r, dump)

PolicySpec == PolicyInit /\ [][PolicyNext]_polVars

-----------------------------------------------------------------------------
(* What the enforcer decides on is what a restart would load: a refused    *)
(* write, a duplicate, a group removal, an import or a claim that ends     *)
(* half way leaves the memory and the store with the same tuples, but for  *)
(* two cases of the code: a request that ended between the commit and the  *)
(* memory (dropped, or its answer lost), and a row that was removed under  *)
(* the key of another tuple.  The next call about the tuple that does      *)
(* change the store, or a load, settles it.                                *)
EnforcerIsStore ==
    polMode # "down" =>
        (enforced \ stored) \cup (stored \ enforced)
            \subseteq adrift \cup UNION {preq[r].moved : r \in Req}

(* "Two concurrent first-time claims cannot both succeed": between two     *)
(* times at which the enforcer knows nobody in the role, at most one claim *)
(* gets 201, also across restarts and after a claim that failed or was     *)
(* dropped half way.                                                       *)
OneClaimWins == wins <= 1

(* A completed claim, won or refused with 409, leaves the role with all    *)
(* its rules ("heal on the next claim attempt"), whatever an earlier claim *)
(* that ended half way left out, until a request removes one.              *)
ClaimHeals == healed => ToSet(SeedRules) \subseteq stored

(* A request that answers with success has announced what it changed, one  *)
(* that waits has still got it to announce.  What the feed never hears of  *)
(* is what a request left that ended early, in an error for its caller,    *)
(* with the process, or, without an error to anybody, with a client that   *)
(* went away, and what the enforcer did not see change.                    *)
ChangesAnnounced ==
    unannounced \subseteq dropped \cup UNION {Unsent(preq[r]) : r \in Req}

(* The bootstrap of claim_superadmin: one winner, with all of the rights.  *)
ClaimSound == OneClaimWins /\ ClaimHeals
=============================================================================
