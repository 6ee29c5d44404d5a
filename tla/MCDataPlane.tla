----------------------------- MODULE MCDataPlane -----------------------------
(* The replica manager, the routes that serve its objects, the policy      *)
(* engine, the rate limit and the capability tokens, side by side.  They   *)
(* share no state, so a behaviour runs one of them and leaves the others   *)
(* at their initial state.                                                 *)
EXTENDS MCReplicaSync, SyncServe, PolicyStore, RateLimits, CapabilityTokens

CONSTANT k1

VARIABLE component

\* A rule of the superadmin role, its membership, those of another group, and
\* a membership that has the key of the second one: "dev" and the role joined.
MCTuples == {<<"p", Superadmin, "rules", "write">>, <<"g", "bob dev", Superadmin>>,
             <<"g", "bob", "dev superadmin">>, <<"g", "bob", "editors">>,
             <<"p", "editors", "user_groups", "write">>}
MCPieces(f) == CASE f = "bob dev" -> <<"bob", "dev">>
                 [] f = "dev superadmin" -> <<"dev", Superadmin>>
                 [] OTHER -> <<f>>
\* An import file, and one with a membership that lacks its group.
MCDumps == {<< <<"p", "editors", "user_groups", "write">>, <<"g", "alice", "editors">> >>,
            << <<"p", "editors", "user_groups", "write">>, <<"g", "alice">> >>}

DataInit ==
    /\ component \in {"replica", "routes", "policy", "limits", "tokens"}
    /\ Init /\ ServeInit /\ PolicyInit /\ LimitsInit /\ CapabilityInit
    /\ component # "replica" => files = FullRow.files
    /\ file.secret \in {k1, Unset}
    /\ component # "tokens" => file.secret = k1 /\ file.client = Weak /\ env["client"] = Weak
                          /\ env["secret"] = Unset

DataNext ==
    /\ UNCHANGED component
    /\ \/ /\ component = "replica" /\ Next
          /\ UNCHANGED <<serveVars, polVars, limitVars, capVars>>
       \/ /\ component = "routes" /\ ServeNext
          /\ UNCHANGED <<vars, polVars, limitVars, capVars>>
       \/ /\ component = "policy" /\ PolicyNext
          /\ UNCHANGED <<vars, serveVars, limitVars, capVars>>
       \/ /\ component = "limits" /\ LimitsNext
          /\ UNCHANGED <<vars, serveVars, polVars, capVars>>
       \/ /\ component = "tokens" /\ CapabilityNext
          /\ UNCHANGED <<vars, serveVars, polVars, limitVars>>

DataSpec == DataInit /\ [][DataNext]_<<component, vars, serveVars, polVars, limitVars, capVars>>

\* The state of every component keeps its type.
DataTypesOK == TypeOK /\ ServeTypeOK /\ PolicyTypeOK /\ LimitsTypeOK /\ CapabilityTypeOK
=============================================================================
