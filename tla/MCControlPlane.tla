---------------------------- MODULE MCControlPlane ----------------------------
(* The lease, the merge of a rebuild and the login session, side by side.  *)
(* They share no state, so a behaviour runs one of them and leaves the     *)
(* others at their initial state.                                          *)
EXTENDS MCWriterLease, ReplicaMerge, MCAuthSession

VARIABLE component

ControlInit ==
    /\ component \in {"lease", "merge", "auth"}
    /\ Init /\ MergeInit /\ JwksInit /\ AuthInit

ControlNext ==
    /\ UNCHANGED component
    /\ \/ /\ component = "lease" /\ Next
          /\ UNCHANGED <<mergeVars, jwksVars, authVars>>
       \/ /\ component = "merge" /\ MergeNext
          /\ UNCHANGED <<vars, jwksVars, authVars>>
       \/ /\ component = "auth" /\ AuthNext
          /\ UNCHANGED <<vars, mergeVars>>

ControlSpec ==
    ControlInit /\ [][ControlNext]_<<component, vars, mergeVars, jwksVars, authVars>>

\* The state of every component keeps its type.
ControlTypesOK == TypeOK /\ MergeTypeOK /\ JwksTypeOK /\ AuthTypeOK
=============================================================================
