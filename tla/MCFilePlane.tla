----------------------------- MODULE MCFilePlane -----------------------------
(* The upload of a file, the arithmetic of its parts, and the use of a     *)
(* committed file, side by side: a behaviour runs one of them and leaves   *)
(* the others at their initial state.                                      *)
EXTENDS MCFsUpload, FileAccess, PartIntake, TLC

CONSTANTS t1, t2, x, y, h1, h2

VARIABLE component

\* Every Range header that tells the cases of parse_range apart.
MCRanges ==
    {[kind |-> "none"]} \cup [kind : {"suffix"}, n : 0..Size + 1 \cup {BadNumber}]
    \cup [kind : {"first"}, first : 0..Size + 1 \cup {BadNumber},
          last : 0..Size + 1 \cup {BadNumber, Nil}]

\* The owner may be granted the row for writing, the guest for the rest.
MCGrants == {<<Guest, "r1", "read">>, <<Guest, "r1", "delete">>, <<Owner, "r1", "write">>}
MCCalls == {<<"meta", Owner>>, <<"get", Guest>>, <<"delete", Owner>>, <<"delete", Guest>>,
            <<"attach", Owner>>, <<"detach", Owner>>}

FilePlaneInit ==
    component \in {"upload", "parts", "access"} /\ Init /\ IntakeInit /\ FileInit

FilePlaneNext ==
    /\ UNCHANGED component
    /\ \/ component = "upload" /\ Next /\ UNCHANGED <<intakeVars, faVars>>
       \/ component = "parts" /\ IntakeNext /\ UNCHANGED <<vars, faVars>>
       \/ component = "access" /\ FileNext /\ UNCHANGED <<vars, intakeVars>>

FilePlaneSpec == FilePlaneInit /\ [][FilePlaneNext]_<<component, vars, intakeVars, faVars>>

\* The state of every component keeps its type.
FilePlaneTypesOK == TypeOK /\ IntakeTypeOK /\ FileTypeOK

\* Requests, and the contents of parts, are interchangeable.
MCFileSymmetry ==
    Permutations({t1, t2}) \cup Permutations({x, y}) \cup Permutations({h1, h2})
=============================================================================
