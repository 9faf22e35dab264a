--------------------------- MODULE GovernedRelease ---------------------------
(***************************************************************************)
(* What a governed artifact promises, whatever the workflow in between:    *)
(* numbered versions are written by one person, reviewed by another, live  *)
(* at most once, and at most one version of an artifact is served.         *)
(*                                                                         *)
(* RuleStudio.tla, which holds the workflow, implements it.  That a closed *)
(* version stays closed is what the code does: docs/rule-studio.md:201     *)
(* has a rollback make a version live again that was reviewed before.      *)
(***************************************************************************)
CONSTANTS Artifacts, Numbers, People, Nobody

VARIABLES
    phase,      \* phase[a][n]: where version n of artifact a is in its life
    author,     \* who wrote the version
    reviewer,   \* who released it for production
    served      \* served[a]: the versions production uses

grVars == <<phase, author, reviewer, served>>

Phase == {"none", "open", "reviewed", "live", "closed"}

GRTypeOK ==
    /\ phase \in [Artifacts -> [Numbers -> Phase]]
    /\ author \in [Artifacts -> [Numbers -> People \cup {Nobody}]]
    /\ reviewer \in [Artifacts -> [Numbers -> People \cup {Nobody}]]
    /\ served \in [Artifacts -> SUBSET Numbers]

GRInit ==
    /\ phase = [a \in Artifacts |-> [n \in Numbers |-> "none"]]
    /\ author = [a \in Artifacts |-> [n \in Numbers |-> Nobody]]
    /\ reviewer = [a \in Artifacts |-> [n \in Numbers |-> Nobody]]
    /\ served = [a \in Artifacts |-> {}]

\* A new version; the artifact may be withdrawn from production while it is prepared.
Write(a, n, p) ==
    /\ phase[a][n] = "none"
    /\ phase' = [phase EXCEPT ![a][n] = "open"]
    /\ author' = [author EXCEPT ![a][n] = p]
    /\ \/ served' = served
       \/ served' = [served EXCEPT ![a] = {}]
    /\ UNCHANGED reviewer

Review(a, n, p) ==
    /\ phase[a][n] = "open"
    /\ author[a][n] # p
    /\ phase' = [phase EXCEPT ![a][n] = "reviewed"]
    /\ reviewer' = [reviewer EXCEPT ![a][n] = p]
    /\ UNCHANGED <<author, served>>

\* The release closes whatever was live, served or not.
Release(a, n) ==
    /\ phase[a][n] = "reviewed"
    /\ phase' = [phase EXCEPT ![a] = [m \in Numbers |->
                    IF m = n THEN "live"
                    ELSE IF phase[a][m] = "live" THEN "closed" ELSE phase[a][m]]]
    /\ served' = [served EXCEPT ![a] = {n}]
    /\ UNCHANGED <<author, reviewer>>

Close(a, n) ==
    /\ phase[a][n] = "live"
    /\ phase' = [phase EXCEPT ![a][n] = "closed"]
    /\ served' = [served EXCEPT ![a] = {}]
    /\ UNCHANGED <<author, reviewer>>

GRNext ==
    \E a \in Artifacts, n \in Numbers :
        \/ \E p \in People : Write(a, n, p) \/ Review(a, n, p)
        \/ Release(a, n)
        \/ Close(a, n)

GRSpec == GRInit /\ [][GRNext]_grVars

-----------------------------------------------------------------------------
\* One live version at most, and production serves nothing else.
OneLive ==
    \A a \in Artifacts : \A n \in Numbers :
        /\ n \in served[a] => phase[a][n] = "live"
        /\ \A m \in Numbers : phase[a][n] = "live" /\ phase[a][m] = "live" => m = n

\* Whatever reached production was reviewed by somebody who did not write it.
FourEyes ==
    \A a \in Artifacts : \A n \in Numbers :
        phase[a][n] \in {"reviewed", "live", "closed"} =>
            reviewer[a][n] \notin {Nobody, author[a][n]}
=============================================================================
