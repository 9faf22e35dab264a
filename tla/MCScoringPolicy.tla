-------------------------- MODULE MCScoringPolicy ---------------------------
(* Small instances of ScoringPolicy for TLC. *)
EXTENDS ScoringPolicy, TLC

CONSTANTS approver, admin, even, odd

MCActors == {approver, admin}
OnlyAdmin == {admin}
OnlyApprover == {approver}
OneWeight == {even}
TwoWeights == {even, odd}
NoDate == {Null}
SomeDates == {Null, 0}

WorkersAlike == Permutations(Workers)

-----------------------------------------------------------------------------
(* Bounds of the run with overlaps *)

\* The policy of the migration has two versions; another one is only created and revised,
\* while the first is as the migration left it.
Limit(p) == IF p = Bootstrap THEN 2 ELSE MaxVersion

TwoPolicies ==
    \A p \in Policies :
        /\ policy[p].current <= Limit(p)
        /\ p # Bootstrap /\ (Exists(p) \/ \E w \in Workers : call[w].policy = p) =>
              /\ policy[Bootstrap].current = 1 /\ audit[Bootstrap] = {} /\ now = 1
              /\ \A w \in Workers :
                    call[w].policy = p => call[w].op \in {"CREATED", "VERSION_CREATED"}

\* Only simulations name another version than the latest one of the policy.
LatestNamed ==
    \A w \in Workers :
        call[w].op \in Moves \ {"SIMULATED"} => call[w].number = call[w].seen.current

\* An activation with a date of the client's is served alone.
DatedAlone ==
    \A w, x \in Workers : w # x /\ call[w].date # Null => call[x] = Idle

\* A request that can only be refused changes nothing for the others: it is not followed.
Hopeless(c) ==
    \/ c.phase = "clock" /\ now = MaxTime
    \/ c.op = "VERSION_CREATED" /\ policy[c.policy].current = Limit(c.policy)
    \/ /\ c.op \in Moves /\ c.number = 2 /\ c.rows[2] # Absent
       /\ c.last = 0 /\ ~CanMove(c.rows[2], c.op, c.actor)
    \/ c.op = "ROLLBACK" /\ c.number # 1

Bounded ==
    /\ TwoPolicies /\ LatestNamed /\ DatedAlone
    /\ \A w \in Workers : ~Hopeless(call[w])

-----------------------------------------------------------------------------
(* Bounds of the configurations that end with a finding *)

\* Nobody writes on a row the content of another version.
NoStray ==
    /\ Bounded
    /\ \A w \in Workers :
          call[w].phase = "commit" /\ call[w].op \in Moves => call[w].number = call[w].last

\* Requests overlap while version 2 is in effect, and version 3 is revised from it.
ThreeVersions ==
    /\ LatestNamed
    /\ \A w, x \in Workers :
          w # x /\ call[w] # Idle /\ call[x] # Idle =>
              version[Bootstrap][2].status = "ACTIVE" /\ "ROLLBACK" \in {call[w].op, call[x].op}
=============================================================================
