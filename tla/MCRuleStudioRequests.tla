------------------------ MODULE MCRuleStudioRequests ------------------------
(* Small instances of RuleStudioRequests for TLC. *)
EXTENDS RuleStudioRequests, TLC

CONSTANTS approver, admin, good, w1, w2, r1, r2

TwoActors == {approver, admin}
OnlyAdmin == {admin}
OneDefinition == {good}
TwoWorkers == {w1, w2}

(* The second identifier is only inserted and read. *)
OnlyInserted(r) ==
    \A w \in Workers : call'[w] # Null /\ call'[w].rule = r => call'[w].op \in Inserting

MCSpec == RqInit /\ [][RqNext /\ OnlyInserted(r2)]_rqVars /\ RqFairness
=============================================================================
