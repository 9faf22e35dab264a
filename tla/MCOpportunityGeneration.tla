---------------------- MODULE MCOpportunityGeneration -----------------------
(* Small instances of OpportunityGeneration for TLC. *)
EXTENDS OpportunityGeneration

CONSTANTS b1, b2, c1, c2, trade, leasing, v1, v2, low, high, studio, foreign

OneBatch == {b1}
TwoBatches == {b1, b2}
OneType == <<trade>>
NoRules == <<>>
StudioRules == <<[type |-> trade, base |-> studio]>>
ForeignRules == <<[type |-> leasing, base |-> foreign]>>
AnyRules == <<[type |-> trade, base |-> studio], [type |-> leasing, base |-> foreign]>>
TwoEditions == {v1, v2}
TwoTerms == {low, high}
MCYaml == [edition |-> v1, terms |-> low, enabled |-> TRUE]
\* Nothing, a switch, a new version with its terms, other terms of the same version.
MCEdits == {<<>>, [enabled |-> FALSE], [edition |-> v2, terms |-> high], [terms |-> high]}
BareEdits == {<<>>}
\* A new version, then its terms.
TermEdits == {[edition |-> v2], [terms |-> high]}
OneCustomer == {<<c1>>}
TwoCustomers == {<<c1, c2>>}
EitherCustomers == {<<c1>>, <<c2>>, <<c1, c2>>}
\* "1-v" and ten digits twice fit in 30 characters, an identifier of Rule Studio leaves no room.
MCRoom == [v \in Editions \cup Ids |-> IF v \in Editions THEN 2 ELSE 0]
=============================================================================
