-------------------------- MODULE MCActionFeedback --------------------------
(* Small instances of ActionFeedback for TLC. *)
EXTENDS ActionFeedback, TLC

MCTypes == {"CREATE_FOLLOW_UP", "CONTACT_CUSTOMER", "DISMISS_OPPORTUNITY", "MARK_CONVERTED"}
LabelTypes == {"CREATE_FOLLOW_UP", "DISMISS_OPPORTUNITY"}
MCOutcomes == {"CONTACTED", "CONVERTED", "REJECTED"}

Symmetry == Permutations(Keys) \cup Permutations(Opportunities) \cup Permutations(Posts)
            \cup Permutations(Patches) \cup Permutations(Materializers)

\* Two requests make the label at once where one creation of these types has been sent at most.
TwoMakersWithOneCreation ==
    (\A m \in Materializers : making[m] # Absent) =>
        \A p, q \in Posts : /\ post[p] # Absent => post[p].type \in LabelTypes
                            /\ p # q => Absent \in {post[p], post[q]}
=============================================================================
