-------------------------- MODULE MCImportPipeline --------------------------
(* Small instances of ImportPipeline for TLC.  The JSON text of a usual     *)
(* ImportRequest has 101 characters, of the shortest one 96.               *)
EXTENDS ImportPipeline

MCTextLength == [b \in Bodies |-> 101]

\* Sessions that end late are explored with imports of transactions.
MCInit == Init /\ (early => ~seeded /\ \A r \in Requests : req[r].kind = "transactions")

MCSpec == MCInit /\ [][Next]_vars /\ Fairness
=============================================================================
