------------------------ MODULE ImportPipelineProofs ------------------------
(***************************************************************************)
(* Theorems about the import of bank data, for any number of requests,     *)
(* keys, bodies and versions of the bank's data: an import that passed is  *)
(* one fetch, and a key is applied once, whatever is lost, late or sent    *)
(* again.                                                                  *)
(***************************************************************************)
EXTENDS ImportPipeline, ImportPromise, TLAPS

-----------------------------------------------------------------------------
(* The orders of fetches and posts *)

LEMMA OrderValues ==
    /\ Sources = {"customers", "accounts", "balances", "transactions", "products"}
    /\ Services = {"customer", "account", "transaction", "product"}
    /\ \A i \in 1 .. 5 : FetchOrder[i] \in Sources
    /\ \A i \in 1 .. 4 : PostOrder[i] \in Services
<1>1. Sources = {"customers", "accounts", "balances", "transactions", "products"}
    <2>1. \A i \in 1 .. 5 : i \in {1, 2, 3, 4, 5}
        OBVIOUS
    <2> QED BY <2>1 DEF Sources, FetchOrder
<1>2. Services = {"customer", "account", "transaction", "product"}
    <2>1. \A i \in 1 .. 4 : i \in {1, 2, 3, 4}
        OBVIOUS
    <2> QED BY <2>1 DEF Services, PostOrder
<1>3. \A i \in 1 .. 5 : FetchOrder[i] \in Sources
    BY DEF Sources
<1>4. \A i \in 1 .. 4 : PostOrder[i] \in Services
    BY DEF Services
<1> QED BY <1>1, <1>2, <1>3, <1>4

LEMMA SourcesOfServices ==
    /\ SourcesOf["customer"] = {"customers"}
    /\ SourcesOf["account"] = {"accounts", "balances"}
    /\ SourcesOf["transaction"] = {"transactions"}
    /\ SourcesOf["product"] = {"products"}
    /\ \A s \in Services : SourcesOf[s] \subseteq Sources
<1>1. /\ SourcesOf["customer"] = {"customers"}
      /\ SourcesOf["account"] = {"accounts", "balances"}
      /\ SourcesOf["transaction"] = {"transactions"}
      /\ SourcesOf["product"] = {"products"}
    BY DEF SourcesOf
<1> QED BY <1>1, OrderValues

LEMMA Bounds ==
    ASSUME NEW kind \in Kinds
    PROVE  /\ FirstFetch(kind) \in 1 .. 5 /\ LastFetch(kind) \in 1 .. 5
           /\ FirstFetch(kind) <= LastFetch(kind)
           /\ FirstPost(kind) \in 1 .. 4 /\ LastPost(kind) \in 1 .. 4
           /\ FirstPost(kind) <= LastPost(kind)
BY DEF Kinds, FirstFetch, LastFetch, FirstPost, LastPost
-----------------------------------------------------------------------------
(* What a request and its call hold *)

LEMMA RequestFields ==
    ASSUME TypeOK, NEW r \in Requests
    PROVE  /\ req[r] \in RequestRows
           /\ req[r].kind \in Kinds /\ req[r].key \in Keys /\ req[r].body \in Bodies
           /\ req[r].at \in 1 .. 5
           /\ req[r].got \in [Sources -> Versions]
           /\ req[r].answer \in Answers
           /\ ReceiptKey(r) \in ReceiptKeys
<1>1. req[r] \in RequestRows
    BY DEF TypeOK
<1> QED BY <1>1 DEF RequestRows, ReceiptKey, ReceiptKeys

(* What a service is sent fits its rows.                                   *)
LEMMA PayloadFits ==
    ASSUME TypeOK, NEW r \in Requests, NEW s \in Services
    PROVE  /\ Payload(r, s) \in Payloads
           /\ Payload(r, s).data \in [SourcesOf[s] -> Versions]
           /\ Payload(r, s) # None
<1> DEFINE data == [src \in SourcesOf[s] |-> req[r].got[src]]
<1>1. data \in [SourcesOf[s] -> Versions]
    BY RequestFields, SourcesOfServices
<1>2. data \in UNION {[SourcesOf[t] -> Versions] : t \in Services}
    BY <1>1
<1>3. Payload(r, s) = [body |-> req[r].body, data |-> data]
    BY DEF Payload
<1> HIDE DEF data
<1>4. Payload(r, s) \in Payloads
    BY <1>2, <1>3, RequestFields DEF Payloads
<1> QED BY <1>1, <1>3, <1>4, NoneAssumption

(* A call in flight is one to a service of the order.                      *)
LEMMA CallPlace ==
    ASSUME TypeOK, NEW r \in Requests, Placed(r), call[r] # "idle"
    PROVE  /\ req[r].at \in FirstPost(req[r].kind) .. LastPost(req[r].kind)
           /\ req[r].at \in 1 .. 4
           /\ ServiceOf(r) \in Services
           /\ req[r].pc \in {"posting", "ended"}
<1>1. /\ req[r].at \in FirstPost(req[r].kind) .. LastPost(req[r].kind)
      /\ req[r].pc \in {"posting", "ended"}
    BY DEF Placed
<1>2. req[r].at \in 1 .. 4
    BY <1>1, RequestFields, Bounds
<1> QED BY <1>1, <1>2, OrderValues DEF ServiceOf
-----------------------------------------------------------------------------
(* What the services store *)

(* A store writes the rows of its service and no others.                   *)
LEMMA StoreEffect ==
    ASSUME TypeOK, NEW s \in Services, NEW data \in [SourcesOf[s] -> Versions],
           rows' = Store(s, data)
    PROVE  /\ rows' \in [Sources -> Rows]
           /\ \A src \in Sources \ SourcesOf[s] : rows'[src] = rows[src]
<1> USE DEF Rows
<1>1. \A src \in SourcesOf[s] : src \in Sources /\ data[src] \in Versions
    BY SourcesOfServices
<1>2. \A row \in Rows, v \in Versions :
          Upsert(row, v) \in Rows /\ Overwrite(row, v) \in Rows /\ KeepFirst(row, v) \in Rows
    BY DEF Upsert, Overwrite, KeepFirst
<1>3. rows \in [Sources -> Rows]
    BY DEF TypeOK
<1> HIDE DEF Rows
<1>4. CASE s = "customer"
    <2>1. rows' = [rows EXCEPT !["customers"] = Upsert(rows["customers"], data["customers"])]
        BY <1>4 DEF Store, StoreCustomers
    <2> QED BY <1>1, <1>2, <1>3, <1>4, <2>1, SourcesOfServices
<1>5. CASE s = "account"
    <2>1. rows' = [rows EXCEPT !["accounts"] = Upsert(rows["accounts"], data["accounts"]),
                               !["balances"] = Overwrite(rows["balances"], data["balances"])]
        BY <1>5 DEF Store, StoreAccounts
    <2> QED BY <1>1, <1>2, <1>3, <1>5, <2>1, SourcesOfServices
<1>6. CASE s = "transaction"
    <2>1. rows' = [rows EXCEPT !["transactions"] = KeepFirst(rows["transactions"], data["transactions"])]
        BY <1>6 DEF Store, StoreTransactions
    <2> QED BY <1>1, <1>2, <1>3, <1>6, <2>1, SourcesOfServices
<1>7. CASE s = "product"
    <2>1. rows' = [rows EXCEPT !["products"] = Upsert(rows["products"], data["products"])]
        BY <1>7 DEF Store, StoreProducts
    <2> QED BY <1>1, <1>2, <1>3, <1>7, <2>1, SourcesOfServices
<1> QED BY <1>4, <1>5, <1>6, <1>7, OrderValues

(* Where there was no receipt of the key, rows and receipt are stored      *)
(* together.                                                               *)
LEMMA StoredOnce ==
    ASSUME TypeOK, NEW s \in Services, NEW k \in ReceiptKeys, NEW new \in Payloads,
           new.data \in [SourcesOf[s] -> Versions], receipts[s][k] = None,
           rows' = Store(s, new.data),
           receipts' = [receipts EXCEPT ![s][k] = new]
    PROVE  /\ rows' \in [Sources -> Rows]
           /\ receipts' \in [Services -> [ReceiptKeys -> Payloads \cup {None}]]
           /\ receipts'[s][k] = new
           /\ AppliesOnce
<1>1. /\ rows' \in [Sources -> Rows]
      /\ \A src \in Sources \ SourcesOf[s] : rows'[src] = rows[src]
    BY StoreEffect
<1>2. /\ receipts' \in [Services -> [ReceiptKeys -> Payloads \cup {None}]]
      /\ receipts'[s][k] = new
      /\ \A t \in Services, j \in ReceiptKeys :
             t # s \/ j # k => receipts'[t][j] = receipts[t][j]
    BY DEF TypeOK
<1>3. new # None
    BY NoneAssumption
<1> QED BY <1>1, <1>2, <1>3 DEF AppliesOnce

LEMMA NothingStored ==
    ASSUME UNCHANGED <<rows, receipts>>
    PROVE  AppliesOnce
BY DEF AppliesOnce
-----------------------------------------------------------------------------
(* What a step of one request may change *)

LEMMA RowChange ==
    ASSUME TypeOK, NEW r \in Requests, NEW row \in RequestRows, req' = [req EXCEPT ![r] = row]
    PROVE  /\ req' \in [Requests -> RequestRows]
           /\ req'[r] = row
           /\ \A q \in Requests \ {r} : req'[q] = req[q]
BY DEF TypeOK

LEMMA EndEffect ==
    ASSUME TypeOK, NEW r \in Requests, NEW answer \in Answers, End(r, answer)
    PROVE  /\ req' \in [Requests -> RequestRows]
           /\ req'[r].pc = "ended" /\ req'[r].answer = answer
           /\ req'[r].kind = req[r].kind /\ req'[r].key = req[r].key
           /\ req'[r].body = req[r].body /\ req'[r].at = req[r].at /\ req'[r].got = req[r].got
           /\ \A q \in Requests \ {r} : req'[q] = req[q]
<1> DEFINE row == [req[r] EXCEPT !.pc = "ended", !.answer = answer]
<1>1. /\ row \in RequestRows
      /\ row.pc = "ended" /\ row.answer = answer
      /\ row.kind = req[r].kind /\ row.key = req[r].key
      /\ row.body = req[r].body /\ row.at = req[r].at /\ row.got = req[r].got
    BY RequestFields DEF RequestRows
<1>2. req' = [req EXCEPT ![r] = row]
    BY DEF End
<1> HIDE DEF row
<1>3. /\ req' \in [Requests -> RequestRows]
      /\ req'[r] = row
      /\ \A q \in Requests \ {r} : req'[q] = req[q]
    BY <1>1, <1>2, RowChange
<1> QED BY <1>1, <1>3 DEF row

LEMMA ReplyEffect ==
    ASSUME TypeOK, NEW r \in Requests, NEW outcome \in Outcomes, Reply(r, outcome)
    PROVE  /\ call' \in [Requests -> Outcomes]
           /\ call'[r] = IF req[r].pc = "posting" THEN outcome ELSE "idle"
           /\ \A q \in Requests \ {r} : call'[q] = call[q]
BY DEF Reply, TypeOK, Outcomes

(* A request that knows of no acceptance has none to account for.          *)
LEMMA NothingAcknowledged ==
    ASSUME NEW r \in Requests, req[r].pc \notin {"posting", "recording"},
           req[r].answer \notin {"accepted", "unrecorded"}
    PROVE  Stored(r)
BY DEF Stored, Acknowledged, PastItsImports

(* What a request was told stays true while the receipts only grow.        *)
LEMMA OthersStayStored ==
    ASSUME TypeOK, TypeOK', NEW q \in Requests, Placed(q), AppliesOnce,
           req'[q] = req[q], call'[q] = call[q]
    PROVE  /\ Placed(q)'
           /\ Stored(q) => Stored(q)'
<1>1. Placed(q)'
    BY DEF Placed
<1>2. ASSUME Stored(q), NEW i \in FirstPost(req[q].kind) .. LastPost(req[q].kind), Acknowledged(q, i)
      PROVE  receipts'[PostOrder[i]][ReceiptKey(q)] = Payload(q, PostOrder[i])
    <2>1. PostOrder[i] \in Services /\ ReceiptKey(q) \in ReceiptKeys
        BY RequestFields, Bounds, OrderValues
    <2>2. receipts[PostOrder[i]][ReceiptKey(q)] = Payload(q, PostOrder[i])
        BY <1>2 DEF Stored
    <2>3. Payload(q, PostOrder[i]) # None
        BY <2>1, PayloadFits
    <2> QED BY <2>1, <2>2, <2>3 DEF AppliesOnce
<1>3. Stored(q) => Stored(q)'
    <2> SUFFICES ASSUME Stored(q),
                        NEW i \in FirstPost(req'[q].kind) .. LastPost(req'[q].kind), Acknowledged(q, i)'
                 PROVE  receipts'[PostOrder[i]][ReceiptKey(q)'] = Payload(q, PostOrder[i])'
        BY DEF Stored
    <2>1. Acknowledged(q, i) /\ i \in FirstPost(req[q].kind) .. LastPost(req[q].kind)
        BY DEF Acknowledged, PastItsImports
    <2>2. ReceiptKey(q)' = ReceiptKey(q) /\ Payload(q, PostOrder[i])' = Payload(q, PostOrder[i])
        BY DEF ReceiptKey, Payload
    <2> QED BY <1>2, <2>1, <2>2
<1> QED BY <1>1, <1>3

(* So a step of one request is sound if it is for this request.            *)
LEMMA OneRequest ==
    ASSUME ImportInv, NEW r \in Requests, TypeOK', EndingFits', AppliesOnce, early' = early,
           \A q \in Requests \ {r} : req'[q] = req[q] /\ call'[q] = call[q],
           Placed(r)', ~early => Stored(r)'
    PROVE  ImportInv'
<1>1. ASSUME NEW q \in Requests, q # r
      PROVE  Placed(q)' /\ (~early => Stored(q)')
    BY <1>1, OthersStayStored DEF ImportInv
<1> QED BY <1>1 DEF ImportInv
-----------------------------------------------------------------------------
(* One step per action *)

LEMMA BeginStep ==
    ASSUME ImportInv, NEW r \in Requests, Begin(r)
    PROVE  ImportInv' /\ AppliesOnce
<1>1. TypeOK /\ Placed(r) /\ req[r].pc = "new" /\ call[r] = "idle" /\ req[r].answer = "none"
    BY DEF ImportInv, Begin, Placed
<1>2. /\ UNCHANGED <<bank, call, rows, receipts, batches, token, ending, seeded, early>>
      /\ AppliesOnce
    BY NothingStored DEF Begin, installation
<1>3. CASE \E a \in {"replayed", "reused"} : End(r, a)
    <2>1. PICK a \in {"replayed", "reused"} : End(r, a)
        BY <1>3
    <2>2. /\ req' \in [Requests -> RequestRows]
          /\ req'[r].pc = "ended" /\ req'[r].answer = a
          /\ \A q \in Requests \ {r} : req'[q] = req[q]
        BY <1>1, <2>1, EndEffect DEF Answers
    <2>3. TypeOK' /\ EndingFits'
        BY <1>2, <2>2 DEF ImportInv, TypeOK, EndingFits
    <2>4. Placed(r)' /\ Stored(r)'
        BY <1>1, <1>2, <2>2 DEF Placed, Stored, Acknowledged, PastItsImports
    <2> QED BY <1>2, <2>2, <2>3, <2>4, OneRequest
<1>4. CASE req' = [req EXCEPT ![r].pc = "fetching", ![r].at = FirstFetch(req[r].kind)]
    <2> DEFINE row == [req[r] EXCEPT !.pc = "fetching", !.at = FirstFetch(req[r].kind)]
    <2>1. /\ row \in RequestRows
          /\ row.pc = "fetching" /\ row.at = FirstFetch(row.kind) /\ row.answer = "none"
          /\ row.kind \in Kinds
        BY <1>1, RequestFields, Bounds DEF RequestRows
    <2>2. req' = [req EXCEPT ![r] = row]
        BY <1>4
    <2> HIDE DEF row
    <2>3. /\ req' \in [Requests -> RequestRows] /\ req'[r] = row
          /\ \A q \in Requests \ {r} : req'[q] = req[q]
        BY <1>1, <2>1, <2>2, RowChange
    <2>4. TypeOK' /\ EndingFits'
        BY <1>2, <2>3 DEF ImportInv, TypeOK, EndingFits
    <2>5. row.at \in FirstFetch(row.kind) .. LastFetch(row.kind)
        BY <2>1, Bounds
    <2>6. Placed(r)' /\ Stored(r)'
        BY <1>1, <1>2, <2>1, <2>3, <2>5 DEF Placed, Stored, Acknowledged, PastItsImports
    <2> QED BY <1>2, <2>3, <2>4, <2>6, OneRequest
<1> QED BY <1>3, <1>4 DEF Begin

LEMMA FetchEffect ==
    ASSUME TypeOK, NEW r \in Requests, Placed(r), Fetch(r)
    PROVE  LET i   == req[r].at
               src == FetchOrder[i]
               all == i = LastFetch(req[r].kind)
           IN  /\ i \in FirstFetch(req[r].kind) .. LastFetch(req[r].kind) /\ i \in 1 .. 5
               /\ src \in Sources /\ bank[src] \in Versions
               /\ req' \in [Requests -> RequestRows]
               /\ \A q \in Requests \ {r} : req'[q] = req[q]
               /\ req'[r].kind = req[r].kind /\ req'[r].key = req[r].key
               /\ req'[r].body = req[r].body /\ req'[r].answer = req[r].answer
               /\ req'[r].got = [req[r].got EXCEPT ![src] = bank[src]]
               /\ req'[r].pc = IF all THEN "posting" ELSE "fetching"
               /\ req'[r].at = IF all THEN FirstPost(req[r].kind) ELSE i + 1
<1> DEFINE i   == req[r].at
           src == FetchOrder[i]
           all == i = LastFetch(req[r].kind)
           row == [req[r] EXCEPT !.got = [req[r].got EXCEPT ![src] = bank[src]],
                                 !.pc = IF all THEN "posting" ELSE "fetching",
                                 !.at = IF all THEN FirstPost(req[r].kind) ELSE i + 1]
<1>1. /\ i \in FirstFetch(req[r].kind) .. LastFetch(req[r].kind) /\ i \in 1 .. 5
      /\ ~all => i + 1 \in 1 .. 5
    BY RequestFields, Bounds DEF Fetch, Placed
<1>2. src \in Sources /\ bank[src] \in Versions
    BY <1>1, OrderValues, VersionAssumption DEF TypeOK, Versions
<1>3. [req[r].got EXCEPT ![src] = bank[src]] \in [Sources -> Versions]
    BY <1>2, RequestFields
<1>4. FirstPost(req[r].kind) \in 1 .. 5
    BY RequestFields, Bounds
<1>5. /\ row \in RequestRows
      /\ row.kind = req[r].kind /\ row.key = req[r].key /\ row.body = req[r].body
      /\ row.answer = req[r].answer
      /\ row.got = [req[r].got EXCEPT ![src] = bank[src]]
      /\ row.pc = IF all THEN "posting" ELSE "fetching"
      /\ row.at = IF all THEN FirstPost(req[r].kind) ELSE i + 1
    BY <1>1, <1>3, <1>4, RequestFields DEF RequestRows
<1>6. req' = [req EXCEPT ![r] = row]
    BY <1>1 DEF Fetch, TypeOK, RequestRows
<1> HIDE DEF row
<1>7. /\ req' \in [Requests -> RequestRows] /\ req'[r] = row
      /\ \A q \in Requests \ {r} : req'[q] = req[q]
    BY <1>5, <1>6, RowChange
<1> QED BY <1>1, <1>2, <1>5, <1>7

LEMMA FetchStep ==
    ASSUME ImportInv, NEW r \in Requests, Fetch(r)
    PROVE  ImportInv' /\ AppliesOnce
<1> DEFINE i   == req[r].at
           all == i = LastFetch(req[r].kind)
<1>1. TypeOK /\ Placed(r) /\ req[r].pc = "fetching" /\ call[r] = "idle" /\ req[r].answer = "none"
    BY DEF ImportInv, Fetch, Placed
<1>2. /\ UNCHANGED <<bank, call, rows, receipts, batches, ending, seeded, early>>
      /\ token' \in {token, "valid"}
      /\ AppliesOnce
    BY NothingStored DEF Fetch, installation
<1>3. /\ req' \in [Requests -> RequestRows]
      /\ \A q \in Requests \ {r} : req'[q] = req[q]
      /\ req'[r].kind = req[r].kind /\ req'[r].answer = "none"
      /\ req'[r].pc = IF all THEN "posting" ELSE "fetching"
      /\ req'[r].at = IF all THEN FirstPost(req[r].kind) ELSE i + 1
    BY <1>1, FetchEffect
<1>4. i \in FirstFetch(req[r].kind) .. LastFetch(req[r].kind) /\ i \in 1 .. 5
    BY <1>1, FetchEffect
<1>5. /\ ~all => i + 1 \in FirstFetch(req[r].kind) .. LastFetch(req[r].kind)
      /\ FirstPost(req[r].kind) \in FirstPost(req[r].kind) .. LastPost(req[r].kind)
    BY <1>1, <1>4, RequestFields, Bounds
<1>6. TypeOK' /\ EndingFits'
    BY <1>2, <1>3 DEF ImportInv, TypeOK, EndingFits
<1>7. Placed(r)'
    BY <1>1, <1>2, <1>3, <1>5 DEF Placed
<1>8. Stored(r)'
    <2> SUFFICES ASSUME NEW j \in FirstPost(req[r].kind) .. LastPost(req[r].kind), Acknowledged(r, j)'
                 PROVE  FALSE
        BY <1>3 DEF Stored
    <2>1. req'[r].pc \in {"posting", "fetching"} /\ (req'[r].pc = "posting" => req'[r].at <= j)
        BY <1>1, <1>3, RequestFields, Bounds
    <2> QED BY <1>1, <1>2, <1>3, <2>1, RequestFields, Bounds DEF Acknowledged, PastItsImports
<1> QED BY <1>2, <1>3, <1>6, <1>7, <1>8, OneRequest

(* An end without an acceptance asks for nothing.                          *)
LEMMA EndStep ==
    ASSUME ImportInv, NEW r \in Requests, NEW answer \in Answers \ {"accepted", "unrecorded"},
           End(r, answer),
           call' \in [Requests -> Outcomes], call'[r] \in {call[r], "idle"},
           \A q \in Requests \ {r} : call'[q] = call[q],
           call'[r] # "idle" => req[r].pc = "posting",
           UNCHANGED <<bank, rows, receipts, batches, token, ending, seeded, early>>
    PROVE  ImportInv' /\ AppliesOnce
<1>1. TypeOK /\ Placed(r) /\ AppliesOnce
    BY NothingStored DEF ImportInv
<1>2. /\ req' \in [Requests -> RequestRows]
      /\ req'[r].pc = "ended" /\ req'[r].answer = answer
      /\ req'[r].at = req[r].at /\ req'[r].kind = req[r].kind
      /\ \A q \in Requests \ {r} : req'[q] = req[q]
    BY <1>1, EndEffect
<1>3. TypeOK' /\ EndingFits'
    BY <1>1, <1>2 DEF ImportInv, TypeOK, EndingFits
<1>4. Placed(r)'
    BY <1>1, <1>2 DEF Placed
<1>5. Stored(r)'
    BY <1>2 DEF Stored, Acknowledged, PastItsImports
<1> QED BY <1>1, <1>2, <1>3, <1>4, <1>5, OneRequest

LEMMA FetchFailsStep ==
    ASSUME ImportInv, NEW r \in Requests, FetchFails(r)
    PROVE  ImportInv' /\ AppliesOnce
<1>1. call[r] = "idle" /\ call \in [Requests -> Outcomes]
    BY DEF ImportInv, TypeOK, FetchFails, Placed
<1> QED BY <1>1, EndStep DEF FetchFails, Answers, installation

LEMMA PostStep ==
    ASSUME ImportInv, NEW r \in Requests, Post(r)
    PROVE  ImportInv' /\ AppliesOnce
<1>1. TypeOK /\ Placed(r) /\ req[r].pc = "posting" /\ call[r] = "idle"
    BY DEF ImportInv, Post
<1>2. /\ UNCHANGED <<bank, req, rows, receipts, batches, token, ending, seeded, early>>
      /\ AppliesOnce
    BY NothingStored DEF Post, installation
<1>3. /\ call' \in [Requests -> Outcomes]
      /\ call'[r] \in {"sent", "unauthorized"}
      /\ \A q \in Requests \ {r} : call'[q] = call[q]
    BY <1>1 DEF Post, TypeOK, Outcomes
<1>4. TypeOK' /\ EndingFits'
    BY <1>2, <1>3 DEF ImportInv, TypeOK, EndingFits
<1>5. Placed(r)'
    BY <1>1, <1>2, <1>3 DEF Placed
<1>6. ~early => Stored(r)'
    BY <1>2, <1>3 DEF ImportInv, Stored, Acknowledged, PastItsImports, ReceiptKey, Payload
<1> QED BY <1>2, <1>3, <1>4, <1>5, <1>6, OneRequest

(* A step of a call in flight leaves its request where it is; an answer    *)
(* "ok" has to be true.                                                    *)
LEMMA CallMoves ==
    ASSUME ImportInv, NEW r \in Requests, call[r] # "idle", UNCHANGED <<req, early>>,
           \A q \in Requests \ {r} : call'[q] = call[q],
           TypeOK', EndingFits', AppliesOnce,
           ~early /\ call'[r] = "ok" =>
               receipts'[ServiceOf(r)][ReceiptKey(r)] = Payload(r, ServiceOf(r))
    PROVE  ImportInv'
<1>1. TypeOK /\ Placed(r)
    BY DEF ImportInv
<1>2. Placed(r)'
    BY <1>1, CallPlace DEF Placed
<1>3. ASSUME ~early, NEW i \in FirstPost(req[r].kind) .. LastPost(req[r].kind), Acknowledged(r, i)'
      PROVE  receipts'[PostOrder[i]][ReceiptKey(r)] = Payload(r, PostOrder[i])
    <2>1. CASE Acknowledged(r, i)
        <3>1. receipts[PostOrder[i]][ReceiptKey(r)] = Payload(r, PostOrder[i])
            BY <1>3, <2>1 DEF ImportInv, Stored
        <3>2. PostOrder[i] \in Services /\ ReceiptKey(r) \in ReceiptKeys
            BY <1>1, RequestFields, Bounds, OrderValues
        <3>3. Payload(r, PostOrder[i]) # None
            BY <1>1, <3>2, PayloadFits
        <3> QED BY <3>1, <3>2, <3>3 DEF AppliesOnce
    <2>2. CASE ~Acknowledged(r, i)
        <3>1. i = req[r].at /\ call'[r] = "ok"
            BY <1>3, <2>2 DEF Acknowledged, PastItsImports
        <3> QED BY <1>3, <3>1 DEF ServiceOf
    <2> QED BY <2>1, <2>2
<1>4. ~early => Stored(r)'
    <2>1. ReceiptKey(r)' = ReceiptKey(r) /\ \A s \in Services : Payload(r, s)' = Payload(r, s)
        BY DEF ReceiptKey, Payload
    <2>2. \A i \in FirstPost(req[r].kind) .. LastPost(req[r].kind) : PostOrder[i] \in Services
        BY <1>1, RequestFields, Bounds, OrderValues
    <2> QED BY <1>3, <2>1, <2>2 DEF Stored
<1> QED BY <1>2, <1>4, OneRequest

LEMMA ServeStep ==
    ASSUME ImportInv, NEW r \in Requests, Serve(r)
    PROVE  ImportInv' /\ AppliesOnce
<1> DEFINE s    == ServiceOf(r)
           seen == receipts[s][ReceiptKey(r)]
           new  == Payload(r, s)
<1>1. TypeOK /\ Placed(r) /\ call[r] = "sent"
    BY DEF ImportInv, Serve
<1>2. /\ UNCHANGED <<bank, req, rows, receipts, batches, token, seeded, early>>
      /\ AppliesOnce
    BY NothingStored DEF Serve, installation
<1>3. s \in Services /\ ReceiptKey(r) \in ReceiptKeys /\ new \in Payloads
      /\ new.data \in [SourcesOf[s] -> Versions]
    BY <1>1, CallPlace, RequestFields, PayloadFits
<1>4. CASE seen # None
    <2>1. PICK outcome \in {"ok", "reused"} :
              /\ Reply(r, outcome) /\ UNCHANGED ending
              /\ outcome = "ok" => seen = new
        BY <1>4 DEF Serve, SameContent
    <2>2. /\ call' \in [Requests -> Outcomes]
          /\ call'[r] = "ok" => outcome = "ok"
          /\ \A q \in Requests \ {r} : call'[q] = call[q]
        BY <1>1, <2>1, ReplyEffect DEF Outcomes
    <2>3. TypeOK' /\ EndingFits'
        BY <1>2, <2>1, <2>2 DEF ImportInv, TypeOK, EndingFits
    <2> QED BY <1>1, <1>2, <2>1, <2>2, <2>3, CallMoves
<1>5. CASE early /\ ending' = ending \cup {[service |-> s, key |-> ReceiptKey(r), new |-> new]}
            /\ Reply(r, "ok")
    <2>1. /\ call' \in [Requests -> Outcomes]
          /\ \A q \in Requests \ {r} : call'[q] = call[q]
        BY <1>1, <1>5, ReplyEffect DEF Outcomes
    <2>2. TypeOK'
        BY <1>1, <1>2, <1>3, <1>5, <2>1 DEF TypeOK
    <2>3. EndingFits'
        BY <1>3, <1>5 DEF ImportInv, EndingFits
    <2> QED BY <1>1, <1>2, <1>5, <2>1, <2>2, <2>3, CallMoves
<1>6. CASE call' = [call EXCEPT ![r] = "writing"] /\ UNCHANGED ending
    <2>1. /\ call' \in [Requests -> Outcomes] /\ call'[r] = "writing"
          /\ \A q \in Requests \ {r} : call'[q] = call[q]
        BY <1>1, <1>6 DEF TypeOK, Outcomes
    <2>2. TypeOK' /\ EndingFits'
        BY <1>2, <1>6, <2>1 DEF ImportInv, TypeOK, EndingFits
    <2> QED BY <1>1, <1>2, <2>1, <2>2, CallMoves
<1> QED BY <1>4, <1>5, <1>6 DEF Serve

LEMMA WriteStep ==
    ASSUME ImportInv, NEW r \in Requests, Write(r)
    PROVE  ImportInv' /\ AppliesOnce
<1> DEFINE s   == ServiceOf(r)
           k   == ReceiptKey(r)
           new == Payload(r, s)
<1>1. TypeOK /\ Placed(r) /\ call[r] = "writing"
    BY DEF ImportInv, Write
<1>2. UNCHANGED <<bank, req, batches, token, ending, seeded, early>>
    BY DEF Write, installation
<1>3. s \in Services /\ k \in ReceiptKeys /\ new \in Payloads
      /\ new.data \in [SourcesOf[s] -> Versions]
    BY <1>1, CallPlace, RequestFields, PayloadFits
<1>4. CASE /\ receipts[s][k] = None
           /\ rows' = Store(s, new.data)
           /\ receipts' = [receipts EXCEPT ![s][k] = new]
           /\ Reply(r, "ok")
    <2> HIDE DEF s, k, new
    <2>1. /\ rows' \in [Sources -> Rows]
          /\ receipts' \in [Services -> [ReceiptKeys -> Payloads \cup {None}]]
          /\ receipts'[s][k] = new
          /\ AppliesOnce
        BY <1>1, <1>3, <1>4, StoredOnce
    <2>2. /\ call' \in [Requests -> Outcomes]
          /\ \A q \in Requests \ {r} : call'[q] = call[q]
        BY <1>1, <1>4, ReplyEffect DEF Outcomes
    <2>3. TypeOK' /\ EndingFits'
        BY <1>2, <2>1, <2>2 DEF ImportInv, TypeOK, EndingFits
    <2> QED BY <1>1, <1>2, <2>1, <2>2, <2>3, CallMoves DEF s, k, new
<1>5. CASE Reply(r, "failed") /\ UNCHANGED <<rows, receipts>>
    <2>1. /\ call' \in [Requests -> Outcomes] /\ call'[r] # "ok"
          /\ \A q \in Requests \ {r} : call'[q] = call[q]
        BY <1>1, <1>5, ReplyEffect DEF Outcomes
    <2>2. TypeOK' /\ EndingFits' /\ AppliesOnce
        BY <1>2, <1>5, <2>1, NothingStored DEF ImportInv, TypeOK, EndingFits
    <2> QED BY <1>1, <1>2, <2>1, <2>2, CallMoves
<1> QED BY <1>4, <1>5 DEF Write

LEMMA CallFailsStep ==
    ASSUME ImportInv, NEW r \in Requests, CallFails(r)
    PROVE  ImportInv' /\ AppliesOnce
<1>1. TypeOK /\ Placed(r) /\ call[r] # "idle"
    BY DEF ImportInv, CallFails
<1>2. /\ UNCHANGED <<bank, req, rows, receipts, batches, token, ending, seeded, early>>
      /\ AppliesOnce
    BY NothingStored DEF CallFails, installation
<1>3. /\ call' \in [Requests -> Outcomes] /\ call'[r] # "ok"
      /\ \A q \in Requests \ {r} : call'[q] = call[q]
    BY <1>1, ReplyEffect DEF CallFails, Outcomes
<1>4. TypeOK' /\ EndingFits'
    BY <1>2, <1>3 DEF ImportInv, TypeOK, EndingFits
<1> QED BY <1>1, <1>2, <1>3, <1>4, CallMoves

(* A step that no request takes.                                           *)
LEMMA NoRequest ==
    ASSUME ImportInv, UNCHANGED <<req, call, early>>, TypeOK', EndingFits', AppliesOnce
    PROVE  ImportInv'
<1>1. ASSUME NEW q \in Requests
      PROVE  Placed(q)' /\ (~early => Stored(q)')
    BY OthersStayStored DEF ImportInv
<1> QED BY <1>1 DEF ImportInv

LEMMA EndLateStep ==
    ASSUME ImportInv, NEW e \in ending, EndLate(e)
    PROVE  ImportInv' /\ AppliesOnce
<1>1. TypeOK /\ EndingFits
    BY DEF ImportInv
<1>2. /\ e.service \in Services /\ e.key \in ReceiptKeys /\ e.new \in Payloads
      /\ e.new.data \in [SourcesOf[e.service] -> Versions]
    BY <1>1 DEF TypeOK, EndingFits
<1>3. /\ UNCHANGED <<bank, req, call, batches, token, seeded, early>>
      /\ ending' = ending \ {e}
    BY DEF EndLate, installation
<1>4. CASE /\ receipts[e.service][e.key] = None
           /\ rows' = Store(e.service, e.new.data)
           /\ receipts' = [receipts EXCEPT ![e.service][e.key] = e.new]
    <2>1. /\ rows' \in [Sources -> Rows]
          /\ receipts' \in [Services -> [ReceiptKeys -> Payloads \cup {None}]]
          /\ AppliesOnce
        BY <1>1, <1>2, <1>4, StoredOnce
    <2>2. TypeOK' /\ EndingFits'
        BY <1>1, <1>3, <2>1 DEF TypeOK, EndingFits
    <2> QED BY <1>3, <2>1, <2>2, NoRequest
<1>5. CASE UNCHANGED <<rows, receipts>>
    <2>1. TypeOK' /\ EndingFits' /\ AppliesOnce
        BY <1>1, <1>3, <1>5, NothingStored DEF TypeOK, EndingFits
    <2> QED BY <1>3, <2>1, NoRequest
<1> QED BY <1>4, <1>5 DEF EndLate

LEMMA LoseLateStep ==
    ASSUME ImportInv, NEW e \in ending, LoseLate(e)
    PROVE  ImportInv' /\ AppliesOnce
<1>1. /\ UNCHANGED <<bank, req, call, rows, receipts, batches, token, seeded, early>>
      /\ ending' = ending \ {e}
      /\ AppliesOnce
    BY NothingStored DEF LoseLate, installation
<1>2. TypeOK' /\ EndingFits'
    BY <1>1 DEF ImportInv, TypeOK, EndingFits
<1> QED BY <1>1, <1>2, NoRequest

(* The accepted call of a request is its last one or not: in both cases    *)
(* everything before the next one is acknowledged.                         *)
LEMMA ProceedStep ==
    ASSUME ImportInv, NEW r \in Requests, Proceed(r)
    PROVE  ImportInv' /\ AppliesOnce
<1> DEFINE first == FirstPost(req[r].kind)
           last  == LastPost(req[r].kind)
<1>1. /\ TypeOK /\ Placed(r) /\ req[r].pc = "posting" /\ call[r] = "ok"
      /\ req[r].answer = "none"
    BY DEF ImportInv, Proceed, Placed
<1>2. /\ UNCHANGED <<bank, rows, receipts, batches, token, ending, seeded, early>>
      /\ AppliesOnce
    BY NothingStored DEF Proceed, installation
<1>3. /\ call' \in [Requests -> Outcomes] /\ call'[r] = "idle"
      /\ \A q \in Requests \ {r} : call'[q] = call[q]
    BY <1>1 DEF Proceed, TypeOK, Outcomes
<1>4. first \in 1 .. 4 /\ last \in 1 .. 4 /\ req[r].at \in first .. last
    BY <1>1, RequestFields, Bounds DEF Placed
<1>5. ASSUME NEW row \in RequestRows, req' = [req EXCEPT ![r] = row],
             row.kind = req[r].kind, row.key = req[r].key, row.body = req[r].body,
             row.got = req[r].got,
             \/ row.pc = "posting" /\ row.at = req[r].at + 1 /\ row.at <= last /\ row.answer = "none"
             \/ row.pc = "recording" /\ req[r].kind = "all" /\ req[r].at = last /\ row.answer = "none"
             \/ row.pc = "ended" /\ req[r].at = last
      PROVE  ImportInv'
    <2>1. /\ req' \in [Requests -> RequestRows] /\ req'[r] = row
          /\ \A q \in Requests \ {r} : req'[q] = req[q]
        BY <1>1, <1>5, RowChange
    <2>2. TypeOK' /\ EndingFits'
        BY <1>2, <1>3, <2>1 DEF ImportInv, TypeOK, EndingFits
    <2>3. Placed(r)'
        BY <1>3, <1>4, <1>5, <2>1 DEF Placed
    <2>4. ASSUME ~early
          PROVE  Stored(r)'
        <3> SUFFICES ASSUME NEW i \in first .. last, Acknowledged(r, i)'
                     PROVE  receipts[PostOrder[i]][ReceiptKey(r)'] = Payload(r, PostOrder[i])'
            BY <1>2, <1>5, <2>1 DEF Stored
        <3>1. i <= req[r].at
            BY <1>3, <1>4, <1>5, <2>1 DEF Acknowledged, PastItsImports
        <3>2. Acknowledged(r, i)
            BY <1>1, <1>4, <3>1 DEF Acknowledged
        <3>3. receipts[PostOrder[i]][ReceiptKey(r)] = Payload(r, PostOrder[i])
            BY <2>4, <3>2 DEF ImportInv, Stored
        <3>4. ReceiptKey(r)' = ReceiptKey(r) /\ Payload(r, PostOrder[i])' = Payload(r, PostOrder[i])
            BY <1>5, <2>1 DEF ReceiptKey, Payload
        <3> QED BY <3>3, <3>4
    <2> QED BY <1>2, <1>3, <2>1, <2>2, <2>3, <2>4, OneRequest
<1>6. CASE req[r].at < last
    <2> DEFINE row == [req[r] EXCEPT !.at = req[r].at + 1]
    <2>1. /\ row \in RequestRows
          /\ row.kind = req[r].kind /\ row.key = req[r].key /\ row.body = req[r].body
          /\ row.got = req[r].got /\ row.answer = "none"
          /\ row.pc = "posting" /\ row.at = req[r].at + 1
        BY <1>1, <1>4, <1>6, RequestFields DEF RequestRows
    <2>2. req' = [req EXCEPT ![r] = row]
        BY <1>6 DEF Proceed
    <2> HIDE DEF row
    <2>3. row.at <= last
        BY <1>4, <1>6, <2>1
    <2> QED BY <1>2, <1>5, <2>1, <2>2, <2>3
<1>7. CASE req[r].at = last /\ req[r].kind = "all" /\ req' = [req EXCEPT ![r].pc = "recording"]
    <2> DEFINE row == [req[r] EXCEPT !.pc = "recording"]
    <2>1. /\ row \in RequestRows
          /\ row.kind = req[r].kind /\ row.key = req[r].key /\ row.body = req[r].body
          /\ row.got = req[r].got /\ row.answer = "none" /\ row.pc = "recording"
        BY <1>1, RequestFields DEF RequestRows
    <2>2. req' = [req EXCEPT ![r] = row]
        BY <1>7
    <2> HIDE DEF row
    <2> QED BY <1>2, <1>5, <1>7, <2>1, <2>2
<1>8. CASE req[r].at = last /\ End(r, "accepted")
    <2> DEFINE row == [req[r] EXCEPT !.pc = "ended", !.answer = "accepted"]
    <2>1. /\ row \in RequestRows
          /\ row.kind = req[r].kind /\ row.key = req[r].key /\ row.body = req[r].body
          /\ row.got = req[r].got /\ row.pc = "ended"
        BY <1>1, RequestFields DEF RequestRows, Answers
    <2>2. req' = [req EXCEPT ![r] = row]
        BY <1>8 DEF End
    <2> HIDE DEF row
    <2> QED BY <1>2, <1>5, <1>8, <2>1, <2>2
<1> QED BY <1>2, <1>4, <1>6, <1>7, <1>8 DEF Proceed

LEMMA GiveUpStep ==
    ASSUME ImportInv, NEW r \in Requests, GiveUp(r)
    PROVE  ImportInv' /\ AppliesOnce
<1>1. TypeOK /\ call[r] \in {"reused", "unauthorized", "failed"}
    BY DEF ImportInv, GiveUp
<1>2. PICK a \in {"reused", "unauthorized", "unavailable"} : End(r, a)
    BY <1>1 DEF GiveUp
<1>3. /\ call' \in [Requests -> Outcomes] /\ call'[r] = "idle"
      /\ \A q \in Requests \ {r} : call'[q] = call[q]
    BY <1>1 DEF GiveUp, TypeOK, Outcomes
<1> QED BY <1>2, <1>3, EndStep DEF GiveUp, Answers, installation

LEMMA TimeoutStep ==
    ASSUME ImportInv, NEW r \in Requests, Timeout(r)
    PROVE  ImportInv' /\ AppliesOnce
<1>1. TypeOK /\ req[r].pc = "posting"
    BY DEF ImportInv, Timeout
<1>2. /\ call' \in [Requests -> Outcomes] /\ call'[r] \in {call[r], "idle"}
      /\ \A q \in Requests \ {r} : call'[q] = call[q]
    BY <1>1 DEF Timeout, TypeOK, Outcomes
<1> QED BY <1>1, <1>2, EndStep DEF Timeout, Answers, installation

LEMMA RecordStep ==
    ASSUME ImportInv, NEW r \in Requests, Record(r)
    PROVE  ImportInv' /\ AppliesOnce
<1>1. TypeOK /\ Placed(r) /\ req[r].pc = "recording" /\ call[r] = "idle"
    BY DEF ImportInv, Record, Placed
<1>2. /\ UNCHANGED <<bank, call, rows, receipts, token, ending, seeded, early>>
      /\ AppliesOnce
    BY NothingStored DEF Record, installation
<1>3. PICK a \in {"accepted", "unrecorded"} : End(r, a)
    BY DEF Record
<1>4. /\ req' \in [Requests -> RequestRows]
      /\ req'[r].pc = "ended" /\ req'[r].answer = a
      /\ req'[r].kind = req[r].kind /\ req'[r].key = req[r].key
      /\ req'[r].body = req[r].body /\ req'[r].got = req[r].got
      /\ \A q \in Requests \ {r} : req'[q] = req[q]
    BY <1>1, <1>3, EndEffect DEF Answers
<1>5. batches' \in [Keys -> Batches \cup {None}]
    <2>1. [body |-> req[r].body, corr |-> r] \in Batches
        BY <1>1, RequestFields DEF Batches
    <2> QED BY <1>1, <2>1 DEF Record, TypeOK
<1>6. TypeOK' /\ EndingFits'
    BY <1>2, <1>4, <1>5 DEF ImportInv, TypeOK, EndingFits
<1>7. Placed(r)'
    BY <1>1, <1>2, <1>4 DEF Placed
<1>8. ASSUME ~early
      PROVE  Stored(r)'
    <2> SUFFICES ASSUME NEW i \in FirstPost(req[r].kind) .. LastPost(req[r].kind)
                 PROVE  receipts[PostOrder[i]][ReceiptKey(r)'] = Payload(r, PostOrder[i])'
        BY <1>2, <1>4 DEF Stored
    <2>1. receipts[PostOrder[i]][ReceiptKey(r)] = Payload(r, PostOrder[i])
        BY <1>1, <1>8 DEF ImportInv, Stored, Acknowledged, PastItsImports
    <2>2. ReceiptKey(r)' = ReceiptKey(r) /\ Payload(r, PostOrder[i])' = Payload(r, PostOrder[i])
        BY <1>4 DEF ReceiptKey, Payload
    <2> QED BY <2>1, <2>2
<1> QED BY <1>2, <1>4, <1>6, <1>7, <1>8, OneRequest

LEMMA BankChangesStep ==
    ASSUME ImportInv, BankChanges
    PROVE  ImportInv' /\ AppliesOnce
<1>1. /\ UNCHANGED <<req, call, rows, receipts, batches, token, ending, seeded, early>>
      /\ AppliesOnce
    BY NothingStored DEF BankChanges, installation
<1>2. bank' \in [Sources -> 1 .. MaxVersion]
    BY VersionAssumption DEF ImportInv, TypeOK, BankChanges
<1>3. TypeOK' /\ EndingFits'
    BY <1>1, <1>2 DEF ImportInv, TypeOK, EndingFits
<1> QED BY <1>1, <1>3, NoRequest

LEMMA TokenExpiresStep ==
    ASSUME ImportInv, TokenExpires
    PROVE  ImportInv' /\ AppliesOnce
<1>1. /\ UNCHANGED <<bank, req, call, rows, receipts, batches, ending, seeded, early>>
      /\ token' = "expired" /\ AppliesOnce
    BY NothingStored DEF TokenExpires, installation
<1>2. TypeOK' /\ EndingFits'
    BY <1>1 DEF ImportInv, TypeOK, EndingFits
<1> QED BY <1>1, <1>2, NoRequest

LEMMA RowAfterRestart ==
    ASSUME TypeOK, NEW r \in Requests, req'[r] = [req[r] EXCEPT !.pc = "ended", !.answer = "lost"]
    PROVE  /\ req'[r] \in RequestRows
           /\ req'[r].pc = "ended" /\ req'[r].answer = "lost"
           /\ req'[r].at = req[r].at /\ req'[r].kind = req[r].kind
BY RequestFields DEF RequestRows, Answers

LEMMA RestartStep ==
    ASSUME ImportInv, Restart
    PROVE  ImportInv' /\ AppliesOnce
<1>1. /\ UNCHANGED <<bank, rows, receipts, batches, ending, seeded, early>>
      /\ token' = "none" /\ AppliesOnce /\ TypeOK
    BY NothingStored DEF Restart, installation, ImportInv
<1>2. ASSUME NEW r \in Requests
      PROVE  /\ req'[r] \in RequestRows /\ call'[r] \in Outcomes
             /\ call'[r] \in {call[r], "idle"}
             /\ call'[r] \in {"idle", "sent", "writing"}
             /\ r \in Running => req'[r] = [req[r] EXCEPT !.pc = "ended", !.answer = "lost"]
             /\ r \notin Running => req'[r] = req[r] /\ req[r].pc \in {"new", "ended"}
    <2>1. [req[r] EXCEPT !.pc = "ended", !.answer = "lost"] \in RequestRows
        BY <1>1, RequestFields DEF RequestRows, Answers
    <2>2. req[r].pc \in {"new", "fetching", "posting", "recording", "ended"}
        BY <1>1, RequestFields DEF RequestRows
    <2> QED BY <1>1, <2>1, <2>2, RequestFields DEF Restart, Outcomes, Running
<1>3. TypeOK'
    <2>1. req' = [r \in Requests |-> req'[r]] /\ call' = [r \in Requests |-> call'[r]]
        BY DEF Restart
    <2>2. req' \in [Requests -> RequestRows] /\ call' \in [Requests -> Outcomes]
        BY <1>2, <2>1
    <2> QED BY <1>1, <2>2 DEF TypeOK
<1>4. EndingFits'
    BY <1>1 DEF ImportInv, EndingFits
<1>5. ASSUME NEW r \in Requests
      PROVE  Placed(r)' /\ (~early => Stored(r)')
    <2>1. Placed(r) /\ (~early => Stored(r))
        BY DEF ImportInv
    <2>2. CASE r \in Running
        <3>1. req'[r].pc = "ended" /\ req'[r].answer = "lost"
              /\ req'[r].at = req[r].at /\ req'[r].kind = req[r].kind
            BY <1>1, <1>2, <2>2, RowAfterRestart
        <3>2. call'[r] # "idle" => call[r] # "idle"
            BY <1>2
        <3>3. Placed(r)'
            BY <2>1, <3>1, <3>2 DEF Placed
        <3>4. Stored(r)'
            BY <3>1 DEF Stored, Acknowledged, PastItsImports
        <3> QED BY <3>3, <3>4
    <2>3. CASE r \notin Running
        <3>1. req'[r] = req[r] /\ req[r].pc \in {"new", "ended"} /\ call'[r] \in {call[r], "idle"}
            BY <1>2, <2>3
        <3>2. Placed(r)'
            BY <2>1, <3>1 DEF Placed
        <3>3. ~early => Stored(r)'
            BY <1>1, <2>1, <3>1 DEF Stored, Acknowledged, PastItsImports, ReceiptKey, Payload
        <3> QED BY <3>2, <3>3
    <2> QED BY <2>2, <2>3
<1> QED BY <1>1, <1>3, <1>4, <1>5 DEF ImportInv
-----------------------------------------------------------------------------
(* The theorems *)

LEMMA InitImportInv == Init => ImportInv
<1> SUFFICES ASSUME Init PROVE ImportInv
    OBVIOUS
<1>1. ASSUME NEW r \in Requests
      PROVE  /\ req[r] \in RequestRows
             /\ req[r].pc = "new" /\ req[r].answer = "none" /\ call[r] = "idle"
    <2>1. [s \in Sources |-> 0] \in [Sources -> Versions]
        BY VersionAssumption DEF Versions
    <2> QED BY <2>1 DEF Init, RequestRows, Answers
<1>2. TypeOK
    <2>1. req \in [Requests -> RequestRows]
        BY <1>1 DEF Init
    <2>2. [fixed |-> 0, current |-> 0] \in Rows
        BY VersionAssumption DEF Rows, Versions
    <2> QED BY <2>1, <2>2, VersionAssumption DEF Init, TypeOK, Outcomes
<1>3. \A r \in Requests : Placed(r) /\ Stored(r)
    BY <1>1, NothingAcknowledged DEF Placed
<1> QED BY <1>2, <1>3 DEF Init, ImportInv, EndingFits

LEMMA ImportStep == ImportInv /\ [Next]_vars => ImportInv' /\ AppliesOnce
<1> SUFFICES ASSUME ImportInv, [Next]_vars
             PROVE  ImportInv' /\ AppliesOnce
    OBVIOUS
<1>1. ASSUME NEW r \in Requests, RequestStep(r)
      PROVE  ImportInv' /\ AppliesOnce
    BY <1>1, BeginStep, FetchStep, FetchFailsStep, PostStep, ProceedStep, GiveUpStep,
       TimeoutStep, RecordStep DEF RequestStep
<1>2. ASSUME NEW r \in Requests, CallStep(r)
      PROVE  ImportInv' /\ AppliesOnce
    BY <1>2, ServeStep, WriteStep, CallFailsStep DEF CallStep
<1>3. ASSUME NEW e \in ending, EndLate(e) \/ LoseLate(e)
      PROVE  ImportInv' /\ AppliesOnce
    BY <1>3, EndLateStep, LoseLateStep
<1>4. CASE UNCHANGED vars
    <2>1. UNCHANGED <<bank, req, call, rows, receipts, batches, token, ending, seeded, early>>
        BY <1>4 DEF vars
    <2>2. TypeOK' /\ EndingFits' /\ AppliesOnce
        BY <2>1, NothingStored DEF ImportInv, TypeOK, EndingFits
    <2> QED BY <2>1, <2>2, NoRequest
<1> QED BY <1>1, <1>2, <1>3, <1>4, BankChangesStep, TokenExpiresStep, RestartStep DEF Next

(* The tables, requests and calls keep their types.                        *)
THEOREM ImportTypeCorrect == Spec => []TypeOK
<1>1. ImportInv /\ [Next]_vars => ImportInv'
    BY ImportStep
<1>2. ImportInv => TypeOK
    BY DEF ImportInv
<1> QED BY <1>1, <1>2, InitImportInv, PTL DEF Spec

(* A request whose imports were all accepted, under its key by every       *)
(* service of its order, had exactly what it fetched accepted: whatever    *)
(* timed out, was sent again, or ran at the same time under the same key.  *)
THEOREM AcceptedImportsAreOneFetch == Spec => []AcceptedIsOneFetch
<1>1. ImportInv /\ [Next]_vars => ImportInv'
    BY ImportStep
<1>2. ImportInv => AcceptedIsOneFetch
    BY DEF ImportInv, AcceptedIsOneFetch, Stored, Acknowledged
<1> QED BY <1>1, <1>2, InitImportInv, PTL DEF Spec

(* A key changes the rows of a service once, and a receipt stays.          *)
THEOREM KeysAreAppliedOnce == Spec => AppliedOncePerKey
<1>1. ImportInv /\ [Next]_vars => ImportInv' /\ AppliesOnce
    BY ImportStep
<1> QED BY <1>1, InitImportInv, PTL DEF Spec, AppliedOncePerKey
-----------------------------------------------------------------------------
(* What is promised *)

Shape ==
    /\ StoresOf \in [Ways -> SUBSET Stores]
    /\ FeedsOf \in [Stores -> SUBSET Feeds]

IPTypeOK ==
    /\ world \in [Feeds -> Nat]
    /\ wanted \in [Imports -> [way : Ways, key : IdKeys, text : Texts]]
    /\ read \in [Imports -> [Feeds -> Nat]]
    /\ told \in [Imports -> Told \cup {"none", "lost"}]
    /\ held = [s \in Stores |-> held[s]]
    /\ table \in [Feeds -> TableRow]

ReadingsAreOld == \A i \in Imports, f \in Feeds : read[i][f] <= world[f]

AcceptedIsHeld == \A i \in Imports : told[i] = "accepted" /\ ~hasty => Imported(i)

IPInv == IPTypeOK /\ ReadingsAreOld /\ ReceiptsAreTrue /\ TableIsRead /\ AcceptedIsHeld

LEMMA WorldMovesKeeps ==
    ASSUME Shape, IPInv, WorldMoves
    PROVE  IPInv'
<1>1. PICK f \in Feeds : world' = [world EXCEPT ![f] = world[f] + 1]
    BY DEF WorldMoves
<1>2. UNCHANGED <<wanted, read, told, held, table, hasty>>
    BY DEF WorldMoves
<1>3. world' \in [Feeds -> Nat] /\ \A g \in Feeds : world[g] <= world'[g] /\ world[g] \in Nat
    BY <1>1 DEF IPInv, IPTypeOK
<1>4. IPTypeOK' /\ ReadingsAreOld'
    BY <1>2, <1>3 DEF IPInv, IPTypeOK, ReadingsAreOld
<1>5. ReceiptsAreTrue'
    <2> SUFFICES ASSUME NEW s \in Stores, NEW x \in held[s]
                 PROVE  /\ \A g \in FeedsOf[s] : x.data[g] \in 1 .. world'[g] /\ table[g].fixed # 0
                        /\ \A y \in held[s] : x.stamp = y.stamp => x = y
        BY <1>2 DEF ReceiptsAreTrue
    <2>1. /\ \A g \in FeedsOf[s] : x.data[g] \in 1 .. world[g] /\ table[g].fixed # 0
          /\ \A y \in held[s] : x.stamp = y.stamp => x = y
        BY DEF IPInv, ReceiptsAreTrue
    <2>2. \A g \in FeedsOf[s] : g \in Feeds
        BY DEF Shape
    <2>3. world' \in [Feeds -> Nat]
        BY <1>3
    <2> QED BY <1>3, <2>1, <2>2, <2>3
<1>6. TableIsRead'
    BY <1>2, <1>3 DEF IPInv, IPTypeOK, TableIsRead, TableRow
<1>7. AcceptedIsHeld'
    BY <1>2 DEF IPInv, AcceptedIsHeld, Imported, StoresFor, Receipt, Stamp
<1> QED BY <1>4, <1>5, <1>6, <1>7 DEF IPInv

LEMMA ReadFeedKeeps ==
    ASSUME Shape, IPInv, NEW i \in Imports, NEW f \in Feeds, ReadFeed(i, f)
    PROVE  IPInv'
<1>1. /\ told[i] = "none" /\ read' = [read EXCEPT ![i] = [read[i] EXCEPT ![f] = world[f]]]
      /\ UNCHANGED <<world, wanted, told, held, table, hasty>>
    BY DEF ReadFeed
<1>2. IPTypeOK /\ IPTypeOK'
    BY <1>1 DEF IPInv, IPTypeOK
<1>3. ReadingsAreOld'
    <2>1. \A j \in Imports, g \in Feeds :
              read'[j][g] = IF j = i /\ g = f THEN world[f] ELSE read[j][g]
        BY <1>1, <1>2 DEF IPTypeOK
    <2>2. \A g \in Feeds : world[g] \in Nat
        BY <1>2 DEF IPTypeOK
    <2> QED BY <1>1, <2>1, <2>2 DEF IPInv, ReadingsAreOld
<1>4. ReceiptsAreTrue' /\ TableIsRead'
    BY <1>1 DEF IPInv, ReceiptsAreTrue, TableIsRead
<1>5. AcceptedIsHeld'
    <2> SUFFICES ASSUME NEW j \in Imports, told[j] = "accepted", ~hasty
                 PROVE  Imported(j)'
        BY <1>1 DEF AcceptedIsHeld
    <2>1. Imported(j)
        BY DEF IPInv, AcceptedIsHeld
    <2>2. read'[j] = read[j]
        BY <1>1, <1>2 DEF IPTypeOK
    <2> QED BY <1>1, <2>1, <2>2 DEF Imported, StoresFor, Receipt, Stamp
<1> QED BY <1>2, <1>3, <1>4, <1>5 DEF IPInv

LEMMA TakeKeeps ==
    ASSUME Shape, IPInv, NEW i \in Imports, NEW s \in Stores, Take(i, s)
    PROVE  IPInv'
<1>1. /\ \A x \in held[s] : x.stamp # Stamp(i)
      /\ \A f \in FeedsOf[s] : read[i][f] # 0
      /\ held' = [held EXCEPT ![s] = held[s] \cup {Receipt(i, s)}]
      /\ table' \in [Feeds -> TableRow]
      /\ \A f \in FeedsOf[s] : table'[f] \in Rewritten(table[f], read[i][f])
      /\ \A f \in Feeds \ FeedsOf[s] : table'[f] = table[f]
      /\ UNCHANGED <<world, wanted, read, told, hasty>>
    BY DEF Take
<1>2. /\ held'[s] = held[s] \cup {Receipt(i, s)}
      /\ \A t \in Stores \ {s} : held'[t] = held[t]
      /\ \A t \in Stores : held[t] \subseteq held'[t]
    <2>1. held = [t \in Stores |-> held[t]]
        BY DEF IPInv, IPTypeOK
    <2> QED BY <1>1, <2>1
<1>3. IPTypeOK' /\ ReadingsAreOld'
    BY <1>1 DEF IPInv, IPTypeOK, ReadingsAreOld
<1>4. \A f \in Feeds : /\ world[f] \in Nat /\ read[i][f] \in Nat /\ read[i][f] <= world[f]
                       /\ table[f].fixed \in Nat /\ table[f].current \in Nat
                       /\ table[f].fixed <= world[f] /\ table[f].current <= world[f]
    BY DEF IPInv, IPTypeOK, ReadingsAreOld, TableIsRead, TableRow
<1>5. \A f \in Feeds : /\ table'[f].fixed \in {table[f].fixed, read[i][f]}
                       /\ table'[f].current \in {table[f].current, read[i][f]}
                       /\ table[f].fixed # 0 => table'[f].fixed # 0
                       /\ f \in FeedsOf[s] => table'[f].fixed # 0
    <2> SUFFICES ASSUME NEW f \in Feeds
                 PROVE  /\ table'[f].fixed \in {table[f].fixed, read[i][f]}
                        /\ table'[f].current \in {table[f].current, read[i][f]}
                        /\ table[f].fixed # 0 => table'[f].fixed # 0
                        /\ f \in FeedsOf[s] => table'[f].fixed # 0
        OBVIOUS
    <2>1. CASE f \in FeedsOf[s]
        <3>1. table'[f] \in Rewritten(table[f], read[i][f])
            BY <1>1, <2>1
        <3> QED BY <3>1 DEF Rewritten
    <2>2. CASE f \notin FeedsOf[s]
        BY <1>1, <2>2
    <2> QED BY <2>1, <2>2
<1>6. TableIsRead'
    BY <1>1, <1>4, <1>5 DEF TableIsRead
<1>7. ReceiptsAreTrue'
    <2> SUFFICES ASSUME NEW t \in Stores, NEW x \in held'[t]
                 PROVE  /\ \A f \in FeedsOf[t] : x.data[f] \in 1 .. world[f] /\ table'[f].fixed # 0
                        /\ \A y \in held'[t] : x.stamp = y.stamp => x = y
        BY <1>1 DEF ReceiptsAreTrue
    <2>1. \A f \in FeedsOf[t] : f \in Feeds
        BY DEF Shape
    <2>2. \A y \in held[t] : /\ \A f \in FeedsOf[t] : y.data[f] \in 1 .. world[f] /\ table[f].fixed # 0
                             /\ \A z \in held[t] : y.stamp = z.stamp => y = z
        BY DEF IPInv, ReceiptsAreTrue
    <2>3. CASE x \in held[t]
        <3>1. \A y \in held'[t] \ held[t] : t = s /\ y = Receipt(i, s) /\ y.stamp = Stamp(i)
            BY <1>2 DEF Receipt
        <3> QED BY <1>1, <1>5, <2>1, <2>2, <2>3, <3>1
    <2>4. CASE x \notin held[t]
        <3>1. t = s /\ x = Receipt(i, s) /\ x.stamp = Stamp(i)
            BY <1>2, <2>4 DEF Receipt
        <3>2. \A f \in FeedsOf[s] : x.data[f] = read[i][f]
            BY <3>1 DEF Receipt
        <3>3. \A f \in FeedsOf[s] : x.data[f] \in 1 .. world[f] /\ table'[f].fixed # 0
            BY <1>1, <1>4, <1>5, <2>1, <3>1, <3>2
        <3>4. \A y \in held'[t] : y \in held[s] \/ y = x
            BY <1>2, <3>1
        <3> QED BY <1>1, <3>1, <3>3, <3>4
    <2> QED BY <2>3, <2>4
<1>8. AcceptedIsHeld'
    BY <1>1, <1>2 DEF IPInv, AcceptedIsHeld, Imported, StoresFor, Receipt, Stamp, Shape
<1> QED BY <1>3, <1>6, <1>7, <1>8 DEF IPInv

LEMMA TellKeeps ==
    ASSUME IPInv, told' \in [Imports -> Told \cup {"none", "lost"}],
           UNCHANGED <<world, wanted, read, held, table, hasty>>,
           \A i \in Imports : told'[i] = "accepted" /\ ~hasty => told[i] = "accepted" \/ Imported(i)
    PROVE  IPInv'
<1>1. IPTypeOK' /\ ReadingsAreOld' /\ ReceiptsAreTrue' /\ TableIsRead'
    BY DEF IPInv, IPTypeOK, ReadingsAreOld, ReceiptsAreTrue, TableIsRead
<1>2. AcceptedIsHeld'
    BY DEF IPInv, AcceptedIsHeld, Imported, StoresFor, Receipt, Stamp
<1> QED BY <1>1, <1>2 DEF IPInv

(* Whatever keeps the promise of an import keeps its receipts true: of     *)
(* what was read from the feeds, one to a key, with rows in the table; and *)
(* an accepted import is in every store it was for.                        *)
THEOREM PromiseIsSafe ==
    ASSUME Shape
    PROVE  IPSpec => [](ReceiptsAreTrue /\ TableIsRead /\ AcceptedIsThere)
<1>1. IPInit => IPInv
    <2> SUFFICES ASSUME IPInit
                 PROVE  IPInv
        OBVIOUS
    <2>1. IPTypeOK
        BY DEF IPInit, IPTypeOK, TableRow
    <2>2. ReadingsAreOld /\ ReceiptsAreTrue /\ TableIsRead /\ AcceptedIsHeld
        BY DEF IPInit, ReadingsAreOld, ReceiptsAreTrue, TableIsRead, AcceptedIsHeld
    <2> QED BY <2>1, <2>2 DEF IPInv
<1>2. IPInv /\ [IPNext]_ipVars => IPInv'
    <2> SUFFICES ASSUME IPInv, [IPNext]_ipVars
                 PROVE  IPInv'
        OBVIOUS
    <2>1. told = [i \in Imports |-> told[i]] /\ \A i \in Imports : told[i] \in Told \cup {"none", "lost"}
        BY DEF IPInv, IPTypeOK
    <2>2. ASSUME NEW i \in Imports, NEW answer \in Told, Tell(i, answer)
          PROVE  IPInv'
        BY <2>1, <2>2, TellKeeps DEF Tell
    <2>3. ASSUME NEW some \in SUBSET Imports, Abandon(some)
          PROVE  IPInv'
        BY <2>1, <2>3, TellKeeps DEF Abandon
    <2>4. CASE UNCHANGED ipVars
        BY <2>1, <2>4, TellKeeps DEF ipVars, IPInv, IPTypeOK
    <2> QED BY <2>2, <2>3, <2>4, WorldMovesKeeps, ReadFeedKeeps, TakeKeeps DEF IPNext
<1>3. IPInv => ReceiptsAreTrue /\ TableIsRead /\ AcceptedIsThere
    <2> SUFFICES ASSUME IPInv, NEW i \in Imports, told[i] = "accepted", ~hasty
                 PROVE  \A s \in StoresFor(i) : \A f \in FeedsOf[s] : table[f].fixed # 0
        BY DEF IPInv, AcceptedIsHeld, AcceptedIsThere
    <2>1. \A s \in StoresFor(i) : s \in Stores /\ Receipt(i, s) \in held[s]
        BY DEF IPInv, IPTypeOK, AcceptedIsHeld, Imported, StoresFor, Shape
    <2> QED BY <2>1 DEF IPInv, ReceiptsAreTrue
<1> QED BY <1>1, <1>2, <1>3, PTL DEF IPSpec
-----------------------------------------------------------------------------
(* The promise: what the steps leave alone *)

(* What a step keeps of a request.                                         *)
Kept(r) ==
    /\ req'[r].kind = req[r].kind /\ req'[r].key = req[r].key /\ req'[r].body = req[r].body
    /\ req[r].pc \notin {"new", "fetching"} =>
           req'[r].pc \notin {"new", "fetching"} /\ req'[r].got = req[r].got
    /\ req[r].answer # "none" => req'[r].answer = req[r].answer

LEMMA PostedFetches ==
    ASSUME TypeOK, NEW r \in Requests, AllFetched(r), NEW s \in PostedTo[req[r].kind]
    PROVE  s \in Services /\ \A src \in SourcesOf[s] : req[r].got[src] # 0
<1>1. req[r].kind \in {"all", "transactions"}
    BY RequestFields DEF Kinds
<1>2. CASE req[r].kind = "all"
    <2>1. \A i \in 1 .. 5 : req[r].got[FetchOrder[i]] # 0
        BY <1>2 DEF AllFetched, Fetched, FirstFetch, LastFetch
    <2>2. \A src \in Sources : req[r].got[src] # 0
        BY <2>1 DEF Sources
    <2>3. s \in Services
        BY <1>2 DEF PostedTo, Services, FirstPost, LastPost, Kinds
    <2> QED BY <2>2, <2>3, SourcesOfServices
<1>3. CASE req[r].kind = "transactions"
    <2>1. req[r].got[FetchOrder[4]] # 0
        BY <1>3 DEF AllFetched, Fetched, FirstFetch, LastFetch
    <2>2. PICK i \in 3 .. 3 : s = PostOrder[i]
        BY <1>3 DEF PostedTo, FirstPost, LastPost, Kinds
    <2>3. s = "transaction" /\ FetchOrder[4] = "transactions"
        BY <2>2 DEF PostOrder, FetchOrder
    <2> QED BY <2>1, <2>3, SourcesOfServices, OrderValues
<1> QED BY <1>1, <1>2, <1>3

LEMMA OtherRequests ==
    ASSUME PromiseInv, NEW q \in Requests, AppliesOnce, req'[q] = req[q], call'[q] = call[q]
    PROVE  FetchesDone(q)' /\ RefusalHolds(q)' /\ Kept(q)
<1>1. FetchesDone(q)' /\ Kept(q)
    BY DEF PromiseInv, FetchesDone, AllFetched, Fetched, Kept
<1>2. RefusalHolds(q)'
    <2> SUFFICES ASSUME call[q] = "reused"
                 PROVE  receipts'[ServiceOf(q)][ReceiptKey(q)] \notin {None, Payload(q, ServiceOf(q))}
        BY DEF RefusalHolds, ServiceOf, ReceiptKey, Payload
    <2>1. ServiceOf(q) \in Services /\ ReceiptKey(q) \in ReceiptKeys
        BY CallPlace, RequestFields DEF PromiseInv, ImportInv
    <2>2. receipts[ServiceOf(q)][ReceiptKey(q)] \notin {None, Payload(q, ServiceOf(q))}
        BY DEF PromiseInv, RefusalHolds
    <2> QED BY <2>1, <2>2 DEF AppliesOnce
<1> QED BY <1>1, <1>2

LEMMA EndingStaysPosted ==
    ASSUME PromiseInv, \A q \in Requests : Kept(q), NEW e \in ending
    PROVE  \E r \in Requests :
               /\ req'[r].pc \notin {"new", "fetching"} /\ AllFetched(r)'
               /\ e.service \in PostedTo[req'[r].kind]
               /\ e.key = ReceiptKey(r)' /\ e.new = Payload(r, e.service)'
<1>1. PICK r \in Requests :
        /\ req[r].pc \notin {"new", "fetching"} /\ AllFetched(r)
        /\ e.service \in PostedTo[req[r].kind]
        /\ e.key = ReceiptKey(r) /\ e.new = Payload(r, e.service)
    BY DEF PromiseInv, EndingIsPosted
<1>2. /\ req'[r].kind = req[r].kind /\ req'[r].key = req[r].key /\ req'[r].body = req[r].body
      /\ req'[r].pc \notin {"new", "fetching"} /\ req'[r].got = req[r].got
    BY <1>1 DEF Kept
<1>3. AllFetched(r)' /\ ReceiptKey(r)' = ReceiptKey(r) /\ Payload(r, e.service)' = Payload(r, e.service)
    BY <1>1, <1>2 DEF AllFetched, Fetched, ReceiptKey, Payload
<1> QED BY <1>1, <1>2, <1>3

LEMMA BatchesStayAccepted ==
    ASSUME PromiseInv, \A q \in Requests : Kept(q), NEW k \in Keys, batches[k] # None
    PROVE  LET r == batches[k].corr IN
           req'[r].kind = "all" /\ req'[r].key = k /\ req'[r].body = batches[k].body
               /\ req'[r].answer = "accepted"
<1>1. batches[k].corr \in Requests
    BY DEF PromiseInv, ImportInv, TypeOK, Batches
<1> QED BY <1>1 DEF PromiseInv, BatchesAreAccepted, Kept

(* A step of one request.                                                  *)
LEMMA OneRequestKeeps ==
    ASSUME PromiseInv, ImportInv', NEW r \in Requests, AppliesOnce, RowsAreWhole',
           \A q \in Requests \ {r} : req'[q] = req[q] /\ call'[q] = call[q],
           Kept(r), FetchesDone(r)', RefusalHolds(r)',
           EndingIsPosted' \/ ending' \subseteq ending,
           BatchesAreAccepted' \/ UNCHANGED batches
    PROVE  PromiseInv'
<1>1. \A q \in Requests : FetchesDone(q)' /\ RefusalHolds(q)' /\ Kept(q)
    BY OtherRequests
<1>2. EndingIsPosted'
    BY <1>1, EndingStaysPosted DEF EndingIsPosted
<1>3. BatchesAreAccepted'
    BY <1>1, BatchesStayAccepted DEF BatchesAreAccepted
<1> QED BY <1>1, <1>2, <1>3 DEF PromiseInv

(* A step of its call.                                                     *)
LEMMA CallKeeps ==
    ASSUME PromiseInv, ImportInv', NEW r \in Requests, AppliesOnce, RowsAreWhole',
           AllFetched(r), UNCHANGED <<req, batches>>,
           \A q \in Requests \ {r} : call'[q] = call[q], RefusalHolds(r)',
           EndingIsPosted' \/ ending' \subseteq ending
    PROVE  PromiseInv'
<1>1. Kept(r)
    BY DEF Kept
<1>2. FetchesDone(r)'
    BY DEF PromiseInv, FetchesDone, AllFetched, Fetched
<1> QED BY <1>1, <1>2, OneRequestKeeps

(* A step of nobody's.                                                     *)
LEMMA NoRequestKeeps ==
    ASSUME PromiseInv, ImportInv', AppliesOnce, RowsAreWhole', UNCHANGED <<req, call, batches>>,
           ending' \subseteq ending
    PROVE  PromiseInv'
<1>1. \A q \in Requests : FetchesDone(q)' /\ RefusalHolds(q)' /\ Kept(q)
    BY OtherRequests
<1>2. EndingIsPosted'
    BY <1>1, EndingStaysPosted DEF EndingIsPosted
<1>3. BatchesAreAccepted'
    BY <1>1, BatchesStayAccepted DEF BatchesAreAccepted
<1> QED BY <1>1, <1>2, <1>3 DEF PromiseInv
-----------------------------------------------------------------------------
(* The promise: what its variables are here *)

LEMMA PostedToType ==
    /\ PostedTo \in [Kinds -> SUBSET Services]
    /\ \A kind \in Kinds : \A i \in FirstPost(kind) .. LastPost(kind) : PostOrder[i] \in PostedTo[kind]
    /\ \A kind \in Kinds : \A s \in PostedTo[kind] :
           \E i \in FirstPost(kind) .. LastPost(kind) : s = PostOrder[i]
<1>1. \A kind \in Kinds : \A i \in FirstPost(kind) .. LastPost(kind) : PostOrder[i] \in Services
    BY Bounds, OrderValues
<1> QED BY <1>1 DEF PostedTo

LEMMA ReceiptIs ==
    ASSUME NEW r \in Requests, NEW s \in Services
    PROVE  /\ Promise!Stamp(r) = ReceiptKey(r)
           /\ Promise!StoresFor(r) = PostedTo[req[r].kind]
           /\ Promise!Receipt(r, s) = [stamp |-> ReceiptKey(r), text |-> Payload(r, s).body,
                                       data |-> Payload(r, s).data]
BY DEF Promise!Stamp, Promise!StoresFor, Promise!Receipt, WantedBar, ReadBar, ReceiptKey, Payload

(* The receipt of a key, in a store that has one.                          *)
Held(s, k) == [stamp |-> k, text |-> receipts[s][k].body, data |-> receipts[s][k].data]

LEMMA HeldIs ==
    ASSUME NEW s \in Services
    PROVE  /\ HeldBar[s] = {Held(s, k) : k \in {j \in ReceiptKeys : receipts[s][j] # None}}
           /\ \A x \in HeldBar[s] : x.stamp \in ReceiptKeys /\ receipts[s][x.stamp] # None
                                    /\ x = Held(s, x.stamp)
BY DEF HeldBar, Held

LEMMA PayloadsAreRecords ==
    ASSUME NEW x \in Payloads, NEW y \in Payloads, x.body = y.body, x.data = y.data
    PROVE  x = y
BY DEF Payloads

LEMMA ImportedIs ==
    ASSUME TypeOK, NEW r \in Requests,
           \A i \in FirstPost(req[r].kind) .. LastPost(req[r].kind) :
               receipts[PostOrder[i]][ReceiptKey(r)] = Payload(r, PostOrder[i])
    PROVE  Promise!Imported(r)
<1> SUFFICES ASSUME NEW s \in PostedTo[req[r].kind]
             PROVE  s \in Services /\ Promise!Receipt(r, s) \in HeldBar[s]
    BY ReceiptIs, RequestFields, PostedToType DEF Promise!Imported, Promise!StoresFor, WantedBar
<1>1. s \in Services /\ ReceiptKey(r) \in ReceiptKeys
    BY RequestFields, PostedToType
<1>2. receipts[s][ReceiptKey(r)] = Payload(r, s) /\ Payload(r, s) # None
    BY <1>1, RequestFields, PostedToType, PayloadFits
<1>3. Promise!Receipt(r, s) = Held(s, ReceiptKey(r))
    BY <1>1, <1>2, ReceiptIs DEF Held
<1> QED BY <1>1, <1>2, <1>3, HeldIs

LEMMA ContradictedIs ==
    ASSUME TypeOK, NEW r \in Requests, NEW s \in PostedTo[req[r].kind],
           receipts[s][ReceiptKey(r)] \notin {None, Payload(r, s)}
    PROVE  Promise!Contradicted(r)
<1> DEFINE x == Held(s, ReceiptKey(r))
<1>1. s \in Services /\ ReceiptKey(r) \in ReceiptKeys
    BY RequestFields, PostedToType
<1>2. receipts[s][ReceiptKey(r)] \in Payloads /\ Payload(r, s) \in Payloads
    BY <1>1, PayloadFits DEF TypeOK
<1>3. x \in HeldBar[s] /\ x.stamp = ReceiptKey(r)
    BY <1>1, HeldIs DEF Held
<1>4. x # Promise!Receipt(r, s)
    BY <1>1, <1>2, ReceiptIs, PayloadsAreRecords DEF Held
<1> QED BY <1>1, <1>3, <1>4, ReceiptIs DEF Promise!Contradicted

LEMMA AcceptedBeforeIs ==
    ASSUME NEW r \in Requests, NEW q \in Requests, NEW same \in BOOLEAN,
           req[q].answer = "accepted", req[q].kind = req[r].kind, req[q].key = req[r].key,
           (req[q].body = req[r].body) = same
    PROVE  Promise!AcceptedBefore(r, same)
BY DEF Promise!AcceptedBefore, Promise!Stamp, WantedBar, ToldBar

(* What does not touch receipts and rows may change what is read or told.  *)
LEMMA BarsStay ==
    ASSUME \A q \in Requests : req'[q].kind = req[q].kind /\ req'[q].key = req[q].key
                               /\ req'[q].body = req[q].body
    PROVE  /\ WantedBar' = WantedBar
           /\ (\A q \in Requests : req'[q].got = req[q].got) => ReadBar' = ReadBar
           /\ (\A q \in Requests : req'[q].answer = req[q].answer) => ToldBar' = ToldBar
           /\ receipts' = receipts => HeldBar' = HeldBar
BY DEF WantedBar, ReadBar, ToldBar, HeldBar
-----------------------------------------------------------------------------
(* The promise: what its steps are here *)

(* Each column a store writes is the old one or the one it is sent, and    *)
(* none of them is missing then.                                           *)
LEMMA StoreRewrites ==
    ASSUME TypeOK, RowsAreWhole, NEW s \in Services, NEW data \in [SourcesOf[s] -> Versions],
           rows' = Store(s, data), \A src \in SourcesOf[s] : data[src] # 0
    PROVE  \A src \in SourcesOf[s] : rows'[src] \in Promise!Rewritten(rows[src], data[src])
<1>1. \A src \in SourcesOf[s] : src \in Sources /\ data[src] \in Versions /\ data[src] # 0
                                /\ rows[src] \in Rows
    BY SourcesOfServices DEF TypeOK
<1>2. ASSUME NEW row \in Rows, NEW v \in Versions, v # 0, row.fixed # 0 => row.current # 0
      PROVE  /\ Upsert(row, v) \in Promise!Rewritten(row, v)
             /\ Overwrite(row, v) \in Promise!Rewritten(row, v)
             /\ KeepFirst(row, v) \in Promise!Rewritten(row, v)
    <2>1. row = [fixed |-> row.fixed, current |-> row.current]
        BY DEF Rows
    <2>2. [row EXCEPT !.current = v] = [fixed |-> row.fixed, current |-> v]
        BY <2>1
    <2> QED BY <1>2, <2>1, <2>2 DEF Promise!Rewritten, Upsert, Overwrite, KeepFirst
<1>3. \A src \in Sources : rows[src].fixed # 0 => rows[src].current # 0
    BY DEF RowsAreWhole
<1>4. rows = [src \in Sources |-> rows[src]]
    BY DEF TypeOK
<1>5. CASE s = "customer"
    <2>1. rows' = [rows EXCEPT !["customers"] = Upsert(rows["customers"], data["customers"])]
        BY <1>5 DEF Store, StoreCustomers
    <2>2. rows'["customers"] = Upsert(rows["customers"], data["customers"])
        BY <1>4, <2>1, OrderValues
    <2> QED BY <1>1, <1>2, <1>3, <1>5, <2>2, SourcesOfServices
<1>6. CASE s = "account"
    <2>1. rows' = [rows EXCEPT !["accounts"] = Upsert(rows["accounts"], data["accounts"]),
                               !["balances"] = Overwrite(rows["balances"], data["balances"])]
        BY <1>6 DEF Store, StoreAccounts
    <2>2. /\ rows'["accounts"] = Upsert(rows["accounts"], data["accounts"])
          /\ rows'["balances"] = Overwrite(rows["balances"], data["balances"])
        BY <1>4, <2>1, OrderValues
    <2> QED BY <1>1, <1>2, <1>3, <1>6, <2>2, SourcesOfServices
<1>7. CASE s = "transaction"
    <2>1. rows' = [rows EXCEPT !["transactions"] = KeepFirst(rows["transactions"], data["transactions"])]
        BY <1>7 DEF Store, StoreTransactions
    <2>2. rows'["transactions"] = KeepFirst(rows["transactions"], data["transactions"])
        BY <1>4, <2>1, OrderValues
    <2> QED BY <1>1, <1>2, <1>3, <1>7, <2>2, SourcesOfServices
<1>8. CASE s = "product"
    <2>1. rows' = [rows EXCEPT !["products"] = Upsert(rows["products"], data["products"])]
        BY <1>8 DEF Store, StoreProducts
    <2>2. rows'["products"] = Upsert(rows["products"], data["products"])
        BY <1>4, <2>1, OrderValues
    <2> QED BY <1>1, <1>2, <1>3, <1>8, <2>2, SourcesOfServices
<1> QED BY <1>5, <1>6, <1>7, <1>8, OrderValues

(* The end of a session that stores, early or late, is the taking of what  *)
(* some request has read.                                                  *)
LEMMA TakeRefines ==
    ASSUME PromiseInv, NEW r \in Requests, AllFetched(r), NEW s \in PostedTo[req[r].kind],
           receipts[s][ReceiptKey(r)] = None,
           rows' = Store(s, Payload(r, s).data),
           receipts' = [receipts EXCEPT ![s][ReceiptKey(r)] = Payload(r, s)],
           UNCHANGED <<bank, req, early>>
    PROVE  Promise!IPNext /\ RowsAreWhole'
<1> DEFINE k == ReceiptKey(r)
           data == Payload(r, s).data
<1>1. TypeOK /\ RowsAreWhole
    BY DEF PromiseInv, ImportInv
<1>2. /\ s \in Services /\ k \in ReceiptKeys
      /\ \A src \in SourcesOf[s] : req[r].got[src] # 0
    BY <1>1, PostedFetches, RequestFields
<1>3. /\ data \in [SourcesOf[s] -> Versions]
      /\ \A src \in SourcesOf[s] : data[src] = req[r].got[src]
      /\ Payload(r, s) # None
    BY <1>1, <1>2, PayloadFits DEF Payload
<1>4. /\ rows' \in [Sources -> Rows]
      /\ \A src \in Sources \ SourcesOf[s] : rows'[src] = rows[src]
      /\ \A src \in SourcesOf[s] : rows'[src] \in Promise!Rewritten(rows[src], req[r].got[src])
    <2> HIDE DEF data
    <2> QED BY <1>1, <1>2, <1>3, StoreEffect, StoreRewrites DEF data
<1>5. rows' \in [Sources -> Promise!TableRow]
    <2>1. Versions \subseteq Nat
        BY VersionAssumption DEF Versions
    <2>2. Rows \subseteq Promise!TableRow
        BY <2>1 DEF Rows, Promise!TableRow
    <2> QED BY <1>4, <2>2
<1>6. RowsAreWhole'
    BY <1>1, <1>4 DEF RowsAreWhole, Promise!Rewritten
<1>7. receipts = [t \in Services |-> receipts[t]] /\ receipts[s] = [j \in ReceiptKeys |-> receipts[s][j]]
    BY <1>1, <1>2 DEF TypeOK
<1>8. /\ receipts'[s][k] = Payload(r, s)
      /\ \A j \in ReceiptKeys \ {k} : receipts'[s][j] = receipts[s][j]
      /\ \A t \in Services \ {s} : receipts'[t] = receipts[t]
    BY <1>2, <1>7
<1>9. HeldBar' = [HeldBar EXCEPT ![s] = HeldBar[s] \cup {Promise!Receipt(r, s)}]
    <2>1. ASSUME NEW t \in Services \ {s}
          PROVE  HeldBar'[t] = HeldBar[t]
        <3>1. receipts'[t] = receipts[t]
            BY <1>8
        <3>2. HeldBar'[t] = {[stamp |-> j, text |-> receipts'[t][j].body, data |-> receipts'[t][j].data] :
                                 j \in {i \in ReceiptKeys : receipts'[t][i] # None}}
            BY DEF HeldBar
        <3> QED BY <3>1, <3>2 DEF HeldBar
    <2>2. HeldBar'[s] = {Held(s, j)' : j \in {i \in ReceiptKeys : receipts'[s][i] # None}}
        BY <1>2 DEF HeldBar, Held
    <2>3. {i \in ReceiptKeys : receipts'[s][i] # None} = {i \in ReceiptKeys : receipts[s][i] # None} \cup {k}
        BY <1>2, <1>3, <1>8
    <2>4. Held(s, k)' = Promise!Receipt(r, s)
        <3>1. k' = k
            BY DEF ReceiptKey
        <3>2. Held(s, k)' = [stamp |-> k, text |-> receipts'[s][k].body, data |-> receipts'[s][k].data]
            BY <3>1 DEF Held
        <3> QED BY <1>2, <1>8, <3>2, ReceiptIs
    <2>5. \A j \in ReceiptKeys \ {k} : Held(s, j)' = Held(s, j)
        BY <1>8 DEF Held
    <2>6. HeldBar[s] = {Held(s, j) : j \in {i \in ReceiptKeys : receipts[s][i] # None}}
        BY <1>2, HeldIs
    <2>7. HeldBar'[s] = HeldBar[s] \cup {Promise!Receipt(r, s)}
        <3> DEFINE old == {i \in ReceiptKeys : receipts[s][i] # None}
                   was(j) == Held(s, j)
                   is(j) == Held(s, j)'
        <3>1. HeldBar'[s] = {is(j) : j \in old \cup {k}} /\ HeldBar[s] = {was(j) : j \in old}
            BY <2>2, <2>3, <2>6
        <3>2. is(k) = Promise!Receipt(r, s) /\ \A j \in old : is(j) = was(j)
            BY <2>4, <2>5
        <3> HIDE DEF is, was, old
        <3> QED BY <3>1, <3>2
    <2>8. HeldBar' = [t \in Services |-> HeldBar'[t]] /\ HeldBar = [t \in Services |-> HeldBar[t]]
        BY DEF HeldBar
    <2> QED BY <1>2, <2>1, <2>7, <2>8
<1>10. \A x \in HeldBar[s] : x.stamp # Promise!Stamp(r)
    BY <1>2, HeldIs, ReceiptIs
<1>11. UNCHANGED <<WantedBar, ReadBar, ToldBar>>
    BY DEF WantedBar, ReadBar, ToldBar
<1>12. ReadBar[r] = req[r].got /\ s \in Promise!StoresFor(r)
    BY <1>2, ReceiptIs DEF ReadBar
<1>13. Promise!Take(r, s)
    BY <1>2, <1>4, <1>5, <1>9, <1>10, <1>11, <1>12 DEF Promise!Take
<1> QED BY <1>2, <1>6, <1>13 DEF Promise!IPNext

LEMMA StepStutters ==
    ASSUME \A q \in Requests : /\ req'[q].kind = req[q].kind /\ req'[q].key = req[q].key
                               /\ req'[q].body = req[q].body /\ req'[q].got = req[q].got
                               /\ req'[q].answer = req[q].answer,
           UNCHANGED <<bank, rows, receipts, early>>
    PROVE  UNCHANGED Promise!ipVars
BY BarsStay DEF Promise!ipVars

LEMMA TellRefines ==
    ASSUME PromiseInv, NEW r \in Requests, NEW a \in Answers \ {"none", "lost"},
           req[r].answer = "none", End(r, a), UNCHANGED <<bank, rows, receipts, early>>,
           a \in {"accepted", "unrecorded"} => early \/ Promise!Imported(r),
           a = "replayed" => Promise!AcceptedBefore(r, TRUE),
           a = "reused" => Promise!Contradicted(r) \/ Promise!AcceptedBefore(r, FALSE)
    PROVE  Promise!IPNext
<1>1. TypeOK
    BY DEF PromiseInv, ImportInv
<1>2. /\ \A q \in Requests : /\ req'[q].kind = req[q].kind /\ req'[q].key = req[q].key
                             /\ req'[q].body = req[q].body /\ req'[q].got = req[q].got
      /\ req'[r].answer = a
      /\ \A q \in Requests \ {r} : req'[q].answer = req[q].answer
    <2>1. /\ req'[r].kind = req[r].kind /\ req'[r].key = req[r].key
          /\ req'[r].body = req[r].body /\ req'[r].got = req[r].got
          /\ req'[r].answer = a
          /\ \A q \in Requests \ {r} : req'[q] = req[q]
        BY <1>1, EndEffect
    <2> QED BY <2>1
<1>3. UNCHANGED <<WantedBar, ReadBar, HeldBar>>
    BY <1>2, BarsStay
<1>4. ToldBar' = [ToldBar EXCEPT ![r] = a] /\ ToldBar[r] = "none"
    BY <1>2 DEF ToldBar
<1>5. Promise!Tell(r, a)
    BY <1>3, <1>4 DEF Promise!Tell
<1>6. a \in Promise!Told
    BY DEF Answers, Promise!Told
<1> QED BY <1>5, <1>6 DEF Promise!IPNext

LEMMA EndKeeps ==
    ASSUME PromiseInv, ImportInv', NEW r \in Requests, NEW a \in Answers,
           req[r].answer = "none", End(r, a),
           \A q \in Requests \ {r} : call'[q] = call[q],
           call'[r] \in {call[r], "idle"}, call'[r] # "idle" => req[r].pc = "posting",
           UNCHANGED <<rows, receipts, ending>>, BatchesAreAccepted' \/ UNCHANGED batches
    PROVE  PromiseInv'
<1>1. TypeOK /\ AppliesOnce /\ RowsAreWhole'
    <2>1. TypeOK /\ RowsAreWhole
        BY DEF PromiseInv, ImportInv
    <2>2. RowsAreWhole'
        BY <2>1 DEF RowsAreWhole
    <2> QED BY <2>1, <2>2, NothingStored
<1>2. /\ req'[r].pc = "ended"
      /\ req'[r].kind = req[r].kind /\ req'[r].key = req[r].key
      /\ req'[r].body = req[r].body /\ req'[r].at = req[r].at /\ req'[r].got = req[r].got
      /\ \A q \in Requests \ {r} : req'[q] = req[q]
    BY <1>1, EndEffect
<1>3. Kept(r)
    BY <1>2 DEF Kept
<1>4. FetchesDone(r)'
    <2>1. call'[r] # "idle" => AllFetched(r)
        BY DEF PromiseInv, FetchesDone
    <2>2. AllFetched(r) => AllFetched(r)'
        BY <1>2 DEF AllFetched, Fetched
    <2> QED BY <1>2, <2>1, <2>2 DEF FetchesDone
<1>5. RefusalHolds(r)'
    BY <1>2 DEF PromiseInv, RefusalHolds, ServiceOf, ReceiptKey, Payload
<1> QED BY <1>1, <1>2, <1>3, <1>4, <1>5, OneRequestKeeps

LEMMA BeginPromise ==
    ASSUME PromiseInv, NEW r \in Requests, Begin(r)
    PROVE  PromiseInv' /\ [Promise!IPNext]_(Promise!ipVars)
<1> DEFINE done == batches[req[r].key]
<1>1. /\ TypeOK /\ Placed(r) /\ req[r].pc = "new" /\ req[r].answer = "none" /\ call[r] = "idle"
      /\ ImportInv' /\ AppliesOnce
    BY BeginStep DEF PromiseInv, ImportInv, Begin, Placed
<1>2. UNCHANGED <<bank, call, rows, receipts, batches, token, ending, seeded, early>>
    BY DEF Begin, installation
<1>3. CASE req[r].kind = "all" /\ done # None
    <2> DEFINE a == IF done.body = req[r].body THEN "replayed" ELSE "reused"
    <2>1. End(r, a) /\ a \in Answers \ {"none", "lost"}
        BY <1>3 DEF Begin, Answers
    <2>2. /\ done.corr \in Requests
          /\ req[done.corr].kind = "all" /\ req[done.corr].key = req[r].key
          /\ req[done.corr].body = done.body /\ req[done.corr].answer = "accepted"
        BY <1>1, <1>3, RequestFields DEF PromiseInv, BatchesAreAccepted, TypeOK, Batches
    <2>3. /\ a = "replayed" => Promise!AcceptedBefore(r, TRUE)
          /\ a = "reused" => Promise!AcceptedBefore(r, FALSE)
          /\ a \notin {"accepted", "unrecorded"}
        BY <1>3, <2>2, AcceptedBeforeIs
    <2> HIDE DEF a
    <2>4. Promise!IPNext
        BY <1>1, <1>2, <2>1, <2>3, TellRefines
    <2>5. PromiseInv'
        BY <1>1, <1>2, <2>1, EndKeeps
    <2> QED BY <2>4, <2>5
<1>4. CASE ~(req[r].kind = "all" /\ done # None)
    <2> DEFINE row == [req[r] EXCEPT !.pc = "fetching", !.at = FirstFetch(req[r].kind)]
    <2>1. /\ row \in RequestRows
          /\ row.pc = "fetching" /\ row.at = FirstFetch(row.kind) /\ row.answer = "none"
          /\ row.kind = req[r].kind /\ row.key = req[r].key /\ row.body = req[r].body
          /\ row.got = req[r].got
        BY <1>1, RequestFields, Bounds DEF RequestRows
    <2>2. req' = [req EXCEPT ![r] = row]
        BY <1>4 DEF Begin
    <2> HIDE DEF row
    <2>3. /\ req'[r] = row
          /\ \A q \in Requests \ {r} : req'[q] = req[q]
        BY <1>1, <2>1, <2>2, RowChange
    <2>4. UNCHANGED Promise!ipVars
        BY <1>1, <1>2, <2>1, <2>3, StepStutters
    <2>5. Kept(r) /\ RefusalHolds(r)' /\ RowsAreWhole'
        BY <1>1, <1>2, <2>1, <2>3 DEF Kept, RefusalHolds, PromiseInv, RowsAreWhole
    <2>6. FetchesDone(r)'
        <3>1. \A i \in FirstFetch(row.kind) .. (row.at - 1) : FALSE
            BY <1>1, <2>1, RequestFields, Bounds
        <3> QED BY <1>1, <1>2, <2>1, <2>3, <3>1 DEF FetchesDone
    <2> QED BY <1>1, <1>2, <2>3, <2>4, <2>5, <2>6, OneRequestKeeps
<1> QED BY <1>3, <1>4

LEMMA FetchPromise ==
    ASSUME PromiseInv, NEW r \in Requests, Fetch(r)
    PROVE  PromiseInv' /\ [Promise!IPNext]_(Promise!ipVars)
<1> DEFINE i   == req[r].at
           src == FetchOrder[i]
           all == i = LastFetch(req[r].kind)
<1>1. /\ TypeOK /\ Placed(r) /\ req[r].pc = "fetching" /\ req[r].answer = "none" /\ call[r] = "idle"
      /\ ImportInv' /\ AppliesOnce
    BY FetchStep DEF PromiseInv, ImportInv, Fetch, Placed
<1>2. UNCHANGED <<bank, call, rows, receipts, batches, ending, seeded, early>>
    BY DEF Fetch, installation
<1>3. /\ \A q \in Requests \ {r} : req'[q] = req[q]
      /\ req'[r].kind = req[r].kind /\ req'[r].key = req[r].key
      /\ req'[r].body = req[r].body /\ req'[r].answer = req[r].answer
      /\ req'[r].got = [req[r].got EXCEPT ![src] = bank[src]]
      /\ req'[r].pc = IF all THEN "posting" ELSE "fetching"
      /\ req'[r].at = IF all THEN FirstPost(req[r].kind) ELSE i + 1
    BY <1>1, FetchEffect
<1>4. i \in FirstFetch(req[r].kind) .. LastFetch(req[r].kind) /\ i \in 1 .. 5 /\ src \in Sources
    BY <1>1, FetchEffect
<1>5. bank[src] # 0
    BY <1>1, <1>4 DEF TypeOK
<1>6. \A j \in FirstFetch(req[r].kind) .. i : req'[r].got[FetchOrder[j]] # 0
    <2>1. \A j \in FirstFetch(req[r].kind) .. (i - 1) : req[r].got[FetchOrder[j]] # 0
        BY <1>1 DEF PromiseInv, FetchesDone, Fetched
    <2> SUFFICES ASSUME NEW j \in FirstFetch(req[r].kind) .. i
                 PROVE  req'[r].got[FetchOrder[j]] # 0
        OBVIOUS
    <2>2. FetchOrder[j] \in Sources /\ (j # i => j \in FirstFetch(req[r].kind) .. (i - 1))
        BY <1>1, <1>4, RequestFields, Bounds, OrderValues
    <2> QED BY <1>1, <1>3, <1>5, <2>1, <2>2, RequestFields
<1>7. FetchesDone(r)'
    <2>1. CASE all
        BY <1>1, <1>2, <1>3, <1>6, <2>1 DEF FetchesDone, AllFetched, Fetched
    <2>2. CASE ~all
        <3>1. req'[r].at - 1 = i
            BY <1>3, <1>4, <2>2
        <3> QED BY <1>1, <1>2, <1>3, <1>6, <2>2, <3>1 DEF FetchesDone, Fetched
    <2> QED BY <2>1, <2>2
<1>8. Kept(r) /\ RefusalHolds(r)' /\ RowsAreWhole'
    BY <1>1, <1>2, <1>3 DEF Kept, RefusalHolds, PromiseInv, RowsAreWhole
<1>9. UNCHANGED <<WantedBar, ToldBar, HeldBar>> /\ ToldBar[r] = "none"
    <2>1. \A q \in Requests : /\ req'[q].kind = req[q].kind /\ req'[q].key = req[q].key
                              /\ req'[q].body = req[q].body /\ req'[q].answer = req[q].answer
        BY <1>3
    <2> QED BY <1>1, <1>2, <2>1, BarsStay DEF ToldBar
<1>10. ReadBar' = [ReadBar EXCEPT ![r][src] = bank[src]]
    <2>1. ReadBar' = [ReadBar EXCEPT ![r] = [req[r].got EXCEPT ![src] = bank[src]]]
        BY <1>3 DEF ReadBar
    <2> QED BY <2>1 DEF ReadBar
<1>11. Promise!ReadFeed(r, src)
    BY <1>2, <1>9, <1>10 DEF Promise!ReadFeed
<1>12. Promise!IPNext
    BY <1>4, <1>11 DEF Promise!IPNext
<1> QED BY <1>1, <1>2, <1>3, <1>7, <1>8, <1>12, OneRequestKeeps

LEMMA FetchFailsPromise ==
    ASSUME PromiseInv, NEW r \in Requests, FetchFails(r)
    PROVE  PromiseInv' /\ [Promise!IPNext]_(Promise!ipVars)
<1>1. /\ req[r].pc = "fetching" /\ req[r].answer = "none" /\ call[r] = "idle" /\ ImportInv'
    BY FetchFailsStep DEF PromiseInv, ImportInv, FetchFails, Placed
<1>2. UNCHANGED <<bank, call, rows, receipts, batches, ending, early>>
    BY DEF FetchFails, installation
<1>3. PICK a \in {"unavailable", "timeout"} : End(r, a)
    BY DEF FetchFails
<1>4. a \in Answers \ {"none", "lost"} /\ a \notin {"accepted", "unrecorded", "replayed", "reused"}
    BY DEF Answers
<1>5. Promise!IPNext
    BY <1>1, <1>2, <1>3, <1>4, TellRefines
<1> QED BY <1>1, <1>2, <1>3, <1>4, <1>5, EndKeeps

LEMMA PostPromise ==
    ASSUME PromiseInv, NEW r \in Requests, Post(r)
    PROVE  PromiseInv' /\ [Promise!IPNext]_(Promise!ipVars)
<1>1. TypeOK /\ RowsAreWhole /\ ImportInv' /\ AppliesOnce /\ AllFetched(r)
    BY PostStep DEF PromiseInv, ImportInv, FetchesDone, Post
<1>2. UNCHANGED <<bank, req, rows, receipts, batches, ending, seeded, early>>
    BY DEF Post, installation
<1>3. /\ call'[r] \in {"sent", "unauthorized"}
      /\ \A q \in Requests \ {r} : call'[q] = call[q]
    BY <1>1 DEF Post, TypeOK
<1>4. RefusalHolds(r)' /\ RowsAreWhole'
    BY <1>1, <1>2, <1>3 DEF RefusalHolds, RowsAreWhole
<1> QED BY <1>1, <1>2, <1>3, <1>4, CallKeeps, StepStutters

LEMMA CallFailsPromise ==
    ASSUME PromiseInv, NEW r \in Requests, CallFails(r)
    PROVE  PromiseInv' /\ [Promise!IPNext]_(Promise!ipVars)
<1>1. TypeOK /\ RowsAreWhole /\ ImportInv' /\ AppliesOnce /\ AllFetched(r)
    BY CallFailsStep DEF PromiseInv, ImportInv, FetchesDone, CallFails
<1>2. UNCHANGED <<bank, req, rows, receipts, batches, ending, seeded, early>>
    BY DEF CallFails, installation
<1>3. /\ call'[r] \in {"failed", "idle"}
      /\ \A q \in Requests \ {r} : call'[q] = call[q]
    BY <1>1, ReplyEffect DEF CallFails, Outcomes
<1>4. RefusalHolds(r)' /\ RowsAreWhole'
    BY <1>1, <1>2, <1>3 DEF RefusalHolds, RowsAreWhole
<1> QED BY <1>1, <1>2, <1>3, <1>4, CallKeeps, StepStutters

LEMMA GiveUpPromise ==
    ASSUME PromiseInv, NEW r \in Requests, GiveUp(r)
    PROVE  PromiseInv' /\ [Promise!IPNext]_(Promise!ipVars)
<1>1. /\ TypeOK /\ Placed(r) /\ req[r].pc = "posting" /\ req[r].answer = "none"
      /\ call[r] \in {"reused", "unauthorized", "failed"}
      /\ ImportInv'
    BY GiveUpStep DEF PromiseInv, ImportInv, GiveUp, Placed
<1>2. UNCHANGED <<bank, rows, receipts, batches, ending, early>>
    BY DEF GiveUp, installation
<1>3. PICK a \in {"reused", "unauthorized", "unavailable"} :
          End(r, a) /\ (a = "reused" => call[r] = "reused")
    BY <1>1 DEF GiveUp
<1>4. a \in Answers \ {"none", "lost"} /\ a \notin {"accepted", "unrecorded", "replayed"}
    BY DEF Answers
<1>5. /\ call'[r] = "idle"
      /\ \A q \in Requests \ {r} : call'[q] = call[q]
    BY <1>1 DEF GiveUp, TypeOK
<1>6. a = "reused" => Promise!Contradicted(r)
    <2> SUFFICES ASSUME call[r] = "reused"
                 PROVE  Promise!Contradicted(r)
        BY <1>3
    <2>1. ServiceOf(r) \in PostedTo[req[r].kind]
        BY <1>1, CallPlace, RequestFields, PostedToType DEF ServiceOf
    <2>2. receipts[ServiceOf(r)][ReceiptKey(r)] \notin {None, Payload(r, ServiceOf(r))}
        BY DEF PromiseInv, RefusalHolds
    <2> QED BY <1>1, <2>1, <2>2, ContradictedIs
<1>7. Promise!IPNext
    BY <1>1, <1>2, <1>3, <1>4, <1>6, TellRefines
<1> QED BY <1>1, <1>2, <1>3, <1>4, <1>5, <1>7, EndKeeps

LEMMA TimeoutPromise ==
    ASSUME PromiseInv, NEW r \in Requests, Timeout(r)
    PROVE  PromiseInv' /\ [Promise!IPNext]_(Promise!ipVars)
<1>1. /\ TypeOK /\ req[r].pc = "posting" /\ req[r].answer = "none" /\ ImportInv'
      /\ End(r, "timeout")
    BY TimeoutStep DEF PromiseInv, ImportInv, Timeout, Placed
<1>2. UNCHANGED <<bank, rows, receipts, batches, ending, early>>
    BY DEF Timeout, installation
<1>3. "timeout" \in Answers \ {"none", "lost"}
    BY DEF Answers
<1>4. /\ call'[r] \in {call[r], "idle"}
      /\ \A q \in Requests \ {r} : call'[q] = call[q]
    BY <1>1 DEF Timeout, TypeOK
<1>5. Promise!IPNext
    BY <1>1, <1>2, <1>3, TellRefines
<1> QED BY <1>1, <1>2, <1>3, <1>4, <1>5, EndKeeps

LEMMA ServePromise ==
    ASSUME PromiseInv, NEW r \in Requests, Serve(r)
    PROVE  PromiseInv' /\ [Promise!IPNext]_(Promise!ipVars)
<1> DEFINE s    == ServiceOf(r)
           seen == receipts[s][ReceiptKey(r)]
           new  == Payload(r, s)
<1>1. /\ TypeOK /\ RowsAreWhole /\ Placed(r) /\ call[r] = "sent" /\ AllFetched(r)
      /\ ImportInv' /\ AppliesOnce
    BY ServeStep DEF PromiseInv, ImportInv, FetchesDone, Serve
<1>2. UNCHANGED <<bank, req, rows, receipts, batches, seeded, early>>
    BY DEF Serve, installation
<1>3. RowsAreWhole'
    BY <1>1, <1>2 DEF RowsAreWhole
<1>4. UNCHANGED Promise!ipVars
    BY <1>2, StepStutters
<1>5. CASE seen # None
    <2>1. PICK outcome \in {"ok", "reused"} :
              /\ Reply(r, outcome) /\ UNCHANGED ending
              /\ outcome = "reused" => seen # new
        BY <1>5 DEF Serve, SameContent
    <2>2. /\ call'[r] \in {outcome, "idle"}
          /\ \A q \in Requests \ {r} : call'[q] = call[q]
        BY <1>1, <2>1, ReplyEffect DEF Outcomes
    <2>3. RefusalHolds(r)'
        BY <1>2, <1>5, <2>1, <2>2 DEF RefusalHolds, ServiceOf, ReceiptKey, Payload
    <2> QED BY <1>1, <1>2, <1>3, <1>4, <2>1, <2>2, <2>3, CallKeeps
<1>6. CASE Reply(r, "ok") /\ ending' = ending \cup {[service |-> s, key |-> ReceiptKey(r), new |-> new]}
    <2>1. /\ call'[r] \in {"ok", "idle"}
          /\ \A q \in Requests \ {r} : call'[q] = call[q]
        BY <1>1, <1>6, ReplyEffect DEF Outcomes
    <2>2. RefusalHolds(r)'
        BY <2>1 DEF RefusalHolds
    <2>3. EndingIsPosted'
        <3>1. \A q \in Requests : Kept(q)
            BY <1>2 DEF Kept
        <3>2. req[r].pc \notin {"new", "fetching"} /\ s \in PostedTo[req[r].kind]
            BY <1>1, CallPlace, RequestFields, PostedToType DEF ServiceOf
        <3>3. ReceiptKey(r)' = ReceiptKey(r) /\ AllFetched(r)'
            BY <1>1, <1>2 DEF ReceiptKey, AllFetched, Fetched
        <3>4. ASSUME NEW e \in ending' \ ending
              PROVE  /\ req'[r].pc \notin {"new", "fetching"} /\ AllFetched(r)'
                     /\ e.service \in PostedTo[req'[r].kind]
                     /\ e.key = ReceiptKey(r)' /\ e.new = Payload(r, e.service)'
            <4>1. e.service = s /\ e.key = ReceiptKey(r) /\ e.new = Payload(r, e.service)
                BY <1>6, <3>4
            <4>2. Payload(r, e.service)' = Payload(r, e.service)
                BY <1>2 DEF Payload
            <4> QED BY <1>2, <3>2, <3>3, <4>1, <4>2
        <3> QED BY <3>1, <3>4, EndingStaysPosted DEF EndingIsPosted
    <2> QED BY <1>1, <1>2, <1>3, <1>4, <2>1, <2>2, <2>3, CallKeeps
<1>7. CASE call' = [call EXCEPT ![r] = "writing"] /\ UNCHANGED ending
    <2>1. /\ call'[r] = "writing"
          /\ \A q \in Requests \ {r} : call'[q] = call[q]
        BY <1>1, <1>7 DEF TypeOK
    <2>2. RefusalHolds(r)'
        BY <2>1 DEF RefusalHolds
    <2> QED BY <1>1, <1>2, <1>3, <1>4, <1>7, <2>1, <2>2, CallKeeps
<1> QED BY <1>5, <1>6, <1>7 DEF Serve

LEMMA WritePromise ==
    ASSUME PromiseInv, NEW r \in Requests, Write(r)
    PROVE  PromiseInv' /\ [Promise!IPNext]_(Promise!ipVars)
<1> DEFINE s   == ServiceOf(r)
           k   == ReceiptKey(r)
           new == Payload(r, s)
<1>1. /\ TypeOK /\ RowsAreWhole /\ Placed(r) /\ call[r] = "writing" /\ AllFetched(r)
      /\ ImportInv' /\ AppliesOnce
    BY WriteStep DEF PromiseInv, ImportInv, FetchesDone, Write
<1>2. UNCHANGED <<bank, req, batches, ending, seeded, early>>
    BY DEF Write, installation
<1>3. s \in PostedTo[req[r].kind]
    BY <1>1, CallPlace, RequestFields, PostedToType DEF ServiceOf
<1>4. ASSUME NEW outcome \in {"ok", "failed"}, Reply(r, outcome), RowsAreWhole'
      PROVE  PromiseInv'
    <2>1. /\ call'[r] \in {outcome, "idle"}
          /\ \A q \in Requests \ {r} : call'[q] = call[q]
        BY <1>1, <1>4, ReplyEffect DEF Outcomes
    <2>2. RefusalHolds(r)'
        BY <2>1 DEF RefusalHolds
    <2> QED BY <1>1, <1>2, <1>4, <2>1, <2>2, CallKeeps
<1>5. CASE /\ receipts[s][k] = None
           /\ rows' = Store(s, new.data)
           /\ receipts' = [receipts EXCEPT ![s][k] = new]
           /\ Reply(r, "ok")
    <2>1. Promise!IPNext /\ RowsAreWhole'
        BY <1>1, <1>2, <1>3, <1>5, TakeRefines
    <2> QED BY <1>4, <1>5, <2>1
<1>6. CASE Reply(r, "failed") /\ UNCHANGED <<rows, receipts>>
    <2>1. RowsAreWhole'
        BY <1>1, <1>6 DEF RowsAreWhole
    <2>2. UNCHANGED Promise!ipVars
        BY <1>2, <1>6, StepStutters
    <2> QED BY <1>4, <1>6, <2>1, <2>2
<1> QED BY <1>5, <1>6 DEF Write

LEMMA EndLatePromise ==
    ASSUME PromiseInv, NEW e \in ending, EndLate(e)
    PROVE  PromiseInv' /\ [Promise!IPNext]_(Promise!ipVars)
<1>1. TypeOK /\ RowsAreWhole /\ ImportInv' /\ AppliesOnce
    BY EndLateStep DEF PromiseInv, ImportInv
<1>2. UNCHANGED <<bank, req, call, batches, seeded, early>> /\ ending' \subseteq ending
    BY DEF EndLate, installation
<1>3. PICK r \in Requests :
        /\ req[r].pc \notin {"new", "fetching"} /\ AllFetched(r)
        /\ e.service \in PostedTo[req[r].kind]
        /\ e.key = ReceiptKey(r) /\ e.new = Payload(r, e.service)
    BY DEF PromiseInv, EndingIsPosted
<1>4. CASE /\ receipts[e.service][e.key] = None
           /\ rows' = Store(e.service, e.new.data)
           /\ receipts' = [receipts EXCEPT ![e.service][e.key] = e.new]
    <2>1. Promise!IPNext /\ RowsAreWhole'
        BY <1>1, <1>2, <1>3, <1>4, TakeRefines
    <2> QED BY <1>1, <1>2, <2>1, NoRequestKeeps
<1>5. CASE UNCHANGED <<rows, receipts>>
    <2>1. RowsAreWhole'
        BY <1>1, <1>5 DEF RowsAreWhole
    <2>2. UNCHANGED Promise!ipVars
        BY <1>2, <1>5, StepStutters
    <2> QED BY <1>1, <1>2, <2>1, <2>2, NoRequestKeeps
<1> QED BY <1>4, <1>5 DEF EndLate

LEMMA LoseLatePromise ==
    ASSUME PromiseInv, NEW e \in ending, LoseLate(e)
    PROVE  PromiseInv' /\ [Promise!IPNext]_(Promise!ipVars)
<1>1. RowsAreWhole /\ ImportInv' /\ AppliesOnce
    BY LoseLateStep DEF PromiseInv, ImportInv
<1>2. UNCHANGED <<bank, req, call, rows, receipts, batches, seeded, early>> /\ ending' \subseteq ending
    BY DEF LoseLate, installation
<1>3. RowsAreWhole'
    BY <1>1, <1>2 DEF RowsAreWhole
<1> QED BY <1>1, <1>2, <1>3, NoRequestKeeps, StepStutters

LEMMA TokenExpiresPromise ==
    ASSUME PromiseInv, TokenExpires
    PROVE  PromiseInv' /\ [Promise!IPNext]_(Promise!ipVars)
<1>1. RowsAreWhole /\ ImportInv' /\ AppliesOnce
    BY TokenExpiresStep DEF PromiseInv, ImportInv
<1>2. UNCHANGED <<bank, req, call, rows, receipts, batches, ending, seeded, early>>
    BY DEF TokenExpires, installation
<1>3. RowsAreWhole'
    BY <1>1, <1>2 DEF RowsAreWhole
<1> QED BY <1>1, <1>2, <1>3, NoRequestKeeps, StepStutters

LEMMA BankChangesPromise ==
    ASSUME PromiseInv, BankChanges
    PROVE  PromiseInv' /\ [Promise!IPNext]_(Promise!ipVars)
<1>1. RowsAreWhole /\ ImportInv' /\ AppliesOnce
    BY BankChangesStep DEF PromiseInv, ImportInv
<1>2. UNCHANGED <<req, call, rows, receipts, batches, ending, seeded, early>>
    BY DEF BankChanges, installation
<1>3. RowsAreWhole'
    BY <1>1, <1>2 DEF RowsAreWhole
<1>4. PromiseInv'
    BY <1>1, <1>2, <1>3, NoRequestKeeps
<1>5. UNCHANGED <<WantedBar, ReadBar, ToldBar, HeldBar>>
    BY <1>2, BarsStay
<1>6. Promise!WorldMoves
    BY <1>2, <1>5 DEF BankChanges, Promise!WorldMoves
<1> QED BY <1>4, <1>6 DEF Promise!IPNext

LEMMA ProceedPromise ==
    ASSUME PromiseInv, NEW r \in Requests, Proceed(r)
    PROVE  PromiseInv' /\ [Promise!IPNext]_(Promise!ipVars)
<1> DEFINE first == FirstPost(req[r].kind)
           last  == LastPost(req[r].kind)
<1>1. /\ TypeOK /\ RowsAreWhole /\ Placed(r) /\ AllFetched(r)
      /\ req[r].pc = "posting" /\ req[r].answer = "none" /\ call[r] = "ok"
      /\ ImportInv' /\ AppliesOnce
    BY ProceedStep DEF PromiseInv, ImportInv, FetchesDone, Proceed, Placed
<1>2. UNCHANGED <<bank, rows, receipts, batches, ending, seeded, early>>
    BY DEF Proceed, installation
<1>3. /\ call'[r] = "idle"
      /\ \A q \in Requests \ {r} : call'[q] = call[q]
    BY <1>1 DEF Proceed, TypeOK
<1>4. first \in 1 .. 4 /\ last \in 1 .. 4 /\ req[r].at \in first .. last
    BY <1>1, RequestFields, Bounds DEF Placed
<1>5. ASSUME NEW row \in RequestRows, req' = [req EXCEPT ![r] = row],
             row.kind = req[r].kind, row.key = req[r].key, row.body = req[r].body,
             row.got = req[r].got, row.answer = "none", row.pc \in {"posting", "recording"}
      PROVE  PromiseInv' /\ UNCHANGED Promise!ipVars
    <2>1. /\ req'[r] = row
          /\ \A q \in Requests \ {r} : req'[q] = req[q]
        BY <1>1, <1>5, RowChange
    <2>2. Kept(r) /\ RefusalHolds(r)' /\ RowsAreWhole'
        BY <1>1, <1>2, <1>3, <1>5, <2>1 DEF Kept, RefusalHolds, RowsAreWhole
    <2>3. FetchesDone(r)'
        BY <1>1, <1>5, <2>1 DEF FetchesDone, AllFetched, Fetched
    <2>4. UNCHANGED Promise!ipVars
        BY <1>1, <1>2, <1>5, <2>1, StepStutters
    <2> QED BY <1>1, <1>2, <1>3, <2>1, <2>2, <2>3, <2>4, OneRequestKeeps
<1>6. CASE req[r].at < last
    <2> DEFINE row == [req[r] EXCEPT !.at = req[r].at + 1]
    <2>1. /\ row \in RequestRows
          /\ row.kind = req[r].kind /\ row.key = req[r].key /\ row.body = req[r].body
          /\ row.got = req[r].got /\ row.answer = "none" /\ row.pc = "posting"
        BY <1>1, <1>4, <1>6, RequestFields DEF RequestRows
    <2>2. req' = [req EXCEPT ![r] = row]
        BY <1>6 DEF Proceed
    <2> HIDE DEF row
    <2> QED BY <1>5, <2>1, <2>2
<1>7. CASE req' = [req EXCEPT ![r].pc = "recording"]
    <2> DEFINE row == [req[r] EXCEPT !.pc = "recording"]
    <2>1. /\ row \in RequestRows
          /\ row.kind = req[r].kind /\ row.key = req[r].key /\ row.body = req[r].body
          /\ row.got = req[r].got /\ row.answer = "none" /\ row.pc = "recording"
        BY <1>1, RequestFields DEF RequestRows
    <2>2. req' = [req EXCEPT ![r] = row]
        BY <1>7
    <2> HIDE DEF row
    <2> QED BY <1>5, <2>1, <2>2
<1>8. CASE req[r].at = last /\ End(r, "accepted")
    <2>1. "accepted" \in Answers \ {"none", "lost"}
        BY DEF Answers
    <2>2. early \/ Promise!Imported(r)
        <3> SUFFICES ASSUME ~early
                     PROVE  Promise!Imported(r)
            OBVIOUS
        <3>1. \A i \in first .. last : Acknowledged(r, i)
            BY <1>1, <1>4, <1>8 DEF Acknowledged
        <3>2. \A i \in first .. last : receipts[PostOrder[i]][ReceiptKey(r)] = Payload(r, PostOrder[i])
            BY <3>1 DEF PromiseInv, ImportInv, Stored
        <3> QED BY <1>1, <3>2, ImportedIs
    <2>3. Promise!IPNext
        BY <1>1, <1>2, <1>8, <2>1, <2>2, TellRefines
    <2> QED BY <1>1, <1>2, <1>3, <1>8, <2>1, <2>3, EndKeeps
<1> QED BY <1>4, <1>6, <1>7, <1>8 DEF Proceed

LEMMA RecordPromise ==
    ASSUME PromiseInv, NEW r \in Requests, Record(r)
    PROVE  PromiseInv' /\ [Promise!IPNext]_(Promise!ipVars)
<1>1. /\ TypeOK /\ Placed(r) /\ req[r].pc = "recording" /\ req[r].answer = "none"
      /\ req[r].kind = "all" /\ call[r] = "idle" /\ ImportInv'
    BY RecordStep DEF PromiseInv, ImportInv, Record, Placed
<1>2. UNCHANGED <<bank, call, rows, receipts, ending, seeded, early>>
    BY DEF Record, installation
<1>3. PICK a \in {"accepted", "unrecorded"} :
        /\ End(r, a)
        /\ \/ UNCHANGED batches
           \/ a = "accepted"
              /\ batches' = [batches EXCEPT ![req[r].key] = [body |-> req[r].body, corr |-> r]]
    BY DEF Record
<1>4. a \in Answers \ {"none", "lost"} /\ a \in Answers /\ a \notin {"replayed", "reused"}
    BY DEF Answers
<1>5. early \/ Promise!Imported(r)
    <2> SUFFICES ASSUME ~early
                 PROVE  Promise!Imported(r)
        OBVIOUS
    <2>1. \A i \in FirstPost(req[r].kind) .. LastPost(req[r].kind) :
              receipts[PostOrder[i]][ReceiptKey(r)] = Payload(r, PostOrder[i])
        BY <1>1 DEF PromiseInv, ImportInv, Stored, Acknowledged, PastItsImports
    <2> QED BY <1>1, <2>1, ImportedIs
<1>6. Promise!IPNext
    BY <1>1, <1>2, <1>3, <1>4, <1>5, TellRefines
<1>7. /\ req'[r].pc = "ended" /\ req'[r].answer = a
      /\ req'[r].kind = req[r].kind /\ req'[r].key = req[r].key
      /\ req'[r].body = req[r].body /\ req'[r].got = req[r].got
      /\ \A q \in Requests \ {r} : req'[q] = req[q]
    BY <1>1, <1>3, <1>4, EndEffect
<1>8. BatchesAreAccepted' \/ UNCHANGED batches
    <2> SUFFICES ASSUME a = "accepted",
                        batches' = [batches EXCEPT ![req[r].key] = [body |-> req[r].body, corr |-> r]],
                        NEW k \in Keys, batches'[k] # None
                 PROVE  LET q == batches'[k].corr IN
                        req'[q].kind = "all" /\ req'[q].key = k /\ req'[q].body = batches'[k].body
                            /\ req'[q].answer = "accepted"
        BY <1>3 DEF BatchesAreAccepted
    <2>1. \A q \in Requests : Kept(q)
        BY <1>1, <1>7 DEF Kept
    <2>2. CASE k = req[r].key
        <3>1. batches'[k].corr = r /\ batches'[k].body = req[r].body
            BY <1>1, <2>2 DEF TypeOK
        <3> QED BY <1>1, <1>7, <2>2, <3>1
    <2>3. CASE k # req[r].key
        <3>1. batches'[k] = batches[k]
            BY <1>1, <2>3 DEF TypeOK
        <3> QED BY <2>1, <3>1, BatchesStayAccepted
    <2> QED BY <2>2, <2>3
<1> QED BY <1>1, <1>2, <1>3, <1>4, <1>6, <1>8, EndKeeps

LEMMA RestartPromise ==
    ASSUME PromiseInv, Restart
    PROVE  PromiseInv' /\ [Promise!IPNext]_(Promise!ipVars)
<1>1. TypeOK /\ RowsAreWhole /\ ImportInv' /\ AppliesOnce
    BY RestartStep DEF PromiseInv, ImportInv
<1>2. UNCHANGED <<bank, rows, receipts, batches, ending, seeded, early>>
    BY DEF Restart, installation
<1>3. ASSUME NEW q \in Requests
      PROVE  /\ req'[q].kind = req[q].kind /\ req'[q].key = req[q].key
             /\ req'[q].body = req[q].body /\ req'[q].got = req[q].got
             /\ req'[q].at = req[q].at
             /\ q \in Running => req'[q].pc = "ended" /\ req'[q].answer = "lost" /\ req[q].answer = "none"
             /\ q \notin Running => req'[q].pc = req[q].pc /\ req'[q].answer = req[q].answer
    <2>1. CASE q \in Running
        <3>1. req'[q] = [req[q] EXCEPT !.pc = "ended", !.answer = "lost"]
            BY <2>1 DEF Restart
        <3>2. req[q] \in RequestRows
            BY <1>1, RequestFields
        <3>3. req[q].answer = "none"
            BY <2>1 DEF Running, PromiseInv, ImportInv, Placed
        <3> QED BY <2>1, <3>1, <3>2, <3>3 DEF RequestRows
    <2>2. CASE q \notin Running
        BY <2>2 DEF Restart
    <2> QED BY <2>1, <2>2
<1>4. \A q \in Requests : call'[q] # "idle" => call[q] = call'[q] /\ call[q] \in {"sent", "writing"}
    BY DEF Restart
<1>5. ASSUME NEW q \in Requests
      PROVE  Kept(q) /\ FetchesDone(q)' /\ RefusalHolds(q)'
    <2>1. Kept(q)
        BY <1>3 DEF Kept
    <2>2. RefusalHolds(q)'
        BY <1>4 DEF RefusalHolds
    <2>3. FetchesDone(q)'
        <3>1. FetchesDone(q)
            BY DEF PromiseInv
        <3>2. AllFetched(q) => AllFetched(q)'
            BY <1>3 DEF AllFetched, Fetched
        <3>3. req'[q].pc \notin {"fetching", "posting", "recording"}
            BY <1>3 DEF Running
        <3> QED BY <1>4, <3>1, <3>2, <3>3 DEF FetchesDone
    <2> QED BY <2>1, <2>2, <2>3
<1>6. PromiseInv'
    <2>1. EndingIsPosted'
        BY <1>2, <1>5, EndingStaysPosted DEF EndingIsPosted
    <2>2. BatchesAreAccepted'
        BY <1>2, <1>5, BatchesStayAccepted DEF BatchesAreAccepted
    <2>3. RowsAreWhole'
        BY <1>1, <1>2 DEF RowsAreWhole
    <2> QED BY <1>1, <1>5, <2>1, <2>2, <2>3 DEF PromiseInv
<1>7. UNCHANGED <<WantedBar, ReadBar, HeldBar>>
    BY <1>2, <1>3, BarsStay
<1>8. /\ ToldBar' = [r \in Requests |-> IF r \in Running THEN "lost" ELSE ToldBar[r]]
      /\ \A r \in Running : ToldBar[r] = "none"
    BY <1>3 DEF ToldBar, Running
<1>9. Running \in SUBSET Requests
    BY DEF Running
<1>10. Promise!Abandon(Running)
    BY <1>2, <1>7, <1>8 DEF Promise!Abandon
<1> QED BY <1>6, <1>9, <1>10 DEF Promise!IPNext

LEMMA InitPromise == Init => PromiseInv /\ Promise!IPInit
<1> SUFFICES ASSUME Init
             PROVE  PromiseInv /\ Promise!IPInit
    OBVIOUS
<1>1. ImportInv
    BY InitImportInv
<1>2. \A r \in Requests : /\ req[r].pc = "new" /\ call[r] = "idle" /\ req[r].answer = "none"
                          /\ req[r].kind \in Kinds /\ req[r].key \in Keys /\ req[r].body \in Bodies
                          /\ req[r].got = [s \in Sources |-> 0]
    BY DEF Init
<1>3. PromiseInv
    BY <1>1, <1>2 DEF Init, PromiseInv, RowsAreWhole, FetchesDone, RefusalHolds, EndingIsPosted,
                      BatchesAreAccepted
<1>4. WantedBar \in [Requests -> [way : Kinds, key : Keys, text : Bodies]]
    BY <1>2 DEF WantedBar
<1>5. /\ ReadBar = [r \in Requests |-> [s \in Sources |-> 0]]
      /\ ToldBar = [r \in Requests |-> "none"]
    BY <1>2 DEF ReadBar, ToldBar
<1>6. HeldBar = [s \in Services |-> {}]
    <2>1. \A s \in Services : {j \in ReceiptKeys : receipts[s][j] # None} = {}
        BY DEF Init
    <2> QED BY <2>1 DEF HeldBar
<1> QED BY <1>3, <1>4, <1>5, <1>6 DEF Init, Promise!IPInit

LEMMA PromiseStep == PromiseInv /\ [Next]_vars => PromiseInv' /\ [Promise!IPNext]_(Promise!ipVars)
<1> SUFFICES ASSUME PromiseInv, [Next]_vars
             PROVE  PromiseInv' /\ [Promise!IPNext]_(Promise!ipVars)
    OBVIOUS
<1>1. ASSUME NEW r \in Requests, RequestStep(r)
      PROVE  PromiseInv' /\ [Promise!IPNext]_(Promise!ipVars)
    BY <1>1, BeginPromise, FetchPromise, FetchFailsPromise, PostPromise, ProceedPromise,
       GiveUpPromise, TimeoutPromise, RecordPromise DEF RequestStep
<1>2. ASSUME NEW r \in Requests, CallStep(r)
      PROVE  PromiseInv' /\ [Promise!IPNext]_(Promise!ipVars)
    BY <1>2, ServePromise, WritePromise, CallFailsPromise DEF CallStep
<1>3. ASSUME NEW e \in ending, EndLate(e) \/ LoseLate(e)
      PROVE  PromiseInv' /\ [Promise!IPNext]_(Promise!ipVars)
    BY <1>3, EndLatePromise, LoseLatePromise
<1>4. CASE UNCHANGED vars
    <2>1. UNCHANGED <<bank, req, call, rows, receipts, batches, token, ending, seeded, early>>
        BY <1>4 DEF vars
    <2>2. RowsAreWhole'
        BY <2>1 DEF PromiseInv, RowsAreWhole
    <2>3. ImportInv' /\ AppliesOnce
        BY ImportStep DEF PromiseInv
    <2> QED BY <2>1, <2>2, <2>3, NoRequestKeeps, StepStutters
<1> QED BY <1>1, <1>2, <1>3, <1>4, BankChangesPromise, TokenExpiresPromise, RestartPromise DEF Next

(* Imports that time out, are refused, sent again or end after they have   *)
(* answered keep the promise of ImportPromise: a store takes rows and      *)
(* receipt of one import together, and once per key, and no client hears   *)
(* of an acceptance, a replay or a conflict that is not there.             *)
THEOREM ImportsKeepTheirPromise == Spec => ImplementsImportPromise
<1>1. PromiseInv /\ [Next]_vars => PromiseInv' /\ [Promise!IPNext]_(Promise!ipVars)
    BY PromiseStep
<1>2. Init => PromiseInv /\ Promise!IPInit
    BY InitPromise
<1> QED BY <1>1, <1>2, PTL DEF Spec, ImplementsImportPromise, Promise!IPSpec
=============================================================================
