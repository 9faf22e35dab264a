--------------------------- MODULE ImportPipeline ---------------------------
(***************************************************************************)
(* The import of bank data (backend/src/boa_oi/banking_integration_api.py) *)
(* over the services that keep it: five fetches from the bank, then one    *)
(* POST to each of customer, account, transaction and product service,     *)
(* each idempotent by a receipt, and at the end the row of the batch.      *)
(*                                                                         *)
(* A call that timed out goes on in the service; a request can be sent     *)
(* again with its key, at any time, also while the first still runs.  The  *)
(* data of a source are one row with the version the bank gave it: the     *)
(* columns an import only inserts and those it updates have each their     *)
(* version.  get_session commits before the answer or after it, as the     *)
(* version of FastAPI has it (pyproject.toml leaves it open: the order     *)
(* changed in 0.118).                                                      *)
(***************************************************************************)
EXTENDS Naturals, Sequences, FiniteSets

CONSTANTS
    Requests,       \* POSTs a client sends, retries included
    Keys,           \* values of Idempotency-Key
    Bodies,         \* values of ImportRequest
    TextLength,     \* length of a body as JSON
    None,
    Volatile,       \* bound: the sources of the bank that change
    MaxVersion      \* bound: versions of the bank's data

ASSUME TextAssumption == TextLength \in [Bodies -> Nat]
ASSUME VersionAssumption == MaxVersion \in Nat \ {0}

VARIABLES
    bank,           \* the version of each source at the bank
    req,            \* the requests of this process of banking-integration-service
    call,           \* the POST a request has sent, as its service sees it
    rows,           \* the row of each source, in the tables of the services
    receipts,       \* import_receipts of each service, by key and kind of import
    batches,        \* integration.import_batches
    token,          \* ServiceTokenProvider._token
    seeded,         \* relationship managers come from the seed
    early,          \* the answer is sent before the session ends
    ending          \* the sessions of services that have sent their answer

vars == <<bank, req, call, rows, receipts, batches, token, seeded, early, ending>>
installation == <<seeded, early>>
-----------------------------------------------------------------------------
(* The two orders of import_all; import_transactions takes one of each.    *)
FetchOrder == <<"customers", "accounts", "balances", "transactions", "products">>
PostOrder  == <<"customer", "account", "transaction", "product">>
Sources  == {FetchOrder[i] : i \in 1 .. 5}
Services == {PostOrder[i] : i \in 1 .. 4}
Kinds    == {"all", "transactions"}

SourcesOf == [customer    |-> {"customers"},
              account     |-> {"accounts", "balances"},
              transaction |-> {"transactions"},
              product     |-> {"products"}]

FirstFetch(kind) == IF kind = "all" THEN 1 ELSE 4
LastFetch(kind)  == IF kind = "all" THEN 5 ELSE 4
FirstPost(kind)  == IF kind = "all" THEN 1 ELSE 3
LastPost(kind)   == IF kind = "all" THEN 4 ELSE 3

Versions == 0 .. MaxVersion         \* 0: not read, or no row
HashColumn == 64                    \* input_hash of import_batches

(* A receipt's key is the request's key, with a suffix per service for all.*)
ReceiptKeys == Keys \X Kinds
Payloads == [body : Bodies, data : UNION {[SourcesOf[s] -> Versions] : s \in Services}]
Rows     == [fixed : Versions, current : Versions]
Batches  == [body : Bodies, corr : Requests]
Answers  == {"none", "accepted", "replayed", "reused", "unrecorded", "unavailable",
             "timeout", "unauthorized", "lost"}
Outcomes == {"idle", "sent", "writing", "ok", "reused", "unauthorized", "failed"}

RequestRows == [pc : {"new", "fetching", "posting", "recording", "ended"},
                kind : Kinds, key : Keys, body : Bodies, at : 1 .. 5,
                got : [Sources -> Versions], answer : Answers]

\* No row is not a row.
ASSUME NoneAssumption == None \notin Payloads \cup Batches

TypeOK ==
    /\ bank \in [Sources -> 1 .. MaxVersion]
    /\ req \in [Requests -> RequestRows]
    /\ call \in [Requests -> Outcomes]
    /\ rows \in [Sources -> Rows]
    /\ receipts \in [Services -> [ReceiptKeys -> Payloads \cup {None}]]
    /\ batches \in [Keys -> Batches \cup {None}]
    /\ token \in {"none", "valid", "expired"}
    /\ seeded \in BOOLEAN
    /\ early \in BOOLEAN
    /\ ending \subseteq [service : Services, key : ReceiptKeys, new : Payloads]

Init ==
    /\ bank = [s \in Sources |-> 1]
    /\ req \in [Requests -> [pc : {"new"}, kind : Kinds, key : Keys, body : Bodies,
                             at : {1}, got : {[s \in Sources |-> 0]}, answer : {"none"}]]
    /\ call = [r \in Requests |-> "idle"]
    /\ rows = [s \in Sources |-> [fixed |-> 0, current |-> 0]]
    /\ receipts = [s \in Services |-> [k \in ReceiptKeys |-> None]]
    /\ batches = [k \in Keys |-> None]
    /\ token = "none"
    /\ seeded \in BOOLEAN
    /\ early \in BOOLEAN
    /\ ending = {}
-----------------------------------------------------------------------------
ServiceOf(r)  == PostOrder[req[r].at]
ReceiptKey(r) == <<req[r].key, req[r].kind>>

(* The content whose hash a receipt keeps: customerCount and the dates     *)
(* shape what is fetched, so bodies that differ give contents that differ. *)
Payload(r, s) == [body |-> req[r].body, data |-> [src \in SourcesOf[s] |-> req[r].got[src]]]

End(r, answer) == req' = [req EXCEPT ![r].pc = "ended", ![r].answer = answer]
-----------------------------------------------------------------------------
(* How a service writes a row: insert it, and on a conflict update some of *)
(* its columns, or nothing.                                                *)
Upsert(row, v)    == IF row.fixed = 0 THEN [fixed |-> v, current |-> v] ELSE [row EXCEPT !.current = v]
Overwrite(row, v) == [fixed |-> v, current |-> v]
KeepFirst(row, v) == IF row.fixed = 0 THEN [fixed |-> v, current |-> v] ELSE row

StoreCustomers(data) == [rows EXCEPT !["customers"] = Upsert(@, data["customers"])]
StoreAccounts(data) ==
    [rows EXCEPT !["accounts"] = Upsert(@, data["accounts"]),
                 !["balances"] = Overwrite(@, data["balances"])]
StoreTransactions(data) == [rows EXCEPT !["transactions"] = KeepFirst(@, data["transactions"])]
StoreProducts(data) == [rows EXCEPT !["products"] = Upsert(@, data["products"])]

Store(s, data) ==
    CASE s = "customer"    -> StoreCustomers(data)
      [] s = "account"     -> StoreAccounts(data)
      [] s = "transaction" -> StoreTransactions(data)
      [] s = "product"     -> StoreProducts(data)

(* The row of a manager the seed made has another id than the one          *)
(* import_customers derives and refers to: the foreign key refuses it.     *)
ForeignKeysHold(s) == s = "customer" => ~seeded
-----------------------------------------------------------------------------
(* A request begins: the batch of its key, if there is one, is its answer. *)
Begin(r) ==
    /\ req[r].pc = "new"
    /\ LET done == batches[req[r].key] IN
       IF req[r].kind = "all" /\ done # None
       THEN End(r, IF done.body = req[r].body THEN "replayed" ELSE "reused")
       ELSE req' = [req EXCEPT ![r].pc = "fetching", ![r].at = FirstFetch(req[r].kind)]
    /\ UNCHANGED <<bank, call, rows, receipts, batches, token, ending, installation>>

\* Fault: the last fetch does not end the fetches.
FetchOn(r) ==
    /\ req[r].pc = "fetching"
    /\ LET i == req[r].at IN
       req' = [req EXCEPT ![r].got[FetchOrder[i]] = bank[FetchOrder[i]], ![r].at = i + 1]
    /\ token' = IF token = "none" THEN "valid" ELSE token
    /\ UNCHANGED <<bank, call, rows, receipts, batches, ending, installation>>

(* A fetch gives what the bank holds now.  The first request of the        *)
(* process obtains a token, which no fetch shows to the mock bank.         *)
Fetch(r) ==
    /\ req[r].pc = "fetching"
    /\ LET i   == req[r].at
           src == FetchOrder[i]
           all == i = LastFetch(req[r].kind)
       IN  req' = [req EXCEPT ![r].got[src] = bank[src],
                              ![r].pc = IF all THEN "posting" ELSE "fetching",
                              ![r].at = IF all THEN FirstPost(req[r].kind) ELSE i + 1]
    /\ token' = IF token = "none" THEN "valid" ELSE token
    /\ UNCHANGED <<bank, call, rows, receipts, batches, ending, installation>>

FetchFails(r) ==
    /\ req[r].pc = "fetching"
    /\ \E a \in {"unavailable", "timeout"} : End(r, a)
    /\ UNCHANGED <<bank, call, rows, receipts, batches, token, ending, installation>>

Post(r) ==
    /\ req[r].pc = "posting"
    /\ call[r] = "idle"
    /\ call' = [call EXCEPT ![r] = IF token = "expired" THEN "unauthorized" ELSE "sent"]
    /\ UNCHANGED <<bank, req, rows, receipts, batches, token, ending, installation>>

(* Nobody reads the answer of a call whose request has ended. *)
Reply(r, outcome) ==
    call' = [call EXCEPT ![r] = IF req[r].pc = "posting" THEN outcome ELSE "idle"]

\* Fault: the stored receipt is the answer whatever the content.
AnyContent(seen, new) == TRUE

SameContent(seen, new) == seen = new

(* The service looks for the receipt of the key, and without one writes    *)
(* its rows; the receipt follows with the end of the session.              *)
Serve(r) ==
    LET s    == ServiceOf(r)
        seen == receipts[s][ReceiptKey(r)]
        new  == Payload(r, s)
    IN
    /\ call[r] = "sent"
    /\ IF seen # None
       THEN Reply(r, IF SameContent(seen, new) THEN "ok" ELSE "reused") /\ UNCHANGED ending
       ELSE IF early /\ ForeignKeysHold(s)
            THEN /\ Reply(r, "ok")
                 /\ ending' = ending \cup {[service |-> s, key |-> ReceiptKey(r), new |-> new]}
            ELSE call' = [call EXCEPT ![r] = "writing"] /\ UNCHANGED ending
    /\ UNCHANGED <<bank, req, rows, receipts, batches, token, installation>>

\* Fault: the receipt has a transaction of its own.
WriteApart(r) ==
    LET s == ServiceOf(r)
        new == Payload(r, s)
    IN
    /\ call[r] = "writing"
    /\ IF receipts[s][ReceiptKey(r)] = None
       THEN /\ rows' = IF ForeignKeysHold(s) THEN Store(s, new.data) ELSE rows
            /\ receipts' = [receipts EXCEPT ![s][ReceiptKey(r)] = new]
            /\ Reply(r, IF ForeignKeysHold(s) THEN "ok" ELSE "failed")
       ELSE Reply(r, "failed") /\ UNCHANGED <<rows, receipts>>
    /\ UNCHANGED <<bank, req, batches, token, ending, installation>>

(* The end of its transaction: rows and receipt together, or neither when  *)
(* a key is violated.                                                      *)
Write(r) ==
    LET s == ServiceOf(r)
        new == Payload(r, s)
    IN
    /\ call[r] = "writing"
    /\ IF receipts[s][ReceiptKey(r)] = None /\ ForeignKeysHold(s)
       THEN /\ rows' = Store(s, new.data)
            /\ receipts' = [receipts EXCEPT ![s][ReceiptKey(r)] = new]
            /\ Reply(r, "ok")
       ELSE Reply(r, "failed") /\ UNCHANGED <<rows, receipts>>
    /\ UNCHANGED <<bank, req, batches, token, ending, installation>>

(* The end of a session whose answer is sent. *)
EndLate(e) ==
    /\ e \in ending
    /\ ending' = ending \ {e}
    /\ IF receipts[e.service][e.key] = None
       THEN /\ rows' = Store(e.service, e.new.data)
            /\ receipts' = [receipts EXCEPT ![e.service][e.key] = e.new]
       ELSE UNCHANGED <<rows, receipts>>
    /\ UNCHANGED <<bank, req, call, batches, token, installation>>

(* Its service stops before. *)
LoseLate(e) ==
    /\ e \in ending
    /\ ending' = ending \ {e}
    /\ UNCHANGED <<bank, req, call, rows, receipts, batches, token, installation>>

(* The call is lost on its way, or its service stops and rolls back. *)
CallFails(r) ==
    /\ call[r] \in {"sent", "writing"}
    /\ Reply(r, "failed")
    /\ UNCHANGED <<bank, req, rows, receipts, batches, token, ending, installation>>
-----------------------------------------------------------------------------
Proceed(r) ==
    /\ req[r].pc = "posting"
    /\ call[r] = "ok"
    /\ call' = [call EXCEPT ![r] = "idle"]
    /\ IF req[r].at < LastPost(req[r].kind)
       THEN req' = [req EXCEPT ![r].at = @ + 1]
       ELSE IF req[r].kind = "all"
            THEN req' = [req EXCEPT ![r].pc = "recording"]
            ELSE End(r, "accepted")
    /\ UNCHANGED <<bank, rows, receipts, batches, token, ending, installation>>

(* service_request passes 401 and 409 on, other errors are the dependency's.*)
GiveUp(r) ==
    /\ req[r].pc = "posting"
    /\ call[r] \in {"reused", "unauthorized", "failed"}
    /\ End(r, IF call[r] = "failed" THEN "unavailable" ELSE call[r])
    /\ call' = [call EXCEPT ![r] = "idle"]
    /\ UNCHANGED <<bank, rows, receipts, batches, token, ending, installation>>

\* Fault: a client without a timeout: only an answer ends the wait.
TimeoutUnbounded(r) ==
    /\ req[r].pc = "posting"
    /\ call[r] \in {"ok", "reused", "unauthorized", "failed"}
    /\ End(r, "timeout")
    /\ call' = [call EXCEPT ![r] = "idle"]
    /\ UNCHANGED <<bank, rows, receipts, batches, token, ending, installation>>

(* The call goes on where it is. *)
Timeout(r) ==
    /\ req[r].pc = "posting"
    /\ call[r] # "idle"
    /\ End(r, "timeout")
    /\ call' = [call EXCEPT ![r] = IF @ \in {"sent", "writing"} THEN @ ELSE "idle"]
    /\ UNCHANGED <<bank, rows, receipts, batches, token, ending, installation>>

(* The row of the batch: its input_hash is the JSON text of the body. *)
Fits(r) == TextLength[req[r].body] <= HashColumn

Record(r) ==
    /\ req[r].pc = "recording"
    /\ IF batches[req[r].key] = None /\ Fits(r)
       THEN /\ batches' = [batches EXCEPT ![req[r].key] = [body |-> req[r].body, corr |-> r]]
            /\ End(r, "accepted")
       ELSE End(r, IF early THEN "accepted" ELSE "unrecorded") /\ UNCHANGED batches
    /\ UNCHANGED <<bank, call, rows, receipts, token, ending, installation>>
-----------------------------------------------------------------------------
BankChanges ==
    /\ \E src \in Sources \cap Volatile : bank[src] < MaxVersion /\ bank' = [bank EXCEPT ![src] = @ + 1]
    /\ UNCHANGED <<req, call, rows, receipts, batches, token, ending, installation>>

TokenExpires ==
    /\ token = "valid"
    /\ token' = "expired"
    /\ UNCHANGED <<bank, req, call, rows, receipts, batches, ending, installation>>

(* banking-integration-service starts again: its requests are gone, the    *)
(* calls they sent are not.                                                *)
Running == {r \in Requests : req[r].pc \in {"fetching", "posting", "recording"}}

Restart ==
    /\ token' = "none"
    /\ req' = [r \in Requests |->
                  IF r \in Running THEN [req[r] EXCEPT !.pc = "ended", !.answer = "lost"] ELSE req[r]]
    /\ call' = [r \in Requests |-> IF call[r] \in {"sent", "writing"} THEN call[r] ELSE "idle"]
    /\ UNCHANGED <<bank, rows, receipts, batches, ending, installation>>

RequestStep(r) ==
    Begin(r) \/ Fetch(r) \/ FetchFails(r) \/ Post(r) \/ Proceed(r) \/ GiveUp(r) \/ Timeout(r) \/ Record(r)
CallStep(r) == Serve(r) \/ Write(r) \/ CallFails(r)

Next ==
    \/ \E r \in Requests : RequestStep(r) \/ CallStep(r)
    \/ \E e \in ending : EndLate(e) \/ LoseLate(e)
    \/ BankChanges
    \/ TokenExpires
    \/ Restart

(* A coroutine goes on, and httpx bounds the wait for each answer; nothing *)
(* is asked of the services, of the bank or of the clients.                *)
Fairness == \A r \in Requests : WF_vars(RequestStep(r) /\ req[r].pc # "new")

Spec == Init /\ [][Next]_vars /\ Fairness
-----------------------------------------------------------------------------
(* Properties. *)

PastItsImports(r) ==
    \/ req[r].pc = "recording"
    \/ req[r].answer = "unrecorded"
    \/ req[r].answer = "accepted"

(* A request whose imports were all accepted had exactly what it fetched   *)
(* accepted under its key by every service it posted to: a retry after a   *)
(* failure never passes with a mixture of two fetches.  Where the answer   *)
(* comes first, what is answered may still be refused or lost.             *)
AcceptedIsOneFetch ==
    \A r \in Requests : PastItsImports(r) /\ ~early =>
        \A i \in FirstPost(req[r].kind) .. LastPost(req[r].kind) :
            receipts[PostOrder[i]][ReceiptKey(r)] = Payload(r, PostOrder[i])

(* Rows change only with a receipt that was not there, only those of its   *)
(* service, and a receipt stays as it is.                                  *)
AppliesOnce ==
    /\ \A src \in Sources : rows'[src] # rows[src] =>
         \E s \in Services, k \in ReceiptKeys :
             src \in SourcesOf[s] /\ receipts[s][k] = None /\ receipts'[s][k] # None
    /\ \A s \in Services, k \in ReceiptKeys :
         receipts[s][k] # None => receipts'[s][k] = receipts[s][k]

(* A key changes the rows of a service at most once, whatever is sent      *)
(* again, late or twice: the part of the promise that concerns the tables. *)
AppliedOncePerKey == [][AppliesOnce]_vars

(* A request that has begun gets an answer, also when the bank's data      *)
(* change, a service stops answering or the token has expired.             *)
EveryImportEnds ==
    \A r \in Requests : (req[r].pc \in {"fetching", "posting", "recording"}) ~> (req[r].pc = "ended")

(* An import every service accepted has its row of import_batches, which   *)
(* "rendent l'import rejouable et verifiable" (docs/data-model.md:122).    *)
AcceptedIsRecorded ==
    \A r \in Requests : PastItsImports(r) /\ req[r].kind = "all" /\ req[r].pc = "ended"
        => batches[req[r].key] # None
-----------------------------------------------------------------------------
(* The promise of an import, and how the state keeps it. *)

PostedTo == [kind \in Kinds |-> {PostOrder[i] : i \in FirstPost(kind) .. LastPost(kind)}]

WantedBar == [r \in Requests |-> [way |-> req[r].kind, key |-> req[r].key, text |-> req[r].body]]
ReadBar   == [r \in Requests |-> req[r].got]
ToldBar   == [r \in Requests |-> req[r].answer]
HeldBar   == [s \in Services |->
                {[stamp |-> k, text |-> receipts[s][k].body, data |-> receipts[s][k].data] :
                    k \in {j \in ReceiptKeys : receipts[s][j] # None}}]

Promise == INSTANCE ImportPromise WITH
             Imports <- Requests, Ways <- Kinds, IdKeys <- Keys, Texts <- Bodies,
             Stores <- Services, Feeds <- Sources, StoresOf <- PostedTo, FeedsOf <- SourcesOf,
             world <- bank, wanted <- WantedBar, read <- ReadBar, told <- ToldBar,
             held <- HeldBar, table <- rows, hasty <- early

(* Every run of the imports keeps the promise of ImportPromise: receipts   *)
(* are of what one request read, come with their rows, and answers are     *)
(* true of them (docs/data-model.md, import_batches).                      *)
ImplementsImportPromise == Promise!IPSpec
-----------------------------------------------------------------------------
(* The inductive invariant. *)

(* A request in flight is at a step of its order, and so is a call that    *)
(* goes on after its request has ended.                                    *)
Placed(r) ==
    /\ req[r].pc = "fetching" => req[r].at \in FirstFetch(req[r].kind) .. LastFetch(req[r].kind)
    /\ req[r].pc = "posting" \/ call[r] # "idle" =>
           req[r].at \in FirstPost(req[r].kind) .. LastPost(req[r].kind)
    /\ req[r].pc = "recording" => req[r].kind = "all"
    /\ call[r] # "idle" => req[r].pc \in {"posting", "ended"}
    /\ req[r].pc # "ended" => req[r].answer = "none"

(* The i-th service has accepted the import of r, and r knows.             *)
Acknowledged(r, i) ==
    \/ PastItsImports(r)
    \/ req[r].pc = "posting" /\ (i < req[r].at \/ (i = req[r].at /\ call[r] = "ok"))

Stored(r) ==
    \A i \in FirstPost(req[r].kind) .. LastPost(req[r].kind) :
        Acknowledged(r, i) => receipts[PostOrder[i]][ReceiptKey(r)] = Payload(r, PostOrder[i])

EndingFits == \A e \in ending : e.new.data \in [SourcesOf[e.service] -> Versions]

ImportInv ==
    /\ TypeOK
    /\ \A r \in Requests : Placed(r)
    /\ EndingFits
    /\ ~early => \A r \in Requests : Stored(r)

(* For the promise: what is posted has been fetched.                       *)
Fetched(r, src) == req[r].got[src] # 0

AllFetched(r) == \A i \in FirstFetch(req[r].kind) .. LastFetch(req[r].kind) : Fetched(r, FetchOrder[i])

FetchesDone(r) ==
    /\ req[r].pc = "fetching" =>
           \A i \in FirstFetch(req[r].kind) .. (req[r].at - 1) : Fetched(r, FetchOrder[i])
    /\ req[r].pc \in {"posting", "recording"} \/ call[r] # "idle" => AllFetched(r)

(* A late session ends with what some request posted and no longer changes.*)
EndingIsPosted ==
    \A e \in ending : \E r \in Requests :
        /\ req[r].pc \notin {"new", "fetching"} /\ AllFetched(r)
        /\ e.service \in PostedTo[req[r].kind]
        /\ e.key = ReceiptKey(r) /\ e.new = Payload(r, e.service)

(* A refusal is still justified when the client hears of it.               *)
RefusalHolds(r) ==
    call[r] = "reused" =>
        receipts[ServiceOf(r)][ReceiptKey(r)] \notin {None, Payload(r, ServiceOf(r))}

(* A batch is that of an accepted import of everything.                    *)
BatchesAreAccepted ==
    \A k \in Keys : batches[k] # None =>
        LET r == batches[k].corr IN
        req[r].kind = "all" /\ req[r].key = k /\ req[r].body = batches[k].body
            /\ req[r].answer = "accepted"

(* A row is there with both its columns.                                   *)
RowsAreWhole == \A src \in Sources : rows[src].fixed # 0 => rows[src].current # 0

PromiseInv ==
    /\ ImportInv
    /\ RowsAreWhole
    /\ \A r \in Requests : FetchesDone(r) /\ RefusalHolds(r)
    /\ EndingIsPosted
    /\ BatchesAreAccepted
=============================================================================
