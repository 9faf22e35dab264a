----------------------- MODULE OpportunityGeneration ------------------------
(***************************************************************************)
(* The batches of opportunity-service (backend/src/boa_oi/                 *)
(* opportunity_api.py): POST /opportunities/generate decides opportunities *)
(* for a list of customers, PATCH /admin/rules/{id} clones a rule row.     *)
(*                                                                         *)
(* generate is a coroutine on the one event loop of the process, and its   *)
(* session is synchronous: a SQL statement that waits for a row lock keeps *)
(* the loop, and with it every other batch.  PATCH and the end of a        *)
(* session run in threads of their own.  One step is what happens between  *)
(* two points where somebody else can act: an await, a statement that may  *)
(* wait or meet a row another has written, a commit.                       *)
(*                                                                         *)
(* The scoring policy and the ML answer only change scores, which are not  *)
(* kept; all batches are of one day.                                       *)
(***************************************************************************)
EXTENDS Naturals, Sequences

CONSTANTS
    Batches,        \* requests to generate in flight
    Mvp,            \* the types of rules.yaml, in the order of the engine
    Published,      \* rules of Rule Studio in the order of rule-engine: [type, base]
    Editions,       \* values of the "version" of a configuration
    Terms,          \* the thresholds and weights of a configuration
    Invalid,        \* a part of a configuration OpportunityRuleConfig refuses
    Yaml,           \* the configuration of rules.yaml, the same for every type
    Edits,          \* what clients send as parameters: functions of some of the parts
    Orders,         \* customerIds of the requests: sequences of customers
    Room,           \* stamps that fit in opportunity_rules.version, by first version
    MaxTime         \* bound: rule updates

Ids == {Published[i].base : i \in DOMAIN Published}
Types == {Mvp[i] : i \in DOMAIN Mvp}
AllTypes == Types \cup {Published[i].type : i \in DOMAIN Published}
Customers == UNION {{o[i] : i \in DOMAIN o} : o \in Orders}

\* What g holds, with what f holds in its place.
Over(f, g) == [x \in DOMAIN f \cup DOMAIN g |-> IF x \in DOMAIN f THEN f[x] ELSE g[x]]

\* The elements of s that are in S, in their order: after n of s, and of all.
Picked(s, S) ==
    LET picked[n \in 0..Len(s)] ==
            IF n = 0 THEN <<>>
            ELSE IF s[n] \in S THEN Append(picked[n - 1], s[n]) ELSE picked[n - 1]
    IN  picked

Only(s, S) == Picked(s, S)[Len(s)]

Valid == [edition: Editions, terms: Terms, enabled: BOOLEAN]
Config == [edition: Editions \cup {Invalid}, terms: Terms \cup {Invalid}, enabled: BOOLEAN]

ASSUME GenerationAssumption ==
    /\ Mvp \in Seq(Types) /\ Published \in Seq([type: AllTypes, base: Ids])
    /\ Editions \cap Ids = {}
    /\ Invalid \notin Editions \cup Terms
    /\ Yaml \in Valid
    /\ Room \in [Editions \cup Ids -> Nat]
    /\ \A e \in Edits : Over(e, Yaml) \in Config
    /\ Orders \subseteq Seq(Customers) \ {<<>>}
    /\ MaxTime \in Nat

\* Version column of a rule row: the version it began with, then one stamp per update.
Name == [type: AllTypes, base: Editions \cup Ids, stamps: Seq(1..MaxTime)]

VARIABLES
    rules,          \* table opportunity_rules: [active, config] by name
    opportunities,  \* table opportunities: the configuration that decided, by key
    batch,          \* the requests to generate
    now             \* stamp of the next update

vars == <<rules, opportunities, batch, now>>

Nothing == [n \in {} |-> Yaml]

Idle == [phase |-> "IDLE", ok |-> TRUE, config |-> Nothing, todo |-> <<>>, candidates |-> <<>>,
         inserted |-> Nothing, written |-> Nothing]

\* What a session has written and not committed: rows of both tables, locked until it ends.
Phases == {"IDLE", "WAIT", "LOOK", "INSERT", "UPSERT", "OVER", "CLOSING"}

Row == [active: BOOLEAN, config: Config]

Key == [customer: Customers, rule: Name]

NameOK(n) == n \in Name /\ Len(n.stamps) <= Room[n.base]

SessionOK(r) ==
    /\ DOMAIN r = DOMAIN Idle
    /\ r.phase \in Phases /\ r.ok \in BOOLEAN
    /\ DOMAIN r.config \subseteq Types /\ \A t \in DOMAIN r.config : r.config[t] \in Valid
    /\ r.todo \in Seq(Customers)
    /\ r.candidates \in Seq(Name) /\ \A i \in DOMAIN r.candidates : NameOK(r.candidates[i])
    /\ \A n \in DOMAIN r.inserted : NameOK(n) /\ r.inserted[n] \in Row
    /\ \A k \in DOMAIN r.written : k \in Key /\ r.written[k] \in Config

BatchOK(r) ==
    /\ SessionOK(r)
    /\ r.phase \in {"WAIT", "LOOK", "INSERT", "UPSERT"} => r.todo # <<>> /\ DOMAIN r.config = Types
    /\ r.phase \in {"LOOK", "INSERT", "UPSERT"} => r.candidates # <<>>

\* The columns hold what the code means them to, in the width the table gives the version.
TypeOK ==
    /\ \A n \in DOMAIN rules : NameOK(n) /\ rules[n] \in Row
    /\ \A k \in DOMAIN opportunities : k \in Key /\ opportunities[k] \in Config
    /\ DOMAIN batch = Batches /\ \A b \in Batches : BatchOK(batch[b])
    /\ now \in 1..MaxTime + 1

First(t, v) == [type |-> t, base |-> v, stamps |-> <<>>]

\* The seed script inserts one row per type; without it the table is empty.
Init ==
    /\ \E seeded \in BOOLEAN :
           rules = [n \in {First(t, Yaml.edition) : t \in IF seeded THEN Types ELSE {}} |->
                       [active |-> TRUE, config |-> Yaml]]
    /\ opportunities = Nothing
    /\ batch = [b \in Batches |-> Idle]
    /\ now = 1

-----------------------------------------------------------------------------
(* What a batch reads *)

ActiveRows == {n \in DOMAIN rules : rules[n].active}

\* configured_rules: every active row is validated, and the rule set has exactly the types of Mvp.
Loadable ==
    \A n \in ActiveRows : n.type \in Types /\ Invalid \notin {rules[n].config.edition, rules[n].config.terms}

\* configured_rules: of several active rows of a type, the last one of an unordered SELECT.
Configurations ==
    {c \in [Types -> Config] :
        \A t \in Types :
            LET of == {n \in ActiveRows : n.type = t}
            IN  c[t] \in IF of = {} THEN {Yaml} ELSE {rules[n].config : n \in of}}

\* The engine's candidates for a customer that matches the types E, in the engine's order.
EngineCandidates(config, E) ==
    LET enabled == Only(Mvp, {t \in E : config[t].enabled})
    IN  [i \in DOMAIN enabled |-> First(enabled[i], config[enabled[i]].edition)]

\* rule_engine_candidates: the published rules M that match, each as a version "id:vN" of its type.
StudioCandidates(M) ==
    LET matched == Only(Published, [type: AllTypes, base: M])
    IN  [i \in DOMAIN matched |-> First(matched[i].type, matched[i].base)]

\* Rows the session of a batch sees: READ COMMITTED, and its own.
Sees(b) == Over(batch[b].inserted, rules)

\* Fault: rows of sessions that have not committed are visible.
LooksUpUncommitted(b, n) ==
    \/ n \in DOMAIN rules /\ rules[n].active
    \/ \E c \in Batches : n \in DOMAIN batch[c].inserted

\* The SELECT of the rule row by type, version and active.
LooksUp(b, n) == n \in DOMAIN Sees(b) /\ Sees(b)[n].active

\* No statement of a coroutine is running.
LoopIsFree == \A b \in Batches : batch[b].phase \notin {"LOOK", "INSERT", "UPSERT"}

Candidate(b) == Head(batch[b].candidates)

KeyOf(b) == [customer |-> Head(batch[b].todo), rule |-> Candidate(b)]

\* The configuration in the decision's explanation: Rule Studio's has none of its own.
Decided(b) ==
    LET t == Candidate(b).type
    IN  IF t \in Types THEN batch[b].config[t]
        ELSE [edition |-> Invalid, terms |-> Invalid, enabled |-> FALSE]

-----------------------------------------------------------------------------
(* POST /opportunities/generate *)

\* A batch goes on: the next candidate, else the next customer, else the handler returns.
Resumed(r) ==
    IF r.candidates # <<>> THEN [r EXCEPT !.phase = "LOOK"]
    ELSE [r EXCEPT !.todo = Tail(r.todo),
                   !.phase = IF Tail(r.todo) = <<>> THEN "OVER" ELSE "WAIT"]

\* The handler starts: it reads its configuration and asks for the first customer's context.
Begin(b) ==
    /\ batch[b].phase = "IDLE" /\ LoopIsFree
    /\ Loadable
    /\ \E c \in Configurations, o \in Orders :
           batch' = [batch EXCEPT ![b] = [Idle EXCEPT !.phase = "WAIT", !.config = c, !.todo = o]]
    /\ UNCHANGED <<rules, opportunities, now>>

\* The last service has answered: the customer matches some types and some published rules.
Answer(b) ==
    /\ batch[b].phase = "WAIT" /\ LoopIsFree
    /\ \E E \in SUBSET Types, M \in SUBSET Ids :
           batch' = [batch EXCEPT ![b] = Resumed([batch[b] EXCEPT !.candidates =
                        EngineCandidates(batch[b].config, E) \o StudioCandidates(M)])]
    /\ UNCHANGED <<rules, opportunities, now>>

\* A service refuses or times out: the exception leaves the handler, the locks stay.
Fail(b) ==
    /\ batch[b].phase = "WAIT" /\ LoopIsFree
    /\ batch' = [batch EXCEPT ![b].phase = "OVER", ![b].ok = FALSE]
    /\ UNCHANGED <<rules, opportunities, now>>

Look(b) ==
    /\ batch[b].phase = "LOOK"
    /\ batch' = [batch EXCEPT ![b].phase = IF LooksUp(b, Candidate(b)) THEN "UPSERT" ELSE "INSERT"]
    /\ UNCHANGED <<rules, opportunities, now>>

\* The flush of a new rule row.  It waits for a session that inserted the same one; a committed
\* one is a conflict, upon which the flush rolls the transaction back.
Insert(b) ==
    LET n == Candidate(b)
        r == batch[b]
        row == [active |-> TRUE, config |-> Decided(b)]
    IN  /\ r.phase = "INSERT"
        /\ \A c \in Batches \ {b} : n \notin DOMAIN batch[c].inserted
        /\ batch' = [batch EXCEPT ![b] =
               IF n \in DOMAIN Sees(b)
               THEN [r EXCEPT !.phase = "OVER", !.ok = FALSE, !.inserted = Nothing, !.written = Nothing]
               ELSE [r EXCEPT !.phase = "UPSERT", !.inserted = Over([x \in {n} |-> row], r.inserted)]]
        /\ UNCHANGED <<rules, opportunities, now>>

\* INSERT ... ON CONFLICT DO UPDATE: it waits for a session that has written the same key.
Upsert(b) ==
    LET k == KeyOf(b)
        r == batch[b]
    IN  /\ r.phase = "UPSERT"
        /\ \A c \in Batches \ {b} : k \notin DOMAIN batch[c].written
        /\ batch' = [batch EXCEPT ![b] = Resumed([r EXCEPT
               !.candidates = Tail(r.candidates),
               !.written = Over([x \in {k} |-> Decided(b)], r.written)])]
        /\ UNCHANGED <<rules, opportunities, now>>

\* The loop gives the end of the session to a thread.
End(b) ==
    /\ batch[b].phase = "OVER" /\ LoopIsFree
    /\ batch' = [batch EXCEPT ![b].phase = "CLOSING"]
    /\ UNCHANGED <<rules, opportunities, now>>

\* Fault: a rollback that leaves the locks.
CloseKeepsLocks(b) ==
    /\ batch[b].phase = "CLOSING"
    /\ batch' = [batch EXCEPT ![b] = IF @.ok THEN Idle ELSE [@ EXCEPT !.phase = "IDLE"]]
    /\ rules' = IF batch[b].ok THEN Sees(b) ELSE rules
    /\ opportunities' = IF batch[b].ok THEN Over(batch[b].written, opportunities) ELSE opportunities
    /\ UNCHANGED now

\* get_session: commit, or rollback after an exception.
Close(b) ==
    /\ batch[b].phase = "CLOSING"
    /\ batch' = [batch EXCEPT ![b] = Idle]
    /\ rules' = IF batch[b].ok THEN Sees(b) ELSE rules
    /\ opportunities' = IF batch[b].ok THEN Over(batch[b].written, opportunities) ELSE opportunities
    /\ UNCHANGED now

-----------------------------------------------------------------------------
(* PATCH /admin/rules/{ruleId} *)

Fits(n) == Len(n.stamps) < Room[n.base]

Clone(n) == [n EXCEPT !.stamps = Append(@, now)]

\* Fault: the column is wide enough for any version.
UpdateAny(n, edit, active) ==
    /\ now <= MaxTime
    /\ rules' = Over([x \in {Clone(n)} |-> [active |-> active, config |-> Over(edit, rules[n].config)]],
                     [rules EXCEPT ![n].active = FALSE])
    /\ now' = now + 1
    /\ UNCHANGED <<opportunities, batch>>

\* Fault: the row is edited in place.
UpdateInPlace(n, edit, active) ==
    /\ now <= MaxTime /\ Fits(n)
    /\ rules' = [rules EXCEPT ![n] = [active |-> active, config |-> Over(edit, @.config)]]
    /\ now' = now + 1
    /\ UNCHANGED <<opportunities, batch>>

\* The parameters are merged unvalidated into a clone, and the row is deactivated, its own
\* "version" parameter apart.  A longer version than the column is refused by the database.
Update(n, edit, active) ==
    /\ now <= MaxTime /\ Fits(n)
    /\ rules' = Over([x \in {Clone(n)} |-> [active |-> active, config |-> Over(edit, rules[n].config)]],
                     [rules EXCEPT ![n].active = FALSE])
    /\ now' = now + 1
    /\ UNCHANGED <<opportunities, batch>>

-----------------------------------------------------------------------------

Step(b) == Begin(b) \/ Answer(b) \/ Fail(b) \/ Look(b) \/ Insert(b) \/ Upsert(b) \/ End(b) \/ Close(b)

Next ==
    \/ \E b \in Batches : Step(b)
    \/ \E n \in DOMAIN rules, edit \in Edits, active \in BOOLEAN : Update(n, edit, active)

\* Every awaited call answers or times out, the ready queue of the loop is first in first out,
\* a statement that does not wait returns, and a thread ends its session.  Nobody has to begin
\* a batch or to update a rule.
Fairness ==
    \A b \in Batches :
        /\ SF_vars(Answer(b) \/ Fail(b)) /\ SF_vars(End(b))
        /\ WF_vars(Look(b)) /\ WF_vars(Insert(b)) /\ WF_vars(Upsert(b)) /\ WF_vars(Close(b))

Spec == Init /\ [][Next]_vars /\ Fairness

-----------------------------------------------------------------------------
(* Properties *)

\* A configuration of type t that a row holds, or that of rules.yaml.
Stored(rows, t, c) == c = Yaml \/ \E n \in DOMAIN rows : n.type = t /\ rows[n].config = c

\* What decided opportunity k is a configuration of its type, switched on, of k's own version.
OfItsVersion(rows, k, c) == c.edition = k.rule.base /\ c.enabled /\ Stored(rows, k.rule.type, c)

\* However batches overlap, fail and meet updates: the rule row of a stored opportunity is
\* stored, and an engine decision came from a configuration the history of the type holds, of
\* the version the row has.  The configuration is read from any active row when the batch
\* begins; the row is found by that version much later, or inserted with it.
DecidedByItsRule ==
    \A k \in DOMAIN opportunities :
        /\ k.rule \in DOMAIN rules
        /\ k.rule.base \in Editions =>
               /\ rules[k.rule].config.edition = k.rule.base
               /\ OfItsVersion(rules, k, opportunities[k])

\* An engine decision and its rule row have one configuration (api.md:584: every opportunity
\* keeps the version that produced its decision).  An update can change the terms and leave the
\* version inside the configuration, by which the row is found.
DecidedByItsVersion ==
    \A k \in DOMAIN opportunities : k.rule.base \in Editions => rules[k.rule].config = opportunities[k]

\* A step that rewrites the configuration of no rule row, removes none, and reactivates no old one.
HistoryGrows ==
    \A n \in DOMAIN rules :
        /\ n \in DOMAIN rules'
        /\ rules'[n].config = rules[n].config
        /\ rules'[n].active => rules[n].active

\* The history of a rule only grows, whatever batches and updates do (api.md: an update does not
\* overwrite the configuration).
HistoryOnlyGrows == [][HistoryGrows]_vars

\* A batch ends, unless another one is in flight with it: neither its own locks nor those of the
\* sessions before it can stop it.
AloneItEnds ==
    \A b \in Batches :
        batch[b].phase # "IDLE" ~>
            \/ batch[b].phase = "IDLE"
            \/ \E c \in Batches \ {b} : batch[c].phase # "IDLE"

\* Every batch ends, also when two overlap (test-plan.md, tests of two simultaneous
\* generations).  It does not: a batch that awaits a service keeps the locks of its rows, and
\* the statement of the other that waits for them keeps the loop the first needs to go on.
EveryBatchEnds == \A b \in Batches : batch[b].phase # "IDLE" ~> batch[b].phase = "IDLE"
-----------------------------------------------------------------------------
(* The inductive invariant of the proofs *)

\* What session r may refer to: rules only grow, and so do its own rows.
InSight(r, n) == n \in DOMAIN r.inserted \cup DOMAIN rules

\* Candidates are versions as they began; an opportunity is written with its rule row in sight.
SessionRows(r) ==
    /\ \A n \in DOMAIN r.inserted : n.stamps = <<>> /\ n \notin DOMAIN rules
    /\ \A i \in DOMAIN r.candidates : r.candidates[i].stamps = <<>>
    /\ r.phase = "UPSERT" => InSight(r, Head(r.candidates))
    /\ \A k \in DOMAIN r.written : k.rule.stamps = <<>> /\ InSight(r, k.rule)

\* Stamps are of the past, and no two sessions insert the same row.
RowsInv ==
    /\ \A n \in DOMAIN rules : \A i \in DOMAIN n.stamps : n.stamps[i] < now
    /\ \A k \in DOMAIN opportunities : k.rule.stamps = <<>> /\ k.rule \in DOMAIN rules
    /\ \A b \in Batches : SessionRows(batch[b])
    /\ \A b, c \in Batches : b # c => DOMAIN batch[b].inserted \cap DOMAIN batch[c].inserted = {}

\* What session r read, will decide, has inserted and has written is of the version it names.
SessionDecisions(rows, r) ==
    /\ \A t \in DOMAIN r.config : Stored(rows, t, r.config[t])
    /\ \A i \in DOMAIN r.candidates :
           LET n == r.candidates[i]
           IN  n.base \in Editions =>
                   n.type \in Types /\ n.base = r.config[n.type].edition /\ r.config[n.type].enabled
    /\ \A n \in DOMAIN r.inserted : n.base \in Editions => r.inserted[n].config.edition = n.base
    /\ \A k \in DOMAIN r.written : k.rule.base \in Editions => OfItsVersion(rows, k, r.written[k])

DecisionsInv ==
    /\ \A n \in DOMAIN rules : n.stamps = <<>> /\ n.base \in Editions => rules[n].config.edition = n.base
    /\ \A k \in DOMAIN opportunities :
           k.rule.base \in Editions => OfItsVersion(rules, k, opportunities[k])
    /\ \A b \in Batches : SessionDecisions(rules, batch[b])

IInv == TypeOK /\ RowsInv /\ DecisionsInv
=============================================================================
