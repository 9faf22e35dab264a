-------------------------- MODULE DecisionPipeline --------------------------
(***************************************************************************)
(* The chain from transactions to a score, for one customer: the pipeline  *)
(* of the gateway has analytics-service recompute the metrics, then        *)
(* signal-service evaluate the signals, then opportunity-service generate, *)
(* which has ml-engine score what feature-store materializes.  The         *)
(* decision itself is OpportunityGeneration's.                             *)
(*                                                                         *)
(* Each service is one process whose handlers are coroutines with          *)
(* synchronous sessions: a statement that waits for a row another session  *)
(* has written keeps the loop.  The end of a session runs in a thread,     *)
(* before or after the answer, as the version of FastAPI has it.           *)
(***************************************************************************)
EXTENDS FinancialMetrics

CONSTANTS
    Runs,           \* pipelines in flight
    PageSize,       \* transactions in a page
    LastDay,        \* bound: days
    Amounts,
    MaxTransactions,    \* bound
    MaxStarts           \* bound: pipelines started

ASSUME PipelineAssumption == PageSize \in Nat \ {0} /\ LastDay \in Nat \ {0} /\ MaxTransactions \in Nat /\ MaxStarts \in Nat /\ Amounts \subseteq Nat

Days   == 1 .. LastDay
Ledger == [day : 0 .. LastDay, amount : Amounts]
Stages == {"analytics", "signal", "feature", "score"}

VARIABLES
    today,          \* the asOf clients ask for
    ledger,         \* transactions of the customer
    metrics,        \* metric_snapshots, by asOf
    signals,        \* signals, by day of detection
    features,       \* feature_materializations, by asOf
    scores,         \* propensity_scores, by asOf
    starts,         \* pipelines started
    run,            \* the requests, each at the service that works on it
    early,          \* a session ends after its answer
    ending          \* the sessions that have answered and not ended

tables == <<metrics, signals, features, scores>>
vars == <<today, ledger, tables, starts, run, early, ending>>
-----------------------------------------------------------------------------
(* Write: a statement that may wait.  Closing: a thread ends the session.  *)
PCs == {"read", "signals", "rules", "write", "closing", "completed", "over"}

(* Who waits for the answer: the client of the pipeline; ml-engine alone;  *)
(* nobody.                                                                 *)
Callers == {"client", "engine", "nobody"}

(* No row, in a table, loaded or to be written.                            *)
NoRow == <<>>

Fractions == (Int \X Nat) \cup {None}
Snapshot  == [asOf : Days, value : Nat, previous : Nat, sample : Nat, rate : Fractions, seasonal : BOOLEAN,
              quality : {"VALID", "PARTIAL", "BASELINE_LOW"}]
Signal    == [status : {"OBSERVED", "CONFIRMED"}, from : Days]
VectorOK(v) == v.sources.asOf \in Days /\ v.sources.signals \subseteq Days

TypeOK ==
    /\ today \in Days /\ starts \in 0 .. MaxStarts
    /\ ledger \subseteq Ledger
    /\ \A d \in Days :
        /\ metrics[d] \in Snapshot \cup {NoRow}
        /\ signals[d] \in Signal \cup {NoRow}
        /\ features[d] # NoRow => VectorOK(features[d])
        /\ \A v \in scores[d] : VectorOK(v)
    /\ \A r \in Runs :
        /\ run[r].stage \in Stages /\ run[r].pc \in PCs /\ run[r].caller \in Callers
        /\ run[r].day \in Days /\ run[r].began \subseteq Ledger /\ run[r].alone \in BOOLEAN
    /\ \A e \in ending : e.stage \in Stages /\ e.day \in Days

Unused == [day |-> 1, stage |-> "analytics", pc |-> "over", caller |-> "nobody", rows |-> <<>>,
           snapshot |-> NoRow, statuses |-> <<>>, row |-> NoRow, value |-> NoRow,
           began |-> {}, alone |-> FALSE]

Init ==
    /\ today = 1
    /\ ledger \in SUBSET {t \in Ledger : t.day <= 1}
    /\ IsFiniteSet(ledger) /\ Cardinality(ledger) <= MaxTransactions
    /\ metrics = [d \in Days |-> NoRow]
    /\ signals = [d \in Days |-> NoRow]
    /\ features = [d \in Days |-> NoRow]
    /\ scores = [d \in Days |-> {}]
    /\ starts = 0
    /\ run = [r \in Runs |-> Unused]
    /\ early \in BOOLEAN
    /\ ending = {}
-----------------------------------------------------------------------------
(* How a request goes from service to service. *)

(* Transactions up to a day. *)
UpTo(asOf) == {t \in ledger : t.day <= asOf}

At(r, stage, pc) == run[r].stage = stage /\ run[r].pc = pc

LoopIsFree(stage) == \A r \in Runs : ~At(r, stage, "write")

Idle(r) == run[r].pc \in {"completed", "over"}

Arrives(q, stage, value) ==
    [q EXCEPT !.stage = stage, !.pc = "read", !.rows = <<>>, !.snapshot = NoRow,
              !.statuses = <<>>, !.row = NoRow, !.value = value,
              !.began = IF q.alone THEN @ ELSE {}]

(* Who is answered goes on: the gateway with the next stage, ml-engine     *)
(* with the vector also when nobody waits for the score.  Of a pipeline    *)
(* that ran alone the end is kept, and what there was when it began.       *)
Answered(q) ==
    CASE q.stage = "analytics" /\ q.caller = "client" -> Arrives(q, "signal", NoRow)
      [] q.stage = "signal" /\ q.caller = "client"    -> Arrives(q, "feature", NoRow)
      [] q.stage = "feature" /\ q.caller # "nobody"   -> Arrives(q, "score", q.value)
      [] q.stage = "score" /\ q.caller = "client" /\ q.alone ->
            [Unused EXCEPT !.pc = "completed", !.day = q.day, !.value = q.value,
                           !.began = q.began, !.alone = TRUE]
      [] OTHER -> Unused

Start(r) ==
    /\ Idle(r) /\ starts < MaxStarts
    /\ starts' = starts + 1
    /\ run' = [q \in Runs |->
          IF q = r
          THEN [Unused EXCEPT !.pc = "read", !.caller = "client", !.day = today,
                              !.began = UpTo(today),
                              !.alone = ending = {} /\ \A o \in Runs : Idle(o)]
          ELSE IF Idle(q) THEN Unused
          ELSE [run[q] EXCEPT !.alone = FALSE, !.began = IF run[q].stage = "analytics" THEN @ ELSE {}]]
    /\ UNCHANGED <<today, ledger, tables, early, ending>>

(* A call fails, or is refused, while a handler awaits its answer: the     *)
(* session is rolled back.  Without features or a score generate goes on   *)
(* with the rules only: the pipeline ends, with no score.                  *)
Fails(r) ==
    /\ run[r].pc \in {"read", "signals", "rules"} /\ LoopIsFree(run[r].stage)
    /\ run' = [run EXCEPT ![r] = Unused]
    /\ UNCHANGED <<today, ledger, tables, starts, early, ending>>

(* The gateway, opportunity-service or ml-engine waits no longer: the      *)
(* service goes on.                                                        *)
Timeout(r) ==
    /\ ~Idle(r)
    /\ \E c \in IF run[r].stage = "feature" THEN {"engine", "nobody"} ELSE {"nobody"} :
          /\ run[r].caller \in {"client", "engine"} \ {c}
          /\ run' = [run EXCEPT ![r].caller = c]
    /\ UNCHANGED <<today, ledger, tables, starts, early, ending>>

(* The process of a service stops and is started again. *)
Stop(stage) ==
    /\ \E r \in Runs : run[r].stage = stage /\ ~Idle(r)
    /\ run' = [r \in Runs |-> IF run[r].stage = stage /\ ~Idle(r) THEN Unused ELSE run[r]]
    /\ ending' = {e \in ending : e.stage # stage}
    /\ UNCHANGED <<today, ledger, tables, starts, early>>
-----------------------------------------------------------------------------
\* Fault: the answer never waits for the end of the session.
ReturnAtOnce(r, q) ==
    /\ ending' = ending \cup {[stage |-> q.stage, day |-> q.day, row |-> q.row]}
    /\ run' = [run EXCEPT ![r] = Answered(q)]

(* The handler of r has returned, q is what it leaves.  The loop gives the *)
(* end of the session to a thread; where the answer comes first, whoever   *)
(* waits for it goes on at once.                                           *)
Return(r, q) ==
    IF early
    THEN /\ ending' = ending \cup {[stage |-> q.stage, day |-> q.day, row |-> q.row]}
         /\ run' = [run EXCEPT ![r] = Answered(q)]
    ELSE /\ run' = [run EXCEPT ![r] = [q EXCEPT !.pc = "closing"]]
         /\ UNCHANGED ending

-----------------------------------------------------------------------------
(* POST /analytics/recompute *)

Before(s, t) == s.day < t.day \/ (s.day = t.day /\ s.amount > t.amount)

Rank(t, S) == Cardinality({s \in S : Before(s, t)})

(* Transactions up to the day, by value date; ids order those of a day. *)
Ordered(asOf) ==
    LET S == UpTo(asOf)
    IN  [i \in 1 .. Cardinality(S) |-> CHOOSE t \in S : Rank(t, S) = i - 1]

\* Fault: the cursor of the next page is one too far.
OffsetPastOne(rows) == IF rows = <<>> THEN 0 ELSE Len(rows) + 1

(* The cursor is the number of rows read. *)
Offset(rows) == Len(rows)

(* One page, of the transactions as they are now. *)
ReadPage(r) ==
    LET all  == Ordered(run[r].day)
        from == Offset(run[r].rows)
        to   == IF from + PageSize < Len(all) THEN from + PageSize ELSE Len(all)
        rows == run[r].rows \o SubSeq(all, from + 1, to)
    IN
    /\ At(r, "analytics", "read") /\ LoopIsFree("analytics")
    /\ run' = [run EXCEPT ![r].rows = rows,
                          ![r].pc = IF Len(all) > to THEN "read" ELSE "write",
                          ![r].value = IF Len(all) > to THEN NoRow ELSE Calculate(rows, run[r].day)]
    /\ UNCHANGED <<today, ledger, tables, starts, early, ending>>
-----------------------------------------------------------------------------
(* POST /signals/evaluate *)

Computed == {d \in Days : metrics[d] # NoRow}

(* The metrics come in one page, of all days, the latest first; each row   *)
(* replaces the one before: what is left is the earliest.                  *)
Observed == metrics[CHOOSE d \in Computed : \A e \in Computed : d <= e]

(* A signal that is not detected leaves what is stored as it is. *)
Evaluate(r) ==
    /\ At(r, "signal", "read") /\ LoopIsFree("signal")
    /\ IF Computed # {} /\ Detected(Observed)
       THEN /\ run' = [run EXCEPT ![r].pc = "write",
                                  ![r].value = [status |-> Status(Observed), from |-> Observed.asOf]]
            /\ UNCHANGED ending
       ELSE Return(r, run[r])
    /\ UNCHANGED <<today, ledger, tables, starts, early>>
-----------------------------------------------------------------------------
(* POST /features/customers/{id}/materialize *)

\* Fault: the latest snapshot, of whatever day.
LatestOfAll(asOf) == CHOOSE d \in Computed : \A e \in Computed : e <= d

Latest(asOf) == CHOOSE d \in Computed \cap 1 .. asOf : \A e \in Computed \cap 1 .. asOf : e <= d

(* Without a snapshot: 422, which ends the call as a failure does. *)
ReadMetrics(r) ==
    /\ At(r, "feature", "read") /\ LoopIsFree("feature")
    /\ \E d \in Computed : d <= run[r].day
    /\ run' = [run EXCEPT ![r].pc = "signals", ![r].snapshot = metrics[Latest(run[r].day)]]
    /\ UNCHANGED <<today, ledger, tables, starts, early, ending>>

(* The days up to this one that have a signal. *)
Signalled(day) == {d \in 1 .. day : signals[d] # NoRow}

ReadSignals(r) ==
    /\ At(r, "feature", "signals") /\ LoopIsFree("feature")
    /\ run' = [run EXCEPT ![r].pc = "rules", ![r].statuses = [d \in Signalled(run[r].day) |-> signals[d].status]]
    /\ UNCHANGED <<today, ledger, tables, starts, early, ending>>

Vector(snapshot, statuses) ==
    LET values  == Values(snapshot, statuses)
        sources == SourcesOf(snapshot, statuses)
    IN  [values |-> values, sources |-> sources, checksum |-> <<values, sources>>]

(* rule-engine has evaluated the snapshot; the row of the day is loaded    *)
(* and its INSERT or UPDATE begins.                                        *)
Build(r) ==
    /\ At(r, "feature", "rules") /\ LoopIsFree("feature")
    /\ run' = [run EXCEPT ![r].pc = "write", ![r].row = features[run[r].day],
                          ![r].value = Vector(run[r].snapshot, run[r].statuses)]
    /\ UNCHANGED <<today, ledger, tables, starts, early, ending>>
-----------------------------------------------------------------------------
(* A statement goes on once no other session has written its row.          *)
Locked(r) ==
    \/ \E q \in Runs \ {r} : /\ run[q].stage = run[r].stage /\ run[q].pc = "closing"
                             /\ run[q].day = run[r].day /\ run[q].row # NoRow
    \/ \E e \in ending : e.stage = run[r].stage /\ e.day = run[r].day /\ e.row # NoRow

(* An upsert writes all columns.  The row of the features is inserted,     *)
(* which fails on one that came meanwhile, or its columns are updated that *)
(* differ from the ones loaded.  What is answered is what was computed.    *)
Written(loaded, new, now) ==
    IF loaded = NoRow THEN new ELSE [c \in DOMAIN new |-> IF new[c] = loaded[c] THEN now[c] ELSE new[c]]

Write(r) ==
    LET q   == run[r]
        row == IF q.stage = "feature" THEN Written(q.row, q.value, features[q.day]) ELSE q.value
    IN
    /\ q.pc = "write" /\ ~Locked(r)
    /\ IF q.stage = "feature" /\ q.row = NoRow /\ features[q.day] # NoRow
       THEN /\ run' = [run EXCEPT ![r] = Unused]
            /\ UNCHANGED ending
       ELSE Return(r, [q EXCEPT !.row = row])
    /\ UNCHANGED <<today, ledger, tables, starts, early>>

(* POST /ml/customers/{id}/score: the vector is scored as it was answered. *)
Score(r) ==
    /\ At(r, "score", "read") /\ LoopIsFree("score")
    /\ Return(r, [run[r] EXCEPT !.row = run[r].value])
    /\ UNCHANGED <<today, ledger, tables, starts, early>>

Put(table, day, row) == IF row = NoRow THEN table ELSE [table EXCEPT ![day] = row]

(* A vector that has a score of the day keeps it.                          *)
Stored(stage, day, row) ==
    /\ metrics'  = IF stage = "analytics" THEN Put(metrics, day, row) ELSE metrics
    /\ signals'  = IF stage = "signal" THEN Put(signals, day, row) ELSE signals
    /\ features' = IF stage = "feature" THEN Put(features, day, row) ELSE features
    /\ scores'   = IF stage = "score" THEN [scores EXCEPT ![day] = @ \cup {row}] ELSE scores

Close(r) ==
    LET q == run[r] IN
    /\ q.pc = "closing"
    /\ Stored(q.stage, q.day, q.row)
    /\ run' = [run EXCEPT ![r] = Answered(q)]
    /\ UNCHANGED <<today, ledger, starts, early, ending>>

CloseLate(e) ==
    /\ e \in ending
    /\ Stored(e.stage, e.day, e.row)
    /\ ending' = ending \ {e}
    /\ UNCHANGED <<today, ledger, starts, run, early>>
-----------------------------------------------------------------------------
(* Imports insert transactions, of today and of days before. *)
Import ==
    /\ Cardinality(ledger) < MaxTransactions
    /\ \E t \in Ledger \ ledger : t.day <= today /\ ledger' = ledger \cup {t}
    /\ UNCHANGED <<today, tables, starts, run, early, ending>>

Midnight ==
    /\ today < LastDay
    /\ today' = today + 1
    /\ UNCHANGED <<ledger, tables, starts, run, early, ending>>

Next ==
    \/ \E r \in Runs : Start(r) \/ Fails(r) \/ Timeout(r)
    \/ \E stage \in Stages : Stop(stage)
    \/ \E r \in Runs : ReadPage(r) \/ Evaluate(r) \/ ReadMetrics(r) \/ ReadSignals(r) \/ Build(r) \/ Score(r)
    \/ \E r \in Runs : Write(r) \/ Close(r)
    \/ \E e \in ending : CloseLate(e)
    \/ Import
    \/ Midnight

Spec == Init /\ [][Next]_vars
-----------------------------------------------------------------------------
(* Properties. *)

(* A recompute that has read its last page misses no transaction that was  *)
(* there when it began, however many are inserted before, between and      *)
(* behind the ones it has read: rows only move back in the pages.          *)
NothingIsMissed ==
    \A r \in Runs : run[r].stage = "analytics" /\ run[r].pc \in {"write", "closing"} =>
        run[r].began \subseteq {run[r].rows[i] : i \in DOMAIN run[r].rows}

(* Nothing of a later day is in the features of a day, also when the day   *)
(* changes between the stages of a pipeline, and, where sessions end       *)
(* before their answers, nothing in its signals (data-model.md: no datum   *)
(* observable after asOf enters the vector).  Where the answer comes       *)
(* first, a pipeline whose metrics are late or lost evaluates those of a   *)
(* later day.                                                              *)
PointInTime ==
    \A d \in Days :
        /\ ~early /\ signals[d] # NoRow => signals[d].from <= d
        /\ features[d] # NoRow => /\ features[d].sources.asOf <= d
                                  /\ features[d].sources.signals \subseteq Signalled(d)

(* A pipeline that ran alone, with commits before answers, has scored a    *)
(* vector of the metrics of its day, of all the transactions that were     *)
(* there when it began, and that vector is the one stored.                 *)
AloneItIsFresh ==
    \A r \in Runs : run[r].pc = "completed" /\ ~early =>
        LET v == features[run[r].day] IN
        /\ v = run[r].value
        /\ v.sources.asOf = run[r].day
        /\ v.values.rules = Strength(Served, Payload(metrics[run[r].day]))
        /\ v.values.activity >= Cardinality({t \in run[r].began : t.day \in Window(run[r].day, 0)})
        /\ v \in scores[run[r].day]

(* The signal of a day is there when the condition "est vraie dans la      *)
(* fenetre courante" (docs/business-rules.md:177): once the pipeline of a  *)
(* day has run alone, the signal of the day is what the metrics of the day *)
(* say.                                                                    *)
SignalsOfTheDay ==
    \A r \in Runs : run[r].pc = "completed" /\ ~early =>
        (Detected(metrics[run[r].day]) <=> signals[run[r].day] # NoRow)
-----------------------------------------------------------------------------
(* The inductive invariant of the proofs. *)

Shape ==
    /\ DOMAIN run = Runs /\ \A r \in Runs : DOMAIN run[r] = DOMAIN Unused
    /\ {DOMAIN metrics, DOMAIN signals, DOMAIN features, DOMAIN scores} = {Days}
    /\ IsFiniteSet(ledger)

VectorFor(v, day) ==
    /\ v = [values |-> v.values, sources |-> v.sources, checksum |-> v.checksum]
    /\ v.sources.asOf \in 1 .. day /\ v.sources.signals \subseteq Signalled(day)

(* What a session of a service may store for a day. *)
Storable(stage, day, row) ==
    /\ stage = "analytics" => row \in Snapshot /\ row.asOf = day
    /\ stage = "signal" /\ row # NoRow => row \in Signal /\ (~early => row.from <= day)
    /\ stage \in {"feature", "score"} => VectorFor(row, day)

(* What a request holds at each of its points. *)
RunOK(q) ==
    /\ q.pc = "read" => q.row = NoRow
    /\ q.pc \in {"signals", "rules"} => q.stage = "feature" /\ q.snapshot \in Snapshot /\ q.snapshot.asOf <= q.day
    /\ q.pc = "rules" => DOMAIN q.statuses \subseteq Signalled(q.day)
    /\ q.pc = "write" => q.stage # "score" /\ Storable(q.stage, q.day, q.value)
    /\ q.pc = "closing" => Storable(q.stage, q.day, q.row)
    /\ q.stage = "analytics" => q.rows \in Seq(Ledger)
    /\ q.stage = "feature" /\ q.pc = "write" => q.row = NoRow \/ features[q.day] # NoRow
    /\ q.stage = "score" \/ (q.stage = "feature" /\ q.pc = "closing") => VectorFor(q.value, q.day)
    /\ ~early /\ q.stage # "analytics" => metrics[q.day] # NoRow

PointInv ==
    /\ \A d \in Days :
        /\ metrics[d] # NoRow => Storable("analytics", d, metrics[d])
        /\ Storable("signal", d, signals[d])
        /\ features[d] # NoRow => VectorFor(features[d], d)
        /\ \A v \in scores[d] : VectorFor(v, d)
    /\ \A r \in Runs : RunOK(run[r])
    /\ \A e \in ending : early /\ Storable(e.stage, e.day, e.row)

(* The transactions a recompute began with are read or still to come. *)
Reads(q) ==
    q.stage = "analytics" =>
        /\ q.pc = "read" =>
            /\ Len(q.rows) <= Cardinality(UpTo(q.day))
            /\ \A t \in q.began : /\ t \in UpTo(q.day)
                                  /\ t \in Range(q.rows) \/ Rank(t, UpTo(q.day)) >= Len(q.rows)
        /\ q.pc \in {"write", "closing"} => q.began \subseteq Range(q.rows)

ReadInv == \A r \in Runs : Reads(run[r])

Counted(q) ==
    /\ metrics[q.day] # NoRow
    /\ metrics[q.day].sample >= Cardinality({t \in q.began : t.day \in Window(q.day, 0)})

FreshVector(v, day) ==
    /\ v.sources.asOf = day
    /\ v.values.rules = Strength(Served, Payload(metrics[day]))
    /\ v.values.activity = metrics[day].sample

(* What the tables and a pipeline that runs alone have in common. *)
Fresh(q) ==
    /\ q.stage # "analytics" \/ q.pc = "completed" => Counted(q)
    /\ q.pc \in {"signals", "rules"} => q.snapshot = metrics[q.day]
    /\ q.stage = "feature" /\ q.pc = "write" => FreshVector(q.value, q.day) /\ q.row = features[q.day]
    /\ q.stage = "feature" /\ q.pc = "closing" => FreshVector(q.value, q.day) /\ q.row = q.value
    /\ q.stage = "score" \/ q.pc = "completed" => FreshVector(q.value, q.day) /\ features[q.day] = q.value
    /\ q.stage = "score" /\ q.pc = "closing" => q.row = q.value
    /\ q.pc = "completed" => q.value \in scores[q.day]

FreshInv ==
    /\ \A r \in Runs :
        /\ run[r].stage = "analytics" /\ run[r].pc = "write" => run[r].value = Calculate(run[r].rows, run[r].day)
        /\ run[r].stage = "analytics" /\ run[r].pc = "closing" => run[r].row = Calculate(run[r].rows, run[r].day)
        /\ run[r].pc = "completed" => run[r].alone
        /\ run[r].alone /\ ~early => Fresh(run[r])
        /\ run[r].alone => \A o \in Runs \ {r} : Idle(o)
=============================================================================
