-------------------------- MODULE FinancialMetrics --------------------------
(***************************************************************************)
(* What is computed of a customer's transactions: the metric of a window   *)
(* (analytics/service.py), the signal that is detected in it               *)
(* (signals/service.py), the rules that match it (RuleEvaluation) and its  *)
(* part of the feature vector (features/domain.py).  The inflow stands for *)
(* the metrics: every one is an aggregate of the same rows, compared in    *)
(* the same way.  A rate is a fraction <<numerator, denominator>>.         *)
(***************************************************************************)
EXTENDS RuleEvaluation

CONSTANTS
    Span,           \* days of the window
    Floor,          \* denominator floor of the metric
    Threshold,      \* of the signal rule: growth in percent
    Strong,         \* strong_evidence_margin, in percent of the threshold
    MinimumSample,
    Confirming,     \* the window is one of 90D, 180D, 365D
    Covered,        \* days with balances
    Served          \* the rules rule-engine-service evaluates

ASSUME MetricsAssumption ==
    /\ Span \in Nat \ {0} /\ Floor \in Nat \ {0} /\ Threshold \in Nat \ {0}
    /\ Strong \in Nat /\ MinimumSample \in Nat /\ Confirming \in BOOLEAN
-----------------------------------------------------------------------------
Window(asOf, back) == asOf - Span * (back + 1) + 1 .. asOf - Span * back

(* Rows are counted as often as they were read. *)
InWindow(rows, asOf, back) == {i \in DOMAIN rows : rows[i].day \in Window(asOf, back)}

(* The sum of the amounts, after n rows and of all. *)
Sums(rows, counted) ==
    LET sum[n \in 0 .. Len(rows)] ==
            IF n = 0 THEN 0
            ELSE IF n \in counted THEN sum[n - 1] + rows[n].amount ELSE sum[n - 1]
    IN  sum

\* Fault: what a customer pays is taken for what it receives.
Outflow(rows, asOf, back) == 0 - Sums(rows, InWindow(rows, asOf, back))[Len(rows)]

Current(rows, asOf, back) == Sums(rows, InWindow(rows, asOf, back))[Len(rows)]

Least(S) == CHOOSE x \in S : \A y \in S : x <= y

GrowthRate(current, previous) ==
    IF previous < Floor THEN None ELSE <<current - previous, previous>>

(* The windows before this one that the transactions reach back to. *)
History(rows, asOf) ==
    LET first == IF rows = <<>> THEN asOf ELSE Least({rows[i].day : i \in DOMAIN rows})
        full  == (asOf - first + 1) \div Span - 1
    IN  [i \in 1 .. (IF full > 11 THEN 11 ELSE IF full < 0 THEN 0 ELSE full) |-> Current(rows, asOf, i)]

(* Twice the median. *)
Median2(history) ==
    LET n == Len(history)
        Below(x) == Cardinality({i \in 1 .. n : history[i] < x})
        UpTo(x)  == Cardinality({i \in 1 .. n : history[i] <= x})
        Rank(k)  == CHOOSE x \in {history[i] : i \in 1 .. n} : Below(x) < k /\ k <= UpTo(x)
    IN  Rank((n + 1) \div 2) + Rank(n \div 2 + 1)

(* Growth and deviation from the median have the same sign, where both     *)
(* are known, and 83 percent of the days have balances.                    *)
IsCovered(asOf) == 100 * Cardinality(Window(asOf, 0) \cap Covered) >= 83 * Span

SeasonallyAdjusted(rows, asOf, rate) ==
    LET history == History(rows, asOf)
        median2 == Median2(history)
        delta   == 2 * Current(rows, asOf, 0) - median2
    IN  /\ IsCovered(asOf)
        /\ history # <<>> /\ median2 >= 2 * Floor /\ rate # None => (rate[1] >= 0 <=> delta >= 0)

Calculate(rows, asOf) ==
    LET rate == GrowthRate(Current(rows, asOf, 0), Current(rows, asOf, 1)) IN
    [asOf      |-> asOf,
     value     |-> Current(rows, asOf, 0),
     previous  |-> Current(rows, asOf, 1),
     rate      |-> rate,
     sample    |-> Cardinality(InWindow(rows, asOf, 0)),
     quality   |-> IF rate = None THEN "BASELINE_LOW" ELSE IF IsCovered(asOf) THEN "VALID" ELSE "PARTIAL",
     seasonal  |-> SeasonallyAdjusted(rows, asOf, rate)]
-----------------------------------------------------------------------------
(* The rule compares the growth rate with gt. *)
Exceeds(rate) == 100 * rate[1] > Threshold * rate[2]
FarBeyond(rate) == 100 * (100 * rate[1] - Threshold * rate[2]) > Strong * Threshold * rate[2]

Detected(snapshot) ==
    /\ snapshot.quality \notin {"DATA_INVALID", "INSUFFICIENT_HISTORY"}
    /\ snapshot.rate # None
    /\ snapshot.sample >= MinimumSample
    /\ snapshot.seasonal
    /\ Exceeds(snapshot.rate)

Status(snapshot) == IF Confirming \/ FarBeyond(snapshot.rate) THEN "CONFIRMED" ELSE "OBSERVED"
-----------------------------------------------------------------------------
(* The values a vector takes of the snapshot and of the signals, and what  *)
(* it says of its sources.                                                 *)
Ratio(part, whole) == IF whole = 0 THEN <<0, 1>> ELSE <<part, whole>>

Bounded(rate) ==
    IF rate = None THEN <<0, 1>>
    ELSE IF rate[1] > 3 * rate[2] THEN <<3, 1>>
    ELSE IF rate[1] < -rate[2] THEN <<-1, 1>> ELSE rate

(* metric_payload: the metric, and its growth under another code. *)
Payload(snapshot) ==
    LET series == [series |-> TRUE, value |-> <<snapshot.value, 1>>,
                   previous |-> <<snapshot.previous, 1>>, rate |-> snapshot.rate, history |-> <<>>]
        growth == [series |-> FALSE, value |-> snapshot.rate]
    IN  [key \in {<<"inflow_amount", None>>, <<"INFLOW_GROWTH", None>>} |->
            IF key[1] = "inflow_amount" THEN series ELSE growth]

Values(snapshot, statuses) ==
    [growth    |-> Bounded(snapshot.rate),
     activity  |-> snapshot.sample,
     rules     |-> Strength(Served, Payload(snapshot)),
     confirmed |-> Ratio(Cardinality({d \in DOMAIN statuses : statuses[d] = "CONFIRMED"}),
                         Cardinality(DOMAIN statuses))]

SourcesOf(snapshot, statuses) == [asOf |-> snapshot.asOf, signals |-> DOMAIN statuses]
=============================================================================
