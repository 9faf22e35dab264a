----------------------- MODULE DecisionPipelineProofs -----------------------
(***************************************************************************)
(* Theorems about DecisionPipeline, for any number of pipelines, days,     *)
(* transactions and page sizes, and about the rules its features evaluate, *)
(* for every rule and all metrics.                                         *)
(***************************************************************************)
EXTENDS DecisionPipeline, RuleTruth, FiniteSetTheorems, TLAPS

-----------------------------------------------------------------------------
(* Rules: what rule-engine-service and docs/rule-studio.md agree on, and   *)
(* where they part.                                                        *)

(* A condition without negation passes exactly if it is TRUE: no operator    *)
(* of RuleEvaluator.evaluate takes a null for a value.                       *)
LEMMA PassesIsTrue ==
    ASSUME NEW c, NEW given, PositiveCondition(c)
    PROVE  Passes(c, given) <=> Truth(c, given) = "TRUE"
<1> DEFINE metric == given[KeyOf(c, given)]
<1>1. CASE ~Available(c, given)
    BY <1>1 DEF Passes, Truth, Known
<1>2. CASE Available(c, given) /\ (c.operator \in ByEquality => Present(metric) # None)
    BY <1>2 DEF Passes, Truth, Known
<1>3. CASE Available(c, given) /\ c.operator \in ByEquality /\ Present(metric) = None
    <2>1. Truth(c, given) # "TRUE"
        BY <1>3 DEF Truth, Known
    <2>2. c.operator \in {"=", "IN"}
        BY <1>3 DEF PositiveCondition, ByEquality
    <2>3. ASSUME NEW v, v # None PROVE ~Equal(None, v, c.unit)
        BY <2>3, NoneAssumption DEF Equal
    <2>4. Holds(c, metric) = Compares(c.operator, None, c.value, c.unit)
        BY <1>3, <2>2 DEF Holds, Changes
    <2>5. ~Compares(c.operator, None, c.value, c.unit)
        <3>1. CASE c.operator = "="
            BY <3>1, <2>3 DEF Compares, PositiveCondition
        <3>2. CASE c.operator = "IN"
            BY <3>2, <2>3 DEF Compares, PositiveCondition
        <3> QED BY <2>2, <3>1, <3>2
    <2> QED BY <2>1, <2>4, <2>5 DEF Passes
<1> QED BY <1>1, <1>2, <1>3

(* AND and OR of what is TRUE.                                               *)
LEMMA CombineIsTrue ==
    ASSUME NEW logic \in {"AND", "OR"}, NEW S, NEW results, NEW truths,
           DOMAIN results = S, DOMAIN truths = S,
           \A i \in S : results[i] <=> truths[i] = "TRUE"
    PROVE  Combine(logic, results) <=> Combination(logic, truths) = "TRUE"
<1>1. CASE logic = "AND"
    BY <1>1 DEF Combine, Combination
<1>2. CASE logic = "OR"
    BY <1>2 DEF Combine, Combination
<1> QED BY <1>1, <1>2

LEMMA ResultIsTrue ==
    ASSUME NEW node, NEW given, PositiveNode(node)
    PROVE  Result(node, given) <=> NodeTruth(node, given) = "TRUE"
<1>1. CASE IsGroup(node)
    <2> DEFINE S == DOMAIN node.conditions
               results == [i \in S |-> Passes(node.conditions[i], given)]
               truths == [i \in S |-> Truth(node.conditions[i], given)]
    <2>1. \A i \in S : results[i] <=> truths[i] = "TRUE"
        BY <1>1, PassesIsTrue DEF PositiveNode
    <2>2. node.logic \in {"AND", "OR"}
        BY <1>1 DEF PositiveNode
    <2>3. DOMAIN results = S /\ DOMAIN truths = S
        OBVIOUS
    <2> HIDE DEF S, results, truths
    <2>4. Combine(node.logic, results) <=> Combination(node.logic, truths) = "TRUE"
        BY <2>1, <2>2, <2>3, CombineIsTrue
    <2> QED BY <1>1, <2>4 DEF Result, NodeTruth, S, results, truths
<1>2. CASE ~IsGroup(node)
    BY <1>2, PassesIsTrue DEF Result, NodeTruth, PositiveNode
<1> QED BY <1>1, <1>2

(* A rule without NOT, != and NOT_IN matches exactly if it is TRUE in the    *)
(* logic of three values: taking an unavailable metric for FALSE, as         *)
(* RuleEvaluator.evaluate does, is right for these rules.                    *)
THEOREM PositiveRulesAreThreeValued ==
    ASSUME NEW rule, NEW given, Positive(rule)
    PROVE  Matched(rule, given) <=> RuleIsTrue(rule, given)
<1> DEFINE S == DOMAIN rule.conditions
           results == [i \in S |-> Result(rule.conditions[i], given)]
           truths == [i \in S |-> NodeTruth(rule.conditions[i], given)]
<1>1. \A i \in S : results[i] <=> truths[i] = "TRUE"
    BY ResultIsTrue DEF Positive
<1>2. rule.logic \in {"AND", "OR"}
    BY DEF Positive
<1>3. DOMAIN results = S /\ DOMAIN truths = S
    OBVIOUS
<1> HIDE DEF S, results, truths
<1>4. Combine(rule.logic, results) <=> Combination(rule.logic, truths) = "TRUE"
    BY <1>1, <1>2, <1>3, CombineIsTrue
<1> QED BY <1>4 DEF Matched, RuleIsTrue, S, results, truths

(* The negation of a condition whose metric is not available matches, where  *)
(* rule-studio.md:660 keeps it UNKNOWN: the two part on every such rule.     *)
THEOREM NegationOfUnknownMatches ==
    ASSUME NEW rule, NEW given, NEW c,
           rule.logic = "NOT", rule.conditions = <<c>>, ~IsGroup(c), ~Available(c, given)
    PROVE  Matched(rule, given) /\ ~RuleIsTrue(rule, given)
<1> DEFINE results == [i \in {1} |-> Result(c, given)]
           truths == [i \in {1} |-> NodeTruth(c, given)]
<1>1. ~Result(c, given) /\ NodeTruth(c, given) = "UNKNOWN"
    BY DEF Result, Passes, NodeTruth, Truth, Known
<1>2. DOMAIN rule.conditions = {1} /\ rule.conditions[1] = c
    OBVIOUS
<1>3. Matched(rule, given)
    BY <1>1, <1>2 DEF Matched, Combine
<1>4. ~RuleIsTrue(rule, given)
    BY <1>1, <1>2 DEF RuleIsTrue, Combination
<1> QED BY <1>3, <1>4
-----------------------------------------------------------------------------
(* Sums *)

LEMMA NatWF == IsWellFoundedOn({ss \in Nat \X Nat : ss[1] < ss[2]}, Nat)
BY NatLessThanWellFounded DEF OpToRel

\* A set of numbers that holds 0 and the successor of each of its elements holds all.
LEMMA Induction ==
    ASSUME NEW N \in SUBSET Nat, 0 \in N, \A n \in N : n + 1 \in N
    PROVE  N = Nat
<1> DEFINE Smaller == {ss \in Nat \X Nat : ss[1] < ss[2]}
           Rest == Nat \ N
<1> SUFFICES ASSUME Rest # {} PROVE FALSE
    OBVIOUS
<1>1. PICK m \in Rest : \A n \in Rest : <<n, m>> \notin Smaller
    <2>1. IsWellFoundedOn(Smaller, Nat)
        BY NatWF
    <2>2. Rest \subseteq Nat
        OBVIOUS
    <2> HIDE DEF Smaller, Rest
    <2> QED BY <2>1, <2>2, WFMin
<1>2. m \in Nat /\ m # 0
    OBVIOUS
<1>3. m - 1 \in Nat /\ m - 1 < m
    BY <1>2
<1>4. m - 1 \notin Rest
    BY <1>1, <1>2, <1>3
<1>5. m - 1 \in N /\ (m - 1) + 1 = m
    BY <1>2, <1>3, <1>4
<1> QED BY <1>5

\* What g says of the first n rows.
Adds(rows, counted, n, g) ==
    g = [i \in 0..n |-> IF i = 0 THEN 0
                        ELSE IF i \in counted THEN g[i - 1] + rows[i].amount ELSE g[i - 1]]

LEMMA AddsExist ==
    ASSUME NEW rows, NEW counted
    PROVE  \A n \in Nat : \E g : Adds(rows, counted, n, g)
<1> DEFINE N == {n \in Nat : \E g : Adds(rows, counted, n, g)}
<1>1. 0 \in N
    <2>1. Adds(rows, counted, 0, [i \in 0..0 |-> 0])
        BY DEF Adds
    <2> QED BY <2>1
<1>2. ASSUME NEW n \in N PROVE n + 1 \in N
    <2>1. n \in Nat
        OBVIOUS
    <2>2. PICK g : Adds(rows, counted, n, g)
        OBVIOUS
    <2> DEFINE Sum1(prior) == IF n + 1 \in counted THEN prior + rows[n + 1].amount ELSE prior
               h == [i \in 0..(n + 1) |-> IF i = n + 1 THEN Sum1(g[n]) ELSE g[i]]
    <2> HIDE DEF N
    <2>3. \A i \in 0..n : h[i] = g[i]
        BY <2>1
    <2>4. h[n + 1] = Sum1(h[n])
        BY <2>1, <2>3
    <2>5. \A i \in 0..n : g[i] = IF i = 0 THEN 0
                                 ELSE IF i \in counted THEN g[i - 1] + rows[i].amount ELSE g[i - 1]
        BY <2>1, <2>2 DEF Adds
    <2>6. \A i \in 0..(n + 1) : h[i] = IF i = 0 THEN 0
                                       ELSE IF i \in counted THEN h[i - 1] + rows[i].amount ELSE h[i - 1]
        <3> TAKE i \in 0..(n + 1)
        <3>1. CASE i = n + 1
            BY <2>1, <2>4, <3>1
        <3>2. CASE i \in 0..n
            <4>1. i # 0 => i - 1 \in 0..n
                BY <2>1, <3>2
            <4> QED BY <2>3, <2>5, <3>2, <4>1
        <3> QED BY <2>1, <3>1, <3>2
    <2>7. Adds(rows, counted, n + 1, h)
        <3> HIDE DEF h
        <3>1. h = [i \in 0..(n + 1) |-> h[i]]
            BY DEF h
        <3> QED BY <2>6, <3>1 DEF Adds
    <2> QED BY <2>1, <2>7 DEF N
<1>3. N = Nat
    <2>1. N \subseteq Nat
        OBVIOUS
    <2> HIDE DEF N
    <2> QED BY <1>1, <1>2, <2>1, Induction
<1> QED BY <1>3

\* A sum of amounts is a number.
LEMMA SumsAreNumbers ==
    ASSUME NEW rows \in Seq(Ledger), NEW counted
    PROVE  Sums(rows, counted)[Len(rows)] \in Nat
<1> DEFINE g == Sums(rows, counted)
<1>1. Len(rows) \in Nat /\ \A i \in 1..Len(rows) : rows[i].amount \in Nat
    <2> DEFINE R == Ledger
    <2>1. \A t \in R : t.amount \in Nat
        BY PipelineAssumption DEF Ledger
    <2> HIDE DEF R
    <2> QED BY <2>1 DEF R
<1>2. Adds(rows, counted, Len(rows), g)
    <2>1. \E h : Adds(rows, counted, Len(rows), h)
        BY <1>1, AddsExist
    <2> QED BY <2>1 DEF Adds, Sums
<1> HIDE DEF g
<1> DEFINE N == {n \in Nat : n <= Len(rows) => g[n] \in Nat}
<1>3. \A i \in 0..Len(rows) : g[i] = IF i = 0 THEN 0
                                     ELSE IF i \in counted THEN g[i - 1] + rows[i].amount ELSE g[i - 1]
    BY <1>1, <1>2 DEF Adds
<1>4. 0 \in N
    BY <1>1, <1>3
<1>5. ASSUME NEW n \in N PROVE n + 1 \in N
    <2>1. CASE n + 1 <= Len(rows)
        <3>1. g[n] \in Nat /\ n + 1 \in 1..Len(rows) /\ (n + 1) - 1 = n /\ n + 1 # 0
            BY <1>1, <2>1
        <3>2. g[n + 1] = IF n + 1 \in counted THEN g[n] + rows[n + 1].amount ELSE g[n]
            BY <1>1, <1>3, <3>1
        <3> QED BY <1>1, <3>1, <3>2
    <2> QED BY <2>1
<1>6. N = Nat
    <2>1. N \subseteq Nat
        OBVIOUS
    <2> HIDE DEF N
    <2> QED BY <1>4, <1>5, <2>1, Induction
<1>7. g[Len(rows)] \in Nat
    BY <1>1, <1>6
<1> QED BY <1>7 DEF g

\* What is computed of transactions is a snapshot of the day.
LEMMA CalculateIs ==
    ASSUME NEW rows \in Seq(Ledger), NEW day \in Days
    PROVE  /\ Calculate(rows, day) \in Snapshot
           /\ Calculate(rows, day).asOf = day
           /\ Calculate(rows, day).sample = Cardinality(InWindow(rows, day, 0))
<1> DEFINE s == Calculate(rows, day)
           rate == GrowthRate(Current(rows, day, 0), Current(rows, day, 1))
<1>1. Current(rows, day, 0) \in Nat /\ Current(rows, day, 1) \in Nat
    BY SumsAreNumbers DEF Current
<1>2. rate \in Fractions
    <2>1. Current(rows, day, 0) - Current(rows, day, 1) \in Int
        BY <1>1
    <2> QED BY <1>1, <2>1 DEF GrowthRate, Fractions
<1>3. Cardinality(InWindow(rows, day, 0)) \in Nat
    <2>1. IsFiniteSet(1..Len(rows))
        BY FS_Interval
    <2>2. InWindow(rows, day, 0) \subseteq 1..Len(rows)
        BY DEF InWindow
    <2>3. IsFiniteSet(InWindow(rows, day, 0))
        BY <2>1, <2>2, FS_Subset
    <2> QED BY <2>3, FS_CardinalityType
<1>4. SeasonallyAdjusted(rows, day, rate) \in BOOLEAN
    BY DEF SeasonallyAdjusted
<1> QED BY <1>1, <1>2, <1>3, <1>4 DEF Calculate, Snapshot
-----------------------------------------------------------------------------
(* The order of the pages *)

LEMMA LedgerRows ==
    ASSUME NEW t \in Ledger
    PROVE  t.day \in Int /\ t.amount \in Int /\ t = [day |-> t.day, amount |-> t.amount]
<1>1. t.day \in 0..LastDay /\ t.amount \in Amounts
    BY DEF Ledger
<1>2. t = [day |-> t.day, amount |-> t.amount]
    BY DEF Ledger
<1>3. 0..LastDay \subseteq Int /\ Amounts \subseteq Int
    BY PipelineAssumption
<1>4. t.day \in Int /\ t.amount \in Int
    BY <1>1, <1>3
<1> QED BY <1>2, <1>4

\* Value date, then the id: a strict total order.
LEMMA BeforeIsAnOrder ==
    ASSUME NEW s \in Ledger, NEW t \in Ledger, NEW u \in Ledger
    PROVE  /\ ~Before(t, t)
           /\ Before(s, t) /\ Before(t, u) => Before(s, u)
           /\ t # u => Before(t, u) \/ Before(u, t)
<1>1. /\ s.day \in Int /\ s.amount \in Int
      /\ t.day \in Int /\ t.amount \in Int
      /\ u.day \in Int /\ u.amount \in Int
    BY LedgerRows
<1>2. t # u => t.day # u.day \/ t.amount # u.amount
    BY LedgerRows
<1> QED BY <1>1, <1>2 DEF Before

\* The rank of a row is below that of the rows after it, and grows with the set.
LEMMA RankIs ==
    ASSUME NEW S \in SUBSET Ledger, IsFiniteSet(S), NEW t \in Ledger
    PROVE  /\ Rank(t, S) \in Nat
           /\ t \in S => Rank(t, S) < Cardinality(S)
           /\ \A u \in Ledger : t \in S /\ Before(t, u) => Rank(t, S) < Rank(u, S)
           /\ \A T \in SUBSET S : Rank(t, T) <= Rank(t, S)
<1> DEFINE Prior(u) == {s \in S : Before(s, u)}
<1>1. Cardinality(S) \in Nat
    BY FS_CardinalityType
<1>2. \A u \in Ledger : IsFiniteSet(Prior(u)) /\ Cardinality(Prior(u)) = Rank(u, S) /\ Rank(u, S) \in Nat
    <2> TAKE u \in Ledger
    <2>1. Prior(u) \in SUBSET S
        OBVIOUS
    <2>2. IsFiniteSet(Prior(u))
        BY <2>1, FS_Subset
    <2> QED BY <2>2, FS_CardinalityType DEF Rank
<1>3. ASSUME t \in S PROVE Rank(t, S) < Cardinality(S)
    <2>1. Prior(t) \in SUBSET (S \ {t})
        BY BeforeIsAnOrder
    <2>2. IsFiniteSet(S \ {t}) /\ Cardinality(S \ {t}) = Cardinality(S) - 1
        BY <1>3, FS_RemoveElement
    <2>3. Cardinality(Prior(t)) <= Cardinality(S \ {t})
        BY <2>1, <2>2, FS_Subset
    <2> HIDE DEF Prior
    <2> QED BY <1>1, <1>2, <2>2, <2>3
<1>4. ASSUME NEW u \in Ledger, t \in S, Before(t, u) PROVE Rank(t, S) < Rank(u, S)
    <2>1. Prior(t) \cup {t} \in SUBSET Prior(u)
        BY <1>4, BeforeIsAnOrder
    <2>2. t \notin Prior(t)
        BY BeforeIsAnOrder
    <2> HIDE DEF Prior
    <2>3. Cardinality(Prior(t) \cup {t}) = Rank(t, S) + 1
        BY <1>2, <2>2, FS_AddElement
    <2>4. Cardinality(Prior(t) \cup {t}) <= Rank(u, S)
        BY <1>2, <2>1, FS_Subset
    <2> QED BY <1>2, <2>3, <2>4
<1>5. ASSUME NEW T \in SUBSET S PROVE Rank(t, T) <= Rank(t, S)
    <2>1. {s \in T : Before(s, t)} \in SUBSET Prior(t)
        OBVIOUS
    <2> HIDE DEF Prior
    <2> QED BY <1>2, <2>1, FS_Subset DEF Rank
<1> QED BY <1>2, <1>3, <1>4, <1>5

\* Each place of the order has its row, and each row its place.
LEMMA RanksAreTaken ==
    ASSUME NEW S \in SUBSET Ledger, IsFiniteSet(S)
    PROVE  /\ \A i \in 1..Cardinality(S) : \E t \in S : Rank(t, S) = i - 1
           /\ \A t, u \in S : Rank(t, S) = Rank(u, S) => t = u
<1> DEFINE n == Cardinality(S)
           P == 0..(n - 1)
           f == [t \in S |-> Rank(t, S)]
<1>1. n \in Nat
    BY FS_CardinalityType
<1>2. \A t \in S : Rank(t, S) \in Nat /\ Rank(t, S) < n
    BY RankIs
<1>3. \A t, u \in S : Rank(t, S) = Rank(u, S) => t = u
    <2> SUFFICES ASSUME NEW t \in S, NEW u \in S, t # u PROVE Rank(t, S) # Rank(u, S)
        OBVIOUS
    <2>1. Before(t, u) \/ Before(u, t)
        BY BeforeIsAnOrder
    <2>2. /\ Before(t, u) => Rank(t, S) < Rank(u, S)
          /\ Before(u, t) => Rank(u, S) < Rank(t, S)
        BY RankIs
    <2> QED BY <1>2, <2>1, <2>2
<1>4. IsFiniteSet(P) /\ Cardinality(P) = n
    <2>1. 0 \in Int /\ n - 1 \in Int
        BY <1>1
    <2>2. IsFiniteSet(P) /\ Cardinality(P) = IF 0 > n - 1 THEN 0 ELSE (n - 1) - 0 + 1
        BY <2>1, FS_Interval
    <2> QED BY <1>1, <2>2
<1>5. f \in Injection(S, P)
    <2>1. f \in [S -> P]
        BY <1>1, <1>2
    <2> QED BY <1>3, <2>1 DEF Injection, IsInjective
<1> HIDE DEF f, P
<1>6. f \in Surjection(S, P)
    BY <1>4, <1>5, FS_Injection
<1>7. ASSUME NEW i \in 1..n PROVE \E t \in S : Rank(t, S) = i - 1
    <2>1. i - 1 \in P
        BY <1>1 DEF P
    <2>2. \E t \in S : f[t] = i - 1
        BY <1>6, <2>1 DEF Surjection
    <2> QED BY <2>2 DEF f
<1> QED BY <1>3, <1>7 DEF n

\* The pages are of the transactions up to the day, each at the place of its rank.
LEMMA OrderedIs ==
    ASSUME ledger \subseteq Ledger, IsFiniteSet(ledger), NEW day \in Days
    PROVE  /\ UpTo(day) \in SUBSET Ledger /\ IsFiniteSet(UpTo(day))
           /\ Cardinality(UpTo(day)) \in Nat
           /\ Ordered(day) \in Seq(UpTo(day)) /\ Ordered(day) \in Seq(Ledger)
           /\ Len(Ordered(day)) = Cardinality(UpTo(day))
           /\ \A t \in UpTo(day) : Ordered(day)[Rank(t, UpTo(day)) + 1] = t
<1> DEFINE S == UpTo(day)
           n == Cardinality(S)
           o == [i \in 1..n |-> CHOOSE t \in S : Rank(t, S) = i - 1]
<1>1. S \in SUBSET ledger
    BY DEF UpTo
<1>2. S \in SUBSET Ledger /\ IsFiniteSet(S)
    BY <1>1, FS_Subset
<1>3. n \in Nat
    BY <1>2, FS_CardinalityType
<1>4. Ordered(day) = o
    BY DEF Ordered
<1> HIDE DEF S
<1>5. \A i \in 1..n : o[i] \in S /\ Rank(o[i], S) = i - 1
    BY <1>2, RanksAreTaken
<1>6. o \in [1..n -> S]
    BY <1>5
<1>7. /\ o \in Seq(S) /\ Len(o) = n
      /\ o \in Seq(Ledger)
    <2>1. o \in [1..n -> Ledger]
        BY <1>2, <1>6
    <2> DEFINE R == Ledger
    <2> HIDE DEF o, n, R
    <2> QED BY <1>3, <1>6, <2>1 DEF R
<1>9. ASSUME NEW t \in S PROVE o[Rank(t, S) + 1] = t
    <2>1. Rank(t, S) \in Nat /\ Rank(t, S) < n
        BY <1>2, RankIs
    <2>2. Rank(t, S) + 1 \in 1..n /\ (Rank(t, S) + 1) - 1 = Rank(t, S)
        BY <1>3, <2>1
    <2> HIDE DEF o
    <2>3. o[Rank(t, S) + 1] \in S /\ Rank(o[Rank(t, S) + 1], S) = Rank(t, S)
        BY <1>5, <2>2
    <2> QED BY <1>2, <2>3, RanksAreTaken
<1> HIDE DEF o, n
<1>10. Ordered(day) \in Seq(S) /\ Ordered(day) \in Seq(Ledger) /\ Len(Ordered(day)) = n
    BY <1>4, <1>7
<1>11. \A t \in S : Ordered(day)[Rank(t, S) + 1] = t
    BY <1>4, <1>9
<1> QED BY <1>2, <1>3, <1>10, <1>11 DEF S, n
-----------------------------------------------------------------------------
(* The requests *)

Typed(q) ==
    /\ DOMAIN q = DOMAIN Unused
    /\ q.stage \in Stages /\ q.pc \in PCs /\ q.caller \in Callers
    /\ q.day \in Days /\ q.began \subseteq Ledger /\ q.alone \in BOOLEAN

IInv == Shape /\ TypeOK /\ PointInv

LEMMA Fields ==
    ASSUME NEW q, DOMAIN q = DOMAIN Unused
    PROVE  DOMAIN q = {"stage", "day", "pc", "caller", "rows", "snapshot", "statuses", "row", "value", "began", "alone"}
BY DEF Unused

LEMMA RunIs ==
    ASSUME IInv, NEW r \in Runs
    PROVE  /\ DOMAIN run = Runs /\ Typed(run[r]) /\ RunOK(run[r])
           /\ run[r].day \in Days /\ DOMAIN run[r] = DOMAIN Unused
BY DEF IInv, Shape, TypeOK, PointInv, Typed

LEMMA DaysAre ==
    /\ 1 \in Days
    /\ \A d \in Days : d \in Nat /\ 1..d \subseteq Days
BY PipelineAssumption DEF Days

LEMMA UnusedIs ==
    /\ Typed(Unused) /\ Unused.stage = "analytics" /\ Unused.pc = "over" /\ Unused.rows = <<>>
    /\ Unused.caller = "nobody" /\ Unused.alone = FALSE /\ Unused.day = 1
    /\ <<>> \in Seq(Ledger)
<1>1. <<>> \in Seq(Ledger)
    OBVIOUS
<1> QED BY <1>1, DaysAre DEF Typed, Unused, Stages, PCs, Callers

LEMMA UnusedOK == RunOK(Unused)
BY UnusedIs DEF RunOK

\* A row is none of those of the tables.
LEMMA NoRowIs ==
    /\ \A s \in Snapshot : s # NoRow
    /\ \A s \in Signal : s # NoRow
    /\ \A v, d : VectorFor(v, d) => v # NoRow
<1>1. DOMAIN NoRow = {}
    BY DEF NoRow
<1>2. \A s \in Snapshot : "asOf" \in DOMAIN s
    BY DEF Snapshot
<1>3. \A s \in Signal : "from" \in DOMAIN s
    BY DEF Signal
<1>4. \A v, d : VectorFor(v, d) => "sources" \in DOMAIN v
    BY DEF VectorFor
<1> QED BY <1>1, <1>2, <1>3, <1>4

\* A request as it comes to the next service.
LEMMA ArrivesIs ==
    ASSUME NEW q, Typed(q), NEW stage \in Stages, NEW value
    PROVE  LET a == Arrives(q, stage, value)
           IN  /\ Typed(a) /\ a.stage = stage /\ a.pc = "read" /\ a.rows = <<>>
               /\ a.value = value /\ a.row = NoRow /\ a.caller = q.caller /\ a.day = q.day /\ a.alone = q.alone
               /\ a.began \subseteq q.began
               /\ q.alone => a.began = q.began
<1> DEFINE a == Arrives(q, stage, value)
<1>1. DOMAIN q = DOMAIN Unused
    BY DEF Typed
<1>2. /\ DOMAIN a = DOMAIN q /\ a.stage = stage /\ a.pc = "read" /\ a.rows = <<>>
      /\ a.value = value /\ a.row = NoRow /\ a.caller = q.caller /\ a.day = q.day /\ a.alone = q.alone
      /\ a.began = IF q.alone THEN q.began ELSE {}
    BY <1>1, Fields DEF Arrives
<1> HIDE DEF a
<1>3. Typed(a)
    BY <1>2 DEF Typed, PCs
<1> QED BY <1>2, <1>3 DEF a

\* Who is answered is nobody, at the next service, or done.
LEMMA AnsweredIs ==
    ASSUME NEW q, Typed(q)
    PROVE  LET a == Answered(q)
           IN  /\ Typed(a)
               /\ \/ a = Unused
                  \/ /\ a.pc = "read" /\ a.row = NoRow /\ a.stage # "analytics" /\ a.day = q.day /\ a.alone = q.alone
                     /\ a.stage = "score" => q.stage = "feature" /\ a.value = q.value
                     /\ a.stage = "signal" => q.stage = "analytics"
                     /\ a.stage = "feature" => q.stage = "signal"
                     /\ q.alone => a.began = q.began
                  \/ /\ a.pc = "completed" /\ a.stage = "analytics" /\ a.rows = <<>> /\ a.day = q.day /\ q.stage = "score"
                     /\ a.value = q.value /\ q.alone /\ a.alone = TRUE /\ a.began = q.began
<1> DEFINE a == Answered(q)
           done == [Unused EXCEPT !.pc = "completed", !.day = q.day, !.value = q.value,
                                  !.began = q.began, !.alone = TRUE]
<1>1. q.stage \in Stages
    BY DEF Typed
<1>2. CASE q.stage = "analytics" /\ q.caller = "client"
    <2>1. a = Arrives(q, "signal", NoRow) /\ a # Unused
        <3>1. a = Arrives(q, "signal", NoRow)
            BY <1>2 DEF Answered
        <3>2. Arrives(q, "signal", NoRow).pc = "read"
            BY ArrivesIs DEF Stages
        <3> QED BY <3>1, <3>2, UnusedIs
    <2>2. /\ Typed(a) /\ a.stage = "signal" /\ a.pc = "read" /\ a.row = NoRow /\ a.value = NoRow
          /\ a.day = q.day /\ a.alone = q.alone
          /\ q.alone => a.began = q.began
        BY <2>1, ArrivesIs DEF Stages
    <2> HIDE DEF a
    <2> QED BY <1>2, <2>2 DEF a
<1>3. CASE q.stage = "signal" /\ q.caller = "client"
    <2>1. a = Arrives(q, "feature", NoRow) /\ a # Unused
        <3>1. a = Arrives(q, "feature", NoRow)
            BY <1>3 DEF Answered
        <3>2. Arrives(q, "feature", NoRow).pc = "read"
            BY ArrivesIs DEF Stages
        <3> QED BY <3>1, <3>2, UnusedIs
    <2>2. /\ Typed(a) /\ a.stage = "feature" /\ a.pc = "read" /\ a.row = NoRow /\ a.value = NoRow
          /\ a.day = q.day /\ a.alone = q.alone
          /\ q.alone => a.began = q.began
        BY <2>1, ArrivesIs DEF Stages
    <2> HIDE DEF a
    <2> QED BY <1>3, <2>2 DEF a
<1>4. CASE q.stage = "feature" /\ q.caller # "nobody"
    <2>1. a = Arrives(q, "score", q.value) /\ a # Unused
        <3>1. a = Arrives(q, "score", q.value)
            BY <1>4 DEF Answered
        <3>2. Arrives(q, "score", q.value).pc = "read"
            BY ArrivesIs DEF Stages
        <3> QED BY <3>1, <3>2, UnusedIs
    <2>2. /\ Typed(a) /\ a.stage = "score" /\ a.pc = "read" /\ a.row = NoRow /\ a.value = q.value
          /\ a.day = q.day /\ a.alone = q.alone
          /\ q.alone => a.began = q.began
        BY <2>1, ArrivesIs DEF Stages
    <2> HIDE DEF a
    <2> QED BY <1>4, <2>2 DEF a
<1>5. CASE q.stage = "score" /\ q.caller = "client" /\ q.alone
    <2>1. a = done
        BY <1>5 DEF Answered
    <2>2. /\ DOMAIN done = DOMAIN Unused /\ done.pc = "completed" /\ done.day = q.day /\ done.value = q.value
          /\ done.began = q.began /\ done.alone = TRUE /\ done.stage = "analytics" /\ done.caller = "nobody"
          /\ done.rows = <<>>
        BY DEF Unused
    <2> HIDE DEF done, a
    <2>3. Typed(done)
        BY <2>2 DEF Typed, Stages, PCs, Callers
    <2> QED BY <1>5, <2>1, <2>2, <2>3 DEF a
<1>6. CASE ~ (q.stage = "analytics" /\ q.caller = "client") /\ ~ (q.stage = "signal" /\ q.caller = "client")
           /\ ~ (q.stage = "feature" /\ q.caller # "nobody") /\ ~ (q.stage = "score" /\ q.caller = "client" /\ q.alone)
    <2>1. a = Unused
        BY <1>6 DEF Answered
    <2> HIDE DEF a
    <2> QED BY <2>1, UnusedIs DEF a
<1> QED BY <1>2, <1>3, <1>4, <1>5, <1>6
-----------------------------------------------------------------------------
(* Steps that leave the tables as they are *)

LEMMA RunsMove ==
    ASSUME IInv, UNCHANGED <<tables, early>>,
           DOMAIN run' = Runs, \A r \in Runs : Typed(run'[r]) /\ RunOK(run'[r]),
           ledger' \subseteq Ledger, IsFiniteSet(ledger'), today' \in Days, starts' \in 0 .. MaxStarts,
           \A e \in ending' : early /\ e.stage \in Stages /\ e.day \in Days /\ Storable(e.stage, e.day, e.row)
    PROVE  IInv'
<1>1. metrics' = metrics /\ signals' = signals /\ features' = features /\ scores' = scores /\ early' = early
    BY DEF tables
<1>2. Shape'
    BY <1>1 DEF IInv, Shape, Typed
<1>3. TypeOK'
    BY <1>1 DEF IInv, TypeOK, Typed
<1>4. PointInv'
    <2>1. ASSUME NEW r \in Runs PROVE RunOK(run[r])'
        <3>1. RunOK(run'[r])
            OBVIOUS
        <3> QED BY ONLY <1>1, <3>1 DEF RunOK, Storable, VectorFor, Signalled
    <2>2. ASSUME NEW e \in ending' PROVE early' /\ Storable(e.stage, e.day, e.row)'
        <3>1. early /\ Storable(e.stage, e.day, e.row)
            OBVIOUS
        <3> QED BY ONLY <1>1, <3>1 DEF Storable, VectorFor, Signalled
    <2> QED BY <1>1, <2>1, <2>2 DEF IInv, PointInv, Storable, VectorFor, Signalled
<1> QED BY <1>2, <1>3, <1>4 DEF IInv

Moves(r, q) ==
    /\ DOMAIN run' = Runs /\ run'[r] = q
    /\ \A o \in Runs \ {r} : run'[o] = run[o]

Steady == UNCHANGED <<today, ledger, tables, starts, early>>

LEMMA SteadyIs ==
    ASSUME Steady
    PROVE  /\ metrics' = metrics /\ signals' = signals /\ features' = features /\ scores' = scores
           /\ ledger' = ledger /\ early' = early /\ today' = today /\ starts' = starts
BY DEF Steady, tables

LEMMA KeptByMove ==
    ASSUME IInv, NEW r \in Runs, NEW q, Steady, Moves(r, q), Typed(q), RunOK(q),
           \A e \in ending' \ ending : early /\ e.stage \in Stages /\ e.day \in Days /\ Storable(e.stage, e.day, e.row)
    PROVE  IInv'
<1>1. DOMAIN run' = Runs /\ \A o \in Runs : Typed(run'[o]) /\ RunOK(run'[o])
    BY RunIs DEF Moves
<1>2. ledger' \subseteq Ledger /\ IsFiniteSet(ledger') /\ today' \in Days /\ starts' \in 0 .. MaxStarts
    BY SteadyIs DEF IInv, Shape, TypeOK
<1>3. \A e \in ending' : early /\ e.stage \in Stages /\ e.day \in Days /\ Storable(e.stage, e.day, e.row)
    BY DEF IInv, TypeOK, PointInv
<1>4. UNCHANGED <<tables, early>>
    BY DEF Steady
<1> QED BY <1>1, <1>2, <1>3, <1>4, RunsMove

\* What a handler may return.
Returnable(q) ==
    /\ Typed(q) /\ Storable(q.stage, q.day, q.row)
    /\ q.stage = "analytics" => q.rows \in Seq(Ledger)
    /\ q.stage \in {"feature", "score"} => VectorFor(q.value, q.day)
    /\ ~early /\ q.stage # "analytics" => metrics[q.day] # NoRow

LEMMA AnsweredOK ==
    ASSUME NEW q, Returnable(q), early
    PROVE  Typed(Answered(q)) /\ RunOK(Answered(q))
<1> DEFINE a == Answered(q)
<1>1. Typed(q)
    BY DEF Returnable
<1>2. CASE a = Unused
    BY <1>2, UnusedIs, UnusedOK
<1>3. CASE a # Unused
    <2>1. /\ Typed(a) /\ a.day = q.day
          /\ \/ /\ a.pc = "read" /\ a.row = NoRow /\ a.stage # "analytics"
                /\ a.stage = "score" => q.stage = "feature" /\ a.value = q.value
             \/ a.pc = "completed" /\ a.stage = "analytics" /\ a.rows = <<>>
        BY <1>1, <1>3, AnsweredIs
    <2> HIDE DEF a
    <2>2. a.stage = "score" => VectorFor(a.value, a.day)
        BY <2>1 DEF Returnable
    <2> QED BY <2>1, <2>2, UnusedIs DEF RunOK, a
<1> QED BY <1>2, <1>3

LEMMA ClosingIs ==
    ASSUME NEW q, Typed(q)
    PROVE  LET c == [q EXCEPT !.pc = "closing"]
           IN  /\ Typed(c) /\ c.pc = "closing" /\ c.stage = q.stage /\ c.day = q.day /\ c.row = q.row
               /\ c.rows = q.rows /\ c.value = q.value /\ c.began = q.began /\ c.alone = q.alone
<1> DEFINE c == [q EXCEPT !.pc = "closing"]
<1>1. /\ DOMAIN c = DOMAIN Unused /\ c.pc = "closing" /\ c.stage = q.stage /\ c.day = q.day /\ c.row = q.row
      /\ c.rows = q.rows /\ c.value = q.value /\ c.began = q.began /\ c.alone = q.alone /\ c.caller = q.caller
    BY Fields DEF Typed
<1> HIDE DEF c
<1>2. Typed(c)
    BY <1>1 DEF Typed, PCs
<1> QED BY <1>1, <1>2 DEF c

LEMMA KeptByReturn ==
    ASSUME IInv, NEW r \in Runs, NEW q, Steady, Return(r, q), Returnable(q)
    PROVE  IInv'
<1>1. CASE early
    <2>1. Moves(r, Answered(q))
        BY <1>1, RunIs DEF Return, Moves
    <2>2. Typed(Answered(q)) /\ RunOK(Answered(q))
        BY <1>1, AnsweredOK
    <2>3. ending' = ending \cup {[stage |-> q.stage, day |-> q.day, row |-> q.row]}
        BY <1>1 DEF Return
    <2>4. \A e \in ending' \ ending : early /\ e.stage \in Stages /\ e.day \in Days /\ Storable(e.stage, e.day, e.row)
        BY <1>1, <2>3 DEF Returnable, Typed
    <2> QED BY <2>1, <2>2, <2>4, KeptByMove
<1>2. CASE ~early
    <2> DEFINE c == [q EXCEPT !.pc = "closing"]
    <2>1. Moves(r, c) /\ ending' = ending
        BY <1>2, RunIs DEF Return, Moves
    <2>2. /\ Typed(c) /\ c.pc = "closing" /\ c.stage = q.stage /\ c.day = q.day /\ c.row = q.row
          /\ c.rows = q.rows /\ c.value = q.value
        BY ClosingIs DEF Returnable
    <2> HIDE DEF c
    <2>3. RunOK(c)
        BY <2>2 DEF RunOK, Returnable
    <2> QED BY <2>1, <2>2, <2>3, KeptByMove
<1> QED BY <1>1, <1>2
-----------------------------------------------------------------------------
(* The steps of a request *)

\* The least and the greatest of some days.
LEMMA LeastIs ==
    ASSUME NEW S \in SUBSET Nat, S # {}
    PROVE  \E d \in S : \A e \in S : d <= e
<1> DEFINE Smaller == {ss \in Nat \X Nat : ss[1] < ss[2]}
<1>1. PICK d \in S : \A e \in S : <<e, d>> \notin Smaller
    <2>1. IsWellFoundedOn(Smaller, Nat)
        BY NatWF
    <2> HIDE DEF Smaller
    <2> QED BY <2>1, WFMin
<1>2. ASSUME NEW e \in S PROVE d <= e
    <2>1. e \in Nat /\ d \in Nat
        OBVIOUS
    <2>2. ~ e < d
        BY <1>1, <2>1
    <2> QED BY <2>1, <2>2
<1> QED BY <1>2

LEMMA GreatestIs ==
    ASSUME NEW n \in Nat, NEW S \in SUBSET (1..n), S # {}
    PROVE  \E d \in S : \A e \in S : e <= d
<1> DEFINE T == {n - e : e \in S}
<1>1. PICK t \in T : \A u \in T : t <= u
    <2>1. T \in SUBSET Nat /\ T # {}
        <3>1. \A e \in S : n - e \in Nat
            OBVIOUS
        <3> QED BY <3>1
    <2> HIDE DEF T
    <2> QED BY <2>1, LeastIs
<1>2. PICK d \in S : t = n - d
    OBVIOUS
<1>3. ASSUME NEW e \in S PROVE e <= d
    <2>1. n - d <= n - e
        BY <1>1, <1>2
    <2> QED BY <2>1
<1> QED BY <1>3

\* The metrics that signals are evaluated on.
LEMMA ObservedIs ==
    ASSUME IInv, Computed # {}
    PROVE  \E d \in Computed : /\ Observed = metrics[d] /\ Observed \in Snapshot /\ Observed.asOf = d
                               /\ \A e \in Computed : d <= e
<1> DEFINE d == CHOOSE d \in Computed : \A e \in Computed : d <= e
<1>1. Computed \in SUBSET Days /\ Computed \in SUBSET Nat
    BY DaysAre DEF Computed
<1>2. d \in Computed /\ \A e \in Computed : d <= e
    <2>1. \E m \in Computed : \A e \in Computed : m <= e
        BY <1>1, LeastIs
    <2> QED BY <2>1
<1>3. Observed = metrics[d]
    BY DEF Observed
<1> HIDE DEF d
<1>4. metrics[d] \in Snapshot /\ metrics[d].asOf = d
    BY <1>1, <1>2 DEF IInv, PointInv, Storable, Computed
<1> QED BY <1>2, <1>3, <1>4

\* The metrics that the features of a day are built of.
LEMMA LatestIs ==
    ASSUME IInv, NEW day \in Days, \E d \in Computed : d <= day
    PROVE  /\ Latest(day) \in Computed /\ Latest(day) <= day
           /\ metrics[Latest(day)] \in Snapshot /\ metrics[Latest(day)].asOf = Latest(day)
           /\ \A e \in Computed : e <= day => e <= Latest(day)
<1> DEFINE S == Computed \cap 1..day
<1>1. Computed \in SUBSET Days /\ day \in Nat /\ \A d \in Days : d \in Nat /\ d >= 1
    BY DaysAre DEF Computed, Days
<1>2. Latest(day) \in S /\ \A e \in S : e <= Latest(day)
    <2>1. S # {} /\ S \in SUBSET (1..day)
        BY <1>1
    <2> HIDE DEF S
    <2>2. \E m \in S : \A e \in S : e <= m
        BY <1>1, <2>1, GreatestIs
    <2> QED BY <2>2 DEF Latest, S
<1>3. metrics[Latest(day)] \in Snapshot /\ metrics[Latest(day)].asOf = Latest(day)
    BY <1>1, <1>2 DEF IInv, PointInv, Storable, Computed
<1>4. \A e \in Computed : e <= day => e \in S
    BY <1>1
<1> HIDE DEF S
<1>5. Latest(day) \in Computed /\ Latest(day) <= day
    BY <1>1, <1>2 DEF S
<1> QED BY <1>2, <1>3, <1>4, <1>5

\* A page after the rows read, of a sequence all, up to a place of it.
LEMMA Paged ==
    ASSUME NEW A, NEW rows \in Seq(A), NEW all \in Seq(A), NEW to \in Nat, to <= Len(all)
    PROVE  /\ rows \o SubSeq(all, Len(rows) + 1, to) \in Seq(A)
           /\ Len(rows) <= to => Len(rows \o SubSeq(all, Len(rows) + 1, to)) = to
           /\ \A i \in 1..Len(rows) : (rows \o SubSeq(all, Len(rows) + 1, to))[i] = rows[i]
           /\ Len(rows) <= to => \A i \in (Len(rows) + 1)..to :
                                    (rows \o SubSeq(all, Len(rows) + 1, to))[i] = all[i]
<1> DEFINE n    == Len(rows)
           page == SubSeq(all, n + 1, to)
           next == rows \o page
<1>1. n \in Nat
    OBVIOUS
<1>2. page \in Seq(A)
    <2>1. \A i \in (n + 1)..to : all[i] \in A
        BY <1>1
    <2> QED BY <1>1, <2>1
<1>3. n <= to => /\ Len(page) = to - n
                 /\ \A i \in 1..(to - n) : page[i] = all[i + n]
    BY <1>1
<1> HIDE DEF page
<1>4. Len(page) \in Nat /\ next \in Seq(A)
    BY <1>2
<1>5. Len(next) = n + Len(page)
    BY <1>2
<1>6. \A i \in 1..n : next[i] = rows[i]
    BY <1>2
<1>7. ASSUME n <= to, NEW i \in (n + 1)..to PROVE next[i] = all[i]
    <2>1. i - n \in 1..(to - n) /\ (i - n) + n = i
        BY <1>1, <1>7
    <2>2. next[i] = page[i - n]
        BY <1>1, <1>2, <1>3, <1>7, <2>1
    <2> QED BY <1>3, <1>7, <2>1, <2>2
<1> HIDE DEF next, n
<1>8. n <= to => Len(next) = to
    BY <1>1, <1>3, <1>4, <1>5
<1> QED BY <1>4, <1>6, <1>7, <1>8 DEF next, n, page

\* What a page adds to the rows of a recompute.
LEMMA PageIs ==
    ASSUME IInv, NEW r \in Runs, ReadPage(r)
    PROVE  LET q    == run[r]
               all  == Ordered(q.day)
               n    == Len(q.rows)
               rows == run'[r].rows
           IN  \E to \in Nat :
                 /\ to <= Len(all) /\ (Len(all) > to => to >= n)
                 /\ rows \in Seq(Ledger)
                 /\ n <= to => Len(rows) = to
                 /\ \A i \in 1..n : rows[i] = q.rows[i]
                 /\ n <= to => \A i \in (n + 1)..to : rows[i] = all[i]
                 /\ n <= Len(all) => n <= to
                 /\ run'[r].pc = (IF Len(all) > to THEN "read" ELSE "write")
                 /\ run'[r].value = (IF Len(all) > to THEN NoRow ELSE Calculate(rows, q.day))
                 /\ run'[r].stage = "analytics" /\ run'[r].day = q.day /\ run'[r].caller = q.caller
                 /\ run'[r].row = q.row /\ run'[r].began = q.began /\ run'[r].alone = q.alone
                 /\ DOMAIN run'[r] = DOMAIN Unused
                 /\ Moves(r, run'[r]) /\ Steady /\ ending' = ending
                 /\ q.stage = "analytics" /\ q.pc = "read"
<1> DEFINE q    == run[r]
           all  == Ordered(q.day)
           n    == Len(q.rows)
           to   == IF n + PageSize < Len(all) THEN n + PageSize ELSE Len(all)
           rows == q.rows \o SubSeq(all, n + 1, to)
<1>1. /\ Typed(q) /\ RunOK(q) /\ q.day \in Days /\ DOMAIN q = DOMAIN Unused /\ DOMAIN run = Runs
      /\ q.stage = "analytics" /\ q.pc = "read"
    BY RunIs DEF ReadPage, At
<1>2. /\ run' = [run EXCEPT ![r].rows = rows,
                            ![r].pc = IF Len(all) > to THEN "read" ELSE "write",
                            ![r].value = IF Len(all) > to THEN NoRow ELSE Calculate(rows, q.day)]
      /\ Steady /\ ending' = ending
    BY DEF ReadPage, Offset, Steady
<1>3. all \in Seq(Ledger) /\ q.rows \in Seq(Ledger)
    BY <1>1, OrderedIs DEF IInv, Shape, TypeOK, RunOK
<1>4. PageSize \in Nat /\ PageSize > 0
    BY PipelineAssumption
<1> HIDE DEF q, all
<1>5. /\ to \in Nat /\ to <= Len(all) /\ (Len(all) > to => to >= n) /\ (n <= Len(all) => n <= to)
    BY <1>3, <1>4
<1> HIDE DEF to
<1>6. /\ rows \in Seq(Ledger)
      /\ n <= to => Len(rows) = to
      /\ \A i \in 1..n : rows[i] = q.rows[i]
      /\ n <= to => \A i \in (n + 1)..to : rows[i] = all[i]
    <2> DEFINE R == Ledger
    <2> HIDE DEF R
    <2>1. all \in Seq(R) /\ q.rows \in Seq(R)
        BY <1>3 DEF R
    <2>2. /\ rows \in Seq(R)
          /\ n <= to => Len(rows) = to
          /\ \A i \in 1..n : rows[i] = q.rows[i]
          /\ n <= to => \A i \in (n + 1)..to : rows[i] = all[i]
        <3> DEFINE x == q.rows
        <3>1. x \in Seq(R) /\ all \in Seq(R) /\ to \in Nat /\ to <= Len(all)
            BY <1>5, <2>1
        <3> HIDE DEF x
        <3>2. /\ x \o SubSeq(all, Len(x) + 1, to) \in Seq(R)
              /\ Len(x) <= to => Len(x \o SubSeq(all, Len(x) + 1, to)) = to
              /\ \A i \in 1..Len(x) : (x \o SubSeq(all, Len(x) + 1, to))[i] = x[i]
              /\ Len(x) <= to => \A i \in (Len(x) + 1)..to :
                                    (x \o SubSeq(all, Len(x) + 1, to))[i] = all[i]
            BY ONLY <3>1, Paged
        <3> QED BY <3>2 DEF x
    <2> QED BY <2>2 DEF R
<1> HIDE DEF rows, n
<1>7. /\ run'[r].rows = rows
      /\ run'[r].pc = (IF Len(all) > to THEN "read" ELSE "write")
      /\ run'[r].value = (IF Len(all) > to THEN NoRow ELSE Calculate(rows, q.day))
      /\ run'[r].stage = q.stage /\ run'[r].day = q.day /\ run'[r].caller = q.caller
      /\ run'[r].row = q.row /\ run'[r].began = q.began /\ run'[r].alone = q.alone
      /\ DOMAIN run'[r] = DOMAIN Unused
    <2>1. DOMAIN q = {"stage", "day", "pc", "caller", "rows", "snapshot", "statuses", "row", "value", "began", "alone"}
        BY <1>1, Fields
    <2> QED BY <1>1, <1>2, <2>1 DEF q
<1>8. Moves(r, run'[r])
    BY <1>1, <1>2 DEF Moves
<1> QED BY <1>1, <1>2, <1>5, <1>6, <1>7, <1>8 DEF q, all, n

LEMMA ReadPageStep ==
    ASSUME IInv, NEW r \in Runs, ReadPage(r)
    PROVE  IInv'
<1> DEFINE q == run'[r]
<1>1. /\ Typed(run[r]) /\ RunOK(run[r])
      /\ run[r].stage = "analytics" /\ run[r].pc = "read"
    BY RunIs DEF ReadPage, At
<1>2. /\ Moves(r, q) /\ Steady /\ ending' = ending
      /\ DOMAIN q = DOMAIN Unused /\ q.stage = "analytics" /\ q.day = run[r].day /\ q.caller = run[r].caller
      /\ q.row = run[r].row /\ q.began = run[r].began /\ q.alone = run[r].alone
      /\ q.rows \in Seq(Ledger)
      /\ q.pc = "read" \/ (q.pc = "write" /\ q.value = Calculate(q.rows, q.day))
    <2> DEFINE all == Ordered(run[r].day)
               n   == Len(run[r].rows)
    <2> HIDE DEF all, n
    <2>1. \E to \in Nat :
             /\ q.rows \in Seq(Ledger)
             /\ q.pc = (IF Len(all) > to THEN "read" ELSE "write")
             /\ q.value = (IF Len(all) > to THEN NoRow ELSE Calculate(q.rows, run[r].day))
             /\ q.stage = "analytics" /\ q.day = run[r].day /\ q.caller = run[r].caller
             /\ q.row = run[r].row /\ q.began = run[r].began /\ q.alone = run[r].alone
             /\ DOMAIN q = DOMAIN Unused
             /\ Moves(r, q) /\ Steady /\ ending' = ending
        BY PageIs DEF all
    <2> HIDE DEF q
    <2> QED BY <2>1
<1> HIDE DEF q
<1>3. Typed(q)
    BY <1>1, <1>2 DEF Typed, PCs
<1>4. Calculate(q.rows, q.day) \in Snapshot /\ Calculate(q.rows, q.day).asOf = q.day
    BY <1>2, <1>3, CalculateIs DEF Typed
<1>5. RunOK(q)
    BY <1>1, <1>2, <1>4 DEF RunOK, Storable
<1> QED BY <1>2, <1>3, <1>5, KeptByMove

LEMMA FailsStep ==
    ASSUME IInv, NEW r \in Runs, Fails(r)
    PROVE  IInv'
<1>1. Moves(r, Unused) /\ Steady /\ ending' = ending
    BY RunIs DEF Fails, Moves, Steady
<1> QED BY <1>1, UnusedIs, UnusedOK, KeptByMove

LEMMA TimeoutIs ==
    ASSUME IInv, NEW r \in Runs, Timeout(r)
    PROVE  /\ Moves(r, run'[r]) /\ Steady /\ ending' = ending /\ Typed(run'[r])
           /\ run[r].pc \notin {"completed", "over"}
           /\ run'[r].stage = run[r].stage /\ run'[r].day = run[r].day /\ run'[r].pc = run[r].pc
           /\ run'[r].rows = run[r].rows /\ run'[r].snapshot = run[r].snapshot /\ run'[r].statuses = run[r].statuses
           /\ run'[r].row = run[r].row /\ run'[r].value = run[r].value
           /\ run'[r].began = run[r].began /\ run'[r].alone = run[r].alone
<1>1. PICK c \in {"engine", "nobody"} : run' = [run EXCEPT ![r].caller = c]
    BY DEF Timeout
<1>2. DOMAIN run = Runs /\ Typed(run[r]) /\ DOMAIN run[r] = DOMAIN Unused
    BY RunIs
<1>3. /\ run'[r].stage = run[r].stage /\ run'[r].day = run[r].day /\ run'[r].pc = run[r].pc
      /\ run'[r].rows = run[r].rows /\ run'[r].snapshot = run[r].snapshot /\ run'[r].statuses = run[r].statuses
      /\ run'[r].row = run[r].row /\ run'[r].value = run[r].value
      /\ run'[r].began = run[r].began /\ run'[r].alone = run[r].alone
      /\ run'[r].caller = c /\ DOMAIN run'[r] = DOMAIN Unused
    <2>1. DOMAIN run[r] = {"stage", "day", "pc", "caller", "rows", "snapshot", "statuses", "row", "value", "began", "alone"}
        BY <1>2, Fields
    <2> QED BY <1>1, <1>2, <2>1
<1>4. Typed(run'[r])
    BY <1>2, <1>3 DEF Typed, Callers
<1> QED BY <1>1, <1>2, <1>3, <1>4 DEF Moves, Timeout, Steady, Idle

LEMMA TimeoutStep ==
    ASSUME IInv, NEW r \in Runs, Timeout(r)
    PROVE  IInv'
<1> DEFINE q == run'[r]
<1>1. /\ Moves(r, q) /\ Steady /\ ending' = ending /\ Typed(q)
      /\ q.stage = run[r].stage /\ q.day = run[r].day /\ q.pc = run[r].pc
      /\ q.rows = run[r].rows /\ q.snapshot = run[r].snapshot /\ q.statuses = run[r].statuses
      /\ q.row = run[r].row /\ q.value = run[r].value
    BY TimeoutIs
<1>2. RunOK(run[r])
    BY RunIs
<1> HIDE DEF q
<1>3. RunOK(q)
    BY <1>1, <1>2 DEF RunOK
<1> QED BY <1>1, <1>3, KeptByMove

LEMMA EvaluateStep ==
    ASSUME IInv, NEW r \in Runs, Evaluate(r)
    PROVE  IInv'
<1> DEFINE p == run[r]
           q == [p EXCEPT !.pc = "write", !.value = [status |-> Status(Observed), from |-> Observed.asOf]]
<1>1. /\ DOMAIN run = Runs /\ Typed(p) /\ RunOK(p) /\ p.day \in Days /\ p.stage = "signal" /\ p.pc = "read"
      /\ Steady
    BY RunIs DEF Evaluate, At, Steady
<1>2. CASE Computed # {} /\ Detected(Observed)
    <2>1. Moves(r, q) /\ ending' = ending
        BY <1>1, <1>2 DEF Evaluate, Moves
    <2>2. PICK d \in Computed : /\ Observed = metrics[d] /\ Observed.asOf = d
                                /\ \A e \in Computed : d <= e
        BY <1>2, ObservedIs
    <2>3. d \in Days /\ (~early => d <= p.day)
        <3>1. ~early => p.day \in Computed
            BY <1>1 DEF RunOK, Computed
        <3> QED BY <2>2, <3>1 DEF Computed
    <2>4. /\ DOMAIN q = DOMAIN Unused /\ q.stage = "signal" /\ q.pc = "write" /\ q.day = p.day /\ q.row = p.row
          /\ q.caller = p.caller /\ q.began = p.began /\ q.alone = p.alone
          /\ q.value = [status |-> Status(Observed), from |-> d]
        <3>1. DOMAIN p = DOMAIN Unused
            BY <1>1 DEF Typed
        <3> HIDE DEF p
        <3> QED BY <1>1, <2>2, <3>1, Fields
    <2> HIDE DEF q
    <2>5. Typed(q)
        BY <1>1, <2>4 DEF Typed, PCs
    <2>6. q.value \in Signal /\ q.value.from = d
        BY <2>3, <2>4 DEF Signal, Status
    <2>7. RunOK(q)
        BY <1>1, <2>3, <2>4, <2>6 DEF RunOK, Storable
    <2> QED BY <1>1, <2>1, <2>5, <2>7, KeptByMove
<1>3. CASE ~(Computed # {} /\ Detected(Observed))
    <2>1. Return(r, p)
        BY <1>3 DEF Evaluate
    <2>2. Returnable(p)
        BY <1>1 DEF RunOK, Returnable, Storable
    <2> QED BY <1>1, <2>1, <2>2, KeptByReturn
<1> QED BY <1>2, <1>3

LEMMA ReadMetricsIs ==
    ASSUME IInv, NEW r \in Runs, ReadMetrics(r)
    PROVE  LET p == run[r]
               q == run'[r]
           IN  /\ Moves(r, q) /\ Steady /\ ending' = ending /\ Typed(q) /\ p.stage = "feature" /\ p.pc = "read"
               /\ q.stage = "feature" /\ q.pc = "signals" /\ q.day = p.day
               /\ q.row = p.row /\ q.value = p.value /\ q.began = p.began /\ q.alone = p.alone
               /\ q.snapshot = metrics[Latest(p.day)]
               /\ Latest(p.day) \in Computed /\ Latest(p.day) <= p.day
               /\ q.snapshot \in Snapshot /\ q.snapshot.asOf = Latest(p.day)
               /\ \A e \in Computed : e <= p.day => e <= Latest(p.day)
<1> DEFINE p == run[r]
           q == run'[r]
<1>1. /\ DOMAIN run = Runs /\ Typed(p) /\ p.day \in Days /\ p.stage = "feature" /\ p.pc = "read" /\ Steady
      /\ DOMAIN p = DOMAIN Unused
      /\ \E d \in Computed : d <= p.day
      /\ run' = [run EXCEPT ![r].pc = "signals", ![r].snapshot = metrics[Latest(p.day)]]
      /\ ending' = ending
    BY RunIs DEF ReadMetrics, At, Steady
<1>2. /\ DOMAIN q = DOMAIN Unused /\ q.stage = "feature" /\ q.pc = "signals" /\ q.day = p.day /\ q.row = p.row
      /\ q.value = p.value /\ q.caller = p.caller /\ q.began = p.began /\ q.alone = p.alone
      /\ q.snapshot = metrics[Latest(p.day)]
    <2>1. DOMAIN p = {"stage", "day", "pc", "caller", "rows", "snapshot", "statuses", "row", "value", "began", "alone"}
        BY <1>1, Fields
    <2> QED BY <1>1, <2>1
<1>3. Moves(r, q)
    BY <1>1 DEF Moves
<1> HIDE DEF q
<1>4. Typed(q)
    BY <1>1, <1>2 DEF Typed, PCs
<1> HIDE DEF p
<1>5. /\ Latest(p.day) \in Computed /\ Latest(p.day) <= p.day
      /\ metrics[Latest(p.day)] \in Snapshot /\ metrics[Latest(p.day)].asOf = Latest(p.day)
      /\ \A e \in Computed : e <= p.day => e <= Latest(p.day)
    BY <1>1, LatestIs
<1> QED BY <1>1, <1>2, <1>3, <1>4, <1>5 DEF p, q

LEMMA ReadMetricsStep ==
    ASSUME IInv, NEW r \in Runs, ReadMetrics(r)
    PROVE  IInv'
<1> DEFINE p == run[r]
           q == run'[r]
<1>1. /\ Moves(r, q) /\ Steady /\ ending' = ending /\ Typed(q) /\ p.stage = "feature" /\ p.pc = "read"
      /\ q.stage = "feature" /\ q.pc = "signals" /\ q.day = p.day
      /\ q.snapshot \in Snapshot /\ q.snapshot.asOf <= p.day
    BY ReadMetricsIs
<1>2. RunOK(p)
    BY RunIs
<1> HIDE DEF p, q
<1>3. RunOK(q)
    BY <1>1, <1>2 DEF RunOK
<1> QED BY <1>1, <1>3, KeptByMove DEF q

LEMMA ReadSignalsIs ==
    ASSUME IInv, NEW r \in Runs, ReadSignals(r)
    PROVE  LET p == run[r]
               q == run'[r]
           IN  /\ Moves(r, q) /\ Steady /\ ending' = ending /\ Typed(q) /\ p.stage = "feature" /\ p.pc = "signals"
               /\ q.stage = "feature" /\ q.pc = "rules" /\ q.day = p.day /\ q.row = p.row /\ q.value = p.value
               /\ q.began = p.began /\ q.alone = p.alone /\ q.snapshot = p.snapshot
               /\ DOMAIN q.statuses = Signalled(p.day)
<1> DEFINE p == run[r]
           q == run'[r]
<1>1. /\ DOMAIN run = Runs /\ Typed(p) /\ p.stage = "feature" /\ p.pc = "signals" /\ Steady
      /\ DOMAIN p = DOMAIN Unused /\ ending' = ending
      /\ run' = [run EXCEPT ![r].pc = "rules", ![r].statuses = [d \in Signalled(p.day) |-> signals[d].status]]
    BY RunIs DEF ReadSignals, At, Steady
<1>2. /\ DOMAIN q = DOMAIN Unused /\ q.stage = "feature" /\ q.pc = "rules" /\ q.day = p.day /\ q.row = p.row
      /\ q.value = p.value /\ q.caller = p.caller /\ q.began = p.began /\ q.alone = p.alone
      /\ q.snapshot = p.snapshot
      /\ q.statuses = [d \in Signalled(p.day) |-> signals[d].status]
    <2>1. DOMAIN p = {"stage", "day", "pc", "caller", "rows", "snapshot", "statuses", "row", "value", "began", "alone"}
        BY <1>1, Fields
    <2> QED BY <1>1, <2>1
<1>3. Moves(r, q)
    BY <1>1 DEF Moves
<1> HIDE DEF q
<1>4. Typed(q)
    BY <1>1, <1>2 DEF Typed, PCs
<1> QED BY <1>1, <1>2, <1>3, <1>4 DEF q

LEMMA ReadSignalsStep ==
    ASSUME IInv, NEW r \in Runs, ReadSignals(r)
    PROVE  IInv'
<1> DEFINE p == run[r]
           q == run'[r]
<1>1. /\ Moves(r, q) /\ Steady /\ ending' = ending /\ Typed(q) /\ p.stage = "feature" /\ p.pc = "signals"
      /\ q.stage = "feature" /\ q.pc = "rules" /\ q.day = p.day
      /\ q.snapshot = p.snapshot /\ DOMAIN q.statuses = Signalled(p.day)
    BY ReadSignalsIs
<1>2. RunOK(p)
    BY RunIs
<1> HIDE DEF p, q
<1>3. RunOK(q)
    BY <1>1, <1>2 DEF RunOK
<1> QED BY <1>1, <1>3, KeptByMove DEF q

LEMMA VectorIs ==
    ASSUME NEW snapshot, NEW statuses
    PROVE  LET v == Vector(snapshot, statuses)
           IN  /\ v = [values |-> v.values, sources |-> v.sources, checksum |-> v.checksum]
               /\ v.sources.asOf = snapshot.asOf /\ v.sources.signals = DOMAIN statuses
               /\ v.values = Values(snapshot, statuses)
BY DEF Vector, SourcesOf

LEMMA BuildIs ==
    ASSUME IInv, NEW r \in Runs, Build(r)
    PROVE  LET p == run[r]
               q == run'[r]
           IN  /\ Moves(r, q) /\ Steady /\ ending' = ending /\ Typed(q) /\ p.stage = "feature" /\ p.pc = "rules"
               /\ q.stage = "feature" /\ q.pc = "write" /\ q.day = p.day
               /\ q.row = features[p.day] /\ q.value = Vector(p.snapshot, p.statuses)
               /\ q.began = p.began /\ q.alone = p.alone
<1> DEFINE p == run[r]
           q == run'[r]
<1>1. /\ DOMAIN run = Runs /\ Typed(p) /\ p.stage = "feature" /\ p.pc = "rules" /\ Steady
      /\ DOMAIN p = DOMAIN Unused /\ ending' = ending
      /\ run' = [run EXCEPT ![r].pc = "write", ![r].row = features[p.day],
                            ![r].value = Vector(p.snapshot, p.statuses)]
    BY RunIs DEF Build, At, Steady
<1>2. /\ DOMAIN q = DOMAIN Unused /\ q.stage = "feature" /\ q.pc = "write" /\ q.day = p.day
      /\ q.row = features[p.day] /\ q.value = Vector(p.snapshot, p.statuses)
      /\ q.caller = p.caller /\ q.began = p.began /\ q.alone = p.alone
    <2>1. DOMAIN p = {"stage", "day", "pc", "caller", "rows", "snapshot", "statuses", "row", "value", "began", "alone"}
        BY <1>1, Fields
    <2> QED BY <1>1, <2>1
<1>3. Moves(r, q)
    BY <1>1 DEF Moves
<1> HIDE DEF q
<1>4. Typed(q)
    BY <1>1, <1>2 DEF Typed, PCs
<1> QED BY <1>1, <1>2, <1>3, <1>4 DEF q

LEMMA BuildStep ==
    ASSUME IInv, NEW r \in Runs, Build(r)
    PROVE  IInv'
<1> DEFINE p == run[r]
           q == run'[r]
           v == Vector(p.snapshot, p.statuses)
<1>1. /\ Moves(r, q) /\ Steady /\ ending' = ending /\ Typed(q) /\ p.stage = "feature" /\ p.pc = "rules"
      /\ q.stage = "feature" /\ q.pc = "write" /\ q.day = p.day
      /\ q.row = features[p.day] /\ q.value = v
    BY BuildIs
<1>2. /\ RunOK(p) /\ p.day \in Days
      /\ p.snapshot \in Snapshot /\ p.snapshot.asOf <= p.day
      /\ DOMAIN p.statuses \subseteq Signalled(p.day)
    BY <1>1, RunIs DEF RunOK
<1>3. p.snapshot.asOf \in 1..p.day
    <2>1. p.snapshot.asOf \in Days
        BY <1>2 DEF Snapshot
    <2> HIDE DEF p
    <2> QED BY <1>2, <2>1, DaysAre DEF Days
<1> HIDE DEF p, q
<1>4. VectorFor(v, p.day)
    <2>1. /\ v = [values |-> v.values, sources |-> v.sources, checksum |-> v.checksum]
          /\ v.sources.asOf = p.snapshot.asOf /\ v.sources.signals = DOMAIN p.statuses
        BY VectorIs
    <2> HIDE DEF v
    <2> QED BY <1>2, <1>3, <2>1 DEF VectorFor
<1> HIDE DEF v
<1>5. RunOK(q)
    BY <1>1, <1>2, <1>4 DEF RunOK, Storable
<1> QED BY <1>1, <1>5, KeptByMove DEF q

\* The row of a request that returns.
LEMMA WithRow ==
    ASSUME NEW p, Typed(p), NEW row
    PROVE  LET q == [p EXCEPT !.row = row]
           IN  /\ Typed(q) /\ q.stage = p.stage /\ q.pc = p.pc /\ q.day = p.day /\ q.rows = p.rows
               /\ q.value = p.value /\ q.row = row /\ q.began = p.began /\ q.alone = p.alone
<1> DEFINE q == [p EXCEPT !.row = row]
<1>1. DOMAIN p = {"stage", "day", "pc", "caller", "rows", "snapshot", "statuses", "row", "value", "began", "alone"}
    BY Fields DEF Typed
<1>2. /\ DOMAIN q = DOMAIN p /\ q.stage = p.stage /\ q.pc = p.pc /\ q.day = p.day /\ q.rows = p.rows
      /\ q.value = p.value /\ q.row = row /\ q.began = p.began /\ q.alone = p.alone /\ q.caller = p.caller
    BY <1>1
<1> HIDE DEF q
<1>3. Typed(q)
    BY <1>2 DEF Typed
<1> QED BY <1>2, <1>3 DEF q

LEMMA ScoreStep ==
    ASSUME IInv, NEW r \in Runs, Score(r)
    PROVE  IInv'
<1> DEFINE p == run[r]
           q == [p EXCEPT !.row = p.value]
<1>1. /\ Typed(p) /\ RunOK(p) /\ p.stage = "score" /\ p.pc = "read" /\ Steady /\ Return(r, q)
    BY RunIs DEF Score, At, Steady
<1>2. /\ Typed(q) /\ q.stage = "score" /\ q.day = p.day /\ q.row = p.value /\ q.value = p.value
    BY <1>1, WithRow
<1> HIDE DEF p, q
<1>3. Returnable(q)
    BY <1>1, <1>2 DEF RunOK, Returnable, Storable
<1> QED BY <1>1, <1>3, KeptByReturn

\* The columns of a row that is written are the new ones or those there are.
LEMMA WrittenIs ==
    ASSUME IInv, NEW r \in Runs, run[r].stage = "feature", run[r].pc = "write",
           run[r].row = NoRow => features[run[r].day] = NoRow
    PROVE  LET p == run[r]
               row == Written(p.row, p.value, features[p.day])
           IN  /\ VectorFor(p.value, p.day) /\ VectorFor(row, p.day)
               /\ p.row = NoRow \/ p.row = features[p.day] => row = p.value
<1> DEFINE p   == run[r]
           new == p.value
           now == features[p.day]
           row == Written(p.row, new, now)
<1>1. /\ VectorFor(new, p.day) /\ p.day \in Days
      /\ p.row = NoRow \/ now # NoRow
    BY RunIs DEF RunOK, Storable
<1>2. now # NoRow => VectorFor(now, p.day)
    BY <1>1 DEF IInv, PointInv
<1> HIDE DEF p, new, now
<1>3. CASE p.row = NoRow
    BY <1>1, <1>3 DEF Written, p, new, now
<1>4. CASE p.row # NoRow
    <2>1. new = [values |-> new.values, sources |-> new.sources, checksum |-> new.checksum]
        BY <1>1 DEF VectorFor
    <2>2. row = [c \in DOMAIN new |-> IF new[c] = p.row[c] THEN now[c] ELSE new[c]]
        BY <1>4 DEF Written
    <2> HIDE DEF row
    <2>3. DOMAIN new = {"values", "sources", "checksum"}
        BY <2>1
    <2>4. row = [values |-> row.values, sources |-> row.sources, checksum |-> row.checksum]
        BY <2>2, <2>3
    <2>5. row.sources \in {new.sources, now.sources}
        BY <2>2, <2>3
    <2>6. VectorFor(row, p.day)
        BY <1>1, <1>2, <1>4, <2>4, <2>5 DEF VectorFor
    <2>7. ASSUME p.row = now PROVE row = new
        <3>1. row.values = new.values /\ row.sources = new.sources /\ row.checksum = new.checksum
            BY <2>2, <2>3, <2>7
        <3> QED BY <2>1, <2>4, <3>1
    <2> QED BY <1>1, <1>4, <2>6, <2>7 DEF row, p, new, now
<1> QED BY <1>3, <1>4

LEMMA WriteStep ==
    ASSUME IInv, NEW r \in Runs, Write(r)
    PROVE  IInv'
<1> DEFINE p   == run[r]
           row == IF p.stage = "feature" THEN Written(p.row, p.value, features[p.day]) ELSE p.value
           q   == [p EXCEPT !.row = row]
<1>1. /\ DOMAIN run = Runs /\ Typed(p) /\ RunOK(p) /\ p.day \in Days /\ p.pc = "write" /\ p.stage \in Stages /\ Steady
    BY RunIs DEF Write, Steady, Typed
<1>2. CASE p.stage = "feature" /\ p.row = NoRow /\ features[p.day] # NoRow
    <2>1. Moves(r, Unused) /\ ending' = ending
        BY <1>1, <1>2 DEF Write, Moves
    <2> QED BY <1>1, <2>1, UnusedIs, UnusedOK, KeptByMove
<1>3. CASE ~(p.stage = "feature" /\ p.row = NoRow /\ features[p.day] # NoRow)
    <2>1. Return(r, q)
        BY <1>3 DEF Write
    <2>2. /\ Typed(q) /\ q.stage = p.stage /\ q.day = p.day /\ q.rows = p.rows /\ q.value = p.value /\ q.row = row
        BY <1>1, WithRow
    <2>3. Storable(p.stage, p.day, row) /\ (p.stage = "feature" => VectorFor(p.value, p.day)) /\ p.stage # "score"
        <3>1. CASE p.stage = "feature"
            <4>1. VectorFor(p.value, p.day) /\ VectorFor(row, p.day)
                BY <1>1, <1>3, <3>1, WrittenIs
            <4> QED BY <3>1, <4>1 DEF Storable
        <3>2. CASE p.stage # "feature"
            BY <1>1, <3>2 DEF RunOK
        <3> QED BY <3>1, <3>2
    <2> HIDE DEF row, q, p
    <2>4. Returnable(q)
        BY <1>1, <2>2, <2>3 DEF Returnable, RunOK
    <2> QED BY <1>1, <2>1, <2>4, KeptByReturn
<1> QED BY <1>2, <1>3
-----------------------------------------------------------------------------
(* Commits *)

\* What is in the tables stays there.
Grown ==
    /\ early' = early
    /\ \A d \in Days : /\ metrics[d] # NoRow => metrics'[d] # NoRow
                       /\ signals[d] # NoRow => signals'[d] # NoRow
                       /\ features[d] # NoRow => features'[d] # NoRow

LEMMA SignalsGrow ==
    ASSUME Grown
    PROVE  \A d \in Days : Signalled(d) \subseteq {e \in 1..d : signals'[e] # NoRow}
<1>1. \A d \in Days : 1..d \subseteq Days
    BY DaysAre
<1> QED BY <1>1 DEF Grown, Signalled

LEMMA PutIs ==
    ASSUME NEW table, DOMAIN table = Days, NEW day \in Days, NEW row
    PROVE  /\ DOMAIN Put(table, day, row) = Days
           /\ \A d \in Days : Put(table, day, row)[d] = IF d = day /\ row # NoRow THEN row ELSE table[d]
BY DEF Put

LEMMA StoredIs ==
    ASSUME IInv, NEW stage \in Stages, NEW day \in Days, NEW row, Stored(stage, day, row), early' = early
    PROVE  /\ Grown
           /\ DOMAIN metrics' = Days /\ DOMAIN signals' = Days /\ DOMAIN features' = Days /\ DOMAIN scores' = Days
           /\ \A d \in Days :
                 /\ metrics'[d] = IF stage = "analytics" /\ d = day /\ row # NoRow THEN row ELSE metrics[d]
                 /\ signals'[d] = IF stage = "signal" /\ d = day /\ row # NoRow THEN row ELSE signals[d]
                 /\ features'[d] = IF stage = "feature" /\ d = day /\ row # NoRow THEN row ELSE features[d]
                 /\ scores'[d] = IF stage = "score" /\ d = day THEN scores[d] \cup {row} ELSE scores[d]
<1>1. DOMAIN metrics = Days /\ DOMAIN signals = Days /\ DOMAIN features = Days /\ DOMAIN scores = Days
    BY DEF IInv, Shape
<1>2. /\ DOMAIN metrics' = Days
      /\ \A d \in Days : metrics'[d] = IF stage = "analytics" /\ d = day /\ row # NoRow THEN row ELSE metrics[d]
    BY <1>1, PutIs DEF Stored
<1>3. /\ DOMAIN signals' = Days
      /\ \A d \in Days : signals'[d] = IF stage = "signal" /\ d = day /\ row # NoRow THEN row ELSE signals[d]
    BY <1>1, PutIs DEF Stored
<1>4. /\ DOMAIN features' = Days
      /\ \A d \in Days : features'[d] = IF stage = "feature" /\ d = day /\ row # NoRow THEN row ELSE features[d]
    BY <1>1, PutIs DEF Stored
<1>5. /\ DOMAIN scores' = Days
      /\ \A d \in Days : scores'[d] = IF stage = "score" /\ d = day THEN scores[d] \cup {row} ELSE scores[d]
    BY <1>1 DEF Stored
<1>6. Grown
    BY <1>2, <1>3, <1>4 DEF Grown
<1> QED BY <1>2, <1>3, <1>4, <1>5, <1>6

\* A vector, a row and a request stay what they are.
LEMMA VectorStays ==
    ASSUME Grown, NEW d \in Days
    PROVE  \A v : VectorFor(v, d) =>
              /\ v = [values |-> v.values, sources |-> v.sources, checksum |-> v.checksum]
              /\ v.sources.asOf \in 1 .. d /\ v.sources.signals \subseteq {e \in 1..d : signals'[e] # NoRow}
<1>1. Signalled(d) \subseteq {e \in 1..d : signals'[e] # NoRow}
    BY SignalsGrow
<1> QED BY <1>1 DEF VectorFor

LEMMA RunStays ==
    ASSUME Grown, NEW r \in Runs, run'[r].day \in Days, RunOK(run'[r])
    PROVE  RunOK(run[r])'
<1> DEFINE q == run'[r]
<1>1. Signalled(q.day) \subseteq {e \in 1..q.day : signals'[e] # NoRow}
    BY SignalsGrow
<1>2. early' = early /\ (metrics[q.day] # NoRow => metrics'[q.day] # NoRow)
      /\ (features[q.day] # NoRow => features'[q.day] # NoRow)
    BY DEF Grown
<1>3. RunOK(q)
    OBVIOUS
<1> QED BY ONLY <1>1, <1>2, <1>3 DEF RunOK, Storable, VectorFor, Signalled

LEMMA StoreKeeps ==
    ASSUME IInv, NEW stage \in Stages, NEW day \in Days, NEW row, Stored(stage, day, row),
           Storable(stage, day, row), UNCHANGED <<today, ledger, starts, early>>,
           DOMAIN run' = Runs, \A r \in Runs : Typed(run'[r]) /\ RunOK(run[r])',
           ending' \subseteq ending
    PROVE  IInv'
<1>1. /\ Grown
      /\ DOMAIN metrics' = Days /\ DOMAIN signals' = Days /\ DOMAIN features' = Days /\ DOMAIN scores' = Days
      /\ \A d \in Days :
            /\ metrics'[d] = IF stage = "analytics" /\ d = day /\ row # NoRow THEN row ELSE metrics[d]
            /\ signals'[d] = IF stage = "signal" /\ d = day /\ row # NoRow THEN row ELSE signals[d]
            /\ features'[d] = IF stage = "feature" /\ d = day /\ row # NoRow THEN row ELSE features[d]
            /\ scores'[d] = IF stage = "score" /\ d = day THEN scores[d] \cup {row} ELSE scores[d]
    BY StoredIs
<1>2. early' = early
    OBVIOUS
<1>3. ASSUME NEW d \in Days
      PROVE  /\ metrics'[d] # NoRow => metrics'[d] \in Snapshot /\ metrics'[d].asOf = d
             /\ signals'[d] # NoRow => signals'[d] \in Signal /\ (~early => signals'[d].from <= d)
             /\ features'[d] # NoRow => VectorFor(features'[d], d)
             /\ \A v \in scores'[d] : VectorFor(v, d)
    <2>1. /\ metrics[d] # NoRow => metrics[d] \in Snapshot /\ metrics[d].asOf = d
          /\ signals[d] # NoRow => signals[d] \in Signal /\ (~early => signals[d].from <= d)
          /\ features[d] # NoRow => VectorFor(features[d], d)
          /\ \A v \in scores[d] : VectorFor(v, d)
        BY DEF IInv, PointInv, Storable
    <2> QED BY <1>1, <2>1 DEF Storable
<1>4. ASSUME NEW d \in Days
      PROVE  /\ (features[d] # NoRow => VectorFor(features[d], d))'
             /\ (\A v \in scores[d] : VectorFor(v, d))'
    <2>1. \A v : VectorFor(v, d) =>
              /\ v = [values |-> v.values, sources |-> v.sources, checksum |-> v.checksum]
              /\ v.sources.asOf \in 1 .. d /\ v.sources.signals \subseteq {e \in 1..d : signals'[e] # NoRow}
        BY <1>1, VectorStays
    <2> QED BY <1>3, <2>1 DEF VectorFor, Signalled
<1>5. ASSUME NEW e \in ending'
      PROVE  early' /\ e.stage \in Stages /\ e.day \in Days /\ Storable(e.stage, e.day, e.row)'
    <2>1. early /\ e.stage \in Stages /\ e.day \in Days /\ Storable(e.stage, e.day, e.row)
        BY DEF IInv, TypeOK, PointInv
    <2>2. Signalled(e.day) \subseteq {d \in 1..e.day : signals'[d] # NoRow}
        BY <1>1, <2>1, SignalsGrow
    <2>3. e.stage \in Stages /\ e.day \in Days /\ early'
        BY <2>1
    <2>4. Storable(e.stage, e.day, e.row)'
        BY ONLY <1>2, <2>1, <2>2 DEF Storable, VectorFor, Signalled
    <2> QED BY <2>3, <2>4
<1>6. Shape'
    BY <1>1 DEF IInv, Shape, Typed
<1>7. PointInv'
    <2>1. ASSUME NEW d \in Days
          PROVE  /\ (metrics[d] # NoRow => Storable("analytics", d, metrics[d]))'
                 /\ Storable("signal", d, signals[d])'
        BY <1>2, <1>3 DEF Storable
    <2> QED BY <1>4, <1>5, <2>1 DEF PointInv
<1>8. TypeOK'
    <2>1. today' \in Days /\ starts' \in 0 .. MaxStarts /\ ledger' \subseteq Ledger
        BY DEF IInv, TypeOK
    <2>2. ASSUME NEW d \in Days
          PROVE  /\ metrics'[d] \in Snapshot \cup {NoRow} /\ signals'[d] \in Signal \cup {NoRow}
                 /\ features'[d] # NoRow => VectorOK(features'[d])
                 /\ \A v \in scores'[d] : VectorOK(v)
        <3>1. 1..d \subseteq Days
            BY DaysAre
        <3>2. \A v : VectorFor(v, d) => VectorOK(v)
            BY <3>1 DEF VectorFor, VectorOK, Signalled
        <3> QED BY <1>3, <3>2
    <2> QED BY <1>5, <2>1, <2>2 DEF TypeOK, Typed
<1> QED BY <1>6, <1>7, <1>8 DEF IInv

LEMMA CloseStep ==
    ASSUME IInv, NEW r \in Runs, Close(r)
    PROVE  IInv'
<1> DEFINE p == run[r]
           a == Answered(p)
<1>1. /\ DOMAIN run = Runs /\ Typed(p) /\ RunOK(p) /\ p.day \in Days /\ p.pc = "closing" /\ p.stage \in Stages
      /\ Stored(p.stage, p.day, p.row) /\ run' = [run EXCEPT ![r] = a]
      /\ UNCHANGED <<today, ledger, starts, early>> /\ ending' = ending
    BY RunIs DEF Close, Typed
<1>2. Storable(p.stage, p.day, p.row)
    BY <1>1 DEF RunOK
<1>3. /\ Grown
      /\ \A d \in Days : metrics'[d] = IF p.stage = "analytics" /\ d = p.day /\ p.row # NoRow THEN p.row ELSE metrics[d]
    <2>1. Grown
        BY <1>1, StoredIs
    <2>2. metrics' = IF p.stage = "analytics" THEN Put(metrics, p.day, p.row) ELSE metrics
        BY <1>1 DEF Stored
    <2>3. DOMAIN metrics = Days
        BY DEF IInv, Shape
    <2> HIDE DEF p
    <2> QED BY <1>1, <2>1, <2>2, <2>3, PutIs
<1>4. ~early => metrics'[p.day] # NoRow
    BY <1>1, <1>2, <1>3, NoRowIs DEF RunOK, Storable
<1>5. /\ \A o \in Runs : Typed(run'[o])
      /\ run'[r] = a /\ Typed(a) /\ \A o \in Runs \ {r} : run'[o] = run[o]
    BY <1>1, RunIs, AnsweredIs
<1>6. RunOK(run[r])'
    <2>1. CASE a = Unused
        BY <1>1, <1>5, <2>1, UnusedIs DEF RunOK
    <2>2. CASE a # Unused
        <3>1. /\ a.day = p.day
              /\ \/ /\ a.pc = "read" /\ a.row = NoRow /\ a.stage # "analytics"
                    /\ a.stage = "score" => p.stage = "feature" /\ a.value = p.value
                 \/ a.pc = "completed" /\ a.stage = "analytics" /\ a.rows = <<>>
            BY <1>1, <2>2, AnsweredIs
        <3>2. p.stage = "feature" => VectorFor(p.value, p.day)
            BY <1>1 DEF RunOK
        <3>3. Signalled(p.day) \subseteq {e \in 1..p.day : signals'[e] # NoRow}
            BY <1>1, <1>3, SignalsGrow
        <3>4. a.stage = "score" => VectorFor(run[r].value, run[r].day)'
            <4>1. a.stage = "score" => /\ VectorFor(p.value, p.day) /\ a.value = p.value /\ a.day = p.day
                                       /\ Signalled(p.day) \subseteq {e \in 1..p.day : signals'[e] # NoRow}
                BY <3>1, <3>2, <3>3
            <4>2. run'[r] = a
                BY <1>5
            <4> HIDE DEF p, a
            <4> QED BY <4>1, <4>2 DEF VectorFor, Signalled
        <3>5. /\ a.pc \in {"read", "completed"} /\ (a.pc = "read" => a.row = NoRow)
              /\ a.stage = "analytics" => a.rows \in Seq(Ledger)
              /\ run'[r] = a /\ a.day = p.day /\ early' = early /\ (~early => metrics'[p.day] # NoRow)
            BY <1>1, <1>4, <1>5, <3>1, UnusedIs
        <3> HIDE DEF p, a
        <3> QED BY <3>4, <3>5 DEF RunOK
    <2> QED BY <2>1, <2>2
<1>7. ASSUME NEW o \in Runs \ {r} PROVE RunOK(run[o])'
    <2>1. run'[o] = run[o] /\ RunOK(run[o]) /\ run[o].day \in Days
        BY <1>5, RunIs
    <2> QED BY <1>3, <2>1, RunStays
<1> HIDE DEF p, a
<1> QED BY <1>1, <1>2, <1>5, <1>6, <1>7, StoreKeeps

LEMMA CloseLateStep ==
    ASSUME IInv, NEW e \in ending, CloseLate(e)
    PROVE  IInv'
<1>1. /\ Stored(e.stage, e.day, e.row) /\ e.stage \in Stages /\ e.day \in Days /\ Storable(e.stage, e.day, e.row)
      /\ UNCHANGED <<today, ledger, starts, early>> /\ run' = run /\ ending' \subseteq ending
    BY DEF CloseLate, IInv, TypeOK, PointInv
<1>2. Grown
    BY <1>1, StoredIs
<1>3. DOMAIN run' = Runs /\ \A r \in Runs : Typed(run'[r]) /\ RunOK(run[r])'
    <2>1. ASSUME NEW r \in Runs PROVE run'[r].day \in Days /\ RunOK(run'[r]) /\ Typed(run'[r])
        <3>1. run'[r] = run[r] /\ Typed(run[r]) /\ RunOK(run[r]) /\ run[r].day \in Days
            BY <1>1, RunIs
        <3> QED BY <3>1
    <2>2. \A r \in Runs : RunOK(run[r])'
        BY <1>2, <2>1, RunStays
    <2> QED BY <1>1, <2>1, <2>2 DEF IInv, Shape
<1> QED BY <1>1, <1>3, StoreKeeps
-----------------------------------------------------------------------------
(* The other steps *)

LEMMA StartIs ==
    ASSUME IInv, NEW r \in Runs, Start(r)
    PROVE  /\ starts' = starts + 1 /\ starts < MaxStarts
           /\ UNCHANGED <<today, ledger, tables, early, ending>>
           /\ DOMAIN run' = Runs
           /\ Idle(r)
           /\ Typed(run'[r]) /\ run'[r].stage = "analytics" /\ run'[r].pc = "read" /\ run'[r].rows = <<>>
           /\ run'[r].row = NoRow /\ run'[r].day = today /\ run'[r].began = UpTo(today)
           /\ run'[r].alone = (ending = {} /\ \A o \in Runs : Idle(o))
           /\ \A o \in Runs \ {r} :
                 \/ Idle(o) /\ run'[o] = Unused
                 \/ /\ ~Idle(o) /\ Typed(run'[o]) /\ run'[o].alone = FALSE
                    /\ run'[o].stage = run[o].stage /\ run'[o].pc = run[o].pc /\ run'[o].day = run[o].day
                    /\ run'[o].rows = run[o].rows /\ run'[o].snapshot = run[o].snapshot
                    /\ run'[o].statuses = run[o].statuses /\ run'[o].row = run[o].row
                    /\ run'[o].value = run[o].value /\ run'[o].began \subseteq run[o].began
                    /\ run[o].stage = "analytics" => run'[o].began = run[o].began
<1>1. /\ starts' = starts + 1 /\ starts < MaxStarts /\ Idle(r)
      /\ UNCHANGED <<today, ledger, tables, early, ending>>
      /\ DOMAIN run' = Runs
    BY DEF Start
<1>2. UpTo(today) \subseteq Ledger /\ today \in Days
    BY DEF IInv, TypeOK, UpTo
<1>3. /\ Typed(run'[r]) /\ run'[r].stage = "analytics" /\ run'[r].pc = "read" /\ run'[r].rows = <<>>
      /\ run'[r].row = NoRow /\ run'[r].day = today /\ run'[r].began = UpTo(today)
      /\ run'[r].alone = (ending = {} /\ \A o \in Runs : Idle(o))
    <2> DEFINE alone == ending = {} /\ \A o \in Runs : Idle(o)
               q == [Unused EXCEPT !.pc = "read", !.caller = "client", !.day = today,
                                   !.began = UpTo(today), !.alone = alone]
    <2>1. run'[r] = q /\ alone \in BOOLEAN
        BY DEF Start
    <2> HIDE DEF alone
    <2>2. /\ DOMAIN q = DOMAIN Unused /\ q.stage = "analytics" /\ q.pc = "read" /\ q.rows = <<>> /\ q.row = NoRow
          /\ q.day = today /\ q.began = UpTo(today) /\ q.alone = alone /\ q.caller = "client"
        BY DEF Unused
    <2> HIDE DEF q
    <2>3. Typed(q)
        BY <1>2, <2>1, <2>2 DEF Typed, Stages, PCs, Callers
    <2> QED BY <2>1, <2>2, <2>3 DEF alone
<1>4. ASSUME NEW o \in Runs \ {r}, ~Idle(o)
      PROVE  /\ Typed(run'[o]) /\ run'[o].alone = FALSE
             /\ run'[o].stage = run[o].stage /\ run'[o].pc = run[o].pc /\ run'[o].day = run[o].day
             /\ run'[o].rows = run[o].rows /\ run'[o].snapshot = run[o].snapshot
             /\ run'[o].statuses = run[o].statuses /\ run'[o].row = run[o].row
             /\ run'[o].value = run[o].value /\ run'[o].began \subseteq run[o].began
             /\ run[o].stage = "analytics" => run'[o].began = run[o].began
    <2> DEFINE p == run[o]
               q == [p EXCEPT !.alone = FALSE, !.began = IF p.stage = "analytics" THEN @ ELSE {}]
    <2>1. run'[o] = q /\ Typed(p) /\ DOMAIN p = DOMAIN Unused
        BY <1>4, RunIs DEF Start
    <2> HIDE DEF p
    <2>2. /\ DOMAIN q = DOMAIN Unused /\ q.alone = FALSE /\ q.stage = p.stage /\ q.pc = p.pc /\ q.day = p.day
          /\ q.rows = p.rows /\ q.snapshot = p.snapshot /\ q.statuses = p.statuses /\ q.row = p.row
          /\ q.value = p.value /\ q.caller = p.caller
          /\ q.began = IF p.stage = "analytics" THEN p.began ELSE {}
        BY <2>1, Fields
    <2> HIDE DEF q
    <2>3. Typed(q)
        BY <2>1, <2>2 DEF Typed
    <2> QED BY <2>1, <2>2, <2>3 DEF p
<1>5. \A o \in Runs \ {r} : Idle(o) => run'[o] = Unused
    BY DEF Start
<1> QED BY <1>1, <1>3, <1>4, <1>5

LEMMA StartStep ==
    ASSUME IInv, NEW r \in Runs, Start(r)
    PROVE  IInv'
<1>1. /\ starts' = starts + 1 /\ starts < MaxStarts /\ UNCHANGED <<today, ledger, tables, early, ending>>
      /\ DOMAIN run' = Runs
      /\ Typed(run'[r]) /\ run'[r].stage = "analytics" /\ run'[r].pc = "read" /\ run'[r].rows = <<>>
      /\ run'[r].row = NoRow
    BY StartIs
<1>2. RunOK(run'[r])
    BY <1>1, UnusedIs DEF RunOK
<1>3. ASSUME NEW o \in Runs \ {r} PROVE Typed(run'[o]) /\ RunOK(run'[o])
    <2> DEFINE q == run'[o]
    <2>1. CASE q = Unused
        BY <2>1, UnusedIs, UnusedOK
    <2>2. CASE q # Unused
        <3>1. /\ Typed(q) /\ q.stage = run[o].stage /\ q.pc = run[o].pc /\ q.day = run[o].day
              /\ q.rows = run[o].rows /\ q.snapshot = run[o].snapshot
              /\ q.statuses = run[o].statuses /\ q.row = run[o].row /\ q.value = run[o].value
            BY <2>2, StartIs
        <3>2. RunOK(run[o])
            BY RunIs
        <3> HIDE DEF q
        <3> QED BY <3>1, <3>2 DEF RunOK, q
    <2> QED BY <2>1, <2>2
<1>4. today' \in Days /\ starts' \in 0 .. MaxStarts /\ ledger' \subseteq Ledger /\ IsFiniteSet(ledger')
    BY <1>1, PipelineAssumption DEF IInv, TypeOK, Shape
<1>5. \A e \in ending' : early /\ e.stage \in Stages /\ e.day \in Days /\ Storable(e.stage, e.day, e.row)
    BY <1>1 DEF IInv, TypeOK, PointInv
<1>6. UNCHANGED <<tables, early>>
    BY <1>1
<1> QED BY <1>1, <1>2, <1>3, <1>4, <1>5, <1>6, RunsMove

LEMMA StopStep ==
    ASSUME IInv, NEW stage \in Stages, Stop(stage)
    PROVE  IInv'
<1>1. /\ UNCHANGED <<today, ledger, tables, starts, early>> /\ ending' \subseteq ending
      /\ DOMAIN run' = Runs
      /\ \A r \in Runs : run'[r] = Unused \/ run'[r] = run[r]
    BY DEF Stop
<1>2. \A r \in Runs : Typed(run'[r]) /\ RunOK(run'[r])
    BY <1>1, RunIs, UnusedIs, UnusedOK
<1>3. today' \in Days /\ starts' \in 0 .. MaxStarts /\ ledger' \subseteq Ledger /\ IsFiniteSet(ledger')
    BY <1>1 DEF IInv, TypeOK, Shape
<1>4. \A e \in ending' : early /\ e.stage \in Stages /\ e.day \in Days /\ Storable(e.stage, e.day, e.row)
    BY <1>1 DEF IInv, TypeOK, PointInv
<1>5. UNCHANGED <<tables, early>>
    BY <1>1
<1> QED BY <1>1, <1>2, <1>3, <1>4, <1>5, RunsMove

LEMMA ClockStep ==
    ASSUME IInv, Import \/ Midnight
    PROVE  IInv'
<1>1. UNCHANGED <<tables, early>> /\ run' = run /\ ending' = ending /\ starts' = starts
    BY DEF Import, Midnight
<1>2. today' \in Days
    <2>1. today' = today \/ (today < LastDay /\ today' = today + 1)
        BY DEF Import, Midnight
    <2>2. today \in 1..LastDay /\ LastDay \in Nat
        BY PipelineAssumption DEF IInv, TypeOK, Days
    <2> QED BY <2>1, <2>2 DEF Days
<1>3. ledger' \subseteq Ledger /\ IsFiniteSet(ledger')
    <2>1. CASE Import
        <3>1. PICK t \in Ledger : ledger' = ledger \cup {t}
            BY <2>1 DEF Import
        <3> QED BY <3>1, FS_AddElement DEF IInv, TypeOK, Shape
    <2>2. CASE Midnight
        BY <2>2 DEF Midnight, IInv, TypeOK, Shape
    <2> QED BY <2>1, <2>2
<1>4. DOMAIN run' = Runs /\ \A r \in Runs : Typed(run'[r]) /\ RunOK(run'[r])
    <2>1. DOMAIN run' = Runs /\ \A r \in Runs : run'[r] = run[r]
        BY <1>1 DEF IInv, Shape
    <2> QED BY <2>1, RunIs
<1>5. \A e \in ending' : early /\ e.stage \in Stages /\ e.day \in Days /\ Storable(e.stage, e.day, e.row)
    BY <1>1 DEF IInv, TypeOK, PointInv
<1>6. starts' \in 0 .. MaxStarts
    BY <1>1 DEF IInv, TypeOK
<1> QED BY <1>1, <1>2, <1>3, <1>4, <1>5, <1>6, RunsMove

LEMMA InvInit == Init => IInv
<1> SUFFICES ASSUME Init PROVE IInv
    OBVIOUS
<1>1. Shape
    BY UnusedIs DEF Init, Shape
<1>2. TypeOK
    BY DaysAre, UnusedIs, PipelineAssumption DEF Init, TypeOK, Typed
<1>3. PointInv
    BY UnusedOK DEF Init, PointInv, Storable
<1> QED BY <1>1, <1>2, <1>3 DEF IInv

LEMMA InvStep == IInv /\ [Next]_vars => IInv'
<1> SUFFICES ASSUME IInv, [Next]_vars PROVE IInv'
    OBVIOUS
<1>1. CASE \E r \in Runs : Start(r) \/ Fails(r) \/ Timeout(r)
    BY <1>1, StartStep, FailsStep, TimeoutStep
<1>2. CASE \E stage \in Stages : Stop(stage)
    BY <1>2, StopStep
<1>3. CASE \E r \in Runs : ReadPage(r) \/ Evaluate(r) \/ ReadMetrics(r) \/ ReadSignals(r) \/ Build(r) \/ Score(r)
    BY <1>3, ReadPageStep, EvaluateStep, ReadMetricsStep, ReadSignalsStep, BuildStep, ScoreStep
<1>4. CASE \E r \in Runs : Write(r) \/ Close(r)
    BY <1>4, WriteStep, CloseStep
<1>5. CASE \E e \in ending : CloseLate(e)
    BY <1>5, CloseLateStep
<1>6. CASE Import \/ Midnight
    BY <1>6, ClockStep
<1>7. CASE UNCHANGED vars
    <2>1. UNCHANGED <<tables, early>> /\ run' = run /\ ending' = ending /\ starts' = starts
          /\ today' = today /\ ledger' = ledger
        BY <1>7 DEF vars
    <2>2. DOMAIN run' = Runs /\ \A r \in Runs : Typed(run'[r]) /\ RunOK(run'[r])
        <3>1. DOMAIN run' = Runs /\ \A r \in Runs : run'[r] = run[r]
            BY <2>1 DEF IInv, Shape
        <3> QED BY <3>1, RunIs
    <2>3. /\ today' \in Days /\ starts' \in 0 .. MaxStarts /\ ledger' \subseteq Ledger /\ IsFiniteSet(ledger')
          /\ \A e \in ending' : early /\ e.stage \in Stages /\ e.day \in Days /\ Storable(e.stage, e.day, e.row)
        BY <2>1 DEF IInv, TypeOK, PointInv, Shape
    <2>4. UNCHANGED <<tables, early>>
        BY <2>1
    <2> QED BY <2>2, <2>3, <2>4, RunsMove
<1> QED BY <1>1, <1>2, <1>3, <1>4, <1>5, <1>6, <1>7 DEF Next

LEMMA Invariance == Spec => []IInv
BY InvInit, InvStep, PTL DEF Spec

(* The tables and the requests keep their types, whatever overlaps, fails, *)
(* times out or stops.                                                     *)
THEOREM PipelineTypeCorrect == Spec => []TypeOK
<1>1. IInv => TypeOK
    BY DEF IInv
<1> QED BY <1>1, Invariance, PTL

(* The features of a day are built of metrics and signals of that day and  *)
(* those before, and where sessions end before their answers its signal is *)
(* detected in metrics of that day and those before.                       *)
THEOREM FeaturesArePointInTime == Spec => []PointInTime
<1>1. IInv => PointInTime
    <2> SUFFICES ASSUME IInv, NEW d \in Days
                 PROVE  /\ ~early /\ signals[d] # NoRow => signals[d].from <= d
                        /\ features[d] # NoRow => /\ features[d].sources.asOf <= d
                                                  /\ features[d].sources.signals \subseteq Signalled(d)
        BY DEF PointInTime
    <2>1. d \in Nat
        BY DaysAre
    <2>2. ~early /\ signals[d] # NoRow => signals[d].from <= d
        BY DEF IInv, PointInv, Storable
    <2>3. features[d] # NoRow => VectorFor(features[d], d)
        BY DEF IInv, PointInv
    <2> QED BY <2>1, <2>2, <2>3 DEF VectorFor
<1> QED BY <1>1, Invariance, PTL
-----------------------------------------------------------------------------
(* Pages *)

\* What a step leaves of the rows a request has read and has to read.
Quiet(o) ==
    run'[o].stage = "analytics" =>
        \/ run'[o].pc \in {"completed", "over"}
        \/ /\ run[o].stage = "analytics"
           /\ run'[o].pc = "read" => run[o].pc = "read"
           /\ run'[o].pc \in {"write", "closing"} => run[o].pc \in {"write", "closing"}
           /\ run'[o].rows = run[o].rows /\ run'[o].day = run[o].day /\ run'[o].began = run[o].began

LEMMA QuietReads ==
    ASSUME ReadInv, ledger' = ledger, \A o \in Runs : Quiet(o)
    PROVE  ReadInv'
<1> SUFFICES ASSUME NEW o \in Runs PROVE Reads(run[o])'
    BY DEF ReadInv
<1>1. Reads(run[o])
    BY DEF ReadInv
<1>2. Quiet(o)
    OBVIOUS
<1>3. ledger' = ledger
    OBVIOUS
<1> QED BY ONLY <1>1, <1>2, <1>3 DEF Reads, Quiet, UpTo, Rank

\* A step of one request is quiet for the others.
LEMMA QuietMove ==
    ASSUME NEW r \in Runs, NEW q, Moves(r, q), Quiet(r)
    PROVE  \A o \in Runs : Quiet(o)
<1> TAKE o \in Runs
<1>1. CASE o = r
    BY <1>1
<1>2. CASE o # r
    BY <1>2 DEF Moves, Quiet
<1> QED BY <1>1, <1>2

\* What is answered reads no pages.
LEMMA AnsweredReadsNothing ==
    ASSUME NEW q, Typed(q)
    PROVE  Answered(q).stage = "analytics" => Answered(q).pc \in {"completed", "over"}
BY AnsweredIs, UnusedIs

\* What a return makes of a request.
LEMMA ReturnIs ==
    ASSUME IInv, NEW r \in Runs, NEW q, Typed(q), Return(r, q)
    PROVE  /\ Moves(r, run'[r])
           /\ early => run'[r] = Answered(q)
           /\ ~early => /\ ending' = ending
                        /\ run'[r].pc = "closing" /\ run'[r].stage = q.stage /\ run'[r].day = q.day
                        /\ run'[r].row = q.row /\ run'[r].rows = q.rows /\ run'[r].value = q.value
                        /\ run'[r].began = q.began /\ run'[r].alone = q.alone
<1> DEFINE c == [q EXCEPT !.pc = "closing"]
<1>1. DOMAIN run = Runs
    BY RunIs
<1>2. early => run' = [run EXCEPT ![r] = Answered(q)]
    BY DEF Return
<1>3. ~early => run' = [run EXCEPT ![r] = c] /\ ending' = ending
    BY DEF Return
<1>4. /\ c.pc = "closing" /\ c.stage = q.stage /\ c.day = q.day
      /\ c.row = q.row /\ c.rows = q.rows /\ c.value = q.value
      /\ c.began = q.began /\ c.alone = q.alone
    BY ClosingIs
<1> HIDE DEF c
<1> QED BY <1>1, <1>2, <1>3, <1>4 DEF Moves

LEMMA QuietReturn ==
    ASSUME IInv, NEW r \in Runs, NEW q, Typed(q), Return(r, q),
           q.stage = "analytics" => /\ run[r].stage = "analytics" /\ run[r].pc = "write"
                                    /\ q.rows = run[r].rows /\ q.day = run[r].day /\ q.began = run[r].began
    PROVE  \A o \in Runs : Quiet(o)
<1>1. /\ Moves(r, run'[r])
      /\ early => run'[r] = Answered(q)
      /\ ~early => /\ run'[r].pc = "closing" /\ run'[r].stage = q.stage /\ run'[r].day = q.day
                   /\ run'[r].rows = q.rows /\ run'[r].began = q.began
    BY ReturnIs
<1>2. Quiet(r)
    BY <1>1, AnsweredReadsNothing DEF Quiet
<1> QED BY <1>1, <1>2, QuietMove

\* What a request writes it returns with, or it ends.
LEMMA WriteIs ==
    ASSUME IInv, NEW r \in Runs, Write(r)
    PROVE  LET p == run[r]
           IN  /\ Steady /\ p.pc = "write" /\ p.stage # "score" /\ ~Locked(r)
               /\ \/ Moves(r, Unused) /\ ending' = ending
                  \/ \E q : /\ Return(r, q) /\ Typed(q) /\ q.stage = p.stage /\ q.day = p.day /\ q.rows = p.rows
                            /\ q.value = p.value /\ q.began = p.began /\ q.alone = p.alone
                            /\ p.stage # "feature" => q.row = p.value
                            /\ p.stage = "feature" /\ p.row = features[p.day] => q.row = p.value
<1> DEFINE p   == run[r]
           row == IF p.stage = "feature" THEN Written(p.row, p.value, features[p.day]) ELSE p.value
           q   == [p EXCEPT !.row = row]
<1>1. /\ DOMAIN run = Runs /\ Typed(p) /\ RunOK(p) /\ p.pc = "write" /\ p.stage # "score" /\ Steady /\ ~Locked(r)
    BY RunIs DEF Write, Steady, RunOK
<1>2. CASE p.stage = "feature" /\ p.row = NoRow /\ features[p.day] # NoRow
    <2>1. Moves(r, Unused) /\ ending' = ending
        BY <1>1, <1>2 DEF Write, Moves
    <2> QED BY <1>1, <2>1
<1>3. CASE ~(p.stage = "feature" /\ p.row = NoRow /\ features[p.day] # NoRow)
    <2>1. Return(r, q)
        BY <1>3 DEF Write
    <2>2. /\ Typed(q) /\ q.stage = p.stage /\ q.day = p.day /\ q.rows = p.rows /\ q.value = p.value /\ q.row = row
          /\ q.began = p.began /\ q.alone = p.alone
        BY <1>1, WithRow
    <2>3. p.stage # "feature" => row = p.value
        OBVIOUS
    <2>4. p.stage = "feature" /\ p.row = features[p.day] => row = p.value
        BY <1>1, <1>3, WrittenIs
    <2> HIDE DEF row, q
    <2> QED BY <1>1, <2>1, <2>2, <2>3, <2>4
<1> QED BY <1>2, <1>3

LEMMA ReadPageReads ==
    ASSUME IInv, ReadInv, NEW r \in Runs, ReadPage(r)
    PROVE  ReadInv'
<1> DEFINE p   == run[r]
           q   == run'[r]
           all == Ordered(p.day)
           n   == Len(p.rows)
           S   == UpTo(p.day)
<1>1. PICK to \in Nat :
         /\ to <= Len(all)
         /\ q.rows \in Seq(Ledger)
         /\ n <= to => Len(q.rows) = to
         /\ \A i \in 1..n : q.rows[i] = p.rows[i]
         /\ n <= to => \A i \in (n + 1)..to : q.rows[i] = all[i]
         /\ n <= Len(all) => n <= to
         /\ q.pc = (IF Len(all) > to THEN "read" ELSE "write")
         /\ q.stage = "analytics" /\ q.day = p.day /\ q.began = p.began
         /\ Moves(r, q) /\ Steady
         /\ p.stage = "analytics" /\ p.pc = "read"
    BY PageIs
<1>2. p.day \in Days /\ Typed(p) /\ RunOK(p) /\ Reads(p)
    BY RunIs DEF ReadInv
<1>3. /\ S \in SUBSET Ledger /\ IsFiniteSet(S) /\ Cardinality(S) \in Nat
      /\ Len(all) = Cardinality(S)
      /\ \A t \in S : all[Rank(t, S) + 1] = t
    BY <1>2, OrderedIs DEF IInv, TypeOK, Shape
<1>4. /\ p.rows \in Seq(Ledger) /\ n \in Nat /\ n <= Cardinality(S)
      /\ \A t \in p.began : t \in S /\ (t \in Range(p.rows) \/ Rank(t, S) >= n)
    BY <1>1, <1>2 DEF RunOK, Reads
<1>5. n <= to /\ Len(q.rows) = to
    BY <1>1, <1>3, <1>4
<1> HIDE DEF p, q, all, n, S
<1>6. DOMAIN q.rows = 1..to /\ DOMAIN p.rows = 1..n
    BY <1>1, <1>4, <1>5 DEF n
<1>7. ASSUME NEW t \in p.began
      PROVE  t \in S /\ (t \in Range(q.rows) \/ Rank(t, S) >= to)
    <2>1. t \in S /\ Rank(t, S) \in Nat
        BY <1>3, <1>4, RankIs
    <2>2. CASE t \in Range(p.rows)
        <3>1. PICK i \in 1..n : p.rows[i] = t
            BY <1>6, <2>2 DEF Range
        <3>2. i \in 1..to /\ q.rows[i] = t
            BY <1>1, <1>4, <1>5, <3>1
        <3> QED BY <1>6, <2>1, <3>2 DEF Range
    <2>3. CASE Rank(t, S) >= n /\ Rank(t, S) < to
        <3>1. Rank(t, S) + 1 \in (n + 1)..to /\ Rank(t, S) + 1 \in 1..to
            BY <1>4, <2>1, <2>3
        <3>2. q.rows[Rank(t, S) + 1] = t
            BY <1>1, <1>3, <1>5, <2>1, <3>1
        <3> QED BY <1>6, <2>1, <3>1, <3>2 DEF Range
    <2>4. CASE Rank(t, S) >= to
        BY <2>1, <2>4
    <2> QED BY <1>4, <2>1, <2>2, <2>3, <2>4
<1>8. Reads(run[r])'
    <2>1. UpTo(run[r].day)' = S
        BY <1>1, SteadyIs DEF UpTo, S, p, q
    <2>2. q.pc = "write" => q.began \subseteq Range(q.rows)
        <3> SUFFICES ASSUME q.pc = "write", NEW t \in q.began PROVE t \in Range(q.rows)
            OBVIOUS
        <3>1. t \in S /\ (t \in Range(q.rows) \/ Rank(t, S) >= to)
            BY <1>1, <1>7
        <3>2. to = Cardinality(S)
            BY <1>1, <1>3
        <3>3. Rank(t, S) \in Nat /\ Rank(t, S) < Cardinality(S)
            BY <1>3, <3>1, RankIs
        <3> QED BY <3>1, <3>2, <3>3
    <2>3. \A t \in q.began : t \in S /\ (t \in Range(q.rows) \/ Rank(t, S) >= Len(q.rows))
        BY <1>1, <1>5, <1>7
    <2>4. q.pc \in {"read", "write"} /\ Len(q.rows) <= Cardinality(S)
        BY <1>1, <1>3, <1>5
    <2> QED BY <2>1, <2>2, <2>3, <2>4 DEF Reads, q
<1>9. ASSUME NEW o \in Runs \ {r} PROVE Reads(run[o])'
    <2>1. run'[o] = run[o] /\ ledger' = ledger /\ Reads(run[o])
        BY <1>1, SteadyIs DEF Moves, ReadInv
    <2> QED BY ONLY <2>1 DEF Reads, UpTo, Rank
<1> QED BY <1>8, <1>9 DEF ReadInv

LEMMA StartReads ==
    ASSUME IInv, ReadInv, NEW r \in Runs, Start(r)
    PROVE  ReadInv'
<1>1. /\ ledger' = ledger
      /\ run'[r].stage = "analytics" /\ run'[r].pc = "read" /\ run'[r].rows = <<>>
      /\ run'[r].day = today /\ run'[r].began = UpTo(today)
    BY StartIs
<1>2. /\ UpTo(today) \in SUBSET Ledger /\ IsFiniteSet(UpTo(today)) /\ Cardinality(UpTo(today)) \in Nat
    BY OrderedIs DEF IInv, TypeOK, Shape
<1>3. Reads(run[r])'
    <2>1. UpTo(run[r].day)' = UpTo(today)
        BY <1>1 DEF UpTo
    <2>2. \A t \in UpTo(today) : Rank(t, UpTo(today)) >= 0
        BY <1>2, RankIs
    <2>3. Len(run'[r].rows) = 0
        BY <1>1
    <2> QED BY <1>1, <1>2, <2>1, <2>2, <2>3 DEF Reads
<1>4. ASSUME NEW o \in Runs \ {r} PROVE Reads(run[o])'
    <2>1. CASE run'[o] = Unused
        BY <2>1, UnusedIs DEF Reads
    <2>2. CASE run'[o] # Unused
        <3>1. /\ run'[o].stage = run[o].stage /\ run'[o].pc = run[o].pc /\ run'[o].day = run[o].day
              /\ run'[o].rows = run[o].rows
              /\ run[o].stage = "analytics" => run'[o].began = run[o].began
            BY <2>2, StartIs
        <3>2. Reads(run[o])
            BY DEF ReadInv
        <3> QED BY ONLY <1>1, <3>1, <3>2 DEF Reads, UpTo, Rank
    <2> QED BY <2>1, <2>2
<1> QED BY <1>3, <1>4 DEF ReadInv

\* Rows that are inserted only move the others back.
LEMMA ImportReads ==
    ASSUME IInv, ReadInv, Import
    PROVE  ReadInv'
<1>1. PICK t \in Ledger : ledger' = ledger \cup {t}
    BY DEF Import
<1>2. run' = run
    BY DEF Import
<1>3. IsFiniteSet(ledger') /\ ledger' \subseteq Ledger /\ ledger \subseteq ledger'
    BY <1>1, FS_AddElement DEF IInv, Shape, TypeOK
<1> SUFFICES ASSUME NEW r \in Runs PROVE Reads(run[r])'
    BY DEF ReadInv
<1> DEFINE p == run[r]
           S == UpTo(p.day)
           T == {s \in ledger' : s.day <= p.day}
<1>4. p.day \in Days /\ Reads(p) /\ RunOK(p)
    BY RunIs DEF ReadInv
<1>5. UpTo(run[r].day)' = T /\ run'[r] = p
    BY <1>2 DEF UpTo
<1>6. /\ T \in SUBSET Ledger /\ S \in SUBSET T /\ IsFiniteSet(T)
    <2>1. T \in SUBSET ledger'
        OBVIOUS
    <2>2. IsFiniteSet(T)
        BY <1>3, <2>1, FS_Subset
    <2> QED BY <1>3, <2>1, <2>2 DEF UpTo
<1> HIDE DEF p, S, T
<1>7. Cardinality(S) <= Cardinality(T) /\ Cardinality(S) \in Nat /\ Cardinality(T) \in Nat
    BY <1>6, FS_Subset, FS_CardinalityType
<1>8. \A s \in T : Rank(s, S) <= Rank(s, T) /\ Rank(s, S) \in Nat /\ Rank(s, T) \in Nat
    <2> TAKE s \in T
    <2>1. IsFiniteSet(S) /\ S \in SUBSET Ledger /\ s \in Ledger
        BY <1>6, FS_Subset
    <2> QED BY <1>6, <2>1, RankIs
<1>9. p.stage = "analytics" /\ p.pc = "read" =>
         /\ Len(p.rows) <= Cardinality(T)
         /\ \A s \in p.began : s \in T /\ (s \in Range(p.rows) \/ Rank(s, T) >= Len(p.rows))
    <2> SUFFICES ASSUME p.stage = "analytics", p.pc = "read"
                 PROVE  /\ Len(p.rows) <= Cardinality(T)
                        /\ \A s \in p.began : s \in T /\ (s \in Range(p.rows) \/ Rank(s, T) >= Len(p.rows))
        OBVIOUS
    <2>1. /\ Len(p.rows) <= Cardinality(S)
          /\ \A s \in p.began : s \in S /\ (s \in Range(p.rows) \/ Rank(s, S) >= Len(p.rows))
        BY <1>4 DEF Reads, S
    <2>2. Len(p.rows) \in Nat
        <3>1. p.rows \in Seq(Ledger)
            BY <1>4 DEF RunOK
        <3> QED BY <3>1
    <2> QED BY <1>6, <1>7, <1>8, <2>1, <2>2
<1>10. p.stage = "analytics" /\ p.pc \in {"write", "closing"} => p.began \subseteq Range(p.rows)
    BY <1>4 DEF Reads
<1> QED BY <1>5, <1>9, <1>10 DEF Reads

LEMMA ReadStep ==
    ASSUME IInv, ReadInv, [Next]_vars
    PROVE  ReadInv'
<1>1. ASSUME NEW r \in Runs, Fails(r) PROVE ReadInv'
    <2>1. Moves(r, Unused) /\ Steady
        BY <1>1, RunIs DEF Fails, Moves, Steady
    <2>2. Quiet(r)
        BY <2>1, UnusedIs DEF Moves, Quiet
    <2> QED BY <2>1, <2>2, QuietMove, QuietReads, SteadyIs
<1>2. ASSUME NEW r \in Runs, Timeout(r) PROVE ReadInv'
    <2>1. /\ Moves(r, run'[r]) /\ Steady
          /\ run'[r].stage = run[r].stage /\ run'[r].day = run[r].day /\ run'[r].pc = run[r].pc
          /\ run'[r].rows = run[r].rows /\ run'[r].began = run[r].began
        BY <1>2, TimeoutIs
    <2>2. Quiet(r)
        BY <2>1 DEF Quiet
    <2> QED BY <2>1, <2>2, QuietMove, QuietReads, SteadyIs
<1>3. ASSUME NEW stage \in Stages, Stop(stage) PROVE ReadInv'
    <2>1. ledger' = ledger /\ \A r \in Runs : run'[r] = Unused \/ run'[r] = run[r]
        BY <1>3 DEF Stop
    <2>2. \A r \in Runs : Quiet(r)
        BY <2>1, UnusedIs DEF Quiet
    <2> QED BY <2>1, <2>2, QuietReads
<1>4. ASSUME NEW r \in Runs, Evaluate(r) PROVE ReadInv'
    <2>1. /\ Steady /\ Typed(run[r]) /\ run[r].stage = "signal" /\ DOMAIN run = Runs /\ DOMAIN run[r] = DOMAIN Unused
        BY <1>4, RunIs DEF Evaluate, At, Steady
    <2>2. CASE Return(r, run[r])
        BY <2>1, <2>2, QuietReturn, QuietReads, SteadyIs
    <2>3. CASE run' = [run EXCEPT ![r].pc = "write",
                                  ![r].value = [status |-> Status(Observed), from |-> Observed.asOf]]
        <3>1. run'[r].stage = "signal"
            <4>1. DOMAIN run[r] = {"stage", "day", "pc", "caller", "rows", "snapshot", "statuses", "row", "value", "began", "alone"}
                BY <2>1, Fields
            <4> QED BY <2>1, <2>3, <4>1
        <3>2. Moves(r, run'[r])
            BY <2>1, <2>3 DEF Moves
        <3>3. Quiet(r)
            BY <3>1 DEF Quiet
        <3> QED BY <2>1, <3>2, <3>3, QuietMove, QuietReads, SteadyIs
    <2> QED BY <1>4, <2>2, <2>3 DEF Evaluate
<1>5. ASSUME NEW r \in Runs, ReadMetrics(r) \/ ReadSignals(r) \/ Build(r) PROVE ReadInv'
    <2>1. Moves(r, run'[r]) /\ Steady /\ run'[r].stage = "feature"
        BY <1>5, ReadMetricsIs, ReadSignalsIs, BuildIs
    <2>2. Quiet(r)
        BY <2>1 DEF Quiet
    <2> QED BY <2>1, <2>2, QuietMove, QuietReads, SteadyIs
<1>6. ASSUME NEW r \in Runs, Score(r) PROVE ReadInv'
    <2> DEFINE q == [run[r] EXCEPT !.row = run[r].value]
    <2>1. /\ Typed(run[r]) /\ run[r].stage = "score" /\ Steady /\ Return(r, q)
        BY <1>6, RunIs DEF Score, At, Steady
    <2>2. Typed(q) /\ q.stage = "score"
        BY <2>1, WithRow
    <2> HIDE DEF q
    <2> QED BY <2>1, <2>2, QuietReturn, QuietReads, SteadyIs
<1>7. ASSUME NEW r \in Runs, Write(r) PROVE ReadInv'
    <2>1. Steady /\ run[r].pc = "write"
        BY <1>7, WriteIs
    <2>2. CASE Moves(r, Unused)
        <3>1. Quiet(r)
            BY <2>2, UnusedIs DEF Moves, Quiet
        <3> QED BY <2>1, <2>2, <3>1, QuietMove, QuietReads, SteadyIs
    <2>3. CASE \E q : /\ Return(r, q) /\ Typed(q) /\ q.stage = run[r].stage /\ q.day = run[r].day
                      /\ q.rows = run[r].rows /\ q.began = run[r].began
        <3>1. PICK q : /\ Return(r, q) /\ Typed(q) /\ q.stage = run[r].stage /\ q.day = run[r].day
                       /\ q.rows = run[r].rows /\ q.began = run[r].began
            BY <2>3
        <3>2. \A o \in Runs : Quiet(o)
            BY <2>1, <3>1, QuietReturn
        <3> QED BY <2>1, <3>2, QuietReads, SteadyIs
    <2> QED BY <1>7, <2>2, <2>3, WriteIs
<1>8. ASSUME NEW r \in Runs, Close(r) PROVE ReadInv'
    <2>1. ledger' = ledger /\ Moves(r, Answered(run[r])) /\ Typed(run[r])
        BY <1>8, RunIs DEF Close, Moves
    <2>2. Quiet(r)
        BY <2>1, AnsweredReadsNothing DEF Moves, Quiet
    <2> QED BY <2>1, <2>2, QuietMove, QuietReads
<1>9. ASSUME ledger' = ledger, run' = run PROVE ReadInv'
    <2>1. \A r \in Runs : Quiet(r)
        BY <1>9 DEF Quiet
    <2> QED BY <1>9, <2>1, QuietReads
<1>10. CASE \E r \in Runs : Start(r) \/ Fails(r) \/ Timeout(r)
    BY <1>1, <1>2, <1>10, StartReads
<1>11. CASE \E stage \in Stages : Stop(stage)
    BY <1>3, <1>11
<1>12. CASE \E r \in Runs : ReadPage(r) \/ Evaluate(r) \/ ReadMetrics(r) \/ ReadSignals(r) \/ Build(r) \/ Score(r)
    BY <1>4, <1>5, <1>6, <1>12, ReadPageReads
<1>13. CASE \E r \in Runs : Write(r) \/ Close(r)
    BY <1>7, <1>8, <1>13
<1>14. CASE (\E e \in ending : CloseLate(e)) \/ Midnight \/ UNCHANGED vars
    <2>1. ledger' = ledger /\ run' = run
        BY <1>14 DEF CloseLate, Midnight, vars
    <2> QED BY <1>9, <2>1
<1>15. CASE Import
    BY <1>15, ImportReads
<1> QED BY <1>10, <1>11, <1>12, <1>13, <1>14, <1>15 DEF Next

LEMMA ReadInvariance == Spec => []ReadInv
<1>1. Init => ReadInv
    BY UnusedIs DEF Init, ReadInv, Reads
<1>2. IInv /\ ReadInv /\ [Next]_vars => ReadInv'
    BY ReadStep
<1> QED BY <1>1, <1>2, Invariance, PTL DEF Spec

(* A recompute that has read its last page has read every transaction that *)
(* was there when it began, for any page size and any number of imports in *)
(* between, of any day.                                                    *)
THEOREM PagesMissNothing == Spec => []NothingIsMissed
<1>1. ReadInv => NothingIsMissed
    BY DEF ReadInv, Reads, NothingIsMissed, Range
<1> QED BY <1>1, ReadInvariance, PTL
-----------------------------------------------------------------------------
(* Pipelines that run alone *)

\* Rows that are all read are counted.
LEMMA RowsAreCounted ==
    ASSUME NEW rows \in Seq(Ledger), NEW day \in Days, NEW B \in SUBSET Range(rows)
    PROVE  Calculate(rows, day).sample >= Cardinality({t \in B : t.day \in Window(day, 0)})
<1> DEFINE I == InWindow(rows, day, 0)
           W == {t \in B : t.day \in Window(day, 0)}
           J == {i \in I : rows[i] \in W}
           f == [i \in J |-> rows[i]]
<1>1. IsFiniteSet(I)
    <2>1. IsFiniteSet(1..Len(rows))
        BY FS_Interval
    <2>2. I \in SUBSET (1..Len(rows))
        BY DEF InWindow
    <2> HIDE DEF I
    <2> QED BY <2>1, <2>2, FS_Subset
<1>2. \A t \in W : \E i \in J : rows[i] = t
    <2> TAKE t \in W
    <2>1. PICK i \in DOMAIN rows : rows[i] = t
        BY DEF Range
    <2>2. i \in I
        BY <2>1 DEF InWindow
    <2> QED BY <2>1, <2>2
<1>3. J \in SUBSET I
    OBVIOUS
<1>4. f \in Surjection(J, W)
    <2>1. f \in [J -> W]
        OBVIOUS
    <2> QED BY <1>2, <2>1 DEF Surjection
<1> HIDE DEF I, W, J, f
<1>5. IsFiniteSet(J) /\ Cardinality(J) <= Cardinality(I)
    BY <1>1, <1>3, FS_Subset
<1>6. IsFiniteSet(W) /\ Cardinality(W) <= Cardinality(J)
    BY <1>4, <1>5, FS_Surjection
<1>7. Cardinality(I) \in Nat /\ Cardinality(J) \in Nat /\ Cardinality(W) \in Nat
    BY <1>1, <1>5, <1>6, FS_CardinalityType
<1>8. Cardinality(I) >= Cardinality(W)
    BY <1>5, <1>6, <1>7
<1>9. Calculate(rows, day).sample = Cardinality(I)
    BY CalculateIs DEF I
<1> QED BY <1>8, <1>9 DEF W

\* What a request of analytics-service writes and stores is computed of its rows.
Computes(q) ==
    /\ q.stage = "analytics" /\ q.pc = "write" => q.value = Calculate(q.rows, q.day)
    /\ q.stage = "analytics" /\ q.pc = "closing" => q.row = Calculate(q.rows, q.day)
    /\ q.pc = "completed" => q.alone

LEMMA FreshIs ==
    ASSUME FreshInv, NEW r \in Runs
    PROVE  /\ Computes(run[r])
           /\ run[r].alone /\ ~early => Fresh(run[r])
           /\ run[r].alone => \A o \in Runs \ {r} : Idle(o)
BY DEF FreshInv, Computes

LEMMA IsFresh ==
    ASSUME \A r \in Runs : /\ Computes(run'[r])
                           /\ run'[r].alone /\ ~early' => Fresh(run[r])'
                           /\ run'[r].alone => \A o \in Runs \ {r} : run'[o].pc \in {"completed", "over"}
    PROVE  FreshInv'
BY DEF FreshInv, Computes, Idle

\* While a request works, the others are not alone.
LEMMA MoveIsFresh ==
    ASSUME IInv, FreshInv, NEW r \in Runs, ~Idle(r), Moves(r, run'[r]), Computes(run'[r]),
           run'[r].alone => run[r].alone,
           run'[r].alone /\ ~early' => Fresh(run[r])'
    PROVE  FreshInv'
<1>1. \A o \in Runs \ {r} : ~run[o].alone /\ run'[o] = run[o]
    BY FreshIs DEF Moves
<1>2. \A o \in Runs : Computes(run'[o])
    BY <1>1, FreshIs
<1>3. \A o \in Runs : run'[o].alone => o = r
    BY <1>1
<1>4. run'[r].alone => \A o \in Runs \ {r} : run'[o].pc \in {"completed", "over"}
    BY <1>1, FreshIs DEF Idle
<1> QED BY <1>2, <1>3, <1>4, IsFresh

LEMMA SteadyIsFresh ==
    ASSUME Steady, NEW r \in Runs, Fresh(run'[r])
    PROVE  Fresh(run[r])'
<1>1. metrics' = metrics /\ features' = features /\ scores' = scores
    BY SteadyIs
<1>2. Fresh(run'[r])
    OBVIOUS
<1> QED BY ONLY <1>1, <1>2 DEF Fresh, Counted, FreshVector

\* Who is answered is alone only if it was, and writes nothing yet.
LEMMA AnsweredComputes ==
    ASSUME NEW q, Typed(q)
    PROVE  Computes(Answered(q)) /\ (Answered(q).alone => q.alone)
<1> DEFINE a == Answered(q)
<1>1. CASE a = Unused
    BY <1>1, UnusedIs DEF Computes
<1>2. CASE a # Unused
    <2>1. \/ a.pc = "read" /\ a.alone = q.alone
          \/ a.pc = "completed" /\ q.alone /\ a.alone = TRUE
        BY <1>2, AnsweredIs
    <2> HIDE DEF a
    <2> QED BY <2>1 DEF Computes, a
<1> QED BY <1>1, <1>2

LEMMA ReturnIsFresh ==
    ASSUME IInv, FreshInv, Steady, NEW r \in Runs, ~Idle(r), NEW q, Typed(q), Return(r, q),
           q.alone => run[r].alone, q.stage = "analytics" => q.row = Calculate(q.rows, q.day),
           q.alone /\ ~early =>
               /\ q.stage # "analytics" => Counted(q)
               /\ q.stage \in {"feature", "score"} => FreshVector(q.value, q.day) /\ q.row = q.value
               /\ q.stage = "score" => features[q.day] = q.value
    PROVE  FreshInv'
<1> DEFINE c == run'[r]
<1>1. /\ Moves(r, c)
      /\ early => c = Answered(q)
      /\ ~early => /\ c.pc = "closing" /\ c.stage = q.stage /\ c.day = q.day
                   /\ c.row = q.row /\ c.rows = q.rows /\ c.value = q.value
                   /\ c.began = q.began /\ c.alone = q.alone
    BY ReturnIs
<1>2. early' = early
    BY SteadyIs
<1>3. CASE early
    <2>1. Computes(c) /\ (c.alone => run[r].alone)
        BY <1>1, <1>3, AnsweredComputes
    <2> QED BY <1>1, <1>2, <1>3, <2>1, MoveIsFresh
<1>4. CASE ~early
    <2>1. Computes(c)
        BY <1>1, <1>4 DEF Computes
    <2>2. ASSUME c.alone PROVE Fresh(run[r])'
        <3>1. Fresh(c)
            BY <1>1, <1>4, <2>2 DEF Fresh, Counted
        <3> QED BY <3>1, SteadyIsFresh
    <2> QED BY <1>1, <1>2, <1>4, <2>1, <2>2, MoveIsFresh
<1> QED BY <1>3, <1>4

LEMMA EvaluateIs ==
    ASSUME IInv, NEW r \in Runs, Evaluate(r)
    PROVE  LET p == run[r]
               q == run'[r]
           IN  /\ Steady /\ Typed(p) /\ p.stage = "signal" /\ p.pc = "read"
               /\ \/ Return(r, p)
                  \/ /\ Moves(r, q) /\ q.stage = "signal" /\ q.pc = "write" /\ q.day = p.day
                     /\ q.began = p.began /\ q.alone = p.alone
<1> DEFINE p == run[r]
           q == run'[r]
<1>1. /\ DOMAIN run = Runs /\ Typed(p) /\ p.stage = "signal" /\ p.pc = "read" /\ Steady
      /\ DOMAIN p = DOMAIN Unused
    BY RunIs DEF Evaluate, At, Steady
<1>2. CASE run' = [run EXCEPT ![r].pc = "write",
                              ![r].value = [status |-> Status(Observed), from |-> Observed.asOf]]
    <2>1. DOMAIN p = {"stage", "day", "pc", "caller", "rows", "snapshot", "statuses", "row", "value", "began", "alone"}
        BY <1>1, Fields
    <2>2. /\ q.stage = "signal" /\ q.pc = "write" /\ q.day = p.day
          /\ q.began = p.began /\ q.alone = p.alone
        BY <1>1, <1>2, <2>1
    <2>3. Moves(r, q)
        BY <1>1, <1>2 DEF Moves
    <2> QED BY <1>1, <2>2, <2>3
<1>3. CASE Return(r, p)
    BY <1>1, <1>3
<1> QED BY <1>2, <1>3 DEF Evaluate

LEMMA EvaluateFresh ==
    ASSUME IInv, FreshInv, NEW r \in Runs, Evaluate(r)
    PROVE  FreshInv'
<1> DEFINE p == run[r]
           q == run'[r]
<1>1. /\ Steady /\ Typed(p) /\ p.stage = "signal" /\ p.pc = "read"
      /\ \/ Return(r, p)
         \/ /\ Moves(r, q) /\ q.stage = "signal" /\ q.pc = "write" /\ q.day = p.day
            /\ q.began = p.began /\ q.alone = p.alone
    BY EvaluateIs
<1>2. ~Idle(r) /\ early' = early
    BY <1>1, SteadyIs DEF Idle
<1>3. p.alone /\ ~early => Counted(p)
    BY <1>1, FreshIs DEF Fresh
<1>4. CASE Return(r, p)
    BY <1>1, <1>2, <1>3, <1>4, ReturnIsFresh
<1>5. CASE Moves(r, q) /\ q.stage = "signal" /\ q.pc = "write" /\ q.day = p.day /\ q.began = p.began /\ q.alone = p.alone
    <2>1. Computes(q)
        BY <1>5 DEF Computes
    <2>2. ASSUME q.alone, ~early PROVE Fresh(run[r])'
        <3>1. Counted(p)
            BY <1>3, <1>5, <2>2
        <3> HIDE DEF p, q
        <3>2. Fresh(q)
            BY <1>5, <3>1 DEF Fresh, Counted
        <3> QED BY <1>1, <3>2, SteadyIsFresh DEF q
    <2> QED BY <1>2, <1>5, <2>1, <2>2, MoveIsFresh
<1> QED BY <1>1, <1>4, <1>5

LEMMA ReadMetricsFresh ==
    ASSUME IInv, FreshInv, NEW r \in Runs, ReadMetrics(r)
    PROVE  FreshInv'
<1> DEFINE p == run[r]
           q == run'[r]
<1>1. /\ Moves(r, q) /\ Steady /\ p.stage = "feature" /\ p.pc = "read"
      /\ q.stage = "feature" /\ q.pc = "signals" /\ q.day = p.day
      /\ q.began = p.began /\ q.alone = p.alone
      /\ q.snapshot = metrics[Latest(p.day)]
      /\ Latest(p.day) \in Computed /\ Latest(p.day) <= p.day
      /\ \A e \in Computed : e <= p.day => e <= Latest(p.day)
    BY ReadMetricsIs
<1>2. ~Idle(r) /\ early' = early /\ p.day \in Days /\ p.day \in Nat
    BY <1>1, SteadyIs, RunIs, DaysAre DEF Idle
<1>3. Computes(q)
    BY <1>1 DEF Computes
<1>4. ASSUME q.alone, ~early PROVE Fresh(run[r])'
    <2>1. Counted(p)
        BY <1>1, <1>4, FreshIs DEF Fresh
    <2>2. Latest(p.day) = p.day
        <3>1. p.day \in Computed
            BY <1>2, <2>1 DEF Counted, Computed
        <3>2. Latest(p.day) \in Nat
            BY <1>1, DaysAre DEF Computed
        <3> QED BY <1>1, <1>2, <3>1, <3>2
    <2> HIDE DEF p, q
    <2>3. Fresh(q)
        BY <1>1, <2>1, <2>2 DEF Fresh, Counted
    <2> QED BY <1>1, <2>3, SteadyIsFresh DEF q
<1> QED BY <1>1, <1>2, <1>3, <1>4, MoveIsFresh

LEMMA ReadSignalsFresh ==
    ASSUME IInv, FreshInv, NEW r \in Runs, ReadSignals(r)
    PROVE  FreshInv'
<1> DEFINE p == run[r]
           q == run'[r]
<1>1. /\ Moves(r, q) /\ Steady /\ p.stage = "feature" /\ p.pc = "signals"
      /\ q.stage = "feature" /\ q.pc = "rules" /\ q.day = p.day
      /\ q.began = p.began /\ q.alone = p.alone /\ q.snapshot = p.snapshot
    BY ReadSignalsIs
<1>2. ~Idle(r) /\ early' = early
    BY <1>1, SteadyIs DEF Idle
<1>3. Computes(q)
    BY <1>1 DEF Computes
<1>4. ASSUME q.alone, ~early PROVE Fresh(run[r])'
    <2>1. Fresh(p)
        BY <1>1, <1>4, FreshIs
    <2> HIDE DEF p, q
    <2>2. Fresh(q)
        BY <1>1, <2>1 DEF Fresh, Counted
    <2> QED BY <1>1, <2>2, SteadyIsFresh DEF q
<1> QED BY <1>1, <1>2, <1>3, <1>4, MoveIsFresh

LEMMA BuildFresh ==
    ASSUME IInv, FreshInv, NEW r \in Runs, Build(r)
    PROVE  FreshInv'
<1> DEFINE p == run[r]
           q == run'[r]
<1>1. /\ Moves(r, q) /\ Steady /\ p.stage = "feature" /\ p.pc = "rules"
      /\ q.stage = "feature" /\ q.pc = "write" /\ q.day = p.day
      /\ q.row = features[p.day] /\ q.value = Vector(p.snapshot, p.statuses)
      /\ q.began = p.began /\ q.alone = p.alone
    BY BuildIs
<1>2. ~Idle(r) /\ early' = early /\ p.day \in Days
    BY <1>1, SteadyIs, RunIs DEF Idle
<1>3. Computes(q)
    BY <1>1 DEF Computes
<1>4. ASSUME q.alone, ~early PROVE Fresh(run[r])'
    <2>1. Counted(p) /\ p.snapshot = metrics[p.day]
        BY <1>1, <1>4, FreshIs DEF Fresh
    <2>2. metrics[p.day].asOf = p.day
        BY <1>2, <2>1 DEF IInv, PointInv, Storable, Counted
    <2> HIDE DEF p, q
    <2>3. FreshVector(q.value, p.day)
        <3>1. /\ q.value.sources.asOf = p.day
              /\ q.value.values = Values(metrics[p.day], p.statuses)
            BY <1>1, <2>1, <2>2, VectorIs
        <3> QED BY <3>1 DEF FreshVector, Values
    <2>4. Fresh(q)
        BY <1>1, <2>1, <2>3 DEF Fresh, Counted
    <2> QED BY <1>1, <2>4, SteadyIsFresh DEF q
<1> QED BY <1>1, <1>2, <1>3, <1>4, MoveIsFresh

LEMMA ScoreFresh ==
    ASSUME IInv, FreshInv, NEW r \in Runs, Score(r)
    PROVE  FreshInv'
<1> DEFINE p == run[r]
           q == [p EXCEPT !.row = p.value]
<1>1. /\ Typed(p) /\ p.stage = "score" /\ p.pc = "read" /\ Steady /\ Return(r, q) /\ ~Idle(r)
    BY RunIs DEF Score, At, Steady, Idle
<1>2. /\ Typed(q) /\ q.stage = "score" /\ q.day = p.day /\ q.row = p.value /\ q.value = p.value
      /\ q.began = p.began /\ q.alone = p.alone
    BY <1>1, WithRow
<1>3. p.alone /\ ~early => Counted(p) /\ FreshVector(p.value, p.day) /\ features[p.day] = p.value
    BY <1>1, FreshIs DEF Fresh
<1>4. p.alone /\ ~early => Counted(q)
    <2> HIDE DEF p, q
    <2> QED BY <1>2, <1>3 DEF Counted
<1>5. q.alone => run[r].alone
    BY <1>2
<1> HIDE DEF p, q
<1> QED BY <1>1, <1>2, <1>3, <1>4, <1>5, ReturnIsFresh

LEMMA WriteFresh ==
    ASSUME IInv, FreshInv, NEW r \in Runs, Write(r)
    PROVE  FreshInv'
<1> DEFINE p == run[r]
<1>1. /\ Steady /\ p.pc = "write" /\ p.stage # "score" /\ ~Idle(r) /\ early' = early /\ p.stage \in Stages
    BY WriteIs, SteadyIs, RunIs DEF Idle, Typed
<1>2. CASE Moves(r, Unused)
    <2>1. run'[r] = Unused /\ Moves(r, run'[r])
        BY <1>2 DEF Moves
    <2>2. Computes(run'[r]) /\ ~run'[r].alone
        BY <2>1, UnusedIs DEF Computes
    <2> QED BY <1>1, <2>1, <2>2, MoveIsFresh
<1>3. CASE \E q : /\ Return(r, q) /\ Typed(q) /\ q.stage = p.stage /\ q.day = p.day /\ q.rows = p.rows
                  /\ q.value = p.value /\ q.began = p.began /\ q.alone = p.alone
                  /\ p.stage # "feature" => q.row = p.value
                  /\ p.stage = "feature" /\ p.row = features[p.day] => q.row = p.value
    <2>1. PICK q : /\ Return(r, q) /\ Typed(q) /\ q.stage = p.stage /\ q.day = p.day /\ q.rows = p.rows
                   /\ q.value = p.value /\ q.began = p.began /\ q.alone = p.alone
                   /\ p.stage # "feature" => q.row = p.value
                   /\ p.stage = "feature" /\ p.row = features[p.day] => q.row = p.value
        BY <1>3
    <2>2. q.stage = "analytics" => q.row = Calculate(q.rows, q.day)
        BY <1>1, <2>1, FreshIs DEF Computes
    <2>3. ASSUME q.alone, ~early
          PROVE  /\ q.stage # "analytics" => Counted(q)
                 /\ q.stage \in {"feature", "score"} => FreshVector(q.value, q.day) /\ q.row = q.value
                 /\ q.stage = "score" => features[q.day] = q.value
        <3>1. Fresh(p)
            BY <2>1, <2>3, FreshIs
        <3> HIDE DEF p
        <3> QED BY <1>1, <2>1, <3>1 DEF Fresh, Counted
    <2>4. q.alone => run[r].alone
        BY <2>1
    <2> QED BY <1>1, <2>1, <2>2, <2>3, <2>4, ReturnIsFresh
<1> QED BY <1>2, <1>3, WriteIs

LEMMA CloseFresh ==
    ASSUME IInv, ReadInv, FreshInv, NEW r \in Runs, Close(r)
    PROVE  FreshInv'
<1> DEFINE p == run[r]
           a == Answered(p)
<1>1. /\ DOMAIN run = Runs /\ Typed(p) /\ RunOK(p) /\ p.day \in Days /\ p.pc = "closing" /\ p.stage \in Stages
      /\ Stored(p.stage, p.day, p.row) /\ run' = [run EXCEPT ![r] = a] /\ early' = early /\ ~Idle(r)
    BY RunIs DEF Close, Typed, Idle
<1>2. Moves(r, run'[r]) /\ run'[r] = a
    BY <1>1 DEF Moves
<1>3. Computes(run'[r]) /\ (run'[r].alone => p.alone)
    BY <1>1, <1>2, AnsweredComputes
<1>4. ASSUME run'[r].alone, ~early PROVE Fresh(run[r])'
    <2>1. Fresh(p) /\ Computes(p) /\ p.alone /\ p.alone = TRUE
        BY <1>1, <1>3, <1>4, FreshIs DEF Typed
    <2>2. a # Unused
        BY <1>2, <1>4, UnusedIs
    <2>3. /\ a.day = p.day /\ a.began = p.began
          /\ \/ /\ a.pc = "read" /\ a.stage # "analytics"
                /\ a.stage = "score" => p.stage = "feature" /\ a.value = p.value
                /\ a.stage = "signal" => p.stage = "analytics"
                /\ a.stage = "feature" => p.stage = "signal"
                /\ a.stage \in Stages
             \/ a.pc = "completed" /\ a.stage = "analytics" /\ p.stage = "score" /\ a.value = p.value
        BY <1>1, <2>1, <2>2, AnsweredIs DEF Typed
    <2>4. /\ p.stage # "analytics" => metrics' = metrics
          /\ p.stage # "feature" => features' = features
          /\ p.stage = "analytics" => metrics'[p.day] = p.row
          /\ p.stage = "feature" => features'[p.day] = p.row
          /\ p.stage = "score" => scores'[p.day] = scores[p.day] \cup {p.row}
        <3>1. DOMAIN metrics = Days /\ DOMAIN features = Days /\ DOMAIN scores = Days
            BY DEF IInv, Shape
        <3>2. /\ metrics'  = IF p.stage = "analytics" THEN Put(metrics, p.day, p.row) ELSE metrics
              /\ features' = IF p.stage = "feature" THEN Put(features, p.day, p.row) ELSE features
              /\ scores'   = IF p.stage = "score" THEN [scores EXCEPT ![p.day] = @ \cup {p.row}] ELSE scores
            BY <1>1 DEF Stored
        <3>3. p.stage \in {"analytics", "feature"} => p.row # NoRow
            BY <1>1, NoRowIs DEF RunOK, Storable
        <3> HIDE DEF p
        <3> QED BY <1>1, <3>1, <3>2, <3>3 DEF Put
    <2>5. p.stage = "analytics" => /\ p.row # NoRow
                                   /\ p.row.sample >= Cardinality({t \in p.began : t.day \in Window(p.day, 0)})
        <3> SUFFICES ASSUME p.stage = "analytics"
                     PROVE  /\ p.row # NoRow
                            /\ p.row.sample >= Cardinality({t \in p.began : t.day \in Window(p.day, 0)})
            OBVIOUS
        <3>1. p.row = Calculate(p.rows, p.day) /\ p.rows \in Seq(Ledger)
            BY <1>1, <2>1 DEF Computes, RunOK
        <3>2. p.row # NoRow
            BY <1>1, NoRowIs DEF RunOK, Storable
        <3>3. p.began \subseteq Range(p.rows)
            BY <1>1 DEF ReadInv, Reads
        <3> HIDE DEF p
        <3> QED BY <1>1, <3>1, <3>2, <3>3, RowsAreCounted
    <2> HIDE DEF p, a
    <2>6. (Counted(run[r]))'
        <3>1. p.stage # "analytics" => Counted(p)
            BY <2>1 DEF Fresh
        <3> QED BY <1>2, <2>3, <2>4, <2>5, <3>1 DEF Counted
    <2>7. a.stage = "score" \/ a.pc = "completed" =>
             /\ FreshVector(run[r].value, run[r].day)' /\ features'[a.day] = a.value
        <3>1. CASE a.stage = "score"
            <4>1. /\ p.stage = "feature" /\ metrics' = metrics /\ features'[p.day] = p.row
                  /\ FreshVector(p.value, p.day) /\ p.row = p.value /\ a.value = p.value /\ a.day = p.day
                BY <1>1, <2>1, <2>3, <2>4, <3>1 DEF Fresh
            <4> QED BY <1>2, <4>1 DEF FreshVector
        <3>2. CASE a.pc = "completed"
            <4>1. /\ p.stage = "score" /\ metrics' = metrics /\ features' = features
                  /\ FreshVector(p.value, p.day) /\ features[p.day] = p.value /\ a.value = p.value /\ a.day = p.day
                BY <1>1, <2>1, <2>3, <2>4, <3>2 DEF Fresh
            <4> QED BY <1>2, <4>1 DEF FreshVector
        <3> QED BY <3>1, <3>2
    <2>8. a.pc = "completed" => a.value \in scores'[a.day]
        BY <1>1, <2>1, <2>3, <2>4 DEF Fresh
    <2> QED BY <1>2, <2>3, <2>6, <2>7, <2>8 DEF Fresh
<1> HIDE DEF a
<1> QED BY <1>1, <1>2, <1>3, <1>4, MoveIsFresh

LEMMA StartFresh ==
    ASSUME IInv, FreshInv, NEW r \in Runs, Start(r)
    PROVE  FreshInv'
<1>1. /\ run'[r].stage = "analytics" /\ run'[r].pc = "read"
      /\ run'[r].alone = (ending = {} /\ \A o \in Runs : Idle(o))
    BY StartIs
<1>2. ASSUME NEW o \in Runs \ {r}
      PROVE  ~run'[o].alone /\ Computes(run'[o]) /\ (Idle(o) => run'[o].pc = "over")
    <2>1. CASE run'[o] = Unused
        BY <2>1, UnusedIs DEF Computes
    <2>2. CASE run'[o] # Unused
        <3>1. /\ ~Idle(o) /\ run'[o].alone = FALSE
              /\ run'[o].stage = run[o].stage /\ run'[o].pc = run[o].pc /\ run'[o].day = run[o].day
              /\ run'[o].rows = run[o].rows /\ run'[o].row = run[o].row /\ run'[o].value = run[o].value
            BY <2>2, StartIs
        <3>2. Computes(run[o])
            BY FreshIs
        <3> QED BY <3>1, <3>2 DEF Computes, Idle
    <2> QED BY <2>1, <2>2
<1>3. Computes(run'[r]) /\ Fresh(run[r])'
    BY <1>1 DEF Computes, Fresh
<1>4. run'[r].alone => \A o \in Runs \ {r} : run'[o].pc \in {"completed", "over"}
    BY <1>1, <1>2
<1> QED BY <1>2, <1>3, <1>4, IsFresh

\* Steps that leave the requests as they are, or end them.
LEMMA EndsAreFresh ==
    ASSUME IInv, FreshInv, early' = early, early \/ UNCHANGED tables,
           \A r \in Runs : run'[r] = Unused \/ run'[r] = run[r]
    PROVE  FreshInv'
<1>1. ASSUME NEW r \in Runs
      PROVE  /\ Computes(run'[r])
             /\ run'[r].alone /\ ~early' => Fresh(run[r])'
             /\ run'[r].alone => \A o \in Runs \ {r} : run'[o].pc \in {"completed", "over"}
    <2>1. CASE run'[r] = Unused
        BY <2>1, UnusedIs DEF Computes
    <2>2. CASE run'[r] = run[r]
        <3>1. /\ Computes(run[r])
              /\ run[r].alone /\ ~early => Fresh(run[r])
              /\ run[r].alone => \A o \in Runs \ {r} : Idle(o)
            BY FreshIs
        <3>2. ASSUME run'[r].alone, ~early' PROVE Fresh(run[r])'
            <4>1. metrics' = metrics /\ features' = features /\ scores' = scores
                BY <3>2 DEF tables
            <4>2. Fresh(run[r])
                BY <2>2, <3>1, <3>2
            <4> QED BY ONLY <2>2, <4>1, <4>2 DEF Fresh, Counted, FreshVector
        <3>3. \A o \in Runs : Idle(o) => run'[o].pc \in {"completed", "over"}
            BY UnusedIs DEF Idle
        <3> QED BY <2>2, <3>1, <3>2, <3>3
    <2> QED BY <2>1, <2>2
<1> QED BY <1>1, IsFresh

LEMMA FreshStep ==
    ASSUME IInv, ReadInv, FreshInv, [Next]_vars
    PROVE  FreshInv'
<1>1. ASSUME NEW r \in Runs, Fails(r) PROVE FreshInv'
    <2>1. early' = early /\ UNCHANGED tables /\ \A o \in Runs : run'[o] = Unused \/ run'[o] = run[o]
        BY <1>1, RunIs DEF Fails
    <2> QED BY <2>1, EndsAreFresh
<1>2. ASSUME NEW r \in Runs, Timeout(r) PROVE FreshInv'
    <2> DEFINE q == run'[r]
               p == run[r]
    <2>1. /\ Moves(r, q) /\ Steady /\ ~Idle(r)
          /\ q.stage = p.stage /\ q.day = p.day /\ q.pc = p.pc
          /\ q.rows = p.rows /\ q.snapshot = p.snapshot /\ q.row = p.row /\ q.value = p.value
          /\ q.began = p.began /\ q.alone = p.alone
        BY <1>2, TimeoutIs DEF Timeout
    <2>2. Computes(q)
        <3>1. Computes(p)
            BY FreshIs
        <3> QED BY <2>1, <3>1 DEF Computes
    <2>3. ASSUME q.alone, ~early PROVE Fresh(run[r])'
        <3>1. Fresh(p)
            BY <2>1, <2>3, FreshIs
        <3> HIDE DEF p, q
        <3>2. Fresh(q)
            BY <2>1, <3>1 DEF Fresh, Counted
        <3> QED BY <2>1, <3>2, SteadyIsFresh DEF q
    <2> QED BY <2>1, <2>2, <2>3, MoveIsFresh, SteadyIs
<1>3. ASSUME NEW stage \in Stages, Stop(stage) PROVE FreshInv'
    <2>1. early' = early /\ UNCHANGED tables /\ \A r \in Runs : run'[r] = Unused \/ run'[r] = run[r]
        BY <1>3 DEF Stop
    <2> QED BY <2>1, EndsAreFresh
<1>4. ASSUME NEW r \in Runs, ReadPage(r) PROVE FreshInv'
    <2> DEFINE q == run'[r]
               n == Len(run[r].rows)
               all == Ordered(run[r].day)
    <2>1. PICK to \in Nat :
             /\ q.pc = (IF Len(all) > to THEN "read" ELSE "write")
             /\ q.value = (IF Len(all) > to THEN NoRow ELSE Calculate(q.rows, run[r].day))
             /\ q.stage = "analytics" /\ q.day = run[r].day /\ q.alone = run[r].alone
             /\ Moves(r, q) /\ Steady /\ run[r].pc = "read"
        BY <1>4, PageIs
    <2>2. Computes(q)
        BY <2>1 DEF Computes
    <2>3. Fresh(run[r])'
        BY <2>1 DEF Fresh
    <2>4. ~Idle(r)
        BY <2>1 DEF Idle
    <2> QED BY <2>1, <2>2, <2>3, <2>4, MoveIsFresh
<1>5. CASE \E r \in Runs : Start(r) \/ Fails(r) \/ Timeout(r)
    BY <1>1, <1>2, <1>5, StartFresh
<1>6. CASE \E stage \in Stages : Stop(stage)
    BY <1>3, <1>6
<1>7. CASE \E r \in Runs : ReadPage(r) \/ Evaluate(r) \/ ReadMetrics(r) \/ ReadSignals(r) \/ Build(r) \/ Score(r)
    BY <1>4, <1>7, EvaluateFresh, ReadMetricsFresh, ReadSignalsFresh, BuildFresh, ScoreFresh
<1>8. CASE \E r \in Runs : Write(r) \/ Close(r)
    BY <1>8, WriteFresh, CloseFresh
<1>9. CASE (\E e \in ending : CloseLate(e)) \/ Import \/ Midnight \/ UNCHANGED vars
    <2>1. run' = run /\ early' = early
        BY <1>9 DEF CloseLate, Import, Midnight, vars
    <2>2. early \/ UNCHANGED tables
        <3>1. CASE \E e \in ending : CloseLate(e)
            BY <3>1 DEF IInv, PointInv
        <3>2. CASE Import \/ Midnight \/ UNCHANGED vars
            BY <3>2 DEF Import, Midnight, vars
        <3> QED BY <1>9, <3>1, <3>2
    <2>3. \A r \in Runs : run'[r] = Unused \/ run'[r] = run[r]
        BY <2>1
    <2> QED BY <2>1, <2>2, <2>3, EndsAreFresh
<1> QED BY <1>5, <1>6, <1>7, <1>8, <1>9 DEF Next

LEMMA FreshInvariance == Spec => []FreshInv
<1>1. Init => FreshInv
    BY UnusedIs DEF Init, FreshInv
<1>2. IInv /\ ReadInv /\ FreshInv /\ [Next]_vars => FreshInv'
    BY FreshStep
<1> QED BY <1>1, <1>2, Invariance, ReadInvariance, PTL DEF Spec

(* A pipeline that ran alone has scored the vector that is stored, of the  *)
(* metrics of its day, in which every transaction of the window counts     *)
(* that was there when it began.                                           *)
THEOREM AlonePipelinesAreFresh == Spec => []AloneItIsFresh
<1>1. IInv /\ FreshInv => AloneItIsFresh
    <2> SUFFICES ASSUME IInv, FreshInv, NEW r \in Runs, run[r].pc = "completed", ~early
                 PROVE  LET v == features[run[r].day] IN
                        /\ v = run[r].value
                        /\ v.sources.asOf = run[r].day
                        /\ v.values.rules = Strength(Served, Payload(metrics[run[r].day]))
                        /\ v.values.activity >= Cardinality({t \in run[r].began : t.day \in Window(run[r].day, 0)})
                        /\ v \in scores[run[r].day]
        BY DEF AloneItIsFresh
    <2>1. Fresh(run[r])
        BY FreshIs DEF Computes
    <2> QED BY <2>1 DEF Fresh, FreshVector, Counted
<1> QED BY <1>1, Invariance, FreshInvariance, PTL
=============================================================================
