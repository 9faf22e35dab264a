--------------------- MODULE OpportunityGenerationProofs ---------------------
(***************************************************************************)
(* Theorems about OpportunityGeneration, for any number of batches, rules, *)
(* customers and updates: the tables keep their types, the history of a    *)
(* rule only grows, and what is stored is of the version of its rule row.  *)
(***************************************************************************)
EXTENDS OpportunityGeneration, WellFoundedInduction, TLAPS

-----------------------------------------------------------------------------
(* One table over another *)

LEMMA OverIs ==
    ASSUME NEW f, NEW g
    PROVE  /\ DOMAIN Over(f, g) = DOMAIN f \cup DOMAIN g
           /\ \A x \in DOMAIN f : Over(f, g)[x] = f[x]
           /\ \A x \in DOMAIN g \ DOMAIN f : Over(f, g)[x] = g[x]
BY DEF Over

LEMMA OverIsFunction ==
    ASSUME NEW f, NEW g
    PROVE  Over(f, g) = [x \in DOMAIN f \cup DOMAIN g |-> Over(f, g)[x]]
BY DEF Over

\* One row over a table.
LEMMA OneOver ==
    ASSUME NEW n, NEW row, NEW f, DOMAIN f = {n}, f[n] = row, NEW g
    PROVE  /\ DOMAIN Over(f, g) = {n} \cup DOMAIN g
           /\ Over(f, g)[n] = row
           /\ \A x \in DOMAIN g : x # n => Over(f, g)[x] = g[x]
BY DEF Over

LEMMA InSequence ==
    ASSUME NEW S, NEW s \in Seq(S), NEW i \in DOMAIN s
    PROVE  s[i] \in S
OBVIOUS

LEMMA NothingIsEmpty == DOMAIN Nothing = {}
BY DEF Nothing
-----------------------------------------------------------------------------
(* The subsequence of a filter *)

LEMMA NatWF == IsWellFoundedOn({ss \in Nat \X Nat : ss[1] < ss[2]}, Nat)
BY NatLessThanWellFounded DEF OpToRel

\* A set of numbers that holds 0 and the successor of each of its elements holds all.
LEMMA Induction ==
    ASSUME NEW N \in SUBSET Nat, 0 \in N, \A n \in N : n + 1 \in N
    PROVE  N = Nat
<1> DEFINE Less == {ss \in Nat \X Nat : ss[1] < ss[2]}
           Rest == Nat \ N
<1> SUFFICES ASSUME Rest # {} PROVE FALSE
    OBVIOUS
<1>1. PICK m \in Rest : \A n \in Rest : <<n, m>> \notin Less
    <2>1. IsWellFoundedOn(Less, Nat)
        BY NatWF
    <2>2. Rest \subseteq Nat
        OBVIOUS
    <2> HIDE DEF Less, Rest
    <2> QED BY <2>1, <2>2, WFMin
<1>2. m \in Nat /\ m # 0
    OBVIOUS
<1>3. m - 1 \in Nat /\ m - 1 < m
    BY <1>2
<1>4. m - 1 \notin Rest
    BY <1>1, <1>2, <1>3
<1>5. m - 1 \in N /\ (m - 1) + 1 = m
    BY <1>2, <1>3, <1>4
<1> QED BY <1>5

\* What g says of the first n elements of s.
Picks(s, S, n, g) ==
    g = [i \in 0..n |-> IF i = 0 THEN <<>>
                        ELSE IF s[i] \in S THEN Append(g[i - 1], s[i]) ELSE g[i - 1]]

LEMMA PicksExist ==
    ASSUME NEW s, NEW S
    PROVE  \A n \in Nat : \E g : Picks(s, S, n, g)
<1> DEFINE N == {n \in Nat : \E g : Picks(s, S, n, g)}
<1>1. 0 \in N
    <2>1. Picks(s, S, 0, [i \in 0..0 |-> <<>>])
        BY DEF Picks
    <2> QED BY <2>1
<1>2. ASSUME NEW n \in N PROVE n + 1 \in N
    <2>1. n \in Nat
        OBVIOUS
    <2>2. PICK g : Picks(s, S, n, g)
        OBVIOUS
    <2> DEFINE Next1(prior) == IF s[n + 1] \in S THEN Append(prior, s[n + 1]) ELSE prior
               h == [i \in 0..(n + 1) |-> IF i = n + 1 THEN Next1(g[n]) ELSE g[i]]
    <2> HIDE DEF N
    <2>3. \A i \in 0..n : h[i] = g[i]
        BY <2>1
    <2>4. h[n + 1] = Next1(h[n])
        BY <2>1, <2>3
    <2>5. \A i \in 0..n : g[i] = IF i = 0 THEN <<>>
                                 ELSE IF s[i] \in S THEN Append(g[i - 1], s[i]) ELSE g[i - 1]
        BY <2>1, <2>2 DEF Picks
    <2>6. \A i \in 0..(n + 1) : h[i] = IF i = 0 THEN <<>>
                                       ELSE IF s[i] \in S THEN Append(h[i - 1], s[i]) ELSE h[i - 1]
        <3> TAKE i \in 0..(n + 1)
        <3>1. CASE i = n + 1
            BY <2>1, <2>4, <3>1
        <3>2. CASE i \in 0..n
            <4> HIDE DEF h
            <4>1. i # 0 => i - 1 \in 0..n
                BY <2>1, <3>2
            <4>2. h[i] = g[i] /\ (i # 0 => h[i - 1] = g[i - 1])
                BY <2>3, <3>2, <4>1
            <4> QED BY <2>5, <3>2, <4>2
        <3> QED BY <2>1, <3>1, <3>2
    <2>7. Picks(s, S, n + 1, h)
        <3> HIDE DEF h
        <3>1. h = [i \in 0..(n + 1) |-> h[i]]
            BY DEF h
        <3> QED BY <2>6, <3>1 DEF Picks
    <2> QED BY <2>1, <2>7 DEF N
<1>3. N = Nat
    <2>1. N \subseteq Nat
        OBVIOUS
    <2> HIDE DEF N
    <2> QED BY <1>1, <1>2, <2>1, Induction
<1> QED BY <1>3

\* A filtered sequence is one of elements that pass.
LEMMA OnlyElements ==
    ASSUME NEW A, NEW s \in Seq(A), NEW S
    PROVE  Only(s, S) \in Seq(A \cap S)
<1> DEFINE g == Picked(s, S)
<1>1. Len(s) \in Nat /\ \A i \in 1..Len(s) : s[i] \in A
    OBVIOUS
<1>2. Only(s, S) = g[Len(s)]
    BY DEF Only
<1>3. Picks(s, S, Len(s), g)
    <2>1. \E h : Picks(s, S, Len(s), h)
        BY <1>1, PicksExist
    <2> QED BY <2>1 DEF Picks, Picked
<1> HIDE DEF g
<1>4. \A i \in 0..Len(s) : g[i] = IF i = 0 THEN <<>>
                                  ELSE IF s[i] \in S THEN Append(g[i - 1], s[i]) ELSE g[i - 1]
    BY <1>1, <1>3 DEF Picks
<1> DEFINE N == {n \in Nat : n <= Len(s) => g[n] \in Seq(A \cap S)}
<1>5. 0 \in N
    <2>1. g[0] = <<>>
        BY <1>1, <1>4
    <2>2. <<>> \in Seq(A \cap S)
        OBVIOUS
    <2> QED BY <2>1, <2>2
<1>6. ASSUME NEW n \in N PROVE n + 1 \in N
    <2>1. n \in Nat
        OBVIOUS
    <2> SUFFICES ASSUME n + 1 <= Len(s) PROVE g[n + 1] \in Seq(A \cap S)
        BY <2>1
    <2>2. g[n] \in Seq(A \cap S)
        BY <1>1, <2>1
    <2>3. g[n + 1] = IF s[n + 1] \in S THEN Append(g[n], s[n + 1]) ELSE g[n]
        BY <1>1, <1>4, <2>1
    <2>4. s[n + 1] \in A
        BY <1>1, <2>1
    <2> QED BY <2>2, <2>3, <2>4
<1>7. N = Nat
    <2>1. N \subseteq Nat
        OBVIOUS
    <2> HIDE DEF N
    <2> QED BY <1>5, <1>6, <2>1, Induction
<1> QED BY <1>1, <1>2, <1>7
-----------------------------------------------------------------------------
(* What batches read *)

LEMMA ConfigFields ==
    ASSUME NEW c \in Config
    PROVE  /\ c.edition \in Editions \cup {Invalid} /\ c.terms \in Terms \cup {Invalid} /\ c.enabled \in BOOLEAN
           /\ c = [edition |-> c.edition, terms |-> c.terms, enabled |-> c.enabled]
BY DEF Config

LEMMA ValidFields ==
    ASSUME NEW c \in Valid
    PROVE  /\ c.edition \in Editions /\ c.terms \in Terms /\ c.enabled \in BOOLEAN
           /\ c = [edition |-> c.edition, terms |-> c.terms, enabled |-> c.enabled]
           /\ c \in Config
BY DEF Valid, Config

LEMMA YamlIsValid == Yaml \in Valid /\ Yaml \in Config
BY GenerationAssumption, ValidFields

\* An update leaves a configuration one.
LEMMA EditedConfig ==
    ASSUME NEW e \in Edits, NEW c \in Config
    PROVE  Over(e, c) \in Config
<1>1. /\ Over(e, Yaml) \in Config /\ Yaml \in Config
    BY GenerationAssumption, YamlIsValid
<1>2. DOMAIN Yaml = {"edition", "terms", "enabled"} /\ DOMAIN c = {"edition", "terms", "enabled"}
    BY <1>1 DEF Config
<1>3. DOMAIN Over(e, Yaml) = {"edition", "terms", "enabled"}
    BY <1>1 DEF Config
<1>4. DOMAIN e \subseteq {"edition", "terms", "enabled"}
    BY <1>2, <1>3, OverIs
<1>5. \A x \in DOMAIN e : Over(e, c)[x] = Over(e, Yaml)[x]
    <2>1. \A x \in DOMAIN e : Over(e, c)[x] = e[x]
        BY OverIs
    <2>2. \A x \in DOMAIN e : Over(e, Yaml)[x] = e[x]
        BY OverIs
    <2> QED BY <2>1, <2>2
<1>6. \A x \in DOMAIN c \ DOMAIN e : Over(e, c)[x] = c[x]
    BY OverIs
<1> DEFINE o == Over(e, c)
<1>7. DOMAIN o = {"edition", "terms", "enabled"} /\ o = [x \in DOMAIN o |-> o[x]]
    <2>1. DOMAIN e \cup DOMAIN c = {"edition", "terms", "enabled"}
        BY <1>2, <1>4
    <2>2. o = [x \in DOMAIN e \cup DOMAIN c |-> o[x]] /\ DOMAIN o = DOMAIN e \cup DOMAIN c
        BY OverIs, OverIsFunction
    <2> QED BY <2>1, <2>2
<1>8. /\ Over(e, Yaml).edition \in Editions \cup {Invalid} /\ c.edition \in Editions \cup {Invalid}
      /\ Over(e, Yaml).terms \in Terms \cup {Invalid} /\ c.terms \in Terms \cup {Invalid}
      /\ Over(e, Yaml).enabled \in BOOLEAN /\ c.enabled \in BOOLEAN
    BY <1>1, ConfigFields
<1>9. o.edition \in Editions \cup {Invalid} /\ o.terms \in Terms \cup {Invalid} /\ o.enabled \in BOOLEAN
    <2>1. o.edition \in {Over(e, Yaml).edition, c.edition}
        BY <1>2, <1>5, <1>6
    <2>2. o.terms \in {Over(e, Yaml).terms, c.terms}
        BY <1>2, <1>5, <1>6
    <2>3. o.enabled \in {Over(e, Yaml).enabled, c.enabled}
        BY <1>2, <1>5, <1>6
    <2> QED BY <1>8, <2>1, <2>2, <2>3
<1>10. o = [edition |-> o.edition, terms |-> o.terms, enabled |-> o.enabled]
    <2> HIDE DEF o
    <2> QED BY <1>7
<1> HIDE DEF o
<1>11. o \in Config
    BY <1>9, <1>10 DEF Config
<1> QED BY <1>11 DEF o

LEMMA TypesOfSequences ==
    /\ Mvp \in Seq(Types) /\ Published \in Seq([type: AllTypes, base: Ids])
    /\ Types \subseteq AllTypes
BY GenerationAssumption DEF AllTypes

\* A version as it began fits in its column.
LEMMA FirstFits ==
    ASSUME NEW t \in AllTypes, NEW v \in Editions \cup Ids
    PROVE  /\ NameOK(First(t, v)) /\ First(t, v) \in Name
           /\ First(t, v).stamps = <<>> /\ First(t, v).base = v /\ First(t, v).type = t
<1>1. Room[v] \in Nat
    BY GenerationAssumption
<1>2. <<>> \in Seq(1..MaxTime) /\ Len(<<>>) = 0
    OBVIOUS
<1>3. /\ First(t, v).stamps = <<>> /\ First(t, v).base = v /\ First(t, v).type = t
    BY DEF First
<1>4. First(t, v) \in Name
    BY <1>2 DEF First, Name
<1> QED BY <1>1, <1>2, <1>3, <1>4 DEF NameOK

\* The candidates of a customer: versions as they began, the engine's of an enabled configuration.
EngineName(config, n) ==
    /\ n.type \in Types /\ n.base = config[n.type].edition /\ config[n.type].enabled

LEMMA EngineCandidatesAre ==
    ASSUME NEW config, DOMAIN config = Types,
           \A t \in Types : config[t] \in Valid,
           NEW E \in SUBSET Types
    PROVE  LET cs == EngineCandidates(config, E)
           IN  /\ cs \in Seq(Name)
               /\ \A i \in DOMAIN cs : /\ NameOK(cs[i]) /\ cs[i].stamps = <<>>
                                       /\ EngineName(config, cs[i])
<1> DEFINE enabled == Only(Mvp, {t \in E : config[t].enabled})
           cs == [i \in DOMAIN enabled |-> First(enabled[i], config[enabled[i]].edition)]
<1>1. enabled \in Seq({t \in Types : config[t].enabled})
    <2>1. enabled \in Seq(Types \cap {t \in E : config[t].enabled})
        BY OnlyElements, TypesOfSequences
    <2>2. Types \cap {t \in E : config[t].enabled} \subseteq {t \in Types : config[t].enabled}
        OBVIOUS
    <2> HIDE DEF enabled
    <2> QED BY <2>1, <2>2
<1>2. EngineCandidates(config, E) = cs
    BY DEF EngineCandidates
<1> HIDE DEF enabled
<1>3. DOMAIN enabled = 1..Len(enabled) /\ Len(enabled) \in Nat
    BY <1>1
<1>4. \A i \in DOMAIN enabled : enabled[i] \in Types /\ config[enabled[i]].enabled
    BY <1>1
<1>5. \A i \in DOMAIN enabled : /\ NameOK(cs[i]) /\ cs[i] \in Name /\ cs[i].stamps = <<>>
                                /\ EngineName(config, cs[i])
    <2> TAKE i \in DOMAIN enabled
    <2> DEFINE t == enabled[i]
    <2>1. t \in AllTypes /\ config[t].edition \in Editions \cup Ids
        BY <1>4, TypesOfSequences, ValidFields
    <2>2. cs[i] = First(t, config[t].edition)
        OBVIOUS
    <2>3. /\ NameOK(cs[i]) /\ cs[i] \in Name /\ cs[i].stamps = <<>>
          /\ cs[i].base = config[t].edition /\ cs[i].type = t
        <3> HIDE DEF t
        <3> QED BY <2>1, <2>2, FirstFits
    <2> QED BY <1>4, <2>3 DEF EngineName
<1>6. cs \in [1..Len(enabled) -> Name]
    BY <1>3, <1>5
<1>7. cs \in Seq(Name) /\ DOMAIN cs = DOMAIN enabled
    BY <1>3, <1>6
<1> QED BY <1>2, <1>5, <1>7

LEMMA StudioCandidatesAre ==
    ASSUME NEW M \in SUBSET Ids
    PROVE  LET cs == StudioCandidates(M)
           IN  /\ cs \in Seq(Name)
               /\ \A i \in DOMAIN cs : /\ NameOK(cs[i]) /\ cs[i].stamps = <<>>
                                       /\ cs[i].base \notin Editions
<1> DEFINE matched == Only(Published, [type: AllTypes, base: M])
           cs == [i \in DOMAIN matched |-> First(matched[i].type, matched[i].base)]
<1>1. matched \in Seq([type: AllTypes, base: Ids])
    <2> DEFINE R == [type: AllTypes, base: Ids]
               N == [type: AllTypes, base: M]
    <2>1. Published \in Seq(R)
        BY TypesOfSequences
    <2> HIDE DEF R, N
    <2>2. Only(Published, N) \in Seq(R \cap N)
        BY <2>1, OnlyElements
    <2>3. Only(Published, N) \in Seq(R)
        BY <2>2
    <2> QED BY <2>3 DEF R, N
<1>2. StudioCandidates(M) = cs
    BY DEF StudioCandidates
<1> HIDE DEF matched
<1>3. DOMAIN matched = 1..Len(matched) /\ Len(matched) \in Nat
    BY <1>1
<1>4. \A i \in DOMAIN matched : matched[i].type \in AllTypes /\ matched[i].base \in Ids
    <2> DEFINE R == [type: AllTypes, base: Ids]
    <2>1. matched \in Seq(R)
        BY <1>1
    <2> HIDE DEF R
    <2>2. \A i \in DOMAIN matched : matched[i] \in R
        BY <2>1
    <2> QED BY <2>2 DEF R
<1>5. \A i \in DOMAIN matched : /\ NameOK(cs[i]) /\ cs[i] \in Name /\ cs[i].stamps = <<>>
                                /\ cs[i].base \notin Editions
    BY <1>4, FirstFits, GenerationAssumption
<1>6. cs \in [1..Len(matched) -> Name]
    BY <1>3, <1>5
<1>7. cs \in Seq(Name) /\ DOMAIN cs = DOMAIN matched
    BY <1>3, <1>6
<1> QED BY <1>2, <1>5, <1>7
-----------------------------------------------------------------------------
(* Sessions that move: only batch b changes, to r *)

Moves(b, r) == batch' = [batch EXCEPT ![b] = r] /\ UNCHANGED <<rules, opportunities, now>>

LEMMA Fields ==
    ASSUME NEW r, DOMAIN r = DOMAIN Idle
    PROVE  DOMAIN r = {"phase", "ok", "config", "todo", "candidates", "inserted", "written"}
BY DEF Idle

LEMMA MovedBatch ==
    ASSUME TypeOK, NEW b \in Batches, NEW r, Moves(b, r)
    PROVE  /\ DOMAIN batch' = Batches /\ batch'[b] = r
           /\ \A c \in Batches \ {b} : batch'[c] = batch[c]
           /\ rules' = rules /\ opportunities' = opportunities /\ now' = now
BY DEF TypeOK, Moves

LEMMA TypesMove ==
    ASSUME TypeOK, NEW b \in Batches, NEW r, Moves(b, r), BatchOK(r)
    PROVE  TypeOK'
<1>1. \A c \in Batches : BatchOK(batch'[c])
    BY MovedBatch DEF TypeOK
<1> QED BY <1>1, MovedBatch DEF TypeOK

LEMMA RowsMove ==
    ASSUME TypeOK, RowsInv, NEW b \in Batches, NEW r, Moves(b, r), SessionRows(r),
           \A c \in Batches \ {b} : DOMAIN r.inserted \cap DOMAIN batch[c].inserted = {}
    PROVE  RowsInv'
<1>1. \A c \in Batches : SessionRows(batch'[c])
    BY MovedBatch DEF RowsInv
<1>2. \A c \in Batches : SessionRows(batch[c])'
    BY <1>1, MovedBatch DEF SessionRows, InSight
<1>3. \A c, d \in Batches : c # d => DOMAIN batch'[c].inserted \cap DOMAIN batch'[d].inserted = {}
    BY MovedBatch DEF RowsInv
<1> QED BY <1>2, <1>3, MovedBatch DEF RowsInv

LEMMA DecisionsMove ==
    ASSUME TypeOK, DecisionsInv, NEW b \in Batches, NEW r, Moves(b, r), SessionDecisions(rules, r)
    PROVE  DecisionsInv'
<1>1. \A c \in Batches : SessionDecisions(rules, batch'[c])
    BY MovedBatch DEF DecisionsInv
<1> QED BY <1>1, MovedBatch DEF DecisionsInv

\* What is stored stays so while rows are added and keep their configurations.
LEMMA StaysStored ==
    ASSUME NEW rows, NEW more, DOMAIN rows \subseteq DOMAIN more,
           \A n \in DOMAIN rows : more[n].config = rows[n].config
    PROVE  /\ \A t, c : Stored(rows, t, c) => Stored(more, t, c)
           /\ \A k, c : OfItsVersion(rows, k, c) => OfItsVersion(more, k, c)
           /\ \A r : SessionDecisions(rows, r) => SessionDecisions(more, r)
<1>1. \A t, c : Stored(rows, t, c) => Stored(more, t, c)
    BY DEF Stored
<1>2. \A k, c : OfItsVersion(rows, k, c) => OfItsVersion(more, k, c)
    BY <1>1 DEF OfItsVersion
<1>3. ASSUME NEW r, SessionDecisions(rows, r) PROVE SessionDecisions(more, r)
    BY <1>1, <1>2, <1>3 DEF SessionDecisions
<1> QED BY <1>1, <1>2, <1>3

\* A session that goes on to its next candidate keeps the rest.
LEMMA ResumedIs ==
    ASSUME NEW r, DOMAIN r = DOMAIN Idle
    PROVE  LET s == Resumed(r)
           IN  /\ DOMAIN s = DOMAIN Idle
               /\ s.ok = r.ok /\ s.config = r.config /\ s.candidates = r.candidates
               /\ s.inserted = r.inserted /\ s.written = r.written
               /\ \/ s.phase = "LOOK" /\ s.todo = r.todo /\ r.candidates # <<>>
                  \/ s.phase = "OVER" /\ s.todo = Tail(r.todo)
                  \/ s.phase = "WAIT" /\ s.todo = Tail(r.todo) /\ s.todo # <<>>
BY Fields DEF Resumed

LEMMA ResumedOK ==
    ASSUME NEW r, SessionOK(r), r.todo # <<>>, DOMAIN r.config = Types
    PROVE  BatchOK(Resumed(r))
<1> DEFINE s == Resumed(r)
<1>1. /\ DOMAIN s = DOMAIN Idle
      /\ s.ok = r.ok /\ s.config = r.config /\ s.candidates = r.candidates
      /\ s.inserted = r.inserted /\ s.written = r.written
      /\ \/ s.phase = "LOOK" /\ s.todo = r.todo /\ r.candidates # <<>>
         \/ s.phase = "OVER" /\ s.todo = Tail(r.todo)
         \/ s.phase = "WAIT" /\ s.todo = Tail(r.todo) /\ s.todo # <<>>
    BY ResumedIs DEF SessionOK
<1> HIDE DEF s
<1>2. r.todo \in Seq(Customers) /\ Tail(r.todo) \in Seq(Customers)
    BY DEF SessionOK
<1>3. SessionOK(s)
    BY <1>1, <1>2 DEF SessionOK, Phases
<1>4. BatchOK(s)
    BY <1>1, <1>3 DEF BatchOK
<1> QED BY <1>4 DEF s
-----------------------------------------------------------------------------
(* The steps of a batch *)

\* What a step keeps.
Keeps == TypeOK' /\ RowsInv' /\ DecisionsInv'

LEMMA KeptByMove ==
    ASSUME IInv, NEW b \in Batches, NEW r, Moves(b, r), BatchOK(r), SessionRows(r),
           \A c \in Batches \ {b} : DOMAIN r.inserted \cap DOMAIN batch[c].inserted = {},
           SessionDecisions(rules, r)
    PROVE  Keeps
<1>1. TypeOK'
    BY TypesMove DEF IInv
<1>2. RowsInv'
    BY RowsMove DEF IInv
<1>3. DecisionsInv'
    BY DecisionsMove DEF IInv
<1> QED BY <1>1, <1>2, <1>3 DEF Keeps

\* What is known of the session of a batch.
LEMMA SessionIs ==
    ASSUME IInv, NEW b \in Batches
    PROVE  /\ DOMAIN batch = Batches /\ BatchOK(batch[b]) /\ SessionOK(batch[b])
           /\ DOMAIN batch[b] = DOMAIN Idle /\ SessionRows(batch[b])
           /\ \A c \in Batches \ {b} : DOMAIN batch[b].inserted \cap DOMAIN batch[c].inserted = {}
           /\ SessionDecisions(rules, batch[b])
BY DEF IInv, TypeOK, RowsInv, BatchOK, SessionOK, DecisionsInv

LEMMA CustomersOfOrders ==
    ASSUME NEW o \in Orders
    PROVE  o \in Seq(Customers) /\ o # <<>>
BY GenerationAssumption

\* What configured_rules returns is valid and stored.
LEMMA ConfigurationsAre ==
    ASSUME TypeOK, Loadable, NEW c \in Configurations
    PROVE  /\ DOMAIN c = Types
           /\ \A t \in Types : c[t] \in Valid
           /\ \A t \in Types : Stored(rules, t, c[t])
<1>1. c \in [Types -> Config]
    BY DEF Configurations
<1>2. \A t \in Types : c[t] = Yaml \/ \E n \in ActiveRows : n.type = t /\ c[t] = rules[n].config
    BY DEF Configurations
<1>3. \A n \in ActiveRows : rules[n].config \in Config /\ n \in DOMAIN rules
    BY DEF ActiveRows, TypeOK, Row
<1>4. \A n \in ActiveRows : rules[n].config \in Valid
    <2> TAKE n \in ActiveRows
    <2> DEFINE d == rules[n].config
    <2>1. d.edition # Invalid /\ d.terms # Invalid
        BY DEF Loadable
    <2>2. d \in Config
        BY <1>3
    <2> HIDE DEF d
    <2>3. /\ d.edition \in Editions /\ d.terms \in Terms /\ d.enabled \in BOOLEAN
          /\ d = [edition |-> d.edition, terms |-> d.terms, enabled |-> d.enabled]
        BY <2>1, <2>2, ConfigFields
    <2>4. d \in Valid
        BY <2>3 DEF Valid
    <2> QED BY <2>4 DEF d
<1>5. \A t \in Types : c[t] \in Valid
    BY <1>2, <1>4, YamlIsValid
<1>6. \A t \in Types : Stored(rules, t, c[t])
    BY <1>2, <1>3 DEF Stored
<1> QED BY <1>1, <1>5, <1>6

LEMMA BeginStep ==
    ASSUME IInv, NEW b \in Batches, Begin(b)
    PROVE  Keeps
<1>1. PICK c \in Configurations, o \in Orders :
          batch' = [batch EXCEPT ![b] = [Idle EXCEPT !.phase = "WAIT", !.config = c, !.todo = o]]
    BY DEF Begin
<1> DEFINE r == [Idle EXCEPT !.phase = "WAIT", !.config = c, !.todo = o]
<1>2. Moves(b, r)
    BY <1>1 DEF Begin, Moves
<1>3. /\ DOMAIN r = DOMAIN Idle /\ r.phase = "WAIT" /\ r.ok = TRUE /\ r.config = c /\ r.todo = o
      /\ r.candidates = <<>> /\ DOMAIN r.inserted = {} /\ DOMAIN r.written = {}
    BY NothingIsEmpty DEF Idle
<1> HIDE DEF r
<1>4. Loadable /\ TypeOK
    BY DEF Begin, IInv
<1>5. /\ DOMAIN c = Types
      /\ \A t \in Types : c[t] \in Valid
      /\ \A t \in Types : Stored(rules, t, c[t])
    BY <1>4, ConfigurationsAre
<1>6. o \in Seq(Customers) /\ o # <<>> /\ <<>> \in Seq(Name)
    BY CustomersOfOrders
<1>7. SessionOK(r)
    <2>1. /\ r.phase \in Phases /\ r.ok \in BOOLEAN
          /\ r.candidates \in Seq(Name) /\ \A i \in DOMAIN r.candidates : NameOK(r.candidates[i])
        <3>1. DOMAIN r.candidates = {}
            BY <1>3
        <3> QED BY <1>3, <1>6, <3>1 DEF Phases
    <2> QED BY <1>3, <1>5, <1>6, <2>1 DEF SessionOK
<1>8. BatchOK(r)
    BY <1>3, <1>5, <1>6, <1>7 DEF BatchOK
<1>9. SessionRows(r)
    BY <1>3 DEF SessionRows
<1>10. SessionDecisions(rules, r)
    BY <1>3, <1>5 DEF SessionDecisions
<1> QED BY <1>2, <1>3, <1>8, <1>9, <1>10, KeptByMove

LEMMA AnswerStep ==
    ASSUME IInv, NEW b \in Batches, Answer(b)
    PROVE  Keeps
<1>1. PICK E \in SUBSET Types, M \in SUBSET Ids :
          batch' = [batch EXCEPT ![b] = Resumed([batch[b] EXCEPT !.candidates =
                        EngineCandidates(batch[b].config, E) \o StudioCandidates(M)])]
    BY DEF Answer
<1> DEFINE config == batch[b].config
           mvp    == EngineCandidates(config, E)
           studio == StudioCandidates(M)
           q      == [batch[b] EXCEPT !.candidates = mvp \o studio]
           r      == Resumed(q)
<1>2. Moves(b, r)
    BY <1>1 DEF Answer, Moves
<1>3. /\ batch[b].phase = "WAIT" /\ SessionOK(batch[b]) /\ SessionRows(batch[b])
      /\ batch[b].todo # <<>> /\ DOMAIN config = Types
      /\ SessionDecisions(rules, batch[b])
    BY SessionIs DEF Answer, BatchOK
<1>4. \A t \in Types : config[t] \in Valid
    BY <1>3 DEF SessionOK
<1>5. DOMAIN batch[b] = DOMAIN Idle
    BY <1>3 DEF SessionOK
<1>6. /\ DOMAIN q = DOMAIN Idle /\ q.phase = batch[b].phase /\ q.ok = batch[b].ok
      /\ q.config = config /\ q.todo = batch[b].todo /\ q.candidates = mvp \o studio
      /\ q.inserted = batch[b].inserted /\ q.written = batch[b].written
    BY <1>5, Fields
<1>7. /\ mvp \in Seq(Name)
      /\ \A i \in DOMAIN mvp : /\ NameOK(mvp[i]) /\ mvp[i].stamps = <<>>
                               /\ EngineName(config, mvp[i])
    <2> HIDE DEF config
    <2> QED BY <1>3, <1>4, EngineCandidatesAre
<1>8. /\ studio \in Seq(Name)
      /\ \A i \in DOMAIN studio : /\ NameOK(studio[i]) /\ studio[i].stamps = <<>>
                                  /\ studio[i].base \notin Editions
    BY StudioCandidatesAre
<1> HIDE DEF mvp, studio, q, config
<1>9. /\ q.candidates \in Seq(Name)
      /\ \A i \in DOMAIN q.candidates :
            \/ \E j \in DOMAIN mvp : q.candidates[i] = mvp[j]
            \/ \E j \in DOMAIN studio : q.candidates[i] = studio[j]
    <2>1. /\ Len(mvp) \in Nat /\ DOMAIN mvp = 1..Len(mvp)
          /\ Len(studio) \in Nat /\ DOMAIN studio = 1..Len(studio)
        BY <1>7, <1>8
    <2>2. /\ mvp \o studio \in Seq(Name) /\ DOMAIN (mvp \o studio) = 1..(Len(mvp) + Len(studio))
          /\ \A i \in 1..(Len(mvp) + Len(studio)) :
                (mvp \o studio)[i] = IF i <= Len(mvp) THEN mvp[i] ELSE studio[i - Len(mvp)]
        BY <1>7, <1>8
    <2>3. ASSUME NEW i \in 1..(Len(mvp) + Len(studio)), ~ i <= Len(mvp)
          PROVE  i - Len(mvp) \in DOMAIN studio
        BY <2>1, <2>3
    <2> QED BY <1>6, <2>1, <2>2, <2>3
<1>10. \A i \in DOMAIN q.candidates :
          /\ NameOK(q.candidates[i]) /\ q.candidates[i].stamps = <<>>
          /\ q.candidates[i].base \in Editions => EngineName(config, q.candidates[i])
    BY <1>7, <1>8, <1>9
<1>11. SessionOK(q)
    BY <1>3, <1>6, <1>9, <1>10 DEF SessionOK, config
<1>12. BatchOK(r)
    BY <1>3, <1>6, <1>11, ResumedOK
<1>13. /\ r.candidates = q.candidates /\ r.config = q.config /\ r.inserted = q.inserted
       /\ r.written = q.written /\ r.phase # "UPSERT"
    BY <1>6, ResumedIs
<1> HIDE DEF r
<1>14. SessionRows(r)
    BY <1>3, <1>6, <1>10, <1>13 DEF SessionRows, InSight
<1>15. SessionDecisions(rules, r)
    <2>1. r.config = batch[b].config /\ r.inserted = batch[b].inserted /\ r.written = batch[b].written
        BY <1>6, <1>13 DEF config
    <2>2. \A i \in DOMAIN r.candidates :
              LET n == r.candidates[i]
              IN  n.base \in Editions =>
                      n.type \in Types /\ n.base = r.config[n.type].edition /\ r.config[n.type].enabled
        BY <1>6, <1>10, <1>13 DEF EngineName
    <2> QED BY <1>3, <2>1, <2>2 DEF SessionDecisions
<1>16. \A c \in Batches \ {b} : DOMAIN r.inserted \cap DOMAIN batch[c].inserted = {}
    BY <1>6, <1>13, SessionIs
<1> QED BY <1>2, <1>12, <1>14, <1>15, <1>16, KeptByMove

\* What keeps rows and decisions when a session changes its phase only.
LEMMA PhaseStep ==
    ASSUME IInv, NEW b \in Batches, NEW r, Moves(b, r), BatchOK(r),
           r.candidates = batch[b].candidates, r.config = batch[b].config,
           r.inserted = batch[b].inserted, r.written = batch[b].written,
           r.phase = "UPSERT" => InSight(r, Head(r.candidates))
    PROVE  Keeps
<1>1. SessionRows(r)
    BY SessionIs DEF SessionRows, InSight
<1>2. SessionDecisions(rules, r)
    <2>1. SessionDecisions(rules, batch[b])
        BY SessionIs
    <2> QED BY <2>1 DEF SessionDecisions
<1>3. \A c \in Batches \ {b} : DOMAIN r.inserted \cap DOMAIN batch[c].inserted = {}
    BY SessionIs
<1> QED BY <1>1, <1>2, <1>3, KeptByMove

LEMMA FailStep ==
    ASSUME IInv, NEW b \in Batches, Fail(b)
    PROVE  Keeps
<1> DEFINE r == [batch[b] EXCEPT !.phase = "OVER", !.ok = FALSE]
<1>1. Moves(b, r)
    BY SessionIs DEF Fail, Moves
<1>2. DOMAIN batch[b] = DOMAIN Idle /\ SessionOK(batch[b])
    BY SessionIs
<1>3. /\ DOMAIN r = DOMAIN Idle /\ r.phase = "OVER" /\ r.ok = FALSE /\ r.config = batch[b].config
      /\ r.todo = batch[b].todo /\ r.candidates = batch[b].candidates
      /\ r.inserted = batch[b].inserted /\ r.written = batch[b].written
    BY <1>2, Fields
<1> HIDE DEF r
<1>4. SessionOK(r)
    BY <1>2, <1>3 DEF SessionOK, Phases
<1>5. BatchOK(r)
    BY <1>3, <1>4 DEF BatchOK
<1> QED BY <1>1, <1>3, <1>5, PhaseStep

LEMMA EndStep ==
    ASSUME IInv, NEW b \in Batches, End(b)
    PROVE  Keeps
<1> DEFINE r == [batch[b] EXCEPT !.phase = "CLOSING"]
<1>1. Moves(b, r)
    BY SessionIs DEF End, Moves
<1>2. DOMAIN batch[b] = DOMAIN Idle /\ SessionOK(batch[b])
    BY SessionIs
<1>3. /\ DOMAIN r = DOMAIN Idle /\ r.phase = "CLOSING" /\ r.ok = batch[b].ok /\ r.config = batch[b].config
      /\ r.todo = batch[b].todo /\ r.candidates = batch[b].candidates
      /\ r.inserted = batch[b].inserted /\ r.written = batch[b].written
    BY <1>2, Fields
<1> HIDE DEF r
<1>4. SessionOK(r)
    BY <1>2, <1>3 DEF SessionOK, Phases
<1>5. BatchOK(r)
    BY <1>3, <1>4 DEF BatchOK
<1> QED BY <1>1, <1>3, <1>5, PhaseStep

LEMMA SeesIs ==
    ASSUME NEW b, NEW n
    PROVE  n \in DOMAIN Sees(b) <=> InSight(batch[b], n)
BY OverIs DEF Sees, InSight

LEMMA LookStep ==
    ASSUME IInv, NEW b \in Batches, Look(b)
    PROVE  Keeps
<1> DEFINE p == IF LooksUp(b, Candidate(b)) THEN "UPSERT" ELSE "INSERT"
           r == [batch[b] EXCEPT !.phase = p]
<1>1. Moves(b, r)
    BY SessionIs DEF Look, Moves
<1>2. /\ DOMAIN batch[b] = DOMAIN Idle /\ SessionOK(batch[b]) /\ BatchOK(batch[b])
      /\ batch[b].phase = "LOOK"
    BY SessionIs DEF Look
<1>3. p = "UPSERT" => InSight(batch[b], Head(batch[b].candidates))
    BY SeesIs DEF LooksUp, Candidate
<1>4. p \in {"UPSERT", "INSERT"}
    OBVIOUS
<1> HIDE DEF p
<1>5. /\ DOMAIN r = DOMAIN Idle /\ r.phase = p /\ r.ok = batch[b].ok /\ r.config = batch[b].config
      /\ r.todo = batch[b].todo /\ r.candidates = batch[b].candidates
      /\ r.inserted = batch[b].inserted /\ r.written = batch[b].written
    BY <1>2, Fields
<1> HIDE DEF r
<1>6. SessionOK(r)
    BY <1>2, <1>4, <1>5 DEF SessionOK, Phases
<1>7. BatchOK(r)
    BY <1>2, <1>5, <1>6 DEF BatchOK
<1>8. r.phase = "UPSERT" => InSight(r, Head(r.candidates))
    BY <1>3, <1>5 DEF InSight
<1> QED BY <1>1, <1>5, <1>7, <1>8, PhaseStep

\* The candidate at hand and the configuration that decided it.
LEMMA DecidedIs ==
    ASSUME IInv, NEW b \in Batches, batch[b].phase \in {"INSERT", "UPSERT"}
    PROVE  /\ Candidate(b) \in Name /\ NameOK(Candidate(b)) /\ Candidate(b).stamps = <<>>
           /\ Decided(b) \in Config
           /\ Candidate(b).base \in Editions =>
                  /\ Decided(b).edition = Candidate(b).base /\ Decided(b).enabled
                  /\ Stored(rules, Candidate(b).type, Decided(b))
<1> DEFINE cs == batch[b].candidates
           n  == Candidate(b)
<1>1. /\ BatchOK(batch[b]) /\ SessionOK(batch[b]) /\ SessionRows(batch[b])
      /\ SessionDecisions(rules, batch[b])
    BY SessionIs
<1>2. cs \in Seq(Name) /\ cs # <<>> /\ DOMAIN batch[b].config = Types
    BY <1>1 DEF BatchOK, SessionOK
<1>3. 1 \in DOMAIN cs /\ n = cs[1] /\ n \in Name
    BY <1>2 DEF Candidate
<1>4. NameOK(n) /\ n.stamps = <<>>
    BY <1>1, <1>3 DEF SessionOK, SessionRows
<1>5. Decided(b) \in Config
    <2>1. CASE n.type \in Types
        <3>1. batch[b].config[n.type] \in Config
            BY <1>1, <1>2, <2>1, ValidFields DEF SessionOK
        <3> QED BY <2>1, <3>1 DEF Decided
    <2>2. CASE n.type \notin Types
        BY <2>2 DEF Decided, Config
    <2> QED BY <2>1, <2>2
<1>6. ASSUME n.base \in Editions
      PROVE  /\ Decided(b).edition = n.base /\ Decided(b).enabled
             /\ Stored(rules, n.type, Decided(b))
    <2>1. /\ n.type \in Types /\ n.base = batch[b].config[n.type].edition
          /\ batch[b].config[n.type].enabled
        BY <1>1, <1>3, <1>6 DEF SessionDecisions
    <2>2. Stored(rules, n.type, batch[b].config[n.type])
        BY <1>1, <1>2, <2>1 DEF SessionDecisions
    <2> QED BY <2>1, <2>2 DEF Decided
<1> QED BY <1>3, <1>4, <1>5, <1>6

LEMMA InsertStep ==
    ASSUME IInv, NEW b \in Batches, Insert(b)
    PROVE  Keeps
<1> DEFINE n == Candidate(b)
           q == batch[b]
<1>1. /\ q.phase = "INSERT" /\ DOMAIN q = DOMAIN Idle /\ SessionOK(q) /\ BatchOK(q) /\ SessionRows(q)
      /\ DOMAIN batch = Batches /\ n = Head(q.candidates)
      /\ \A c \in Batches \ {b} : n \notin DOMAIN batch[c].inserted
      /\ \A c \in Batches \ {b} : DOMAIN q.inserted \cap DOMAIN batch[c].inserted = {}
      /\ SessionDecisions(rules, q)
    BY SessionIs DEF Insert, Candidate
<1>2. CASE n \in DOMAIN Sees(b)
    <2> DEFINE r == [q EXCEPT !.phase = "OVER", !.ok = FALSE, !.inserted = Nothing, !.written = Nothing]
    <2>1. Moves(b, r)
        BY <1>1, <1>2 DEF Insert, Moves
    <2>2. /\ DOMAIN r = DOMAIN Idle /\ r.phase = "OVER" /\ r.ok = FALSE /\ r.config = q.config
          /\ r.todo = q.todo /\ r.candidates = q.candidates
          /\ DOMAIN r.inserted = {} /\ DOMAIN r.written = {}
        BY <1>1, Fields, NothingIsEmpty
    <2> HIDE DEF r
    <2>3. SessionOK(r)
        BY <1>1, <2>2 DEF SessionOK, Phases
    <2>4. BatchOK(r)
        BY <2>2, <2>3 DEF BatchOK
    <2>5. SessionRows(r)
        BY <1>1, <2>2 DEF SessionRows
    <2>6. SessionDecisions(rules, r)
        BY <1>1, <2>2 DEF SessionDecisions
    <2> QED BY <2>1, <2>2, <2>4, <2>5, <2>6, KeptByMove
<1>3. CASE n \notin DOMAIN Sees(b)
    <2> DEFINE row == [active |-> TRUE, config |-> Decided(b)]
               i == Over([x \in {n} |-> row], q.inserted)
               r == [q EXCEPT !.phase = "UPSERT", !.inserted = i]
    <2>1. Moves(b, r)
        BY <1>1, <1>3 DEF Insert, Moves
    <2>2. /\ n \in Name /\ NameOK(n) /\ n.stamps = <<>> /\ Decided(b) \in Config
          /\ n.base \in Editions => Decided(b).edition = n.base
        BY <1>1, DecidedIs
    <2>3. row \in Row /\ row.config = Decided(b)
        BY <2>2 DEF Row
    <2> HIDE DEF row
    <2>4. /\ DOMAIN i = {n} \cup DOMAIN q.inserted /\ i[n] = row
          /\ \A x \in DOMAIN q.inserted : x # n => i[x] = q.inserted[x]
        <3> DEFINE f == [x \in {n} |-> row]
                   g == q.inserted
        <3>1. DOMAIN f = {n} /\ f[n] = row
            OBVIOUS
        <3>2. i = Over(f, g)
            OBVIOUS
        <3> HIDE DEF f, g, i, r, n, q
        <3>3. /\ DOMAIN Over(f, g) = {n} \cup DOMAIN g /\ Over(f, g)[n] = row
              /\ \A x \in DOMAIN g : x # n => Over(f, g)[x] = g[x]
            BY <3>1 DEF Over
        <3> QED BY <3>2, <3>3 DEF g
    <2> HIDE DEF i
    <2>5. /\ DOMAIN r = DOMAIN Idle /\ r.phase = "UPSERT" /\ r.ok = q.ok /\ r.config = q.config
          /\ r.todo = q.todo /\ r.candidates = q.candidates
          /\ r.inserted = i /\ r.written = q.written
        BY <1>1, Fields
    <2> HIDE DEF r, q, n
    <2>6. SessionOK(r)
        <3>1. \A x \in DOMAIN r.inserted : NameOK(x) /\ r.inserted[x] \in Row
            BY <1>1, <2>2, <2>3, <2>4, <2>5 DEF SessionOK
        <3> QED BY <1>1, <2>5, <3>1 DEF SessionOK, Phases
    <2>7. BatchOK(r)
        BY <1>1, <2>5, <2>6 DEF BatchOK
    <2>8. n \notin DOMAIN rules
        BY <1>3, SeesIs DEF InSight, q
    <2>9. SessionRows(r)
        BY <1>1, <2>2, <2>4, <2>5, <2>8 DEF SessionRows, InSight
    <2>10. SessionDecisions(rules, r)
        <3>1. \A x \in DOMAIN r.inserted : x.base \in Editions => r.inserted[x].config.edition = x.base
            BY <1>1, <2>2, <2>3, <2>4, <2>5 DEF SessionDecisions
        <3> QED BY <1>1, <2>5, <3>1 DEF SessionDecisions
    <2>11. \A c \in Batches \ {b} : DOMAIN r.inserted \cap DOMAIN batch[c].inserted = {}
        BY <1>1, <2>4, <2>5
    <2> QED BY <2>1, <2>7, <2>9, <2>10, <2>11, KeptByMove
<1> QED BY <1>2, <1>3

LEMMA UpsertStep ==
    ASSUME IInv, NEW b \in Batches, Upsert(b)
    PROVE  Keeps
<1> DEFINE n == Candidate(b)
           q == batch[b]
           k == KeyOf(b)
           d == Decided(b)
           w == Over([x \in {k} |-> d], q.written)
           m == [q EXCEPT !.candidates = Tail(@), !.written = w]
           r == Resumed(m)
<1>1. /\ q.phase = "UPSERT" /\ DOMAIN q = DOMAIN Idle /\ SessionOK(q) /\ BatchOK(q) /\ SessionRows(q)
      /\ DOMAIN batch = Batches /\ n = Head(q.candidates)
      /\ \A c \in Batches \ {b} : DOMAIN q.inserted \cap DOMAIN batch[c].inserted = {}
      /\ SessionDecisions(rules, q)
    BY SessionIs DEF Upsert, Candidate
<1>2. Moves(b, r)
    <2>1. batch' = [batch EXCEPT ![b] = Resumed([batch[b] EXCEPT
              !.candidates = Tail(batch[b].candidates),
              !.written = Over([x \in {KeyOf(b)} |-> Decided(b)], batch[b].written)])]
        BY DEF Upsert
    <2> QED BY <2>1 DEF Upsert, Moves
<1>3. /\ n \in Name /\ NameOK(n) /\ n.stamps = <<>> /\ d \in Config
      /\ n.base \in Editions => d.edition = n.base /\ d.enabled /\ Stored(rules, n.type, d)
    BY <1>1, DecidedIs
<1>4. /\ q.todo \in Seq(Customers) /\ q.todo # <<>> /\ DOMAIN q.config = Types
      /\ q.candidates \in Seq(Name) /\ q.candidates # <<>>
    BY <1>1 DEF BatchOK, SessionOK
<1>5. k.rule = n /\ k \in Key
    <2>1. Head(q.todo) \in Customers
        BY <1>4
    <2> QED BY <1>3, <2>1 DEF KeyOf, Key
<1>6. /\ DOMAIN w = {k} \cup DOMAIN q.written /\ w[k] = d
      /\ \A x \in DOMAIN q.written : x # k => w[x] = q.written[x]
    <2> DEFINE f == [x \in {k} |-> d]
    <2>1. DOMAIN f = {k} /\ f[k] = d
        OBVIOUS
    <2> HIDE DEF f
    <2>2. /\ DOMAIN Over(f, q.written) = {k} \cup DOMAIN q.written /\ Over(f, q.written)[k] = d
          /\ \A x \in DOMAIN q.written : x # k => Over(f, q.written)[x] = q.written[x]
        BY <2>1, OneOver
    <2> QED BY <2>2 DEF f
<1>7. /\ DOMAIN m = DOMAIN Idle /\ m.phase = "UPSERT" /\ m.ok = q.ok /\ m.config = q.config
      /\ m.todo = q.todo /\ m.candidates = Tail(q.candidates)
      /\ m.inserted = q.inserted /\ m.written = w
    <2> HIDE DEF w
    <2> QED BY <1>1, Fields
<1> HIDE DEF n, q, k, d, w, m
<1>8. /\ Tail(q.candidates) \in Seq(Name)
      /\ \A i \in DOMAIN Tail(q.candidates) :
            i + 1 \in DOMAIN q.candidates /\ Tail(q.candidates)[i] = q.candidates[i + 1]
    BY <1>4
<1>9. SessionOK(m)
    <2>1. \A i \in DOMAIN m.candidates : NameOK(m.candidates[i])
        BY <1>1, <1>7, <1>8 DEF SessionOK
    <2>2. \A x \in DOMAIN m.written : x \in Key /\ m.written[x] \in Config
        BY <1>1, <1>3, <1>5, <1>6, <1>7 DEF SessionOK
    <2> QED BY <1>1, <1>7, <1>8, <2>1, <2>2 DEF SessionOK, Phases
<1>10. BatchOK(r)
    BY <1>4, <1>7, <1>9, ResumedOK
<1>11. /\ r.candidates = m.candidates /\ r.config = m.config /\ r.inserted = m.inserted
       /\ r.written = m.written /\ r.phase # "UPSERT"
    BY <1>7, ResumedIs
<1> HIDE DEF r
<1>12. InSight(q, n)
    BY <1>1 DEF SessionRows
<1>13. SessionRows(r)
    <2>1. \A i \in DOMAIN r.candidates : r.candidates[i].stamps = <<>>
        BY <1>1, <1>7, <1>8, <1>11 DEF SessionRows
    <2>2. \A x \in DOMAIN r.written : x.rule.stamps = <<>> /\ InSight(r, x.rule)
        BY <1>1, <1>3, <1>5, <1>6, <1>7, <1>11, <1>12 DEF SessionRows, InSight
    <2> QED BY <1>1, <1>7, <1>11, <2>1, <2>2 DEF SessionRows
<1>14. SessionDecisions(rules, r)
    <2>1. \A i \in DOMAIN r.candidates :
              LET x == r.candidates[i]
              IN  x.base \in Editions =>
                      x.type \in Types /\ x.base = r.config[x.type].edition /\ r.config[x.type].enabled
        BY <1>1, <1>7, <1>8, <1>11 DEF SessionDecisions
    <2>2. n.base \in Editions => OfItsVersion(rules, k, d)
        BY <1>3, <1>5 DEF OfItsVersion
    <2>3. \A x \in DOMAIN r.written : x.rule.base \in Editions => OfItsVersion(rules, x, r.written[x])
        BY <1>1, <1>5, <1>6, <1>7, <1>11, <2>2 DEF SessionDecisions
    <2> QED BY <1>1, <1>7, <1>11, <2>1, <2>3 DEF SessionDecisions
<1>15. \A c \in Batches \ {b} : DOMAIN r.inserted \cap DOMAIN batch[c].inserted = {}
    BY <1>1, <1>7, <1>11
<1> QED BY <1>2, <1>10, <1>13, <1>14, <1>15, KeptByMove

LEMMA IdleIs ==
    /\ BatchOK(Idle) /\ SessionRows(Idle) /\ DOMAIN Idle.inserted = {}
    /\ \A rows : SessionDecisions(rows, Idle)
<1>1. /\ Idle.phase = "IDLE" /\ Idle.ok = TRUE /\ DOMAIN Idle.config = {} /\ Idle.todo = <<>>
      /\ Idle.candidates = <<>> /\ DOMAIN Idle.inserted = {} /\ DOMAIN Idle.written = {}
    BY NothingIsEmpty DEF Idle
<1>2. <<>> \in Seq(Customers) /\ <<>> \in Seq(Name)
    OBVIOUS
<1>3. BatchOK(Idle)
    <2> DEFINE r == Idle
    <2>1. DOMAIN r.candidates = {}
        BY <1>1
    <2> HIDE DEF r
    <2>2. r.phase \in Phases /\ r.ok \in BOOLEAN
        BY <1>1 DEF r, Phases
    <2>3. r.candidates \in Seq(Name) /\ r.todo \in Seq(Customers) /\ DOMAIN r = DOMAIN Idle
        BY <1>1, <1>2 DEF r
    <2>4. SessionOK(r)
        BY <1>1, <2>1, <2>2, <2>3 DEF SessionOK, r
    <2> QED BY <1>1, <2>4 DEF BatchOK, r
<1>4. SessionRows(Idle)
    BY <1>1 DEF SessionRows
<1>5. \A rows : SessionDecisions(rows, Idle)
    BY <1>1 DEF SessionDecisions
<1> QED BY <1>1, <1>3, <1>4, <1>5

\* A rollback: only the session goes.
LEMMA RollbackStep ==
    ASSUME IInv, NEW b \in Batches, Close(b), ~batch[b].ok
    PROVE  Keeps
<1>1. Moves(b, Idle)
    BY DEF Close, Moves
<1> QED BY <1>1, IdleIs, KeptByMove

LEMMA CommitStep ==
    ASSUME IInv, NEW b \in Batches, Close(b), batch[b].ok
    PROVE  Keeps
<1> DEFINE q == batch[b]
<1>1. /\ DOMAIN batch = Batches /\ SessionOK(q) /\ SessionRows(q)
      /\ \A c \in Batches \ {b} : DOMAIN q.inserted \cap DOMAIN batch[c].inserted = {}
      /\ SessionDecisions(rules, q)
    BY SessionIs
<1>2. /\ batch'[b] = Idle /\ DOMAIN batch' = Batches /\ now' = now
      /\ \A c \in Batches \ {b} : batch'[c] = batch[c]
    BY <1>1 DEF Close
<1>3. /\ DOMAIN rules' = DOMAIN q.inserted \cup DOMAIN rules
      /\ \A n \in DOMAIN q.inserted : rules'[n] = q.inserted[n]
      /\ \A n \in DOMAIN rules : rules'[n] = rules[n]
    <2>1. rules' = Over(q.inserted, rules)
        BY DEF Close, Sees
    <2>2. \A n \in DOMAIN rules : n \notin DOMAIN q.inserted
        BY <1>1 DEF SessionRows
    <2> DEFINE i == q.inserted
    <2> HIDE DEF q
    <2>3. /\ DOMAIN Over(i, rules) = DOMAIN i \cup DOMAIN rules
          /\ \A n \in DOMAIN i : Over(i, rules)[n] = i[n]
          /\ \A n \in DOMAIN rules \ DOMAIN i : Over(i, rules)[n] = rules[n]
        BY OverIs
    <2> QED BY <2>1, <2>2, <2>3
<1>4. /\ DOMAIN opportunities' = DOMAIN q.written \cup DOMAIN opportunities
      /\ \A k \in DOMAIN q.written : opportunities'[k] = q.written[k]
      /\ \A k \in DOMAIN opportunities \ DOMAIN q.written : opportunities'[k] = opportunities[k]
    <2>1. opportunities' = Over(q.written, opportunities)
        BY DEF Close
    <2> DEFINE i == q.written
    <2> HIDE DEF q
    <2>2. /\ DOMAIN Over(i, opportunities) = DOMAIN i \cup DOMAIN opportunities
          /\ \A k \in DOMAIN i : Over(i, opportunities)[k] = i[k]
          /\ \A k \in DOMAIN opportunities \ DOMAIN i : Over(i, opportunities)[k] = opportunities[k]
        BY OverIs
    <2> QED BY <2>1, <2>2
<1> HIDE DEF q
<1>5. TypeOK'
    <2>1. \A n \in DOMAIN rules' : NameOK(n) /\ rules'[n] \in Row
        BY <1>1, <1>3 DEF IInv, TypeOK, SessionOK
    <2>2. \A k \in DOMAIN opportunities' : k \in Key /\ opportunities'[k] \in Config
        BY <1>1, <1>4 DEF IInv, TypeOK, SessionOK
    <2>3. \A c \in Batches : BatchOK(batch'[c])
        BY <1>2, IdleIs DEF IInv, TypeOK
    <2> QED BY <1>2, <2>1, <2>2, <2>3 DEF IInv, TypeOK
<1>6. RowsInv'
    <2>1. \A n \in DOMAIN rules' : \A i \in DOMAIN n.stamps : n.stamps[i] < now'
        <3>1. \A n \in DOMAIN q.inserted : DOMAIN n.stamps = {}
            <4>1. DOMAIN <<>> = {}
                OBVIOUS
            <4> QED BY <1>1, <4>1 DEF SessionRows
        <3> QED BY <1>2, <1>3, <3>1 DEF IInv, RowsInv
    <2>2. \A k \in DOMAIN opportunities' : k.rule.stamps = <<>> /\ k.rule \in DOMAIN rules'
        BY <1>1, <1>3, <1>4 DEF IInv, RowsInv, SessionRows, InSight
    <2>3. ASSUME NEW c \in Batches PROVE SessionRows(batch[c])'
        <3>1. CASE c = b
            <4>1. /\ DOMAIN Idle.inserted = {} /\ DOMAIN Idle.candidates = {} /\ Idle.phase # "UPSERT"
                  /\ DOMAIN Idle.written = {}
                BY NothingIsEmpty DEF Idle
            <4> QED BY <1>2, <3>1, <4>1 DEF SessionRows
        <3>2. CASE c # b
            <4>1. SessionRows(batch[c])
                BY SessionIs
            <4>2. \A n \in DOMAIN batch[c].inserted : n \notin DOMAIN q.inserted
                BY <1>1, <3>2
            <4>3. \A n : InSight(batch[c], n) => InSight(batch[c], n)'
                BY <1>2, <1>3, <3>2 DEF InSight
            <4>4. batch'[c] = batch[c]
                BY <1>2, <3>2
            <4> QED BY <1>3, <4>1, <4>2, <4>3, <4>4 DEF SessionRows
        <3> QED BY <3>1, <3>2
    <2>4. \A c, d \in Batches : c # d => DOMAIN batch'[c].inserted \cap DOMAIN batch'[d].inserted = {}
        BY <1>2, IdleIs DEF IInv, RowsInv
    <2> QED BY <2>1, <2>2, <2>3, <2>4 DEF RowsInv
<1>7. DecisionsInv'
    <2>1. /\ DOMAIN rules \subseteq DOMAIN rules'
          /\ \A n \in DOMAIN rules : rules'[n].config = rules[n].config
        BY <1>3
    <2>2. /\ \A k, c : OfItsVersion(rules, k, c) => OfItsVersion(rules', k, c)
          /\ \A r : SessionDecisions(rules, r) => SessionDecisions(rules', r)
        BY <2>1, StaysStored
    <2>3. \A n \in DOMAIN rules' : n.stamps = <<>> /\ n.base \in Editions => rules'[n].config.edition = n.base
        BY <1>1, <1>3 DEF IInv, DecisionsInv, SessionDecisions
    <2>4. \A k \in DOMAIN opportunities' :
              k.rule.base \in Editions => OfItsVersion(rules', k, opportunities'[k])
        BY <1>1, <1>4, <2>2 DEF IInv, DecisionsInv, SessionDecisions
    <2>5. \A c \in Batches : SessionDecisions(rules', batch'[c])
        BY <1>2, <2>2, IdleIs DEF IInv, DecisionsInv
    <2> QED BY <2>3, <2>4, <2>5 DEF DecisionsInv
<1> QED BY <1>5, <1>6, <1>7 DEF Keeps
-----------------------------------------------------------------------------
(* The step of an update *)

LEMMA Restamped ==
    ASSUME NEW n \in Name, NEW s
    PROVE  [n EXCEPT !.stamps = s] = [type |-> n.type, base |-> n.base, stamps |-> s]
BY DEF Name

LEMMA CloneIs ==
    ASSUME IInv, NEW n \in DOMAIN rules, now <= MaxTime, Fits(n)
    PROVE  /\ NameOK(Clone(n)) /\ Clone(n) \in Name
           /\ Clone(n).base = n.base /\ Clone(n).stamps = Append(n.stamps, now)
           /\ Clone(n).stamps # <<>> /\ Clone(n) \notin DOMAIN rules
           /\ \A i \in DOMAIN Clone(n).stamps : Clone(n).stamps[i] < now + 1
<1> DEFINE m == Clone(n)
<1>1. NameOK(n) /\ n \in Name /\ now \in Nat /\ now \in 1..MaxTime
    BY GenerationAssumption DEF IInv, TypeOK, NameOK
<1>2. n.stamps \in Seq(1..MaxTime) /\ n.base \in Editions \cup Ids /\ n.type \in AllTypes
    BY <1>1 DEF Name
<1>3. m = [type |-> n.type, base |-> n.base, stamps |-> Append(n.stamps, now)]
    BY <1>1, Restamped DEF Clone
<1> HIDE DEF m
<1>4. /\ Append(n.stamps, now) \in Seq(1..MaxTime)
      /\ Len(Append(n.stamps, now)) = Len(n.stamps) + 1
      /\ DOMAIN Append(n.stamps, now) = 1..(Len(n.stamps) + 1)
      /\ \A i \in 1..Len(n.stamps) : Append(n.stamps, now)[i] = n.stamps[i]
      /\ Append(n.stamps, now)[Len(n.stamps) + 1] = now
      /\ Len(n.stamps) \in Nat /\ DOMAIN n.stamps = 1..Len(n.stamps)
    BY <1>1, <1>2
<1>5. m \in Name /\ m.base = n.base /\ m.stamps = Append(n.stamps, now)
    BY <1>2, <1>3, <1>4 DEF Name
<1>6. NameOK(m)
    <2>1. Room[n.base] \in Nat /\ Len(n.stamps) < Room[n.base]
        BY <1>2, GenerationAssumption DEF Fits
    <2> QED BY <1>4, <1>5, <2>1 DEF NameOK
<1>7. m.stamps # <<>>
    BY <1>2, <1>5
<1>8. Len(n.stamps) + 1 \in DOMAIN m.stamps /\ m.stamps[Len(n.stamps) + 1] = now
    BY <1>4, <1>5
<1>9. m \notin DOMAIN rules
    <2> SUFFICES ASSUME m \in DOMAIN rules PROVE FALSE
        OBVIOUS
    <2>1. now < now
        BY <1>8 DEF IInv, RowsInv
    <2> QED BY <1>1, <2>1
<1>10. ASSUME NEW i \in DOMAIN m.stamps PROVE m.stamps[i] < now + 1
    <2>1. CASE i = Len(n.stamps) + 1
        BY <1>1, <1>8, <2>1
    <2>2. CASE i # Len(n.stamps) + 1
        <3>1. i \in DOMAIN n.stamps /\ m.stamps[i] = n.stamps[i]
            BY <1>4, <1>5, <2>2
        <3>2. n.stamps[i] < now /\ n.stamps[i] \in Nat
            <4>1. n.stamps[i] < now
                BY <3>1 DEF IInv, RowsInv
            <4>2. n.stamps[i] \in 1..MaxTime
                BY <1>2, <3>1, InSequence
            <4> QED BY <4>1, <4>2, GenerationAssumption
        <3> QED BY <1>1, <3>1, <3>2
    <2> QED BY <2>1, <2>2
<1> QED BY <1>5, <1>6, <1>7, <1>9, <1>10 DEF m

LEMMA UpdatedRows ==
    ASSUME IInv, NEW n \in DOMAIN rules, NEW edit \in Edits, NEW active \in BOOLEAN, Update(n, edit, active)
    PROVE  /\ DOMAIN rules' = {Clone(n)} \cup DOMAIN rules
           /\ rules'[Clone(n)] = [active |-> active, config |-> Over(edit, rules[n].config)]
           /\ rules'[n].config = rules[n].config /\ rules'[n].active = FALSE /\ rules'[n] \in Row
           /\ \A m \in DOMAIN rules : m # n => rules'[m] = rules[m]
           /\ opportunities' = opportunities /\ batch' = batch /\ now' = now + 1
           /\ now <= MaxTime /\ Fits(n)
<1> DEFINE row == [active |-> active, config |-> Over(edit, rules[n].config)]
           off == [rules EXCEPT ![n].active = FALSE]
<1>1. /\ rules' = Over([x \in {Clone(n)} |-> row], off)
      /\ opportunities' = opportunities /\ batch' = batch /\ now' = now + 1 /\ now <= MaxTime /\ Fits(n)
    BY DEF Update
<1>2. rules[n] \in Row
    BY DEF IInv, TypeOK
<1>3. /\ DOMAIN off = DOMAIN rules /\ off[n].config = rules[n].config /\ off[n].active = FALSE
      /\ off[n] \in Row
      /\ \A m \in DOMAIN rules : m # n => off[m] = rules[m]
    BY <1>2 DEF Row
<1> HIDE DEF row, off
<1>4. /\ DOMAIN rules' = {Clone(n)} \cup DOMAIN off /\ rules'[Clone(n)] = row
      /\ \A m \in DOMAIN off : m # Clone(n) => rules'[m] = off[m]
    <2> DEFINE c == Clone(n)
               f == [x \in {c} |-> row]
    <2>1. DOMAIN f = {c} /\ f[c] = row
        OBVIOUS
    <2>2. rules' = Over(f, off)
        BY <1>1
    <2> HIDE DEF c, f
    <2>3. /\ DOMAIN Over(f, off) = {c} \cup DOMAIN off /\ Over(f, off)[c] = row
          /\ \A m \in DOMAIN off : m # c => Over(f, off)[m] = off[m]
        BY <2>1, OneOver
    <2> QED BY <2>2, <2>3 DEF c
<1>5. Clone(n) \notin DOMAIN rules
    BY <1>1, CloneIs
<1> QED BY <1>1, <1>3, <1>4, <1>5 DEF row

LEMMA UpdateStep ==
    ASSUME IInv, NEW n \in DOMAIN rules, NEW edit \in Edits, NEW active \in BOOLEAN, Update(n, edit, active)
    PROVE  Keeps
<1> DEFINE m == Clone(n)
           c == Over(edit, rules[n].config)
<1>1. /\ DOMAIN rules' = {m} \cup DOMAIN rules
      /\ rules'[m] = [active |-> active, config |-> c]
      /\ rules'[n].config = rules[n].config /\ rules'[n].active = FALSE /\ rules'[n] \in Row
      /\ \A x \in DOMAIN rules : x # n => rules'[x] = rules[x]
      /\ opportunities' = opportunities /\ batch' = batch /\ now' = now + 1
      /\ now <= MaxTime /\ Fits(n)
    BY UpdatedRows
<1>2. /\ NameOK(m) /\ m.stamps # <<>> /\ m \notin DOMAIN rules
      /\ \A i \in DOMAIN m.stamps : m.stamps[i] < now + 1
    BY <1>1, CloneIs
<1>3. rules[n].config \in Config /\ c \in Config
    <2>1. rules[n].config \in Config
        BY DEF IInv, TypeOK, Row
    <2> QED BY <2>1, EditedConfig
<1>4. now \in Nat /\ now + 1 \in 1..MaxTime + 1
    BY <1>1, GenerationAssumption DEF IInv, TypeOK
<1> HIDE DEF m, c
<1>5. TypeOK'
    <2>1. rules'[m] \in Row
        BY <1>1, <1>3 DEF Row
    <2>2. \A x \in DOMAIN rules' : NameOK(x) /\ rules'[x] \in Row
        BY <1>1, <1>2, <2>1 DEF IInv, TypeOK
    <2> QED BY <1>1, <1>4, <2>2 DEF IInv, TypeOK
<1>6. RowsInv'
    <2>1. \A x \in DOMAIN rules : \A i \in DOMAIN x.stamps : x.stamps[i] < now + 1
        <3> SUFFICES ASSUME NEW x \in DOMAIN rules, NEW i \in DOMAIN x.stamps PROVE x.stamps[i] < now + 1
            OBVIOUS
        <3>1. x.stamps[i] < now
            BY DEF IInv, RowsInv
        <3>2. x.stamps \in Seq(1..MaxTime)
            BY DEF IInv, TypeOK, NameOK, Name
        <3>3. x.stamps[i] \in Nat
            BY <3>2, GenerationAssumption
        <3> QED BY <1>4, <3>1, <3>3
    <2>2. \A x \in DOMAIN rules' : \A i \in DOMAIN x.stamps : x.stamps[i] < now'
        BY <1>1, <1>2, <2>1
    <2>3. \A k \in DOMAIN opportunities' : k.rule.stamps = <<>> /\ k.rule \in DOMAIN rules'
        BY <1>1 DEF IInv, RowsInv
    <2>4. \A b \in Batches : SessionRows(batch[b])'
        <3> TAKE b \in Batches
        <3>1. SessionRows(batch[b])
            BY DEF IInv, RowsInv
        <3>2. \A x : InSight(batch[b], x) => InSight(batch[b], x)'
            BY <1>1 DEF InSight
        <3>3. \A x \in DOMAIN batch[b].inserted : x \notin DOMAIN rules'
            BY <1>1, <1>2, <3>1 DEF SessionRows
        <3> QED BY <1>1, <3>1, <3>2, <3>3 DEF SessionRows
    <2> QED BY <1>1, <2>2, <2>3, <2>4 DEF IInv, RowsInv
<1>7. DecisionsInv'
    <2>1. /\ DOMAIN rules \subseteq DOMAIN rules'
          /\ \A x \in DOMAIN rules : rules'[x].config = rules[x].config
        BY <1>1
    <2>2. /\ \A k, d : OfItsVersion(rules, k, d) => OfItsVersion(rules', k, d)
          /\ \A r : SessionDecisions(rules, r) => SessionDecisions(rules', r)
        BY <2>1, StaysStored
    <2>3. \A x \in DOMAIN rules' : x.stamps = <<>> /\ x.base \in Editions => rules'[x].config.edition = x.base
        BY <1>1, <1>2, <2>1 DEF IInv, DecisionsInv
    <2>4. \A k \in DOMAIN opportunities' :
              k.rule.base \in Editions => OfItsVersion(rules', k, opportunities'[k])
        BY <1>1, <2>2 DEF IInv, DecisionsInv
    <2>5. \A b \in Batches : SessionDecisions(rules', batch'[b])
        BY <1>1, <2>2 DEF IInv, DecisionsInv
    <2> QED BY <2>3, <2>4, <2>5 DEF DecisionsInv
<1> QED BY <1>5, <1>6, <1>7 DEF Keeps
-----------------------------------------------------------------------------
(* The theorems *)

LEMMA InitialRows ==
    ASSUME Init
    PROVE  /\ \A n \in DOMAIN rules : /\ n \in Name /\ NameOK(n) /\ n.stamps = <<>> /\ n.base = Yaml.edition
                                      /\ rules[n] = [active |-> TRUE, config |-> Yaml]
           /\ opportunities = Nothing /\ batch = [b \in Batches |-> Idle] /\ now = 1
<1>1. PICK seeded \in BOOLEAN :
          rules = [n \in {First(t, Yaml.edition) : t \in IF seeded THEN Types ELSE {}} |->
                      [active |-> TRUE, config |-> Yaml]]
    BY DEF Init
<1>2. Yaml.edition \in Editions \cup Ids
    BY YamlIsValid, ValidFields
<1>3. ASSUME NEW n \in DOMAIN rules
      PROVE  /\ n \in Name /\ NameOK(n) /\ n.stamps = <<>> /\ n.base = Yaml.edition
             /\ rules[n] = [active |-> TRUE, config |-> Yaml]
    <2>1. PICK t \in Types : n = First(t, Yaml.edition)
        BY <1>1
    <2>2. t \in AllTypes
        BY TypesOfSequences
    <2> QED BY <1>1, <1>2, <2>1, <2>2, FirstFits
<1> QED BY <1>3 DEF Init

LEMMA InitKeeps ==
    ASSUME Init
    PROVE  IInv
<1>1. /\ \A n \in DOMAIN rules : /\ n \in Name /\ NameOK(n) /\ n.stamps = <<>> /\ n.base = Yaml.edition
                                 /\ rules[n] = [active |-> TRUE, config |-> Yaml]
      /\ DOMAIN opportunities = {} /\ now = 1
      /\ DOMAIN batch = Batches /\ \A b \in Batches : batch[b] = Idle
    BY InitialRows, NothingIsEmpty
<1>2. TypeOK
    <2>1. [active |-> TRUE, config |-> Yaml] \in Row
        BY YamlIsValid DEF Row
    <2>2. 1 \in 1..MaxTime + 1
        BY GenerationAssumption
    <2> QED BY <1>1, <2>1, <2>2, IdleIs DEF TypeOK
<1>3. RowsInv
    <2>1. DOMAIN <<>> = {}
        OBVIOUS
    <2>2. \A n \in DOMAIN rules : DOMAIN n.stamps = {}
        BY <1>1, <2>1
    <2> QED BY <1>1, <2>2, IdleIs DEF RowsInv
<1>4. DecisionsInv
    BY <1>1, IdleIs DEF DecisionsInv
<1> QED BY <1>2, <1>3, <1>4 DEF IInv

LEMMA StepKeeps ==
    ASSUME IInv, [Next]_vars
    PROVE  Keeps
<1>1. CASE UNCHANGED vars
    BY <1>1 DEF Keeps, IInv, vars, TypeOK, RowsInv, SessionRows, InSight, DecisionsInv
<1>2. ASSUME NEW b \in Batches, Step(b) PROVE Keeps
    <2>1. CASE Close(b)
        BY <2>1, RollbackStep, CommitStep
    <2> QED BY <1>2, <2>1, BeginStep, AnswerStep, FailStep, LookStep, InsertStep, UpsertStep, EndStep
            DEF Step
<1>3. ASSUME NEW n \in DOMAIN rules, NEW edit \in Edits, NEW active \in BOOLEAN, Update(n, edit, active)
      PROVE  Keeps
    BY <1>3, UpdateStep
<1> QED BY <1>1, <1>2, <1>3 DEF Next

\* The strengthening of the type invariant is inductive.
THEOREM RowsInvariance == Spec => []IInv
<1>1. Init => IInv
    BY InitKeeps
<1>2. IInv /\ [Next]_vars => IInv'
    BY StepKeeps DEF Keeps, IInv
<1> QED BY <1>1, <1>2, PTL DEF Spec

\* The rows, the opportunities and the sessions keep their types, for any rules, customers,
\* batches and updates (opportunity_api.py, generate and update_rule): no stored version is
\* wider than its column, and no batch decides by an invalid configuration.
THEOREM GenerationTypeCorrect == Spec => []TypeOK
<1>1. IInv => TypeOK
    BY DEF IInv
<1> QED BY <1>1, RowsInvariance, PTL

\* Every stored opportunity refers to a stored rule row, and an engine decision came from a
\* configuration of its type, switched on, of the version of that row, for any number of
\* batches, customers and editions and whatever updates change (generate, update_rule).
THEOREM DecisionsFollowTheirRules == Spec => []DecidedByItsRule
<1>1. IInv => DecidedByItsRule
    BY DEF IInv, RowsInv, DecisionsInv, DecidedByItsRule
<1> QED BY <1>1, RowsInvariance, PTL

LEMMA HistoryStep ==
    ASSUME IInv, [Next]_vars
    PROVE  HistoryGrows \/ UNCHANGED vars
<1>1. CASE rules' = rules
    BY <1>1 DEF HistoryGrows
<1>2. ASSUME NEW b \in Batches, Close(b), batch[b].ok PROVE HistoryGrows
    <2>1. \A n \in DOMAIN rules : n \notin DOMAIN batch[b].inserted
        BY <1>2, SessionIs DEF SessionRows
    <2>2. rules' = Over(batch[b].inserted, rules)
        BY <1>2 DEF Close, Sees
    <2> DEFINE i == batch[b].inserted
    <2>3. /\ DOMAIN Over(i, rules) = DOMAIN i \cup DOMAIN rules
          /\ \A n \in DOMAIN rules \ DOMAIN i : Over(i, rules)[n] = rules[n]
        BY OverIs
    <2>4. /\ DOMAIN rules \subseteq DOMAIN rules'
          /\ \A n \in DOMAIN rules : rules'[n] = rules[n]
        BY <2>1, <2>2, <2>3
    <2> QED BY <2>4 DEF HistoryGrows
<1>3. ASSUME NEW n \in DOMAIN rules, NEW edit \in Edits, NEW active \in BOOLEAN, Update(n, edit, active)
      PROVE  HistoryGrows
    <2>1. /\ DOMAIN rules' = {Clone(n)} \cup DOMAIN rules
          /\ rules'[n].config = rules[n].config /\ rules'[n].active = FALSE
          /\ \A m \in DOMAIN rules : m # n => rules'[m] = rules[m]
        BY <1>3, UpdatedRows
    <2> QED BY <2>1 DEF HistoryGrows
<1>4. ASSUME NEW b \in Batches, Step(b), ~ (Close(b) /\ batch[b].ok) PROVE rules' = rules
    BY <1>4 DEF Step, Begin, Answer, Fail, Look, Insert, Upsert, End, Close
<1>5. UNCHANGED vars => rules' = rules
    BY DEF vars
<1> QED BY <1>1, <1>2, <1>3, <1>4, <1>5 DEF Next

\* No request and no batch rewrites, removes or reactivates a rule row (update_rule clones it,
\* generate inserts it): the history of a rule only grows.
THEOREM HistoriesOnlyGrow == Spec => HistoryOnlyGrows
<1>1. IInv /\ [Next]_vars => [HistoryGrows]_vars
    BY HistoryStep
<1> QED BY <1>1, RowsInvariance, PTL DEF Spec, HistoryOnlyGrows
=============================================================================
