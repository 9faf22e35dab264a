-------------------------- MODULE RuleStudioProofs --------------------------
(***************************************************************************)
(* Theorems about the Rule Studio for any number of rules, versions,       *)
(* principals and workers, and any assignment of roles: its invariants (1),*)
(* its audit trail (2), what a governed release is worth (3), that the     *)
(* Rule Studio implements one (4), and that requests which overlap do what *)
(* they would do one at a time (5).                                        *)
(***************************************************************************)
EXTENDS RuleStudioRequests, RuleAudit, GovernedRelease, WellFoundedInduction, TLAPS

USE DEF Versions

-----------------------------------------------------------------------------
(* Type correctness *)

LEMMA InitTypeOK == Init => TypeOK
  <1>1. AbsentRule \in RuleRow
    BY BoundAssumption DEF AbsentRule, RuleRow, Status
  <1>2. AbsentVersion \in VersionRow
    BY DEF AbsentVersion, VersionRow, Status
  <1> QED
    BY <1>1, <1>2 DEF Init, TypeOK

\* Audit rows are appended, one or two at a time.
LEMMA LogTypeOK ==
  ASSUME TypeOK, NEW r \in RuleIds, NEW v \in Versions, NEW action \in AuditAction,
         Log(r, v, action)
  PROVE  audit' \in [RuleIds -> Seq(AuditRow)]
  <1>1. [version |-> v, action |-> action] \in AuditRow
    BY DEF AuditRow
  <1> QED
    BY <1>1 DEF TypeOK, Log

LEMMA LogTwiceTypeOK ==
  ASSUME TypeOK, NEW r \in RuleIds, NEW v \in Versions,
         NEW first \in AuditAction, NEW second \in AuditAction,
         audit' = [audit EXCEPT ![r] = Append(Append(audit[r],
                     [version |-> v, action |-> first]),
                     [version |-> v, action |-> second])]
  PROVE  audit' \in [RuleIds -> Seq(AuditRow)]
  <1>1. /\ [version |-> v, action |-> first] \in AuditRow
        /\ [version |-> v, action |-> second] \in AuditRow
    BY DEF AuditRow
  <1> QED
    BY <1>1 DEF TypeOK


-----------------------------------------------------------------------------
(* What the rows are after each kind of write *)

LEMMA RowTypes ==
  ASSUME TypeOK, NEW r \in RuleIds
  PROVE  /\ rule[r] \in RuleRow
         /\ rule[r].current \in 0..MaxVersion
         /\ rule[r].active \in 0..MaxVersion
         /\ version[r] \in [Versions -> VersionRow]
         /\ \A v \in Versions : version[r][v] \in VersionRow
  <1>1. rule[r] \in RuleRow /\ version[r] \in [Versions -> VersionRow]
    BY DEF TypeOK
  <1> QED
    BY <1>1 DEF RuleRow

LEMMA RowUpdates ==
  /\ \A row \in RuleRow, s \in Status, v \in 0..MaxVersion :
        /\ [row EXCEPT !.status = s] \in RuleRow
        /\ [row EXCEPT !.status = s, !.current = v] \in RuleRow
        /\ [row EXCEPT !.status = s, !.active = v] \in RuleRow
  /\ \A row \in VersionRow, s \in Status : [row EXCEPT !.status = s] \in VersionRow
  BY DEF RuleRow, VersionRow

\* A new draft changes one row of versions and two columns of the rule.
LEMMA DraftRows ==
  ASSUME TypeOK, NEW r \in RuleIds, NEW v \in Versions, NEW a \in Actors,
         NEW d \in Definitions \cup {Null}, NEW action \in AuditAction,
         PersistDraft(r, v, a, d, action)
  PROVE  /\ rule' \in [RuleIds -> RuleRow]
         /\ rule'[r].status = "DRAFT" /\ rule'[r].current = v /\ rule'[r].active = rule[r].active
         /\ \A s \in RuleIds \ {r} : rule'[s] = rule[s] /\ version'[s] = version[s]
         /\ version' \in [RuleIds -> [Versions -> VersionRow]]
         /\ version'[r][v] = [status |-> "DRAFT", author |-> a, definition |-> d]
         /\ \A w \in Versions \ {v} : version'[r][w] = version[r][w]
  <1>1. /\ rule' = [rule EXCEPT ![r] = [rule[r] EXCEPT !.status = "DRAFT", !.current = v]]
        /\ version' = [version EXCEPT ![r] = [version[r] EXCEPT ![v] =
                          [status |-> "DRAFT", author |-> a, definition |-> d]]]
    BY DEF PersistDraft
  <1>2. v \in 0..MaxVersion /\ "DRAFT" \in Status
    BY BoundAssumption DEF Status, LifecycleStatus
  <1>3. [rule[r] EXCEPT !.status = "DRAFT", !.current = v] \in RuleRow
    BY <1>2, RowTypes, RowUpdates
  <1>4. [status |-> "DRAFT", author |-> a, definition |-> d] \in VersionRow
    BY <1>2 DEF VersionRow
  <1>5. rule' \in [RuleIds -> RuleRow] /\ version' \in [RuleIds -> [Versions -> VersionRow]]
    BY <1>1, <1>3, <1>4 DEF TypeOK
  <1>6. rule'[r] = [rule[r] EXCEPT !.status = "DRAFT", !.current = v]
    BY <1>1 DEF TypeOK
  <1>7. rule'[r].status = "DRAFT" /\ rule'[r].current = v /\ rule'[r].active = rule[r].active
    BY <1>6, RowTypes DEF RuleRow
  <1> QED
    BY <1>1, <1>5, <1>7 DEF TypeOK

\* A lifecycle step changes the status of the rule and of its latest version.
LEMMA MoveRows ==
  ASSUME TypeOK, RowsAgree, NEW r \in RuleIds,
         NEW from \in LifecycleStatus, NEW to \in LifecycleStatus, Move(r, from, to)
  PROVE  /\ rule[r].current \in Versions
         /\ version[r][rule[r].current].status = from
         /\ rule' \in [RuleIds -> RuleRow]
         /\ rule'[r].status = to
         /\ rule'[r].current = rule[r].current /\ rule'[r].active = rule[r].active
         /\ \A s \in RuleIds \ {r} : rule'[s] = rule[s] /\ version'[s] = version[s]
         /\ version' \in [RuleIds -> [Versions -> VersionRow]]
         /\ version'[r][rule[r].current].status = to
         /\ version'[r][rule[r].current].author = version[r][rule[r].current].author
         /\ version'[r][rule[r].current].definition = version[r][rule[r].current].definition
         /\ \A w \in Versions \ {rule[r].current} : version'[r][w] = version[r][w]
  <1> DEFINE cur == rule[r].current
  <1>1. cur \in Versions /\ version[r][cur].status = from
    BY RowTypes DEF Move, RowsAgree, Exists, Latest, LifecycleStatus
  <1>2. /\ rule' = [rule EXCEPT ![r] = [rule[r] EXCEPT !.status = to]]
        /\ version' = [version EXCEPT ![r] = [version[r] EXCEPT ![cur] =
                          [version[r][cur] EXCEPT !.status = to]]]
    BY DEF Move
  <1>3. /\ [rule[r] EXCEPT !.status = to] \in RuleRow
        /\ [version[r][cur] EXCEPT !.status = to] \in VersionRow
    BY <1>1, RowTypes, RowUpdates DEF Status, LifecycleStatus
  <1>4. rule' \in [RuleIds -> RuleRow] /\ version' \in [RuleIds -> [Versions -> VersionRow]]
    BY <1>2, <1>3 DEF TypeOK
  <1>5. rule'[r] = [rule[r] EXCEPT !.status = to]
    BY <1>2 DEF TypeOK
  <1>6. rule'[r].status = to /\ rule'[r].current = cur /\ rule'[r].active = rule[r].active
    BY <1>5, RowTypes DEF RuleRow
  <1>7. version'[r] = [version[r] EXCEPT ![cur] = [version[r][cur] EXCEPT !.status = to]]
    BY <1>2 DEF TypeOK
  <1>8. version'[r][cur] = [version[r][cur] EXCEPT !.status = to]
    BY <1>1, <1>7, RowTypes
  <1>9. /\ version'[r][cur].status = to
        /\ version'[r][cur].author = version[r][cur].author
        /\ version'[r][cur].definition = version[r][cur].definition
    BY <1>1, <1>8, RowTypes DEF VersionRow
  <1>10. \A w \in Versions \ {cur} : version'[r][w] = version[r][w]
    BY <1>7, RowTypes
  <1> QED
    BY <1>1, <1>2, <1>4, <1>6, <1>9, <1>10 DEF TypeOK

\* A publication makes the latest version the active one and retires the others
\* that were.
LEMMA PublishRows ==
  ASSUME TypeOK, RowsAgree, NEW r \in RuleIds, NEW a \in Actors, Publish(r, a)
  PROVE  /\ rule[r].current \in Versions
         /\ version[r][rule[r].current].status = "APPROVED"
         /\ rule' \in [RuleIds -> RuleRow]
         /\ rule'[r].status = "ACTIVE"
         /\ rule'[r].current = rule[r].current /\ rule'[r].active = rule[r].current
         /\ \A s \in RuleIds \ {r} : rule'[s] = rule[s] /\ version'[s] = version[s]
         /\ version' \in [RuleIds -> [Versions -> VersionRow]]
         /\ \A w \in Versions :
                /\ version'[r][w].status =
                      IF w = rule[r].current THEN "ACTIVE"
                      ELSE IF version[r][w].status = "ACTIVE" THEN "RETIRED"
                      ELSE version[r][w].status
                /\ version'[r][w].author = version[r][w].author
                /\ version'[r][w].definition = version[r][w].definition
  <1> DEFINE cur == rule[r].current
  <1>1. cur \in Versions /\ version[r][cur].status = "APPROVED"
    BY RowTypes DEF Publish, RowsAgree, Exists, Latest
  <1>2. rule' = [rule EXCEPT ![r] = [rule[r] EXCEPT !.status = "ACTIVE", !.active = cur]]
    BY DEF Publish
  <1>3. /\ [rule[r] EXCEPT !.status = "ACTIVE", !.active = cur] \in RuleRow
        /\ \A v \in Versions : /\ [version[r][v] EXCEPT !.status = "ACTIVE"] \in VersionRow
                               /\ [version[r][v] EXCEPT !.status = "RETIRED"] \in VersionRow
    BY <1>1, RowTypes, RowUpdates DEF Status, LifecycleStatus
  <1>4. rule' \in [RuleIds -> RuleRow] /\ version' \in [RuleIds -> [Versions -> VersionRow]]
    <2> DEFINE row(v) == IF v = cur
                         THEN [version[r][v] EXCEPT !.status = "ACTIVE"]
                         ELSE IF version[r][v].status = "ACTIVE"
                         THEN [version[r][v] EXCEPT !.status = "RETIRED"]
                         ELSE version[r][v]
    <2>1. version' = [version EXCEPT ![r] = [v \in Versions |-> row(v)]]
      BY DEF Publish
    <2>2. \A v \in Versions : row(v) \in VersionRow
      BY <1>3, RowTypes
    <2> HIDE DEF row
    <2>3. [v \in Versions |-> row(v)] \in [Versions -> VersionRow]
      BY <2>2
    <2> QED
      BY <1>2, <1>3, <2>1, <2>3 DEF TypeOK
  <1>5. rule'[r] = [rule[r] EXCEPT !.status = "ACTIVE", !.active = cur]
    BY <1>2 DEF TypeOK
  <1>6. rule'[r].status = "ACTIVE" /\ rule'[r].current = cur /\ rule'[r].active = cur
    BY <1>5, RowTypes DEF RuleRow
  <1>7. \A w \in Versions : version'[r][w] =
            IF w = cur THEN [version[r][w] EXCEPT !.status = "ACTIVE"]
            ELSE IF version[r][w].status = "ACTIVE"
            THEN [version[r][w] EXCEPT !.status = "RETIRED"]
            ELSE version[r][w]
    BY DEF TypeOK, Publish
  <1>8. ASSUME NEW w \in Versions
        PROVE  /\ version'[r][w].status =
                     IF w = cur THEN "ACTIVE"
                     ELSE IF version[r][w].status = "ACTIVE" THEN "RETIRED"
                     ELSE version[r][w].status
               /\ version'[r][w].author = version[r][w].author
               /\ version'[r][w].definition = version[r][w].definition
    <2>1. version[r][w] \in VersionRow
      BY RowTypes
    <2> QED
      BY <1>7, <2>1 DEF VersionRow
  <1> QED
    BY <1>1, <1>2, <1>4, <1>6, <1>8 DEF TypeOK, Publish

-----------------------------------------------------------------------------
(* The inductive invariant *)

LEMMA InitIInv == Init => IInv
  <1> SUFFICES ASSUME Init PROVE IInv
    OBVIOUS
  <1>1. TypeOK
    BY InitTypeOK
  <1>2. \A r \in RuleIds :
            /\ rule[r].status = "ABSENT" /\ rule[r].current = 0
            /\ \A v \in Versions : version[r][v].status = "ABSENT"
    BY DEF Init, AbsentRule, AbsentVersion
  <1>3. RowsAgree
    <2> SUFFICES ASSUME NEW r \in RuleIds
                 PROVE  /\ Exists(r) <=> rule[r].current > 0
                        /\ Exists(r) => rule[r].status = Latest(r).status
                        /\ \A v \in Versions : version[r][v].status = "ABSENT" <=> v > rule[r].current
                        /\ \A v \in Versions : v # rule[r].current => version[r][v].status \notin InReview
      BY DEF RowsAgree
    <2>1. ~Exists(r) /\ rule[r].current = 0
      BY <1>2 DEF Exists
    <2>2. \A v \in Versions : v > 0 /\ version[r][v].status = "ABSENT"
      BY <1>2, BoundAssumption
    <2>3. \A v \in Versions : version[r][v].status \notin InReview
      BY <2>2 DEF InReview
    <2> QED
      BY <2>1, <2>2, <2>3
  <1>4. SingleActive /\ NoHalfPublication /\ PersistedAreValid
    BY <1>2 DEF SingleActive, NoHalfPublication, PersistedAreValid
  <1>5. StatusEarned
    BY <1>2 DEF StatusEarned, Earned, Reviewed
  <1> QED
    BY <1>1, <1>3, <1>4, <1>5 DEF IInv

\* A draft numbered after the latest version, of a rule that is not under review.
LEMMA DraftStep ==
  ASSUME IInv, NEW r \in RuleIds, NEW v \in Versions, v = rule[r].current + 1,
         rule[r].status \notin InReview, NEW a \in Actors, NEW d \in ValidDefinitions,
         NEW action \in AuditAction, PersistDraft(r, v, a, d, action)
  PROVE  IInv'
  <1> USE DEF IInv
  <1>1. d \in Definitions \cup {Null}
    BY DefinitionsAssumption
  <1>2. /\ rule' \in [RuleIds -> RuleRow]
        /\ rule'[r].status = "DRAFT" /\ rule'[r].current = v /\ rule'[r].active = rule[r].active
        /\ \A s \in RuleIds \ {r} : rule'[s] = rule[s] /\ version'[s] = version[s]
        /\ version' \in [RuleIds -> [Versions -> VersionRow]]
        /\ version'[r][v] = [status |-> "DRAFT", author |-> a, definition |-> d]
        /\ \A w \in Versions \ {v} : version'[r][w] = version[r][w]
    BY <1>1, DraftRows
  <1>3. UNCHANGED <<submission, approval, simulated>>
    BY DEF PersistDraft
  <1>4. rule[r].current \in 0..MaxVersion
    BY RowTypes
  <1>5. TypeOK'
    <2>1. audit' \in [RuleIds -> Seq(AuditRow)]
      BY LogTypeOK DEF PersistDraft
    <2> QED
      BY <1>2, <1>3, <2>1 DEF TypeOK
  <1>6. RowsAgree'
    <2> SUFFICES ASSUME NEW s \in RuleIds
                 PROVE  /\ Exists(s)' <=> rule'[s].current > 0
                        /\ Exists(s)' => rule'[s].status = Latest(s)'.status
                        /\ \A w \in Versions : version'[s][w].status = "ABSENT" <=> w > rule'[s].current
                        /\ \A w \in Versions : w # rule'[s].current => version'[s][w].status \notin InReview
      BY DEF RowsAgree, InReview
    <2>1. CASE s # r
      BY <1>2, <2>1 DEF RowsAgree, Exists, Latest
    <2>2. CASE s = r
      <3>1. \A w \in Versions : version[r][w].status \notin InReview
        BY <1>4 DEF RowsAgree, Exists, Latest, InReview
      <3>2. version'[r][v].status = "DRAFT"
        BY <1>2
      <3>3. Exists(r)' /\ v > 0 /\ Latest(r)'.status = "DRAFT"
        BY <1>2, <3>2 DEF Exists, Latest
      <3>4. \A w \in Versions : version'[r][w].status = "ABSENT" <=> w > v
        <4> TAKE w \in Versions
        <4>1. CASE w = v
          BY <4>1, <3>2
        <4>2. CASE w # v
          BY <4>2, <1>2, <1>4 DEF RowsAgree
        <4> QED
          BY <4>1, <4>2
      <3> QED
        BY <2>2, <1>2, <3>1, <3>3, <3>4
    <2> QED
      BY <2>1, <2>2
  <1>7. SingleActive'
    BY <1>2 DEF SingleActive
  <1>8. StatusEarned'
    <2> SUFFICES ASSUME NEW s \in RuleIds, NEW w \in Versions
                 PROVE  Earned(s, w)'
      BY DEF StatusEarned
    <2>1. CASE s = r /\ w = v
      BY <1>2, <2>1 DEF Earned, Reviewed
    <2>2. CASE ~(s = r /\ w = v)
      <3>1. version'[s][w] = version[s][w]
        BY <1>2, <2>2
      <3> QED
        BY <1>3, <3>1 DEF StatusEarned, Earned
    <2> QED
      BY <2>1, <2>2
  <1>9. NoHalfPublication'
    BY <1>2 DEF NoHalfPublication
  <1>10. PersistedAreValid'
    BY <1>2 DEF PersistedAreValid
  <1> QED
    BY <1>5, <1>6, <1>7, <1>8, <1>9, <1>10


\* The records of a step on the latest version of r are typed, and those of
\* other versions are kept.
RecordsKept(r) ==
    /\ submission' \in [RuleIds -> [Versions -> Actors \cup {Null}]]
    /\ approval' \in [RuleIds -> [Versions -> Actors \cup {Null}]]
    /\ simulated' \in [RuleIds -> SUBSET Versions]
    /\ audit' \in [RuleIds -> Seq(AuditRow)]
    /\ \A s \in RuleIds, w \in Versions : s # r \/ w # rule[r].current =>
          /\ submission'[s][w] = submission[s][w]
          /\ approval'[s][w] = approval[s][w]
          /\ (w \in simulated[s] => w \in simulated'[s])

\* The rows of a version that did not change keep the records they had.
LEMMA EarnedKept ==
  ASSUME StatusEarned, NEW r \in RuleIds, RecordsKept(r), NEW s \in RuleIds, NEW w \in Versions,
         s # r \/ w # rule[r].current,
         version'[s][w] = version[s][w]
  PROVE  Earned(s, w)'
  <1>1. /\ submission'[s][w] = submission[s][w]
        /\ approval'[s][w] = approval[s][w]
        /\ w \in simulated[s] => w \in simulated'[s]
    BY DEF RecordsKept
  <1>2. Earned(s, w)
    BY DEF StatusEarned
  <1> QED
    BY <1>1, <1>2 DEF Earned

\* A lifecycle step that does not activate, with the records it adds.
LEMMA MoveStep ==
  ASSUME IInv, NEW r \in RuleIds, NEW from \in LifecycleStatus, NEW to \in LifecycleStatus,
         to # "PUBLISHED", to # "ACTIVE", Move(r, from, to), RecordsKept(r),
         \A w \in Versions : w = rule[r].current => Earned(r, w)'
  PROVE  IInv'
  <1>1. TypeOK /\ RowsAgree /\ SingleActive /\ StatusEarned /\ NoHalfPublication /\ PersistedAreValid
    BY DEF IInv
  <1>2. PICK cur \in Versions :
           /\ cur = rule[r].current
           /\ rule' \in [RuleIds -> RuleRow]
           /\ rule'[r].status = to
           /\ rule'[r].current = cur /\ rule'[r].active = rule[r].active
           /\ \A s \in RuleIds \ {r} : rule'[s] = rule[s] /\ version'[s] = version[s]
           /\ version' \in [RuleIds -> [Versions -> VersionRow]]
           /\ version[r][cur].status = from
           /\ version'[r][cur].status = to
           /\ version'[r][cur].author = version[r][cur].author
           /\ version'[r][cur].definition = version[r][cur].definition
           /\ \A w \in Versions \ {cur} : version'[r][w] = version[r][w]
    BY <1>1, MoveRows
  <1>3. to # "ABSENT" /\ from # "ABSENT"
    BY DEF LifecycleStatus
  <1>4. TypeOK'
    BY <1>2 DEF TypeOK, RecordsKept
  <1>5. RowsAgree'
    <2> SUFFICES ASSUME NEW s \in RuleIds
                 PROVE  /\ Exists(s)' <=> rule'[s].current > 0
                        /\ Exists(s)' => rule'[s].status = Latest(s)'.status
                        /\ \A w \in Versions : version'[s][w].status = "ABSENT" <=> w > rule'[s].current
                        /\ \A w \in Versions : w # rule'[s].current => version'[s][w].status \notin InReview
      BY DEF RowsAgree, InReview
    <2>1. CASE s # r
      <3>1. rule'[s] = rule[s] /\ version'[s] = version[s]
        BY <1>2, <2>1
      <3> QED
        BY <1>1, <3>1 DEF RowsAgree, Exists, Latest
    <2>2. CASE s = r
      <3>1. rule'[r].status = to /\ rule'[r].current = cur /\ version'[r][cur].status = to
        BY <1>2
      <3>2. Exists(r)' /\ cur > 0 /\ Latest(r)'.status = to
        BY <1>3, <3>1 DEF Exists, Latest
      <3>3. \A w \in Versions : version'[r][w].status = "ABSENT" <=> w > cur
        BY <1>1, <1>2, <1>3 DEF RowsAgree
      <3>4. \A w \in Versions : w # cur => version'[r][w].status \notin InReview
        BY <1>1, <1>2 DEF RowsAgree
      <3> QED
        BY <2>2, <3>1, <3>2, <3>3, <3>4
    <2> QED
      BY <2>1, <2>2
  <1>6. ASSUME NEW s \in RuleIds, NEW w \in Versions
        PROVE  \/ s = r /\ w = cur
               \/ version'[s][w] = version[s][w]
    BY <1>2
  <1>7. SingleActive'
    <2> SUFFICES ASSUME NEW s \in RuleIds, NEW w \in Versions, version'[s][w].status = "ACTIVE"
                 PROVE  rule'[s].active = w
      BY DEF SingleActive
    <2>1. version[s][w].status = "ACTIVE"
      BY <1>2, <1>6
    <2>2. rule'[s].active = rule[s].active
      BY <1>2
    <2> QED
      BY <1>1, <2>1, <2>2 DEF SingleActive
  <1>8. StatusEarned'
    <2> SUFFICES ASSUME NEW s \in RuleIds, NEW w \in Versions
                 PROVE  Earned(s, w)'
      BY DEF StatusEarned
    <2>1. CASE s = r /\ w = cur
      BY <1>2, <2>1
    <2>2. CASE ~(s = r /\ w = cur)
      BY <1>1, <1>2, <1>6, <2>2, EarnedKept
    <2> QED
      BY <2>1, <2>2
  <1>9. NoHalfPublication'
    <2> SUFFICES ASSUME NEW s \in RuleIds, NEW w \in Versions
                 PROVE  rule'[s].status # "PUBLISHED" /\ version'[s][w].status # "PUBLISHED"
      BY DEF NoHalfPublication
    <2>1. rule'[s].status \in {to, rule[s].status}
      BY <1>2
    <2>2. version'[s][w].status \in {to, version[s][w].status}
      BY <1>2, <1>6
    <2> QED
      BY <1>1, <2>1, <2>2 DEF NoHalfPublication
  <1>10. PersistedAreValid'
    <2> SUFFICES ASSUME NEW s \in RuleIds, NEW w \in Versions, version'[s][w].status # "ABSENT"
                 PROVE  version'[s][w].definition \in ValidDefinitions
      BY DEF PersistedAreValid
    <2>1. version[s][w].status # "ABSENT"
      BY <1>2, <1>3, <1>6
    <2>2. version'[s][w].definition = version[s][w].definition
      BY <1>2, <1>6
    <2> QED
      BY <1>1, <2>1, <2>2 DEF PersistedAreValid
  <1> QED
    BY <1>4, <1>5, <1>7, <1>8, <1>9, <1>10 DEF IInv

LEMMA PublishStep ==
  ASSUME IInv, NEW r \in RuleIds, NEW a \in Actors, Publish(r, a)
  PROVE  IInv'
  <1>1. TypeOK /\ RowsAgree /\ SingleActive /\ StatusEarned /\ NoHalfPublication /\ PersistedAreValid
    BY DEF IInv
  <1>2. PICK cur \in Versions :
           /\ cur = rule[r].current
           /\ rule' \in [RuleIds -> RuleRow]
           /\ rule'[r].status = "ACTIVE"
           /\ rule'[r].current = cur /\ rule'[r].active = cur
           /\ \A s \in RuleIds \ {r} : rule'[s] = rule[s] /\ version'[s] = version[s]
           /\ version' \in [RuleIds -> [Versions -> VersionRow]]
           /\ version[r][cur].status = "APPROVED"
           /\ \A w \in Versions :
                 /\ version'[r][w].status =
                       IF w = cur THEN "ACTIVE"
                       ELSE IF version[r][w].status = "ACTIVE" THEN "RETIRED"
                       ELSE version[r][w].status
                 /\ version'[r][w].author = version[r][w].author
                 /\ version'[r][w].definition = version[r][w].definition
    BY <1>1, PublishRows
  <1>3. UNCHANGED <<submission, approval, simulated>>
    BY DEF Publish
  <1>4. version'[r][cur].status = "ACTIVE"
    BY <1>2
  <1>5. ASSUME NEW w \in Versions, w # cur
        PROVE  \/ version'[r][w].status = version[r][w].status /\ version[r][w].status # "ACTIVE"
               \/ version'[r][w].status = "RETIRED" /\ version[r][w].status = "ACTIVE"
    BY <1>2, <1>5
  <1>6. TypeOK'
    <2>1. audit' \in [RuleIds -> Seq(AuditRow)]
      <3>1. cur = rule[r].current
        BY <1>2
      <3>2. audit' = [audit EXCEPT ![r] = Append(Append(audit[r],
                         [version |-> cur, action |-> "PUBLISHED"]),
                         [version |-> cur, action |-> "ACTIVATED"])]
        BY <3>1 DEF Publish
      <3>3. "PUBLISHED" \in AuditAction /\ "ACTIVATED" \in AuditAction
        BY DEF AuditAction
      <3> QED
        BY <1>1, <3>2, <3>3, LogTwiceTypeOK
    <2>2. rule' \in [RuleIds -> RuleRow] /\ version' \in [RuleIds -> [Versions -> VersionRow]]
      BY <1>2
    <2> QED
      BY <1>1, <1>3, <2>1, <2>2 DEF TypeOK
  <1>7. RowsAgree'
    <2> SUFFICES ASSUME NEW s \in RuleIds
                 PROVE  /\ Exists(s)' <=> rule'[s].current > 0
                        /\ Exists(s)' => rule'[s].status = Latest(s)'.status
                        /\ \A w \in Versions : version'[s][w].status = "ABSENT" <=> w > rule'[s].current
                        /\ \A w \in Versions : w # rule'[s].current => version'[s][w].status \notin InReview
      BY DEF RowsAgree, InReview
    <2>1. CASE s # r
      <3>1. rule'[s] = rule[s] /\ version'[s] = version[s]
        BY <1>2, <2>1
      <3> QED
        BY <1>1, <3>1 DEF RowsAgree, Exists, Latest
    <2>2. CASE s = r
      <3>1. rule'[r].status = "ACTIVE" /\ rule'[r].current = cur
        BY <1>2
      <3>2. Exists(r)' /\ cur > 0 /\ Latest(r)'.status = "ACTIVE"
        BY <1>4, <3>1 DEF Exists, Latest
      <3>3. \A w \in Versions : version[r][w].status = "ABSENT" <=> w > cur
        BY <1>1, <1>2 DEF RowsAgree
      <3>4. \A w \in Versions : version'[r][w].status = "ABSENT" <=> w > cur
        BY <1>4, <1>5, <3>3
      <3>5. \A w \in Versions : w # cur => version[r][w].status \notin InReview
        BY <1>1, <1>2 DEF RowsAgree
      <3>6. \A w \in Versions : w # cur => version'[r][w].status \notin InReview
        BY <1>5, <3>5 DEF InReview
      <3> QED
        BY <2>2, <3>1, <3>2, <3>4, <3>6
    <2> QED
      BY <2>1, <2>2
  <1>8. SingleActive'
    <2> SUFFICES ASSUME NEW s \in RuleIds, NEW w \in Versions, version'[s][w].status = "ACTIVE"
                 PROVE  rule'[s].active = w
      BY DEF SingleActive
    <2>1. CASE s # r
      BY <1>1, <1>2, <2>1 DEF SingleActive
    <2>2. CASE s = r
      <3>1. w = cur
        BY <1>5, <2>2
      <3> QED
        BY <1>2, <2>2, <3>1
    <2> QED
      BY <2>1, <2>2
  <1>9. StatusEarned'
    <2> SUFFICES ASSUME NEW s \in RuleIds, NEW w \in Versions
                 PROVE  Earned(s, w)'
      BY DEF StatusEarned
    <2>1. Earned(s, w)
      BY <1>1 DEF StatusEarned
    <2>2. CASE s # r
      <3>1. version'[s] = version[s]
        BY <1>2, <2>2
      <3> QED
        BY <1>3, <2>1, <3>1 DEF Earned
    <2>3. CASE s = r /\ w = cur
      <3>1. version'[r][cur].author = version[r][cur].author
        BY <1>2
      <3> QED
        BY <1>2, <1>3, <1>4, <2>1, <2>3, <3>1 DEF Earned, Reviewed
    <2>4. CASE s = r /\ w # cur
      <3>1. version'[r][w].author = version[r][w].author
        BY <1>2
      <3> QED
        BY <1>3, <1>5, <2>1, <2>4, <3>1 DEF Earned, Reviewed
    <2> QED
      BY <2>2, <2>3, <2>4
  <1>10. NoHalfPublication'
    <2> SUFFICES ASSUME NEW s \in RuleIds, NEW w \in Versions
                 PROVE  rule'[s].status # "PUBLISHED" /\ version'[s][w].status # "PUBLISHED"
      BY DEF NoHalfPublication
    <2>1. rule[s].status # "PUBLISHED" /\ version[s][w].status # "PUBLISHED"
      BY <1>1 DEF NoHalfPublication
    <2>2. CASE s # r
      BY <1>2, <2>1, <2>2
    <2>3. CASE s = r
      BY <1>2, <1>4, <1>5, <2>1, <2>3
    <2> QED
      BY <2>2, <2>3
  <1>11. PersistedAreValid'
    <2> SUFFICES ASSUME NEW s \in RuleIds, NEW w \in Versions, version'[s][w].status # "ABSENT"
                 PROVE  version'[s][w].definition \in ValidDefinitions
      BY DEF PersistedAreValid
    <2>1. version[s][w].status # "ABSENT"
      BY <1>2
    <2>2. version'[s][w].definition = version[s][w].definition
      BY <1>2
    <2> QED
      BY <1>1, <2>1, <2>2 DEF PersistedAreValid
  <1> QED
    BY <1>6, <1>7, <1>8, <1>9, <1>10, <1>11 DEF IInv

\* The latest version of a rule that exists, and the number of the next one.
LEMMA LatestRow ==
  ASSUME TypeOK, RowsAgree, NEW r \in RuleIds, Exists(r)
  PROVE  /\ rule[r].current \in Versions
         /\ version[r][rule[r].current].status # "ABSENT"
         /\ rule[r].current < MaxVersion => rule[r].current + 1 \in Versions
  <1>1. rule[r].current \in 0..MaxVersion /\ rule[r].current > 0
    BY RowTypes DEF RowsAgree
  <1>2. rule[r].current \in Versions
    BY <1>1, BoundAssumption
  <1>3. version[r][rule[r].current].status = "ABSENT" <=> rule[r].current > rule[r].current
    BY <1>2 DEF RowsAgree
  <1>4. rule[r].current < MaxVersion => rule[r].current + 1 \in Versions
    BY <1>1, BoundAssumption
  <1> QED
    BY <1>1, <1>2, <1>3, <1>4

\* A new rule has no version yet.
LEMMA FirstVersion ==
  ASSUME TypeOK, RowsAgree, NEW r \in RuleIds, ~Exists(r)
  PROVE  /\ 1 \in Versions
         /\ 1 = rule[r].current + 1
         /\ rule[r].status \notin InReview
  <1>1. rule[r].current \in 0..MaxVersion /\ ~(rule[r].current > 0)
    BY RowTypes DEF RowsAgree
  <1> QED
    BY <1>1, BoundAssumption DEF Exists, InReview

\* The records a step on the latest version writes.
LEMMA RecordStep ==
  ASSUME TypeOK, RowsAgree, NEW r \in RuleIds, NEW a \in Actors, rule[r].current \in Versions,
         audit' \in [RuleIds -> Seq(AuditRow)],
         submission' \in {submission, [submission EXCEPT ![r][rule[r].current] = a]},
         approval' \in {approval, [approval EXCEPT ![r][rule[r].current] = a]},
         simulated' \in {simulated, [simulated EXCEPT ![r] = @ \cup {rule[r].current}]}
  PROVE  RecordsKept(r)
  <1>1. PICK cur \in Versions : cur = rule[r].current
    OBVIOUS
  <1>2. /\ submission' \in [RuleIds -> [Versions -> Actors \cup {Null}]]
        /\ \A s \in RuleIds, w \in Versions :
              s # r \/ w # cur => submission'[s][w] = submission[s][w]
    <2>1. CASE submission' = submission
      BY <2>1 DEF TypeOK
    <2>2. CASE submission' = [submission EXCEPT ![r][cur] = a]
      BY <2>2 DEF TypeOK
    <2> QED
      BY <1>1, <2>1, <2>2
  <1>3. /\ approval' \in [RuleIds -> [Versions -> Actors \cup {Null}]]
        /\ \A s \in RuleIds, w \in Versions :
              s # r \/ w # cur => approval'[s][w] = approval[s][w]
    <2>1. CASE approval' = approval
      BY <2>1 DEF TypeOK
    <2>2. CASE approval' = [approval EXCEPT ![r][cur] = a]
      BY <2>2 DEF TypeOK
    <2> QED
      BY <1>1, <2>1, <2>2
  <1>4. /\ simulated' \in [RuleIds -> SUBSET Versions]
        /\ \A s \in RuleIds, w \in Versions : w \in simulated[s] => w \in simulated'[s]
    <2>1. CASE simulated' = simulated
      BY <2>1 DEF TypeOK
    <2>2. CASE simulated' = [simulated EXCEPT ![r] = simulated[r] \cup {cur}]
      BY <2>2 DEF TypeOK
    <2> QED
      BY <1>1, <2>1, <2>2
  <1> QED
    BY <1>1, <1>2, <1>3, <1>4 DEF RecordsKept

LEMMA CreateStep ==
  ASSUME IInv, NEW r \in RuleIds, NEW a \in Actors, NEW d \in Definitions, Create(r, a, d)
  PROVE  IInv'
  <1>1. 1 \in Versions /\ 1 = rule[r].current + 1 /\ rule[r].status \notin InReview
    BY FirstVersion DEF Create, IInv
  <1>2. "CREATED" \in AuditAction
    BY DEF AuditAction
  <1> QED
    BY <1>1, <1>2, DraftStep DEF Create

LEMMA DuplicateStep ==
  ASSUME IInv, NEW s \in RuleIds, NEW r \in RuleIds, NEW a \in Actors, Duplicate(s, r, a)
  PROVE  IInv'
  <1>1. 1 \in Versions /\ 1 = rule[r].current + 1 /\ rule[r].status \notin InReview
    BY FirstVersion DEF Duplicate, IInv
  <1>2. "CREATED" \in AuditAction
    BY DEF AuditAction
  <1>3. PICK d \in ValidDefinitions : PersistDraft(r, 1, a, d, "CREATED")
    BY DEF Duplicate
  <1> QED
    BY <1>1, <1>2, <1>3, DraftStep

LEMMA UpdateStep ==
  ASSUME IInv, NEW r \in RuleIds, NEW a \in Actors, NEW d \in Definitions, Update(r, a, d)
  PROVE  IInv'
  <1>1. rule[r].current + 1 \in Versions
    BY LatestRow DEF Update, IInv
  <1>2. "UPDATED" \in AuditAction
    BY DEF AuditAction
  <1> QED
    BY <1>1, <1>2, DraftStep DEF Update

\* The document a rollback copies was valid when it was written.
LEMMA RollbackStep ==
  ASSUME IInv, NEW r \in RuleIds, NEW a \in Actors, NEW target \in Versions,
         Rollback(r, a, target)
  PROVE  IInv'
  <1>1. rule[r].current + 1 \in Versions
    BY LatestRow DEF Rollback, IInv
  <1>2. "ROLLED_BACK" \in AuditAction
    BY DEF AuditAction
  <1>3. version[r][target].definition \in ValidDefinitions
    BY DEF Rollback, IInv, PersistedAreValid
  <1>4. PICK d \in ValidDefinitions :
           PersistDraft(r, rule[r].current + 1, a, d, "ROLLED_BACK")
    BY <1>3 DEF Rollback
  <1> QED
    BY <1>1, <1>2, <1>4, DraftStep DEF Rollback

LEMMA ValidateStep ==
  ASSUME IInv, NEW r \in RuleIds, NEW a \in Actors, Validate(r, a)
  PROVE  IInv'
  <1>1. TypeOK /\ RowsAgree /\ StatusEarned
    BY DEF IInv
  <1>2. /\ "DRAFT" \in LifecycleStatus /\ "VALIDATED" \in LifecycleStatus
        /\ "VALIDATED" \in AuditAction
    BY DEF LifecycleStatus, AuditAction
  <1>3. /\ Move(r, "DRAFT", "VALIDATED")
        /\ Log(r, rule[r].current, "VALIDATED")
        /\ UNCHANGED <<submission, approval, simulated>>
    BY DEF Validate
  <1>4. rule[r].current \in Versions /\ version'[r][rule[r].current].status = "VALIDATED"
    BY <1>1, <1>2, <1>3, MoveRows
  <1>5. RecordsKept(r)
    BY <1>1, <1>2, <1>3, <1>4, LogTypeOK, RecordStep
  <1>6. \A w \in Versions : w = rule[r].current => Earned(r, w)'
    BY <1>4 DEF Earned, Reviewed
  <1> QED
    BY <1>2, <1>3, <1>5, <1>6, MoveStep

LEMMA SimulateStep ==
  ASSUME IInv, NEW r \in RuleIds, NEW a \in Actors, Simulate(r, a)
  PROVE  IInv'
  <1>1. TypeOK /\ RowsAgree /\ StatusEarned
    BY DEF IInv
  <1>2. /\ "VALIDATED" \in LifecycleStatus /\ "SIMULATED" \in LifecycleStatus
        /\ "SIMULATED" \in AuditAction
    BY DEF LifecycleStatus, AuditAction
  <1>3. /\ Move(r, "VALIDATED", "SIMULATED")
        /\ simulated' = [simulated EXCEPT ![r] = @ \cup {rule[r].current}]
        /\ rule[r].current \in simulated'[r]
        /\ UNCHANGED <<submission, approval>>
    BY DEF Simulate
  <1>4. rule[r].current \in Versions /\ version'[r][rule[r].current].status = "SIMULATED"
    BY <1>1, <1>2, <1>3, MoveRows
  <1>5. RecordsKept(r)
    <2>1. audit' \in [RuleIds -> Seq(AuditRow)]
      BY <1>1, <1>2, <1>4, LogTwiceTypeOK DEF Simulate
    <2> QED
      BY <1>1, <1>3, <1>4, <2>1, RecordStep
  <1>6. \A w \in Versions : w = rule[r].current => Earned(r, w)'
    BY <1>3, <1>4 DEF Earned, Reviewed
  <1> QED
    BY <1>2, <1>3, <1>5, <1>6, MoveStep

LEMMA SubmitStep ==
  ASSUME IInv, NEW r \in RuleIds, NEW a \in Actors, Submit(r, a)
  PROVE  IInv'
  <1>1. TypeOK /\ RowsAgree /\ StatusEarned
    BY DEF IInv
  <1>2. /\ "SIMULATED" \in LifecycleStatus /\ "SUBMITTED" \in LifecycleStatus
        /\ "SUBMITTED" \in AuditAction
    BY DEF LifecycleStatus, AuditAction
  <1>3. /\ Move(r, "SIMULATED", "SUBMITTED")
        /\ submission' = [submission EXCEPT ![r][rule[r].current] = a]
        /\ Log(r, rule[r].current, "SUBMITTED")
        /\ UNCHANGED <<approval, simulated>>
    BY DEF Submit
  <1>4. /\ rule[r].current \in Versions
        /\ version[r][rule[r].current].status = "SIMULATED"
        /\ version'[r][rule[r].current].status = "SUBMITTED"
    BY <1>1, <1>2, <1>3, MoveRows
  <1>5. RecordsKept(r)
    BY <1>1, <1>2, <1>3, <1>4, LogTypeOK, RecordStep
  <1>6. \A w \in Versions : w = rule[r].current => Earned(r, w)'
    <2>1. submission'[r][rule[r].current] = a /\ a # Null
      BY <1>1, <1>3, <1>4, RolesAssumption DEF TypeOK
    <2>2. rule[r].current \in simulated'[r]
      BY <1>1, <1>3, <1>4 DEF StatusEarned, Earned
    <2> QED
      BY <1>4, <2>1, <2>2 DEF Earned, Reviewed
  <1> QED
    BY <1>2, <1>3, <1>5, <1>6, MoveStep

\* The only step that writes an approval compares the approver with the author.
LEMMA ApproveStep ==
  ASSUME IInv, NEW r \in RuleIds, NEW a \in Actors, Approve(r, a)
  PROVE  IInv'
  <1>1. TypeOK /\ RowsAgree /\ StatusEarned
    BY DEF IInv
  <1>2. /\ "SUBMITTED" \in LifecycleStatus /\ "APPROVED" \in LifecycleStatus
        /\ "APPROVED" \in AuditAction
    BY DEF LifecycleStatus, AuditAction
  <1>3. /\ Move(r, "SUBMITTED", "APPROVED")
        /\ Latest(r).author # a
        /\ approval' = [approval EXCEPT ![r][rule[r].current] = a]
        /\ Log(r, rule[r].current, "APPROVED")
        /\ UNCHANGED <<submission, simulated>>
    BY DEF Approve
  <1>4. /\ rule[r].current \in Versions
        /\ version[r][rule[r].current].status = "SUBMITTED"
        /\ version'[r][rule[r].current].status = "APPROVED"
        /\ version'[r][rule[r].current].author = version[r][rule[r].current].author
    BY <1>1, <1>2, <1>3, MoveRows
  <1>5. RecordsKept(r)
    BY <1>1, <1>2, <1>3, <1>4, LogTypeOK, RecordStep
  <1>6. \A w \in Versions : w = rule[r].current => Earned(r, w)'
    <2>1. approval'[r][rule[r].current] = a /\ a # Null
      BY <1>1, <1>3, <1>4, RolesAssumption DEF TypeOK
    <2>2. version'[r][rule[r].current].author # a
      BY <1>3, <1>4 DEF Latest
    <2>3. /\ rule[r].current \in simulated'[r]
          /\ submission'[r][rule[r].current] # Null
      BY <1>1, <1>3, <1>4 DEF StatusEarned, Earned
    <2> QED
      BY <1>4, <2>1, <2>2, <2>3 DEF Earned, Reviewed
  <1> QED
    BY <1>2, <1>3, <1>5, <1>6, MoveStep

LEMMA DisableStep ==
  ASSUME IInv, NEW r \in RuleIds, NEW a \in Actors, Disable(r, a)
  PROVE  IInv'
  <1>1. TypeOK /\ RowsAgree /\ StatusEarned
    BY DEF IInv
  <1>2. /\ "ACTIVE" \in LifecycleStatus /\ "DISABLED" \in LifecycleStatus
        /\ "DISABLED" \in AuditAction
    BY DEF LifecycleStatus, AuditAction
  <1>3. /\ Move(r, "ACTIVE", "DISABLED")
        /\ Log(r, rule[r].current, "DISABLED")
        /\ UNCHANGED <<submission, approval, simulated>>
    BY DEF Disable
  <1>4. /\ rule[r].current \in Versions
        /\ version[r][rule[r].current].status = "ACTIVE"
        /\ version'[r][rule[r].current].status = "DISABLED"
        /\ version'[r][rule[r].current].author = version[r][rule[r].current].author
    BY <1>1, <1>2, <1>3, MoveRows
  <1>5. RecordsKept(r)
    BY <1>1, <1>2, <1>3, <1>4, LogTypeOK, RecordStep
  <1>6. \A w \in Versions : w = rule[r].current => Earned(r, w)'
    BY <1>1, <1>3, <1>4 DEF StatusEarned, Earned, Reviewed
  <1> QED
    BY <1>2, <1>3, <1>5, <1>6, MoveStep

-----------------------------------------------------------------------------
(* The theorems *)

LEMMA Inductive == IInv /\ [Next]_vars => IInv'
  <1> SUFFICES ASSUME IInv, [Next]_vars
               PROVE  IInv'
    OBVIOUS
  <1>1. ASSUME NEW r \in RuleIds, NEW a \in Actors, NEW d \in Definitions, Create(r, a, d)
        PROVE  IInv'
    BY <1>1, CreateStep
  <1>2. ASSUME NEW r \in RuleIds, NEW a \in Actors, NEW s \in RuleIds, Duplicate(s, r, a)
        PROVE  IInv'
    BY <1>2, DuplicateStep
  <1>3. ASSUME NEW r \in RuleIds, NEW a \in Actors, NEW d \in Definitions, Update(r, a, d)
        PROVE  IInv'
    BY <1>3, UpdateStep
  <1>4. ASSUME NEW r \in RuleIds, NEW a \in Actors, NEW target \in Versions,
               Rollback(r, a, target)
        PROVE  IInv'
    BY <1>4, RollbackStep
  <1>5. ASSUME NEW r \in RuleIds, NEW a \in Actors, Validate(r, a) PROVE IInv'
    BY <1>5, ValidateStep
  <1>6. ASSUME NEW r \in RuleIds, NEW a \in Actors, Simulate(r, a) PROVE IInv'
    BY <1>6, SimulateStep
  <1>7. ASSUME NEW r \in RuleIds, NEW a \in Actors, Submit(r, a) PROVE IInv'
    BY <1>7, SubmitStep
  <1>8. ASSUME NEW r \in RuleIds, NEW a \in Actors, Approve(r, a) PROVE IInv'
    BY <1>8, ApproveStep
  <1>9. ASSUME NEW r \in RuleIds, NEW a \in Actors, Publish(r, a) PROVE IInv'
    BY <1>9, PublishStep
  <1>10. ASSUME NEW r \in RuleIds, NEW a \in Actors, Disable(r, a) PROVE IInv'
    BY <1>10, DisableStep
  <1>11. CASE UNCHANGED vars
    BY <1>11 DEF vars, IInv, TypeOK, RowsAgree, Exists, Latest, SingleActive, StatusEarned,
                 Earned, NoHalfPublication, PersistedAreValid
  <1> QED
    BY <1>1, <1>2, <1>3, <1>4, <1>5, <1>6, <1>7, <1>8, <1>9, <1>10, <1>11 DEF Next

\* Every reachable state of the Rule Studio satisfies the inductive invariant.
THEOREM Invariance == Spec => []IInv
  <1>1. Init => IInv
    BY InitIInv
  <1>2. IInv /\ [Next]_vars => IInv'
    BY Inductive
  <1> QED
    BY <1>1, <1>2, PTL DEF Spec

\* Rows, records and audit trail always have their types: no request writes to a
\* version that does not exist.
THEOREM TypeCorrect == Spec => []TypeOK
  <1>1. IInv => TypeOK
    BY DEF IInv
  <1> QED
    BY <1>1, Invariance, PTL

\* At most one version of a rule is ACTIVE, and it is the one the rule points to.
THEOREM OneActiveVersion == Spec => []SingleActive
  <1>1. IInv => SingleActive
    BY DEF IInv
  <1> QED
    BY <1>1, Invariance, PTL

\* rules and rule_versions always tell the same story.
THEOREM TablesAgree == Spec => []RowsAgree
  <1>1. IInv => RowsAgree
    BY DEF IInv
  <1> QED
    BY <1>1, Invariance, PTL

\* Rollbacks included, every stored document is one validate_rule_definition accepts.
THEOREM StoredDocumentsAreValid == Spec => []PersistedAreValid
  <1>1. IInv => PersistedAreValid
    BY DEF IInv
  <1> QED
    BY <1>1, Invariance, PTL

\* No version reaches the engine but simulated, submitted and approved by somebody
\* who did not write it.
THEOREM ProductionIsGoverned == Spec => []ServedIsGoverned
  <1>1. IInv => ServedIsGoverned
    <2> SUFFICES ASSUME IInv, NEW r \in RuleIds, NEW v \in Served(r)
                 PROVE  /\ v \in simulated[r]
                        /\ submission[r][v] # Null
                        /\ approval[r][v] \notin {Null, version[r][v].author}
      BY DEF ServedIsGoverned
    <2>1. v \in Versions /\ version[r][v].status = "ACTIVE"
      BY DEF Served
    <2>2. Earned(r, v)
      BY <2>1 DEF IInv, StatusEarned
    <2> QED
      BY <2>1, <2>2 DEF Earned, Reviewed
  <1> QED
    BY <1>1, Invariance, PTL

-----------------------------------------------------------------------------
(* What a step may do to the rows *)

\* A step drafts a version that did not exist, of a rule that is not under
\* review, or moves the latest version one status on, or publishes it.
StepOn(r) ==
    /\ \/ \E v \in Versions, a \in Actors, d \in ValidDefinitions, action \in AuditAction :
             /\ rule[r].status \notin InReview
             /\ version[r][v].status = "ABSENT"
             /\ PersistDraft(r, v, a, d, action)
       \/ \E from, to \in LifecycleStatus : to # "ACTIVE" /\ Move(r, from, to)
       \/ \E a \in Actors : Publish(r, a)
    /\ \A s \in RuleIds \ {r} : audit'[s] = audit[s]

LEMMA NewVersionIsAbsent ==
  ASSUME TypeOK, RowsAgree, NEW r \in RuleIds, NEW v \in Versions, v = rule[r].current + 1
  PROVE  version[r][v].status = "ABSENT"
  <1>1. v > rule[r].current
    BY RowTypes
  <1> QED
    BY <1>1 DEF RowsAgree

LEMMA AuditOfOthers ==
  ASSUME TypeOK, NEW r \in RuleIds, NEW log, audit' = [audit EXCEPT ![r] = log]
  PROVE  \A s \in RuleIds \ {r} : audit'[s] = audit[s]
  BY DEF TypeOK

LEMMA StepShape ==
  ASSUME IInv, Next
  PROVE  \E r \in RuleIds : StepOn(r)
  <1>1. TypeOK /\ RowsAgree /\ PersistedAreValid
    BY DEF IInv
  <1>2. ASSUME NEW r \in RuleIds, NEW v \in Versions, NEW a \in Actors, NEW d \in ValidDefinitions,
               NEW action \in AuditAction, v = rule[r].current + 1,
               rule[r].status \notin InReview, PersistDraft(r, v, a, d, action)
        PROVE  StepOn(r)
    <2>1. version[r][v].status = "ABSENT"
      BY <1>1, <1>2, NewVersionIsAbsent
    <2>2. \A s \in RuleIds \ {r} : audit'[s] = audit[s]
      BY <1>1, <1>2, AuditOfOthers DEF PersistDraft, Log
    <2> QED
      BY <1>2, <2>1, <2>2 DEF StepOn
  <1>3. ASSUME NEW r \in RuleIds, NEW from \in LifecycleStatus, NEW to \in LifecycleStatus,
               to # "ACTIVE", Move(r, from, to),
               NEW log, audit' = [audit EXCEPT ![r] = log]
        PROVE  StepOn(r)
    BY <1>1, <1>3, AuditOfOthers DEF StepOn
  <1>4. ASSUME NEW r \in RuleIds, NEW a \in Actors, NEW d \in Definitions, Create(r, a, d)
        PROVE  StepOn(r)
    <2>1. 1 \in Versions /\ 1 = rule[r].current + 1 /\ rule[r].status \notin InReview
      BY <1>1, <1>4, FirstVersion DEF Create
    <2> QED
      BY <1>2, <1>4, <2>1 DEF Create, AuditAction
  <1>5. ASSUME NEW r \in RuleIds, NEW a \in Actors, NEW s \in RuleIds, Duplicate(s, r, a)
        PROVE  StepOn(r)
    <2>1. 1 \in Versions /\ 1 = rule[r].current + 1 /\ rule[r].status \notin InReview
      BY <1>1, <1>5, FirstVersion DEF Duplicate
    <2> QED
      BY <1>2, <1>5, <2>1 DEF Duplicate, AuditAction
  <1>6. ASSUME NEW r \in RuleIds, NEW a \in Actors, NEW d \in Definitions, Update(r, a, d)
        PROVE  StepOn(r)
    <2>1. rule[r].current + 1 \in Versions
      BY <1>1, <1>6, LatestRow DEF Update
    <2> QED
      BY <1>2, <1>6, <2>1 DEF Update, AuditAction
  <1>7. ASSUME NEW r \in RuleIds, NEW a \in Actors, NEW target \in Versions,
               Rollback(r, a, target)
        PROVE  StepOn(r)
    <2>1. rule[r].current + 1 \in Versions
      BY <1>1, <1>7, LatestRow DEF Rollback
    <2>2. version[r][target].definition \in ValidDefinitions
      BY <1>1, <1>7 DEF Rollback, PersistedAreValid
    <2> QED
      BY <1>2, <1>7, <2>1, <2>2 DEF Rollback, AuditAction
  <1>8. ASSUME NEW r \in RuleIds, NEW a \in Actors,
               \/ Validate(r, a) \/ Simulate(r, a) \/ Submit(r, a)
               \/ Approve(r, a) \/ Disable(r, a)
        PROVE  StepOn(r)
    <2>1. PICK log : audit' = [audit EXCEPT ![r] = log]
      BY <1>8 DEF Validate, Simulate, Submit, Approve, Disable, Log
    <2>2. PICK from \in LifecycleStatus, to \in LifecycleStatus : to # "ACTIVE" /\ Move(r, from, to)
      BY <1>8 DEF Validate, Simulate, Submit, Approve, Disable, LifecycleStatus
    <2> QED
      BY <1>3, <2>1, <2>2
  <1>9. ASSUME NEW r \in RuleIds, NEW a \in Actors, Publish(r, a)
        PROVE  StepOn(r)
    <2>1. \A s \in RuleIds \ {r} : audit'[s] = audit[s]
      BY <1>1, <1>9, AuditOfOthers DEF Publish
    <2> QED
      BY <1>9, <2>1 DEF StepOn
  <1> QED
    BY <1>4, <1>5, <1>6, <1>7, <1>8, <1>9 DEF Next

LEMMA StepEffect ==
  ASSUME IInv, NEW r \in RuleIds, StepOn(r)
  PROVE  /\ \A s \in RuleIds \ {r} : /\ rule'[s] = rule[s]
                                     /\ version'[s] = version[s]
                                     /\ audit'[s] = audit[s]
         /\ rule[r].status \in InReview =>
               /\ rule'[r].current = rule[r].current
               /\ \A w \in Versions : /\ version'[r][w].definition = version[r][w].definition
                                      /\ version'[r][w].author = version[r][w].author
         /\ \A w \in Versions : version'[r][w].status = "ACTIVE" =>
               version[r][w].status \in {"ACTIVE", "APPROVED"}
  <1>1. TypeOK /\ RowsAgree
    BY DEF IInv
  <1>2. ASSUME NEW v \in Versions, NEW a \in Actors, NEW d \in ValidDefinitions,
               NEW action \in AuditAction, rule[r].status \notin InReview,
               version[r][v].status = "ABSENT", PersistDraft(r, v, a, d, action)
        PROVE  /\ \A s \in RuleIds \ {r} : rule'[s] = rule[s] /\ version'[s] = version[s]
               /\ \A w \in Versions : version'[r][w].status = "ACTIVE" =>
                     version[r][w].status \in {"ACTIVE", "APPROVED"}
    <2>1. d \in Definitions \cup {Null}
      BY DefinitionsAssumption
    <2>2. /\ \A s \in RuleIds \ {r} : rule'[s] = rule[s] /\ version'[s] = version[s]
          /\ version'[r][v] = [status |-> "DRAFT", author |-> a, definition |-> d]
          /\ \A w \in Versions \ {v} : version'[r][w] = version[r][w]
      BY <1>1, <1>2, <2>1, DraftRows
    <2> QED
      BY <2>2
  <1>3. ASSUME NEW from \in LifecycleStatus, NEW to \in LifecycleStatus, to # "ACTIVE",
               Move(r, from, to)
        PROVE  /\ \A s \in RuleIds \ {r} : rule'[s] = rule[s] /\ version'[s] = version[s]
               /\ rule'[r].current = rule[r].current
               /\ \A w \in Versions : /\ version'[r][w].definition = version[r][w].definition
                                      /\ version'[r][w].author = version[r][w].author
               /\ \A w \in Versions : version'[r][w].status = "ACTIVE" =>
                     version[r][w].status \in {"ACTIVE", "APPROVED"}
    <2>1. PICK cur \in Versions :
             /\ rule'[r].current = rule[r].current
             /\ \A s \in RuleIds \ {r} : rule'[s] = rule[s] /\ version'[s] = version[s]
             /\ version'[r][cur].status = to
             /\ version'[r][cur].author = version[r][cur].author
             /\ version'[r][cur].definition = version[r][cur].definition
             /\ \A w \in Versions \ {cur} : version'[r][w] = version[r][w]
      BY <1>1, <1>3, MoveRows
    <2> QED
      BY <1>3, <2>1
  <1>4. ASSUME NEW a \in Actors, Publish(r, a)
        PROVE  /\ \A s \in RuleIds \ {r} : rule'[s] = rule[s] /\ version'[s] = version[s]
               /\ rule'[r].current = rule[r].current
               /\ \A w \in Versions : /\ version'[r][w].definition = version[r][w].definition
                                      /\ version'[r][w].author = version[r][w].author
               /\ \A w \in Versions : version'[r][w].status = "ACTIVE" =>
                     version[r][w].status \in {"ACTIVE", "APPROVED"}
    <2>1. PICK cur \in Versions :
             /\ rule'[r].current = rule[r].current
             /\ \A s \in RuleIds \ {r} : rule'[s] = rule[s] /\ version'[s] = version[s]
             /\ version[r][cur].status = "APPROVED"
             /\ \A w \in Versions :
                   /\ version'[r][w].status =
                         IF w = cur THEN "ACTIVE"
                         ELSE IF version[r][w].status = "ACTIVE" THEN "RETIRED"
                         ELSE version[r][w].status
                   /\ version'[r][w].author = version[r][w].author
                   /\ version'[r][w].definition = version[r][w].definition
      BY <1>1, <1>4, PublishRows
    <2>2. \A w \in Versions : version'[r][w].status = "ACTIVE" =>
             version[r][w].status \in {"ACTIVE", "APPROVED"}
      <3> TAKE w \in Versions
      <3>1. CASE w = cur
        BY <2>1, <3>1
      <3>2. CASE w # cur
        BY <2>1, <3>2
      <3> QED
        BY <3>1, <3>2
    <2> QED
      BY <2>1, <2>2
  <1> QED
    BY <1>2, <1>3, <1>4 DEF StepOn

\* From submission to publication nobody can change what is under review.
THEOREM ReviewIsProtected == Spec => ReviewIsOfOneVersion
  <1>1. IInv /\ [Next]_vars =>
           [\A r \in RuleIds : rule[r].status \in InReview =>
               /\ rule'[r].current = rule[r].current
               /\ \A v \in Versions : /\ version'[r][v].definition = version[r][v].definition
                                      /\ version'[r][v].author = version[r][v].author]_vars
    BY StepShape, StepEffect
  <1> QED
    BY <1>1, Invariance, PTL DEF Spec, ReviewIsOfOneVersion

\* Rules do not interfere.
THEOREM OneRuleAtATime == Spec => RulesAreIndependent
  <1>1. IInv /\ [Next]_vars =>
           [\A r, s \in RuleIds :
               (rule'[r] # rule[r] \/ version'[r] # version[r]) /\ s # r =>
                   /\ rule'[s] = rule[s]
                   /\ version'[s] = version[s]
                   /\ audit'[s] = audit[s]]_vars
    BY StepShape, StepEffect
  <1> QED
    BY <1>1, Invariance, PTL DEF Spec, RulesAreIndependent

HIDE DEF Versions

-----------------------------------------------------------------------------
(* The audit trail: replaying it gives the status of every version *)

LEMMA NatWF == IsWellFoundedOn({ss \in Nat \X Nat : ss[1] < ss[2]}, Nat)
  BY NatLessThanWellFounded DEF OpToRel

\* A set of numbers that holds 0 and the successor of each of its elements holds all.
LEMMA Induction ==
  ASSUME NEW T \in SUBSET Nat, 0 \in T, \A n \in T : n + 1 \in T
  PROVE  T = Nat
  <1> DEFINE Before == {ss \in Nat \X Nat : ss[1] < ss[2]}
             Rest == Nat \ T
  <1> SUFFICES ASSUME Rest # {} PROVE FALSE
    OBVIOUS
  <1>1. PICK m \in Rest : \A n \in Rest : <<n, m>> \notin Before
    <2>1. IsWellFoundedOn(Before, Nat)
      BY NatWF
    <2>2. Rest \subseteq Nat
      OBVIOUS
    <2> HIDE DEF Before, Rest
    <2> QED
      BY <2>1, <2>2, WFMin
  <1>2. m \in Nat /\ m # 0
    OBVIOUS
  <1>3. m - 1 \in Nat /\ m - 1 < m
    BY <1>2
  <1>4. m - 1 \notin Rest
    BY <1>1, <1>2, <1>3
  <1>5. m - 1 \in T /\ (m - 1) + 1 = m
    BY <1>2, <1>3, <1>4
  <1> QED
    BY <1>5

\* What a reading of the rows up to the n-th is.
IsReading(log, n, g) ==
    g = [i \in 0..n |-> IF i = 0 THEN [v \in Versions |-> "ABSENT"] ELSE ReadRow(g[i - 1], log[i])]

\* Any number of rows can be read.
LEMMA ReadingsExist ==
  ASSUME NEW log
  PROVE  \A n \in Nat : \E g : IsReading(log, n, g)
  <1> DEFINE T == {n \in Nat : \E g : IsReading(log, n, g)}
  <1>1. 0 \in T
    <2> DEFINE g == [i \in 0..0 |-> [v \in Versions |-> "ABSENT"]]
    <2>1. IsReading(log, 0, g)
      BY DEF IsReading
    <2> QED
      BY <2>1
  <1>2. ASSUME NEW n \in T
        PROVE  n + 1 \in T
    <2>1. n \in Nat
      OBVIOUS
    <2>2. PICK g : IsReading(log, n, g)
      OBVIOUS
    <2> DEFINE h == [i \in 0..(n + 1) |-> IF i = n + 1 THEN ReadRow(g[n], log[n + 1]) ELSE g[i]]
    <2> HIDE DEF T
    <2>3. \A i \in 0..n : h[i] = g[i]
      BY <2>1
    <2>4. h[n + 1] = ReadRow(h[n], log[n + 1])
      BY <2>1, <2>3
    <2>5. \A i \in 0..n : g[i] = IF i = 0 THEN [v \in Versions |-> "ABSENT"]
                                 ELSE ReadRow(g[i - 1], log[i])
      BY <2>1, <2>2 DEF IsReading
    <2>6. \A i \in 0..(n + 1) : h[i] = IF i = 0 THEN [v \in Versions |-> "ABSENT"]
                                       ELSE ReadRow(h[i - 1], log[i])
      <3> TAKE i \in 0..(n + 1)
      <3>1. CASE i = n + 1
        BY <2>1, <2>4, <3>1
      <3>2. CASE i \in 0..n
        <4> HIDE DEF h
        <4>1. i # 0 => i - 1 \in 0..n
          BY <2>1, <3>2
        <4>2. h[i] = g[i] /\ (i # 0 => h[i - 1] = g[i - 1])
          BY <2>3, <3>2, <4>1
        <4> QED
          BY <2>5, <3>2, <4>2
      <3> QED
        BY <2>1, <3>1, <3>2
    <2>7. IsReading(log, n + 1, h)
      <3> HIDE DEF h
      <3>1. h = [i \in 0..(n + 1) |-> h[i]]
        BY DEF h
      <3> QED
        BY <2>6, <3>1 DEF IsReading
    <2> QED
      BY <2>1, <2>7 DEF T
  <1>3. T = Nat
    <2>1. T \subseteq Nat
      OBVIOUS
    <2> HIDE DEF T
    <2> QED
      BY <1>1, <1>2, <2>1, Induction
  <1> QED
    BY <1>3

\* Reading is well defined ...
LEMMA ReadingIs ==
  ASSUME NEW log, Len(log) \in Nat
  PROVE  IsReading(log, Len(log), Reading(log))
  <1>1. \E g : IsReading(log, Len(log), g)
    BY ReadingsExist
  <1> QED
    BY <1>1 DEF IsReading, Reading
\* ... and what it gives after n rows depends on these rows only.
LEMMA ReadingsAgree ==
  ASSUME NEW log, NEW other, NEW m \in Nat, NEW n \in Nat, m <= n,
         NEW g, IsReading(log, m, g), NEW h, IsReading(other, n, h),
         \A i \in 1..m : other[i] = log[i]
  PROVE  \A i \in 0..m : h[i] = g[i]
  <1> DEFINE T == {i \in Nat : i <= m => h[i] = g[i]}
  <1>1. 0 \in T
    BY DEF IsReading
  <1>2. ASSUME NEW i \in T
        PROVE  i + 1 \in T
    <2>1. i \in Nat /\ (i <= m => h[i] = g[i])
      OBVIOUS
    <2>2. CASE i + 1 <= m
      <3>1. g[i + 1] = ReadRow(g[i], log[i + 1])
        BY <2>1, <2>2 DEF IsReading
      <3>2. h[i + 1] = ReadRow(h[i], other[i + 1])
        BY <2>1, <2>2 DEF IsReading
      <3>3. i + 1 \in 1..m /\ i <= m
        BY <2>1, <2>2
      <3> QED
        BY <2>1, <3>1, <3>2, <3>3
    <2> QED
      BY <2>1, <2>2
  <1>3. T = Nat
    <2>1. T \subseteq Nat
      OBVIOUS
    <2> HIDE DEF T
    <2> QED
      BY <1>1, <1>2, <2>1, Induction
  <1> QED
    BY <1>3

LEMMA ReplayEmpty == Replay(<<>>) = [v \in Versions |-> "ABSENT"]
  <1>1. IsReading(<<>>, 0, Reading(<<>>))
    BY ReadingIs
  <1> QED
    BY <1>1 DEF IsReading, Replay

\* One more row is read after the others.
LEMMA ReplayAppend ==
  ASSUME NEW S, NEW log \in Seq(S), NEW row \in S
  PROVE  Replay(Append(log, row)) = ReadRow(Replay(log), row)
  <1> DEFINE n == Len(log)
             longer == Append(log, row)
  <1>1. /\ n \in Nat
        /\ Len(longer) = n + 1
        /\ longer[n + 1] = row
        /\ \A i \in 1..n : longer[i] = log[i]
    OBVIOUS
  <1> HIDE DEF n, longer
  <1>2. IsReading(log, n, Reading(log))
    BY <1>1, ReadingIs DEF n
  <1>3. IsReading(longer, n + 1, Reading(longer))
    BY <1>1, ReadingIs
  <1>4. Reading(longer)[n] = Reading(log)[n]
    BY <1>1, <1>2, <1>3, ReadingsAgree
  <1>5. Reading(longer)[n + 1] = ReadRow(Reading(longer)[n], longer[n + 1])
    BY <1>1, <1>3 DEF IsReading
  <1> QED
    BY <1>1, <1>4, <1>5 DEF Replay, n, longer

LEMMA ReplayTwice ==
  ASSUME NEW S, NEW log \in Seq(S), NEW first \in S, NEW second \in S
  PROVE  Replay(Append(Append(log, first), second)) =
             ReadRow(ReadRow(Replay(log), first), second)
  <1>1. Append(log, first) \in Seq(S)
    OBVIOUS
  <1> QED
    BY <1>1, ReplayAppend
\* A row that is not an activation tells the new status of its version.
LEMMA OneRowTold ==
  ASSUME TypeOK, AuditReplaysToState, NEW r \in RuleIds, NEW v \in Versions,
         NEW action \in AuditAction \ {"ACTIVATED"}, Log(r, v, action),
         \A s \in RuleIds \ {r} : version'[s] = version[s],
         version'[r][v].status = StatusAfter[action],
         \A w \in Versions \ {v} : version'[r][w] = version[r][w]
  PROVE  AuditReplaysToState'
  <1> DEFINE row == [version |-> v, action |-> action]
  <1>1. row \in AuditRow /\ audit[r] \in Seq(AuditRow)
    BY DEF AuditRow, TypeOK
  <1>2. audit' = [audit EXCEPT ![r] = Append(audit[r], row)]
    BY DEF Log
  <1>3. audit'[r] = Append(audit[r], row) /\ \A s \in RuleIds \ {r} : audit'[s] = audit[s]
    BY <1>2, AuditOfOthers DEF TypeOK
  <1>4. Replay(audit'[r]) = ReadRow(Replay(audit[r]), row)
    BY <1>1, <1>3, ReplayAppend
  <1>5. \A w \in Versions : Replay(audit'[r])[w] = IF w = v THEN StatusAfter[action]
                                                    ELSE Replay(audit[r])[w]
    BY <1>4 DEF ReadRow
  <1>6. ASSUME NEW s \in RuleIds, NEW w \in Versions
        PROVE  Replay(audit'[s])[w] = version'[s][w].status
    <2>1. Replay(audit[s])[w] = version[s][w].status
      BY DEF AuditReplaysToState
    <2>2. CASE s = r
      BY <1>5, <2>1, <2>2
    <2>3. CASE s # r
      BY <1>3, <2>1, <2>3
    <2> QED
      BY <2>2, <2>3
  <1> QED
    BY <1>6 DEF AuditReplaysToState

LEMMA DraftIsTold ==
  ASSUME TypeOK, AuditReplaysToState, NEW r \in RuleIds, NEW v \in Versions, NEW a \in Actors,
         NEW d \in Definitions \cup {Null}, NEW action \in {"CREATED", "UPDATED", "ROLLED_BACK"},
         PersistDraft(r, v, a, d, action)
  PROVE  AuditReplaysToState'
  <1>1. Log(r, v, action) /\ action \in AuditAction /\ action # "ACTIVATED"
    BY DEF PersistDraft, AuditAction
  <1>2. StatusAfter[action] = "DRAFT"
    BY DEF StatusAfter
  <1>3. /\ \A s \in RuleIds \ {r} : version'[s] = version[s]
        /\ version'[r][v] = [status |-> "DRAFT", author |-> a, definition |-> d]
        /\ \A w \in Versions \ {v} : version'[r][w] = version[r][w]
    BY <1>1, DraftRows
  <1>4. version'[r][v].status = "DRAFT"
    BY <1>3
  <1> QED
    BY <1>1, <1>2, <1>3, <1>4, OneRowTold

LEMMA MoveIsTold ==
  ASSUME TypeOK, RowsAgree, AuditReplaysToState, NEW r \in RuleIds,
         NEW from \in LifecycleStatus, NEW to \in LifecycleStatus, Move(r, from, to),
         NEW action \in {"VALIDATED", "SUBMITTED", "APPROVED", "DISABLED"}, to = action,
         Log(r, rule[r].current, action)
  PROVE  AuditReplaysToState'
  <1>1. StatusAfter[action] = to /\ action \in AuditAction \ {"ACTIVATED"}
    BY DEF StatusAfter, AuditAction
  <1> QED
    BY <1>1, MoveRows, OneRowTold

\* A simulation is told twice, by the simulation and by the transition.
LEMMA SimulationIsTold ==
  ASSUME TypeOK, RowsAgree, AuditReplaysToState, NEW r \in RuleIds, NEW a \in Actors,
         Simulate(r, a)
  PROVE  AuditReplaysToState'
  <1> DEFINE v == rule[r].current
             row == [version |-> v, action |-> "SIMULATED"]
  <1>1. /\ v \in Versions
        /\ \A s \in RuleIds \ {r} : version'[s] = version[s]
        /\ version'[r][v].status = "SIMULATED"
        /\ \A w \in Versions \ {v} : version'[r][w] = version[r][w]
    BY MoveRows DEF Simulate, LifecycleStatus
  <1>2. row \in AuditRow /\ audit[r] \in Seq(AuditRow)
    BY <1>1 DEF AuditRow, AuditAction, TypeOK
  <1>3. audit' = [audit EXCEPT ![r] = Append(Append(audit[r], row), row)]
    BY DEF Simulate
  <1>4. audit'[r] = Append(Append(audit[r], row), row)
        /\ \A s \in RuleIds \ {r} : audit'[s] = audit[s]
    BY <1>3, AuditOfOthers DEF TypeOK
  <1>5. Replay(audit'[r]) = ReadRow(ReadRow(Replay(audit[r]), row), row)
    BY <1>2, <1>4, ReplayTwice
  <1>6. \A w \in Versions : Replay(audit'[r])[w] = IF w = v THEN "SIMULATED"
                                                    ELSE Replay(audit[r])[w]
    BY <1>5 DEF ReadRow, StatusAfter
  <1>7. ASSUME NEW s \in RuleIds, NEW w \in Versions
        PROVE  Replay(audit'[s])[w] = version'[s][w].status
    <2>1. Replay(audit[s])[w] = version[s][w].status
      BY DEF AuditReplaysToState
    <2>2. CASE s = r
      BY <1>1, <1>6, <2>1, <2>2
    <2>3. CASE s # r
      BY <1>1, <1>4, <2>1, <2>3
    <2> QED
      BY <2>2, <2>3
  <1> QED
    BY <1>7 DEF AuditReplaysToState

\* The activation tells which version it retired without naming it.
LEMMA PublicationIsTold ==
  ASSUME TypeOK, RowsAgree, AuditReplaysToState, NEW r \in RuleIds, NEW a \in Actors,
         Publish(r, a)
  PROVE  AuditReplaysToState'
  <1> DEFINE v == rule[r].current
             first == [version |-> v, action |-> "PUBLISHED"]
             second == [version |-> v, action |-> "ACTIVATED"]
  <1>1. /\ v \in Versions
        /\ \A s \in RuleIds \ {r} : version'[s] = version[s]
        /\ \A w \in Versions :
               version'[r][w].status = IF w = v THEN "ACTIVE"
                                       ELSE IF version[r][w].status = "ACTIVE" THEN "RETIRED"
                                       ELSE version[r][w].status
    BY PublishRows
  <1>2. first \in AuditRow /\ second \in AuditRow /\ audit[r] \in Seq(AuditRow)
    BY <1>1 DEF AuditRow, AuditAction, TypeOK
  <1>3. audit' = [audit EXCEPT ![r] = Append(Append(audit[r], first), second)]
    BY DEF Publish
  <1>4. audit'[r] = Append(Append(audit[r], first), second)
        /\ \A s \in RuleIds \ {r} : audit'[s] = audit[s]
    BY <1>3, AuditOfOthers DEF TypeOK
  <1>5. Replay(audit'[r]) = ReadRow(ReadRow(Replay(audit[r]), first), second)
    BY <1>2, <1>4, ReplayTwice
  <1>6. \A w \in Versions :
            ReadRow(Replay(audit[r]), first)[w] = IF w = v THEN "PUBLISHED" ELSE Replay(audit[r])[w]
    BY DEF ReadRow, StatusAfter
  <1>7. \A w \in Versions :
            Replay(audit'[r])[w] = IF w = v THEN "ACTIVE"
                                   ELSE IF Replay(audit[r])[w] = "ACTIVE" THEN "RETIRED"
                                   ELSE Replay(audit[r])[w]
    BY <1>5, <1>6 DEF ReadRow, StatusAfter
  <1>8. ASSUME NEW s \in RuleIds, NEW w \in Versions
        PROVE  Replay(audit'[s])[w] = version'[s][w].status
    <2>1. Replay(audit[s])[w] = version[s][w].status
      BY DEF AuditReplaysToState
    <2>2. CASE s = r
      BY <1>1, <1>7, <2>1, <2>2
    <2>3. CASE s # r
      BY <1>1, <1>4, <2>1, <2>3
    <2> QED
      BY <2>2, <2>3
  <1> QED
    BY <1>8 DEF AuditReplaysToState

LEMMA TrailStep == IInv /\ AuditReplaysToState /\ [Next]_vars => AuditReplaysToState'
  <1> SUFFICES ASSUME IInv, AuditReplaysToState, [Next]_vars
               PROVE  AuditReplaysToState'
    OBVIOUS
  <1>1. TypeOK /\ RowsAgree
    BY DEF IInv
  <1>2. ASSUME NEW r \in RuleIds, NEW a \in Actors, NEW d \in Definitions,
               Create(r, a, d) \/ Update(r, a, d)
        PROVE  AuditReplaysToState'
    <2>1. CASE Create(r, a, d)
      BY <1>1, <2>1, FirstVersion, DraftIsTold DEF Create
    <2>2. CASE Update(r, a, d)
      BY <1>1, <2>2, LatestRow, DraftIsTold DEF Update
    <2> QED
      BY <1>2, <2>1, <2>2
  <1>3. ASSUME NEW r \in RuleIds, NEW a \in Actors, NEW s \in RuleIds, Duplicate(s, r, a)
        PROVE  AuditReplaysToState'
    <2>1. Latest(s).definition \in Definitions
      BY <1>3, DefinitionsAssumption DEF Duplicate
    <2> QED
      BY <1>1, <1>3, <2>1, FirstVersion, DraftIsTold DEF Duplicate
  <1>4. ASSUME NEW r \in RuleIds, NEW a \in Actors, NEW target \in Versions, Rollback(r, a, target)
        PROVE  AuditReplaysToState'
    <2>1. version[r][target].definition \in Definitions \cup {Null}
      BY <1>1, RowTypes DEF VersionRow
    <2> QED
      BY <1>1, <1>4, <2>1, LatestRow, DraftIsTold DEF Rollback
  <1>5. ASSUME NEW r \in RuleIds, NEW a \in Actors,
               Validate(r, a) \/ Submit(r, a) \/ Approve(r, a) \/ Disable(r, a)
        PROVE  AuditReplaysToState'
    BY <1>1, <1>5, MoveIsTold DEF Validate, Submit, Approve, Disable, LifecycleStatus
  <1>6. ASSUME NEW r \in RuleIds, NEW a \in Actors, Simulate(r, a) \/ Publish(r, a)
        PROVE  AuditReplaysToState'
    BY <1>1, <1>6, SimulationIsTold, PublicationIsTold
  <1>7. CASE UNCHANGED vars
    BY <1>7 DEF vars, AuditReplaysToState
  <1> QED
    BY <1>2, <1>3, <1>4, <1>5, <1>6, <1>7 DEF Next

\* The audit trail is complete: what it tells is the status of every version.
THEOREM TrailTellsTheState == Spec => []AuditReplaysToState
  <1>1. Init => AuditReplaysToState
    BY ReplayEmpty DEF Init, AuditReplaysToState, AbsentVersion
  <1>2. IInv /\ AuditReplaysToState /\ [Next]_vars => AuditReplaysToState'
    BY TrailStep
  <1> QED
    BY <1>1, <1>2, Invariance, PTL DEF Spec

-----------------------------------------------------------------------------
(* What a governed release guarantees, for any number of artifacts. *)

GRInv == GRTypeOK /\ OneLive /\ FourEyes

LEMMA GRTypeStep == GRTypeOK /\ [GRNext]_grVars => GRTypeOK'
  <1> SUFFICES ASSUME GRTypeOK, [GRNext]_grVars
               PROVE  GRTypeOK'
    OBVIOUS
  <1> USE DEF GRTypeOK, Phase
  <1>1. ASSUME NEW a \in Artifacts, NEW n \in Numbers, NEW p \in People, Write(a, n, p)
        PROVE  GRTypeOK'
    BY <1>1 DEF Write
  <1>2. ASSUME NEW a \in Artifacts, NEW n \in Numbers, NEW p \in People, Review(a, n, p)
        PROVE  GRTypeOK'
    BY <1>2 DEF Review
  <1>3. ASSUME NEW a \in Artifacts, NEW n \in Numbers, Release(a, n)
        PROVE  GRTypeOK'
    <2>1. \A m \in Numbers : phase[a][m] \in Phase
      OBVIOUS
    <2> QED
      BY <1>3, <2>1 DEF Release
  <1>4. ASSUME NEW a \in Artifacts, NEW n \in Numbers, Close(a, n)
        PROVE  GRTypeOK'
    BY <1>4 DEF Close
  <1>5. CASE UNCHANGED grVars
    BY <1>5 DEF grVars
  <1> QED
    BY <1>1, <1>2, <1>3, <1>4, <1>5 DEF GRNext

LEMMA OneLiveStep == GRTypeOK /\ OneLive /\ [GRNext]_grVars => OneLive'
  <1> SUFFICES ASSUME GRTypeOK, OneLive, [GRNext]_grVars
               PROVE  OneLive'
    OBVIOUS
  <1>1. ASSUME NEW a \in Artifacts, NEW n \in Numbers, NEW p \in People, Write(a, n, p)
        PROVE  OneLive'
    BY <1>1 DEF Write, OneLive, GRTypeOK
  <1>2. ASSUME NEW a \in Artifacts, NEW n \in Numbers, NEW p \in People, Review(a, n, p)
        PROVE  OneLive'
    BY <1>2 DEF Review, OneLive, GRTypeOK
  <1>3. ASSUME NEW a \in Artifacts, NEW n \in Numbers, Release(a, n)
        PROVE  OneLive'
    <2>1. \A m \in Numbers : phase'[a][m] = "live" <=> m = n
      BY <1>3 DEF Release, GRTypeOK
    <2>2. served'[a] = {n}
      BY <1>3 DEF Release, GRTypeOK
    <2>3. \A b \in Artifacts \ {a} : phase'[b] = phase[b] /\ served'[b] = served[b]
      BY <1>3 DEF Release, GRTypeOK
    <2> QED
      BY <2>1, <2>2, <2>3 DEF OneLive
  <1>4. ASSUME NEW a \in Artifacts, NEW n \in Numbers, Close(a, n)
        PROVE  OneLive'
    BY <1>4 DEF Close, OneLive, GRTypeOK
  <1>5. CASE UNCHANGED grVars
    BY <1>5 DEF grVars, OneLive
  <1> QED
    BY <1>1, <1>2, <1>3, <1>4, <1>5 DEF GRNext

LEMMA FourEyesStep ==
    Nobody \notin People /\ GRTypeOK /\ FourEyes /\ [GRNext]_grVars => FourEyes'
  <1> SUFFICES ASSUME Nobody \notin People, GRTypeOK, FourEyes, [GRNext]_grVars
               PROVE  FourEyes'
    OBVIOUS
  <1>1. ASSUME NEW a \in Artifacts, NEW n \in Numbers, NEW p \in People, Write(a, n, p)
        PROVE  FourEyes'
    BY <1>1 DEF Write, FourEyes, GRTypeOK
  <1>2. ASSUME NEW a \in Artifacts, NEW n \in Numbers, NEW p \in People, Review(a, n, p)
        PROVE  FourEyes'
    BY <1>2 DEF Review, FourEyes, GRTypeOK
  <1>3. ASSUME NEW a \in Artifacts, NEW n \in Numbers, Release(a, n)
        PROVE  FourEyes'
    <2>1. \A m \in Numbers : phase'[a][m] \in {"reviewed", "live", "closed"} =>
              phase[a][m] \in {"reviewed", "live", "closed"}
      BY <1>3 DEF Release, GRTypeOK
    <2>2. \A b \in Artifacts \ {a} : phase'[b] = phase[b]
      BY <1>3 DEF Release, GRTypeOK
    <2>3. UNCHANGED <<author, reviewer>>
      BY <1>3 DEF Release
    <2> QED
      BY <2>1, <2>2, <2>3 DEF FourEyes
  <1>4. ASSUME NEW a \in Artifacts, NEW n \in Numbers, Close(a, n)
        PROVE  FourEyes'
    BY <1>4 DEF Close, FourEyes, GRTypeOK
  <1>5. CASE UNCHANGED grVars
    BY <1>5 DEF grVars, FourEyes
  <1> QED
    BY <1>1, <1>2, <1>3, <1>4, <1>5 DEF GRNext

\* One live version per artifact, and it was reviewed by somebody who did not write it.
THEOREM GovernedReleaseIsSafe ==
    ASSUME Nobody \notin People
    PROVE  GRSpec => [](OneLive /\ FourEyes)
  <1>1. GRInit => GRInv
    BY DEF GRInit, GRInv, GRTypeOK, Phase, OneLive, FourEyes
  <1>2. GRInv /\ [GRNext]_grVars => GRInv'
    BY GRTypeStep, OneLiveStep, FourEyesStep DEF GRInv
  <1>3. GRInv => OneLive /\ FourEyes
    BY DEF GRInv
  <1> QED
    BY <1>1, <1>2, <1>3, PTL DEF GRSpec

-----------------------------------------------------------------------------
(* The Rule Studio implements the governed release: every request is a step of it, or none *)

LEMMA PhaseValues ==
  /\ PhaseOf["ABSENT"] = "none"
  /\ \A s \in {"DRAFT", "VALIDATED", "SIMULATED", "SUBMITTED"} : PhaseOf[s] = "open"
  /\ PhaseOf["APPROVED"] = "reviewed"
  /\ PhaseOf["ACTIVE"] = "live"
  /\ \A s \in {"DISABLED", "RETIRED"} : PhaseOf[s] = "closed"
  BY DEF PhaseOf, Status, LifecycleStatus

\* An update of one entry of a table, said row by row.
LEMMA TableUpdate ==
  ASSUME NEW S, NEW F \in [RuleIds -> [Versions -> S]], NEW G \in [RuleIds -> [Versions -> S]],
         NEW r \in RuleIds, NEW v \in Versions, NEW e \in S,
         \A s \in RuleIds, w \in Versions :
             G[s][w] = IF s = r /\ w = v THEN e ELSE F[s][w]
  PROVE  G = [F EXCEPT ![r][v] = e]
  <1>1. G[r] = [F[r] EXCEPT ![v] = e]
    <2>1. G[r] \in [Versions -> S] /\ F[r] \in [Versions -> S]
      OBVIOUS
    <2>2. \A w \in Versions : G[r][w] = IF w = v THEN e ELSE F[r][w]
      OBVIOUS
    <2> QED
      BY <2>1, <2>2
  <1>2. ASSUME NEW s \in RuleIds, s # r
        PROVE  G[s] = F[s]
    <2>1. G[s] \in [Versions -> S] /\ F[s] \in [Versions -> S]
      OBVIOUS
    <2>2. \A w \in Versions : G[s][w] = F[s][w]
      BY <1>2
    <2> QED
      BY <2>1, <2>2
  <1> QED
    BY <1>1, <1>2

LEMMA PhaseType == PhaseOf \in [Status -> GR!Phase]
  BY DEF PhaseOf, Status, LifecycleStatus, GR!Phase

\* The abstract tables and their rows.
BarFacts ==
    /\ PhaseBar \in [RuleIds -> [Versions -> GR!Phase]]
    /\ AuthorBar \in [RuleIds -> [Versions -> Actors \cup {Null}]]
    /\ ServedBar \in [RuleIds -> SUBSET Versions]
    /\ \A r \in RuleIds : ServedBar[r] = Served(r)
    /\ \A r \in RuleIds, v \in Versions :
          /\ PhaseBar[r][v] = PhaseOf[version[r][v].status]
          /\ AuthorBar[r][v] = version[r][v].author

LEMMA BarRows == TypeOK => BarFacts
  <1> SUFFICES ASSUME TypeOK PROVE BarFacts
    OBVIOUS
  <1>1. ASSUME NEW r \in RuleIds, NEW v \in Versions
        PROVE  /\ version[r][v].status \in Status
               /\ version[r][v].author \in Actors \cup {Null}
    BY RowTypes DEF VersionRow
  <1>2. PhaseBar \in [RuleIds -> [Versions -> GR!Phase]]
    BY <1>1, PhaseType DEF PhaseBar
  <1>3. AuthorBar \in [RuleIds -> [Versions -> Actors \cup {Null}]]
    BY <1>1 DEF AuthorBar
  <1>4. ServedBar \in [RuleIds -> SUBSET Versions]
    BY DEF ServedBar, Served
  <1> QED
    BY <1>2, <1>3, <1>4 DEF PhaseBar, AuthorBar, ServedBar, BarFacts

LEMMA BarRowsNext == TypeOK' => BarFacts'
  BY BarRows, PTL

\* A draft is a Write.
LEMMA DraftRefines ==
  ASSUME IInv, IInv', NEW r \in RuleIds, NEW v \in Versions, v = rule[r].current + 1,
         NEW a \in Actors, NEW d \in ValidDefinitions, NEW action \in AuditAction,
         PersistDraft(r, v, a, d, action)
  PROVE  GR!Write(r, v, a)
  <1>1. TypeOK /\ TypeOK' /\ RowsAgree
    BY DEF IInv
  <1>2. d \in Definitions \cup {Null}
    BY DefinitionsAssumption
  <1>3. /\ rule'[r].status = "DRAFT"
        /\ \A s \in RuleIds \ {r} : rule'[s] = rule[s] /\ version'[s] = version[s]
        /\ version'[r][v] = [status |-> "DRAFT", author |-> a, definition |-> d]
        /\ \A w \in Versions \ {v} : version'[r][w] = version[r][w]
    BY <1>1, <1>2, DraftRows
  <1>4. BarFacts /\ BarFacts'
    BY <1>1, BarRows, BarRowsNext
  <1>5. PhaseBar[r][v] = "none"
    BY <1>1, <1>4, NewVersionIsAbsent, PhaseValues DEF BarFacts
  <1>6. ASSUME NEW s \in RuleIds, NEW w \in Versions
        PROVE  /\ PhaseBar'[s][w] = IF s = r /\ w = v THEN "open" ELSE PhaseBar[s][w]
               /\ AuthorBar'[s][w] = IF s = r /\ w = v THEN a ELSE AuthorBar[s][w]
    <2>1. /\ PhaseBar[s][w] = PhaseOf[version[s][w].status]
          /\ PhaseBar'[s][w] = PhaseOf[version'[s][w].status]
          /\ AuthorBar[s][w] = version[s][w].author
          /\ AuthorBar'[s][w] = version'[s][w].author
      BY <1>4 DEF BarFacts
    <2>2. CASE s = r /\ w = v
      BY <1>3, <2>1, <2>2, PhaseValues
    <2>3. CASE ~(s = r /\ w = v)
      <3>1. version'[s][w] = version[s][w]
        BY <1>3, <2>3
      <3> QED
        BY <2>1, <2>3, <3>1
    <2> QED
      BY <2>2, <2>3
  <1>7. PhaseBar' = [PhaseBar EXCEPT ![r][v] = "open"]
    <2>1. "open" \in GR!Phase
      BY DEF GR!Phase
    <2> QED
      BY <1>4, <1>6, <2>1, TableUpdate DEF BarFacts
  <1>8. AuthorBar' = [AuthorBar EXCEPT ![r][v] = a]
    BY <1>4, <1>6, TableUpdate DEF BarFacts
  <1>9. ServedBar' = [ServedBar EXCEPT ![r] = {}]
    <2>1. Served(r)' = {}
      BY <1>3 DEF Served
    <2>2. \A s \in RuleIds \ {r} : Served(s)' = Served(s)
      BY <1>3 DEF Served
    <2> QED
      BY <1>4, <2>1, <2>2 DEF BarFacts
  <1>10. UNCHANGED approval
    BY DEF PersistDraft
  <1> QED
    BY <1>5, <1>7, <1>8, <1>9, <1>10 DEF GR!Write

\* What a lifecycle step that does not activate is on the abstract tables.
LEMMA MoveBars ==
  ASSUME IInv, IInv', NEW r \in RuleIds, NEW from \in LifecycleStatus, NEW to \in LifecycleStatus,
         to # "ACTIVE", Move(r, from, to)
  PROVE  /\ rule[r].current \in Versions
         /\ PhaseBar[r][rule[r].current] = PhaseOf[from]
         /\ AuthorBar[r][rule[r].current] = Latest(r).author
         /\ PhaseBar' = [PhaseBar EXCEPT ![r][rule[r].current] = PhaseOf[to]]
         /\ AuthorBar' = AuthorBar
         /\ ServedBar' = [ServedBar EXCEPT ![r] = {}]
         /\ from # "ACTIVE" => ServedBar' = ServedBar
  <1>1. TypeOK /\ TypeOK' /\ RowsAgree
    BY DEF IInv
  <1>2. BarFacts /\ BarFacts'
    BY <1>1, BarRows, BarRowsNext
  <1>3. PICK cur \in Versions :
           /\ cur = rule[r].current
           /\ rule'[r].status = to
           /\ \A s \in RuleIds \ {r} : rule'[s] = rule[s] /\ version'[s] = version[s]
           /\ version[r][cur].status = from
           /\ version'[r][cur].status = to
           /\ version'[r][cur].author = version[r][cur].author
           /\ \A w \in Versions \ {cur} : version'[r][w] = version[r][w]
    BY <1>1, MoveRows
  <1>4. ASSUME NEW s \in RuleIds, NEW w \in Versions
        PROVE  /\ PhaseBar'[s][w] = IF s = r /\ w = cur THEN PhaseOf[to] ELSE PhaseBar[s][w]
               /\ AuthorBar'[s][w] = AuthorBar[s][w]
    <2>1. /\ PhaseBar[s][w] = PhaseOf[version[s][w].status]
          /\ PhaseBar'[s][w] = PhaseOf[version'[s][w].status]
          /\ AuthorBar[s][w] = version[s][w].author
          /\ AuthorBar'[s][w] = version'[s][w].author
      BY <1>2 DEF BarFacts
    <2>2. CASE s = r /\ w = cur
      BY <1>3, <2>1, <2>2
    <2>3. CASE ~(s = r /\ w = cur)
      <3>1. version'[s][w] = version[s][w]
        BY <1>3, <2>3
      <3> QED
        BY <2>1, <2>3, <3>1
    <2> QED
      BY <2>2, <2>3
  <1>5. PhaseBar' = [PhaseBar EXCEPT ![r][cur] = PhaseOf[to]]
    <2>1. PhaseOf[to] \in GR!Phase
      BY PhaseType DEF Status
    <2> QED
      BY <1>2, <1>4, <2>1, TableUpdate DEF BarFacts
  <1>6. AuthorBar' = [AuthorBar EXCEPT ![r][cur] = AuthorBar[r][cur]]
    BY <1>2, <1>4, TableUpdate DEF BarFacts
  <1>7. AuthorBar' = AuthorBar
    BY <1>2, <1>6 DEF BarFacts
  <1>8. /\ ServedBar' = [ServedBar EXCEPT ![r] = {}]
        /\ from # "ACTIVE" => ServedBar' = ServedBar
    <2>1. Served(r)' = {}
      BY <1>3 DEF Served
    <2>2. \A s \in RuleIds \ {r} : Served(s)' = Served(s)
      BY <1>3 DEF Served
    <2>3. from # "ACTIVE" => Served(r) = {}
      BY DEF Served, Move
    <2>4. ServedBar' = [ServedBar EXCEPT ![r] = {}]
      BY <1>2, <2>1, <2>2 DEF BarFacts
    <2>5. from # "ACTIVE" => ServedBar[r] = {}
      BY <1>2, <2>3 DEF BarFacts
    <2>6. from # "ACTIVE" => ServedBar' = ServedBar
      BY <1>2, <2>4, <2>5 DEF BarFacts
    <2> QED
      BY <2>4, <2>6
  <1>9. PhaseBar[r][cur] = PhaseOf[from] /\ AuthorBar[r][cur] = Latest(r).author
    BY <1>2, <1>3 DEF BarFacts, Latest
  <1> QED
    BY <1>3, <1>5, <1>7, <1>8, <1>9

\* Validation, simulation and submission are invisible.
LEMMA PreparationStutters ==
  ASSUME IInv, IInv', NEW r \in RuleIds, NEW from \in LifecycleStatus, NEW to \in LifecycleStatus,
         from # "ACTIVE", to # "ACTIVE", PhaseOf[from] = PhaseOf[to], Move(r, from, to),
         UNCHANGED approval
  PROVE  UNCHANGED GR!grVars
  <1>1. /\ rule[r].current \in Versions
        /\ PhaseBar[r][rule[r].current] = PhaseOf[from]
        /\ PhaseBar' = [PhaseBar EXCEPT ![r][rule[r].current] = PhaseOf[to]]
        /\ AuthorBar' = AuthorBar
        /\ ServedBar' = ServedBar
    BY MoveBars
  <1>2. PhaseBar \in [RuleIds -> [Versions -> GR!Phase]]
    BY BarRows DEF IInv, BarFacts
  <1>3. PhaseBar' = PhaseBar
    BY <1>1, <1>2
  <1> QED
    BY <1>1, <1>3 DEF GR!grVars

LEMMA ApproveRefines ==
  ASSUME IInv, IInv', NEW r \in RuleIds, NEW a \in Actors, Approve(r, a)
  PROVE  GR!Review(r, rule[r].current, a)
  <1>1. "SUBMITTED" \in LifecycleStatus /\ "APPROVED" \in LifecycleStatus
    BY DEF LifecycleStatus
  <1>2. /\ Move(r, "SUBMITTED", "APPROVED")
        /\ Latest(r).author # a
        /\ approval' = [approval EXCEPT ![r][rule[r].current] = a]
    BY DEF Approve
  <1>3. /\ PhaseBar[r][rule[r].current] = PhaseOf["SUBMITTED"]
        /\ AuthorBar[r][rule[r].current] = Latest(r).author
        /\ PhaseBar' = [PhaseBar EXCEPT ![r][rule[r].current] = PhaseOf["APPROVED"]]
        /\ AuthorBar' = AuthorBar
        /\ ServedBar' = ServedBar
    BY <1>1, <1>2, MoveBars
  <1> QED
    BY <1>2, <1>3, PhaseValues DEF GR!Review

LEMMA DisableRefines ==
  ASSUME IInv, IInv', NEW r \in RuleIds, NEW a \in Actors, Disable(r, a)
  PROVE  GR!Close(r, rule[r].current)
  <1>1. "ACTIVE" \in LifecycleStatus /\ "DISABLED" \in LifecycleStatus
    BY DEF LifecycleStatus
  <1>2. Move(r, "ACTIVE", "DISABLED") /\ UNCHANGED approval
    BY DEF Disable
  <1>3. /\ PhaseBar[r][rule[r].current] = PhaseOf["ACTIVE"]
        /\ PhaseBar' = [PhaseBar EXCEPT ![r][rule[r].current] = PhaseOf["DISABLED"]]
        /\ AuthorBar' = AuthorBar
        /\ ServedBar' = [ServedBar EXCEPT ![r] = {}]
    BY <1>1, <1>2, MoveBars
  <1> QED
    BY <1>2, <1>3, PhaseValues DEF GR!Close

LEMMA PublishRefines ==
  ASSUME IInv, IInv', NEW r \in RuleIds, NEW a \in Actors, Publish(r, a)
  PROVE  /\ rule[r].current \in Versions
         /\ GR!Release(r, rule[r].current)
  <1>1. TypeOK /\ TypeOK' /\ RowsAgree
    BY DEF IInv
  <1>2. BarFacts /\ BarFacts'
    BY <1>1, BarRows, BarRowsNext
  <1>3. PICK cur \in Versions :
           /\ cur = rule[r].current
           /\ rule'[r].status = "ACTIVE" /\ rule'[r].active = cur
           /\ \A s \in RuleIds \ {r} : rule'[s] = rule[s] /\ version'[s] = version[s]
           /\ version[r][cur].status = "APPROVED"
           /\ \A w \in Versions :
                 /\ version'[r][w].status =
                       IF w = cur THEN "ACTIVE"
                       ELSE IF version[r][w].status = "ACTIVE" THEN "RETIRED"
                       ELSE version[r][w].status
                 /\ version'[r][w].author = version[r][w].author
    BY <1>1, PublishRows
  <1>4. PhaseBar[r][cur] = "reviewed"
    BY <1>2, <1>3, PhaseValues DEF BarFacts
  <1>5. \A s \in RuleIds, w \in Versions : PhaseOf[version[s][w].status] = "live"
             <=> version[s][w].status = "ACTIVE"
    <2> SUFFICES ASSUME NEW s \in RuleIds, NEW w \in Versions
                 PROVE  PhaseOf[version[s][w].status] = "live" <=> version[s][w].status = "ACTIVE"
      OBVIOUS
    <2>1. version[s][w].status \in Status
      BY <1>1, RowTypes DEF VersionRow
    <2> QED
      BY <2>1 DEF PhaseOf, Status, LifecycleStatus
  <1>6. \A w \in Versions : PhaseBar'[r][w] =
            IF w = cur THEN "live"
            ELSE IF PhaseBar[r][w] = "live" THEN "closed" ELSE PhaseBar[r][w]
    <2> TAKE w \in Versions
    <2>1. /\ PhaseBar[r][w] = PhaseOf[version[r][w].status]
          /\ PhaseBar'[r][w] = PhaseOf[version'[r][w].status]
      BY <1>2 DEF BarFacts
    <2>2. CASE w = cur
      BY <1>3, <2>1, <2>2, PhaseValues
    <2>3. CASE w # cur /\ version[r][w].status = "ACTIVE"
      BY <1>3, <2>1, <2>3, PhaseValues
    <2>4. CASE w # cur /\ version[r][w].status # "ACTIVE"
      BY <1>3, <1>5, <2>1, <2>4
    <2> QED
      BY <2>2, <2>3, <2>4
  <1>7. \A s \in RuleIds \ {r} : PhaseBar'[s] = PhaseBar[s]
    BY <1>3 DEF PhaseBar
  <1>8. PhaseBar' = [PhaseBar EXCEPT ![r] = [w \in Versions |->
            IF w = cur THEN "live"
            ELSE IF PhaseBar[r][w] = "live" THEN "closed" ELSE PhaseBar[r][w]]]
    <2>1. PhaseBar'[r] = [w \in Versions |->
            IF w = cur THEN "live"
            ELSE IF PhaseBar[r][w] = "live" THEN "closed" ELSE PhaseBar[r][w]]
      <3>1. PhaseBar'[r] \in [Versions -> GR!Phase]
        BY <1>2 DEF BarFacts
      <3> QED
        BY <1>6, <3>1
    <2>2. PhaseBar \in [RuleIds -> [Versions -> GR!Phase]]
          /\ PhaseBar' \in [RuleIds -> [Versions -> GR!Phase]]
      BY <1>2 DEF BarFacts
    <2> QED
      BY <1>7, <2>1, <2>2
  <1>9. AuthorBar' = AuthorBar
    <2>1. \A s \in RuleIds, w \in Versions : version'[s][w].author = version[s][w].author
      BY <1>3
    <2> QED
      BY <2>1 DEF AuthorBar
  <1>10. ServedBar' = [ServedBar EXCEPT ![r] = {cur}]
    <2>1. Served(r)' = {cur}
      BY <1>3 DEF Served
    <2>2. \A s \in RuleIds \ {r} : Served(s)' = Served(s)
      BY <1>3 DEF Served
    <2> QED
      BY <1>2, <2>1, <2>2 DEF BarFacts
  <1>11. UNCHANGED approval
    BY DEF Publish
  <1> QED
    BY <1>3, <1>4, <1>8, <1>9, <1>10, <1>11 DEF GR!Release

LEMMA InitRefines == Init => GR!GRInit
  <1> SUFFICES ASSUME Init PROVE GR!GRInit
    OBVIOUS
  <1>1. \A r \in RuleIds, v \in Versions :
            version[r][v].status = "ABSENT" /\ version[r][v].author = Null
    BY DEF Init, AbsentVersion
  <1>2. PhaseBar = [r \in RuleIds |-> [v \in Versions |-> "none"]]
    BY <1>1, PhaseValues DEF PhaseBar
  <1>3. AuthorBar = [r \in RuleIds |-> [v \in Versions |-> Null]]
    BY <1>1 DEF AuthorBar
  <1>4. ServedBar = [r \in RuleIds |-> {}]
    <2>1. \A r \in RuleIds : Served(r) = {}
      BY <1>1 DEF Served
    <2> QED
      BY <2>1 DEF ServedBar
  <1>5. approval = [r \in RuleIds |-> [v \in Versions |-> Null]]
    BY DEF Init
  <1> QED
    BY <1>2, <1>3, <1>4, <1>5 DEF GR!GRInit

LEMMA NextRefines ==
  ASSUME IInv, IInv', Next
  PROVE  [GR!GRNext]_(GR!grVars)
  <1>1. TypeOK /\ RowsAgree /\ PersistedAreValid
    BY DEF IInv
  <1>2. ASSUME NEW r \in RuleIds, NEW v \in Versions, NEW a \in Actors,
               NEW d \in ValidDefinitions, NEW action \in AuditAction,
               v = rule[r].current + 1, PersistDraft(r, v, a, d, action)
        PROVE  GR!GRNext
    <2>1. GR!Write(r, v, a)
      BY <1>2, DraftRefines
    <2> QED
      BY <2>1 DEF GR!GRNext
  <1>3. ASSUME NEW r \in RuleIds, NEW a \in Actors, NEW d \in Definitions, Create(r, a, d)
        PROVE  GR!GRNext
    <2>1. 1 \in Versions /\ 1 = rule[r].current + 1
      BY <1>1, <1>3, FirstVersion DEF Create
    <2> QED
      BY <1>2, <1>3, <2>1 DEF Create, AuditAction
  <1>4. ASSUME NEW r \in RuleIds, NEW a \in Actors, NEW s \in RuleIds, Duplicate(s, r, a)
        PROVE  GR!GRNext
    <2>1. 1 \in Versions /\ 1 = rule[r].current + 1
      BY <1>1, <1>4, FirstVersion DEF Duplicate
    <2> QED
      BY <1>2, <1>4, <2>1 DEF Duplicate, AuditAction
  <1>5. ASSUME NEW r \in RuleIds, NEW a \in Actors, NEW d \in Definitions, Update(r, a, d)
        PROVE  GR!GRNext
    <2>1. rule[r].current + 1 \in Versions
      BY <1>1, <1>5, LatestRow DEF Update
    <2> QED
      BY <1>2, <1>5, <2>1 DEF Update, AuditAction
  <1>6. ASSUME NEW r \in RuleIds, NEW a \in Actors, NEW target \in Versions,
               Rollback(r, a, target)
        PROVE  GR!GRNext
    <2>1. rule[r].current + 1 \in Versions
      BY <1>1, <1>6, LatestRow DEF Rollback
    <2>2. version[r][target].definition \in ValidDefinitions
      BY <1>1, <1>6 DEF Rollback, PersistedAreValid
    <2> QED
      BY <1>2, <1>6, <2>1, <2>2 DEF Rollback, AuditAction
  <1>7. ASSUME NEW r \in RuleIds, NEW a \in Actors,
               Validate(r, a) \/ Simulate(r, a) \/ Submit(r, a)
        PROVE  UNCHANGED GR!grVars
    <2>1. PICK from \in {"DRAFT", "VALIDATED", "SIMULATED"},
               to \in {"VALIDATED", "SIMULATED", "SUBMITTED"} : Move(r, from, to)
      BY <1>7 DEF Validate, Simulate, Submit
    <2>2. UNCHANGED approval
      BY <1>7 DEF Validate, Simulate, Submit
    <2>3. from \in LifecycleStatus /\ to \in LifecycleStatus /\ PhaseOf[from] = PhaseOf[to]
      BY PhaseValues DEF LifecycleStatus
    <2> QED
      BY <2>1, <2>2, <2>3, PreparationStutters
  <1>8. ASSUME NEW r \in RuleIds, NEW a \in Actors, Approve(r, a)
        PROVE  GR!GRNext
    <2>1. rule[r].current \in Versions
      BY <1>1, <1>8, MoveRows DEF Approve, LifecycleStatus
    <2> QED
      BY <1>8, <2>1, ApproveRefines DEF GR!GRNext
  <1>9. ASSUME NEW r \in RuleIds, NEW a \in Actors, Publish(r, a)
        PROVE  GR!GRNext
    BY <1>9, PublishRefines DEF GR!GRNext
  <1>10. ASSUME NEW r \in RuleIds, NEW a \in Actors, Disable(r, a)
         PROVE  GR!GRNext
    <2>1. rule[r].current \in Versions
      BY <1>1, <1>10, MoveRows DEF Disable, LifecycleStatus
    <2> QED
      BY <1>10, <2>1, DisableRefines DEF GR!GRNext
  <1> QED
    BY <1>3, <1>4, <1>5, <1>6, <1>7, <1>8, <1>9, <1>10 DEF Next

\* Every execution of the Rule Studio is an execution of the governed release:
\* what production uses was written by one person, reviewed by another, and
\* replaced or closed as a whole.
THEOREM Implements == Spec => ImplementsGovernedRelease
  <1>1. Init => GR!GRInit
    BY InitRefines
  <1>2. IInv /\ IInv' /\ [Next]_vars => [GR!GRNext]_(GR!grVars)
    <2>1. CASE UNCHANGED vars
      BY <2>1 DEF vars, GR!grVars, PhaseBar, AuthorBar, ServedBar, Served
    <2> QED
      BY <2>1, NextRefines
  <1> QED
    BY <1>1, <1>2, Invariance, PTL DEF Spec, ImplementsGovernedRelease, GR!GRSpec

-----------------------------------------------------------------------------
(* Requests that overlap: they commit what they would do one at a time *)

LEMMA RolesAreActors ==
  \A op \in Inserting \cup Drafting \cup Events : RoleOf(op) \subseteq Actors
  BY RolesAssumption DEF RoleOf, Inserting, Drafting, Events

\* What the invariant says of a worker that holds the row of its rule.
LEMMA HeldRow ==
  ASSUME RqInv, NEW w \in Workers, Locked(w)
  PROVE  /\ call[w] \in Calls
         /\ call[w].rule \in RuleIds
         /\ call[w].actor \in Actors
         /\ call[w].actor \in RoleOf(call[w].op)
         /\ call[w].op \in Inserting => call[w].definition \in ValidDefinitions
         /\ call[w].target \in Versions
         /\ call[w].seen = rule[call[w].rule]
         /\ lock[call[w].rule] = w
         /\ TypeOK /\ RowsAgree
  <1>1. call[w] \in Calls /\ Received(call[w])
    BY DEF RqInv, Locked
  <1> QED
    BY <1>1 DEF RqInv, SeenIsCurrent, Calls, Received, IInv

\* Each commit is the request it stands for, taken as one step of the Rule Studio.
LEMMA CommitDraftIsStep ==
  ASSUME RqInv, NEW w \in Workers, CommitDraft(w)
  PROVE  /\ Next
         /\ \A r \in RuleIds \ {call[w].rule} : rule'[r] = rule[r]
  <1> DEFINE c == call[w]
             r == call[w].rule
             v == call[w].seen.current + 1
  <1>1. Locked(w) /\ Admissible(c)
    BY DEF CommitDraft
  <1>2. /\ r \in RuleIds /\ c.actor \in Actors /\ c.actor \in RoleOf(c.op)
        /\ c.target \in Versions /\ c.seen = rule[r]
        /\ TypeOK /\ RowsAgree
    BY <1>1, HeldRow
  <1>3. CASE c.op \in Inserting
    <2>1. c.definition \in ValidDefinitions /\ c.definition \in Definitions
      BY <1>1, <1>3, HeldRow, DefinitionsAssumption
    <2>2. c.actor \in Authors
      BY <1>2, <1>3 DEF RoleOf, Inserting
    <2>3. ~Exists(r)
      BY <1>1, <1>2, <1>3 DEF Admissible, Exists, Inserting, Drafting, Events
    <2>4. v = 1
      BY <1>2, <2>3, FirstVersion, RowTypes
    <2>5. PersistDraft(r, 1, c.actor, c.definition, "CREATED")
      BY <1>3, <2>4 DEF CommitDraft, Inserting
    <2> QED
      BY <1>2, <2>1, <2>2, <2>3, <2>5 DEF Next, Create, PersistDraft, TypeOK
  <1>4. CASE c.op \in Drafting
    <2>1. /\ Exists(r) /\ rule[r].status \notin InReview
          /\ rule[r].current < MaxVersion
          /\ c.op = "update" => c.definition \in ValidDefinitions
          /\ c.op = "rollback" => version[r][c.target].status # "ABSENT"
      BY <1>1, <1>2, <1>4 DEF Admissible, Exists, Inserting, Drafting, Events
    <2>2. CASE c.op = "update"
      <3>1. c.actor \in Authors /\ c.definition \in Definitions
        BY <1>2, <2>1, <2>2, DefinitionsAssumption DEF RoleOf
      <3>2. PersistDraft(r, rule[r].current + 1, c.actor, c.definition, "UPDATED")
        BY <1>2, <2>2 DEF CommitDraft, Inserting
      <3>3. Update(r, c.actor, c.definition)
        BY <2>1, <2>2, <3>1, <3>2 DEF Update
      <3> QED
        BY <1>2, <3>1, <3>2, <3>3 DEF Next, PersistDraft, TypeOK
    <2>3. CASE c.op = "rollback"
      <3>1. c.actor \in Approvers
        BY <1>2, <2>3 DEF RoleOf
      <3>2. PersistDraft(r, rule[r].current + 1, c.actor, version[r][c.target].definition,
                         "ROLLED_BACK")
        BY <1>2, <2>3 DEF CommitDraft, Inserting
      <3>3. Rollback(r, c.actor, c.target)
        BY <2>1, <2>3, <3>1, <3>2 DEF Rollback
      <3> QED
        BY <1>2, <3>2, <3>3 DEF Next, PersistDraft, TypeOK
    <2> QED
      BY <1>4, <2>2, <2>3 DEF Drafting
  <1> QED
    BY <1>3, <1>4 DEF CommitDraft, Drafting

LEMMA CommitEventIsStep ==
  ASSUME RqInv, NEW w \in Workers, CommitEvent(w)
  PROVE  /\ Next
         /\ \A r \in RuleIds \ {call[w].rule} : rule'[r] = rule[r]
  <1> DEFINE c == call[w]
             r == call[w].rule
  <1>1. Locked(w) /\ Admissible(c)
    BY DEF CommitEvent
  <1>2. /\ r \in RuleIds /\ c.actor \in Actors /\ c.actor \in RoleOf(c.op)
        /\ c.seen = rule[r]
        /\ TypeOK
    BY <1>1, HeldRow
  <1>3. ASSUME c.op \in Events
        PROVE  /\ rule[r].status = Required[c.op]
               /\ c.op = "validate" => Latest(r).definition \in ValidDefinitions
               /\ c.op = "approve" => Latest(r).author # c.actor
    BY <1>1, <1>2, <1>3 DEF Admissible, Inserting, Drafting, Events, Latest
  <1>4. ASSUME NEW to, MoveSeen(c, to)
        PROVE  /\ rule' = [rule EXCEPT ![r].status = to]
               /\ version' = [version EXCEPT ![r][rule[r].current].status = to]
               /\ \A s \in RuleIds \ {r} : rule'[s] = rule[s]
    BY <1>2, <1>4 DEF MoveSeen, TypeOK
  <1>5. CASE c.op = "validate"
    <2>1. MoveSeen(c, "VALIDATED") /\ Log(r, rule[r].current, "VALIDATED")
          /\ UNCHANGED <<submission, approval, simulated>>
      BY <1>2, <1>5 DEF CommitEvent
    <2>2. c.actor \in Authors /\ rule[r].status = "DRAFT" /\ Latest(r).definition \in ValidDefinitions
      BY <1>2, <1>3, <1>5 DEF RoleOf, Events, Required
    <2>3. Validate(r, c.actor)
      BY <1>4, <2>1, <2>2 DEF Validate, Move
    <2> QED
      BY <1>2, <1>4, <2>1, <2>3 DEF Next
  <1>6. CASE c.op = "submit"
    <2>1. MoveSeen(c, "SUBMITTED") /\ Log(r, rule[r].current, "SUBMITTED")
          /\ submission' = [submission EXCEPT ![r][rule[r].current] = c.actor]
          /\ UNCHANGED <<approval, simulated>>
      BY <1>2, <1>6 DEF CommitEvent
    <2>2. c.actor \in Authors /\ rule[r].status = "SIMULATED"
      BY <1>2, <1>3, <1>6 DEF RoleOf, Events, Required
    <2>3. Submit(r, c.actor)
      BY <1>4, <2>1, <2>2 DEF Submit, Move
    <2> QED
      BY <1>2, <1>4, <2>1, <2>3 DEF Next
  <1>7. CASE c.op = "approve"
    <2>1. MoveSeen(c, "APPROVED") /\ Log(r, rule[r].current, "APPROVED")
          /\ approval' = [approval EXCEPT ![r][rule[r].current] = c.actor]
          /\ UNCHANGED <<submission, simulated>>
      BY <1>2, <1>7 DEF CommitEvent
    <2>2. c.actor \in Approvers /\ rule[r].status = "SUBMITTED" /\ Latest(r).author # c.actor
      BY <1>2, <1>3, <1>7 DEF RoleOf, Events, Required
    <2>3. Approve(r, c.actor)
      BY <1>4, <2>1, <2>2 DEF Approve, Move
    <2> QED
      BY <1>2, <1>4, <2>1, <2>3 DEF Next
  <1>8. CASE c.op = "disable"
    <2>1. MoveSeen(c, "DISABLED") /\ Log(r, rule[r].current, "DISABLED")
          /\ UNCHANGED <<submission, approval, simulated>>
      BY <1>2, <1>8 DEF CommitEvent
    <2>2. c.actor \in Approvers /\ rule[r].status = "ACTIVE"
      BY <1>2, <1>3, <1>8 DEF RoleOf, Events, Required
    <2>3. Disable(r, c.actor)
      BY <1>4, <2>1, <2>2 DEF Disable, Move
    <2> QED
      BY <1>2, <1>4, <2>1, <2>3 DEF Next
  <1> QED
    BY <1>5, <1>6, <1>7, <1>8 DEF CommitEvent

LEMMA CommitSimulationIsStep ==
  ASSUME RqInv, NEW w \in Workers, CommitSimulation(w)
  PROVE  /\ Next
         /\ \A r \in RuleIds \ {call[w].rule} : rule'[r] = rule[r]
  <1> DEFINE c == call[w]
             r == call[w].rule
             row == [version |-> rule[r].current, action |-> "SIMULATED"]
  <1>1. Locked(w) /\ Admissible(c) /\ c.op = "simulate"
    BY DEF CommitSimulation
  <1>2. /\ r \in RuleIds /\ c.actor \in Actors /\ c.actor \in RoleOf(c.op)
        /\ c.seen = rule[r]
        /\ TypeOK
    BY <1>1, HeldRow
  <1>3. rule[r].status = "VALIDATED"
    BY <1>1, <1>2 DEF Admissible, Inserting, Drafting, Events, Required
  <1>4. /\ rule' = [rule EXCEPT ![r].status = "SIMULATED"]
        /\ version' = [version EXCEPT ![r][rule[r].current].status = "SIMULATED"]
        /\ simulated' = [simulated EXCEPT ![r] = @ \cup {rule[r].current}]
        /\ audit' = [audit EXCEPT ![r] = Append(Append(@, row), row)]
        /\ UNCHANGED <<submission, approval>>
    BY <1>2 DEF CommitSimulation, MoveSeen
  <1>5. rule[r].current \in simulated'[r]
    BY <1>2, <1>4 DEF TypeOK
  <1>6. Simulate(r, c.actor)
    BY <1>1, <1>2, <1>3, <1>4, <1>5 DEF Simulate, Move, RoleOf
  <1> QED
    BY <1>2, <1>4, <1>6 DEF Next, TypeOK

LEMMA CommitPublicationIsStep ==
  ASSUME RqInv, NEW w \in Workers, CommitPublication(w)
  PROVE  /\ Next
         /\ \A r \in RuleIds \ {call[w].rule} : rule'[r] = rule[r]
  <1> DEFINE c == call[w]
             r == call[w].rule
  <1>1. Locked(w) /\ Admissible(c) /\ c.op = "publish"
    BY DEF CommitPublication
  <1>2. /\ r \in RuleIds /\ c.actor \in Actors /\ c.actor \in RoleOf(c.op)
        /\ c.seen = rule[r]
        /\ TypeOK
    BY <1>1, HeldRow
  <1>3. rule[r].status = "APPROVED" /\ c.actor \in Approvers
    BY <1>1, <1>2 DEF Admissible, Inserting, Drafting, Events, Required, RoleOf
  <1>4. Publish(r, c.actor)
    BY <1>2, <1>3 DEF CommitPublication, Publish
  <1> QED
    BY <1>2, <1>4 DEF Next, Publish, TypeOK

LEMMA CommitIsStep ==
  ASSUME RqInv, NEW w \in Workers, Commit(w)
  PROVE  /\ Next
         /\ \A r \in RuleIds \ {call[w].rule} : rule'[r] = rule[r]
         /\ Locked(w) /\ Finish(w)
  <1>1. Locked(w) /\ Finish(w)
    BY DEF Commit, CommitDraft, CommitEvent, CommitSimulation, CommitPublication
  <1> QED
    BY <1>1, CommitDraftIsStep, CommitEventIsStep, CommitSimulationIsStep,
       CommitPublicationIsStep DEF Commit

\* A worker that ends its request leaves what the others saw and hold as it is, if the
\* only row that changed was its own.
LEMMA FinishStep ==
  ASSUME RqInv, NEW w \in Workers, call[w] # Null, Finish(w), IInv',
         \A r \in RuleIds : rule'[r] = rule[r] \/ (Locked(w) /\ r = call[w].rule)
  PROVE  RqInv'
  <1>1. /\ call' \in [Workers -> Calls \cup {Null}]
        /\ lock' \in [RuleIds -> Workers \cup {Null}]
        /\ \A u \in Workers : call'[u] = IF u = w THEN Null ELSE call[u]
    BY DEF RqInv, Finish
  <1>2. SeenIsCurrent'
    <2> SUFFICES ASSUME NEW u \in Workers, Locked(u)'
                 PROVE  /\ lock'[call'[u].rule] = u
                        /\ call'[u].seen = rule'[call'[u].rule]
      BY DEF SeenIsCurrent
    <2>1. u # w /\ call'[u] = call[u] /\ Locked(u)
      BY <1>1 DEF Locked
    <2>2. /\ call[u].rule \in RuleIds
          /\ lock[call[u].rule] = u
          /\ call[u].seen = rule[call[u].rule]
      BY <2>1, HeldRow
    <2>3. Locked(w) => lock[call[w].rule] = w
      BY HeldRow
    <2>4. rule'[call[u].rule] = rule[call[u].rule]
      BY <2>1, <2>2, <2>3
    <2>5. lock'[call[u].rule] = u
      BY <2>1, <2>2 DEF Finish
    <2> QED
      BY <2>1, <2>2, <2>4, <2>5
  <1>3. \A u \in Workers : call'[u] # Null => Received(call'[u])
    BY <1>1 DEF RqInv
  <1> QED
    BY <1>1, <1>2, <1>3 DEF RqInv, Received

LEMMA AcceptStep ==
  ASSUME RqInv, NEW w \in Workers, NEW op \in Inserting \cup Drafting \cup Events,
         NEW r \in RuleIds, NEW a \in Actors, NEW d \in Definitions \cup {Null},
         NEW target \in Versions,
         op \in Inserting => d \in ValidDefinitions,
         Accept(w, op, r, a, d, target)
  PROVE  RqInv' /\ UNCHANGED vars
  <1> DEFINE c == [op |-> op, rule |-> r, actor |-> a, definition |-> d, target |-> target,
                   phase |-> "received", seen |-> AbsentRule]
  <1>1. AbsentRule \in RuleRow
    BY BoundAssumption DEF AbsentRule, RuleRow, Status
  <1>2. c \in Calls /\ Received(c)
    BY <1>1 DEF Calls, Accept, Received
  <1>3. /\ UNCHANGED <<vars, lock>>
        /\ \A u \in Workers : call'[u] = IF u = w THEN c ELSE call[u]
        /\ call' \in [Workers -> Calls \cup {Null}]
    BY <1>2 DEF Accept, RqInv
  <1>4. IInv'
    BY <1>3, Inductive DEF RqInv
  <1>5. SeenIsCurrent'
    BY <1>3 DEF RqInv, SeenIsCurrent, Locked, vars
  <1>6. \A u \in Workers : call'[u] # Null => Received(call'[u])
    BY <1>2, <1>3 DEF RqInv
  <1> QED
    BY <1>3, <1>4, <1>5, <1>6 DEF RqInv, Received

LEMMA ReceiveStep ==
  ASSUME RqInv, NEW w \in Workers, Receive(w)
  PROVE  RqInv' /\ UNCHANGED vars
  <1>1. 1 \in Versions
    BY BoundAssumption DEF Versions
  <1>2. PICK r \in RuleIds, a \in Actors :
           \/ \E d \in Definitions : ReceiveCreate(w, r, a, d) \/ Accept(w, "update", r, a, d, 1)
           \/ \E s \in RuleIds : ReceiveDuplicate(w, s, r, a)
           \/ \E target \in Versions : Accept(w, "rollback", r, a, Null, target)
           \/ \E op \in Events : Accept(w, op, r, a, Null, 1)
    BY DEF Receive
  <1>3. ASSUME NEW d \in Definitions, ReceiveCreate(w, r, a, d) \/ Accept(w, "update", r, a, d, 1)
        PROVE  RqInv' /\ UNCHANGED vars
    BY <1>1, <1>3, AcceptStep DEF ReceiveCreate, Inserting, Drafting
  <1>4. ASSUME NEW s \in RuleIds, ReceiveDuplicate(w, s, r, a)
        PROVE  RqInv' /\ UNCHANGED vars
    <2>1. Latest(s).definition \in ValidDefinitions /\ Latest(s).definition \in Definitions
      BY <1>4, DefinitionsAssumption DEF ReceiveDuplicate
    <2>2. Accept(w, "duplicate", r, a, Latest(s).definition, 1)
      BY <1>4 DEF ReceiveDuplicate
    <2> QED
      BY <1>1, <2>1, <2>2, AcceptStep DEF Inserting
  <1>5. ASSUME NEW target \in Versions, Accept(w, "rollback", r, a, Null, target)
        PROVE  RqInv' /\ UNCHANGED vars
    BY <1>5, AcceptStep DEF Inserting, Drafting
  <1>6. ASSUME NEW op \in Events, Accept(w, op, r, a, Null, 1)
        PROVE  RqInv' /\ UNCHANGED vars
    <2>1. op \notin Inserting
      BY DEF Events, Inserting
    <2> QED
      BY <1>1, <1>6, <2>1, AcceptStep
  <1> QED
    BY <1>2, <1>3, <1>4, <1>5, <1>6

LEMMA AcquireStep ==
  ASSUME RqInv, NEW w \in Workers, Acquire(w)
  PROVE  RqInv' /\ UNCHANGED vars
  <1> DEFINE c == call[w]
             held == [call[w] EXCEPT !.phase = "locked", !.seen = rule[call[w].rule]]
  <1>1. c \in Calls /\ Received(c) /\ c.rule \in RuleIds /\ c.phase = "received"
    BY DEF RqInv, Acquire, Calls
  <1>2. rule[c.rule] \in RuleRow
    BY <1>1 DEF RqInv, IInv, TypeOK
  <1>3. /\ held \in Calls /\ Received(held)
        /\ held.rule = c.rule /\ held.seen = rule[c.rule]
    BY <1>1, <1>2 DEF Calls, Received
  <1>4. /\ UNCHANGED vars
        /\ \A u \in Workers : call'[u] = IF u = w THEN held ELSE call[u]
        /\ call' \in [Workers -> Calls \cup {Null}]
        /\ lock[c.rule] = Null
        /\ \A s \in RuleIds : lock'[s] = IF s = c.rule THEN w ELSE lock[s]
        /\ lock' \in [RuleIds -> Workers \cup {Null}]
    BY <1>1, <1>3 DEF Acquire, RqInv
  <1>5. IInv'
    BY <1>4, Inductive DEF RqInv
  <1>6. SeenIsCurrent'
    <2> SUFFICES ASSUME NEW u \in Workers, Locked(u)'
                 PROVE  /\ lock'[call'[u].rule] = u
                        /\ call'[u].seen = rule'[call'[u].rule]
      BY DEF SeenIsCurrent
    <2>1. CASE u = w
      BY <1>1, <1>3, <1>4, <2>1 DEF vars
    <2>2. CASE u # w
      <3>1. call'[u] = call[u] /\ Locked(u)
        BY <1>4, <2>2 DEF Locked
      <3>2. /\ call[u].rule \in RuleIds
            /\ lock[call[u].rule] = u
            /\ call[u].seen = rule[call[u].rule]
        BY <3>1, HeldRow
      <3>3. call[u].rule # c.rule
        BY <1>4, <3>2, WorkersAssumption
      <3> QED
        BY <1>4, <3>1, <3>2, <3>3 DEF vars
    <2> QED
      BY <2>1, <2>2
  <1>7. \A u \in Workers : call'[u] # Null => Received(call'[u])
    BY <1>3, <1>4 DEF RqInv
  <1> QED
    BY <1>4, <1>5, <1>6, <1>7 DEF RqInv, Received

\* RqInv is inductive, and every step of a worker is a step of the Rule Studio or none.
LEMMA RqStep == RqInv /\ [RqNext]_rqVars => RqInv' /\ [Next]_vars
  <1> SUFFICES ASSUME RqInv, [RqNext]_rqVars
               PROVE  RqInv' /\ [Next]_vars
    OBVIOUS
  <1>1. ASSUME NEW w \in Workers, Receive(w)
        PROVE  RqInv' /\ [Next]_vars
    BY <1>1, ReceiveStep
  <1>2. ASSUME NEW w \in Workers, Acquire(w)
        PROVE  RqInv' /\ [Next]_vars
    BY <1>2, AcquireStep
  <1>3. ASSUME NEW w \in Workers, Refuse(w) \/ Fail(w)
        PROVE  RqInv' /\ [Next]_vars
    <2>1. call[w] # Null /\ Finish(w) /\ UNCHANGED vars
      BY <1>3 DEF Refuse, Fail, Locked
    <2>2. IInv'
      BY <2>1, Inductive DEF RqInv
    <2> QED
      BY <2>1, <2>2, FinishStep DEF vars
  <1>4. ASSUME NEW w \in Workers, Commit(w)
        PROVE  RqInv' /\ [Next]_vars
    <2>1. /\ Next /\ Locked(w) /\ Finish(w)
          /\ \A r \in RuleIds \ {call[w].rule} : rule'[r] = rule[r]
      BY <1>4, CommitIsStep
    <2>2. IInv' /\ call[w] # Null
      BY <2>1, Inductive DEF RqInv, Locked
    <2> QED
      BY <2>1, <2>2, FinishStep
  <1>5. CASE UNCHANGED rqVars
    <2>1. UNCHANGED vars
      BY <1>5 DEF rqVars, vars
    <2>2. IInv'
      BY <2>1, Inductive DEF RqInv
    <2> QED
      BY <1>5, <2>1, <2>2 DEF rqVars, RqInv, Received, SeenIsCurrent, Locked
  <1> QED
    BY <1>1, <1>2, <1>3, <1>4, <1>5 DEF RqNext

LEMMA RqInitInv == RqInit => RqInv
  <1> SUFFICES ASSUME RqInit
               PROVE  RqInv
    OBVIOUS
  <1>1. IInv
    BY InitIInv DEF RqInit
  <1> QED
    BY <1>1 DEF RqInit, RqInv, SeenIsCurrent, Locked

\* A call that holds the row of its rule has seen what the row holds now, until it ends.
THEOREM LockedReadsStayCurrent == RqSpec => []SeenIsCurrent
  <1>1. RqInv /\ [RqNext]_rqVars => RqInv'
    BY RqStep
  <1>2. RqInv => SeenIsCurrent
    BY DEF RqInv
  <1> QED
    BY <1>1, <1>2, RqInitInv, PTL DEF RqSpec

\* Requests of any number of workers, any of which may die at any time, commit what
\* they would do one at a time.
THEOREM RequestsAreSerializable == RqSpec => Serializable
  <1>1. RqInv /\ [RqNext]_rqVars => RqInv' /\ [Next]_vars
    BY RqStep
  <1>2. RqInit => Init
    BY DEF RqInit
  <1> QED
    BY <1>1, <1>2, RqInitInv, PTL DEF RqSpec, Serializable, Spec

\* So what is served stays governed, however the requests overlap.
THEOREM OverlappingRequestsAreGoverned == RqSpec => []ServedIsGoverned
  BY RequestsAreSerializable, ProductionIsGoverned, PTL DEF Serializable
=============================================================================
