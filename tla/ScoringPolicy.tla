--------------------------- MODULE ScoringPolicy ----------------------------
(***************************************************************************)
(* Scoring policies: the versioned weights with which opportunity-service  *)
(* mixes rules and propensity (backend/src/boa_oi/scoring_policy).         *)
(*                                                                         *)
(* A worker thread serves a request by several statements under READ       *)
(* COMMITTED: it reads the policy, the row the URL names and the history,  *)
(* decides in the domain on what it read, and writes the columns that      *)
(* differ from what it read.  No row is locked for reading and no version  *)
(* number is compared, so other requests may commit between any two of its *)
(* steps.  A row once read keeps its values for the rest of the request    *)
(* (the identity map of the session).  The domain changes the LATEST       *)
(* version of the history; the result is written on the row the URL names. *)
(***************************************************************************)
EXTENDS Naturals

CONSTANTS
    Workers,           \* threads of opportunity-service
    Policies,          \* business keys (scoring_policies.policy_id)
    Bootstrap,         \* the policy migration 0006 inserts
    System,            \* its author and approver
    Actors,            \* principals
    Authors,           \* holders of a role of AUTHOR_ROLES
    Approvers,         \* holders of a role of APPROVER_ROLES
    Operators,         \* holders of a role of OPERATOR_ROLES
    Weights,           \* normalized pairs of weights
    Null,              \* a column that is null
    Dates,             \* what clients send as effectiveFrom: times, or Null for none
    MaxVersion,        \* bound: versions of one policy
    MaxTime            \* bound: requests that read the clock

ASSUME PolicyAssumption ==
    /\ Bootstrap \in Policies
    /\ System \notin Actors
    /\ Null \notin Actors \cup {System} \cup Weights \cup Nat
    /\ Authors \subseteq Actors /\ Approvers \subseteq Actors /\ Operators \subseteq Actors
    /\ MaxVersion \in Nat \ {0} /\ MaxTime \in Nat
    /\ Dates \subseteq Nat \cup {Null}
    /\ Weights # {}

VARIABLES
    policy,    \* table scoring_policies: current_version and active_version (0: no row, null)
    version,   \* table scoring_policy_versions
    audit,     \* table scoring_policy_audit_logs
    now,       \* the clock
    call,      \* what each worker does
    foreign    \* history: the rows that took the content of another version

vars == <<policy, version, audit, now, call, foreign>>

Numbers == 1..MaxVersion

PolicyStatus == {"DRAFT", "SIMULATED", "SUBMITTED", "APPROVED", "PUBLISHED", "ACTIVE",
                 "DISABLED", "ROLLED_BACK"}

\* The requests that move a version, named for the status they ask for.
Moves == {"SIMULATED", "SUBMITTED", "APPROVED", "PUBLISHED", "ACTIVE", "DISABLED"}

Operations == Moves \cup {"CREATED", "VERSION_CREATED", "ROLLBACK"}

AuditAction == Operations \cup {"ROLLBACK_ACTIVATED"}

Times == Nat \cup {Null}

PolicyRow == [current: 0..MaxVersion, active: 0..MaxVersion]

VersionRow == [status: PolicyStatus \cup {"ABSENT"}, author: Actors \cup {System, Null},
               approver: Actors \cup {System, Null}, weights: Weights \cup {Null},
               simulated: BOOLEAN, from: Times, to: Times]

Event == [version: Numbers, action: AuditAction, user: Actors]

Phases == {"idle", "named", "current", "clock", "history", "previous", "commit"}

Call == [op: Operations \cup {"NONE"}, policy: Policies, number: Numbers, actor: Actors \cup {Null},
         date: Dates \cup {Null}, weights: Weights \cup {Null},     \* the request
         phase: Phases,                      \* what comes next
         seen: PolicyRow,                    \* the policy as read
         rows: [Numbers -> VersionRow],      \* the versions as read
         last: 0..MaxVersion,                \* the latest version read
         made: VersionRow,                   \* what the domain makes of the version
         at: Times,                          \* the time it records
         previous: SUBSET Numbers,           \* the versions an activation replaces
         orderly: BOOLEAN]                   \* history: see Receive and Ended

TypeOK ==
    /\ policy \in [Policies -> PolicyRow]
    /\ version \in [Policies -> [Numbers -> VersionRow]]
    /\ audit \in [Policies -> SUBSET Event]
    /\ now \in Nat
    /\ call \in [Workers -> Call]
    /\ foreign \subseteq Policies \X Numbers

Absent == [status |-> "ABSENT", author |-> Null, approver |-> Null, weights |-> Null,
           simulated |-> FALSE, from |-> Null, to |-> Null]

Nothing == [n \in Numbers |-> Absent]

\* Fault: the audit event where the status belongs.
DraftCreated(a, w) == [Absent EXCEPT !.status = "CREATED", !.author = a, !.weights = w]

Draft(a, w) == [Absent EXCEPT !.status = "DRAFT", !.author = a, !.weights = w]

Idle == [op |-> "NONE", policy |-> Bootstrap, number |-> 1, actor |-> Null, date |-> Null,
         weights |-> Null, phase |-> "idle", seen |-> [current |-> 0, active |-> 0],
         rows |-> Nothing, last |-> 0, made |-> Absent, at |-> Null, previous |-> {}, orderly |-> FALSE]

\* What the migration inserts; its audit row, of no request, is left out.
Init ==
    \E w \in Weights :
        /\ policy = [p \in Policies |-> [current |-> IF p = Bootstrap THEN 1 ELSE 0,
                                         active |-> IF p = Bootstrap THEN 1 ELSE 0]]
        /\ version = [p \in Policies |-> [n \in Numbers |->
              IF p = Bootstrap /\ n = 1
              THEN [status |-> "ACTIVE", author |-> System, approver |-> System, weights |-> w,
                    simulated |-> TRUE, from |-> 0, to |-> Null]
              ELSE Absent]]
        /\ audit = [p \in Policies |-> {}]
        /\ now = 1
        /\ call = [x \in Workers |-> Idle]
        /\ foreign = {}

-----------------------------------------------------------------------------
(* The aggregate, over the rows of a policy as somebody read them *)

Exists(p) == policy[p].current > 0

Present(rows) == {n \in Numbers : rows[n].status # "ABSENT"}

Active(rows) == {n \in Numbers : rows[n].status = "ACTIVE"}

\* ScoringPolicy.current
IsLatest(rows, n) == n \in Present(rows) /\ \A m \in Present(rows) : m <= n

\* validate_consistency of one version
Consistent(v) ==
    /\ (v.from # Null /\ v.to # Null) => v.from < v.to
    /\ v.status = "APPROVED" => v.approver \notin {Null, v.author}
    /\ v.status \in {"PUBLISHED", "ACTIVE"} => v.approver # Null
    /\ v.status = "ACTIVE" => v.from # Null

\* _aggregate(): a request fails when the history it read is inconsistent; validate_history
\* wants the pointer to name an ACTIVE version.
Loadable(head, rows) ==
    /\ \A n \in Present(rows) : Consistent(rows[n])
    /\ head.active # 0 => head.active \in Active(rows)

\* active_policy() at the present time.
InEffect(p) ==
    {n \in Active(version[p]) :
        /\ version[p][n].from = Null \/ version[p][n].from <= now
        /\ version[p][n].to = Null \/ version[p][n].to > now}

\* uq_scoring_policy_single_active: one ACTIVE row in the whole table.
UniqueActive ==
    \A p, q \in Policies : \A n \in Active(version[p]), m \in Active(version[q]) : p = q /\ n = m

\* Fault: a draft is submitted as it is.
TransitionsUnsimulated ==
    {<<"DRAFT", "SIMULATED">>, <<"DRAFT", "SUBMITTED">>, <<"SIMULATED", "SUBMITTED">>,
     <<"SUBMITTED", "APPROVED">>, <<"APPROVED", "PUBLISHED">>, <<"PUBLISHED", "ACTIVE">>,
     <<"PUBLISHED", "DISABLED">>, <<"ACTIVE", "DISABLED">>, <<"ACTIVE", "ROLLED_BACK">>}

Transitions ==
    {<<"DRAFT", "SIMULATED">>, <<"SIMULATED", "SUBMITTED">>, <<"SUBMITTED", "APPROVED">>,
     <<"APPROVED", "PUBLISHED">>, <<"PUBLISHED", "ACTIVE">>, <<"PUBLISHED", "DISABLED">>,
     <<"ACTIVE", "DISABLED">>, <<"ACTIVE", "ROLLED_BACK">>}

CanMove(v, target, a) ==
    /\ <<v.status, target>> \in Transitions
    /\ target = "APPROVED" => a # v.author

Moved(v, target, a, at) ==
    [v EXCEPT !.status = target,
              !.simulated = @ \/ target = "SIMULATED",
              !.approver = IF target = "APPROVED" THEN a ELSE @,
              !.from = IF target = "ACTIVE" /\ @ = Null THEN at ELSE @]

\* rollback of the aggregate: the target had been published, the latest version had
\* been active.
CanRollback(rows, last, target) ==
    /\ target # last
    /\ rows[target].status \in {"PUBLISHED", "ACTIVE", "DISABLED"}
    /\ rows[last].status \in {"ACTIVE", "DISABLED", "ROLLED_BACK"}

\* The target is in effect from now on.
Restored(v, at) == [v EXCEPT !.status = "ACTIVE", !.from = at, !.to = Null]

-----------------------------------------------------------------------------
(* The reads of a request *)

Holders(op) ==
    IF op \in {"CREATED", "VERSION_CREATED", "SIMULATED", "SUBMITTED"} THEN Authors
    ELSE IF op = "APPROVED" THEN Approvers
    ELSE Operators

\* The history of p as requests that do not overlap keep it: it loads, an ACTIVE version is
\* the one the policy points to and in effect, a version has no window before it starts, and
\* none gets past approval without an approver.
Sound(p) ==
    /\ Loadable(policy[p], version[p])
    /\ \A n \in Active(version[p]) :
          /\ policy[p].active = n
          /\ version[p][n].from < now
          /\ version[p][n].to = Null
    /\ \A n \in Present(version[p]) :
          \/ /\ version[p][n].status \in {"DRAFT", "SIMULATED", "SUBMITTED", "APPROVED", "PUBLISHED"}
             /\ version[p][n].from = Null /\ version[p][n].to = Null
          \/ /\ version[p][n].status \in {"ACTIVE", "DISABLED", "ROLLED_BACK"}
             /\ version[p][n].approver # Null

\* A request arrives and reads the policy: there has to be none to create one, and there
\* has to be one for everything else.  It is orderly when it finds a sound history.
Receive(w, op, p, n, a, date, wt) ==
    /\ call[w] = Idle
    /\ a \in Holders(op)
    /\ op = "CREATED" <=> ~Exists(p)
    /\ op \notin Moves \cup {"ROLLBACK"} => n = 1
    /\ op # "ACTIVE" => date = Null
    /\ (op \in {"CREATED", "VERSION_CREATED"}) <=> wt # Null
    /\ call' = [call EXCEPT ![w] =
          [Idle EXCEPT !.op = op, !.policy = p, !.actor = a, !.date = date, !.weights = wt,
                       !.number = IF op = "VERSION_CREATED" THEN policy[p].current ELSE n,
                       !.phase = IF op = "CREATED" THEN "commit" ELSE "named",
                       !.seen = policy[p],
                       !.orderly = Exists(p) /\ Sound(p)]]
    /\ UNCHANGED <<policy, version, audit, now, foreign>>

\* A worker reads and goes on.
Reads(w, phase) ==
    /\ call[w].phase = phase
    /\ UNCHANGED <<policy, version, audit, foreign>>

\* A row once read stays as it was.
Held(c, n) == IF c.rows[n] = Absent THEN version[c.policy][n] ELSE c.rows[n]

\* The row the URL names; a creation reads the current version.
ReadNamed(w) ==
    LET c == call[w] IN
    /\ Reads(w, "named")
    /\ c.number \in Present(version[c.policy])
    /\ call' = [call EXCEPT ![w] =
          [c EXCEPT !.rows[c.number] = version[c.policy][c.number],
                    !.phase = IF c.op = "ROLLBACK" THEN "current"
                              ELSE IF c.op \in {"ACTIVE", "DISABLED"} THEN "clock"
                              ELSE "history"]]
    /\ UNCHANGED now

\* A rollback reads the current version too.
ReadCurrent(w) ==
    LET c == call[w] IN
    /\ Reads(w, "current")
    /\ c.seen.current \in Present(version[c.policy])
    /\ call' = [call EXCEPT ![w] =
          [c EXCEPT !.rows[c.seen.current] = Held(c, c.seen.current), !.phase = "clock"]]
    /\ UNCHANGED now

\* _now(), for the requests that write a time in a version.
ReadClock(w) ==
    /\ Reads(w, "clock")
    /\ now < MaxTime
    /\ now' = now + 1
    /\ call' = [call EXCEPT ![w] = [@ EXCEPT !.at = now, !.phase = "history"]]

\* What the domain accepts, given the history.
Accepts(c, rows, last) ==
    /\ c.op \in Moves => CanMove(rows[last], c.op, c.actor)
    /\ c.op = "ROLLBACK" => CanRollback(rows, last, c.number)
    /\ c.op = "VERSION_CREATED" => last < MaxVersion

\* What it makes of it: the latest version moved, or the target of a rollback restored.
Made(c, rows, last) ==
    LET moved == Moved(rows[last], c.op, c.actor, c.at) IN
    IF c.op = "VERSION_CREATED" THEN Draft(c.actor, c.weights)
    ELSE IF c.op = "ROLLBACK" THEN Restored(rows[c.number], c.at)
    ELSE IF c.date = Null THEN moved
    ELSE [moved EXCEPT !.from = c.date]

\* The rows it is going to write; the session forgets the others.
Kept(c) ==
    IF c.op = "VERSION_CREATED" THEN {}
    ELSE IF c.op = "ROLLBACK" THEN {c.number, c.seen.current}
    ELSE {c.number}

\* _aggregate() and the decision of the domain.
ReadHistory(w) ==
    LET c == call[w]
        rows == [n \in Numbers |-> Held(c, n)]
    IN
    /\ Reads(w, "history")
    /\ Loadable(c.seen, rows)
    /\ \E last \in Numbers :
          /\ IsLatest(rows, last)
          /\ Accepts(c, rows, last)
          /\ call' = [call EXCEPT ![w] =
                [c EXCEPT !.rows = [n \in Numbers |-> IF n \in Kept(c) THEN rows[n] ELSE Absent],
                          !.last = last,
                          !.made = Made(c, rows, last),
                          !.phase = IF c.op = "ACTIVE" THEN "previous" ELSE "commit"]]
    /\ UNCHANGED now

\* An activation reads again which other versions are ACTIVE.
ReadPrevious(w) ==
    LET c == call[w]
        previous == Active(version[c.policy]) \ {c.number}
    IN
    /\ Reads(w, "previous")
    /\ call' = [call EXCEPT ![w] =
          [c EXCEPT !.rows = [n \in Numbers |->
                                IF n \in previous THEN version[c.policy][n] ELSE c.rows[n]],
                    !.previous = previous,
                    !.phase = "commit"]]
    /\ UNCHANGED now

-----------------------------------------------------------------------------
(* The writes of a request, as its transaction leaves them.  Updates of one row by two      *)
(* transactions happen in the order of their commits, since the second waits for the first. *)

\* The columns of a row that differ from what the request read; the others stay as they are.
Merge(row, seen, new) == [c \in DOMAIN row |-> IF new[c] # seen[c] THEN new[c] ELSE row[c]]

\* The request is answered. It has overlapped the others on its policy.
Ended(w) ==
    call' = [x \in Workers |->
        IF x = w THEN Idle
        ELSE IF call[x].policy = call[w].policy THEN [call[x] EXCEPT !.orderly = FALSE]
        ELSE call[x]]

Commits(w, ops) == call[w].phase = "commit" /\ call[w].op \in ops /\ Ended(w)

\* Audit rows <<version, action>>.
Appends(w, rows) ==
    audit' = [audit EXCEPT ![call[w].policy] = @ \cup
        {[version |-> row[1], action |-> row[2], user |-> call[w].actor] : row \in rows}]

\* POST /scoring-policies; policy_id is unique.
CreatePolicy(w) ==
    LET p == call[w].policy IN
    /\ Commits(w, {"CREATED"})
    /\ ~Exists(p)
    /\ policy' = [policy EXCEPT ![p] = [current |-> 1, active |-> 0]]
    /\ version' = [version EXCEPT ![p][1] = Draft(call[w].actor, call[w].weights)]
    /\ Appends(w, {<<1, "CREATED">>})
    /\ UNCHANGED <<now, foreign>>

\* Fault: the policy counts from the version it had when it was read.
CreateVersionFromPointer(w) ==
    LET c == call[w]
        n == c.last + 1
    IN
    /\ Commits(w, {"VERSION_CREATED"})
    /\ version[c.policy][n] = Absent
    /\ policy' = [policy EXCEPT ![c.policy].current = c.seen.current + 1]
    /\ version' = [version EXCEPT ![c.policy][n] = c.made]
    /\ Appends(w, {<<n, "VERSION_CREATED">>})
    /\ UNCHANGED <<now, foreign>>

\* POST /scoring-policies/{p}/versions; (policy_id, version) is unique.
CreateVersion(w) ==
    LET c == call[w]
        n == c.last + 1
    IN
    /\ Commits(w, {"VERSION_CREATED"})
    /\ version[c.policy][n] = Absent
    /\ policy' = [policy EXCEPT ![c.policy] = Merge(@, c.seen, [c.seen EXCEPT !.current = n])]
    /\ version' = [version EXCEPT ![c.policy][n] = c.made]
    /\ Appends(w, {<<n, "VERSION_CREATED">>})
    /\ UNCHANGED <<now, foreign>>

\* What _apply_version writes on row n.
Applied(c, n, new) == Merge(version[c.policy][n], c.rows[n], new)

\* The named row has taken the content of the latest version.
Strays(w) ==
    foreign' = foreign \cup
        (IF call[w].number = call[w].last THEN {} ELSE {<<call[w].policy, call[w].number>>})

\* simulate, submit, approve, publish
Transition(w) ==
    LET c == call[w] IN
    /\ Commits(w, {"SIMULATED", "SUBMITTED", "APPROVED", "PUBLISHED"})
    /\ version' = [version EXCEPT ![c.policy][c.number] = Applied(c, c.number, c.made)]
    /\ Strays(w)
    /\ Appends(w, {<<c.number, c.op>>})
    /\ UNCHANGED <<policy, now>>

\* The other ACTIVE versions of the policy end when this one starts.
Activate(w) ==
    LET c == call[w]
        Ends(v) == [v EXCEPT !.status = "DISABLED", !.to = c.made.from]
    IN
    /\ Commits(w, {"ACTIVE"})
    /\ version' = [version EXCEPT ![c.policy] = [n \in Numbers |->
            IF n = c.number THEN Applied(c, n, c.made)
            ELSE IF n \in c.previous THEN Applied(c, n, Ends(c.rows[n]))
            ELSE @[n]]]
    /\ UniqueActive'
    /\ policy' = [policy EXCEPT ![c.policy] = Merge(@, c.seen, [c.seen EXCEPT !.active = c.number])]
    /\ Strays(w)
    /\ Appends(w, {<<n, "DISABLED">> : n \in c.previous} \cup {<<c.number, "ACTIVE">>})
    /\ UNCHANGED now

\* Fault: the policy goes on pointing to the version.
DisableKeepsPointer(w) ==
    LET c == call[w] IN
    /\ Commits(w, {"DISABLED"})
    /\ version' = [version EXCEPT ![c.policy][c.number] =
                      Applied(c, c.number, [c.made EXCEPT !.to = IF @ = Null THEN c.at ELSE @])]
    /\ Strays(w)
    /\ Appends(w, {<<c.number, "DISABLED">>})
    /\ UNCHANGED <<policy, now>>

\* The window ends, and the pointer is cleared, if the policy pointed to the row.
Disable(w) ==
    LET c == call[w]
        pointed == c.seen.active = c.number
    IN
    /\ Commits(w, {"DISABLED"})
    /\ version' = [version EXCEPT ![c.policy][c.number] =
              Applied(c, c.number, [c.made EXCEPT !.to = IF pointed /\ @ = Null THEN c.at ELSE @])]
    /\ policy' = [policy EXCEPT ![c.policy] =
                      Merge(@, c.seen, [c.seen EXCEPT !.active = IF pointed THEN 0 ELSE @])]
    /\ Strays(w)
    /\ Appends(w, {<<c.number, "DISABLED">>})
    /\ UNCHANGED now

\* POST /scoring-policies/{p}/rollback: the version the policy gave as current is ROLLED_BACK
\* if it is the latest and was ACTIVE.
Rollback(w) ==
    LET c == call[w]
        current == c.seen.current
        source == IF current = c.last /\ c.rows[current].status = "ACTIVE"
                  THEN Moved(c.rows[current], "ROLLED_BACK", c.actor, c.at)
                  ELSE c.rows[current]
    IN
    /\ Commits(w, {"ROLLBACK"})
    /\ version' = [version EXCEPT ![c.policy] = [n \in Numbers |->
            IF n = c.number THEN Applied(c, n, c.made)
            ELSE IF n = current THEN Applied(c, n, source)
            ELSE @[n]]]
    /\ UniqueActive'
    /\ policy' = [policy EXCEPT ![c.policy] = Merge(@, c.seen, [c.seen EXCEPT !.active = c.number])]
    /\ Appends(w, {<<current, "ROLLBACK">>, <<c.number, "ROLLBACK_ACTIVATED">>})
    /\ UNCHANGED <<now, foreign>>

\* The request ends without a commit: refused (not found, not allowed, a history that does
\* not load), a unique index, a deadlock, a lost connection or the end of the process.
Fail(w) ==
    /\ call[w] # Idle
    /\ call' = [call EXCEPT ![w] = Idle]
    /\ UNCHANGED <<policy, version, audit, now, foreign>>

Step(w) ==
    \/ \E op \in Operations, p \in Policies, n \in Numbers, a \in Actors, date \in Dates \cup {Null},
          wt \in Weights \cup {Null} : Receive(w, op, p, n, a, date, wt)
    \/ ReadNamed(w)
    \/ ReadCurrent(w)
    \/ ReadClock(w)
    \/ ReadHistory(w)
    \/ ReadPrevious(w)
    \/ CreatePolicy(w)
    \/ CreateVersion(w)
    \/ Transition(w)
    \/ Activate(w)
    \/ Disable(w)
    \/ Rollback(w)
    \/ Fail(w)

Next == \E w \in Workers : Step(w)

Spec == Init /\ [][Next]_vars

-----------------------------------------------------------------------------
(* Safety under every overlap of requests *)

\* The trail of p says that version n was simulated, approved by a, and published.
Vetted(p, n, a) ==
    /\ \E u \in Actors : [version |-> n, action |-> "SIMULATED", user |-> u] \in audit[p]
    /\ [version |-> n, action |-> "APPROVED", user |-> a] \in audit[p]
    /\ \E u \in Actors : [version |-> n, action |-> "PUBLISHED", user |-> u] \in audit[p]

\* Opportunities are scored with weights that were there from the start, or that were
\* simulated, approved by the recorded approver, who did not write them, and published, as
\* the trail says: two approvals, a late submission or a rollback decided on rows that
\* others changed meanwhile cannot put anything else in effect.  Rows that took the content
\* of another version are not meant (see DefinitionIsAppendOnly).
InEffectIsApproved ==
    \A p \in Policies : \A n \in InEffect(p) :
        LET v == version[p][n] IN
        <<p, n>> \notin foreign /\ v.author # System =>
            /\ v.simulated
            /\ v.approver # v.author
            /\ Vetted(p, n, v.approver)

\* The versions of a policy are numbered from 1 without a gap and its current_version is
\* the last, although creations that overlap count from histories of different length.
NumbersAreDense ==
    \A p \in Policies : Present(version[p]) = 1..policy[p].current

-----------------------------------------------------------------------------
(* Safety of the requests that do not overlap others on the policy *)

\* A request that names the latest version, and starts it after every version it ends and
\* not in the future.
Prudent(c) ==
    /\ c.op \in Moves => c.number = c.last
    /\ c.op = "ACTIVE" /\ c.date # Null =>
          /\ c.date <= c.at
          /\ \A m \in c.previous : c.rows[m].from < c.date

\* A prudent request that found a sound history, and that no other commit on its policy
\* overlapped, leaves a sound one: the domain goes on loading it, the pointer names what is
\* ACTIVE, and there is no gap without weights.
UndisturbedKeepsSound ==
    [][\A w \in Workers, p \in Policies :
          /\ call[w].phase = "commit" /\ call[w].policy = p /\ call[w].orderly
          /\ Prudent(call[w])
          /\ call'[w] = Idle
          => Sound(p)']_vars

-----------------------------------------------------------------------------
(* What the repository says of the rows, and overlapping or careless requests break *)

\* activeVersion points to an ACTIVE version, and versions are consistent: the history loads.
HistoryLoads == \A p \in Policies : Exists(p) => Loadable(policy[p], version[p])

\* What a version is made of, its weights and its author, is fixed when it is created.
DefinitionIsAppendOnly ==
    [][\A p \in Policies : \A n \in Present(version[p]) :
            /\ version'[p][n].weights = version[p][n].weights
            /\ version'[p][n].author = version[p][n].author]_vars

\* The weights in effect have an approver, who did not write them.
EffectIsApproved ==
    \A p \in Policies : \A n \in InEffect(p) :
        LET v == version[p][n] IN v.author # System => v.approver \notin {Null, v.author}

\* A window that has both ends is not empty.
WindowsAreOrdered ==
    \A p \in Policies : \A n \in Present(version[p]) :
        LET v == version[p][n] IN v.from # Null /\ v.to # Null => v.from < v.to
=============================================================================
