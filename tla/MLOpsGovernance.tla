--------------------------- MODULE MLOpsGovernance ---------------------------
(***************************************************************************)
(* The governance of models (mlops/service.py, mlops/routes.py): a         *)
(* training run is registered with its inference artifact, its lineage     *)
(* validated, submitted, approved and promoted; a champion is replaced,    *)
(* retired or rolled back.                                                 *)
(*                                                                         *)
(* Two tables say which model is the champion: ml.training_runs, which the *)
(* workflow reads, and ml.model_registry, which scoring reads.  A request  *)
(* loads the whole of the first before it decides (no row is locked) and   *)
(* commits when its handler is over, so requests overlap.                  *)
(***************************************************************************)
EXTENDS Naturals, FiniteSets

CONSTANTS
    Versions,    \* model versions that can be registered, of one modelId
    Bootstrap,   \* the version the migrations made champion, which has no run
    Authors,     \* DATA_ANALYST, ADMIN
    Reviewers,   \* RULE_APPROVER, ADMIN
    Releasers,   \* ADMIN
    Workers,     \* requests served at once
    Nobody

ASSUME GovernanceAssumption ==
    /\ Bootstrap \notin Versions
    /\ Nobody \notin Authors \union Reviewers \union Releasers

VARIABLES
    runs,      \* runs[v]: the row of ml.training_runs, NoRun before it is registered
    registry,  \* registry[v]: the status of v in ml.model_registry
    audits,    \* ml.governance_audit_logs: who did what to which version
    request    \* request[w]: what worker w decided and has not committed

vars == <<runs, registry, audits, request>>

Actors == Authors \union Reviewers \union Releasers
RunStatus == {"REGISTERED", "VALIDATING", "SUBMITTED", "APPROVED", "CHAMPION", "RETIRED"}
RegistryStatus == {"CHALLENGER", "CHAMPION", "RETIRED"}
Transition == {"LINEAGE_VALIDATED", "SUBMITTED", "APPROVED", "PROMOTED", "RETIRED", "ROLLED_BACK"}
AuditAction == Transition \union {"REGISTERED", "CHAMPION_RESTORED"}

Run == [status : RunStatus \union {"ABSENT"}, author : Actors \union {Nobody},
        approvedBy : Actors \union {Nobody}, valid : BOOLEAN]
NoRun == [status |-> "ABSENT", author |-> Nobody, approvedBy |-> Nobody, valid |-> FALSE]

\* seen holds the rows the request read and will write; fresh, whether nobody committed
\* since (no part of the program: it tells the properties which requests did not overlap).
Request == [does : Transition \union {"NOTHING"}, by : Actors \union {Nobody},
            run : Versions \union {Bootstrap}, replaces : Versions \union {Bootstrap},
            seen : [Versions -> Run], fresh : BOOLEAN]
NoRequest == [does |-> "NOTHING", by |-> Nobody, run |-> Bootstrap, replaces |-> Bootstrap,
              seen |-> [v \in Versions |-> NoRun], fresh |-> TRUE]

TypeOK ==
    /\ runs \in [Versions -> Run]
    /\ registry \in [Versions \union {Bootstrap} -> RegistryStatus \union {"ABSENT"}]
    /\ audits \subseteq [action : AuditAction, by : Actors, run : Versions]
    /\ request \in [Workers -> Request]

Init ==
    /\ runs = [v \in Versions |-> NoRun]
    /\ registry = [v \in Versions \union {Bootstrap} |->
                      IF v = Bootstrap THEN "CHAMPION" ELSE "ABSENT"]
    /\ audits = {}
    /\ request = [w \in Workers |-> NoRequest]

-----------------------------------------------------------------------------
Registered == {v \in Versions : runs[v].status # "ABSENT"}

\* Every run with a status: the champion and the previous champion of the service are one
\* of them, in the order in which an unordered SELECT returns the rows.
WithStatus(s) == {v \in Versions : runs[v].status = s}

\* active_model: what scoring uses.
Served == {v \in Versions \union {Bootstrap} : registry[v] = "CHAMPION"}

Event(action, by, v) == [action |-> action, by |-> by, run |-> v]

\* The requests of ws are over; the others no longer know all that is committed.
Finished(ws) ==
    request' = [w \in Workers |->
                   IF w \in ws \/ request[w] = NoRequest THEN NoRequest
                   ELSE [request[w] EXCEPT !.fresh = FALSE]]

\* The artifact and the run are inserted in one transaction, their versions unique.
Register(a, v) ==
    /\ runs[v].status = "ABSENT"
    /\ registry[v] = "ABSENT"
    /\ runs' = [runs EXCEPT ![v] = [NoRun EXCEPT !.status = "REGISTERED", !.author = a]]
    /\ registry' = [registry EXCEPT ![v] = "CHALLENGER"]
    /\ audits' = audits \union {Event("REGISTERED", a, v)}
    /\ Finished({})

-----------------------------------------------------------------------------
(* A request loads the runs and decides.                                   *)

Decide(w, does, a, v, replaced) ==
    /\ request[w] = NoRequest
    /\ request' = [request EXCEPT ![w] =
           [does |-> does, by |-> a, run |-> v, replaces |-> replaced,
            seen |-> [x \in Versions |-> IF x \in {v, replaced} THEN runs[x] ELSE NoRun],
            fresh |-> TRUE]]
    /\ UNCHANGED <<runs, registry, audits>>

\* A lineage that is contaminated is refused, and the refusal rolled back.
ValidateLineage(w, a, v) ==
    /\ v \in Registered
    /\ Decide(w, "LINEAGE_VALIDATED", a, v, Bootstrap)

Submit(w, a, v) ==
    /\ runs[v].valid
    /\ runs[v].status = "VALIDATING"
    /\ Decide(w, "SUBMITTED", a, v, Bootstrap)

\* Fault: an author approves his own model.
ApproveOwn(w, a, v) ==
    /\ runs[v].status = "SUBMITTED"
    /\ Decide(w, "APPROVED", a, v, Bootstrap)

Approve(w, a, v) ==
    /\ runs[v].status = "SUBMITTED"
    /\ a # runs[v].author
    /\ Decide(w, "APPROVED", a, v, Bootstrap)

\* The champion it replaces is one of the runs, if there is one.
Promote(w, a, v) ==
    /\ runs[v].status = "APPROVED"
    /\ runs[v].approvedBy \notin {Nobody, a}
    /\ \E c \in IF WithStatus("CHAMPION") = {} THEN {Bootstrap} ELSE WithStatus("CHAMPION") :
          Decide(w, "PROMOTED", a, v, c)

Retire(w, a, v) ==
    /\ runs[v].status = "CHAMPION"
    /\ Decide(w, "RETIRED", a, v, Bootstrap)

\* The target is named, or the previous champion: any retired run.
Rollback(w, a, v) ==
    /\ runs[v].status = "RETIRED"
    /\ \E c \in WithStatus("CHAMPION") : Decide(w, "ROLLED_BACK", a, v, c)

-----------------------------------------------------------------------------
(* It writes the rows it saw, changed, and commits.                        *)

StatusAfter(does, status) ==
    CASE does = "LINEAGE_VALIDATED" -> IF status = "REGISTERED" THEN "VALIDATING" ELSE status
      [] does \in {"PROMOTED", "ROLLED_BACK"} -> "CHAMPION"
      [] OTHER -> does

RunAfter(r, row) ==
    [row EXCEPT !.status = StatusAfter(r.does, row.status),
                !.valid = @ \/ r.does = "LINEAGE_VALIDATED",
                !.approvedBy = IF r.does = "APPROVED" THEN r.by ELSE @]

Column(now, seen, new) == IF new = seen THEN now ELSE new

\* save() sets every column of the row it reads again: those that differ are written, over
\* what another request committed, or under its lock over what it is about to commit.
Saved(now, seen, new) ==
    {new, [now EXCEPT !.status = Column(@, seen.status, new.status),
                      !.approvedBy = Column(@, seen.approvedBy, new.approvedBy),
                      !.valid = Column(@, seen.valid, new.valid)]}

\* The run that r replaces is saved as retired.
Replaced(r) ==
    LET seen == r.seen[r.replaces]
    IN  Saved(runs[r.replaces], seen, [seen EXCEPT !.status = "RETIRED"])

SaveRuns(r, replaced) ==
    \E row \in Saved(runs[r.run], r.seen[r.run], RunAfter(r, r.seen[r.run])), old \in replaced :
        runs' = [v \in Versions |-> CASE v = r.run -> row
                                      [] v = r.replaces -> old
                                      [] OTHER -> runs[v]]

Commit(w, does, events) ==
    /\ request[w].does \in does
    /\ audits' = audits \union events
    /\ Finished({w})

\* Fault: the event names the champion instead of the run.
PerformedOnReplaced(r) == Event(r.does, r.by, r.replaces)

Performed(r) == Event(r.does, r.by, r.run)

\* Fault: the inference artifact of a retired run is withdrawn.
CommitTransitionWithdraws(w) ==
    LET r == request[w]
    IN  /\ Commit(w, Transition \ {"PROMOTED", "ROLLED_BACK"}, {Performed(r)})
        /\ SaveRuns(r, {NoRun})
        /\ registry' = IF r.does = "RETIRED" THEN [registry EXCEPT ![r.run] = "RETIRED"]
                       ELSE registry

\* The registry is left alone, also by a retirement.
CommitTransition(w) ==
    /\ Commit(w, Transition \ {"PROMOTED", "ROLLED_BACK"}, {Performed(request[w])})
    /\ SaveRuns(request[w], {NoRun})
    /\ UNCHANGED registry

\* Fault: the run of the champion it replaces keeps its status.
CommitPromotionAlone(w) ==
    LET r == request[w]
    IN  /\ Commit(w, {"PROMOTED"},
                  {Performed(r)} \union IF r.replaces = Bootstrap THEN {}
                                        ELSE {Event("RETIRED", r.by, r.replaces)})
        /\ SaveRuns(r, {IF r.replaces = Bootstrap THEN NoRun ELSE runs[r.replaces]})
        /\ registry' = [v \in DOMAIN registry |->
               CASE v = r.run -> "CHAMPION"
                 [] v # r.run /\ v \in Served -> "RETIRED"
                 [] OTHER -> registry[v]]

\* promote_registry retires whatever is served at the moment; the runs are those seen.
CommitPromotion(w) ==
    LET r == request[w]
    IN  /\ Commit(w, {"PROMOTED"},
                  {Performed(r)} \union IF r.replaces = Bootstrap THEN {}
                                        ELSE {Event("RETIRED", r.by, r.replaces)})
        /\ SaveRuns(r, IF r.replaces = Bootstrap THEN {NoRun} ELSE Replaced(r))
        /\ registry' = [v \in DOMAIN registry |->
               CASE v = r.run -> "CHAMPION"
                 [] v # r.run /\ v \in Served -> "RETIRED"
                 [] OTHER -> registry[v]]

\* rollback_registry retires the champion seen: the unique index refuses the target when
\* another is served.
CommitRollback(w) ==
    LET r == request[w]
    IN  /\ Served \subseteq {r.run, r.replaces}
        /\ Commit(w, {"ROLLED_BACK"}, {Event("ROLLED_BACK", r.by, r.replaces),
                                       Event("CHAMPION_RESTORED", r.by, r.run)})
        /\ SaveRuns(r, Replaced(r))
        /\ registry' = [registry EXCEPT ![r.replaces] = "RETIRED", ![r.run] = "CHAMPION"]

\* Any request can fail before it commits: an error, a unique index, a lost worker.
Fail(w) ==
    /\ request[w] # NoRequest
    /\ request' = [request EXCEPT ![w] = NoRequest]
    /\ UNCHANGED <<runs, registry, audits>>

Author(w, a, v) == ValidateLineage(w, a, v) \/ Submit(w, a, v)
Release(w, a, v) == Promote(w, a, v) \/ Retire(w, a, v) \/ Rollback(w, a, v)

Next ==
    \/ \E v \in Versions :
          \/ \E a \in Authors : Register(a, v)
          \/ \E w \in Workers :
                \/ \E a \in Authors : Author(w, a, v)
                \/ \E a \in Reviewers : Approve(w, a, v)
                \/ \E a \in Releasers : Release(w, a, v)
    \/ \E w \in Workers :
          CommitTransition(w) \/ CommitPromotion(w) \/ CommitRollback(w) \/ Fail(w)

Spec == Init /\ [][Next]_vars

-----------------------------------------------------------------------------
Did(action, v) == {e.by : e \in {x \in audits : x.action = action /\ x.run = v}}

\* Scoring always has exactly one model, although promotions, retirements and rollbacks
\* overlap and decide on runs that others are changing.
OneServed == \E v \in Versions \union {Bootstrap} : Served = {v}

\* Whatever is served or was promoted had its lineage validated, was submitted, and was
\* approved by nobody who registered it and by somebody who did not promote it, although
\* the rows a request decides on may be overwritten by another.
ReleaseIsReviewed ==
    \A v \in Versions : v \in Served \/ Did("PROMOTED", v) # {} =>
        /\ Did("LINEAGE_VALIDATED", v) # {} /\ Did("SUBMITTED", v) # {} /\ Did("PROMOTED", v) # {}
        /\ Did("APPROVED", v) \intersect Did("REGISTERED", v) = {}
        /\ \A a \in Did("PROMOTED", v) : Did("APPROVED", v) \ {a} # {}

\* The two tables name the same champion.
ChampionsAgree == WithStatus("CHAMPION") = Served \ {Bootstrap}

\* A promotion or a rollback during which nobody else commits leaves the runs and the
\* registry in agreement.
ReleaseSynchronises ==
    [][\A w \in Workers :
           /\ request[w].fresh /\ request[w].does \in {"PROMOTED", "ROLLED_BACK"}
           /\ ChampionsAgree /\ runs' # runs /\ request'[w] = NoRequest
           => ChampionsAgree']_vars

=============================================================================
