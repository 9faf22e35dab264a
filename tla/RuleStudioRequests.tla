------------------------- MODULE RuleStudioRequests -------------------------
(***************************************************************************)
(* RuleStudio with its requests opened up.  A request of a worker thread   *)
(* of rule-management-service or rule-simulation-service reads the row of  *)
(* its rule, decides on what it read, and commits later, while requests    *)
(* on the same rule run in other workers and any of them may die.          *)
(*                                                                         *)
(* What is relied on outside src/ is PostgreSQL at READ COMMITTED: SELECT  *)
(* ... FOR UPDATE waits for the row lock and returns the newest committed  *)
(* row; an INSERT waits for an uncommitted one of the same unique key and  *)
(* fails if that one commits; a lock is given back at the end of the       *)
(* transaction, however it ends.                                           *)
(***************************************************************************)
EXTENDS RuleStudio

CONSTANT Workers

ASSUME WorkersAssumption == Null \notin Workers

VARIABLES
    call,   \* call[w]: the request worker w is serving
    lock    \* lock[r]: the worker whose transaction holds the row (or the key) of r

rqVars == <<rule, version, submission, approval, simulated, audit, call, lock>>

Events == {"validate", "simulate", "submit", "approve", "publish", "disable"}

\* The status an event requires (TRANSITIONS; publish stands for publish and activate).
Required ==
    [validate |-> "DRAFT", simulate |-> "VALIDATED", submit |-> "SIMULATED",
     approve |-> "SUBMITTED", publish |-> "APPROVED", disable |-> "ACTIVE"]

Inserting == {"create", "duplicate"}

Drafting == {"update", "rollback"}

\* Who may call the endpoint (require_roles).
RoleOf(op) ==
    CASE op \in {"create", "duplicate", "update", "validate", "submit"} -> Authors
      [] op = "simulate" -> Simulators
      [] op \in {"approve", "publish", "rollback", "disable"} -> Approvers

RqInit ==
    /\ Init
    /\ call = [w \in Workers |-> Null]
    /\ lock = [r \in RuleIds |-> Null]

-----------------------------------------------------------------------------
(* The life of a request *)

\* An end of the transaction of w: the lock it may hold is released.
Finish(w) ==
    /\ call' = [call EXCEPT ![w] = Null]
    /\ lock' = [r \in RuleIds |-> IF lock[r] = w THEN Null ELSE lock[r]]

Accept(w, op, r, a, d, target) ==
    /\ call[w] = Null
    /\ a \in RoleOf(op)
    /\ call' = [call EXCEPT ![w] =
            [op |-> op, rule |-> r, actor |-> a, definition |-> d, target |-> target,
             phase |-> "received", seen |-> AbsentRule]]
    /\ UNCHANGED <<vars, lock>>

\* POST /rules with a document that passes validate_rule_definition and an identifier
\* no committed rule has yet.
ReceiveCreate(w, r, a, d) ==
    /\ d \in ValidDefinitions
    /\ ~Exists(r)
    /\ Accept(w, "create", r, a, d, 1)

\* POST /rules/{s}/duplicate reads the latest version of s without a lock and
\* goes on like a creation with the document it read, under a fresh identifier.
ReceiveDuplicate(w, s, r, a) ==
    /\ Exists(s)
    /\ Latest(s).definition \in ValidDefinitions
    /\ ~Exists(r)
    /\ Accept(w, "duplicate", r, a, Latest(s).definition, 1)

Receive(w) ==
    \E r \in RuleIds, a \in Actors :
        \/ \E d \in Definitions : ReceiveCreate(w, r, a, d) \/ Accept(w, "update", r, a, d, 1)
        \/ \E s \in RuleIds : ReceiveDuplicate(w, s, r, a)
        \/ \E target \in Versions : Accept(w, "rollback", r, a, Null, target)
        \/ \E op \in Events : Accept(w, op, r, a, Null, 1)

\* Fault: find_rule without FOR UPDATE.
AcquireUnlocked(w) ==
    /\ call[w] # Null
    /\ call[w].phase = "received"
    /\ call' = [call EXCEPT ![w].phase = "locked", ![w].seen = rule[call[w].rule]]
    /\ UNCHANGED <<vars, lock>>

\* find_rule(lock=True), and the insertion of the row of a new rule: the
\* worker waits for the transaction that holds the row, then sees what it committed.
Acquire(w) ==
    /\ call[w] # Null
    /\ call[w].phase = "received"
    /\ lock[call[w].rule] = Null
    /\ lock' = [lock EXCEPT ![call[w].rule] = w]
    /\ call' = [call EXCEPT ![w].phase = "locked", ![w].seen = rule[call[w].rule]]
    /\ UNCHANGED vars

\* The conditions under which the transaction of a locked call commits, on the
\* row of the rule it saw.  Everything else is answered 403, 404, 409 or 422 (or,
\* in the model, would exceed MaxVersion).
Admissible(c) ==
    \/ /\ c.op \in Inserting
       /\ c.seen.status = "ABSENT"
    \/ /\ c.op \in Drafting
       /\ c.seen.status \notin InReview \cup {"ABSENT"}
       /\ c.op = "update" => c.definition \in ValidDefinitions
       /\ c.op = "rollback" => version[c.rule][c.target].status # "ABSENT"
       /\ c.seen.current < MaxVersion
    \/ /\ c.op \in Events
       /\ c.seen.status = Required[c.op]
       /\ c.op = "validate" => version[c.rule][c.seen.current].definition \in ValidDefinitions
       /\ c.op = "approve" => version[c.rule][c.seen.current].author # c.actor

Locked(w) == call[w] # Null /\ call[w].phase = "locked"

\* Fault: an error answer leaves the transaction open.
RefuseKeepsLock(w) ==
    /\ Locked(w)
    /\ ~Admissible(call[w])
    /\ call' = [call EXCEPT ![w] = Null]
    /\ UNCHANGED <<vars, lock>>

Refuse(w) ==
    /\ Locked(w)
    /\ ~Admissible(call[w])
    /\ Finish(w)
    /\ UNCHANGED vars

\* The process is killed, the connection drops or the statement times out.
Fail(w) ==
    /\ call[w] # Null
    /\ Finish(w)
    /\ UNCHANGED vars

-----------------------------------------------------------------------------
(* Commits: what was seen decides, the tables as they are now are written *)

CommitDraft(w) ==
    LET c == call[w]
        v == c.seen.current + 1
    IN  /\ Locked(w)
        /\ Admissible(c)
        /\ \/ c.op \in Inserting /\ PersistDraft(c.rule, v, c.actor, c.definition, "CREATED")
           \/ c.op = "update" /\ PersistDraft(c.rule, v, c.actor, c.definition, "UPDATED")
           \/ /\ c.op = "rollback"
              /\ PersistDraft(c.rule, v, c.actor, version[c.rule][c.target].definition, "ROLLED_BACK")
        /\ Finish(w)

\* The columns a transition writes: rules.status, and the status of the version
\* that was the latest when the row was read.
MoveSeen(c, to) ==
    /\ rule' = [rule EXCEPT ![c.rule].status = to]
    /\ version' = [version EXCEPT ![c.rule][c.seen.current].status = to]

CommitEvent(w) ==
    LET c == call[w]
        r == c.rule
        v == c.seen.current
    IN  /\ Locked(w)
        /\ Admissible(c)
        /\ \/ /\ c.op = "validate"
              /\ MoveSeen(c, "VALIDATED")
              /\ Log(r, v, "VALIDATED")
              /\ UNCHANGED <<submission, approval, simulated>>
           \/ /\ c.op = "submit"
              /\ MoveSeen(c, "SUBMITTED")
              /\ submission' = [submission EXCEPT ![r][v] = c.actor]
              /\ Log(r, v, "SUBMITTED")
              /\ UNCHANGED <<approval, simulated>>
           \/ /\ c.op = "approve"
              /\ MoveSeen(c, "APPROVED")
              /\ approval' = [approval EXCEPT ![r][v] = c.actor]
              /\ Log(r, v, "APPROVED")
              /\ UNCHANGED <<submission, simulated>>
           \/ /\ c.op = "disable"
              /\ MoveSeen(c, "DISABLED")
              /\ Log(r, v, "DISABLED")
              /\ UNCHANGED <<submission, approval, simulated>>
        /\ Finish(w)

\* simulate_persisted_history scans the history of the customers while it
\* holds the row, then stores its result and moves the rule.
CommitSimulation(w) ==
    LET c == call[w]
        r == c.rule
        row == [version |-> c.seen.current, action |-> "SIMULATED"]
    IN  /\ Locked(w)
        /\ Admissible(c)
        /\ c.op = "simulate"
        /\ MoveSeen(c, "SIMULATED")
        /\ simulated' = [simulated EXCEPT ![r] = @ \cup {c.seen.current}]
        /\ audit' = [audit EXCEPT ![r] = Append(Append(@, row), row)]
        /\ UNCHANGED <<submission, approval>>
        /\ Finish(w)

CommitPublication(w) ==
    LET c == call[w]
        r == c.rule
        v == c.seen.current
    IN  /\ Locked(w)
        /\ Admissible(c)
        /\ c.op = "publish"
        /\ rule' = [rule EXCEPT ![r].status = "ACTIVE", ![r].active = v]
        /\ version' = [version EXCEPT ![r] = [u \in Versions |->
               IF u = v THEN [version[r][u] EXCEPT !.status = "ACTIVE"]
               ELSE IF version[r][u].status = "ACTIVE"
               THEN [version[r][u] EXCEPT !.status = "RETIRED"]
               ELSE version[r][u]]]
        /\ audit' = [audit EXCEPT ![r] = Append(Append(@,
                        [version |-> v, action |-> "PUBLISHED"]),
                        [version |-> v, action |-> "ACTIVATED"])]
        /\ UNCHANGED <<submission, approval, simulated>>
        /\ Finish(w)

Commit(w) == CommitDraft(w) \/ CommitEvent(w) \/ CommitSimulation(w) \/ CommitPublication(w)

RqNext ==
    \E w \in Workers :
        \/ Receive(w)
        \/ Acquire(w)
        \/ Refuse(w)
        \/ Fail(w)
        \/ Commit(w)

\* A worker goes on with its request, and the lock manager of the database
\* queues the waiters of a row: none waits while others overtake it for ever.
RqFairness ==
    \A w \in Workers :
        /\ WF_rqVars(Refuse(w) \/ Commit(w))
        /\ SF_rqVars(Acquire(w))

RqSpec == RqInit /\ [][RqNext]_rqVars /\ RqFairness

-----------------------------------------------------------------------------
\* Whatever the interleaving, the requests that commit do what they would do one at a
\* time: RuleStudio, in which a request is one step.
Serializable == Spec

\* Every request is answered: nobody waits for ever for the row of a rule, although
\* workers die holding it.
EveryRequestEnds ==
    \A w \in Workers : call[w] # Null ~> call[w] = Null

-----------------------------------------------------------------------------
(* The inductive invariant *)

Calls ==
    [op: Inserting \cup Drafting \cup Events, rule: RuleIds, actor: Actors,
     definition: Definitions \cup {Null}, target: Versions,
     phase: {"received", "locked"}, seen: RuleRow]

\* A request passed its endpoint's role check and the validation of its document.
Received(c) ==
    /\ c.actor \in RoleOf(c.op)
    /\ c.op \in Inserting => c.definition \in ValidDefinitions

\* What a locked call saw of its rule is still so when it decides and commits: it
\* holds the row, and nobody writes a row he does not hold.
SeenIsCurrent ==
    \A w \in Workers : Locked(w) =>
        /\ lock[call[w].rule] = w
        /\ call[w].seen = rule[call[w].rule]

RqInv ==
    /\ IInv
    /\ call \in [Workers -> Calls \cup {Null}]
    /\ lock \in [RuleIds -> Workers \cup {Null}]
    /\ \A w \in Workers : call[w] # Null => Received(call[w])
    /\ SeenIsCurrent
=============================================================================
