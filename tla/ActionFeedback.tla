--------------------------- MODULE ActionFeedback ---------------------------
(***************************************************************************)
(* What relationship managers report of a customer's opportunities         *)
(* (backend/src/boa_oi/action_api.py) and the label ml-engine makes of it  *)
(* (materialize_outcomes in ml_engine_api.py).                             *)
(*                                                                         *)
(* create_action is a coroutine on the one event loop of action-service:   *)
(* it awaits the opportunity between looking for its key and writing, and  *)
(* its flush may wait, with the loop, for a row another creation has not   *)
(* committed.  update_action and materialize_outcomes run in threads and   *)
(* lock nothing they read; SQLAlchemy writes the columns that changed.     *)
(* recorded_at is the start of the transaction: every transaction that     *)
(* may write an outcome starts at a time of its own.                       *)
(***************************************************************************)
EXTENDS Naturals

CONSTANTS
    Opportunities,  \* of one customer
    Keys,           \* values of Idempotency-Key; an action is named by its key
    Types,          \* the action types of the requests
    Outcomes,       \* the outcomes of the requests
    Statuses,       \* the statuses of the requests
    Posts,          \* slots of the requests to create: each is reused
    Patches,        \* requests to update, one after the other
    Materializers,  \* requests to materialize the one snapshot, one after the other
    From, Until,    \* observationAsOf and labelAvailableFrom of the snapshot
    None,
    MaxTime         \* bound: transactions that may write an outcome

ActionTypes == {"ACCEPT_OPPORTUNITY", "DISMISS_OPPORTUNITY", "CONTACT_CUSTOMER",
                "CREATE_FOLLOW_UP", "SCHEDULE_MEETING", "MARK_CONVERTED"}

LabelOf == [CONTACTED         |-> [label |-> "CONTACTED",      value |-> "UNKNOWN"],
            MEETING_SCHEDULED |-> [label |-> "INTERESTED",     value |-> "UNKNOWN"],
            OFFER_CREATED     |-> [label |-> "OFFER_CREATED",  value |-> "UNKNOWN"],
            CONVERTED         |-> [label |-> "CONVERTED",      value |-> "TRUE"],
            REJECTED          |-> [label |-> "NOT_INTERESTED", value |-> "FALSE"],
            NOT_RELEVANT      |-> [label |-> "REVIEW_LATER",   value |-> "UNKNOWN"]]
OutcomeTypes == DOMAIN LabelOf

ASSUME TypesAssumption == Types \subseteq ActionTypes /\ Outcomes \subseteq OutcomeTypes
ASSUME NoneAssumption == None \notin Keys \cup OutcomeTypes \cup Statuses
ASSUME TimeAssumption == MaxTime \in Nat /\ From \in Nat /\ Until \in Nat /\ From < Until

VARIABLES
    actions,        \* opportunity_actions, by key
    outcomes,       \* action_outcomes
    label,          \* the row of outcome_label_snapshots of the customer and the snapshot
    post, patch, making,    \* the requests
    now

vars == <<actions, outcomes, label, post, patch, making, now>>
-----------------------------------------------------------------------------
Absent == [type |-> None]

Action  == [opp : Opportunities, type : ActionTypes, status : Statuses \cup {"OPEN", "COMPLETED"},
            outcome : OutcomeTypes \cup {None}]
Outcome == [key : Keys, opp : Opportunities, type : OutcomeTypes, at : Nat]
Label   == [opp : Opportunities, label : {LabelOf[t].label : t \in OutcomeTypes},
            value : {"UNKNOWN", "TRUE", "FALSE"}, src : Nat]

(* Flushing: its INSERT runs on the loop.  Returned: the handler is over.  *)
(* Closing: a thread ends the session.  Created, stored: it was answered   *)
(* with the action of its key.  Any other answer leaves Absent.            *)
PostStates == {"asking", "flushing", "returned", "closing", "created", "stored"}

TypeOK ==
    /\ actions \in [Keys -> Action \cup {Absent}]
    /\ outcomes \subseteq Outcome
    /\ label \in Label \cup {Absent}
    /\ post \in [Posts -> [pc : PostStates, key : Keys, opp : Opportunities, type : ActionTypes,
                           at : Nat] \cup {Absent}]
    /\ patch \in [Patches -> [key : Keys, loaded : Action, outcome : OutcomeTypes \cup {None},
                              status : Statuses \cup {None}, at : Nat] \cup {Absent}]
    /\ making \in [Materializers -> [seen : SUBSET Outcome, loaded : Label \cup {Absent, None}]
                                    \cup {Absent}]
    /\ now \in Nat

Init ==
    /\ actions = [k \in Keys |-> Absent]
    /\ outcomes = {}
    /\ label = Absent
    /\ post = [p \in Posts |-> Absent]
    /\ patch = [q \in Patches |-> Absent]
    /\ making = [m \in Materializers |-> Absent]
    /\ now = 0
-----------------------------------------------------------------------------
(* Creating an action. *)

Exists(k) == actions[k] # Absent
At(p, pc) == post[p] # Absent /\ post[p].pc = pc
LoopIsFree == \A p \in Posts : ~At(p, "flushing")

FirstOutcome(type) ==
    IF type = "MARK_CONVERTED" THEN "CONVERTED"
    ELSE IF type = "DISMISS_OPPORTUNITY" THEN "NOT_RELEVANT" ELSE None

FirstStatus(type) ==
    IF type \in {"ACCEPT_OPPORTUNITY", "DISMISS_OPPORTUNITY", "MARK_CONVERTED"} THEN "COMPLETED" ELSE "OPEN"

Engages(a) == \/ a.type \in {"CONTACT_CUSTOMER", "SCHEDULE_MEETING"}
              \/ a.outcome \in {"CONTACTED", "MEETING_SCHEDULED", "OFFER_CREATED"}

\* Fault: the engagement of another opportunity of the customer counts.
EngagedAnywhere(opp) == \E k \in Keys : Exists(k) /\ Engages(actions[k])

Engaged(opp) == \E k \in Keys : Exists(k) /\ actions[k].opp = opp /\ Engages(actions[k])

Refuse(p) == post' = [post EXCEPT ![p] = Absent]

\* Fault: the stored action is the answer whatever the content.
AnyContent(stored, opp, type) == TRUE

SameContent(stored, opp, type) == stored.opp = opp /\ stored.type = type

(* The action of the key, or its absence, decides: the body of a request   *)
(* is what it says of which opportunity.                                   *)
Receive(p) ==
    /\ \A pc \in PostStates \ {"created", "stored"} : ~At(p, pc)
    /\ LoopIsFree
    /\ now < MaxTime
    /\ now' = now + 1
    /\ \E k \in Keys, opp \in Opportunities, type \in Types :
        LET request(pc) == [pc |-> pc, key |-> k, opp |-> opp, type |-> type, at |-> now]
        IN  IF ~Exists(k) THEN post' = [post EXCEPT ![p] = request("asking")]
            ELSE IF SameContent(actions[k], opp, type) THEN post' = [post EXCEPT ![p] = request("stored")]
            ELSE Refuse(p)
    /\ UNCHANGED <<actions, outcomes, label, patch, making>>

(* opportunity-service does not answer, or names another customer. *)
AskFails(p) ==
    /\ At(p, "asking") /\ LoopIsFree
    /\ Refuse(p)
    /\ UNCHANGED <<actions, outcomes, label, patch, making, now>>

Asked(p) ==
    /\ At(p, "asking") /\ LoopIsFree
    /\ IF post[p].type = "MARK_CONVERTED" /\ ~Engaged(post[p].opp)
       THEN Refuse(p)
       ELSE post' = [post EXCEPT ![p].pc = "flushing"]
    /\ UNCHANGED <<actions, outcomes, label, patch, making, now>>

(* The INSERT waits for a session that has inserted the same key, and      *)
(* fails on one that is committed.                                         *)
Flush(p) ==
    /\ At(p, "flushing")
    /\ \A o \in Posts : At(o, "returned") \/ At(o, "closing") => post[o].key # post[p].key
    /\ IF Exists(post[p].key) THEN Refuse(p) ELSE post' = [post EXCEPT ![p].pc = "returned"]
    /\ UNCHANGED <<actions, outcomes, label, patch, making, now>>

(* The loop gives the end of the session to a thread. *)
Return(p) ==
    /\ At(p, "returned") /\ LoopIsFree
    /\ post' = [post EXCEPT ![p].pc = "closing"]
    /\ UNCHANGED <<actions, outcomes, label, patch, making, now>>

NewAction(p) == [opp |-> post[p].opp, type |-> post[p].type, status |-> FirstStatus(post[p].type),
                 outcome |-> FirstOutcome(post[p].type)]

NewOutcome(k, opp, type, at) == [key |-> k, opp |-> opp, type |-> type, at |-> at]

\* Fault: the outcome of a new action is not recorded.
CommitActionOnly(p) ==
    /\ At(p, "closing")
    /\ actions' = [actions EXCEPT ![post[p].key] = NewAction(p)]
    /\ post' = [post EXCEPT ![p].pc = "created"]
    /\ UNCHANGED <<outcomes, label, patch, making, now>>

\* Fault: every new action has an outcome.
CommitWithOutcome(p) ==
    /\ At(p, "closing")
    /\ actions' = [actions EXCEPT ![post[p].key] = NewAction(p)]
    /\ outcomes' = outcomes \cup {NewOutcome(post[p].key, post[p].opp, FirstOutcome(post[p].type), post[p].at)}
    /\ post' = [post EXCEPT ![p].pc = "created"]
    /\ UNCHANGED <<label, patch, making, now>>

Commit(p) ==
    LET first == FirstOutcome(post[p].type) IN
    /\ At(p, "closing")
    /\ actions' = [actions EXCEPT ![post[p].key] = NewAction(p)]
    /\ outcomes' = outcomes \cup (IF first = None THEN {}
                                  ELSE {NewOutcome(post[p].key, post[p].opp, first, post[p].at)})
    /\ post' = [post EXCEPT ![p].pc = "created"]
    /\ UNCHANGED <<label, patch, making, now>>

-----------------------------------------------------------------------------
(* Updating an action. *)

Load(q) ==
    /\ patch[q] = Absent
    /\ now < MaxTime
    /\ now' = now + 1
    /\ \E k \in Keys, o \in Outcomes \cup {None}, s \in Statuses \cup {None} :
        /\ Exists(k)
        /\ patch' = [patch EXCEPT ![q] = [key |-> k, loaded |-> actions[k], outcome |-> o,
                                          status |-> s, at |-> now]]
    /\ UNCHANGED <<actions, outcomes, label, post, making>>

Written(old, new, current) == IF new = old THEN current ELSE new

(* An outcome completes the action; of the columns, those with another     *)
(* value than the one loaded are written over what is there now.           *)
Update(q) ==
    LET u == patch[q]
        outcome == IF u.outcome = None THEN u.loaded.outcome ELSE u.outcome
        status  == IF u.outcome # None THEN "COMPLETED"
                   ELSE IF u.status # None THEN u.status ELSE u.loaded.status
    IN
    /\ u # Absent
    /\ actions' = [actions EXCEPT
           ![u.key].outcome = Written(u.loaded.outcome, outcome, @),
           ![u.key].status  = Written(u.loaded.status, status, @)]
    /\ outcomes' = outcomes \cup (IF u.outcome = None THEN {}
                                  ELSE {NewOutcome(u.key, u.loaded.opp, u.outcome, u.at)})
    /\ patch' = [patch EXCEPT ![q] = Absent]
    /\ UNCHANGED <<label, post, making, now>>
-----------------------------------------------------------------------------
(* Making the label. *)

InWindow(o) == From <= o.at /\ o.at < Until

Latest(seen) == CHOOSE o \in seen : \A other \in seen : other.at <= o.at

\* Fault: the end of the window is in it.
ReadPastEnd(m) ==
    /\ making[m] = Absent
    /\ making' = [making EXCEPT ![m] = [seen |-> {o \in outcomes : From <= o.at /\ o.at <= Until}, loaded |-> None]]
    /\ UNCHANGED <<actions, outcomes, label, post, patch, now>>

(* The outcomes of the window that are committed. *)
ReadOutcomes(m) ==
    /\ making[m] = Absent
    /\ making' = [making EXCEPT ![m] = [seen |-> {o \in outcomes : InWindow(o)}, loaded |-> None]]
    /\ UNCHANGED <<actions, outcomes, label, post, patch, now>>

LoadLabel(m) ==
    /\ making[m] # Absent
    /\ making[m].loaded = None
    /\ making' = [making EXCEPT ![m].loaded = label]
    /\ UNCHANGED <<actions, outcomes, label, post, patch, now>>

Row(o) == [opp |-> o.opp, label |-> LabelOf[o.type].label, value |-> LabelOf[o.type].value, src |-> o.at]

(* The row takes the values of each outcome in turn, and a column that     *)
(* never changes on the way is not written.                                *)
Column(loaded, seen, c) ==
    IF \A o \in seen : Row(o)[c] = loaded[c] THEN label[c] ELSE Row(Latest(seen))[c]

\* Fault: value is set on a new row only.
MergedWithoutValue(loaded, seen) == [Row(Latest(seen)) EXCEPT !.value = label.value]

Merged(loaded, seen) == [c \in {"opp", "label", "value", "src"} |-> Column(loaded, seen, c)]

(* Nothing seen, or a row inserted by another meanwhile: nothing written.  *)
WriteLabel(m) ==
    LET seen == making[m].seen
        loaded == making[m].loaded
    IN
    /\ making[m] # Absent
    /\ loaded # None
    /\ making' = [making EXCEPT ![m] = Absent]
    /\ label' = IF seen = {} \/ (loaded = Absent /\ label # Absent) THEN label
                ELSE IF loaded = Absent THEN Row(Latest(seen))
                ELSE Merged(loaded, seen)
    /\ UNCHANGED <<actions, outcomes, post, patch, now>>

Next ==
    \/ \E p \in Posts : Receive(p) \/ AskFails(p) \/ Asked(p) \/ Flush(p) \/ Return(p) \/ Commit(p)
    \/ \E q \in Patches : Load(q) \/ Update(q)
    \/ \E m \in Materializers : ReadOutcomes(m) \/ LoadLabel(m) \/ WriteLabel(m)

Spec == Init /\ [][Next]_vars
-----------------------------------------------------------------------------
(* Properties. *)

(* Two requests that are told the action of a key exists sent what that    *)
(* action is, whichever of them the race for the key let write.            *)
AnswersAgree ==
    \A p \in Posts : At(p, "created") \/ At(p, "stored") =>
        LET a == actions[post[p].key]
        IN  a # Absent /\ a.opp = post[p].opp /\ a.type = post[p].type

(* A conversion is recorded by an action of its own only when an           *)
(* engagement of its opportunity is on record, in an action or in the      *)
(* history of outcomes, however the outcomes were updated since.           *)
ConvertedAfterEngagement ==
    \A k \in Keys : Exists(k) /\ actions[k].type = "MARK_CONVERTED" =>
        \/ \E j \in Keys : /\ Exists(j) /\ actions[j].opp = actions[k].opp
                           /\ actions[j].type \in {"CONTACT_CUSTOMER", "SCHEDULE_MEETING"}
        \/ \E o \in outcomes : /\ o.opp = actions[k].opp
                               /\ o.type \in {"CONTACTED", "MEETING_SCHEDULED", "OFFER_CREATED"}

Converted == {actions[k].opp : k \in {k \in Keys : Exists(k) /\
                 (actions[k].type = "MARK_CONVERTED" \/ actions[k].outcome = "CONVERTED")}}
Dismissed == {actions[k].opp : k \in {k \in Keys : Exists(k) /\
                 (actions[k].type = "DISMISS_OPPORTUNITY" \/ actions[k].outcome \in {"REJECTED", "NOT_RELEVANT"})}}

(* What the dashboard counts, from the actions as they are now, is in the  *)
(* history the labels are made from.                                       *)
DashboardIsBacked ==
    /\ \A opp \in Converted : \E o \in outcomes : o.opp = opp /\ o.type = "CONVERTED"
    /\ \A opp \in Dismissed : \E o \in outcomes : o.opp = opp /\ o.type \in {"REJECTED", "NOT_RELEVANT"}

RecordedInWindow(c, value) == \E o \in outcomes : InWindow(o) /\ Row(o)[c] = value

(* However many make the label at once, and whatever is updated meanwhile, *)
(* each of its columns is that of an outcome recorded in the window.       *)
LabelIsRecorded ==
    label # Absent => \A c \in {"opp", "label", "value", "src"} : RecordedInWindow(c, label[c])

(* A request that nobody wrote between its load and its write makes the    *)
(* label one recorded outcome of the window in all its columns, none of    *)
(* those it has seen being later: the last outcome wins.                   *)
LastOutcomeWins ==
    [][\A m \in Materializers :
        /\ making[m] # Absent /\ making'[m] = Absent
        /\ making[m].seen # {} /\ making[m].loaded = label
        => \E o \in outcomes : /\ InWindow(o) /\ label' = Row(o)
                               /\ \A other \in making[m].seen : other.at <= o.at]_vars

(* docs/ml-integration-status.md:22: ml-engine materializes the label, the *)
(* value and the reference of an outcome; a label is that of its reference. *)
LabelIsOfItsReference ==
    label # Absent => \E o \in outcomes : o.at = label.src /\ label = Row(o)
=============================================================================
