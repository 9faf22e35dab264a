------------------------ MODULE ActionFeedbackProofs -------------------------
(***************************************************************************)
(* What is told of actions and counted of them, for any opportunities,     *)
(* keys and number of requests in flight: the answers agree, a conversion  *)
(* follows an engagement, and the dashboard is backed by the history; the  *)
(* columns of a label are recorded, and the last outcome wins.             *)
(***************************************************************************)
EXTENDS ActionFeedback, WellFoundedInduction, TLAPS

PostRow == [pc : PostStates, key : Keys, opp : Opportunities, type : ActionTypes, at : Nat]
PatchRow == [key : Keys, loaded : Action, outcome : OutcomeTypes \cup {None},
             status : Statuses \cup {None}, at : Nat]

\* The types of what these properties are about.
FeedbackType ==
    /\ actions \in [Keys -> Action \cup {Absent}]
    /\ outcomes \subseteq Outcome
    /\ post \in [Posts -> PostRow \cup {Absent}]
    /\ patch \in [Patches -> PatchRow \cup {Absent}]
    /\ now \in Nat

Recorded(opp, type) == \E o \in outcomes : o.opp = opp /\ o.type = type

Meets(opp) == \E j \in Keys : /\ Exists(j) /\ actions[j].opp = opp
                              /\ actions[j].type \in {"CONTACT_CUSTOMER", "SCHEDULE_MEETING"}

Engagement(opp) ==
    Meets(opp) \/ \E type \in {"CONTACTED", "MEETING_SCHEDULED", "OFFER_CREATED"} : Recorded(opp, type)

\* A request whose INSERT is done and that has not committed.
Inserted(p) == At(p, "returned") \/ At(p, "closing")

\* The unique key: no other request has inserted it, and no action has it.
InsertedAlone(p, key) ==
    ~Exists(key) /\ \A o \in Posts : Inserted(o) /\ post[o].key = key => o = p

OneWriter == \A p \in Posts : Inserted(p) => InsertedAlone(p, post[p].key)

\* What a request was told of the action of its key.
ToldWell(r) ==
    Exists(r.key) /\ actions[r.key].opp = r.opp /\ actions[r.key].type = r.type

LoadedIsOfKey ==
    \A q \in Patches : patch[q] # Absent =>
        Exists(patch[q].key) /\ patch[q].loaded.opp = actions[patch[q].key].opp

\* The outcome of an action, and the one it was created with, are in the history.
OutcomesAreRecorded ==
    \A k \in Keys : Exists(k) =>
        /\ actions[k].outcome # None => Recorded(actions[k].opp, actions[k].outcome)
        /\ FirstOutcome(actions[k].type) # None =>
               Recorded(actions[k].opp, FirstOutcome(actions[k].type))

ConvertsEngaged(opp, type) == type = "MARK_CONVERTED" => Engagement(opp)

EngagedFirst ==
    /\ \A k \in Keys : Exists(k) => ConvertsEngaged(actions[k].opp, actions[k].type)
    /\ \A p \in Posts : At(p, "flushing") \/ Inserted(p) => ConvertsEngaged(post[p].opp, post[p].type)

FeedbackInv ==
    /\ FeedbackType
    /\ OneWriter
    /\ AnswersAgree
    /\ LoadedIsOfKey
    /\ OutcomesAreRecorded
    /\ EngagedFirst

-----------------------------------------------------------------------------
(* What only grows *)

LEMMA RowsAreNotAbsent ==
    /\ \A a \in Action : a # Absent
    /\ \A r \in PostRow : r # Absent
    /\ \A u \in PatchRow : u # Absent
  <1>1. "opp" \notin DOMAIN Absent /\ "key" \notin DOMAIN Absent
    BY DEF Absent
  <1>2. \A a \in Action : "opp" \in DOMAIN a
    BY DEF Action
  <1>3. \A r \in PostRow : "key" \in DOMAIN r
    BY DEF PostRow
  <1>4. \A u \in PatchRow : "key" \in DOMAIN u
    BY DEF PatchRow
  <1> QED
    BY <1>1, <1>2, <1>3, <1>4

\* No action or outcome disappears, and an action stays what it is of which opportunity.
HistoryGrows ==
    /\ outcomes \subseteq outcomes'
    /\ \A k \in Keys : Exists(k) => /\ Exists(k)'
                                    /\ actions'[k].opp = actions[k].opp
                                    /\ actions'[k].type = actions[k].type

LEMMA EngagementStays ==
    ASSUME HistoryGrows
    PROVE  /\ \A opp, type : Recorded(opp, type) => Recorded(opp, type)'
           /\ \A opp, type : ConvertsEngaged(opp, type) => ConvertsEngaged(opp, type)'
  <1>1. \A opp, type : Recorded(opp, type) => Recorded(opp, type)'
    BY DEF HistoryGrows, Recorded
  <1>2. \A opp : Meets(opp) => Meets(opp)'
    BY DEF HistoryGrows, Meets
  <1> QED
    BY <1>1, <1>2 DEF ConvertsEngaged, Engagement

\* What the engagements of the code are in this history.
LEMMA EngagedIsEngagement ==
    ASSUME FeedbackInv, NEW opp, Engaged(opp)
    PROVE  Engagement(opp)
  <1>1. PICK k \in Keys : Exists(k) /\ actions[k].opp = opp /\ Engages(actions[k])
    BY DEF Engaged
  <1>2. CASE actions[k].type \in {"CONTACT_CUSTOMER", "SCHEDULE_MEETING"}
    BY <1>1, <1>2 DEF Engagement, Meets
  <1>3. CASE actions[k].outcome \in {"CONTACTED", "MEETING_SCHEDULED", "OFFER_CREATED"}
    <2>1. actions[k].outcome \in OutcomeTypes
      BY <1>3 DEF OutcomeTypes, LabelOf
    <2>2. actions[k].outcome # None
      BY <2>1, NoneAssumption
    <2>3. Recorded(opp, actions[k].outcome)
      BY <1>1, <2>2 DEF FeedbackInv, OutcomesAreRecorded
    <2> QED
      BY <1>3, <2>3 DEF Engagement
  <1> QED
    BY <1>1, <1>2, <1>3 DEF Engages

-----------------------------------------------------------------------------
(* The steps *)

\* A request to create moves; rows change at its commit only.
LEMMA RequestMoves ==
    ASSUME FeedbackInv, NEW p \in Posts, NEW r \in PostRow \cup {Absent},
           post' = [post EXCEPT ![p] = r], UNCHANGED <<actions, outcomes, patch>>, now' \in Nat,
           r # Absent /\ r.pc \in {"created", "stored"} => ToldWell(r),
           r # Absent /\ r.pc \in {"returned", "closing"} => InsertedAlone(p, r.key),
           r # Absent /\ r.pc \in {"flushing", "returned", "closing"} =>
               ConvertsEngaged(r.opp, r.type)
    PROVE  FeedbackInv'
  <1>1. FeedbackType'
    BY DEF FeedbackInv, FeedbackType
  <1>2. post'[p] = r /\ \A o \in Posts : o # p => post'[o] = post[o]
    BY DEF FeedbackInv, FeedbackType
  <1>3. \A k : Exists(k)' <=> Exists(k)
    BY DEF Exists
  <1>4. \A o \in Posts : o # p => (Inserted(o)' <=> Inserted(o))
    BY <1>2 DEF Inserted, At
  <1>5. OneWriter'
    <2> SUFFICES ASSUME NEW o \in Posts, Inserted(o)', NEW i \in Posts, Inserted(i)',
                        post'[i].key = post'[o].key
                 PROVE  ~Exists(post[o].key)' /\ i = o
      BY DEF OneWriter, InsertedAlone
    <2>1. Inserted(p)' => InsertedAlone(p, r.key)
      BY <1>2 DEF Inserted, At
    <2>2. CASE o = p
      BY <1>2, <1>3, <1>4, <2>1, <2>2 DEF InsertedAlone
    <2>3. CASE o # p /\ i # p
      BY <1>2, <1>3, <1>4, <2>3 DEF InsertedAlone, FeedbackInv, OneWriter
    <2>4. CASE o # p /\ i = p
      BY <1>2, <1>4, <2>1, <2>4 DEF InsertedAlone
    <2> QED
      BY <2>2, <2>3, <2>4
  <1>6. AnswersAgree'
    <2> SUFFICES ASSUME NEW o \in Posts, At(o, "created")' \/ At(o, "stored")'
                 PROVE  /\ actions[post'[o].key] # Absent
                        /\ actions[post'[o].key].opp = post'[o].opp
                        /\ actions[post'[o].key].type = post'[o].type
      BY DEF AnswersAgree
    <2>1. CASE o = p
      BY <1>2, <2>1 DEF At, ToldWell, Exists
    <2>2. CASE o # p
      BY <1>2, <2>2 DEF At, FeedbackInv, AnswersAgree
    <2> QED
      BY <2>1, <2>2
  <1>7. LoadedIsOfKey' /\ OutcomesAreRecorded'
    BY DEF FeedbackInv, LoadedIsOfKey, OutcomesAreRecorded, Exists, Recorded
  <1>8. EngagedFirst'
    <2>1. HistoryGrows
      BY DEF HistoryGrows, Exists
    <2>2. \A k \in Keys : Exists(k)' => ConvertsEngaged(actions[k].opp, actions[k].type)'
      BY <1>3, <2>1, EngagementStays DEF FeedbackInv, EngagedFirst
    <2>3. \A o \in Posts : At(o, "flushing")' \/ Inserted(o)' =>
              ConvertsEngaged(post'[o].opp, post'[o].type)
      BY <1>2 DEF At, Inserted, FeedbackInv, EngagedFirst
    <2>4. \A o \in Posts : At(o, "flushing")' \/ Inserted(o)' =>
              ConvertsEngaged(post[o].opp, post[o].type)'
      BY <2>3 DEF ConvertsEngaged, Engagement, Meets, Recorded, Exists
    <2> QED
      BY <2>2, <2>4 DEF EngagedFirst
  <1> QED
    BY <1>1, <1>5, <1>6, <1>7, <1>8 DEF FeedbackInv

LEMMA ReceiveStep ==
    ASSUME FeedbackInv, NEW p \in Posts, Receive(p)
    PROVE  FeedbackInv'
  <1>1. PICK k \in Keys, opp \in Opportunities, type \in Types :
            LET request(pc) == [pc |-> pc, key |-> k, opp |-> opp, type |-> type, at |-> now]
            IN  IF ~Exists(k) THEN post' = [post EXCEPT ![p] = request("asking")]
                ELSE IF SameContent(actions[k], opp, type)
                THEN post' = [post EXCEPT ![p] = request("stored")]
                ELSE Refuse(p)
    BY DEF Receive
  <1> DEFINE request(pc) == [pc |-> pc, key |-> k, opp |-> opp, type |-> type, at |-> now]
  <1>2. UNCHANGED <<actions, outcomes, patch>> /\ now' \in Nat
    BY DEF Receive, FeedbackInv, FeedbackType
  <1>3. \A pc \in PostStates : request(pc) \in PostRow
    BY TypesAssumption DEF PostRow, FeedbackInv, FeedbackType
  <1>4. "asking" \in PostStates /\ "stored" \in PostStates
    BY DEF PostStates
  <1>5. CASE ~Exists(k)
    <2>1. post' = [post EXCEPT ![p] = request("asking")] /\ request("asking").pc = "asking"
      BY <1>1, <1>5
    <2> QED
      BY <1>2, <1>3, <1>4, <2>1, RequestMoves
  <1>6. CASE Exists(k) /\ SameContent(actions[k], opp, type)
    <2>1. post' = [post EXCEPT ![p] = request("stored")] /\ request("stored").pc = "stored"
      BY <1>1, <1>6
    <2>2. ToldWell(request("stored"))
      BY <1>6 DEF ToldWell, SameContent
    <2> QED
      BY <1>2, <1>3, <1>4, <2>1, <2>2, RequestMoves
  <1>7. CASE Exists(k) /\ ~SameContent(actions[k], opp, type)
    <2>1. post' = [post EXCEPT ![p] = Absent]
      BY <1>1, <1>7 DEF Refuse
    <2> QED
      BY <1>2, <2>1, RequestMoves
  <1> QED
    BY <1>5, <1>6, <1>7

\* A request that goes on keeps its key, its opportunity and its type.
LEMMA GoesOn ==
    ASSUME FeedbackInv, NEW p \in Posts, post[p] # Absent, NEW pc \in PostStates
    PROVE  /\ [post[p] EXCEPT !.pc = pc] \in PostRow
           /\ [post[p] EXCEPT !.pc = pc].pc = pc
           /\ [post[p] EXCEPT !.pc = pc].key = post[p].key
           /\ [post[p] EXCEPT !.pc = pc].opp = post[p].opp
           /\ [post[p] EXCEPT !.pc = pc].type = post[p].type
           /\ [post EXCEPT ![p].pc = pc] = [post EXCEPT ![p] = [post[p] EXCEPT !.pc = pc]]
  <1>1. post[p] \in PostRow
    BY DEF FeedbackInv, FeedbackType
  <1>2. [post EXCEPT ![p].pc = pc] = [post EXCEPT ![p] = [post[p] EXCEPT !.pc = pc]]
    BY DEF FeedbackInv, FeedbackType
  <1> QED
    BY <1>1, <1>2 DEF PostRow

LEMMA AskedStep ==
    ASSUME FeedbackInv, NEW p \in Posts, AskFails(p) \/ Asked(p)
    PROVE  FeedbackInv'
  <1>1. UNCHANGED <<actions, outcomes, patch>> /\ now' \in Nat /\ post[p] # Absent
    BY DEF AskFails, Asked, At, FeedbackInv, FeedbackType
  <1>2. CASE post' = [post EXCEPT ![p] = Absent]
    BY <1>1, <1>2, RequestMoves
  <1>3. CASE post' = [post EXCEPT ![p].pc = "flushing"]
             /\ ~(post[p].type = "MARK_CONVERTED" /\ ~Engaged(post[p].opp))
    <2> DEFINE r == [post[p] EXCEPT !.pc = "flushing"]
    <2>1. /\ r \in PostRow /\ r.pc = "flushing" /\ r.opp = post[p].opp /\ r.type = post[p].type
          /\ post' = [post EXCEPT ![p] = r]
      BY <1>1, <1>3, GoesOn DEF PostStates
    <2>2. ConvertsEngaged(r.opp, r.type)
      BY <1>3, <2>1, EngagedIsEngagement DEF ConvertsEngaged
    <2> HIDE DEF r
    <2> QED
      BY <1>1, <2>1, <2>2, RequestMoves
  <1> QED
    BY <1>2, <1>3 DEF AskFails, Asked, Refuse

LEMMA FlushStep ==
    ASSUME FeedbackInv, NEW p \in Posts, Flush(p)
    PROVE  FeedbackInv'
  <1>1. UNCHANGED <<actions, outcomes, patch>> /\ now' \in Nat /\ post[p] # Absent
    BY DEF Flush, At, FeedbackInv, FeedbackType
  <1>2. CASE post' = [post EXCEPT ![p] = Absent]
    BY <1>1, <1>2, RequestMoves
  <1>3. CASE post' = [post EXCEPT ![p].pc = "returned"] /\ ~Exists(post[p].key)
    <2> DEFINE r == [post[p] EXCEPT !.pc = "returned"]
    <2>1. /\ r \in PostRow /\ r.pc = "returned" /\ r.key = post[p].key
          /\ r.opp = post[p].opp /\ r.type = post[p].type
          /\ post' = [post EXCEPT ![p] = r]
      BY <1>1, <1>3, GoesOn DEF PostStates
    <2>2. ConvertsEngaged(r.opp, r.type)
      BY <2>1 DEF Flush, FeedbackInv, EngagedFirst
    <2>3. InsertedAlone(p, r.key)
      BY <1>3, <2>1 DEF InsertedAlone, Flush, Inserted
    <2> HIDE DEF r
    <2> QED
      BY <1>1, <2>1, <2>2, <2>3, RequestMoves
  <1> QED
    BY <1>2, <1>3 DEF Flush, Refuse

LEMMA ReturnStep ==
    ASSUME FeedbackInv, NEW p \in Posts, Return(p)
    PROVE  FeedbackInv'
  <1> DEFINE r == [post[p] EXCEPT !.pc = "closing"]
  <1>1. UNCHANGED <<actions, outcomes, patch>> /\ now' \in Nat /\ post[p] # Absent
    BY DEF Return, At, FeedbackInv, FeedbackType
  <1>2. /\ r \in PostRow /\ r.pc = "closing" /\ r.key = post[p].key
        /\ r.opp = post[p].opp /\ r.type = post[p].type
        /\ post' = [post EXCEPT ![p] = r]
    BY <1>1, GoesOn DEF PostStates, Return
  <1>3. Inserted(p)
    BY DEF Return, Inserted
  <1>4. ConvertsEngaged(r.opp, r.type) /\ InsertedAlone(p, r.key)
    BY <1>2, <1>3 DEF FeedbackInv, EngagedFirst, OneWriter
  <1> HIDE DEF r
  <1> QED
    BY <1>1, <1>2, <1>4, RequestMoves

LEMMA CommitStep ==
    ASSUME FeedbackInv, NEW p \in Posts, Commit(p)
    PROVE  FeedbackInv'
  <1> DEFINE key == post[p].key
             first == FirstOutcome(post[p].type)
             r == [post[p] EXCEPT !.pc = "created"]
             new == NewOutcome(key, post[p].opp, first, post[p].at)
  <1>1. /\ actions' = [actions EXCEPT ![key] = NewAction(p)]
        /\ outcomes' = outcomes \cup (IF first = None THEN {} ELSE {new})
        /\ post[p] # Absent /\ Inserted(p) /\ UNCHANGED <<patch, now>>
        /\ post' = [post EXCEPT ![p].pc = "created"]
    BY DEF Commit, At, Inserted
  <1>2. /\ r \in PostRow /\ r.pc = "created" /\ r.key = key
        /\ r.opp = post[p].opp /\ r.type = post[p].type
        /\ post' = [post EXCEPT ![p] = r]
    BY <1>1, GoesOn DEF PostStates
  <1>3. /\ post[p] \in PostRow /\ key \in Keys /\ post[p].opp \in Opportunities
        /\ post[p].type \in ActionTypes /\ post[p].at \in Nat
    BY <1>1 DEF FeedbackInv, FeedbackType, PostRow
  <1>4. first \in OutcomeTypes \cup {None}
    BY DEF FirstOutcome, OutcomeTypes, LabelOf
  <1>5. /\ NewAction(p) \in Action /\ NewAction(p) # Absent
        /\ NewAction(p).opp = post[p].opp /\ NewAction(p).type = post[p].type
        /\ NewAction(p).outcome = first
    <2>1. NewAction(p) \in Action
      BY <1>3, <1>4 DEF NewAction, Action, FirstStatus
    <2> QED
      BY <2>1, RowsAreNotAbsent DEF NewAction
  <1>6. first # None => new \in Outcome /\ new.opp = post[p].opp /\ new.type = first
    BY <1>3, <1>4 DEF NewOutcome, Outcome
  <1>7. InsertedAlone(p, key) /\ ConvertsEngaged(post[p].opp, post[p].type)
    BY <1>1 DEF FeedbackInv, OneWriter, EngagedFirst
  <1> HIDE DEF r, new, first
  <1>8. FeedbackType'
    <2>1. actions' \in [Keys -> Action \cup {Absent}]
      BY <1>1, <1>5 DEF FeedbackInv, FeedbackType
    <2>2. outcomes' \subseteq Outcome
      BY <1>1, <1>6 DEF FeedbackInv, FeedbackType
    <2>3. post' \in [Posts -> PostRow \cup {Absent}]
      BY <1>2 DEF FeedbackInv, FeedbackType
    <2> QED
      BY <1>1, <2>1, <2>2, <2>3 DEF FeedbackInv, FeedbackType
  <1>9. /\ actions'[key] = NewAction(p) /\ \A k \in Keys : k # key => actions'[k] = actions[k]
        /\ post'[p] = r /\ \A o \in Posts : o # p => post'[o] = post[o]
    BY <1>1, <1>2, <1>3 DEF FeedbackInv, FeedbackType
  <1>10. HistoryGrows
    BY <1>1, <1>7, <1>9 DEF HistoryGrows, InsertedAlone, Exists
  <1>11. \A o \in Posts : Inserted(o)' => o # p /\ Inserted(o) /\ post[o].key # key
    BY <1>2, <1>7, <1>9 DEF Inserted, At, InsertedAlone
  <1>12. OneWriter'
    <2> SUFFICES ASSUME NEW o \in Posts, Inserted(o)', NEW i \in Posts, Inserted(i)',
                        post'[i].key = post'[o].key
                 PROVE  ~Exists(post[o].key)' /\ i = o
      BY DEF OneWriter, InsertedAlone
    <2>1. /\ o # p /\ Inserted(o) /\ post[o].key # key /\ post'[o] = post[o]
          /\ i # p /\ Inserted(i) /\ post'[i] = post[i]
      BY <1>9, <1>11
    <2>2. InsertedAlone(o, post[o].key) /\ i = o
      BY <2>1 DEF FeedbackInv, OneWriter, InsertedAlone
    <2>3. post[o].key \in Keys
      BY <2>1 DEF Inserted, At, FeedbackInv, FeedbackType, PostRow
    <2>4. actions'[post[o].key] = actions[post[o].key]
      BY <1>9, <2>1, <2>3
    <2> QED
      BY <2>1, <2>2, <2>4 DEF InsertedAlone, Exists
  <1>13. AnswersAgree'
    <2> SUFFICES ASSUME NEW o \in Posts, At(o, "created")' \/ At(o, "stored")'
                 PROVE  /\ actions'[post'[o].key] # Absent
                        /\ actions'[post'[o].key].opp = post'[o].opp
                        /\ actions'[post'[o].key].type = post'[o].type
      BY DEF AnswersAgree
    <2>1. CASE o = p
      BY <1>2, <1>5, <1>9, <2>1
    <2>2. CASE o # p
      <3>1. post'[o] = post[o] /\ (At(o, "created") \/ At(o, "stored"))
        BY <1>9, <2>2 DEF At
      <3>2. /\ actions[post[o].key] # Absent /\ actions[post[o].key].opp = post[o].opp
            /\ actions[post[o].key].type = post[o].type
        BY <3>1 DEF FeedbackInv, AnswersAgree
      <3>3. post[o].key \in Keys
        BY <3>1 DEF At, FeedbackInv, FeedbackType, PostRow
      <3> QED
        BY <1>10, <3>1, <3>2, <3>3 DEF HistoryGrows, Exists
    <2> QED
      BY <2>1, <2>2
  <1>14. LoadedIsOfKey'
    <2> SUFFICES ASSUME NEW q \in Patches, patch[q] # Absent
                 PROVE  /\ actions'[patch[q].key] # Absent
                        /\ patch[q].loaded.opp = actions'[patch[q].key].opp
      BY <1>1 DEF LoadedIsOfKey, Exists
    <2>1. patch[q].key \in Keys
      BY DEF FeedbackInv, FeedbackType, PatchRow
    <2> QED
      BY <1>10, <2>1 DEF FeedbackInv, LoadedIsOfKey, HistoryGrows, Exists
  <1>15. OutcomesAreRecorded'
    <2> SUFFICES ASSUME NEW k \in Keys, Exists(k)'
                 PROVE  /\ actions'[k].outcome # None =>
                               Recorded(actions[k].opp, actions[k].outcome)'
                        /\ FirstOutcome(actions'[k].type) # None =>
                               Recorded(actions[k].opp, FirstOutcome(actions[k].type))'
      BY DEF OutcomesAreRecorded
    <2>1. CASE k = key
      <3>1. first # None => \E o \in outcomes' : o.opp = post[p].opp /\ o.type = first
        BY <1>1, <1>6
      <3>2. actions'[k].outcome = first /\ FirstOutcome(actions'[k].type) = first
            /\ actions'[k].opp = post[p].opp
        BY <1>5, <1>9, <2>1 DEF first
      <3> QED
        BY <3>1, <3>2 DEF Recorded
    <2>2. CASE k # key
      <3>1. actions'[k] = actions[k] /\ Exists(k)
        BY <1>9, <2>2 DEF Exists
      <3> QED
        BY <1>1, <3>1 DEF FeedbackInv, OutcomesAreRecorded, Recorded
    <2> QED
      BY <2>1, <2>2
  <1>16. EngagedFirst'
    <2>1. \A opp, type : ConvertsEngaged(opp, type) => ConvertsEngaged(opp, type)'
      BY <1>10, EngagementStays
    <2>2. ASSUME NEW k \in Keys, Exists(k)'
          PROVE  ConvertsEngaged(actions'[k].opp, actions'[k].type)
      BY <1>5, <1>7, <1>9, <2>2 DEF FeedbackInv, EngagedFirst, Exists
    <2>3. ASSUME NEW o \in Posts, At(o, "flushing")' \/ Inserted(o)'
          PROVE  ConvertsEngaged(post'[o].opp, post'[o].type)
      <3>1. o # p
        BY <1>2, <1>9, <2>3 DEF At, Inserted
      <3> QED
        BY <1>9, <2>3, <3>1 DEF At, Inserted, FeedbackInv, EngagedFirst
    <2>4. ASSUME NEW k \in Keys, Exists(k)'
          PROVE  ConvertsEngaged(actions[k].opp, actions[k].type)'
      BY <2>1, <2>2, <2>4 DEF ConvertsEngaged
    <2>5. ASSUME NEW o \in Posts, At(o, "flushing")' \/ Inserted(o)'
          PROVE  ConvertsEngaged(post[o].opp, post[o].type)'
      BY <2>1, <2>3, <2>5 DEF ConvertsEngaged
    <2> QED
      BY <2>4, <2>5 DEF EngagedFirst
  <1> QED
    BY <1>8, <1>12, <1>13, <1>14, <1>15, <1>16 DEF FeedbackInv

\* A step that leaves actions, outcomes and requests to create alone, and loads well.
LEMMA NothingWritten ==
    ASSUME FeedbackInv, UNCHANGED <<actions, outcomes, post>>, now' \in Nat,
           patch' \in [Patches -> PatchRow \cup {Absent}], LoadedIsOfKey'
    PROVE  FeedbackInv'
  <1>1. FeedbackType'
    BY DEF FeedbackInv, FeedbackType
  <1>2. OneWriter' /\ AnswersAgree'
    BY DEF FeedbackInv, OneWriter, AnswersAgree, InsertedAlone, Inserted, At, Exists
  <1>3. OutcomesAreRecorded'
    BY DEF FeedbackInv, OutcomesAreRecorded, Recorded, Exists
  <1>4. EngagedFirst'
    BY DEF FeedbackInv, EngagedFirst, ConvertsEngaged, Engagement, Meets, Recorded,
           Inserted, At, Exists
  <1> QED
    BY <1>1, <1>2, <1>3, <1>4 DEF FeedbackInv

LEMMA LoadStep ==
    ASSUME FeedbackInv, NEW q \in Patches, Load(q)
    PROVE  FeedbackInv'
  <1>1. PICK k \in Keys, o \in Outcomes \cup {None}, s \in Statuses \cup {None} :
            /\ Exists(k)
            /\ patch' = [patch EXCEPT ![q] = [key |-> k, loaded |-> actions[k], outcome |-> o,
                                              status |-> s, at |-> now]]
    BY DEF Load
  <1> DEFINE u == [key |-> k, loaded |-> actions[k], outcome |-> o, status |-> s, at |-> now]
  <1>2. UNCHANGED <<actions, outcomes, post>> /\ now' \in Nat /\ now \in Nat
    BY DEF Load, FeedbackInv, FeedbackType
  <1>3. actions[k] \in Action
    BY <1>1 DEF Exists, FeedbackInv, FeedbackType
  <1>4. u \in PatchRow /\ u.key = k /\ u.loaded = actions[k]
    BY <1>2, <1>3, TypesAssumption DEF PatchRow
  <1>5. patch' = [patch EXCEPT ![q] = u]
    BY <1>1
  <1> HIDE DEF u
  <1>6. patch' \in [Patches -> PatchRow \cup {Absent}]
    BY <1>4, <1>5 DEF FeedbackInv, FeedbackType
  <1>7. LoadedIsOfKey'
    <2> SUFFICES ASSUME NEW i \in Patches, patch'[i] # Absent
                 PROVE  /\ actions[patch'[i].key] # Absent
                        /\ patch'[i].loaded.opp = actions[patch'[i].key].opp
      BY <1>2 DEF LoadedIsOfKey, Exists
    <2>1. patch'[i] = IF i = q THEN u ELSE patch[i]
      BY <1>5 DEF FeedbackInv, FeedbackType
    <2>2. CASE i = q
      BY <1>1, <1>4, <2>1, <2>2 DEF Exists
    <2>3. CASE i # q
      BY <2>1, <2>3 DEF FeedbackInv, LoadedIsOfKey, Exists
    <2> QED
      BY <2>2, <2>3
  <1> QED
    BY <1>2, <1>6, <1>7, NothingWritten

LEMMA UpdateStep ==
    ASSUME FeedbackInv, NEW q \in Patches, Update(q)
    PROVE  FeedbackInv'
  <1> DEFINE u == patch[q]
             key == u.key
             outcome == IF u.outcome = None THEN u.loaded.outcome ELSE u.outcome
             status == IF u.outcome # None THEN "COMPLETED"
                       ELSE IF u.status # None THEN u.status ELSE u.loaded.status
             new == NewOutcome(key, u.loaded.opp, u.outcome, u.at)
             changed == [actions[key] EXCEPT
                            !.outcome = Written(u.loaded.outcome, outcome, @),
                            !.status = Written(u.loaded.status, status, @)]
  <1>1. /\ u # Absent
        /\ actions' = [actions EXCEPT ![key].outcome = Written(u.loaded.outcome, outcome, @),
                                      ![key].status = Written(u.loaded.status, status, @)]
        /\ outcomes' = outcomes \cup (IF u.outcome = None THEN {} ELSE {new})
        /\ patch' = [patch EXCEPT ![q] = Absent]
        /\ UNCHANGED <<post, now>>
    BY DEF Update
  <1>2. /\ u \in PatchRow /\ key \in Keys /\ u.loaded \in Action /\ u.at \in Nat
        /\ u.outcome \in OutcomeTypes \cup {None} /\ u.status \in Statuses \cup {None}
    BY <1>1 DEF FeedbackInv, FeedbackType, PatchRow
  <1>3. Exists(key) /\ u.loaded.opp = actions[key].opp
    BY <1>1 DEF FeedbackInv, LoadedIsOfKey
  <1>4. actions[key] \in Action
    BY <1>2, <1>3 DEF Exists, FeedbackInv, FeedbackType
  <1>5. actions' = [actions EXCEPT ![key] = changed]
    BY <1>1, <1>2 DEF FeedbackInv, FeedbackType
  <1>6. /\ u.loaded.outcome \in OutcomeTypes \cup {None}
        /\ u.loaded.status \in Statuses \cup {"OPEN", "COMPLETED"}
        /\ u.loaded.opp \in Opportunities
    BY <1>2 DEF Action
  <1>7. /\ changed \in Action /\ changed.opp = actions[key].opp
        /\ changed.type = actions[key].type
        /\ changed.outcome = Written(u.loaded.outcome, outcome, actions[key].outcome)
    BY <1>2, <1>4, <1>6 DEF Action, Written
  <1>8. changed # Absent
    BY <1>7, RowsAreNotAbsent
  <1>9. u.outcome # None => new \in Outcome /\ new.opp = actions[key].opp /\ new.type = u.outcome
    BY <1>2, <1>3, <1>6 DEF NewOutcome, Outcome
  <1>10. changed.outcome = actions[key].outcome \/ (u.outcome # None /\ changed.outcome = u.outcome)
    BY <1>7 DEF Written
  <1> HIDE DEF changed, new
  <1>11. /\ actions'[key] = changed /\ \A k \in Keys : k # key => actions'[k] = actions[k]
         /\ actions' \in [Keys -> Action \cup {Absent}]
    BY <1>2, <1>5, <1>7 DEF FeedbackInv, FeedbackType
  <1>12. HistoryGrows
    BY <1>1, <1>7, <1>8, <1>11 DEF HistoryGrows, Exists
  <1>13. \A k \in Keys : Exists(k)' <=> Exists(k)
    BY <1>3, <1>8, <1>11 DEF Exists
  <1>14. FeedbackType'
    <2>1. outcomes' \subseteq Outcome
      BY <1>1, <1>9 DEF FeedbackInv, FeedbackType
    <2>2. patch' \in [Patches -> PatchRow \cup {Absent}]
      BY <1>1 DEF FeedbackInv, FeedbackType
    <2> QED
      BY <1>1, <1>11, <2>1, <2>2 DEF FeedbackInv, FeedbackType
  <1>15. OneWriter'
    <2> SUFFICES ASSUME NEW o \in Posts, Inserted(o)
                 PROVE  ~Exists(post[o].key)'
                        /\ \A i \in Posts : Inserted(i) /\ post[i].key = post[o].key => i = o
      BY <1>1 DEF OneWriter, InsertedAlone, Inserted, At
    <2>1. post[o].key \in Keys /\ InsertedAlone(o, post[o].key)
      BY DEF Inserted, At, FeedbackInv, FeedbackType, PostRow, OneWriter
    <2>2. ~Exists(post[o].key)'
      BY <1>1, <1>3, <1>11, <2>1 DEF InsertedAlone, Exists
    <2> QED
      BY <2>1, <2>2 DEF InsertedAlone
  <1>16. AnswersAgree'
    <2> SUFFICES ASSUME NEW o \in Posts, At(o, "created") \/ At(o, "stored")
                 PROVE  /\ actions'[post[o].key] # Absent
                        /\ actions'[post[o].key].opp = post[o].opp
                        /\ actions'[post[o].key].type = post[o].type
      BY <1>1 DEF AnswersAgree, At
    <2>1. post[o].key \in Keys
      BY DEF At, FeedbackInv, FeedbackType, PostRow
    <2> QED
      BY <1>12, <2>1 DEF FeedbackInv, AnswersAgree, HistoryGrows, Exists
  <1>17. LoadedIsOfKey'
    <2> SUFFICES ASSUME NEW i \in Patches, patch'[i] # Absent
                 PROVE  /\ actions'[patch'[i].key] # Absent
                        /\ patch'[i].loaded.opp = actions'[patch'[i].key].opp
      BY DEF LoadedIsOfKey, Exists
    <2>1. i # q /\ patch'[i] = patch[i]
      BY <1>1 DEF FeedbackInv, FeedbackType
    <2>2. patch[i].key \in Keys
      BY <2>1 DEF FeedbackInv, FeedbackType, PatchRow
    <2> QED
      BY <1>12, <2>1, <2>2 DEF FeedbackInv, LoadedIsOfKey, HistoryGrows, Exists
  <1>18. OutcomesAreRecorded'
    <2>1. \A opp, type : Recorded(opp, type) => Recorded(opp, type)'
      BY <1>12, EngagementStays
    <2>2. u.outcome # None => \E o \in outcomes' : o.opp = actions[key].opp /\ o.type = u.outcome
      BY <1>1, <1>9
    <2> SUFFICES ASSUME NEW k \in Keys, Exists(k)
                 PROVE  /\ actions'[k].outcome # None =>
                               Recorded(actions[k].opp, actions[k].outcome)'
                        /\ FirstOutcome(actions'[k].type) # None =>
                               Recorded(actions[k].opp, FirstOutcome(actions[k].type))'
      BY <1>13 DEF OutcomesAreRecorded
    <2>3. /\ actions[k].outcome # None => Recorded(actions[k].opp, actions[k].outcome)
          /\ FirstOutcome(actions[k].type) # None =>
                 Recorded(actions[k].opp, FirstOutcome(actions[k].type))
      BY DEF FeedbackInv, OutcomesAreRecorded
    <2>4. actions'[k].opp = actions[k].opp /\ actions'[k].type = actions[k].type
      BY <1>12 DEF HistoryGrows
    <2>5. FirstOutcome(actions'[k].type) # None =>
              Recorded(actions[k].opp, FirstOutcome(actions[k].type))'
      BY <2>1, <2>3, <2>4 DEF Recorded
    <2>6. CASE actions'[k].outcome = actions[k].outcome
      BY <2>1, <2>3, <2>4, <2>5, <2>6 DEF Recorded
    <2>7. CASE k = key /\ u.outcome # None /\ actions'[k].outcome = u.outcome
      BY <2>2, <2>4, <2>5, <2>7 DEF Recorded
    <2> QED
      BY <1>10, <1>11, <2>6, <2>7
  <1>19. EngagedFirst'
    <2>1. \A opp, type : ConvertsEngaged(opp, type) => ConvertsEngaged(opp, type)'
      BY <1>12, EngagementStays
    <2>2. ASSUME NEW k \in Keys, Exists(k)'
          PROVE  ConvertsEngaged(actions[k].opp, actions[k].type)'
      <3>1. ConvertsEngaged(actions'[k].opp, actions'[k].type)
        BY <1>12, <1>13, <2>2 DEF FeedbackInv, EngagedFirst, HistoryGrows
      <3> QED
        BY <2>1, <3>1 DEF ConvertsEngaged
    <2>3. ASSUME NEW o \in Posts, At(o, "flushing")' \/ Inserted(o)'
          PROVE  ConvertsEngaged(post[o].opp, post[o].type)'
      <3>1. ConvertsEngaged(post'[o].opp, post'[o].type)
        BY <1>1, <2>3 DEF At, Inserted, FeedbackInv, EngagedFirst
      <3> QED
        BY <2>1, <3>1 DEF ConvertsEngaged
    <2> QED
      BY <2>2, <2>3 DEF EngagedFirst
  <1> QED
    BY <1>14, <1>15, <1>16, <1>17, <1>18, <1>19 DEF FeedbackInv

-----------------------------------------------------------------------------
(* The invariant *)

LEMMA FeedbackInit ==
    ASSUME Init
    PROVE  FeedbackInv
  <1>1. /\ \A k \in Keys : ~Exists(k)
        /\ \A p \in Posts, pc \in PostStates : ~At(p, pc)
        /\ \A q \in Patches : patch[q] = Absent
    BY DEF Init, Exists, At
  <1>2. \A p \in Posts : ~At(p, "flushing") /\ ~Inserted(p) /\ ~At(p, "created") /\ ~At(p, "stored")
    BY <1>1 DEF Inserted, PostStates
  <1>3. FeedbackType
    BY DEF Init, FeedbackType
  <1> QED
    BY <1>1, <1>2, <1>3 DEF FeedbackInv, OneWriter, AnswersAgree, LoadedIsOfKey,
                            OutcomesAreRecorded, EngagedFirst

LEMMA FeedbackStep ==
    ASSUME FeedbackInv, [Next]_vars
    PROVE  FeedbackInv'
  <1>1. ASSUME UNCHANGED <<actions, outcomes, post, patch, now>>
        PROVE  FeedbackInv'
    <2>1. LoadedIsOfKey' /\ patch' \in [Patches -> PatchRow \cup {Absent}] /\ now' \in Nat
      BY <1>1 DEF FeedbackInv, LoadedIsOfKey, Exists, FeedbackType
    <2> QED
      BY <1>1, <2>1, NothingWritten
  <1>2. CASE UNCHANGED vars
    BY <1>1, <1>2 DEF vars
  <1>3. ASSUME NEW p \in Posts, Receive(p) \/ AskFails(p) \/ Asked(p) \/ Flush(p) \/ Return(p) \/ Commit(p)
        PROVE  FeedbackInv'
    BY <1>3, ReceiveStep, AskedStep, FlushStep, ReturnStep, CommitStep
  <1>4. ASSUME NEW q \in Patches, Load(q) \/ Update(q)
        PROVE  FeedbackInv'
    BY <1>4, LoadStep, UpdateStep
  <1>5. ASSUME NEW m \in Materializers, ReadOutcomes(m) \/ LoadLabel(m) \/ WriteLabel(m)
        PROVE  FeedbackInv'
    BY <1>1, <1>5 DEF ReadOutcomes, LoadLabel, WriteLabel
  <1> QED
    BY <1>2, <1>3, <1>4, <1>5 DEF Next

LEMMA FeedbackInvariant == Spec => []FeedbackInv
  <1> QED
    BY FeedbackInit, FeedbackStep, PTL DEF Spec

\* Every request that is told the action of its key exists sent what that action is,
\* whichever of the requests in flight inserted it.
THEOREM AnswersStayAgreed == Spec => []AnswersAgree
  <1>1. FeedbackInv => AnswersAgree
    BY DEF FeedbackInv
  <1> QED
    BY <1>1, FeedbackInvariant, PTL

\* Every conversion has an engagement of its opportunity on record, although updates may
\* replace the outcome that was the engagement.
THEOREM ConversionsFollowEngagement == Spec => []ConvertedAfterEngagement
  <1>1. FeedbackInv => ConvertedAfterEngagement
    BY DEF FeedbackInv, EngagedFirst, ConvertedAfterEngagement, ConvertsEngaged, Engagement,
           Meets, Recorded
  <1> QED
    BY <1>1, FeedbackInvariant, PTL

\* What the dashboard counts as converted or dismissed is in the history of outcomes.
THEOREM DashboardStaysBacked == Spec => []DashboardIsBacked
  <1>1. FeedbackInv => DashboardIsBacked
    <2> SUFFICES ASSUME FeedbackInv
                 PROVE  DashboardIsBacked
      OBVIOUS
    <2>1. ASSUME NEW k \in Keys, Exists(k), NEW type \in OutcomeTypes,
                 actions[k].outcome = type \/ FirstOutcome(actions[k].type) = type
          PROVE  Recorded(actions[k].opp, type)
      <3>1. type # None
        BY NoneAssumption
      <3> QED
        BY <2>1, <3>1 DEF FeedbackInv, OutcomesAreRecorded
    <2>2. {"CONVERTED", "REJECTED", "NOT_RELEVANT"} \subseteq OutcomeTypes
      BY DEF OutcomeTypes, LabelOf
    <2>3. \A opp \in Converted : Recorded(opp, "CONVERTED")
      BY <2>1, <2>2 DEF Converted, FirstOutcome
    <2>4. \A opp \in Dismissed : Recorded(opp, "REJECTED") \/ Recorded(opp, "NOT_RELEVANT")
      BY <2>1, <2>2 DEF Dismissed, FirstOutcome
    <2> QED
      BY <2>3, <2>4 DEF DashboardIsBacked, Recorded
  <1> QED
    BY <1>1, FeedbackInvariant, PTL
-----------------------------------------------------------------------------
(* The latest outcome seen *)

LEMMA NatWF == IsWellFoundedOn({ss \in Nat \X Nat : ss[1] < ss[2]}, Nat)
  BY NatLessThanWellFounded DEF OpToRel

LEMMA LeastElement ==
    ASSUME NEW T \in SUBSET Nat, T # {}
    PROVE  \E m \in T : \A n \in T : m <= n
  <1> DEFINE Before == {ss \in Nat \X Nat : ss[1] < ss[2]}
  <1>1. PICK m \in T : \A n \in T : <<n, m>> \notin Before
    <2>1. IsWellFoundedOn(Before, Nat)
      BY NatWF
    <2> HIDE DEF Before
    <2> QED
      BY <2>1, WFMin
  <1>2. ASSUME NEW n \in T
        PROVE  m <= n
    <2>1. m \in Nat /\ n \in Nat
      OBVIOUS
    <2>2. ~(n < m)
      BY <1>1, <2>1
    <2> QED
      BY <2>1, <2>2
  <1> QED
    BY <1>2

\* The outcomes of the window are before its end: one of them is the latest.
LEMMA LatestIsSeen ==
    ASSUME NEW seen \in SUBSET Outcome, seen # {}, \A o \in seen : InWindow(o)
    PROVE  Latest(seen) \in seen /\ \A other \in seen : other.at <= Latest(seen).at
  <1> DEFINE Left == {Until - o.at : o \in seen}
  <1>1. \A o \in seen : o.at \in Nat /\ o.at < Until /\ Until - o.at \in Nat
    BY TimeAssumption DEF Outcome, InWindow
  <1>2. PICK least \in Left : \A n \in Left : least <= n
    <2>1. Left \in SUBSET Nat /\ Left # {}
      BY <1>1
    <2> HIDE DEF Left
    <2> QED
      BY <2>1, LeastElement
  <1>3. PICK o \in seen : least = Until - o.at
    BY <1>2
  <1>4. \A other \in seen : Until - o.at <= Until - other.at
    BY <1>2, <1>3
  <1>5. \A other \in seen : other.at <= o.at
    BY <1>1, <1>4, TimeAssumption
  <1> QED
    BY <1>5 DEF Latest

-----------------------------------------------------------------------------
(* Making the label *)

MakingRow == [seen : SUBSET Outcome, loaded : Label \cup {Absent, None}]

\* What a request to materialize has seen is recorded in the window; it loaded a label only
\* if there was one, and labels are not removed.
SeenIsRecorded ==
    \A m \in Materializers : making[m] # Absent =>
        /\ making[m].seen \subseteq outcomes
        /\ \A o \in making[m].seen : InWindow(o)
        /\ making[m].loaded \notin {None, Absent} => label # Absent

LabelType ==
    /\ label \in Label \cup {Absent}
    /\ making \in [Materializers -> MakingRow \cup {Absent}]

LabelInv == FeedbackInv /\ LabelType /\ SeenIsRecorded

\* What LastOutcomeWins says of a step and a request.
Wins(m) ==
    /\ making[m] # Absent /\ making'[m] = Absent
    /\ making[m].seen # {} /\ making[m].loaded = label
    => \E o \in outcomes : /\ InWindow(o) /\ label' = Row(o)
                           /\ \A other \in making[m].seen : other.at <= o.at

LEMMA RowIsLabel ==
    ASSUME NEW o \in Outcome
    PROVE  Row(o) \in Label
  <1>1. o.type \in OutcomeTypes /\ o.opp \in Opportunities /\ o.at \in Nat
    BY DEF Outcome
  <1>2. LabelOf[o.type].value \in {"UNKNOWN", "TRUE", "FALSE"}
    BY <1>1 DEF OutcomeTypes, LabelOf
  <1>3. LabelOf[o.type].label \in {LabelOf[t].label : t \in OutcomeTypes}
    BY <1>1
  <1> QED
    BY <1>1, <1>2, <1>3 DEF Row, Label

LEMMA MakingIsNotAbsent == \A r \in MakingRow : r # Absent
  <1>1. "seen" \notin DOMAIN Absent
    BY DEF Absent
  <1>2. \A r \in MakingRow : "seen" \in DOMAIN r
    BY DEF MakingRow
  <1> QED
    BY <1>1, <1>2

LEMMA LabelIsNotAbsent == \A r \in Label : r # Absent
  <1>1. "opp" \notin DOMAIN Absent
    BY DEF Absent
  <1>2. \A r \in Label : "opp" \in DOMAIN r
    BY DEF Label
  <1> QED
    BY <1>1, <1>2

LEMMA MergedIsLabel ==
    ASSUME label \in Label, NEW loaded, NEW seen \in SUBSET Outcome, Latest(seen) \in seen
    PROVE  Merged(loaded, seen) \in Label
  <1> DEFINE row == Row(Latest(seen))
             opp == Column(loaded, seen, "opp")
             lab == Column(loaded, seen, "label")
             value == Column(loaded, seen, "value")
             src == Column(loaded, seen, "src")
  <1>1. row \in Label
    BY RowIsLabel
  <1>2. /\ opp \in {label["opp"], row["opp"]}
        /\ lab \in {label["label"], row["label"]}
        /\ value \in {label["value"], row["value"]}
        /\ src \in {label["src"], row["src"]}
    BY DEF Column
  <1>3. /\ label.opp \in Opportunities /\ label.src \in Nat
        /\ label.label \in {LabelOf[t].label : t \in OutcomeTypes}
        /\ label.value \in {"UNKNOWN", "TRUE", "FALSE"}
    BY DEF Label
  <1>4. /\ row.opp \in Opportunities /\ row.src \in Nat
        /\ row.label \in {LabelOf[t].label : t \in OutcomeTypes}
        /\ row.value \in {"UNKNOWN", "TRUE", "FALSE"}
    BY <1>1 DEF Label
  <1>5. /\ opp \in Opportunities /\ src \in Nat
        /\ lab \in {LabelOf[t].label : t \in OutcomeTypes}
        /\ value \in {"UNKNOWN", "TRUE", "FALSE"}
    BY <1>2, <1>3, <1>4
  <1>6. Merged(loaded, seen) = [opp |-> opp, label |-> lab, value |-> value, src |-> src]
    BY DEF Merged
  <1> HIDE DEF opp, lab, value, src
  <1> QED
    BY <1>5, <1>6 DEF Label

\* If what was loaded is the label, columns that are not written hold what they would be
\* written with.
LEMMA MergedIsRow ==
    ASSUME NEW seen, Latest(seen) \in seen
    PROVE  Merged(label, seen) = Row(Latest(seen))
  <1> DEFINE row == Row(Latest(seen))
  <1>1. \A c : Column(label, seen, c) = row[c]
    BY DEF Column
  <1>2. Merged(label, seen) = [c \in {"opp", "label", "value", "src"} |-> row[c]]
    BY <1>1 DEF Merged
  <1>3. row = [c \in {"opp", "label", "value", "src"} |-> row[c]]
    BY DEF Row
  <1> QED
    BY <1>2, <1>3
\* A column is the one of the latest outcome seen, or is left as it is.
LEMMA ColumnIsRecorded ==
    ASSUME LabelIsRecorded, label \in Label, NEW loaded, NEW seen \in SUBSET outcomes,
           Latest(seen) \in seen, \A o \in seen : InWindow(o),
           NEW c \in {"opp", "label", "value", "src"}
    PROVE  RecordedInWindow(c, Column(loaded, seen, c))
  <1>1. RecordedInWindow(c, label[c])
    BY LabelIsNotAbsent DEF LabelIsRecorded
  <1>2. RecordedInWindow(c, Row(Latest(seen))[c])
    BY DEF RecordedInWindow
  <1>3. Column(loaded, seen, c) \in {label[c], Row(Latest(seen))[c]}
    BY DEF Column
  <1> QED
    BY <1>1, <1>2, <1>3

\* The requests that create and update leave the label alone and add to the outcomes.
LEMMA OthersLeaveLabel ==
    ASSUME LabelInv, FeedbackInv', UNCHANGED <<label, making>>, outcomes \subseteq outcomes'
    PROVE  /\ LabelInv' /\ (LabelIsRecorded => LabelIsRecorded')
           /\ \A m \in Materializers : Wins(m)
  <1>1. LabelType'
    BY DEF LabelInv, LabelType
  <1>2. SeenIsRecorded'
    BY DEF LabelInv, SeenIsRecorded, InWindow
  <1>3. LabelIsRecorded => LabelIsRecorded'
    BY DEF LabelIsRecorded, RecordedInWindow, InWindow, Row
  <1>4. \A m \in Materializers : Wins(m)
    BY DEF Wins
  <1> QED
    BY <1>1, <1>2, <1>3, <1>4 DEF LabelInv

LEMMA ReadOutcomesStep ==
    ASSUME LabelInv, FeedbackInv', NEW m \in Materializers, ReadOutcomes(m)
    PROVE  /\ LabelInv' /\ (LabelIsRecorded => LabelIsRecorded')
           /\ \A n \in Materializers : Wins(n)
  <1> DEFINE row == [seen |-> {o \in outcomes : InWindow(o)}, loaded |-> None]
  <1>1. row \in MakingRow
    BY DEF MakingRow, LabelInv, FeedbackInv, FeedbackType
  <1>2. /\ UNCHANGED <<outcomes, label>>
        /\ making' \in [Materializers -> MakingRow \cup {Absent}]
        /\ \A n \in Materializers : making'[n] = IF n = m THEN row ELSE making[n]
    BY <1>1 DEF ReadOutcomes, LabelInv, LabelType
  <1>3. SeenIsRecorded'
    BY <1>2 DEF LabelInv, SeenIsRecorded, InWindow
  <1>4. LabelIsRecorded => LabelIsRecorded'
    BY <1>2 DEF LabelIsRecorded, RecordedInWindow, InWindow, Row
  <1>5. \A n \in Materializers : Wins(n)
    BY <1>1, <1>2, MakingIsNotAbsent DEF Wins
  <1> QED
    BY <1>2, <1>3, <1>4, <1>5 DEF LabelInv, LabelType

LEMMA LoadLabelStep ==
    ASSUME LabelInv, FeedbackInv', NEW m \in Materializers, LoadLabel(m)
    PROVE  /\ LabelInv' /\ (LabelIsRecorded => LabelIsRecorded')
           /\ \A n \in Materializers : Wins(n)
  <1> DEFINE row == [making[m] EXCEPT !.loaded = label]
  <1>1. making[m] \in MakingRow /\ label \in Label \cup {Absent}
    BY DEF LoadLabel, LabelInv, LabelType
  <1>2. row \in MakingRow /\ row.seen = making[m].seen /\ row.loaded = label
    BY <1>1 DEF MakingRow
  <1> HIDE DEF row
  <1>3. /\ UNCHANGED <<outcomes, label>>
        /\ making' \in [Materializers -> MakingRow \cup {Absent}]
        /\ \A n \in Materializers : making'[n] = IF n = m THEN row ELSE making[n]
    BY <1>2 DEF LoadLabel, LabelInv, LabelType, row
  <1>4. SeenIsRecorded'
    <2> SUFFICES ASSUME NEW n \in Materializers, making'[n] # Absent
                 PROVE  /\ making'[n].seen \subseteq outcomes'
                        /\ \A o \in making'[n].seen : InWindow(o)
                        /\ making'[n].loaded \notin {None, Absent} => label' # Absent
      BY DEF SeenIsRecorded, InWindow
    <2>1. CASE n = m
      <3>1. making[m] # Absent
        BY DEF LoadLabel
      <3> QED
        BY <1>2, <1>3, <2>1, <3>1 DEF LabelInv, SeenIsRecorded
    <2>2. CASE n # m
      BY <1>3, <2>2 DEF LabelInv, SeenIsRecorded
    <2> QED
      BY <2>1, <2>2
  <1>5. LabelIsRecorded => LabelIsRecorded'
    BY <1>3 DEF LabelIsRecorded, RecordedInWindow, InWindow, Row
  <1>6. \A n \in Materializers : Wins(n)
    BY <1>2, <1>3, MakingIsNotAbsent DEF Wins
  <1> QED
    BY <1>3, <1>4, <1>5, <1>6 DEF LabelInv, LabelType

\* A label that is written is a label with recorded columns, and if it was not written since
\* it was loaded, the row of the latest outcome seen.
LEMMA WriteLabelStep ==
    ASSUME LabelInv, FeedbackInv', NEW m \in Materializers, WriteLabel(m)
    PROVE  /\ LabelInv' /\ (LabelIsRecorded => LabelIsRecorded')
           /\ \A n \in Materializers : Wins(n)
  <1> DEFINE seen == making[m].seen
             loaded == making[m].loaded
  <1>1. making[m] # Absent /\ making[m] \in MakingRow /\ loaded # None
    BY DEF WriteLabel, LabelInv, LabelType
  <1>2. /\ UNCHANGED outcomes
        /\ making' \in [Materializers -> MakingRow \cup {Absent}]
        /\ \A n \in Materializers : making'[n] = IF n = m THEN Absent ELSE making[n]
    BY DEF WriteLabel, LabelInv, LabelType
  <1>3. /\ seen \in SUBSET Outcome /\ seen \subseteq outcomes
        /\ \A o \in seen : InWindow(o)
        /\ loaded # Absent => label \in Label
    BY <1>1 DEF LabelInv, LabelType, SeenIsRecorded, MakingRow
  <1>4. seen # {} => Latest(seen) \in seen /\ \A other \in seen : other.at <= Latest(seen).at
    BY <1>3, LatestIsSeen
  <1>5. \/ label' = label
        \/ seen # {} /\ loaded = Absent /\ label = Absent /\ label' = Row(Latest(seen))
        \/ seen # {} /\ loaded # Absent /\ label' = Merged(loaded, seen)
    BY DEF WriteLabel
  <1>6. label' \in Label \cup {Absent} /\ (label # Absent => label' # Absent)
    <2>1. label \in Label \cup {Absent}
      BY DEF LabelInv, LabelType
    <2>2. seen # {} => Row(Latest(seen)) \in Label
      BY <1>3, <1>4, RowIsLabel
    <2>3. seen # {} /\ loaded # Absent => Merged(loaded, seen) \in Label
      BY <1>3, <1>4, MergedIsLabel
    <2> QED
      BY <1>5, <2>1, <2>2, <2>3, LabelIsNotAbsent
  <1>7. SeenIsRecorded'
    BY <1>2, <1>6 DEF LabelInv, SeenIsRecorded, InWindow
  <1>8. LabelInv'
    BY <1>2, <1>6, <1>7 DEF LabelInv, LabelType
  <1>9. ASSUME LabelIsRecorded PROVE LabelIsRecorded'
    <2>1. \A c, value : RecordedInWindow(c, value) => RecordedInWindow(c, value)'
      BY <1>2 DEF RecordedInWindow, InWindow, Row
    <2>2. CASE label' = label
      BY <1>9, <2>1, <2>2 DEF LabelIsRecorded
    <2>3. CASE seen # {} /\ label' = Row(Latest(seen))
      <3>1. \A c : RecordedInWindow(c, Row(Latest(seen))[c])
        BY <1>3, <1>4, <2>3 DEF RecordedInWindow
      <3> QED
        BY <2>1, <2>3, <3>1 DEF LabelIsRecorded
    <2>4. CASE seen # {} /\ loaded # Absent /\ label' = Merged(loaded, seen)
      <3>1. \A c \in {"opp", "label", "value", "src"} : label'[c] = Column(loaded, seen, c)
        BY <2>4 DEF Merged
      <3>2. \A c \in {"opp", "label", "value", "src"} : RecordedInWindow(c, Column(loaded, seen, c))
        BY <1>3, <1>4, <1>9, <2>4, ColumnIsRecorded
      <3> QED
        BY <2>1, <3>1, <3>2 DEF LabelIsRecorded
    <2> QED
      BY <1>5, <2>2, <2>3, <2>4
  <1>10. ASSUME NEW n \in Materializers PROVE Wins(n)
    <2>1. CASE n # m
      BY <1>2, <2>1 DEF Wins
    <2>2. CASE n = m
      <3> SUFFICES ASSUME seen # {}, loaded = label
                   PROVE  \E o \in outcomes : /\ InWindow(o) /\ label' = Row(o)
                                              /\ \A other \in seen : other.at <= o.at
        BY <2>2 DEF Wins
      <3>1. Merged(label, seen) = Row(Latest(seen))
        BY <1>4, MergedIsRow
      <3>2. label' = Row(Latest(seen))
        BY <3>1 DEF WriteLabel
      <3> QED
        BY <1>3, <1>4, <3>2
    <2> QED
      BY <2>1, <2>2
  <1> QED
    BY <1>8, <1>9, <1>10

LEMMA LabelStep ==
    ASSUME LabelInv, [Next]_vars
    PROVE  /\ LabelInv' /\ (LabelIsRecorded => LabelIsRecorded')
           /\ \A m \in Materializers : Wins(m)
  <1> DEFINE Goal ==
         /\ LabelInv' /\ (LabelIsRecorded => LabelIsRecorded')
         /\ \A m \in Materializers : Wins(m)
  <1>1. FeedbackInv'
    BY FeedbackStep DEF LabelInv
  <1>2. ASSUME NEW p \in Posts, Receive(p) \/ AskFails(p) \/ Asked(p) \/ Flush(p) \/ Return(p) \/ Commit(p)
        PROVE  Goal
    BY <1>1, <1>2, OthersLeaveLabel DEF Receive, AskFails, Asked, Flush, Return, Commit
  <1>3. ASSUME NEW q \in Patches, Load(q) \/ Update(q)
        PROVE  Goal
    BY <1>1, <1>3, OthersLeaveLabel DEF Load, Update
  <1>4. ASSUME NEW m \in Materializers, ReadOutcomes(m) \/ LoadLabel(m) \/ WriteLabel(m)
        PROVE  Goal
    BY <1>1, <1>4, ReadOutcomesStep, LoadLabelStep, WriteLabelStep
  <1>5. CASE UNCHANGED vars
    BY <1>1, <1>5, OthersLeaveLabel DEF vars
  <1> QED
    BY <1>2, <1>3, <1>4, <1>5 DEF Next

LEMMA LabelInit ==
    ASSUME Init
    PROVE  LabelInv /\ LabelIsRecorded
  BY FeedbackInit DEF Init, LabelInv, LabelType, SeenIsRecorded, LabelIsRecorded

\* The tables, the requests and the label keep their types.
THEOREM FeedbackTypeCorrect == Spec => []TypeOK
  <1>1. LabelInv => TypeOK
    BY DEF LabelInv, LabelType, FeedbackInv, FeedbackType, PostRow, PatchRow, MakingRow, TypeOK
  <1> QED
    BY <1>1, LabelInit, LabelStep, PTL DEF Spec

\* Whatever is created and updated, and however many make the label at once, each of its
\* columns is that of an outcome recorded in the window.
THEOREM LabelsAreRecorded == Spec => []LabelIsRecorded
  <1>1. Init => LabelInv /\ LabelIsRecorded
    BY LabelInit
  <1>2. LabelInv /\ LabelIsRecorded /\ [Next]_vars => (LabelInv /\ LabelIsRecorded)'
    BY LabelStep
  <1> QED
    BY <1>1, <1>2, PTL DEF Spec

\* A request whose loaded label nobody wrote since makes it the last outcome it has seen.
THEOREM TheLastOutcomeWins == Spec => LastOutcomeWins
  <1>1. LabelInv /\ [Next]_vars => \A m \in Materializers : Wins(m)
    BY LabelStep
  <1>2. (\A m \in Materializers : Wins(m)) =>
        \A m \in Materializers :
            /\ making[m] # Absent /\ making'[m] = Absent
            /\ making[m].seen # {} /\ making[m].loaded = label
            => \E o \in outcomes : /\ InWindow(o) /\ label' = Row(o)
                                   /\ \A other \in making[m].seen : other.at <= o.at
    BY DEF Wins
  <1> QED
    BY <1>1, <1>2, LabelInit, LabelStep, PTL DEF Spec, LastOutcomeWins
=============================================================================
