------------------------ MODULE ScoringPolicyProofs -------------------------
(***************************************************************************)
(* Proofs about ScoringPolicy for any workers, policies, people, weights,  *)
(* dates and number of versions, and for every overlap of requests.        *)
(*                                                                         *)
(* The invariant has four layers: the types; what a request remembers of   *)
(* the rows and what the domain made of it; who vouches for a row, in the  *)
(* table and in the memory of a request; and what an orderly request knows *)
(* of the history.                                                         *)
(***************************************************************************)
EXTENDS ScoringPolicy, TLAPS

-----------------------------------------------------------------------------
(* Types *)

\* What the fields of a call have in common, whatever was read.
CallOK(c) ==
    /\ c.phase # "idle" => c.op # "NONE" /\ c.actor \in Actors
    /\ c.phase \notin {"idle", "commit"} => c.op # "CREATED"
    /\ c.phase = "previous" => c.op = "ACTIVE"
    /\ c.op \notin {"NONE", "CREATED"} => c.seen.current \in Numbers
    /\ c.phase \in {"previous", "commit"} /\ c.op # "CREATED" => c.last \in Numbers
    /\ c.phase = "commit" /\ c.op = "VERSION_CREATED" => c.last < MaxVersion

TypeInv == TypeOK /\ \A w \in Workers : CallOK(call[w])

LEMMA AbsentType == Absent \in VersionRow /\ Nothing \in [Numbers -> VersionRow]
  BY DEF Absent, Nothing, VersionRow, Times

LEMMA IdleType == Idle \in Call /\ CallOK(Idle)
<1>1. 1 \in Numbers /\ 0 \in 0..MaxVersion
  BY PolicyAssumption DEF Numbers
<1> QED
  BY <1>1, AbsentType, PolicyAssumption, SMTT(30) DEF Idle, Call, CallOK, PolicyRow, Phases, Times

LEMMA DraftType ==
  ASSUME NEW a \in Actors \cup {Null}, NEW w \in Weights \cup {Null}
  PROVE  Draft(a, w) \in VersionRow
  BY DEF Draft, Absent, VersionRow, PolicyStatus, Times

LEMMA MovedType ==
  ASSUME NEW v \in VersionRow, NEW target \in Moves \cup {"ROLLED_BACK"}, NEW a \in Actors,
         NEW at \in Times
  PROVE  Moved(v, target, a, at) \in VersionRow
<1>1. target \in PolicyStatus \cup {"ABSENT"}
  BY DEF PolicyStatus, Moves
<1> QED
  BY <1>1 DEF Moved, VersionRow

\* Merge, column by column.
LEMMA MergedRow ==
  ASSUME NEW row \in VersionRow, NEW seen \in VersionRow, NEW new \in VersionRow
  PROVE  /\ Merge(row, seen, new) \in VersionRow
         /\ Merge(row, seen, new).status
              = IF new.status # seen.status THEN new.status ELSE row.status
         /\ Merge(row, seen, new).author
              = IF new.author # seen.author THEN new.author ELSE row.author
         /\ Merge(row, seen, new).approver
              = IF new.approver # seen.approver THEN new.approver ELSE row.approver
         /\ Merge(row, seen, new).simulated
              = IF new.simulated # seen.simulated THEN new.simulated ELSE row.simulated
  BY DEF Merge, VersionRow

LEMMA MergedUnchanged ==
  ASSUME NEW row \in VersionRow, NEW seen \in VersionRow
  PROVE  Merge(row, seen, seen) = row
  BY DEF Merge, VersionRow

LEMMA MergedFresh ==
  ASSUME NEW row \in VersionRow, NEW new \in VersionRow
  PROVE  Merge(row, row, new) = new
  BY DEF Merge, VersionRow

LEMMA MergedPolicy ==
  ASSUME NEW row \in PolicyRow, NEW seen \in PolicyRow, NEW new \in PolicyRow
  PROVE  /\ Merge(row, seen, new) \in PolicyRow
         /\ Merge(row, seen, new).current
              = IF new.current # seen.current THEN new.current ELSE row.current
         /\ Merge(row, seen, new).active
              = IF new.active # seen.active THEN new.active ELSE row.active
  BY DEF Merge, PolicyRow

LEMMA MovedFields ==
  ASSUME NEW v \in VersionRow, NEW target \in Moves \cup {"ROLLED_BACK"}, NEW a \in Actors,
         NEW at \in Times
  PROVE  /\ Moved(v, target, a, at).status = target
         /\ Moved(v, target, a, at).author = v.author
         /\ Moved(v, target, a, at).simulated = (v.simulated \/ target = "SIMULATED")
         /\ Moved(v, target, a, at).approver = IF target = "APPROVED" THEN a ELSE v.approver
         /\ Moved(v, target, a, at).from = IF target = "ACTIVE" /\ v.from = Null THEN at ELSE v.from
         /\ Moved(v, target, a, at).to = v.to
  BY DEF Moved, VersionRow

LEMMA RolledFields ==
  ASSUME NEW v \in VersionRow, NEW a \in Actors, NEW at \in Times
  PROVE  LET m == Moved(v, "ROLLED_BACK", a, at) IN
         /\ m.status = "ROLLED_BACK" /\ m.author = v.author /\ m.simulated = v.simulated
         /\ m.approver = v.approver /\ m.from = v.from /\ m.to = v.to
  BY DEF Moved, VersionRow

LEMMA RestoredFields ==
  ASSUME NEW v \in VersionRow, NEW at \in Times
  PROVE  /\ Restored(v, at) \in VersionRow
         /\ Restored(v, at).status = "ACTIVE"
         /\ Restored(v, at).author = v.author
         /\ Restored(v, at).simulated = v.simulated
         /\ Restored(v, at).approver = v.approver
         /\ Restored(v, at).from = at
         /\ Restored(v, at).to = Null
  BY DEF Restored, VersionRow, PolicyStatus, Times

LEMMA MadeType ==
  ASSUME NEW c \in Call, c.actor \in Actors, NEW rows \in [Numbers -> VersionRow],
         NEW last \in Numbers, c.op \in Moves \cup {"VERSION_CREATED", "ROLLBACK"}
  PROVE  Made(c, rows, last) \in VersionRow
<1>1. /\ c.weights \in Weights \cup {Null} /\ c.at \in Times /\ c.number \in Numbers
      /\ c.date \in Times
  BY PolicyAssumption DEF Call, Times
<1>2. CASE c.op = "VERSION_CREATED"
  BY <1>1, <1>2, DraftType DEF Made
<1>3. CASE c.op = "ROLLBACK"
  BY <1>1, <1>3, RestoredFields DEF Made
<1>4. CASE c.op \in Moves
  <2>1. Moved(rows[last], c.op, c.actor, c.at) \in VersionRow
    BY <1>1, <1>4, MovedType
  <2>2. ASSUME NEW v \in VersionRow  PROVE [v EXCEPT !.from = c.date] \in VersionRow
    BY <1>1 DEF VersionRow
  <2>3. c.op \notin {"VERSION_CREATED", "ROLLBACK"}
    BY <1>4 DEF Moves
  <2> QED
    BY <2>1, <2>2, <2>3 DEF Made
<1> QED
  BY <1>2, <1>3, <1>4

\* A call keeps the rest of what it knows when it stops being orderly.
LEMMA Disordered ==
  ASSUME NEW c \in Call
  PROVE  LET d == [c EXCEPT !.orderly = FALSE] IN
         /\ d \in Call /\ ~d.orderly
         /\ d.op = c.op /\ d.policy = c.policy /\ d.number = c.number /\ d.actor = c.actor
         /\ d.phase = c.phase /\ d.seen = c.seen /\ d.rows = c.rows /\ d.last = c.last
         /\ d.made = c.made /\ d.at = c.at /\ d.previous = c.previous /\ d.date = c.date
         /\ d.weights = c.weights
  BY DEF Call

\* What the end of a request does to the calls.
LEMMA EndedCalls ==
  ASSUME TypeInv, NEW w \in Workers, Ended(w)
  PROVE  /\ call' \in [Workers -> Call]
         /\ \A x \in Workers : CallOK(call'[x])
         /\ call'[w] = Idle
         /\ \A x \in Workers \ {w} :
               \/ call'[x] = call[x] /\ call[x].policy # call[w].policy
               \/ call'[x] = [call[x] EXCEPT !.orderly = FALSE]
<1>1. call'[w] = Idle
  BY DEF Ended
<1>2. ASSUME NEW x \in Workers, x # w
      PROVE  /\ call'[x] \in Call /\ CallOK(call'[x])
             /\ \/ call'[x] = call[x] /\ call[x].policy # call[w].policy
                \/ call'[x] = [call[x] EXCEPT !.orderly = FALSE]
  <2>1. call[x] \in Call /\ CallOK(call[x])
    BY DEF TypeInv, TypeOK
  <2>2. [call[x] EXCEPT !.orderly = FALSE] \in Call /\ CallOK([call[x] EXCEPT !.orderly = FALSE])
    BY <2>1, Disordered DEF CallOK
  <2> QED
    BY <1>2, <2>1, <2>2 DEF Ended
<1>3. call' = [x \in Workers |-> call'[x]]
  BY DEF Ended
<1> QED
  BY <1>1, <1>2, <1>3, IdleType

\* What a step of one worker, other than the end of a request, does to the calls.
LEMMA OneCall ==
  ASSUME TypeInv, NEW w \in Workers, NEW c \in Call, CallOK(c), call' = [call EXCEPT ![w] = c]
  PROVE  /\ call' \in [Workers -> Call]
         /\ \A x \in Workers : CallOK(call'[x])
         /\ call'[w] = c
         /\ \A x \in Workers \ {w} : call'[x] = call[x]
  BY DEF TypeInv, TypeOK

LEMMA AppendsType ==
  ASSUME TypeInv, NEW w \in Workers, call[w].phase = "commit",
         NEW rows \in SUBSET (Numbers \X AuditAction), Appends(w, rows)
  PROVE  /\ audit' \in [Policies -> SUBSET Event]
         /\ \A p \in Policies : audit[p] \subseteq audit'[p]
         /\ \A row \in rows : [version |-> row[1], action |-> row[2], user |-> call[w].actor]
                                \in audit'[call[w].policy]
<1>1. call[w].actor \in Actors /\ call[w].policy \in Policies
  BY DEF TypeInv, TypeOK, CallOK, Call
<1> DEFINE new == {[version |-> row[1], action |-> row[2], user |-> call[w].actor] : row \in rows}
<1>2. new \subseteq Event
  BY <1>1 DEF Event
<1>3. audit' = [audit EXCEPT ![call[w].policy] = @ \cup new]
  BY DEF Appends
<1>4. \A row \in rows : [version |-> row[1], action |-> row[2], user |-> call[w].actor] \in new
  OBVIOUS
<1>5. audit \in [Policies -> SUBSET Event]
  BY DEF TypeInv, TypeOK
<1> HIDE DEF new
<1> QED
  BY <1>1, <1>2, <1>3, <1>4, <1>5

\* The call a request starts with.
Received(op, p, n, a, date, wt) ==
    [Idle EXCEPT !.op = op, !.policy = p, !.actor = a, !.date = date, !.weights = wt,
                 !.number = IF op = "VERSION_CREATED" THEN policy[p].current ELSE n,
                 !.phase = IF op = "CREATED" THEN "commit" ELSE "named",
                 !.seen = policy[p],
                 !.orderly = Exists(p) /\ Sound(p)]

LEMMA ReceivedFields ==
  ASSUME TypeInv, NEW w \in Workers, NEW op \in Operations, NEW p \in Policies, NEW n \in Numbers,
         NEW a \in Actors, NEW date \in Dates \cup {Null}, NEW wt \in Weights \cup {Null},
         Receive(w, op, p, n, a, date, wt)
  PROVE  LET d == Received(op, p, n, a, date, wt) IN
         /\ d \in Call /\ CallOK(d) /\ call' = [call EXCEPT ![w] = d]
         /\ d.op = op /\ d.policy = p /\ d.seen = policy[p] /\ d.actor = a
         /\ d.number = IF op = "VERSION_CREATED" THEN policy[p].current ELSE n
         /\ d.phase = IF op = "CREATED" THEN "commit" ELSE "named"
         /\ d.rows = Nothing /\ d.last = 0 /\ d.made = Absent /\ d.at = Null /\ d.previous = {}
         /\ d.orderly = (Exists(p) /\ Sound(p)) /\ d.date = date
         /\ op = "CREATED" <=> ~Exists(p)
         /\ op # "ACTIVE" => date = Null
<1> DEFINE number == IF op = "VERSION_CREATED" THEN policy[p].current ELSE n
           phase == IF op = "CREATED" THEN "commit" ELSE "named"
           orderly == Exists(p) /\ Sound(p)
           d == [Idle EXCEPT !.op = op, !.policy = p, !.actor = a, !.date = date, !.weights = wt,
                             !.number = number, !.phase = phase, !.seen = policy[p],
                             !.orderly = orderly]
<1>1. d = Received(op, p, n, a, date, wt)
  BY DEF Received
<1>2. policy[p] \in PolicyRow
  BY DEF TypeInv, TypeOK
<1>3. op # "CREATED" => policy[p].current \in Numbers
  BY <1>2, PolicyAssumption DEF Receive, Exists, PolicyRow, Numbers
<1>4. number \in Numbers /\ phase \in Phases /\ orderly \in BOOLEAN
  BY <1>3 DEF Phases
<1>5. /\ call' = [call EXCEPT ![w] = d] /\ (op = "CREATED" <=> ~Exists(p))
      /\ op # "ACTIVE" => date = Null
  BY DEF Receive
<1> HIDE DEF number, phase, orderly
<1>6. /\ d.op = op /\ d.policy = p /\ d.seen = policy[p] /\ d.actor = a
      /\ d.number = number /\ d.phase = phase /\ d.date = date /\ d.weights = wt
      /\ d.rows = Nothing /\ d.last = 0 /\ d.made = Absent /\ d.at = Null /\ d.previous = {}
      /\ d.orderly = orderly
  BY DEF Idle
<1>7. op \in Operations \cup {"NONE"} /\ wt \in Weights \cup {Null} /\ a \in Actors \cup {Null}
  OBVIOUS
<1>8. d \in Call
  <2> USE <1>2, <1>4, <1>7, IdleType
  <2>1. [Idle EXCEPT !.op = op, !.policy = p, !.actor = a] \in Call
    BY DEF Call
  <2>2. ASSUME NEW c \in Call  PROVE [c EXCEPT !.date = date, !.weights = wt, !.number = number] \in Call
    BY DEF Call
  <2>3. ASSUME NEW c \in Call  PROVE [c EXCEPT !.phase = phase, !.seen = policy[p], !.orderly = orderly] \in Call
    BY DEF Call
  <2> HIDE <1>2, <1>4, <1>7, IdleType
  <2> DEFINE c1 == [Idle EXCEPT !.op = op, !.policy = p, !.actor = a]
             c2 == [c1 EXCEPT !.date = date, !.weights = wt, !.number = number]
             c3 == [c2 EXCEPT !.phase = phase, !.seen = policy[p], !.orderly = orderly]
  <2>4. d = c3
    BY DEF d
  <2>5. c1 \in Call
    BY <2>1
  <2> HIDE DEF c1
  <2>6. c2 \in Call
    BY <2>2, <2>5
  <2> HIDE DEF c2
  <2>7. c3 \in Call
    BY <2>3, <2>6
  <2> QED
    BY <2>4, <2>7
<1>9. CallOK(d)
  <2>1. op # "NONE"
    BY DEF Operations, Moves
  <2> QED
    BY <1>3, <1>6, <2>1 DEF CallOK, phase
<1> HIDE DEF d
<1> QED
  BY <1>1, <1>5, <1>6, <1>8, <1>9 DEF number, phase, orderly

\* The request itself, and the policy it read first, are the same in both calls.
SameRequest(d, c) ==
    /\ d.op = c.op /\ d.policy = c.policy /\ d.number = c.number /\ d.actor = c.actor
    /\ d.date = c.date /\ d.weights = c.weights /\ d.seen = c.seen /\ d.orderly = c.orderly

LEMMA NamedFields ==
  ASSUME TypeInv, NEW w \in Workers, ReadNamed(w)
  PROVE  \E d \in Call :
         /\ call' = [call EXCEPT ![w] = d] /\ CallOK(d) /\ SameRequest(d, call[w])
         /\ d.rows = [call[w].rows EXCEPT ![call[w].number] = version[call[w].policy][call[w].number]]
         /\ d.phase \in {"current", "clock", "history"}
         /\ (d.op = "ROLLBACK") <=> (d.phase = "current")
         /\ (d.op \in {"ACTIVE", "DISABLED"}) <=> (d.phase = "clock")
         /\ d.last = call[w].last /\ d.made = call[w].made /\ d.at = call[w].at
         /\ d.previous = call[w].previous
<1> DEFINE c == call[w]
           phase == IF c.op = "ROLLBACK" THEN "current"
                    ELSE IF c.op \in {"ACTIVE", "DISABLED"} THEN "clock" ELSE "history"
           rows == [c.rows EXCEPT ![c.number] = version[c.policy][c.number]]
           d == [c EXCEPT !.rows = rows, !.phase = phase]
<1>1. c \in Call /\ CallOK(c) /\ version \in [Policies -> [Numbers -> VersionRow]]
  BY DEF TypeInv, TypeOK
<1>2. c.phase = "named" /\ call' = [call EXCEPT ![w] = d]
  BY DEF ReadNamed, Reads
<1>3. c.policy \in Policies /\ c.number \in Numbers /\ c.rows \in [Numbers -> VersionRow]
  BY <1>1 DEF Call
<1>4. rows \in [Numbers -> VersionRow] /\ phase \in Phases
  BY <1>1, <1>3 DEF Phases
<1> HIDE DEF c, rows, phase
<1>5. d \in Call /\ d.rows = rows /\ d.phase = phase /\ SameRequest(d, c) /\ d.last = c.last
      /\ d.made = c.made /\ d.at = c.at /\ d.previous = c.previous
  BY <1>1, <1>4 DEF Call, SameRequest
<1>6. CallOK(d)
  BY <1>1, <1>2, <1>5 DEF CallOK, SameRequest, phase
<1> HIDE DEF d
<1> QED
  BY <1>2, <1>5, <1>6 DEF c, rows, phase, SameRequest

LEMMA CurrentFields ==
  ASSUME TypeInv, NEW w \in Workers, ReadCurrent(w)
  PROVE  \E d \in Call :
         /\ call' = [call EXCEPT ![w] = d] /\ CallOK(d) /\ SameRequest(d, call[w])
         /\ d.rows = [call[w].rows EXCEPT ![call[w].seen.current] = Held(call[w], call[w].seen.current)]
         /\ call[w].seen.current \in Numbers
         /\ d.phase = "clock"
         /\ d.last = call[w].last /\ d.made = call[w].made /\ d.at = call[w].at
         /\ d.previous = call[w].previous
<1> DEFINE c == call[w]
           rows == [c.rows EXCEPT ![c.seen.current] = Held(c, c.seen.current)]
           d == [c EXCEPT !.rows = rows, !.phase = "clock"]
<1>1. c \in Call /\ CallOK(c) /\ version \in [Policies -> [Numbers -> VersionRow]]
  BY DEF TypeInv, TypeOK
<1>2. c.phase = "current" /\ call' = [call EXCEPT ![w] = d] /\ c.seen.current \in Numbers
  BY DEF ReadCurrent, Reads, Present
<1>3. c.policy \in Policies /\ c.rows \in [Numbers -> VersionRow]
  BY <1>1 DEF Call
<1>4. rows \in [Numbers -> VersionRow]
  BY <1>1, <1>2, <1>3 DEF Held
<1> HIDE DEF c, rows
<1>5. d \in Call /\ d.rows = rows /\ d.phase = "clock" /\ SameRequest(d, c) /\ d.last = c.last
      /\ d.made = c.made /\ d.at = c.at /\ d.previous = c.previous
  BY <1>1, <1>4 DEF Call, SameRequest, Phases
<1>6. CallOK(d)
  BY <1>1, <1>2, <1>5 DEF CallOK, SameRequest
<1> HIDE DEF d
<1> QED
  BY <1>2, <1>5, <1>6 DEF c, rows

LEMMA ClockFields ==
  ASSUME TypeInv, NEW w \in Workers, ReadClock(w)
  PROVE  \E d \in Call :
         /\ call' = [call EXCEPT ![w] = d] /\ CallOK(d) /\ SameRequest(d, call[w])
         /\ d.phase = "history" /\ d.at = now
         /\ d.rows = call[w].rows /\ d.last = call[w].last /\ d.made = call[w].made
         /\ d.previous = call[w].previous
<1> DEFINE c == call[w]
           d == [c EXCEPT !.at = now, !.phase = "history"]
<1>1. c \in Call /\ CallOK(c) /\ now \in Times
  BY DEF TypeInv, TypeOK, Times
<1>2. c.phase = "clock" /\ call' = [call EXCEPT ![w] = d]
  BY DEF ReadClock, Reads
<1> HIDE DEF c
<1>3. d \in Call /\ d.phase = "history" /\ d.at = now /\ SameRequest(d, c) /\ d.rows = c.rows
      /\ d.last = c.last /\ d.made = c.made /\ d.previous = c.previous
  BY <1>1 DEF Call, SameRequest, Phases
<1>4. CallOK(d)
  BY <1>1, <1>2, <1>3 DEF CallOK, SameRequest
<1> HIDE DEF d
<1> QED
  BY <1>2, <1>3, <1>4 DEF c

\* The history as a request has it when it decides.
History(c) == [n \in Numbers |-> Held(c, n)]

LEMMA HistoryFields ==
  ASSUME TypeInv, NEW w \in Workers, ReadHistory(w)
  PROVE  /\ History(call[w]) \in [Numbers -> VersionRow]
         /\ Loadable(call[w].seen, History(call[w]))
         /\ call[w].op \in Moves \cup {"VERSION_CREATED", "ROLLBACK"}
         /\ \E last \in Numbers, d \in Call :
               /\ call' = [call EXCEPT ![w] = d] /\ CallOK(d) /\ SameRequest(d, call[w])
               /\ IsLatest(History(call[w]), last)
               /\ Accepts(call[w], History(call[w]), last)
               /\ d.rows = [n \in Numbers |-> IF n \in Kept(call[w]) THEN History(call[w])[n]
                                              ELSE Absent]
               /\ d.last = last
               /\ d.made = Made(call[w], History(call[w]), last)
               /\ d.phase = IF d.op = "ACTIVE" THEN "previous" ELSE "commit"
               /\ d.at = call[w].at /\ d.previous = call[w].previous
<1> DEFINE c == call[w]
           rows == History(c)
<1>1. c \in Call /\ CallOK(c) /\ version \in [Policies -> [Numbers -> VersionRow]]
  BY DEF TypeInv, TypeOK
<1>2. c.phase = "history" /\ Loadable(c.seen, rows)
  BY DEF ReadHistory, Reads, History
<1>3. rows \in [Numbers -> VersionRow]
  BY <1>1 DEF History, Held, Call
<1>4. c.op \in Moves \cup {"VERSION_CREATED", "ROLLBACK"} /\ c.actor \in Actors
  BY <1>1, <1>2 DEF CallOK, Call, Operations
<1>5. PICK last \in Numbers :
        /\ IsLatest(rows, last) /\ Accepts(c, rows, last)
        /\ call' = [call EXCEPT ![w] =
              [c EXCEPT !.rows = [n \in Numbers |-> IF n \in Kept(c) THEN rows[n] ELSE Absent],
                        !.last = last, !.made = Made(c, rows, last),
                        !.phase = IF c.op = "ACTIVE" THEN "previous" ELSE "commit"]]
  BY DEF ReadHistory, History
<1> DEFINE kept == [n \in Numbers |-> IF n \in Kept(c) THEN rows[n] ELSE Absent]
           made == Made(c, rows, last)
           phase == IF c.op = "ACTIVE" THEN "previous" ELSE "commit"
           d == [c EXCEPT !.rows = kept, !.last = last, !.made = made, !.phase = phase]
<1>6. call' = [call EXCEPT ![w] = d]
  BY <1>5
<1>7. kept \in [Numbers -> VersionRow] /\ made \in VersionRow /\ phase \in Phases
      /\ last \in 0..MaxVersion
  <2>1. kept \in [Numbers -> VersionRow]
    BY <1>3, AbsentType
  <2>2. made \in VersionRow
    <3> HIDE DEF c, rows
    <3> QED
      BY <1>1, <1>3, <1>4, MadeType
  <2>3. phase \in Phases /\ last \in 0..MaxVersion
    BY PolicyAssumption DEF Phases, Numbers
  <2> QED
    BY <2>1, <2>2, <2>3
<1>8. c.op = "VERSION_CREATED" => last < MaxVersion
  BY <1>5 DEF Accepts
<1> HIDE DEF c, rows, kept, made, phase
<1>9. d \in Call /\ d.rows = kept /\ d.last = last /\ d.made = made /\ d.phase = phase
      /\ SameRequest(d, c) /\ d.at = c.at /\ d.previous = c.previous
  BY <1>1, <1>7 DEF Call, SameRequest
<1>10. CallOK(d)
  BY <1>1, <1>2, <1>5, <1>8, <1>9 DEF CallOK, SameRequest, phase
<1> HIDE DEF d
<1>11. d.phase = IF d.op = "ACTIVE" THEN "previous" ELSE "commit"
  BY <1>9 DEF phase, SameRequest
<1> QED
  BY <1>2, <1>3, <1>4, <1>5, <1>6, <1>9, <1>10, <1>11 DEF c, rows, kept, made

LEMMA PreviousFields ==
  ASSUME TypeInv, NEW w \in Workers, ReadPrevious(w)
  PROVE  LET previous == Active(version[call[w].policy]) \ {call[w].number} IN
         \E d \in Call :
         /\ call' = [call EXCEPT ![w] = d] /\ CallOK(d) /\ SameRequest(d, call[w])
         /\ d.rows = [n \in Numbers |-> IF n \in previous THEN version[call[w].policy][n]
                                        ELSE call[w].rows[n]]
         /\ d.previous = previous /\ d.phase = "commit"
         /\ d.last = call[w].last /\ d.made = call[w].made /\ d.at = call[w].at
<1> DEFINE c == call[w]
           previous == Active(version[c.policy]) \ {c.number}
           rows == [n \in Numbers |-> IF n \in previous THEN version[c.policy][n] ELSE c.rows[n]]
           d == [c EXCEPT !.rows = rows, !.previous = previous, !.phase = "commit"]
<1>1. c \in Call /\ CallOK(c) /\ version \in [Policies -> [Numbers -> VersionRow]]
  BY DEF TypeInv, TypeOK
<1>2. c.phase = "previous" /\ call' = [call EXCEPT ![w] = d]
  BY DEF ReadPrevious, Reads
<1>3. rows \in [Numbers -> VersionRow] /\ previous \in SUBSET Numbers
  BY <1>1 DEF Call, Active
<1> HIDE DEF c, rows, previous
<1>4. d \in Call /\ d.rows = rows /\ d.previous = previous /\ d.phase = "commit"
      /\ SameRequest(d, c) /\ d.last = c.last /\ d.made = c.made /\ d.at = c.at
  BY <1>1, <1>3 DEF Call, SameRequest, Phases
<1>5. CallOK(d)
  BY <1>1, <1>2, <1>4 DEF CallOK, SameRequest
<1> HIDE DEF d
<1> QED
  BY <1>2, <1>4, <1>5 DEF c, rows, previous

-----------------------------------------------------------------------------
(* The requests that update rows, in one form: a row changes where what a request intends *)
(* for it differs from what the request read.                                             *)

Intent(c, n) ==
    IF n = c.number
    THEN IF c.op = "DISABLED"
         THEN [c.made EXCEPT !.to = IF c.seen.active = c.number /\ @ = Null THEN c.at ELSE @]
         ELSE c.made
    ELSE IF c.op = "ACTIVE" /\ n \in c.previous
    THEN [c.rows[n] EXCEPT !.status = "DISABLED", !.to = c.made.from]
    ELSE IF c.op = "ROLLBACK" /\ n = c.seen.current /\ n = c.last /\ c.rows[n].status = "ACTIVE"
    THEN Moved(c.rows[n], "ROLLED_BACK", c.actor, c.at)
    ELSE c.rows[n]

\* The row of a version that another replaces at time f.
Replaced(v, f) == [v EXCEPT !.status = "DISABLED", !.to = f]

Pointer(c) ==
    IF c.op \in {"ACTIVE", "ROLLBACK"} THEN c.number
    ELSE IF c.op = "DISABLED" /\ c.seen.active = c.number THEN 0
    ELSE c.seen.active

Update(w) == Transition(w) \/ Activate(w) \/ Disable(w) \/ Rollback(w)

LEMMA IntentType ==
  ASSUME NEW c \in Call, c.actor \in Actors, NEW n \in Numbers
  PROVE  /\ Intent(c, n) \in VersionRow
         /\ Pointer(c) \in 0..MaxVersion
         /\ [c.seen EXCEPT !.active = Pointer(c)] \in PolicyRow
<1>1. /\ c.made \in VersionRow /\ c.rows[n] \in VersionRow /\ c.at \in Times /\ c.seen \in PolicyRow
      /\ c.number \in Numbers
  BY DEF Call
<1>2. [c.made EXCEPT !.to = IF c.seen.active = c.number /\ @ = Null THEN c.at ELSE @] \in VersionRow
  BY <1>1 DEF VersionRow
<1>3. [c.rows[n] EXCEPT !.status = "DISABLED", !.to = c.made.from] \in VersionRow
  <2> DEFINE v == c.rows[n]
             f == c.made.from
  <2>1. v \in VersionRow /\ f \in Times
    BY <1>1 DEF VersionRow
  <2> HIDE DEF v, f
  <2>2. [v EXCEPT !.status = "DISABLED", !.to = f] \in VersionRow
    BY <2>1 DEF VersionRow, PolicyStatus
  <2> QED
    BY <2>2 DEF v, f
<1>4. Moved(c.rows[n], "ROLLED_BACK", c.actor, c.at) \in VersionRow
  BY <1>1, MovedType
<1>5. Pointer(c) \in 0..MaxVersion
  BY <1>1, PolicyAssumption DEF Pointer, PolicyRow, Numbers
<1>6. [c.seen EXCEPT !.active = Pointer(c)] \in PolicyRow
  BY <1>1, <1>5 DEF PolicyRow
<1> QED
  BY <1>1, <1>2, <1>3, <1>4, <1>5, <1>6 DEF Intent

LEMMA UpdateEffect ==
  ASSUME TypeInv, NEW w \in Workers, Update(w)
  PROVE  LET c == call[w] IN
         /\ c \in Call /\ c.actor \in Actors /\ c.phase = "commit"
         /\ c.op \in Moves \cup {"ROLLBACK"} /\ Ended(w) /\ now' = now
         /\ version' = [version EXCEPT ![c.policy] =
                          [n \in Numbers |-> Merge(version[c.policy][n], c.rows[n], Intent(c, n))]]
         /\ policy' = [policy EXCEPT ![c.policy] =
                          Merge(policy[c.policy], c.seen, [c.seen EXCEPT !.active = Pointer(c)])]
         /\ c.op \in Moves => foreign' = foreign \cup
                (IF c.number = c.last THEN {} ELSE {<<c.policy, c.number>>})
         /\ c.op = "ROLLBACK" => foreign' = foreign
         /\ c.op \in {"ACTIVE", "ROLLBACK"} => UniqueActive'
<1> DEFINE c == call[w]
           p == c.policy
           n0 == c.number
<1>1. /\ c \in Call /\ CallOK(c) /\ version \in [Policies -> [Numbers -> VersionRow]]
      /\ policy \in [Policies -> PolicyRow]
  BY DEF TypeInv, TypeOK
<1>2. /\ p \in Policies /\ n0 \in Numbers /\ c.rows \in [Numbers -> VersionRow]
      /\ c.seen \in PolicyRow
  BY <1>1 DEF Call
<1>3. \A n \in Numbers : Merge(version[p][n], c.rows[n], c.rows[n]) = version[p][n]
  BY <1>1, <1>2, MergedUnchanged
<1>4. policy[p] = Merge(policy[p], c.seen, [c.seen EXCEPT !.active = c.seen.active])
  BY <1>1, <1>2 DEF Merge, PolicyRow
<1>5. policy = [policy EXCEPT ![p] = policy[p]]
  BY <1>1
<1>6. CASE Transition(w)
  <2>1. c.phase = "commit" /\ c.op \in {"SIMULATED", "SUBMITTED", "APPROVED", "PUBLISHED"}
        /\ Ended(w) /\ now' = now /\ policy' = policy
    BY <1>6 DEF Transition, Commits
  <2>2. c.op \in Moves /\ c.op \notin {"ROLLBACK", "ACTIVE", "DISABLED"} /\ c.actor \in Actors
    BY <1>1, <2>1 DEF Moves, CallOK
  <2>3. foreign' = foreign \cup (IF n0 = c.last THEN {} ELSE {<<p, n0>>})
    BY <1>6 DEF Transition, Strays
  <2>4. version' = [version EXCEPT ![p][n0] = Merge(version[p][n0], c.rows[n0], c.made)]
    BY <1>6 DEF Transition, Applied
  <2>5. \A n \in Numbers : Intent(c, n) = IF n = n0 THEN c.made ELSE c.rows[n]
    BY <2>2 DEF Intent
  <2>6. [version[p] EXCEPT ![n0] = Merge(version[p][n0], c.rows[n0], c.made)]
           = [n \in Numbers |-> Merge(version[p][n], c.rows[n], Intent(c, n))]
    BY <1>1, <1>2, <1>3, <2>5
  <2>7. Pointer(c) = c.seen.active
    BY <2>2 DEF Pointer
  <2> QED
    BY <1>1, <1>2, <1>4, <1>5, <2>1, <2>2, <2>3, <2>4, <2>6, <2>7
<1>7. CASE Activate(w)
  <2>1. c.phase = "commit" /\ c.op = "ACTIVE" /\ Ended(w) /\ now' = now /\ UniqueActive'
    BY <1>7 DEF Activate, Commits
  <2>2. c.op \in Moves /\ c.actor \in Actors
    BY <1>1, <2>1 DEF Moves, CallOK
  <2>3. foreign' = foreign \cup (IF n0 = c.last THEN {} ELSE {<<p, n0>>})
    BY <1>7 DEF Activate, Strays
  <2>4. policy' = [policy EXCEPT ![p] = Merge(policy[p], c.seen, [c.seen EXCEPT !.active = n0])]
    BY <1>7, <1>1 DEF Activate
  <2>5. version' = [version EXCEPT ![p] = [n \in Numbers |->
            IF n = n0 THEN Merge(version[p][n], c.rows[n], c.made)
            ELSE IF n \in c.previous
            THEN Merge(version[p][n], c.rows[n],
                       [c.rows[n] EXCEPT !.status = "DISABLED", !.to = c.made.from])
            ELSE version[p][n]]]
    BY <1>7, <1>1, <1>2 DEF Activate, Applied
  <2>6. [n \in Numbers |->
            IF n = n0 THEN Merge(version[p][n], c.rows[n], c.made)
            ELSE IF n \in c.previous
            THEN Merge(version[p][n], c.rows[n],
                       [c.rows[n] EXCEPT !.status = "DISABLED", !.to = c.made.from])
            ELSE version[p][n]]
           = [n \in Numbers |-> Merge(version[p][n], c.rows[n], Intent(c, n))]
    BY <1>3, <2>1 DEF Intent
  <2>7. Pointer(c) = n0
    BY <2>1 DEF Pointer
  <2> QED
    BY <1>1, <2>1, <2>2, <2>3, <2>4, <2>5, <2>6, <2>7
<1>8. CASE Disable(w)
  <2>1. c.phase = "commit" /\ c.op = "DISABLED" /\ Ended(w) /\ now' = now
    BY <1>8 DEF Disable, Commits
  <2>2. c.op \in Moves /\ c.actor \in Actors
    BY <1>1, <2>1 DEF Moves, CallOK
  <2>3. foreign' = foreign \cup (IF n0 = c.last THEN {} ELSE {<<p, n0>>})
    BY <1>8 DEF Disable, Strays
  <2>4. policy' = [policy EXCEPT ![p] = Merge(policy[p], c.seen, [c.seen EXCEPT !.active = Pointer(c)])]
    BY <1>8, <2>1 DEF Disable, Pointer
  <2>5. version' = [version EXCEPT ![p][n0] = Merge(version[p][n0], c.rows[n0],
                        [c.made EXCEPT !.to = IF c.seen.active = n0 /\ @ = Null THEN c.at ELSE @])]
    BY <1>8 DEF Disable, Applied
  <2>6. \A n \in Numbers : Intent(c, n) = IF n = n0
            THEN [c.made EXCEPT !.to = IF c.seen.active = n0 /\ @ = Null THEN c.at ELSE @]
            ELSE c.rows[n]
    BY <2>1 DEF Intent
  <2>7. [version[p] EXCEPT ![n0] = Merge(version[p][n0], c.rows[n0],
              [c.made EXCEPT !.to = IF c.seen.active = n0 /\ @ = Null THEN c.at ELSE @])]
           = [n \in Numbers |-> Merge(version[p][n], c.rows[n], Intent(c, n))]
    BY <1>1, <1>2, <1>3, <2>6
  <2> QED
    BY <1>1, <1>2, <2>1, <2>2, <2>3, <2>4, <2>5, <2>7
<1>9. CASE Rollback(w)
  <2> DEFINE source == IF c.seen.current = c.last /\ c.rows[c.seen.current].status = "ACTIVE"
                       THEN Moved(c.rows[c.seen.current], "ROLLED_BACK", c.actor, c.at)
                       ELSE c.rows[c.seen.current]
  <2>1. c.phase = "commit" /\ c.op = "ROLLBACK" /\ Ended(w) /\ now' = now /\ UniqueActive'
        /\ foreign' = foreign
    BY <1>9 DEF Rollback, Commits
  <2>2. c.op \notin Moves /\ c.actor \in Actors
    BY <1>1, <2>1 DEF Moves, CallOK
  <2>3. policy' = [policy EXCEPT ![p] = Merge(policy[p], c.seen, [c.seen EXCEPT !.active = n0])]
    BY <1>9, <1>1 DEF Rollback
  <2>4. version' = [version EXCEPT ![p] = [n \in Numbers |->
            IF n = n0 THEN Merge(version[p][n], c.rows[n], c.made)
            ELSE IF n = c.seen.current THEN Merge(version[p][n], c.rows[n], source)
            ELSE version[p][n]]]
    BY <1>9, <1>1, <1>2 DEF Rollback, Applied
  <2>5. [n \in Numbers |->
            IF n = n0 THEN Merge(version[p][n], c.rows[n], c.made)
            ELSE IF n = c.seen.current THEN Merge(version[p][n], c.rows[n], source)
            ELSE version[p][n]]
           = [n \in Numbers |-> Merge(version[p][n], c.rows[n], Intent(c, n))]
    BY <1>3, <2>1 DEF Intent
  <2>6. Pointer(c) = n0
    BY <2>1 DEF Pointer
  <2> QED
    BY <1>1, <2>1, <2>2, <2>3, <2>4, <2>5, <2>6
<1> QED
  BY <1>6, <1>7, <1>8, <1>9 DEF Update

LEMMA UpdateAudit ==
  ASSUME TypeInv, NEW w \in Workers, Update(w)
  PROVE  LET c == call[w] IN
         /\ audit' \in [Policies -> SUBSET Event]
         /\ \A q \in Policies : audit[q] \subseteq audit'[q]
         /\ c.op \in Moves =>
              [version |-> c.number, action |-> c.op, user |-> c.actor] \in audit'[c.policy]
<1> DEFINE c == call[w]
           n0 == c.number
<1>1. /\ c \in Call /\ c.phase = "commit" /\ c.op \in Moves \cup {"ROLLBACK"} /\ CallOK(c)
  BY UpdateEffect DEF TypeInv
<1>2. n0 \in Numbers /\ c.previous \subseteq Numbers
  BY <1>1 DEF Call
<1>3. CASE Transition(w)
  <2>1. <<n0, c.op>> \in Numbers \X AuditAction /\ Appends(w, {<<n0, c.op>>})
    BY <1>1, <1>2, <1>3 DEF Transition, AuditAction, Operations
  <2> QED
    BY <1>1, <2>1, AppendsType
<1>4. CASE Activate(w)
  <2> DEFINE rows == {<<n, "DISABLED">> : n \in c.previous} \cup {<<n0, "ACTIVE">>}
  <2>1. rows \in SUBSET (Numbers \X AuditAction) /\ <<n0, "ACTIVE">> \in rows
    BY <1>2 DEF AuditAction, Operations, Moves
  <2>2. Appends(w, rows) /\ c.op = "ACTIVE"
    BY <1>4 DEF Activate, Commits
  <2> HIDE DEF rows
  <2> QED
    BY <1>1, <2>1, <2>2, AppendsType
<1>5. CASE Disable(w)
  <2>1. <<n0, "DISABLED">> \in Numbers \X AuditAction /\ Appends(w, {<<n0, "DISABLED">>})
        /\ c.op = "DISABLED"
    BY <1>2, <1>5 DEF Disable, Commits, AuditAction, Operations, Moves
  <2> QED
    BY <1>1, <2>1, AppendsType
<1>6. CASE Rollback(w)
  <2>1. c.op = "ROLLBACK"
    BY <1>6 DEF Rollback, Commits
  <2>2. c.seen.current \in Numbers /\ c.op \notin Moves
    BY <1>1, <2>1 DEF CallOK, Moves
  <2> DEFINE rows == {<<c.seen.current, "ROLLBACK">>, <<n0, "ROLLBACK_ACTIVATED">>}
  <2>3. rows \in SUBSET (Numbers \X AuditAction)
    BY <1>2, <2>2 DEF AuditAction, Operations
  <2>4. Appends(w, rows)
    BY <1>6 DEF Rollback
  <2> HIDE DEF rows
  <2> QED
    BY <1>1, <2>2, <2>3, <2>4, AppendsType
<1> QED
  BY <1>3, <1>4, <1>5, <1>6 DEF Update

-----------------------------------------------------------------------------
(* Type correctness *)

\* A step of a worker that leaves the tables alone.
Quiet(w) ==
    \/ \E op \in Operations, p \in Policies, n \in Numbers, a \in Actors, date \in Dates \cup {Null},
          wt \in Weights \cup {Null} : Receive(w, op, p, n, a, date, wt)
    \/ ReadNamed(w) \/ ReadCurrent(w) \/ ReadClock(w) \/ ReadHistory(w) \/ ReadPrevious(w)
    \/ Fail(w)

LEMMA QuietTables ==
  ASSUME NEW w \in Workers, Quiet(w)
  PROVE  policy' = policy /\ version' = version /\ audit' = audit /\ foreign' = foreign
<1>1. ASSUME NEW op \in Operations, NEW p \in Policies, NEW n \in Numbers, NEW a \in Actors,
             NEW date \in Dates \cup {Null}, NEW wt \in Weights \cup {Null},
             Receive(w, op, p, n, a, date, wt)
      PROVE  UNCHANGED <<policy, version, audit, foreign>>
  BY <1>1 DEF Receive
<1>2. ReadNamed(w) => UNCHANGED <<policy, version, audit, foreign>>
  BY DEF ReadNamed, Reads
<1>3. ReadCurrent(w) => UNCHANGED <<policy, version, audit, foreign>>
  BY DEF ReadCurrent, Reads
<1>4. ReadClock(w) => UNCHANGED <<policy, version, audit, foreign>>
  BY DEF ReadClock, Reads
<1>5. ReadHistory(w) => UNCHANGED <<policy, version, audit, foreign>>
  BY DEF ReadHistory, Reads
<1>6. ReadPrevious(w) => UNCHANGED <<policy, version, audit, foreign>>
  BY DEF ReadPrevious, Reads
<1>7. Fail(w) => UNCHANGED <<policy, version, audit, foreign>>
  BY DEF Fail
<1> QED
  BY <1>1, <1>2, <1>3, <1>4, <1>5, <1>6, <1>7 DEF Quiet

\* Only ReadClock moves the clock.
LEMMA QuietClock ==
  ASSUME TypeInv, NEW w \in Workers, Quiet(w)
  PROVE  now' \in Nat /\ now' >= now
<1>1. now \in Nat
  BY DEF TypeInv, TypeOK
<1>2. ASSUME NEW op \in Operations, NEW p \in Policies, NEW n \in Numbers, NEW a \in Actors,
             NEW date \in Dates \cup {Null}, NEW wt \in Weights \cup {Null},
             Receive(w, op, p, n, a, date, wt)
      PROVE  now' = now
  BY <1>2 DEF Receive
<1>3. ReadNamed(w) => now' = now
  BY DEF ReadNamed
<1>4. ReadCurrent(w) => now' = now
  BY DEF ReadCurrent
<1>5. ReadClock(w) => now' = now + 1
  BY DEF ReadClock
<1>6. ReadHistory(w) => now' = now
  BY DEF ReadHistory
<1>7. ReadPrevious(w) => now' = now
  BY DEF ReadPrevious
<1>8. Fail(w) => now' = now
  BY DEF Fail
<1>9. now' = now \/ now' = now + 1
  BY <1>2, <1>3, <1>4, <1>5, <1>6, <1>7, <1>8 DEF Quiet
<1> QED
  BY <1>1, <1>9

LEMMA ReceivedCall ==
  ASSUME TypeInv, NEW w \in Workers, NEW op \in Operations, NEW p \in Policies, NEW n \in Numbers,
         NEW a \in Actors, NEW date \in Dates \cup {Null}, NEW wt \in Weights \cup {Null},
         Receive(w, op, p, n, a, date, wt)
  PROVE  \E d \in Call : call' = [call EXCEPT ![w] = d] /\ CallOK(d)
<1> DEFINE d == Received(op, p, n, a, date, wt)
<1>1. d \in Call /\ CallOK(d) /\ call' = [call EXCEPT ![w] = d]
  BY ReceivedFields
<1> HIDE DEF d
<1> QED
  BY <1>1

LEMMA QuietCalls ==
  ASSUME TypeInv, NEW w \in Workers, Quiet(w)
  PROVE  \E d \in Call : call' = [call EXCEPT ![w] = d] /\ CallOK(d)
<1>1. ASSUME NEW op \in Operations, NEW p \in Policies, NEW n \in Numbers, NEW a \in Actors,
             NEW date \in Dates \cup {Null}, NEW wt \in Weights \cup {Null},
             Receive(w, op, p, n, a, date, wt)
      PROVE  \E d \in Call : call' = [call EXCEPT ![w] = d] /\ CallOK(d)
  BY <1>1, ReceivedCall, Zenon
<1>2. CASE Fail(w)
  <2>1. call' = [call EXCEPT ![w] = Idle]
    BY <1>2 DEF Fail
  <2> QED
    BY <2>1, IdleType
<1>3. CASE ReadNamed(w)
  BY <1>3, NamedFields
<1>4. CASE ReadCurrent(w)
  BY <1>4, CurrentFields
<1>5. CASE ReadClock(w)
  BY <1>5, ClockFields
<1>6. CASE ReadHistory(w)
  BY <1>6, HistoryFields
<1>7. CASE ReadPrevious(w)
  BY <1>7, PreviousFields
<1> QED
  BY <1>1, <1>2, <1>3, <1>4, <1>5, <1>6, <1>7 DEF Quiet

LEMMA NextSplit ==
  ASSUME NEW w \in Workers, Step(w)
  PROVE  Quiet(w) \/ CreatePolicy(w) \/ CreateVersion(w) \/ Update(w)
  BY DEF Step, Quiet, Update

LEMMA CreateVersionType ==
  ASSUME TypeInv, NEW w \in Workers, CreateVersion(w)
  PROVE  LET c == call[w]
             p == call[w].policy
             n == call[w].last + 1
         IN
         /\ c \in Call /\ c.actor \in Actors /\ n \in Numbers /\ c.phase = "commit"
         /\ c.op = "VERSION_CREATED" /\ Ended(w)
         /\ version[p][n] = Absent
         /\ version' = [version EXCEPT ![p][n] = c.made]
         /\ [c.seen EXCEPT !.current = n] \in PolicyRow
         /\ policy' = [policy EXCEPT ![p] = Merge(policy[p], c.seen, [c.seen EXCEPT !.current = n])]
         /\ audit' \in [Policies -> SUBSET Event]
         /\ \A q \in Policies : audit[q] \subseteq audit'[q]
         /\ now' = now /\ foreign' = foreign
<1> DEFINE c == call[w]
           n == c.last + 1
<1>1. c \in Call /\ CallOK(c) /\ policy \in [Policies -> PolicyRow]
  BY DEF TypeInv, TypeOK
<1>2. c.phase = "commit" /\ c.op = "VERSION_CREATED" /\ Ended(w)
  BY DEF CreateVersion, Commits
<1>3. c.last \in Numbers /\ c.last < MaxVersion /\ c.actor \in Actors
  BY <1>1, <1>2 DEF CallOK
<1>4. n \in Numbers /\ n \in 0..MaxVersion
  BY <1>3, PolicyAssumption DEF Numbers
<1>5. [c.seen EXCEPT !.current = n] \in PolicyRow
  BY <1>1, <1>4 DEF Call, PolicyRow
<1>6. Appends(w, {<<n, "VERSION_CREATED">>}) /\ <<n, "VERSION_CREATED">> \in Numbers \X AuditAction
  BY <1>4 DEF CreateVersion, AuditAction, Operations
<1>7. audit' \in [Policies -> SUBSET Event] /\ \A q \in Policies : audit[q] \subseteq audit'[q]
  BY <1>2, <1>6, AppendsType
<1>8. policy' = [policy EXCEPT ![c.policy]
                    = Merge(policy[c.policy], c.seen, [c.seen EXCEPT !.current = n])]
  BY <1>1 DEF CreateVersion
<1> QED
  BY <1>1, <1>2, <1>3, <1>4, <1>5, <1>7, <1>8 DEF CreateVersion

LEMMA CreatePolicyType ==
  ASSUME TypeInv, NEW w \in Workers, CreatePolicy(w)
  PROVE  LET c == call[w]
             p == call[w].policy
         IN
         /\ c \in Call /\ c.actor \in Actors /\ c.phase = "commit" /\ c.op = "CREATED" /\ Ended(w)
         /\ ~Exists(p) /\ 1 \in Numbers
         /\ Draft(c.actor, c.weights) \in VersionRow
         /\ version' = [version EXCEPT ![p][1] = Draft(c.actor, c.weights)]
         /\ policy' = [policy EXCEPT ![p] = [current |-> 1, active |-> 0]]
         /\ [current |-> 1, active |-> 0] \in PolicyRow
         /\ audit' \in [Policies -> SUBSET Event]
         /\ \A q \in Policies : audit[q] \subseteq audit'[q]
         /\ now' = now /\ foreign' = foreign
<1> DEFINE c == call[w]
<1>1. c \in Call /\ CallOK(c)
  BY DEF TypeInv, TypeOK
<1>2. c.phase = "commit" /\ c.op = "CREATED" /\ Ended(w)
  BY DEF CreatePolicy, Commits
<1>3. c.actor \in Actors /\ 1 \in Numbers /\ [current |-> 1, active |-> 0] \in PolicyRow
  BY <1>1, <1>2, PolicyAssumption DEF CallOK, Numbers, PolicyRow
<1>4. Draft(c.actor, c.weights) \in VersionRow
  BY <1>1, DraftType DEF Call
<1>5. Appends(w, {<<1, "CREATED">>}) /\ <<1, "CREATED">> \in Numbers \X AuditAction
  BY <1>3 DEF CreatePolicy, AuditAction, Operations
<1>6. audit' \in [Policies -> SUBSET Event] /\ \A q \in Policies : audit[q] \subseteq audit'[q]
  BY <1>2, <1>5, AppendsType
<1> QED
  BY <1>1, <1>2, <1>3, <1>4, <1>6 DEF CreatePolicy

LEMMA TypeInit == Init => TypeInv
<1> SUFFICES ASSUME Init PROVE TypeInv
  OBVIOUS
<1>1. PICK w \in Weights :
        /\ policy = [p \in Policies |-> [current |-> IF p = Bootstrap THEN 1 ELSE 0,
                                         active |-> IF p = Bootstrap THEN 1 ELSE 0]]
        /\ version = [p \in Policies |-> [n \in Numbers |->
              IF p = Bootstrap /\ n = 1
              THEN [status |-> "ACTIVE", author |-> System, approver |-> System, weights |-> w,
                    simulated |-> TRUE, from |-> 0, to |-> Null]
              ELSE Absent]]
  BY DEF Init
<1>2. policy \in [Policies -> PolicyRow]
  <2>1. [current |-> 1, active |-> 1] \in PolicyRow /\ [current |-> 0, active |-> 0] \in PolicyRow
    BY PolicyAssumption DEF PolicyRow
  <2> QED
    BY <1>1, <2>1
<1>3. [status |-> "ACTIVE", author |-> System, approver |-> System, weights |-> w,
       simulated |-> TRUE, from |-> 0, to |-> Null] \in VersionRow
  BY DEF VersionRow, PolicyStatus, Times
<1>4. version \in [Policies -> [Numbers -> VersionRow]]
  BY <1>1, <1>3, AbsentType
<1>5. /\ audit = [p \in Policies |-> {}] /\ now = 1 /\ call = [x \in Workers |-> Idle]
      /\ foreign = {}
  BY DEF Init
<1>6. call \in [Workers -> Call] /\ \A x \in Workers : CallOK(call[x])
  BY <1>5, IdleType
<1> QED
  BY <1>2, <1>4, <1>5, <1>6 DEF TypeInv, TypeOK

LEMMA TypePreserved == TypeInv /\ [Next]_vars => TypeInv'
<1> SUFFICES ASSUME TypeInv, [Next]_vars PROVE TypeInv'
  OBVIOUS
<1>1. /\ policy \in [Policies -> PolicyRow] /\ version \in [Policies -> [Numbers -> VersionRow]]
      /\ call \in [Workers -> Call] /\ foreign \subseteq Policies \X Numbers /\ now \in Nat
      /\ audit \in [Policies -> SUBSET Event]
  BY DEF TypeInv, TypeOK
<1>2. CASE UNCHANGED vars
  BY <1>2 DEF TypeInv, TypeOK, vars
<1>3. ASSUME NEW w \in Workers, Quiet(w) PROVE TypeInv'
  <2>1. /\ policy' = policy /\ version' = version /\ audit' = audit /\ foreign' = foreign
        /\ now' \in Nat
    BY <1>3, QuietTables, QuietClock
  <2>2. call' \in [Workers -> Call] /\ \A x \in Workers : CallOK(call'[x])
    BY <1>3, QuietCalls, OneCall
  <2> QED
    BY <1>1, <2>1, <2>2 DEF TypeInv, TypeOK
<1>4. ASSUME NEW w \in Workers, CreatePolicy(w) PROVE TypeInv'
  <2> DEFINE c == call[w]
  <2>1. /\ c.policy \in Policies /\ 1 \in Numbers /\ Ended(w)
        /\ Draft(c.actor, c.weights) \in VersionRow
        /\ version' = [version EXCEPT ![c.policy][1] = Draft(c.actor, c.weights)]
        /\ policy' = [policy EXCEPT ![c.policy] = [current |-> 1, active |-> 0]]
        /\ [current |-> 1, active |-> 0] \in PolicyRow
        /\ audit' \in [Policies -> SUBSET Event] /\ now' = now /\ foreign' = foreign
    BY <1>4, CreatePolicyType DEF Call
  <2>2. version' \in [Policies -> [Numbers -> VersionRow]] /\ policy' \in [Policies -> PolicyRow]
    BY <1>1, <2>1
  <2> QED
    BY <1>1, <2>1, <2>2, EndedCalls DEF TypeInv, TypeOK
<1>5. ASSUME NEW w \in Workers, CreateVersion(w) PROVE TypeInv'
  <2> DEFINE c == call[w]
             n == c.last + 1
             row == Merge(policy[c.policy], c.seen, [c.seen EXCEPT !.current = n])
  <2>1. /\ c \in Call /\ n \in Numbers /\ Ended(w)
        /\ version' = [version EXCEPT ![c.policy][n] = c.made]
        /\ policy' = [policy EXCEPT ![c.policy] = row]
        /\ [c.seen EXCEPT !.current = n] \in PolicyRow
        /\ audit' \in [Policies -> SUBSET Event] /\ now' = now /\ foreign' = foreign
    BY <1>5, CreateVersionType
  <2>2. c.policy \in Policies /\ c.made \in VersionRow /\ c.seen \in PolicyRow
    BY <2>1 DEF Call
  <2>3. row \in PolicyRow
    BY <1>1, <2>1, <2>2, MergedPolicy
  <2> HIDE DEF row
  <2>4. version' \in [Policies -> [Numbers -> VersionRow]] /\ policy' \in [Policies -> PolicyRow]
    BY <1>1, <2>1, <2>2, <2>3
  <2> QED
    BY <1>1, <2>1, <2>4, EndedCalls DEF TypeInv, TypeOK
<1>6. ASSUME NEW w \in Workers, Update(w) PROVE TypeInv'
  <2> DEFINE c == call[w]
             row == Merge(policy[c.policy], c.seen, [c.seen EXCEPT !.active = Pointer(c)])
             rows == [n \in Numbers |-> Merge(version[c.policy][n], c.rows[n], Intent(c, n))]
  <2>1. /\ c \in Call /\ c.actor \in Actors /\ Ended(w) /\ now' = now
        /\ version' = [version EXCEPT ![c.policy] = rows]
        /\ policy' = [policy EXCEPT ![c.policy] = row]
        /\ c.op \in Moves \cup {"ROLLBACK"}
        /\ c.op \in Moves => foreign' = foreign \cup
                (IF c.number = c.last THEN {} ELSE {<<c.policy, c.number>>})
        /\ c.op = "ROLLBACK" => foreign' = foreign
    BY <1>6, UpdateEffect
  <2>2. c.policy \in Policies /\ c.rows \in [Numbers -> VersionRow] /\ c.seen \in PolicyRow
        /\ c.number \in Numbers
    BY <2>1 DEF Call
  <2>3. row \in PolicyRow
    BY <1>1, <2>1, <2>2, IntentType, MergedPolicy
  <2>4. rows \in [Numbers -> VersionRow]
    <3>1. ASSUME NEW n \in Numbers
          PROVE  Merge(version[c.policy][n], c.rows[n], Intent(c, n)) \in VersionRow
      <4>1. version[c.policy][n] \in VersionRow /\ c.rows[n] \in VersionRow
        BY <1>1, <2>2
      <4>2. Intent(c, n) \in VersionRow
        BY <2>1, IntentType
      <4> QED
        BY <4>1, <4>2, MergedRow
    <3> QED
      BY <3>1
  <2>5. foreign' \subseteq Policies \X Numbers
    BY <1>1, <2>1, <2>2
  <2>6. audit' \in [Policies -> SUBSET Event]
    BY <1>6, UpdateAudit
  <2> HIDE DEF row, rows
  <2>7. version' \in [Policies -> [Numbers -> VersionRow]] /\ policy' \in [Policies -> PolicyRow]
    BY <1>1, <2>1, <2>2, <2>3, <2>4
  <2> QED
    BY <1>1, <2>1, <2>5, <2>6, <2>7, EndedCalls DEF TypeInv, TypeOK
<1> QED
  BY <1>2, <1>3, <1>4, <1>5, <1>6, NextSplit DEF Next

\* The tables, the trail and the calls keep their types, under every overlap of requests.
THEOREM PolicyTypeCorrect == Spec => []TypeOK
<1>1. TypeInv => TypeOK
  BY DEF TypeInv
<1> QED
  BY <1>1, TypeInit, TypePreserved, PTL DEF Spec

-----------------------------------------------------------------------------
(* What a request remembers *)

\* The decision of the domain, on the rows the request has kept.
Decided(c) ==
    /\ c.op \in Moves /\ c.number = c.last =>
          /\ c.made = Made(c, c.rows, c.number)
          /\ CanMove(c.rows[c.number], c.op, c.actor)
    /\ c.op = "ROLLBACK" =>
          /\ c.made = Restored(c.rows[c.number], c.at)
          /\ c.rows[c.number].status \in {"PUBLISHED", "ACTIVE", "DISABLED"}
    /\ c.op = "VERSION_CREATED" => c.made = Draft(c.actor, c.weights)

\* The rows a request has kept are there, and it counts no more versions than there are.
Remembers(c, head, rows) ==
    /\ \A n \in Numbers : c.rows[n] # Absent => c.rows[n].status # "ABSENT" /\ n \in Present(rows)
    /\ c.op \notin {"NONE", "CREATED"} => c.seen.current <= head.current
    /\ c.op \in Moves \cup {"ROLLBACK"} /\ c.phase \notin {"idle", "named"} =>
          c.rows[c.number].status # "ABSENT"
    /\ c.phase \in {"previous", "commit"} /\ c.op # "CREATED" =>
          /\ c.made.status # "ABSENT"
          /\ c.seen.current <= c.last /\ c.last <= head.current
          /\ Decided(c)
    /\ c.phase # "commit" => c.previous = {}
    /\ c.number \notin c.previous
    /\ \A n \in c.previous : c.rows[n].status = "ACTIVE"

\* A row is there or blank.
Blank == \A p \in Policies, n \in Numbers : version[p][n].status = "ABSENT" => version[p][n] = Absent

DenseInv ==
    /\ TypeInv
    /\ NumbersAreDense
    /\ Blank
    /\ \A w \in Workers : Remembers(call[w], policy[call[w].policy], version[call[w].policy])

LEMMA IdleRemembers == \A head, rows : Remembers(Idle, head, rows)
  BY DEF Remembers, Idle, Nothing

LEMMA MadeSame ==
  ASSUME NEW c \in Call, NEW d \in Call, d.op = c.op, d.actor = c.actor, d.at = c.at,
         d.weights = c.weights, d.number = c.number, d.date = c.date, NEW last,
         NEW r, NEW s, r[last] = s[last], r[c.number] = s[c.number]
  PROVE  Made(d, s, last) = Made(c, r, last)
  BY DEF Made

LEMMA RemembersMore ==
  ASSUME NEW c \in Call, NEW head \in PolicyRow, NEW more \in PolicyRow,
         NEW rows \in [Numbers -> VersionRow], NEW rest \in [Numbers -> VersionRow],
         head.current <= more.current, Present(rows) \subseteq Present(rest),
         Remembers(c, head, rows)
  PROVE  Remembers(c, more, rest)
<1>1. head.current \in Nat /\ more.current \in Nat /\ c.seen.current \in Nat /\ c.last \in Nat
  BY PolicyAssumption DEF PolicyRow, Call
<1>2. \A n \in Numbers : c.rows[n] # Absent => c.rows[n].status # "ABSENT" /\ n \in Present(rest)
  BY DEF Remembers
<1>3. c.op \notin {"NONE", "CREATED"} => c.seen.current <= more.current
  BY <1>1 DEF Remembers
<1>4. c.phase \in {"previous", "commit"} /\ c.op # "CREATED" => c.last <= more.current
  BY <1>1 DEF Remembers
<1> QED
  BY <1>2, <1>3, <1>4 DEF Remembers

LEMMA RemembersDisordered ==
  ASSUME NEW c \in Call, NEW head, NEW rows, Remembers(c, head, rows)
  PROVE  Remembers([c EXCEPT !.orderly = FALSE], head, rows)
<1> DEFINE d == [c EXCEPT !.orderly = FALSE]
<1>1. /\ d \in Call
      /\ d.op = c.op /\ d.policy = c.policy /\ d.number = c.number /\ d.actor = c.actor
      /\ d.phase = c.phase /\ d.seen = c.seen /\ d.rows = c.rows /\ d.last = c.last
      /\ d.made = c.made /\ d.at = c.at /\ d.previous = c.previous /\ d.date = c.date
      /\ d.weights = c.weights
  BY Disordered
<1> HIDE DEF d
<1>2. Made(d, c.rows, c.number) = Made(c, c.rows, c.number)
  BY <1>1, MadeSame
<1>3. Decided(c) => Decided(d)
  BY <1>1, <1>2 DEF Decided
<1>4. Remembers(d, head, rows)
  BY <1>1, <1>3 DEF Remembers
<1> QED
  BY <1>4 DEF d

\* The last version of the history a request decides on is the last there is.
LEMMA LatestIsCurrent ==
  ASSUME DenseInv, NEW w \in Workers, ReadHistory(w), NEW last \in Numbers,
         IsLatest(History(call[w]), last)
  PROVE  last = policy[call[w].policy].current
<1> DEFINE c == call[w]
           p == c.policy
<1>1. /\ c \in Call /\ CallOK(c) /\ p \in Policies /\ policy[p] \in PolicyRow
      /\ Remembers(c, policy[p], version[p]) /\ version[p] \in [Numbers -> VersionRow]
  BY DEF DenseInv, TypeInv, TypeOK, Call
<1>2. c.op \notin {"NONE", "CREATED"}
  BY <1>1 DEF ReadHistory, Reads, CallOK
<1>3. \A n \in Numbers : n \in Present(History(c)) <=> n \in Present(version[p])
  BY <1>1 DEF Remembers, Present, History, Held
<1>4. Present(version[p]) = 1..policy[p].current
  BY <1>1 DEF DenseInv, NumbersAreDense
<1>5. policy[p].current \in Numbers
  <2>1. c.seen.current \in Numbers /\ c.seen.current <= policy[p].current
    BY <1>1, <1>2 DEF CallOK, Remembers
  <2> QED
    BY <1>1, <2>1, PolicyAssumption DEF Numbers, PolicyRow
<1>6. last \in 1..policy[p].current /\ policy[p].current <= last
  BY <1>3, <1>4, <1>5 DEF IsLatest, Numbers
<1> QED
  BY <1>1, <1>5, <1>6, PolicyAssumption DEF Numbers

\* What the domain makes has the status that was asked for.
LEMMA MadeStatus ==
  ASSUME NEW c \in Call, c.actor \in Actors, NEW rows \in [Numbers -> VersionRow],
         NEW last \in Numbers, c.op \in Moves \cup {"VERSION_CREATED", "ROLLBACK"}
  PROVE  Made(c, rows, last).status = IF c.op = "VERSION_CREATED" THEN "DRAFT"
                                      ELSE IF c.op = "ROLLBACK" THEN "ACTIVE"
                                      ELSE c.op
<1>1. /\ c.weights \in Weights \cup {Null} /\ c.at \in Times /\ c.number \in Numbers
      /\ c.date \in Times
  BY PolicyAssumption DEF Call, Times
<1>2. CASE c.op = "VERSION_CREATED"
  BY <1>2 DEF Made, Draft, Absent
<1>3. CASE c.op = "ROLLBACK"
  BY <1>1, <1>3, RestoredFields DEF Made
<1>4. CASE c.op \in Moves
  <2> DEFINE moved == Moved(rows[last], c.op, c.actor, c.at)
  <2>1. moved \in VersionRow /\ moved.status = c.op
    BY <1>1, <1>4, MovedType, MovedFields
  <2>2. ASSUME NEW v \in VersionRow  PROVE [v EXCEPT !.from = c.date].status = v.status
    BY DEF VersionRow
  <2>3. c.op \notin {"VERSION_CREATED", "ROLLBACK"}
    BY <1>4 DEF Moves
  <2> HIDE DEF moved
  <2>4. Made(c, rows, last) = IF c.date = Null THEN moved ELSE [moved EXCEPT !.from = c.date]
    BY <2>3 DEF Made, moved
  <2> QED
    BY <2>1, <2>2, <2>3, <2>4
<1> QED
  BY <1>2, <1>3, <1>4

\* A read leaves a request remembering what is there.
LEMMA ReceiveRemembers ==
  ASSUME DenseInv, NEW w \in Workers,
         NEW op \in Operations, NEW p \in Policies, NEW n \in Numbers, NEW a \in Actors,
         NEW date \in Dates \cup {Null}, NEW wt \in Weights \cup {Null},
         Receive(w, op, p, n, a, date, wt)
  PROVE  \E d \in Call : /\ call' = [call EXCEPT ![w] = d]
                         /\ Remembers(d, policy[d.policy], version[d.policy])
<1> DEFINE d == Received(op, p, n, a, date, wt)
<1>1. /\ d \in Call /\ call' = [call EXCEPT ![w] = d]
      /\ d.op = op /\ d.policy = p /\ d.seen = policy[p]
      /\ d.phase = IF op = "CREATED" THEN "commit" ELSE "named"
      /\ d.rows = Nothing /\ d.previous = {}
  BY ReceivedFields DEF DenseInv
<1> HIDE DEF d
<1>2. policy[p].current \in Nat
  BY PolicyAssumption DEF DenseInv, TypeInv, TypeOK, PolicyRow
<1>3. \A m \in Numbers : d.rows[m] = Absent
  BY <1>1 DEF Nothing
<1>4. Remembers(d, policy[p], version[p])
  BY <1>1, <1>2, <1>3 DEF Remembers, Moves
<1> QED
  BY <1>1, <1>4

LEMMA NamedRemembers ==
  ASSUME DenseInv, NEW w \in Workers, ReadNamed(w)
  PROVE  \E d \in Call : /\ call' = [call EXCEPT ![w] = d]
                         /\ Remembers(d, policy[d.policy], version[d.policy])
<1> DEFINE c == call[w]
           p == c.policy
<1>1. /\ c \in Call /\ CallOK(c) /\ p \in Policies /\ version[p] \in [Numbers -> VersionRow]
      /\ Remembers(c, policy[p], version[p]) /\ c.number \in Numbers
      /\ c.rows \in [Numbers -> VersionRow]
  BY DEF DenseInv, TypeInv, TypeOK, Call
<1>2. c.phase = "named" /\ c.number \in Present(version[p])
  BY DEF ReadNamed, Reads
<1>3. PICK d \in Call :
         /\ call' = [call EXCEPT ![w] = d] /\ SameRequest(d, c)
         /\ d.rows = [c.rows EXCEPT ![c.number] = version[p][c.number]]
         /\ d.phase \in {"current", "clock", "history"} /\ d.previous = c.previous
  BY NamedFields DEF DenseInv
<1>4. d.policy = p /\ d.number = c.number /\ d.op = c.op /\ d.seen = c.seen
  BY <1>3 DEF SameRequest
<1>5. d.rows[c.number] = version[p][c.number] /\ \A m \in Numbers \ {c.number} : d.rows[m] = c.rows[m]
  BY <1>1, <1>3
<1>6. c.previous = {}
  BY <1>1, <1>2 DEF Remembers
<1>7. version[p][c.number].status # "ABSENT"
  BY <1>2 DEF Present
<1>8. Remembers(d, policy[p], version[p])
  BY <1>1, <1>2, <1>3, <1>4, <1>5, <1>6, <1>7 DEF Remembers
<1> QED
  BY <1>3, <1>4, <1>8

LEMMA CurrentRemembers ==
  ASSUME DenseInv, NEW w \in Workers, ReadCurrent(w)
  PROVE  \E d \in Call : /\ call' = [call EXCEPT ![w] = d]
                         /\ Remembers(d, policy[d.policy], version[d.policy])
<1> DEFINE c == call[w]
           p == c.policy
           m0 == c.seen.current
<1>1. /\ c \in Call /\ CallOK(c) /\ p \in Policies /\ version[p] \in [Numbers -> VersionRow]
      /\ Remembers(c, policy[p], version[p]) /\ c.number \in Numbers
      /\ c.rows \in [Numbers -> VersionRow]
  BY DEF DenseInv, TypeInv, TypeOK, Call
<1>2. c.phase = "current" /\ m0 \in Present(version[p])
  BY DEF ReadCurrent, Reads
<1>3. PICK d \in Call :
         /\ call' = [call EXCEPT ![w] = d] /\ SameRequest(d, c)
         /\ d.rows = [c.rows EXCEPT ![m0] = Held(c, m0)]
         /\ d.phase = "clock" /\ d.previous = c.previous
  BY CurrentFields DEF DenseInv
<1>4. d.policy = p /\ d.number = c.number /\ d.op = c.op /\ d.seen = c.seen
  BY <1>3 DEF SameRequest
<1>5. d.rows[m0] = Held(c, m0) /\ \A m \in Numbers \ {m0} : d.rows[m] = c.rows[m]
  BY <1>1, <1>2, <1>3 DEF Present
<1>6. c.previous = {}
  BY <1>1, <1>2 DEF Remembers
<1>7. Held(c, m0).status # "ABSENT" /\ m0 \in Numbers
  BY <1>1, <1>2 DEF Present, Held, Remembers
<1>8. c.op \in Moves \cup {"ROLLBACK"} => d.rows[c.number].status # "ABSENT"
  BY <1>1, <1>2, <1>5, <1>7 DEF Remembers
<1>9. Remembers(d, policy[p], version[p])
  BY <1>1, <1>2, <1>3, <1>4, <1>5, <1>6, <1>7, <1>8 DEF Remembers
<1> QED
  BY <1>3, <1>4, <1>9

LEMMA ClockRemembers ==
  ASSUME DenseInv, NEW w \in Workers, ReadClock(w)
  PROVE  \E d \in Call : /\ call' = [call EXCEPT ![w] = d]
                         /\ Remembers(d, policy[d.policy], version[d.policy])
<1> DEFINE c == call[w]
           p == c.policy
<1>1. c \in Call /\ Remembers(c, policy[p], version[p]) /\ c.phase = "clock"
  BY DEF DenseInv, TypeInv, TypeOK, ReadClock, Reads
<1>2. PICK d \in Call :
         /\ call' = [call EXCEPT ![w] = d] /\ SameRequest(d, c)
         /\ d.rows = c.rows /\ d.phase = "history" /\ d.previous = c.previous
  BY ClockFields DEF DenseInv
<1>3. Remembers(d, policy[p], version[p]) /\ d.policy = p
  BY <1>1, <1>2 DEF Remembers, SameRequest
<1> QED
  BY <1>2, <1>3

LEMMA HistoryRemembers ==
  ASSUME DenseInv, NEW w \in Workers, ReadHistory(w)
  PROVE  \E d \in Call : /\ call' = [call EXCEPT ![w] = d]
                         /\ Remembers(d, policy[d.policy], version[d.policy])
<1> DEFINE c == call[w]
           p == c.policy
           rows == History(c)
<1>1. /\ c \in Call /\ CallOK(c) /\ p \in Policies /\ version[p] \in [Numbers -> VersionRow]
      /\ Remembers(c, policy[p], version[p]) /\ c.number \in Numbers
      /\ c.rows \in [Numbers -> VersionRow] /\ policy[p] \in PolicyRow
  BY DEF DenseInv, TypeInv, TypeOK, Call
<1>2. c.phase = "history" /\ rows \in [Numbers -> VersionRow]
      /\ c.op \in Moves \cup {"VERSION_CREATED", "ROLLBACK"}
  BY HistoryFields DEF DenseInv, ReadHistory, Reads
<1>3. PICK last \in Numbers, d \in Call :
         /\ call' = [call EXCEPT ![w] = d] /\ CallOK(d) /\ SameRequest(d, c)
         /\ IsLatest(rows, last) /\ Accepts(c, rows, last)
         /\ d.rows = [n \in Numbers |-> IF n \in Kept(c) THEN rows[n] ELSE Absent]
         /\ d.last = last /\ d.made = Made(c, rows, last)
         /\ d.phase = (IF d.op = "ACTIVE" THEN "previous" ELSE "commit")
         /\ d.at = c.at /\ d.previous = c.previous
  BY HistoryFields DEF DenseInv
<1>4. /\ d.policy = p /\ d.number = c.number /\ d.op = c.op /\ d.seen = c.seen
      /\ d.actor = c.actor /\ d.date = c.date /\ d.weights = c.weights
  BY <1>3 DEF SameRequest
<1>5. last = policy[p].current
  BY <1>3, LatestIsCurrent
<1>6. \A n \in Numbers : rows[n] # Absent => rows[n].status # "ABSENT" /\ n \in Present(version[p])
  BY <1>1 DEF History, Held, Remembers, Present, DenseInv, Blank
<1>7. \A n \in Numbers : d.rows[n] # Absent => d.rows[n].status # "ABSENT" /\ n \in Present(version[p])
  BY <1>3, <1>6
<1>8. c.op \in Moves \cup {"ROLLBACK"} =>
        /\ d.rows[c.number] = rows[c.number]
        /\ rows[c.number].status # "ABSENT"
  <2>1. c.op \in Moves \cup {"ROLLBACK"} => c.number \in Kept(c)
    BY DEF Kept, Moves
  <2>2. c.op \in Moves \cup {"ROLLBACK"} => c.rows[c.number].status # "ABSENT"
    BY <1>1, <1>2 DEF Remembers
  <2>3. rows[c.number] = Held(c, c.number)
    BY <1>1 DEF History
  <2>4. Absent.status = "ABSENT"
    BY DEF Absent
  <2> QED
    BY <1>1, <1>3, <2>1, <2>2, <2>3, <2>4 DEF Held
<1>9. d.made.status # "ABSENT"
  <2>1. c.actor \in Actors
    BY <1>1, <1>2 DEF CallOK
  <2>2. d.made.status = IF c.op = "VERSION_CREATED" THEN "DRAFT"
                        ELSE IF c.op = "ROLLBACK" THEN "ACTIVE" ELSE c.op
    BY <1>1, <1>2, <1>3, <2>1, MadeStatus
  <2> QED
    BY <1>2, <2>2 DEF Moves
<1>10. Decided(d)
  <2>1. ASSUME c.op \in Moves, c.number = last
        PROVE  d.made = Made(d, d.rows, c.number) /\ CanMove(d.rows[c.number], c.op, c.actor)
    <3>1. d.rows[last] = rows[last] /\ d.rows[c.number] = rows[c.number]
      BY <1>8, <2>1
    <3>2. d.at = c.at
      BY <1>3
    <3> HIDE DEF c, rows
    <3>3. Made(d, d.rows, last) = Made(c, rows, last)
      BY <1>1, <1>4, <3>1, <3>2, MadeSame
    <3> QED
      BY <1>3, <1>8, <2>1, <3>3 DEF Accepts
  <2>2. ASSUME c.op = "ROLLBACK"
        PROVE  /\ d.made = Restored(d.rows[c.number], c.at)
               /\ d.rows[c.number].status \in {"PUBLISHED", "ACTIVE", "DISABLED"}
    BY <1>3, <1>8, <2>2 DEF Made, Accepts, CanRollback
  <2>3. c.op = "VERSION_CREATED" => d.made = Draft(c.actor, c.weights)
    BY <1>3 DEF Made
  <2> QED
    BY <1>3, <1>4, <2>1, <2>2, <2>3 DEF Decided
<1>11. c.seen.current <= last /\ last <= policy[p].current
  BY <1>1, <1>2, <1>3, <1>5, PolicyAssumption DEF Remembers, Moves, Numbers
<1>12. d.previous = {}
  BY <1>1, <1>2, <1>3 DEF Remembers
<1>13. Remembers(d, policy[p], version[p])
  BY <1>1, <1>3, <1>4, <1>7, <1>8, <1>9, <1>10, <1>11, <1>12 DEF Remembers
<1> QED
  BY <1>3, <1>4, <1>13

LEMMA PreviousRemembers ==
  ASSUME DenseInv, NEW w \in Workers, ReadPrevious(w)
  PROVE  \E d \in Call : /\ call' = [call EXCEPT ![w] = d]
                         /\ Remembers(d, policy[d.policy], version[d.policy])
<1> DEFINE c == call[w]
           p == c.policy
           previous == Active(version[p]) \ {c.number}
<1>1. /\ c \in Call /\ CallOK(c) /\ p \in Policies /\ version[p] \in [Numbers -> VersionRow]
      /\ Remembers(c, policy[p], version[p]) /\ c.number \in Numbers
      /\ c.rows \in [Numbers -> VersionRow]
  BY DEF DenseInv, TypeInv, TypeOK, Call
<1>2. c.phase = "previous" /\ c.op = "ACTIVE"
  BY <1>1 DEF ReadPrevious, Reads, CallOK
<1>3. PICK d \in Call :
         /\ call' = [call EXCEPT ![w] = d] /\ SameRequest(d, c)
         /\ d.rows = [n \in Numbers |-> IF n \in previous THEN version[p][n] ELSE c.rows[n]]
         /\ d.previous = previous /\ d.phase = "commit"
         /\ d.last = c.last /\ d.made = c.made /\ d.at = c.at
  BY PreviousFields DEF DenseInv
<1>4. /\ d.policy = p /\ d.number = c.number /\ d.op = c.op /\ d.seen = c.seen
      /\ d.actor = c.actor /\ d.date = c.date /\ d.weights = c.weights
  BY <1>3 DEF SameRequest
<1>5. /\ previous \subseteq Numbers /\ c.number \notin previous
      /\ \A n \in previous : version[p][n].status = "ACTIVE" /\ n \in Present(version[p])
  BY DEF Active, Present
<1> HIDE DEF previous
<1>6. \A n \in Numbers : d.rows[n] = IF n \in previous THEN version[p][n] ELSE c.rows[n]
  BY <1>3
<1>7. \A n \in Numbers : d.rows[n] # Absent => d.rows[n].status # "ABSENT" /\ n \in Present(version[p])
  BY <1>1, <1>5, <1>6 DEF Remembers
<1>8. d.rows[c.number] = c.rows[c.number]
  BY <1>1, <1>5, <1>6
<1>9. Decided(c) => Decided(d)
  <2>1. Made(d, d.rows, c.number) = Made(c, c.rows, c.number)
    BY <1>1, <1>3, <1>4, <1>8, MadeSame
  <2> QED
    BY <1>3, <1>4, <1>8, <2>1 DEF Decided
<1>10. \A n \in previous : d.rows[n].status = "ACTIVE"
  BY <1>5, <1>6
<1>11. /\ d.phase = "commit" /\ d.previous = previous /\ d.made = c.made /\ d.last = c.last
       /\ c.number \notin previous
  BY <1>3, <1>5
<1>12. /\ c.seen.current <= policy[p].current /\ c.made.status # "ABSENT"
       /\ c.seen.current <= c.last /\ c.last <= policy[p].current
       /\ Decided(c) /\ c.rows[c.number].status # "ABSENT"
  BY <1>1, <1>2 DEF Remembers, Moves
<1>13. Remembers(d, policy[p], version[p])
  <2> HIDE DEF c, p
  <2> QED
    BY <1>4, <1>7, <1>8, <1>9, <1>10, <1>11, <1>12 DEF Remembers
<1> QED
  BY <1>3, <1>4, <1>13

LEMMA QuietRemembers ==
  ASSUME DenseInv, NEW w \in Workers, Quiet(w)
  PROVE  \E d \in Call : /\ call' = [call EXCEPT ![w] = d]
                         /\ Remembers(d, policy[d.policy], version[d.policy])
<1>1. CASE Fail(w)
  <2>1. call' = [call EXCEPT ![w] = Idle]
    BY <1>1 DEF Fail
  <2> QED
    BY <2>1, IdleType, IdleRemembers
<1> QED
  BY <1>1, ReceiveRemembers, NamedRemembers, CurrentRemembers, ClockRemembers, HistoryRemembers,
     PreviousRemembers DEF Quiet

\* A commit adds versions and takes none away: the other requests remember what they did.
LEMMA CommitRemembers ==
  ASSUME DenseInv, TypeInv', NEW w \in Workers, Ended(w),
         \A q \in Policies : /\ policy[q].current <= policy'[q].current
                             /\ Present(version[q]) \subseteq Present(version'[q])
  PROVE  \A x \in Workers : Remembers(call'[x], policy'[call'[x].policy], version'[call'[x].policy])
<1>1. call'[w] = Idle
  BY EndedCalls DEF DenseInv
<1>2. ASSUME NEW x \in Workers, x # w
      PROVE  Remembers(call'[x], policy'[call'[x].policy], version'[call'[x].policy])
  <2> DEFINE c == call[x]
             p == c.policy
  <2>1. /\ c \in Call /\ p \in Policies /\ policy[p] \in PolicyRow /\ policy'[p] \in PolicyRow
        /\ version[p] \in [Numbers -> VersionRow] /\ version'[p] \in [Numbers -> VersionRow]
        /\ Remembers(c, policy[p], version[p])
    BY DEF DenseInv, TypeInv, TypeOK, Call
  <2>2. Remembers(c, policy'[p], version'[p])
    <3> HIDE DEF c, p
    <3>1. policy[p].current <= policy'[p].current /\ Present(version[p]) \subseteq Present(version'[p])
      BY <2>1
    <3> QED
      BY <2>1, <3>1, RemembersMore
  <2>3. call'[x] = c \/ call'[x] = [c EXCEPT !.orderly = FALSE]
    BY <1>2, EndedCalls DEF DenseInv
  <2>4. [c EXCEPT !.orderly = FALSE].policy = p
    BY <2>1, Disordered
  <2>5. Remembers([c EXCEPT !.orderly = FALSE], policy'[p], version'[p])
    <3> HIDE DEF c, p
    <3> QED
      BY <2>1, <2>2, RemembersDisordered
  <2> QED
    BY <2>2, <2>3, <2>4, <2>5
<1> QED
  BY <1>1, <1>2, IdleRemembers

\* An update intends nothing for a row it has not kept, and removes none.
LEMMA IntentStays ==
  ASSUME NEW c \in Call, c.actor \in Actors, c.phase = "commit", c.op \in Moves \cup {"ROLLBACK"},
         NEW head, NEW rows, Remembers(c, head, rows), NEW n \in Numbers
  PROVE  /\ c.rows[n] = Absent => Intent(c, n) = c.rows[n]
         /\ c.rows[n] # Absent => Intent(c, n).status # "ABSENT"
<1>1. /\ c.made \in VersionRow /\ c.rows[n] \in VersionRow /\ c.at \in Times /\ c.number \in Numbers
      /\ Absent.status = "ABSENT"
  BY DEF Call, Absent
<1>2. c.made.status # "ABSENT" /\ c.rows[c.number].status # "ABSENT"
  BY DEF Remembers, Moves
<1>3. CASE n = c.number
  <2>1. [c.made EXCEPT !.to = IF c.seen.active = c.number /\ @ = Null THEN c.at ELSE @].status
           = c.made.status
    BY <1>1 DEF VersionRow
  <2> QED
    BY <1>1, <1>2, <1>3, <2>1 DEF Intent
<1>4. CASE n # c.number /\ n \in c.previous /\ c.op = "ACTIVE"
  <2>1. c.rows[n].status = "ACTIVE"
    BY <1>4 DEF Remembers
  <2>2. [c.rows[n] EXCEPT !.status = "DISABLED", !.to = c.made.from].status = "DISABLED"
    BY <1>1 DEF VersionRow
  <2> QED
    BY <1>1, <1>4, <2>1, <2>2 DEF Intent
<1>5. CASE n # c.number /\ c.op = "ROLLBACK" /\ c.rows[n].status = "ACTIVE"
  <2>1. Moved(c.rows[n], "ROLLED_BACK", c.actor, c.at).status = "ROLLED_BACK"
    BY <1>1, MovedFields
  <2>2. c.rows[n].status # "ABSENT" /\ c.op # "ACTIVE"
    BY <1>5
  <2>3. Intent(c, n) \in {c.rows[n], Moved(c.rows[n], "ROLLED_BACK", c.actor, c.at)}
    BY <1>5, <2>2 DEF Intent
  <2> QED
    BY <1>1, <2>1, <2>2, <2>3
<1>6. CASE n # c.number /\ ~(n \in c.previous /\ c.op = "ACTIVE")
           /\ ~(c.op = "ROLLBACK" /\ c.rows[n].status = "ACTIVE")
  <2>1. Intent(c, n) = c.rows[n]
    BY <1>6 DEF Intent
  <2> QED
    BY <1>1, <2>1 DEF Remembers
<1> QED
  BY <1>3, <1>4, <1>5, <1>6

LEMMA UpdateKeepsRows ==
  ASSUME DenseInv, NEW w \in Workers, Update(w)
  PROVE  LET p == call[w].policy IN
         /\ policy'[p].current = policy[p].current
         /\ \A n \in Numbers : /\ version[p][n] = Absent => version'[p][n] = Absent
                               /\ version[p][n] # Absent => version'[p][n].status # "ABSENT"
         /\ \A q \in Policies \ {p} : policy'[q] = policy[q] /\ version'[q] = version[q]
<1> DEFINE c == call[w]
           p == c.policy
           rows == [n \in Numbers |-> Merge(version[p][n], c.rows[n], Intent(c, n))]
           row == Merge(policy[p], c.seen, [c.seen EXCEPT !.active = Pointer(c)])
<1>1. /\ c \in Call /\ c.actor \in Actors /\ c.phase = "commit"
      /\ c.op \in Moves \cup {"ROLLBACK"}
      /\ version' = [version EXCEPT ![p] = rows]
      /\ policy' = [policy EXCEPT ![p] = row]
  BY UpdateEffect DEF DenseInv
<1>2. /\ p \in Policies /\ c.rows \in [Numbers -> VersionRow] /\ c.seen \in PolicyRow
      /\ policy[p] \in PolicyRow /\ version[p] \in [Numbers -> VersionRow]
      /\ policy \in [Policies -> PolicyRow] /\ version \in [Policies -> [Numbers -> VersionRow]]
      /\ Remembers(c, policy[p], version[p])
  BY <1>1 DEF DenseInv, TypeInv, TypeOK, Call
<1>3. row.current = policy[p].current
  <2>1. [c.seen EXCEPT !.active = Pointer(c)] \in PolicyRow
    <3>1. c.number \in Numbers
      BY <1>1 DEF Call
    <3> HIDE DEF c
    <3> QED
      BY <1>1, <3>1, IntentType
  <2>2. [c.seen EXCEPT !.active = Pointer(c)].current = c.seen.current
    BY <1>2 DEF PolicyRow
  <2> DEFINE want == [c.seen EXCEPT !.active = Pointer(c)]
             seen == c.seen
             old == policy[p]
  <2>3. want \in PolicyRow /\ want.current = seen.current /\ seen \in PolicyRow /\ old \in PolicyRow
        /\ row = Merge(old, seen, want)
    BY <1>2, <2>1, <2>2
  <2> HIDE DEF want, seen, old, row
  <2>4. row.current = old.current
    BY <2>3, MergedPolicy
  <2> QED
    BY <2>4 DEF old
<1>4. ASSUME NEW n \in Numbers
      PROVE  /\ version[p][n] = Absent => rows[n] = Absent
             /\ version[p][n] # Absent => rows[n].status # "ABSENT"
  <2> DEFINE v == version[p][n]
             s == c.rows[n]
             i == Intent(c, n)
  <2>1. v \in VersionRow /\ s \in VersionRow /\ i \in VersionRow /\ rows[n] = Merge(v, s, i)
    BY <1>1, <1>2, IntentType
  <2>2. CASE s = Absent
    <3>1. i = s
      BY <1>1, <1>2, <2>2, IntentStays
    <3>2. rows[n] = v
      BY <2>1, <3>1, MergedUnchanged
    <3>3. v # Absent => v.status # "ABSENT"
      BY <1>2 DEF DenseInv, Blank
    <3> QED
      BY <3>2, <3>3
  <2>3. CASE s # Absent
    <3>1. i.status # "ABSENT"
      BY <1>1, <1>2, <2>3, IntentStays
    <3>2. v.status # "ABSENT" /\ v # Absent
      <4>1. n \in Present(version[p])
        BY <1>2, <2>3 DEF Remembers
      <4>2. Absent.status = "ABSENT"
        BY DEF Absent
      <4> QED
        BY <4>1, <4>2 DEF Present
    <3>3. rows[n].status \in {i.status, v.status}
      BY <2>1, MergedRow
    <3> QED
      BY <3>1, <3>2, <3>3
  <2> QED
    BY <2>2, <2>3
<1> HIDE DEF row, rows
<1> QED
  BY <1>1, <1>2, <1>3, <1>4

LEMMA DenseInit == Init => DenseInv
<1> SUFFICES ASSUME Init PROVE DenseInv
  OBVIOUS
<1>1. TypeInv
  BY TypeInit
<1>2. PICK w \in Weights :
        /\ policy = [p \in Policies |-> [current |-> IF p = Bootstrap THEN 1 ELSE 0,
                                         active |-> IF p = Bootstrap THEN 1 ELSE 0]]
        /\ version = [p \in Policies |-> [n \in Numbers |->
              IF p = Bootstrap /\ n = 1
              THEN [status |-> "ACTIVE", author |-> System, approver |-> System, weights |-> w,
                    simulated |-> TRUE, from |-> 0, to |-> Null]
              ELSE Absent]]
  BY DEF Init
<1>3. \A p \in Policies, n \in Numbers :
        /\ version[p][n].status = IF p = Bootstrap /\ n = 1 THEN "ACTIVE" ELSE "ABSENT"
        /\ ~(p = Bootstrap /\ n = 1) => version[p][n] = Absent
  BY <1>2 DEF Absent
<1>4. Blank
  BY <1>3 DEF Blank
<1>5. NumbersAreDense
  <2>1. ASSUME NEW p \in Policies  PROVE Present(version[p]) = 1..policy[p].current
    <3>1. policy[p].current = IF p = Bootstrap THEN 1 ELSE 0
      BY <1>2
    <3>2. \A n \in Numbers : n \in Present(version[p]) <=> p = Bootstrap /\ n = 1
      BY <1>3 DEF Present
    <3>3. 1 \in Numbers /\ Present(version[p]) \subseteq Numbers /\ Numbers \subseteq Nat
      BY PolicyAssumption DEF Numbers, Present
    <3>4. CASE p = Bootstrap
      <4>1. Present(version[p]) = {1}
        BY <3>2, <3>3, <3>4
      <4>2. policy[p].current = 1 /\ 1..1 = {1}
        BY <3>1, <3>4
      <4> QED
        BY <4>1, <4>2
    <3>5. CASE p # Bootstrap
      <4>1. Present(version[p]) = {}
        BY <3>2, <3>3, <3>5
      <4>2. policy[p].current = 0 /\ 1..0 = {}
        BY <3>1, <3>5
      <4> QED
        BY <4>1, <4>2
    <3> QED
      BY <3>4, <3>5
  <2> QED
    BY <2>1 DEF NumbersAreDense
<1>6. \A x \in Workers : call[x] = Idle
  BY DEF Init
<1> QED
  BY <1>1, <1>4, <1>5, <1>6, IdleRemembers DEF DenseInv

LEMMA DensePreserved == DenseInv /\ [Next]_vars => DenseInv'
<1> SUFFICES ASSUME DenseInv, [Next]_vars PROVE DenseInv'
  OBVIOUS
<1>1. TypeInv'
  BY TypePreserved DEF DenseInv
<1>2. /\ policy \in [Policies -> PolicyRow] /\ version \in [Policies -> [Numbers -> VersionRow]]
      /\ call \in [Workers -> Call] /\ \A q \in Policies : policy[q].current \in Nat
  BY PolicyAssumption DEF DenseInv, TypeInv, TypeOK, PolicyRow
<1>3. CASE UNCHANGED vars
  BY <1>1, <1>3 DEF DenseInv, NumbersAreDense, Blank, vars
<1>4. ASSUME NEW w \in Workers, Quiet(w) PROVE DenseInv'
  <2>1. policy' = policy /\ version' = version
    BY <1>4, QuietTables
  <2>2. PICK d \in Call : /\ call' = [call EXCEPT ![w] = d]
                          /\ Remembers(d, policy[d.policy], version[d.policy])
    BY <1>4, QuietRemembers
  <2>3. \A x \in Workers : Remembers(call'[x], policy[call'[x].policy], version[call'[x].policy])
    <3>1. call'[w] = d /\ \A x \in Workers \ {w} : call'[x] = call[x]
      BY <1>2, <2>2
    <3> QED
      BY <2>2, <3>1 DEF DenseInv
  <2> QED
    BY <1>1, <2>1, <2>3 DEF DenseInv, NumbersAreDense, Blank
<1>5. ASSUME NEW w \in Workers, CreatePolicy(w) PROVE DenseInv'
  <2> DEFINE c == call[w]
             p == c.policy
             draft == Draft(c.actor, c.weights)
  <2>1. /\ p \in Policies /\ 1 \in Numbers /\ Ended(w) /\ ~Exists(p)
        /\ version' = [version EXCEPT ![p][1] = draft]
        /\ policy' = [policy EXCEPT ![p] = [current |-> 1, active |-> 0]]
    BY <1>5, CreatePolicyType DEF DenseInv, Call
  <2>2. draft.status = "DRAFT"
    BY DEF Draft, Absent
  <2> HIDE DEF c, p, draft
  <2>3. policy[p].current = 0 /\ policy'[p].current = 1
        /\ \A q \in Policies \ {p} : policy'[q] = policy[q] /\ version'[q] = version[q]
    BY <1>2, <2>1 DEF Exists
  <2>4. \A n \in Numbers : version'[p][n] = IF n = 1 THEN draft ELSE version[p][n]
    BY <1>2, <2>1
  <2>5. Present(version[p]) = 1..policy[p].current
    BY <2>1 DEF DenseInv, NumbersAreDense
  <2>6. Present(version[p]) = {}
    BY <2>3, <2>5
  <2>7. Present(version'[p]) = {1}
    BY <2>1, <2>2, <2>4, <2>6 DEF Present
  <2>8. Blank'
    BY <2>2, <2>3, <2>4 DEF DenseInv, Blank
  <2>9. NumbersAreDense'
    <3>1. Present(version'[p]) = 1..policy'[p].current
      BY <2>3, <2>7
    <3> QED
      BY <2>3, <3>1 DEF DenseInv, NumbersAreDense
  <2>10. \A q \in Policies : /\ policy[q].current <= policy'[q].current
                             /\ Present(version[q]) \subseteq Present(version'[q])
    <3>1. \A q \in Policies \ {p} : policy[q].current <= policy'[q].current
      BY <1>2, <2>3
    <3>2. policy[p].current <= policy'[p].current /\ Present(version[p]) \subseteq Present(version'[p])
      BY <2>3, <2>6
    <3> QED
      BY <2>3, <3>1, <3>2
  <2> QED
    BY <1>1, <2>1, <2>8, <2>9, <2>10, CommitRemembers DEF DenseInv, c
<1>6. ASSUME NEW w \in Workers, CreateVersion(w) PROVE DenseInv'
  <2> DEFINE c == call[w]
             p == c.policy
             n0 == c.last + 1
             head == [c.seen EXCEPT !.current = n0]
             row == Merge(policy[p], c.seen, head)
  <2>1. /\ c \in Call /\ CallOK(c) /\ c.phase = "commit" /\ c.op = "VERSION_CREATED"
        /\ n0 \in Numbers /\ Ended(w) /\ version[p][n0] = Absent
        /\ version' = [version EXCEPT ![p][n0] = c.made]
        /\ policy' = [policy EXCEPT ![p] = row]
        /\ head \in PolicyRow
    BY <1>6, CreateVersionType DEF DenseInv, TypeInv
  <2>2. /\ p \in Policies /\ c.made \in VersionRow /\ c.seen \in PolicyRow
        /\ Remembers(c, policy[p], version[p]) /\ c.last \in Numbers /\ c.seen.current \in Numbers
    BY <2>1 DEF Call, CallOK, DenseInv
  <2>3. c.made.status # "ABSENT" /\ c.seen.current <= c.last /\ c.last <= policy[p].current
    BY <2>1, <2>2 DEF Remembers
  <2>4. Present(version[p]) = 1..policy[p].current
    BY <2>2 DEF DenseInv, NumbersAreDense
  <2>5. n0 \notin Present(version[p])
    BY <2>1 DEF Present, Absent
  <2>6. n0 = policy[p].current + 1
    BY <1>2, <2>1, <2>2, <2>3, <2>4, <2>5 DEF Numbers
  <2>7. row.current = n0
    <3>1. head.current = n0
      BY <2>2 DEF PolicyRow
    <3>2. n0 # c.seen.current
      BY <2>2, <2>3 DEF Numbers
    <3>3. policy[p] \in PolicyRow
      BY <1>2, <2>2
    <3> HIDE DEF head
    <3> QED
      BY <2>1, <2>2, <3>1, <3>2, <3>3, MergedPolicy
  <2> HIDE DEF c, p, n0, row
  <2>8. policy'[p].current = n0 /\ policy[p].current <= n0
        /\ \A q \in Policies \ {p} : policy'[q] = policy[q] /\ version'[q] = version[q]
    BY <1>2, <2>1, <2>2, <2>6, <2>7
  <2>9. \A n \in Numbers : version'[p][n] = IF n = n0 THEN c.made ELSE version[p][n]
    BY <1>2, <2>1, <2>2
  <2>10. Present(version'[p]) = Present(version[p]) \cup {n0}
    BY <2>1, <2>3, <2>9 DEF Present
  <2>11. Present(version'[p]) = 1..n0
    BY <1>2, <2>2, <2>4, <2>6, <2>10
  <2>12. Blank'
    BY <2>3, <2>8, <2>9 DEF DenseInv, Blank
  <2>13. NumbersAreDense'
    BY <2>8, <2>11 DEF DenseInv, NumbersAreDense
  <2>14. \A q \in Policies : /\ policy[q].current <= policy'[q].current
                             /\ Present(version[q]) \subseteq Present(version'[q])
    <3>1. \A q \in Policies \ {p} : policy[q].current <= policy'[q].current
      BY <1>2, <2>8
    <3>2. policy[p].current <= policy'[p].current /\ Present(version[p]) \subseteq Present(version'[p])
      BY <2>8, <2>10
    <3> QED
      BY <2>8, <3>1, <3>2
  <2> QED
    BY <1>1, <2>1, <2>12, <2>13, <2>14, CommitRemembers DEF DenseInv, c
<1>7. ASSUME NEW w \in Workers, Update(w) PROVE DenseInv'
  <2> DEFINE p == call[w].policy
  <2>1. Ended(w) /\ p \in Policies
    BY <1>2, <1>7, UpdateEffect DEF DenseInv, Call
  <2>2. /\ policy'[p].current = policy[p].current
        /\ \A n \in Numbers : /\ version[p][n] = Absent => version'[p][n] = Absent
                              /\ version[p][n] # Absent => version'[p][n].status # "ABSENT"
        /\ \A q \in Policies \ {p} : policy'[q] = policy[q] /\ version'[q] = version[q]
    BY <1>7, UpdateKeepsRows
  <2> HIDE DEF p
  <2>3. Blank'
    BY <2>2 DEF DenseInv, Blank
  <2>4. Absent.status = "ABSENT"
    BY DEF Absent
  <2>5. \A n \in Numbers : version[p][n].status # "ABSENT" <=> version'[p][n].status # "ABSENT"
    BY <2>1, <2>2, <2>4 DEF DenseInv, Blank
  <2>6. Present(version'[p]) = Present(version[p])
    BY <2>5 DEF Present
  <2>7. NumbersAreDense'
    BY <2>2, <2>6 DEF DenseInv, NumbersAreDense
  <2>8. \A q \in Policies : /\ policy[q].current <= policy'[q].current
                            /\ Present(version[q]) \subseteq Present(version'[q])
    BY <1>2, <2>2, <2>6
  <2> QED
    BY <1>1, <2>1, <2>3, <2>7, <2>8, CommitRemembers DEF DenseInv
<1> QED
  BY <1>3, <1>4, <1>5, <1>6, <1>7, NextSplit DEF Next

\* However requests overlap, the versions of a policy are numbered without a gap and its
\* current_version is the last one: of two creations that counted alike one fails, and no
\* update brings an old number back.
THEOREM NumbersStayDense == Spec => []NumbersAreDense
<1>1. DenseInv => NumbersAreDense
  BY DEF DenseInv
<1> QED
  BY <1>1, DenseInit, DensePreserved, PTL DEF Spec

-----------------------------------------------------------------------------
(* Who vouches for a version *)

Logged(trail, n, action) ==
    \E u \in Actors : [version |-> n, action |-> action, user |-> u] \in trail

\* The trail vouches for what v says of version n: no request can say it was simulated,
\* approved or published unless one of the trail did that.
Backed(trail, n, v) ==
    \/ v.author = System
    \/ /\ v.simulated => Logged(trail, n, "SIMULATED")
       /\ v.status \notin {"ABSENT", "DRAFT"} => v.simulated
       /\ v.approver # Null =>
             /\ v.approver # v.author
             /\ [version |-> n, action |-> "APPROVED", user |-> v.approver] \in trail
       /\ v.status \in {"APPROVED", "PUBLISHED", "ACTIVE", "DISABLED", "ROLLED_BACK"} =>
             v.approver # Null
       /\ v.status \in {"PUBLISHED", "ACTIVE", "DISABLED", "ROLLED_BACK"} =>
             Logged(trail, n, "PUBLISHED")

\* v may have come after s: a simulation and an approval are never taken back.
Follows(s, v) ==
    /\ v.author = s.author
    /\ s.simulated => v.simulated
    /\ s.approver # Null => v.approver # Null

RowsBacked ==
    \A p \in Policies, n \in Numbers : <<p, n>> \notin foreign => Backed(audit[p], n, version[p][n])

SeenBacked(c, rows, trail, out) ==
    \A n \in Numbers : <<c.policy, n>> \notin out /\ c.rows[n] # Absent =>
        /\ Backed(trail, n, c.rows[n])
        /\ Follows(c.rows[n], rows[n])

BackedInv ==
    /\ DenseInv
    /\ RowsBacked
    /\ \A w \in Workers :
          SeenBacked(call[w], version[call[w].policy], audit[call[w].policy], foreign)

LEMMA IdleBacked == \A rows, trail, out : SeenBacked(Idle, rows, trail, out)
  BY DEF SeenBacked, Idle, Nothing

LEMMA BackedMore ==
  ASSUME NEW trail, NEW more, trail \subseteq more, NEW n, NEW v, Backed(trail, n, v)
  PROVE  Backed(more, n, v)
<1>1. \A action : Logged(trail, n, action) => Logged(more, n, action)
  BY DEF Logged
<1> QED
  BY <1>1 DEF Backed

LEMMA FollowsChain ==
  ASSUME NEW s, NEW u, NEW v, Follows(s, u), Follows(u, v)
  PROVE  Follows(s, v)
  BY DEF Follows

\* A row that took what a request intends, on top of what others did since it was read.
LEMMA MergeBacked ==
  ASSUME NEW trail, NEW n, NEW v \in VersionRow, NEW s \in VersionRow, NEW i \in VersionRow,
         Follows(s, v), Follows(s, i), Backed(trail, n, v), Backed(trail, n, i)
  PROVE  Backed(trail, n, Merge(v, s, i)) /\ Follows(v, Merge(v, s, i))
<1> DEFINE m == Merge(v, s, i)
<1>1. /\ m.status = IF i.status # s.status THEN i.status ELSE v.status
      /\ m.author = IF i.author # s.author THEN i.author ELSE v.author
      /\ m.approver = IF i.approver # s.approver THEN i.approver ELSE v.approver
      /\ m.simulated = IF i.simulated # s.simulated THEN i.simulated ELSE v.simulated
  BY MergedRow
<1> HIDE DEF m
<1>2. i.simulated \in BOOLEAN /\ s.simulated \in BOOLEAN /\ v.simulated \in BOOLEAN
  BY DEF VersionRow
<1>3. m.author = v.author /\ i.author = v.author
  BY <1>1 DEF Follows
<1>4. (v.simulated => m.simulated) /\ (i.simulated => m.simulated)
      /\ (m.simulated => v.simulated \/ i.simulated)
  BY <1>1, <1>2 DEF Follows
<1>5. (v.approver # Null => m.approver # Null) /\ (i.approver # Null => m.approver # Null)
      /\ m.approver \in {v.approver, i.approver}
  BY <1>1 DEF Follows
<1>6. m.status \in {v.status, i.status}
  BY <1>1
<1>7. Backed(trail, n, m)
  <2>1. CASE v.author = System
    BY <1>3, <2>1 DEF Backed
  <2>2. CASE v.author # System
    <3>1. m.simulated => Logged(trail, n, "SIMULATED")
      BY <1>3, <1>4, <2>2 DEF Backed
    <3>2. m.status \notin {"ABSENT", "DRAFT"} => m.simulated
      BY <1>3, <1>4, <1>6, <2>2 DEF Backed
    <3>3. m.approver # Null =>
             /\ m.approver # m.author
             /\ [version |-> n, action |-> "APPROVED", user |-> m.approver] \in trail
      BY <1>3, <1>5, <2>2 DEF Backed
    <3>4. m.status \in {"APPROVED", "PUBLISHED", "ACTIVE", "DISABLED", "ROLLED_BACK"} =>
             m.approver # Null
      BY <1>3, <1>5, <1>6, <2>2 DEF Backed
    <3>5. m.status \in {"PUBLISHED", "ACTIVE", "DISABLED", "ROLLED_BACK"} =>
             Logged(trail, n, "PUBLISHED")
      BY <1>3, <1>6, <2>2 DEF Backed
    <3> QED
      BY <3>1, <3>2, <3>3, <3>4, <3>5 DEF Backed
  <2> QED
    BY <2>1, <2>2
<1>8. Follows(v, m)
  BY <1>3, <1>4, <1>5 DEF Follows
<1> QED
  BY <1>7, <1>8 DEF m

LEMMA DraftBacked ==
  ASSUME NEW trail, NEW n, NEW a \in Actors, NEW wt
  PROVE  Backed(trail, n, Draft(a, wt))
<1> DEFINE v == Draft(a, wt)
<1>1. v.status = "DRAFT" /\ v.simulated = FALSE /\ v.approver = Null
  BY DEF Draft, Absent
<1> HIDE DEF v
<1>2. Backed(trail, n, v)
  BY <1>1 DEF Backed
<1> QED
  BY <1>2 DEF v

\* What the domain makes of the version it moves.
LEMMA MadeFields ==
  ASSUME NEW c \in Call, c.actor \in Actors, NEW rows \in [Numbers -> VersionRow],
         NEW last \in Numbers, c.op \in Moves
  PROVE  LET m == Made(c, rows, last)
             s == rows[last]
         IN
         /\ m.status = c.op
         /\ m.author = s.author
         /\ m.simulated = (s.simulated \/ c.op = "SIMULATED")
         /\ m.approver = IF c.op = "APPROVED" THEN c.actor ELSE s.approver
         /\ m.from = IF c.date # Null THEN c.date
                     ELSE IF c.op = "ACTIVE" /\ s.from = Null THEN c.at ELSE s.from
         /\ m.to = s.to
<1> DEFINE s == rows[last]
           moved == Moved(s, c.op, c.actor, c.at)
           m == Made(c, rows, last)
<1>1. c.at \in Times /\ c.date \in Times /\ s \in VersionRow
  BY PolicyAssumption DEF Call, Times
<1> HIDE DEF s
<1>2. /\ moved \in VersionRow
      /\ moved.status = c.op
      /\ moved.author = s.author
      /\ moved.simulated = (s.simulated \/ c.op = "SIMULATED")
      /\ moved.approver = IF c.op = "APPROVED" THEN c.actor ELSE s.approver
      /\ moved.from = IF c.op = "ACTIVE" /\ s.from = Null THEN c.at ELSE s.from
      /\ moved.to = s.to
  BY <1>1, MovedType, MovedFields
<1>3. c.op \notin {"VERSION_CREATED", "ROLLBACK"}
  BY DEF Moves
<1>4. m = IF c.date = Null THEN moved ELSE [moved EXCEPT !.from = c.date]
  BY <1>3 DEF Made, s
<1> HIDE DEF moved, m
<1>5. ASSUME NEW v \in VersionRow, NEW f
      PROVE  LET u == [v EXCEPT !.from = f] IN
             /\ u.status = v.status /\ u.author = v.author /\ u.simulated = v.simulated
             /\ u.approver = v.approver /\ u.to = v.to /\ u.from = f
  BY DEF VersionRow
<1>6. /\ m.status = moved.status /\ m.author = moved.author /\ m.simulated = moved.simulated
      /\ m.approver = moved.approver /\ m.to = moved.to
      /\ m.from = IF c.date # Null THEN c.date ELSE moved.from
  BY <1>2, <1>4, <1>5
<1> QED
  BY <1>2, <1>6 DEF m, s

\* What a move makes of a version the trail vouches for, once the move is in the trail.
LEMMA MoveBacked ==
  ASSUME NEW trail, NEW n, NEW s \in VersionRow, NEW m \in VersionRow, NEW op \in Moves,
         NEW a \in Actors, Backed(trail, n, s), CanMove(s, op, a),
         [version |-> n, action |-> op, user |-> a] \in trail,
         m.status = op, m.author = s.author, m.simulated = (s.simulated \/ op = "SIMULATED"),
         m.approver = IF op = "APPROVED" THEN a ELSE s.approver
  PROVE  Backed(trail, n, m) /\ Follows(s, m)
<1>1. a # Null /\ s.simulated \in BOOLEAN /\ m.simulated \in BOOLEAN
  BY PolicyAssumption DEF VersionRow
<1>2. Logged(trail, n, op)
  BY DEF Logged
<1>3. (op = "APPROVED" => a # s.author) /\ <<s.status, op>> \in Transitions
  BY DEF CanMove
<1>4. Follows(s, m)
  BY <1>1 DEF Follows
<1>5. CASE s.author = System
  BY <1>4, <1>5 DEF Backed
<1>6. CASE s.author # System
  <2>1. m.simulated => Logged(trail, n, "SIMULATED")
    BY <1>2, <1>6 DEF Backed
  <2>2. m.simulated
    <3>1. op = "SIMULATED" \/ s.status \notin {"ABSENT", "DRAFT"}
      BY <1>3 DEF Transitions
    <3> QED
      BY <1>6, <3>1 DEF Backed
  <2>3. m.approver # Null =>
           /\ m.approver # m.author
           /\ [version |-> n, action |-> "APPROVED", user |-> m.approver] \in trail
    BY <1>3, <1>6 DEF Backed
  <2>4. op \in {"APPROVED", "PUBLISHED", "ACTIVE", "DISABLED", "ROLLED_BACK"} => m.approver # Null
    <3>1. op \in {"PUBLISHED", "ACTIVE", "DISABLED", "ROLLED_BACK"} =>
             s.status \in {"APPROVED", "PUBLISHED", "ACTIVE", "DISABLED", "ROLLED_BACK"}
      BY <1>3 DEF Transitions
    <3> QED
      BY <1>1, <1>6, <3>1 DEF Backed
  <2>5. op \in {"PUBLISHED", "ACTIVE", "DISABLED", "ROLLED_BACK"} => Logged(trail, n, "PUBLISHED")
    <3>1. op \in {"ACTIVE", "DISABLED", "ROLLED_BACK"} =>
             s.status \in {"PUBLISHED", "ACTIVE", "DISABLED", "ROLLED_BACK"}
      BY <1>3 DEF Transitions
    <3> QED
      BY <1>2, <1>6, <3>1 DEF Backed
  <2> QED
    BY <1>4, <2>1, <2>2, <2>3, <2>4, <2>5 DEF Backed
<1> QED
  BY <1>5, <1>6

\* A version in effect, ended or restored goes on being vouched for.
LEMMA StatusBacked ==
  ASSUME NEW trail, NEW n, NEW s \in VersionRow, NEW m \in VersionRow, Backed(trail, n, s),
         s.status \in {"PUBLISHED", "ACTIVE", "DISABLED"},
         m.status \in {"ACTIVE", "DISABLED", "ROLLED_BACK"},
         m.author = s.author, m.simulated = s.simulated, m.approver = s.approver
  PROVE  Backed(trail, n, m) /\ Follows(s, m)
  BY DEF Backed, Follows

LEMMA IntentBacked ==
  ASSUME DenseInv, NEW w \in Workers, Update(w), NEW n \in Numbers,
         call[w].rows[n] # Absent,
         n = call[w].number => call[w].op = "ROLLBACK" \/ n = call[w].last,
         Backed(audit[call[w].policy], n, call[w].rows[n])
  PROVE  /\ Backed(audit'[call[w].policy], n, Intent(call[w], n))
         /\ Follows(call[w].rows[n], Intent(call[w], n))
<1> DEFINE c == call[w]
           p == c.policy
           s == c.rows[n]
           trail == audit'[p]
           i == Intent(c, n)
<1> SUFFICES Backed(trail, n, i) /\ Follows(s, i)
  OBVIOUS
<1>1. /\ c \in Call /\ c.actor \in Actors /\ c.phase = "commit"
      /\ c.op \in Moves \cup {"ROLLBACK"}
  BY UpdateEffect DEF DenseInv
<1>2. /\ p \in Policies /\ c.rows \in [Numbers -> VersionRow] /\ c.made \in VersionRow
      /\ s \in VersionRow /\ Remembers(c, policy[p], version[p]) /\ c.number \in Numbers
      /\ c.at \in Times /\ i \in VersionRow
  BY <1>1, IntentType DEF DenseInv, Call
<1>3. /\ audit[p] \subseteq trail
      /\ c.op \in Moves => [version |-> c.number, action |-> c.op, user |-> c.actor] \in trail
  BY <1>2, UpdateAudit DEF DenseInv
<1>4. Backed(trail, n, s)
  <2> HIDE DEF p, trail, s
  <2> QED
    BY <1>3, BackedMore DEF p, s
<1>5. Decided(c)
  BY <1>1, <1>2 DEF Remembers, Moves
<1>6. Follows(s, s)
  BY DEF Follows
<1>7. CASE n = c.number /\ c.op \in Moves
  <2>1. n = c.last /\ c.op # "ROLLBACK"
    BY <1>7 DEF Moves
  <2>2. c.made = Made(c, c.rows, n) /\ CanMove(s, c.op, c.actor)
    BY <1>5, <1>7, <2>1 DEF Decided
  <2> DEFINE m == c.made
  <2>3. /\ m.status = c.op /\ m.author = s.author
        /\ m.simulated = (s.simulated \/ c.op = "SIMULATED")
        /\ m.approver = IF c.op = "APPROVED" THEN c.actor ELSE s.approver
    BY <1>1, <1>2, <1>7, <2>2, MadeFields
  <2>4. /\ i.status = m.status /\ i.author = m.author /\ i.simulated = m.simulated
        /\ i.approver = m.approver
    <3>1. i = m \/ \E t : i = [m EXCEPT !.to = t]
      BY <1>7 DEF Intent
    <3>2. ASSUME NEW v \in VersionRow, NEW t
          PROVE  LET u == [v EXCEPT !.to = t] IN
                 /\ u.status = v.status /\ u.author = v.author
                 /\ u.simulated = v.simulated /\ u.approver = v.approver
      BY DEF VersionRow
    <3>3. m \in VersionRow
      BY <1>2
    <3> HIDE DEF i, m
    <3>4. CASE i = m
      BY <3>4
    <3>5. CASE i # m
      <4>1. PICK t : i = [m EXCEPT !.to = t]
        BY <3>1, <3>5
      <4> QED
        BY <3>2, <3>3, <4>1
    <3> QED
      BY <3>4, <3>5
  <2>5. /\ i.status = c.op /\ i.author = s.author
        /\ i.simulated = (s.simulated \/ c.op = "SIMULATED")
        /\ i.approver = IF c.op = "APPROVED" THEN c.actor ELSE s.approver
    BY <2>3, <2>4
  <2>6. [version |-> n, action |-> c.op, user |-> c.actor] \in trail
    BY <1>3, <1>7
  <2>7. c.op \in Moves
    BY <1>7
  <2> HIDE DEF i, s, trail, c
  <2> QED
    BY <1>1, <1>2, <1>4, <2>2, <2>5, <2>6, <2>7, MoveBacked
<1>8. CASE n = c.number /\ c.op = "ROLLBACK"
  <2>1. i = Restored(s, c.at) /\ s.status \in {"PUBLISHED", "ACTIVE", "DISABLED"}
    BY <1>5, <1>8 DEF Intent, Decided
  <2>2. i.status = "ACTIVE" /\ i.author = s.author /\ i.simulated = s.simulated
        /\ i.approver = s.approver
    BY <1>2, <2>1, RestoredFields
  <2> HIDE DEF i, s, trail
  <2> QED
    BY <1>2, <1>4, <2>1, <2>2, StatusBacked
<1>9. CASE n # c.number /\ n \in c.previous /\ c.op = "ACTIVE"
  <2>1. s.status = "ACTIVE"
    BY <1>2, <1>9 DEF Remembers
  <2>2. i = [s EXCEPT !.status = "DISABLED", !.to = c.made.from]
    BY <1>9 DEF Intent
  <2>3. i.status = "DISABLED" /\ i.author = s.author /\ i.simulated = s.simulated
        /\ i.approver = s.approver
    BY <1>2, <2>2 DEF VersionRow
  <2> HIDE DEF i, s, trail
  <2> QED
    BY <1>2, <1>4, <2>1, <2>3, StatusBacked
<1>10. CASE n # c.number /\ c.op = "ROLLBACK" /\ s.status = "ACTIVE"
  <2>1. i = s \/ i = Moved(s, "ROLLED_BACK", c.actor, c.at)
    BY <1>10 DEF Intent
  <2>2. LET m == Moved(s, "ROLLED_BACK", c.actor, c.at) IN
        /\ m.status = "ROLLED_BACK" /\ m.author = s.author /\ m.simulated = s.simulated
        /\ m.approver = s.approver
    <3> HIDE DEF s
    <3> QED
      BY <1>1, <1>2, RolledFields
  <2>3. i = s \/ (i.status = "ROLLED_BACK" /\ i.author = s.author /\ i.simulated = s.simulated
                  /\ i.approver = s.approver)
    BY <2>1, <2>2
  <2> HIDE DEF i, s, trail
  <2> QED
    BY <1>2, <1>4, <1>6, <1>10, <2>3, StatusBacked
<1>11. CASE n # c.number /\ ~(n \in c.previous /\ c.op = "ACTIVE")
            /\ ~(c.op = "ROLLBACK" /\ s.status = "ACTIVE")
  <2>1. i = s
    BY <1>11 DEF Intent
  <2> QED
    BY <1>4, <1>6, <2>1
<1> QED
  BY <1>1, <1>7, <1>8, <1>9, <1>10, <1>11

\* What a request knows after a step of its own is what it knew or what the table holds.
LEMMA QuietRows ==
  ASSUME TypeInv, NEW w \in Workers, Quiet(w)
  PROVE  \E d \in Call :
         /\ call' = [call EXCEPT ![w] = d]
         /\ \A n \in Numbers : \/ d.rows[n] = Absent
                               \/ d.rows[n] = version[d.policy][n]
                               \/ d.policy = call[w].policy /\ d.rows[n] = call[w].rows[n]
<1> DEFINE c == call[w]
<1>1. c \in Call /\ c.rows \in [Numbers -> VersionRow]
  BY DEF TypeInv, TypeOK, Call
<1>2. ASSUME NEW op \in Operations, NEW p \in Policies, NEW n \in Numbers, NEW a \in Actors,
             NEW date \in Dates \cup {Null}, NEW wt \in Weights \cup {Null},
             Receive(w, op, p, n, a, date, wt)
      PROVE  \E d \in Call : call' = [call EXCEPT ![w] = d] /\ \A m \in Numbers : d.rows[m] = Absent
  <2> DEFINE d == Received(op, p, n, a, date, wt)
  <2>1. d \in Call /\ d.rows = Nothing /\ call' = [call EXCEPT ![w] = d]
    BY <1>2, ReceivedFields
  <2> HIDE DEF d
  <2> QED
    BY <2>1 DEF Nothing
<1>3. CASE Fail(w)
  <2>1. call' = [call EXCEPT ![w] = Idle]
    BY <1>3 DEF Fail
  <2>2. \A n \in Numbers : Idle.rows[n] = Absent
    BY DEF Idle, Nothing
  <2> QED
    BY <2>1, <2>2, IdleType
<1>4. CASE ReadNamed(w)
  <2>1. PICK d \in Call :
          /\ call' = [call EXCEPT ![w] = d] /\ SameRequest(d, c)
          /\ d.rows = [c.rows EXCEPT ![c.number] = version[c.policy][c.number]]
    BY <1>4, NamedFields
  <2>2. \A n \in Numbers : d.rows[n] = version[c.policy][n] \/ d.rows[n] = c.rows[n]
    BY <1>1, <2>1
  <2>3. call' = [call EXCEPT ![w] = d] /\ d.policy = c.policy
    BY <2>1 DEF SameRequest
  <2> QED
    BY <2>2, <2>3
<1>5. CASE ReadCurrent(w)
  <2>1. PICK d \in Call :
          /\ call' = [call EXCEPT ![w] = d] /\ SameRequest(d, c)
          /\ d.rows = [c.rows EXCEPT ![c.seen.current] = Held(c, c.seen.current)]
    BY <1>5, CurrentFields
  <2>2. \A n \in Numbers : d.rows[n] = version[c.policy][n] \/ d.rows[n] = c.rows[n]
    BY <1>1, <2>1 DEF Held
  <2>3. call' = [call EXCEPT ![w] = d] /\ d.policy = c.policy
    BY <2>1 DEF SameRequest
  <2> QED
    BY <2>2, <2>3
<1>6. CASE ReadClock(w)
  <2>1. PICK d \in Call :
          call' = [call EXCEPT ![w] = d] /\ SameRequest(d, c) /\ d.rows = c.rows
    BY <1>6, ClockFields
  <2> QED
    BY <2>1 DEF SameRequest
<1>7. CASE ReadHistory(w)
  <2>1. PICK d \in Call :
          /\ call' = [call EXCEPT ![w] = d] /\ SameRequest(d, c)
          /\ d.rows = [n \in Numbers |-> IF n \in Kept(c) THEN History(c)[n] ELSE Absent]
    BY <1>7, HistoryFields
  <2>2. \A n \in Numbers : \/ d.rows[n] = Absent \/ d.rows[n] = version[c.policy][n]
                           \/ d.rows[n] = c.rows[n]
    BY <2>1 DEF History, Held
  <2>3. call' = [call EXCEPT ![w] = d] /\ d.policy = c.policy
    BY <2>1 DEF SameRequest
  <2> QED
    BY <2>2, <2>3
<1>8. CASE ReadPrevious(w)
  <2>1. PICK d \in Call :
          /\ call' = [call EXCEPT ![w] = d] /\ SameRequest(d, c)
          /\ d.rows = [n \in Numbers |-> IF n \in Active(version[c.policy]) \ {c.number}
                                         THEN version[c.policy][n] ELSE c.rows[n]]
    BY <1>8, PreviousFields
  <2>2. \A n \in Numbers : d.rows[n] = version[c.policy][n] \/ d.rows[n] = c.rows[n]
    BY <2>1
  <2>3. call' = [call EXCEPT ![w] = d] /\ d.policy = c.policy
    BY <2>1 DEF SameRequest
  <2> QED
    BY <2>2, <2>3
<1> QED
  BY <1>2, <1>3, <1>4, <1>5, <1>6, <1>7, <1>8 DEF Quiet

LEMMA QuietBacked ==
  ASSUME BackedInv, NEW w \in Workers, Quiet(w)
  PROVE  \A x \in Workers :
            SeenBacked(call'[x], version[call'[x].policy], audit[call'[x].policy], foreign)
<1>1. PICK d \in Call :
         /\ call' = [call EXCEPT ![w] = d]
         /\ \A n \in Numbers : \/ d.rows[n] = Absent
                               \/ d.rows[n] = version[d.policy][n]
                               \/ d.policy = call[w].policy /\ d.rows[n] = call[w].rows[n]
  BY QuietRows DEF BackedInv, DenseInv
<1>2. call \in [Workers -> Call] /\ d.policy \in Policies
  BY DEF BackedInv, DenseInv, TypeInv, TypeOK, Call
<1>3. call'[w] = d /\ \A x \in Workers \ {w} : call'[x] = call[x]
  BY <1>1, <1>2
<1>4. ASSUME NEW n \in Numbers, <<d.policy, n>> \notin foreign, d.rows[n] # Absent
      PROVE  /\ Backed(audit[d.policy], n, d.rows[n])
             /\ Follows(d.rows[n], version[d.policy][n])
  <2>1. CASE d.rows[n] = version[d.policy][n]
    BY <1>2, <1>4, <2>1 DEF BackedInv, RowsBacked, Follows
  <2>2. CASE d.policy = call[w].policy /\ d.rows[n] = call[w].rows[n]
    BY <1>4, <2>2 DEF BackedInv, SeenBacked
  <2> QED
    BY <1>1, <1>4, <2>1, <2>2
<1>5. SeenBacked(d, version[d.policy], audit[d.policy], foreign)
  BY <1>4 DEF SeenBacked
<1> QED
  BY <1>3, <1>5 DEF BackedInv

\* A commit leaves what the others have read backed, and its rows behind the new ones.
LEMMA CommitBacked ==
  ASSUME BackedInv, NEW w \in Workers, Ended(w),
         foreign \subseteq foreign',
         \A q \in Policies : audit[q] \subseteq audit'[q],
         \A q \in Policies, n \in Numbers :
            <<q, n>> \notin foreign' => \/ version[q][n] = Absent
                                        \/ Follows(version[q][n], version'[q][n])
  PROVE  \A x \in Workers :
            SeenBacked(call'[x], version'[call'[x].policy], audit'[call'[x].policy], foreign')
<1>1. call'[w] = Idle
  BY EndedCalls DEF BackedInv, DenseInv
<1>2. ASSUME NEW x \in Workers, x # w
      PROVE  SeenBacked(call'[x], version'[call'[x].policy], audit'[call'[x].policy], foreign')
  <2> DEFINE c == call[x]
             p == c.policy
  <2>1. c \in Call /\ p \in Policies /\ Remembers(c, policy[p], version[p])
        /\ SeenBacked(c, version[p], audit[p], foreign)
    BY DEF BackedInv, DenseInv, TypeInv, TypeOK, Call
  <2>2. call'[x].rows = c.rows /\ call'[x].policy = p
    <3>1. call'[x] = c \/ call'[x] = [c EXCEPT !.orderly = FALSE]
      BY <1>2, EndedCalls DEF BackedInv, DenseInv
    <3> QED
      BY <2>1, <3>1, Disordered
  <2>3. ASSUME NEW n \in Numbers, <<p, n>> \notin foreign', c.rows[n] # Absent
        PROVE  Backed(audit'[p], n, c.rows[n]) /\ Follows(c.rows[n], version'[p][n])
    <3>1. Backed(audit[p], n, c.rows[n]) /\ Follows(c.rows[n], version[p][n])
      BY <2>1, <2>3 DEF SeenBacked
    <3>2. version[p][n] # Absent
      <4>1. n \in Present(version[p])
        BY <2>1, <2>3 DEF Remembers
      <4>2. Absent.status = "ABSENT"
        BY DEF Absent
      <4> QED
        BY <4>1, <4>2 DEF Present
    <3>3. Follows(version[p][n], version'[p][n]) /\ audit[p] \subseteq audit'[p]
      BY <2>1, <2>3, <3>2
    <3> HIDE DEF c, p
    <3> QED
      BY <3>1, <3>3, FollowsChain, BackedMore
  <2> HIDE DEF c, p
  <2> QED
    BY <2>2, <2>3 DEF SeenBacked
<1> QED
  BY <1>1, <1>2, IdleBacked

LEMMA BackedInit == Init => BackedInv
<1> SUFFICES ASSUME Init PROVE BackedInv
  OBVIOUS
<1>1. DenseInv
  BY DenseInit
<1>2. PICK wt \in Weights :
        version = [p \in Policies |-> [n \in Numbers |->
              IF p = Bootstrap /\ n = 1
              THEN [status |-> "ACTIVE", author |-> System, approver |-> System, weights |-> wt,
                    simulated |-> TRUE, from |-> 0, to |-> Null]
              ELSE Absent]]
  BY DEF Init
<1>3. \A p \in Policies, n \in Numbers :
        \/ version[p][n].author = System
        \/ version[p][n] = Absent
  BY <1>2
<1>4. \A trail, n : Backed(trail, n, Absent)
  BY DEF Backed, Absent
<1>5. RowsBacked
  BY <1>3, <1>4 DEF RowsBacked, Backed
<1>6. \A x \in Workers : call[x] = Idle
  BY DEF Init
<1> QED
  BY <1>1, <1>5, <1>6, IdleBacked DEF BackedInv

\* The rows of the versions an update writes.
LEMMA UpdateBacked ==
  ASSUME BackedInv, NEW w \in Workers, Update(w), NEW q \in Policies, NEW n \in Numbers,
         <<q, n>> \notin foreign'
  PROVE  /\ Backed(audit'[q], n, version'[q][n])
         /\ version[q][n] = Absent \/ Follows(version[q][n], version'[q][n])
         /\ <<q, n>> \notin foreign
<1> DEFINE c == call[w]
           p == c.policy
           v == version[q][n]
           s == c.rows[n]
           i == Intent(c, n)
           trail == audit'[q]
<1>1. /\ c \in Call /\ c.actor \in Actors /\ c.op \in Moves \cup {"ROLLBACK"}
      /\ version' = [version EXCEPT ![p] =
                          [m \in Numbers |-> Merge(version[p][m], c.rows[m], Intent(c, m))]]
      /\ c.op \in Moves => foreign' = foreign \cup
                (IF c.number = c.last THEN {} ELSE {<<p, c.number>>})
      /\ c.op = "ROLLBACK" => foreign' = foreign
      /\ c.phase = "commit"
  BY UpdateEffect DEF BackedInv, DenseInv
<1>2. /\ p \in Policies /\ c.rows \in [Numbers -> VersionRow] /\ s \in VersionRow /\ v \in VersionRow
      /\ version \in [Policies -> [Numbers -> VersionRow]] /\ i \in VersionRow
      /\ SeenBacked(c, version[p], audit[p], foreign) /\ Remembers(c, policy[p], version[p])
  <2>1. version \in [Policies -> [Numbers -> VersionRow]]
    BY DEF BackedInv, DenseInv, TypeInv, TypeOK
  <2>2. p \in Policies /\ c.rows \in [Numbers -> VersionRow]
    BY <1>1 DEF Call
  <2>3. SeenBacked(c, version[p], audit[p], foreign) /\ Remembers(c, policy[p], version[p])
    BY DEF BackedInv, DenseInv
  <2>4. i \in VersionRow
    BY <1>1, IntentType
  <2> QED
    BY <2>1, <2>2, <2>3, <2>4
<1>3. audit[q] \subseteq trail
  BY UpdateAudit DEF BackedInv, DenseInv
<1>4. <<q, n>> \notin foreign
  BY <1>1
<1>5. Backed(trail, n, v)
  <2>1. Backed(audit[q], n, v)
    BY <1>4 DEF BackedInv, RowsBacked
  <2> HIDE DEF trail, v
  <2> QED
    BY <1>3, <2>1, BackedMore
<1>6. version'[q][n] = IF q = p THEN Merge(v, s, i) ELSE v
  BY <1>1, <1>2
<1>7. Follows(v, v)
  BY DEF Follows
<1>8. CASE version'[q][n] = v
  BY <1>4, <1>5, <1>7, <1>8
<1>9. CASE q = p /\ s = Absent
  <2>1. i = s
    <3> HIDE DEF c
    <3> QED
      BY <1>1, <1>2, <1>9, IntentStays
  <2>2. Merge(v, s, i) = v
    BY <1>2, <2>1, MergedUnchanged
  <2> QED
    BY <1>6, <1>8, <1>9, <2>2
<1>10. CASE q = p /\ s # Absent
  <2>1. n = c.number => c.op = "ROLLBACK" \/ n = c.last
    BY <1>1, <1>10
  <2>2. Backed(audit[p], n, s) /\ Follows(s, v)
    BY <1>2, <1>4, <1>10 DEF SeenBacked
  <2>3. Backed(trail, n, i) /\ Follows(s, i)
    BY <1>10, <2>1, <2>2, IntentBacked DEF BackedInv
  <2>4. Backed(trail, n, Merge(v, s, i)) /\ Follows(v, Merge(v, s, i))
    <3> HIDE DEF trail, v, s, i
    <3> QED
      BY <1>2, <1>5, <2>2, <2>3, MergeBacked
  <2> QED
    BY <1>4, <1>6, <1>10, <2>4
<1> QED
  BY <1>6, <1>8, <1>9, <1>10

LEMMA BackedPreserved == BackedInv /\ [Next]_vars => BackedInv'
<1> SUFFICES ASSUME BackedInv, [Next]_vars PROVE BackedInv'
  OBVIOUS
<1>1. DenseInv'
  BY DensePreserved DEF BackedInv
<1>2. /\ version \in [Policies -> [Numbers -> VersionRow]] /\ call \in [Workers -> Call]
      /\ TypeInv /\ DenseInv /\ Blank /\ NumbersAreDense /\ RowsBacked
  BY DEF BackedInv, DenseInv, TypeInv, TypeOK
<1>3. CASE UNCHANGED vars
  BY <1>1, <1>3 DEF BackedInv, RowsBacked, vars
<1>4. ASSUME NEW w \in Workers, Quiet(w) PROVE BackedInv'
  <2>1. policy' = policy /\ version' = version /\ audit' = audit /\ foreign' = foreign
    BY <1>4, QuietTables
  <2>2. \A x \in Workers :
            SeenBacked(call'[x], version[call'[x].policy], audit[call'[x].policy], foreign)
    BY <1>4, QuietBacked
  <2> QED
    BY <1>1, <2>1, <2>2 DEF BackedInv, RowsBacked
<1>5. ASSUME NEW w \in Workers, NEW p \in Policies, NEW n0 \in Numbers, NEW v \in VersionRow,
             Ended(w), version' = [version EXCEPT ![p][n0] = v], version[p][n0] = Absent,
             \A trail : Backed(trail, n0, v),
             \A q \in Policies : audit[q] \subseteq audit'[q], foreign' = foreign
      PROVE  BackedInv'
  <2>1. \A q \in Policies, n \in Numbers :
           version'[q][n] = IF q = p /\ n = n0 THEN v ELSE version[q][n]
    BY <1>2, <1>5
  <2>2. RowsBacked'
    <3>1. ASSUME NEW q \in Policies, NEW n \in Numbers, <<q, n>> \notin foreign
          PROVE  Backed(audit'[q], n, version'[q][n])
      <4>1. CASE q = p /\ n = n0
        BY <1>5, <2>1, <4>1
      <4>2. CASE ~(q = p /\ n = n0)
        <5>1. Backed(audit[q], n, version[q][n])
          BY <1>2, <3>1 DEF RowsBacked
        <5>2. audit[q] \subseteq audit'[q]
          BY <1>5
        <5> QED
          BY <2>1, <4>2, <5>1, <5>2, BackedMore
      <4> QED
        BY <4>1, <4>2
    <3> QED
      BY <1>5, <3>1 DEF RowsBacked
  <2>3. \A q \in Policies, n \in Numbers :
            version[q][n] = Absent \/ Follows(version[q][n], version'[q][n])
    BY <1>5, <2>1 DEF Follows
  <2>4. \A x \in Workers :
            SeenBacked(call'[x], version'[call'[x].policy], audit'[call'[x].policy], foreign')
    BY <1>5, <2>3, CommitBacked
  <2> QED
    BY <1>1, <2>2, <2>4 DEF BackedInv
<1>6. ASSUME NEW w \in Workers, CreatePolicy(w) PROVE BackedInv'
  <2> DEFINE c == call[w]
             p == c.policy
             draft == Draft(c.actor, c.weights)
  <2>1. /\ p \in Policies /\ 1 \in Numbers /\ Ended(w) /\ ~Exists(p) /\ c.actor \in Actors
        /\ draft \in VersionRow /\ version' = [version EXCEPT ![p][1] = draft]
        /\ \A q \in Policies : audit[q] \subseteq audit'[q]
        /\ foreign' = foreign
    BY <1>2, <1>6, CreatePolicyType DEF Call
  <2>2. \A trail : Backed(trail, 1, draft)
    BY <2>1, DraftBacked
  <2>3. version[p][1] = Absent
    <3>1. policy[p].current \in Nat
      BY <1>2, <2>1, PolicyAssumption DEF TypeInv, TypeOK, PolicyRow
    <3>2. 1 \notin 1..policy[p].current
      BY <2>1, <3>1 DEF Exists
    <3> QED
      BY <1>2, <2>1, <3>2 DEF NumbersAreDense, Present, Blank
  <2> HIDE DEF c, p, draft
  <2> QED
    BY <1>5, <2>1, <2>2, <2>3
<1>7. ASSUME NEW w \in Workers, CreateVersion(w) PROVE BackedInv'
  <2> DEFINE c == call[w]
             p == c.policy
             n0 == c.last + 1
  <2>1. /\ c \in Call /\ c.actor \in Actors /\ c.phase = "commit" /\ c.op = "VERSION_CREATED"
        /\ n0 \in Numbers /\ Ended(w) /\ version[p][n0] = Absent
        /\ version' = [version EXCEPT ![p][n0] = c.made]
        /\ \A q \in Policies : audit[q] \subseteq audit'[q]
        /\ foreign' = foreign
    BY <1>2, <1>7, CreateVersionType
  <2>2. p \in Policies /\ c.made \in VersionRow /\ Remembers(c, policy[p], version[p])
    BY <2>1 DEF Call, BackedInv, DenseInv
  <2>3. c.made = Draft(c.actor, c.weights)
    BY <2>1, <2>2 DEF Remembers, Decided
  <2>4. \A trail : Backed(trail, n0, c.made)
    BY <2>1, <2>3, DraftBacked
  <2> HIDE DEF c, p, n0
  <2> QED
    BY <1>5, <2>1, <2>2, <2>4
<1>8. ASSUME NEW w \in Workers, Update(w) PROVE BackedInv'
  <2>1. /\ Ended(w) /\ \A q \in Policies : audit[q] \subseteq audit'[q]
        /\ foreign \subseteq foreign'
    BY <1>2, <1>8, UpdateEffect, UpdateAudit
  <2>2. \A q \in Policies, n \in Numbers : <<q, n>> \notin foreign' =>
           /\ Backed(audit'[q], n, version'[q][n])
           /\ version[q][n] = Absent \/ Follows(version[q][n], version'[q][n])
    BY <1>8, UpdateBacked
  <2>3. RowsBacked'
    BY <2>2 DEF RowsBacked
  <2>4. \A x \in Workers :
            SeenBacked(call'[x], version'[call'[x].policy], audit'[call'[x].policy], foreign')
    BY <2>1, <2>2, CommitBacked
  <2> QED
    BY <1>1, <2>3, <2>4 DEF BackedInv
<1> QED
  BY <1>3, <1>4, <1>6, <1>7, <1>8, NextSplit DEF Next

LEMMA BackedIsApproved == BackedInv => InEffectIsApproved
<1> SUFFICES ASSUME BackedInv, NEW p \in Policies, NEW n \in InEffect(p),
                    <<p, n>> \notin foreign, version[p][n].author # System
             PROVE  LET v == version[p][n] IN
                    v.simulated /\ v.approver # v.author /\ Vetted(p, n, v.approver)
  BY DEF InEffectIsApproved
<1> DEFINE v == version[p][n]
<1>1. n \in Numbers /\ v.status = "ACTIVE"
  BY DEF InEffect, Active
<1>2. Backed(audit[p], n, v)
  BY <1>1 DEF BackedInv, RowsBacked
<1> QED
  BY <1>1, <1>2 DEF Backed, Logged, Vetted

\* However requests overlap, whatever they name and whatever order they commit in, the
\* weights of a version in effect were simulated, approved by the recorded approver, who is
\* not the author, and published; content written on another version's row excepted.
THEOREM EffectIsVetted == Spec => []InEffectIsApproved
<1> QED
  BY BackedInit, BackedPreserved, BackedIsApproved, PTL DEF Spec

-----------------------------------------------------------------------------
(* What an orderly request knows *)

\* Sound, row by row.
RowSound(n, v, active, t) ==
    v.status # "ABSENT" =>
        /\ Consistent(v)
        /\ v.status = "ACTIVE" => active = n /\ v.from < t /\ v.to = Null
        /\ \/ /\ v.status \in {"DRAFT", "SIMULATED", "SUBMITTED", "APPROVED", "PUBLISHED"}
              /\ v.from = Null /\ v.to = Null
           \/ /\ v.status \in {"ACTIVE", "DISABLED", "ROLLED_BACK"}
              /\ v.approver # Null

SoundRows(active, rows, t) ==
    /\ \A n \in Numbers : RowSound(n, rows[n], active, t)
    /\ active # 0 => active \in Active(rows)

LEMMA SoundIs ==
  ASSUME NEW p
  PROVE  /\ Sound(p) <=> SoundRows(policy[p].active, version[p], now)
         /\ Sound(p)' <=> SoundRows(policy'[p].active, version'[p], now')
<1>1. Sound(p) <=> SoundRows(policy[p].active, version[p], now)
  BY DEF Sound, SoundRows, RowSound, Loadable, Present, Active
<1>2. Sound(p)' <=> SoundRows(policy'[p].active, version'[p], now')
  BY DEF Sound, SoundRows, RowSound, Loadable, Present, Active
<1> QED
  BY <1>1, <1>2

LEMMA SoundLater ==
  ASSUME NEW active, NEW rows \in [Numbers -> VersionRow], NEW t \in Nat, NEW u \in Nat, t <= u,
         SoundRows(active, rows, t)
  PROVE  SoundRows(active, rows, u)
<1>1. ASSUME NEW n \in Numbers, rows[n].status = "ACTIVE"  PROVE rows[n].from < u
  <2>1. rows[n].from \in Nat /\ rows[n].from < t
    BY <1>1 DEF SoundRows, RowSound, Consistent, VersionRow, Times
  <2> QED
    BY <2>1
<1> QED
  BY <1>1 DEF SoundRows, RowSound

\* A version on its way to publication.
LEMMA SoundMove ==
  ASSUME NEW active, NEW rows \in [Numbers -> VersionRow], NEW new \in [Numbers -> VersionRow],
         NEW t, SoundRows(active, rows, t),
         NEW k \in Numbers, NEW a \in Actors, NEW op \in {"SIMULATED", "SUBMITTED", "APPROVED", "PUBLISHED"},
         CanMove(rows[k], op, a),
         \A n \in Numbers \ {k} : new[n] = rows[n],
         new[k].status = op, new[k].author = rows[k].author,
         new[k].approver = IF op = "APPROVED" THEN a ELSE rows[k].approver,
         new[k].from = rows[k].from, new[k].to = rows[k].to
  PROVE  SoundRows(active, new, t)
<1>1. /\ rows[k].status \in {"DRAFT", "SIMULATED", "SUBMITTED", "APPROVED"}
      /\ op = "PUBLISHED" => rows[k].status = "APPROVED"
      /\ op = "APPROVED" => a # rows[k].author
      /\ a # Null
  BY PolicyAssumption DEF CanMove, Transitions
<1>2. RowSound(k, rows[k], active, t)
  BY DEF SoundRows
<1>3. RowSound(k, new[k], active, t)
  BY <1>1, <1>2 DEF RowSound, Consistent
<1>4. active # 0 => active \in Active(new)
  BY <1>1 DEF SoundRows, Active
<1> QED
  BY <1>3, <1>4 DEF SoundRows

\* A version takes over from the ones in effect.
LEMMA ReplacedFields ==
  ASSUME NEW v \in VersionRow, NEW f
  PROVE  /\ Replaced(v, f).status = "DISABLED" /\ Replaced(v, f).to = f
         /\ Replaced(v, f).from = v.from
         /\ Replaced(v, f).author = v.author /\ Replaced(v, f).approver = v.approver
BY DEF VersionRow, Replaced

LEMMA SoundActivate ==
  ASSUME NEW active, NEW rows \in [Numbers -> VersionRow], NEW new \in [Numbers -> VersionRow],
         NEW t \in Nat, SoundRows(active, rows, t), NEW k \in Numbers, NEW f \in Nat, f < t,
         rows[k].status = "PUBLISHED",
         \A n \in Active(rows) : rows[n].from < f,
         \A n \in Numbers \ ({k} \cup Active(rows)) : new[n] = rows[n],
         \A n \in Active(rows) : new[n] = Replaced(rows[n], f),
         new[k].status = "ACTIVE", new[k].author = rows[k].author,
         new[k].approver = rows[k].approver, new[k].from = f, new[k].to = rows[k].to
  PROVE  SoundRows(k, new, t)
<1>1. f # Null
  BY PolicyAssumption
<1>2. RowSound(k, rows[k], active, t)
  BY DEF SoundRows
<1>3. RowSound(k, new[k], k, t)
  BY <1>1, <1>2 DEF RowSound, Consistent
<1>4. ASSUME NEW n \in Active(rows)  PROVE RowSound(n, new[n], k, t)
  <2>1. RowSound(n, rows[n], active, t) /\ rows[n] \in VersionRow /\ rows[n].status = "ACTIVE"
    BY DEF SoundRows, Active
  <2>2. /\ new[n].status = "DISABLED" /\ new[n].from = rows[n].from /\ new[n].to = f
        /\ new[n].approver = rows[n].approver /\ new[n].author = rows[n].author
    BY <2>1, ReplacedFields
  <2> QED
    BY <1>1, <2>1, <2>2 DEF RowSound, Consistent
<1>5. ASSUME NEW n \in Numbers \ ({k} \cup Active(rows))  PROVE RowSound(n, new[n], k, t)
  <2>1. new[n] = rows[n] /\ rows[n].status # "ACTIVE" /\ RowSound(n, rows[n], active, t)
    BY DEF SoundRows, Active
  <2> QED
    BY <2>1 DEF RowSound
<1>6. k \in Active(new)
  BY DEF Active
<1> QED
  BY <1>3, <1>4, <1>5, <1>6 DEF SoundRows

LEMMA SoundDisable ==
  ASSUME NEW active, NEW rows \in [Numbers -> VersionRow], NEW new \in [Numbers -> VersionRow],
         NEW t \in Nat, SoundRows(active, rows, t), NEW k \in Numbers, NEW at \in Nat,
         rows[k].status \in {"PUBLISHED", "ACTIVE"},
         rows[k].status = "ACTIVE" => rows[k].from < at,
         \A n \in Numbers \ {k} : new[n] = rows[n],
         new[k].status = "DISABLED", new[k].author = rows[k].author,
         new[k].approver = rows[k].approver, new[k].from = rows[k].from,
         new[k].to = IF active = k /\ rows[k].to = Null THEN at ELSE rows[k].to
  PROVE  SoundRows(IF active = k THEN 0 ELSE active, new, t)
<1> DEFINE b == IF active = k THEN 0 ELSE active
<1>1. RowSound(k, rows[k], active, t)
  BY DEF SoundRows
<1>2. RowSound(k, new[k], b, t)
  BY <1>1 DEF RowSound, Consistent
<1>3. ASSUME NEW n \in Numbers \ {k}  PROVE RowSound(n, new[n], b, t)
  <2>1. new[n] = rows[n] /\ RowSound(n, rows[n], active, t)
    BY DEF SoundRows
  <2> QED
    BY <2>1 DEF RowSound
<1>4. b # 0 => b \in Active(new)
  BY DEF SoundRows, Active
<1> QED
  BY <1>2, <1>3, <1>4 DEF SoundRows

\* At most one version is ACTIVE afterwards, by the unique index.
LEMMA SoundRollback ==
  ASSUME NEW active, NEW rows \in [Numbers -> VersionRow], NEW new \in [Numbers -> VersionRow],
         NEW t \in Nat, SoundRows(active, rows, t), NEW k \in Numbers, NEW m \in Numbers, k # m,
         NEW at \in Nat, at < t,
         rows[k].status \in {"PUBLISHED", "ACTIVE", "DISABLED"},
         rows[m].status \in {"ACTIVE", "DISABLED", "ROLLED_BACK"},
         \A n \in Numbers \ {k, m} : new[n] = rows[n],
         new[k].status = "ACTIVE", new[k].approver = rows[k].approver,
         new[k].from = at, new[k].to = Null,
         new[m].status = IF rows[m].status = "ACTIVE" THEN "ROLLED_BACK" ELSE rows[m].status,
         new[m].approver = rows[m].approver, new[m].from = rows[m].from, new[m].to = rows[m].to,
         \A n \in Active(new) : n = k
  PROVE  SoundRows(k, new, t)
<1>1. RowSound(k, rows[k], active, t) /\ RowSound(m, rows[m], active, t)
  BY DEF SoundRows
<1>2. at # Null
  BY PolicyAssumption
<1>3. rows[k].approver # Null
  BY <1>1 DEF RowSound, Consistent
<1>4. RowSound(k, new[k], k, t)
  BY <1>1, <1>2, <1>3 DEF RowSound, Consistent
<1>5. RowSound(m, new[m], k, t)
  BY <1>1 DEF RowSound, Consistent
<1>6. ASSUME NEW n \in Numbers \ {k, m}  PROVE RowSound(n, new[n], k, t)
  <2>1. new[n] = rows[n] /\ RowSound(n, rows[n], active, t) /\ new[n].status # "ACTIVE"
    BY DEF SoundRows, Active
  <2> QED
    BY <2>1 DEF RowSound
<1>7. k \in Active(new)
  BY DEF Active
<1> QED
  BY <1>4, <1>5, <1>6, <1>7 DEF SoundRows

LEMMA SoundDraft ==
  ASSUME NEW active, NEW rows \in [Numbers -> VersionRow], NEW new \in [Numbers -> VersionRow],
         NEW t, SoundRows(active, rows, t), NEW k \in Numbers, rows[k] = Absent,
         \A n \in Numbers \ {k} : new[n] = rows[n],
         NEW a, NEW wt, new[k] = Draft(a, wt)
  PROVE  SoundRows(active, new, t)
<1>1. new[k].status = "DRAFT" /\ new[k].from = Null /\ new[k].to = Null
  BY DEF Draft, Absent
<1>2. RowSound(k, new[k], active, t)
  BY <1>1 DEF RowSound, Consistent
<1>3. rows[k].status = "ABSENT"
  BY DEF Absent
<1>4. active # 0 => active \in Active(new)
  BY <1>3 DEF SoundRows, Active
<1> QED
  BY <1>2, <1>4 DEF SoundRows

\* An orderly request has read what the tables hold: its policy is as it found it, and so are
\* the rows; the versions in effect started before the time it records; it has found them all.
Undisturbed(c, head, rows, t) ==
    c.orderly =>
        /\ c.op # "CREATED"
        /\ c.op # "ACTIVE" => c.date = Null
        /\ SoundRows(head.active, rows, t)
        /\ c.seen = head
        /\ \A n \in Numbers : c.rows[n] = Absent \/ c.rows[n] = rows[n]
        /\ /\ c.phase \in {"history", "previous", "commit"}
           /\ c.op \in {"ACTIVE", "DISABLED", "ROLLBACK"}
           => /\ c.at \in Nat /\ c.at < t
              /\ \A n \in Active(rows) : rows[n].from < c.at
        /\ c.phase = "commit" /\ c.op = "ACTIVE" => c.previous = Active(rows) \ {c.number}
        /\ c.phase = "commit" /\ c.op = "ROLLBACK" =>
              c.last # c.number /\ c.rows[c.last].status \in {"ACTIVE", "DISABLED", "ROLLED_BACK"}

OrderInv ==
    /\ DenseInv
    /\ \A w \in Workers :
          Undisturbed(call[w], policy[call[w].policy], version[call[w].policy], now)

LEMMA IdleUndisturbed == \A head, rows, t : Undisturbed(Idle, head, rows, t)
  BY DEF Undisturbed, Idle

LEMMA UndisturbedLater ==
  ASSUME NEW c \in Call, NEW head, NEW rows \in [Numbers -> VersionRow], NEW t \in Nat, NEW u \in Nat,
         t <= u, Undisturbed(c, head, rows, t)
  PROVE  Undisturbed(c, head, rows, u)
<1>1. SoundRows(head.active, rows, t) => SoundRows(head.active, rows, u)
  BY SoundLater
<1>2. c.at \in Nat /\ c.at < t => c.at < u
  OBVIOUS
<1> QED
  BY <1>1, <1>2 DEF Undisturbed

\* The rows an orderly request writes are as it wants them.
LEMMA UndisturbedRows ==
  ASSUME OrderInv, NEW w \in Workers, Update(w), call[w].orderly
  PROVE  LET c == call[w]
             p == call[w].policy
         IN
         /\ policy'[p].active = Pointer(c)
         /\ version'[p] \in [Numbers -> VersionRow]
         /\ \A n \in Numbers :
              /\ c.rows[n] = Absent => version'[p][n] = version[p][n]
              /\ c.rows[n] # Absent => c.rows[n] = version[p][n] /\ version'[p][n] = Intent(c, n)
<1> DEFINE c == call[w]
           p == c.policy
           row == Merge(policy[p], c.seen, [c.seen EXCEPT !.active = Pointer(c)])
           rows == [n \in Numbers |-> Merge(version[p][n], c.rows[n], Intent(c, n))]
<1>1. /\ c \in Call /\ c.actor \in Actors /\ c.op \in Moves \cup {"ROLLBACK"} /\ c.phase = "commit"
      /\ version' = [version EXCEPT ![p] = rows]
      /\ policy' = [policy EXCEPT ![p] = row]
  BY UpdateEffect DEF OrderInv, DenseInv
<1>2. /\ policy \in [Policies -> PolicyRow] /\ version \in [Policies -> [Numbers -> VersionRow]]
      /\ Remembers(c, policy[p], version[p]) /\ Undisturbed(c, policy[p], version[p], now)
  BY DEF OrderInv, DenseInv, TypeInv, TypeOK
<1>3. p \in Policies /\ c.rows \in [Numbers -> VersionRow] /\ c.number \in Numbers
  BY <1>1 DEF Call
<1>4. c.seen = policy[p]
  BY <1>2 DEF Undisturbed
<1>5. row.active = Pointer(c)
  <2>1. /\ [c.seen EXCEPT !.active = Pointer(c)] \in PolicyRow
        /\ Pointer(c) \in 0..MaxVersion
    <3> HIDE DEF c
    <3> QED
      BY <1>1, <1>3, IntentType
  <2>2. [c.seen EXCEPT !.active = Pointer(c)].active = Pointer(c)
    BY <1>2, <1>3, <1>4 DEF PolicyRow
  <2>3. policy[p] \in PolicyRow /\ c.seen \in PolicyRow
    BY <1>2, <1>3, <1>4
  <2>4. row.active = IF Pointer(c) # c.seen.active THEN Pointer(c) ELSE policy[p].active
    <3> DEFINE seen == c.seen
               want == [seen EXCEPT !.active = Pointer(c)]
               old == policy[p]
    <3>1. want \in PolicyRow /\ want.active = Pointer(c) /\ old \in PolicyRow /\ seen \in PolicyRow
          /\ row = Merge(old, seen, want)
      BY <2>1, <2>2, <2>3
    <3> HIDE DEF seen, want, old, row, p
    <3>2. row.active = IF want.active # seen.active THEN want.active ELSE old.active
      BY <3>1, MergedPolicy
    <3> QED
      BY <3>1, <3>2 DEF seen, old
  <2> QED
    BY <1>4, <2>4
<1>6. ASSUME NEW n \in Numbers
      PROVE  /\ rows[n] \in VersionRow
             /\ c.rows[n] = Absent => rows[n] = version[p][n]
             /\ c.rows[n] # Absent => c.rows[n] = version[p][n] /\ rows[n] = Intent(c, n)
  <2>1. version[p][n] \in VersionRow /\ c.rows[n] \in VersionRow /\ Intent(c, n) \in VersionRow
        /\ rows[n] = Merge(version[p][n], c.rows[n], Intent(c, n))
    BY <1>1, <1>2, <1>3, IntentType
  <2>2. c.rows[n] = Absent => Intent(c, n) = c.rows[n]
    <3> HIDE DEF c
    <3> QED
      BY <1>1, <1>2, IntentStays
  <2>3. c.rows[n] # Absent => c.rows[n] = version[p][n]
    BY <1>2 DEF Undisturbed
  <2> QED
    BY <2>1, <2>2, <2>3, MergedUnchanged, MergedFresh, MergedRow
<1> HIDE DEF row, rows
<1>7. rows = [n \in Numbers |-> rows[n]]
  BY DEF rows
<1>8. rows \in [Numbers -> VersionRow]
  BY <1>6, <1>7
<1>9. version'[p] = rows /\ policy'[p] = row
  BY <1>1, <1>2, <1>3
<1> QED
  BY <1>5, <1>6, <1>8, <1>9

\* An activation ends the versions that were ACTIVE where the new one begins.
LEMMA ActivationEnds ==
  ASSUME NEW c, NEW n, c.op = "ACTIVE", n # c.number, n \in c.previous
  PROVE  Intent(c, n) = Replaced(c.rows[n], c.made.from)
BY Zenon DEF Intent, Replaced

LEMMA UpdateKeepsSound ==
  ASSUME OrderInv, NEW w \in Workers, Update(w), call[w].orderly, Prudent(call[w])
  PROVE  SoundRows(policy'[call[w].policy].active, version'[call[w].policy], now)
<1> DEFINE c == call[w]
           p == c.policy
           k == c.number
           rows == version[p]
           new == version'[p]
           active == policy[p].active
<1>1. /\ c \in Call /\ c.actor \in Actors /\ c.op \in Moves \cup {"ROLLBACK"} /\ c.phase = "commit"
      /\ CallOK(c)
  BY UpdateEffect DEF OrderInv, DenseInv, TypeInv
<1>2. /\ policy[p] \in PolicyRow /\ rows \in [Numbers -> VersionRow] /\ now \in Nat
      /\ Remembers(c, policy[p], rows) /\ Undisturbed(c, policy[p], rows, now)
      /\ k \in Numbers /\ c.at \in Times /\ c.previous \subseteq Numbers /\ c.rows[k] \in VersionRow
      /\ c.made \in VersionRow /\ c.rows \in [Numbers -> VersionRow]
  BY <1>1 DEF OrderInv, DenseInv, TypeInv, TypeOK, Call
<1>3. /\ policy'[p].active = Pointer(c) /\ new \in [Numbers -> VersionRow]
      /\ \A n \in Numbers :
           /\ c.rows[n] = Absent => new[n] = rows[n]
           /\ c.rows[n] # Absent => c.rows[n] = rows[n] /\ new[n] = Intent(c, n)
  BY UndisturbedRows
<1>4. Decided(c) /\ c.rows[k] # Absent
  <2>1. c.rows[k].status # "ABSENT"
    BY <1>1, <1>2 DEF Remembers
  <2>2. Absent.status = "ABSENT"
    BY DEF Absent
  <2> QED
    BY <1>1, <1>2, <2>1, <2>2 DEF Remembers, Moves
<1>5. c.rows[k] = rows[k] /\ new[k] = Intent(c, k) /\ rows[k] \in VersionRow
  BY <1>2, <1>3, <1>4
<1>6. SoundRows(active, rows, now) /\ c.seen = policy[p]
  BY <1>2 DEF Undisturbed
<1>7. c.op \in Moves =>
        /\ k = c.last /\ CanMove(rows[k], c.op, c.actor)
        /\ c.made = Made(c, c.rows, k)
  BY <1>4, <1>5 DEF Prudent, Decided
<1>8. c.op \in Moves =>
        /\ c.made.status = c.op /\ c.made.author = rows[k].author
        /\ c.made.approver = (IF c.op = "APPROVED" THEN c.actor ELSE rows[k].approver)
        /\ c.made.from = (IF c.date # Null THEN c.date
                          ELSE IF c.op = "ACTIVE" /\ rows[k].from = Null THEN c.at ELSE rows[k].from)
        /\ c.made.to = rows[k].to
  BY <1>1, <1>2, <1>5, <1>7, MadeFields
<1>9. ASSUME NEW n \in Numbers, n # k, ~(c.op = "ACTIVE" /\ n \in c.previous),
             ~(c.op = "ROLLBACK" /\ n = c.last)
      PROVE  new[n] = rows[n]
  BY <1>3, <1>9 DEF Intent
<1>10. CASE c.op \in {"SIMULATED", "SUBMITTED", "APPROVED", "PUBLISHED"}
  <2>1. c.op \in Moves /\ c.date = Null /\ Pointer(c) = active /\ new[k] = c.made
    BY <1>2, <1>5, <1>6, <1>10 DEF Moves, Undisturbed, Pointer, Intent
  <2>2. \A n \in Numbers \ {k} : new[n] = rows[n]
    BY <1>9, <1>10
  <2>3. c.made.from = rows[k].from
    BY <1>8, <1>10, <2>1
  <2>4. SoundRows(active, new, now)
    <3> HIDE DEF c, k, rows, new, active
    <3> QED
      BY <1>1, <1>2, <1>3, <1>6, <1>7, <1>8, <1>10, <2>1, <2>2, <2>3, SoundMove
  <2> QED
    BY <1>3, <2>1, <2>4
<1>11. CASE c.op = "ACTIVE"
  <2>1. /\ c.op \in Moves /\ Pointer(c) = k /\ new[k] = c.made
        /\ c.at \in Nat /\ c.at < now /\ \A n \in Active(rows) : rows[n].from < c.at
        /\ c.previous = Active(rows) \ {k}
    BY <1>1, <1>2, <1>5, <1>11 DEF Moves, Undisturbed, Pointer, Intent
  <2>2. rows[k].status = "PUBLISHED"
    BY <1>7, <1>11, <2>1 DEF CanMove, Transitions
  <2>3. k \notin Active(rows) /\ c.previous = Active(rows)
    BY <2>1, <2>2 DEF Active
  <2>4. rows[k].from = Null
    BY <1>2, <1>6, <2>2 DEF SoundRows, RowSound
  <2> DEFINE f == c.made.from
  <2>5. \A n \in Active(rows) : n # k /\ c.rows[n] = rows[n] /\ new[n] = Intent(c, n)
    <3>1. ASSUME NEW n \in Active(rows) PROVE c.rows[n] # Absent /\ n \in Numbers /\ n # k
      <4>1. c.rows[n].status = "ACTIVE" /\ n \in Numbers
        BY <1>2, <2>3, <3>1 DEF Remembers
      <4>2. Absent.status = "ABSENT"
        BY DEF Absent
      <4> QED
        BY <2>3, <4>1, <4>2
    <3> QED
      BY <1>3, <3>1
  <2>6. f \in Nat /\ f < now /\ \A n \in Active(rows) : rows[n].from < f
    <3>1. CASE c.date = Null
      <4>1. f = c.at
        BY <1>8, <1>11, <2>1, <2>4, <3>1
      <4> QED
        BY <2>1, <4>1
    <3>2. CASE c.date # Null
      <4>1. f = c.date /\ c.date \in Nat
        BY <1>1, <1>8, <2>1, <3>2, PolicyAssumption DEF Call
      <4>2. c.date <= c.at /\ \A m \in c.previous : c.rows[m].from < c.date
        BY <1>11, <3>2 DEF Prudent
      <4>3. f < now
        <5> HIDE DEF f
        <5> QED
          BY <1>2, <2>1, <4>1, <4>2
      <4> QED
        BY <2>3, <2>5, <4>1, <4>2, <4>3
    <3> QED
      BY <3>1, <3>2
  <2>7. \A n \in Active(rows) : new[n] = Replaced(rows[n], f)
    <3> SUFFICES ASSUME NEW n \in Active(rows) PROVE new[n] = Replaced(rows[n], f)
      OBVIOUS
    <3>1. n # c.number /\ n \in c.previous /\ c.rows[n] = rows[n] /\ new[n] = Intent(c, n)
      BY <2>3, <2>5
    <3> HIDE DEF c, k, rows, new
    <3>2. Intent(c, n) = Replaced(c.rows[n], c.made.from)
      BY <1>11, <3>1, ActivationEnds
    <3> QED
      BY <3>1, <3>2 DEF f
  <2>8. \A n \in Numbers \ ({k} \cup Active(rows)) : new[n] = rows[n]
    BY <1>9, <1>11, <2>3
  <2>9. /\ new[k].status = "ACTIVE" /\ new[k].author = rows[k].author
        /\ new[k].approver = rows[k].approver /\ new[k].from = f /\ new[k].to = rows[k].to
    BY <1>8, <1>11, <2>1
  <2>10. SoundRows(k, new, now)
    <3>1. /\ k \in Numbers /\ rows \in [Numbers -> VersionRow] /\ now \in Nat
          /\ new \in [Numbers -> VersionRow] /\ SoundRows(active, rows, now)
      BY <1>2, <1>3, <1>6
    <3> HIDE DEF c, k, rows, new, active, f
    <3> QED
      BY <2>2, <2>6, <2>7, <2>8, <2>9, <3>1, SoundActivate
  <2> QED
    BY <1>3, <2>1, <2>10
<1>12. CASE c.op = "DISABLED"
  <2>1. /\ c.op \in Moves /\ c.date = Null /\ Pointer(c) = IF active = k THEN 0 ELSE active
        /\ new[k] = [c.made EXCEPT !.to = IF active = k /\ @ = Null THEN c.at ELSE @]
        /\ c.at \in Nat /\ \A n \in Active(rows) : rows[n].from < c.at
    BY <1>1, <1>2, <1>5, <1>6, <1>12 DEF Moves, Undisturbed, Pointer, Intent
  <2>2. rows[k].status \in {"PUBLISHED", "ACTIVE"}
    BY <1>7, <1>12, <2>1 DEF CanMove, Transitions
  <2>3. rows[k].status = "ACTIVE" => rows[k].from < c.at
    BY <1>2, <2>1 DEF Active
  <2>4. /\ new[k].status = "DISABLED" /\ new[k].author = rows[k].author
        /\ new[k].approver = rows[k].approver /\ new[k].from = rows[k].from
        /\ new[k].to = IF active = k /\ rows[k].to = Null THEN c.at ELSE rows[k].to
    <3> DEFINE m == c.made
    <3>1. m \in VersionRow /\ m.status = "DISABLED" /\ m.author = rows[k].author
          /\ m.approver = rows[k].approver /\ m.from = rows[k].from /\ m.to = rows[k].to
      BY <1>2, <1>8, <1>12, <2>1
    <3>2. new[k] = [m EXCEPT !.to = IF active = k /\ m.to = Null THEN c.at ELSE m.to]
      BY <2>1
    <3> HIDE DEF m, new, rows, active, k, c
    <3> QED
      BY <3>1, <3>2 DEF VersionRow
  <2>5. \A n \in Numbers \ {k} : new[n] = rows[n]
    BY <1>9, <1>12
  <2>6. SoundRows(IF active = k THEN 0 ELSE active, new, now)
    <3> HIDE DEF c, k, rows, new, active
    <3> QED
      BY <1>2, <1>3, <1>6, <2>1, <2>2, <2>3, <2>4, <2>5, SoundDisable
  <2> QED
    BY <1>3, <2>1, <2>6
<1>13. CASE c.op = "ROLLBACK"
  <2> DEFINE m == c.last
  <2>1. /\ Pointer(c) = k /\ new[k] = c.made /\ c.at \in Nat /\ c.at < now
        /\ m # k /\ c.rows[m].status \in {"ACTIVE", "DISABLED", "ROLLED_BACK"}
    BY <1>1, <1>2, <1>5, <1>13 DEF Undisturbed, Pointer, Intent
  <2>2. c.made = Restored(rows[k], c.at) /\ rows[k].status \in {"PUBLISHED", "ACTIVE", "DISABLED"}
    BY <1>4, <1>5, <1>13 DEF Decided
  <2>3. m \in Numbers /\ m = c.seen.current
    <3>1. m \in Numbers
      BY <1>1, <1>13 DEF CallOK
    <3>2. c.seen.current <= m /\ m <= policy[p].current /\ c.seen.current \in Nat
      BY <1>1, <1>2, <1>13, PolicyAssumption DEF Remembers, Call, PolicyRow
    <3> QED
      BY <1>6, <3>1, <3>2, PolicyAssumption DEF Numbers
  <2>4. c.rows[m] = rows[m] /\ new[m] = Intent(c, m) /\ rows[m] \in VersionRow
    <3>1. c.rows[m] # Absent
      BY <2>1 DEF Absent
    <3> QED
      BY <1>2, <1>3, <2>3, <3>1
  <2>5. new[m] = IF rows[m].status = "ACTIVE" THEN Moved(rows[m], "ROLLED_BACK", c.actor, c.at)
                 ELSE rows[m]
    BY <1>13, <2>1, <2>3, <2>4 DEF Intent
  <2>6. /\ new[m].status = (IF rows[m].status = "ACTIVE" THEN "ROLLED_BACK" ELSE rows[m].status)
        /\ new[m].approver = rows[m].approver /\ new[m].from = rows[m].from
        /\ new[m].to = rows[m].to
    <3> DEFINE v == rows[m]
    <3>1. v \in VersionRow /\ new[m] = IF v.status = "ACTIVE"
                                       THEN Moved(v, "ROLLED_BACK", c.actor, c.at) ELSE v
      BY <2>4, <2>5
    <3> HIDE DEF v
    <3>2. /\ new[m].status = (IF v.status = "ACTIVE" THEN "ROLLED_BACK" ELSE v.status)
          /\ new[m].approver = v.approver /\ new[m].from = v.from /\ new[m].to = v.to
      BY <1>1, <1>2, <3>1, RolledFields
    <3> QED
      BY <3>2 DEF v
  <2>7. /\ new[k].status = "ACTIVE" /\ new[k].approver = rows[k].approver
        /\ new[k].from = c.at /\ new[k].to = Null
    <3> DEFINE v == rows[k]
               at == c.at
    <3>1. v \in VersionRow /\ at \in Times /\ new[k] = Restored(v, at)
      BY <1>2, <1>5, <2>1, <2>2
    <3> HIDE DEF v, at
    <3>2. /\ new[k].status = "ACTIVE" /\ new[k].approver = v.approver
          /\ new[k].from = at /\ new[k].to = Null
      BY <3>1, RestoredFields
    <3> QED
      BY <3>2 DEF v, at
  <2>8. \A n \in Numbers \ {k, m} : new[n] = rows[n]
    BY <1>9, <1>13
  <2>9. \A n \in Active(new) : n = k
    <3>1. UniqueActive' /\ p \in Policies
      BY <1>1, <1>13, UpdateEffect DEF OrderInv, DenseInv, Call
    <3>2. k \in Active(new)
      BY <1>2, <2>7 DEF Active
    <3> QED
      BY <3>1, <3>2 DEF UniqueActive, Active
  <2>10. SoundRows(k, new, now)
    <3> HIDE DEF c, k, rows, new, active, m
    <3> QED
      BY <1>2, <1>3, <1>6, <2>1, <2>2, <2>3, <2>4, <2>6, <2>7, <2>8, <2>9, SoundRollback
  <2> QED
    BY <1>3, <2>1, <2>10
<1> QED
  BY <1>1, <1>10, <1>11, <1>12, <1>13 DEF Moves

\* A read leaves an orderly request knowing what the tables hold.
LEMMA ReceiveUndisturbed ==
  ASSUME OrderInv, NEW w \in Workers,
         NEW op \in Operations, NEW p \in Policies, NEW n \in Numbers, NEW a \in Actors,
         NEW date \in Dates \cup {Null}, NEW wt \in Weights \cup {Null},
         Receive(w, op, p, n, a, date, wt)
  PROVE  \E d \in Call : /\ call' = [call EXCEPT ![w] = d]
                         /\ Undisturbed(d, policy[d.policy], version[d.policy], now')
<1> DEFINE d == Received(op, p, n, a, date, wt)
<1>1. /\ d \in Call /\ call' = [call EXCEPT ![w] = d]
      /\ d.op = op /\ d.policy = p /\ d.seen = policy[p]
      /\ d.phase = (IF op = "CREATED" THEN "commit" ELSE "named")
      /\ d.rows = Nothing /\ d.date = date
      /\ d.orderly = (Exists(p) /\ Sound(p))
      /\ op = "CREATED" <=> ~Exists(p)
      /\ op # "ACTIVE" => date = Null
  BY ReceivedFields DEF OrderInv, DenseInv
<1>2. now' = now
  BY DEF Receive
<1> HIDE DEF d
<1>3. \A m \in Numbers : d.rows[m] = Absent
  BY <1>1 DEF Nothing
<1>4. ASSUME d.orderly
      PROVE  d.op # "CREATED" /\ SoundRows(policy[p].active, version[p], now) /\ d.phase = "named"
  BY <1>1, <1>4, SoundIs
<1>5. Undisturbed(d, policy[p], version[p], now)
  BY <1>1, <1>3, <1>4 DEF Undisturbed
<1> QED
  BY <1>1, <1>2, <1>5

LEMMA NamedUndisturbed ==
  ASSUME OrderInv, NEW w \in Workers, ReadNamed(w)
  PROVE  \E d \in Call : /\ call' = [call EXCEPT ![w] = d]
                         /\ Undisturbed(d, policy[d.policy], version[d.policy], now')
<1> DEFINE c == call[w]
           p == c.policy
<1>1. /\ Undisturbed(c, policy[p], version[p], now) /\ c.rows \in [Numbers -> VersionRow]
      /\ c \in Call
  BY DEF OrderInv, DenseInv, TypeInv, TypeOK, Call
<1>2. now' = now
  BY DEF ReadNamed
<1>3. PICK d \in Call :
         /\ call' = [call EXCEPT ![w] = d] /\ SameRequest(d, c)
         /\ d.rows = [c.rows EXCEPT ![c.number] = version[p][c.number]]
         /\ d.phase \in {"current", "clock", "history"}
         /\ (d.op = "ROLLBACK") <=> (d.phase = "current")
         /\ (d.op \in {"ACTIVE", "DISABLED"}) <=> (d.phase = "clock")
  BY NamedFields DEF OrderInv, DenseInv
<1>4. \A n \in Numbers : d.rows[n] = version[p][n] \/ d.rows[n] = c.rows[n]
  BY <1>1, <1>3
<1>5. Undisturbed(d, policy[p], version[p], now) /\ d.policy = p
  <2>1. /\ d.op = c.op /\ d.date = c.date /\ d.seen = c.seen /\ d.orderly = c.orderly
        /\ d.policy = p
    BY <1>3 DEF SameRequest
  <2>2. ~(d.phase \in {"history", "previous", "commit"} /\ d.op \in {"ACTIVE", "DISABLED", "ROLLBACK"})
        /\ d.phase # "commit"
    BY <1>3
  <2> HIDE DEF c, p
  <2> QED
    BY <1>1, <1>4, <2>1, <2>2 DEF Undisturbed
<1>6. call' = [call EXCEPT ![w] = d]
  BY <1>3
<1> QED
  BY <1>2, <1>5, <1>6

LEMMA CurrentUndisturbed ==
  ASSUME OrderInv, NEW w \in Workers, ReadCurrent(w)
  PROVE  \E d \in Call : /\ call' = [call EXCEPT ![w] = d]
                         /\ Undisturbed(d, policy[d.policy], version[d.policy], now')
<1> DEFINE c == call[w]
           p == c.policy
<1>1. /\ Undisturbed(c, policy[p], version[p], now) /\ c.rows \in [Numbers -> VersionRow]
      /\ c \in Call
  BY DEF OrderInv, DenseInv, TypeInv, TypeOK, Call
<1>2. now' = now
  BY DEF ReadCurrent
<1>3. PICK d \in Call :
         /\ call' = [call EXCEPT ![w] = d] /\ SameRequest(d, c)
         /\ d.rows = [c.rows EXCEPT ![c.seen.current] = Held(c, c.seen.current)]
         /\ d.phase = "clock"
  BY CurrentFields DEF OrderInv, DenseInv
<1>4. \A n \in Numbers : d.rows[n] = version[p][n] \/ d.rows[n] = c.rows[n]
  BY <1>1, <1>3 DEF Held
<1>5. Undisturbed(d, policy[p], version[p], now) /\ d.policy = p
  BY <1>1, <1>3, <1>4 DEF Undisturbed, SameRequest
<1>6. call' = [call EXCEPT ![w] = d]
  BY <1>3
<1> QED
  BY <1>2, <1>5, <1>6

LEMMA ClockUndisturbed ==
  ASSUME OrderInv, NEW w \in Workers, ReadClock(w)
  PROVE  \E d \in Call : /\ call' = [call EXCEPT ![w] = d]
                         /\ Undisturbed(d, policy[d.policy], version[d.policy], now')
<1> DEFINE c == call[w]
           p == c.policy
<1>1. /\ Undisturbed(c, policy[p], version[p], now) /\ version[p] \in [Numbers -> VersionRow]
      /\ c \in Call /\ now \in Nat
  BY DEF OrderInv, DenseInv, TypeInv, TypeOK, Call
<1>2. now' = now + 1
  BY DEF ReadClock
<1>3. PICK d \in Call :
         /\ call' = [call EXCEPT ![w] = d] /\ SameRequest(d, c)
         /\ d.phase = "history" /\ d.at = now /\ d.rows = c.rows
  BY ClockFields DEF OrderInv, DenseInv
<1>4. ASSUME c.orderly
      PROVE  /\ SoundRows(policy[p].active, version[p], now')
             /\ \A n \in Active(version[p]) : version[p][n].from < now
  <2>1. SoundRows(policy[p].active, version[p], now)
    BY <1>1, <1>4 DEF Undisturbed
  <2>2. SoundRows(policy[p].active, version[p], now')
    BY <1>1, <1>2, <2>1, SoundLater
  <2> QED
    BY <2>1, <2>2 DEF SoundRows, RowSound, Active
<1>5. d.at \in Nat /\ d.at < now'
  BY <1>1, <1>2, <1>3
<1>6. Undisturbed(d, policy[p], version[p], now') /\ d.policy = p
  BY <1>1, <1>3, <1>4, <1>5 DEF Undisturbed, SameRequest
<1>7. call' = [call EXCEPT ![w] = d]
  BY <1>3
<1> QED
  BY <1>6, <1>7

LEMMA HistoryUndisturbed ==
  ASSUME OrderInv, NEW w \in Workers, ReadHistory(w)
  PROVE  \E d \in Call : /\ call' = [call EXCEPT ![w] = d]
                         /\ Undisturbed(d, policy[d.policy], version[d.policy], now')
<1> DEFINE c == call[w]
           p == c.policy
           rows == History(c)
<1>1. /\ Undisturbed(c, policy[p], version[p], now) /\ c \in Call /\ CallOK(c)
      /\ Remembers(c, policy[p], version[p]) /\ policy[p] \in PolicyRow
  BY DEF OrderInv, DenseInv, TypeInv, TypeOK, Call
<1>2. now' = now /\ c.phase = "history"
  BY DEF ReadHistory, Reads
<1>3. PICK last \in Numbers, d \in Call :
         /\ call' = [call EXCEPT ![w] = d] /\ SameRequest(d, c)
         /\ IsLatest(rows, last) /\ Accepts(c, rows, last)
         /\ d.rows = [n \in Numbers |-> IF n \in Kept(c) THEN rows[n] ELSE Absent]
         /\ d.last = last
         /\ d.phase = (IF d.op = "ACTIVE" THEN "previous" ELSE "commit")
         /\ d.at = c.at
  BY HistoryFields DEF OrderInv, DenseInv
<1>4. ASSUME c.orderly
      PROVE  \A n \in Numbers : d.rows[n] = Absent \/ d.rows[n] = version[p][n]
  <2>1. \A n \in Numbers : rows[n] = version[p][n]
    BY <1>1, <1>4 DEF Undisturbed, History, Held
  <2> QED
    BY <1>3, <2>1
<1>5. ASSUME c.orderly, c.op = "ROLLBACK"
      PROVE  last # c.number /\ d.rows[last].status \in {"ACTIVE", "DISABLED", "ROLLED_BACK"}
  <2>1. last = policy[p].current
    BY <1>3, LatestIsCurrent DEF OrderInv
  <2>2. c.seen = policy[p]
    BY <1>1, <1>5 DEF Undisturbed
  <2>3. last \in Kept(c)
    BY <1>5, <2>1, <2>2 DEF Kept
  <2>4. d.rows[last] = rows[last]
    BY <1>3, <2>3
  <2> QED
    BY <1>3, <1>5, <2>4 DEF Accepts, CanRollback
<1>6. /\ d.policy = p /\ d.number = c.number /\ d.op = c.op /\ d.seen = c.seen
      /\ d.date = c.date /\ d.orderly = c.orderly
  BY <1>3 DEF SameRequest
<1>7. Undisturbed(d, policy[p], version[p], now)
  <2> SUFFICES ASSUME d.orderly PROVE Undisturbed(d, policy[p], version[p], now)
    BY DEF Undisturbed
  <2>1. d.phase = "commit" => d.op # "ACTIVE"
    BY <1>3
  <2>2. /\ c.op # "CREATED" /\ (c.op # "ACTIVE" => c.date = Null)
        /\ SoundRows(policy[p].active, version[p], now) /\ c.seen = policy[p]
        /\ c.op \in {"ACTIVE", "DISABLED", "ROLLBACK"} =>
              /\ c.at \in Nat /\ c.at < now
              /\ \A n \in Active(version[p]) : version[p][n].from < c.at
    BY <1>1, <1>2, <1>6 DEF Undisturbed
  <2>3. \A n \in Numbers : d.rows[n] = Absent \/ d.rows[n] = version[p][n]
    BY <1>4, <1>6
  <2>4. d.op = "ROLLBACK" =>
           d.last # d.number /\ d.rows[d.last].status \in {"ACTIVE", "DISABLED", "ROLLED_BACK"}
    BY <1>3, <1>5, <1>6
  <2>5. d.at = c.at
    BY <1>3
  <2> HIDE DEF c, p, rows
  <2> QED
    BY <1>6, <2>1, <2>2, <2>3, <2>4, <2>5 DEF Undisturbed
<1>8. call' = [call EXCEPT ![w] = d]
  BY <1>3
<1> QED
  BY <1>2, <1>6, <1>7, <1>8

LEMMA PreviousUndisturbed ==
  ASSUME OrderInv, NEW w \in Workers, ReadPrevious(w)
  PROVE  \E d \in Call : /\ call' = [call EXCEPT ![w] = d]
                         /\ Undisturbed(d, policy[d.policy], version[d.policy], now')
<1> DEFINE c == call[w]
           p == c.policy
           previous == Active(version[p]) \ {c.number}
<1>1. /\ Undisturbed(c, policy[p], version[p], now) /\ c \in Call /\ CallOK(c)
  BY DEF OrderInv, DenseInv, TypeInv, TypeOK, Call
<1>2. now' = now /\ c.phase = "previous" /\ c.op = "ACTIVE"
  BY <1>1 DEF ReadPrevious, Reads, CallOK
<1>3. PICK d \in Call :
         /\ call' = [call EXCEPT ![w] = d] /\ SameRequest(d, c)
         /\ d.rows = [n \in Numbers |-> IF n \in previous THEN version[p][n] ELSE c.rows[n]]
         /\ d.previous = previous /\ d.phase = "commit" /\ d.at = c.at
  BY PreviousFields DEF OrderInv, DenseInv
<1>4. \A n \in Numbers : d.rows[n] = version[p][n] \/ d.rows[n] = c.rows[n]
  BY <1>3
<1>5. Undisturbed(d, policy[p], version[p], now) /\ d.policy = p
  BY <1>1, <1>2, <1>3, <1>4 DEF Undisturbed, SameRequest
<1>6. call' = [call EXCEPT ![w] = d]
  BY <1>3
<1> QED
  BY <1>2, <1>5, <1>6

LEMMA QuietUndisturbed ==
  ASSUME OrderInv, NEW w \in Workers, Quiet(w)
  PROVE  \E d \in Call : /\ call' = [call EXCEPT ![w] = d]
                         /\ Undisturbed(d, policy[d.policy], version[d.policy], now')
<1>1. CASE Fail(w)
  <2>1. call' = [call EXCEPT ![w] = Idle]
    BY <1>1 DEF Fail
  <2> QED
    BY <2>1, IdleType, IdleUndisturbed
<1> QED
  BY <1>1, ReceiveUndisturbed, NamedUndisturbed, CurrentUndisturbed, ClockUndisturbed,
     HistoryUndisturbed, PreviousUndisturbed DEF Quiet

\* A commit on one policy leaves the requests on the others undisturbed.
LEMMA CommitUndisturbed ==
  ASSUME OrderInv, NEW w \in Workers, Ended(w), now' = now,
         \A q \in Policies \ {call[w].policy} : policy'[q] = policy[q] /\ version'[q] = version[q]
  PROVE  \A x \in Workers :
            Undisturbed(call'[x], policy'[call'[x].policy], version'[call'[x].policy], now)
<1>1. call'[w] = Idle
  BY EndedCalls DEF OrderInv, DenseInv
<1>2. ASSUME NEW x \in Workers, x # w
      PROVE  Undisturbed(call'[x], policy'[call'[x].policy], version'[call'[x].policy], now)
  <2> DEFINE c == call[x]
             p == c.policy
  <2>1. c \in Call /\ p \in Policies /\ Undisturbed(c, policy[p], version[p], now)
    BY DEF OrderInv, DenseInv, TypeInv, TypeOK, Call
  <2>2. \/ call'[x] = c /\ p # call[w].policy
        \/ call'[x] = [c EXCEPT !.orderly = FALSE]
    BY <1>2, EndedCalls DEF OrderInv, DenseInv
  <2>3. CASE call'[x] = c /\ p # call[w].policy
    <3>1. policy'[p] = policy[p] /\ version'[p] = version[p]
      BY <2>1, <2>3
    <3> QED
      BY <2>1, <2>3, <3>1
  <2>4. CASE call'[x] = [c EXCEPT !.orderly = FALSE]
    <3>1. ~call'[x].orderly
      BY <2>1, <2>4, Disordered
    <3> QED
      BY <3>1 DEF Undisturbed
  <2> QED
    BY <2>2, <2>3, <2>4
<1> QED
  BY <1>1, <1>2, IdleUndisturbed

LEMMA OrderInit == Init => OrderInv
<1> SUFFICES ASSUME Init PROVE OrderInv
  OBVIOUS
<1>1. DenseInv /\ \A x \in Workers : call[x] = Idle
  BY DenseInit DEF Init
<1> QED
  BY <1>1, IdleUndisturbed DEF OrderInv

\* A commit changes the tables of one policy.
LEMMA OthersKept ==
  ASSUME DenseInv, NEW w \in Workers, CreatePolicy(w) \/ CreateVersion(w) \/ Update(w)
  PROVE  /\ Ended(w) /\ now' = now
         /\ \A q \in Policies \ {call[w].policy} : policy'[q] = policy[q] /\ version'[q] = version[q]
<1>1. /\ policy \in [Policies -> PolicyRow] /\ version \in [Policies -> [Numbers -> VersionRow]]
      /\ TypeInv
  BY DEF DenseInv, TypeInv, TypeOK
<1>2. CASE CreatePolicy(w)
  BY <1>1, <1>2, CreatePolicyType
<1>3. CASE CreateVersion(w)
  <2> DEFINE c == call[w]
             n0 == c.last + 1
             row == Merge(policy[c.policy], c.seen, [c.seen EXCEPT !.current = n0])
  <2>1. /\ Ended(w) /\ now' = now
        /\ version' = [version EXCEPT ![c.policy][n0] = c.made]
        /\ policy' = [policy EXCEPT ![c.policy] = row]
    BY <1>1, <1>3, CreateVersionType
  <2> HIDE DEF n0, row
  <2> QED
    BY <1>1, <2>1
<1>4. CASE Update(w)
  BY <1>1, <1>4, UpdateKeepsRows, UpdateEffect
<1> QED
  BY <1>2, <1>3, <1>4

LEMMA OrderPreserved == OrderInv /\ [Next]_vars => OrderInv'
<1> SUFFICES ASSUME OrderInv, [Next]_vars PROVE OrderInv'
  OBVIOUS
<1>1. DenseInv'
  BY DensePreserved DEF OrderInv
<1>2. CASE UNCHANGED vars
  BY <1>1, <1>2 DEF OrderInv, vars
<1>3. ASSUME NEW w \in Workers, Quiet(w) PROVE OrderInv'
  <2>1. policy' = policy /\ version' = version /\ now \in Nat /\ now' \in Nat /\ now <= now'
    BY <1>3, QuietTables, QuietClock DEF OrderInv, DenseInv, TypeInv, TypeOK
  <2>2. PICK d \in Call : /\ call' = [call EXCEPT ![w] = d]
                          /\ Undisturbed(d, policy[d.policy], version[d.policy], now')
    BY <1>3, QuietUndisturbed
  <2>3. call'[w] = d /\ \A x \in Workers \ {w} : call'[x] = call[x]
    BY <2>2 DEF OrderInv, DenseInv, TypeInv, TypeOK
  <2>4. ASSUME NEW x \in Workers, x # w
        PROVE  Undisturbed(call[x], policy[call[x].policy], version[call[x].policy], now')
    <3>1. /\ call[x] \in Call /\ version[call[x].policy] \in [Numbers -> VersionRow]
          /\ Undisturbed(call[x], policy[call[x].policy], version[call[x].policy], now)
      BY DEF OrderInv, DenseInv, TypeInv, TypeOK, Call
    <3> QED
      BY <2>1, <3>1, UndisturbedLater
  <2> QED
    BY <1>1, <2>1, <2>2, <2>3, <2>4 DEF OrderInv
<1>4. ASSUME NEW w \in Workers, CreatePolicy(w) \/ CreateVersion(w) \/ Update(w) PROVE OrderInv'
  <2>1. /\ Ended(w) /\ now' = now
        /\ \A q \in Policies \ {call[w].policy} : policy'[q] = policy[q] /\ version'[q] = version[q]
    BY <1>4, OthersKept DEF OrderInv
  <2>2. \A x \in Workers :
            Undisturbed(call'[x], policy'[call'[x].policy], version'[call'[x].policy], now)
    BY <2>1, CommitUndisturbed
  <2> QED
    BY <1>1, <2>1, <2>2 DEF OrderInv
<1> QED
  BY <1>2, <1>3, <1>4, NextSplit DEF Next

LEMMA CreateVersionKeepsSound ==
  ASSUME OrderInv, NEW w \in Workers, CreateVersion(w), call[w].orderly
  PROVE  SoundRows(policy'[call[w].policy].active, version'[call[w].policy], now)
<1> DEFINE c == call[w]
           p == c.policy
           n0 == c.last + 1
           head == [c.seen EXCEPT !.current = n0]
<1>1. /\ c \in Call /\ n0 \in Numbers /\ c.phase = "commit" /\ c.op = "VERSION_CREATED"
      /\ version[p][n0] = Absent /\ version' = [version EXCEPT ![p][n0] = c.made]
      /\ head \in PolicyRow
      /\ policy' = [policy EXCEPT ![p] = Merge(policy[p], c.seen, head)]
  BY CreateVersionType DEF OrderInv, DenseInv
<1>2. /\ policy \in [Policies -> PolicyRow] /\ version \in [Policies -> [Numbers -> VersionRow]]
      /\ p \in Policies /\ c.made \in VersionRow /\ c.seen \in PolicyRow
      /\ Remembers(c, policy[p], version[p]) /\ Undisturbed(c, policy[p], version[p], now)
  BY <1>1 DEF OrderInv, DenseInv, TypeInv, TypeOK, Call
<1>3. c.made = Draft(c.actor, c.weights) /\ c.seen = policy[p]
      /\ SoundRows(policy[p].active, version[p], now)
  BY <1>1, <1>2 DEF Remembers, Decided, Undisturbed
<1>4. policy'[p].active = policy[p].active
  <2>1. head.active = c.seen.active
    BY <1>2 DEF PolicyRow
  <2>2. policy'[p] = Merge(policy[p], c.seen, head) /\ policy[p] \in PolicyRow
    BY <1>1, <1>2
  <2> HIDE DEF head, c, p
  <2> QED
    BY <1>1, <1>2, <2>1, <2>2, MergedPolicy
<1>5. /\ version'[p] \in [Numbers -> VersionRow] /\ version'[p][n0] = c.made
      /\ \A n \in Numbers \ {n0} : version'[p][n] = version[p][n]
  BY <1>1, <1>2
<1>6. SoundRows(policy[p].active, version'[p], now)
  <2>1. version[p] \in [Numbers -> VersionRow]
    BY <1>2
  <2> HIDE DEF c, p, n0
  <2> QED
    BY <1>1, <1>3, <1>5, <2>1, SoundDraft
<1> QED
  BY <1>4, <1>6

LEMMA StepKeepsSound ==
  ASSUME OrderInv, [Next]_vars, NEW w \in Workers, NEW p \in Policies,
         call[w].phase = "commit", call[w].policy = p, call[w].orderly, Prudent(call[w]),
         call'[w] = Idle
  PROVE  Sound(p)'
<1> DEFINE c == call[w]
<1>1. /\ TypeInv /\ call \in [Workers -> Call] /\ c \in Call /\ version[p] \in [Numbers -> VersionRow]
      /\ now \in Nat /\ Undisturbed(c, policy[p], version[p], now)
  BY DEF OrderInv, DenseInv, TypeInv, TypeOK
<1>2. SoundRows(policy[p].active, version[p], now) /\ c.op # "CREATED"
  BY <1>1 DEF Undisturbed
<1>3. Idle.phase = "idle"
  BY DEF Idle
<1>4. CASE UNCHANGED vars
  BY <1>3, <1>4 DEF vars
<1>5. ASSUME NEW x \in Workers, Quiet(x) PROVE Sound(p)'
  <2>1. policy' = policy /\ version' = version /\ now' \in Nat /\ now <= now'
    BY <1>1, <1>5, QuietTables, QuietClock
  <2>2. SoundRows(policy[p].active, version[p], now')
    BY <1>1, <1>2, <2>1, SoundLater
  <2> QED
    BY <2>1, <2>2, SoundIs
<1>6. ASSUME NEW x \in Workers, CreatePolicy(x) \/ CreateVersion(x) \/ Update(x) PROVE Sound(p)'
  <2>1. Ended(x) /\ now' = now
    BY <1>6, OthersKept DEF OrderInv
  <2>2. x = w
    <3> SUFFICES ASSUME x # w PROVE FALSE
      OBVIOUS
    <3>1. call'[w] = c \/ call'[w] = [c EXCEPT !.orderly = FALSE]
      BY <1>1, <2>1, EndedCalls
    <3>2. call'[w].phase = "commit"
      BY <1>1, <3>1, Disordered
    <3> QED
      BY <1>3, <3>2
  <2>3. ~CreatePolicy(x)
    BY <1>1, <1>2, <2>2, CreatePolicyType
  <2>4. SoundRows(policy'[p].active, version'[p], now)
    BY <1>6, <2>2, <2>3, CreateVersionKeepsSound, UpdateKeepsSound
  <2> QED
    BY <2>1, <2>4, SoundIs
<1> QED
  BY <1>4, <1>5, <1>6, NextSplit DEF Next

\* A prudent request that found a sound history, and that no other commit on its policy
\* overlapped, leaves a sound one, whatever happened before and whatever goes on elsewhere.
THEOREM UndisturbedStaysSound == Spec => UndisturbedKeepsSound
<1>1. OrderInv /\ [Next]_vars =>
        \A w \in Workers, p \in Policies :
          /\ call[w].phase = "commit" /\ call[w].policy = p /\ call[w].orderly
          /\ Prudent(call[w])
          /\ call'[w] = Idle
          => Sound(p)'
  BY StepKeepsSound
<1> QED
  BY <1>1, OrderInit, OrderPreserved, PTL DEF Spec, UndisturbedKeepsSound
=============================================================================
