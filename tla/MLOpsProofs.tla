----------------------------- MODULE MLOpsProofs -----------------------------
(***************************************************************************)
(* The governance of models, for any number of versions, persons and       *)
(* overlapping requests: scoring always has one model, and it was          *)
(* validated, submitted, approved and promoted by the right persons.       *)
(*                                                                         *)
(* Requests overwrite each other's rows, so nothing can be said of a row   *)
(* but what the audit log, which only grows, confirms; that much holds of  *)
(* the rows a request saw as well, whatever happened since.  A release     *)
(* during which nobody commits knows more: that both tables agree on the   *)
(* champion afterwards.                                                    *)
(***************************************************************************)
EXTENDS MLOpsGovernance, TLAPS

Logged(log, action, v) == \E e \in log : e.action = action /\ e.run = v
LoggedBy(log, action, a, v) == \E e \in log : e.action = action /\ e.run = v /\ e.by = a

\* What the log confirms of a row of v.
RowEarned(log, v, row) ==
    /\ row.valid => Logged(log, "LINEAGE_VALIDATED", v)
    /\ row.status \in {"SUBMITTED", "APPROVED", "CHAMPION", "RETIRED"} =>
          Logged(log, "LINEAGE_VALIDATED", v) /\ Logged(log, "SUBMITTED", v)
    /\ row.status \in {"CHAMPION", "RETIRED"} => Logged(log, "PROMOTED", v)
    /\ row.approvedBy # Nobody => LoggedBy(log, "APPROVED", row.approvedBy, v)

\* A row that is seen was registered, by the author who will remain its author.
RowKnown(rows, v, row) == row.status # "ABSENT" =>
    rows[v].status # "ABSENT" /\ row.author = rows[v].author

\* What a request decided follows from the rows it saw.
Sound(r) == r.does # "NOTHING" =>
    /\ r.by \in Actors
    /\ r.run \in Versions
    /\ r.seen[r.run].status # "ABSENT"
    /\ r.does = "SUBMITTED" => r.seen[r.run].valid
    /\ r.does = "APPROVED" => r.seen[r.run].status = "SUBMITTED" /\ r.by # r.seen[r.run].author
    /\ r.does = "PROMOTED" => /\ r.seen[r.run].status = "APPROVED"
                              /\ r.seen[r.run].approvedBy \notin {Nobody, r.by}
    /\ r.does = "RETIRED" => r.seen[r.run].status = "CHAMPION"
    /\ r.does = "ROLLED_BACK" => r.seen[r.run].status = "RETIRED" /\ r.replaces \in Versions
    /\ r.does \notin {"PROMOTED", "ROLLED_BACK"} => r.replaces \notin Versions
    /\ r.replaces \in Versions => r.replaces # r.run /\ r.seen[r.replaces].status = "CHAMPION"

EventEarned(log, rows, e) ==
    /\ rows[e.run].status # "ABSENT"
    /\ e.action = "REGISTERED" => e.by = rows[e.run].author
    /\ e.action = "APPROVED" => e.by # rows[e.run].author
    /\ e.action = "PROMOTED" =>
          /\ Logged(log, "LINEAGE_VALIDATED", e.run) /\ Logged(log, "SUBMITTED", e.run)
          /\ \E b \in Actors : b # e.by /\ LoggedBy(log, "APPROVED", b, e.run)

RequestOK(log, rows, r) ==
    /\ Sound(r)
    /\ \A v \in Versions : RowEarned(log, v, r.seen[v]) /\ RowKnown(rows, v, r.seen[v])

RequestsOK == \A w \in Workers : RequestOK(audits, runs, request[w])
RunsOK == \A v \in Versions : RowEarned(audits, v, runs[v])
AuditsOK == \A e \in audits : EventEarned(audits, runs, e)
RegistryOK == \A v \in Versions :
    /\ runs[v].status = "ABSENT" => registry[v] = "ABSENT"
    /\ registry[v] = "CHAMPION" => Logged(audits, "PROMOTED", v)

GInv == TypeOK /\ RequestsOK /\ RunsOK /\ AuditsOK /\ RegistryOK /\ OneServed

\* What every step keeps of the runs.
AuthorsKept(rows, next) == \A v \in Versions : rows[v].status # "ABSENT" =>
    next[v].status # "ABSENT" /\ next[v].author = rows[v].author

-----------------------------------------------------------------------------
(* Rows and the log that confirms them *)

LEMMA LogGrows ==
    ASSUME NEW log, NEW more, log \subseteq more, NEW v, NEW row, RowEarned(log, v, row)
    PROVE  RowEarned(more, v, row)
  BY DEF RowEarned, Logged, LoggedBy

LEMMA EventsStayEarned ==
    ASSUME NEW log, NEW more, log \subseteq more, NEW rows, NEW next, AuthorsKept(rows, next),
           NEW e, e.run \in Versions, EventEarned(log, rows, e)
    PROVE  EventEarned(more, next, e)
  <1>1. rows[e.run].status # "ABSENT" => next[e.run].status # "ABSENT" /\ next[e.run].author = rows[e.run].author
    BY DEF AuthorsKept
  <1> QED
    BY <1>1 DEF EventEarned, Logged, LoggedBy

\* A save mixes the columns of two rows of the same author.
LEMMA SavedRow ==
    ASSUME NEW now \in Run, NEW seen \in Run, NEW new \in Run, new.author = now.author,
           new.status # "ABSENT", now.status # "ABSENT", NEW row \in Saved(now, seen, new)
    PROVE  /\ row \in Run /\ row.author = now.author /\ row.status # "ABSENT"
           /\ row.status \in {now.status, new.status} /\ row.valid \in {now.valid, new.valid}
           /\ row.approvedBy \in {now.approvedBy, new.approvedBy}
  <1>1. CASE row = new
    BY <1>1
  <1>2. CASE row = [now EXCEPT !.status = Column(@, seen.status, new.status),
                               !.approvedBy = Column(@, seen.approvedBy, new.approvedBy),
                               !.valid = Column(@, seen.valid, new.valid)]
    <2>1. row \in Run
      BY <1>2 DEF Run, Column
    <2>2. /\ row.author = now.author /\ row.status = Column(now.status, seen.status, new.status)
          /\ row.approvedBy = Column(now.approvedBy, seen.approvedBy, new.approvedBy)
          /\ row.valid = Column(now.valid, seen.valid, new.valid)
      BY <1>2 DEF Run
    <2> QED
      BY <2>1, <2>2 DEF Column
  <1> QED
    BY <1>1, <1>2 DEF Saved

LEMMA MixedRowEarned ==
    ASSUME NEW log, NEW v, NEW a, NEW b, NEW row, RowEarned(log, v, a), RowEarned(log, v, b),
           row.status \in {a.status, b.status}, row.valid \in {a.valid, b.valid},
           row.approvedBy \in {a.approvedBy, b.approvedBy}
    PROVE  RowEarned(log, v, row)
  BY DEF RowEarned

LEMMA RunAfterEarned ==
    ASSUME NEW r \in Request, Sound(r), r.does # "NOTHING", NEW log, NEW more, log \subseteq more,
           RowEarned(log, r.run, r.seen[r.run]), r.does # "ROLLED_BACK" => Performed(r) \in more
    PROVE  LET row == RunAfter(r, r.seen[r.run])
           IN  /\ row \in Run /\ row.author = r.seen[r.run].author /\ row.status # "ABSENT"
               /\ RowEarned(more, r.run, row)
  <1> DEFINE s == r.seen[r.run]
             row == RunAfter(r, s)
  <1>1. s \in Run /\ r.by \in Actors /\ r.does \in Transition /\ s.status \in RunStatus
    BY DEF Sound, Request, Run
  <1>2. /\ row.status = StatusAfter(r.does, s.status) /\ row.author = s.author
        /\ row.valid = (s.valid \/ r.does = "LINEAGE_VALIDATED")
        /\ row.approvedBy = IF r.does = "APPROVED" THEN r.by ELSE s.approvedBy
    BY <1>1 DEF RunAfter, Run
  <1>3. StatusAfter(r.does, s.status) \in RunStatus
    BY <1>1 DEF StatusAfter, RunStatus, Transition
  <1>4. row \in Run
    BY <1>1, <1>3 DEF RunAfter, Run
  <1>5. RowEarned(more, r.run, s)
    BY LogGrows
  <1>6. r.does # "ROLLED_BACK" => LoggedBy(more, r.does, r.by, r.run)
    BY DEF Performed, Event, LoggedBy
  <1>7. row.valid => Logged(more, "LINEAGE_VALIDATED", r.run)
    BY <1>2, <1>5, <1>6 DEF RowEarned, Logged, LoggedBy
  <1>8. row.status \in {"SUBMITTED", "APPROVED", "CHAMPION", "RETIRED"} =>
            Logged(more, "LINEAGE_VALIDATED", r.run) /\ Logged(more, "SUBMITTED", r.run)
    BY <1>1, <1>2, <1>5, <1>6 DEF RowEarned, Logged, LoggedBy, StatusAfter, Sound, Transition
  <1>9. row.status \in {"CHAMPION", "RETIRED"} => Logged(more, "PROMOTED", r.run)
    BY <1>1, <1>2, <1>5, <1>6 DEF RowEarned, Logged, LoggedBy, StatusAfter, Sound, Transition
  <1>10. row.approvedBy # Nobody => LoggedBy(more, "APPROVED", row.approvedBy, r.run)
    BY <1>2, <1>5, <1>6 DEF RowEarned
  <1>11. row.status # "ABSENT"
    BY <1>2, <1>3 DEF RunStatus
  <1> QED
    BY <1>2, <1>4, <1>7, <1>8, <1>9, <1>10, <1>11 DEF RowEarned

-----------------------------------------------------------------------------
(* The two halves of a step: the runs, and the requests that saw them *)

\* What a commit writes into the runs is confirmed, and leaves every author alone.
LEMMA SaveStep ==
    ASSUME GInv, NEW w \in Workers, request[w].does # "NOTHING", audits \subseteq audits',
           request[w].does # "ROLLED_BACK" => Performed(request[w]) \in audits',
           NEW replaced, request[w].replaces \in Versions => replaced = Replaced(request[w]),
           SaveRuns(request[w], replaced)
    PROVE  /\ runs' \in [Versions -> Run] /\ AuthorsKept(runs, runs') /\ RunsOK'
           /\ \A v \in Versions : runs[v].status = "ABSENT" => runs'[v].status = "ABSENT"
  <1> DEFINE r == request[w]
  <1>1. /\ r \in Request /\ runs \in [Versions -> Run] /\ Sound(r) /\ r.run \in Versions
        /\ \A v \in Versions : /\ RowEarned(audits, v, r.seen[v]) /\ RowKnown(runs, v, r.seen[v])
                               /\ RowEarned(audits', v, runs[v])
    BY LogGrows DEF GInv, TypeOK, RequestsOK, RequestOK, RunsOK, Sound
  <1>2. r.seen \in [Versions -> Run]
    BY <1>1 DEF Request
  <1>3. PICK row \in Saved(runs[r.run], r.seen[r.run], RunAfter(r, r.seen[r.run])), old \in replaced :
            runs' = [v \in Versions |-> CASE v = r.run -> row
                                          [] v = r.replaces -> old
                                          [] OTHER -> runs[v]]
    BY DEF SaveRuns
  <1> DEFINE Good(v, x) == /\ x \in Run /\ x.author = runs[v].author /\ x.status # "ABSENT"
                           /\ runs[v].status # "ABSENT" /\ RowEarned(audits', v, x)
  <1>4. Good(r.run, row)
    <2> DEFINE new == RunAfter(r, r.seen[r.run])
    <2>1. /\ new \in Run /\ new.author = r.seen[r.run].author /\ new.status # "ABSENT"
          /\ RowEarned(audits', r.run, new)
      BY <1>1, RunAfterEarned
    <2>2. runs[r.run].status # "ABSENT" /\ runs[r.run].author = r.seen[r.run].author
      BY <1>1 DEF Sound, RowKnown
    <2>3. runs[r.run] \in Run /\ r.seen[r.run] \in Run /\ RowEarned(audits', r.run, runs[r.run])
      BY <1>1, <1>2
    <2> HIDE DEF new
    <2>4. /\ row \in Run /\ row.author = runs[r.run].author /\ row.status # "ABSENT"
          /\ row.status \in {runs[r.run].status, new.status}
          /\ row.valid \in {runs[r.run].valid, new.valid}
          /\ row.approvedBy \in {runs[r.run].approvedBy, new.approvedBy}
      BY <2>1, <2>2, <2>3, SavedRow DEF new
    <2>5. RowEarned(audits', r.run, row)
      BY <2>1, <2>3, <2>4, MixedRowEarned
    <2> QED
      BY <2>2, <2>4, <2>5
  <1>5. ASSUME r.replaces \in Versions
        PROVE  r.replaces # r.run /\ Good(r.replaces, old)
    <2> DEFINE c == r.replaces
               seen == r.seen[c]
               new == [seen EXCEPT !.status = "RETIRED"]
    <2>1. seen \in Run /\ seen.status = "CHAMPION" /\ c # r.run /\ RowEarned(audits', c, seen)
      BY <1>1, <1>2, <1>5, LogGrows DEF Sound
    <2>2. runs[c].status # "ABSENT" /\ runs[c].author = seen.author /\ runs[c] \in Run
      BY <1>1, <1>5, <2>1 DEF RowKnown
    <2>3. /\ new \in Run /\ new.author = seen.author /\ new.status = "RETIRED"
          /\ new.valid = seen.valid /\ new.approvedBy = seen.approvedBy
      BY <2>1 DEF Run, RunStatus
    <2>4. RowEarned(audits', c, new)
      BY <2>1, <2>3 DEF RowEarned
    <2>5. old \in Saved(runs[c], seen, new)
      BY <1>3, <1>5 DEF Replaced
    <2> HIDE DEF new, seen, c
    <2>6. /\ old \in Run /\ old.author = runs[c].author /\ old.status # "ABSENT"
          /\ old.status \in {runs[c].status, new.status} /\ old.valid \in {runs[c].valid, new.valid}
          /\ old.approvedBy \in {runs[c].approvedBy, new.approvedBy}
      BY <2>1, <2>2, <2>3, <2>5, SavedRow
    <2>7. RowEarned(audits', c, old)
      BY <1>1, <1>5, <2>4, <2>6, MixedRowEarned DEF c
    <2> QED
      BY <2>1, <2>2, <2>6, <2>7 DEF c
  <1>6. runs' = [v \in Versions |-> runs'[v]]
    BY <1>3
  <1>7. ASSUME NEW v \in Versions
         PROVE  /\ v = r.run => runs'[v] = row
                /\ v # r.run /\ v = r.replaces => runs'[v] = old
                /\ v # r.run /\ v # r.replaces => runs'[v] = runs[v]
    <2>1. r.replaces # r.run
      BY <1>1 DEF Sound
    <2>2. runs'[v] = CASE v = r.run -> row [] v = r.replaces -> old [] OTHER -> runs[v]
      BY <1>3
    <2> HIDE DEF r, Good
    <2> QED
      BY <2>1, <2>2
  <1> HIDE DEF r, Good
  <1>8. ASSUME NEW v \in Versions
        PROVE  runs'[v] = runs[v] \/ Good(v, runs'[v])
    <2>1. /\ v = r.run => runs'[v] = row
          /\ v # r.run /\ v = r.replaces => runs'[v] = old
          /\ v # r.run /\ v # r.replaces => runs'[v] = runs[v]
      BY <1>7
    <2>2. CASE v = r.run
      <3>1. Good(v, row)
        BY <1>4, <2>2
      <3> QED
        BY <2>1, <2>2, <3>1
    <2>3. CASE v # r.run /\ v = r.replaces
      <3>1. Good(v, old)
        BY <1>5, <2>3
      <3> QED
        BY <2>1, <2>3, <3>1
    <2>4. CASE v # r.run /\ v # r.replaces
      BY <2>1, <2>4
    <2> QED
      BY <2>2, <2>3, <2>4
  <1>9. \A v \in Versions : runs'[v] \in Run
    BY <1>1, <1>8 DEF Good
  <1> QED
    BY <1>1, <1>8, <1>6, <1>9 DEF AuthorsKept, RunsOK, Good

LEMMA NoRequestOK ==
    /\ NoRequest \in Request
    /\ \A log, rows : RequestOK(log, rows, NoRequest)
  <1>1. /\ NoRun \in Run
        /\ \A v, log, rows : RowEarned(log, v, NoRun) /\ RowKnown(rows, v, NoRun)
    BY DEF NoRun, Run, RowEarned, RowKnown
  <1>2. NoRequest.does = "NOTHING" /\ NoRequest.seen = [v \in Versions |-> NoRun]
    BY DEF NoRequest
  <1>3. NoRequest \in Request
    BY <1>1 DEF NoRequest, Request
  <1> QED
    BY <1>1, <1>2, <1>3 DEF RequestOK, Sound

\* What a request saw stays known and confirmed while others commit.
LEMMA RequestsStep ==
    ASSUME GInv, audits \subseteq audits', AuthorsKept(runs, runs'), NEW ws, Finished(ws)
    PROVE  request' \in [Workers -> Request] /\ RequestsOK'
  <1>1. NoRequest \in Request /\ RequestOK(audits', runs', NoRequest)
    BY NoRequestOK
  <1>2. ASSUME NEW w \in Workers
        PROVE  request'[w] \in Request /\ RequestOK(audits', runs', request'[w])
    <2>1. CASE request'[w] = NoRequest
      BY <1>1, <2>1
    <2>2. CASE request'[w] = [request[w] EXCEPT !.fresh = FALSE]
      <3>1. request[w] \in Request /\ RequestOK(audits, runs, request[w])
        BY DEF GInv, TypeOK, RequestsOK
      <3>2. /\ request'[w] \in Request /\ request'[w].does = request[w].does
            /\ request'[w].by = request[w].by /\ request'[w].run = request[w].run
            /\ request'[w].replaces = request[w].replaces /\ request'[w].seen = request[w].seen
        BY <2>2, <3>1 DEF Request
      <3>3. Sound(request'[w])
        BY <3>1, <3>2 DEF RequestOK, Sound
      <3>4. ASSUME NEW v \in Versions
            PROVE  /\ RowEarned(audits', v, request'[w].seen[v])
                   /\ RowKnown(runs', v, request'[w].seen[v])
        <4>1. RowEarned(audits, v, request[w].seen[v]) /\ RowKnown(runs, v, request[w].seen[v])
          BY <3>1 DEF RequestOK
        <4>2. RowEarned(audits', v, request[w].seen[v])
          BY <4>1, LogGrows
        <4>3. RowKnown(runs', v, request[w].seen[v])
          BY <4>1 DEF RowKnown, AuthorsKept
        <4> QED
          BY <3>2, <4>2, <4>3
      <3> QED
        BY <3>2, <3>3, <3>4 DEF RequestOK
    <2> QED
      BY <2>1, <2>2 DEF Finished
  <1>3. request' = [w \in Workers |-> request'[w]]
    BY DEF Finished
  <1> QED
    BY <1>2, <1>3 DEF RequestsOK

-----------------------------------------------------------------------------
(* The steps *)

LEMMA RegisterStep ==
    ASSUME GInv, NEW a \in Authors, NEW v \in Versions, Register(a, v)
    PROVE  GInv'
  <1> DEFINE new == [NoRun EXCEPT !.status = "REGISTERED", !.author = a]
             e == Event("REGISTERED", a, v)
  <1>1. /\ runs[v].status = "ABSENT" /\ runs' = [runs EXCEPT ![v] = new]
        /\ registry[v] = "ABSENT" /\ registry' = [registry EXCEPT ![v] = "CHALLENGER"]
        /\ audits' = audits \union {e} /\ Finished({})
    BY DEF Register
  <1>2. /\ runs \in [Versions -> Run] /\ audits \subseteq [action : AuditAction, by : Actors, run : Versions]
        /\ registry \in [Versions \union {Bootstrap} -> RegistryStatus \union {"ABSENT"}]
    BY DEF GInv, TypeOK
  <1>3. /\ new \in Run /\ new.status = "REGISTERED" /\ new.author = a
        /\ ~new.valid /\ new.approvedBy = Nobody
    BY DEF NoRun, Run, RunStatus, Actors
  <1>4. /\ e \in [action : AuditAction, by : Actors, run : Versions]
        /\ e.action = "REGISTERED" /\ e.by = a /\ e.run = v
    BY DEF Event, AuditAction, Actors
  <1> HIDE DEF new, e
  <1>5. runs'[v] = new /\ \A x \in Versions \ {v} : runs'[x] = runs[x]
    BY <1>1, <1>2
  <1>6. runs' \in [Versions -> Run]
    BY <1>1, <1>2, <1>3
  <1>7. AuthorsKept(runs, runs')
    BY <1>1, <1>5 DEF AuthorsKept
  <1>8. TypeOK' /\ RequestsOK'
    <2>1. request' \in [Workers -> Request] /\ RequestsOK'
      BY <1>1, <1>7, RequestsStep
    <2>2. audits' \subseteq [action : AuditAction, by : Actors, run : Versions]
      BY <1>1, <1>2, <1>4
    <2>3. registry' \in [Versions \union {Bootstrap} -> RegistryStatus \union {"ABSENT"}]
      BY <1>1, <1>2 DEF RegistryStatus
    <2> QED
      BY <1>6, <2>1, <2>2, <2>3 DEF TypeOK
  <1>9. RunsOK'
    <2> SUFFICES ASSUME NEW x \in Versions
                 PROVE  RowEarned(audits', x, runs'[x])
      BY DEF RunsOK
    <2>1. CASE x = v
      BY <1>3, <1>5, <2>1 DEF RowEarned
    <2>2. CASE x # v
      <3>1. RowEarned(audits, x, runs[x])
        BY DEF GInv, RunsOK
      <3>2. RowEarned(audits', x, runs[x])
        BY <1>1, <3>1, LogGrows
      <3> QED
        BY <1>5, <2>2, <3>2
    <2> QED
      BY <2>1, <2>2
  <1>10. AuditsOK'
    <2> SUFFICES ASSUME NEW x \in audits'
                 PROVE  EventEarned(audits', runs', x)
      BY DEF AuditsOK
    <2>1. CASE x \in audits
      <3>1. EventEarned(audits, runs, x) /\ x.run \in Versions
        BY <1>2, <2>1 DEF GInv, AuditsOK
      <3> QED
        BY <1>1, <1>7, <3>1, EventsStayEarned
    <2>2. CASE x = e
      BY <1>3, <1>4, <1>5, <2>2 DEF EventEarned
    <2> QED
      BY <1>1, <2>1, <2>2
  <1>11. RegistryOK'
    <2>1. /\ registry'[v] = "CHALLENGER"
          /\ \A x \in Versions \ {v} : registry'[x] = registry[x]
      BY <1>1, <1>2
    <2> QED
      BY <1>1, <1>3, <1>5, <2>1 DEF GInv, RegistryOK, Logged
  <1>12. OneServed'
    <2>1. Served' = Served
      BY <1>1, <1>2 DEF Served
    <2> QED
      BY <2>1 DEF GInv, OneServed
  <1> QED
    BY <1>8, <1>9, <1>10, <1>11, <1>12 DEF GInv

\* A decision changes nothing but the request, which is sound.
LEMMA DecideStep ==
    ASSUME GInv, NEW w \in Workers, NEW does \in Transition, NEW a \in Actors, NEW v \in Versions,
           NEW c \in Versions \union {Bootstrap}, Decide(w, does, a, v, c), Sound(request'[w])
    PROVE  GInv'
  <1> DEFINE seen == [x \in Versions |-> IF x \in {v, c} THEN runs[x] ELSE NoRun]
  <1>1. /\ request' = [request EXCEPT ![w] =
               [does |-> does, by |-> a, run |-> v, replaces |-> c, seen |-> seen, fresh |-> TRUE]]
        /\ UNCHANGED <<runs, registry, audits>>
    BY DEF Decide
  <1>2. TypeOK /\ NoRun \in Run
    BY DEF GInv, NoRun, Run
  <1>3. seen \in [Versions -> Run]
    BY <1>2 DEF TypeOK
  <1>4. [does |-> does, by |-> a, run |-> v, replaces |-> c, seen |-> seen, fresh |-> TRUE] \in Request
    BY <1>3 DEF Request
  <1>5. request'[w].seen = seen /\ \A x \in Workers \ {w} : request'[x] = request[x]
    BY <1>1, <1>2 DEF TypeOK
  <1>6. TypeOK'
    BY <1>1, <1>2, <1>4 DEF TypeOK
  <1>7. ASSUME NEW x \in Versions
        PROVE  RowEarned(audits', x, seen[x]) /\ RowKnown(runs', x, seen[x])
    <2>1. RowEarned(audits, x, runs[x]) /\ RowKnown(runs, x, runs[x])
      BY DEF GInv, RunsOK, RowKnown
    <2>2. RowEarned(audits, x, NoRun) /\ RowKnown(runs, x, NoRun)
      BY DEF RowEarned, RowKnown, NoRun
    <2> QED
      BY <1>1, <2>1, <2>2
  <1> HIDE DEF seen
  <1>8. RequestOK(audits', runs', request'[w])
    BY <1>5, <1>7 DEF RequestOK
  <1>9. RequestsOK'
    BY <1>1, <1>5, <1>8 DEF GInv, RequestsOK
  <1> QED
    BY <1>1, <1>6, <1>9 DEF GInv, RunsOK, AuditsOK, RegistryOK, OneServed, Served

\* What remains to be shown of a commit, given what it does to the runs and requests.
LEMMA CommitStep ==
    ASSUME GInv, NEW w \in Workers, audits \subseteq audits',
           audits' \subseteq [action : AuditAction, by : Actors, run : Versions],
           request[w].does # "NOTHING",
           request[w].does # "ROLLED_BACK" => Performed(request[w]) \in audits',
           NEW replaced, request[w].replaces \in Versions => replaced = Replaced(request[w]),
           SaveRuns(request[w], replaced), Finished({w}),
           \A e \in audits' \ audits : EventEarned(audits', runs', e)
    PROVE  /\ runs' \in [Versions -> Run] /\ request' \in [Workers -> Request]
           /\ RequestsOK' /\ RunsOK' /\ AuditsOK' /\ AuthorsKept(runs, runs')
           /\ \A v \in Versions : runs[v].status = "ABSENT" => runs'[v].status = "ABSENT"
  <1>1. /\ runs' \in [Versions -> Run] /\ AuthorsKept(runs, runs') /\ RunsOK'
        /\ \A v \in Versions : runs[v].status = "ABSENT" => runs'[v].status = "ABSENT"
    BY SaveStep
  <1>2. request' \in [Workers -> Request] /\ RequestsOK'
    BY <1>1, RequestsStep
  <1>3. ASSUME NEW e \in audits
        PROVE  EventEarned(audits', runs', e)
    <2>1. EventEarned(audits, runs, e) /\ e.run \in Versions
      BY DEF GInv, AuditsOK, TypeOK
    <2> QED
      BY <1>1, <2>1, EventsStayEarned
  <1> QED
    BY <1>1, <1>2, <1>3 DEF AuditsOK

LEMMA PerformedEarned ==
    ASSUME GInv, NEW w \in Workers, request[w].does # "NOTHING", audits \subseteq audits',
           AuthorsKept(runs, runs')
    PROVE  EventEarned(audits', runs', Performed(request[w]))
  <1> DEFINE r == request[w]
             s == r.seen[r.run]
  <1>1. r \in Request /\ Sound(r) /\ r.run \in Versions
    BY DEF GInv, TypeOK, RequestsOK, RequestOK, Sound
  <1>2. s \in Run /\ RowEarned(audits', r.run, s) /\ RowKnown(runs, r.run, s)
    BY <1>1, LogGrows DEF GInv, RequestsOK, RequestOK, Request
  <1>3. /\ r.does \in Transition /\ Performed(r).action = r.does
        /\ Performed(r).by = r.by /\ Performed(r).run = r.run
    BY <1>1 DEF Performed, Event, Request
  <1>4. /\ s.status # "ABSENT"
        /\ r.does = "APPROVED" => r.by # s.author
        /\ r.does = "PROMOTED" => s.status = "APPROVED" /\ s.approvedBy \notin {Nobody, r.by}
    BY <1>1 DEF Sound
  <1>5. runs'[r.run].status # "ABSENT" /\ runs'[r.run].author = s.author
    BY <1>1, <1>2, <1>4 DEF RowKnown, AuthorsKept
  <1>6. s.approvedBy # Nobody => s.approvedBy \in Actors
    BY <1>2 DEF Run
  <1>7. r.does = "PROMOTED" =>
            /\ Logged(audits', "LINEAGE_VALIDATED", r.run) /\ Logged(audits', "SUBMITTED", r.run)
            /\ \E b \in Actors : b # r.by /\ LoggedBy(audits', "APPROVED", b, r.run)
    BY <1>2, <1>4, <1>6 DEF RowEarned
  <1>8. r.does # "REGISTERED"
    BY <1>3 DEF Transition
  <1> DEFINE e == Performed(r)
  <1>9. e.action = r.does /\ e.by = r.by /\ e.run = r.run
    BY <1>3
  <1> HIDE DEF r, s, e
  <1>10. e.action = "APPROVED" => e.by # runs'[e.run].author
    BY <1>4, <1>5, <1>9
  <1>11. e.action = "PROMOTED" =>
            /\ Logged(audits', "LINEAGE_VALIDATED", e.run) /\ Logged(audits', "SUBMITTED", e.run)
            /\ \E b \in Actors : b # e.by /\ LoggedBy(audits', "APPROVED", b, e.run)
    BY <1>7, <1>9
  <1>12. runs'[e.run].status # "ABSENT" /\ e.action # "REGISTERED"
    BY <1>5, <1>8, <1>9
  <1>13. EventEarned(audits', runs', e)
    BY <1>10, <1>11, <1>12 DEF EventEarned
  <1> QED
    BY <1>13 DEF e, r

LEMMA PerformedType ==
    ASSUME GInv, NEW w \in Workers, request[w].does # "NOTHING"
    PROVE  /\ Performed(request[w]) \in [action : AuditAction, by : Actors, run : Versions]
           /\ request[w].run \in Versions /\ request[w].by \in Actors
           /\ runs[request[w].run].status # "ABSENT"
           /\ request[w].replaces \in Versions => /\ request[w].replaces # request[w].run
                                                  /\ runs[request[w].replaces].status # "ABSENT"
  <1>1. request[w] \in Request /\ RequestOK(audits, runs, request[w])
    BY DEF GInv, TypeOK, RequestsOK
  <1>2. Sound(request[w]) /\ \A v \in Versions : RowKnown(runs, v, request[w].seen[v])
    BY <1>1 DEF RequestOK
  <1>3. request[w].run \in Versions /\ request[w].by \in Actors /\ request[w].does \in AuditAction
    BY <1>1, <1>2 DEF Sound, Request, AuditAction
  <1>4. /\ request[w].seen[request[w].run].status # "ABSENT"
        /\ request[w].replaces \in Versions =>
              /\ request[w].replaces # request[w].run
              /\ request[w].seen[request[w].replaces].status # "ABSENT"
    BY <1>2 DEF Sound
  <1>5. Performed(request[w]) \in [action : AuditAction, by : Actors, run : Versions]
    BY <1>3 DEF Performed, Event
  <1>6. \A v \in Versions : request[w].seen[v].status # "ABSENT" => runs[v].status # "ABSENT"
    BY <1>2 DEF RowKnown
  <1> QED
    BY <1>3, <1>4, <1>5, <1>6

LEMMA TransitionStep == ASSUME GInv, NEW w \in Workers, CommitTransition(w) PROVE GInv'
  <1> DEFINE r == request[w]
  <1>1. /\ r.does \in Transition \ {"PROMOTED", "ROLLED_BACK"} /\ r.does # "NOTHING"
        /\ audits' = audits \union {Performed(r)} /\ Finished({w})
        /\ SaveRuns(r, {NoRun}) /\ registry' = registry
    BY DEF CommitTransition, Commit, Transition
  <1>2. r.replaces \notin Versions
    BY <1>1 DEF GInv, RequestsOK, RequestOK, Sound
  <1>3. audits' \subseteq [action : AuditAction, by : Actors, run : Versions]
    BY <1>1, PerformedType DEF GInv, TypeOK
  <1>4. AuthorsKept(runs, runs')
    BY <1>1, <1>2, SaveStep
  <1>5. EventEarned(audits', runs', Performed(r))
    BY <1>1, <1>4, PerformedEarned
  <1> HIDE DEF r
  <1>6. /\ runs' \in [Versions -> Run] /\ request' \in [Workers -> Request]
        /\ RequestsOK' /\ RunsOK' /\ AuditsOK'
        /\ \A v \in Versions : runs[v].status = "ABSENT" <=> runs'[v].status = "ABSENT"
    BY <1>1, <1>2, <1>3, <1>5, CommitStep DEF r, AuthorsKept
  <1>7. RegistryOK'
    BY <1>1, <1>6 DEF GInv, RegistryOK, Logged
  <1>8. OneServed'
    BY <1>1 DEF GInv, OneServed, Served
  <1> QED
    BY <1>1, <1>3, <1>6, <1>7, <1>8 DEF GInv, TypeOK

LEMMA PromotionStep == ASSUME GInv, NEW w \in Workers, CommitPromotion(w) PROVE GInv'
  <1> DEFINE r == request[w]
             ended == IF r.replaces = Bootstrap THEN {} ELSE {Event("RETIRED", r.by, r.replaces)}
             replaced == IF r.replaces = Bootstrap THEN {NoRun} ELSE Replaced(r)
  <1>1. /\ r.does = "PROMOTED" /\ audits' = audits \union ({Performed(r)} \union ended)
        /\ Finished({w}) /\ SaveRuns(r, replaced)
        /\ registry' = [v \in DOMAIN registry |->
               CASE v = r.run -> "CHAMPION"
                 [] v # r.run /\ v \in Served -> "RETIRED"
                 [] OTHER -> registry[v]]
    BY DEF CommitPromotion, Commit
  <1>2. r.replaces \in Versions => replaced = Replaced(r)
    BY GovernanceAssumption
  <1>3. /\ Performed(r) \in [action : AuditAction, by : Actors, run : Versions]
        /\ r.run \in Versions /\ r.by \in Actors /\ runs[r.run].status # "ABSENT"
        /\ r.replaces \in Versions => runs[r.replaces].status # "ABSENT"
    BY <1>1, PerformedType
  <1>4. r.replaces \in Versions \union {Bootstrap}
    BY DEF GInv, TypeOK, Request
  <1>5. audits' \subseteq [action : AuditAction, by : Actors, run : Versions]
    BY <1>1, <1>3, <1>4 DEF GInv, TypeOK, Event, AuditAction, Transition
  <1> HIDE DEF replaced
  <1>6. AuthorsKept(runs, runs')
    BY <1>1, <1>2, SaveStep
  <1>7. EventEarned(audits', runs', Performed(r))
    BY <1>1, <1>6, PerformedEarned
  <1>8. ASSUME NEW e \in ended PROVE EventEarned(audits', runs', e)
    <2>1. r.replaces \in Versions /\ e = Event("RETIRED", r.by, r.replaces)
      BY <1>4
    <2>2. e.action = "RETIRED" /\ e.run = r.replaces
      BY <2>1 DEF Event
    <2> QED
      BY <1>3, <1>6, <2>1, <2>2 DEF EventEarned, AuthorsKept
  <1> HIDE DEF r, ended
  <1>9. /\ runs' \in [Versions -> Run] /\ request' \in [Workers -> Request]
        /\ RequestsOK' /\ RunsOK' /\ AuditsOK'
        /\ \A v \in Versions : runs[v].status = "ABSENT" <=> runs'[v].status = "ABSENT"
    BY <1>1, <1>2, <1>5, <1>7, <1>8, CommitStep DEF r, AuthorsKept
  <1>10. registry \in [Versions \union {Bootstrap} -> RegistryStatus \union {"ABSENT"}]
    BY DEF GInv, TypeOK
  <1>11. registry' \in [Versions \union {Bootstrap} -> RegistryStatus \union {"ABSENT"}]
    BY <1>1, <1>10 DEF RegistryStatus
  <1>12. /\ registry'[r.run] = "CHAMPION"
         /\ \A v \in (Versions \union {Bootstrap}) \ {r.run} :
               registry'[v] = IF registry[v] = "CHAMPION" THEN "RETIRED" ELSE registry[v]
    BY <1>1, <1>3, <1>10 DEF Served
  <1>13. Logged(audits', "PROMOTED", r.run)
    <2>1. Performed(r).action = "PROMOTED" /\ Performed(r).run = r.run
      BY <1>1 DEF Performed, Event
    <2> QED
      BY <1>1, <2>1 DEF Logged
  <1>14. RegistryOK'
    BY <1>3, <1>9, <1>12, <1>13 DEF GInv, RegistryOK
  <1>15. OneServed'
    <2>1. Served' = {r.run}
      BY <1>3, <1>12 DEF Served
    <2> QED
      BY <1>3, <2>1 DEF OneServed
  <1> QED
    BY <1>5, <1>9, <1>11, <1>14, <1>15 DEF GInv, TypeOK

LEMMA RollbackStep == ASSUME GInv, NEW w \in Workers, CommitRollback(w) PROVE GInv'
  <1> DEFINE r == request[w]
             events == {Event("ROLLED_BACK", r.by, r.replaces), Event("CHAMPION_RESTORED", r.by, r.run)}
  <1>1. /\ r.does = "ROLLED_BACK" /\ audits' = audits \union events
        /\ Finished({w}) /\ SaveRuns(r, Replaced(r))
        /\ Served \subseteq {r.run, r.replaces}
        /\ registry' = [registry EXCEPT ![r.replaces] = "RETIRED", ![r.run] = "CHAMPION"]
    BY DEF CommitRollback, Commit
  <1>2. r.replaces \in Versions
    BY <1>1 DEF GInv, RequestsOK, RequestOK, Sound
  <1>3. /\ r.run \in Versions /\ r.by \in Actors /\ runs[r.run].status # "ABSENT"
        /\ r.replaces # r.run /\ runs[r.replaces].status # "ABSENT"
    BY <1>1, <1>2, PerformedType
  <1>4. audits' \subseteq [action : AuditAction, by : Actors, run : Versions]
    BY <1>1, <1>2, <1>3 DEF GInv, TypeOK, Event, AuditAction, Transition
  <1>5. AuthorsKept(runs, runs')
    BY <1>1, SaveStep
  <1>6. ASSUME NEW e \in events PROVE EventEarned(audits', runs', e)
    <2>1. e.action \in {"ROLLED_BACK", "CHAMPION_RESTORED"} /\ e.run \in {r.run, r.replaces}
      BY DEF Event
    <2> QED
      BY <1>2, <1>3, <1>5, <2>1 DEF EventEarned, AuthorsKept
  <1>7. Logged(audits', "PROMOTED", r.run)
    <2>1. r.seen[r.run].status = "RETIRED" /\ RowEarned(audits, r.run, r.seen[r.run])
      BY <1>1, <1>3 DEF GInv, RequestsOK, RequestOK, Sound
    <2> QED
      BY <1>1, <2>1 DEF RowEarned, Logged
  <1> HIDE DEF r, events
  <1>8. /\ runs' \in [Versions -> Run] /\ request' \in [Workers -> Request]
        /\ RequestsOK' /\ RunsOK' /\ AuditsOK'
        /\ \A v \in Versions : runs[v].status = "ABSENT" <=> runs'[v].status = "ABSENT"
    BY <1>1, <1>4, <1>6, CommitStep DEF r, AuthorsKept
  <1>9. registry \in [Versions \union {Bootstrap} -> RegistryStatus \union {"ABSENT"}]
    BY DEF GInv, TypeOK
  <1>10. registry' \in [Versions \union {Bootstrap} -> RegistryStatus \union {"ABSENT"}]
    BY <1>1, <1>9 DEF RegistryStatus
  <1>11. /\ registry'[r.run] = "CHAMPION" /\ registry'[r.replaces] = "RETIRED"
         /\ \A v \in (Versions \union {Bootstrap}) \ {r.run, r.replaces} :
               registry'[v] = registry[v] /\ registry[v] # "CHAMPION"
    BY <1>1, <1>2, <1>3, <1>9 DEF Served
  <1>12. RegistryOK'
    BY <1>1, <1>2, <1>3, <1>7, <1>8, <1>11 DEF GInv, RegistryOK
  <1>13. OneServed'
    <2>1. Served' = {r.run}
      BY <1>2, <1>3, <1>11 DEF Served
    <2> QED
      BY <1>3, <2>1 DEF OneServed
  <1> QED
    BY <1>4, <1>8, <1>10, <1>12, <1>13 DEF GInv, TypeOK

LEMMA FailStep == ASSUME GInv, NEW w \in Workers, Fail(w) PROVE GInv'
  <1>1. /\ request' = [request EXCEPT ![w] = NoRequest] /\ runs' = runs /\ registry' = registry
        /\ audits' = audits
    BY DEF Fail
  <1>2. NoRequest \in Request /\ RequestOK(audits, runs, NoRequest)
    BY NoRequestOK
  <1>3. TypeOK'
    BY <1>1, <1>2 DEF GInv, TypeOK
  <1>4. RequestsOK'
    BY <1>1, <1>2 DEF GInv, TypeOK, RequestsOK
  <1> QED
    BY <1>1, <1>3, <1>4 DEF GInv, RunsOK, AuditsOK, RegistryOK, OneServed, Served

-----------------------------------------------------------------------------
LEMMA DecisionStep ==
    ASSUME GInv, NEW w \in Workers, NEW v \in Versions, NEW a \in Actors,
           Author(w, a, v) \/ Approve(w, a, v) \/ Release(w, a, v)
    PROVE  GInv'
  <1> DEFINE Fields(does, c) ==
                 /\ request'[w].does = does /\ request'[w].by = a /\ request'[w].run = v
                 /\ request'[w].replaces = c /\ request'[w].seen[v] = runs[v]
                 /\ c \in Versions => request'[w].seen[c] = runs[c]
  <1>1. ASSUME NEW does \in Transition, NEW c \in Versions \union {Bootstrap},
               Decide(w, does, a, v, c)
        PROVE  Fields(does, c)
    BY <1>1 DEF GInv, TypeOK, Decide
  <1>2. Bootstrap \notin Versions /\ a \in Actors
    BY GovernanceAssumption
  <1> HIDE DEF Fields
  <1>3. CASE ValidateLineage(w, a, v)
    <2>1. Decide(w, "LINEAGE_VALIDATED", a, v, Bootstrap)
      BY <1>3 DEF ValidateLineage
    <2>2. Sound(request'[w])
      <3>1. Fields("LINEAGE_VALIDATED", Bootstrap)
        BY <1>1, <2>1 DEF Transition
      <3> QED
        BY <1>3, <1>2, <3>1 DEF ValidateLineage, Sound, Fields, Registered
    <2> QED
      BY <2>1, <2>2, DecideStep DEF Transition
  <1>4. CASE Submit(w, a, v)
    <2>1. Decide(w, "SUBMITTED", a, v, Bootstrap)
      BY <1>4 DEF Submit
    <2>2. Sound(request'[w])
      <3>1. Fields("SUBMITTED", Bootstrap)
        BY <1>1, <2>1 DEF Transition
      <3> QED
        BY <1>4, <1>2, <3>1 DEF Submit, Sound, Fields
    <2> QED
      BY <2>1, <2>2, DecideStep DEF Transition
  <1>5. CASE Approve(w, a, v)
    <2>1. Decide(w, "APPROVED", a, v, Bootstrap)
      BY <1>5 DEF Approve
    <2>2. Sound(request'[w])
      <3>1. Fields("APPROVED", Bootstrap)
        BY <1>1, <2>1 DEF Transition
      <3> QED
        BY <1>5, <1>2, <3>1 DEF Approve, Sound, Fields
    <2> QED
      BY <2>1, <2>2, DecideStep DEF Transition
  <1>6. CASE Promote(w, a, v)
    <2>1. PICK c \in Versions \union {Bootstrap} :
              /\ Decide(w, "PROMOTED", a, v, c)
              /\ c \in Versions => runs[c].status = "CHAMPION"
      BY <1>2, <1>6 DEF Promote, WithStatus
    <2>2. Sound(request'[w])
      <3>1. Fields("PROMOTED", c)
        BY <1>1, <2>1 DEF Transition
      <3> QED
        BY <1>6, <1>2, <2>1, <3>1 DEF Promote, Sound, Fields
    <2> QED
      BY <2>1, <2>2, DecideStep DEF Transition
  <1>7. CASE Retire(w, a, v)
    <2>1. Decide(w, "RETIRED", a, v, Bootstrap)
      BY <1>7 DEF Retire
    <2>2. Sound(request'[w])
      <3>1. Fields("RETIRED", Bootstrap)
        BY <1>1, <2>1 DEF Transition
      <3> QED
        BY <1>7, <1>2, <3>1 DEF Retire, Sound, Fields
    <2> QED
      BY <2>1, <2>2, DecideStep DEF Transition
  <1>8. CASE Rollback(w, a, v)
    <2>1. PICK c \in Versions : Decide(w, "ROLLED_BACK", a, v, c) /\ runs[c].status = "CHAMPION"
      BY <1>8 DEF Rollback, WithStatus
    <2>2. Sound(request'[w])
      <3>1. Fields("ROLLED_BACK", c)
        BY <1>1, <2>1 DEF Transition
      <3> QED
        BY <1>8, <1>2, <2>1, <3>1 DEF Rollback, Sound, Fields
    <2> QED
      BY <2>1, <2>2, DecideStep DEF Transition
  <1> QED
    BY <1>3, <1>4, <1>5, <1>6, <1>7, <1>8 DEF Author, Release

LEMMA GovernanceInvariance == Spec => []GInv
  <1>1. Init => GInv
    <2> SUFFICES ASSUME Init PROVE GInv
      OBVIOUS
    <2>1. NoRun \in Run /\ NoRun.status = "ABSENT" /\ \A v \in Versions : RowEarned(audits, v, NoRun)
      BY DEF NoRun, Run, RowEarned
    <2>2. /\ runs \in [Versions -> Run] /\ audits = {} /\ request \in [Workers -> Request]
          /\ registry \in [Versions \union {Bootstrap} -> RegistryStatus \union {"ABSENT"}]
      BY <2>1, NoRequestOK DEF Init, RegistryStatus
    <2>3. RequestsOK /\ RunsOK /\ AuditsOK
      BY <2>1, NoRequestOK DEF Init, RequestsOK, RunsOK, AuditsOK
    <2>4. RegistryOK /\ OneServed
      BY GovernanceAssumption DEF Init, RegistryOK, OneServed, Served
    <2> QED
      BY <2>2, <2>3, <2>4 DEF GInv, TypeOK
  <1>2. GInv /\ [Next]_vars => GInv'
    <2> SUFFICES ASSUME GInv, [Next]_vars PROVE GInv'
      OBVIOUS
    <2>1. CASE UNCHANGED vars
      BY <2>1 DEF vars, GInv, TypeOK, RequestsOK, RunsOK, AuditsOK, RegistryOK, OneServed, Served
    <2>2. ASSUME NEW v \in Versions, NEW a \in Authors, Register(a, v)
          PROVE  GInv'
      BY <2>2, RegisterStep
    <2>3. ASSUME NEW v \in Versions, NEW w \in Workers, NEW a \in Actors,
                 Author(w, a, v) \/ Approve(w, a, v) \/ Release(w, a, v)
          PROVE  GInv'
      BY <2>3, DecisionStep
    <2>4. ASSUME NEW w \in Workers, CommitTransition(w) \/ CommitPromotion(w) \/ CommitRollback(w) \/ Fail(w)
          PROVE  GInv'
      BY <2>4, TransitionStep, PromotionStep, RollbackStep, FailStep
    <2> QED
      BY <2>1, <2>2, <2>3, <2>4 DEF Next, Actors
  <1> QED
    BY <1>1, <1>2, PTL DEF Spec

\* The tables of the governance of models keep their types.
THEOREM GovernanceTypeCorrect == Spec => []TypeOK
  <1>1. GInv => TypeOK
    BY DEF GInv
  <1> QED
    BY <1>1, GovernanceInvariance, PTL

\* Scoring has exactly one model at any time, whatever requests overlap.
THEOREM AlwaysOneModel == Spec => []OneServed
  <1>1. GInv => OneServed
    BY DEF GInv
  <1> QED
    BY <1>1, GovernanceInvariance, PTL

\* Whatever is served or was promoted went through the review, with its separation of
\* persons, whatever requests overlap.
THEOREM ReviewBeforeRelease == Spec => []ReleaseIsReviewed
  <1>1. GInv => ReleaseIsReviewed
    <2> SUFFICES ASSUME GInv, NEW v \in Versions, v \in Served \/ Did("PROMOTED", v) # {}
                 PROVE  /\ Did("LINEAGE_VALIDATED", v) # {} /\ Did("SUBMITTED", v) # {}
                        /\ Did("PROMOTED", v) # {}
                        /\ Did("APPROVED", v) \intersect Did("REGISTERED", v) = {}
                        /\ \A a \in Did("PROMOTED", v) : Did("APPROVED", v) \ {a} # {}
      BY DEF ReleaseIsReviewed
    <2>1. \A action : Did(action, v) # {} <=> Logged(audits, action, v)
      BY DEF Did, Logged
    <2>2. \A action, a : a \in Did(action, v) <=> LoggedBy(audits, action, a, v)
      BY DEF Did, LoggedBy
    <2>3. Logged(audits, "PROMOTED", v)
      BY <2>1 DEF GInv, RegistryOK, Served
    <2>4. /\ Logged(audits, "LINEAGE_VALIDATED", v) /\ Logged(audits, "SUBMITTED", v)
          /\ \A a : LoggedBy(audits, "PROMOTED", a, v) =>
                \E b \in Actors : b # a /\ LoggedBy(audits, "APPROVED", b, v)
      BY <2>3 DEF GInv, AuditsOK, EventEarned, Logged, LoggedBy
    <2>5. \A a : ~(LoggedBy(audits, "APPROVED", a, v) /\ LoggedBy(audits, "REGISTERED", a, v))
      BY DEF GInv, AuditsOK, EventEarned, LoggedBy
    <2> QED
      BY <2>1, <2>2, <2>3, <2>4, <2>5
  <1> QED
    BY <1>1, GovernanceInvariance, PTL

-----------------------------------------------------------------------------
(* A release that overlaps with nobody. *)

\* A release during which nobody committed still sees the champion and its own run as they are.
Current(r) == r.fresh /\ r.does \in {"PROMOTED", "ROLLED_BACK"} =>
    /\ r.seen[r.run] = runs[r.run]
    /\ r.replaces \in Versions => r.seen[r.replaces] = runs[r.replaces]
    /\ r.replaces \notin Versions => WithStatus("CHAMPION") = {}

FreshAreCurrent == \A w \in Workers : Current(request[w])

\* Whoever commits tells the others that what they saw may have changed.
LEMMA CommitsAreTold ==
    ASSUME TypeOK, NEW ws \in SUBSET Workers, Finished(ws), NEW w \in Workers
    PROVE  /\ w \in ws => request'[w] = NoRequest
           /\ w \notin ws => /\ request'[w] = NoRequest \/ ~request'[w].fresh
                             /\ request[w].does # "NOTHING" => request'[w] # NoRequest
  <1>1. request[w] \in Request
    BY DEF TypeOK
  <1>2. request'[w] = IF w \in ws \/ request[w] = NoRequest THEN NoRequest
                      ELSE [request[w] EXCEPT !.fresh = FALSE]
    BY DEF Finished
  <1>3. NoRequest.does = "NOTHING"
    BY DEF NoRequest
  <1>4. CASE w \in ws \/ request[w] = NoRequest
    BY <1>2, <1>3, <1>4
  <1>5. CASE ~(w \in ws \/ request[w] = NoRequest)
    <2>1. /\ request'[w] = [request[w] EXCEPT !.fresh = FALSE] /\ ~request'[w].fresh
          /\ request'[w].does = request[w].does
      BY <1>1, <1>2, <1>5 DEF Request
    <2> QED
      BY <1>3, <1>5, <2>1
  <1> QED
    BY <1>4, <1>5

LEMMA CommitsKeepCurrent ==
    ASSUME TypeOK, NEW ws \in SUBSET Workers, Finished(ws)
    PROVE  FreshAreCurrent'
  <1> SUFFICES ASSUME NEW w \in Workers PROVE Current(request[w])'
    BY DEF FreshAreCurrent
  <1>1. NoRequest.does = "NOTHING"
    BY DEF NoRequest
  <1>2. request'[w] = NoRequest \/ ~request'[w].fresh
    BY CommitsAreTold
  <1> QED
    BY <1>1, <1>2 DEF Current

LEMMA DecisionsAreCurrent ==
    ASSUME TypeOK, FreshAreCurrent, NEW w \in Workers, NEW v \in Versions, NEW a \in Actors,
           Author(w, a, v) \/ Approve(w, a, v) \/ Release(w, a, v)
    PROVE  FreshAreCurrent'
  <1>1. PICK does \in Transition, c \in Versions \union {Bootstrap} :
            /\ Decide(w, does, a, v, c)
            /\ does \in {"PROMOTED", "ROLLED_BACK"} /\ c \notin Versions => WithStatus("CHAMPION") = {}
    <2>1. WithStatus("CHAMPION") \subseteq Versions
      BY DEF WithStatus
    <2>2. CASE ValidateLineage(w, a, v) \/ Submit(w, a, v) \/ Approve(w, a, v) \/ Retire(w, a, v)
      BY <2>2 DEF ValidateLineage, Submit, Approve, Retire, Transition
    <2>3. CASE Promote(w, a, v)
      BY <2>1, <2>3 DEF Promote, Transition
    <2>4. CASE Rollback(w, a, v)
      BY <2>1, <2>4 DEF Rollback, Transition
    <2> QED
      BY <2>2, <2>3, <2>4 DEF Author, Release
  <1>2. /\ runs' = runs /\ WithStatus("CHAMPION")' = WithStatus("CHAMPION")
        /\ request' = [request EXCEPT ![w] =
               [does |-> does, by |-> a, run |-> v, replaces |-> c,
                seen |-> [x \in Versions |-> IF x \in {v, c} THEN runs[x] ELSE NoRun],
                fresh |-> TRUE]]
    BY <1>1 DEF Decide, WithStatus
  <1>3. Current(request[w])'
    BY <1>1, <1>2 DEF TypeOK, Current
  <1>4. ASSUME NEW x \in Workers \ {w} PROVE Current(request[x])'
    <2>1. request'[x] = request[x]
      BY <1>2, <1>4 DEF TypeOK
    <2> QED
      BY <1>2, <2>1 DEF FreshAreCurrent, Current
  <1> QED
    BY <1>3, <1>4 DEF FreshAreCurrent

LEMMA CurrentInvariance == Spec => [](GInv /\ FreshAreCurrent)
  <1>1. Init => FreshAreCurrent
    BY DEF Init, NoRequest, FreshAreCurrent, Current
  <1>2. GInv /\ FreshAreCurrent /\ [Next]_vars => FreshAreCurrent'
    <2> SUFFICES ASSUME GInv, FreshAreCurrent, [Next]_vars PROVE FreshAreCurrent'
      OBVIOUS
    <2>1. TypeOK
      BY DEF GInv
    <2>2. CASE UNCHANGED vars
      BY <2>2 DEF vars, FreshAreCurrent, Current, WithStatus
    <2>3. ASSUME NEW v \in Versions, NEW a \in Authors, Register(a, v)
          PROVE  FreshAreCurrent'
      BY <2>1, <2>3, CommitsKeepCurrent DEF Register
    <2>4. ASSUME NEW v \in Versions, NEW w \in Workers, NEW a \in Actors,
                 Author(w, a, v) \/ Approve(w, a, v) \/ Release(w, a, v)
          PROVE  FreshAreCurrent'
      BY <2>1, <2>4, DecisionsAreCurrent
    <2>5. ASSUME NEW w \in Workers, CommitTransition(w) \/ CommitPromotion(w) \/ CommitRollback(w)
          PROVE  FreshAreCurrent'
      BY <2>1, <2>5, CommitsKeepCurrent DEF CommitTransition, CommitPromotion, CommitRollback, Commit
    <2>6. ASSUME NEW w \in Workers, Fail(w) PROVE FreshAreCurrent'
      <3>1. runs' = runs /\ WithStatus("CHAMPION")' = WithStatus("CHAMPION")
        BY <2>6 DEF Fail, WithStatus
      <3>2. ASSUME NEW x \in Workers PROVE request'[x] \in {NoRequest, request[x]}
        BY <2>1, <2>6 DEF Fail, TypeOK
      <3> QED
        BY <3>1, <3>2 DEF NoRequest, FreshAreCurrent, Current
    <2> QED
      BY <2>2, <2>3, <2>4, <2>5, <2>6 DEF Next, Actors
  <1> QED
    BY <1>1, <1>2, GovernanceInvariance, PTL DEF Spec

\* Two rows are saved as they were decided when they are still as they were seen.
LEMMA SavedAsDecided ==
    ASSUME NEW now \in Run, NEW new, NEW row \in Saved(now, now, new), new.status # now.status
    PROVE  row.status = new.status
  BY DEF Saved, Column, Run

\* The champion it saw is the only one, so both tables get the one it makes.
LEMMA ReleaseStep ==
    ASSUME GInv, FreshAreCurrent, NEW w \in Workers, CommitPromotion(w) \/ CommitRollback(w),
           request[w].fresh, ChampionsAgree
    PROVE  ChampionsAgree'
  <1> DEFINE r == request[w]
  <1>1. r.does \in {"PROMOTED", "ROLLED_BACK"}
    BY DEF CommitPromotion, CommitRollback, Commit
  <1>2. /\ r.run \in Versions /\ r.run # Bootstrap /\ r.replaces # r.run
        /\ r.seen[r.run].status \in {"APPROVED", "RETIRED"}
        /\ r.replaces \in Versions => r.seen[r.replaces].status = "CHAMPION"
        /\ r.does = "ROLLED_BACK" => r.replaces \in Versions
    BY <1>1, GovernanceAssumption DEF GInv, RequestsOK, RequestOK, Sound
  <1>3. /\ r.seen[r.run] = runs[r.run]
        /\ r.replaces \in Versions => r.seen[r.replaces] = runs[r.replaces]
        /\ r.replaces \notin Versions => WithStatus("CHAMPION") = {}
    BY <1>1 DEF FreshAreCurrent, Current
  <1>4. /\ runs \in [Versions -> Run] /\ r \in Request
        /\ registry \in [Versions \union {Bootstrap} -> RegistryStatus \union {"ABSENT"}]
    BY DEF GInv, TypeOK
  <1>5. \A v \in Versions : runs[v].status = "CHAMPION" => v = r.replaces
    <2>1. PICK c \in Versions \union {Bootstrap} : Served = {c}
      BY DEF GInv, OneServed
    <2> QED
      BY <1>2, <1>3, <2>1 DEF ChampionsAgree, WithStatus
  <1>6. RunAfter(r, runs[r.run]).status = "CHAMPION"
    BY <1>1, <1>2, <1>4 DEF RunAfter, StatusAfter, Run
  <1>7. PICK row \in Saved(runs[r.run], runs[r.run], RunAfter(r, runs[r.run])),
             old \in IF r.replaces \in Versions THEN Replaced(r) ELSE {NoRun} :
            runs' = [v \in Versions |-> CASE v = r.run -> row
                                          [] v = r.replaces -> old
                                          [] OTHER -> runs[v]]
    <2>1. r.replaces \in Versions <=> r.replaces # Bootstrap
      BY <1>4, GovernanceAssumption DEF Request
    <2> QED
      BY <1>2, <1>3, <2>1 DEF CommitPromotion, CommitRollback, SaveRuns
  <1>8. row.status = "CHAMPION"
    BY <1>2, <1>3, <1>4, <1>6, SavedAsDecided
  <1>9. r.replaces \in Versions => old.status = "RETIRED"
    <2> SUFFICES ASSUME r.replaces \in Versions PROVE old.status = "RETIRED"
      OBVIOUS
    <2> DEFINE new == [runs[r.replaces] EXCEPT !.status = "RETIRED"]
    <2>1. runs[r.replaces] \in Run /\ new.status = "RETIRED" /\ runs[r.replaces].status = "CHAMPION"
      BY <1>2, <1>3, <1>4 DEF Run
    <2>2. old \in Saved(runs[r.replaces], runs[r.replaces], new)
      BY <1>3, <1>7 DEF Replaced
    <2> QED
      BY <2>1, <2>2, SavedAsDecided
  <1>10. WithStatus("CHAMPION")' = {r.run}
    BY <1>2, <1>5, <1>7, <1>8, <1>9 DEF WithStatus
  <1>11. Served' = {r.run}
    <2>1. CASE CommitPromotion(w)
      BY <1>2, <1>4, <2>1 DEF CommitPromotion, Served
    <2>2. CASE CommitRollback(w)
      <3>1. /\ Served \subseteq {r.run, r.replaces}
            /\ registry' = [registry EXCEPT ![r.replaces] = "RETIRED", ![r.run] = "CHAMPION"]
        BY <2>2 DEF CommitRollback
      <3> QED
        BY <1>2, <1>4, <3>1 DEF Served
    <2> QED
      BY <2>1, <2>2
  <1> QED
    BY <1>2, <1>10, <1>11 DEF ChampionsAgree

\* A promotion or a rollback that overlaps with nobody leaves the workflow and the scoring with
\* one champion, the same, if they agreed before.
THEOREM ReleasesSynchronise == Spec => ReleaseSynchronises
  <1> DEFINE Synchronises == \A w \in Workers :
                 /\ request[w].fresh /\ request[w].does \in {"PROMOTED", "ROLLED_BACK"}
                 /\ ChampionsAgree /\ runs' # runs /\ request'[w] = NoRequest
                 => ChampionsAgree'
  <1>1. GInv /\ FreshAreCurrent /\ [Next]_vars => [Synchronises]_vars
    <2> SUFFICES ASSUME GInv, FreshAreCurrent, Next, NEW w \in Workers,
                        request[w].fresh, request[w].does \in {"PROMOTED", "ROLLED_BACK"},
                        ChampionsAgree, runs' # runs, request'[w] = NoRequest
                 PROVE  ChampionsAgree'
      OBVIOUS
    <2>1. TypeOK
      BY DEF GInv
    <2>2. ASSUME NEW v \in Versions, NEW a \in Authors, Register(a, v) PROVE FALSE
      BY <2>1, <2>2, CommitsAreTold DEF Register
    <2>3. ASSUME NEW v \in Versions, NEW x \in Workers, NEW a \in Actors,
                 Author(x, a, v) \/ Approve(x, a, v) \/ Release(x, a, v)
          PROVE  FALSE
      BY <2>3 DEF Author, Approve, Release, ValidateLineage, Submit, Promote, Retire, Rollback, Decide
    <2>4. ASSUME NEW x \in Workers, Fail(x) PROVE FALSE
      BY <2>4 DEF Fail
    <2>5. ASSUME NEW x \in Workers, CommitTransition(x) \/ CommitPromotion(x) \/ CommitRollback(x)
          PROVE  ChampionsAgree'
      <3>1. Finished({x})
        BY <2>5 DEF CommitTransition, CommitPromotion, CommitRollback, Commit
      <3>2. x = w
        BY <2>1, <3>1, CommitsAreTold
      <3>3. ~CommitTransition(w)
        BY DEF CommitTransition, Commit
      <3> QED
        BY <2>5, <3>2, <3>3, ReleaseStep
    <2> QED
      BY <2>2, <2>3, <2>4, <2>5 DEF Next, Actors
  <1> QED
    BY <1>1, CurrentInvariance, PTL DEF Spec, ReleaseSynchronises

=============================================================================
