--------------------------- MODULE MLCircuitProofs ---------------------------
(***************************************************************************)
(* The circuit of the ML client, for any number of callers and any         *)
(* settings: one probe at a time when a call is shorter than the recovery. *)
(***************************************************************************)
EXTENDS MLCircuit, FiniteSetTheorems, TLAPS

\* While the circuit is open, every call in flight is at least as old as the
\* opening: the attempts before the present one lasted Timeout at most.
OlderThanOpening ==
    state = "OPEN" =>
        \A c \in Pending : attempt[c] * Timeout + waited[c] >= openFor + Timeout

\* The probe is the one call in flight of a half-open circuit.
ProbeIsAlone ==
    /\ probe => state = "HALF_OPEN"
    /\ state = "HALF_OPEN" => probe /\ \E c \in Callers : Pending = {c}

CircuitInv == TypeOK /\ OpenAtThreshold /\ OlderThanOpening /\ (Patient => ProbeIsAlone)

-----------------------------------------------------------------------------
LEMMA TypeStep == TypeOK /\ [Next]_vars => TypeOK'
  <1> SUFFICES ASSUME TypeOK, [Next]_vars
               PROVE  TypeOK'
    OBVIOUS
  <1> USE CircuitAssumption DEF TypeOK, CircuitState, Attempts, Pending
  <1>1. ASSUME NEW c \in Callers, Admit(c)
        PROVE  TypeOK'
    BY <1>1 DEF Admit, HalfOpen, TimeIsOver
  <1>2. ASSUME NEW c \in Callers, Retry(c)
        PROVE  TypeOK'
    BY <1>2 DEF Retry, breaker
  <1>3. ASSUME NEW c \in Callers, End(c)
        PROVE  TypeOK'
    <2>1. Finish(c) /\ (RecordFailure \/ RecordSuccess)
      BY <1>3 DEF End, GiveUp, Disregard, Accept
    <2>2. attempt' \in [Callers -> 0..Attempts] /\ waited' \in [Callers -> 0..Timeout]
      BY <2>1 DEF Finish
    <2>3. probe' \in BOOLEAN
      BY <2>1, Zenon DEF RecordFailure, RecordSuccess
    <2>4. openFor' \in 0..Recovery
      BY <2>1 DEF RecordFailure, RecordSuccess
    <2>5. state' \in CircuitState /\ failures' \in 0..FailureThreshold
      BY <2>1 DEF RecordFailure, RecordSuccess
    <2> QED
      BY <2>2, <2>3, <2>4, <2>5
  <1>4. CASE Tick
    BY <1>4 DEF Tick
  <1>5. CASE UNCHANGED vars
    BY <1>5 DEF vars, breaker
  <1> QED
    BY <1>1, <1>2, <1>3, <1>4, <1>5 DEF Next

LEMMA ThresholdStep == TypeOK /\ OpenAtThreshold /\ [Next]_vars => OpenAtThreshold'
  <1> SUFFICES ASSUME TypeOK, OpenAtThreshold, [Next]_vars
               PROVE  OpenAtThreshold'
    OBVIOUS
  <1> USE CircuitAssumption DEF TypeOK, CircuitState, OpenAtThreshold
  <1>1. ASSUME NEW c \in Callers, Admit(c)
        PROVE  OpenAtThreshold'
    BY <1>1 DEF Admit, Admits, HalfOpen, TimeIsOver
  <1>2. ASSUME NEW c \in Callers, Retry(c)
        PROVE  OpenAtThreshold'
    BY <1>2 DEF Retry, breaker
  <1>3. ASSUME NEW c \in Callers, End(c)
        PROVE  OpenAtThreshold'
    BY <1>3 DEF End, GiveUp, Disregard, Accept, RecordFailure, RecordSuccess, HalfOpen, TimeIsOver
  <1>4. CASE Tick
    BY <1>4 DEF Tick
  <1>5. CASE UNCHANGED vars
    BY <1>5 DEF vars, breaker
  <1> QED
    BY <1>1, <1>2, <1>3, <1>4, <1>5 DEF Next

LEMMA OlderStep == TypeOK /\ OlderThanOpening /\ [Next]_vars => OlderThanOpening'
  <1> SUFFICES ASSUME TypeOK, OlderThanOpening, [Next]_vars,
                      state' = "OPEN", NEW d \in Pending'
               PROVE  attempt'[d] * Timeout + waited'[d] >= openFor' + Timeout
    BY DEF OlderThanOpening
  <1>a. /\ d \in Callers
        /\ attempt[d] \in Nat /\ waited[d] \in 0..Timeout
        /\ openFor \in Nat /\ Timeout \in Nat \ {0}
    BY CircuitAssumption DEF TypeOK, Pending, Attempts
  <1>1. ASSUME NEW c \in Callers, Admit(c)
        PROVE  FALSE
    BY <1>1 DEF Admit, Admits, HalfOpen, TimeIsOver
  <1>2. ASSUME NEW c \in Callers, Retry(c)
        PROVE  attempt'[d] * Timeout + waited'[d] >= openFor' + Timeout
    <2>1. d \in Pending /\ state = "OPEN" /\ openFor' = openFor
      BY <1>2, <1>a DEF Retry, breaker, Pending, TypeOK
    <2>2. attempt[d] * Timeout + waited[d] >= openFor + Timeout
      BY <2>1 DEF OlderThanOpening
    <2>3. CASE d = c
      <3>1. attempt'[d] = attempt[d] + 1 /\ waited'[d] = 0
        BY <1>2, <2>3, <1>a DEF Retry, TypeOK
      <3>2. (attempt[d] + 1) * Timeout = attempt[d] * Timeout + Timeout
        BY <1>a
      <3>3. attempt[d] * Timeout \in Nat
        BY <1>a
      <3> QED
        BY <1>a, <2>1, <2>2, <3>1, <3>2, <3>3
    <2>4. CASE d # c
      BY <1>2, <2>1, <2>2, <2>4, <1>a DEF Retry, TypeOK
    <2> QED
      BY <2>3, <2>4
  <1>3. ASSUME NEW c \in Callers, End(c)
        PROVE  attempt'[d] * Timeout + waited'[d] >= openFor' + Timeout
    <2>1. openFor' = 0
      BY <1>3 DEF End, GiveUp, Disregard, Accept, RecordFailure, RecordSuccess
    <2>2. Finish(c)
      BY <1>3 DEF End, GiveUp, Disregard, Accept
    <2>3. d # c /\ attempt'[d] = attempt[d] /\ waited'[d] = waited[d] /\ attempt[d] >= 1
      BY <2>2, <1>a DEF Finish, TypeOK, Pending
    <2>4. attempt[d] * Timeout >= Timeout
      BY <2>3, <1>a
    <2>5. attempt[d] * Timeout \in Nat
      BY <1>a
    <2> QED
      BY <1>a, <2>1, <2>3, <2>4, <2>5
  <1>4. CASE Tick
    <2>1. d \in Pending /\ state = "OPEN" /\ attempt'[d] = attempt[d]
      BY <1>4 DEF Tick, Pending
    <2>2. waited'[d] = waited[d] + 1
      BY <1>4, <2>1, <1>a DEF Tick
    <2>3. openFor' <= openFor + 1 /\ openFor' \in Nat
      BY <1>4, <1>a DEF Tick
    <2>4. attempt[d] * Timeout + waited[d] >= openFor + Timeout
      BY <2>1 DEF OlderThanOpening
    <2>5. attempt[d] * Timeout \in Nat
      BY <1>a
    <2> QED
      BY <1>a, <2>1, <2>2, <2>3, <2>4, <2>5
  <1>5. CASE UNCHANGED vars
    BY <1>5 DEF vars, breaker, OlderThanOpening, Pending
  <1> QED
    BY <1>1, <1>2, <1>3, <1>4, <1>5 DEF Next

\* A circuit whose recovery time is over has no call in flight.
LEMMA NoneInFlight ==
    TypeOK /\ OlderThanOpening /\ Patient /\ TimeIsOver => Pending = {}
  <1> SUFFICES ASSUME TypeOK, OlderThanOpening, Patient, TimeIsOver, NEW c \in Pending
               PROVE  FALSE
    OBVIOUS
  <1>1. /\ attempt[c] \in 1..Attempts /\ waited[c] \in 0..Timeout
        /\ Timeout \in Nat \ {0} /\ Recovery \in Nat /\ Attempts \in Nat
    BY CircuitAssumption DEF TypeOK, Pending, Attempts
  <1>2. attempt[c] * Timeout + waited[c] >= Recovery + Timeout
    BY DEF TimeIsOver, OlderThanOpening
  <1>3. attempt[c] * Timeout <= Attempts * Timeout
    BY <1>1
  <1>4. attempt[c] * Timeout \in Nat /\ Attempts * Timeout \in Nat
    BY <1>1
  <1> QED
    BY <1>1, <1>2, <1>3, <1>4 DEF Patient

LEMMA ProbeStep ==
    TypeOK /\ OlderThanOpening /\ Patient /\ ProbeIsAlone /\ [Next]_vars => ProbeIsAlone'
  <1> SUFFICES ASSUME TypeOK, OlderThanOpening, Patient, ProbeIsAlone, [Next]_vars
               PROVE  ProbeIsAlone'
    OBVIOUS
  <1>1. ASSUME NEW c \in Callers, Admit(c)
        PROVE  ProbeIsAlone'
    <2>1. attempt' = [attempt EXCEPT ![c] = 1] /\ attempt[c] = 0
      BY <1>1 DEF Admit
    <2>2. CASE state = "CLOSED"
      BY <1>1, <2>2 DEF Admit, HalfOpen, TimeIsOver, ProbeIsAlone
    <2>3. CASE TimeIsOver
      <3>1. Pending = {}
        BY <2>3, NoneInFlight
      <3>2. Pending' = {c}
        BY <2>1, <3>1, CircuitAssumption DEF Pending, TypeOK, Attempts
      <3> QED
        BY <1>1, <2>3, <3>2 DEF Admit, HalfOpen, ProbeIsAlone
    <2>4. CASE state = "HALF_OPEN"
      BY <1>1, <2>4 DEF Admit, Admits, HalfOpen, ProbeIsOut, TimeIsOver, ProbeIsAlone
    <2> QED
      BY <1>1, <2>2, <2>3, <2>4 DEF Admit, Admits, HalfOpen
  <1>2. ASSUME NEW c \in Callers, Retry(c)
        PROVE  ProbeIsAlone'
    <2>1. Pending' = Pending
      BY <1>2, CircuitAssumption DEF Retry, Pending, TypeOK, Attempts
    <2> QED
      BY <1>2, <2>1 DEF Retry, breaker, ProbeIsAlone
  <1>3. ASSUME NEW c \in Callers, End(c)
        PROVE  ProbeIsAlone'
    <2>1. c \in Pending
      BY <1>3, CircuitAssumption DEF End, GiveUp, Disregard, Accept, Pending, Attempts
    <2>2. CASE Accept(c)
      BY <2>2 DEF Accept, RecordSuccess, ProbeIsAlone
    <2>3. CASE RecordFailure
      <3>1. state # "HALF_OPEN" => state' # "HALF_OPEN"
        BY <2>3, CircuitAssumption DEF RecordFailure
      <3>2. state = "HALF_OPEN" => state' = "OPEN"
        BY <2>3 DEF RecordFailure, HalfOpen
      <3> QED
        BY <2>3, <3>1, <3>2 DEF RecordFailure, ProbeIsAlone
    <2> QED
      BY <1>3, <2>2, <2>3 DEF End, GiveUp, Disregard
  <1>4. CASE Tick
    <2>1. Pending' = Pending
      BY <1>4 DEF Tick, Pending
    <2> QED
      BY <1>4, <2>1 DEF Tick, ProbeIsAlone
  <1>5. CASE UNCHANGED vars
    BY <1>5 DEF vars, breaker, ProbeIsAlone, Pending
  <1> QED
    BY <1>1, <1>2, <1>3, <1>4, <1>5 DEF Next

-----------------------------------------------------------------------------
LEMMA CircuitInvariance == Spec => []CircuitInv
  <1>1. Init => CircuitInv
    <2> SUFFICES ASSUME Init PROVE CircuitInv
      OBVIOUS
    <2>a. probe \in BOOLEAN
      BY Zenon DEF Init
    <2>1. TypeOK
      BY <2>a, CircuitAssumption DEF Init, TypeOK, CircuitState, Attempts
    <2>2. OpenAtThreshold /\ OlderThanOpening /\ ProbeIsAlone
      BY CircuitAssumption DEF Init, OpenAtThreshold, OlderThanOpening, ProbeIsAlone
    <2> QED
      BY <2>1, <2>2 DEF CircuitInv
  <1>2. CircuitInv /\ [Next]_vars => CircuitInv'
    <2> SUFFICES ASSUME CircuitInv, [Next]_vars
                 PROVE  CircuitInv'
      OBVIOUS
    <2>1. Patient' <=> Patient
      BY DEF Patient, Attempts
    <2> QED
      BY <2>1, TypeStep, ThresholdStep, OlderStep, ProbeStep DEF CircuitInv
  <1> QED
    BY <1>1, <1>2, PTL DEF Spec

\* The state of the breaker and of the calls keeps its type.
THEOREM CircuitTypeCorrect == Spec => []TypeOK
  <1>1. CircuitInv => TypeOK
    BY DEF CircuitInv
  <1> QED
    BY <1>1, CircuitInvariance, PTL

\* The circuit of the ML client is not closed exactly when as many calls as the
\* threshold says failed since the last success.
THEOREM OpensAtThreshold == Spec => []OpenAtThreshold
  <1>1. CircuitInv => OpenAtThreshold
    BY DEF CircuitInv
  <1> QED
    BY <1>1, CircuitInvariance, PTL

\* If a call with all its retries is shorter than the recovery, a half-open circuit has
\* its probe in flight and nothing else, however many callers there are.
THEOREM OneProbe == Spec => []SingleProbe
  <1>1. CircuitInv => SingleProbe
    <2> SUFFICES ASSUME CircuitInv, Patient
                 PROVE  /\ state = "HALF_OPEN" => probe /\ Cardinality(Pending) = 1
                        /\ TimeIsOver => Pending = {}
      BY DEF SingleProbe
    <2>1. \A c \in Callers : Pending = {c} => Cardinality(Pending) = 1
      BY FS_Singleton
    <2> QED
      BY <2>1, NoneInFlight DEF CircuitInv, ProbeIsAlone
  <1> QED
    BY <1>1, CircuitInvariance, PTL
=============================================================================
