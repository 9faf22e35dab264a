----------------------------- MODULE MLCircuit ------------------------------
(***************************************************************************)
(* ResilientMLClient and its CircuitBreaker (resilience/ml_client.py): how *)
(* opportunity-service asks ml-engine for scores, retries, and stops       *)
(* asking for a while when too many calls fail.                            *)
(*                                                                         *)
(* The breaker is shared by the generation requests of one process, which  *)
(* run on one event loop: what a call does between two awaits is one step. *)
(* Time is a number of ticks, and a pending attempt ends within Timeout    *)
(* (asyncio.wait_for).                                                     *)
(***************************************************************************)
EXTENDS Naturals, FiniteSets

CONSTANTS
    Callers,           \* generation requests in flight, each with one score at a time
    FailureThreshold,  \* ML_CIRCUIT_FAILURE_THRESHOLD
    Recovery,          \* ML_CIRCUIT_RECOVERY_SECONDS, in ticks
    Timeout,           \* ML_TIMEOUT_SECONDS, in ticks
    MaxRetries         \* ML_MAX_RETRIES

ASSUME CircuitAssumption ==
    /\ FailureThreshold \in Nat \ {0}
    /\ Recovery \in Nat \ {0}
    /\ Timeout \in Nat \ {0}
    /\ MaxRetries \in Nat

VARIABLES
    state,     \* CircuitBreaker._state
    failures,  \* _failure_count (counted no further than the threshold)
    probe,     \* _half_open_probe
    openFor,   \* ticks since _opened_at, while OPEN (counted no further than Recovery)
    attempt,   \* attempt[c]: the attempts c has made for its score, 0 when it waits for none
    waited     \* waited[c]: the ticks its present attempt has taken

breaker == <<state, failures, probe, openFor>>
vars == <<breaker, attempt, waited>>

CircuitState == {"CLOSED", "OPEN", "HALF_OPEN"}
Attempts == MaxRetries + 1

Pending == {c \in Callers : attempt[c] > 0}

TypeOK ==
    /\ state \in CircuitState
    /\ failures \in 0..FailureThreshold
    /\ probe \in BOOLEAN
    /\ openFor \in 0..Recovery
    /\ attempt \in [Callers -> 0..Attempts]
    /\ waited \in [Callers -> 0..Timeout]

Init ==
    /\ state = "CLOSED"
    /\ failures = 0
    /\ probe = FALSE
    /\ openFor = 0
    /\ attempt = [c \in Callers |-> 0]
    /\ waited = [c \in Callers |-> 0]

-----------------------------------------------------------------------------
(* The breaker *)

\* _refresh_locked: an OPEN circuit whose time is over is HALF_OPEN, without a probe.
TimeIsOver == state = "OPEN" /\ openFor = Recovery

HalfOpen == state = "HALF_OPEN" \/ TimeIsOver
ProbeIsOut == probe /\ ~TimeIsOver

\* allow_request would answer yes.
Admits == state = "CLOSED" \/ (HalfOpen /\ ~ProbeIsOut)

RecordSuccess ==
    /\ state' = "CLOSED"
    /\ failures' = 0
    /\ openFor' = 0
    /\ probe' = FALSE

\* Fault: the circuit opens one failure late.
RecordFailureLate ==
    /\ probe' = FALSE
    /\ openFor' = 0
    /\ IF HalfOpen
       THEN state' = "OPEN" /\ UNCHANGED failures
       ELSE /\ failures' = IF failures < FailureThreshold THEN failures + 1 ELSE failures
            /\ state' = IF failures >= FailureThreshold THEN "OPEN" ELSE state

RecordFailure ==
    /\ probe' = FALSE
    /\ openFor' = 0
    /\ IF HalfOpen
       THEN state' = "OPEN" /\ UNCHANGED failures
       ELSE /\ failures' = IF failures < FailureThreshold THEN failures + 1 ELSE failures
            /\ state' = IF failures' >= FailureThreshold THEN "OPEN" ELSE state

-----------------------------------------------------------------------------
(* ResilientMLClient.score *)

\* Fault: the probe of a half-open circuit is not remembered.
AdmitUncounted(c) ==
    /\ attempt[c] = 0
    /\ Admits
    /\ state' = IF HalfOpen THEN "HALF_OPEN" ELSE state
    /\ probe' = FALSE
    /\ openFor' = 0
    /\ attempt' = [attempt EXCEPT ![c] = 1]
    /\ waited' = [waited EXCEPT ![c] = 0]
    /\ UNCHANGED failures

\* allow_request says yes: the first attempt starts.
Admit(c) ==
    /\ attempt[c] = 0
    /\ Admits
    /\ state' = IF HalfOpen THEN "HALF_OPEN" ELSE state
    /\ probe' = HalfOpen
    /\ openFor' = 0
    /\ attempt' = [attempt EXCEPT ![c] = 1]
    /\ waited' = [waited EXCEPT ![c] = 0]
    /\ UNCHANGED failures

Finish(c) ==
    /\ attempt' = [attempt EXCEPT ![c] = 0]
    /\ waited' = [waited EXCEPT ![c] = 0]

\* Fault: one retry too many.
RetryOnceMore(c) ==
    /\ attempt[c] \in 1..Attempts
    /\ attempt' = [attempt EXCEPT ![c] = @ + 1]
    /\ waited' = [waited EXCEPT ![c] = 0]
    /\ UNCHANGED breaker

\* A timeout, a network error, a 429 or a 5xx with attempts left: the next one starts
\* at once.
Retry(c) ==
    /\ attempt[c] \in 1..MaxRetries
    /\ attempt' = [attempt EXCEPT ![c] = @ + 1]
    /\ waited' = [waited EXCEPT ![c] = 0]
    /\ UNCHANGED breaker

\* The last attempt ends in a timeout, a network error, a 429 or a 5xx.
GiveUp(c) ==
    /\ attempt[c] = Attempts
    /\ RecordFailure
    /\ Finish(c)

\* Fault: an answer that cannot be used is no failure of the dependency.
DisregardUnrecorded(c) ==
    /\ c \in Pending
    /\ Finish(c)
    /\ UNCHANGED breaker

\* Another error status, or a score that is absent or stale: no retry, a failure.
Disregard(c) ==
    /\ c \in Pending
    /\ RecordFailure
    /\ Finish(c)

\* A fresh score, whatever happened to the circuit since the call was admitted.
Accept(c) ==
    /\ c \in Pending
    /\ RecordSuccess
    /\ Finish(c)

\* Time passes, until an attempt of somebody has timed out.
Tick ==
    /\ \A c \in Pending : waited[c] < Timeout
    /\ waited' = [c \in Callers |-> IF c \in Pending THEN waited[c] + 1 ELSE 0]
    /\ openFor' = IF state = "OPEN" /\ openFor < Recovery THEN openFor + 1 ELSE openFor
    /\ UNCHANGED <<state, failures, probe, attempt>>

End(c) == GiveUp(c) \/ Disregard(c) \/ Accept(c)

Next == (\E c \in Callers : Admit(c) \/ Retry(c) \/ End(c)) \/ Tick

\* Clocks advance, and the event loop resumes an attempt that is over.  Nobody needs
\* to ask for a score.
Fairness == WF_vars(Tick) /\ \A c \in Callers : WF_vars(Retry(c) \/ End(c))

Spec == Init /\ [][Next]_vars /\ Fairness

-----------------------------------------------------------------------------
\* The calls of a closed circuit are over before it is half open.
Patient == Attempts * Timeout < Recovery

\* A half-open circuit has one call in flight and no other, the probe, although calls
\* admitted before it opened go on, fail and succeed while it is open.
SingleProbe ==
    Patient => /\ state = "HALF_OPEN" => probe /\ Cardinality(Pending) = 1
               /\ TimeIsOver => Pending = {}

\* The circuit is open or half open from the failure that reaches the threshold to the
\* next success, whoever made the calls.
OpenAtThreshold == state # "CLOSED" <=> failures = FailureThreshold

\* A circuit that refuses calls admits one again, although its probe times out or
\* answers nonsense and whether or not anybody asks in the meantime.
NeverLockedOut == ~Admits ~> Admits

=============================================================================
