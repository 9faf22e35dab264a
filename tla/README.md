# BOA SME Opportunity Intelligence: a TLA+ verification project

The system recommends commercial actions for the SME customers of a bank. It imports the bank's data, computes metrics,
signals and features, scores them, and lets rules decide what to propose; rules, weights and models are governed
artifacts, written by one person and reviewed by another; what relationship managers report of a proposal becomes the
labels of the next model. This directory models that chain and its governance, checks it with TLC and proves the
properties that matter most with TLAPS. Paths such as `rules/service.py` are relative to `src/backend/src/boa_oi/`.

1. [Inventory](#1-inventory) · 2. [Modules](#2-modules-and-the-code-they-model) · 3. [Runs](#3-runs) ·
4. [Findings](#4-findings) · 5. [Proofs](#5-proofs) · 6. [Limits](#6-limits-of-the-models) · 7. [Plan](#7-plan)

To check a run: `tlc -workers 2 -config <cfg> <module>`; to check the proofs of a module: `tlapm <module>.tla`.
`PROJECT.json` lists the runs (seven more configurations, which section 4 names, end with the counterexample of a finding
and are not in it), the hazards each property is for, the source lines each definition models, and for every
property of a passing run a fault of the code that breaks it. Operators marked "Fault:" in a module are those faults; no
specification uses them.

## 1. Inventory

Every service is a FastAPI application over one PostgreSQL database, one uvicorn process per service
(`infrastructure/docker/backend-entrypoint.sh`). Handlers written with `def` run in worker threads; `async def`
handlers run on the event loop and use the same synchronous sessions. A request has one transaction at READ COMMITTED,
which `get_session` (`platform.py`) commits when the handler is done and rolls back when it raises. Whether the commit
comes before the answer depends on the release of FastAPI: from 0.118 on a dependency is closed after the answer was
sent, and `pyproject.toml` allows both (`fastapi>=0.115,<1`). Modules where it matters take both orders (`early`).

### From the bank to a score

**Imports** (customer, account, transaction, product services) and **banking integration**, with **mock banking** as
the source and the **service clients** (`http_clients.py`) in between.
State: the rows of the services, `import_receipts` of each, `import_batches`, the cached service token. Operations:
`import_all` and `import_transactions` (fetches, then up to four posts, each made idempotent by a receipt, then the row
of the batch), the import of each service. Hard: a failure between two posts; a call that timed out and goes on; a retry
that meets the first; data that changed at the bank; a token that expired; answers before commits. Correct when: what
is accepted under a key is one fetch, a key is applied once, every import is answered.

**Analytics, signals, feature store.**
State: `metric_snapshots`, `signals`, `feature_materializations`, one row per customer and day. Operations: recompute,
evaluate, materialize, each a read of other services page by page and then an upsert, at an `asOf` the client sends.
Hard: pages over tables that change; the day that changes between two services; two runs on one row; a caller that gives
up while the service goes on. Correct when: no transaction is missed, nothing observable only later is used, and a
pipeline that is alone scores what it computed. **Gateway**: the pipeline route that calls them one after the other.

**ML engine**: one score per customer, day and model, of a materialized vector; **ML client** (`resilience/ml_client.py`,
in opportunity-service): the circuit breaker and the calls in flight. Hard: calls admitted before the circuit opened end
after it; timeouts and retries; the probe of a half-open circuit. Correct when: the circuit opens at its threshold,
probes with one call alone, and never refuses for ever.

**Rule evaluation** (`rules/domain.py`). Evaluation of a condition tree on metrics; pure. Correct when a rule matches if
it is TRUE in the three-valued logic that `docs/rule-studio.md` describes.

**Opportunity generation** (opportunity-service).
State: `opportunity_rules` (versions of rules.yaml configurations), `opportunities`. Operations: `POST
/opportunities/generate` (a batch over customers: engine candidates and Rule Studio candidates), `PATCH
/admin/rules/{id}`. Calls six services; between these awaits it keeps row locks. Hard: batches that overlap, an update
between the read of a configuration and the look-up of its row, failures halfway. Correct when: a stored opportunity
refers to a rule row of the version that decided it, the history of a rule only grows, batches end.

**Actions and feedback** (action-service, and the labels of ml-engine).
State: `opportunity_actions` (one per idempotency key), `action_outcomes`, `outcome_label_snapshots`. Operations: create
an action, update its status and outcome, materialize the labels of a snapshot. Hard: two creations with one key around
an await; a conversion whose evidence an update replaces; updates of one action that lock nothing; a label made while
outcomes arrive, by one request or by two. Correct when: an answer is of the key's own content, conversions follow
engagements, what is counted and learned from is on record, the last outcome wins.

### Governed artifacts

**Rule Studio** (rule-management-service, rule-simulation-service).
State: `rules` (status, current and active version), `rule_versions`, `rule_approvals`, `rule_simulations`,
`rule_audit_logs`. Operations: create, duplicate, update, validate, simulate, submit, approve, publish (which also
activates), disable, rollback. All but the two insertions lock the row of the rule first. Read by rule-engine-service,
which evaluates the version of a rule whose row and version row are both ACTIVE.
Hard: requests on one rule from several workers, read-then-commit, a worker that dies holding the lock, long sequences
of edits and rollbacks between reviews. Correct when: production evaluates at most one version of a rule; it was
simulated, submitted and approved by somebody who did not write it; what was reviewed is what goes live; the tables and
the audit trail agree; requests are serialised.

**Scoring policies** (routes of opportunity-service).
State: `scoring_policies` (current and active version), `scoring_policy_versions`, `scoring_policy_audit_logs`; one
ACTIVE version in the whole table. Operations: creation, revision, simulate, submit, approve, publish, activate,
disable, rollback. Every request rebuilds an aggregate from the rows, whose constructor refuses an inconsistent history.
The handlers are synchronous, in worker threads; none locks a row or compares a version, and `If-Match`, which
`docs/workstreams/scoring-policy.md:112` has, is not read. Hard: requests that overlap anywhere between their reads and
their commits; the aggregate changes its latest version and the service writes the row the URL names; validity windows
at the boundary; a stored history that the constructor refuses. Correct when: what is in effect went through the whole
review; versions are numbered without a gap; a request that nobody disturbed leaves a history that loads, a pointer
that is right and no gap in time.

**Model governance** (MLOps routes of ml-engine).
State: `ml.training_runs` (the workflow), `ml.model_registry` (what scoring reads), governance audit log. Operations:
register, validate lineage, submit, approve, promote, retire, rollback. The repository loads all rows, decides without a
lock, saves whole rows. Hard: overlapping requests that overwrite each other's columns, two tables for one fact.
Correct when: scoring has exactly one model, it was reviewed, and a release keeps the two tables in agreement.

### Around them

**Platform** (sessions: modelled; authentication, paging, error envelopes: not) and **database** (keys, unique and
partial indexes, CHECK constraints and column widths are guards of the models; migrations are taken at their result).

### Not modelled

**Portfolio and opportunity queries**: reads that change no state. **Confidence, priority, decision audit**: weighted
sums of real numbers with rounding, and a hash; unit tests reach what can be wrong in them, TLC does not. **Monitoring,
readiness**: an observation is one row with its audit row, readiness is a read. **Frontend**: no state that outlives a
page. **Infrastructure**: only that there is one process per service is used. Of partly modelled components the parts
left out are named in section 6.

`PROJECT.json` names every component with its status and reason, and 40 hazards at their lines. Three have no property:
two because what they describe happens (the early close of a circuit and mixed feature vectors, section 4), one because
it is a condition of other properties (the order of answer and commit).

## 2. Modules and the code they model

| Module | Models | Correspondence |
|---|---|---|
| `ImportPromise` | what an import promises | abstract: feeds that move, imports that read them, stores that take rows and receipt of one import at once, answers that are true of the receipts |
| `ImportPipeline` | `banking_integration_api.py`, the import of the four services, `http_clients.py` | a request is a coroutine with a step per await; a call is what its service does with it, which may outlive the wait; receipts and rows per service |
| `FinancialMetrics` | `analytics/service.py`, `signals/service.py`, `features/domain.py` | pure: the metric of a window, the signal detected in it, the feature vector |
| `DecisionPipeline` | `analytics_api.py`, `signal_api.py`, `feature_store_api.py`, the scores of `ml_engine_api.py`, the pipeline of `gateway_api.py` | a run goes through stages; one step between two points where another can act; one table per service |
| `RuleEvaluation` | the evaluator of `rules/domain.py`, `confidence` of a match | pure: conditions, groups, one rule on the metrics of a customer |
| `RuleTruth` | what `docs/rule-studio.md:652-662` says a rule means | reference definition, in three values |
| `MLCircuit` | `resilience/ml_client.py` | one action for what a call does between two awaits; time in ticks |
| `OpportunityGeneration` | `generate`, `update_rule`, `configured_rules` of `opportunity_api.py` | one step between two points where somebody else can act: an await, a statement that may wait or conflict, a commit |
| `ActionFeedback` | `action_api.py`, `materialize_outcomes` of `ml_engine_api.py` | creations as coroutines on one loop with a flush that may wait; updates and materializations in threads that read, decide and write |
| `GovernedRelease` | what a governed artifact promises | abstract: phases none, open, reviewed, live, closed; steps Write, Review, Release, Close |
| `RuleStudio` | `rules/service.py`, `rule_management_api.py`, `rule_simulation_api.py`, `active_versions` | one variable per table; one action per request that commits; a refused request is no step |
| `RuleAudit` | the audit trail read as a history | a fold over the rows `record_audit` wrote |
| `RuleStudioRequests` | the same requests in worker threads | Accept/Receive, Acquire the row lock, Commit, Refuse, Fail; EXTENDS `RuleStudio` and reuses its actions as the commits |
| `ScoringPolicy` | `scoring_policy/domain.py`, `service.py`, `routes.py` | per worker: Receive, one action per read of a request, the decision in the domain, one commit per operation that writes the columns that differ from what was read |
| `MLOpsGovernance` | `mlops/service.py`, `mlops/routes.py` | a decision step on the rows as loaded and a commit step later, per worker |
| `*Proofs` | theorems, see section 5 | |
| `MC*` | the constants and bounds of the runs | |

How they compose. `RuleStudioRequests` extends `RuleStudio`, and its property `Serializable` is the specification of
`RuleStudio`: what the interleaved threads commit is what one-step requests could have done. `RuleStudio` instantiates
`GovernedRelease` under the mapping given in it (`ImplementsGovernedRelease`). So the chain from threads and locks to
the promise of governance is checked link by link, threads to requests and requests to the promise, by TLC and by proof.
`ImportPipeline` instantiates `ImportPromise` likewise (`ImplementsImportPromise`): its calls, time-outs, tokens,
sessions and batches are not in the promise, whose steps are one reading, one taking by a store, one answer, or the end
of all imports of a process. `DecisionPipeline` extends `FinancialMetrics`, which extends `RuleEvaluation`: the vector a
run scores contains what the evaluation of the published rules says of the metrics it computed. `RuleTruth` extends
`RuleEvaluation` to compare the two meanings of one rule. `OpportunityGeneration` takes what Rule Studio publishes as
the constant `Published` and keeps no score, so that neither the scoring policy nor the circuit enters it.
`ImportPipeline` ends where the transactions are in their table, `DecisionPipeline` begins there (its `Import` adds a
row at any time).

Choices worth knowing when reading the modules:

- A rule document of Rule Studio is one of a small set, of which some are valid; the validator is a predicate. Weights,
  dates and configurations likewise are values that can be told apart and nothing more. In `OpportunityGeneration` a
  configuration has three parts, its version, its terms and its switch, since updates set them one by one.
- `version` strings are modelled where they matter: a rule row's name is the version it began with and a sequence of
  stamps, each of which takes room in a column of 30 characters. So is the width of `input_hash` in `ImportPipeline`.
- Numbers that are compared are fractions `<<numerator, denominator>>`, never rounded.
- An imported source is one row with a version the bank gave it; columns an upsert sets only on insertion and those it
  updates have a version each. A payload is the versions it was fetched at.
- A flush that meets a unique key rolls the whole transaction back at once, before the handler has returned: that is
  SQLAlchemy's behaviour. SQLAlchemy also writes only the columns that differ from what was loaded, which decides
  what two overlapping updates leave (`ActionFeedback`, `DecisionPipeline`, `MLOpsGovernance`, `ScoringPolicy`).
- `ScoringPolicy` has two history variables: `foreign`, the rows that took the content of another version, and in a call
  `orderly`, that it found a sound history and that no other commit on its policy overlapped it. No guard reads them.
- The row locks of PostgreSQL and its waiting insertions are external to the repository and stated at the head of
  `RuleStudioRequests`.

## 3. Runs

States are distinct states TLC finds; every search is exhaustive within its bounds.

| Run | Instance | States | Question |
|---|---|---|---|
| `studio_lifecycle` | 1 rule and a second identifier that is created or copied, 3 versions, 3 actors, a good and a bad document | 89,187 | the lifecycle under any sequence of edits, rollbacks, reviews and releases |
| `studio_requests` | 2 workers, 1 rule and a second identifier, 2 versions, 2 actors | 230,980 | interleaved and dying requests, and insertions that race for an identifier |
| `policy` | 2 workers, 2 policies, 2 actors, up to 3 versions, 4 readings of the clock, symmetry; see the bounds below | 782,205 | requests that overlap without a lock |
| `mlops` | 2 versions, 2 requests at once, 2 persons, symmetry | 1,248,711 | overlapping governance requests |
| `circuit` | 3 callers, threshold 3, recovery 7, timeout 2, 1 retry | 1,355 | the breaker under concurrent calls |
| `generation` | 2 batches of 2 customers, 1 type, 1 rule of Rule Studio of another type, 1 update | 511,338 | what survives overlap, failure and update |
| `actions` | 2 keys, 2 opportunities, 2 creations, 2 updates and 2 materializers, 4 times, symmetry; see the bounds below | 2,254,767 | feedback that races, and the labels made of it |
| `imports` | 2 requests with one key, 2 versions of the bank's customers and transactions | 428,013 | retries, failures, late calls, expiry of the token, restarts |
| `pipeline` | 2 pipelines, 2 days, up to 3 transactions on pages of 1, 3 starts, symmetry | 1,645,360 | overlap, imports between pages, midnight, failures, restarts |
| `policy_unapproved`, `generation_overlap`, `pipeline_stale` | | | findings of section 4 |

### Rule Studio

`SingleActive`: at most one ACTIVE version, the one the rule points to. `ServedIsGoverned`: what the engine would
evaluate was simulated, submitted and approved by somebody other than its author. `AuditReplaysToState`: the trail alone
reconstructs every status. `ReviewIsOfOneVersion`: while a version is under review it stays current, with the document
and the author the reviewer saw. `ImplementsGovernedRelease`: the refinement. Its promise that a version is live at most
once, and that a closed one stays closed, is what the code does and not what the documentation asks of a rollback
(`RollbackRestores`, section 4): there a version that was live is made live again without another review. `RowsAgree`,
`StatusEarned`, `NoHalfPublication`, `PersistedAreValid` and `RulesAreIndependent` are proved (section 5) and no run
spends time on them.

With requests opened up: `Serializable`; `EveryRequestEnds`, although workers wait for one another and die with locks
held. Deadlock is checked in this run.

*Bounds.* Three versions are the least number for which one is live, one was replaced and one is being prepared, and for
a rollback to a version that is neither. A second identifier is enough for a duplication and for a race of insertions;
what happens to a copy afterwards is what happens to the rule. Two workers are enough for every race on one row, since
the third waits as the second does. *Fairness.* `WF(Refuse \/ Commit)` per worker: a thread that holds what it needs
goes on. `SF(Acquire)`: the lock manager queues its waiters, so that one who waits for a lock released again and again
gets it. `Fail` has no fairness: nobody has to die.

### Scoring policies

`InEffectIsApproved`: weights in effect are the migration's, or were simulated, approved by the recorded approver, who
did not write them, and published, as the trail says. Two approvals, a late submission or a rollback decided on rows that
changed meanwhile do not get anything else in effect. It leaves out rows that took the content of another version
(`foreign`), of which `DefinitionIsAppendOnly` and `EffectIsApproved` show what can happen. `NumbersAreDense`: the
versions of a policy are numbered from 1 to its `current_version`, although revisions that overlap count from different
histories. `UndisturbedKeepsSound`: a request that found a sound history, names the latest version, sends no date in the
future or before the versions it ends (`Prudent`), and was not overlapped by another commit on its policy, leaves a sound
one: the domain loads it, the pointer names the ACTIVE version, and there is no gap without weights. Other requests may
break this; section 4 says how.

*Bounds* (the constraint `Bounded`). Two workers: every disagreement of rows is between what one read and another
committed. The policy of the migration has two versions and any requests; another policy is created and revised up to
version 3 while the first is untouched (`TwoPolicies`), so that revisions overlap on rows nothing else disturbs. Only
simulations name another version than the latest (`LatestNamed`): they are what most statuses allow, and the content
they carry over is marked `foreign`. An activation with a date of the client's is served alone (`DatedAlone`); 0 is
before every time the clock shows. Requests the domain must refuse are not followed to their refusal (`Hopeless`): they
write nothing. The clock advances whenever a request reads it, so that four readings bound how many transitions follow
one another. `admin` writes and approves, `approver` approves and operates, so that reviewing one's own work is
possible. The proofs have none of these bounds. The configurations of the findings take other shapes: one worker
(`_stray`, `_window`), nobody naming an old version (`_overlap`, `_window`), three versions and overlaps with a rollback
only (`_unapproved`). Safety only; no fairness is assumed.

### Model governance

`OneServed`: scoring has exactly one model, whatever overlaps. `ReleaseIsReviewed`: what is served or was promoted was
validated, submitted, approved by nobody who registered it and by somebody who did not promote it, although saves
overwrite columns. `ReleaseSynchronises`: a promotion or rollback that does not overlap with another request leaves both
tables naming the same champion. *Bounds.* Two requests are what it takes to lose an update, two versions besides the
migration's to replace and restore. Safety only; no fairness is assumed.

### Circuit breaker

`SingleProbe`: under `Patient` (a call with its retries is shorter than the recovery time, as by the default settings)
a half-open circuit has one call in flight and no other, though calls admitted earlier go on while it is open.
`OpenAtThreshold`: the circuit is not closed exactly while the failures are at the threshold. `NeverLockedOut`: a
circuit that refuses admits again, even if the probe is lost to a timeout or to nonsense.

*Bounds.* Threshold 3 is the default and three callers can reach it together; recovery 7 against 4 ticks of a call
keeps the order of the defaults (30 s against 4 s). *Fairness.* `WF(Tick)`: clocks advance. `WF(Retry \/ End)` per
call: `asyncio.wait_for` ends every attempt. Nobody is obliged to ask for a score.

### Opportunity generation

`DecidedByItsRule`: the rule row a stored opportunity refers to exists, and what decided it was a configuration of its
type that the history holds or rules.yaml has, switched on, of the very version that row has, whatever updates, rollbacks
and other batches came between its reading and its use. That it is the configuration OF the row is not true
(`DecidedByItsVersion`, section 4). `HistoryOnlyGrows`: no rule row is
rewritten, removed or reactivated. `AloneItEnds`: a batch without another one beside it ends, whatever sessions failed
before it. `TypeOK` includes that versions fit their column.

*Bounds.* Two batches and two customers are the least that lets each hold what the other needs; one update, of version
and terms or of terms alone, is enough to leave a configuration behind its row. *Fairness.* `SF(Answer \/ Fail)` and
`SF(End)`: service calls time out and asyncio's ready queue is first in, first out, so a continuation that is ready
again and again runs; weak fairness would be too little because the loop is taken by others in between. `WF` of the
statements and of `Close`: a statement that does not wait returns, a thread ends its session. Beginning a batch and
updating a rule are not obligations.

### Actions and feedback

`AnswersAgree`: who is told that the action of a key exists sent what that action is, whichever of the racing creations
wrote it. `ConvertedAfterEngagement`: a conversion recorded as an action has an engagement of its opportunity on record,
in an action or in the history of outcomes, although an update may have replaced the outcome that was the evidence.
`DashboardIsBacked`: what is counted as converted or dismissed, from the actions as they are now, is in the history the
labels are made from.

Of labels: `LabelIsRecorded`, every column of a label is that of an outcome recorded in the window, however
many make it at once; `LastOutcomeWins`, a request that nobody wrote between its load and its write makes the label one
outcome of the window in all its columns, none of those it has seen being later. Two that overlap can mix them
(section 4). No liveness is stated: creations can stop the loop (section 4).

*Bounds.* A key and a second one are what a conversion and its evidence take; two creations are what it takes to race
for a key, two updates to overwrite one another. `MaxTime` 4 is the number of transactions that may write an outcome:
one before, two inside and one behind the window of times 1 and 2. Two requests make the label at once only where
one creation, of a type that engages nobody, has been sent (`TwoMakersWithOneCreation`); the two updates write outcomes
meanwhile, in any order of their commits. `Statuses` is empty: updates send no status, which
no other step would read. Keys, opportunities and requests are symmetric.

### Imports

`AcceptedIsOneFetch`: a request past its imports had exactly what it fetched accepted under its key by every service;
a retry never passes with a mixture of two fetches (of installations that commit before they answer; the other order can
lose what was answered). `EveryImportEnds`: a request that has begun is answered. `ImplementsImportPromise`: the
refinement; whoever wrote rows and receipt in two transactions would break it, and so would a key that is applied twice
or a conflict reported for a receipt that agrees. `AppliedOncePerKey` (rows change only together with a receipt that was
not there, and a receipt stays as it is) follows from it and is proved, not run.

*Bounds.* Two requests with one key are a retry or a rival; of the five sources two change at the bank, one that is
inserted and updated and one that is only inserted, once each. The JSON text of the body is as long as that
of a real one, so that no batch is stored (section 4); shorter texts, which make batches and their replays possible, are
covered by the proofs. Installations that answer early are explored with imports
of transactions over a database without the seed (`MCInit`). *Fairness.* `WF(RequestStep(r) /\ req[r].pc # "new")` per
request: a coroutine goes on, and httpx bounds the wait for each answer. Nothing is asked of the services, of the bank,
of the token's issuer or of the clients.

### Decision pipeline

`NothingIsMissed`: a recompute that has read its last page has every transaction that was there when it began, however
many are imported before, between and behind those it has read. `PointInTime`: nothing of a later day is in the features
of a day, also when the day changes between two stages, and nothing in its signals where commits come before answers.
`AloneItIsFresh`: a pipeline that ran alone, with commits before answers, has scored a vector of the metrics of its day,
of all transactions there were, with the strength the published rules have on these metrics, and that vector is the one
stored. The module of the run also asserts, as an assumption TLC evaluates, that on some hundreds of small rules the
evaluation and the documented meaning agree for positive rules and part for some others (the theorem of section 5, tried
before it was proved).

*Bounds.* Pages of one transaction make every insertion fall between two pages; three transactions are one before, one
at and one behind the page being read. Two days make one midnight. Three starts let one pipeline overlap with another
and one more find what they left. Where answers come before commits there are more interleavings, and two starts
(`SmallWhenEarly`), which may overlap and leave sessions open. Safety only.

`CHECK_DEADLOCK FALSE` is used where a bound ends the behaviour (the last version, the last stamp, the last day, all
requests answered) or, in `OpportunityGeneration` and `ActionFeedback`, where the process really stops.

## 4. Findings

Each has a configuration whose counterexample shows it; the first three are runs of `PROJECT.json`, the others are to be
called by hand.

- **A rollback can put weights in effect that nobody approved** (`policy_unapproved`, `EffectIsApproved`;
  `scoring_policy/service.py:519`). It writes status and window of its target only; a simulation of a new version under
  the target's number has replaced the rest meanwhile. `docs/workstreams/scoring-policy.md:22` has every ACTIVE version
  approved.
- **Two overlapping batches stop opportunity-service for ever** (`generation_overlap`, `EveryBatchEnds`;
  `opportunity_api.py:849`). A batch awaits a service with row locks held; the upsert of the second waits for them on
  the event loop, which the first needs to continue. No lock timeout is configured. `docs/test-plan.md:222` has two
  simultaneous generations as a supported case.
- **The signals of a day are those of the first day** (`pipeline_stale`, `SignalsOfTheDay`; `signal_api.py:233`).
  Observations are keyed by metric alone and the page has the latest `asOf` first, so the oldest snapshot is what is
  left. `docs/business-rules.md:177` has the current window decide.
- **A rollback of Rule Studio withdraws the rule** (`RuleStudio_rollback.cfg`, `RollbackRestores`;
  `rules/service.py:428`). It stores the target's document as a new DRAFT, any version being a target, and nothing of
  the rule is served until that draft is through the review. `docs/rule-studio.md:201`, `:695`, `:710`, `:972` and the
  blocking criterion RS-AC-17 (`docs/rule-studio-acceptance.md:306`) have a target that was approved before, which is
  ACTIVE again at once, the replaced version being DISABLED.
- **Two requests can make a scoring policy unusable** (`ScoringPolicy_overlap.cfg`, `HistoryLoads`;
  `scoring_policy/domain.py:344`). A publication sent twice, the second committing after the activation, writes
  PUBLISHED over ACTIVE; the aggregate refuses the rows, and so every later request, the rollback that could repair them
  too. Other pairs do likewise, an activation and a disabling of one version or a disabling and a rollback.
  `docs/workstreams/scoring-policy.md:112` has concurrent requests use `If-Match`.
- **A transition on an older version rewrites it** (`ScoringPolicy_stray.cfg`, `DefinitionIsAppendOnly`;
  `scoring_policy/service.py:465`), although no request overlaps: the row the URL names takes weights, author and status
  of the latest version. `docs/workstreams/scoring-policy.md:75` has the columns of a definition append-only.
- **A past effectiveFrom makes windows empty or negative** (`ScoringPolicy_window.cfg`, `WindowsAreOrdered`;
  `scoring_policy/service.py:450`), one request at a time, and the aggregate refuses them from then on.
  `docs/workstreams/scoring-policy.md:65` has `from < to`.
- **A label mixes two outcomes** (`ActionFeedback_mixed.cfg`, `LabelIsOfItsReference`; `ml_engine_api.py:336`). Two
  requests for one snapshot load the same label and write the columns that differ: a label CONTACTED keeps the value of
  a conversion. `docs/ml-integration-status.md:22` has label, value and reference of an outcome.
- **An opportunity refers to a rule row with other terms** (`OpportunityGeneration_terms.cfg`, `DecidedByItsVersion`;
  `opportunity_api.py:705`). The row is found by the version inside the configuration, which an update of terms leaves as
  it is. `docs/api.md:584` has every opportunity keep the version that decided it.
- **An import that every service accepted is not recorded** (`ImportPipeline_unrecorded.cfg`, `AcceptedIsRecorded`;
  `banking_integration_api.py:157`). The row of the batch takes the JSON text of the request, at least 96 characters,
  as its `input_hash`, a column of 64: PostgreSQL refuses it, the client gets an error and no batch is ever stored.
  `docs/data-model.md:122` says that status and hash make the import replayable and verifiable.

Also seen while modelling; the models behave this way, and no run is spent on them:

- Rule evaluation: `NOT`, `!=` and `NOT_IN` match where the metric is not available, which `docs/rule-studio.md:652-662`
  keeps UNKNOWN. This one is proved: `NegationOfUnknownMatches`.
- Rule Studio: an edit of a live rule withdraws it (`rules/service.py:315`), where `docs/rule-studio.md:188` says that
  the previous version keeps serving; whoever submitted a version may approve it if somebody else wrote it
  (`rules/service.py:367`, `rule-studio.md:725`); the retirement of a replaced version has no audit row of its own
  (`rules/service.py:408`, `rule-studio.md:935`).
- Circuit: the success of a call admitted before the circuit opened closes it (`ml_client.py:192`), where
  `docs/workstreams/fallback-rules-only.md:60` has it open for the recovery time.
- Model governance: retiring the champion changes the workflow's table and leaves scoring with it
  (`mlops/service.py:709`, `docs/ml-acceptance.md:62`), and a rollback then has no champion to start from; an approval
  decided before a promotion and saved after it puts the run back to APPROVED; of several former champions a rollback
  restores an arbitrary one (`mlops/service.py:482`).
- Generation: an update of a rule stamps the row's version and not the configuration's, so that every later batch of the
  type looks for the old version among active rows, misses it and inserts it again, against the unique key
  (`opportunity_api.py:1027`; `docs/api.md:580-584` describes the update as creating a new version); a Rule Studio rule
  of a type that rules.yaml does not have inserts an active row on which `configured_rules` then fails for every later
  batch (`opportunity_api.py:307`); disabling a rule row brings back the configuration of rules.yaml; evidence rows are
  not refreshed (`opportunity_api.py:899`).
- Actions: the flush of a second creation with the same key waits, on the event loop, for a row the first can only
  commit through that loop (`action_api.py:359`), as batches of generation do.
- Imports: over a seeded database they fail, since the seed gives relationship managers other identifiers
  (`database/seed/generate.py:248`, `customer_api.py:278`), and products of customers get a second row under another
  identifier; a retry with its key after the bank's data changed is refused with 409 for ever; an older import that
  comes late overwrites newer rows; a service token that has expired is answered 401 until the process ends
  (`http_clients.py:25`).
- Pipeline: an earlier transaction imported between two pages makes one at the boundary count twice (OFFSET paging,
  `analytics_api.py:216`); two materializations of one day that overlap write the columns that differ and can leave a
  vector of one with the checksum of the other (`feature_store_api.py:209`, `docs/ml-engine.md:144`); `scoredAt` is the
  creation time of a row that an update does not refresh (`ml/service.py:197`).

## 5. Proofs

Every safety property the passing runs check, invariant or action property, is also a theorem, for any number of rules,
requests, workers, customers, transactions and so on: for every value of the constants that satisfies the assumptions of
the modules. These are `RolesAssumption`, `DefinitionsAssumption`, `BoundAssumption` (`RuleStudio`), `WorkersAssumption`
(`RuleStudioRequests`), `PolicyAssumption`, `CircuitAssumption`, `GovernanceAssumption`, `GenerationAssumption`,
`MetricsAssumption`, `PipelineAssumption`, `TypesAssumption` and `TimeAssumption` (`ActionFeedback`), `TextAssumption`
and `VersionAssumption` (`ImportPipeline`), and the `NoneAssumption`s, that what stands for no value is none. They say
which constants are numbers and which sets are disjoint; TLC evaluates them in the runs. Only the theorems about the
abstract specifications and about single rules have a hypothesis of their own. Each action is one lemma,
with a step per conjunct it can disturb; TLC had checked every invariant before.

- **`RuleStudioProofs`**, on requests: `Invariance` proves
  `IInv == TypeOK /\ RowsAgree /\ SingleActive /\ StatusEarned /\ NoHalfPublication /\ PersistedAreValid`. The
  conjuncts need each other: `SingleActive` survives a publication only because `RowsAgree` ties the pointer to the
  ACTIVE row it retires, and `StatusEarned` says what an approved version owes before it is published. From it follow
  `TypeCorrect`, `OneActiveVersion`, `TablesAgree`, `StoredDocumentsAreValid`, `ProductionIsGoverned`, and the action
  properties `ReviewIsProtected`, `OneRuleAtATime`.
  *On the audit trail*: `TrailTellsTheState`. Every request adds rows whose reading changes the statuses as the request
  does (reading one row more is a lemma about the fold), and the pointer of `RowsAgree` is the version an activation
  implicitly retires.
  *On the promise*: `Implements`, the initial states map to initial states and under `IInv` every request is a Write,
  Review, Release or Close of `GovernedRelease`, or a stutter; `GovernedReleaseIsSafe`, a governed release has one live
  version per artifact at most and nobody reviews his own work.
  *On threads and locks*: `RequestsAreSerializable`, what workers commit is a step of `RuleStudio`, or nothing. The
  invariant (`RqInv`) has that a call that holds the row of its rule still sees it as it is (`LockedReadsStayCurrent`):
  a row is written by its holder only, and a worker that dies gives the lock back with nothing written. The guards a
  request passed on what it read are then true when it commits. `OverlappingRequestsAreGoverned` follows.
- **`ScoringPolicyProofs`**, for any number of workers and every overlap: four layers. `TypeInv` gives
  `PolicyTypeCorrect`. `DenseInv` gives `NumbersStayDense`: a request remembers a history that was there (`Remembers`:
  rows are only added, so what it saw present is present), the version it makes is the next of that history
  (`Decided`), and the row under a number nobody has given is blank (`Blank`).
  `BackedInv` gives `EffectIsVetted`: a row's status is owed to the trail (`Backed`, `RowsBacked`), and so is that of a
  row in the memory of a request (`SeenBacked`, `Follows`); the trail only grows, so a decision on stale rows is still
  backed when it commits, and a commit that mixes columns of two requests mixes columns that are each backed. `OrderInv`
  gives `UndisturbedStaysSound`: an orderly request still sees the rows as they are (`Undisturbed`, `SoundRows`), so
  what it writes is what it decided.
- **`MLOpsProofs`**: `GovernanceTypeCorrect`, `AlwaysOneModel`, `ReviewBeforeRelease`. A pending request carries what
  it read, so the invariant has a part for each of runs, audits, registry and requests: what a request will write
  was already backed by audit rows when it was decided, and audit rows are never removed. `ReleasesSynchronise`: a
  release during which nobody committed still sees its own run and the champion as they are (`FreshAreCurrent`), so its
  saves write what it decided, and the champion it retires is the only one in either table.
- **`MLCircuitProofs`**: `CircuitTypeCorrect`, `OpensAtThreshold`, `OneProbe`. The invariant adds to the properties that
  a call in flight while the circuit is open is older than the opening (`OlderThanOpening`): it has used up, in attempts
  and in ticks, at least as much time as the circuit has been open, so by the time of half-opening none is left.
- **`ActionFeedbackProofs`**: `AnswersStayAgreed`, `ConversionsFollowEngagement`, `DashboardStaysBacked` from
  `FeedbackInv == FeedbackType /\ OneWriter /\ AnswersAgree /\ LoadedIsOfKey /\ OutcomesAreRecorded /\ EngagedFirst`.
  One creation at a time has inserted a key and not committed (`OneWriter`), the action an update has loaded is of the
  opportunity its key still has (`LoadedIsOfKey`), and an outcome an action shows, as well as the one it began with, was
  recorded in the transaction that set it and stays (`OutcomesAreRecorded`). `FeedbackTypeCorrect` adds the label and
  its materializers. `LabelsAreRecorded`, for any number of materializers: what one has seen stays recorded
  (`SeenIsRecorded`), and each column it merges is that of such an outcome or was in the label before
  (`ColumnIsRecorded`). `TheLastOutcomeWins`: the last of finitely many outcomes exists, by well-foundedness of the
  numbers that order them (`LatestIsSeen`), and merging into the label that was loaded gives its row (`MergedIsRow`).
- **`ImportPipelineProofs`**: `AcceptedImportsAreOneFetch` from `ImportInv`, which says of a request that every service
  that has acknowledged its post has the receipt of this very payload under its key (`Stored`, where commits come before
  answers), and that a request and its call are where they can be (`Placed`). `KeysAreAppliedOnce`: a service that
  writes has no receipt under the key, a session that ends late neither. `ImportTypeCorrect` includes sessions that were
  answered and not ended (`EndingFits`).
  *On the promise*: `ImportsKeepTheirPromise`, the refinement, from `PromiseInv`, which adds what the mapping needs: what
  is posted was fetched (`FetchesDone`), a session that ends late ends with what some request posted and no longer
  changes, its client gone or not (`EndingIsPosted`), a conflict is still one when the client hears of it
  (`RefusalHolds`), a batch is that of an accepted import of everything (`BatchesAreAccepted`), a row has both its
  columns (`RowsAreWhole`). A fetch maps to a reading, the end of a session that stores to a taking, whether it comes
  before its answer or after, each answer to a telling whose condition `Stored`, `RefusalHolds` or `BatchesAreAccepted`
  gives, a restart to the abandoning of all running imports, and everything else to a stutter. It holds for any
  lengths of bodies, of installations of both orders. `PromiseIsSafe`, for any imports, stores and feeds, where each
  kind of import has its stores and each store its feeds (`Shape`, the theorem's hypothesis): the receipts of a store
  are of data read from the feeds, one to a key, with rows in the table, no row is newer than its feed, and who was told
  after the commits that an import is accepted finds it in every store it was for.
- **`OpportunityGenerationProofs`**: `GenerationTypeCorrect` and `HistoriesOnlyGrow` from `RowsInv`: rows in sight of a
  session stay in sight, no two sessions have inserted the same row, and the stamps of a row are of the past, so that a
  row an update makes is a new one. `DecisionsFollowTheirRules`, for any updates, from
  `IInv == TypeOK /\ RowsInv /\ DecisionsInv`: a configuration a session has read is one the history holds and goes on
  holding (`StaysStored`, since rows are never rewritten), and what it decides, inserts and writes names the version of
  that configuration (`SessionDecisions`).
- **`DecisionPipelineProofs`**, on the pipeline: `PipelineTypeCorrect` and `FeaturesArePointInTime` from `PointInv`: the
  rows of a day never leave the tables, so that what was read of a day up to this one remains so (`VectorFor`), and a
  session that is still to end holds only what may be stored for its day (`Storable`). `PagesMissNothing` from `ReadInv`:
  a transaction that was there at the beginning is among the rows read, or at least as many transactions sort before
  it as rows were read. Insertions only make this number greater; a page takes the next ones in order, for which
  `Ordered` is shown to have each transaction at the place of its rank. `AlonePipelinesAreFresh` from `FreshInv`: while
  a pipeline is alone all others are idle and no session is open, so what each stage reads is what the stage before
  stored, and the sample of its metric counts at least the transactions that were there at the beginning.
  *On rules*: `PositiveRulesAreThreeValued`, a rule without `NOT`, `!=` and `NOT_IN` matches exactly if it is TRUE in
  three values; `NegationOfUnknownMatches`, some others match though they are not. By cases over operators and logics,
  for any metrics and any rule whose groups nest once.

The folds of the models (the reading of the trail, the candidates of a batch, the sums over rows) are recursive functions
over `0 .. Len(s)`. That such a function exists and has its values in the right set is an induction, which the library
offers only as a theorem about an operator. It is done by hand where it is needed: from `NatLessThanWellFounded`, the set
of the n for which the statement fails has no least element and so is empty.

What the proofs found. `PointInTime` was stated of the signals without a condition and had passed because the run let
one pipeline at a time run where answers come before commits. It is not true of these installations: a pipeline whose
metrics are still to be committed, or were lost, evaluates those of a later day (which `signal_api.py:233` lets through).
It is now stated of installations that commit first, the run has two pipelines for the others, and the vector, which
filters by day (`feature_store_api.py:72`), needs no condition. `NothingIsMissed` and
`PointInTime` for vectors turned out to need no assumption on the order of answers and commits at all.

Only model-checked: liveness (`NeverLockedOut`, `EveryRequestEnds`, `AloneItEnds`, `EveryImportEnds`), which needs
ENABLED and is out of the prover's reach. Not provable here: that rules of deeper nesting mean what the documentation
says, an induction over documents (the model nests once).

## 6. Limits of the models

- `RuleStudio`: requests are one step, which `Serializable` justifies.
- `ScoringPolicy`: the writes of a request are one step at its commit. In PostgreSQL they take row locks from the flush
  to the commit, which makes a second writer wait and then write; whom a deadlock, a unique key or a crash stops has
  written nothing (`Fail`). The mix of rules and propensity the weights are for is left out.
- `MLCircuit`: the loop is punctual, calls are not cancelled by their clients, and time is discrete.
- `MLOpsGovernance`: one modelId; the checks of dates and metrics in a lineage are one Boolean; the audit row of a
  rejected lineage is rolled back with its request and does not appear.
- `OpportunityGeneration`: one business day, one process; scores, evidence and audit rows left out.
- `ActionFeedback`: one customer and one snapshot; due dates and notes are left out; an update and a materialization
  lose nothing to a crash, since a failed transaction of theirs is no step.
- `ImportPipeline`: one row per source; a batch of rows is applied as one. The mock bank's data are its versions.
- `DecisionPipeline`: one customer; one metric, the inflow, stands for the aggregates of a window, one growth rule for
  the signal rules, the products and the confidence of signals are left out; the value of a score, a sigmoid of real
  coefficients, is the vector it is made of. `OpportunityGeneration` is not composed into it.
- `RuleEvaluation`: the wording of explanations and the spelling of codes and operators are left out.
- Authentication is the set of actors who hold a role. Formatting and logging are left out everywhere.
- Migrations are taken at their result, rules.yaml as one configuration for all types.

## 7. Plan

The pure functions of the pipeline proved further: that a metric counts a transaction once where no two pages overlap.
