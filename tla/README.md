# TLA+ verification of the SRE agent

Midnight, the SRE agent of this repository, investigates incidents in the background, proposes
mitigations that a person approves, runs the approved operation, verifies it and keeps the
incident's history; a governed control plane decides who may call which model, tool, skill and
document collection, and a budget decides how much. This directory holds TLA+ models of it, TLC
runs that check them on small instances, and TLAPS proofs of results for every instance.
`PROJECT.json` is the index: components, runs, mutants, the source lines behind every definition,
the hazards, the finding and the theorems.

## 1. The system

| Part | State | Operations | Talks to |
| --- | --- | --- | --- |
| Workflow contract (`agent/workflows/incident-response.yaml`, `incident/workflow.py`) | none | the transitions an incident may take, their actors and approvals | runtime |
| Incident runtime (`incident/runtime.py`, `incident/commands.py`) | none of its own; rows through a unit of work | `execute`, `start_run`, `current`, `reconstruct`, `record_refusal` | persistence |
| Incident persistence (`persistence/incidents.py`, `persistence/postmortems.py`) | incidents, runs, run events, snapshots, transition commits, postmortems; advisory locks | `persist_transition`, `claim_run_dispatch`, `complete_run_dispatch`, `load_replay` | PostgreSQL |
| Run start and commands (`gateway/runs.py`) | none | open or retry a run, send a person's answer | runtime, dispatcher, execution gateway |
| Dispatcher (`gateway/investigation.py`, `gateway/reinvestigation.py`) | work held in process memory; receipts in the event log | claim, investigate, persist the result, finish, verify later, reinvestigate, sweep at startup | runtime, investigator, chat |
| Investigator (`investigator/`) | the locals of one pass | ask the model, call a tool, search, load a skill, record evidence, hypothesise, propose, verdict | responses, MCP gateway, BoK, skills, changes |
| Execution gateway (`gateway/execution.py`) | audit events | check, call the executor, audit, for an approval | executor |
| Deploy executor (`executor/`) | an append-only journal; locks per key and per service | `deployment.rollback`, `service.restart`, `flag.set` | Docker Engine, flag listener |
| Alert intake (`gateway/alert_intake.py`) | alert episodes | receive, record, look up, triage, mark, dispatch | triage, dispatcher |
| Triage (`triage/`) | alert decisions, idempotency records | open, dismiss, link, declare | persistence |
| Chat (`chat/`, triggers in `migrations/`) | outbox, taps, links | queue, render, deliver, edit, press, carry out a tap | Telegram, run commands |
| Responses and provider (`gateway/responses.py`, `openrouter.py`, `endpoint_catalog.py`) | audit events, attributions | admit, call, retry, settle, attribute, audit, release | OpenRouter |
| Consumption (`gateway/consumption_*.py`, `persistence/reservations.py`) | reservations | admit, settle | responses |
| Control plane (`control/`, `persistence/repositories.py`) | principals, credentials, grants, catalog, publications, limits, idempotency records, audit | create, rotate, revoke, publish, replace, list | all of the gateway |
| Governed surfaces (`gateway/mcp.py`, `skills.py`, `bok/retrieval.py`) | the MCP registry and session | discover, invoke, resolve, search, read | MCP server |
| Seeds (`persistence/seeds.py`) | none | bootstrap, demo graph, routing check and reconciliation | the control plane's tables |
| Reads (incident reads, usage, audit, console) | what a page keeps | list, detail, state, timeline, aggregates | all tables |

What is hard in it:

* **Optimistic transactions.** A command reads the incident and its run without locking them,
  validates, and writes later. Several people, the agent and the system send commands at once,
  and clients retry with the same key.
* **One request, many sessions.** The control plane authenticates, authorizes and performs in
  three sessions; grants, keys and resources change between them. Some handlers audit in the
  transaction that mutates, some after it.
* **Long work over short transactions.** An investigation lasts minutes between its claim and its
  outcome; a model call lasts between its booking and its settlement. Meanwhile processes die,
  locks' connections drop, sweeps end runs, people answer.
* **Effects outside the database.** The executor acts on Docker with a journal of its own;
  Telegram shows what no row says; the provider charges for what it then refuses.
* **Unreliable delivery.** Grafana repeats, reorders and sends concurrently; messages are sent
  and not marked; a tap is claimed twice.
* **Reads of several statements.** A list, a run's state, a page of its timeline and a usage
  report each see what has committed by each of their statements.

## 2. Modules

| Module | Models | Builds on |
| --- | --- | --- |
| `IncidentWorkflow` | the contract | - |
| `IncidentStore` | the rows of one incident; validate, reduce, persist, replay | `IncidentWorkflow` |
| `IncidentRuntime` | concurrent callers of `execute` and `start_run` | `IncidentStore` |
| `InvestigationDispatch` | API processes that dispatch, verify, reinvestigate, crash and sweep | `IncidentStore` |
| `IncidentReads` | the list, the run reads and the polling console, beside the dispatchers | `InvestigationDispatch` |
| `OperationOnce` | what the executor promises | - |
| `DeployExecutor` | the executor, Docker and the flag listener | refines `OperationOnce` |
| `MitigationApproval` | a decision as the API carries it out, over the promise of the executor | an instance of `OperationOnce` |
| `ChatDecisions` | outbox, delivery, buttons, taps | `MitigationApproval` |
| `HumanDecisions` | both surfaces a person decides from; the composition | `ChatDecisions` |
| `AlertIntake` | deliveries and triage of the alerts of one service | - |
| `ControlPlane` | principals, credentials, grants; the request, its idempotency and audit | - |
| `ControlCatalog` | aliases, catalog, publications, skill status, limits | `ControlPlane` |
| `GovernedSurfaces` | skills, MCP tools and BoK as agents reach them, and the MCP registry | `ControlCatalog` |
| `Seeds` | the bootstrap beside a live API | `GovernedSurfaces` |
| `ModelGateway` | a governed model call and the budget it is admitted against | - |
| `UsageReads` | aggregates and attributions read while calls go on | `ModelGateway` |
| `EvidenceSources` | what the investigator is answered, as functions | - |
| `Investigator` | the loop and the dispatcher's passes around it | `EvidenceSources` |
| `...Proofs` | theorems about the module of that name | their module |
| `MC...` | instances for TLC | their module |

A definition that carries a defect a bug could introduce (marked as a mutant where it stands beside
the definition it alters, or named for what it forgets, such as `CommitForgotten`) belongs to no
specification; `PROJECT.json` names, for every property of every run, one of them that violates it.

### IncidentStore, IncidentRuntime

`incident`, `runs`, `events`, `snapshots`, `commits` and `postmortem` are the tables. `Validate`
is `_validate` with its named preconditions, the `Reduce...` operators are `_reduce`, and
`PersistTransition` is `persist_transition`: the replay check, the dispatch check, both version
checks, both updates, the appended events, the snapshot and the commit record. A mitigation's id
is the incident version that proposed it (the code draws a fresh token). Incidents share no row,
so one incident is modelled.

In `IncidentRuntime` a call is two steps. `Execute` and `StartRun` stand for the transaction up to
its write: the advisory lock on the key, the unlocked reads, the validation. `Commit` writes.
Any other transaction may commit in between; `Rollback` is the stale write, the lost connection
and the dead process. People answer for what they last read (`seen`, set by `Look`), which may be
stale. Closing locks the postmortem's row (`PostmortemLocked`); writing and reviewing it wait.

### InvestigationDispatch

A dispatch writes an intent receipt when it is claimed and an outcome receipt when it ends.
`worker[p]` is the dispatch a process runs: `claim`, `read` (the view), `work` (the investigator
runs), `finish`; `endclaim` and `endfinish` are the fallback that ends a run and the startup
sweep. `hooks[p]` is what the process was handed and keeps only in memory: a run to dispatch, a
verification, a reinvestigation. Each unit of work is one step: its version checks make it atomic
(that is what `IncidentRuntime` shows), and claims and completions hold the run's event lock. The
investigator's answer is a nondeterministic choice.

### IncidentReads

Adds readers to the dispatchers. `get_detail`, `ReadRun`, `ReadEvents`, `ReadAgain` and
`get_timeline` are the statements of the two requests a console sends for a run (the state is read
again, at most `STATE_READ_ATTEMPTS` times, if the row moved under it), and `known` is what
`live-incident.ts` keeps: the summary it last saw, the state, the cursor, the events shown. It
stops asking for a run that has ended and not changed. `list_recent` and `list_incidents` are the
two statements of the list, whose row offers an approval.

### OperationOnce, DeployExecutor, MitigationApproval

`OperationOnce` is the promise: a key runs at most once, its outcome is settled at most once and
stays, and only a settled success is answered as one. `DeployExecutor` implements it
(`KeepsItsPromise` is `Once!OnceSpec` under the mapping of the journal to outcomes), and
`MitigationApproval` uses it as its executor, so what the approval relies on is what the executor
was shown to do.

In `DeployExecutor` a request is a task whose `pc` is the next await: the key's lock, the
service's lock, the reads (`Find`), the intent, one Docker or flag call after the other, the
health wait (`Settle`), the record. Docker keeps containers with a name, an image and whether they
run; it refuses a name in use and the removal of a running container (external, from how
`docker.py` uses it). A call may also fail, with or without its effect. `_recover` is the sequence
`undoStop`, `undoRemove`, `undoRename`, `undoStart`, each step tried whatever the one before did.
`Crash` is the death of the process, not of the host: what was appended is on disk, and a line
being appended may be cut off.

In `MitigationApproval` a sender goes through `check` (what may refuse before the call), `wait` (the
signed call, lost or answered), `commit` (the runtime's version precondition) and `reply`. An
`Upset` is anything bounded that goes wrong: a refusal, a lost call, a late answer, a failed audit,
a failed commit, a crash of the API.

### ChatDecisions, HumanDecisions

`outbox`, `taps` and `link` are the tables; `screen` is what the chat shows, including copies left
by a send that was not recorded. `Propose` and `Told` are the triggers that queue a message when a
proposal is made and an edit when it is decided; `Render`, `Deliver`, `Record` are one delivery;
`Press`, `Claim`, `Carries`, `FollowUp`, `TapDone` a button and its worker. The
decision (`Commit`) and the completion of its tap (`TapDone`) are two transactions; a worker that dies
between them leaves a tap that is claimed again, whose decision is then a replay. `HumanDecisions` adds the
console's submissions, which keep their key while they fail, and composes everything.

### AlertIntake

`Deliver` records an alert (`_UPSERT`), `Lookup` finds the oldest open incident, `Triage` is the
triage command with its idempotency record, `Mark` writes the episode's incident and dispatches
its run; each is a transaction of its own, and `Stop` ends a handler between any two.
`PersonTriages` is the console's command and `Resolve` an incident that leaves the states a link
may join.

### ControlPlane, ControlCatalog, GovernedSurfaces, Seeds

A client's request is `Submit`ted, `Authenticate`d, `Authorize`d and performed in separate steps;
`Lose` drops it at any point. What performs it is named after the handler (`create_principal`,
`rotate_credential`, `replace_alias_assignment`, `publish_skill_version`...). The tables of routes
say which requests carry an idempotency key or an optimistic token. `evidence` is what a request
was allowed on, `barred` what was already out when it arrived. Publications and `create_grant` read
before they insert and take a step for it (`ReadPublication`, `CheckGrant`). Expiry of keys and of
idempotency records are actions (`Expire`, `RetentionEnds`).

`GovernedSurfaces` adds `resolve` (a skill and its dependencies, each with an authorization of its
own), the retrieval from the BoK, discovery (`authenticate_tool` and `authorize_tool` once per tool,
in two sessions, then `discover`), `invoke`'s steps (contract, handshake, call, timeout) and the MCP
registry with its catalog projection. A retrieval is one READ COMMITTED transaction whose statements
are steps: `lock_principal`, `lock_credential`, `lock_resource` and `lock_grant` each read one row FOR
SHARE, `lock_active_version` the publication, `content_query` the content. `value` is the set of rows
it holds so far, and `WaitsForLocks` is what PostgreSQL does about them: an update of a row that is
held waits for the end of the transaction, while inserts, and the statements of another reader, do
not. A row changed between the authorization and its lock, or between two locks, is a step like any
other; the check after the last lock refuses what it then finds.

`Seeds` adds the operator's commands. `seed` is one serializable transaction under an advisory lock.
`bootstrap_mcp_demo` is READ COMMITTED and takes no lock; it is one step all the same, because it
converges rows that no route writes and inserts grants whose unique indexes roll it back when
somebody was faster. The routing check reads in two sessions, `check_routing` and `print_digest`, and
the digest it prints may be of routes that moved between them.

### ModelGateway, UsageReads

A call takes the month lock and the incident lock, reads its balances one statement per step,
books, commits, is sent (perhaps twice; `refuse_request` is the call whose route makes no valid
request, which is answered 503 and stays booked), settles, is attributed, audited and released; a process
may die anywhere and the provider may charge whatever it answered. `policy` may be replaced and the
month may turn under it. `UsageReads` are operators over those tables: an aggregate is one
statement, attributions are any subset an earlier statement may have selected.

### EvidenceSources, Investigator

`EvidenceSources` maps every answer of a far end (an HTTP status, a JSON-RPC envelope, a value of a
known or unknown shape) to what the investigator records, through the gateway and its client.
`Investigator` is the loop: a turn asks the model (with transient retries), checks the action
(`unknown_references`, `unfounded_citations`, `unmeasured_verdict`, `problem`), carries it out, and
the dispatcher records hypotheses and starts the next pass with the steps that are left.

## 3. Runs

| Run | Instance | Shows |
| --- | --- | --- |
| `runtime` | 2 callers, 2 runs besides the declaration's, 8 keys, 7 versions and the close, 2 postmortem drafts, a snapshot every 2 | a key takes effect once; one answer per mitigation, for the one that was read; closed only as reviewed; commits follow the contract |
| `dispatch` | 2 processes, 2 runs, 4 versions, 1 crash, lost locks, fair | one intent and at most one outcome per dispatch; no investigation is abandoned; every claimed one gets an outcome |
| `reinvestigation` | from the second failed verification: 1 process, 2 more runs, 15 versions, 1 database error, fair | one outcome per dispatch on the long way; after the third failure a person is told |
| `console` | 1 process, 2 runs, 5 versions, 2 polls, pages of 2 events | the console shows history without a gap; the list offers what waits; the log replays to the rows |
| `executor` | 2 tasks, 2 rollback keys, a restart and a flag change, 2 targets, 3 requests, 2 faults, 1 crash | the executor implements `OperationOnce`; a key acts at most once; a reported success is true; one fault leaves the service running |
| `intake` | 2 alerts, 2 handlers, 2 stops, fair | one incident per alert, the one its decision names; a firing alert gets it |
| `identities` | 2 clients, 3 requests, 3 principals, 4 keys, 2 idempotency keys | one effect per key; no success without its event; one successor per rotated key; a committed revocation keeps later requests out |
| `catalog` | 2 clients, 2 requests over seeded resources, 2 registry operations, the seeds | no lost update; a version is published once; revoked serves nothing; BoK content under authority; one handshake; revoked for good |
| `gateway` | 2 clients, 2 calls, 2 endpoints of the pinned provider and one of another, 3 policies, 2 months | a booking covers the cost; each cost counts once; limits hold but for one race; credit goes to who served; reports are exact |
| `decisions` | 2 proposals, one with an operation, 1 tap worker and the console, 2 presses, 1 submission, 1 upset | verifying means it ran, once; a tap decides what the chat showed; the chat comes to rest |
| `investigator` | 3 steps and 2 after a refusal, 1 retry, 1 foreign move | conclusions rest on measurements; the step budget holds |
| `budget` | as `gateway` | **violated**: the limit itself |

**The finding.** `budget` checks what the code and docs say of limits, that concurrent admissions
cannot oversubscribe one (`BudgetHeld`), and TLC refutes it. An admission sums settled rows and
reserved rows in two statements under READ COMMITTED; a settlement takes none of the admission's
locks, so a row that settles between the two is in neither sum, and the admission books an
allowance that is already spent. `gateway` checks that this is the only way
(`BudgetHeldUnraced`). The quotes are in `PROJECT.json`.

**Other disagreements met while modelling**, kept as hazards without a run: the startup sweep's
docstring says every interrupted run is ended, but a run interrupted during its verification
already has an outcome and is skipped (`gateway/investigation.py:76`); the verdict told to the next
run is looked for before the state change it was written after (`gateway/reinvestigation.py:32`);
the executor keeps retryable failures behind an intent although its caller says only others are
kept (`executor/app.py:345`); a redelivered alert looks its target up again and conflicts with its
own earlier command (`gateway/alert_intake.py:257`).

**Limits the properties state.** A dispatcher that lost its lock's connection sets a run a sweep
has terminated back to running (`OneOutcomePerDispatch` is about receipts, which do hold); a fault in
a rollback's recovery leaves the service without a running container; two alerts of a service
delivered at the same moment open two incidents; an operation may run and its approval then be
stale because someone rejected meanwhile (`VerifyingMeansItRan` states the other direction); what
is revoked after a request arrived may still serve that request, except BoK content; the answer of
a replayed `create_grant`, `create_alias` or `create_catalog_resource` is not audited again.

**Bounds.** Every bound is a named constant. Two callers, processes, tasks, handlers or clients
make every race of two, and each protection (a version check, a lock, a receipt, a unique index)
stands between one actor and one row. In `runtime` seven versions reach start, hypothesis,
proposal, a rejection or a verdict, and a second run's proposal, so that an answer for an old
mitigation can meet a new one; the close is one version further and always allowed. A snapshot
every two versions (five by default in the code) puts replays on both sides of a snapshot.
`dispatch` needs the claim, the turns and the proposal; one crash and a lost lock cross each other.
`reinvestigation` starts from a state written out with its history, two failed mitigations and the
third investigation handed to a process, because the way to it is longer than the other runs'
bounds. In `console` five versions let a run end and another begin, and pages of two events make a
timeline of several pages; two polls are one that stops asking too early and one that would see
it. Three requests in `identities` are a request, its retry and a revocation between them; `catalog`
has two requests in flight and excludes, with the constraint `Concerned`, registry and seed steps
beside requests that touch none of what they write, and a second registry operation beside a second
request. `ReplacedByLimits` makes a replaced policy set both limits in the first month: a policy
replaced and a month that turns do not meet in `gateway`. In `decisions` upsets stay below `MaxTapAttempts`: a tap whose every attempt dies is
left undone, as the code says. Three steps and two after a refusal are the smallest budget in
which both parts matter. Runs, callers, processes, clients, tasks and the idempotency keys are
interchangeable and form symmetry sets; runs with a liveness property use none. `CHECK_DEADLOCK
FALSE` stands where a bound is spent or everything is answered.

**Fairness.** `InvestigationDispatch`: weak fairness of a dispatcher's own steps (every call it
makes, to the model, the gateway and the database, has a timeout), of taking up what a process
was handed (an asyncio task), and of restart and sweep (Compose restarts the API,
`restart: unless-stopped`, and the sweep runs before it serves). `InvestigationsEnd` and
`InvestigationsOwned` except the case in which a crash and a database error, or two database
errors, have happened: the sweep and the fallback log an error of their own and leave the run to the
next startup.
`GivesUpAloud` excepts a database error at the hand-off, which is only logged.
`AlertIntake`: weak fairness of a handler's steps, strong fairness of a firing alert's redelivery,
since Grafana repeats an alert for as long as it fires; handlers come and go, hence strong.
`FiringGetsIncident` excepts handlers that stopped half-way. `HumanDecisions`: weak fairness of what
the delivery loop, the tap workers, the API's handlers and the executor do by themselves, together
(each of their steps uses up a finite amount of work). People, faults and crashes are never fair.

## 4. Proofs

`tlapm <module>.tla` checks every leaf of the proof modules. They assume only the named assumptions
on constants that the modelled modules declare and TLC evaluates: bounds are numbers
(`StoreAssumption`, `RuntimeAssumption`, `ExecutorAssumption`, `IntakeAssumption`,
`DispatchAssumption`, `ProposalsAssumption`, `LimitsAssumption`, the last with the ranges the code
validates), seeds and request bodies have their types (`ControlAssumption`, `SeedsAssumption`,
`InputsAssumption`, and for the catalog, the governed surfaces and the startup seeds
`CatalogAssumption` and `CatalogInputs` of `ControlCatalog`, `SurfaceAssumption`,
`GraphAssumption`), and tap workers are senders, the console one that is no worker
(`WorkersAssumption`, `ConsoleAssumption`). Callers, runs, keys, requests, faults and crashes are as many as
one likes. Each module proves one inductive invariant, or a few; the
properties follow from them.

**IncidentRuntimeProofs.** `TypeCorrect` is inductive by itself. The other invariants are not: that
versions count commits needs to know that an open transaction whose read version is still current
holds the current document, and one decision per mitigation needs that ids grow. `Safe` adds:

* `SeenCurrent`: what a person saw is not newer than the incident, and at the same version it is
  the mitigation of that version;
* `ReadsCurrent`: an open transaction's read is not newer than the row and equals it at the same
  version, its command was valid for the read, and an answer is for the mitigation that was read;
* `CommitsCounted`: commits are finite, counted by the version, none above it;
* `DecisionsPast`: a mitigation's id is at most the version, decided ones have ids at most the
  current one, and while one waits every decided id is smaller.

`Commit` is the only action that disturbs the commits; the version check turns its read into the
current row (`CommitFacts`), and the rest follows. Theorems: `NoLostCommit`, `KeyCommitsOnce`,
`DecidedOnce`, `AnswersTheReviewed`, and the action property `CommitsFollowWorkflow`.
`ClosesAsReviewed` has a second invariant: a transaction that is to close has read an approved
postmortem, and nothing edits the draft while its row lock is held (`ClosingReviewed`).

**DeployExecutorProofs.** `AtMostOnce` needs to know where a key's single call may come from.
`KeySafe` adds that a key's lock has one holder (`KeyAlone`), that before the intent the key has no
record and no call (`Unbound`), that the first call is made behind an intent and with no call yet
(`FirstCallBound`), that a held key has no result (`HeldOpen`), that a key that was called stays
bound (`CalledBound`, through crashes and cut-off lines), and that a task about to record knows its
status (`Decided`). Theorems: `ExecutorSafe`, `CallsOnce`, `SuccessStays`, and
`ExecutorKeepsItsPromise`, the refinement: under the mapping of `KeepsItsPromise` each of the
executor's steps is a step of `OperationOnce` or a stutter.

What a task knows of the containers is the invariant `ServiceSafe`. `RollbackStage` says at each
step of a rollback which containers exist and holds through any faults, which is enough for
`SuccessIsAtTarget`. `OneFaultStage` adds names, what is running, and that a recovery has the one
fault behind it, so that no second one can meet it; from it follows `OneFaultIsSurvived`.

**AlertIntakeProofs.** `AlertOpensOneIncident` rests on final decisions: a dismissal, a link or a
declaration is never replaced, and the intake's binding, the episode and every declared incident
name the one that was decided (`IntakeSafe`).

**HumanDecisionsProofs.** Every change of the incident moves its version, so whoever holds the
current one has seen the current proposal. `DecisionsSafe` says this of a message (`OutboxSound`,
`ScreenSound`), of the delivery of it (`GatewaySound`), of a tap (`TapsSound`) and of a request and
what it found out about the operation (`SenderSound`). Theorems: `ApprovedMeansItRan`,
`ProposalRunsOnce`, `ChatDecidesWhatItShows`. They use of the executor only what `OperationOnce`
promises, which `ExecutorKeepsItsPromise` shows it keeps.

**InvestigationDispatchProofs.** `DispatchEndsOnce`, `InvestigationsAreOwned`,
`ReplayIsFaithful`, `InboxOffersWhatWaits` and `ConsoleIsFaithful`. A receipt is written
under the run's event lock by a transaction that looks at the receipts there are; the proof uses
nothing of the dispatch lock, which may be lost at any time. `DispatchSafe` needs besides that a
verification follows an investigation that ended (`VerifiesAfter`), because the claim of an
investigation takes any receipt of its run for its own. The proof corrected the property: two
database errors, one in a hand-off's work and one in its fallback, leave an investigation open with
nobody to end it, and `EndMayHaveFailed` had excused only an error beside a crash.

`ReplayIsFaithful` goes by what one step may write. `Shaped` says that a step writes an intent, an
end of a dispatch or a transition of one run, and nothing else; `Replay` of a log with those events
more is the replay of the log and then of each of them (an induction over the set of events folded,
with the least counterexample, by `WellFoundedInduction`). `Remembered` is the invariant: the rows of
every run, its latest snapshot with what came after it and its whole log say the same (`Rebuilt`),
the log of the run that moved the incident last ends with the incident as it is, and one run at most
is open or waits for a person (`Lively`), so that a citation, which moves the incident without a
transition, falls into the log of the run whose transition was the last. `Placing` keeps the
declaration's run out of the dispatcher's hands.

The two theorems about the reads are about `ReadsSpec` and use `Remembered`, since every step of the
writers is a step of `InvestigationDispatch`. The list takes the run created last for the one that
waits. `Offered` says why it is: a run has the phase that asks exactly while it waits for a person,
an incident that is mitigated has such a run with its mitigation still pending, and a run that is
open or waits was created after every other. An approval sent from a row is refused unless the
row's version is the incident's, and then (`InboxRead`) the row is the incident. `ConsoleIsFaithful`
needs that a log only grows and that no row changes without an event (`Lengthens`), and that the log
of a run that is over has an event which tells why (`EndsTold`). A state that was read is therefore
the run's, or older than the log (`Seen`); what is shown is the log up to the cursor (`Shows`), also
after a page of any size, and a poll leaves the page only with the whole log there was
(`Polled`, `Knows`, together `Watching`).

**InvestigatorProofs.** `DispatchAsksBounded` needs what earlier passes spent and what one refusal may
still give back (`Budgeted`). `RecordsAreMeasured` needs that a turn's number names its evidence
once, so that recording a pass never drops an item its outcome cites (`PassSound`,
`IncidentSound`), and that a result on its way still cites what it was checked against
(`ResultSound`).

**ControlPlaneProofs.** `RevokedKeepsOut`, `SuccessIsAudited`, `KeyActsOnce`, `KeyHasOneSuccessor`, about
`ControlSpec`. The invariant `ControlSafe` is about what cannot change back: a revoked credential or
grant stays revoked, and a principal or resource that returns has a later stamp, so what was out when
a request came is out or replaced for as long as the request lives (`BarredSound`), and is not what
the request was authenticated and authorized on (`RequestSound`). A mutation under a key leaves a
row or a kept binding that refuses the same mutation (`EffectsKept`), and only the request that made
a key may show it (`KeysShown`).

The second half is about `SeedSpec`, the whole store with its catalog, governed surfaces and startup
seeds, and has an invariant of its own, `StoreSafe`:

* `StoreTypes`, `StoreLinks`, `Seeded`: the shape of each row, that a resource's row has the type
  of its id, that a publication has the owner and content of its resource, and that a store in
  which somebody can ask has principals, so that no seed overwrites it;
* `RequestTypes`, `Sound`: what a request has in each phase: the evidence it was authorized on, the
  publication it has pinned, the row it has locked;
* `SessionLocked`: who is in the handshake holds the session's lock, and nobody is once it was done;
* of every effect that its concurrency token is spent and its publication stands, and that it was
  authorized on nothing that was out when the request came; of everything served, the same.

A step changes the store in one of a few ways, each of which keeps what other requests know:
`StoreGrows` (no row disappears, revocations are final, stamps never fall, a row under its stamp keeps
its status) and `GrantsStand` (a grant that changes was active, and what becomes active is not
active elsewhere). `ContentIsUnderAuthority` has an invariant of its own, `LockSafe`: of a retrieval
in each of its statements, which rows it holds, and that each of them still says what was read of it
(`LockSound`). Its proof is that an update of a held row cannot commit (`WaitsForLocks`, used in
`LocksHold`) and that what does commit beside it, an insert or an update of another row, takes
nothing away (`OthersKept`); without the locks the invariant fails at the first revocation. Theorems: `StoreIsSafe`, `ChangesAreSerial`, `VersionIsPublishedOnce`,
`RevokedIsServedNothing`, `ContentIsUnderAuthority`, `SessionHasOneHandshake` and the action property
`RevocationIsFinal`. An administrator's request and a governed one are stepped separately, and the
operations an id's type excludes are discharged once.

Two assumptions narrow these theorems. `TypeOf` gives an id one type: `catalog.create` takes the type
from its body, and two bodies with one id and two types are outside. `SurfaceAssumption` keeps the ids
of the MCP registry's own server and tools out of the bodies of `catalog.create`: the code admits
such a row and the registry overwrites it at the next startup, which the theorems say nothing of.

**ModelGatewayProofs.** The assumptions say that limits are natural numbers, that a catalog lists
what `_endpoint_metadata` accepts (positive capacities, prices that are not negative) in finite
number, and that `None` is no value (`GatewayAssumption`, `CatalogAssumption`, `NoneAssumption`,
`PathsAssumption`, `ReadsAssumption`). Amounts are whole numbers of the smallest unit.

The operators come first. A recursive definition has to be shown to define anything, and what it
computes is an induction; both are done by looking for a least counterexample in a well-founded
order (`LeastNat`, `SmallestSet`). So `SumFunctionOnSet` is shown to be a sum (`SumRemove`,
`SumBelow`, `SumOver`, `SumChange`, `SumPlus`) and the bisection of `_affordable_output_tokens` to end at the
largest count that is paid for (`AffordableIsLargest`). From these: the worst case of an admitted
call is within the balances it was admitted against (`Affords`), and no endpoint of the pinned
provider charges more than the conservative one that was priced (`SelectedBounds`, `CostBound`). That
evidence is accepted only when it is closed (`EvidenceHonest`) goes through the router's paths.

`GatewaySafe` says of each request what its row, event, attribution and charge have to do with each
other (`EntrySound`), and with where the request is (`CallSound`): nothing is charged before it is
sent, a row that may still be sent books the worst case at the request's own cap (`RowSound`), what
is kept of a complete answer is the charge. From it follow `BookingCoversCharge`,
`SuccessIsCountedOnce`, `CreditIsHonest` and `ReportedUsageIsExact`.

`BudgetIsHeld` needs `BalancesSafe` besides, about the accounts: the USD of a month, the tokens of
an incident in it. One admission of a month runs at a time; while the first policy stands, what an
account settled and holds together is within its limit, and what an admission has read is at most
what the limit leaves, of the settled rows after the first sum and of all rows after the second
(`Within`). A booking is within what was read; a settlement only lowers the two together, because
the charge was covered, but it lowers what is held and raises what is settled: an admission
between the sums has then read neither, which is the race `budget` exhibits and `raced` records.

**Only model-checked.**

* Liveness (`InvestigationsEnd`, `GivesUpAloud`, `FiringGetsIncident`, `ChatSettles`): it depends on
  fairness and ENABLED, outside the prover's reach;

## 5. Not modelled

* the refusals `record_refusal` writes, decision documents, the postmortem draft the agent writes
  after a resolution and the wait before a verification (a verification may begin at any time);
* time, except where it decides something: keys and idempotency records expire, months turn, a
  tap's claim and a call time out, each at any moment;
* a host crash that loses appended journal lines that were not flushed;
* hashing, signatures and request parsing: they refuse before anything is read or written;
* the composition of authorization with the model call (`ModelGateway` begins at admission), and of
  the investigator with the dispatcher's transactions (`Investigator` keeps the incident as the
  runtime would; `InvestigationDispatch` leaves its result open);
* texts: prompts, messages, wording of summaries, the digest, the search's ranking;
* settings, health, release, the executor's catalog and signature, operator scripts and the
  rendering of the consoles: configuration, pure checks and presentation that keep no state.

## 6. Plan

Worth modelling next: the postmortem draft, the refusals, the memories an incident leaves,
and the authorization in front of the model call.
