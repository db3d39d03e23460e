# RX-AI OMEGA in TLA+

A model of RX-AI OMEGA: its orchestration core, the parts of its API that keep
state, its start-up and its migrations. TLA+ modules translated from `src/rx_ai_omega`, TLC
configurations that check them on small instances, and TLAPS proofs of the
properties that matter most for every instance.

## 1. The system

RX-AI OMEGA accepts *missions*: lists of steps with dependencies, a risk and an
action each. An API process stores them, a worker process executes them, and
an administrator must approve a risky or controlled step before the step's
provider (an LLM endpoint) is called.

    client --HTTP--> API handlers --commit--> PostgreSQL tables <--commit-- executor
                          |                                                  ^  |
                          +--rpush--> Redis list --blpop--> worker.main -----+  +--> provider
                          +--put----> Qdrant

| Component | State | Operations | Interacts through |
|---|---|---|---|
| Plan validation (`planning.py`) | in-degrees, deque, result: local to a call | `validate_and_order` | called by `create_mission`; its order becomes `WorkflowStep.position` |
| Mission handlers (`api.py`) | none of their own between two requests; an SQLAlchemy session within one | `create_mission`, `run_mission`, `approve`, `reject` | tables; enqueue *after* the commit |
| Tables (`models.py`, `audit.py`, `database.py`) | missions, workflow_steps, approvals, handoffs, audit_events, users, agents, documents | commits of the sessions | READ COMMITTED, unique constraints, row locks |
| Queue and worker (`queueing.py`, `worker.py`) | Redis list; or FastAPI background tasks | `enqueue`, `blpop` loop | one job per mission id, nothing else in it |
| Executor (`executor.py`, `kernel.py`) | one session per execution with an identity map that is never refreshed | `execute`, `_approval_allows`, `_run_step`, `_load` | tables, governance, runtime |
| Governance (`governance.py`) | none | `evaluate` | called by the executor |
| Runtime and providers (`runtime.py`, `providers.py`) | none | `run`, `build_provider`, `generate` | an HTTP call whose answer becomes a text or an exception |
| Accounts (`security.py`, `bootstrap.py`, `api.py`) | users, agents, tokens held by clients | bootstrap, login, `create_user`, `create_agent` | tables |
| Document memory (`memory.py`, `api.py`) | documents table, Qdrant collection | `ingest_document`, `search_documents` | two stores, no common transaction |
| Settings (`config.py`) | fixed when a process starts | `validate_production` | refused settings end the process before it does anything |
| Start-up (`main.py`, `docker/api-entrypoint.sh`, `compose.yaml`) | which processes and containers are up | lifespan (`create_all`, `bootstrap_admin`), readiness, the worker's wait for the API | the schema; exit and restart |
| Migrations (`migrations/env.py`, `0001_initial.py`) | tables, enumerated types, the row of `alembic_version` | `upgrade`, `downgrade` | one transaction (PostgreSQL) or one per statement (SQLite) |
| Middleware, metrics, logging, web console | none a handler reads | - | not modelled, section 8 |

What is hard about it:

- **Stale sessions.** `expire_on_commit=False`, and `_load` runs its SELECT
  again but gets the objects of the identity map: an execution sees the mission
  and its steps as they were when it began, plus its own writes. Decisions
  committed meanwhile by a handler are not seen and may be overwritten. Only
  the approval row is read anew (when it was not found before).
- **UPDATE only if changed.** A session that assigns the value it loaded emits no
  UPDATE; what it loaded may be outdated. `Flushed` in `MissionStore` says so.
- **Check-then-act.** The handlers read, decide and commit in separate
  statements, without locks or conditional updates.
- **Commit, then push.** A job is pushed after the commit, popped before the work.
- **Duplicate jobs.** A queued mission may be submitted again.
- **Several workers.** Not recommended by `docs/DEPLOYMENT.md`, but nothing in the
  code prevents them, and FastAPI's background tasks are concurrent anyway.
- **Two stores.** A document is put into Qdrant before its row is committed. When an API
  process dies, every ingestion it was at work on ends between the two.
- **Put again.** Every memory operation creates Qdrant's collection once more, a search too,
  and is refused if Qdrant refuses that.
- **Vectors that cancel.** Tokens are hashed to 128 components with signs; a text
  may have the vector of another one, or none.
- **Two ways to a schema.** `create_all` and Alembic do not know of each other, API
  containers migrate at the same time, and SQLite keeps what a migration that is cut
  short has done so far.
- **Two places for a provider.** The deployment has one, whose key is validated, and an
  agent may name another, whose key is not.

What makes each part correct:

- executor, governance: the gate comes before the runtime; steps run on
  completed dependencies; a mission is completed only by its steps; the audit
  trail explains what the tables say; the loop ends;
- handlers, queue: decisions stand; a submitted mission is not forgotten; what
  was approved runs; what was rejected ends;
- planning: the order is topological, and exactly the cyclic plans are refused;
- accounts: names are taken once, creators are entitled and audited, every API
  process comes up;
- memory: what is persisted is found, and first by its own text; what is found
  is persisted, in progress or due to a failure;
- start-up and migrations: whoever serves finds the tables, nothing refers to a
  table that is missing, and the stack of `compose.yaml` always comes up;
- providers: a step gets the text its endpoint generated, unchanged, or with a line break
  between the items it was spread over; it fails if there is no item for a text.

`PROJECT.json` lists the hazards one by one with their lines and properties.

## 2. The modules

| Module | Models | Uses |
|---|---|---|
| `MissionDomain` | an accepted plan as constants, the status enumerations, `GovernancePolicy.evaluate` | |
| `MissionStore` | the committed tables, the audit trail, faults | `MissionDomain` |
| `MissionQueue` | Redis list or background tasks | `MissionDomain` |
| `MissionExecutor` | worker loop and execution of a mission | store, queue |
| `ControlPlane` | `run_mission`, `decide_approval`, `enqueue_mission` | store, queue |
| `Orchestrator` | the composition, fairness and all its properties | executor, control plane |
| `GatedWorkflow` | abstract specification: what work is let happen, in which order | |
| `OrchestratorInvariant` | the inductive invariant `IInv`; what every execution uses up, `Ahead` | `Orchestrator` |
| `OrchestratorProofs`, `WorkflowRefinement` | theorems for any deployment, and their proofs | TLAPS |
| `DocumentedInvariant`, `DocumentedProofs` | what more holds with one worker: invariants, theorems, proofs | TLAPS |
| `Planning` | `validate_and_order`, its inductive invariant `PlanInv`, and what its loops use up, `Remaining` | |
| `PlanningProofs` | theorems about it and their proofs | `Planning`, TLAPS |
| `Registry`, `RegistryProofs` | bootstrap, login, creation of users, agents and missions | |
| `DocumentMemory`, `DocumentMemoryProofs` | ingestion and search over two stores | |
| `Retrieval` | `embed`, the scores and the ranking of both memory stores | |
| `MemorySearch` | the hits of a search in each state of `DocumentMemory` | `DocumentMemory`, `Retrieval` |
| `Settings` | the settings that matter below, and their validator | |
| `Providers` | the adapters and the endpoints' forms of answer | `Settings` |
| `Startup`, `StartupProofs` | migrations, lifespan, readiness, worker, administrator's commands | `Settings` |
| `Deployment` | the steps of a deployment that has come up | `Startup`, `Providers` |
| `FoldProofs` | lemmas about sums and concatenations, for the two modules of proofs that need them | TLAPS |
| `MCOrchestrator`, `MCPlanning`, `MCRegistry`, `MCDocumentMemory`, `MCStartup` | small instances for TLC | |

### How state and actions correspond to the code

*Tables.* `mstatus`, `sstatus` and `approval` are the status columns as committed
(`approval[s] = "none"`: no row). `handoffs` holds pairs of steps; `audit` holds
`<<kind, verb, id>>` for an event `kind.verb` of that resource. Both are sets:
rows are only added, and no property counts repeated ones. So is the trail of `Registry`, a set of
`<<action, resource, actor>>`: a second event of one creation is seen if its actor is another, but not if the same actor
repeated it.

*An execution* is `session[e]`: `pc` is the place between two database
statements, `view` the identity map's step statuses, `loaded` the mission
status it believes in, `todo` the rest of `ready`, `cur` the step at work,
`progressed` the local variable of that name. `Closed` is a worker between two
jobs. The places and the lines of `executor.py`:

    idle -Blpop-> load_mission -LoadMission-> load_steps -LoadSteps-> start
      -Start (37-39)-> loop -BeginPass (59-65)-> pass -Gate (66-68, 92-95)->
          begin -BeginStep (124-140)-> call -CallProvider-> record
                -RecordSuccess | RecordFailure (143-158)-> pass
          ask   -RequestApproval (96-113)-> pass     (ApprovalConflict: 103 raises)
          hold  -HoldStep (120-122)-> pass
          deny  -DenyStep (116-119)-> pass
      pass -NextPass (74)-> loop;  pass -Park (75-79) | Deadlock (80-89)-> idle
      loop -Conclude (43-57)-> idle

`invoked[s]` counts provider calls as none, one, or more (`CallCap`).

*A handler* is `request[r]`: `RunRead`, `RunCommit`, `Enqueue` for
`run_mission`; `DecideRead`, `DecideLoad`, `DecideCommit`, `Enqueue` for a
decision. `db.get(WorkflowStep)` autoflushes the approval's UPDATE, so from
there to the commit the handler holds that row's lock (`ApprovalLocked`): a second
decider waits there, *after* having read the status. `DecideLoad` reads the step
and the mission in one action; the code reads them in two statements with
nothing in between that anyone could tell from their order, as the values only
decide whether an UPDATE is emitted.

*The queue* is a Redis list or a process's background tasks, by `backend`, a variable whose value `Init` draws from
the deployment's `Backends` and nothing changes.

*Faults* are counted by `faults` and bounded by `MaxFaults`: `"crash"` ends an
execution between any two of its statements (`Abandon`: a killed worker, or a
database error that `worker.main` logs) or, with the local backend, the whole API
process (`ProcessCrash`); `"enqueue"` loses the push (`EnqueueFails`).

*Missions start as accepted drafts.* `Init` has them created; `PlanAssumption`
states what `create_mission` guarantees, and `Planning` proves that guarantee (`PositionsRespectPlan`).

*Documents.* `content` is the committed rows, `points` the collection, `puts` what Qdrant
has received and not applied. `strict` says how Qdrant answers a collection put
again; a deployment has either kind. A refused put (`StoreRefused`) ends an ingestion (`BuildStore`) and a search, which is
then answered by 503 and has no hits. `failures` counts what fails in one handler (`IndexFails`; `Abort` is a flush or a commit
that fails), `deaths` API processes that die with whatever ingestions they are at work on (`ProcessDies`: any set of them, since
several processes may share the database); both together are bounded by `MaxFaults`. A content is the set of its tokens
where the ranking is concerned, and a score a fraction; the cosine is kept as its
signed square, so that TLC compares whole numbers. Equal scores come in any order.

*Start-up.* `objects` is the set of tables and enumerated types, `stamped` whether
`alembic_version` has a row. `proc[p]` is a process, `done` the statements of its
migration so far, `missing` what its `create_all` found missing:

    down -Start-> upgrade -UpgradeAtOnce | UpgradeTable... Stamp-> create -CreateAll->
         bootstrap -Bootstrap-> up        (create only with auto_create_schema)

With PostgreSQL a migration is a transaction that meets what another process has
committed meanwhile (`CanCreate`), and fails, or does all of it. With SQLite each statement is an
action and nothing checks references. A process that fails is `down` and, being
restarted, starts again. `worker` tells a container that has never been up (it waits for a healthy
API) from one that is restarted (it does not).

*Providers.* Adapters are operators of a settings record and an answer; an answer
is a time-out, an HTTP error, something that is no JSON, or a body in one of the
forms the endpoints use. A text is a sequence of words and line breaks, and OpenAI's adapter puts a line break
between the texts it joins (`Joined`). The forms of answer are sets of their own, by what the adapter should make of them:
`WholeAnswers` have the text in one place, `PartedAnswers` have its words spread over items and outputs, among refusals,
`PaddedAnswers` end in an item without a text, `HollowAnswers` have only such an item (the adapter returns an empty text, a success), and
`Refusals` have no item for a text. `StepsGetTheirTexts` composes them with `Startup`: the settings
a process came up with are those its steps are run with.

*Mutants.* A definition whose comment begins with "Mutant of" is a plausible
bug in the definition it names. No specification uses it; it shows that a
property notices the bug.

## 3. The runs

| Run | Instance | States | Shows |
|---|---|---|---|
| `concurrent` | 2 workers, 2 handlers of which 1 may decide, 1 mission of 2 steps, the second gated | 0.5 M | `TypeOK`, `IInv`, `GateBeforeRuntime`, `DependenciesFirst`, `CompletionIsEarned`, `TrailExplainsState`, `ImplementsWorkflow`, `ExecutionsAdvance` hold even where the docs advise against running |
| `documented` | 1 worker, 2 handlers of which 1 may decide, 4 steps, 2 gates; fair, without faults | 23 k | `NoSchedulingDeadlock`, `CompletedMeansAllSteps`, `NotLeftBehind`, `DecisionsImmutable`, `ExecutionTerminates`, `SubmittedComesToRest`, `ApprovedStepRuns` |
| `crash` | either backend, 1 worker, 2 missions with a gate each, 2 faults of either kind | 3.5 M | `FaultsStrandOne`, `AtMostOnceInvocation`, `TrailExplainsState` |
| `planning` | all graphs on 4 keys, all malformed lists of 1 or 2 steps | 33 k | `TypeOK`, `AcceptedOrder`, `CyclesRefused`, `PlanInv`, `Terminates` |
| `registry` | 2 API processes, 3 names, 2 create handlers, 1 stop | 1.2 M | `TypeOK`, `TrailMatchesRows`, `ActorsEntitled`, `AccountsImmutable`, `AllProcessesStart` |
| `documents` | either backend, either Qdrant, 2 handlers, 3 documents of 4 contents, 2 failures or deaths | 149 k | `TypeOK`, `PersistedIsSearched`, `OrphansAccounted`, `OwnTextRanksFirst`, `IngestionEnds` |
| `startup` | container or bare, 2 API processes, 2 commands, 2 deaths, every profile near the two documented ones | 238 k | `TypeOK`, `SchemaSound`, `ServingFindsSchema`, `StepsGetTheirTexts`, `OrphansStayUnstamped`, `ContainersComeUp` |
| `overlapping_decisions`, `rejection_overwritten`, `worker_crash`, `approval_after_rejection`, `collection_refused` | | | violated: section 6 |

`CHECK_DEADLOCK FALSE` everywhere: when every mission has ended, every approval
is decided, every document is ingested or the plan is judged, nothing is left
to happen.

### Bounds, and why they are enough

- The plan of `MCOrchestrator` is a diamond cut short: `a -> b`, `{b, c} -> d`. `b` is
  gated by its action, written `Deploy` so that the lower-casing of the policy
  matters, `c` by its risk; `b` follows a step, `c` is ready at once, `d`
  joins. So there are a pass that both runs and asks, a pass that only asks,
  two gates open at once, and a step behind two gates.
- `concurrent` has two workers. Two workers with the same
  mission meet in the `ask`, `hold` and `deny` branches, which one worker can never
  reach (its view is older than the approval it would find).
- `MaxQueue = 1` bounds only `RunRead`: no run request while a job waits.
  Approvals push regardless, and handlers already past `RunRead` push too, so
  duplicate jobs occur.
- Two workers, two handlers *and* faults are beyond TLC; so `concurrent` has no faults
  and `crash` has one worker; two workers with the local backend, and two deciders in a run that holds, are left
  to the proofs of section 5, which have no such limits.
- Symmetry (`Alike`, `AlikeWorkers`) is used where workers, or handlers that are
  all administrators', are interchangeable, and only in runs without liveness.
- `planning`: on four keys there are cycles of every length up to four, joins,
  forks and disconnected parts; malformed lists are rejected before the
  sorting starts, so two steps are enough for them.
- `registry`: two processes and two handlers are what a race needs; three names
  let an account created by a created administrator create another.
- `documents`: two faults let one document time out and another be rolled back, or a process die with both ingestions and another
  with one. Three documents
  let an orphan and two persisted ones compete for a place in the list. Of the contents one is
  part of another, one has tokens that cancel each other in the vector, and one has no tokens.
- `startup`: `Profiles` are the settings of `compose.yaml` and of `.env.example` and all that
  differ from one of them in one setting (so that each branch of the validator refuses someone, each
  database meets either way to a schema, each provider either key). Two commands are an upgrade
  and a downgrade, in either order; the texts have none, one, two or three words; two deaths let both APIs die, or one die again
  in the recovery from the first.

### Fairness

`FairSpec` of `Orchestrator` assumes weak fairness of each worker's next action and of a
handler that has begun: they are operating-system threads whose next statement
is always enabled (`blpop` returns when a job is there), except that a decider may
wait for a row lock whose holder is itself fair. Clients owe nothing: no
submission and no decision is assumed to come. No fault occurs in
`documented`, since with faults the liveness properties are false (finding 3).
A provider call is assumed to return: the adapters set time-outs of 60 and 120
seconds, and a time-out is a failure. `Planning`: a function runs on. `Registry`: Compose
restarts a stopped container, and `stops` bounds how often one is stopped.
`DocumentMemory`: a handler goes on, and Qdrant applies a put it has accepted.
`Startup`: weak fairness of each API process, from its start on, and of the worker's start:
`restart: unless-stopped`; a command the administrator has begun runs on. Nobody owes a
command.

## 4. Properties worth a remark

- `GateBeforeRuntime`, "the central safety invariant" of `docs/ARCHITECTURE.md`, is
  stated with the audit trail, not with `approval`: with two deciding
  administrators an approved row may be replaced by a rejection after the step
  has begun (finding 1).
- `CompletionIsEarned` and `CompletedMeansAllSteps` differ: the first holds for any number
  of workers, because the trail is only appended to; the second, about the
  columns, needs one worker. With two, a stale one may set a completed step
  back to `running`, and even call its provider again.
- `TrailExplainsState` holds although the move to `waiting_approval` and the step's
  move to `rejected` by the executor have no audit event of their own: an
  earlier event accounts for each. (`README.md` says *every* transition is
  audited; these two commits, `executor.py` 76-79 and 116-119, are not.)
- `NoSchedulingDeadlock`: the branch that fails a mission as "deadlocked" is unreachable
  with one worker. With two it is reached: a worker that loads a step another
  one is running finds nothing ready and nothing waiting, and fails the mission.
- `NotLeftBehind` tolerates a mission parked over a rejected step, which
  `RejectionTerminates` is about (finding 2).
- `FaultsStrandOne` measures the price of a fault. It says nothing of getting the mission
  back: no endpoint does (a `running` mission is refused by `run_mission`).
- `AtMostOnceInvocation` holds with one worker, crashes included, precisely because a
  step found `running` is not taken up again.
- `OrphansAccounted` allows as many orphans for the death of a process as there are handlers: each of them may have
  put its point.
- `PersistedIsSearched` says where a search would look. A strict Qdrant refuses the search itself once the collection exists
  (finding 5); so `OwnTextRanksFirst` speaks of searches that are answered.
- `OwnTextRanksFirst` has its conditions for a reason: a text without tokens is found by nothing, and
  in Qdrant neither is one whose tokens cancel; texts with proportional vectors
  cannot be told apart. Orphans take places in the list like documents.
- `OrphansStayUnstamped`: after a quick run with automatic creation the `alembic upgrade head` that
  `README.md:70` recommends fails at the first table, every time. So does it after a
  SQLite migration that was cut short. (`README.md` does not promise that it succeeds; so no
  finding.)
- `ServingFindsSchema` names its exceptions: a bare server without automatic creation that nobody
  has migrated for, and a SQLite database whose downgrade was cut short, which
  Alembic takes for complete. `/health/ready` says "ready" in both (`main.py:85` asks for `SELECT 1`), and no property
  catches that: the hazard is listed without one.
- `ContainersComeUp` asks for `Migratable` settings: a `%` in `RX_DATABASE_URL`, as in a percent-encoded password,
  passes the validator and makes `migrations/env.py` raise, so the container restarts for ever. This hazard too has no property: the premise excludes it.
- `StepsGetTheirTexts` names its exception too: an agent whose own provider is `openai` in a deployment
  without a key. `create_agent` takes it, each of its steps fails; a hazard no property catches. It also says what becomes of an
  item without a text: alone it completes the step with nothing. That is what `providers.py:57-64` does, and nothing in the repository says
  it should be otherwise.
- The default `RX_AUTH_SECRET`, "development-only-insecure-secret", has exactly the 32 characters the
  validator asks for, and so counts as `long`.
- `ExecutionsAdvance` is what a bound on the length of an execution comes down to: each of its actions leaves
  fewer of at most `10 n + 9`, for a mission of `n` steps. The `while True` of `execute` has no such bound in sight; it
  has one because a step that has left `pending` in the session's view never returns to it, and because a pass
  that ran nothing parks, fails or ends the mission. That others keep writing to the same rows
  does not matter: the view is never refreshed.
- `ImplementsWorkflow` maps the trail and the provider calls to the variables of
  `GatedWorkflow`. Every action is one step of it, or none.

## 5. Proofs

Each theorem holds for all constants that satisfy the named assumptions of its modules:
any sets of workers, handlers, missions, steps, processes, names and documents, and any
bounds. The `ASSUME`s are checked by TLC in the runs.

`OrchestratorProofs` and `WorkflowRefinement` (`PlanAssumption`, `SentinelAssumption`, `FaultAssumption`,
`BackendAssumption`, `RequestAssumption`; any plan, either backend, any number of workers and of faults):

| Theorem | Statement |
|---|---|
| `TypeCorrect` | `Spec => []TypeOK` |
| `Invariant` | `Spec => []IInv` |
| `GatePrecedesRuntime` | `Spec => []GateBeforeRuntime` |
| `DependenciesPrecede` | `Spec => []DependenciesFirst` |
| `CompletionEarned` | `Spec => []CompletionIsEarned` |
| `TrailExplains` | `Spec => []TrailExplainsState` |
| `Implements` | `Spec => ImplementsWorkflow` |

`ExecutionsShrink` (`Spec => ExecutionsAdvance`) asks besides that the steps be finitely many, as the rows of a table are.

`DocumentedProofs` (the same; `OneWorker`: at most one executor, `OneAdmin`: at most one handler
decides):

| Theorem | Statement | Further assumption |
|---|---|---|
| `DecisionsStand` | `Spec => DecisionsImmutable` | `OneAdmin` |
| `Agreement` | `Spec => [](Shape /\ Agreed)` | `OneWorker`, `OneAdmin` |
| `CallsOnce` | `Spec => []AtMostOnceInvocation` | `OneWorker`, `OneAdmin` |
| `CompletedIsComplete` | `Spec => []CompletedMeansAllSteps` | `OneWorker`, `OneAdmin` |
| `NoneLeftBehind` | `Spec => []NotLeftBehind` | `OneWorker`, `OneAdmin`, `FaultKinds = {}` |
| `FaultsCostOneEach` | `Spec => []FaultsStrandOne` | `OneWorker`, `OneAdmin`, finitely many missions |
| `NeverDeadlocked` | `Spec => []NoSchedulingDeadlock` | `OneWorker`, `OneAdmin`, `"crash"` is not among the faults |

`PlanningProofs` (`PlansAssumption`; every finite set of keys and every set of lists of steps):

| Theorem | Statement |
|---|---|
| `PlanInvariant`, `TypeCorrect` | `Spec => []PlanInv`, `Spec => []TypeOK` |
| `AcceptedPlansAreOrdered` | `Spec => []AcceptedOrder` |
| `CyclesAreRefused` | `Spec => []CyclesRefused` |
| `ValidationEnds` | `Spec => ValidationAdvances`: every iteration uses up one of at most `n + k (k + 1) + 1` |
| `PositionsRespectPlan` | an accepted plan's positions are what `PlanAssumption` asks of the orchestrator's constants |

`StartupProofs` (`StartupAssumption`), `RegistryProofs` (`RegistryAssumption`), `DocumentMemoryProofs` (`MemoryAssumption`);
each has `Inductive`, `Spec => []IInv`, and `TypeCorrect`, `Spec => []TypeOK`, and:

| Theorem | Statement |
|---|---|
| `SchemaIsSound` | `Spec => []SchemaSound` |
| `ServersFindSchema` | `Spec => []ServingFindsSchema` |
| `OrphansRemain` | `Spec => OrphansStayUnstamped` |
| `TrailIsRows` | `Spec => []TrailMatchesRows` |
| `OnlyEntitledCreate` | `Spec => []ActorsEntitled` |
| `RolesStay` | `Spec => AccountsImmutable` |
| `PersistedFound` | `Spec => []PersistedIsSearched` |
| `OrphansCounted` | `Spec => []OrphansAccounted` |
| `OwnTextFound` | `Spec => []OwnTextRanksFirst` |
| `TextsArrive` | `Spec => []StepsGetTheirTexts` |

`OwnTextFound` rests on `RetrievalAssumption` and `SearchAssumption` too: finitely many dimensions (128 in the
code) and documents, a sign of 1 or -1 for each token, and finitely many tokens in a text. `TextsArrive` rests on
`TextsAssumption`: a text that an endpoint generates is a finite sequence of words, an empty one included. Nothing is assumed of the hash, of the vocabulary or of the settings.

**The invariant of the orchestrator.** None of the properties is inductive, and the status
columns do not help: whatever holds of them now, a stale session may overwrite
the next moment. What cannot be taken back are the audit trail, the
hand-offs, the provider calls, and that an approval row exists. `IInv`
(`OrchestratorInvariant`) therefore accounts for everything volatile by these:

- `Shape`: types, and which step and mission a place of the control belongs to;
- `ApprovalsAccounted`, `DecisionsAccounted`: an approval row means a gated step
  and a request, and its status an audited decision;
- `SessionAccounted`: each status in a session's *view* has its event in the trail
  (`ViewAccounted`), the dependencies of each step about to run have completed
  (`InputsAccounted`), and each place of the control has its reason: at `begin` the step
  is ungated or granted, at `call` it has been started, at `record` its provider has
  been called (`PlaceAccounted`);
- `StepTrail`, `MissionTrail`: the order of events in the trail itself: started only if
  granted, with dependencies completed and handed over; called only if started;
  completed only if called; a mission completed only if its steps are;
- `TrailExplainsState`: the tables are accounted for like the views.

The proof first shows that each action only adds to the trail (so accounts stay
valid: the `Kept` lemmas), then takes the actions one by one. `TypeCorrect` and the four
properties follow from `IInv` directly. `IInv` is an invariant of the run `concurrent`
too. `WorkflowRefinement` shows with `IInv` that each action maps to the step of `GatedWorkflow` of its
name, or to a stutter.

**The invariant of the planning.** `PlanInv` says what the loops keep: the lists of
dependents invert the dependencies of the steps scanned (`DependentsSound`); `work` is
the part of the latest key's dependents that has not been visited (`WorkSound`); the
in-degree of a key is the *number* of its dependencies not yet visited (`IndegreeSound`); the
keys ready or ordered are those of in-degree 0, each once (`ReadySound`); an ordered key
comes after its dependencies (`OrderSound`). That no key of a cycle is ever ordered
follows from the last by induction on positions only, so it is carried along as an
invariant of its own: a *knot*, a set of keys each of which depends on one of the set,
contains no ordered key (`KnotsUnordered`). When nothing is ready, the keys left over are
themselves a knot, because each has an in-degree above 0 and an unordered
dependency (`KeysLeft`); so they are none exactly if the plan has no cycle. The
cardinalities (a list without repetitions has as many elements as its length)
rest on the library's theorems about finite sets.

**The invariants of the documented deployment.** With one worker and one decision at a
time the tables can be trusted after all, and the argument takes three steps.
`Agreed`: a step's row, its approval and the calls of its provider tell the same story
(`RowsAgree`, `CallsFresh`); a decision in progress is about an undecided approval (`DecisionSound`); the worker's view
of a step differs from its row only where it still sees it waiting, since only a decision may
come between (`ViewFresh`); and the steps the pass is about to run were pending and have not been called
(`PlaceFresh`). `Safe(m)`: a mission has a job on its way, a worker, or an
approval undecided or rejected, and so has each step a worker still believes to be waiting. Without faults
every action keeps every mission safe; a fault makes at most one mission
unsafe, the one it hits, and no action makes another so: hence the count of `Stranded`
missions never exceeds `faults`. `Scheduled`: a running step is the one its worker is at, and a pass that has
run nothing so far still has a step to go to or one that waits. It rests on the plan being acyclic: among the pending
steps of a mission the one of the least position has all its inputs, if no step has failed
(`LeastPosition`, `FirstPending`), so a pass that begins has something to do.

**The invariant of the start-up** (`IInv` of `StartupProofs`) reads the schema off the places of the processes: what a migration
has done so far is there, or gone (`ProcSound`); a server with automatic creation that has got past it has all the tables;
a command has the database to itself (`Alone`); a worker that has ever been up found the
revision recorded (`WorkerSound`). Types and tables of the revision are finite lists, so the order of the
`REFERENCES` is computed by lemmas (`ReferencesBefore` and those after it). `OrphansRemain` strengthens `Orphaned` to `Doomed`,
which no step leaves: no revision is recorded, and a table stands in the way of every migration under way or to come.

**The invariant of the registry** gives each row its one event (`UserTrail`, `AgentTrail`, `MissionTrail`), each handler in progress
an actor whose role entitles to what it has checked (`SlotsSound`), and each mission being created an id of its own
(`FreshMissions`). As roles never change, what was entitled at the check is at the commit.

**The invariant of the memory** follows a document through the two stores: no two handlers have the same one (`OwnDocument`), a handler knows what
its document may have left in Qdrant (`AllPending`), and a put is applied once and
what is committed has its point (`AllKept`). Documents that failed after their put are counted
against `Allowance`, the failures and as many for each death as there are handlers (`LostAccounted`): a failure loses one handler's document, the death of
a process at most one for each handler it ran (`NothingLost`, `LostSteps`).

**Decisions, with any number of workers.** `DecisionsStand` does not need the tables to agree. Only a worker that has found no
approval writes one (`pending`, a row that did not exist), and only a decider whose request
holds the row writes a decision; with one decider its request was read as `pending` and nobody has changed it since
(`Deciding`, `Stands`). Stale workers write over steps and missions, never over approvals. The run `overlapping_decisions`
violates the property with two deciders, so `OneAdmin` is needed. So it is for the others: with `CompletedMeansAllSteps`, `NoSchedulingDeadlock`
or `AtMostOnceInvocation` in the place of its property, that instance violates each of them, because the second
decision sets back a step that has begun or been completed.

**Termination, its safety half.** That an execution *goes on* is fairness, and TLC checks it; that it cannot go on *for ever*
is an action property, and proved. `Ahead` counts ten for each undone step in the view, plus the length of the
way from the place of the control to the next round (`Stretch`). A round that has made progress has at least one
undone step fewer, which pays for the next round; a round that has not ends the execution. The proof needs
that the rest of a pass holds only undone steps, each once (`PassFocused`). `Remaining` is the same for
Kahn's algorithm: each pop costs a key of which there is one fewer (`OneKeyFewer`), and pays for the
visits of its dependents, which are at most all keys (`NoLongerThanKeys`). No key is ordered twice, so cycles cannot make it run on.

**The ranking.** A hit that comes before a document's own, when memory is searched by the document's text, has a score
at least the own one's; the own is 1, and none is above 1, so both are 1. For the local store that is Jaccard's
index, which is 1 only of equal sets of tokens. For Qdrant it is the Cauchy-Schwarz inequality in whole numbers
(`CauchySchwarz` in `FoldProofs`), and a cosine of 1 is what `Alike` calls texts that cannot be told apart. The other half of the property, that the
own document is listed at all unless the list is full, is a matter of counting: the list has `limit` places, or as many as there are
documents found (`Ranked`), and only one that scores no less may come in the place of another. Scores are fractions here; the code's floating-point
cosines may round two equal scores apart, by the last digits.

**The texts.** A server that is up has passed the validator (`IInv` of the start-up), so a key is missing only where an agent
names its provider itself; from there it is a case for each form of answer. `ItemsRead` says what is collected from any output, `OpenAIJoins` that the adapter joins
it, and `JoinedWords` that joining the words of a text of any length gives each at its place, with a line break at every place between (`IsLines`):
a word is put after a line break one at a time, and a concatenation is determined by such steps (`FlattenSteps` of `FoldProofs`).

**Sums and concatenations.** The library's induction theorems cannot be instantiated here (they take an operator as a parameter), and sums
over sets are folds. `FoldProofs` reasons by the least counterexample instead: a set of natural numbers that has 0, and `n + 1` with
`n`, has them all (`AllNumbers`), which is applied to the sizes of finite sets to get what a sum does when an element is added
(`SumFolds`), and from that every inequality between sums.

**Only model-checked:** liveness and everything else that needs fairness (`ExecutionTerminates`, `SubmittedComesToRest`, `ApprovedStepRuns`, `Terminates`,
`AllProcessesStart`, `IngestionEnds`, `ContainersComeUp`), which is out of the prover's reach. Every invariant and every action property
of the passing runs is proved. The five violated properties are what they are: false.

## 6. Findings

1. **Overlapping decisions** (`overlapping_decisions`, `api.py:224`). Two administrators
   decide one approval: both read `pending`, one waits for the row lock and then overwrites the
   other's decision. A step can so run with its approval row saying
   `rejected`. `README.md:103`: "An approval decision is immutable through the API."
2. **Rejection overwritten** (`rejection_overwritten`, `executor.py:77`). In one pass the worker runs
   a step and asks for the approval of another. In the next there is nothing to run; before it parks the mission, an
   administrator rejects, and step and mission are committed as `rejected`. The worker still sees the step
   waiting and commits `waiting_approval` over it. No approval is pending any more, no job is queued:
   the mission never ends. `README.md:103`: "rejection terminates the mission".
3. **Jobs are delivered at most once** (`worker_crash`, `worker.py:24`). `blpop` removes the job first.
   `docs/ARCHITECTURE.md:50`: "The current queue is at-least-once transport".
4. **Approval after rejection** (`approval_after_rejection`, `api.py:235`). With two gates open, the
   second may be approved after the first was rejected; the mission goes from
   `rejected` back to `queued`, and a worker takes it up. It ends `rejected` again, but the
   state machine of `docs/ARCHITECTURE.md` has no such edge.
5. **The collection is put again** (`collection_refused`, `memory.py:71`). `build_memory` makes a new store for every
   operation, which puts the collection without looking for it and raises for every refusal. The run has a Qdrant that refuses to
   create what exists: an ingestion waits with its row flushed, a search creates the collection, and the ingestion is
   refused though nothing has failed. `docs/DEPLOYMENT.md:46`: "the collection is created idempotently on first memory
   operation". Whether it happens depends on Qdrant, which is not part of the repository (`compose.yaml` pins `v1.13.2`); the code itself does
   nothing to make the creation idempotent. With the other answer, which every run has too, memory works.

## 7. Plan

Done, in this order: the orchestration core, with its abstract specification and its proofs; planning with its proofs;
registry and memory; start-up, migrations, settings and providers; the ranking of hits; the proofs of registry, memory and start-up; the one-worker
invariants of the orchestrator; sums and concatenations, and with them the ranking and the texts; termination of executions and
of planning as variants; decisions with any number of workers; the link from planning to the orchestrator's assumption.

Left to prove: what the liveness properties rest on and is no liveness itself, for instance that a handler that waits for a row
lock waits for one that does not wait, and that a parked mission's undecided approvals are all of them recorded.

What could come next: a second revision, when there is one, so that a migration of data can be modelled; a repair of each finding as a variant of
`ControlPlane` and `MissionExecutor`, once the code has it, with the violated property as one that holds.

## 8. Not modelled

- Outputs, hand-off payloads, prompts, notes and timestamps: no control flow
  reads them. That a provider's text may be one the database refuses is part of the
  fault `"crash"`: the execution ends with its step running.
- The middleware and the logging (headers, metrics, CORS, log format): per request,
  without state a handler reads. Liveness and metrics endpoints likewise.
- Read-only endpoints that list rows: their answers are the tables.
- Password hashing and the encoding of tokens; a token is held or expired.
- The regular expression that makes tokens and SHA-256: a text is a set of tokens, and a token has any
  component and sign.
- A text item whose `text` is JSON `null`, which `join` refuses (the step fails): an item has a text or none.
- Schema validation by Pydantic beyond risk levels, "at least one step" and an agent's provider.
- Columns and indexes, which come with their table; Alembic's offline mode, which prints SQL.
- The web console: a client of the API, whose calls are the environment's choices in
  `ControlPlane`, `Registry` and `DocumentMemory`; its own state is what it displays. CI, and the containers of third parties.
- SQLite's locking in the orchestrator: there the tables are PostgreSQL's under READ COMMITTED,
  the production profile.
- Deletion of missions: no endpoint deletes, so `LookupError` in `_load` cannot arise.
