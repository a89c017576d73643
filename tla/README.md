# blop: specifications, model checking and proofs

blop is an MCP server for release testing. An agent records flows through a web
application, the server replays them in background runs, classifies what it saw,
and turns the result into a release decision. This directory holds TLA+ models of
its control logic (Python under `src/src/blop/`; paths below are relative to it),
TLC configurations that check them, and theorems that TLAPS proves.

## 1. Inventory

| Component | State it keeps | Operations | Talks to |
|---|---|---|---|
| Run lifecycle: `tools/regression.py`, `server.py` (`cancel_run`, `run`) | rows of `runs`, `run_cases`, the `durable_checkpoint` observation; `_RUN_TASKS` in memory | launch, background task, cancel, shutdown, resume | storage, replay engine, event log, release briefs |
| Storage: `storage/sqlite.py` | one shared SQLite connection, `_db_rw_lock`, about 20 tables, two in-memory write buffers | one function per statement group, `init_db`, migrations, archive | everybody |
| Run event log: buffers in `storage/sqlite.py`, SSE stream in `server_http.py` | events per run, in memory and in `run_health_events` | save, flush, list, stream until final | run lifecycle (producer), HTTP clients |
| Release check: `tools/release_check.py`, `reporting/results.py` | `release_snapshots` (registration, brief, run id) | check, preliminary brief, refresh after the run, register by REST | run lifecycle, results |
| Replay engine: `engine/regression.py` | queue of flows, results by position, per-flow step budgets, healed steps | `run_flows`, `execute_flow`, step replay, healing, repair by an agent, re-recording | browser pool, LLM, recorded flows |
| LLM access: `engine/circuit_breaker.py`, `engine/llm_*.py` | breaker per provider | gate, record outcome, back off | agents |
| Auth: `engine/auth.py`, `tools/auth.py`, `tools/capture_auth.py` | login cache, validation cache, storage-state files | resolve, log in, validate, invalidate | launches, browsers |
| Browser session: `engine/browser_session_manager.py`, `tools/browser_compat.py` | one page with tabs, element refs, routes, event buffers | some 40 `browser_*` tools | Playwright |
| Recording and discovery: `engine/recording.py`, `engine/discovery.py` | steps of a flow; crawl queue, inventory | guided recording, bounded crawl, planning | LLM, browser |
| Classification: `stability.py`, `reporting/results.py`, `engine/classifier.py` | none | severity, stability bucket, risk, decision | results, briefs |
| Mobile: `engine/mobile/` | an Appium session per flow | record, replay | run lifecycle |
| Surface: `server.py`, `api/v1/`, `tools/*` | none of its own | argument checks, response envelopes | all of the above |

What is hard here, and what would make each part correct:

* **Run lifecycle.** One asyncio process; every await is a place where another
  coroutine may write the same row. A run's status has seven writers: the launch,
  the task and its three handlers, the finalizer of a task that raised,
  `cancel_run`, the drain of a stopping process, the recovery in `init_db`, and the
  resume. Correct means: a flow is never lost between table, checkpoint and
  task; a completed run is whole; a final run stays final; a cancelled run stays
  cancelled; a run comes to an end.
* **Event log.** Events are popped from a buffer before they are written, several
  flushes overlap, and the stream reads status and events separately. Correct means
  nothing is lost or repeated, and a watcher sees every event of a run that ended.
* **Release briefs.** A brief is written twice for each check, by two tasks.
  Correct means the brief of a finished run is the one that lasts.
* **Replay.** Workers share a queue; a step falls back from selector to text, vision,
  agent, re-recording and goal, each with budgets. Correct means exactly one
  case per flow, and no pass that hides a failed assertion.
* **Storage.** Coroutines share one connection, so a group of statements that is
  cancelled leaves its transaction to the next one, which commits or trips over it. Correct
  means: groups stay whole, the schema version is honest, no event is lost.
* **Auth and browser session.** State read before an await and used after it: a file validated
  while it is rewritten, a tool that waits for a page while another call closes the session. Correct
  means a verdict is about the file it names, and nothing gets from one session into another.
* **Discovery and recording.** A crawl with several workers, a budget that moves, and a condition
  they wait on; an agent with a screenshot task beside it. Correct means every page is visited at most
  once, nobody waits for ever, the answer says what is stored, and a recorded flow is whole.
* **Breaker.** After the cooldown every caller passes, and late answers of earlier calls count.

`PROJECT.json` lists every hazard at its line, with the properties that cover it or
the reason none does yet.

## 2. Plan

Done:

1. `RunLifecycle`, `RunLifecycleProofs`: the runs of the server (section 3).
2. `CaseIntake`, `ReplayPool`, `ReplayPoolProofs`: the worker pool and its contract towards a run (section 4).
3. `FlowReplay`, `FlowReplayProofs`: one replay with its verdict, healing and re-recording (section 5).
4. `SqlGroups`, `SharedStore`: the statement groups on the one connection, buffers, stream (section 6).
5. `CaseVerdict`, `RunReport`, `ReleaseCheck`: from a replay's outcome to a release decision (section 7).
6. `AuthSession`, `BrowserSession`: logins and the shared browser (section 8).
7. `SiteCrawl`, `Recording`, `Discovery`: crawl, planning and recording (section 9).
8. `AuthSessionProofs`, `BrowserSessionProofs`, `DiscoveryProofs`, `ReleaseCheckProofs`, `SharedStoreProofs` (section 11).

Left, in this order:

1. `LlmCircuit`: the breaker never admits a call while it is open and cooling down.
2. The lease of a replay's browser, and the mobile sessions.
3. Proofs: the state part of `RecordingsAreWhole`.

How modules build on each other. `ReplayPool` implements `CaseIntake`, which `RunLifecycle` takes its replay to
be; `FlowReplay` is what happens between two steps of a pool's worker. `SharedStore` extends `SqlGroups` with who
runs the statements. `ReleaseCheck` extends `RunReport`, which extends `CaseVerdict`; its runs are those of
`RunLifecycle` cut down to their cases and their end. `BrowserSession` extends `AuthSession`: starting a session resolves a
profile under the session's lock. `Discovery` extends `SiteCrawl` with the planning that follows a crawl, and
`Recording` with a recording beside it, which writes the table the planning reads.

## 3. `RunLifecycle`

State. `status`, `flowIds`, `report` (the flows with a case in `cases_json`),
`rows` (the flows with a row in `run_cases`), `renamed` (the flows whose row is under the id of the flow recorded in their place) and `ckpt` (the checkpoint's completed and
remaining flow ids) are the database and survive a crash. `phase` is where the
process is; `launch` is the program counter of `run_regression_test`;
`pc`, `req`, `taskFlows`, `classified`, `replaced` and `cur` are the background task (its
program counter, an undelivered `Task.cancel()`, `all_flow_ids`,
`classified_by_flow` under their own id and under that of a re-recording, the case under `checkpoint_lock`); `finalizer`, `cancelling`,
`drain` and `resumeTodo` are the other coroutines that write the row. `cut` is a history
variable: flows whose `save_cases` was interrupted after the case had been put into
`classified_by_flow`. `stops` and `faults` count towards `MaxStops` and `MaxFaults`.

| Actions | Code |
|---|---|
| `Admit`, `Refuse`, `CreateRun`, `CheckpointLaunch`, `SpawnTask`, `LaunchRaises` | `run_regression_test`: concurrency check, early returns, the row (queued or waiting for authentication), first checkpoint, spawn |
| `BeginRunning` .. `EndCompleted`, `NoteCase`, `NoteRerecorded`, `SaveCase`, `CheckpointCase` | `_run_and_persist` up to a normal end, with `_persist_case_progress` |
| `TimeOut`, `FailRun`, `CheckpointFailed`, `EndFailed` | `except TimeoutError`, `except Exception` |
| `ThrowCancel`, `StopRun`, `CheckpointQueued`, `EndCancelled` | `except CancelledError`; a second cancel leaves that handler |
| `TaskRaises`, `MarkFailed` | exceptions inside and outside the try block; `_safe_mark_failed` |
| `CancelRun`, `CancelWrite` | `cancel_run`, split at its await |
| `ValidateSetup`, `Boot` | the recovery of `init_db`, in a serving and in a starting process |
| `CloseLoop`, `BeginDrain`, `DrainRun`, `EnsureTerminal`, `Exit`, `Crash` | the ways the process stops |
| `Boot`, `PassOver`, `ResumeWaitingAuth`, `ResumeRun`, `EndResume`, `Serve` | `resume_incomplete_runs`, under `asyncio.run` (`server.run`) or in the serving loop (HTTP) |

Grain. asyncio runs one coroutine at a time and `_db_rw_lock` serialises statement
groups, so an action is one database operation with the synchronous code up to
the next await. Reads that nothing uses, log lines, and the lifecycle events are left out.
A flow is an element of `Flows`; its replay is the nondeterministic
moment at which `NoteCase` takes it. Errors are a step that raises, at most
`MaxFaults` times.

Facts of the code that shaped the model:

* `list_cases_for_runs` returns a dict of lists. `_run_and_persist` and
  `_mark_run_resumable` iterate it as if it were a list of cases. The first gets
  run ids without a `flow_id`, so a resumed task starts with nothing classified; the second
  raises, so a drain in a durable mode leaves the row to the task's own handler.
* A flow that was recorded anew (`auto_rerecord`) ends in a case with the id of the new flow, which is none of
  `all_flow_ids`. Its row is written, but `runs.cases_json` of the completed run lacks it and every
  checkpoint keeps the old id among the remaining flows. So `NoteRerecorded` fills `replaced` and
  `renamed`, never `classified`, `report` or `ckpt`.
* `force_finalize_active_runs` looks at a registry that the stop has emptied: it has no
  action of its own.
* `server.run` resumes under `asyncio.run`, whose loop cancels the resumed tasks
  when `resume_incomplete_runs` returns (phase `settling`). A task cancelled before its
  try block leaves its row as it is.
* A stop, a timeout or an exception between `classified_by_flow[...] = ` and `save_cases` (`tools/regression.py:928`)
  leaves a case noted and unsaved. The checkpoint of the handler calls the flow completed, no resume replays
  it, and the run ends "completed" without a row for it: one flow for each stop and each fault, which is what
  `CompletedRunsAreWhole` allows.
* The checkpoint compares the ids of cases with `all_flow_ids`, so a flow that was recorded anew stays in
  `remaining_flow_ids`: after a stop every such flow is replayed again, not one of them (`RepeatsAreBounded`).
* `cancel_run` during a launch finds no task; the launch spawns one afterwards and the
  run executes although its row said cancelled. The model has this behaviour.
* `resume_incomplete_runs` asks `list_runs` for 50 rows; the models have fewer runs.
* The concurrency check precedes registration by many awaits; two launches can pass it.

## 4. `CaseIntake` and `ReplayPool`

`CaseIntake` says what `_run_and_persist` relies on while its flows are replayed: one case at a
time, noted before it is filed, and an intake that is complete only when every flow has a case.
`RunLifecycle` takes the replay to be this. `ReplayPool` is the code that has to keep it: `run_flows`
with its workers, its callback `_persist_case_progress`, and the loop over the cases it returns.

State. A slot is a position in the list of flows; a list may name a flow twice, because `get_flows` returns
one flow for each id it is given, and then the flow is replayed twice and both cases go to the last of
its slots (`positions`). `order` is the queue, `taken` how much of it is gone, `results` what
each slot got. `pc` and `slot` are the workers and the coroutine that gathers them (`Main`); both run
the callback, so `Note` .. `StatementRaises` take either. `lock` is `checkpoint_lock`; `noted` is `classified_by_flow`,
`filed` the rows of `run_cases`, `payload` the checkpoint a coroutine has built and not yet
written, `ckpt` the one that is stored.

| Actions | Code |
|---|---|
| `Take`, `Leave`, `FlowEnds`, `FlowRaises` | `run_one`: the queue, and the two ways `execute_flow` ends |
| `Note`, `Save`, `SaveEvents`, `WriteCheckpoint` | `_persist_case_progress`: the lock, and its three statements |
| `ClassifyRaises`, `StatementRaises` | an exception before and under the lock: `run_one` logs it, `_run_and_persist` fails the run |
| `GatherReturns`, `PassResult`, `NoteResult`, `CompleteRun` | the end of `run_flows`, and the loop that notes what the callback did not |
| `StopRun` | a cancel or the run timeout, anywhere |

The order of the queue is a relation (`Interleaved`): a permutation that goes round the areas; the
loop that computes it is not modelled. A replay is atomic here; a flow that is
recorded anew is left to `RunLifecycle`, where its case has a different id.

## 5. `FlowReplay`

One call of `execute_flow`: what one `FlowEnds` or `FlowRaises` of the pool stands for.

State. `kinds`, `mode`, `autoRerecord` and `storageState` are the request: the flow's steps (a click, fill, select,
upload or drag is an `act`), the effective mode (a flow may override the run's), and the two switches. `at` is `step_idx`,
`outcome` is `trace.step_results`, `firstFail` is `step_failure_index`. A `denied` step is one that failed with an error
text the code takes for an authentication failure, as it does for every navigation that ends on a login page.
`nameable` are the repaired steps whose proposal has a selector or a role; the
others are left out of `healed_steps`, so a repair by label or text alone is never persisted. `matched` is a history
variable: the accepted proposals that matched an element. `clean` sums up servers and required API
expectations; `status`, `toHeal`, `healed`, `rerecorded` and `distrusted` are the verdict and what is done with it.

| Actions | Code |
|---|---|
| `Begin`, `DeferAssert`, `StepPasses`, `NavigateFails`, `LocatorsFail`, `StepTimesOut`, `EndSteps` | the loop of `execute_recorded_flow` and the tiers of `_execute_single_step` |
| `RepairFails`, `RepairSucceeds` | the hybrid tier: no proposal, no quota, below the thresholds, action fails; or repaired |
| `EvaluateAsserts` | `_evaluate_assertions` and the API expectations: an assertion without an answer fails |
| `MakeCase` | `_trace_to_failure_case`, and `invalidate_validated_session_cache` for a blocked case |
| `HealStep`, `EndHealing`, `Rerecord` | writing repaired locators back; `_hard_heal_rerecord` |
| `ReplayGoal` | `_goal_fallback` |
| `Raise` | a cancel at an await, or an exception no handler of the replay catches |

What the page shows, what the agents propose and which locator tier works are choices. `_evaluate_assertions` sees the
page the loop ended on, so an assertion in the middle of a flow is checked at its end; after a break of
`strict_steps` only the assertions before it are evaluated. Left out: the lease of the browser, step
events, screenshots and texts.

`StrictKeepsToSteps` covers less than `README.md:823` of the repository says ("fails immediately if anything doesn't match"): in
`strict_steps` too an assertion that does not hold is found after the last step, and stops nothing.

Facts of the code met on the way: `_hard_heal_rerecord` records a flow of its own and leaves the failed one as it is,
though the docstrings of both functions speak of replacing the stored steps; locators are written back whatever
becomes of the case; `_goal_fallback` raises `UnboundLocalError` when it fails before `goal_trace_path` is bound; a
proposal whose confidence is no number raises out of the whole replay. `ReplayPool` turns the last two into
`orchestration_error` cases.

## 6. `SqlGroups` and `SharedStore`

`SqlGroups` writes each storage function that writes as a sequence of statements (`create_run`, `save_cases`,
`save_policy`, `archive_old_runs`, `init_db` with its migrations, ...), and says what a statement does to a database and
when SQLite refuses it. `SharedStore` runs these groups.

State. `disk` is what is committed and survives a crash; `conn` is what the connection sees, `tx` whether a transaction is
open on it, `lock` who holds `_db_rw_lock`. A coroutine that flushes has batches to write (`todo`); one that holds the lock has the rest
of its group (`plan`), which may roll back (`rescue`). A process starts with the group of `init_db` (`Starting`). `evBuf`, `artBuf` are the write buffers, `accepted` the events somebody was told are
saved. `stream` .. `due` are one response of `_run_event_stream`. `torn` and `gone` are history: a group
cut off in the middle, events of archived runs.

| Actions | Code |
|---|---|
| `Call`, `Execute` | a storage function: it takes the lock, and executes one statement after the other; every statement is an await |
| `Acquire` | the next group of a flush: the events of a run, or its artifacts |
| `save_run_health_event(s)`, `save_artifact`, `flush_buffered_writes` | the buffers, when they are flushed, and the popping before the write |
| `Cut`, `Fault` | a cancel at a statement, a statement that raises: the lock is released, the transaction stays unless the group rolls back |
| `Crash` | the process ends; `Server` starts with `init_db` |
| `OpenStream`, `ReadStatus`, `FlushForStream`, `ListEvents`, `Wake` | the SSE generator, with the awaits between its reads |

Facts of the code that shaped the model:

* Only two groups roll back. A coroutine cancelled between execute and commit leaves its rows to whoever commits next;
  `PRAGMA synchronous` and `BEGIN` fail in a transaction that was left open.
* An `ALTER TABLE` commits what came before it, so the migrations are not one transaction.
* `archive_old_runs` cannot delete a run with an observation (foreign keys are on): the whole archive rolls back. It
  compares dates as texts and may take up to a day more than it says.
* The stream asks for 500 events, the oldest first: of a run with more it never shows the later ones. The stream of an archived
  or unknown run does not end.
* A cancel inside `save_policy` may leave no default policy.

## 7. `CaseVerdict`, `RunReport`, `ReleaseCheck`

`CaseVerdict` and `RunReport` are operators: the failure class and severity of a case, stability buckets, the
release recommendation under a policy, the report, the brief with its risk, and triage. The texts a case carries are the
set of signals the code recognises in them. `ReleaseCheck` is what makes and stores these.

State. `row` is a release's row of `release_snapshots` (snapshot, metadata, project, run id, brief); `run` is what
its check launched, with the cases stored so far (`saved`) and those kept in the row (`kept`); `chk` is how far a check
is, `rd` how far the reading of a run for its brief is, `asked` what a client waits for. `set` is the policy and the
environment's flags, `lost` the runs whose brief found no link.

| Actions | Code |
|---|---|
| `register_release`, `assess_release_risk` | the other two writers of the row |
| `create_check`, `run_release_check`, `LaunchRefused`, `Launch`, `SavePreliminaryBrief` | a check by replay: the run is launched before its preliminary brief is written |
| `EvaluationRefused`, `CreateEvaluation`, `UpdateEvaluation`, `SaveEvaluationCase` | a targeted check: `evaluate_web_task` creates its run when it is over |
| `TaskStart`, `TaskCase`, `TaskCompletes`, `TaskFails`, `TaskCancelled` | the run, as far as a reader sees it |
| `RefreshLink`, `SaveBrief` | `refresh_release_brief_after_run`: the link is read, later the brief is made and written |
| `get_test_results`, `get_check_status`, `Answer` | a client's question: the run is read first, its cases later |

Facts of the code that shaped the model:

* A run that ends before its preliminary brief is written finds no link; its release keeps INVESTIGATE.
* A second check relinks the release: the first one is answered 404. What the first still has to write - a refresh under
  way, or its preliminary brief - may come last and link the release back; the refresh of the second then finds no link, and
  the outcome of the newer run is never shown. So `BriefComesTrue` speaks of a release for which no other check has a brief to write.
* `get_run_recommendation_resource` and the calibration record compute without the stored policy and without a
  bucket, so they may disagree with the report.
* Cases that are blocked or in error count as severity "error": a BLOCK may be described as "Minor issues".
* `block_on_install_failure` looks at the first-ranked bucket only, though `schemas.py:948` speaks of any. Environment flags raise a
  SHIP to INVESTIGATE, never to BLOCK.
* A run that waits for authentication without cases is answered SHIP while `release_blocked_by_stability` is true.
* A targeted evaluation that passes with console or network errors is INVESTIGATE when it answers and SHIP when
  it is computed again.

## 8. `AuthSession` and `BrowserSession`

`AuthSession` resolves profiles. `file[p]` is the write that made a profile's state file (0: no file), `accepted` the
writes whose session the site accepts; `cache` is `_auth_cache`, `validated` is `_validated_session_cache`, `login` the
lock of a profile, `call` what each client is at. Logins (`TakeLock` .. `LoginEnds`) hold the lock; cookie files
(`ConvertSaves`) and captures (`CaptureSaves`) write the same file without it; `Visit` and `Remember` try a file
on the site, with key and time taken before; `Tick` and `SessionEnds` are the environment.

`BrowserSession` is the manager behind the `browser_*` tools. `sess` is the context with its tabs, `refs` the context the
element refs were read from, `buf` and `mark` the event buffers with the index of the last navigation, `routes` the list
of mocked routes and `mocked` what the context answers, `jar` its cookies; `tool` is what each client is at and
with which context. Only starting and closing (`EnsureStarted`, `Launch`, `close`, `CloseContext`, `Closed`) take the
lock; every other tool is split at its awaits (`navigate`/`Goto`, `NewTab`/`TabIsNew`, `route_add`/`Registered`,
`storage_state_restore`/`Restored`, ...) and may come back to a session that was closed and started again.
`Emit` and `Dies` are the browser.

Facts of the code that shaped the models:

* Auth: an older acceptance may be stored after a newer refusal, and a refusal takes away an entry made
  by a newer login; a login that fails is answered with the file just refused; `profile_url` writes files nothing reads.
* Closing keeps the dialog policy and the two navigation indices. After the last tab is closed every navigation raises.
  `ensure_started` ignores another `profile_name` on a live session. When it fails after the launch, a retry leaks the browser; a dead
  browser keeps its session until `browser_close`.
* A route added again during its removal is answered "registered" and then dropped; one of another reply stays mocked
  without being listed; a refused registration stays listed. `_apply_saved_routes` never finds a route to apply.
* Refs outlive a switch of tabs, a restore, and a navigation during a snapshot; closing an earlier tab shifts the current one.
* `browser_handle_dialog` speaks of the next dialog, the policy stays; `browser_console_messages` speaks of the active page, all pages but
  popups are shown.

## 9. `SiteCrawl`, `Discovery`, `Recording`

`SiteCrawl` is `inventory_site`. `call` is the request with the site as it is; `frontier`, `visited`, `inflight`,
`crawled`, `scheduled` and `budget` are the variables of the function; `worker` has a program counter and an item for each
`worker_loop`. What runs inside `async with condition` up to its wait is one action; a visit is a step of its own that may
fail. Which candidate a worker takes depends on the words in the URLs: here any of them.

| Actions | Code |
|---|---|
| `Acquire`, `VisitBootstrap`, `SkipBootstrap`, `PatternRaises`, `StartWorkers` | the lease, the start page and the seeds |
| `OpenPage`, `Take`, `Wait`, `Return`, `Succeed`, `Fail`, `Gathered` | `worker_loop` and the gather; a failed page gives its place in the budget back |
| `BrowserDies` | the browser of the pool |

`Discovery` is what the tools do with a crawl: `flows` and `quality` are the plan, made from a repository, without or by
an LLM (`RepoAnswers`, `PlanHeuristic`, `PlanWithoutKey`, `LlmPlans`, `LlmFails`), clamped to three to eight flows and
gated (`Gate`). The words of a flow are the classes of words its texts hold; `WordTests` are the tests that make
it critical or not, in the order of the code, and apply to answers and to the fallback flows. `ReadPrevious`, `ReadRecorded`, `SaveGraph` and `LinkJourneys` make the context graph from `graphs` and
`recorded`, while `OtherRecords`, `OtherSavesGraph` and a recording write the same tables.

`Recording` is `record_test_flow`. `rpc` is how far it is, `did` what the agent did, `steps` the flow, `poller` and
`shots` the screenshot task and its list, `open` what has to be closed, `outcome` whether an error or a cancel is on its way;
`left` is history: what nobody will close any more.
`BeginRecording` .. `ReturnEntryPage` come before the agent, `AgentActs` and `PollerShoots` interleave, `AgentEnds` and `Settled`
stop and await the task, `MapAction` and `FinalPage` make the steps, `CloseSession` and `SaveFlow` end it;
`StartDevice`, `ConnectDevice`, `WalkDevice` and `QuitDevice` are a mobile flow. `CancelRecording` may come at each await: at some
it ends the call (`EndedByCancel`), at others it goes through the `finally` blocks (`UnwoundByCancel`).

Facts of the code that shaped the models:

* `max_depth` counts links, not pages: with 1, the pages the homepage links to are crawled too, while `README.md:556` of the
  repository says "1 = homepage only". That is finding 5: `CrawlCovers` states what the code does.
* A seed that the start page links to is crawled twice. `max_pages` is exceeded by 6 or 12 pages on a site with
  many signals, and shrinks when it is above 30 or 40. The bound of `CrawlAddsUp` is that adaptive budget, while
  `README.md:557` and `:1187` of the repository speak of a maximum and of a cap.
* A link `urlparse` rejects raises out of a visit; the call fails, and the workers that wait are never woken.
* A URL first seen on a longer way keeps that depth; it matters from `max_depth` 3 on. A seed that fails as a seed and is
  read later as a link has the depth of the link: what it leads to may be out of reach (`ReadLate`).
* With five sections the fallback plan loses the checkout flow (`tests/test_discovery.py:677` says it adds a revenue
  path). Padding may repeat a name. The words of the business goal count as words of every flow an LLM answers, and
  are not looked at in the fallback flows; a help or saved page of a shop is support or retention although it names the cart.
* `planning_fallback` stays false for an unusable answer, and always with a repository. A confidence in quotes raises in the gate, one in words
  when the graph is built.
* `discover_critical_journeys` links a name to the oldest recording of any application, while the answer of a new recording
  says that it supersedes the one of its name; that one is looked up before the agent starts.
* A step has the screenshot of its number, not of its time (the docstring speaks of per-step screenshots); that of the
  assertions (999) is not in the list the cap is taken from, so it is always dropped.
* Locators are read from the page the agent ended on. A long XPath, or an index without a page, stands in the way of the attributes
  browser-use reported and is then dropped itself: the step has no selector.
* A mobile recording never has a step: `make_message` is called with arguments it does not have, and the loop ends. The empty
  flow is stored; its replay passes.
* A cancel during `await screenshot_task` only reaches that task. One inside a `finally` leaves what was about to be closed,
  and a close that fails is swallowed: the flow is saved with the browser or the device left open.
* `make_appium_driver` creates its session in a thread of the executor, before the `try` whose `finally` quits it. A cancel at that
  await does not stop the thread, and the session it creates is nobody's.

## 10. Runs

| Run | Instance | What it shows |
|---|---|---|
| `lifecycle_exit` | `BLOP_DURABILITY_MODE=exit`, 2 runs of 1 flow, limit 1, one stop, timeouts and re-recording on | `ReportedCasesAreOnRecord`, `WaitingAuthNeverExecutes`, `CancelToldHolds`; under fairness `RunsSettle` |
| `lifecycle_durable` | durable, 1 run of up to 3 flows, 2 stops, 1 fault, re-recording on, both entry points | `TypeOK`, `EveryFlowAccounted` (the inductive invariant), `NoFlowLost`, `CheckpointIsHonest`, `CompletedRunsAreWhole`, `RepeatsAreBounded`, `FinalRunsStayFinal` |
| `finding_cancel_requeues` | durable | `CancelToldHolds` fails: the dying task writes `queued` over `cancelled` |
| `finding_live_run_failed` | exit | `OnlyOrphansAreFailed` fails: `validate` re-runs the startup recovery |
| `replay_pool` | every list of 1 to 3 of 3 flows in 2 areas, 2 workers, durable, 1 fault, a stop at any time | `TypeOK`; `IntakeSpec`: the pool implements `CaseIntake`; `EverySlotAccounted`, `CheckpointNeverGoesBack`; under fairness `PoolEnds` |
| `flow_replay` | every flow of up to 3 steps of 4 kinds, 3 modes, re-recording and storage state on and off | `TypeOK`, `PassIsEarned`, `StrictKeepsToSteps`, `BlockedIsLeftAlone`, `FailureIsLocated`; under fairness `ReplayEnds` |
| `finding_unmatched_heal` | flows of one step | `HealedLocatorsMatched` fails: a locator that matched nothing is persisted |
| `shared_store` | 1 run, one caller, one recorder and a stream, 2 calls, 1 cancel, failing statement or crash, a database of 0 or 1 of 2 migrations, buffers of 2 | `EventsAreKeptOnce`, `VersionIsHonest`, `GroupsAreWhole`, `StreamTellsAll`; under fairness `StreamEnds` |
| `release` | 1 release, a replay check of 2 flows and a second check of a mobile flow, by replay or targeted, 1 registration or assessment | `ShipIsEarned`, `BriefIsCoherent`, `NobodyClobbers`; under fairness `BriefComesTrue` |
| `finding_ship_without_proof` | one check | `ShipMeansEveryJourneyPassed` fails: a run cancelled before its first case is answered SHIP |
| `browser` | 3 clients with 7 agendas, 2 profiles, 2 sessions, 2 tabs, buffers of 2 events, 3 events | `SessionsDoNotMix`, `ShownSinceNavigation`, `TestedIsThisFile`, `LoginsAreShared` |
| `crawl` | 16 calls on a site of 4 pages in 3 areas, up to 3 workers, a budget that grows by 1 or 2, one death of the browser; recordings of up to 2 actions, 2 screenshots and 1 cancel | `CrawlAddsUp`, `CrawlCovers`, `DiscoveryDelivers`; under fairness `CrawlEnds`, `RecordingsAreWhole` |

Bounds. Runs meet only at the concurrency check, in `FailRunning` and in the phases of the
process, so two of them show every interaction and one is enough where the properties are
about a single run. Three flows allow a stop with one flow saved, one under way and one
untouched. Two stops are needed for a resume that is itself interrupted. One
fault lets each handler be entered by an exception; the theorems below have no such
bound. In the pool, two workers are the least that meet at the lock and at the queue, and three slots let one
flow be replayed by each of them, or twice, while another is waiting, and let a third of another area
overtake. Three steps allow an assertion before and after a failing step, and two failures of different kinds; the
theorems hold for flows of any length.

In the store, statements of different coroutines interleave pairwise on one connection: one caller of two groups and a
recorder, with the flush of the stream as third, meet in every order; one cut is one half group for the other to commit, trip over or
read. Two migrations are one whose column is there and one whose is not. Of the groups that write one row nobody else looks at, some
stand for all. In a release two checks race for the link and the brief, and a third would race as the second does; one edit falls
between any two of their steps. In the browser, one client waits, one closes and one starts anew; two sessions, two tabs and one event more than
the buffer holds are the least at which something can get from one to the other, or be dropped. In the crawl, the third worker waits
while one visits and one raises; four pages allow a frontier that fills, empties and is known twice, and two tiers a
budget that grows and one that shrinks. Two actions and two screenshots of which one is cut let screenshots be
fewer, as many or more than actions. Recordings run beside a call that is refused, and a mobile one beside one that
plans; other recordings come by `OtherRecords`.

Fairness. `FairSpec` of `RunLifecycle` asks weak fairness of the launch, of the task, of the second half of
`cancel_run` and of the finalizer: the event loop resumes every ready coroutine, and each
browser step, agent call and run has a timeout, so an await ends. Nothing is
asked of users, of stops or of starts. `RunsSettle` is claimed for a process that keeps
serving and raises no exception: a statement that fails for ever is not survivable, and after a
stop in exit mode nobody looks at queued rows.

In the pool the same reasons hold for each worker and for the coroutine that gathers them: a replay
ends, a classifier and a statement return or raise. `asyncio.Lock` wakes its waiters in
order and the lock is released after three statements, so weak fairness is enough for `PoolEnds`.

For one replay, weak fairness of its own steps: each step has `BLOP_STEP_TIMEOUT_SECS`, the loop has one pass over the
steps, the agents have step limits. No fairness is asked of `Raise`.

In the store, of every caller that waits for the lock or executes (aiosqlite answers) and of the stream (its sleep ends).
In a release, of the run's task and of what makes its brief; nobody has to ask or to launch. In the crawl, of the call
and of each worker: `goto` and the wait for a page have timeouts, and a page's scripts are taken to return although
`page.evaluate` has none; nothing is asked of other calls. A recording's agent has a step limit, and its screenshot task is
resumed. The browser session is checked for safety only: its clients may wait for a dialog for ever.

`CHECK_DEADLOCK FALSE` where the system may stop: all runs have ended, the calls are made, the bound on
stops, events or sessions is reached.

## 11. Proofs

Every theorem is for all values of the constants that the named assumptions allow.

`RunLifecycleProofs`, for any sets of runs and (finite) flows, any limits and both modes, from `LifecycleAssumption`:

* `TypeCorrect`: `Spec => []TypeOK`;
* `Accounting`: `Spec => []EveryFlowAccounted`; `FlowsAreNeverLost`, `CheckpointsAreHonest` and `ReportsAreOnRecord` follow
  from it;
* `Turns`: `Spec => []WritersTakeTurns`; `WaitingAuthIsIdle`, `FinalStaysFinal` and (in exit mode) `CancelHoldsInExitMode`
  follow from it;
* `Cuts`: `Spec => []CutsAreCounted`; with `Accounting`, `CompletedIsWhole` follows from it;
* `Lags` and `TasksKeep` (in a durable mode): `Spec => []LagIsBounded`, `Spec => []TasksKeepToTheRun`; `RepeatsBounded` follows
  from them.

The properties of accounting are not inductive one by one. That a completed run is whole rests on what the
task that completes it was given; that rests on the checkpoint it was resumed from; that
rests on what the task that wrote it had classified, and on the rows behind it. `EveryFlowAccounted`
says it in one piece: what a run owes is recorded, or in its task, or in its checkpoint; what task
and checkpoint take for done is recorded or being saved. `WritersTakeTurns` says who may be at a run at a time: its launch,
its task, the finalizer of the task, or a resume. `LagIsBounded` counts, run by run, the flows with a row that the
checkpoint still owes: only the row written last may be missing from it, and each stop leaves at most one more behind.
`TasksKeepToTheRun` adds that a flow which was recorded anew is one of the run, so that accounting finds it among the remaining ones.
`CutsAreCounted` counts the interrupted saves: a task has at most one, because it leaves its loop by it, and another task takes
the run up only after a stop. The proofs go by group of actions (launch, task, server, process), with one step for each action.

`ReplayPoolProofs`, for any flows, areas, lists and numbers of workers, from `PoolAssumption`:

* `PoolTyped`: `Spec => []TypeOK`;
* `SlotsAccounted`: `Spec => []EverySlotAccounted`;
* `PoolIsIntake`: `Spec => IntakeSpec`, the refinement of `CaseIntake`;
* `CheckpointOnlyGrows`: `Spec => CheckpointNeverGoesBack`.

The inductive invariant is `TypeOK`, the fixed meaning of `positions`, and `EverySlotAccounted`: a slot waits, is with a
worker, or its flow has a result; workers leave an empty queue, the loop begins when all have left
and passes only what is noted; and who notes, files or checkpoints holds the lock. Its last part
makes the filing of the intake one flow at a time, the others make `CompleteRun` a `Complete`.

`FlowReplayProofs`, for flows of any length, from `ReplayAssumption`: `ReplayTyped`, `PassesAreEarned`,
`StrictIsStrict`, `BlockedStaysBlocked` and `FailuresAreLocated`, each `Spec => []` of its property. They follow from
`ReplayInv`: the loop has a result for each step behind it and none for one before it, assertions get theirs all at once
(`LoopInv`, `AssertInv`), and from then on the case says what was seen until a flow recorded anew replaces it
(`VerdictInv`). A pass is earned because a replay that left its loop early has a failure at the position where it left.

`BrowserSessionProofs`, for any clients, whatever they call in turn, from `AuthAssumption` and `BrowserAssumption`:

* `OneSession`: `Spec => []SessionsDoNotMix`;
* `ShownIsComplete`: `Spec => []ShownSinceNavigation`;
* `CacheIsOfTheFile`: `Spec => []TestedIsThisFile` and `WaitersShareLogins`: `Spec => LoginsAreShared`, which
  `AuthSession` states.

The invariant has three parts. `SessionInv`: who starts or closes holds the lock; what the browser has open is the session there is; each
event, cookie and route is of that session or on its way to it, also when the tool that brings it was overtaken by a close and
a new start. `ShownInv`: since the last navigation, the tail of a buffer behind its mark is what came in, less
what the limit dropped from the front. `AuthInv` (`AuthSessionProofs`, lemmas only): a cache entry, and a test under way, name a
write of the file that was there when it began, never one to come.

`DiscoveryProofs`, for any site, any number of workers, any budgets, any answers of the LLM and any other calls, from
`CrawlAssumption` and `DiscoveryAssumption`:

* `CrawlIsBooked`: `Spec => []CrawlAddsUp`;
* `CrawlIsComplete`: `Spec => []CrawlCovers`;
* `DiscoveriesDeliver`: `Spec => []DiscoveryDelivers`.

`CrawlInv` adds to the first what makes it inductive: the items of workers at a page are exactly the set in flight,
the frontier has each URL once and none that is in flight, a scheduled page is absorbed or in flight, and how often a URL may still
come up depends on whether it is a seed. That the number in flight goes down with each page that ends is a
fact about finite sets; that the adaptive budget is one of its rows is the least-element principle on the naturals (`WFMin`).

`CoverInv` is about depth: what is tried, in the frontier or read is as near to a seed as its depth says (`ReachOK`, `DepthOK`); what a
page that was read links to is known, unless it is too deep (`LinksOK`); no seed is forgotten (`SeedsOK`); and a crawl ends with an
empty frontier or a spent budget, all its workers off or done (`EndOK`). `Hops` is a recursive function; that there is one
(`HopsAreCounted`) is shown by the walks of n links, and what holds of every number by the least one at which it would not
(`NoNumberIsMissed`), so no induction theorem is needed. With budget to spare, two hops of nothing unread are then nothing untried (`CoverEnds`).

`PlanInv` follows the call after its crawl, which stands still by `EndOK`. Below it are lemmas about lists of flows: what is
picked is not lost (`PickedIs`), a fallback plan has three to eight flows and, unless it is full, the checkout of a storefront
(`FallbackHas`), so has an enriched answer a flow that sells (`EnrichedHas`), and the clamp keeps both (`ClampedIs`). The gate passes a plan it
keeps (`GateOK`); what was read of the recordings holds those from before the call and is only added to (`KnownOK`, `TablesGrow`). The
graph made of it has a journey for every flow and recording, of the most critical class anybody gave it (`JourneysAreTold`), and
keeps what it says whoever records and saves graphs meanwhile (`GraphOK`).

`ReleaseCheckProofs`, for any releases, checks, flows, policies and outcomes, from `FlowsAssumption` and `SettingsAssumption`:

* `ShipsAreEarned`: `Spec => []ShipIsEarned`;
* `BriefsAreCoherent`: `Spec => []BriefIsCoherent`;
* `WritersKeepColumns`: `Spec => NobodyClobbers`.

`ReleaseInv` says how the cases in the table and those in the row of a run relate while either is written (`RunOK`), that
only a run nothing writes any more is read for a brief (`ReadingOK`), what every brief says of its run as it is now (`BriefOK`),
and what a client that asks has read (`AskedOK`). Below it are lemmas about `CaseVerdict` and `RunReport`: the first rule that is met
answers (`FirstIs`), what a recommendation to ship excludes (`RecommendationIs`), the bands of the risk (`RiskIsInBand`),
what the gates of a policy let through (`ShippedIsEarned`, `DefaultShipIsEarned`).

`SharedStoreProofs`, for any callers, any calls to any of the writing functions, any finite set of runs, any number of migrations,
and any number of cancels, failing statements and crashes, from `GroupsAssumption` and `StoreAssumption`:

* `StoreInvariant`: `Spec => []StoreInv`;
* `GroupsStayWhole`: `Spec => []GroupsAreWhole`;
* `VersionStaysHonest`: `Spec => []VersionIsHonest`;
* `StreamHasToldAll`: `Spec => StreamTellsAll`, by `StreamInv` on top of `StoreInv`: what a stream owes was accepted,
  belongs to its run and, once the stream is about to list, is out of that run's buffer;
* `EventsStayKeptOnce`: `Spec => []EventsAreKeptOnce`, by `PlacesInv` and `KeptInv` on top of `StoreInv`.

What a group will have done when it commits is not a fact about its next statement, so `LockInv` speaks of the whole rest of
each plan: `PlanOK` says which statements it may hold and what each of them rests on, which is in the database when the
statement is the next one, and is done by the statement before it otherwise. A new default policy comes after the flag is off
everywhere, a row of a run is deleted after its events, the first events of a run follow its row one after the other, a
version is raised after its columns were added. A statement that succeeds does what the next one rests on (`AppliedPrepares`,
`RestIsOK`); SQLite refuses those that would break the rest of `DbOK`. `GroupIsOK`, `FlushIsOK` and `StartGroup` show that every
group of `SqlGroups` is such a plan, on any database. `Starts` is the goal of `init_db`: every column is there or still to be added. `WholeInv`
tells how far a half of a group can spread: into the connection while `torn` is "open", onto the disk when a later
group commits it.

`PlacesInv` names the places an event or an artifact may be (a buffer, the batches a coroutine has taken, the statements left of
its group, the table on either side of the transaction) and says that no two hold the same one; every step either moves ids
from one place to another (`PlacesShift`), brings new ones (`PlacesMove`) or only drops some (`PlacesShrink`). Which events are dropped
is the business of `KeptInv`. Its core is that a flush is never refused (`FlushIsNotRefused`): an INSERT hits no key
that is there, by `PlacesInv`, and events have no foreign key, so without a fault only other groups raise, which have neither
batches behind them nor accepted events in them. `Rescuable` is the other half: a group that rolls back takes with it what is on
the connection only, and outside the COMMIT of a flush no accepted event is.

TLC checked each of these invariants on the instance of its run before it was proved.

Only model-checked: liveness (`RunsSettle`, `PoolEnds`, `ReplayEnds`, `StreamEnds`, `BriefComesTrue`, `CrawlEnds` and the
second half of `RecordingsAreWhole`), which the prover does not reach; everything about `Recording`;
and the findings.

## 12. Findings

1. In a durable mode `cancel_run` does not last: the `CancelledError` handler
   (`tools/regression.py:1115`) writes `queued` after `cancel_run` has written `cancelled`, and the
   next start resumes the run.
2. `validate` fails live runs: it calls `init_db` (`tools/validate.py:243`), whose recovery
   (`storage/sqlite.py:373`) takes every running row for an orphan.
3. A repaired locator that matched no element is persisted: vision is asked to click instead, its outcome is ignored
   (`engine/regression.py:1004`), and the step counts as repaired.
4. A run without a failed case is answered SHIP, also when it was cancelled before its first case
   (`reporting/results.py:434`); the release check promises the opposite (`tools/release_check.py:252`).

5. `max_depth` 1 crawls the pages the homepage links to, and 2 what these link to (`engine/discovery.py:963`), one link further than
   `README.md:556` of the repository says. The run `crawl` shows it: `CrawlCovers` holds, on calls of depth 1 among others.

What else the code does differently from its texts, without a run of its own, is listed as "facts of the code" in
sections 3 to 9. One more: a run that was executing when the process was killed is never resumed,
because `init_db` has failed it before `resume_incomplete_runs` (`tools/regression.py:422`) looks for running runs.

## 13. Not modelled

Components without a module are listed in `PROJECT.json` with the reason: pure input and output
(subprocesses, exports), text for language models, and data definitions; the breaker is in the plan. What the modelled
components leave out:

* lifecycle: the lifecycle events, whose way to the table is in `SharedStore`; the refresh of the release brief, which is in
  `ReleaseCheck`; the caching of readers;
* replay: the single locator tiers, screenshots and drift summaries, the lease of the browser; of a mobile replay only its
  case (`MobileCase`);
* store: which columns a statement writes, beyond the one value that anything tells apart;
* release: the smoke preflight, which only advises; the resume of a run (section 3); analytics over several runs;
* auth and browser: what a login page looks like, dialogs, the offline flag, what pages contain;
* discovery and recording: the order of URLs by their words, the inventory's normalisation, the comparison of stored
  graphs, `parse_command`, what an agent decides, accessibility names and replay recipes of a step.
