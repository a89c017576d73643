---------------------------- MODULE RunLifecycle ----------------------------
(***************************************************************************)
(* The life of regression runs in one blop server process: launching a run *)
(* (run_regression_test), executing it in a background asyncio task        *)
(* (_run_and_persist), cancelling it (cancel_run), re-initialising the     *)
(* database under it (init_db, called by validate), stopping the process   *)
(* (the closing event loop, shutdown_run_tasks), losing the process, and   *)
(* starting again (init_db, resume_incomplete_runs).                       *)
(*                                                                         *)
(* Grain.  asyncio runs one coroutine at a time and storage/sqlite.py      *)
(* serialises every statement group under _db_rw_lock, so an action is one *)
(* database operation and the synchronous code up to the next await.  A    *)
(* coroutine that is cancelled while an operation is under way either has  *)
(* its effect (it was applied before the request) or has not, so a         *)
(* cancelled coroutine applies nothing more at the await it is stopped at. *)
(* The lifecycle events a handler saves in the same stretch are the        *)
(* business of the event log and are left out here.                        *)
(***************************************************************************)
EXTENDS Integers, FiniteSets

CONSTANTS
    Runs,           \* run ids that may be launched
    Flows,          \* ids of the recorded flows in the database
    MaxConcurrent,  \* BLOP_MAX_CONCURRENT_RUNS
    Durable,        \* BLOP_DURABILITY_MODE # "exit"
    RunTimeout,     \* BLOP_RUN_TIMEOUT_SECS > 0
    AutoRerecord,   \* auto_rerecord: a failed flow may be recorded anew
    Entries,        \* how the process is started: "stdio" (server.run resumes
                    \* in an event loop of its own) or "http" (the HTTP server
                    \* resumes in the loop that serves)
    MaxStops,       \* bound: how often the process stops or dies
    MaxFaults       \* bound: how often a statement or a classifier raises

ASSUME LifecycleAssumption ==
    /\ IsFiniteSet(Flows)
    /\ MaxConcurrent \in Nat \ {0}
    /\ Durable \in BOOLEAN
    /\ RunTimeout \in BOOLEAN
    /\ AutoRerecord \in BOOLEAN
    /\ Entries \subseteq {"stdio", "http"}
    /\ MaxStops \in Nat
    /\ MaxFaults \in Nat

VARIABLES
    \* the database: it survives the process
    status,         \* runs.status ("none": no row)
    flowIds,        \* runs.flow_ids_json
    report,         \* runs.cases_json, as the flows it has a case for
    rows,           \* the run_cases table, as the flows that have a row
    renamed,        \* flows with a row under the id of their re-recording
    ckpt,           \* the "durable_checkpoint" observation
    \* the process
    phase,          \* where the process is
    launch,         \* pc of the run_regression_test call that made the run
    cancelling,     \* cancel_run has decided, its status write is to come
    pc,             \* pc of the run's _run_and_persist task
    req,            \* Task.cancel() was called, CancelledError not yet thrown
    taskFlows,      \* all_flow_ids of the task
    classified,     \* the task's classified_by_flow
    replaced,       \* flows it has there under the id of their re-recording
    cur,            \* the case being persisted under checkpoint_lock
    finalizer,      \* a pending _safe_mark_failed task
    drain,          \* shutdown_run_tasks: what is left to do for the run
    resumeTodo,     \* runs that resume_incomplete_runs has yet to visit
    \* history and bounds
    cut,            \* flows in classified_by_flow whose row was not written
    stops, faults

cases == <<rows, renamed>>
progress == <<classified, replaced, cur>>
db == <<status, flowIds, report, rows, renamed, ckpt>>
task == <<pc, req, taskFlows, classified, replaced, cur>>
server == <<phase, finalizer, drain, resumeTodo, stops, faults>>
vars == <<status, flowIds, report, rows, renamed, ckpt, phase, launch,
          cancelling, pc, req, taskFlows, classified, replaced, cur, finalizer,
          drain, resumeTodo, cut, stops, faults>>

Statuses == {"none", "queued", "running", "completed", "failed", "cancelled",
             "waiting_auth"}

\* The statuses cancel_run takes for final.
Final == {"completed", "failed", "cancelled"}

\* _TERMINAL_RUN_STATUSES of tools/regression.py.
Terminal == Final \cup {"waiting_auth"}

NoCheckpoint == [saved |-> FALSE, done |-> {}, left |-> {}]

\* _build_checkpoint_payload: completed_flow_ids and remaining_flow_ids.
Checkpoint(all, done) == [saved |-> TRUE, done |-> done, left |-> all \ done]

\* Before the task's try block an exception leaves the task at once.
Prologue == {"starting", "ckptStarted", "evStarted"}
TryBlock == {"replay", "saveCase", "ckptCase", "ckptDone", "post"}
Handlers == {"failing", "ckptFailed", "postFail",
             "cancelling", "ckptQueued", "postCancel"}
LivePcs == Prologue \cup TryBlock \cup Handlers
Ended == {"none", "ok", "cancelled", "raised"}

Phases == {"starting", "settling", "up", "draining", "exiting", "down"}
Launches == {"idle", "admitted", "saved", "gated", "ready", "over"}
Drains == {"no", "todo", "cancelled", "failed"}

\* get_run_task(run_id) is there and not done().
Live(r) == pc[r] \in LivePcs
LiveRuns == {r \in Runs : Live(r)}

Init ==
    /\ status = [r \in Runs |-> "none"]
    /\ flowIds = [r \in Runs |-> {}]
    /\ report = [r \in Runs |-> {}]
    /\ rows = [r \in Runs |-> {}]
    /\ renamed = [r \in Runs |-> {}]
    /\ ckpt = [r \in Runs |-> NoCheckpoint]
    /\ phase = "up"
    /\ launch = [r \in Runs |-> "idle"]
    /\ cancelling = [r \in Runs |-> FALSE]
    /\ pc = [r \in Runs |-> "none"]
    /\ req = [r \in Runs |-> FALSE]
    /\ taskFlows = [r \in Runs |-> {}]
    /\ classified = [r \in Runs |-> {}]
    /\ replaced = [r \in Runs |-> {}]
    /\ cur = [r \in Runs |-> {}]
    /\ finalizer = [r \in Runs |-> FALSE]
    /\ drain = [r \in Runs |-> "no"]
    /\ resumeTodo = {}
    /\ cut = [r \in Runs |-> {}]
    /\ stops = 0
    /\ faults = 0

-----------------------------------------------------------------------------
(* run_regression_test *)

\* The concurrency check at the top; the lookups and validations that follow
\* read only, and await many times before the row is written.
Admit(r, F) ==
    /\ phase = "up"
    /\ launch[r] = "idle"
    /\ Cardinality(LiveRuns) < MaxConcurrent
    /\ launch' = [launch EXCEPT ![r] = "admitted"]
    /\ flowIds' = [flowIds EXCEPT ![r] = F]
    /\ UNCHANGED <<status, report, cases, ckpt, server, cancelling, task, cut>>

\* An early error return: unknown flows, a bad url, no key, no profile.
Refuse(r) ==
    /\ launch[r] = "admitted"
    /\ launch' = [launch EXCEPT ![r] = "over"]
    /\ UNCHANGED <<db, server, cancelling, task, cut>>

\* Mutated form of CreateRun: an expired session is noted, and ignored.
CreateRunUngated(r) ==
    /\ launch[r] = "admitted"
    /\ launch' = [launch EXCEPT ![r] = IF Durable THEN "saved" ELSE "ready"]
    /\ \E s \in {"queued", "waiting_auth"} : status' = [status EXCEPT ![r] = s]
    /\ UNCHANGED <<flowIds, report, cases, ckpt, server, cancelling, task, cut>>

\* create_run_with_initial_events.  The session is usable ("queued"), was
\* found expired or could not be validated ("waiting_auth", checkpoint still to
\* come in a durable mode), or did not resolve (_return_waiting_auth).
CreateRun(r) ==
    /\ launch[r] = "admitted"
    /\ \E s \in {"queued", "waiting_auth"} :
        /\ status' = [status EXCEPT ![r] = s]
        /\ \E next \in IF s = "queued"
                       THEN {IF Durable THEN "saved" ELSE "ready"}
                       ELSE {"over"} \cup (IF Durable THEN {"gated"} ELSE {}) :
            launch' = [launch EXCEPT ![r] = next]
    /\ UNCHANGED <<flowIds, report, cases, ckpt, server, cancelling, task, cut>>

\* _persist_checkpoint(reason="created").
CheckpointLaunch(r) ==
    /\ launch[r] \in {"saved", "gated"}
    /\ ckpt' = [ckpt EXCEPT ![r] = Checkpoint(flowIds[r], {})]
    /\ launch' = [launch EXCEPT ![r] = IF @ = "saved" THEN "ready" ELSE "over"]
    /\ UNCHANGED <<status, flowIds, report, cases, server, cancelling, task,
                   cut>>

\* A new task with nothing classified, as _spawn_background_task and
\* _register_run_task leave it.
StartTask(r, F) ==
    /\ pc' = [pc EXCEPT ![r] = "starting"]
    /\ taskFlows' = [taskFlows EXCEPT ![r] = F]
    /\ classified' = [classified EXCEPT ![r] = {}]
    /\ replaced' = [replaced EXCEPT ![r] = {}]
    /\ cur' = [cur EXCEPT ![r] = {}]
    /\ req' = [req EXCEPT ![r] = FALSE]

\* After the run_startup_timing event: spawn the task, whatever the status of
\* the run has become since the row was written.
SpawnTask(r) ==
    /\ launch[r] = "ready"
    /\ launch' = [launch EXCEPT ![r] = "over"]
    /\ StartTask(r, flowIds[r])
    /\ UNCHANGED <<db, server, cancelling, cut>>

\* A statement of the launch raises: the tool call ends in an error.
LaunchRaises(r) ==
    /\ faults < MaxFaults
    /\ launch[r] \in {"admitted", "saved", "gated", "ready"}
    /\ launch' = [launch EXCEPT ![r] = "over"]
    /\ faults' = faults + 1
    /\ UNCHANGED <<db, phase, cancelling, task, finalizer, drain, resumeTodo,
                   cut, stops>>

-----------------------------------------------------------------------------
(* _run_and_persist *)

\* The task moves on from one await to the next.
Step(r, from, to) ==
    /\ pc[r] = from
    /\ ~req[r]
    /\ pc' = [pc EXCEPT ![r] = to]
    /\ UNCHANGED <<server, launch, cancelling, req, taskFlows>>

\* list_cases_for_runs returns a dict of lists; iterating it yields run ids,
\* which have no flow_id: classified_by_flow starts empty, in a resumed run too.
BeginRunning(r) ==
    /\ Step(r, "starting", IF Durable THEN "ckptStarted" ELSE "evStarted")
    /\ status' = [status EXCEPT ![r] = "running"]
    /\ UNCHANGED <<flowIds, report, cases, ckpt, progress, cut>>

CheckpointStarted(r) ==
    /\ Step(r, "ckptStarted", "evStarted")
    /\ ckpt' = [ckpt EXCEPT ![r] = Checkpoint(taskFlows[r], classified[r])]
    /\ UNCHANGED <<status, flowIds, report, cases, progress, cut>>

\* The run_started event is saved and the try block entered.
EnterReplay(r) ==
    /\ Step(r, "evStarted", "replay")
    /\ UNCHANGED <<db, progress, cut>>

\* The task has a case for these flows.
Noted(r) == classified[r] \cup replaced[r]

\* Mutated form of NoteCase: the checkpoint is persisted before the row.
NoteCaseCheckpointFirst(r, f) ==
    /\ Step(r, "replay", "saveCase")
    /\ f \in taskFlows[r] \ Noted(r)
    /\ classified' = [classified EXCEPT ![r] = @ \cup {f}]
    /\ cur' = [cur EXCEPT ![r] = {f}]
    /\ ckpt' = [ckpt EXCEPT ![r] = Checkpoint(taskFlows[r], classified'[r])]
    /\ UNCHANGED <<status, flowIds, report, cases, replaced, cut>>

\* A flow has ended, its case is classified and checkpoint_lock taken
\* (_persist_case_progress): the case is noted before its row is written.
NoteCase(r, f) ==
    /\ Step(r, "replay", "saveCase")
    /\ f \in taskFlows[r] \ Noted(r)
    /\ classified' = [classified EXCEPT ![r] = @ \cup {f}]
    /\ cur' = [cur EXCEPT ![r] = {f}]
    /\ UNCHANGED <<db, replaced, cut>>

\* The flow failed and was recorded anew (_hard_heal_rerecord): its case has
\* the id of the new flow, which is none of all_flow_ids.
NoteRerecorded(r, f) ==
    /\ AutoRerecord
    /\ Step(r, "replay", "saveCase")
    /\ f \in taskFlows[r] \ Noted(r)
    /\ replaced' = [replaced EXCEPT ![r] = @ \cup {f}]
    /\ cur' = [cur EXCEPT ![r] = {f}]
    /\ UNCHANGED <<db, classified, cut>>

\* Mutated form of SaveCase: the row is left to a later update_run.
SaveCaseUnwritten(r) ==
    /\ Step(r, "saveCase", IF Durable THEN "ckptCase" ELSE "replay")
    /\ cur' = [cur EXCEPT ![r] = {}]
    /\ UNCHANGED <<db, classified, replaced, cut>>

\* The row is written under the id the case has.
WriteRow(r) ==
    /\ rows' = [rows EXCEPT ![r] = @ \cup (cur[r] \ replaced[r])]
    /\ renamed' = [renamed EXCEPT ![r] = @ \cup (cur[r] \cap replaced[r])]
    /\ cut' = [cut EXCEPT ![r] = @ \ (cur[r] \ replaced[r])]
    /\ cur' = [cur EXCEPT ![r] = {}]
    /\ UNCHANGED <<status, flowIds, report, ckpt, classified, replaced>>

\* Mutated form of SaveCase: no checkpoint follows the row.
SaveCaseOnly(r) ==
    /\ Step(r, "saveCase", "replay")
    /\ WriteRow(r)

\* save_cases.
SaveCase(r) ==
    /\ Step(r, "saveCase", IF Durable THEN "ckptCase" ELSE "replay")
    /\ WriteRow(r)

\* _persist_checkpoint(reason="case_completed").
CheckpointCase(r) ==
    /\ Step(r, "ckptCase", "replay")
    /\ ckpt' = [ckpt EXCEPT ![r] = Checkpoint(taskFlows[r], classified[r])]
    /\ UNCHANGED <<status, flowIds, report, cases, progress, cut>>

\* Mutated form of CompleteRun: it does not wait for all the workers.
CompleteRunEarly(r) ==
    /\ Step(r, "replay", IF Durable THEN "ckptDone" ELSE "post")
    /\ Noted(r) # {}
    /\ status' = [status EXCEPT ![r] = "completed"]
    /\ report' = [report EXCEPT ![r] = classified[r]]
    /\ UNCHANGED <<flowIds, cases, ckpt, progress, cut>>

\* run_flows returns a case for every flow, and the ones its callback did not
\* note are noted after it, so update_run comes when all are noted.  It gets
\* the cases whose id is one of all_flow_ids.
CompleteRun(r) ==
    /\ Step(r, "replay", IF Durable THEN "ckptDone" ELSE "post")
    /\ Noted(r) = taskFlows[r]
    /\ status' = [status EXCEPT ![r] = "completed"]
    /\ report' = [report EXCEPT ![r] = classified[r]]
    /\ UNCHANGED <<flowIds, cases, ckpt, progress, cut>>

CheckpointCompleted(r) ==
    /\ Step(r, "ckptDone", "post")
    /\ ckpt' = [ckpt EXCEPT ![r] = Checkpoint(taskFlows[r], classified[r])]
    /\ UNCHANGED <<status, flowIds, report, cases, progress, cut>>

\* The run_completed event, the linked brief and the calibration record; the
\* done callback takes the task out of _RUN_TASKS.
EndCompleted(r) ==
    /\ Step(r, "post", "ok")
    /\ UNCHANGED <<db, progress, cut>>

\* except TimeoutError and except Exception: update_run("failed").
FailRun(r) ==
    /\ Step(r, "failing", IF Durable THEN "ckptFailed" ELSE "postFail")
    /\ status' = [status EXCEPT ![r] = "failed"]
    /\ report' = [report EXCEPT ![r] = classified[r]]
    /\ UNCHANGED <<flowIds, cases, ckpt, progress, cut>>

CheckpointFailed(r) ==
    /\ Step(r, "ckptFailed", "postFail")
    /\ ckpt' = [ckpt EXCEPT ![r] = Checkpoint(taskFlows[r], classified[r])]
    /\ UNCHANGED <<status, flowIds, report, cases, progress, cut>>

EndFailed(r) ==
    /\ Step(r, "postFail", "ok")
    /\ UNCHANGED <<db, progress, cut>>

\* Mutated form of StopRun: the handler of the durable modes in every mode.
StopRunRequeues(r) ==
    /\ Step(r, "cancelling", IF Durable THEN "ckptQueued" ELSE "postCancel")
    /\ status' = [status EXCEPT ![r] = "queued"]
    /\ UNCHANGED <<flowIds, report, cases, ckpt, progress, cut>>

\* Mutated form of StopRun: a cancellation is handled as a failure.
StopRunFails(r) ==
    /\ Step(r, "cancelling", "postCancel")
    /\ status' = [status EXCEPT ![r] = "failed"]
    /\ report' = [report EXCEPT ![r] = classified[r]]
    /\ UNCHANGED <<flowIds, cases, ckpt, progress, cut>>

\* except CancelledError: "cancelled" with the cases so far in exit mode, back
\* to "queued" in a durable mode.
StopRun(r) ==
    /\ Step(r, "cancelling", IF Durable THEN "ckptQueued" ELSE "postCancel")
    /\ status' = [status EXCEPT ![r] = IF Durable THEN "queued" ELSE "cancelled"]
    /\ report' = IF Durable THEN report
                 ELSE [report EXCEPT ![r] = classified[r]]
    /\ UNCHANGED <<flowIds, cases, ckpt, progress, cut>>

CheckpointQueued(r) ==
    /\ Step(r, "ckptQueued", "postCancel")
    /\ ckpt' = [ckpt EXCEPT ![r] = Checkpoint(taskFlows[r], classified[r])]
    /\ UNCHANGED <<status, flowIds, report, cases, progress, cut>>

EndCancelled(r) ==
    /\ Step(r, "postCancel", "cancelled")
    /\ UNCHANGED <<db, progress, cut>>

\* The persist step stops where it is: checkpoint_lock is released, and a case
\* that was noted but not saved stays noted.
DropCase(r) ==
    /\ cut' = [cut EXCEPT ![r] = @ \cup (cur[r] \ rows[r])]
    /\ cur' = [cur EXCEPT ![r] = {}]

\* wait_for gives up on run_flows: the workers are cancelled with the case that
\* is being persisted.
TimeOut(r) ==
    /\ RunTimeout
    /\ pc[r] \in {"replay", "saveCase", "ckptCase"}
    /\ Step(r, pc[r], "failing")
    /\ DropCase(r)
    /\ UNCHANGED <<db, classified, replaced>>

\* CancelledError arrives at the await the task is suspended at: only the try
\* block has a handler for it, and a second one leaves that handler too.
ThrowCancel(r) ==
    /\ Live(r)
    /\ req[r]
    /\ req' = [req EXCEPT ![r] = FALSE]
    /\ pc' = [pc EXCEPT ![r] = IF @ \in TryBlock THEN "cancelling" ELSE "cancelled"]
    /\ DropCase(r)
    /\ UNCHANGED <<db, server, launch, cancelling, taskFlows, classified,
                   replaced>>

\* A statement, the classifier or the replay raises.  In the callback of
\* run_flows the exception is logged and the replay goes on; after run_flows,
\* and anywhere else in the try block, it reaches the handler; outside the try
\* block it ends the task, and the done callback spawns _safe_mark_failed.
TaskRaises(r) ==
    /\ faults < MaxFaults
    /\ Live(r)
    /\ ~req[r]
    /\ \/ /\ pc[r] \in {"saveCase", "ckptCase"}
          /\ pc' = [pc EXCEPT ![r] = "replay"]
          /\ UNCHANGED finalizer
       \/ /\ pc[r] \in TryBlock
          /\ pc' = [pc EXCEPT ![r] = "failing"]
          /\ UNCHANGED finalizer
       \/ /\ pc[r] \notin TryBlock
          /\ pc' = [pc EXCEPT ![r] = "raised"]
          /\ finalizer' = [finalizer EXCEPT ![r] = TRUE]
    /\ DropCase(r)
    /\ faults' = faults + 1
    /\ UNCHANGED <<db, phase, launch, cancelling, req, taskFlows, classified,
                   replaced, drain, resumeTodo, stops>>

\* _safe_mark_failed: update_run(run_id, "failed", [], None, []).  It may raise,
\* which is logged.  A closing loop never runs it.
MarkFailed(r) ==
    /\ finalizer[r]
    /\ phase \in {"starting", "up", "draining"}
    /\ finalizer' = [finalizer EXCEPT ![r] = FALSE]
    /\ \/ /\ status' = [status EXCEPT ![r] = "failed"]
          /\ report' = [report EXCEPT ![r] = {}]
          /\ UNCHANGED faults
       \/ /\ faults < MaxFaults
          /\ faults' = faults + 1
          /\ UNCHANGED <<status, report>>
    /\ UNCHANGED <<flowIds, cases, ckpt, phase, launch, cancelling, task,
                   drain, resumeTodo, cut, stops>>

-----------------------------------------------------------------------------
(* Other handlers of the server *)

\* cancel_run up to its write: get_run, the guard on the status read, and
\* Task.cancel() on a live task.  get_run returns without a suspension between
\* the read and Task.cancel().
CancelRun(r) ==
    /\ phase = "up"
    /\ ~cancelling[r]
    /\ status[r] \notin Final \cup {"none"}
    /\ cancelling' = [cancelling EXCEPT ![r] = TRUE]
    /\ req' = [req EXCEPT ![r] = Live(r)]
    /\ UNCHANGED <<db, server, launch, pc, taskFlows, progress, cut>>

\* update_run_status(run_id, "cancelled"): no second look at the status.
CancelWrite(r) ==
    /\ phase = "up"
    /\ cancelling[r]
    /\ cancelling' = [cancelling EXCEPT ![r] = FALSE]
    /\ status' = [status EXCEPT ![r] = "cancelled"]
    /\ UNCHANGED <<flowIds, report, cases, ckpt, server, launch, task, cut>>

\* Mutated form of FailRunning: a status the other readers do not know.
FailRunningAsError ==
    status' = [r \in Runs |-> IF status[r] = "running" THEN "error"
                              ELSE status[r]]

\* The startup recovery at the end of init_db.
FailRunning ==
    status' = [r \in Runs |-> IF status[r] = "running" THEN "failed"
                              ELSE status[r]]

\* validate calls init_db while the server runs.
ValidateSetup ==
    /\ phase = "up"
    /\ \E r \in Runs : status[r] = "running"
    /\ FailRunning
    /\ UNCHANGED <<flowIds, report, cases, ckpt, server, launch, cancelling,
                   task, cut>>

-----------------------------------------------------------------------------
(* Stopping and starting the process *)

\* The tool calls in flight end with the process or with its event loop.
AbandonCalls ==
    /\ launch' = [r \in Runs |-> IF launch[r] = "idle" THEN "idle" ELSE "over"]
    /\ cancelling' = [r \in Runs |-> FALSE]

CancelLiveTasks == req' = [r \in Runs |-> Live(r)]

\* SIGTERM or the end of stdio: mcp.run returns and its event loop cancels
\* every task and waits for them, which leaves shutdown_run_tasks an empty
\* registry.
CloseLoop ==
    /\ phase = "up"
    /\ stops < MaxStops
    /\ stops' = stops + 1
    /\ phase' = "exiting"
    /\ CancelLiveTasks
    /\ AbandonCalls
    /\ finalizer' = [r \in Runs |-> FALSE]
    /\ UNCHANGED <<db, pc, taskFlows, progress, drain, resumeTodo, cut,
                   faults>>

\* shutdown_run_tasks on a loop that still runs: it cancels the live tasks and
\* remembers them.
BeginDrain ==
    /\ phase = "up"
    /\ stops < MaxStops
    /\ stops' = stops + 1
    /\ phase' = "draining"
    /\ CancelLiveTasks
    /\ AbandonCalls
    /\ drain' = [r \in Runs |-> IF Live(r) THEN "todo" ELSE "no"]
    /\ UNCHANGED <<db, pc, taskFlows, progress, finalizer, resumeTodo,
                   cut, faults>>

\* One turn of its loop, for a task that ended or outlasted the timeout.  In
\* exit mode and for a task that raised: _ensure_terminal_run_status reads the
\* status.  In a durable mode _mark_run_resumable iterates the dict of cases
\* as if it were the list, raises, and the exception is logged.
DrainRun(r) ==
    /\ phase = "draining"
    /\ drain[r] = "todo"
    /\ LET fallback == IF pc[r] = "raised" THEN "failed" ELSE "cancelled"
           ensure == /\ pc[r] # "ok"
                     /\ pc[r] = "raised" \/ ~Durable
                     /\ status[r] \notin Terminal
       IN drain' = [drain EXCEPT ![r] = IF ensure THEN fallback ELSE "no"]
    /\ UNCHANGED <<db, phase, launch, cancelling, task, finalizer, resumeTodo,
                   cut, stops, faults>>

\* update_run_status(run_id, fallback_status), on what was read before.
EnsureTerminal(r) ==
    /\ phase = "draining"
    /\ drain[r] \in {"cancelled", "failed"}
    /\ status' = [status EXCEPT ![r] = drain[r]]
    /\ drain' = [drain EXCEPT ![r] = "no"]
    /\ UNCHANGED <<flowIds, report, cases, ckpt, phase, launch, cancelling,
                   task, finalizer, resumeTodo, cut, stops, faults>>

\* Nothing of the process is left.
ClearProcess ==
    /\ launch' = [r \in Runs |-> IF launch[r] = "idle" THEN "idle" ELSE "over"]
    /\ cancelling' = [r \in Runs |-> FALSE]
    /\ pc' = [r \in Runs |-> "none"]
    /\ req' = [r \in Runs |-> FALSE]
    /\ taskFlows' = [r \in Runs |-> {}]
    /\ classified' = [r \in Runs |-> {}]
    /\ replaced' = [r \in Runs |-> {}]
    /\ cur' = [r \in Runs |-> {}]
    /\ finalizer' = [r \in Runs |-> FALSE]
    /\ drain' = [r \in Runs |-> "no"]
    /\ resumeTodo' = {}

\* The stop is complete: all tasks have ended.
Exit ==
    /\ phase \in {"draining", "exiting"}
    /\ LiveRuns = {}
    /\ \A r \in Runs : drain[r] = "no"
    /\ phase' = "down"
    /\ ClearProcess
    /\ UNCHANGED <<db, cut, stops, faults>>

\* The process is killed, while it serves or while it starts or stops.
Crash ==
    /\ \/ phase \in {"draining", "exiting"} /\ UNCHANGED stops
       \/ /\ phase \in {"starting", "settling", "up"}
          /\ stops < MaxStops
          /\ stops' = stops + 1
    /\ phase' = "down"
    /\ ClearProcess
    /\ UNCHANGED <<db, cut, faults>>

\* Mutated form of Boot: the runs the recovery has failed are resumed too.
BootResumesFailed ==
    /\ phase = "down"
    /\ FailRunning
    /\ phase' = IF Durable THEN "starting" ELSE "up"
    /\ resumeTodo' = {r \in Runs : Durable /\ status'[r] \in {"queued", "failed"}}
    /\ UNCHANGED <<flowIds, report, cases, ckpt, launch, cancelling, task,
                   finalizer, drain, cut, stops, faults>>

\* init_db fails the runs left "running"; then resume_incomplete_runs, which
\* does nothing in exit mode, lists the queued ones (none is "running" now).
Boot ==
    /\ phase = "down"
    /\ FailRunning
    /\ phase' = IF Durable THEN "starting" ELSE "up"
    /\ resumeTodo' = IF Durable THEN {r \in Runs : status[r] = "queued"} ELSE {}
    /\ UNCHANGED <<flowIds, report, cases, ckpt, launch, cancelling, task,
                   finalizer, drain, cut, stops, faults>>

\* No checkpoint, or nothing left in it.
PassOver(r) ==
    /\ r \in resumeTodo
    /\ ckpt[r].left = {}
    /\ resumeTodo' = resumeTodo \ {r}
    /\ UNCHANGED <<db, phase, launch, cancelling, task, finalizer, drain, cut,
                   stops, faults>>

\* The profile is gone or its session does not resolve.
ResumeWaitingAuth(r) ==
    /\ r \in resumeTodo
    /\ ckpt[r].left # {}
    /\ resumeTodo' = resumeTodo \ {r}
    /\ status' = [status EXCEPT ![r] = "waiting_auth"]
    /\ UNCHANGED <<flowIds, report, cases, ckpt, phase, launch, cancelling,
                   task, finalizer, drain, cut, stops, faults>>

\* A task for the remaining flows only.
ResumeRun(r) ==
    /\ r \in resumeTodo
    /\ ckpt[r].left # {}
    /\ resumeTodo' = resumeTodo \ {r}
    /\ StartTask(r, ckpt[r].left)
    /\ UNCHANGED <<db, phase, launch, cancelling, finalizer, drain, cut,
                   stops, faults>>

\* resume_incomplete_runs returns.  server.run called it with asyncio.run, whose
\* loop now cancels the tasks just spawned; the HTTP server goes on in its loop.
EndResume ==
    /\ phase = "starting"
    /\ resumeTodo = {}
    /\ \/ /\ "http" \in Entries
          /\ phase' = "up"
          /\ UNCHANGED <<req, finalizer>>
       \/ /\ "stdio" \in Entries
          /\ phase' = "settling"
          /\ CancelLiveTasks
          /\ finalizer' = [r \in Runs |-> FALSE]
    /\ UNCHANGED <<db, launch, cancelling, pc, taskFlows, progress,
                   drain, resumeTodo, cut, stops, faults>>

\* That loop has ended, and mcp.run starts the one that serves.
Serve ==
    /\ phase = "settling"
    /\ LiveRuns = {}
    /\ phase' = "up"
    /\ finalizer' = [r \in Runs |-> FALSE]
    /\ UNCHANGED <<db, launch, cancelling, task, drain, resumeTodo, cut,
                   stops, faults>>

-----------------------------------------------------------------------------

LaunchStep(r) ==
    \/ Refuse(r) \/ CreateRun(r) \/ CheckpointLaunch(r) \/ SpawnTask(r)
    \/ LaunchRaises(r)

TaskStep(r) ==
    \/ BeginRunning(r) \/ CheckpointStarted(r) \/ EnterReplay(r)
    \/ \E f \in Flows : NoteCase(r, f) \/ NoteRerecorded(r, f)
    \/ SaveCase(r) \/ CheckpointCase(r)
    \/ CompleteRun(r) \/ CheckpointCompleted(r) \/ EndCompleted(r)
    \/ FailRun(r) \/ CheckpointFailed(r) \/ EndFailed(r)
    \/ StopRun(r) \/ CheckpointQueued(r) \/ EndCancelled(r)
    \/ TimeOut(r) \/ ThrowCancel(r) \/ TaskRaises(r)

ServerStep(r) ==
    \/ \E F \in (SUBSET Flows) \ {{}} : Admit(r, F)
    \/ CancelRun(r) \/ CancelWrite(r) \/ MarkFailed(r)
    \/ DrainRun(r) \/ EnsureTerminal(r)
    \/ PassOver(r) \/ ResumeWaitingAuth(r) \/ ResumeRun(r)

ProcessStep ==
    \/ ValidateSetup \/ CloseLoop \/ BeginDrain \/ Exit \/ Crash \/ Boot
    \/ EndResume \/ Serve

Next ==
    \/ \E r \in Runs : LaunchStep(r) \/ TaskStep(r) \/ ServerStep(r)
    \/ ProcessStep

Spec == Init /\ [][Next]_vars

\* What the event loop guarantees: a coroutine that is ready is resumed, and
\* flows end (every browser step and every agent call has a timeout).
FairSpec ==
    /\ Spec
    /\ \A r \in Runs :
        /\ WF_vars(LaunchStep(r))
        /\ WF_vars(TaskStep(r))
        /\ WF_vars(CancelWrite(r))
        /\ WF_vars(MarkFailed(r))

-----------------------------------------------------------------------------
(* Properties *)

\* Every variable keeps its type; a checkpoint that was never saved is empty.
TypeOK ==
    /\ status \in [Runs -> Statuses]
    /\ flowIds \in [Runs -> SUBSET Flows]
    /\ report \in [Runs -> SUBSET Flows]
    /\ rows \in [Runs -> SUBSET Flows]
    /\ renamed \in [Runs -> SUBSET Flows]
    /\ ckpt \in [Runs -> [saved : BOOLEAN, done : SUBSET Flows,
                          left : SUBSET Flows]]
    /\ phase \in Phases
    /\ launch \in [Runs -> Launches]
    /\ cancelling \in [Runs -> BOOLEAN]
    /\ pc \in [Runs -> LivePcs \cup Ended]
    /\ req \in [Runs -> BOOLEAN]
    /\ taskFlows \in [Runs -> SUBSET Flows]
    /\ classified \in [Runs -> SUBSET Flows]
    /\ replaced \in [Runs -> SUBSET Flows]
    /\ cur \in [Runs -> SUBSET Flows]
    /\ finalizer \in [Runs -> BOOLEAN]
    /\ drain \in [Runs -> Drains]
    /\ resumeTodo \in SUBSET Runs
    /\ cut \in [Runs -> SUBSET Flows]
    /\ stops \in 0 .. MaxStops
    /\ faults \in 0 .. MaxFaults

\* No flow of a run is lost.  Once the run has a checkpoint, each of its flows
\* has a row in run_cases or is among the flows a resume would replay, whatever
\* was cancelled, crashed, resumed or raised in between (_persist_checkpoint,
\* resume_incomplete_runs); the only exception is a flow whose save_cases was
\* interrupted after the case was put into classified_by_flow.
NoFlowLost ==
    \A r \in Runs :
        ckpt[r].saved => flowIds[r] \subseteq rows[r] \cup ckpt[r].left \cup cut[r]

\* A checkpoint calls a flow completed only when its row is there (save_cases
\* comes before _persist_checkpoint), interrupted saves excepted.
CheckpointIsHonest ==
    \A r \in Runs : ckpt[r].done \subseteq rows[r] \cup cut[r]

\* A run that is reported completed has a case row for every flow it was asked
\* to replay, or for the flow recorded in its place, also when resumed tasks
\* completed it that replayed only what was left (get_test_results counts those
\* rows) - but for one flow at most for each stop and each fault: the one whose
\* save_cases was interrupted when classified_by_flow had it already, which the
\* checkpoint written by the handler calls completed, so that no resume replays it.
CompletedRunsAreWhole ==
    \A r \in Runs :
        status[r] = "completed"
            => Cardinality(flowIds[r] \ (rows[r] \cup renamed[r])) <= stops + faults

\* The summary in runs.cases_json never has a case that run_cases lacks, the
\* interrupted saves excepted: the two are written by different statements, at
\* different times, in every handler of _run_and_persist.
ReportedCasesAreOnRecord ==
    \A r \in Runs : report[r] \subseteq rows[r] \cup cut[r]

\* The inductive invariant behind the four properties above: what a run owes is
\* always in the task that executes it or in its checkpoint, and what either
\* takes for done is on record.
Recorded(r) == rows[r] \cup cut[r]

Accounted(r) ==
    /\ ckpt[r].saved => flowIds[r] \subseteq Recorded(r) \cup ckpt[r].left
    /\ ~ckpt[r].saved => ckpt[r].left = {}
    /\ ckpt[r].done \subseteq Recorded(r)
    /\ Live(r) =>
         /\ flowIds[r] \subseteq Recorded(r) \cup taskFlows[r]
         /\ classified[r] \subseteq Recorded(r) \cup cur[r]
         /\ replaced[r] \subseteq Recorded(r) \cup renamed[r] \cup cur[r]
         /\ classified[r] \cap replaced[r] = {}
    /\ pc[r] # "saveCase" => cur[r] = {}
    /\ status[r] = "completed" =>
         flowIds[r] \subseteq Recorded(r) \cup renamed[r]
    /\ report[r] \subseteq Recorded(r)
    /\ launch[r] = "idle" =>
         ~ckpt[r].saved /\ ~Live(r) /\ status[r] # "completed"

EveryFlowAccounted == \A r \in Runs : Accounted(r)

\* A run that waits for authentication is not executing: neither a launch nor
\* a resume leaves a task behind it, and no late write of another task puts the
\* status of an executing run back to waiting_auth.
WaitingAuthNeverExecutes ==
    \A r \in Runs : status[r] = "waiting_auth" => ~Live(r)

\* What a resume would replay although it has ended: a row is there, under the
\* id of the flow or under that of the flow recorded in its place.
Again(r) == (rows[r] \cup renamed[r]) \cap ckpt[r].left
RecordedAnew(r) == renamed[r] \ rows[r]

\* Without faults, a stop makes few finished flows be replayed again
\* (BLOP_DURABILITY_MODE async and sync): the checkpoint lags at most one case
\* behind run_cases, plus the one each earlier stop left.  Not so the flows that
\* were recorded anew: their cases have ids that are none of all_flow_ids, so
\* they stay in remaining_flow_ids, and every one of them is replayed again.
RepeatsAreBounded ==
    Durable /\ faults = 0 =>
        \A r \in Runs :
            /\ Cardinality(Again(r) \ RecordedAnew(r)) <= 1 + stops
            /\ RecordedAnew(r) \subseteq Again(r) \cup cut[r]

\* Nobody is working on the run any more.
Quiet(r) ==
    /\ launch[r] = "over"
    /\ ~Live(r)
    /\ ~cancelling[r]
    /\ ~finalizer[r]
    /\ drain[r] = "no"

\* A run that is final and that nobody works on is never reopened: no stop,
\* start, recovery, resume, drain or second cancel changes its status.
FinalRunsStayFinal ==
    [][\A r \in Runs : Quiet(r) /\ status[r] \in Final
            => status'[r] = status[r]]_vars

\* "Cancel a running test and mark it as cancelled": once cancel_run has written
\* "cancelled" and the task has been told, the writes of the dying task do not
\* put another status in its place.  So it is in exit mode; in a durable mode the
\* handler of CancelledError cannot tell a cancel_run from a stop.
CancelToldHolds ==
    [][\A r \in Runs :
            /\ faults' = 0
            /\ status[r] = "cancelled"
            /\ req[r] \/ pc[r] \in {"cancelling", "postCancel", "cancelled"}
            => status'[r] = "cancelled"]_vars

\* "Mark any runs orphaned in 'running' state as 'failed'": when validate calls
\* init_db on a serving process, the runs it fails have no task.
OnlyOrphansAreFailed ==
    [][ValidateSetup => \A r \in Runs : status[r] = "running" => ~Live(r)]_vars

\* Polling get_test_results ends: while the server keeps serving and nothing
\* raises, every run that has a row comes to a terminal status and stays in
\* one, whoever cancels or re-initialises what in between.
RunsSettle ==
    [](phase = "up" /\ faults = 0) =>
        \A r \in Runs : status[r] # "none" ~> [](status[r] \in Terminal)
=============================================================================
