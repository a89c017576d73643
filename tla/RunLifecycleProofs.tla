------------------------- MODULE RunLifecycleProofs -------------------------
(***************************************************************************)
(* Proofs about RunLifecycle, for every set of runs and flows, both        *)
(* durability families, both entry points and every bound.                 *)
(***************************************************************************)
EXTENDS RunLifecycle, FiniteSetTheorems, TLAPS

USE DEF Statuses, Launches, Drains, Phases, LivePcs, Prologue, TryBlock,
        Handlers, Ended, db, task, server, cases, progress, Live, Noted, WriteRow

-----------------------------------------------------------------------------
(* Type correctness *)

\* The launch of a run keeps every variable in its type (run_regression_test).
LEMMA LaunchStepTyped ==
    ASSUME TypeOK, NEW r \in Runs, LaunchStep(r)
    PROVE  TypeOK'
<1>1. CASE Refuse(r)
  BY <1>1 DEF TypeOK, Refuse
<1>2. CASE CreateRun(r)
  BY <1>2 DEF TypeOK, CreateRun
<1>3. CASE CheckpointLaunch(r)
  BY <1>3 DEF TypeOK, CheckpointLaunch, Checkpoint
<1>4. CASE SpawnTask(r)
  BY <1>4 DEF TypeOK, SpawnTask, StartTask
<1>5. CASE LaunchRaises(r)
  BY <1>5, LifecycleAssumption DEF TypeOK, LaunchRaises
<1> QED
  BY <1>1, <1>2, <1>3, <1>4, <1>5 DEF LaunchStep

\* A step of a run's task keeps every variable in its type (_run_and_persist).
LEMMA TaskStepTyped ==
    ASSUME TypeOK, NEW r \in Runs, TaskStep(r)
    PROVE  TypeOK'
<1>1. CASE BeginRunning(r)
  BY <1>1 DEF TypeOK, BeginRunning, Step
<1>2. CASE CheckpointStarted(r)
  BY <1>2 DEF TypeOK, CheckpointStarted, Step, Checkpoint
<1>3. CASE EnterReplay(r)
  BY <1>3 DEF TypeOK, EnterReplay, Step
<1>4. ASSUME NEW f \in Flows, NoteCase(r, f) PROVE TypeOK'
  BY <1>4 DEF TypeOK, NoteCase, Step
<1>4a. ASSUME NEW f \in Flows, NoteRerecorded(r, f) PROVE TypeOK'
  BY <1>4a DEF TypeOK, NoteRerecorded, Step
<1>5. CASE SaveCase(r)
  BY <1>5 DEF TypeOK, SaveCase, Step
<1>6. CASE CheckpointCase(r)
  BY <1>6 DEF TypeOK, CheckpointCase, Step, Checkpoint
<1>7. CASE CompleteRun(r)
  BY <1>7 DEF TypeOK, CompleteRun, Step
<1>8. CASE CheckpointCompleted(r)
  BY <1>8 DEF TypeOK, CheckpointCompleted, Step, Checkpoint
<1>9. CASE EndCompleted(r)
  BY <1>9 DEF TypeOK, EndCompleted, Step
<1>10. CASE FailRun(r)
  BY <1>10 DEF TypeOK, FailRun, Step
<1>11. CASE CheckpointFailed(r)
  BY <1>11 DEF TypeOK, CheckpointFailed, Step, Checkpoint
<1>12. CASE EndFailed(r)
  BY <1>12 DEF TypeOK, EndFailed, Step
<1>13. CASE StopRun(r)
  BY <1>13 DEF TypeOK, StopRun, Step
<1>14. CASE CheckpointQueued(r)
  BY <1>14 DEF TypeOK, CheckpointQueued, Step, Checkpoint
<1>15. CASE EndCancelled(r)
  BY <1>15 DEF TypeOK, EndCancelled, Step
<1>16. CASE TimeOut(r)
  BY <1>16 DEF TypeOK, TimeOut, Step, DropCase
<1>17. CASE ThrowCancel(r)
  BY <1>17 DEF TypeOK, ThrowCancel, DropCase
<1>18. CASE TaskRaises(r)
  <2>1. faults' \in 0 .. MaxFaults
    BY <1>18, LifecycleAssumption DEF TypeOK, TaskRaises
  <2>2. /\ pc' \in [Runs -> LivePcs \cup Ended]
        /\ finalizer' \in [Runs -> BOOLEAN]
    BY <1>18 DEF TypeOK, TaskRaises
  <2>3. /\ cut' \in [Runs -> SUBSET Flows]
        /\ cur' \in [Runs -> SUBSET Flows]
    BY <1>18 DEF TypeOK, TaskRaises, DropCase
  <2> QED
    BY <1>18, <2>1, <2>2, <2>3 DEF TypeOK, TaskRaises
<1> QED
  BY <1>1, <1>2, <1>3, <1>4, <1>4a, <1>5, <1>6, <1>7, <1>8, <1>9, <1>10,
     <1>11, <1>12, <1>13, <1>14, <1>15, <1>16, <1>17, <1>18 DEF TaskStep

\* The other handlers of the server keep every variable in its type.
LEMMA ServerStepTyped ==
    ASSUME TypeOK, NEW r \in Runs, ServerStep(r)
    PROVE  TypeOK'
<1>1. ASSUME NEW F \in (SUBSET Flows) \ {{}}, Admit(r, F) PROVE TypeOK'
  BY <1>1 DEF TypeOK, Admit
<1>2. CASE CancelRun(r)
  BY <1>2 DEF TypeOK, CancelRun
<1>3. CASE CancelWrite(r)
  BY <1>3 DEF TypeOK, CancelWrite
<1>4. CASE MarkFailed(r)
  <2>1. faults' \in 0 .. MaxFaults
    BY <1>4, LifecycleAssumption DEF TypeOK, MarkFailed
  <2>2. /\ status' \in [Runs -> Statuses]
        /\ report' \in [Runs -> SUBSET Flows]
        /\ finalizer' \in [Runs -> BOOLEAN]
    BY <1>4 DEF TypeOK, MarkFailed
  <2> QED
    BY <1>4, <2>1, <2>2 DEF TypeOK, MarkFailed
<1>5. CASE DrainRun(r)
  <2>1. drain' \in [Runs -> Drains]
    BY <1>5 DEF TypeOK, DrainRun
  <2> QED
    BY <1>5, <2>1 DEF TypeOK, DrainRun
<1>6. CASE EnsureTerminal(r)
  BY <1>6 DEF TypeOK, EnsureTerminal
<1>7. CASE PassOver(r)
  BY <1>7 DEF TypeOK, PassOver
<1>8. CASE ResumeWaitingAuth(r)
  BY <1>8 DEF TypeOK, ResumeWaitingAuth
<1>9. CASE ResumeRun(r)
  BY <1>9 DEF TypeOK, ResumeRun, StartTask
<1> QED
  BY <1>1, <1>2, <1>3, <1>4, <1>5, <1>6, <1>7, <1>8, <1>9 DEF ServerStep

\* Stopping, dying and starting again keep every variable in its type.
LEMMA ProcessStepTyped ==
    ASSUME TypeOK, ProcessStep
    PROVE  TypeOK'
<1>1. CASE ValidateSetup
  BY <1>1 DEF TypeOK, ValidateSetup, FailRunning
<1>2. CASE CloseLoop
  BY <1>2, LifecycleAssumption
     DEF TypeOK, CloseLoop, CancelLiveTasks, AbandonCalls
<1>3. CASE BeginDrain
  BY <1>3, LifecycleAssumption
     DEF TypeOK, BeginDrain, CancelLiveTasks, AbandonCalls
<1>4. CASE Exit
  BY <1>4 DEF TypeOK, Exit, ClearProcess
<1>5. CASE Crash
  <2>1. stops' \in 0 .. MaxStops
    BY <1>5, LifecycleAssumption DEF TypeOK, Crash
  <2> QED
    BY <1>5, <2>1 DEF TypeOK, Crash, ClearProcess
<1>6. CASE Boot
  BY <1>6 DEF TypeOK, Boot, FailRunning
<1>7. CASE EndResume
  <2>1. phase' \in Phases
    BY <1>7 DEF EndResume
  <2>2. req' \in [Runs -> BOOLEAN]
    <3>1. CancelLiveTasks => req' \in [Runs -> BOOLEAN]
      BY DEF CancelLiveTasks
    <3>2. UNCHANGED req => req' \in [Runs -> BOOLEAN]
      BY DEF TypeOK
    <3> QED
      BY <1>7, <3>1, <3>2 DEF EndResume
  <2>3. finalizer' \in [Runs -> BOOLEAN]
    BY <1>7 DEF TypeOK, EndResume
  <2> QED
    BY <1>7, <2>1, <2>2, <2>3 DEF TypeOK, EndResume
<1>8. CASE Serve
  BY <1>8 DEF TypeOK, Serve
<1> QED
  BY <1>1, <1>2, <1>3, <1>4, <1>5, <1>6, <1>7, <1>8 DEF ProcessStep

\* Every reachable state is well typed.
THEOREM TypeCorrect == Spec => []TypeOK
<1>1. Init => TypeOK
  BY LifecycleAssumption DEF Init, TypeOK, NoCheckpoint
<1>2. TypeOK /\ [Next]_vars => TypeOK'
  <2>1. ASSUME TypeOK, UNCHANGED vars PROVE TypeOK'
    BY <2>1 DEF TypeOK, vars
  <2> QED
    BY <2>1, LaunchStepTyped, TaskStepTyped, ServerStepTyped, ProcessStepTyped
       DEF Next
<1> QED
  BY <1>1, <1>2, PTL DEF Spec

-----------------------------------------------------------------------------
(* Every flow is accounted for *)

\* The launch accounts for the flows of the run (run_regression_test).
LEMMA LaunchStepAccounts ==
    ASSUME TypeOK, EveryFlowAccounted, NEW r \in Runs, LaunchStep(r)
    PROVE  EveryFlowAccounted'
<1> SUFFICES ASSUME NEW q \in Runs PROVE Accounted(q)'
  BY DEF EveryFlowAccounted
<1>0. Accounted(q)
  BY DEF EveryFlowAccounted
<1>1. CASE Refuse(r)
  BY <1>0, <1>1 DEF TypeOK, Accounted, Recorded, Refuse
<1>2. CASE CreateRun(r)
  BY <1>0, <1>2 DEF TypeOK, Accounted, Recorded, CreateRun
<1>3. CASE CheckpointLaunch(r)
  BY <1>0, <1>3 DEF TypeOK, Accounted, Recorded, CheckpointLaunch, Checkpoint
<1>4. CASE SpawnTask(r)
  BY <1>0, <1>4 DEF TypeOK, Accounted, Recorded, SpawnTask, StartTask
<1>5. CASE LaunchRaises(r)
  BY <1>0, <1>5 DEF TypeOK, Accounted, Recorded, LaunchRaises
<1> QED
  BY <1>1, <1>2, <1>3, <1>4, <1>5 DEF LaunchStep

\* A step of the task: the checkpoint statements move flows from the task to
\* the checkpoint, save_cases moves one from the task to run_cases, and an
\* interrupted persist step leaves its case to cut (_run_and_persist).
LEMMA TaskStepAccounts ==
    ASSUME TypeOK, EveryFlowAccounted, NEW r \in Runs, TaskStep(r)
    PROVE  EveryFlowAccounted'
<1> SUFFICES ASSUME NEW q \in Runs PROVE Accounted(q)'
  BY DEF EveryFlowAccounted
<1>0. Accounted(q)
  BY DEF EveryFlowAccounted
<1>1. CASE BeginRunning(r)
  BY <1>0, <1>1 DEF TypeOK, Accounted, Recorded, BeginRunning, Step
<1>2. CASE CheckpointStarted(r)
  BY <1>0, <1>2
     DEF TypeOK, Accounted, Recorded, CheckpointStarted, Step, Checkpoint
<1>3. CASE EnterReplay(r)
  BY <1>0, <1>3 DEF TypeOK, Accounted, Recorded, EnterReplay, Step
<1>4. ASSUME NEW f \in Flows, NoteCase(r, f) PROVE Accounted(q)'
  BY <1>0, <1>4 DEF TypeOK, Accounted, Recorded, NoteCase, Step
<1>4a. ASSUME NEW f \in Flows, NoteRerecorded(r, f) PROVE Accounted(q)'
  BY <1>0, <1>4a DEF TypeOK, Accounted, Recorded, NoteRerecorded, Step
<1>5. CASE SaveCase(r)
  BY <1>0, <1>5 DEF TypeOK, Accounted, Recorded, SaveCase, Step
<1>6. CASE CheckpointCase(r)
  BY <1>0, <1>6
     DEF TypeOK, Accounted, Recorded, CheckpointCase, Step, Checkpoint
<1>7. CASE CompleteRun(r)
  BY <1>0, <1>7 DEF TypeOK, Accounted, Recorded, CompleteRun, Step
<1>8. CASE CheckpointCompleted(r)
  BY <1>0, <1>8
     DEF TypeOK, Accounted, Recorded, CheckpointCompleted, Step, Checkpoint
<1>9. CASE EndCompleted(r)
  BY <1>0, <1>9 DEF TypeOK, Accounted, Recorded, EndCompleted, Step
<1>10. CASE FailRun(r)
  BY <1>0, <1>10 DEF TypeOK, Accounted, Recorded, FailRun, Step
<1>11. CASE CheckpointFailed(r)
  BY <1>0, <1>11
     DEF TypeOK, Accounted, Recorded, CheckpointFailed, Step, Checkpoint
<1>12. CASE EndFailed(r)
  BY <1>0, <1>12 DEF TypeOK, Accounted, Recorded, EndFailed, Step
<1>13. CASE StopRun(r)
  BY <1>0, <1>13 DEF TypeOK, Accounted, Recorded, StopRun, Step
<1>14. CASE CheckpointQueued(r)
  BY <1>0, <1>14
     DEF TypeOK, Accounted, Recorded, CheckpointQueued, Step, Checkpoint
<1>15. CASE EndCancelled(r)
  BY <1>0, <1>15 DEF TypeOK, Accounted, Recorded, EndCancelled, Step
<1>16. CASE TimeOut(r)
  BY <1>0, <1>16 DEF TypeOK, Accounted, Recorded, TimeOut, Step, DropCase
<1>17. CASE ThrowCancel(r)
  BY <1>0, <1>17 DEF TypeOK, Accounted, Recorded, ThrowCancel, DropCase
<1>18. CASE TaskRaises(r)
  BY <1>0, <1>18 DEF TypeOK, Accounted, Recorded, TaskRaises, DropCase
<1> QED
  BY <1>1, <1>2, <1>3, <1>4, <1>4a, <1>5, <1>6, <1>7, <1>8, <1>9, <1>10,
     <1>11, <1>12, <1>13, <1>14, <1>15, <1>16, <1>17, <1>18 DEF TaskStep

\* The other handlers: only a resume hands flows on, from the checkpoint to a
\* new task.
LEMMA ServerStepAccounts ==
    ASSUME TypeOK, EveryFlowAccounted, NEW r \in Runs, ServerStep(r)
    PROVE  EveryFlowAccounted'
<1> SUFFICES ASSUME NEW q \in Runs PROVE Accounted(q)'
  BY DEF EveryFlowAccounted
<1>0. Accounted(q)
  BY DEF EveryFlowAccounted
<1>1. ASSUME NEW F \in (SUBSET Flows) \ {{}}, Admit(r, F) PROVE Accounted(q)'
  BY <1>0, <1>1 DEF TypeOK, Accounted, Recorded, Admit
<1>2. CASE CancelRun(r)
  BY <1>0, <1>2 DEF TypeOK, Accounted, Recorded, CancelRun
<1>3. CASE CancelWrite(r)
  BY <1>0, <1>3 DEF TypeOK, Accounted, Recorded, CancelWrite
<1>4. CASE MarkFailed(r)
  BY <1>0, <1>4 DEF TypeOK, Accounted, Recorded, MarkFailed
<1>5. CASE DrainRun(r)
  BY <1>0, <1>5 DEF TypeOK, Accounted, Recorded, DrainRun
<1>6. CASE EnsureTerminal(r)
  BY <1>0, <1>6 DEF TypeOK, Accounted, Recorded, EnsureTerminal
<1>7. CASE PassOver(r)
  BY <1>0, <1>7 DEF TypeOK, Accounted, Recorded, PassOver
<1>8. CASE ResumeWaitingAuth(r)
  BY <1>0, <1>8 DEF TypeOK, Accounted, Recorded, ResumeWaitingAuth
<1>9. CASE ResumeRun(r)
  BY <1>0, <1>9 DEF TypeOK, Accounted, Recorded, ResumeRun, StartTask
<1> QED
  BY <1>1, <1>2, <1>3, <1>4, <1>5, <1>6, <1>7, <1>8, <1>9 DEF ServerStep

\* The process may stop, die and start again: the database alone accounts for
\* every flow.
LEMMA ProcessStepAccounts ==
    ASSUME TypeOK, EveryFlowAccounted, ProcessStep
    PROVE  EveryFlowAccounted'
<1> SUFFICES ASSUME NEW q \in Runs PROVE Accounted(q)'
  BY DEF EveryFlowAccounted
<1>0. Accounted(q)
  BY DEF EveryFlowAccounted
<1>1. CASE ValidateSetup
  BY <1>0, <1>1 DEF TypeOK, Accounted, Recorded, ValidateSetup, FailRunning
<1>2. CASE CloseLoop
  BY <1>0, <1>2 DEF TypeOK, Accounted, Recorded, CloseLoop, AbandonCalls
<1>3. CASE BeginDrain
  BY <1>0, <1>3 DEF TypeOK, Accounted, Recorded, BeginDrain, AbandonCalls
<1>4. CASE Exit
  BY <1>0, <1>4 DEF TypeOK, Accounted, Recorded, Exit, ClearProcess
<1>5. CASE Crash
  BY <1>0, <1>5 DEF TypeOK, Accounted, Recorded, Crash, ClearProcess
<1>6. CASE Boot
  BY <1>0, <1>6 DEF TypeOK, Accounted, Recorded, Boot, FailRunning
<1>7. CASE EndResume
  BY <1>0, <1>7 DEF TypeOK, Accounted, Recorded, EndResume
<1>8. CASE Serve
  BY <1>0, <1>8 DEF TypeOK, Accounted, Recorded, Serve
<1> QED
  BY <1>1, <1>2, <1>3, <1>4, <1>5, <1>6, <1>7, <1>8 DEF ProcessStep

\* The inductive invariant holds in every reachable state.
THEOREM Accounting == Spec => []EveryFlowAccounted
<1>1. Init => EveryFlowAccounted
  BY DEF Init, EveryFlowAccounted, Accounted, Recorded, NoCheckpoint
<1>2. TypeOK /\ EveryFlowAccounted /\ [Next]_vars => EveryFlowAccounted'
  <2>1. ASSUME EveryFlowAccounted, UNCHANGED vars PROVE EveryFlowAccounted'
    BY <2>1 DEF EveryFlowAccounted, Accounted, Recorded, vars
  <2> QED
    BY <2>1, LaunchStepAccounts, TaskStepAccounts, ServerStepAccounts,
       ProcessStepAccounts DEF Next
<1> QED
  BY <1>1, <1>2, TypeCorrect, PTL DEF Spec

\* No flow of a run is lost, whatever is cancelled, resumed, raised or killed.
THEOREM FlowsAreNeverLost == Spec => []NoFlowLost
<1>1. EveryFlowAccounted => NoFlowLost
  BY DEF EveryFlowAccounted, Accounted, Recorded, NoFlowLost
<1> QED
  BY <1>1, Accounting, PTL

\* A checkpoint never calls a flow completed that has no case row.
THEOREM CheckpointsAreHonest == Spec => []CheckpointIsHonest
<1>1. EveryFlowAccounted => CheckpointIsHonest
  BY DEF EveryFlowAccounted, Accounted, Recorded, CheckpointIsHonest
<1> QED
  BY <1>1, Accounting, PTL

\* The summary of a run and its case rows agree.
THEOREM ReportsAreOnRecord == Spec => []ReportedCasesAreOnRecord
<1>1. EveryFlowAccounted => ReportedCasesAreOnRecord
  BY DEF EveryFlowAccounted, Accounted, Recorded, ReportedCasesAreOnRecord
<1> QED
  BY <1>1, Accounting, PTL

-----------------------------------------------------------------------------
(* Who may write the status of a run *)

\* The inductive invariant behind the three theorems about statuses.  The
\* coroutines that write a run's status come one after the other: the launch
\* before the task, the finalizer and the drain after it; a run that is about
\* to be resumed is queued and nobody is at it, and calls need a serving process.
WritersOf(r) ==
    /\ launch[r] \in {"idle", "admitted"} => status[r] = "none" /\ ~cancelling[r]
    /\ launch[r] # "over" => ~Live(r) /\ ~finalizer[r] /\ drain[r] = "no"
    /\ launch[r] \in {"saved", "ready"} => status[r] # "waiting_auth"
    /\ launch[r] \notin {"idle", "over"} => phase = "up"
    /\ status[r] = "waiting_auth" => ~Live(r)
    /\ r \in resumeTodo =>
         phase = "starting" /\ status[r] = "queued" /\ ~Live(r) /\ ~finalizer[r]
    /\ phase = "down" => ~Live(r) /\ ~finalizer[r] /\ r \notin resumeTodo
    /\ phase \in {"down", "starting"} => ~cancelling[r] /\ drain[r] = "no"
    /\ pc[r] = "raised" \/ finalizer[r] \/ drain[r] = "failed" => faults > 0

WritersTakeTurns == \A r \in Runs : WritersOf(r)

\* The launch ends before the task begins (run_regression_test).
LEMMA LaunchStepTurns ==
    ASSUME TypeOK, WritersTakeTurns, NEW r \in Runs, LaunchStep(r)
    PROVE  WritersTakeTurns'
<1> SUFFICES ASSUME NEW q \in Runs PROVE WritersOf(q)'
  BY DEF WritersTakeTurns
<1>0. WritersOf(q) /\ WritersOf(r)
  BY DEF WritersTakeTurns
<1>1. CASE Refuse(r)
  BY <1>0, <1>1 DEF TypeOK, WritersOf, Refuse
<1>2. CASE CreateRun(r)
  BY <1>0, <1>2 DEF TypeOK, WritersOf, CreateRun
<1>3. CASE CheckpointLaunch(r)
  BY <1>0, <1>3 DEF TypeOK, WritersOf, CheckpointLaunch
<1>4. CASE SpawnTask(r)
  BY <1>0, <1>4 DEF TypeOK, WritersOf, SpawnTask, StartTask
<1>5. CASE LaunchRaises(r)
  BY <1>0, <1>5, LifecycleAssumption DEF TypeOK, WritersOf, LaunchRaises
<1> QED
  BY <1>1, <1>2, <1>3, <1>4, <1>5 DEF LaunchStep

\* A task never writes waiting_auth, and leaves a finalizer behind only when
\* something raised (_run_and_persist).
LEMMA TaskStepTurns ==
    ASSUME TypeOK, WritersTakeTurns, NEW r \in Runs, TaskStep(r)
    PROVE  WritersTakeTurns'
<1> SUFFICES ASSUME NEW q \in Runs PROVE WritersOf(q)'
  BY DEF WritersTakeTurns
<1>0. WritersOf(q) /\ WritersOf(r)
  BY DEF WritersTakeTurns
<1>1. CASE BeginRunning(r)
  BY <1>0, <1>1 DEF TypeOK, WritersOf, BeginRunning, Step
<1>2. CASE CheckpointStarted(r)
  BY <1>0, <1>2 DEF TypeOK, WritersOf, CheckpointStarted, Step
<1>3. CASE EnterReplay(r)
  BY <1>0, <1>3 DEF TypeOK, WritersOf, EnterReplay, Step
<1>4. ASSUME NEW f \in Flows, NoteCase(r, f) \/ NoteRerecorded(r, f)
      PROVE  WritersOf(q)'
  BY <1>0, <1>4 DEF TypeOK, WritersOf, NoteCase, NoteRerecorded, Step
<1>5. CASE SaveCase(r)
  BY <1>0, <1>5 DEF TypeOK, WritersOf, SaveCase, Step
<1>6. CASE CheckpointCase(r)
  BY <1>0, <1>6 DEF TypeOK, WritersOf, CheckpointCase, Step
<1>7. CASE CompleteRun(r)
  BY <1>0, <1>7 DEF TypeOK, WritersOf, CompleteRun, Step
<1>8. CASE CheckpointCompleted(r)
  BY <1>0, <1>8 DEF TypeOK, WritersOf, CheckpointCompleted, Step
<1>9. CASE EndCompleted(r)
  BY <1>0, <1>9 DEF TypeOK, WritersOf, EndCompleted, Step
<1>10. CASE FailRun(r)
  BY <1>0, <1>10 DEF TypeOK, WritersOf, FailRun, Step
<1>11. CASE CheckpointFailed(r)
  BY <1>0, <1>11 DEF TypeOK, WritersOf, CheckpointFailed, Step
<1>12. CASE EndFailed(r)
  BY <1>0, <1>12 DEF TypeOK, WritersOf, EndFailed, Step
<1>13. CASE StopRun(r)
  BY <1>0, <1>13 DEF TypeOK, WritersOf, StopRun, Step
<1>14. CASE CheckpointQueued(r)
  BY <1>0, <1>14 DEF TypeOK, WritersOf, CheckpointQueued, Step
<1>15. CASE EndCancelled(r)
  BY <1>0, <1>15 DEF TypeOK, WritersOf, EndCancelled, Step
<1>16. CASE TimeOut(r)
  BY <1>0, <1>16 DEF TypeOK, WritersOf, TimeOut, Step
<1>17. CASE ThrowCancel(r)
  BY <1>0, <1>17 DEF TypeOK, WritersOf, ThrowCancel
<1>18. CASE TaskRaises(r)
  <2>1. faults' > 0
    BY <1>18 DEF TypeOK, TaskRaises
  <2> QED
    BY <1>0, <1>18, <2>1 DEF TypeOK, WritersOf, TaskRaises
<1> QED
  BY <1>1, <1>2, <1>3, <1>4, <1>5, <1>6, <1>7, <1>8, <1>9, <1>10, <1>11,
     <1>12, <1>13, <1>14, <1>15, <1>16, <1>17, <1>18 DEF TaskStep

\* The other handlers; a resume finds nobody at the run it resumes.
LEMMA ServerStepTurns ==
    ASSUME TypeOK, WritersTakeTurns, NEW r \in Runs, ServerStep(r)
    PROVE  WritersTakeTurns'
<1> SUFFICES ASSUME NEW q \in Runs PROVE WritersOf(q)'
  BY DEF WritersTakeTurns
<1>0. WritersOf(q) /\ WritersOf(r)
  BY DEF WritersTakeTurns
<1>1. ASSUME NEW F \in (SUBSET Flows) \ {{}}, Admit(r, F) PROVE WritersOf(q)'
  BY <1>0, <1>1 DEF TypeOK, WritersOf, Admit
<1>2. CASE CancelRun(r)
  BY <1>0, <1>2 DEF TypeOK, WritersOf, CancelRun, Final
<1>3. CASE CancelWrite(r)
  BY <1>0, <1>3 DEF TypeOK, WritersOf, CancelWrite
<1>4. CASE MarkFailed(r)
  BY <1>0, <1>4, LifecycleAssumption DEF TypeOK, WritersOf, MarkFailed
<1>5. CASE DrainRun(r)
  BY <1>0, <1>5 DEF TypeOK, WritersOf, DrainRun
<1>6. CASE EnsureTerminal(r)
  BY <1>0, <1>6 DEF TypeOK, WritersOf, EnsureTerminal
<1>7. CASE PassOver(r)
  BY <1>0, <1>7 DEF TypeOK, WritersOf, PassOver
<1>8. CASE ResumeWaitingAuth(r)
  BY <1>0, <1>8 DEF TypeOK, WritersOf, ResumeWaitingAuth
<1>9. CASE ResumeRun(r)
  BY <1>0, <1>9 DEF TypeOK, WritersOf, ResumeRun, StartTask
<1> QED
  BY <1>1, <1>2, <1>3, <1>4, <1>5, <1>6, <1>7, <1>8, <1>9 DEF ServerStep

\* A process that is down has no writers, and one that starts has only tasks.
LEMMA ProcessStepTurns ==
    ASSUME TypeOK, WritersTakeTurns, ProcessStep
    PROVE  WritersTakeTurns'
<1> SUFFICES ASSUME NEW q \in Runs PROVE WritersOf(q)'
  BY DEF WritersTakeTurns
<1>0. WritersOf(q)
  BY DEF WritersTakeTurns
<1>1. CASE ValidateSetup
  BY <1>0, <1>1 DEF TypeOK, WritersOf, ValidateSetup, FailRunning
<1>2. CASE CloseLoop
  BY <1>0, <1>2 DEF TypeOK, WritersOf, CloseLoop, AbandonCalls
<1>3. CASE BeginDrain
  BY <1>0, <1>3 DEF TypeOK, WritersOf, BeginDrain, AbandonCalls
<1>4. CASE Exit
  BY <1>0, <1>4 DEF TypeOK, WritersOf, Exit, ClearProcess
<1>5. CASE Crash
  BY <1>0, <1>5 DEF TypeOK, WritersOf, Crash, ClearProcess
<1>6. CASE Boot
  BY <1>0, <1>6 DEF TypeOK, WritersOf, Boot, FailRunning
<1>7. CASE EndResume
  BY <1>0, <1>7 DEF TypeOK, WritersOf, EndResume
<1>8. CASE Serve
  BY <1>0, <1>8 DEF TypeOK, WritersOf, Serve
<1> QED
  BY <1>1, <1>2, <1>3, <1>4, <1>5, <1>6, <1>7, <1>8 DEF ProcessStep

\* The invariant holds in every reachable state.
THEOREM Turns == Spec => []WritersTakeTurns
<1>1. Init => WritersTakeTurns
  BY DEF Init, WritersTakeTurns, WritersOf
<1>2. TypeOK /\ WritersTakeTurns /\ [Next]_vars => WritersTakeTurns'
  <2>1. ASSUME WritersTakeTurns, UNCHANGED vars PROVE WritersTakeTurns'
    BY <2>1 DEF WritersTakeTurns, WritersOf, vars
  <2> QED
    BY <2>1, LaunchStepTurns, TaskStepTurns, ServerStepTurns, ProcessStepTurns
       DEF Next
<1> QED
  BY <1>1, <1>2, TypeCorrect, PTL DEF Spec

\* A run that waits for authentication has no task, whoever launched it,
\* resumed it or wrote its status late.
THEOREM WaitingAuthIsIdle == Spec => []WaitingAuthNeverExecutes
<1>1. WritersTakeTurns => WaitingAuthNeverExecutes
  BY DEF WritersTakeTurns, WritersOf, WaitingAuthNeverExecutes
<1> QED
  BY <1>1, Turns, PTL
\* A step that changes the status of a run is one of its own writers: somebody
\* is at the run, or it was queued or running, or waits to be resumed.
LEMMA StatusHasWriter ==
    ASSUME TypeOK, WritersTakeTurns, Next, NEW r \in Runs,
           Quiet(r), status[r] \in Final
    PROVE  status'[r] = status[r]
<1> USE DEF Quiet, Final
<1>0. /\ launch[r] = "over" /\ ~Live(r) /\ ~cancelling[r] /\ ~finalizer[r]
      /\ drain[r] = "no" /\ status[r] # "queued" /\ r \notin resumeTodo
  BY DEF WritersTakeTurns, WritersOf
<1>1. ASSUME NEW q \in Runs, LaunchStep(q) PROVE status'[r] = status[r]
  BY <1>0, <1>1 DEF TypeOK, LaunchStep, Refuse, CreateRun, CheckpointLaunch,
                    SpawnTask, LaunchRaises
<1>2. ASSUME NEW q \in Runs, TaskStep(q) PROVE status'[r] = status[r]
  <2>1. CASE q = r
    BY <1>0, <1>2, <2>1 DEF TaskStep, Step, BeginRunning, CheckpointStarted,
       EnterReplay, NoteCase, NoteRerecorded, SaveCase, CheckpointCase, CompleteRun,
       CheckpointCompleted, EndCompleted, FailRun, CheckpointFailed, EndFailed,
       StopRun, CheckpointQueued, EndCancelled, TimeOut, ThrowCancel, TaskRaises
  <2>2. CASE q # r
    BY <1>2, <2>2 DEF TypeOK, TaskStep, BeginRunning, CheckpointStarted,
       EnterReplay, NoteCase, NoteRerecorded, SaveCase, CheckpointCase, CompleteRun,
       CheckpointCompleted, EndCompleted, FailRun, CheckpointFailed, EndFailed,
       StopRun, CheckpointQueued, EndCancelled, TimeOut, ThrowCancel, TaskRaises
  <2> QED
    BY <2>1, <2>2
<1>3. ASSUME NEW q \in Runs, ServerStep(q) PROVE status'[r] = status[r]
  BY <1>0, <1>3 DEF TypeOK, ServerStep, Admit, CancelRun, CancelWrite, MarkFailed,
     DrainRun, EnsureTerminal, PassOver, ResumeWaitingAuth, ResumeRun
<1>4. CASE ProcessStep
  BY <1>4 DEF TypeOK, ProcessStep, ValidateSetup, FailRunning, CloseLoop,
     BeginDrain, Exit, Crash, Boot, EndResume, Serve
<1> QED
  BY <1>1, <1>2, <1>3, <1>4 DEF Next

\* A final run that nobody works on is never reopened.
THEOREM FinalStaysFinal == Spec => FinalRunsStayFinal
<1>1. TypeOK /\ WritersTakeTurns /\ [Next]_vars =>
        [\A r \in Runs : Quiet(r) /\ status[r] \in Final => status'[r] = status[r]]_vars
  BY StatusHasWriter
<1> QED
  BY <1>1, TypeCorrect, Turns, PTL DEF Spec, FinalRunsStayFinal

\* In exit mode no write of a task that was told to stop, and no other write,
\* takes "cancelled" from its run.
LEMMA ToldStaysTold ==
    ASSUME TypeOK, WritersTakeTurns, ~Durable, Next, NEW r \in Runs,
           faults' = 0, status[r] = "cancelled",
           req[r] \/ pc[r] \in {"cancelling", "postCancel", "cancelled"}
    PROVE  status'[r] = "cancelled"
<1>0. /\ launch[r] \notin {"idle", "admitted"} /\ r \notin resumeTodo
      /\ pc[r] = "raised" \/ finalizer[r] \/ drain[r] = "failed" => faults > 0
  BY DEF WritersTakeTurns, WritersOf
<1>1. ASSUME NEW q \in Runs, LaunchStep(q) PROVE status'[r] = "cancelled"
  BY <1>0, <1>1 DEF TypeOK, LaunchStep, Refuse, CreateRun, CheckpointLaunch,
                    SpawnTask, LaunchRaises
<1>2. ASSUME NEW q \in Runs, TaskStep(q) PROVE status'[r] = "cancelled"
  <2>1. CASE q = r
    <3>1. CASE StopRun(r)
      BY <3>1 DEF TypeOK, StopRun
    <3>2. CASE ~StopRun(r)
      BY <1>0, <1>2, <2>1, <3>2 DEF TaskStep, Step, BeginRunning, CheckpointStarted,
         EnterReplay, NoteCase, NoteRerecorded, SaveCase, CheckpointCase, CompleteRun,
         CheckpointCompleted, EndCompleted, FailRun, CheckpointFailed, EndFailed,
         CheckpointQueued, EndCancelled, TimeOut, ThrowCancel, TaskRaises
    <3> QED
      BY <3>1, <3>2
  <2>2. CASE q # r
    BY <1>2, <2>2 DEF TypeOK, TaskStep, BeginRunning, CheckpointStarted,
       EnterReplay, NoteCase, NoteRerecorded, SaveCase, CheckpointCase, CompleteRun,
       CheckpointCompleted, EndCompleted, FailRun, CheckpointFailed, EndFailed,
       StopRun, CheckpointQueued, EndCancelled, TimeOut, ThrowCancel, TaskRaises
  <2> QED
    BY <2>1, <2>2
<1>3. ASSUME NEW q \in Runs, ServerStep(q) PROVE status'[r] = "cancelled"
  <2>1. CASE MarkFailed(q)
    <3>1. faults = 0
      BY <2>1 DEF TypeOK, MarkFailed
    <3> QED
      BY <1>0, <2>1, <3>1 DEF TypeOK, MarkFailed
  <2>2. CASE EnsureTerminal(q)
    BY <1>0, <2>2 DEF TypeOK, EnsureTerminal
  <2>3. CASE ~MarkFailed(q) /\ ~EnsureTerminal(q)
    BY <1>0, <1>3, <2>3 DEF TypeOK, ServerStep, Admit, CancelRun, CancelWrite,
       DrainRun, PassOver, ResumeWaitingAuth, ResumeRun
  <2> QED
    BY <2>1, <2>2, <2>3
<1>4. CASE ProcessStep
  BY <1>4 DEF TypeOK, ProcessStep, ValidateSetup, FailRunning, CloseLoop,
     BeginDrain, Exit, Crash, Boot, EndResume, Serve
<1> QED
  BY <1>1, <1>2, <1>3, <1>4 DEF Next

\* In exit mode a cancelled run stays cancelled once its task was told; in a
\* durable mode it does not (finding_cancel_requeues).
THEOREM CancelHoldsInExitMode ==
    ASSUME ~Durable PROVE Spec => CancelToldHolds
<1>1. TypeOK /\ WritersTakeTurns /\ [Next]_vars =>
        [\A r \in Runs :
            /\ faults' = 0
            /\ status[r] = "cancelled"
            /\ req[r] \/ pc[r] \in {"cancelling", "postCancel", "cancelled"}
            => status'[r] = "cancelled"]_vars
  BY ToldStaysTold
<1> QED
  BY <1>1, TypeCorrect, Turns, PTL DEF Spec, CancelToldHolds

-----------------------------------------------------------------------------
(* How much is replayed again *)

\* What a resume from the checkpoint would replay although it has a row of its
\* own, and what the task replays although it had one when the task began.
Behind(r) == rows[r] \cap ckpt[r].left
Redone(r) == (rows[r] \cap taskFlows[r]) \ classified[r]

\* The checkpoint is up to date: no row was written since.
UpToDate(r) ==
    \/ phase \in {"down", "draining", "exiting"}
    \/ r \in resumeTodo
    \/ pc[r] \in Prologue \cup {"replay", "saveCase"}

\* The inductive invariant behind RepeatsAreBounded, in a durable mode and
\* without faults: only the row written last may be missing from the
\* checkpoint, and each stop leaves at most one more such flow behind.
LagOf(r) ==
    /\ Cardinality(Behind(r)) <= stops + 1
    /\ UpToDate(r) => Cardinality(Behind(r)) <= stops
    /\ Live(r) => Cardinality(Redone(r)) <= stops
    /\ launch[r] # "over" => rows[r] = {}
    /\ phase \in {"draining", "exiting"} /\ Live(r) => req[r] \/ pc[r] \in Handlers
    /\ cur[r] = {} \/ \E f \in classified[r] \cup replaced[r] : cur[r] = {f}

LagIsBounded == faults = 0 => \A r \in Runs : LagOf(r)

\* Sets of flows are finite and may be compared by size.
LEMMA FlowSets ==
    /\ \A S \in SUBSET Flows : IsFiniteSet(S) /\ Cardinality(S) \in Nat
    /\ \A S \in SUBSET Flows : \A T \in SUBSET S : Cardinality(T) <= Cardinality(S)
    /\ \A S \in SUBSET Flows : \A f : Cardinality(S \cup {f}) <= Cardinality(S) + 1
    /\ Cardinality({}) = 0
<1>1. \A S \in SUBSET Flows : IsFiniteSet(S) /\ Cardinality(S) \in Nat
  BY LifecycleAssumption, FS_Subset, FS_CardinalityType
<1>2. ASSUME NEW S \in SUBSET Flows, NEW T \in SUBSET S
      PROVE  Cardinality(T) <= Cardinality(S)
  BY <1>1, FS_Subset
<1>3. ASSUME NEW S \in SUBSET Flows, NEW f
      PROVE  Cardinality(S \cup {f}) <= Cardinality(S) + 1
  <2>1. Cardinality(S \cup {f}) = IF f \in S THEN Cardinality(S) ELSE Cardinality(S) + 1
    BY <1>1, FS_AddElement
  <2> QED
    BY <1>1, <2>1
<1> QED
  BY <1>1, <1>2, <1>3, FS_EmptySet

\* Sizes in a typed state.
LEMMA LagSizes ==
    ASSUME TypeOK, NEW r \in Runs
    PROVE  /\ Behind(r) \in SUBSET Flows /\ Redone(r) \in SUBSET Flows
           /\ Cardinality(Behind(r)) \in Nat /\ Cardinality(Redone(r)) \in Nat
           /\ stops \in Nat
<1>1. Behind(r) \in SUBSET Flows /\ Redone(r) \in SUBSET Flows
  BY DEF TypeOK, Behind, Redone
<1>2. stops \in Nat
  BY LifecycleAssumption DEF TypeOK
<1> QED
  BY <1>1, <1>2, FlowSets

\* The launch makes no rows; the task it spawns begins with none.
LEMMA LaunchStepLags ==
    ASSUME TypeOK, WritersTakeTurns, \A r \in Runs : LagOf(r), faults' = 0,
           NEW r \in Runs, LaunchStep(r), NEW q \in Runs
    PROVE  LagOf(q)'
<1> USE DEF LagOf, Behind, Redone, UpToDate
<1>0. LagOf(q) /\ LagOf(r) /\ WritersOf(q) /\ WritersOf(r)
  BY DEF WritersTakeTurns
<1>1. CASE Refuse(r)
  BY <1>0, <1>1 DEF TypeOK, Refuse
<1>2. CASE CreateRun(r)
  BY <1>0, <1>2 DEF TypeOK, CreateRun
<1>3. CASE CheckpointLaunch(r)
  <2>1. rows[r] = {} /\ ~Live(r)
    BY <1>0, <1>3 DEF CheckpointLaunch, WritersOf
  <2>2. Behind(r)' = {} /\ stops' = stops /\ stops \in Nat
    BY <1>3, <2>1, LagSizes DEF CheckpointLaunch
  <2>3. q = r => Cardinality(Behind(q)') = 0
    BY <2>2, FlowSets
  <2>4. q # r => Behind(q)' = Behind(q)
    BY <1>3 DEF TypeOK, CheckpointLaunch
  <2> QED
    BY <1>0, <1>3, <2>1, <2>2, <2>3, <2>4 DEF TypeOK, CheckpointLaunch
<1>4. CASE SpawnTask(r)
  <2>1. rows[r] = {} /\ phase = "up"
    BY <1>0, <1>4 DEF SpawnTask, WritersOf
  <2>2. Redone(r)' = {} /\ Behind(r)' = {} /\ stops' = stops /\ stops \in Nat
    BY <1>4, <2>1, LagSizes DEF SpawnTask
  <2>3. q = r => Cardinality(Redone(q)') = 0 /\ Cardinality(Behind(q)') = 0
    BY <2>2, FlowSets
  <2>4. CASE q = r
    BY <1>4, <2>1, <2>2, <2>3, <2>4 DEF TypeOK, SpawnTask, StartTask
  <2>5. CASE q # r
    BY <1>0, <1>4, <2>5 DEF TypeOK, SpawnTask, StartTask
  <2> QED
    BY <2>4, <2>5
<1>5. CASE LaunchRaises(r)
  BY <1>5 DEF TypeOK, LaunchRaises
<1> QED
  BY <1>1, <1>2, <1>3, <1>4, <1>5 DEF LaunchStep

\* Where the task writes its checkpoint, what would be replayed again becomes
\* what the task itself did again.
LEMMA CheckpointLags ==
    ASSUME TypeOK, \A r \in Runs : LagOf(r), NEW r \in Runs, NEW q \in Runs,
           NEW to, Live(r), to \in LivePcs,
           pc' = [pc EXCEPT ![r] = to],
           ckpt' = [ckpt EXCEPT ![r] = Checkpoint(taskFlows[r], classified[r])],
           to \in Handlers \/ pc[r] \in Handlers => to \in Handlers,
           ~req[r],
           UNCHANGED <<cases, server, launch, req, taskFlows, progress>>
    PROVE  LagOf(q)'
<1> USE DEF LagOf, UpToDate
<1>0. LagOf(q) /\ LagOf(r)
  OBVIOUS
<1>1. Behind(r)' = Redone(r)
  BY DEF TypeOK, Behind, Redone, Checkpoint
<1>2. q # r => Behind(q)' = Behind(q)
  BY DEF TypeOK, Behind
<1>3. Redone(q)' = Redone(q)
  BY DEF Redone
<1>4. Cardinality(Redone(r)) \in Nat /\ stops \in Nat
  BY LagSizes
<1>5. CASE q = r
  <2>1. Cardinality(Behind(q)') <= stops' /\ Cardinality(Redone(q)') <= stops'
    BY <1>0, <1>1, <1>3, <1>5
  <2>2. stops' \in Nat /\ Cardinality(Behind(q)') \in Nat
    BY <1>1, <1>4, <1>5
  <2> QED
    BY <1>0, <1>5, <2>1, <2>2 DEF TypeOK
<1>6. CASE q # r
  BY <1>0, <1>2, <1>3, <1>6 DEF TypeOK
<1> QED
  BY <1>5, <1>6

\* A step of the task: only save_cases may leave the checkpoint behind.
LEMMA TaskStepLags ==
    ASSUME TypeOK, WritersTakeTurns, Durable, \A r \in Runs : LagOf(r), faults' = 0,
           NEW r \in Runs, TaskStep(r), NEW q \in Runs
    PROVE  LagOf(q)'
<1> USE DEF LagOf, UpToDate
<1>0. LagOf(q) /\ LagOf(r)
  OBVIOUS
<1>s. /\ Cardinality(Behind(q)) \in Nat /\ Cardinality(Redone(q)) \in Nat
      /\ Behind(r) \in SUBSET Flows /\ Redone(r) \in SUBSET Flows /\ stops \in Nat
  BY LagSizes
<1>1. CASE BeginRunning(r)
  BY <1>0, <1>1 DEF TypeOK, BeginRunning, Step, Behind, Redone
<1>2. CASE CheckpointStarted(r)
  BY <1>2, CheckpointLags DEF CheckpointStarted, Step
<1>3. CASE EnterReplay(r)
  BY <1>0, <1>3 DEF TypeOK, EnterReplay, Step, Behind, Redone
<1>4. ASSUME NEW f \in Flows, NoteCase(r, f) PROVE LagOf(q)'
  <2>1. Redone(q)' \in SUBSET Redone(q) /\ Behind(q)' = Behind(q)
    BY <1>4 DEF TypeOK, NoteCase, Step, Redone, Behind
  <2>2. Redone(q) \in SUBSET Flows
    BY LagSizes
  <2>3. Cardinality(Redone(q)') <= Cardinality(Redone(q)) /\ Cardinality(Redone(q)') \in Nat
    BY <2>1, <2>2, FlowSets
  <2>4. Live(q) => Cardinality(Redone(q)') <= stops
    BY <1>0, <1>s, <2>3
  <2>5. cur'[r] = {f} /\ f \in classified'[r]
    BY <1>4 DEF TypeOK, NoteCase
  <2>6. Live(q)' => Live(q)
    BY <1>4 DEF TypeOK, NoteCase, Step
  <2> QED
    BY <1>0, <1>4, <2>1, <2>4, <2>5, <2>6 DEF TypeOK, NoteCase, Step
<1>4a. ASSUME NEW f \in Flows, NoteRerecorded(r, f) PROVE LagOf(q)'
  <2>1. cur'[r] = {f} /\ f \in replaced'[r]
    BY <1>4a DEF TypeOK, NoteRerecorded
  <2> QED
    BY <1>0, <1>4a, <2>1 DEF TypeOK, NoteRerecorded, Step, Behind, Redone
<1>5. CASE SaveCase(r)
  <2>1. Redone(q)' = Redone(q)
    BY <1>0, <1>5 DEF TypeOK, SaveCase, Step, Redone
  <2>2. q # r => Behind(q)' = Behind(q)
    BY <1>5 DEF TypeOK, SaveCase, Step, Behind
  <2>3. Cardinality(Behind(r)') <= Cardinality(Behind(r)) + 1
    <3>1. CASE cur[r] = {}
      <4>1. Behind(r)' = Behind(r)
        BY <1>5, <3>1 DEF TypeOK, SaveCase, Step, Behind
      <4> QED
        BY <4>1, LagSizes
    <3>2. ASSUME NEW f \in Flows, cur[r] = {f}
          PROVE  Cardinality(Behind(r)') <= Cardinality(Behind(r)) + 1
      <4>1. Behind(r)' \in SUBSET (Behind(r) \cup {f})
        BY <1>5, <3>2 DEF TypeOK, SaveCase, Step, Behind
      <4>2. Behind(r) \cup {f} \in SUBSET Flows
        BY <1>s
      <4>3. /\ Cardinality(Behind(r)') <= Cardinality(Behind(r) \cup {f})
            /\ Cardinality(Behind(r) \cup {f}) <= Cardinality(Behind(r)) + 1
        BY <1>s, <4>1, <4>2, FlowSets
      <4>4. /\ Cardinality(Behind(r)') \in Nat /\ Cardinality(Behind(r)) \in Nat
            /\ Cardinality(Behind(r) \cup {f}) \in Nat
        BY <1>s, <4>1, <4>2, FlowSets
      <4> QED
        BY <4>3, <4>4
    <3> QED
      BY <1>0, <3>1, <3>2 DEF TypeOK
  <2>4. Cardinality(Behind(r)) <= stops /\ phase \notin {"draining", "exiting"}
    BY <1>0, <1>5 DEF SaveCase, Step
  <2>5. Cardinality(Behind(r)') \in Nat /\ Cardinality(Behind(r)) \in Nat
    <3>1. Behind(r)' \in SUBSET Flows
      BY <1>5 DEF TypeOK, SaveCase, Step, Behind
    <3> QED
      BY <1>s, <3>1, FlowSets
  <2>6. Cardinality(Behind(r)') <= stops + 1
    BY <1>s, <2>3, <2>4, <2>5
  <2>7. CASE q = r
    BY <1>0, <1>5, <2>1, <2>4, <2>6, <2>7 DEF TypeOK, WritersTakeTurns, WritersOf, SaveCase, Step
  <2>8. CASE q # r
    BY <1>0, <1>5, <2>1, <2>2, <2>8 DEF TypeOK, SaveCase, Step
  <2> QED
    BY <2>7, <2>8
<1>6. CASE CheckpointCase(r)
  BY <1>6, CheckpointLags DEF CheckpointCase, Step
<1>7. CASE CompleteRun(r)
  BY <1>0, <1>7 DEF TypeOK, CompleteRun, Step, Behind, Redone
<1>8. CASE CheckpointCompleted(r)
  BY <1>8, CheckpointLags DEF CheckpointCompleted, Step
<1>9. CASE EndCompleted(r)
  BY <1>0, <1>9 DEF TypeOK, EndCompleted, Step, Behind, Redone
<1>10. CASE FailRun(r)
  BY <1>0, <1>10 DEF TypeOK, FailRun, Step, Behind, Redone
<1>11. CASE CheckpointFailed(r)
  BY <1>11, CheckpointLags DEF CheckpointFailed, Step
<1>12. CASE EndFailed(r)
  BY <1>0, <1>12 DEF TypeOK, EndFailed, Step, Behind, Redone
<1>13. CASE StopRun(r)
  BY <1>0, <1>13 DEF TypeOK, StopRun, Step, Behind, Redone
<1>14. CASE CheckpointQueued(r)
  BY <1>14, CheckpointLags DEF CheckpointQueued, Step
<1>15. CASE EndCancelled(r)
  BY <1>0, <1>15 DEF TypeOK, EndCancelled, Step, Behind, Redone
<1>16. CASE TimeOut(r)
  BY <1>0, <1>16 DEF TypeOK, TimeOut, Step, DropCase, Behind, Redone
<1>17. CASE ThrowCancel(r)
  BY <1>0, <1>17 DEF TypeOK, ThrowCancel, DropCase, Behind, Redone
<1>18. CASE TaskRaises(r)
  BY <1>18 DEF TypeOK, TaskRaises
<1> QED
  BY <1>1, <1>2, <1>3, <1>4, <1>4a, <1>5, <1>6, <1>7, <1>8, <1>9, <1>10, <1>11,
     <1>12, <1>13, <1>14, <1>15, <1>16, <1>17, <1>18 DEF TaskStep

\* The other handlers: a resume hands what would be replayed again to a task.
LEMMA ServerStepLags ==
    ASSUME TypeOK, WritersTakeTurns, \A r \in Runs : LagOf(r), faults' = 0,
           NEW r \in Runs, ServerStep(r), NEW q \in Runs
    PROVE  LagOf(q)'
<1> USE DEF LagOf, UpToDate, Behind, Redone
<1>0. LagOf(q) /\ LagOf(r) /\ WritersOf(q) /\ WritersOf(r)
  BY DEF WritersTakeTurns
<1>1. ASSUME NEW F \in (SUBSET Flows) \ {{}}, Admit(r, F) PROVE LagOf(q)'
  BY <1>0, <1>1 DEF TypeOK, Admit
<1>2. CASE CancelRun(r)
  BY <1>0, <1>2 DEF TypeOK, CancelRun
<1>3. CASE CancelWrite(r)
  BY <1>0, <1>3 DEF TypeOK, CancelWrite
<1>4. CASE MarkFailed(r)
  BY <1>0, <1>4 DEF TypeOK, MarkFailed, WritersOf
<1>5. CASE DrainRun(r)
  BY <1>0, <1>5 DEF TypeOK, DrainRun
<1>6. CASE EnsureTerminal(r)
  BY <1>0, <1>6 DEF TypeOK, EnsureTerminal
<1>7. CASE PassOver(r)
  BY <1>0, <1>7 DEF TypeOK, PassOver
<1>8. CASE ResumeWaitingAuth(r)
  BY <1>0, <1>8 DEF TypeOK, ResumeWaitingAuth
<1>9. CASE ResumeRun(r)
  <2>1. UpToDate(r) /\ phase = "starting"
    BY <1>0, <1>9 DEF ResumeRun, WritersOf
  <2>2. CASE q = r
    <3>1. Redone(q)' = Behind(q) /\ Behind(q)' = Behind(q) /\ stops' = stops
      BY <1>9, <2>2 DEF TypeOK, ResumeRun, StartTask
    <3>2. Cardinality(Redone(q)') <= stops' /\ Cardinality(Behind(q)') <= stops'
      BY <1>0, <2>1, <2>2, <3>1
    <3>3. stops' \in Nat /\ Cardinality(Behind(q)') \in Nat
      BY <3>1, LagSizes
    <3> QED
      BY <1>0, <1>9, <2>1, <2>2, <3>2, <3>3 DEF TypeOK, ResumeRun, StartTask
  <2>3. CASE q # r
    BY <1>0, <1>9, <2>3 DEF TypeOK, ResumeRun, StartTask
  <2> QED
    BY <2>2, <2>3
<1> QED
  BY <1>1, <1>2, <1>3, <1>4, <1>5, <1>6, <1>7, <1>8, <1>9 DEF ServerStep

\* A stop or a loss of the process is what the bound counts; a start resumes
\* from checkpoints that no task has outrun since.
LEMMA ProcessStepLags ==
    ASSUME TypeOK, WritersTakeTurns, \A r \in Runs : LagOf(r), faults' = 0,
           ProcessStep, NEW q \in Runs
    PROVE  LagOf(q)'
<1> USE DEF LagOf, UpToDate
<1>0. LagOf(q) /\ WritersOf(q)
  BY DEF WritersTakeTurns
<1>s. /\ Cardinality(Behind(q)) \in Nat /\ Cardinality(Redone(q)) \in Nat
      /\ stops \in Nat
  BY LagSizes
<1>1. CASE ValidateSetup
  BY <1>0, <1>1 DEF TypeOK, ValidateSetup, Behind, Redone
<1>2. CASE CloseLoop
  <2>1. Behind(q)' = Behind(q) /\ Redone(q)' = Redone(q) /\ stops' = stops + 1
    BY <1>2 DEF CloseLoop, Behind, Redone
  <2>2. (Live(q) => Live(q)')  /\ (Live(q)' => Live(q) /\ req'[q])
    BY <1>2 DEF CloseLoop, CancelLiveTasks
  <2>3. launch'[q] # "over" => launch[q] # "over"
    BY <1>2 DEF CloseLoop, AbandonCalls
  <2> QED
    BY <1>0, <1>s, <1>2, <2>1, <2>2, <2>3 DEF CloseLoop
<1>3. CASE BeginDrain
  <2>1. Behind(q)' = Behind(q) /\ Redone(q)' = Redone(q) /\ stops' = stops + 1
    BY <1>3 DEF BeginDrain, Behind, Redone
  <2>2. (Live(q) => Live(q)')  /\ (Live(q)' => Live(q) /\ req'[q])
    BY <1>3 DEF BeginDrain, CancelLiveTasks
  <2>3. launch'[q] # "over" => launch[q] # "over"
    BY <1>3 DEF BeginDrain, AbandonCalls
  <2> QED
    BY <1>0, <1>s, <1>3, <2>1, <2>2, <2>3 DEF BeginDrain
<1>4. CASE Exit
  <2>1. Behind(q)' = Behind(q) /\ stops' = stops /\ UpToDate(q)
    BY <1>4 DEF Exit, Behind
  <2>2. ~Live(q)' /\ cur'[q] = {} /\ (launch'[q] # "over" => launch[q] # "over")
    BY <1>4 DEF Exit, ClearProcess
  <2> QED
    BY <1>0, <1>s, <1>4, <2>1, <2>2 DEF Exit
<1>5. CASE Crash
  <2>1. /\ Behind(q)' = Behind(q)
        /\ (stops' = stops /\ UpToDate(q)) \/ stops' = stops + 1
    BY <1>5 DEF Crash, Behind
  <2>2. ~Live(q)' /\ cur'[q] = {} /\ (launch'[q] # "over" => launch[q] # "over")
    BY <1>5 DEF Crash, ClearProcess
  <2>3. Cardinality(Behind(q)') <= stops' /\ stops' \in Nat
    BY <1>0, <1>s, <2>1
  <2>4. phase' = "down" /\ rows' = rows
    BY <1>5 DEF Crash
  <2> QED
    BY <1>0, <1>s, <2>1, <2>2, <2>3, <2>4
<1>6. CASE Boot
  BY <1>0, <1>s, <1>6 DEF TypeOK, Boot, Behind, Redone, WritersOf
<1>7. CASE EndResume
  BY <1>0, <1>7 DEF TypeOK, EndResume, Behind, Redone
<1>8. CASE Serve
  BY <1>0, <1>8 DEF TypeOK, Serve, Behind, Redone
<1> QED
  BY <1>1, <1>2, <1>3, <1>4, <1>5, <1>6, <1>7, <1>8 DEF ProcessStep

\* A fault is never forgotten.
LEMMA FaultsOnlyGrow ==
    ASSUME TypeOK, [Next]_vars, faults' = 0
    PROVE  faults = 0
<1>0. faults \in Nat
  BY LifecycleAssumption DEF TypeOK
<1>1. faults' = faults \/ faults' = faults + 1
  <2>1. ASSUME NEW q \in Runs, LaunchStep(q) PROVE faults' = faults \/ faults' = faults + 1
    BY <2>1 DEF LaunchStep, Refuse, CreateRun, CheckpointLaunch, SpawnTask, LaunchRaises
  <2>2. ASSUME NEW q \in Runs, TaskStep(q) PROVE faults' = faults \/ faults' = faults + 1
    BY <2>2 DEF TaskStep, Step, BeginRunning, CheckpointStarted, EnterReplay,
       NoteCase, NoteRerecorded, SaveCase, CheckpointCase, CompleteRun,
       CheckpointCompleted, EndCompleted, FailRun, CheckpointFailed, EndFailed,
       StopRun, CheckpointQueued, EndCancelled, TimeOut, ThrowCancel, TaskRaises
  <2>3. ASSUME NEW q \in Runs, ServerStep(q) PROVE faults' = faults \/ faults' = faults + 1
    BY <2>3 DEF ServerStep, Admit, CancelRun, CancelWrite, MarkFailed, DrainRun,
       EnsureTerminal, PassOver, ResumeWaitingAuth, ResumeRun
  <2>4. ProcessStep => faults' = faults
    BY DEF ProcessStep, ValidateSetup, CloseLoop, BeginDrain, Exit, Crash, Boot,
       EndResume, Serve
  <2>5. UNCHANGED vars => faults' = faults
    BY DEF vars
  <2> QED
    BY <2>1, <2>2, <2>3, <2>4, <2>5 DEF Next
<1> QED
  BY <1>0, <1>1

\* In a durable mode the lag of every checkpoint is bounded by the stops.
THEOREM Lags == ASSUME Durable PROVE Spec => []LagIsBounded
<1>1. Init => LagIsBounded
  <2> SUFFICES ASSUME Init, NEW r \in Runs PROVE LagOf(r)
    BY DEF LagIsBounded
  <2>1. Behind(r) = {} /\ Redone(r) = {} /\ ~Live(r)
    BY DEF Init, Behind, Redone, NoCheckpoint
  <2> QED
    BY <2>1, FlowSets DEF Init, LagOf, UpToDate
<1>2. TypeOK /\ WritersTakeTurns /\ LagIsBounded /\ [Next]_vars => LagIsBounded'
  <2> SUFFICES ASSUME TypeOK, WritersTakeTurns, LagIsBounded, [Next]_vars,
                      faults' = 0, NEW q \in Runs
               PROVE  LagOf(q)'
    BY DEF LagIsBounded
  <2>1. \A r \in Runs : LagOf(r)
    BY FaultsOnlyGrow DEF LagIsBounded
  <2>2. ASSUME UNCHANGED vars PROVE LagOf(q)'
    BY <2>1, <2>2 DEF LagOf, UpToDate, Behind, Redone, vars
  <2> QED
    BY <2>1, <2>2, LaunchStepLags, TaskStepLags, ServerStepLags, ProcessStepLags
       DEF Next
<1> QED
  BY <1>1, <1>2, TypeCorrect, Turns, PTL DEF Spec

-----------------------------------------------------------------------------
(* How many rows a completed run may lack *)

\* Where an interrupted save may still come in the life of a task.
Saving == Prologue \cup {"replay", "saveCase", "ckptCase"}

\* The inductive invariant behind CompletedRunsAreWhole.  A save is interrupted
\* at most once in the life of a task, and a task takes a run up again only after
\* a stop: so where a task may still save, what the tasks before it left without
\* a row is at most one flow for each stop and each fault, and one less while the
\* stop that will interrupt it is already counted.
CutOf(r) ==
    /\ Cardinality(cut[r]) <= stops + faults + 1
    /\ \/ phase \in {"down", "draining", "exiting"}
       \/ r \in resumeTodo
       \/ pc[r] \in Saving
       \/ status[r] = "completed"
       => Cardinality(cut[r]) <= stops + faults
    /\ phase \in {"draining", "exiting"} /\ pc[r] \in Saving
         => Cardinality(cut[r]) + 1 <= stops + faults
    /\ pc[r] \in Saving => status[r] # "completed"
    /\ launch[r] # "over" => cut[r] = {} /\ status[r] # "completed"
    /\ cur[r] = {} \/ \E f \in Flows : cur[r] = {f}

CutsAreCounted == \A r \in Runs : CutOf(r)

\* Sizes in a typed state.
LEMMA CutSizes ==
    ASSUME TypeOK, NEW r \in Runs
    PROVE  /\ cut[r] \in SUBSET Flows /\ Cardinality(cut[r]) \in Nat
           /\ stops \in Nat /\ faults \in Nat
<1>1. cut[r] \in SUBSET Flows /\ stops \in Nat /\ faults \in Nat
  BY LifecycleAssumption DEF TypeOK
<1> QED
  BY <1>1, FlowSets

\* An interrupted persist step adds at most the case in hand.
LEMMA DropsOne ==
    ASSUME TypeOK, NEW r \in Runs, DropCase(r), CutOf(r)
    PROVE  /\ Cardinality(cut'[r]) <= Cardinality(cut[r]) + 1
           /\ Cardinality(cut'[r]) \in Nat
           /\ cur[r] = {} => cut'[r] = cut[r]
           /\ cur'[r] = {}
           /\ \A q \in Runs \ {r} : cut'[q] = cut[q] /\ cur'[q] = cur[q]
<1>1. /\ cut'[r] = cut[r] \cup (cur[r] \ rows[r]) /\ cur'[r] = {}
      /\ \A q \in Runs \ {r} : cut'[q] = cut[q] /\ cur'[q] = cur[q]
  BY DEF TypeOK, DropCase
<1>2. cut[r] \in SUBSET Flows /\ Cardinality(cut[r]) \in Nat
  BY CutSizes
<1>3. CASE cur[r] = {}
  BY <1>1, <1>2, <1>3
<1>4. ASSUME NEW f \in Flows, cur[r] = {f}
      PROVE  /\ Cardinality(cut'[r]) <= Cardinality(cut[r]) + 1
             /\ Cardinality(cut'[r]) \in Nat
  <2>1. cut'[r] \in SUBSET (cut[r] \cup {f}) /\ cut[r] \cup {f} \in SUBSET Flows
    BY <1>1, <1>2, <1>4
  <2>2. /\ Cardinality(cut'[r]) <= Cardinality(cut[r] \cup {f})
        /\ Cardinality(cut[r] \cup {f}) <= Cardinality(cut[r]) + 1
        /\ Cardinality(cut'[r]) \in Nat /\ Cardinality(cut[r] \cup {f}) \in Nat
    BY <1>2, <2>1, FlowSets
  <2> QED
    BY <1>2, <2>2
<1> QED
  BY <1>1, <1>2, <1>3, <1>4 DEF CutOf

\* The launch comes before any save.
LEMMA LaunchStepCuts ==
    ASSUME TypeOK, WritersTakeTurns, CutsAreCounted,
           NEW r \in Runs, LaunchStep(r), NEW q \in Runs
    PROVE  CutOf(q)'
<1> USE DEF CutOf
<1>0. CutOf(q) /\ WritersOf(q)
  BY DEF CutsAreCounted, WritersTakeTurns
<1>s. Cardinality(cut[q]) \in Nat /\ stops \in Nat /\ faults \in Nat
  BY CutSizes
<1>1. CASE Refuse(r) \/ CreateRun(r) \/ CheckpointLaunch(r)
  BY <1>0, <1>1 DEF TypeOK, Refuse, CreateRun, CheckpointLaunch
<1>2. CASE SpawnTask(r)
  <2>1. CASE q = r
    <3>1. cut'[q] = {} /\ phase' = "up" /\ status'[q] # "completed" /\ cur'[q] = {}
      BY <1>0, <1>2, <2>1 DEF TypeOK, SpawnTask, StartTask, WritersOf
    <3>2. Cardinality(cut'[q]) = 0 /\ stops' = stops /\ faults' = faults
      BY <1>2, <3>1, FlowSets DEF SpawnTask
    <3>3. launch'[q] = "over"
      BY <1>2, <2>1 DEF TypeOK, SpawnTask
    <3> QED
      BY <1>s, <3>1, <3>2, <3>3
  <2>2. CASE q # r
    BY <1>0, <1>2, <2>2 DEF TypeOK, SpawnTask, StartTask
  <2> QED
    BY <2>1, <2>2
<1>3. CASE LaunchRaises(r)
  <2>1. faults' = faults + 1
    BY <1>3 DEF LaunchRaises
  <2> QED
    BY <1>0, <1>s, <1>3, <2>1 DEF TypeOK, LaunchRaises
<1> QED
  BY <1>1, <1>2, <1>3 DEF LaunchStep

\* A step of the task: a save is interrupted by what takes the task out of its
\* replay, or by a fault, which is counted.
LEMMA TaskStepCuts ==
    ASSUME TypeOK, WritersTakeTurns, EveryFlowAccounted, CutsAreCounted,
           NEW r \in Runs, TaskStep(r), NEW q \in Runs
    PROVE  CutOf(q)'
<1> USE DEF CutOf, Saving
<1>0. CutOf(q) /\ CutOf(r) /\ WritersOf(r) /\ Accounted(r)
  BY DEF CutsAreCounted, WritersTakeTurns, EveryFlowAccounted
<1>s. /\ Cardinality(cut[q]) \in Nat /\ Cardinality(cut[r]) \in Nat
      /\ stops \in Nat /\ faults \in Nat
  BY CutSizes
<1>l. Live(r) => launch[r] = "over"
  BY <1>0 DEF WritersOf
<1>1. CASE BeginRunning(r)
  BY <1>0, <1>1, <1>l DEF TypeOK, BeginRunning, Step
<1>2. CASE \/ CheckpointStarted(r) \/ EnterReplay(r) \/ CheckpointCase(r)
           \/ CheckpointCompleted(r) \/ EndCompleted(r) \/ CheckpointFailed(r)
           \/ EndFailed(r) \/ CheckpointQueued(r) \/ EndCancelled(r)
  <2>1. UNCHANGED <<cut, cur, stops, faults, phase, status, launch, resumeTodo>>
    BY <1>2 DEF Step, CheckpointStarted, EnterReplay, CheckpointCase,
       CheckpointCompleted, EndCompleted, CheckpointFailed, EndFailed,
       CheckpointQueued, EndCancelled
  <2>2. pc'[q] \in Saving => pc[q] \in Saving
    BY <1>2 DEF TypeOK, Step, CheckpointStarted, EnterReplay, CheckpointCase,
       CheckpointCompleted, EndCompleted, CheckpointFailed, EndFailed,
       CheckpointQueued, EndCancelled
  <2> QED
    BY <1>0, <2>1, <2>2
<1>3. ASSUME NEW f \in Flows, NoteCase(r, f) \/ NoteRerecorded(r, f)
      PROVE  CutOf(q)'
  BY <1>0, <1>3 DEF TypeOK, Step, NoteCase, NoteRerecorded
<1>4. CASE SaveCase(r)
  <2>1. cut'[q] \in SUBSET cut[q] /\ cut[q] \in SUBSET Flows
    BY <1>4, CutSizes DEF TypeOK, SaveCase
  <2>2. Cardinality(cut'[q]) <= Cardinality(cut[q]) /\ Cardinality(cut'[q]) \in Nat
    BY <2>1, FlowSets
  <2>3. stops' = stops /\ faults' = faults /\ phase' = phase /\ status' = status
        /\ launch' = launch /\ resumeTodo' = resumeTodo
    BY <1>4 DEF SaveCase, Step
  <2>4. /\ pc'[q] \in Saving => pc[q] \in Saving
        /\ cur'[q] = {} \/ cur'[q] = cur[q]
    BY <1>4 DEF TypeOK, SaveCase, Step
  <2> QED
    BY <1>0, <1>s, <2>1, <2>2, <2>3, <2>4
<1>5. CASE CompleteRun(r) \/ FailRun(r) \/ StopRun(r)
  BY <1>0, <1>5, <1>l DEF TypeOK, Step, CompleteRun, FailRun, StopRun
<1>6. CASE TimeOut(r) \/ ThrowCancel(r)
  <2>1. /\ pc'[r] \notin Saving /\ \A p \in Runs \ {r} : pc'[p] = pc[p]
        /\ Live(r) /\ DropCase(r)
        /\ UNCHANGED <<stops, faults, phase, status, launch, resumeTodo>>
    BY <1>6 DEF TypeOK, TimeOut, ThrowCancel, Step
  <2>2. pc[r] \notin Saving => cut'[r] = cut[r]
    BY <1>0, <2>1, DropsOne DEF Accounted
  <2>3. CASE q = r
    BY <1>0, <1>s, <1>l, <2>1, <2>2, <2>3, DropsOne DEF WritersOf
  <2>4. CASE q # r
    BY <1>0, <2>1, <2>4, DropsOne
  <2> QED
    BY <2>3, <2>4
<1>7. CASE TaskRaises(r)
  <2>1. /\ pc'[r] \in Saving => pc[r] \in Saving
        /\ \A p \in Runs \ {r} : pc'[p] = pc[p]
        /\ Live(r) /\ DropCase(r) /\ faults' = faults + 1
        /\ UNCHANGED <<stops, phase, status, launch, resumeTodo>>
    BY <1>7 DEF TypeOK, TaskRaises
  <2>2. pc[r] \notin Saving => cut'[r] = cut[r]
    BY <1>0, <2>1, DropsOne DEF Accounted
  <2>3. CASE q = r
    BY <1>0, <1>s, <1>l, <2>1, <2>2, <2>3, DropsOne
  <2>4. CASE q # r
    <3>1. cut'[q] = cut[q] /\ cur'[q] = cur[q] /\ pc'[q] = pc[q]
      BY <1>0, <2>1, <2>4, DropsOne
    <3> QED
      BY <1>0, <1>s, <2>1, <3>1
  <2> QED
    BY <2>3, <2>4
<1> QED
  BY <1>1, <1>2, <1>3, <1>4, <1>5, <1>6, <1>7 DEF TaskStep

\* The other handlers interrupt nothing themselves; a resumed run has room for
\* one interrupted save.
LEMMA ServerStepCuts ==
    ASSUME TypeOK, WritersTakeTurns, CutsAreCounted,
           NEW r \in Runs, ServerStep(r), NEW q \in Runs
    PROVE  CutOf(q)'
<1> USE DEF CutOf
<1>0. CutOf(q) /\ CutOf(r) /\ WritersOf(q) /\ WritersOf(r)
  BY DEF CutsAreCounted, WritersTakeTurns
<1>s. Cardinality(cut[q]) \in Nat /\ stops \in Nat /\ faults \in Nat
  BY CutSizes
<1>1. ASSUME NEW F \in (SUBSET Flows) \ {{}}, Admit(r, F) PROVE CutOf(q)'
  BY <1>0, <1>1 DEF TypeOK, Admit
<1>2. CASE CancelRun(r) \/ CancelWrite(r) \/ DrainRun(r) \/ EnsureTerminal(r)
  BY <1>0, <1>2 DEF TypeOK, CancelRun, CancelWrite, DrainRun, EnsureTerminal
<1>3. CASE MarkFailed(r)
  <2>1. faults' = faults \/ faults' = faults + 1
    BY <1>3 DEF MarkFailed
  <2>2. status'[q] \in {status[q], "failed"}
    BY <1>3 DEF TypeOK, MarkFailed
  <2> QED
    BY <1>0, <1>s, <1>3, <2>1, <2>2 DEF MarkFailed
<1>4. CASE PassOver(r) \/ ResumeWaitingAuth(r)
  BY <1>0, <1>4 DEF TypeOK, PassOver, ResumeWaitingAuth
<1>5. CASE ResumeRun(r)
  BY <1>0, <1>5 DEF TypeOK, ResumeRun, StartTask, WritersOf
<1> QED
  BY <1>1, <1>2, <1>3, <1>4, <1>5 DEF ServerStep

\* A stop or a loss of the process makes room for the save it interrupts.
LEMMA ProcessStepCuts ==
    ASSUME TypeOK, WritersTakeTurns, CutsAreCounted, ProcessStep, NEW q \in Runs
    PROVE  CutOf(q)'
<1> USE DEF CutOf
<1>0. CutOf(q) /\ WritersOf(q)
  BY DEF CutsAreCounted, WritersTakeTurns
<1>s. Cardinality(cut[q]) \in Nat /\ stops \in Nat /\ faults \in Nat
  BY CutSizes
<1>1. CASE ValidateSetup
  BY <1>0, <1>1 DEF TypeOK, ValidateSetup, FailRunning
<1>2. CASE CloseLoop \/ BeginDrain
  <2>1. stops' = stops + 1 /\ phase \notin {"down", "draining", "exiting"}
    BY <1>2 DEF CloseLoop, BeginDrain
  <2>2. /\ UNCHANGED <<cut, cur, pc, status, resumeTodo, faults>>
        /\ launch'[q] # "over" => launch[q] # "over"
    BY <1>2 DEF CloseLoop, BeginDrain, AbandonCalls
  <2> QED
    BY <1>0, <1>s, <2>1, <2>2
<1>3. CASE Exit \/ Crash
  <2>1. /\ UNCHANGED <<cut, status, faults>> /\ cur'[q] = {} /\ pc'[q] \notin Saving
        /\ launch'[q] # "over" => launch[q] # "over"
    BY <1>3 DEF Exit, Crash, ClearProcess, Saving
  <2>2. \/ stops' = stops /\ phase \in {"draining", "exiting"}
        \/ stops' = stops + 1
    BY <1>3 DEF Exit, Crash
  <2>3. phase' = "down" /\ resumeTodo' = {}
    BY <1>3 DEF Exit, Crash, ClearProcess
  <2> QED
    BY <1>0, <1>s, <2>1, <2>2, <2>3
<1>4. CASE Boot
  <2>1. /\ UNCHANGED <<cut, cur, pc, stops, faults, launch>>
        /\ status'[q] # status[q] => status'[q] = "failed"
        /\ pc[q] \notin Saving /\ phase = "down" /\ phase' \in {"starting", "up"}
    BY <1>0, <1>4 DEF TypeOK, Boot, FailRunning, WritersOf, Saving
  <2> QED
    BY <1>0, <2>1
<1>5. CASE EndResume \/ Serve
  BY <1>0, <1>5 DEF TypeOK, EndResume, Serve
<1> QED
  BY <1>1, <1>2, <1>3, <1>4, <1>5 DEF ProcessStep

\* The invariant holds in every reachable state.
THEOREM Cuts == Spec => []CutsAreCounted
<1>1. Init => CutsAreCounted
  <2> SUFFICES ASSUME Init, NEW r \in Runs PROVE CutOf(r)
    BY DEF CutsAreCounted
  <2>1. cut[r] = {} /\ cur[r] = {} /\ stops = 0 /\ faults = 0 /\ pc[r] = "none"
    BY DEF Init
  <2> QED
    BY <2>1, FlowSets DEF Init, CutOf, Saving
<1>2. TypeOK /\ WritersTakeTurns /\ EveryFlowAccounted /\ CutsAreCounted
        /\ [Next]_vars => CutsAreCounted'
  <2> SUFFICES ASSUME TypeOK, WritersTakeTurns, EveryFlowAccounted,
                      CutsAreCounted, [Next]_vars, NEW q \in Runs
               PROVE  CutOf(q)'
    BY DEF CutsAreCounted
  <2>1. ASSUME UNCHANGED vars PROVE CutOf(q)'
    BY <2>1 DEF CutsAreCounted, CutOf, vars
  <2> QED
    BY <2>1, LaunchStepCuts, TaskStepCuts, ServerStepCuts, ProcessStepCuts
       DEF Next
<1> QED
  BY <1>1, <1>2, TypeCorrect, Turns, Accounting, PTL DEF Spec

\* A completed run lacks at most one case row for each stop and each fault there
\* was, whatever was cancelled, resumed, raised or killed; without them it has a
\* row for each of its flows or for the flow recorded in its place.
THEOREM CompletedIsWhole == Spec => []CompletedRunsAreWhole
<1>1. TypeOK /\ EveryFlowAccounted /\ CutsAreCounted => CompletedRunsAreWhole
  <2> SUFFICES ASSUME TypeOK, EveryFlowAccounted, CutsAreCounted, NEW r \in Runs,
                      status[r] = "completed"
               PROVE  Cardinality(flowIds[r] \ (rows[r] \cup renamed[r]))
                        <= stops + faults
    BY DEF CompletedRunsAreWhole
  <2> DEFINE Lacking == flowIds[r] \ (rows[r] \cup renamed[r])
  <2>1. Lacking \in SUBSET cut[r] /\ Lacking \in SUBSET Flows
    BY DEF TypeOK, EveryFlowAccounted, Accounted, Recorded
  <2>2. Cardinality(cut[r]) <= stops + faults
    BY DEF CutsAreCounted, CutOf
  <2>3. /\ Cardinality(cut[r]) \in Nat /\ stops \in Nat /\ faults \in Nat
        /\ cut[r] \in SUBSET Flows
    BY CutSizes
  <2>4. Cardinality(Lacking) <= Cardinality(cut[r]) /\ Cardinality(Lacking) \in Nat
    BY <2>1, <2>3, FlowSets
  <2> HIDE DEF Lacking
  <2>5. Cardinality(Lacking) <= stops + faults
    BY <2>2, <2>3, <2>4
  <2> QED
    BY <2>5 DEF Lacking
<1> QED
  BY <1>1, TypeCorrect, Accounting, Cuts, PTL

-----------------------------------------------------------------------------
(* A task keeps to the flows of its run *)

\* The invariant behind the second part of RepeatsAreBounded, in a durable mode:
\* what a task replays, records anew and leaves to a resume are flows of its run,
\* and a run has a checkpoint before it has a task.
KeepsTo(r) ==
    /\ ckpt[r].left \subseteq flowIds[r]
    /\ Live(r) => taskFlows[r] \subseteq flowIds[r]
    /\ replaced[r] \subseteq taskFlows[r]
    /\ renamed[r] \subseteq flowIds[r]
    /\ Live(r) \/ renamed[r] # {} \/ launch[r] = "ready" => ckpt[r].saved

TasksKeepToTheRun == \A r \in Runs : KeepsTo(r)

\* The launch writes the checkpoint before it spawns the task.
LEMMA LaunchStepKeeps ==
    ASSUME TypeOK, Durable, EveryFlowAccounted, TasksKeepToTheRun,
           NEW r \in Runs, LaunchStep(r), NEW q \in Runs
    PROVE  KeepsTo(q)'
<1>0. KeepsTo(q) /\ Accounted(q)
  BY DEF TasksKeepToTheRun, EveryFlowAccounted
<1>1. CASE Refuse(r) \/ CreateRun(r) \/ LaunchRaises(r)
  BY <1>0, <1>1 DEF TypeOK, KeepsTo, Refuse, CreateRun, LaunchRaises
<1>2. CASE CheckpointLaunch(r)
  BY <1>0, <1>2 DEF TypeOK, KeepsTo, CheckpointLaunch, Checkpoint
<1>3. CASE SpawnTask(r)
  BY <1>0, <1>3 DEF TypeOK, KeepsTo, SpawnTask, StartTask
<1> QED
  BY <1>1, <1>2, <1>3 DEF LaunchStep

\* A step of the task: its checkpoints and rows are about its own flows.
LEMMA TaskStepKeeps ==
    ASSUME TypeOK, Durable, EveryFlowAccounted, TasksKeepToTheRun,
           NEW r \in Runs, TaskStep(r), NEW q \in Runs
    PROVE  KeepsTo(q)'
<1>0. KeepsTo(q) /\ KeepsTo(r)
  BY DEF TasksKeepToTheRun
<1>1. CASE \/ BeginRunning(r) \/ EnterReplay(r) \/ CompleteRun(r)
           \/ EndCompleted(r) \/ FailRun(r) \/ EndFailed(r) \/ StopRun(r)
           \/ EndCancelled(r)
  BY <1>0, <1>1 DEF TypeOK, KeepsTo, Step, BeginRunning, EnterReplay,
     CompleteRun, EndCompleted, FailRun, EndFailed, StopRun, EndCancelled
<1>2. CASE \/ CheckpointStarted(r) \/ CheckpointCase(r) \/ CheckpointCompleted(r)
           \/ CheckpointFailed(r) \/ CheckpointQueued(r)
  BY <1>0, <1>2 DEF TypeOK, KeepsTo, Step, CheckpointStarted, CheckpointCase,
     CheckpointCompleted, CheckpointFailed, CheckpointQueued, Checkpoint
<1>3. ASSUME NEW f \in Flows, NoteCase(r, f) \/ NoteRerecorded(r, f)
      PROVE  KeepsTo(q)'
  BY <1>0, <1>3 DEF TypeOK, KeepsTo, Step, NoteCase, NoteRerecorded
<1>4. CASE SaveCase(r)
  BY <1>0, <1>4 DEF TypeOK, KeepsTo, Step, SaveCase
<1>5. CASE TimeOut(r) \/ ThrowCancel(r) \/ TaskRaises(r)
  BY <1>0, <1>5 DEF TypeOK, KeepsTo, Step, TimeOut, ThrowCancel, TaskRaises
<1> QED
  BY <1>1, <1>2, <1>3, <1>4, <1>5 DEF TaskStep

\* The other handlers: a run is admitted before it has anything, and a resume
\* replays what the checkpoint has left.
LEMMA ServerStepKeeps ==
    ASSUME TypeOK, Durable, EveryFlowAccounted, TasksKeepToTheRun,
           NEW r \in Runs, ServerStep(r), NEW q \in Runs
    PROVE  KeepsTo(q)'
<1>0. KeepsTo(q) /\ Accounted(q)
  BY DEF TasksKeepToTheRun, EveryFlowAccounted
<1>1. ASSUME NEW F \in (SUBSET Flows) \ {{}}, Admit(r, F) PROVE KeepsTo(q)'
  BY <1>0, <1>1 DEF TypeOK, KeepsTo, Accounted, Admit
<1>2. CASE ResumeRun(r)
  BY <1>0, <1>2 DEF TypeOK, KeepsTo, Accounted, ResumeRun, StartTask
<1>3. CASE \/ CancelRun(r) \/ CancelWrite(r) \/ MarkFailed(r) \/ DrainRun(r)
           \/ EnsureTerminal(r) \/ PassOver(r) \/ ResumeWaitingAuth(r)
  BY <1>0, <1>3 DEF TypeOK, KeepsTo, CancelRun, CancelWrite, MarkFailed,
     DrainRun, EnsureTerminal, PassOver, ResumeWaitingAuth
<1> QED
  BY <1>1, <1>2, <1>3 DEF ServerStep

\* What the process loses are tasks, never a checkpoint or a row.
LEMMA ProcessStepKeeps ==
    ASSUME TypeOK, Durable, TasksKeepToTheRun, ProcessStep, NEW q \in Runs
    PROVE  KeepsTo(q)'
<1>0. KeepsTo(q)
  BY DEF TasksKeepToTheRun
<1>1. CASE ValidateSetup \/ Boot \/ EndResume \/ Serve
  BY <1>0, <1>1 DEF TypeOK, KeepsTo, ValidateSetup, Boot, EndResume, Serve
<1>2. CASE CloseLoop \/ BeginDrain
  BY <1>0, <1>2 DEF TypeOK, KeepsTo, CloseLoop, BeginDrain, AbandonCalls
<1>3. CASE Exit \/ Crash
  <2>1. ~Live(q)' /\ replaced'[q] = {} /\ launch'[q] # "ready"
    BY <1>3 DEF Exit, Crash, ClearProcess
  <2>2. UNCHANGED <<ckpt, flowIds, renamed>>
    BY <1>3 DEF Exit, Crash
  <2> QED
    BY <1>0, <2>1, <2>2 DEF KeepsTo
<1> QED
  BY <1>1, <1>2, <1>3 DEF ProcessStep

\* The invariant holds in every reachable state of a durable mode.
THEOREM TasksKeep == ASSUME Durable PROVE Spec => []TasksKeepToTheRun
<1>1. Init => TasksKeepToTheRun
  BY DEF Init, TasksKeepToTheRun, KeepsTo, NoCheckpoint
<1>2. TypeOK /\ EveryFlowAccounted /\ TasksKeepToTheRun /\ [Next]_vars
        => TasksKeepToTheRun'
  <2> SUFFICES ASSUME TypeOK, EveryFlowAccounted, TasksKeepToTheRun, [Next]_vars,
                      NEW q \in Runs
               PROVE  KeepsTo(q)'
    BY DEF TasksKeepToTheRun
  <2>1. ASSUME UNCHANGED vars PROVE KeepsTo(q)'
    BY <2>1 DEF TasksKeepToTheRun, KeepsTo, vars
  <2> QED
    BY <2>1, LaunchStepKeeps, TaskStepKeeps, ServerStepKeeps, ProcessStepKeeps
       DEF Next
<1> QED
  BY <1>1, <1>2, TypeCorrect, Accounting, PTL DEF Spec

\* What is replayed again without having been recorded anew has a row under its
\* own id.
LEMMA AgainUnderOwnId ==
    ASSUME NEW r \in Runs
    PROVE  Again(r) \ RecordedAnew(r) = Behind(r)
BY DEF Again, RecordedAnew, Behind

\* Without faults, a stop makes at most one finished flow be replayed again that
\* has a row under its own id, and the case in hand is one more; every flow that
\* was recorded anew is replayed again, unless its save was interrupted before.
THEOREM RepeatsBounded == Spec => []RepeatsAreBounded
<1>1. CASE Durable
  <2>1. TypeOK /\ LagIsBounded /\ EveryFlowAccounted /\ TasksKeepToTheRun
          => RepeatsAreBounded
    <3> SUFFICES ASSUME TypeOK, LagIsBounded, EveryFlowAccounted,
                        TasksKeepToTheRun, faults = 0, NEW r \in Runs
                 PROVE  /\ Cardinality(Again(r) \ RecordedAnew(r)) <= 1 + stops
                        /\ RecordedAnew(r) \subseteq Again(r) \cup cut[r]
      BY <1>1 DEF RepeatsAreBounded
    <3>1. Cardinality(Behind(r)) <= stops + 1
      BY DEF LagIsBounded, LagOf
    <3>2. Cardinality(Behind(r)) \in Nat /\ stops \in Nat
      BY LagSizes
    <3>3. Cardinality(Again(r) \ RecordedAnew(r)) <= 1 + stops
      BY <3>1, <3>2, AgainUnderOwnId
    <3>4. renamed[r] \subseteq rows[r] \cup ckpt[r].left \cup cut[r]
      BY DEF TypeOK, TasksKeepToTheRun, KeepsTo, EveryFlowAccounted, Accounted,
             Recorded
    <3>5. RecordedAnew(r) \subseteq Again(r) \cup cut[r]
      BY <3>4 DEF Again, RecordedAnew
    <3> QED
      BY <3>3, <3>5
  <2> QED
    BY <1>1, <2>1, Lags, Accounting, TasksKeep, TypeCorrect, PTL
<1>2. CASE ~Durable
  <2>1. TypeOK => RepeatsAreBounded
    BY <1>2 DEF RepeatsAreBounded
  <2> QED
    BY <2>1, TypeCorrect, PTL
<1> QED
  BY <1>1, <1>2
=============================================================================
