---------------------------- MODULE ReleaseCheck ----------------------------
(***************************************************************************)
(* A release and the checks of it: the row of release_snapshots that the   *)
(* registration, the risk assessment, the check itself and the end of its  *)
(* run all write, and what clients are told meanwhile.  A check launches   *)
(* one run and has its name; how a run executes is in RunLifecycle, here   *)
(* it stores its cases one by one and ends somehow.                        *)
(***************************************************************************)
EXTENDS RunReport

CONSTANTS
    Releases, Checks, Flows,
    FlowsOf,        \* the flows each check selects, maybe none
    ModesOf,        \* "replay", "targeted": how each check may be made
    AskedAbout,     \* checks the client asks about
    ProjectGiven,   \* whether a registration names a project
    CritOf,         \* their criticality
    Outcomes,       \* what the replay of each of them may come to
    EvalOutcomes,   \* what a targeted evaluation may come to
    AuthTrouble,    \* session statuses a launch may find
    StaleFlows,     \* flows recorded too long ago
    Settings,       \* pairs of a stored policy and the environment's flags
    ContextRisks,   \* what the context graph may add to an assessment
    MaxEdits        \* registrations and assessments

ASSUME FlowsAssumption ==
    /\ FlowsOf \in [Checks -> SUBSET Flows]
    /\ CritOf \in [Flows -> Criticalities]
    /\ ModesOf \in [Checks -> SUBSET {"replay", "targeted"}]
    /\ AskedAbout \subseteq Checks /\ ProjectGiven \subseteq BOOLEAN
    /\ \A f \in Flows : \A c \in Outcomes[f] :
          DOMAIN c = DOMAIN BlankCase /\ c.status \in {"pass", "fail", "error", "blocked"}

\* CriticalityGate: any number of failures may be the threshold.
ASSUME SettingsAssumption ==
    \A s \in Settings : \A crit \in Criticalities :
        /\ s.policy.gates[crit].on \in {"BLOCK", "INVESTIGATE", "IGNORE"}
        /\ s.policy.gates[crit].min \in Int

VARIABLES
    row,        \* release -> its row in release_snapshots
    run,        \* check -> the run it launched
    chk,        \* check -> how far run_release_check is
    rd,         \* check -> how far the reading of its run for a brief is
    lost,       \* runs whose brief could not be written at their end
    set,        \* the policy and the flags in force
    edits,
    asked       \* what the client waits for

vars == <<row, run, chk, rd, lost, set, edits, asked>>

NoRow == [snap |-> None, meta |-> FALSE, project |-> FALSE, run |-> None, brief |-> NoBrief]
Exists(rel) == row[rel] # NoRow
NoRun == [status |-> None, task |-> "none", saved |-> {}, kept |-> {}, auth |-> None]
Idle == [pc |-> "idle", rel |-> None]
Silent == [pc |-> "idle", run |-> None, rel |-> None,
           seen |-> [status |-> None, auth |-> None, kept |-> {}]]

Init ==
    /\ row = [rel \in Releases |-> NoRow]
    /\ run = [k \in Checks |-> NoRun]
    /\ chk = [k \in Checks |-> [pc |-> "idle", rel |-> None]]
    /\ rd = [k \in Checks |-> Idle]
    /\ lost = {} /\ edits = 0
    /\ set \in Settings
    /\ asked = Silent

-----------------------------------------------------------------------------
(* The writers of release_snapshots: each reads the row and replaces it, in *)
(* one transaction, and keeps the columns that are not its own.             *)

\* Mutated form: the link of the first check stays.
BriefWithoutLink(old, brief) ==
    [old EXCEPT !.run = IF @ = None THEN brief.run ELSE @, !.brief = brief]

save_release_brief(old, brief) == [old EXCEPT !.run = brief.run, !.brief = brief]

\* Mutated form: the row is replaced by what the writer knows.
RegisterAnew(old, project) ==
    [NoRow EXCEPT !.meta = TRUE, !.snap = "registered", !.project = project]

upsert_release_registration(old, project) ==
    [old EXCEPT !.meta = TRUE, !.snap = IF @ = None THEN "registered" ELSE @,
                !.project = @ \/ project]

\* metadata is the assessment's own: what the registration put there is gone.
save_release_snapshot(old, level) == [old EXCEPT !.snap = level, !.meta = FALSE]

Write(rel, new) == row' = [row EXCEPT ![rel] = new]

-----------------------------------------------------------------------------
(* Registration and assessment *)

Edit == edits < MaxEdits /\ edits' = edits + 1

register_release(rel, project) ==
    /\ Edit
    /\ Write(rel, upsert_release_registration(row[rel], project))
    /\ UNCHANGED <<run, chk, rd, lost, set, asked>>

Level(score) ==
    FirstOf(<< <<score >= 80, "blocker">>, <<score >= 60, "high">>,
               <<score >= 30, "medium">>, <<TRUE, "low">> >>)

\* The cases of the candidate are read first; nothing read here is read again.
assess_release_risk(rel, k, context) ==
    /\ Edit
    /\ Write(rel, save_release_snapshot(row[rel], Level(AtMost(100, context + RunRisk(run[k].saved)))))
    /\ UNCHANGED <<run, chk, rd, lost, set, asked>>

-----------------------------------------------------------------------------
(* run_release_check *)

At(k, pc) == chk[k].pc = pc
Goto(k, pc) == chk' = [chk EXCEPT ![k].pc = pc]

\* create_check of the REST interface asks for a release that is registered,
\* the tool does not, and only the tool has targeted checks.
create_check(k, rel) ==
    /\ At(k, "idle") /\ Exists(rel)
    /\ chk' = [chk EXCEPT ![k] = [pc |-> IF FlowsOf[k] = {} THEN "refused" ELSE "replay", rel |-> rel]]
    /\ UNCHANGED <<row, run, rd, lost, set, edits, asked>>

run_release_check(k, rel, mode) ==
    /\ At(k, "idle")
    /\ chk' = [chk EXCEPT ![k] =
                  [pc |-> IF mode = "replay" /\ FlowsOf[k] = {} THEN "refused" ELSE mode,
                   rel |-> rel]]
    /\ UNCHANGED <<row, run, rd, lost, set, edits, asked>>

\* run_regression_test: refused, waiting for auth without a task, or queued
\* with a task that starts on its own.
LaunchRefused(k) ==
    /\ At(k, "replay")
    /\ Goto(k, "refused")
    /\ UNCHANGED <<row, run, rd, lost, set, edits, asked>>

Launch(k) ==
    /\ At(k, "replay")
    /\ Goto(k, "launched")
    /\ \/ run' = [run EXCEPT ![k] = [NoRun EXCEPT !.status = "queued", !.task = "live"]]
       \/ \E auth \in AuthTrouble :
              run' = [run EXCEPT ![k] = [NoRun EXCEPT !.status = "waiting_auth", !.auth = auth]]
    /\ UNCHANGED <<row, rd, lost, set, edits, asked>>

\* By now the run may be at any stage.  A failure is logged, no more.
SavePreliminaryBrief(k) ==
    /\ At(k, "launched")
    /\ Goto(k, "done")
    /\ \/ UNCHANGED row
       \/ Write(chk[k].rel, save_release_brief(row[chk[k].rel], PreliminaryBrief(k)))
    /\ UNCHANGED <<run, rd, lost, set, edits, asked>>

-----------------------------------------------------------------------------
(* The run of a replay *)

TaskStart(k) ==
    /\ run[k].task = "live" /\ run[k].status = "queued"
    /\ run' = [run EXCEPT ![k].status = "running"]
    /\ UNCHANGED <<row, chk, rd, lost, set, edits, asked>>

Running(k) == run[k].task = "live" /\ run[k].status = "running"
DoneFlows(k) == {c.flow : c \in run[k].saved}

\* _persist_case_progress
TaskCase(k) ==
    /\ Running(k)
    /\ \E f \in FlowsOf[k] \ DoneFlows(k) : \E c \in Outcomes[f] :
           LET found == [c EXCEPT !.flow = f, !.crit = CritOf[f]]
           IN  run' = [run EXCEPT ![k].saved = @ \cup {classify_case(
                           IF c.platform = "mobile" THEN MobileCase(found) ELSE found)}]
    /\ UNCHANGED <<row, chk, rd, lost, set, edits, asked>>

ToRefresh(k) == rd' = [rd EXCEPT ![k] = [Idle EXCEPT !.pc = "link"]]

Over(k, status) ==
    /\ run' = [run EXCEPT ![k].status = status, ![k].task = "over", ![k].kept = run[k].saved]
    /\ ToRefresh(k)
    /\ UNCHANGED <<row, chk, lost, set, edits, asked>>

TaskCompletes(k) == Running(k) /\ DoneFlows(k) = FlowsOf[k] /\ Over(k, "completed")

\* A timeout or an exception, with the cases there are.
TaskFails(k) == Running(k) /\ Over(k, "failed")

\* Mutated form: only a run that got to its end has its brief refreshed.
CancelledUnrefreshed(k) ==
    /\ run[k].task = "live"
    /\ run' = [run EXCEPT ![k].status = "cancelled", ![k].task = "over"]
    /\ UNCHANGED <<row, chk, rd, lost, set, edits, asked>>

\* cancel_run, with or without a durable checkpoint: the run is cancelled, or
\* back in the queue; its brief is refreshed all the same.
TaskCancelled(k) ==
    /\ run[k].task = "live"
    /\ \/ Over(k, "cancelled")
       \/ /\ run' = [run EXCEPT ![k].status = "queued", ![k].task = "over"]
          /\ ToRefresh(k)
          /\ UNCHANGED <<row, chk, lost, set, edits, asked>>

-----------------------------------------------------------------------------
(* A targeted check: evaluate_web_task creates its run when it is over, then *)
(* has it read by get_test_results.                                          *)

EvaluationRefused(k) ==
    /\ At(k, "targeted")
    /\ Goto(k, "refused")
    /\ UNCHANGED <<row, run, rd, lost, set, edits, asked>>

CreateEvaluation(k) ==
    /\ At(k, "targeted")
    /\ Goto(k, "created")
    /\ run' = [run EXCEPT ![k].status = "queued", ![k].task = "over"]
    /\ UNCHANGED <<row, rd, lost, set, edits, asked>>

\* update_run puts the case in the row of the run ...
UpdateEvaluation(k) ==
    /\ At(k, "created")
    /\ Goto(k, "updated")
    /\ \E outcome \in EvalOutcomes :
           run' = [run EXCEPT ![k].status = IF outcome = "error" THEN "failed" ELSE "completed",
                              ![k].kept = {EvaluationCase(outcome)}]
    /\ UNCHANGED <<row, rd, lost, set, edits, asked>>

\* ... and save_cases in the table of cases.
SaveEvaluationCase(k) ==
    /\ At(k, "updated")
    /\ Goto(k, "done")
    /\ run' = [run EXCEPT ![k].saved = run[k].kept]
    /\ rd' = [rd EXCEPT ![k] = [pc |-> "write", rel |-> chk[k].rel]]
    /\ UNCHANGED <<row, lost, set, edits, asked>>

-----------------------------------------------------------------------------
(* refresh_release_brief_after_run, and the end of a targeted check *)

\* The release that links the run, if there is one.
RefreshLink(k) ==
    /\ rd[k].pc = "link"
    /\ LET linked == {rel \in Releases : row[rel].run = k}
       IN  rd' = [rd EXCEPT ![k] = IF linked = {} THEN Idle
                                   ELSE [pc |-> "write", rel |-> CHOOSE rel \in linked : TRUE]]
    /\ UNCHANGED <<row, run, chk, lost, set, edits, asked>>

\* get_test_results reads the run and then the cases of the table, or those
\* it had read with the run where the table has none.
CasesFor(seen, k) == IF run[k].saved # {} THEN run[k].saved ELSE seen.kept
ReportOf(seen, k) == Report(seen, CasesFor(seen, k), StaleFlows, set.policy, set.flags)

\* _save_release_brief: a failure is logged, no more.  The results are read
\* since the link, of a run that is over: the same whenever that is.
SaveBrief(k) ==
    /\ rd[k].pc = "write"
    /\ rd' = [rd EXCEPT ![k] = Idle]
    /\ \/ lost' = lost \cup {k} /\ UNCHANGED row
       \/ /\ Write(rd[k].rel, save_release_brief(row[rd[k].rel], Brief(k, ReportOf(run[k], k))))
          /\ UNCHANGED lost
    /\ UNCHANGED <<run, chk, set, edits, asked>>

-----------------------------------------------------------------------------
(* The client's questions.  Each reads the run first, what it needs besides  *)
(* later, and is answered at once when it has that.                          *)

Ask(pc, k, rel) ==
    /\ asked.pc = "idle" /\ run[k].status # None
    /\ asked' = [pc |-> pc, run |-> k, rel |-> rel,
                 seen |-> [status |-> run[k].status, auth |-> run[k].auth, kept |-> run[k].kept]]
    /\ UNCHANGED <<row, run, chk, rd, lost, set, edits>>

get_test_results(k) == Ask("cases", k, None)

\* get_check_status: a check of another release, or one whose release was
\* checked again since, is not found.
get_check_status(k, rel) == row[rel].run = k /\ Ask("brief", k, rel)

\* What the client would be told now, in whichever way it asked: the report,
\* its recommendation alone (get_run_recommendation_resource, which has
\* neither the stored policy nor the bucket), or the brief if it is of the run.
Told ==
    IF asked.pc = "cases"
    THEN {ReportOf(asked.seen, asked.run).decision,
          compute_release_recommendation(CasesFor(asked.seen, asked.run),
                                         DEFAULT_RELEASE_POLICY, None, set.flags)}
    ELSE LET brief == row[asked.rel].brief
         IN  IF brief.run = asked.run THEN {brief.decision} ELSE {}

Answer ==
    /\ asked.pc # "idle"
    /\ asked' = Silent
    /\ UNCHANGED <<row, run, chk, rd, lost, set, edits>>

-----------------------------------------------------------------------------
Task(k) == TaskCancelled(k) \/ TaskStart(k) \/ TaskFails(k) \/ TaskCase(k) \/ TaskCompletes(k)

Check(k) ==
    \/ LaunchRefused(k) \/ Launch(k) \/ SavePreliminaryBrief(k)
    \/ EvaluationRefused(k) \/ CreateEvaluation(k) \/ UpdateEvaluation(k) \/ SaveEvaluationCase(k)

MakeBrief(k) == RefreshLink(k) \/ SaveBrief(k)

Next ==
    \/ \E rel \in Releases, project \in ProjectGiven : register_release(rel, project)
    \/ \E rel \in Releases, k \in Checks, context \in ContextRisks : assess_release_risk(rel, k, context)
    \/ \E k \in Checks, rel \in Releases : create_check(k, rel)
    \/ \E k \in Checks, rel \in Releases, mode \in {"replay", "targeted"} :
           mode \in ModesOf[k] /\ run_release_check(k, rel, mode)
    \/ \E k \in Checks : Check(k) \/ Task(k) \/ MakeBrief(k)
    \/ \E k \in AskedAbout : get_test_results(k)
    \/ \E k \in AskedAbout, rel \in Releases : get_check_status(k, rel)
    \/ Answer

Spec == Init /\ [][Next]_vars

\* Tasks run until they are over, and what comes after them too: every await
\* of theirs returns.  Nobody has to ask, or to launch a check.
FairSpec == Spec /\ \A k \in Checks : WF_vars(Task(k)) /\ WF_vars(MakeBrief(k))

-----------------------------------------------------------------------------
(* Properties *)

\* Three writers share the row of a release, and the docstrings promise that
\* none takes what another put there: a project stays, an assessment is only
\* replaced by another one, and a new brief comes without a new snapshot.
NobodyClobbers ==
    [][\A rel \in Releases :
          /\ row[rel].project => row'[rel].project
          /\ row[rel].snap \notin {None, "registered"} => row'[rel].snap \notin {None, "registered"}
          /\ row[rel].brief # NoBrief => row'[rel].brief # NoBrief
          /\ row'[rel].brief # row[rel].brief =>
                /\ row'[rel].snap = row[rel].snap /\ row'[rel].meta = row[rel].meta
                /\ row'[rel].project = row[rel].project]_vars

\* A failed case of run k that the stored policy lets through.
Excused(k, c) ==
    LET gate == set.policy.gates[c.crit]
        count == Cardinality({d \in run[k].saved \cup run[k].kept : Failed(d) /\ d.crit = c.crit})
    IN  c.severity # "blocker" /\ gate.enabled /\ (gate.on = "IGNORE" \/ count < gate.min)

\* A case speaks for a release: it passed without a fallback a release gate
\* forbids, or the policy lets it through.
Earned(k, c) ==
    IF c.status = "pass" THEN ~ (c.crit \in GatingCriticalities /\ "fallback" \in c.drift)
    ELSE Excused(k, c)

\* The flows a run answers for; that of an evaluation has no name.
Required(k) == IF \E c \in run[k].kept : c.flow = None THEN {None} ELSE FlowsOf[k]

AllEarned(k) ==
    \A f \in Required(k) : \E c \in run[k].saved \cup run[k].kept : c.flow = f /\ Earned(k, c)

\* A SHIP for a completed run is earned by every flow of the check, as the
\* cases stand now: answers are put together from reads that the run's own
\* writes fall between (get_test_results, get_check_status), and the brief by
\* a refresh that races the launch of the same or of another check.
ShipIsEarned ==
    /\ asked.seen.status = "completed" /\ "SHIP" \in Told => AllEarned(asked.run)
    /\ \A rel \in Releases : LET brief == row[rel].brief IN
          /\ brief # NoBrief
          /\ brief.decision = "SHIP"
          /\ run[brief.run].status = "completed"
          => AllEarned(brief.run)

\* However registrations, assessments and the briefs of several checks follow
\* one another: a brief is of the run its row links, its risk is in the band
\* of its decision, a journey it calls a blocker blocks, and the triage of the
\* release, which follows its brief to the run and the cases, finds it there.
BriefIsCoherent ==
    \A rel \in Releases : LET brief == row[rel].brief IN
        brief # NoBrief =>
            /\ brief.run = row[rel].run
            /\ brief.decision = "BLOCK" <=> brief.risk.value >= 70
            /\ brief.decision = "INVESTIGATE" => brief.risk.value \in 40..69
            /\ brief.blockers # {} =>
                  /\ brief.decision = "BLOCK"
                  /\ Triage(run[brief.run].saved).priority = "release_blocker"

\* Check j has a brief of the release still to write: its launch is under way, its
\* evaluation, or the refresh that has found the release already.
Pending(j, rel) ==
    \/ chk[j].rel = rel /\ chk[j].pc \notin {"idle", "refused", "done"}
    \/ rd[j].pc = "write" /\ rd[j].rel = rel

\* A release that shows the preliminary brief of a run under way, when no other
\* check has a brief of it still to write, comes to show what became of that run,
\* or is linked to another run, which is then that of a check nobody had asked for
\* by then; unless writing it down failed, which is logged only.  Where another
\* check is still at it nothing of the kind holds: its refresh, or its preliminary
\* brief, may come last, the release is linked to the older run again, and the
\* outcome of the newer one is never shown (refresh_release_brief_after_run then
\* finds no release that links it).
BriefComesTrue ==
    \A rel \in Releases, k \in Checks :
        (/\ row[rel].run = k /\ ~ row[rel].brief.final /\ run[k].task = "live"
         /\ \A j \in Checks \ {k} : ~ Pending(j, rel))
            ~> (\/ row[rel].run = k /\ row[rel].brief.final
                \/ row[rel].run # k
                \/ k \in lost)

\* "All flows passed. No failures detected." (reporting/results.py) and "All
\* critical journeys passed - release confidence is high." (release_check.py)
\* are what a SHIP is explained with: each flow of the run has a case that
\* passed.
ShipMeansEveryJourneyPassed ==
    \A rel \in Releases : LET brief == row[rel].brief IN
        brief.decision = "SHIP" =>
            \A f \in Required(brief.run) :
                \E c \in run[brief.run].saved \cup run[brief.run].kept : c.flow = f /\ c.status = "pass"
============================================================================
