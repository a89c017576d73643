------------------------------ MODULE FlowReplay ------------------------------
(***************************************************************************)
(* execute_flow of engine/regression.py: one recorded flow replayed step   *)
(* by step, its broken steps repaired by an agent, its assertions          *)
(* evaluated on the page it ends on, the case made of what was seen, the   *)
(* repaired locators written back, and, where that is asked for, the flow  *)
(* recorded anew.  What the application and the agents do is a choice.     *)
(***************************************************************************)
EXTENDS Integers, Sequences

CONSTANT MaxSteps       \* bound: the steps of a flow

ASSUME ReplayAssumption == MaxSteps \in Nat

\* A click, fill, select, upload or drag is an "act".
Kinds == {"navigate", "act", "wait", "assert"}
Modes == {"strict_steps", "hybrid", "goal_fallback"}

\* Of a step: "denied" is a failure whose error text names authentication.
Outcomes == {"none", "pass", "repaired", "fail", "denied"}
Failures == {"fail", "denied"}
Statuses == {"none", "pass", "fail", "blocked", "error"}
Ends == {"done", "raised"}

VARIABLES
    kinds,          \* flow.steps
    mode,           \* effective_mode
    autoRerecord,   \* auto_rerecord
    storageState,   \* whether there is a storage_state
    pc,
    at,             \* step_idx, from 1
    outcome,        \* trace.step_results, by step
    firstFail,      \* trace.step_failure_index, or 0
    nameable,       \* repaired steps with a healed_selector or healed_role
    matched,        \* history: accepted locators that matched an element
    clean,          \* no 5xx response and no required API expectation failed
    status,         \* of the case
    toHeal,         \* healed_steps not yet looked at
    healed,         \* steps whose locator was written back
    rerecorded,
    distrusted      \* its entries in the validated session cache were dropped

request == <<kinds, mode, autoRerecord, storageState>>
seen == <<outcome, firstFail, nameable, matched>>
verdict == <<clean, status, toHeal, healed, rerecorded, distrusted>>
vars == <<kinds, mode, autoRerecord, storageState, pc, at, outcome, firstFail,
          nameable, matched, clean, status, toHeal, healed, rerecorded,
          distrusted>>

Steps == 1 .. Len(kinds)

Init ==
    /\ kinds \in UNION {[1 .. n -> Kinds] : n \in 0 .. MaxSteps}
    /\ mode \in Modes
    /\ autoRerecord \in BOOLEAN
    /\ storageState \in BOOLEAN
    /\ pc = "start"
    /\ at = 1
    /\ outcome = [i \in Steps |-> "none"]
    /\ firstFail = 0
    /\ nameable = {}
    /\ matched = {}
    /\ clean = TRUE
    /\ status = "none"
    /\ toHeal = {}
    /\ healed = {}
    /\ rerecorded = FALSE
    /\ distrusted = FALSE

-----------------------------------------------------------------------------
(* The loop over the steps *)

\* A browser is leased, and its context prepared.
Begin ==
    /\ pc = "start"
    /\ mode # "goal_fallback" /\ kinds # <<>>
    /\ pc' = "step"
    /\ UNCHANGED <<request, at, seen, verdict>>

AtStep(ks) == pc = "step" /\ at <= Len(kinds) /\ kinds[at] \in ks

DeferAssert ==
    /\ AtStep({"assert"})
    /\ at' = at + 1
    /\ UNCHANGED <<request, pc, seen, verdict>>

\* step_results.append, and on with the next step.
Succeed(o) ==
    /\ outcome' = [outcome EXCEPT ![at] = o]
    /\ at' = at + 1
    /\ pc' = "step"
    /\ UNCHANGED <<request, firstFail, verdict>>

\* Mutated form of Fail: strict_steps goes on as hybrid does.
FailAndGoOn(o) ==
    /\ outcome' = [outcome EXCEPT ![at] = o]
    /\ firstFail' = IF firstFail = 0 THEN at ELSE firstFail
    /\ at' = at + 1
    /\ pc' = "step"
    /\ UNCHANGED <<request, nameable, matched, verdict>>

\* Mutated form of Fail: the last failure is taken for the first.
FailLast(o) ==
    /\ outcome' = [outcome EXCEPT ![at] = o]
    /\ firstFail' = at
    /\ IF mode = "strict_steps"
         THEN pc' = "assert" /\ UNCHANGED at
         ELSE pc' = "step" /\ at' = at + 1
    /\ UNCHANGED <<request, nameable, matched, verdict>>

\* The first failure is remembered; strict_steps leaves the loop.
Fail(o) ==
    /\ outcome' = [outcome EXCEPT ![at] = o]
    /\ firstFail' = IF firstFail = 0 THEN at ELSE firstFail
    /\ IF mode = "strict_steps"
         THEN pc' = "assert" /\ UNCHANGED at
         ELSE pc' = "step" /\ at' = at + 1
    /\ UNCHANGED <<request, nameable, matched, verdict>>

\* The page lands where it should, the time passes, or one of the recorded
\* locators is found and the action applied.
StepPasses ==
    /\ AtStep({"navigate", "wait", "act"})
    /\ Succeed("pass")
    /\ UNCHANGED <<nameable, matched>>

\* The page lands on a login page, or goto raises.
NavigateFails ==
    /\ AtStep({"navigate"})
    /\ \E o \in Failures : Fail(o)

\* No recorded locator works; only hybrid asks the agent.
LocatorsFail ==
    /\ AtStep({"act"})
    /\ IF mode = "hybrid"
         THEN pc' = "repair" /\ UNCHANGED <<request, at, seen, verdict>>
         ELSE \E o \in Failures : Fail(o)

\* Mutated form of RepairFails: the recorded locators are tried once more.
RepairTriesAgain ==
    /\ pc = "repair"
    /\ pc' = "step"
    /\ UNCHANGED <<request, at, seen, verdict>>

\* No answer, out of quota, a proposal below the thresholds of
\* _should_auto_heal, or an accepted one whose action fails.
RepairFails ==
    /\ pc = "repair"
    /\ \E o \in Failures : Fail(o)

\* An accepted proposal.  When its locator matches no element, click_by_vision
\* clicks somewhere or nowhere, and the step is repaired all the same.
RepairSucceeds ==
    /\ pc = "repair"
    /\ Succeed("repaired")
    /\ \E named, located \in BOOLEAN :
         /\ nameable' = IF named THEN nameable \cup {at} ELSE nameable
         /\ matched' = IF located THEN matched \cup {at} ELSE matched

\* BLOP_STEP_TIMEOUT_SECS, whatever the step has done so far.
StepTimesOut ==
    /\ AtStep({"navigate", "wait", "act"}) \/ pc = "repair"
    /\ Fail("fail")

EndSteps ==
    /\ pc = "step"
    /\ at > Len(kinds)
    /\ pc' = "assert"
    /\ UNCHANGED <<request, at, seen, verdict>>

-----------------------------------------------------------------------------
(* What becomes of it *)

\* deferred_asserts: the assertions the loop has come by.
Deferred == {i \in Steps : i < at /\ kinds[i] = "assert"}

\* Mutated form of EvaluateAsserts: an assertion without an answer is left out.
EvaluateSomeAsserts ==
    /\ pc = "assert"
    /\ \E good, bad \in SUBSET Deferred :
         outcome' = [i \in Steps |->
             IF i \in good THEN "pass"
             ELSE IF i \in bad THEN "fail" ELSE outcome[i]]
    /\ clean' \in BOOLEAN
    /\ pc' = "case"
    /\ UNCHANGED <<request, at, firstFail, nameable, matched, status, toHeal,
                   healed, rerecorded, distrusted>>

\* _evaluate_assertions on the last page: a check, the vision model, and when
\* neither answers, a failure.  Then the API expectations, and the lease ends.
EvaluateAsserts ==
    /\ pc = "assert"
    /\ \E good \in SUBSET Deferred :
         outcome' = [i \in Steps |->
             IF i \in good THEN "pass"
             ELSE IF i \in Deferred THEN "fail" ELSE outcome[i]]
    /\ clean' \in BOOLEAN
    /\ pc' = "case"
    /\ UNCHANGED <<request, at, firstFail, nameable, matched, status, toHeal,
                   healed, rerecorded, distrusted>>

With(os) == {i \in Steps : outcome[i] \in os}

\* Mutated form of StatusOf: only a case that failed otherwise can be blocked.
StatusByFailure ==
    IF ~clean THEN "fail"
    ELSE IF With({"denied"}) # {} THEN "blocked"
    ELSE IF With({"fail"}) # {} THEN "fail"
    ELSE "pass"

\* The status _trace_to_failure_case derives.
StatusOf ==
    IF With({"denied"}) # {} THEN "blocked"
    ELSE IF With({"fail"}) # {} \/ ~clean THEN "fail"
    ELSE "pass"

\* The case, with a repaired step among healed_steps when there is a selector or
\* a role to write back; a session that was refused is not trusted any longer.
MakeCase ==
    /\ pc = "case"
    /\ status' = StatusOf
    /\ toHeal' = With({"repaired"}) \cap nameable
    /\ distrusted' = (status' = "blocked" /\ storageState)
    /\ pc' = "heal"
    /\ UNCHANGED <<request, at, seen, clean, healed, rerecorded>>

\* update_flow_step_selector for the next of healed_steps; or it raises, or the
\* locator lacks what its type needs, and nothing is written.
HealStep ==
    /\ pc = "heal"
    /\ \E i \in toHeal :
         /\ \A j \in toHeal : i <= j
         /\ toHeal' = toHeal \ {i}
         /\ healed' \in {healed \cup {i}, healed}
    /\ UNCHANGED <<request, pc, at, seen, clean, status, rerecorded, distrusted>>

WantsRerecord ==
    autoRerecord /\ mode = "hybrid" /\ status \in {"fail", "error"}

EndHealing ==
    /\ pc = "heal"
    /\ toHeal = {}
    /\ pc' = IF WantsRerecord THEN "rerecord" ELSE "done"
    /\ UNCHANGED <<request, at, seen, verdict>>

\* Mutated form of Rerecord: with the status of the recorder.
RerecordAsRecorded ==
    /\ pc = "rerecord"
    /\ pc' = "done"
    /\ rerecorded' \in BOOLEAN
    /\ status' = IF rerecorded' THEN "recorded" ELSE status
    /\ UNCHANGED <<request, at, seen, clean, toHeal, healed, distrusted>>

\* _hard_heal_rerecord: the goal is recorded as a flow of its own.
Rerecord ==
    /\ pc = "rerecord"
    /\ pc' = "done"
    /\ rerecorded' \in BOOLEAN
    /\ status' = IF rerecorded' THEN "pass" ELSE status
    /\ UNCHANGED <<request, at, seen, clean, toHeal, healed, distrusted>>

\* _goal_fallback, with the verdict of its agent.
ReplayGoal ==
    /\ pc = "start"
    /\ mode = "goal_fallback" \/ kinds = <<>>
    /\ pc' = "done"
    /\ status' \in {"pass", "fail", "error"}
    /\ UNCHANGED <<request, at, seen, clean, toHeal, healed, rerecorded,
                   distrusted>>

\* A cancel at an await, or an exception nobody catches: of the browser pool, of
\* a wait step, of a proposal whose confidence is no number, of _goal_fallback
\* before goal_trace_path is bound.
Raise ==
    /\ pc \in {"start", "step", "repair", "assert", "heal", "rerecord"}
    /\ pc' = "raised"
    /\ UNCHANGED <<request, at, seen, verdict>>

-----------------------------------------------------------------------------

Loop ==
    \/ Begin \/ DeferAssert \/ StepPasses \/ NavigateFails \/ LocatorsFail
    \/ RepairFails \/ RepairSucceeds \/ StepTimesOut \/ EndSteps

After ==
    \/ EvaluateAsserts \/ MakeCase \/ HealStep \/ EndHealing \/ Rerecord
    \/ ReplayGoal

Next == Loop \/ After \/ Raise

Spec == Init /\ [][Next]_vars

\* Steps have a timeout, agents have a step limit, and statements return.
FairSpec == Spec /\ WF_vars(Loop \/ After)

-----------------------------------------------------------------------------
(* Properties *)

\* Every variable keeps its type.
TypeOK ==
    /\ kinds \in Seq(Kinds)
    /\ mode \in Modes
    /\ autoRerecord \in BOOLEAN
    /\ storageState \in BOOLEAN
    /\ pc \in {"start", "step", "repair", "assert", "case", "heal",
               "rerecord", "done", "raised"}
    /\ at \in 1 .. Len(kinds) + 1
    /\ outcome \in [Steps -> Outcomes]
    /\ firstFail \in 0 .. Len(kinds)
    /\ nameable \in SUBSET Steps
    /\ matched \in SUBSET Steps
    /\ clean \in BOOLEAN
    /\ status \in Statuses
    /\ toHeal \in SUBSET Steps
    /\ healed \in SUBSET Steps
    /\ rerecorded \in BOOLEAN
    /\ distrusted \in BOOLEAN

ByAgent == mode = "goal_fallback" \/ kinds = <<>>

\* A replayed flow passes only when every step of it was performed or repaired,
\* every assertion was evaluated and held, and the servers were well; the one
\* other way to a pass is to record a flow anew.
PassIsEarned ==
    pc = "done" /\ status = "pass" /\ ~ByAgent /\ ~rerecorded =>
        clean /\ With({"pass", "repaired"}) = Steps

\* strict_steps "follows saved steps exactly" (README.md:823): it performs
\* nothing after its first failed step, and neither repairs, heals nor records.
\* The same line has it "fail immediately if anything doesn't match", which is
\* more: assertions are evaluated after the last step, where one that fails is
\* no failed step and stops nothing.
StrictKeepsToSteps ==
    mode = "strict_steps" =>
        /\ With({"repaired"}) = {} /\ healed = {} /\ ~rerecorded
        /\ firstFail # 0 =>
             \A i \in Steps : i > firstFail => outcome[i] = "none"

\* A replay that met a login page or a refusal is blocked, whatever else failed:
\* its session is trusted no longer, and it is never recorded anew, because the
\* recorder would meet the same page.  No other replay costs a session its trust.
BlockedIsLeftAlone ==
    /\ pc \in {"rerecord", "done"} /\ With({"denied"}) # {} =>
         status = "blocked" /\ ~rerecorded /\ distrusted = storageState
    /\ distrusted => With({"denied"}) # {}

\* The failing step a case names is the first that failed, and no step is held
\* against a flow when only assertions, servers or the agent were.
FailureIsLocated ==
    LET failed == {i \in With(Failures) : kinds[i] # "assert"} IN
    IF firstFail = 0 THEN failed = {}
    ELSE firstFail \in failed /\ \A i \in failed : firstFail <= i

\* A replay ends.
ReplayEnds == <>(pc \in Ends)

\* "When steps are repaired successfully, healed selectors are persisted back
\* into the recorded flow" (server.py:1290): a locator that is written back has
\* been seen to match an element.
HealedLocatorsMatched == healed \subseteq matched
=============================================================================
