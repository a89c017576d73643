--------------------------- MODULE FlowReplayProofs ---------------------------
(***************************************************************************)
(* Proofs about FlowReplay, for flows of any length: type correctness and  *)
(* the four safety properties, from one inductive invariant.               *)
(***************************************************************************)
EXTENDS FlowReplay, TLAPS

-----------------------------------------------------------------------------
(* The invariant *)

Replaying == {"start", "step", "repair"}
Judged == {"heal", "rerecord"}

\* The step in the hands of the agent.
RepairInHand ==
    pc = "repair" => at <= Len(kinds) /\ kinds[at] = "act" /\ mode = "hybrid"

\* The loop has a result for each step behind it, assertions excepted, and none
\* for a step before it; at its own position there is one when it was left.
LoopInv ==
    /\ pc = "start" => at = 1
    /\ pc \in Replaying => \A i \in Steps : i >= at => outcome[i] = "none"
    /\ \A i \in Steps : i > at => outcome[i] = "none"
    /\ \A i \in Steps :
         i < at /\ kinds[i] # "assert" => outcome[i] # "none"
    /\ at \in Steps /\ outcome[at] # "none" =>
         mode = "strict_steps" /\ firstFail = at /\ outcome[at] \in Failures
    /\ mode = "strict_steps" => firstFail \in {0, at}
    /\ \A i \in Steps : outcome[i] = "repaired" => mode = "hybrid"

\* Assertions are evaluated all at once, after the loop.
AssertInv ==
    /\ pc \in Replaying \cup {"assert"} =>
         \A i \in Steps : kinds[i] = "assert" => outcome[i] = "none"
    /\ pc \in Judged \cup {"case"} \/ (pc = "done" /\ ~ByAgent) =>
         \A i \in Steps : i < at => outcome[i] # "none"
    /\ pc \in Judged \cup {"assert", "case"} \/ (pc = "done" /\ ~ByAgent) =>
         at \notin Steps \/ outcome[at] # "none"
    /\ ByAgent => /\ pc \in {"start", "done", "raised"}
                  /\ \A i \in Steps : outcome[i] = "none"

\* The case says what was seen, until a flow recorded anew replaces it.
VerdictInv ==
    /\ pc \in Replaying \cup {"assert", "case"} =>
         healed = {} /\ ~rerecorded /\ ~distrusted
    /\ pc \in Judged \/ (pc = "done" /\ ~ByAgent /\ ~rerecorded) =>
         status = StatusOf /\ distrusted = (StatusOf = "blocked" /\ storageState)
    /\ pc \in Judged => ~rerecorded
    /\ pc = "rerecord" => WantsRerecord
    /\ rerecorded => mode = "hybrid" /\ StatusOf = "fail"
    /\ distrusted => StatusOf = "blocked"
    /\ toHeal \cup healed \subseteq With({"repaired"})

ReplayInv ==
    /\ TypeOK /\ RepairInHand
    /\ LoopInv /\ AssertInv /\ FailureIsLocated /\ VerdictInv

USE DEF request, seen, verdict, Steps, Kinds, Modes, Outcomes, Failures, Statuses,
        Replaying, Judged, ByAgent, With

-----------------------------------------------------------------------------
(* It holds at first *)

\* execute_flow begins with nothing seen and nothing decided.
LEMMA InitHolds == Init => ReplayInv
<1> SUFFICES ASSUME Init PROVE ReplayInv
  OBVIOUS
<1>1. PICK n \in 0 .. MaxSteps : kinds \in [1 .. n -> Kinds]
  BY DEF Init
<1>2. n \in Nat /\ kinds \in Seq(Kinds) /\ Len(kinds) = n
  BY <1>1, ReplayAssumption
<1>3. TypeOK
  <2>1. at \in 1 .. Len(kinds) + 1 /\ firstFail \in 0 .. Len(kinds)
    BY <1>2 DEF Init
  <2>2. outcome \in [Steps -> Outcomes]
    BY DEF Init
  <2> QED
    BY <1>2, <2>1, <2>2 DEF Init, TypeOK
<1>4. RepairInHand /\ LoopInv /\ AssertInv /\ FailureIsLocated
  BY <1>2 DEF Init, RepairInHand, LoopInv, AssertInv, FailureIsLocated
<1>5. VerdictInv
  BY DEF Init, VerdictInv
<1> QED
  BY <1>3, <1>4, <1>5 DEF ReplayInv

-----------------------------------------------------------------------------
(* The loop keeps it *)

\* The two ways a step ends (step_results.append and what follows it).
LEMMA SucceedKeeps ==
    ASSUME ReplayInv, pc \in {"step", "repair"}, at \in Steps, kinds[at] # "assert",
           NEW o \in {"pass", "repaired"}, o = "repaired" => mode = "hybrid",
           Succeed(o), nameable' \in SUBSET Steps, matched' \in SUBSET Steps
    PROVE  ReplayInv'
<1> USE DEF Succeed, ReplayInv
<1>1. /\ outcome[at] = "none"
      /\ outcome' = [outcome EXCEPT ![at] = o]
      /\ outcome' \in [Steps -> Outcomes]
      /\ \A i \in Steps : i # at => outcome'[i] = outcome[i]
      /\ outcome'[at] = o /\ at' = at + 1 /\ at \in Int /\ pc' = "step"
  BY DEF TypeOK, LoopInv
<1>2. TypeOK' /\ RepairInHand'
  BY <1>1 DEF TypeOK, RepairInHand
<1>3. FailureIsLocated'
  BY <1>1 DEF FailureIsLocated, TypeOK
<1>4. LoopInv'
  <2>1. firstFail # at
    BY <1>1 DEF FailureIsLocated
  <2> QED
    BY <1>1, <2>1 DEF LoopInv, TypeOK
<1>5. AssertInv'
  BY <1>1 DEF AssertInv, TypeOK
<1>6. VerdictInv'
  <2>1. toHeal \subseteq With({"repaired"})'
    BY <1>1 DEF VerdictInv
  <2> QED
    BY <1>1, <2>1 DEF VerdictInv, StatusOf
<1> QED
  BY <1>2, <1>3, <1>4, <1>5, <1>6

LEMMA FailKeeps ==
    ASSUME ReplayInv, pc \in {"step", "repair"}, at \in Steps, kinds[at] # "assert",
           NEW o \in Failures, Fail(o)
    PROVE  ReplayInv'
<1> USE DEF Fail, ReplayInv
<1>1. /\ outcome[at] = "none"
      /\ outcome' = [outcome EXCEPT ![at] = o]
      /\ outcome' \in [Steps -> Outcomes]
      /\ \A i \in Steps : i # at => outcome'[i] = outcome[i]
      /\ outcome'[at] = o /\ at \in Int
      /\ firstFail' = IF firstFail = 0 THEN at ELSE firstFail
      /\ UNCHANGED <<request, nameable, matched, verdict>>
  BY DEF TypeOK, LoopInv
<1>2. \/ mode = "strict_steps" /\ pc' = "assert" /\ at' = at
      \/ mode # "strict_steps" /\ pc' = "step" /\ at' = at + 1
  OBVIOUS
<1>3. TypeOK' /\ RepairInHand'
  BY <1>1, <1>2 DEF TypeOK, RepairInHand
<1>4. FailureIsLocated'
  BY <1>1 DEF FailureIsLocated, LoopInv, TypeOK
<1>5. LoopInv'
  BY <1>1, <1>2 DEF LoopInv, TypeOK
<1>6. AssertInv'
  BY <1>1, <1>2 DEF AssertInv, TypeOK
<1>7. VerdictInv'
  <2>1. toHeal \subseteq With({"repaired"})'
    BY <1>1 DEF VerdictInv
  <2> QED
    BY <1>1, <1>2, <2>1 DEF VerdictInv, StatusOf
<1> QED
  BY <1>3, <1>4, <1>5, <1>6, <1>7

\* Every action of the loop: those that end a step do it by Succeed or Fail.
LEMMA LoopKeeps ==
    ASSUME ReplayInv, Loop
    PROVE  ReplayInv'
<1> USE DEF ReplayInv
<1>0. at \in Int /\ Len(kinds) \in Nat /\ (at <= Len(kinds) => at \in Steps)
  BY DEF TypeOK
<1>1. CASE Begin
  <2>1. TypeOK' /\ RepairInHand' /\ FailureIsLocated'
    BY <1>1 DEF Begin, TypeOK, RepairInHand, FailureIsLocated
  <2>2. LoopInv' /\ AssertInv' /\ VerdictInv'
    BY <1>1 DEF Begin, LoopInv, AssertInv, VerdictInv, StatusOf
  <2> QED
    BY <2>1, <2>2
<1>2. CASE DeferAssert
  <2> USE <1>2 DEF DeferAssert, AtStep
  <2>1. at \in Steps /\ outcome[at] = "none"
    BY <1>0 DEF LoopInv
  <2>2. TypeOK' /\ RepairInHand' /\ FailureIsLocated'
    BY <2>1 DEF TypeOK, RepairInHand, FailureIsLocated
  <2>3. LoopInv'
    <3>1. firstFail # at
      BY <2>1 DEF FailureIsLocated
    <3> QED
      BY <1>0, <2>1, <3>1 DEF LoopInv, TypeOK
  <2>4. AssertInv' /\ VerdictInv'
    BY DEF AssertInv, VerdictInv, StatusOf
  <2> QED
    BY <2>2, <2>3, <2>4
<1>3. CASE StepPasses
  BY <1>0, <1>3, SucceedKeeps DEF StepPasses, AtStep, TypeOK
<1>4. CASE NavigateFails
  BY <1>0, <1>4, FailKeeps DEF NavigateFails, AtStep
<1>5. CASE LocatorsFail
  <2>1. CASE mode = "hybrid"
    <3> USE <1>5, <2>1 DEF LocatorsFail, AtStep
    <3>1. TypeOK' /\ RepairInHand' /\ FailureIsLocated'
      BY DEF TypeOK, RepairInHand, FailureIsLocated
    <3>2. LoopInv' /\ AssertInv' /\ VerdictInv'
      BY DEF LoopInv, AssertInv, VerdictInv, StatusOf
    <3> QED
      BY <3>1, <3>2
  <2>2. CASE mode # "hybrid"
    BY <1>0, <1>5, <2>2, FailKeeps DEF LocatorsFail, AtStep
  <2> QED
    BY <2>1, <2>2
<1>6. CASE RepairFails
  BY <1>0, <1>6, FailKeeps DEF RepairFails, RepairInHand
<1>7. CASE RepairSucceeds
  <2>1. at \in Steps /\ kinds[at] # "assert" /\ mode = "hybrid"
    BY <1>0, <1>7 DEF RepairSucceeds, RepairInHand
  <2>2. nameable' \in SUBSET Steps /\ matched' \in SUBSET Steps
    BY <1>7, <2>1 DEF RepairSucceeds, TypeOK
  <2>3. Succeed("repaired") /\ pc = "repair"
    BY <1>7 DEF RepairSucceeds
  <2> QED
    BY <2>1, <2>2, <2>3, SucceedKeeps
<1>8. CASE StepTimesOut
  <2>1. at \in Steps /\ kinds[at] # "assert" /\ pc \in {"step", "repair"}
    BY <1>0, <1>8 DEF StepTimesOut, AtStep, RepairInHand
  <2> QED
    BY <1>8, <2>1, FailKeeps DEF StepTimesOut
<1>9. CASE EndSteps
  <2> USE <1>9 DEF EndSteps
  <2>1. TypeOK' /\ RepairInHand' /\ FailureIsLocated'
    BY DEF TypeOK, RepairInHand, FailureIsLocated
  <2>2. LoopInv' /\ AssertInv' /\ VerdictInv'
    BY <1>0 DEF LoopInv, AssertInv, VerdictInv, StatusOf
  <2> QED
    BY <2>1, <2>2
<1> QED
  BY <1>1, <1>2, <1>3, <1>4, <1>5, <1>6, <1>7, <1>8, <1>9 DEF Loop

-----------------------------------------------------------------------------
(* And so does what comes after it *)

\* The assertions behind the loop get a result, and no other step gets one.
LEMMA EvaluateKeeps ==
    ASSUME ReplayInv, EvaluateAsserts
    PROVE  ReplayInv'
<1> USE DEF ReplayInv
<1>1. /\ pc = "assert" /\ pc' = "case"
      /\ outcome' \in [Steps -> Outcomes]
      /\ \A i \in Steps : i \notin Deferred => outcome'[i] = outcome[i]
      /\ \A i \in Deferred : outcome'[i] \in {"pass", "fail"}
      /\ clean' \in BOOLEAN
      /\ UNCHANGED <<request, at, firstFail, nameable, matched, status, toHeal,
                     healed, rerecorded, distrusted>>
  BY DEF EvaluateAsserts, TypeOK, Deferred
<1>2. \A i \in Deferred : i \in Steps /\ i < at /\ kinds[i] = "assert" /\ outcome[i] = "none"
  BY <1>1 DEF Deferred, AssertInv
<1>3. \A i \in Steps : i < at /\ kinds[i] = "assert" => i \in Deferred
  BY DEF Deferred
<1>4. TypeOK' /\ RepairInHand'
  BY <1>1 DEF TypeOK, RepairInHand
<1>5. FailureIsLocated'
  BY <1>1, <1>2 DEF FailureIsLocated
<1>6. at \in Int /\ \A i \in Steps : i \in Int
  BY DEF TypeOK
<1>7. LoopInv'
  <2>1. at \notin Deferred /\ \A i \in Steps : i > at => i \notin Deferred
    BY <1>2, <1>6
  <2>2. \A i \in Steps : i > at => outcome'[i] = "none"
    BY <1>1, <2>1 DEF LoopInv
  <2>3. \A i \in Steps : i < at /\ kinds[i] # "assert" => outcome'[i] # "none"
    BY <1>1, <1>2 DEF LoopInv
  <2>4. at \in Steps => outcome'[at] = outcome[at]
    BY <1>1, <2>1
  <2>5. \A i \in Steps : outcome'[i] = "repaired" => outcome[i] = "repaired"
    BY <1>1
  <2> QED
    BY <1>1, <2>2, <2>3, <2>4, <2>5 DEF LoopInv
<1>8. AssertInv'
  <2>1. \A i \in Steps : i < at => outcome'[i] # "none"
    BY <1>1, <1>3 DEF LoopInv
  <2>2. at \notin Steps \/ outcome'[at] # "none"
    BY <1>1, <1>2, <1>6 DEF AssertInv
  <2>3. ~ByAgent
    BY <1>1 DEF AssertInv
  <2> QED
    BY <1>1, <2>1, <2>2, <2>3 DEF AssertInv
<1>9. VerdictInv'
  <2>1. toHeal \subseteq With({"repaired"})'
    BY <1>1, <1>2 DEF VerdictInv
  <2> QED
    BY <1>1, <2>1 DEF VerdictInv
<1> QED
  BY <1>4, <1>5, <1>7, <1>8, <1>9

\* What the loop has seen does not change any more.
LEMMA SeenKeeps ==
    ASSUME ReplayInv, UNCHANGED <<request, at, seen>>,
           pc \in Judged \cup {"case"}, pc' \in Judged \cup {"done", "raised"}
    PROVE  RepairInHand' /\ LoopInv' /\ AssertInv' /\ FailureIsLocated'
<1> USE DEF ReplayInv
<1>1. RepairInHand' /\ FailureIsLocated'
  BY DEF RepairInHand, FailureIsLocated
<1>2. LoopInv'
  BY DEF LoopInv
<1>3. AssertInv'
  BY DEF AssertInv
<1> QED
  BY <1>1, <1>2, <1>3

LEMMA AfterKeeps ==
    ASSUME ReplayInv, After
    PROVE  ReplayInv'
<1> USE DEF ReplayInv
<1>1. CASE EvaluateAsserts
  BY <1>1, EvaluateKeeps
<1>2. CASE MakeCase
  <2> USE <1>2 DEF MakeCase
  <2>1. UNCHANGED <<request, at, seen, clean>>
    OBVIOUS
  <2>2. StatusOf' = StatusOf /\ StatusOf \in Statuses
    BY <2>1 DEF StatusOf
  <2>3. TypeOK'
    BY <2>1, <2>2 DEF TypeOK
  <2>4. RepairInHand' /\ LoopInv' /\ AssertInv' /\ FailureIsLocated'
    BY <2>1, SeenKeeps
  <2>5. VerdictInv'
    <3>1. toHeal' \cup healed' \subseteq With({"repaired"})'
      BY <2>1 DEF VerdictInv
    <3>2. pc = "case" /\ pc' = "heal" /\ healed' = {} /\ ~rerecorded'
      BY DEF VerdictInv
    <3>3. status' = StatusOf' /\ distrusted' = (StatusOf' = "blocked" /\ storageState')
      BY <2>1, <2>2
    <3> HIDE DEF With
    <3> QED
      BY <3>1, <3>2, <3>3 DEF VerdictInv
  <2> QED
    BY <2>3, <2>4, <2>5
<1>3. CASE HealStep
  <2> USE <1>3 DEF HealStep
  <2>1. PICK i \in toHeal : /\ toHeal' = toHeal \ {i}
                            /\ healed' \in {healed \cup {i}, healed}
    OBVIOUS
  <2>2. TypeOK'
    BY <2>1 DEF TypeOK
  <2>3. RepairInHand' /\ LoopInv' /\ AssertInv' /\ FailureIsLocated'
    BY SeenKeeps
  <2>4. VerdictInv'
    BY <2>1 DEF VerdictInv, StatusOf
  <2> QED
    BY <2>2, <2>3, <2>4
<1>4. CASE EndHealing
  <2> USE <1>4 DEF EndHealing
  <2>1. TypeOK'
    BY DEF TypeOK
  <2>2. RepairInHand' /\ LoopInv' /\ AssertInv' /\ FailureIsLocated'
    BY SeenKeeps
  <2>3. VerdictInv'
    BY DEF VerdictInv, StatusOf, WantsRerecord
  <2> QED
    BY <2>1, <2>2, <2>3
<1>5. CASE Rerecord
  <2> USE <1>5 DEF Rerecord
  <2>1. TypeOK'
    BY DEF TypeOK
  <2>2. RepairInHand' /\ LoopInv' /\ AssertInv' /\ FailureIsLocated'
    BY SeenKeeps
  <2>3. mode = "hybrid" /\ StatusOf = "fail"
    BY DEF VerdictInv, WantsRerecord, StatusOf
  <2>4. VerdictInv'
    BY <2>3 DEF VerdictInv, StatusOf
  <2> QED
    BY <2>1, <2>2, <2>4
<1>6. CASE ReplayGoal
  <2> USE <1>6 DEF ReplayGoal
  <2>1. TypeOK' /\ RepairInHand' /\ FailureIsLocated'
    BY DEF TypeOK, RepairInHand, FailureIsLocated
  <2>2. LoopInv' /\ AssertInv'
    BY DEF LoopInv, AssertInv
  <2>3. VerdictInv'
    BY DEF VerdictInv, StatusOf
  <2> QED
    BY <2>1, <2>2, <2>3
<1> QED
  BY <1>1, <1>2, <1>3, <1>4, <1>5, <1>6 DEF After

\* A replay that raises leaves everything as it is.
LEMMA RaiseKeeps ==
    ASSUME ReplayInv, Raise
    PROVE  ReplayInv'
<1> USE DEF ReplayInv, Raise
<1>1. TypeOK' /\ RepairInHand' /\ FailureIsLocated'
  BY DEF TypeOK, RepairInHand, FailureIsLocated
<1>2. LoopInv' /\ AssertInv'
  BY DEF LoopInv, AssertInv
<1>3. VerdictInv'
  BY DEF VerdictInv, StatusOf
<1> QED
  BY <1>1, <1>2, <1>3

LEMMA NextKeeps == ReplayInv /\ [Next]_vars => ReplayInv'
<1> SUFFICES ASSUME ReplayInv, [Next]_vars PROVE ReplayInv'
  OBVIOUS
<1>1. CASE UNCHANGED vars
  BY <1>1 DEF vars, ReplayInv, TypeOK, RepairInHand, LoopInv, AssertInv, FailureIsLocated,
              VerdictInv, StatusOf, WantsRerecord
<1> QED
  BY <1>1, LoopKeeps, AfterKeeps, RaiseKeeps DEF Next

LEMMA ReplayInvariant == Spec => []ReplayInv
  BY InitHolds, NextKeeps, PTL DEF Spec

-----------------------------------------------------------------------------
(* What follows from it *)

\* Every variable keeps its type, for flows of any length.
THEOREM ReplayTyped == Spec => []TypeOK
<1>1. ReplayInv => TypeOK
  BY DEF ReplayInv
<1> QED
  BY <1>1, ReplayInvariant, PTL

\* A pass has been earned by every step, assertion and server, or is that of a
\* flow recorded anew (_trace_to_failure_case, execute_flow).
THEOREM PassesAreEarned == Spec => []PassIsEarned
<1>1. ReplayInv => PassIsEarned
  <2> SUFFICES ASSUME ReplayInv, pc = "done", status = "pass", ~ByAgent, ~rerecorded
               PROVE  clean /\ With({"pass", "repaired"}) = Steps
    BY DEF PassIsEarned
  <2>1. StatusOf = "pass"
    BY DEF ReplayInv, VerdictInv
  <2>2. clean /\ \A i \in Steps : outcome[i] \notin Failures
    BY <2>1 DEF StatusOf
  <2>3. \A i \in Steps : outcome[i] # "none"
    <3>1. at \notin Steps
      BY <2>2 DEF ReplayInv, AssertInv, LoopInv
    <3>2. \A i \in Steps : i < at
      BY <3>1 DEF ReplayInv, TypeOK
    <3> QED
      BY <3>2 DEF ReplayInv, AssertInv
  <2> QED
    BY <2>2, <2>3 DEF ReplayInv, TypeOK
<1> QED
  BY <1>1, ReplayInvariant, PTL

\* strict_steps performs nothing after its first failure and changes no flow.
THEOREM StrictIsStrict == Spec => []StrictKeepsToSteps
<1>1. ReplayInv => StrictKeepsToSteps
  <2> SUFFICES ASSUME ReplayInv, mode = "strict_steps"
               PROVE  /\ With({"repaired"}) = {} /\ healed = {} /\ ~rerecorded
                      /\ firstFail # 0 =>
                           \A i \in Steps : i > firstFail => outcome[i] = "none"
    BY DEF StrictKeepsToSteps
  <2>1. With({"repaired"}) = {}
    BY DEF ReplayInv, LoopInv
  <2>2. healed = {} /\ ~rerecorded
    BY <2>1 DEF ReplayInv, VerdictInv
  <2> QED
    BY <2>1, <2>2 DEF ReplayInv, LoopInv
<1> QED
  BY <1>1, ReplayInvariant, PTL

\* A replay that met authentication is blocked, distrusts its session, and is not
\* recorded anew.
THEOREM BlockedStaysBlocked == Spec => []BlockedIsLeftAlone
<1>1. ReplayInv => BlockedIsLeftAlone
  <2> SUFFICES ASSUME ReplayInv PROVE BlockedIsLeftAlone
    OBVIOUS
  <2>1. distrusted => With({"denied"}) # {}
    BY DEF ReplayInv, VerdictInv, StatusOf
  <2>2. ASSUME pc \in {"rerecord", "done"}, With({"denied"}) # {}
        PROVE  status = "blocked" /\ ~rerecorded /\ distrusted = storageState
    <3>1. StatusOf = "blocked"
      BY <2>2 DEF StatusOf
    <3>2. ~ByAgent
      BY <2>2 DEF ReplayInv, AssertInv
    <3>3. ~rerecorded
      BY <3>1 DEF ReplayInv, VerdictInv
    <3> HIDE DEF ByAgent, With
    <3>4. status = StatusOf /\ distrusted = (StatusOf = "blocked" /\ storageState)
      BY <2>2, <3>2, <3>3 DEF ReplayInv, VerdictInv
    <3>5. distrusted \in BOOLEAN /\ storageState \in BOOLEAN
      BY DEF ReplayInv, TypeOK
    <3> QED
      BY <3>1, <3>3, <3>4, <3>5
  <2> QED
    BY <2>1, <2>2 DEF BlockedIsLeftAlone
<1> QED
  BY <1>1, ReplayInvariant, PTL

\* The failing step a case names is the first one.
THEOREM FailuresAreLocated == Spec => []FailureIsLocated
<1>1. ReplayInv => FailureIsLocated
  BY DEF ReplayInv
<1> QED
  BY <1>1, ReplayInvariant, PTL
=============================================================================
