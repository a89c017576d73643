------------------------------ MODULE ReplayPool ------------------------------
(***************************************************************************)
(* run_flows of engine/regression.py with its callback                     *)
(* _persist_case_progress of tools/regression.py: workers take flows from  *)
(* a queue that alternates between the areas of the application, and note, *)
(* file and checkpoint each case under checkpoint_lock; then the cases the *)
(* callback did not note are noted one after another.                      *)
(*                                                                         *)
(* A slot is a position in the list of flows.  A flow id may be repeated   *)
(* in it (get_flows returns a flow for each id it is given).  What a       *)
(* replay does is FlowEnds and FlowRaises.                                 *)
(***************************************************************************)
EXTENDS Integers, FiniteSets, Sequences

CONSTANTS
    Flows,          \* ids of recorded flows
    area,           \* _flow_entry_area_key of each
    Concurrency,    \* BLOP_REPLAY_CONCURRENCY, or its default of 3 or 5
    Durable,        \* BLOP_DURABILITY_MODE # "exit"
    MaxSlots,       \* bound: the flows of a run, repeated ones counted
    MaxFaults       \* bound: how often the classifier or a statement raises

ASSUME PoolAssumption ==
    /\ Concurrency \in Nat \ {0}
    /\ Durable \in BOOLEAN
    /\ MaxSlots \in Nat
    /\ MaxFaults \in Nat

\* The coroutine that called run_flows; the workers are numbered from 1.
Main == 0
Workers == 1 .. Concurrency
Procs == Workers \cup {Main}
NoOne == -1

VARIABLES
    asked,          \* the flows of the run
    positions,      \* original_positions
    order,          \* ordered_flows, as slots
    taken,          \* how many have left the queue
    pc, slot,       \* of each coroutine
    results,        \* for each slot: nothing, a case, or an exception
    lock,           \* who holds checkpoint_lock
    noted,          \* classified_by_flow
    filed,          \* the run_cases table
    payload,        \* the checkpoint each coroutine is writing
    ckpt,           \* completed_flow_ids of the stored checkpoint
    at,             \* the next result to look at, after the workers
    faults

request == <<asked, positions, order>>
vars == <<asked, positions, order, taken, pc, slot, results, lock, noted,
          filed, payload, ckpt, at, faults>>

Slots == DOMAIN asked
Requested == {asked[i] : i \in Slots}

WorkerPcs == {"take", "replay", "done"}
MainPcs == {"gather", "collect", "complete", "failed", "stopped"}
CasePcs == {"classify", "save", "events", "ckpt"}
Locked == {"save", "events", "ckpt"}
MainEnds == {"complete", "failed", "stopped"}

-----------------------------------------------------------------------------
(* The order of the queue *)

AreaOf(i) == area[asked[i]]

\* How many flows of its area stand before slot i.
Rank(i) == Cardinality({j \in Slots : j < i /\ AreaOf(j) = AreaOf(i)})

\* The area of slot i turns up in the list before that of slot j.
AreaFirst(i, j) ==
    \E k \in Slots : /\ AreaOf(k) = AreaOf(i)
                     /\ \A l \in Slots : AreaOf(l) = AreaOf(j) => k < l

Before(i, j) == Rank(i) < Rank(j) \/ (Rank(i) = Rank(j) /\ AreaFirst(i, j))

\* o is a permutation of the slots.
Permutes(o) == \A i \in Slots : \E k \in DOMAIN o : o[k] = i

\* _interleave_flows_by_entry_area: round robin over the areas in the order in
\* which they turn up, the flows of an area in the order of the list.
Interleaved(o) ==
    /\ Permutes(o)
    /\ \A k, l \in DOMAIN o : k < l => ~Before(o[l], o[k])

\* original_positions: the last slot of each flow.
Positions(p) ==
    \A f \in Requested :
        asked[p[f]] = f /\ \A i \in Slots : asked[i] = f => i <= p[f]

Init ==
    /\ asked \in UNION {[1 .. n -> Flows] : n \in 1 .. MaxSlots}
    /\ positions \in [Requested -> Slots]
    /\ Positions(positions)
    /\ order \in [Slots -> Slots]
    /\ Interleaved(order)
    /\ taken = 0
    /\ pc = [p \in Procs |->
                IF p = Main THEN "gather"
                ELSE IF p <= Len(asked) THEN "take" ELSE "done"]
    /\ slot = [p \in Procs |-> 1]
    /\ results = [i \in Slots |-> "none"]
    /\ lock = NoOne
    /\ noted = {}
    /\ filed = {}
    /\ payload = [p \in Procs |-> {}]
    /\ ckpt = {}
    /\ at = 1
    /\ faults = 0

-----------------------------------------------------------------------------
(* run_one *)

Goto(p, l) == pc' = [pc EXCEPT ![p] = l]

Take(w) ==
    /\ pc[w] = "take"
    /\ taken < Len(asked)
    /\ taken' = taken + 1
    /\ slot' = [slot EXCEPT ![w] = order[taken + 1]]
    /\ Goto(w, "replay")
    /\ UNCHANGED <<request, results, lock, noted, filed, payload, ckpt, at,
                   faults>>

\* get_nowait raises QueueEmpty.
Leave(w) ==
    /\ pc[w] = "take"
    /\ taken = Len(asked)
    /\ Goto(w, "done")
    /\ UNCHANGED <<request, taken, slot, results, lock, noted, filed, payload,
                   ckpt, at, faults>>

SetResult(w, res) ==
    results' = [results EXCEPT ![positions[asked[slot[w]]]] = res]

\* execute_flow returns a case, and the callback is called.
FlowEnds(w) ==
    /\ pc[w] = "replay"
    /\ SetResult(w, "case")
    /\ Goto(w, "classify")
    /\ UNCHANGED <<request, taken, slot, lock, noted, filed, payload, ckpt, at,
                   faults>>

\* Mutated form of FlowRaises: the exception is logged, and no result left.
FlowRaisesUnseen(w) ==
    /\ pc[w] = "replay"
    /\ Goto(w, "take")
    /\ UNCHANGED <<request, taken, slot, results, lock, noted, filed, payload,
                   ckpt, at, faults>>

\* Mutated form of FlowRaises: the exception itself among the results.
FlowRaisesRaw(w) ==
    /\ pc[w] = "replay"
    /\ SetResult(w, "exception")
    /\ Goto(w, "take")
    /\ UNCHANGED <<request, taken, slot, lock, noted, filed, payload, ckpt, at,
                   faults>>

\* execute_flow raises: run_flows makes an orchestration_error case of it.
FlowRaises(w) ==
    /\ pc[w] = "replay"
    /\ SetResult(w, "error")
    /\ Goto(w, "take")
    /\ UNCHANGED <<request, taken, slot, lock, noted, filed, payload, ckpt, at,
                   faults>>

-----------------------------------------------------------------------------
(* _persist_case_progress, called by a worker or after the workers *)

\* Where a coroutine goes on when it returns, and when it raises: run_one logs
\* the exception, in _run_and_persist it fails the run.
Back(p) == IF p = Main THEN "collect" ELSE "take"
Away(p) == IF p = Main THEN "failed" ELSE "take"

\* Mutated form of Note: without checkpoint_lock.
NoteUnlocked(p) ==
    /\ pc[p] = "classify"
    /\ noted' = noted \cup {asked[slot[p]]}
    /\ Goto(p, "save")
    /\ UNCHANGED <<request, taken, slot, results, lock, filed, payload, ckpt,
                   at, faults>>

\* classify_case has returned and the lock is free.
Note(p) ==
    /\ pc[p] = "classify"
    /\ lock = NoOne
    /\ lock' = p
    /\ noted' = noted \cup {asked[slot[p]]}
    /\ Goto(p, "save")
    /\ UNCHANGED <<request, taken, slot, results, filed, payload, ckpt, at,
                   faults>>

\* save_cases.
Save(p) ==
    /\ pc[p] = "save"
    /\ filed' = filed \cup {asked[slot[p]]}
    /\ Goto(p, "events")
    /\ UNCHANGED <<request, taken, slot, results, lock, noted, payload, ckpt,
                   at, faults>>

\* save_run_health_events; then _build_checkpoint_payload, in a durable mode.
SaveEvents(p) ==
    /\ pc[p] = "events"
    /\ Goto(p, IF Durable THEN "ckpt" ELSE Back(p))
    /\ lock' = IF Durable THEN lock ELSE NoOne
    /\ payload' = [payload EXCEPT ![p] = IF Durable THEN noted ELSE {}]
    /\ UNCHANGED <<request, taken, slot, results, noted, filed, ckpt, at,
                   faults>>

\* upsert_run_observation, and the lock is released.
WriteCheckpoint(p) ==
    /\ pc[p] = "ckpt"
    /\ ckpt' = payload[p]
    /\ lock' = NoOne
    /\ Goto(p, Back(p))
    /\ UNCHANGED <<request, taken, slot, results, noted, filed, payload, at,
                   faults>>

ClassifyRaises(p) ==
    /\ pc[p] = "classify"
    /\ faults < MaxFaults
    /\ faults' = faults + 1
    /\ Goto(p, Away(p))
    /\ UNCHANGED <<request, taken, slot, results, lock, noted, filed, payload,
                   ckpt, at>>

\* Mutated form of StatementRaises: acquire and release without a finally.
StatementRaisesLocked(p) ==
    /\ pc[p] \in Locked
    /\ faults < MaxFaults
    /\ faults' = faults + 1
    /\ Goto(p, Away(p))
    /\ UNCHANGED <<request, taken, slot, results, lock, noted, filed, payload,
                   ckpt, at>>

\* A statement under the lock raises, and "async with" releases it.
StatementRaises(p) ==
    /\ pc[p] \in Locked
    /\ faults < MaxFaults
    /\ faults' = faults + 1
    /\ lock' = NoOne
    /\ Goto(p, Away(p))
    /\ UNCHANGED <<request, taken, slot, results, noted, filed, payload, ckpt,
                   at>>

-----------------------------------------------------------------------------
(* run_flows after its gather, and the loop over the cases it returns *)

GatherReturns ==
    /\ pc[Main] = "gather"
    /\ \A w \in Workers : pc[w] = "done"
    /\ Goto(Main, "collect")
    /\ UNCHANGED <<request, taken, slot, results, lock, noted, filed, payload,
                   ckpt, at, faults>>

\* No case at this position, or its flow is noted.
PassResult ==
    /\ pc[Main] = "collect"
    /\ at <= Len(asked)
    /\ results[at] = "none" \/ asked[at] \in noted
    /\ at' = at + 1
    /\ UNCHANGED <<request, taken, pc, slot, results, lock, noted, filed,
                   payload, ckpt, faults>>

\* A case the callback did not note.
NoteResult ==
    /\ pc[Main] = "collect"
    /\ at <= Len(asked)
    /\ results[at] # "none" /\ asked[at] \notin noted
    /\ slot' = [slot EXCEPT ![Main] = at]
    /\ at' = at + 1
    /\ Goto(Main, "classify")
    /\ UNCHANGED <<request, taken, results, lock, noted, filed, payload, ckpt,
                   faults>>

CompleteRun ==
    /\ pc[Main] = "collect"
    /\ at > Len(asked)
    /\ Goto(Main, "complete")
    /\ UNCHANGED <<request, taken, slot, results, lock, noted, filed, payload,
                   ckpt, at, faults>>

\* The task is cancelled or wait_for times out: gather cancels the workers and
\* waits for them, and what they were doing is left as it is.
StopRun ==
    /\ pc[Main] \notin MainEnds
    /\ pc' = [p \in Procs |-> IF p = Main THEN "stopped" ELSE "done"]
    /\ lock' = NoOne
    /\ UNCHANGED <<request, taken, slot, results, noted, filed, payload, ckpt,
                   at, faults>>

-----------------------------------------------------------------------------

WorkerStep(w) == Take(w) \/ Leave(w) \/ FlowEnds(w) \/ FlowRaises(w)

CaseStep(p) ==
    \/ Note(p) \/ Save(p) \/ SaveEvents(p) \/ WriteCheckpoint(p)
    \/ ClassifyRaises(p) \/ StatementRaises(p)

MainStep == GatherReturns \/ PassResult \/ NoteResult \/ CompleteRun

Next ==
    \/ \E w \in Workers : WorkerStep(w)
    \/ \E p \in Procs : CaseStep(p)
    \/ MainStep
    \/ StopRun

Spec == Init /\ [][Next]_vars

\* A replay ends (every step and agent has a timeout), a classifier and a
\* statement return or raise, and asyncio.Lock lets the waiting coroutines in
\* one after another.
FairSpec ==
    /\ Spec
    /\ \A w \in Workers : WF_vars(WorkerStep(w) \/ CaseStep(w))
    /\ WF_vars(MainStep \/ CaseStep(Main))

-----------------------------------------------------------------------------
(* Properties *)

\* Every variable keeps its type.
TypeOK ==
    /\ asked \in Seq(Flows)
    /\ positions \in [Requested -> Slots]
    /\ order \in [Slots -> Slots]
    /\ taken \in 0 .. Len(asked)
    /\ pc \in [Procs -> WorkerPcs \cup MainPcs \cup CasePcs]
    /\ slot \in [Procs -> Slots]
    /\ results \in [Slots -> {"none", "case", "error"}]
    /\ lock \in Procs \cup {NoOne}
    /\ noted \in SUBSET Requested
    /\ filed \in SUBSET Requested
    /\ payload \in [Procs -> SUBSET Requested]
    /\ ckpt \in SUBSET Requested
    /\ at \in 1 .. Len(asked) + 1
    /\ faults \in 0 .. MaxFaults

\* The flow whose row is being written.
Filing == {asked[slot[p]] : p \in {q \in Procs : pc[q] = "save"}}

StageOf(l) ==
    CASE l = "complete" -> "complete"
      [] l \in {"failed", "stopped"} -> "stopped"
      [] OTHER -> "open"

Intake == INSTANCE CaseIntake WITH
    asked <- Requested, stage <- StageOf(pc[Main]), filing <- Filing

\* The pool of workers and the loop after it are together a CaseIntake: one case
\* at a time, noted before it is filed, and a run that ends normally has a case
\* for every flow it was asked for, whatever raised or was repeated.
IntakeSpec == Intake!Spec

\* The inductive invariant behind it.  A slot is in the queue, with a worker, or
\* its flow has a result; the workers leave when the queue is empty, and the loop
\* starts when all have left; it passes a position only when its flow is noted;
\* who notes, files and checkpoints holds the lock.
Waiting(i) == \E k \in taken + 1 .. Len(asked) : order[k] = i
Replaying(i) == \E w \in Workers : pc[w] = "replay" /\ slot[w] = i
InHand(i) == pc[Main] = "classify" /\ slot[Main] = i

NoSlotLost ==
    \A i \in Slots :
        Waiting(i) \/ Replaying(i) \/ results[positions[asked[i]]] # "none"

WorkersOutlastQueue ==
    /\ \A w \in Workers : pc[w] = "done" => taken = Len(asked) \/ w > Len(asked)
    /\ pc[Main] = "gather" => at = 1

WorkersEndFirst == pc[Main] # "gather" => \A w \in Workers : pc[w] = "done"

LoopNotesAll ==
    \A i \in Slots : i < at /\ results[i] # "none"
        => asked[i] \in noted \/ InHand(i)

OneUnderLock == \A p \in Procs : pc[p] \in Locked => lock = p

EverySlotAccounted ==
    /\ OneUnderLock
    /\ WorkersEndFirst
    /\ pc[Main] \notin {"failed", "stopped"} =>
         NoSlotLost /\ WorkersOutlastQueue /\ LoopNotesAll

\* The stored checkpoint never forgets a flow, though several workers build and
\* write it, each from what it saw.
CheckpointNeverGoesBack == [][ckpt \subseteq ckpt']_vars

\* The replay of a run ends.
PoolEnds == <>(pc[Main] \in MainEnds)
=============================================================================
