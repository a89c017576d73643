--------------------------- MODULE ReplayPoolProofs ---------------------------
(***************************************************************************)
(* Proofs about ReplayPool, for every request, any number of workers and   *)
(* every bound: the invariant of the pool, and that it is a CaseIntake.    *)
(***************************************************************************)
EXTENDS ReplayPool, TLAPS

USE DEF Main, NoOne, Procs, Workers, Slots, Requested, request, Goto, Back,
        Away, WorkerPcs, MainPcs, CasePcs, MainEnds

-----------------------------------------------------------------------------
(* Type correctness *)

\* The state run_flows starts in is typed.
LEMMA InitTyped == Init => TypeOK
<1> SUFFICES ASSUME Init PROVE TypeOK
  OBVIOUS
<1>1. asked \in Seq(Flows)
  BY DEF Init
<1> QED
  BY <1>1, PoolAssumption DEF Init, TypeOK

\* A worker's step between two callbacks keeps every variable in its type.
LEMMA WorkerStepTyped ==
    ASSUME TypeOK, NEW w \in Workers, WorkerStep(w)
    PROVE  TypeOK'
<1>1. CASE Take(w)
  BY <1>1 DEF TypeOK, Take
<1>2. CASE Leave(w)
  BY <1>2 DEF TypeOK, Leave
<1>3. CASE FlowEnds(w)
  BY <1>3 DEF TypeOK, FlowEnds, SetResult
<1>4. CASE FlowRaises(w)
  BY <1>4 DEF TypeOK, FlowRaises, SetResult
<1> QED
  BY <1>1, <1>2, <1>3, <1>4 DEF WorkerStep

\* So does a step of _persist_case_progress.
LEMMA CaseStepTyped ==
    ASSUME TypeOK, NEW p \in Procs, CaseStep(p)
    PROVE  TypeOK'
<1>1. CASE Note(p)
  <2>1. noted' \in SUBSET Requested'
    BY <1>1 DEF TypeOK, Note
  <2>2. lock' \in Procs \cup {NoOne} /\ pc' \in [Procs -> WorkerPcs \cup MainPcs \cup CasePcs]
    BY <1>1 DEF TypeOK, Note
  <2> QED
    BY <1>1, <2>1, <2>2 DEF TypeOK, Note
<1>2. CASE Save(p)
  <2>1. filed' \in SUBSET Requested'
    BY <1>2 DEF TypeOK, Save
  <2>2. pc' \in [Procs -> WorkerPcs \cup MainPcs \cup CasePcs]
    BY <1>2 DEF TypeOK, Save
  <2> QED
    BY <1>2, <2>1, <2>2 DEF TypeOK, Save
<1>3. CASE SaveEvents(p)
  BY <1>3 DEF TypeOK, SaveEvents
<1>4. CASE WriteCheckpoint(p)
  <2>1. payload[p] \in SUBSET Requested /\ ckpt' = payload[p] /\ asked' = asked
    BY <1>4 DEF TypeOK, WriteCheckpoint
  <2>2. pc' \in [Procs -> WorkerPcs \cup MainPcs \cup CasePcs]
    BY <1>4 DEF TypeOK, WriteCheckpoint
  <2> QED
    BY <1>4, <2>1, <2>2 DEF TypeOK, WriteCheckpoint
<1>5. CASE ClassifyRaises(p)
  BY <1>5, PoolAssumption DEF TypeOK, ClassifyRaises
<1>6. CASE StatementRaises(p)
  BY <1>6, PoolAssumption DEF TypeOK, StatementRaises
<1> QED
  BY <1>1, <1>2, <1>3, <1>4, <1>5, <1>6 DEF CaseStep

\* And a step of the coroutine that waits for the workers.
LEMMA MainStepTyped ==
    ASSUME TypeOK, MainStep \/ StopRun
    PROVE  TypeOK'
<1>1. CASE GatherReturns
  BY <1>1 DEF TypeOK, GatherReturns
<1>2. CASE PassResult
  BY <1>2 DEF TypeOK, PassResult
<1>3. CASE NoteResult
  BY <1>3 DEF TypeOK, NoteResult
<1>4. CASE CompleteRun
  BY <1>4 DEF TypeOK, CompleteRun
<1>5. CASE StopRun
  BY <1>5 DEF TypeOK, StopRun
<1> QED
  BY <1>1, <1>2, <1>3, <1>4, <1>5 DEF MainStep

LEMMA NextTyped == TypeOK /\ [Next]_vars => TypeOK'
<1> SUFFICES ASSUME TypeOK, [Next]_vars PROVE TypeOK'
  OBVIOUS
<1>1. CASE UNCHANGED vars
  BY <1>1 DEF TypeOK, vars
<1> QED
  BY <1>1, WorkerStepTyped, CaseStepTyped, MainStepTyped DEF Next

\* Every variable of the pool keeps its type, whatever is asked of it.
THEOREM PoolTyped == Spec => []TypeOK
  BY InitTyped, NextTyped, PTL DEF Spec
-----------------------------------------------------------------------------
(* The invariant of the pool *)

\* What a request fixes for good: each flow has a slot of its own.
PoolInv == TypeOK /\ Positions(positions) /\ EverySlotAccounted

USE DEF OneUnderLock, WorkersEndFirst, NoSlotLost, WorkersOutlastQueue, LoopNotesAll, Waiting,
        Replaying, InHand

\* Before the workers start every slot is in the queue (run_flows).
LEMMA InitAccounted == Init => PoolInv
<1> SUFFICES ASSUME Init PROVE PoolInv
  OBVIOUS
<1>1. TypeOK
  BY InitTyped
<1>2. OneUnderLock
  BY DEF Init, Locked
<1>3. NoSlotLost
  <2> SUFFICES ASSUME NEW i \in Slots
               PROVE  Waiting(i)
    OBVIOUS
  <2>1. PICK k \in DOMAIN order : order[k] = i
    BY DEF Init, Interleaved, Permutes
  <2>2. k \in taken + 1 .. Len(asked)
    BY <1>1, <2>1 DEF Init, TypeOK
  <2> QED
    BY <2>1, <2>2
<1>4. WorkersOutlastQueue /\ WorkersEndFirst
  BY DEF Init
<1>5. LoopNotesAll
  BY <1>1 DEF Init, TypeOK
<1> QED
  BY <1>1, <1>2, <1>3, <1>4, <1>5 DEF PoolInv, EverySlotAccounted, Init

\* A worker that takes a flow keeps its slot until there is a result for it.
LEMMA WorkerStepAccounted ==
    ASSUME PoolInv, NEW w \in Workers, WorkerStep(w)
    PROVE  PoolInv'
<1> USE DEF PoolInv
<1>1. TypeOK'
  BY WorkerStepTyped
<1>2. Positions(positions)' /\ w # Main /\ pc[Main]' = pc[Main]
  BY PoolAssumption DEF WorkerStep, Take, Leave, FlowEnds, FlowRaises, Positions, TypeOK
<1>3. OneUnderLock'
  <2>1. /\ UNCHANGED lock
        /\ \E l \in {"replay", "done", "classify", "take"} :
              pc' = [pc EXCEPT ![w] = l]
    BY DEF WorkerStep, Take, Leave, FlowEnds, FlowRaises
  <2> QED
    BY <2>1 DEF TypeOK, EverySlotAccounted, Locked
<1>3a. WorkersEndFirst'
  <2>1. pc[w] # "done"
    BY DEF WorkerStep, Take, Leave, FlowEnds, FlowRaises
  <2> QED
    BY <1>2, <2>1 DEF EverySlotAccounted
<1> SUFFICES ASSUME pc[Main] \notin {"failed", "stopped"}
             PROVE  (NoSlotLost /\ WorkersOutlastQueue /\ LoopNotesAll)'
  BY <1>1, <1>2, <1>3, <1>3a DEF EverySlotAccounted
<1>4. NoSlotLost /\ WorkersOutlastQueue /\ LoopNotesAll
  BY DEF EverySlotAccounted
<1>5. CASE Take(w)
  <2>1. NoSlotLost'
    <3> SUFFICES ASSUME NEW i \in Slots
                 PROVE  (Waiting(i) \/ Replaying(i)
                            \/ results[positions[asked[i]]] # "none")'
      BY <1>5 DEF Take
    <3>1. CASE order[taken + 1] = i
      BY <1>5, <3>1 DEF Take, TypeOK
    <3>2. CASE order[taken + 1] # i /\ Waiting(i)
      BY <1>5, <3>2 DEF Take, TypeOK
    <3>3. CASE Replaying(i)
      BY <1>5, <3>3 DEF Take, TypeOK
    <3>4. CASE results[positions[asked[i]]] # "none"
      BY <1>5, <3>4 DEF Take
    <3> QED
      BY <1>4, <3>1, <3>2, <3>3, <3>4
  <2>2. WorkersOutlastQueue' /\ LoopNotesAll'
    BY <1>2, <1>4, <1>5 DEF Take, TypeOK
  <2> QED
    BY <2>1, <2>2
<1>6. CASE Leave(w)
  BY <1>2, <1>4, <1>6 DEF Leave, TypeOK
<1>7. ASSUME FlowEnds(w) \/ FlowRaises(w)
      PROVE  (NoSlotLost /\ WorkersOutlastQueue /\ LoopNotesAll)'
  <2> DEFINE there == positions[asked[slot[w]]]
  <2>0. there \in DOMAIN results
    BY DEF TypeOK
  <2>1. /\ UNCHANGED <<asked, positions, order, taken, slot, noted, at>>
        /\ results' = [results EXCEPT ![there] = results'[there]]
        /\ results'[there] # "none"
        /\ pc[w] = "replay"
    <3>1. PICK res \in {"case", "error"} : results' = [results EXCEPT ![there] = res]
      BY <1>7 DEF FlowEnds, FlowRaises, SetResult
    <3>2. results'[there] = res
      BY <2>0, <3>1
    <3>3. res # "none"
      OBVIOUS
    <3> HIDE DEF there
    <3> QED
      BY <1>7, <3>1, <3>2, <3>3 DEF FlowEnds, FlowRaises
  <2>2. NoSlotLost'
    <3> SUFFICES ASSUME NEW i \in Slots
                 PROVE  (Waiting(i) \/ Replaying(i)
                            \/ results[positions[asked[i]]] # "none")'
      BY <2>1
    <3>1. CASE Replaying(i)
      <4>1. PICK v \in Workers : pc[v] = "replay" /\ slot[v] = i
        BY <3>1
      <4>2. CASE v = w
        BY <2>1, <4>1, <4>2
      <4>3. CASE v # w
        BY <1>7, <2>1, <4>1, <4>3 DEF FlowEnds, FlowRaises, TypeOK
      <4> QED
        BY <4>2, <4>3
    <3>2. CASE Waiting(i)
      BY <2>1, <3>2
    <3>3. CASE results[positions[asked[i]]] # "none"
      BY <2>1, <3>3 DEF TypeOK
    <3> QED
      BY <1>4, <3>1, <3>2, <3>3
  <2>3. pc[Main] = "gather" /\ at = 1
    BY <1>4, <2>1 DEF EverySlotAccounted
  <2>4. WorkersOutlastQueue'
    BY <1>2, <1>4, <1>7, <2>1, <2>3 DEF FlowEnds, FlowRaises, TypeOK
  <2>5. LoopNotesAll'
    <3>1. asked' = asked /\ at' = 1
      BY <2>1, <2>3
    <3>2. \A i \in Slots : ~(i < 1)
      BY DEF TypeOK
    <3> QED
      BY <3>1, <3>2
  <2> QED
    BY <2>2, <2>4, <2>5
<1> QED
  BY <1>5, <1>6, <1>7 DEF WorkerStep

\* A case is noted, filed and checkpointed by the coroutine with the lock.
LEMMA CaseStepAccounted ==
    ASSUME PoolInv, NEW p \in Procs, CaseStep(p)
    PROVE  PoolInv'
<1> USE DEF PoolInv
<1>1. TypeOK'
  BY CaseStepTyped
<1>2. /\ UNCHANGED <<asked, positions, order, taken, slot, results, at>>
      /\ noted \subseteq noted'
      /\ pc[p] \in CasePcs
  BY DEF CaseStep, Note, Save, SaveEvents, WriteCheckpoint, ClassifyRaises,
         StatementRaises, Locked
<1>3. OneUnderLock'
  <2>1. CASE Note(p)
    BY <2>1 DEF Note, TypeOK, EverySlotAccounted, Locked
  <2>2. CASE Save(p)
    BY <2>2 DEF Save, TypeOK, EverySlotAccounted, Locked
  <2>3. CASE SaveEvents(p)
    BY <2>3 DEF SaveEvents, TypeOK, EverySlotAccounted, Locked
  <2>4. CASE WriteCheckpoint(p)
    BY <2>4 DEF WriteCheckpoint, TypeOK, EverySlotAccounted, Locked
  <2>5. CASE ClassifyRaises(p)
    BY <2>5 DEF ClassifyRaises, TypeOK, EverySlotAccounted, Locked
  <2>6. CASE StatementRaises(p)
    BY <2>6 DEF StatementRaises, TypeOK, EverySlotAccounted, Locked
  <2> QED
    BY <2>1, <2>2, <2>3, <2>4, <2>5, <2>6 DEF CaseStep
<1>4. \E l \in CasePcs \cup {"collect", "take", "failed"} :
        pc' = [pc EXCEPT ![p] = l]
  BY DEF CaseStep, Note, Save, SaveEvents, WriteCheckpoint, ClassifyRaises,
         StatementRaises
<1>6. \A q \in Procs : \A l \in {"replay", "done", "gather"} : pc[q] = l <=> pc'[q] = l
  BY <1>2, <1>4 DEF TypeOK
<1>6a. WorkersEndFirst'
  <2>1. \A w \in Workers : pc[w] = "done" <=> pc'[w] = "done"
    BY <1>6
  <2>2. pc[Main] = "gather" <=> pc'[Main] = "gather"
    BY <1>6
  <2> QED
    BY <2>1, <2>2 DEF EverySlotAccounted
<1> SUFFICES ASSUME pc'[Main] \notin {"failed", "stopped"}
             PROVE  (NoSlotLost /\ WorkersOutlastQueue /\ LoopNotesAll)'
  BY <1>1, <1>2, <1>3, <1>6a DEF EverySlotAccounted, Positions
<1>5. NoSlotLost /\ WorkersOutlastQueue /\ LoopNotesAll
  BY <1>2, <1>4 DEF EverySlotAccounted, TypeOK
<1>7. NoSlotLost'
  BY <1>2, <1>5, <1>6
<1>8. WorkersOutlastQueue'
  <2>1. pc[Main] = "gather" <=> pc'[Main] = "gather"
    BY <1>6
  <2>2. \A w \in Workers : pc[w] = "done" <=> pc'[w] = "done"
    BY <1>6
  <2> QED
    BY <1>2, <1>5, <2>1, <2>2
<1>9. LoopNotesAll'
  <2>1. CASE p # Main
    <3>1. pc'[Main] = pc[Main]
      BY <1>4, <2>1 DEF TypeOK
    <3>2. ASSUME NEW i \in Slots, i < at, results[i] # "none"
          PROVE  asked[i] \in noted' \/ InHand(i)'
      BY <1>2, <1>5, <3>1, <3>2
    <3> QED
      BY <1>2, <3>2
  <2>2. CASE p = Main /\ Note(p)
    <3>1. noted' = noted \cup {asked[slot[Main]]} /\ UNCHANGED <<slot, asked, at, results>>
      BY <2>2 DEF Note
    <3>2. \A i \in Slots : i < at /\ results[i] # "none"
            => asked[i] \in noted \/ i = slot[Main]
      BY <1>5
    <3> QED
      BY <3>1, <3>2
  <2>3. CASE p = Main /\ ~Note(p)
    <3>1. CASE pc[Main] = "classify"
      BY <2>3, <3>1 DEF CaseStep, Save, SaveEvents, WriteCheckpoint,
         ClassifyRaises, StatementRaises, Locked, TypeOK
    <3>2. CASE pc[Main] # "classify"
      <4>1. \A i \in Slots : i < at /\ results[i] # "none" => asked[i] \in noted
        BY <1>5, <3>2
      <4> QED
        BY <1>2, <4>1
    <3> QED
      BY <3>1, <3>2
  <2> QED
    BY <2>1, <2>2, <2>3
<1> QED
  BY <1>7, <1>8, <1>9

\* The loop after the workers passes a position only when its flow is noted.
LEMMA MainStepAccounted ==
    ASSUME PoolInv, MainStep \/ StopRun
    PROVE  PoolInv'
<1> USE DEF PoolInv
<1>1. TypeOK'
  BY MainStepTyped
<1>2. Positions(positions)'
  BY DEF MainStep, GatherReturns, PassResult, NoteResult, CompleteRun, StopRun,
         Positions
<1>3. CASE StopRun
  BY <1>1, <1>2, <1>3 DEF StopRun, EverySlotAccounted, Locked, TypeOK
<1>4. CASE MainStep
  <2>1. /\ UNCHANGED <<asked, positions, order, taken, results, lock, noted>>
        /\ \A w \in Workers : pc'[w] = pc[w]
        /\ pc[Main] \in {"gather", "collect"}
        /\ pc'[Main] \in {"collect", "classify", "complete"}
    <3>1. CASE GatherReturns
      BY <3>1, PoolAssumption DEF GatherReturns, TypeOK
    <3>2. CASE PassResult
      BY <3>2 DEF PassResult
    <3>3. CASE NoteResult
      BY <3>3, PoolAssumption DEF NoteResult, TypeOK
    <3>4. CASE CompleteRun
      BY <3>4, PoolAssumption DEF CompleteRun, TypeOK
    <3> QED
      BY <1>4, <3>1, <3>2, <3>3, <3>4 DEF MainStep
  <2>2. OneUnderLock'
    BY <2>1 DEF EverySlotAccounted, Locked
  <2>3. NoSlotLost /\ WorkersOutlastQueue /\ LoopNotesAll
    BY <2>1 DEF EverySlotAccounted
  <2>4. NoSlotLost'
    <3> SUFFICES ASSUME NEW i \in Slots
                 PROVE  (Waiting(i) \/ Replaying(i)
                            \/ results[positions[asked[i]]] # "none")'
      BY <2>1
    <3>1. ASSUME Replaying(i) PROVE Replaying(i)'
      <4>1. \A w \in Workers : pc[w] = "replay" => slot'[w] = slot[w]
        BY <1>4, PoolAssumption DEF MainStep, GatherReturns, PassResult,
           NoteResult, CompleteRun, TypeOK
      <4> QED
        BY <2>1, <3>1, <4>1
    <3> QED
      BY <2>1, <2>3, <3>1
  <2>5. WorkersOutlastQueue'
    BY <2>1, <2>3
  <2>5a. WorkersEndFirst'
    <3>1. \A w \in Workers : pc[w] = "done"
      BY <1>4 DEF MainStep, GatherReturns, PassResult, NoteResult, CompleteRun,
         EverySlotAccounted
    <3> QED
      BY <2>1, <3>1
  <2>6. LoopNotesAll'
    <3>1. CASE GatherReturns \/ CompleteRun
      BY <2>1, <2>3, <3>1 DEF GatherReturns, CompleteRun
    <3>2. CASE PassResult
      BY <2>1, <2>3, <3>2 DEF PassResult, TypeOK
    <3>3. CASE NoteResult
      BY <2>1, <2>3, <3>3 DEF NoteResult, TypeOK
    <3> QED
      BY <1>4, <3>1, <3>2, <3>3 DEF MainStep
  <2> QED
    BY <1>1, <1>2, <2>2, <2>4, <2>5, <2>5a, <2>6 DEF EverySlotAccounted
<1> QED
  BY <1>3, <1>4

LEMMA NextAccounted == PoolInv /\ [Next]_vars => PoolInv'
<1> SUFFICES ASSUME PoolInv, [Next]_vars PROVE PoolInv'
  OBVIOUS
<1>1. CASE UNCHANGED vars
  BY <1>1 DEF PoolInv, TypeOK, Positions, EverySlotAccounted, vars
<1> QED
  BY <1>1, WorkerStepAccounted, CaseStepAccounted, MainStepAccounted DEF Next

LEMMA PoolInvariant == Spec => []PoolInv
  BY InitAccounted, NextAccounted, PTL DEF Spec

\* No flow gets lost between the queue, the workers, the results and the loop,
\* for any request with any repetitions, any number of workers, and whatever
\* raises (run_flows, _persist_case_progress).
THEOREM SlotsAccounted == Spec => []EverySlotAccounted
  BY PoolInvariant, PTL DEF PoolInv

-----------------------------------------------------------------------------
(* The pool is a CaseIntake *)

\* A pool that starts is an intake that starts.
LEMMA InitIsIntake == Init => Intake!Init
  BY DEF Init, Intake!Init, Filing, StageOf

\* Only the holder of the lock can be filing.
LEMMA FilingIsOne ==
    ASSUME PoolInv, NEW p \in Procs, pc[p] = "save"
    PROVE  Filing = {asked[slot[p]]}
  BY DEF PoolInv, EverySlotAccounted, Filing, Locked

\* While a worker or the loop is about to note a case, nothing is being filed.
LEMMA NothingFiled ==
    ASSUME PoolInv, lock = NoOne
    PROVE  Filing = {}
  BY DEF PoolInv, EverySlotAccounted, Filing, Locked

\* A worker between two callbacks is nothing to the intake.
LEMMA WorkerStepIsIntake ==
    ASSUME PoolInv, NEW w \in Workers, WorkerStep(w)
    PROVE  UNCHANGED Intake!vars
<1> USE DEF PoolInv
<1>1. /\ UNCHANGED <<asked, noted, filed>>
      /\ \A q \in Procs : pc[q] = "save" <=> pc'[q] = "save"
      /\ \A q \in Procs : pc[q] = "save" => slot'[q] = slot[q]
      /\ pc'[Main] = pc[Main]
  <2>1. CASE Take(w)
    BY <2>1 DEF Take, TypeOK
  <2>2. CASE Leave(w) \/ FlowEnds(w) \/ FlowRaises(w)
    <3>1. /\ UNCHANGED <<asked, noted, filed, slot>>
          /\ pc[w] # "save" /\ w # Main
          /\ \E l \in {"done", "classify", "take"} : pc' = [pc EXCEPT ![w] = l]
      BY <2>2 DEF Leave, FlowEnds, FlowRaises
    <3> QED
      BY <3>1 DEF TypeOK
  <2> QED
    BY <2>1, <2>2 DEF WorkerStep
<1>2. Filing' = Filing
  BY <1>1 DEF Filing
<1> QED
  BY <1>1, <1>2 DEF Intake!vars, StageOf

\* The callback notes, files or drops a case; the checkpoint is nothing to the
\* intake, and an exception in the loop stops it.
LEMMA CaseStepIsIntake ==
    ASSUME PoolInv, NEW p \in Procs, CaseStep(p)
    PROVE  Intake!Next \/ UNCHANGED Intake!vars
<1> USE DEF PoolInv
<1>1. StageOf(pc[Main]) = "open"
  <2>1. pc[p] \in CasePcs
    BY DEF CaseStep, Note, Save, SaveEvents, WriteCheckpoint, ClassifyRaises,
           StatementRaises, Locked
  <2> QED
    BY <2>1 DEF EverySlotAccounted, StageOf
<1>2. asked[slot[p]] \in Requested
  BY DEF TypeOK
<1>3. CASE Note(p)
  <2>1. /\ UNCHANGED <<asked, slot, filed>>
        /\ noted' = noted \cup {asked[slot[p]]}
        /\ pc' = [pc EXCEPT ![p] = "save"]
        /\ pc[p] = "classify"
    BY <1>3 DEF Note
  <2>2. Filing = {}
    BY <1>3, NothingFiled DEF Note
  <2>3. Filing' = {asked[slot[p]]}
    <3>1. \A q \in Procs : pc[q] # "save"
      BY <1>3 DEF Note, EverySlotAccounted, Locked
    <3>2. \A q \in Procs : pc'[q] = "save" <=> q = p
      BY <2>1, <3>1 DEF TypeOK
    <3> QED
      BY <2>1, <3>2 DEF Filing
  <2>4. StageOf(pc'[Main]) = "open"
    BY <1>1, <2>1 DEF StageOf, TypeOK
  <2>5. Intake!Note(asked[slot[p]])
    BY <1>1, <2>1, <2>2, <2>3, <2>4 DEF Intake!Note
  <2> QED
    BY <1>2, <2>5 DEF Intake!Next
<1>4. CASE Save(p)
  <2>1. /\ UNCHANGED <<asked, slot, noted>>
        /\ filed' = filed \cup {asked[slot[p]]}
        /\ pc' = [pc EXCEPT ![p] = "events"]
        /\ pc[p] = "save"
    BY <1>4 DEF Save
  <2>2. Filing = {asked[slot[p]]} /\ \A q \in Procs : pc[q] = "save" => q = p
    BY <2>1, FilingIsOne DEF EverySlotAccounted, Locked
  <2>3. Filing' = {}
    BY <2>1, <2>2 DEF Filing, TypeOK
  <2>4. StageOf(pc'[Main]) = "open"
    BY <1>1, <2>1 DEF StageOf, TypeOK
  <2>5. Intake!File
    BY <1>1, <2>1, <2>2, <2>3, <2>4 DEF Intake!File
  <2> QED
    BY <2>5 DEF Intake!Next
<1>5. ASSUME SaveEvents(p) \/ WriteCheckpoint(p) \/ (ClassifyRaises(p) /\ p # Main)
      PROVE  UNCHANGED Intake!vars
  <2>1. /\ UNCHANGED <<asked, slot, noted, filed>>
        /\ pc[p] # "save"
        /\ \E l \in {"ckpt", "collect", "take"} : pc' = [pc EXCEPT ![p] = l]
    BY <1>5 DEF SaveEvents, WriteCheckpoint, ClassifyRaises
  <2>2. \A q \in Procs : pc[q] = "save" <=> pc'[q] = "save"
    BY <2>1 DEF TypeOK
  <2>3. Filing' = Filing
    BY <2>1, <2>2 DEF Filing
  <2>4. StageOf(pc'[Main]) = "open"
    BY <1>1, <2>1 DEF StageOf, TypeOK
  <2> QED
    BY <1>1, <2>1, <2>3, <2>4 DEF Intake!vars
<1>6. CASE StatementRaises(p) \/ ClassifyRaises(p)
  <2>1. /\ UNCHANGED <<asked, slot, noted, filed>>
        /\ pc' = [pc EXCEPT ![p] = IF p = Main THEN "failed" ELSE "take"]
    BY <1>6 DEF StatementRaises, ClassifyRaises
  <2>2. CASE p = Main
    <3>1. Filing' = {}
      <4>1. \A w \in Workers : pc[w] # "save"
        <5>1. pc[Main] # "gather"
          BY <1>6, <2>2 DEF StatementRaises, ClassifyRaises, Locked
        <5> QED
          BY <5>1 DEF EverySlotAccounted
      <4>2. \A q \in Procs : pc'[q] # "save"
        BY <2>1, <2>2, <4>1 DEF TypeOK
      <4> QED
        BY <4>2 DEF Filing
    <3>2. StageOf(pc'[Main]) = "stopped"
      BY <2>1, <2>2 DEF StageOf, TypeOK
    <3>3. Intake!Stop
      BY <1>1, <2>1, <3>1, <3>2 DEF Intake!Stop
    <3> QED
      BY <3>3 DEF Intake!Next
  <2>3. CASE p # Main /\ pc[p] = "save"
    <3>1. Filing = {asked[slot[p]]} /\ \A q \in Procs : pc[q] = "save" => q = p
      BY <2>3, FilingIsOne DEF EverySlotAccounted, Locked
    <3>2. Filing' = {}
      BY <2>1, <2>3, <3>1 DEF Filing, TypeOK
    <3>3. StageOf(pc'[Main]) = "open"
      BY <1>1, <2>1, <2>3 DEF StageOf, TypeOK
    <3>4. Intake!Drop
      BY <1>1, <2>1, <3>1, <3>2, <3>3 DEF Intake!Drop
    <3> QED
      BY <3>4 DEF Intake!Next
  <2>4. CASE p # Main /\ pc[p] # "save"
    <3>1. \A q \in Procs : pc[q] = "save" <=> pc'[q] = "save"
      BY <2>1, <2>4 DEF TypeOK
    <3>2. Filing' = Filing
      BY <2>1, <3>1 DEF Filing
    <3>3. StageOf(pc'[Main]) = "open"
      BY <1>1, <2>1, <2>4 DEF StageOf, TypeOK
    <3> QED
      BY <1>1, <2>1, <3>2, <3>3 DEF Intake!vars
  <2> QED
    BY <2>2, <2>3, <2>4
<1> QED
  BY <1>3, <1>4, <1>5, <1>6 DEF CaseStep

\* When the loop is through, every flow of the request is noted.
LEMMA CompleteIsWhole ==
    ASSUME PoolInv, CompleteRun
    PROVE  noted = Requested
<1> USE DEF PoolInv
<1>1. /\ pc[Main] = "collect"
      /\ at > Len(asked)
      /\ NoSlotLost /\ WorkersOutlastQueue /\ LoopNotesAll
      /\ \A w \in Workers : pc[w] = "done"
  BY DEF CompleteRun, EverySlotAccounted
<1>2. ASSUME NEW i \in Slots PROVE asked[i] \in noted
  <2>1. taken = Len(asked)
    <3>1. 1 \in Workers /\ Len(asked) >= 1
      BY PoolAssumption DEF TypeOK
    <3> QED
      BY <1>1, <3>1
  <2>2. results[positions[asked[i]]] # "none"
    BY <1>1, <2>1 DEF TypeOK
  <2>3. positions[asked[i]] \in Slots /\ asked[positions[asked[i]]] = asked[i]
    BY DEF Positions, TypeOK
  <2>4. positions[asked[i]] < at
    BY <1>1, <2>3 DEF TypeOK
  <2> QED
    BY <1>1, <2>2, <2>3, <2>4
<1> QED
  BY <1>2 DEF TypeOK

\* The loop completes the intake, a cancel or a timeout stops it.
LEMMA MainStepIsIntake ==
    ASSUME PoolInv, MainStep \/ StopRun
    PROVE  Intake!Next \/ UNCHANGED Intake!vars
<1> USE DEF PoolInv
<1>1. CASE GatherReturns \/ PassResult \/ NoteResult
  <2>1. /\ UNCHANGED <<asked, noted, filed>>
        /\ \A q \in Procs : pc[q] = "save" <=> pc'[q] = "save"
        /\ \A q \in Procs : pc[q] = "save" => slot'[q] = slot[q]
        /\ pc[Main] \in {"gather", "collect"}
        /\ pc'[Main] \in {"collect", "classify"}
    BY <1>1 DEF GatherReturns, PassResult, NoteResult, TypeOK
  <2>2. Filing' = Filing
    BY <2>1 DEF Filing
  <2> QED
    BY <2>1, <2>2 DEF Intake!vars, StageOf
<1>2. CASE CompleteRun
  <2>1. /\ UNCHANGED <<asked, noted, filed, slot>>
        /\ pc[Main] = "collect"
        /\ pc' = [pc EXCEPT ![Main] = "complete"]
    BY <1>2 DEF CompleteRun
  <2>2. \A q \in Procs : pc[q] # "save" /\ pc'[q] # "save"
    <3>1. \A w \in Workers : pc[w] = "done"
      BY <2>1 DEF EverySlotAccounted
    <3> QED
      BY <2>1, <3>1 DEF TypeOK
  <2>3. Filing = {} /\ Filing' = {}
    BY <2>2 DEF Filing
  <2>4. StageOf(pc[Main]) = "open" /\ StageOf(pc'[Main]) = "complete"
    BY <2>1 DEF StageOf, TypeOK
  <2>5. Intake!Complete
    BY <1>2, <2>1, <2>3, <2>4, CompleteIsWhole DEF Intake!Complete
  <2> QED
    BY <2>5 DEF Intake!Next
<1>3. CASE StopRun
  <2>1. /\ UNCHANGED <<asked, noted, filed>>
        /\ pc[Main] \notin MainEnds
        /\ pc'[Main] = "stopped"
        /\ \A q \in Procs : pc'[q] # "save"
    BY <1>3 DEF StopRun
  <2>2. Filing' = {}
    BY <2>1 DEF Filing
  <2>3. StageOf(pc[Main]) = "open" /\ StageOf(pc'[Main]) = "stopped"
    BY <2>1 DEF StageOf
  <2>4. Intake!Stop
    BY <2>1, <2>2, <2>3 DEF Intake!Stop
  <2> QED
    BY <2>4 DEF Intake!Next
<1> QED
  BY <1>1, <1>2, <1>3 DEF MainStep

LEMMA NextIsIntake == PoolInv /\ [Next]_vars => [Intake!Next]_Intake!vars
<1> SUFFICES ASSUME PoolInv, [Next]_vars
             PROVE  Intake!Next \/ UNCHANGED Intake!vars
  OBVIOUS
<1>1. CASE UNCHANGED vars
  BY <1>1 DEF vars, Intake!vars, Filing
<1> QED
  BY <1>1, WorkerStepIsIntake, CaseStepIsIntake, MainStepIsIntake DEF Next

\* run_flows with its workers, its callback and the loop behind it takes cases
\* in as RunLifecycle assumes: one at a time, noted before filed, and complete
\* only with a case for every flow that was asked for.
THEOREM PoolIsIntake == Spec => IntakeSpec
<1>1. Spec => Intake!Init /\ [][Intake!Next]_Intake!vars
  BY InitIsIntake, NextIsIntake, PoolInvariant, PTL DEF Spec
<1> QED
  BY <1>1 DEF IntakeSpec, Intake!Spec

-----------------------------------------------------------------------------
(* The stored checkpoint *)

\* Whoever is about to write a checkpoint saw all that the stored one has: both
\* were built from noted, which only grows, and by one coroutine at a time.
PayloadsGrow ==
    /\ ckpt \subseteq noted
    /\ \A p \in Procs : pc[p] = "ckpt" => ckpt \subseteq payload[p] /\ payload[p] \subseteq noted

\* A step keeps it, and what it stores contains what was stored.
LEMMA CheckpointGrows ==
    ASSUME PoolInv, PayloadsGrow, [Next]_vars
    PROVE  PayloadsGrow' /\ ckpt \subseteq ckpt'
<1> USE DEF PoolInv, TypeOK, PayloadsGrow
<1>0. \A p, q \in Procs : pc[p] \in Locked /\ pc[q] \in Locked => p = q
  BY DEF EverySlotAccounted
<1>1. CASE UNCHANGED vars
  BY <1>1 DEF vars
<1>2. ASSUME NEW w \in Workers, WorkerStep(w)
      PROVE  PayloadsGrow' /\ ckpt \subseteq ckpt'
  BY <1>2 DEF WorkerStep, Take, Leave, FlowEnds, FlowRaises
<1>3. ASSUME NEW p \in Procs, CaseStep(p)
      PROVE  PayloadsGrow' /\ ckpt \subseteq ckpt'
  <2>1. CASE Note(p)
    BY <2>1 DEF Note
  <2>2. CASE Save(p)
    BY <2>2 DEF Save
  <2>3. CASE SaveEvents(p)
    <3>1. \A q \in Procs : pc'[q] = "ckpt" => q = p
      BY <1>0, <2>3 DEF SaveEvents, Locked
    <3>2. pc'[p] = "ckpt" => payload'[p] = noted
      BY <2>3 DEF SaveEvents
    <3> QED
      BY <2>3, <3>1, <3>2 DEF SaveEvents
  <2>4. CASE WriteCheckpoint(p)
    <3>1. \A q \in Procs : pc'[q] # "ckpt"
      BY <1>0, <2>4 DEF WriteCheckpoint, Locked
    <3> QED
      BY <2>4, <3>1 DEF WriteCheckpoint
  <2>5. CASE ClassifyRaises(p)
    BY <2>5 DEF ClassifyRaises
  <2>6. CASE StatementRaises(p)
    BY <2>6 DEF StatementRaises
  <2> QED
    BY <1>3, <2>1, <2>2, <2>3, <2>4, <2>5, <2>6 DEF CaseStep
<1>4. CASE MainStep
  BY <1>4 DEF MainStep, GatherReturns, PassResult, NoteResult, CompleteRun
<1>5. CASE StopRun
  BY <1>5 DEF StopRun
<1> QED
  BY <1>1, <1>2, <1>3, <1>4, <1>5 DEF Next

\* The stored checkpoint never forgets a flow, though several workers build and
\* write it (_persist_checkpoint under checkpoint_lock).
THEOREM CheckpointOnlyGrows == Spec => CheckpointNeverGoesBack
<1>1. Init => PayloadsGrow
  BY DEF Init, PayloadsGrow
<1>2. PoolInv /\ PayloadsGrow /\ [Next]_vars => PayloadsGrow' /\ [ckpt \subseteq ckpt']_vars
  BY CheckpointGrows
<1> QED
  BY <1>1, <1>2, PoolInvariant, PTL DEF Spec, CheckpointNeverGoesBack
=============================================================================
