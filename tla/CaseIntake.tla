------------------------------ MODULE CaseIntake ------------------------------
(***************************************************************************)
(* What _run_and_persist relies on while its flows are replayed, whoever   *)
(* replays them: cases come in one at a time, each is noted in             *)
(* classified_by_flow before its row is written, and the intake is         *)
(* complete only when every flow has a case.  RunLifecycle takes the       *)
(* replay to be this (NoteCase, SaveCase, DropCase, CompleteRun);          *)
(* ReplayPool is the code that has to keep it.                             *)
(***************************************************************************)
VARIABLES
    asked,          \* the flows of the run
    stage,          \* "open", "complete" or "stopped"
    noted,          \* flows with a case in classified_by_flow
    filing,         \* the flow whose row is being written, or {}
    filed           \* flows with a row in run_cases

vars == <<asked, stage, noted, filing, filed>>

Init ==
    /\ stage = "open"
    /\ noted = {}
    /\ filing = {}
    /\ filed = {}

\* A flow that is in the request twice is noted twice.
Note(f) ==
    /\ stage = "open"
    /\ filing = {}
    /\ noted' = noted \cup {f}
    /\ filing' = {f}
    /\ UNCHANGED <<asked, stage, filed>>

File ==
    /\ stage = "open"
    /\ filing # {}
    /\ filed' = filed \cup filing
    /\ filing' = {}
    /\ UNCHANGED <<asked, stage, noted>>

\* The statement raised: the case stays noted, without a row.
Drop ==
    /\ stage = "open"
    /\ filing # {}
    /\ filing' = {}
    /\ UNCHANGED <<asked, stage, noted, filed>>

Complete ==
    /\ stage = "open"
    /\ filing = {}
    /\ noted = asked
    /\ stage' = "complete"
    /\ UNCHANGED <<asked, noted, filing, filed>>

\* A cancel, a timeout or an exception.
Stop ==
    /\ stage = "open"
    /\ stage' = "stopped"
    /\ filing' = {}
    /\ UNCHANGED <<asked, noted, filed>>

Next == (\E f \in asked : Note(f)) \/ File \/ Drop \/ Complete \/ Stop

Spec == Init /\ [][Next]_vars
=============================================================================
