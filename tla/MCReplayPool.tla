---------------------------- MODULE MCReplayPool ----------------------------
(***************************************************************************)
(* ReplayPool for TLC: three flows, two of them in one area.               *)
(***************************************************************************)
EXTENDS ReplayPool

CONSTANTS f1, f2, f3

MCFlows == {f1, f2, f3}
MCArea == [f \in MCFlows |-> IF f = f3 THEN "b" ELSE "a"]
=============================================================================
