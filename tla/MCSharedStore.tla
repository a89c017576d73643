--------------------------- MODULE MCSharedStore ---------------------------
(***************************************************************************)
(* Instances of SharedStore: which calls the clients make.                 *)
(***************************************************************************)
EXTENDS SharedStore

\* A call of each kind of group; those that write one row of a table nobody
\* else looks at are represented by the three save_... of a single row.
MCCalls ==
    {[fn |-> f, run |-> r] : f \in {"create_run_with_initial_events", "save_cases",
                                    "upsert_run_observation"}, r \in Runs}
    \cup {[fn |-> "update_run", run |-> r, status |-> "completed"] : r \in Runs}
    \cup {[fn |-> f, id |-> 0] : f \in {"save_flow", "save_site_inventory"}}
    \cup {[fn |-> "save_telemetry_signals", ids |-> <<1, 2>>], [fn |-> "init_db"]}
    \cup {[fn |-> "save_policy", id |-> p, default |-> TRUE] : p \in {1, 2}}
    \cup {[fn |-> "update_flow_step_selector", id |-> 0, step |-> "step"],
          [fn |-> "archive_old_runs", keepFailed |-> TRUE]}
============================================================================
