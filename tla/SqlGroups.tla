----------------------------- MODULE SqlGroups -----------------------------
(***************************************************************************)
(* The statement groups of storage/sqlite.py.  Each storage function that  *)
(* writes is a sequence of statements, with an await at each of them; a    *)
(* statement is a record, a database is a function from table names to     *)
(* sets of rows.  A row is its primary key, the run it belongs to and the  *)
(* one value of its content that anything here tells apart.                *)
(*                                                                         *)
(* Who runs the statements, under which lock and in which transaction, is  *)
(* the business of SharedStore.                                            *)
(***************************************************************************)
EXTENDS Integers, Sequences, FiniteSets, SequencesExt

CONSTANTS
    Runs,           \* run ids
    OldRuns,        \* the runs that started before the archive's cutoff
    Columns,        \* number of versioned migrations (28 in the code)
    FreshColumns    \* those whose column CREATE TABLE already has

ASSUME GroupsAssumption ==
    /\ OldRuns \subseteq Runs /\ IsFiniteSet(Runs)
    /\ Columns \in Nat
    /\ FreshColumns \subseteq 1..Columns

NoRun == "no run"
NoChange == "no change"

\* Tables whose rows have a foreign key to runs (PRAGMA foreign_keys=ON).
RunChildren == {"run_cases", "run_observations"}

Tables == RunChildren \cup
    {"runs", "run_health_events", "artifacts", "recorded_flows", "release_policies",
     "auth_profiles", "site_inventories", "context_graphs", "incident_clusters",
     "remediation_drafts", "telemetry_signals", "correlation_reports",
     "risk_calibration", "projects", "columns", "schema_version"}

\* The key names its table, so that keys of any form can be compared.
Row(t, id, run, v) == [id |-> <<t, id>>, run |-> run, v |-> v]
Ids(db, t) == {x.id[2] : x \in db[t]}

EmptyDb == [t \in Tables |-> {}]

-----------------------------------------------------------------------------
(* Statements *)

Put(t, id, run, v) == [do |-> "put", table |-> t, rows |-> {Row(t, id, run, v)}]
Insert(t, ids, run, v) ==
    [do |-> "insert", table |-> t, rows |-> {Row(t, id, run, v) : id \in ids}]
SetAll(t, v)    == [do |-> "setAll", table |-> t, v |-> v]
SetOne(t, id, v) == [do |-> "setOne", table |-> t, id |-> <<t, id>>, v |-> v]
Fail(from, to)  == [do |-> "setWhere", table |-> "runs", from |-> from, v |-> to]
DeleteRun(t, r) == [do |-> "delete", table |-> t, run |-> r]
Clear(t)        == [do |-> "clear", table |-> t]
AddColumn(n)    == [do |-> "alter", table |-> "columns", rows |-> {Row("columns", n, NoRun, "")}]
Commit          == [do |-> "commit"]
Begin           == [do |-> "begin"]
Rollback        == [do |-> "rollback"]
Pragma          == [do |-> "pragma"]
Create          == [do |-> "create"]

HasRun(db, r) == r \in Ids(db, "runs")

\* The constraint a statement may break, on what it would write or delete.
Refused(s, db) ==
    \/ /\ s.do \in {"put", "insert"}
       /\ s.table \in RunChildren
       /\ \E x \in s.rows : ~ HasRun(db, x.run)
    \/ /\ s.do = "insert"
       /\ \E x \in s.rows, y \in db[s.table] : x.id = y.id
    \/ /\ s.do = "delete"
       /\ s.table = "runs"
       /\ \E t \in RunChildren : \E x \in db[t] : x.run = s.run

\* The database after a statement that is not refused.
Applied(s, db) ==
    LET Without(t, ids) == {x \in db[t] : x.id \notin ids}
        Changed(t, P(_)) == {IF P(x) THEN [x EXCEPT !.v = s.v] ELSE x : x \in db[t]}
    IN  CASE s.do \in {"put", "insert", "alter"} ->
                 [db EXCEPT ![s.table] = Without(s.table, {x.id : x \in s.rows}) \cup s.rows]
          [] s.do = "setAll" -> [db EXCEPT ![s.table] = Changed(s.table, LAMBDA x : TRUE)]
          [] s.do = "setOne" -> [db EXCEPT ![s.table] = Changed(s.table, LAMBDA x : x.id = s.id)]
          [] s.do = "setWhere" -> [db EXCEPT ![s.table] = Changed(s.table, LAMBDA x : x.v = s.from)]
          [] s.do = "delete" -> [db EXCEPT ![s.table] = {x \in @ : x.run # s.run}]
          [] s.do = "clear" -> [db EXCEPT ![s.table] = {}]
          [] s.do = "create" ->
                 [db EXCEPT !["columns"] =
                     @ \cup IF @ = {} THEN {Row("columns", n, NoRun, "") : n \in FreshColumns} ELSE {}]
          [] OTHER -> db

\* Statements that run outside a transaction unless one is open.
Ddl == {"alter", "create"}

\* Statements before which the driver opens a transaction.
Dml == {"put", "insert", "setAll", "setOne", "setWhere", "delete", "clear"}

-----------------------------------------------------------------------------
(* Runs, cases, observations, events and artifacts *)

create_run(r) == <<Insert("runs", {r}, r, "queued"), Commit>>

\* Mutated form: the row is committed on its own
create_run_in_two_groups(r, status) ==
    <<Insert("runs", {r}, r, status),
      Insert("run_health_events", {<<r, "run_queued">>}, r, ""), Commit,
      Insert("run_health_events", {<<r, "auth_context_resolved">>}, r, ""), Commit>>

create_run_with_initial_events(r, status) ==
    <<Insert("runs", {r}, r, status),
      Insert("run_health_events", {<<r, "run_queued">>}, r, ""),
      Insert("run_health_events", {<<r, "auth_context_resolved">>}, r, ""),
      Commit>>

update_run_status(r, status) == <<SetOne("runs", r, status), Commit>>

\* The cases and next actions that go with a status are told apart by nothing
\* here; RunLifecycle has them.
update_run(r, status) == <<SetOne("runs", r, status), Commit>>

save_cases(r, n) == <<Put("run_cases", <<r, n>>, r, ""), Commit>>

upsert_run_observation(r, key) == <<Put("run_observations", <<r, key>>, r, ""), Commit>>

write_run_health_events(r, ids) == <<Insert("run_health_events", ids, r, ""), Commit>>

write_artifacts(r, ids) == <<Insert("artifacts", ids, r, ""), Commit>>

\* Flows, plans and everything else that is one row of one table.
save_flow(f) == <<Put("recorded_flows", f, NoRun, ""), Commit>>
save_auth_profile(p) == <<Put("auth_profiles", p, NoRun, ""), Commit>>
save_site_inventory(i) == <<Insert("site_inventories", {i}, NoRun, ""), Commit>>
save_context_graph(g) == <<Put("context_graphs", g, NoRun, ""), Commit>>
save_incident_cluster(c) == <<Put("incident_clusters", c, NoRun, ""), Commit>>
save_remediation_draft(c) == <<Put("remediation_drafts", c, NoRun, ""), Commit>>
save_correlation_report(i) == <<Insert("correlation_reports", {i}, NoRun, ""), Commit>>
save_risk_calibration_record(i, r) == <<Put("risk_calibration", i, r, ""), Commit>>
save_project(p) == <<Put("projects", p, NoRun, ""), Commit>>

\* One statement for each signal; one that fails is counted and skipped.
save_telemetry_signals(signals) ==
    [n \in 1..Len(signals) |-> Put("telemetry_signals", signals[n], NoRun, "")]
        \o <<Commit>>

\* The SELECT COUNT(*) before the DELETE only reads.
archive_old_telemetry == <<Clear("telemetry_signals"), Commit>>

\* A default policy takes the flag off all others first.
save_policy(p, default) ==
    (IF default THEN <<SetAll("release_policies", "")>> ELSE <<>>)
        \o <<Put("release_policies", p, NoRun, IF default THEN "default" ELSE ""), Commit>>

\* A repaired locator goes into the steps of its flow by read, change and
\* write under BEGIN IMMEDIATE; without the flow or without a change the
\* transaction is rolled back.
update_flow_step_selector(f, step, db) ==
    <<Begin>> \o IF f \notin Ids(db, "recorded_flows") \/ step = NoChange THEN <<Rollback>>
                 ELSE <<SetOne("recorded_flows", f, step), Commit>>

\* Runs are selected by age and by status only, then deleted with their
\* cases, artifacts and events, four statements for each; their observations
\* stay.
archive_old_runs(keepFailed, db) ==
    LET doomed == {x.run : x \in {y \in db["runs"] :
                        y.run \in OldRuns /\ (keepFailed => y.v # "failed")}}
        Deletes(r) == <<DeleteRun("run_cases", r), DeleteRun("artifacts", r),
                        DeleteRun("run_health_events", r), DeleteRun("runs", r)>>
        Statement(n) == Deletes(SetToSeq(doomed)[1 + (n \div 4)])[1 + (n % 4)]
    IN  <<Begin>> \o [n \in 1..(4 * Cardinality(doomed)) |-> Statement(n - 1)] \o <<Commit>>

-----------------------------------------------------------------------------
(* The schema *)

\* _get_schema_version: 0 without a row.
schema_version(db) ==
    IF db["schema_version"] = {} THEN 0 ELSE CHOOSE n \in Ids(db, "schema_version") : TRUE

set_schema_version(n) ==
    <<Clear("schema_version"), Insert("schema_version", {n}, NoRun, "")>>

\* Mutated form: the version is raised, and committed, before its column is there
migrate_version_first(db) ==
    LET Raise(v) == set_schema_version(v) \o <<Commit, AddColumn(v)>>
        Statement(n) == Raise(schema_version(db) + 1 + (n \div 4))[1 + (n % 4)]
    IN  [n \in 1..(4 * (Columns - schema_version(db))) |-> Statement(n - 1)] \o <<Commit>>

\* _migrate: one column for each version above the stored one, three statements
\* for each.  An ALTER that finds its column there counts as done.
migrate(db) ==
    LET Raise(v) == <<AddColumn(v)>> \o set_schema_version(v)
        Statement(n) == Raise(schema_version(db) + 1 + (n \div 3))[1 + (n % 3)]
    IN  [n \in 1..(3 * (Columns - schema_version(db))) |-> Statement(n - 1)] \o <<Commit>>

\* init_db: pragmas, tables and indexes, migrations, and the recovery that
\* takes every running row for an orphan.
init_db(db) ==
    <<Pragma, Create, Commit>> \o migrate(db) \o <<Fail("running", "failed"), Commit>>
============================================================================
