---------------------------- MODULE SharedStore ----------------------------
(***************************************************************************)
(* One SQLite connection for the whole server: coroutines run the groups   *)
(* of SqlGroups on it under _db_rw_lock, save_run_health_event and         *)
(* save_artifact collect rows in memory until somebody flushes them, the   *)
(* HTTP server streams the events of a run, and the process dies and       *)
(* starts again.                                                           *)
(*                                                                         *)
(* An action is one statement and the code up to the next await.  A        *)
(* coroutine that is cancelled inside a group (Cut) releases the lock and  *)
(* leaves the transaction as it is: CancelledError is not an Exception,    *)
(* and only two groups roll back at all.  Readers use the same connection, *)
(* so they see what is not committed yet.                                  *)
(***************************************************************************)
EXTENDS SqlGroups

CONSTANTS
    Clients,        \* coroutines that call the storage functions
    Recorders,      \* coroutines that save events and artifacts
    Calls,          \* the calls they make, as [fn |-> function, ...]
    Events,         \* names of the health events that may be saved
    FlushNow,       \* those in _RUN_HEALTH_FLUSH_EVENTS
    BufferLimit,    \* BLOP_RUN_HEALTH_BUFFER_LIMIT, BLOP_ARTIFACT_BUFFER_LIMIT
    StartColumns,   \* how many migrations the database found has seen
    StartStatuses,  \* the statuses of the runs in it ("none": not there)
    MaxCalls,       \* bound: calls made
    MaxCuts         \* bound: cancelled coroutines, failing statements, crashes

Nobody == "nobody"
Server == "server"      \* the coroutine that starts the process
Watcher == "watcher"    \* the generator of an SSE response
Callers == Clients \cup Recorders \cup {Server, Watcher}

\* The functions clients call; only a flush writes events and artifacts.
StoreFunctions ==
    {"create_run", "create_run_with_initial_events", "update_run_status", "update_run",
     "save_cases", "upsert_run_observation", "save_flow", "save_auth_profile",
     "save_site_inventory", "save_context_graph", "save_incident_cluster",
     "save_remediation_draft", "save_correlation_report", "save_risk_calibration",
     "save_project", "save_telemetry_signals", "archive_old_telemetry", "save_policy",
     "update_flow_step_selector", "archive_old_runs", "init_db"}

\* The events create_run_with_initial_events writes with the row.  Every event
\* has an id of its own (uuid4), here the run and the name.
Initial(r) == {<<r, "run_queued">>, <<r, "auth_context_resolved">>}

ASSUME StoreAssumption ==
    /\ {Nobody, Server, Watcher} \cap (Clients \cup Recorders) = {}
    /\ \A k \in Calls : /\ k.fn \in StoreFunctions
                        /\ k.fn = "save_telemetry_signals" => Len(k.ids) \in Nat
    /\ Events \cap {"run_queued", "auth_context_resolved"} = {}
    /\ FlushNow \subseteq Events
    /\ BufferLimit \in Nat \ {0}
    /\ StartColumns \subseteq 0..Columns
    /\ MaxCalls \in Nat
    /\ MaxCuts \in Nat

VARIABLES
    disk,       \* what is committed: it survives the process
    conn,       \* what the connection sees
    tx,         \* a transaction is open on it
    lock,       \* who holds _db_rw_lock
    todo,       \* the batches of a flush a coroutine has still to write
    plan,       \* the statements left of the group it is in
    rescue,     \* that group rolls back on an exception from now on
    evBuf,      \* _RUN_HEALTH_BUFFERS, as event ids
    artBuf,     \* _ARTIFACT_BUFFERS, as artifact ids
    up,         \* init_db of this process has returned
    stream,     \* pc of _run_event_stream
    streamRun, final, seen,     \* its run, status read, events yielded
    \* history and bounds
    accepted,   \* events whose save has returned or is flushing
    due,        \* of those, the ones of streamRun when its status was read
    gone,       \* events deleted by an archive
    torn,       \* a group ended inside the open transaction: "open", and
                \* "committed" once another group has committed its half
    created, calls, cuts

store == <<disk, conn, tx>>
buffers == <<evBuf, artBuf, accepted>>
watch == <<stream, streamRun, final, seen, due>>
vars == <<disk, conn, tx, lock, todo, plan, rescue, evBuf, artBuf, up, stream,
          streamRun, final, seen, accepted, due, gone, torn, created, calls, cuts>>

FinalStatuses == {"completed", "failed", "cancelled"}

\* The statements of a call, with what its SELECTs find in db.
Group(k, db) ==
    CASE k.fn = "create_run" -> create_run(k.run)
      [] k.fn = "create_run_with_initial_events" ->
             create_run_with_initial_events(k.run, "queued")
      [] k.fn = "update_run_status" -> update_run_status(k.run, k.status)
      [] k.fn = "update_run" -> update_run(k.run, k.status)
      [] k.fn = "save_cases" -> save_cases(k.run, "case")
      [] k.fn = "upsert_run_observation" -> upsert_run_observation(k.run, "checkpoint")
      [] k.fn = "write_events" -> write_run_health_events(k.run, k.ids)
      [] k.fn = "write_artifacts" -> write_artifacts(k.run, k.ids)
      [] k.fn = "save_flow" -> save_flow(k.id)
      [] k.fn = "save_auth_profile" -> save_auth_profile(k.id)
      [] k.fn = "save_site_inventory" -> save_site_inventory(calls)
      [] k.fn = "save_context_graph" -> save_context_graph(k.id)
      [] k.fn = "save_incident_cluster" -> save_incident_cluster(k.id)
      [] k.fn = "save_remediation_draft" -> save_remediation_draft(k.id)
      [] k.fn = "save_correlation_report" -> save_correlation_report(calls)
      [] k.fn = "save_risk_calibration" -> save_risk_calibration_record(calls, k.run)
      [] k.fn = "save_project" -> save_project(k.id)
      [] k.fn = "save_telemetry_signals" -> save_telemetry_signals(k.ids)
      [] k.fn = "archive_old_telemetry" -> archive_old_telemetry
      [] k.fn = "save_policy" -> save_policy(k.id, k.default)
      [] k.fn = "update_flow_step_selector" -> update_flow_step_selector(k.id, k.step, db)
      [] k.fn = "archive_old_runs" -> archive_old_runs(k.keepFailed, db)
      [] k.fn = "init_db" -> init_db(db)

Idle(c) == todo[c] = <<>> /\ plan[c] = <<>>

\* A process begins with init_db, and serves when that has returned.
Starting(db) == [c \in Callers |-> IF c = Server THEN init_db(db) ELSE <<>>]

Init ==
    /\ \E n \in StartColumns, status \in [Runs -> StartStatuses] :
          /\ n = 0 => status = [r \in Runs |-> "none"]
          /\ created = {r \in Runs : status[r] # "none"}
          /\ disk = [EmptyDb EXCEPT
                    !["runs"] = {Row("runs", r, r, status[r]) : r \in created},
                    !["run_health_events"] =
                        {Row("run_health_events", e, e[1], "") : e \in UNION {Initial(r) : r \in created}},
                    !["columns"] = {Row("columns", m, NoRun, "") : m \in 1..n},
                    !["schema_version"] = IF n = 0 THEN {} ELSE {Row("schema_version", n, NoRun, "")}]
    /\ conn = disk
    /\ tx = FALSE
    /\ lock = Server
    /\ todo = [c \in Callers |-> <<>>]
    /\ plan = Starting(disk)
    /\ rescue = [c \in Callers |-> FALSE]
    /\ evBuf = [r \in Runs |-> {}]
    /\ artBuf = [r \in Runs |-> {}]
    /\ up = FALSE
    /\ stream = "off" /\ streamRun = NoRun /\ final = FALSE /\ seen = {}
    /\ accepted = {} /\ due = {} /\ gone = {} /\ torn = "no"
    /\ calls = 0 /\ cuts = 0

-----------------------------------------------------------------------------
(* Calls, buffers and flushes *)

Creates(k) == k.fn \in {"create_run", "create_run_with_initial_events"}

\* _db_connect: the coroutine has the lock and begins the group of call k.
Enter(c, k) ==
    /\ lock = Nobody
    /\ lock' = c
    /\ plan' = [plan EXCEPT ![c] = Group(k, conn)]
    /\ rescue' = [rescue EXCEPT ![c] = k.fn = "update_flow_step_selector"]

\* A client calls a function and gets the lock; while it waits for the lock it
\* has done nothing.  The id of a run that is created is a new one; every other
\* call is about a run that was created before.
Call(c, k) ==
    /\ up /\ Idle(c) /\ calls < MaxCalls
    /\ IF Creates(k) THEN k.run \notin created
       ELSE "run" \in DOMAIN k => k.run \in created
    /\ Enter(c, k)
    /\ created' = IF Creates(k) THEN created \cup {k.run} ELSE created
    /\ calls' = calls + 1
    /\ UNCHANGED <<store, todo, buffers, up, watch, gone, torn, cuts>>

\* flush_buffered_writes for the runs R, on the given buffers: it takes
\* everything out, then writes run by run, events before artifacts.
Batches(R, ev, art) ==
    LET filled == {r \in R : ev[r] # {} \/ art[r] # {}}
        order == SetToSeq(filled)
    IN  [n \in 1..Cardinality(filled) |->
            [run |-> order[n], events |-> ev[order[n]], artifacts |-> art[order[n]]]]

\* Mutated form: the buffers are read, not taken
Copied(R, buf) == buf

Emptied(R, buf) == [r \in Runs |-> IF r \in R THEN {} ELSE buf[r]]

\* save_run_health_event(s): the buffer grows, and is flushed when it is full,
\* when the event is one that must not wait, or always (save_..._events).
SaveEvents(c, r, new, always) ==
    LET grown == [evBuf EXCEPT ![r] = @ \cup new]
        flush == \/ always
                 \/ Cardinality(grown[r]) >= BufferLimit
                 \/ \E e \in new : e[2] \in FlushNow
    IN  /\ up /\ Idle(c) /\ r \in created
        /\ new \cap accepted = {}
        /\ accepted' = accepted \cup new
        /\ evBuf' = IF flush THEN Emptied({r}, grown) ELSE grown
        /\ artBuf' = IF flush THEN Emptied({r}, artBuf) ELSE artBuf
        /\ todo' = IF flush THEN [todo EXCEPT ![c] = Batches({r}, grown, artBuf)] ELSE todo
        /\ UNCHANGED <<store, lock, plan, rescue, up, watch, gone, torn, created, calls, cuts>>

save_run_health_event(c, r, e) == SaveEvents(c, r, {<<r, e>>}, FALSE)
save_run_health_events(c, r, e, f) == e # f /\ SaveEvents(c, r, {<<r, e>>, <<r, f>>}, TRUE)

\* save_artifact(s): the same with the other buffer.
save_artifact(c, r, always) ==
    LET grown == [artBuf EXCEPT ![r] = @ \cup {calls}]
        flush == always \/ Cardinality(grown[r]) >= BufferLimit
    IN  /\ up /\ Idle(c) /\ r \in created /\ calls < MaxCalls
        /\ calls' = calls + 1
        /\ evBuf' = IF flush THEN Emptied({r}, evBuf) ELSE evBuf
        /\ artBuf' = IF flush THEN Emptied({r}, grown) ELSE grown
        /\ todo' = IF flush THEN [todo EXCEPT ![c] = Batches({r}, evBuf, grown)] ELSE todo
        /\ UNCHANGED <<store, lock, plan, rescue, accepted, up, watch, gone, torn, created, cuts>>

\* flush_buffered_writes for some runs, or without arguments for all.
flush_buffered_writes(c, R) ==
    /\ up /\ Idle(c)
    /\ Batches(R, evBuf, artBuf) # <<>>
    /\ todo' = [todo EXCEPT ![c] = Batches(R, evBuf, artBuf)]
    /\ evBuf' = Emptied(R, evBuf)
    /\ artBuf' = Emptied(R, artBuf)
    /\ UNCHANGED <<store, lock, plan, rescue, accepted, up, watch, gone, torn, created, calls, cuts>>

-----------------------------------------------------------------------------
(* Groups on the connection *)

\* The next group of a flush.
Acquire(c) ==
    /\ todo[c] # <<>> /\ plan[c] = <<>>
    /\ LET batch == Head(todo[c])
           events == batch.events # {}
       IN  /\ Enter(c, [fn |-> IF events THEN "write_events" ELSE "write_artifacts",
                        run |-> batch.run,
                        ids |-> IF events THEN batch.events ELSE batch.artifacts])
           /\ todo' = [todo EXCEPT ![c] = IF events /\ batch.artifacts # {}
                                          THEN [@ EXCEPT ![1].events = {}] ELSE Tail(@)]
    /\ UNCHANGED <<store, buffers, up, watch, gone, torn, created, calls, cuts>>

EventIds(db) == Ids(db, "run_health_events")

\* The next statement succeeds.
Succeed(c, s) ==
    /\ CASE s.do = "commit" -> disk' = conn /\ conn' = conn /\ tx' = FALSE
         [] s.do = "rollback" -> disk' = disk /\ conn' = disk /\ tx' = FALSE
         [] s.do = "begin" -> disk' = disk /\ conn' = conn /\ tx' = TRUE
         [] s.do \in Ddl -> /\ conn' = Applied(s, conn)
                            /\ disk' = IF tx THEN disk ELSE conn'
                            /\ tx' = tx
         [] OTHER -> /\ disk' = disk
                     /\ conn' = Applied(s, conn)
                     /\ tx' = (tx \/ s.do \in Dml)
    /\ gone' = gone \cup (IF s.do = "delete" THEN EventIds(conn) \ EventIds(conn') ELSE {})
    /\ torn' = IF torn # "open" THEN torn
               ELSE IF s.do = "commit" THEN "committed"
               ELSE IF s.do = "rollback" THEN "no" ELSE torn
    \* archive_old_runs enters its try block after BEGIN IMMEDIATE
    /\ rescue' = [rescue EXCEPT ![c] = @ \/ s.do = "begin"]
    /\ plan' = [plan EXCEPT ![c] = Tail(@)]
    /\ lock' = IF Tail(plan[c]) = <<>> THEN Nobody ELSE lock
    /\ up' = (up \/ (c = Server /\ Tail(plan[c]) = <<>>))
    /\ UNCHANGED todo

\* An exception leaves the group, the rest of a flush with it; the two groups
\* with a handler roll back whatever the transaction holds.
Raise(c, open) ==
    /\ disk' = disk
    /\ conn' = IF rescue[c] THEN disk ELSE conn
    /\ tx' = (open /\ ~ rescue[c])
    /\ torn' = IF tx' THEN IF torn = "no" THEN "open" ELSE torn
               ELSE IF torn = "open" THEN "no" ELSE torn
    /\ plan' = [plan EXCEPT ![c] = <<>>]
    /\ todo' = [todo EXCEPT ![c] = <<>>]
    /\ lock' = Nobody
    /\ UNCHANGED <<gone, rescue, up>>

\* What SQLite itself refuses: a constraint, a second BEGIN, a change of the
\* safety level inside a transaction.
Refuses(s) == Refused(s, conn) \/ (tx /\ s.do \in {"begin", "pragma"})

Execute(c) ==
    /\ lock = c
    /\ plan[c] # <<>>
    /\ LET s == Head(plan[c])
       IN  IF Refuses(s) THEN Raise(c, tx \/ s.do \in Dml) ELSE Succeed(c, s)
    /\ stream' = IF c = Watcher /\ Refuses(Head(plan[c])) THEN "broken" ELSE stream
    /\ UNCHANGED <<buffers, streamRun, final, seen, due, created, calls, cuts>>

\* A statement fails for a reason of its own (disk full, database locked).
\* save_telemetry_signals counts the signal and goes on.
Fault(c) ==
    /\ cuts < MaxCuts
    /\ lock = c /\ plan[c] # <<>> /\ up
    /\ cuts' = cuts + 1
    /\ LET s == Head(plan[c])
       IN  IF s.do = "put" /\ s.table = "telemetry_signals"
           THEN /\ plan' = [plan EXCEPT ![c] = Tail(@)]
                /\ UNCHANGED <<disk, conn, tx, torn, gone, rescue, todo, lock, up>>
           ELSE Raise(c, tx)
    /\ stream' = IF c = Watcher THEN "broken" ELSE stream
    /\ UNCHANGED <<buffers, streamRun, final, seen, due, created, calls>>

\* The coroutine is cancelled: before a group, or between two statements.
Cut(c) ==
    /\ cuts < MaxCuts
    /\ up /\ ~ Idle(c)
    /\ cuts' = cuts + 1
    /\ lock' = IF lock = c THEN Nobody ELSE lock
    /\ torn' = IF lock = c /\ tx /\ torn = "no" THEN "open" ELSE torn
    /\ plan' = [plan EXCEPT ![c] = <<>>]
    /\ todo' = [todo EXCEPT ![c] = <<>>]
    /\ stream' = IF c = Watcher THEN "broken" ELSE stream
    /\ UNCHANGED <<store, rescue, buffers, up, streamRun, final, seen, due, gone, created, calls>>

\* The process dies and is started again.
Crash ==
    /\ cuts < MaxCuts
    /\ cuts' = cuts + 1
    /\ conn' = disk /\ tx' = FALSE
    /\ torn' = IF torn = "open" THEN "no" ELSE torn
    /\ lock' = Server
    /\ todo' = [c \in Callers |-> <<>>]
    /\ plan' = Starting(disk)
    /\ rescue' = [c \in Callers |-> FALSE]
    /\ evBuf' = [r \in Runs |-> {}]
    /\ artBuf' = [r \in Runs |-> {}]
    /\ up' = FALSE
    /\ stream' = IF stream \in {"off", "closed"} THEN stream ELSE "broken"
    /\ UNCHANGED <<disk, streamRun, final, seen, due, accepted, gone, created, calls>>

-----------------------------------------------------------------------------
(* _run_event_stream *)

Status(db, r) == IF HasRun(db, r) THEN (CHOOSE x \in db["runs"] : x.run = r).v ELSE "none"
OfRun(r, ids) == {e \in ids : e[1] = r}

OpenStream(r) ==
    /\ up /\ stream = "off" /\ r \in created
    /\ stream' = "status"
    /\ streamRun' = r
    /\ UNCHANGED <<store, lock, todo, plan, rescue, buffers, up, final, seen, due, gone, torn,
                   created, calls, cuts>>

\* get_run
ReadStatus ==
    /\ stream = "status" /\ lock = Nobody
    /\ stream' = "flush"
    /\ final' = (Status(conn, streamRun) \in FinalStatuses)
    /\ due' = OfRun(streamRun, accepted)
    /\ UNCHANGED <<store, lock, todo, plan, rescue, buffers, up, streamRun, seen, gone, torn,
                   created, calls, cuts>>

\* Mutated form: the events are listed as they are in the table
ListUnflushed ==
    /\ stream = "flush"
    /\ stream' = "list"
    /\ UNCHANGED <<store, lock, todo, plan, rescue, buffers, up, streamRun, final, seen, due, gone,
                   torn, created, calls, cuts>>

\* list_run_health_events writes what is buffered before it reads.
FlushForStream ==
    /\ stream = "flush"
    /\ stream' = "list"
    /\ todo' = [todo EXCEPT ![Watcher] = Batches({streamRun}, evBuf, artBuf)]
    /\ evBuf' = Emptied({streamRun}, evBuf)
    /\ artBuf' = Emptied({streamRun}, artBuf)
    /\ UNCHANGED <<store, lock, plan, rescue, accepted, up, streamRun, final, seen, due, gone, torn,
                   created, calls, cuts>>

\* Mutated form: the stream waits for an event that tells the end
ListUntilLastCase ==
    /\ stream = "list" /\ lock = Nobody /\ Idle(Watcher)
    /\ seen' = seen \cup OfRun(streamRun, EventIds(conn))
    /\ stream' = IF final /\ <<streamRun, "case_completed">> \in seen' THEN "closed" ELSE "sleep"
    /\ UNCHANGED <<store, lock, todo, plan, rescue, buffers, up, streamRun, final, due, gone, torn,
                   created, calls, cuts>>

\* The events of the run (fewer than the 500 the stream asks for) that were
\* not yielded before; a final status ends the stream.
ListEvents ==
    /\ stream = "list" /\ lock = Nobody /\ Idle(Watcher)
    /\ seen' = seen \cup OfRun(streamRun, EventIds(conn))
    /\ stream' = IF final THEN "closed" ELSE "sleep"
    /\ UNCHANGED <<store, lock, todo, plan, rescue, buffers, up, streamRun, final, due, gone, torn,
                   created, calls, cuts>>

Wake ==
    /\ stream = "sleep"
    /\ stream' = "status"
    /\ UNCHANGED <<store, lock, todo, plan, rescue, buffers, up, streamRun, final, seen, due, gone,
                   torn, created, calls, cuts>>

Streaming == ReadStatus \/ FlushForStream \/ ListEvents \/ Wake

-----------------------------------------------------------------------------
Next ==
    \/ \E c \in Clients, k \in Calls : Call(c, k)
    \/ \E c \in Recorders, r \in Runs, e \in Events : save_run_health_event(c, r, e)
    \/ \E c \in Recorders, r \in Runs, e, f \in Events : save_run_health_events(c, r, e, f)
    \/ \E c \in Recorders, r \in Runs, always \in BOOLEAN : save_artifact(c, r, always)
    \/ \E c \in Recorders, R \in {{r} : r \in Runs} \cup {Runs} : flush_buffered_writes(c, R)
    \/ \E c \in Callers : Acquire(c) \/ Execute(c) \/ Fault(c) \/ Cut(c)
    \/ Crash
    \/ \E r \in Runs : OpenStream(r)
    \/ Streaming

Spec == Init /\ [][Next]_vars

\* asyncio resumes what is ready, aiosqlite answers, and a sleep ends.
FairSpec ==
    /\ Spec
    /\ \A c \in Callers : WF_vars(Acquire(c)) /\ WF_vars(Execute(c))
    /\ WF_vars(Streaming)

Buffered == UNION {evBuf[r] : r \in Runs}
\* What a coroutine has taken out of the buffers and not yet inserted.
InFlight(c) ==
    UNION ({ todo[c][n].events : n \in 1..Len(todo[c])}
           \cup { {x.id[2] : x \in plan[c][n].rows} :
                 n \in {m \in 1..Len(plan[c]) :
                     plan[c][m].do = "insert" /\ plan[c][m].table = "run_health_events"}})

\* A health event that was accepted is in one place at a time - a buffer, the
\* hands of one flushing coroutine, or the table - so overlapping flushes
\* never write it twice; and without a cancel, a failing statement or a crash
\* it is in one of them until its run is archived.
EventsAreKeptOnce ==
    /\ Buffered \cap EventIds(conn) = {}
    /\ \A c \in Callers :
          /\ InFlight(c) \cap (Buffered \cup EventIds(conn)) = {}
          /\ \A d \in Callers \ {c} : InFlight(c) \cap InFlight(d) = {}
    /\ cuts = 0 =>
          accepted \subseteq
              Buffered \cup EventIds(conn) \cup gone \cup UNION {InFlight(c) : c \in Callers}

\* schema_version never names a migration whose column is missing, wherever
\* init_db was cancelled, failed or died; a process that serves has them all.
VersionIsHonest ==
    /\ 1..schema_version(disk) \subseteq Ids(disk, "columns")
    /\ up => Ids(conn, "columns") = 1..Columns

\* A group of statements runs under the lock and is whole on the disk: there is
\* at most one default policy and no case without its run; and unless the half
\* of a group that was cancelled or failed has been committed by a later one,
\* the first events of a run are there together and with it - the process may
\* die between any two statements.
GroupsAreWhole ==
    /\ \A c \in Callers : plan[c] # <<>> => lock = c
    /\ Cardinality({x \in disk["release_policies"] : x.v = "default"}) <= 1
    /\ \A t \in RunChildren : \A x \in disk[t] : HasRun(disk, x.run)
    /\ torn # "committed" =>
          \A r \in Runs :
              Initial(r) \cap EventIds(disk) # {} =>
                  Initial(r) \subseteq EventIds(disk) /\ HasRun(disk, r)

\* A stream that ends has yielded every event that had been accepted when it
\* read the final status, but for those another coroutine was writing.
StreamTellsAll ==
    [][stream = "list" /\ stream' = "closed" =>
          due \cap (EventIds(conn) \cup Buffered) \subseteq seen']_vars

\* A stream of a run that stays final comes to an end; a run that is archived
\* while it is watched leaves its stream waiting for ever.
StreamEnds ==
    \A r \in Runs :
        (stream \notin {"off", "closed", "broken"} /\ streamRun = r /\
             Status(conn, r) \in FinalStatuses)
            ~> (stream \in {"closed", "broken"} \/ Status(conn, r) \notin FinalStatuses)
============================================================================
