-------------------------- MODULE SharedStoreProofs --------------------------
(***************************************************************************)
(* Proofs about SharedStore: that the groups of statements are whole on    *)
(* the disk and the schema version names columns that are there, wherever  *)
(* a coroutine is cancelled, a statement fails or the process dies, that a *)
(* stream that ends has told what it owed, and that an accepted event is   *)
(* in one place at a time.                                                 *)
(***************************************************************************)
EXTENDS SharedStore, SequenceTheorems, FunctionTheorems, FiniteSetTheorems, TLAPS

-----------------------------------------------------------------------------
(* What a database looks like between two statements *)

Names == {"run_queued", "auth_context_resolved"}

\* What the rows of a table have in common, in the database or in a statement.
RowsOK(t, rows) ==
    /\ \A x \in rows : DOMAIN x = {"id", "run", "v"}
    /\ t = "runs" => \A x \in rows : x.id[2] = x.run
    /\ t = "run_health_events" => \A x \in rows : x.id[2][2] \in Names => x.run = x.id[2][1]
    /\ t = "release_policies" =>
          \A x, y \in rows : x.v = "default" /\ y.v = "default" => x = y
    /\ t \in {"columns", "schema_version"} => \A x \in rows : x.id[2] \in 1..Columns

DbOK(db) ==
    /\ DOMAIN db = Tables
    /\ \A t \in Tables : RowsOK(t, db[t])
    /\ \A t \in RunChildren : \A x \in db[t] : HasRun(db, x.run)
    /\ \A x \in db["schema_version"] : 1..x.id[2] \subseteq Ids(db, "columns")

\* The first events of a run are there together and with it.
WholeFor(db, r) ==
    Initial(r) \cap EventIds(db) # {} => Initial(r) \subseteq EventIds(db) /\ HasRun(db, r)

-----------------------------------------------------------------------------
(* What a statement may be, and what the one before it prepares *)

Queued(r)   == Insert("run_health_events", {<<r, "run_queued">>}, r, "")
Resolved(r) == Insert("run_health_events", {<<r, "auth_context_resolved">>}, r, "")

\* Inserted events are the recorders', or one of the two of a new run.
InsertsEvents(s) == s.do = "insert" /\ s.table = "run_health_events"

WritesOK(s) ==
    /\ s.do \in {"put", "insert", "alter"}
    /\ s.table \in Tables
    /\ RowsOK(s.table, s.rows)
    /\ s.do = "put" =>
          s.table \notin {"runs", "run_health_events", "columns", "schema_version"}
    /\ s.do = "insert" => s.table \notin {"release_policies", "columns"}
    /\ s.do = "alter" => s.table = "columns"
    /\ InsertsEvents(s) =>
          \/ \A x \in s.rows : x.id[2][2] \notin Names
          \/ \E x \in s.rows : s = Queued(x.run) \/ s = Resolved(x.run)

StatementOK(s) ==
    \/ WritesOK(s)
    \/ /\ s.do \in {"setAll", "setOne", "setWhere"}
       /\ s.table \in {"runs", "recorded_flows", "release_policies"}
       /\ s.table = "release_policies" => s.do = "setAll" /\ s.v = ""
    \/ /\ s.do = "delete"
       /\ s.table \in {"run_cases", "artifacts", "run_health_events", "runs"}
    \/ /\ s.do = "clear"
       /\ s.table \in {"telemetry_signals", "schema_version"}
    \/ s.do \in {"create", "commit", "rollback", "begin", "pragma"}

\* A new default policy comes after the flag is off everywhere.
DefaultPrepared(p, n, db) ==
    (p[n].do = "put" /\ p[n].table = "release_policies" /\ \E x \in p[n].rows : x.v = "default")
        => IF n = 1 THEN \A x \in db["release_policies"] : x.v # "default"
                    ELSE p[n - 1] = SetAll("release_policies", "")

\* A run is deleted after its events.
DeletePrepared(p, n, db) ==
    (p[n].do = "delete" /\ p[n].table = "runs")
        => IF n = 1 THEN \A x \in db["run_health_events"] : x.run # p[n].run
                    ELSE p[n - 1] = DeleteRun("run_health_events", p[n].run)

\* The first events of a run follow its row, one after the other.
InitialPrepared(p, n, db) ==
    InsertsEvents(p[n]) => \A x \in p[n].rows :
        /\ x.id[2][2] = "run_queued" =>
              /\ IF n = 1 THEN HasRun(db, x.run)
                          ELSE p[n - 1] = Insert("runs", {x.run}, x.run, "queued")
              /\ n + 1 \in 1..Len(p) /\ p[n + 1] = Resolved(x.run)
        /\ x.id[2][2] = "auth_context_resolved" =>
              IF n = 1 THEN HasRun(db, x.run) /\ <<x.run, "run_queued">> \in EventIds(db)
                       ELSE p[n - 1] = Queued(x.run)

\* A version is raised after the columns it stands for were added.
VersionPrepared(p, n, db) ==
    (p[n].do = "insert" /\ p[n].table = "schema_version") =>
        \A x \in p[n].rows : \A u \in 1..x.id[2] :
            u \in Ids(db, "columns") \/ \E m \in 1..(n - 1) : p[m] = AddColumn(u)

PlanOK(p, db) ==
    /\ p \in Seq({p[n] : n \in 1..Len(p)})
    /\ \A n \in 1..Len(p) :
          /\ StatementOK(p[n])
          /\ DefaultPrepared(p, n, db)
          /\ DeletePrepared(p, n, db)
          /\ InitialPrepared(p, n, db)
          /\ VersionPrepared(p, n, db)
          /\ p[n].do = "rollback" => n = Len(p)

\* What init_db has still to do: it ends with a commit, and no column is
\* missing then.
Starts(p, db) ==
    /\ p[Len(p)] = Commit
    /\ \A u \in 1..Columns : u \in Ids(db, "columns") \/ \E m \in 1..Len(p) : p[m] = AddColumn(u)

-----------------------------------------------------------------------------
(* The invariant *)

\* The coroutines: one group at a time, under the lock.
LockInv ==
    /\ DOMAIN plan = Callers /\ DOMAIN todo = Callers
    /\ \A c \in Callers : plan[c] # <<>> => lock = c
    /\ \A c \in Callers : PlanOK(plan[c], conn)
    /\ todo[Server] = <<>>
    /\ plan[Server] # <<>> => Starts(plan[Server], conn)

\* What waits to be written are events that recorders save.
BatchOK(b) ==
    /\ DOMAIN b = {"run", "events", "artifacts"}
    /\ b.run \in Runs
    /\ \A e \in b.events : e[2] \in Events

BatchesOK(q) ==
    /\ q \in Seq({q[n] : n \in 1..Len(q)})
    /\ \A n \in 1..Len(q) : BatchOK(q[n])

BufferInv ==
    /\ DOMAIN evBuf = Runs
    /\ \A r \in Runs : \A e \in evBuf[r] : e[2] \in Events
    /\ \A c \in Callers : BatchesOK(todo[c])
    /\ stream \notin {"off", "broken"} => streamRun \in Runs

DiskInv ==
    /\ DbOK(disk)
    /\ DbOK(conn)
    /\ tx \in BOOLEAN /\ up \in BOOLEAN
    /\ ~ tx => conn = disk
    /\ torn \in {"no", "open", "committed"}
    /\ torn = "open" => tx
    /\ up => Ids(conn, "columns") = 1..Columns /\ Ids(disk, "columns") = 1..Columns

\* The first events of a run are missing one only while the group that
\* writes them is between the two.
Between(r) == \E c \in Callers : plan[c] # <<>> /\ plan[c][1] = Resolved(r)

WholeInv ==
    /\ torn # "committed" => \A r \in Runs : WholeFor(disk, r)
    /\ torn = "no" => \A r \in Runs : WholeFor(conn, r) \/ Between(r)

StoreInv == LockInv /\ BufferInv /\ DiskInv /\ WholeInv

-----------------------------------------------------------------------------
(* Statements and databases *)

LEMMA TableNames ==
    /\ RunChildren \subseteq Tables
    /\ {"runs", "run_health_events", "artifacts", "recorded_flows", "release_policies",
        "auth_profiles", "site_inventories", "context_graphs", "incident_clusters",
        "remediation_drafts", "telemetry_signals", "correlation_reports",
        "risk_calibration", "projects", "columns", "schema_version",
        "run_cases", "run_observations"} \subseteq Tables
  BY DEF Tables, RunChildren

LEMMA OwnSeq ==
    ASSUME NEW S, NEW q \in Seq(S)
    PROVE  q \in Seq({q[n] : n \in 1..Len(q)})
  <1> DEFINE T == {q[n] : n \in 1..Len(q)}
  <1>1. Len(q) \in Nat /\ q \in [1..Len(q) -> T]
    OBVIOUS
  <1> HIDE DEF T
  <1>2. q \in Seq(T)
    BY <1>1, SeqDef
  <1> QED
    BY <1>2 DEF T

\* The rest of a group.
LEMMA TailOf ==
    ASSUME NEW p, p \in Seq({p[n] : n \in 1..Len(p)}), p # <<>>
    PROVE  /\ Len(p) \in Nat /\ 1 \in 1..Len(p)
           /\ Head(p) = p[1]
           /\ Len(Tail(p)) = Len(p) - 1
           /\ \A n \in 1..Len(Tail(p)) : n + 1 \in 1..Len(p) /\ Tail(p)[n] = p[n + 1]
           /\ Tail(p) \in Seq({Tail(p)[n] : n \in 1..Len(Tail(p))})
  <1> DEFINE S == {p[n] : n \in 1..Len(p)}
  <1>1. p \in Seq(S)
    OBVIOUS
  <1> HIDE DEF S
  <1>2. /\ Len(p) \in Nat /\ 1 \in 1..Len(p)
        /\ Head(p) = p[1]
        /\ Len(Tail(p)) = Len(p) - 1
        /\ \A n \in 1..Len(Tail(p)) : n + 1 \in 1..Len(p) /\ Tail(p)[n] = p[n + 1]
        /\ Tail(p) \in Seq(S)
    BY <1>1
  <1>3. Tail(p) \in Seq({Tail(p)[n] : n \in 1..Len(Tail(p))})
    <2> DEFINE q == Tail(p)
    <2>1. q \in Seq(S)
      BY <1>2
    <2> HIDE DEF q
    <2>2. q \in Seq({q[n] : n \in 1..Len(q)})
      BY <2>1, OwnSeq
    <2> QED
      BY <2>2 DEF q
  <1> QED
    BY <1>2, <1>3

\* A statement that writes rows puts them in the place of those with their keys.
LEMMA WritesRows ==
    ASSUME NEW s, NEW db, DOMAIN db = Tables, s.do \in {"put", "insert", "alter"}, s.table \in Tables
    PROVE  Applied(s, db) =
              [db EXCEPT ![s.table] = {x \in db[s.table] : x.id \notin {y.id : y \in s.rows}} \cup s.rows]
  BY DEF Applied

LEMMA SetsRows ==
    ASSUME NEW s, NEW db, DOMAIN db = Tables, s.do \in {"setAll", "setOne", "setWhere"}, s.table \in Tables
    PROVE  \E rows :
              /\ Applied(s, db) = [db EXCEPT ![s.table] = rows]
              /\ \A y \in rows : \E x \in db[s.table] : y = x \/ y = [x EXCEPT !.v = s.v]
              /\ \A x \in db[s.table] : x \in rows \/ [x EXCEPT !.v = s.v] \in rows
              /\ s.do = "setAll" => \A y \in rows : \E x \in db[s.table] : y = [x EXCEPT !.v = s.v]
  <1>1. CASE s.do = "setAll"
    <2> DEFINE rows == {[x EXCEPT !.v = s.v] : x \in db[s.table]}
    <2>1. Applied(s, db) = [db EXCEPT ![s.table] = rows]
      BY <1>1 DEF Applied
    <2>2. /\ \A y \in rows : \E x \in db[s.table] : y = [x EXCEPT !.v = s.v]
          /\ \A x \in db[s.table] : [x EXCEPT !.v = s.v] \in rows
      OBVIOUS
    <2>3. \A y \in rows : \E x \in db[s.table] : y = x \/ y = [x EXCEPT !.v = s.v]
      BY <2>2
    <2>4. \A x \in db[s.table] : x \in rows \/ [x EXCEPT !.v = s.v] \in rows
      BY <2>2
    <2> HIDE DEF rows
    <2> QED
      BY <2>1, <2>2, <2>3, <2>4
  <1>2. CASE s.do = "setOne"
    <2> DEFINE rows == {IF x.id = s.id THEN [x EXCEPT !.v = s.v] ELSE x : x \in db[s.table]}
    <2>1. Applied(s, db) = [db EXCEPT ![s.table] = rows]
      BY <1>2 DEF Applied
    <2>2. /\ \A y \in rows : \E x \in db[s.table] : y = x \/ y = [x EXCEPT !.v = s.v]
          /\ \A x \in db[s.table] : x \in rows \/ [x EXCEPT !.v = s.v] \in rows
      OBVIOUS
    <2> HIDE DEF rows
    <2> QED
      BY <2>1, <2>2, <1>2
  <1>3. CASE s.do = "setWhere"
    <2> DEFINE rows == {IF x.v = s.from THEN [x EXCEPT !.v = s.v] ELSE x : x \in db[s.table]}
    <2>1. Applied(s, db) = [db EXCEPT ![s.table] = rows]
      BY <1>3 DEF Applied
    <2>2. /\ \A y \in rows : \E x \in db[s.table] : y = x \/ y = [x EXCEPT !.v = s.v]
          /\ \A x \in db[s.table] : x \in rows \/ [x EXCEPT !.v = s.v] \in rows
      OBVIOUS
    <2> HIDE DEF rows
    <2> QED
      BY <2>1, <2>2, <1>3
  <1> QED
    BY <1>1, <1>2, <1>3

LEMMA DeletesRows ==
    ASSUME NEW s, NEW db, DOMAIN db = Tables, s.do \in {"delete", "clear"}, s.table \in Tables
    PROVE  Applied(s, db) =
              [db EXCEPT ![s.table] = IF s.do = "delete" THEN {x \in @ : x.run # s.run} ELSE {}]
  BY DEF Applied

LEMMA CreatesTables ==
    ASSUME NEW s, NEW db, DOMAIN db = Tables, s.do = "create"
    PROVE  Applied(s, db) =
              [db EXCEPT !["columns"] =
                  @ \cup IF @ = {} THEN {Row("columns", n, NoRun, "") : n \in FreshColumns} ELSE {}]
  BY DEF Applied

LEMMA AppliesNothing ==
    ASSUME NEW s, NEW db, s.do \in {"commit", "rollback", "begin", "pragma"}
    PROVE  Applied(s, db) = db
  BY DEF Applied

-----------------------------------------------------------------------------
(* A database stays in order *)

LEMMA Replaces ==
    ASSUME NEW db, DbOK(db), NEW t \in Tables, NEW rows, RowsOK(t, rows),
           t = "runs" => \A u \in RunChildren : \A x \in db[u] : \E y \in rows : y.id[2] = x.run,
           t \in RunChildren => \A x \in rows : HasRun(db, x.run),
           t = "columns" => \A x \in db["columns"] : \E y \in rows : y.id[2] = x.id[2],
           t = "schema_version" => \A x \in rows : 1..x.id[2] \subseteq Ids(db, "columns")
    PROVE  DbOK([db EXCEPT ![t] = rows])
  <1> DEFINE new == [db EXCEPT ![t] = rows]
  <1>1. DOMAIN new = Tables /\ new[t] = rows /\ \A u \in Tables \ {t} : new[u] = db[u]
    BY DEF DbOK
  <1> HIDE DEF new
  <1>2. \A u \in Tables : RowsOK(u, new[u])
    BY <1>1 DEF DbOK
  <1>3. "runs" \notin RunChildren /\ "columns" # "schema_version"
    BY DEF RunChildren
  <1>4. ASSUME NEW u \in RunChildren, NEW x \in new[u]
        PROVE  HasRun(new, x.run)
    <2>1. CASE t = "runs"
      <3>1. u # t /\ u \in Tables
        BY <2>1, <1>3, TableNames
      <3>2. x \in db[u]
        BY <3>1, <1>1
      <3> QED
        BY <3>2, <2>1, <1>1 DEF HasRun, Ids
    <2>2. CASE t # "runs"
      <3>1. new["runs"] = db["runs"]
        BY <2>2, <1>1, TableNames
      <3>2. HasRun(db, x.run)
        BY <1>1, TableNames DEF DbOK
      <3> QED
        BY <3>1, <3>2 DEF HasRun, Ids
    <2> QED
      BY <2>1, <2>2
  <1>5. ASSUME NEW x \in new["schema_version"]
        PROVE  1..x.id[2] \subseteq Ids(new, "columns")
    <2>1. 1..x.id[2] \subseteq Ids(db, "columns")
      BY <1>1, TableNames DEF DbOK
    <2>2. Ids(db, "columns") \subseteq Ids(new, "columns")
      BY <1>1, TableNames DEF Ids
    <2> QED
      BY <2>1, <2>2
  <1>6. DbOK(new)
    BY <1>1, <1>2, <1>4, <1>5 DEF DbOK
  <1> QED
    BY <1>6 DEF new

LEMMA NoEffect ==
    ASSUME NEW t, NEW db, NEW rows
    PROVE  \A u \in DOMAIN db \ {t} : [db EXCEPT ![t] = rows][u] = db[u]
  OBVIOUS

\* Rows with other keys stay; those with the keys written are replaced.
LEMMA WritesKeepOrder ==
    ASSUME NEW s, NEW db, DbOK(db), WritesOK(s), ~ Refused(s, db),
           (s.do = "put" /\ s.table = "release_policies" /\ \E x \in s.rows : x.v = "default")
               => \A x \in db["release_policies"] : x.v # "default",
           s.table = "schema_version" =>
               \A x \in s.rows : 1..x.id[2] \subseteq Ids(db, "columns")
    PROVE  DbOK(Applied(s, db))
  <1> DEFINE old == {x \in db[s.table] : x.id \notin {y.id : y \in s.rows}}
             rows == old \cup s.rows
  <1>1. s.table \in Tables /\ s.do \in {"put", "insert", "alter"} /\ DOMAIN db = Tables
    BY DEF WritesOK, DbOK
  <1>2. Applied(s, db) = [db EXCEPT ![s.table] = rows]
    BY <1>1, WritesRows
  <1>3. old \subseteq db[s.table]
    OBVIOUS
  <1>4. \A x \in db[s.table] : x \in rows \/ \E y \in s.rows : x.id = y.id
    OBVIOUS
  <1> HIDE DEF old
  <1>5. RowsOK(s.table, db[s.table]) /\ RowsOK(s.table, s.rows)
    BY <1>1 DEF WritesOK, DbOK
  <1>6. RowsOK(s.table, rows)
    <2>1. s.table = "release_policies" => s.do = "put"
      BY DEF WritesOK
    <2>2. ASSUME s.table = "release_policies"
          PROVE  \A x, y \in rows : x.v = "default" /\ y.v = "default" => x = y
      <3>1. CASE \E x \in s.rows : x.v = "default"
        <4>1. \A x \in old : x.v # "default"
          BY <3>1, <2>1, <2>2, <1>3
        <4> QED
          BY <4>1, <1>5, <2>2 DEF RowsOK
      <3>2. CASE ~ \E x \in s.rows : x.v = "default"
        BY <3>2, <2>2, <1>3, <1>5 DEF RowsOK
      <3> QED
        BY <3>1, <3>2
    <2> QED
      BY <2>2, <1>3, <1>5 DEF RowsOK
  <1>7. s.table = "runs" => \A u \in RunChildren : \A x \in db[u] : \E y \in rows : y.id[2] = x.run
    <2> SUFFICES ASSUME s.table = "runs", NEW u \in RunChildren, NEW x \in db[u]
                 PROVE  \E y \in rows : y.id[2] = x.run
      OBVIOUS
    <2>1. PICK z \in db["runs"] : z.id[2] = x.run
      BY DEF DbOK, HasRun, Ids
    <2>2. z \in rows \/ \E y \in s.rows : z.id = y.id
      BY <1>4
    <2> QED
      BY <2>1, <2>2
  <1>8. s.table \in RunChildren => \A x \in rows : HasRun(db, x.run)
    <2>1. s.table \in RunChildren => s.do \in {"put", "insert"}
      BY DEF WritesOK, RunChildren
    <2>2. s.table \in RunChildren => \A x \in s.rows : HasRun(db, x.run)
      BY <2>1 DEF Refused
    <2> QED
      BY <2>2, <1>3 DEF DbOK
  <1>9. s.table = "columns" => \A x \in db["columns"] : \E y \in rows : y.id[2] = x.id[2]
    <2> SUFFICES ASSUME s.table = "columns", NEW x \in db["columns"]
                 PROVE  \E y \in rows : y.id[2] = x.id[2]
      OBVIOUS
    <2>1. x \in rows \/ \E y \in s.rows : x.id = y.id
      BY <1>4
    <2> QED
      BY <2>1
  <1>10. s.table = "schema_version" => \A x \in rows : 1..x.id[2] \subseteq Ids(db, "columns")
    BY <1>3 DEF DbOK
  <1> HIDE DEF rows
  <1>11. DbOK([db EXCEPT ![s.table] = rows])
    BY <1>1, <1>6, <1>7, <1>8, <1>9, <1>10, Replaces
  <1> QED
    BY <1>2, <1>11

LEMMA SetsKeepOrder ==
    ASSUME NEW s, NEW db, DbOK(db), StatementOK(s), s.do \in {"setAll", "setOne", "setWhere"}
    PROVE  /\ DbOK(Applied(s, db))
           /\ s.table = "release_policies" =>
                 \A x \in Applied(s, db)["release_policies"] : x.v # "default"
           /\ \A t \in Tables : Ids(Applied(s, db), t) = Ids(db, t)
           /\ Applied(s, db)["run_health_events"] = db["run_health_events"]
  <1>1. /\ s.table \in {"runs", "recorded_flows", "release_policies"}
        /\ s.table = "release_policies" => s.do = "setAll" /\ s.v = ""
    BY DEF StatementOK, WritesOK
  <1>2. s.table \in Tables /\ DOMAIN db = Tables
    BY <1>1, TableNames DEF DbOK
  <1>3. PICK rows :
           /\ Applied(s, db) = [db EXCEPT ![s.table] = rows]
           /\ \A y \in rows : \E x \in db[s.table] : y = x \/ y = [x EXCEPT !.v = s.v]
           /\ \A x \in db[s.table] : x \in rows \/ [x EXCEPT !.v = s.v] \in rows
           /\ s.do = "setAll" => \A y \in rows : \E x \in db[s.table] : y = [x EXCEPT !.v = s.v]
    BY <1>2, SetsRows
  <1>4. \A x \in db[s.table] : LET y == [x EXCEPT !.v = s.v]
                               IN  /\ DOMAIN y = {"id", "run", "v"}
                                   /\ y.id = x.id /\ y.run = x.run /\ y.v = s.v
    BY <1>2 DEF DbOK, RowsOK
  <1>5. \A y \in rows : \E x \in db[s.table] :
            DOMAIN y = {"id", "run", "v"} /\ y.id = x.id /\ y.run = x.run
    <2> SUFFICES ASSUME NEW y \in rows
                 PROVE  \E x \in db[s.table] :
                           DOMAIN y = {"id", "run", "v"} /\ y.id = x.id /\ y.run = x.run
      OBVIOUS
    <2>1. PICK x \in db[s.table] : y = x \/ y = [x EXCEPT !.v = s.v]
      BY <1>3
    <2>2. DOMAIN x = {"id", "run", "v"}
      BY <1>2 DEF DbOK, RowsOK
    <2> QED
      BY <2>1, <2>2, <1>4
  <1>6. \A x \in db[s.table] : \E y \in rows : y.id = x.id
    BY <1>3, <1>4
  <1>7. s.table = "release_policies" => \A y \in rows : y.v # "default"
    BY <1>1, <1>3, <1>4
  <1>8. RowsOK(s.table, rows)
    BY <1>1, <1>2, <1>5, <1>7 DEF DbOK, RowsOK
  <1>9. s.table = "runs" => \A u \in RunChildren : \A x \in db[u] : \E y \in rows : y.id[2] = x.run
    <2> SUFFICES ASSUME s.table = "runs", NEW u \in RunChildren, NEW x \in db[u]
                 PROVE  \E y \in rows : y.id[2] = x.run
      OBVIOUS
    <2>1. PICK z \in db["runs"] : z.id[2] = x.run
      BY DEF DbOK, HasRun, Ids
    <2>2. PICK y \in rows : y.id = z.id
      BY <1>6
    <2> QED
      BY <2>1, <2>2
  <1>10. s.table \notin RunChildren /\ s.table \notin {"columns", "schema_version", "run_health_events"}
    BY <1>1 DEF RunChildren
  <1>11. DbOK([db EXCEPT ![s.table] = rows])
    BY <1>2, <1>8, <1>9, <1>10, Replaces
  <1>12. \A t \in Tables : Ids(Applied(s, db), t) = Ids(db, t)
    <2> SUFFICES ASSUME NEW t \in Tables
                 PROVE  Ids(Applied(s, db), t) = Ids(db, t)
      OBVIOUS
    <2>1. CASE t # s.table
      BY <2>1, <1>2, <1>3 DEF Ids
    <2>2. CASE t = s.table
      <3>1. Applied(s, db)[t] = rows
        BY <2>2, <1>2, <1>3
      <3>2. \A i : (\E x \in db[t] : i = x.id[2]) <=> (\E y \in rows : i = y.id[2])
        BY <2>2, <1>5, <1>6
      <3> QED
        BY <3>1, <3>2 DEF Ids
    <2> QED
      BY <2>1, <2>2
  <1>13. Applied(s, db)["run_health_events"] = db["run_health_events"]
    BY <1>10, <1>2, <1>3, TableNames
  <1>14. s.table = "release_policies" => Applied(s, db)["release_policies"] = rows
    BY <1>2, <1>3
  <1> QED
    BY <1>3, <1>7, <1>11, <1>12, <1>13, <1>14

LEMMA DeletesKeepOrder ==
    ASSUME NEW s, NEW db, DbOK(db), StatementOK(s), s.do \in {"delete", "clear"}, ~ Refused(s, db)
    PROVE  /\ DbOK(Applied(s, db))
           /\ Ids(Applied(s, db), "columns") = Ids(db, "columns")
           /\ \A r : (s.table = "runs" => s.run # r) /\ HasRun(db, r) => HasRun(Applied(s, db), r)
           /\ IF s.do = "delete" /\ s.table = "run_health_events"
              THEN Applied(s, db)["run_health_events"] =
                       {x \in db["run_health_events"] : x.run # s.run}
              ELSE Applied(s, db)["run_health_events"] = db["run_health_events"]
  <1>1. /\ s.table \in {"run_cases", "artifacts", "run_health_events", "runs",
                        "telemetry_signals", "schema_version"}
        /\ s.table = "runs" => s.do = "delete"
        /\ s.table = "run_health_events" => s.do = "delete"
        /\ s.table = "schema_version" => s.do = "clear"
    BY DEF StatementOK, WritesOK
  <1>2. s.table \in Tables /\ DOMAIN db = Tables
    BY <1>1, TableNames DEF DbOK
  <1> DEFINE rows == IF s.do = "delete" THEN {x \in db[s.table] : x.run # s.run} ELSE {}
  <1>3. Applied(s, db) = [db EXCEPT ![s.table] = rows]
    BY <1>2, DeletesRows
  <1>4. rows \subseteq db[s.table]
    OBVIOUS
  <1>5. s.table \in {"runs", "run_health_events"} => rows = {x \in db[s.table] : x.run # s.run}
    BY <1>1
  <1>6. s.table = "schema_version" => rows = {}
    BY <1>1
  <1> HIDE DEF rows
  <1>7. RowsOK(s.table, db[s.table])
    BY <1>2 DEF DbOK
  <1>8. RowsOK(s.table, rows)
    BY <1>4, <1>7 DEF RowsOK
  <1>9. s.table = "runs" => \A u \in RunChildren : \A x \in db[u] : \E y \in rows : y.id[2] = x.run
    <2> SUFFICES ASSUME s.table = "runs", NEW u \in RunChildren, NEW x \in db[u]
                 PROVE  \E y \in rows : y.id[2] = x.run
      OBVIOUS
    <2>1. PICK z \in db["runs"] : z.id[2] = x.run
      BY DEF DbOK, HasRun, Ids
    <2>2. x.run # s.run
      BY <1>1 DEF Refused
    <2>3. z.run = x.run
      BY <2>1, <1>7 DEF RowsOK
    <2> QED
      BY <2>1, <2>2, <2>3, <1>5
  <1>10. s.table \in RunChildren => \A x \in rows : HasRun(db, x.run)
    BY <1>4 DEF DbOK
  <1>11. s.table # "columns"
    BY <1>1
  <1>12. s.table = "schema_version" => \A x \in rows : 1..x.id[2] \subseteq Ids(db, "columns")
    BY <1>6
  <1>13. DbOK([db EXCEPT ![s.table] = rows])
    BY <1>2, <1>8, <1>9, <1>10, <1>11, <1>12, Replaces
  <1>14. \A t \in Tables : Applied(s, db)[t] = IF t = s.table THEN rows ELSE db[t]
    BY <1>2, <1>3
  <1>15. Ids(Applied(s, db), "columns") = Ids(db, "columns")
    BY <1>11, <1>14, TableNames DEF Ids
  <1>16. ASSUME NEW r, s.table = "runs" => s.run # r, HasRun(db, r)
         PROVE  HasRun(Applied(s, db), r)
    <2>1. PICK z \in db["runs"] : z.id[2] = r
      BY <1>16 DEF HasRun, Ids
    <2>2. z.run = r
      BY <2>1, TableNames DEF DbOK, RowsOK
    <2>3. z \in Applied(s, db)["runs"]
      BY <2>2, <1>5, <1>14, <1>16, TableNames
    <2> QED
      BY <2>1, <2>3 DEF HasRun, Ids
  <1>17. IF s.do = "delete" /\ s.table = "run_health_events"
         THEN Applied(s, db)["run_health_events"] =
                  {x \in db["run_health_events"] : x.run # s.run}
         ELSE Applied(s, db)["run_health_events"] = db["run_health_events"]
    BY <1>1, <1>5, <1>14, TableNames
  <1> QED
    BY <1>3, <1>13, <1>15, <1>16, <1>17

LEMMA CreateKeepsOrder ==
    ASSUME NEW s, NEW db, DbOK(db), s.do = "create"
    PROVE  /\ DbOK(Applied(s, db))
           /\ Ids(db, "columns") \subseteq Ids(Applied(s, db), "columns")
           /\ \A t \in Tables \ {"columns"} : Applied(s, db)[t] = db[t]
  <1> DEFINE new == {Row("columns", n, NoRun, "") : n \in FreshColumns}
             rows == db["columns"] \cup IF db["columns"] = {} THEN new ELSE {}
  <1>1. DOMAIN db = Tables /\ "columns" \in Tables
    BY TableNames DEF DbOK
  <1>2. Applied(s, db) = [db EXCEPT !["columns"] = rows]
    BY <1>1, CreatesTables
  <1>3. \A x \in new : DOMAIN x = {"id", "run", "v"} /\ x.id[2] \in 1..Columns
    <2> SUFFICES ASSUME NEW n \in FreshColumns
                 PROVE  LET x == Row("columns", n, NoRun, "")
                        IN  DOMAIN x = {"id", "run", "v"} /\ x.id[2] \in 1..Columns
      OBVIOUS
    <2>1. n \in 1..Columns
      BY GroupsAssumption
    <2>2. Row("columns", n, NoRun, "").id[2] = n
      BY DEF Row
    <2>3. DOMAIN Row("columns", n, NoRun, "") = {"id", "run", "v"}
      BY DEF Row
    <2> HIDE DEF Row
    <2> QED
      BY <2>1, <2>2, <2>3
  <1>4. \A x \in rows : x \in db["columns"] \/ x \in new
    OBVIOUS
  <1>5. db["columns"] \subseteq rows
    OBVIOUS
  <1> HIDE DEF new, rows
  <1>6. RowsOK("columns", rows)
    BY <1>1, <1>3, <1>4 DEF DbOK, RowsOK
  <1>7. "columns" \notin RunChildren
    BY DEF RunChildren
  <1>8. DbOK([db EXCEPT !["columns"] = rows])
    BY <1>1, <1>5, <1>6, <1>7, Replaces
  <1> QED
    BY <1>1, <1>2, <1>5, <1>8 DEF Ids

LEMMA WritesEffect ==
    ASSUME NEW s, NEW db, DbOK(db), WritesOK(s)
    PROVE  \A t \in Tables :
              /\ t # s.table => Applied(s, db)[t] = db[t]
              /\ Ids(Applied(s, db), t) =
                    Ids(db, t) \cup IF t = s.table THEN {x.id[2] : x \in s.rows} ELSE {}
  <1>1. s.table \in Tables /\ s.do \in {"put", "insert", "alter"} /\ DOMAIN db = Tables
    BY DEF WritesOK, DbOK
  <1>2. PICK rows :
           /\ Applied(s, db) = [db EXCEPT ![s.table] = rows]
           /\ \A x \in rows : x \in db[s.table] \/ x \in s.rows
           /\ \A x \in db[s.table] : x \in rows \/ \E y \in s.rows : x.id = y.id
           /\ s.rows \subseteq rows
    <2> DEFINE rows == {x \in db[s.table] : x.id \notin {y.id : y \in s.rows}} \cup s.rows
    <2>1. Applied(s, db) = [db EXCEPT ![s.table] = rows]
      BY <1>1, WritesRows
    <2>2. \A x \in rows : x \in db[s.table] \/ x \in s.rows
      OBVIOUS
    <2>3. \A x \in db[s.table] : x \in rows \/ \E y \in s.rows : x.id = y.id
      OBVIOUS
    <2>4. s.rows \subseteq rows
      OBVIOUS
    <2> HIDE DEF rows
    <2> QED
      BY <2>1, <2>2, <2>3, <2>4
  <1>3. {x.id[2] : x \in rows} = {x.id[2] : x \in db[s.table]} \cup {x.id[2] : x \in s.rows}
    <2> DEFINE B == db[s.table]
               C == s.rows
    <2>1. /\ \A x \in rows : x \in B \/ x \in C
          /\ \A x \in B : x \in rows \/ \E y \in C : x.id = y.id
          /\ C \subseteq rows
      BY <1>2
    <2> HIDE DEF B, C
    <2>2. {x.id[2] : x \in rows} \subseteq {x.id[2] : x \in B} \cup {x.id[2] : x \in C}
      BY <2>1
    <2>3. {x.id[2] : x \in B} \subseteq {x.id[2] : x \in rows}
      BY <2>1
    <2>4. {x.id[2] : x \in C} \subseteq {x.id[2] : x \in rows}
      BY <2>1
    <2>5. {x.id[2] : x \in rows} = {x.id[2] : x \in B} \cup {x.id[2] : x \in C}
      BY <2>2, <2>3, <2>4
    <2> QED
      BY <2>5 DEF B, C
  <1>4. \A t \in Tables : Applied(s, db)[t] = IF t = s.table THEN rows ELSE db[t]
    BY <1>1, <1>2
  <1>5. Ids(Applied(s, db), s.table) = Ids(db, s.table) \cup {x.id[2] : x \in s.rows}
    <2>1. Ids(Applied(s, db), s.table) = {x.id[2] : x \in rows}
      BY <1>1, <1>4 DEF Ids
    <2>2. Ids(db, s.table) = {x.id[2] : x \in db[s.table]}
      BY DEF Ids
    <2> QED
      BY <2>1, <2>2, <1>3
  <1>6. \A t \in Tables : t # s.table => Ids(Applied(s, db), t) = Ids(db, t)
    BY <1>4 DEF Ids
  <1> QED
    BY <1>4, <1>5, <1>6

\* The rules for the first statement of a group, as they stand in the database.
Ready(s, db) ==
    /\ s.do = "put" /\ s.table = "release_policies" /\ (\E x \in s.rows : x.v = "default")
          => \A x \in db["release_policies"] : x.v # "default"
    /\ s.do = "delete" /\ s.table = "runs" => \A x \in db["run_health_events"] : x.run # s.run
    /\ InsertsEvents(s) => \A x \in s.rows :
          /\ x.id[2][2] = "run_queued" => HasRun(db, x.run)
          /\ x.id[2][2] = "auth_context_resolved" =>
                HasRun(db, x.run) /\ <<x.run, "run_queued">> \in EventIds(db)
    /\ s.do = "insert" /\ s.table = "schema_version" =>
          \A x \in s.rows : 1..x.id[2] \subseteq Ids(db, "columns")

LEMMA HeadIsReady ==
    ASSUME NEW p, NEW db, PlanOK(p, db), p # <<>>
    PROVE  StatementOK(p[1]) /\ Ready(p[1], db)
  <1>1. 1 \in 1..Len(p)
    BY TailOf DEF PlanOK
  <1>2. /\ StatementOK(p[1]) /\ DefaultPrepared(p, 1, db) /\ DeletePrepared(p, 1, db)
        /\ InitialPrepared(p, 1, db) /\ VersionPrepared(p, 1, db)
    BY <1>1 DEF PlanOK
  <1>3. p[1].do = "insert" /\ p[1].table = "schema_version" =>
            \A x \in p[1].rows : 1..x.id[2] \subseteq Ids(db, "columns")
    BY <1>2 DEF VersionPrepared
  <1>4. InsertsEvents(p[1]) => \A x \in p[1].rows :
          /\ x.id[2][2] = "run_queued" => HasRun(db, x.run)
          /\ x.id[2][2] = "auth_context_resolved" =>
                HasRun(db, x.run) /\ <<x.run, "run_queued">> \in EventIds(db)
    BY <1>2 DEF InitialPrepared
  <1> QED
    BY <1>2, <1>3, <1>4 DEF Ready, DefaultPrepared, DeletePrepared

\* A statement that is not refused keeps the database in order, its columns
\* and, but for the run it deletes, its runs.
LEMMA AppliedKeepsOrder ==
    ASSUME NEW s, NEW db, DbOK(db), StatementOK(s), Ready(s, db), ~ Refused(s, db)
    PROVE  /\ DbOK(Applied(s, db))
           /\ Ids(db, "columns") \subseteq Ids(Applied(s, db), "columns")
           /\ \A r : (s.do = "delete" /\ s.table = "runs" => s.run # r) /\ HasRun(db, r)
                         => HasRun(Applied(s, db), r)
  <1>1. CASE WritesOK(s)
    <2>1. s.table = "schema_version" => s.do = "insert"
      BY <1>1 DEF WritesOK
    <2>2. DbOK(Applied(s, db))
      BY <1>1, <2>1, WritesKeepOrder DEF Ready
    <2>3. \A t \in Tables : Ids(db, t) \subseteq Ids(Applied(s, db), t)
      BY <1>1, WritesEffect
    <2> QED
      BY <2>2, <2>3, TableNames DEF HasRun
  <1>2. CASE s.do \in {"setAll", "setOne", "setWhere"}
    BY <1>2, SetsKeepOrder, TableNames DEF HasRun
  <1>3. CASE s.do \in {"delete", "clear"}
    <2>1. s.table = "runs" => s.do = "delete"
      BY <1>3 DEF StatementOK, WritesOK
    <2> QED
      BY <2>1, <1>3, DeletesKeepOrder
  <1>4. CASE s.do = "create"
    <2>1. Applied(s, db)["runs"] = db["runs"]
      BY <1>4, CreateKeepsOrder, TableNames
    <2> QED
      BY <2>1, <1>4, CreateKeepsOrder DEF HasRun, Ids
  <1>5. CASE s.do \in {"commit", "rollback", "begin", "pragma"}
    BY <1>5, AppliesNothing
  <1> QED
    BY <1>1, <1>2, <1>3, <1>4, <1>5 DEF StatementOK

\* What a statement has prepared when it is done.
Prepares(s, db, new) ==
    /\ Ids(db, "columns") \subseteq Ids(new, "columns")
    /\ s = SetAll("release_policies", "") => \A x \in new["release_policies"] : x.v # "default"
    /\ \A r : s = DeleteRun("run_health_events", r) => \A x \in new["run_health_events"] : x.run # r
    /\ \A r : s = Insert("runs", {r}, r, "queued") => HasRun(new, r)
    /\ \A r : s = Queued(r) => HasRun(new, r) /\ <<r, "run_queued">> \in EventIds(new)
    /\ \A u : s = AddColumn(u) => u \in Ids(new, "columns")

LEMMA InsertPrepares ==
    ASSUME NEW t \in Tables, NEW i, NEW r, NEW v, NEW db, DbOK(db),
           WritesOK(Insert(t, {i}, r, v))
    PROVE  i \in Ids(Applied(Insert(t, {i}, r, v), db), t)
  <1> DEFINE s == Insert(t, {i}, r, v)
  <1>1. s.table = t /\ s.rows = {Row(t, i, r, v)}
    BY DEF Insert
  <1>2. Row(t, i, r, v).id[2] = i
    BY DEF Row
  <1> HIDE DEF s
  <1>3. i \in {x.id[2] : x \in s.rows}
    BY <1>1, <1>2
  <1>4. WritesOK(s)
    BY DEF s
  <1>5. i \in Ids(Applied(s, db), t)
    BY <1>1, <1>3, <1>4, WritesEffect
  <1> QED
    BY <1>5 DEF s

LEMMA AppliedPrepares ==
    ASSUME NEW s, NEW db, DbOK(db), StatementOK(s), Ready(s, db), ~ Refused(s, db)
    PROVE  Prepares(s, db, Applied(s, db))
  <1> DEFINE new == Applied(s, db)
  <1>1. Ids(db, "columns") \subseteq Ids(new, "columns")
    BY AppliedKeepsOrder
  <1>2. s = SetAll("release_policies", "") => \A x \in new["release_policies"] : x.v # "default"
    <2> SUFFICES ASSUME s = SetAll("release_policies", "")
                 PROVE  \A x \in new["release_policies"] : x.v # "default"
      OBVIOUS
    <2>1. s.do = "setAll" /\ s.table = "release_policies"
      BY DEF SetAll
    <2> QED
      BY <2>1, SetsKeepOrder
  <1>3. ASSUME NEW r, s = DeleteRun("run_health_events", r)
        PROVE  \A x \in new["run_health_events"] : x.run # r
    <2>1. s.do = "delete" /\ s.table = "run_health_events" /\ s.run = r
      BY <1>3 DEF DeleteRun
    <2>2. new["run_health_events"] = {x \in db["run_health_events"] : x.run # s.run}
      BY <2>1, DeletesKeepOrder
    <2> HIDE DEF new
    <2> QED
      BY <2>1, <2>2
  <1>4. ASSUME NEW r, s = Insert("runs", {r}, r, "queued")
        PROVE  HasRun(new, r)
    <2>1. s.do = "insert" /\ s.table = "runs"
      BY <1>4 DEF Insert
    <2>2. WritesOK(s)
      BY <2>1 DEF StatementOK
    <2> QED
      BY <2>2, <1>4, InsertPrepares, TableNames DEF HasRun
  <1>5. ASSUME NEW r, s = Queued(r)
        PROVE  HasRun(new, r) /\ <<r, "run_queued">> \in EventIds(new)
    <2>1. s.do = "insert" /\ s.table = "run_health_events"
      BY <1>5 DEF Insert, Queued
    <2>2. WritesOK(s)
      BY <2>1 DEF StatementOK
    <2>3. <<r, "run_queued">> \in EventIds(new)
      BY <2>2, <1>5, InsertPrepares, TableNames DEF EventIds, Queued
    <2>4. s.rows = {Row("run_health_events", <<r, "run_queued">>, r, "")}
      BY <1>5 DEF Queued, Insert
    <2>5. PICK x \in s.rows : x.run = r /\ x.id[2][2] = "run_queued"
      <3> DEFINE x == Row("run_health_events", <<r, "run_queued">>, r, "")
      <3>1. x.run = r /\ x.id[2][2] = "run_queued"
        BY DEF Row
      <3> HIDE DEF x
      <3> QED
        BY <2>4, <3>1 DEF x
    <2>6. HasRun(db, r)
      BY <2>1, <2>5 DEF Ready, InsertsEvents
    <2>7. HasRun(new, r)
      BY <2>1, <2>6, AppliedKeepsOrder
    <2> QED
      BY <2>3, <2>7
  <1>6. ASSUME NEW u, s = AddColumn(u)
        PROVE  u \in Ids(new, "columns")
    <2>1. s.do = "alter" /\ s.table = "columns" /\ s.rows = {Row("columns", u, NoRun, "")}
      BY <1>6 DEF AddColumn
    <2>2. WritesOK(s)
      BY <2>1 DEF StatementOK
    <2>3. Row("columns", u, NoRun, "").id[2] = u
      BY DEF Row
    <2>4. u \in {x.id[2] : x \in s.rows}
      BY <2>1, <2>3
    <2> QED
      <3>1. Ids(new, s.table) = Ids(db, s.table) \cup {x.id[2] : x \in s.rows}
        <4>1. s.table \in Tables
          BY <2>2 DEF WritesOK
        <4> QED
          BY <2>2, <4>1, WritesEffect
      <3> QED
        BY <2>1, <2>4, <3>1
  <1> HIDE DEF new
  <1>7. Prepares(s, db, new)
    BY <1>1, <1>2, <1>3, <1>4, <1>5, <1>6 DEF Prepares
  <1> QED
    BY <1>7 DEF new

\* The rest of a group is in order on what the statement before it has left.
LEMMA RestIsOK ==
    ASSUME NEW p, NEW db, NEW new, PlanOK(p, db), p # <<>>, Prepares(p[1], db, new)
    PROVE  PlanOK(Tail(p), new)
  <1>1. /\ Len(p) \in Nat /\ 1 \in 1..Len(p)
        /\ Len(Tail(p)) = Len(p) - 1
        /\ \A n \in 1..Len(Tail(p)) : n + 1 \in 1..Len(p) /\ Tail(p)[n] = p[n + 1]
        /\ Tail(p) \in Seq({Tail(p)[n] : n \in 1..Len(Tail(p))})
    BY TailOf DEF PlanOK
  <1> DEFINE q == Tail(p)
  <1> SUFFICES ASSUME NEW n \in 1..Len(q)
               PROVE  /\ StatementOK(q[n])
                      /\ DefaultPrepared(q, n, new)
                      /\ DeletePrepared(q, n, new)
                      /\ InitialPrepared(q, n, new)
                      /\ VersionPrepared(q, n, new)
                      /\ q[n].do = "rollback" => n = Len(q)
    BY <1>1 DEF PlanOK
  <1>2. n + 1 \in 1..Len(p) /\ q[n] = p[n + 1] /\ n \in Nat /\ n # 0
    BY <1>1
  <1>3. n # 1 => q[n - 1] = p[n] /\ n \in 1..Len(p)
    BY <1>1
  <1>4. n + 2 \in 1..Len(p) => q[n + 1] = p[n + 2] /\ n + 1 \in 1..Len(q)
    BY <1>1
  <1>5. /\ StatementOK(p[n + 1])
        /\ DefaultPrepared(p, n + 1, db)
        /\ DeletePrepared(p, n + 1, db)
        /\ InitialPrepared(p, n + 1, db)
        /\ VersionPrepared(p, n + 1, db)
        /\ p[n + 1].do = "rollback" => n + 1 = Len(p)
    BY <1>2 DEF PlanOK
  <1>6. n + 1 # 1 /\ (n + 1) - 1 = n /\ (n + 1) + 1 = n + 2
    BY <1>2
  <1>7. Len(q) = Len(p) - 1
    BY <1>1
  <1>8. \A m \in 1..n : m = 1 \/ (m - 1 \in 1..(n - 1) /\ q[m - 1] = p[m])
    BY <1>1, <1>2
  <1> HIDE DEF q
  <1>9. DefaultPrepared(q, n, new)
    BY <1>2, <1>3, <1>5, <1>6 DEF DefaultPrepared, Prepares
  <1>10. DeletePrepared(q, n, new)
    BY <1>2, <1>3, <1>5, <1>6 DEF DeletePrepared, Prepares
  <1>11. InitialPrepared(q, n, new)
    <2> SUFFICES ASSUME InsertsEvents(q[n]), NEW x \in q[n].rows
                 PROVE  /\ x.id[2][2] = "run_queued" =>
                              /\ IF n = 1 THEN HasRun(new, x.run)
                                          ELSE q[n - 1] = Insert("runs", {x.run}, x.run, "queued")
                              /\ n + 1 \in 1..Len(q) /\ q[n + 1] = Resolved(x.run)
                        /\ x.id[2][2] = "auth_context_resolved" =>
                              IF n = 1 THEN HasRun(new, x.run) /\ <<x.run, "run_queued">> \in EventIds(new)
                                       ELSE q[n - 1] = Queued(x.run)
      BY DEF InitialPrepared
    <2>1. /\ x.id[2][2] = "run_queued" =>
                /\ p[n] = Insert("runs", {x.run}, x.run, "queued")
                /\ n + 2 \in 1..Len(p) /\ p[n + 2] = Resolved(x.run)
          /\ x.id[2][2] = "auth_context_resolved" => p[n] = Queued(x.run)
      BY <1>2, <1>5, <1>6 DEF InitialPrepared
    <2> QED
      BY <2>1, <1>3, <1>4 DEF Prepares
  <1>12. VersionPrepared(q, n, new)
    <2> SUFFICES ASSUME q[n].do = "insert", q[n].table = "schema_version",
                        NEW x \in q[n].rows, NEW u \in 1..x.id[2]
                 PROVE  u \in Ids(new, "columns") \/ \E m \in 1..(n - 1) : q[m] = AddColumn(u)
      BY DEF VersionPrepared
    <2>1. u \in Ids(db, "columns") \/ \E m \in 1..n : p[m] = AddColumn(u)
      BY <1>2, <1>5, <1>6 DEF VersionPrepared
    <2>2. ASSUME NEW m \in 1..n, p[m] = AddColumn(u)
          PROVE  u \in Ids(new, "columns") \/ \E k \in 1..(n - 1) : q[k] = AddColumn(u)
      BY <2>2, <1>8 DEF Prepares
    <2> QED
      BY <2>1, <2>2 DEF Prepares
  <1> QED
    BY <1>2, <1>5, <1>7, <1>9, <1>10, <1>11, <1>12

-----------------------------------------------------------------------------
(* The first events of a run *)

LEMMA InitialNames ==
    ASSUME NEW r, NEW e \in Initial(r)
    PROVE  e[1] = r /\ e[2] \in Names
  BY DEF Initial, Names

LEMMA InitialRows ==
    ASSUME NEW db, DbOK(db), NEW r, NEW x \in db["run_health_events"], x.id[2] \in Initial(r)
    PROVE  x.run = r
  <1>1. x.id[2][1] = r /\ x.id[2][2] \in Names
    BY InitialNames
  <1> QED
    BY <1>1, TableNames DEF DbOK, RowsOK

LEMMA SameEventsStayWhole ==
    ASSUME NEW db, NEW new, NEW r, WholeFor(db, r),
           Initial(r) \cap EventIds(new) = Initial(r) \cap EventIds(db),
           HasRun(db, r) => HasRun(new, r)
    PROVE  WholeFor(new, r)
  BY DEF WholeFor

LEMMA InsertedEventsStayWhole ==
    ASSUME NEW s, NEW db, DbOK(db), WritesOK(s), InsertsEvents(s), Ready(s, db),
           ~ Refused(s, db), NEW r, WholeFor(db, r) \/ s = Resolved(r), s # Queued(r)
    PROVE  WholeFor(Applied(s, db), r)
  <1> DEFINE new == Applied(s, db)
  <1>1. StatementOK(s)
    BY DEF StatementOK
  <1>2. EventIds(new) = EventIds(db) \cup {x.id[2] : x \in s.rows}
    <2>1. s.table = "run_health_events" /\ s.table \in Tables
      BY TableNames DEF InsertsEvents
    <2>2. Ids(new, s.table) = Ids(db, s.table) \cup {x.id[2] : x \in s.rows}
      BY <2>1, WritesEffect
    <2> QED
      BY <2>1, <2>2 DEF EventIds
  <1>3. HasRun(db, r) => HasRun(new, r)
    BY <1>1, AppliedKeepsOrder DEF InsertsEvents
  <1> HIDE DEF new
  <1>4. CASE \A x \in s.rows : x.id[2][2] \notin Names
    <2>1. s # Resolved(r)
      <3> SUFFICES ASSUME s = Resolved(r)
                   PROVE  FALSE
        OBVIOUS
      <3> DEFINE x == Row("run_health_events", <<r, "auth_context_resolved">>, r, "")
      <3>1. x \in s.rows
        BY DEF Resolved, Insert
      <3>2. x.id[2][2] = "auth_context_resolved"
        BY DEF Row
      <3> HIDE DEF x
      <3> QED
        BY <1>4, <3>1, <3>2 DEF Names
    <2>2. Initial(r) \cap {x.id[2] : x \in s.rows} = {}
      BY <1>4, InitialNames
    <2>3. Initial(r) \cap EventIds(new) = Initial(r) \cap EventIds(db)
      BY <1>2, <2>2
    <2>4. WholeFor(new, r)
      BY <2>1, <2>3, <1>3, SameEventsStayWhole
    <2> QED
      BY <2>4 DEF new
  <1>5. ASSUME NEW x \in s.rows, s = Queued(x.run) \/ s = Resolved(x.run)
        PROVE  WholeFor(new, r)
    <2> DEFINE q == x.run
               e == IF s = Queued(q) THEN <<q, "run_queued">> ELSE <<q, "auth_context_resolved">>
    <2>1. s.rows = {Row("run_health_events", e, q, "")}
      <3>1. CASE s = Queued(q)
        BY <3>1 DEF Queued, Insert
      <3>2. CASE s # Queued(q) /\ s = Resolved(q)
        BY <3>2 DEF Resolved, Insert
      <3> QED
        BY <1>5, <3>1, <3>2
    <2>2. x.id[2] = e /\ x.run = q
      <3>1. x = Row("run_health_events", e, q, "")
        BY <2>1
      <3> HIDE DEF e, q
      <3> QED
        BY <3>1 DEF Row
    <2>3. s.rows = {x}
      BY <2>1
    <2>4. EventIds(new) = EventIds(db) \cup {e}
      <3>1. {y.id[2] : y \in s.rows} = {e}
        <4> HIDE DEF e, q
        <4> QED
          BY <2>2, <2>3
      <3> QED
        BY <1>2, <3>1
    <2>5. CASE q # r
      <3>1. e \notin Initial(r)
        BY <2>5 DEF Initial
      <3>2. Initial(r) \cap EventIds(new) = Initial(r) \cap EventIds(db)
        BY <2>4, <3>1
      <3>3. s # Resolved(r)
        <4> SUFFICES ASSUME s = Resolved(r)
                     PROVE  FALSE
          OBVIOUS
        <4> DEFINE y == Row("run_health_events", <<r, "auth_context_resolved">>, r, "")
        <4>1. y \in s.rows
          BY DEF Resolved, Insert
        <4>2. y.run = r
          BY DEF Row
        <4> HIDE DEF y
        <4> QED
          BY <4>1, <4>2, <2>3, <2>5
      <3> QED
        BY <3>2, <3>3, <1>3, SameEventsStayWhole
    <2>6. CASE q = r
      <3>1. s = Resolved(r) /\ s # Queued(q)
        BY <1>5, <2>6
      <3>2. e = <<r, "auth_context_resolved">>
        BY <2>6, <3>1
      <3>3. HasRun(db, r) /\ <<r, "run_queued">> \in EventIds(db)
        <4>1. x.id[2][2] = "auth_context_resolved"
          BY <2>2, <3>2
        <4> QED
          BY <4>1, <2>6 DEF Ready
      <3> QED
        BY <2>4, <3>2, <3>3, <1>3 DEF WholeFor, Initial
    <2> QED
      BY <2>5, <2>6
  <1> QED
    BY <1>4, <1>5 DEF WritesOK, new

LEMMA StaysWhole ==
    ASSUME NEW s, NEW db, DbOK(db), StatementOK(s), Ready(s, db), ~ Refused(s, db),
           NEW r, WholeFor(db, r) \/ s = Resolved(r), s # Queued(r)
    PROVE  WholeFor(Applied(s, db), r)
  <1> DEFINE new == Applied(s, db)
  <1>1. CASE WritesOK(s) /\ InsertsEvents(s)
    BY <1>1, InsertedEventsStayWhole
  <1>2. CASE ~ (WritesOK(s) /\ InsertsEvents(s))
    <2>1. s # Resolved(r)
      <3>1. ASSUME s = Resolved(r)
            PROVE  InsertsEvents(s)
        BY <3>1 DEF Resolved, Insert, InsertsEvents
      <3>2. InsertsEvents(s) => WritesOK(s)
        BY DEF StatementOK, InsertsEvents
      <3> QED
        BY <1>2, <3>1, <3>2
    <2>2. WholeFor(db, r)
      BY <2>1
    <2>3. CASE s.do = "delete" /\ s.table = "run_health_events"
      <3>1. new["run_health_events"] = {x \in db["run_health_events"] : x.run # s.run}
        BY <2>3, DeletesKeepOrder
      <3>2. HasRun(db, r) => HasRun(new, r)
        BY <2>3, DeletesKeepOrder
      <3> HIDE DEF new
      <3>3. CASE s.run = r
        <4>1. Initial(r) \cap EventIds(new) = {}
          BY <3>1, <3>3, InitialRows DEF EventIds, Ids
        <4> QED
          BY <4>1 DEF WholeFor, new
      <3>4. CASE s.run # r
        <4>1. \A x \in db["run_health_events"] :
                  x.id[2] \in Initial(r) => x \in new["run_health_events"]
          BY <3>1, <3>4, InitialRows
        <4>2. new["run_health_events"] \subseteq db["run_health_events"]
          BY <3>1
        <4>3. Initial(r) \cap EventIds(new) = Initial(r) \cap EventIds(db)
          BY <4>1, <4>2 DEF EventIds, Ids
        <4> QED
          BY <2>2, <3>2, <4>3, SameEventsStayWhole DEF new
      <3> QED
        BY <3>3, <3>4
    <2>4. CASE ~ (s.do = "delete" /\ s.table = "run_health_events")
      <3>1. new["run_health_events"] = db["run_health_events"]
        <4>1. CASE WritesOK(s)
          <5>1. s.table # "run_health_events"
            BY <4>1, <1>2 DEF WritesOK, InsertsEvents
          <5> QED
            BY <4>1, <5>1, WritesEffect, TableNames
        <4>2. CASE s.do \in {"setAll", "setOne", "setWhere"}
          BY <4>2, SetsKeepOrder
        <4>3. CASE s.do \in {"delete", "clear"}
          BY <4>3, <2>4, DeletesKeepOrder
        <4>4. CASE s.do = "create"
          BY <4>4, CreateKeepsOrder, TableNames
        <4>5. CASE s.do \in {"commit", "rollback", "begin", "pragma"}
          BY <4>5, AppliesNothing
        <4> QED
          BY <4>1, <4>2, <4>3, <4>4, <4>5 DEF StatementOK
      <3>2. EventIds(new) = EventIds(db)
        BY <3>1 DEF EventIds, Ids
      <3>3. CASE s.do = "delete" /\ s.table = "runs" /\ s.run = r
        <4>1. \A x \in db["run_health_events"] : x.run # r
          BY <3>3 DEF Ready
        <4>2. Initial(r) \cap EventIds(db) = {}
          BY <4>1, InitialRows DEF EventIds, Ids
        <4> QED
          BY <3>2, <4>2 DEF WholeFor
      <3>4. CASE ~ (s.do = "delete" /\ s.table = "runs" /\ s.run = r)
        <4>1. HasRun(db, r) => HasRun(new, r)
          BY <3>4, AppliedKeepsOrder
        <4> QED
          BY <4>1, <2>2, <3>2, SameEventsStayWhole
      <3> QED
        BY <3>3, <3>4
    <2> QED
      BY <2>3, <2>4
  <1> QED
    BY <1>1, <1>2

-----------------------------------------------------------------------------
(* Every group is in order *)

\* A statement that nothing has to prepare.
Plain(s) ==
    /\ StatementOK(s)
    /\ s.do # "rollback"
    /\ ~ (s.do = "put" /\ s.table = "release_policies" /\ \E x \in s.rows : x.v = "default")
    /\ ~ (s.do = "delete" /\ s.table = "runs")
    /\ InsertsEvents(s) => \A x \in s.rows : x.id[2][2] \notin Names
    /\ ~ (s.do = "insert" /\ s.table = "schema_version")

LEMMA PlainIsPrepared ==
    ASSUME NEW p, NEW n, NEW db, Plain(p[n])
    PROVE  /\ StatementOK(p[n])
           /\ DefaultPrepared(p, n, db)
           /\ DeletePrepared(p, n, db)
           /\ InitialPrepared(p, n, db)
           /\ VersionPrepared(p, n, db)
           /\ p[n].do = "rollback" => n = Len(p)
  <1>1. InitialPrepared(p, n, db)
    BY DEF InitialPrepared, Plain, Names
  <1>2. DefaultPrepared(p, n, db)
    BY DEF DefaultPrepared, Plain
  <1>3. DeletePrepared(p, n, db)
    BY DEF DeletePrepared, Plain
  <1>4. VersionPrepared(p, n, db)
    BY DEF VersionPrepared, Plain
  <1> QED
    BY <1>1, <1>2, <1>3, <1>4 DEF Plain

LEMMA PlainPlan ==
    ASSUME NEW p, NEW db, p \in Seq({p[n] : n \in 1..Len(p)}),
           \A n \in 1..Len(p) : Plain(p[n])
    PROVE  PlanOK(p, db)
  BY PlainIsPrepared DEF PlanOK

LEMMA EmptyPlan ==
    ASSUME NEW db
    PROVE  PlanOK(<<>>, db)
  <1>1. <<>> \in Seq({<<>>[n] : n \in 1..Len(<<>>)}) /\ 1..Len(<<>>) = {}
    OBVIOUS
  <1> QED
    BY <1>1 DEF PlanOK

LEMMA Ends ==
    /\ Plain(Commit) /\ Plain(Begin) /\ Plain(Pragma) /\ Plain(Create)
    /\ StatementOK(Rollback)
  BY DEF Plain, StatementOK, WritesOK, InsertsEvents, Commit, Begin, Pragma, Create, Rollback

LEMMA OneWrite ==
    ASSUME NEW s, NEW db, Plain(s)
    PROVE  PlanOK(<<s, Commit>>, db)
  <1> DEFINE p == <<s, Commit>>
  <1>1. p \in Seq({s, Commit}) /\ Len(p) = 2 /\ p[1] = s /\ p[2] = Commit
    OBVIOUS
  <1> HIDE DEF p
  <1>2. p \in Seq({p[n] : n \in 1..Len(p)})
    BY <1>1, OwnSeq
  <1>3. \A n \in 1..Len(p) : Plain(p[n])
    BY <1>1, Ends
  <1>4. PlanOK(p, db)
    BY <1>2, <1>3, PlainPlan
  <1> QED
    BY <1>4 DEF p

LEMMA PutIsPlain ==
    ASSUME NEW t \in Tables \ {"runs", "run_health_events", "columns", "schema_version"},
           NEW i, NEW r, NEW v, t = "release_policies" => v # "default"
    PROVE  Plain(Put(t, i, r, v))
  <1> DEFINE s == Put(t, i, r, v)
             x == Row(t, i, r, v)
  <1>1. s.do = "put" /\ s.table = t /\ s.rows = {x}
    BY DEF Put
  <1>2. DOMAIN x = {"id", "run", "v"} /\ x.v = v
    BY DEF Row
  <1> HIDE DEF s, x
  <1>3. RowsOK(t, {x})
    BY <1>2 DEF RowsOK
  <1>4. WritesOK(s)
    BY <1>1, <1>3 DEF WritesOK, InsertsEvents
  <1>5. Plain(s)
    BY <1>1, <1>2, <1>4 DEF Plain, StatementOK, InsertsEvents
  <1> QED
    BY <1>5 DEF s

LEMMA InsertIsPlain ==
    ASSUME NEW t \in Tables \ {"columns", "release_policies", "schema_version"},
           NEW ids, NEW r, NEW v,
           t = "runs" => ids = {r},
           t = "run_health_events" => \A e \in ids : e[2] \notin Names
    PROVE  Plain(Insert(t, ids, r, v))
  <1> DEFINE s == Insert(t, ids, r, v)
  <1>1. s.do = "insert" /\ s.table = t /\ s.rows = {Row(t, i, r, v) : i \in ids}
    BY DEF Insert
  <1>2. \A i : /\ DOMAIN Row(t, i, r, v) = {"id", "run", "v"}
               /\ Row(t, i, r, v).id[2] = i /\ Row(t, i, r, v).run = r
    BY DEF Row
  <1>3. \A x \in s.rows : DOMAIN x = {"id", "run", "v"} /\ x.id[2] \in ids /\ x.run = r
    BY <1>1, <1>2
  <1> HIDE DEF s
  <1>4. t = "run_health_events" => \A x \in s.rows : x.id[2][2] \notin Names
    BY <1>3
  <1>5. t = "runs" => \A x \in s.rows : x.id[2] = x.run
    BY <1>3
  <1>6. RowsOK(t, s.rows)
    BY <1>3, <1>4, <1>5 DEF RowsOK
  <1>7. WritesOK(s)
    BY <1>1, <1>4, <1>6 DEF WritesOK, InsertsEvents
  <1>8. Plain(s)
    BY <1>1, <1>4, <1>7 DEF Plain, StatementOK, InsertsEvents
  <1> QED
    BY <1>8 DEF s

LEMMA SetOneIsPlain ==
    ASSUME NEW t \in {"runs", "recorded_flows"}, NEW i, NEW v
    PROVE  Plain(SetOne(t, i, v))
  <1> DEFINE s == SetOne(t, i, v)
  <1>1. s.do = "setOne" /\ s.table = t
    BY DEF SetOne
  <1> HIDE DEF s
  <1>2. Plain(s)
    BY <1>1 DEF Plain, StatementOK, InsertsEvents
  <1> QED
    BY <1>2 DEF s

LEMMA DeletesArePlain ==
    /\ Plain(Clear("telemetry_signals")) /\ Plain(Clear("schema_version"))
    /\ Plain(Fail("running", "failed"))
    /\ Plain(SetAll("release_policies", ""))
    /\ \A r : \A t \in {"run_cases", "artifacts", "run_health_events"} : Plain(DeleteRun(t, r))
  <1>1. Plain(Clear("telemetry_signals")) /\ Plain(Clear("schema_version"))
    BY DEF Clear, Plain, StatementOK, InsertsEvents
  <1>2. Plain(Fail("running", "failed"))
    BY DEF Fail, Plain, StatementOK, InsertsEvents
  <1>3. Plain(SetAll("release_policies", ""))
    BY DEF SetAll, Plain, StatementOK, InsertsEvents
  <1>4. \A r : \A t \in {"run_cases", "artifacts", "run_health_events"} : Plain(DeleteRun(t, r))
    BY DEF DeleteRun, Plain, StatementOK, InsertsEvents
  <1> QED
    BY <1>1, <1>2, <1>3, <1>4

LEMMA PutCommit ==
    ASSUME NEW t \in Tables \ {"runs", "run_health_events", "columns", "schema_version"},
           NEW i, NEW r, NEW v, NEW db, t = "release_policies" => v # "default"
    PROVE  PlanOK(<<Put(t, i, r, v), Commit>>, db)
  <1> DEFINE s == Put(t, i, r, v)
  <1>1. Plain(s)
    BY PutIsPlain
  <1> HIDE DEF s
  <1>2. PlanOK(<<s, Commit>>, db)
    BY <1>1, OneWrite
  <1> QED
    BY <1>2 DEF s

LEMMA InsertCommit ==
    ASSUME NEW t \in Tables \ {"columns", "release_policies", "schema_version"},
           NEW ids, NEW r, NEW v, NEW db,
           t = "runs" => ids = {r},
           t = "run_health_events" => \A e \in ids : e[2] \notin Names
    PROVE  PlanOK(<<Insert(t, ids, r, v), Commit>>, db)
  <1> DEFINE s == Insert(t, ids, r, v)
  <1>1. Plain(s)
    BY InsertIsPlain
  <1> HIDE DEF s
  <1>2. PlanOK(<<s, Commit>>, db)
    BY <1>1, OneWrite
  <1> QED
    BY <1>2 DEF s

LEMMA SetOneCommit ==
    ASSUME NEW t \in {"runs", "recorded_flows"}, NEW i, NEW v, NEW db
    PROVE  PlanOK(<<SetOne(t, i, v), Commit>>, db)
  <1> DEFINE s == SetOne(t, i, v)
  <1>1. Plain(s)
    BY SetOneIsPlain
  <1> HIDE DEF s
  <1>2. PlanOK(<<s, Commit>>, db)
    BY <1>1, OneWrite
  <1> QED
    BY <1>2 DEF s

\* The row of a run, its two events and the commit.
LEMMA InitialGroup ==
    ASSUME NEW r, NEW db
    PROVE  PlanOK(create_run_with_initial_events(r, "queued"), db)
  <1> DEFINE a == Insert("runs", {r}, r, "queued")
             p == <<a, Queued(r), Resolved(r), Commit>>
             x == Row("run_health_events", <<r, "run_queued">>, r, "")
             y == Row("run_health_events", <<r, "auth_context_resolved">>, r, "")
  <1>1. create_run_with_initial_events(r, "queued") = p
    BY DEF create_run_with_initial_events, Queued, Resolved
  <1>2. Plain(a)
    BY InsertIsPlain, TableNames
  <1>3. /\ x.id[2] = <<r, "run_queued">> /\ x.run = r
        /\ DOMAIN x = {"id", "run", "v"}
        /\ y.id[2] = <<r, "auth_context_resolved">> /\ y.run = r
        /\ DOMAIN y = {"id", "run", "v"}
    BY DEF Row
  <1>4. /\ Queued(r).do = "insert" /\ Queued(r).table = "run_health_events" /\ Queued(r).rows = {x}
        /\ Resolved(r).do = "insert" /\ Resolved(r).table = "run_health_events"
        /\ Resolved(r).rows = {y}
    BY DEF Queued, Resolved, Insert
  <1> HIDE DEF x, y
  <1>5. RowsOK("run_health_events", {x}) /\ RowsOK("run_health_events", {y})
    BY <1>3 DEF RowsOK
  <1>6. WritesOK(Queued(r)) /\ WritesOK(Resolved(r))
    BY <1>3, <1>4, <1>5, TableNames DEF WritesOK, InsertsEvents
  <1>7. StatementOK(Queued(r)) /\ StatementOK(Resolved(r))
    BY <1>6 DEF StatementOK
  <1>8. /\ p \in Seq({a, Queued(r), Resolved(r), Commit}) /\ Len(p) = 4
        /\ p[1] = a /\ p[2] = Queued(r) /\ p[3] = Resolved(r) /\ p[4] = Commit
    OBVIOUS
  <1> HIDE DEF p
  <1>9. p \in Seq({p[n] : n \in 1..Len(p)})
    BY <1>8, OwnSeq
  <1>10. DefaultPrepared(p, 2, db) /\ DeletePrepared(p, 2, db) /\ VersionPrepared(p, 2, db)
    BY <1>4, <1>8 DEF DefaultPrepared, DeletePrepared, VersionPrepared
  <1>11. DefaultPrepared(p, 3, db) /\ DeletePrepared(p, 3, db) /\ VersionPrepared(p, 3, db)
    BY <1>4, <1>8 DEF DefaultPrepared, DeletePrepared, VersionPrepared
  <1>12. InitialPrepared(p, 2, db)
    <2>1. x.id[2][2] = "run_queued"
      BY <1>3
    <2>2. p[2 - 1] = a /\ 2 + 1 \in 1..Len(p) /\ p[2 + 1] = Resolved(r)
      BY <1>8
    <2>3. \A z \in p[2].rows : z.run = r /\ z.id[2][2] = "run_queued"
      BY <1>3, <1>4, <1>8, <2>1
    <2> QED
      <3>1. \A z \in p[2].rows :
                p[2 - 1] = Insert("runs", {z.run}, z.run, "queued") /\ p[2 + 1] = Resolved(z.run)
        BY <2>2, <2>3, Zenon DEF a
      <3>2. \A z \in p[2].rows : z.id[2][2] # "auth_context_resolved"
        BY <2>3
      <3>3. 2 # 1
        OBVIOUS
      <3> QED
        BY <2>2, <3>1, <3>2, <3>3, Zenon DEF InitialPrepared
  <1>13. InitialPrepared(p, 3, db)
    <2>1. y.id[2][2] = "auth_context_resolved"
      BY <1>3
    <2>2. p[3 - 1] = Queued(r)
      BY <1>8
    <2>3. \A z \in p[3].rows : z.run = r /\ z.id[2][2] = "auth_context_resolved"
      BY <1>3, <1>4, <1>8, <2>1
    <2> QED
      BY <2>2, <2>3 DEF InitialPrepared
  <1>14. p[2].do # "rollback" /\ p[3].do # "rollback"
    BY <1>4, <1>8
  <1>15. \A n \in 1..Len(p) : n \in {1, 2, 3, 4}
    BY <1>8
  <1>16. Plain(p[1]) /\ Plain(p[4])
    BY <1>2, <1>8, Ends
  <1>17. PlanOK(p, db)
    <2> SUFFICES ASSUME NEW n \in {1, 2, 3, 4}
                 PROVE  /\ StatementOK(p[n])
                        /\ DefaultPrepared(p, n, db)
                        /\ DeletePrepared(p, n, db)
                        /\ InitialPrepared(p, n, db)
                        /\ VersionPrepared(p, n, db)
                        /\ p[n].do = "rollback" => n = Len(p)
      BY <1>9, <1>15 DEF PlanOK
    <2>1. CASE n \in {1, 4}
      BY <2>1, <1>16, PlainIsPrepared
    <2>2. CASE n = 2
      BY <2>2, <1>7, <1>8, <1>10, <1>12, <1>14
    <2>3. CASE n = 3
      BY <2>3, <1>7, <1>8, <1>11, <1>13, <1>14
    <2> QED
      BY <2>1, <2>2, <2>3
  <1> QED
    BY <1>1, <1>17

LEMMA PolicyGroup ==
    ASSUME NEW i, NEW default, NEW db
    PROVE  PlanOK(save_policy(i, default), db)
  <1>1. CASE ~ default
    <2>1. save_policy(i, default) = <<Put("release_policies", i, NoRun, ""), Commit>>
      <3> DEFINE s == Put("release_policies", i, NoRun, "")
      <3>1. save_policy(i, default) = <<>> \o <<s, Commit>>
        BY <1>1 DEF save_policy
      <3> HIDE DEF s
      <3>2. <<>> \o <<s, Commit>> = <<s, Commit>>
        OBVIOUS
      <3> QED
        BY <3>1, <3>2 DEF s
    <2>2. PlanOK(<<Put("release_policies", i, NoRun, ""), Commit>>, db)
      <3>1. "release_policies" \in Tables \ {"runs", "run_health_events", "columns", "schema_version"}
        BY TableNames
      <3>2. \A v : v # "default" => PlanOK(<<Put("release_policies", i, NoRun, v), Commit>>, db)
        BY <3>1, PutCommit
      <3>3. "" # "default"
        OBVIOUS
      <3> QED
        BY <3>2, <3>3, Zenon
    <2> QED
      BY <2>1, <2>2
  <1>2. CASE default
    <2> DEFINE a == SetAll("release_policies", "")
               x == Row("release_policies", i, NoRun, "default")
               s == Put("release_policies", i, NoRun, "default")
               p == <<a>> \o <<s, Commit>>
    <2>1. save_policy(i, default) = p
      BY <1>2 DEF save_policy
    <2>2. s.do = "put" /\ s.table = "release_policies" /\ s.rows = {x}
      BY DEF Put
    <2>3. DOMAIN x = {"id", "run", "v"}
      BY DEF Row
    <2> HIDE DEF a, x, s
    <2>4. RowsOK("release_policies", {x})
      BY <2>3 DEF RowsOK
    <2>5. WritesOK(s)
      BY <2>2, <2>4, TableNames DEF WritesOK, InsertsEvents
    <2>6. StatementOK(s)
      BY <2>5 DEF StatementOK
    <2>7. p \in Seq({a, s, Commit}) /\ Len(p) = 3 /\ p[1] = a /\ p[2] = s /\ p[3] = Commit
      OBVIOUS
    <2> HIDE DEF p
    <2>8. p \in Seq({p[n] : n \in 1..Len(p)})
      BY <2>7, OwnSeq
    <2>9. Plain(p[1]) /\ Plain(p[3])
      BY <2>7, Ends, DeletesArePlain DEF a
    <2>10. DeletePrepared(p, 2, db) /\ VersionPrepared(p, 2, db) /\ InitialPrepared(p, 2, db)
      BY <2>2, <2>7 DEF DeletePrepared, VersionPrepared, InitialPrepared, InsertsEvents
    <2>11. DefaultPrepared(p, 2, db)
      <3>1. p[2 - 1] = a
        BY <2>7
      <3> QED
        <4>1. 2 # 1
          OBVIOUS
        <4> QED
          BY <3>1, <4>1, Zenon DEF DefaultPrepared, a
    <2>12. p[2].do # "rollback"
      BY <2>2, <2>7
    <2>13. \A n \in 1..Len(p) : n \in {1, 2, 3}
      BY <2>7
    <2>14. PlanOK(p, db)
      <3> SUFFICES ASSUME NEW n \in {1, 2, 3}
                   PROVE  /\ StatementOK(p[n])
                          /\ DefaultPrepared(p, n, db)
                          /\ DeletePrepared(p, n, db)
                          /\ InitialPrepared(p, n, db)
                          /\ VersionPrepared(p, n, db)
                          /\ p[n].do = "rollback" => n = Len(p)
        BY <2>8, <2>13 DEF PlanOK
      <3>1. CASE n \in {1, 3}
        BY <3>1, <2>9, PlainIsPrepared
      <3>2. CASE n = 2
        BY <3>2, <2>6, <2>7, <2>10, <2>11, <2>12
      <3> QED
        BY <3>1, <3>2
    <2> QED
      BY <2>1, <2>14
  <1> QED
    BY <1>1, <1>2

LEMMA Joined ==
    ASSUME NEW S, NEW p \in Seq(S), NEW q \in Seq(S)
    PROVE  /\ p \o q \in Seq(S)
           /\ Len(p \o q) = Len(p) + Len(q)
           /\ \A n \in 1..(Len(p) + Len(q)) :
                 (p \o q)[n] = IF n \in 1..Len(p) THEN p[n] ELSE q[n - Len(p)]
  BY ConcatProperties

LEMMA PlainJoined ==
    ASSUME NEW p, NEW q, p \in Seq({p[n] : n \in 1..Len(p)}), q \in Seq({q[n] : n \in 1..Len(q)}),
           \A n \in 1..Len(p) : Plain(p[n]),
           \A n \in 1..Len(q) : Plain(q[n])
    PROVE  LET j == p \o q
           IN  j \in Seq({j[n] : n \in 1..Len(j)}) /\ \A n \in 1..Len(j) : Plain(j[n])
  <1> DEFINE S == {p[n] : n \in 1..Len(p)} \cup {q[n] : n \in 1..Len(q)}
             j == p \o q
  <1>1. p \in Seq(S) /\ q \in Seq(S)
    <2>1. \A T : p \in Seq(T) /\ T \subseteq S => p \in Seq(S)
      OBVIOUS
    <2>2. \A T : q \in Seq(T) /\ T \subseteq S => q \in Seq(S)
      OBVIOUS
    <2> QED
      BY <2>1, <2>2
  <1> HIDE DEF S
  <1>2. /\ j \in Seq(S)
        /\ Len(j) = Len(p) + Len(q)
        /\ \A n \in 1..(Len(p) + Len(q)) :
              j[n] = IF n \in 1..Len(p) THEN p[n] ELSE q[n - Len(p)]
    BY <1>1, Joined
  <1>3. Len(p) \in Nat /\ Len(q) \in Nat
    BY <1>1
  <1> HIDE DEF j
  <1>4. j \in Seq({j[n] : n \in 1..Len(j)})
    <2>1. j \in Seq(S)
      BY <1>2
    <2> QED
      BY <2>1, OwnSeq
  <1>5. \A n \in 1..Len(j) : n \in 1..Len(p) \/ n - Len(p) \in 1..Len(q)
    BY <1>2, <1>3
  <1>6. \A n \in 1..Len(j) : Plain(j[n])
    BY <1>2, <1>5
  <1> QED
    BY <1>4, <1>6 DEF j

LEMMA SelectorGroup ==
    ASSUME NEW f, NEW step, NEW db, NEW any
    PROVE  PlanOK(update_flow_step_selector(f, step, db), any)
  <1>1. CASE f \notin Ids(db, "recorded_flows") \/ step = NoChange
    <2> DEFINE p == <<Begin>> \o <<Rollback>>
    <2>1. update_flow_step_selector(f, step, db) = p
      BY <1>1 DEF update_flow_step_selector
    <2>2. p \in Seq({Begin, Rollback}) /\ Len(p) = 2 /\ p[1] = Begin /\ p[2] = Rollback
      OBVIOUS
    <2> HIDE DEF p
    <2>3. p \in Seq({p[n] : n \in 1..Len(p)})
      BY <2>2, OwnSeq
    <2>4. /\ StatementOK(p[2]) /\ DefaultPrepared(p, 2, any) /\ DeletePrepared(p, 2, any)
          /\ InitialPrepared(p, 2, any) /\ VersionPrepared(p, 2, any)
      BY <2>2, Ends DEF Rollback, DefaultPrepared, DeletePrepared, InitialPrepared,
                        VersionPrepared, InsertsEvents
    <2>5. Plain(p[1])
      BY <2>2, Ends
    <2>6. PlanOK(p, any)
      <3> SUFFICES ASSUME NEW n \in {1, 2}
                   PROVE  /\ StatementOK(p[n])
                          /\ DefaultPrepared(p, n, any)
                          /\ DeletePrepared(p, n, any)
                          /\ InitialPrepared(p, n, any)
                          /\ VersionPrepared(p, n, any)
                          /\ p[n].do = "rollback" => n = Len(p)
        BY <2>2, <2>3 DEF PlanOK
      <3>1. CASE n = 1
        BY <3>1, <2>5, PlainIsPrepared
      <3>2. CASE n = 2
        BY <3>2, <2>2, <2>4
      <3> QED
        BY <3>1, <3>2
    <2> QED
      BY <2>1, <2>6
  <1>2. CASE ~ (f \notin Ids(db, "recorded_flows") \/ step = NoChange)
    <2> DEFINE s == SetOne("recorded_flows", f, step)
               p == <<Begin>> \o <<s, Commit>>
    <2>1. update_flow_step_selector(f, step, db) = p
      BY <1>2 DEF update_flow_step_selector
    <2>2. Plain(s)
      BY SetOneIsPlain
    <2> HIDE DEF s
    <2>3. p \in Seq({Begin, s, Commit}) /\ Len(p) = 3 /\ p[1] = Begin /\ p[2] = s /\ p[3] = Commit
      OBVIOUS
    <2> HIDE DEF p
    <2>4. p \in Seq({p[n] : n \in 1..Len(p)})
      BY <2>3, OwnSeq
    <2>5. \A n \in 1..Len(p) : n \in {1, 2, 3}
      BY <2>3
    <2>6. \A n \in 1..Len(p) : Plain(p[n])
      BY <2>2, <2>3, <2>5, Ends
    <2> QED
      BY <2>1, <2>4, <2>6, PlainPlan
  <1> QED
    BY <1>1, <1>2

LEMMA TelemetryGroup ==
    ASSUME NEW signals, Len(signals) \in Nat, NEW db
    PROVE  PlanOK(save_telemetry_signals(signals), db)
  <1> DEFINE p == [n \in 1..Len(signals) |-> Put("telemetry_signals", signals[n], NoRun, "")]
             q == <<Commit>>
  <1>1. save_telemetry_signals(signals) = p \o q
    BY DEF save_telemetry_signals
  <1>2. ASSUME NEW n \in 1..Len(signals)
        PROVE  Plain(Put("telemetry_signals", signals[n], NoRun, ""))
    <2>1. "telemetry_signals" \in Tables \ {"runs", "run_health_events", "columns", "schema_version"}
      BY TableNames
    <2> QED
      BY <2>1, PutIsPlain
  <1>3. /\ p \in Seq({p[n] : n \in 1..Len(p)})
        /\ Len(p) = Len(signals)
    <2> DEFINE L == Len(signals)
               F(n) == Put("telemetry_signals", signals[n], NoRun, "")
               g == [n \in 1..L |-> F(n)]
    <2> HIDE DEF L, F
    <2>1. g \in Seq({F(n) : n \in 1..L}) /\ Len(g) = L
      BY DEF L
    <2> HIDE DEF g
    <2>2. g \in Seq({g[n] : n \in 1..Len(g)})
      BY <2>1, OwnSeq
    <2> QED
      BY <2>1, <2>2 DEF g, L, F
  <1>4. \A n \in 1..Len(p) : Plain(p[n])
    BY <1>2, <1>3
  <1>5. q \in Seq({q[n] : n \in 1..Len(q)}) /\ \A n \in 1..Len(q) : Plain(q[n])
    BY Ends
  <1> HIDE DEF p, q
  <1>6. PlanOK(p \o q, db)
    BY <1>3, <1>4, <1>5, PlainJoined, PlainPlan
  <1> QED
    BY <1>1, <1>6

\* Four statements for each run that is archived; the run itself comes last.
LEMMA Fourth ==
    ASSUME NEW n \in Nat, n % 4 = 3
    PROVE  n - 1 \in Nat /\ (n - 1) % 4 = 2 /\ (n - 1) \div 4 = n \div 4
  OBVIOUS

LEMMA FunctionSeq ==
    ASSUME NEW K \in Nat, NEW f, f = [n \in 1..K |-> f[n]]
    PROVE  f \in Seq({f[n] : n \in 1..K}) /\ Len(f) = K
  <1> DEFINE T == {f[n] : n \in 1..K}
  <1>1. f \in [1..K -> T]
    OBVIOUS
  <1> HIDE DEF T
  <1>2. f \in Seq(T) /\ Len(f) = K
    BY <1>1
  <1> QED
    BY <1>2 DEF T

LEMMA ArchiveGroup ==
    ASSUME NEW keepFailed, NEW db, NEW any
    PROVE  PlanOK(archive_old_runs(keepFailed, db), any)
  <1> DEFINE doomed == {x.run : x \in {y \in db["runs"] :
                           y.run \in OldRuns /\ (keepFailed => y.v # "failed")}}
             order == SetToSeq(doomed)
             Deletes(r) == <<DeleteRun("run_cases", r), DeleteRun("artifacts", r),
                             DeleteRun("run_health_events", r), DeleteRun("runs", r)>>
             Statement(n) == Deletes(order[1 + (n \div 4)])[1 + (n % 4)]
             K == 4 * Cardinality(doomed)
             a == <<Begin>>
             m == [n \in 1..K |-> Statement(n - 1)]
             p == (a \o m) \o <<Commit>>
  <1>1. archive_old_runs(keepFailed, db) = p
    BY DEF archive_old_runs
  <1>2. K \in Nat
    <2>1. doomed \subseteq Runs
      BY GroupsAssumption
    <2> HIDE DEF doomed
    <2>2. IsFiniteSet(doomed)
      BY <2>1, GroupsAssumption, FS_Subset
    <2> QED
      BY <2>2, FS_CardinalityType
  <1>3. \A n \in Nat : n % 4 \in 0..3
    OBVIOUS
  <1>4. \A n \in Nat :
            /\ n % 4 = 0 => Statement(n) = DeleteRun("run_cases", order[1 + (n \div 4)])
            /\ n % 4 = 1 => Statement(n) = DeleteRun("artifacts", order[1 + (n \div 4)])
            /\ n % 4 = 2 => Statement(n) = DeleteRun("run_health_events", order[1 + (n \div 4)])
            /\ n % 4 = 3 => Statement(n) = DeleteRun("runs", order[1 + (n \div 4)])
    <2> SUFFICES ASSUME NEW n \in Nat, NEW r, r = order[1 + (n \div 4)]
                 PROVE  /\ n % 4 = 0 => Deletes(r)[1 + (n % 4)] = DeleteRun("run_cases", r)
                        /\ n % 4 = 1 => Deletes(r)[1 + (n % 4)] = DeleteRun("artifacts", r)
                        /\ n % 4 = 2 => Deletes(r)[1 + (n % 4)] = DeleteRun("run_health_events", r)
                        /\ n % 4 = 3 => Deletes(r)[1 + (n % 4)] = DeleteRun("runs", r)
      BY Zenon
    <2> QED
      OBVIOUS
  <1> HIDE DEF doomed, order, Statement, K
  <1>6. m = [n \in 1..K |-> m[n]] /\ \A n \in 1..K : m[n] = Statement(n - 1)
    OBVIOUS
  <1> HIDE DEF m
  <1>5. m \in Seq({m[n] : n \in 1..K}) /\ Len(m) = K
    BY <1>2, <1>6, FunctionSeq
  <1> DEFINE S == {m[n] : n \in 1..K} \cup {Begin, Commit}
  <1>7. m \in Seq(S) /\ a \in Seq(S) /\ Len(a) = 1 /\ a[1] = Begin
    <2>1. \A T : m \in Seq(T) /\ T \subseteq S => m \in Seq(S)
      OBVIOUS
    <2> QED
      BY <2>1, <1>5
  <1>8. <<Commit>> \in Seq(S) /\ Len(<<Commit>>) = 1 /\ <<Commit>>[1] = Commit
    OBVIOUS
  <1> HIDE DEF S, a
  <1>9. /\ a \o m \in Seq(S) /\ Len(a \o m) = K + 1
        /\ (a \o m)[1] = Begin
        /\ \A n \in 1..K : (a \o m)[n + 1] = Statement(n - 1)
    <2> DEFINE q == a \o m
    <2>1. /\ q \in Seq(S) /\ Len(q) = Len(a) + Len(m)
          /\ \A n \in 1..(Len(a) + Len(m)) : q[n] = IF n \in 1..Len(a) THEN a[n] ELSE m[n - Len(a)]
      BY <1>7, Joined
    <2> HIDE DEF q
    <2>2. /\ q \in Seq(S) /\ Len(q) = 1 + K
          /\ \A n \in 1..(1 + K) : q[n] = IF n = 1 THEN a[n] ELSE m[n - 1]
      BY <2>1, <1>2, <1>5, <1>7
    <2>3. \A n \in 1..K : n + 1 \in 1..(1 + K) /\ n + 1 # 1 /\ (n + 1) - 1 = n
      BY <1>2
    <2>4. /\ q \in Seq(S) /\ Len(q) = K + 1 /\ q[1] = Begin
          /\ \A n \in 1..K : q[n + 1] = Statement(n - 1)
      <3>1. ASSUME NEW n \in 1..K
            PROVE  q[n + 1] = Statement(n - 1)
        <4>1. q[n + 1] = m[n]
          BY <2>2, <2>3
        <4> QED
          BY <4>1, <1>6
      <3>2. q[1] = a[1]
        BY <2>2, <1>2
      <3> QED
        BY <2>2, <3>1, <3>2, <1>2, <1>7
    <2> QED
      BY <2>4 DEF q
  <1>10. /\ p \in Seq(S) /\ Len(p) = K + 2
         /\ p[1] = Begin
         /\ \A n \in 1..K : p[n + 1] = Statement(n - 1)
         /\ p[K + 2] = Commit
    <2> DEFINE q == a \o m
               c == <<Commit>>
    <2> HIDE DEF q, c
    <2>1. /\ q \o c \in Seq(S) /\ Len(q \o c) = (K + 1) + 1
          /\ \A n \in 1..((K + 1) + 1) :
                (q \o c)[n] = IF n \in 1..(K + 1) THEN q[n] ELSE c[n - (K + 1)]
      BY <1>8, <1>9, Joined DEF q, c
    <2>2. \A n \in 1..K : n + 1 \in 1..(K + 1)
      BY <1>2
    <2>3. q[1] = Begin /\ (\A n \in 1..K : q[n + 1] = Statement(n - 1)) /\ c[1] = Commit
      BY <1>8, <1>9 DEF q, c
    <2>4. p = q \o c
      BY DEF q, c
    <2>5. /\ Len(q \o c) = K + 2
          /\ \A n \in 1..(K + 1) : (q \o c)[n] = q[n]
          /\ (q \o c)[K + 2] = c[1]
      <3> DEFINE j == q \o c
      <3>1. /\ Len(j) = (K + 1) + 1
            /\ \A n \in 1..((K + 1) + 1) :
                  j[n] = IF n \in 1..(K + 1) THEN q[n] ELSE c[n - (K + 1)]
        BY <2>1
      <3> HIDE DEF j
      <3>2. /\ (K + 1) + 1 = K + 2 /\ K + 2 \in 1..((K + 1) + 1)
            /\ K + 2 \notin 1..(K + 1) /\ (K + 2) - (K + 1) = 1
            /\ \A n \in 1..(K + 1) : n \in 1..((K + 1) + 1)
        BY <1>2
      <3> QED
        BY <3>1, <3>2 DEF j
    <2>6. 1 \in 1..(K + 1)
      BY <1>2
    <2> HIDE DEF p
    <2> QED
      BY <2>1, <2>2, <2>3, <2>4, <2>5, <2>6
  <1> HIDE DEF p
  <1>11. p \in Seq({p[n] : n \in 1..Len(p)})
    <2>1. p \in Seq(S)
      BY <1>10
    <2> QED
      BY <2>1, OwnSeq
  <1>12. \A n \in 1..Len(p) : n = 1 \/ n = K + 2 \/ n - 1 \in 1..K
    BY <1>2, <1>10
  <1>13. Plain(p[1]) /\ Plain(p[K + 2])
    BY <1>10, Ends
  <1> SUFFICES ASSUME NEW i \in 1..K
               PROVE  /\ StatementOK(p[i + 1])
                      /\ DefaultPrepared(p, i + 1, any)
                      /\ DeletePrepared(p, i + 1, any)
                      /\ InitialPrepared(p, i + 1, any)
                      /\ VersionPrepared(p, i + 1, any)
                      /\ p[i + 1].do = "rollback" => i + 1 = Len(p)
    <2>1. \A n \in 1..Len(p) :
             /\ StatementOK(p[n])
             /\ DefaultPrepared(p, n, any)
             /\ DeletePrepared(p, n, any)
             /\ InitialPrepared(p, n, any)
             /\ VersionPrepared(p, n, any)
             /\ p[n].do = "rollback" => n = Len(p)
      <3> SUFFICES ASSUME NEW n \in 1..Len(p)
                   PROVE  /\ StatementOK(p[n])
                          /\ DefaultPrepared(p, n, any)
                          /\ DeletePrepared(p, n, any)
                          /\ InitialPrepared(p, n, any)
                          /\ VersionPrepared(p, n, any)
                          /\ p[n].do = "rollback" => n = Len(p)
        OBVIOUS
      <3>1. CASE n = 1 \/ n = K + 2
        BY <3>1, <1>13, PlainIsPrepared
      <3>2. CASE n - 1 \in 1..K
        <4>1. (n - 1) + 1 = n
          OBVIOUS
        <4> DEFINE j == n - 1
        <4>2. j \in 1..K /\ j + 1 = n
          BY <3>2, <4>1
        <4> HIDE DEF j
        <4> QED
          BY <4>2
      <3> QED
        BY <3>1, <3>2, <1>12
    <2> QED
      BY <1>1, <1>11, <2>1 DEF PlanOK
  <1> DEFINE k == i - 1
             r == order[1 + (k \div 4)]
  <1>14. k \in Nat /\ k + 1 = i /\ p[i + 1] = Statement(k)
    BY <1>2, <1>10
  <1>15. CASE k % 4 # 3
    <2>1. k % 4 \in 0..3
      BY <1>14, <1>3
    <2>2. p[i + 1] \in {DeleteRun("run_cases", r), DeleteRun("artifacts", r),
                        DeleteRun("run_health_events", r)}
      <3>1. k % 4 = 0 \/ k % 4 = 1 \/ k % 4 = 2
        BY <1>15, <2>1
      <3>2. /\ k % 4 = 0 => Statement(k) = DeleteRun("run_cases", r)
            /\ k % 4 = 1 => Statement(k) = DeleteRun("artifacts", r)
            /\ k % 4 = 2 => Statement(k) = DeleteRun("run_health_events", r)
        BY <1>4, <1>14
      <3> HIDE DEF k, r
      <3> QED
        BY <1>14, <3>1, <3>2
    <2>3. Plain(p[i + 1])
      BY <2>2, DeletesArePlain
    <2> QED
      BY <2>3, PlainIsPrepared
  <1>16. CASE k % 4 = 3
    <2>1. p[i + 1] = DeleteRun("runs", r)
      BY <1>4, <1>14, <1>16
    <2>2. k - 1 \in Nat /\ (k - 1) % 4 = 2 /\ (k - 1) \div 4 = k \div 4
      BY <1>14, <1>16, Fourth
    <2>3. Statement(k - 1) = DeleteRun("run_health_events", r)
      BY <2>2, <1>4
    <2>4. i - 1 \in 1..K /\ (i - 1) - 1 = k - 1 /\ (i - 1) + 1 = (i + 1) - 1
      BY <1>2, <2>2
    <2>5. p[(i + 1) - 1] = DeleteRun("run_health_events", r)
      BY <1>10, <2>3, <2>4
    <2>6. i + 1 # 1
      OBVIOUS
    <2>7. p[i + 1].do = "delete" /\ p[i + 1].table = "runs" /\ p[i + 1].run = r
      BY <2>1 DEF DeleteRun
    <2> HIDE DEF k, r
    <2>8. DeletePrepared(p, i + 1, any)
      BY <2>5, <2>6, <2>7 DEF DeletePrepared
    <2> QED
      BY <2>7, <2>8 DEF StatementOK, DefaultPrepared, InitialPrepared, VersionPrepared, InsertsEvents
  <1> QED
    BY <1>15, <1>16

LEMMA Thirds ==
    /\ \A n \in Nat : n % 3 \in 0..2 /\ n \div 3 \in Nat
    /\ \A j \in Nat : (3 * j) % 3 = 0 /\ (3 * j) \div 3 = j
    /\ \A n \in Nat : \A j \in Nat : j <= n \div 3 => 3 * j <= n
    /\ \A n, K \in Nat : n < 3 * K => n \div 3 < K
  OBVIOUS

LEMMA StoredVersion ==
    ASSUME NEW db, DbOK(db)
    PROVE  /\ schema_version(db) \in 0..Columns
           /\ 1..schema_version(db) \subseteq Ids(db, "columns")
  <1>1. CASE db["schema_version"] = {}
    BY <1>1, GroupsAssumption DEF schema_version
  <1>2. CASE db["schema_version"] # {}
    <2>1. schema_version(db) \in Ids(db, "schema_version")
      BY <1>2 DEF schema_version, Ids
    <2>2. PICK x \in db["schema_version"] : x.id[2] = schema_version(db)
      BY <2>1 DEF Ids
    <2> QED
      BY <2>2, GroupsAssumption, TableNames DEF DbOK, RowsOK
  <1> QED
    BY <1>1, <1>2

\* The statements of init_db, one by one.
LEMMA StartItems ==
    ASSUME NEW db, DbOK(db), NEW v0, v0 = schema_version(db), NEW K, K = Columns - v0
    PROVE  LET p == init_db(db)
           IN  /\ K \in Nat
               /\ Len(p) = 3 * K + 6
               /\ p \in Seq({p[n] : n \in 1..Len(p)})
               /\ p[1] = Pragma /\ p[2] = Create /\ p[3] = Commit
               /\ \A n \in 0..(3 * K - 1) :
                     /\ n % 3 = 0 => p[n + 4] = AddColumn(v0 + 1 + (n \div 3))
                     /\ n % 3 = 1 => p[n + 4] = Clear("schema_version")
                     /\ n % 3 = 2 => p[n + 4] = Insert("schema_version", {v0 + 1 + (n \div 3)}, NoRun, "")
               /\ p[3 * K + 4] = Commit
               /\ p[3 * K + 5] = Fail("running", "failed")
               /\ p[3 * K + 6] = Commit
  <1> DEFINE Step(v) == <<AddColumn(v)>> \o set_schema_version(v)
             Statement(n) == Step(v0 + 1 + (n \div 3))[1 + (n % 3)]
             m == [n \in 1..(3 * K) |-> Statement(n - 1)]
             a == <<Pragma, Create, Commit>>
             b == <<Commit>>
             c == <<Fail("running", "failed"), Commit>>
             p == (a \o (m \o b)) \o c
  <1>1. K \in Nat /\ v0 \in Nat
    BY StoredVersion, GroupsAssumption
  <1>2. init_db(db) = p
    BY DEF init_db, migrate
  <1>3. \A n \in Nat :
            /\ n % 3 = 0 => Statement(n) = AddColumn(v0 + 1 + (n \div 3))
            /\ n % 3 = 1 => Statement(n) = Clear("schema_version")
            /\ n % 3 = 2 => Statement(n) = Insert("schema_version", {v0 + 1 + (n \div 3)}, NoRun, "")
    <2> SUFFICES ASSUME NEW n \in Nat, NEW v, v = v0 + 1 + (n \div 3)
                 PROVE  /\ n % 3 = 0 => Step(v)[1 + (n % 3)] = AddColumn(v)
                        /\ n % 3 = 1 => Step(v)[1 + (n % 3)] = Clear("schema_version")
                        /\ n % 3 = 2 => Step(v)[1 + (n % 3)] = Insert("schema_version", {v}, NoRun, "")
      BY Zenon
    <2> DEFINE x == AddColumn(v)
               y == Clear("schema_version")
               z == Insert("schema_version", {v}, NoRun, "")
    <2>1. Step(v) = <<x>> \o <<y, z>>
      BY DEF set_schema_version
    <2> HIDE DEF x, y, z, Step
    <2>2. Step(v)[1] = x /\ Step(v)[2] = y /\ Step(v)[3] = z
      BY <2>1
    <2>3. 1 + 0 = 1 /\ 1 + 1 = 2 /\ 1 + 2 = 3
      OBVIOUS
    <2> QED
      BY <2>2, <2>3 DEF x, y, z
  <1> HIDE DEF Statement
  <1>4. m = [n \in 1..(3 * K) |-> m[n]] /\ \A n \in 1..(3 * K) : m[n] = Statement(n - 1)
    OBVIOUS
  <1>5. 3 * K \in Nat
    BY <1>1
  <1> HIDE DEF m
  <1>6. m \in Seq({m[n] : n \in 1..(3 * K)}) /\ Len(m) = 3 * K
    BY <1>4, <1>5, FunctionSeq
  <1> DEFINE S == {m[n] : n \in 1..(3 * K)} \cup {Pragma, Create, Commit, Fail("running", "failed")}
  <1>7. m \in Seq(S)
    <2>1. \A T : m \in Seq(T) /\ T \subseteq S => m \in Seq(S)
      OBVIOUS
    <2> QED
      BY <2>1, <1>6
  <1>8. /\ a \in Seq(S) /\ Len(a) = 3 /\ a[1] = Pragma /\ a[2] = Create /\ a[3] = Commit
        /\ b \in Seq(S) /\ Len(b) = 1 /\ b[1] = Commit
        /\ c \in Seq(S) /\ Len(c) = 2 /\ c[1] = Fail("running", "failed") /\ c[2] = Commit
    <2> DEFINE f == Fail("running", "failed")
    <2> HIDE DEF f
    <2>1. {Pragma, Create, Commit, f} \subseteq S
      BY DEF f
    <2> HIDE DEF S
    <2>2. /\ a \in Seq(S) /\ Len(a) = 3 /\ a[1] = Pragma /\ a[2] = Create /\ a[3] = Commit
          /\ b \in Seq(S) /\ Len(b) = 1 /\ b[1] = Commit
      BY <2>1
    <2>3. /\ <<f, Commit>> \in Seq(S) /\ Len(<<f, Commit>>) = 2
          /\ <<f, Commit>>[1] = f /\ <<f, Commit>>[2] = Commit
      BY <2>1
    <2> QED
      BY <2>2, <2>3 DEF f
  <1> HIDE DEF S, a, b, c
  <1> DEFINE L == 3 * K
  <1>9. L \in Nat /\ Len(m) = L
    BY <1>5, <1>6
  <1> HIDE DEF L
  <1> DEFINE mb == m \o b
             amb == a \o mb
  <1>10. /\ mb \in Seq(S) /\ Len(mb) = L + 1
         /\ \A n \in 1..L : mb[n] = m[n]
         /\ mb[L + 1] = Commit
    <2>1. /\ mb \in Seq(S) /\ Len(mb) = Len(m) + Len(b)
          /\ \A n \in 1..(Len(m) + Len(b)) : mb[n] = IF n \in 1..Len(m) THEN m[n] ELSE b[n - Len(m)]
      BY <1>7, <1>8, Joined
    <2> HIDE DEF mb
    <2> QED
      BY <2>1, <1>8, <1>9
  <1> HIDE DEF mb
  <1>11. /\ amb \in Seq(S) /\ Len(amb) = L + 4
         /\ \A n \in 1..3 : amb[n] = a[n]
         /\ \A n \in 1..(L + 1) : amb[n + 3] = mb[n]
    <2>1. /\ amb \in Seq(S) /\ Len(amb) = Len(a) + Len(mb)
          /\ \A n \in 1..(Len(a) + Len(mb)) : amb[n] = IF n \in 1..Len(a) THEN a[n] ELSE mb[n - Len(a)]
      <3>1. a \in Seq(S) /\ mb \in Seq(S)
        BY <1>8, <1>10
      <3> QED
        BY <3>1, Joined
    <2> HIDE DEF amb
    <2>2. /\ amb \in Seq(S) /\ Len(amb) = L + 4
          /\ \A n \in 1..(L + 4) : amb[n] = IF n \in 1..3 THEN a[n] ELSE mb[n - 3]
      BY <2>1, <1>8, <1>9, <1>10
    <2>3. \A n \in 1..(L + 1) : n + 3 \in 1..(L + 4) /\ n + 3 \notin 1..3 /\ (n + 3) - 3 = n
      BY <1>9
    <2>4. \A n \in 1..(L + 1) : amb[n + 3] = mb[n]
      BY <2>2, <2>3
    <2> QED
      BY <2>2, <2>4, <1>9
  <1> HIDE DEF amb
  <1> DEFINE q == amb \o c
  <1>12. /\ q \in Seq(S) /\ Len(q) = L + 6
         /\ \A n \in 1..(L + 4) : q[n] = amb[n]
         /\ q[L + 5] = c[1] /\ q[L + 6] = c[2]
    <2>1. /\ q \in Seq(S) /\ Len(q) = Len(amb) + Len(c)
          /\ \A n \in 1..(Len(amb) + Len(c)) : q[n] = IF n \in 1..Len(amb) THEN amb[n] ELSE c[n - Len(amb)]
      <3>1. amb \in Seq(S) /\ c \in Seq(S)
        BY <1>8, <1>11
      <3> QED
        BY <3>1, Joined
    <2> HIDE DEF q
    <2>2. /\ q \in Seq(S) /\ Len(q) = L + 6
          /\ \A n \in 1..(L + 6) : q[n] = IF n \in 1..(L + 4) THEN amb[n] ELSE c[n - (L + 4)]
      BY <2>1, <1>8, <1>9, <1>11
    <2>3. /\ L + 5 \in 1..(L + 6) /\ L + 5 \notin 1..(L + 4) /\ (L + 5) - (L + 4) = 1
          /\ L + 6 \in 1..(L + 6) /\ L + 6 \notin 1..(L + 4) /\ (L + 6) - (L + 4) = 2
          /\ \A n \in 1..(L + 4) : n \in 1..(L + 6)
      BY <1>9
    <2> QED
      BY <2>2, <2>3
  <1>13. p = q
    BY DEF amb, mb
  <1> HIDE DEF p, q
  <1>14. q \in Seq({q[n] : n \in 1..Len(q)})
    <2>1. q \in Seq(S)
      BY <1>12
    <2> QED
      BY <2>1, OwnSeq
  <1>15. q[1] = Pragma /\ q[2] = Create /\ q[3] = Commit
    BY <1>8, <1>9, <1>11, <1>12
  <1>16. \A n \in 0..(L - 1) : q[n + 4] = Statement(n)
    <2> SUFFICES ASSUME NEW n \in 0..(L - 1)
                 PROVE  q[n + 4] = Statement(n)
      OBVIOUS
    <2>1. n + 1 \in 1..L /\ n + 1 \in 1..(L + 1) /\ (n + 1) + 3 = n + 4 /\ n + 4 \in 1..(L + 4)
      BY <1>9
    <2>2. q[n + 4] = mb[n + 1]
      BY <2>1, <1>11, <1>12
    <2>3. mb[n + 1] = m[n + 1]
      BY <2>1, <1>10
    <2>4. m[n + 1] = Statement((n + 1) - 1) /\ (n + 1) - 1 = n
      BY <2>1, <1>4 DEF L
    <2> QED
      BY <2>2, <2>3, <2>4
  <1>17. q[L + 4] = Commit
    <2>1. L + 1 \in 1..(L + 1) /\ (L + 1) + 3 = L + 4 /\ L + 4 \in 1..(L + 4)
      BY <1>9
    <2> QED
      BY <2>1, <1>10, <1>11, <1>12
  <1>18. \A n \in 0..(L - 1) :
            /\ n % 3 = 0 => q[n + 4] = AddColumn(v0 + 1 + (n \div 3))
            /\ n % 3 = 1 => q[n + 4] = Clear("schema_version")
            /\ n % 3 = 2 => q[n + 4] = Insert("schema_version", {v0 + 1 + (n \div 3)}, NoRun, "")
    <2>1. \A n \in 0..(L - 1) : n \in Nat
      BY <1>9
    <2> QED
      BY <2>1, <1>3, <1>16
  <1>19. q[L + 5] = Fail("running", "failed") /\ q[L + 6] = Commit /\ Len(q) = L + 6
    BY <1>8, <1>12
  <1>20. init_db(db) = q
    BY <1>2, <1>13
  <1> HIDE DEF q
  <1>21. /\ K \in Nat
         /\ Len(q) = 3 * K + 6
         /\ q \in Seq({q[n] : n \in 1..Len(q)})
         /\ q[1] = Pragma /\ q[2] = Create /\ q[3] = Commit
         /\ \A n \in 0..(3 * K - 1) :
               /\ n % 3 = 0 => q[n + 4] = AddColumn(v0 + 1 + (n \div 3))
               /\ n % 3 = 1 => q[n + 4] = Clear("schema_version")
               /\ n % 3 = 2 => q[n + 4] = Insert("schema_version", {v0 + 1 + (n \div 3)}, NoRun, "")
         /\ q[3 * K + 4] = Commit
         /\ q[3 * K + 5] = Fail("running", "failed")
         /\ q[3 * K + 6] = Commit
    BY <1>1, <1>14, <1>15, <1>17, <1>18, <1>19, Zenon DEF L
  <1> QED
    BY <1>20, <1>21, Zenon

LEMMA VersionInsert ==
    ASSUME NEW v \in 1..Columns
    PROVE  LET s == Insert("schema_version", {v}, NoRun, "")
           IN  /\ StatementOK(s)
               /\ s.do = "insert" /\ s.table = "schema_version"
               /\ \A x \in s.rows : x.id[2] = v
  <1> DEFINE s == Insert("schema_version", {v}, NoRun, "")
             x == Row("schema_version", v, NoRun, "")
  <1>1. s.do = "insert" /\ s.table = "schema_version" /\ s.rows = {x}
    BY DEF Insert
  <1>2. DOMAIN x = {"id", "run", "v"} /\ x.id[2] = v
    BY DEF Row
  <1> HIDE DEF s, x
  <1>3. RowsOK("schema_version", {x})
    BY <1>2 DEF RowsOK
  <1>4. WritesOK(s)
    BY <1>1, <1>3, TableNames DEF WritesOK, InsertsEvents
  <1>5. StatementOK(s) /\ \A y \in s.rows : y.id[2] = v
    BY <1>1, <1>2, <1>4 DEF StatementOK
  <1> QED
    BY <1>1, <1>5 DEF s

LEMMA ColumnIsPlain ==
    ASSUME NEW v \in 1..Columns
    PROVE  Plain(AddColumn(v))
  <1> DEFINE s == AddColumn(v)
             x == Row("columns", v, NoRun, "")
  <1>1. s.do = "alter" /\ s.table = "columns" /\ s.rows = {x}
    BY DEF AddColumn
  <1>2. DOMAIN x = {"id", "run", "v"} /\ x.id[2] = v
    BY DEF Row
  <1> HIDE DEF s, x
  <1>3. RowsOK("columns", {x})
    BY <1>2 DEF RowsOK
  <1>4. WritesOK(s)
    BY <1>1, <1>3, TableNames DEF WritesOK, InsertsEvents
  <1>5. Plain(s)
    BY <1>1, <1>4 DEF Plain, StatementOK, InsertsEvents
  <1> QED
    BY <1>5 DEF s

\* init_db raises the version only after the columns, and leaves none out.
LEMMA StartGroup ==
    ASSUME NEW db, DbOK(db)
    PROVE  PlanOK(init_db(db), db) /\ Starts(init_db(db), db) /\ init_db(db) # <<>>
  <1> DEFINE v0 == schema_version(db)
             K == Columns - v0
             p == init_db(db)
  <1>1. v0 \in 0..Columns /\ 1..v0 \subseteq Ids(db, "columns")
    BY StoredVersion
  <1>2. /\ K \in Nat
        /\ Len(p) = 3 * K + 6
        /\ p \in Seq({p[n] : n \in 1..Len(p)})
        /\ p[1] = Pragma /\ p[2] = Create /\ p[3] = Commit
        /\ \A n \in 0..(3 * K - 1) :
              /\ n % 3 = 0 => p[n + 4] = AddColumn(v0 + 1 + (n \div 3))
              /\ n % 3 = 1 => p[n + 4] = Clear("schema_version")
              /\ n % 3 = 2 => p[n + 4] = Insert("schema_version", {v0 + 1 + (n \div 3)}, NoRun, "")
        /\ p[3 * K + 4] = Commit
        /\ p[3 * K + 5] = Fail("running", "failed")
        /\ p[3 * K + 6] = Commit
    BY StartItems, Zenon
  <1>3. v0 \in Nat /\ Columns \in Nat /\ v0 + K = Columns
    BY <1>1, GroupsAssumption
  <1> HIDE DEF v0, K, p
  <1>11. K \in Nat /\ Len(p) = 3 * K + 6
    BY <1>2, Zenon
  <1>12. p[3 * K + 6] = Commit
    BY <1>2, Zenon
  \* The version a statement is about, and where its column is added.
  <1>4. \A n \in 0..(3 * K - 1) :
            /\ n \in Nat /\ n \div 3 \in Nat /\ n % 3 \in 0..2
            /\ n \div 3 < K
            /\ v0 + 1 + (n \div 3) \in 1..Columns
    <2> SUFFICES ASSUME NEW n \in 0..(3 * K - 1)
                 PROVE  /\ n \in Nat /\ n \div 3 \in Nat /\ n % 3 \in 0..2
                        /\ n \div 3 < K
                        /\ v0 + 1 + (n \div 3) \in 1..Columns
      OBVIOUS
    <2>1. n \in Nat /\ n < 3 * K
      BY <1>11
    <2>2. n \div 3 \in Nat /\ n % 3 \in 0..2 /\ n \div 3 < K
      BY <2>1, <1>11, Thirds
    <2> DEFINE d == n \div 3
    <2>3. d \in Nat /\ d < K
      BY <2>2
    <2> HIDE DEF d
    <2>4. v0 + 1 + d \in 1..Columns
      BY <2>3, <1>11, <1>3
    <2> QED
      BY <2>1, <2>2, <2>4 DEF d
  <1>5. ASSUME NEW u \in 1..Columns, u \notin Ids(db, "columns")
        PROVE  LET n == 3 * (u - v0 - 1)
               IN  n \in 0..(3 * K - 1) /\ p[n + 4] = AddColumn(u)
    <2> DEFINE j == u - v0 - 1
    <2>1. j \in Nat /\ j < K /\ v0 + 1 + j = u
      BY <1>1, <1>11, <1>3, <1>5
    <2> HIDE DEF j
    <2>2. 3 * j \in 0..(3 * K - 1)
      BY <2>1, <1>11
    <2>3. (3 * j) % 3 = 0 /\ (3 * j) \div 3 = j
      BY <2>1, Thirds
    <2>4. p[3 * j + 4] = AddColumn(u)
      BY <2>1, <2>2, <2>3, <1>2
    <2> QED
      BY <2>2, <2>4 DEF j
  <1>6. Starts(p, db)
    <2>1. p[Len(p)] = Commit
      BY <1>11, <1>12
    <2>2. ASSUME NEW u \in 1..Columns, u \notin Ids(db, "columns")
          PROVE  \E m \in 1..Len(p) : p[m] = AddColumn(u)
      <3> DEFINE n == 3 * (u - v0 - 1)
      <3>1. n \in 0..(3 * K - 1) /\ p[n + 4] = AddColumn(u)
        BY <1>5, <2>2
      <3> HIDE DEF n
      <3>2. n + 4 \in 1..Len(p)
        BY <3>1, <1>11
      <3> QED
        BY <3>1, <3>2
    <2> QED
      BY <2>1, <2>2 DEF Starts
  <1>7. ASSUME NEW n \in 0..(3 * K - 1)
        PROVE  /\ StatementOK(p[n + 4])
               /\ DefaultPrepared(p, n + 4, db)
               /\ DeletePrepared(p, n + 4, db)
               /\ InitialPrepared(p, n + 4, db)
               /\ VersionPrepared(p, n + 4, db)
               /\ p[n + 4].do = "rollback" => n + 4 = Len(p)
    <2> DEFINE v == v0 + 1 + (n \div 3)
    <2>1. v \in 1..Columns
      BY <1>4
    <2>2. CASE n % 3 = 0
      <3>1. p[n + 4] = AddColumn(v)
        BY <2>2, <1>2
      <3> HIDE DEF v
      <3>2. Plain(p[n + 4])
        BY <2>1, <3>1, ColumnIsPlain
      <3> QED
        BY <3>2, PlainIsPrepared
    <2>3. CASE n % 3 = 1
      <3>1. p[n + 4] = Clear("schema_version")
        BY <2>3, <1>2
      <3>2. Plain(p[n + 4])
        BY <3>1, DeletesArePlain
      <3> QED
        BY <3>2, PlainIsPrepared
    <2>4. CASE n % 3 = 2
      <3>1. p[n + 4] = Insert("schema_version", {v}, NoRun, "")
        BY <2>4, <1>2
      <3>2. v = v0 + 1 + (n \div 3)
        OBVIOUS
      <3> HIDE DEF v
      <3>3. /\ StatementOK(p[n + 4])
            /\ p[n + 4].do = "insert" /\ p[n + 4].table = "schema_version"
            /\ \A x \in p[n + 4].rows : x.id[2] = v
        BY <2>1, <3>1, VersionInsert
      <3>4. ASSUME NEW u \in 1..v
            PROVE  u \in Ids(db, "columns") \/ \E m \in 1..((n + 4) - 1) : p[m] = AddColumn(u)
        <4>1. u \in 1..Columns
          BY <2>1, <1>3
        <4>2. CASE u \notin Ids(db, "columns")
          <5> DEFINE j == u - v0 - 1
          <5>1. u \notin 1..v0
            BY <4>2, <1>1
          <5>2. j \in Nat /\ j <= n \div 3
            <6> DEFINE d == n \div 3
            <6>1. d \in Nat /\ v = v0 + 1 + d
              BY <1>4, <3>2
            <6> HIDE DEF d
            <6>2. j \in Nat /\ j <= d
              BY <5>1, <6>1, <1>3
            <6> QED
              BY <6>2 DEF d
          <5>3. 3 * j \in 0..(3 * K - 1) /\ p[3 * j + 4] = AddColumn(u)
            BY <4>1, <4>2, <1>5
          <5> HIDE DEF j
          <5>4. 3 * j <= n
            BY <5>2, <1>4, Thirds
          <5>5. 3 * j # n
            BY <5>2, <2>4, Thirds
          <5>6. 3 * j + 4 \in 1..((n + 4) - 1)
            BY <5>2, <5>4, <5>5, <1>4
          <5> QED
            BY <5>3, <5>6
        <4> QED
          BY <4>2
      <3>5. VersionPrepared(p, n + 4, db)
        BY <3>3, <3>4 DEF VersionPrepared
      <3> QED
        BY <3>3, <3>5 DEF DefaultPrepared, DeletePrepared, InitialPrepared, InsertsEvents
    <2> QED
      BY <2>2, <2>3, <2>4, <1>4
  <1>8. \A n \in {1, 2, 3, 3 * K + 4, 3 * K + 5, 3 * K + 6} : Plain(p[n])
    BY <1>2, Ends, DeletesArePlain
  <1>9. PlanOK(p, db)
    <2> SUFFICES ASSUME NEW i \in 1..Len(p)
                 PROVE  /\ StatementOK(p[i])
                        /\ DefaultPrepared(p, i, db)
                        /\ DeletePrepared(p, i, db)
                        /\ InitialPrepared(p, i, db)
                        /\ VersionPrepared(p, i, db)
                        /\ p[i].do = "rollback" => i = Len(p)
      BY <1>2 DEF PlanOK
    <2>1. i \in {1, 2, 3, 3 * K + 4, 3 * K + 5, 3 * K + 6} \/ i - 4 \in 0..(3 * K - 1)
      BY <1>11
    <2>2. CASE i \in {1, 2, 3, 3 * K + 4, 3 * K + 5, 3 * K + 6}
      BY <2>2, <1>8, PlainIsPrepared
    <2>3. CASE i - 4 \in 0..(3 * K - 1)
      <3> DEFINE n == i - 4
      <3>1. n \in 0..(3 * K - 1) /\ n + 4 = i
        BY <2>3
      <3> HIDE DEF n
      <3> QED
        BY <3>1, <1>7
    <2> QED
      BY <2>1, <2>2, <2>3
  <1>10. p # <<>>
    BY <1>11
  <1> QED
    BY <1>6, <1>9, <1>10 DEF p

LEMMA PutGroup ==
    ASSUME NEW t \in Tables \ {"runs", "run_health_events", "columns", "schema_version"},
           NEW i, NEW r, NEW db
    PROVE  PlanOK(<<Put(t, i, r, ""), Commit>>, db)
  <1>1. \A v : v # "default" => PlanOK(<<Put(t, i, r, v), Commit>>, db)
    BY PutCommit
  <1>2. "" # "default"
    OBVIOUS
  <1> QED
    BY <1>1, <1>2, Zenon

LEMMA InsertGroup ==
    ASSUME NEW t \in Tables \ {"runs", "columns", "release_policies", "schema_version"},
           NEW ids, NEW r, NEW db,
           t = "run_health_events" => \A e \in ids : e[2] \notin Names
    PROVE  PlanOK(<<Insert(t, ids, r, ""), Commit>>, db)
  <1>1. \A v : PlanOK(<<Insert(t, ids, r, v), Commit>>, db)
    BY InsertCommit
  <1> QED
    BY <1>1, Zenon
LEMMA GroupIsOK ==
    ASSUME NEW k, NEW db, DbOK(db), k.fn \in StoreFunctions,
           k.fn = "save_telemetry_signals" => Len(k.ids) \in Nat
    PROVE  PlanOK(Group(k, db), db)
  <1>1. CASE k.fn = "create_run"
    <2>1. Group(k, db) = create_run(k.run)
      BY <1>1 DEF Group
    <2>2. PlanOK(create_run(k.run), db)
      BY InsertCommit, TableNames DEF create_run
    <2> QED
      BY <2>1, <2>2
  <1>2. CASE k.fn = "create_run_with_initial_events"
    <2>1. Group(k, db) = create_run_with_initial_events(k.run, "queued")
      BY <1>2 DEF Group
    <2>2. PlanOK(create_run_with_initial_events(k.run, "queued"), db)
      BY InitialGroup
    <2> QED
      BY <2>1, <2>2
  <1>3. CASE k.fn = "update_run_status"
    <2>1. Group(k, db) = update_run_status(k.run, k.status)
      BY <1>3 DEF Group
    <2>2. PlanOK(update_run_status(k.run, k.status), db)
      BY SetOneCommit, TableNames DEF update_run_status
    <2> QED
      BY <2>1, <2>2
  <1>4. CASE k.fn = "update_run"
    <2>1. Group(k, db) = update_run(k.run, k.status)
      BY <1>4 DEF Group
    <2>2. PlanOK(update_run(k.run, k.status), db)
      BY SetOneCommit, TableNames DEF update_run
    <2> QED
      BY <2>1, <2>2
  <1>5. CASE k.fn = "save_cases"
    <2>1. Group(k, db) = save_cases(k.run, "case")
      BY <1>5 DEF Group
    <2>2. "run_cases" \in Tables \ {"runs", "run_health_events", "columns", "schema_version"}
      BY TableNames
    <2>3. PlanOK(save_cases(k.run, "case"), db)
      BY <2>2, PutGroup DEF save_cases
    <2> QED
      BY <2>1, <2>3
  <1>6. CASE k.fn = "upsert_run_observation"
    <2>1. Group(k, db) = upsert_run_observation(k.run, "checkpoint")
      BY <1>6 DEF Group
    <2>2. "run_observations" \in Tables \ {"runs", "run_health_events", "columns", "schema_version"}
      BY TableNames
    <2>3. PlanOK(upsert_run_observation(k.run, "checkpoint"), db)
      BY <2>2, PutGroup DEF upsert_run_observation
    <2> QED
      BY <2>1, <2>3
  <1>7. CASE k.fn = "save_flow"
    <2>1. Group(k, db) = save_flow(k.id)
      BY <1>7 DEF Group
    <2>2. "recorded_flows" \in Tables \ {"runs", "run_health_events", "columns", "schema_version"}
      BY TableNames
    <2>3. PlanOK(save_flow(k.id), db)
      BY <2>2, PutGroup DEF save_flow
    <2> QED
      BY <2>1, <2>3
  <1>8. CASE k.fn = "save_auth_profile"
    <2>1. Group(k, db) = save_auth_profile(k.id)
      BY <1>8 DEF Group
    <2>2. "auth_profiles" \in Tables \ {"runs", "run_health_events", "columns", "schema_version"}
      BY TableNames
    <2>3. PlanOK(save_auth_profile(k.id), db)
      BY <2>2, PutGroup DEF save_auth_profile
    <2> QED
      BY <2>1, <2>3
  <1>9. CASE k.fn = "save_site_inventory"
    <2>1. Group(k, db) = save_site_inventory(calls)
      BY <1>9 DEF Group
    <2>2. "site_inventories" \in Tables \ {"runs", "columns", "release_policies", "schema_version"}
      BY TableNames
    <2>3. PlanOK(save_site_inventory(calls), db)
      BY <2>2, InsertGroup DEF save_site_inventory
    <2> QED
      BY <2>1, <2>3
  <1>10. CASE k.fn = "save_context_graph"
    <2>1. Group(k, db) = save_context_graph(k.id)
      BY <1>10 DEF Group
    <2>2. "context_graphs" \in Tables \ {"runs", "run_health_events", "columns", "schema_version"}
      BY TableNames
    <2>3. PlanOK(save_context_graph(k.id), db)
      BY <2>2, PutGroup DEF save_context_graph
    <2> QED
      BY <2>1, <2>3
  <1>11. CASE k.fn = "save_incident_cluster"
    <2>1. Group(k, db) = save_incident_cluster(k.id)
      BY <1>11 DEF Group
    <2>2. "incident_clusters" \in Tables \ {"runs", "run_health_events", "columns", "schema_version"}
      BY TableNames
    <2>3. PlanOK(save_incident_cluster(k.id), db)
      BY <2>2, PutGroup DEF save_incident_cluster
    <2> QED
      BY <2>1, <2>3
  <1>12. CASE k.fn = "save_remediation_draft"
    <2>1. Group(k, db) = save_remediation_draft(k.id)
      BY <1>12 DEF Group
    <2>2. "remediation_drafts" \in Tables \ {"runs", "run_health_events", "columns", "schema_version"}
      BY TableNames
    <2>3. PlanOK(save_remediation_draft(k.id), db)
      BY <2>2, PutGroup DEF save_remediation_draft
    <2> QED
      BY <2>1, <2>3
  <1>13. CASE k.fn = "save_correlation_report"
    <2>1. Group(k, db) = save_correlation_report(calls)
      BY <1>13 DEF Group
    <2>2. "correlation_reports" \in Tables \ {"runs", "columns", "release_policies", "schema_version"}
      BY TableNames
    <2>3. PlanOK(save_correlation_report(calls), db)
      BY <2>2, InsertGroup DEF save_correlation_report
    <2> QED
      BY <2>1, <2>3
  <1>14. CASE k.fn = "save_risk_calibration"
    <2>1. Group(k, db) = save_risk_calibration_record(calls, k.run)
      BY <1>14 DEF Group
    <2>2. "risk_calibration" \in Tables \ {"runs", "run_health_events", "columns", "schema_version"}
      BY TableNames
    <2>3. PlanOK(save_risk_calibration_record(calls, k.run), db)
      BY <2>2, PutGroup DEF save_risk_calibration_record
    <2> QED
      BY <2>1, <2>3
  <1>15. CASE k.fn = "save_project"
    <2>1. Group(k, db) = save_project(k.id)
      BY <1>15 DEF Group
    <2>2. "projects" \in Tables \ {"runs", "run_health_events", "columns", "schema_version"}
      BY TableNames
    <2>3. PlanOK(save_project(k.id), db)
      BY <2>2, PutGroup DEF save_project
    <2> QED
      BY <2>1, <2>3
  <1>16. CASE k.fn = "save_telemetry_signals"
    <2>1. Group(k, db) = save_telemetry_signals(k.ids)
      BY <1>16 DEF Group
    <2>2. PlanOK(save_telemetry_signals(k.ids), db)
      BY <1>16, TelemetryGroup
    <2> QED
      BY <2>1, <2>2
  <1>17. CASE k.fn = "archive_old_telemetry"
    <2>1. Group(k, db) = archive_old_telemetry
      BY <1>17 DEF Group
    <2>2. PlanOK(archive_old_telemetry, db)
      BY OneWrite, DeletesArePlain DEF archive_old_telemetry
    <2> QED
      BY <2>1, <2>2
  <1>18. CASE k.fn = "save_policy"
    <2>1. Group(k, db) = save_policy(k.id, k.default)
      BY <1>18 DEF Group
    <2>2. PlanOK(save_policy(k.id, k.default), db)
      BY PolicyGroup
    <2> QED
      BY <2>1, <2>2
  <1>19. CASE k.fn = "update_flow_step_selector"
    <2>1. Group(k, db) = update_flow_step_selector(k.id, k.step, db)
      BY <1>19 DEF Group
    <2>2. PlanOK(update_flow_step_selector(k.id, k.step, db), db)
      BY SelectorGroup
    <2> QED
      BY <2>1, <2>2
  <1>20. CASE k.fn = "archive_old_runs"
    <2>1. Group(k, db) = archive_old_runs(k.keepFailed, db)
      BY <1>20 DEF Group
    <2>2. PlanOK(archive_old_runs(k.keepFailed, db), db)
      BY ArchiveGroup
    <2> QED
      BY <2>1, <2>2
  <1>21. CASE k.fn = "init_db"
    <2>1. Group(k, db) = init_db(db)
      BY <1>21 DEF Group
    <2>2. PlanOK(init_db(db), db)
      BY StartGroup
    <2> QED
      BY <2>1, <2>2
  <1> QED
    BY <1>1, <1>2, <1>3, <1>4, <1>5, <1>6, <1>7, <1>8, <1>9, <1>10, <1>11, <1>12, <1>13, <1>14, <1>15, <1>16, <1>17, <1>18, <1>19, <1>20, <1>21 DEF StoreFunctions

\* What a flush writes: events that recorders saved, and artifacts.
LEMMA FlushIsOK ==
    ASSUME NEW k, NEW db, k.fn \in {"write_events", "write_artifacts"},
           k.fn = "write_events" => \A e \in k.ids : e[2] \in Events
    PROVE  PlanOK(Group(k, db), db)
  <1>1. CASE k.fn = "write_events"
    <2>1. Group(k, db) = write_run_health_events(k.run, k.ids)
      BY <1>1 DEF Group
    <2>2. \A e \in k.ids : e[2] \notin Names
      BY <1>1, StoreAssumption DEF Names
    <2>3. PlanOK(write_run_health_events(k.run, k.ids), db)
      BY <2>2, InsertGroup, TableNames DEF write_run_health_events
    <2> QED
      BY <2>1, <2>3
  <1>2. CASE k.fn = "write_artifacts"
    <2>1. Group(k, db) = write_artifacts(k.run, k.ids)
      BY <1>2 DEF Group
    <2>3. "artifacts" \in Tables \ {"runs", "run_health_events", "columns", "release_policies", "schema_version"}
      BY TableNames
    <2>2. PlanOK(write_artifacts(k.run, k.ids), db)
      BY <2>3, InsertGroup DEF write_artifacts
    <2> QED
      BY <2>1, <2>2
  <1> QED
    BY <1>1, <1>2

-----------------------------------------------------------------------------
(* Flushes *)

LEMMA Listed ==
    ASSUME NEW S, IsFiniteSet(S)
    PROVE  /\ Cardinality(S) \in Nat
           /\ SetToSeq(S) \in [1..Cardinality(S) -> S]
           /\ \A i, j \in 1..Cardinality(S) : SetToSeq(S)[i] = SetToSeq(S)[j] => i = j
           /\ \A x \in S : \E i \in 1..Cardinality(S) : SetToSeq(S)[i] = x
  <1> DEFINE n == Cardinality(S)
  <1>1. n \in Nat /\ ExistsBijection(1..n, S)
    BY FS_CardinalityType
  <1>2. PICK f : f \in Bijection(1..n, S)
    BY <1>1 DEF ExistsBijection
  <1>3. f \in [1..n -> S] /\ IsInjective(f)
    BY <1>2 DEF Bijection, Injection, IsInjective
  <1>4. SetToSeq(S) \in [1..n -> S] /\ IsInjective(SetToSeq(S))
    BY <1>3 DEF SetToSeq
  <1> DEFINE g == SetToSeq(S)
  <1> HIDE DEF g
  <1>5. g \in [1..n -> S] /\ \A i, j \in 1..n : g[i] = g[j] => i = j
    BY <1>4 DEF IsInjective, g
  <1>6. \A x \in S : \E i \in 1..n : g[i] = x
    <2>1. g \in Injection(1..n, S)
      BY <1>5 DEF Injection, IsInjective
    <2>2. IsFiniteSet(1..n) /\ Cardinality(1..n) = n
      BY <1>1, FS_Interval
    <2>3. g \in Surjection(1..n, S)
      BY <2>1, <2>2, FS_SurjSameCardinalityImpliesInj, FS_Injection
    <2> QED
      BY <2>3 DEF Surjection
  <1> QED
    BY <1>1, <1>5, <1>6 DEF g

\* The batches of a flush, and what is left of the buffers.
LEMMA BatchesAreOK ==
    ASSUME NEW R \in SUBSET Runs, NEW ev, NEW art,
           \A r \in Runs : \A e \in ev[r] : e[2] \in Events
    PROVE  BatchesOK(Batches(R, ev, art))
  <1> DEFINE filled == {r \in R : ev[r] # {} \/ art[r] # {}}
             order == SetToSeq(filled)
             n == Cardinality(filled)
             q == [i \in 1..n |->
                      [run |-> order[i], events |-> ev[order[i]], artifacts |-> art[order[i]]]]
  <1>1. Batches(R, ev, art) = q
    BY DEF Batches
  <1>2. filled \subseteq Runs
    OBVIOUS
  <1> HIDE DEF filled
  <1>3. IsFiniteSet(filled)
    BY <1>2, GroupsAssumption, FS_Subset
  <1>4. n \in Nat /\ order \in [1..n -> filled]
    BY <1>3, Listed
  <1> HIDE DEF n, order
  <1>5. q = [i \in 1..n |-> q[i]]
    OBVIOUS
  <1>6. \A i \in 1..n : BatchOK(q[i])
    BY <1>2, <1>4 DEF BatchOK
  <1> HIDE DEF q
  <1>7. q \in Seq({q[i] : i \in 1..n}) /\ Len(q) = n
    BY <1>4, <1>5, FunctionSeq
  <1> QED
    BY <1>1, <1>6, <1>7 DEF BatchesOK

LEMMA NoBatches == BatchesOK(<<>>)
  <1>1. <<>> \in Seq({<<>>[n] : n \in 1..Len(<<>>)}) /\ 1..Len(<<>>) = {}
    OBVIOUS
  <1> QED
    BY <1>1 DEF BatchesOK

\* A flush has written the events of its first batch, or all of it.
LEMMA FlushedBatches ==
    ASSUME NEW q, BatchesOK(q), q # <<>>
    PROVE  /\ Head(q) = q[1] /\ BatchOK(q[1])
           /\ BatchesOK(Tail(q))
           /\ BatchesOK([q EXCEPT ![1].events = {}])
  <1>1. /\ Len(q) \in Nat /\ 1 \in 1..Len(q)
        /\ Head(q) = q[1]
        /\ Len(Tail(q)) = Len(q) - 1
        /\ \A n \in 1..Len(Tail(q)) : n + 1 \in 1..Len(q) /\ Tail(q)[n] = q[n + 1]
        /\ Tail(q) \in Seq({Tail(q)[n] : n \in 1..Len(Tail(q))})
    BY TailOf DEF BatchesOK
  <1>2. BatchesOK(Tail(q))
    BY <1>1 DEF BatchesOK
  <1> DEFINE b == [q[1] EXCEPT !.events = {}]
             p == [q EXCEPT ![1] = b]
  <1>3. BatchOK(q[1])
    BY <1>1 DEF BatchesOK
  <1>4. BatchOK(b)
    BY <1>3 DEF BatchOK
  <1>5. [q EXCEPT ![1].events = {}] = p
    OBVIOUS
  <1> DEFINE S == {q[n] : n \in 1..Len(q)} \cup {b}
  <1>6. q \in Seq(S)
    <2>1. q \in Seq({q[n] : n \in 1..Len(q)})
      BY DEF BatchesOK
    <2>2. \A T : q \in Seq(T) /\ T \subseteq S => q \in Seq(S)
      OBVIOUS
    <2> QED
      BY <2>1, <2>2
  <1>7. b \in S
    OBVIOUS
  <1> HIDE DEF b, S
  <1>8. /\ p \in Seq(S) /\ Len(p) = Len(q)
        /\ \A n \in 1..Len(q) : p[n] = IF n = 1 THEN b ELSE q[n]
    BY <1>1, <1>6, <1>7
  <1> HIDE DEF p
  <1>9. p \in Seq({p[n] : n \in 1..Len(p)})
    <2>1. p \in Seq(S)
      BY <1>8
    <2> QED
      BY <2>1, OwnSeq
  <1>10. \A n \in 1..Len(p) : BatchOK(p[n])
    BY <1>4, <1>8 DEF BatchesOK
  <1> QED
    BY <1>1, <1>2, <1>3, <1>5, <1>9, <1>10 DEF BatchesOK

-----------------------------------------------------------------------------
(* The steps *)

LEMMA CallerNames ==
    /\ Nobody \notin Callers /\ Server \in Callers /\ Watcher \in Callers
    /\ Clients \subseteq Callers /\ Recorders \subseteq Callers
    /\ Server \notin Clients /\ Server \notin Recorders /\ Server # Watcher
  BY StoreAssumption DEF Nobody, Server, Watcher, Callers

LEMMA NoPlans ==
    ASSUME LockInv, lock = Nobody
    PROVE  /\ \A c \in Callers : plan[c] = <<>>
           /\ \A r : ~ Between(r)
  BY CallerNames DEF LockInv, Between

\* Steps beside the database: a coroutine other than the first one takes what
\* is buffered, or the stream goes on.
LEMMA BesidesKeeps ==
    ASSUME StoreInv, UNCHANGED <<disk, conn, tx, lock, plan, up, torn>>,
           NEW c \in Callers \ {Server}, NEW q, BatchesOK(q),
           todo' = todo \/ todo' = [todo EXCEPT ![c] = q],
           DOMAIN evBuf' = Runs, \A r \in Runs : \A e \in evBuf'[r] : e[2] \in Events,
           stream' \notin {"off", "broken"} => streamRun' \in Runs
    PROVE  StoreInv'
  <1>1. DOMAIN todo' = Callers /\ todo'[Server] = <<>>
    BY CallerNames DEF StoreInv, LockInv
  <1>2. \A d \in Callers : BatchesOK(todo'[d])
    BY DEF StoreInv, LockInv, BufferInv
  <1>3. LockInv'
    BY <1>1 DEF StoreInv, LockInv
  <1>4. BufferInv'
    BY <1>2 DEF StoreInv, BufferInv
  <1>5. DiskInv'
    BY DEF StoreInv, DiskInv
  <1>6. WholeInv'
    BY DEF StoreInv, WholeInv, Between
  <1> QED
    BY <1>3, <1>4, <1>5, <1>6 DEF StoreInv

LEMMA SaveEventsKeeps ==
    ASSUME StoreInv, NEW c \in Recorders, NEW r \in Runs, NEW new,
           \A e \in new : e[2] \in Events, NEW always, SaveEvents(c, r, new, always)
    PROVE  StoreInv'
  <1> DEFINE grown == [evBuf EXCEPT ![r] = @ \cup new]
             q == Batches({r}, grown, artBuf)
  <1>1. DOMAIN evBuf = Runs /\ \A s \in Runs : \A e \in evBuf[s] : e[2] \in Events
    BY DEF StoreInv, BufferInv
  <1>2. DOMAIN grown = Runs /\ \A s \in Runs : \A e \in grown[s] : e[2] \in Events
    BY <1>1
  <1>3. BatchesOK(q)
    BY <1>2, BatchesAreOK
  <1>4. \A s \in Runs : \A e \in Emptied({r}, grown)[s] : e[2] \in Events
    BY <1>2 DEF Emptied
  <1>5. DOMAIN Emptied({r}, grown) = Runs
    BY DEF Emptied
  <1>6. /\ evBuf' = grown \/ evBuf' = Emptied({r}, grown)
        /\ todo' = todo \/ todo' = [todo EXCEPT ![c] = q]
        /\ UNCHANGED <<disk, conn, tx, lock, plan, up, torn, stream, streamRun>>
    BY DEF SaveEvents, store, watch
  <1>7. stream' \notin {"off", "broken"} => streamRun' \in Runs
    BY <1>6 DEF StoreInv, BufferInv
  <1>8. c \in Callers \ {Server}
    BY CallerNames
  <1> HIDE DEF grown, q
  <1>9. DOMAIN evBuf' = Runs /\ \A s \in Runs : \A e \in evBuf'[s] : e[2] \in Events
    BY <1>2, <1>4, <1>5, <1>6
  <1> QED
    BY <1>3, <1>6, <1>7, <1>8, <1>9, BesidesKeeps

LEMMA SaveArtifactKeeps ==
    ASSUME StoreInv, NEW c \in Recorders, NEW r \in Runs, NEW always, save_artifact(c, r, always)
    PROVE  StoreInv'
  <1> DEFINE q == Batches({r}, evBuf, [artBuf EXCEPT ![r] = @ \cup {calls}])
  <1>1. DOMAIN evBuf = Runs /\ \A s \in Runs : \A e \in evBuf[s] : e[2] \in Events
    BY DEF StoreInv, BufferInv
  <1>2. BatchesOK(q)
    BY <1>1, BatchesAreOK
  <1>3. DOMAIN Emptied({r}, evBuf) = Runs /\ \A s \in Runs : \A e \in Emptied({r}, evBuf)[s] : e[2] \in Events
    BY <1>1 DEF Emptied
  <1>4. /\ evBuf' = evBuf \/ evBuf' = Emptied({r}, evBuf)
        /\ todo' = todo \/ todo' = [todo EXCEPT ![c] = q]
        /\ UNCHANGED <<disk, conn, tx, lock, plan, up, torn, stream, streamRun>>
    BY DEF save_artifact, store, watch
  <1>5. stream' \notin {"off", "broken"} => streamRun' \in Runs
    BY <1>4 DEF StoreInv, BufferInv
  <1>6. c \in Callers \ {Server}
    BY CallerNames
  <1> HIDE DEF q
  <1>7. DOMAIN evBuf' = Runs /\ \A s \in Runs : \A e \in evBuf'[s] : e[2] \in Events
    BY <1>1, <1>3, <1>4
  <1> QED
    BY <1>2, <1>4, <1>5, <1>6, <1>7, BesidesKeeps

LEMMA FlushKeeps ==
    ASSUME StoreInv, NEW c \in Callers \ {Server}, NEW R \in SUBSET Runs,
           todo' = [todo EXCEPT ![c] = Batches(R, evBuf, artBuf)],
           evBuf' = Emptied(R, evBuf),
           UNCHANGED <<disk, conn, tx, lock, plan, up, torn>>,
           stream' \notin {"off", "broken"} => streamRun' \in Runs
    PROVE  StoreInv'
  <1> DEFINE q == Batches(R, evBuf, artBuf)
  <1>1. DOMAIN evBuf = Runs /\ \A s \in Runs : \A e \in evBuf[s] : e[2] \in Events
    BY DEF StoreInv, BufferInv
  <1>2. BatchesOK(q)
    BY <1>1, BatchesAreOK
  <1>3. DOMAIN evBuf' = Runs /\ \A s \in Runs : \A e \in evBuf'[s] : e[2] \in Events
    BY <1>1 DEF Emptied
  <1>4. todo' = [todo EXCEPT ![c] = q]
    OBVIOUS
  <1> HIDE DEF q
  <1> QED
    BY <1>2, <1>3, <1>4, BesidesKeeps

LEMMA StreamKeeps ==
    ASSUME StoreInv, (\E r \in Runs : OpenStream(r)) \/ Streaming
    PROVE  StoreInv'
  <1>1. DOMAIN evBuf = Runs /\ \A s \in Runs : \A e \in evBuf[s] : e[2] \in Events
    BY DEF StoreInv, BufferInv
  <1>2. Watcher \in Callers \ {Server}
    BY CallerNames
  <1>3. stream \notin {"off", "broken"} => streamRun \in Runs
    BY DEF StoreInv, BufferInv
  <1>4. CASE FlushForStream
    <2>1. streamRun \in Runs /\ stream' = "list" /\ streamRun' = streamRun
      BY <1>3, <1>4 DEF FlushForStream
    <2>2. /\ todo' = [todo EXCEPT ![Watcher] = Batches({streamRun}, evBuf, artBuf)]
          /\ evBuf' = Emptied({streamRun}, evBuf)
          /\ UNCHANGED <<disk, conn, tx, lock, plan, up, torn>>
      BY <1>4 DEF FlushForStream, store
    <2>3. {streamRun} \in SUBSET Runs
      BY <2>1
    <2> QED
      BY <1>2, <2>1, <2>2, <2>3, FlushKeeps
  <1>5. CASE (\E r \in Runs : OpenStream(r)) \/ ReadStatus \/ ListEvents \/ Wake
    <2>1. /\ UNCHANGED <<disk, conn, tx, lock, plan, up, torn, todo, evBuf>>
          /\ streamRun' \in Runs
      BY <1>3, <1>5 DEF OpenStream, ReadStatus, ListEvents, Wake, store, buffers
    <2>2. DOMAIN evBuf' = Runs /\ \A s \in Runs : \A e \in evBuf'[s] : e[2] \in Events
      BY <1>1, <2>1
    <2> QED
      BY <1>2, <2>1, <2>2, NoBatches, BesidesKeeps
  <1> QED
    BY <1>4, <1>5 DEF Streaming

\* A coroutine that gets the lock.
LEMMA EnterKeeps ==
    ASSUME StoreInv, NEW c \in Callers \ {Server}, NEW k, Enter(c, k),
           PlanOK(Group(k, conn), conn),
           UNCHANGED <<disk, conn, tx, evBuf, up, torn, stream, streamRun>>,
           todo' = todo \/ (\E q : BatchesOK(q) /\ todo' = [todo EXCEPT ![c] = q])
    PROVE  StoreInv'
  <1>1. lock = Nobody /\ lock' = c /\ plan' = [plan EXCEPT ![c] = Group(k, conn)]
    BY DEF Enter
  <1>2. /\ \A d \in Callers : plan[d] = <<>>
        /\ \A r : ~ Between(r)
    BY <1>1, NoPlans DEF StoreInv
  <1>3. LockInv'
    <2>1. DOMAIN plan' = Callers /\ DOMAIN todo' = Callers /\ todo'[Server] = <<>>
      BY <1>1, CallerNames DEF StoreInv, LockInv
    <2>2. plan'[c] = Group(k, conn) /\ \A d \in Callers \ {c} : plan'[d] = <<>>
      BY <1>1, <1>2 DEF StoreInv, LockInv
    <2>3. \A d \in Callers : PlanOK(plan'[d], conn)
      BY <2>2, EmptyPlan
    <2>4. plan'[Server] = <<>> /\ conn' = conn
      BY <2>2, CallerNames
    <2>5. \A d \in Callers : plan'[d] # <<>> => lock' = d
      BY <1>1, <2>2
    <2> QED
      BY <2>1, <2>3, <2>4, <2>5 DEF LockInv
  <1>4. BufferInv'
    BY DEF StoreInv, BufferInv, LockInv
  <1>5. DiskInv'
    BY DEF StoreInv, DiskInv
  <1>6. WholeInv'
    BY <1>2 DEF StoreInv, WholeInv
  <1> QED
    BY <1>3, <1>4, <1>5, <1>6 DEF StoreInv

LEMMA CallKeeps ==
    ASSUME StoreInv, NEW c \in Clients, NEW k \in Calls, Call(c, k)
    PROVE  StoreInv'
  <1>1. DbOK(conn)
    BY DEF StoreInv, DiskInv
  <1>2. PlanOK(Group(k, conn), conn)
    BY <1>1, StoreAssumption, GroupIsOK
  <1>3. c \in Callers \ {Server}
    BY CallerNames
  <1>4. /\ Enter(c, k)
        /\ UNCHANGED <<disk, conn, tx, evBuf, up, torn, stream, streamRun>>
        /\ todo' = todo
    BY DEF Call, store, buffers, watch
  <1> QED
    BY <1>2, <1>3, <1>4, EnterKeeps

LEMMA AcquireKeeps ==
    ASSUME StoreInv, NEW c \in Callers, Acquire(c)
    PROVE  StoreInv'
  <1> DEFINE b == Head(todo[c])
             k == [fn |-> IF b.events # {} THEN "write_events" ELSE "write_artifacts",
                   run |-> b.run,
                   ids |-> IF b.events # {} THEN b.events ELSE b.artifacts]
  <1>1. todo[c] # <<>> /\ BatchesOK(todo[c])
    BY DEF Acquire, StoreInv, BufferInv
  <1>2. /\ BatchOK(b)
        /\ BatchesOK(Tail(todo[c]))
        /\ BatchesOK([todo[c] EXCEPT ![1].events = {}])
    BY <1>1, FlushedBatches
  <1>3. c \in Callers \ {Server}
    BY <1>1 DEF StoreInv, LockInv
  <1>4. /\ Enter(c, k)
        /\ todo' = [todo EXCEPT ![c] = IF b.events # {} /\ b.artifacts # {}
                                       THEN [@ EXCEPT ![1].events = {}] ELSE Tail(@)]
        /\ UNCHANGED <<disk, conn, tx, evBuf, up, torn, stream, streamRun>>
    BY DEF Acquire, store, buffers, watch
  <1>5. \E q : BatchesOK(q) /\ todo' = [todo EXCEPT ![c] = q]
    <2> DEFINE q == IF b.events # {} /\ b.artifacts # {}
                    THEN [todo[c] EXCEPT ![1].events = {}] ELSE Tail(todo[c])
    <2>1. BatchesOK(q)
      BY <1>2
    <2>2. todo' = [todo EXCEPT ![c] = q]
      BY <1>4
    <2> HIDE DEF q
    <2> QED
      BY <2>1, <2>2
  <1>6. k.fn \in {"write_events", "write_artifacts"}
    OBVIOUS
  <1>7. k.fn = "write_events" => \A e \in k.ids : e[2] \in Events
    BY <1>2 DEF BatchOK
  <1> HIDE DEF k
  <1>8. PlanOK(Group(k, conn), conn)
    BY <1>6, <1>7, FlushIsOK
  <1> QED
    BY <1>3, <1>4, <1>5, <1>8, EnterKeeps

\* What the connection and the file are after a statement that succeeds.
Succeeded(s) ==
    /\ s.do = "rollback" => conn' = disk /\ disk' = disk /\ tx' = FALSE
    /\ s.do # "rollback" => conn' = Applied(s, conn)
    /\ s.do = "commit" => disk' = conn /\ conn' = conn /\ tx' = FALSE
    /\ s.do # "commit" => disk' = disk \/ (s.do \in Ddl /\ ~ tx /\ disk' = conn')
    /\ ~ tx' => conn' = disk'
    /\ tx' \in BOOLEAN
    /\ tx /\ s.do \notin {"commit", "rollback"} => tx'
    /\ DbOK(conn') /\ DbOK(disk')
    /\ Ids(conn, "columns") \subseteq Ids(conn', "columns") \/ s.do = "rollback"

LEMMA AfterSuccess ==
    ASSUME StoreInv, NEW c \in Callers, NEW s, StatementOK(s), Ready(s, conn), ~ Refuses(s),
           Succeed(c, s)
    PROVE  Succeeded(s)
  <1>1. ~ Refused(s, conn) /\ DbOK(conn) /\ DbOK(disk) /\ tx \in BOOLEAN /\ (~ tx => conn = disk)
    BY DEF Refuses, StoreInv, DiskInv
  <1>2. DbOK(Applied(s, conn)) /\ Ids(conn, "columns") \subseteq Ids(Applied(s, conn), "columns")
    BY <1>1, AppliedKeepsOrder
  <1>3. CASE s.do = "commit"
    <2>1. Applied(s, conn) = conn
      BY <1>3, AppliesNothing
    <2>2. disk' = conn /\ conn' = conn /\ tx' = FALSE
      BY <1>3 DEF Succeed, Ddl
    <2> QED
      BY <1>1, <1>3, <2>1, <2>2 DEF Succeeded
  <1>4. CASE s.do = "rollback"
    <2>1. disk' = disk /\ conn' = disk /\ tx' = FALSE
      BY <1>4 DEF Succeed, Ddl
    <2> QED
      BY <1>1, <1>4, <2>1 DEF Succeeded
  <1>5. CASE s.do = "begin"
    <2>1. Applied(s, conn) = conn
      BY <1>5, AppliesNothing
    <2>2. disk' = disk /\ conn' = conn /\ tx' = TRUE
      BY <1>5 DEF Succeed, Ddl
    <2> QED
      BY <1>1, <1>5, <2>1, <2>2 DEF Succeeded
  <1>6. CASE s.do \in Ddl
    BY <1>1, <1>2, <1>6 DEF Succeed, Ddl, Succeeded
  <1>7. CASE s.do \notin {"commit", "rollback", "begin"} \cup Ddl
    <2>1. disk' = disk /\ conn' = Applied(s, conn) /\ tx' = (tx \/ s.do \in Dml)
      BY <1>7 DEF Succeed
    <2>2. s.do \in Dml \/ s.do = "pragma"
      BY <1>7 DEF StatementOK, WritesOK, Dml, Ddl
    <2>3. s.do = "pragma" => Applied(s, conn) = conn
      BY AppliesNothing
    <2> QED
      BY <1>1, <1>2, <1>7, <2>1, <2>2, <2>3 DEF Succeeded
  <1> QED
    BY <1>3, <1>4, <1>5, <1>6, <1>7

\* What init_db has still to do after its first statement.
LEMMA StartsRest ==
    ASSUME NEW p, NEW db, NEW new, PlanOK(p, db), p # <<>>, Starts(p, db),
           Prepares(p[1], db, new), Tail(p) # <<>>
    PROVE  Starts(Tail(p), new)
  <1> DEFINE q == Tail(p)
  <1>1. /\ Len(p) \in Nat /\ 1 \in 1..Len(p)
        /\ Len(q) = Len(p) - 1
        /\ \A n \in 1..Len(q) : n + 1 \in 1..Len(p) /\ q[n] = p[n + 1]
        /\ q \in Seq({q[n] : n \in 1..Len(q)})
    BY TailOf DEF PlanOK
  <1>2. q # <<>>
    OBVIOUS
  <1> HIDE DEF q
  <1>3. Len(q) \in 1..Len(q) /\ Len(q) + 1 = Len(p)
    <2>1. Len(q) # 0 /\ Len(q) \in Nat
      BY <1>1, <1>2
    <2> DEFINE m == Len(p)
               n == Len(q)
    <2>2. m \in Nat /\ n \in Nat /\ n # 0 /\ n = m - 1
      BY <1>1, <2>1
    <2> HIDE DEF m, n
    <2>3. n \in 1..n /\ n + 1 = m
      BY <2>2
    <2> QED
      BY <2>3 DEF m, n
  <1>4. q[Len(q)] = Commit
    BY <1>1, <1>3 DEF Starts
  <1>5. ASSUME NEW u \in 1..Columns
        PROVE  u \in Ids(new, "columns") \/ \E m \in 1..Len(q) : q[m] = AddColumn(u)
    <2>1. CASE u \in Ids(db, "columns")
      BY <2>1 DEF Prepares
    <2>2. CASE u \notin Ids(db, "columns")
      <3>1. PICK m \in 1..Len(p) : p[m] = AddColumn(u)
        BY <2>2 DEF Starts
      <3>2. CASE m = 1
        BY <3>1, <3>2 DEF Prepares
      <3>3. CASE m # 1
        <4> DEFINE n == m - 1
        <4>1. n \in 1..Len(q) /\ n + 1 = m
          BY <3>3, <1>1
        <4> HIDE DEF n
        <4> QED
          BY <4>1, <3>1, <1>1
      <3> QED
        BY <3>2, <3>3
    <2> QED
      BY <2>1, <2>2
  <1>6. Starts(q, new)
    BY <1>4, <1>5 DEF Starts
  <1> QED
    BY <1>6 DEF q

LEMMA SucceedKeepsPlans ==
    ASSUME StoreInv, NEW c \in Callers, lock = c, plan[c] # <<>>, NEW s, s = Head(plan[c]),
           ~ Refuses(s), Succeed(c, s)
    PROVE  LockInv'
  <1> DEFINE p == plan[c]
  <1>1. DOMAIN plan = Callers /\ DOMAIN todo = Callers /\ PlanOK(p, conn)
    BY DEF StoreInv, LockInv
  <1>2. /\ Len(p) \in Nat /\ 1 \in 1..Len(p) /\ Head(p) = p[1]
        /\ Len(Tail(p)) = Len(p) - 1
        /\ \A n \in 1..Len(Tail(p)) : n + 1 \in 1..Len(p) /\ Tail(p)[n] = p[n + 1]
        /\ Tail(p) \in Seq({Tail(p)[n] : n \in 1..Len(Tail(p))})
    <2>1. p \in Seq({p[n] : n \in 1..Len(p)}) /\ p # <<>>
      BY <1>1 DEF PlanOK
    <2> HIDE DEF p
    <2> QED
      BY <2>1, TailOf
  <1> DEFINE q == Tail(p)
  <1>3. StatementOK(s) /\ Ready(s, conn)
    BY <1>1, <1>2, HeadIsReady
  <1>4. DbOK(conn) /\ ~ Refused(s, conn)
    BY DEF StoreInv, DiskInv, Refuses
  <1>5. Prepares(s, conn, Applied(s, conn))
    BY <1>3, <1>4, AppliedPrepares
  <1>6. s.do # "rollback" => conn' = Applied(s, conn)
    BY <1>3, AfterSuccess DEF Succeeded
  <1>7. /\ plan' = [plan EXCEPT ![c] = q] /\ todo' = todo
        /\ lock' = IF q = <<>> THEN Nobody ELSE lock
    BY DEF Succeed
  <1>8. s = p[1]
    BY <1>2
  <1>9. PlanOK(q, conn')
    <2>1. CASE s.do = "rollback"
      <3>1. Len(p) = 1
        BY <1>1, <1>2, <1>8, <2>1 DEF PlanOK
      <3>2. q \in Seq({q[n] : n \in 1..Len(q)}) /\ Len(q) = 0
        BY <1>2, <3>1
      <3> HIDE DEF q
      <3>3. q = <<>>
        BY <3>2
      <3> QED
        BY <3>3, EmptyPlan
    <2>2. CASE s.do # "rollback"
      BY <1>1, <1>5, <1>6, <1>8, <2>2, RestIsOK
    <2> QED
      BY <2>1, <2>2
  <1>10. ASSUME c = Server, q # <<>>
         PROVE  Starts(q, conn')
    <2>1. Starts(p, conn)
      BY <1>10 DEF StoreInv, LockInv
    <2>2. p # <<>> /\ p[1] = s
      BY <1>2
    <2>3. s.do # "rollback"
      <3>1. s.do = "rollback" => 1 = Len(p)
        BY <1>1, <1>2, <1>8 DEF PlanOK
      <3>2. Len(q) # 0
        <4>1. q \in Seq({q[n] : n \in 1..Len(q)})
          BY <1>2
        <4> HIDE DEF q
        <4> QED
          BY <1>10, <4>1
      <3> HIDE DEF p, q
      <3>3. Len(q) = Len(p) - 1
        BY <1>2 DEF q
      <3> QED
        BY <3>1, <3>2, <3>3
    <2>4. Prepares(p[1], conn, conn')
      BY <1>5, <1>6, <2>2, <2>3
    <2> HIDE DEF p
    <2> QED
      BY <1>1, <1>10, <2>1, <2>2, <2>4, StartsRest
  <1>11. \A d \in Callers \ {c} : plan[d] = <<>>
    BY DEF StoreInv, LockInv
  <1> HIDE DEF q
  <1>12. plan'[c] = q /\ \A d \in Callers \ {c} : plan'[d] = <<>>
    BY <1>1, <1>7, <1>11
  <1>13. DOMAIN plan' = Callers /\ DOMAIN todo' = Callers /\ todo'[Server] = <<>>
    BY <1>7 DEF StoreInv, LockInv
  <1>14. \A d \in Callers : PlanOK(plan'[d], conn')
    BY <1>9, <1>12, EmptyPlan
  <1>15. plan'[Server] # <<>> => Starts(plan'[Server], conn')
    BY <1>10, <1>12, CallerNames
  <1>16. \A d \in Callers : plan'[d] # <<>> => lock' = d
    BY <1>7, <1>12
  <1> QED
    BY <1>13, <1>14, <1>15, <1>16 DEF LockInv

LEMMA SucceedKeepsDisk ==
    ASSUME StoreInv, NEW c \in Callers, lock = c, plan[c] # <<>>, NEW s, s = Head(plan[c]),
           ~ Refuses(s), Succeed(c, s)
    PROVE  DiskInv'
  <1> DEFINE p == plan[c]
  <1>1. PlanOK(p, conn)
    BY DEF StoreInv, LockInv
  <1>2. /\ Len(p) \in Nat /\ 1 \in 1..Len(p) /\ Head(p) = p[1]
        /\ Len(Tail(p)) = Len(p) - 1
    BY <1>1, TailOf DEF PlanOK
  <1>3. StatementOK(s) /\ Ready(s, conn) /\ s = p[1]
    BY <1>1, <1>2, HeadIsReady
  <1>4. /\ s.do = "rollback" => conn' = disk /\ disk' = disk /\ tx' = FALSE
        /\ s.do = "commit" => disk' = conn /\ conn' = conn /\ tx' = FALSE
        /\ s.do # "commit" => disk' = disk \/ disk' = conn'
        /\ ~ tx' => conn' = disk'
        /\ tx' \in BOOLEAN
        /\ tx /\ s.do \notin {"commit", "rollback"} => tx'
        /\ DbOK(conn') /\ DbOK(disk')
        /\ Ids(conn, "columns") \subseteq Ids(conn', "columns") \/ s.do = "rollback"
    <2>1. Succeeded(s)
      BY <1>3, AfterSuccess, Zenon
    <2> QED
      BY <2>1 DEF Succeeded
  <1>5. /\ torn' = IF torn # "open" THEN torn
                   ELSE IF s.do = "commit" THEN "committed"
                   ELSE IF s.do = "rollback" THEN "no" ELSE torn
        /\ up' = (up \/ (c = Server /\ Tail(p) = <<>>))
    BY DEF Succeed
  <1>6. /\ torn \in {"no", "open", "committed"} /\ (torn = "open" => tx) /\ up \in BOOLEAN
        /\ up => Ids(conn, "columns") = 1..Columns /\ Ids(disk, "columns") = 1..Columns
    BY DEF StoreInv, DiskInv
  <1>7. torn' \in {"no", "open", "committed"} /\ (torn' = "open" => tx') /\ up' \in BOOLEAN
    BY <1>4, <1>5, <1>6
  <1>8. \A db : DbOK(db) => Ids(db, "columns") \subseteq 1..Columns
    BY TableNames DEF DbOK, RowsOK, Ids
  <1>9. CASE up
    <2>1. Ids(conn', "columns") = 1..Columns
      BY <1>4, <1>6, <1>8, <1>9
    <2>2. Ids(disk', "columns") = 1..Columns
      BY <2>1, <1>4, <1>6, <1>9
    <2> QED
      BY <2>1, <2>2, <1>4, <1>7 DEF DiskInv
  <1>10. CASE ~ up /\ c = Server /\ Tail(p) = <<>>
    <2>1. Starts(p, conn)
      BY <1>10 DEF StoreInv, LockInv
    <2>2. Len(p) = 1
      <3>1. Len(Tail(p)) = 0
        BY <1>10
      <3> QED
        BY <1>2, <3>1
    <2>3. s = Commit /\ s.do = "commit"
      BY <2>1, <2>2, <1>3 DEF Starts, Commit
    <2>4. 1..Columns \subseteq Ids(conn, "columns")
      <3> SUFFICES ASSUME NEW u \in 1..Columns, u \notin Ids(conn, "columns")
                   PROVE  FALSE
        OBVIOUS
      <3>1. PICK m \in 1..Len(p) : p[m] = AddColumn(u)
        BY <2>1 DEF Starts
      <3>2. m = 1
        BY <2>2
      <3> QED
        <4>1. AddColumn(u).do = "alter"
          BY DEF AddColumn
        <4>2. s = AddColumn(u)
          BY <3>1, <3>2, <1>3
        <4> QED
          BY <4>1, <4>2, <2>3
    <2>5. Ids(conn', "columns") = 1..Columns /\ disk' = conn'
      BY <2>3, <2>4, <1>4, <1>8
    <2> QED
      BY <2>5, <1>4, <1>7 DEF DiskInv
  <1>11. CASE ~ up'
    BY <1>11, <1>4, <1>7 DEF DiskInv
  <1> QED
    BY <1>5, <1>6, <1>9, <1>10, <1>11

LEMMA SucceedKeepsWhole ==
    ASSUME StoreInv, NEW c \in Callers, lock = c, plan[c] # <<>>, NEW s, s = Head(plan[c]),
           ~ Refuses(s), Succeed(c, s)
    PROVE  WholeInv'
  <1> DEFINE p == plan[c]
  <1>1. PlanOK(p, conn) /\ DOMAIN plan = Callers
    BY DEF StoreInv, LockInv
  <1>2. /\ Len(p) \in Nat /\ 1 \in 1..Len(p) /\ Head(p) = p[1]
        /\ Len(Tail(p)) = Len(p) - 1
        /\ Tail(p) \in Seq({Tail(p)[n] : n \in 1..Len(Tail(p))})
        /\ \A n \in 1..Len(Tail(p)) : n + 1 \in 1..Len(p) /\ Tail(p)[n] = p[n + 1]
    BY <1>1, TailOf DEF PlanOK
  <1>3. StatementOK(s) /\ Ready(s, conn) /\ s = p[1]
    BY <1>1, <1>2, HeadIsReady
  <1>4. /\ s.do = "rollback" => conn' = disk /\ disk' = disk
        /\ s.do # "rollback" => conn' = Applied(s, conn)
        /\ s.do = "commit" => disk' = conn /\ conn' = conn
        /\ s.do # "commit" => disk' = disk \/ (s.do \in Ddl /\ ~ tx /\ disk' = conn')
    <2>1. Succeeded(s)
      BY <1>3, AfterSuccess, Zenon
    <2> QED
      BY <2>1 DEF Succeeded
  <1>5. torn' = IF torn # "open" THEN torn
                ELSE IF s.do = "commit" THEN "committed"
                ELSE IF s.do = "rollback" THEN "no" ELSE torn
    BY DEF Succeed
  <1>6. /\ torn # "committed" => \A r \in Runs : WholeFor(disk, r)
        /\ torn = "no" => \A r \in Runs : WholeFor(conn, r) \/ Between(r)
    BY DEF StoreInv, WholeInv
  <1>7. \A r : Between(r) => s = Resolved(r)
    BY <1>3 DEF Between, StoreInv, LockInv
  <1>8. /\ DbOK(conn) /\ ~ Refused(s, conn) /\ (~ tx => conn = disk)
        /\ torn \in {"no", "open", "committed"}
    BY DEF StoreInv, DiskInv, Refuses
  <1>9. \A r : s = Resolved(r) \/ s = Queued(r) => s.do = "insert"
    <2>1. \A r : Resolved(r).do = "insert"
      BY DEF Resolved, Insert
    <2>2. \A r : Queued(r).do = "insert"
      BY DEF Queued, Insert
    <2> QED
      BY <2>1, <2>2, Zenon
  <1>10. ASSUME torn' # "committed", NEW r \in Runs
         PROVE  WholeFor(disk', r)
    <2>1. torn # "committed" /\ (torn = "open" => s.do # "commit")
      BY <1>5, <1>10, <1>8
    <2>2. CASE s.do = "commit"
      <3>1. s # Resolved(r)
        BY <2>2, <1>9
      <3> QED
        BY <2>1, <2>2, <3>1, <1>4, <1>6, <1>7, <1>8
    <2>3. CASE s.do # "commit" /\ disk' = disk
      BY <2>1, <2>3, <1>6
    <2>4. CASE s.do \in Ddl /\ ~ tx /\ disk' = conn'
      <3>1. s.do # "insert" /\ s.do # "rollback"
        BY <2>4 DEF Ddl
      <3>2. WholeFor(conn, r) /\ s # Queued(r)
        BY <2>1, <2>4, <3>1, <1>6, <1>8, <1>9
      <3>3. WholeFor(Applied(s, conn), r)
        BY <3>2, <1>3, <1>8, StaysWhole
      <3> QED
        BY <3>1, <3>3, <2>4, <1>4
    <2> QED
      BY <2>2, <2>3, <2>4, <1>4
  <1>11. ASSUME torn' = "no", NEW r \in Runs
         PROVE  WholeFor(conn', r) \/ Between(r)'
    <2>1. CASE s.do = "rollback"
      BY <2>1, <1>4, <1>5, <1>6, <1>11
    <2>2. CASE s.do # "rollback"
      <3>1. torn = "no"
        BY <2>2, <1>5, <1>8, <1>11
      <3>2. CASE s = Queued(r)
        <4> DEFINE x == Row("run_health_events", <<r, "run_queued">>, r, "")
        <4>1. x.run = r /\ x.id[2][2] = "run_queued"
          BY DEF Row
        <4>2. InsertsEvents(s) /\ s.rows = {x}
          <5>1. /\ Queued(r).do = "insert" /\ Queued(r).table = "run_health_events"
                /\ Queued(r).rows = {x}
            BY DEF Queued, Insert
          <5> HIDE DEF x
          <5> QED
            BY <3>2, <5>1 DEF InsertsEvents
        <4> HIDE DEF x
        <4>3. InitialPrepared(p, 1, conn)
          BY <1>1, <1>2 DEF PlanOK
        <4>4. 1 + 1 \in 1..Len(p) /\ p[1 + 1] = Resolved(r)
          BY <4>1, <4>2, <4>3, <1>3, Zenon DEF InitialPrepared
        <4>5. Tail(p) # <<>> /\ Tail(p)[1] = Resolved(r)
          BY <4>4, <1>2
        <4>6. plan'[c] = Tail(p)
          BY <1>1 DEF Succeed
        <4> QED
          BY <4>5, <4>6 DEF Between
      <3>3. CASE s # Queued(r)
        <4>1. WholeFor(conn, r) \/ s = Resolved(r)
          BY <3>1, <1>6, <1>7
        <4>2. WholeFor(Applied(s, conn), r)
          BY <4>1, <3>3, <1>3, <1>8, StaysWhole
        <4> QED
          BY <4>2, <2>2, <1>4
      <3> QED
        BY <3>2, <3>3
    <2> QED
      BY <2>1, <2>2
  <1> QED
    BY <1>10, <1>11 DEF WholeInv

\* An exception leaves the group, and a flush with it.
LEMMA RaiseKeeps ==
    ASSUME StoreInv, NEW c \in Callers, lock = c, plan[c] # <<>>, NEW open \in BOOLEAN,
           tx => open, Raise(c, open), UNCHANGED <<evBuf, streamRun>>,
           stream' \in {stream, "broken"}
    PROVE  StoreInv'
  <1>1. /\ disk' = disk /\ conn' = (IF rescue[c] THEN disk ELSE conn)
        /\ tx' = (open /\ ~ rescue[c])
        /\ torn' = IF tx' THEN IF torn = "no" THEN "open" ELSE torn
                   ELSE IF torn = "open" THEN "no" ELSE torn
        /\ plan' = [plan EXCEPT ![c] = <<>>] /\ todo' = [todo EXCEPT ![c] = <<>>]
        /\ up' = up
    BY DEF Raise
  <1>2. \A d \in Callers \ {c} : plan[d] = <<>>
    BY DEF StoreInv, LockInv
  <1>3. \A d \in Callers : plan'[d] = <<>>
    BY <1>1, <1>2 DEF StoreInv, LockInv
  <1>4. /\ torn \in {"no", "open", "committed"} /\ (~ tx => conn = disk)
        /\ DbOK(disk) /\ DbOK(conn) /\ up \in BOOLEAN
        /\ up => Ids(conn, "columns") = 1..Columns /\ Ids(disk, "columns") = 1..Columns
    BY DEF StoreInv, DiskInv
  <1>5. tx' \in BOOLEAN /\ (~ tx' => conn' = disk)
    BY <1>1, <1>4
  <1>6. /\ torn' \in {"no", "open", "committed"} /\ (torn' = "open" => tx')
        /\ torn' = "no" => ~ tx' /\ torn # "committed"
        /\ torn' # "committed" => torn # "committed"
    BY <1>1, <1>4
  <1>7. LockInv'
    <2>1. DOMAIN plan' = Callers /\ DOMAIN todo' = Callers /\ todo'[Server] = <<>>
      BY <1>1, CallerNames DEF StoreInv, LockInv
    <2>2. \A d \in Callers : PlanOK(plan'[d], conn')
      BY <1>3, EmptyPlan
    <2> QED
      BY <1>3, <2>1, <2>2, CallerNames DEF LockInv
  <1>8. BufferInv'
    BY <1>1, NoBatches DEF StoreInv, BufferInv, LockInv
  <1>9. DiskInv'
    <2>1. conn' = conn \/ conn' = disk
      BY <1>1
    <2>2. DbOK(conn') /\ DbOK(disk')
      BY <1>1, <1>4, <2>1
    <2>3. up' => Ids(conn', "columns") = 1..Columns /\ Ids(disk', "columns") = 1..Columns
      BY <1>1, <1>4, <2>1
    <2> QED
      BY <1>1, <1>4, <1>5, <1>6, <2>2, <2>3 DEF DiskInv
  <1>10. WholeInv'
    <2>1. torn # "committed" => \A r \in Runs : WholeFor(disk, r)
      BY DEF StoreInv, WholeInv
    <2>2. torn' # "committed" => \A r \in Runs : WholeFor(disk', r)
      BY <1>1, <1>6, <2>1
    <2>3. torn' = "no" => \A r \in Runs : WholeFor(conn', r)
      BY <1>5, <1>6, <2>1
    <2> QED
      BY <2>2, <2>3 DEF WholeInv
  <1> QED
    BY <1>7, <1>8, <1>9, <1>10 DEF StoreInv

LEMMA ExecuteKeeps ==
    ASSUME StoreInv, NEW c \in Callers, Execute(c)
    PROVE  StoreInv'
  <1> DEFINE s == Head(plan[c])
  <1>1. /\ lock = c /\ plan[c] # <<>>
        /\ UNCHANGED <<evBuf, streamRun>>
        /\ stream' \in {stream, "broken"}
    BY DEF Execute, buffers
  <1>2. CASE Refuses(s)
    <2> DEFINE open == tx \/ s.do \in Dml
    <2>1. open \in BOOLEAN /\ (tx => open)
      OBVIOUS
    <2>2. Raise(c, open)
      BY <1>2 DEF Execute
    <2> HIDE DEF open
    <2> QED
      BY <1>1, <2>1, <2>2, RaiseKeeps
  <1>3. CASE ~ Refuses(s)
    <2>1. Succeed(c, s)
      BY <1>3 DEF Execute
    <2>2. LockInv' /\ DiskInv' /\ WholeInv'
      <3> HIDE DEF s
      <3>1. s = Head(plan[c])
        BY DEF s
      <3> QED
        BY <1>1, <1>3, <2>1, <3>1, SucceedKeepsPlans, SucceedKeepsDisk, SucceedKeepsWhole
    <2>3. todo' = todo
      BY <2>1 DEF Succeed
    <2>4. BufferInv'
      BY <1>1, <2>3 DEF StoreInv, BufferInv
    <2> QED
      BY <2>2, <2>4 DEF StoreInv
  <1> QED
    BY <1>2, <1>3

\* save_telemetry_signals goes on after a signal that could not be written.
LEMMA SkippedPrepares ==
    ASSUME NEW s, NEW db, s.do = "put", s.table = "telemetry_signals"
    PROVE  Prepares(s, db, db)
  <1>1. \A r : Insert("runs", {r}, r, "queued").do = "insert"
    BY DEF Insert
  <1>2. \A r : Queued(r).do = "insert"
    BY DEF Queued, Insert
  <1>3. \A u : AddColumn(u).do = "alter"
    BY DEF AddColumn
  <1>4. SetAll("release_policies", "").do = "setAll"
    BY DEF SetAll
  <1>5. \A r : DeleteRun("run_health_events", r).do = "delete"
    BY DEF DeleteRun
  <1>6. /\ \A r : s # Insert("runs", {r}, r, "queued")
        /\ \A r : s # Queued(r)
        /\ \A u : s # AddColumn(u)
        /\ s # SetAll("release_policies", "")
        /\ \A r : s # DeleteRun("run_health_events", r)
    <2>1. "put" # "insert" /\ "put" # "alter" /\ "put" # "setAll" /\ "put" # "delete"
      OBVIOUS
    <2> QED
      BY <1>1, <1>2, <1>3, <1>4, <1>5, <2>1, Zenon
  <1> QED
    BY <1>6 DEF Prepares

LEMMA FaultKeeps ==
    ASSUME StoreInv, NEW c \in Callers, Fault(c)
    PROVE  StoreInv'
  <1> DEFINE s == Head(plan[c])
             p == plan[c]
  <1>1. /\ lock = c /\ plan[c] # <<>> /\ up
        /\ UNCHANGED <<evBuf, streamRun>>
        /\ stream' \in {stream, "broken"}
    BY DEF Fault, buffers
  <1>2. CASE ~ (s.do = "put" /\ s.table = "telemetry_signals")
    <2>1. Raise(c, tx)
      BY <1>2 DEF Fault
    <2>2. tx \in BOOLEAN
      BY DEF StoreInv, DiskInv
    <2> QED
      BY <1>1, <2>1, <2>2, RaiseKeeps
  <1>3. CASE s.do = "put" /\ s.table = "telemetry_signals"
    <2>1. /\ plan' = [plan EXCEPT ![c] = Tail(p)]
          /\ UNCHANGED <<disk, conn, tx, torn, todo, lock, up>>
      BY <1>3 DEF Fault
    <2>2. DOMAIN plan = Callers /\ PlanOK(p, conn)
      BY DEF StoreInv, LockInv
    <2>3. p \in Seq({p[n] : n \in 1..Len(p)}) /\ p # <<>>
      BY <1>1, <2>2 DEF PlanOK
    <2>4. /\ Len(p) \in Nat /\ 1 \in 1..Len(p) /\ Head(p) = p[1]
          /\ Len(Tail(p)) = Len(p) - 1
          /\ \A n \in 1..Len(Tail(p)) : n + 1 \in 1..Len(p) /\ Tail(p)[n] = p[n + 1]
          /\ Tail(p) \in Seq({Tail(p)[n] : n \in 1..Len(Tail(p))})
      <3> HIDE DEF p
      <3> QED
        BY <2>3, TailOf
    <2>5. p[1].do = "put" /\ p[1].table = "telemetry_signals"
      BY <1>3, <2>4
    <2>6. PlanOK(Tail(p), conn)
      <3>1. Prepares(p[1], conn, conn)
        BY <2>5, SkippedPrepares
      <3> HIDE DEF p
      <3> QED
        BY <2>2, <2>3, <3>1, RestIsOK
    <2>7. p[1] # Commit /\ \A r : p[1] # Resolved(r)
      <3>1. Commit.do = "commit" /\ \A r : Resolved(r).do = "insert"
        BY DEF Commit, Resolved, Insert
      <3> QED
        BY <2>5, <3>1
    <2>8. \A d \in Callers \ {c} : plan[d] = <<>>
      BY <1>1 DEF StoreInv, LockInv
    <2>9. \A r : ~ Between(r)
      BY <2>7, <2>8 DEF Between
    <2>10. plan'[c] = Tail(p) /\ \A d \in Callers \ {c} : plan'[d] = <<>>
      BY <2>1, <2>2, <2>8
    <2>11. plan'[Server] # <<>> => Starts(plan'[Server], conn')
      <3> SUFFICES ASSUME c = Server, Tail(p) # <<>>
                   PROVE  Starts(Tail(p), conn')
        BY <2>10, CallerNames
      <3>1. Starts(p, conn) /\ conn' = conn
        BY <2>1, <2>3 DEF StoreInv, LockInv
      <3>2. Prepares(p[1], conn, conn)
        BY <2>5, SkippedPrepares
      <3> HIDE DEF p
      <3>3. Starts(Tail(p), conn)
        BY <2>2, <2>3, <3>1, <3>2, StartsRest
      <3> QED
        BY <3>1, <3>3
    <2>12. LockInv'
      <3>1. DOMAIN plan' = Callers /\ DOMAIN todo' = Callers /\ todo'[Server] = <<>>
        BY <2>1 DEF StoreInv, LockInv
      <3>2. conn' = conn /\ lock' = c
        BY <1>1, <2>1
      <3>3. \A d \in Callers : PlanOK(plan'[d], conn')
        BY <2>6, <2>10, <3>2, EmptyPlan
      <3>4. \A d \in Callers : plan'[d] # <<>> => lock' = d
        BY <2>10, <3>2
      <3> QED
        BY <2>11, <3>1, <3>3, <3>4 DEF LockInv
    <2>13. BufferInv'
      BY <1>1, <2>1 DEF StoreInv, BufferInv
    <2>14. DiskInv'
      BY <2>1 DEF StoreInv, DiskInv
    <2>15. WholeInv'
      BY <2>1, <2>9 DEF StoreInv, WholeInv
    <2> QED
      BY <2>12, <2>13, <2>14, <2>15 DEF StoreInv
  <1> QED
    BY <1>2, <1>3

\* A coroutine is cancelled: its half of a transaction stays open.
LEMMA CutKeeps ==
    ASSUME StoreInv, NEW c \in Callers, Cut(c)
    PROVE  StoreInv'
  <1>1. /\ UNCHANGED <<disk, conn, tx, evBuf, up, streamRun>>
        /\ lock' = IF lock = c THEN Nobody ELSE lock
        /\ torn' = IF lock = c /\ tx /\ torn = "no" THEN "open" ELSE torn
        /\ plan' = [plan EXCEPT ![c] = <<>>] /\ todo' = [todo EXCEPT ![c] = <<>>]
        /\ stream' \in {stream, "broken"}
    BY DEF Cut, store, buffers
  <1>2. /\ DOMAIN plan = Callers /\ DOMAIN todo = Callers /\ todo[Server] = <<>>
        /\ \A d \in Callers : plan[d] # <<>> => lock = d
        /\ \A d \in Callers : PlanOK(plan[d], conn)
        /\ plan[Server] # <<>> => Starts(plan[Server], conn)
    BY DEF StoreInv, LockInv
  <1>3. plan'[c] = <<>> /\ \A d \in Callers \ {c} : plan'[d] = plan[d]
    BY <1>1, <1>2
  <1>4. LockInv'
    <2>1. DOMAIN plan' = Callers /\ DOMAIN todo' = Callers /\ todo'[Server] = <<>>
      BY <1>1, <1>2, CallerNames
    <2>2. conn' = conn
      BY <1>1
    <2>3. \A d \in Callers : PlanOK(plan'[d], conn')
      BY <1>2, <1>3, <2>2, EmptyPlan
    <2>4. \A d \in Callers : plan'[d] # <<>> => lock' = d
      BY <1>1, <1>2, <1>3
    <2>5. plan'[Server] # <<>> => Starts(plan'[Server], conn')
      BY <1>2, <1>3, <2>2, CallerNames
    <2> QED
      BY <2>1, <2>3, <2>4, <2>5 DEF LockInv
  <1>5. BufferInv'
    BY <1>1, NoBatches DEF StoreInv, BufferInv, LockInv
  <1>6. DiskInv'
    BY <1>1 DEF StoreInv, DiskInv
  <1>7. WholeInv'
    <2>1. /\ torn # "committed" => \A r \in Runs : WholeFor(disk, r)
          /\ torn = "no" => \A r \in Runs : WholeFor(conn, r) \/ Between(r)
          /\ torn \in {"no", "open", "committed"} /\ (~ tx => conn = disk)
      BY DEF StoreInv, WholeInv, DiskInv
    <2>2. torn' # "committed" => \A r \in Runs : WholeFor(disk', r)
      BY <1>1, <2>1
    <2>3. ASSUME torn' = "no", NEW r \in Runs
          PROVE  WholeFor(conn', r) \/ Between(r)'
      <3>1. torn = "no" /\ (lock # c \/ ~ tx)
        BY <1>1, <2>1, <2>3
      <3>2. CASE ~ tx
        BY <1>1, <2>1, <3>1, <3>2
      <3>3. CASE lock # c
        <4>1. \A d \in Callers : plan'[d] = plan[d]
          BY <1>2, <1>3, <3>3
        <4>2. Between(r)' <=> Between(r)
          BY <4>1 DEF Between
        <4> QED
          BY <1>1, <2>1, <3>1, <4>2
      <3> QED
        BY <3>1, <3>2, <3>3
    <2> QED
      BY <2>2, <2>3 DEF WholeInv
  <1> QED
    BY <1>4, <1>5, <1>6, <1>7 DEF StoreInv

\* A process starts with init_db on what is committed.
LEMMA StartingIsOK ==
    ASSUME NEW db, DbOK(db)
    PROVE  /\ DOMAIN Starting(db) = Callers
           /\ \A c \in Callers : PlanOK(Starting(db)[c], db)
           /\ \A c \in Callers : Starting(db)[c] # <<>> => c = Server
           /\ Starts(Starting(db)[Server], db)
  <1> DEFINE p == init_db(db)
  <1>1. PlanOK(p, db) /\ Starts(p, db)
    BY StartGroup
  <1>2. Starting(db) = [c \in Callers |-> IF c = Server THEN p ELSE <<>>]
    BY DEF Starting
  <1> HIDE DEF p
  <1> QED
    BY <1>1, <1>2, EmptyPlan, CallerNames

LEMMA CrashKeeps ==
    ASSUME StoreInv, Crash
    PROVE  StoreInv'
  <1>1. /\ disk' = disk /\ conn' = disk /\ tx' = FALSE /\ up' = FALSE
        /\ torn' = IF torn = "open" THEN "no" ELSE torn
        /\ lock' = Server /\ plan' = Starting(disk)
        /\ todo' = [c \in Callers |-> <<>>] /\ evBuf' = [r \in Runs |-> {}]
        /\ stream' = IF stream \in {"off", "closed"} THEN stream ELSE "broken"
        /\ streamRun' = streamRun
    BY DEF Crash
  <1>2. DbOK(disk) /\ torn \in {"no", "open", "committed"}
    BY DEF StoreInv, DiskInv
  <1>3. /\ DOMAIN Starting(disk) = Callers
        /\ \A c \in Callers : PlanOK(Starting(disk)[c], disk)
        /\ \A c \in Callers : Starting(disk)[c] # <<>> => c = Server
        /\ Starts(Starting(disk)[Server], disk)
    BY <1>2, StartingIsOK
  <1>4. LockInv'
    <2>1. DOMAIN todo' = Callers /\ todo'[Server] = <<>>
      BY <1>1, CallerNames
    <2> QED
      BY <1>1, <1>3, <2>1 DEF LockInv
  <1>5. BufferInv'
    <2>1. \A c \in Callers : BatchesOK(todo'[c])
      BY <1>1, NoBatches
    <2>2. DOMAIN evBuf' = Runs /\ \A r \in Runs : \A e \in evBuf'[r] : e[2] \in Events
      BY <1>1
    <2>3. stream' \notin {"off", "broken"} => streamRun' \in Runs
      BY <1>1 DEF StoreInv, BufferInv
    <2> QED
      BY <2>1, <2>2, <2>3 DEF BufferInv
  <1>6. torn' \in {"no", "committed"} /\ (torn' # "committed" => torn # "committed")
    BY <1>1, <1>2
  <1>7. DiskInv'
    BY <1>1, <1>2, <1>6 DEF DiskInv
  <1>8. WholeInv'
    <2>1. torn # "committed" => \A r \in Runs : WholeFor(disk, r)
      BY DEF StoreInv, WholeInv
    <2> QED
      BY <1>1, <1>6, <2>1 DEF WholeInv
  <1> QED
    BY <1>4, <1>5, <1>7, <1>8 DEF StoreInv

LEMMA InitKeeps ==
    ASSUME Init
    PROVE  StoreInv
  <1>1. PICK n \in StartColumns, status \in [Runs -> StartStatuses] :
          /\ n = 0 => status = [r \in Runs |-> "none"]
          /\ created = {r \in Runs : status[r] # "none"}
          /\ disk = [EmptyDb EXCEPT
                    !["runs"] = {Row("runs", r, r, status[r]) : r \in created},
                    !["run_health_events"] =
                        {Row("run_health_events", e, e[1], "") : e \in UNION {Initial(r) : r \in created}},
                    !["columns"] = {Row("columns", m, NoRun, "") : m \in 1..n},
                    !["schema_version"] = IF n = 0 THEN {} ELSE {Row("schema_version", n, NoRun, "")}]
    BY DEF Init
  <1> DEFINE runs == {Row("runs", r, r, status[r]) : r \in created}
             events == {Row("run_health_events", e, e[1], "") : e \in UNION {Initial(r) : r \in created}}
             columns == {Row("columns", m, NoRun, "") : m \in 1..n}
             versions == IF n = 0 THEN {} ELSE {Row("schema_version", n, NoRun, "")}
  <1>2. n \in 0..Columns
    BY StoreAssumption
  <1>3. \A t, i, r, v : /\ DOMAIN Row(t, i, r, v) = {"id", "run", "v"}
                        /\ Row(t, i, r, v).id[2] = i /\ Row(t, i, r, v).run = r
    BY DEF Row
  <1>4. /\ \A x \in runs : DOMAIN x = {"id", "run", "v"} /\ x.id[2] = x.run
        /\ \A x \in events : DOMAIN x = {"id", "run", "v"} /\ x.run = x.id[2][1]
        /\ \A x \in columns : DOMAIN x = {"id", "run", "v"} /\ x.id[2] \in 1..n
        /\ \A x \in versions : DOMAIN x = {"id", "run", "v"} /\ x.id[2] = n /\ n # 0
    <2>1. \A x \in runs : \E r \in created : x = Row("runs", r, r, status[r])
      OBVIOUS
    <2>2. \A x \in events : \E e, v : x = Row("run_health_events", e, e[1], v)
      OBVIOUS
    <2>3. \A x \in columns : \E m \in 1..n : \E v : x = Row("columns", m, NoRun, v)
      OBVIOUS
    <2>4. \A x \in versions : (\E v : x = Row("schema_version", n, NoRun, v)) /\ n # 0
      OBVIOUS
    <2> HIDE DEF runs, events, columns, versions
    <2>5. \A x \in runs : DOMAIN x = {"id", "run", "v"} /\ x.id[2] = x.run
      BY <2>1 DEF Row
    <2>6. \A x \in events : DOMAIN x = {"id", "run", "v"} /\ x.run = x.id[2][1]
      BY <2>2 DEF Row
    <2>7. \A x \in columns : DOMAIN x = {"id", "run", "v"} /\ x.id[2] \in 1..n
      BY <2>3 DEF Row
    <2>8. \A x \in versions : DOMAIN x = {"id", "run", "v"} /\ x.id[2] = n /\ n # 0
      BY <2>4 DEF Row
    <2> QED
      BY <2>5, <2>6, <2>7, <2>8
  <1>5. \A u \in 1..n : \E x \in columns : x.id[2] = u
    <2> SUFFICES ASSUME NEW u \in 1..n
                 PROVE  \E x \in columns : x.id[2] = u
      OBVIOUS
    <2>1. Row("columns", u, NoRun, "") \in columns
      OBVIOUS
    <2> HIDE DEF columns
    <2> QED
      BY <2>1 DEF Row
  <1>6. \A x \in events : \E r \in created : x.run = r
    <2>1. \A x \in events : \E r \in created : \E e \in Initial(r) : \E v :
             x = Row("run_health_events", e, e[1], v)
      OBVIOUS
    <2>2. \A r : \A e \in Initial(r) : e[1] = r
      BY InitialNames
    <2> HIDE DEF events
    <2> QED
      BY <1>3, <2>1, <2>2
  <1>7. \A r \in created : \A e \in Initial(r) : \E x \in events : x.id[2] = e
    <2> SUFFICES ASSUME NEW r \in created, NEW e \in Initial(r)
                 PROVE  \E x \in events : x.id[2] = e
      OBVIOUS
    <2>1. Row("run_health_events", e, e[1], "") \in events
      OBVIOUS
    <2> HIDE DEF events
    <2> QED
      BY <2>1 DEF Row
  <1>8. \A r \in created : \E x \in runs : x.id[2] = r
    <2> SUFFICES ASSUME NEW r \in created
                 PROVE  \E x \in runs : x.id[2] = r
      OBVIOUS
    <2>1. Row("runs", r, r, status[r]) \in runs
      OBVIOUS
    <2> HIDE DEF runs
    <2> QED
      BY <2>1 DEF Row
  <1>9. DOMAIN EmptyDb = Tables /\ \A t \in Tables : EmptyDb[t] = {}
    BY DEF EmptyDb
  <1>10. /\ DOMAIN disk = Tables
        /\ disk["runs"] = runs /\ disk["run_health_events"] = events
        /\ disk["columns"] = columns /\ disk["schema_version"] = versions
        /\ \A t \in Tables \ {"runs", "run_health_events", "columns", "schema_version"} : disk[t] = {}
    <2> HIDE DEF runs, events, columns, versions
    <2>1. disk = [EmptyDb EXCEPT !["runs"] = runs, !["run_health_events"] = events,
                                 !["columns"] = columns, !["schema_version"] = versions]
      BY <1>1, Zenon DEF runs, events, columns, versions
    <2> QED
      BY <1>9, <2>1, TableNames
  <1> HIDE DEF runs, events, columns, versions
  <1>11. \A t \in Tables : RowsOK(t, disk[t])
    <2> SUFFICES ASSUME NEW t \in Tables
                 PROVE  RowsOK(t, disk[t])
      OBVIOUS
    <2>1. CASE t = "runs"
      BY <1>4, <1>10, <2>1 DEF RowsOK
    <2>2. CASE t = "run_health_events"
      BY <1>4, <1>10, <2>2 DEF RowsOK
    <2>3. CASE t = "columns"
      <3>1. 1..n \subseteq 1..Columns
        BY <1>2, GroupsAssumption
      <3>2. \A x \in columns : DOMAIN x = {"id", "run", "v"} /\ x.id[2] \in 1..Columns
        BY <1>4, <3>1
      <3> QED
        BY <1>10, <2>3, <3>2 DEF RowsOK
    <2>4. CASE t = "schema_version"
      BY <1>2, <1>4, <1>10, <2>4 DEF RowsOK
    <2>5. CASE t \notin {"runs", "run_health_events", "columns", "schema_version"}
      BY <1>10, <2>5 DEF RowsOK
    <2> QED
      BY <2>1, <2>2, <2>3, <2>4, <2>5
  <1>12. \A t \in RunChildren : \A x \in disk[t] : HasRun(disk, x.run)
    <2>1. \A r \in created : HasRun(disk, r)
      BY <1>10, <1>8, Zenon DEF HasRun, Ids
    <2>2. \A t \in RunChildren : t # "run_health_events" => disk[t] = {}
      BY <1>10, TableNames DEF RunChildren
    <2> QED
      BY <1>6, <1>10, <2>1, <2>2, Zenon
  <1>13. \A x \in disk["schema_version"] : 1..x.id[2] \subseteq Ids(disk, "columns")
    BY <1>4, <1>5, <1>10 DEF Ids
  <1>14. DbOK(disk)
    BY <1>10, <1>11, <1>12, <1>13 DEF DbOK
  <1>15. \A r \in Runs : WholeFor(disk, r)
    <2> SUFFICES ASSUME NEW r \in Runs, Initial(r) \cap EventIds(disk) # {}
                 PROVE  Initial(r) \subseteq EventIds(disk) /\ HasRun(disk, r)
      BY DEF WholeFor
    <2>1. PICK x \in disk["run_health_events"] : x.id[2] \in Initial(r)
      BY DEF EventIds, Ids
    <2>2. x.run = r
      BY <1>14, <2>1, InitialRows
    <2>3. r \in created
      BY <1>6, <1>10, <2>1, <2>2, Zenon
    <2>4. HasRun(disk, r)
      BY <1>8, <1>10, <2>3 DEF HasRun, Ids
    <2> QED
      BY <1>7, <1>10, <2>3, <2>4 DEF EventIds, Ids
  <1>16. /\ conn = disk /\ tx = FALSE /\ lock = Server /\ up = FALSE /\ torn = "no"
         /\ todo = [c \in Callers |-> <<>>] /\ plan = Starting(disk)
         /\ evBuf = [r \in Runs |-> {}] /\ stream = "off"
    BY DEF Init
  <1>17. /\ DOMAIN Starting(disk) = Callers
         /\ \A c \in Callers : PlanOK(Starting(disk)[c], disk)
         /\ \A c \in Callers : Starting(disk)[c] # <<>> => c = Server
         /\ Starts(Starting(disk)[Server], disk)
    BY <1>14, StartingIsOK
  <1>18. LockInv
    <2>1. DOMAIN todo = Callers /\ todo[Server] = <<>>
      BY <1>16, CallerNames
    <2> QED
      BY <1>16, <1>17, <2>1 DEF LockInv
  <1>19. BufferInv
    <2>1. \A c \in Callers : BatchesOK(todo[c])
      BY <1>16, NoBatches
    <2> QED
      BY <1>16, <2>1 DEF BufferInv
  <1>20. DiskInv
    BY <1>14, <1>16 DEF DiskInv
  <1>21. WholeInv
    BY <1>15, <1>16 DEF WholeInv
  <1> QED
    BY <1>18, <1>19, <1>20, <1>21 DEF StoreInv

-----------------------------------------------------------------------------
(* What holds in every state *)

LEMMA NextKeeps ==
    ASSUME StoreInv, [Next]_vars
    PROVE  StoreInv'
  <1>1. CASE \E c \in Clients, k \in Calls : Call(c, k)
    BY <1>1, CallKeeps
  <1>2. CASE \E c \in Recorders, r \in Runs, e \in Events : save_run_health_event(c, r, e)
    <2>1. PICK c \in Recorders, r \in Runs, e \in Events : SaveEvents(c, r, {<<r, e>>}, FALSE)
      BY <1>2 DEF save_run_health_event
    <2>2. \A x \in {<<r, e>>} : x[2] \in Events
      OBVIOUS
    <2> QED
      BY <2>1, <2>2, SaveEventsKeeps
  <1>3. CASE \E c \in Recorders, r \in Runs, e, f \in Events : save_run_health_events(c, r, e, f)
    <2>1. PICK c \in Recorders, r \in Runs, e, f \in Events :
             SaveEvents(c, r, {<<r, e>>, <<r, f>>}, TRUE)
      BY <1>3 DEF save_run_health_events
    <2>2. \A x \in {<<r, e>>, <<r, f>>} : x[2] \in Events
      OBVIOUS
    <2> QED
      BY <2>1, <2>2, SaveEventsKeeps
  <1>4. CASE \E c \in Recorders, r \in Runs, always \in BOOLEAN : save_artifact(c, r, always)
    BY <1>4, SaveArtifactKeeps
  <1>5. CASE \E c \in Recorders, R \in {{r} : r \in Runs} \cup {Runs} : flush_buffered_writes(c, R)
    <2>1. PICK c \in Recorders, R \in {{r} : r \in Runs} \cup {Runs} : flush_buffered_writes(c, R)
      BY <1>5
    <2>2. R \in SUBSET Runs /\ c \in Callers \ {Server}
      BY CallerNames
    <2>3. /\ todo' = [todo EXCEPT ![c] = Batches(R, evBuf, artBuf)]
          /\ evBuf' = Emptied(R, evBuf)
          /\ UNCHANGED <<disk, conn, tx, lock, plan, up, torn, stream, streamRun>>
      BY <2>1 DEF flush_buffered_writes, store, watch
    <2>4. stream' \notin {"off", "broken"} => streamRun' \in Runs
      BY <2>3 DEF StoreInv, BufferInv
    <2> QED
      BY <2>2, <2>3, <2>4, FlushKeeps
  <1>6. CASE \E c \in Callers : Acquire(c) \/ Execute(c) \/ Fault(c) \/ Cut(c)
    BY <1>6, AcquireKeeps, ExecuteKeeps, FaultKeeps, CutKeeps
  <1>7. CASE Crash
    BY <1>7, CrashKeeps
  <1>8. CASE (\E r \in Runs : OpenStream(r)) \/ Streaming
    BY <1>8, StreamKeeps
  <1>9. CASE UNCHANGED vars
    <2>1. UNCHANGED <<disk, conn, tx, lock, todo, plan, evBuf, up, torn, stream, streamRun>>
      BY <1>9 DEF vars
    <2>2. LockInv'
      BY <2>1 DEF StoreInv, LockInv
    <2>3. BufferInv'
      BY <2>1 DEF StoreInv, BufferInv
    <2>4. DiskInv'
      BY <2>1 DEF StoreInv, DiskInv
    <2>5. WholeInv'
      BY <2>1 DEF StoreInv, WholeInv, Between
    <2> QED
      BY <2>2, <2>3, <2>4, <2>5 DEF StoreInv
  <1> QED
    BY <1>1, <1>2, <1>3, <1>4, <1>5, <1>6, <1>7, <1>8, <1>9 DEF Next

\* What the groups leave on the connection and the disk between any two
\* statements, with a cancelled coroutine, a failed statement or a crash.
THEOREM StoreInvariant == Spec => []StoreInv
  <1>1. Init => StoreInv
    BY InitKeeps
  <1>2. StoreInv /\ [Next]_vars => StoreInv'
    BY NextKeeps
  <1> QED
    BY <1>1, <1>2, PTL DEF Spec

\* Every group of statements of sqlite.py runs under _db_rw_lock and is whole on
\* the disk: one default policy at most, no case without its run, and the first
\* events of a run together and with it.
THEOREM GroupsStayWhole == Spec => []GroupsAreWhole
  <1>1. ASSUME StoreInv
        PROVE  GroupsAreWhole
    <2>1. DbOK(disk)
      BY <1>1 DEF StoreInv, DiskInv
    <2>2. \A c \in Callers : plan[c] # <<>> => lock = c
      BY <1>1 DEF StoreInv, LockInv
    <2>3. Cardinality({x \in disk["release_policies"] : x.v = "default"}) <= 1
      <3> DEFINE D == {x \in disk["release_policies"] : x.v = "default"}
      <3>1. \A x, y \in D : x = y
        BY <2>1, TableNames DEF DbOK, RowsOK
      <3> HIDE DEF D
      <3>2. D = {} \/ \E x : D = {x}
        BY <3>1
      <3>3. Cardinality(D) = 0 \/ Cardinality(D) = 1
        BY <3>2, FS_EmptySet, FS_Singleton
      <3> QED
        BY <3>3 DEF D
    <2>4. \A t \in RunChildren : \A x \in disk[t] : HasRun(disk, x.run)
      BY <2>1 DEF DbOK
    <2>5. torn # "committed" =>
             \A r \in Runs :
                Initial(r) \cap EventIds(disk) # {} =>
                    Initial(r) \subseteq EventIds(disk) /\ HasRun(disk, r)
      BY <1>1 DEF StoreInv, WholeInv, WholeFor
    <2> QED
      BY <2>2, <2>3, <2>4, <2>5 DEF GroupsAreWhole
  <1> QED
    BY <1>1, StoreInvariant, PTL

\* schema_version names no migration whose column is missing, however init_db
\* ended, and a process that serves has every column.
THEOREM VersionStaysHonest == Spec => []VersionIsHonest
  <1>1. ASSUME StoreInv
        PROVE  VersionIsHonest
    <2>1. 1..schema_version(disk) \subseteq Ids(disk, "columns")
      BY <1>1, StoredVersion DEF StoreInv, DiskInv
    <2>2. up => Ids(conn, "columns") = 1..Columns
      BY <1>1 DEF StoreInv, DiskInv
    <2> QED
      BY <2>1, <2>2 DEF VersionIsHonest
  <1> QED
    BY <1>1, StoreInvariant, PTL

-----------------------------------------------------------------------------
(* What a stream that ends has told *)

\* The events a stream owes were accepted, and are out of the buffer of its
\* run when it lists them.
StreamInv ==
    /\ \A r \in Runs : \A e \in evBuf[r] : e[1] = r
    /\ stream \in {"flush", "list"} =>
          /\ due \subseteq accepted
          /\ \A e \in due : e[1] = streamRun
    /\ stream = "list" => due \cap evBuf[streamRun] = {}

\* A step that leaves the stream alone, or breaks it.
LEMMA OtherStepsKeepDue ==
    ASSUME StreamInv, BufferInv, stream' \in {stream, "broken", "off", "closed"},
           UNCHANGED <<streamRun, due>>, accepted \subseteq accepted',
           \A r \in Runs : \A e \in evBuf'[r] :
               e \in evBuf[r] \/ (e[1] = r /\ e \notin accepted)
    PROVE  StreamInv'
  <1>1. \A r \in Runs : \A e \in evBuf'[r] : e[1] = r
    BY DEF StreamInv
  <1>2. stream' \in {"flush", "list"} => stream' = stream
    OBVIOUS
  <1>3. stream' \in {"flush", "list"} => due' \subseteq accepted' /\ \A e \in due' : e[1] = streamRun'
    BY <1>2 DEF StreamInv
  <1>4. ASSUME stream' = "list"
        PROVE  due' \cap evBuf'[streamRun'] = {}
    <2>1. stream = "list" /\ streamRun \in Runs /\ due \subseteq accepted
      BY <1>2, <1>4 DEF StreamInv, BufferInv
    <2> QED
      BY <2>1 DEF StreamInv
  <1> QED
    BY <1>1, <1>3, <1>4 DEF StreamInv

LEMMA StreamInvKept ==
    ASSUME StoreInv, StreamInv, [Next]_vars
    PROVE  StreamInv'
  <1>1. BufferInv
    BY DEF StoreInv
  <1>2. \A R : \A r \in Runs : Emptied(R, evBuf)[r] \subseteq evBuf[r]
    BY DEF Emptied
  <1>3. CASE \E c \in Recorders, r \in Runs, new \in SUBSET (Runs \X Events), always \in BOOLEAN :
                /\ \A e \in new : e[1] = r
                /\ SaveEvents(c, r, new, always)
    <2>1. PICK c \in Recorders, r \in Runs, new \in SUBSET (Runs \X Events), always \in BOOLEAN :
             (\A e \in new : e[1] = r) /\ SaveEvents(c, r, new, always)
      BY <1>3
    <2> DEFINE grown == [evBuf EXCEPT ![r] = @ \cup new]
    <2>2. /\ new \cap accepted = {} /\ accepted' = accepted \cup new
          /\ evBuf' = grown \/ evBuf' = Emptied({r}, grown)
          /\ UNCHANGED <<stream, streamRun, due>>
      BY <2>1 DEF SaveEvents, watch
    <2>3. \A s \in Runs : grown[s] \subseteq evBuf[s] \/ (s = r /\ grown[s] = evBuf[s] \cup new)
      BY <1>1 DEF BufferInv
    <2>4. \A s \in Runs : Emptied({r}, grown)[s] \subseteq grown[s]
      BY DEF Emptied
    <2> HIDE DEF grown
    <2>5. \A s \in Runs : evBuf'[s] \subseteq grown[s]
      BY <2>2, <2>4
    <2>6. \A s \in Runs : \A e \in evBuf'[s] : e \in evBuf[s] \/ (e[1] = s /\ e \notin accepted)
      BY <2>1, <2>2, <2>3, <2>5
    <2> QED
      BY <1>1, <2>2, <2>6, OtherStepsKeepDue
  <1>4. CASE FlushForStream
    <2>1. /\ stream = "flush" /\ stream' = "list" /\ evBuf' = Emptied({streamRun}, evBuf)
          /\ UNCHANGED <<streamRun, due, accepted>>
      BY <1>4 DEF FlushForStream
    <2>2. streamRun \in Runs
      BY <1>1, <2>1 DEF BufferInv
    <2>3. evBuf'[streamRun] = {}
      BY <2>1, <2>2 DEF Emptied
    <2>4. \A r \in Runs : \A e \in evBuf'[r] : e[1] = r
      BY <1>2, <2>1 DEF StreamInv
    <2> QED
      BY <2>1, <2>3, <2>4 DEF StreamInv
  <1>5. CASE ReadStatus
    <2>1. /\ stream' = "flush" /\ due' = OfRun(streamRun, accepted)
          /\ UNCHANGED <<streamRun, evBuf, accepted>>
      BY <1>5 DEF ReadStatus, buffers
    <2> QED
      BY <2>1 DEF StreamInv, OfRun
  <1>6. CASE (\E r \in Runs : OpenStream(r)) \/ ListEvents \/ Wake
    <2>1. stream' \in {"status", "sleep", "closed"} /\ UNCHANGED <<evBuf, accepted>>
      BY <1>6 DEF OpenStream, ListEvents, Wake, buffers
    <2> QED
      BY <2>1 DEF StreamInv
  <1>7. CASE Crash
    <2>1. /\ stream' \in {stream, "broken"} /\ UNCHANGED <<streamRun, due, accepted>>
          /\ evBuf' = [r \in Runs |-> {}]
      BY <1>7 DEF Crash
    <2>2. \A r \in Runs : evBuf'[r] = {}
      BY <2>1
    <2> QED
      BY <1>1, <2>1, <2>2, OtherStepsKeepDue
  <1>8. CASE \/ \E c \in Recorders, r \in Runs, always \in BOOLEAN : save_artifact(c, r, always)
             \/ \E c \in Recorders, R \in {{r} : r \in Runs} \cup {Runs} : flush_buffered_writes(c, R)
    <2>1. /\ UNCHANGED <<stream, streamRun, due, accepted>>
          /\ evBuf' = evBuf \/ \E R : evBuf' = Emptied(R, evBuf)
      BY <1>8 DEF save_artifact, flush_buffered_writes, watch
    <2>2. \A r \in Runs : evBuf'[r] \subseteq evBuf[r]
      BY <1>2, <2>1
    <2> QED
      BY <1>1, <2>1, <2>2, OtherStepsKeepDue
  <1>9. CASE \/ \E c \in Clients, k \in Calls : Call(c, k)
             \/ \E c \in Callers : Acquire(c) \/ Execute(c) \/ Fault(c) \/ Cut(c)
             \/ UNCHANGED vars
    <2>1. UNCHANGED <<streamRun, due, accepted, evBuf>> /\ stream' \in {stream, "broken"}
      BY <1>9 DEF Call, Acquire, Execute, Fault, Cut, buffers, watch, vars
    <2> QED
      BY <1>1, <2>1, OtherStepsKeepDue
  <1>10. ASSUME \/ \E c \in Recorders, r \in Runs, e \in Events : save_run_health_event(c, r, e)
                \/ \E c \in Recorders, r \in Runs, e, f \in Events : save_run_health_events(c, r, e, f)
         PROVE  \E c \in Recorders, r \in Runs, new \in SUBSET (Runs \X Events), always \in BOOLEAN :
                    (\A e \in new : e[1] = r) /\ SaveEvents(c, r, new, always)
    <2>1. CASE \E c \in Recorders, r \in Runs, e \in Events : save_run_health_event(c, r, e)
      <3>1. PICK c \in Recorders, r \in Runs, e \in Events : SaveEvents(c, r, {<<r, e>>}, FALSE)
        BY <2>1 DEF save_run_health_event
      <3>2. /\ {<<r, e>>} \in SUBSET (Runs \X Events) /\ FALSE \in BOOLEAN
            /\ \A x \in {<<r, e>>} : x[1] = r
        OBVIOUS
      <3> QED
        BY <3>1, <3>2
    <2>2. CASE \E c \in Recorders, r \in Runs, e, f \in Events : save_run_health_events(c, r, e, f)
      <3>1. PICK c \in Recorders, r \in Runs, e, f \in Events :
               SaveEvents(c, r, {<<r, e>>, <<r, f>>}, TRUE)
        BY <2>2 DEF save_run_health_events
      <3>2. /\ {<<r, e>>, <<r, f>>} \in SUBSET (Runs \X Events) /\ TRUE \in BOOLEAN
            /\ \A x \in {<<r, e>>, <<r, f>>} : x[1] = r
        OBVIOUS
      <3> QED
        BY <3>1, <3>2
    <2> QED
      BY <1>10, <2>1, <2>2
  <1> QED
    BY <1>3, <1>4, <1>5, <1>6, <1>7, <1>8, <1>9, <1>10 DEF Next, Streaming

\* A stream that ends has yielded every event that had been accepted when
\* it read the final status, but for those another coroutine was writing.
THEOREM StreamHasToldAll == Spec => StreamTellsAll
  <1>1. Init => StreamInv
    BY DEF Init, StreamInv
  <1>2. StoreInv /\ StreamInv /\ [Next]_vars => StreamInv'
    BY StreamInvKept
  <1>3. ASSUME StoreInv, StreamInv, [Next]_vars
        PROVE  [stream = "list" /\ stream' = "closed" =>
                    due \cap (EventIds(conn) \cup Buffered) \subseteq seen']_vars
    <2> SUFFICES ASSUME stream = "list", stream' = "closed", Next
                 PROVE  due \cap (EventIds(conn) \cup Buffered) \subseteq seen'
      BY <1>3 DEF vars
    <2>1. ListEvents
      BY DEF Next, Call, SaveEvents, save_run_health_event, save_run_health_events, save_artifact,
             flush_buffered_writes, Acquire, Execute, Fault, Cut, Crash, OpenStream, Streaming,
             ReadStatus, FlushForStream, Wake, watch
    <2>2. streamRun \in Runs
      BY <1>3 DEF StoreInv, BufferInv
    <2>3. \A e \in due : e[1] = streamRun
      BY <1>3 DEF StreamInv
    <2>4. due \cap Buffered = {}
      <3> SUFFICES ASSUME NEW r \in Runs, NEW e \in evBuf[r], e \in due
                   PROVE  FALSE
        BY DEF Buffered
      <3>1. r = streamRun
        BY <1>3, <2>3 DEF StreamInv
      <3> QED
        BY <1>3, <3>1 DEF StreamInv
    <2> QED
      BY <2>1, <2>3, <2>4 DEF ListEvents, OfRun
  <1> QED
    BY <1>1, <1>2, <1>3, StoreInvariant, PTL DEF Spec, StreamTellsAll

-----------------------------------------------------------------------------
(* Where an event or an artifact is *)

\* Two tables are written by flushes only, but for the first events of a run.
Logs == {"run_health_events", "artifacts"}

Buf(t, r)     == IF t = "artifacts" THEN artBuf[r] ELSE evBuf[r]
Part(b, t)    == IF t = "artifacts" THEN b.artifacts ELSE b.events
Written(s, t) == IF s.do \in {"put", "insert"} /\ s.table = t THEN {x.id[2] : x \in s.rows} ELSE {}

\* The ids in the batches of a flush, and in the statements of a group.
Awaited(q, t) == UNION {Part(q[n], t) : n \in 1..Len(q)}
Ahead(p, t)   == UNION {Written(p[n], t) : n \in 1..Len(p)}
Stored(t)     == Ids(conn, t) \cup Ids(disk, t)

\* The ids that were given to somebody.
Given(t) == IF t = "artifacts" THEN {i \in Nat : i < calls}
            ELSE accepted \cup UNION {Initial(r) : r \in created}

\* The buffer of a run, the batches a coroutine has taken, what is left of its
\* group, and the table.
Places == {<<"buffer", r>> : r \in Runs} \cup {<<"waiting", c>> : c \in Callers}
             \cup {<<"ahead", c>> : c \in Callers} \cup {<<"table", Nobody>>}

At(p, t) ==
    CASE p[1] = "buffer"  -> Buf(t, p[2])
      [] p[1] = "waiting" -> Awaited(todo[p[2]], t)
      [] p[1] = "ahead"   -> Ahead(plan[p[2]], t)
      [] p[1] = "table"   -> Stored(t)

WaitsOnce(q, t) ==
    \A n, m \in 1..Len(q) : n # m => Part(q[n], t) \cap Part(q[m], t) = {}
WrittenOnce(p, t) ==
    \A n, m \in 1..Len(p) : n # m => Written(p[n], t) \cap Written(p[m], t) = {}

\* An id is in one place at a time.
PlacesOK(t) ==
    /\ \A p \in Places : At(p, t) \subseteq Given(t)
    /\ \A p, q \in Places : p # q => At(p, t) \cap At(q, t) = {}
    /\ \A c \in Callers : WaitsOnce(todo[c], t) /\ WrittenOnce(plan[c], t)

PlacesInv == calls \in Nat /\ DOMAIN artBuf = Runs /\ \A t \in Logs : PlacesOK(t)

\* The group of a flush.
Committing(p) == Len(p) = 1 /\ p[1] = Commit
Flushing(p) ==
    \/ Committing(p)
    \/ Len(p) = 2 /\ p[1].do = "insert" /\ p[1].table \in Logs /\ p[2] = Commit

\* What waits to be written, and what an accepted event is written by, is a
\* flush, and the groups of flushes are never refused.
FlushInv ==
    /\ cuts \in Nat
    /\ \A e \in accepted : e[2] \in Events
    /\ stream # "list" => Idle(Watcher)
    /\ \A c \in Callers :
          plan[c] # <<>> /\ (todo[c] # <<>> \/ c = Watcher) => Flushing(plan[c])
    /\ \A c \in Callers :
          Ahead(plan[c], "run_health_events") \cap accepted # {} => Flushing(plan[c])

\* So nothing is dropped without a cut; and what another group rolls back has no
\* event in it that was accepted.
Waiting  == UNION {Awaited(todo[c], "run_health_events") : c \in Callers}
InGroups == UNION {Ahead(plan[c], "run_health_events") : c \in Callers}
Known    == gone \cup EventIds(conn) \cup Buffered \cup Waiting \cup InGroups

Rescuable ==
    \/ accepted \cap EventIds(conn) \subseteq EventIds(disk)
    \/ \E c \in Callers : Committing(plan[c])

KeptInv == FlushInv /\ (cuts = 0 => accepted \subseteq Known /\ Rescuable)

LEMMA AtPlaces ==
    ASSUME NEW t
    PROVE  /\ \A r : At(<<"buffer", r>>, t) = Buf(t, r)
           /\ \A c : At(<<"waiting", c>>, t) = Awaited(todo[c], t)
           /\ \A c : At(<<"ahead", c>>, t) = Ahead(plan[c], t)
           /\ At(<<"table", Nobody>>, t) = Stored(t)
           /\ \A r : At(<<"buffer", r>>, t)' = Buf(t, r)'
           /\ \A c : At(<<"waiting", c>>, t)' = Awaited(todo'[c], t)
           /\ \A c : At(<<"ahead", c>>, t)' = Ahead(plan'[c], t)
           /\ At(<<"table", Nobody>>, t)' = Stored(t)'
  <1>1. \A r : At(<<"buffer", r>>, t) = Buf(t, r) /\ At(<<"buffer", r>>, t)' = Buf(t, r)'
    BY DEF At
  <1>2. \A c : /\ At(<<"waiting", c>>, t) = Awaited(todo[c], t)
               /\ At(<<"waiting", c>>, t)' = Awaited(todo'[c], t)
    BY DEF At, Awaited
  <1>3. \A c : /\ At(<<"ahead", c>>, t) = Ahead(plan[c], t)
               /\ At(<<"ahead", c>>, t)' = Ahead(plan'[c], t)
    BY DEF At, Ahead
  <1>4. At(<<"table", Nobody>>, t) = Stored(t) /\ At(<<"table", Nobody>>, t)' = Stored(t)'
    BY DEF At
  <1> QED
    BY <1>1, <1>2, <1>3, <1>4

\* One place may get ids that leave their place, or are new.
LEMMA PlacesMove ==
    ASSUME NEW t, PlacesOK(t), NEW q \in Places, NEW N,
           Given(t) \subseteq Given(t)', N \subseteq Given(t)',
           At(q, t)' \subseteq At(q, t) \cup N,
           \A p \in Places : p # q => At(p, t)' \subseteq At(p, t) /\ At(p, t)' \cap N = {},
           \A c \in Callers : WaitsOnce(todo'[c], t) /\ WrittenOnce(plan'[c], t)
    PROVE  PlacesOK(t)'
  <1>1. Places' = Places
    BY DEF Places
  <1>2. \A p \in Places : At(p, t)' \subseteq Given(t)'
    BY DEF PlacesOK
  <1>3. ASSUME NEW p \in Places, NEW r \in Places, p # r
        PROVE  At(p, t)' \cap At(r, t)' = {}
    <2>1. At(p, t) \cap At(r, t) = {}
      BY <1>3 DEF PlacesOK
    <2>2. CASE p # q /\ r # q
      BY <2>1, <2>2
    <2>3. CASE p = q
      BY <2>1, <2>3, <1>3
    <2>4. CASE r = q
      BY <2>1, <2>4, <1>3
    <2> QED
      BY <2>2, <2>3, <2>4
  <1>4. \A c \in Callers : WaitsOnce(todo[c], t)' /\ WrittenOnce(plan[c], t)'
    BY DEF WaitsOnce, WrittenOnce
  <1> QED
    BY <1>1, <1>2, <1>3, <1>4 DEF PlacesOK

\* What the four kinds of place do; the one that gets N may be any of them.
LEMMA PlacesShift ==
    ASSUME NEW t, PlacesOK(t), NEW q \in Places, NEW N,
           Given(t) \subseteq Given(t)', N \subseteq Given(t)',
           \A r \in Runs : /\ Buf(t, r)' \subseteq Buf(t, r) \cup (IF q = <<"buffer", r>> THEN N ELSE {})
                           /\ q # <<"buffer", r>> => Buf(t, r)' \cap N = {},
           \A c \in Callers :
              /\ Awaited(todo'[c], t) \subseteq
                    Awaited(todo[c], t) \cup (IF q = <<"waiting", c>> THEN N ELSE {})
              /\ q # <<"waiting", c>> => Awaited(todo'[c], t) \cap N = {}
              /\ WaitsOnce(todo'[c], t),
           \A c \in Callers :
              /\ Ahead(plan'[c], t) \subseteq
                    Ahead(plan[c], t) \cup (IF q = <<"ahead", c>> THEN N ELSE {})
              /\ q # <<"ahead", c>> => Ahead(plan'[c], t) \cap N = {}
              /\ WrittenOnce(plan'[c], t),
           Stored(t)' \subseteq Stored(t) \cup (IF q = <<"table", Nobody>> THEN N ELSE {}),
           q # <<"table", Nobody>> => Stored(t)' \cap N = {}
    PROVE  PlacesOK(t)'
  <1>1. ASSUME NEW p \in Places
        PROVE  /\ At(p, t)' \subseteq At(p, t) \cup (IF p = q THEN N ELSE {})
               /\ p # q => At(p, t)' \cap N = {}
    <2>1. CASE \E r \in Runs : p = <<"buffer", r>>
      BY <2>1, AtPlaces
    <2>2. CASE \E c \in Callers : p = <<"waiting", c>>
      BY <2>2, AtPlaces
    <2>3. CASE \E c \in Callers : p = <<"ahead", c>>
      BY <2>3, AtPlaces
    <2>4. CASE p = <<"table", Nobody>>
      BY <2>4, AtPlaces
    <2> QED
      BY <2>1, <2>2, <2>3, <2>4 DEF Places
  <1>2. /\ At(q, t)' \subseteq At(q, t) \cup N
        /\ \A p \in Places : p # q => At(p, t)' \subseteq At(p, t) /\ At(p, t)' \cap N = {}
    BY <1>1
  <1> QED
    BY <1>2, PlacesMove

LEMMA PlacesShrink ==
    ASSUME NEW t, PlacesOK(t), Given(t) \subseteq Given(t)',
           \A r \in Runs : Buf(t, r)' \subseteq Buf(t, r),
           \A c \in Callers : /\ Awaited(todo'[c], t) \subseteq Awaited(todo[c], t)
                              /\ WaitsOnce(todo'[c], t),
           \A c \in Callers : /\ Ahead(plan'[c], t) \subseteq Ahead(plan[c], t)
                              /\ WrittenOnce(plan'[c], t),
           Stored(t)' \subseteq Stored(t)
    PROVE  PlacesOK(t)'
  <1>1. <<"table", Nobody>> \in Places
    BY DEF Places
  <1> QED
    BY <1>1, PlacesShift

-----------------------------------------------------------------------------
(* The groups that write none of them *)

Silent(s) == ~ (s.do \in {"put", "insert"} /\ s.table \in Logs)
Quiet(p)  == \A n \in 1..Len(p) : Silent(p[n])

LEMMA QuietWritesNone ==
    ASSUME NEW p, Quiet(p), NEW t \in Logs
    PROVE  Ahead(p, t) = {} /\ WrittenOnce(p, t)
  BY DEF Quiet, Silent, Ahead, WrittenOnce, Written

LEMMA NothingAhead ==
    ASSUME NEW t
    PROVE  /\ Ahead(<<>>, t) = {} /\ WrittenOnce(<<>>, t)
           /\ Awaited(<<>>, t) = {} /\ WaitsOnce(<<>>, t)
  <1>1. 1..Len(<<>>) = {}
    OBVIOUS
  <1> QED
    BY <1>1 DEF Ahead, WrittenOnce, Awaited, WaitsOnce

LEMMA SilentEnds ==
    Silent(Commit) /\ Silent(Begin) /\ Silent(Rollback) /\ Silent(Pragma) /\ Silent(Create)
  BY DEF Silent, Commit, Begin, Rollback, Pragma, Create

LEMMA SilentWrites ==
    /\ \A t, i, r, v : t \notin Logs => Silent(Put(t, i, r, v))
    /\ \A t, ids, r, v : t \notin Logs => Silent(Insert(t, ids, r, v))
    /\ \A t, i, v : Silent(SetOne(t, i, v)) /\ Silent(SetAll(t, v))
    /\ \A from, to : Silent(Fail(from, to))
    /\ \A t, r : Silent(DeleteRun(t, r))
    /\ \A t : Silent(Clear(t))
    /\ \A n : Silent(AddColumn(n))
  <1>1. \A t, i, r, v : t \notin Logs => Silent(Put(t, i, r, v))
    BY DEF Silent, Put
  <1>2. \A t, ids, r, v : t \notin Logs => Silent(Insert(t, ids, r, v))
    BY DEF Silent, Insert
  <1>3. \A t, i, v : Silent(SetOne(t, i, v)) /\ Silent(SetAll(t, v))
    BY DEF Silent, SetOne, SetAll
  <1>4. \A from, to : Silent(Fail(from, to))
    BY DEF Silent, Fail
  <1>5. \A t, r : Silent(DeleteRun(t, r))
    BY DEF Silent, DeleteRun
  <1>6. \A t : Silent(Clear(t))
    BY DEF Silent, Clear
  <1>7. \A n : Silent(AddColumn(n))
    BY DEF Silent, AddColumn
  <1> QED
    BY <1>1, <1>2, <1>3, <1>4, <1>5, <1>6, <1>7

LEMMA QuietPair ==
    ASSUME NEW s, Silent(s)
    PROVE  Quiet(<<s, Commit>>)
  BY SilentEnds DEF Quiet

LEMMA QuietThree ==
    ASSUME NEW a, NEW s, Silent(a), Silent(s)
    PROVE  Quiet(<<a>> \o <<s, Commit>>)
  <1> DEFINE p == <<a>> \o <<s, Commit>>
  <1>1. Len(p) = 3 /\ p[1] = a /\ p[2] = s /\ p[3] = Commit
    OBVIOUS
  <1> HIDE DEF p
  <1>2. Quiet(p)
    BY <1>1, SilentEnds DEF Quiet
  <1> QED
    BY <1>2 DEF p

LEMMA QuietJoined ==
    ASSUME NEW S, NEW p \in Seq(S), NEW q \in Seq(S), Quiet(p), Quiet(q)
    PROVE  p \o q \in Seq(S) /\ Quiet(p \o q)
  <1> DEFINE j == p \o q
  <1>1. /\ j \in Seq(S)
        /\ Len(j) = Len(p) + Len(q)
        /\ \A n \in 1..(Len(p) + Len(q)) :
              j[n] = IF n \in 1..Len(p) THEN p[n] ELSE q[n - Len(p)]
    BY Joined
  <1> HIDE DEF j
  <1>2. Len(p) \in Nat /\ Len(q) \in Nat
    OBVIOUS
  <1>3. \A n \in 1..Len(j) : n \in 1..Len(p) \/ n - Len(p) \in 1..Len(q)
    BY <1>1, <1>2
  <1>4. Quiet(j)
    BY <1>1, <1>3 DEF Quiet
  <1> QED
    BY <1>1, <1>4 DEF j

LEMMA PolicyIsQuiet ==
    ASSUME NEW i, NEW default
    PROVE  Quiet(save_policy(i, default))
  <1>1. "release_policies" \notin Logs
    BY DEF Logs
  <1> DEFINE a == SetAll("release_policies", "")
  <1>2. Silent(a)
    BY SilentWrites, Zenon
  <1>3. CASE default
    <2> DEFINE s == Put("release_policies", i, NoRun, "default")
    <2>1. Silent(s)
      BY <1>1, SilentWrites
    <2>2. save_policy(i, default) = <<a>> \o <<s, Commit>>
      BY <1>3 DEF save_policy
    <2> HIDE DEF a, s
    <2> QED
      BY <1>2, <2>1, <2>2, QuietThree
  <1>4. CASE ~ default
    <2> DEFINE s == Put("release_policies", i, NoRun, "")
    <2>1. Silent(s)
      BY <1>1, SilentWrites, Zenon
    <2>2. save_policy(i, default) = <<>> \o <<s, Commit>>
      BY <1>4 DEF save_policy
    <2> HIDE DEF a, s
    <2>3. save_policy(i, default) = <<s, Commit>>
      BY <2>2
    <2> QED
      BY <2>1, <2>3, QuietPair
  <1> QED
    BY <1>3, <1>4

LEMMA SelectorIsQuiet ==
    ASSUME NEW f, NEW step, NEW db
    PROVE  Quiet(update_flow_step_selector(f, step, db))
  <1> DEFINE s == SetOne("recorded_flows", f, step)
  <1>1. Silent(s)
    BY SilentWrites
  <1>2. \/ update_flow_step_selector(f, step, db) = <<Begin>> \o <<Rollback>>
        \/ update_flow_step_selector(f, step, db) = <<Begin>> \o <<s, Commit>>
    BY DEF update_flow_step_selector
  <1> HIDE DEF s
  <1>3. Quiet(<<Begin>> \o <<s, Commit>>)
    BY <1>1, SilentEnds, QuietThree
  <1>4. Quiet(<<Begin>> \o <<Rollback>>)
    <2> DEFINE p == <<Begin>> \o <<Rollback>>
    <2>1. Len(p) = 2 /\ p[1] = Begin /\ p[2] = Rollback
      OBVIOUS
    <2> HIDE DEF p
    <2>2. Quiet(p)
      BY <2>1, SilentEnds DEF Quiet
    <2> QED
      BY <2>2 DEF p
  <1> QED
    BY <1>2, <1>3, <1>4

LEMMA TelemetryIsQuiet ==
    ASSUME NEW signals, Len(signals) \in Nat
    PROVE  Quiet(save_telemetry_signals(signals))
  <1> DEFINE L == Len(signals)
             F(n) == Put("telemetry_signals", signals[n], NoRun, "")
             g == [n \in 1..L |-> F(n)]
             S == {F(n) : n \in 1..L} \cup {Commit}
  <1>1. \A n : Silent(F(n))
    <2>1. "telemetry_signals" \notin Logs
      BY DEF Logs
    <2> QED
      BY <2>1, SilentWrites, Zenon
  <1>2. save_telemetry_signals(signals) = g \o <<Commit>>
    BY DEF save_telemetry_signals
  <1>3. L \in Nat
    OBVIOUS
  <1> HIDE DEF F, L
  <1>4. g \in Seq(S) /\ Len(g) = L /\ \A n \in 1..L : g[n] = F(n)
    BY <1>3
  <1>5. <<Commit>> \in Seq(S)
    OBVIOUS
  <1> HIDE DEF g, S
  <1>6. Quiet(g)
    BY <1>1, <1>4 DEF Quiet
  <1>7. Quiet(<<Commit>>)
    BY SilentEnds DEF Quiet
  <1> QED
    BY <1>2, <1>4, <1>5, <1>6, <1>7, QuietJoined

LEMMA ArchiveIsQuiet ==
    ASSUME NEW keepFailed, NEW db
    PROVE  Quiet(archive_old_runs(keepFailed, db))
  <1> DEFINE doomed == {x.run : x \in {y \in db["runs"] :
                           y.run \in OldRuns /\ (keepFailed => y.v # "failed")}}
             order == SetToSeq(doomed)
             Deletes(r) == <<DeleteRun("run_cases", r), DeleteRun("artifacts", r),
                             DeleteRun("run_health_events", r), DeleteRun("runs", r)>>
             Statement(n) == Deletes(order[1 + (n \div 4)])[1 + (n % 4)]
             K == 4 * Cardinality(doomed)
             a == <<Begin>>
             m == [n \in 1..K |-> Statement(n - 1)]
             b == <<Commit>>
  <1>1. archive_old_runs(keepFailed, db) = (a \o m) \o b
    BY DEF archive_old_runs
  <1>2. K \in Nat
    <2>1. doomed \subseteq Runs
      BY GroupsAssumption
    <2> HIDE DEF doomed
    <2>2. IsFiniteSet(doomed)
      BY <2>1, GroupsAssumption, FS_Subset
    <2> QED
      BY <2>2, FS_CardinalityType
  <1>3. \A n \in Nat : Silent(Statement(n))
    <2> SUFFICES ASSUME NEW n \in Nat, NEW r
                 PROVE  Silent(Deletes(r)[1 + (n % 4)])
      BY Zenon
    <2>1. n % 4 \in 0..3
      OBVIOUS
    <2>2. Deletes(r)[1 + (n % 4)] \in {DeleteRun("run_cases", r), DeleteRun("artifacts", r),
                                      DeleteRun("run_health_events", r), DeleteRun("runs", r)}
      BY <2>1
    <2> QED
      BY <2>2, SilentWrites
  <1> HIDE DEF doomed, order, Statement, K
  <1>4. m = [n \in 1..K |-> m[n]] /\ \A n \in 1..K : m[n] = Statement(n - 1)
    OBVIOUS
  <1> HIDE DEF m
  <1>5. m \in Seq({m[n] : n \in 1..K}) /\ Len(m) = K
    BY <1>2, <1>4, FunctionSeq
  <1>6. Quiet(m)
    <2>1. \A n \in 1..K : n - 1 \in Nat
      BY <1>2
    <2> QED
      BY <1>3, <1>4, <1>5, <2>1 DEF Quiet
  <1> DEFINE S == {m[n] : n \in 1..K} \cup {Begin, Commit}
  <1>7. m \in Seq(S) /\ a \in Seq(S) /\ b \in Seq(S)
    <2>1. \A T : m \in Seq(T) /\ T \subseteq S => m \in Seq(S)
      OBVIOUS
    <2> QED
      BY <2>1, <1>5
  <1>8. Quiet(a) /\ Quiet(b)
    BY SilentEnds DEF Quiet
  <1> HIDE DEF S, a, b
  <1>9. a \o m \in Seq(S) /\ Quiet(a \o m)
    BY <1>6, <1>7, <1>8, QuietJoined
  <1> QED
    BY <1>1, <1>7, <1>8, <1>9, QuietJoined

LEMMA StartIsQuiet ==
    ASSUME NEW db, DbOK(db)
    PROVE  Quiet(init_db(db))
  <1> DEFINE v0 == schema_version(db)
             K == Columns - v0
             p == init_db(db)
  <1>1. /\ K \in Nat
        /\ Len(p) = 3 * K + 6
        /\ p \in Seq({p[n] : n \in 1..Len(p)})
        /\ p[1] = Pragma /\ p[2] = Create /\ p[3] = Commit
        /\ \A n \in 0..(3 * K - 1) :
              /\ n % 3 = 0 => p[n + 4] = AddColumn(v0 + 1 + (n \div 3))
              /\ n % 3 = 1 => p[n + 4] = Clear("schema_version")
              /\ n % 3 = 2 => p[n + 4] = Insert("schema_version", {v0 + 1 + (n \div 3)}, NoRun, "")
        /\ p[3 * K + 4] = Commit
        /\ p[3 * K + 5] = Fail("running", "failed")
        /\ p[3 * K + 6] = Commit
    BY StartItems, Zenon
  <1> HIDE DEF v0, K, p
  <1>2. \A v : Silent(Insert("schema_version", {v}, NoRun, ""))
    <2>1. "schema_version" \notin Logs
      BY DEF Logs
    <2> QED
      BY <2>1, SilentWrites, Zenon
  <1>3. /\ Silent(Clear("schema_version")) /\ Silent(Fail("running", "failed"))
        /\ \A v : Silent(AddColumn(v))
    BY SilentWrites
  <1>5. K \in Nat /\ Len(p) = 3 * K + 6
    BY <1>1, Zenon
  <1>12. \A n \in 0..(3 * K - 1) :
            /\ n % 3 = 0 => p[n + 4] = AddColumn(v0 + 1 + (n \div 3))
            /\ n % 3 = 1 => p[n + 4] = Clear("schema_version")
            /\ n % 3 = 2 => p[n + 4] = Insert("schema_version", {v0 + 1 + (n \div 3)}, NoRun, "")
    BY <1>1, Zenon
  <1>4. ASSUME NEW n \in 0..(3 * K - 1)
        PROVE  Silent(p[n + 4])
    <2> DEFINE v == v0 + 1 + (n \div 3)
    <2>1. /\ n % 3 = 0 => p[n + 4] = AddColumn(v)
          /\ n % 3 = 1 => p[n + 4] = Clear("schema_version")
          /\ n % 3 = 2 => p[n + 4] = Insert("schema_version", {v}, NoRun, "")
      BY <1>12, Zenon
    <2>2. n % 3 = 0 \/ n % 3 = 1 \/ n % 3 = 2
      <3>1. n \in Nat
        BY <1>5
      <3>2. n % 3 \in 0..2
        BY <3>1, Thirds
      <3> QED
        BY <3>2
    <2> HIDE DEF v
    <2> QED
      BY <2>1, <2>2, <1>2, <1>3
  <1>6. ASSUME NEW n \in 1..Len(p)
        PROVE  \/ n \in {1, 2, 3, 3 * K + 4, 3 * K + 5, 3 * K + 6}
               \/ n - 4 \in 0..(3 * K - 1) /\ (n - 4) + 4 = n
    BY <1>5
  <1>7. Silent(Pragma) /\ Silent(Create) /\ Silent(Commit)
    BY SilentEnds
  <1>8. Silent(p[1]) /\ Silent(p[2]) /\ Silent(p[3])
    BY <1>1, <1>7, Zenon
  <1>9. Silent(p[3 * K + 4]) /\ Silent(p[3 * K + 5]) /\ Silent(p[3 * K + 6])
    BY <1>1, <1>3, <1>7, Zenon
  <1>10. ASSUME NEW n \in 1..Len(p)
         PROVE  Silent(p[n])
    <2>1. CASE n \in {1, 2, 3, 3 * K + 4, 3 * K + 5, 3 * K + 6}
      BY <2>1, <1>8, <1>9
    <2>2. CASE n - 4 \in 0..(3 * K - 1) /\ (n - 4) + 4 = n
      <3> DEFINE i == n - 4
      <3>1. i \in 0..(3 * K - 1) /\ i + 4 = n
        BY <2>2
      <3> HIDE DEF i
      <3>2. Silent(p[i + 4])
        BY <3>1, <1>4
      <3> QED
        BY <3>1, <3>2
    <2> QED
      BY <2>1, <2>2, <1>6
  <1>11. Quiet(p)
    BY <1>10 DEF Quiet
  <1> QED
    BY <1>11 DEF p

\* Only the group of a new run writes into one of the two.
LEMMA GroupIsQuiet ==
    ASSUME NEW k, NEW db, DbOK(db), k.fn \in StoreFunctions \ {"create_run_with_initial_events"},
           k.fn = "save_telemetry_signals" => Len(k.ids) \in Nat
    PROVE  Quiet(Group(k, db))
  <1>1. CASE k.fn = "save_telemetry_signals"
    <2>1. Group(k, db) = save_telemetry_signals(k.ids)
      BY <1>1 DEF Group
    <2> QED
      BY <1>1, <2>1, TelemetryIsQuiet
  <1>2. CASE k.fn = "save_policy"
    <2>1. Group(k, db) = save_policy(k.id, k.default)
      BY <1>2 DEF Group
    <2> QED
      BY <2>1, PolicyIsQuiet
  <1>3. CASE k.fn = "update_flow_step_selector"
    <2>1. Group(k, db) = update_flow_step_selector(k.id, k.step, db)
      BY <1>3 DEF Group
    <2> QED
      BY <2>1, SelectorIsQuiet
  <1>4. CASE k.fn = "archive_old_runs"
    <2>1. Group(k, db) = archive_old_runs(k.keepFailed, db)
      BY <1>4 DEF Group
    <2> QED
      BY <2>1, ArchiveIsQuiet
  <1>5. CASE k.fn = "init_db"
    <2>1. Group(k, db) = init_db(db)
      BY <1>5 DEF Group
    <2> QED
      BY <2>1, StartIsQuiet
  <1>6. CASE k.fn \in {"create_run", "save_site_inventory", "save_correlation_report"}
    <2>1. \E t, ids, r, v : t \notin Logs /\ Group(k, db) = <<Insert(t, ids, r, v), Commit>>
      <3>1. CASE k.fn = "create_run"
        <4>1. Group(k, db) = <<Insert("runs", {k.run}, k.run, "queued"), Commit>> /\ "runs" \notin Logs
          BY <3>1 DEF Group, create_run, Logs
        <4> QED
          BY <4>1, Zenon
      <3>2. CASE k.fn = "save_site_inventory"
        <4>1. Group(k, db) = save_site_inventory(calls) /\ "site_inventories" \notin Logs
          BY <3>2 DEF Group, Logs
        <4> QED
          BY <4>1, Zenon DEF save_site_inventory
      <3>3. CASE k.fn = "save_correlation_report"
        <4>1. Group(k, db) = save_correlation_report(calls) /\ "correlation_reports" \notin Logs
          BY <3>3 DEF Group, Logs
        <4> QED
          BY <4>1, Zenon DEF save_correlation_report
      <3> QED
        BY <1>6, <3>1, <3>2, <3>3
    <2>2. PICK t, ids, r, v : t \notin Logs /\ Group(k, db) = <<Insert(t, ids, r, v), Commit>>
      BY <2>1
    <2> QED
      BY <2>2, SilentWrites, QuietPair
  <1>7. CASE k.fn \in {"update_run_status", "update_run", "archive_old_telemetry"}
    <2>1. \E s : Silent(s) /\ Group(k, db) = <<s, Commit>>
      <3>1. CASE k.fn = "update_run_status"
        BY <3>1, SilentWrites DEF Group, update_run_status
      <3>2. CASE k.fn = "update_run"
        BY <3>2, SilentWrites DEF Group, update_run
      <3>3. CASE k.fn = "archive_old_telemetry"
        BY <3>3, SilentWrites DEF Group, archive_old_telemetry
      <3> QED
        BY <1>7, <3>1, <3>2, <3>3
    <2> QED
      BY <2>1, QuietPair
  <1>8. CASE k.fn \in {"save_cases", "upsert_run_observation", "save_flow",
                       "save_auth_profile", "save_context_graph", "save_incident_cluster",
                       "save_remediation_draft", "save_risk_calibration", "save_project"}
    <2>1. \E t, i, r, v : t \notin Logs /\ Group(k, db) = <<Put(t, i, r, v), Commit>>
      <3>1. CASE k.fn = "save_cases"
        <4>1. Group(k, db) = save_cases(k.run, "case") /\ "run_cases" \notin Logs
          BY <3>1 DEF Group, Logs
        <4> QED
          BY <4>1, Zenon DEF save_cases
      <3>2. CASE k.fn = "upsert_run_observation"
        <4>1. Group(k, db) = upsert_run_observation(k.run, "checkpoint") /\ "run_observations" \notin Logs
          BY <3>2 DEF Group, Logs
        <4> QED
          BY <4>1, Zenon DEF upsert_run_observation
      <3>3. CASE k.fn = "save_flow"
        <4>1. Group(k, db) = save_flow(k.id) /\ "recorded_flows" \notin Logs
          BY <3>3 DEF Group, Logs
        <4> QED
          BY <4>1, Zenon DEF save_flow
      <3>4. CASE k.fn = "save_auth_profile"
        <4>1. Group(k, db) = save_auth_profile(k.id) /\ "auth_profiles" \notin Logs
          BY <3>4 DEF Group, Logs
        <4> QED
          BY <4>1, Zenon DEF save_auth_profile
      <3>5. CASE k.fn = "save_context_graph"
        <4>1. Group(k, db) = save_context_graph(k.id) /\ "context_graphs" \notin Logs
          BY <3>5 DEF Group, Logs
        <4> QED
          BY <4>1, Zenon DEF save_context_graph
      <3>6. CASE k.fn = "save_incident_cluster"
        <4>1. Group(k, db) = save_incident_cluster(k.id) /\ "incident_clusters" \notin Logs
          BY <3>6 DEF Group, Logs
        <4> QED
          BY <4>1, Zenon DEF save_incident_cluster
      <3>7. CASE k.fn = "save_remediation_draft"
        <4>1. Group(k, db) = save_remediation_draft(k.id) /\ "remediation_drafts" \notin Logs
          BY <3>7 DEF Group, Logs
        <4> QED
          BY <4>1, Zenon DEF save_remediation_draft
      <3>8. CASE k.fn = "save_risk_calibration"
        <4>1. Group(k, db) = save_risk_calibration_record(calls, k.run) /\ "risk_calibration" \notin Logs
          BY <3>8 DEF Group, Logs
        <4> QED
          BY <4>1, Zenon DEF save_risk_calibration_record
      <3>9. CASE k.fn = "save_project"
        <4>1. Group(k, db) = save_project(k.id) /\ "projects" \notin Logs
          BY <3>9 DEF Group, Logs
        <4> QED
          BY <4>1, Zenon DEF save_project
      <3> QED
        BY <1>8, <3>1, <3>2, <3>3, <3>4, <3>5, <3>6, <3>7, <3>8, <3>9
    <2>2. PICK t, i, r, v : t \notin Logs /\ Group(k, db) = <<Put(t, i, r, v), Commit>>
      BY <2>1
    <2> QED
      BY <2>2, SilentWrites, QuietPair
  <1> QED
    BY <1>1, <1>2, <1>3, <1>4, <1>5, <1>6, <1>7, <1>8 DEF StoreFunctions

-----------------------------------------------------------------------------
(* What a statement, a group and a flush do with them *)

\* The ids of a table after a statement; only a delete takes some away.
LEMMA AppliedIds ==
    ASSUME NEW s, NEW db, DbOK(db), StatementOK(s), ~ Refused(s, db), NEW t \in Logs
    PROVE  /\ Ids(Applied(s, db), t) \subseteq Ids(db, t) \cup Written(s, t)
           /\ s.do # "delete" => Ids(db, t) \cup Written(s, t) \subseteq Ids(Applied(s, db), t)
  <1>1. t \in Tables \ {"columns"} /\ DOMAIN db = Tables
    BY TableNames DEF Logs, DbOK
  <1>2. CASE WritesOK(s)
    <2>1. Ids(Applied(s, db), t) =
              Ids(db, t) \cup IF t = s.table THEN {x.id[2] : x \in s.rows} ELSE {}
      BY <1>1, <1>2, WritesEffect
    <2>2. t = s.table => s.do \in {"put", "insert"}
      BY <1>1, <1>2 DEF WritesOK
    <2> QED
      BY <2>1, <2>2 DEF Written
  <1>3. CASE s.do \in {"setAll", "setOne", "setWhere"}
    BY <1>1, <1>3, SetsKeepOrder DEF Written
  <1>4. CASE s.do = "clear"
    <2>1. s.table \in Tables /\ s.table # t
      BY <1>4, TableNames DEF StatementOK, WritesOK, Logs
    <2>2. Applied(s, db) = [db EXCEPT ![s.table] = IF s.do = "delete" THEN {x \in @ : x.run # s.run} ELSE {}]
      BY <1>1, <1>4, <2>1, DeletesRows
    <2>3. Applied(s, db)[t] = db[t]
      BY <1>1, <2>1, <2>2
    <2> QED
      BY <1>4, <2>3 DEF Ids, Written
  <1>5. CASE s.do = "delete"
    <2>1. s.table \in Tables
      BY <1>5, TableNames DEF StatementOK, WritesOK
    <2>2. Applied(s, db) = [db EXCEPT ![s.table] = IF s.do = "delete" THEN {x \in @ : x.run # s.run} ELSE {}]
      BY <1>1, <1>5, <2>1, DeletesRows
    <2>3. Applied(s, db)[t] \subseteq db[t]
      BY <1>1, <1>5, <2>1, <2>2
    <2> QED
      BY <1>5, <2>3 DEF Ids
  <1>6. CASE s.do = "create"
    <2>1. Applied(s, db)[t] = db[t]
      BY <1>1, <1>6, CreateKeepsOrder
    <2> QED
      BY <1>6, <2>1 DEF Ids, Written
  <1>7. CASE s.do \in {"commit", "rollback", "begin", "pragma"}
    <2>1. Applied(s, db) = db
      BY <1>7, AppliesNothing
    <2> QED
      BY <1>7, <2>1 DEF Written
  <1> QED
    BY <1>2, <1>3, <1>4, <1>5, <1>6, <1>7 DEF StatementOK

\* A statement takes its ids out of the group.
LEMMA TailAhead ==
    ASSUME NEW p, p \in Seq({p[n] : n \in 1..Len(p)}), p # <<>>, NEW t, WrittenOnce(p, t)
    PROVE  /\ Ahead(p, t) = Written(p[1], t) \cup Ahead(Tail(p), t)
           /\ Ahead(Tail(p), t) \cap Written(p[1], t) = {}
           /\ WrittenOnce(Tail(p), t)
  <1> DEFINE q == Tail(p)
  <1>1. /\ Len(p) \in Nat /\ 1 \in 1..Len(p)
        /\ Len(q) = Len(p) - 1
        /\ \A n \in 1..Len(q) : n + 1 \in 1..Len(p) /\ q[n] = p[n + 1]
    BY TailOf
  <1> HIDE DEF q
  <1>2. ASSUME NEW m \in 1..Len(p), m # 1
        PROVE  \E n \in 1..Len(q) : q[n] = p[m]
    <2> DEFINE n == m - 1
    <2>1. n \in 1..Len(q) /\ n + 1 = m
      BY <1>1, <1>2
    <2> HIDE DEF n
    <2> QED
      BY <1>1, <2>1
  <1>3. Ahead(p, t) \subseteq Written(p[1], t) \cup Ahead(q, t)
    <2> SUFFICES ASSUME NEW m \in 1..Len(p), NEW e \in Written(p[m], t)
                 PROVE  e \in Written(p[1], t) \cup Ahead(q, t)
      BY DEF Ahead
    <2> QED
      BY <1>2 DEF Ahead
  <1>4. Written(p[1], t) \cup Ahead(q, t) \subseteq Ahead(p, t)
    <2> SUFFICES ASSUME NEW n \in 1..Len(q), NEW e \in Written(q[n], t)
                 PROVE  e \in Ahead(p, t)
      BY <1>1 DEF Ahead
    <2>1. n + 1 \in 1..Len(p) /\ e \in Written(p[n + 1], t)
      BY <1>1
    <2> QED
      BY <2>1 DEF Ahead
  <1>5. Ahead(q, t) \cap Written(p[1], t) = {}
    <2> SUFFICES ASSUME NEW n \in 1..Len(q), NEW e \in Written(q[n], t), e \in Written(p[1], t)
                 PROVE  FALSE
      BY DEF Ahead
    <2>1. n + 1 \in 1..Len(p) /\ n + 1 # 1 /\ q[n] = p[n + 1]
      BY <1>1
    <2>2. Written(p[n + 1], t) \cap Written(p[1], t) = {}
      BY <1>1, <2>1 DEF WrittenOnce
    <2> QED
      BY <2>1, <2>2
  <1>6. WrittenOnce(q, t)
    <2> SUFFICES ASSUME NEW n \in 1..Len(q), NEW m \in 1..Len(q), n # m
                 PROVE  Written(q[n], t) \cap Written(q[m], t) = {}
      BY DEF WrittenOnce
    <2>1. /\ n + 1 \in 1..Len(p) /\ q[n] = p[n + 1]
          /\ m + 1 \in 1..Len(p) /\ q[m] = p[m + 1]
      BY <1>1
    <2>2. n + 1 # m + 1
      BY <1>1
    <2> QED
      BY <2>1, <2>2 DEF WrittenOnce
  <1> QED
    BY <1>3, <1>4, <1>5, <1>6 DEF q

\* The group of a flush writes the ids of the call, in its table only.
LEMMA FlushWrites ==
    ASSUME NEW k, NEW db, k.fn \in {"write_events", "write_artifacts"}, NEW t \in Logs
    PROVE  /\ Ahead(Group(k, db), t) =
                 IF t = (IF k.fn = "write_events" THEN "run_health_events" ELSE "artifacts")
                 THEN k.ids ELSE {}
           /\ WrittenOnce(Group(k, db), t)
           /\ Flushing(Group(k, db))
  <1> DEFINE u == IF k.fn = "write_events" THEN "run_health_events" ELSE "artifacts"
             ids == k.ids
             run == k.run
  <1>1. \E v : Group(k, db) = <<Insert(u, ids, run, v), Commit>>
    <2>1. CASE k.fn = "write_events"
      <3>1. Group(k, db) = write_run_health_events(k.run, k.ids)
        BY <2>1 DEF Group
      <3> QED
        BY <2>1, <3>1, Zenon DEF write_run_health_events
    <2>2. CASE k.fn = "write_artifacts"
      <3>1. Group(k, db) = write_artifacts(k.run, k.ids)
        BY <2>2 DEF Group
      <3>2. u = "artifacts"
        BY <2>2
      <3> QED
        BY <3>1, <3>2, Zenon DEF write_artifacts
    <2> QED
      BY <2>1, <2>2
  <1>2. PICK v : Group(k, db) = <<Insert(u, ids, run, v), Commit>>
    BY <1>1
  <1> DEFINE s == Insert(u, ids, run, v)
  <1>3. s.do = "insert" /\ s.table = u /\ s.rows = {Row(u, i, run, v) : i \in ids}
    BY DEF Insert
  <1>4. Commit.do = "commit"
    BY DEF Commit
  <1>5. \A i : Row(u, i, run, v).id[2] = i
    BY DEF Row
  <1>6. u \in Logs
    BY DEF Logs
  <1> HIDE DEF u, ids, run
  <1>7. {x.id[2] : x \in s.rows} = ids
    BY <1>3, <1>5
  <1> HIDE DEF s
  <1>8. Written(s, t) = (IF t = u THEN ids ELSE {}) /\ Written(Commit, t) = {}
    BY <1>3, <1>4, <1>7 DEF Written
  <1> DEFINE p == <<s, Commit>>
  <1>9. Len(p) = 2 /\ p[1] = s /\ p[2] = Commit /\ 1..2 = {1, 2}
    OBVIOUS
  <1> HIDE DEF p
  <1>10. Ahead(p, t) = (IF t = u THEN ids ELSE {}) /\ WrittenOnce(p, t)
    BY <1>8, <1>9 DEF Ahead, WrittenOnce
  <1>11. Flushing(p)
    BY <1>3, <1>6, <1>9 DEF Flushing
  <1>12. Group(k, db) = p
    BY <1>2 DEF p, s
  <1> QED
    BY <1>10, <1>11, <1>12 DEF u, ids

\* The two events of a new run.
LEMMA InitialWrites ==
    ASSUME NEW r, NEW t \in Logs
    PROVE  LET p == create_run_with_initial_events(r, "queued")
           IN  /\ Ahead(p, t) = IF t = "run_health_events" THEN Initial(r) ELSE {}
               /\ WrittenOnce(p, t)
  <1> DEFINE a == Insert("runs", {r}, r, "queued")
             p == <<a, Queued(r), Resolved(r), Commit>>
             x == Row("run_health_events", <<r, "run_queued">>, r, "")
             y == Row("run_health_events", <<r, "auth_context_resolved">>, r, "")
  <1>1. create_run_with_initial_events(r, "queued") = p
    BY DEF create_run_with_initial_events, Queued, Resolved
  <1>2. Silent(a) /\ Silent(Commit)
    BY SilentWrites, SilentEnds DEF Logs
  <1>3. x.id[2] = <<r, "run_queued">> /\ y.id[2] = <<r, "auth_context_resolved">>
    BY DEF Row
  <1>4. /\ Queued(r).do = "insert" /\ Queued(r).table = "run_health_events" /\ Queued(r).rows = {x}
        /\ Resolved(r).do = "insert" /\ Resolved(r).table = "run_health_events"
        /\ Resolved(r).rows = {y}
    BY DEF Queued, Resolved, Insert
  <1> HIDE DEF x, y, a
  <1>5. Written(a, t) = {} /\ Written(Commit, t) = {}
    BY <1>2 DEF Silent, Written
  <1>6. /\ Written(Queued(r), t) = IF t = "run_health_events" THEN {<<r, "run_queued">>} ELSE {}
        /\ Written(Resolved(r), t) =
               IF t = "run_health_events" THEN {<<r, "auth_context_resolved">>} ELSE {}
    <2>1. {z.id[2] : z \in Queued(r).rows} = {<<r, "run_queued">>}
      BY <1>3, <1>4
    <2>2. {z.id[2] : z \in Resolved(r).rows} = {<<r, "auth_context_resolved">>}
      BY <1>3, <1>4
    <2> QED
      BY <2>1, <2>2, <1>4 DEF Written
  <1>7. /\ Len(p) = 4 /\ 1..4 = {1, 2, 3, 4}
        /\ p[1] = a /\ p[2] = Queued(r) /\ p[3] = Resolved(r) /\ p[4] = Commit
    OBVIOUS
  <1> HIDE DEF p
  <1>8. Ahead(p, t) = Written(Queued(r), t) \cup Written(Resolved(r), t)
    BY <1>5, <1>7 DEF Ahead
  <1>9. Written(Queued(r), t) \cap Written(Resolved(r), t) = {}
    BY <1>6
  <1>10. WrittenOnce(p, t)
    BY <1>5, <1>7, <1>9 DEF WrittenOnce
  <1>11. Ahead(p, t) = IF t = "run_health_events" THEN Initial(r) ELSE {}
    BY <1>6, <1>8 DEF Initial
  <1> QED
    BY <1>1, <1>10, <1>11

Slot(t, ev, art, r) == IF t = "artifacts" THEN art[r] ELSE ev[r]
SlotsApart(t, ev, art, R) ==
    \A r, s \in R : r # s => Slot(t, ev, art, r) \cap Slot(t, ev, art, s) = {}

\* A flush takes what is in the buffers of its runs, each run by itself.
LEMMA BatchesHold ==
    ASSUME NEW R \in SUBSET Runs, NEW ev, NEW art, NEW t \in Logs, SlotsApart(t, ev, art, R)
    PROVE  /\ WaitsOnce(Batches(R, ev, art), t)
           /\ Awaited(Batches(R, ev, art), t) = UNION {Slot(t, ev, art, r) : r \in R}
  <1> DEFINE filled == {r \in R : ev[r] # {} \/ art[r] # {}}
             order == SetToSeq(filled)
             n == Cardinality(filled)
             q == [i \in 1..n |->
                      [run |-> order[i], events |-> ev[order[i]], artifacts |-> art[order[i]]]]
             B(r) == Slot(t, ev, art, r)
  <1>1. Batches(R, ev, art) = q
    BY DEF Batches
  <1>2. filled \subseteq Runs /\ filled \subseteq R /\ \A r \in R \ filled : B(r) = {}
    BY DEF Slot
  <1> HIDE DEF filled
  <1>3. IsFiniteSet(filled)
    BY <1>2, GroupsAssumption, FS_Subset
  <1>4. /\ n \in Nat /\ order \in [1..n -> filled]
        /\ \A i, j \in 1..n : order[i] = order[j] => i = j
        /\ \A r \in filled : \E i \in 1..n : order[i] = r
    BY <1>3, Listed
  <1> HIDE DEF n, order
  <1>5. Len(q) = n /\ \A i \in 1..n : Part(q[i], t) = B(order[i])
    BY <1>4 DEF Part, Slot
  <1>6. \A r, s \in R : r # s => B(r) \cap B(s) = {}
    BY DEF SlotsApart
  <1> HIDE DEF q, B
  <1>7. WaitsOnce(q, t)
    BY <1>2, <1>4, <1>5, <1>6 DEF WaitsOnce
  <1>8. Awaited(q, t) \subseteq UNION {B(r) : r \in R}
    BY <1>2, <1>4, <1>5 DEF Awaited
  <1>9. ASSUME NEW r \in R, NEW e \in B(r)
        PROVE  e \in Awaited(q, t)
    <2>1. r \in filled
      BY <1>2, <1>9
    <2>2. PICK i \in 1..n : order[i] = r
      BY <2>1, <1>4
    <2> QED
      BY <2>2, <1>5, <1>9 DEF Awaited
  <1>10. Awaited(q, t) = UNION {B(r) : r \in R}
    BY <1>8, <1>9
  <1> QED
    BY <1>1, <1>7, <1>10 DEF B

\* A flush goes on with its next batch.
LEMMA BatchGone ==
    ASSUME NEW q, NEW rest, NEW t, WaitsOnce(q, t), Len(q) \in Nat, 1 \in 1..Len(q),
           Len(rest) = Len(q) - 1,
           \A n \in 1..Len(rest) : n + 1 \in 1..Len(q) /\ rest[n] = q[n + 1]
    PROVE  /\ WaitsOnce(rest, t)
           /\ Awaited(q, t) = Part(q[1], t) \cup Awaited(rest, t)
           /\ Awaited(rest, t) \cap Part(q[1], t) = {}
  <1>1. WaitsOnce(rest, t)
    <2> SUFFICES ASSUME NEW n \in 1..Len(rest), NEW m \in 1..Len(rest), n # m
                 PROVE  Part(rest[n], t) \cap Part(rest[m], t) = {}
      BY DEF WaitsOnce
    <2>1. n + 1 # m + 1
      OBVIOUS
    <2> QED
      BY <2>1 DEF WaitsOnce
  <1>2. ASSUME NEW m \in 1..Len(q), m # 1
        PROVE  \E n \in 1..Len(rest) : rest[n] = q[m]
    <2> DEFINE n == m - 1
    <2>1. n \in 1..Len(rest) /\ n + 1 = m
      BY <1>2
    <2> HIDE DEF n
    <2> QED
      BY <2>1
  <1>3. Awaited(q, t) \subseteq Part(q[1], t) \cup Awaited(rest, t)
    <2> SUFFICES ASSUME NEW m \in 1..Len(q), NEW e \in Part(q[m], t)
                 PROVE  e \in Part(q[1], t) \cup Awaited(rest, t)
      BY DEF Awaited
    <2> QED
      BY <1>2 DEF Awaited
  <1>4. Part(q[1], t) \cup Awaited(rest, t) \subseteq Awaited(q, t)
    <2>1. Part(q[1], t) \subseteq Awaited(q, t)
      BY DEF Awaited
    <2>2. ASSUME NEW n \in 1..Len(rest), NEW e \in Part(rest[n], t)
          PROVE  e \in Awaited(q, t)
      <3>1. n + 1 \in 1..Len(q) /\ e \in Part(q[n + 1], t)
        BY <2>2
      <3> QED
        BY <3>1 DEF Awaited
    <2>3. Awaited(rest, t) \subseteq Awaited(q, t)
      BY <2>2 DEF Awaited
    <2> QED
      BY <2>1, <2>3
  <1>5. ASSUME NEW n \in 1..Len(rest), NEW e \in Part(rest[n], t), e \in Part(q[1], t)
        PROVE  FALSE
    <2>1. n + 1 \in 1..Len(q) /\ n + 1 # 1 /\ rest[n] = q[n + 1]
      OBVIOUS
    <2>2. Part(q[n + 1], t) \cap Part(q[1], t) = {}
      BY <2>1 DEF WaitsOnce
    <2> QED
      BY <1>5, <2>1, <2>2
  <1>6. Awaited(rest, t) \cap Part(q[1], t) = {}
    BY <1>5 DEF Awaited
  <1> QED
    BY <1>1, <1>3, <1>4, <1>6

\* or with what is left of it.
LEMMA BatchHalved ==
    ASSUME NEW q, NEW rest, NEW t, NEW N, WaitsOnce(q, t), 1 \in 1..Len(q), Len(rest) = Len(q),
           \A n \in 1..Len(q) : n # 1 => Part(rest[n], t) = Part(q[n], t),
           Part(q[1], t) = N \cup Part(rest[1], t), Part(rest[1], t) \cap N = {}
    PROVE  /\ WaitsOnce(rest, t)
           /\ Awaited(q, t) = N \cup Awaited(rest, t)
           /\ Awaited(rest, t) \cap N = {}
  <1>1. \A n \in 1..Len(q) : Part(rest[n], t) \subseteq Part(q[n], t)
    OBVIOUS
  <1>2. WaitsOnce(rest, t)
    BY <1>1 DEF WaitsOnce
  <1>3. Awaited(q, t) \subseteq N \cup Awaited(rest, t)
    <2> SUFFICES ASSUME NEW m \in 1..Len(q), NEW e \in Part(q[m], t)
                 PROVE  e \in N \cup Awaited(rest, t)
      BY DEF Awaited
    <2> QED
      BY DEF Awaited
  <1>4. N \cup Awaited(rest, t) \subseteq Awaited(q, t)
    BY <1>1 DEF Awaited
  <1>5. ASSUME NEW n \in 1..Len(q), NEW e \in Part(rest[n], t), e \in N
        PROVE  FALSE
    <2>1. CASE n = 1
      BY <1>5, <2>1
    <2>2. CASE n # 1
      <3>1. Part(q[n], t) \cap Part(q[1], t) = {}
        BY <2>2 DEF WaitsOnce
      <3> QED
        BY <1>5, <2>2, <3>1
    <2> QED
      BY <2>1, <2>2
  <1>6. Awaited(rest, t) \cap N = {}
    BY <1>5 DEF Awaited
  <1> QED
    BY <1>2, <1>3, <1>4, <1>6

\* The next group takes the events of the first batch, then its artifacts.
LEMMA BatchTaken ==
    ASSUME NEW q, BatchesOK(q), q # <<>>, NEW t \in Logs, WaitsOnce(q, t)
    PROVE  LET b == Head(q)
               rest == IF b.events # {} /\ b.artifacts # {}
                       THEN [q EXCEPT ![1].events = {}] ELSE Tail(q)
               N == IF t = (IF b.events # {} THEN "run_health_events" ELSE "artifacts")
                    THEN IF b.events # {} THEN b.events ELSE b.artifacts ELSE {}
           IN  /\ WaitsOnce(rest, t)
               /\ Awaited(q, t) = N \cup Awaited(rest, t)
               /\ Awaited(rest, t) \cap N = {}
  <1> DEFINE b == Head(q)
             N == IF t = (IF b.events # {} THEN "run_health_events" ELSE "artifacts")
                  THEN IF b.events # {} THEN b.events ELSE b.artifacts ELSE {}
  <1>1. /\ Len(q) \in Nat /\ 1 \in 1..Len(q)
        /\ b = q[1]
        /\ Len(Tail(q)) = Len(q) - 1
        /\ \A n \in 1..Len(Tail(q)) : n + 1 \in 1..Len(q) /\ Tail(q)[n] = q[n + 1]
    BY TailOf DEF BatchesOK
  <1>2. t = "run_health_events" \/ t = "artifacts"
    BY DEF Logs
  <1> HIDE DEF b
  <1>3. CASE b.events # {} /\ b.artifacts # {}
    <2> DEFINE c == [b EXCEPT !.events = {}]
               rest == [q EXCEPT ![1] = c]
    <2>1. [q EXCEPT ![1].events = {}] = rest
      BY <1>1
    <2>2. DOMAIN b = {"run", "events", "artifacts"}
      BY <1>1 DEF BatchesOK, BatchOK
    <2>3. Part(b, t) = N \cup Part(c, t) /\ Part(c, t) \cap N = {}
      BY <1>2, <1>3, <2>2 DEF Part
    <2>4. Len(rest) = Len(q) /\ rest[1] = c /\ \A n \in 1..Len(q) : n # 1 => rest[n] = q[n]
      <3>1. q \in Seq({q[n] : n \in 1..Len(q)})
        BY DEF BatchesOK
      <3> HIDE DEF c
      <3> QED
        BY <3>1, <1>1
    <2> HIDE DEF c, rest, N
    <2>5. /\ WaitsOnce(rest, t)
          /\ Awaited(q, t) = N \cup Awaited(rest, t)
          /\ Awaited(rest, t) \cap N = {}
      BY <1>1, <2>3, <2>4, BatchHalved
    <2> QED
      BY <1>3, <2>1, <2>5 DEF N, b
  <1>4. CASE ~ (b.events # {} /\ b.artifacts # {})
    <2> DEFINE rest == Tail(q)
    <2>1. N = Part(q[1], t)
      BY <1>1, <1>2, <1>4 DEF Part
    <2>2. /\ Len(rest) = Len(q) - 1
          /\ \A n \in 1..Len(rest) : n + 1 \in 1..Len(q) /\ rest[n] = q[n + 1]
      BY <1>1
    <2>4. Len(q) \in Nat /\ 1 \in 1..Len(q)
      BY <1>1
    <2> HIDE DEF rest, N
    <2>3. /\ WaitsOnce(rest, t)
          /\ Awaited(q, t) = Part(q[1], t) \cup Awaited(rest, t)
          /\ Awaited(rest, t) \cap Part(q[1], t) = {}
      BY <2>2, <2>4, BatchGone
    <2> QED
      BY <1>4, <2>1, <2>3 DEF N, b, rest
  <1> QED
    BY <1>3, <1>4

-----------------------------------------------------------------------------
(* The steps, again *)

LEMMA ApartPlaces ==
    ASSUME NEW t, PlacesOK(t)
    PROVE  /\ \A r \in Runs : Buf(t, r) \subseteq Given(t) /\ Buf(t, r) \cap Stored(t) = {}
           /\ \A r, s \in Runs : r # s => Buf(t, r) \cap Buf(t, s) = {}
           /\ \A c \in Callers :
                 /\ Awaited(todo[c], t) \subseteq Given(t)
                 /\ Awaited(todo[c], t) \cap Stored(t) = {}
                 /\ \A r \in Runs : Awaited(todo[c], t) \cap Buf(t, r) = {}
                 /\ \A d \in Callers : c # d => Awaited(todo[c], t) \cap Awaited(todo[d], t) = {}
           /\ \A c \in Callers :
                 /\ Ahead(plan[c], t) \subseteq Given(t)
                 /\ Ahead(plan[c], t) \cap Stored(t) = {}
                 /\ \A r \in Runs : Ahead(plan[c], t) \cap Buf(t, r) = {}
                 /\ \A d \in Callers : Ahead(plan[c], t) \cap Awaited(todo[d], t) = {}
                 /\ \A d \in Callers : c # d => Ahead(plan[c], t) \cap Ahead(plan[d], t) = {}
           /\ Stored(t) \subseteq Given(t)
  <1>1. /\ \A r \in Runs : <<"buffer", r>> \in Places
        /\ \A c \in Callers : <<"waiting", c>> \in Places /\ <<"ahead", c>> \in Places
        /\ <<"table", Nobody>> \in Places
    BY DEF Places
  <1>2. /\ \A p \in Places : At(p, t) \subseteq Given(t)
        /\ \A p, q \in Places : p # q => At(p, t) \cap At(q, t) = {}
    BY DEF PlacesOK
  <1>3. /\ \A r : At(<<"buffer", r>>, t) = Buf(t, r)
        /\ \A c : At(<<"waiting", c>>, t) = Awaited(todo[c], t)
        /\ \A c : At(<<"ahead", c>>, t) = Ahead(plan[c], t)
        /\ At(<<"table", Nobody>>, t) = Stored(t)
    BY AtPlaces
  <1>4. /\ \A r, c : <<"buffer", r>> # <<"waiting", c>> /\ <<"buffer", r>> # <<"ahead", c>>
        /\ \A r : <<"buffer", r>> # <<"table", Nobody>>
        /\ \A r, s : r # s => <<"buffer", r>> # <<"buffer", s>>
        /\ \A c, d : <<"waiting", c>> # <<"ahead", d>>
        /\ \A c : <<"waiting", c>> # <<"table", Nobody>> /\ <<"ahead", c>> # <<"table", Nobody>>
        /\ \A c, d : c # d => <<"waiting", c>> # <<"waiting", d>> /\ <<"ahead", c>> # <<"ahead", d>>
    OBVIOUS
  <1>5. \A r \in Runs : Buf(t, r) \subseteq Given(t) /\ Buf(t, r) \cap Stored(t) = {}
    BY <1>1, <1>2, <1>3, <1>4
  <1>6. \A r, s \in Runs : r # s => Buf(t, r) \cap Buf(t, s) = {}
    BY <1>1, <1>2, <1>3, <1>4
  <1>7. ASSUME NEW c \in Callers
        PROVE  /\ Awaited(todo[c], t) \subseteq Given(t)
               /\ Awaited(todo[c], t) \cap Stored(t) = {}
               /\ \A r \in Runs : Awaited(todo[c], t) \cap Buf(t, r) = {}
               /\ \A d \in Callers : c # d => Awaited(todo[c], t) \cap Awaited(todo[d], t) = {}
    BY <1>1, <1>2, <1>3, <1>4
  <1>8. ASSUME NEW c \in Callers
        PROVE  /\ Ahead(plan[c], t) \subseteq Given(t)
               /\ Ahead(plan[c], t) \cap Stored(t) = {}
               /\ \A r \in Runs : Ahead(plan[c], t) \cap Buf(t, r) = {}
               /\ \A d \in Callers : Ahead(plan[c], t) \cap Awaited(todo[d], t) = {}
               /\ \A d \in Callers : c # d => Ahead(plan[c], t) \cap Ahead(plan[d], t) = {}
    BY <1>1, <1>2, <1>3, <1>4
  <1> QED
    BY <1>1, <1>2, <1>3, <1>5, <1>6, <1>7, <1>8

LEMMA GivenGrows ==
    ASSUME NEW t, accepted \subseteq accepted', created \subseteq created',
           calls \in Nat, calls' \in {calls, calls + 1}
    PROVE  Given(t) \subseteq Given(t)'
  BY DEF Given

\* A buffer gets what was not given before.
LEMMA BufferGrows ==
    ASSUME NEW t, PlacesOK(t), NEW s \in Runs, NEW M, M \cap Given(t) = {}, M \subseteq Given(t)',
           Given(t) \subseteq Given(t)',
           \A r \in Runs : Buf(t, r)' = Buf(t, r) \cup (IF r = s THEN M ELSE {}),
           UNCHANGED <<todo, plan, conn, disk>>
    PROVE  PlacesOK(t)'
  <1>1. <<"buffer", s>> \in Places /\ Stored(t)' = Stored(t)
    BY DEF Places, Stored, Ids
  <1>2. \A c \in Callers : WaitsOnce(todo[c], t) /\ WrittenOnce(plan[c], t)
    BY DEF PlacesOK
  <1>3. /\ \A r \in Runs : Buf(t, r) \subseteq Given(t)
        /\ \A c \in Callers : Awaited(todo[c], t) \subseteq Given(t) /\ Ahead(plan[c], t) \subseteq Given(t)
        /\ Stored(t) \subseteq Given(t)
    BY ApartPlaces
  <1> DEFINE q == <<"buffer", s>>
  <1>4. \A r \in Runs : /\ Buf(t, r)' \subseteq Buf(t, r) \cup (IF q = <<"buffer", r>> THEN M ELSE {})
                        /\ q # <<"buffer", r>> => Buf(t, r)' \cap M = {}
    BY <1>3
  <1>5. \A c \in Callers :
              /\ Awaited(todo'[c], t) \subseteq
                    Awaited(todo[c], t) \cup (IF q = <<"waiting", c>> THEN M ELSE {})
              /\ q # <<"waiting", c>> => Awaited(todo'[c], t) \cap M = {}
              /\ WaitsOnce(todo'[c], t)
    BY <1>2, <1>3
  <1>6. \A c \in Callers :
              /\ Ahead(plan'[c], t) \subseteq
                    Ahead(plan[c], t) \cup (IF q = <<"ahead", c>> THEN M ELSE {})
              /\ q # <<"ahead", c>> => Ahead(plan'[c], t) \cap M = {}
              /\ WrittenOnce(plan'[c], t)
    BY <1>2, <1>3
  <1>7. /\ Stored(t)' \subseteq Stored(t) \cup (IF q = <<"table", Nobody>> THEN M ELSE {})
        /\ q # <<"table", Nobody>> => Stored(t)' \cap M = {}
    BY <1>1, <1>3
  <1> HIDE DEF q
  <1>8. q \in Places
    BY <1>1 DEF q
  <1> QED
    BY <1>4, <1>5, <1>6, <1>7, <1>8, PlacesShift

\* An idle coroutine takes the buffers of some runs, one of which may just
\* have grown.
Takes(t, c, R, b, M) ==
    /\ M \cap Given(t) = {} /\ M \subseteq Given(t)' /\ Given(t) \subseteq Given(t)'
    /\ WaitsOnce(b, t) /\ Awaited(b, t) \subseteq M \cup UNION {Buf(t, r) : r \in R}
    /\ todo'[c] = b /\ \A d \in Callers \ {c} : todo'[d] = todo[d]
    /\ \A r \in Runs : Buf(t, r)' = IF r \in R THEN {} ELSE Buf(t, r)
    /\ UNCHANGED <<plan, conn, disk>>

LEMMA BuffersTaken ==
    ASSUME NEW t, PlacesOK(t), NEW c \in Callers, NEW R \in SUBSET Runs, NEW M, NEW b,
           Takes(t, c, R, b, M)
    PROVE  PlacesOK(t)'
  <1>0. /\ M \cap Given(t) = {} /\ M \subseteq Given(t)' /\ Given(t) \subseteq Given(t)'
        /\ WaitsOnce(b, t) /\ Awaited(b, t) \subseteq M \cup UNION {Buf(t, r) : r \in R}
        /\ todo'[c] = b /\ \A d \in Callers \ {c} : todo'[d] = todo[d]
        /\ \A r \in Runs : Buf(t, r)' = IF r \in R THEN {} ELSE Buf(t, r)
        /\ UNCHANGED <<plan, conn, disk>>
    BY DEF Takes
  <1> DEFINE q == <<"waiting", c>>
             N == M \cup UNION {Buf(t, r) : r \in R}
  <1>1. q \in Places /\ Stored(t)' = Stored(t)
    BY <1>0 DEF Places, Stored, Ids
  <1>2. \A d \in Callers : WaitsOnce(todo[d], t) /\ WrittenOnce(plan[d], t)
    BY DEF PlacesOK
  <1>3. /\ \A r \in Runs : Buf(t, r) \subseteq Given(t) /\ Buf(t, r) \cap Stored(t) = {}
        /\ \A r, s \in Runs : r # s => Buf(t, r) \cap Buf(t, s) = {}
        /\ \A d \in Callers :
              /\ Awaited(todo[d], t) \subseteq Given(t)
              /\ \A r \in Runs : Awaited(todo[d], t) \cap Buf(t, r) = {}
        /\ \A d \in Callers :
              /\ Ahead(plan[d], t) \subseteq Given(t)
              /\ \A r \in Runs : Ahead(plan[d], t) \cap Buf(t, r) = {}
        /\ Stored(t) \subseteq Given(t)
    BY ApartPlaces
  <1>4. N \subseteq Given(t)' /\ Given(t) \subseteq Given(t)'
    BY <1>0, <1>3
  <1>5. \A r \in Runs : /\ Buf(t, r)' \subseteq Buf(t, r) \cup (IF q = <<"buffer", r>> THEN N ELSE {})
                        /\ q # <<"buffer", r>> => Buf(t, r)' \cap N = {}
    <2> SUFFICES ASSUME NEW r \in Runs
                 PROVE  Buf(t, r)' \subseteq Buf(t, r) /\ Buf(t, r)' \cap N = {}
      OBVIOUS
    <2>1. CASE r \in R
      BY <1>0, <2>1
    <2>2. CASE r \notin R
      BY <1>0, <1>3, <2>2
    <2> QED
      BY <2>1, <2>2
  <1>7. \A d \in Callers :
              /\ Awaited(todo'[d], t) \subseteq
                    Awaited(todo[d], t) \cup (IF q = <<"waiting", d>> THEN N ELSE {})
              /\ q # <<"waiting", d>> => Awaited(todo'[d], t) \cap N = {}
              /\ WaitsOnce(todo'[d], t)
    <2>1. Awaited(todo'[c], t) \subseteq N /\ WaitsOnce(todo'[c], t)
      BY <1>0
    <2>2. \A d \in Callers \ {c} :
              /\ Awaited(todo'[d], t) = Awaited(todo[d], t)
              /\ Awaited(todo[d], t) \cap N = {}
              /\ WaitsOnce(todo'[d], t)
      BY <1>0, <1>2, <1>3
    <2> HIDE DEF N
    <2> QED
      BY <2>1, <2>2
  <1>8. \A d \in Callers :
              /\ Ahead(plan'[d], t) \subseteq
                    Ahead(plan[d], t) \cup (IF q = <<"ahead", d>> THEN N ELSE {})
              /\ q # <<"ahead", d>> => Ahead(plan'[d], t) \cap N = {}
              /\ WrittenOnce(plan'[d], t)
    <2>1. \A d \in Callers :
              /\ Ahead(plan'[d], t) = Ahead(plan[d], t)
              /\ Ahead(plan[d], t) \cap N = {}
              /\ WrittenOnce(plan'[d], t)
      BY <1>0, <1>2, <1>3
    <2> HIDE DEF N
    <2> QED
      BY <2>1
  <1>9. /\ Stored(t)' \subseteq Stored(t) \cup (IF q = <<"table", Nobody>> THEN N ELSE {})
        /\ q # <<"table", Nobody>> => Stored(t)' \cap N = {}
    <2>1. Stored(t) \cap N = {}
      BY <1>0, <1>3
    <2> QED
      BY <1>1, <2>1
  <1>10. q \in Places
    BY <1>1
  <1> HIDE DEF q, N
  <1> QED
    BY <1>4, <1>5, <1>7, <1>8, <1>9, <1>10, PlacesShift

\* A flush takes the buffers of its runs, one of which may just have grown.
Flushes(t, c, R, ev, art, M) ==
    /\ M \cap Given(t) = {} /\ M \subseteq Given(t)' /\ Given(t) \subseteq Given(t)'
    /\ M = {} \/ \E s : R = {s}
    /\ \A r \in R : Slot(t, ev, art, r) = Buf(t, r) \cup M
    /\ todo'[c] = Batches(R, ev, art) /\ \A d \in Callers \ {c} : todo'[d] = todo[d]
    /\ \A r \in Runs : Buf(t, r)' = IF r \in R THEN {} ELSE Buf(t, r)
    /\ UNCHANGED <<plan, conn, disk>>

LEMMA FlushedPlaces ==
    ASSUME NEW t \in Logs, PlacesOK(t), NEW c \in Callers, NEW R \in SUBSET Runs,
           NEW ev, NEW art, NEW M, Flushes(t, c, R, ev, art, M)
    PROVE  PlacesOK(t)'
  <1> DEFINE b == Batches(R, ev, art)
  <1>1. \A r, s \in Runs : r # s => Buf(t, r) \cap Buf(t, s) = {}
    BY ApartPlaces
  <1>2. /\ M = {} \/ \E s : R = {s}
        /\ \A r \in R : Slot(t, ev, art, r) = Buf(t, r) \cup M
    BY DEF Flushes
  <1>3. SlotsApart(t, ev, art, R)
    <2> SUFFICES ASSUME NEW r \in R, NEW s \in R, r # s
                 PROVE  (Buf(t, r) \cup M) \cap (Buf(t, s) \cup M) = {}
      BY <1>2 DEF SlotsApart
    <2>1. M = {}
      BY <1>2
    <2>2. Buf(t, r) \cap Buf(t, s) = {}
      BY <1>1
    <2> QED
      BY <2>1, <2>2
  <1>4. /\ WaitsOnce(b, t)
        /\ Awaited(b, t) = UNION {Slot(t, ev, art, r) : r \in R}
    BY <1>3, BatchesHold
  <1>5. /\ M \cap Given(t) = {} /\ M \subseteq Given(t)' /\ Given(t) \subseteq Given(t)'
        /\ todo'[c] = b /\ \A d \in Callers \ {c} : todo'[d] = todo[d]
        /\ \A r \in Runs : Buf(t, r)' = IF r \in R THEN {} ELSE Buf(t, r)
        /\ UNCHANGED <<plan, conn, disk>>
    BY DEF Flushes
  <1> HIDE DEF b
  <1>6. Awaited(b, t) \subseteq M \cup UNION {Buf(t, r) : r \in R}
    BY <1>2, <1>4
  <1>7. Takes(t, c, R, b, M)
    BY <1>4, <1>5, <1>6 DEF Takes
  <1> QED
    BY <1>7, BuffersTaken

LEMMA LogNames ==
    /\ Logs = {"run_health_events", "artifacts"}
    /\ \A r : Buf("run_health_events", r) = evBuf[r] /\ Buf("artifacts", r) = artBuf[r]
    /\ \A r : Buf("run_health_events", r)' = evBuf'[r] /\ Buf("artifacts", r)' = artBuf'[r]
  BY DEF Logs, Buf

LEMMA SaveEventsPlaces ==
    ASSUME StoreInv, PlacesInv, NEW c \in Recorders, NEW r \in Runs, NEW new,
           \A e \in new : e[2] \in Events, NEW always, SaveEvents(c, r, new, always)
    PROVE  PlacesInv'
  <1> DEFINE grown == [evBuf EXCEPT ![r] = @ \cup new]
             q == Batches({r}, grown, artBuf)
             h == "run_health_events"
             a == "artifacts"
  <1>1. /\ DOMAIN evBuf = Runs /\ DOMAIN artBuf = Runs /\ DOMAIN todo = Callers
        /\ c \in Callers /\ calls \in Nat /\ PlacesOK(h) /\ PlacesOK(a)
    BY CallerNames, LogNames DEF StoreInv, BufferInv, LockInv, PlacesInv
  <1>2. /\ new \cap accepted = {} /\ accepted' = accepted \cup new
        /\ UNCHANGED <<plan, conn, disk, created, calls>>
        /\ \/ evBuf' = grown /\ artBuf' = artBuf /\ todo' = todo
           \/ /\ evBuf' = Emptied({r}, grown) /\ artBuf' = Emptied({r}, artBuf)
              /\ todo' = [todo EXCEPT ![c] = q]
    BY DEF SaveEvents, store
  <1>3. new \cap Given(h) = {} /\ new \subseteq Given(h)' /\ Given(h) \subseteq Given(h)'
    <2>1. Given(h) = accepted \cup UNION {Initial(s) : s \in created}
      BY DEF Given
    <2>2. Given(h)' = accepted' \cup UNION {Initial(s) : s \in created'}
      BY DEF Given
    <2>3. \A s : \A e \in Initial(s) : e[2] \notin Events
      BY StoreAssumption DEF Initial
    <2> QED
      BY <1>2, <2>1, <2>2, <2>3
  <1>4. Given(a) \subseteq Given(a)'
    BY <1>1, <1>2, GivenGrows
  <1>5. \A s \in Runs : grown[s] = evBuf[s] \cup (IF s = r THEN new ELSE {})
    BY <1>1
  <1> HIDE DEF grown
  <1>6. CASE evBuf' = grown /\ artBuf' = artBuf /\ todo' = todo
    <2>1. \A s \in Runs : Buf(h, s)' = Buf(h, s) \cup (IF s = r THEN new ELSE {})
      BY <1>5, <1>6, LogNames
    <2>2. \A s \in Runs : Buf(a, s)' = Buf(a, s) \cup (IF s = r THEN {} ELSE {})
      BY <1>6, LogNames
    <2>3. UNCHANGED <<todo, plan, conn, disk>>
      BY <1>2, <1>6
    <2> HIDE DEF h, a
    <2>4. PlacesOK(h)'
      BY <1>1, <1>3, <2>1, <2>3, BufferGrows
    <2>5. PlacesOK(a)'
      <3>1. {} \cap Given(a) = {} /\ {} \subseteq Given(a)'
        OBVIOUS
      <3> QED
        BY <1>1, <1>4, <2>2, <2>3, <3>1, BufferGrows
    <2> QED
      BY <1>1, <1>2, <1>6, <2>4, <2>5, LogNames DEF PlacesInv, h, a
  <1>7. CASE /\ evBuf' = Emptied({r}, grown) /\ artBuf' = Emptied({r}, artBuf)
             /\ todo' = [todo EXCEPT ![c] = q]
    <2> DEFINE R == {r}
    <2>1. R \in SUBSET Runs /\ \E s : R = {s}
      OBVIOUS
    <2>2. /\ \A s \in R : grown[s] = Buf(h, s) \cup new
          /\ \A s \in R : artBuf[s] = Buf(a, s) \cup {}
      BY <1>5, LogNames
    <2>3. /\ \A s \in Runs : Buf(h, s)' = IF s \in R THEN {} ELSE Buf(h, s)
          /\ \A s \in Runs : Buf(a, s)' = IF s \in R THEN {} ELSE Buf(a, s)
      <3>1. /\ \A s \in Runs : evBuf'[s] = IF s \in R THEN {} ELSE grown[s]
            /\ \A s \in Runs : artBuf'[s] = IF s \in R THEN {} ELSE artBuf[s]
        BY <1>7 DEF Emptied
      <3>2. \A s \in Runs : evBuf'[s] = IF s \in R THEN {} ELSE evBuf[s]
        BY <1>5, <3>1
      <3> QED
        BY <3>1, <3>2, LogNames
    <2>4. /\ todo'[c] = Batches(R, grown, artBuf)
          /\ \A d \in Callers \ {c} : todo'[d] = todo[d]
      BY <1>1, <1>7
    <2>5. UNCHANGED <<plan, conn, disk>>
      BY <1>2
    <2>6. h \in Logs /\ a \in Logs /\ h # a
      BY LogNames
    <2>7. \A s \in R : Slot(h, grown, artBuf, s) = Buf(h, s) \cup new
      BY <2>2 DEF Slot
    <2>8. \A s \in R : Slot(a, grown, artBuf, s) = Buf(a, s) \cup {}
      BY <2>2 DEF Slot
    <2> HIDE DEF h, a, R, q
    <2>9. PlacesOK(h)'
      <3>1. Flushes(h, c, R, grown, artBuf, new)
        BY <1>3, <2>1, <2>3, <2>4, <2>5, <2>7 DEF Flushes
      <3> QED
        BY <1>1, <2>1, <2>6, <3>1, FlushedPlaces
    <2>10. PlacesOK(a)'
      <3>1. Flushes(a, c, R, grown, artBuf, {})
        BY <1>4, <2>1, <2>3, <2>4, <2>5, <2>8 DEF Flushes
      <3> QED
        BY <1>1, <2>1, <2>6, <3>1, FlushedPlaces
    <2>11. DOMAIN artBuf' = Runs
      BY <1>7 DEF Emptied
    <2> QED
      BY <1>1, <1>2, <2>9, <2>10, <2>11, LogNames DEF PlacesInv, h, a
  <1> QED
    BY <1>2, <1>6, <1>7

\* An artifact is named for the call that saves it.
LEMMA SaveArtifactPlaces ==
    ASSUME StoreInv, PlacesInv, NEW c \in Recorders, NEW r \in Runs, NEW always,
           save_artifact(c, r, always)
    PROVE  PlacesInv'
  <1> DEFINE grown == [artBuf EXCEPT ![r] = @ \cup {calls}]
             q == Batches({r}, evBuf, grown)
             h == "run_health_events"
             a == "artifacts"
             new == {calls}
             R == {r}
  <1>1. /\ DOMAIN artBuf = Runs /\ DOMAIN todo = Callers
        /\ c \in Callers /\ calls \in Nat /\ PlacesOK(h) /\ PlacesOK(a)
    BY CallerNames, LogNames DEF StoreInv, LockInv, PlacesInv
  <1>2. /\ calls' = calls + 1
        /\ UNCHANGED <<plan, conn, disk, created, accepted>>
        /\ \/ evBuf' = evBuf /\ artBuf' = grown /\ todo' = todo
           \/ /\ evBuf' = Emptied(R, evBuf) /\ artBuf' = Emptied(R, grown)
              /\ todo' = [todo EXCEPT ![c] = q]
    BY DEF save_artifact, store
  <1>3. new \cap Given(a) = {} /\ new \subseteq Given(a)' /\ Given(a) \subseteq Given(a)'
    BY <1>1, <1>2 DEF Given
  <1>4. Given(h) \subseteq Given(h)'
    BY <1>1, <1>2, GivenGrows
  <1>5. \A s \in Runs : grown[s] = artBuf[s] \cup (IF s = r THEN new ELSE {})
    BY <1>1
  <1>6. DOMAIN grown = Runs /\ calls' \in Nat
    BY <1>1, <1>2
  <1> HIDE DEF grown, new
  <1>7. CASE evBuf' = evBuf /\ artBuf' = grown /\ todo' = todo
    <2>1. \A s \in Runs : Buf(a, s)' = Buf(a, s) \cup (IF s = r THEN new ELSE {})
      BY <1>5, <1>7, LogNames
    <2>2. \A s \in Runs : Buf(h, s)' = Buf(h, s) \cup (IF s = r THEN {} ELSE {})
      BY <1>7, LogNames
    <2>3. UNCHANGED <<todo, plan, conn, disk>>
      BY <1>2, <1>7
    <2> HIDE DEF h, a
    <2>4. PlacesOK(a)'
      BY <1>1, <1>3, <2>1, <2>3, BufferGrows
    <2>5. PlacesOK(h)'
      <3>1. {} \cap Given(h) = {} /\ {} \subseteq Given(h)'
        OBVIOUS
      <3> QED
        BY <1>1, <1>4, <2>2, <2>3, <3>1, BufferGrows
    <2> QED
      BY <1>6, <1>7, <2>4, <2>5, LogNames DEF PlacesInv, h, a
  <1>8. CASE /\ evBuf' = Emptied(R, evBuf) /\ artBuf' = Emptied(R, grown)
             /\ todo' = [todo EXCEPT ![c] = q]
    <2>1. R \in SUBSET Runs /\ \E s : R = {s}
      OBVIOUS
    <2>2. /\ \A s \in R : grown[s] = Buf(a, s) \cup new
          /\ \A s \in R : evBuf[s] = Buf(h, s) \cup {}
      BY <1>5, LogNames
    <2>3. /\ \A s \in Runs : Buf(h, s)' = IF s \in R THEN {} ELSE Buf(h, s)
          /\ \A s \in Runs : Buf(a, s)' = IF s \in R THEN {} ELSE Buf(a, s)
      <3>1. /\ \A s \in Runs : evBuf'[s] = IF s \in R THEN {} ELSE evBuf[s]
            /\ \A s \in Runs : artBuf'[s] = IF s \in R THEN {} ELSE grown[s]
        BY <1>8 DEF Emptied
      <3>2. \A s \in Runs : artBuf'[s] = IF s \in R THEN {} ELSE artBuf[s]
        BY <1>5, <3>1
      <3> QED
        BY <3>1, <3>2, LogNames
    <2>4. /\ todo'[c] = Batches(R, evBuf, grown)
          /\ \A d \in Callers \ {c} : todo'[d] = todo[d]
      BY <1>1, <1>8
    <2>5. UNCHANGED <<plan, conn, disk>>
      BY <1>2
    <2>6. h \in Logs /\ a \in Logs /\ h # a
      BY LogNames
    <2>7. \A s \in R : Slot(a, evBuf, grown, s) = Buf(a, s) \cup new
      BY <2>2 DEF Slot
    <2>8. \A s \in R : Slot(h, evBuf, grown, s) = Buf(h, s) \cup {}
      BY <2>2 DEF Slot
    <2> HIDE DEF h, a, R, q
    <2>9. PlacesOK(a)'
      <3>1. Flushes(a, c, R, evBuf, grown, new)
        BY <1>3, <2>1, <2>3, <2>4, <2>5, <2>7 DEF Flushes
      <3> QED
        BY <1>1, <2>1, <2>6, <3>1, FlushedPlaces
    <2>10. PlacesOK(h)'
      <3>1. Flushes(h, c, R, evBuf, grown, {})
        BY <1>4, <2>1, <2>3, <2>4, <2>5, <2>8 DEF Flushes
      <3> QED
        BY <1>1, <2>1, <2>6, <3>1, FlushedPlaces
    <2>11. DOMAIN artBuf' = Runs
      BY <1>8 DEF Emptied
    <2> QED
      BY <1>6, <2>9, <2>10, <2>11, LogNames DEF PlacesInv, h, a
  <1> QED
    BY <1>2, <1>7, <1>8

LEMMA FlushPlaces ==
    ASSUME PlacesInv, NEW c \in Callers, DOMAIN todo = Callers, NEW R \in SUBSET Runs,
           todo' = [todo EXCEPT ![c] = Batches(R, evBuf, artBuf)],
           evBuf' = Emptied(R, evBuf), artBuf' = Emptied(R, artBuf),
           UNCHANGED <<plan, conn, disk, accepted, created, calls>>
    PROVE  PlacesInv'
  <1>1. ASSUME NEW t \in Logs
        PROVE  PlacesOK(t)'
    <2>1. \A r \in R : Slot(t, evBuf, artBuf, r) = Buf(t, r) \cup {}
      BY DEF Slot, Buf
    <2>2. \A r \in Runs : Buf(t, r)' = IF r \in R THEN {} ELSE Buf(t, r)
      BY DEF Buf, Emptied
    <2>3. /\ todo'[c] = Batches(R, evBuf, artBuf)
          /\ \A d \in Callers \ {c} : todo'[d] = todo[d]
      OBVIOUS
    <2>4. Given(t)' = Given(t)
      BY DEF Given
    <2>5. Flushes(t, c, R, evBuf, artBuf, {})
      BY <2>1, <2>2, <2>3, <2>4 DEF Flushes
    <2>6. PlacesOK(t)
      BY DEF PlacesInv
    <2> QED
      BY <2>5, <2>6, FlushedPlaces
  <1>2. DOMAIN artBuf' = Runs
    BY DEF Emptied
  <1> QED
    BY <1>1, <1>2 DEF PlacesInv

\* A coroutine that gets the lock has the ids N in its group; they are new, or
\* were in its batches.
Begins(t, c, p, N) ==
    /\ N \subseteq Given(t)' /\ Given(t) \subseteq Given(t)'
    /\ Ahead(p, t) \subseteq N /\ WrittenOnce(p, t)
    /\ plan'[c] = p /\ \A d \in Callers \ {c} : plan'[d] = <<>>
    /\ \A d \in Callers : /\ Awaited(todo'[d], t) \subseteq Awaited(todo[d], t)
                          /\ Awaited(todo'[d], t) \cap N = {}
                          /\ WaitsOnce(todo'[d], t)
    /\ \A r \in Runs : Buf(t, r)' = Buf(t, r) /\ Buf(t, r) \cap N = {}
    /\ Stored(t)' = Stored(t) /\ Stored(t) \cap N = {}

LEMMA BegunPlaces ==
    ASSUME NEW t, PlacesOK(t), NEW c \in Callers, NEW p, NEW N, Begins(t, c, p, N)
    PROVE  PlacesOK(t)'
  <1> DEFINE q == <<"ahead", c>>
  <1>1. q \in Places
    BY DEF Places
  <1>2. N \subseteq Given(t)' /\ Given(t) \subseteq Given(t)'
    BY DEF Begins
  <1>3. \A r \in Runs : /\ Buf(t, r)' \subseteq Buf(t, r) \cup (IF q = <<"buffer", r>> THEN N ELSE {})
                        /\ q # <<"buffer", r>> => Buf(t, r)' \cap N = {}
    BY DEF Begins
  <1>4. \A d \in Callers :
              /\ Awaited(todo'[d], t) \subseteq
                    Awaited(todo[d], t) \cup (IF q = <<"waiting", d>> THEN N ELSE {})
              /\ q # <<"waiting", d>> => Awaited(todo'[d], t) \cap N = {}
              /\ WaitsOnce(todo'[d], t)
    BY DEF Begins
  <1>5. \A d \in Callers :
              /\ Ahead(plan'[d], t) \subseteq
                    Ahead(plan[d], t) \cup (IF q = <<"ahead", d>> THEN N ELSE {})
              /\ q # <<"ahead", d>> => Ahead(plan'[d], t) \cap N = {}
              /\ WrittenOnce(plan'[d], t)
    <2>1. Ahead(plan'[c], t) \subseteq N /\ WrittenOnce(plan'[c], t)
      BY DEF Begins
    <2>2. \A d \in Callers \ {c} : Ahead(plan'[d], t) = {} /\ WrittenOnce(plan'[d], t)
      BY NothingAhead DEF Begins
    <2>3. \A d \in Callers : (q = <<"ahead", d>>) <=> d = c
      OBVIOUS
    <2> HIDE DEF q
    <2>4. \A d \in Callers : d = c \/ d \in Callers \ {c}
      OBVIOUS
    <2> QED
      BY <2>1, <2>2, <2>3, <2>4
  <1>6. /\ Stored(t)' \subseteq Stored(t) \cup (IF q = <<"table", Nobody>> THEN N ELSE {})
        /\ q # <<"table", Nobody>> => Stored(t)' \cap N = {}
    BY DEF Begins
  <1> HIDE DEF q
  <1> QED
    BY <1>1, <1>2, <1>3, <1>4, <1>5, <1>6, PlacesShift

\* The ids in the group of a call are new.
LEMMA CallWrites ==
    ASSUME StoreInv, KeptInv, NEW c \in Clients, NEW k \in Calls, Call(c, k), NEW t \in Logs
    PROVE  LET p == Group(k, conn)
           IN  /\ Ahead(p, t) \cap Given(t) = {} /\ Ahead(p, t) \subseteq Given(t)'
               /\ WrittenOnce(p, t)
  <1> DEFINE p == Group(k, conn)
  <1>1. /\ created' = IF Creates(k) THEN created \cup {k.run} ELSE created
        /\ Creates(k) => k.run \notin created
        /\ accepted' = accepted
    BY DEF Call, buffers
  <1>2. DbOK(conn) /\ \A e \in accepted : e[2] \in Events
    BY DEF StoreInv, DiskInv, KeptInv, FlushInv
  <1>3. k.fn \in StoreFunctions /\ (k.fn = "save_telemetry_signals" => Len(k.ids) \in Nat)
    BY StoreAssumption
  <1>4. CASE k.fn # "create_run_with_initial_events"
    <2>1. Quiet(p)
      BY <1>2, <1>3, <1>4, GroupIsQuiet
    <2> HIDE DEF p
    <2>2. Ahead(p, t) = {} /\ WrittenOnce(p, t)
      BY <2>1, QuietWritesNone
    <2> QED
      BY <2>2 DEF p
  <1>5. CASE k.fn = "create_run_with_initial_events"
    <2>1. p = create_run_with_initial_events(k.run, "queued")
      BY <1>5 DEF Group
    <2> DEFINE r == k.run
    <2>2. r \notin created /\ r \in created'
      BY <1>1, <1>5 DEF Creates
    <2> HIDE DEF r, p
    <2>3. /\ Ahead(p, t) = (IF t = "run_health_events" THEN Initial(r) ELSE {})
          /\ WrittenOnce(p, t)
      BY <2>1, InitialWrites DEF r
    <2>4. CASE t = "run_health_events"
      <3>1. /\ Given(t) = accepted \cup UNION {Initial(s) : s \in created}
            /\ Given(t)' = accepted' \cup UNION {Initial(s) : s \in created'}
        BY <2>4 DEF Given
      <3>2. \A e \in Initial(r) : e[2] \notin Events
        BY StoreAssumption DEF Initial
      <3>3. \A s : s # r => Initial(s) \cap Initial(r) = {}
        BY DEF Initial
      <3> QED
        BY <1>2, <2>2, <2>3, <2>4, <3>1, <3>2, <3>3 DEF p
    <2>5. CASE t # "run_health_events"
      BY <2>3, <2>5 DEF p
    <2> QED
      BY <2>4, <2>5
  <1> QED
    BY <1>4, <1>5

LEMMA CallPlaces ==
    ASSUME StoreInv, KeptInv, PlacesInv, NEW c \in Clients, NEW k \in Calls, Call(c, k)
    PROVE  PlacesInv'
  <1> DEFINE p == Group(k, conn)
  <1>1. /\ lock = Nobody /\ plan' = [plan EXCEPT ![c] = p]
        /\ created' = IF Creates(k) THEN created \cup {k.run} ELSE created
        /\ calls' = calls + 1
        /\ UNCHANGED <<conn, disk, todo, evBuf, artBuf, accepted>>
    BY DEF Call, Enter, store, buffers
  <1>2. /\ DOMAIN plan = Callers /\ c \in Callers
        /\ \A d \in Callers : plan[d] = <<>>
    BY <1>1, CallerNames, NoPlans DEF StoreInv, LockInv
  <1>4. calls \in Nat /\ DOMAIN artBuf = Runs /\ \A t \in Logs : PlacesOK(t)
    BY DEF PlacesInv
  <1>5. created \subseteq created' /\ accepted' = accepted /\ calls' \in Nat
    BY <1>1, <1>4
  <1>6. plan'[c] = p /\ \A d \in Callers \ {c} : plan'[d] = <<>>
    BY <1>1, <1>2
  <1>7. ASSUME NEW t \in Logs
        PROVE  /\ Ahead(p, t) \cap Given(t) = {} /\ Ahead(p, t) \subseteq Given(t)'
               /\ WrittenOnce(p, t)
    BY CallWrites
  <1> HIDE DEF p
  <1>8. ASSUME NEW t \in Logs
        PROVE  PlacesOK(t)'
    <2> DEFINE N == Ahead(p, t)
    <2>1. N \cap Given(t) = {} /\ N \subseteq Given(t)' /\ WrittenOnce(p, t)
      BY <1>7
    <2>2. Given(t) \subseteq Given(t)'
      BY <1>1, <1>4, <1>5, GivenGrows
    <2>3. PlacesOK(t)
      BY <1>4
    <2> HIDE DEF N
    <2>4. \A d \in Callers : Awaited(todo[d], t) \subseteq Given(t) /\ WaitsOnce(todo[d], t)
      BY <2>3, ApartPlaces DEF PlacesOK
    <2>5. \A r \in Runs : Buf(t, r) \subseteq Given(t)
      BY <2>3, ApartPlaces
    <2>6. Stored(t) \subseteq Given(t)
      BY <2>3, ApartPlaces
    <2>7. Stored(t)' = Stored(t) /\ (\A r \in Runs : Buf(t, r)' = Buf(t, r)) /\ todo' = todo
      BY <1>1 DEF Stored, Ids, Buf
    <2>8. Begins(t, c, p, N)
      <3>1. Ahead(p, t) \subseteq N
        BY DEF N
      <3> QED
        BY <1>6, <2>1, <2>2, <2>4, <2>5, <2>6, <2>7, <3>1 DEF Begins
    <2> QED
      BY <1>2, <2>3, <2>8, BegunPlaces
  <1> QED
    BY <1>1, <1>4, <1>5, <1>8 DEF PlacesInv

\* A flush begins the group of its next batch.
LEMMA AcquirePlaces ==
    ASSUME StoreInv, PlacesInv, NEW c \in Callers, Acquire(c)
    PROVE  PlacesInv'
  <1> DEFINE b == Head(todo[c])
             k == [fn |-> IF b.events # {} THEN "write_events" ELSE "write_artifacts",
                   run |-> b.run,
                   ids |-> IF b.events # {} THEN b.events ELSE b.artifacts]
             p == Group(k, conn)
             rest == IF b.events # {} /\ b.artifacts # {}
                     THEN [todo[c] EXCEPT ![1].events = {}] ELSE Tail(todo[c])
  <1>1. /\ todo[c] # <<>> /\ lock = Nobody /\ plan' = [plan EXCEPT ![c] = p]
        /\ todo' = [todo EXCEPT ![c] = rest]
        /\ UNCHANGED <<conn, disk, evBuf, artBuf, accepted, created, calls>>
    BY DEF Acquire, Enter, store, buffers
  <1>2. /\ DOMAIN plan = Callers /\ DOMAIN todo = Callers /\ BatchesOK(todo[c])
        /\ \A d \in Callers : plan[d] = <<>>
    BY <1>1, NoPlans DEF StoreInv, LockInv, BufferInv
  <1>3. k.fn \in {"write_events", "write_artifacts"}
        /\ (k.fn = "write_events" <=> b.events # {})
    OBVIOUS
  <1>4. ASSUME NEW t \in Logs
        PROVE  PlacesOK(t)'
    <2> DEFINE N == IF t = (IF b.events # {} THEN "run_health_events" ELSE "artifacts")
                    THEN IF b.events # {} THEN b.events ELSE b.artifacts ELSE {}
    <2>1. PlacesOK(t)
      BY DEF PlacesInv
    <2>2. \A d \in Callers : WaitsOnce(todo[d], t)
      BY <2>1 DEF PlacesOK
    <2>3. /\ WaitsOnce(rest, t)
          /\ Awaited(todo[c], t) = N \cup Awaited(rest, t)
          /\ Awaited(rest, t) \cap N = {}
      <3> DEFINE w == todo[c]
      <3>1. w # <<>> /\ BatchesOK(w) /\ WaitsOnce(w, t)
        BY <1>1, <1>2, <2>2
      <3> HIDE DEF w
      <3>2. LET b0 == Head(w)
                rest0 == IF b0.events # {} /\ b0.artifacts # {}
                         THEN [w EXCEPT ![1].events = {}] ELSE Tail(w)
                N0 == IF t = (IF b0.events # {} THEN "run_health_events" ELSE "artifacts")
                      THEN IF b0.events # {} THEN b0.events ELSE b0.artifacts ELSE {}
            IN  /\ WaitsOnce(rest0, t)
                /\ Awaited(w, t) = N0 \cup Awaited(rest0, t)
                /\ Awaited(rest0, t) \cap N0 = {}
        BY <3>1, BatchTaken
      <3> QED
        BY <3>2 DEF w
    <2>4. Ahead(p, t) = N /\ WrittenOnce(p, t)
      <3>1. k.ids = (IF b.events # {} THEN b.events ELSE b.artifacts)
        OBVIOUS
      <3>2. k.fn = "write_events" <=> b.events # {}
        BY <1>3
      <3> HIDE DEF k, b
      <3>3. /\ Ahead(p, t) =
                 IF t = (IF k.fn = "write_events" THEN "run_health_events" ELSE "artifacts")
                 THEN k.ids ELSE {}
            /\ WrittenOnce(p, t)
        BY <1>3, FlushWrites
      <3> HIDE DEF p
      <3> QED
        BY <3>1, <3>2, <3>3
    <2> HIDE DEF N, p, rest
    <2>5. N \subseteq Given(t) /\ Given(t)' = Given(t)
      <3>1. Given(t)' = Given(t)
        BY <1>1 DEF Given
      <3> QED
        BY <2>1, <2>3, <3>1, ApartPlaces
    <2>6. /\ todo'[c] = rest /\ plan'[c] = p
          /\ \A d \in Callers \ {c} : todo'[d] = todo[d] /\ plan'[d] = <<>>
      BY <1>1, <1>2
    <2>7. \A d \in Callers : /\ Awaited(todo'[d], t) \subseteq Awaited(todo[d], t)
                             /\ Awaited(todo'[d], t) \cap N = {}
                             /\ WaitsOnce(todo'[d], t)
      <3>1. \A d \in Callers \ {c} : Awaited(todo[d], t) \cap N = {}
        BY <2>1, <2>3, ApartPlaces
      <3> QED
        BY <2>2, <2>3, <2>6, <3>1
    <2>8. \A r \in Runs : Buf(t, r)' = Buf(t, r) /\ Buf(t, r) \cap N = {}
      <3>1. \A r \in Runs : Buf(t, r)' = Buf(t, r)
        BY <1>1 DEF Buf
      <3> QED
        BY <2>1, <2>3, <3>1, ApartPlaces
    <2>9. Stored(t)' = Stored(t) /\ Stored(t) \cap N = {}
      <3>1. Stored(t)' = Stored(t)
        BY <1>1 DEF Stored, Ids
      <3> QED
        BY <2>1, <2>3, <3>1, ApartPlaces
    <2>10. Begins(t, c, p, N)
      BY <2>4, <2>5, <2>6, <2>7, <2>8, <2>9 DEF Begins
    <2> QED
      BY <2>1, <2>10, BegunPlaces
  <1> QED
    BY <1>1, <1>4 DEF PlacesInv

\* A coroutine that drops its group and its batches leaves their ids nowhere.
LEMMA DropPlaces ==
    ASSUME StoreInv, PlacesInv, NEW c \in Callers,
           plan' = [plan EXCEPT ![c] = <<>>], todo' = [todo EXCEPT ![c] = <<>>],
           conn' \in {conn, disk}, UNCHANGED <<disk, evBuf, artBuf, accepted, created, calls>>
    PROVE  PlacesInv'
  <1>1. /\ plan'[c] = <<>> /\ todo'[c] = <<>>
        /\ \A d \in Callers \ {c} : plan'[d] = plan[d] /\ todo'[d] = todo[d]
    BY DEF StoreInv, LockInv
  <1>2. ASSUME NEW t \in Logs
        PROVE  PlacesOK(t)'
    <2>1. PlacesOK(t) /\ Given(t)' = Given(t) /\ \A r \in Runs : Buf(t, r)' = Buf(t, r)
      BY DEF PlacesInv, Given, Buf
    <2>2. \A d \in Callers : WaitsOnce(todo[d], t) /\ WrittenOnce(plan[d], t)
      BY <2>1 DEF PlacesOK
    <2>3. \A d \in Callers : /\ Awaited(todo'[d], t) \subseteq Awaited(todo[d], t)
                             /\ WaitsOnce(todo'[d], t)
      BY <1>1, <2>2, NothingAhead
    <2>4. \A d \in Callers : /\ Ahead(plan'[d], t) \subseteq Ahead(plan[d], t)
                             /\ WrittenOnce(plan'[d], t)
      BY <1>1, <2>2, NothingAhead
    <2>5. Stored(t)' \subseteq Stored(t)
      BY DEF Stored, Ids
    <2> QED
      BY <2>1, <2>3, <2>4, <2>5, PlacesShrink
  <1> QED
    BY <1>2 DEF PlacesInv

\* So does the process when it dies; the one that starts writes no ids.
LEMMA CrashPlaces ==
    ASSUME StoreInv, PlacesInv, Crash
    PROVE  PlacesInv'
  <1>1. /\ conn' = disk /\ plan' = Starting(disk) /\ todo' = [c \in Callers |-> <<>>]
        /\ evBuf' = [r \in Runs |-> {}] /\ artBuf' = [r \in Runs |-> {}]
        /\ UNCHANGED <<disk, accepted, created, calls>>
    BY DEF Crash
  <1>2. DbOK(disk)
    BY DEF StoreInv, DiskInv
  <1>3. ASSUME NEW d \in Callers, NEW t \in Logs
        PROVE  Ahead(Starting(disk)[d], t) = {} /\ WrittenOnce(Starting(disk)[d], t)
    <2> DEFINE p == init_db(disk)
    <2>1. Quiet(p)
      BY <1>2, StartIsQuiet
    <2>2. Starting(disk)[d] = IF d = Server THEN p ELSE <<>>
      BY DEF Starting
    <2> HIDE DEF p
    <2> QED
      BY <2>1, <2>2, QuietWritesNone, NothingAhead
  <1>4. ASSUME NEW t \in Logs
        PROVE  PlacesOK(t)'
    <2>1. PlacesOK(t) /\ Given(t)' = Given(t) /\ \A r \in Runs : Buf(t, r)' = {}
      BY <1>1 DEF PlacesInv, Given, Buf
    <2>2. \A d \in Callers : Awaited(todo'[d], t) = {} /\ WaitsOnce(todo'[d], t)
      BY <1>1, NothingAhead
    <2>3. \A d \in Callers : Ahead(plan'[d], t) = {} /\ WrittenOnce(plan'[d], t)
      BY <1>1, <1>3
    <2>4. Stored(t)' \subseteq Stored(t)
      BY <1>1 DEF Stored, Ids
    <2> QED
      BY <2>1, <2>2, <2>3, <2>4, PlacesShrink
  <1> QED
    BY <1>1, <1>4 DEF PlacesInv

LEMMA SucceedPlaces ==
    ASSUME StoreInv, PlacesInv, NEW c \in Callers, lock = c, plan[c] # <<>>,
           NEW s, s = Head(plan[c]), ~ Refuses(s), Succeed(c, s),
           UNCHANGED <<evBuf, artBuf, accepted, created, calls>>
    PROVE  PlacesInv'
  <1> DEFINE p == plan[c]
  <1>1. DOMAIN plan = Callers /\ PlanOK(p, conn) /\ DbOK(conn) /\ ~ Refused(s, conn)
    BY DEF StoreInv, LockInv, DiskInv, Refuses
  <1>2. p \in Seq({p[n] : n \in 1..Len(p)}) /\ p # <<>>
    BY <1>1 DEF PlanOK
  <1>3. s = p[1]
    <2> HIDE DEF p
    <2>1. Head(p) = p[1]
      BY <1>2, TailOf
    <2> QED
      BY <2>1 DEF p
  <1>4. StatementOK(s) /\ Ready(s, conn)
    BY <1>1, <1>2, <1>3, HeadIsReady
  <1>5. Succeeded(s)
    BY <1>4, AfterSuccess
  <1>6. /\ plan'[c] = Tail(p) /\ \A d \in Callers \ {c} : plan'[d] = plan[d]
        /\ todo' = todo
    BY <1>1 DEF Succeed
  <1>7. conn' \in {Applied(s, conn), disk} /\ disk' \in {disk, conn, conn'}
    BY <1>5 DEF Succeeded
  <1> HIDE DEF p
  <1>8. ASSUME NEW t \in Logs
        PROVE  PlacesOK(t)'
    <2> DEFINE N == Written(s, t)
               q == <<"table", Nobody>>
    <2>1. PlacesOK(t) /\ Given(t)' = Given(t) /\ \A r \in Runs : Buf(t, r)' = Buf(t, r)
      BY DEF PlacesInv, Given, Buf
    <2>2. \A d \in Callers : WaitsOnce(todo[d], t) /\ WrittenOnce(plan[d], t)
      BY <2>1 DEF PlacesOK
    <2>3. /\ Ahead(p, t) = Written(p[1], t) \cup Ahead(Tail(p), t)
          /\ Ahead(Tail(p), t) \cap Written(p[1], t) = {}
          /\ WrittenOnce(Tail(p), t)
      <3>1. WrittenOnce(p, t)
        BY <2>2 DEF p
      <3> QED
        BY <1>2, <3>1, TailAhead
    <2>4. N = Written(p[1], t)
      BY <1>3
    <2>5. Stored(t)' \subseteq Stored(t) \cup N
      <3>1. Ids(Applied(s, conn), t) \subseteq Ids(conn, t) \cup N
        BY <1>1, <1>4, AppliedIds
      <3> QED
        BY <1>7, <3>1 DEF Stored, Ids
    <2> HIDE DEF N
    <2>6. N \subseteq Ahead(plan[c], t) /\ Ahead(plan[c], t) \subseteq Given(t)
      <3>1. Ahead(plan[c], t) \subseteq Given(t)
        BY <2>1, ApartPlaces
      <3> QED
        BY <2>3, <2>4, <3>1 DEF p
    <2>7. \A r \in Runs : /\ Buf(t, r)' \subseteq Buf(t, r) \cup (IF q = <<"buffer", r>> THEN N ELSE {})
                          /\ q # <<"buffer", r>> => Buf(t, r)' \cap N = {}
      <3>1. \A r \in Runs : Ahead(plan[c], t) \cap Buf(t, r) = {}
        BY <2>1, ApartPlaces
      <3> QED
        BY <2>1, <2>6, <3>1
    <2>8. \A d \in Callers :
              /\ Awaited(todo'[d], t) \subseteq
                    Awaited(todo[d], t) \cup (IF q = <<"waiting", d>> THEN N ELSE {})
              /\ q # <<"waiting", d>> => Awaited(todo'[d], t) \cap N = {}
              /\ WaitsOnce(todo'[d], t)
      <3>1. \A d \in Callers : Ahead(plan[c], t) \cap Awaited(todo[d], t) = {}
        BY <2>1, ApartPlaces
      <3> QED
        BY <1>6, <2>2, <2>6, <3>1
    <2>9. \A d \in Callers :
              /\ Ahead(plan'[d], t) \subseteq
                    Ahead(plan[d], t) \cup (IF q = <<"ahead", d>> THEN N ELSE {})
              /\ q # <<"ahead", d>> => Ahead(plan'[d], t) \cap N = {}
              /\ WrittenOnce(plan'[d], t)
      <3>1. \A d \in Callers \ {c} : /\ Ahead(plan'[d], t) = Ahead(plan[d], t)
                                     /\ Ahead(plan[d], t) \cap N = {}
                                     /\ WrittenOnce(plan'[d], t)
        <4>1. \A d \in Callers : c # d => Ahead(plan[c], t) \cap Ahead(plan[d], t) = {}
          BY <2>1, ApartPlaces
        <4> QED
          BY <1>6, <2>2, <2>6, <4>1
      <3>2. /\ Ahead(plan'[c], t) \subseteq Ahead(plan[c], t)
            /\ Ahead(plan'[c], t) \cap N = {}
            /\ WrittenOnce(plan'[c], t)
        BY <1>6, <2>3, <2>4 DEF p
      <3> QED
        BY <3>1, <3>2
    <2>10. q \in Places
      BY DEF Places
    <2>11. N \subseteq Given(t)' /\ Given(t) \subseteq Given(t)'
      BY <2>1, <2>6
    <2>12. /\ Stored(t)' \subseteq Stored(t) \cup (IF q = <<"table", Nobody>> THEN N ELSE {})
           /\ q # <<"table", Nobody>> => Stored(t)' \cap N = {}
      BY <2>5
    <2> HIDE DEF q
    <2> QED
      BY <2>1, <2>7, <2>8, <2>9, <2>10, <2>11, <2>12, PlacesShift
  <1> QED
    BY <1>8 DEF PlacesInv

LEMMA ExecutePlaces ==
    ASSUME StoreInv, PlacesInv, NEW c \in Callers, Execute(c)
    PROVE  PlacesInv'
  <1> DEFINE s == Head(plan[c])
  <1>1. /\ lock = c /\ plan[c] # <<>>
        /\ UNCHANGED <<evBuf, artBuf, accepted, created, calls>>
    BY DEF Execute, buffers
  <1>2. CASE Refuses(s)
    <2>1. Raise(c, tx \/ s.do \in Dml)
      BY <1>2 DEF Execute
    <2>2. /\ plan' = [plan EXCEPT ![c] = <<>>] /\ todo' = [todo EXCEPT ![c] = <<>>]
          /\ conn' \in {conn, disk} /\ disk' = disk
      BY <2>1 DEF Raise
    <2> QED
      BY <1>1, <2>2, DropPlaces
  <1>3. CASE ~ Refuses(s)
    <2>1. Succeed(c, s)
      BY <1>3 DEF Execute
    <2> HIDE DEF s
    <2>2. s = Head(plan[c])
      BY DEF s
    <2> QED
      BY <1>1, <1>3, <2>1, <2>2, SucceedPlaces
  <1> QED
    BY <1>2, <1>3

LEMMA FaultPlaces ==
    ASSUME StoreInv, PlacesInv, NEW c \in Callers, Fault(c)
    PROVE  PlacesInv'
  <1> DEFINE s == Head(plan[c])
             p == plan[c]
  <1>1. lock = c /\ p # <<>> /\ UNCHANGED <<evBuf, artBuf, accepted, created, calls>>
    BY DEF Fault, buffers
  <1>2. CASE ~ (s.do = "put" /\ s.table = "telemetry_signals")
    <2>1. Raise(c, tx)
      BY <1>2 DEF Fault
    <2>2. /\ plan' = [plan EXCEPT ![c] = <<>>] /\ todo' = [todo EXCEPT ![c] = <<>>]
          /\ conn' \in {conn, disk} /\ disk' = disk
      BY <2>1 DEF Raise
    <2> QED
      BY <1>1, <2>2, DropPlaces
  <1>3. CASE s.do = "put" /\ s.table = "telemetry_signals"
    <2>1. plan' = [plan EXCEPT ![c] = Tail(p)] /\ UNCHANGED <<disk, conn, todo>>
      BY <1>3 DEF Fault
    <2>2. DOMAIN plan = Callers /\ p \in Seq({p[n] : n \in 1..Len(p)})
      BY DEF StoreInv, LockInv, PlanOK
    <2>3. plan'[c] = Tail(p) /\ \A d \in Callers \ {c} : plan'[d] = plan[d]
      BY <2>1, <2>2
    <2> HIDE DEF p
    <2>4. ASSUME NEW t \in Logs
          PROVE  PlacesOK(t)'
      <3>1. PlacesOK(t) /\ Given(t)' = Given(t) /\ \A r \in Runs : Buf(t, r)' = Buf(t, r)
        BY <1>1 DEF PlacesInv, Given, Buf
      <3>2. \A d \in Callers : WaitsOnce(todo[d], t) /\ WrittenOnce(plan[d], t)
        BY <3>1 DEF PlacesOK
      <3>3. Ahead(Tail(p), t) \subseteq Ahead(p, t) /\ WrittenOnce(Tail(p), t)
        <4>1. WrittenOnce(p, t)
          BY <3>2 DEF p
        <4>2. Ahead(p, t) = Written(p[1], t) \cup Ahead(Tail(p), t) /\ WrittenOnce(Tail(p), t)
          BY <1>1, <2>2, <4>1, TailAhead
        <4> QED
          BY <4>2
      <3>4. \A d \in Callers : /\ Ahead(plan'[d], t) \subseteq Ahead(plan[d], t)
                               /\ WrittenOnce(plan'[d], t)
        BY <2>3, <3>2, <3>3 DEF p
      <3>5. Stored(t)' = Stored(t) /\ todo' = todo
        BY <2>1 DEF Stored, Ids
      <3> QED
        BY <3>1, <3>2, <3>4, <3>5, PlacesShrink
    <2> QED
      BY <1>1, <2>4 DEF PlacesInv
  <1> QED
    BY <1>2, <1>3

LEMMA CutPlaces ==
    ASSUME StoreInv, PlacesInv, NEW c \in Callers, Cut(c)
    PROVE  PlacesInv'
  <1>1. /\ plan' = [plan EXCEPT ![c] = <<>>] /\ todo' = [todo EXCEPT ![c] = <<>>]
        /\ conn' \in {conn, disk} /\ disk' = disk
        /\ UNCHANGED <<evBuf, artBuf, accepted, created, calls>>
    BY DEF Cut, store, buffers
  <1> QED
    BY <1>1, DropPlaces

LEMMA SamePlaces ==
    ASSUME PlacesInv,
           UNCHANGED <<disk, conn, todo, plan, evBuf, artBuf, accepted, created, calls>>
    PROVE  PlacesInv'
  <1>1. ASSUME NEW t \in Logs
        PROVE  PlacesOK(t)'
    <2>1. PlacesOK(t) /\ Given(t)' = Given(t) /\ \A r \in Runs : Buf(t, r)' = Buf(t, r)
      BY DEF PlacesInv, Given, Buf
    <2>2. \A d \in Callers : WaitsOnce(todo[d], t) /\ WrittenOnce(plan[d], t)
      BY <2>1 DEF PlacesOK
    <2>3. Stored(t)' = Stored(t) /\ todo' = todo /\ plan' = plan
      BY DEF Stored, Ids
    <2> QED
      BY <2>1, <2>2, <2>3, PlacesShrink
  <1> QED
    BY <1>1 DEF PlacesInv

LEMMA NextPlaces ==
    ASSUME StoreInv, KeptInv, PlacesInv, [Next]_vars
    PROVE  PlacesInv'
  <1>1. CASE \E c \in Clients, k \in Calls : Call(c, k)
    BY <1>1, CallPlaces
  <1>2. CASE \E c \in Recorders, r \in Runs, e \in Events : save_run_health_event(c, r, e)
    <2>1. PICK c \in Recorders, r \in Runs, e \in Events : SaveEvents(c, r, {<<r, e>>}, FALSE)
      BY <1>2 DEF save_run_health_event
    <2>2. \A x \in {<<r, e>>} : x[2] \in Events
      OBVIOUS
    <2> QED
      BY <2>1, <2>2, SaveEventsPlaces
  <1>3. CASE \E c \in Recorders, r \in Runs, e, f \in Events : save_run_health_events(c, r, e, f)
    <2>1. PICK c \in Recorders, r \in Runs, e, f \in Events :
             SaveEvents(c, r, {<<r, e>>, <<r, f>>}, TRUE)
      BY <1>3 DEF save_run_health_events
    <2>2. \A x \in {<<r, e>>, <<r, f>>} : x[2] \in Events
      OBVIOUS
    <2> QED
      BY <2>1, <2>2, SaveEventsPlaces
  <1>4. CASE \E c \in Recorders, r \in Runs, always \in BOOLEAN : save_artifact(c, r, always)
    BY <1>4, SaveArtifactPlaces
  <1>5. CASE \E c \in Recorders, R \in {{r} : r \in Runs} \cup {Runs} : flush_buffered_writes(c, R)
    <2>1. PICK c \in Recorders, R \in {{r} : r \in Runs} \cup {Runs} : flush_buffered_writes(c, R)
      BY <1>5
    <2>2. R \in SUBSET Runs /\ c \in Callers /\ DOMAIN todo = Callers
      BY CallerNames DEF StoreInv, LockInv
    <2>3. /\ todo' = [todo EXCEPT ![c] = Batches(R, evBuf, artBuf)]
          /\ evBuf' = Emptied(R, evBuf) /\ artBuf' = Emptied(R, artBuf)
          /\ UNCHANGED <<plan, conn, disk, accepted, created, calls>>
      BY <2>1 DEF flush_buffered_writes, store
    <2> QED
      BY <2>2, <2>3, FlushPlaces
  <1>6. CASE \E c \in Callers : Acquire(c) \/ Execute(c) \/ Fault(c) \/ Cut(c)
    BY <1>6, AcquirePlaces, ExecutePlaces, FaultPlaces, CutPlaces
  <1>7. CASE Crash
    BY <1>7, CrashPlaces
  <1>8. CASE FlushForStream
    <2>1. streamRun \in Runs /\ Watcher \in Callers /\ DOMAIN todo = Callers
      BY <1>8, CallerNames DEF FlushForStream, StoreInv, BufferInv, LockInv
    <2> DEFINE R == {streamRun}
    <2>2. /\ todo' = [todo EXCEPT ![Watcher] = Batches(R, evBuf, artBuf)]
          /\ evBuf' = Emptied(R, evBuf) /\ artBuf' = Emptied(R, artBuf)
          /\ UNCHANGED <<plan, conn, disk, accepted, created, calls>>
      BY <1>8 DEF FlushForStream, store
    <2>3. R \in SUBSET Runs
      BY <2>1
    <2> QED
      BY <2>1, <2>2, <2>3, FlushPlaces
  <1>9. CASE \/ \E r \in Runs : OpenStream(r)
             \/ ReadStatus \/ ListEvents \/ Wake
             \/ UNCHANGED vars
    <2>1. UNCHANGED <<disk, conn, todo, plan, evBuf, artBuf, accepted, created, calls>>
      BY <1>9 DEF OpenStream, ReadStatus, ListEvents, Wake, vars, store, buffers
    <2> QED
      BY <2>1, SamePlaces
  <1> QED
    BY <1>1, <1>2, <1>3, <1>4, <1>5, <1>6, <1>7, <1>8, <1>9 DEF Next, Streaming

LEMMA InitPlaces ==
    ASSUME Init
    PROVE  PlacesInv
  <1>1. PICK n \in StartColumns, status \in [Runs -> StartStatuses] :
          /\ n = 0 => status = [r \in Runs |-> "none"]
          /\ created = {r \in Runs : status[r] # "none"}
          /\ disk = [EmptyDb EXCEPT
                    !["runs"] = {Row("runs", r, r, status[r]) : r \in created},
                    !["run_health_events"] =
                        {Row("run_health_events", e, e[1], "") : e \in UNION {Initial(r) : r \in created}},
                    !["columns"] = {Row("columns", m, NoRun, "") : m \in 1..n},
                    !["schema_version"] = IF n = 0 THEN {} ELSE {Row("schema_version", n, NoRun, "")}]
    BY Zenon DEF Init
  <1>2. /\ conn = disk /\ todo = [c \in Callers |-> <<>>] /\ plan = Starting(disk)
        /\ evBuf = [r \in Runs |-> {}] /\ artBuf = [r \in Runs |-> {}]
        /\ accepted = {} /\ calls = 0
    BY DEF Init
  <1>3. DbOK(disk)
    BY InitKeeps DEF StoreInv, DiskInv
  <1>4. DOMAIN EmptyDb = Tables /\ \A t \in Tables : EmptyDb[t] = {}
    BY DEF EmptyDb
  <1>5. /\ EventIds(disk) \subseteq UNION {Initial(r) : r \in created}
        /\ Ids(disk, "artifacts") = {}
    <2> DEFINE E == UNION {Initial(r) : r \in created}
               db == disk
    <2>1. \E v : db["run_health_events"] = {Row("run_health_events", e, e[1], v) : e \in E}
      <3>1. db["run_health_events"] = {Row("run_health_events", e, e[1], "") : e \in E}
        BY <1>1, <1>4, TableNames, Zenon
      <3> QED
        BY <3>1, Zenon
    <2>2. db["artifacts"] = {}
      BY <1>1, <1>4, TableNames, Zenon
    <2> HIDE DEF E, db
    <2>3. PICK v : db["run_health_events"] = {Row("run_health_events", e, e[1], v) : e \in E}
      BY <2>1
    <2>4. \A e : Row("run_health_events", e, e[1], v).id[2] = e
      BY DEF Row
    <2>5. EventIds(db) \subseteq E
      BY <2>3, <2>4 DEF EventIds, Ids
    <2>6. Ids(db, "artifacts") = {}
      BY <2>2 DEF Ids
    <2> QED
      BY <2>5, <2>6 DEF E, db
  <1>6. ASSUME NEW d \in Callers, NEW t \in Logs
        PROVE  /\ Ahead(plan[d], t) = {} /\ WrittenOnce(plan[d], t)
               /\ Awaited(todo[d], t) = {} /\ WaitsOnce(todo[d], t)
    <2> DEFINE p == init_db(disk)
    <2>1. Quiet(p)
      BY <1>3, StartIsQuiet
    <2>2. plan[d] = (IF d = Server THEN p ELSE <<>>) /\ todo[d] = <<>>
      BY <1>2 DEF Starting
    <2> HIDE DEF p
    <2> QED
      BY <2>1, <2>2, QuietWritesNone, NothingAhead
  <1>7. ASSUME NEW t \in Logs
        PROVE  PlacesOK(t)
    <2>1. \A r \in Runs : Buf(t, r) = {}
      BY <1>2 DEF Buf
    <2>2. Stored(t) \subseteq Given(t)
      <3>1. CASE t = "run_health_events"
        BY <1>2, <1>5, <3>1 DEF Stored, Given, EventIds
      <3>2. CASE t = "artifacts"
        BY <1>2, <1>5, <3>2 DEF Stored
      <3> QED
        BY <3>1, <3>2 DEF Logs
    <2>3. \A p \in Places : p # <<"table", Nobody>> => At(p, t) = {}
      <3> SUFFICES ASSUME NEW p \in Places, p # <<"table", Nobody>>
                   PROVE  At(p, t) = {}
        OBVIOUS
      <3>1. CASE \E r \in Runs : p = <<"buffer", r>>
        BY <2>1, <3>1, AtPlaces
      <3>2. CASE \E c \in Callers : p = <<"waiting", c>>
        <4>1. PICK c \in Callers : p = <<"waiting", c>>
          BY <3>2
        <4>2. At(p, t) = Awaited(todo[c], t)
          BY <4>1, AtPlaces
        <4> QED
          BY <1>6, <4>2
      <3>3. CASE \E c \in Callers : p = <<"ahead", c>>
        <4>1. PICK c \in Callers : p = <<"ahead", c>>
          BY <3>3
        <4>2. At(p, t) = Ahead(plan[c], t)
          BY <4>1, AtPlaces
        <4> QED
          BY <1>6, <4>2
      <3> QED
        BY <3>1, <3>2, <3>3 DEF Places
    <2>4. At(<<"table", Nobody>>, t) \subseteq Given(t)
      BY <2>2, AtPlaces
    <2>5. \A p \in Places : At(p, t) \subseteq Given(t)
      BY <2>3, <2>4
    <2>6. \A p, q \in Places : p # q => At(p, t) \cap At(q, t) = {}
      BY <2>3
    <2> QED
      BY <1>6, <2>5, <2>6 DEF PlacesOK
  <1> QED
    BY <1>2, <1>7 DEF PlacesInv

-----------------------------------------------------------------------------
(* No event is dropped *)

\* A flush of the runs R takes all that their buffers have.
LEMMA FlushedIsAwaited ==
    ASSUME NEW t \in Logs, PlacesOK(t), NEW c \in Callers, NEW R \in SUBSET Runs,
           NEW ev, NEW art, NEW M, Flushes(t, c, R, ev, art, M)
    PROVE  M \cup UNION {Buf(t, r) : r \in R} \subseteq Awaited(todo'[c], t)
  <1> DEFINE b == Batches(R, ev, art)
  <1>1. \A r, s \in Runs : r # s => Buf(t, r) \cap Buf(t, s) = {}
    BY ApartPlaces
  <1>2. /\ M = {} \/ \E s : R = {s}
        /\ \A r \in R : Slot(t, ev, art, r) = Buf(t, r) \cup M
        /\ todo'[c] = b
    BY DEF Flushes
  <1>3. SlotsApart(t, ev, art, R)
    <2> SUFFICES ASSUME NEW r \in R, NEW s \in R, r # s
                 PROVE  (Buf(t, r) \cup M) \cap (Buf(t, s) \cup M) = {}
      BY <1>2 DEF SlotsApart
    <2>1. M = {}
      BY <1>2
    <2>2. Buf(t, r) \cap Buf(t, s) = {}
      BY <1>1
    <2> QED
      BY <2>1, <2>2
  <1>4. Awaited(b, t) = UNION {Slot(t, ev, art, r) : r \in R}
    BY <1>3, BatchesHold
  <1> HIDE DEF b
  <1>5. \A r \in R : Buf(t, r) \cup M \subseteq Awaited(b, t)
    BY <1>2, <1>4
  <1> QED
    BY <1>2, <1>5

\* Steps beside the database: what leaves a buffer is in a batch.
Besides(c, M) ==
    /\ M \cap Given("run_health_events") = {} /\ \A e \in M : e[2] \in Events
    /\ accepted' = accepted \cup M
    /\ Idle(c) \/ todo'[c] = todo[c]
    /\ \A d \in Callers \ {c} : todo'[d] = todo[d]
    /\ Buffered \cup M \subseteq Buffered' \cup Awaited(todo'[c], "run_health_events")
    /\ UNCHANGED <<plan, conn, disk, gone, cuts>>
    /\ stream' # "list" => Idle(Watcher)'

LEMMA BesidesKept ==
    ASSUME KeptInv, PlacesInv, NEW c \in Callers, NEW M, Besides(c, M)
    PROVE  KeptInv'
  <1> DEFINE h == "run_health_events"
  <1>1. PlacesOK(h)
    BY LogNames DEF PlacesInv
  <1>2. /\ \A d \in Callers : Ahead(plan[d], h) \subseteq Given(h)
        /\ Stored(h) \subseteq Given(h)
    BY <1>1, ApartPlaces
  <1>3. /\ M \cap Given(h) = {} /\ accepted' = accepted \cup M
        /\ Idle(c) \/ todo'[c] = todo[c]
        /\ \A d \in Callers \ {c} : todo'[d] = todo[d]
        /\ UNCHANGED <<plan, conn, disk, gone, cuts>>
    BY DEF Besides
  <1>4. cuts' \in Nat /\ (\A e \in accepted' : e[2] \in Events) /\ (stream' # "list" => Idle(Watcher)')
    BY <1>3 DEF Besides, KeptInv, FlushInv
  <1>5. ASSUME NEW d \in Callers
        PROVE  plan'[d] # <<>> /\ (todo'[d] # <<>> \/ d = Watcher) => Flushing(plan'[d])
    <2>1. CASE d = c /\ Idle(c)
      BY <1>3, <2>1 DEF Idle
    <2>2. CASE todo'[d] = todo[d]
      BY <1>3, <2>2 DEF KeptInv, FlushInv
    <2> QED
      BY <1>3, <2>1, <2>2
  <1>6. ASSUME NEW d \in Callers, Ahead(plan'[d], h) \cap accepted' # {}
        PROVE  Flushing(plan'[d])
    <2>1. Ahead(plan[d], h) \cap accepted # {}
      BY <1>2, <1>3, <1>6
    <2> QED
      BY <1>3, <2>1 DEF KeptInv, FlushInv
  <1>7. ASSUME cuts' = 0
        PROVE  accepted' \subseteq Known' /\ Rescuable'
    <2>1. accepted \subseteq Known /\ Rescuable
      BY <1>3, <1>7 DEF KeptInv, FlushInv
    <2>2. EventIds(conn)' = EventIds(conn) /\ InGroups' = InGroups /\ gone' = gone
      BY <1>3 DEF InGroups
    <2>3. Buffered \cup M \subseteq Buffered' \cup Awaited(todo'[c], h)
      BY DEF Besides
    <2>4. Awaited(todo'[c], h) \subseteq Waiting' /\ Waiting \subseteq Waiting'
      <3>1. Waiting' = UNION {Awaited(todo'[d], h) : d \in Callers}
        BY DEF Waiting, Awaited
      <3>2. Idle(c) => Awaited(todo[c], h) = {}
        BY NothingAhead DEF Idle
      <3>3. \A d \in Callers : Awaited(todo[d], h) \subseteq Awaited(todo'[d], h)
        BY <1>3, <3>2
      <3> HIDE DEF h
      <3>4. Waiting = UNION {Awaited(todo[d], h) : d \in Callers}
        BY DEF Waiting, h
      <3> QED
        BY <3>1, <3>3, <3>4
    <2>5. Known \cup M \subseteq Known'
      BY <2>2, <2>3, <2>4 DEF Known
    <2>6. Rescuable'
      <3>1. accepted' \cap EventIds(conn) = accepted \cap EventIds(conn)
        BY <1>2, <1>3 DEF Stored, EventIds
      <3>2. EventIds(conn)' = EventIds(conn) /\ EventIds(disk)' = EventIds(disk)
        BY <1>3
      <3>3. (\E d \in Callers : Committing(plan[d])) => \E d \in Callers : Committing(plan'[d])
        BY <1>3
      <3>4. Rescuable' <=> \/ accepted' \cap EventIds(conn)' \subseteq EventIds(disk)'
                           \/ \E d \in Callers : Committing(plan'[d])
        BY DEF Rescuable, Committing
      <3> QED
        BY <2>1, <3>1, <3>2, <3>3, <3>4 DEF Rescuable
    <2> QED
      BY <1>3, <2>1, <2>5, <2>6
  <1>8. \A d \in Callers : Flushing(plan[d])' <=> Flushing(plan'[d])
    BY DEF Flushing, Committing
  <1>9. \A d \in Callers : Ahead(plan[d], h)' = Ahead(plan'[d], h)
    BY DEF Ahead
  <1> QED
    BY <1>4, <1>5, <1>6, <1>7, <1>8, <1>9 DEF KeptInv, FlushInv

\* What is flushed is all that leaves the buffers.
LEMMA FlushedIsKept ==
    ASSUME PlacesInv, NEW c \in Callers, NEW R \in SUBSET Runs, NEW ev, NEW art, NEW M,
           Flushes("run_health_events", c, R, ev, art, M)
    PROVE  Buffered \cup M \subseteq Buffered' \cup Awaited(todo'[c], "run_health_events")
  <1> DEFINE h == "run_health_events"
  <1>1. h \in Logs /\ PlacesOK(h)
    BY LogNames DEF PlacesInv
  <1>2. M \cup UNION {Buf(h, r) : r \in R} \subseteq Awaited(todo'[c], h)
    BY <1>1, FlushedIsAwaited
  <1>3. \A r \in Runs : Buf(h, r)' = IF r \in R THEN {} ELSE Buf(h, r)
    BY DEF Flushes
  <1>4. \A r \in Runs : Buf(h, r) = evBuf[r] /\ Buf(h, r)' = evBuf'[r]
    BY LogNames
  <1>5. ASSUME NEW r \in Runs, NEW e \in evBuf[r]
        PROVE  e \in Buffered' \cup Awaited(todo'[c], h)
    <2>1. CASE r \in R
      BY <1>2, <1>4, <1>5, <2>1
    <2>2. CASE r \notin R
      <3>1. e \in evBuf'[r]
        BY <1>3, <1>4, <1>5, <2>2
      <3> QED
        BY <3>1 DEF Buffered
    <2> QED
      BY <2>1, <2>2
  <1>6. Buffered \subseteq Buffered' \cup Awaited(todo'[c], h)
    BY <1>5 DEF Buffered
  <1> QED
    BY <1>2, <1>6

LEMMA SaveEventsKept ==
    ASSUME StoreInv, KeptInv, PlacesInv, NEW c \in Recorders, NEW r \in Runs, NEW new,
           \A e \in new : e[2] \in Events, NEW always, SaveEvents(c, r, new, always)
    PROVE  KeptInv'
  <1> DEFINE grown == [evBuf EXCEPT ![r] = @ \cup new]
             q == Batches({r}, grown, artBuf)
             h == "run_health_events"
             R == {r}
  <1>1. /\ DOMAIN evBuf = Runs /\ DOMAIN todo = Callers
        /\ c \in Callers /\ c # Watcher
    BY CallerNames, StoreAssumption DEF StoreInv, BufferInv, LockInv
  <1>2. /\ Idle(c) /\ new \cap accepted = {} /\ accepted' = accepted \cup new
        /\ UNCHANGED <<plan, conn, disk, gone, cuts, created, stream>>
        /\ \/ evBuf' = grown /\ todo' = todo
           \/ evBuf' = Emptied(R, grown) /\ todo' = [todo EXCEPT ![c] = q]
    BY DEF SaveEvents, store, watch
  <1>3. new \cap Given(h) = {} /\ new \subseteq Given(h)' /\ Given(h) \subseteq Given(h)'
    <2>1. /\ Given(h) = accepted \cup UNION {Initial(s) : s \in created}
          /\ Given(h)' = accepted' \cup UNION {Initial(s) : s \in created'}
      BY DEF Given
    <2>2. \A s : \A e \in Initial(s) : e[2] \notin Events
      BY StoreAssumption DEF Initial
    <2> QED
      BY <1>2, <2>1, <2>2
  <1>4. \A s \in Runs : grown[s] = evBuf[s] \cup (IF s = r THEN new ELSE {})
    BY <1>1
  <1> HIDE DEF grown
  <1>5. \A d \in Callers \ {c} : todo'[d] = todo[d]
    BY <1>1, <1>2
  <1>6. Buffered \cup new \subseteq Buffered' \cup Awaited(todo'[c], h)
    <2>1. CASE evBuf' = grown /\ todo' = todo
      <3>1. \A s \in Runs : evBuf[s] \subseteq evBuf'[s]
        BY <1>4, <2>1
      <3>2. new \subseteq evBuf'[r]
        BY <1>4, <2>1
      <3> QED
        BY <3>1, <3>2 DEF Buffered
    <2>2. CASE evBuf' = Emptied(R, grown) /\ todo' = [todo EXCEPT ![c] = q]
      <3>1. R \in SUBSET Runs /\ \E s : R = {s}
        OBVIOUS
      <3>2. \A s \in R : Slot(h, grown, artBuf, s) = Buf(h, s) \cup new
        BY <1>4, LogNames DEF Slot
      <3>3. \A s \in Runs : Buf(h, s)' = IF s \in R THEN {} ELSE Buf(h, s)
        <4>1. \A s \in Runs : evBuf'[s] = IF s \in R THEN {} ELSE grown[s]
          BY <2>2 DEF Emptied
        <4>2. \A s \in Runs : evBuf'[s] = IF s \in R THEN {} ELSE evBuf[s]
          BY <1>4, <4>1
        <4> QED
          BY <4>2, LogNames
      <3>4. todo'[c] = Batches(R, grown, artBuf)
        BY <1>1, <2>2
      <3>5. UNCHANGED <<plan, conn, disk>>
        BY <1>2
      <3> HIDE DEF R, q
      <3>6. Flushes(h, c, R, grown, artBuf, new)
        BY <1>3, <1>5, <3>1, <3>2, <3>3, <3>4, <3>5 DEF Flushes
      <3> QED
        BY <1>1, <3>1, <3>6, FlushedIsKept
    <2> QED
      BY <1>2, <2>1, <2>2
  <1>7. stream' # "list" => Idle(Watcher)'
    <2>1. todo'[Watcher] = todo[Watcher] /\ plan' = plan /\ stream' = stream
      BY <1>1, <1>2, <1>5, CallerNames
    <2> QED
      BY <2>1 DEF KeptInv, FlushInv, Idle
  <1>8. Besides(c, new)
    BY <1>2, <1>3, <1>5, <1>6, <1>7 DEF Besides
  <1> QED
    BY <1>1, <1>8, BesidesKept

LEMMA SaveArtifactKept ==
    ASSUME StoreInv, KeptInv, PlacesInv, NEW c \in Recorders, NEW r \in Runs, NEW always,
           save_artifact(c, r, always)
    PROVE  KeptInv'
  <1> DEFINE grown == [artBuf EXCEPT ![r] = @ \cup {calls}]
             q == Batches({r}, evBuf, grown)
             h == "run_health_events"
             R == {r}
  <1>1. DOMAIN todo = Callers /\ c \in Callers /\ c # Watcher
    BY CallerNames, StoreAssumption DEF StoreInv, LockInv
  <1>2. /\ Idle(c)
        /\ UNCHANGED <<plan, conn, disk, gone, cuts, created, accepted, stream>>
        /\ \/ evBuf' = evBuf /\ todo' = todo
           \/ evBuf' = Emptied(R, evBuf) /\ todo' = [todo EXCEPT ![c] = q]
    BY DEF save_artifact, store, watch
  <1>3. Given(h)' = Given(h)
    BY <1>2 DEF Given
  <1> HIDE DEF grown
  <1>5. \A d \in Callers \ {c} : todo'[d] = todo[d]
    BY <1>1, <1>2
  <1>6. Buffered \cup {} \subseteq Buffered' \cup Awaited(todo'[c], h)
    <2>1. CASE evBuf' = evBuf
      BY <2>1 DEF Buffered
    <2>2. CASE evBuf' = Emptied(R, evBuf) /\ todo' = [todo EXCEPT ![c] = q]
      <3>1. R \in SUBSET Runs
        OBVIOUS
      <3>2. \A s \in R : Slot(h, evBuf, grown, s) = Buf(h, s) \cup {}
        BY LogNames DEF Slot
      <3>3. \A s \in Runs : Buf(h, s)' = IF s \in R THEN {} ELSE Buf(h, s)
        BY <2>2, LogNames DEF Emptied
      <3>4. todo'[c] = Batches(R, evBuf, grown)
        BY <1>1, <2>2
      <3>5. UNCHANGED <<plan, conn, disk>>
        BY <1>2
      <3> HIDE DEF R, q
      <3>6. Flushes(h, c, R, evBuf, grown, {})
        BY <1>3, <1>5, <3>2, <3>3, <3>4, <3>5 DEF Flushes
      <3> QED
        BY <1>1, <3>1, <3>6, FlushedIsKept
    <2> QED
      BY <1>2, <2>1, <2>2
  <1>7. stream' # "list" => Idle(Watcher)'
    <2>1. todo'[Watcher] = todo[Watcher] /\ plan' = plan /\ stream' = stream
      BY <1>1, <1>2, <1>5, CallerNames
    <2> QED
      BY <2>1 DEF KeptInv, FlushInv, Idle
  <1>8. Besides(c, {})
    BY <1>2, <1>5, <1>6, <1>7 DEF Besides
  <1> QED
    BY <1>1, <1>8, BesidesKept

LEMMA FlushKept ==
    ASSUME KeptInv, PlacesInv, NEW c \in Callers, Idle(c), DOMAIN todo = Callers,
           NEW R \in SUBSET Runs, todo' = [todo EXCEPT ![c] = Batches(R, evBuf, artBuf)],
           evBuf' = Emptied(R, evBuf), UNCHANGED <<plan, conn, disk, accepted, created, gone, cuts>>,
           stream' # "list" => c # Watcher /\ stream # "list"
    PROVE  KeptInv'
  <1> DEFINE h == "run_health_events"
  <1>1. Given(h)' = Given(h)
    BY DEF Given
  <1>2. \A s \in R : Slot(h, evBuf, artBuf, s) = Buf(h, s) \cup {}
    BY DEF Slot, Buf
  <1>3. \A s \in Runs : Buf(h, s)' = IF s \in R THEN {} ELSE Buf(h, s)
    BY LogNames DEF Emptied
  <1>4. /\ todo'[c] = Batches(R, evBuf, artBuf)
        /\ \A d \in Callers \ {c} : todo'[d] = todo[d]
    OBVIOUS
  <1>5. Flushes(h, c, R, evBuf, artBuf, {})
    BY <1>1, <1>2, <1>3, <1>4 DEF Flushes
  <1>6. Buffered \cup {} \subseteq Buffered' \cup Awaited(todo'[c], h)
    BY <1>5, FlushedIsKept
  <1>7. stream' # "list" => Idle(Watcher)'
    <2>1. stream' # "list" => todo'[Watcher] = todo[Watcher]
      BY <1>4, CallerNames
    <2> QED
      BY <2>1 DEF KeptInv, FlushInv, Idle
  <1>8. Besides(c, {})
    BY <1>4, <1>6, <1>7 DEF Besides
  <1> QED
    BY <1>8, BesidesKept

LEMMA StreamKept ==
    ASSUME StoreInv, KeptInv, PlacesInv,
           (\E r \in Runs : OpenStream(r)) \/ Streaming \/ UNCHANGED vars
    PROVE  KeptInv'
  <1>1. Watcher \in Callers /\ DOMAIN todo = Callers
    BY CallerNames DEF StoreInv, LockInv
  <1>2. CASE FlushForStream
    <2> DEFINE R == {streamRun}
    <2>1. R \in SUBSET Runs /\ Idle(Watcher)
      BY <1>2 DEF FlushForStream, StoreInv, BufferInv, KeptInv, FlushInv
    <2>2. /\ todo' = [todo EXCEPT ![Watcher] = Batches(R, evBuf, artBuf)]
          /\ evBuf' = Emptied(R, evBuf) /\ stream' = "list"
          /\ UNCHANGED <<plan, conn, disk, accepted, created, gone, cuts>>
      BY <1>2 DEF FlushForStream, store
    <2> HIDE DEF R
    <2> QED
      BY <1>1, <2>1, <2>2, FlushKept
  <1>3. CASE (\E r \in Runs : OpenStream(r)) \/ ReadStatus \/ ListEvents \/ Wake \/ UNCHANGED vars
    <2>1. /\ UNCHANGED <<disk, conn, todo, plan, evBuf, accepted, gone, cuts>>
          /\ stream' = stream \/ Idle(Watcher)
      BY <1>3 DEF OpenStream, ReadStatus, ListEvents, Wake, vars, store, buffers, KeptInv, FlushInv
    <2>2. Idle(Watcher)' = Idle(Watcher) /\ Buffered' = Buffered
      BY <2>1 DEF Idle, Buffered
    <2>3. stream' # "list" => Idle(Watcher)'
      BY <2>1, <2>2 DEF KeptInv, FlushInv
    <2>4. Besides(Watcher, {})
      BY <2>1, <2>2, <2>3 DEF Besides
    <2> QED
      BY <1>1, <2>4, BesidesKept
  <1> QED
    BY <1>2, <1>3 DEF Streaming

\* A coroutine that gets the lock: nobody is in a group.
LEMMA BegunIsKept ==
    ASSUME StoreInv, KeptInv, lock = Nobody, NEW c \in Callers, NEW p,
           plan'[c] = p, \A d \in Callers \ {c} : plan'[d] = <<>> /\ todo'[d] = todo[d],
           Awaited(todo[c], "run_health_events") \subseteq
               Awaited(todo'[c], "run_health_events") \cup Ahead(p, "run_health_events"),
           \/ Flushing(p)
           \/ /\ todo'[c] = <<>> /\ c # Watcher
              /\ Ahead(p, "run_health_events") \cap accepted = {},
           UNCHANGED <<conn, disk, evBuf, accepted, gone, cuts, stream>>,
           c = Watcher => stream = "list"
    PROVE  KeptInv'
  <1> DEFINE h == "run_health_events"
  <1>1. \A d \in Callers : plan[d] = <<>>
    BY NoPlans DEF StoreInv
  <1>2. cuts' \in Nat /\ \A e \in accepted' : e[2] \in Events
    BY DEF KeptInv, FlushInv
  <1>3. stream' # "list" => Idle(Watcher)'
    <2>1. stream' # "list" => plan'[Watcher] = <<>> /\ todo'[Watcher] = todo[Watcher]
      BY CallerNames
    <2> QED
      BY <2>1 DEF KeptInv, FlushInv, Idle
  <1>4. ASSUME NEW d \in Callers
        PROVE  plan'[d] # <<>> /\ (todo'[d] # <<>> \/ d = Watcher) => Flushing(plan'[d])
    OBVIOUS
  <1>5. ASSUME NEW d \in Callers, Ahead(plan'[d], h) \cap accepted' # {}
        PROVE  Flushing(plan'[d])
    <2>1. d # c => Ahead(plan'[d], h) = {}
      BY NothingAhead
    <2> QED
      BY <1>5, <2>1
  <1>6. ASSUME cuts' = 0
        PROVE  accepted' \subseteq Known' /\ Rescuable'
    <2>1. accepted \subseteq Known /\ Rescuable
      BY <1>6 DEF KeptInv, FlushInv
    <2>2. \A d \in Callers : ~ Committing(plan[d]) /\ Ahead(plan[d], h) = {}
      BY <1>1, NothingAhead DEF Committing
    <2>3. accepted \cap EventIds(conn) \subseteq EventIds(disk)
      BY <2>1, <2>2 DEF Rescuable
    <2>4. EventIds(conn)' = EventIds(conn) /\ EventIds(disk)' = EventIds(disk) /\ Buffered' = Buffered
      BY DEF Buffered
    <2>5. Rescuable'
      BY <2>3, <2>4 DEF Rescuable
    <2>6. InGroups = {}
      BY <2>2 DEF InGroups
    <2>7. Waiting \subseteq Waiting' \cup InGroups'
      <3>1. /\ Waiting' = UNION {Awaited(todo'[d], h) : d \in Callers}
            /\ InGroups' = UNION {Ahead(plan'[d], h) : d \in Callers}
        BY DEF Waiting, InGroups, Awaited, Ahead
      <3>2. Awaited(todo[c], h) \subseteq Awaited(todo'[c], h) \cup Ahead(plan'[c], h)
        OBVIOUS
      <3>3. \A d \in Callers \ {c} : Awaited(todo[d], h) = Awaited(todo'[d], h)
        OBVIOUS
      <3> HIDE DEF h
      <3>4. Waiting = UNION {Awaited(todo[d], h) : d \in Callers}
        BY DEF Waiting, h
      <3>5. ASSUME NEW d \in Callers
            PROVE  Awaited(todo[d], h) \subseteq Waiting' \cup InGroups'
        <4>1. CASE d = c
          BY <3>1, <3>2, <4>1
        <4>2. CASE d # c
          BY <3>1, <3>3, <4>2
        <4> QED
          BY <4>1, <4>2
      <3> QED
        BY <3>4, <3>5
    <2>8. Known \subseteq Known'
      BY <2>4, <2>6, <2>7 DEF Known
    <2> QED
      BY <2>1, <2>5, <2>8
  <1>7. \A d \in Callers : Flushing(plan[d])' <=> Flushing(plan'[d])
    BY DEF Flushing, Committing
  <1>8. \A d \in Callers : Ahead(plan[d], h)' = Ahead(plan'[d], h)
    BY DEF Ahead
  <1> QED
    BY <1>2, <1>3, <1>4, <1>5, <1>6, <1>7, <1>8 DEF KeptInv, FlushInv

LEMMA CallKept ==
    ASSUME StoreInv, KeptInv, PlacesInv, NEW c \in Clients, NEW k \in Calls, Call(c, k)
    PROVE  KeptInv'
  <1> DEFINE p == Group(k, conn)
             h == "run_health_events"
  <1>1. /\ Idle(c) /\ lock = Nobody /\ plan' = [plan EXCEPT ![c] = p] /\ todo' = todo
        /\ UNCHANGED <<conn, disk, evBuf, accepted, gone, cuts, stream>>
    BY DEF Call, Enter, store, buffers, watch
  <1>2. DOMAIN plan = Callers /\ c \in Callers /\ c # Watcher /\ \A d \in Callers : plan[d] = <<>>
    BY <1>1, CallerNames, StoreAssumption, NoPlans DEF StoreInv, LockInv
  <1>3. plan'[c] = p /\ \A d \in Callers \ {c} : plan'[d] = <<>> /\ todo'[d] = todo[d]
    BY <1>1, <1>2
  <1>4. Ahead(p, h) \cap accepted = {}
    <2>1. Ahead(p, h) \cap Given(h) = {}
      BY CallWrites, LogNames
    <2>2. accepted \subseteq Given(h)
      BY DEF Given
    <2> QED
      BY <2>1, <2>2
  <1>5. todo'[c] = <<>> /\ Awaited(todo[c], h) \subseteq Awaited(todo'[c], h)
    BY <1>1 DEF Idle
  <1> HIDE DEF p
  <1> QED
    BY <1>1, <1>2, <1>3, <1>4, <1>5, BegunIsKept

LEMMA AcquireKept ==
    ASSUME StoreInv, KeptInv, PlacesInv, NEW c \in Callers, Acquire(c)
    PROVE  KeptInv'
  <1> DEFINE b == Head(todo[c])
             k == [fn |-> IF b.events # {} THEN "write_events" ELSE "write_artifacts",
                   run |-> b.run,
                   ids |-> IF b.events # {} THEN b.events ELSE b.artifacts]
             p == Group(k, conn)
             rest == IF b.events # {} /\ b.artifacts # {}
                     THEN [todo[c] EXCEPT ![1].events = {}] ELSE Tail(todo[c])
             h == "run_health_events"
  <1>1. /\ todo[c] # <<>> /\ lock = Nobody /\ plan' = [plan EXCEPT ![c] = p]
        /\ todo' = [todo EXCEPT ![c] = rest]
        /\ UNCHANGED <<conn, disk, evBuf, accepted, gone, cuts, stream>>
    BY DEF Acquire, Enter, store, buffers, watch
  <1>2. /\ DOMAIN plan = Callers /\ DOMAIN todo = Callers /\ BatchesOK(todo[c])
        /\ \A d \in Callers : plan[d] = <<>>
    BY <1>1, NoPlans DEF StoreInv, LockInv, BufferInv
  <1>3. /\ k.fn \in {"write_events", "write_artifacts"}
        /\ k.fn = "write_events" <=> b.events # {}
        /\ k.ids = (IF b.events # {} THEN b.events ELSE b.artifacts)
    OBVIOUS
  <1>4. WaitsOnce(todo[c], h) /\ h \in Logs
    BY LogNames DEF PlacesInv, PlacesOK
  <1> DEFINE N == IF h = (IF b.events # {} THEN "run_health_events" ELSE "artifacts")
                  THEN IF b.events # {} THEN b.events ELSE b.artifacts ELSE {}
  <1>5. Awaited(todo[c], h) = N \cup Awaited(rest, h)
    <2> DEFINE w == todo[c]
    <2>1. w # <<>> /\ BatchesOK(w) /\ WaitsOnce(w, h)
      BY <1>1, <1>2, <1>4
    <2> HIDE DEF w
    <2>2. LET b0 == Head(w)
              rest0 == IF b0.events # {} /\ b0.artifacts # {}
                       THEN [w EXCEPT ![1].events = {}] ELSE Tail(w)
              N0 == IF h = (IF b0.events # {} THEN "run_health_events" ELSE "artifacts")
                    THEN IF b0.events # {} THEN b0.events ELSE b0.artifacts ELSE {}
          IN  /\ WaitsOnce(rest0, h)
              /\ Awaited(w, h) = N0 \cup Awaited(rest0, h)
              /\ Awaited(rest0, h) \cap N0 = {}
      BY <1>4, <2>1, BatchTaken
    <2> QED
      BY <2>2 DEF w
  <1> HIDE DEF k, b
  <1>6. Ahead(p, h) = N /\ Flushing(p)
    <2>1. /\ Ahead(p, h) =
                 IF h = (IF k.fn = "write_events" THEN "run_health_events" ELSE "artifacts")
                 THEN k.ids ELSE {}
          /\ Flushing(p)
      BY <1>3, <1>4, FlushWrites
    <2> HIDE DEF p
    <2> QED
      BY <1>3, <2>1
  <1> HIDE DEF p, rest, N
  <1>7. /\ todo'[c] = rest /\ plan'[c] = p
        /\ \A d \in Callers \ {c} : plan'[d] = <<>> /\ todo'[d] = todo[d]
    BY <1>1, <1>2
  <1>8. Awaited(todo[c], h) \subseteq Awaited(todo'[c], h) \cup Ahead(p, h)
    BY <1>5, <1>6, <1>7
  <1>9. c = Watcher => stream = "list"
    BY <1>1 DEF KeptInv, FlushInv, Idle
  <1> QED
    BY <1>1, <1>6, <1>7, <1>8, <1>9, BegunIsKept

\* The statements of a flush are never refused, and the last one is a commit.
LEMMA FlushIsNotRefused ==
    ASSUME StoreInv, PlacesInv, NEW c \in Callers, plan[c] # <<>>, Flushing(plan[c])
    PROVE  /\ ~ Refuses(Head(plan[c]))
           /\ Head(plan[c]).do \in {"commit", "insert"}
           /\ Tail(plan[c]) # <<>> => Committing(Tail(plan[c])) /\ Head(plan[c]).do = "insert"
  <1> DEFINE p == plan[c]
  <1>1. p \in Seq({p[n] : n \in 1..Len(p)}) /\ p # <<>> /\ Flushing(p)
    BY DEF StoreInv, LockInv, PlanOK
  <1>2. \A t \in Logs : Ahead(p, t) \cap Stored(t) = {}
    BY ApartPlaces DEF PlacesInv
  <1> HIDE DEF p
  <1>3. /\ Len(p) \in Nat /\ 1 \in 1..Len(p) /\ Head(p) = p[1]
        /\ Len(Tail(p)) = Len(p) - 1
        /\ \A n \in 1..Len(Tail(p)) : n + 1 \in 1..Len(p) /\ Tail(p)[n] = p[n + 1]
        /\ Tail(p) \in Seq({Tail(p)[n] : n \in 1..Len(Tail(p))})
    BY <1>1, TailOf
  <1>4. CASE Committing(p)
    <2>1. Head(p).do = "commit" /\ Len(Tail(p)) = 0
      BY <1>3, <1>4 DEF Committing, Commit
    <2>2. Tail(p) = <<>>
      <3> DEFINE q == Tail(p)
      <3>1. q \in Seq({q[n] : n \in 1..Len(q)}) /\ Len(q) = 0
        BY <1>3, <2>1
      <3> HIDE DEF q
      <3>2. q = <<>>
        BY <3>1
      <3> QED
        BY <3>2 DEF q
    <2>3. ~ Refuses(Head(p))
      BY <2>1 DEF Refuses, Refused
    <2> QED
      BY <2>1, <2>2, <2>3 DEF p
  <1>5. CASE Len(p) = 2 /\ p[1].do = "insert" /\ p[1].table \in Logs /\ p[2] = Commit
    <2> DEFINE s == p[1]
               t == p[1].table
    <2>1. Head(p) = s /\ s.do = "insert" /\ s.table = t /\ t \in Logs
      BY <1>3, <1>5
    <2>2. \A x \in s.rows : x.id[2] \in Ahead(p, t)
      <3>1. Written(s, t) = {x.id[2] : x \in s.rows}
        BY <2>1 DEF Written
      <3>2. Written(s, t) \subseteq Ahead(p, t)
        BY <1>3 DEF Ahead
      <3> QED
        BY <3>1, <3>2
    <2> HIDE DEF s, t
    <2>3. \A y \in conn[t] : y.id[2] \in Stored(t)
      BY DEF Stored, Ids
    <2>4. \A x \in s.rows, y \in conn[t] : x.id # y.id
      BY <1>2, <2>1, <2>2, <2>3
    <2>5. t \notin RunChildren
      BY <2>1 DEF Logs, RunChildren
    <2>6. ~ Refuses(s)
      BY <2>1, <2>4, <2>5 DEF Refuses, Refused
    <2>7. Committing(Tail(p))
      <3>1. Len(Tail(p)) = 1 /\ Tail(p)[1] = p[2]
        BY <1>3, <1>5
      <3> QED
        BY <1>5, <3>1 DEF Committing
    <2> QED
      BY <2>1, <2>6, <2>7 DEF p
  <1> QED
    BY <1>1, <1>4, <1>5 DEF Flushing

\* What FlushInv says of a coroutine that ends its group, or goes on with it
\* when it is no flush.
LEMMA OneDrops ==
    ASSUME StoreInv, FlushInv, NEW c \in Callers, NEW p,
           plan'[c] = p, \A d \in Callers \ {c} : plan'[d] = plan[d] /\ todo'[d] = todo[d],
           cuts' \in Nat, accepted' = accepted, c # Watcher => stream' = stream,
           \/ p = <<>> /\ todo'[c] = <<>>
           \/ Flushing(p) /\ (c = Watcher => stream' = stream /\ plan[c] # <<>>)
           \/ /\ todo'[c] = <<>> /\ c # Watcher
              /\ Ahead(p, "run_health_events") \cap accepted = {}
    PROVE  FlushInv'
  <1> DEFINE h == "run_health_events"
  <1>1. stream' # "list" => Idle(Watcher)'
    <2>1. CASE c = Watcher
      BY <2>1 DEF FlushInv, Idle
    <2>2. CASE c # Watcher
      BY <2>2, CallerNames DEF FlushInv, Idle
    <2> QED
      BY <2>1, <2>2
  <1>2. ASSUME NEW d \in Callers
        PROVE  plan'[d] # <<>> /\ (todo'[d] # <<>> \/ d = Watcher) => Flushing(plan'[d])
    BY DEF FlushInv
  <1>3. ASSUME NEW d \in Callers, Ahead(plan'[d], h) \cap accepted' # {}
        PROVE  Flushing(plan'[d])
    BY <1>3, NothingAhead DEF FlushInv
  <1>4. \A d \in Callers : Flushing(plan[d])' <=> Flushing(plan'[d])
    BY DEF Flushing, Committing
  <1>5. \A d \in Callers : Ahead(plan[d], h)' = Ahead(plan'[d], h)
    BY DEF Ahead
  <1> QED
    BY <1>1, <1>2, <1>3, <1>4, <1>5 DEF FlushInv

\* A coroutine that drops its group and its batches.
LEMMA DropsFlush ==
    ASSUME StoreInv, FlushInv, NEW c \in Callers,
           plan' = [plan EXCEPT ![c] = <<>>], todo' = [todo EXCEPT ![c] = <<>>],
           cuts' \in Nat, accepted' = accepted, c # Watcher => stream' = stream
    PROVE  FlushInv'
  <1> DEFINE p == <<>>
  <1>1. plan'[c] = p /\ p = <<>> /\ todo'[c] = <<>>
    BY DEF StoreInv, LockInv
  <1>2. \A d \in Callers \ {c} : plan'[d] = plan[d] /\ todo'[d] = todo[d]
    BY DEF StoreInv, LockInv
  <1> HIDE DEF p
  <1> QED
    BY <1>1, <1>2, OneDrops

\* What raises without a fault is no flush, and nothing waits behind it.
LEMMA RaiseKept ==
    ASSUME StoreInv, KeptInv, PlacesInv, NEW c \in Callers, lock = c, plan[c] # <<>>,
           Refuses(Head(plan[c])),
           plan' = [plan EXCEPT ![c] = <<>>], todo' = [todo EXCEPT ![c] = <<>>],
           conn' \in {conn, disk}, c # Watcher => stream' = stream,
           UNCHANGED <<disk, evBuf, accepted, gone, cuts>>
    PROVE  KeptInv'
  <1> DEFINE h == "run_health_events"
  <1>1. FlushInv'
    BY DropsFlush DEF KeptInv, FlushInv
  <1>2. ~ Flushing(plan[c])
    BY FlushIsNotRefused
  <1>3. todo[c] = <<>> /\ Ahead(plan[c], h) \cap accepted = {}
    BY <1>2 DEF KeptInv, FlushInv
  <1>4. \A d \in Callers \ {c} : plan[d] = <<>>
    BY DEF StoreInv, LockInv
  <1>5. \A d \in Callers : plan'[d] = <<>> /\ todo'[d] = todo[d]
    <2>1. DOMAIN plan = Callers /\ DOMAIN todo = Callers
      BY DEF StoreInv, LockInv
    <2>2. plan'[c] = <<>> /\ todo'[c] = <<>>
      BY <2>1
    <2>3. \A d \in Callers \ {c} : plan'[d] = plan[d] /\ todo'[d] = todo[d]
      BY <2>1
    <2> QED
      BY <1>3, <1>4, <2>2, <2>3
  <1>6. ASSUME cuts' = 0
        PROVE  accepted' \subseteq Known' /\ Rescuable'
    <2>1. accepted \subseteq Known /\ Rescuable
      BY <1>6 DEF KeptInv
    <2>2. \A d \in Callers : ~ Committing(plan[d])
      BY <1>2, <1>4 DEF Flushing, Committing
    <2>3. accepted \cap EventIds(conn) \subseteq EventIds(disk)
      BY <2>1, <2>2 DEF Rescuable
    <2>4. EventIds(conn)' \in {EventIds(conn), EventIds(disk)} /\ EventIds(disk)' = EventIds(disk)
      OBVIOUS
    <2>5. Rescuable'
      BY <2>3, <2>4 DEF Rescuable
    <2>6. InGroups \cap accepted = {}
      <3>1. \A d \in Callers : Ahead(plan[d], h) \cap accepted = {}
        BY <1>3, <1>4, NothingAhead
      <3> QED
        BY <3>1 DEF InGroups
    <2>7. Waiting' = Waiting /\ Buffered' = Buffered /\ gone' = gone
      <3>1. Waiting' = UNION {Awaited(todo'[d], h) : d \in Callers}
        BY DEF Waiting, Awaited
      <3>2. \A d \in Callers : Awaited(todo'[d], h) = Awaited(todo[d], h)
        BY <1>5
      <3>3. Waiting' = Waiting
        BY <3>1, <3>2 DEF Waiting
      <3> QED
        BY <3>3 DEF Buffered
    <2>8. accepted \cap EventIds(conn) \subseteq EventIds(conn)'
      BY <2>3, <2>4
    <2>9. accepted \subseteq Known'
      BY <2>1, <2>6, <2>7, <2>8 DEF Known
    <2> QED
      BY <2>5, <2>9
  <1> QED
    BY <1>1, <1>6 DEF KeptInv

\* After a fault or a cut nothing more is promised, but that flushes go on.
LEMMA CutKept ==
    ASSUME StoreInv, KeptInv, NEW c \in Callers, Cut(c)
    PROVE  KeptInv'
  <1>1. cuts \in Nat /\ FlushInv
    BY DEF KeptInv, FlushInv
  <1>2. /\ plan' = [plan EXCEPT ![c] = <<>>] /\ todo' = [todo EXCEPT ![c] = <<>>]
        /\ cuts' = cuts + 1 /\ accepted' = accepted /\ (c # Watcher => stream' = stream)
    BY DEF Cut, buffers
  <1>3. cuts' \in Nat /\ cuts' # 0
    BY <1>1, <1>2
  <1>4. FlushInv'
    BY <1>1, <1>2, <1>3, DropsFlush
  <1> QED
    BY <1>3, <1>4 DEF KeptInv

LEMMA CrashKept ==
    ASSUME StoreInv, KeptInv, Crash
    PROVE  KeptInv'
  <1> DEFINE h == "run_health_events"
             p == init_db(disk)
  <1>1. cuts \in Nat /\ \A e \in accepted : e[2] \in Events
    BY DEF KeptInv, FlushInv
  <1>2. /\ plan' = Starting(disk) /\ todo' = [c \in Callers |-> <<>>]
        /\ cuts' = cuts + 1 /\ accepted' = accepted
    BY DEF Crash
  <1>3. cuts' \in Nat /\ cuts' # 0
    BY <1>1, <1>2
  <1>4. Quiet(p)
    <2>1. DbOK(disk)
      BY DEF StoreInv, DiskInv
    <2> QED
      BY <2>1, StartIsQuiet
  <1>5. \A d \in Callers : plan'[d] = (IF d = Server THEN p ELSE <<>>) /\ todo'[d] = <<>>
    BY <1>2 DEF Starting
  <1> HIDE DEF p
  <1>6. \A d \in Callers : Ahead(plan'[d], h) = {}
    BY <1>4, <1>5, QuietWritesNone, NothingAhead, LogNames
  <1>7. Idle(Watcher)'
    BY <1>5, CallerNames DEF Idle
  <1>8. \A d \in Callers : plan'[d] # <<>> /\ (todo'[d] # <<>> \/ d = Watcher) => Flushing(plan'[d])
    BY <1>5, CallerNames
  <1>9. \A d \in Callers : Ahead(plan'[d], h) \cap accepted' # {} => Flushing(plan'[d])
    BY <1>6
  <1>10. \A d \in Callers : Flushing(plan[d])' <=> Flushing(plan'[d])
    BY DEF Flushing, Committing
  <1>11. \A d \in Callers : Ahead(plan[d], h)' = Ahead(plan'[d], h)
    BY DEF Ahead
  <1>12. FlushInv'
    BY <1>1, <1>2, <1>3, <1>7, <1>8, <1>9, <1>10, <1>11 DEF FlushInv
  <1> QED
    BY <1>3, <1>12 DEF KeptInv

\* A statement that is done: its events are in the table then.
LEMMA SucceedKept ==
    ASSUME StoreInv, KeptInv, PlacesInv, NEW c \in Callers, lock = c, plan[c] # <<>>,
           NEW s, s = Head(plan[c]), ~ Refuses(s), Succeed(c, s),
           UNCHANGED <<evBuf, accepted, cuts, stream>>
    PROVE  KeptInv'
  <1> DEFINE p == plan[c]
             q == Tail(p)
             h == "run_health_events"
  <1>1. DOMAIN plan = Callers /\ PlanOK(p, conn) /\ DbOK(conn) /\ ~ Refused(s, conn)
    BY DEF StoreInv, LockInv, DiskInv, Refuses
  <1>2. p \in Seq({p[n] : n \in 1..Len(p)}) /\ p # <<>>
    BY <1>1 DEF PlanOK
  <1>3. s = p[1]
    <2> HIDE DEF p
    <2>1. Head(p) = p[1]
      BY <1>2, TailOf
    <2> QED
      BY <2>1 DEF p
  <1>4. StatementOK(s) /\ Ready(s, conn)
    BY <1>1, <1>2, <1>3, HeadIsReady
  <1>5. Succeeded(s)
    BY <1>4, AfterSuccess
  <1>6. /\ plan'[c] = q /\ \A d \in Callers \ {c} : plan'[d] = plan[d]
        /\ todo' = todo
        /\ gone' = gone \cup (IF s.do = "delete" THEN EventIds(conn) \ EventIds(conn') ELSE {})
    BY <1>1 DEF Succeed
  <1>7. \A d \in Callers \ {c} : plan[d] = <<>>
    BY DEF StoreInv, LockInv
  <1>8. h \in Logs
    BY LogNames
  <1>9. Ahead(p, h) = Written(s, h) \cup Ahead(q, h)
    <2>1. WrittenOnce(p, h)
      BY <1>8 DEF PlacesInv, PlacesOK
    <2> HIDE DEF p
    <2> QED
      BY <1>2, <1>3, <2>1, TailAhead
  <1>10. /\ Flushing(p) => /\ s.do \in {"commit", "insert"}
                           /\ q # <<>> => Committing(q) /\ s.do = "insert"
         /\ Flushing(p) \/ (todo[c] = <<>> /\ c # Watcher /\ Ahead(p, h) \cap accepted = {})
    <2>1. Flushing(p) => /\ s.do \in {"commit", "insert"}
                         /\ q # <<>> => Committing(q) /\ s.do = "insert"
      BY FlushIsNotRefused
    <2>2. Flushing(p) \/ (todo[c] = <<>> /\ c # Watcher /\ Ahead(p, h) \cap accepted = {})
      BY DEF KeptInv, FlushInv
    <2> QED
      BY <2>1, <2>2
  <1>11. \A d \in Callers : Committing(plan[d]) => d = c
    BY <1>7 DEF Committing
  <1>12. Committing(p) => s.do = "commit"
    BY <1>3 DEF Committing, Commit
  <1> HIDE DEF p, q
  <1>13. FlushInv'
    <2>1. \/ Flushing(p) /\ q = <<>>
          \/ Flushing(q)
          \/ todo'[c] = <<>> /\ c # Watcher /\ Ahead(q, h) \cap accepted = {}
      BY <1>6, <1>9, <1>10 DEF Flushing
    <2>2. cuts' \in Nat /\ accepted' = accepted /\ stream' = stream /\ FlushInv
      BY DEF KeptInv, FlushInv
    <2>3. \A d \in Callers \ {c} : plan'[d] = plan[d] /\ todo'[d] = todo[d]
      BY <1>6
    <2>4. CASE Flushing(q)
      BY <1>6, <2>2, <2>3, <2>4, OneDrops
    <2>5. CASE todo'[c] = <<>> /\ c # Watcher /\ Ahead(q, h) \cap accepted = {}
      BY <1>6, <2>2, <2>3, <2>5, OneDrops
    <2>6. CASE Flushing(p) /\ q = <<>>
      <3>1. \A d \in Callers : plan'[d] = <<>> /\ todo'[d] = todo[d]
        BY <1>6, <1>7, <2>6
      <3>2. stream' # "list" => Idle(Watcher)'
        BY <2>2, <3>1, CallerNames DEF FlushInv, Idle
      <3>3. \A d \in Callers : Ahead(plan'[d], h) = {}
        BY <3>1, NothingAhead
      <3>4. \A d \in Callers : Ahead(plan[d], h)' = Ahead(plan'[d], h)
        BY DEF Ahead
      <3> QED
        BY <2>2, <3>1, <3>2, <3>3, <3>4 DEF FlushInv
    <2> QED
      BY <2>1, <2>4, <2>5, <2>6
  <1>14. ASSUME cuts' = 0
         PROVE  accepted' \subseteq Known' /\ Rescuable'
    <2>1. accepted \subseteq Known /\ Rescuable
      BY <1>14 DEF KeptInv
    <2>2. Waiting' = Waiting /\ Buffered' = Buffered
      BY <1>6 DEF Waiting, Awaited, Buffered
    <2>3. InGroups = Ahead(p, h) /\ InGroups' = Ahead(q, h)
      <3>1. \A d \in Callers \ {c} : Ahead(plan[d], h) = {} /\ Ahead(plan'[d], h) = {}
        BY <1>6, <1>7, NothingAhead
      <3>2. InGroups = Ahead(p, h)
        BY <3>1 DEF InGroups, p
      <3>3. InGroups' = UNION {Ahead(plan'[d], h) : d \in Callers}
        BY DEF InGroups, Ahead
      <3>4. UNION {Ahead(plan'[d], h) : d \in Callers} = Ahead(plan'[c], h)
        BY <3>1
      <3>5. Ahead(plan'[c], h) = Ahead(q, h)
        BY <1>6
      <3> QED
        BY <3>2, <3>3, <3>4, <3>5
    <2>4. Rescuable => (accepted \cap EventIds(conn) \subseteq EventIds(disk) \/ s.do = "commit")
      BY <1>11, <1>12 DEF Rescuable, p
    <2>5. Rescuable' <=> \/ accepted' \cap EventIds(conn)' \subseteq EventIds(disk)'
                         \/ \E d \in Callers : Committing(plan'[d])
      BY DEF Rescuable, Committing
    <2>6. /\ EventIds(conn)' = Ids(conn', h) /\ EventIds(disk)' = Ids(disk', h)
          /\ EventIds(conn) = Ids(conn, h) /\ EventIds(disk) = Ids(disk, h)
      BY DEF EventIds
    <2>7. s.do \in {"rollback", "commit"} => Written(s, h) = {}
      BY DEF Written
    <2> DEFINE C == Ids(conn, h)
               D == Ids(disk, h)
               C2 == Ids(conn', h)
               D2 == Ids(disk', h)
               W == Written(s, h)
    <2>8. CASE s.do = "commit"
      <3>1. C2 = C /\ D2 = C
        BY <1>5, <2>8 DEF Succeeded
      <3> HIDE DEF C, D, C2, D2, W
      <3>2. Rescuable'
        BY <2>5, <2>6, <3>1 DEF C, D, C2, D2
      <3>3. Known \subseteq Known'
        BY <1>6, <1>9, <2>2, <2>3, <2>6, <2>7, <2>8, <3>1 DEF Known, C, C2
      <3> QED
        BY <2>1, <3>2, <3>3
    <2>9. CASE s.do = "rollback"
      <3>1. C2 = D /\ D2 = D
        BY <1>5, <2>9 DEF Succeeded
      <3>2. accepted \cap C \subseteq D
        BY <2>1, <2>4, <2>6, <2>9
      <3> HIDE DEF C, D, C2, D2, W
      <3>3. Rescuable'
        BY <2>5, <2>6, <3>1 DEF C, D, C2, D2
      <3>4. accepted \cap Known \subseteq Known'
        BY <1>6, <1>9, <2>2, <2>3, <2>6, <2>7, <2>9, <3>1, <3>2 DEF Known, C, D, C2
      <3> QED
        BY <2>1, <3>3, <3>4
    <2>10. CASE s.do \notin {"commit", "rollback"}
      <3>1. C2 \subseteq C \cup W /\ (s.do # "delete" => C \cup W \subseteq C2)
        <4>1. conn' = Applied(s, conn)
          BY <1>5, <2>10 DEF Succeeded
        <4>2. /\ Ids(Applied(s, conn), h) \subseteq Ids(conn, h) \cup Written(s, h)
              /\ s.do # "delete" =>
                    Ids(conn, h) \cup Written(s, h) \subseteq Ids(Applied(s, conn), h)
          BY <1>1, <1>4, <1>8, AppliedIds
        <4> QED
          BY <4>1, <4>2
      <3>2. D2 = D \/ D2 = C2
        BY <1>5, <2>10 DEF Succeeded
      <3>3. s.do = "delete" => W = {}
        BY DEF Written
      <3>4. accepted \cap C \subseteq D
        BY <2>1, <2>4, <2>6, <2>10
      <3>5. s.do = "delete" => gone' = gone \cup (C \ C2)
        BY <1>6, <2>6
      <3>6. gone \subseteq gone'
        BY <1>6
      <3>7. W \cap accepted # {} => Committing(q)
        <4>1. W \cap accepted # {} => Flushing(p) /\ s.do \in {"put", "insert"}
          BY <1>9, <1>10 DEF Written
        <4>2. Flushing(p) /\ q = <<>> => Committing(p)
          <5>1. q = <<>> => Len(p) = 1
            <6>1. Len(q) = Len(p) - 1 /\ Len(p) \in Nat
              BY <1>2, TailOf DEF q
            <6>2. q = <<>> => Len(q) = 0
              OBVIOUS
            <6> DEFINE m == Len(p)
                       n == Len(q)
            <6>3. n = m - 1 /\ m \in Nat /\ (q = <<>> => n = 0)
              BY <6>1, <6>2
            <6> HIDE DEF m, n
            <6>4. q = <<>> => m = 1
              BY <6>3
            <6> QED
              BY <6>4 DEF m
          <5> QED
            BY <5>1 DEF Flushing
        <4> QED
          BY <1>10, <1>12, <4>1, <4>2
      <3> HIDE DEF C, D, C2, D2, W
      <3>8. C \cup W \subseteq C2 \cup gone'
        BY <3>1, <3>3, <3>5
      <3>9. Ahead(p, h) \subseteq C2 \cup gone' \cup Ahead(q, h)
        BY <1>9, <3>8 DEF W
      <3>10. Known \subseteq Known'
        BY <2>2, <2>3, <2>6, <3>6, <3>8, <3>9 DEF Known, C, C2
      <3>11. Rescuable'
        <4>1. CASE D2 = C2
          BY <2>5, <2>6, <4>1 DEF D2, C2
        <4>2. CASE W \cap accepted # {}
          BY <1>6, <2>5, <3>7, <4>2
        <4>3. CASE D2 = D /\ W \cap accepted = {}
          <5>1. accepted' \cap C2 \subseteq D2
            BY <3>1, <3>4, <4>3
          <5> QED
            BY <2>5, <2>6, <5>1 DEF D2, C2
        <4> QED
          BY <3>2, <4>1, <4>2, <4>3
      <3> QED
        BY <2>1, <3>10, <3>11
    <2> QED
      BY <2>8, <2>9, <2>10
  <1> QED
    BY <1>13, <1>14 DEF KeptInv

LEMMA ExecuteKept ==
    ASSUME StoreInv, KeptInv, PlacesInv, NEW c \in Callers, Execute(c)
    PROVE  KeptInv'
  <1> DEFINE s == Head(plan[c])
  <1>1. /\ lock = c /\ plan[c] # <<>>
        /\ UNCHANGED <<evBuf, accepted, cuts>>
        /\ stream' = IF c = Watcher /\ Refuses(s) THEN "broken" ELSE stream
    BY DEF Execute, buffers
  <1>2. CASE Refuses(s)
    <2>1. Raise(c, tx \/ s.do \in Dml)
      BY <1>2 DEF Execute
    <2>2. /\ plan' = [plan EXCEPT ![c] = <<>>] /\ todo' = [todo EXCEPT ![c] = <<>>]
          /\ conn' \in {conn, disk} /\ disk' = disk /\ gone' = gone
      BY <2>1 DEF Raise
    <2> QED
      BY <1>1, <1>2, <2>2, RaiseKept
  <1>3. CASE ~ Refuses(s)
    <2>1. Succeed(c, s) /\ stream' = stream
      BY <1>1, <1>3 DEF Execute
    <2> HIDE DEF s
    <2>2. s = Head(plan[c])
      BY DEF s
    <2> QED
      BY <1>1, <1>3, <2>1, <2>2, SucceedKept
  <1> QED
    BY <1>2, <1>3

LEMMA FaultKept ==
    ASSUME StoreInv, KeptInv, PlacesInv, NEW c \in Callers, Fault(c)
    PROVE  KeptInv'
  <1> DEFINE s == Head(plan[c])
             p == plan[c]
             h == "run_health_events"
  <1>1. /\ p # <<>> /\ cuts' = cuts + 1 /\ accepted' = accepted
        /\ stream' = IF c = Watcher THEN "broken" ELSE stream
    BY DEF Fault, buffers
  <1>2. cuts' \in Nat /\ cuts' # 0 /\ FlushInv
    BY <1>1 DEF KeptInv, FlushInv
  <1>3. CASE ~ (s.do = "put" /\ s.table = "telemetry_signals")
    <2>1. Raise(c, tx)
      BY <1>3 DEF Fault
    <2>2. plan' = [plan EXCEPT ![c] = <<>>] /\ todo' = [todo EXCEPT ![c] = <<>>]
      BY <2>1 DEF Raise
    <2>3. FlushInv'
      BY <1>1, <1>2, <2>2, DropsFlush
    <2> QED
      BY <1>2, <2>3 DEF KeptInv
  <1>4. CASE s.do = "put" /\ s.table = "telemetry_signals"
    <2> DEFINE q == Tail(p)
    <2>1. plan' = [plan EXCEPT ![c] = q] /\ todo' = todo
      BY <1>4 DEF Fault
    <2>2. DOMAIN plan = Callers /\ p \in Seq({p[n] : n \in 1..Len(p)}) /\ WrittenOnce(p, h)
      BY LogNames DEF StoreInv, LockInv, PlanOK, PlacesInv, PlacesOK
    <2>3. plan'[c] = q /\ \A d \in Callers \ {c} : plan'[d] = plan[d] /\ todo'[d] = todo[d]
      BY <2>1, <2>2
    <2>4. ~ Flushing(p)
      BY <1>1, <1>4, FlushIsNotRefused
    <2>5. todo[c] = <<>> /\ c # Watcher /\ Ahead(p, h) \cap accepted = {}
      BY <1>1, <1>2, <2>4 DEF FlushInv
    <2>6. Ahead(q, h) \subseteq Ahead(p, h)
      <3> HIDE DEF p
      <3>1. Ahead(p, h) = Written(p[1], h) \cup Ahead(Tail(p), h)
        BY <1>1, <2>2, TailAhead
      <3> QED
        BY <3>1
    <2> HIDE DEF p, q
    <2>7. todo'[c] = <<>> /\ Ahead(q, h) \cap accepted = {}
      BY <2>1, <2>5, <2>6
    <2>8. FlushInv'
      BY <1>1, <1>2, <2>3, <2>5, <2>7, OneDrops
    <2> QED
      BY <1>2, <2>8 DEF KeptInv
  <1> QED
    BY <1>3, <1>4

LEMMA InitKept ==
    ASSUME Init
    PROVE  KeptInv
  <1>1. /\ todo = [c \in Callers |-> <<>>] /\ plan = Starting(disk)
        /\ accepted = {} /\ cuts = 0
    BY DEF Init
  <1>2. Idle(Watcher)
    BY <1>1, CallerNames DEF Idle, Starting
  <1>3. ASSUME NEW c \in Callers, plan[c] # <<>>, todo[c] # <<>> \/ c = Watcher
        PROVE  FALSE
    BY <1>1, <1>2, <1>3 DEF Idle
  <1>4. FlushInv
    BY <1>1, <1>2, <1>3 DEF FlushInv
  <1>5. Rescuable
    BY <1>1 DEF Rescuable
  <1> QED
    BY <1>1, <1>4, <1>5 DEF KeptInv

LEMMA NextKept ==
    ASSUME StoreInv, KeptInv, PlacesInv, [Next]_vars
    PROVE  KeptInv'
  <1>1. CASE \E c \in Clients, k \in Calls : Call(c, k)
    BY <1>1, CallKept
  <1>2. CASE \E c \in Recorders, r \in Runs, e \in Events : save_run_health_event(c, r, e)
    <2>1. PICK c \in Recorders, r \in Runs, e \in Events : SaveEvents(c, r, {<<r, e>>}, FALSE)
      BY <1>2 DEF save_run_health_event
    <2> DEFINE new == {<<r, e>>}
    <2>2. \A x \in new : x[2] \in Events
      OBVIOUS
    <2> QED
      BY <2>1, <2>2, SaveEventsKept
  <1>3. CASE \E c \in Recorders, r \in Runs, e, f \in Events : save_run_health_events(c, r, e, f)
    <2>1. PICK c \in Recorders, r \in Runs, e, f \in Events :
             SaveEvents(c, r, {<<r, e>>, <<r, f>>}, TRUE)
      BY <1>3 DEF save_run_health_events
    <2> DEFINE new == {<<r, e>>, <<r, f>>}
    <2>2. \A x \in new : x[2] \in Events
      OBVIOUS
    <2> QED
      BY <2>1, <2>2, SaveEventsKept
  <1>4. CASE \E c \in Recorders, r \in Runs, always \in BOOLEAN : save_artifact(c, r, always)
    BY <1>4, SaveArtifactKept
  <1>6. CASE \E c \in Callers : Acquire(c) \/ Execute(c) \/ Fault(c) \/ Cut(c)
    BY <1>6, AcquireKept, ExecuteKept, FaultKept, CutKept
  <1>7. CASE Crash
    BY <1>7, CrashKept
  <1>5. CASE \E c \in Recorders, R \in {{r} : r \in Runs} \cup {Runs} : flush_buffered_writes(c, R)
    <2>1. PICK c \in Recorders, R \in {{r} : r \in Runs} \cup {Runs} : flush_buffered_writes(c, R)
      BY <1>5
    <2>2. R \in SUBSET Runs /\ c \in Callers /\ c # Watcher /\ DOMAIN todo = Callers
      BY CallerNames, StoreAssumption DEF StoreInv, LockInv
    <2>3. /\ todo' = [todo EXCEPT ![c] = Batches(R, evBuf, artBuf)]
          /\ evBuf' = Emptied(R, evBuf) /\ Idle(c) /\ stream' = stream
          /\ UNCHANGED <<plan, conn, disk, accepted, created, gone, cuts>>
      BY <2>1 DEF flush_buffered_writes, store, watch
    <2> QED
      BY <2>2, <2>3, FlushKept
  <1>8. CASE (\E r \in Runs : OpenStream(r)) \/ Streaming \/ UNCHANGED vars
    BY <1>8, StreamKept
  <1> QED
    BY <1>1, <1>2, <1>3, <1>4, <1>5, <1>6, <1>7, <1>8 DEF Next

\* The parts of the invariant together are the property: what a coroutine has
\* in flight is in its batches or in its group.
LEMMA KeptOnce ==
    ASSUME StoreInv, KeptInv, PlacesInv
    PROVE  EventsAreKeptOnce
  <1> DEFINE h == "run_health_events"
  <1>1. PlacesOK(h)
    BY LogNames DEF PlacesInv
  <1>2. \A r \in Runs : Buf(h, r) = evBuf[r]
    BY LogNames
  <1>3. ASSUME NEW c \in Callers
        PROVE  InFlight(c) = Awaited(todo[c], h) \cup Ahead(plan[c], h)
    <2> DEFINE q == todo[c]
               p == plan[c]
               E == {q[n].events : n \in 1..Len(q)}
               K == {m \in 1..Len(p) : p[m].do = "insert" /\ p[m].table = h}
               W == {{x.id[2] : x \in p[n].rows} : n \in K}
    <2>1. InFlight(c) = UNION (E \cup W)
      BY DEF InFlight
    <2>2. \A n \in 1..Len(p) : StatementOK(p[n])
      BY DEF StoreInv, LockInv, PlanOK
    <2>3. Awaited(q, h) = UNION E
      BY DEF Awaited, Part
    <2>4. Ahead(p, h) = UNION W
      <3> HIDE DEF p
      <3>1. \A n \in K : Written(p[n], h) = {x.id[2] : x \in p[n].rows}
        BY DEF Written
      <3>2. ASSUME NEW n \in 1..Len(p), Written(p[n], h) # {}
            PROVE  n \in K
        <4>1. p[n].do \in {"put", "insert"} /\ p[n].table = h
          BY <3>2 DEF Written
        <4>2. p[n].do # "put"
          BY <2>2, <4>1 DEF StatementOK, WritesOK
        <4> QED
          BY <4>1, <4>2
      <3> HIDE DEF K, h
      <3>3. K \subseteq 1..Len(p)
        BY DEF K
      <3>4. UNION W = UNION {Written(p[n], h) : n \in K}
        BY <3>1
      <3>5. UNION {Written(p[n], h) : n \in K} = Ahead(p, h)
        BY <3>2, <3>3 DEF Ahead
      <3> QED
        BY <3>4, <3>5
    <2> HIDE DEF E, W
    <2> QED
      BY <2>1, <2>3, <2>4 DEF q, p
  <1>4. EventIds(conn) \subseteq Stored(h)
    BY DEF EventIds, Stored
  <1>5. Buffered \cap EventIds(conn) = {}
    <2>1. \A r \in Runs : evBuf[r] \cap Stored(h) = {}
      BY <1>1, <1>2, ApartPlaces
    <2> QED
      BY <1>4, <2>1 DEF Buffered
  <1>6. ASSUME NEW c \in Callers
        PROVE  InFlight(c) \cap (Buffered \cup EventIds(conn)) = {}
    <2>1. /\ Awaited(todo[c], h) \cap Stored(h) = {} /\ Ahead(plan[c], h) \cap Stored(h) = {}
          /\ \A r \in Runs : Awaited(todo[c], h) \cap Buf(h, r) = {}
          /\ \A r \in Runs : Ahead(plan[c], h) \cap Buf(h, r) = {}
      BY <1>1, ApartPlaces
    <2>2. InFlight(c) \cap Stored(h) = {} /\ \A r \in Runs : InFlight(c) \cap evBuf[r] = {}
      BY <1>2, <1>3, <2>1
    <2> QED
      BY <1>4, <2>2 DEF Buffered
  <1>7. ASSUME NEW c \in Callers, NEW d \in Callers \ {c}
        PROVE  InFlight(c) \cap InFlight(d) = {}
    <2>1. /\ Awaited(todo[c], h) \cap Awaited(todo[d], h) = {}
          /\ Ahead(plan[c], h) \cap Ahead(plan[d], h) = {}
          /\ Ahead(plan[c], h) \cap Awaited(todo[d], h) = {}
          /\ Ahead(plan[d], h) \cap Awaited(todo[c], h) = {}
      BY <1>1, ApartPlaces
    <2>2. /\ InFlight(c) = Awaited(todo[c], h) \cup Ahead(plan[c], h)
          /\ InFlight(d) = Awaited(todo[d], h) \cup Ahead(plan[d], h)
      BY <1>3
    <2> QED
      BY <2>1, <2>2
  <1>8. cuts = 0 =>
            accepted \subseteq
                Buffered \cup EventIds(conn) \cup gone \cup UNION {InFlight(c) : c \in Callers}
    <2> DEFINE F == UNION {InFlight(c) : c \in Callers}
    <2>1. \A c \in Callers : Awaited(todo[c], h) \subseteq F /\ Ahead(plan[c], h) \subseteq F
      BY <1>3
    <2> HIDE DEF F
    <2>2. Waiting \subseteq F /\ InGroups \subseteq F
      BY <2>1 DEF Waiting, InGroups
    <2>3. cuts = 0 => accepted \subseteq Known
      BY DEF KeptInv
    <2>4. cuts = 0 => accepted \subseteq Buffered \cup EventIds(conn) \cup gone \cup F
      BY <2>2, <2>3 DEF Known
    <2> QED
      BY <2>4 DEF F
  <1> QED
    BY <1>5, <1>6, <1>7, <1>8 DEF EventsAreKeptOnce

\* A health event that was accepted is in one place at a time, a buffer, the
\* hands of one flushing coroutine or the table; and without a cancelled
\* coroutine, a failing statement or a crash it stays in one of them until its
\* run is archived.
THEOREM EventsStayKeptOnce == Spec => []EventsAreKeptOnce
  <1>1. Init => KeptInv /\ PlacesInv
    BY InitKept, InitPlaces
  <1>2. StoreInv /\ KeptInv /\ PlacesInv /\ [Next]_vars => (KeptInv /\ PlacesInv)'
    BY NextKept, NextPlaces
  <1>3. StoreInv /\ KeptInv /\ PlacesInv => EventsAreKeptOnce
    BY KeptOnce
  <1>4. Spec => []StoreInv
    BY StoreInvariant
  <1> QED
    BY <1>1, <1>2, <1>3, <1>4, PTL DEF Spec
=============================================================================
