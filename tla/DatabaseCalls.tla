--------------------------- MODULE DatabaseCalls ---------------------------
(***************************************************************************)
(* Scripts of one statement on one connection of a REPL session, each from *)
(* its type check to its answer: Engine.run_script up to the executor,     *)
(* Executor._ensure_connection, _execute_db_query, _execute_ddl and        *)
(* _execute_setup, and the standard module that serves the connection.     *)
(* Threads are the REPL's query threads: one the user waits for, and those *)
(* of cancelled queries, which run on.                                     *)
(***************************************************************************)
EXTENDS ConditionNodes, StatementChecks

CONSTANTS
    Threads,        \* the query threads alive at the same time
    Stmts,          \* names of the statements considered
    Stmt,           \* Stmt[s]: the statement
    Databases,      \* Databases[m]: what a database of module m may hold first
    MaxStatements   \* bound: statements submitted in a behaviour

\* The call of a statement: a let is one step with its call.
CallOf(stmt) == IF stmt.kind = "let" THEN stmt.args[1] ELSE stmt

WriteCommands == {"insert_row", "update", "delete", "insert_table"}
IsCall(stmt) ==
    /\ stmt.kind \in {"read", "write", "query", "view", "sync"}
    /\ stmt.kind = "read" => stmt.x.fields \in Seq(STRING)
    /\ stmt.kind = "write" => /\ stmt.x.command \in WriteCommands
                              /\ Values(stmt) \in Rows /\ stmt.x.fields \in Seq(Fields)

\* Tables have rows with identities, and there is a highest identity.
IsDatabase(d) ==
    /\ d = [tables |-> d.tables, views |-> d.views, links |-> d.links]
    /\ \A n \in DOMAIN d.tables :
          d.tables[n] = [columns |-> d.tables[n].columns, strict |-> d.tables[n].strict,
                         rows |-> d.tables[n].rows]

\* The rows of a PostgreSQL table have its columns, a document has an _id.
RowsFit(m, table) ==
    /\ table.rows \in [DOMAIN table.rows -> Rows]
    /\ Range(table.columns) \subseteq Fields
    /\ m = "postgresql" =>
          \A id \in DOMAIN table.rows : DOMAIN table.rows[id] = Range(table.columns)
    /\ m = "mongodb" => \A id \in DOMAIN table.rows : "_id" \in DOMAIN table.rows[id]

ASSUME CallsAssumption ==
    /\ {Null, ObjectId} \subseteq Contents /\ "_id" \in Fields
    /\ DOMAIN Stmt = Stmts
    /\ \A s \in Stmts : LET stmt == CallOf(Stmt[s]) IN
          /\ IsCall(stmt)
          /\ stmt.kind \in {"read", "write"} =>
                Where(stmt.x.where) \in Nodes /\ stmt.x.table \in Aliases
    /\ {"row", "n"} \subseteq Aliases
    /\ DOMAIN Databases = {"postgresql", "mongodb", "neo4j"}
    /\ \A m \in DOMAIN Databases : \A d \in Databases[m] :
          /\ IsDatabase(d) /\ \A n \in DOMAIN d.tables : RowsFit(m, d.tables[n])
          /\ \E last \in {0} \union Identities(d) : Identities(d) \subseteq 0..last
    /\ MaxStatements \in Nat

\* What UQAL says of a single row.
Meant(where, row) == TruthOf(Where(where), Single("row", row)) = "true"
FieldsIn(where) == {parts[1] : parts \in RefsIn(Where(where))}

\* Two numbers of one condition: on both sides of an AND or OR they get the
\* same parameter name.
NumbersClash(node) == Len(LeavesIn(node, "int")) > 1

\* Whether a module's database selects a row for a statement.
Selects(m, stmt, row) ==
    CASE m = "postgresql" -> PgSelects(stmt.x.where, stmt.x.table, row)
      [] m = "mongodb" -> FilterMatches(FilterOf(Where(stmt.x.where)), row, <<>>)
      [] m = "neo4j" -> NeoSelects(stmt.x.where, row)

\* Rows whose fields a condition compares alike in all databases: MongoDB's have
\* the fields, for a missing one is no null there, and neither these nor Neo4j's
\* hold anything but numbers in them.
Comparable(m, where, row) ==
    LET numbers == {f \in DOMAIN row : row[f] \in Nat}
    IN  /\ m = "neo4j" => FieldsIn(where) \intersect DOMAIN row \subseteq numbers
        /\ m = "mongodb" => FieldsIn(where) \subseteq numbers

\* Conditions all three modules are to understand: fields against literals, on
\* Neo4j at most one number (see NeoConditionsMean).
Understood(m, where) ==
    OnlyFieldsAndLiterals(Where(where)) /\ (m = "neo4j" => ~NumbersClash(where))

VARIABLES
    module,     \* the module of the connection
    db,         \* the contents of its database
    known,      \* ModuleRegistry's schema of the connection: [loaded, tables]
    native,     \* ConnectionConfig.native_connection is there
    opened,     \* native connections each thread has built
    thread,     \* thread[t]: the query it runs, or ran last
    submitted,  \* statements submitted so far
    created,    \* history: the views some create_view has created
    lost        \* history: those whose replacement failed

vars == <<module, db, known, native, opened, thread, submitted, created, lost>>

Phases == {"idle", "accepted", "building", "built", "connected",
           "dropping", "creating", "listed"}
Statuses == {"none", "rejected", "failed", "done"}

Init ==
    /\ module \in DOMAIN Databases
    /\ db \in Databases[module]
    /\ \/ known = [loaded |-> FALSE, tables |-> <<>>]
       \/ known = [loaded |-> TRUE,
                   tables |-> [n \in Listed(module, db) |-> Described(module, db, n)]]
    /\ native = FALSE
    /\ opened = [t \in Threads |-> 0]
    /\ thread = [t \in Threads |-> [phase |-> "idle", stmt |-> "", checked |-> FALSE,
                                    names |-> {}, status |-> "none", rows |-> <<>>]]
    /\ submitted = 0
    /\ created = DOMAIN db.views
    /\ lost = {}

\* The call a thread runs.
Body(t) == CallOf(Stmt[thread[t].stmt])

Goes(t, phase) == thread' = [thread EXCEPT ![t].phase = phase]
Ends(t, status, rows) ==
    thread' = [thread EXCEPT ![t].phase = "idle", ![t].status = status, ![t].rows = rows]

-----------------------------------------------------------------------------
\* run_script: the type check against the stored schema.
Submit(t, s) ==
    /\ thread[t].phase = "idle"
    /\ submitted < MaxStatements
    /\ LET errors == CheckCall(Stmt[s], <<>>, [connected |-> TRUE, loaded |-> known.loaded,
                                               tables |-> known.tables])
       IN  thread' = [thread EXCEPT ![t] =
                [phase |-> IF errors = NoErrors THEN "accepted" ELSE "idle",
                 stmt |-> s, checked |-> known.loaded, names |-> {},
                 status |-> IF errors = NoErrors THEN "none" ELSE "rejected", rows |-> <<>>]]
    /\ submitted' = submitted + 1
    /\ UNCHANGED <<module, db, known, native, opened, created, lost>>

\* _ensure_connection: the test, build_connection, which may fail, and the
\* registry's update, without a lock.
TestConnection(t) ==
    /\ thread[t].phase = "accepted"
    /\ Goes(t, IF native THEN "connected" ELSE "building")
    /\ UNCHANGED <<module, db, known, native, opened, submitted, created, lost>>

BuildConnection(t) ==
    /\ thread[t].phase = "building"
    /\ opened' = [opened EXCEPT ![t] = @ + 1]
    /\ Goes(t, "built")
    /\ UNCHANGED <<module, db, known, native, submitted, created, lost>>

\* Seeded fault: a connection that could not be built is stored.
BuildFailsStored(t) ==
    /\ thread[t].phase = "building"
    /\ native' = TRUE
    /\ Ends(t, "failed", <<>>)
    /\ UNCHANGED <<module, db, known, opened, submitted, created, lost>>

BuildFails(t) ==
    /\ thread[t].phase = "building"
    /\ Ends(t, "failed", <<>>)
    /\ UNCHANGED <<module, db, known, native, opened, submitted, created, lost>>

\* Seeded fault: the connection is not kept in the registry.
StoreNothing(t) ==
    /\ thread[t].phase = "built"
    /\ Goes(t, "connected")
    /\ UNCHANGED <<module, db, known, native, opened, submitted, created, lost>>

StoreConnection(t) ==
    /\ thread[t].phase = "built"
    /\ native' = TRUE
    /\ Goes(t, "connected")
    /\ UNCHANGED <<module, db, known, opened, submitted, created, lost>>

-----------------------------------------------------------------------------
\* _execute_db_query: translate, execute, unwrap.
RunQuery(t) ==
    /\ thread[t].phase = "connected"
    /\ Body(t).kind \in {"read", "write", "query"}
    /\ \E o \in Outcomes(module, Body(t), db) :
          /\ db' = o.db
          /\ Ends(t, o.status, o.rows)
    /\ UNCHANGED <<module, known, native, opened, submitted, created, lost>>

\* create_view: PostgreSQL's DROP VIEW IF EXISTS, an error for a table.
DropView(t) ==
    /\ thread[t].phase = "connected" /\ Body(t).kind = "view" /\ module = "postgresql"
    /\ IF IsTable(db, Body(t).x.name)
       THEN Ends(t, "failed", <<>>) /\ UNCHANGED db
       ELSE /\ Goes(t, "creating")
            /\ db' = [db EXCEPT !.views = Restrict(@, DOMAIN @ \ {Body(t).x.name})]
    /\ UNCHANGED <<module, known, native, opened, submitted, created, lost>>

\* MongoDB: list_collection_names lists collections and views ...  Either the
\* listing or the drop may raise, which is passed over and changes nothing.
ListNames(t) ==
    /\ thread[t].phase = "connected" /\ Body(t).kind = "view" /\ module = "mongodb"
    /\ \/ IsRelation(db, Body(t).x.name) /\ Goes(t, "dropping")
       \/ Goes(t, "creating")
    /\ UNCHANGED <<module, db, known, native, opened, submitted, created, lost>>

\* Seeded fault: create_view returns once it has dropped the old view.
DropListedAndReturn(t) ==
    /\ thread[t].phase = "dropping"
    /\ db' = [db EXCEPT !.views = Restrict(@, DOMAIN @ \ {Body(t).x.name})]
    /\ Ends(t, "done", <<>>)
    /\ UNCHANGED <<module, known, native, opened, submitted, created, lost>>

\* ... and drop drops either.
DropListed(t) ==
    /\ thread[t].phase = "dropping"
    /\ LET name == Body(t).x.name
       IN  db' = [db EXCEPT !.views = Restrict(@, DOMAIN @ \ {name}),
                            !.tables = Restrict(@, DOMAIN @ \ {name})]
    /\ Goes(t, "creating")
    /\ UNCHANGED <<module, known, native, opened, submitted, created, lost>>

NoViews(t) ==
    /\ thread[t].phase = "connected" /\ Body(t).kind = "view" /\ module = "neo4j"
    /\ Ends(t, "failed", <<>>)
    /\ UNCHANGED <<module, db, known, native, opened, submitted, created, lost>>

CreateView(t) ==
    /\ thread[t].phase = "creating"
    /\ LET name == Body(t).x.name
       IN  \E o \in IF module = "postgresql" THEN PgCreateView(Body(t), db)
                    ELSE MongoCreateView(Body(t), db) :
              /\ db' = o.db
              /\ Ends(t, o.status, <<>>)
              /\ created' = IF o.status = "done" THEN created \union {name} ELSE created
              /\ lost' = IF o.status = "done" THEN lost \ {name}
                         ELSE lost \union ((created \intersect {name}) \ DOMAIN db.views)
    /\ UNCHANGED <<module, known, native, opened, submitted>>

\* sync_schema: the names of the tables, then table by table their fields.
ListTables(t) ==
    /\ thread[t].phase = "connected" /\ Body(t).kind = "sync"
    /\ thread' = [thread EXCEPT ![t].phase = "listed", ![t].names = Listed(module, db)]
    /\ UNCHANGED <<module, db, known, native, opened, submitted, created, lost>>

DescribeTables(t) ==
    /\ thread[t].phase = "listed"
    /\ known' = [loaded |-> TRUE,
                 tables |-> [n \in thread[t].names |-> Described(module, db, n)]]
    /\ Ends(t, "done", <<>>)
    /\ UNCHANGED <<module, db, native, opened, submitted, created, lost>>

Next ==
    \E t \in Threads :
        \/ \E s \in Stmts : Submit(t, s)
        \/ TestConnection(t)
        \/ BuildConnection(t)
        \/ BuildFails(t)
        \/ StoreConnection(t)
        \/ RunQuery(t)
        \/ DropView(t)
        \/ ListNames(t)
        \/ DropListed(t)
        \/ NoViews(t)
        \/ CreateView(t)
        \/ ListTables(t)
        \/ DescribeTables(t)

Spec == Init /\ [][Next]_vars
-----------------------------------------------------------------------------
\* Type invariant of the session's own state: _ensure_connection, _execute_ddl
\* and _execute_setup move a query only between these phases.
CallsTypeOK ==
    /\ module \in DOMAIN Databases
    /\ known.loaded \in BOOLEAN
    /\ known.loaded => \A n \in DOMAIN known.tables :
            known.tables[n].flexible => module = "mongodb"
    /\ native \in BOOLEAN
    /\ native => \E t \in Threads : opened[t] > 0
    /\ \A t \in Threads :
          /\ thread[t].phase \in Phases /\ thread[t].status \in Statuses
          /\ thread[t].phase = "dropping" => module = "mongodb"
          /\ thread[t].phase \in {"dropping", "creating"} => Body(t).kind = "view"
    /\ submitted \in 0..MaxStatements

MeantIds(stmt, rows) == {id \in DOMAIN rows : Meant(stmt.x.where, rows[id])}

\* Statements all three modules are to answer alike, about these rows.
Common(stmt, rows) ==
    /\ Understood(module, stmt.x.where)
    /\ stmt.x.command = "get_value" => stmt.x.fields # <<>>
    /\ \A id \in DOMAIN rows :
          /\ Comparable(module, stmt.x.where, rows[id])
          /\ module = "mongodb" => Range(stmt.x.fields) \subseteq DOMAIN rows[id]

Answers(t, kind, status) ==
    /\ thread[t].phase = "connected" /\ Body(t).kind = kind
    /\ thread'[t].phase = "idle" /\ thread'[t].status = status

\* One row of an answer is this row of the table.
Shows(stmt, answer, row) ==
    LET content == IF module = "neo4j" /\ stmt.x.fields = <<>> THEN answer["n"] ELSE answer
        fields == IF stmt.x.fields = <<>> THEN DOMAIN row ELSE Range(stmt.x.fields)
    IN  IF stmt.x.command = "get_value" THEN answer.value = FieldOf(row, stmt.x.fields[1])
        ELSE \A f \in fields : content[f] = FieldOf(row, f)

ShowsMeant(stmt, answer, rows) ==
    LET ids == MeantIds(stmt, rows)
    IN  IF stmt.x.command \in {"get_value", "get_row"}
        THEN IF ids = {} THEN answer = <<>> ELSE \E id \in ids : Shows(stmt, answer[1], rows[id])
        ELSE /\ Len(answer) = Cardinality(ids)
             /\ \A id \in ids : \E i \in DOMAIN answer : Shows(stmt, answer[i], rows[id])

\* A read of a table is answered with the fields asked for of exactly the rows
\* the condition is true of (one of them for get_value and get_row), through
\* placeholders, named parameters or a filter document, and _execute_db_query's
\* unwrapping.
ReadsAreRight ==
    [][\A t \in Threads :
          LET stmt == Body(t)
          IN  Answers(t, "read", "done") /\ IsTable(db, stmt.x.table) =>
                LET rows == db.tables[stmt.x.table].rows
                IN  Common(stmt, rows) => ShowsMeant(stmt, thread'[t].rows, rows)]_vars

\* Of the rows that exist, those a write leaves as they are, changes and deletes.
WriteDoes(stmt, before, after) ==
    LET ids == MeantIds(stmt, before)
        hit == IF module = "mongodb" /\ ids # {} THEN {{id} : id \in ids}
               ELSE {ids}
    IN  \E touched \in hit :
            IF stmt.x.command = "delete" THEN after = Restrict(before, DOMAIN before \ touched)
            ELSE /\ DOMAIN after = DOMAIN before
                 /\ \A id \in DOMAIN before :
                        after[id] = IF id \in touched THEN Over(Values(stmt), before[id]) ELSE before[id]

Writes(t, name) == /\ Answers(t, "write", "done") /\ Body(t).x.table = name
                   /\ Body(t).x.command \in {"update", "delete"}

\* update and delete change every row their condition is true of (on MongoDB,
\* whose module calls update_one and delete_one, one of them) and no other row
\* of their table.
WritesAreRight ==
    [][\A name \in DOMAIN db.tables \intersect DOMAIN db'.tables : \A t \in Threads :
          LET before == db.tables[name].rows
          IN  Writes(t, name) /\ Common(Body(t), before) =>
                WriteDoes(Body(t), before, db'.tables[name].rows)]_vars

KeepsRows(before, after) == \A id \in DOMAIN before : id \in DOMAIN after /\ after[id] = before[id]

\* A row of a table that stays is changed or deleted only by an update or
\* delete of this table that succeeds: not by one that fails, by a statement
\* about another table, by an insert, or by a create_view.
OtherRowsUntouched ==
    [][\A name \in DOMAIN db.tables \intersect DOMAIN db'.tables :
          \/ \E t \in Threads : Writes(t, name)
          \/ KeepsRows(db.tables[name].rows, db'.tables[name].rows)]_vars

\* What a query block means: one row for each choice of a row per alias that
\* all conditions are true of; a traversal is true of the two nodes it names.
BlockHolds(aliases, ids) ==
    LET env == Env(db, aliases, ids)
        Of(name) == ids[CHOOSE i \in DOMAIN aliases : aliases[i].alias = name]
    IN  \A i \in DOMAIN aliases :
            LET where == aliases[i].where
            IN  IF where.kind = "rel"
                THEN [source |-> Of(where.x.source), type |-> where.x.type,
                      target |-> Of(where.x.target)] \in db.links
                ELSE TruthOf(Where(where), env) = "true"

\* Literals in the conditions of the first alias or of the others, not both;
\* each traversal is Neo4j's and goes from the alias before it to its own.
Straight(aliases) ==
    /\ LET literal(i) == \E kind \in {"int", "bool"} : LeavesIn(aliases[i].where, kind) # <<>>
       IN  literal(1) => \A i \in 2..Len(aliases) : ~literal(i)
    /\ module = "neo4j" => ~NumbersClash(aliases[1].where)
    /\ \A i \in DOMAIN aliases : aliases[i].where.kind = "rel" =>
            /\ module = "neo4j" /\ i > 1
            /\ aliases[i].where.x.source = aliases[i - 1].alias
            /\ aliases[i].where.x.target = aliases[i].alias

\* A query block that is answered is answered with the join it describes:
\* PostgreSQL's JOIN ... ON with the parameters of all conditions in one tuple,
\* Neo4j's single path pattern.
JoinsAreRight ==
    [][\A t \in Threads :
          LET aliases == Body(t).x.aliases
              answer == thread'[t].rows
              picks == {ids \in Picks(db, aliases) : BlockHolds(aliases, ids)}
              Row(ids) == RowOf(FieldNames(Body(t).x.returns), ReturnedRefs(Body(t).x.returns),
                                Env(db, aliases, ids))
          IN  Answers(t, "query", "done") /\ Straight(aliases) =>
                /\ Len(answer) = Cardinality(picks)
                /\ Range(answer) = {Row(ids) : ids \in picks}]_vars

\* A read that passed the type checker against a loaded schema fails in the
\* database only for what the checker does not look at: the name of a view, which
\* may be gone since or another's, a name in its condition that is no field, the
\* first field of a table without any, an operand Cypher has no form for, a field
\* some document of a view has not.
ReadIsUnchecked(stmt) ==
    CASE module = "postgresql" ->
            LET columns == PgColumns(db, stmt.x.table)
            IN  \/ stmt.x.table \in created
                \/ ~AllResolve(Where(stmt.x.where), Single(stmt.x.table, columns))
                \/ columns = {}
      [] module = "mongodb" -> IsView(db, stmt.x.table)
      [] module = "neo4j" -> NeoFails(stmt)
AcceptedReadsSucceed ==
    [][\A t \in Threads :
          Answers(t, "read", "failed") /\ thread[t].checked /\ Stmt[thread[t].stmt].kind = "read"
            => ReadIsUnchecked(Body(t))]_vars

\* _ensure_connection has no lock: each thread may build a connection before the
\* first one is stored, but none builds a second one.
OneConnectionPerThread == \A t \in Threads : opened[t] <= 1

\* A view once created is there, or a create_view of it has dropped it and is
\* about to create it, or such a create_view has failed.
ViewsSurvive ==
    \A v \in created :
        \/ IsView(db, v)
        \/ \E t \in Threads : thread[t].phase = "creating" /\ Body(t).x.name = v
        \/ v \in lost

-----------------------------------------------------------------------------
\* What the repository says and the code does not do.

\* "params_dict uses $param syntax for safe parameter binding" (neo4j/
\* translator.py:46): the nodes a Cypher condition selects are those the UQAL
\* condition is true of, however many numbers it compares with.
NeoConditionsMean ==
    [][\A t \in Threads :
          LET stmt == Body(t)
          IN  Answers(t, "read", "done") /\ module = "neo4j" /\ IsTable(db, stmt.x.table)
                /\ OnlyFieldsAndLiterals(Where(stmt.x.where)) =>
                ShowsMeant(stmt, thread'[t].rows, db.tables[stmt.x.table].rows)]_vars

\* "Drop existing view if it exists" (mongodb/module.py:414): create_view drops
\* no collection.
CreateViewDropsViews == [][DOMAIN db.tables \subseteq DOMAIN db'.tables]_vars
=============================================================================
