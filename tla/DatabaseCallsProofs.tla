------------------------ MODULE DatabaseCallsProofs ------------------------
(***************************************************************************)
(* Proofs about DatabaseCalls, for any number of threads and statements,   *)
(* any databases and any conditions.                                       *)
(***************************************************************************)
EXTENDS ConditionProofs

-----------------------------------------------------------------------------
\* Databases.

\* No identity is higher than n.
BoundedBy(d, n) == \A name \in DOMAIN d.tables : DOMAIN d.tables[name].rows \subseteq 0..n
WellFormed(d) == IsDatabase(d) /\ \E n \in Nat : BoundedBy(d, n)

\* d may become e by a statement that changes or deletes rows of the tables in
\* edited only, and no table's columns.
Evolves(d, e, edited) ==
    /\ WellFormed(e)
    /\ e.views = d.views
    /\ \A name \in DOMAIN d.tables :
          /\ name \in DOMAIN e.tables
          /\ e.tables[name].columns = d.tables[name].columns
          /\ name \in edited \/ KeepsRows(d.tables[name].rows, e.tables[name].rows)

LEMMA SameDatabase ==
    ASSUME NEW d, WellFormed(d), NEW edited
    PROVE  Evolves(d, d, edited)
BY DEF Evolves, KeepsRows

LEMMA EvolvesTwice ==
    ASSUME NEW d, NEW e, NEW f, Evolves(d, e, {}), Evolves(e, f, {})
    PROVE  Evolves(d, f, {})
BY DEF Evolves, KeepsRows

\* A database with other tables, views or relationships.
LEMMA Replaced ==
    ASSUME NEW d, d = [tables |-> d.tables, views |-> d.views, links |-> d.links], NEW x
    PROVE  /\ [d EXCEPT !.tables = x] = [tables |-> x, views |-> d.views, links |-> d.links]
           /\ [d EXCEPT !.views = x] = [tables |-> d.tables, views |-> x, links |-> d.links]
           /\ [d EXCEPT !.links = x] = [tables |-> d.tables, views |-> d.views, links |-> x]
OBVIOUS

\* A table with other rows.
OtherRows(d, table, R) == [d.tables EXCEPT ![table].rows = R]
OtherTables(d, T) == [d EXCEPT !.tables = T]
OtherLinks(d, T, L) == [d EXCEPT !.tables = T, !.links = L]

LEMMA RowsReplaced ==
    ASSUME NEW d, IsDatabase(d), NEW table, IsTable(d, table), NEW R
    PROVE  /\ DOMAIN OtherRows(d, table, R) = DOMAIN d.tables
           /\ OtherRows(d, table, R)[table] = [columns |-> d.tables[table].columns,
                          strict |-> d.tables[table].strict, rows |-> R]
           /\ \A n \in DOMAIN d.tables : n # table => OtherRows(d, table, R)[n] = d.tables[n]
<1>1. d.tables[table] = [columns |-> d.tables[table].columns, strict |-> d.tables[table].strict,
                         rows |-> d.tables[table].rows]
    BY DEF IsDatabase, IsTable
<1>2. [d.tables[table] EXCEPT !.rows = R]
        = [columns |-> d.tables[table].columns, strict |-> d.tables[table].strict, rows |-> R]
    BY <1>1
<1>3. OtherRows(d, table, R) = [n \in DOMAIN d.tables |->
              IF n = table THEN [d.tables[table] EXCEPT !.rows = R] ELSE d.tables[n]]
    BY DEF OtherRows
<1> QED BY <1>2, <1>3 DEF IsTable

\* Rows that replace those of a table, and relationships.
LEMMA RowsWritten ==
    ASSUME NEW d, WellFormed(d), NEW table, IsTable(d, table), NEW R, NEW L,
           NEW n \in Nat, DOMAIN R \subseteq 0..n, NEW edited,
           table \in edited \/ KeepsRows(d.tables[table].rows, R)
    PROVE  LET T == OtherRows(d, table, R)
           IN  Evolves(d, OtherTables(d, T), edited) /\ Evolves(d, OtherLinks(d, T, L), edited)
<1> DEFINE T == OtherRows(d, table, R)
           e(l) == [tables |-> T, views |-> d.views, links |-> l]
<1>1. /\ DOMAIN T = DOMAIN d.tables
      /\ T[table] = [columns |-> d.tables[table].columns,
                     strict |-> d.tables[table].strict, rows |-> R]
      /\ \A name \in DOMAIN T : name # table => T[name] = d.tables[name]
    BY RowsReplaced DEF WellFormed
<1> HIDE DEF T, e
<1>2. d = [tables |-> d.tables, views |-> d.views, links |-> d.links]
    BY DEF WellFormed, IsDatabase
<1>3. OtherTables(d, T) = e(d.links)
    BY <1>2, Replaced, Zenon DEF OtherTables, e
<1>4. OtherLinks(d, T, L) = e(L)
    <2>1. OtherLinks(d, T, L) = [OtherTables(d, T) EXCEPT !.links = L]
        BY DEF OtherLinks, OtherTables
    <2>2. [[tables |-> T, views |-> d.views, links |-> d.links] EXCEPT !.links = L] = e(L)
        BY DEF e
    <2> QED BY <2>1, <2>2, <1>3, Zenon DEF e
<1>5. ASSUME NEW l PROVE Evolves(d, e(l), edited)
    <2>1. IsDatabase(e(l))
        BY <1>1 DEF WellFormed, IsDatabase, e
    <2>2. PICK b \in Nat : BoundedBy(d, b)
        BY DEF WellFormed
    <2>3. n + b \in Nat /\ 0..n \subseteq 0..(n + b) /\ 0..b \subseteq 0..(n + b)
        OBVIOUS
    <2>4. ASSUME NEW name \in DOMAIN T
          PROVE  DOMAIN T[name].rows \subseteq 0..(n + b)
        <3>1. CASE name = table
            BY <3>1, <1>1, <2>3
        <3>2. CASE name # table
            BY <3>2, <1>1, <2>2, <2>3 DEF BoundedBy
        <3> QED BY <3>1, <3>2
    <2>5. BoundedBy(e(l), n + b)
        BY <2>4 DEF BoundedBy, e
    <2> QED BY <1>1, <2>1, <2>3, <2>5 DEF Evolves, WellFormed, KeepsRows, IsTable, e
<1> QED BY <1>3, <1>4, <1>5 DEF T

\* The highest identity exists, so a new one is higher than all.
LEMMA NewIdentityIsNew ==
    ASSUME NEW d, WellFormed(d)
    PROVE  /\ NewIdentity(d) \in Nat
           /\ \E n \in Nat : NewIdentity(d) \in 0..n /\ BoundedBy(d, n)
           /\ NewIdentity(d) \notin Identities(d)
<1> DEFINE S == {0} \union Identities(d)
           U == {n \in Nat : \A y \in S : y <= n}
<1>1. PICK b \in Nat : BoundedBy(d, b)
    BY DEF WellFormed
<1>2. Identities(d) \subseteq 0..b
    BY <1>1 DEF BoundedBy, Identities
<1>3. S \subseteq Nat /\ 0 \in S /\ b \in U
    BY <1>2
<1>4. PICK m \in U : \A y \in U : ~(y < m)
    <2> HIDE DEF S
    <2>1. U \subseteq Nat /\ U # {}
        BY <1>3
    <2> HIDE DEF U
    <2> QED BY <2>1, LeastElement
<1>5. m \in S
    <2> HIDE DEF S
    <2> SUFFICES ASSUME m \notin S PROVE FALSE
        OBVIOUS
    <2>1. m \in Nat /\ \A y \in S : y <= m
        BY <1>4
    <2>2. m # 0 /\ m - 1 \in Nat
        BY <1>3, <2>1
    <2>3. ASSUME NEW y \in S PROVE y <= m - 1
        BY <1>3, <2>1, <2>3
    <2>4. m - 1 \in U
        BY <2>2, <2>3
    <2> QED BY <2>1, <2>4, <1>4
<1>6. m \in S /\ \A y \in S : m >= y
    BY <1>3, <1>4, <1>5
<1>7. Max(S) \in S /\ \A y \in S : Max(S) >= y
    <2> HIDE DEF S
    <2> QED BY <1>6, Zenon DEF Max
<1>8. PICK M \in S : NewIdentity(d) = 1 + M /\ \A y \in S : M >= y
    BY <1>7, Zenon DEF NewIdentity
<1> HIDE DEF S
<1>9. NewIdentity(d) \in Nat /\ \A y \in S : y < NewIdentity(d)
    BY <1>3, <1>8
<1>10. NewIdentity(d) \notin Identities(d)
    BY <1>3, <1>9 DEF S
<1>11. BoundedBy(d, NewIdentity(d))
    BY <1>3, <1>9 DEF S, BoundedBy, Identities
<1> QED BY <1>9, <1>10, <1>11

\* A row is added to a table: the others stay.
LEMMA RowInserted ==
    ASSUME NEW d, WellFormed(d), NEW table, IsTable(d, table), NEW row
    PROVE  Evolves(d, WithRow(d, table, row), {})
<1> DEFINE new == NewIdentity(d)
           rows == d.tables[table].rows
           R == Put(rows, new, row)
<1>1. PICK n \in Nat : new \in 0..n /\ BoundedBy(d, n)
    BY NewIdentityIsNew
<1>2. new \notin DOMAIN rows
    BY NewIdentityIsNew DEF Identities, IsTable
<1>3. WithRow(d, table, row) = OtherTables(d, OtherRows(d, table, R))
    BY DEF WithRow, OtherRows, OtherTables
<1> HIDE DEF new
<1>4. DOMAIN R = {new} \union DOMAIN rows /\ KeepsRows(rows, R)
    BY <1>2 DEF KeepsRows, Put
<1>5. DOMAIN R \subseteq 0..n
    BY <1>1, <1>4 DEF BoundedBy, IsTable
<1> HIDE DEF R
<1> QED BY <1>1, <1>3, <1>4, <1>5, RowsWritten

\* Values are given to rows of a table.
LEMMA RowsAssigned ==
    ASSUME NEW d, WellFormed(d), NEW table, IsTable(d, table), NEW ids, NEW values
    PROVE  Evolves(d, Assigned(d, table, ids, values), {table})
<1> DEFINE rows == d.tables[table].rows
           R == [id \in DOMAIN rows |-> IF id \in ids THEN Over(values, rows[id]) ELSE rows[id]]
<1>1. Assigned(d, table, ids, values) = OtherTables(d, OtherRows(d, table, R))
    BY DEF Assigned, OtherRows, OtherTables
<1>2. PICK n \in Nat : BoundedBy(d, n)
    BY DEF WellFormed
<1>3. DOMAIN R \subseteq 0..n
    BY <1>2 DEF BoundedBy, IsTable
<1> HIDE DEF R
<1> QED BY <1>1, <1>3, RowsWritten

\* Rows of a table are deleted, with the relationships of their nodes.
LEMMA RowsDeleted ==
    ASSUME NEW d, WellFormed(d), NEW table, IsTable(d, table), NEW ids
    PROVE  Evolves(d, Without(d, table, ids), {table})
<1> DEFINE rows == d.tables[table].rows
           R == Restrict(rows, DOMAIN rows \ ids)
           L == {l \in d.links : {l.source, l.target} \intersect ids = {}}
<1>1. Without(d, table, ids) = OtherLinks(d, OtherRows(d, table, R), L)
    BY DEF Without, OtherRows, OtherLinks
<1>2. PICK n \in Nat : BoundedBy(d, n)
    BY DEF WellFormed
<1>3. DOMAIN R \subseteq 0..n
    BY <1>2 DEF BoundedBy, IsTable, Restrict
<1> HIDE DEF R, L
<1> QED BY <1>1, <1>3, RowsWritten

\* A table that is not there yet is created.
LEMMA TableCreated ==
    ASSUME NEW d, WellFormed(d), NEW name, ~IsTable(d, name), NEW columns, NEW strict
    PROVE  LET e == WithTable(d, name, NewTable(columns, strict))
           IN  Evolves(d, e, {}) /\ IsTable(e, name)
<1> DEFINE new == NewTable(columns, strict)
           T == Put(d.tables, name, new)
           e == WithTable(d, name, new)
<1>1. /\ DOMAIN T = {name} \union DOMAIN d.tables
      /\ T[name] = new
      /\ \A n \in DOMAIN d.tables : T[n] = d.tables[n]
    BY DEF IsTable, Put
<1>2. /\ new = [columns |-> new.columns, strict |-> new.strict, rows |-> new.rows]
      /\ DOMAIN new.rows = {}
    BY DEF NewTable
<1>3. e = [d EXCEPT !.tables = T]
    BY DEF WithTable
<1> HIDE DEF new, T, e
<1>4. d = [tables |-> d.tables, views |-> d.views, links |-> d.links]
    BY DEF WellFormed, IsDatabase
<1>5. e = [tables |-> T, views |-> d.views, links |-> d.links]
    BY <1>3, <1>4, Replaced, Zenon
<1>6. e.tables = T /\ e.views = d.views
      /\ e = [tables |-> e.tables, views |-> e.views, links |-> e.links]
    BY <1>5
<1>7. IsDatabase(e)
    BY <1>1, <1>2, <1>6 DEF WellFormed, IsDatabase
<1>8. PICK b \in Nat : BoundedBy(d, b)
    BY DEF WellFormed
<1>9. BoundedBy(e, b)
    BY <1>1, <1>2, <1>6, <1>8 DEF BoundedBy
<1>10. \A n \in DOMAIN d.tables :
         /\ n \in DOMAIN e.tables /\ e.tables[n].columns = d.tables[n].columns
         /\ KeepsRows(d.tables[n].rows, e.tables[n].rows)
    BY <1>1, <1>6 DEF KeepsRows
<1>11. Evolves(d, e, {})
    BY <1>6, <1>7, <1>9, <1>10 DEF Evolves, WellFormed
<1>12. IsTable(e, name)
    BY <1>1, <1>6 DEF IsTable
<1> QED BY <1>11, <1>12 DEF e, new

-----------------------------------------------------------------------------
\* The outcomes of a statement.

\* The tables whose rows a statement may change or delete.
EditedBy(stmt) ==
    IF stmt.kind = "write" /\ stmt.x.command \in {"update", "delete"}
    THEN {stmt.x.table} ELSE {}

\* An outcome on database d that changes what the statement may change, and if
\* it is an error no row that was there.
RightOutcome(o, stmt, d) ==
    /\ o = Outcome(o.status, o.rows, o.db)
    /\ o.status \in {"failed", "done"}
    /\ Evolves(d, o.db, IF o.status = "done" THEN EditedBy(stmt) ELSE {})

LEMMA Answered ==
    ASSUME NEW stmt, NEW d, WellFormed(d)
    PROVE  /\ \A o \in Raises(d) : RightOutcome(o, stmt, d)
           /\ \A rows, e : Evolves(d, e, EditedBy(stmt)) \/ Evolves(d, e, {}) =>
                 \A o \in Returns(rows, e) : RightOutcome(o, stmt, d)
<1>1. \A o \in Raises(d) : RightOutcome(o, stmt, d)
    BY SameDatabase DEF Raises, Outcome, RightOutcome
<1>2. ASSUME NEW rows, NEW e, Evolves(d, e, EditedBy(stmt)) \/ Evolves(d, e, {}),
             NEW o \in Returns(rows, e)
      PROVE  RightOutcome(o, stmt, d)
    <2>1. /\ o = Outcome("done", rows, e)
          /\ o.status = "done" /\ o.rows = rows /\ o.db = e
        BY <1>2 DEF Returns, Outcome
    <2>2. Evolves(d, e, EditedBy(stmt))
        BY <1>2 DEF Evolves
    <2> QED BY <2>1, <2>2 DEF RightOutcome
<1> QED BY <1>1, <1>2

LEMMA ReadsAnswer ==
    ASSUME NEW stmt, NEW d, WellFormed(d), NEW command, NEW rows, NEW ids
    PROVE  \A o \in ReadOutcomes(command, rows, ids, d) : RightOutcome(o, stmt, d)
<1>1. \A r : \A o \in Returns(r, d) : RightOutcome(o, stmt, d)
    BY SameDatabase, Answered
<1> QED BY <1>1, Zenon DEF ReadOutcomes

LEMMA PgAnswers ==
    ASSUME NEW stmt, IsCall(stmt), stmt.kind \in {"read", "write", "query"}, NEW d, WellFormed(d)
    PROVE  \A o \in PgOutcomes(stmt, d) : RightOutcome(o, stmt, d)
<1>1. \A r : \A o \in Returns(r, d) : RightOutcome(o, stmt, d)
    BY SameDatabase, Answered
<1>2. \A o \in Raises(d) : RightOutcome(o, stmt, d)
    BY Answered
<1>3. CASE stmt.kind = "query"
    <2>1. PgOutcomes(stmt, d) = PgQueryBlock(stmt, d)
        BY <1>3 DEF PgOutcomes
    <2>2. \E r : PgQueryBlock(stmt, d) = Returns(r, d) \/ PgQueryBlock(stmt, d) = Raises(d)
        BY Zenon DEF PgQueryBlock
    <2> QED BY <1>1, <1>2, <2>1, <2>2
<1>4. CASE stmt.kind = "read"
    <2>1. PgOutcomes(stmt, d) = PgRead(stmt, d)
        BY <1>4 DEF PgOutcomes
    <2>2. \/ \E c, r, i : PgRead(stmt, d) = ReadOutcomes(c, r, i, d)
          \/ PgRead(stmt, d) = Raises(d)
        BY Zenon DEF PgRead
    <2> QED BY <1>2, <2>1, <2>2, ReadsAnswer
<1>5. CASE stmt.kind = "write"
    <2>1. CASE stmt.x.command = "insert_row"
        <3>1. PgOutcomes(stmt, d) = PgInsert(stmt, d)
            BY <1>5, <2>1 DEF PgOutcomes
        <3>2. \/ PgInsert(stmt, d) = Raises(d)
              \/ /\ IsTable(d, stmt.x.table)
                 /\ \E r, row : PgInsert(stmt, d) = Returns(r, WithRow(d, stmt.x.table, row))
            BY Zenon DEF PgInsert, PgWritable
        <3> QED BY <1>2, <3>1, <3>2, RowInserted, Answered
    <2>2. CASE stmt.x.command = "update"
        <3>1. PgOutcomes(stmt, d) = PgUpdate(stmt, d)
            BY <1>5, <2>2 DEF PgOutcomes
        <3>2. \/ PgUpdate(stmt, d) = Raises(d)
              \/ /\ IsTable(d, stmt.x.table)
                 /\ \E r, i, v : PgUpdate(stmt, d) = Returns(r, Assigned(d, stmt.x.table, i, v))
            BY Zenon DEF PgUpdate, PgWritable
        <3>3. EditedBy(stmt) = {stmt.x.table}
            BY <1>5, <2>2 DEF EditedBy
        <3> QED BY <1>2, <3>1, <3>2, <3>3, RowsAssigned, Answered
    <2>3. CASE stmt.x.command = "delete"
        <3>1. PgOutcomes(stmt, d) = PgDelete(stmt, d)
            BY <1>5, <2>3 DEF PgOutcomes
        <3>2. \/ PgDelete(stmt, d) = Raises(d)
              \/ /\ IsTable(d, stmt.x.table)
                 /\ \E r, i : PgDelete(stmt, d) = Returns(r, Without(d, stmt.x.table, i))
            BY Zenon DEF PgDelete, PgWritable
        <3>3. EditedBy(stmt) = {stmt.x.table}
            BY <1>5, <2>3 DEF EditedBy
        <3> QED BY <1>2, <3>1, <3>2, <3>3, RowsDeleted, Answered
    <2>4. CASE stmt.x.command = "insert_table"
        <3>1. PgOutcomes(stmt, d) = PgInsertTable(stmt, d)
            BY <1>5, <2>4 DEF PgOutcomes
        <3>2. \/ PgInsertTable(stmt, d) = Returns(<<>>, d)
              \/ /\ ~IsTable(d, stmt.x.table)
                 /\ \E c, t : PgInsertTable(stmt, d) =
                        Returns(<<>>, WithTable(d, stmt.x.table, NewTable(c, t)))
            BY Zenon DEF PgInsertTable, IsRelation
        <3> QED BY <1>1, <3>1, <3>2, TableCreated, Answered
    <2> QED BY <1>5, <2>1, <2>2, <2>3, <2>4 DEF IsCall, WriteCommands
<1> QED BY <1>3, <1>4, <1>5

\* insert_one and CREATE: a row in a table that is there or is made for it.
LEMMA InsertedAnywhere ==
    ASSUME NEW d, WellFormed(d), NEW table, NEW row
    PROVE  LET there == IF IsTable(d, table) THEN d
                        ELSE WithTable(d, table, NewTable(<<>>, FALSE))
           IN  Evolves(d, WithRow(there, table, row), {})
<1> DEFINE there == IF IsTable(d, table) THEN d
                    ELSE WithTable(d, table, NewTable(<<>>, FALSE))
<1>1. Evolves(d, there, {}) /\ IsTable(there, table)
    BY SameDatabase, TableCreated
<1> HIDE DEF there
<1>2. Evolves(there, WithRow(there, table, row), {})
    BY <1>1, RowInserted DEF Evolves
<1>3. Evolves(d, WithRow(there, table, row), {})
    BY <1>1, <1>2, EvolvesTwice
<1> QED BY <1>3 DEF there

LEMMA MongoAnswers ==
    ASSUME NEW stmt, IsCall(stmt), stmt.kind \in {"read", "write", "query"}, NEW d, WellFormed(d)
    PROVE  \A o \in MongoOutcomes(stmt, d) : RightOutcome(o, stmt, d)
<1>1. \A r : \A o \in Returns(r, d) : RightOutcome(o, stmt, d)
    BY SameDatabase, Answered
<1>2. \A o \in Raises(d) : RightOutcome(o, stmt, d)
    BY Answered
<1>3. CASE stmt.kind = "query"
    BY <1>2, <1>3 DEF MongoOutcomes
<1>4. CASE stmt.kind = "read"
    <2>1. MongoOutcomes(stmt, d) = MongoRead(stmt, d)
        BY <1>4 DEF MongoOutcomes
    <2>2. \E c, r, i : MongoRead(stmt, d) = ReadOutcomes(c, r, i, d)
        BY Zenon DEF MongoRead
    <2> QED BY <2>1, <2>2, ReadsAnswer
<1>5. CASE stmt.kind = "write"
    <2>0. ASSUME NEW ids \in MongoTouchable(stmt, d)
          PROVE  ids = {} \/ IsTable(d, stmt.x.table)
        BY <2>0 DEF MongoTouchable
    <2>1. CASE stmt.x.command = "insert_row"
        <3>1. MongoOutcomes(stmt, d) = MongoInsert(stmt, d)
            BY <1>5, <2>1 DEF MongoOutcomes
        <3>2. \/ MongoInsert(stmt, d) = Raises(d)
              \/ \E r, row :
                    MongoInsert(stmt, d) =
                        Returns(r, WithRow(IF IsTable(d, stmt.x.table) THEN d
                                           ELSE WithTable(d, stmt.x.table, NewTable(<<>>, FALSE)),
                                           stmt.x.table, row))
            BY Zenon DEF MongoInsert
        <3> QED BY <1>2, <3>1, <3>2, InsertedAnywhere, Answered
    <2>2. CASE stmt.x.command = "update"
        <3>1. MongoOutcomes(stmt, d) = MongoUpdate(stmt, d)
            BY <1>5, <2>2 DEF MongoOutcomes
        <3>2. ASSUME NEW o \in MongoUpdate(stmt, d)
              PROVE  \/ o \in Raises(d)
                     \/ \E ids \in MongoTouchable(stmt, d) :
                            o \in Returns(Counted(ids),
                                          IF ids = {} THEN d
                                          ELSE Assigned(d, stmt.x.table, ids, Values(stmt)))
            BY <3>2, Zenon DEF MongoUpdate
        <3>3. EditedBy(stmt) = {stmt.x.table}
            BY <1>5, <2>2 DEF EditedBy
        <3> QED BY <1>1, <1>2, <2>0, <3>1, <3>2, <3>3, RowsAssigned, Answered
    <2>3. CASE stmt.x.command = "delete"
        <3>1. MongoOutcomes(stmt, d) = MongoDelete(stmt, d)
            BY <1>5, <2>3 DEF MongoOutcomes
        <3>2. ASSUME NEW o \in MongoDelete(stmt, d)
              PROVE  \/ o \in Raises(d)
                     \/ \E ids \in MongoTouchable(stmt, d) :
                            o \in Returns(Counted(ids), IF ids = {} THEN d
                                                        ELSE Without(d, stmt.x.table, ids))
            BY <3>2, Zenon DEF MongoDelete
        <3>3. EditedBy(stmt) = {stmt.x.table}
            BY <1>5, <2>3 DEF EditedBy
        <3> QED BY <1>1, <1>2, <2>0, <3>1, <3>2, <3>3, RowsDeleted, Answered
    <2>4. CASE stmt.x.command = "insert_table"
        <3>1. MongoOutcomes(stmt, d) = MongoInsertTable(stmt, d)
            BY <1>5, <2>4 DEF MongoOutcomes
        <3>2. \/ MongoInsertTable(stmt, d) = Returns(<<>>, d)
              \/ /\ ~IsTable(d, stmt.x.table)
                 /\ \E c, t : MongoInsertTable(stmt, d) =
                        Returns(<<>>, WithTable(d, stmt.x.table, NewTable(c, t)))
            BY Zenon DEF MongoInsertTable, IsRelation
        <3> QED BY <1>1, <3>1, <3>2, TableCreated, Answered
    <2> QED BY <1>5, <2>1, <2>2, <2>3, <2>4 DEF IsCall, WriteCommands
<1> QED BY <1>3, <1>4, <1>5

LEMMA NeoAnswers ==
    ASSUME NEW stmt, IsCall(stmt), stmt.kind \in {"read", "write", "query"}, NEW d, WellFormed(d)
    PROVE  \A o \in NeoOutcomes(stmt, d) : RightOutcome(o, stmt, d)
<1>1. \A r : \A o \in Returns(r, d) : RightOutcome(o, stmt, d)
    BY SameDatabase, Answered
<1>2. \A o \in Raises(d) : RightOutcome(o, stmt, d)
    BY Answered
<1>3. CASE stmt.kind = "query"
    <2>1. NeoOutcomes(stmt, d) = NeoQueryBlock(stmt, d)
        BY <1>3 DEF NeoOutcomes
    <2>2. \E r : NeoQueryBlock(stmt, d) = Returns(r, d) \/ NeoQueryBlock(stmt, d) = Raises(d)
        BY Zenon DEF NeoQueryBlock
    <2> QED BY <1>1, <1>2, <2>1, <2>2
<1>4. CASE stmt.kind = "read"
    <2>1. NeoOutcomes(stmt, d) = NeoRead(stmt, d)
        BY <1>4 DEF NeoOutcomes
    <2>2. \/ \E c, r, i : NeoRead(stmt, d) = ReadOutcomes(c, r, i, d)
          \/ NeoRead(stmt, d) = Raises(d)
        BY Zenon DEF NeoRead
    <2> QED BY <1>2, <2>1, <2>2, ReadsAnswer
<1>5. CASE stmt.kind = "write"
    <2>1. CASE stmt.x.command = "insert_row"
        <3>1. NeoOutcomes(stmt, d) = NeoInsert(stmt, d)
            BY <1>5, <2>1 DEF NeoOutcomes
        <3>2. \E r, row :
                 NeoInsert(stmt, d) =
                     Returns(r, WithRow(IF IsTable(d, stmt.x.table) THEN d
                                        ELSE WithTable(d, stmt.x.table, NewTable(<<>>, FALSE)),
                                        stmt.x.table, row))
            BY Zenon DEF NeoInsert
        <3> QED BY <3>1, <3>2, InsertedAnywhere, Answered
    <2>2. CASE stmt.x.command = "update"
        <3>1. NeoOutcomes(stmt, d) = NeoUpdate(stmt, d)
            BY <1>5, <2>2 DEF NeoOutcomes
        <3>2. \/ NeoUpdate(stmt, d) = Raises(d)
              \/ \E r, i, v : NeoUpdate(stmt, d) =
                    Returns(r, IF IsTable(d, stmt.x.table)
                               THEN Assigned(d, stmt.x.table, i, v) ELSE d)
            BY Zenon DEF NeoUpdate
        <3>3. EditedBy(stmt) = {stmt.x.table}
            BY <1>5, <2>2 DEF EditedBy
        <3> QED BY <1>1, <1>2, <3>1, <3>2, <3>3, RowsAssigned, Answered
    <2>3. CASE stmt.x.command = "delete"
        <3>1. NeoOutcomes(stmt, d) = NeoDelete(stmt, d)
            BY <1>5, <2>3 DEF NeoOutcomes
        <3>2. \/ NeoDelete(stmt, d) = Raises(d)
              \/ \E r, i : NeoDelete(stmt, d) =
                    Returns(r, IF IsTable(d, stmt.x.table)
                               THEN Without(d, stmt.x.table, i) ELSE d)
            BY Zenon DEF NeoDelete
        <3>3. EditedBy(stmt) = {stmt.x.table}
            BY <1>5, <2>3 DEF EditedBy
        <3> QED BY <1>1, <1>2, <3>1, <3>2, <3>3, RowsDeleted, Answered
    <2>4. CASE stmt.x.command = "insert_table"
        BY <1>2, <1>5, <2>4 DEF NeoOutcomes
    <2> QED BY <1>5, <2>1, <2>2, <2>3, <2>4 DEF IsCall, WriteCommands
<1> QED BY <1>3, <1>4, <1>5

\* _execute_db_query: the answer of a get_value is unwrapped.
WithAnswer(o, rows) == [o EXCEPT !.rows = rows]

LEMMA UnwrappedIsRight ==
    ASSUME NEW stmt, NEW d, NEW first, NEW o, RightOutcome(o, stmt, d)
    PROVE  RightOutcome(Unwrapped(stmt, first, o), stmt, d)
<1> SUFFICES ASSUME NEW u, u = Unwrapped(stmt, first, o)
             PROVE  RightOutcome(u, stmt, d)
    OBVIOUS
<1>1. \/ u = o
      \/ stmt.kind = "read" /\ u = Outcome("failed", <<>>, o.db)
      \/ \E rows : u = WithAnswer(o, rows)
    BY Zenon DEF Unwrapped, WithAnswer
<1>2. CASE u = o
    BY <1>2
<1>3. CASE stmt.kind = "read" /\ u = Outcome("failed", <<>>, o.db)
    <2>1. u.status = "failed" /\ u.db = o.db /\ u = Outcome(u.status, u.rows, u.db)
        BY <1>3 DEF Outcome
    <2>2. EditedBy(stmt) = {}
        BY <1>3 DEF EditedBy
    <2> QED BY <2>1, <2>2 DEF RightOutcome
<1>4. ASSUME NEW rows, u = WithAnswer(o, rows)
      PROVE  RightOutcome(u, stmt, d)
    <2>1. u = Outcome(o.status, rows, o.db)
        BY <1>4 DEF RightOutcome, Outcome, WithAnswer
    <2>2. u.status = o.status /\ u.db = o.db /\ u = Outcome(u.status, u.rows, u.db)
        BY <2>1 DEF Outcome
    <2> QED BY <2>2 DEF RightOutcome
<1> QED BY <1>1, <1>2, <1>3, <1>4

\* Every outcome of a query is a right one, on each of the three modules.
LEMMA OutcomesAreRight ==
    ASSUME NEW m \in {"postgresql", "mongodb", "neo4j"}, NEW d, WellFormed(d),
           NEW stmt, IsCall(stmt), stmt.kind \in {"read", "write", "query"}
    PROVE  \A o \in Outcomes(m, stmt, d) : RightOutcome(o, stmt, d)
<1> DEFINE os == CASE m = "postgresql" -> PgOutcomes(stmt, d)
                   [] m = "mongodb" -> MongoOutcomes(stmt, d)
                   [] m = "neo4j" -> NeoOutcomes(stmt, d)
<1>1. \A o \in os : RightOutcome(o, stmt, d)
    BY PgAnswers, MongoAnswers, NeoAnswers
<1>2. \E first : Outcomes(m, stmt, d) = {Unwrapped(stmt, first, o) : o \in os}
    BY Zenon DEF Outcomes
<1> HIDE DEF os
<1> QED BY <1>1, <1>2, UnwrappedIsRight

\* create_view and its drop change no table but one they drop.
LEMMA ViewsReplaced ==
    ASSUME NEW d, WellFormed(d), NEW views
    PROVE  /\ WellFormed([d EXCEPT !.views = views])
           /\ [d EXCEPT !.views = views].views = views
           /\ [d EXCEPT !.views = views].tables = d.tables
<1>1. d = [tables |-> d.tables, views |-> d.views, links |-> d.links]
    BY DEF WellFormed, IsDatabase
<1>2. [d EXCEPT !.views = views] = [tables |-> d.tables, views |-> views, links |-> d.links]
    BY <1>1, Replaced, Zenon
<1> QED BY <1>2 DEF WellFormed, IsDatabase, BoundedBy

LEMMA RelationDropped ==
    ASSUME NEW d, WellFormed(d), NEW name
    PROVE  LET e == [d EXCEPT !.views = Restrict(@, DOMAIN @ \ {name}),
                              !.tables = Restrict(@, DOMAIN @ \ {name})]
           IN  /\ WellFormed(e)
               /\ e.views = Restrict(d.views, DOMAIN d.views \ {name})
               /\ e.tables = Restrict(d.tables, DOMAIN d.tables \ {name})
<1> DEFINE e == [d EXCEPT !.views = Restrict(@, DOMAIN @ \ {name}),
                          !.tables = Restrict(@, DOMAIN @ \ {name})]
           V == Restrict(d.views, DOMAIN d.views \ {name})
           T == Restrict(d.tables, DOMAIN d.tables \ {name})
<1>1. d = [tables |-> d.tables, views |-> d.views, links |-> d.links]
    BY DEF WellFormed, IsDatabase
<1>2. e = [[d EXCEPT !.views = V] EXCEPT !.tables = T]
    OBVIOUS
<1>3. DOMAIN T \subseteq DOMAIN d.tables /\ \A n \in DOMAIN T : T[n] = d.tables[n]
    BY DEF Restrict
<1> HIDE DEF V, T, e
<1>4. [d EXCEPT !.views = V] = [tables |-> d.tables, views |-> V, links |-> d.links]
    BY <1>1, Replaced, Zenon
<1>5. [[tables |-> d.tables, views |-> V, links |-> d.links] EXCEPT !.tables = T]
        = [tables |-> T, views |-> V, links |-> d.links]
    OBVIOUS
<1>6. e = [tables |-> T, views |-> V, links |-> d.links]
    BY <1>2, <1>4, <1>5, Zenon
<1>7. WellFormed(e)
    BY <1>3, <1>6 DEF WellFormed, IsDatabase, BoundedBy
<1> QED BY <1>6, <1>7 DEF V, T, e

LEMMA ViewOutcomes ==
    ASSUME NEW stmt, NEW d, NEW o \in PgCreateView(stmt, d) \union MongoCreateView(stmt, d)
    PROVE  \/ /\ o.status = "failed"
              /\ o.db = d
           \/ /\ o.status = "done"
              /\ o.db = [d EXCEPT !.views = Put(d.views, stmt.x.name, stmt)]
<1> DEFINE e == [d EXCEPT !.views = Put(d.views, stmt.x.name, stmt)]
<1>1. PgCreateView(stmt, d) = Returns(<<>>, e) \/ PgCreateView(stmt, d) = Raises(d)
    BY Zenon DEF PgCreateView
<1>2. MongoCreateView(stmt, d) = Returns(<<>>, e) \/ MongoCreateView(stmt, d) = Raises(d)
    BY Zenon DEF MongoCreateView
<1> HIDE DEF e
<1>3. o \in Returns(<<>>, e) \/ o \in Raises(d)
    BY <1>1, <1>2
<1>4. (o.status = "done" /\ o.db = e) \/ (o.status = "failed" /\ o.db = d)
    BY <1>3 DEF Returns, Raises, Outcome
<1> QED BY <1>4 DEF e

-----------------------------------------------------------------------------
\* The inductive invariant.

IsThread(r) == r = [phase |-> r.phase, stmt |-> r.stmt, checked |-> r.checked,
                    names |-> r.names, status |-> r.status, rows |-> r.rows]

\* What a query is about to do fits its statement and the module.
ThreadOK(t) ==
    /\ IsThread(thread[t])
    /\ thread[t].phase \in Phases /\ thread[t].status \in Statuses
    /\ thread[t].phase # "idle" => thread[t].stmt \in Stmts
    /\ thread[t].phase = "dropping" => module = "mongodb"
    /\ thread[t].phase \in {"dropping", "creating"} => Body(t).kind = "view"

\* A connection a thread has built is stored or about to be; a thread that
\* builds one has none yet.
ConnectionOK(t) ==
    /\ opened[t] \in {0, 1}
    /\ opened[t] = 1 => native \/ thread[t].phase = "built"
    /\ thread[t].phase = "building" => opened[t] = 0
    /\ thread[t].phase = "built" => opened[t] = 1

KnownOK ==
    /\ known.loaded \in BOOLEAN
    /\ known.loaded => \A n \in DOMAIN known.tables :
            known.tables[n].flexible => module = "mongodb"

CallsInv ==
    /\ module \in DOMAIN Databases
    /\ WellFormed(db)
    /\ DOMAIN thread = Threads /\ \A t \in Threads : ThreadOK(t)
    /\ DOMAIN opened = Threads /\ \A t \in Threads : ConnectionOK(t)
    /\ native \in BOOLEAN
    /\ native => \E t \in Threads : opened[t] > 0
    /\ KnownOK
    /\ submitted \in 0..MaxStatements
    /\ ViewsSurvive

\* Only a MongoDB collection is described as flexible.
LEMMA DescribedTables ==
    ASSUME NEW m \in {"postgresql", "mongodb", "neo4j"}, NEW d, NEW n,
           Described(m, d, n).flexible
    PROVE  m = "mongodb"
BY DEF Described

LEMMA InitCallsInv ==
    ASSUME Init PROVE CallsInv
<1> USE CallsAssumption
<1>1. module \in DOMAIN Databases /\ WellFormed(db)
    <2>1. PICK last \in {0} \union Identities(db) : Identities(db) \subseteq 0..last
        BY DEF Init
    <2>2. ASSUME last \notin Nat PROVE FALSE
        <3>1. last \in Identities(db)
            BY <2>2
        <3>2. last \in 0..last
            BY <3>1, <2>1
        <3> QED BY <3>2, <2>2
    <2>3. BoundedBy(db, last)
        BY <2>1 DEF BoundedBy, Identities
    <2> QED BY <2>2, <2>3 DEF Init, WellFormed
<1>2. DOMAIN thread = Threads /\ \A t \in Threads : ThreadOK(t)
    BY DEF Init, ThreadOK, IsThread, Phases, Statuses
<1>3. DOMAIN opened = Threads /\ \A t \in Threads : ConnectionOK(t)
    <2>1. \A t \in Threads : opened[t] = 0 /\ thread[t].phase = "idle"
        BY DEF Init
    <2>2. DOMAIN opened = Threads
        BY DEF Init
    <2> QED BY <2>1, <2>2 DEF ConnectionOK
<1>4. KnownOK
    <2>1. CASE known = [loaded |-> FALSE, tables |-> <<>>]
        BY <2>1 DEF KnownOK
    <2>2. CASE known = [loaded |-> TRUE,
                        tables |-> [n \in Listed(module, db) |-> Described(module, db, n)]]
        BY <2>2, <1>1, DescribedTables DEF KnownOK
    <2> QED BY <2>1, <2>2 DEF Init
<1>5. ViewsSurvive
    BY DEF Init, ViewsSurvive, IsView
<1>6. native = FALSE
    BY DEF Init
<1>7. submitted \in 0..MaxStatements
    <2>1. submitted = 0 /\ MaxStatements \in Nat
        BY Zenon DEF Init, CallsAssumption
    <2> QED BY <2>1
<1> QED BY <1>1, <1>2, <1>3, <1>4, <1>5, <1>6, <1>7 DEF CallsInv

\* Thread t is in a new phase with the same statement; the others stay.
Moves(t, phase, status) ==
    /\ DOMAIN thread' = Threads
    /\ \A u \in Threads : u # t => thread'[u] = thread[u]
    /\ IsThread(thread'[t])
    /\ thread'[t].phase = phase /\ thread'[t].status = status
    /\ thread'[t].stmt = thread[t].stmt

LEMMA ThreadMoves ==
    ASSUME CallsInv, NEW t \in Threads
    PROVE  /\ \A phase : Goes(t, phase) => Moves(t, phase, thread[t].status)
           /\ \A status, rows : Ends(t, status, rows) => Moves(t, "idle", status)
           /\ ListTables(t) => Moves(t, "listed", thread[t].status)
<1>1. DOMAIN thread = Threads /\ IsThread(thread[t])
    BY DEF CallsInv, ThreadOK
<1>2. ASSUME NEW phase, Goes(t, phase)
      PROVE  Moves(t, phase, thread[t].status)
    BY <1>1, <1>2 DEF Goes, IsThread, Moves
<1>3. ASSUME NEW status, NEW rows, Ends(t, status, rows)
      PROVE  Moves(t, "idle", status)
    BY <1>1, <1>3 DEF Ends, IsThread, Moves
<1>4. ASSUME ListTables(t)
      PROVE  Moves(t, "listed", thread[t].status)
    BY <1>1, <1>4 DEF ListTables, IsThread, Moves
<1> QED BY <1>2, <1>3, <1>4

LEMMA ThreadsStayOK ==
    ASSUME CallsInv, NEW t \in Threads, NEW phase \in Phases, NEW status \in Statuses,
           Moves(t, phase, status), module' = module, thread[t].phase # "idle",
           phase = "dropping" => module = "mongodb",
           phase \in {"dropping", "creating"} => Body(t).kind = "view"
    PROVE  DOMAIN thread' = Threads /\ \A u \in Threads : ThreadOK(u)'
<1>1. ASSUME NEW u \in Threads, u # t PROVE ThreadOK(u)'
    <2>1. ThreadOK(u) /\ thread'[u] = thread[u]
        BY <1>1 DEF CallsInv, Moves
    <2> QED BY <2>1 DEF ThreadOK, Body
<1>2. ThreadOK(t)'
    <2>1. thread[t].stmt \in Stmts
        BY DEF CallsInv, ThreadOK
    <2>2. Body(t)' = Body(t)
        BY DEF Moves, Body
    <2> QED BY <2>1, <2>2 DEF Moves, ThreadOK
<1> QED BY <1>1, <1>2 DEF Moves

\* A step that builds and stores no connection.
LEMMA ConnectionsStayOK ==
    ASSUME CallsInv, NEW t \in Threads, NEW phase, NEW status, Moves(t, phase, status),
           UNCHANGED <<native, opened>>, phase \notin {"building", "built"},
           thread[t].phase # "built"
    PROVE  /\ DOMAIN opened' = Threads /\ \A u \in Threads : ConnectionOK(u)'
           /\ native' \in BOOLEAN
           /\ native' => \E u \in Threads : opened'[u] > 0
<1>1. ASSUME NEW u \in Threads PROVE ConnectionOK(u)'
    <2>1. ConnectionOK(u) /\ (u # t => thread'[u] = thread[u]) /\ thread'[t].phase = phase
        BY DEF CallsInv, Moves
    <2> QED BY <2>1 DEF ConnectionOK
<1>2. DOMAIN opened' = Threads
    BY DEF CallsInv
<1>3. native' = native /\ native \in BOOLEAN
    BY DEF CallsInv
<1>4. native' => \E u \in Threads : opened'[u] > 0
    <2>1. native => \E u \in Threads : opened[u] > 0
        BY DEF CallsInv
    <2>2. opened' = opened
        OBVIOUS
    <2> QED BY <2>1, <2>2, <1>3
<1> QED BY <1>1, <1>2, <1>3, <1>4

\* A step that changes no view, of a thread that is not about to create one.
LEMMA ViewsStay ==
    ASSUME CallsInv, NEW t \in Threads, UNCHANGED <<created, lost>>, db'.views = db.views,
           thread[t].phase # "creating",
           \A u \in Threads : u # t => thread'[u] = thread[u]
    PROVE  ViewsSurvive'
<1>1. ASSUME NEW v \in created
      PROVE  \/ IsView(db, v)'
             \/ \E u \in Threads : (thread[u].phase = "creating" /\ Body(u).x.name = v)'
             \/ v \in lost'
    <2>1. \/ IsView(db, v)
          \/ \E u \in Threads : thread[u].phase = "creating" /\ Body(u).x.name = v
          \/ v \in lost
        BY <1>1 DEF CallsInv, ViewsSurvive
    <2>2. CASE IsView(db, v)
        BY <2>2 DEF IsView
    <2>3. ASSUME NEW u \in Threads, thread[u].phase = "creating", Body(u).x.name = v
          PROVE  thread'[u].phase = "creating" /\ Body(u)'.x.name = v
        BY <2>3 DEF Body
    <2> QED BY <2>1, <2>2, <2>3
<1> QED BY <1>1 DEF ViewsSurvive

-----------------------------------------------------------------------------
\* Every step preserves the invariant.

LEMMA SubmitStep ==
    ASSUME CallsInv, NEW t \in Threads, NEW s \in Stmts, Submit(t, s)
    PROVE  CallsInv'
<1>1. /\ UNCHANGED <<module, db, known, native, opened, created, lost>>
      /\ thread[t].phase = "idle"
    BY DEF Submit
<1>2. PICK r : /\ thread' = [thread EXCEPT ![t] = r]
               /\ IsThread(r) /\ r.phase \in {"accepted", "idle"} /\ r.stmt = s
               /\ r.status \in {"none", "rejected"}
    <2> DEFINE ok == CheckCall(Stmt[s], <<>>, [connected |-> TRUE, loaded |-> known.loaded,
                                               tables |-> known.tables]) = NoErrors
               r == [phase |-> IF ok THEN "accepted" ELSE "idle",
                     stmt |-> s, checked |-> known.loaded, names |-> {},
                     status |-> IF ok THEN "none" ELSE "rejected", rows |-> <<>>]
    <2>1. thread' = [thread EXCEPT ![t] = r]
        BY Zenon DEF Submit
    <2> HIDE DEF ok
    <2>2. IsThread(r) /\ r.phase \in {"accepted", "idle"} /\ r.stmt = s
          /\ r.status \in {"none", "rejected"}
        BY DEF IsThread
    <2> QED BY <2>1, <2>2
<1>3. /\ DOMAIN thread' = Threads
      /\ thread'[t] = r
      /\ \A u \in Threads : u # t => thread'[u] = thread[u]
    BY <1>2 DEF CallsInv
<1>4. ASSUME NEW u \in Threads PROVE ThreadOK(u)'
    <2>1. CASE u = t
        BY <2>1, <1>2, <1>3 DEF ThreadOK, Phases, Statuses
    <2>2. CASE u # t
        <3>1. ThreadOK(u) /\ thread'[u] = thread[u]
            BY <2>2, <1>3 DEF CallsInv
        <3> QED BY <3>1, <1>1 DEF ThreadOK, Body
    <2> QED BY <2>1, <2>2
<1>5. ASSUME NEW u \in Threads PROVE ConnectionOK(u)'
    <2>1. ConnectionOK(u)
        BY DEF CallsInv
    <2>2. CASE u = t
        BY <2>1, <2>2, <1>1, <1>2, <1>3 DEF ConnectionOK
    <2>3. CASE u # t
        BY <2>1, <2>3, <1>1, <1>3 DEF ConnectionOK
    <2> QED BY <2>2, <2>3
<1>6. ViewsSurvive'
    BY <1>1, <1>3, ViewsStay
<1>7. submitted' \in 0..MaxStatements
    <2>1. submitted' = submitted + 1 /\ submitted < MaxStatements
        BY DEF Submit
    <2>2. submitted \in 0..MaxStatements /\ MaxStatements \in Nat
        BY CallsAssumption DEF CallsInv
    <2> QED BY <2>1, <2>2
<1>8. /\ module' \in DOMAIN Databases /\ WellFormed(db') /\ KnownOK'
      /\ DOMAIN opened' = Threads
    BY <1>1 DEF CallsInv, KnownOK
<1>9. native' \in BOOLEAN /\ (native' => \E u \in Threads : opened'[u] > 0)
    BY <1>1 DEF CallsInv
<1> QED BY <1>3, <1>4, <1>5, <1>6, <1>7, <1>8, <1>9 DEF CallsInv

LEMMA TestConnectionStep ==
    ASSUME CallsInv, NEW t \in Threads, TestConnection(t)
    PROVE  CallsInv'
<1>1. /\ UNCHANGED <<module, db, known, native, opened, submitted, created, lost>>
      /\ thread[t].phase = "accepted"
    BY DEF TestConnection
<1> DEFINE next == IF native THEN "connected" ELSE "building"
<1>2. Moves(t, next, thread[t].status)
    BY ThreadMoves DEF TestConnection
<1>3. thread[t].status \in Statuses
    BY DEF CallsInv, ThreadOK
<1>4. DOMAIN thread' = Threads /\ \A u \in Threads : ThreadOK(u)'
    BY <1>1, <1>2, <1>3, ThreadsStayOK DEF Phases
<1>5. ASSUME NEW u \in Threads PROVE ConnectionOK(u)'
    <2>1. ConnectionOK(u)
        BY DEF CallsInv
    <2>2. CASE u = t
        BY <2>1, <2>2, <1>1, <1>2 DEF ConnectionOK, Moves
    <2>3. CASE u # t
        BY <2>1, <2>3, <1>1, <1>2 DEF ConnectionOK, Moves
    <2> QED BY <2>2, <2>3
<1>6. ViewsSurvive'
    BY <1>1, <1>2, ViewsStay DEF Moves
<1>7. /\ module' \in DOMAIN Databases /\ WellFormed(db') /\ KnownOK'
      /\ DOMAIN opened' = Threads /\ submitted' \in 0..MaxStatements
    BY <1>1 DEF CallsInv, KnownOK
<1>8. native' \in BOOLEAN /\ (native' => \E u \in Threads : opened'[u] > 0)
    BY <1>1 DEF CallsInv
<1> QED BY <1>4, <1>5, <1>6, <1>7, <1>8 DEF CallsInv

LEMMA BuildConnectionStep ==
    ASSUME CallsInv, NEW t \in Threads, BuildConnection(t)
    PROVE  CallsInv'
<1>1. /\ UNCHANGED <<module, db, known, native, submitted, created, lost>>
      /\ thread[t].phase = "building"
      /\ opened' = [opened EXCEPT ![t] = @ + 1]
    BY DEF BuildConnection
<1>2. Moves(t, "built", thread[t].status)
    BY ThreadMoves DEF BuildConnection
<1>3. thread[t].status \in Statuses
    BY DEF CallsInv, ThreadOK
<1>4. DOMAIN thread' = Threads /\ \A u \in Threads : ThreadOK(u)'
    BY <1>1, <1>2, <1>3, ThreadsStayOK DEF Phases
<1>5. /\ DOMAIN opened' = Threads /\ opened'[t] = 1
      /\ \A u \in Threads : u # t => opened'[u] = opened[u]
    BY <1>1 DEF CallsInv, ConnectionOK
<1>6. ASSUME NEW u \in Threads PROVE ConnectionOK(u)'
    <2>1. CASE u = t
        BY <2>1, <1>2, <1>5 DEF ConnectionOK, Moves
    <2>2. CASE u # t
        BY <2>2, <1>1, <1>2, <1>5 DEF CallsInv, ConnectionOK, Moves
    <2> QED BY <2>1, <2>2
<1>7. ViewsSurvive'
    BY <1>1, <1>2, ViewsStay DEF Moves
<1>8. /\ module' \in DOMAIN Databases /\ WellFormed(db') /\ KnownOK'
      /\ submitted' \in 0..MaxStatements
    BY <1>1 DEF CallsInv, KnownOK
<1>9. native' \in BOOLEAN /\ \E u \in Threads : opened'[u] > 0
    BY <1>1, <1>5 DEF CallsInv
<1> QED BY <1>4, <1>5, <1>6, <1>7, <1>8, <1>9 DEF CallsInv

LEMMA StoreConnectionStep ==
    ASSUME CallsInv, NEW t \in Threads, StoreConnection(t)
    PROVE  CallsInv'
<1>1. /\ UNCHANGED <<module, db, known, opened, submitted, created, lost>>
      /\ thread[t].phase = "built"
      /\ native' = TRUE
    BY DEF StoreConnection
<1>2. Moves(t, "connected", thread[t].status)
    BY ThreadMoves DEF StoreConnection
<1>3. thread[t].status \in Statuses
    BY DEF CallsInv, ThreadOK
<1>4. DOMAIN thread' = Threads /\ \A u \in Threads : ThreadOK(u)'
    BY <1>1, <1>2, <1>3, ThreadsStayOK DEF Phases
<1>5. ASSUME NEW u \in Threads PROVE ConnectionOK(u)'
    <2>1. ConnectionOK(u)
        BY DEF CallsInv
    <2>2. CASE u = t
        BY <2>1, <2>2, <1>1, <1>2 DEF ConnectionOK, Moves
    <2>3. CASE u # t
        BY <2>1, <2>3, <1>1, <1>2 DEF ConnectionOK, Moves
    <2> QED BY <2>2, <2>3
<1>6. opened'[t] > 0
    BY <1>1 DEF CallsInv, ConnectionOK
<1>7. ViewsSurvive'
    BY <1>1, <1>2, ViewsStay DEF Moves
<1>8. /\ module' \in DOMAIN Databases /\ WellFormed(db') /\ KnownOK'
      /\ DOMAIN opened' = Threads /\ submitted' \in 0..MaxStatements
    BY <1>1 DEF CallsInv, KnownOK
<1>9. native' \in BOOLEAN
    BY <1>1
<1> QED BY <1>4, <1>5, <1>6, <1>7, <1>8, <1>9 DEF CallsInv

\* A step that has nothing to do with the connection, but for what it does to
\* the database, the schema and the views.
LEMMA OtherStep ==
    ASSUME CallsInv, NEW t \in Threads, NEW phase \in Phases, NEW status \in Statuses,
           Moves(t, phase, status), UNCHANGED <<module, native, opened, submitted>>,
           thread[t].phase \notin {"idle", "built"}, phase \notin {"building", "built"},
           phase = "dropping" => module = "mongodb",
           phase \in {"dropping", "creating"} => Body(t).kind = "view",
           WellFormed(db'), KnownOK', ViewsSurvive'
    PROVE  CallsInv'
<1>1. DOMAIN thread' = Threads /\ \A u \in Threads : ThreadOK(u)'
    BY ThreadsStayOK
<1>2. /\ DOMAIN opened' = Threads /\ \A u \in Threads : ConnectionOK(u)'
      /\ native' \in BOOLEAN
      /\ native' => \E u \in Threads : opened'[u] > 0
    BY ConnectionsStayOK
<1>3. module' \in DOMAIN Databases /\ submitted' \in 0..MaxStatements
    BY DEF CallsInv
<1> QED BY <1>1, <1>2, <1>3 DEF CallsInv

LEMMA SilentSteps ==
    ASSUME CallsInv, NEW t \in Threads,
           BuildFails(t) \/ ListNames(t) \/ NoViews(t) \/ ListTables(t)
    PROVE  CallsInv'
<1>1. /\ UNCHANGED <<module, db, known, native, opened, submitted, created, lost>>
      /\ thread[t].phase \in {"building", "connected"}
    BY DEF BuildFails, ListNames, NoViews, ListTables
<1>2. PICK phase \in {"idle", "dropping", "creating", "listed"}, status \in Statuses :
        /\ Moves(t, phase, status)
        /\ phase \in {"dropping", "creating"} => Body(t).kind = "view"
        /\ phase = "dropping" => module = "mongodb"
    <2>1. thread[t].status \in Statuses
        BY DEF CallsInv, ThreadOK
    <2>2. CASE BuildFails(t)
        BY <2>2, ThreadMoves DEF BuildFails, Statuses
    <2>3. CASE ListNames(t)
        <3>1. \E phase \in {"dropping", "creating"} : Goes(t, phase)
            BY <2>3 DEF ListNames
        <3> QED BY <2>1, <2>3, <3>1, ThreadMoves DEF ListNames
    <2>4. CASE NoViews(t)
        BY <2>4, ThreadMoves DEF NoViews, Statuses
    <2>5. CASE ListTables(t)
        BY <2>1, <2>5, ThreadMoves
    <2> QED BY <2>2, <2>3, <2>4, <2>5
<1>3. phase \in Phases
    BY DEF Phases
<1>4. WellFormed(db') /\ KnownOK'
    BY <1>1 DEF CallsInv, KnownOK
<1>5. ViewsSurvive'
    BY <1>1, <1>2, ViewsStay DEF Moves
<1> QED BY <1>1, <1>2, <1>3, <1>4, <1>5, OtherStep

LEMMA DescribeTablesStep ==
    ASSUME CallsInv, NEW t \in Threads, DescribeTables(t)
    PROVE  CallsInv'
<1>1. /\ UNCHANGED <<module, db, native, opened, submitted, created, lost>>
      /\ thread[t].phase = "listed"
    BY DEF DescribeTables
<1>2. Moves(t, "idle", "done")
    BY ThreadMoves DEF DescribeTables
<1>3. KnownOK'
    <2>1. known' = [loaded |-> TRUE,
                    tables |-> [n \in thread[t].names |-> Described(module, db, n)]]
        BY DEF DescribeTables
    <2>2. module \in {"postgresql", "mongodb", "neo4j"}
        BY CallsAssumption DEF CallsInv
    <2> QED BY <1>1, <2>1, <2>2, DescribedTables DEF KnownOK
<1>4. WellFormed(db')
    BY <1>1 DEF CallsInv
<1>5. ViewsSurvive'
    BY <1>1, <1>2, ViewsStay DEF Moves
<1>6. "idle" \in Phases /\ "done" \in Statuses
    BY DEF Phases, Statuses
<1> QED BY <1>1, <1>2, <1>3, <1>4, <1>5, <1>6, OtherStep

\* What a query does, as a module's answer that is unwrapped.
LEMMA QueryAnswer ==
    ASSUME CallsInv, NEW t \in Threads, RunQuery(t)
    PROVE  /\ IsCall(Body(t)) /\ Body(t).kind \in {"read", "write", "query"}
           /\ module \in {"postgresql", "mongodb", "neo4j"} /\ WellFormed(db)
           /\ \E o \in Outcomes(module, Body(t), db) : db' = o.db /\ Ends(t, o.status, o.rows)
<1>1. \E o \in Outcomes(module, Body(t), db) : db' = o.db /\ Ends(t, o.status, o.rows)
    BY Zenon DEF RunQuery
<1>2. module \in {"postgresql", "mongodb", "neo4j"} /\ WellFormed(db)
    BY CallsAssumption DEF CallsInv
<1>3. IsCall(Body(t))
    <2>1. thread[t].stmt \in Stmts
        BY DEF RunQuery, CallsInv, ThreadOK
    <2> QED BY <2>1, CallsAssumption DEF Body
<1>4. Body(t).kind \in {"read", "write", "query"}
    BY DEF RunQuery
<1> QED BY <1>1, <1>2, <1>3, <1>4

\* What a query does to the database is a right outcome of its statement.
LEMMA QueryOutcome ==
    ASSUME CallsInv, NEW t \in Threads, RunQuery(t)
    PROVE  \E o : /\ RightOutcome(o, Body(t), db)
                  /\ db' = o.db
                  /\ Ends(t, o.status, o.rows)
<1>1. PICK o \in Outcomes(module, Body(t), db) : db' = o.db /\ Ends(t, o.status, o.rows)
    BY QueryAnswer
<1>2. RightOutcome(o, Body(t), db)
    BY QueryAnswer, OutcomesAreRight
<1> QED BY <1>1, <1>2

LEMMA RunQueryStep ==
    ASSUME CallsInv, NEW t \in Threads, RunQuery(t)
    PROVE  CallsInv'
<1>1. /\ UNCHANGED <<module, known, native, opened, submitted, created, lost>>
      /\ thread[t].phase = "connected"
    BY DEF RunQuery
<1>2. PICK o : RightOutcome(o, Body(t), db) /\ db' = o.db /\ Ends(t, o.status, o.rows)
    BY QueryOutcome
<1>3. o.status \in Statuses /\ WellFormed(db') /\ db'.views = db.views
    BY <1>2 DEF RightOutcome, Evolves, Statuses
<1>4. Moves(t, "idle", o.status)
    BY <1>2, ThreadMoves
<1>5. KnownOK'
    BY <1>1 DEF CallsInv, KnownOK
<1>6. ViewsSurvive'
    BY <1>1, <1>3, <1>4, ViewsStay DEF Moves
<1>7. "idle" \in Phases
    BY DEF Phases
<1> QED BY <1>1, <1>3, <1>4, <1>5, <1>6, <1>7, OtherStep

\* create_view drops the old view and is about to create the new one.
LEMMA ViewDropped ==
    ASSUME CallsInv, NEW t \in Threads, NEW status, Moves(t, "creating", status),
           thread[t].phase # "creating", UNCHANGED <<created, lost>>,
           db'.views = Restrict(db.views, DOMAIN db.views \ {Body(t).x.name})
    PROVE  ViewsSurvive'
<1>1. ASSUME NEW v \in created
      PROVE  \/ IsView(db, v)'
             \/ \E u \in Threads : (thread[u].phase = "creating" /\ Body(u).x.name = v)'
             \/ v \in lost'
    <2>1. \/ IsView(db, v)
          \/ \E u \in Threads : thread[u].phase = "creating" /\ Body(u).x.name = v
          \/ v \in lost
        BY <1>1 DEF CallsInv, ViewsSurvive
    <2>2. CASE v = Body(t).x.name
        BY <2>2 DEF Moves, Body
    <2>3. CASE IsView(db, v) /\ v # Body(t).x.name
        BY <2>3 DEF IsView, Restrict
    <2>4. ASSUME NEW u \in Threads, thread[u].phase = "creating", Body(u).x.name = v
          PROVE  thread'[u].phase = "creating" /\ Body(u)'.x.name = v
        BY <2>4 DEF Moves, Body
    <2> QED BY <2>1, <2>2, <2>3, <2>4
<1> QED BY <1>1 DEF ViewsSurvive

LEMMA DropViewStep ==
    ASSUME CallsInv, NEW t \in Threads, DropView(t)
    PROVE  CallsInv'
<1>1. /\ UNCHANGED <<module, known, native, opened, submitted, created, lost>>
      /\ thread[t].phase = "connected" /\ Body(t).kind = "view"
    BY DEF DropView
<1>2. KnownOK' /\ {"idle", "creating"} \subseteq Phases /\ "failed" \in Statuses
      /\ thread[t].status \in Statuses /\ WellFormed(db)
    BY <1>1 DEF CallsInv, KnownOK, Phases, Statuses, ThreadOK
<1>3. CASE Ends(t, "failed", <<>>) /\ UNCHANGED db
    <2>1. Moves(t, "idle", "failed")
        BY <1>3, ThreadMoves
    <2>2. ViewsSurvive' /\ WellFormed(db')
        BY <1>1, <1>2, <1>3, <2>1, ViewsStay DEF Moves
    <2> QED BY <1>1, <1>2, <2>1, <2>2, OtherStep
<1> DEFINE views == Restrict(db.views, DOMAIN db.views \ {Body(t).x.name})
<1>4. CASE Goes(t, "creating") /\ db' = [db EXCEPT !.views = views]
    <2>1. Moves(t, "creating", thread[t].status)
        BY <1>4, ThreadMoves
    <2>2. WellFormed(db') /\ db'.views = views
        BY <1>2, <1>4, ViewsReplaced, Zenon
    <2>3. ViewsSurvive'
        BY <1>1, <2>1, <2>2, ViewDropped
    <2> QED BY <1>1, <1>2, <2>1, <2>2, <2>3, OtherStep
<1>5. \/ Ends(t, "failed", <<>>) /\ UNCHANGED db
      \/ Goes(t, "creating") /\ db' = [db EXCEPT !.views = views]
    BY Zenon DEF DropView
<1> QED BY <1>3, <1>4, <1>5

LEMMA DropListedStep ==
    ASSUME CallsInv, NEW t \in Threads, DropListed(t)
    PROVE  CallsInv'
<1>1. /\ UNCHANGED <<module, known, native, opened, submitted, created, lost>>
      /\ thread[t].phase = "dropping"
    BY DEF DropListed
<1>2. KnownOK' /\ "creating" \in Phases /\ Body(t).kind = "view"
      /\ thread[t].status \in Statuses /\ WellFormed(db)
    BY <1>1 DEF CallsInv, KnownOK, Phases, ThreadOK
<1>3. Moves(t, "creating", thread[t].status)
    BY ThreadMoves DEF DropListed
<1>4. WellFormed(db') /\ db'.views = Restrict(db.views, DOMAIN db.views \ {Body(t).x.name})
    <2> DEFINE name == Body(t).x.name
    <2>1. db' = [db EXCEPT !.views = Restrict(@, DOMAIN @ \ {name}),
                           !.tables = Restrict(@, DOMAIN @ \ {name})]
        BY Zenon DEF DropListed
    <2> HIDE DEF name
    <2>2. WellFormed(db') /\ db'.views = Restrict(db.views, DOMAIN db.views \ {name})
        BY <1>2, <2>1, RelationDropped, Zenon
    <2> QED BY <2>2 DEF name
<1>5. ViewsSurvive'
    BY <1>1, <1>3, <1>4, ViewDropped
<1> QED BY <1>1, <1>2, <1>3, <1>4, <1>5, OtherStep

\* create_view ends: its view is there, or lost unless another one put it back.
LEMMA CreateViewOutcome ==
    ASSUME NEW t \in Threads, CreateView(t)
    PROVE  LET name == Body(t).x.name
           IN  \/ /\ Ends(t, "failed", <<>>) /\ db' = db /\ created' = created
                  /\ lost' = lost \union ((created \intersect {name}) \ DOMAIN db.views)
               \/ /\ Ends(t, "done", <<>>)
                  /\ db' = [db EXCEPT !.views = Put(db.views, name, Body(t))]
                  /\ created' = created \union {name} /\ lost' = lost \ {name}
<1> DEFINE name == Body(t).x.name
<1>1. PICK o \in PgCreateView(Body(t), db) \union MongoCreateView(Body(t), db) :
        /\ db' = o.db
        /\ Ends(t, o.status, <<>>)
        /\ created' = IF o.status = "done" THEN created \union {name} ELSE created
        /\ lost' = IF o.status = "done" THEN lost \ {name}
                   ELSE lost \union ((created \intersect {name}) \ DOMAIN db.views)
    BY DEF CreateView
<1>2. CASE o.status = "failed" /\ o.db = db
    BY <1>1, <1>2
<1>3. CASE /\ o.status = "done"
           /\ o.db = [db EXCEPT !.views = Put(db.views, name, Body(t))]
    BY <1>1, <1>3
<1> QED BY <1>2, <1>3, ViewOutcomes

LEMMA CreateViewStep ==
    ASSUME CallsInv, NEW t \in Threads, CreateView(t)
    PROVE  CallsInv'
<1> DEFINE name == Body(t).x.name
           views == Put(db.views, name, Body(t))
<1>1. /\ UNCHANGED <<module, known, native, opened, submitted>>
      /\ thread[t].phase = "creating"
    BY DEF CreateView
<1>2. KnownOK' /\ "idle" \in Phases /\ {"failed", "done"} \subseteq Statuses /\ WellFormed(db)
    BY <1>1 DEF CallsInv, KnownOK, Phases, Statuses
\* Another create_view that was about to create its view still is.
<1>3. ASSUME Moves(t, "idle", "failed") \/ Moves(t, "idle", "done"), NEW v \in created, v # name
      PROVE  \/ IsView(db, v) \/ v \in lost
             \/ \E u \in Threads : (thread[u].phase = "creating" /\ Body(u).x.name = v)'
    <2>1. \/ IsView(db, v)
          \/ \E u \in Threads : thread[u].phase = "creating" /\ Body(u).x.name = v
          \/ v \in lost
        BY <1>3 DEF CallsInv, ViewsSurvive
    <2>2. ASSUME NEW u \in Threads, thread[u].phase = "creating", Body(u).x.name = v
          PROVE  thread'[u].phase = "creating" /\ Body(u)'.x.name = v
        BY <1>3, <2>2 DEF Moves, Body
    <2> QED BY <2>1, <2>2
<1>4. CASE /\ Ends(t, "failed", <<>>) /\ db' = db /\ created' = created
           /\ lost' = lost \union ((created \intersect {name}) \ DOMAIN db.views)
    <2>1. Moves(t, "idle", "failed")
        BY <1>4, ThreadMoves
    <2>2. ViewsSurvive'
        <3>1. ASSUME NEW v \in created
              PROVE  \/ IsView(db, v) \/ v \in lost'
                     \/ \E u \in Threads : (thread[u].phase = "creating" /\ Body(u).x.name = v)'
            BY <1>3, <1>4, <2>1 DEF IsView
        <3> QED BY <1>4, <3>1 DEF ViewsSurvive
    <2> QED BY <1>1, <1>2, <1>4, <2>1, <2>2, OtherStep
<1>5. CASE /\ Ends(t, "done", <<>>) /\ db' = [db EXCEPT !.views = views]
           /\ created' = created \union {name} /\ lost' = lost \ {name}
    <2>1. Moves(t, "idle", "done")
        BY <1>5, ThreadMoves
    <2>2. WellFormed(db') /\ db'.views = views
        BY <1>2, <1>5, ViewsReplaced, Zenon
    <2>3. DOMAIN views = DOMAIN db.views \union {name}
        BY DEF Put
    <2>4. ViewsSurvive'
        <3> HIDE DEF views, name
        <3>1. ASSUME NEW v \in created'
              PROVE  \/ IsView(db, v)' \/ v \in lost'
                     \/ \E u \in Threads : (thread[u].phase = "creating" /\ Body(u).x.name = v)'
            BY <1>3, <1>5, <2>1, <2>2, <2>3 DEF IsView
        <3> QED BY <3>1 DEF ViewsSurvive
    <2> QED BY <1>1, <1>2, <2>1, <2>2, <2>4, OtherStep
<1> QED BY <1>4, <1>5, CreateViewOutcome

LEMMA NextCallsInv ==
    ASSUME CallsInv, [Next]_vars
    PROVE  CallsInv'
<1>1. CASE UNCHANGED vars
    <2>1. UNCHANGED <<module, db, known, native, opened, thread, submitted, created, lost>>
        BY <1>1 DEF vars
    <2>2. /\ module' \in DOMAIN Databases /\ WellFormed(db') /\ KnownOK'
          /\ DOMAIN thread' = Threads /\ DOMAIN opened' = Threads
          /\ submitted' \in 0..MaxStatements
        BY <2>1 DEF CallsInv, KnownOK
    <2>3. \A t \in Threads : ThreadOK(t)'
        BY <2>1 DEF CallsInv, ThreadOK, Body
    <2>4. \A t \in Threads : ConnectionOK(t)'
        BY <2>1 DEF CallsInv, ConnectionOK
    <2>5. native' \in BOOLEAN /\ (native' => \E t \in Threads : opened'[t] > 0)
        BY <2>1 DEF CallsInv
    <2>6. ViewsSurvive'
        BY <2>1 DEF CallsInv, ViewsSurvive, IsView, Body
    <2> QED BY <2>2, <2>3, <2>4, <2>5, <2>6 DEF CallsInv
<1>2. ASSUME NEW t \in Threads, NEW s \in Stmts, Submit(t, s) PROVE CallsInv'
    BY <1>2, SubmitStep
<1>3. ASSUME NEW t \in Threads, TestConnection(t) PROVE CallsInv'
    BY <1>3, TestConnectionStep
<1>4. ASSUME NEW t \in Threads, BuildConnection(t) PROVE CallsInv'
    BY <1>4, BuildConnectionStep
<1>5. ASSUME NEW t \in Threads, StoreConnection(t) PROVE CallsInv'
    BY <1>5, StoreConnectionStep
<1>6. ASSUME NEW t \in Threads, RunQuery(t) PROVE CallsInv'
    BY <1>6, RunQueryStep
<1>7. ASSUME NEW t \in Threads, DropView(t) PROVE CallsInv'
    BY <1>7, DropViewStep
<1>8. ASSUME NEW t \in Threads, DropListed(t) PROVE CallsInv'
    BY <1>8, DropListedStep
<1>9. ASSUME NEW t \in Threads, CreateView(t) PROVE CallsInv'
    BY <1>9, CreateViewStep
<1>10. ASSUME NEW t \in Threads, DescribeTables(t) PROVE CallsInv'
    BY <1>10, DescribeTablesStep
<1>11. ASSUME NEW t \in Threads,
              BuildFails(t) \/ ListNames(t) \/ NoViews(t) \/ ListTables(t)
       PROVE  CallsInv'
    BY <1>11, SilentSteps
<1> QED BY <1>1, <1>2, <1>3, <1>4, <1>5, <1>6, <1>7, <1>8, <1>9, <1>10, <1>11 DEF Next

\* The threads, the connection, the stored schema and the views keep the
\* inductive invariant in every interleaving of the queries.
THEOREM CallsInvariant == Spec => []CallsInv
BY InitCallsInv, NextCallsInv, PTL DEF Spec

\* _ensure_connection, _execute_ddl and _execute_setup keep the session's types:
\* phases, modules and schemas fit together whatever the modules answer.
THEOREM CallsTypes == Spec => []CallsTypeOK
<1>1. CallsInv => CallsTypeOK
    BY DEF CallsInv, CallsTypeOK, KnownOK, ThreadOK
<1> QED BY <1>1, CallsInvariant, PTL

\* _ensure_connection: no thread builds a second native connection, however
\* many threads test and store at the same time.
THEOREM OneConnection == Spec => []OneConnectionPerThread
<1>1. CallsInv => OneConnectionPerThread
    BY DEF CallsInv, OneConnectionPerThread, ConnectionOK
<1> QED BY <1>1, CallsInvariant, PTL

\* create_view: a view that was created is there, about to be created again,
\* or one whose replacement has failed.
THEOREM ViewsSurviveOrAreLost == Spec => []ViewsSurvive
<1>1. CallsInv => ViewsSurvive
    BY DEF CallsInv
<1> QED BY <1>1, CallsInvariant, PTL

\* Only a query and MongoDB's drop change tables; the module stays and views once
\* created are not forgotten.
LEMMA TablesChange ==
    ASSUME CallsInv, [Next]_vars
    PROVE  /\ module' = module /\ created \subseteq created'
           /\ \/ db'.tables = db.tables
              \/ \E t \in Threads : RunQuery(t)
              \/ module = "mongodb" /\ \E name :
                    db'.tables = Restrict(db.tables, DOMAIN db.tables \ {name})
<1>1. ASSUME NEW t \in Threads, DropView(t)
      PROVE  db'.tables = db.tables
    <2>1. \/ db' = db
          \/ \E views : db' = [db EXCEPT !.views = views]
        BY <1>1, Zenon DEF DropView
    <2> QED BY <2>1, ViewsReplaced DEF CallsInv
<1>2. ASSUME NEW t \in Threads, CreateView(t)
      PROVE  db'.tables = db.tables /\ created \subseteq created'
    <2>1. \/ db' = db
          \/ db' = [db EXCEPT !.views = Put(db.views, Body(t).x.name, Body(t))]
        BY <1>2, CreateViewOutcome
    <2>2. created \subseteq created'
        BY <1>2, CreateViewOutcome
    <2>3. db'.tables = db.tables
        <3>1. WellFormed(db)
            BY DEF CallsInv
        <3> DEFINE views == Put(db.views, Body(t).x.name, Body(t))
        <3>2. db' = db \/ db' = [db EXCEPT !.views = views]
            BY <2>1
        <3> HIDE DEF views
        <3> QED BY <3>1, <3>2, ViewsReplaced
    <2> QED BY <2>2, <2>3
<1>3. ASSUME NEW t \in Threads, DropListed(t)
      PROVE  module = "mongodb" /\ \E name :
                db'.tables = Restrict(db.tables, DOMAIN db.tables \ {name})
    <2> DEFINE dropped == Body(t).x.name
    <2>1. db' = [db EXCEPT !.views = Restrict(@, DOMAIN @ \ {dropped}),
                           !.tables = Restrict(@, DOMAIN @ \ {dropped})]
        BY <1>3, Zenon DEF DropListed
    <2>2. module = "mongodb"
        BY <1>3 DEF DropListed, CallsInv, ThreadOK
    <2> HIDE DEF dropped
    <2>3. db'.tables = Restrict(db.tables, DOMAIN db.tables \ {dropped})
        BY <2>1, RelationDropped, Zenon DEF CallsInv
    <2> QED BY <2>2, <2>3
<1>4. \/ UNCHANGED db
      \/ \E t \in Threads : RunQuery(t) \/ DropView(t) \/ CreateView(t) \/ DropListed(t)
    BY DEF Next, vars, Submit, TestConnection, BuildConnection, BuildFails, StoreConnection,
           ListNames, NoViews, ListTables, DescribeTables
<1>5. module' = module /\ (created' = created \/ \E t \in Threads : CreateView(t))
    BY DEF Next, vars, Submit, TestConnection, BuildConnection, BuildFails, StoreConnection,
           ListNames, NoViews, ListTables, DescribeTables, RunQuery, DropView, DropListed, CreateView
<1> QED BY <1>1, <1>2, <1>3, <1>4, <1>5

LEMMA StepsKeepOtherRows ==
    ASSUME CallsInv, [Next]_vars, NEW name \in DOMAIN db.tables \intersect DOMAIN db'.tables
    PROVE  \/ \E t \in Threads : Writes(t, name)
           \/ KeepsRows(db.tables[name].rows, db'.tables[name].rows)
<1>1. CASE db'.tables = db.tables
    BY <1>1 DEF KeepsRows
<1>2. ASSUME NEW t \in Threads, RunQuery(t)
      PROVE  \/ Writes(t, name)
             \/ KeepsRows(db.tables[name].rows, db'.tables[name].rows)
    <2>1. PICK o : RightOutcome(o, Body(t), db) /\ db' = o.db /\ Ends(t, o.status, o.rows)
        BY <1>2, QueryOutcome
    <2>2. CASE o.status = "done" /\ name \in EditedBy(Body(t))
        <3>1. Moves(t, "idle", "done")
            BY <2>1, <2>2, ThreadMoves
        <3>2. /\ Body(t).kind = "write" /\ Body(t).x.command \in {"update", "delete"}
              /\ Body(t).x.table = name
            BY <2>2 DEF EditedBy
        <3>3. thread[t].phase = "connected"
            BY <1>2 DEF RunQuery
        <3> QED BY <3>1, <3>2, <3>3 DEF Moves, Writes, Answers
    <2>3. CASE ~(o.status = "done" /\ name \in EditedBy(Body(t)))
        BY <2>1, <2>3 DEF RightOutcome, Evolves
    <2> QED BY <2>2, <2>3
<1>3. ASSUME NEW dropped, db'.tables = Restrict(db.tables, DOMAIN db.tables \ {dropped})
      PROVE  KeepsRows(db.tables[name].rows, db'.tables[name].rows)
    <2>1. db'.tables[name] = db.tables[name]
        BY <1>3 DEF Restrict
    <2> QED BY <2>1 DEF KeepsRows
<1> QED BY <1>1, <1>2, <1>3, TablesChange

\* Whatever the modules translate a statement to, a row of a table that stays is
\* changed or deleted only by an update or delete of this table that succeeds.
THEOREM OtherRowsAreUntouched == Spec => OtherRowsUntouched
<1>1. CallsInv /\ [Next]_vars =>
        [\A name \in DOMAIN db.tables \intersect DOMAIN db'.tables :
            \/ \E t \in Threads : Writes(t, name)
            \/ KeepsRows(db.tables[name].rows, db'.tables[name].rows)]_vars
    BY StepsKeepOtherRows
<1> QED BY <1>1, CallsInvariant, PTL DEF Spec, OtherRowsUntouched

-----------------------------------------------------------------------------
\* The rows of the tables.

\* All tables have rows that fit.
DataOK(m, tables) == \A n \in DOMAIN tables : RowsFit(m, tables[n])

LEMMA RowShape ==
    ASSUME NEW r
    PROVE  r \in Rows <=> DOMAIN r \subseteq Fields /\ r \in [DOMAIN r -> Contents]
BY DEF Rows

LEMMA RowsMerged ==
    ASSUME NEW r \in Rows, NEW s \in Rows
    PROVE  /\ Over(r, s) \in Rows
           /\ DOMAIN Over(r, s) = DOMAIN r \union DOMAIN s
<1> DEFINE both == Over(r, s)
           D == DOMAIN r \union DOMAIN s
<1>1. both = [x \in D |-> IF x \in DOMAIN r THEN r[x] ELSE s[x]]
    BY DEF Over
<1> HIDE DEF both
<1>2. \A x \in D : (IF x \in DOMAIN r THEN r[x] ELSE s[x]) \in Contents
    BY RowShape
<1>3. D \subseteq Fields
    BY RowShape
<1>4. DOMAIN both = D /\ both \in [D -> Contents]
    BY <1>1, <1>2
<1>5. both \in Rows
    BY <1>3, <1>4, RowShape
<1> QED BY <1>4, <1>5 DEF both

\* A table's other rows.
LEMMA RowsFitAfter ==
    ASSUME NEW m, NEW d, WellFormed(d), DataOK(m, d.tables), NEW table, IsTable(d, table),
           NEW R, R \in [DOMAIN R -> Rows],
           m = "postgresql" =>
               \A id \in DOMAIN R : DOMAIN R[id] = Range(d.tables[table].columns),
           m = "mongodb" => \A id \in DOMAIN R : "_id" \in DOMAIN R[id]
    PROVE  DataOK(m, OtherRows(d, table, R))
<1> DEFINE T == OtherRows(d, table, R)
           old == d.tables[table]
           new == [columns |-> old.columns, strict |-> old.strict, rows |-> R]
<1>1. /\ DOMAIN T = DOMAIN d.tables /\ T[table] = new
      /\ \A n \in DOMAIN d.tables : n # table => T[n] = d.tables[n]
    BY RowsReplaced DEF WellFormed
<1>2. RowsFit(m, new)
    <2>1. RowsFit(m, old)
        BY DEF DataOK, IsTable
    <2>2. new.rows = R /\ new.columns = old.columns
        OBVIOUS
    <2> HIDE DEF new, old
    <2>3. m = "postgresql" => \A id \in DOMAIN R : DOMAIN R[id] = Range(old.columns)
        BY DEF old
    <2> QED BY <2>1, <2>2, <2>3 DEF RowsFit
<1> HIDE DEF T, new, old
<1>3. ASSUME NEW n \in DOMAIN T
      PROVE  RowsFit(m, T[n])
    <2>1. CASE n = table
        BY <1>1, <1>2, <2>1
    <2>2. CASE n # table
        BY <1>1, <2>2 DEF DataOK
    <2> QED BY <2>1, <2>2
<1> QED BY <1>3 DEF DataOK, T

\* The tables after a change of rows.
LEMMA TablesAfter ==
    ASSUME NEW d, WellFormed(d), NEW T, NEW L
    PROVE  OtherTables(d, T).tables = T /\ OtherLinks(d, T, L).tables = T
<1>1. d = [tables |-> d.tables, views |-> d.views, links |-> d.links]
    BY DEF WellFormed, IsDatabase
<1>2. OtherTables(d, T) = [tables |-> T, views |-> d.views, links |-> d.links]
    BY <1>1, Replaced, Zenon DEF OtherTables
<1>3. OtherLinks(d, T, L) = [OtherTables(d, T) EXCEPT !.links = L]
    BY DEF OtherLinks, OtherTables
<1>4. [[tables |-> T, views |-> d.views, links |-> d.links] EXCEPT !.links = L].tables = T
    OBVIOUS
<1> QED BY <1>2, <1>3, <1>4

LEMMA InsertedFits ==
    ASSUME NEW m, NEW d, WellFormed(d), DataOK(m, d.tables), NEW table, IsTable(d, table),
           NEW row \in Rows, m = "postgresql" => DOMAIN row = Range(d.tables[table].columns),
           m = "mongodb" => "_id" \in DOMAIN row
    PROVE  DataOK(m, WithRow(d, table, row).tables)
<1> DEFINE new == NewIdentity(d)
           rows == d.tables[table].rows
           columns == d.tables[table].columns
           R == Put(rows, new, row)
<1>1. WithRow(d, table, row) = OtherTables(d, OtherRows(d, table, R))
    BY DEF WithRow, OtherRows, OtherTables
<1>2. /\ rows \in [DOMAIN rows -> Rows]
      /\ m = "postgresql" => \A id \in DOMAIN rows : DOMAIN rows[id] = Range(columns)
      /\ m = "mongodb" => \A id \in DOMAIN rows : "_id" \in DOMAIN rows[id]
    BY DEF DataOK, IsTable, RowsFit
<1>3. m = "postgresql" => DOMAIN row = Range(columns)
    OBVIOUS
<1>4. R = [k \in DOMAIN rows \union {new} |-> IF k = new THEN row ELSE rows[k]]
    BY DEF Put
<1> HIDE DEF new, rows, columns, R
<1>5. DOMAIN R = DOMAIN rows \union {new}
      /\ \A k \in DOMAIN R : R[k] = IF k = new THEN row ELSE rows[k]
    BY <1>4
<1>6. R \in [DOMAIN R -> Rows]
    BY <1>2, <1>4, <1>5
<1>7. /\ m = "postgresql" => \A id \in DOMAIN R : DOMAIN R[id] = Range(columns)
      /\ m = "mongodb" => \A id \in DOMAIN R : "_id" \in DOMAIN R[id]
    BY <1>2, <1>3, <1>5
<1>8. DataOK(m, OtherRows(d, table, R))
    BY <1>6, <1>7, RowsFitAfter DEF columns
<1> QED BY <1>1, <1>8, TablesAfter

LEMMA AssignedFits ==
    ASSUME NEW m, NEW d, WellFormed(d), DataOK(m, d.tables), NEW table, IsTable(d, table),
           NEW ids, NEW values \in Rows,
           m = "postgresql" => DOMAIN values \subseteq Range(d.tables[table].columns)
    PROVE  DataOK(m, Assigned(d, table, ids, values).tables)
<1> DEFINE rows == d.tables[table].rows
           columns == d.tables[table].columns
           R == [id \in DOMAIN rows |-> IF id \in ids THEN Over(values, rows[id]) ELSE rows[id]]
<1>1. Assigned(d, table, ids, values) = OtherTables(d, OtherRows(d, table, R))
    BY DEF Assigned, OtherRows, OtherTables
<1>2. /\ rows \in [DOMAIN rows -> Rows]
      /\ m = "postgresql" => \A id \in DOMAIN rows : DOMAIN rows[id] = Range(columns)
      /\ m = "mongodb" => \A id \in DOMAIN rows : "_id" \in DOMAIN rows[id]
    BY DEF DataOK, IsTable, RowsFit
<1>3. m = "postgresql" => DOMAIN values \subseteq Range(columns)
    OBVIOUS
<1>4. /\ DOMAIN R = DOMAIN rows
      /\ \A id \in DOMAIN rows : R[id] = IF id \in ids THEN Over(values, rows[id]) ELSE rows[id]
      /\ R = [id \in DOMAIN rows |-> R[id]]
    OBVIOUS
<1> HIDE DEF rows, columns, R
<1>5. ASSUME NEW id \in DOMAIN rows
      PROVE  /\ R[id] \in Rows
             /\ DOMAIN rows[id] \subseteq DOMAIN R[id]
             /\ DOMAIN R[id] \subseteq DOMAIN rows[id] \union DOMAIN values
    <2>1. rows[id] \in Rows
        BY <1>2
    <2>2. CASE id \in ids
        <3> DEFINE r == rows[id]
        <3>1. R[id] = Over(values, r) /\ r \in Rows
            BY <1>4, <2>1, <2>2
        <3> HIDE DEF r
        <3>2. Over(values, r) \in Rows /\ DOMAIN Over(values, r) = DOMAIN values \union DOMAIN r
            BY <3>1, RowsMerged
        <3>3. R[id] \in Rows /\ DOMAIN R[id] = DOMAIN values \union DOMAIN r
            BY <3>1, <3>2
        <3> QED BY <3>3 DEF r
    <2>3. CASE id \notin ids
        BY <1>4, <2>1, <2>3
    <2> QED BY <2>2, <2>3
<1>6. R \in [DOMAIN R -> Rows]
    BY <1>4, <1>5
<1>7. /\ m = "postgresql" => \A id \in DOMAIN R : DOMAIN R[id] = Range(columns)
      /\ m = "mongodb" => \A id \in DOMAIN R : "_id" \in DOMAIN R[id]
    BY <1>2, <1>3, <1>4, <1>5
<1>8. DataOK(m, OtherRows(d, table, R))
    BY <1>6, <1>7, RowsFitAfter DEF columns
<1> QED BY <1>1, <1>8, TablesAfter

LEMMA DeletedFits ==
    ASSUME NEW m, NEW d, WellFormed(d), DataOK(m, d.tables), NEW table, IsTable(d, table), NEW ids
    PROVE  DataOK(m, Without(d, table, ids).tables)
<1> DEFINE rows == d.tables[table].rows
           columns == d.tables[table].columns
           R == Restrict(rows, DOMAIN rows \ ids)
           L == {l \in d.links : {l.source, l.target} \intersect ids = {}}
<1>1. Without(d, table, ids) = OtherLinks(d, OtherRows(d, table, R), L)
    BY DEF Without, OtherRows, OtherLinks
<1>2. /\ rows \in [DOMAIN rows -> Rows]
      /\ m = "postgresql" => \A id \in DOMAIN rows : DOMAIN rows[id] = Range(columns)
      /\ m = "mongodb" => \A id \in DOMAIN rows : "_id" \in DOMAIN rows[id]
    BY DEF DataOK, IsTable, RowsFit
<1>3. /\ DOMAIN R \subseteq DOMAIN rows /\ \A id \in DOMAIN R : R[id] = rows[id]
      /\ R = [id \in DOMAIN R |-> R[id]]
    BY DEF Restrict
<1> HIDE DEF rows, columns, R, L
<1>4. R \in [DOMAIN R -> Rows]
    BY <1>2, <1>3
<1>5. /\ m = "postgresql" => \A id \in DOMAIN R : DOMAIN R[id] = Range(columns)
      /\ m = "mongodb" => \A id \in DOMAIN R : "_id" \in DOMAIN R[id]
    BY <1>2, <1>3
<1>6. DataOK(m, OtherRows(d, table, R))
    BY <1>4, <1>5, RowsFitAfter DEF columns
<1> QED BY <1>1, <1>6, TablesAfter

LEMMA CreatedFits ==
    ASSUME NEW m, NEW d, WellFormed(d), DataOK(m, d.tables), NEW name,
           NEW columns \in Seq(Fields), NEW strict
    PROVE  DataOK(m, WithTable(d, name, NewTable(columns, strict)).tables)
<1> DEFINE new == NewTable(columns, strict)
           T == Put(d.tables, name, new)
<1>1. WithTable(d, name, new) = OtherTables(d, T)
    BY DEF WithTable, OtherTables
<1>2. new.rows = <<>> /\ new.columns = columns
    BY DEF NewTable
<1>3. T = [k \in DOMAIN d.tables \union {name} |-> IF k = name THEN new ELSE d.tables[k]]
    BY DEF Put
<1> HIDE DEF new, T
<1>4. Range(columns) \subseteq Fields
    BY DEF Range
<1>5. RowsFit(m, new)
    <2>1. DOMAIN new.rows = {} /\ new.rows \in [DOMAIN new.rows -> Rows]
        BY <1>2
    <2> QED BY <1>2, <1>4, <2>1 DEF RowsFit
<1>6. DataOK(m, T)
    BY <1>3, <1>5 DEF DataOK
<1> QED BY <1>1, <1>6, TablesAfter DEF new

\* An answer whose database has tables that fit.
LEMMA OutcomeOn ==
    ASSUME NEW d, NEW rows
    PROVE  /\ \A o \in Returns(rows, d) : o.status = "done" /\ o.rows = rows /\ o.db = d
           /\ \A o \in Raises(d) : o.status = "failed" /\ o.rows = <<>> /\ o.db = d
BY DEF Returns, Raises, Outcome

LEMMA ReadsKeep ==
    ASSUME NEW d, NEW command, NEW rows, NEW ids, NEW o \in ReadOutcomes(command, rows, ids, d)
    PROVE  o.db = d /\ o.status = "done"
<1>1. \E r : o \in Returns(r, d)
    BY Zenon DEF ReadOutcomes
<1> QED BY <1>1, OutcomeOn

LEMMA PgFits ==
    ASSUME NEW stmt, IsCall(stmt), stmt.kind \in {"read", "write", "query"},
           NEW d, WellFormed(d), DataOK("postgresql", d.tables), NEW o \in PgOutcomes(stmt, d)
    PROVE  DataOK("postgresql", o.db.tables)
<1> DEFINE table == stmt.x.table
           values == Values(stmt)
           columns == d.tables[table].columns
<1>1. CASE stmt.kind = "query"
    <2>1. PgOutcomes(stmt, d) = PgQueryBlock(stmt, d)
        BY <1>1 DEF PgOutcomes
    <2>2. \E r : PgQueryBlock(stmt, d) = Returns(r, d) \/ PgQueryBlock(stmt, d) = Raises(d)
        BY Zenon DEF PgQueryBlock
    <2> QED BY <2>1, <2>2, OutcomeOn
<1>2. CASE stmt.kind = "read"
    <2>1. PgOutcomes(stmt, d) = PgRead(stmt, d)
        BY <1>2 DEF PgOutcomes
    <2>2. \/ \E c, r, i : PgRead(stmt, d) = ReadOutcomes(c, r, i, d)
          \/ PgRead(stmt, d) = Raises(d)
        BY Zenon DEF PgRead
    <2>3. o \in Raises(d) \/ \E c, r, i : o \in ReadOutcomes(c, r, i, d)
        BY <2>1, <2>2, Zenon
    <2>4. o.db = d
        BY <2>3, ReadsKeep, OutcomeOn, Zenon
    <2> QED BY <2>4
<1>3. CASE stmt.kind = "write"
    <2>1. values \in Rows /\ stmt.x.fields \in Seq(Fields)
        BY <1>3 DEF IsCall
    <2>2. ASSUME PgWritable(stmt, d)
          PROVE  /\ IsTable(d, table) /\ DOMAIN values \subseteq Range(columns)
                 /\ Range(columns) = PgColumns(d, table)
                 /\ Range(columns) \subseteq Fields
        <3>1. IsTable(d, table) /\ DOMAIN values \subseteq PgColumns(d, table)
            BY <2>2, Zenon DEF PgWritable, PgNamesExist
        <3>2. PgColumns(d, table) = Range(columns)
            BY <3>1, Zenon DEF PgColumns
        <3>3. Range(columns) \subseteq Fields
            BY <3>1 DEF DataOK, RowsFit, IsTable
        <3> QED BY <3>1, <3>2, <3>3
    <2>3. CASE stmt.x.command = "insert_row"
        <3> DEFINE nulls == [c \in PgColumns(d, table) |-> Null]
                   row == Over(values, nulls)
        <3>1. PgOutcomes(stmt, d) = PgInsert(stmt, d)
            BY <1>3, <2>3 DEF PgOutcomes
        <3>2. \/ PgInsert(stmt, d) = Raises(d)
              \/ PgWritable(stmt, d) /\ PgInsert(stmt, d) = Returns(<<row>>, WithRow(d, table, row))
            BY Zenon DEF PgInsert
        <3>3. ASSUME PgWritable(stmt, d)
              PROVE  row \in Rows /\ DOMAIN row = Range(columns)
            <4>1. DOMAIN nulls = Range(columns) /\ nulls \in [DOMAIN nulls -> Contents]
                BY <2>2, <3>3, CallsAssumption
            <4> HIDE DEF nulls, values, columns, table
            <4>2. nulls \in Rows
                BY <2>2, <3>3, <4>1, RowShape
            <4>3. DOMAIN row = DOMAIN values \union DOMAIN nulls /\ row \in Rows
                BY <2>1, <4>2, RowsMerged
            <4> QED BY <2>2, <3>3, <4>1, <4>3
        <3> HIDE DEF row
        <3>4. ASSUME PgWritable(stmt, d)
              PROVE  DataOK("postgresql", WithRow(d, table, row).tables)
            BY <2>2, <3>3, <3>4, InsertedFits
        <3> QED BY <3>1, <3>2, <3>4, OutcomeOn
    <2>4. CASE stmt.x.command = "update"
        <3>1. PgOutcomes(stmt, d) = PgUpdate(stmt, d)
            BY <1>3, <2>4 DEF PgOutcomes
        <3>2. \/ PgUpdate(stmt, d) = Raises(d)
              \/ /\ PgWritable(stmt, d)
                 /\ \E r, i : PgUpdate(stmt, d) = Returns(r, Assigned(d, table, i, values))
            BY Zenon DEF PgUpdate
        <3>3. ASSUME PgWritable(stmt, d), NEW i
              PROVE  DataOK("postgresql", Assigned(d, table, i, values).tables)
            BY <2>1, <2>2, <3>3, AssignedFits
        <3>4. CASE o \in Raises(d)
            BY <3>4, OutcomeOn
        <3>5. ASSUME PgWritable(stmt, d), NEW r, NEW i,
                     o \in Returns(r, Assigned(d, table, i, values))
              PROVE  DataOK("postgresql", o.db.tables)
            <4>1. o.db = Assigned(d, table, i, values)
                BY <3>5, OutcomeOn
            <4> QED BY <3>3, <3>5, <4>1
        <3> QED BY <3>1, <3>2, <3>4, <3>5
    <2>5. CASE stmt.x.command = "delete"
        <3>1. PgOutcomes(stmt, d) = PgDelete(stmt, d)
            BY <1>3, <2>5 DEF PgOutcomes
        <3>2. \/ PgDelete(stmt, d) = Raises(d)
              \/ /\ PgWritable(stmt, d)
                 /\ \E r, i : PgDelete(stmt, d) = Returns(r, Without(d, table, i))
            BY Zenon DEF PgDelete
        <3>3. ASSUME PgWritable(stmt, d), NEW i
              PROVE  DataOK("postgresql", Without(d, table, i).tables)
            BY <2>2, <3>3, DeletedFits
        <3> QED BY <3>1, <3>2, <3>3, OutcomeOn
    <2>6. CASE stmt.x.command = "insert_table"
        <3>1. PgOutcomes(stmt, d) = PgInsertTable(stmt, d)
            BY <1>3, <2>6 DEF PgOutcomes
        <3>2. \/ PgInsertTable(stmt, d) = Returns(<<>>, d)
              \/ \E t : PgInsertTable(stmt, d) =
                        Returns(<<>>, WithTable(d, table, NewTable(stmt.x.fields, t)))
            BY Zenon DEF PgInsertTable
        <3>3. ASSUME NEW t
              PROVE  DataOK("postgresql", WithTable(d, table, NewTable(stmt.x.fields, t)).tables)
            BY <2>1, CreatedFits
        <3> QED BY <3>1, <3>2, <3>3, OutcomeOn
    <2> QED BY <1>3, <2>3, <2>4, <2>5, <2>6 DEF IsCall, WriteCommands
<1> QED BY <1>1, <1>2, <1>3

LEMMA InsertedAnywhereFits ==
    ASSUME NEW m \in {"mongodb", "neo4j"}, NEW d, WellFormed(d), DataOK(m, d.tables), NEW table,
           NEW row \in Rows, m = "mongodb" => "_id" \in DOMAIN row
    PROVE  LET there == IF IsTable(d, table) THEN d
                        ELSE WithTable(d, table, NewTable(<<>>, FALSE))
           IN  DataOK(m, WithRow(there, table, row).tables)
<1> DEFINE there == IF IsTable(d, table) THEN d
                    ELSE WithTable(d, table, NewTable(<<>>, FALSE))
<1>1. Evolves(d, there, {}) /\ IsTable(there, table)
    BY SameDatabase, TableCreated
<1>2. DataOK(m, there.tables)
    <2>1. <<>> \in Seq(Fields)
        OBVIOUS
    <2>2. DataOK(m, WithTable(d, table, NewTable(<<>>, FALSE)).tables)
        BY <2>1, CreatedFits
    <2> QED BY <2>2
<1> HIDE DEF there
<1>3. WellFormed(there)
    BY <1>1 DEF Evolves
<1>4. DataOK(m, WithRow(there, table, row).tables)
    BY <1>1, <1>2, <1>3, InsertedFits
<1> QED BY <1>4 DEF there

LEMMA MongoFits ==
    ASSUME NEW stmt, IsCall(stmt), stmt.kind \in {"read", "write", "query"},
           NEW d, WellFormed(d), DataOK("mongodb", d.tables), NEW o \in MongoOutcomes(stmt, d)
    PROVE  DataOK("mongodb", o.db.tables)
<1> DEFINE table == stmt.x.table
           values == Values(stmt)
<1>1. CASE o \in Raises(d)
    BY <1>1, OutcomeOn
<1>2. CASE stmt.kind = "query"
    BY <1>1, <1>2 DEF MongoOutcomes
<1>3. CASE stmt.kind = "read"
    <2>1. MongoOutcomes(stmt, d) = MongoRead(stmt, d)
        BY <1>3 DEF MongoOutcomes
    <2>2. \E c, r, i : MongoRead(stmt, d) = ReadOutcomes(c, r, i, d)
        BY Zenon DEF MongoRead
    <2>3. PICK c, r, i : o \in ReadOutcomes(c, r, i, d)
        BY <2>1, <2>2, Zenon
    <2>4. o.db = d
        BY <2>3, ReadsKeep
    <2> QED BY <2>4
<1>4. CASE stmt.kind = "write"
    <2>1. values \in Rows /\ stmt.x.fields \in Seq(Fields)
        BY <1>4 DEF IsCall
    <2>2. ASSUME NEW ids \in MongoTouchable(stmt, d)
          PROVE  ids = {} \/ IsTable(d, table)
        BY <2>2 DEF MongoTouchable
    <2>3. CASE stmt.x.command = "insert_row"
        <3> DEFINE ids == [field \in {"_id"} |-> ObjectId]
                   row == Over(values, ids)
                   there == IF IsTable(d, table) THEN d
                            ELSE WithTable(d, table, NewTable(<<>>, FALSE))
        <3>1. MongoOutcomes(stmt, d) = MongoInsert(stmt, d)
            BY <1>4, <2>3 DEF MongoOutcomes
        <3>2. \/ MongoInsert(stmt, d) = Raises(d)
              \/ \E r : MongoInsert(stmt, d) = Returns(r, WithRow(there, table, row))
            BY Zenon DEF MongoInsert
        <3>3. row \in Rows /\ "_id" \in DOMAIN row
            <4>1. DOMAIN ids = {"_id"} /\ ids \in [DOMAIN ids -> Contents] /\ "_id" \in Fields
                BY CallsAssumption
            <4> HIDE DEF ids, values
            <4>2. ids \in Rows
                BY <4>1, RowShape
            <4>3. DOMAIN row = DOMAIN values \union DOMAIN ids /\ row \in Rows
                BY <2>1, <4>2, RowsMerged
            <4> QED BY <4>1, <4>3
        <3> HIDE DEF row
        <3>4. DataOK("mongodb", WithRow(there, table, row).tables)
            BY <3>3, InsertedAnywhereFits
        <3> HIDE DEF there
        <3> QED BY <1>1, <3>1, <3>2, <3>4, OutcomeOn
    <2>4. CASE stmt.x.command = "update"
        <3>1. o \in MongoUpdate(stmt, d)
            BY <1>4, <2>4 DEF MongoOutcomes
        <3>2. \/ o \in Raises(d)
              \/ \E ids \in MongoTouchable(stmt, d) :
                     o \in Returns(Counted(ids), IF ids = {} THEN d
                                                 ELSE Assigned(d, table, ids, values))
            BY <3>1, Zenon DEF MongoUpdate
        <3>3. ASSUME NEW ids \in MongoTouchable(stmt, d),
                     o \in Returns(Counted(ids), IF ids = {} THEN d
                                                 ELSE Assigned(d, table, ids, values))
              PROVE  DataOK("mongodb", o.db.tables)
            <4>1. o.db = IF ids = {} THEN d ELSE Assigned(d, table, ids, values)
                BY <3>3, OutcomeOn
            <4>2. CASE ids = {}
                BY <4>1, <4>2
            <4>3. CASE ids # {}
                <5>1. DataOK("mongodb", Assigned(d, table, ids, values).tables)
                    BY <2>1, <2>2, <4>3, AssignedFits
                <5> QED BY <4>1, <4>3, <5>1
            <4> QED BY <4>2, <4>3
        <3> QED BY <1>1, <3>2, <3>3
    <2>5. CASE stmt.x.command = "delete"
        <3>1. o \in MongoDelete(stmt, d)
            BY <1>4, <2>5 DEF MongoOutcomes
        <3>2. \/ o \in Raises(d)
              \/ \E ids \in MongoTouchable(stmt, d) :
                     o \in Returns(Counted(ids), IF ids = {} THEN d ELSE Without(d, table, ids))
            BY <3>1, Zenon DEF MongoDelete
        <3>3. ASSUME NEW ids \in MongoTouchable(stmt, d),
                     o \in Returns(Counted(ids), IF ids = {} THEN d ELSE Without(d, table, ids))
              PROVE  DataOK("mongodb", o.db.tables)
            <4>1. o.db = IF ids = {} THEN d ELSE Without(d, table, ids)
                BY <3>3, OutcomeOn
            <4>2. CASE ids = {}
                BY <4>1, <4>2
            <4>3. CASE ids # {}
                <5>1. DataOK("mongodb", Without(d, table, ids).tables)
                    BY <2>2, <4>3, DeletedFits
                <5> QED BY <4>1, <4>3, <5>1
            <4> QED BY <4>2, <4>3
        <3> QED BY <1>1, <3>2, <3>3
    <2>6. CASE stmt.x.command = "insert_table"
        <3>1. MongoOutcomes(stmt, d) = MongoInsertTable(stmt, d)
            BY <1>4, <2>6 DEF MongoOutcomes
        <3>2. \/ MongoInsertTable(stmt, d) = Returns(<<>>, d)
              \/ \E t : MongoInsertTable(stmt, d) =
                        Returns(<<>>, WithTable(d, table, NewTable(stmt.x.fields, t)))
            BY Zenon DEF MongoInsertTable
        <3>3. ASSUME NEW t
              PROVE  DataOK("mongodb", WithTable(d, table, NewTable(stmt.x.fields, t)).tables)
            BY <2>1, CreatedFits
        <3> QED BY <3>1, <3>2, <3>3, OutcomeOn
    <2> QED BY <1>4, <2>3, <2>4, <2>5, <2>6 DEF IsCall, WriteCommands
<1> QED BY <1>2, <1>3, <1>4

LEMMA NeoFits ==
    ASSUME NEW stmt, IsCall(stmt), stmt.kind \in {"read", "write", "query"},
           NEW d, WellFormed(d), DataOK("neo4j", d.tables), NEW o \in NeoOutcomes(stmt, d)
    PROVE  DataOK("neo4j", o.db.tables)
<1> DEFINE table == stmt.x.table
           values == Values(stmt)
<1>1. CASE o \in Raises(d)
    BY <1>1, OutcomeOn
<1>2. CASE stmt.kind = "query"
    <2>1. NeoOutcomes(stmt, d) = NeoQueryBlock(stmt, d)
        BY <1>2 DEF NeoOutcomes
    <2>2. \E r : NeoQueryBlock(stmt, d) = Returns(r, d) \/ NeoQueryBlock(stmt, d) = Raises(d)
        BY Zenon DEF NeoQueryBlock
    <2> QED BY <2>1, <2>2, OutcomeOn
<1>3. CASE stmt.kind = "read"
    <2>1. NeoOutcomes(stmt, d) = NeoRead(stmt, d)
        BY <1>3 DEF NeoOutcomes
    <2>2. \/ \E c, r, i : NeoRead(stmt, d) = ReadOutcomes(c, r, i, d)
          \/ NeoRead(stmt, d) = Raises(d)
        BY Zenon DEF NeoRead
    <2>3. o \in Raises(d) \/ \E c, r, i : o \in ReadOutcomes(c, r, i, d)
        BY <2>1, <2>2, Zenon
    <2>4. o.db = d
        BY <2>3, ReadsKeep, OutcomeOn, Zenon
    <2> QED BY <2>4
<1>4. CASE stmt.kind = "write"
    <2>1. values \in Rows
        BY <1>4 DEF IsCall
    <2>2. CASE stmt.x.command = "insert_row"
        <3> DEFINE there == IF IsTable(d, table) THEN d
                            ELSE WithTable(d, table, NewTable(<<>>, FALSE))
        <3>1. NeoOutcomes(stmt, d) = NeoInsert(stmt, d)
            BY <1>4, <2>2 DEF NeoOutcomes
        <3>2. \E r : NeoInsert(stmt, d) = Returns(r, WithRow(there, table, values))
            BY Zenon DEF NeoInsert
        <3>3. DataOK("neo4j", WithRow(there, table, values).tables)
            BY <2>1, InsertedAnywhereFits
        <3> HIDE DEF there
        <3> QED BY <3>1, <3>2, <3>3, OutcomeOn
    <2>3. CASE stmt.x.command = "update"
        <3>1. NeoOutcomes(stmt, d) = NeoUpdate(stmt, d)
            BY <1>4, <2>3 DEF NeoOutcomes
        <3>2. \/ NeoUpdate(stmt, d) = Raises(d)
              \/ \E r, i : NeoUpdate(stmt, d) =
                    Returns(r, IF IsTable(d, table) THEN Assigned(d, table, i, values) ELSE d)
            BY Zenon DEF NeoUpdate
        <3>3. ASSUME NEW r, NEW i,
                     o \in Returns(r, IF IsTable(d, table)
                                      THEN Assigned(d, table, i, values) ELSE d)
              PROVE  DataOK("neo4j", o.db.tables)
            <4>1. o.db = IF IsTable(d, table) THEN Assigned(d, table, i, values) ELSE d
                BY <3>3, OutcomeOn
            <4>2. CASE ~IsTable(d, table)
                BY <4>1, <4>2
            <4>3. CASE IsTable(d, table)
                <5>1. DataOK("neo4j", Assigned(d, table, i, values).tables)
                    BY <2>1, <4>3, AssignedFits
                <5> QED BY <4>1, <4>3, <5>1
            <4> QED BY <4>2, <4>3
        <3> QED BY <1>1, <3>1, <3>2, <3>3
    <2>4. CASE stmt.x.command = "delete"
        <3>1. NeoOutcomes(stmt, d) = NeoDelete(stmt, d)
            BY <1>4, <2>4 DEF NeoOutcomes
        <3>2. \/ NeoDelete(stmt, d) = Raises(d)
              \/ \E r, i : NeoDelete(stmt, d) =
                    Returns(r, IF IsTable(d, table) THEN Without(d, table, i) ELSE d)
            BY Zenon DEF NeoDelete
        <3>3. ASSUME NEW r, NEW i,
                     o \in Returns(r, IF IsTable(d, table) THEN Without(d, table, i) ELSE d)
              PROVE  DataOK("neo4j", o.db.tables)
            <4>1. o.db = IF IsTable(d, table) THEN Without(d, table, i) ELSE d
                BY <3>3, OutcomeOn
            <4>2. CASE ~IsTable(d, table)
                BY <4>1, <4>2
            <4>3. CASE IsTable(d, table)
                <5>1. DataOK("neo4j", Without(d, table, i).tables)
                    BY <4>3, DeletedFits
                <5> QED BY <4>1, <4>3, <5>1
            <4> QED BY <4>2, <4>3
        <3> QED BY <1>1, <3>1, <3>2, <3>3
    <2>5. CASE stmt.x.command = "insert_table"
        BY <1>1, <1>4, <2>5 DEF NeoOutcomes
    <2> QED BY <1>4, <2>2, <2>3, <2>4, <2>5 DEF IsCall, WriteCommands
<1> QED BY <1>2, <1>3, <1>4

\* What a module answers, before _execute_db_query unwraps it.
ModuleOutcomes(m, stmt, d) ==
    CASE m = "postgresql" -> PgOutcomes(stmt, d)
      [] m = "mongodb" -> MongoOutcomes(stmt, d)
      [] m = "neo4j" -> NeoOutcomes(stmt, d)

LEMMA OutcomeUnwrapped ==
    ASSUME NEW m, NEW d, NEW stmt, NEW o \in Outcomes(m, stmt, d)
    PROVE  \E first, p : p \in ModuleOutcomes(m, stmt, d) /\ o = Unwrapped(stmt, first, p)
<1>1. \E first : Outcomes(m, stmt, d) =
            {Unwrapped(stmt, first, p) : p \in ModuleOutcomes(m, stmt, d)}
    BY Zenon DEF Outcomes, ModuleOutcomes
<1> QED BY <1>1, Zenon

LEMMA UnwrappedKeeps ==
    ASSUME NEW stmt, NEW d, NEW first, NEW p, RightOutcome(p, stmt, d)
    PROVE  Unwrapped(stmt, first, p).db = p.db
<1> SUFFICES ASSUME NEW u, u = Unwrapped(stmt, first, p)
             PROVE  u.db = p.db
    OBVIOUS
<1>1. \/ u = p
      \/ u = Outcome("failed", <<>>, p.db)
      \/ \E rows : u = WithAnswer(p, rows)
    BY Zenon DEF Unwrapped, WithAnswer
<1>2. ASSUME NEW rows
      PROVE  WithAnswer(p, rows).db = p.db
    <2>1. p = [status |-> p.status, rows |-> p.rows, db |-> p.db]
        BY DEF RightOutcome, Outcome
    <2> QED BY <2>1 DEF WithAnswer
<1>3. Outcome("failed", <<>>, p.db).db = p.db
    BY DEF Outcome
<1> QED BY <1>1, <1>2, <1>3

\* Whatever a query does, the rows of the tables still fit.
LEMMA OutcomesFit ==
    ASSUME NEW m \in {"postgresql", "mongodb", "neo4j"}, NEW d, WellFormed(d),
           DataOK(m, d.tables), NEW stmt, IsCall(stmt), stmt.kind \in {"read", "write", "query"},
           NEW o \in Outcomes(m, stmt, d)
    PROVE  DataOK(m, o.db.tables)
<1>1. PICK first, p : p \in ModuleOutcomes(m, stmt, d) /\ o = Unwrapped(stmt, first, p)
    BY OutcomeUnwrapped
<1>2. RightOutcome(p, stmt, d) /\ DataOK(m, p.db.tables)
    <2>1. CASE m = "postgresql"
        <3>1. p \in PgOutcomes(stmt, d)
            BY <1>1, <2>1 DEF ModuleOutcomes
        <3> QED BY <2>1, <3>1, PgAnswers, PgFits
    <2>2. CASE m = "mongodb"
        <3>1. p \in MongoOutcomes(stmt, d)
            BY <1>1, <2>2 DEF ModuleOutcomes
        <3> QED BY <2>2, <3>1, MongoAnswers, MongoFits
    <2>3. CASE m = "neo4j"
        <3>1. p \in NeoOutcomes(stmt, d)
            BY <1>1, <2>3 DEF ModuleOutcomes
        <3> QED BY <2>3, <3>1, NeoAnswers, NeoFits
    <2> QED BY <2>1, <2>2, <2>3
<1> QED BY <1>1, <1>2, UnwrappedKeeps

DataInv == DataOK(module, db.tables)

LEMMA NextDataInv ==
    ASSUME CallsInv, DataInv, [Next]_vars
    PROVE  DataInv'
<1>1. CASE db'.tables = db.tables
    BY <1>1, TablesChange DEF DataInv
<1>2. ASSUME NEW t \in Threads, RunQuery(t)
      PROVE  DataInv'
    <2>1. PICK o \in Outcomes(module, Body(t), db) : db' = o.db
        BY <1>2, QueryAnswer
    <2>2. DataOK(module, o.db.tables)
        BY <1>2, QueryAnswer, OutcomesFit DEF DataInv
    <2> QED BY <2>1, <2>2, TablesChange DEF DataInv
<1>3. ASSUME NEW name, db'.tables = Restrict(db.tables, DOMAIN db.tables \ {name})
      PROVE  DataInv'
    BY <1>3, TablesChange DEF DataInv, DataOK, Restrict
<1> QED BY <1>1, <1>2, <1>3, TablesChange

LEMMA InitDataInv ==
    ASSUME Init PROVE DataInv
<1>1. module \in DOMAIN Databases /\ db \in Databases[module]
    BY DEF Init
<1>2. \A n \in DOMAIN db.tables : RowsFit(module, db.tables[n])
    BY <1>1, CallsAssumption
<1> QED BY <1>2 DEF DataInv, DataOK

\* The rows of all tables fit in every reachable state.
THEOREM RowsAlwaysFit == Spec => []DataInv
<1>1. Init => DataInv
    BY InitDataInv
<1>2. CallsInv /\ DataInv /\ [Next]_vars => DataInv'
    BY NextDataInv
<1> QED BY <1>1, <1>2, CallsInvariant, PTL DEF Spec

-----------------------------------------------------------------------------
\* The rows a statement is about.

\* A query is the work of the thread that is connected and then is idle.
LEMMA AnswersByQuery ==
    ASSUME CallsInv, [Next]_vars, NEW t \in Threads, NEW kind \in {"read", "write", "query"},
           NEW status, Answers(t, kind, status)
    PROVE  RunQuery(t)
<1>1. /\ thread[t].phase = "connected" /\ thread'[t].phase = "idle" /\ Body(t).kind = kind
      /\ t \in DOMAIN thread
    BY DEF Answers, CallsInv
<1>2. ASSUME NEW u \in Threads, u # t, thread' = [thread EXCEPT ![u] = thread'[u]]
      PROVE  FALSE
    <2>1. thread'[t] = thread[t]
        BY <1>1, <1>2
    <2> QED BY <1>1, <2>1
<1>3. PICK u \in Threads :
        \/ \E s \in Stmts : Submit(u, s)
        \/ TestConnection(u) \/ BuildConnection(u) \/ BuildFails(u) \/ StoreConnection(u)
        \/ RunQuery(u) \/ DropView(u) \/ ListNames(u) \/ DropListed(u) \/ NoViews(u)
        \/ CreateView(u) \/ ListTables(u) \/ DescribeTables(u)
    BY <1>1 DEF Next, vars
<1>4. \E r : thread' = [thread EXCEPT ![u] = r]
    BY <1>3, Zenon DEF Submit, TestConnection, BuildConnection, BuildFails, StoreConnection, RunQuery,
           DropView, ListNames, DropListed, NoViews, CreateView, ListTables, DescribeTables,
           Goes, Ends
<1>5. u = t
    <2> SUFFICES ASSUME u # t PROVE FALSE
        OBVIOUS
    <2>1. PICK r : thread' = [thread EXCEPT ![u] = r]
        BY <1>4
    <2>2. thread'[t] = thread[t]
        BY <1>1, <2>1
    <2> QED BY <1>1, <2>2
<1> QED BY <1>1, <1>3, <1>5 DEF Submit, TestConnection, BuildConnection, BuildFails, StoreConnection,
           DropView, ListNames, DropListed, NoViews, CreateView, ListTables, DescribeTables

\* Of rows that fit, an understood condition selects those it is true of.
LEMMA SelectsMeant ==
    ASSUME NEW s \in Stmts, NEW m \in DOMAIN Databases, NEW stmt, stmt = CallOf(Stmt[s]),
           stmt.kind \in {"read", "write"}, Understood(m, stmt.x.where),
           NEW rows, rows \in [DOMAIN rows -> Rows],
           \A id \in DOMAIN rows : Comparable(m, stmt.x.where, rows[id])
    PROVE  {id \in DOMAIN rows : Selects(m, stmt, rows[id])} = MeantIds(stmt, rows)
<1>1. \A row \in Rows : Comparable(m, stmt.x.where, row) =>
            (Selects(m, stmt, row) <=> Meant(stmt.x.where, row))
    BY TranslationsKeepMeaning
<1>2. ASSUME NEW id \in DOMAIN rows
      PROVE  Selects(m, stmt, rows[id]) <=> Meant(stmt.x.where, rows[id])
    <2>1. rows[id] \in Rows
        OBVIOUS
    <2> QED BY <1>1, <2>1
<1> QED BY <1>2 DEF MeantIds

LEMMA ModulesSelect ==
    ASSUME NEW stmt, NEW rows
    PROVE  /\ PgSelected(stmt, rows) = {id \in DOMAIN rows : Selects("postgresql", stmt, rows[id])}
           /\ MongoSelected(stmt.x.where, rows) =
                {id \in DOMAIN rows : Selects("mongodb", stmt, rows[id])}
<1>1. \A row : Selects("postgresql", stmt, row) <=> PgSelects(stmt.x.where, stmt.x.table, row)
    BY DEF Selects
<1>2. \A row : Selects("mongodb", stmt, row) <=> FilterMatches(FilterOf(Where(stmt.x.where)), row, <<>>)
    BY DEF Selects
<1> QED BY <1>1, <1>2 DEF PgSelected, MongoSelected

LEMMA NeoSelect ==
    ASSUME NEW stmt, NEW d, IsTable(d, stmt.x.table)
    PROVE  /\ NeoNodes(stmt, d) = d.tables[stmt.x.table].rows
           /\ NeoSelected(stmt, d) = {id \in DOMAIN d.tables[stmt.x.table].rows :
                                        Selects("neo4j", stmt, d.tables[stmt.x.table].rows[id])}
<1>1. NeoNodes(stmt, d) = d.tables[stmt.x.table].rows
    BY DEF NeoNodes
<1>2. \A row : Selects("neo4j", stmt, row) <=> NeoSelects(stmt.x.where, row)
    BY DEF Selects
<1> QED BY <1>1, <1>2 DEF NeoSelected

\* An answer in some order has each of the rows once.
LEMMA InOrderHasAll ==
    ASSUME NEW ids, IsFiniteSet(ids), NEW rows
    PROVE  /\ Len(InOrder(rows, ids)) = Cardinality(ids)
           /\ \A id \in ids : \E i \in DOMAIN InOrder(rows, ids) : InOrder(rows, ids)[i] = rows[id]
<1> DEFINE n == Cardinality(ids)
           order == SetToSeq(ids)
           answer == InOrder(rows, ids)
           all == {rows[id] : id \in ids}
<1>1. n \in Nat /\ ExistsBijection(1..n, ids)
    BY FS_CardinalityType
<1>2. \E f \in [1..n -> ids] : IsInjective(f)
    BY <1>1 DEF ExistsBijection, Bijection, Injection
<1>3. order \in [1..n -> ids] /\ IsInjective(order)
    BY <1>2, Zenon DEF SetToSeq
<1>4. answer = [i \in DOMAIN order |-> rows[order[i]]]
    BY DEF InOrder
<1> HIDE DEF order, answer
<1>5. IsFiniteSet(1..n) /\ Cardinality(1..n) = n
    <2> HIDE DEF n
    <2>1. 1 \in Int /\ n \in Int
        BY <1>1
    <2>2. IsFiniteSet(1..n) /\ Cardinality(1..n) = IF 1 > n THEN 0 ELSE n - 1 + 1
        BY <2>1, FS_Interval
    <2> QED BY <1>1, <2>2
<1>6. order \in Surjection(1..n, ids)
    BY <1>3, <1>5, FS_Injection DEF Injection
<1>7. answer \in [1..n -> all]
    BY <1>3, <1>4
<1>8. Len(answer) = n
    <2> HIDE DEF n
    <2> QED BY <1>1, <1>7
<1>9. ASSUME NEW id \in ids
      PROVE  \E i \in DOMAIN answer : answer[i] = rows[id]
    BY <1>3, <1>4, <1>6 DEF Surjection
<1> QED BY <1>8, <1>9 DEF answer
-----------------------------------------------------------------------------
\* Reads are answered with the rows their condition is true of.

\* An answer that consists of the projections of some rows, unwrapped.
LEMMA AnswerShows ==
    ASSUME NEW stmt, stmt.kind = "read", NEW rows, NEW projected, NEW d, NEW first,
           NEW p \in ReadOutcomes(stmt.x.command, projected, MeantIds(stmt, rows), d),
           Unwrapped(stmt, first, p).status = "done", IsFiniteSet(MeantIds(stmt, rows)),
           stmt.x.command = "get_value" => stmt.x.fields # <<>>,
           \A id \in MeantIds(stmt, rows) :
              IF stmt.x.command = "get_value"
              THEN /\ stmt.x.fields[1] \in DOMAIN projected[id]
                   /\ projected[id][stmt.x.fields[1]] = FieldOf(rows[id], stmt.x.fields[1])
              ELSE Shows(stmt, projected[id], rows[id])
    PROVE  ShowsMeant(stmt, Unwrapped(stmt, first, p).rows, rows)
<1> DEFINE ids == MeantIds(stmt, rows)
           answer == Unwrapped(stmt, first, p).rows
           field == stmt.x.fields[1]
           command == stmt.x.command
<1>1. CASE command \notin {"get_value", "get_row"}
    <2>1. p \in Returns(InOrder(projected, ids), d)
        BY <1>1, Zenon DEF ReadOutcomes
    <2>2. Unwrapped(stmt, first, p) = p
        BY <1>1, Zenon DEF Unwrapped
    <2>3. answer = InOrder(projected, ids)
        BY <2>1, <2>2, OutcomeOn
    <2>4. \A id \in ids : Shows(stmt, projected[id], rows[id])
        BY <1>1
    <2> HIDE DEF ids, answer
    <2>5. /\ Len(answer) = Cardinality(ids)
          /\ \A id \in ids : \E i \in DOMAIN answer : answer[i] = projected[id]
        BY <2>3, InOrderHasAll DEF ids
    <2>6. \A id \in ids : \E i \in DOMAIN answer : Shows(stmt, answer[i], rows[id])
        BY <2>4, <2>5
    <2> QED BY <1>1, <2>5, <2>6, Zenon DEF ShowsMeant, ids, answer
<1>2. CASE command \in {"get_value", "get_row"} /\ ids = {}
    <2>1. p \in Returns(<<>>, d)
        BY <1>2, Zenon DEF ReadOutcomes
    <2>2. p.rows = <<>>
        BY <2>1, OutcomeOn
    <2>3. Unwrapped(stmt, first, p) = p
        BY <2>2, Zenon DEF Unwrapped
    <2> QED BY <1>2, <2>2, <2>3, Zenon DEF ShowsMeant
<1>3. CASE command \in {"get_value", "get_row"} /\ ids # {}
    <2>1. PICK id \in ids : p \in Returns(<<projected[id]>>, d)
        <3>1. p \in UNION {Returns(<<projected[id]>>, d) : id \in ids}
            BY <1>3, Zenon DEF ReadOutcomes
        <3> QED BY <3>1
    <2>2. p.rows = <<projected[id]>> /\ p.rows # <<>> /\ p.rows[1] = projected[id]
        BY <2>1, OutcomeOn
    <2>3. Shows(stmt, answer[1], rows[id])
        <3>1. CASE command = "get_row"
            <4>1. Unwrapped(stmt, first, p) = p
                BY <3>1, Zenon DEF Unwrapped
            <4> QED BY <2>2, <3>1, <4>1
        <3>2. CASE command = "get_value"
            <4> DEFINE row == projected[id]
            <4>1. field \in DOMAIN row /\ row[field] = FieldOf(rows[id], field)
                BY <3>2
            <4>2. FirstKey(row, stmt.x.fields, first) = field
                BY <3>2, <4>1 DEF FirstKey
            <4>3. Unwrapped(stmt, first, p) = [p EXCEPT !.rows = <<[value |-> row[field]]>>]
                BY <2>2, <3>2, <4>1, <4>2 DEF Unwrapped
            <4>4. p = Outcome("done", <<projected[id]>>, d)
                BY <2>1 DEF Returns
            <4>5. answer = <<[value |-> row[field]]>>
                BY <4>3, <4>4 DEF Outcome
            <4>6. answer[1].value = FieldOf(rows[id], field)
                BY <4>1, <4>5
            <4> QED BY <3>2, <4>6 DEF Shows
        <3> QED BY <1>3, <3>1, <3>2
    <2> QED BY <1>3, <2>3, Zenon DEF ShowsMeant
<1> QED BY <1>1, <1>2, <1>3

LEMMA MeantAreFinite ==
    ASSUME NEW stmt, NEW d, WellFormed(d), NEW table, IsTable(d, table)
    PROVE  IsFiniteSet(MeantIds(stmt, d.tables[table].rows))
<1>1. PICK n \in Nat : BoundedBy(d, n)
    BY DEF WellFormed
<1>2. MeantIds(stmt, d.tables[table].rows) \subseteq 0..n
    BY <1>1 DEF BoundedBy, IsTable, MeantIds
<1>3. IsFiniteSet(0..n)
    BY FS_Interval
<1> QED BY <1>2, <1>3, FS_Subset

\* A statement of Stmts about a table whose rows fit.
Reads(stmt, m, d) ==
    /\ m \in DOMAIN Databases /\ \E s \in Stmts : stmt = CallOf(Stmt[s])
    /\ stmt.kind = "read" /\ WellFormed(d) /\ DataOK(m, d.tables) /\ IsTable(d, stmt.x.table)

\* What Common says of a read, module by module.
LEMMA ReadsSelect ==
    ASSUME NEW stmt, NEW d, Reads(stmt, module, d), Common(stmt, d.tables[stmt.x.table].rows)
    PROVE  LET rows == d.tables[stmt.x.table].rows
           IN  /\ rows \in [DOMAIN rows -> Rows]
               /\ {id \in DOMAIN rows : Selects(module, stmt, rows[id])} = MeantIds(stmt, rows)
               /\ IsFiniteSet(MeantIds(stmt, rows)) /\ MeantIds(stmt, rows) \subseteq DOMAIN rows
               /\ stmt.x.fields \in Seq(STRING)
               /\ stmt.x.command = "get_value" => stmt.x.fields # <<>>
<1> DEFINE rows == d.tables[stmt.x.table].rows
<1>1. rows \in [DOMAIN rows -> Rows]
    BY DEF Reads, DataOK, IsTable, RowsFit
<1>2. PICK s \in Stmts : stmt = CallOf(Stmt[s])
    BY DEF Reads
<1>3. stmt.x.fields \in Seq(STRING)
    BY <1>2, CallsAssumption DEF Reads, IsCall
<1>4. IsFiniteSet(MeantIds(stmt, rows))
    BY MeantAreFinite DEF Reads
<1>5. MeantIds(stmt, rows) \subseteq DOMAIN rows
    BY DEF MeantIds
<1> HIDE DEF rows
<1>6. Understood(module, stmt.x.where) /\ \A id \in DOMAIN rows : Comparable(module, stmt.x.where, rows[id])
    BY DEF Common, rows
<1>7. {id \in DOMAIN rows : Selects(module, stmt, rows[id])} = MeantIds(stmt, rows)
    BY <1>1, <1>2, <1>6, SelectsMeant DEF Reads
<1>8. stmt.x.command = "get_value" => stmt.x.fields # <<>>
    BY DEF Common
<1> QED BY <1>1, <1>3, <1>4, <1>5, <1>7, <1>8 DEF rows

LEMMA FailuresFail ==
    ASSUME NEW stmt, NEW d, NEW first, NEW p \in Raises(d)
    PROVE  Unwrapped(stmt, first, p) = p /\ p.status = "failed"
<1>1. p.rows = <<>> /\ p.status = "failed"
    BY OutcomeOn
<1>2. Unwrapped(stmt, first, p) = p
    BY <1>1, Zenon DEF Unwrapped
<1> QED BY <1>1, <1>2

\* A projection to the fields asked for, or to all, that are all there.
LEMMA ProjectionShows ==
    ASSUME NEW stmt, stmt.x.fields \in Seq(STRING), NEW row, NEW shown,
           module # "neo4j",
           \A f \in IF stmt.x.fields = <<>> THEN DOMAIN row ELSE Range(stmt.x.fields) :
               f \in DOMAIN row /\ f \in DOMAIN shown /\ shown[f] = row[f],
           stmt.x.command = "get_value" => stmt.x.fields # <<>>
    PROVE  IF stmt.x.command = "get_value"
           THEN /\ stmt.x.fields[1] \in DOMAIN shown
                /\ shown[stmt.x.fields[1]] = FieldOf(row, stmt.x.fields[1])
           ELSE Shows(stmt, shown, row)
<1>1. CASE stmt.x.command = "get_value"
    <2>1. stmt.x.fields[1] \in Range(stmt.x.fields)
        BY <1>1 DEF Range
    <2> QED BY <1>1, <2>1 DEF FieldOf
<1>2. CASE stmt.x.command # "get_value"
    BY <1>2 DEF Shows, FieldOf
<1> QED BY <1>1, <1>2

LEMMA PgReadsRight ==
    ASSUME NEW stmt, NEW d, module = "postgresql", Reads(stmt, module, d),
           Common(stmt, d.tables[stmt.x.table].rows), NEW first, NEW p \in PgRead(stmt, d),
           Unwrapped(stmt, first, p).status = "done"
    PROVE  ShowsMeant(stmt, Unwrapped(stmt, first, p).rows, d.tables[stmt.x.table].rows)
<1> DEFINE rows == d.tables[stmt.x.table].rows
           columns == Range(d.tables[stmt.x.table].columns)
           fields == IF stmt.x.fields = <<>> THEN columns ELSE Range(stmt.x.fields)
           projected == [id \in DOMAIN rows |-> Restrict(rows[id], fields)]
<1>1. PgContents(d, stmt.x.table) = rows /\ PgColumns(d, stmt.x.table) = columns
    BY Zenon DEF PgContents, PgColumns, Reads
<1>2. p \notin Raises(d)
    BY FailuresFail
<1>3. /\ Range(stmt.x.fields) \subseteq columns
      /\ p \in ReadOutcomes(stmt.x.command, projected, PgSelected(stmt, rows), d)
    BY <1>1, <1>2, Zenon DEF PgRead, PgNamesExist
<1>4. PgSelected(stmt, rows) = MeantIds(stmt, rows)
    <2>1. {id \in DOMAIN rows : Selects(module, stmt, rows[id])} = MeantIds(stmt, rows)
        BY ReadsSelect
    <2> HIDE DEF rows
    <2> QED BY <2>1, ModulesSelect
<1>5. \A id \in DOMAIN rows : DOMAIN rows[id] = columns
    BY DEF Reads, DataOK, IsTable, RowsFit
<1>6. /\ stmt.x.fields \in Seq(STRING) /\ MeantIds(stmt, rows) \subseteq DOMAIN rows
      /\ IsFiniteSet(MeantIds(stmt, rows)) /\ (stmt.x.command = "get_value" => stmt.x.fields # <<>>)
    BY ReadsSelect
<1>7. ASSUME NEW id \in MeantIds(stmt, rows)
      PROVE  IF stmt.x.command = "get_value"
             THEN /\ stmt.x.fields[1] \in DOMAIN projected[id]
                  /\ projected[id][stmt.x.fields[1]] = FieldOf(rows[id], stmt.x.fields[1])
             ELSE Shows(stmt, projected[id], rows[id])
    <2>1. projected[id] = Restrict(rows[id], fields) /\ DOMAIN rows[id] = columns
        BY <1>5, <1>6
    <2>2. /\ DOMAIN projected[id] = fields
          /\ \A f \in fields : f \in DOMAIN rows[id] /\ projected[id][f] = rows[id][f]
        BY <1>3, <2>1 DEF Restrict
    <2> HIDE DEF rows, columns, projected
    <2>3. \A f \in IF stmt.x.fields = <<>> THEN DOMAIN rows[id] ELSE Range(stmt.x.fields) :
               f \in DOMAIN rows[id] /\ f \in DOMAIN projected[id] /\ projected[id][f] = rows[id][f]
        BY <2>1, <2>2
    <2> QED BY <1>6, <2>3, ProjectionShows
<1>8. stmt.kind = "read"
    BY DEF Reads
<1> HIDE DEF rows, projected
<1>9. ShowsMeant(stmt, Unwrapped(stmt, first, p).rows, rows)
    BY <1>3, <1>4, <1>6, <1>7, <1>8, AnswerShows
<1> QED BY <1>9 DEF rows

LEMMA MongoReadsRight ==
    ASSUME NEW stmt, NEW d, module = "mongodb", Reads(stmt, module, d),
           Common(stmt, d.tables[stmt.x.table].rows), NEW first, NEW p \in MongoRead(stmt, d),
           Unwrapped(stmt, first, p).status = "done"
    PROVE  ShowsMeant(stmt, Unwrapped(stmt, first, p).rows, d.tables[stmt.x.table].rows)
<1> DEFINE rows == d.tables[stmt.x.table].rows
           projected == [id \in DOMAIN rows |->
                IF stmt.x.fields = <<>> THEN rows[id]
                ELSE Restrict(rows[id], ({"_id"} \union Range(stmt.x.fields)) \intersect DOMAIN rows[id])]
<1>1. MongoContents(d, stmt.x.table) = rows
    BY Zenon DEF MongoContents, Reads
<1>2. p \in ReadOutcomes(stmt.x.command, projected, MongoSelected(stmt.x.where, rows), d)
    BY <1>1, Zenon DEF MongoRead
<1>3. MongoSelected(stmt.x.where, rows) = MeantIds(stmt, rows)
    <2>1. {id \in DOMAIN rows : Selects(module, stmt, rows[id])} = MeantIds(stmt, rows)
        BY ReadsSelect
    <2> HIDE DEF rows
    <2> QED BY <2>1, ModulesSelect
<1>4. /\ stmt.x.fields \in Seq(STRING) /\ MeantIds(stmt, rows) \subseteq DOMAIN rows
      /\ IsFiniteSet(MeantIds(stmt, rows)) /\ (stmt.x.command = "get_value" => stmt.x.fields # <<>>)
    BY ReadsSelect
<1>5. \A id \in DOMAIN rows : Range(stmt.x.fields) \subseteq DOMAIN rows[id]
    BY DEF Common
<1>6. ASSUME NEW id \in MeantIds(stmt, rows)
      PROVE  IF stmt.x.command = "get_value"
             THEN /\ stmt.x.fields[1] \in DOMAIN projected[id]
                  /\ projected[id][stmt.x.fields[1]] = FieldOf(rows[id], stmt.x.fields[1])
             ELSE Shows(stmt, projected[id], rows[id])
    <2> DEFINE some == ({"_id"} \union Range(stmt.x.fields)) \intersect DOMAIN rows[id]
    <2>1. projected[id] = IF stmt.x.fields = <<>> THEN rows[id] ELSE Restrict(rows[id], some)
        BY <1>4
    <2>2. DOMAIN Restrict(rows[id], some) = some
          /\ \A f \in some : Restrict(rows[id], some)[f] = rows[id][f]
        BY DEF Restrict
    <2>3. Range(stmt.x.fields) \subseteq DOMAIN rows[id]
        BY <1>4, <1>5
    <2> HIDE DEF rows, projected
    <2>4. \A f \in IF stmt.x.fields = <<>> THEN DOMAIN rows[id] ELSE Range(stmt.x.fields) :
               f \in DOMAIN rows[id] /\ f \in DOMAIN projected[id] /\ projected[id][f] = rows[id][f]
        BY <2>1, <2>2, <2>3
    <2> QED BY <1>4, <2>4, ProjectionShows
<1>7. stmt.kind = "read"
    BY DEF Reads
<1> HIDE DEF rows, projected
<1>8. ShowsMeant(stmt, Unwrapped(stmt, first, p).rows, rows)
    BY <1>2, <1>3, <1>4, <1>6, <1>7, AnswerShows
<1> QED BY <1>8 DEF rows

LEMMA NeoReadsRight ==
    ASSUME NEW stmt, NEW d, module = "neo4j", Reads(stmt, module, d),
           Common(stmt, d.tables[stmt.x.table].rows), NEW first, NEW p \in NeoRead(stmt, d),
           Unwrapped(stmt, first, p).status = "done"
    PROVE  ShowsMeant(stmt, Unwrapped(stmt, first, p).rows, d.tables[stmt.x.table].rows)
<1> DEFINE rows == d.tables[stmt.x.table].rows
           records == [id \in DOMAIN rows |->
                IF stmt.x.fields = <<>> THEN [n |-> rows[id]]
                ELSE [f \in Range(stmt.x.fields) |-> FieldOf(rows[id], f)]]
<1>1. NeoNodes(stmt, d) = rows /\ NeoSelected(stmt, d) = MeantIds(stmt, rows)
    BY ReadsSelect, NeoSelect DEF Reads
<1>2. p \notin Raises(d)
    BY FailuresFail
<1>3. p \in ReadOutcomes(stmt.x.command, records, NeoSelected(stmt, d), d)
    BY <1>1, <1>2, Zenon DEF NeoRead
<1>4. /\ stmt.x.fields \in Seq(STRING) /\ MeantIds(stmt, rows) \subseteq DOMAIN rows
      /\ IsFiniteSet(MeantIds(stmt, rows)) /\ (stmt.x.command = "get_value" => stmt.x.fields # <<>>)
    BY ReadsSelect
<1>5. ASSUME NEW id \in MeantIds(stmt, rows)
      PROVE  IF stmt.x.command = "get_value"
             THEN /\ stmt.x.fields[1] \in DOMAIN records[id]
                  /\ records[id][stmt.x.fields[1]] = FieldOf(rows[id], stmt.x.fields[1])
             ELSE Shows(stmt, records[id], rows[id])
    <2>1. records[id] = IF stmt.x.fields = <<>> THEN [n |-> rows[id]]
                        ELSE [f \in Range(stmt.x.fields) |-> FieldOf(rows[id], f)]
        BY <1>4
    <2> HIDE DEF rows, records
    <2>2. CASE stmt.x.fields = <<>>
        <3>1. records[id]["n"] = rows[id] /\ stmt.x.command # "get_value"
            BY <1>4, <2>1, <2>2
        <3> QED BY <2>2, <3>1 DEF Shows, FieldOf
    <2>3. CASE stmt.x.fields # <<>>
        <3>1. /\ DOMAIN records[id] = Range(stmt.x.fields)
              /\ \A f \in Range(stmt.x.fields) : records[id][f] = FieldOf(rows[id], f)
            BY <2>1, <2>3
        <3>2. stmt.x.fields[1] \in Range(stmt.x.fields)
            BY <1>4, <2>3 DEF Range
        <3> QED BY <2>3, <3>1, <3>2 DEF Shows
    <2> QED BY <2>2, <2>3
<1>6. stmt.kind = "read"
    BY DEF Reads
<1> HIDE DEF rows, records
<1>7. ShowsMeant(stmt, Unwrapped(stmt, first, p).rows, rows)
    BY <1>1, <1>3, <1>4, <1>5, <1>6, AnswerShows
<1> QED BY <1>7 DEF rows

LEMMA StepReadsRight ==
    ASSUME CallsInv, DataInv, [Next]_vars, NEW t \in Threads,
           Answers(t, "read", "done"), IsTable(db, Body(t).x.table),
           Common(Body(t), db.tables[Body(t).x.table].rows)
    PROVE  ShowsMeant(Body(t), thread'[t].rows, db.tables[Body(t).x.table].rows)
<1> DEFINE stmt == Body(t)
<1>1. RunQuery(t)
    BY AnswersByQuery
<1>2. PICK o \in Outcomes(module, stmt, db) : Ends(t, o.status, o.rows)
    BY <1>1, QueryAnswer
<1>3. thread'[t].status = o.status /\ thread'[t].rows = o.rows
    <2>1. t \in DOMAIN thread /\ IsThread(thread[t])
        BY DEF CallsInv, ThreadOK
    <2> QED BY <1>2, <2>1 DEF Ends, IsThread
<1>4. PICK first, p : p \in ModuleOutcomes(module, stmt, db) /\ o = Unwrapped(stmt, first, p)
    BY OutcomeUnwrapped
<1>5. Reads(stmt, module, db)
    <2>1. thread[t].stmt \in Stmts /\ module \in DOMAIN Databases /\ WellFormed(db)
        BY <1>1 DEF RunQuery, CallsInv, ThreadOK
    <2>2. stmt.kind = "read"
        BY DEF Answers
    <2> QED BY <2>1, <2>2 DEF Reads, DataInv, Body
<1>6. Unwrapped(stmt, first, p).status = "done"
    BY <1>3, <1>4 DEF Answers
<1>7. stmt.kind = "read"
    BY <1>5 DEF Reads
<1> HIDE DEF stmt
<1>8. Common(stmt, db.tables[stmt.x.table].rows)
    BY DEF stmt
<1>9. ShowsMeant(stmt, Unwrapped(stmt, first, p).rows, db.tables[stmt.x.table].rows)
    <2>1. CASE module = "postgresql"
        <3>1. p \in PgRead(stmt, db)
            BY <1>4, <1>7, <2>1 DEF ModuleOutcomes, PgOutcomes
        <3> QED BY <1>5, <1>6, <1>8, <2>1, <3>1, PgReadsRight
    <2>2. CASE module = "mongodb"
        <3>1. p \in MongoRead(stmt, db)
            BY <1>4, <1>7, <2>2 DEF ModuleOutcomes, MongoOutcomes
        <3> QED BY <1>5, <1>6, <1>8, <2>2, <3>1, MongoReadsRight
    <2>3. CASE module = "neo4j"
        <3>1. p \in NeoRead(stmt, db)
            BY <1>4, <1>7, <2>3 DEF ModuleOutcomes, NeoOutcomes
        <3> QED BY <1>5, <1>6, <1>8, <2>3, <3>1, NeoReadsRight
    <2> QED BY <1>1, <2>1, <2>2, <2>3, QueryAnswer
<1> QED BY <1>3, <1>4, <1>9 DEF stmt

\* A read is answered with the fields asked for of exactly the rows its condition
\* is true of (one of them for get_value and get_row), by each of the three
\* modules' translate and execute, through _execute_db_query's unwrapping.
THEOREM ReadsAnswerRight == Spec => ReadsAreRight
<1>1. CallsInv /\ DataInv /\ [Next]_vars =>
        [\A t \in Threads :
          LET stmt == Body(t)
          IN  Answers(t, "read", "done") /\ IsTable(db, stmt.x.table) =>
                LET rows == db.tables[stmt.x.table].rows
                IN  Common(stmt, rows) => ShowsMeant(stmt, thread'[t].rows, rows)]_vars
    BY StepReadsRight
<1> QED BY <1>1, CallsInvariant, RowsAlwaysFit, PTL DEF Spec, ReadsAreRight

-----------------------------------------------------------------------------
\* Writes change the rows their condition is true of.

\* The rows of a table some of whose rows are given values, or deleted.
LEMMA RowsOfOtherRows ==
    ASSUME NEW d, WellFormed(d), NEW table, IsTable(d, table), NEW R, NEW L
    PROVE  /\ OtherTables(d, OtherRows(d, table, R)).tables[table].rows = R
           /\ OtherLinks(d, OtherRows(d, table, R), L).tables[table].rows = R
<1>1. OtherRows(d, table, R)[table] = [columns |-> d.tables[table].columns,
                                       strict |-> d.tables[table].strict, rows |-> R]
    BY RowsReplaced DEF WellFormed
<1> QED BY <1>1, TablesAfter

LEMMA AssignedRows ==
    ASSUME NEW d, WellFormed(d), NEW table, IsTable(d, table), NEW ids, NEW values, NEW R,
           R = [id \in DOMAIN d.tables[table].rows |->
                    IF id \in ids THEN Over(values, d.tables[table].rows[id])
                    ELSE d.tables[table].rows[id]]
    PROVE  Assigned(d, table, ids, values).tables[table].rows = R
<1>1. Assigned(d, table, ids, values) = OtherTables(d, OtherRows(d, table, R))
    BY DEF Assigned, OtherRows, OtherTables
<1> QED BY <1>1, RowsOfOtherRows

LEMMA DeletedRows ==
    ASSUME NEW d, WellFormed(d), NEW table, IsTable(d, table), NEW ids, NEW R,
           R = Restrict(d.tables[table].rows, DOMAIN d.tables[table].rows \ ids)
    PROVE  Without(d, table, ids).tables[table].rows = R
<1> DEFINE L == {l \in d.links : {l.source, l.target} \intersect ids = {}}
<1>1. Without(d, table, ids) = OtherLinks(d, OtherRows(d, table, R), L)
    BY DEF Without, OtherRows, OtherLinks
<1> HIDE DEF L
<1> QED BY <1>1, RowsOfOtherRows

\* An update or delete, among Stmts, of a table whose rows fit.
Edits(stmt, m, d) ==
    /\ m \in DOMAIN Databases /\ \E s \in Stmts : stmt = CallOf(Stmt[s])
    /\ stmt.kind = "write" /\ stmt.x.command \in {"update", "delete"}
    /\ WellFormed(d) /\ DataOK(m, d.tables) /\ IsTable(d, stmt.x.table)

\* The database after an update or delete touched these rows.
Edited(stmt, d, touched) ==
    IF stmt.x.command = "delete" THEN Without(d, stmt.x.table, touched)
    ELSE Assigned(d, stmt.x.table, touched, Values(stmt))

RowsEdited(stmt, before, touched) ==
    IF stmt.x.command = "delete" THEN Restrict(before, DOMAIN before \ touched)
    ELSE [id \in DOMAIN before |->
            IF id \in touched THEN Over(Values(stmt), before[id]) ELSE before[id]]

LEMMA EditedRows ==
    ASSUME NEW stmt, NEW d, WellFormed(d), IsTable(d, stmt.x.table), NEW touched
    PROVE  Edited(stmt, d, touched).tables[stmt.x.table].rows
                = RowsEdited(stmt, d.tables[stmt.x.table].rows, touched)
<1> SUFFICES ASSUME NEW R, R = RowsEdited(stmt, d.tables[stmt.x.table].rows, touched)
             PROVE  Edited(stmt, d, touched).tables[stmt.x.table].rows = R
    OBVIOUS
<1> DEFINE table == stmt.x.table
           values == Values(stmt)
           before == d.tables[table].rows
<1>1. CASE stmt.x.command = "delete"
    <2>1. Edited(stmt, d, touched) = Without(d, table, touched)
        BY <1>1 DEF Edited
    <2>2. R = Restrict(d.tables[table].rows, DOMAIN d.tables[table].rows \ touched)
        BY <1>1 DEF RowsEdited
    <2> HIDE DEF table
    <2> QED BY <2>1, <2>2, DeletedRows DEF table, Restrict
<1>2. CASE stmt.x.command # "delete"
    <2>1. Edited(stmt, d, touched) = Assigned(d, table, touched, values)
        BY <1>2 DEF Edited
    <2>2. R = [id \in DOMAIN before |->
                    IF id \in touched THEN Over(values, before[id]) ELSE before[id]]
        BY <1>2 DEF RowsEdited
    <2>3. IsTable(d, table)
        OBVIOUS
    <2>4. Assigned(d, table, touched, values).tables[table].rows = R
        <3> HIDE DEF values, table
        <3> QED BY <2>2, <2>3, AssignedRows
    <2> HIDE DEF values
    <2> QED BY <2>1, <2>4
<1> QED BY <1>1, <1>2

LEMMA EditDoes ==
    ASSUME NEW stmt, NEW d, Edits(stmt, module, d), NEW touched, NEW e,
           \/ e = Edited(stmt, d, touched)
           \/ touched = {} /\ e = d,
           LET ids == MeantIds(stmt, d.tables[stmt.x.table].rows)
           IN  IF module = "mongodb" /\ ids # {} THEN \E id \in ids : touched = {id}
               ELSE touched = ids
    PROVE  WriteDoes(stmt, d.tables[stmt.x.table].rows, e.tables[stmt.x.table].rows)
<1> DEFINE before == d.tables[stmt.x.table].rows
           after == e.tables[stmt.x.table].rows
           ids == MeantIds(stmt, before)
<1>1. before = [id \in DOMAIN before |-> before[id]]
    BY DEF Edits, DataOK, IsTable, RowsFit
<1>2. WellFormed(d) /\ IsTable(d, stmt.x.table)
    BY DEF Edits
<1>3. touched \in IF module = "mongodb" /\ ids # {} THEN {{id} : id \in ids} ELSE {ids}
    OBVIOUS
<1>5. after = RowsEdited(stmt, before, touched)
    <2>1. CASE e = Edited(stmt, d, touched)
        BY <1>2, <2>1, EditedRows
    <2>2. CASE touched = {} /\ e = d
        <3>1. before = RowsEdited(stmt, before, touched)
            <4> HIDE DEF before, ids
            <4> QED BY <1>1, <2>2 DEF RowsEdited, Restrict
        <3> QED BY <2>2, <3>1
    <2> QED BY <2>1, <2>2
<1>6. CASE stmt.x.command = "delete"
    BY <1>3, <1>5, <1>6, Zenon DEF WriteDoes, RowsEdited
<1>7. CASE stmt.x.command # "delete"
    <2>1. /\ DOMAIN after = DOMAIN before
          /\ \A id \in DOMAIN before :
                after[id] = IF id \in touched THEN Over(Values(stmt), before[id]) ELSE before[id]
        <3> HIDE DEF before, after, ids
        <3> QED BY <1>5, <1>7 DEF RowsEdited
    <2> QED BY <1>3, <1>7, <2>1, Zenon DEF WriteDoes
<1> QED BY <1>6, <1>7

LEMMA EditsSelect ==
    ASSUME NEW stmt, NEW d, Edits(stmt, module, d), Common(stmt, d.tables[stmt.x.table].rows)
    PROVE  LET rows == d.tables[stmt.x.table].rows
           IN  {id \in DOMAIN rows : Selects(module, stmt, rows[id])} = MeantIds(stmt, rows)
<1> DEFINE rows == d.tables[stmt.x.table].rows
<1>1. rows \in [DOMAIN rows -> Rows]
    BY DEF Edits, DataOK, IsTable, RowsFit
<1>2. PICK s \in Stmts : stmt = CallOf(Stmt[s])
    BY DEF Edits
<1> HIDE DEF rows
<1>3. Understood(module, stmt.x.where) /\ \A id \in DOMAIN rows : Comparable(module, stmt.x.where, rows[id])
    BY DEF Common, rows
<1>4. {id \in DOMAIN rows : Selects(module, stmt, rows[id])} = MeantIds(stmt, rows)
    BY <1>1, <1>2, <1>3, SelectsMeant DEF Edits
<1> QED BY <1>4 DEF rows

LEMMA PgEditsRight ==
    ASSUME NEW stmt, NEW d, module = "postgresql", Edits(stmt, module, d),
           Common(stmt, d.tables[stmt.x.table].rows), NEW o \in PgOutcomes(stmt, d), o.status = "done"
    PROVE  WriteDoes(stmt, d.tables[stmt.x.table].rows, o.db.tables[stmt.x.table].rows)
<1> DEFINE rows == d.tables[stmt.x.table].rows
           ids == PgSelected(stmt, rows)
<1>1. ids = MeantIds(stmt, rows)
    <2>1. {id \in DOMAIN rows : Selects(module, stmt, rows[id])} = MeantIds(stmt, rows)
        BY EditsSelect
    <2> HIDE DEF rows
    <2> QED BY <2>1, ModulesSelect
<1>2. o \notin Raises(d)
    BY OutcomeOn
<1>3. o.db = Edited(stmt, d, ids)
    <2>1. CASE stmt.x.command = "update"
        <3>1. o \in PgUpdate(stmt, d)
            BY <2>1 DEF Edits, PgOutcomes
        <3>2. \E r : o \in Returns(r, Assigned(d, stmt.x.table, ids, Values(stmt)))
            BY <1>2, <3>1, Zenon DEF PgUpdate
        <3> QED BY <2>1, <3>2, OutcomeOn DEF Edited
    <2>2. CASE stmt.x.command = "delete"
        <3>1. o \in PgDelete(stmt, d)
            BY <2>2 DEF Edits, PgOutcomes
        <3>2. \E r : o \in Returns(r, Without(d, stmt.x.table, ids))
            BY <1>2, <3>1, Zenon DEF PgDelete
        <3> QED BY <2>2, <3>2, OutcomeOn DEF Edited
    <2> QED BY <2>1, <2>2 DEF Edits
<1> QED BY <1>1, <1>3, EditDoes

LEMMA MongoEditsRight ==
    ASSUME NEW stmt, NEW d, module = "mongodb", Edits(stmt, module, d),
           Common(stmt, d.tables[stmt.x.table].rows), NEW o \in MongoOutcomes(stmt, d), o.status = "done"
    PROVE  WriteDoes(stmt, d.tables[stmt.x.table].rows, o.db.tables[stmt.x.table].rows)
<1> DEFINE rows == d.tables[stmt.x.table].rows
           ids == MongoSelected(stmt.x.where, rows)
<1>1. ids = MeantIds(stmt, rows)
    <2>1. {id \in DOMAIN rows : Selects(module, stmt, rows[id])} = MeantIds(stmt, rows)
        BY EditsSelect
    <2> HIDE DEF rows
    <2> QED BY <2>1, ModulesSelect
<1>2. o \notin Raises(d)
    BY OutcomeOn
<1>3. MongoTouchable(stmt, d) = IF ids = {} THEN {{}} ELSE {{id} : id \in ids}
    BY Zenon DEF MongoTouchable, Edits
<1>4. PICK touched \in MongoTouchable(stmt, d) :
        o.db = IF touched = {} THEN d ELSE Edited(stmt, d, touched)
    <2>1. CASE stmt.x.command = "update"
        <3>1. o \in MongoUpdate(stmt, d)
            BY <2>1 DEF Edits, MongoOutcomes
        <3>2. PICK touched \in MongoTouchable(stmt, d) :
                 o \in Returns(Counted(touched), IF touched = {} THEN d
                               ELSE Assigned(d, stmt.x.table, touched, Values(stmt)))
            BY <1>2, <3>1, Zenon DEF MongoUpdate
        <3>3. o.db = IF touched = {} THEN d ELSE Assigned(d, stmt.x.table, touched, Values(stmt))
            BY <3>2, OutcomeOn
        <3> QED BY <2>1, <3>3 DEF Edited
    <2>2. CASE stmt.x.command = "delete"
        <3>1. o \in MongoDelete(stmt, d)
            BY <2>2 DEF Edits, MongoOutcomes
        <3>2. PICK touched \in MongoTouchable(stmt, d) :
                 o \in Returns(Counted(touched), IF touched = {} THEN d
                               ELSE Without(d, stmt.x.table, touched))
            BY <1>2, <3>1, Zenon DEF MongoDelete
        <3>3. o.db = IF touched = {} THEN d ELSE Without(d, stmt.x.table, touched)
            BY <3>2, OutcomeOn
        <3> QED BY <2>2, <3>3 DEF Edited
    <2> QED BY <2>1, <2>2 DEF Edits
<1> HIDE DEF ids
<1>5. IF ids # {} THEN \E id \in ids : touched = {id} ELSE touched = ids
    BY <1>3, <1>4
<1>6. \/ o.db = Edited(stmt, d, touched)
      \/ touched = {} /\ o.db = d
    BY <1>4
<1> QED BY <1>1, <1>5, <1>6, EditDoes

LEMMA NeoEditsRight ==
    ASSUME NEW stmt, NEW d, module = "neo4j", Edits(stmt, module, d),
           Common(stmt, d.tables[stmt.x.table].rows), NEW o \in NeoOutcomes(stmt, d), o.status = "done"
    PROVE  WriteDoes(stmt, d.tables[stmt.x.table].rows, o.db.tables[stmt.x.table].rows)
<1> DEFINE ids == NeoSelected(stmt, d)
<1>1. ids = MeantIds(stmt, d.tables[stmt.x.table].rows) /\ IsTable(d, stmt.x.table)
    BY EditsSelect, NeoSelect DEF Edits
<1>2. o \notin Raises(d)
    BY OutcomeOn
<1>3. o.db = Edited(stmt, d, ids)
    <2>1. CASE stmt.x.command = "update"
        <3>1. o \in NeoUpdate(stmt, d)
            BY <2>1 DEF Edits, NeoOutcomes
        <3>2. \E r : o \in Returns(r, Assigned(d, stmt.x.table, ids, Values(stmt)))
            BY <1>1, <1>2, <3>1, Zenon DEF NeoUpdate
        <3> QED BY <2>1, <3>2, OutcomeOn DEF Edited
    <2>2. CASE stmt.x.command = "delete"
        <3>1. o \in NeoDelete(stmt, d)
            BY <2>2 DEF Edits, NeoOutcomes
        <3>2. \E r : o \in Returns(r, Without(d, stmt.x.table, ids))
            BY <1>1, <1>2, <3>1, Zenon DEF NeoDelete
        <3> QED BY <2>2, <3>2, OutcomeOn DEF Edited
    <2> QED BY <2>1, <2>2 DEF Edits
<1> QED BY <1>1, <1>3, EditDoes

LEMMA StepWritesRight ==
    ASSUME CallsInv, DataInv, [Next]_vars, NEW t \in Threads,
           NEW name \in DOMAIN db.tables \intersect DOMAIN db'.tables,
           Writes(t, name), Common(Body(t), db.tables[name].rows)
    PROVE  WriteDoes(Body(t), db.tables[name].rows, db'.tables[name].rows)
<1> DEFINE stmt == Body(t)
<1>0. Answers(t, "write", "done")
    BY DEF Writes
<1>1. RunQuery(t)
    BY <1>0, AnswersByQuery
<1>2. PICK o \in Outcomes(module, stmt, db) : db' = o.db /\ Ends(t, o.status, o.rows)
    BY <1>1, QueryAnswer
<1>3. o.status = "done"
    <2>1. t \in DOMAIN thread /\ IsThread(thread[t])
        BY DEF CallsInv, ThreadOK
    <2>2. thread'[t].status = o.status
        BY <1>2, <2>1 DEF Ends, IsThread
    <2> QED BY <1>0, <2>2 DEF Answers
<1>4. stmt.kind = "write" /\ stmt.x.command \in {"update", "delete"} /\ stmt.x.table = name
    BY DEF Writes, Answers
<1>5. o \in ModuleOutcomes(module, stmt, db)
    <2>1. PICK first, p : p \in ModuleOutcomes(module, stmt, db) /\ o = Unwrapped(stmt, first, p)
        BY <1>2, OutcomeUnwrapped
    <2>2. stmt.kind # "read"
        BY <1>4
    <2> HIDE DEF stmt
    <2>3. Unwrapped(stmt, first, p) = p
        BY <2>2, Zenon DEF Unwrapped
    <2> QED BY <2>1, <2>3
<1>6. Edits(stmt, module, db)
    <2>1. thread[t].stmt \in Stmts /\ module \in DOMAIN Databases /\ WellFormed(db)
        BY <1>1 DEF RunQuery, CallsInv, ThreadOK
    <2> QED BY <1>4, <2>1 DEF Edits, DataInv, Body, IsTable
<1> HIDE DEF stmt
<1>7. Common(stmt, db.tables[stmt.x.table].rows)
    BY <1>4 DEF stmt
<1>8. WriteDoes(stmt, db.tables[stmt.x.table].rows, o.db.tables[stmt.x.table].rows)
    <2>1. CASE module = "postgresql"
        BY <1>3, <1>5, <1>6, <1>7, <2>1, PgEditsRight DEF ModuleOutcomes
    <2>2. CASE module = "mongodb"
        BY <1>3, <1>5, <1>6, <1>7, <2>2, MongoEditsRight DEF ModuleOutcomes
    <2>3. CASE module = "neo4j"
        BY <1>3, <1>5, <1>6, <1>7, <2>3, NeoEditsRight DEF ModuleOutcomes
    <2> QED BY <1>1, <2>1, <2>2, <2>3, QueryAnswer
<1> QED BY <1>2, <1>4, <1>8 DEF stmt

\* update and delete, by translate and execute of each module, change every row
\* their condition is true of (MongoDB's update_one and delete_one one of them)
\* and no other row of their table.
THEOREM WritesChangeRight == Spec => WritesAreRight
<1>1. CallsInv /\ DataInv /\ [Next]_vars =>
        [\A name \in DOMAIN db.tables \intersect DOMAIN db'.tables : \A t \in Threads :
          LET before == db.tables[name].rows
          IN  Writes(t, name) /\ Common(Body(t), before) =>
                WriteDoes(Body(t), before, db'.tables[name].rows)]_vars
    BY StepWritesRight
<1> QED BY <1>1, CallsInvariant, RowsAlwaysFit, PTL DEF Spec, WritesAreRight

-----------------------------------------------------------------------------
\* Reads the type checker has accepted.

\* A thread keeps its statement until it is given another.
Continues(u) ==
    /\ thread'[u].stmt = thread[u].stmt /\ thread'[u].checked = thread[u].checked
    /\ thread'[u].phase # "idle" => thread[u].phase # "idle"
    /\ thread'[u].phase = "listed" =>
            ListTables(u) \/ (thread[u].phase = "listed" /\ thread'[u].names = thread[u].names)

LEMMA GoingContinues ==
    ASSUME CallsInv, NEW u \in Threads, thread[u].phase # "idle"
    PROVE  /\ \A phase : phase # "listed" /\ Goes(u, phase) => Continues(u)
           /\ \A status, rows : Ends(u, status, rows) => Continues(u)
           /\ ListTables(u) => Continues(u)
<1>1. u \in DOMAIN thread /\ IsThread(thread[u])
    BY DEF CallsInv, ThreadOK
<1>2. ASSUME NEW phase, phase # "listed", Goes(u, phase)
      PROVE  Continues(u)
    BY <1>1, <1>2 DEF Goes, IsThread, Continues
<1>3. ASSUME NEW status, NEW rows, Ends(u, status, rows)
      PROVE  Continues(u)
    BY <1>1, <1>3 DEF Ends, IsThread, Continues
<1>4. ASSUME ListTables(u)
      PROVE  Continues(u)
    <2>1. thread' = [thread EXCEPT ![u].phase = "listed", ![u].names = Listed(module, db)]
        BY <1>4, Zenon DEF ListTables
    <2>2. thread'[u].stmt = thread[u].stmt /\ thread'[u].checked = thread[u].checked
        BY <1>1, <2>1 DEF IsThread
    <2> QED BY <1>4, <2>2 DEF Continues
<1> QED BY <1>2, <1>3, <1>4

LEMMA ThreadsContinue ==
    ASSUME CallsInv, [Next]_vars, NEW u \in Threads
    PROVE  (\E s \in Stmts : Submit(u, s)) \/ Continues(u)
<1>1. CASE thread'[u] = thread[u]
    BY <1>1 DEF Continues
<1>2. CASE thread'[u] # thread[u]
    <2>1. PICK t \in Threads :
            \/ \E s \in Stmts : Submit(t, s)
            \/ TestConnection(t) \/ BuildConnection(t) \/ BuildFails(t) \/ StoreConnection(t)
            \/ RunQuery(t) \/ DropView(t) \/ ListNames(t) \/ DropListed(t) \/ NoViews(t)
            \/ CreateView(t) \/ ListTables(t) \/ DescribeTables(t)
        BY <1>2 DEF Next, vars
    <2>2. \E r : thread' = [thread EXCEPT ![t] = r]
        BY <2>1, Zenon DEF Submit, TestConnection, BuildConnection, BuildFails, StoreConnection,
               RunQuery, DropView, ListNames, DropListed, NoViews, CreateView, ListTables,
               DescribeTables, Goes, Ends
    <2>3. t = u
        <3>1. PICK r : thread' = [thread EXCEPT ![t] = r]
            BY <2>2
        <3>2. u \in DOMAIN thread
            BY DEF CallsInv
        <3> QED BY <1>2, <3>1, <3>2
    <2>4. CASE \E s \in Stmts : Submit(u, s)
        BY <2>4
    <2>5. CASE ListTables(u)
        <3>1. thread[u].phase # "idle"
            BY <2>5 DEF ListTables
        <3> QED BY <2>5, <3>1, GoingContinues
    <2>6. CASE TestConnection(u) \/ BuildConnection(u) \/ StoreConnection(u) \/ DropListed(u)
        <3>1. /\ thread[u].phase # "idle"
              /\ \E phase \in {"connected", "building", "built", "creating"} : Goes(u, phase)
            BY <2>6 DEF TestConnection, BuildConnection, StoreConnection, DropListed
        <3> QED BY <3>1, GoingContinues
    <2>7. CASE DropView(u) \/ ListNames(u)
        <3>1. /\ thread[u].phase # "idle"
              /\ \/ \E phase \in {"dropping", "creating"} : Goes(u, phase)
                 \/ Ends(u, "failed", <<>>)
            BY <2>7 DEF DropView, ListNames
        <3> QED BY <3>1, GoingContinues
    <2>8. CASE BuildFails(u) \/ NoViews(u) \/ DescribeTables(u) \/ RunQuery(u) \/ CreateView(u)
        <3>1. thread[u].phase # "idle"
            BY <2>8 DEF BuildFails, NoViews, DescribeTables, RunQuery, CreateView
        <3>2. \E status, rows : Ends(u, status, rows)
            BY <2>8, Zenon DEF BuildFails, NoViews, DescribeTables, RunQuery, CreateView
        <3> QED BY <3>1, <3>2, GoingContinues
    <2> QED BY <2>1, <2>3, <2>4, <2>5, <2>6, <2>7, <2>8
<1> QED BY <1>1, <1>2

\* On PostgreSQL: a table with these fields, or the name some view had.
Sound(name, fields) ==
    \/ name \in created
    \/ IsTable(db, name) /\ fields \subseteq PgColumns(db, name)

\* PostgreSQL's tables are never dropped and keep their columns.
LEMMA SoundStays ==
    ASSUME CallsInv, [Next]_vars, module = "postgresql", NEW name, NEW fields, Sound(name, fields)
    PROVE  Sound(name, fields)'
<1>1. CASE name \in created
    BY <1>1, TablesChange DEF Sound
<1>2. CASE IsTable(db, name) /\ fields \subseteq PgColumns(db, name)
    <2>1. name \in DOMAIN db'.tables /\ db'.tables[name].columns = db.tables[name].columns
        <3>1. CASE db'.tables = db.tables
            BY <1>2, <3>1 DEF IsTable
        <3>2. ASSUME NEW t \in Threads, RunQuery(t)
              PROVE  name \in DOMAIN db'.tables /\ db'.tables[name].columns = db.tables[name].columns
            <4>1. PICK o : RightOutcome(o, Body(t), db) /\ db' = o.db
                BY <3>2, QueryOutcome
            <4> QED BY <1>2, <4>1 DEF RightOutcome, Evolves, IsTable
        <3> QED BY <3>1, <3>2, TablesChange
    <2>2. PgColumns(db, name) = Range(db.tables[name].columns)
        BY <1>2, Zenon DEF PgColumns
    <2>3. PgColumns(db', name) = Range(db'.tables[name].columns)
        BY <2>1, Zenon DEF PgColumns, IsTable
    <2>4. IsTable(db', name) /\ fields \subseteq PgColumns(db', name)
        BY <1>2, <2>1, <2>2, <2>3 DEF IsTable
    <2> QED BY <2>4 DEF Sound
<1> QED BY <1>1, <1>2 DEF Sound

\* What PostgreSQL's schema, once stored, says of its tables stays true of them;
\* so does what an accepted read relies on.
StoredIsSound == known.loaded => \A n \in DOMAIN known.tables :
    ~known.tables[n].flexible /\ Sound(n, known.tables[n].fields)
ListedIsSound(t) == thread[t].phase = "listed" => \A n \in thread[t].names : Sound(n, {})
AcceptedIsSound(t) ==
    thread[t].phase # "idle" /\ thread[t].checked /\ Stmt[thread[t].stmt].kind = "read" =>
        Sound(Body(t).x.table, Range(Body(t).x.fields))
PgInv ==
    module = "postgresql" =>
        /\ DOMAIN db.views \subseteq created
        /\ StoredIsSound
        /\ \A t \in Threads : ListedIsSound(t) /\ AcceptedIsSound(t)

\* What sync_schema finds of a listed name is so.
LEMMA DescribedIsSound ==
    ASSUME DOMAIN db.views \subseteq created, NEW n, Sound(n, {})
    PROVE  /\ ~Described("postgresql", db, n).flexible
           /\ Sound(n, Described("postgresql", db, n).fields)
<1>1. Described("postgresql", db, n)
        = [flexible |-> FALSE, fields |-> IF IsRelation(db, n) THEN PgColumns(db, n) ELSE {}]
    BY DEF Described
<1>2. Described("postgresql", db, n).fields = IF IsRelation(db, n) THEN PgColumns(db, n) ELSE {}
    BY <1>1
<1>3. CASE n \in created
    BY <1>1, <1>3 DEF Sound
<1>4. CASE IsTable(db, n)
    <2>1. Described("postgresql", db, n).fields = PgColumns(db, n)
        BY <1>2, <1>4 DEF IsRelation
    <2> QED BY <1>1, <1>4, <2>1 DEF Sound
<1> QED BY <1>3, <1>4 DEF Sound

LEMMA ListedNamesAreSound ==
    ASSUME module = "postgresql", DOMAIN db.views \subseteq created, NEW n \in Listed(module, db)
    PROVE  Sound(n, {})
BY DEF Listed, Sound, IsTable

LEMMA InitPgInv ==
    ASSUME Init PROVE PgInv
<1> SUFFICES ASSUME module = "postgresql" PROVE PgInv
    BY DEF PgInv
<1>1. DOMAIN db.views \subseteq created
    BY DEF Init
<1>2. StoredIsSound
    <2>1. CASE known = [loaded |-> FALSE, tables |-> <<>>]
        BY <2>1 DEF StoredIsSound
    <2>2. CASE known = [loaded |-> TRUE,
                        tables |-> [n \in Listed(module, db) |-> Described(module, db, n)]]
        <3>1. ASSUME NEW n \in DOMAIN known.tables
              PROVE  ~known.tables[n].flexible /\ Sound(n, known.tables[n].fields)
            <4>1. n \in Listed(module, db) /\ known.tables[n] = Described("postgresql", db, n)
                BY <2>2, <3>1
            <4> QED BY <1>1, <4>1, ListedNamesAreSound, DescribedIsSound
        <3> QED BY <3>1 DEF StoredIsSound
    <2> QED BY <2>1, <2>2 DEF Init
<1>3. ASSUME NEW t \in Threads PROVE ListedIsSound(t) /\ AcceptedIsSound(t)
    <2>1. thread[t].phase = "idle"
        BY DEF Init
    <2> QED BY <2>1 DEF ListedIsSound, AcceptedIsSound
<1> QED BY <1>1, <1>2, <1>3 DEF PgInv

\* The views that are there are among those that were created.
LEMMA ViewsAreCreated ==
    ASSUME CallsInv, [Next]_vars, DOMAIN db.views \subseteq created
    PROVE  DOMAIN db'.views \subseteq created'
<1>0. WellFormed(db) /\ created \subseteq created'
    BY TablesChange DEF CallsInv
<1>1. CASE db' = db
    BY <1>0, <1>1
<1>2. ASSUME NEW t \in Threads, RunQuery(t)
      PROVE  DOMAIN db'.views \subseteq created'
    <2>1. PICK o : RightOutcome(o, Body(t), db) /\ db' = o.db
        BY <1>2, QueryOutcome
    <2> QED BY <1>0, <2>1 DEF RightOutcome, Evolves
<1>3. ASSUME NEW t \in Threads, DropView(t)
      PROVE  DOMAIN db'.views \subseteq created'
    <2> DEFINE views == Restrict(db.views, DOMAIN db.views \ {Body(t).x.name})
    <2>1. db' = db \/ db' = [db EXCEPT !.views = views]
        BY <1>3, Zenon DEF DropView
    <2>2. DOMAIN views \subseteq DOMAIN db.views
        BY DEF Restrict
    <2> HIDE DEF views
    <2>3. db' = [db EXCEPT !.views = views] => db'.views = views
        BY <1>0, ViewsReplaced
    <2> QED BY <1>0, <1>1, <2>1, <2>2, <2>3
<1>4. ASSUME NEW t \in Threads, DropListed(t)
      PROVE  DOMAIN db'.views \subseteq created'
    <2> DEFINE dropped == Body(t).x.name
    <2>1. db' = [db EXCEPT !.views = Restrict(@, DOMAIN @ \ {dropped}),
                           !.tables = Restrict(@, DOMAIN @ \ {dropped})]
        BY <1>4, Zenon DEF DropListed
    <2> HIDE DEF dropped
    <2>2. db'.views = Restrict(db.views, DOMAIN db.views \ {dropped})
        BY <1>0, <2>1, RelationDropped, Zenon
    <2>3. DOMAIN db'.views \subseteq DOMAIN db.views
        BY <2>2 DEF Restrict
    <2> QED BY <1>0, <2>3
<1>5. ASSUME NEW t \in Threads, CreateView(t)
      PROVE  DOMAIN db'.views \subseteq created'
    <2> DEFINE name == Body(t).x.name
               views == Put(db.views, name, Body(t))
    <2>1. \/ db' = db
          \/ db' = [db EXCEPT !.views = views] /\ created' = created \union {name}
        BY <1>5, CreateViewOutcome
    <2>2. DOMAIN views = DOMAIN db.views \union {name}
        BY DEF Put
    <2> HIDE DEF views, name
    <2>3. db' = [db EXCEPT !.views = views] => db'.views = views
        BY <1>0, ViewsReplaced
    <2> QED BY <1>0, <1>1, <2>1, <2>2, <2>3
<1>6. \/ UNCHANGED db
      \/ \E t \in Threads : RunQuery(t) \/ DropView(t) \/ CreateView(t) \/ DropListed(t)
    BY DEF Next, vars, Submit, TestConnection, BuildConnection, BuildFails, StoreConnection,
           ListNames, NoViews, ListTables, DescribeTables
<1> QED BY <1>1, <1>2, <1>3, <1>4, <1>5, <1>6

\* A read that the checker lets pass names a table of the stored schema and
\* fields of it.
LEMMA CheckedReads ==
    ASSUME NEW stmt, stmt.kind = "read", stmt.x.fields \in Seq(STRING), NEW reg, reg.connected, reg.loaded,
           CheckCall(stmt, <<>>, reg) = NoErrors
    PROVE  /\ stmt.x.table \in DOMAIN reg.tables
           /\ ~reg.tables[stmt.x.table].flexible =>
                Range(stmt.x.fields) \subseteq reg.tables[stmt.x.table].fields
<1> DEFINE table == stmt.x.table
           fields == stmt.x.fields
<1>1. CheckTableCall(stmt, <<>>, reg) = {}
    BY DEF CheckCall, NoErrors
<1>2. /\ CheckTableRef(reg, table) = {}
      /\ \A i \in DOMAIN fields : CheckFieldRef(reg, table, fields[i]) = {}
    BY <1>1, Zenon DEF CheckTableCall
<1>3. table \in DOMAIN reg.tables
    BY <1>2 DEF CheckTableRef
<1>4. ASSUME ~reg.tables[table].flexible, NEW i \in DOMAIN fields
      PROVE  fields[i] \in reg.tables[table].fields
    <2> DEFINE field == fields[i]
    <2>1. CheckFieldRef(reg, table, field) = {}
        BY <1>2
    <2> HIDE DEF field
    <2>2. field \in reg.tables[table].fields
        BY <1>3, <1>4, <2>1 DEF CheckFieldRef
    <2> QED BY <2>2 DEF field
<1> QED BY <1>3, <1>4 DEF Range

\* A statement that was submitted and is not rejected has passed the checker.
LEMMA SubmittedPasses ==
    ASSUME CallsInv, NEW t \in Threads, NEW s \in Stmts, Submit(t, s)
    PROVE  /\ thread'[t].phase \in {"accepted", "idle"} /\ thread'[t].stmt = s
           /\ thread'[t].checked = known.loaded
           /\ thread'[t].phase # "idle" =>
                CheckCall(Stmt[s], <<>>, [connected |-> TRUE, loaded |-> known.loaded,
                                          tables |-> known.tables]) = NoErrors
<1> DEFINE ok == CheckCall(Stmt[s], <<>>, [connected |-> TRUE, loaded |-> known.loaded,
                                           tables |-> known.tables]) = NoErrors
           r == [phase |-> IF ok THEN "accepted" ELSE "idle",
                 stmt |-> s, checked |-> known.loaded, names |-> {},
                 status |-> IF ok THEN "none" ELSE "rejected", rows |-> <<>>]
<1>1. thread' = [thread EXCEPT ![t] = r]
    BY Zenon DEF Submit
<1> HIDE DEF ok
<1>2. thread'[t] = r
    BY <1>1 DEF CallsInv
<1> QED BY <1>2 DEF ok

LEMMA SubmitIsSound ==
    ASSUME CallsInv, StoredIsSound, NEW t \in Threads, NEW s \in Stmts, Submit(t, s)
    PROVE  AcceptedIsSound(t)'
<1> SUFFICES ASSUME thread'[t].phase # "idle", thread'[t].checked,
                    Stmt[thread'[t].stmt].kind = "read"
             PROVE  Sound(Body(t).x.table, Range(Body(t).x.fields))'
    BY DEF AcceptedIsSound
<1> DEFINE stmt == Stmt[s]
           reg == [connected |-> TRUE, loaded |-> known.loaded, tables |-> known.tables]
<1>1. /\ thread'[t].stmt = s /\ known.loaded /\ stmt.kind = "read"
      /\ CheckCall(stmt, <<>>, reg) = NoErrors
    BY SubmittedPasses
<1>2. Body(t)' = stmt /\ CallOf(stmt) = stmt
    BY <1>1 DEF Body, CallOf
<1>3. stmt.x.fields \in Seq(STRING)
    BY <1>1, <1>2, CallsAssumption DEF IsCall
<1>4. reg.connected /\ reg.loaded /\ reg.tables = known.tables
    BY <1>1
<1> HIDE DEF stmt, reg
<1>5. /\ stmt.x.table \in DOMAIN known.tables
      /\ ~known.tables[stmt.x.table].flexible =>
            Range(stmt.x.fields) \subseteq known.tables[stmt.x.table].fields
    <2>1. /\ stmt.x.table \in DOMAIN reg.tables
          /\ ~reg.tables[stmt.x.table].flexible =>
                Range(stmt.x.fields) \subseteq reg.tables[stmt.x.table].fields
        BY <1>1, <1>3, <1>4, CheckedReads
    <2> QED BY <1>4, <2>1
<1>6. Sound(stmt.x.table, Range(stmt.x.fields))
    BY <1>1, <1>5 DEF StoredIsSound, Sound
<1>7. UNCHANGED <<db, created>>
    BY DEF Submit
<1> QED BY <1>2, <1>6, <1>7 DEF Sound

LEMMA NextPgInv ==
    ASSUME CallsInv, PgInv, [Next]_vars
    PROVE  PgInv'
<1> SUFFICES ASSUME module' = "postgresql" PROVE PgInv'
    BY DEF PgInv
<1>1. /\ module = "postgresql" /\ DOMAIN db.views \subseteq created /\ StoredIsSound
      /\ \A t \in Threads : ListedIsSound(t) /\ AcceptedIsSound(t)
    BY TablesChange DEF PgInv
<1>2. DOMAIN db'.views \subseteq created'
    BY <1>1, ViewsAreCreated
<1>3. StoredIsSound'
    <2>1. CASE known' = known
        BY <1>1, <2>1, SoundStays DEF StoredIsSound
    <2>2. ASSUME NEW t \in Threads, DescribeTables(t)
          PROVE  StoredIsSound'
        <3>1. /\ thread[t].phase = "listed" /\ UNCHANGED <<db, created>>
              /\ known' = [loaded |-> TRUE,
                           tables |-> [n \in thread[t].names |-> Described(module, db, n)]]
            BY <2>2 DEF DescribeTables
        <3>2. ASSUME NEW n \in DOMAIN known'.tables
              PROVE  ~known'.tables[n].flexible /\ Sound(n, known.tables[n].fields)'
            <4>1. n \in thread[t].names /\ known'.tables[n] = Described("postgresql", db, n)
                BY <1>1, <3>1, <3>2
            <4>2. Sound(n, {})
                BY <1>1, <3>1, <4>1 DEF ListedIsSound
            <4>3. ~known'.tables[n].flexible /\ Sound(n, Described("postgresql", db, n).fields)
                BY <1>1, <4>1, <4>2, DescribedIsSound
            <4> QED BY <3>1, <4>1, <4>3 DEF Sound
        <3> QED BY <3>2 DEF StoredIsSound
    <2>3. known' = known \/ \E t \in Threads : DescribeTables(t)
        BY DEF Next, vars, Submit, TestConnection, BuildConnection, BuildFails, StoreConnection,
               RunQuery, DropView, ListNames, DropListed, NoViews, CreateView, ListTables
    <2> QED BY <2>1, <2>2, <2>3
<1>4. ASSUME NEW t \in Threads PROVE ListedIsSound(t)' /\ AcceptedIsSound(t)'
    <2>1. ASSUME NEW s \in Stmts, Submit(t, s)
          PROVE  ListedIsSound(t)' /\ AcceptedIsSound(t)'
        <3>1. thread'[t].phase # "listed"
            BY <2>1, SubmittedPasses
        <3> QED BY <1>1, <2>1, <3>1, SubmitIsSound DEF ListedIsSound
    <2>2. CASE Continues(t)
        <3>1. AcceptedIsSound(t)'
            <4>1. Body(t)' = Body(t)
                BY <2>2 DEF Continues, Body
            <4>2. ASSUME NEW name, NEW fields, Sound(name, fields)
                  PROVE  name \in created' \/ (IsTable(db', name) /\ fields \subseteq PgColumns(db', name))
                BY <1>1, <4>2, SoundStays DEF Sound
            <4>3. SUFFICES ASSUME thread'[t].phase # "idle", thread'[t].checked,
                                  Stmt[thread'[t].stmt].kind = "read"
                           PROVE  Sound(Body(t).x.table, Range(Body(t).x.fields))'
                BY DEF AcceptedIsSound
            <4>4. Sound(Body(t).x.table, Range(Body(t).x.fields))
                BY <1>1, <2>2, <4>3 DEF Continues, AcceptedIsSound
            <4> DEFINE name == Body(t).x.table
                       fields == Range(Body(t).x.fields)
            <4>5. name \in created' \/ (IsTable(db', name) /\ fields \subseteq PgColumns(db', name))
                BY <4>2, <4>4
            <4> QED BY <4>1, <4>5 DEF Sound
        <3>2. CASE ListTables(t)
            <4>1. thread'[t].names = Listed(module, db) /\ UNCHANGED <<db, created>>
                <5>1. t \in DOMAIN thread /\ IsThread(thread[t])
                    BY DEF CallsInv, ThreadOK
                <5>2. thread' = [thread EXCEPT ![t].phase = "listed", ![t].names = Listed(module, db)]
                      /\ UNCHANGED <<db, created>>
                    BY <3>2 DEF ListTables
                <5> QED BY <5>1, <5>2 DEF IsThread
            <4>2. \A n \in thread'[t].names : Sound(n, {})
                BY <1>1, <4>1, ListedNamesAreSound
            <4>3. \A n \in thread'[t].names : Sound(n, {})'
                BY <4>1, <4>2 DEF Sound
            <4> QED BY <3>1, <4>3 DEF ListedIsSound
        <3>3. CASE ~ListTables(t)
            <4>1. thread'[t].phase = "listed" => \A n \in thread'[t].names : Sound(n, {})
                BY <1>1, <2>2, <3>3 DEF Continues, ListedIsSound
            <4>2. thread'[t].phase = "listed" => \A n \in thread'[t].names : Sound(n, {})'
                BY <1>1, <4>1, SoundStays
            <4> QED BY <3>1, <4>2 DEF ListedIsSound
        <3> QED BY <3>2, <3>3
    <2> QED BY <2>1, <2>2, ThreadsContinue
<1> QED BY <1>2, <1>3, <1>4 DEF PgInv

\* What the type checker takes from a stored PostgreSQL schema stays true of the
\* tables until the statements it accepted are run.
THEOREM SchemaStaysTrue == Spec => []PgInv
<1>1. Init => PgInv
    BY InitPgInv
<1>2. CallsInv /\ PgInv /\ [Next]_vars => PgInv'
    BY NextPgInv
<1> QED BY <1>1, <1>2, CallsInvariant, PTL DEF Spec

\* A read fails because the module raises, or because get_value has found a row
\* without a field.
LEMMA FailedReads ==
    ASSUME NEW stmt, NEW d, NEW first, NEW projected, NEW ids, NEW p,
           \/ p \in Raises(d)
           \/ p \in ReadOutcomes(stmt.x.command, projected, ids, d),
           Unwrapped(stmt, first, p).status = "failed"
    PROVE  p \in Raises(d) \/ \E id \in ids : DOMAIN projected[id] = {}
<1> SUFFICES ASSUME p \in ReadOutcomes(stmt.x.command, projected, ids, d)
             PROVE  \E id \in ids : DOMAIN projected[id] = {}
    OBVIOUS
<1>1. p.status = "done"
    BY ReadsKeep
<1>2. /\ stmt.x.command = "get_value" /\ p.rows # <<>>
      /\ DOMAIN p.rows[1] = {} \/ \E rows : Unwrapped(stmt, first, p) = WithAnswer(p, rows)
    BY <1>1, Zenon DEF Unwrapped, WithAnswer
<1>3. PICK id \in ids : p \in Returns(<<projected[id]>>, d)
    <2>1. p.rows # <<>> => p \notin Returns(<<>>, d)
        BY OutcomeOn
    <2>2. p \in UNION {Returns(<<projected[id]>>, d) : id \in ids}
        BY <1>2, <2>1, Zenon DEF ReadOutcomes
    <2> QED BY <2>2
<1>4. p = Outcome("done", <<projected[id]>>, d) /\ p.rows[1] = projected[id]
    BY <1>3, OutcomeOn DEF Returns
<1>5. ASSUME NEW rows PROVE Unwrapped(stmt, first, p) # WithAnswer(p, rows)
    <2>1. WithAnswer(p, rows).status = "done"
        BY <1>4 DEF WithAnswer, Outcome
    <2> QED BY <2>1
<1> QED BY <1>2, <1>4, <1>5

LEMMA NonemptyRange ==
    ASSUME NEW S, NEW s \in Seq(S), s # <<>>
    PROVE  Range(s) # {}
<1>1. 1 \in DOMAIN s
    OBVIOUS
<1> QED BY <1>1 DEF Range

LEMMA StepAcceptedSucceeds ==
    ASSUME CallsInv, DataInv, PgInv, [Next]_vars, NEW t \in Threads,
           Answers(t, "read", "failed"), thread[t].checked, Stmt[thread[t].stmt].kind = "read"
    PROVE  ReadIsUnchecked(Body(t))
<1> DEFINE stmt == Body(t)
           table == stmt.x.table
           fields == stmt.x.fields
<1>1. RunQuery(t)
    BY AnswersByQuery
<1>2. PICK o \in Outcomes(module, stmt, db) : Ends(t, o.status, o.rows)
    BY <1>1, QueryAnswer
<1>3. o.status = "failed"
    <2>1. t \in DOMAIN thread /\ IsThread(thread[t])
        BY DEF CallsInv, ThreadOK
    <2>2. thread'[t].status = o.status
        BY <1>2, <2>1 DEF Ends, IsThread
    <2> QED BY <2>2 DEF Answers
<1>4. PICK first, p : p \in ModuleOutcomes(module, stmt, db) /\ o = Unwrapped(stmt, first, p)
    BY OutcomeUnwrapped
<1>5. stmt.kind = "read" /\ fields \in Seq(STRING)
    <2>1. stmt.kind = "read"
        BY DEF Answers
    <2>2. IsCall(stmt)
        BY <1>1, QueryAnswer
    <2> QED BY <2>1, <2>2 DEF IsCall
<1>6. Unwrapped(stmt, first, p).status = "failed"
    BY <1>3, <1>4
<1>7. module = "postgresql" => Sound(table, Range(fields))
    <2>1. thread[t].phase # "idle"
        BY DEF Answers
    <2> QED BY <2>1 DEF PgInv, AcceptedIsSound
<1> HIDE DEF stmt
<1>8. ASSUME module = "postgresql" PROVE ReadIsUnchecked(stmt)
    <2> DEFINE rows == PgContents(db, table)
               shown == IF fields = <<>> THEN PgColumns(db, table) ELSE Range(fields)
               projected == [id \in DOMAIN rows |-> Restrict(rows[id], shown)]
    <2>1. p \in PgRead(stmt, db)
        BY <1>4, <1>5, <1>8 DEF ModuleOutcomes, PgOutcomes
    <2>2. CASE table \in created \/ ~AllResolve(Where(stmt.x.where), Single(table, PgColumns(db, table)))
        BY <1>8, <2>2, Zenon DEF ReadIsUnchecked
    <2>3. CASE /\ table \notin created
               /\ AllResolve(Where(stmt.x.where), Single(table, PgColumns(db, table)))
        <3>1. IsTable(db, table) /\ Range(fields) \subseteq PgColumns(db, table)
            BY <1>7, <1>8, <2>3 DEF Sound
        <3>2. PgNamesExist(stmt, Range(fields), db)
            BY <2>3, <3>1, Zenon DEF PgNamesExist, IsRelation
        <3>3. p \in ReadOutcomes(stmt.x.command, projected, PgSelected(stmt, rows), db)
            BY <2>1, <3>2, Zenon DEF PgRead
        <3>4. p \notin Raises(db)
            BY <3>3, ReadsKeep, OutcomeOn
        <3>5. PICK id \in PgSelected(stmt, rows) : DOMAIN projected[id] = {}
            <4> HIDE DEF rows, projected
            <4> QED BY <1>6, <3>3, <3>4, FailedReads, Zenon
        <3>6. id \in DOMAIN rows
            BY DEF PgSelected
        <3>7. DOMAIN projected[id] = shown
            BY <3>6 DEF Restrict
        <3>8. PgColumns(db, table) = {}
            BY <1>5, <3>5, <3>7, NonemptyRange
        <3> QED BY <1>8, <3>8, Zenon DEF ReadIsUnchecked
    <2> QED BY <2>2, <2>3
<1>9. ASSUME module = "mongodb" PROVE ReadIsUnchecked(stmt)
    <2> DEFINE docs == MongoContents(db, table)
               projected == [id \in DOMAIN docs |->
                    IF fields = <<>> THEN docs[id]
                    ELSE Restrict(docs[id], ({"_id"} \union Range(fields)) \intersect DOMAIN docs[id])]
    <2>1. p \in MongoRead(stmt, db)
        BY <1>4, <1>5, <1>9 DEF ModuleOutcomes, MongoOutcomes
    <2>2. p \in ReadOutcomes(stmt.x.command, projected, MongoSelected(stmt.x.where, docs), db)
        BY <2>1, Zenon DEF MongoRead
    <2>3. p \notin Raises(db)
        BY <2>2, ReadsKeep, OutcomeOn
    <2>4. PICK id \in MongoSelected(stmt.x.where, docs) : DOMAIN projected[id] = {}
        <3> HIDE DEF docs, projected
        <3> QED BY <1>6, <2>2, <2>3, FailedReads, Zenon
    <2>5. id \in DOMAIN docs
        BY DEF MongoSelected
    <2>6. CASE IsTable(db, table)
        <3>1. docs = db.tables[table].rows
            BY <2>6, Zenon DEF MongoContents
        <3>2. "_id" \in DOMAIN docs[id]
            BY <1>9, <2>5, <2>6, <3>1 DEF DataInv, DataOK, RowsFit, IsTable
        <3>3. "_id" \in DOMAIN projected[id]
            BY <2>5, <3>2 DEF Restrict
        <3> QED BY <2>4, <3>3
    <2>7. CASE ~IsTable(db, table) /\ ~IsView(db, table)
        <3>1. docs = <<>>
            BY <2>7, Zenon DEF MongoContents
        <3> QED BY <2>5, <3>1
    <2>8. CASE IsView(db, table)
        BY <1>9, <2>8, Zenon DEF ReadIsUnchecked
    <2> QED BY <2>6, <2>7, <2>8
<1>10. ASSUME module = "neo4j" PROVE ReadIsUnchecked(stmt)
    <2> DEFINE nodes == NeoNodes(stmt, db)
               records == [id \in DOMAIN nodes |->
                    IF fields = <<>> THEN [n |-> nodes[id]]
                    ELSE [f \in Range(fields) |-> FieldOf(nodes[id], f)]]
    <2>1. p \in NeoRead(stmt, db)
        BY <1>4, <1>5, <1>10 DEF ModuleOutcomes, NeoOutcomes
    <2>2. CASE NeoFails(stmt)
        BY <1>10, <2>2, Zenon DEF ReadIsUnchecked
    <2>3. CASE ~NeoFails(stmt)
        <3>1. p \in ReadOutcomes(stmt.x.command, records, NeoSelected(stmt, db), db)
            BY <2>1, <2>3, Zenon DEF NeoRead
        <3>2. p \notin Raises(db)
            BY <3>1, ReadsKeep, OutcomeOn
        <3>3. PICK id \in NeoSelected(stmt, db) : DOMAIN records[id] = {}
            <4> HIDE DEF nodes, records
            <4> QED BY <1>6, <3>1, <3>2, FailedReads, Zenon
        <3>4. id \in DOMAIN nodes
            BY DEF NeoSelected
        <3>5. DOMAIN records[id] = IF fields = <<>> THEN {"n"} ELSE Range(fields)
            BY <3>4
        <3> QED BY <1>5, <3>3, <3>5, NonemptyRange
    <2> QED BY <2>2, <2>3
<1> QED BY <1>1, <1>8, <1>9, <1>10, QueryAnswer DEF stmt

\* A read that TypeChecker accepted against a loaded schema fails in the database
\* only for what the checker does not look at, whatever the other queries did to
\* the schema and the database between its check and its answer.
THEOREM AcceptedReadsAnswer == Spec => AcceptedReadsSucceed
<1>1. CallsInv /\ DataInv /\ PgInv /\ [Next]_vars =>
        [\A t \in Threads :
          Answers(t, "read", "failed") /\ thread[t].checked /\ Stmt[thread[t].stmt].kind = "read"
            => ReadIsUnchecked(Body(t))]_vars
    BY StepAcceptedSucceeds
<1> QED BY <1>1, CallsInvariant, RowsAlwaysFit, SchemaStaysTrue, PTL DEF Spec, AcceptedReadsSucceed
=============================================================================
