-------------------------- MODULE StandardModules --------------------------
(***************************************************************************)
(* translate, execute, create_view and sync_schema_from_source of the      *)
(* PostgreSQL, MongoDB and Neo4j modules, as functions of a statement and  *)
(* of the contents of the database: the outcomes it may have.              *)
(*                                                                         *)
(* db.tables  name -> [columns, strict, rows]: the tables, collections or  *)
(*            labels.  columns are those of a PostgreSQL table or of the   *)
(*            validator of a collection (strict: there is one), and <<>>   *)
(*            otherwise; rows maps an identity to a row, a function from   *)
(*            the fields the row has.  Columns hold integers.              *)
(* db.views   name -> the CreateViewStatement it was created by            *)
(* db.links   Neo4j's relationships between identities                     *)
(***************************************************************************)
EXTENDS Conditions

\* Conditions are translated and evaluated by recursion over their nodes, by
\* these operators of Translation.  Conditions has their steps.
CONSTANTS
    LeavesIn(_, _),         \* LeavesOf: the leaves of one kind of a condition or text
    ValueOf(_, _),          \* Value: that of an expression in an environment
    TruthOf(_, _),          \* Truth: that of a condition or text in one
    SqlOf(_),               \* PgCondition: an SQL text and its parameters
    SqlBound(_, _),         \* Bound: an SQL text with its placeholders replaced, and the rest
    CypherOf(_, _),         \* NeoCondition: a Cypher text and its parameters
    CypherBound(_, _),      \* Supplied: a Cypher text with its parameters looked up
    FilterOf(_),            \* MongoFilter: the filter document of a condition
    FilterMatches(_, _, _), \* Matches: whether a document matches a filter
    FilterIsExpression(_)   \* IsExpression: whether a filter is one

Outcome(status, rows, db) == [status |-> status, rows |-> rows, db |-> db]
Raises(db) == {Outcome("failed", <<>>, db)}
Returns(rows, db) == {Outcome("done", rows, db)}

Absent(condition) == condition.kind = "no condition"
Where(condition) == IF Absent(condition) THEN True ELSE condition
IsTable(db, name) == name \in DOMAIN db.tables
IsView(db, name) == name \in DOMAIN db.views

Identities(db) == UNION {DOMAIN db.tables[t].rows : t \in DOMAIN db.tables}
NewIdentity(db) == 1 + Max({0} \union Identities(db))
\* The rows of an answer, in any order: nothing is asked for.
InOrder(rows, ids) ==
    LET order == SetToSeq(ids) IN [i \in DOMAIN order |-> rows[order[i]]]

\* dict[key] = value.
Put(f, key, value) == [k \in DOMAIN f \union {key} |-> IF k = key THEN value ELSE f[k]]
WithRow(db, table, row) == [db EXCEPT !.tables[table].rows = Put(@, NewIdentity(db), row)]
Assigned(db, table, ids, values) ==
    [db EXCEPT !.tables[table].rows =
        [id \in DOMAIN @ |-> IF id \in ids THEN Over(values, @[id]) ELSE @[id]]]
Without(db, table, ids) ==
    [db EXCEPT !.tables[table].rows = Restrict(@, DOMAIN @ \ ids),
               !.links = {l \in @ : {l.source, l.target} \intersect ids = {}}]

\* The field=value pairs of a write, evaluated by _eval_literal.
Values(stmt) ==
    LET pairs == stmt.x.values
    IN  [name \in {pairs[i][1] : i \in DOMAIN pairs} |->
            EvalLiteral(pairs[CHOOSE i \in DOMAIN pairs : pairs[i][1] = name][2])]

\* get_value and get_row ask for one row (LIMIT 1, find_one): any of them.
ReadOutcomes(command, rows, ids, db) ==
    IF command \notin {"get_value", "get_row"} THEN Returns(InOrder(rows, ids), db)
    ELSE IF ids = {} THEN Returns(<<>>, db)
    ELSE UNION {Returns(<<rows[id]>>, db) : id \in ids}

\* Executor._execute_db_query unwraps a get_value: the value of the row's first
\* key; IndexError if the row has none.
\* Seeded fault: the key MongoDB puts first in every document.
FirstKeyOfDocument(row, fields, otherwise) ==
    IF otherwise \in DOMAIN row THEN otherwise ELSE fields[1]
FirstKey(row, fields, otherwise) ==
    IF fields # <<>> /\ fields[1] \in DOMAIN row THEN fields[1] ELSE otherwise

Unwrapped(stmt, otherwise, outcome) ==
    IF stmt.kind # "read" \/ stmt.x.command # "get_value" \/ outcome.rows = <<>>
    THEN outcome
    ELSE LET row == outcome.rows[1]
             key == FirstKey(row, stmt.x.fields, otherwise)
         IN  IF DOMAIN row = {} THEN Outcome("failed", <<>>, outcome.db)
             ELSE [outcome EXCEPT !.rows = <<[value |-> row[key]]>>]

-----------------------------------------------------------------------------
\* PostgreSQL: queries

\* The name a view gives to its i-th field (_build_view_sql): the manual alias,
\* or the field's name, after the table's name if that is there twice.
ManualName(field) == IF field.as = "" THEN field.name ELSE field.as
TableOf(aliases, prefix) == aliases[CHOOSE i \in DOMAIN aliases : aliases[i].alias = prefix].table
PgOutputName(view, i) ==
    LET field == view.x.returns[i]
        Twice == \E j \in DOMAIN view.x.returns \ {i} :
                    ManualName(view.x.returns[j]) = ManualName(field)
    IN  IF field.as = "" /\ field.prefix # "" /\ Twice
        THEN TableOf(view.x.aliases, field.prefix) \o "_" \o field.name
        ELSE ManualName(field)
PgOutput(view) == [i \in DOMAIN view.x.returns |-> PgOutputName(view, i)]

PgColumns(db, name) ==
    Range(IF IsTable(db, name) THEN db.tables[name].columns ELSE PgOutput(db.views[name]))
IsRelation(db, name) == IsTable(db, name) \/ IsView(db, name)

\* columns maps the aliases in scope to their columns.
Resolves(parts, columns) ==
    IF Len(parts) = 2 THEN parts[1] \in DOMAIN columns /\ parts[2] \in columns[parts[1]]
    ELSE Cardinality({a \in DOMAIN columns : parts[1] \in columns[a]}) = 1
RefsIn(node) == {leaf.x : leaf \in Range(LeavesIn(node, "ref"))}
AllResolve(node, columns) == \A parts \in RefsIn(node) : Resolves(parts, columns)

\* SELECT ... FROM ... JOIN ... ON ... WHERE ...: a join is conditioned in the
\* scope of the aliases up to its own, WHERE in that of all.
Names(aliases) == {aliases[i].alias : i \in DOMAIN aliases}
PgScope(db, aliases) == [a \in Names(aliases) |-> PgColumns(db, TableOf(aliases, a))]
ReturnedRef(field) == IF field.prefix = "" THEN <<field.name>> ELSE <<field.prefix, field.name>>
PgValid(db, aliases, returns) ==
    /\ \A i \in DOMAIN aliases : IsTable(db, aliases[i].table)
    /\ LET Scope(n) == PgScope(db, SubSeq(aliases, 1, n))
       IN  /\ \A i \in DOMAIN aliases :
                AllResolve(Where(aliases[i].where), Scope(IF i = 1 THEN Len(aliases) ELSE i))
           /\ \A i \in DOMAIN returns : Resolves(ReturnedRef(returns[i]), Scope(Len(aliases)))

\* The conditions of a query block in the order of the text, WHERE last.
PgTextOrder(aliases) == Append(Tail(aliases), aliases[1])
PgConditions(aliases) ==
    [i \in DOMAIN aliases |-> SqlOf(Where(PgTextOrder(aliases)[i].where))]
PgText(conditions) == FoldLeft(LAMBDA text, c : LogicalAnd(text, c.text), True, conditions)
\* _translate_query_block puts the parameters of WHERE before those of the joins.
PgParams(conditions) ==
    Last(conditions).params \o FlattenSeq([i \in DOMAIN Front(conditions) |-> conditions[i].params])

\* One identity per alias.
Picks(db, aliases) ==
    {ids \in [DOMAIN aliases -> Identities(db)] :
        \A i \in DOMAIN aliases :
            IsTable(db, aliases[i].table) /\ ids[i] \in DOMAIN db.tables[aliases[i].table].rows}
Env(db, aliases, ids) ==
    [a \in Names(aliases) |->
        LET i == CHOOSE j \in DOMAIN aliases : aliases[j].alias = a
        IN  db.tables[aliases[i].table].rows[ids[i]]]
\* Rows are dicts: of two fields with one name the later stays.
RowOf(names, refs, env) ==
    [name \in Range(names) |->
        ValueOf(VariableRef(refs[Max({i \in DOMAIN names : names[i] = name})]), env)]
\* One row for each choice of rows the text is true of.
JoinRows(db, aliases, text, names, refs) ==
    LET chosen == SetToSeq({ids \in Picks(db, aliases) :
                                TruthOf(text, Env(db, aliases, ids)) = "true"})
    IN  [i \in DOMAIN chosen |-> RowOf(names, refs, Env(db, aliases, chosen[i]))]

FieldNames(returns) == [i \in DOMAIN returns |-> returns[i].name]
ReturnedRefs(returns) == [i \in DOMAIN returns |-> ReturnedRef(returns[i])]

PgQueryBlock(stmt, db) ==
    LET aliases == stmt.x.aliases
        returns == stmt.x.returns
        conditions == PgConditions(aliases)
        text == SqlBound(PgText(conditions), PgParams(conditions)).text
    IN  IF PgValid(db, aliases, returns)
        THEN Returns(JoinRows(db, aliases, text, FieldNames(returns), ReturnedRefs(returns)), db)
        ELSE Raises(db)

\* What SELECT * FROM name returns, by row number if it is a view.
PgContents(db, name) ==
    IF IsTable(db, name) THEN db.tables[name].rows
    ELSE LET view == db.views[name]
         IN  JoinRows(db, view.x.aliases, PgText(PgConditions(view.x.aliases)), PgOutput(view), ReturnedRefs(view.x.returns))

-----------------------------------------------------------------------------
\* PostgreSQL: calls

PgSelects(where, alias, row) ==
    LET condition == SqlOf(Where(where))
    IN  TruthOf(SqlBound(condition.text, condition.params).text, Single(alias, row)) = "true"

PgSelected(stmt, rows) == {id \in DOMAIN rows : PgSelects(stmt.x.where, stmt.x.table, rows[id])}
PgNamesExist(stmt, names, db) ==
    /\ IsRelation(db, stmt.x.table)
    /\ names \subseteq PgColumns(db, stmt.x.table)
    /\ AllResolve(Where(stmt.x.where), Single(stmt.x.table, PgColumns(db, stmt.x.table)))

PgRead(stmt, db) ==
    LET rows == PgContents(db, stmt.x.table)
        fields == IF stmt.x.fields = <<>> THEN PgColumns(db, stmt.x.table)
                  ELSE Range(stmt.x.fields)
        projected == [id \in DOMAIN rows |-> Restrict(rows[id], fields)]
    IN  IF PgNamesExist(stmt, Range(stmt.x.fields), db)
        THEN ReadOutcomes(stmt.x.command, projected, PgSelected(stmt, rows), db)
        ELSE Raises(db)

\* A text is no integer.  Writing through a view is not modelled.
PgWritable(stmt, db) ==
    /\ IsTable(db, stmt.x.table)
    /\ PgNamesExist(stmt, DOMAIN Values(stmt), db)
    /\ NodeText \notin Range(Values(stmt))

PgInsert(stmt, db) ==
    IF stmt.x.values = <<>> \/ ~PgWritable(stmt, db) THEN Raises(db)
    ELSE LET row == Over(Values(stmt), [c \in PgColumns(db, stmt.x.table) |-> Null])
         IN  Returns(<<row>>, WithRow(db, stmt.x.table, row))

\* Seeded fault: the WHERE clause is left out.
PgUpdateAll(stmt, db) ==
    IF stmt.x.values = <<>> \/ Absent(stmt.x.where) \/ ~PgWritable(stmt, db) THEN Raises(db)
    ELSE Returns(<<>>, Assigned(db, stmt.x.table, DOMAIN db.tables[stmt.x.table].rows, Values(stmt)))
PgUpdate(stmt, db) ==
    IF stmt.x.values = <<>> \/ Absent(stmt.x.where) \/ ~PgWritable(stmt, db)
    THEN Raises(db)
    ELSE LET ids == PgSelected(stmt, db.tables[stmt.x.table].rows)
             after == Assigned(db, stmt.x.table, ids, Values(stmt))
         IN  Returns(InOrder(after.tables[stmt.x.table].rows, ids), after)

PgDelete(stmt, db) ==
    IF Absent(stmt.x.where) \/ ~PgWritable(stmt, db) THEN Raises(db)
    ELSE Returns(<<>>, Without(db, stmt.x.table,
                               PgSelected(stmt, db.tables[stmt.x.table].rows)))

NewTable(columns, strict) == [columns |-> columns, strict |-> strict, rows |-> <<>>]
WithTable(db, name, table) == [db EXCEPT !.tables = Put(@, name, table)]

\* CREATE TABLE IF NOT EXISTS
PgInsertTable(stmt, db) ==
    Returns(<<>>, IF IsRelation(db, stmt.x.table) THEN db
                  ELSE WithTable(db, stmt.x.table, NewTable(stmt.x.fields, TRUE)))

\* CREATE VIEW as _build_view_sql writes it, with placeholders where the
\* conditions have literals, and no parameters.
PgCreateView(stmt, db) ==
    LET names == PgOutput(stmt)
    IN  IF /\ ~IsRelation(db, stmt.x.name)
           /\ PgValid(db, stmt.x.aliases, stmt.x.returns)
           /\ LeavesIn(PgText(PgConditions(stmt.x.aliases)), "placeholder") = <<>>
           /\ IsInjective(names)
        THEN Returns(<<>>, [db EXCEPT !.views = Put(@, stmt.x.name, stmt)])
        ELSE Raises(db)

-----------------------------------------------------------------------------
\* MongoDB

MongoSelected(where, docs) ==
    {id \in DOMAIN docs : FilterMatches(FilterOf(Where(where)), docs[id], <<>>)}

\* The fields of the two sides of an equation between an alias and the first
\* one (_extract_join_fields): <<local, foreign>>, or <<>>.
JoinFields(where, alias, primary) ==
    IF where.kind # "compare" \/ \E i \in {1, 2} : where.args[i].kind # "ref" \/ Len(where.args[i].x) < 2
    THEN <<>>
    ELSE LET left == where.args[1].x
             right == where.args[2].x
         IN  CASE left[1] = alias /\ right[1] = primary -> <<right[2], left[2]>>
               [] left[1] = primary /\ right[1] = alias -> <<left[2], right[2]>>
               [] OTHER -> <<>>

\* $lookup, $unwind keeping documents without a match, then $match.
FieldOf(doc, field) == IF field \in DOMAIN doc THEN doc[field] ELSE Null
Lookup(db, primary, docs, alias) ==
    LET fields == JoinFields(alias.where, alias.alias, primary)
        foreign == IF IsTable(db, alias.table) THEN db.tables[alias.table].rows ELSE <<>>
        Found(doc) == {id \in DOMAIN foreign :
            fields # <<>> => FieldOf(foreign[id], fields[2]) = FieldOf(doc, fields[1])}
        Unwound(d) ==
            IF Found(d.doc) = {} THEN <<d>>
            ELSE LET found == InOrder(foreign, Found(d.doc))
                 IN  [i \in DOMAIN found |-> [d EXCEPT !.joined = Over(Single(alias.alias, found[i]), @)]]
    IN  SelectSeq(FlattenSeq([i \in DOMAIN docs |-> Unwound(docs[i])]),
                  LAMBDA d : FilterMatches(FilterOf(Where(alias.where)), d.doc, d.joined))

\* _build_view_projection: an automatic name only for the later of two fields.
MongoOutput(view) ==
    LET fields == view.x.returns
        Seen(i) == \E j \in 1..(i - 1) : fields[j].as = "" /\ fields[j].name = fields[i].name
    IN  [i \in DOMAIN fields |->
            IF fields[i].as = "" /\ fields[i].prefix # "" /\ Seen(i)
            THEN TableOf(view.x.aliases, fields[i].prefix) \o "_" \o fields[i].name
            ELSE ManualName(fields[i])]
MongoPath(view, field) ==
    IF field.prefix \in {"", view.x.aliases[1].alias} THEN <<field.name>>
    ELSE <<field.prefix, field.name>>

\* The documents of a view.  An output name given twice is that of the later
\* field; a path that leads nowhere gives no field.
MongoViewDocs(db, view) ==
    LET primary == view.x.aliases[1]
        docs == IF IsTable(db, primary.table) THEN db.tables[primary.table].rows ELSE <<>>
        matched == InOrder(docs, MongoSelected(primary.where, docs))
        joined == FoldLeft(LAMBDA ds, alias : Lookup(db, primary.alias, ds, alias),
                           [i \in DOMAIN matched |-> [doc |-> matched[i], joined |-> <<>>]],
                           Tail(view.x.aliases))
        names == MongoOutput(view)
        Path(name) == MongoPath(view, view.x.returns[Max({i \in DOMAIN names : names[i] = name})])
        Output(d) == LET there == {name \in Range(names) : At(Path(name), d.doc, d.joined) # <<>>}
                     IN  [name \in there |-> At(Path(name), d.doc, d.joined)[1]]
    IN  [i \in DOMAIN joined |-> Output(joined[i])]

MongoContents(db, name) ==
    IF IsTable(db, name) THEN db.tables[name].rows
    ELSE IF IsView(db, name) THEN MongoViewDocs(db, db.views[name])
    ELSE <<>>

MongoRead(stmt, db) ==
    LET docs == MongoContents(db, stmt.x.table)
        projected == [id \in DOMAIN docs |->
            IF stmt.x.fields = <<>> THEN docs[id]
            ELSE Restrict(docs[id], ({"_id"} \union Range(stmt.x.fields)) \intersect DOMAIN docs[id])]
    IN  ReadOutcomes(stmt.x.command, projected, MongoSelected(stmt.x.where, docs), db)

\* The validator of a collection wants integers in the fields it names.
MongoAccepts(db, table, values) ==
    IsTable(db, table) /\ db.tables[table].strict =>
        \A field \in DOMAIN values \intersect Range(db.tables[table].columns) :
            values[field] # NodeText

\* insert_one creates the collection if there is none, and gives the document
\* an _id if it has none.
MongoInsert(stmt, db) ==
    IF IsView(db, stmt.x.table) \/ ~MongoAccepts(db, stmt.x.table, Values(stmt)) THEN Raises(db)
    ELSE LET there == IF IsTable(db, stmt.x.table) THEN db
                      ELSE WithTable(db, stmt.x.table, NewTable(<<>>, FALSE))
             document == Over(Values(stmt), [field \in {"_id"} |-> ObjectId])
         IN  Returns(<<[inserted_id |-> document["_id"]]>>, WithRow(there, stmt.x.table, document))

\* update_one and delete_one touch one document that matches, whichever; they
\* are not called with an empty filter.
MongoTouchable(stmt, db) ==
    LET matching == IF IsTable(db, stmt.x.table)
                    THEN MongoSelected(stmt.x.where, db.tables[stmt.x.table].rows) ELSE {}
    IN  IF matching = {} THEN {{}} ELSE {{id} : id \in matching}
MongoMayTouch(stmt, db) ==
    FilterOf(Where(stmt.x.where)).kind # "{}" /\ ~IsView(db, stmt.x.table)
Counted(ids) == <<[count |-> Cardinality(ids)]>>

\* An empty $set is an error; so is a document the validator refuses.
MongoUpdate(stmt, db) ==
    IF \/ stmt.x.values = <<>> \/ ~MongoAccepts(db, stmt.x.table, Values(stmt))
       \/ ~MongoMayTouch(stmt, db)
    THEN Raises(db)
    ELSE UNION {Returns(Counted(ids), IF ids = {} THEN db
                                      ELSE Assigned(db, stmt.x.table, ids, Values(stmt))) :
                    ids \in MongoTouchable(stmt, db)}
MongoDelete(stmt, db) ==
    IF ~MongoMayTouch(stmt, db) THEN Raises(db)
    ELSE UNION {Returns(Counted(ids), IF ids = {} THEN db ELSE Without(db, stmt.x.table, ids)) :
                    ids \in MongoTouchable(stmt, db)}

\* Seeded fault: a collection that exists is dropped first.
MongoInsertTableAnew(stmt, db) ==
    Returns(<<>>, IF IsView(db, stmt.x.table) THEN db
                  ELSE WithTable(db, stmt.x.table, NewTable(stmt.x.fields, TRUE)))

\* CollectionInvalid is answered like success.
MongoInsertTable(stmt, db) ==
    Returns(<<>>, IF IsRelation(db, stmt.x.table) THEN db
                  ELSE WithTable(db, stmt.x.table, NewTable(stmt.x.fields, TRUE)))

MongoCreateView(stmt, db) ==
    LET primary == stmt.x.aliases[1].alias
        LookupIsValid(alias) ==
            /\ ~Absent(alias.where)
            /\ \/ JoinFields(alias.where, alias.alias, primary) # <<>>
               \/ FilterIsExpression(FilterOf(alias.where))
    IN  IF /\ ~IsRelation(db, stmt.x.name)
           /\ \A i \in 2..Len(stmt.x.aliases) : LookupIsValid(stmt.x.aliases[i])
        THEN Returns(<<>>, [db EXCEPT !.views = Put(@, stmt.x.name, stmt)])
        ELSE Raises(db)

-----------------------------------------------------------------------------
\* Neo4j

\* A condition that speaks of anything but the aliases of its MATCH is an error.
NeoValid(condition, aliases) ==
    /\ LeavesIn(condition.text, "str") = <<>>
    /\ \A parts \in RefsIn(condition.text) : parts[1] \in aliases

NeoSelects(where, row) ==
    LET condition == CypherOf(Where(where), "n")
    IN  TruthOf(CypherBound(condition.text, condition.params), Single("n", row)) = "true"
NeoNodes(stmt, db) == IF IsTable(db, stmt.x.table) THEN db.tables[stmt.x.table].rows ELSE <<>>
NeoSelected(stmt, db) ==
    {id \in DOMAIN NeoNodes(stmt, db) : NeoSelects(stmt.x.where, NeoNodes(stmt, db)[id])}
NeoFails(stmt) == ~NeoValid(CypherOf(Where(stmt.x.where), "n"), {"n"})

NeoRead(stmt, db) ==
    LET nodes == NeoNodes(stmt, db)
        records == [id \in DOMAIN nodes |->
            IF stmt.x.fields = <<>> THEN [n |-> nodes[id]]
            ELSE [f \in Range(stmt.x.fields) |-> FieldOf(nodes[id], f)]]
    IN  IF NeoFails(stmt) THEN Raises(db)
        ELSE ReadOutcomes(stmt.x.command, records, NeoSelected(stmt, db), db)

\* CREATE makes the label if it is new.
NeoInsert(stmt, db) ==
    LET there == IF IsTable(db, stmt.x.table) THEN db
                 ELSE WithTable(db, stmt.x.table, NewTable(<<>>, FALSE))
    IN  Returns(<<[n |-> Values(stmt)]>>, WithRow(there, stmt.x.table, Values(stmt)))

NeoUpdate(stmt, db) ==
    IF Absent(stmt.x.where) \/ stmt.x.values = <<>> \/ NeoFails(stmt) THEN Raises(db)
    ELSE LET after == IF IsTable(db, stmt.x.table)
                      THEN Assigned(db, stmt.x.table, NeoSelected(stmt, db), Values(stmt)) ELSE db
         IN  Returns([i \in DOMAIN InOrder(NeoNodes(stmt, after), NeoSelected(stmt, db)) |->
                        [n |-> InOrder(NeoNodes(stmt, after), NeoSelected(stmt, db))[i]]], after)

NeoDelete(stmt, db) ==
    IF Absent(stmt.x.where) \/ NeoFails(stmt) THEN Raises(db)
    ELSE Returns(<<>>, IF IsTable(db, stmt.x.table)
                       THEN Without(db, stmt.x.table, NeoSelected(stmt, db)) ELSE db)

\* One path through the aliases in their order: each but the first extends it
\* by the relationship its condition names, whatever source and target it
\* names.  An alias without one cannot be bound.  Conditions beside the traversal
\* (_extract_property_conditions) are left out: no statement has them.
Traversal(alias) == alias.where.kind = "rel"
\* Seeded fault: the arrow the other way.
FollowsBackwards(db, aliases, ids) ==
    \A i \in 2..Len(aliases) :
        [source |-> ids[i], type |-> aliases[i].where.x.type, target |-> ids[i - 1]] \in db.links
Follows(db, aliases, ids) ==
    \A i \in 2..Len(aliases) :
        [source |-> ids[i - 1], type |-> aliases[i].where.x.type, target |-> ids[i]] \in db.links

NeoReturns(aliases, field) ==
    IF field.prefix # "" THEN field.prefix \in Names(aliases)
    ELSE \E i \in 2..Len(aliases) : field.name \in Range(aliases[i].where.x.properties)

NeoQueryBlock(stmt, db) ==
    LET aliases == stmt.x.aliases
        returns == stmt.x.returns
        condition == CypherOf(Where(aliases[1].where), aliases[1].alias)
        text == CypherBound(condition.text, condition.params)
        paths == SetToSeq({ids \in Picks(db, aliases) :
                    /\ Follows(db, aliases, ids)
                    /\ TruthOf(text, Env(db, aliases, ids)) = "true"})
    IN  IF /\ \A i \in 2..Len(aliases) : Traversal(aliases[i])
           /\ NeoValid(condition, Names(aliases))
           /\ IsInjective(FieldNames(returns))
           /\ \A i \in DOMAIN returns : NeoReturns(aliases, returns[i])
        THEN Returns([i \in DOMAIN paths |->
                        RowOf(FieldNames(returns), ReturnedRefs(returns), Env(db, aliases, paths[i]))], db)
        ELSE Raises(db)

-----------------------------------------------------------------------------
\* What each module does with a statement.  NotImplementedError for what it
\* does not translate.
PgOutcomes(stmt, db) ==
    CASE stmt.kind = "query" -> PgQueryBlock(stmt, db)
      [] stmt.kind = "read" -> PgRead(stmt, db)
      [] stmt.kind = "write" ->
            CASE stmt.x.command = "insert_row" -> PgInsert(stmt, db)
              [] stmt.x.command = "update" -> PgUpdate(stmt, db)
              [] stmt.x.command = "delete" -> PgDelete(stmt, db)
              [] stmt.x.command = "insert_table" -> PgInsertTable(stmt, db)

MongoOutcomes(stmt, db) ==
    CASE stmt.kind = "query" -> Raises(db)
      [] stmt.kind = "read" -> MongoRead(stmt, db)
      [] stmt.kind = "write" ->
            CASE stmt.x.command = "insert_row" -> MongoInsert(stmt, db)
              [] stmt.x.command = "update" -> MongoUpdate(stmt, db)
              [] stmt.x.command = "delete" -> MongoDelete(stmt, db)
              [] stmt.x.command = "insert_table" -> MongoInsertTable(stmt, db)

NeoOutcomes(stmt, db) ==
    CASE stmt.kind = "query" -> NeoQueryBlock(stmt, db)
      [] stmt.kind = "read" -> NeoRead(stmt, db)
      [] stmt.kind = "write" ->
            CASE stmt.x.command = "insert_row" -> NeoInsert(stmt, db)
              [] stmt.x.command = "update" -> NeoUpdate(stmt, db)
              [] stmt.x.command = "delete" -> NeoDelete(stmt, db)
              [] stmt.x.command = "insert_table" -> Raises(db)

Outcomes(module, stmt, db) ==
    LET first == CASE module = "mongodb" -> "_id"
                   [] module = "neo4j" -> "n"
                   [] module = "postgresql" ->
                        IF stmt.kind = "read" /\ IsTable(db, stmt.x.table)
                        THEN db.tables[stmt.x.table].columns[1] ELSE ""
    IN  {Unwrapped(stmt, first, o) :
            o \in CASE module = "postgresql" -> PgOutcomes(stmt, db)
                    [] module = "mongodb" -> MongoOutcomes(stmt, db)
                    [] module = "neo4j" -> NeoOutcomes(stmt, db)}

-----------------------------------------------------------------------------
\* sync_full_schema of each module: what it lists, and the fields it then finds
\* of one of the names.
Listed(module, db) ==
    DOMAIN db.tables \union (IF module = "neo4j" THEN {} ELSE DOMAIN db.views)

FieldsSeen(rows) == UNION {DOMAIN rows[id] : id \in DOMAIN rows}
Described(module, db, name) ==
    CASE module = "postgresql" ->
            [flexible |-> FALSE, fields |-> IF IsRelation(db, name) THEN PgColumns(db, name) ELSE {}]
      [] module = "mongodb" ->
            IF IsTable(db, name) /\ db.tables[name].strict
            THEN [flexible |-> FALSE, fields |-> {"_id"} \union Range(db.tables[name].columns)]
            ELSE [flexible |-> TRUE, fields |-> {"_id"} \union FieldsSeen(MongoContents(db, name))]
      [] module = "neo4j" ->
            [flexible |-> FALSE,
             fields |-> IF IsTable(db, name) THEN FieldsSeen(db.tables[name].rows) ELSE {}]
=============================================================================
