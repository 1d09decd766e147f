-------------------------- MODULE MCDatabaseCalls --------------------------
(***************************************************************************)
(* Two tables of two rows, one relationship, a view that may already be    *)
(* there, and statements of every kind, with the conditions the modules    *)
(* translate differently.                                                  *)
(***************************************************************************)
EXTENDS DatabaseCalls

T == INSTANCE TypeCheck
MCLeavesIn(node, kind) == T!LeavesOf(node, kind)
MCValueOf(node, env) == T!Value(node, env)
MCTruthOf(node, env) == T!Truth(node, env)
MCSqlOf(node) == T!PgCondition(node)
MCSqlBound(text, params) == T!Bound(text, params)
MCCypherOf(node, alias) == T!NeoCondition(node, alias)
MCCypherBound(text, params) == T!Supplied(text, params)
MCFilterOf(node) == T!MongoFilter(node)
MCFilterMatches(filter, doc, joined) == T!Matches(filter, doc, joined)
MCFilterIsExpression(filter) == T!IsExpression(filter)
MCConditionErrors(node, scope) == T!CheckCondition(node, scope)
MCOnlyFieldsAndLiterals(node) == T!FieldAgainstLiteral(node)

CONSTANTS t1, t2
MCThreads == {t1, t2}
MCSymmetry == Permutations(MCThreads)

Name(field) == VariableRef(<<field>>)
Of(alias, field) == VariableRef(<<alias, field>>)
Number(field, op, n) == Compare(Name(field), op, IntegerLiteral(n))
Return(prefix, name) == [prefix |-> prefix, name |-> name, as |-> ""]
Set(name, n) == <<<<name, IntegerLiteral(n)>>>>

Users == QueryAlias("u", "users", NoCondition)
UsersOfAge(n) == QueryAlias("u", "users", Number("age", "=", n))
OrdersWhere(where) == QueryAlias("o", "orders", where)
OfUser == Compare(Name("user"), "=", Of("u", "id"))
Placed == RelationshipTraversal("u", "PLACED", "o", <<>>)
UserOrders == <<Return("u", "id"), Return("o", "user")>>

MCStmt == [
    value     |-> DbTableCall("get_value", "users", <<"age">>, Number("id", "=", 1)),
    row       |-> DbTableCall("get_row", "users", <<>>, Number("age", "=", 1)),
    both      |-> DbTableCall("get_table", "users", <<"id">>,
                              LogicalAnd(Number("age", "=", 1), Number("id", "=", 2))),
    notOne    |-> DbTableCall("get", "users", <<>>, LogicalNot(Number("id", "=", 1))),
    orNull    |-> DbTableCall("get_table", "users", <<"age">>,
                              LogicalOr(IsNull(Name("age")), Number("id", ">", 1))),
    byName    |-> DbTableCall("get_table", "users", <<>>, Compare(Name("id"), "=", Name("my_id"))),
    bySum     |-> DbTableCall("get_row", "users", <<>>,
                    Compare(Name("id"), "=", BinaryOp(IntegerLiteral(1), IntegerLiteral(1)))),
    mistyped  |-> DbTableCall("get_row", "users", <<>>,
                              Compare(IntegerLiteral(1), "=", BoolLiteral(1))),
    badField  |-> DbTableCall("get_value", "users", <<"name">>, NoCondition),
    inLet     |-> LetStatement("r", DbTableCall("get_row", "logs", <<>>, NoCondition)),
    setAge    |-> DbWriteCall("update", "users", Set("age", 2), Number("age", "=", 1)),
    setByRef  |-> DbWriteCall("update", "users", <<<<"age", Name("x")>>>>, Number("id", "!=", 1)),
    setAll    |-> DbWriteCall("update", "users", Set("age", 3), NoCondition),
    delete    |-> DbWriteCall("delete", "users", <<>>,
                              LogicalAnd(IsNotNull(Name("age")), Number("id", "<=", 1))),
    addUser   |-> DbWriteCall("insert_row", "users", Set("id", 3), NoCondition),
    addLog    |-> DbWriteCall("insert_row", "logs", Set("n", 1), NoCondition),
    newLogs   |-> [DbWriteCall("insert_table", "logs", <<>>, NoCondition)
                    EXCEPT !.x.fields = <<"n">>],
    join      |-> DbQueryBlock(<<UsersOfAge(1), OrdersWhere(OfUser)>>, UserOrders),
    joinBoth  |-> DbQueryBlock(<<UsersOfAge(1),
                                 OrdersWhere(LogicalAnd(OfUser, Number("user", "<", 2)))>>, UserOrders),
    joinOwn   |-> DbQueryBlock(<<Users, OrdersWhere(Compare(Of("o", "user"), "=", Of("u", "id")))>>,
                               UserOrders),
    path      |-> DbQueryBlock(<<UsersOfAge(1), OrdersWhere(Placed)>>, UserOrders),
    view      |-> CreateViewStatement("v", <<Users>>, <<Return("u", "id"), Return("u", "age")>>),
    viewLit   |-> CreateViewStatement("v", <<UsersOfAge(1)>>, <<Return("u", "id")>>),
    viewJoin  |-> CreateViewStatement("v",
                    <<Users, OrdersWhere(Compare(Of("o", "user"), "=", Of("u", "id")))>>,
                    <<Return("u", "id"), Return("o", "id")>>),
    viewUsers |-> CreateViewStatement("users", <<OrdersWhere(NoCondition)>>, <<Return("o", "id")>>),
    readView  |-> DbTableCall("get_table", "v", <<"id">>, Number("id", "=", 1)),
    valueView |-> DbTableCall("get_value", "v", <<"age">>, NoCondition),
    sync      |-> SyncSchemaCommand]
MCStmts == DOMAIN MCStmt

\* The conditions of reads and writes, and how high their trees are.
RECURSIVE NodesOf(_), MCHeight(_)
NodesOf(node) == {node} \union UNION {NodesOf(node.args[i]) : i \in DOMAIN node.args}
MCHeight(node) == 1 + Max({0} \union {MCHeight(node.args[i]) : i \in DOMAIN node.args})
MCCalls == {call \in {CallOf(MCStmt[s]) : s \in MCStmts} : call.kind \in {"read", "write"}}
MCNodes == UNION {NodesOf(Where(call.x.where)) : call \in MCCalls}
MCAliases == {"row", "n"} \union {call.x.table : call \in MCCalls}
MCFields == {"_id", "id", "age", "user", "n"}
MCContents == {Null, NodeText, ObjectId} \union 1..3

UserRows == (1 :> [id |-> 1, age |-> 1]) @@ (2 :> [id |-> 2, age |-> 1])
OrderRows == (3 :> [id |-> 1, user |-> 1]) @@ (4 :> [id |-> 2, user |-> 2])
Document(row) == ("_id" :> ObjectId) @@ row
Documents(rows) == [id \in DOMAIN rows |-> Document(rows[id])]
Database(columns1, columns2, strict, rows1, rows2, links, views) ==
    [tables |-> [users |-> [columns |-> columns1, strict |-> strict, rows |-> rows1],
                 orders |-> [columns |-> columns2, strict |-> strict, rows |-> rows2]],
     views |-> views, links |-> links]
NoViewsYet == <<>>
MCDatabases == [
    postgresql |-> {Database(<<"id", "age">>, <<"id", "user">>, TRUE, UserRows, OrderRows, {}, views) :
                        views \in {NoViewsYet, "v" :> MCStmt["view"]}},
    mongodb    |-> {Database(<<>>, <<>>, FALSE, Documents(UserRows), Documents(OrderRows), {}, views) :
                        views \in {NoViewsYet, "v" :> MCStmt["view"]}},
    neo4j      |-> {Database(<<>>, <<>>, FALSE, UserRows, OrderRows,
                             {[source |-> 1, type |-> "PLACED", target |-> 3]}, NoViewsYet)}]
=============================================================================
