------------------------- MODULE MCScriptExecution -------------------------
(***************************************************************************)
(* A small library of statements and the programs built from it.  Each     *)
(* program puts control flow where planning and running it interact:       *)
(* bindings inside and outside the same block, a rebound name, loops over  *)
(* query results, conditions that raise, nesting two deep.                 *)
(*                                                                         *)
(* As in Engine.run_script, only a program the type checker accepts is     *)
(* planned and run.  T is the checker; Tree gives it the syntax tree that  *)
(* Ast describes.                                                          *)
(***************************************************************************)
EXTENDS ScriptExecution, SequencesExt

MCVars == {"x", "r", "i"}
MCDbResults == {IntV(0), NullV, [t |-> "rows", n |-> 0], [t |-> "rows", n |-> 2]}

Lit(n) == [op |-> "lit", var |-> "x", val |-> IntV(n)]
Ref(v) == [op |-> "ref", var |-> v, val |-> NullV]
Plus(v, n) == [op |-> "plus", var |-> v, val |-> IntV(n)]
Gt(v, n) == [op |-> "gt", var |-> v, val |-> IntV(n)]
IsNull(v) == [op |-> "is_null", var |-> v, val |-> NullV]
Equals(v, n) == [op |-> "eq", var |-> v, val |-> IntV(n)]

Node(kind, name, expr, conds, blocks, fields) ==
    [kind |-> kind, name |-> name, expr |-> expr, conds |-> conds,
     blocks |-> blocks, fields |-> fields]
Let(name, expr) == Node("let", name, expr, <<>>, <<>>, {})
Db == Node("db", NoVar, Lit(0), <<>>, <<>>, {})
Output(names) == Node("output", NoVar, Lit(0), <<>>, <<>>, names)
If(conds, blocks) == Node("if", NoVar, Lit(0), conds, blocks, {})
For(name, expr, body) == Node("for", name, expr, <<>>, <<body>>, {})
While(cond, body) == Node("while", NoVar, Lit(0), <<cond>>, <<body>>, {})

MCAst == [
    x1       |-> Let("x", Lit(1)),
    incX     |-> Let("x", Plus("x", 1)),
    query    |-> Node("let_db", "r", Lit(0), <<>>, <<>>, {}),
    write    |-> Db,
    copyI    |-> Let("r", Ref("i")),
    connect  |-> Node("connect", NoVar, Ref("x"), <<>>, <<>>, {}),
    list     |-> Node("system", NoVar, Lit(0), <<>>, <<>>, {}),
    outXR    |-> Output({"x", "r"}),
    ifX      |-> If(<<Gt("x", 0)>>, <<<<"incX">>, <<>>>>),
    ifElif   |-> If(<<IsNull("r"), Gt("r", 0)>>, <<<<"x1">>, <<"write">>, <<"query">>>>),
    forR     |-> For("i", Ref("r"), <<"copyI", "write">>),
    ifCopy   |-> If(<<Gt("x", 0)>>, <<<<"copyI">>, <<>>>>),
    forIf    |-> For("i", Ref("r"), <<"ifCopy">>),
    forX     |-> For("r", Plus("x", 1), <<"ifX">>),
    whileX   |-> While(Equals("x", 1), <<"incX", "query">>),
    whileIf  |-> While(Gt("x", 0), <<"ifX">>),
    ifWhile  |-> If(<<IsNull("r")>>, <<<<"whileX", "incX">>, <<"forR">>>>)]

MCStmts == DOMAIN MCAst

RECURSIVE SourceOf(_)
SourceOf(s) ==
    LET nested == FlattenSeq(MCAst[s].blocks)
    IN  <<s>> \o FlattenSeq([i \in DOMAIN nested |-> SourceOf(nested[i])])
MCSource == [s \in MCStmts |-> SourceOf(s)]

\* The last three read a name nothing has bound where they read it.
Candidates == {
    <<"x1", "connect", "ifX", "outXR">>,
    <<"query", "ifElif", "list">>,
    <<"x1", "query", "forR", "incX">>,
    <<"x1", "query", "forIf">>,
    <<"x1", "forX">>,
    <<"x1", "whileX", "outXR">>,
    <<"x1", "whileIf">>,
    <<"x1", "query", "ifWhile">>,
    <<"incX", "outXR">>,
    <<"query", "ifElif", "incX">>,
    <<"x1", "query", "forR", "copyI">>}

-----------------------------------------------------------------------------
T == INSTANCE TypeCheck

Expression(e) ==
    CASE e.op = "lit"  -> T!IntegerLiteral(e.val.n)
      [] e.op = "ref"  -> T!VariableRef(<<e.var>>)
      [] e.op = "plus" -> T!BinaryOp(T!VariableRef(<<e.var>>), T!IntegerLiteral(e.val.n))

Condition(c) ==
    LET name == T!VariableRef(<<c.var>>)
    IN  CASE c.op = "is_null" -> T!IsNull(name)
          [] c.op = "gt"      -> T!Compare(name, ">", T!IntegerLiteral(c.val.n))
          [] c.op = "eq"      -> T!Compare(name, "=", T!IntegerLiteral(c.val.n))

\* The database calls of these programs name a table of a schema that has it.
Registered == [connected |-> TRUE, loaded |-> TRUE,
               tables |-> ("users" :> [fields |-> {"id"}, flexible |-> FALSE])]
Query == T!DbTableCall("get", "users", <<"id">>, T!NoCondition)

RECURSIVE Tree(_)
Tree(s) ==
    LET node == Ast[s]
        Trees(block) == [i \in DOMAIN block |-> Tree(block[i])]
    IN  CASE node.kind = "let"    -> T!LetStatement(node.name, Expression(node.expr))
          [] node.kind = "let_db" -> T!LetStatement(node.name, Query)
          [] node.kind = "db"     -> Query
          [] node.kind = "if"     -> T!IfStatement([i \in DOMAIN node.conds |-> Condition(node.conds[i])],
                                                   [i \in DOMAIN node.blocks |-> Trees(node.blocks[i])])
          [] node.kind = "for"    -> T!ForStatement(node.name, Expression(node.expr),
                                                    Trees(node.blocks[1]))
          [] node.kind = "while"  -> T!WhileStatement(Condition(node.conds[1]), Trees(node.blocks[1]))
          [] OTHER                -> T!Node(node.kind, node.fields, <<>>)

\* The checker is called with the blocks of these programs and what is left of
\* them; a name in scope has any of the types it can have.
TypeNames == {"integer", "boolean", "row", "unknown"}
Blocks == UNION {Suffixes(b) : b \in Candidates \union UNION {Range(MCAst[s].blocks) : s \in MCStmts}}
MCAccepted ==
    {a \in Blocks \X SUBSET MCVars :
        \E scope \in [a[2] -> TypeNames] :
            T!CheckStatements([i \in DOMAIN a[1] |-> Tree(a[1][i])], scope, Registered) = {}}

MCPrograms == {p \in Candidates : <<p, {}>> \in MCAccepted}
=============================================================================
