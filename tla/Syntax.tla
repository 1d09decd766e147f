------------------------------- MODULE Syntax -------------------------------
(***************************************************************************)
(* The nodes the AST transformer builds of conditions, expressions and     *)
(* statements.  A node is a record: its kind, a payload x, and the nodes   *)
(* it is made of; the x of a statement names its parts.                    *)
(***************************************************************************)
EXTENDS Integers, Sequences, SequencesExt, FiniteSets, TLC

\* What a field may hold besides a number: nothing, the text of a syntax node
\* (str(node)), an ObjectId.
Null == -1
NodeText == -2
ObjectId == -3

\* {key: value}, and {**g, **f}.
Single(key, value) == [k \in {key} |-> value]
Over(f, g) == [k \in DOMAIN f \union DOMAIN g |-> IF k \in DOMAIN f THEN f[k] ELSE g[k]]

-----------------------------------------------------------------------------
\* Conditions and expressions.

Node(kind, x, args) == [kind |-> kind, x |-> x, args |-> args]
IntegerLiteral(n) == Node("int", n, <<>>)
BoolLiteral(n) == Node("bool", n, <<>>)
VariableRef(parts) == Node("ref", parts, <<>>)
BinaryOp(left, right) == Node("plus", "+", <<left, right>>)
Compare(left, op, right) == Node("compare", op, <<left, right>>)
IsNull(operand) == Node("is_null", "", <<operand>>)
IsNotNull(operand) == Node("is_not_null", "", <<operand>>)
LogicalAnd(left, right) == Node("and", "", <<left, right>>)
LogicalOr(left, right) == Node("or", "", <<left, right>>)
LogicalNot(operand) == Node("not", "", <<operand>>)
RelationshipTraversal(source, type, target, properties) ==
    Node("rel", [source |-> source, type |-> type, target |-> target,
                 properties |-> properties], <<>>)

IsLiteral(node) == node.kind \in {"int", "bool"}
True == Node("true", "", <<>>)
Placeholder == Node("placeholder", "", <<>>)

\* _eval_literal: the value of a literal, or str(node).
EvalLiteral(node) == IF IsLiteral(node) THEN node.x ELSE NodeText

\* What a path leads to in a document: a field, or a field of the document
\* joined as path[1].  <<>> if there is nothing there.
At(path, doc, joined) ==
    CASE Len(path) = 1 /\ path[1] \in DOMAIN doc -> <<doc[path[1]]>>
      [] Len(path) = 2 /\ path[1] \in DOMAIN joined ->
            IF path[2] \in DOMAIN joined[path[1]] THEN <<joined[path[1]][path[2]]>> ELSE <<>>
      [] OTHER -> <<>>

-----------------------------------------------------------------------------
\* Statements.
NoCondition == Node("no condition", "", <<>>)
Call(kind, command, table, fields, where) ==
    Node(kind, [command |-> command, table |-> table, fields |-> fields,
                values |-> <<>>, where |-> where], <<>>)
DbTableCall(command, table, fields, where) == Call("read", command, table, fields, where)
DbWriteCall(command, table, values, where) ==
    [Call("write", command, table, <<>>, where) EXCEPT !.x.values = values]
QueryAlias(alias, table, where) == [alias |-> alias, table |-> table, where |-> where]
DbQueryBlock(aliases, returns) ==
    Node("query", [aliases |-> aliases, returns |-> returns], <<>>)
CreateViewStatement(name, aliases, returns) ==
    Node("view", [name |-> name, aliases |-> aliases, returns |-> returns], <<>>)
SyncSchemaCommand == Node("sync", "", <<>>)
LetStatement(name, value) == Node("let", name, <<value>>)
IfStatement(conditions, blocks) ==
    Node("if", [conditions |-> conditions, blocks |-> blocks], <<>>)
ForStatement(variable, iterable, body) ==
    Node("for", [variable |-> variable, iterable |-> iterable, body |-> body], <<>>)
WhileStatement(condition, body) ==
    Node("while", [condition |-> condition, body |-> body], <<>>)

\* What the type checker finds wrong with a statement it accepts.
NoErrors == {}
=============================================================================
