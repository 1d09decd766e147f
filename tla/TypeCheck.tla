----------------------------- MODULE TypeCheck -----------------------------
(***************************************************************************)
(* TypeChecker.check: the errors of a program, as a set.  A statement is a *)
(* node of Translation's kind whose x names its parts.                     *)
(*                                                                         *)
(* A Scope and its parents are one function from the names visible to      *)
(* their types: a child scope lives only while its block is checked, and   *)
(* nothing is defined in its parent meanwhile.                             *)
(***************************************************************************)
EXTENDS Translation

-----------------------------------------------------------------------------
\* Types

Typed(type) == [type |-> type, errors |-> NoErrors]
Wrong(error) == [type |-> "unknown", errors |-> {error}]
Define(scope, name, type) == Over(Single(name, type), scope)

InferVariableRef(node, scope) ==
    IF node.x[1] \in DOMAIN scope THEN Typed(scope[node.x[1]])
    ELSE Wrong(<<"undefined", node.x[1]>>)

\* What the type checker makes of left + right.
Sum(left, right) ==
    IF "unknown" \in {left, right} THEN Typed("unknown")
    ELSE IF {left, right} = {"integer"} THEN Typed("integer")
    ELSE Wrong(<<"operands", left, right>>)

RECURSIVE Infer(_, _)
Infer(node, scope) ==
    CASE node.kind = "int"  -> Typed("integer")
      [] node.kind = "bool" -> Typed("boolean")
      [] node.kind = "ref"  -> InferVariableRef(node, scope)
      [] node.kind = "plus" ->
            LET left == Infer(node.args[1], scope)
                right == Infer(node.args[2], scope)
                sum == Sum(left.type, right.type)
            IN  [sum EXCEPT !.errors = left.errors \union right.errors \union @]
      [] OTHER -> Typed("unknown")

\* A bare name in a condition is a field, never a variable.
InferInWhere(node, scope) ==
    IF node.kind = "ref" /\ Len(node.x) = 1 THEN Typed("unknown") ELSE Infer(node, scope)

RECURSIVE CheckCondition(_, _)
CheckCondition(node, scope) ==
    CASE node.kind \in {"and", "or", "not"} ->
            UNION {CheckCondition(node.args[i], scope) : i \in DOMAIN node.args}
      [] node.kind = "compare" ->
            LET left == InferInWhere(node.args[1], scope)
                right == InferInWhere(node.args[2], scope)
            IN  left.errors \union right.errors \union
                {e \in {<<"mismatch", left.type, right.type>>} :
                    /\ "unknown" \notin {left.type, right.type}
                    /\ left.type # right.type}
      [] node.kind \in {"is_null", "is_not_null"} -> InferInWhere(node.args[1], scope).errors
      [] OTHER -> NoErrors

\* Connections, tables and fields, in calls of every kind.
Calls == INSTANCE StatementChecks WITH ConditionErrors <- CheckCondition

-----------------------------------------------------------------------------
RECURSIVE CheckStatements(_, _, _)

CheckStatement(stmt, scope, reg) ==
    CASE stmt.kind = "let" -> Infer(stmt.args[1], scope).errors
      [] stmt.kind = "if" ->
            UNION {CheckCondition(stmt.x.conditions[i], scope) : i \in DOMAIN stmt.x.conditions}
            \union UNION {CheckStatements(stmt.x.blocks[i], scope, reg) :
                            i \in DOMAIN stmt.x.blocks}
      [] stmt.kind = "for" ->
            Infer(stmt.x.iterable, scope).errors \union
            CheckStatements(stmt.x.body, Define(scope, stmt.x.variable, "row"), reg)
      [] stmt.kind = "while" ->
            CheckCondition(stmt.x.condition, scope)
            \union CheckStatements(stmt.x.body, scope, reg)
      [] OTHER -> Calls!CheckCall(stmt, scope, reg)

\* What a statement adds to the scope of those after it.
ScopeAfter(stmt, scope) ==
    IF stmt.kind = "let" THEN Define(scope, stmt.x, Infer(stmt.args[1], scope).type) ELSE scope

CheckStatements(stmts, scope, reg) ==
    IF stmts = <<>> THEN NoErrors
    ELSE CheckStatement(Head(stmts), scope, reg) \union
         CheckStatements(Tail(stmts), ScopeAfter(Head(stmts), scope), reg)

Check(stmts, reg) == CheckStatements(stmts, <<>>, reg)
=============================================================================
