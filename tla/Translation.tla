---------------------------- MODULE Translation ----------------------------
(***************************************************************************)
(* The recursions over the nodes of a condition, a text or a filter whose  *)
(* steps are those of Conditions.                                          *)
(***************************************************************************)
EXTENDS Conditions

RECURSIVE LeavesOf(_, _)
LeavesOf(node, kind) ==
    LeavesAt(node, kind, [i \in DOMAIN node.args |-> LeavesOf(node.args[i], kind)])

RECURSIVE Value(_, _)
Value(node, env) == ValueAt(node, env, [i \in DOMAIN node.args |-> Value(node.args[i], env)])

RECURSIVE Truth(_, _)
Truth(node, env) ==
    TruthAt(node, [i \in DOMAIN node.args |-> Value(node.args[i], env)],
                  [i \in DOMAIN node.args |-> Truth(node.args[i], env)])

RECURSIVE PgCondition(_)
PgCondition(node) == SqlAt(node, [i \in DOMAIN node.args |-> PgCondition(node.args[i])])

RECURSIVE Bound(_, _)
Bound(text, params) ==
    LET first == Bound(text.args[1], params)
        second == Bound(text.args[2], first.rest)
    IN  BoundAt(text, params, first, second)

RECURSIVE NeoCondition(_, _)
NeoCondition(node, alias) ==
    CypherAt(node, alias, [i \in DOMAIN node.args |-> NeoCondition(node.args[i], alias)])

RECURSIVE Supplied(_, _)
Supplied(text, params) ==
    SuppliedAt(text, params, [i \in DOMAIN text.args |-> Supplied(text.args[i], params)])

RECURSIVE MongoFilter(_)
MongoFilter(node) == FilterAt(node, [i \in DOMAIN node.args |-> MongoFilter(node.args[i])])

RECURSIVE Matches(_, _, _)
Matches(filter, doc, joined) ==
    MatchesAt(filter, doc, joined,
              [i \in DOMAIN filter.args |-> Matches(filter.args[i], doc, joined)])

\* A filter is no aggregation expression: as one, an equation with an undotted
\* field is an object, which counts as true; any other is an error.
RECURSIVE IsExpression(_)
IsExpression(filter) ==
    CASE filter.kind = "{}" -> TRUE
      [] filter.kind = "match" -> Len(filter.x.path) = 1 /\ filter.x.op \in {"=", "=="}
      [] filter.kind \in {"and", "or"} -> \A i \in {1, 2} : IsExpression(filter.args[i])
      [] OTHER -> FALSE

RECURSIVE FieldAgainstLiteral(_)
FieldAgainstLiteral(node) ==
    AgainstLiteralAt(node, [i \in DOMAIN node.args |-> FieldAgainstLiteral(node.args[i])])
=============================================================================
