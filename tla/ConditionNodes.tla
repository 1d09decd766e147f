--------------------------- MODULE ConditionNodes ---------------------------
(***************************************************************************)
(* The operators StandardModules takes for the translators and for the     *)
(* databases' evaluation of conditions go from a node to those it consists *)
(* of, by the steps of Conditions.                                         *)
(***************************************************************************)
EXTENDS StandardModules

CONSTANTS
    OnlyFieldsAndLiterals(_),   \* Translation's FieldAgainstLiteral
    Nodes,          \* conditions and the nodes they consist of
    Height(_),      \* of a node's tree
    Aliases,        \* the names a row may go by
    Fields,         \* the names of fields
    Contents        \* what a field may hold

\* A row has contents in some of the fields.
Rows == UNION {[F -> Contents] : F \in SUBSET Fields}

Arity(kind) == CASE kind \in {"and", "or", "compare", "plus"} -> 2
                 [] kind \in {"not", "is_null", "is_not_null"} -> 1
                 [] kind \in {"int", "bool", "ref", "true", "rel"} -> 0
IsNode(node) ==
    /\ node = Node(node.kind, node.x, node.args)
    /\ node.kind \in {"and", "or", "compare", "plus", "not", "is_null", "is_not_null",
                      "int", "bool", "ref", "true", "rel"}
    /\ node.args \in Seq(Nodes) /\ Len(node.args) = Arity(node.kind)
    /\ IsLiteral(node) => node.x \in Nat
    /\ node.kind = "ref" => node.x \in Seq(STRING)
    /\ node.kind = "compare" => node.x \in {"=", "==", "!=", ">", "<", ">=", "<="}

ASSUME NodesAssumption ==
    \A node \in Nodes :
        /\ IsNode(node) /\ Height(node) \in Nat
        /\ \A i \in DOMAIN node.args : Height(node.args[i]) < Height(node)

\* The lists of parameters, and what is left of them while a text is bound.
ParamLists == UNION {{SubSeq(params, i, Len(params)) : i \in 1..(Len(params) + 1)} :
                        params \in {SqlOf(node).params : node \in Nodes}}
\* The dicts of parameters.
Dicts == {CypherOf(node, "n").params : node \in Nodes}

SqlBindings(node) == {params \in ParamLists : Len(SqlOf(node).params) <= Len(params)}
CypherBindings(node) ==
    {dict \in Dicts : DOMAIN CypherOf(node, "n").params \subseteq DOMAIN dict}

\* A node is translated, and its translation bound, by way of those it consists of.
ASSUME TranslationAssumption ==
    \A node \in Nodes :
        LET sql == SqlOf(node).text
            cypher == CypherOf(node, "n").text
        IN  /\ \A kind \in {"ref", "int"} : LeavesIn(node, kind)
                  = LeavesAt(node, kind, [i \in DOMAIN node.args |-> LeavesIn(node.args[i], kind)])
            /\ OnlyFieldsAndLiterals(node)
                  = AgainstLiteralAt(node,
                        [i \in DOMAIN node.args |-> OnlyFieldsAndLiterals(node.args[i])])
            /\ SqlOf(node) = SqlAt(node, [i \in DOMAIN node.args |-> SqlOf(node.args[i])])
            /\ \A params \in SqlBindings(node) :
                  LET first == SqlBound(sql.args[1], params)
                      second == SqlBound(sql.args[2], first.rest)
                  IN  SqlBound(sql, params) = BoundAt(sql, params, first, second)
            /\ CypherOf(node, "n")
                  = CypherAt(node, "n", [i \in DOMAIN node.args |-> CypherOf(node.args[i], "n")])
            /\ FilterOf(node) = FilterAt(node, [i \in DOMAIN node.args |-> FilterOf(node.args[i])])

\* Conditions that compare fields with literals and test them for null, and the
\* texts they become once parameters are bound.
Plain == {node \in Nodes : OnlyFieldsAndLiterals(node)}
PlainTexts ==
    Plain
    \union (UNION {{SqlBound(SqlOf(node).text, params).text : params \in SqlBindings(node)} :
                        node \in Plain})
    \union (UNION {{CypherBound(CypherOf(node, "n").text, dict) : dict \in CypherBindings(node)} :
                        node \in Plain})

\* Whether they are true of a row is decided in the same way.
ASSUME EvaluationAssumption ==
    /\ \A node \in Plain : \A dict \in CypherBindings(node) :
          LET cypher == CypherOf(node, "n").text
          IN  \A text \in {cypher} \union Range(cypher.args) :
                CypherBound(text, dict) = SuppliedAt(text, dict,
                    [i \in DOMAIN text.args |-> CypherBound(text.args[i], dict)])
    /\ \A node \in Plain, row \in Rows :
          LET filter == FilterOf(node)
          IN  FilterMatches(filter, row, <<>>) = MatchesAt(filter, row, <<>>,
                    [i \in DOMAIN filter.args |-> FilterMatches(filter.args[i], row, <<>>)])
    /\ \A text \in PlainTexts, alias \in Aliases, row \in Rows :
          LET env == Single(alias, row)
          IN  /\ TruthOf(text, env) = TruthAt(text,
                    [i \in DOMAIN text.args |-> ValueOf(text.args[i], env)],
                    [i \in DOMAIN text.args |-> TruthOf(text.args[i], env)])
              /\ text.kind \in {"compare", "is_null", "is_not_null"} =>
                    \A i \in DOMAIN text.args :
                        ValueOf(text.args[i], env) = ValueAt(text.args[i], env, <<>>)
=============================================================================
