----------------------------- MODULE Conditions -----------------------------
(***************************************************************************)
(* How the standard modules turn one node of a UQAL condition into the     *)
(* condition of their database, given what they make of the nodes it       *)
(* consists of (parts): PostgreSQLTranslator._build_condition (SQL with    *)
(* placeholders and a list of parameters), Neo4jTranslator._build_condition*)
(* (Cypher with named parameters and a dict of them) and                   *)
(* MongoDBTranslator._build_filter (a filter document), each beside what   *)
(* its database then does with it, and the meaning of the node.            *)
(* Translation closes the recursions.                                      *)
(*                                                                         *)
(* SQL and Cypher texts are trees of nodes like conditions, in which       *)
(* literals have become placeholders, so that one definition gives the     *)
(* meaning of a UQAL condition and of a text whose parameters are bound.   *)
(***************************************************************************)
EXTENDS Syntax

\* The leaves of one kind of a condition or a text.
LeavesAt(node, kind, parts) ==
    IF node.args # <<>> THEN FlattenSeq(parts)
    ELSE IF node.kind = kind THEN <<node>> ELSE <<>>

-----------------------------------------------------------------------------
(***************************************************************************)
(* Meaning.  env maps each table alias to a row, a row maps the fields it  *)
(* has to values.  Truth is three-valued, as in SQL and Cypher.            *)
(***************************************************************************)
Field(env, alias, name) ==
    IF alias \in DOMAIN env /\ name \in DOMAIN env[alias] THEN env[alias][name] ELSE Null

Having(env, name) == {alias \in DOMAIN env : name \in DOMAIN env[alias]}

ValueAt(node, env, parts) ==
    CASE IsLiteral(node) -> node.x
      [] node.kind = "ref" ->
            IF Len(node.x) = 2 THEN Field(env, node.x[1], node.x[2])
            ELSE IF Having(env, node.x[1]) = {} THEN Null
            ELSE Field(env, CHOOSE alias \in Having(env, node.x[1]) : TRUE, node.x[1])
      [] node.kind = "plus" ->
            IF Null \in {parts[1], parts[2]} THEN Null ELSE parts[1] + parts[2]

Ordered(op, left, right) ==
    CASE op \in {"=", "=="} -> left = right
      [] op = "!="          -> left # right
      [] op = ">"           -> left > right
      [] op = "<"           -> left < right
      [] op = ">="          -> left >= right
      [] op = "<="          -> left <= right

Verdict(b) == IF b THEN "true" ELSE "false"

TruthAt(node, values, parts) ==
    CASE node.kind = "true" -> "true"
      [] node.kind = "compare" ->
            IF Null \in {values[1], values[2]} THEN "null"
            ELSE Verdict(Ordered(node.x, values[1], values[2]))
      [] node.kind = "is_null" -> Verdict(values[1] = Null)
      [] node.kind = "is_not_null" -> Verdict(values[1] # Null)
      [] node.kind = "and" ->
            IF "false" \in {parts[1], parts[2]} THEN "false"
            ELSE IF "null" \in {parts[1], parts[2]} THEN "null" ELSE "true"
      [] node.kind = "or" ->
            IF "true" \in {parts[1], parts[2]} THEN "true"
            ELSE IF "null" \in {parts[1], parts[2]} THEN "null" ELSE "false"
      [] node.kind = "not" ->
            IF parts[1] = "null" THEN "null" ELSE Verdict(parts[1] = "false")

-----------------------------------------------------------------------------
\* PostgreSQL

\* _build_condition and _expr_to_sql: every literal becomes a %s and is
\* appended to the parameters; a condition they do not know becomes TRUE.
SqlAt(node, parts) ==
    CASE IsLiteral(node) -> [text |-> Placeholder, params |-> <<node.x>>]
      [] node.kind = "rel" -> [text |-> True, params |-> <<>>]
      [] OTHER -> [text |-> [node EXCEPT !.args = [i \in DOMAIN parts |-> parts[i].text]],
                   params |-> FlattenSeq([i \in DOMAIN parts |-> parts[i].params])]

\* psycopg2 replaces the placeholders of a text by the parameters, in order.
\* first and second are what becomes of the one or two nodes of the text, with
\* the parameters left over; second goes on with those first leaves over.
BoundAt(text, params, first, second) ==
    IF text.kind = "placeholder" THEN [text |-> IntegerLiteral(Head(params)), rest |-> Tail(params)]
    ELSE CASE Len(text.args) = 0 -> [text |-> text, rest |-> params]
           [] Len(text.args) = 1 ->
                [text |-> [text EXCEPT !.args = <<first.text>>], rest |-> first.rest]
           [] Len(text.args) = 2 ->
                [text |-> [text EXCEPT !.args = <<first.text, second.text>>], rest |-> second.rest]

-----------------------------------------------------------------------------
\* Neo4j

NoParams == <<>>

\* _expr_to_cypher: a number is parameter p<n> where n is the size of the dict;
\* a boolean is written into the text; anything else is str(node), which
\* Cypher rejects.
NeoExpr(node, alias, params) ==
    CASE node.kind = "int" ->
            LET key == Cardinality(DOMAIN params)
            IN  [text |-> Node("param", key, <<>>), params |-> Over(Single(key, node.x), params)]
      [] node.kind = "ref" ->
            [text |-> VariableRef(IF Len(node.x) = 1 THEN <<alias>> \o node.x ELSE node.x),
             params |-> params]
      [] node.kind = "bool" -> [text |-> node, params |-> params]
      [] OTHER -> [text |-> Node("str", "", <<>>), params |-> params]

\* _build_condition: each call starts a dict of its own, and the dicts of
\* the two sides of AND and OR are merged by update().
CypherAt(node, alias, parts) ==
    CASE node.kind = "compare" ->
            LET left == NeoExpr(node.args[1], alias, NoParams)
                right == NeoExpr(node.args[2], alias, left.params)
            IN  [text |-> [node EXCEPT !.args = <<left.text, right.text>>], params |-> right.params]
      [] node.kind \in {"is_null", "is_not_null"} ->
            LET operand == NeoExpr(node.args[1], alias, NoParams)
            IN  [text |-> [node EXCEPT !.args = <<operand.text>>], params |-> operand.params]
      [] node.kind \in {"and", "or", "not"} ->
            [text |-> [node EXCEPT !.args = [i \in DOMAIN parts |-> parts[i].text]],
             params |-> Over(Last(parts).params, parts[1].params)]
      [] OTHER -> [text |-> True, params |-> NoParams]

\* Neo4j looks each named parameter up.
SuppliedAt(text, params, parts) ==
    IF text.kind = "param" THEN IntegerLiteral(params[text.x])
    ELSE [text EXCEPT !.args = [i \in DOMAIN text.args |-> parts[i]]]

-----------------------------------------------------------------------------
\* MongoDB

NoFilter == Node("{}", "", <<>>)

\* _field_name: the dotted path, or str(node), which no document has.
FieldName(node) == IF node.kind = "ref" THEN node.x ELSE <<>>

\* _build_filter
FilterAt(node, parts) ==
    CASE node.kind = "compare" ->
            Node("match", [path |-> FieldName(node.args[1]), op |-> node.x,
                           value |-> EvalLiteral(node.args[2])], <<>>)
      [] node.kind \in {"is_null", "is_not_null"} ->
            Node("exists", [path |-> FieldName(node.args[1]),
                            wanted |-> node.kind = "is_not_null"], <<>>)
      [] node.kind \in {"and", "or", "not"} ->
            [node EXCEPT !.args = [i \in DOMAIN node.args |-> parts[i]]]
      [] OTHER -> NoFilter

\* A document without the field satisfies $ne and nothing else; order
\* comparisons hold between numbers only.
MatchesAt(filter, doc, joined, parts) ==
    CASE filter.kind = "{}" -> TRUE
      [] filter.kind = "match" ->
            LET found == At(filter.x.path, doc, joined)
            IN  IF found = <<>> THEN filter.x.op = "!="
                ELSE /\ filter.x.op \in {">", "<", ">=", "<="} =>
                            NodeText \notin {found[1], filter.x.value}
                     /\ Ordered(filter.x.op, found[1], filter.x.value)
      [] filter.kind = "exists" ->
            (At(filter.x.path, doc, joined) # <<>>) = filter.x.wanted
      [] filter.kind = "and" -> parts[1] /\ parts[2]
      [] filter.kind = "or"  -> parts[1] \/ parts[2]
      [] filter.kind = "not" -> ~parts[1]

-----------------------------------------------------------------------------
\* What the three have in common.

BareField(node) == node.kind = "ref" /\ Len(node.x) = 1

\* The condition compares fields with literals and tests them for null.
AgainstLiteralAt(node, parts) ==
    CASE node.kind = "compare" -> BareField(node.args[1]) /\ IsLiteral(node.args[2])
      [] node.kind \in {"is_null", "is_not_null"} -> BareField(node.args[1])
      [] node.kind \in {"and", "or", "not"} -> \A i \in DOMAIN node.args : parts[i]
      [] OTHER -> node.kind = "true"
=============================================================================
