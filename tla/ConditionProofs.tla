--------------------------- MODULE ConditionProofs ---------------------------
(***************************************************************************)
(* Proofs about the translators: what PostgreSQL, MongoDB and Neo4j make   *)
(* of the SQL, the filter and the Cypher of a condition, once parameters   *)
(* are bound, is what the condition means.                                 *)
(*                                                                         *)
(* The argument is by induction on the height of a condition: Conditions   *)
(* has what a translator and a database do with one node, and the          *)
(* assumptions of ConditionNodes say that they go from a node to those it  *)
(* consists of in these steps.  For SQL the induction is over all that may *)
(* follow in the list of parameters, for a node takes its own from the     *)
(* front; for Cypher it is over the dict all parameters are looked up in,  *)
(* for the dicts of two sides are merged.                                  *)
(***************************************************************************)
EXTENDS DatabaseCalls, Induction, FiniteSetTheorems

-----------------------------------------------------------------------------
\* Nodes

\* The concatenation of no, of one and of two sequences.
LEMMA FlattenNone ==
    FlattenSeq(<<>>) = <<>>
BY DEF FlattenSeq

LEMMA FlattenOne ==
    ASSUME NEW s, s = [i \in 1..1 |-> s[i]]
    PROVE  FlattenSeq(s) = s[1]
<1>1. Len(s) = 1
    OBVIOUS
<1> DEFINE G(f) == [i \in 1..1 |-> IF i = 1 THEN s[i] ELSE f[i - 1] \o s[i]]
           flatten == CHOOSE f : f = G(f)
<1>2. \E f : f = G(f)
    <2>1. s = G(s)
        OBVIOUS
    <2> QED BY <2>1
<1>3. flatten = G(flatten)
    <2> HIDE DEF G
    <2> QED BY <1>2
<1>4. FlattenSeq(s) = flatten[1]
    BY <1>1 DEF FlattenSeq
<1>5. flatten[1] = s[1]
    <2>1. G(flatten)[1] = s[1]
        OBVIOUS
    <2> HIDE DEF flatten, G
    <2> QED BY <2>1, <1>3
<1> QED BY <1>4, <1>5

LEMMA FlattenTwo ==
    ASSUME NEW s, s = [i \in 1..2 |-> s[i]]
    PROVE  FlattenSeq(s) = s[1] \o s[2]
<1>1. Len(s) = 2
    OBVIOUS
<1> DEFINE G(f) == [i \in 1..2 |-> IF i = 1 THEN s[i] ELSE f[i - 1] \o s[i]]
           flatten == CHOOSE f : f = G(f)
<1>2. \E f : f = G(f)
    <2> DEFINE w == [i \in 1..2 |-> IF i = 1 THEN s[1] ELSE s[1] \o s[2]]
    <2>1. w = G(w)
        OBVIOUS
    <2> QED BY <2>1
<1>3. flatten = G(flatten)
    <2> HIDE DEF G
    <2> QED BY <1>2
<1>4. FlattenSeq(s) = flatten[2]
    BY <1>1 DEF FlattenSeq
<1>5. flatten[2] = s[1] \o s[2]
    <2> HIDE DEF flatten
    <2>1. G(flatten)[2] = flatten[1] \o s[2] /\ G(flatten)[1] = s[1]
        OBVIOUS
    <2> HIDE DEF G
    <2> QED BY <2>1, <1>3
<1> QED BY <1>4, <1>5

\* What holds of a node if it holds of those it consists of holds of all nodes.
LEMMA NodeInduction ==
    ASSUME NEW S,
           \A node \in Nodes : (\A i \in DOMAIN node.args : node.args[i] \in S) => node \in S
    PROVE  Nodes \subseteq S
<1> SUFFICES ASSUME ~(Nodes \subseteq S)
             PROVE  FALSE
    OBVIOUS
<1> DEFINE H == {Height(node) : node \in Nodes \ S}
<1>1. \A node \in Nodes : Height(node) \in Nat /\ node.args \in Seq(Nodes)
    BY NodesAssumption DEF IsNode
<1>2. PICK h \in H : \A k \in H : ~(k < h)
    <2>1. H \subseteq Nat /\ H # {}
        BY <1>1
    <2> HIDE DEF H
    <2> QED BY <2>1, LeastElement
<1>3. PICK node \in Nodes \ S : h = Height(node)
    OBVIOUS
<1>4. PICK i \in DOMAIN node.args : node.args[i] \notin S
    BY <1>3
<1>5. node.args[i] \in Nodes
    BY <1>1, <1>3, ElementOfSeq
<1>6. Height(node.args[i]) < Height(node)
    BY <1>3, NodesAssumption
<1> QED BY <1>2, <1>3, <1>4, <1>5, <1>6

\* The operands of a comparison and of a null test of fields with literals.
LEMMA PlainParts ==
    ASSUME NEW node \in Plain
    PROVE  /\ node \in Nodes /\ IsNode(node) /\ node.args \in Seq(Nodes)
           /\ node.kind \in {"true", "compare", "is_null", "is_not_null", "and", "or", "not"}
           /\ node.kind \in {"compare", "is_null", "is_not_null"} => BareField(node.args[1])
           /\ node.kind = "compare" => IsLiteral(node.args[2])
           /\ node.kind \in {"and", "or", "not"} => \A i \in DOMAIN node.args : node.args[i] \in Plain
<1>1. node \in Nodes /\ OnlyFieldsAndLiterals(node)
    BY DEF Plain
<1>2. IsNode(node) /\ node.args \in Seq(Nodes)
    BY <1>1, NodesAssumption DEF IsNode
<1> DEFINE parts == [i \in DOMAIN node.args |-> OnlyFieldsAndLiterals(node.args[i])]
<1>3. AgainstLiteralAt(node, parts)
    BY <1>1, TranslationAssumption
<1>4. \A i \in DOMAIN node.args : node.args[i] \in Nodes
    BY <1>2, ElementOfSeq
<1>5. node.kind \in {"and", "or", "not"} => \A i \in DOMAIN node.args : parts[i]
    <2> HIDE DEF parts
    <2> QED BY <1>3 DEF AgainstLiteralAt
<1>6. node.kind \in {"and", "or", "not"} =>
            \A i \in DOMAIN node.args : OnlyFieldsAndLiterals(node.args[i])
    BY <1>5
<1>7. /\ node.kind \in {"true", "compare", "is_null", "is_not_null", "and", "or", "not"}
      /\ node.kind \in {"compare", "is_null", "is_not_null"} => BareField(node.args[1])
      /\ node.kind = "compare" => IsLiteral(node.args[2])
    <2> HIDE DEF parts
    <2> QED BY <1>3 DEF AgainstLiteralAt
<1> QED BY <1>1, <1>2, <1>4, <1>6, <1>7 DEF Plain

\* How many nodes a node consists of.
LEMMA Operands ==
    ASSUME NEW node \in Nodes
    PROVE  /\ node.kind \in {"and", "or", "compare", "plus"} =>
                /\ node.args = <<node.args[1], node.args[2]>> /\ DOMAIN node.args = 1..2
                /\ node.args[1] \in Nodes /\ node.args[2] \in Nodes
           /\ node.kind \in {"not", "is_null", "is_not_null"} =>
                /\ node.args = <<node.args[1]>> /\ DOMAIN node.args = 1..1
                /\ node.args[1] \in Nodes
           /\ node.kind \in {"int", "bool", "ref", "true", "rel"} =>
                node.args = <<>> /\ DOMAIN node.args = {}
<1>1. node.args \in Seq(Nodes) /\ Len(node.args) = Arity(node.kind)
    BY NodesAssumption DEF IsNode
<1>2. DOMAIN node.args = 1..Arity(node.kind)
    BY <1>1
<1>3. CASE node.kind \in {"and", "or", "compare", "plus"}
    <2>1. Arity(node.kind) = 2
        BY <1>3 DEF Arity
    <2>2. node.args[1] \in Nodes /\ node.args[2] \in Nodes
        BY <1>1, <2>1, ElementOfSeq
    <2> QED BY <1>1, <1>2, <1>3, <2>1, <2>2
<1>4. CASE node.kind \in {"not", "is_null", "is_not_null"}
    <2>1. Arity(node.kind) = 1
        BY <1>4 DEF Arity
    <2>2. node.args[1] \in Nodes
        BY <1>1, <2>1, ElementOfSeq
    <2> QED BY <1>1, <1>2, <1>4, <2>1, <2>2
<1>5. CASE node.kind \in {"int", "bool", "ref", "true", "rel"}
    <2>1. Arity(node.kind) = 0
        BY <1>5 DEF Arity
    <2> QED BY <1>1, <1>2, <1>5, <2>1
<1> QED BY <1>3, <1>4, <1>5, NodesAssumption DEF IsNode

\* What a text means depends on its operands and on those only.
LEMMA SameOperands ==
    ASSUME NEW text1 \in PlainTexts, NEW text2 \in PlainTexts,
           NEW alias1 \in Aliases, NEW alias2 \in Aliases, NEW row \in Rows,
           text1.kind \in {"compare", "is_null", "is_not_null"},
           text1.kind = text2.kind, text1.x = text2.x, DOMAIN text1.args = DOMAIN text2.args,
           1 \in DOMAIN text1.args, text1.kind = "compare" => 2 \in DOMAIN text1.args,
           \A i \in DOMAIN text1.args : ValueAt(text1.args[i], Single(alias1, row), <<>>)
                                      = ValueAt(text2.args[i], Single(alias2, row), <<>>)
    PROVE  TruthOf(text1, Single(alias1, row)) = TruthOf(text2, Single(alias2, row))
<1> DEFINE Vals(text, alias) == [i \in DOMAIN text.args |-> ValueOf(text.args[i], Single(alias, row))]
           Truths(text, alias) == [i \in DOMAIN text.args |-> TruthOf(text.args[i], Single(alias, row))]
<1>1. ASSUME NEW text \in PlainTexts, NEW alias \in Aliases
      PROVE  /\ TruthOf(text, Single(alias, row))
                    = TruthAt(text, Vals(text, alias), Truths(text, alias))
             /\ text.kind \in {"compare", "is_null", "is_not_null"} =>
                    \A i \in DOMAIN text.args :
                        Vals(text, alias)[i] = ValueAt(text.args[i], Single(alias, row), <<>>)
    BY <1>1, EvaluationAssumption
<1> HIDE DEF Vals, Truths
<1> DEFINE v1 == Vals(text1, alias1)
           v2 == Vals(text2, alias2)
<1>2. ASSUME NEW i \in DOMAIN text1.args
      PROVE  v1[i] = v2[i]
    <2>1. v1[i] = ValueAt(text1.args[i], Single(alias1, row), <<>>)
        BY <1>1, <1>2
    <2>2. v2[i] = ValueAt(text2.args[i], Single(alias2, row), <<>>)
        BY <1>1, <1>2
    <2> QED BY <1>2, <2>1, <2>2
<1>3. v1[1] = v2[1] /\ (text1.kind = "compare" => v1[2] = v2[2])
    BY <1>2
<1>4. TruthOf(text1, Single(alias1, row)) = TruthAt(text1, v1, Truths(text1, alias1))
    BY <1>1
<1>5. TruthOf(text2, Single(alias2, row)) = TruthAt(text2, v2, Truths(text2, alias2))
    BY <1>1
<1> HIDE DEF v1, v2
<1> QED BY <1>3, <1>4, <1>5 DEF TruthAt

\* And on the truth of its parts and on that only.
LEMMA SameParts ==
    ASSUME NEW text1 \in PlainTexts, NEW text2 \in PlainTexts,
           NEW alias1 \in Aliases, NEW alias2 \in Aliases, NEW row \in Rows,
           text1.kind \in {"true", "and", "or", "not"},
           text1.kind = text2.kind, DOMAIN text1.args = DOMAIN text2.args,
           text1.kind # "true" => 1 \in DOMAIN text1.args,
           text1.kind \in {"and", "or"} => 2 \in DOMAIN text1.args,
           \A i \in DOMAIN text1.args : TruthOf(text1.args[i], Single(alias1, row))
                                      = TruthOf(text2.args[i], Single(alias2, row))
    PROVE  TruthOf(text1, Single(alias1, row)) = TruthOf(text2, Single(alias2, row))
<1> DEFINE Vals(text, alias) == [i \in DOMAIN text.args |-> ValueOf(text.args[i], Single(alias, row))]
           Truths(text, alias) == [i \in DOMAIN text.args |-> TruthOf(text.args[i], Single(alias, row))]
           p1 == Truths(text1, alias1)
           p2 == Truths(text2, alias2)
<1>1. TruthOf(text1, Single(alias1, row)) = TruthAt(text1, Vals(text1, alias1), p1)
    BY EvaluationAssumption
<1>2. TruthOf(text2, Single(alias2, row)) = TruthAt(text2, Vals(text2, alias2), p2)
    BY EvaluationAssumption
<1>3. p1 = p2
    OBVIOUS
<1> HIDE DEF Vals, p1, p2
<1> QED BY <1>1, <1>2, <1>3 DEF TruthAt

\* The value of a field of a row does not depend on the name of the row.
LEMMA FieldValue ==
    ASSUME NEW ref, BareField(ref), NEW alias, NEW row
    PROVE  ValueAt(ref, Single(alias, row), <<>>) = FieldOf(row, ref.x[1])
<1> DEFINE env == Single(alias, row)
           f == ref.x[1]
<1>1. DOMAIN env = {alias} /\ env[alias] = row
    BY DEF Single
<1> HIDE DEF env
<1>2. Having(env, f) = IF f \in DOMAIN row THEN {alias} ELSE {}
    BY <1>1 DEF Having
<1>3. f \in DOMAIN row => (CHOOSE a \in Having(env, f) : TRUE) = alias
    BY <1>2
<1>4. ValueAt(ref, env, <<>>) = IF Having(env, f) = {} THEN Null
                                ELSE Field(env, CHOOSE a \in Having(env, f) : TRUE, f)
    BY DEF ValueAt, BareField, IsLiteral
<1>5. f \in DOMAIN row => Field(env, alias, f) = row[f]
    BY <1>1 DEF Field
<1> HIDE DEF f
<1> QED BY <1>2, <1>3, <1>4, <1>5 DEF FieldOf, env, f

\* The value of a literal.
LEMMA LiteralValue ==
    ASSUME NEW node, NEW env
    PROVE  /\ IsLiteral(node) => ValueAt(node, env, <<>>) = node.x
           /\ ValueAt(IntegerLiteral(node.x), env, <<>>) = node.x
<1>1. IntegerLiteral(node.x).kind = "int" /\ IntegerLiteral(node.x).x = node.x
    BY DEF IntegerLiteral, Node
<1> QED BY <1>1 DEF ValueAt, IsLiteral

-----------------------------------------------------------------------------
\* PostgreSQL

\* A node whose parts are replaced.
LEMMA NodeChanged ==
    ASSUME NEW node \in Nodes, NEW args
    PROVE  [node EXCEPT !.args = args] = Node(node.kind, node.x, args)
<1>1. node = [kind |-> node.kind, x |-> node.x, args |-> node.args]
    BY NodesAssumption DEF IsNode, Node
<1> QED BY <1>1 DEF Node

-----------------------------------------------------------------------------
\* PostgreSQL

\* The SQL of a node of two, of one and of no nodes.
LEMMA SqlOfNode ==
    ASSUME NEW node \in Nodes
    PROVE  /\ node.kind \in {"and", "or", "compare", "plus"} =>
                /\ SqlOf(node).text =
                    Node(node.kind, node.x, <<SqlOf(node.args[1]).text, SqlOf(node.args[2]).text>>)
                /\ SqlOf(node).params = SqlOf(node.args[1]).params \o SqlOf(node.args[2]).params
           /\ node.kind \in {"not", "is_null", "is_not_null"} =>
                /\ SqlOf(node).text = Node(node.kind, node.x, <<SqlOf(node.args[1]).text>>)
                /\ SqlOf(node).params = SqlOf(node.args[1]).params
           /\ IsLiteral(node) => SqlOf(node).text = Placeholder /\ SqlOf(node).params = <<node.x>>
           /\ node.kind \in {"ref", "true"} => SqlOf(node).text = node /\ SqlOf(node).params = <<>>
           /\ node.kind = "rel" => SqlOf(node).text = True /\ SqlOf(node).params = <<>>
<1> DEFINE parts == [i \in DOMAIN node.args |-> SqlOf(node.args[i])]
           texts == [i \in DOMAIN parts |-> parts[i].text]
           params == [i \in DOMAIN parts |-> parts[i].params]
<1>1. SqlOf(node) = SqlAt(node, parts)
    BY TranslationAssumption
<1>2. /\ ~IsLiteral(node) /\ node.kind # "rel" =>
            SqlOf(node).text = Node(node.kind, node.x, texts) /\ SqlOf(node).params = FlattenSeq(params)
      /\ IsLiteral(node) => SqlOf(node).text = Placeholder /\ SqlOf(node).params = <<node.x>>
      /\ node.kind = "rel" => SqlOf(node).text = True /\ SqlOf(node).params = <<>>
    <2>1. [node EXCEPT !.args = texts] = Node(node.kind, node.x, texts)
        BY NodeChanged
    <2> HIDE DEF parts
    <2> QED BY <1>1, <2>1 DEF SqlAt, IsLiteral
<1>3. ASSUME node.kind \in {"and", "or", "compare", "plus"}
      PROVE  /\ SqlOf(node).text =
                    Node(node.kind, node.x, <<SqlOf(node.args[1]).text, SqlOf(node.args[2]).text>>)
             /\ SqlOf(node).params = SqlOf(node.args[1]).params \o SqlOf(node.args[2]).params
    <2>1. DOMAIN node.args = 1..2
        BY <1>3, Operands
    <2>2. /\ texts = <<SqlOf(node.args[1]).text, SqlOf(node.args[2]).text>>
          /\ params = [i \in 1..2 |-> params[i]]
          /\ params[1] = SqlOf(node.args[1]).params /\ params[2] = SqlOf(node.args[2]).params
        BY <2>1
    <2> HIDE DEF texts, params
    <2>3. FlattenSeq(params) = params[1] \o params[2]
        BY <2>2, FlattenTwo
    <2> QED BY <1>2, <1>3, <2>2, <2>3 DEF IsLiteral
<1>4. ASSUME node.kind \in {"not", "is_null", "is_not_null"}
      PROVE  /\ SqlOf(node).text = Node(node.kind, node.x, <<SqlOf(node.args[1]).text>>)
             /\ SqlOf(node).params = SqlOf(node.args[1]).params
    <2>1. DOMAIN node.args = 1..1
        BY <1>4, Operands
    <2>2. /\ texts = <<SqlOf(node.args[1]).text>>
          /\ params = [i \in 1..1 |-> params[i]]
          /\ params[1] = SqlOf(node.args[1]).params
        BY <2>1
    <2> HIDE DEF texts, params
    <2>3. FlattenSeq(params) = params[1]
        BY <2>2, FlattenOne
    <2> QED BY <1>2, <1>4, <2>2, <2>3 DEF IsLiteral
<1>5. ASSUME node.kind \in {"ref", "true"}
      PROVE  SqlOf(node).text = node /\ SqlOf(node).params = <<>>
    <2>1. node.args = <<>> /\ DOMAIN node.args = {}
        BY <1>5, Operands
    <2>2. texts = <<>> /\ params = <<>>
        BY <2>1
    <2> HIDE DEF texts, params
    <2>3. Node(node.kind, node.x, <<>>) = node
        BY <2>1, NodesAssumption DEF IsNode
    <2> QED BY <1>2, <1>5, <2>2, <2>3, FlattenNone DEF IsLiteral
<1> HIDE DEF texts, params, parts
<1> QED BY <1>2, <1>3, <1>4, <1>5

\* Parameters are numbers.
LEMMA SqlParams ==
    ASSUME NEW node \in Nodes
    PROVE  SqlOf(node).params \in Seq(Nat)
<1> DEFINE S == {n \in Nodes : SqlOf(n).params \in Seq(Nat)}
<1>1. ASSUME NEW n \in Nodes, \A i \in DOMAIN n.args : n.args[i] \in S
      PROVE  n \in S
    <2>1. CASE n.kind \in {"and", "or", "compare", "plus"}
        <3>1. n.args[1] \in S /\ n.args[2] \in S
            BY <1>1, <2>1, Operands
        <3>2. SqlOf(n).params = SqlOf(n.args[1]).params \o SqlOf(n.args[2]).params
            BY <1>1, <2>1, SqlOfNode
        <3> QED BY <1>1, <3>1, <3>2, ConcatProperties
    <2>2. CASE n.kind \in {"not", "is_null", "is_not_null"}
        <3>1. n.args[1] \in S
            BY <1>1, <2>2, Operands
        <3> QED BY <1>1, <2>2, <3>1, SqlOfNode
    <2>3. CASE n.kind \in {"int", "bool"}
        <3>1. n.x \in Nat /\ IsLiteral(n)
            BY <1>1, <2>3, NodesAssumption DEF IsNode, IsLiteral
        <3>2. SqlOf(n).params = <<n.x>>
            BY <1>1, <3>1, SqlOfNode
        <3>3. <<n.x>> \in Seq(Nat)
            BY <3>1
        <3> QED BY <1>1, <3>2, <3>3
    <2>4. CASE n.kind \in {"ref", "true", "rel"}
        <3>1. SqlOf(n).params = <<>>
            BY <1>1, <2>4, SqlOfNode
        <3>2. <<>> \in Seq(Nat)
            OBVIOUS
        <3> QED BY <1>1, <3>1, <3>2
    <2> QED BY <1>1, <2>1, <2>2, <2>3, <2>4, NodesAssumption DEF IsNode
<1> HIDE DEF S
<1>2. Nodes \subseteq S
    BY <1>1, NodeInduction
<1> QED BY <1>2 DEF S

\* What is left of a list of parameters is one.
LEMMA ParamsLeft ==
    ASSUME NEW p \in Seq(Nat), NEW q \in Seq(Nat), p \o q \in ParamLists
    PROVE  q \in ParamLists
<1>1. PICK node \in Nodes : \E i \in 1..(Len(SqlOf(node).params) + 1) :
            p \o q = SubSeq(SqlOf(node).params, i, Len(SqlOf(node).params))
    BY DEF ParamLists
<1> DEFINE all == SqlOf(node).params
<1>2. all \in Seq(Nat)
    BY SqlParams
<1> HIDE DEF all
<1>3. PICK i \in 1..(Len(all) + 1) : p \o q = SubSeq(all, i, Len(all))
    BY <1>1 DEF all
<1>4. /\ Len(p \o q) = Len(p) + Len(q)
      /\ \A j \in 1..(Len(p) + Len(q)) : (p \o q)[j] = IF j <= Len(p) THEN p[j] ELSE q[j - Len(p)]
    BY ConcatProperties
<1>5. /\ Len(all) \in Nat /\ Len(p) \in Nat /\ Len(q) \in Nat
      /\ \A j \in i..Len(all) : all[j] \in Nat
    BY <1>2
<1>6. /\ Len(p \o q) = IF i <= Len(all) THEN Len(all) - i + 1 ELSE 0
      /\ \A j \in 1..(Len(all) - i + 1) : (p \o q)[j] = all[i + j - 1]
    BY <1>2, <1>3, <1>5, SubSeqProperties
<1>7. Len(p) + Len(q) = Len(all) - i + 1
    BY <1>3, <1>4, <1>5, <1>6
<1> DEFINE k == i + Len(p)
<1>8. k \in 1..(Len(all) + 1)
    BY <1>3, <1>5, <1>7
<1>9. q = SubSeq(all, k, Len(all))
    <2>1. /\ SubSeq(all, k, Len(all)) \in Seq(Nat)
          /\ Len(SubSeq(all, k, Len(all))) = IF k <= Len(all) THEN Len(all) - k + 1 ELSE 0
          /\ \A j \in 1..(Len(all) - k + 1) : SubSeq(all, k, Len(all))[j] = all[k + j - 1]
        <3>1. \A j \in k..Len(all) : all[j] \in Nat
            BY <1>5
        <3>2. k \in Int /\ Len(all) \in Int
            BY <1>5
        <3> HIDE DEF k
        <3> QED BY <3>1, <3>2, SubSeqProperties
    <2>2. Len(q) = Len(all) - k + 1 /\ Len(SubSeq(all, k, Len(all))) = Len(q)
        BY <1>5, <1>7, <2>1
    <2>3. ASSUME NEW j \in 1..Len(q)
          PROVE  q[j] = SubSeq(all, k, Len(all))[j]
        <3>1. /\ Len(p) + j \in 1..(Len(p) + Len(q)) /\ ~(Len(p) + j <= Len(p))
              /\ (Len(p) + j) - Len(p) = j /\ i + (Len(p) + j) - 1 = k + j - 1
            BY <1>5
        <3>2. q[j] = (p \o q)[Len(p) + j]
            BY <1>4, <3>1
        <3>3. (p \o q)[Len(p) + j] = all[k + j - 1]
            BY <1>6, <1>7, <3>1
        <3> QED BY <2>1, <2>2, <3>2, <3>3
    <2> HIDE DEF k
    <2> QED BY <2>1, <2>2, <2>3, SeqEqual
<1> HIDE DEF k
<1>10. q \in {SubSeq(all, j, Len(all)) : j \in 1..(Len(all) + 1)}
    BY <1>8, <1>9
<1>11. all \in {SqlOf(n).params : n \in Nodes}
    BY <1>1 DEF all
<1> QED BY <1>10, <1>11 DEF ParamLists

\* The SQL text of a node with its parameters, and others after them, bound.
BoundTo(node, rest) == SqlBound(SqlOf(node).text, SqlOf(node).params \o rest)
Bindable(node, rest) == rest \in Seq(Nat) /\ SqlOf(node).params \o rest \in ParamLists

\* Binding goes from a node to those it consists of.
LEMMA BoundStep ==
    ASSUME NEW node \in Nodes, NEW rest, Bindable(node, rest)
    PROVE  LET sql == SqlOf(node).text
               all == SqlOf(node).params \o rest
               first == SqlBound(sql.args[1], all)
               second == SqlBound(sql.args[2], first.rest)
           IN  BoundTo(node, rest) = BoundAt(sql, all, first, second)
<1> DEFINE sql == SqlOf(node).text
           p == SqlOf(node).params
           all == p \o rest
           first == SqlBound(sql.args[1], all)
           second == SqlBound(sql.args[2], first.rest)
<1>1. all \in ParamLists /\ Len(p) <= Len(all)
    <2>1. p \in Seq(Nat) /\ rest \in Seq(Nat)
        BY SqlParams DEF Bindable
    <2>2. Len(all) = Len(p) + Len(rest) /\ Len(p) \in Nat /\ Len(rest) \in Nat
        <3> HIDE DEF p
        <3> QED BY <2>1, ConcatProperties
    <2> QED BY <2>2 DEF Bindable
<1>2. all \in SqlBindings(node)
    BY <1>1 DEF SqlBindings
<1>3. SqlBound(sql, all) = BoundAt(sql, all, first, second)
    BY <1>2, TranslationAssumption
<1> QED BY <1>3 DEF BoundTo

\* A literal takes one parameter, a field and a constant none.
LEMMA BoundLeaf ==
    ASSUME NEW node \in Nodes, NEW rest, Bindable(node, rest)
    PROVE  /\ IsLiteral(node) =>
                BoundTo(node, rest).text = IntegerLiteral(node.x) /\ BoundTo(node, rest).rest = rest
           /\ node.kind \in {"ref", "true"} =>
                BoundTo(node, rest).text = node /\ BoundTo(node, rest).rest = rest
           /\ node.kind = "rel" => BoundTo(node, rest).rest = rest
<1> DEFINE all == SqlOf(node).params \o rest
<1>1. PICK first, second :
        BoundTo(node, rest) = BoundAt(SqlOf(node).text, all, first, second)
    BY BoundStep
<1>2. rest \in Seq(Nat) /\ SqlOf(node).params \in Seq(Nat)
    BY SqlParams DEF Bindable
<1>3. ASSUME IsLiteral(node)
      PROVE  BoundTo(node, rest).text = IntegerLiteral(node.x) /\ BoundTo(node, rest).rest = rest
    <2>1. SqlOf(node).text = Placeholder /\ all = <<node.x>> \o rest
        BY <1>3, SqlOfNode
    <2>2. node.x \in Nat
        BY <1>3, NodesAssumption DEF IsNode
    <2>3. Head(all) = node.x /\ Tail(all) = rest
        BY <1>2, <2>1, <2>2, Prefixed
    <2>4. Placeholder.kind = "placeholder"
        BY DEF Placeholder, Node
    <2> HIDE DEF all
    <2> QED BY <1>1, <2>1, <2>3, <2>4 DEF BoundAt
<1>4. ASSUME NEW text, SqlOf(node).text = text, SqlOf(node).params = <<>>,
             text.kind # "placeholder", text.args = <<>>
      PROVE  BoundTo(node, rest).text = text /\ BoundTo(node, rest).rest = rest
    <2>1. all = rest
        BY <1>2, <1>4, ConcatEmptySeq
    <2>2. Len(text.args) = 0
        BY <1>4
    <2> HIDE DEF all
    <2> QED BY <1>1, <1>4, <2>1, <2>2 DEF BoundAt
<1>5. node.kind \in {"ref", "true"} =>
            BoundTo(node, rest).text = node /\ BoundTo(node, rest).rest = rest
    <2> SUFFICES ASSUME node.kind \in {"ref", "true"}
                 PROVE  BoundTo(node, rest).text = node /\ BoundTo(node, rest).rest = rest
        OBVIOUS
    <2>1. SqlOf(node).text = node /\ SqlOf(node).params = <<>>
        BY SqlOfNode
    <2>2. node.kind # "placeholder" /\ node.args = <<>>
        BY Operands
    <2> QED BY <1>4, <2>1, <2>2
<1>6. node.kind = "rel" => BoundTo(node, rest).rest = rest
    <2>1. True.kind # "placeholder" /\ True.args = <<>>
        BY DEF True, Node
    <2> QED BY <1>4, <2>1, SqlOfNode
<1> QED BY <1>3, <1>5, <1>6

\* Each node of a node is bound with the parameters of those after it left.
LEMMA PartsBindable ==
    ASSUME NEW node \in Nodes, NEW rest, Bindable(node, rest)
    PROVE  /\ node.kind \in {"and", "or", "compare", "plus"} =>
                /\ Bindable(node.args[1], SqlOf(node.args[2]).params \o rest)
                /\ SqlOf(node).params \o rest
                      = SqlOf(node.args[1]).params \o (SqlOf(node.args[2]).params \o rest)
                /\ Bindable(node.args[2], rest)
           /\ node.kind \in {"not", "is_null", "is_not_null"} => Bindable(node.args[1], rest)
<1> USE DEF Bindable
<1>1. ASSUME node.kind \in {"and", "or", "compare", "plus"}
      PROVE  /\ Bindable(node.args[1], SqlOf(node.args[2]).params \o rest)
             /\ SqlOf(node).params \o rest
                   = SqlOf(node.args[1]).params \o (SqlOf(node.args[2]).params \o rest)
             /\ Bindable(node.args[2], rest)
    <2> DEFINE p == SqlOf(node.args[1]).params
               q == SqlOf(node.args[2]).params
    <2>1. p \in Seq(Nat) /\ q \in Seq(Nat)
        BY <1>1, Operands, SqlParams
    <2>2. SqlOf(node).params = p \o q
        BY <1>1, SqlOfNode
    <2> HIDE DEF p, q
    <2>3. (p \o q) \o rest = p \o (q \o rest) /\ q \o rest \in Seq(Nat)
        BY <2>1, ConcatAssociative, ConcatProperties
    <2>4. q \o rest \in ParamLists
        <3>1. p \o (q \o rest) \in ParamLists
            BY <2>2, <2>3
        <3> QED BY <2>1, <2>3, <3>1, ParamsLeft
    <2> QED BY <2>2, <2>3, <2>4 DEF p, q
<1>2. ASSUME node.kind \in {"not", "is_null", "is_not_null"}
      PROVE  Bindable(node.args[1], rest)
    BY <1>2, SqlOfNode
<1> QED BY <1>1, <1>2

\* The SQL text of a node bound, by those it consists of.
LEMMA BoundOfNode ==
    ASSUME NEW node \in Nodes, NEW rest, Bindable(node, rest)
    PROVE  /\ /\ node.kind \in {"and", "or", "compare", "plus"}
              /\ BoundTo(node.args[1], SqlOf(node.args[2]).params \o rest).rest
                    = SqlOf(node.args[2]).params \o rest
              => /\ BoundTo(node, rest).text = Node(node.kind, node.x,
                        <<BoundTo(node.args[1], SqlOf(node.args[2]).params \o rest).text,
                          BoundTo(node.args[2], rest).text>>)
                 /\ BoundTo(node, rest).rest = BoundTo(node.args[2], rest).rest
           /\ node.kind \in {"not", "is_null", "is_not_null"} =>
                 /\ BoundTo(node, rest).text =
                        Node(node.kind, node.x, <<BoundTo(node.args[1], rest).text>>)
                 /\ BoundTo(node, rest).rest = BoundTo(node.args[1], rest).rest
<1> DEFINE sql == SqlOf(node).text
           all == SqlOf(node).params \o rest
           first == SqlBound(sql.args[1], all)
           second == SqlBound(sql.args[2], first.rest)
<1>1. BoundTo(node, rest) = BoundAt(sql, all, first, second)
    BY BoundStep
<1>2. ASSUME NEW args, sql = Node(node.kind, node.x, args)
      PROVE  /\ sql.kind = node.kind /\ sql.args = args
             /\ \A other : [sql EXCEPT !.args = other] = Node(node.kind, node.x, other)
    <2> HIDE DEF sql
    <2> QED BY <1>2 DEF Node
<1>3. ASSUME node.kind \in {"and", "or", "compare", "plus"},
             BoundTo(node.args[1], SqlOf(node.args[2]).params \o rest).rest
                    = SqlOf(node.args[2]).params \o rest
      PROVE  /\ BoundTo(node, rest).text = Node(node.kind, node.x,
                    <<BoundTo(node.args[1], SqlOf(node.args[2]).params \o rest).text,
                      BoundTo(node.args[2], rest).text>>)
             /\ BoundTo(node, rest).rest = BoundTo(node.args[2], rest).rest
    <2> DEFINE args == <<SqlOf(node.args[1]).text, SqlOf(node.args[2]).text>>
    <2>1. sql = Node(node.kind, node.x, args)
        BY <1>3, SqlOfNode
    <2>2. /\ sql.kind # "placeholder" /\ sql.args = args
          /\ \A other : [sql EXCEPT !.args = other] = Node(node.kind, node.x, other)
        BY <1>2, <1>3, <2>1
    <2>3. Len(args) = 2 /\ args[1] = SqlOf(node.args[1]).text /\ args[2] = SqlOf(node.args[2]).text
        OBVIOUS
    <2>4. first = BoundTo(node.args[1], SqlOf(node.args[2]).params \o rest)
        BY <1>3, <2>2, <2>3, PartsBindable DEF BoundTo
    <2>5. second = BoundTo(node.args[2], rest)
        BY <1>3, <2>2, <2>3, <2>4 DEF BoundTo
    <2> HIDE DEF sql, all, first, second, args
    <2>6. BoundAt(sql, all, first, second) =
            [text |-> [sql EXCEPT !.args = <<first.text, second.text>>], rest |-> second.rest]
        BY <2>2, <2>3 DEF BoundAt
    <2>7. /\ BoundTo(node, rest).text = Node(node.kind, node.x, <<first.text, second.text>>)
          /\ BoundTo(node, rest).rest = second.rest
        BY <1>1, <2>2, <2>6
    <2> QED BY <2>4, <2>5, <2>7
<1>4. ASSUME node.kind \in {"not", "is_null", "is_not_null"}
      PROVE  /\ BoundTo(node, rest).text =
                    Node(node.kind, node.x, <<BoundTo(node.args[1], rest).text>>)
             /\ BoundTo(node, rest).rest = BoundTo(node.args[1], rest).rest
    <2> DEFINE args == <<SqlOf(node.args[1]).text>>
    <2>1. sql = Node(node.kind, node.x, args) /\ all = SqlOf(node.args[1]).params \o rest
        BY <1>4, SqlOfNode
    <2>2. /\ sql.kind # "placeholder" /\ sql.args = args
          /\ \A other : [sql EXCEPT !.args = other] = Node(node.kind, node.x, other)
        BY <1>2, <1>4, <2>1
    <2>3. Len(args) = 1 /\ args[1] = SqlOf(node.args[1]).text
        OBVIOUS
    <2>4. first = BoundTo(node.args[1], rest)
        BY <2>1, <2>2, <2>3 DEF BoundTo
    <2> HIDE DEF sql, all, first, second, args
    <2>5. BoundAt(sql, all, first, second) =
            [text |-> [sql EXCEPT !.args = <<first.text>>], rest |-> first.rest]
        BY <2>2, <2>3 DEF BoundAt
    <2>6. /\ BoundTo(node, rest).text = Node(node.kind, node.x, <<first.text>>)
          /\ BoundTo(node, rest).rest = first.rest
        BY <1>1, <2>2, <2>5
    <2> QED BY <2>4, <2>6
<1> QED BY <1>3, <1>4

\* A text takes its own parameters and leaves the others.
LEMMA BoundLeaves ==
    ASSUME NEW node \in Nodes, NEW rest, Bindable(node, rest)
    PROVE  BoundTo(node, rest).rest = rest
<1> DEFINE S == {n \in Nodes : \A r : Bindable(n, r) => BoundTo(n, r).rest = r}
<1>1. ASSUME NEW n \in Nodes, \A i \in DOMAIN n.args : n.args[i] \in S
      PROVE  n \in S
    <2> SUFFICES ASSUME NEW r, Bindable(n, r)
                 PROVE  BoundTo(n, r).rest = r
        BY <1>1
    <2>1. CASE n.kind \in {"and", "or", "compare", "plus"}
        <3>1. n.args[1] \in S /\ n.args[2] \in S
            BY <1>1, <2>1, Operands
        <3>2. /\ Bindable(n.args[1], SqlOf(n.args[2]).params \o r)
              /\ Bindable(n.args[2], r)
            BY <1>1, <2>1, PartsBindable
        <3> QED BY <1>1, <2>1, <3>1, <3>2, BoundOfNode
    <2>2. CASE n.kind \in {"not", "is_null", "is_not_null"}
        <3>1. n.args[1] \in S
            BY <1>1, <2>2, Operands
        <3>2. Bindable(n.args[1], r)
            BY <1>1, <2>2, PartsBindable
        <3> QED BY <1>1, <2>2, <3>1, <3>2, BoundOfNode
    <2>3. CASE n.kind \in {"int", "bool", "ref", "true", "rel"}
        BY <1>1, <2>3, BoundLeaf DEF IsLiteral
    <2> QED BY <1>1, <2>1, <2>2, <2>3, NodesAssumption DEF IsNode
<1> HIDE DEF S
<1>2. Nodes \subseteq S
    BY <1>1, NodeInduction
<1> QED BY <1>2 DEF S

\* The SQL of a condition of fields and literals, bound, is true of the rows the
\* condition is true of.
LEMMA SqlMeans ==
    ASSUME NEW node \in Plain, NEW rest, Bindable(node, rest),
           NEW alias \in Aliases, NEW row \in Rows
    PROVE  TruthOf(BoundTo(node, rest).text, Single(alias, row)) = TruthOf(node, Single("row", row))
<1> DEFINE Good(n) == \A r : Bindable(n, r) =>
                TruthOf(BoundTo(n, r).text, Single(alias, row)) = TruthOf(n, Single("row", row))
           S == {n \in Nodes : n \in Plain => Good(n)}
<1>1. ASSUME NEW n \in Nodes, \A i \in DOMAIN n.args : n.args[i] \in S, n \in Plain,
             NEW r, Bindable(n, r)
      PROVE  TruthOf(BoundTo(n, r).text, Single(alias, row)) = TruthOf(n, Single("row", row))
    <2> DEFINE text == BoundTo(n, r).text
    <2>1. text \in PlainTexts /\ n \in PlainTexts
        <3>1. SqlOf(n).params \o r \in SqlBindings(n)
            <4>1. SqlOf(n).params \in Seq(Nat) /\ r \in Seq(Nat)
                BY <1>1, SqlParams DEF Bindable
            <4>2. Len(SqlOf(n).params) <= Len(SqlOf(n).params \o r)
                <5>1. ASSUME NEW p \in Seq(Nat) PROVE Len(p) <= Len(p \o r)
                    <6>1. Len(p \o r) = Len(p) + Len(r) /\ Len(p) \in Nat /\ Len(r) \in Nat
                        BY <4>1, <5>1, ConcatProperties
                    <6> QED BY <6>1
                <5> QED BY <4>1, <5>1
            <4> QED BY <1>1, <4>2 DEF SqlBindings, Bindable
        <3>2. text \in {SqlBound(SqlOf(n).text, params).text : params \in SqlBindings(n)}
            BY <3>1 DEF BoundTo
        <3> HIDE DEF text
        <3> QED BY <1>1, <3>2 DEF PlainTexts
    <2>2. ASSUME NEW args, text = Node(n.kind, n.x, args)
          PROVE  text.kind = n.kind /\ text.x = n.x /\ text.args = args
        <3> HIDE DEF text
        <3> QED BY <2>2 DEF Node
    <2>3. "row" \in Aliases
        BY CallsAssumption
    <2>4. CASE n.kind \in {"and", "or"}
        <3> DEFINE a == BoundTo(n.args[1], SqlOf(n.args[2]).params \o r)
                   b == BoundTo(n.args[2], r)
        <3>1. /\ Bindable(n.args[1], SqlOf(n.args[2]).params \o r) /\ Bindable(n.args[2], r)
              /\ n.args[1] \in Nodes /\ n.args[2] \in Nodes /\ DOMAIN n.args = 1..2
            BY <1>1, <2>4, PartsBindable, Operands
        <3>2. n.args[1] \in Plain /\ n.args[2] \in Plain /\ n.args[1] \in S /\ n.args[2] \in S
            BY <1>1, <2>4, <3>1, PlainParts
        <3>3. /\ TruthOf(a.text, Single(alias, row)) = TruthOf(n.args[1], Single("row", row))
              /\ TruthOf(b.text, Single(alias, row)) = TruthOf(n.args[2], Single("row", row))
            BY <3>1, <3>2
        <3>4. text = Node(n.kind, n.x, <<a.text, b.text>>)
            BY <1>1, <2>4, <3>1, BoundLeaves, BoundOfNode
        <3> HIDE DEF text, a, b, S
        <3>5. text.kind = n.kind /\ text.x = n.x /\ text.args = <<a.text, b.text>>
            BY <2>2, <3>4
        <3>6. DOMAIN text.args = 1..2 /\ \A i \in DOMAIN text.args :
                TruthOf(text.args[i], Single(alias, row)) = TruthOf(n.args[i], Single("row", row))
            BY <3>3, <3>5
        <3>8. /\ DOMAIN text.args = DOMAIN n.args /\ 1 \in DOMAIN text.args /\ 2 \in DOMAIN text.args
              /\ text.kind \in {"and", "or"}
            BY <2>4, <3>1, <3>5, <3>6
        <3>7. TruthOf(text, Single(alias, row)) = TruthOf(n, Single("row", row))
            BY <2>1, <2>3, <2>4, <3>5, <3>6, <3>8, SameParts
        <3> QED BY <3>7 DEF text
    <2>5. CASE n.kind = "not"
        <3> DEFINE a == BoundTo(n.args[1], r)
        <3>1. Bindable(n.args[1], r) /\ n.args[1] \in Nodes /\ DOMAIN n.args = 1..1
            BY <1>1, <2>5, PartsBindable, Operands
        <3>2. n.args[1] \in Plain /\ n.args[1] \in S
            BY <1>1, <2>5, <3>1, PlainParts
        <3>3. TruthOf(a.text, Single(alias, row)) = TruthOf(n.args[1], Single("row", row))
            BY <3>1, <3>2
        <3>4. text = Node(n.kind, n.x, <<a.text>>)
            BY <1>1, <2>5, BoundOfNode
        <3> HIDE DEF text, a, S
        <3>5. text.kind = n.kind /\ text.x = n.x /\ text.args = <<a.text>>
            BY <2>2, <3>4
        <3>6. DOMAIN text.args = 1..1 /\ \A i \in DOMAIN text.args :
                TruthOf(text.args[i], Single(alias, row)) = TruthOf(n.args[i], Single("row", row))
            BY <3>3, <3>5
        <3>8. /\ DOMAIN text.args = DOMAIN n.args /\ 1 \in DOMAIN text.args
              /\ text.kind = "not"
            BY <2>5, <3>1, <3>5, <3>6
        <3>7. TruthOf(text, Single(alias, row)) = TruthOf(n, Single("row", row))
            BY <2>1, <2>3, <2>5, <3>5, <3>6, <3>8, SameParts
        <3> QED BY <3>7 DEF text
    <2>6. CASE n.kind = "compare"
        <3> DEFINE left == n.args[1]
                   right == n.args[2]
        <3>1. /\ Bindable(left, SqlOf(right).params \o r) /\ Bindable(right, r)
              /\ left \in Nodes /\ right \in Nodes /\ DOMAIN n.args = 1..2
            BY <1>1, <2>6, PartsBindable, Operands
        <3>2. BareField(left) /\ IsLiteral(right)
            BY <1>1, <2>6, PlainParts
        <3> HIDE DEF text, left, right, S
        <3>3. /\ BoundTo(left, SqlOf(right).params \o r).text = left
              /\ BoundTo(left, SqlOf(right).params \o r).rest = SqlOf(right).params \o r
              /\ BoundTo(right, r).text = IntegerLiteral(right.x)
            BY <3>1, <3>2, BoundLeaf DEF BareField
        <3>4. text = Node(n.kind, n.x, <<left, IntegerLiteral(right.x)>>)
            BY <1>1, <2>6, <3>3, BoundOfNode DEF text, left, right
        <3>5. text.kind = n.kind /\ text.x = n.x /\ text.args = <<left, IntegerLiteral(right.x)>>
            BY <2>2, <3>4
        <3>6. /\ ValueAt(left, Single(alias, row), <<>>) = ValueAt(left, Single("row", row), <<>>)
              /\ ValueAt(IntegerLiteral(right.x), Single(alias, row), <<>>)
                    = ValueAt(right, Single("row", row), <<>>)
            <4>1. /\ ValueAt(left, Single(alias, row), <<>>) = FieldOf(row, left.x[1])
                  /\ ValueAt(left, Single("row", row), <<>>) = FieldOf(row, left.x[1])
                BY <3>2, FieldValue
            <4>2. /\ ValueAt(IntegerLiteral(right.x), Single(alias, row), <<>>) = right.x
                  /\ ValueAt(right, Single("row", row), <<>>) = right.x
                BY <3>2, LiteralValue
            <4> QED BY <4>1, <4>2
        <3>7. DOMAIN text.args = 1..2 /\ \A i \in DOMAIN text.args :
                ValueAt(text.args[i], Single(alias, row), <<>>)
                    = ValueAt(n.args[i], Single("row", row), <<>>)
            BY <3>5, <3>6 DEF left, right
        <3>9. /\ DOMAIN text.args = DOMAIN n.args /\ 1 \in DOMAIN text.args /\ 2 \in DOMAIN text.args
              /\ text.kind = "compare"
            BY <2>6, <3>1, <3>5, <3>7
        <3>8. TruthOf(text, Single(alias, row)) = TruthOf(n, Single("row", row))
            BY <2>1, <2>3, <2>6, <3>5, <3>7, <3>9, SameOperands
        <3> QED BY <3>8 DEF text
    <2>7. CASE n.kind \in {"is_null", "is_not_null"}
        <3> DEFINE left == n.args[1]
        <3>1. Bindable(left, r) /\ left \in Nodes /\ DOMAIN n.args = 1..1
            BY <1>1, <2>7, PartsBindable, Operands
        <3>2. BareField(left)
            BY <1>1, <2>7, PlainParts
        <3> HIDE DEF text, left, S
        <3>3. BoundTo(left, r).text = left
            BY <3>1, <3>2, BoundLeaf DEF BareField
        <3>4. text = Node(n.kind, n.x, <<left>>)
            BY <1>1, <2>7, <3>3, BoundOfNode DEF text, left
        <3>5. text.kind = n.kind /\ text.x = n.x /\ text.args = <<left>>
            BY <2>2, <3>4
        <3>6. /\ ValueAt(left, Single(alias, row), <<>>) = FieldOf(row, left.x[1])
              /\ ValueAt(left, Single("row", row), <<>>) = FieldOf(row, left.x[1])
            BY <3>2, FieldValue
        <3>7. DOMAIN text.args = 1..1 /\ \A i \in DOMAIN text.args :
                ValueAt(text.args[i], Single(alias, row), <<>>)
                    = ValueAt(n.args[i], Single("row", row), <<>>)
            BY <3>5, <3>6 DEF left
        <3>9. /\ DOMAIN text.args = DOMAIN n.args /\ 1 \in DOMAIN text.args
              /\ text.kind \in {"compare", "is_null", "is_not_null"} /\ text.kind # "compare"
            BY <2>7, <3>1, <3>5, <3>7
        <3>8. TruthOf(text, Single(alias, row)) = TruthOf(n, Single("row", row))
            BY <2>1, <2>3, <2>7, <3>5, <3>7, <3>9, SameOperands
        <3> QED BY <3>8 DEF text
    <2>8. CASE n.kind = "true"
        <3>1. text = n /\ DOMAIN n.args = {}
            BY <1>1, <2>8, BoundLeaf, Operands
        <3> HIDE DEF text
        <3>2. TruthOf(text, Single(alias, row)) = TruthOf(n, Single("row", row))
            BY <2>1, <2>3, <2>8, <3>1, SameParts
        <3> QED BY <3>2 DEF text
    <2> QED BY <1>1, <2>4, <2>5, <2>6, <2>7, <2>8, PlainParts
<1>2. ASSUME NEW n \in Nodes, \A i \in DOMAIN n.args : n.args[i] \in S
      PROVE  n \in S
    BY <1>1, <1>2
<1> HIDE DEF S
<1>3. Nodes \subseteq S
    BY <1>2, NodeInduction
<1>4. node \in Nodes
    BY DEF Plain
<1> QED BY <1>3, <1>4 DEF S

-----------------------------------------------------------------------------
\* MongoDB

\* The elements of a concatenation.
LEMMA RangeOfConcat ==
    ASSUME NEW T, NEW s \in Seq(T), NEW t \in Seq(T)
    PROVE  Range(s \o t) = Range(s) \union Range(t)
<1>1. /\ s \o t \in Seq(T) /\ Len(s \o t) = Len(s) + Len(t)
      /\ \A i \in 1..(Len(s) + Len(t)) : (s \o t)[i] = IF i <= Len(s) THEN s[i] ELSE t[i - Len(s)]
    BY ConcatProperties
<1>2. Len(s) \in Nat /\ Len(t) \in Nat
    OBVIOUS
<1>3. /\ DOMAIN s = 1..Len(s) /\ DOMAIN t = 1..Len(t) /\ DOMAIN (s \o t) = 1..(Len(s) + Len(t))
    BY <1>1
<1>4. ASSUME NEW i \in DOMAIN s PROVE s[i] \in Range(s \o t)
    <2>1. i \in DOMAIN (s \o t) /\ (s \o t)[i] = s[i]
        BY <1>1, <1>2, <1>3, <1>4
    <2> QED BY <2>1 DEF Range
<1>5. ASSUME NEW i \in DOMAIN t PROVE t[i] \in Range(s \o t)
    <2>1. /\ Len(s) + i \in DOMAIN (s \o t) /\ ~(Len(s) + i <= Len(s)) /\ (Len(s) + i) - Len(s) = i
        BY <1>2, <1>3, <1>5
    <2>2. (s \o t)[Len(s) + i] = t[i]
        BY <1>1, <1>3, <2>1
    <2> QED BY <2>1, <2>2 DEF Range
<1>6. ASSUME NEW i \in DOMAIN (s \o t) PROVE (s \o t)[i] \in Range(s) \union Range(t)
    <2>1. CASE i <= Len(s)
        <3>1. i \in DOMAIN s /\ (s \o t)[i] = s[i]
            BY <1>1, <1>2, <1>3, <1>6, <2>1
        <3> QED BY <3>1 DEF Range
    <2>2. CASE ~(i <= Len(s))
        <3>1. i - Len(s) \in DOMAIN t /\ (s \o t)[i] = t[i - Len(s)]
            BY <1>1, <1>2, <1>3, <1>6, <2>2
        <3> QED BY <3>1 DEF Range
    <2> QED BY <2>1, <2>2
<1>7. Range(s \o t) = {(s \o t)[i] : i \in DOMAIN (s \o t)}
    BY DEF Range
<1>8. Range(s) = {s[i] : i \in DOMAIN s} /\ Range(t) = {t[i] : i \in DOMAIN t}
    BY DEF Range
<1> QED BY <1>4, <1>5, <1>6, <1>7, <1>8

\* The leaves of a node of two, of one and of no nodes.
LEMMA LeavesOfNode ==
    ASSUME NEW node \in Nodes, NEW kind \in {"ref", "int"}
    PROVE  /\ node.kind \in {"and", "or", "compare", "plus"} =>
                LeavesIn(node, kind) = LeavesIn(node.args[1], kind) \o LeavesIn(node.args[2], kind)
           /\ node.kind \in {"not", "is_null", "is_not_null"} =>
                LeavesIn(node, kind) = LeavesIn(node.args[1], kind)
           /\ node.kind \in {"int", "bool", "ref", "true", "rel"} =>
                LeavesIn(node, kind) = IF node.kind = kind THEN <<node>> ELSE <<>>
<1> DEFINE parts == [i \in DOMAIN node.args |-> LeavesIn(node.args[i], kind)]
<1>1. LeavesIn(node, kind) = LeavesAt(node, kind, parts)
    BY TranslationAssumption
<1>2. LeavesIn(node, kind) = IF node.args # <<>> THEN FlattenSeq(parts)
                             ELSE IF node.kind = kind THEN <<node>> ELSE <<>>
    <2> HIDE DEF parts
    <2> QED BY <1>1 DEF LeavesAt
<1>3. ASSUME node.kind \in {"and", "or", "compare", "plus"}
      PROVE  LeavesIn(node, kind) = LeavesIn(node.args[1], kind) \o LeavesIn(node.args[2], kind)
    <2>1. DOMAIN node.args = 1..2 /\ node.args # <<>>
        BY <1>3, Operands
    <2>2. /\ parts = [i \in 1..2 |-> parts[i]]
          /\ parts[1] = LeavesIn(node.args[1], kind) /\ parts[2] = LeavesIn(node.args[2], kind)
        BY <2>1
    <2> HIDE DEF parts
    <2>3. FlattenSeq(parts) = parts[1] \o parts[2]
        BY <2>2, FlattenTwo
    <2> QED BY <1>2, <2>1, <2>2, <2>3
<1>4. ASSUME node.kind \in {"not", "is_null", "is_not_null"}
      PROVE  LeavesIn(node, kind) = LeavesIn(node.args[1], kind)
    <2>1. DOMAIN node.args = 1..1 /\ node.args # <<>>
        BY <1>4, Operands
    <2>2. parts = [i \in 1..1 |-> parts[i]] /\ parts[1] = LeavesIn(node.args[1], kind)
        BY <2>1
    <2> HIDE DEF parts
    <2>3. FlattenSeq(parts) = parts[1]
        BY <2>2, FlattenOne
    <2> QED BY <1>2, <2>1, <2>2, <2>3
<1>5. ASSUME node.kind \in {"int", "bool", "ref", "true", "rel"}
      PROVE  LeavesIn(node, kind) = IF node.kind = kind THEN <<node>> ELSE <<>>
    BY <1>2, <1>5, Operands
<1> HIDE DEF parts
<1> QED BY <1>3, <1>4, <1>5

\* Leaves are nodes.
LEMMA LeavesAreNodes ==
    ASSUME NEW node \in Nodes, NEW kind \in {"ref", "int"}
    PROVE  LeavesIn(node, kind) \in Seq(Nodes)
<1> DEFINE S == {n \in Nodes : LeavesIn(n, kind) \in Seq(Nodes)}
<1>1. ASSUME NEW n \in Nodes, \A i \in DOMAIN n.args : n.args[i] \in S
      PROVE  n \in S
    <2>1. CASE n.kind \in {"and", "or", "compare", "plus"}
        <3>1. n.args[1] \in S /\ n.args[2] \in S
            BY <1>1, <2>1, Operands
        <3>2. LeavesIn(n, kind) = LeavesIn(n.args[1], kind) \o LeavesIn(n.args[2], kind)
            BY <1>1, <2>1, LeavesOfNode
        <3> QED BY <1>1, <3>1, <3>2, ConcatProperties
    <2>2. CASE n.kind \in {"not", "is_null", "is_not_null"}
        <3>1. n.args[1] \in S
            BY <1>1, <2>2, Operands
        <3> QED BY <1>1, <2>2, <3>1, LeavesOfNode
    <2>3. CASE n.kind \in {"int", "bool", "ref", "true", "rel"}
        <3>1. <<n>> \in Seq(Nodes) /\ <<>> \in Seq(Nodes)
            BY <1>1
        <3> QED BY <1>1, <2>3, <3>1, LeavesOfNode
    <2> QED BY <1>1, <2>1, <2>2, <2>3, NodesAssumption DEF IsNode
<1> HIDE DEF S
<1>2. Nodes \subseteq S
    BY <1>1, NodeInduction
<1> QED BY <1>2 DEF S

\* The fields a condition speaks of are those its parts speak of.
LEMMA RefsOfNode ==
    ASSUME NEW node \in Nodes
    PROVE  /\ node.kind \in {"and", "or", "compare"} =>
                RefsIn(node) = RefsIn(node.args[1]) \union RefsIn(node.args[2])
           /\ node.kind \in {"not", "is_null", "is_not_null"} => RefsIn(node) = RefsIn(node.args[1])
           /\ node.kind = "ref" => RefsIn(node) = {node.x}
<1>1. ASSUME node.kind \in {"and", "or", "compare"}
      PROVE  RefsIn(node) = RefsIn(node.args[1]) \union RefsIn(node.args[2])
    <2>1. node.args[1] \in Nodes /\ node.args[2] \in Nodes
        BY <1>1, Operands
    <2>2. LeavesIn(node.args[1], "ref") \in Seq(Nodes) /\ LeavesIn(node.args[2], "ref") \in Seq(Nodes)
        BY <2>1, LeavesAreNodes
    <2>3. LeavesIn(node, "ref") = LeavesIn(node.args[1], "ref") \o LeavesIn(node.args[2], "ref")
        BY <1>1, LeavesOfNode
    <2>4. Range(LeavesIn(node, "ref"))
            = Range(LeavesIn(node.args[1], "ref")) \union Range(LeavesIn(node.args[2], "ref"))
        <3> DEFINE s == LeavesIn(node.args[1], "ref")
                   t == LeavesIn(node.args[2], "ref")
        <3>1. s \in Seq(Nodes) /\ t \in Seq(Nodes)
            BY <2>2
        <3> HIDE DEF s, t
        <3>2. Range(s \o t) = Range(s) \union Range(t)
            BY <3>1, RangeOfConcat
        <3> QED BY <2>3, <3>2 DEF s, t
    <2> QED BY <2>4 DEF RefsIn
<1>2. ASSUME node.kind \in {"not", "is_null", "is_not_null"}
      PROVE  RefsIn(node) = RefsIn(node.args[1])
    BY <1>2, LeavesOfNode DEF RefsIn
<1>3. ASSUME node.kind = "ref"
      PROVE  RefsIn(node) = {node.x}
    <2>1. LeavesIn(node, "ref") = <<node>>
        BY <1>3, LeavesOfNode
    <2>2. Range(<<node>>) = {node}
        BY DEF Range
    <2> QED BY <2>1, <2>2 DEF RefsIn
<1> QED BY <1>1, <1>2, <1>3

-----------------------------------------------------------------------------
\* MongoDB

\* The filter of a node.
LEMMA FilterOfNode ==
    ASSUME NEW node \in Nodes
    PROVE  /\ node.kind = "compare" => FilterOf(node) =
                Node("match", [path |-> FieldName(node.args[1]), op |-> node.x,
                               value |-> EvalLiteral(node.args[2])], <<>>)
           /\ node.kind \in {"is_null", "is_not_null"} => FilterOf(node) =
                Node("exists", [path |-> FieldName(node.args[1]),
                                wanted |-> node.kind = "is_not_null"], <<>>)
           /\ node.kind \in {"and", "or"} => FilterOf(node) =
                Node(node.kind, node.x, <<FilterOf(node.args[1]), FilterOf(node.args[2])>>)
           /\ node.kind = "not" => FilterOf(node) = Node("not", node.x, <<FilterOf(node.args[1])>>)
           /\ node.kind = "true" => FilterOf(node) = NoFilter
<1> DEFINE parts == [i \in DOMAIN node.args |-> FilterOf(node.args[i])]
           args == [i \in DOMAIN node.args |-> parts[i]]
<1>1. FilterOf(node) = FilterAt(node, parts)
    BY TranslationAssumption
<1>2. /\ node.kind = "compare" => FilterOf(node) =
                Node("match", [path |-> FieldName(node.args[1]), op |-> node.x,
                               value |-> EvalLiteral(node.args[2])], <<>>)
      /\ node.kind \in {"is_null", "is_not_null"} => FilterOf(node) =
                Node("exists", [path |-> FieldName(node.args[1]),
                                wanted |-> node.kind = "is_not_null"], <<>>)
      /\ node.kind = "true" => FilterOf(node) = NoFilter
    <2> HIDE DEF parts
    <2> QED BY <1>1, Zenon DEF FilterAt
<1>3. node.kind \in {"and", "or", "not"} => FilterOf(node) = Node(node.kind, node.x, args)
    <2>1. [node EXCEPT !.args = args] = Node(node.kind, node.x, args)
        BY NodeChanged
    <2> HIDE DEF parts
    <2> QED BY <1>1, <2>1 DEF FilterAt
<1>4. ASSUME node.kind \in {"and", "or"}
      PROVE  args = <<FilterOf(node.args[1]), FilterOf(node.args[2])>>
    <2>1. DOMAIN node.args = 1..2
        BY <1>4, Operands
    <2> QED BY <2>1
<1>5. ASSUME node.kind = "not"
      PROVE  args = <<FilterOf(node.args[1])>>
    <2>1. DOMAIN node.args = 1..1
        BY <1>5, Operands
    <2> QED BY <2>1
<1> HIDE DEF parts, args
<1> QED BY <1>2, <1>3, <1>4, <1>5

\* The meaning of a condition of fields and literals for a row.
LEMMA TruthOfNode ==
    ASSUME NEW node \in Plain, NEW row \in Rows
    PROVE  LET T(n) == TruthOf(n, Single("row", row))
               v == FieldOf(row, node.args[1].x[1])
               k == node.args[2].x
           IN  /\ node.kind = "true" => T(node) = "true"
               /\ node.kind = "compare" =>
                    T(node) = IF Null \in {v, k} THEN "null" ELSE Verdict(Ordered(node.x, v, k))
               /\ node.kind = "is_null" => T(node) = Verdict(v = Null)
               /\ node.kind = "is_not_null" => T(node) = Verdict(v # Null)
               /\ node.kind = "and" => T(node) =
                    IF "false" \in {T(node.args[1]), T(node.args[2])} THEN "false"
                    ELSE IF "null" \in {T(node.args[1]), T(node.args[2])} THEN "null" ELSE "true"
               /\ node.kind = "or" => T(node) =
                    IF "true" \in {T(node.args[1]), T(node.args[2])} THEN "true"
                    ELSE IF "null" \in {T(node.args[1]), T(node.args[2])} THEN "null" ELSE "false"
               /\ node.kind = "not" => T(node) =
                    IF T(node.args[1]) = "null" THEN "null" ELSE Verdict(T(node.args[1]) = "false")
<1> DEFINE env == Single("row", row)
           T(n) == TruthOf(n, env)
           v == FieldOf(row, node.args[1].x[1])
           k == node.args[2].x
           vals == [i \in DOMAIN node.args |-> ValueOf(node.args[i], env)]
           truths == [i \in DOMAIN node.args |-> T(node.args[i])]
<1>1. node \in PlainTexts /\ "row" \in Aliases
    BY CallsAssumption DEF PlainTexts
<1>2. /\ T(node) = TruthAt(node, vals, truths)
      /\ node.kind \in {"compare", "is_null", "is_not_null"} =>
            \A i \in DOMAIN node.args : vals[i] = ValueAt(node.args[i], env, <<>>)
    BY <1>1, EvaluationAssumption
<1>3. node.kind \in {"compare", "is_null", "is_not_null"} => vals[1] = v
    <2> SUFFICES ASSUME node.kind \in {"compare", "is_null", "is_not_null"}
                 PROVE  vals[1] = v
        OBVIOUS
    <2>1. 1 \in DOMAIN node.args /\ BareField(node.args[1])
        BY Operands, PlainParts
    <2>2. ValueAt(node.args[1], env, <<>>) = v
        BY <2>1, FieldValue
    <2> HIDE DEF vals, v, env
    <2> QED BY <1>2, <2>1, <2>2
<1>4. node.kind = "compare" => vals[2] = k
    <2> SUFFICES ASSUME node.kind = "compare"
                 PROVE  vals[2] = k
        OBVIOUS
    <2>1. 2 \in DOMAIN node.args /\ IsLiteral(node.args[2])
        BY Operands, PlainParts
    <2>2. ValueAt(node.args[2], env, <<>>) = k
        BY <2>1, LiteralValue
    <2> HIDE DEF vals, k, env
    <2> QED BY <1>2, <2>1, <2>2
<1>5. node.kind \in {"and", "or"} => truths[1] = T(node.args[1]) /\ truths[2] = T(node.args[2])
    <2> SUFFICES ASSUME node.kind \in {"and", "or"}
                 PROVE  truths[1] = T(node.args[1]) /\ truths[2] = T(node.args[2])
        OBVIOUS
    <2>1. 1 \in DOMAIN node.args /\ 2 \in DOMAIN node.args
        BY Operands, PlainParts
    <2> QED BY <2>1
<1>6. node.kind = "not" => truths[1] = T(node.args[1])
    <2> SUFFICES ASSUME node.kind = "not"
                 PROVE  truths[1] = T(node.args[1])
        OBVIOUS
    <2>1. 1 \in DOMAIN node.args
        BY Operands, PlainParts
    <2> QED BY <2>1
<1> HIDE DEF vals, truths, v, k
<1>7. /\ node.kind = "true" => TruthAt(node, vals, truths) = "true"
      /\ node.kind = "compare" => TruthAt(node, vals, truths) =
            IF Null \in {vals[1], vals[2]} THEN "null" ELSE Verdict(Ordered(node.x, vals[1], vals[2]))
      /\ node.kind = "is_null" => TruthAt(node, vals, truths) = Verdict(vals[1] = Null)
      /\ node.kind = "is_not_null" => TruthAt(node, vals, truths) = Verdict(vals[1] # Null)
      /\ node.kind = "and" => TruthAt(node, vals, truths) =
            IF "false" \in {truths[1], truths[2]} THEN "false"
            ELSE IF "null" \in {truths[1], truths[2]} THEN "null" ELSE "true"
      /\ node.kind = "or" => TruthAt(node, vals, truths) =
            IF "true" \in {truths[1], truths[2]} THEN "true"
            ELSE IF "null" \in {truths[1], truths[2]} THEN "null" ELSE "false"
      /\ node.kind = "not" => TruthAt(node, vals, truths) =
            IF truths[1] = "null" THEN "null" ELSE Verdict(truths[1] = "false")
    BY DEF TruthAt
<1>8. /\ node.kind = "true" => T(node) = "true"
      /\ node.kind = "compare" => T(node) = IF Null \in {v, k} THEN "null" ELSE Verdict(Ordered(node.x, v, k))
      /\ node.kind = "is_null" => T(node) = Verdict(v = Null)
      /\ node.kind = "is_not_null" => T(node) = Verdict(v # Null)
      /\ node.kind = "and" => T(node) =
            IF "false" \in {T(node.args[1]), T(node.args[2])} THEN "false"
            ELSE IF "null" \in {T(node.args[1]), T(node.args[2])} THEN "null" ELSE "true"
      /\ node.kind = "or" => T(node) =
            IF "true" \in {T(node.args[1]), T(node.args[2])} THEN "true"
            ELSE IF "null" \in {T(node.args[1]), T(node.args[2])} THEN "null" ELSE "false"
      /\ node.kind = "not" => T(node) =
            IF T(node.args[1]) = "null" THEN "null" ELSE Verdict(T(node.args[1]) = "false")
    <2> HIDE DEF T
    <2> QED BY <1>2, <1>3, <1>4, <1>5, <1>6, <1>7
<1> QED BY <1>8 DEF v, k

\* What the filter of a condition of fields and literals selects, of documents
\* with numbers in these fields.
LEMMA MatchesOfNode ==
    ASSUME NEW node \in Plain, NEW row \in Rows
    PROVE  LET M(n) == FilterMatches(FilterOf(n), row, <<>>)
               f == node.args[1].x[1]
               k == node.args[2].x
           IN  /\ node.kind = "true" => M(node)
               /\ node.kind = "compare" /\ f \in DOMAIN row /\ row[f] \in Nat =>
                    (M(node) <=> Ordered(node.x, row[f], k))
               /\ node.kind \in {"is_null", "is_not_null"} /\ f \in DOMAIN row =>
                    (M(node) <=> node.kind = "is_not_null")
               /\ node.kind = "and" => (M(node) <=> M(node.args[1]) /\ M(node.args[2]))
               /\ node.kind = "or" => (M(node) <=> M(node.args[1]) \/ M(node.args[2]))
               /\ node.kind = "not" => (M(node) <=> ~M(node.args[1]))
<1> DEFINE M(n) == FilterMatches(FilterOf(n), row, <<>>)
           filter == FilterOf(node)
           parts == [i \in DOMAIN filter.args |-> FilterMatches(filter.args[i], row, <<>>)]
           f == node.args[1].x[1]
           k == node.args[2].x
<1>1. M(node) = MatchesAt(filter, row, <<>>, parts)
    BY EvaluationAssumption
<1>2. node \in Nodes
    BY DEF Plain
<1>3. node.kind = "true" => M(node)
    <2> SUFFICES ASSUME node.kind = "true"
                 PROVE  MatchesAt(filter, row, <<>>, parts)
        BY <1>1
    <2>1. filter.kind = "{}"
        <3>1. filter = NoFilter
            BY <1>2, FilterOfNode
        <3> HIDE DEF filter
        <3> QED BY <3>1 DEF NoFilter, Node
    <2> HIDE DEF filter, parts
    <2> QED BY <2>1 DEF MatchesAt
<1>4. ASSUME node.kind \in {"compare", "is_null", "is_not_null"}, f \in DOMAIN row
      PROVE  FieldName(node.args[1]) = node.args[1].x /\ At(node.args[1].x, row, <<>>) = <<row[f]>>
    <2>1. BareField(node.args[1])
        BY <1>4, PlainParts
    <2> QED BY <1>4, <2>1 DEF BareField, FieldName, At
<1>5. ASSUME node.kind = "compare", f \in DOMAIN row, row[f] \in Nat
      PROVE  M(node) <=> Ordered(node.x, row[f], k)
    <2>1. IsLiteral(node.args[2]) /\ node.args[2] \in Nodes
        BY <1>2, <1>5, PlainParts, Operands
    <2>2. k \in Nat /\ EvalLiteral(node.args[2]) = k
        BY <2>1, NodesAssumption DEF IsNode, EvalLiteral
    <2>3. /\ filter.kind = "match" /\ filter.x.path = node.args[1].x /\ filter.x.op = node.x
          /\ filter.x.value = k
        <3>1. filter = Node("match", [path |-> FieldName(node.args[1]), op |-> node.x,
                                      value |-> EvalLiteral(node.args[2])], <<>>)
            BY <1>2, <1>5, FilterOfNode
        <3> QED BY <1>4, <1>5, <2>2, <3>1 DEF Node
    <2>4. NodeText \notin {row[f], k}
        BY <1>5, <2>2 DEF NodeText
    <2>5. At(filter.x.path, row, <<>>) = <<row[f]>>
        BY <1>4, <1>5, <2>3
    <2>6. <<row[f]>> # <<>> /\ <<row[f]>>[1] = row[f]
        OBVIOUS
    <2> HIDE DEF filter, parts, M, f, k
    <2>7. MatchesAt(filter, row, <<>>, parts) <=> Ordered(filter.x.op, row[f], k)
        BY <2>3, <2>4, <2>5, <2>6, Zenon DEF MatchesAt
    <2> QED BY <1>1, <2>3, <2>7
<1>6. ASSUME node.kind \in {"is_null", "is_not_null"}, f \in DOMAIN row
      PROVE  M(node) <=> node.kind = "is_not_null"
    <2>1. /\ filter.kind = "exists" /\ filter.x.path = node.args[1].x
          /\ filter.x.wanted = (node.kind = "is_not_null")
        <3>1. filter = Node("exists", [path |-> FieldName(node.args[1]),
                                       wanted |-> node.kind = "is_not_null"], <<>>)
            BY <1>2, <1>6, FilterOfNode
        <3> QED BY <1>4, <1>6, <3>1 DEF Node
    <2>2. At(filter.x.path, row, <<>>) = <<row[f]>>
        BY <1>4, <1>6, <2>1
    <2>3. <<row[f]>> # <<>>
        OBVIOUS
    <2> HIDE DEF filter, parts, M, f
    <2>4. MatchesAt(filter, row, <<>>, parts) = ((At(filter.x.path, row, <<>>) # <<>>) = filter.x.wanted)
        BY <2>1 DEF MatchesAt
    <2> QED BY <1>1, <2>1, <2>2, <2>3, <2>4
<1>7. ASSUME node.kind \in {"and", "or"}
      PROVE  /\ node.kind = "and" => (M(node) <=> M(node.args[1]) /\ M(node.args[2]))
             /\ node.kind = "or" => (M(node) <=> M(node.args[1]) \/ M(node.args[2]))
    <2>1. filter.kind = node.kind /\ filter.args = <<FilterOf(node.args[1]), FilterOf(node.args[2])>>
        <3>1. filter = Node(node.kind, node.x, <<FilterOf(node.args[1]), FilterOf(node.args[2])>>)
            BY <1>2, <1>7, FilterOfNode
        <3> QED BY <3>1 DEF Node
    <2>2. parts[1] = M(node.args[1]) /\ parts[2] = M(node.args[2])
        <3>1. /\ DOMAIN filter.args = 1..2
              /\ filter.args[1] = FilterOf(node.args[1]) /\ filter.args[2] = FilterOf(node.args[2])
            BY <2>1
        <3> HIDE DEF filter
        <3> QED BY <3>1
    <2> HIDE DEF filter, parts, M
    <2>3. /\ node.kind = "and" => MatchesAt(filter, row, <<>>, parts) = (parts[1] /\ parts[2])
          /\ node.kind = "or" => MatchesAt(filter, row, <<>>, parts) = (parts[1] \/ parts[2])
        BY <2>1 DEF MatchesAt
    <2> QED BY <1>1, <2>2, <2>3
<1>8. ASSUME node.kind = "not"
      PROVE  M(node) <=> ~M(node.args[1])
    <2>1. filter.kind = "not" /\ filter.args = <<FilterOf(node.args[1])>>
        <3>1. filter = Node("not", node.x, <<FilterOf(node.args[1])>>)
            BY <1>2, <1>8, FilterOfNode
        <3> QED BY <3>1 DEF Node
    <2>2. parts[1] = M(node.args[1])
        <3>1. DOMAIN filter.args = 1..1 /\ filter.args[1] = FilterOf(node.args[1])
            BY <2>1
        <3> HIDE DEF filter
        <3> QED BY <3>1
    <2> HIDE DEF filter, parts, M
    <2>3. MatchesAt(filter, row, <<>>, parts) = ~parts[1]
        BY <2>1 DEF MatchesAt
    <2> QED BY <1>1, <2>2, <2>3
<1> HIDE DEF M, f, k
<1>9. /\ node.kind = "true" => M(node)
      /\ node.kind = "compare" /\ f \in DOMAIN row /\ row[f] \in Nat =>
            (M(node) <=> Ordered(node.x, row[f], k))
      /\ node.kind \in {"is_null", "is_not_null"} /\ f \in DOMAIN row =>
            (M(node) <=> node.kind = "is_not_null")
      /\ node.kind = "and" => (M(node) <=> M(node.args[1]) /\ M(node.args[2]))
      /\ node.kind = "or" => (M(node) <=> M(node.args[1]) \/ M(node.args[2]))
      /\ node.kind = "not" => (M(node) <=> ~M(node.args[1]))
    BY <1>3, <1>5, <1>6, <1>7, <1>8
<1> QED BY <1>9 DEF M, f, k

\* The rows in which a condition finds numbers only.
Numbers(node, row) == \A parts \in RefsIn(node) : parts[1] \in DOMAIN row /\ row[parts[1]] \in Nat

\* The filter of a condition of fields and literals matches the documents the
\* condition is true of, if they have numbers in its fields.
LEMMA FilterMeans ==
    ASSUME NEW node \in Plain, NEW row \in Rows, Numbers(node, row)
    PROVE  /\ TruthOf(node, Single("row", row)) \in {"true", "false"}
           /\ FilterMatches(FilterOf(node), row, <<>>)
                <=> TruthOf(node, Single("row", row)) = "true"
<1> DEFINE T(n) == TruthOf(n, Single("row", row))
           M(n) == FilterMatches(FilterOf(n), row, <<>>)
           Good(n) == T(n) \in {"true", "false"} /\ (M(n) <=> T(n) = "true")
           S == {n \in Nodes : n \in Plain /\ Numbers(n, row) => Good(n)}
<1>1. ASSUME NEW n \in Nodes, \A i \in DOMAIN n.args : n.args[i] \in S,
             n \in Plain, Numbers(n, row)
      PROVE  Good(n)
    <2> DEFINE f == n.args[1].x[1]
               k == n.args[2].x
    <2>1. CASE n.kind = "true"
        <3>1. T(n) = "true"
            BY <1>1, <2>1, TruthOfNode
        <3>2. M(n)
            BY <1>1, <2>1, MatchesOfNode
        <3> HIDE DEF T, M
        <3> QED BY <3>1, <3>2
    <2>2. ASSUME n.kind \in {"compare", "is_null", "is_not_null"}
          PROVE  f \in DOMAIN row /\ row[f] \in Nat /\ FieldOf(row, f) = row[f]
        <3>1. BareField(n.args[1]) /\ n.args[1] \in Nodes
            BY <1>1, <2>2, PlainParts, Operands
        <3>2. n.args[1].x \in RefsIn(n.args[1])
            BY <3>1, RefsOfNode DEF BareField
        <3>3. n.args[1].x \in RefsIn(n)
            BY <1>1, <2>2, <3>2, RefsOfNode
        <3> QED BY <1>1, <3>3 DEF Numbers, FieldOf
    <2>3. CASE n.kind = "compare"
        <3>1. IsLiteral(n.args[2]) /\ n.args[2] \in Nodes
            BY <1>1, <2>3, PlainParts, Operands
        <3>2. k \in Nat
            BY <3>1, NodesAssumption DEF IsNode
        <3>3. T(n) = IF Null \in {row[f], k} THEN "null" ELSE Verdict(Ordered(n.x, row[f], k))
            BY <1>1, <2>2, <2>3, TruthOfNode
        <3>4. M(n) <=> Ordered(n.x, row[f], k)
            BY <1>1, <2>2, <2>3, MatchesOfNode
        <3>5. Null \notin {row[f], k}
            BY <2>2, <2>3, <3>2 DEF Null
        <3> HIDE DEF T, M, f, k
        <3> QED BY <3>3, <3>4, <3>5 DEF Verdict
    <2>4. CASE n.kind \in {"is_null", "is_not_null"}
        <3>1. /\ n.kind = "is_null" => T(n) = Verdict(row[f] = Null)
              /\ n.kind = "is_not_null" => T(n) = Verdict(row[f] # Null)
            BY <1>1, <2>2, <2>4, TruthOfNode
        <3>2. M(n) <=> n.kind = "is_not_null"
            BY <1>1, <2>2, <2>4, MatchesOfNode
        <3>3. row[f] # Null
            BY <2>2, <2>4 DEF Null
        <3> HIDE DEF T, M, f
        <3> QED BY <2>4, <3>1, <3>2, <3>3 DEF Verdict
    <2>5. CASE n.kind \in {"and", "or"}
        <3>1. /\ n.args[1] \in S /\ n.args[1] \in Plain /\ n.args[1] \in Nodes
              /\ n.args[2] \in S /\ n.args[2] \in Plain /\ n.args[2] \in Nodes
            BY <1>1, <2>5, PlainParts, Operands
        <3>2. Numbers(n.args[1], row) /\ Numbers(n.args[2], row)
            BY <1>1, <2>5, RefsOfNode DEF Numbers
        <3>3. Good(n.args[1]) /\ Good(n.args[2])
            BY <3>1, <3>2
        <3>4. /\ n.kind = "and" => T(n) =
                    IF "false" \in {T(n.args[1]), T(n.args[2])} THEN "false"
                    ELSE IF "null" \in {T(n.args[1]), T(n.args[2])} THEN "null" ELSE "true"
              /\ n.kind = "or" => T(n) =
                    IF "true" \in {T(n.args[1]), T(n.args[2])} THEN "true"
                    ELSE IF "null" \in {T(n.args[1]), T(n.args[2])} THEN "null" ELSE "false"
            BY <1>1, TruthOfNode
        <3>5. /\ n.kind = "and" => (M(n) <=> M(n.args[1]) /\ M(n.args[2]))
              /\ n.kind = "or" => (M(n) <=> M(n.args[1]) \/ M(n.args[2]))
            BY <1>1, MatchesOfNode
        <3> HIDE DEF T, M
        <3> QED BY <2>5, <3>3, <3>4, <3>5
    <2>6. CASE n.kind = "not"
        <3>1. n.args[1] \in S /\ n.args[1] \in Plain /\ n.args[1] \in Nodes
            BY <1>1, <2>6, PlainParts, Operands
        <3>2. Numbers(n.args[1], row)
            BY <1>1, <2>6, RefsOfNode DEF Numbers
        <3>3. Good(n.args[1])
            BY <3>1, <3>2
        <3>4. T(n) = IF T(n.args[1]) = "null" THEN "null" ELSE Verdict(T(n.args[1]) = "false")
            BY <1>1, <2>6, TruthOfNode
        <3>5. M(n) <=> ~M(n.args[1])
            BY <1>1, <2>6, MatchesOfNode
        <3> HIDE DEF T, M
        <3> QED BY <3>3, <3>4, <3>5 DEF Verdict
    <2> HIDE DEF Good, S
    <2> QED BY <1>1, <2>1, <2>3, <2>4, <2>5, <2>6, PlainParts
<1>2. ASSUME NEW n \in Nodes, \A i \in DOMAIN n.args : n.args[i] \in S
      PROVE  n \in S
    <2> HIDE DEF Good
    <2> QED BY <1>1, <1>2
<1> HIDE DEF S
<1>3. Nodes \subseteq S
    BY <1>2, NodeInduction
<1>4. node \in Nodes
    BY DEF Plain
<1> QED BY <1>3, <1>4 DEF S

-----------------------------------------------------------------------------
\* Neo4j

\* The Cypher of a condition about a node n.
Cypher(node) == CypherOf(node, "n")
\* The property of a node a bare field becomes.
Property(node) == VariableRef(<<"n", node.x[1]>>)

\* The path of a bare field after its alias.
LEMMA PrefixedOne ==
    ASSUME NEW T, NEW e \in T, NEW s \in Seq(T), Len(s) = 1
    PROVE  <<e>> \o s = <<e, s[1]>>
<1> DEFINE t == <<e>> \o s
           u == <<e, s[1]>>
<1>1. /\ t \in Seq(T) /\ t # <<>> /\ Len(t) = Len(s) + 1 /\ Head(t) = e
      /\ \A i \in 1..Len(s) : t[i + 1] = s[i]
    BY Prefixed
<1>2. u \in Seq(T) /\ Len(u) = 2 /\ u[1] = e /\ u[2] = s[1]
    <2>1. s[1] \in T
        OBVIOUS
    <2> QED BY <2>1
<1> HIDE DEF t, u
<1>3. t[1] = e /\ t[2] = s[1] /\ Len(t) = 2
    BY <1>1
<1>4. \A i \in 1..Len(t) : t[i] = u[i]
    BY <1>1, <1>2, <1>3
<1>5. t = u
    BY <1>1, <1>2, <1>4, SeqEqual
<1> QED BY <1>5 DEF t, u

\* The operands of a comparison, in Cypher.
LEMMA NeoOperands ==
    ASSUME NEW node \in Nodes
    PROVE  /\ BareField(node) => NeoExpr(node, "n", NoParams) = [text |-> Property(node), params |-> NoParams]
           /\ node.kind = "int" => NeoExpr(node, "n", NoParams) =
                [text |-> Node("param", 0, <<>>), params |-> Single(0, node.x)]
           /\ node.kind = "bool" => NeoExpr(node, "n", NoParams) = [text |-> node, params |-> NoParams]
<1>1. ASSUME BareField(node)
      PROVE  NeoExpr(node, "n", NoParams) = [text |-> Property(node), params |-> NoParams]
    <2>1. node.kind = "ref" /\ node.x \in Seq(STRING) /\ Len(node.x) = 1
        BY <1>1, NodesAssumption DEF BareField, IsNode
    <2>2. <<"n">> \o node.x = <<"n", node.x[1]>>
        <3> DEFINE T == STRING \union {"n"}
        <3>1. "n" \in T /\ node.x \in Seq(T)
            BY <2>1, SeqMonotonic
        <3> HIDE DEF T
        <3> QED BY <2>1, <3>1, PrefixedOne
    <2> QED BY <2>1, <2>2 DEF NeoExpr, Property
<1>2. ASSUME node.kind = "int"
      PROVE  NeoExpr(node, "n", NoParams) =
                [text |-> Node("param", 0, <<>>), params |-> Single(0, node.x)]
    <2>1. DOMAIN NoParams = {}
        BY DEF NoParams
    <2>2. Cardinality(DOMAIN NoParams) = 0
        BY <2>1, FS_EmptySet
    <2>3. Over(Single(0, node.x), NoParams) = Single(0, node.x)
        BY <2>1 DEF Over, Single
    <2> QED BY <1>2, <2>2, <2>3 DEF NeoExpr
<1>3. ASSUME node.kind = "bool"
      PROVE  NeoExpr(node, "n", NoParams) = [text |-> node, params |-> NoParams]
    BY <1>3 DEF NeoExpr
<1> QED BY <1>1, <1>2, <1>3

\* The Cypher of a condition of fields and literals.
LEMMA CypherOfNode ==
    ASSUME NEW node \in Plain
    PROVE  /\ node.kind = "true" => Cypher(node).text = True /\ Cypher(node).params = NoParams
           /\ node.kind \in {"is_null", "is_not_null"} =>
                /\ Cypher(node).text = Node(node.kind, node.x, <<Property(node.args[1])>>)
                /\ Cypher(node).params = NoParams
           /\ node.kind = "compare" /\ node.args[2].kind = "int" =>
                /\ Cypher(node).text =
                    Node(node.kind, node.x, <<Property(node.args[1]), Node("param", 0, <<>>)>>)
                /\ Cypher(node).params = Single(0, node.args[2].x)
           /\ node.kind = "compare" /\ node.args[2].kind = "bool" =>
                /\ Cypher(node).text = Node(node.kind, node.x, <<Property(node.args[1]), node.args[2]>>)
                /\ Cypher(node).params = NoParams
           /\ node.kind \in {"and", "or"} =>
                /\ Cypher(node).text =
                    Node(node.kind, node.x, <<Cypher(node.args[1]).text, Cypher(node.args[2]).text>>)
                /\ Cypher(node).params = Over(Cypher(node.args[2]).params, Cypher(node.args[1]).params)
           /\ node.kind = "not" =>
                /\ Cypher(node).text = Node(node.kind, node.x, <<Cypher(node.args[1]).text>>)
                /\ Cypher(node).params = Over(Cypher(node.args[1]).params, Cypher(node.args[1]).params)
<1> DEFINE parts == [i \in DOMAIN node.args |-> Cypher(node.args[i])]
<1>1. node \in Nodes
    BY DEF Plain
<1>2. Cypher(node) = CypherAt(node, "n", parts)
    BY <1>1, TranslationAssumption DEF Cypher
<1>3. ASSUME node.kind = "true"
      PROVE  Cypher(node).text = True /\ Cypher(node).params = NoParams
    <2> HIDE DEF parts
    <2> QED BY <1>2, <1>3 DEF CypherAt
<1>4. ASSUME node.kind \in {"compare", "is_null", "is_not_null"}
      PROVE  NeoExpr(node.args[1], "n", NoParams) = [text |-> Property(node.args[1]), params |-> NoParams]
    <2>1. BareField(node.args[1]) /\ node.args[1] \in Nodes
        BY <1>1, <1>4, PlainParts, Operands
    <2> QED BY <2>1, NeoOperands
<1>5. ASSUME node.kind \in {"is_null", "is_not_null"}
      PROVE  /\ Cypher(node).text = Node(node.kind, node.x, <<Property(node.args[1])>>)
             /\ Cypher(node).params = NoParams
    <2> DEFINE operand == NeoExpr(node.args[1], "n", NoParams)
    <2>1. operand.text = Property(node.args[1]) /\ operand.params = NoParams
        BY <1>4, <1>5
    <2> HIDE DEF parts, operand
    <2>2. Cypher(node) = [text |-> [node EXCEPT !.args = <<operand.text>>], params |-> operand.params]
        BY <1>2, <1>5 DEF CypherAt, operand
    <2>3. [node EXCEPT !.args = <<operand.text>>] = Node(node.kind, node.x, <<operand.text>>)
        BY <1>1, NodeChanged
    <2> QED BY <2>1, <2>2, <2>3
<1>6. ASSUME node.kind = "compare"
      PROVE  LET right == NeoExpr(node.args[2], "n", NoParams)
             IN  /\ Cypher(node).text = Node(node.kind, node.x, <<Property(node.args[1]), right.text>>)
                 /\ Cypher(node).params = right.params
    <2> DEFINE left == NeoExpr(node.args[1], "n", NoParams)
               right == NeoExpr(node.args[2], "n", left.params)
    <2>1. left.text = Property(node.args[1]) /\ left.params = NoParams
        BY <1>4, <1>6
    <2> HIDE DEF parts, left, right
    <2>2. Cypher(node) = [text |-> [node EXCEPT !.args = <<left.text, right.text>>], params |-> right.params]
        BY <1>2, <1>6 DEF CypherAt, left, right
    <2>3. [node EXCEPT !.args = <<left.text, right.text>>]
            = Node(node.kind, node.x, <<left.text, right.text>>)
        BY <1>1, NodeChanged
    <2>4. right = NeoExpr(node.args[2], "n", NoParams)
        BY <2>1 DEF right
    <2> QED BY <2>1, <2>2, <2>3, <2>4
<1>7. node.kind = "compare" => node.args[2] \in Nodes
    BY <1>1, Operands
<1>8. ASSUME node.kind = "compare", node.args[2].kind = "int"
      PROVE  /\ Cypher(node).text =
                    Node(node.kind, node.x, <<Property(node.args[1]), Node("param", 0, <<>>)>>)
             /\ Cypher(node).params = Single(0, node.args[2].x)
    <2> DEFINE right == NeoExpr(node.args[2], "n", NoParams)
    <2>1. right = [text |-> Node("param", 0, <<>>), params |-> Single(0, node.args[2].x)]
        BY <1>7, <1>8, NeoOperands
    <2>2. /\ Cypher(node).text = Node(node.kind, node.x, <<Property(node.args[1]), right.text>>)
          /\ Cypher(node).params = right.params
        BY <1>6, <1>8
    <2> HIDE DEF right
    <2> QED BY <2>1, <2>2
<1>9. ASSUME node.kind = "compare", node.args[2].kind = "bool"
      PROVE  /\ Cypher(node).text = Node(node.kind, node.x, <<Property(node.args[1]), node.args[2]>>)
             /\ Cypher(node).params = NoParams
    <2> DEFINE right == NeoExpr(node.args[2], "n", NoParams)
    <2>1. right = [text |-> node.args[2], params |-> NoParams]
        BY <1>7, <1>9, NeoOperands
    <2>2. /\ Cypher(node).text = Node(node.kind, node.x, <<Property(node.args[1]), right.text>>)
          /\ Cypher(node).params = right.params
        BY <1>6, <1>9
    <2> HIDE DEF right
    <2> QED BY <2>1, <2>2
<1>10. ASSUME node.kind \in {"and", "or", "not"}
       PROVE  /\ Cypher(node).text = Node(node.kind, node.x, [i \in DOMAIN parts |-> parts[i].text])
              /\ Cypher(node).params = Over(Last(parts).params, parts[1].params)
    <2> HIDE DEF parts
    <2>1. Cypher(node) = [text |-> [node EXCEPT !.args = [i \in DOMAIN parts |-> parts[i].text]],
                          params |-> Over(Last(parts).params, parts[1].params)]
        BY <1>2, <1>10, Zenon DEF CypherAt
    <2>2. [node EXCEPT !.args = [i \in DOMAIN parts |-> parts[i].text]]
            = Node(node.kind, node.x, [i \in DOMAIN parts |-> parts[i].text])
        BY <1>1, NodeChanged
    <2> QED BY <2>1, <2>2
<1>11. ASSUME node.kind \in {"and", "or"}
       PROVE  /\ Cypher(node).text =
                    Node(node.kind, node.x, <<Cypher(node.args[1]).text, Cypher(node.args[2]).text>>)
              /\ Cypher(node).params = Over(Cypher(node.args[2]).params, Cypher(node.args[1]).params)
    <2>1. DOMAIN node.args = 1..2
        BY <1>1, <1>11, Operands
    <2>2. /\ [i \in DOMAIN parts |-> parts[i].text]
                = <<Cypher(node.args[1]).text, Cypher(node.args[2]).text>>
          /\ parts[1] = Cypher(node.args[1]) /\ parts[2] = Cypher(node.args[2])
          /\ Len(parts) = 2
        BY <2>1
    <2> HIDE DEF parts
    <2>3. Last(parts) = parts[2]
        BY <2>2 DEF Last
    <2> QED BY <1>10, <1>11, <2>2, <2>3
<1>12. ASSUME node.kind = "not"
       PROVE  /\ Cypher(node).text = Node(node.kind, node.x, <<Cypher(node.args[1]).text>>)
              /\ Cypher(node).params = Over(Cypher(node.args[1]).params, Cypher(node.args[1]).params)
    <2>1. DOMAIN node.args = 1..1
        BY <1>1, <1>12, Operands
    <2>2. /\ [i \in DOMAIN parts |-> parts[i].text] = <<Cypher(node.args[1]).text>>
          /\ parts[1] = Cypher(node.args[1]) /\ Len(parts) = 1
        BY <2>1
    <2> HIDE DEF parts
    <2>3. Last(parts) = parts[1]
        BY <2>2 DEF Last
    <2> QED BY <1>10, <1>12, <2>2, <2>3
<1> HIDE DEF parts
<1> QED BY <1>3, <1>5, <1>8, <1>9, <1>11, <1>12

\* The dict gives each parameter of the Cypher of a condition its value.
Fits(dict, node) ==
    /\ dict \in CypherBindings(node)
    /\ \A key \in DOMAIN Cypher(node).params : dict[key] = Cypher(node).params[key]

\* The Cypher of a condition of fields and literals once its parameters are looked up.
LEMMA SuppliedOfNode ==
    ASSUME NEW node \in Plain, NEW dict \in CypherBindings(node)
    PROVE  LET B(n) == CypherBound(Cypher(n).text, dict)
           IN  /\ node.kind = "true" => B(node) = True
               /\ node.kind \in {"is_null", "is_not_null"} =>
                    B(node) = Node(node.kind, node.x, <<Property(node.args[1])>>)
               /\ node.kind = "compare" /\ node.args[2].kind = "int" =>
                    B(node) = Node(node.kind, node.x,
                                   <<Property(node.args[1]), IntegerLiteral(dict[0])>>)
               /\ node.kind = "compare" /\ node.args[2].kind = "bool" =>
                    B(node) = Node(node.kind, node.x, <<Property(node.args[1]), node.args[2]>>)
               /\ node.kind \in {"and", "or"} =>
                    B(node) = Node(node.kind, node.x, <<B(node.args[1]), B(node.args[2])>>)
               /\ node.kind = "not" => B(node) = Node(node.kind, node.x, <<B(node.args[1])>>)
<1> DEFINE B(n) == CypherBound(Cypher(n).text, dict)
           text == Cypher(node).text
           Parts(t) == [i \in DOMAIN t.args |-> CypherBound(t.args[i], dict)]
<1>1. \A t \in {text} \union Range(text.args) : CypherBound(t, dict) = SuppliedAt(t, dict, Parts(t))
    BY EvaluationAssumption DEF Cypher
<1>2. ASSUME NEW t, NEW args, t = Node(t.kind, t.x, args), t.kind # "param",
             CypherBound(t, dict) = SuppliedAt(t, dict, Parts(t))
      PROVE  CypherBound(t, dict) =
                Node(t.kind, t.x, [i \in DOMAIN args |-> CypherBound(args[i], dict)])
    <2>1. t.args = args /\ \A other : [t EXCEPT !.args = other] = Node(t.kind, t.x, other)
        <3> DEFINE k == t.kind
                   x == t.x
        <3>1. t = Node(k, x, args)
            BY <1>2
        <3> HIDE DEF k, x
        <3>2. t.args = args /\ \A other : [t EXCEPT !.args = other] = Node(k, x, other)
            BY <3>1 DEF Node
        <3> QED BY <3>2 DEF k, x
    <2>2. SuppliedAt(t, dict, Parts(t)) = [t EXCEPT !.args = [i \in DOMAIN args |-> Parts(t)[i]]]
        <3> HIDE DEF Parts
        <3> QED BY <1>2, <2>1 DEF SuppliedAt
    <2>3. [i \in DOMAIN args |-> Parts(t)[i]] = [i \in DOMAIN args |-> CypherBound(args[i], dict)]
        BY <2>1
    <2> HIDE DEF Parts
    <2> QED BY <1>2, <2>1, <2>2, <2>3
<1>3. ASSUME NEW args, text = Node(node.kind, node.x, args)
      PROVE  /\ B(node) = Node(node.kind, node.x, [i \in DOMAIN args |-> CypherBound(args[i], dict)])
             /\ \A i \in DOMAIN args :
                    CypherBound(args[i], dict) = SuppliedAt(args[i], dict, Parts(args[i]))
    <2>1. text.kind = node.kind /\ text.x = node.x /\ text.args = args
        <3> HIDE DEF text
        <3> QED BY <1>3 DEF Node
    <2>2. node.kind # "param"
        BY PlainParts
    <2>3. CypherBound(text, dict) = SuppliedAt(text, dict, Parts(text))
        BY <1>1
    <2>4. \A i \in DOMAIN args : args[i] \in Range(text.args)
        BY <2>1 DEF Range
    <2> HIDE DEF text, Parts
    <2>5. CypherBound(text, dict) =
                Node(text.kind, text.x, [i \in DOMAIN args |-> CypherBound(args[i], dict)])
        BY <1>2, <1>3, <2>1, <2>2, <2>3
    <2>6. B(node) = CypherBound(text, dict)
        BY DEF text
    <2> HIDE DEF B
    <2> QED BY <1>1, <2>1, <2>4, <2>5, <2>6
<1>4. ASSUME NEW ref, CypherBound(Property(ref), dict) = SuppliedAt(Property(ref), dict, Parts(Property(ref)))
      PROVE  CypherBound(Property(ref), dict) = Property(ref)
    <2> DEFINE t == Property(ref)
    <2>1. t.kind = "ref" /\ t.args = <<>> /\ t = Node(t.kind, t.x, <<>>)
        BY DEF Property, VariableRef, Node
    <2> HIDE DEF t, Parts
    <2>2. CypherBound(t, dict) = SuppliedAt(t, dict, Parts(t))
        BY <1>4 DEF t
    <2>3. CypherBound(t, dict) = Node(t.kind, t.x, [i \in DOMAIN <<>> |-> CypherBound(<<>>[i], dict)])
        BY <1>2, <2>1, <2>2
    <2>4. [i \in DOMAIN <<>> |-> CypherBound(<<>>[i], dict)] = <<>>
        OBVIOUS
    <2> QED BY <2>1, <2>3, <2>4 DEF t
<1> HIDE DEF Parts
<1>5. ASSUME node.kind = "true"
      PROVE  B(node) = True
    <2>1. text = True
        BY <1>5, CypherOfNode
    <2>2. CypherBound(True, dict) = SuppliedAt(True, dict, Parts(True))
        BY <1>1, <2>1
    <2>3. True.kind = "true" /\ True.args = <<>> /\ True = Node(True.kind, True.x, <<>>)
        BY DEF True, Node
    <2>4. CypherBound(True, dict)
            = Node(True.kind, True.x, [i \in DOMAIN <<>> |-> CypherBound(<<>>[i], dict)])
        BY <1>2, <2>2, <2>3
    <2>5. [i \in DOMAIN <<>> |-> CypherBound(<<>>[i], dict)] = <<>>
        OBVIOUS
    <2> QED BY <2>1, <2>3, <2>4, <2>5
<1>6. ASSUME node.kind \in {"is_null", "is_not_null"}
      PROVE  B(node) = Node(node.kind, node.x, <<Property(node.args[1])>>)
    <2> DEFINE args == <<Property(node.args[1])>>
    <2>1. text = Node(node.kind, node.x, args)
        BY <1>6, CypherOfNode
    <2>2. DOMAIN args = 1..1 /\ args[1] = Property(node.args[1])
        OBVIOUS
    <2> HIDE DEF text, B
    <2>3. /\ B(node) = Node(node.kind, node.x, [i \in DOMAIN args |-> CypherBound(args[i], dict)])
          /\ \A i \in DOMAIN args : CypherBound(args[i], dict) = SuppliedAt(args[i], dict, Parts(args[i]))
        BY <1>3, <2>1
    <2> HIDE DEF args
    <2>4. CypherBound(args[1], dict) = args[1]
        BY <1>4, <2>2, <2>3
    <2>5. [i \in DOMAIN args |-> CypherBound(args[i], dict)] = <<Property(node.args[1])>>
        BY <2>2, <2>4
    <2> QED BY <2>3, <2>5
<1>7. ASSUME node.kind = "compare", node.args[2].kind = "int"
      PROVE  B(node) = Node(node.kind, node.x, <<Property(node.args[1]), IntegerLiteral(dict[0])>>)
    <2> DEFINE param == Node("param", 0, <<>>)
               args == <<Property(node.args[1]), param>>
    <2>1. text = Node(node.kind, node.x, args)
        BY <1>7, CypherOfNode
    <2>2. DOMAIN args = 1..2 /\ args[1] = Property(node.args[1]) /\ args[2] = param
        OBVIOUS
    <2>3. param.kind = "param" /\ param.x = 0
        BY DEF Node
    <2> HIDE DEF text, B, param
    <2>4. /\ B(node) = Node(node.kind, node.x, [i \in DOMAIN args |-> CypherBound(args[i], dict)])
          /\ \A i \in DOMAIN args : CypherBound(args[i], dict) = SuppliedAt(args[i], dict, Parts(args[i]))
        BY <1>3, <2>1
    <2> HIDE DEF args
    <2>5. CypherBound(args[1], dict) = args[1]
        BY <1>4, <2>2, <2>4
    <2>6. CypherBound(args[2], dict) = IntegerLiteral(dict[0])
        BY <2>2, <2>3, <2>4 DEF SuppliedAt
    <2>7. [i \in DOMAIN args |-> CypherBound(args[i], dict)]
            = <<Property(node.args[1]), IntegerLiteral(dict[0])>>
        BY <2>2, <2>5, <2>6
    <2> QED BY <2>4, <2>7
<1>8. ASSUME node.kind = "compare", node.args[2].kind = "bool"
      PROVE  B(node) = Node(node.kind, node.x, <<Property(node.args[1]), node.args[2]>>)
    <2> DEFINE right == node.args[2]
               args == <<Property(node.args[1]), right>>
    <2>1. text = Node(node.kind, node.x, args)
        BY <1>8, CypherOfNode
    <2>2. DOMAIN args = 1..2 /\ args[1] = Property(node.args[1]) /\ args[2] = right
        OBVIOUS
    <2>3. right \in Nodes
        BY <1>8, Operands DEF Plain
    <2>4. right.kind = "bool" /\ right = Node(right.kind, right.x, <<>>)
        <3>1. right.args = <<>>
            BY <1>8, <2>3, Operands
        <3> HIDE DEF right
        <3>2. right = Node(right.kind, right.x, right.args)
            BY <2>3, NodesAssumption DEF IsNode
        <3> QED BY <1>8, <3>1, <3>2 DEF right
    <2> HIDE DEF text, B, right
    <2>5. /\ B(node) = Node(node.kind, node.x, [i \in DOMAIN args |-> CypherBound(args[i], dict)])
          /\ \A i \in DOMAIN args : CypherBound(args[i], dict) = SuppliedAt(args[i], dict, Parts(args[i]))
        BY <1>3, <2>1
    <2> HIDE DEF args
    <2>6. CypherBound(args[1], dict) = args[1]
        BY <1>4, <2>2, <2>5
    <2>7. CypherBound(right, dict) = right
        <3>1. CypherBound(right, dict) = SuppliedAt(right, dict, Parts(right))
            BY <2>2, <2>5
        <3>2. CypherBound(right, dict)
                = Node(right.kind, right.x, [i \in DOMAIN <<>> |-> CypherBound(<<>>[i], dict)])
            BY <1>2, <2>4, <3>1
        <3>3. [i \in DOMAIN <<>> |-> CypherBound(<<>>[i], dict)] = <<>>
            OBVIOUS
        <3> QED BY <2>4, <3>2, <3>3
    <2>8. [i \in DOMAIN args |-> CypherBound(args[i], dict)] = <<Property(node.args[1]), right>>
        BY <2>2, <2>6, <2>7
    <2> QED BY <2>5, <2>8 DEF right
<1>9. ASSUME node.kind \in {"and", "or"}
      PROVE  B(node) = Node(node.kind, node.x, <<B(node.args[1]), B(node.args[2])>>)
    <2> DEFINE args == <<Cypher(node.args[1]).text, Cypher(node.args[2]).text>>
    <2>1. text = Node(node.kind, node.x, args)
        BY <1>9, CypherOfNode
    <2>2. B(node) = Node(node.kind, node.x, [i \in DOMAIN args |-> CypherBound(args[i], dict)])
        <3> HIDE DEF text, B, args
        <3> QED BY <1>3, <2>1
    <2>3. [i \in DOMAIN args |-> CypherBound(args[i], dict)] = <<B(node.args[1]), B(node.args[2])>>
        OBVIOUS
    <2> HIDE DEF B, args
    <2> QED BY <2>2, <2>3
<1>10. ASSUME node.kind = "not"
       PROVE  B(node) = Node(node.kind, node.x, <<B(node.args[1])>>)
    <2> DEFINE args == <<Cypher(node.args[1]).text>>
    <2>1. text = Node(node.kind, node.x, args)
        BY <1>10, CypherOfNode
    <2>2. B(node) = Node(node.kind, node.x, [i \in DOMAIN args |-> CypherBound(args[i], dict)])
        <3> HIDE DEF text, B, args
        <3> QED BY <1>3, <2>1
    <2>3. [i \in DOMAIN args |-> CypherBound(args[i], dict)] = <<B(node.args[1])>>
        OBVIOUS
    <2> HIDE DEF B, args
    <2> QED BY <2>2, <2>3
<1> QED BY <1>5, <1>6, <1>7, <1>8, <1>9, <1>10

Ints(node) == Len(LeavesIn(node, "int"))

\* The numbers of a condition.
LEMMA IntsOfNode ==
    ASSUME NEW node \in Plain
    PROVE  /\ Ints(node) \in Nat
           /\ node.kind \in {"true", "is_null", "is_not_null"} => Ints(node) = 0
           /\ node.kind = "compare" => Ints(node) = IF node.args[2].kind = "int" THEN 1 ELSE 0
           /\ node.kind \in {"and", "or"} => Ints(node) = Ints(node.args[1]) + Ints(node.args[2])
           /\ node.kind = "not" => Ints(node) = Ints(node.args[1])
<1>1. node \in Nodes
    BY DEF Plain
<1>2. \A n \in Nodes : LeavesIn(n, "int") \in Seq(Nodes) /\ Ints(n) \in Nat
    BY LeavesAreNodes DEF Ints
<1>3. ASSUME node.kind \in {"and", "or", "compare"}
      PROVE  Ints(node) = Ints(node.args[1]) + Ints(node.args[2])
    <2> DEFINE s == LeavesIn(node.args[1], "int")
               t == LeavesIn(node.args[2], "int")
    <2>1. s \in Seq(Nodes) /\ t \in Seq(Nodes)
        BY <1>1, <1>2, <1>3, Operands
    <2>2. LeavesIn(node, "int") = s \o t
        BY <1>1, <1>3, LeavesOfNode
    <2> HIDE DEF s, t
    <2>3. Len(s \o t) = Len(s) + Len(t)
        BY <2>1, ConcatProperties
    <2> QED BY <2>2, <2>3 DEF Ints, s, t
<1>4. ASSUME node.kind \in {"not", "is_null", "is_not_null"}
      PROVE  Ints(node) = Ints(node.args[1])
    BY <1>1, <1>4, LeavesOfNode DEF Ints
<1>5. ASSUME NEW n \in Nodes, n.kind \in {"int", "bool", "ref", "true", "rel"}
      PROVE  Ints(n) = IF n.kind = "int" THEN 1 ELSE 0
    <2>1. LeavesIn(n, "int") = IF n.kind = "int" THEN <<n>> ELSE <<>>
        BY <1>5, LeavesOfNode
    <2>2. Len(<<n>>) = 1 /\ Len(<<>>) = 0
        OBVIOUS
    <2> QED BY <2>1, <2>2 DEF Ints
<1>6. ASSUME node.kind \in {"compare", "is_null", "is_not_null"}
      PROVE  Ints(node.args[1]) = 0
    <2>1. node.args[1] \in Nodes /\ node.args[1].kind = "ref"
        BY <1>1, <1>6, PlainParts, Operands DEF BareField
    <2> QED BY <1>5, <2>1
<1>7. ASSUME node.kind = "compare"
      PROVE  Ints(node.args[2]) = IF node.args[2].kind = "int" THEN 1 ELSE 0
    <2>1. node.args[2] \in Nodes /\ node.args[2].kind \in {"int", "bool"}
        BY <1>1, <1>7, PlainParts, Operands DEF IsLiteral
    <2> QED BY <1>5, <2>1
<1>8. node.kind = "true" => Ints(node) = 0
    BY <1>1, <1>5
<1> QED BY <1>1, <1>2, <1>3, <1>4, <1>6, <1>7, <1>8

\* {**g, **f} has the keys of both, and f's values where it has a key.
LEMMA OverProperties ==
    ASSUME NEW f, NEW g
    PROVE  /\ DOMAIN Over(f, g) = DOMAIN f \union DOMAIN g
           /\ \A key \in DOMAIN f : Over(f, g)[key] = f[key]
           /\ DOMAIN f = {} => \A key \in DOMAIN g : Over(f, g)[key] = g[key]
BY DEF Over

\* A condition without numbers has no parameters.
LEMMA NoIntsNoParams ==
    ASSUME NEW node \in Plain, Ints(node) = 0
    PROVE  DOMAIN Cypher(node).params = {}
<1> DEFINE S == {n \in Nodes : n \in Plain /\ Ints(n) = 0 => DOMAIN Cypher(n).params = {}}
<1>1. DOMAIN NoParams = {}
    BY DEF NoParams
<1>2. ASSUME NEW n \in Nodes, \A i \in DOMAIN n.args : n.args[i] \in S, n \in Plain, Ints(n) = 0
      PROVE  DOMAIN Cypher(n).params = {}
    <2>1. CASE n.kind \in {"true", "is_null", "is_not_null"}
        <3>1. Cypher(n).params = NoParams
            BY <1>2, <2>1, CypherOfNode
        <3> QED BY <1>1, <3>1
    <2>2. CASE n.kind = "compare"
        <3>1. n.args[2].kind = "bool"
            BY <1>2, <2>2, IntsOfNode, PlainParts DEF IsLiteral
        <3>2. Cypher(n).params = NoParams
            BY <1>2, <2>2, <3>1, CypherOfNode
        <3> QED BY <1>1, <3>2
    <2>3. CASE n.kind \in {"and", "or"}
        <3>1. /\ n.args[1] \in S /\ n.args[1] \in Plain
              /\ n.args[2] \in S /\ n.args[2] \in Plain
            BY <1>2, <2>3, PlainParts, Operands
        <3>2. Ints(n.args[1]) = 0 /\ Ints(n.args[2]) = 0
            <4>1. Ints(n.args[1]) \in Nat /\ Ints(n.args[2]) \in Nat
                BY <3>1, IntsOfNode
            <4>2. Ints(n.args[1]) + Ints(n.args[2]) = 0
                BY <1>2, <2>3, IntsOfNode
            <4> QED BY <4>1, <4>2
        <3>3. Cypher(n).params = Over(Cypher(n.args[2]).params, Cypher(n.args[1]).params)
            BY <1>2, <2>3, CypherOfNode
        <3>4. DOMAIN Cypher(n.args[1]).params = {} /\ DOMAIN Cypher(n.args[2]).params = {}
            BY <3>1, <3>2
        <3>5. DOMAIN Cypher(n).params
                = DOMAIN Cypher(n.args[2]).params \union DOMAIN Cypher(n.args[1]).params
            <4> DEFINE f == Cypher(n.args[2]).params
                       g == Cypher(n.args[1]).params
            <4>1. DOMAIN Over(f, g) = DOMAIN f \union DOMAIN g
                <5> HIDE DEF f, g
                <5> QED BY OverProperties
            <4> HIDE DEF S
            <4> QED BY <3>3, <4>1
        <3> QED BY <3>4, <3>5
    <2>4. CASE n.kind = "not"
        <3>1. n.args[1] \in S /\ n.args[1] \in Plain
            BY <1>2, <2>4, PlainParts, Operands
        <3>2. Ints(n.args[1]) = 0
            BY <1>2, <2>4, IntsOfNode
        <3>3. Cypher(n).params = Over(Cypher(n.args[1]).params, Cypher(n.args[1]).params)
            BY <1>2, <2>4, CypherOfNode
        <3>4. DOMAIN Cypher(n.args[1]).params = {}
            BY <3>1, <3>2
        <3>5. DOMAIN Cypher(n).params
                = DOMAIN Cypher(n.args[1]).params \union DOMAIN Cypher(n.args[1]).params
            <4> DEFINE f == Cypher(n.args[1]).params
            <4>1. DOMAIN Over(f, f) = DOMAIN f \union DOMAIN f
                <5> HIDE DEF f
                <5> QED BY OverProperties
            <4> HIDE DEF S
            <4> QED BY <3>3, <4>1
        <3> QED BY <3>4, <3>5
    <2> QED BY <1>2, <2>1, <2>2, <2>3, <2>4, PlainParts
<1>3. ASSUME NEW n \in Nodes, \A i \in DOMAIN n.args : n.args[i] \in S
      PROVE  n \in S
    BY <1>2, <1>3
<1> HIDE DEF S
<1>4. Nodes \subseteq S
    BY <1>3, NodeInduction
<1>5. node \in Nodes
    BY DEF Plain
<1> QED BY <1>4, <1>5 DEF S

\* Of the two sides of a condition with one number at most, one has no parameters:
\* a dict that fits the condition fits both.
LEMMA FitsParts ==
    ASSUME NEW node \in Plain, Ints(node) <= 1, NEW dict, Fits(dict, node),
           node.kind \in {"and", "or", "not"}
    PROVE  \A i \in DOMAIN node.args :
                /\ node.args[i] \in Plain /\ Ints(node.args[i]) <= 1 /\ Fits(dict, node.args[i])
<1>1. node \in Nodes
    BY DEF Plain
<1>2. dict \in Dicts /\ DOMAIN Cypher(node).params \subseteq DOMAIN dict
    BY DEF Fits, CypherBindings, Cypher
<1>3. \A key \in DOMAIN Cypher(node).params : dict[key] = Cypher(node).params[key]
    BY DEF Fits
<1>4. ASSUME NEW f, NEW g, Cypher(node).params = Over(f, g)
      PROVE  /\ DOMAIN Cypher(node).params = DOMAIN f \union DOMAIN g
             /\ \A key \in DOMAIN f : Cypher(node).params[key] = f[key]
             /\ DOMAIN f = {} => \A key \in DOMAIN g : Cypher(node).params[key] = g[key]
    <2>1. /\ DOMAIN Over(f, g) = DOMAIN f \union DOMAIN g
          /\ \A key \in DOMAIN f : Over(f, g)[key] = f[key]
          /\ DOMAIN f = {} => \A key \in DOMAIN g : Over(f, g)[key] = g[key]
        BY OverProperties
    <2> DEFINE h == Over(f, g)
    <2>2. Cypher(node).params = h
        BY <1>4
    <2> HIDE DEF h
    <2> QED BY <2>1, <2>2 DEF h
<1>5. ASSUME NEW n, DOMAIN Cypher(n).params \subseteq DOMAIN Cypher(node).params,
             \A key \in DOMAIN Cypher(n).params : Cypher(node).params[key] = Cypher(n).params[key]
      PROVE  Fits(dict, n)
    BY <1>2, <1>3, <1>5 DEF Fits, CypherBindings, Cypher
<1>6. CASE node.kind \in {"and", "or"}
    <2> DEFINE a == node.args[1]
               b == node.args[2]
    <2>1. a \in Plain /\ b \in Plain /\ DOMAIN node.args = 1..2
        BY <1>1, <1>6, PlainParts, Operands
    <2>2. Ints(a) \in Nat /\ Ints(b) \in Nat /\ Ints(a) + Ints(b) <= 1
        <3>1. Ints(node) = Ints(a) + Ints(b)
            BY <1>6, IntsOfNode
        <3>2. Ints(a) \in Nat /\ Ints(b) \in Nat
            BY <2>1, IntsOfNode
        <3> QED BY <3>1, <3>2
    <2>3. Cypher(node).params = Over(Cypher(b).params, Cypher(a).params)
        BY <1>6, CypherOfNode
    <2> DEFINE f == Cypher(b).params
               g == Cypher(a).params
    <2>7. /\ DOMAIN Cypher(node).params = DOMAIN f \union DOMAIN g
          /\ \A key \in DOMAIN f : Cypher(node).params[key] = f[key]
          /\ DOMAIN f = {} => \A key \in DOMAIN g : Cypher(node).params[key] = g[key]
        BY <1>4, <2>3
    <2> HIDE DEF a, b, f, g
    <2>4. Fits(dict, b)
        <3>1. /\ DOMAIN Cypher(b).params \subseteq DOMAIN Cypher(node).params
              /\ \A key \in DOMAIN Cypher(b).params : Cypher(node).params[key] = Cypher(b).params[key]
            BY <2>7 DEF f
        <3> QED BY <1>5, <3>1
    <2>5. Fits(dict, a)
        <3>1. DOMAIN Cypher(a).params \subseteq DOMAIN Cypher(node).params
            BY <2>7 DEF g
        <3>2. CASE Ints(a) = 0
            <4>1. DOMAIN Cypher(a).params = {}
                BY <2>1, <3>2, NoIntsNoParams
            <4> QED BY <1>5, <3>1, <4>1
        <3>3. CASE Ints(b) = 0
            <4>1. DOMAIN Cypher(b).params = {}
                BY <2>1, <3>3, NoIntsNoParams
            <4>2. \A key \in DOMAIN Cypher(a).params : Cypher(node).params[key] = Cypher(a).params[key]
                BY <2>7, <4>1 DEF f, g
            <4> QED BY <1>5, <3>1, <4>2
        <3> QED BY <2>2, <3>2, <3>3
    <2>6. Ints(a) <= 1 /\ Ints(b) <= 1
        BY <2>2
    <2> QED BY <2>1, <2>4, <2>5, <2>6 DEF a, b
<1>7. CASE node.kind = "not"
    <2>1. node.args[1] \in Plain /\ DOMAIN node.args = 1..1 /\ Ints(node) = Ints(node.args[1])
        BY <1>1, <1>7, PlainParts, Operands, IntsOfNode
    <2>2. Cypher(node).params = Over(Cypher(node.args[1]).params, Cypher(node.args[1]).params)
        BY <1>7, CypherOfNode
    <2>3. Fits(dict, node.args[1])
        <3>1. /\ DOMAIN Cypher(node.args[1]).params \subseteq DOMAIN Cypher(node).params
              /\ \A key \in DOMAIN Cypher(node.args[1]).params :
                    Cypher(node).params[key] = Cypher(node.args[1]).params[key]
            <4> DEFINE f == Cypher(node.args[1]).params
            <4>1. /\ DOMAIN Cypher(node).params = DOMAIN f \union DOMAIN f
                  /\ \A key \in DOMAIN f : Cypher(node).params[key] = f[key]
                BY <1>4, <2>2
            <4> HIDE DEF f
            <4>2. DOMAIN f \subseteq DOMAIN Cypher(node).params
                BY <4>1
            <4> QED BY <4>1, <4>2 DEF f
        <3> QED BY <1>5, <3>1
    <2> QED BY <2>1, <2>3
<1> QED BY <1>6, <1>7

\* The Cypher of a condition of fields and literals, with one number at most, is
\* true of the nodes the condition is true of.
LEMMA CypherMeans ==
    ASSUME NEW node \in Plain, Ints(node) <= 1, NEW dict, Fits(dict, node), NEW row \in Rows
    PROVE  TruthOf(CypherBound(Cypher(node).text, dict), Single("n", row))
                = TruthOf(node, Single("row", row))
<1> DEFINE B(n) == CypherBound(Cypher(n).text, dict)
           Same(n) == TruthOf(B(n), Single("n", row)) = TruthOf(n, Single("row", row))
           S == {n \in Nodes : n \in Plain /\ Ints(n) <= 1 /\ Fits(dict, n) => Same(n)}
<1>1. ASSUME NEW n \in Nodes, \A i \in DOMAIN n.args : n.args[i] \in S,
             n \in Plain, Ints(n) <= 1, Fits(dict, n)
      PROVE  Same(n)
    <2> DEFINE text == B(n)
    <2>1. dict \in CypherBindings(n)
        BY <1>1 DEF Fits
    <2>2. text \in PlainTexts /\ n \in PlainTexts
        <3>1. text \in {CypherBound(CypherOf(n, "n").text, d) : d \in CypherBindings(n)}
            BY <2>1 DEF Cypher
        <3>2. n \in PlainTexts
            BY <1>1 DEF PlainTexts
        <3> HIDE DEF text
        <3>3. text \in UNION {{CypherBound(CypherOf(m, "n").text, d) : d \in CypherBindings(m)} :
                                m \in Plain}
            BY <1>1, <3>1
        <3> QED BY <3>2, <3>3 DEF PlainTexts
    <2>3. "row" \in Aliases /\ "n" \in Aliases
        BY CallsAssumption
    <2>4. ASSUME NEW args, text = Node(n.kind, n.x, args)
          PROVE  text.kind = n.kind /\ text.x = n.x /\ text.args = args
        <3> HIDE DEF text
        <3> QED BY <2>4 DEF Node
    <2>5. CASE n.kind = "true"
        <3>1. text = True /\ DOMAIN n.args = {}
            BY <1>1, <2>1, <2>5, SuppliedOfNode, Operands
        <3>2. text.kind = "true" /\ DOMAIN text.args = {}
            <4>1. True.kind = "true" /\ True.args = <<>>
                BY DEF True, Node
            <4>2. DOMAIN <<>> = {}
                OBVIOUS
            <4> HIDE DEF text
            <4> QED BY <3>1, <4>1, <4>2
        <3> HIDE DEF text, S
        <3>4. /\ text.kind \in {"true", "and", "or", "not"} /\ text.kind = n.kind
              /\ DOMAIN text.args = DOMAIN n.args
              /\ text.kind = "true" /\ ~(text.kind \in {"and", "or"})
              /\ \A i \in DOMAIN text.args : TruthOf(text.args[i], Single("n", row))
                                            = TruthOf(n.args[i], Single("row", row))
            BY <2>5, <3>1, <3>2
        <3>3. TruthOf(text, Single("n", row)) = TruthOf(n, Single("row", row))
            BY <2>2, <2>3, <3>4, SameParts
        <3> QED BY <3>3 DEF text
    <2>6. ASSUME n.kind \in {"compare", "is_null", "is_not_null"}
          PROVE  /\ n.args[1] \in Nodes
                 /\ ValueAt(Property(n.args[1]), Single("n", row), <<>>)
                        = ValueAt(n.args[1], Single("row", row), <<>>)
        <3> DEFINE ref == n.args[1]
                   env == Single("n", row)
        <3>1. ref \in Nodes /\ BareField(ref)
            BY <1>1, <2>6, PlainParts, Operands
        <3> HIDE DEF ref
        <3>2. ValueAt(ref, Single("row", row), <<>>) = FieldOf(row, ref.x[1])
            BY <3>1, FieldValue
        <3>3. Property(ref).kind = "ref" /\ Property(ref).x = <<"n", ref.x[1]>>
            BY DEF Property, VariableRef, Node
        <3>4. ValueAt(Property(ref), env, <<>>) = Field(env, "n", ref.x[1])
            <4>1. /\ Len(Property(ref).x) = 2 /\ Property(ref).x[1] = "n"
                  /\ Property(ref).x[2] = ref.x[1]
                BY <3>3
            <4> HIDE DEF env
            <4> QED BY <3>3, <4>1 DEF ValueAt, IsLiteral
        <3>5. Field(env, "n", ref.x[1]) = FieldOf(row, ref.x[1])
            <4>1. DOMAIN env = {"n"} /\ env["n"] = row
                BY DEF Single
            <4> HIDE DEF env
            <4> QED BY <4>1 DEF Field, FieldOf
        <3> QED BY <3>1, <3>2, <3>4, <3>5 DEF ref
    <2>7. CASE n.kind \in {"is_null", "is_not_null"}
        <3>1. text = Node(n.kind, n.x, <<Property(n.args[1])>>)
            BY <1>1, <2>1, <2>7, SuppliedOfNode
        <3>2. DOMAIN n.args = 1..1
            BY <1>1, <2>7, Operands
        <3> HIDE DEF text
        <3>3. text.kind = n.kind /\ text.x = n.x /\ text.args = <<Property(n.args[1])>>
            BY <2>4, <3>1
        <3>4. DOMAIN text.args = 1..1 /\ \A i \in DOMAIN text.args :
                ValueAt(text.args[i], Single("n", row), <<>>)
                    = ValueAt(n.args[i], Single("row", row), <<>>)
            BY <2>6, <2>7, <3>3
        <3>5. /\ DOMAIN text.args = DOMAIN n.args /\ 1 \in DOMAIN text.args
              /\ text.kind \in {"compare", "is_null", "is_not_null"} /\ text.kind # "compare"
            BY <2>7, <3>2, <3>3, <3>4
        <3>6. TruthOf(text, Single("n", row)) = TruthOf(n, Single("row", row))
            BY <2>2, <2>3, <3>3, <3>4, <3>5, SameOperands
        <3> QED BY <3>6 DEF text
    <2>8. CASE n.kind = "compare"
        <3> DEFINE right == n.args[2]
        <3>1. right \in Nodes /\ IsLiteral(right) /\ DOMAIN n.args = 1..2
            BY <1>1, <2>8, PlainParts, Operands
        <3>2. PICK operand : /\ text = Node(n.kind, n.x, <<Property(n.args[1]), operand>>)
                             /\ ValueAt(operand, Single("n", row), <<>>)
                                    = ValueAt(right, Single("row", row), <<>>)
            <4>1. CASE right.kind = "int"
                <5>1. text = Node(n.kind, n.x, <<Property(n.args[1]), IntegerLiteral(dict[0])>>)
                    BY <1>1, <2>1, <2>8, <4>1, SuppliedOfNode
                <5>2. dict[0] = right.x
                    <6>1. Cypher(n).params = Single(0, right.x)
                        BY <1>1, <2>8, <4>1, CypherOfNode
                    <6>2. DOMAIN Single(0, right.x) = {0} /\ Single(0, right.x)[0] = right.x
                        BY DEF Single
                    <6> HIDE DEF right
                    <6> QED BY <1>1, <6>1, <6>2 DEF Fits
                <5> HIDE DEF right, text
                <5>3. /\ ValueAt(IntegerLiteral(right.x), Single("n", row), <<>>) = right.x
                      /\ ValueAt(right, Single("row", row), <<>>) = right.x
                    BY <3>1, LiteralValue
                <5> QED BY <5>1, <5>2, <5>3
            <4>2. CASE right.kind = "bool"
                <5>1. text = Node(n.kind, n.x, <<Property(n.args[1]), right>>)
                    BY <1>1, <2>1, <2>8, <4>2, SuppliedOfNode
                <5> HIDE DEF right, text
                <5>2. /\ ValueAt(right, Single("n", row), <<>>) = right.x
                      /\ ValueAt(right, Single("row", row), <<>>) = right.x
                    BY <3>1, LiteralValue
                <5> QED BY <5>1, <5>2
            <4> QED BY <3>1, <4>1, <4>2 DEF IsLiteral
        <3> HIDE DEF text
        <3>3. text.kind = n.kind /\ text.x = n.x /\ text.args = <<Property(n.args[1]), operand>>
            BY <2>4, <3>2
        <3>4. DOMAIN text.args = 1..2 /\ \A i \in DOMAIN text.args :
                ValueAt(text.args[i], Single("n", row), <<>>)
                    = ValueAt(n.args[i], Single("row", row), <<>>)
            BY <2>6, <2>8, <3>2, <3>3
        <3>5. /\ DOMAIN text.args = DOMAIN n.args /\ 1 \in DOMAIN text.args /\ 2 \in DOMAIN text.args
              /\ text.kind = "compare"
            BY <2>8, <3>1, <3>3, <3>4
        <3>6. TruthOf(text, Single("n", row)) = TruthOf(n, Single("row", row))
            BY <2>2, <2>3, <3>3, <3>4, <3>5, SameOperands
        <3> QED BY <3>6 DEF text
    <2>9. ASSUME n.kind \in {"and", "or", "not"}
          PROVE  \A i \in DOMAIN n.args : Same(n.args[i])
        BY <1>1, <2>9, FitsParts
    <2>10. CASE n.kind \in {"and", "or"}
        <3>1. text = Node(n.kind, n.x, <<B(n.args[1]), B(n.args[2])>>) /\ DOMAIN n.args = 1..2
            BY <1>1, <2>1, <2>10, SuppliedOfNode, Operands
        <3> DEFINE a == B(n.args[1])
                   b == B(n.args[2])
        <3>2. /\ TruthOf(a, Single("n", row)) = TruthOf(n.args[1], Single("row", row))
              /\ TruthOf(b, Single("n", row)) = TruthOf(n.args[2], Single("row", row))
            BY <2>9, <2>10, <3>1
        <3> HIDE DEF text, a, b, S
        <3>3. text.kind = n.kind /\ text.x = n.x /\ text.args = <<a, b>>
            BY <2>4, <3>1 DEF a, b
        <3>4. DOMAIN text.args = 1..2 /\ \A i \in DOMAIN text.args :
                TruthOf(text.args[i], Single("n", row)) = TruthOf(n.args[i], Single("row", row))
            BY <3>2, <3>3
        <3>5. /\ DOMAIN text.args = DOMAIN n.args /\ 1 \in DOMAIN text.args /\ 2 \in DOMAIN text.args
              /\ text.kind \in {"and", "or"}
            BY <2>10, <3>1, <3>3, <3>4
        <3>6. TruthOf(text, Single("n", row)) = TruthOf(n, Single("row", row))
            BY <2>2, <2>3, <3>3, <3>4, <3>5, SameParts
        <3> QED BY <3>6 DEF text
    <2>11. CASE n.kind = "not"
        <3>1. text = Node(n.kind, n.x, <<B(n.args[1])>>) /\ DOMAIN n.args = 1..1
            BY <1>1, <2>1, <2>11, SuppliedOfNode, Operands
        <3> DEFINE a == B(n.args[1])
        <3>2. TruthOf(a, Single("n", row)) = TruthOf(n.args[1], Single("row", row))
            BY <2>9, <2>11, <3>1
        <3> HIDE DEF text, a, S
        <3>3. text.kind = n.kind /\ text.x = n.x /\ text.args = <<a>>
            BY <2>4, <3>1 DEF a
        <3>4. DOMAIN text.args = 1..1 /\ \A i \in DOMAIN text.args :
                TruthOf(text.args[i], Single("n", row)) = TruthOf(n.args[i], Single("row", row))
            BY <3>2, <3>3
        <3>5. /\ DOMAIN text.args = DOMAIN n.args /\ 1 \in DOMAIN text.args
              /\ text.kind = "not"
            BY <2>11, <3>1, <3>3, <3>4
        <3>6. TruthOf(text, Single("n", row)) = TruthOf(n, Single("row", row))
            BY <2>2, <2>3, <3>3, <3>4, <3>5, SameParts
        <3> QED BY <3>6 DEF text
    <2> HIDE DEF Same, S
    <2> QED BY <1>1, <2>5, <2>7, <2>8, <2>10, <2>11, PlainParts
<1>2. ASSUME NEW n \in Nodes, \A i \in DOMAIN n.args : n.args[i] \in S
      PROVE  n \in S
    <2> HIDE DEF Same
    <2> QED BY <1>1, <1>2
<1> HIDE DEF S
<1>3. Nodes \subseteq S
    BY <1>2, NodeInduction
<1>4. node \in Nodes
    BY DEF Plain
<1> QED BY <1>3, <1>4 DEF S

-----------------------------------------------------------------------------
\* All three

\* The module's translation of a condition it is to understand, with its parameters
\* bound, selects the rows the condition is true of.
THEOREM TranslationsKeepMeaning ==
    ASSUME NEW s \in Stmts, NEW m \in DOMAIN Databases, NEW stmt, stmt = CallOf(Stmt[s]),
           stmt.kind \in {"read", "write"}, Understood(m, stmt.x.where),
           NEW row \in Rows, Comparable(m, stmt.x.where, row)
    PROVE  Selects(m, stmt, row) <=> Meant(stmt.x.where, row)
<1> DEFINE node == Where(stmt.x.where)
<1>1. node \in Plain /\ stmt.x.table \in Aliases
    <2>1. node \in Nodes /\ stmt.x.table \in Aliases
        BY CallsAssumption
    <2> QED BY <2>1 DEF Understood, Plain
<1>2. Meant(stmt.x.where, row) <=> TruthOf(node, Single("row", row)) = "true"
    BY DEF Meant
<1>3. m \in {"postgresql", "mongodb", "neo4j"}
    BY CallsAssumption
<1>4. CASE m = "postgresql"
    <2>1. Selects(m, stmt, row) <=>
            TruthOf(SqlBound(SqlOf(node).text, SqlOf(node).params).text,
                    Single(stmt.x.table, row)) = "true"
        BY <1>4 DEF Selects, PgSelects
    <2> HIDE DEF node
    <2> DEFINE params == SqlOf(node).params
    <2>2. params \in Seq(Nat)
        BY <1>1, SqlParams DEF Plain
    <2>3. params \in ParamLists
        <3>1. params \in {SqlOf(n).params : n \in Nodes}
            BY <1>1 DEF Plain
        <3> HIDE DEF params
        <3>2. SubSeq(params, 1, Len(params)) = params /\ 1 \in 1..(Len(params) + 1)
            BY <2>2
        <3> QED BY <3>1, <3>2 DEF ParamLists
    <2>4. params \o <<>> = params
        <3> HIDE DEF params
        <3> QED BY <2>2
    <2>5. Bindable(node, <<>>) /\ BoundTo(node, <<>>) = SqlBound(SqlOf(node).text, params)
        BY <2>3, <2>4 DEF Bindable, BoundTo
    <2>6. TruthOf(BoundTo(node, <<>>).text, Single(stmt.x.table, row))
            = TruthOf(node, Single("row", row))
        BY <1>1, <2>5, SqlMeans
    <2> QED BY <1>2, <2>1, <2>5, <2>6 DEF node
<1>5. CASE m = "mongodb"
    <2>1. Selects(m, stmt, row) <=> FilterMatches(FilterOf(node), row, <<>>)
        BY <1>5 DEF Selects
    <2>2. Numbers(node, row)
        BY <1>5 DEF Comparable, FieldsIn, Numbers
    <2> HIDE DEF node
    <2>3. FilterMatches(FilterOf(node), row, <<>>) <=> TruthOf(node, Single("row", row)) = "true"
        BY <1>1, <2>2, FilterMeans
    <2> QED BY <1>2, <2>1, <2>3 DEF node
<1>6. CASE m = "neo4j"
    <2>1. Selects(m, stmt, row) <=>
            TruthOf(CypherBound(Cypher(node).text, Cypher(node).params), Single("n", row)) = "true"
        BY <1>6 DEF Selects, NeoSelects, Cypher
    <2>2. Ints(node) <= 1
        <3>1. CASE Absent(stmt.x.where)
            <4>1. node.kind = "true"
                BY <3>1 DEF Where, True, Node
            <4> QED BY <1>1, <4>1, IntsOfNode
        <3>2. CASE ~Absent(stmt.x.where)
            <4>1. node = stmt.x.where
                BY <3>2 DEF Where
            <4>2. ~(Ints(node) > 1)
                BY <1>6, <4>1 DEF Understood, NumbersClash, Ints
            <4>3. Ints(node) \in Nat
                BY <1>1, IntsOfNode
            <4> QED BY <4>2, <4>3
        <3> QED BY <3>1, <3>2
    <2> HIDE DEF node
    <2>3. Fits(Cypher(node).params, node)
        BY <1>1 DEF Fits, CypherBindings, Dicts, Cypher, Plain
    <2>4. TruthOf(CypherBound(Cypher(node).text, Cypher(node).params), Single("n", row))
            = TruthOf(node, Single("row", row))
        BY <1>1, <2>2, <2>3, CypherMeans
    <2> QED BY <1>2, <2>1, <2>4 DEF node
<1> QED BY <1>3, <1>4, <1>5, <1>6
=============================================================================
