---------------------------- MODULE MCParserCache ----------------------------
(***************************************************************************)
(* Query threads, and loads of a module whose extension has two points (as *)
(* Neo4j's), of a module that is rejected after the one it requires has    *)
(* been registered, and of one with an extension that Lark rejects.        *)
(***************************************************************************)
EXTENDS ParserCache, TLC

MCNames == {"neo", "bad", "rude"}

Manifest(key, requires, mapped) ==
    [key |-> key, name |-> key, requires |-> requires, source |-> "builtin",
     imports |-> TRUE, mapped |-> mapped]

MCClass == [
    neo  |-> Manifest("neo", {}, TRUE),
    bad  |-> Manifest("bad", {"neo"}, FALSE),
    rude |-> Manifest("rude", {}, TRUE)]

MCClasses == DOMAIN MCClass
MCRequests == {{"neo"}, {"bad", "rude"}}
MCExtending == {"neo", "rude"}
MCPoints == [neo |-> {"connection_command", "condition"}, bad |-> {}, rude |-> {"condition"}]
MCBadGrammar == {"rude"}
MCNoParser == {"no parser"}
Threads == Permutations(Queries)
=============================================================================
