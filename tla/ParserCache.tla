---------------------------- MODULE ParserCache ----------------------------
(***************************************************************************)
(* Engine.load_modules, Engine._get_parser and GrammarBuilder.build, on    *)
(* top of ModuleLoading: which parser a script is parsed with.             *)
(*                                                                         *)
(* In the REPL each query runs in a thread of its own, on the one Engine.  *)
(* The main thread waits for the thread it started (foreground) until it   *)
(* ends or the user cancels; a cancelled thread is not stopped, so it may  *)
(* still be compiling a grammar while the main thread loads modules or     *)
(* starts the next query.  Each action here is one access to the fields    *)
(* the threads share.  A parser is represented by the names of the modules *)
(* whose grammar extensions it was compiled with, a text of extension      *)
(* rules by the names of the modules that wrote them.                      *)
(***************************************************************************)
EXTENDS ModuleLoading, Sequences

CONSTANTS
    Queries,        \* the query threads
    NoQuery,
    NoParser,
    Extending,      \* classes with a grammar extension that is not blank
    Points,         \* Points[c]: the extension points its rules are alternatives at
    BadGrammar      \* those whose extension Lark rejects

\* The keys of grammar_builder's _EXTENSION_POINTS.
ExtensionPoints == {"table_command", "connection_command", "condition", "param"}

\* A module without an extension contributes no alternatives.
ASSUME ParserAssumption ==
    /\ NoQuery \notin Queries
    /\ NoParser \notin SUBSET Names
    /\ BadGrammar \subseteq Extending /\ Extending \subseteq Classes
    /\ Points \in [Classes -> SUBSET ExtensionPoints]
    /\ \A c \in Classes : Points[c] # {} => c \in Extending

VARIABLES
    parser,         \* Engine._parser
    cached,         \* GrammarBuilder._cached_parser
    cachedNames,    \* GrammarBuilder._cached_module_names
    extraRules,     \* GrammarBuilder._extra_rules
    clearing,       \* what load_modules has yet to clear after load
    query,          \* per thread: where it is and its locals
    grammar,        \* per thread: the grammar it assembles
    foreground,     \* the thread the main thread waits for
    disturbed,      \* history: the last load raised, or began while a thread was
                    \* building a parser
    crowded         \* history: the threads whose grammar was assembled while
                    \* another assembled one

grammarVars == <<extraRules, grammar, crowded>>
parserVars == <<parser, cached, cachedNames, clearing, query, foreground, disturbed, grammarVars>>
vars == <<loadVars, parserVars>>
\* What no thread writes while it assembles a grammar.
outside == <<loadVars, parser, cached, cachedNames, clearing, foreground, disturbed>>

Parsers == (SUBSET Names) \union {NoParser}
Assembly == {"test", "append", "erase"}
Places == {"start", "check", "compare", "collect", "compile", "rename", "reread", "store",
           "fetch", "parse", "done"} \union Assembly

\* left: the extension points with alternatives still to be replaced; rules: the
\* modules whose rules are in the text; doubled: some are there twice.
NewGrammar(left) == [left |-> left, rules |-> {}, doubled |-> FALSE]

Registered == Present(registered)
Building(q) == query[q].at \in Places \ {"start", "fetch", "parse", "done"}
Assembling(q) == query[q].at \in Assembly

-----------------------------------------------------------------------------
\* Query threads

Goto(q, place) == query' = [query EXCEPT ![q].at = place]
\* A thread ends, and its locals with it.
At(place) == [at |-> place, names |-> {}, built |-> NoParser]
Ends(q) ==
    /\ query' = [query EXCEPT ![q] = At("done")]
    /\ foreground' = IF foreground = q THEN NoQuery ELSE foreground

\* QueryRunner.run: only the main thread, which then waits, starts a thread.
StartQuery(q) ==
    /\ phase = "idle" /\ foreground = NoQuery /\ query[q].at = "start"
    /\ foreground' = q
    /\ Goto(q, "check")
    /\ UNCHANGED <<loadVars, parser, cached, cachedNames, clearing, disturbed, grammarVars>>

\* _get_parser: build only if there is no parser; list the loaded modules.
Check(q) ==
    /\ query[q].at = "check"
    /\ query' = IF parser # NoParser THEN [query EXCEPT ![q].at = "fetch"]
                ELSE [query EXCEPT ![q].at = "compare", ![q].names = Registered]
    /\ UNCHANGED <<outside, grammarVars>>

\* build: the cached parser serves if it was compiled for the same names.
Compare(q) ==
    /\ query[q].at = "compare"
    /\ Goto(q, IF cached # NoParser /\ query[q].names = cachedNames
               THEN "reread" ELSE "collect")
    /\ UNCHANGED <<outside, grammarVars>>

\* _collect_extensions: the rules of the extensions go to the field, the
\* alternatives they contribute stay with the thread.
Extended(names) == {n \in names : registered[n] \in Extending}
PointsOf(names) == UNION {Points[registered[n]] : n \in Extended(names)}
CollectRules(q) ==
    /\ query[q].at = "collect"
    /\ LET left == Cardinality(PointsOf(query[q].names))
           others == {p \in Queries : Assembling(p)}
       IN  /\ extraRules' = Extended(query[q].names)
           /\ grammar' = [grammar EXCEPT ![q] = NewGrammar(left)]
           /\ Goto(q, IF left = 0 THEN "compile" ELSE "test")
           /\ crowded' = IF others = {} THEN crowded \ {q} ELSE crowded \union others \union {q}
    /\ UNCHANGED outside

\* _replace_extension_point ends for a point with alternatives.
PointDone(q, rules, doubled) ==
    LET left == grammar[q].left - 1
    IN  /\ grammar' = [grammar EXCEPT ![q] = [left |-> left, rules |-> rules, doubled |-> doubled]]
        /\ Goto(q, IF left = 0 THEN "compile" ELSE "test")

\* if self._extra_rules
TestRules(q) ==
    /\ query[q].at = "test"
    /\ IF extraRules # {} THEN Goto(q, "append") /\ UNCHANGED grammar
       ELSE PointDone(q, grammar[q].rules, grammar[q].doubled)
    /\ UNCHANGED <<outside, extraRules, crowded>>

\* grammar = grammar + "\n" + self._extra_rules
AppendRules(q) ==
    /\ query[q].at = "append"
    /\ grammar' = [grammar EXCEPT ![q].rules = @ \union extraRules,
                                  ![q].doubled = @ \/ grammar[q].rules \intersect extraRules # {}]
    /\ Goto(q, "erase")
    /\ UNCHANGED <<outside, extraRules, crowded>>

\* Seeded fault: the rules are not erased once they are in the text.
EraseNothing(q) ==
    /\ query[q].at = "erase"
    /\ PointDone(q, grammar[q].rules, grammar[q].doubled)
    /\ UNCHANGED <<outside, extraRules, crowded>>

\* self._extra_rules = ""
EraseRules(q) ==
    /\ query[q].at = "erase"
    /\ extraRules' = {}
    /\ PointDone(q, grammar[q].rules, grammar[q].doubled)
    /\ UNCHANGED <<outside, crowded>>

\* Lark (external) raises for an alternative without its rule, for a rule
\* defined twice and for an extension it rejects as such; it drops rules nothing
\* refers to.  Modules name their rules differently.
Compiles(q) ==
    /\ ~grammar[q].doubled
    /\ \A n \in grammar[q].rules : registered[n] \notin BadGrammar
    /\ \A n \in query[q].names : Points[registered[n]] # {} => n \in grammar[q].rules
Compile(q) ==
    /\ query[q].at = "compile"
    /\ IF Compiles(q)
       THEN /\ cached' = query[q].names
            /\ Goto(q, "rename")
            /\ UNCHANGED foreground
       ELSE Ends(q) /\ UNCHANGED cached
    /\ grammar' = [grammar EXCEPT ![q] = NewGrammar(0)]
    /\ crowded' = crowded \ {q}
    /\ UNCHANGED <<loadVars, parser, cachedNames, clearing, disturbed, extraRules>>

\* Seeded fault: the names are left as they are.
RenameNot(q) ==
    /\ query[q].at = "rename"
    /\ Goto(q, "reread")
    /\ UNCHANGED <<outside, grammarVars>>

Rename(q) ==
    /\ query[q].at = "rename"
    /\ cachedNames' = query[q].names
    /\ Goto(q, "reread")
    /\ UNCHANGED <<loadVars, parser, cached, clearing, foreground, disturbed, grammarVars>>

\* return self._cached_parser
Reread(q) ==
    /\ query[q].at = "reread"
    /\ query' = [query EXCEPT ![q].at = "store", ![q].built = cached]
    /\ UNCHANGED <<outside, grammarVars>>

\* self._parser = ...
Store(q) ==
    /\ query[q].at = "store"
    /\ parser' = query[q].built
    /\ Goto(q, "fetch")
    /\ UNCHANGED <<loadVars, cached, cachedNames, clearing, foreground, disturbed, grammarVars>>

\* return self._parser
Fetch(q) ==
    /\ query[q].at = "fetch"
    /\ query' = [query EXCEPT ![q].at = "parse", ![q].built = parser]
    /\ UNCHANGED <<outside, grammarVars>>

\* The rest of run_script, and the thread's end.
EndQuery(q) ==
    /\ query[q].at = "parse"
    /\ Ends(q)
    /\ UNCHANGED <<loadVars, parser, cached, cachedNames, clearing, disturbed, grammarVars>>

\* Ctrl+C: the main thread stops waiting.  The thread goes on.
Cancel ==
    /\ foreground # NoQuery
    /\ foreground' = NoQuery
    /\ UNCHANGED <<loadVars, parser, cached, cachedNames, clearing, query, disturbed, grammarVars>>

-----------------------------------------------------------------------------
\* Engine.load_modules, in the main thread

SomeBuilding == \E q \in Queries : Building(q)

BeginLoadModules(requested) ==
    /\ foreground = NoQuery
    /\ BeginLoad(requested)
    /\ disturbed' = IF phase' = "registering" THEN SomeBuilding ELSE disturbed
    /\ UNCHANGED <<parser, cached, cachedNames, clearing, query, foreground, grammarVars>>

RegisterModule(n) ==
    /\ Register(n)
    /\ disturbed' = (disturbed \/ phase' = "idle")
    /\ UNCHANGED <<parser, cached, cachedNames, clearing, query, foreground, grammarVars>>

\* Seeded fault: the parser is cleared before the builder's cache.
ModulesLoadedParserFirst ==
    /\ LoadReturns
    /\ clearing' = <<"parser", "cached", "cachedNames">>
    /\ UNCHANGED <<parser, cached, cachedNames, query, foreground, disturbed, grammarVars>>

ModulesLoaded ==
    /\ LoadReturns
    /\ clearing' = <<"cached", "cachedNames", "parser">>
    /\ UNCHANGED <<parser, cached, cachedNames, query, foreground, disturbed, grammarVars>>

\* Seeded fault: the engine's parser is kept.
ClearCacheOnly ==
    /\ phase = "loaded" /\ clearing # <<>>
    /\ cached' = IF Head(clearing) = "cached" THEN NoParser ELSE cached
    /\ cachedNames' = IF Head(clearing) = "cachedNames" THEN {} ELSE cachedNames
    /\ clearing' = Tail(clearing)
    /\ UNCHANGED <<loadVars, parser, query, foreground, disturbed, grammarVars>>

\* invalidate, then self._parser = None
Clear ==
    /\ phase = "loaded" /\ clearing # <<>>
    /\ cached' = IF Head(clearing) = "cached" THEN NoParser ELSE cached
    /\ cachedNames' = IF Head(clearing) = "cachedNames" THEN {} ELSE cachedNames
    /\ parser' = IF Head(clearing) = "parser" THEN NoParser ELSE parser
    /\ clearing' = Tail(clearing)
    /\ UNCHANGED <<loadVars, query, foreground, disturbed, grammarVars>>

\* load_modules returns.
ModulesReady ==
    /\ clearing = <<>>
    /\ Return
    /\ UNCHANGED parserVars

-----------------------------------------------------------------------------
Init ==
    /\ LoadInit
    /\ parser = NoParser /\ cached = NoParser /\ cachedNames = {}
    /\ clearing = <<>>
    /\ query = [q \in Queries |-> At("start")]
    /\ grammar = [q \in Queries |-> NewGrammar(0)]
    /\ extraRules = {}
    /\ foreground = NoQuery
    /\ disturbed = FALSE /\ crowded = {}

QueryStep(q) ==
    \/ Check(q) \/ Compare(q) \/ CollectRules(q) \/ TestRules(q) \/ AppendRules(q)
    \/ EraseRules(q) \/ Compile(q) \/ Rename(q) \/ Reread(q) \/ Store(q) \/ Fetch(q)
    \/ EndQuery(q)

Next ==
    \/ \E q \in Queries : StartQuery(q) \/ QueryStep(q)
    \/ Cancel
    \/ \E c \in Classes : Install(c) /\ UNCHANGED parserVars
    \/ \E requested \in Requests : BeginLoadModules(requested)
    \/ \E n \in Names : RegisterModule(n)
    \/ ModulesLoaded \/ Clear \/ ModulesReady

Spec == Init /\ [][Next]_vars

-----------------------------------------------------------------------------
\* Properties

GrammarTypeOK ==
    /\ extraRules \subseteq Names
    /\ grammar \in [Queries -> [left : Nat, rules : SUBSET Names, doubled : BOOLEAN]]
    /\ \A q \in Queries : Assembling(q) => grammar[q].left > 0
    /\ crowded \subseteq Queries
ParserTypeOK ==
    /\ LoadTypeOK /\ GrammarTypeOK
    /\ parser \in Parsers /\ cached \in Parsers /\ cachedNames \subseteq Names
    /\ clearing \in {<<"cached", "cachedNames", "parser">>, <<"cachedNames", "parser">>,
                     <<"parser">>, <<>>}
    /\ query \in [Queries -> [at : Places, names : SUBSET Names, built : Parsers]]
    /\ foreground \in Queries \union {NoQuery}
    /\ disturbed \in BOOLEAN

\* If the last load returned and no cancelled query was building a parser when
\* it began, the script the user waits for, if it is parsed at all (see
\* LoneBuildsSucceed), is parsed with the extensions of exactly the registered
\* modules, whichever cancelled queries still build, share and store parsers
\* around it.
ParsesWithRegistered ==
    [][\A q \in Queries :
          query[q].at = "fetch" /\ query'[q].at = "parse" /\ foreground = q /\ ~disturbed
              => query'[q].built = Registered]_vars

\* In the same circumstances the builder's cache is of use: it holds the parser
\* of the names it is filed under unless a thread is between the two writes.
CacheFiledRightly ==
    cached # NoParser /\ phase = "idle" /\ ~disturbed /\ (\A q \in Queries : query[q].at # "rename")
        => cached = cachedNames

\* A build raises only for an extension Lark rejects or because another thread
\* was assembling a grammar at the same time: whatever builds, finished or failed,
\* left in _extra_rules and however many points an extension has, a thread that
\* assembles alone gets each module's rules into its grammar once.
BuildRaises(q) == query[q].at = "compile" /\ query'[q].at = "done"
LoneBuildsSucceed ==
    [][\A q \in Queries :
          BuildRaises(q) => \/ q \in crowded
                            \/ \E n \in query[q].names : registered[n] \in BadGrammar]_vars

=============================================================================
