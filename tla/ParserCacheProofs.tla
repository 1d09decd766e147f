-------------------------- MODULE ParserCacheProofs --------------------------
(***************************************************************************)
(* Proofs about ModuleLoading, for any set of module classes, however      *)
(* their names and requirements are tangled, and about ParserCache: which  *)
(* parser a script is parsed with, for any modules and any number of query *)
(* threads.                                                                *)
(*                                                                         *)
(* The argument for the parser: if nobody was building one when the last   *)
(* load began, nobody builds one until it has cleared all three fields,    *)
(* for the main thread starts no query meanwhile.  What is built           *)
(* afterwards is built from the names registered, which stay until the     *)
(* next load.                                                              *)
(***************************************************************************)
EXTENDS ParserCache, FiniteSetTheorems, TLAPS


-----------------------------------------------------------------------------
\* Discovery and resolution

\* A stage of discovery adds classes to the table and changes no entry.
LEMMA StageExtends ==
    ASSUME available \subseteq Classes, NEW table \in Tables, NEW source,
           NEW r \in Stage(source, table)
    PROVE  /\ r.table \in Tables
           /\ \A n \in Names : table[n] # NoClass => r.table[n] = table[n]
<1>1. PICK new \in SUBSET Fresh(source, table) : r.table = Extend(table, new)
    BY DEF Stage
<1>2. ASSUME NEW n \in Names
      PROVE  /\ Extend(table, new)[n] \in Classes \union {NoClass}
             /\ table[n] # NoClass => Extend(table, new)[n] = table[n]
    <2>1. CASE \E c \in new : Class[c].key = n
        <3>1. PICK c \in new : Class[c].key = n
            BY <2>1
        <3>2. /\ Extend(table, new)[n] = CHOOSE d \in new : Class[d].key = n
              /\ new \subseteq Classes
            BY <1>1, <2>1 DEF Extend, Fresh
        <3>3. table[n] = NoClass
            BY <1>1, <3>1 DEF Fresh
        <3>4. (CHOOSE d \in new : Class[d].key = n) \in new
            BY <3>1
        <3> QED BY <3>2, <3>3, <3>4
    <2>2. CASE ~\E c \in new : Class[c].key = n
        BY <2>2 DEF Extend, Tables
    <2> QED BY <2>1, <2>2
<1>3. Extend(table, new) \in Tables
    BY <1>2 DEF Extend, Tables
<1> QED BY <1>1, <1>2, <1>3

\* So do both stages together.
LEMMA DiscoveryExtends ==
    ASSUME available \subseteq Classes, discovered \in Tables, NEW found \in Discoveries
    PROVE  /\ found.table \in Tables
           /\ \A n \in Names : discovered[n] # NoClass => found.table[n] = discovered[n]
<1>1. PICK first \in Stage("entry point", discovered) :
          found \in (IF first.returns THEN Stage("builtin", first.table) ELSE {first})
    BY DEF Discoveries
<1>2. /\ first.table \in Tables
      /\ \A n \in Names : discovered[n] # NoClass => first.table[n] = discovered[n]
    BY StageExtends
<1>3. CASE first.returns
    <2>1. /\ found.table \in Tables
          /\ \A n \in Names : first.table[n] # NoClass => found.table[n] = first.table[n]
        BY <1>1, <1>2, <1>3, StageExtends
    <2> QED BY <1>2, <2>1
<1>4. CASE ~first.returns
    BY <1>1, <1>2, <1>4
<1> QED BY <1>3, <1>4

\* The resolved names contain everything their classes require.
LEMMA ResolvedClosed ==
    ASSUME NEW table \in Tables, NEW requested
    PROVE  /\ Resolved(table, requested) \subseteq Names
           /\ Closed(table, Resolved(table, requested))
<1>1. ASSUME NEW n \in Resolved(table, requested), NEW d \in Requires(table, n)
      PROVE  d \in Resolved(table, requested)
    <2>1. d \in Names
        <3>1. n \in Names /\ table[n] \in Classes
            BY <1>1 DEF Resolved, Requires, Tables
        <3> QED BY <1>1, <3>1, LoadingAssumption DEF Requires, Manifests
    <2>2. ASSUME NEW names \in SUBSET Names, requested \subseteq names, Closed(table, names)
          PROVE  d \in names
        <3>1. n \in names
            BY <1>1, <2>2 DEF Resolved
        <3> QED BY <1>1, <2>2, <3>1 DEF Closed
    <2> QED BY <2>1, <2>2 DEF Resolved
<1> QED BY <1>1 DEF Closed, Resolved

-----------------------------------------------------------------------------
\* The invariant

\* The name's turn has come and gone well.
Served(n) == \/ registered[n] # NoClass
             \/ registered[Class[discovered[n]].name] = discovered[n]

IInv ==
    /\ LoadTypeOK
    /\ RegistryClosed
    /\ phase # "idle" => /\ toLoad \subseteq Present(discovered)
                         /\ Closed(discovered, toLoad)
                         /\ \A n \in toLoad \ pending : Served(n)
    /\ phase # "registering" => pending = {}
    /\ \A n \in group : Requires(discovered, n) \intersect pending = {}

\* The inductive invariant implies the invariants the runs check.
LEMMA IInvImplies == IInv => LoadTypeOK /\ RegistryClosed /\ DependenciesFirst /\ LoadIsComplete
<1> SUFFICES ASSUME IInv
             PROVE  DependenciesFirst /\ LoadIsComplete
    BY DEF IInv
<1>1. DependenciesFirst
    <2> SUFFICES ASSUME NEW n \in group, NEW d \in Requires(discovered, n),
                        registered[d] = NoClass
                 PROVE  Class[discovered[d]].name # d
        BY DEF DependenciesFirst
    <2>1. group \subseteq pending /\ pending \subseteq toLoad /\ phase # "idle"
        BY DEF IInv, LoadTypeOK
    <2>2. d \in toLoad \ pending
        BY <2>1 DEF IInv, Closed
    <2>3. Served(d) /\ discovered[d] # NoClass
        BY <2>1, <2>2 DEF IInv, Present
    <2> QED BY <2>3 DEF Served
<1>2. LoadIsComplete
    BY DEF IInv, LoadIsComplete, Served
<1> QED BY <1>1, <1>2

\* The invariant holds before the first load.
LEMMA LoadInitInv == LoadInit => IInv
BY LoadingAssumption DEF LoadInit, IInv, LoadTypeOK, RegistryClosed, Present, EmptyTable, Tables

\* Discovery and the resolution of a load keep the invariant.
LEMMA BeginLoadInv ==
    ASSUME IInv, NEW requested \in Requests, BeginLoad(requested)
    PROVE  IInv'
<1>1. PICK found \in Discoveries :
          LET names == Resolved(found.table, requested)
          IN  /\ discovered' = found.table
              /\ IF /\ found.returns
                    /\ names \subseteq Present(found.table)
                    /\ ~Cyclic(found.table, names)
                 THEN /\ phase' = "registering"
                      /\ toLoad' = names
                      /\ pending' = names
                      /\ group' = Ready(found.table, names)
                 ELSE UNCHANGED <<phase, toLoad, pending, group>>
    BY DEF BeginLoad
<1> DEFINE names == Resolved(found.table, requested)
<1>2. /\ phase = "idle" /\ UNCHANGED <<available, registered>>
      /\ pending = {} /\ group = {}
    BY DEF BeginLoad, IInv, LoadTypeOK
<1>3. found.table \in Tables
    BY DiscoveryExtends DEF IInv, LoadTypeOK
<1>4. names \subseteq Names /\ Closed(found.table, names)
    BY <1>3, ResolvedClosed
<1>5. RegistryClosed'
    BY <1>2 DEF IInv, RegistryClosed, Present
<1>6. CASE UNCHANGED <<phase, toLoad, pending, group>>
    <2>1. LoadTypeOK'
        BY <1>1, <1>2, <1>3, <1>6 DEF IInv, LoadTypeOK
    <2> QED BY <1>2, <1>5, <1>6, <2>1 DEF IInv
<1>7. CASE /\ names \subseteq Present(found.table)
           /\ phase' = "registering"
           /\ toLoad' = names /\ pending' = names
           /\ group' = Ready(found.table, names)
    <2> HIDE DEF names
    <2>1. group' \subseteq names
          /\ \A n \in group' : Requires(found.table, n) \intersect names = {}
        BY <1>7 DEF Ready
    <2>2. LoadTypeOK'
        BY <1>1, <1>2, <1>3, <1>4, <1>7, <2>1 DEF IInv, LoadTypeOK
    <2>3. (toLoad \subseteq Present(discovered))' /\ Closed(discovered, toLoad)'
        BY <1>1, <1>4, <1>7 DEF Present, Closed, Requires
    <2>4. \A n \in group' : Requires(discovered, n)' \intersect pending' = {}
        BY <1>1, <1>7, <2>1 DEF Requires
    <2> QED BY <1>5, <1>7, <2>2, <2>3, <2>4 DEF IInv
<1> QED BY <1>1, <1>6, <1>7

\* Registering the next module keeps the invariant.
LEMMA RegisterInv ==
    ASSUME IInv, NEW n \in Names, Register(n)
    PROVE  IInv'
<1> DEFINE c == discovered[n]
           rest == pending \ {n}
<1>1. /\ phase = "registering" /\ n \in group /\ n \in pending /\ n \in toLoad
      /\ UNCHANGED <<available, discovered>>
      /\ c \in Classes
    BY DEF Register, IInv, LoadTypeOK, Present, Tables
<1>2. CASE ~(registered[n] # NoClass \/ Valid(c))
    <2>1. phase' = "idle" /\ toLoad' = {} /\ pending' = {} /\ group' = {}
          /\ UNCHANGED registered
        BY <1>2 DEF Register
    <2>2. LoadTypeOK' /\ RegistryClosed'
        BY <1>1, <2>1 DEF IInv, LoadTypeOK, RegistryClosed, Present
    <2> QED BY <2>1, <2>2 DEF IInv
<1>3. CASE registered[n] # NoClass \/ Valid(c)
    <2>1. /\ registered' = IF registered[n] # NoClass THEN registered
                           ELSE [registered EXCEPT ![Class[c].name] = c]
          /\ pending' = rest
          /\ group' = IF group = {n} THEN Ready(discovered, rest) ELSE group \ {n}
          /\ UNCHANGED <<phase, toLoad>>
        BY <1>3 DEF Register
    <2>2. /\ group' \subseteq rest
          /\ \A m \in group' : Requires(discovered, m) \intersect rest = {}
        BY <2>1 DEF Ready, IInv, LoadTypeOK
    <2>3. registered \in Tables /\ Class[c] \in Manifests
        BY <1>1, LoadingAssumption DEF IInv, LoadTypeOK
    <2>4. /\ registered' \in Tables
          /\ registered'[n] # NoClass \/ registered'[Class[c].name] = c
          /\ \A m \in Names : registered[m] # NoClass => registered'[m] = registered[m]
          /\ \A m \in Names : registered'[m] # registered[m] =>
                 /\ registered'[m] = c /\ Class[c].name = m
                 /\ Class[c].requires \subseteq Present(registered)
        <3>1. CASE registered[n] # NoClass
            BY <2>1, <2>3, <3>1
        <3>2. CASE registered[n] = NoClass
            <4>1. Valid(c) /\ registered' = [registered EXCEPT ![Class[c].name] = c]
                BY <1>3, <2>1, <3>2
            <4>2. Class[c].name \in Names /\ Class[c].requires \subseteq Names
                BY <2>3 DEF Manifests
            <4>3. registered[Class[c].name] = NoClass
                  /\ Class[c].requires \subseteq Present(registered)
                BY <4>1, <4>2 DEF Valid, Present
            <4> HIDE DEF c
            <4> QED BY <1>1, <2>3, <4>1, <4>2, <4>3 DEF Tables
        <3> QED BY <3>1, <3>2
    <2>5. LoadTypeOK'
        BY <1>1, <2>1, <2>2, <2>4 DEF IInv, LoadTypeOK
    <2>6. RegistryClosed'
        <3> SUFFICES ASSUME NEW m \in Present(registered)'
                     PROVE  /\ Class[registered'[m]].name = m
                            /\ Class[registered'[m]].requires \subseteq Present(registered)'
            BY DEF RegistryClosed
        <3>1. m \in Names /\ registered'[m] # NoClass
              /\ Present(registered) \subseteq Present(registered)'
            BY <2>4 DEF Present
        <3>2. CASE registered'[m] = registered[m]
            BY <3>1, <3>2 DEF IInv, RegistryClosed, Present
        <3>3. CASE registered'[m] # registered[m]
            BY <2>4, <3>1, <3>3
        <3> QED BY <3>2, <3>3
    <2>7. \A m \in toLoad' \ pending' : Served(m)'
        <3> SUFFICES ASSUME NEW m \in toLoad \ rest
                     PROVE  Served(m)'
            BY <2>1
        <3>1. CASE m = n
            BY <1>1, <2>4, <3>1 DEF Served
        <3>2. CASE m # n
            <4>1. Served(m) /\ m \in Names /\ discovered[m] \in Classes /\ discovered[m] # NoClass
                BY <1>1, <3>2 DEF IInv, LoadTypeOK, Present, Tables
            <4>2. Class[discovered[m]].name \in Names
                BY <4>1, LoadingAssumption DEF Manifests
            <4> QED BY <1>1, <2>4, <4>1, <4>2 DEF Served
        <3> QED BY <3>1, <3>2
    <2>8. (toLoad \subseteq Present(discovered))' /\ Closed(discovered, toLoad)'
        BY <1>1, <2>1 DEF IInv, Present, Closed, Requires
    <2>9. \A m \in group' : Requires(discovered, m)' \intersect pending' = {}
        BY <1>1, <2>1, <2>2 DEF Requires
    <2> QED BY <1>1, <2>1, <2>5, <2>6, <2>7, <2>8, <2>9 DEF IInv
<1> QED BY <1>2, <1>3

\* The steps that leave the tables alone.
LEMMA OtherInv ==
    ASSUME IInv,
           (\E c \in Classes : Install(c)) \/ LoadReturns \/ Return \/ UNCHANGED loadVars
    PROVE  IInv'
<1>1. UNCHANGED <<discovered, registered, toLoad, pending, group>>
    BY DEF Install, LoadReturns, Return, loadVars
<1>2. /\ available' \subseteq Classes
      /\ \/ phase' = phase
         \/ phase = "registering" /\ pending = {} /\ phase' = "loaded"
         \/ phase = "loaded" /\ phase' = "idle"
    BY DEF Install, LoadReturns, Return, loadVars, IInv, LoadTypeOK
<1>3. LoadTypeOK' /\ RegistryClosed'
    BY <1>1, <1>2 DEF IInv, LoadTypeOK, RegistryClosed, Present
<1>4. /\ (toLoad \subseteq Present(discovered))' <=> toLoad \subseteq Present(discovered)
      /\ Closed(discovered, toLoad)' <=> Closed(discovered, toLoad)
      /\ \A n \in toLoad : Served(n)' <=> Served(n)
      /\ \A n \in group : Requires(discovered, n)' = Requires(discovered, n)
    BY <1>1 DEF Present, Closed, Requires, Served
<1> QED BY <1>1, <1>2, <1>3, <1>4 DEF IInv

\* Every step keeps the invariant.
LEMMA LoadNextInv == IInv /\ [LoadNext]_loadVars => IInv'
BY BeginLoadInv, RegisterInv, OtherInv DEF LoadNext

\* The invariant holds in every reachable state.
LEMMA LoadInvariance == LoadSpec => []IInv
BY LoadInitInv, LoadNextInv, PTL DEF LoadSpec

-----------------------------------------------------------------------------
\* The theorems

\* The loader's tables and worklists are well formed.
THEOREM LoadTypeCorrect == LoadSpec => []LoadTypeOK
BY LoadInvariance, IInvImplies, PTL

\* After any sequence of loads, failed ones included, the registered modules
\* find every module they require.
THEOREM RegistryAlwaysClosed == LoadSpec => []RegistryClosed
BY LoadInvariance, IInvImplies, PTL

\* The topological sort makes the check for missing dependencies redundant for
\* modules that are discovered under the name their manifest gives.
THEOREM DependenciesComeFirst == LoadSpec => []DependenciesFirst
BY LoadInvariance, IInvImplies, PTL

\* A load that returns has registered all it resolved.
THEOREM LoadsAreComplete == LoadSpec => []LoadIsComplete
BY LoadInvariance, IInvImplies, PTL

\* A step replaces no class in either table.
LEMMA StepKeeps ==
    ASSUME IInv, [LoadNext]_loadVars, NEW n \in Names
    PROVE  /\ registered[n] # NoClass => registered'[n] = registered[n]
           /\ discovered[n] # NoClass => discovered'[n] = discovered[n]
<1> DEFINE Kept == /\ registered[n] # NoClass => registered'[n] = registered[n]
                   /\ discovered[n] # NoClass => discovered'[n] = discovered[n]
<1>1. CASE UNCHANGED <<registered, discovered>>
    BY <1>1
<1>2. ASSUME NEW requested \in Requests, BeginLoad(requested)
      PROVE  Kept
    BY <1>2, DiscoveryExtends DEF BeginLoad, IInv, LoadTypeOK
<1>3. ASSUME NEW m \in Names, Register(m)
      PROVE  Kept
    <2>1. UNCHANGED discovered /\ registered \in Tables
        BY <1>3 DEF Register, IInv, LoadTypeOK
    <2>2. \/ UNCHANGED registered
          \/ /\ registered' = [registered EXCEPT ![Class[discovered[m]].name] = discovered[m]]
             /\ registered[Class[discovered[m]].name] = NoClass
        BY <1>3 DEF Register, Valid
    <2> QED BY <2>1, <2>2 DEF Tables
<1> QED BY <1>1, <1>2, <1>3 DEF LoadNext, Install, LoadReturns, Return, loadVars

\* No step replaces or removes a discovered or registered class.
THEOREM NothingEverReplaced == LoadSpec => NothingReplaced
<1> DEFINE Kept == \A n \in Names :
               /\ registered[n] # NoClass => registered'[n] = registered[n]
               /\ discovered[n] # NoClass => discovered'[n] = discovered[n]
<1>1. IInv /\ [LoadNext]_loadVars => [Kept]_loadVars
    BY StepKeeps
<1> QED BY <1>1, LoadInvariance, PTL DEF LoadSpec, NothingReplaced

-----------------------------------------------------------------------------
\* The parser cache

\* A thread that builds a parser builds the one of the registered modules.
BuildsRegistered(q) ==
    /\ Building(q) /\ query[q].at # "check" => query[q].names = Registered
    /\ query[q].at \in {"rename", "reread"} => cached = Registered
    /\ query[q].at = "store" => query[q].built = Registered

\* The fields the threads share, between two loads.
SharedCurrent ==
    /\ cached # NoParser => /\ cached = Registered
                            /\ cachedNames = Registered \/ \E q \in Queries : query[q].at = "rename"
    /\ parser # NoParser => parser = Registered
    /\ foreground # NoQuery /\ query[foreground].at = "fetch" => parser # NoParser
    /\ \A q \in Queries : BuildsRegistered(q)

\* What load_modules has cleared when the rest is still to do.
ClearedSoFar ==
    /\ clearing \in {<<"cachedNames", "parser">>, <<"parser">>, <<>>} => cached = NoParser
    /\ clearing = <<>> => parser = NoParser

ParserInv ==
    /\ IInv
    /\ ParserTypeOK
    /\ phase # "idle" => foreground = NoQuery
    /\ ~disturbed /\ phase = "idle" => SharedCurrent
    /\ ~disturbed /\ phase # "idle" => ~SomeBuilding
    /\ ~disturbed /\ phase = "loaded" => ClearedSoFar

USE ParserAssumption

-----------------------------------------------------------------------------
\* The threads do nothing to the loader's state, and the main thread does to it
\* what ModuleLoading says.
LEMMA StepLoads == [Next]_vars => [LoadNext]_loadVars
<1> SUFFICES ASSUME [Next]_vars PROVE [LoadNext]_loadVars
  OBVIOUS
<1>1. ASSUME NEW q \in Queries, StartQuery(q) \/ QueryStep(q) PROVE UNCHANGED loadVars
  BY <1>1 DEF StartQuery, QueryStep, Check, Compare, CollectRules, TestRules, AppendRules,
              EraseRules, PointDone, Compile, Rename, Reread, Store, Fetch, EndQuery, outside, loadVars
<1>2. CASE Cancel \/ Clear \/ UNCHANGED vars
  BY <1>2 DEF Cancel, Clear, vars
<1>3. CASE \E c \in Classes : Install(c)
  BY <1>3 DEF LoadNext
<1>4. CASE \E requested \in Requests : BeginLoadModules(requested)
  BY <1>4 DEF BeginLoadModules, LoadNext
<1>5. CASE \E n \in Names : RegisterModule(n)
  BY <1>5 DEF RegisterModule, LoadNext
<1>6. CASE ModulesLoaded \/ ModulesReady
  BY <1>6 DEF ModulesLoaded, ModulesReady, LoadNext
<1> QED
  BY <1>1, <1>2, <1>3, <1>4, <1>5, <1>6 DEF Next

\* So what is proved of ModuleLoading holds with the query threads around it.
THEOREM ThreadsDoNotLoad == Spec => LoadSpec
BY StepLoads, PTL DEF Spec, Init, LoadSpec

\* The loader's invariant, after a step.
LEMMA LoaderInv == IInv /\ [Next]_vars => IInv'
BY StepLoads, LoadNextInv

\* Initially there is no parser and no thread.
LEMMA ParserInitInv == Init => ParserInv
<1> SUFFICES ASSUME Init PROVE ParserInv
  OBVIOUS
<1>1. IInv /\ LoadTypeOK
  BY LoadInitInv DEF Init, IInv
<1>2. ParserTypeOK
  <2>1. /\ parser = NoParser /\ cached = NoParser /\ cachedNames = {} /\ clearing = <<>>
        /\ query = [q \in Queries |-> [at |-> "start", names |-> {}, built |-> NoParser]]
        /\ foreground = NoQuery /\ disturbed = FALSE
        /\ grammar = [q \in Queries |-> [left |-> 0, rules |-> {}, doubled |-> FALSE]]
        /\ extraRules = {} /\ crowded = {}
    BY DEF Init, At, NewGrammar
  <2>2. query \in [Queries -> [at : Places, names : SUBSET Names, built : Parsers]]
    BY <2>1 DEF Places, Parsers
  <2>3. disturbed \in BOOLEAN /\ \A q \in Queries : ~Assembling(q)
    BY <2>1 DEF Assembling, Assembly
  <2>4. grammar \in [Queries -> [left : Nat, rules : SUBSET Names, doubled : BOOLEAN]]
    BY <2>1
  <2> QED
    BY <1>1, <2>1, <2>2, <2>3, <2>4 DEF ParserTypeOK, GrammarTypeOK, Parsers
<1>3. \A q \in Queries : query[q].at = "start"
  BY DEF Init, At
<1>4. SharedCurrent /\ phase = "idle" /\ parser = NoParser
  BY <1>3 DEF Init, LoadInit, SharedCurrent, BuildsRegistered, Building, Places, Assembly
<1> QED
  BY <1>1, <1>2, <1>4 DEF ParserInv

-----------------------------------------------------------------------------
Assembles(q) == CollectRules(q) \/ TestRules(q) \/ AppendRules(q) \/ EraseRules(q)

\* To the rest of the engine, the steps that assemble a grammar only move their
\* thread on.
LEMMA AssemblyMoves ==
    ASSUME NEW q \in Queries, Assembles(q)
    PROVE  /\ UNCHANGED outside
           /\ query[q].at \in {"collect"} \union Assembly
           /\ \E place \in {"compile"} \union Assembly : Goto(q, place)
BY DEF Assembles, CollectRules, TestRules, AppendRules, EraseRules, PointDone, Assembly

\* There are finitely many extension points.
LEMMA PointsAreCounted ==
    ASSUME NEW names \in SUBSET Names
    PROVE  /\ Cardinality(PointsOf(names)) \in Nat
           /\ Cardinality(PointsOf(names)) = 0 => PointsOf(names) = {}
<1>1. PointsOf(names) \subseteq ExtensionPoints
  BY DEF PointsOf, Extended
<1>2. IsFiniteSet(ExtensionPoints)
  <2> DEFINE One == {"table_command"}
             Two == One \union {"connection_command"}
             Three == Two \union {"condition"}
  <2>1. IsFiniteSet(One)
    BY FS_Singleton
  <2>2. IsFiniteSet(Two)
    BY <2>1, FS_AddElement
  <2>3. IsFiniteSet(Three)
    BY <2>2, FS_AddElement
  <2>4. IsFiniteSet(Three \union {"param"})
    BY <2>3, FS_AddElement
  <2>5. ExtensionPoints = Three \union {"param"}
    BY DEF ExtensionPoints
  <2> QED
    BY <2>4, <2>5
<1>3. IsFiniteSet(PointsOf(names))
  BY <1>1, <1>2, FS_Subset
<1> QED
  BY <1>3, FS_CardinalityType, FS_EmptySet

Grammars == [left : Nat, rules : SUBSET Names, doubled : BOOLEAN]
\* The steps that assemble keep the types.
LEMMA AssemblyTypes ==
    ASSUME ParserTypeOK, NEW q \in Queries, Assembles(q)
    PROVE  GrammarTypeOK'
<1> USE DEF Goto, Assembly, Places, Assembling, Grammars
<1>0. /\ query \in [Queries -> [at : Places, names : SUBSET Names, built : Parsers]]
      /\ grammar \in [Queries -> Grammars]
      /\ extraRules \subseteq Names /\ crowded \subseteq Queries
      /\ \A p \in Queries : Assembling(p) => grammar[p].left > 0
  BY DEF ParserTypeOK, GrammarTypeOK
<1>1. CASE CollectRules(q)
  <2> DEFINE left == Cardinality(PointsOf(query[q].names))
  <2>1. left \in Nat
    BY <1>0, PointsAreCounted
  <2>2. /\ extraRules' = Extended(query[q].names)
        /\ grammar' = [grammar EXCEPT ![q] = NewGrammar(left)]
        /\ query' = [query EXCEPT ![q].at = IF left = 0 THEN "compile" ELSE "test"]
        /\ crowded' \subseteq Queries
    BY <1>0, <1>1 DEF CollectRules
  <2> HIDE DEF left
  <2>3. extraRules' \subseteq Names
    BY <1>0, <2>2 DEF Extended
  <2>4. NewGrammar(left) \in Grammars /\ NewGrammar(left).left = left
    BY <2>1 DEF NewGrammar
  <2>5. grammar' \in [Queries -> Grammars]
    BY <1>0, <2>2, <2>4
  <2>6. \A p \in Queries : Assembling(p)' => grammar'[p].left > 0
    BY <1>0, <2>1, <2>2, <2>4
  <2> QED
    BY <2>2, <2>3, <2>5, <2>6 DEF GrammarTypeOK, Grammars
<1>2. ASSUME PointDone(q, grammar[q].rules, grammar[q].doubled),
             extraRules' \subseteq Names, UNCHANGED crowded, query[q].at \in Assembly
      PROVE  GrammarTypeOK'
  <2> DEFINE left == grammar[q].left - 1
             new == [left |-> left, rules |-> grammar[q].rules, doubled |-> grammar[q].doubled]
  <2>1. left \in Nat
    BY <1>0, <1>2
  <2>2. /\ grammar' = [grammar EXCEPT ![q] = new]
        /\ query' = [query EXCEPT ![q].at = IF left = 0 THEN "compile" ELSE "test"]
    BY <1>2 DEF PointDone
  <2>3. new \in Grammars /\ new.left = left
    BY <1>0, <2>1
  <2> HIDE DEF left, new
  <2>4. grammar' \in [Queries -> Grammars]
    BY <1>0, <2>2, <2>3
  <2>5. \A p \in Queries : Assembling(p)' => grammar'[p].left > 0
    BY <1>0, <2>1, <2>2, <2>3
  <2> QED
    BY <1>0, <1>2, <2>4, <2>5 DEF GrammarTypeOK, Grammars
<1>3. CASE TestRules(q)
  <2>1. CASE extraRules # {}
    BY <1>0, <1>3, <2>1 DEF TestRules, GrammarTypeOK
  <2>2. CASE extraRules = {}
    BY <1>0, <1>2, <1>3, <2>2 DEF TestRules
  <2> QED
    BY <2>1, <2>2
<1>4. CASE AppendRules(q)
  <2> DEFINE new == [grammar[q] EXCEPT !.rules = @ \union extraRules,
                             !.doubled = @ \/ grammar[q].rules \intersect extraRules # {}]
  <2>1. new \in Grammars /\ new.left = grammar[q].left
    BY <1>0
  <2>2. /\ grammar' = [grammar EXCEPT ![q] = new]
        /\ query' = [query EXCEPT ![q].at = "erase"] /\ query[q].at = "append"
        /\ UNCHANGED <<extraRules, crowded>>
    BY <1>4 DEF AppendRules
  <2> HIDE DEF new
  <2>3. grammar' \in [Queries -> Grammars]
    BY <1>0, <2>1, <2>2
  <2>4. \A p \in Queries : Assembling(p)' => grammar'[p].left > 0
    BY <1>0, <2>1, <2>2
  <2> QED
    BY <1>0, <2>2, <2>3, <2>4 DEF GrammarTypeOK, Grammars
<1>5. CASE EraseRules(q)
  BY <1>2, <1>5 DEF EraseRules
<1> QED
  BY <1>1, <1>3, <1>4, <1>5 DEF Assembles

\* Other steps do not touch what is assembled, and put no thread to it.
LEMMA OtherTypes ==
    ASSUME ParserTypeOK, UNCHANGED grammarVars,
           \A p \in Queries : Assembling(p)' => Assembling(p)
    PROVE  GrammarTypeOK'
BY DEF ParserTypeOK, GrammarTypeOK, grammarVars

\* A step of a thread keeps the types.
LEMMA ThreadTypes ==
    ASSUME ParserInv, LoadTypeOK', NEW q \in Queries, StartQuery(q) \/ QueryStep(q)
    PROVE  ParserTypeOK'
<1> DEFINE Locals == [at : Places, names : SUBSET Names, built : Parsers]
<1>0. /\ ParserTypeOK /\ Registered \subseteq Names /\ query \in [Queries -> Locals]
      /\ \A place \in Places : [query EXCEPT ![q].at = place] \in [Queries -> Locals]
      /\ [query EXCEPT ![q] = At("done")] \in [Queries -> Locals]
  <2>1. ParserTypeOK /\ Registered \subseteq Names /\ query \in [Queries -> Locals]
    BY DEF ParserInv, ParserTypeOK, Registered, Present
  <2>2. At("done") \in Locals
    BY DEF At, Places, Parsers
  <2> QED
    BY <2>1, <2>2
<1>p. /\ {"check", "compare", "collect", "compile", "rename", "reread", "store", "fetch", "parse",
          "done"} \union Assembly \subseteq Places
      /\ {"check", "compare", "collect", "compile", "rename", "reread", "store", "fetch", "parse",
          "done"} \intersect Assembly = {}
  BY DEF Places, Assembly
<1> USE DEF Goto, Ends, Parsers, loadVars, outside
<1>1. CASE StartQuery(q)
  BY <1>0, <1>1, <1>p, OtherTypes DEF StartQuery, ParserTypeOK, Assembling
<1>2. CASE Check(q)
  <2>1. CASE parser # NoParser
    BY <1>0, <1>2, <1>p, <2>1, OtherTypes DEF Check, ParserTypeOK, Assembling
  <2>2. CASE parser = NoParser
    <3>1. /\ query' = [query EXCEPT ![q].at = "compare", ![q].names = Registered]
          /\ UNCHANGED <<outside, grammarVars>>
      BY <1>2, <2>2 DEF Check
    <3>2. query' \in [Queries -> Locals]
      <4> DEFINE moved == [query EXCEPT ![q].at = "compare"]
      <4>1. moved \in [Queries -> Locals] /\ Registered \in SUBSET Names
        BY <1>0, <1>p
      <4>2. query' = [moved EXCEPT ![q].names = Registered]
        BY <1>0, <3>1
      <4> HIDE DEF moved
      <4> QED
        BY <4>1, <4>2
    <3>3. GrammarTypeOK'
      BY <1>0, <1>p, <3>1, OtherTypes DEF Assembling
    <3> QED
      BY <1>0, <3>1, <3>2, <3>3 DEF ParserTypeOK
  <2> QED
    BY <2>1, <2>2
<1>3. CASE Compare(q)
  <2>1. PICK place \in {"reread", "collect"} : query' = [query EXCEPT ![q].at = place]
    BY <1>3 DEF Compare
  <2>2. UNCHANGED <<outside, grammarVars>>
    BY <1>3 DEF Compare
  <2> QED
    BY <1>0, <1>p, <2>1, <2>2, OtherTypes DEF ParserTypeOK, Assembling
<1>4. CASE Compile(q)
  <2>1. /\ grammar' = [grammar EXCEPT ![q] = NewGrammar(0)]
        /\ crowded' = crowded \ {q} /\ UNCHANGED extraRules
        /\ UNCHANGED <<loadVars, parser, cachedNames, clearing, disturbed>>
    BY <1>4 DEF Compile
  <2>2. grammar' \in [Queries -> Grammars]
    BY <1>0, <2>1 DEF ParserTypeOK, GrammarTypeOK, Grammars, NewGrammar
  <2>3. /\ \/ query' = [query EXCEPT ![q].at = "rename"]
           \/ query' = [query EXCEPT ![q] = At("done")]
        /\ foreground' \in {foreground, NoQuery} /\ cached' \in {cached, query[q].names}
    BY <1>4 DEF Compile
  <2>4. query' \in [Queries -> Locals] /\ query'[q].at \notin Assembly
    BY <1>0, <1>p, <2>3 DEF At
  <2>5. \A p \in Queries : Assembling(p)' => grammar'[p].left > 0
    BY <1>0, <2>1, <2>3, <2>4 DEF ParserTypeOK, GrammarTypeOK, Assembling
  <2>6. GrammarTypeOK'
    BY <1>0, <2>1, <2>2, <2>5 DEF ParserTypeOK, GrammarTypeOK, Grammars
  <2>7. cached' \in Parsers
    BY <1>0, <2>3 DEF ParserTypeOK
  <2> QED
    BY <1>0, <2>1, <2>3, <2>4, <2>6, <2>7 DEF ParserTypeOK
<1>a. CASE Assembles(q)
  <2>1. GrammarTypeOK'
    BY <1>0, <1>a, AssemblyTypes
  <2>2. PICK place \in {"compile"} \union Assembly : query' = [query EXCEPT ![q].at = place]
    BY <1>a, AssemblyMoves
  <2>3. query' \in [Queries -> Locals]
    BY <1>0, <1>p, <2>2
  <2>4. UNCHANGED outside
    BY <1>a, AssemblyMoves
  <2> QED
    BY <1>0, <2>1, <2>3, <2>4 DEF ParserTypeOK
<1>5. CASE Rename(q)
  BY <1>0, <1>5, <1>p, OtherTypes DEF Rename, ParserTypeOK, Assembling
<1>6. CASE Reread(q)
  BY <1>0, <1>6, <1>p, OtherTypes DEF Reread, ParserTypeOK, Assembling
<1>7. CASE Store(q)
  BY <1>0, <1>7, <1>p, OtherTypes DEF Store, ParserTypeOK, Assembling
<1>8. CASE Fetch(q)
  BY <1>0, <1>8, <1>p, OtherTypes DEF Fetch, ParserTypeOK, Assembling
<1>9. CASE EndQuery(q)
  BY <1>0, <1>9, <1>p, OtherTypes DEF EndQuery, ParserTypeOK, Assembling, At
<1> QED
  BY <1>1, <1>2, <1>3, <1>4, <1>5, <1>6, <1>7, <1>8, <1>9, <1>a DEF QueryStep, Assembles

\* Between two loads, a step of a thread leaves the shared fields current.
LEMMA ThreadShared ==
    ASSUME ParserTypeOK, SharedCurrent, NEW q \in Queries, StartQuery(q) \/ QueryStep(q)
    PROVE  SharedCurrent'
<1> USE DEF Goto, Ends, At, loadVars, Building, Places, Assembly, outside
<1>0. /\ query \in [Queries -> [at : Places, names : SUBSET Names, built : Parsers]]
      /\ Registered' = Registered /\ Registered # NoParser
      /\ \A p \in Queries : BuildsRegistered(p)
      /\ foreground \in Queries \union {NoQuery}
  <2>1. registered' = registered
    BY DEF StartQuery, QueryStep, Check, Compare, CollectRules, TestRules, AppendRules,
         EraseRules, PointDone, Compile, Ends, Rename, Reread, Store, Fetch, EndQuery, outside, grammarVars
  <2> QED
    BY <2>1 DEF ParserTypeOK, SharedCurrent, Registered, Present
<1>1. CASE StartQuery(q)
  BY <1>0, <1>1 DEF StartQuery, SharedCurrent, BuildsRegistered
<1>2. CASE Check(q)
  <2>1. CASE parser # NoParser
    BY <1>0, <1>2, <2>1 DEF Check, SharedCurrent, BuildsRegistered
  <2>2. CASE parser = NoParser
    BY <1>0, <1>2, <2>2 DEF Check, SharedCurrent, BuildsRegistered
  <2> QED
    BY <2>1, <2>2
<1>3. CASE Compare(q)
  BY <1>0, <1>3 DEF Compare, SharedCurrent, BuildsRegistered
<1>4. CASE Compile(q)
  <2>1. CASE Compiles(q)
    BY <1>0, <1>4, <2>1 DEF Compile, SharedCurrent, BuildsRegistered
  <2>2. CASE ~Compiles(q)
    BY <1>0, <1>4, <2>2 DEF Compile, SharedCurrent, BuildsRegistered
  <2> QED
    BY <2>1, <2>2
<1>a. CASE Assembles(q)
  <2>1. PICK place \in {"compile"} \union Assembly : query' = [query EXCEPT ![q].at = place]
    BY <1>a, AssemblyMoves
  <2>2. UNCHANGED outside /\ query[q].at \in {"collect"} \union Assembly
    BY <1>a, AssemblyMoves
  <2> QED
    BY <1>0, <2>1, <2>2 DEF SharedCurrent, BuildsRegistered
<1>5. CASE Rename(q)
  BY <1>0, <1>5 DEF Rename, SharedCurrent, BuildsRegistered
<1>6. CASE Reread(q)
  BY <1>0, <1>6 DEF Reread, SharedCurrent, BuildsRegistered
<1>7. CASE Store(q)
  BY <1>0, <1>7 DEF Store, SharedCurrent, BuildsRegistered
<1>8. CASE Fetch(q)
  BY <1>0, <1>8 DEF Fetch, SharedCurrent, BuildsRegistered
<1>9. CASE EndQuery(q)
  BY <1>0, <1>9 DEF EndQuery, SharedCurrent, BuildsRegistered
<1> QED
  BY <1>1, <1>2, <1>3, <1>4, <1>5, <1>6, <1>7, <1>8, <1>9, <1>a DEF QueryStep, Assembles

\* During a load no thread begins to build, and one that builds no parser
\* writes none of the shared fields.
LEMMA ThreadDuringLoad ==
    ASSUME ParserTypeOK, phase # "idle", ~SomeBuilding,
           NEW q \in Queries, StartQuery(q) \/ QueryStep(q)
    PROVE  /\ ~SomeBuilding'
           /\ UNCHANGED <<parser, cached, cachedNames, clearing>>
<1> USE DEF Goto, Ends, At, Building, SomeBuilding, Places, Assembly, ParserTypeOK, outside
<1>1. Fetch(q) \/ EndQuery(q)
  BY DEF StartQuery, QueryStep, Check, Compare, CollectRules, TestRules, AppendRules, EraseRules,
         Compile, Rename, Reread, Store
<1> QED
  BY <1>1 DEF Fetch, EndQuery

\* The query threads.
LEMMA ThreadStepInv ==
    ASSUME ParserInv, NEW q \in Queries, StartQuery(q) \/ QueryStep(q)
    PROVE  ParserInv'
<1>1. IInv' /\ LoadTypeOK'
  <2>1. IInv'
    BY LoaderInv DEF Next, ParserInv
  <2> QED
    BY <2>1 DEF IInv
<1>2. ParserTypeOK'
  BY <1>1, ThreadTypes
<1>3. /\ UNCHANGED <<loadVars, disturbed, clearing>>
      /\ phase' = phase
      /\ phase # "idle" => foreground' \in {foreground, NoQuery}
  BY DEF StartQuery, QueryStep, Check, Compare, CollectRules, TestRules, AppendRules,
         EraseRules, PointDone, Compile, Ends, Rename, Reread, Store, Fetch, EndQuery, outside, grammarVars,
         loadVars
<1>4. ~disturbed /\ phase = "idle" => SharedCurrent'
  BY ThreadShared DEF ParserInv
<1>5. ~disturbed /\ phase # "idle" =>
          ~SomeBuilding' /\ UNCHANGED <<parser, cached, cachedNames, clearing>>
  BY ThreadDuringLoad DEF ParserInv
<1> QED
  BY <1>1, <1>2, <1>3, <1>4, <1>5 DEF ParserInv, ClearedSoFar

-----------------------------------------------------------------------------
\* The main thread: it gives up a query, or packages are installed.
LEMMA CancelInv ==
    ASSUME ParserInv, Cancel \/ (\E c \in Classes : Install(c) /\ UNCHANGED parserVars)
                             \/ UNCHANGED vars
    PROVE  ParserInv'
<1>1. IInv' /\ LoadTypeOK'
  <2>1. IInv'
    BY LoaderInv DEF Next, ParserInv
  <2> QED
    BY <2>1 DEF IInv
<1>2. /\ UNCHANGED <<registered, phase, parser, cached, cachedNames, clearing, query, disturbed>>
      /\ foreground' \in {foreground, NoQuery}
  BY DEF Cancel, Install, vars, loadVars, parserVars
<1>3. ParserTypeOK'
  <2>1. GrammarTypeOK'
    BY OtherTypes DEF ParserInv, Assembling, Cancel, Install, vars, parserVars
  <2> QED
    BY <1>1, <1>2, <2>1 DEF ParserInv, ParserTypeOK
<1>4. SharedCurrent => SharedCurrent'
  BY <1>2 DEF SharedCurrent, BuildsRegistered, Building, Registered, Present
<1> QED
  BY <1>1, <1>2, <1>3, <1>4 DEF ParserInv, SomeBuilding, Building, ClearedSoFar

\* A load begins: if it gets to the modules, the history says who is building.
LEMMA BeginLoadModulesInv ==
    ASSUME ParserInv, NEW requested \in Requests, BeginLoadModules(requested)
    PROVE  ParserInv'
<1>1. IInv' /\ LoadTypeOK'
  <2>1. IInv'
    BY LoaderInv DEF Next, ParserInv
  <2> QED
    BY <2>1 DEF IInv
<1>2. /\ UNCHANGED <<registered, parser, cached, cachedNames, clearing, query, foreground>>
      /\ foreground = NoQuery /\ phase = "idle"
      /\ \/ phase' = "registering" /\ disturbed' = SomeBuilding
         \/ phase' = "idle" /\ disturbed' = disturbed
  <2>1. phase' = phase \/ phase' = "registering"
    BY DEF BeginLoadModules, BeginLoad
  <2> QED
    BY <2>1 DEF BeginLoadModules, BeginLoad
<1>3. SomeBuilding' <=> SomeBuilding
  BY <1>2 DEF SomeBuilding, Building
<1>4. disturbed' \in BOOLEAN
  BY <1>2 DEF ParserInv, ParserTypeOK, SomeBuilding
<1>5. ParserTypeOK'
  <2>1. GrammarTypeOK'
    BY OtherTypes DEF ParserInv, Assembling, BeginLoadModules
  <2> QED
    BY <1>1, <1>2, <1>4, <2>1 DEF ParserInv, ParserTypeOK
<1>6. SharedCurrent => SharedCurrent'
  BY <1>2 DEF SharedCurrent, BuildsRegistered, Building, Registered, Present
<1> QED
  BY <1>1, <1>2, <1>3, <1>5, <1>6 DEF ParserInv

\* A module is registered, or the load raises and is remembered.
LEMMA RegisterModuleInv ==
    ASSUME ParserInv, NEW n \in Names, RegisterModule(n)
    PROVE  ParserInv'
<1>1. IInv' /\ LoadTypeOK'
  <2>1. IInv'
    BY LoaderInv DEF Next, ParserInv
  <2> QED
    BY <2>1 DEF IInv
<1>2. /\ UNCHANGED <<parser, cached, cachedNames, clearing, query, foreground>>
      /\ phase = "registering" /\ phase' \in {"registering", "idle"}
      /\ disturbed' = (disturbed \/ phase' = "idle")
  BY DEF RegisterModule, Register
<1>3. ParserTypeOK'
  <2>1. GrammarTypeOK'
    BY OtherTypes DEF ParserInv, Assembling, RegisterModule
  <2> QED
    BY <1>1, <1>2, <2>1 DEF ParserInv, ParserTypeOK
<1>4. SomeBuilding' <=> SomeBuilding
  BY <1>2 DEF SomeBuilding, Building
<1> QED
  BY <1>1, <1>2, <1>3, <1>4 DEF ParserInv

\* After the loop the three fields are cleared, then load_modules returns.
LEMMA ModulesLoadedInv ==
    ASSUME ParserInv, ModulesLoaded \/ Clear \/ ModulesReady
    PROVE  ParserInv'
<1>1. IInv' /\ LoadTypeOK'
  <2>1. IInv'
    BY LoaderInv DEF Next, ParserInv
  <2> QED
    BY <2>1 DEF IInv
<1>g. GrammarTypeOK'
  BY OtherTypes DEF ParserInv, Assembling, ModulesLoaded, Clear, ModulesReady, parserVars
<1>2. CASE ModulesLoaded
  <2>1. /\ UNCHANGED <<parser, cached, cachedNames, query, foreground, disturbed>>
        /\ phase = "registering" /\ phase' = "loaded"
        /\ clearing' = <<"cached", "cachedNames", "parser">>
    BY <1>2 DEF ModulesLoaded, LoadReturns
  <2>2. ParserTypeOK'
    BY <1>1, <1>g, <2>1 DEF ParserInv, ParserTypeOK
  <2>3. ClearedSoFar'
    BY <2>1 DEF ClearedSoFar
  <2> QED
    BY <1>1, <2>1, <2>2, <2>3 DEF ParserInv, SomeBuilding, Building
<1>3. CASE Clear
  <2>1. /\ UNCHANGED <<loadVars, query, foreground, disturbed>>
        /\ phase = "loaded" /\ phase' = "loaded"
    BY <1>3 DEF Clear, loadVars
  <2>2. /\ cached' = IF Head(clearing) = "cached" THEN NoParser ELSE cached
        /\ cachedNames' = IF Head(clearing) = "cachedNames" THEN {} ELSE cachedNames
        /\ parser' = IF Head(clearing) = "parser" THEN NoParser ELSE parser
        /\ clearing' = Tail(clearing) /\ clearing # <<>>
    BY <1>3 DEF Clear
  <2>3. /\ clearing \in {<<"cached", "cachedNames", "parser">>, <<"cachedNames", "parser">>,
                        <<"parser">>, <<>>}
        /\ cached \in Parsers /\ cachedNames \subseteq Names /\ parser \in Parsers
        /\ ~disturbed => ClearedSoFar
    BY <2>1 DEF ParserInv, ParserTypeOK
  <2>4. /\ cached' \in Parsers /\ cachedNames' \subseteq Names /\ parser' \in Parsers
        /\ clearing' \in {<<"cached", "cachedNames", "parser">>, <<"cachedNames", "parser">>,
                         <<"parser">>, <<>>}
        /\ ~disturbed => ClearedSoFar'
    <3>1. cached' \in Parsers /\ cachedNames' \subseteq Names /\ parser' \in Parsers
      BY <2>2, <2>3 DEF Parsers
    <3>2. CASE clearing = <<"cached", "cachedNames", "parser">>
      <4>1. cached' = NoParser /\ clearing' = <<"cachedNames", "parser">> /\ clearing' # <<>>
        BY <2>2, <3>2
      <4> QED
        BY <3>1, <4>1 DEF ClearedSoFar
    <3>3. CASE clearing = <<"cachedNames", "parser">>
      <4>1. cached' = cached /\ clearing' = <<"parser">> /\ clearing' # <<>>
        BY <2>2, <3>3
      <4>2. ~disturbed => cached = NoParser
        BY <2>3, <3>3 DEF ClearedSoFar
      <4> QED
        BY <3>1, <4>1, <4>2 DEF ClearedSoFar
    <3>4. CASE clearing = <<"parser">>
      <4>1. cached' = cached /\ parser' = NoParser /\ clearing' = <<>>
        BY <2>2, <3>4
      <4>2. ~disturbed => cached = NoParser
        BY <2>3, <3>4 DEF ClearedSoFar
      <4> QED
        BY <3>1, <4>1, <4>2 DEF ClearedSoFar
    <3> QED
      BY <2>2, <2>3, <3>2, <3>3, <3>4
  <2>5. ParserTypeOK'
    BY <1>1, <1>g, <2>1, <2>4 DEF ParserInv, ParserTypeOK
  <2> QED
    BY <1>1, <2>1, <2>4, <2>5 DEF ParserInv, SomeBuilding, Building
<1>4. CASE ModulesReady
  <2>1. /\ UNCHANGED parserVars
        /\ clearing = <<>> /\ phase = "loaded" /\ phase' = "idle"
    BY <1>4 DEF ModulesReady, Return
  <2>2. ParserTypeOK'
    BY <1>1, <1>g, <2>1 DEF ParserInv, ParserTypeOK, parserVars
  <2>3. ~disturbed => SharedCurrent'
    <3>1. ~disturbed => /\ cached' = NoParser /\ parser' = NoParser /\ foreground' = NoQuery
                        /\ \A q \in Queries : ~Building(q)'
      BY <2>1 DEF ParserInv, ClearedSoFar, SomeBuilding, Building, parserVars
    <3> QED
      BY <3>1 DEF SharedCurrent, BuildsRegistered, Building, Places, Assembly
  <2> QED
    BY <1>1, <2>1, <2>2, <2>3 DEF ParserInv, parserVars
<1> QED
  BY <1>2, <1>3, <1>4

-----------------------------------------------------------------------------
\* The invariant holds in every reachable state.
LEMMA ParserInvariance == Spec => []ParserInv
<1>1. ParserInv /\ [Next]_vars => ParserInv'
  BY ThreadStepInv, CancelInv, BeginLoadModulesInv, RegisterModuleInv, ModulesLoadedInv DEF Next
<1> QED
  BY ParserInitInv, <1>1, PTL DEF Spec

\* The engine's and the grammar builder's fields and the threads' locals are
\* well formed.
THEOREM ParserTypeCorrect == Spec => []ParserTypeOK
BY ParserInvariance, PTL DEF ParserInv

\* The grammar builder's cache holds the parser of the names it is filed under,
\* however many abandoned queries build parsers at the same time.
THEOREM CacheAlwaysFiledRightly == Spec => []CacheFiledRightly
<1>1. ParserInv => CacheFiledRightly
  BY DEF ParserInv, SharedCurrent, CacheFiledRightly
<1> QED
  BY ParserInvariance, <1>1, PTL

\* The user's script is parsed with the extensions of exactly the registered
\* modules.
THEOREM AlwaysParsesWithRegistered == Spec => ParsesWithRegistered
<1> DEFINE Parsed == \A q \in Queries :
               query[q].at = "fetch" /\ query'[q].at = "parse" /\ foreground = q /\ ~disturbed
                   => query'[q].built = Registered
<1>1. ParserInv /\ [Next]_vars => Parsed
  <2> SUFFICES ASSUME ParserInv, [Next]_vars, NEW q \in Queries,
                      query[q].at = "fetch", query'[q].at = "parse", foreground = q, ~disturbed
               PROVE  query'[q].built = Registered
    OBVIOUS
  <2>1. phase = "idle" /\ parser = Registered
    BY DEF ParserInv, SharedCurrent
  <2>2. query \in [Queries -> [at : Places, names : SUBSET Names, built : Parsers]]
    BY DEF ParserInv, ParserTypeOK
  <2>3. PICK p \in Queries : StartQuery(p) \/ QueryStep(p)
    <3>1. query' # query
      OBVIOUS
    <3> QED
      BY <3>1 DEF Next, Cancel, BeginLoadModules, RegisterModule, ModulesLoaded, Clear,
                  ModulesReady, parserVars, vars
  <2>4. Fetch(q)
    BY <2>2, <2>3 DEF StartQuery, QueryStep, Check, Compare, CollectRules, TestRules, AppendRules,
                      EraseRules, PointDone, Compile, Ends, At, Rename, Reread, Store, Fetch,
                      EndQuery, Goto
  <2> QED
    BY <2>1, <2>2, <2>4 DEF Fetch
<1> QED
  BY ParserInvariance, <1>1, PTL DEF Spec, ParsesWithRegistered

-----------------------------------------------------------------------------
\* The assembly of a grammar, undisturbed

Own(q) == Extended(query[q].names)

\* Where the rules of a thread's modules are when no other thread has
\* interfered: in the shared field or in its text, never in neither, and in both
\* only until they are erased.
Assembled(q) ==
    /\ query[q].at \in Assembly \union {"compile"} => ~grammar[q].doubled
    /\ query[q].at = "test" => \/ grammar[q].rules = {} /\ extraRules = Own(q)
                               \/ grammar[q].rules = Own(q) /\ extraRules = {}
    /\ query[q].at = "append" => grammar[q].rules = {} /\ extraRules = Own(q)
    /\ query[q].at = "erase" => grammar[q].rules = Own(q) /\ extraRules = Own(q)
    /\ query[q].at = "compile" => \/ grammar[q].rules = Own(q)
                                  \/ grammar[q].rules = {} /\ PointsOf(query[q].names) = {}

AssemblyInv ==
    /\ \A q \in Queries : query[q].names \subseteq Registered
    /\ \A p, q \in Queries : p # q /\ Assembling(p) /\ Assembling(q) => {p, q} \subseteq crowded
    /\ \A q \in Queries \ crowded : Assembled(q)

\* What a thread's modules contribute does not change under it.
LEMMA OwnKept ==
    ASSUME ParserInv, [Next]_vars, NEW q \in Queries, query[q].names \subseteq Registered,
           query'[q].names = query[q].names
    PROVE  /\ Own(q)' = Own(q) /\ PointsOf(query[q].names)' = PointsOf(query[q].names)
           /\ query'[q].names \subseteq Registered'
<1>1. \A n \in Registered : registered'[n] = registered[n] /\ n \in Registered'
  <2> SUFFICES ASSUME NEW n \in Registered
               PROVE  registered'[n] = registered[n] /\ n \in Registered'
    OBVIOUS
  <2>1. n \in Names /\ registered[n] # NoClass
    BY DEF Registered, Present
  <2>2. registered'[n] = registered[n]
    BY <2>1, StepLoads, StepKeeps DEF ParserInv
  <2> QED
    BY <2>1, <2>2 DEF Registered, Present
<1>2. Own(q)' = Own(q) /\ \A n \in Own(q) : registered'[n] = registered[n]
  BY <1>1 DEF Own, Extended
<1>3. PointsOf(query[q].names) = UNION {Points[registered[n]] : n \in Own(q)}
  BY DEF PointsOf, Own
<1>4. PointsOf(query[q].names)' = UNION {Points[registered'[n]] : n \in Own(q)}
  BY <1>2 DEF PointsOf, Own
<1>5. PointsOf(query[q].names)' = PointsOf(query[q].names)
  BY <1>2, <1>3, <1>4
<1> QED
  BY <1>1, <1>2, <1>5

\* A step that neither touches what is assembled nor sends a thread to assemble
\* or compile.
LEMMA AssemblyKept ==
    ASSUME ParserInv, AssemblyInv, [Next]_vars, UNCHANGED grammarVars,
           \A q \in Queries : query'[q].names \in {query[q].names, {}, Registered},
           \A q \in Queries : query'[q].at \in Assembly \union {"compile"} => query'[q] = query[q]
    PROVE  AssemblyInv'
<1>1. \A q \in Queries : query'[q].names \subseteq Registered'
  <2>1. Registered \subseteq Registered'
    <3> SUFFICES ASSUME NEW n \in Registered PROVE n \in Registered'
      OBVIOUS
    <3>1. n \in Names /\ registered[n] # NoClass
      BY DEF Registered, Present
    <3> QED
      BY <3>1, StepLoads, StepKeeps DEF ParserInv, Registered, Present
  <2> QED
    BY <2>1 DEF AssemblyInv
<1>2. \A p, q \in Queries : (p # q /\ Assembling(p) /\ Assembling(q))' => {p, q} \subseteq crowded'
  BY DEF AssemblyInv, Assembling, grammarVars
<1>3. ASSUME NEW q \in Queries \ crowded'
      PROVE  Assembled(q)'
  <2>1. CASE query'[q].at \in Assembly \union {"compile"}
    <3>1. /\ UNCHANGED <<extraRules, grammar, crowded>> /\ query'[q] = query[q]
          /\ Own(q)' = Own(q) /\ PointsOf(query[q].names)' = PointsOf(query[q].names)
      BY <2>1, OwnKept DEF AssemblyInv, grammarVars
    <3>2. Assembled(q)
      BY <1>3, <3>1 DEF AssemblyInv
    <3> QED
      BY <3>1, <3>2 DEF Assembled
  <2>2. CASE query'[q].at \notin Assembly \union {"compile"}
    BY <2>2 DEF Assembled, Assembly
  <2> QED
    BY <2>1, <2>2
<1> QED
  BY <1>1, <1>2, <1>3 DEF AssemblyInv

\* The four steps of assembly.
LEMMA AssemblesInv ==
    ASSUME ParserInv, AssemblyInv, NEW q \in Queries, Assembles(q)
    PROVE  AssemblyInv'
<1>1. /\ query \in [Queries -> [at : Places, names : SUBSET Names, built : Parsers]]
      /\ grammar \in [Queries -> Grammars]
  BY DEF ParserInv, ParserTypeOK, GrammarTypeOK, Grammars
<1>2. /\ UNCHANGED outside /\ query[q].at \in {"collect"} \union Assembly
      /\ \E place \in {"compile"} \union Assembly : query' = [query EXCEPT ![q].at = place]
  BY AssemblyMoves DEF Goto
<1>3. \A p \in Queries : /\ query'[p].names = query[p].names
                         /\ p # q => query'[p] = query[p] /\ grammar'[p] = grammar[p]
  BY <1>1, <1>2 DEF Assembles, CollectRules, TestRules, AppendRules, EraseRules, PointDone
<1>4. Registered' = Registered /\ registered' = registered
  BY <1>2 DEF outside, loadVars, Registered, Present
<1>5. \A p \in Queries : /\ Own(p)' = Own(p)
                         /\ PointsOf(query[p].names)' = PointsOf(query[p].names)
  BY <1>3, <1>4 DEF Own, Extended, PointsOf
<1>6. \A p \in Queries : query'[p].names \subseteq Registered'
  BY <1>3, <1>4 DEF AssemblyInv
<1>7. \A p \in Queries \ {q} : Assembling(p) => {p, q} \subseteq crowded'
  <2>1. CASE CollectRules(q)
    BY <2>1 DEF CollectRules
  <2>2. CASE ~CollectRules(q)
    <3>1. crowded' = crowded /\ Assembling(q)
      BY <2>2 DEF Assembles, TestRules, AppendRules, EraseRules, Assembling, Assembly
    <3> QED
      BY <3>1 DEF AssemblyInv
  <2> QED
    BY <2>1, <2>2
<1>8. \A p \in Queries \ {q} : p \in crowded => p \in crowded'
  BY DEF Assembles, CollectRules, TestRules, AppendRules, EraseRules
<1>9. \A r, p \in Queries : (r # p /\ Assembling(r) /\ Assembling(p))' => {r, p} \subseteq crowded'
  BY <1>3, <1>7, <1>8 DEF AssemblyInv, Assembling
<1>10. ASSUME NEW p \in Queries \ crowded'
       PROVE  Assembled(p)'
  <2>1. CASE p # q
    <3>1. ~Assembling(p) /\ Assembled(p)
      BY <1>7, <1>8, <1>10, <2>1 DEF AssemblyInv
    <3> QED
      BY <1>3, <1>5, <2>1, <3>1 DEF Assembled, Assembling, Assembly
  <2>2. CASE p = q
    <3>1. CASE CollectRules(q)
      <4> DEFINE left == Cardinality(PointsOf(query[q].names))
      <4>1. left = 0 => PointsOf(query[q].names) = {}
        BY <1>1, PointsAreCounted
      <4>2. /\ extraRules' = Own(q) /\ grammar'[q] = NewGrammar(left)
            /\ query'[q].at = IF left = 0 THEN "compile" ELSE "test"
        BY <1>1, <3>1 DEF CollectRules, Goto, Own
      <4> HIDE DEF left
      <4> QED
        BY <1>3, <1>5, <2>2, <4>1, <4>2 DEF Assembled, NewGrammar, Assembly
    <3>2. CASE ~CollectRules(q)
      <4>1. Assembled(q) /\ query[q].at \in Assembly
        BY <1>10, <2>2, <3>2 DEF AssemblyInv, Assembles, TestRules, AppendRules, EraseRules, Assembly
      <4>2. CASE TestRules(q)
        <5>1. CASE extraRules # {}
          <6>1. /\ query[q].at = "test" /\ query'[q].at = "append"
                /\ UNCHANGED <<grammar, extraRules>>
            BY <1>1, <4>2, <5>1 DEF TestRules, Goto
          <6> QED
            BY <1>5, <2>2, <4>1, <5>1, <6>1 DEF Assembled, Assembly
        <5>2. CASE extraRules = {}
          <6>1. /\ query[q].at = "test" /\ query'[q].at \in {"compile", "test"}
                /\ grammar'[q].rules = grammar[q].rules /\ grammar'[q].doubled = grammar[q].doubled
                /\ UNCHANGED extraRules
            BY <1>1, <4>2, <5>2 DEF TestRules, PointDone, Goto
          <6> QED
            BY <1>5, <2>2, <4>1, <5>2, <6>1 DEF Assembled, Assembly
        <5> QED
          BY <5>1, <5>2
      <4>3. CASE AppendRules(q)
        <5>1. /\ query[q].at = "append" /\ query'[q].at = "erase" /\ UNCHANGED extraRules
              /\ grammar'[q].rules = grammar[q].rules \union extraRules
          BY <1>1, <4>3 DEF AppendRules, Goto, Grammars
        <5>2. /\ grammar[q].rules = {} /\ extraRules = Own(q) /\ ~grammar[q].doubled
          BY <4>1, <5>1 DEF Assembled
        <5>3. ~grammar'[q].doubled
          BY <1>1, <4>3, <5>2 DEF AppendRules, Grammars
        <5> QED
          BY <1>5, <2>2, <5>1, <5>2, <5>3 DEF Assembled, Assembly
      <4>4. CASE EraseRules(q)
        <5>1. /\ query[q].at = "erase" /\ query'[q].at \in {"compile", "test"}
              /\ grammar'[q].rules = grammar[q].rules /\ grammar'[q].doubled = grammar[q].doubled
              /\ extraRules' = {}
          BY <1>1, <4>4 DEF EraseRules, PointDone, Goto
        <5> QED
          BY <1>5, <2>2, <4>1, <5>1 DEF Assembled, Assembly
      <4> QED
        BY <3>2, <4>2, <4>3, <4>4 DEF Assembles
    <3> QED
      BY <3>1, <3>2
  <2> QED
    BY <2>1, <2>2
<1> QED
  BY <1>6, <1>9, <1>10 DEF AssemblyInv

\* The thread that compiles takes nobody's rules.
LEMMA CompileInv ==
    ASSUME ParserInv, AssemblyInv, NEW q \in Queries, Compile(q)
    PROVE  AssemblyInv'
<1>1. /\ query \in [Queries -> [at : Places, names : SUBSET Names, built : Parsers]]
      /\ grammar \in [Queries -> Grammars]
  BY DEF ParserInv, ParserTypeOK, GrammarTypeOK, Grammars
<1>2. /\ query'[q].at \in {"rename", "done"} /\ query'[q].names \in {query[q].names, {}}
      /\ \A p \in Queries \ {q} : query'[p] = query[p] /\ grammar'[p] = grammar[p]
      /\ UNCHANGED <<loadVars, extraRules>> /\ crowded' = crowded \ {q}
  BY <1>1 DEF Compile, Goto, Ends, At
<1>3. Registered' = Registered /\ registered' = registered
  BY <1>2 DEF loadVars, Registered, Present
<1>4. \A p \in Queries \ {q} : /\ Own(p)' = Own(p)
                               /\ PointsOf(query[p].names)' = PointsOf(query[p].names)
  BY <1>2, <1>3 DEF Own, Extended, PointsOf
<1>5. \A p \in Queries : query'[p].names \subseteq Registered'
  BY <1>2, <1>3 DEF AssemblyInv
<1>6. \A r, p \in Queries : (r # p /\ Assembling(r) /\ Assembling(p))' => {r, p} \subseteq crowded'
  BY <1>2 DEF AssemblyInv, Assembling, Assembly
<1>7. ASSUME NEW p \in Queries \ crowded'
      PROVE  Assembled(p)'
  <2>1. CASE p = q
    BY <1>2, <2>1 DEF Assembled, Assembly
  <2>2. CASE p # q
    BY <1>2, <1>4, <1>7, <2>2 DEF AssemblyInv, Assembled
  <2> QED
    BY <2>1, <2>2
<1> QED
  BY <1>5, <1>6, <1>7 DEF AssemblyInv

\* Every step.
LEMMA AssemblyNextInv == ParserInv /\ AssemblyInv /\ [Next]_vars => AssemblyInv'
<1> SUFFICES ASSUME ParserInv, AssemblyInv, [Next]_vars PROVE AssemblyInv'
  OBVIOUS
<1>1. query \in [Queries -> [at : Places, names : SUBSET Names, built : Parsers]]
  BY DEF ParserInv, ParserTypeOK
<1>2. CASE UNCHANGED <<query, grammarVars>>
  BY <1>2, AssemblyKept
<1>3. ASSUME NEW q \in Queries, StartQuery(q) \/ QueryStep(q)
      PROVE  AssemblyInv'
  <2>1. CASE Assembles(q)
    BY <2>1, AssemblesInv
  <2>2. CASE Compile(q)
    BY <2>2, CompileInv
  <2>3. CASE ~Assembles(q) /\ ~Compile(q)
    <3>1. /\ UNCHANGED grammarVars
          /\ query'[q].at \notin Assembly \union {"compile"}
          /\ query'[q].names \in {query[q].names, {}, Registered}
          /\ \A p \in Queries \ {q} : query'[p] = query[p]
      BY <1>1, <1>3, <2>3 DEF StartQuery, QueryStep, Assembles, Check, Compare, Rename, Reread,
                              Store, Fetch, EndQuery, Goto, Ends, At, Assembly
    <3> QED
      BY <3>1, AssemblyKept
  <2> QED
    BY <2>1, <2>2, <2>3
<1> QED
  BY <1>2, <1>3 DEF Next, Cancel, BeginLoadModules, RegisterModule, ModulesLoaded, Clear,
                    ModulesReady, parserVars, vars

\* Unless another thread assembles a grammar at the same time, a thread gets the
\* rules of each of its modules into its grammar once, and Lark raises only for
\* an extension that it rejects as such.
THEOREM LoneBuildsAlwaysSucceed == Spec => LoneBuildsSucceed
<1> DEFINE Succeeds == \A q \in Queries :
               BuildRaises(q) => \/ q \in crowded
                                 \/ \E n \in query[q].names : registered[n] \in BadGrammar
<1>1. Init => AssemblyInv
  <2> SUFFICES ASSUME Init PROVE AssemblyInv
    OBVIOUS
  <2>1. \A q \in Queries : query[q].at = "start" /\ query[q].names = {}
    BY DEF Init, At
  <2> QED
    BY <2>1 DEF AssemblyInv, Assembled, Assembling, Assembly
<1>2. ParserInv /\ AssemblyInv /\ [Next]_vars => Succeeds
  <2> SUFFICES ASSUME ParserInv, AssemblyInv, [Next]_vars, NEW q \in Queries, BuildRaises(q),
                      q \notin crowded, \A n \in query[q].names : registered[n] \notin BadGrammar
               PROVE  FALSE
    OBVIOUS
  <2>1. query \in [Queries -> [at : Places, names : SUBSET Names, built : Parsers]]
    BY DEF ParserInv, ParserTypeOK
  <2>2. PICK p \in Queries : StartQuery(p) \/ QueryStep(p)
    <3>1. query' # query
      BY DEF BuildRaises
    <3> QED
      BY <3>1 DEF Next, Cancel, BeginLoadModules, RegisterModule, ModulesLoaded, Clear,
                  ModulesReady, parserVars, vars
  <2>3. Compile(q)
    BY <2>1, <2>2 DEF BuildRaises, StartQuery, QueryStep, Check, Compare, CollectRules, TestRules,
                      AppendRules, EraseRules, PointDone, Compile, Ends, At, Rename, Reread, Store,
                      Fetch, EndQuery, Goto
  <2>4. ~Compiles(q)
    BY <2>1, <2>3 DEF BuildRaises, Compile, Goto
  <2>5. /\ ~grammar[q].doubled
        /\ \/ grammar[q].rules = Own(q)
           \/ grammar[q].rules = {} /\ PointsOf(query[q].names) = {}
    BY <2>3 DEF AssemblyInv, Assembled, Compile
  <2>6. \A n \in query[q].names : registered[n] \in Classes
    BY DEF AssemblyInv, Registered, Present, ParserInv, IInv, LoadTypeOK, Tables
  <2>7. \A n \in query[q].names : Points[registered[n]] # {} => n \in Own(q)
    BY <2>6 DEF Own, Extended
  <2>8. ASSUME PointsOf(query[q].names) = {}
        PROVE  \A n \in query[q].names : Points[registered[n]] = {}
    BY <2>7, <2>8 DEF PointsOf, Own
  <2>9. Own(q) \subseteq query[q].names
    BY DEF Own, Extended
  <2> QED
    BY <2>4, <2>5, <2>7, <2>8, <2>9 DEF Compiles
<1>3. Spec => []AssemblyInv
  BY <1>1, AssemblyNextInv, ParserInvariance, PTL DEF Spec
<1> QED
  BY <1>2, <1>3, ParserInvariance, PTL DEF Spec, LoneBuildsSucceed
=============================================================================
