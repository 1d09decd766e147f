--------------------------- MODULE ModuleLoading ---------------------------
(***************************************************************************)
(* ModuleLoader.load and the module table of ModuleRegistry.               *)
(*                                                                         *)
(* A load discovers the module classes (entry points, then the built-in    *)
(* directory), collects the requested names with everything they require,  *)
(* sorts them topologically, and validates and registers one module at a   *)
(* time.  It may raise at any point; what it has discovered and registered *)
(* by then stays.  Modules are looked up by the name they were discovered  *)
(* under and registered by the name in their manifest: these may differ.   *)
(***************************************************************************)
EXTENDS Integers, FiniteSets

CONSTANTS
    Names,          \* module names, discovered or given by a manifest
    Classes,        \* the UQALModule subclasses there are to discover
    Class,          \* Class[c]: what is known of class c, a member of Manifests
    Shipped,        \* the classes that are there from the start
    Requests,       \* the sets of names load is called with
    NoClass

Manifests == [key : Names,              \* the name it is discovered under
              name : Names,             \* manifest.name
              requires : SUBSET Names,  \* manifest.requires
              source : {"entry point", "builtin"},
              imports : BOOLEAN,        \* importing its file succeeds
              mapped : BOOLEAN]         \* an extension, or maps every core type

ASSUME LoadingAssumption ==
    /\ Class \in [Classes -> Manifests]
    /\ NoClass \notin Classes
    /\ Shipped \subseteq Classes
    /\ Requests \subseteq SUBSET Names
    /\ \A c, d \in Classes : Class[c].key = Class[d].key /\ Class[c].source = Class[d].source
                                => c = d

VARIABLES
    available,  \* classes installed as packages or present in modules/
    discovered, \* ModuleLoader._discovered
    registered, \* ModuleRegistry._modules
    phase,      \* "idle", "registering", or "loaded": load has returned
    toLoad,     \* the names the current load resolved
    pending,    \* those of them whose turn has not come
    group       \* those of them static_order yields next, in any order

loadVars == <<available, discovered, registered, phase, toLoad, pending, group>>

Tables == [Names -> Classes \union {NoClass}]
EmptyTable == [n \in Names |-> NoClass]
Present(table) == {n \in Names : table[n] # NoClass}

-----------------------------------------------------------------------------
\* Discovery

\* Seeded fault: what was discovered before is imported again.
FreshAgain(source, table) == {c \in available : Class[c].source = source}

Fresh(source, table) ==
    {c \in available : Class[c].source = source /\ table[Class[c].key] = NoClass}

Extend(table, new) ==
    [n \in Names |-> IF \E c \in new : Class[c].key = n
                     THEN CHOOSE c \in new : Class[c].key = n ELSE table[n]]

\* What a stage may leave in the table, and whether it returns: a class that
\* cannot be imported ends it, after any number of the others.
Stage(source, table) ==
    LET fresh == Fresh(source, table)
        broken == {c \in fresh : ~Class[c].imports}
    IN  IF broken = {}
        THEN {[table |-> Extend(table, fresh), returns |-> TRUE]}
        ELSE {[table |-> Extend(table, some), returns |-> FALSE] :
                 some \in SUBSET (fresh \ broken)}

Discoveries ==
    UNION {IF first.returns THEN Stage("builtin", first.table) ELSE {first} :
              first \in Stage("entry point", discovered)}

-----------------------------------------------------------------------------
\* Resolution

Requires(table, n) == IF table[n] = NoClass THEN {} ELSE Class[table[n]].requires

Closed(table, names) == \A n \in names : Requires(table, n) \subseteq names

\* The least closed set of names with the requested ones.
Resolved(table, requested) ==
    {n \in Names : \A names \in SUBSET Names :
        requested \subseteq names /\ Closed(table, names) => n \in names}

Cyclic(table, names) ==
    \E cycle \in SUBSET names :
        cycle # {} /\ \A n \in cycle : Requires(table, n) \intersect cycle # {}

\* Seeded fault: a group of the sort is everything left.
ReadyAnyOrder(table, names) == names

\* The names TopologicalSorter yields together.
Ready(table, names) == {n \in names : Requires(table, n) \intersect names = {}}

-----------------------------------------------------------------------------
\* A package is installed or a file is put into modules/ (external).
Install(c) ==
    /\ available' = available \union {c}
    /\ UNCHANGED <<discovered, registered, phase, toLoad, pending, group>>

\* load up to the loop over load_order, or its exception: a discovery that
\* raises, a name that was not discovered, a cycle.
BeginLoad(requested) ==
    /\ phase = "idle"
    /\ \E found \in Discoveries :
          LET names == Resolved(found.table, requested)
          IN  /\ discovered' = found.table
              /\ IF /\ found.returns
                    /\ names \subseteq Present(found.table)
                    /\ ~Cyclic(found.table, names)
                 THEN /\ phase' = "registering"
                      /\ toLoad' = names
                      /\ pending' = names
                      /\ group' = Ready(found.table, names)
                 ELSE UNCHANGED <<phase, toLoad, pending, group>>
    /\ UNCHANGED <<available, registered>>

\* Seeded fault: the modules a module requires are not looked up.
ValidWithoutRequired(c) ==
    /\ Class[c].mapped
    /\ registered[Class[c].name] = NoClass

\* _validate and the uniqueness check of register_module
Valid(c) ==
    /\ Class[c].mapped
    /\ \A n \in Class[c].requires : registered[n] # NoClass
    /\ registered[Class[c].name] = NoClass

\* Seeded fault: a module that is not valid is passed over.
RegisterValidOnly(n) ==
    LET c == discovered[n]
    IN  /\ phase = "registering" /\ n \in group
        /\ registered' = IF registered[n] = NoClass /\ Valid(c)
                         THEN [registered EXCEPT ![Class[c].name] = c] ELSE registered
        /\ pending' = pending \ {n}
        /\ group' = IF group = {n} THEN Ready(discovered, pending \ {n}) ELSE group \ {n}
        /\ UNCHANGED <<phase, available, discovered, toLoad>>

\* Seeded fault: no new group is taken from the sort.
RegisterFirstGroup(n) ==
    LET c == discovered[n]
    IN  /\ phase = "registering" /\ n \in group
        /\ registered' = IF registered[n] = NoClass /\ Valid(c)
                         THEN [registered EXCEPT ![Class[c].name] = c] ELSE registered
        /\ pending' = pending \ {n} /\ group' = group \ {n}
        /\ UNCHANGED <<phase, available, discovered, toLoad>>

\* Seeded fault: a name stays in its group after its turn.
RegisterStaysInGroup(n) ==
    LET c == discovered[n]
    IN  /\ phase = "registering" /\ n \in group
        /\ registered' = IF registered[n] = NoClass /\ Valid(c)
                         THEN [registered EXCEPT ![Class[c].name] = c] ELSE registered
        /\ pending' = pending \ {n}
        /\ group' = IF group = {n} THEN Ready(discovered, pending \ {n}) ELSE group
        /\ UNCHANGED <<phase, available, discovered, toLoad>>

\* One round of the loop: the name is registered already, or its class is
\* validated and registered, or load raises.
Register(n) ==
    LET c == discovered[n]
        rest == pending \ {n}
    IN  /\ phase = "registering" /\ n \in group
        /\ IF registered[n] # NoClass \/ Valid(c)
           THEN /\ registered' = IF registered[n] # NoClass THEN registered
                                 ELSE [registered EXCEPT ![Class[c].name] = c]
                /\ pending' = rest
                /\ group' = IF group = {n} THEN Ready(discovered, rest) ELSE group \ {n}
                /\ UNCHANGED <<phase, toLoad>>
           ELSE /\ phase' = "idle"
                /\ toLoad' = {} /\ pending' = {} /\ group' = {}
                /\ UNCHANGED registered
        /\ UNCHANGED <<available, discovered>>

LoadReturns ==
    /\ phase = "registering" /\ pending = {}
    /\ phase' = "loaded"
    /\ UNCHANGED <<available, discovered, registered, toLoad, pending, group>>

\* Engine.load_modules returns to its caller.
Return ==
    /\ phase = "loaded"
    /\ phase' = "idle"
    /\ UNCHANGED <<available, discovered, registered, toLoad, pending, group>>

-----------------------------------------------------------------------------
LoadInit ==
    /\ available = Shipped
    /\ discovered = EmptyTable
    /\ registered = EmptyTable
    /\ phase = "idle"
    /\ toLoad = {} /\ pending = {} /\ group = {}

LoadNext ==
    \/ \E c \in Classes : Install(c)
    \/ \E requested \in Requests : BeginLoad(requested)
    \/ \E n \in Names : Register(n)
    \/ LoadReturns
    \/ Return

LoadSpec == LoadInit /\ [][LoadNext]_loadVars

\* load is a loop without waits: once begun, it returns or raises.
FairLoadSpec ==
    /\ LoadSpec
    /\ WF_loadVars(\E n \in Names : Register(n))
    /\ WF_loadVars(LoadReturns)
    /\ WF_loadVars(Return)

-----------------------------------------------------------------------------
\* Properties

LoadTypeOK ==
    /\ available \subseteq Classes
    /\ discovered \in Tables
    /\ registered \in Tables
    /\ phase \in {"idle", "registering", "loaded"}
    /\ toLoad \subseteq Names /\ pending \subseteq toLoad /\ group \subseteq pending

\* Whatever loads were made and wherever they failed, the modules in the
\* registry find every module they require there, and each is registered by
\* the name its manifest gives.
RegistryClosed ==
    \A n \in Present(registered) :
        /\ Class[registered[n]].name = n
        /\ Class[registered[n]].requires \subseteq Present(registered)

\* When a module's turn has come, everything it requires is registered: the
\* sort leaves _validate_dependencies_loaded nothing to find, except a
\* requirement whose manifest gives it another name than the one it was
\* discovered and required under.
DependenciesFirst ==
    \A n \in group : \A d \in Requires(discovered, n) :
        registered[d] = NoClass => Class[discovered[d]].name # d

\* A load that returns has registered everything it resolved: by the name it
\* was asked for, or the class found under that name by the manifest's.
LoadIsComplete ==
    phase = "loaded" =>
        \A n \in toLoad : \/ registered[n] # NoClass
                          \/ registered[Class[discovered[n]].name] = discovered[n]

\* A registered or discovered class is never replaced or removed, not even by
\* a package of the same name installed later.
NothingReplaced ==
    [][\A n \in Names : /\ registered[n] # NoClass => registered'[n] = registered[n]
                        /\ discovered[n] # NoClass => discovered'[n] = discovered[n]]_loadVars

\* The loop always has a next module until all have had their turn: a set of
\* names without a cycle never leaves it waiting.
LoadEnds == phase = "registering" ~> phase = "idle"
=============================================================================
