---------------------------- MODULE SchemaCache ----------------------------
(***************************************************************************)
(* The schema of one connection: load_connections_into_engine with         *)
(* _sync_schema, CacheManager, and the executor's sync_schema and live     *)
(* list_tables.                                                            *)
(*                                                                         *)
(* Several uqal processes (REPLs, uqal run) share the cache file.  Each    *)
(* loads the connection when it starts: a fresh file is read, otherwise    *)
(* the schema is synced from the database, stored in memory and saved.     *)
(* Scripts are type-checked against the schema in memory, and the commands *)
(* of a script replace it.  Connections share nothing, so one is enough.   *)
(*                                                                         *)
(* A schema is the number of the migration it was read after.  The native  *)
(* connection is left out: a call to the module returns or raises.  The    *)
(* loader's auto_sync is True, as all its callers in src/ leave it.        *)
(***************************************************************************)
EXTENDS Integers

CONSTANTS
    Processes, NoProcess,
    Threads,        \* the query threads the processes have
    Ttl,            \* ttl_hours
    MaxVersion      \* bound: migrations of the database

ASSUME CacheAssumption == Ttl \in Nat /\ MaxVersion \in Nat /\ NoProcess \notin Processes

VARIABLES
    source,     \* the schema the database has
    file,       \* the cache file: saved, missing, emptied, or torn (not JSON)
    proc,       \* the processes: see ProcessStates
    command,    \* the sync command each thread runs, and what it has read
    outdated,   \* history: for how many hours each schema has not been the database's
    raced       \* history: threads whose sync overlapped another of their process

vars == <<source, file, proc, command, outdated, raced>>

Versions == 0..MaxVersion
NoSchema == -1
Current == -1                   \* the database still has this schema
Cap(hours) == IF hours > Ttl THEN Ttl + 1 ELSE hours

Missing == [is |-> "missing", version |-> NoSchema, age |-> 0]
Empty == [is |-> "empty", version |-> NoSchema, age |-> 0]
Torn == [is |-> "torn", version |-> NoSchema, age |-> 0]
Saved(v) == [is |-> "saved", version |-> v, age |-> 0]
Files == {Missing, Empty, Torn} \union
         [is : {"saved"}, version : Versions, age : 0..(Ttl + 1)]

Loading == {"register", "bind", "isExpired", "load", "fetch", "store", "truncate", "write"}

(***************************************************************************)
(* at        where the process is in load_connections_into_engine, "ready" *)
(*           after it, "off" when it does not run                          *)
(* registered, bound, schema   what its registries have of the connection  *)
(* expired, cached, synced     the loader's locals                         *)
(* unlinked  the file it has opened to save has been removed since         *)
(* failed    history: its load has warned                                  *)
(***************************************************************************)
Known == Versions \union {NoSchema}
ProcessStates == [at : Loading \union {"off", "ready"}, registered : BOOLEAN,
                  bound : BOOLEAN, schema : Known, expired : BOOLEAN, cached : Known,
                  synced : Known, unlinked : BOOLEAN, failed : BOOLEAN]
Off == [at |-> "off", registered |-> FALSE, bound |-> FALSE, schema |-> NoSchema,
        expired |-> FALSE, cached |-> NoSchema, synced |-> NoSchema,
        unlinked |-> FALSE, failed |-> FALSE]
Idle == [in |-> "idle", of |-> NoProcess, read |-> NoSchema]

-----------------------------------------------------------------------------
\* load_connections_into_engine

At(p, place) == proc[p].at = place
Goto(p, place) == proc' = [proc EXCEPT ![p].at = place]
Others == <<source, command, outdated, raced>>

Start(p) ==
    /\ At(p, "off")
    /\ Goto(p, "register")
    /\ UNCHANGED <<Others, file>>

\* A command that changes the configuration makes the REPL load it again.
Reload(p) ==
    /\ At(p, "ready")
    /\ Goto(p, "register")
    /\ UNCHANGED <<Others, file>>

\* Seeded fault: a connection that is registered is loaded again.
RegisterAgain(p) ==
    /\ At(p, "register")
    /\ proc' = [proc EXCEPT ![p].registered = TRUE, ![p].at = "bind"]
    /\ UNCHANGED <<Others, file>>

\* engine.connect: one that is registered raises, and the loader goes on to
\* the next connection.
Register(p) ==
    /\ At(p, "register")
    /\ proc' = [proc EXCEPT ![p].registered = TRUE,
                            ![p].at = IF proc[p].registered THEN "ready" ELSE "bind"]
    /\ UNCHANGED <<Others, file>>

\* Seeded fault: the loader goes on with a connection it could not bind.
BindGoesOn(p) ==
    /\ At(p, "bind")
    /\ \/ proc' = [proc EXCEPT ![p].bound = TRUE, ![p].at = "isExpired"]
       \/ proc' = [proc EXCEPT ![p].failed = TRUE, ![p].at = "isExpired"]
    /\ UNCHANGED <<Others, file>>

\* bind_module_to_connection raises if the module could not be loaded.
Bind(p) ==
    /\ At(p, "bind")
    /\ \/ proc' = [proc EXCEPT ![p].bound = TRUE, ![p].at = "isExpired"]
       \/ proc' = [proc EXCEPT ![p].failed = TRUE, ![p].at = "ready"]
    /\ UNCHANGED <<Others, file>>

\* Seeded fault: a file one hour past its TTL is fresh.
StaleLate == file.is # "saved" \/ file.age > Ttl + 1

\* is_expired: no file, one that cannot be read, or one older than its TTL
Stale == file.is # "saved" \/ file.age > Ttl

IsExpired(p) ==
    /\ At(p, "isExpired")
    /\ proc' = [proc EXCEPT ![p].expired = Stale, ![p].at = "load"]
    /\ UNCHANGED <<Others, file>>

Ended(q) == [q EXCEPT !.at = "ready", !.expired = FALSE, !.cached = NoSchema,
                      !.synced = NoSchema, !.unlinked = FALSE]

\* CacheManager.load, and the choice between the file and the database.  The
\* file is read a second time: another process may have replaced it since.
Load(p) ==
    /\ At(p, "load")
    /\ proc' = [proc EXCEPT ![p] =
                   IF file.version # NoSchema /\ ~@.expired
                   THEN [Ended(@) EXCEPT !.schema = file.version]
                   ELSE [@ EXCEPT !.cached = file.version, !.at = "fetch"]]
    /\ UNCHANGED <<Others, file>>

\* Seeded fault: the stale schema is saved again, with a new timestamp.
SyncFailsResaving(p, f) ==
    LET cached == proc[p].cached
        kept == IF cached = NoSchema THEN proc[p].schema ELSE cached
    IN  /\ proc' = [proc EXCEPT ![p] = [Ended(@) EXCEPT !.failed = TRUE, !.schema = kept]]
        /\ file' = IF cached = NoSchema THEN f ELSE Saved(cached)

\* _sync_schema raises, leaving the file as f: what the file had before, if it
\* could be read, becomes the schema in memory.
SyncFails(p, f) ==
    LET cached == proc[p].cached
        kept == IF cached = NoSchema THEN proc[p].schema ELSE cached
    IN  /\ proc' = [proc EXCEPT ![p] = [Ended(@) EXCEPT !.failed = TRUE, !.schema = kept]]
        /\ file' = f

\* build_connection and sync_schema_from_source
Fetch(p) ==
    /\ At(p, "fetch")
    /\ \/ /\ proc' = [proc EXCEPT ![p].synced = source, ![p].at = "store"]
          /\ UNCHANGED file
       \/ SyncFails(p, file)
    /\ UNCHANGED Others

Store(p) ==
    /\ At(p, "store")
    /\ proc' = [proc EXCEPT ![p].schema = proc[p].synced, ![p].at = "truncate"]
    /\ UNCHANGED <<Others, file>>

\* save: serializing the schema or opening the file raises, or the file is
\* opened and thereby emptied.
Truncate(p) ==
    /\ At(p, "truncate")
    /\ \/ file' = Empty /\ Goto(p, "write")
       \/ SyncFails(p, file)
    /\ UNCHANGED Others

\* What the file may be when p has written its text: another process may have
\* written since p emptied it, and the rest of that stays behind p's text.
Written(p) ==
    IF proc[p].unlinked THEN {file}
    ELSE {Saved(proc[p].synced)} \union (IF file = Empty THEN {} ELSE {Torn})

\* The text is written, or writing raises, maybe after some of it.
Write(p) ==
    /\ At(p, "write")
    /\ \/ /\ file' \in Written(p)
          /\ proc' = [proc EXCEPT ![p] = Ended(@)]
       \/ \E f \in {file, IF proc[p].unlinked THEN file ELSE Torn} : SyncFails(p, f)
    /\ UNCHANGED Others

-----------------------------------------------------------------------------
\* Executor: sync_schema and list_tables(live = true) in a script of process p

Syncing(p) == {t \in Threads : command[t].in # "idle" /\ command[t].of = p}

\* _ensure_connection needs a bound module; sync_schema_from_source returns.
\* Where either raises the step fails and nothing has changed.
SyncCommand(t, p) ==
    /\ At(p, "ready") /\ proc[p].registered /\ proc[p].bound
    /\ command[t] = Idle
    /\ command' = [command EXCEPT ![t] = [in |-> "store", of |-> p, read |-> source]]
    /\ raced' = IF Syncing(p) = {} THEN raced \ {t} ELSE raced \union Syncing(p) \union {t}
    /\ UNCHANGED <<source, file, proc, outdated>>

\* store_schema; the file is left as it is.
StoreCommand(t) ==
    /\ command[t] # Idle
    /\ proc' = [proc EXCEPT ![command[t].of].schema = command[t].read]
    /\ command' = [command EXCEPT ![t] = Idle]
    /\ UNCHANGED <<source, file, outdated, raced>>

-----------------------------------------------------------------------------
\* The environment

\* The process ends or is killed, anywhere.
Exit(p) ==
    /\ ~At(p, "off")
    /\ proc' = [proc EXCEPT ![p] = Off]
    /\ command' = [t \in Threads |-> IF t \in Syncing(p) THEN Idle ELSE command[t]]
    /\ raced' = raced \ Syncing(p)
    /\ UNCHANGED <<source, file, outdated>>

\* uqal cache clear, uqal cache drop-schema
ClearCache ==
    /\ file # Missing
    /\ file' = Missing
    /\ proc' = [p \in Processes |-> [proc[p] EXCEPT !.unlinked = @ \/ At(p, "write")]]
    /\ UNCHANGED Others

\* The database's schema is changed (external).
Migrate ==
    /\ source < MaxVersion
    /\ source' = source + 1
    /\ outdated' = [outdated EXCEPT ![source] = 0]
    /\ UNCHANGED <<file, proc, command, raced>>

\* An hour passes; loads and commands take no time in comparison.
Hour ==
    /\ \A p \in Processes : proc[p].at \notin Loading
    /\ \A t \in Threads : command[t] = Idle
    /\ file' = IF file.is = "saved" THEN [file EXCEPT !.age = Cap(@ + 1)] ELSE file
    /\ outdated' = [v \in Versions |-> IF outdated[v] = Current THEN Current
                                       ELSE Cap(outdated[v] + 1)]
    /\ UNCHANGED <<source, proc, command, raced>>

-----------------------------------------------------------------------------
Init ==
    /\ source = 0 /\ file = Missing
    /\ proc = [p \in Processes |-> Off]
    /\ command = [t \in Threads |-> Idle]
    /\ outdated = [v \in Versions |-> Current]
    /\ raced = {}

LoadStep(p) ==
    \/ Register(p) \/ Bind(p) \/ IsExpired(p) \/ Load(p)
    \/ Fetch(p) \/ Store(p) \/ Truncate(p) \/ Write(p)

Next ==
    \/ \E p \in Processes : Start(p) \/ Reload(p) \/ LoadStep(p) \/ Exit(p)
    \/ \E t \in Threads, p \in Processes : SyncCommand(t, p)
    \/ \E t \in Threads : StoreCommand(t)
    \/ ClearCache \/ Migrate \/ Hour

Spec == Init /\ [][Next]_vars

-----------------------------------------------------------------------------
\* Properties

TypeOK ==
    /\ source \in Versions
    /\ file \in Files
    /\ proc \in [Processes -> ProcessStates]
    /\ command \in [Threads -> {Idle} \union
                       [in : {"store"}, of : Processes, read : Versions]]
    /\ outdated \in [Versions -> {Current} \union 0..(Ttl + 1)]
    /\ raced \subseteq Threads
    /\ \A p \in Processes : proc[p].schema # NoSchema => proc[p].registered /\ proc[p].bound

\* However loads, failures, crashes and other processes' saves interleave, the
\* age of the cache file is never less than the time its schema has not been
\* the database's: what the file's timestamp promises is kept.
TimestampHonest == file.is = "saved" => outdated[file.version] <= file.age

\* A load that does not warn ends with a schema in memory, and one that the
\* database had at most Ttl hours ago, torn and expired files, files removed or
\* replaced between is_expired and load, and crashed saves notwithstanding.
LoadsRecentSchema ==
    [][\A p \in Processes :
          /\ proc[p].at \in Loading \ {"register"}
          /\ proc'[p].at = "ready" /\ ~proc'[p].failed
          => /\ proc'[p].schema # NoSchema
             /\ outdated'[proc'[p].schema] <= Ttl]_vars

\* The schema scripts are checked against never goes back to an older one,
\* unless the loader's sync fails (then the file's replaces it) or two sync
\* commands of one process overlap; reloading the configuration does not undo
\* a sync command.
NeverGoesBack ==
    [][\A p \in Processes :
          /\ proc[p].schema # NoSchema /\ proc'[p].schema # NoSchema
          /\ proc'[p].schema < proc[p].schema
          => \/ proc[p].at \in {"truncate", "write"} /\ proc'[p].failed
             \/ \E t \in raced : command[t] # Idle /\ command[t].of = p]_vars
=============================================================================
