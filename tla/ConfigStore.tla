---------------------------- MODULE ConfigStore ----------------------------
(***************************************************************************)
(* ConfigManager's two files, uqal_config.json and .env, as the processes  *)
(* that run connection commands read and write them: every change reads    *)
(* the whole file, changes what it read and writes it back, with no lock,  *)
(* and writing first empties the file.  One of the processes is a REPL: it *)
(* runs the same commands and keeps the connections it has loaded.         *)
(*                                                                         *)
(* A file's text is written in one piece: both files are smaller than the  *)
(* buffer of a Python text file.                                           *)
(***************************************************************************)
EXTENDS Connections

CONSTANTS
    Procs,          \* processes that run commands, one at a time each
    Repl,           \* the process that is a REPL
    Load,           \* the command by which it loads the connections
    Broken,         \* the content of a configuration file that is not JSON
    MaxCommands     \* bound: commands started

ASSUME ConfigStoreAssumption ==
    /\ Repl \in Procs
    /\ Load \in Commands /\ Load.kind = "load"
    /\ \A c \in Commands : c.kind = "load" => c = Load
    /\ Broken \notin Configs
    /\ MaxCommands \in Nat

VARIABLES
    config,     \* the content of uqal_config.json; an empty file reads as NoEntries
    env,        \* the lines of .env
    registered, \* the ConnectionRegistry of the REPL's engine
    session,    \* the REPL is running
    proc,       \* what each process is doing
    started,    \* the number of commands started
    last,       \* history: the last command that ended, and how
    overlapped, \* history: the commands now running do not run one by one
    settled     \* history: the files and the registry when a command last ended

files == <<config, env>>
vars == <<config, env, registered, session, proc, started, last, overlapped, settled>>

(***************************************************************************)
(* pc        the next step                                                 *)
(* modules   update: the final list of modules                             *)
(* config    the configuration it has read, changed, and will write        *)
(* then      what comes after that is written                              *)
(* env       the lines of .env it has read, changed, and will write        *)
(* saved     how many of its secrets are saved                             *)
(* names     load: the connections still to register                       *)
(***************************************************************************)
SavingSecrets == {"load env", "open env", "write env"}
ProcessStates ==
    [pc : {"idle", "validate", "list", "register", "load", "options", "open", "write"}
              \union SavingSecrets,
     cmd : Commands, modules : (SUBSET Modules) \union {Absent}, config : Configs,
     then : {"options", "env"}, env : Envs, saved : Nat, names : SUBSET Names]
Idle == [pc |-> "idle", cmd |-> Load, modules |-> Absent, config |-> NoEntries,
         then |-> "env", env |-> NoLines, saved |-> 0, names |-> {}]
Begin(c) ==
    [Idle EXCEPT !.cmd = c, !.modules = c.modules,
                 !.then = IF c.kind = "add" /\ c.option # Absent THEN "options" ELSE "env",
                 !.pc = CASE c.kind = "add" -> "validate"
                          [] c.kind = "remove" -> "load"
                          [] OTHER -> "list"]

Active == {p \in Procs : proc[p].pc # "idle"}

\* load_config takes a file that is not JSON for an empty configuration.
Read(file) == IF file = Broken THEN NoEntries ELSE file

-----------------------------------------------------------------------------
Start(p, c) ==
    /\ proc[p].pc = "idle" /\ started < MaxCommands
    /\ c.kind = "load" <=> (p = Repl /\ ~session)
    /\ session' = (session \/ p = Repl)
    /\ started' = started + 1
    /\ proc' = [proc EXCEPT ![p] = Begin(c)]
    /\ overlapped' = (Active # {})
    /\ UNCHANGED <<config, env, registered, last, settled>>

Goes(p, next) ==
    /\ proc' = [proc EXCEPT ![p] = next]
    /\ UNCHANGED <<session, started, last, overlapped, settled>>

\* After a connection command that succeeds the REPL loads the connections.
NextCommand(p, exit) ==
    IF p = Repl /\ exit = "ok" /\ proc[p].cmd.kind # "load" THEN Begin(Load) ELSE Idle

\* The command ends with exit; what it leaves counts once no other is running.
Ends(p, exit) ==
    /\ proc' = [proc EXCEPT ![p] = NextCommand(p, exit)]
    /\ last' = [cmd |-> proc[p].cmd, exit |-> exit]
    /\ overlapped' = (overlapped /\ Active # {p})
    /\ settled' = [config |-> Read(config'), env |-> env', registered |-> registered']
    /\ session' = (session /\ ~(p = Repl /\ exit = "killed"))
    /\ UNCHANGED started

\* _apply_schema_to_connection: exits before anything is saved
Validate(p) ==
    /\ proc[p].pc = "validate"
    /\ UNCHANGED <<config, env, registered>>
    /\ IF Valid(proc[p].cmd) THEN Goes(p, [proc[p] EXCEPT !.pc = "load"])
       ELSE Ends(p, "failed")

\* update-connection looks the connection up and computes its list of modules.
ListForUpdate(p) ==
    /\ proc[p].pc = "list" /\ proc[p].cmd.kind = "update"
    /\ UNCHANGED <<config, env, registered>>
    /\ LET c == proc[p].cmd
           entry == Read(config)[c.name]
       IN  IF entry = Absent THEN Ends(p, "failed")
           ELSE Goes(p, [proc[p] EXCEPT !.pc = "load",
                                        !.modules = FinalModules(entry.modules, c)])

\* load_connections_into_engine: list_connections
ListToLoad(p) ==
    /\ proc[p].pc = "list" /\ proc[p].cmd.kind = "load"
    /\ UNCHANGED <<config, env, registered>>
    /\ LET read == Read(config)
           names == {n \in Names : read[n] # Absent}
       IN  IF names = {} THEN Ends(p, "ok")
           ELSE Goes(p, [proc[p] EXCEPT !.pc = "register", !.config = read, !.names = names])

\* get_secrets and connect, which raises for a name that is already registered;
\* the loader prints a warning and goes on.
Register(p, n) ==
    /\ proc[p].pc = "register" /\ n \in proc[p].names
    /\ registered' = IF registered[n] # Absent THEN registered
                     ELSE [registered EXCEPT ![n] =
                             ConnectionConfig(proc[p].config[n], OptionsOf(env, n))]
    /\ UNCHANGED files
    /\ IF proc[p].names = {n} THEN Ends(p, "ok")
       ELSE Goes(p, [proc[p] EXCEPT !.names = proc[p].names \ {n}])

-----------------------------------------------------------------------------
\* uqal_config.json

Saves(p, new) == Goes(p, [proc[p] EXCEPT !.pc = "open", !.config = new])

\* Seeded fault: one secret too many.
MoreSecretsOffByOne(c, saved) ==
    IF c.kind = "remove" THEN c.purge ELSE saved <= Len(c.secrets)

\* Is there a secret to save, or are there secrets to remove?
MoreSecrets(c, saved) ==
    IF c.kind = "remove" THEN c.purge ELSE saved < Len(c.secrets)

ConfigDone(p) ==
    IF MoreSecrets(proc[p].cmd, 0) THEN Goes(p, [proc[p] EXCEPT !.pc = "load env"])
    ELSE Ends(p, "ok")

\* Seeded fault: a new connection is written without those that are there.
LoadConfigForgets(p) ==
    /\ proc[p].pc = "load"
    /\ UNCHANGED <<config, env, registered>>
    /\ LET c == proc[p].cmd
           read == Read(config)
           entry == read[c.name]
       IN  \/ c.kind = "add" /\ Saves(p, [NoEntries EXCEPT ![c.name] = EntryOf(c)])
           \/ /\ c.kind = "update" /\ entry # Absent
              /\ Saves(p, [read EXCEPT ![c.name] = Updated(entry, c, proc[p].modules)])
           \/ c.kind = "update" /\ entry = Absent /\ ConfigDone(p)
           \/ c.kind = "remove" /\ entry # Absent /\ Saves(p, [read EXCEPT ![c.name] = Absent])
           \/ c.kind = "remove" /\ entry = Absent /\ Ends(p, "failed")

\* add_connection, update_connection and remove_connection read the file.  That
\* update_connection returns False is not looked at.
LoadConfig(p) ==
    /\ proc[p].pc = "load"
    /\ UNCHANGED <<config, env, registered>>
    /\ LET c == proc[p].cmd
           read == Read(config)
           entry == read[c.name]
       IN  \/ c.kind = "add" /\ Saves(p, [read EXCEPT ![c.name] = EntryOf(c)])
           \/ /\ c.kind = "update" /\ entry # Absent
              /\ Saves(p, [read EXCEPT ![c.name] = Updated(entry, c, proc[p].modules)])
           \/ c.kind = "update" /\ entry = Absent /\ ConfigDone(p)
           \/ c.kind = "remove" /\ entry # Absent /\ Saves(p, [read EXCEPT ![c.name] = Absent])
           \/ c.kind = "remove" /\ entry = Absent /\ Ends(p, "failed")

\* The options of a new connection are saved by reading the file once more; a
\* KeyError if the connection is gone.
LoadForOptions(p) ==
    /\ proc[p].pc = "options"
    /\ UNCHANGED <<config, env, registered>>
    /\ LET c == proc[p].cmd
           read == Read(config)
       IN  IF read[c.name] = Absent THEN Ends(p, "failed")
           ELSE Goes(p, [proc[p] EXCEPT
                           !.pc = "open", !.then = "env",
                           !.config = [read EXCEPT
                              ![c.name] = [read[c.name] EXCEPT !.option = c.option]]])

OpenConfig(p) ==
    /\ proc[p].pc = "open"
    /\ config' = NoEntries
    /\ Goes(p, [proc[p] EXCEPT !.pc = "write"])
    /\ UNCHANGED <<env, registered>>

\* What a process writes from the start of a file that another has written since
\* it was opened: the rest of a longer text stays behind it.
Overwritten(old, new) == IF old \in {NoEntries, new} THEN {new} ELSE {new, Broken}

WriteConfig(p) ==
    /\ proc[p].pc = "write"
    /\ config' \in Overwritten(config, proc[p].config)
    /\ UNCHANGED <<env, registered>>
    /\ IF proc[p].then = "options" THEN Goes(p, [proc[p] EXCEPT !.pc = "options"])
       ELSE ConfigDone(p)

-----------------------------------------------------------------------------
\* .env

\* Seeded fault: that there are no secrets to remove is an error.
LoadEnvRefuses(p) ==
    /\ proc[p].pc = "load env"
    /\ UNCHANGED <<config, env, registered>>
    /\ LET c == proc[p].cmd
           without == WithoutSecrets(env, c.name)
       IN  IF c.kind = "remove"
           THEN IF without = env THEN Ends(p, "failed")
                ELSE Goes(p, [proc[p] EXCEPT !.pc = "open env", !.env = without])
           ELSE Goes(p, [proc[p] EXCEPT !.pc = "open env",
                           !.env = WithSecret(env, c.name, c.secrets[proc[p].saved + 1])])

\* add_secret and remove_secrets read the file; remove_secrets does not write
\* one that has none of the connection's secrets.
LoadEnv(p) ==
    /\ proc[p].pc = "load env"
    /\ UNCHANGED <<config, env, registered>>
    /\ LET c == proc[p].cmd
           without == WithoutSecrets(env, c.name)
       IN  IF c.kind = "remove"
           THEN IF without = env THEN Ends(p, "ok")
                ELSE Goes(p, [proc[p] EXCEPT !.pc = "open env", !.env = without])
           ELSE Goes(p, [proc[p] EXCEPT !.pc = "open env",
                           !.env = WithSecret(env, c.name, c.secrets[proc[p].saved + 1])])

OpenEnv(p) ==
    /\ proc[p].pc = "open env"
    /\ env' = NoLines
    /\ Goes(p, [proc[p] EXCEPT !.pc = "write env"])
    /\ UNCHANGED <<config, registered>>

\* Lines at the end of the text another process has written may stay behind;
\* they are read last.
Surviving(lines) == [x \in EnvKeys |-> IF x \in lines THEN env[x] ELSE Absent]
Behind(new, rest) == [x \in EnvKeys |-> IF rest[x] # Absent THEN rest[x] ELSE new[x]]

WriteEnv(p) ==
    /\ proc[p].pc = "write env"
    /\ \E lines \in SUBSET {x \in EnvKeys : env[x] # Absent} :
          env' = Behind(proc[p].env, Surviving(lines))
    /\ UNCHANGED <<config, registered>>
    /\ LET saved == proc[p].saved + 1
       IN  IF proc[p].cmd.kind # "remove" /\ MoreSecrets(proc[p].cmd, saved)
           THEN Goes(p, [proc[p] EXCEPT !.pc = "load env", !.saved = saved])
           ELSE Ends(p, "ok")

-----------------------------------------------------------------------------
\* A process is killed; with the REPL goes its registry.
Kill(p) ==
    /\ proc[p].pc # "idle"
    /\ registered' = IF p = Repl THEN NoConnections ELSE registered
    /\ UNCHANGED files
    /\ Ends(p, "killed")

\* The REPL is left.
Leave ==
    /\ proc[Repl].pc = "idle" /\ session
    /\ session' = FALSE
    /\ registered' = NoConnections
    /\ settled' = [settled EXCEPT !.registered = NoConnections]
    /\ UNCHANGED <<config, env, proc, started, last, overlapped>>

Init ==
    /\ config = NoEntries /\ env = NoLines
    /\ registered = NoConnections /\ session = FALSE
    /\ proc = [p \in Procs |-> Idle]
    /\ started = 0
    /\ last = [cmd |-> Load, exit |-> "none"]
    /\ overlapped = FALSE
    /\ settled = [config |-> NoEntries, env |-> NoLines, registered |-> NoConnections]

Next ==
    \/ \E p \in Procs :
          \/ \E c \in Commands : Start(p, c)
          \/ Validate(p) \/ ListForUpdate(p) \/ ListToLoad(p) \/ \E n \in Names : Register(p, n)
          \/ LoadConfig(p) \/ LoadForOptions(p) \/ OpenConfig(p) \/ WriteConfig(p)
          \/ LoadEnv(p) \/ OpenEnv(p) \/ WriteEnv(p)
          \/ Kill(p)
    \/ Leave

Spec == Init /\ [][Next]_vars

-----------------------------------------------------------------------------
\* Properties

ConfigTypeOK ==
    /\ config \in Configs \union {Broken}
    /\ env \in Envs
    /\ registered \in Registries
    /\ session \in BOOLEAN
    /\ proc \in [Procs -> ProcessStates]
    /\ \A p \in Procs : /\ proc[p].pc \in SavingSecrets =>
                             \/ proc[p].cmd.kind = "remove"
                             \/ proc[p].saved < Len(proc[p].cmd.secrets)
                        /\ proc[p].pc = "register" => proc[p].names # {}
    /\ started \in 0..MaxCommands
    /\ last \in [cmd : Commands, exit : {"none", "ok", "failed", "killed"}]
    /\ overlapped \in BOOLEAN
    /\ settled \in [config : Configs, env : Envs, registered : Registries]

\* What the commands promise: see ConnectionTable.
Promise == INSTANCE ConnectionTable WITH
    table <- settled.config,
    secrets <- [n \in Names |-> OptionsOf(settled.env, n)],
    registered <- settled.registered,
    disturbed <- overlapped

\* Commands that run one after the other, and are killed wherever they are, do
\* what they promise, in one step each: nothing that another command saved is
\* lost, a command that fails has changed nothing, a load registers the entries
\* with the secrets given for them, and what a killed command can have done is
\* bounded.  This holds again for the commands after any that have overlapped.
ImplementsConnectionTable == Promise!Spec

\* No command that runs alone fails after it has changed a file: the KeyError of
\* add-connection's options and the ignored result of update-connection need
\* another command to get in between.
FailsCleanly ==
    [][last' # last /\ last'.exit = "failed" /\ ~overlapped =>
           Read(config) = settled.config /\ env = settled.env]_vars

\* connection_schema.py, ConnectionSchema: "Every module declares what connection
\* parameters it needs": what the user has given for a parameter that is not
\* secret reaches the module's build_connection, once the connection is loaded.
ParametersReachTheModule ==
    last.cmd.kind = "load" /\ last.exit = "ok" /\ Active = {} =>
        \A n \in Names : settled.config[n] # Absent /\ settled.config[n].option # Absent =>
            registered[n].options[OptionKey] = settled.config[n].option
=============================================================================
