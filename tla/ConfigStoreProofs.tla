------------------------- MODULE ConfigStoreProofs -------------------------
(***************************************************************************)
(* Proofs about ConfigStore: any set of processes, connections, keys and   *)
(* commands.                                                               *)
(***************************************************************************)
EXTENDS ConfigStore, SequenceTheorems, TLAPS

-----------------------------------------------------------------------------
\* The invariant

\* The secrets that lines of .env hold for all connections
SecretsOf(lines) == [n \in Names |-> OptionsOf(lines, n)]

\* A new connection is saved twice if it has an option.
SavedTwice(c) == c.kind = "add" /\ c.option # Absent
WithEntry(c) == [settled.config EXCEPT ![c.name] = EntryOf(c)]

\* What is true of a process whatever the others do
Sound(p) ==
    LET q == proc[p]
    IN  /\ q.pc \notin SavingSecrets => q.saved = 0
        /\ q.pc = "register" => \A n \in q.names : q.config[n] # Absent
        /\ q.pc # "idle" /\ q.cmd.kind = "load" => p = Repl /\ q.pc \in {"list", "register"}
        /\ q.pc \in {"validate", "options"} => q.cmd.kind = "add"
        /\ q.pc = "register" => q.cmd.kind = "load"
        /\ q.pc = "list" => q.cmd.kind \in {"update", "load"}
        /\ q.pc \in {"validate", "load"} => (q.then = "options" <=> SavedTwice(q.cmd))
        /\ q.pc = "options" => q.then = "options"
        /\ q.then = "options" => SavedTwice(q.cmd)
        /\ q.pc \in SavingSecrets /\ q.cmd.kind = "remove" => q.cmd.purge /\ q.saved = 0

\* What a process that runs alone has made of uqal_config.json
ConfigAlone(p) ==
    LET q == proc[p]
        c == q.cmd
    IN  /\ q.pc \in {"idle", "validate", "list", "register", "load"} =>
              Read(config) = settled.config
        /\ q.pc = "register" => q.config = settled.config
        /\ q.pc \in {"load", "options", "open", "write"} \union SavingSecrets => Valid(c)
        /\ q.pc \in {"options", "open", "write"} \union SavingSecrets => Promise!Accepted(c)
        /\ q.pc = "load" /\ c.kind = "update" =>
              /\ settled.config[c.name] # Absent
              /\ q.modules = FinalModules(settled.config[c.name].modules, c)
        /\ q.pc \in {"open", "write"} =>
              q.config = IF q.then = "options" THEN WithEntry(c) ELSE Promise!TableAfter(c)
        /\ q.pc = "open" =>
              Read(config) = IF q.then = "env" /\ SavedTwice(c) THEN WithEntry(c)
                             ELSE settled.config
        /\ q.pc = "write" => config = NoEntries
        /\ q.pc = "options" => Read(config) = WithEntry(c)
        /\ q.pc \in SavingSecrets => Read(config) = Promise!TableAfter(c)

\* ... of .env: after i secrets, those of Promise!SecretsAfter
SavedSecrets(c, i) ==
    IF c.kind = "remove" THEN SecretsOf(settled.env) ELSE Promise!SecretsAfter(c, i)
EnvAlone(p) ==
    LET q == proc[p]
        c == q.cmd
    IN  /\ q.pc \notin SavingSecrets => env = settled.env
        /\ q.pc = "write env" => env = NoLines
        /\ NamesApart =>
              /\ q.pc \in {"load env", "open env"} =>
                    SecretsOf(env) = SavedSecrets(c, q.saved)
              /\ q.pc \in {"open env", "write env"} =>
                    SecretsOf(q.env) = IF c.kind = "remove" THEN Promise!SecretsAfter(c, 0)
                                       ELSE Promise!SecretsAfter(c, q.saved + 1)

\* ... and of the registry: what is not registered yet is in names.
RegistryAlone(p) ==
    LET q == proc[p]
    IN  /\ q.pc # "register" => registered = settled.registered
        /\ q.pc = "register" =>
              registered = [n \in Names |-> IF n \in q.names THEN settled.registered[n]
                                            ELSE Promise!RegisteredAfter(q.cmd)[n]]

Alone(p) == ConfigAlone(p) /\ EnvAlone(p) /\ RegistryAlone(p)

IInv ==
    /\ ConfigTypeOK
    /\ \A p \in Procs : Sound(p)
    /\ overlapped => Active # {}
    /\ ~overlapped =>
          /\ \A p, q \in Active : p = q
          /\ Active = {} => /\ Read(config) = settled.config
                            /\ env = settled.env /\ registered = settled.registered
          /\ \A p \in Active : Alone(p)

-----------------------------------------------------------------------------
\* Types

\* What a command is made of.
LEMMA CommandTypes ==
    ASSUME NEW c \in Commands
    PROVE  /\ c.kind \in {"add", "update", "remove", "load"} /\ c.name \in Names
           /\ c.host \in Hosts \union {Absent} /\ c.option \in Options \union {Absent}
           /\ c.modules \in (SUBSET Modules) \union {Absent}
           /\ c.adds \in SUBSET Modules /\ c.drops \in SUBSET Modules
           /\ c.secrets \in Seq(Secrets) /\ c.purge \in BOOLEAN
           /\ c.kind = "add" => c.modules \in SUBSET Modules
           /\ c.kind \in {"remove", "load"} => c.secrets = <<>>
<1>1. c \in CommandRecords
  BY ConnectionsAssumption
<1>2. /\ c.kind = "add" => c.modules # Absent
      /\ c.kind \in {"remove", "load"} => c.secrets = <<>>
  BY ConnectionsAssumption
<1> QED
  BY <1>1, <1>2 DEF CommandRecords

\* An empty configuration and no lines, and what a file is read as.
LEMMA FileTypes ==
    /\ NoEntries \in Configs /\ NoLines \in Envs /\ NoConnections \in Registries
    /\ \A file \in Configs : Read(file) = file
    /\ \A file \in Configs \union {Broken} : Read(file) \in Configs
BY ConfigStoreAssumption DEF NoEntries, NoLines, NoConnections, Configs, Envs, Registries, Read

\* Every change of an entry makes a configuration of a configuration.
LEMMA EntryTypes ==
    ASSUME NEW file \in Configs, NEW c \in Commands
    PROVE  /\ c.kind = "add" => /\ EntryOf(c) \in Entries /\ EntryOf(c) # Absent
                                /\ [file EXCEPT ![c.name] = EntryOf(c)] \in Configs
           /\ [file EXCEPT ![c.name] = Absent] \in Configs
           /\ file[c.name] # Absent =>
                 /\ file[c.name] \in Entries
                 /\ FinalModules(file[c.name].modules, c) \in (SUBSET Modules) \union {Absent}
                 /\ [file EXCEPT ![c.name] = [file[c.name] EXCEPT !.option = c.option]] \in Configs
                 /\ \A m \in (SUBSET Modules) \union {Absent} :
                       [file EXCEPT ![c.name] = Updated(file[c.name], c, m)] \in Configs
<1>1. c.kind = "add" => EntryOf(c) \in Entries
  BY CommandTypes DEF EntryOf, Entries
<1>2. \A e \in Entries : e # Absent
  BY ConnectionsAssumption
<1>3. ASSUME NEW e \in Entries \union {Absent} PROVE [file EXCEPT ![c.name] = e] \in Configs
  BY DEF Configs
<1>4. ASSUME file[c.name] # Absent
      PROVE  /\ file[c.name] \in Entries
             /\ FinalModules(file[c.name].modules, c) \in (SUBSET Modules) \union {Absent}
             /\ [file[c.name] EXCEPT !.option = c.option] \in Entries
             /\ \A m \in (SUBSET Modules) \union {Absent} : Updated(file[c.name], c, m) \in Entries
  <2>1. file[c.name] \in Entries
    BY <1>4, CommandTypes DEF Configs
  <2>2. FinalModules(file[c.name].modules, c) \in (SUBSET Modules) \union {Absent}
    BY <2>1, CommandTypes DEF FinalModules, Entries
  <2>3. [file[c.name] EXCEPT !.option = c.option] \in Entries
    BY <2>1, CommandTypes DEF Entries
  <2>4. ASSUME NEW m \in (SUBSET Modules) \union {Absent}
        PROVE  Updated(file[c.name], c, m) \in Entries
    BY <2>1, CommandTypes DEF Updated, Entries
  <2> QED
    BY <2>1, <2>2, <2>3, <2>4
<1> QED
  BY <1>1, <1>2, <1>3, <1>4

\* Every change of the lines makes lines of lines.
LEMMA EnvTypes ==
    ASSUME NEW lines \in Envs, NEW c \in Commands
    PROVE  /\ WithoutSecrets(lines, c.name) \in Envs
           /\ \A i \in 1..Len(c.secrets) : /\ c.secrets[i] \in Secrets
                                           /\ WithSecret(lines, c.name, c.secrets[i]) \in Envs
           /\ \A n \in Names : OptionsOf(lines, n) \in [Keys -> Values \union {Absent}]
<1>1. WithoutSecrets(lines, c.name) \in Envs
  BY DEF WithoutSecrets, Envs
<1>2. ASSUME NEW i \in 1..Len(c.secrets)
      PROVE  c.secrets[i] \in Secrets /\ WithSecret(lines, c.name, c.secrets[i]) \in Envs
  <2>1. c.secrets[i] \in Secrets
    BY CommandTypes
  <2> QED
    BY <2>1 DEF WithSecret, Secrets, Envs
<1>3. ASSUME NEW n \in Names PROVE OptionsOf(lines, n) \in [Keys -> Values \union {Absent}]
  BY DEF OptionsOf, Envs, EnvKeys
<1> QED
  BY <1>1, <1>2, <1>3

\* A process starts a command in one of three places.
LEMMA BeginType ==
    ASSUME NEW c \in Commands
    PROVE  /\ Begin(c) \in ProcessStates /\ Idle \in ProcessStates
           /\ Begin(c).cmd = c /\ Begin(c).modules = c.modules /\ Begin(c).saved = 0
           /\ Begin(c).then = (IF SavedTwice(c) THEN "options" ELSE "env")
           /\ Begin(c).pc = (CASE c.kind = "add" -> "validate" [] c.kind = "remove" -> "load"
                               [] OTHER -> "list")
           /\ Idle.pc = "idle" /\ Idle.saved = 0 /\ Idle.then = "env"
<1>1. Idle \in ProcessStates
  BY FileTypes, ConfigStoreAssumption DEF Idle, ProcessStates, SavingSecrets
<1> QED
  BY <1>1, CommandTypes DEF Begin, ProcessStates, SavedTwice, Idle, SavingSecrets

-----------------------------------------------------------------------------
\* The invariant is kept

\* If a process that goes on with its command is sound, and true of what it does
\* alone, the invariant is kept.
LEMMA GoesOn ==
    ASSUME IInv, NEW p \in Procs, proc[p].pc # "idle",
           proc' \in [Procs -> ProcessStates], proc'[p].pc # "idle",
           \A q \in Procs \ {p} : proc'[q] = proc[q],
           config' \in Configs \union {Broken}, env' \in Envs, registered' \in Registries,
           UNCHANGED <<session, started, last, overlapped, settled>>,
           proc'[p].pc \in SavingSecrets =>
               proc'[p].cmd.kind = "remove" \/ proc'[p].saved < Len(proc'[p].cmd.secrets),
           proc'[p].pc = "register" => proc'[p].names # {},
           Sound(p)',
           ~overlapped => Alone(p)'
    PROVE  IInv'
<1>1. ConfigTypeOK'
  BY DEF IInv, ConfigTypeOK
<1>2. \A q \in Procs : Sound(q)'
  BY DEF IInv, Sound
<1>3. p \in Active'
  BY DEF Active
<1>4. ASSUME ~overlapped'
      PROVE  /\ \A q, r \in Active' : q = r
             /\ \A q \in Active' : Alone(q)'
  <2>1. p \in Active /\ \A q \in Active : q = p
    BY <1>4 DEF IInv, Active
  <2>2. p \in Active' /\ \A q \in Active' : q = p
    BY <2>1 DEF Active
  <2> QED
    BY <1>4, <2>2
<1> QED
  BY <1>1, <1>2, <1>3, <1>4 DEF IInv

\* A process that ends its command leaves the files and the registry settled.
LEMMA EndsInv ==
    ASSUME IInv, NEW p \in Procs, proc[p].pc # "idle", NEW exit \in {"ok", "failed", "killed"},
           Ends(p, exit),
           config' \in Configs \union {Broken}, env' \in Envs, registered' \in Registries
    PROVE  IInv'
<1>1. /\ proc \in [Procs -> ProcessStates]
      /\ proc' = [proc EXCEPT ![p] = NextCommand(p, exit)]
  BY DEF IInv, ConfigTypeOK, Ends
<1>2. /\ NextCommand(p, exit) \in ProcessStates
      /\ NextCommand(p, exit).pc \in {"idle", "list"}
      /\ NextCommand(p, exit).pc = "list" => p = Repl /\ NextCommand(p, exit).cmd.kind = "load"
      /\ NextCommand(p, exit).saved = 0
      /\ NextCommand(p, exit).then = "env"
  <2>1. Load \in Commands /\ Load.kind = "load"
    BY ConfigStoreAssumption
  <2>2. /\ Begin(Load) \in ProcessStates /\ Begin(Load).pc = "list"
        /\ Begin(Load).cmd.kind = "load" /\ Begin(Load).saved = 0 /\ Begin(Load).then = "env"
    BY <2>1, BeginType DEF SavedTwice
  <2>3. Idle \in ProcessStates /\ Idle.pc = "idle" /\ Idle.saved = 0 /\ Idle.then = "env"
    BY <2>1, BeginType
  <2> QED
    BY <2>2, <2>3 DEF NextCommand
<1>3. /\ proc' \in [Procs -> ProcessStates]
      /\ \A q \in Procs \ {p} : proc'[q] = proc[q]
      /\ proc'[p] = NextCommand(p, exit)
  BY <1>1, <1>2
<1>4. ConfigTypeOK'
  <2>1. settled' \in [config : Configs, env : Envs, registered : Registries]
    BY FileTypes DEF Ends, Read
  <2>2. last' \in [cmd : Commands, exit : {"none", "ok", "failed", "killed"}]
    BY <1>1 DEF Ends, ProcessStates
  <2>3. session' \in BOOLEAN /\ overlapped' \in BOOLEAN /\ started' \in 0..MaxCommands
    BY DEF Ends, IInv, ConfigTypeOK
  <2>4. \A q \in Procs :
          /\ proc'[q].pc \in SavingSecrets =>
                proc'[q].cmd.kind = "remove" \/ proc'[q].saved < Len(proc'[q].cmd.secrets)
          /\ proc'[q].pc = "register" => proc'[q].names # {}
    BY <1>2, <1>3 DEF IInv, ConfigTypeOK, SavingSecrets
  <2> QED
    BY <1>3, <2>1, <2>2, <2>3, <2>4 DEF ConfigTypeOK
<1>5. \A q \in Procs : Sound(q)'
  <2>1. Sound(p)'
    BY <1>2, <1>3 DEF Sound, SavingSecrets
  <2> QED
    BY <2>1, <1>3 DEF IInv, Sound
<1>6. ASSUME ~overlapped'
      PROVE  /\ \A q, r \in Active' : q = r
             /\ Read(config') = settled'.config /\ env' = settled'.env
             /\ registered' = settled'.registered
             /\ \A q \in Active' : Alone(q)'
  <2>1. Active \subseteq {p}
    BY <1>6 DEF Ends, IInv, Active
  <2>2. Active' \subseteq {p}
    BY <2>1, <1>3 DEF Active
  <2>3. /\ Read(config') = settled'.config /\ env' = settled'.env
        /\ registered' = settled'.registered
    BY DEF Ends
  <2>4. p \in Active' => Alone(p)'
    <3>1. p \in Active' => proc'[p].pc = "list" /\ proc'[p].cmd.kind = "load"
      BY <1>2, <1>3 DEF Active
    <3>2. Read(config)' = settled'.config
      BY <2>3 DEF Read
    <3>3. p \in Active' => ConfigAlone(p)'
      BY <3>1, <3>2 DEF ConfigAlone, SavingSecrets
    <3>4. p \in Active' => EnvAlone(p)' /\ RegistryAlone(p)'
      BY <3>1, <2>3 DEF EnvAlone, RegistryAlone, SavingSecrets
    <3> QED
      BY <3>3, <3>4 DEF Alone
  <2> QED
    BY <2>2, <2>3, <2>4
<1>7. overlapped' => Active' # {}
  <2>1. overlapped' => \E q \in Active : q # p
    BY DEF Ends, Active
  <2> QED
    BY <2>1, <1>3 DEF Active
<1> QED
  BY <1>4, <1>5, <1>6, <1>7 DEF IInv, Read

\* What the invariant says of a process that has a command.
LEMMA LocalState ==
    ASSUME IInv, NEW p \in Procs, proc[p].pc # "idle"
    PROVE  /\ proc \in [Procs -> ProcessStates] /\ proc[p] \in ProcessStates
           /\ proc[p].cmd \in Commands
           /\ config \in Configs \union {Broken} /\ Read(config) \in Configs
           /\ env \in Envs /\ registered \in Registries
           /\ settled \in [config : Configs, env : Envs, registered : Registries]
           /\ Sound(p)
           /\ ~overlapped => Alone(p)
<1>1. p \in Active
  BY DEF Active
<1>2. proc[p] \in ProcessStates /\ proc[p].cmd \in Commands
  BY DEF IInv, ConfigTypeOK, ProcessStates
<1> QED
  BY <1>1, <1>2, FileTypes DEF IInv, ConfigTypeOK

\* ConnectionTable has the operators of Connections under its instance's name.
LEMMA SameOperators ==
    ASSUME NEW c \in Commands
    PROVE  /\ Promise!Valid(c) = Valid(c) /\ Promise!EntryOf(c) = EntryOf(c)
           /\ \A old : Promise!FinalModules(old, c) = FinalModules(old, c)
           /\ \A entry, m : Promise!Updated(entry, c, m) = Updated(entry, c, m)
           /\ \A entry, o : Promise!ConnectionConfig(entry, o) = ConnectionConfig(entry, o)
           /\ Promise!NoEntries = NoEntries /\ Promise!NoConnections = NoConnections
BY DEF Promise!Valid, Valid, Promise!EntryOf, EntryOf, Promise!FinalModules, FinalModules,
       Promise!Updated, Updated, Promise!ConnectionConfig, ConnectionConfig,
       Promise!NoEntries, NoEntries, Promise!NoConnections, NoConnections

\* The table as each kind of command leaves it.
LEMMA TableAfterIs ==
    ASSUME settled.config \in Configs, NEW c \in Commands
    PROVE  /\ c.kind = "add" /\ c.option = Absent => Promise!TableAfter(c) = WithEntry(c)
           /\ c.kind = "add" => Promise!TableAfter(c) =
                 [settled.config EXCEPT ![c.name] = [EntryOf(c) EXCEPT !.option = c.option]]
           /\ c.kind = "update" => Promise!TableAfter(c) =
                 [settled.config EXCEPT ![c.name] =
                    Updated(settled.config[c.name], c,
                            FinalModules(settled.config[c.name].modules, c))]
           /\ c.kind = "remove" =>
                 Promise!TableAfter(c) = [settled.config EXCEPT ![c.name] = Absent]
           /\ c.kind = "load" => Promise!TableAfter(c) = settled.config
           /\ Promise!Accepted(c) <=>
                 /\ Valid(c)
                 /\ c.kind \in {"update", "remove"} => settled.config[c.name] # Absent
<1>1. c.kind = "add" /\ c.option = Absent => [EntryOf(c) EXCEPT !.option = c.option] = EntryOf(c)
  BY DEF EntryOf
<1>2. /\ c.kind = "add" => Promise!EntryAfter(c) = [EntryOf(c) EXCEPT !.option = c.option]
      /\ c.kind = "update" => Promise!EntryAfter(c) =
            Updated(settled.config[c.name], c, FinalModules(settled.config[c.name].modules, c))
      /\ c.kind = "remove" => Promise!EntryAfter(c) = Absent
      /\ c.kind = "load" => Promise!EntryAfter(c) = settled.config[c.name]
  BY CommandTypes, SameOperators DEF Promise!EntryAfter
<1>3. Promise!TableAfter(c) = [settled.config EXCEPT ![c.name] = Promise!EntryAfter(c)]
  BY DEF Promise!TableAfter
<1>4. [settled.config EXCEPT ![c.name] = settled.config[c.name]] = settled.config
  BY DEF Configs
<1>5. Promise!Accepted(c) <=>
         /\ Valid(c)
         /\ c.kind \in {"update", "remove"} => settled.config[c.name] # Absent
  BY SameOperators DEF Promise!Accepted
<1> QED
  BY <1>1, <1>2, <1>3, <1>4, <1>5 DEF WithEntry

\* The first save of a command: an entry is added, changed or removed.
LEMMA LoadConfigInv ==
    ASSUME IInv, NEW p \in Procs, LoadConfig(p)
    PROVE  IInv'
<1> DEFINE c == proc[p].cmd
           read == Read(config)
           new == proc'[p].config
<1>1. proc[p].pc = "load" /\ proc[p].pc # "idle" /\ UNCHANGED <<config, env, registered>>
  BY DEF LoadConfig
<1>2. /\ proc \in [Procs -> ProcessStates] /\ proc[p] \in ProcessStates /\ c \in Commands
      /\ config \in Configs \union {Broken} /\ read \in Configs
      /\ env \in Envs /\ registered \in Registries
      /\ settled.config \in Configs
      /\ Sound(p) /\ (~overlapped => Alone(p))
  BY <1>1, LocalState
<1>3. ASSUME NEW file \in Configs, Saves(p, file),
             ~overlapped => /\ Promise!Accepted(c)
                            /\ file = IF proc[p].then = "options" THEN WithEntry(c)
                                      ELSE Promise!TableAfter(c)
      PROVE  IInv'
  <2>1. /\ proc' \in [Procs -> ProcessStates]
        /\ \A q \in Procs \ {p} : proc'[q] = proc[q]
        /\ proc'[p] = [proc[p] EXCEPT !.pc = "open", !.config = file]
    <3>1. [proc[p] EXCEPT !.pc = "open", !.config = file] \in ProcessStates
      BY <1>2, <1>3 DEF ProcessStates
    <3> QED
      BY <1>2, <1>3, <3>1 DEF Saves, Goes
  <2>2. /\ proc'[p].pc = "open" /\ proc'[p].config = file /\ proc'[p].cmd = c
        /\ proc'[p].then = proc[p].then /\ proc'[p].saved = proc[p].saved
    BY <1>2, <2>1 DEF ProcessStates
  <2>3. Sound(p)'
    BY <1>1, <1>2, <2>2 DEF Sound, SavingSecrets
  <2>4. ASSUME ~overlapped PROVE Alone(p)'
    <3>1. /\ read = settled.config /\ Valid(c)
          /\ proc[p].then = "options" <=> SavedTwice(c)
      BY <1>1, <1>2, <2>4 DEF Alone, ConfigAlone, Sound
    <3>2. ConfigAlone(p)'
      BY <1>1, <1>2, <1>3, <2>2, <2>4, <3>1
      DEF ConfigAlone, SavingSecrets, Saves, Goes, Read, WithEntry,
          Promise!TableAfter, Promise!EntryAfter, Promise!Accepted
    <3>3. EnvAlone(p)' /\ RegistryAlone(p)'
      BY <1>1, <1>2, <1>3, <2>2, <2>4
      DEF Alone, EnvAlone, RegistryAlone, SavingSecrets, Saves, Goes
    <3> QED
      BY <3>2, <3>3 DEF Alone
  <2> QED
    BY <1>1, <1>2, <1>3, <2>1, <2>2, <2>3, <2>4, GoesOn DEF Saves, Goes, SavingSecrets
<1>4. CASE c.kind = "add" /\ Saves(p, [read EXCEPT ![c.name] = EntryOf(c)])
  <2>1. ASSUME ~overlapped
        PROVE  /\ Promise!Accepted(c)
               /\ [read EXCEPT ![c.name] = EntryOf(c)] =
                     IF proc[p].then = "options" THEN WithEntry(c) ELSE Promise!TableAfter(c)
    <3>1. read = settled.config /\ Valid(c) /\ (proc[p].then = "options" <=> SavedTwice(c))
      BY <1>1, <1>2, <2>1 DEF Alone, ConfigAlone, Sound
    <3> QED
      BY <1>2, <1>4, <3>1, TableAfterIs DEF WithEntry, SavedTwice
  <2> QED
    BY <1>2, <1>3, <1>4, <2>1, EntryTypes
<1>5. CASE /\ c.kind = "update" /\ read[c.name] # Absent
           /\ Saves(p, [read EXCEPT ![c.name] = Updated(read[c.name], c, proc[p].modules)])
  <2>1. ASSUME ~overlapped
        PROVE  /\ Promise!Accepted(c)
               /\ [read EXCEPT ![c.name] = Updated(read[c.name], c, proc[p].modules)] =
                     IF proc[p].then = "options" THEN WithEntry(c) ELSE Promise!TableAfter(c)
    <3>1. /\ read = settled.config /\ Valid(c) /\ (proc[p].then = "options" <=> SavedTwice(c))
          /\ proc[p].modules = FinalModules(settled.config[c.name].modules, c)
      BY <1>1, <1>2, <1>5, <2>1 DEF Alone, ConfigAlone, Sound
    <3> QED
      BY <1>2, <1>5, <3>1, TableAfterIs DEF SavedTwice
  <2>2. proc[p].modules \in (SUBSET Modules) \union {Absent}
    BY <1>2 DEF ProcessStates
  <2> QED
    BY <1>2, <1>3, <1>5, <2>1, <2>2, EntryTypes
<1>6. CASE c.kind = "remove" /\ read[c.name] # Absent /\ Saves(p, [read EXCEPT ![c.name] = Absent])
  <2>1. ASSUME ~overlapped
        PROVE  /\ Promise!Accepted(c)
               /\ [read EXCEPT ![c.name] = Absent] =
                     IF proc[p].then = "options" THEN WithEntry(c) ELSE Promise!TableAfter(c)
    <3>1. read = settled.config /\ Valid(c) /\ (proc[p].then = "options" <=> SavedTwice(c))
      BY <1>1, <1>2, <2>1 DEF Alone, ConfigAlone, Sound
    <3> QED
      BY <1>2, <1>6, <3>1, TableAfterIs DEF SavedTwice
  <2> QED
    BY <1>2, <1>3, <1>6, <2>1, EntryTypes
<1>7. CASE c.kind = "remove" /\ read[c.name] = Absent /\ Ends(p, "failed")
  BY <1>1, <1>2, <1>7, EndsInv
<1>8. CASE c.kind = "update" /\ read[c.name] = Absent /\ ConfigDone(p)
  <2>1. CASE Ends(p, "ok")
    BY <1>1, <1>2, <2>1, EndsInv
  <2>2. CASE MoreSecrets(c, 0) /\ Goes(p, [proc[p] EXCEPT !.pc = "load env"])
    <3>1. /\ proc' \in [Procs -> ProcessStates]
          /\ \A q \in Procs \ {p} : proc'[q] = proc[q]
          /\ proc'[p] = [proc[p] EXCEPT !.pc = "load env"]
      <4>1. [proc[p] EXCEPT !.pc = "load env"] \in ProcessStates
        BY <1>2 DEF ProcessStates, SavingSecrets
      <4> QED
        BY <1>2, <2>2, <4>1 DEF Goes
    <3>2. /\ proc'[p].pc = "load env" /\ proc'[p].cmd = c /\ proc'[p].then = proc[p].then
          /\ proc'[p].saved = 0
      BY <1>1, <1>2, <3>1 DEF ProcessStates, Sound, SavingSecrets
    <3>3. Sound(p)'
      BY <1>1, <1>2, <1>8, <3>2 DEF Sound, SavingSecrets
    <3>4. overlapped
      BY <1>1, <1>2, <1>8 DEF Alone, ConfigAlone
    <3>5. proc'[p].saved < Len(proc'[p].cmd.secrets)
      BY <1>8, <2>2, <3>2 DEF MoreSecrets
    <3> QED
      BY <1>1, <1>2, <2>2, <3>1, <3>2, <3>3, <3>4, <3>5, GoesOn DEF Goes
  <2> QED
    BY <1>8, <2>1, <2>2 DEF ConfigDone
<1> QED
  BY <1>4, <1>5, <1>6, <1>7, <1>8 DEF LoadConfig

-----------------------------------------------------------------------------
\* Names and keys

\* Connection n's keys begin with n's words.
LEMMA OwnPrefix ==
    ASSUME NEW n \in Names, NEW k \in Keys
    PROVE  HasPrefix(EnvKey(n, k), n)
<1> DEFINE x == EnvName[n]
<1>1. x \in Seq(STRING) /\ k \in Seq(STRING)
  BY ConnectionsAssumption
<1>2. Len(x \o k) = Len(x) + Len(k) /\ Len(x) <= Len(x \o k) /\ x \o k \in Seq(STRING)
  BY <1>1, ConcatProperties, LenProperties
<1>3. SubSeq(x \o k, 1, Len(x)) = x
  <2>1. SubSeq(x \o k, 1, Len(x)) \in Seq(STRING) /\ Len(SubSeq(x \o k, 1, Len(x))) = Len(x)
    BY <1>1, <1>2, SubSeqProperties, LenProperties
  <2>2. ASSUME NEW i \in 1..Len(x) PROVE SubSeq(x \o k, 1, Len(x))[i] = x[i]
    BY <1>1, <1>2, SubSeqProperties, ConcatProperties, LenProperties
  <2> QED
    BY <1>1, <2>1, <2>2, SeqEqual
<1> QED
  BY <1>2, <1>3 DEF HasPrefix, EnvKey

\* If no name begins another, a line of .env belongs to one connection and key.
LEMMA KeysApart ==
    ASSUME NamesApart, NEW n \in Names, NEW m \in Names, NEW k \in Keys, NEW l \in Keys,
           EnvKey(n, k) = EnvKey(m, l)
    PROVE  n = m /\ k = l
<1>1. n = m
  BY OwnPrefix DEF NamesApart
<1> DEFINE x == EnvName[n]
<1>2. x \in Seq(STRING) /\ k \in Seq(STRING) /\ l \in Seq(STRING) /\ x \o k = x \o l
  BY <1>1, ConnectionsAssumption DEF EnvKey
<1>3. Len(k) = Len(l)
  BY <1>2, ConcatProperties, LenProperties
<1>4. ASSUME NEW i \in 1..Len(k) PROVE k[i] = l[i]
  <2>1. (x \o k)[Len(x) + i] = k[i] /\ (x \o l)[Len(x) + i] = l[i]
    BY <1>2, <1>3, ConcatProperties, LenProperties
  <2> QED
    BY <1>2, <2>1
<1>5. k = l
  BY <1>2, <1>3, <1>4, SeqEqual
<1> QED
  BY <1>1, <1>5

-----------------------------------------------------------------------------
\* The secrets of a command, one after the other

\* What a command's secrets come to depends on what was settled before it.
LEMMA SecretsStay ==
    ASSUME NEW c, NEW i, UNCHANGED settled
    PROVE  /\ Promise!SecretsAfter(c, i)' = Promise!SecretsAfter(c, i)
           /\ SavedSecrets(c, i)' = SavedSecrets(c, i)
<1>1. Promise!SecretsAfter(c, i)' = Promise!SecretsAfter(c, i)
  BY DEF Promise!SecretsAfter, Promise!GivenBy, OptionsOf
<1>2. SecretsOf(settled.env)' = SecretsOf(settled.env)
  BY DEF SecretsOf, OptionsOf
<1> QED
  BY <1>1, <1>2 DEF SavedSecrets

\* .env as a process has left it that goes on alone.
LEMMA EnvAloneAfter ==
    ASSUME NEW p \in Procs, UNCHANGED settled, NEW c, proc'[p].cmd = c,
           proc'[p].pc \in SavingSecrets,
           proc'[p].pc = "write env" => env' = NoLines,
           NamesApart => /\ proc'[p].pc \in {"load env", "open env"} =>
                               SecretsOf(env') = SavedSecrets(c, proc'[p].saved)
                         /\ proc'[p].pc \in {"open env", "write env"} =>
                               SecretsOf(proc'[p].env) =
                                   IF c.kind = "remove" THEN Promise!SecretsAfter(c, 0)
                                   ELSE Promise!SecretsAfter(c, proc'[p].saved + 1)
    PROVE  EnvAlone(p)'
<1>1. \A i : SavedSecrets(c, i)' = SavedSecrets(c, i)
  BY SecretsStay
<1>2. \A i : Promise!SecretsAfter(c, i)' = Promise!SecretsAfter(c, i)
  BY SecretsStay
<1> QED
  BY <1>1, <1>2 DEF EnvAlone, SavingSecrets

\* Before the first of them, and where there are none.
LEMMA NothingSaved ==
    ASSUME NEW c \in Commands, c.kind = "remove" => ~c.purge
    PROVE  Promise!SecretsAfter(c, 0) = SecretsOf(settled.env)
<1>1. \A k : Promise!GivenBy(c, 0, k) = {}
  BY DEF Promise!GivenBy
<1> QED
  BY <1>1 DEF Promise!SecretsAfter, SecretsOf, OptionsOf

\* add_secret takes the secrets from those after i to those after i + 1.
LEMMA OneMoreSaved ==
    ASSUME NamesApart, NEW c \in Commands, c.kind # "remove", NEW lines \in Envs,
           NEW i \in Nat, i < Len(c.secrets), SecretsOf(lines) = Promise!SecretsAfter(c, i)
    PROVE  SecretsOf(WithSecret(lines, c.name, c.secrets[i + 1])) = Promise!SecretsAfter(c, i + 1)
<1> DEFINE s == c.secrets[i + 1]
           new == WithSecret(lines, c.name, s)
<1>1. /\ c.name \in Names /\ i + 1 \in 1..Len(c.secrets) /\ i + 1 \in DOMAIN c.secrets
      /\ s.key \in Keys /\ s.value \in Values
  <2>1. c.name \in Names /\ c.secrets \in Seq(Secrets) /\ Len(c.secrets) \in Nat
    BY CommandTypes, LenProperties
  <2>2. i + 1 \in 1..Len(c.secrets)
    BY <2>1
  <2>3. s \in Secrets /\ i + 1 \in DOMAIN c.secrets
    BY <2>1, <2>2, LenProperties
  <2> QED
    BY <2>1, <2>2, <2>3 DEF Secrets
<1>2. ASSUME NEW n \in Names, NEW k \in Keys
      PROVE  OptionsOf(new, n)[k] = IF n = c.name /\ k = s.key THEN s.value
                                    ELSE OptionsOf(lines, n)[k]
  <2>1. EnvKey(n, k) = EnvKey(c.name, s.key) <=> n = c.name /\ k = s.key
    BY <1>1, KeysApart
  <2> QED
    BY <2>1 DEF OptionsOf, WithSecret, Envs, EnvKeys
<1>3. \A j \in 1..i : c.secrets[j].key # s.key
  <2>1. \A j \in 1..i : j \in DOMAIN c.secrets /\ j # i + 1
    BY <1>1, CommandTypes
  <2> QED
    BY <1>1, <2>1, ConnectionsAssumption
<1>4. ASSUME NEW k \in Keys
      PROVE  Promise!GivenBy(c, i + 1, k) = IF k = s.key THEN {i + 1} ELSE Promise!GivenBy(c, i, k)
  BY <1>1, <1>3 DEF Promise!GivenBy
<1>5. \A k \in Keys : k = s.key => c.secrets[CHOOSE j \in Promise!GivenBy(c, i + 1, k) : TRUE] = s
  <2>1. \A g : g = {i + 1} => (CHOOSE j \in g : TRUE) = i + 1
    OBVIOUS
  <2> QED
    BY <1>4, <2>1
<1>6. ASSUME NEW n \in Names, NEW k \in Keys
      PROVE  OptionsOf(new, n)[k] = Promise!SecretsAfter(c, i + 1)[n][k]
  <2>1. OptionsOf(lines, n)[k] = Promise!SecretsAfter(c, i)[n][k]
    BY DEF SecretsOf
  <2>2. CASE n = c.name /\ k = s.key
    BY <1>2, <1>4, <1>5, <2>2 DEF Promise!SecretsAfter
  <2>3. CASE n # c.name
    BY <1>2, <2>1, <2>3 DEF Promise!SecretsAfter
  <2>4. CASE n = c.name /\ k # s.key
    BY <1>2, <1>4, <2>1, <2>4 DEF Promise!SecretsAfter
  <2> QED
    BY <2>2, <2>3, <2>4
<1>7. ASSUME NEW n \in Names PROVE OptionsOf(new, n) = Promise!SecretsAfter(c, i + 1)[n]
  BY <1>6 DEF OptionsOf, Promise!SecretsAfter
<1> QED
  BY <1>7 DEF SecretsOf, Promise!SecretsAfter

\* remove_secrets removes those of its connection and no others.
LEMMA SecretsRemoved ==
    ASSUME NamesApart, NEW c \in Commands, c.kind = "remove", c.purge, NEW lines \in Envs,
           SecretsOf(lines) = SecretsOf(settled.env)
    PROVE  SecretsOf(WithoutSecrets(lines, c.name)) = Promise!SecretsAfter(c, 0)
<1> DEFINE new == WithoutSecrets(lines, c.name)
<1>1. ASSUME NEW n \in Names, NEW k \in Keys
      PROVE  OptionsOf(new, n)[k] = Promise!SecretsAfter(c, 0)[n][k]
  <2>1. EnvKey(n, k) \in EnvKeys /\ c.name \in Names
    BY CommandTypes DEF EnvKeys
  <2>2. HasPrefix(EnvKey(n, k), c.name) <=> n = c.name
    BY <2>1, OwnPrefix DEF NamesApart
  <2>3. OptionsOf(new, n)[k] = IF n = c.name THEN Absent ELSE lines[EnvKey(n, k)]
    BY <2>1, <2>2 DEF OptionsOf, WithoutSecrets
  <2>4. lines[EnvKey(n, k)] = OptionsOf(settled.env, n)[k]
    <3>1. OptionsOf(lines, n) = OptionsOf(settled.env, n)
      BY DEF SecretsOf
    <3> QED
      BY <3>1 DEF OptionsOf
  <2>5. Promise!GivenBy(c, 0, k) = {}
    BY DEF Promise!GivenBy
  <2> QED
    BY <2>3, <2>4, <2>5 DEF Promise!SecretsAfter
<1>2. ASSUME NEW n \in Names PROVE OptionsOf(new, n) = Promise!SecretsAfter(c, 0)[n]
  BY <1>1 DEF OptionsOf, Promise!SecretsAfter
<1> QED
  BY <1>2 DEF SecretsOf, Promise!SecretsAfter

-----------------------------------------------------------------------------
\* The other steps

\* A process starts a command.
LEMMA StartInv ==
    ASSUME IInv, NEW p \in Procs, NEW c \in Commands, Start(p, c)
    PROVE  IInv'
<1>1. /\ proc \in [Procs -> ProcessStates] /\ proc[p].pc = "idle"
      /\ proc' = [proc EXCEPT ![p] = Begin(c)]
      /\ UNCHANGED <<config, env, registered, last, settled>>
  BY DEF IInv, ConfigTypeOK, Start
<1>2. /\ proc' \in [Procs -> ProcessStates] /\ proc'[p] = Begin(c)
      /\ \A q \in Procs \ {p} : proc'[q] = proc[q]
  BY <1>1, BeginType
<1>3. /\ Begin(c).pc \in {"validate", "load", "list"}
      /\ Begin(c).pc = "validate" <=> c.kind = "add"
      /\ Begin(c).pc = "load" <=> c.kind = "remove"
      /\ Begin(c).cmd = c /\ Begin(c).saved = 0
      /\ Begin(c).then = "options" <=> SavedTwice(c)
      /\ c.kind \in {"add", "update", "remove", "load"}
  BY BeginType, CommandTypes
<1>4. ConfigTypeOK'
  <2>1. started' \in 0..MaxCommands /\ overlapped' \in BOOLEAN /\ session' \in BOOLEAN
    BY ConfigStoreAssumption DEF Start, IInv, ConfigTypeOK
  <2>2. \A q \in Procs :
          /\ proc'[q].pc \in SavingSecrets =>
                proc'[q].cmd.kind = "remove" \/ proc'[q].saved < Len(proc'[q].cmd.secrets)
          /\ proc'[q].pc = "register" => proc'[q].names # {}
    BY <1>2, <1>3 DEF IInv, ConfigTypeOK, SavingSecrets
  <2> QED
    BY <1>1, <1>2, <2>1, <2>2 DEF IInv, ConfigTypeOK
<1>5. \A q \in Procs : Sound(q)'
  <2>1. Sound(p)'
    BY <1>2, <1>3 DEF Sound, SavingSecrets, Start
  <2> QED
    BY <1>2, <2>1 DEF IInv, Sound
<1>6. ASSUME ~overlapped'
      PROVE  /\ \A q, r \in Active' : q = r
             /\ p \in Active'
             /\ \A q \in Active' : Alone(q)'
  <2>1. Active = {}
    BY <1>6 DEF Start
  <2>2. \A q \in Procs : q \in Active' <=> q = p
    BY <1>2, <1>3, <2>1 DEF Active
  <2>3. /\ Read(config) = settled.config /\ env = settled.env
        /\ registered = settled.registered
    <3>1. ~overlapped => /\ Read(config) = settled.config /\ env = settled.env
                         /\ registered = settled.registered
      BY <2>1 DEF IInv
    <3>2. overlapped => Active # {}
      BY DEF IInv
    <3> QED
      BY <2>1, <3>1, <3>2
  <2>4. ConfigAlone(p)'
    <3>1. c.kind = "remove" => Valid(c)
      BY DEF Valid
    <3> QED
      BY <1>1, <1>2, <1>3, <2>3, <3>1 DEF ConfigAlone, SavingSecrets, Read
  <2>5. EnvAlone(p)' /\ RegistryAlone(p)'
    BY <1>1, <1>2, <1>3, <2>3 DEF EnvAlone, RegistryAlone, SavingSecrets
  <2> QED
    BY <2>2, <2>4, <2>5 DEF Alone, Active
<1>7. overlapped' => Active' # {}
  BY <1>2, <1>3 DEF Active
<1> QED
  BY <1>4, <1>5, <1>6, <1>7 DEF IInv

\* The steps before anything is saved.
LEMMA ValidateInv ==
    ASSUME IInv, NEW p \in Procs, Validate(p)
    PROVE  IInv'
<1> DEFINE next == [proc[p] EXCEPT !.pc = "load"]
<1>1. /\ proc[p].pc = "validate" /\ proc[p].pc # "idle"
      /\ UNCHANGED <<config, env, registered>>
  BY DEF Validate
<1>2. /\ proc \in [Procs -> ProcessStates] /\ proc[p] \in ProcessStates
      /\ config \in Configs \union {Broken} /\ env \in Envs /\ registered \in Registries
      /\ Sound(p) /\ (~overlapped => Alone(p))
  BY <1>1, LocalState
<1>3. CASE Valid(proc[p].cmd) /\ Goes(p, next)
  <2>1. next \in ProcessStates
    BY <1>2 DEF ProcessStates
  <2>2. /\ proc' \in [Procs -> ProcessStates] /\ \A q \in Procs \ {p} : proc'[q] = proc[q]
        /\ proc'[p] = next
    BY <1>2, <1>3, <2>1 DEF Goes
  <2>3. /\ proc'[p].pc = "load" /\ proc'[p].cmd = proc[p].cmd /\ proc'[p].then = proc[p].then
        /\ proc'[p].saved = proc[p].saved
    BY <1>2, <2>2 DEF ProcessStates
  <2>4. Sound(p)'
    BY <1>1, <1>2, <2>3 DEF Sound, SavingSecrets
  <2>5. ASSUME ~overlapped PROVE Alone(p)'
    <3>1. ConfigAlone(p)'
      BY <1>1, <1>2, <1>3, <2>3, <2>5 DEF Alone, ConfigAlone, Sound, SavingSecrets, Goes, Read
    <3>2. EnvAlone(p)' /\ RegistryAlone(p)'
      BY <1>1, <1>2, <1>3, <2>3, <2>5 DEF Alone, EnvAlone, RegistryAlone, SavingSecrets, Goes
    <3> QED
      BY <3>1, <3>2 DEF Alone
  <2> QED
    BY <1>1, <1>2, <1>3, <2>2, <2>3, <2>4, <2>5, GoesOn DEF Goes, SavingSecrets
<1>4. CASE Ends(p, "failed")
  BY <1>1, <1>2, <1>4, EndsInv
<1> QED
  BY <1>3, <1>4 DEF Validate

LEMMA ListForUpdateInv ==
    ASSUME IInv, NEW p \in Procs, ListForUpdate(p)
    PROVE  IInv'
<1> DEFINE c == proc[p].cmd
           entry == Read(config)[c.name]
           next == [proc[p] EXCEPT !.pc = "load", !.modules = FinalModules(entry.modules, c)]
<1>1. /\ proc[p].pc = "list" /\ proc[p].pc # "idle" /\ c.kind = "update"
      /\ UNCHANGED <<config, env, registered>>
  BY DEF ListForUpdate
<1>2. /\ proc \in [Procs -> ProcessStates] /\ proc[p] \in ProcessStates
      /\ config \in Configs \union {Broken} /\ Read(config) \in Configs /\ c \in Commands
      /\ env \in Envs /\ registered \in Registries
      /\ Sound(p) /\ (~overlapped => Alone(p))
  BY <1>1, LocalState
<1>3. CASE entry # Absent /\ Goes(p, next)
  <2>1. next \in ProcessStates
    <3>1. FinalModules(entry.modules, c) \in (SUBSET Modules) \union {Absent}
      BY <1>2, <1>3, EntryTypes
    <3> QED
      BY <1>2, <3>1 DEF ProcessStates
  <2>2. /\ proc' \in [Procs -> ProcessStates] /\ \A q \in Procs \ {p} : proc'[q] = proc[q]
        /\ proc'[p] = next
    BY <1>2, <1>3, <2>1 DEF Goes
  <2>3. /\ proc'[p].pc = "load" /\ proc'[p].cmd = c /\ proc'[p].then = proc[p].then
        /\ proc'[p].saved = proc[p].saved /\ proc'[p].modules = FinalModules(entry.modules, c)
    BY <1>2, <2>2 DEF ProcessStates
  <2>4. Sound(p)'
    BY <1>1, <1>2, <2>3 DEF Sound, SavingSecrets, SavedTwice
  <2>5. ASSUME ~overlapped PROVE Alone(p)'
    <3>1. Read(config) = settled.config /\ Valid(c)
      BY <1>1, <1>2, <2>5 DEF Alone, ConfigAlone, Valid
    <3>2. ConfigAlone(p)'
      BY <1>1, <1>3, <2>3, <3>1 DEF ConfigAlone, SavingSecrets, Goes, Read
    <3>3. EnvAlone(p)' /\ RegistryAlone(p)'
      BY <1>1, <1>2, <1>3, <2>3, <2>5 DEF Alone, EnvAlone, RegistryAlone, SavingSecrets, Goes
    <3> QED
      BY <3>2, <3>3 DEF Alone
  <2> QED
    BY <1>1, <1>2, <1>3, <2>2, <2>3, <2>4, <2>5, GoesOn DEF Goes, SavingSecrets
<1>4. CASE Ends(p, "failed")
  BY <1>1, <1>2, <1>4, EndsInv
<1> QED
  BY <1>3, <1>4 DEF ListForUpdate

\* What a load has still to register, before it has registered anything.
LEMMA NothingRegistered ==
    ASSUME NEW c \in Commands, c.kind = "load", settled.registered \in Registries
    PROVE  settled.registered =
               [n \in Names |-> IF settled.config[n] # Absent THEN settled.registered[n]
                                ELSE Promise!RegisteredAfter(c)[n]]
BY DEF Promise!RegisteredAfter, Registries

LEMMA ListToLoadInv ==
    ASSUME IInv, NEW p \in Procs, ListToLoad(p)
    PROVE  IInv'
<1> DEFINE c == proc[p].cmd
           read == Read(config)
           names == {n \in Names : read[n] # Absent}
           next == [proc[p] EXCEPT !.pc = "register", !.config = read, !.names = names]
<1>1. /\ proc[p].pc = "list" /\ proc[p].pc # "idle" /\ c.kind = "load"
      /\ UNCHANGED <<config, env, registered>>
  BY DEF ListToLoad
<1>2. /\ proc \in [Procs -> ProcessStates] /\ proc[p] \in ProcessStates
      /\ config \in Configs \union {Broken} /\ read \in Configs /\ c \in Commands
      /\ env \in Envs /\ registered \in Registries /\ settled.registered \in Registries
      /\ Sound(p) /\ (~overlapped => Alone(p))
  BY <1>1, LocalState
<1>3. CASE names # {} /\ Goes(p, next)
  <2>1. next \in ProcessStates
    BY <1>2 DEF ProcessStates
  <2>2. /\ proc' \in [Procs -> ProcessStates] /\ \A q \in Procs \ {p} : proc'[q] = proc[q]
        /\ proc'[p] = next
    BY <1>2, <1>3, <2>1 DEF Goes
  <2>3. /\ proc'[p].pc = "register" /\ proc'[p].cmd = c /\ proc'[p].then = proc[p].then
        /\ proc'[p].saved = proc[p].saved /\ proc'[p].config = read /\ proc'[p].names = names
    BY <1>2, <2>2 DEF ProcessStates
  <2>4. Sound(p)'
    BY <1>1, <1>2, <2>3 DEF Sound, SavingSecrets, SavedTwice
  <2>5. ASSUME ~overlapped PROVE Alone(p)'
    <3>1. read = settled.config /\ registered = settled.registered /\ env = settled.env
      BY <1>1, <1>2, <2>5 DEF Alone, ConfigAlone, EnvAlone, RegistryAlone, SavingSecrets
    <3>2. ConfigAlone(p)'
      BY <1>1, <1>3, <2>3, <3>1 DEF ConfigAlone, SavingSecrets, Goes, Read
    <3>3. EnvAlone(p)'
      BY <1>1, <1>3, <2>3, <3>1 DEF EnvAlone, SavingSecrets, Goes
    <3>4. \A n \in Names : n \in names <=> settled.config[n] # Absent
      BY <3>1
    <3>5. registered = [n \in Names |-> IF n \in names THEN settled.registered[n]
                                        ELSE Promise!RegisteredAfter(c)[n]]
      BY <1>1, <1>2, <3>1, <3>4, NothingRegistered
    <3>6. Promise!RegisteredAfter(c)' = Promise!RegisteredAfter(c)
      BY <1>3 DEF Promise!RegisteredAfter, Goes
    <3>7. RegistryAlone(p)'
      BY <1>1, <1>3, <2>3, <3>5, <3>6 DEF RegistryAlone, Goes, Promise!RegisteredAfter
    <3> QED
      BY <3>2, <3>3, <3>7 DEF Alone
  <2> QED
    BY <1>1, <1>2, <1>3, <2>2, <2>3, <2>4, <2>5, GoesOn DEF Goes, SavingSecrets
<1>4. CASE Ends(p, "ok")
  BY <1>1, <1>2, <1>4, EndsInv
<1> QED
  BY <1>3, <1>4 DEF ListToLoad

\* The loader registers the connections one after the other.
LEMMA RegisterInv ==
    ASSUME IInv, NEW p \in Procs, NEW n \in Names, Register(p, n)
    PROVE  IInv'
<1> DEFINE c == proc[p].cmd
           next == [proc[p] EXCEPT !.names = proc[p].names \ {n}]
           new == ConnectionConfig(proc[p].config[n], OptionsOf(env, n))
<1>1. /\ proc[p].pc = "register" /\ proc[p].pc # "idle" /\ n \in proc[p].names
      /\ UNCHANGED <<config, env>>
      /\ registered' = IF registered[n] # Absent THEN registered
                       ELSE [registered EXCEPT ![n] = new]
  BY DEF Register, files
<1>2. /\ proc \in [Procs -> ProcessStates] /\ proc[p] \in ProcessStates
      /\ config \in Configs \union {Broken} /\ env \in Envs /\ registered \in Registries
      /\ c \in Commands /\ Sound(p) /\ (~overlapped => Alone(p))
      /\ settled \in [config : Configs, env : Envs, registered : Registries]
  BY <1>1, LocalState
<1>3. c.kind = "load" /\ \A m \in proc[p].names : proc[p].config[m] # Absent
  BY <1>1, <1>2 DEF Sound
<1>4. new \in ConnectionConfigs /\ new # Absent
  <2>1. proc[p].config[n] \in Entries
    BY <1>1, <1>2, <1>3 DEF ProcessStates, Configs
  <2>2. OptionsOf(env, n) \in [Keys -> Values \union {Absent}]
    BY <1>2, EnvTypes
  <2>3. new \in ConnectionConfigs
    BY <2>1, <2>2 DEF ConnectionConfig, ConnectionConfigs, Entries
  <2> QED
    BY <2>3, ConnectionsAssumption
<1>5. registered' \in Registries
  BY <1>1, <1>2, <1>4 DEF Registries
<1>6. CASE proc[p].names # {n} /\ Goes(p, next)
  <2>1. next \in ProcessStates
    BY <1>2 DEF ProcessStates
  <2>2. /\ proc' \in [Procs -> ProcessStates] /\ \A q \in Procs \ {p} : proc'[q] = proc[q]
        /\ proc'[p] = next
    BY <1>2, <1>6, <2>1 DEF Goes
  <2>3. /\ proc'[p].pc = "register" /\ proc'[p].cmd = c /\ proc'[p].then = proc[p].then
        /\ proc'[p].saved = proc[p].saved /\ proc'[p].config = proc[p].config
        /\ proc'[p].names = proc[p].names \ {n} /\ proc'[p].names # {}
    BY <1>1, <1>2, <1>6, <2>2 DEF ProcessStates
  <2>4. Sound(p)'
    BY <1>1, <1>2, <2>3 DEF Sound, SavingSecrets
  <2>5. ASSUME ~overlapped PROVE Alone(p)'
    <3>1. /\ Read(config) = settled.config /\ env = settled.env
          /\ proc[p].config = settled.config
          /\ registered = [m \in Names |-> IF m \in proc[p].names THEN settled.registered[m]
                                           ELSE Promise!RegisteredAfter(c)[m]]
      BY <1>1, <1>2, <2>5 DEF Alone, ConfigAlone, EnvAlone, RegistryAlone, SavingSecrets
    <3>2. ConfigAlone(p)'
      BY <1>1, <1>6, <2>3, <3>1 DEF ConfigAlone, SavingSecrets, Goes, Read
    <3>3. EnvAlone(p)'
      BY <1>1, <1>6, <2>3, <3>1 DEF EnvAlone, SavingSecrets, Goes
    <3>4. registered[n] = settled.registered[n]
      BY <1>1, <3>1
    <3>5. Promise!RegisteredAfter(c)[n] = registered'[n]
      BY <1>1, <1>2, <1>3, <1>4, <3>1, <3>4, SameOperators
      DEF Promise!RegisteredAfter, Registries, OptionsOf
    <3>6. \A m \in Names \ {n} : registered'[m] = registered[m]
      BY <1>1, <1>2 DEF Registries
    <3>7. registered' = [m \in Names |-> IF m \in proc'[p].names THEN settled.registered[m]
                                         ELSE Promise!RegisteredAfter(c)[m]]
      BY <1>5, <2>3, <3>1, <3>5, <3>6 DEF Registries
    <3>8. RegistryAlone(p)'
      BY <1>1, <1>6, <2>3, <3>7 DEF RegistryAlone, Goes, Promise!RegisteredAfter
    <3> QED
      BY <3>2, <3>3, <3>8 DEF Alone
  <2> QED
    BY <1>1, <1>2, <1>5, <1>6, <2>2, <2>3, <2>4, <2>5, GoesOn DEF Goes, SavingSecrets
<1>7. CASE Ends(p, "ok")
  BY <1>1, <1>2, <1>5, <1>7, EndsInv
<1> QED
  BY <1>6, <1>7 DEF Register

\* The second save of a new connection.
LEMMA LoadForOptionsInv ==
    ASSUME IInv, NEW p \in Procs, LoadForOptions(p)
    PROVE  IInv'
<1> DEFINE c == proc[p].cmd
           read == Read(config)
           file == [read EXCEPT ![c.name] = [read[c.name] EXCEPT !.option = c.option]]
           next == [proc[p] EXCEPT !.pc = "open", !.then = "env", !.config = file]
<1>1. /\ proc[p].pc = "options" /\ proc[p].pc # "idle"
      /\ UNCHANGED <<config, env, registered>>
  BY DEF LoadForOptions
<1>2. /\ proc \in [Procs -> ProcessStates] /\ proc[p] \in ProcessStates
      /\ config \in Configs \union {Broken} /\ read \in Configs /\ c \in Commands
      /\ env \in Envs /\ registered \in Registries /\ settled.config \in Configs
      /\ Sound(p) /\ (~overlapped => Alone(p))
  BY <1>1, LocalState
<1>3. CASE read[c.name] # Absent /\ Goes(p, next)
  <2>1. next \in ProcessStates
    <3>1. file \in Configs
      BY <1>2, <1>3, EntryTypes
    <3> QED
      BY <1>2, <3>1 DEF ProcessStates
  <2>2. /\ proc' \in [Procs -> ProcessStates] /\ \A q \in Procs \ {p} : proc'[q] = proc[q]
        /\ proc'[p] = next
    BY <1>2, <1>3, <2>1 DEF Goes
  <2>3. /\ proc'[p].pc = "open" /\ proc'[p].cmd = c /\ proc'[p].then = "env"
        /\ proc'[p].saved = proc[p].saved /\ proc'[p].config = file
    BY <1>2, <2>2 DEF ProcessStates
  <2>4. Sound(p)'
    BY <1>1, <1>2, <2>3 DEF Sound, SavingSecrets
  <2>5. ASSUME ~overlapped PROVE Alone(p)'
    <3>1. read = WithEntry(c) /\ Valid(c) /\ Promise!Accepted(c) /\ SavedTwice(c)
      BY <1>1, <1>2, <2>5 DEF Alone, ConfigAlone, Sound
    <3>2. file = Promise!TableAfter(c)
      <4>1. Promise!TableAfter(c) =
                [settled.config EXCEPT ![c.name] = [EntryOf(c) EXCEPT !.option = c.option]]
        BY <1>2, <3>1, TableAfterIs DEF SavedTwice
      <4> QED
        BY <1>2, <3>1, <4>1, CommandTypes DEF WithEntry, Configs
    <3>3. ConfigAlone(p)'
      BY <1>1, <1>3, <2>3, <3>1, <3>2
      DEF ConfigAlone, SavingSecrets, Goes, Read, WithEntry,
          Promise!TableAfter, Promise!EntryAfter, Promise!Accepted
    <3>4. EnvAlone(p)' /\ RegistryAlone(p)'
      BY <1>1, <1>2, <1>3, <2>3, <2>5 DEF Alone, EnvAlone, RegistryAlone, SavingSecrets, Goes
    <3> QED
      BY <3>3, <3>4 DEF Alone
  <2> QED
    BY <1>1, <1>2, <1>3, <2>2, <2>3, <2>4, <2>5, GoesOn DEF Goes, SavingSecrets
<1>4. CASE Ends(p, "failed")
  BY <1>1, <1>2, <1>4, EndsInv
<1> QED
  BY <1>3, <1>4 DEF LoadForOptions

\* Saving uqal_config.json: it is emptied, then written.
LEMMA OpenConfigInv ==
    ASSUME IInv, NEW p \in Procs, OpenConfig(p)
    PROVE  IInv'
<1> DEFINE next == [proc[p] EXCEPT !.pc = "write"]
<1>1. /\ proc[p].pc = "open" /\ proc[p].pc # "idle" /\ config' = NoEntries
      /\ UNCHANGED <<env, registered>> /\ Goes(p, next)
  BY DEF OpenConfig
<1>2. /\ proc \in [Procs -> ProcessStates] /\ proc[p] \in ProcessStates
      /\ env \in Envs /\ registered \in Registries
      /\ Sound(p) /\ (~overlapped => Alone(p)) /\ config' \in Configs
  BY <1>1, LocalState, FileTypes
<1>3. next \in ProcessStates
  BY <1>2 DEF ProcessStates
<1>4. /\ proc' \in [Procs -> ProcessStates] /\ \A q \in Procs \ {p} : proc'[q] = proc[q]
      /\ proc'[p] = next
  BY <1>1, <1>2, <1>3 DEF Goes
<1>5. /\ proc'[p].pc = "write" /\ proc'[p].cmd = proc[p].cmd /\ proc'[p].then = proc[p].then
      /\ proc'[p].saved = proc[p].saved /\ proc'[p].config = proc[p].config
  BY <1>2, <1>4 DEF ProcessStates
<1>6. Sound(p)'
  BY <1>1, <1>2, <1>5 DEF Sound, SavingSecrets
<1>7. ASSUME ~overlapped PROVE Alone(p)'
  <2>1. ConfigAlone(p)'
    BY <1>1, <1>2, <1>5, <1>7
    DEF Alone, ConfigAlone, SavingSecrets, Goes, WithEntry,
        Promise!TableAfter, Promise!EntryAfter, Promise!Accepted
  <2>2. EnvAlone(p)' /\ RegistryAlone(p)'
    BY <1>1, <1>2, <1>5, <1>7 DEF Alone, EnvAlone, RegistryAlone, SavingSecrets, Goes
  <2> QED
    BY <2>1, <2>2 DEF Alone
<1> QED
  BY <1>1, <1>2, <1>4, <1>5, <1>6, <1>7, GoesOn DEF Goes, SavingSecrets

LEMMA WriteConfigInv ==
    ASSUME IInv, NEW p \in Procs, WriteConfig(p)
    PROVE  IInv'
<1> DEFINE c == proc[p].cmd
<1>1. /\ proc[p].pc = "write" /\ proc[p].pc # "idle"
      /\ config' \in Overwritten(config, proc[p].config)
      /\ UNCHANGED <<env, registered>>
  BY DEF WriteConfig
<1>2. /\ proc \in [Procs -> ProcessStates] /\ proc[p] \in ProcessStates /\ c \in Commands
      /\ env \in Envs /\ registered \in Registries
      /\ Sound(p) /\ (~overlapped => Alone(p))
  BY <1>1, LocalState
<1>3. proc[p].config \in Configs /\ config' \in Configs \union {Broken}
  BY <1>1, <1>2 DEF Overwritten, ProcessStates
<1>4. ASSUME ~overlapped
      PROVE  /\ Read(config)' = proc[p].config /\ Valid(c) /\ Promise!Accepted(c)
             /\ proc[p].config = IF proc[p].then = "options" THEN WithEntry(c)
                                 ELSE Promise!TableAfter(c)
             /\ env = settled.env /\ registered = settled.registered
  <2>1. config = NoEntries
    BY <1>1, <1>2, <1>4 DEF Alone, ConfigAlone
  <2>2. config' = proc[p].config
    BY <1>1, <2>1 DEF Overwritten
  <2>3. Read(config)' = proc[p].config
    BY <1>3, <2>2, FileTypes DEF Read
  <2> QED
    BY <1>1, <1>2, <1>4, <2>3
    DEF Alone, ConfigAlone, EnvAlone, RegistryAlone, SavingSecrets
<1>5. ASSUME NEW pc \in {"options", "load env"}, Goes(p, [proc[p] EXCEPT !.pc = pc])
      PROVE  /\ proc' \in [Procs -> ProcessStates] /\ \A q \in Procs \ {p} : proc'[q] = proc[q]
             /\ proc'[p].pc = pc /\ proc'[p].cmd = c /\ proc'[p].then = proc[p].then
             /\ proc'[p].saved = 0 /\ proc'[p].config = proc[p].config
  <2>1. [proc[p] EXCEPT !.pc = pc] \in ProcessStates
    BY <1>2 DEF ProcessStates, SavingSecrets
  <2>2. proc[p].saved = 0
    BY <1>1, <1>2 DEF Sound, SavingSecrets
  <2> QED
    BY <1>2, <1>5, <2>1, <2>2 DEF Goes, ProcessStates
<1>6. CASE proc[p].then = "options" /\ Goes(p, [proc[p] EXCEPT !.pc = "options"])
  <2>1. Sound(p)'
    BY <1>1, <1>2, <1>5, <1>6 DEF Sound, SavingSecrets, SavedTwice
  <2>2. ASSUME ~overlapped PROVE Alone(p)'
    <3>1. ConfigAlone(p)'
      BY <1>4, <1>5, <1>6, <2>2
      DEF ConfigAlone, SavingSecrets, Goes, WithEntry, Promise!Accepted
    <3>2. EnvAlone(p)' /\ RegistryAlone(p)'
      BY <1>1, <1>4, <1>5, <1>6, <2>2 DEF EnvAlone, RegistryAlone, SavingSecrets, Goes
    <3> QED
      BY <3>1, <3>2 DEF Alone
  <2> QED
    BY <1>1, <1>2, <1>3, <1>5, <1>6, <2>1, <2>2, GoesOn DEF Goes, SavingSecrets
<1>7. CASE /\ proc[p].then # "options"
           /\ MoreSecrets(c, 0) /\ Goes(p, [proc[p] EXCEPT !.pc = "load env"])
  <2>1. c.kind = "remove" => c.purge
    BY <1>7 DEF MoreSecrets
  <2>2. Sound(p)'
    BY <1>1, <1>2, <1>5, <1>7, <2>1 DEF Sound, SavingSecrets
  <2>3. ASSUME ~overlapped PROVE Alone(p)'
    <3>1. ConfigAlone(p)'
      BY <1>4, <1>5, <1>7, <2>3
      DEF ConfigAlone, SavingSecrets, Goes, Promise!Accepted,
          Promise!TableAfter, Promise!EntryAfter
    <3>2. SecretsOf(env) = SavedSecrets(c, 0)
      <4>1. SecretsOf(env) = SecretsOf(settled.env)
        BY <1>4, <2>3
      <4> QED
        BY <1>2, <4>1, NothingSaved DEF SavedSecrets
    <3>3. EnvAlone(p)'
      <4>1. /\ UNCHANGED settled /\ env' = env
            /\ proc'[p].pc = "load env" /\ proc'[p].cmd = c /\ proc'[p].saved = 0
        BY <1>1, <1>5, <1>7 DEF Goes
      <4> QED
        BY <3>2, <4>1, EnvAloneAfter DEF SavingSecrets
    <3>4. RegistryAlone(p)'
      BY <1>1, <1>4, <1>5, <1>7, <2>3 DEF RegistryAlone, Goes
    <3> QED
      BY <3>1, <3>3, <3>4 DEF Alone
  <2>4. c.kind = "remove" \/ 0 < Len(c.secrets)
    BY <1>7 DEF MoreSecrets
  <2> QED
    BY <1>1, <1>2, <1>3, <1>5, <1>7, <2>2, <2>3, <2>4, GoesOn DEF Goes
<1>8. CASE Ends(p, "ok")
  BY <1>1, <1>2, <1>3, <1>8, EndsInv
<1> QED
  BY <1>6, <1>7, <1>8 DEF WriteConfig, ConfigDone

\* Saving .env: its lines are read and changed, it is emptied, then written.
LEMMA LoadEnvInv ==
    ASSUME IInv, NEW p \in Procs, LoadEnv(p)
    PROVE  IInv'
<1> DEFINE c == proc[p].cmd
           saved == proc[p].saved
           without == WithoutSecrets(env, c.name)
           with == WithSecret(env, c.name, c.secrets[saved + 1])
<1>1. /\ proc[p].pc = "load env" /\ proc[p].pc # "idle"
      /\ UNCHANGED <<config, env, registered>>
  BY DEF LoadEnv
<1>2. /\ proc \in [Procs -> ProcessStates] /\ proc[p] \in ProcessStates /\ c \in Commands
      /\ config \in Configs \union {Broken} /\ env \in Envs /\ registered \in Registries
      /\ Sound(p) /\ (~overlapped => Alone(p))
      /\ saved \in Nat /\ (c.kind = "remove" \/ saved < Len(c.secrets))
  BY <1>1, LocalState DEF IInv, ConfigTypeOK, ProcessStates, SavingSecrets
<1>3. ASSUME NEW lines \in Envs, Goes(p, [proc[p] EXCEPT !.pc = "open env", !.env = lines]),
             ~overlapped /\ NamesApart =>
                 SecretsOf(lines) = IF c.kind = "remove" THEN Promise!SecretsAfter(c, 0)
                                    ELSE Promise!SecretsAfter(c, saved + 1)
      PROVE  IInv'
  <2>1. /\ proc' \in [Procs -> ProcessStates] /\ \A q \in Procs \ {p} : proc'[q] = proc[q]
        /\ proc'[p] = [proc[p] EXCEPT !.pc = "open env", !.env = lines]
    <3>1. [proc[p] EXCEPT !.pc = "open env", !.env = lines] \in ProcessStates
      BY <1>2, <1>3 DEF ProcessStates, SavingSecrets
    <3> QED
      BY <1>2, <1>3, <3>1 DEF Goes
  <2>2. /\ proc'[p].pc = "open env" /\ proc'[p].cmd = c /\ proc'[p].then = proc[p].then
        /\ proc'[p].saved = saved /\ proc'[p].env = lines
    BY <1>2, <2>1 DEF ProcessStates
  <2>3. Sound(p)'
    BY <1>1, <1>2, <2>2 DEF Sound, SavingSecrets
  <2>4. ASSUME ~overlapped PROVE Alone(p)'
    <3>1. ConfigAlone(p)'
      BY <1>1, <1>2, <1>3, <2>2, <2>4
      DEF Alone, ConfigAlone, SavingSecrets, Goes, Read, Promise!Accepted,
          Promise!TableAfter, Promise!EntryAfter
    <3>2. NamesApart => SecretsOf(env) = SavedSecrets(c, saved)
      BY <1>1, <1>2, <2>4 DEF Alone, EnvAlone
    <3>3. UNCHANGED settled /\ env' = env
      BY <1>1, <1>3 DEF Goes
    <3>4. EnvAlone(p)'
      BY <1>3, <2>2, <2>4, <3>2, <3>3, EnvAloneAfter DEF SavingSecrets
    <3>5. RegistryAlone(p)'
      BY <1>1, <1>2, <1>3, <2>2, <2>4 DEF Alone, RegistryAlone, Goes
    <3> QED
      BY <3>1, <3>4, <3>5 DEF Alone
  <2> QED
    BY <1>1, <1>2, <1>3, <2>1, <2>2, <2>3, <2>4, GoesOn DEF Goes
<1>4. CASE c.kind = "remove" /\ without = env /\ Ends(p, "ok")
  BY <1>1, <1>2, <1>4, EndsInv
<1>5. CASE /\ c.kind = "remove"
           /\ Goes(p, [proc[p] EXCEPT !.pc = "open env", !.env = without])
  <2>1. without \in Envs
    BY <1>2, EnvTypes
  <2>2. ASSUME ~overlapped, NamesApart PROVE SecretsOf(without) = Promise!SecretsAfter(c, 0)
    <3>1. c.purge /\ SecretsOf(env) = SecretsOf(settled.env)
      BY <1>1, <1>2, <1>5, <2>2 DEF Alone, EnvAlone, Sound, SavedSecrets, SavingSecrets
    <3> QED
      BY <1>2, <1>5, <2>2, <3>1, SecretsRemoved
  <2> QED
    BY <1>3, <1>5, <2>1, <2>2
<1>6. CASE /\ c.kind # "remove"
           /\ Goes(p, [proc[p] EXCEPT !.pc = "open env", !.env = with])
  <2>1. with \in Envs
    <3>1. Len(c.secrets) \in Nat
      BY <1>2, CommandTypes, LenProperties
    <3> QED
      BY <1>2, <1>6, <3>1, EnvTypes
  <2>2. ASSUME ~overlapped, NamesApart PROVE SecretsOf(with) = Promise!SecretsAfter(c, saved + 1)
    <3>1. SecretsOf(env) = Promise!SecretsAfter(c, saved)
      BY <1>1, <1>2, <1>6, <2>2 DEF Alone, EnvAlone, SavedSecrets
    <3> QED
      BY <1>2, <1>6, <2>2, <3>1, OneMoreSaved
  <2> QED
    BY <1>3, <1>6, <2>1, <2>2
<1> QED
  BY <1>4, <1>5, <1>6 DEF LoadEnv

LEMMA OpenEnvInv ==
    ASSUME IInv, NEW p \in Procs, OpenEnv(p)
    PROVE  IInv'
<1> DEFINE c == proc[p].cmd
           next == [proc[p] EXCEPT !.pc = "write env"]
<1>1. /\ proc[p].pc = "open env" /\ proc[p].pc # "idle" /\ env' = NoLines
      /\ UNCHANGED <<config, registered>> /\ Goes(p, next)
  BY DEF OpenEnv
<1>2. /\ proc \in [Procs -> ProcessStates] /\ proc[p] \in ProcessStates
      /\ config \in Configs \union {Broken} /\ registered \in Registries /\ env' \in Envs
      /\ Sound(p) /\ (~overlapped => Alone(p))
      /\ c.kind = "remove" \/ proc[p].saved < Len(c.secrets)
  BY <1>1, LocalState, FileTypes DEF IInv, ConfigTypeOK, SavingSecrets
<1>3. next \in ProcessStates
  BY <1>2 DEF ProcessStates, SavingSecrets
<1>4. /\ proc' \in [Procs -> ProcessStates] /\ \A q \in Procs \ {p} : proc'[q] = proc[q]
      /\ proc'[p] = next
  BY <1>1, <1>2, <1>3 DEF Goes
<1>5. /\ proc'[p].pc = "write env" /\ proc'[p].cmd = c /\ proc'[p].then = proc[p].then
      /\ proc'[p].saved = proc[p].saved /\ proc'[p].env = proc[p].env
  BY <1>2, <1>4 DEF ProcessStates
<1>6. Sound(p)'
  BY <1>1, <1>2, <1>5 DEF Sound, SavingSecrets
<1>7. ASSUME ~overlapped PROVE Alone(p)'
  <2>1. ConfigAlone(p)'
    BY <1>1, <1>2, <1>5, <1>7
    DEF Alone, ConfigAlone, SavingSecrets, Goes, Read, Promise!Accepted,
        Promise!TableAfter, Promise!EntryAfter
  <2>2. NamesApart => SecretsOf(proc[p].env) = IF c.kind = "remove" THEN Promise!SecretsAfter(c, 0)
                                               ELSE Promise!SecretsAfter(c, proc[p].saved + 1)
    BY <1>1, <1>2, <1>7 DEF Alone, EnvAlone
  <2>3. UNCHANGED settled
    BY <1>1 DEF Goes
  <2>4. EnvAlone(p)'
    BY <1>1, <1>5, <2>2, <2>3, EnvAloneAfter DEF SavingSecrets
  <2>5. RegistryAlone(p)'
    BY <1>1, <1>2, <1>5, <1>7 DEF Alone, RegistryAlone, Goes
  <2> QED
    BY <2>1, <2>4, <2>5 DEF Alone
<1> QED
  BY <1>1, <1>2, <1>4, <1>5, <1>6, <1>7, GoesOn DEF Goes

\* The lines that a process alone writes are its own.
LEMMA WrittenAlone ==
    ASSUME env = NoLines, NEW mine \in Envs, NEW lines \in SUBSET {x \in EnvKeys : env[x] # Absent}
    PROVE  Behind(mine, Surviving(lines)) = mine
BY DEF Behind, Surviving, NoLines, Envs

LEMMA WriteEnvInv ==
    ASSUME IInv, NEW p \in Procs, WriteEnv(p)
    PROVE  IInv'
<1> DEFINE c == proc[p].cmd
           saved == proc[p].saved + 1
           next == [proc[p] EXCEPT !.pc = "load env", !.saved = saved]
<1>1. /\ proc[p].pc = "write env" /\ proc[p].pc # "idle"
      /\ UNCHANGED <<config, registered>>
  BY DEF WriteEnv
<1>2. PICK lines \in SUBSET {x \in EnvKeys : env[x] # Absent} :
          env' = Behind(proc[p].env, Surviving(lines))
  BY DEF WriteEnv
<1>3. /\ proc \in [Procs -> ProcessStates] /\ proc[p] \in ProcessStates
      /\ config \in Configs \union {Broken} /\ registered \in Registries /\ env \in Envs
      /\ Sound(p) /\ (~overlapped => Alone(p))
  BY <1>1, LocalState
<1>4. proc[p].env \in Envs /\ env' \in Envs
  BY <1>2, <1>3 DEF Behind, Surviving, Envs, ProcessStates
<1>5. CASE c.kind # "remove" /\ MoreSecrets(c, saved) /\ Goes(p, next)
  <2>1. next \in ProcessStates
    <3>1. proc[p].saved \in Nat
      BY <1>3 DEF ProcessStates
    <3>2. saved \in Nat
      BY <3>1
    <3> HIDE DEF saved
    <3> QED
      BY <1>3, <3>2 DEF ProcessStates, SavingSecrets
  <2>2. /\ proc' \in [Procs -> ProcessStates] /\ \A q \in Procs \ {p} : proc'[q] = proc[q]
        /\ proc'[p] = next
    BY <1>3, <1>5, <2>1 DEF Goes
  <2>3. /\ proc'[p].pc = "load env" /\ proc'[p].cmd = c /\ proc'[p].then = proc[p].then
        /\ proc'[p].saved = saved
    BY <1>3, <2>2 DEF ProcessStates
  <2>4. Sound(p)' /\ saved < Len(c.secrets)
    BY <1>1, <1>3, <1>5, <2>3 DEF Sound, SavingSecrets, MoreSecrets
  <2>5. ASSUME ~overlapped PROVE Alone(p)'
    <3>1. ConfigAlone(p)'
      BY <1>1, <1>3, <1>5, <2>3, <2>5
      DEF Alone, ConfigAlone, SavingSecrets, Goes, Read, Promise!Accepted,
          Promise!TableAfter, Promise!EntryAfter
    <3>2. env' = proc[p].env
      <4>1. env = NoLines
        BY <1>1, <1>3, <2>5 DEF Alone, EnvAlone
      <4> QED
        BY <1>2, <1>4, <4>1, WrittenAlone
    <3>3. NamesApart => SecretsOf(env') = SavedSecrets(c, saved)
      BY <1>1, <1>3, <1>5, <2>5, <3>2 DEF Alone, EnvAlone, SavedSecrets
    <3>4. UNCHANGED settled
      BY <1>5 DEF Goes
    <3>5. EnvAlone(p)'
      BY <2>3, <3>3, <3>4, EnvAloneAfter DEF SavingSecrets
    <3>6. RegistryAlone(p)'
      BY <1>1, <1>3, <1>5, <2>3, <2>5 DEF Alone, RegistryAlone, Goes
    <3> QED
      BY <3>1, <3>5, <3>6 DEF Alone
  <2> QED
    BY <1>1, <1>3, <1>4, <1>5, <2>2, <2>3, <2>4, <2>5, GoesOn DEF Goes
<1>6. CASE Ends(p, "ok")
  BY <1>1, <1>3, <1>4, <1>6, EndsInv
<1> QED
  BY <1>5, <1>6 DEF WriteEnv

LEMMA KillInv ==
    ASSUME IInv, NEW p \in Procs, Kill(p)
    PROVE  IInv'
<1>1. /\ proc[p].pc # "idle" /\ Ends(p, "killed") /\ UNCHANGED <<config, env>>
      /\ registered' \in {registered, NoConnections}
  BY DEF Kill, files
<1>2. /\ config \in Configs \union {Broken} /\ env \in Envs
      /\ registered \in Registries /\ NoConnections \in Registries
  BY <1>1, LocalState, FileTypes
<1> QED
  BY <1>1, <1>2, EndsInv

LEMMA LeaveInv ==
    ASSUME IInv, Leave
    PROVE  IInv'
<1>1. /\ UNCHANGED <<config, env, proc, started, last, overlapped>>
      /\ session' = FALSE /\ registered' = NoConnections
      /\ settled' = [settled EXCEPT !.registered = NoConnections]
      /\ proc[Repl].pc = "idle"
  BY DEF Leave
<1>2. /\ settled' \in [config : Configs, env : Envs, registered : Registries]
      /\ settled'.config = settled.config /\ settled'.env = settled.env
      /\ settled'.registered = NoConnections
  BY <1>1, FileTypes DEF IInv, ConfigTypeOK
<1>3. ConfigTypeOK'
  BY <1>1, <1>2, FileTypes DEF IInv, ConfigTypeOK
<1>4. \A p \in Procs : Sound(p)'
  BY <1>1 DEF IInv, Sound
<1>5. ASSUME NEW p \in Active, ~overlapped PROVE Alone(p)'
  <2>1. Alone(p) /\ p \in Procs /\ Sound(p) /\ proc[p].pc # "idle"
    BY <1>5 DEF IInv, Active
  <2>2. proc[p].pc # "register"
    BY <1>1, <2>1 DEF Sound
  <2>3. ConfigAlone(p)'
    BY <1>1, <1>2, <2>1
    DEF Alone, ConfigAlone, Read, WithEntry, Promise!Accepted,
        Promise!TableAfter, Promise!EntryAfter
  <2>4. \A c, i : /\ SavedSecrets(c, i)' = SavedSecrets(c, i)
                  /\ Promise!SecretsAfter(c, i)' = Promise!SecretsAfter(c, i)
    BY <1>2 DEF SavedSecrets, Promise!SecretsAfter, Promise!GivenBy, SecretsOf, OptionsOf
  <2>5. EnvAlone(p)'
    BY <1>1, <1>2, <2>1, <2>4 DEF Alone, EnvAlone
  <2>6. RegistryAlone(p)'
    BY <1>1, <1>2, <2>2 DEF RegistryAlone
  <2> QED
    BY <2>3, <2>5, <2>6 DEF Alone
<1>6. Active' = Active
  BY <1>1 DEF Active
<1> QED
  BY <1>1, <1>2, <1>3, <1>4, <1>5, <1>6 DEF IInv, Read

-----------------------------------------------------------------------------
\* The theorems

LEMMA InitInv == Init => IInv
<1> SUFFICES ASSUME Init PROVE IInv
  OBVIOUS
<1>1. Load \in Commands /\ Load.kind = "load" /\ Idle \in ProcessStates
      /\ Idle.pc = "idle" /\ Idle.saved = 0 /\ Idle.then = "env"
  BY ConfigStoreAssumption, BeginType
<1>2. proc \in [Procs -> ProcessStates] /\ \A p \in Procs : proc[p] = Idle
  BY <1>1 DEF Init
<1>3. ConfigTypeOK
  <2>1. /\ config \in Configs \union {Broken} /\ env \in Envs /\ registered \in Registries
        /\ session \in BOOLEAN /\ started \in 0..MaxCommands /\ overlapped \in BOOLEAN
    <3>1. config \in Configs \union {Broken} /\ env \in Envs /\ registered \in Registries
      BY FileTypes DEF Init
    <3>2. session \in BOOLEAN /\ overlapped \in BOOLEAN
      BY DEF Init
    <3>3. started = 0 /\ MaxCommands \in Nat
      BY ConfigStoreAssumption DEF Init
    <3> QED
      BY <3>1, <3>2, <3>3
  <2>2. /\ last \in [cmd : Commands, exit : {"none", "ok", "failed", "killed"}]
        /\ settled \in [config : Configs, env : Envs, registered : Registries]
    BY <1>1, FileTypes DEF Init
  <2>3. \A p \in Procs : proc[p].pc \notin SavingSecrets /\ proc[p].pc # "register"
    BY <1>1, <1>2 DEF SavingSecrets
  <2> QED
    BY <1>2, <2>1, <2>2, <2>3 DEF ConfigTypeOK
<1>4. \A p \in Procs : Sound(p)
  BY <1>1, <1>2 DEF Sound, SavingSecrets
<1>5. Active = {}
  BY <1>1, <1>2 DEF Active
<1>6. Read(config) = settled.config /\ env = settled.env /\ registered = settled.registered
  BY FileTypes DEF Init
<1> QED
  BY <1>3, <1>4, <1>5, <1>6 DEF IInv, Init

LEMMA StepInv == IInv /\ [Next]_vars => IInv'
<1> SUFFICES ASSUME IInv, [Next]_vars PROVE IInv'
  OBVIOUS
<1>1. ASSUME NEW p \in Procs, NEW c \in Commands, Start(p, c) PROVE IInv'
  BY <1>1, StartInv
<1>2. ASSUME NEW p \in Procs, Validate(p) \/ ListForUpdate(p) \/ ListToLoad(p) PROVE IInv'
  BY <1>2, ValidateInv, ListForUpdateInv, ListToLoadInv
<1>3. ASSUME NEW p \in Procs, NEW n \in Names, Register(p, n) PROVE IInv'
  BY <1>3, RegisterInv
<1>4. ASSUME NEW p \in Procs,
             LoadConfig(p) \/ LoadForOptions(p) \/ OpenConfig(p) \/ WriteConfig(p)
      PROVE  IInv'
  BY <1>4, LoadConfigInv, LoadForOptionsInv, OpenConfigInv, WriteConfigInv
<1>5. ASSUME NEW p \in Procs, LoadEnv(p) \/ OpenEnv(p) \/ WriteEnv(p) PROVE IInv'
  BY <1>5, LoadEnvInv, OpenEnvInv, WriteEnvInv
<1>6. ASSUME NEW p \in Procs, Kill(p) PROVE IInv'
  BY <1>6, KillInv
<1>7. CASE Leave
  BY <1>7, LeaveInv
<1>8. CASE UNCHANGED vars
  <2>1. /\ UNCHANGED <<config, env, registered, session, proc, started, last>>
        /\ UNCHANGED <<overlapped, settled>>
    BY <1>8 DEF vars
  <2>2. ConfigTypeOK' /\ \A p \in Procs : Sound(p)'
    BY <2>1 DEF IInv, ConfigTypeOK, Sound
  <2>3. Active' = Active /\ Read(config)' = Read(config)
    BY <2>1 DEF Active, Read
  <2>4. ASSUME NEW p \in Procs, Alone(p) PROVE Alone(p)'
    <3>1. ConfigAlone(p)'
      BY <2>1, <2>4 DEF Alone, ConfigAlone, Read, WithEntry, Promise!Accepted,
                        Promise!TableAfter, Promise!EntryAfter
    <3>2. \A c, i : /\ SavedSecrets(c, i)' = SavedSecrets(c, i)
                    /\ Promise!SecretsAfter(c, i)' = Promise!SecretsAfter(c, i)
      BY <2>1, SecretsStay
    <3>3. EnvAlone(p)'
      BY <2>1, <2>4, <3>2 DEF Alone, EnvAlone
    <3>4. RegistryAlone(p)'
      BY <2>1, <2>4 DEF Alone, RegistryAlone, Promise!RegisteredAfter
    <3> QED
      BY <3>1, <3>3, <3>4 DEF Alone
  <2> QED
    BY <2>1, <2>2, <2>3, <2>4 DEF IInv, Active
<1> QED
  BY <1>1, <1>2, <1>3, <1>4, <1>5, <1>6, <1>7, <1>8 DEF Next

\* What the connection commands read, keep and write always has the shape that
\* the next step takes it to have.
THEOREM TypeCorrect == Spec => []ConfigTypeOK
<1>1. IInv => ConfigTypeOK
  BY DEF IInv
<1> QED
  BY InitInv, StepInv, <1>1, PTL DEF Spec

-----------------------------------------------------------------------------
\* Commands that fail

\* A command that fails alone has only read.
LEMMA FailingStep ==
    ASSUME IInv, [Next]_vars, last' # last, last'.exit = "failed", ~overlapped
    PROVE  Read(config) = settled.config /\ env = settled.env
<1>1. PICK p \in Procs : /\ proc[p].pc \in {"validate", "list", "load", "options"}
                         /\ Ends(p, "failed")
                         /\ proc[p].pc = "options" => LoadForOptions(p)
  <2>1. ASSUME NEW p \in Procs, NEW exit \in {"ok", "killed"}, Ends(p, exit) PROVE FALSE
    BY <2>1 DEF Ends
  <2>2. ASSUME NEW p \in Procs, NEW next, Goes(p, next) PROVE FALSE
    BY <2>2 DEF Goes
  <2>3. ASSUME NEW p \in Procs, NEW c \in Commands, Start(p, c) PROVE FALSE
    BY <2>3 DEF Start
  <2>4. ~Leave /\ ~UNCHANGED vars
    BY DEF Leave, vars
  <2>5. ASSUME NEW p \in Procs, NEW n \in Names, Register(p, n) PROVE FALSE
    BY <2>1, <2>2, <2>5 DEF Register
  <2>6. ASSUME NEW p \in Procs, \/ ListToLoad(p) \/ OpenConfig(p) \/ WriteConfig(p) \/ LoadEnv(p)
                                \/ OpenEnv(p) \/ WriteEnv(p) \/ Kill(p)
        PROVE  FALSE
    BY <2>1, <2>2, <2>6
    DEF ListToLoad, OpenConfig, WriteConfig, ConfigDone, LoadEnv, OpenEnv, WriteEnv, Kill
  <2>7. ASSUME NEW p \in Procs,
               Validate(p) \/ ListForUpdate(p) \/ LoadConfig(p) \/ LoadForOptions(p)
        PROVE  /\ proc[p].pc \in {"validate", "list", "load", "options"}
               /\ Ends(p, "failed")
               /\ proc[p].pc = "options" => LoadForOptions(p)
    BY <2>1, <2>2, <2>7
    DEF Validate, ListForUpdate, LoadConfig, LoadForOptions, Saves, ConfigDone
  <2> QED
    BY <2>3, <2>4, <2>5, <2>6, <2>7 DEF Next
<1>2. Alone(p) /\ settled.config \in Configs /\ proc[p].cmd \in Commands /\ Sound(p)
  BY <1>1, LocalState
<1>3. proc[p].pc # "options"
  <2> SUFFICES ASSUME proc[p].pc = "options" PROVE FALSE
    OBVIOUS
  <2> DEFINE c == proc[p].cmd
  <2>1. Read(config)[c.name] = Absent
    BY <1>1 DEF LoadForOptions, Goes
  <2>2. Read(config) = WithEntry(c) /\ c.kind = "add"
    BY <1>2 DEF Alone, ConfigAlone, Sound
  <2>3. WithEntry(c)[c.name] = EntryOf(c) /\ EntryOf(c) # Absent
    BY <1>2, <2>2, EntryTypes, CommandTypes DEF WithEntry, Configs
  <2> QED
    BY <2>1, <2>2, <2>3
<1> QED
  BY <1>1, <1>2, <1>3 DEF Alone, ConfigAlone, EnvAlone, SavingSecrets

\* A command that runs alone and fails has changed neither uqal_config.json nor
\* .env: the KeyError of add-connection's options (add_connection.py) needs
\* another command to have removed the connection in between.
THEOREM CleanFailures == Spec => FailsCleanly
<1>1. IInv /\ [Next]_vars =>
          [last' # last /\ last'.exit = "failed" /\ ~overlapped =>
               Read(config) = settled.config /\ env = settled.env]_vars
  BY FailingStep
<1> QED
  BY InitInv, StepInv, <1>1, PTL DEF Spec, FailsCleanly

-----------------------------------------------------------------------------
\* The refinement

\* How a command may end alone: it is run, refused or killed.
LEMMA Runs ==
    ASSUME NEW c \in Commands, ~overlapped, ~overlapped', Promise!Accepted(c),
           settled'.config = Promise!TableAfter(c),
           SecretsOf(settled'.env) = Promise!SecretsAfter(c, Len(c.secrets)),
           settled'.registered = Promise!RegisteredAfter(c),
           last' = [cmd |-> c, exit |-> "ok"]
    PROVE  Promise!Next
BY DEF Promise!Next, Promise!Run, SecretsOf

LEMMA Refuses ==
    ASSUME NEW c \in Commands, ~overlapped, ~overlapped', ~Promise!Accepted(c),
           settled' = settled, last' = [cmd |-> c, exit |-> "failed"]
    PROVE  Promise!Next
<1>1. SecretsOf(settled.env)' = SecretsOf(settled.env)
  BY DEF SecretsOf, OptionsOf
<1> QED
  BY <1>1 DEF Promise!Next, Promise!Refuse, SecretsOf

LEMMA IsKilled ==
    ASSUME NEW c \in Commands, ~overlapped, ~overlapped',
           last' = [cmd |-> c, exit |-> "killed"],
           settled'.registered \in {settled.registered, NoConnections},
           \/ settled'.config = settled.config /\ SecretsOf(settled'.env) = SecretsOf(settled.env)
           \/ /\ Promise!Accepted(c)
              /\ SecretsOf(settled'.env) = SecretsOf(settled.env)
              /\ settled'.config = NoEntries \/ (c.kind = "add" /\ settled'.config = WithEntry(c))
           \/ /\ Promise!Accepted(c)
              /\ settled'.config = Promise!TableAfter(c)
              /\ \/ SecretsOf(settled'.env) = SecretsOf(settled.env)
                 \/ settled'.env = NoLines
                 \/ \E i \in 1..Len(c.secrets) :
                       SecretsOf(settled'.env) = Promise!SecretsAfter(c, i)
    PROVE  Promise!Next
<1>1. settled'.env = NoLines => SecretsOf(settled'.env) = Promise!NoSecrets
  BY DEF SecretsOf, OptionsOf, NoLines, EnvKeys, Promise!NoSecrets
<1>2. WithEntry(c) = [settled.config EXCEPT ![c.name] = Promise!EntryOf(c)]
  BY SameOperators DEF WithEntry
<1>3. Promise!Killed(c)
  BY <1>1, <1>2, SameOperators DEF Promise!Killed, SecretsOf
<1> QED
  BY <1>3 DEF Promise!Next

\* A load aside, the registry stays as it is.
LEMMA NotRegistered ==
    ASSUME NEW c \in Commands, settled.registered \in Registries,
           c.kind # "load" \/ settled.config = NoEntries
    PROVE  Promise!RegisteredAfter(c) = settled.registered
BY DEF Promise!RegisteredAfter, Registries, NoEntries

\* Of commands that overlap nothing is promised.
LEMMA Disturbs ==
    ASSUME overlapped \in BOOLEAN, overlapped' \in BOOLEAN, overlapped \/ overlapped'
    PROVE  Promise!Next
BY DEF Promise!Next, Promise!Overlap, Promise!Settle

\* What a process that ends alone leaves.
LEMMA EndsAlone ==
    ASSUME IInv, NEW p \in Procs, proc[p].pc # "idle", ~overlapped,
           NEW exit, Ends(p, exit)
    PROVE  /\ proc[p].cmd \in Commands /\ proc[p] \in ProcessStates
           /\ Sound(p) /\ ConfigAlone(p) /\ EnvAlone(p) /\ RegistryAlone(p)
           /\ settled \in [config : Configs, env : Envs, registered : Registries]
           /\ settled'.config = Read(config') /\ settled'.env = env'
           /\ settled'.registered = registered'
           /\ last' = [cmd |-> proc[p].cmd, exit |-> exit]
BY LocalState DEF Ends, Alone

\* A step that ends no command is not seen.
LEMMA Stutters ==
    ASSUME UNCHANGED <<last, overlapped, settled>>
    PROVE  UNCHANGED Promise!vars
<1>1. SecretsOf(settled.env)' = SecretsOf(settled.env)
  BY DEF SecretsOf, OptionsOf
<1> QED
  BY <1>1 DEF Promise!vars, SecretsOf

LEMMA KillRefines ==
    ASSUME IInv, NamesApart, NEW p \in Procs, Kill(p), ~overlapped, ~overlapped'
    PROVE  Promise!Next
<1> DEFINE c == proc[p].cmd
           pc == proc[p].pc
<1>1. /\ pc # "idle" /\ Ends(p, "killed") /\ UNCHANGED <<config, env>>
      /\ registered' = IF p = Repl THEN NoConnections ELSE registered
  BY DEF Kill, files
<1>2. /\ c \in Commands /\ proc[p] \in ProcessStates
      /\ Sound(p) /\ ConfigAlone(p) /\ EnvAlone(p) /\ RegistryAlone(p)
      /\ settled.config \in Configs
      /\ settled'.config = Read(config) /\ settled'.env = env
      /\ settled'.registered = registered'
      /\ last' = [cmd |-> c, exit |-> "killed"]
      /\ pc \in {"validate", "list", "register", "load", "options", "open", "write"}
                    \union SavingSecrets
  BY <1>1, EndsAlone DEF Read, ProcessStates
<1>3. settled'.registered \in {settled.registered, NoConnections}
  <2>1. pc = "register" => p = Repl
    BY <1>1, <1>2 DEF Sound
  <2> QED
    BY <1>1, <1>2, <2>1 DEF RegistryAlone
<1>4. CASE pc \in {"validate", "list", "register", "load"}
  <2>1. settled'.config = settled.config /\ settled'.env = settled.env
    BY <1>2, <1>4 DEF ConfigAlone, EnvAlone, SavingSecrets
  <2>2. SecretsOf(settled'.env) = SecretsOf(settled.env)
    BY <2>1
  <2> QED
    BY <1>2, <1>3, <2>1, <2>2, IsKilled
<1>5. CASE pc \in {"options", "open", "write"}
  <2>1. settled'.env = settled.env /\ Promise!Accepted(c)
    BY <1>2, <1>5 DEF ConfigAlone, EnvAlone, SavingSecrets
  <2>2. SecretsOf(settled'.env) = SecretsOf(settled.env)
    BY <2>1
  <2>3. \/ settled'.config = settled.config \/ settled'.config = NoEntries
        \/ c.kind = "add" /\ settled'.config = WithEntry(c)
    BY <1>2, <1>5, FileTypes DEF ConfigAlone, Sound, SavedTwice
  <2> QED
    BY <1>2, <1>3, <2>1, <2>2, <2>3, IsKilled
<1>6. CASE pc \in SavingSecrets
  <2>1. Promise!Accepted(c) /\ settled'.config = Promise!TableAfter(c)
    BY <1>2, <1>6 DEF ConfigAlone, SavingSecrets
  <2>2. \/ SecretsOf(settled'.env) = SecretsOf(settled.env)
        \/ settled'.env = NoLines
        \/ \E i \in 1..Len(c.secrets) : SecretsOf(settled'.env) = Promise!SecretsAfter(c, i)
    <3>1. CASE pc = "write env"
      BY <1>2, <3>1 DEF EnvAlone
    <3>2. CASE pc \in {"load env", "open env"} /\ (c.kind = "remove" \/ proc[p].saved = 0)
      <4>1. SecretsOf(env) = SavedSecrets(c, proc[p].saved)
        BY <1>2, <3>2 DEF EnvAlone
      <4>2. SavedSecrets(c, proc[p].saved) = SecretsOf(settled.env)
        BY <1>2, <3>2, NothingSaved DEF SavedSecrets
      <4>3. SecretsOf(settled'.env) = SecretsOf(env)
        BY <1>2
      <4> QED
        BY <4>1, <4>2, <4>3
    <3>3. CASE pc \in {"load env", "open env"} /\ c.kind # "remove" /\ proc[p].saved # 0
      <4>1. SecretsOf(env) = Promise!SecretsAfter(c, proc[p].saved)
        BY <1>2, <3>3 DEF EnvAlone, SavedSecrets
      <4>2. proc[p].saved \in 1..Len(c.secrets)
        <5>1. proc[p].saved \in Nat /\ Len(c.secrets) \in Nat
          BY <1>2, CommandTypes, LenProperties DEF ProcessStates
        <5>2. proc[p].saved < Len(c.secrets)
          BY <1>6, <3>3 DEF IInv, ConfigTypeOK
        <5>3. \A s, l \in Nat : s # 0 /\ s < l => s \in 1..l
          OBVIOUS
        <5> HIDE DEF c
        <5> QED
          BY <3>3, <5>1, <5>2, <5>3
      <4>3. SecretsOf(settled'.env) = SecretsOf(env)
        BY <1>2
      <4> QED
        BY <4>1, <4>2, <4>3
    <3> QED
      BY <1>6, <3>1, <3>2, <3>3 DEF SavingSecrets
  <2> QED
    BY <1>2, <1>3, <2>1, <2>2, IsKilled
<1> QED
  BY <1>2, <1>4, <1>5, <1>6

LEMMA ReadersRefine ==
    ASSUME IInv, NEW p \in Procs, ~overlapped, ~overlapped',
           Validate(p) \/ ListForUpdate(p) \/ ListToLoad(p)
    PROVE  Promise!Next \/ UNCHANGED Promise!vars
<1> DEFINE c == proc[p].cmd
<1>1. /\ proc[p].pc \in {"validate", "list"} /\ proc[p].pc # "idle"
      /\ UNCHANGED <<config, env, registered>>
  BY DEF Validate, ListForUpdate, ListToLoad
<1>2. ASSUME NEW exit, Ends(p, exit)
      PROVE  /\ c \in Commands /\ Read(config) = settled.config /\ settled' = settled
             /\ settled.registered \in Registries /\ settled.config \in Configs
             /\ last' = [cmd |-> c, exit |-> exit]
  <2>1. /\ ConfigAlone(p) /\ EnvAlone(p) /\ RegistryAlone(p)
        /\ settled \in [config : Configs, env : Envs, registered : Registries]
        /\ c \in Commands
        /\ last' = [cmd |-> c, exit |-> exit]
    BY <1>1, <1>2, EndsAlone
  <2>2. /\ Read(config) = settled.config /\ env = settled.env
        /\ registered = settled.registered
    BY <1>1, <2>1 DEF ConfigAlone, EnvAlone, RegistryAlone, SavingSecrets
  <2>3. settled' = [config |-> Read(config), env |-> env, registered |-> registered]
    BY <1>1, <1>2 DEF Ends, Read
  <2>4. settled = [config |-> settled.config, env |-> settled.env,
                   registered |-> settled.registered]
    BY <2>1
  <2> QED
    BY <2>1, <2>2, <2>3, <2>4
<1>3. CASE \E next : Goes(p, next)
  BY <1>3, Stutters DEF Goes
<1>4. CASE Validate(p) /\ Ends(p, "failed") /\ ~Valid(c)
  <2>1. ~Promise!Accepted(c)
    BY <1>2, <1>4, TableAfterIs
  <2> QED
    BY <1>2, <1>4, <2>1, Refuses
<1>5. CASE ListForUpdate(p) /\ Ends(p, "failed") /\ Read(config)[c.name] = Absent
  <2>1. c.kind = "update"
    BY <1>5 DEF ListForUpdate
  <2>2. ~Promise!Accepted(c)
    BY <1>2, <1>5, <2>1, TableAfterIs
  <2> QED
    BY <1>2, <1>5, <2>2, Refuses
<1>6. CASE ListToLoad(p) /\ Ends(p, "ok") /\ {n \in Names : Read(config)[n] # Absent} = {}
  <2>1. c.kind = "load" /\ c \in Commands /\ c.secrets = <<>>
    BY <1>2, <1>6, CommandTypes DEF ListToLoad
  <2>2. settled.config = NoEntries
    BY <1>2, <1>6 DEF Configs, NoEntries
  <2>3. Promise!Accepted(c) /\ Promise!TableAfter(c) = settled.config
    BY <1>2, <1>6, <2>1, TableAfterIs DEF Valid
  <2>4. Promise!RegisteredAfter(c) = settled.registered
    BY <1>2, <1>6, <2>2, NotRegistered
  <2>5. SecretsOf(settled'.env) = Promise!SecretsAfter(c, Len(c.secrets))
    <3>1. Len(c.secrets) = 0
      BY <2>1
    <3>2. Promise!SecretsAfter(c, 0) = SecretsOf(settled.env)
      BY <2>1, NothingSaved
    <3>3. SecretsOf(settled'.env) = SecretsOf(settled.env)
      BY <1>2, <1>6
    <3> QED
      BY <3>1, <3>2, <3>3
  <2> QED
    BY <1>2, <1>6, <2>3, <2>4, <2>5, Runs
<1> QED
  BY <1>3, <1>4, <1>5, <1>6 DEF Validate, ListForUpdate, ListToLoad

LEMMA RegisterRefines ==
    ASSUME IInv, NEW p \in Procs, NEW n \in Names, Register(p, n), ~overlapped, ~overlapped'
    PROVE  Promise!Next \/ UNCHANGED Promise!vars
<1> DEFINE c == proc[p].cmd
<1>1. /\ proc[p].pc = "register" /\ proc[p].pc # "idle" /\ n \in proc[p].names
      /\ UNCHANGED <<config, env>>
      /\ registered' = IF registered[n] # Absent THEN registered
                       ELSE [registered EXCEPT ![n] =
                               ConnectionConfig(proc[p].config[n], OptionsOf(env, n))]
  BY DEF Register, files
<1>2. CASE \E next : Goes(p, next)
  BY <1>2, Stutters DEF Goes
<1>3. CASE proc[p].names = {n} /\ Ends(p, "ok")
  <2>1. /\ c \in Commands /\ Sound(p) /\ ConfigAlone(p) /\ EnvAlone(p) /\ RegistryAlone(p)
        /\ settled.config \in Configs /\ settled.registered \in Registries
        /\ settled'.config = Read(config) /\ settled'.env = env
        /\ settled'.registered = registered'
        /\ last' = [cmd |-> c, exit |-> "ok"]
    BY <1>1, <1>3, EndsAlone DEF Read
  <2>2. /\ c.kind = "load" /\ proc[p].config[n] # Absent
        /\ Read(config) = settled.config /\ env = settled.env
        /\ proc[p].config = settled.config
        /\ registered = [m \in Names |-> IF m \in proc[p].names THEN settled.registered[m]
                                         ELSE Promise!RegisteredAfter(c)[m]]
    BY <1>1, <2>1 DEF Sound, ConfigAlone, EnvAlone, RegistryAlone, SavingSecrets
  <2>3. c.secrets = <<>> /\ Promise!Accepted(c) /\ Promise!TableAfter(c) = settled.config
    BY <2>1, <2>2, CommandTypes, TableAfterIs DEF Valid
  <2>4. registered'[n] = Promise!RegisteredAfter(c)[n]
    <3>1. registered[n] = settled.registered[n]
      BY <1>1, <2>2
    <3> QED
      BY <1>1, <2>1, <2>2, <3>1, SameOperators
      DEF Promise!RegisteredAfter, Registries, OptionsOf
  <2>5. \A m \in Names \ {n} : registered'[m] = Promise!RegisteredAfter(c)[m]
    BY <1>1, <1>3, <2>2
  <2>6. registered' = Promise!RegisteredAfter(c)
    <3>1. registered' = [m \in Names |-> registered'[m]]
      BY <1>1, <2>2
    <3>2. Promise!RegisteredAfter(c) = [m \in Names |-> Promise!RegisteredAfter(c)[m]]
      BY DEF Promise!RegisteredAfter
    <3>3. \A m \in Names : registered'[m] = Promise!RegisteredAfter(c)[m]
      BY <2>4, <2>5
    <3> QED
      BY <3>1, <3>2, <3>3
  <2>7. SecretsOf(settled'.env) = Promise!SecretsAfter(c, Len(c.secrets))
    <3>1. Len(c.secrets) = 0
      BY <2>3
    <3>2. Promise!SecretsAfter(c, 0) = SecretsOf(settled.env)
      BY <2>1, <2>2, NothingSaved
    <3>3. SecretsOf(settled'.env) = SecretsOf(settled.env)
      BY <2>1, <2>2
    <3> QED
      BY <3>1, <3>2, <3>3
  <2> QED
    BY <2>1, <2>2, <2>3, <2>6, <2>7, Runs
<1> QED
  BY <1>2, <1>3 DEF Register

LEMMA LoadConfigRefines ==
    ASSUME IInv, NEW p \in Procs, LoadConfig(p) \/ LoadForOptions(p), ~overlapped, ~overlapped'
    PROVE  Promise!Next \/ UNCHANGED Promise!vars
<1> DEFINE c == proc[p].cmd
<1>1. /\ proc[p].pc \in {"load", "options"} /\ proc[p].pc # "idle"
      /\ UNCHANGED <<config, env, registered>>
  BY DEF LoadConfig, LoadForOptions
<1>2. CASE \E next : Goes(p, next)
  BY <1>2, Stutters DEF Goes
<1>3. ASSUME NEW exit, Ends(p, exit),
             LoadForOptions(p) => Read(config)[c.name] = Absent
      PROVE  Promise!Next \/ UNCHANGED Promise!vars
  <2>1. /\ c \in Commands /\ Sound(p) /\ ConfigAlone(p) /\ EnvAlone(p) /\ RegistryAlone(p)
        /\ settled \in [config : Configs, env : Envs, registered : Registries]
    BY <1>1, <1>3, EndsAlone DEF Read
  <2>2. CASE LoadForOptions(p)
    <3>1. Read(config)[c.name] = Absent /\ proc[p].pc = "options"
      BY <1>3, <2>2 DEF LoadForOptions
    <3>2. Read(config) = WithEntry(c) /\ c.kind = "add"
      BY <2>1, <3>1 DEF ConfigAlone, Sound
    <3>3. WithEntry(c)[c.name] = EntryOf(c) /\ EntryOf(c) # Absent
      BY <2>1, <3>2, EntryTypes, CommandTypes DEF WithEntry, Configs
    <3> QED
      BY <3>1, <3>2, <3>3
  <2>3. CASE LoadConfig(p)
    <3>1. proc[p].pc = "load"
      BY <2>3 DEF LoadConfig
    <3>2. /\ Read(config) = settled.config /\ env = settled.env
          /\ registered = settled.registered
          /\ c.kind = "update" => settled.config[c.name] # Absent
      BY <2>1, <3>1 DEF ConfigAlone, EnvAlone, RegistryAlone, SavingSecrets
    <3>3. CASE c.kind = "remove" /\ Read(config)[c.name] = Absent /\ Ends(p, "failed")
      <4>1. ~Promise!Accepted(c)
        BY <2>1, <3>2, <3>3, TableAfterIs
      <4>2. settled' = [config |-> Read(config), env |-> env, registered |-> registered]
        BY <1>1, <3>3 DEF Ends, Read
      <4>3. settled = [config |-> settled.config, env |-> settled.env,
                       registered |-> settled.registered]
        BY <2>1
      <4>4. settled' = settled
        BY <3>2, <4>2, <4>3
      <4>5. last' = [cmd |-> c, exit |-> "failed"]
        BY <3>3 DEF Ends
      <4> QED
        BY <2>1, <4>1, <4>4, <4>5, Refuses
    <3>4. CASE \E file : Saves(p, file)
      BY <3>4, Stutters DEF Saves, Goes
    <3> QED
      BY <2>3, <3>2, <3>3, <3>4 DEF LoadConfig
  <2> QED
    BY <2>2, <2>3
<1> QED
  BY <1>2, <1>3 DEF LoadConfig, LoadForOptions, Saves, ConfigDone

LEMMA WritersRefine ==
    ASSUME IInv, NamesApart, NEW p \in Procs, ~overlapped, ~overlapped',
           WriteConfig(p) \/ LoadEnv(p) \/ WriteEnv(p)
    PROVE  Promise!Next \/ UNCHANGED Promise!vars
<1> DEFINE c == proc[p].cmd
<1>1. /\ proc[p].pc \in {"write", "load env", "write env"} /\ proc[p].pc # "idle"
      /\ registered' = registered
  BY DEF WriteConfig, LoadEnv, WriteEnv
<1>2. ASSUME Ends(p, "ok")
      PROVE  /\ c \in Commands /\ proc[p] \in ProcessStates
             /\ Sound(p) /\ ConfigAlone(p) /\ EnvAlone(p)
             /\ settled.config \in Configs /\ settled.registered \in Registries
             /\ settled'.config = Read(config') /\ settled'.env = env'
             /\ last' = [cmd |-> c, exit |-> "ok"]
             /\ settled'.registered = Promise!RegisteredAfter(c)
             /\ Promise!Accepted(c)
  <2>1. /\ c \in Commands /\ proc[p] \in ProcessStates
        /\ Sound(p) /\ ConfigAlone(p) /\ EnvAlone(p) /\ RegistryAlone(p)
        /\ settled.config \in Configs /\ settled.registered \in Registries
        /\ settled'.config = Read(config') /\ settled'.env = env'
        /\ settled'.registered = registered
        /\ last' = [cmd |-> c, exit |-> "ok"]
    BY <1>1, <1>2, EndsAlone
  <2>2. registered = settled.registered /\ Promise!Accepted(c)
    BY <1>1, <2>1 DEF ConfigAlone, RegistryAlone, SavingSecrets
  <2>3. Promise!RegisteredAfter(c) = settled.registered
    BY <1>1, <2>1, NotRegistered DEF Sound
  <2> QED
    BY <2>1, <2>2, <2>3
<1>3. CASE \E next : Goes(p, next)
  BY <1>3, Stutters DEF Goes
<1>4. CASE /\ WriteConfig(p) /\ Ends(p, "ok")
           /\ proc[p].then # "options" /\ ~MoreSecrets(c, 0)
  <2>1. /\ proc[p].pc = "write" /\ config = NoEntries /\ env' = env
        /\ config' \in Overwritten(config, proc[p].config)
    BY <1>2, <1>4 DEF WriteConfig, ConfigAlone
  <2>2. config' = Promise!TableAfter(c) /\ config' \in Configs
    BY <1>2, <1>4, <2>1 DEF Overwritten, ConfigAlone, ProcessStates
  <2>3. settled'.config = Promise!TableAfter(c)
    BY <1>2, <1>4, <2>2, FileTypes
  <2>4. Len(c.secrets) = 0 /\ (c.kind = "remove" => ~c.purge)
    <3>1. Len(c.secrets) \in Nat /\ (c.kind = "remove" => c.secrets = <<>>)
      BY <1>2, <1>4, CommandTypes, LenProperties
    <3> QED
      BY <1>4, <3>1 DEF MoreSecrets
  <2>5. SecretsOf(settled'.env) = Promise!SecretsAfter(c, Len(c.secrets))
    <3>1. SecretsOf(settled'.env) = SecretsOf(settled.env)
      BY <1>2, <1>4, <2>1 DEF EnvAlone, SavingSecrets
    <3> QED
      BY <1>2, <1>4, <2>4, <3>1, NothingSaved
  <2> QED
    BY <1>2, <1>4, <2>3, <2>5, Runs
<1>5. CASE /\ LoadEnv(p) /\ Ends(p, "ok")
           /\ c.kind = "remove" /\ WithoutSecrets(env, c.name) = env
  <2>1. proc[p].pc = "load env" /\ config' = config /\ env' = env
    BY <1>5 DEF LoadEnv
  <2>2. settled'.config = Promise!TableAfter(c)
    BY <1>2, <1>5, <2>1 DEF ConfigAlone, SavingSecrets, Read
  <2>3. c.purge /\ Len(c.secrets) = 0
    BY <1>2, <1>5, <2>1, CommandTypes DEF Sound, SavingSecrets
  <2>4. SecretsOf(env) = SecretsOf(settled.env) /\ env \in Envs
    BY <1>2, <1>5, <2>1 DEF EnvAlone, SavedSecrets, IInv, ConfigTypeOK
  <2>5. SecretsOf(settled'.env) = Promise!SecretsAfter(c, Len(c.secrets))
    BY <1>2, <1>5, <2>1, <2>3, <2>4, SecretsRemoved
  <2> QED
    BY <1>2, <1>5, <2>2, <2>5, Runs
<1>6. CASE /\ WriteEnv(p) /\ Ends(p, "ok")
           /\ c.kind = "remove" \/ ~MoreSecrets(c, proc[p].saved + 1)
  <2>1. proc[p].pc = "write env" /\ config' = config
    BY <1>6 DEF WriteEnv
  <2>2. settled'.config = Promise!TableAfter(c)
    BY <1>2, <1>6, <2>1 DEF ConfigAlone, SavingSecrets, Read
  <2>3. env' = proc[p].env
    <3>1. PICK lines \in SUBSET {x \in EnvKeys : env[x] # Absent} :
              env' = Behind(proc[p].env, Surviving(lines))
      BY <1>6 DEF WriteEnv
    <3>2. env = NoLines /\ proc[p].env \in Envs
      BY <1>2, <1>6, <2>1 DEF EnvAlone, ProcessStates
    <3> QED
      BY <3>1, <3>2, WrittenAlone
  <2>4. Len(c.secrets) = IF c.kind = "remove" THEN 0 ELSE proc[p].saved + 1
    <3>1. /\ Len(c.secrets) \in Nat /\ proc[p].saved \in Nat
          /\ c.kind = "remove" => c.secrets = <<>>
      BY <1>2, <1>6, CommandTypes, LenProperties DEF ProcessStates
    <3>2. c.kind = "remove" \/ proc[p].saved < Len(c.secrets)
      BY <2>1 DEF IInv, ConfigTypeOK, SavingSecrets
    <3>3. CASE c.kind = "remove"
      BY <3>1, <3>3
    <3>4. CASE c.kind # "remove"
      <4>1. proc[p].saved < Len(c.secrets) /\ ~(proc[p].saved + 1 < Len(c.secrets))
        BY <1>6, <3>2, <3>4 DEF MoreSecrets
      <4>2. \A s, l \in Nat : s < l /\ ~(s + 1 < l) => l = s + 1
        OBVIOUS
      <4> HIDE DEF c
      <4> QED
        BY <3>1, <3>4, <4>1, <4>2
    <3> QED
      BY <3>3, <3>4
  <2>5. SecretsOf(settled'.env) = Promise!SecretsAfter(c, Len(c.secrets))
    <3>1. SecretsOf(settled'.env) = SecretsOf(proc[p].env)
      BY <1>2, <1>6, <2>3
    <3>2. SecretsOf(proc[p].env) = IF c.kind = "remove" THEN Promise!SecretsAfter(c, 0)
                                   ELSE Promise!SecretsAfter(c, proc[p].saved + 1)
      BY <1>2, <1>6, <2>1 DEF EnvAlone
    <3> QED
      BY <2>4, <3>1, <3>2
  <2> QED
    BY <1>2, <1>6, <2>2, <2>5, Runs
<1> QED
  BY <1>3, <1>4, <1>5, <1>6 DEF WriteConfig, ConfigDone, LoadEnv, WriteEnv

LEMMA InitRefines == Init => Promise!Init
<1> SUFFICES ASSUME Init PROVE Promise!Init
  OBVIOUS
<1>1. SecretsOf(NoLines) = Promise!NoSecrets
  <2>1. ASSUME NEW n \in Names, NEW k \in Keys PROVE NoLines[EnvKey(n, k)] = Absent
    BY DEF NoLines, EnvKeys
  <2>2. ASSUME NEW n \in Names PROVE OptionsOf(NoLines, n) = [k \in Keys |-> Absent]
    BY <2>1 DEF OptionsOf
  <2> QED
    BY <2>2 DEF SecretsOf, Promise!NoSecrets
<1>2. [n \in Names |-> OptionsOf(settled.env, n)] = Promise!NoSecrets
  BY <1>1 DEF Init, SecretsOf
<1>3. /\ settled.config = NoEntries /\ settled.registered = NoConnections
      /\ last.exit = "none" /\ overlapped = FALSE
  BY DEF Init
<1> QED
  BY <1>2, <1>3, SameOperators, ConfigStoreAssumption DEF Promise!Init

LEMMA StepRefines ==
    ASSUME IInv, NamesApart, [Next]_vars
    PROVE  [Promise!Next]_(Promise!vars)
<1>1. overlapped \in BOOLEAN
  BY DEF IInv, ConfigTypeOK
<1>2. overlapped' \in BOOLEAN
  BY StepInv DEF IInv, ConfigTypeOK
<1>3. CASE overlapped \/ overlapped'
  BY <1>1, <1>2, <1>3, Disturbs
<1>4. CASE ~overlapped /\ ~overlapped'
  <2>1. ASSUME NEW p \in Procs, NEW c \in Commands, Start(p, c) PROVE UNCHANGED Promise!vars
    BY <1>1, <1>2, <1>4, <2>1, Stutters DEF Start
  <2>2. ASSUME NEW p \in Procs, Validate(p) \/ ListForUpdate(p) \/ ListToLoad(p)
        PROVE  Promise!Next \/ UNCHANGED Promise!vars
    BY <1>4, <2>2, ReadersRefine
  <2>3. ASSUME NEW p \in Procs, NEW n \in Names, Register(p, n)
        PROVE  Promise!Next \/ UNCHANGED Promise!vars
    BY <1>4, <2>3, RegisterRefines
  <2>4. ASSUME NEW p \in Procs, LoadConfig(p) \/ LoadForOptions(p)
        PROVE  Promise!Next \/ UNCHANGED Promise!vars
    BY <1>4, <2>4, LoadConfigRefines
  <2>5. ASSUME NEW p \in Procs, OpenConfig(p) \/ OpenEnv(p) PROVE UNCHANGED Promise!vars
    BY <2>5, Stutters DEF OpenConfig, OpenEnv, Goes
  <2>6. ASSUME NEW p \in Procs, WriteConfig(p) \/ LoadEnv(p) \/ WriteEnv(p)
        PROVE  Promise!Next \/ UNCHANGED Promise!vars
    BY <1>4, <2>6, WritersRefine
  <2>7. ASSUME NEW p \in Procs, Kill(p) PROVE Promise!Next
    BY <1>4, <2>7, KillRefines
  <2>8. CASE Leave
    <3>1. /\ settled'.config = settled.config /\ settled'.env = settled.env
          /\ settled'.registered = NoConnections /\ last' = last
      BY <2>8 DEF Leave, IInv, ConfigTypeOK
    <3>2. SecretsOf(settled.env)' = SecretsOf(settled.env)
      BY <3>1 DEF SecretsOf, OptionsOf
    <3>3. Promise!Leave
      BY <1>4, <3>1, <3>2, SameOperators, ConfigStoreAssumption DEF Promise!Leave, SecretsOf
    <3> QED
      BY <3>3 DEF Promise!Next
  <2>9. CASE UNCHANGED vars
    BY <2>9, Stutters DEF vars
  <2> QED
    BY <2>1, <2>2, <2>3, <2>4, <2>5, <2>6, <2>7, <2>8, <2>9 DEF Next
<1> QED
  BY <1>1, <1>2, <1>3, <1>4

\* If no connection's name begins with the words of another's, the commands do
\* what ConnectionTable promises: those that run one after the other, however
\* they end, take effect in one step each, though each reads and writes its two
\* files several times (config_manager.py, add_connection.py, loader.py).
THEOREM Refinement ==
    ASSUME NamesApart
    PROVE  Spec => ImplementsConnectionTable
<1>1. IInv /\ [Next]_vars => [Promise!Next]_(Promise!vars)
  BY StepRefines
<1> QED
  BY InitInv, StepInv, InitRefines, <1>1, PTL DEF Spec, ImplementsConnectionTable, Promise!Spec
=============================================================================
