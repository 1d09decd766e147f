---------------------------- MODULE Connections ----------------------------
(***************************************************************************)
(* The connection commands of the command line (add-connection,            *)
(* update-connection, remove-connection), the loading of all connections   *)
(* into the engine of a REPL, and what each of them means for one entry of *)
(* uqal_config.json and for the secrets of one connection.                 *)
(*                                                                         *)
(* host stands for module_type, host, port and database, which every       *)
(* command treats alike; option for the further values of a module's       *)
(* connection schema that are not secret (sslmode, auth_source).  The      *)
(* order of an entry's modules is left out.                                *)
(***************************************************************************)
EXTENDS Naturals, Sequences

CONSTANTS
    Names,      \* the names of connections
    EnvName,    \* EnvName[n]: the words of n.upper(), as _ separates them
    Keys,       \* the keys of secrets and options, each a sequence of words
    OptionKey,  \* the key of option
    Hosts, Modules, Options, Values,
    Commands,   \* the commands that are given
    Absent      \* a field, an entry or a line of .env that is not there

Entries == [host : Hosts \union {Absent}, modules : SUBSET Modules,
            option : Options \union {Absent}]
Configs == [Names -> Entries \union {Absent}]
NoEntries == [n \in Names |-> Absent]

\* UQAL_<CONNECTION_NAME_UPPER>_<KEY_UPPER>, without the UQAL_
EnvKey(n, k) == EnvName[n] \o k
EnvKeys == {EnvKey(n, k) : n \in Names, k \in Keys}
Envs == [EnvKeys -> Values \union {Absent}]
NoLines == [x \in EnvKeys |-> Absent]

\* get_secrets: what the lines of .env make of the options of connection n.
OptionsOf(env, n) == [k \in Keys |-> env[EnvKey(n, k)]]

\* A ConnectionConfig: the entry's option is in the file and nowhere else.
ConnectionConfigs == [host : Hosts \union {Absent}, options : [Keys -> Values \union {Absent}]]
ConnectionConfig(entry, options) == [host |-> entry.host, options |-> options]
Registries == [Names -> ConnectionConfigs \union {Absent}]
NoConnections == [n \in Names |-> Absent]

-----------------------------------------------------------------------------
(***************************************************************************)
(* name      the connection the command is about                           *)
(* host      Absent if not given                                           *)
(* modules   those given by --module, Absent if there are none             *)
(* adds, drops   update: those given by --add-module and --remove-module   *)
(* schema    add: the module type is found and has a connection schema     *)
(* option    add: prompted for, Absent if skipped or without a schema      *)
(* secrets   add, update: the sequence of [key, value] given               *)
(* purge     remove: --secrets is given                                    *)
(***************************************************************************)
Secrets == [key : Keys, value : Values]
CommandRecords ==
    [kind : {"add", "update", "remove", "load"}, name : Names,
     host : Hosts \union {Absent}, modules : (SUBSET Modules) \union {Absent},
     adds : SUBSET Modules, drops : SUBSET Modules, schema : BOOLEAN,
     option : Options \union {Absent}, secrets : Seq(Secrets), purge : BOOLEAN]

ASSUME ConnectionsAssumption ==
    /\ EnvName \in [Names -> Seq(STRING)]
    /\ Keys \subseteq Seq(STRING) /\ OptionKey \in Keys
    /\ Commands \subseteq CommandRecords
    /\ \A c \in Commands :
          /\ c.kind = "add" => c.modules # Absent /\ (c.schema \/ c.option = Absent)
          /\ c.kind \in {"remove", "load"} => c.secrets = <<>>
          /\ \A i, j \in DOMAIN c.secrets : c.secrets[i].key = c.secrets[j].key => i = j
    /\ \A x \in Hosts \union Options \union Values : x # Absent
    /\ \A x \in Entries \union ConnectionConfigs \union SUBSET Modules : x # Absent

\* k.startswith(prefix)
HasPrefix(x, n) == Len(EnvName[n]) <= Len(x) /\ SubSeq(x, 1, Len(EnvName[n])) = EnvName[n]

\* No connection's name begins with the words of another's, as those of db_test
\* do with db.
NamesApart == \A n, m \in Names, k \in Keys : HasPrefix(EnvKey(m, k), n) => n = m

-----------------------------------------------------------------------------
\* Schema validation of add-connection: a host is required.
Valid(c) == c.kind = "add" /\ c.schema => c.host # Absent

\* ConfigManager.add_connection: the new entry, before its options are saved.
EntryOf(c) == [host |-> c.host, modules |-> c.modules, option |-> Absent]

\* The list of modules update-connection makes of the one it has read.
FinalModules(old, c) ==
    IF c.modules # Absent THEN c.modules
    ELSE IF c.adds \union c.drops = {} THEN Absent
    ELSE (old \ c.drops) \union c.adds

\* ConfigManager.update_connection: only given fields are changed.
Updated(entry, c, modules) ==
    [entry EXCEPT !.host = IF c.host = Absent THEN @ ELSE c.host,
                  !.modules = IF modules = Absent THEN @ ELSE modules]

\* ConfigManager.add_secret
WithSecret(env, n, secret) == [env EXCEPT ![EnvKey(n, secret.key)] = secret.value]

\* ConfigManager.remove_secrets: every line that starts with UQAL_<NAME>_.
WithoutSecrets(env, n) == [x \in EnvKeys |-> IF HasPrefix(x, n) THEN Absent ELSE env[x]]
=============================================================================
