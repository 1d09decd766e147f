--------------------------- MODULE MCConfigStore ---------------------------
(***************************************************************************)
(* Two connections, a REPL and a command line next to it.  Each command    *)
(* that the REPL succeeds with is followed by a load.                      *)
(***************************************************************************)
EXTENDS ConfigStore, TLC
CONSTANTS repl, shell

MCProcs == {repl, shell}
MCKeys == {<<"PASSWORD">>, <<"SSLMODE">>}
MCOptionKey == <<"SSLMODE">>

Password(value) == [key |-> <<"PASSWORD">>, value |-> value]
NoCommand == [kind |-> "load", name |-> CHOOSE n \in Names : TRUE, host |-> Absent,
              modules |-> Absent, adds |-> {}, drops |-> {}, schema |-> TRUE,
              option |-> Absent, secrets |-> <<>>, purge |-> FALSE]
MCLoad == NoCommand
Add(n, host, option, secrets) ==
    [NoCommand EXCEPT !.kind = "add", !.name = n, !.host = host, !.modules = {"pg"},
                      !.option = option, !.secrets = secrets]
AddUnchecked(n, secrets) ==
    [NoCommand EXCEPT !.kind = "add", !.name = n, !.modules = {"pg"}, !.schema = FALSE,
                      !.secrets = secrets]
Update(n, host, adds, drops, secrets) ==
    [NoCommand EXCEPT !.kind = "update", !.name = n, !.host = host, !.adds = adds,
                      !.drops = drops, !.secrets = secrets]
Remove(n, purge) == [NoCommand EXCEPT !.kind = "remove", !.name = n, !.purge = purge]

\* Names of which neither begins the other.
ApartNames == {"db1", "db2"}
ApartEnvName == ("db1" :> <<"DB1">>) @@ ("db2" :> <<"DB2">>)

CommandsOn(a, b) ==
    {MCLoad,
     Add(a, "h1", "require", <<Password("s1"), [key |-> <<"SSLMODE">>, value |-> "s1"]>>),
     Add(b, Absent, "require", <<Password("s1")>>),
     Add(b, "h1", "require", <<>>), AddUnchecked(b, <<Password("s2")>>),
     Update(a, "h2", {"gis"}, {"pg"}, <<Password("s2")>>),
     Remove(a, TRUE), Remove(b, TRUE)}
ApartCommands == CommandsOn("db1", "db2")
=============================================================================
