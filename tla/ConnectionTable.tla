-------------------------- MODULE ConnectionTable --------------------------
(***************************************************************************)
(* What the connection commands promise: a table of connections and their  *)
(* secrets that each command reads and changes in one step.  A command     *)
(* that is killed may have done part of its work, in the order it does it; *)
(* at worst, it leaves the file it was saving empty.  Commands that run at *)
(* the same time may do anything to the files, but not to what the next    *)
(* command makes of what they left.                                        *)
(***************************************************************************)
EXTENDS Connections

VARIABLES
    table,      \* the entries of the connections
    secrets,    \* secrets[n][k]: the secret k of connection n
    registered, \* the ConnectionRegistry of the REPL's engine
    last,       \* the last command that ended, and how
    disturbed   \* commands are running at the same time

vars == <<table, secrets, registered, last, disturbed>>

\* The commands that do something, rather than exit with an error
Accepted(c) ==
    /\ Valid(c)
    /\ c.kind \in {"update", "remove"} => table[c.name] # Absent

EntryAfter(c) ==
    CASE c.kind = "add"    -> [EntryOf(c) EXCEPT !.option = c.option]
      [] c.kind = "update" -> Updated(table[c.name], c, FinalModules(table[c.name].modules, c))
      [] c.kind = "remove" -> Absent
      [] OTHER             -> table[c.name]
TableAfter(c) == [table EXCEPT ![c.name] = EntryAfter(c)]

\* The secrets once those given by the first i options are saved
GivenBy(c, i, k) == {j \in 1..i : c.secrets[j].key = k}
SecretsAfter(c, i) ==
    [n \in Names |-> [k \in Keys |->
        IF n # c.name THEN secrets[n][k]
        ELSE IF c.kind = "remove" /\ c.purge THEN Absent
        ELSE IF GivenBy(c, i, k) = {} THEN secrets[n][k]
        ELSE c.secrets[CHOOSE j \in GivenBy(c, i, k) : TRUE].value]]

NoSecrets == [n \in Names |-> [k \in Keys |-> Absent]]

\* Loading registers what is in the table and not registered yet.
RegisteredAfter(c) ==
    [n \in Names |->
        IF c.kind # "load" \/ registered[n] # Absent \/ table[n] = Absent THEN registered[n]
        ELSE ConnectionConfig(table[n], secrets[n])]

Run(c) ==
    /\ ~disturbed /\ ~disturbed'
    /\ Accepted(c)
    /\ table' = TableAfter(c)
    /\ secrets' = SecretsAfter(c, Len(c.secrets))
    /\ registered' = RegisteredAfter(c)
    /\ last' = [cmd |-> c, exit |-> "ok"]

Refuse(c) ==
    /\ ~disturbed /\ ~disturbed'
    /\ ~Accepted(c)
    /\ last' = [cmd |-> c, exit |-> "failed"]
    /\ UNCHANGED <<table, secrets, registered>>

\* The command is killed: the entry, then its option, then one secret after
\* the other; with the REPL goes its registry.
Killed(c) ==
    /\ ~disturbed /\ ~disturbed'
    /\ \/ UNCHANGED <<table, secrets>>
       \/ /\ Accepted(c)
          /\ \/ table' = NoEntries
             \/ c.kind = "add" /\ table' = [table EXCEPT ![c.name] = EntryOf(c)]
          /\ UNCHANGED secrets
       \/ /\ Accepted(c)
          /\ table' = TableAfter(c)
          /\ \/ UNCHANGED secrets
             \/ secrets' = NoSecrets
             \/ \E i \in 1..Len(c.secrets) : secrets' = SecretsAfter(c, i)
    /\ registered' \in {registered, NoConnections}
    /\ last' = [cmd |-> c, exit |-> "killed"]

Leave ==
    /\ ~disturbed /\ ~disturbed'
    /\ registered' = NoConnections
    /\ UNCHANGED <<table, secrets, last>>

Overlap == disturbed'
Settle == disturbed /\ ~disturbed'

Init ==
    /\ table = NoEntries
    /\ secrets = NoSecrets
    /\ registered = NoConnections
    /\ last.exit = "none"
    /\ disturbed = FALSE

Next ==
    \/ \E c \in Commands : Run(c) \/ Refuse(c) \/ Killed(c)
    \/ Leave \/ Overlap \/ Settle

Spec == Init /\ [][Next]_vars
=============================================================================
