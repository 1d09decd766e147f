-------------------------- MODULE StatementChecks --------------------------
(***************************************************************************)
(* What TypeChecker finds wrong with a database statement: the connection, *)
(* tables and fields it names, and its conditions, which are checked by    *)
(* recursion over their nodes in TypeCheck.                                *)
(*                                                                         *)
(* reg is what the checker reads of the registries: whether the statement's*)
(* connection is registered, and the schema stored for it, if any:         *)
(* [connected, loaded, tables], tables mapping the name of each table to   *)
(* its fields and whether it is flexible.                                  *)
(***************************************************************************)
EXTENDS Syntax

CONSTANT ConditionErrors(_, _)  \* CheckCondition: the errors of a condition in a scope

CheckConnectionRef(reg) == {e \in {<<"connection">>} : ~reg.connected}

CheckTableRef(reg, table) ==
    {e \in {<<"table", table>>} : reg.connected /\ reg.loaded /\ table \notin DOMAIN reg.tables}

\* Seeded fault: every table taken for a flexible one.
CheckFieldRefNever(reg, table, name) == NoErrors
CheckFieldRef(reg, table, name) ==
    {e \in {<<"field", table, name>>} :
        /\ reg.connected /\ reg.loaded /\ table \in DOMAIN reg.tables
        /\ ~reg.tables[table].flexible
        /\ name \notin reg.tables[table].fields}

CheckTableCall(stmt, scope, reg) ==
    CheckConnectionRef(reg) \union CheckTableRef(reg, stmt.x.table)
        \union ConditionErrors(stmt.x.where, scope)
        \union UNION {CheckFieldRef(reg, stmt.x.table, stmt.x.fields[i]) :
                        i \in DOMAIN stmt.x.fields}

\* The fields and the condition of a write are not looked at.
CheckWriteCall(stmt, reg) ==
    CheckConnectionRef(reg) \union
    IF stmt.x.command = "insert_table" THEN NoErrors ELSE CheckTableRef(reg, stmt.x.table)

\* An alias is in scope for the conditions of the aliases after it.
CheckQueryBlock(stmt, scope, reg) ==
    LET aliases == stmt.x.aliases
        Before(i) == Over([a \in {aliases[j].alias : j \in 1..(i - 1)} |-> "table_ref"], scope)
    IN  CheckConnectionRef(reg) \union
        UNION {CheckTableRef(reg, aliases[i].table) \union
               ConditionErrors(aliases[i].where, Before(i)) : i \in DOMAIN aliases}

\* A call in a let is not looked at, nor is create_view.
CheckCall(stmt, scope, reg) ==
    CASE stmt.kind = "read"  -> CheckTableCall(stmt, scope, reg)
      [] stmt.kind = "write" -> CheckWriteCall(stmt, reg)
      [] stmt.kind = "query" -> CheckQueryBlock(stmt, scope, reg)
      [] stmt.kind = "sync"  -> CheckConnectionRef(reg)
      [] OTHER -> NoErrors
=============================================================================
