--------------------------- MODULE MCModuleLoading ---------------------------
(***************************************************************************)
(* Classes for the cases the loader distinguishes: an extension that needs *)
(* a base module, a pair that require each other, a package and a built-in *)
(* module under different names with one manifest name, a class that does  *)
(* not import and one that lacks type mappings.                            *)
(***************************************************************************)
EXTENDS ModuleLoading

MCNames == {"std.pg", "pg", "postgis", "geo", "bad", "ring"}

Manifest(key, name, requires, source, imports, mapped) ==
    [key |-> key, name |-> name, requires |-> requires, source |-> source,
     imports |-> imports, mapped |-> mapped]

MCClass == [
    stdPg   |-> Manifest("std.pg", "std.pg", {}, "builtin", TRUE, TRUE),
    pgPkg   |-> Manifest("pg", "std.pg", {}, "entry point", TRUE, TRUE),
    postgis |-> Manifest("postgis", "postgis", {"std.pg"}, "builtin", TRUE, TRUE),
    newPg   |-> Manifest("std.pg", "std.pg", {}, "entry point", TRUE, TRUE),
    broken  |-> Manifest("postgis", "postgis", {}, "entry point", FALSE, TRUE),
    geo     |-> Manifest("geo", "geo", {"postgis", "pg"}, "entry point", TRUE, TRUE),
    bad     |-> Manifest("bad", "bad", {"std.pg"}, "builtin", TRUE, FALSE),
    ring    |-> Manifest("ring", "ring", {"geo", "ring"}, "builtin", TRUE, TRUE)]

MCClasses == DOMAIN MCClass
MCShipped == {"stdPg", "postgis", "bad", "ring"}
MCRequests == {{"std.pg"}, {"pg"}, {"postgis", "bad"}, {"geo"}, {"pg", "postgis"}, {"ring"}}
=============================================================================
