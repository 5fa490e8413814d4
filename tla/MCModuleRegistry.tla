--------------------------- MODULE MCModuleRegistry ---------------------------
EXTENDS ModuleRegistry, TLC

CONSTANTS n1, n2, n3

(* n3 is the new version of n1: the same name, a longer pattern.  n2 has   *)
(* the longest, so that no erase meets an element in the middle of the     *)
(* list, where eris_list_erase leaves dangling links.                       *)
Names    == (n1 :> "hello") @@ (n2 :> "test") @@ (n3 :> "hello")
Prios    == (n1 :> 1) @@ (n2 :> 4) @@ (n3 :> 3)
Patterns == (n1 :> {"/hello", "/test"}) @@ (n2 :> {"/test"}) @@ (n3 :> {"/hello"})
AllPaths == {"/hello", "/test"}
Both     == <<n1, n2>>
=============================================================================
