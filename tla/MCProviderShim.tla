--------------------------- MODULE MCProviderShim ---------------------------
(***************************************************************************)
(* Small instances of ProviderShim: two callback members, a table, one that *)
(* differs from it in one member only, and one with a NULL member.          *)
(***************************************************************************)
EXTENDS ProviderShim

CONSTANTS drop, join, f, g

MCSlots == {drop, join}
MCFunctions == {f, g}
MCTables == { [s \in MCSlots |-> f],
              [s \in MCSlots |-> IF s = drop THEN f ELSE g],
              [s \in MCSlots |-> IF s = drop THEN f ELSE Null] }
=============================================================================
