--------------------------- MODULE MCJuliaProvider ---------------------------
(* Small instances of JuliaProvider; the merges tell apart the order and the *)
(* grouping of a fold.                                                       *)
EXTENDS JuliaProvider

CONSTANTS t1, t2, h1, h2, h3, a1, a2, a3, d1, d2, f1

MCValues == 0..2
MCJoin(v, w) == (2 * v + w) % 3
MCMeet(v, w) == (v + 2 * w) % 3

\* Objects of two domains, the second without a decoder.
TwoSources == {[value |-> 1, domain |-> d1, decode |-> TRUE],
               [value |-> 2, domain |-> d2, decode |-> FALSE]}
OneSource == {[value |-> 1, domain |-> d1, decode |-> TRUE]}
NoForeign == <<>>
MCForeignSource == (f1 :> [value |-> 0, domain |-> d1])

Symmetry == Permutations(Threads) \cup Permutations(Handles)
                \cup Permutations(Addresses)
=============================================================================
