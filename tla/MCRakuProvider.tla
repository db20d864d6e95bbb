--------------------------- MODULE MCRakuProvider ---------------------------
(* Small instances of RakuProvider.  The joined values are numbers modulo 5  *)
(* and the "join" tells apart the order and the grouping of a fold; nothing  *)
(* in the provider may depend on its being a lattice operation.              *)
EXTENDS RakuProvider

CONSTANTS t1, t2, h1, h2, h3, d1, d2, f1, f2

MCValues == 0..4
MCJoin(v, w) == (2 * v + w) % 5
MCMeet(v, w) == (v + 3 * w) % 5

\* Objects of two domains, the second without a decoder.
TwoSources == {[value |-> 1, domain |-> d1, decode |-> TRUE],
               [value |-> 2, domain |-> d2, decode |-> FALSE]}
OneSource == {[value |-> 1, domain |-> d1, decode |-> TRUE]}
NoForeign == <<>>
MCForeignSource == (f1 :> [value |-> 3, domain |-> d1]) @@
                   (f2 :> [value |-> 4, domain |-> d2])

Symmetry == Permutations(Threads) \cup Permutations(Handles)
=============================================================================
