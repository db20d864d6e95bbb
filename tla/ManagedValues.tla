---------------------------- MODULE ManagedValues ----------------------------
(***************************************************************************)
(* The lattice values that the Raku and the Julia package bring along      *)
(* (LLattice.rakumod:33-101, LLattice.jl:36-103), which have the same join, *)
(* meet and equality in both languages.                                    *)
(***************************************************************************)
EXTENDS Integers

\* The number n of a MaxMin, and the NaN of a Julia float.  A NaN of Raku is
\* not modelled.
Number(n) == <<n>>
NaN       == <<>>

\* Present is an OptionalLattice with a value, Absent one without.
Present(v) == <<v>>
Absent     == <<>>

\* Julia's max and min are NaN if an argument is.
MaxMinJoin(x, y) == IF x = NaN \/ y = NaN THEN NaN ELSE IF x[1] > y[1] THEN x ELSE y
MaxMinMeet(x, y) == IF x = NaN \/ y = NaN THEN NaN ELSE IF x[1] < y[1] THEN x ELSE y

\* == of numbers: a NaN does not equal itself.
MaxMinEqual(x, y) == x # NaN /\ x = y

BooleanJoin(x, y) == x \/ y
BooleanMeet(x, y) == x /\ y

FiniteSetJoin(x, y) == x \cup y
FiniteSetMeet(x, y) == x \cap y

\* The value of an OptionalLattice is a FiniteSetLattice here, whose order is
\* not a chain.  An absent side yields the other one.
OptionalJoin(x, y) ==
    IF x = Absent THEN y ELSE IF y = Absent THEN x ELSE Present(FiniteSetJoin(x[1], y[1]))

\* An absent side makes the result absent.
OptionalMeet(x, y) ==
    IF x = Absent \/ y = Absent THEN Absent ELSE Present(FiniteSetMeet(x[1], y[1]))

OptionalEqual(x, y) ==
    \/ x = Absent /\ y = Absent
    \/ x # Absent /\ y # Absent /\ x[1] = y[1]
=============================================================================
