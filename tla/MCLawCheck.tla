------------------------------ MODULE MCLawCheck ------------------------------
(* Classes for LawCheck: the values of the packages, every pair of operations *)
(* on two values, a chain of three values with one result changed (on both    *)
(* sides, so that it still commutes), and a class whose equality is coarser   *)
(* than identity.                                                             *)
EXTENDS LawCheck, ManagedValues, FiniteSets

CONSTANTS e1, e2

Bits  == {0, 1}
Chain == 0..2
Sets  == SUBSET {e1, e2}

TableClasses == {<<"table", j, m>> : j, m \in [Bits \X Bits -> Bits]}
ChangedClasses ==
    {<<"changed", op, p, v>> : op \in {"join", "meet"},
                               p \in {{x, y} : x, y \in Chain}, v \in Chain}
Packaged == { <<"MaxMin">>, <<"floats">>, <<"BooleanLattice">>,
              <<"FiniteSetLattice">>, <<"OptionalLattice">> }

MCAlgebras == Packaged \cup TableClasses \cup ChangedClasses \cup {<<"parity">>}

MCCarrier(A) ==
    CASE A[1] = "MaxMin"           -> {Number(n) : n \in Chain}
      [] A[1] = "floats"           -> {Number(n) : n \in Bits} \cup {NaN}
      [] A[1] = "BooleanLattice"   -> BOOLEAN
      [] A[1] = "FiniteSetLattice" -> Sets
      [] A[1] = "OptionalLattice"  -> {Absent} \cup {Present(v) : v \in Sets}
      [] A[1] = "table"            -> Bits
      [] A[1] = "changed"          -> Chain
      [] A[1] = "parity"           -> 0..3

MCJoin(A, x, y) ==
    CASE A[1] \in {"MaxMin", "floats"} -> MaxMinJoin(x, y)
      [] A[1] = "BooleanLattice"       -> BooleanJoin(x, y)
      [] A[1] = "FiniteSetLattice"     -> FiniteSetJoin(x, y)
      [] A[1] = "OptionalLattice"      -> OptionalJoin(x, y)
      [] A[1] = "table"                -> A[2][x, y]
      [] A[1] = "changed"              -> IF A[2] = "join" /\ {x, y} = A[3] THEN A[4]
                                          ELSE IF x > y THEN x ELSE y
      [] A[1] = "parity"               -> IF x % 2 = 1 THEN x ELSE y

MCMeet(A, x, y) ==
    CASE A[1] \in {"MaxMin", "floats"} -> MaxMinMeet(x, y)
      [] A[1] = "BooleanLattice"       -> BooleanMeet(x, y)
      [] A[1] = "FiniteSetLattice"     -> FiniteSetMeet(x, y)
      [] A[1] = "OptionalLattice"      -> OptionalMeet(x, y)
      [] A[1] = "table"                -> A[3][x, y]
      [] A[1] = "changed"              -> IF A[2] = "meet" /\ {x, y} = A[3] THEN A[4]
                                          ELSE IF x < y THEN x ELSE y
      [] A[1] = "parity"               -> IF x % 2 = 0 THEN x ELSE y

MCEqual(A, x, y) ==
    CASE A[1] \in {"MaxMin", "floats"} -> MaxMinEqual(x, y)
      [] A[1] = "OptionalLattice"      -> OptionalEqual(x, y)
      [] A[1] = "parity"               -> x % 2 = y % 2
      [] OTHER                         -> x = y
=============================================================================
