---------------------------- MODULE LatticeImpls ----------------------------
(***************************************************************************)
(* The implementations of the Lattice trait in the Rust crate              *)
(* (src/src/lib.rs:87-218), as operators.  Replication folds and merges     *)
(* with them.                                                              *)
(***************************************************************************)
EXTENDS Integers, SequencesExt

CONSTANTS Numbers,    \* values of an integer type, and the finite floats
          Elements,   \* elements of a HashSet or a Vec
          VecBound    \* bound: length of the Vec operands

ASSUME ImplsAssumption ==
    /\ Numbers \subseteq Int
    /\ VecBound \in Nat

\* Some(x) and None.
Some(x) == <<x>>
None    == <<>>

\* An f64: a finite number or one of the infinities, or NaN.  The sign of a
\* zero is left out: == does not see it.
NaN == [nan |-> TRUE, value |-> 0]
Float(n) == [nan |-> FALSE, value |-> n]
Floats == {NaN} \cup {Float(n) : n \in Numbers}
-----------------------------------------------------------------------------
(* The implementations. *)

Larger(x, y)  == IF x > y THEN x ELSE y
Smaller(x, y) == IF x < y THEN x ELSE y

\* Ord::max and Ord::min.
NumericJoin(x, y) == Larger(x, y)
NumericMeet(x, y) == Smaller(x, y)

\* Mutant: a NaN on either side wins.
FloatJoin_Poisoned(x, y) ==
    IF x.nan \/ y.nan THEN NaN ELSE Float(Larger(x.value, y.value))

\* Mutant: the larger by >, which is false for a NaN on either side.
FloatJoin_Compares(x, y) == IF ~x.nan /\ ~y.nan /\ x.value > y.value THEN x ELSE y

\* f64::max takes the other operand for a NaN ...
FloatJoin(x, y) ==
    CASE x.nan -> y
      [] y.nan -> x
      [] OTHER -> Float(Larger(x.value, y.value))

\* ... and so does f64::min.
FloatMeet(x, y) ==
    CASE x.nan -> y
      [] y.nan -> x
      [] OTHER -> Float(Smaller(x.value, y.value))

BoolJoin(x, y) == x \/ y
BoolMeet(x, y) == x /\ y

SetJoin(x, y) == x \cup y
SetMeet(x, y) == x \cap y

\* Mutant: the operand replaces what is there.
OptionJoin_Replaces(x, y) == IF y = None THEN x ELSE y

\* join is Some if either is Some; the other alternatives clone.  The T of
\* Option<T> is a HashSet, the lawful type whose order is not a chain.
OptionJoin(x, y) ==
    CASE x # None /\ y # None -> Some(SetJoin(x[1], y[1]))
      [] x = None             -> y
      [] OTHER                -> x

\* Mutant: meet keeps the operand that is there, as join does.
OptionMeet_Skips(x, y) ==
    CASE x # None /\ y # None -> Some(SetMeet(x[1], y[1]))
      [] x = None             -> y
      [] OTHER                -> x

OptionMeet(x, y) ==
    IF x # None /\ y # None THEN Some(SetMeet(x[1], y[1])) ELSE None

\* Mutant: items are compared with the left operand, not with the result.
VecJoin_Repeats(x, y) == x \o SelectSeq(y, LAMBDA item : item \notin Range(x))

\* The left operand, then each item of the right one the result lacks.
VecJoin(x, y) ==
    FoldLeft(LAMBDA result, item :
                IF item \in Range(result) THEN result ELSE Append(result, item), x, y)

\* Mutant: meet leaves out repetitions, as join does.
VecMeet_Dedups(x, y) ==
    FoldLeft(LAMBDA result, item :
                IF item \in Range(y) \ Range(result) THEN Append(result, item) ELSE result, <<>>, x)

\* The items of the left operand that the right one has.
VecMeet(x, y) ==
    FoldLeft(LAMBDA result, item :
                IF item \in Range(y) THEN Append(result, item) ELSE result, <<>>, x)
-----------------------------------------------------------------------------
Lawful == {"integer", "bool", "set", "option"}
Types  == Lawful \cup {"float", "vec"}

Vecs == UNION {[1..n -> Elements] : n \in 0..VecBound}

Operands(T) ==
    CASE T = "integer" -> Numbers
      [] T = "bool"    -> BOOLEAN
      [] T = "set"     -> SUBSET Elements
      [] T = "option"  -> {None} \cup {Some(x) : x \in SUBSET Elements}
      [] T = "float"   -> Floats
      [] T = "vec"     -> Vecs

Join(T, x, y) ==
    CASE T = "integer" -> NumericJoin(x, y)
      [] T = "bool"    -> BoolJoin(x, y)
      [] T = "set"     -> SetJoin(x, y)
      [] T = "option"  -> OptionJoin(x, y)
      [] T = "float"   -> FloatJoin(x, y)
      [] T = "vec"     -> VecJoin(x, y)

Meet(T, x, y) ==
    CASE T = "integer" -> NumericMeet(x, y)
      [] T = "bool"    -> BoolMeet(x, y)
      [] T = "set"     -> SetMeet(x, y)
      [] T = "option"  -> OptionMeet(x, y)
      [] T = "float"   -> FloatMeet(x, y)
      [] T = "vec"     -> VecMeet(x, y)

\* Rust's == on the values of a type.  A NaN equals nothing, itself included.
Equal(T, x, y) == (T = "float" => ~x.nan /\ ~y.nan) /\ x = y
-----------------------------------------------------------------------------
(* What the documentation promises of them: not the laws, but the orders     *)
(* (docs/theory/03-lawfulness-and-proofs.md).                                *)

\* The order each type is documented with (docs/theory/03, sections 2-6).
Below(T, x, y) ==
    CASE T = "integer" -> x <= y
      [] T = "bool"    -> x => y
      [] T = "set"     -> x \subseteq y
      [] T = "option"  -> x = None \/ (y # None /\ x[1] \subseteq y[1])
      [] T = "float"   -> ~x.nan /\ ~y.nan /\ x.value <= y.value

IsJoin(T, S, x, y, j) ==
    /\ Below(T, x, j) /\ Below(T, y, j)
    /\ \A u \in S : Below(T, x, u) /\ Below(T, y, u) => Below(T, j, u)

IsMeet(T, S, x, y, m) ==
    /\ Below(T, m, x) /\ Below(T, m, y)
    /\ \A u \in S : Below(T, u, x) /\ Below(T, u, y) => Below(T, u, m)

\* How often e is in the Vec x.
Count(x, e) == Cardinality({n \in DOMAIN x : x[n] = e})
=============================================================================
