---------------------------- MODULE LawCheckProofs ----------------------------
(***************************************************************************)
(* What the verdict of the law checker means, for every class of values,    *)
(* every number of samples and every equality that respects the operations. *)
(***************************************************************************)
EXTENDS LawCheck, TLAPS

-----------------------------------------------------------------------------
(* Equality of a class. *)

Ops == {"join", "meet"}

\* Both operations stay in the class.
LEMMA OpType ==
    ASSUME NEW A \in Algebras, NEW op \in Ops, NEW x \in Carrier(A), NEW y \in Carrier(A)
    PROVE  Op(A, op, x, y) \in Carrier(A)
BY ClosureAssumption DEF Op, Ops

\* Equality may be turned round.
LEMMA EqualIsSymmetric ==
    ASSUME NEW A \in Algebras, NEW x \in Carrier(A), NEW y \in Carrier(A), Equal(A, x, y)
    PROVE  Equal(A, y, x)
BY EqualAssumption

\* Equality may be chained.
LEMMA EqualIsTransitive ==
    ASSUME NEW A \in Algebras, NEW x \in Carrier(A), NEW y \in Carrier(A),
           NEW z \in Carrier(A), Equal(A, x, y), Equal(A, y, z)
    PROVE  Equal(A, x, z)
BY EqualAssumption

\* Whatever equals something equals itself.
LEMMA EqualToItself ==
    ASSUME NEW A \in Algebras, NEW x \in Carrier(A), NEW y \in Carrier(A), Equal(A, x, y)
    PROVE  Equal(A, x, x) /\ Equal(A, y, y)
BY EqualIsSymmetric, EqualIsTransitive

\* The left argument may be replaced by an equal one.
LEMMA LeftCongruence ==
    ASSUME NEW A \in Algebras, NEW op \in Ops, NEW x \in Carrier(A), NEW y \in Carrier(A),
           NEW z \in Carrier(A), Equal(A, x, y), Equal(A, z, z)
    PROVE  Equal(A, Op(A, op, x, z), Op(A, op, y, z))
BY EqualAssumption DEF Op, Ops

\* The right argument may be replaced by an equal one.
LEMMA RightCongruence ==
    ASSUME NEW A \in Algebras, NEW op \in Ops, NEW x \in Carrier(A), NEW y \in Carrier(A),
           NEW z \in Carrier(A), Equal(A, x, y), Equal(A, z, z)
    PROVE  Equal(A, Op(A, op, z, x), Op(A, op, z, y))
BY EqualAssumption DEF Op, Ops
-----------------------------------------------------------------------------
(* The laws of one operation on S make it a least upper bound on S, in the   *)
(* order that the operation stands for.                                      *)

Ord(A, op, x, y) == Equal(A, Op(A, op, x, y), y)

LawfulOp(A, op, S) ==
    /\ \A x, y \in S : Commutes(A, op, x, y)
    /\ \A x \in S : IsIdempotent(A, op, x)
    /\ \A x, y, z \in S : Associates(A, op, x, y, z)

\* On S every value equals itself: x op x does, and equals x.
LEMMA LawfulIsReflexive ==
    ASSUME NEW A \in Algebras, NEW op \in Ops, NEW S \in SUBSET Carrier(A),
           LawfulOp(A, op, S), NEW x \in S
    PROVE  Equal(A, x, x)
<1>1. Equal(A, Op(A, op, x, x), x)
  BY DEF LawfulOp, IsIdempotent
<1> QED BY <1>1, OpType, EqualToItself

\* The order of an operation is transitive on S.
LEMMA OrdIsTransitive ==
    ASSUME NEW A \in Algebras, NEW op \in Ops, NEW S \in SUBSET Carrier(A),
           LawfulOp(A, op, S), NEW x \in S, NEW y \in S, NEW u \in S,
           Ord(A, op, x, y), Ord(A, op, y, u)
    PROVE  Ord(A, op, x, u)
<1> DEFINE o(v, w) == Op(A, op, v, w)
<1>t. \A v, w \in Carrier(A) : o(v, w) \in Carrier(A)
  BY OpType
<1>0. Equal(A, x, x) /\ Equal(A, u, u)
  BY LawfulIsReflexive
<1>1. Equal(A, o(x, y), y) /\ Equal(A, o(y, u), u) /\ Equal(A, u, o(y, u))
  BY <1>t, EqualIsSymmetric DEF Ord
<1>2. Equal(A, o(x, u), o(x, o(y, u)))
  BY <1>t, <1>0, <1>1, RightCongruence
<1>3. Equal(A, o(x, o(y, u)), o(o(x, y), u))
  BY <1>t, EqualIsSymmetric DEF LawfulOp, Associates
<1>4. Equal(A, o(o(x, y), u), o(y, u))
  BY <1>t, <1>0, <1>1, LeftCongruence
<1>5. Equal(A, o(x, u), o(o(x, y), u))
  BY <1>t, <1>2, <1>3, EqualIsTransitive
<1>6. Equal(A, o(x, u), o(y, u))
  BY <1>t, <1>4, <1>5, EqualIsTransitive
<1>7. Equal(A, o(x, u), u)
  BY <1>t, <1>6, <1>1, EqualIsTransitive
<1> QED BY <1>7 DEF Ord

\* The result of the operation is above both of its arguments.
LEMMA OpIsAbove ==
    ASSUME NEW A \in Algebras, NEW op \in Ops, NEW S \in SUBSET Carrier(A),
           LawfulOp(A, op, S), NEW x \in S, NEW y \in S
    PROVE  Ord(A, op, x, Op(A, op, x, y)) /\ Ord(A, op, y, Op(A, op, x, y))
<1> DEFINE o(v, w) == Op(A, op, v, w)
<1>t. \A v, w \in Carrier(A) : o(v, w) \in Carrier(A)
  BY OpType
<1>0. Equal(A, x, x) /\ Equal(A, y, y)
  BY LawfulIsReflexive
<1>1. ASSUME NEW v \in S, NEW w \in S
      PROVE  Equal(A, o(v, o(v, w)), o(v, w))
  <2>1. Equal(A, o(v, o(v, w)), o(o(v, v), w))
    BY <1>t, EqualIsSymmetric DEF LawfulOp, Associates
  <2>2. Equal(A, o(v, v), v) /\ Equal(A, w, w)
    BY LawfulIsReflexive DEF LawfulOp, IsIdempotent
  <2>3. Equal(A, o(o(v, v), w), o(v, w))
    BY <1>t, <2>2, LeftCongruence
  <2> QED BY <1>t, <2>1, <2>3, EqualIsTransitive
<1>2. Equal(A, o(x, y), o(y, x)) /\ Equal(A, o(y, x), o(x, y))
  BY DEF LawfulOp, Commutes
<1>3. Equal(A, o(y, o(x, y)), o(y, o(y, x)))
  BY <1>t, <1>0, <1>2, RightCongruence
<1>4. Equal(A, o(y, o(x, y)), o(y, x))
  BY <1>t, <1>1, <1>3, EqualIsTransitive
<1>5. Equal(A, o(y, o(x, y)), o(x, y))
  BY <1>t, <1>2, <1>4, EqualIsTransitive
<1> QED BY <1>1, <1>5 DEF Ord

\* Whatever is above both arguments is above the result.
LEMMA OpIsLeast ==
    ASSUME NEW A \in Algebras, NEW op \in Ops, NEW S \in SUBSET Carrier(A),
           LawfulOp(A, op, S), NEW x \in S, NEW y \in S, NEW u \in S,
           Ord(A, op, x, u), Ord(A, op, y, u)
    PROVE  Ord(A, op, Op(A, op, x, y), u)
<1> DEFINE o(v, w) == Op(A, op, v, w)
<1>t. \A v, w \in Carrier(A) : o(v, w) \in Carrier(A)
  BY OpType
<1>1. Equal(A, o(x, u), u) /\ Equal(A, o(y, u), u) /\ Equal(A, x, x)
  BY LawfulIsReflexive DEF Ord
<1>2. Equal(A, o(o(x, y), u), o(x, o(y, u)))
  BY DEF LawfulOp, Associates
<1>3. Equal(A, o(x, o(y, u)), o(x, u))
  BY <1>t, <1>1, RightCongruence
<1>4. Equal(A, o(o(x, y), u), o(x, u))
  BY <1>t, <1>2, <1>3, EqualIsTransitive
<1>5. Equal(A, o(o(x, y), u), u)
  BY <1>t, <1>1, <1>4, EqualIsTransitive
<1> QED BY <1>5 DEF Ord

\* Values of S that are below each other are equal.
LEMMA OrdIsAntisymmetric ==
    ASSUME NEW A \in Algebras, NEW op \in Ops, NEW S \in SUBSET Carrier(A),
           LawfulOp(A, op, S), NEW x \in S, NEW y \in S,
           Ord(A, op, x, y), Ord(A, op, y, x)
    PROVE  Equal(A, x, y)
<1> DEFINE o(v, w) == Op(A, op, v, w)
<1>t. \A v, w \in Carrier(A) : o(v, w) \in Carrier(A)
  BY OpType
<1>1. Equal(A, o(x, y), y) /\ Equal(A, x, o(y, x)) /\ Equal(A, o(y, x), o(x, y))
  BY <1>t, EqualIsSymmetric DEF Ord, LawfulOp, Commutes
<1>2. Equal(A, x, o(x, y))
  BY <1>t, <1>1, EqualIsTransitive
<1> QED BY <1>t, <1>1, <1>2, EqualIsTransitive

\* With absorption the other operation stands for the opposite order.
LEMMA OrdersAreOpposite ==
    ASSUME NEW A \in Algebras, NEW op \in Ops, NEW S \in SUBSET Carrier(A),
           LawfulOp(A, op, S), LawfulOp(A, Dual(op), S),
           \A v, w \in S : Absorbs(A, Dual(op), v, w),
           NEW x \in S, NEW y \in S, Ord(A, op, x, y)
    PROVE  Ord(A, Dual(op), y, x)
<1> DEFINE o(v, w) == Op(A, op, v, w)
           d(v, w) == Op(A, Dual(op), v, w)
<1>0. Dual(op) \in Ops /\ Dual(Dual(op)) = op
  BY DEF Dual, Ops
<1>t. \A v, w \in Carrier(A) : o(v, w) \in Carrier(A) /\ d(v, w) \in Carrier(A)
  BY <1>0, OpType
<1>1. Equal(A, y, o(x, y)) /\ Equal(A, x, x)
  BY <1>t, LawfulIsReflexive, EqualIsSymmetric DEF Ord
<1>2. Equal(A, d(x, y), d(x, o(x, y)))
  BY <1>0, <1>t, <1>1, RightCongruence
<1>3. Equal(A, d(x, o(x, y)), x)
  BY <1>0 DEF Absorbs
<1>4. Equal(A, d(x, y), x)
  BY <1>t, <1>2, <1>3, EqualIsTransitive
<1>5. Equal(A, d(y, x), d(x, y))
  BY DEF LawfulOp, Commutes
<1>6. Equal(A, d(y, x), x)
  BY <1>t, <1>4, <1>5, EqualIsTransitive
<1> QED BY <1>6 DEF Ord

\* All laws on S.
LawfulOn(A, S) ==
    /\ LawfulOp(A, "join", S)
    /\ LawfulOp(A, "meet", S)
    /\ \A x, y \in S : Absorbs(A, "join", x, y) /\ Absorbs(A, "meet", x, y)

\* The laws on S make join and meet the bounds of one order on S, although a
\* join or a meet need not be in S.
THEOREM LawsGiveBounds ==
    ASSUME NEW A \in Algebras, NEW S \in SUBSET Carrier(A), LawfulOn(A, S)
    PROVE  BoundsOn(A, S)
<1>0. /\ LawfulOp(A, "join", S) /\ LawfulOp(A, "meet", S)
      /\ "join" \in Ops /\ "meet" \in Ops
      /\ Dual("join") = "meet" /\ Dual("meet") = "join"
  BY DEF LawfulOn, Ops, Dual
<1>1. \A x, y : /\ Op(A, "join", x, y) = Join(A, x, y)
                /\ Op(A, "meet", x, y) = Meet(A, x, y)
  BY DEF Op
<1>2. \A x, y : /\ Below(A, x, y) <=> Ord(A, "join", x, y)
                /\ Above(A, x, y) <=> Ord(A, "meet", x, y)
  BY <1>1 DEF Below, Above, Ord
<1>3. \A x \in S : Equal(A, x, x)
  BY <1>0, LawfulIsReflexive
<1>4. ASSUME NEW x \in S, NEW y \in S
      PROVE  /\ Below(A, x, y) <=> Above(A, y, x)
             /\ Below(A, x, y) /\ Below(A, y, x) => Equal(A, x, y)
             /\ Below(A, x, Join(A, x, y)) /\ Below(A, y, Join(A, x, y))
             /\ Above(A, x, Meet(A, x, y)) /\ Above(A, y, Meet(A, x, y))
  <2>1. Below(A, x, y) => Above(A, y, x)
    <3>1. \A v, w \in S : Absorbs(A, Dual("join"), v, w)
      BY <1>0 DEF LawfulOn
    <3> QED BY <1>0, <1>2, <3>1, OrdersAreOpposite
  <2>2. Above(A, y, x) => Below(A, x, y)
    <3>1. \A v, w \in S : Absorbs(A, Dual("meet"), v, w)
      BY <1>0 DEF LawfulOn
    <3> QED BY <1>0, <1>2, <3>1, OrdersAreOpposite
  <2>3. Below(A, x, y) /\ Below(A, y, x) => Equal(A, x, y)
    BY <1>0, <1>2, OrdIsAntisymmetric
  <2>4. Below(A, x, Join(A, x, y)) /\ Below(A, y, Join(A, x, y))
    <3>1. /\ Ord(A, "join", x, Op(A, "join", x, y))
          /\ Ord(A, "join", y, Op(A, "join", x, y))
      BY <1>0, OpIsAbove
    <3> QED BY <1>1, <1>2, <3>1
  <2>5. Above(A, x, Meet(A, x, y)) /\ Above(A, y, Meet(A, x, y))
    <3>1. /\ Ord(A, "meet", x, Op(A, "meet", x, y))
          /\ Ord(A, "meet", y, Op(A, "meet", x, y))
      BY <1>0, OpIsAbove
    <3> QED BY <1>1, <1>2, <3>1
  <2> QED BY <2>1, <2>2, <2>3, <2>4, <2>5
<1>5. ASSUME NEW x \in S, NEW y \in S, NEW u \in S
      PROVE  /\ Below(A, x, y) /\ Below(A, y, u) => Below(A, x, u)
             /\ Below(A, x, u) /\ Below(A, y, u) => Below(A, Join(A, x, y), u)
             /\ Above(A, x, u) /\ Above(A, y, u) => Above(A, Meet(A, x, y), u)
  <2>1. Below(A, x, y) /\ Below(A, y, u) => Below(A, x, u)
    BY <1>0, <1>2, OrdIsTransitive
  <2>2. Below(A, x, u) /\ Below(A, y, u) => Below(A, Join(A, x, y), u)
    <3>1. Ord(A, "join", x, u) /\ Ord(A, "join", y, u)
             => Ord(A, "join", Op(A, "join", x, y), u)
      BY <1>0, OpIsLeast
    <3> QED BY <1>1, <1>2, <3>1
  <2>3. Above(A, x, u) /\ Above(A, y, u) => Above(A, Meet(A, x, y), u)
    <3>1. Ord(A, "meet", x, u) /\ Ord(A, "meet", y, u)
             => Ord(A, "meet", Op(A, "meet", x, y), u)
      BY <1>0, OpIsLeast
    <3> QED BY <1>1, <1>2, <3>1
  <2> QED BY <2>1, <2>2, <2>3
<1> QED BY <1>3, <1>4, <1>5 DEF BoundsOn
-----------------------------------------------------------------------------
(* Conversely, the bounds of an order obey all the laws. *)

\* Ord of op is a partial order on the class and op its least upper bound.
BoundOp(A, op) ==
    /\ \A x \in Carrier(A) : Ord(A, op, x, x)
    /\ \A x, y \in Carrier(A) :
          /\ Ord(A, op, x, y) /\ Ord(A, op, y, x) => Equal(A, x, y)
          /\ Ord(A, op, x, Op(A, op, x, y)) /\ Ord(A, op, y, Op(A, op, x, y))
    /\ \A x, y, u \in Carrier(A) :
          /\ Ord(A, op, x, y) /\ Ord(A, op, y, u) => Ord(A, op, x, u)
          /\ Ord(A, op, x, u) /\ Ord(A, op, y, u) => Ord(A, op, Op(A, op, x, y), u)

\* The least upper bounds of an order obey the laws of one operation.
LEMMA BoundsAreLawful ==
    ASSUME NEW A \in Algebras, NEW op \in Ops, BoundOp(A, op)
    PROVE  LawfulOp(A, op, Carrier(A))
<1> DEFINE o(v, w) == Op(A, op, v, w)
           le(v, w) == Ord(A, op, v, w)
<1>t. \A v, w \in Carrier(A) : o(v, w) \in Carrier(A)
  BY OpType
<1>1. \A x \in Carrier(A) : le(x, x)
  BY DEF BoundOp
<1>2. \A x, y \in Carrier(A) : le(x, y) /\ le(y, x) => Equal(A, x, y)
  BY DEF BoundOp
<1>3. \A x, y \in Carrier(A) : le(x, o(x, y)) /\ le(y, o(x, y))
  BY DEF BoundOp
<1>4. \A x, y, u \in Carrier(A) : le(x, y) /\ le(y, u) => le(x, u)
  BY DEF BoundOp
<1>5. \A x, y, u \in Carrier(A) : le(x, u) /\ le(y, u) => le(o(x, y), u)
  BY DEF BoundOp
<1>6. \A x \in Carrier(A) : IsIdempotent(A, op, x)
  BY <1>1 DEF IsIdempotent, Ord
<1> HIDE DEF o, le
<1>7. ASSUME NEW x \in Carrier(A), NEW y \in Carrier(A)
      PROVE  Equal(A, o(x, y), o(y, x))
  BY <1>t, <1>2, <1>3, <1>5
<1>8. ASSUME NEW x \in Carrier(A), NEW y \in Carrier(A), NEW z \in Carrier(A)
      PROVE  Equal(A, o(o(x, y), z), o(x, o(y, z)))
  <2> DEFINE a == o(o(x, y), z)
             b == o(x, o(y, z))
  <2>0. /\ o(x, y) \in Carrier(A) /\ o(y, z) \in Carrier(A)
        /\ a \in Carrier(A) /\ b \in Carrier(A)
    BY <1>t
  <2>1. le(x, a) /\ le(y, a) /\ le(z, a)
    BY <2>0, <1>3, <1>4
  <2>2. le(x, b) /\ le(y, b) /\ le(z, b)
    BY <2>0, <1>3, <1>4
  <2>3. le(a, b)
    BY <2>0, <2>2, <1>5
  <2>4. le(b, a)
    BY <2>0, <2>1, <1>5
  <2> QED BY <2>0, <2>3, <2>4, <1>2
<1> QED BY <1>6, <1>7, <1>8 DEF LawfulOp, Commutes, Associates, o

\* A class whose join and meet are the bounds of one order obeys all the laws.
THEOREM BoundsGiveLaws ==
    ASSUME NEW A \in Algebras, BoundsOn(A, Carrier(A))
    PROVE  LawfulOn(A, Carrier(A))
<1> DEFINE C == Carrier(A)
<1>t. \A x, y \in C : Join(A, x, y) \in C /\ Meet(A, x, y) \in C
  BY ClosureAssumption
<1>0. \A x, y \in C : Below(A, x, y) <=> Above(A, y, x)
  BY DEF BoundsOn
\* An element is the meet of itself with an upper bound of its own, and so
\* below itself.
<1>1. ASSUME NEW x \in C PROVE Below(A, x, x)
  <2> DEFINE j == Join(A, x, x)
             m == Meet(A, j, x)
  <2>0. j \in C /\ m \in C /\ Equal(A, x, x)
    BY <1>t DEF BoundsOn
  <2>1. Equal(A, m, x)
    <3>1. Below(A, x, j)
      BY DEF BoundsOn
    <3> QED BY <2>0, <3>1, <1>0 DEF Above
  <2>2. Below(A, m, x)
    <3>1. Above(A, x, m)
      BY <2>0 DEF BoundsOn
    <3> QED BY <2>0, <3>1, <1>0
  <2>3. Equal(A, Join(A, x, x), Join(A, m, x))
    <3>1. Equal(A, x, m)
      BY <2>0, <2>1, EqualIsSymmetric
    <3> QED BY <2>0, <3>1, EqualAssumption
  <2>4. Equal(A, Join(A, m, x), x)
    BY <2>2 DEF Below
  <2> QED BY <1>t, <2>0, <2>3, <2>4, EqualIsTransitive DEF Below
<1>2. \A x \in C : Above(A, x, x)
  BY <1>0, <1>1
<1>3. \A x, y : /\ Op(A, "join", x, y) = Join(A, x, y)
                /\ Op(A, "meet", x, y) = Meet(A, x, y)
  BY DEF Op
<1>4. \A x, y : /\ Ord(A, "join", x, y) <=> Below(A, x, y)
                /\ Ord(A, "meet", x, y) <=> Above(A, x, y)
  BY <1>3 DEF Below, Above, Ord
<1>5. BoundOp(A, "join")
  BY <1>1, <1>3, <1>4 DEF BoundOp, BoundsOn
<1>6. BoundOp(A, "meet")
  <2>1. \A x, y \in C : Above(A, x, y) /\ Above(A, y, x) => Equal(A, x, y)
    BY <1>0 DEF BoundsOn
  <2>2. \A x, y, u \in C : Above(A, x, y) /\ Above(A, y, u) => Above(A, x, u)
    BY <1>0 DEF BoundsOn
  <2>3. \A x, y \in C : Above(A, x, Meet(A, x, y)) /\ Above(A, y, Meet(A, x, y))
    BY DEF BoundsOn
  <2>4. \A x, y, u \in C : Above(A, x, u) /\ Above(A, y, u) => Above(A, Meet(A, x, y), u)
    BY DEF BoundsOn
  <2> QED BY <1>2, <1>3, <1>4, <2>1, <2>2, <2>3, <2>4 DEF BoundOp
<1>7. LawfulOp(A, "join", C) /\ LawfulOp(A, "meet", C)
  BY <1>5, <1>6, BoundsAreLawful DEF Ops
<1>8. ASSUME NEW x \in C, NEW y \in C PROVE Absorbs(A, "join", x, y)
  <2> DEFINE m == Meet(A, x, y)
             j == Join(A, x, m)
  <2>0. m \in C /\ j \in C
    BY <1>t
  <2>1. Below(A, m, x)
    <3>1. Above(A, x, m)
      BY DEF BoundsOn
    <3> QED BY <2>0, <3>1, <1>0
  <2>2. Below(A, j, x)
    BY <2>0, <2>1, <1>1 DEF BoundsOn
  <2>3. Below(A, x, j)
    BY <2>0 DEF BoundsOn
  <2>4. Equal(A, j, x)
    BY <2>0, <2>2, <2>3 DEF BoundsOn
  <2> QED BY <2>4 DEF Absorbs, Op, Dual
<1>9. ASSUME NEW x \in C, NEW y \in C PROVE Absorbs(A, "meet", x, y)
  <2> DEFINE j == Join(A, x, y)
             m == Meet(A, x, j)
  <2>0. m \in C /\ j \in C
    BY <1>t
  <2>1. Above(A, j, x)
    <3>1. Below(A, x, j)
      BY DEF BoundsOn
    <3> QED BY <2>0, <3>1, <1>0
  <2>2. Above(A, m, x)
    BY <2>0, <2>1, <1>2 DEF BoundsOn
  <2>3. Above(A, x, m)
    BY <2>0 DEF BoundsOn
  <2>4. Equal(A, m, x)
    BY <2>0, <2>2, <2>3, <1>0 DEF BoundsOn
  <2> QED BY <2>4 DEF Absorbs, Op, Dual
<1> QED BY <1>7, <1>8, <1>9 DEF LawfulOn
-----------------------------------------------------------------------------
(* The loops.  LoopInv says what has been asked for when the checker stands   *)
(* at a cursor: all of the earlier loops, and the positions before the cursor *)
(* in the order that Advance goes through them.                               *)

TypeInv ==
    /\ algebra \in Algebras
    /\ samples \in Seq(Carrier(algebra))
    /\ loop \in 0..3
    /\ verdict \in {"running", "accepted", "empty", "rejected"}

LoopDone(l) == \A p \in PositionsOf(l) : LawsHoldAt(l, p)

\* The cursor is at positions of its loop, before the first at the start.
CursorInv ==
    /\ loop = 0 => cursor = Start
    /\ loop # 0 => Len(samples) > 0 /\ cursor \in PositionsOf(loop)

AskedInv ==
    /\ \A l \in 1..3 : l < loop => LoopDone(l)
    /\ loop # 0 => \A p \in PositionsOf(loop) : Precedes(p, cursor) => LawsHoldAt(loop, p)

VerdictInv ==
    /\ verdict = "accepted" => loop = 3 /\ LoopDone(3)
    /\ verdict = "rejected" =>
          /\ loop # 0
          /\ fault \in DOMAIN Laws[loop]
          /\ ~HoldsAt(Laws[loop][fault], cursor)
          /\ \A m \in 1..fault - 1 : HoldsAt(Laws[loop][m], cursor)

LoopInv == TypeInv /\ CursorInv /\ AskedInv /\ VerdictInv

\* A loop has one to three loop variables, and its positions are samples.
LEMMA PositionFacts ==
    ASSUME TypeInv, NEW l \in 1..3, NEW p \in PositionsOf(l)
    PROVE  /\ Depth[l] \in 1..3
           /\ p \in [1..3 -> 1..Len(samples)]
           /\ \A w \in 1..3 : w > Depth[l] => p[w] = 1
<1>1. Depth[l] \in 1..3
  BY DEF Depth
<1>2. DOMAIN samples = 1..Len(samples)
  BY DEF TypeInv
<1> QED BY <1>1, <1>2 DEF PositionsOf, Positions

\* Nothing comes before the start.
LEMMA StartIsFirst ==
    ASSUME TypeInv, Len(samples) > 0, NEW l \in 1..3
    PROVE  /\ Start \in PositionsOf(l)
           /\ \A p \in PositionsOf(l) : ~Precedes(p, Start)
<1>1. DOMAIN samples = 1..Len(samples) /\ Len(samples) \in Nat
  BY DEF TypeInv
<1>2. Start \in PositionsOf(l)
  BY <1>1 DEF PositionsOf, Positions, Start
<1>3. ASSUME NEW p \in PositionsOf(l) PROVE ~Precedes(p, Start)
  BY <1>1, <1>3, PositionFacts DEF Precedes, Start
<1> QED BY <1>2, <1>3

\* What Advance makes of a cursor c whose loop variable v goes on.
Successor(c, v) ==
    [w \in 1..3 |-> CASE w < v -> c[w] [] w = v -> c[w] + 1 [] w > v -> 1]

\* Only the cursor itself, and what came before it, comes before its successor.
LEMMA SuccessorIsNext ==
    ASSUME TypeInv, NEW l \in 1..3, NEW c \in PositionsOf(l), NEW v \in 1..Depth[l],
           c[v] < Len(samples), \A w \in v + 1..Depth[l] : c[w] = Len(samples)
    PROVE  /\ Successor(c, v) \in PositionsOf(l)
           /\ \A p \in PositionsOf(l) :
                 Precedes(p, Successor(c, v)) => Precedes(p, c) \/ p = c
<1> DEFINE n == Len(samples)
           d == Successor(c, v)
<1>0. DOMAIN samples = 1..n /\ n \in Nat
  BY DEF TypeInv
<1>1. Depth[l] \in 1..3 /\ c \in [1..3 -> 1..n] /\ v \in 1..3
      /\ \A w \in 1..3 : w > Depth[l] => c[w] = 1
  BY PositionFacts
<1>2. d \in [1..3 -> 1..n]
  BY <1>0, <1>1 DEF Successor
<1>3. \A w \in 1..3 : /\ w < v => d[w] = c[w]
                      /\ w = v => d[w] = c[w] + 1
                      /\ w > v => d[w] = 1
  BY <1>1 DEF Successor
<1>4. d \in PositionsOf(l)
  BY <1>0, <1>1, <1>2, <1>3 DEF PositionsOf, Positions
<1>5. ASSUME NEW p \in PositionsOf(l), Precedes(p, d)
      PROVE  Precedes(p, c) \/ p = c
  <2>1. p \in [1..3 -> 1..n] /\ \A w \in 1..3 : w > Depth[l] => p[w] = 1
    BY PositionFacts
  <2>2. PICK u \in 1..3 : p[u] < d[u] /\ \A w \in 1..u - 1 : p[w] = d[w]
    BY <1>5 DEF Precedes
  <2>3. CASE u < v
    <3>1. p[u] < c[u] /\ \A w \in 1..u - 1 : p[w] = c[w]
      BY <1>1, <1>3, <2>2, <2>3
    <3> QED BY <3>1 DEF Precedes
  <2>4. u <= v
    <3>1. CASE u > v
      BY <1>1, <1>3, <2>1, <2>2, <3>1
    <3> QED BY <1>1, <3>1
  <2>5. CASE u = v
    <3>1. \A w \in 1..v - 1 : p[w] = c[w]
      BY <1>1, <1>3, <2>2, <2>5
    <3>2. CASE p[v] < c[v]
      BY <1>1, <3>1, <3>2 DEF Precedes
    <3>3. CASE p[v] = c[v]
      \* Behind v the cursor is at its end, and p is there or before.
      <4>1. \A w \in 1..3 : w > v => p[w] <= c[w]
        <5>1. ASSUME NEW w \in 1..3, w > v PROVE p[w] <= c[w]
          <6>1. CASE w <= Depth[l]
            <7>1. w \in v + 1..Depth[l]
              BY <1>1, <5>1, <6>1
            <7> QED BY <1>0, <1>1, <2>1, <7>1
          <6>2. CASE w > Depth[l]
            BY <1>1, <2>1, <6>2
          <6> QED BY <1>1, <6>1, <6>2
        <5> QED BY <5>1
      <4>2. CASE p # c
        <5>1. PICK w \in 1..3 : /\ p[w] # c[w]
                                /\ \A x \in 1..3 : x < w => p[x] = c[x]
          <6>1. p[1] # c[1] \/ p[2] # c[2] \/ p[3] # c[3]
            BY <1>1, <2>1, <4>2
          <6> QED BY <6>1
        <5>2. w > v
          BY <1>1, <3>1, <3>3, <5>1
        <5>3. p[w] < c[w]
          BY <1>1, <2>1, <4>1, <5>1, <5>2
        <5> QED BY <5>1, <5>3 DEF Precedes
      <4> QED BY <4>2
    <3> QED BY <1>1, <1>3, <2>1, <2>2, <2>5, <3>2, <3>3
  <2> QED BY <1>1, <2>3, <2>4, <2>5
<1> QED BY <1>4, <1>5

\* When every loop variable is at its end nothing comes after the cursor.
LEMMA EndIsLast ==
    ASSUME TypeInv, NEW l \in 1..3, NEW c \in PositionsOf(l),
           \A v \in 1..Depth[l] : c[v] = Len(samples),
           NEW p \in PositionsOf(l)
    PROVE  Precedes(p, c) \/ p = c
<1> DEFINE n == Len(samples)
<1>0. n \in Nat
  BY DEF TypeInv
<1>1. /\ Depth[l] \in 1..3
      /\ c \in [1..3 -> 1..n] /\ p \in [1..3 -> 1..n]
      /\ \A w \in 1..3 : w > Depth[l] => c[w] = 1 /\ p[w] = 1
  BY PositionFacts
<1>2. ASSUME NEW w \in 1..3 PROVE p[w] <= c[w]
  BY <1>0, <1>1
<1>3. CASE p # c
  <2>1. PICK w \in 1..3 : p[w] # c[w] /\ \A x \in 1..3 : x < w => p[x] = c[x]
    <3>1. p[1] # c[1] \/ p[2] # c[2] \/ p[3] # c[3]
      BY <1>1, <1>3
    <3> QED BY <3>1
  <2>2. p[w] < c[w]
    BY <1>1, <1>2, <2>1
  <2> QED BY <2>1, <2>2 DEF Precedes
<1> QED BY <1>3
-----------------------------------------------------------------------------
(* What the three loop bodies ask for. *)

\* The first loop asks a pair for commutativity and absorption.
LEMMA PairLaws ==
    ASSUME NEW c
    PROVE  LawsHoldAt(1, c) <=>
              /\ Commutes(algebra, "join", samples[c[1]], samples[c[2]])
              /\ Commutes(algebra, "meet", samples[c[1]], samples[c[2]])
              /\ Absorbs(algebra, "join", samples[c[1]], samples[c[2]])
              /\ Absorbs(algebra, "meet", samples[c[1]], samples[c[2]])
<1>1. /\ DOMAIN Laws[1] = 1..4
      /\ Laws[1][1] = <<"commutes", "join">> /\ Laws[1][2] = <<"commutes", "meet">>
      /\ Laws[1][3] = <<"absorbs", "join">> /\ Laws[1][4] = <<"absorbs", "meet">>
  BY DEF Laws
<1>2. LawsHoldAt(1, c) <=> /\ HoldsAt(<<"commutes", "join">>, c)
                           /\ HoldsAt(<<"commutes", "meet">>, c)
                           /\ HoldsAt(<<"absorbs", "join">>, c)
                           /\ HoldsAt(<<"absorbs", "meet">>, c)
  BY <1>1 DEF LawsHoldAt
<1>3. \A op : HoldsAt(<<"commutes", op>>, c)
                 <=> Commutes(algebra, op, samples[c[1]], samples[c[2]])
  BY DEF HoldsAt
<1>4. \A op : HoldsAt(<<"absorbs", op>>, c)
                 <=> Absorbs(algebra, op, samples[c[1]], samples[c[2]])
  BY DEF HoldsAt
<1> QED BY <1>2, <1>3, <1>4

\* The second asks an item for idempotence.
LEMMA ItemLaws ==
    ASSUME NEW c
    PROVE  LawsHoldAt(2, c) <=> /\ IsIdempotent(algebra, "join", samples[c[1]])
                                /\ IsIdempotent(algebra, "meet", samples[c[1]])
<1>1. /\ DOMAIN Laws[2] = 1..2
      /\ Laws[2][1] = <<"idempotent", "join">>
      /\ Laws[2][2] = <<"idempotent", "meet">>
  BY DEF Laws
<1>2. LawsHoldAt(2, c) <=> /\ HoldsAt(<<"idempotent", "join">>, c)
                           /\ HoldsAt(<<"idempotent", "meet">>, c)
  BY <1>1 DEF LawsHoldAt
<1>3. \A op : HoldsAt(<<"idempotent", op>>, c)
                 <=> IsIdempotent(algebra, op, samples[c[1]])
  BY DEF HoldsAt
<1> QED BY <1>2, <1>3

\* The third asks a triple for associativity.
LEMMA TripleLaws ==
    ASSUME NEW c
    PROVE  LawsHoldAt(3, c) <=>
              /\ Associates(algebra, "join", samples[c[1]], samples[c[2]], samples[c[3]])
              /\ Associates(algebra, "meet", samples[c[1]], samples[c[2]], samples[c[3]])
<1>1. /\ DOMAIN Laws[3] = 1..2
      /\ Laws[3][1] = <<"associates", "join">>
      /\ Laws[3][2] = <<"associates", "meet">>
  BY DEF Laws
<1>2. LawsHoldAt(3, c) <=> /\ HoldsAt(<<"associates", "join">>, c)
                           /\ HoldsAt(<<"associates", "meet">>, c)
  BY <1>1 DEF LawsHoldAt
<1>3. \A op : HoldsAt(<<"associates", op>>, c)
                 <=> Associates(algebra, op, samples[c[1]], samples[c[2]], samples[c[3]])
  BY DEF HoldsAt
<1> QED BY <1>2, <1>3

\* The positions of the three loops are all pairs, items and triples of samples.
LEMMA PositionsCover ==
    ASSUME TypeInv, NEW i \in 1..Len(samples), NEW j \in 1..Len(samples),
           NEW k \in 1..Len(samples)
    PROVE  /\ <<i, j, 1>> \in PositionsOf(1)
           /\ <<i, 1, 1>> \in PositionsOf(2)
           /\ <<i, j, k>> \in PositionsOf(3)
<1>1. DOMAIN samples = 1..Len(samples) /\ Len(samples) \in Nat /\ 1 \in 1..Len(samples)
  BY DEF TypeInv
<1>2. \A a, b, c \in 1..Len(samples) : <<a, b, c>> \in Positions
  BY <1>1 DEF Positions
<1>3. Depth[1] = 2 /\ Depth[2] = 1 /\ Depth[3] = 3
  BY DEF Depth
<1>4. <<i, j, 1>> \in PositionsOf(1)
  BY <1>1, <1>2, <1>3 DEF PositionsOf
<1>5. <<i, 1, 1>> \in PositionsOf(2)
  BY <1>1, <1>2, <1>3 DEF PositionsOf
<1>6. <<i, j, k>> \in PositionsOf(3)
  BY <1>1, <1>2, <1>3 DEF PositionsOf
<1> QED BY <1>4, <1>5, <1>6

\* All three loops done is all of the laws, on the samples.
LEMMA DoneIsLawful ==
    ASSUME TypeInv, LoopDone(1), LoopDone(2), LoopDone(3)
    PROVE  LawfulOn(algebra, Samples)
<1> DEFINE n == Len(samples)
<1>0. DOMAIN samples = 1..n
  BY DEF TypeInv
<1>1. \A x \in Samples : \E i \in 1..n : x = samples[i]
  BY <1>0 DEF Samples
<1>2. ASSUME NEW i \in 1..n, NEW j \in 1..n
      PROVE  /\ Commutes(algebra, "join", samples[i], samples[j])
             /\ Commutes(algebra, "meet", samples[i], samples[j])
             /\ Absorbs(algebra, "join", samples[i], samples[j])
             /\ Absorbs(algebra, "meet", samples[i], samples[j])
  <2>1. LawsHoldAt(1, <<i, j, 1>>)
    BY PositionsCover DEF LoopDone
  <2> QED BY <2>1, PairLaws
<1>3. ASSUME NEW i \in 1..n
      PROVE  /\ IsIdempotent(algebra, "join", samples[i])
             /\ IsIdempotent(algebra, "meet", samples[i])
  <2>1. LawsHoldAt(2, <<i, 1, 1>>)
    BY PositionsCover DEF LoopDone
  <2> QED BY <2>1, ItemLaws
<1>4. ASSUME NEW i \in 1..n, NEW j \in 1..n, NEW k \in 1..n
      PROVE  /\ Associates(algebra, "join", samples[i], samples[j], samples[k])
             /\ Associates(algebra, "meet", samples[i], samples[j], samples[k])
  <2>1. LawsHoldAt(3, <<i, j, k>>)
    BY PositionsCover DEF LoopDone
  <2> QED BY <2>1, TripleLaws
<1>5. ASSUME NEW x \in Samples, NEW y \in Samples
      PROVE  /\ Commutes(algebra, "join", x, y) /\ Commutes(algebra, "meet", x, y)
             /\ Absorbs(algebra, "join", x, y) /\ Absorbs(algebra, "meet", x, y)
  BY <1>1, <1>2
<1>6. ASSUME NEW x \in Samples
      PROVE  IsIdempotent(algebra, "join", x) /\ IsIdempotent(algebra, "meet", x)
  BY <1>1, <1>3
<1>7. ASSUME NEW x \in Samples, NEW y \in Samples, NEW z \in Samples
      PROVE  Associates(algebra, "join", x, y, z) /\ Associates(algebra, "meet", x, y, z)
  BY <1>1, <1>4
<1> QED BY <1>5, <1>6, <1>7 DEF LawfulOn, LawfulOp

\* In a lawful class every loop body finds what it asks for.
LEMMA LawfulHolds ==
    ASSUME TypeInv, LawfulOn(algebra, Carrier(algebra)),
           NEW l \in 1..3, NEW p \in PositionsOf(l)
    PROVE  LawsHoldAt(l, p)
<1>1. /\ samples[p[1]] \in Carrier(algebra)
      /\ samples[p[2]] \in Carrier(algebra)
      /\ samples[p[3]] \in Carrier(algebra)
  <2>1. p \in [1..3 -> 1..Len(samples)]
    BY PositionFacts
  <2> QED BY <2>1 DEF TypeInv
<1>2. CASE l = 1
  BY <1>1, <1>2, PairLaws DEF LawfulOn, LawfulOp
<1>3. CASE l = 2
  BY <1>1, <1>3, ItemLaws DEF LawfulOn, LawfulOp
<1>4. CASE l = 3
  BY <1>1, <1>4, TripleLaws DEF LawfulOn, LawfulOp
<1> QED BY <1>2, <1>3, <1>4
-----------------------------------------------------------------------------
(* The steps. *)

\* While the samples are what they are, so is what the loops ask of them.
LEMMA SamplesStay ==
    ASSUME algebra' = algebra, samples' = samples
    PROVE  /\ \A l, p : LawsHoldAt(l, p)' <=> LawsHoldAt(l, p)
           /\ \A l : PositionsOf(l)' = PositionsOf(l)
           /\ \A l : LoopDone(l)' <=> LoopDone(l)
<1>1. ASSUME NEW l, NEW p PROVE LawsHoldAt(l, p)' <=> LawsHoldAt(l, p)
  BY DEF LawsHoldAt, HoldsAt
<1>2. ASSUME NEW l PROVE PositionsOf(l)' = PositionsOf(l)
  BY DEF PositionsOf, Positions
<1>3. ASSUME NEW l PROVE LoopDone(l)' <=> LoopDone(l)
  BY <1>1, <1>2 DEF LoopDone
<1> QED BY <1>1, <1>2, <1>3

\* The checker starts before its loops.
LEMMA LoopInit == Init => LoopInv
<1> SUFFICES ASSUME Init PROVE LoopInv
  OBVIOUS
<1>1. samples \in Seq(Carrier(algebra))
  <2>1. PICK n \in 0..SampleBound : samples \in [1..n -> Carrier(algebra)]
    BY DEF Init
  <2> QED BY <2>1, SampleBoundAssumption
<1>2. TypeInv
  BY <1>1 DEF Init, TypeInv
<1>3. CursorInv /\ AskedInv /\ VerdictInv
  BY DEF Init, CursorInv, AskedInv, VerdictInv
<1> QED BY <1>2, <1>3 DEF LoopInv

\* Every step of the checker keeps the invariant.
LEMMA LoopStep == LoopInv /\ [Next]_vars => LoopInv'
<1> SUFFICES ASSUME LoopInv, [Next]_vars PROVE LoopInv'
  OBVIOUS
<1>i. TypeInv /\ CursorInv /\ AskedInv /\ VerdictInv
  BY DEF LoopInv
<1>1. CASE Begin
  <2>0. loop = 0 /\ verdict = "running" /\ algebra' = algebra /\ samples' = samples
    BY <1>1 DEF Begin
  <2>1. CASE Len(samples) = 0
    <3>1. loop' = 0 /\ verdict' = "empty" /\ cursor' = cursor
      BY <1>1, <2>0, <2>1 DEF Begin
    <3>2. TypeInv' /\ CursorInv'
      BY <1>i, <2>0, <3>1 DEF TypeInv, CursorInv
    <3>3. AskedInv' /\ VerdictInv'
      BY <3>1 DEF AskedInv, VerdictInv
    <3> QED BY <3>2, <3>3 DEF LoopInv
  <2>2. CASE Len(samples) # 0
    <3>1. loop' = 1 /\ verdict' = "running" /\ cursor' = Start
      BY <1>1, <1>i, <2>0, <2>2 DEF Begin, CursorInv
    <3>2. Len(samples) > 0
      BY <1>i, <2>2 DEF TypeInv
    <3>3. Start \in PositionsOf(1) /\ \A p \in PositionsOf(1) : ~Precedes(p, Start)
      BY <1>i, <3>2, StartIsFirst
    <3>4. TypeInv'
      BY <1>i, <2>0, <3>1 DEF TypeInv
    <3>5. CursorInv'
      BY <2>0, <3>1, <3>2, <3>3, SamplesStay DEF CursorInv
    <3>6. AskedInv'
      BY <2>0, <3>1, <3>3, SamplesStay DEF AskedInv
    <3> QED BY <3>1, <3>4, <3>5, <3>6 DEF LoopInv, VerdictInv
  <2> QED BY <2>1, <2>2
<1>2. CASE Reject
  <2>0. /\ loop # 0 /\ verdict = "running" /\ verdict' = "rejected"
        /\ algebra' = algebra /\ samples' = samples /\ loop' = loop /\ cursor' = cursor
    BY <1>2 DEF Reject
  <2>1. PICK n \in DOMAIN Laws[loop] :
           /\ ~HoldsAt(Laws[loop][n], cursor)
           /\ \A m \in 1..n - 1 : HoldsAt(Laws[loop][m], cursor)
           /\ fault' = n
    BY <1>2 DEF Reject
  <2>2. TypeInv' /\ CursorInv'
    BY <1>i, <2>0, SamplesStay DEF TypeInv, CursorInv
  <2>3. AskedInv'
    BY <1>i, <2>0, SamplesStay DEF AskedInv
  <2>4. \A law : HoldsAt(law, cursor)' <=> HoldsAt(law, cursor)
    BY <2>0 DEF HoldsAt
  <2>5. VerdictInv'
    BY <2>0, <2>1, <2>4 DEF VerdictInv
  <2> QED BY <2>2, <2>3, <2>5 DEF LoopInv
<1>3. CASE Advance
  <2>0. /\ loop # 0 /\ verdict = "running" /\ verdict' = verdict
        /\ algebra' = algebra /\ samples' = samples /\ loop' = loop
        /\ LawsHoldAt(loop, cursor)
    BY <1>3 DEF Advance
  <2>1. loop \in 1..3 /\ Len(samples) > 0 /\ cursor \in PositionsOf(loop)
    BY <1>i, <2>0 DEF TypeInv, CursorInv
  <2>2. PICK v \in 1..Depth[loop] :
           /\ cursor[v] < Len(samples)
           /\ \A w \in v + 1..Depth[loop] : cursor[w] = Len(samples)
           /\ cursor' = Successor(cursor, v)
    BY <1>3 DEF Advance, Successor
  <2>3. /\ cursor' \in PositionsOf(loop)
        /\ \A p \in PositionsOf(loop) : Precedes(p, cursor') => Precedes(p, cursor) \/ p = cursor
    BY <1>i, <2>1, <2>2, SuccessorIsNext
  <2>4. TypeInv'
    BY <1>i, <2>0 DEF TypeInv
  <2>5. CursorInv'
    BY <2>0, <2>1, <2>3, SamplesStay DEF CursorInv
  <2>6. AskedInv'
    BY <1>i, <2>0, <2>3, SamplesStay DEF AskedInv
  <2> QED BY <2>0, <2>4, <2>5, <2>6 DEF LoopInv, VerdictInv
<1>4. CASE NextLoop
  <2>0. /\ loop # 0 /\ verdict = "running"
        /\ algebra' = algebra /\ samples' = samples
        /\ LawsHoldAt(loop, cursor)
        /\ \A v \in 1..Depth[loop] : cursor[v] = Len(samples)
    BY <1>4 DEF NextLoop
  <2>1. loop \in 1..3 /\ Len(samples) > 0 /\ cursor \in PositionsOf(loop)
    BY <1>i, <2>0 DEF TypeInv, CursorInv
  <2>2. LoopDone(loop)
    <3>1. ASSUME NEW p \in PositionsOf(loop) PROVE LawsHoldAt(loop, p)
      <4>1. Precedes(p, cursor) \/ p = cursor
        BY <1>i, <2>0, <2>1, EndIsLast
      <4> QED BY <1>i, <2>0, <4>1 DEF AskedInv
    <3> QED BY <3>1 DEF LoopDone
  <2>3. CASE loop = 3
    <3>1. verdict' = "accepted" /\ loop' = loop /\ cursor' = cursor
      BY <1>4, <2>3 DEF NextLoop
    <3>2. TypeInv' /\ CursorInv'
      BY <1>i, <2>0, <3>1, SamplesStay DEF TypeInv, CursorInv
    <3>3. AskedInv'
      BY <1>i, <2>0, <3>1, SamplesStay DEF AskedInv
    <3>4. VerdictInv'
      BY <2>0, <2>2, <2>3, <3>1, SamplesStay DEF VerdictInv
    <3> QED BY <3>2, <3>3, <3>4 DEF LoopInv
  <2>4. CASE loop # 3
    <3>1. verdict' = "running" /\ loop' = loop + 1 /\ cursor' = Start /\ loop + 1 \in 1..3
      BY <1>4, <2>0, <2>1, <2>4 DEF NextLoop
    <3>2. /\ Start \in PositionsOf(loop + 1)
          /\ \A p \in PositionsOf(loop + 1) : ~Precedes(p, Start)
      BY <1>i, <2>1, <3>1, StartIsFirst
    <3>3. TypeInv'
      BY <1>i, <2>0, <3>1 DEF TypeInv
    <3>4. CursorInv'
      BY <2>0, <2>1, <3>1, <3>2, SamplesStay DEF CursorInv
    <3>5. AskedInv'
      <4>1. \A l \in 1..3 : l < loop + 1 => LoopDone(l)
        BY <1>i, <2>1, <2>2 DEF AskedInv
      <4> QED BY <2>0, <3>1, <3>2, <4>1, SamplesStay DEF AskedInv
    <3> QED BY <3>1, <3>3, <3>4, <3>5 DEF LoopInv, VerdictInv
  <2> QED BY <2>3, <2>4
<1>5. CASE UNCHANGED vars
  <2>0. /\ algebra' = algebra /\ samples' = samples /\ loop' = loop
        /\ cursor' = cursor /\ verdict' = verdict /\ fault' = fault
    BY <1>5 DEF vars
  <2>1. TypeInv' /\ CursorInv'
    BY <1>i, <2>0, SamplesStay DEF TypeInv, CursorInv
  <2>2. AskedInv'
    BY <1>i, <2>0, SamplesStay DEF AskedInv
  <2>3. \A law, c : HoldsAt(law, c)' <=> HoldsAt(law, c)
    BY <2>0 DEF HoldsAt
  <2>4. VerdictInv'
    BY <1>i, <2>0, <2>3, SamplesStay DEF VerdictInv
  <2> QED BY <2>1, <2>2, <2>4 DEF LoopInv
<1> QED BY <1>1, <1>2, <1>3, <1>4, <1>5 DEF Next
-----------------------------------------------------------------------------
(* The properties, for every class and number of samples. *)

\* The invariant holds of every state of the checker.
LEMMA LoopInvariant == Spec => []LoopInv
BY LoopInit, LoopStep, PTL DEF Spec

\* True is only returned for samples on which join and meet are the bounds of
\* one order (LLattice.jl:101, rakumod:113-136).
THEOREM AcceptanceGivesBounds == Spec => []AcceptedAreBounds
<1>1. LoopInv => AcceptedAreBounds
  <2> SUFFICES ASSUME LoopInv, verdict = "accepted"
               PROVE  Len(samples) > 0 /\ BoundsOn(algebra, Samples)
    BY DEF AcceptedAreBounds
  <2>1. TypeInv /\ loop = 3 /\ LoopDone(3)
    BY DEF LoopInv, VerdictInv
  <2>2. LoopDone(1) /\ LoopDone(2) /\ Len(samples) > 0
    BY <2>1 DEF LoopInv, AskedInv, CursorInv
  <2>3. LawfulOn(algebra, Samples)
    BY <2>1, <2>2, DoneIsLawful
  <2>4. algebra \in Algebras /\ Samples \subseteq Carrier(algebra)
    <3>1. DOMAIN samples = 1..Len(samples)
      BY <2>1 DEF TypeInv
    <3> QED BY <2>1, <3>1 DEF TypeInv, Samples
  <2> QED BY <2>2, <2>3, <2>4, LawsGiveBounds
<1> QED BY <1>1, LoopInvariant, PTL

\* A class whose join and meet are the bounds of an order is accepted
\* (LLattice.jl:106-128, rakumod:114-135).
THEOREM LatticesAreAccepted == Spec => []LatticesPass
<1>1. LoopInv => LatticesPass
  <2> SUFFICES ASSUME LoopInv, BoundsOn(algebra, Carrier(algebra)), verdict = "rejected"
               PROVE  FALSE
    BY DEF LatticesPass
  <2>1. /\ TypeInv /\ loop # 0 /\ fault \in DOMAIN Laws[loop]
        /\ ~HoldsAt(Laws[loop][fault], cursor)
    BY DEF LoopInv, VerdictInv
  <2>2. loop \in 1..3 /\ cursor \in PositionsOf(loop) /\ algebra \in Algebras
    BY <2>1 DEF LoopInv, CursorInv, TypeInv
  <2>3. LawfulOn(algebra, Carrier(algebra))
    BY <2>2, BoundsGiveLaws
  <2>4. LawsHoldAt(loop, cursor)
    BY <2>1, <2>2, <2>3, LawfulHolds
  <2> QED BY <2>1, <2>4 DEF LawsHoldAt
<1> QED BY <1>1, LoopInvariant, PTL

\* The exception names the first law that fails (LLattice.jl:100).
THEOREM FirstIsReported == Spec => []FirstCounterexample
<1>1. LoopInv => FirstCounterexample
  <2> SUFFICES ASSUME LoopInv, verdict = "rejected" PROVE FirstCounterexample
    BY DEF FirstCounterexample
  <2>1. /\ loop \in 0..3 /\ loop # 0
        /\ ~HoldsAt(Laws[loop][fault], cursor)
        /\ \A m \in 1..fault - 1 : HoldsAt(Laws[loop][m], cursor)
    BY DEF LoopInv, TypeInv, VerdictInv
  <2>2. \A l \in 1..loop - 1 : \A p \in PositionsOf(l) : LawsHoldAt(l, p)
    BY <2>1 DEF LoopInv, AskedInv, LoopDone
  <2>3. \A p \in PositionsOf(loop) : Precedes(p, cursor) => LawsHoldAt(loop, p)
    BY <2>1 DEF LoopInv, AskedInv
  <2> QED BY <2>1, <2>2, <2>3 DEF FirstCounterexample
<1> QED BY <1>1, LoopInvariant, PTL
=============================================================================
