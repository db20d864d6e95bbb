-------------------------- MODULE ReplicationProofs --------------------------
(***************************************************************************)
(* Replicas converge, for any replicas, numbers and elements and without   *)
(* the bounds of the runs.  A Vec is merged item by item: what that fold    *)
(* comes to is by induction on the items of the operand it goes through.    *)
(***************************************************************************)
EXTENDS Replication, SequenceTheorems, FiniteSetTheorems, WellFoundedInduction, TLAPS

\* v is what the updates O come to, whatever the order they came in.
Stands(T, v, O) ==
    /\ v \in Operands(T) /\ O \subseteq Operands(T)
    /\ CASE T = "integer" -> v \in O /\ \A x \in O : x <= v
         [] T = "bool"    -> v <=> TRUE \in O
         [] T = "set"     -> v = UNION O
         [] T = "option"  -> /\ v = None <=> O \subseteq {None}
                             /\ v # None => v[1] = UNION {x[1] : x \in O \ {None}}
         [] T = "float"   -> /\ v.nan <=> O \subseteq {NaN}
                             /\ ~v.nan => /\ v \in O
                                          /\ \A x \in O : ~x.nan => x.value <= v.value

\* A Vec has the elements of the updates; their order is another matter.
Holds(v, O) ==
    /\ v \in Seq(Elements) /\ O \subseteq Vecs
    /\ Range(v) = UNION {Range(x) : x \in O}

IInv ==
    /\ type \in Types
    /\ type # "vec" =>
          /\ \A r \in Replicas : Stands(type, state[r], observed[r])
          /\ \A m \in net : Stands(type, m.state, m.observed)
    /\ type = "vec" =>
          /\ \A r \in Replicas : Holds(state[r], observed[r])
          /\ \A m \in net : Holds(m.state, m.observed)
    /\ state = [r \in Replicas |-> state[r]]
    /\ observed = [r \in Replicas |-> observed[r]]

Scalar == Types \ {"vec"}
-----------------------------------------------------------------------------
LEMMA OperandsOf ==
    /\ Operands("integer") = Numbers
    /\ Operands("bool") = BOOLEAN
    /\ Operands("set") = SUBSET Elements
    /\ Operands("option") = {None} \cup {Some(x) : x \in SUBSET Elements}
    /\ Operands("float") = Floats
    /\ Operands("vec") = Vecs
BY DEF Operands

\* A float is NaN, or it has a number.
LEMMA FloatParts ==
    ASSUME NEW x \in Floats
    PROVE  /\ x.nan \in BOOLEAN
           /\ x.nan => x = NaN
           /\ ~x.nan => x.value \in Numbers /\ x.value \in Int /\ x = Float(x.value)
<1>1. CASE x = NaN
    BY <1>1 DEF NaN
<1>2. CASE x # NaN
    <2>1. PICK n \in Numbers : x = Float(n)
        BY <1>2 DEF Floats
    <2>2. x.nan = FALSE /\ x.value = n
        BY <2>1 DEF Float
    <2> QED BY <2>1, <2>2, ImplsAssumption
<1> QED BY <1>1, <1>2

LEMMA NaNIsNaN == NaN.nan /\ NaN \in Floats
BY DEF NaN, Floats

LEMMA FloatIs ==
    ASSUME NEW n \in Numbers
    PROVE  Float(n) \in Floats /\ Float(n).nan = FALSE /\ Float(n).value = n
BY DEF Floats, Float

\* An update stands for itself.
LEMMA Alone ==
    ASSUME NEW T \in Scalar, NEW x \in Operands(T)
    PROVE  Stands(T, x, {x})
<1>1. CASE T = "integer"
    BY <1>1, OperandsOf, ImplsAssumption DEF Stands
<1>2. CASE T = "bool"
    BY <1>2, OperandsOf DEF Stands
<1>3. CASE T = "set"
    BY <1>3, OperandsOf DEF Stands
<1>4. CASE T = "option"
    <2>1. CASE x = None
        BY <1>4, <2>1 DEF Stands
    <2>2. CASE x # None
        <3>1. {y[1] : y \in {x} \ {None}} = {x[1]}
            BY <2>2
        <3> QED BY <1>4, <2>2, <3>1 DEF Stands
    <2> QED BY <2>1, <2>2
<1>5. CASE T = "float"
    <2>1. x.nan <=> {x} \subseteq {NaN}
        BY <1>5, OperandsOf, FloatParts DEF NaN
    <2>2. ~x.nan => x.value <= x.value
        BY <1>5, OperandsOf, FloatParts
    <2> QED BY <1>5, <2>1, <2>2 DEF Stands
<1> QED BY <1>1, <1>2, <1>3, <1>4, <1>5 DEF Scalar, Types, Lawful

\* Two replicas with the same updates have the same value.
LEMMA Unique ==
    ASSUME NEW T \in Scalar, NEW v, NEW w, NEW O, Stands(T, v, O), Stands(T, w, O)
    PROVE  v = w
<1>1. CASE T = "integer"
    <2>1. v \in Int /\ w \in Int /\ v <= w /\ w <= v
        BY <1>1, OperandsOf, ImplsAssumption DEF Stands
    <2> QED BY <2>1
<1>2. CASE T = "bool"
    BY <1>2, OperandsOf DEF Stands
<1>3. CASE T = "set"
    BY <1>3 DEF Stands
<1>4. CASE T = "option"
    <2>1. v = None <=> w = None
        BY <1>4 DEF Stands
    <2>2. v # None => v[1] = w[1]
        BY <1>4, <2>1 DEF Stands
    <2>3. \A x \in Operands(T) : x # None => x = <<x[1]>>
        <3>1. ASSUME NEW x \in Operands(T), x # None PROVE x = <<x[1]>>
            <4>1. PICK y \in SUBSET Elements : x = Some(y)
                BY <1>4, <3>1, OperandsOf
            <4> QED BY <4>1 DEF Some
        <3> QED BY <3>1
    <2>4. v \in Operands(T) /\ w \in Operands(T)
        BY DEF Stands
    <2> QED BY <2>1, <2>2, <2>3, <2>4
<1>5. CASE T = "float"
    <2>1. v \in Floats /\ w \in Floats /\ (v.nan <=> w.nan)
        BY <1>5, OperandsOf DEF Stands
    <2>2. ~v.nan => v.value <= w.value /\ w.value <= v.value
        BY <1>5, <2>1 DEF Stands
    <2> QED BY <2>1, <2>2, FloatParts
<1> QED BY <1>1, <1>2, <1>3, <1>4, <1>5 DEF Scalar, Types, Lawful

\* The join of two values stands for all the updates of both.
LEMMA Joined ==
    ASSUME NEW T \in Scalar, NEW v, NEW w, NEW O, NEW P, Stands(T, v, O), Stands(T, w, P)
    PROVE  Stands(T, Join(T, v, w), O \cup P)
<1>0. /\ v \in Operands(T) /\ w \in Operands(T)
      /\ O \subseteq Operands(T) /\ P \subseteq Operands(T)
    BY DEF Stands
<1>1. CASE T = "integer"
    <2>1. Numbers \subseteq Int /\ Join(T, v, w) = IF v > w THEN v ELSE w
        BY <1>1, ImplsAssumption DEF Join, NumericJoin, Larger
    <2>2. /\ v \in Int /\ w \in Int /\ O \subseteq Int /\ P \subseteq Int
          /\ v \in O /\ w \in P /\ (\A x \in O : x <= v) /\ (\A x \in P : x <= w)
        BY <1>0, <1>1, <2>1, OperandsOf DEF Stands
    <2>3. /\ Join(T, v, w) \in O \cup P /\ Join(T, v, w) \in Operands(T)
          /\ \A x \in O \cup P : x <= Join(T, v, w)
        BY <1>0, <2>1, <2>2
    <2> QED BY <1>0, <1>1, <2>3 DEF Stands
<1>2. CASE T = "bool"
    <2>1. Join(T, v, w) = (v \/ w) /\ v \in BOOLEAN /\ w \in BOOLEAN
        BY <1>0, <1>2, OperandsOf DEF Join, BoolJoin
    <2>2. (v <=> TRUE \in O) /\ (w <=> TRUE \in P)
        BY <1>2 DEF Stands
    <2>3. Join(T, v, w) \in BOOLEAN /\ (Join(T, v, w) <=> TRUE \in O \cup P)
        BY <2>1, <2>2, Zenon
    <2> QED BY <1>0, <1>2, <2>3, OperandsOf DEF Stands
<1>3. CASE T = "set"
    <2>1. Join(T, v, w) = v \cup w
        BY <1>3 DEF Join, SetJoin
    <2>2. v = UNION O /\ w = UNION P
        BY <1>3 DEF Stands
    <2>3. Join(T, v, w) \in Operands(T)
        BY <1>0, <1>3, <2>1, OperandsOf
    <2> QED BY <1>0, <1>3, <2>1, <2>2, <2>3 DEF Stands
<1>4. CASE T = "option"
    <2> DEFINE Content(Q) == UNION {x[1] : x \in Q \ {None}}
    <2>1. /\ v # None => v[1] = Content(O)
          /\ w # None => w[1] = Content(P)
        BY <1>4 DEF Stands
    <2>2. Content(O \cup P) = Content(O) \cup Content(P)
        OBVIOUS
    <2>3. Join(T, v, w) = OptionJoin(v, w)
        BY <1>4 DEF Join
    <2>4. /\ v = None <=> O \subseteq {None}
          /\ w = None <=> P \subseteq {None}
        BY <1>4 DEF Stands
    <2>5. CASE v = None /\ w = None
        BY <1>0, <1>4, <2>3, <2>4, <2>5 DEF Stands, OptionJoin
    <2>6. CASE v # None /\ w = None
        <3>1. Content(P) = {} /\ OptionJoin(v, w) = v
            BY <2>4, <2>6 DEF OptionJoin
        <3>2. ~(O \cup P \subseteq {None}) /\ v[1] = Content(O \cup P)
            BY <2>1, <2>2, <2>4, <2>6, <3>1
        <3> QED BY <1>0, <1>4, <2>3, <2>6, <3>1, <3>2 DEF Stands
    <2>7. CASE v = None /\ w # None
        <3>1. Content(O) = {} /\ OptionJoin(v, w) = w
            BY <2>4, <2>7 DEF OptionJoin
        <3>2. ~(O \cup P \subseteq {None}) /\ w[1] = Content(O \cup P)
            BY <2>1, <2>2, <2>4, <2>7, <3>1
        <3> QED BY <1>0, <1>4, <2>3, <2>7, <3>1, <3>2 DEF Stands
    <2>8. CASE v # None /\ w # None
        <3>1. OptionJoin(v, w) = Some(v[1] \cup w[1])
            BY <2>8 DEF OptionJoin, SetJoin
        <3>2. v[1] \in SUBSET Elements /\ w[1] \in SUBSET Elements
            BY <1>0, <1>4, <2>8, OperandsOf DEF Some, None
        <3>3. Some(v[1] \cup w[1]) \in Operands(T)
            BY <1>4, <3>2, OperandsOf
        <3>4. Some(v[1] \cup w[1]) # None /\ Some(v[1] \cup w[1])[1] = v[1] \cup w[1]
            BY DEF Some, None
        <3>5. ~(O \cup P \subseteq {None}) /\ v[1] \cup w[1] = Content(O \cup P)
            BY <2>1, <2>2, <2>4, <2>8
        <3> QED BY <1>0, <1>4, <2>3, <3>1, <3>3, <3>4, <3>5 DEF Stands
    <2> QED BY <2>5, <2>6, <2>7, <2>8
<1>5. CASE T = "float"
    <2>1. v \in Floats /\ w \in Floats /\ O \subseteq Floats /\ P \subseteq Floats
        BY <1>0, <1>5, OperandsOf
    <2>2. /\ v.nan <=> O \subseteq {NaN}
          /\ w.nan <=> P \subseteq {NaN}
        BY <1>5 DEF Stands
    <2>3. /\ ~v.nan => v \in O /\ \A x \in O : ~x.nan => x.value <= v.value
          /\ ~w.nan => w \in P /\ \A x \in P : ~x.nan => x.value <= w.value
        BY <1>5 DEF Stands
    <2>4. Join(T, v, w) = FloatJoin(v, w)
        BY <1>5 DEF Join
    <2> DEFINE j == FloatJoin(v, w)
    <2>5. /\ j \in Floats
          /\ j.nan <=> O \cup P \subseteq {NaN}
          /\ ~j.nan => /\ j \in O \cup P
                       /\ \A x \in O \cup P : ~x.nan => x.value <= j.value
        <3>1. CASE v.nan
            <4>1. O \subseteq {NaN} /\ \A x \in O : x.nan
                BY <2>2, <3>1, NaNIsNaN
            <4>2. j = w
                <5>1. CASE w.nan
                    <6>1. v = NaN /\ w = NaN
                        BY <2>1, <3>1, <5>1, FloatParts
                    <6> QED BY <6>1, NaNIsNaN DEF FloatJoin
                <5>2. CASE ~w.nan
                    BY <3>1, <5>2 DEF FloatJoin
                <5> QED BY <5>1, <5>2
            <4> QED BY <2>1, <2>2, <2>3, <4>1, <4>2
        <3>2. CASE ~v.nan /\ w.nan
            <4>1. j = v /\ P \subseteq {NaN} /\ \A x \in P : x.nan
                BY <2>2, <3>2, NaNIsNaN DEF FloatJoin
            <4> QED BY <2>1, <2>2, <2>3, <4>1
        <3>3. CASE ~v.nan /\ ~w.nan
            <4>1. /\ v.value \in Int /\ w.value \in Int
                  /\ v.value \in Numbers /\ w.value \in Numbers
                  /\ v = Float(v.value) /\ w = Float(w.value)
                BY <2>1, <3>3, FloatParts
            <4>2. j = IF v.value > w.value THEN v ELSE w
                BY <3>3, <4>1 DEF FloatJoin, Larger
            <4>3. /\ v.value <= j.value /\ w.value <= j.value /\ j.value \in Int
                  /\ ~j.nan /\ j \in {v, w}
                BY <3>3, <4>1, <4>2
            <4>4. \A x \in O \cup P : ~x.nan => x.value \in Int
                BY <2>1, FloatParts
            <4>5. \A x \in O \cup P : ~x.nan => x.value <= j.value
                <5>1. ASSUME NEW x \in O, ~x.nan PROVE x.value <= j.value
                    <6>1. x.value <= v.value
                        BY <2>3, <3>3, <5>1
                    <6> QED BY <4>1, <4>3, <4>4, <5>1, <6>1
                <5>2. ASSUME NEW x \in P, ~x.nan PROVE x.value <= j.value
                    <6>1. x.value <= w.value
                        BY <2>3, <3>3, <5>2
                    <6> QED BY <4>1, <4>3, <4>4, <5>2, <6>1
                <5> QED BY <5>1, <5>2
            <4>6. ~(O \cup P \subseteq {NaN})
                BY <2>2, <3>3
            <4> QED BY <2>1, <2>3, <3>3, <4>3, <4>5, <4>6
        <3> QED BY <2>1, <3>1, <3>2, <3>3, FloatParts
    <2> QED BY <1>0, <1>5, <2>4, <2>5, OperandsOf DEF Stands
<1> QED BY <1>1, <1>2, <1>3, <1>4, <1>5 DEF Scalar, Types, Lawful
-----------------------------------------------------------------------------
(* Induction, and what a fold from the left computes.  FoldLeft is a function *)
(* that CHOOSE picks by its recursive equation: the lemmas show that there   *)
(* is one, and read off the empty fold and the last step.                    *)

\* A set of numbers has a least one.
LEMMA Least ==
    ASSUME NEW T, T \subseteq Nat, T # {}
    PROVE  \E x \in T : \A y \in T : ~(y < x)
<1>1. PICK x \in T : \A y \in T : ~(<<y, x>> \in OpToRel(<, Nat))
    BY NatLessThanWellFounded, WFMin, Zenon
<1>2. ASSUME NEW y \in T, y < x PROVE FALSE
    BY <1>1, <1>2, Zenon DEF OpToRel
<1> QED BY <1>2

\* A set with 0 and every successor has every number.
LEMMA Induct ==
    ASSUME NEW S, 0 \in S, \A n \in Nat : n \in S => n + 1 \in S
    PROVE  Nat \subseteq S
<1> DEFINE T == Nat \ S
<1>1. SUFFICES ASSUME T # {} PROVE FALSE
    OBVIOUS
<1>2. PICK x \in T : \A y \in T : ~(y < x)
    BY <1>1, Least
<1>3. x - 1 \in Nat /\ x - 1 < x /\ x - 1 \in S
    BY <1>2
<1> QED BY <1>2, <1>3

LEMMA MaxIs ==
    ASSUME NEW s, NEW m \in s, s \subseteq Int, \A y \in s : y <= m
    PROVE  Max(s) = m
<1>1. \A y \in s : m >= y
    OBVIOUS
<1>2. Max(s) \in s /\ Max(s) >= m
    BY <1>1 DEF Max
<1>3. Max(s) \in Int /\ m \in Int /\ Max(s) <= m
    BY <1>2
<1> QED BY <1>2, <1>3

LEMMA MaxIn ==
    ASSUME NEW n \in Nat, NEW s \in SUBSET (1..n), s # {}
    PROVE  Max(s) \in s
<1> DEFINE T == {k \in 0..n : n - k \in s}
<1>1. PICK k \in T : \A y \in T : ~(y < k)
    <2>1. PICK x \in s : TRUE
        OBVIOUS
    <2>2. x \in 1..n /\ n - (n - x) = x /\ n - x \in 0..n
        OBVIOUS
    <2>3. n - x \in T /\ T \subseteq Nat
        BY <2>1, <2>2
    <2> HIDE DEF T
    <2> QED BY <2>3, Least
<1>2. n - k \in s /\ s \subseteq Int
    OBVIOUS
<1>3. ASSUME NEW y \in s PROVE y <= n - k
    <2>1. n - y \in T
        OBVIOUS
    <2> QED BY <1>1, <2>1
<1> QED BY <1>2, <1>3, MaxIs

\* From base on, F takes a partial result and an item to the next result.
IsStep(F, base, D, E) == base \in D /\ F \in [D \X E -> D]

\* g is the function that a fold of F over seq from base is read from.
FoldsBy(g, F, base, seq) ==
    g = [s \in SUBSET (DOMAIN seq) |->
            IF s = {} THEN base ELSE F[<<g[s \ {Max(s)}], seq[Max(s)]>>]]

LEMMA FoldExists ==
    ASSUME NEW D, NEW E, NEW F, NEW base, IsStep(F, base, D, E), NEW seq \in Seq(E)
    PROVE  \E g \in [SUBSET (DOMAIN seq) -> D] : FoldsBy(g, F, base, seq)
<1> USE DEF IsStep
<1> DEFINE Eq(g, n) == \A s \in SUBSET (1..n) :
                          g[s] = IF s = {} THEN base ELSE F[<<g[s \ {Max(s)}], seq[Max(s)]>>]
           Has(n) == n <= Len(seq) => \E g \in [SUBSET (1..n) -> D] : Eq(g, n)
           S == {n \in Nat : Has(n)}
<1> HIDE DEF Eq, Has
<1>0. 0 \in S
    <2> DEFINE g == [s \in SUBSET (1..0) |-> base]
    <2>1. g \in [SUBSET (1..0) -> D] /\ Eq(g, 0)
        BY DEF Eq
    <2> QED BY <2>1 DEF Has
<1>1. ASSUME NEW n \in Nat, n \in S PROVE n + 1 \in S
    <2> SUFFICES Has(n + 1)
        OBVIOUS
    <2> SUFFICES ASSUME n + 1 <= Len(seq)
                 PROVE  \E g \in [SUBSET (1..n+1) -> D] : Eq(g, n+1)
        BY Zenon DEF Has
    <2>1. Len(seq) \in Nat /\ n <= Len(seq) /\ seq[n+1] \in E
        OBVIOUS
    <2>2. PICK g \in [SUBSET (1..n) -> D] : Eq(g, n)
        BY <1>1, <2>1 DEF Has
    <2> DEFINE h == [s \in SUBSET (1..n+1) |->
                        IF n + 1 \in s THEN F[<<g[s \ {n+1}], seq[n+1]>>] ELSE g[s]]
    <2>3. \A s \in SUBSET (1..n+1) : /\ s \ {n+1} \in SUBSET (1..n)
                                     /\ n + 1 \notin s => s \in SUBSET (1..n)
        OBVIOUS
    <2>4. h \in [SUBSET (1..n+1) -> D]
        BY <2>1, <2>3
    <2>5. \A s \in SUBSET (1..n) : h[s] = g[s]
        OBVIOUS
    <2>6. ASSUME NEW s \in SUBSET (1..n+1)
          PROVE  h[s] = IF s = {} THEN base ELSE F[<<h[s \ {Max(s)}], seq[Max(s)]>>]
        <3>1. CASE n + 1 \in s
            <4>1. s \subseteq Int /\ \A y \in s : y <= n + 1
                OBVIOUS
            <4>2. Max(s) = n + 1
                BY <3>1, <4>1, MaxIs
            <4>3. h[s \ {n+1}] = g[s \ {n+1}]
                BY <2>3
            <4> QED BY <3>1, <4>2, <4>3
        <3>2. CASE n + 1 \notin s
            <4>1. s \in SUBSET (1..n) /\ h[s] = g[s]
                BY <2>3, <3>2
            <4>2. s # {} => h[s \ {Max(s)}] = g[s \ {Max(s)}]
                <5>1. s \ {Max(s)} \in SUBSET (1..n) /\ n + 1 \notin s \ {Max(s)}
                    BY <3>2, <4>1
                <5> HIDE DEF h
                <5> QED BY <5>1, <2>5
            <4> QED BY <2>2, <4>1, <4>2 DEF Eq
        <3> QED BY <3>1, <3>2
    <2> HIDE DEF h
    <2> QED BY <2>4, <2>6 DEF Eq
<1>2. Len(seq) \in S
    <2> HIDE DEF S
    <2> QED BY <1>0, <1>1, Induct
<1>3. DOMAIN seq = 1..Len(seq) /\ Len(seq) \in Nat
    OBVIOUS
<1>4. Has(Len(seq)) /\ Len(seq) <= Len(seq)
    BY <1>2, <1>3
<1>5. PICK g \in [SUBSET (1..Len(seq)) -> D] : Eq(g, Len(seq))
    BY <1>4, Zenon DEF Has
<1> QED BY <1>3, <1>5 DEF Eq, FoldsBy

\* v is the fold of F over seq from base: the last of its partial results p.
IsPartial(p, F, base, seq) ==
    /\ p[0] = base
    /\ \A i \in 1..Len(seq) : p[i] = F[<<p[i-1], seq[i]>>]

IsFold(v, F, base, seq) == \E p : IsPartial(p, F, base, seq) /\ v = p[Len(seq)]

LEMMA FoldType ==
    ASSUME NEW D, NEW E, NEW F, NEW base, IsStep(F, base, D, E), NEW seq \in Seq(E),
           NEW p, IsPartial(p, F, base, seq)
    PROVE  \A i \in 0..Len(seq) : p[i] \in D
<1> USE DEF IsStep
<1> DEFINE S == {n \in Nat : n <= Len(seq) => p[n] \in D}
<1>1. 0 \in S
    BY DEF IsPartial
<1>2. ASSUME NEW n \in Nat, n \in S PROVE n + 1 \in S
    <2> SUFFICES ASSUME n + 1 <= Len(seq) PROVE p[n+1] \in D
        OBVIOUS
    <2>1. Len(seq) \in Nat
        OBVIOUS
    <2>2. n + 1 \in 1..Len(seq) /\ (n + 1) - 1 = n /\ p[n] \in D /\ seq[n+1] \in E
        BY <1>2, <2>1
    <2>3. p[n+1] = F[<<p[n], seq[n+1]>>]
        BY <2>2 DEF IsPartial
    <2> QED BY <2>2, <2>3
<1>3. Nat \subseteq S
    <2> HIDE DEF S
    <2> QED BY <1>1, <1>2, Induct
<1> QED BY <1>3

\* A function that keeps to the equation wherever the types are right gives
\* the fold.
LEMMA FoldIs ==
    ASSUME NEW D, NEW E, NEW F, NEW base, IsStep(F, base, D, E), NEW seq \in Seq(E), NEW g,
           g[{}] = base,
           \A s \in SUBSET (DOMAIN seq) :
               s # {} /\ g[s \ {Max(s)}] \in D =>
                   g[s] = F[<<g[s \ {Max(s)}], seq[Max(s)]>>]
    PROVE  IsFold(g[DOMAIN seq], F, base, seq)
<1> USE DEF IsStep
<1> DEFINE p == [i \in 0..Len(seq) |-> g[1..i]]
           S == {n \in Nat : n <= Len(seq) => p[n] \in D}
<1>1. DOMAIN seq = 1..Len(seq) /\ Len(seq) \in Nat /\ 0 \in 0..Len(seq)
    OBVIOUS
<1>2. p[0] = base
    <2>1. 1..0 = {}
        OBVIOUS
    <2> QED BY <1>1, <2>1
<1>3. ASSUME NEW i \in 1..Len(seq), p[i-1] \in D PROVE p[i] = F[<<p[i-1], seq[i]>>]
    <2>1. /\ i \in Nat /\ 1 <= i /\ i <= Len(seq)
          /\ i \in 0..Len(seq) /\ i - 1 \in 0..Len(seq)
        BY <1>1
    <2>2. /\ 1..i \in SUBSET (1..Len(seq)) /\ i \in 1..i /\ 1..i \subseteq Int
          /\ \A y \in 1..i : y <= i
        BY <1>1, <2>1
    <2>3. (1..i) \ {i} = 1..(i-1)
        BY <2>1
    <2>4. Max(1..i) = i
        BY <2>2, MaxIs
    <2>5. g[1..(i-1)] = p[i-1] /\ g[1..i] = p[i]
        BY <2>1
    <2> HIDE DEF p
    <2>6. g[1..i] = F[<<g[1..(i-1)], seq[i]>>]
        BY <1>1, <1>3, <2>2, <2>3, <2>4, <2>5
    <2> QED BY <2>5, <2>6
<1>4. g[DOMAIN seq] = p[Len(seq)]
    <2>1. Len(seq) \in 0..Len(seq)
        BY <1>1
    <2> QED BY <1>1, <2>1
<1> HIDE DEF p
<1>5. 0 \in S
    BY <1>2
<1>6. ASSUME NEW n \in Nat, n \in S PROVE n + 1 \in S
    <2> SUFFICES ASSUME n + 1 <= Len(seq) PROVE p[n+1] \in D
        OBVIOUS
    <2>1. n + 1 \in 1..Len(seq) /\ (n + 1) - 1 = n /\ p[n] \in D /\ seq[n+1] \in E
        BY <1>1, <1>6
    <2>2. p[n+1] = F[<<p[n], seq[n+1]>>]
        BY <1>3, <2>1
    <2> QED BY <2>1, <2>2
<1>7. Nat \subseteq S
    <2> HIDE DEF S
    <2> QED BY <1>5, <1>6, Induct
<1>8. ASSUME NEW i \in 1..Len(seq) PROVE p[i] = F[<<p[i-1], seq[i]>>]
    <2>1. i - 1 \in Nat /\ i - 1 <= Len(seq)
        BY <1>1
    <2> QED BY <1>3, <1>7, <2>1
<1> QED BY <1>2, <1>4, <1>8 DEF IsFold, IsPartial

\* One more element is one more step.
LEMMA FoldSteps ==
    ASSUME NEW D, NEW E, NEW F, NEW base, IsStep(F, base, D, E)
    PROVE  \A seq \in Seq(E) : \A e \in E : \A v, w :
               IsFold(v, F, base, seq) /\ IsFold(w, F, base, Append(seq, e)) =>
                   v \in D /\ w = F[<<v, e>>]
<1> USE DEF IsStep
<1> SUFFICES ASSUME NEW seq \in Seq(E), NEW e \in E, NEW v, NEW w,
                    IsFold(v, F, base, seq), IsFold(w, F, base, Append(seq, e))
             PROVE  v \in D /\ w = F[<<v, e>>]
    OBVIOUS
<1> DEFINE more == Append(seq, e)
<1>1. PICK p : IsPartial(p, F, base, seq) /\ v = p[Len(seq)]
    BY DEF IsFold
<1>2. PICK q : IsPartial(q, F, base, more) /\ w = q[Len(more)]
    BY DEF IsFold
<1>3. /\ more \in Seq(E) /\ Len(seq) \in Nat /\ Len(more) = Len(seq) + 1
      /\ \A i \in 1..Len(seq) : more[i] = seq[i]
      /\ more[Len(seq) + 1] = e
    BY AppendProperties
<1> HIDE DEF more
<1> DEFINE S == {n \in Nat : n <= Len(seq) => p[n] = q[n]}
<1>4. 0 \in S
    BY <1>1, <1>2 DEF IsPartial
<1>5. ASSUME NEW n \in Nat, n \in S PROVE n + 1 \in S
    <2> SUFFICES ASSUME n + 1 <= Len(seq) PROVE p[n+1] = q[n+1]
        OBVIOUS
    <2>1. /\ n + 1 \in 1..Len(seq) /\ n + 1 \in 1..Len(more)
          /\ (n + 1) - 1 = n /\ p[n] = q[n] /\ more[n+1] = seq[n+1]
        BY <1>3, <1>5
    <2>2. p[n+1] = F[<<p[n], seq[n+1]>>] /\ q[n+1] = F[<<q[n], more[n+1]>>]
        BY <1>1, <1>2, <2>1 DEF IsPartial
    <2> QED BY <2>1, <2>2
<1>6. Nat \subseteq S
    <2> HIDE DEF S
    <2> QED BY <1>4, <1>5, Induct
<1>7. p[Len(seq)] = q[Len(seq)]
    BY <1>3, <1>6
<1>8. Len(more) \in 1..Len(more) /\ Len(more) - 1 = Len(seq)
    BY <1>3
<1>9. w = F[<<q[Len(seq)], e>>]
    BY <1>2, <1>3, <1>8 DEF IsPartial
<1>10. v \in D
    <2>1. Len(seq) \in 0..Len(seq)
        BY <1>3
    <2> QED BY <1>1, <2>1, FoldType
<1> QED BY <1>1, <1>7, <1>9, <1>10

LEMMA FoldEmpty ==
    ASSUME NEW F, NEW base, NEW v, IsFold(v, F, base, <<>>)
    PROVE  v = base
BY DEF IsFold, IsPartial

\* A set with the empty sequence, and with every longer one, has them all.
LEMMA SeqInduct ==
    ASSUME NEW E, NEW S, <<>> \in S,
           \A s \in Seq(E) : s \in S => \A e \in E : Append(s, e) \in S
    PROVE  Seq(E) \subseteq S
<1> DEFINE T == {n \in Nat : \A s \in Seq(E) : Len(s) = n => s \in S}
<1>1. 0 \in T
    BY EmptySeq
<1>2. ASSUME NEW n \in Nat, n \in T PROVE n + 1 \in T
    <2> SUFFICES ASSUME NEW s \in Seq(E), Len(s) = n + 1 PROVE s \in S
        OBVIOUS
    <2>1. PICK r \in Seq(E), e \in E : s = Append(r, e)
        BY SequenceEmptyOrAppend, EmptySeq
    <2>2. Len(r) = n
        BY <2>1, AppendProperties, LenProperties
    <2> QED BY <1>2, <2>1, <2>2
<1>3. Nat \subseteq T
    <2> HIDE DEF T
    <2> QED BY <1>1, <1>2, Induct
<1> QED BY <1>3, LenProperties
-----------------------------------------------------------------------------
(* Vec: what join and meet do to one more item of the operand they go through. *)

MeetStep(y) == [a \in Seq(Elements) \X Elements |->
                  IF a[2] \in Range(y) THEN Append(a[1], a[2]) ELSE a[1]]

JoinStep == [a \in Seq(Elements) \X Elements |->
                IF a[2] \in Range(a[1]) THEN a[1] ELSE Append(a[1], a[2])]

LEMMA ItemOf ==
    ASSUME NEW E, NEW y \in Seq(E), NEW s \in SUBSET (DOMAIN y), s # {}
    PROVE  y[Max(s)] \in E /\ s \ {Max(s)} \in SUBSET (DOMAIN y)
<1>1. DOMAIN y = 1..Len(y) /\ Len(y) \in Nat
    OBVIOUS
<1>2. Max(s) \in 1..Len(y)
    BY <1>1, MaxIn
<1> QED BY <1>1, <1>2

LEMMA VecJoinFolds ==
    ASSUME NEW x \in Seq(Elements), NEW y \in Seq(Elements)
    PROVE  IsFold(VecJoin(x, y), JoinStep, x, y)
<1> DEFINE Eq(g) == g = [s \in SUBSET (DOMAIN y) |->
                            IF s = {} THEN x
                            ELSE IF y[Max(s)] \in Range(g[s \ {Max(s)}]) THEN g[s \ {Max(s)}]
                                 ELSE Append(g[s \ {Max(s)}], y[Max(s)])]
           iter == CHOOSE g : Eq(g)
<1>1. IsStep(JoinStep, x, Seq(Elements), Elements)
    BY DEF JoinStep, IsStep
<1>2. ASSUME NEW g \in [SUBSET (DOMAIN y) -> Seq(Elements)]
      PROVE  Eq(g) <=> FoldsBy(g, JoinStep, x, y)
    <2>1. ASSUME NEW s \in SUBSET (DOMAIN y), s # {}
          PROVE  g[s \ {Max(s)}] \in Seq(Elements) /\ y[Max(s)] \in Elements
        BY <2>1, ItemOf
    <2> QED BY <2>1 DEF FoldsBy, JoinStep
<1>3. \E g \in [SUBSET (DOMAIN y) -> Seq(Elements)] : Eq(g)
    BY <1>1, <1>2, FoldExists
<1>4. Eq(iter)
    BY <1>3, Zenon
<1>5. VecJoin(x, y) = iter[DOMAIN y]
    BY Zenon DEF VecJoin, FoldLeft, MapThenFoldSet
<1> HIDE DEF iter
<1>6. iter[{}] = x
    BY <1>4
<1>7. ASSUME NEW s \in SUBSET (DOMAIN y), s # {}, iter[s \ {Max(s)}] \in Seq(Elements)
      PROVE  iter[s] = JoinStep[<<iter[s \ {Max(s)}], y[Max(s)]>>]
    <2>1. y[Max(s)] \in Elements
        BY <1>7, ItemOf
    <2> QED BY <1>4, <1>7, <2>1 DEF JoinStep
<1>8. IsFold(iter[DOMAIN y], JoinStep, x, y)
    BY <1>1, <1>6, <1>7, FoldIs
<1> QED BY <1>5, <1>8

LEMMA VecMeetFolds ==
    ASSUME NEW x \in Seq(Elements), NEW y \in Seq(Elements)
    PROVE  IsFold(VecMeet(x, y), MeetStep(y), <<>>, x)
<1> DEFINE Eq(g) == g = [s \in SUBSET (DOMAIN x) |->
                            IF s = {} THEN <<>>
                            ELSE IF x[Max(s)] \in Range(y)
                                 THEN Append(g[s \ {Max(s)}], x[Max(s)]) ELSE g[s \ {Max(s)}]]
           iter == CHOOSE g : Eq(g)
<1>1. IsStep(MeetStep(y), <<>>, Seq(Elements), Elements)
    BY DEF MeetStep, IsStep
<1>2. ASSUME NEW g \in [SUBSET (DOMAIN x) -> Seq(Elements)]
      PROVE  Eq(g) <=> FoldsBy(g, MeetStep(y), <<>>, x)
    <2>1. ASSUME NEW s \in SUBSET (DOMAIN x), s # {}
          PROVE  g[s \ {Max(s)}] \in Seq(Elements) /\ x[Max(s)] \in Elements
        BY <2>1, ItemOf
    <2> QED BY <2>1 DEF FoldsBy, MeetStep
<1>3. \E g \in [SUBSET (DOMAIN x) -> Seq(Elements)] : Eq(g)
    BY <1>1, <1>2, FoldExists
<1>4. Eq(iter)
    BY <1>3, Zenon
<1>5. VecMeet(x, y) = iter[DOMAIN x]
    BY Zenon DEF VecMeet, FoldLeft, MapThenFoldSet
<1> HIDE DEF iter
<1>6. iter[{}] = <<>>
    BY <1>4
<1>7. ASSUME NEW s \in SUBSET (DOMAIN x), s # {}, iter[s \ {Max(s)}] \in Seq(Elements)
      PROVE  iter[s] = MeetStep(y)[<<iter[s \ {Max(s)}], x[Max(s)]>>]
    <2>1. x[Max(s)] \in Elements
        BY <1>7, ItemOf
    <2> QED BY <1>4, <1>7, <2>1 DEF MeetStep
<1>8. IsFold(iter[DOMAIN x], MeetStep(y), <<>>, x)
    BY <1>1, <1>6, <1>7, FoldIs
<1> QED BY <1>5, <1>8

\* One more item of the right operand.
LEMMA VecJoinOf ==
    ASSUME NEW x \in Seq(Elements)
    PROVE  /\ VecJoin(x, <<>>) = x
           /\ \A y \in Seq(Elements) :
                 /\ VecJoin(x, y) \in Seq(Elements)
                 /\ \A e \in Elements :
                       VecJoin(x, Append(y, e)) = IF e \in Range(VecJoin(x, y)) THEN VecJoin(x, y)
                                                 ELSE Append(VecJoin(x, y), e)
<1>1. IsStep(JoinStep, x, Seq(Elements), Elements)
    BY DEF JoinStep, IsStep
<1>2. VecJoin(x, <<>>) = x
    BY VecJoinFolds, FoldEmpty, EmptySeq
<1>3. ASSUME NEW y \in Seq(Elements), NEW e \in Elements
      PROVE  VecJoin(x, Append(y, e)) = JoinStep[<<VecJoin(x, y), e>>]
    <2>1. /\ IsFold(VecJoin(x, y), JoinStep, x, y)
          /\ IsFold(VecJoin(x, Append(y, e)), JoinStep, x, Append(y, e))
        BY VecJoinFolds, AppendProperties
    <2>2. \A s \in Seq(Elements) : \A i \in Elements : \A v, w :
              IsFold(v, JoinStep, x, s) /\ IsFold(w, JoinStep, x, Append(s, i)) =>
                  w = JoinStep[<<v, i>>]
        BY <1>1, FoldSteps
    <2> QED BY <2>1, <2>2, Zenon
<1>4. ASSUME NEW y \in Seq(Elements) PROVE VecJoin(x, y) \in Seq(Elements)
    <2>1. PICK p : IsPartial(p, JoinStep, x, y) /\ VecJoin(x, y) = p[Len(y)]
        BY VecJoinFolds DEF IsFold
    <2>2. \A i \in 0..Len(y) : p[i] \in Seq(Elements)
        BY <1>1, <2>1, FoldType
    <2>3. Len(y) \in 0..Len(y)
        OBVIOUS
    <2> QED BY <2>1, <2>2, <2>3
<1> QED BY <1>2, <1>3, <1>4 DEF JoinStep

\* One more item of the left operand.
LEMMA VecMeetOf ==
    ASSUME NEW y \in Seq(Elements)
    PROVE  /\ VecMeet(<<>>, y) = <<>>
           /\ \A x \in Seq(Elements) :
                 /\ VecMeet(x, y) \in Seq(Elements)
                 /\ \A e \in Elements :
                       VecMeet(Append(x, e), y) = IF e \in Range(y) THEN Append(VecMeet(x, y), e)
                                                 ELSE VecMeet(x, y)
<1>1. IsStep(MeetStep(y), <<>>, Seq(Elements), Elements)
    BY DEF MeetStep, IsStep
<1>2. VecMeet(<<>>, y) = <<>>
    BY VecMeetFolds, FoldEmpty, EmptySeq
<1>3. ASSUME NEW x \in Seq(Elements), NEW e \in Elements
      PROVE  VecMeet(Append(x, e), y) = MeetStep(y)[<<VecMeet(x, y), e>>]
    <2>1. /\ IsFold(VecMeet(x, y), MeetStep(y), <<>>, x)
          /\ IsFold(VecMeet(Append(x, e), y), MeetStep(y), <<>>, Append(x, e))
        BY VecMeetFolds, AppendProperties
    <2>2. \A s \in Seq(Elements) : \A i \in Elements : \A v, w :
              IsFold(v, MeetStep(y), <<>>, s) /\ IsFold(w, MeetStep(y), <<>>, Append(s, i)) =>
                  w = MeetStep(y)[<<v, i>>]
        BY <1>1, FoldSteps
    <2> QED BY <2>1, <2>2, Zenon
<1>4. ASSUME NEW x \in Seq(Elements) PROVE VecMeet(x, y) \in Seq(Elements)
    <2>1. PICK p : IsPartial(p, MeetStep(y), <<>>, x) /\ VecMeet(x, y) = p[Len(x)]
        BY VecMeetFolds DEF IsFold
    <2>2. \A i \in 0..Len(x) : p[i] \in Seq(Elements)
        BY <1>1, <2>1, FoldType
    <2>3. Len(x) \in 0..Len(x)
        OBVIOUS
    <2> QED BY <2>1, <2>2, <2>3
<1> QED BY <1>2, <1>3, <1>4 DEF MeetStep

LEMMA OneMore ==
    ASSUME NEW s \in Seq(Elements), NEW e \in Elements
    PROVE  /\ Append(s, e) \in Seq(Elements)
           /\ Range(Append(s, e)) = Range(s) \cup {e}
           /\ IsPrefix(s, Append(s, e))
           /\ \A r \in Seq(Elements) : IsPrefix(r, s) => IsPrefix(r, Append(s, e))
<1> DEFINE t == Append(s, e)
<1>1. /\ t \in Seq(Elements) /\ Len(s) \in Nat /\ Len(t) = Len(s) + 1
      /\ \A i \in 1..Len(s) : t[i] = s[i]
      /\ t[Len(s) + 1] = e
      /\ DOMAIN s = 1..Len(s) /\ DOMAIN t = 1..Len(t)
    BY AppendProperties, LenProperties
<1> HIDE DEF t
<1>2. Range(t) = Range(s) \cup {e}
    <2>1. DOMAIN t = DOMAIN s \cup {Len(s) + 1}
        BY <1>1
    <2>2. \A i \in DOMAIN s : t[i] = s[i]
        BY <1>1
    <2> QED BY <1>1, <2>1, <2>2 DEF Range
<1>3. ASSUME NEW r \in Seq(Elements), IsPrefix(r, s) PROVE IsPrefix(r, t)
    <2>1. Len(r) \in Nat /\ Len(r) <= Len(s)
        BY <1>3 DEF IsPrefix
    <2>2. SubSeq(t, 1, Len(r)) = SubSeq(s, 1, Len(r))
        BY <1>1, <2>1
    <2> QED BY <1>1, <1>3, <2>1, <2>2 DEF IsPrefix
<1>4. IsPrefix(s, s)
    BY DEF IsPrefix
<1> QED BY <1>1, <1>2, <1>3, <1>4 DEF t

LEMMA NoneAtAll == <<>> \in Seq(Elements) /\ Range(<<>>) = {}
BY EmptySeq DEF Range

LEMMA CountOne ==
    ASSUME NEW s \in Seq(Elements), NEW e \in Elements
    PROVE  \A i : Count(Append(s, e), i) = IF i = e THEN Count(s, i) + 1 ELSE Count(s, i)
<1> DEFINE t == Append(s, e)
           At(x, i) == {n \in DOMAIN x : x[n] = i}
<1>1. /\ Len(s) \in Nat /\ DOMAIN s = 1..Len(s) /\ DOMAIN t = DOMAIN s \cup {Len(s) + 1}
      /\ \A n \in DOMAIN s : t[n] = s[n]
      /\ t[Len(s) + 1] = e
    BY AppendProperties, LenProperties
<1> HIDE DEF t
<1> SUFFICES ASSUME NEW i
             PROVE  Count(t, i) = IF i = e THEN Count(s, i) + 1 ELSE Count(s, i)
    BY DEF t
<1>2. IsFiniteSet(At(s, i))
    <2>1. IsFiniteSet(1..Len(s)) /\ At(s, i) \subseteq 1..Len(s)
        BY <1>1, FS_Interval
    <2> HIDE DEF At
    <2> QED BY <2>1, FS_Subset
<1>3. Len(s) + 1 \notin At(s, i)
    BY <1>1
<1>4. CASE i = e
    <2>1. At(t, i) = At(s, i) \cup {Len(s) + 1}
        BY <1>1, <1>4
    <2> HIDE DEF At
    <2>2. Cardinality(At(t, i)) = Cardinality(At(s, i)) + 1
        BY <1>2, <1>3, <2>1, FS_AddElement
    <2> QED BY <1>4, <2>2 DEF Count, At
<1>5. CASE i # e
    <2>1. At(t, i) = At(s, i)
        BY <1>1, <1>5
    <2> QED BY <1>5, <2>1 DEF Count
<1> QED BY <1>4, <1>5

\* What join and meet make of two Vecs.
LEMMA VecJoinMakes ==
    ASSUME NEW x \in Seq(Elements), NEW y \in Seq(Elements)
    PROVE  /\ VecJoin(x, y) \in Seq(Elements)
           /\ Range(VecJoin(x, y)) = Range(x) \cup Range(y)
           /\ IsPrefix(x, VecJoin(x, y))
           /\ Range(y) \subseteq Range(x) => VecJoin(x, y) = x
<1> DEFINE S == {s \in Seq(Elements) : /\ Range(VecJoin(x, s)) = Range(x) \cup Range(s)
                                       /\ IsPrefix(x, VecJoin(x, s))
                                       /\ Range(s) \subseteq Range(x) => VecJoin(x, s) = x}
<1>1. <<>> \in S
    BY VecJoinOf, NoneAtAll DEF IsPrefix
<1>2. ASSUME NEW s \in Seq(Elements), s \in S, NEW e \in Elements PROVE Append(s, e) \in S
    <2> DEFINE j == VecJoin(x, s)
               t == Append(s, e)
    <2>1. /\ j \in Seq(Elements) /\ Range(j) = Range(x) \cup Range(s) /\ IsPrefix(x, j)
          /\ Range(s) \subseteq Range(x) => j = x
          /\ VecJoin(x, t) = IF e \in Range(j) THEN j ELSE Append(j, e)
        BY <1>2, VecJoinOf
    <2>2. t \in Seq(Elements) /\ Range(t) = Range(s) \cup {e}
        BY OneMore
    <2>3. Range(Append(j, e)) = Range(j) \cup {e} /\ IsPrefix(x, Append(j, e))
        BY <2>1, OneMore
    <2> HIDE DEF j, t
    <2>4. t \in S
        BY <2>1, <2>2, <2>3
    <2> QED BY <2>4 DEF t
<1>3. Seq(Elements) \subseteq S
    <2> HIDE DEF S
    <2> QED BY <1>1, <1>2, SeqInduct
<1> QED BY <1>3, VecJoinOf

LEMMA VecJoinCounts ==
    ASSUME NEW x \in Seq(Elements), NEW y \in Seq(Elements), NEW i \in Elements
    PROVE  Count(VecJoin(x, y), i) = IF i \in Range(x) THEN Count(x, i)
                                     ELSE IF i \in Range(y) THEN 1 ELSE 0
<1> DEFINE Right(s) == Count(VecJoin(x, s), i) = IF i \in Range(x) THEN Count(x, i)
                                                 ELSE IF i \in Range(s) THEN 1 ELSE 0
           S == {s \in Seq(Elements) : Right(s)}
<1>1. <<>> \in S
    <2>1. ASSUME i \notin Range(x) PROVE Count(x, i) = 0
        <3>1. {n \in DOMAIN x : x[n] = i} = {}
            BY <2>1 DEF Range
        <3> QED BY <3>1, FS_EmptySet DEF Count
    <2> QED BY <2>1, VecJoinOf, NoneAtAll
<1>2. ASSUME NEW s \in Seq(Elements), s \in S, NEW e \in Elements PROVE Append(s, e) \in S
    <2> DEFINE j == VecJoin(x, s)
               t == Append(s, e)
    <2>1. /\ j \in Seq(Elements) /\ Range(j) = Range(x) \cup Range(s)
          /\ VecJoin(x, t) = IF e \in Range(j) THEN j ELSE Append(j, e)
        BY VecJoinOf, VecJoinMakes
    <2>2. t \in Seq(Elements) /\ Range(t) = Range(s) \cup {e}
        BY OneMore
    <2>3. Count(j, i) = IF i \in Range(x) THEN Count(x, i) ELSE IF i \in Range(s) THEN 1 ELSE 0
        BY <1>2
    <2>4. Count(Append(j, e), i) = IF i = e THEN Count(j, i) + 1 ELSE Count(j, i)
        BY <2>1, CountOne
    <2> HIDE DEF j, t
    <2>5. Right(t)
        BY <2>1, <2>2, <2>3, <2>4
    <2> QED BY <2>2, <2>5 DEF t
<1>3. Seq(Elements) \subseteq S
    <2> HIDE DEF S
    <2> QED BY <1>1, <1>2, SeqInduct
<1> QED BY <1>3

LEMMA VecMeetMakes ==
    ASSUME NEW x \in Seq(Elements), NEW y \in Seq(Elements)
    PROVE  /\ VecMeet(x, y) \in Seq(Elements)
           /\ Range(VecMeet(x, y)) = Range(x) \cap Range(y)
           /\ Range(x) \subseteq Range(y) => VecMeet(x, y) = x
<1> DEFINE S == {s \in Seq(Elements) : /\ Range(VecMeet(s, y)) = Range(s) \cap Range(y)
                                       /\ Range(s) \subseteq Range(y) => VecMeet(s, y) = s}
<1>1. <<>> \in S
    BY VecMeetOf, NoneAtAll
<1>2. ASSUME NEW s \in Seq(Elements), s \in S, NEW e \in Elements PROVE Append(s, e) \in S
    <2> DEFINE m == VecMeet(s, y)
               t == Append(s, e)
    <2>1. /\ m \in Seq(Elements) /\ Range(m) = Range(s) \cap Range(y)
          /\ Range(s) \subseteq Range(y) => m = s
          /\ VecMeet(t, y) = IF e \in Range(y) THEN Append(m, e) ELSE m
        BY <1>2, VecMeetOf
    <2>2. t \in Seq(Elements) /\ Range(t) = Range(s) \cup {e}
        BY OneMore
    <2>3. Range(Append(m, e)) = Range(m) \cup {e} /\ (m = s => Append(m, e) = t)
        BY <2>1, OneMore
    <2> HIDE DEF m, t
    <2>4. t \in S
        BY <2>1, <2>2, <2>3
    <2> QED BY <2>4 DEF t
<1>3. Seq(Elements) \subseteq S
    <2> HIDE DEF S
    <2> QED BY <1>1, <1>2, SeqInduct
<1> QED BY <1>3, VecMeetOf

LEMMA VecJoinAssociates ==
    ASSUME NEW x \in Seq(Elements), NEW y \in Seq(Elements), NEW z \in Seq(Elements)
    PROVE  VecJoin(VecJoin(x, y), z) = VecJoin(x, VecJoin(y, z))
<1> DEFINE j == VecJoin(x, y)
           S == {s \in Seq(Elements) : VecJoin(j, s) = VecJoin(x, VecJoin(y, s))}
<1>0. j \in Seq(Elements) /\ Range(j) = Range(x) \cup Range(y)
    BY VecJoinMakes
<1>1. <<>> \in S
    BY <1>0, VecJoinOf, NoneAtAll
<1>2. ASSUME NEW s \in Seq(Elements), s \in S, NEW e \in Elements PROVE Append(s, e) \in S
    <2> DEFINE t == Append(s, e)
               k == VecJoin(y, s)
               a == VecJoin(j, s)
    <2> HIDE DEF j
    <2>1. /\ k \in Seq(Elements) /\ Range(k) = Range(y) \cup Range(s)
          /\ a \in Seq(Elements) /\ Range(a) = Range(j) \cup Range(s) /\ a = VecJoin(x, k)
        BY <1>0, <1>2, VecJoinMakes
    <2>2. VecJoin(j, t) = IF e \in Range(a) THEN a ELSE Append(a, e)
        BY <1>0, VecJoinOf
    <2>3. VecJoin(y, t) = IF e \in Range(k) THEN k ELSE Append(k, e)
        BY VecJoinOf
    <2>4. t \in Seq(Elements)
        BY OneMore
    <2> HIDE DEF t, k, a
    <2>5. VecJoin(x, Append(k, e)) = IF e \in Range(a) THEN a ELSE Append(a, e)
        BY <2>1, VecJoinOf
    <2>6. VecJoin(j, t) = VecJoin(x, VecJoin(y, t))
        <3>1. e \in Range(k) => e \in Range(a)
            BY <1>0, <2>1
        <3> QED BY <2>1, <2>2, <2>3, <2>5, <3>1
    <2> QED BY <2>4, <2>6 DEF t
<1>3. Seq(Elements) \subseteq S
    <2> HIDE DEF S
    <2> QED BY <1>1, <1>2, SeqInduct
<1> QED BY <1>3

LEMMA VecMeetAssociates ==
    ASSUME NEW x \in Seq(Elements), NEW y \in Seq(Elements), NEW z \in Seq(Elements)
    PROVE  VecMeet(VecMeet(x, y), z) = VecMeet(x, VecMeet(y, z))
<1> DEFINE m == VecMeet(y, z)
           S == {s \in Seq(Elements) : VecMeet(VecMeet(s, y), z) = VecMeet(s, m)}
<1>0. m \in Seq(Elements) /\ Range(m) = Range(y) \cap Range(z)
    BY VecMeetMakes
<1>1. <<>> \in S
    BY <1>0, VecMeetOf, NoneAtAll
<1>2. ASSUME NEW s \in Seq(Elements), s \in S, NEW e \in Elements PROVE Append(s, e) \in S
    <2> DEFINE t == Append(s, e)
               k == VecMeet(s, y)
               a == VecMeet(k, z)
    <2> HIDE DEF m
    <2>1. k \in Seq(Elements) /\ a = VecMeet(s, m)
        BY <1>2, VecMeetOf
    <2>2. VecMeet(t, m) = IF e \in Range(m) THEN Append(a, e) ELSE a
        BY <1>0, <2>1, VecMeetOf
    <2>3. VecMeet(t, y) = IF e \in Range(y) THEN Append(k, e) ELSE k
        BY VecMeetOf
    <2>4. t \in Seq(Elements)
        BY OneMore
    <2>5. VecMeet(Append(k, e), z) = IF e \in Range(z) THEN Append(a, e) ELSE a
        BY <2>1, VecMeetOf
    <2>6. VecMeet(k, z) = a
        OBVIOUS
    <2> HIDE DEF t, k, a
    <2>7. VecMeet(VecMeet(t, y), z) = VecMeet(t, m)
        <3>1. CASE e \in Range(y)
            <4>1. e \in Range(m) <=> e \in Range(z)
                BY <1>0, <3>1
            <4>2. VecMeet(t, y) = Append(k, e)
                BY <2>3, <3>1
            <4> QED BY <2>2, <2>5, <4>1, <4>2
        <3>2. CASE e \notin Range(y)
            <4>1. e \notin Range(m)
                BY <1>0, <3>2
            <4>2. VecMeet(t, y) = k
                BY <2>3, <3>2
            <4> QED BY <2>2, <2>6, <4>1, <4>2
        <3> QED BY <3>1, <3>2
    <2> QED BY <2>4, <2>7 DEF t
<1>3. Seq(Elements) \subseteq S
    <2> HIDE DEF S
    <2> QED BY <1>1, <1>2, SeqInduct
<1> QED BY <1>3
-----------------------------------------------------------------------------
LEMMA TypeIsScalar == ASSUME type \in Types, type # "vec" PROVE type \in Scalar
BY DEF Scalar

\* A Vec operand holds itself, and the join of two Vecs what both hold.
LEMMA VecsAreSeqs == Vecs \subseteq Seq(Elements)
<1>1. ASSUME NEW v \in Vecs PROVE v \in Seq(Elements)
    <2>1. PICK n \in 0..VecBound : v \in [1..n -> Elements]
        BY DEF Vecs
    <2>2. n \in Nat
        BY ImplsAssumption
    <2> QED BY <2>1, <2>2
<1> QED BY <1>1

LEMMA AloneHolds == ASSUME NEW x \in Vecs PROVE Holds(x, {x})
BY VecsAreSeqs DEF Holds

LEMMA JoinedHolds ==
    ASSUME NEW v, NEW w, NEW O, NEW P, Holds(v, O), Holds(w, P)
    PROVE  Holds(VecJoin(v, w), O \cup P)
<1>1. v \in Seq(Elements) /\ w \in Seq(Elements) /\ O \subseteq Vecs /\ P \subseteq Vecs
    BY DEF Holds
<1>2. Range(v) = UNION {Range(x) : x \in O} /\ Range(w) = UNION {Range(x) : x \in P}
    BY DEF Holds
<1>3. VecJoin(v, w) \in Seq(Elements) /\ Range(VecJoin(v, w)) = Range(v) \cup Range(w)
    BY <1>1, VecJoinMakes
<1>4. UNION {Range(x) : x \in O \cup P} =
          (UNION {Range(x) : x \in O}) \cup (UNION {Range(x) : x \in P})
    OBVIOUS
<1>5. Range(VecJoin(v, w)) = UNION {Range(x) : x \in O \cup P}
    BY <1>2, <1>3, <1>4, Zenon
<1> QED BY <1>1, <1>3, <1>5 DEF Holds

LEMMA InitIInv == Init => IInv
<1> SUFFICES ASSUME Init PROVE IInv
    OBVIOUS
<1>1. /\ state = [r \in Replicas |-> state[r]]
      /\ observed = [r \in Replicas |-> observed[r]] /\ type \in Types /\ net = {}
      /\ \A r \in Replicas : state[r] \in Operands(type) /\ observed[r] = {state[r]}
    BY DEF Init
<1>2. ASSUME type # "vec", NEW r \in Replicas PROVE Stands(type, state[r], observed[r])
    BY <1>1, <1>2, TypeIsScalar, Alone
<1>3. ASSUME type = "vec", NEW r \in Replicas PROVE Holds(state[r], observed[r])
    BY <1>1, <1>3, OperandsOf, AloneHolds
<1> QED BY <1>1, <1>2, <1>3 DEF IInv

\* A replica whose value is joined with one that stands for some updates.
LEMMA StepOf ==
    ASSUME IInv, type' = type, NEW r \in Replicas, NEW w, NEW P,
           type # "vec" => Stands(type, w, P),
           type = "vec" => Holds(w, P),
           state' = [state EXCEPT ![r] = Join(type, @, w)],
           observed' = [observed EXCEPT ![r] = @ \cup P],
           net' = net
    PROVE  IInv'
<1>1. /\ state' = [s \in Replicas |-> state'[s]]
      /\ observed' = [s \in Replicas |-> observed'[s]]
      /\ state'[r] = Join(type, state[r], w) /\ observed'[r] = observed[r] \cup P
      /\ \A s \in Replicas : s # r => state'[s] = state[s] /\ observed'[s] = observed[s]
    BY DEF IInv
<1>2. ASSUME type # "vec", NEW s \in Replicas PROVE Stands(type, state'[s], observed'[s])
    <2>1. type \in Scalar /\ Stands(type, state[s], observed[s])
        BY <1>2, TypeIsScalar DEF IInv
    <2>2. CASE s = r
        BY <1>1, <1>2, <2>1, <2>2, Joined
    <2>3. CASE s # r
        BY <1>1, <2>1, <2>3
    <2> QED BY <2>2, <2>3
<1>3. ASSUME type = "vec", NEW s \in Replicas PROVE Holds(state'[s], observed'[s])
    <2>1. Holds(state[s], observed[s]) /\ Join(type, state[s], w) = VecJoin(state[s], w)
        BY <1>3 DEF IInv, Join
    <2>2. CASE s = r
        BY <1>1, <1>3, <2>1, <2>2, JoinedHolds
    <2>3. CASE s # r
        BY <1>1, <2>1, <2>3
    <2> QED BY <2>2, <2>3
<1> QED BY <1>1, <1>2, <1>3 DEF IInv

LEMMA NextIInv == IInv /\ [Next]_vars => IInv'
<1> SUFFICES ASSUME IInv, [Next]_vars PROVE IInv'
    OBVIOUS
<1>1. ASSUME NEW r \in Replicas, NEW x \in Operands(type), Update(r, x) PROVE IInv'
    <2>1. type # "vec" => Stands(type, x, {x})
        BY TypeIsScalar, Alone DEF IInv
    <2>2. type = "vec" => Holds(x, {x})
        BY OperandsOf, AloneHolds
    <2> QED BY <1>1, <2>1, <2>2, StepOf DEF Update
<1>2. ASSUME NEW r \in Replicas, Send(r) PROVE IInv'
    BY <1>2 DEF Send, IInv
<1>3. ASSUME NEW r \in Replicas, NEW m \in net, Merge(r, m) PROVE IInv'
    <2>1. /\ type # "vec" => Stands(type, m.state, m.observed)
          /\ type = "vec" => Holds(m.state, m.observed)
        BY DEF IInv
    <2> QED BY <1>3, <2>1, StepOf DEF Merge
<1>4. CASE UNCHANGED vars
    BY <1>4 DEF vars, IInv
<1> QED BY <1>1, <1>2, <1>3, <1>4 DEF Next

LEMMA AlwaysIInv == Spec => []IInv
BY InitIInv, NextIInv, PTL DEF Spec

\* A state is a value of its type, a Vec of any length, and stands for
\* operands of that type (lib.rs:104-217).
THEOREM TypeCorrect == Spec => []TypeOK
<1>1. IInv => TypeOK
    <2> SUFFICES ASSUME IInv PROVE TypeOK
        OBVIOUS
    <2> DEFINE Value == IF type = "vec" THEN Seq(Elements) ELSE Operands(type)
    <2>1. \A r \in Replicas : state[r] \in Value /\ observed[r] \in SUBSET Operands(type)
        BY OperandsOf DEF IInv, Stands, Holds
    <2>2. \A m \in net : m.observed \subseteq Operands(type)
        BY OperandsOf DEF IInv, Stands, Holds
    <2>3. type \in Types
        BY DEF IInv
    <2> HIDE DEF Value
    <2>4. state \in [Replicas -> Value] /\ observed \in [Replicas -> SUBSET Operands(type)]
        BY <2>1 DEF IInv
    <2> QED BY <2>2, <2>3, <2>4 DEF TypeOK, Value
<1> QED BY <1>1, AlwaysIInv, PTL

\* Replicas that have observed the same updates compare equal under ==, unless
\* they have seen nothing but NaN; Vecs have the same elements; for any number of
\* replicas, updates and messages (lib.rs:40-47, 56-58, 104-210).
THEOREM ReplicasConverge == Spec => []Converges
<1>1. IInv => Converges
    <2> SUFFICES ASSUME IInv, NEW r \in Replicas, NEW s \in Replicas,
                        observed[r] = observed[s]
                 PROVE  IF type = "vec" THEN Range(state[r]) = Range(state[s])
                        ELSE Equal(type, state[r], state[s])
                                <=> ~(type = "float" /\ observed[r] \subseteq {NaN})
        BY DEF Converges
    <2>1. CASE type # "vec"
        <3>1. /\ type \in Scalar
              /\ Stands(type, state[r], observed[r]) /\ Stands(type, state[s], observed[s])
            BY <2>1, TypeIsScalar DEF IInv
        <3>2. state[r] = state[s]
            BY <3>1, Unique
        <3>3. type = "float" => (state[r].nan <=> observed[r] \subseteq {NaN})
            BY <3>1 DEF Stands
        <3> QED BY <2>1, <3>2, <3>3 DEF Equal
    <2>2. CASE type = "vec"
        BY <2>2 DEF IInv, Holds
    <2> QED BY <2>1, <2>2
<1> QED BY <1>1, AlwaysIInv, PTL

\* A Vec is merged like a HashSet up to the order of its items and keeps how
\* often each occurs, for Vecs of any length (lib.rs:198-217).
THEOREM VecsAreBiasedSets == Spec => []VecIsABiasedSet
<1>1. IInv => VecIsABiasedSet
    <2> SUFFICES ASSUME IInv, type = "vec", NEW r \in Replicas, NEW y \in Vecs
                 PROVE  /\ Range(VecJoin(state[r], y)) = SetJoin(Range(state[r]), Range(y))
                        /\ Range(VecMeet(state[r], y)) = SetMeet(Range(state[r]), Range(y))
                        /\ \A e \in Elements :
                              Count(VecJoin(state[r], y), e) =
                                  IF e \in Range(state[r]) THEN Count(state[r], e)
                                  ELSE IF e \in Range(y) THEN 1 ELSE 0
        BY DEF VecIsABiasedSet
    <2>1. state[r] \in Seq(Elements) /\ y \in Seq(Elements)
        BY VecsAreSeqs DEF IInv, Holds
    <2>2. /\ Range(VecJoin(state[r], y)) = Range(state[r]) \cup Range(y)
          /\ Range(VecMeet(state[r], y)) = Range(state[r]) \cap Range(y)
        BY <2>1, VecJoinMakes, VecMeetMakes
    <2>3. \A e \in Elements :
              Count(VecJoin(state[r], y), e) = IF e \in Range(state[r]) THEN Count(state[r], e)
                                               ELSE IF e \in Range(y) THEN 1 ELSE 0
        BY <2>1, VecJoinCounts, Zenon
    <2> QED BY <2>2, <2>3, Zenon DEF SetJoin, SetMeet
<1> QED BY <1>1, AlwaysIInv, PTL

\* On Vec values, of any length, all laws hold but commutativity, although the
\* documentation denies associativity and absorption too (lib.rs:43-45, 198-217;
\* docs/theory/03-lawfulness-and-proofs.md:198-205).
THEOREM VecValuesAreLawful == Spec => []VecLawsOnValues
<1>1. IInv => VecLawsOnValues
    <2> SUFFICES ASSUME IInv, type = "vec", NEW r \in Replicas
                 PROVE  /\ VecJoin(state[r], state[r]) = state[r]
                        /\ VecMeet(state[r], state[r]) = state[r]
                        /\ \A y \in Vecs :
                              LET j == VecJoin(state[r], y)
                                  m == VecMeet(state[r], y)
                              IN  /\ VecJoin(state[r], m) = state[r]
                                  /\ VecMeet(state[r], j) = state[r]
                                  /\ \A s \in Replicas :
                                        /\ VecJoin(j, state[s]) = VecJoin(state[r], VecJoin(y, state[s]))
                                        /\ VecMeet(m, state[s]) = VecMeet(state[r], VecMeet(y, state[s]))
        BY DEF VecLawsOnValues
    <2> DEFINE x == state[r]
    <2>1. x \in Seq(Elements) /\ \A s \in Replicas : state[s] \in Seq(Elements)
        BY DEF IInv, Holds
    <2> HIDE DEF x
    <2>2. VecJoin(x, x) = x /\ VecMeet(x, x) = x
        BY <2>1, VecJoinMakes, VecMeetMakes
    <2>3. ASSUME NEW y \in Vecs
          PROVE  /\ VecJoin(x, VecMeet(x, y)) = x /\ VecMeet(x, VecJoin(x, y)) = x
                 /\ \A s \in Replicas :
                       /\ VecJoin(VecJoin(x, y), state[s]) = VecJoin(x, VecJoin(y, state[s]))
                       /\ VecMeet(VecMeet(x, y), state[s]) = VecMeet(x, VecMeet(y, state[s]))
        <3>1. y \in Seq(Elements)
            BY VecsAreSeqs
        <3>2. /\ VecJoin(x, y) \in Seq(Elements) /\ Range(VecJoin(x, y)) = Range(x) \cup Range(y)
              /\ VecMeet(x, y) \in Seq(Elements) /\ Range(VecMeet(x, y)) = Range(x) \cap Range(y)
            BY <2>1, <3>1, VecJoinMakes, VecMeetMakes
        <3>3. VecJoin(x, VecMeet(x, y)) = x
            <4>1. Range(VecMeet(x, y)) \subseteq Range(x)
                BY <3>2
            <4> QED BY <2>1, <3>2, <4>1, VecJoinMakes
        <3>4. VecMeet(x, VecJoin(x, y)) = x
            <4>1. Range(x) \subseteq Range(VecJoin(x, y))
                BY <3>2
            <4> QED BY <2>1, <3>2, <4>1, VecMeetMakes
        <3>5. \A s \in Replicas :
                  /\ VecJoin(VecJoin(x, y), state[s]) = VecJoin(x, VecJoin(y, state[s]))
                  /\ VecMeet(VecMeet(x, y), state[s]) = VecMeet(x, VecMeet(y, state[s]))
            BY <2>1, <3>1, VecJoinAssociates, VecMeetAssociates
        <3> QED BY <3>3, <3>4, <3>5, Zenon
    <2> QED BY <2>2, <2>3, Zenon DEF x
<1> QED BY <1>1, AlwaysIInv, PTL
-----------------------------------------------------------------------------
(* The orders: one lemma per type.  *)

\* What the theorems below say of a type and two of its values.
Bounds(T, x, y) ==
    /\ IsJoin(T, Operands(T), x, y, Join(T, x, y))
    /\ IsMeet(T, Operands(T), x, y, Meet(T, x, y))

LEMMA BoundsHold ==
    ASSUME NEW T \in Lawful, NEW x \in Operands(T), NEW y \in Operands(T)
    PROVE  Bounds(T, x, y)
<1>1. CASE T = "integer"
    BY <1>1, OperandsOf, ImplsAssumption
       DEF Bounds, IsJoin, IsMeet, Below, Join, Meet, NumericJoin, NumericMeet, Larger, Smaller
<1>2. CASE T = "bool"
    <2>1. x \in BOOLEAN /\ y \in BOOLEAN /\ Operands(T) = BOOLEAN
        BY <1>2, OperandsOf
    <2>2. /\ Join(T, x, y) = (x \/ y) /\ Meet(T, x, y) = (x /\ y)
          /\ \A a, b : Below(T, a, b) <=> (a => b)
        BY <1>2 DEF Join, Meet, BoolJoin, BoolMeet, Below
    <2> QED BY <2>1, <2>2, Zenon DEF Bounds, IsJoin, IsMeet
<1>3. CASE T = "set"
    BY <1>3 DEF Bounds, IsJoin, IsMeet, Below, Join, Meet, SetJoin, SetMeet
<1>4. CASE T = "option"
    <2>1. Join(T, x, y) = OptionJoin(x, y) /\ Meet(T, x, y) = OptionMeet(x, y)
        BY <1>4 DEF Join, Meet
    <2>2. \A a, b : Below(T, a, b) <=> (a = None \/ (b # None /\ a[1] \subseteq b[1]))
        BY <1>4 DEF Below
    <2>3. /\ \A s : Some(s) # None /\ Some(s)[1] = s
          /\ None = <<>>
        BY DEF Some, None
    <2>4. CASE x = None
        BY <2>1, <2>2, <2>4 DEF Bounds, IsJoin, IsMeet, OptionJoin, OptionMeet
    <2>5. CASE x # None /\ y = None
        BY <2>1, <2>2, <2>5 DEF Bounds, IsJoin, IsMeet, OptionJoin, OptionMeet
    <2>6. CASE x # None /\ y # None
        <3>1. /\ OptionJoin(x, y) = Some(x[1] \cup y[1])
              /\ OptionMeet(x, y) = Some(x[1] \cap y[1])
            BY <2>6 DEF OptionJoin, OptionMeet, SetJoin, SetMeet
        <3>2. IsJoin(T, Operands(T), x, y, Join(T, x, y))
            BY <2>1, <2>2, <2>3, <2>6, <3>1 DEF IsJoin
        <3>3. IsMeet(T, Operands(T), x, y, Meet(T, x, y))
            BY <2>1, <2>2, <2>3, <2>6, <3>1 DEF IsMeet
        <3> QED BY <3>2, <3>3 DEF Bounds
    <2> QED BY <2>4, <2>5, <2>6
<1> QED BY <1>1, <1>2, <1>3, <1>4 DEF Lawful

LEMMA NumbersBound ==
    ASSUME NEW a \in Numbers, NEW b \in Numbers
    PROVE  /\ IsJoin("float", Floats \ {NaN}, Float(a), Float(b), Float(Larger(a, b)))
           /\ IsMeet("float", Floats \ {NaN}, Float(a), Float(b), Float(Smaller(a, b)))
<1>1. a \in Int /\ b \in Int /\ Larger(a, b) \in Numbers /\ Smaller(a, b) \in Numbers
    BY ImplsAssumption DEF Larger, Smaller
<1>2. /\ a <= Larger(a, b) /\ b <= Larger(a, b)
      /\ Smaller(a, b) <= a /\ Smaller(a, b) <= b
      /\ Larger(a, b) \in {a, b} /\ Smaller(a, b) \in {a, b}
    BY <1>1 DEF Larger, Smaller
<1>3. \A m, n \in Numbers : Below("float", Float(m), Float(n)) <=> m <= n
    BY FloatIs DEF Below
<1>4. \A u \in Floats \ {NaN} : \E n \in Numbers : u = Float(n)
    BY DEF Floats
<1>5. ASSUME NEW u \in Floats \ {NaN}
      PROVE  /\ Below("float", Float(a), u) /\ Below("float", Float(b), u)
                  => Below("float", Float(Larger(a, b)), u)
             /\ Below("float", u, Float(a)) /\ Below("float", u, Float(b))
                  => Below("float", u, Float(Smaller(a, b)))
    <2>1. PICK n \in Numbers : u = Float(n)
        BY <1>4
    <2> QED BY <1>1, <1>2, <1>3, <2>1
<1> QED BY <1>1, <1>2, <1>3, <1>5 DEF IsJoin, IsMeet

\* In every lawful type join and meet are the bounds of the documented order
\* at whatever values replicas reach (lib.rs:104-196).
THEOREM BoundsAreReal == Spec => []JoinAndMeetAreBounds
<1>1. IInv => JoinAndMeetAreBounds
    <2> SUFFICES ASSUME IInv, type \in Lawful, NEW r \in Replicas, NEW y \in Operands(type)
                 PROVE  Bounds(type, state[r], y)
        BY DEF JoinAndMeetAreBounds, Bounds
    <2>1. state[r] \in Operands(type)
        BY DEF IInv, Stands, Lawful
    <2> QED BY <2>1, BoundsHold
<1> QED BY <1>1, AlwaysIInv, PTL

\* A NaN counts as absent, and the other floats are a chain (lib.rs:124-149).
THEOREM NaNIsAbsent == Spec => []NaNIsDropped
<1>1. IInv => NaNIsDropped
    <2> SUFFICES ASSUME IInv, type = "float", NEW r \in Replicas, NEW y \in Floats
                 PROVE  /\ FloatJoin(state[r], y).nan \/ FloatMeet(state[r], y).nan
                              => state[r].nan /\ y.nan
                        /\ ~state[r].nan /\ ~y.nan =>
                              /\ IsJoin("float", Floats \ {NaN}, state[r], y, FloatJoin(state[r], y))
                              /\ IsMeet("float", Floats \ {NaN}, state[r], y, FloatMeet(state[r], y))
        BY DEF NaNIsDropped
    <2> DEFINE x == state[r]
    <2>1. x \in Floats
        BY OperandsOf DEF IInv, Stands
    <2> HIDE DEF x
    <2>2. CASE x.nan /\ y.nan
        BY <2>2 DEF x
    <2>3. CASE x.nan /\ ~y.nan
        BY <2>3 DEF FloatJoin, FloatMeet, x
    <2>4. CASE ~x.nan /\ y.nan
        BY <2>4 DEF FloatJoin, FloatMeet, x
    <2>5. CASE ~x.nan /\ ~y.nan
        <3>1. /\ x.value \in Numbers /\ y.value \in Numbers
              /\ x = Float(x.value) /\ y = Float(y.value)
            BY <2>1, <2>5, FloatParts
        <3>2. /\ FloatJoin(x, y) = Float(Larger(x.value, y.value))
              /\ FloatMeet(x, y) = Float(Smaller(x.value, y.value))
            BY <2>5 DEF FloatJoin, FloatMeet
        <3>3. /\ IsJoin("float", Floats \ {NaN}, x, y, FloatJoin(x, y))
              /\ IsMeet("float", Floats \ {NaN}, x, y, FloatMeet(x, y))
            BY <3>1, <3>2, NumbersBound
        <3>4. ~FloatJoin(x, y).nan /\ ~FloatMeet(x, y).nan
            BY <3>2 DEF Float
        <3> QED BY <3>3, <3>4 DEF x
    <2> QED BY <2>1, <2>2, <2>3, <2>4, <2>5, FloatParts
<1> QED BY <1>1, AlwaysIInv, PTL
-----------------------------------------------------------------------------
\* A join is never below what was there.
LEMMA JoinGrows ==
    ASSUME type \in Scalar, NEW x \in Operands(type), NEW y \in Operands(type)
    PROVE  Grown(x, Join(type, x, y))
<1>1. CASE type \in Lawful
    <2>1. Below(type, x, Join(type, x, y))
        BY <1>1, BoundsHold DEF Bounds, IsJoin
    <2> QED BY <1>1, <2>1 DEF Grown, Lawful
<1>2. CASE type = "float"
    <2>1. x \in Floats /\ y \in Floats /\ Join(type, x, y) = FloatJoin(x, y)
        BY <1>2, OperandsOf DEF Join
    <2>2. CASE x.nan
        BY <1>2, <2>2 DEF Grown
    <2>3. CASE ~x.nan
        <3>1. Below("float", x, FloatJoin(x, y))
            <4>1. CASE y.nan
                BY <2>1, <2>3, <4>1, FloatParts DEF FloatJoin, Below
            <4>2. CASE ~y.nan
                <5>1. /\ x.value \in Numbers /\ y.value \in Numbers
                      /\ x = Float(x.value) /\ y = Float(y.value)
                    BY <2>1, <2>3, <4>2, FloatParts
                <5>2. FloatJoin(x, y) = Float(Larger(x.value, y.value))
                    BY <2>3, <4>2 DEF FloatJoin
                <5> QED BY <5>1, <5>2, NumbersBound DEF IsJoin
            <4> QED BY <4>1, <4>2
        <3> QED BY <1>2, <2>1, <3>1 DEF Grown
    <2> QED BY <2>1, <2>2, <2>3
<1> QED BY <1>1, <1>2 DEF Scalar, Types

LEMMA SameIsGrown ==
    ASSUME type \in Scalar, NEW x \in Operands(type)
    PROVE  Grown(x, x)
<1>1. CASE type = "integer"
    BY <1>1, OperandsOf, ImplsAssumption DEF Grown, Below
<1>2. CASE type \in {"bool", "set", "option"}
    BY <1>2 DEF Grown, Below
<1>3. CASE type = "float"
    <2>1. x \in Floats
        BY <1>3, OperandsOf
    <2> QED BY <1>3, <2>1, FloatParts DEF Grown, Below
<1> QED BY <1>1, <1>2, <1>3 DEF Scalar, Types, Lawful

\* A Vec only grows at its end.
LEMMA VecGrows ==
    ASSUME type = "vec", NEW x \in Seq(Elements), NEW y \in Seq(Elements)
    PROVE  /\ Join(type, x, y) = VecJoin(x, y)
           /\ Grown(x, VecJoin(x, y)) /\ Grown(x, x)
<1>1. IsPrefix(x, VecJoin(x, y))
    BY VecJoinMakes
<1>2. IsPrefix(x, x)
    BY DEF IsPrefix
<1> QED BY <1>1, <1>2 DEF Join, Grown

\* The values of a type.
Values == IF type = "vec" THEN Seq(Elements) ELSE Operands(type)

LEMMA ValuesGrow ==
    ASSUME type \in Types, NEW x \in Values, NEW y \in Values
    PROVE  Grown(x, Join(type, x, y)) /\ Grown(x, x)
<1>1. CASE type = "vec"
    BY <1>1, VecGrows DEF Values
<1>2. CASE type # "vec"
    BY <1>2, TypeIsScalar, JoinGrows, SameIsGrown DEF Values
<1> QED BY <1>1, <1>2

\* No message, however late or often it comes, takes back what a replica knew,
\* in any type (lib.rs:104-210).
THEOREM ReplicasNeverGoBack == Spec => NeverGoesBack
<1> DEFINE Up == \A r \in Replicas : Grown(state[r], state'[r])
<1>1. IInv /\ [Next]_vars => [Up]_vars
    <2> SUFFICES ASSUME IInv, Next, NEW r \in Replicas
                 PROVE  Grown(state[r], state'[r])
        OBVIOUS
    <2>1. /\ type \in Types /\ state = [s \in Replicas |-> state[s]]
          /\ \A s \in Replicas : state[s] \in Values
          /\ \A m \in net : m.state \in Values
          /\ Operands(type) \subseteq Values
        BY VecsAreSeqs, OperandsOf DEF IInv, Stands, Holds, Values
    <2>2. ASSUME NEW s \in Replicas, NEW w \in Values,
                 state' = [state EXCEPT ![s] = Join(type, @, w)]
          PROVE  Grown(state[r], state'[r])
        <3>1. CASE r = s
            BY <2>1, <2>2, <3>1, ValuesGrow
        <3>2. CASE r # s
            <4>1. state'[r] = state[r] /\ state[r] \in Values
                BY <2>1, <2>2, <3>2
            <4> QED BY <2>1, <4>1, ValuesGrow
        <3> QED BY <3>1, <3>2
    <2>3. ASSUME NEW s \in Replicas, NEW x \in Operands(type), Update(s, x)
          PROVE  Grown(state[r], state'[r])
        BY <2>1, <2>2, <2>3 DEF Update
    <2>4. ASSUME NEW s \in Replicas, Send(s) PROVE Grown(state[r], state'[r])
        BY <2>1, <2>4, ValuesGrow DEF Send
    <2>5. ASSUME NEW s \in Replicas, NEW m \in net, Merge(s, m)
          PROVE  Grown(state[r], state'[r])
        BY <2>1, <2>2, <2>5 DEF Merge
    <2> QED BY <2>3, <2>4, <2>5 DEF Next
<1>2. Spec => [][Up]_vars
    BY <1>1, AlwaysIInv, PTL DEF Spec
<1> QED BY <1>2 DEF NeverGoesBack
=============================================================================
