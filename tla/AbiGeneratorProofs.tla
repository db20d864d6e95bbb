-------------------------- MODULE AbiGeneratorProofs --------------------------
(***************************************************************************)
(* What the exit codes of the ABI generator and the handshake of a module   *)
(* with a library mean, for any contracts.                                  *)
(***************************************************************************)
EXTENDS AbiGenerator, FiniteSetTheorems, FunctionTheorems, SequenceTheorems, WellFoundedInduction, TLAPS

\* What the generator knows between two of its steps, if the tree was left
\* alone since it started.
Progress ==
    /\ pc # "idle" => exit = -1
    /\ pc = "header" => stale = {}
    /\ ~disturbed =>
          /\ pc # "idle" => contract = model
          /\ pc = "raku" /\ mode = "--write" => header = model
          /\ pc = "raku" /\ mode = "--check" =>
                stale = IF SameHeader(header, model) THEN {} ELSE {"header"}

IInv == TypeOK /\ Progress /\ ExitCodeIsHonest

LEMMA InitTypeOK == Init => TypeOK
BY DEF Init, TypeOK, Files, Accepted

\* Every step keeps the types.
LEMMA StepTypeOK == TypeOK /\ [Next]_vars => TypeOK'
<1> SUFFICES ASSUME TypeOK, [Next]_vars PROVE TypeOK'
    OBVIOUS
<1> USE DEF TypeOK, Files, tree, generator
<1>1. ASSUME NEW c \in DOMAIN Contracts, EditContract(c) PROVE TypeOK'
    BY <1>1 DEF EditContract
<1>2. ASSUME NEW f \in Files, ReplaceHeader(f) PROVE TypeOK'
    BY <1>2 DEF ReplaceHeader
<1>3. ASSUME NEW f \in Files, ReplaceRaku(f) PROVE TypeOK'
    BY <1>3 DEF ReplaceRaku
<1>4. CASE BuildLibrary
    BY <1>4 DEF BuildLibrary
<1>5. ASSUME NEW m \in {"--write", "--check"}, Start(m) PROVE TypeOK'
    BY <1>5 DEF Start
<1>6. CASE WriteHeader
    BY <1>6 DEF WriteHeader
<1>7. CASE WriteRaku
    BY <1>7 DEF WriteRaku
<1>8. CASE Interrupted
    BY <1>8 DEF Interrupted
<1>9. CASE CheckHeader
    BY <1>9 DEF CheckHeader
<1>10. CASE CheckRaku
    BY <1>10 DEF CheckRaku
<1>11. CASE UNCHANGED vars
    BY <1>11 DEF vars
<1> QED BY <1>1, <1>2, <1>3, <1>4, <1>5, <1>6, <1>7, <1>8, <1>9, <1>10, <1>11 DEF Next

\* Type correctness of the generator and of the tree it works in.
THEOREM TypeCorrect == Spec => []TypeOK
<1> QED BY InitTypeOK, StepTypeOK, PTL DEF Spec
-----------------------------------------------------------------------------
LEMMA InitIInv == Init => IInv
BY InitTypeOK DEF Init, IInv, Progress, ExitCodeIsHonest

\* Every step keeps what is known, and the meaning of the exit code.
LEMMA StepIInv == IInv /\ [Next]_vars => IInv'
<1> SUFFICES ASSUME IInv, [Next]_vars PROVE IInv'
    OBVIOUS
<1>0. TypeOK'
    BY StepTypeOK DEF IInv
<1> USE DEF IInv, Progress, ExitCodeIsHonest, tree, generator
<1>1. ASSUME NEW c \in DOMAIN Contracts, EditContract(c) PROVE IInv'
    BY <1>0, <1>1 DEF EditContract
<1>2. ASSUME NEW f \in Files, ReplaceHeader(f) PROVE IInv'
    BY <1>0, <1>2 DEF ReplaceHeader
<1>3. ASSUME NEW f \in Files, ReplaceRaku(f) PROVE IInv'
    BY <1>0, <1>3 DEF ReplaceRaku
<1>4. CASE BuildLibrary
    BY <1>0, <1>4 DEF BuildLibrary, Fresh, SameHeader, SameRaku
<1>5. ASSUME NEW m \in {"--write", "--check"}, Start(m) PROVE IInv'
    BY <1>0, <1>5 DEF Start, SameHeader
<1>6. CASE WriteHeader
    BY <1>0, <1>6 DEF WriteHeader, SameHeader
<1>7. CASE WriteRaku
    <2>1. contract' = contract /\ header' = header /\ raku' = model /\ model \in Accepted
        BY <1>7 DEF WriteRaku, TypeOK
    <2>2. ~disturbed => contract = model /\ header = model
        BY <1>7 DEF WriteRaku
    <2>3. ~disturbed' => Fresh'
        BY <1>7, <2>1, <2>2 DEF WriteRaku, Fresh, SameHeader, SameRaku
    <2> QED BY <1>0, <1>7, <2>3 DEF WriteRaku
<1>8. CASE Interrupted
    <2>1. pc' = "idle" /\ exit' = 1 /\ mode' = mode /\ stale' = stale /\ disturbed' = disturbed
        BY <1>8 DEF Interrupted
    <2>2. ASSUME mode = "--check", stale # {}, ~disturbed PROVE ~Fresh'
        <3>1. pc = "raku" /\ contract = model /\ ~SameHeader(header, model)
            BY <1>8, <2>2 DEF Interrupted, TypeOK
        <3>2. contract' = contract /\ header' = header
            BY <1>8, <2>2 DEF Interrupted
        <3> QED BY <3>1, <3>2 DEF Fresh, SameHeader
    <2> QED BY <1>0, <2>1, <2>2
<1>9. CASE CheckHeader
    BY <1>0, <1>9 DEF CheckHeader, SameHeader, TypeOK
<1>10. CASE CheckRaku
    <2>1. /\ contract' = contract /\ header' = header /\ raku' = raku
          /\ pc' = "idle" /\ disturbed' = disturbed
        BY <1>10 DEF CheckRaku
    <2>2. exit' = IF stale' = {} THEN 0 ELSE 1
        BY <1>10 DEF CheckRaku
    <2>3. ASSUME ~disturbed PROVE stale' = {} <=> Fresh'
        <3>1. contract = model /\ model \in Accepted
            BY <1>10, <2>3 DEF CheckRaku, TypeOK
        <3>2. stale = IF SameHeader(header, model) THEN {} ELSE {"header"}
            BY <1>10, <2>3 DEF CheckRaku
        <3>3. stale' = {} <=> SameHeader(header, model) /\ SameRaku(raku, model)
            BY <1>10, <3>2 DEF CheckRaku
        <3> QED BY <2>1, <3>1, <3>3 DEF Fresh, SameHeader, SameRaku
    <2> QED BY <1>0, <2>1, <2>2, <2>3
<1>11. CASE UNCHANGED vars
    BY <1>0, <1>11 DEF vars, Fresh, SameHeader, SameRaku
<1> QED BY <1>1, <1>2, <1>3, <1>4, <1>5, <1>6, <1>7, <1>8, <1>9, <1>10, <1>11 DEF Next

\* An exit code says what the tree is like, for any contracts and however runs
\* are cut short.
THEOREM ExitCodesAreHonest == Spec => []ExitCodeIsHonest
<1>1. IInv => ExitCodeIsHonest
    BY DEF IInv
<1> QED BY InitIInv, StepIInv, <1>1, PTL DEF Spec
-----------------------------------------------------------------------------
(* Binary numbers. *)

\* Bit k of n is set.
Bit(n, k) == (n \div 2^k) % 2 = 1

\* A set of numbers has a least one.
LEMMA Least ==
    ASSUME NEW T, T \subseteq Nat, T # {}
    PROVE  \E x \in T : \A y \in T : ~(y < x)
<1>1. PICK x \in T : \A y \in T : ~(<<y, x>> \in OpToRel(<, Nat))
    BY NatLessThanWellFounded, WFMin, Zenon
<1>2. ASSUME NEW y \in T, y < x PROVE FALSE
    BY <1>1, <1>2, Zenon DEF OpToRel
<1> QED BY <1>2

\* A set with 0 and every successor has every number.
LEMMA Induct ==
    ASSUME NEW S, 0 \in S, \A n \in Nat : n \in S => n + 1 \in S
    PROVE  Nat \subseteq S
<1> DEFINE T == Nat \ S
<1>1. SUFFICES ASSUME T # {} PROVE FALSE
    OBVIOUS
<1>2. PICK x \in T : \A y \in T : ~(y < x)
    BY <1>1, Least
<1>3. x - 1 \in Nat /\ x - 1 < x /\ x - 1 \in S
    BY <1>2
<1> QED BY <1>2, <1>3

\* 2^k is how many subsets k things have: with one more thing, each of them
\* can go without it or with it.
LEMMA Powers ==
    ASSUME NEW k \in Nat
    PROVE  2^k \in Nat /\ 2^k > 0 /\ 2^(k+1) = 2 * 2^k
<1> DEFINE P(n) == SUBSET (1..n)
           with == {s \cup {k+1} : s \in P(k)}
           f == [s \in P(k) |-> s \cup {k+1}]
<1>1. ASSUME NEW n \in Nat
      PROVE  IsFiniteSet(P(n)) /\ Cardinality(P(n)) = 2^n /\ Cardinality(P(n)) \in Nat
    <2>1. IsFiniteSet(1..n) /\ Cardinality(1..n) = n
        BY FS_Interval
    <2> QED BY <2>1, FS_SUBSET, FS_CardinalityType
<1>2. P(k) # {}
    OBVIOUS
<1>3. P(k+1) = P(k) \cup with /\ P(k) \cap with = {}
    <2>1. k + 1 \notin 1..k /\ 1..k+1 = (1..k) \cup {k+1}
        OBVIOUS
    <2>2. ASSUME NEW s \in P(k+1), k + 1 \in s PROVE s \in with
        <3>1. s \ {k+1} \in P(k) /\ s = (s \ {k+1}) \cup {k+1}
            BY <2>1, <2>2
        <3> QED BY <3>1
    <2> QED BY <2>1, <2>2
<1>4. f \in Bijection(P(k), with)
    <2>1. k + 1 \notin 1..k
        OBVIOUS
    <2>2. ASSUME NEW s \in P(k), NEW u \in P(k), f[s] = f[u] PROVE s = u
        <3>1. s = f[s] \ {k+1} /\ u = f[u] \ {k+1}
            BY <2>1
        <3> QED BY <2>2, <3>1
    <2>3. f \in [P(k) -> with] /\ DOMAIN f = P(k)
        OBVIOUS
    <2>4. \A u \in with : \E s \in P(k) : f[s] = u
        OBVIOUS
    <2> HIDE DEF f, with, P
    <2>5. f \in Injection(P(k), with)
        BY <2>2, <2>3 DEF Injection, IsInjective
    <2>6. f \in Surjection(P(k), with)
        BY <2>3, <2>4 DEF Surjection
    <2> QED BY <2>5, <2>6 DEF Bijection
<1> HIDE DEF f, with, P
<1>5. ExistsBijection(P(k), with)
    BY <1>4 DEF ExistsBijection
<1>6. IsFiniteSet(with) /\ Cardinality(with) = Cardinality(P(k))
    BY <1>1, <1>5, FS_Bijection
<1>7. Cardinality(P(k) \cup with) = Cardinality(P(k)) + Cardinality(with) - 0
    <2>1. Cardinality(P(k) \cup with)
              = Cardinality(P(k)) + Cardinality(with) - Cardinality(P(k) \cap with)
        BY <1>1, <1>6, FS_Union
    <2> QED BY <1>3, <2>1, FS_EmptySet, Zenon
<1>8. Cardinality(P(k+1)) = 2^(k+1)
    <2>1. k + 1 \in Nat
        OBVIOUS
    <2> QED BY <1>1, <2>1, Zenon
<1>9. Cardinality(P(k)) = 2^k /\ 2^k \in Nat /\ 2^k # 0
    BY <1>1, <1>2, FS_EmptySet
<1>10. 2^(k+1) = Cardinality(P(k)) + Cardinality(P(k))
    BY <1>3, <1>6, <1>7, <1>8, <1>9
<1> QED BY <1>9, <1>10

\* The bits of n are whether it is odd, and the bits of its half.
LEMMA BitsOfHalf ==
    ASSUME NEW n \in Nat
    PROVE  /\ n \div 2 \in Nat
           /\ Bit(n, 0) <=> n % 2 = 1
           /\ \A k \in Nat : Bit(n, k + 1) <=> Bit(n \div 2, k)
<1>1. 2^0 = 1 /\ n \div 1 = n /\ n \div 2 \in Nat
    OBVIOUS
<1>2. ASSUME NEW k \in Nat PROVE n \div 2^(k+1) = (n \div 2) \div 2^k
    <2>1. PICK d \in Nat : d = 2^k /\ d > 0 /\ 2^(k+1) = 2 * d
        BY Powers
    <2>2. n \div (2 * d) = (n \div 2) \div d
        BY <2>1
    <2> QED BY <2>1, <2>2
<1> QED BY <1>1, <1>2 DEF Bit

\* Where n has no bit, adding that power of two sets that bit and no other, and
\* makes n no longer than it was or the bit makes it.
LEMMA AddBit ==
    ASSUME NEW e \in Nat, NEW n \in Nat, ~Bit(n, e)
    PROVE  /\ \A k \in Nat : Bit(n + 2^e, k) <=> k = e \/ Bit(n, k)
           /\ \A w \in Nat : e < w /\ n < 2^w => n + 2^e < 2^w
<1> DEFINE Sets(x, a) == \A k \in Nat : Bit(x + 2^a, k) <=> k = a \/ Bit(x, k)
           Fits(x, a) == \A w \in Nat : a < w /\ x < 2^w => x + 2^a < 2^w
           S == {a \in Nat : \A x \in Nat : ~Bit(x, a) => Sets(x, a) /\ Fits(x, a)}
<1> HIDE DEF Sets, Fits
<1>0. \A k \in Nat : k = 0 \/ \E j \in Nat : k = j + 1
    <2>1. ASSUME NEW k \in Nat, k # 0 PROVE k - 1 \in Nat /\ k = (k - 1) + 1
        BY <2>1
    <2> QED BY <2>1
<1>1. 0 \in S
    <2> SUFFICES ASSUME NEW x \in Nat, ~Bit(x, 0) PROVE Sets(x, 0) /\ Fits(x, 0)
        OBVIOUS
    <2>1. 2^0 = 1 /\ x + 1 \in Nat /\ x % 2 = 0
        BY BitsOfHalf
    <2>2. (x + 1) % 2 = 1 /\ (x + 1) \div 2 = x \div 2
        BY <2>1
    <2>3. Sets(x, 0)
        <3>1. Bit(x + 1, 0)
            BY <2>1, <2>2, BitsOfHalf
        <3>2. ASSUME NEW j \in Nat PROVE Bit(x + 1, j + 1) <=> Bit(x, j + 1)
            BY <2>1, <2>2, BitsOfHalf
        <3>3. ASSUME NEW k \in Nat PROVE Bit(x + 1, k) <=> k = 0 \/ Bit(x, k)
            BY <1>0, <3>1, <3>2
        <3> QED BY <2>1, <3>3 DEF Sets
    <2>4. ASSUME NEW w \in Nat, 0 < w, x < 2^w PROVE x + 1 < 2^w
        <3>1. PICK j \in Nat : w = j + 1
            BY <1>0, <2>4
        <3>2. PICK d \in Nat : 2^w = 2 * d
            BY <3>1, Powers
        <3>3. x + 1 # 2 * d
            BY <2>2, <3>2
        <3> QED BY <2>4, <3>2, <3>3
    <2> QED BY <2>1, <2>3, <2>4 DEF Fits
<1>2. ASSUME NEW a \in Nat, a \in S PROVE a + 1 \in S
    <2> SUFFICES ASSUME NEW x \in Nat, ~Bit(x, a + 1) PROVE Sets(x, a + 1) /\ Fits(x, a + 1)
        OBVIOUS
    <2> DEFINE h == x \div 2
    <2>1. h \in Nat /\ ~Bit(h, a)
        BY BitsOfHalf
    <2>2. Sets(h, a) /\ Fits(h, a)
        BY <1>2, <2>1
    <2>3. PICK d \in Nat : d = 2^a /\ 2^(a+1) = 2 * d
        BY Powers
    <2>4. /\ x + 2 * d \in Nat /\ (x + 2 * d) \div 2 = h + d
          /\ (x + 2 * d) % 2 = x % 2
        BY <2>3
    <2>5. Sets(x, a + 1)
        <3>1. Bit(x + 2 * d, 0) <=> Bit(x, 0)
            BY <2>4, BitsOfHalf
        <3>2. ASSUME NEW j \in Nat
              PROVE  Bit(x + 2 * d, j + 1) <=> j = a \/ Bit(x, j + 1)
            <4>1. Bit(x + 2 * d, j + 1) <=> Bit(h + d, j)
                BY <2>4, BitsOfHalf
            <4>2. Bit(x, j + 1) <=> Bit(h, j)
                BY BitsOfHalf
            <4>3. Bit(h + d, j) <=> j = a \/ Bit(h, j)
                BY <2>2, <2>3 DEF Sets
            <4> QED BY <4>1, <4>2, <4>3
        <3>3. ASSUME NEW k \in Nat PROVE Bit(x + 2 * d, k) <=> k = a + 1 \/ Bit(x, k)
            <4>1. CASE k = 0
                BY <3>1, <4>1
            <4>2. ASSUME NEW j \in Nat, k = j + 1 PROVE Bit(x + 2 * d, k) <=> k = a + 1 \/ Bit(x, k)
                <5>1. k = a + 1 <=> j = a
                    BY <4>2
                <5> QED BY <3>2, <4>2, <5>1
            <4> QED BY <1>0, <4>1, <4>2
        <3> QED BY <2>3, <3>3 DEF Sets
    <2>6. ASSUME NEW w \in Nat, a + 1 < w, x < 2^w PROVE x + 2 * d < 2^w
        <3>1. PICK j \in Nat : w = j + 1
            BY <1>0, <2>6
        <3>2. PICK b \in Nat : b = 2^j /\ 2^w = 2 * b
            BY <3>1, Powers
        <3>3. a < j /\ h < b
            BY <2>6, <3>1, <3>2
        <3>4. h + d < b
            BY <2>2, <2>3, <3>2, <3>3 DEF Fits
        <3>5. x <= 2 * h + 1
            OBVIOUS
        <3> HIDE DEF h
        <3> QED BY <2>1, <3>2, <3>4, <3>5
    <2> QED BY <2>3, <2>5, <2>6 DEF Fits
<1>3. e \in S
    <2> HIDE DEF S
    <2> QED BY <1>1, <1>2, Induct
<1> QED BY <1>3 DEF Sets, Fits

\* A power of two has one bit.
LEMMA OneBit ==
    ASSUME NEW e \in Nat, NEW k \in Nat
    PROVE  Bit(2^e, k) <=> k = e
<1>1. ASSUME NEW j \in Nat PROVE ~Bit(0, j)
    <2>1. PICK d \in Nat : d = 2^j /\ d > 0
        BY Powers
    <2>2. 0 \div d = 0
        BY <2>1
    <2> QED BY <2>1, <2>2 DEF Bit
<1>2. 0 + 2^e = 2^e
    BY Powers
<1> QED BY <1>1, <1>2, AddBit
-----------------------------------------------------------------------------
(* The mask, a sum over the capabilities from the left.  FoldLeft is read off  *)
(* a function that CHOOSE picks by its recursive equation: there is one.       *)

\* g[s] is the sum of the values at the places s.
SumsOf(g, seq, n) ==
    \A s \in SUBSET (1..n) :
        g[s] = IF s = {} THEN 0 ELSE g[s \ {Max(s)}] + seq[Max(s)].value

LEMMA MaxIs ==
    ASSUME NEW s, NEW m \in s, s \subseteq Int, \A y \in s : y <= m
    PROVE  Max(s) = m
<1>1. \A y \in s : m >= y
    OBVIOUS
<1>2. Max(s) \in s /\ Max(s) >= m
    BY <1>1 DEF Max
<1>3. Max(s) \in Int /\ m \in Int /\ Max(s) <= m
    BY <1>2
<1> QED BY <1>2, <1>3

LEMMA SumsExist ==
    ASSUME NEW seq, NEW len \in Nat
    PROVE  \E g : g = [s \in SUBSET (1..len) |-> g[s]] /\ SumsOf(g, seq, len)
<1> DEFINE Has(n) == \E g : g = [s \in SUBSET (1..n) |-> g[s]] /\ SumsOf(g, seq, n)
           S == {n \in Nat : Has(n)}
<1> HIDE DEF Has
<1>1. 0 \in S
    <2> DEFINE g == [s \in SUBSET (1..0) |-> 0]
    <2>1. g = [s \in SUBSET (1..0) |-> g[s]] /\ SumsOf(g, seq, 0)
        BY DEF SumsOf
    <2> QED BY <2>1 DEF Has
<1>2. ASSUME NEW n \in Nat, n \in S PROVE n + 1 \in S
    <2>1. PICK g : SumsOf(g, seq, n)
        BY <1>2 DEF Has
    <2> DEFINE h == [s \in SUBSET (1..n+1) |->
                        IF n + 1 \in s THEN g[s \ {n+1}] + seq[n+1].value ELSE g[s]]
    <2>2. \A s \in SUBSET (1..n+1) : /\ s \ {n+1} \in SUBSET (1..n)
                                     /\ n + 1 \notin s => s \in SUBSET (1..n)
        OBVIOUS
    <2>3. h = [s \in SUBSET (1..n+1) |-> h[s]]
        OBVIOUS
    <2>4. \A s \in SUBSET (1..n) : h[s] = g[s]
        OBVIOUS
    <2>5. ASSUME NEW s \in SUBSET (1..n+1)
          PROVE  h[s] = IF s = {} THEN 0 ELSE h[s \ {Max(s)}] + seq[Max(s)].value
        <3>1. CASE n + 1 \in s
            <4>1. s \subseteq Int /\ \A y \in s : y <= n + 1
                OBVIOUS
            <4>2. Max(s) = n + 1
                BY <3>1, <4>1, MaxIs
            <4>3. h[s \ {n+1}] = g[s \ {n+1}]
                BY <2>2
            <4> QED BY <3>1, <4>2, <4>3
        <3>2. CASE n + 1 \notin s
            <4>1. s \in SUBSET (1..n) /\ h[s] = g[s]
                BY <2>2, <3>2
            <4>2. s # {} => h[s \ {Max(s)}] = g[s \ {Max(s)}]
                <5>1. s \ {Max(s)} \in SUBSET (1..n)
                    BY <4>1
                <5> HIDE DEF h
                <5> QED BY <5>1, <2>4
            <4> QED BY <2>1, <4>1, <4>2 DEF SumsOf
        <3> QED BY <3>1, <3>2
    <2> HIDE DEF h
    <2>6. SumsOf(h, seq, n + 1)
        BY <2>5 DEF SumsOf
    <2>7. Has(n + 1)
        BY <2>3, <2>6 DEF Has
    <2> QED BY <2>7
<1>3. len \in S
    <2> HIDE DEF S
    <2> QED BY <1>1, <1>2, Induct
<1> QED BY <1>3 DEF Has

\* The mask is the last of the partial sums p.
LEMMA MaskIsASum ==
    ASSUME NEW m, m.capabilities \in Seq(Range(m.capabilities))
    PROVE  \E p : /\ p[0] = 0
                  /\ \A i \in 1..Len(m.capabilities) :
                        p[i] = p[i-1] + m.capabilities[i].value
                  /\ RequiredMask(m) = p[Len(m.capabilities)]
<1> DEFINE seq == m.capabilities
           n == Len(seq)
           Eq(g) == g = [s \in SUBSET (DOMAIN seq) |->
                            IF s = {} THEN 0 ELSE g[s \ {Max(s)}] + seq[Max(s)].value]
           iter == CHOOSE g : Eq(g)
<1>1. DOMAIN seq = 1..n /\ n \in Nat
    OBVIOUS
<1>2. \E g : Eq(g)
    <2>1. PICK g : g = [s \in SUBSET (1..n) |-> g[s]] /\ SumsOf(g, seq, n)
        BY <1>1, SumsExist
    <2>2. Eq(g)
        BY <1>1, <2>1 DEF SumsOf
    <2> QED BY <2>2
<1>3. Eq(iter)
    BY <1>2, Zenon
<1>4. RequiredMask(m) = iter[DOMAIN seq]
    BY Zenon DEF RequiredMask, FoldLeft, MapThenFoldSet
<1> HIDE DEF iter
<1> DEFINE p == [i \in 0..n |-> iter[1..i]]
<1>5. p[0] = 0
    <2>1. 1..0 = {} /\ 0 \in 0..n
        BY <1>1
    <2> QED BY <1>3, <2>1
<1>6. ASSUME NEW i \in 1..n PROVE p[i] = p[i-1] + seq[i].value
    <2>1. i \in Nat /\ 1 <= i /\ i <= n /\ i \in 0..n /\ i - 1 \in 0..n
        BY <1>1
    <2> HIDE DEF seq, n
    <2>2. /\ 1..i \in SUBSET (1..n) /\ i \in 1..i /\ 1..i \subseteq Int
          /\ \A y \in 1..i : y <= i
        BY <1>1, <2>1
    <2>3. (1..i) \ {i} = 1..(i-1)
        BY <2>1
    <2>4. Max(1..i) = i
        BY <2>2, MaxIs
    <2>5. iter[1..(i-1)] = p[i-1] /\ iter[1..i] = p[i]
        BY <2>1
    <2> HIDE DEF p
    <2>6. iter[1..i] = iter[1..(i-1)] + seq[i].value
        BY <1>1, <1>3, <2>2, <2>3, <2>4
    <2> QED BY <2>5, <2>6
<1>7. RequiredMask(m) = p[n]
    <2>1. n \in 0..n
        BY <1>1
    <2> QED BY <1>1, <1>4, <2>1
<1> HIDE DEF p
<1> QED BY <1>5, <1>6, <1>7

\* Each capability has a bit of its own: the sum fits, and has all their bits
\* and no other.
LEMMA MaskIsTheUnion ==
    ASSUME NEW m, ValidCapabilities(m), m.capabilities \in Seq(Range(m.capabilities))
    PROVE  /\ RequiredMask(m) \in 0..2^Width - 1 /\ RequiredMask(m) < 2^Width
           /\ Bits(RequiredMask(m)) = UNION {Bits(b.value) : b \in Range(m.capabilities)}
<1> DEFINE seq == m.capabilities
           n == Len(seq)
<1>1. n \in Nat /\ DOMAIN seq = 1..n /\ Width \in Nat /\ Width # 0
    BY NamesAssumption
<1>2. PICK exponent \in [1..n -> 0..Width - 1] : \A i \in 1..n : seq[i].value = 2^exponent[i]
    <2>1. \A i \in 1..n : \E k \in 0..Width - 1 : seq[i].value = 2^k
        BY <1>1 DEF ValidCapabilities
    <2> DEFINE x == [i \in 1..n |-> CHOOSE k \in 0..Width - 1 : seq[i].value = 2^k]
    <2>2. x \in [1..n -> 0..Width - 1] /\ \A i \in 1..n : seq[i].value = 2^x[i]
        BY <2>1
    <2> HIDE DEF x
    <2> QED BY <2>2
<1>3. PICK p : /\ p[0] = 0
               /\ \A i \in 1..n : p[i] = p[i-1] + seq[i].value
               /\ RequiredMask(m) = p[n]
    BY MaskIsASum
<1>4. \A k \in 0..Width - 1 : k \in Nat /\ k < Width
    BY <1>1
<1> DEFINE Adds(i) == /\ p[i] \in Nat /\ p[i] < 2^Width
                     /\ \A k \in Nat : Bit(p[i], k) <=> \E j \in 1..i : exponent[j] = k
           S == {i \in Nat : i <= n => Adds(i)}
<1>5. 0 \in S
    <2>1. 0 < 2^Width
        BY <1>1, Powers
    <2>2. ASSUME NEW k \in Nat PROVE ~Bit(0, k)
        <3>1. PICK d \in Nat : d = 2^k /\ d > 0
            BY Powers
        <3>2. 0 \div d = 0
            BY <3>1
        <3> QED BY <3>1, <3>2 DEF Bit
    <2> QED BY <1>3, <2>1, <2>2
<1>6. ASSUME NEW i \in Nat, i \in S PROVE i + 1 \in S
    <2> SUFFICES ASSUME i + 1 <= n PROVE Adds(i + 1)
        OBVIOUS
    <2>1. /\ i + 1 \in 1..n /\ (i + 1) - 1 = i /\ i <= n
          /\ 1..i \subseteq 1..n /\ 1..i+1 = (1..i) \cup {i+1} /\ 1..i = 1..(i + 1) - 1
        BY <1>1
    <2>2. Adds(i)
        BY <1>6, <2>1
    <2> DEFINE e == exponent[i+1]
    <2>3. e \in 0..Width - 1 /\ e \in Nat /\ e < Width
        BY <1>2, <1>4, <2>1
    <2>4. p[i+1] = p[i] + 2^e
        BY <1>2, <1>3, <2>1
    <2>5. \A j \in 1..i : exponent[j] # e
        <3>1. \A j \in 1..i : seq[j].value # seq[i+1].value
            BY <1>1, <2>1 DEF ValidCapabilities
        <3> QED BY <1>2, <2>1, <3>1
    <2>6. ~Bit(p[i], e)
        BY <2>2, <2>3, <2>5
    <2>7. p[i+1] \in Nat
        BY <2>2, <2>3, <2>4, Powers
    <2>8. p[i+1] < 2^Width
        BY <1>1, <2>2, <2>3, <2>4, <2>6, AddBit
    <2>9. ASSUME NEW k \in Nat PROVE Bit(p[i+1], k) <=> \E j \in 1..i+1 : exponent[j] = k
        <3>1. Bit(p[i+1], k) <=> k = e \/ Bit(p[i], k)
            BY <2>2, <2>3, <2>4, <2>6, AddBit
        <3> QED BY <2>1, <2>2, <3>1
    <2> QED BY <2>7, <2>8, <2>9
<1>7. Adds(n)
    <2>1. Nat \subseteq S
        <3> HIDE DEF S
        <3> QED BY <1>5, <1>6, Induct
    <2> HIDE DEF Adds, n
    <2>2. n \in S
        BY <1>1, <2>1
    <2> QED BY <1>1, <2>2
<1>8. ASSUME NEW x PROVE Bits(x) = {k \in 0..Width - 1 : Bit(x, k)}
    BY DEF Bits, Bit
<1>9. ASSUME NEW j \in 1..n PROVE Bits(seq[j].value) = {exponent[j]}
    <2>1. exponent[j] \in 0..Width - 1 /\ seq[j].value = 2^exponent[j]
        BY <1>2
    <2> QED BY <1>4, <1>8, <2>1, OneBit
<1>10. Bits(RequiredMask(m)) = {exponent[j] : j \in 1..n}
    <2>1. Bits(p[n]) = {k \in 0..Width - 1 : Bit(p[n], k)}
        BY <1>8
    <2>2. \A k \in 0..Width - 1 : Bit(p[n], k) <=> \E j \in 1..n : exponent[j] = k
        BY <1>4, <1>7
    <2>3. \A j \in 1..n : exponent[j] \in 0..Width - 1
        BY <1>2
    <2> HIDE DEF n
    <2> QED BY <1>3, <2>1, <2>2, <2>3
<1>11. Range(seq) = {seq[j] : j \in 1..n}
    BY <1>1 DEF Range
<1>12. UNION {Bits(b.value) : b \in Range(seq)} = {exponent[j] : j \in 1..n}
    <2>1. UNION {Bits(b.value) : b \in Range(seq)} = UNION {Bits(seq[j].value) : j \in 1..n}
        BY <1>11
    <2>2. UNION {Bits(seq[j].value) : j \in 1..n} = UNION {{exponent[j]} : j \in 1..n}
        BY <1>9
    <2> HIDE DEF seq, n
    <2> QED BY <2>1, <2>2
<1>13. RequiredMask(m) \in 0..2^Width - 1 /\ RequiredMask(m) < 2^Width
    <2>1. p[n] \in Nat /\ p[n] < 2^Width
        BY <1>7
    <2>2. 2^Width \in Nat
        BY <1>1, Powers
    <2> HIDE DEF n
    <2> QED BY <1>3, <2>1, <2>2
<1> QED BY <1>10, <1>12, <1>13
-----------------------------------------------------------------------------
(* The two renderings of an accepted contract. *)

LEMMA AcceptedAreValid ==
    ASSUME NEW c \in Accepted
    PROVE  /\ ValidModel(Contracts[c]) /\ ~RakuAborts(Contracts[c])
           /\ Contracts[c].callbacks \in Seq(Range(Contracts[c].callbacks))
           /\ Contracts[c].capabilities \in Seq(Range(Contracts[c].capabilities))
           /\ Contracts[c].functions \in Seq(Range(Contracts[c].functions))
BY ListsAssumption DEF Accepted

\* The mask asks for all capabilities of the contract and no other bit.
LEMMA MaskOfAccepted ==
    ASSUME NEW c \in Accepted
    PROVE  LET m == Contracts[c]
               h == RenderCHeader(m)
               r == RenderRaku(m)
           IN  /\ r.required \in 0..2^Width - 1 /\ r.required < 2^Width
               /\ Bits(r.required) = NativeCapabilities(h)
               /\ NativeCapabilities(h) = UNION {Bits(b.value) : b \in Range(m.capabilities)}
<1> DEFINE m == Contracts[c]
           seq == m.capabilities
           macros == RenderCHeader(m).capabilities
<1>1. RenderRaku(m).required = RequiredMask(m)
    BY DEF RenderRaku
<1>2. macros = [i \in DOMAIN seq |-> <<seq[i].name, seq[i].value>>]
    BY DEF RenderCHeader
<1> HIDE DEF macros
<1>3. NativeCapabilities(RenderCHeader(m)) = UNION {Bits(macros[i][2]) : i \in DOMAIN macros}
    BY DEF NativeCapabilities, macros
<1>4. DOMAIN macros = DOMAIN seq /\ \A i \in DOMAIN seq : macros[i][2] = seq[i].value
    BY <1>2
<1> HIDE DEF m
<1>5. {Bits(macros[i][2]) : i \in DOMAIN macros} = {Bits(b.value) : b \in Range(seq)}
    BY <1>4 DEF Range
<1>6. ValidCapabilities(m) /\ seq \in Seq(Range(seq))
    BY AcceptedAreValid DEF ValidModel, m
<1>7. /\ RequiredMask(m) \in 0..2^Width - 1 /\ RequiredMask(m) < 2^Width
      /\ Bits(RequiredMask(m)) = UNION {Bits(b.value) : b \in Range(seq)}
    BY <1>6, MaskIsTheUnion
<1> QED BY <1>1, <1>3, <1>5, <1>7 DEF m

\* The name of a callback or function and that of a parameter are a key.
LEMMA KeysAreUnique ==
    ASSUME NEW c \in Accepted,
           NEW a \in Range(Contracts[c].callbacks) \cup Range(Contracts[c].functions),
           NEW b \in Range(Contracts[c].callbacks) \cup Range(Contracts[c].functions),
           NEW p \in Range(a.parameters), NEW q \in Range(b.parameters),
           a.name = b.name, p.name = q.name
    PROVE  a = b /\ p = q
<1> DEFINE m == Contracts[c]
<1>1. /\ \A i \in DOMAIN m.callbacks : /\ m.callbacks[i].name \in CallbackNames
                                       /\ DistinctNames(m.callbacks[i].parameters)
      /\ DistinctNames(m.callbacks)
    BY AcceptedAreValid DEF ValidModel, ValidCallbacks, ValidParameters
<1>2. /\ \A i \in DOMAIN m.functions : /\ m.functions[i].name \in FunctionNames
                                       /\ DistinctNames(m.functions[i].parameters)
      /\ DistinctNames(m.functions)
    BY AcceptedAreValid DEF ValidModel, ValidFunctions, ValidParameters
<1> HIDE DEF m
<1>3. ASSUME NEW x \in Range(m.callbacks) PROVE x.name \in CallbackNames /\ DistinctNames(x.parameters)
    BY <1>1 DEF Range
<1>4. ASSUME NEW x \in Range(m.functions) PROVE x.name \in FunctionNames /\ DistinctNames(x.parameters)
    BY <1>2 DEF Range
<1>5. ASSUME NEW x, NEW y, NEW items, DistinctNames(items),
             x \in Range(items), y \in Range(items), x.name = y.name
      PROVE  x = y
    BY <1>5 DEF Range, DistinctNames
<1>6. a = b
    <2>1. a \in Range(m.callbacks) \cup Range(m.functions)
          /\ b \in Range(m.callbacks) \cup Range(m.functions)
        BY DEF m
    <2>2. CASE a \in Range(m.callbacks) /\ b \in Range(m.callbacks)
        BY <1>1, <1>5, <2>2
    <2>3. CASE a \in Range(m.functions) /\ b \in Range(m.functions)
        BY <1>2, <1>5, <2>3
    <2>4. \/ a \in Range(m.callbacks) /\ b \in Range(m.callbacks)
          \/ a \in Range(m.functions) /\ b \in Range(m.functions)
        BY <1>3, <1>4, <2>1, NamesAssumption
    <2> QED BY <2>2, <2>3, <2>4
<1>7. DistinctNames(a.parameters)
    BY <1>3, <1>4 DEF m
<1> QED BY <1>5, <1>6, <1>7

LEMMA RangeOfConcatenation ==
    ASSUME NEW a, NEW b, a \in Seq(Range(a)), b \in Seq(Range(b))
    PROVE  Range(a \o b) = Range(a) \cup Range(b)
<1> DEFINE S == Range(a) \cup Range(b)
<1>1. a \in Seq(S) /\ b \in Seq(S)
    <2>1. Len(a) \in Nat /\ a \in [1..Len(a) -> S]
        BY DEF Range
    <2>2. Len(b) \in Nat /\ b \in [1..Len(b) -> S]
        BY DEF Range
    <2> HIDE DEF S
    <2> QED BY <2>1, <2>2
<1> HIDE DEF S
<1>2. /\ a \o b \in Seq(S) /\ Len(a \o b) = Len(a) + Len(b)
      /\ \A i \in 1..Len(a) + Len(b) :
            (a \o b)[i] = IF i <= Len(a) THEN a[i] ELSE b[i - Len(a)]
    BY <1>1, ConcatProperties
<1> DEFINE c == a \o b
<1>3. /\ Len(a) \in Nat /\ Len(b) \in Nat
      /\ DOMAIN a = 1..Len(a) /\ DOMAIN b = 1..Len(b) /\ DOMAIN c = 1..Len(a) + Len(b)
    BY <1>1, <1>2
<1> HIDE DEF c
<1>4. /\ \A i \in DOMAIN a : i \in DOMAIN c /\ c[i] = a[i]
      /\ \A i \in DOMAIN b : Len(a) + i \in DOMAIN c /\ c[Len(a) + i] = b[i]
    <2>1. \A i \in DOMAIN a : i \in DOMAIN c /\ c[i] = a[i]
        BY <1>2, <1>3 DEF c
    <2>2. ASSUME NEW i \in 1..Len(b) PROVE Len(a) + i \in DOMAIN c /\ c[Len(a) + i] = b[i]
        <3>1. /\ Len(a) + i \in 1..Len(a) + Len(b) /\ ~(Len(a) + i <= Len(a))
              /\ (Len(a) + i) - Len(a) = i
            BY <1>3
        <3> QED BY <1>2, <1>3, <3>1 DEF c
    <2> QED BY <1>3, <2>1, <2>2
<1>5. ASSUME NEW i \in DOMAIN c
      PROVE  \/ i \in DOMAIN a /\ c[i] = a[i]
             \/ i - Len(a) \in DOMAIN b /\ c[i] = b[i - Len(a)]
    <2>1. i \in 1..Len(a) + Len(b)
        BY <1>3
    <2>2. c[i] = IF i <= Len(a) THEN a[i] ELSE b[i - Len(a)]
        BY <1>2, <2>1 DEF c
    <2>3. CASE i <= Len(a)
        BY <1>3, <2>1, <2>2, <2>3
    <2>4. CASE ~(i <= Len(a))
        <3>1. i - Len(a) \in 1..Len(b)
            BY <1>3, <2>1, <2>4
        <3> QED BY <1>3, <2>2, <2>4, <3>1
    <2> QED BY <2>3, <2>4
<1>6. Range(c) = Range(a) \cup Range(b)
    BY <1>4, <1>5 DEF Range
<1> QED BY <1>6 DEF c

\* A Map has a pair for each parameter of a callback or a function.
LEMMA EntriesOfAccepted ==
    ASSUME NEW c \in Accepted, NEW field
    PROVE  LET m == Contracts[c]
           IN  Entries(ParameterMap(m, field)) =
                   UNION {{<< <<a.name, q.name>>, q[field]>> : q \in Range(a.parameters)} :
                              a \in Range(m.callbacks) \cup Range(m.functions)}
<1> DEFINE m == Contracts[c]
           items == m.callbacks \o m.functions
           pairs(a) == [j \in DOMAIN a.parameters |->
                           << <<a.name, a.parameters[j].name>>, a.parameters[j][field]>>]
           map == ParameterMap(m, field)
<1>1. Range(items) = Range(m.callbacks) \cup Range(m.functions)
    <2>1. /\ m.callbacks \in Seq(Range(m.callbacks))
          /\ m.functions \in Seq(Range(m.functions))
        BY AcceptedAreValid
    <2> HIDE DEF m
    <2> QED BY <2>1, RangeOfConcatenation
<1>2. map = [i \in DOMAIN items |-> pairs(items[i])]
    BY DEF ParameterMap
<1> HIDE DEF map, items
<1>3. ASSUME NEW a
      PROVE  Range(pairs(a)) = {<< <<a.name, q.name>>, q[field]>> : q \in Range(a.parameters)}
    BY DEF Range
<1> HIDE DEF pairs
<1>4. Entries(map) = UNION {Range(pairs(a)) : a \in Range(items)}
    BY <1>2 DEF Entries, Range
<1> QED BY <1>1, <1>3, <1>4 DEF map

\* Each parameter keeps its ownership rule.
LEMMA OwnershipOfAccepted ==
    ASSUME NEW c \in Accepted,
           NEW item \in Range(Contracts[c].callbacks) \cup Range(Contracts[c].functions),
           NEW p \in Range(item.parameters)
    PROVE  {e \in Entries(RenderRaku(Contracts[c]).ownership) : e[1] = <<item.name, p.name>>}
               = {<< <<item.name, p.name>>, p.ownership>>}
<1> DEFINE m == Contracts[c]
           key == <<item.name, p.name>>
           map == Entries(RenderRaku(m).ownership)
<1>1. map = UNION {{<< <<a.name, q.name>>, q.ownership>> : q \in Range(a.parameters)} :
                       a \in Range(m.callbacks) \cup Range(m.functions)}
    <2>1. RenderRaku(m).ownership = ParameterMap(m, "ownership")
        BY DEF RenderRaku
    <2> QED BY <2>1, EntriesOfAccepted
<1> HIDE DEF map
<1>2. <<key, p.ownership>> \in map
    BY <1>1
<1>3. ASSUME NEW e \in map, e[1] = key PROVE e = <<key, p.ownership>>
    <2>0. PICK a \in Range(m.callbacks) \cup Range(m.functions) :
              \E q \in Range(a.parameters) : e = << <<a.name, q.name>>, q.ownership>>
        BY <1>1
    <2>1. PICK q \in Range(a.parameters) : e = << <<a.name, q.name>>, q.ownership>>
        BY <2>0
    <2>2. a.name = item.name /\ q.name = p.name
        BY <1>3, <2>1
    <2>3. q = p
        BY <2>2, KeysAreUnique
    <2> QED BY <2>1, <2>2, <2>3
<1>4. <<key, p.ownership>>[1] = key
    OBVIOUS
<1> QED BY <1>2, <1>3, <1>4 DEF map

\* A prototype and its sub have the same parameters, and a callback parameter of
\* the sub those of the callback's typedef.
LEMMA SubsOfAccepted ==
    ASSUME NEW c \in Accepted
    PROVE  LET m == Contracts[c]
               h == RenderCHeader(m)
               r == RenderRaku(m)
           IN  /\ Len(r.subs) = Len(h.prototypes)
               /\ \A i \in DOMAIN r.subs :
                     LET s == r.subs[i]
                         f == h.prototypes[i]
                     IN  /\ s.symbol = f.name
                         /\ DOMAIN s.parameters = DOMAIN f.parameters
                         /\ \A j \in DOMAIN f.parameters :
                               /\ s.parameters[j].type # Abort
                               /\ \A k \in DOMAIN h.typedefs :
                                     /\ h.typedefs[k].name = f.parameters[j][1]
                                     /\ m.functions[i].parameters[j].rakuType = Missing
                                     => /\ "returns" \in DOMAIN s.parameters[j].type
                                        /\ DOMAIN s.parameters[j].type.parameters
                                               = DOMAIN h.typedefs[k].parameters
<1> DEFINE m == Contracts[c]
           subs == RenderRaku(m).subs
           prototypes == RenderCHeader(m).prototypes
           typedefs == RenderCHeader(m).typedefs
<1>1. /\ subs = [i \in DOMAIN m.functions |-> NativeSub(m.functions[i], m.callbacks)]
      /\ prototypes = [i \in DOMAIN m.functions |-> CPrototype(m.functions[i])]
      /\ typedefs = [i \in DOMAIN m.callbacks |-> CPrototype(m.callbacks[i])]
    BY DEF RenderRaku, RenderCHeader
<1>2. ~RakuAborts(m) /\ DistinctNames(m.callbacks) /\ m.functions \in Seq(Range(m.functions))
    BY AcceptedAreValid DEF ValidModel, ValidCallbacks
<1> HIDE DEF m, subs, prototypes, typedefs
<1>3. Len(subs) = Len(prototypes)
    <2>1. DOMAIN m.functions = 1..Len(m.functions) /\ Len(m.functions) \in Nat
        BY <1>2
    <2>2. Len(subs) = Len(m.functions) /\ Len(prototypes) = Len(m.functions)
        BY <1>1, <2>1
    <2> QED BY <2>2
<1>4. ASSUME NEW i \in DOMAIN m.functions
      PROVE  /\ subs[i].symbol = prototypes[i].name
             /\ DOMAIN subs[i].parameters = DOMAIN prototypes[i].parameters
             /\ \A j \in DOMAIN prototypes[i].parameters :
                   /\ j \in DOMAIN m.functions[i].parameters
                   /\ prototypes[i].parameters[j][1] = m.functions[i].parameters[j].cType
                   /\ subs[i].parameters[j].type
                         = RakuParameterType(m.functions[i].parameters[j], m.callbacks)
    BY <1>1 DEF NativeSub, CPrototype, NativeParameter, CParameter
<1>5. ASSUME NEW k \in DOMAIN m.callbacks
      PROVE  /\ typedefs[k].name = m.callbacks[k].name
             /\ DOMAIN typedefs[k].parameters = DOMAIN m.callbacks[k].parameters
    BY <1>1 DEF CPrototype
<1>6. DOMAIN subs = DOMAIN m.functions /\ DOMAIN typedefs = DOMAIN m.callbacks
    BY <1>1
<1>7. ASSUME NEW i \in DOMAIN m.functions, NEW j \in DOMAIN m.functions[i].parameters
      PROVE  RakuParameterType(m.functions[i].parameters[j], m.callbacks) # Abort
    BY <1>2 DEF RakuAborts, Range
<1>8. ASSUME NEW p, NEW k \in DOMAIN m.callbacks, m.callbacks[k].name = p.cType,
             p.rakuType = Missing, RakuParameterType(p, m.callbacks) # Abort
      PROVE  /\ "returns" \in DOMAIN RakuParameterType(p, m.callbacks)
             /\ DOMAIN RakuParameterType(p, m.callbacks).parameters
                    = DOMAIN m.callbacks[k].parameters
    <2> DEFINE n == CHOOSE x \in DOMAIN m.callbacks : m.callbacks[x].name = p.cType
    <2>1. n \in DOMAIN m.callbacks /\ m.callbacks[n].name = p.cType
        BY <1>8
    <2> HIDE DEF n
    <2>2. n = k
        BY <1>2, <1>8, <2>1 DEF DistinctNames
    <2>3. RakuParameterType(p, m.callbacks) = CallbackSignature(p, m.callbacks[k])
        BY <1>8, <2>2 DEF RakuParameterType, n
    <2> DEFINE types == [x \in DOMAIN m.callbacks[k].parameters |->
                            PlainType(m.callbacks[k].parameters[x])]
    <2>4. CallbackSignature(p, m.callbacks[k])
              = [name |-> p.name, parameters |-> types,
                 returns |-> RAKU_RETURN_TYPES[m.callbacks[k].returnType]]
        BY <1>8, <2>3 DEF CallbackSignature
    <2> QED BY <2>3, <2>4
<1>9. ASSUME NEW i \in DOMAIN subs, NEW j \in DOMAIN prototypes[i].parameters
      PROVE  /\ subs[i].parameters[j].type # Abort
             /\ \A k \in DOMAIN typedefs :
                   /\ typedefs[k].name = prototypes[i].parameters[j][1]
                   /\ m.functions[i].parameters[j].rakuType = Missing
                   => /\ "returns" \in DOMAIN subs[i].parameters[j].type
                      /\ DOMAIN subs[i].parameters[j].type.parameters
                             = DOMAIN typedefs[k].parameters
    <2> DEFINE p == m.functions[i].parameters[j]
    <2>1. /\ i \in DOMAIN m.functions /\ j \in DOMAIN m.functions[i].parameters
          /\ prototypes[i].parameters[j][1] = p.cType
          /\ subs[i].parameters[j].type = RakuParameterType(p, m.callbacks)
        BY <1>4, <1>6
    <2>2. RakuParameterType(p, m.callbacks) # Abort
        BY <1>7, <2>1
    <2> HIDE DEF p
    <2> QED BY <1>5, <1>6, <1>8, <2>1, <2>2 DEF p
<1>10. \A i \in DOMAIN subs : /\ subs[i].symbol = prototypes[i].name
                              /\ DOMAIN subs[i].parameters = DOMAIN prototypes[i].parameters
    BY <1>4, <1>6
<1> QED BY <1>3, <1>9, <1>10 DEF m, subs, prototypes, typedefs

\* The header and the Raku module that are being written or checked say the same,
\* for any contract that is accepted: the mask is the union of the macros and
\* fits, ownership is kept, and subs go with prototypes (generate-raku-provider-
\* abi.py:82-98, 195-221, 236-310, 327-449).
THEOREM RenderingsAgree == Spec => []OutputsAgree
<1>1. TypeOK => OutputsAgree
    <2> SUFFICES ASSUME TypeOK, pc # "idle" PROVE OutputsAgree
        BY DEF OutputsAgree
    <2>1. model \in Accepted
        BY DEF TypeOK
    <2>2. Agree(model)
        BY <2>1, MaskOfAccepted, OwnershipOfAccepted, SubsOfAccepted DEF Agree
    <2> QED BY <2>1, <2>2 DEF OutputsAgree, Agreeing
<1> QED BY <1>1, TypeCorrect, PTL
-----------------------------------------------------------------------------
(* The handshake. *)

\* What the rendered files say of their contract.
LEMMA RenderedFields ==
    ASSUME NEW c \in Accepted
    PROVE  /\ Raku[c].required \in 0..2^Width - 1
           /\ Raku[c].required = RequiredMask(Contracts[c])
           /\ Bits(Raku[c].required) = NativeCapabilities(Header[c])
           /\ Bits(Raku[c].required) =
                 UNION {Bits(Raku[c].capabilities[i][2]) : i \in DOMAIN Raku[c].capabilities}
<1> DEFINE m == Contracts[c]
<1>1. Raku[c] = RenderRaku(m) /\ Header[c] = RenderCHeader(m)
    BY DEF Raku, Header
<1>2. Raku[c].required = RequiredMask(m) /\ Raku[c].capabilities = Header[c].capabilities
    BY <1>1 DEF RenderRaku, RenderCHeader
<1>3. /\ Raku[c].required \in 0..2^Width - 1
      /\ Bits(Raku[c].required) = NativeCapabilities(Header[c])
    BY <1>1, MaskOfAccepted
<1> QED BY <1>2, <1>3 DEF NativeCapabilities

\* A module whose getters have their names calls each by its name.
LEMMA AnswerOfGetter ==
    ASSUME NEW r, NEW h, NamesAreTied(r), RakuCompiles(r), NEW g \in Handshake
    PROVE  /\ Answers(r, h, g.name) \subseteq NativeAnswers(g, h)
           /\ HasHandshake(h) => Answers(r, h, g.name) = NativeAnswers(g, h)
<1>1. g \in Range(r.subs) /\ g.parameters = <<>>
    BY DEF NamesAreTied, Handshake, AbiGetter, ApiGetter, CapabilitiesGetter,
           InterfaceIdGetter, ResourceGetter, Getter
<1>2. ASSUME NEW s \in Range(r.subs), s.name = g.name PROVE s = g
    BY <1>1, <1>2 DEF RakuCompiles, DistinctNames, Range
<1>3. HasHandshake(h) => \E p \in Range(h.prototypes) : p.name = g.symbol
    BY DEF HasHandshake
<1> DEFINE called == {s \in Range(r.subs) :
                         /\ s.name = g.name /\ s.parameters = <<>>
                         /\ \E p \in Range(h.prototypes) : p.name = s.symbol}
<1>4. called \subseteq {g} /\ (HasHandshake(h) => called = {g})
    BY <1>1, <1>2, <1>3
<1>5. Answers(r, h, g.name) = UNION {NativeAnswers(s, h) : s \in called}
    BY DEF Answers
<1> HIDE DEF called
<1> QED BY <1>4, <1>5

\* The getters return the numbers of the header, the union of its macros and the
\* sizes.
LEMMA AnswersAre ==
    ASSUME NEW h
    PROVE  /\ NativeAnswers(AbiGetter, h) = {h.abi}
           /\ NativeAnswers(ApiGetter, h) = {h.api}
           /\ NativeAnswers(CapabilitiesGetter, h) =
                 {n \in 0..2^Width - 1 : Bits(n) = NativeCapabilities(h)}
           /\ NativeAnswers(InterfaceIdGetter, h) = {InterfaceIdSize}
           /\ NativeAnswers(ResourceGetter, h) = {ResourceSize}
BY DEF NativeAnswers, AbiGetter, ApiGetter, CapabilitiesGetter, InterfaceIdGetter,
       ResourceGetter, Getter

\* The handshake takes the compatible libraries and no others, for any contracts
\* that are accepted and whose getters have their names: a sum of bits is asked
\* for, a disjunction is offered, and both are called by name
\* (generate-raku-provider-abi.py:328-329, 424-448).
THEOREM HandshakesAreSafe == Spec => []HandshakeIsSafe
<1>1. ASSUME NEW c \in Accepted, NEW d \in Accepted, NamesAreTied(Raku[c])
      PROVE  /\ <<c, d>> \in Takes => <<c, d>> \in Compatible
             /\ /\ <<c, d>> \in Compatible
                /\ RakuCompiles(Raku[c]) /\ HasHandshake(Header[d])
                => <<c, d>> \in Takes
    <2> DEFINE r == Raku[c]
               h == Header[d]
    <2>1. <<c, d>> \in Takes <=> ValidateProviderAbi(r, h)
        BY DEF Takes
    <2>2. /\ r.required \in 0..2^Width - 1
          /\ Bits(r.required) = UNION {Bits(r.capabilities[i][2]) : i \in DOMAIN r.capabilities}
        BY RenderedFields
    <2>3. \E n \in 0..2^Width - 1 : Bits(n) = NativeCapabilities(h)
        BY RenderedFields
    <2>4. <<c, d>> \in Compatible <=> /\ h.abi = r.abi /\ h.api >= r.api
                                       /\ Bits(r.required) \subseteq NativeCapabilities(h)
        BY <2>2 DEF Compatible
    <2>5. /\ "provider-abi-version" = AbiGetter.name /\ AbiGetter \in Handshake
          /\ "provider-api-revision" = ApiGetter.name /\ ApiGetter \in Handshake
          /\ "provider-capabilities" = CapabilitiesGetter.name /\ CapabilitiesGetter \in Handshake
          /\ "provider-sizeof-interface-id" = InterfaceIdGetter.name
          /\ InterfaceIdGetter \in Handshake
          /\ "provider-sizeof-resource" = ResourceGetter.name /\ ResourceGetter \in Handshake
        BY DEF Handshake, AbiGetter, ApiGetter, CapabilitiesGetter, InterfaceIdGetter,
               ResourceGetter, Getter
    <2>6. NamesAreTied(r)
        BY <1>1
    <2> HIDE DEF r, h
    <2>7. ASSUME ValidateProviderAbi(r, h) PROVE <<c, d>> \in Compatible
        <3>0. RakuCompiles(r)
            BY <2>7 DEF ValidateProviderAbi
        <3>1. r.abi \in NativeAnswers(AbiGetter, h)
            BY <2>5, <2>6, <2>7, <3>0, AnswerOfGetter DEF ValidateProviderAbi
        <3>2. \E api \in NativeAnswers(ApiGetter, h) : api >= r.api
            BY <2>5, <2>6, <2>7, <3>0, AnswerOfGetter DEF ValidateProviderAbi
        <3>3. \E mask \in NativeAnswers(CapabilitiesGetter, h) : Bits(r.required) \subseteq Bits(mask)
            BY <2>5, <2>6, <2>7, <3>0, AnswerOfGetter DEF ValidateProviderAbi
        <3> QED BY <2>4, <3>1, <3>2, <3>3, AnswersAre
    <2>8. ASSUME <<c, d>> \in Compatible, RakuCompiles(r), HasHandshake(h)
          PROVE  ValidateProviderAbi(r, h)
        <3>0. ASSUME NEW g \in Handshake PROVE Answers(r, h, g.name) = NativeAnswers(g, h)
            BY <2>6, <2>8, AnswerOfGetter
        <3>1. r.abi \in Answers(r, h, "provider-abi-version")
            BY <2>4, <2>5, <2>8, <3>0, AnswersAre
        <3>2. \E api \in Answers(r, h, "provider-api-revision") : api >= r.api
            BY <2>4, <2>5, <2>8, <3>0, AnswersAre
        <3>3. \E mask \in Answers(r, h, "provider-capabilities") : Bits(r.required) \subseteq Bits(mask)
            BY <2>3, <2>4, <2>5, <2>8, <3>0, AnswersAre
        <3>4. /\ InterfaceIdSize \in Answers(r, h, "provider-sizeof-interface-id")
              /\ ResourceSize \in Answers(r, h, "provider-sizeof-resource")
            BY <2>5, <3>0, AnswersAre
        <3> QED BY <2>8, <3>1, <3>2, <3>3, <3>4 DEF ValidateProviderAbi
    <2> QED BY <2>1, <2>7, <2>8 DEF r, h
<1>2. HandshakeIsSafe
    BY <1>1 DEF HandshakeIsSafe, Tied
<1> QED BY <1>2, PTL
=============================================================================
