------------------------------ MODULE LawCheck ------------------------------
(***************************************************************************)
(* The law checkers of the two packages, validate-laws of Raku             *)
(* (LLattice.rakumod:113-136) and validate_laws of Julia                   *)
(* (LLattice.jl:103-129), which are the same three nested loops over the   *)
(* samples: pairs, single items, triples.  The body of each loop asks for  *)
(* its laws in order, and the first that does not hold is the exception    *)
(* the checker ends with.                                                  *)
(*                                                                         *)
(* An algebra is whatever class the samples are of: nothing is assumed of  *)
(* its join and meet but that they respect the equality that is asked for. *)
(***************************************************************************)
EXTENDS Naturals, Sequences

CONSTANTS Algebras,         \* classes of values
          Carrier(_),       \* the values of a class
          Join(_, _, _),    \* Join(A, x, y)
          Meet(_, _, _),
          Equal(_, _, _),   \* equivalent of Raku, the argument equal of Julia
          SampleBound       \* bound: number of samples

ASSUME SampleBoundAssumption == SampleBound \in Nat

\* The operations stay in the class.
ASSUME ClosureAssumption ==
    \A A \in Algebras : \A x, y \in Carrier(A) :
        /\ Join(A, x, y) \in Carrier(A)
        /\ Meet(A, x, y) \in Carrier(A)
        /\ Equal(A, x, y) \in BOOLEAN

\* Equality is symmetric and transitive, but a NaN need not equal itself, and
\* equal values are merged to equal values.
ASSUME EqualAssumption ==
    \A A \in Algebras : \A x, y, z \in Carrier(A) :
        /\ Equal(A, x, y) => Equal(A, y, x)
        /\ Equal(A, x, y) /\ Equal(A, y, z) => Equal(A, x, z)
        /\ Equal(A, x, y) /\ Equal(A, z, z) =>
              /\ Equal(A, Join(A, x, z), Join(A, y, z))
              /\ Equal(A, Join(A, z, x), Join(A, z, y))
              /\ Equal(A, Meet(A, x, z), Meet(A, y, z))
              /\ Equal(A, Meet(A, z, x), Meet(A, z, y))

VARIABLES algebra,  \* the class of the samples
          samples,  \* @samples, or values
          loop,     \* the loop the checker is in, 1 to 3, or 0 before the first
          cursor,   \* the positions of its loop variables
          verdict,  \* "running", "accepted", "empty" or "rejected"
          fault     \* the law of the loop that was not satisfied, or 0

vars == <<algebra, samples, loop, cursor, verdict, fault>>
-----------------------------------------------------------------------------
(* The laws; each is asked for of join and of meet. *)

Op(A, op, x, y) == IF op = "join" THEN Join(A, x, y) ELSE Meet(A, x, y)

Dual(op) == IF op = "join" THEN "meet" ELSE "join"

Commutes(A, op, x, y) == Equal(A, Op(A, op, x, y), Op(A, op, y, x))

\* Mutant: the result is compared with the wrong operand.
Absorbs_IntoOther(A, op, x, y) == Equal(A, Op(A, op, x, Op(A, Dual(op), x, y)), y)

Absorbs(A, op, x, y) == Equal(A, Op(A, op, x, Op(A, Dual(op), x, y)), x)

IsIdempotent(A, op, x) == Equal(A, Op(A, op, x, x), x)

Associates(A, op, x, y, z) ==
    Equal(A, Op(A, op, Op(A, op, x, y), z), Op(A, op, x, Op(A, op, y, z)))

\* What each loop body asks for, in its order.
Laws == << << <<"commutes", "join">>, <<"commutes", "meet">>,
              <<"absorbs", "join">>, <<"absorbs", "meet">> >>,
           << <<"idempotent", "join">>, <<"idempotent", "meet">> >>,
           << <<"associates", "join">>, <<"associates", "meet">> >> >>

\* Mutant: the pairs are taken from one loop variable.
Depth_Diagonal == <<1, 1, 3>>

\* How many loop variables each loop has.
Depth == <<2, 1, 3>>

\* Does the law hold for the samples at the positions c?
HoldsAt(law, c) ==
    LET x == samples[c[1]]
        y == samples[c[2]]
        z == samples[c[3]]
    IN  CASE law[1] = "commutes"      -> Commutes(algebra, law[2], x, y)
          [] law[1] = "absorbs"       -> Absorbs(algebra, law[2], x, y)
          [] law[1] = "idempotent" -> IsIdempotent(algebra, law[2], x)
          [] law[1] = "associates"    -> Associates(algebra, law[2], x, y, z)

LawsHoldAt(l, c) == \A n \in DOMAIN Laws[l] : HoldsAt(Laws[l][n], c)
-----------------------------------------------------------------------------
Start == [v \in 1..3 |-> 1]

Init ==
    /\ algebra \in Algebras
    /\ samples \in UNION {[1..n -> Carrier(algebra)] : n \in 0..SampleBound}
    /\ loop = 0
    /\ cursor = Start
    /\ verdict = "running"
    /\ fault = 0

\* At least one sample is required.
Begin ==
    /\ loop = 0 /\ verdict = "running"
    /\ IF Len(samples) = 0 THEN verdict' = "empty" /\ UNCHANGED loop
                           ELSE loop' = 1 /\ UNCHANGED verdict
    /\ UNCHANGED <<algebra, samples, cursor, fault>>

\* Mutant: any law that fails is reported.
Reject_AnyLaw ==
    /\ loop # 0 /\ verdict = "running"
    /\ \E n \in DOMAIN Laws[loop] : ~HoldsAt(Laws[loop][n], cursor) /\ fault' = n
    /\ verdict' = "rejected"
    /\ UNCHANGED <<algebra, samples, loop, cursor>>

\* The first law of the loop body that fails ends the check.
Reject ==
    /\ loop # 0 /\ verdict = "running"
    /\ \E n \in DOMAIN Laws[loop] :
          /\ ~HoldsAt(Laws[loop][n], cursor)
          /\ \A m \in 1..n - 1 : HoldsAt(Laws[loop][m], cursor)
          /\ fault' = n
    /\ verdict' = "rejected"
    /\ UNCHANGED <<algebra, samples, loop, cursor>>

\* The innermost loop variable that is not at its end goes on, and those
\* inside it start again.
Advance ==
    /\ loop # 0 /\ verdict = "running"
    /\ LawsHoldAt(loop, cursor)
    /\ \E v \in 1..Depth[loop] :
          /\ cursor[v] < Len(samples)
          /\ \A w \in v + 1..Depth[loop] : cursor[w] = Len(samples)
          /\ cursor' = [w \in 1..3 |-> CASE w < v -> cursor[w]
                                         [] w = v -> cursor[w] + 1
                                         [] w > v -> 1]
    /\ UNCHANGED <<algebra, samples, loop, verdict, fault>>

\* All loop variables are at their ends: the next loop, or True.
NextLoop ==
    /\ loop # 0 /\ verdict = "running"
    /\ LawsHoldAt(loop, cursor)
    /\ \A v \in 1..Depth[loop] : cursor[v] = Len(samples)
    /\ IF loop = 3 THEN verdict' = "accepted" /\ UNCHANGED <<loop, cursor>>
                   ELSE loop' = loop + 1 /\ cursor' = Start /\ UNCHANGED verdict
    /\ UNCHANGED <<algebra, samples, fault>>

Next == Begin \/ Reject \/ Advance \/ NextLoop

Spec == Init /\ [][Next]_vars
-----------------------------------------------------------------------------
(* Properties *)

Samples == {samples[n] : n \in DOMAIN samples}

\* The order that a join and a meet stand for.
Below(A, x, y) == Equal(A, Join(A, x, y), y)
Above(A, x, y) == Equal(A, Meet(A, x, y), y)

\* On S, equality is reflexive and join and meet give one and the same partial
\* order, in which they are the least upper and greatest lower bounds.
BoundsOn(A, S) ==
    /\ \A x \in S : Equal(A, x, x)
    /\ \A x, y \in S :
          /\ Below(A, x, y) <=> Above(A, y, x)
          /\ Below(A, x, y) /\ Below(A, y, x) => Equal(A, x, y)
          /\ Below(A, x, Join(A, x, y)) /\ Below(A, y, Join(A, x, y))
          /\ Above(A, x, Meet(A, x, y)) /\ Above(A, y, Meet(A, x, y))
    /\ \A x, y, u \in S :
          /\ Below(A, x, y) /\ Below(A, y, u) => Below(A, x, u)
          /\ Below(A, x, u) /\ Below(A, y, u) => Below(A, Join(A, x, y), u)
          /\ Above(A, x, u) /\ Above(A, y, u) => Above(A, Meet(A, x, y), u)

\* What True stands for: on the samples the operations are bounds of one
\* order, even where a join or a meet is not a sample itself
\* (rakumod:113-135; LLattice.jl:101: "returns `true` only when every lattice
\* law holds").
AcceptedAreBounds ==
    verdict = "accepted" => Len(samples) > 0 /\ BoundsOn(algebra, Samples)

\* A class that is a lattice is never turned down, whatever its samples are
\* (LLattice.jl:106-127).
LatticesPass == BoundsOn(algebra, Carrier(algebra)) => verdict # "rejected"

Positions == [1..3 -> DOMAIN samples]

\* The loop variables that loop l does not have stay at the start.
PositionsOf(l) == {p \in Positions : \A w \in 1..3 : w > Depth[l] => p[w] = 1}

Precedes(p, c) == \E v \in 1..3 : p[v] < c[v] /\ \A w \in 1..v - 1 : p[w] = c[w]

\* The exception names a law that fails and was the first to fail: everything
\* the loops ask for before it holds (LLattice.jl:100: "with the first
\* counterexample").
FirstCounterexample ==
    verdict = "rejected" =>
        /\ \A l \in 1..loop - 1 : \A p \in PositionsOf(l) : LawsHoldAt(l, p)
        /\ \A p \in PositionsOf(loop) : Precedes(p, cursor) => LawsHoldAt(loop, p)
        /\ ~HoldsAt(Laws[loop][fault], cursor)
        /\ \A m \in 1..fault - 1 : HoldsAt(Laws[loop][m], cursor)
=============================================================================
