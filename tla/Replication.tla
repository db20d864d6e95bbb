----------------------------- MODULE Replication -----------------------------
(***************************************************************************)
(* Replicas that keep a value of a built-in lattice type and merge what     *)
(* they receive with join, as lib.rs:56-58 and the guide                   *)
(* docs/guides/03-crdt-cookbook.md (lines 15-40) have it.                   *)
(*                                                                         *)
(* The crate has no network.  A state, once sent, may arrive late, twice,   *)
(* out of order, or never: the network is a set that only grows, and        *)
(* nothing says that a message is ever received.                           *)
(***************************************************************************)
EXTENDS LatticeImpls

CONSTANTS Replicas,
          UpdateBound,  \* bound: different updates
          NetBound      \* bound: different states under way

ASSUME BoundAssumption == UpdateBound \in Nat /\ NetBound \in Nat

VARIABLES type,      \* the type of the values
          state,     \* the value of each replica
          net,       \* the states that were sent
          observed   \* the updates that a state stands for (history)

vars == <<type, state, net, observed>>

TypeOK ==
    /\ type \in Types
    /\ state \in [Replicas -> IF type = "vec" THEN Seq(Elements) ELSE Operands(type)]
    /\ observed \in [Replicas -> SUBSET Operands(type)]
    /\ \A m \in net : m.observed \subseteq Operands(type)

Init ==
    /\ type \in Types
    /\ state \in [Replicas -> Operands(type)]
    /\ observed = [r \in Replicas |-> {state[r]}]
    /\ Cardinality({state[r] : r \in Replicas}) <= UpdateBound
    /\ net = {}

\* The replica joins an update of its own.
Update(r, x) ==
    /\ Cardinality(UNION {observed[s] : s \in Replicas} \cup {x}) <= UpdateBound
    /\ state' = [state EXCEPT ![r] = Join(type, @, x)]
    /\ observed' = [observed EXCEPT ![r] = @ \cup {x}]
    /\ UNCHANGED <<type, net>>

Send(r) ==
    /\ net' = net \cup {[state |-> state[r], observed |-> observed[r]]}
    /\ Cardinality(net') <= NetBound
    /\ UNCHANGED <<type, state, observed>>

Merge(r, m) ==
    /\ state' = [state EXCEPT ![r] = Join(type, @, m.state)]
    /\ observed' = [observed EXCEPT ![r] = @ \cup m.observed]
    /\ UNCHANGED <<type, net>>

Next ==
    \E r \in Replicas :
        \/ \E x \in Operands(type) : Update(r, x)
        \/ Send(r)
        \/ \E m \in net : Merge(r, m)

Spec == Init /\ [][Next]_vars
-----------------------------------------------------------------------------
(* Properties *)

\* Replicas that have observed the same updates hold values that compare equal
\* under Rust's ==, in whatever order, how often and in whatever batches the
\* updates came; Vecs hold the same elements, in an order that may differ.  The
\* one exception are replicas that have observed nothing but NaN: they hold NaN
\* and never compare equal, while a NaN among numbers does no harm (lib.rs:40-47,
\* 56-58, 104-210; docs/guides/03-crdt-cookbook.md:15-17; docs/engineering/
\* 03-security.md:29-31).
Converges ==
    \A r, s \in Replicas :
        observed[r] = observed[s] =>
            IF type = "vec" THEN Range(state[r]) = Range(state[s])
            ELSE Equal(type, state[r], state[s]) <=> ~(type = "float" /\ observed[r] \subseteq {NaN})

\* A late or repeated message never takes back what a replica knew: every
\* step goes up in the order of the type.  A float may leave NaN, once, and
\* never comes back to it; a Vec only grows at its end (lib.rs:104-210).
Grown(x, y) ==
    CASE type = "float" -> x.nan \/ Below(type, x, y)
      [] type = "vec"   -> IsPrefix(x, y)
      [] OTHER          -> Below(type, x, y)

NeverGoesBack == [][\A r \in Replicas : Grown(state[r], state'[r])]_vars

\* In every lawful type join is the least upper bound and meet the greatest
\* lower bound of the documented order, at every value that replicas reach
\* (lib.rs:104-196).
JoinAndMeetAreBounds ==
    type \in Lawful =>
        \A r \in Replicas : \A y \in Operands(type) :
            /\ IsJoin(type, Operands(type), state[r], y, Join(type, state[r], y))
            /\ IsMeet(type, Operands(type), state[r], y, Meet(type, state[r], y))

\* On the NaN-free floats the same holds; a NaN meets and joins like the
\* absent value, so that a result is NaN only if both operands are (lib.rs:
\* 124-149).
NaNIsDropped ==
    type = "float" =>
        \A r \in Replicas : \A y \in Floats :
            LET x == state[r]
                j == FloatJoin(x, y)
                m == FloatMeet(x, y)
            IN  /\ (j.nan \/ m.nan) => x.nan /\ y.nan
                /\ (~x.nan /\ ~y.nan) => /\ IsJoin("float", Floats \ {NaN}, x, y, j)
                                         /\ IsMeet("float", Floats \ {NaN}, x, y, m)

\* A Vec is merged up to its content like a HashSet, adding an element it did
\* not have exactly once, whatever the operands repeat (lib.rs:198-217).
VecIsABiasedSet ==
    type = "vec" =>
        \A x \in {state[r] : r \in Replicas} :
            \A y \in Vecs :
                /\ Range(VecJoin(x, y)) = SetJoin(Range(x), Range(y))
                /\ Range(VecMeet(x, y)) = SetMeet(Range(x), Range(y))
                /\ \A e \in Elements :
                      Count(VecJoin(x, y), e) = IF e \in Range(x) THEN Count(x, e)
                                                ELSE IF e \in Range(y) THEN 1 ELSE 0

\* On Vec values, not only on their content, both operations are idempotent and
\* associative and both absorption laws hold.  The documentation denies the last
\* two of raw Vecs (README.md:105, docs/theory/03-lawfulness-and-proofs.md:198-205
\* and 215, lib.rs:43-45, tests/lattice_laws.rs:127-128); of lib.rs:198-217 only
\* commutativity fails.
VecLawsOnValues ==
    type = "vec" =>
        \A x \in {state[r] : r \in Replicas} :
            /\ VecJoin(x, x) = x /\ VecMeet(x, x) = x
            /\ \A y \in Vecs :
                  LET j == VecJoin(x, y)
                      m == VecMeet(x, y)
                  IN  /\ VecJoin(x, m) = x /\ VecMeet(x, j) = x
                      /\ \A s \in Replicas :
                            LET z == state[s]
                            IN  /\ VecJoin(j, z) = VecJoin(x, VecJoin(y, z))
                                /\ VecMeet(m, z) = VecMeet(x, VecMeet(y, z))
=============================================================================
