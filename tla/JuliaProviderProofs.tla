------------------------- MODULE JuliaProviderProofs -------------------------
(***************************************************************************)
(* Reference counts and object lifetimes of the Julia provider, for any     *)
(* threads, handles, addresses, domains, values and foreign resources, with *)
(* and without finalizers.                                                  *)
(***************************************************************************)
EXTENDS JuliaProvider, FiniteSetTheorems, SequenceTheorems, TLAPS

Makes == Merges \cup {"provider"}

\* What holds of the locals of one callback by themselves.
FrameOK(f) ==
    /\ f \in Frames
    /\ f.op = Null <=> f.pc = "idle"
    /\ f.message # Null <=> f.pc \in {"record", "failed", "escaped"}
    /\ f.op \in Callbacks \cup {"host_value", "retain", "release"} => f.context # Null
    /\ f.pc = "state" => f.op \in Callbacks \cup {"host_value"} /\ f.next = 1
    /\ f.pc = "operand" =>
          f.op \in Merges \cup {"equal"} /\ f.state # Null /\ f.next \in DOMAIN f.operands
    /\ f.pc = "encode" => f.op = "stable_bytes"
    /\ f.pc = "diagnose" => f.op = "diagnostic"
    /\ f.pc = "register" => f.op \in Makes /\ f.state # Null
    /\ f.pc = "retain" => f.op = "retain" /\ f.out # Null
    /\ f.pc = "release" => f.op = "release"
    /\ f.state # Null => f.result \in Values
    /\ f.op \notin Merges \cup {"equal"} => f.operands = <<>>
    /\ f.op = "equal" => Len(f.operands) = 1

LEMMA NullIsNothing ==
    /\ Null \notin Callbacks /\ Null \notin Makes /\ Null \notin Merges
    /\ Null \notin Messages /\ Null \notin States /\ Null \notin Addresses
    /\ Null \notin Foreign /\ Null \notin Handles /\ Null \notin Threads
    /\ Null # "equal" /\ Null # "provider" /\ Null # "host_value" /\ Null # "retain"
    /\ Null # "release"
BY NullAssumption DEF Callbacks, Merges, Makes

\* The fields of a frame, one by one.
LEMMA FrameFields ==
    ASSUME NEW f, FrameOK(f)
    PROVE  /\ f.op \in Callbacks \cup {"provider", "host_value", "retain", "release", Null}
           /\ f.context \in Addresses \cup {Null}
           /\ f.operands \in Seq(Addresses \cup Foreign) /\ f.handles \in SUBSET Handles
           /\ f.state \in States \cup {Null} /\ f.root \in Addresses \cup {Null}
           /\ f.next \in Nat /\ f.next >= 1
           /\ f.result \in Values \cup {Null} /\ f.equal \in BOOLEAN
           /\ f.out \in Handles \cup {Null} /\ f.message \in Messages \cup {Null}
BY DEF FrameOK, Frames

LEMMA IdleOK == FrameOK(Idle)
<1>1. Idle \in Frames
    BY EmptySeq DEF Frames, Idle
<1>2. /\ Idle.pc = "idle" /\ Idle.op = Null /\ Idle.context = Null /\ Idle.operands = <<>>
      /\ Idle.state = Null /\ Idle.out = Null /\ Idle.message = Null
    BY DEF Idle
<1> QED BY <1>1, <1>2, NullIsNothing DEF FrameOK

\* The callback goes on with the same arguments.
SameCall(f, g) ==
    /\ g.op = f.op /\ g.context = f.context /\ g.operands = f.operands
    /\ g.handles = f.handles /\ g.out = f.out

LEMMA ThrewOK ==
    ASSUME NEW f, FrameOK(f), NEW why \in Messages, f.pc \in {"encode", "operand"}
    PROVE  LET g == Threw(f, why)
           IN  FrameOK(g) /\ SameCall(f, g) /\ g.pc = "record"
<1> DEFINE g == Threw(f, why)
<1>1. f \in Frames
    BY DEF FrameOK
<1>2. /\ g.pc = "record" /\ g.message = why /\ g \in Frames
      /\ g.op = f.op /\ g.context = f.context /\ g.operands = f.operands
      /\ g.handles = f.handles /\ g.out = f.out /\ g.state = f.state /\ g.result = f.result
      /\ g.next = f.next
    BY <1>1 DEF Threw, Frames
<1> HIDE DEF g
<1>3. FrameOK(g)
    BY <1>2, NullIsNothing DEF FrameOK
<1> QED BY <1>2, <1>3 DEF g, SameCall

\* Where the loop over the operands goes on.
LEMMA AfterOperand ==
    ASSUME NEW f, FrameOK(f), f.pc = "operand"
    PROVE  LET pc == CASE ~IsLastOperand(f) -> "operand"
                       [] f.op = "equal"    -> "returned"
                       [] OTHER             -> "register"
           IN  /\ pc \in {"operand", "returned", "register"}
               /\ pc = "operand" => f.next + 1 \in DOMAIN f.operands
               /\ pc = "register" => f.op \in Merges
<1>1. PICK next, length : next = f.next /\ length = Len(f.operands)
    OBVIOUS
<1>2. f.operands \in Seq(Addresses \cup Foreign) /\ f.op \in Merges \cup {"equal"}
    BY FrameFields DEF FrameOK
<1>3. /\ length \in Nat /\ DOMAIN f.operands = 1..length /\ next \in 1..length
      /\ f.op = "equal" => length = 1
    BY <1>1, <1>2, LenProperties DEF FrameOK
<1>4. next # length => f.op # "equal" /\ next + 1 \in 1..length
    BY <1>3
<1> DEFINE pc == CASE next # length -> "operand"
                   [] f.op = "equal" -> "returned"
                   [] OTHER          -> "register"
<1>5. /\ pc \in {"operand", "returned", "register"}
      /\ pc = "operand" => next # length
      /\ pc = "register" => f.op # "equal"
    <2>1. CASE next # length
        <3>1. f.op # "equal"
            BY <1>4, <2>1
        <3> QED BY <2>1, <3>1
    <2>2. CASE next = length
        BY <2>2
    <2> QED BY <2>1, <2>2
<1> HIDE DEF pc
<1>6. /\ pc \in {"operand", "returned", "register"}
      /\ pc = "operand" => next + 1 \in DOMAIN f.operands
      /\ pc = "register" => f.op \in Merges
    BY <1>2, <1>3, <1>4, <1>5
<1> QED BY <1>1, <1>6 DEF pc, IsLastOperand

\* An operand that was found, or borrowed and decoded.
LEMMA OperandOK ==
    ASSUME NEW f, FrameOK(f), f.pc = "operand", NEW operand,
           operand.value \in Values, NEW g \in WithOperand(f, operand)
    PROVE  FrameOK(g) /\ SameCall(f, g) /\ g.pc \in {"operand", "register", "returned", "record"}
<1>1. /\ f \in Frames /\ f.state \in States /\ f.result \in Values
      /\ f.next \in DOMAIN f.operands /\ f.op \in Merges \cup {"equal"} /\ f.message = Null
      /\ f.context # Null /\ f.op # Null
    BY FrameFields, NullIsNothing DEF FrameOK, Callbacks
<1>2. "domain" \in Messages /\ "user" \in Messages
    BY DEF Messages
<1>3. CASE g = Threw(f, "domain") \/ g = Threw(f, "user")
    BY <1>2, <1>3, ThrewOK
<1>4. CASE ~(g = Threw(f, "domain") \/ g = Threw(f, "user"))
    <2> DEFINE pc == CASE ~IsLastOperand(f) -> "operand"
                       [] f.op = "equal"    -> "returned"
                       [] OTHER             -> "register"
               k  == [f EXCEPT !.next = @ + 1, !.pc = pc]
               e  == [k EXCEPT !.equal = (f.result = operand.value)]
               m  == [k EXCEPT !.result = Apply(f.op, @, operand.value)]
    <2>1. (f.op = "equal" /\ g = e) \/ (f.op # "equal" /\ g = m)
        BY <1>1, <1>4 DEF WithOperand, Combine, Frames
    <2>2. f.next \in Nat /\ f.next >= 1
        BY FrameFields
    <2>3. /\ pc \in {"operand", "returned", "register"}
          /\ pc = "operand" => f.next + 1 \in DOMAIN f.operands
          /\ pc = "register" => f.op \in Merges
        BY AfterOperand
    <2> HIDE DEF pc
    <2>4. k \in Frames /\ k.result = f.result
        <3>1. \A n \in Nat \ {0} : \A p \in {"operand", "returned", "register"} :
                 /\ [f EXCEPT !.next = n, !.pc = p] \in Frames
                 /\ [f EXCEPT !.next = n, !.pc = p].result = f.result
            BY <1>1 DEF Frames
        <3>2. f.next + 1 \in Nat \ {0}
            BY <2>2
        <3> QED BY <2>3, <3>1, <3>2
    <2>5. Apply(f.op, k.result, operand.value) \in Values
        <3> HIDE DEF k
        <3> QED BY <1>1, <2>4, JuliaAssumption DEF Apply
    <2>6. e \in Frames /\ m \in Frames
        <3>1. \A b \in BOOLEAN : [k EXCEPT !.equal = b] \in Frames
            BY <2>4 DEF Frames
        <3>2. \A v \in Values : [k EXCEPT !.result = v] \in Frames
            BY <2>4 DEF Frames
        <3> HIDE DEF k
        <3> QED BY <2>5, <3>1, <3>2
    <2>7. /\ SameCall(f, g) /\ g.pc = pc /\ g.state = f.state /\ g.next = f.next + 1
          /\ g.message = Null /\ g.result \in Values /\ g \in Frames
        <3>1. CASE g = e
            BY <1>1, <2>6, <3>1 DEF Frames, SameCall
        <3>2. CASE g = m
            BY <1>1, <2>5, <2>6, <3>2 DEF Frames, SameCall
        <3> QED BY <2>1, <3>1, <3>2
    <2> HIDE DEF e, m, k
    <2>8. FrameOK(g)
        BY <1>1, <2>3, <2>7, NullIsNothing DEF FrameOK, SameCall, Makes, Merges
    <2> QED BY <2>3, <2>7, <2>8
<1> QED BY <1>3, <1>4
-----------------------------------------------------------------------------
(* The invariant. *)

SharedOK ==
    /\ object \in [Addresses -> States \cup {Null}]
    /\ references \in [Addresses -> Nat]
    /\ diagnostic \in [Addresses -> Messages \cup {Null}]
    /\ registry \in SUBSET Addresses
    /\ lock \in Threads \cup {Null}
    /\ owner \in [Handles -> Addresses \cup {Null}]

FramesOK == frame = [t \in Threads |-> frame[t]] /\ \A t \in Threads : FrameOK(frame[t])

LockInv == \A t \in Threads : lock = t => frame[t].pc \in {"register", "retain", "release"}

RootedInv == \A a \in registry : object[a] # Null /\ references[a] > 0

\* The handles of an object, and the closes of it under way.
OwnersIn(ow, a) == {h \in Handles : ow[h] = a}
ClosingIn(fr, a) == {t \in Threads : fr[t].pc = "release" /\ fr[t].context = a}

\* The count stands for both.
CountOf(n, rooted, references_a) ==
    /\ n > 0 => rooted
    /\ rooted => references_a >= n
    /\ rooted /\ ~Finalizers => references_a = n

CountInv == \A a \in Addresses : CountOf(Owed(a), a \in registry, references[a])

\* The arguments of a callback stay open while it runs.
ArgsOf(f, ow) ==
    /\ \A h \in f.handles : ow[h] # Null
    /\ f.context # Null /\ f.op # "release" => \E h \in f.handles : ow[h] = f.context
    /\ \A n \in DOMAIN f.operands :
          f.operands[n] \in Foreign \/ \E h \in f.handles : ow[h] = f.operands[n]

ArgsInv == \A t \in Threads : ArgsOf(frame[t], owner)

\* Two results do not meet in one handle.
OutInv ==
    /\ \A t \in Threads : frame[t].pc = "retain" => owner[frame[t].out] = Null
    /\ \A t, u \in Threads : t # u /\ frame[t].out # Null => frame[t].out # frame[u].out

IInv == /\ SharedOK /\ FramesOK /\ LockInv /\ RootedInv /\ CountInv /\ ArgsInv /\ OutInv

\* Thread t goes on with the frame g.
Goes(t, g) ==
    /\ FrameOK(g) /\ frame'[t] = g
    /\ \A u \in Threads : u # t => frame'[u] = frame[u]
    /\ frame' = [u \in Threads |-> frame'[u]]

LEMMA MoveGoes ==
    ASSUME FramesOK, NEW t \in Threads, NEW g, FrameOK(g), Move(t, g)
    PROVE  Goes(t, g) /\ FramesOK'
<1>1. frame' = [frame EXCEPT ![t] = g] /\ frame = [u \in Threads |-> frame[u]]
    BY DEF Move, FramesOK
<1>2. frame' = [u \in Threads |-> IF u = t THEN g ELSE frame[u]]
    BY <1>1
<1>3. Goes(t, g)
    BY <1>2 DEF Goes
<1> QED BY <1>3 DEF FramesOK, Goes
-----------------------------------------------------------------------------
(* Counting. *)

LEMMA Counted ==
    ASSUME NEW ow, NEW fr, NEW a
    PROVE  /\ IsFiniteSet(OwnersIn(ow, a)) /\ Cardinality(OwnersIn(ow, a)) \in Nat
           /\ IsFiniteSet(ClosingIn(fr, a)) /\ Cardinality(ClosingIn(fr, a)) \in Nat
<1>1. OwnersIn(ow, a) \subseteq Handles /\ ClosingIn(fr, a) \subseteq Threads
    BY DEF OwnersIn, ClosingIn
<1> QED BY <1>1, JuliaAssumption, FS_Subset, FS_CardinalityType

LEMMA OwedIs ==
    ASSUME NEW a
    PROVE  /\ Owed(a) = Cardinality(OwnersIn(owner, a)) + Cardinality(ClosingIn(frame, a))
           /\ Owed(a) \in Nat
<1>1. Owed(a) = Cardinality(OwnersIn(owner, a)) + Cardinality(ClosingIn(frame, a))
    BY DEF Owed, OwnersIn, ClosingIn
<1> QED BY <1>1, Counted

\* A vacant handle begins to own the object at b.
LEMMA OwnersGrow ==
    ASSUME NEW ow, NEW nw, NEW h \in Handles, NEW b, NEW a, ow[h] = Null, b # Null, a # Null,
           nw[h] = b, \A k \in Handles : k # h => nw[k] = ow[k]
    PROVE  Cardinality(OwnersIn(nw, a)) =
               IF a = b THEN Cardinality(OwnersIn(ow, a)) + 1 ELSE Cardinality(OwnersIn(ow, a))
<1>1. CASE a = b
    <2>1. OwnersIn(nw, a) = OwnersIn(ow, a) \cup {h} /\ h \notin OwnersIn(ow, a)
        BY <1>1 DEF OwnersIn
    <2>2. IsFiniteSet(OwnersIn(ow, a))
        BY Counted
    <2>3. Cardinality(OwnersIn(ow, a) \cup {h}) = Cardinality(OwnersIn(ow, a)) + 1
        BY <2>1, <2>2, FS_AddElement, Zenon
    <2>4. Cardinality(OwnersIn(nw, a)) = Cardinality(OwnersIn(ow, a)) + 1
        BY <2>1, <2>3, Zenon
    <2> QED BY <1>1, <2>4, Zenon
<1>2. CASE a # b
    <2>1. OwnersIn(nw, a) = OwnersIn(ow, a)
        BY <1>2 DEF OwnersIn
    <2> QED BY <1>2, <2>1
<1> QED BY <1>1, <1>2

\* A handle of the object at b is closed.
LEMMA OwnersShrink ==
    ASSUME NEW ow, NEW nw, NEW h \in Handles, NEW b, NEW a, ow[h] = b, b # Null, a # Null,
           nw[h] = Null, \A k \in Handles : k # h => nw[k] = ow[k]
    PROVE  Cardinality(OwnersIn(nw, a)) =
               IF a = b THEN Cardinality(OwnersIn(ow, a)) - 1 ELSE Cardinality(OwnersIn(ow, a))
<1>1. CASE a = b
    <2>1. OwnersIn(nw, a) = OwnersIn(ow, a) \ {h} /\ h \in OwnersIn(ow, a)
        BY <1>1 DEF OwnersIn
    <2>2. IsFiniteSet(OwnersIn(ow, a))
        BY Counted
    <2>3. Cardinality(OwnersIn(ow, a) \ {h}) = Cardinality(OwnersIn(ow, a)) - 1
        BY <2>1, <2>2, FS_RemoveElement, Zenon
    <2>4. Cardinality(OwnersIn(nw, a)) = Cardinality(OwnersIn(ow, a)) - 1
        BY <2>1, <2>3, Zenon
    <2> QED BY <1>1, <2>4, Zenon
<1>2. CASE a # b
    <2>1. OwnersIn(nw, a) = OwnersIn(ow, a)
        BY <1>2 DEF OwnersIn
    <2> QED BY <1>2, <2>1
<1> QED BY <1>1, <1>2

\* A close of the object at b begins.
LEMMA ClosingGrows ==
    ASSUME NEW fr, NEW nf, NEW t \in Threads, NEW b, NEW a, fr[t].pc # "release",
           nf[t].pc = "release", nf[t].context = b,
           \A u \in Threads : u # t => nf[u] = fr[u]
    PROVE  Cardinality(ClosingIn(nf, a)) =
               IF a = b THEN Cardinality(ClosingIn(fr, a)) + 1 ELSE Cardinality(ClosingIn(fr, a))
<1>1. CASE a = b
    <2>1. ClosingIn(nf, a) = ClosingIn(fr, a) \cup {t} /\ t \notin ClosingIn(fr, a)
        BY <1>1 DEF ClosingIn
    <2>2. IsFiniteSet(ClosingIn(fr, a))
        BY Counted
    <2>3. Cardinality(ClosingIn(fr, a) \cup {t}) = Cardinality(ClosingIn(fr, a)) + 1
        BY <2>1, <2>2, FS_AddElement, Zenon
    <2>4. Cardinality(ClosingIn(nf, a)) = Cardinality(ClosingIn(fr, a)) + 1
        BY <2>1, <2>3, Zenon
    <2> QED BY <1>1, <2>4, Zenon
<1>2. CASE a # b
    <2>1. ClosingIn(nf, a) = ClosingIn(fr, a)
        BY <1>2 DEF ClosingIn
    <2> QED BY <1>2, <2>1
<1> QED BY <1>1, <1>2

\* A close of the object at b ends.
LEMMA ClosingShrinks ==
    ASSUME NEW fr, NEW nf, NEW t \in Threads, NEW b, NEW a, fr[t].pc = "release",
           fr[t].context = b, nf[t].pc # "release",
           \A u \in Threads : u # t => nf[u] = fr[u]
    PROVE  Cardinality(ClosingIn(nf, a)) =
               IF a = b THEN Cardinality(ClosingIn(fr, a)) - 1 ELSE Cardinality(ClosingIn(fr, a))
<1>1. CASE a = b
    <2>1. ClosingIn(nf, a) = ClosingIn(fr, a) \ {t} /\ t \in ClosingIn(fr, a)
        BY <1>1 DEF ClosingIn
    <2>2. IsFiniteSet(ClosingIn(fr, a))
        BY Counted
    <2>3. Cardinality(ClosingIn(fr, a) \ {t}) = Cardinality(ClosingIn(fr, a)) - 1
        BY <2>1, <2>2, FS_RemoveElement, Zenon
    <2>4. Cardinality(ClosingIn(nf, a)) = Cardinality(ClosingIn(fr, a)) - 1
        BY <2>1, <2>3, Zenon
    <2> QED BY <1>1, <2>4, Zenon
<1>2. CASE a # b
    <2>1. ClosingIn(nf, a) = ClosingIn(fr, a)
        BY <1>2 DEF ClosingIn
    <2> QED BY <1>2, <2>1
<1> QED BY <1>1, <1>2

\* No close begins or ends.
LEMMA ClosingStays ==
    ASSUME NEW fr, NEW nf, NEW t \in Threads, NEW a, fr[t].pc # "release",
           nf[t].pc # "release", \A u \in Threads : u # t => nf[u] = fr[u]
    PROVE  ClosingIn(nf, a) = ClosingIn(fr, a)
BY DEF ClosingIn

LEMMA OwedNext ==
    ASSUME NEW a
    PROVE  Owed(a)' = Cardinality(OwnersIn(owner', a)) + Cardinality(ClosingIn(frame', a))
BY DEF Owed, OwnersIn, ClosingIn

\* An owner, or a close under way, is a reason to be registered.
LEMMA OwnedIsRooted ==
    ASSUME IInv, NEW a \in Addresses,
           (\E h \in Handles : owner[h] = a)
               \/ \E t \in Threads : frame[t].pc = "release" /\ frame[t].context = a
    PROVE  a \in registry /\ object[a] # Null /\ references[a] > 0 /\ Owed(a) > 0
<1>1. Owed(a) > 0
    <2>1. OwnersIn(owner, a) # {} \/ ClosingIn(frame, a) # {}
        BY DEF OwnersIn, ClosingIn
    <2>2. Cardinality(OwnersIn(owner, a)) > 0 \/ Cardinality(ClosingIn(frame, a)) > 0
        <3>1. OwnersIn(owner, a) # {} => Cardinality(OwnersIn(owner, a)) # 0
            BY Counted, FS_EmptySet
        <3>2. ClosingIn(frame, a) # {} => Cardinality(ClosingIn(frame, a)) # 0
            BY Counted, FS_EmptySet
        <3> QED BY <2>1, <3>1, <3>2, Counted
    <2> QED BY <2>2, OwedIs, Counted
<1> QED BY <1>1 DEF IInv, CountInv, CountOf, RootedInv
-----------------------------------------------------------------------------
(* Steps that leave the handles and the registry alone. *)

\* A handle some callback uses stays what it is.
LEMMA ArgsStay ==
    ASSUME IInv, NEW t \in Threads, NEW g, Goes(t, g), ArgsOf(g, owner'),
           \A h \in Handles : InUse(h) /\ owner[h] # Null => owner'[h] = owner[h]
    PROVE  ArgsInv'
<1> SUFFICES ASSUME NEW u \in Threads PROVE ArgsOf(frame'[u], owner')
    BY DEF ArgsInv
<1>1. CASE u = t
    BY <1>1 DEF Goes
<1>2. CASE u # t
    <2>1. ArgsOf(frame[u], owner) /\ frame[u].handles \in SUBSET Handles /\ frame'[u] = frame[u]
        BY <1>2, FrameFields DEF IInv, ArgsInv, FramesOK, Goes
    <2>2. \A h \in frame[u].handles : owner'[h] = owner[h]
        BY <2>1 DEF ArgsOf, InUse
    <2> QED BY <2>1, <2>2 DEF ArgsOf
<1> QED BY <1>1, <1>2

LEMMA LocalStep ==
    ASSUME IInv, NEW t \in Threads, NEW g, Move(t, g), FrameOK(g), ArgsOf(g, owner),
           g.pc # "release", frame[t].pc \notin {"register", "retain", "release"},
           g.out \in {frame[t].out, Null} \/ ~InUse(g.out),
           g.pc = "retain" => owner[g.out] = Null,
           UNCHANGED <<object, references, registry, lock, owner>>,
           diagnostic' \in [Addresses -> Messages \cup {Null}]
    PROVE  IInv'
<1>1. Goes(t, g) /\ FramesOK'
    BY MoveGoes DEF IInv
<1>2. SharedOK'
    BY DEF IInv, SharedOK
<1>3. frame'[t] = g /\ \A u \in Threads : u # t => frame'[u] = frame[u]
    BY <1>1 DEF Goes
<1>4. LockInv'
    BY <1>3 DEF IInv, LockInv
<1>5. RootedInv'
    BY DEF IInv, RootedInv
<1>6. CountInv'
    <2> SUFFICES ASSUME NEW a \in Addresses
                 PROVE  CountOf(Owed(a)', a \in registry', references'[a])
        BY DEF CountInv
    <2>1. ClosingIn(frame', a) = ClosingIn(frame, a)
        BY <1>3, ClosingStays
    <2>2. Owed(a)' = Owed(a)
        BY <2>1, OwedIs, OwedNext
    <2> QED BY <2>2 DEF IInv, CountInv
<1>7. ArgsInv'
    BY <1>1, ArgsStay
<1>8. OutInv'
    <2>1. \A u \in Threads : u # t /\ g.out # Null => g.out # frame[u].out
        BY DEF IInv, OutInv, InUse
    <2>2. OutInv
        BY DEF IInv
    <2> QED BY <1>3, <2>1, <2>2 DEF OutInv
<1> QED BY <1>1, <1>2, <1>4, <1>5, <1>6, <1>7, <1>8 DEF IInv

\* The callback goes on with what it was called with.
LEMMA CallGoesOn ==
    ASSUME IInv, NEW t \in Threads, NEW g, Move(t, g), FrameOK(g), SameCall(frame[t], g),
           g.pc \notin {"retain", "release"},
           frame[t].pc \notin {"register", "retain", "release"},
           UNCHANGED <<object, references, diagnostic, registry, lock, owner>>
    PROVE  IInv'
<1>1. ArgsOf(g, owner)
    BY DEF IInv, ArgsInv, ArgsOf, SameCall
<1>2. g.out = frame[t].out
    BY DEF SameCall
<1>3. diagnostic' \in [Addresses -> Messages \cup {Null}]
    BY DEF IInv, SharedOK
<1> QED BY <1>1, <1>2, <1>3, LocalStep
-----------------------------------------------------------------------------
(* Entering a callback, provider, host_value, a retain or a close. *)

LEMMA StepEnter ==
    ASSUME IInv, NEW t \in Threads, NEW op \in Operations \ {"provider"}, NEW r \in Handles,
           NEW arguments \in ArgumentLists(op), Enter(t, op, r, arguments)
    PROVE  IInv'
<1> DEFINE hs == {r} \cup (Range(arguments) \cap Handles)
           Target(a) == IF a \in Foreign THEN a ELSE owner[a]
           ops == [n \in DOMAIN arguments |-> Target(arguments[n])]
           k == [Idle EXCEPT !.pc = "state", !.op = op, !.context = owner[r],
                             !.handles = hs, !.operands = ops]
<1>1. PICK g : g = k
    OBVIOUS
<1>2. /\ Move(t, g) /\ frame[t].pc = "idle" /\ \A h \in hs : owner[h] # Null
      /\ UNCHANGED <<object, references, diagnostic, registry, lock, owner>>
    BY <1>1 DEF Enter, heapVars
<1>3. PICK length \in Nat : /\ arguments \in [1..length -> Handles \cup Foreign]
                            /\ op = "equal" => length = 1
                            /\ op \notin Merges \cup {"equal"} => length = 0
    <2>1. CASE op \in Merges
        BY <2>1, JuliaAssumption DEF ArgumentLists, Merges
    <2>2. CASE op = "equal"
        BY <2>2 DEF ArgumentLists, Merges
    <2>3. CASE op \notin Merges /\ op # "equal"
        <3>1. arguments = <<>>
            BY <2>3 DEF ArgumentLists
        <3>2. arguments \in [1..0 -> Handles \cup Foreign]
            BY <3>1
        <3> QED BY <2>3, <3>2
    <2> QED BY <2>1, <2>2, <2>3
<1>4. DOMAIN arguments = 1..length /\ \A n \in 1..length : arguments[n] \in Handles \cup Foreign
    BY <1>3
<1>5. owner \in [Handles -> Addresses \cup {Null}]
    BY DEF IInv, SharedOK
<1>6. \A n \in 1..length : arguments[n] \notin Foreign => arguments[n] \in hs
    BY <1>4 DEF Range
<1>7. \A n \in 1..length : Target(arguments[n]) \in Addresses \cup Foreign
    BY <1>2, <1>4, <1>5, <1>6
<1>8. ops \in [1..length -> Addresses \cup Foreign]
    BY <1>4, <1>7
<1>9. ops \in Seq(Addresses \cup Foreign) /\ Len(ops) = length /\ DOMAIN ops = 1..length
    <2> HIDE DEF ops
    <2>1. ops \in Seq(Addresses \cup Foreign)
        BY <1>8
    <2>2. DOMAIN ops = 1..length
        BY <1>8
    <2>3. Len(ops) = length
        BY <1>3, <2>1, <2>2, LenProperties
    <2> QED BY <2>1, <2>2, <2>3
<1>10. owner[r] \in Addresses /\ hs \in SUBSET Handles
    BY <1>2, <1>5
<1>11. \A n \in 1..length : ops[n] \in Foreign \/ \E h \in hs : owner[h] = ops[n]
    BY <1>4, <1>6
<1>12. PICK operands, handles : operands = ops /\ handles = hs
    OBVIOUS
<1>13. /\ g.pc = "state" /\ g.op = op /\ g.context = owner[r] /\ g.handles = handles
       /\ g.operands = operands /\ g.state = Null /\ g.next = 1
       /\ g.out = Null /\ g.message = Null
    BY <1>1, <1>12 DEF Idle
<1>14. op \in Callbacks \cup {"host_value"}
    BY JuliaAssumption
<1>15. g \in Frames
    <2>1. \A i \in Addresses : \A s \in Seq(Addresses \cup Foreign) : \A z \in SUBSET Handles :
             [Idle EXCEPT !.pc = "state", !.op = op, !.context = i, !.handles = z,
                          !.operands = s] \in Frames
        <3>1. Idle \in Frames
            BY IdleOK DEF FrameOK
        <3> QED BY <1>14, <3>1 DEF Frames
    <2> HIDE DEF ops, hs
    <2> QED BY <1>1, <1>9, <1>10, <2>1
<1>16. operands = <<>> \/ op \in Merges \cup {"equal"}
    <2> HIDE DEF ops, hs
    <2> QED BY <1>3, <1>9, <1>12, EmptySeq
<1>17. op = "equal" => Len(operands) = 1
    <2> HIDE DEF ops, hs
    <2> QED BY <1>3, <1>9, <1>12
<1>18. ArgsOf(g, owner)
    <2> HIDE DEF ops, hs
    <2>1. DOMAIN operands = 1..length
        BY <1>9, <1>12
    <2> QED BY <1>2, <1>10, <1>11, <1>12, <1>13, <2>1 DEF hs, ArgsOf
<1> HIDE DEF k, ops, hs, Target
<1>19. FrameOK(g)
    BY <1>10, <1>13, <1>14, <1>15, <1>16, <1>17, NullIsNothing DEF FrameOK
<1>20. diagnostic' \in [Addresses -> Messages \cup {Null}]
    BY <1>2 DEF IInv, SharedOK
<1> QED BY <1>2, <1>13, <1>18, <1>19, <1>20, LocalStep

LEMMA StepEnterProvider ==
    ASSUME IInv, NEW t \in Threads, NEW source \in Sources, EnterProvider(t, source)
    PROVE  IInv'
<1>1. PICK g : g = [Idle EXCEPT !.pc = "register", !.op = "provider", !.state = source,
                                !.result = source.value]
    OBVIOUS
<1>2. Idle \in Frames /\ source \in States /\ source.value \in Values
    BY IdleOK, JuliaAssumption DEF FrameOK, States
<1>3. /\ g.pc = "register" /\ g.op = "provider" /\ g.state = source
      /\ g.result = source.value /\ g.context = Null /\ g.operands = <<>> /\ g.handles = {}
      /\ g.out = Null /\ g.message = Null
    BY <1>1 DEF Idle
<1>4. g \in Frames
    <2>1. \A v \in Values : \A c \in States :
             [Idle EXCEPT !.pc = "register", !.op = "provider", !.state = c, !.result = v]
                 \in Frames
        BY <1>2 DEF Frames
    <2> QED BY <1>1, <1>2, <2>1
<1>5. FrameOK(g)
    BY <1>2, <1>3, <1>4, NullIsNothing DEF FrameOK, Makes, Merges, Callbacks
<1>6. /\ Move(t, g) /\ frame[t].pc = "idle"
      /\ UNCHANGED <<object, references, diagnostic, registry, lock, owner>>
    BY <1>1 DEF EnterProvider, heapVars
<1>7. ArgsOf(g, owner)
    BY <1>3 DEF ArgsOf
<1>8. diagnostic' \in [Addresses -> Messages \cup {Null}]
    BY <1>6 DEF IInv, SharedOK
<1> QED BY <1>3, <1>5, <1>6, <1>7, <1>8, LocalStep

LEMMA StepEnterRetain ==
    ASSUME IInv, NEW t \in Threads, NEW h \in Handles, NEW k \in Handles, EnterRetain(t, h, k)
    PROVE  IInv'
<1>1. PICK a : a = owner[h]
    OBVIOUS
<1>2. PICK g : g = [Idle EXCEPT !.pc = "retain", !.op = "retain", !.context = a,
                                !.handles = {h}, !.out = k]
    OBVIOUS
<1>3. /\ Move(t, g) /\ frame[t].pc = "idle" /\ a # Null /\ owner[k] = Null /\ ~InUse(k)
      /\ UNCHANGED <<object, references, diagnostic, registry, lock, owner>>
    BY <1>1, <1>2 DEF EnterRetain, Vacant, heapVars
<1>4. a \in Addresses
    BY <1>1, <1>3 DEF IInv, SharedOK
<1>5. /\ g.pc = "retain" /\ g.op = "retain" /\ g.context = a /\ g.operands = <<>>
      /\ g.handles = {h} /\ g.out = k /\ g.message = Null /\ g.state = Null
    BY <1>2 DEF Idle
<1>6. g \in Frames
    <2>1. Idle \in Frames
        BY IdleOK DEF FrameOK
    <2> QED BY <1>2, <1>4, <2>1 DEF Frames
<1>7. FrameOK(g)
    BY <1>3, <1>5, <1>6, NullIsNothing DEF FrameOK, Merges
<1>8. ArgsOf(g, owner)
    BY <1>1, <1>3, <1>5 DEF ArgsOf
<1>9. diagnostic' \in [Addresses -> Messages \cup {Null}]
    BY <1>3 DEF IInv, SharedOK
<1> QED BY <1>3, <1>5, <1>7, <1>8, <1>9, LocalStep

\* A handle gives its reference over to the release that was begun.
LEMMA StepEnterClose ==
    ASSUME IInv, NEW t \in Threads, NEW h \in Handles, EnterClose(t, h)
    PROVE  IInv'
<1>1. PICK b : b = owner[h]
    OBVIOUS
<1>2. PICK g : g = [Idle EXCEPT !.pc = "release", !.op = "release", !.context = b]
    OBVIOUS
<1>3. /\ Move(t, g) /\ frame[t].pc = "idle" /\ b # Null /\ ~InUse(h)
      /\ owner' = [owner EXCEPT ![h] = Null]
      /\ UNCHANGED <<object, references, diagnostic, registry, lock>>
    BY <1>1, <1>2 DEF EnterClose, heapVars
<1>4. b \in Addresses /\ owner \in [Handles -> Addresses \cup {Null}]
    BY <1>1, <1>3 DEF IInv, SharedOK
<1>5. /\ g.pc = "release" /\ g.op = "release" /\ g.context = b /\ g.operands = <<>>
      /\ g.handles = {} /\ g.out = Null /\ g.message = Null /\ g.state = Null
    BY <1>2 DEF Idle
<1>6. g \in Frames
    <2>1. Idle \in Frames
        BY IdleOK DEF FrameOK
    <2> QED BY <1>2, <1>4, <2>1 DEF Frames
<1>7. FrameOK(g)
    BY <1>3, <1>5, <1>6, NullIsNothing DEF FrameOK, Merges
<1>8. Goes(t, g) /\ FramesOK'
    BY <1>3, <1>7, MoveGoes DEF IInv
<1>9. frame'[t] = g /\ \A u \in Threads : u # t => frame'[u] = frame[u]
    BY <1>8 DEF Goes
<1>10. /\ owner[h] = b /\ owner'[h] = Null /\ \A k \in Handles : k # h => owner'[k] = owner[k]
       /\ owner' \in [Handles -> Addresses \cup {Null}]
    BY <1>1, <1>3, <1>4
<1>11. SharedOK'
    BY <1>3, <1>10 DEF IInv, SharedOK
<1>12. LockInv' /\ RootedInv'
    BY <1>3, <1>5, <1>9 DEF IInv, LockInv, RootedInv
<1>13. CountInv'
    <2> SUFFICES ASSUME NEW a \in Addresses
                 PROVE  CountOf(Owed(a)', a \in registry', references'[a])
        BY DEF CountInv
    <2>1. Cardinality(OwnersIn(owner', a)) =
              IF a = b THEN Cardinality(OwnersIn(owner, a)) - 1 ELSE Cardinality(OwnersIn(owner, a))
        <3>1. a # Null /\ b # Null
            BY <1>3, NullIsNothing
        <3> QED BY <1>10, <3>1, OwnersShrink
    <2>2. Cardinality(ClosingIn(frame', a)) =
              IF a = b THEN Cardinality(ClosingIn(frame, a)) + 1 ELSE Cardinality(ClosingIn(frame, a))
        BY <1>3, <1>5, <1>9, ClosingGrows
    <2>3. Owed(a)' = Owed(a)
        BY <2>1, <2>2, OwedIs, OwedNext, Counted
    <2> QED BY <1>3, <2>3 DEF IInv, CountInv
<1>14. ArgsInv'
    <2>1. ArgsOf(g, owner')
        BY <1>5 DEF ArgsOf
    <2>2. \A k \in Handles : InUse(k) /\ owner[k] # Null => owner'[k] = owner[k]
        BY <1>3, <1>10
    <2> QED BY <1>8, <2>1, <2>2, ArgsStay
<1>15. OutInv'
    <2>1. \A u \in Threads : frame[u].pc = "retain" => frame[u].out \in Handles
        BY FrameFields DEF IInv, FramesOK, FrameOK
    <2>2. \A u \in Threads : frame[u].pc = "retain" => owner'[frame[u].out] = Null
        BY <1>10, <2>1 DEF IInv, OutInv
    <2>3. OutInv
        BY DEF IInv
    <2> QED BY <1>5, <1>9, <2>2, <2>3 DEF OutInv
<1> QED BY <1>8, <1>11, <1>12, <1>13, <1>14, <1>15 DEF IInv
-----------------------------------------------------------------------------
(* The steps of a callback that compute. *)

LEMMA StepProviderState ==
    ASSUME IInv, NEW t \in Threads, ProviderState(t)
    PROVE  IInv'
<1>1. PICK f, a : f = frame[t] /\ a = f.context
    OBVIOUS
<1>2. PICK c, v, pc : c = object[a] /\ v = object[a].value /\ pc = AfterState(f)
    OBVIOUS
<1>3. PICK g : g = [f EXCEPT !.state = c, !.result = v, !.root = a, !.pc = pc]
    OBVIOUS
<1>4. /\ f.pc = "state" /\ c # Null /\ Move(t, g)
      /\ UNCHANGED <<object, references, diagnostic, registry, lock, owner>>
    BY <1>1, <1>2, <1>3 DEF ProviderState, heapVars
<1>5. FrameOK(f) /\ f \in Frames
    BY <1>1 DEF IInv, FramesOK, FrameOK
<1>6. /\ f.op \in Callbacks \cup {"host_value"} /\ f.next = 1 /\ a \in Addresses
      /\ f.message = Null /\ f.operands \in Seq(Addresses \cup Foreign)
      /\ f.op \notin Merges \cup {"equal"} => f.operands = <<>>
      /\ f.op = "equal" => Len(f.operands) = 1
    BY <1>1, <1>4, <1>5, FrameFields DEF FrameOK
<1>7. c \in States /\ v \in Values
    BY <1>2, <1>4, <1>6 DEF IInv, SharedOK, States
<1>8. /\ pc \in {"encode", "diagnose", "returned", "operand", "register"}
      /\ pc = "encode" => f.op = "stable_bytes"
      /\ pc = "diagnose" => f.op = "diagnostic"
      /\ pc = "operand" => f.operands # <<>> /\ f.op \in Merges \cup {"equal"}
      /\ pc = "register" => f.op \in Makes
    <2>1. f.op \in {"join", "meet", "equal", "stable_bytes", "diagnostic", "host_value"}
        BY <1>6 DEF Callbacks, Merges
    <2>2. CASE f.op = "stable_bytes"
        <3>1. pc = "encode"
            BY <1>2, <1>6, <2>2 DEF AfterState, Merges
        <3> QED BY <2>2, <3>1
    <2>3. CASE f.op \in {"diagnostic", "host_value"}
        BY <1>2, <1>6, <2>3 DEF AfterState, Merges
    <2>4. CASE f.op \in {"join", "meet"}
        <3>1. /\ f.op \in Merges /\ f.op \in Makes
              /\ f.op # "stable_bytes" /\ f.op \notin {"diagnostic", "host_value"}
            BY <2>4 DEF Makes, Merges
        <3>2. pc = IF f.operands # <<>> THEN "operand" ELSE "register"
            BY <1>2, <3>1 DEF AfterState
        <3> QED BY <3>1, <3>2
    <2>5. CASE f.op = "equal"
        <3>1. f.operands # <<>>
            <4>1. SUFFICES ASSUME f.operands = <<>> PROVE FALSE
                OBVIOUS
            <4>2. Len(<<>>) = 0
                OBVIOUS
            <4>3. Len(f.operands) = 0
                BY <4>1, <4>2, Zenon
            <4> QED BY <1>6, <2>5, <4>3
        <3>2. pc = "operand"
            BY <1>2, <2>5, <3>1 DEF AfterState
        <3> QED BY <2>5, <3>1, <3>2
    <2> QED BY <2>1, <2>2, <2>3, <2>4, <2>5
<1>9. /\ g.op = f.op /\ g.context = f.context /\ g.operands = f.operands
      /\ g.handles = f.handles /\ g.out = f.out /\ g.message = Null
      /\ g.next = 1 /\ g.state = c /\ g.result = v /\ g.pc = pc
    BY <1>3, <1>5, <1>6 DEF Frames
<1>10. g \in Frames
    <2>1. \A z \in States, w \in Values, b \in Addresses :
          \A p \in {"encode", "diagnose", "returned", "operand", "register"} :
             [f EXCEPT !.state = z, !.result = w, !.root = b, !.pc = p] \in Frames
        BY <1>5 DEF Frames
    <2> QED BY <1>3, <1>6, <1>7, <1>8, <2>1
<1>11. g.pc = "operand" => 1 \in DOMAIN g.operands
    <2>1. ASSUME NEW s \in Seq(Addresses \cup Foreign), s # <<>> PROVE 1 \in DOMAIN s
        <3>1. Len(s) \in Nat /\ DOMAIN s = 1..Len(s) /\ Len(s) # 0
            BY <2>1, EmptySeq, LenProperties
        <3> QED BY <3>1
    <2>2. f.operands # <<>> => 1 \in DOMAIN f.operands
        BY <1>6, <2>1
    <2> QED BY <1>8, <1>9, <2>2
<1>12. FrameOK(g)
    <2>1. g.op # Null /\ g.context # Null
        BY <1>1, <1>6, <1>9, NullIsNothing
    <2>2. g.pc \notin {"idle", "record", "failed", "escaped", "state", "retain", "release"}
        BY <1>8, <1>9
    <2>3. g.state # Null /\ g.result \in Values
        BY <1>4, <1>7, <1>9
    <2>4. /\ g.pc = "encode" => g.op = "stable_bytes"
          /\ g.pc = "diagnose" => g.op = "diagnostic"
          /\ g.pc = "operand" => g.op \in Merges \cup {"equal"}
          /\ g.pc = "register" => g.op \in Makes
        BY <1>8, <1>9
    <2>5. /\ g.op \notin Merges \cup {"equal"} => g.operands = <<>>
          /\ g.op = "equal" => Len(g.operands) = 1
        BY <1>6, <1>9
    <2> QED BY <1>9, <1>10, <1>11, <2>1, <2>2, <2>3, <2>4, <2>5 DEF FrameOK
<1>13. SameCall(f, g) /\ g.pc \notin {"retain", "release"}
    BY <1>8, <1>9 DEF SameCall
<1> QED BY <1>1, <1>4, <1>12, <1>13, CallGoesOn

\* The callback goes on, changed only where it is.
LEMMA StepEncode ==
    ASSUME IInv, NEW t \in Threads, Encode(t) \/ Diagnose(t)
    PROVE  IInv'
<1>1. PICK f, g : f = frame[t] /\ g = [f EXCEPT !.pc = "returned"]
    OBVIOUS
<1>2. /\ f.pc \in {"encode", "diagnose"}
      /\ Move(t, g) \/ (f.pc = "encode" /\ Move(t, Threw(f, "user")))
      /\ UNCHANGED <<object, references, diagnostic, registry, lock, owner>>
    BY <1>1 DEF Encode, Diagnose, heapVars
<1>3. FrameOK(f) /\ f \in Frames
    BY <1>1 DEF IInv, FramesOK, FrameOK
<1>4. CASE Move(t, g)
    <2>1. /\ g.op = f.op /\ g.context = f.context /\ g.operands = f.operands
          /\ g.handles = f.handles /\ g.out = f.out /\ g.message = f.message
          /\ g.next = f.next /\ g.state = f.state /\ g.result = f.result
          /\ g.pc = "returned" /\ g \in Frames
        BY <1>1, <1>3 DEF Frames
    <2>2. FrameOK(g)
        BY <1>2, <1>3, <2>1 DEF FrameOK
    <2>3. SameCall(f, g)
        BY <2>1 DEF SameCall
    <2> QED BY <1>1, <1>2, <1>4, <2>1, <2>2, <2>3, CallGoesOn
<1>5. CASE f.pc = "encode" /\ Move(t, Threw(f, "user"))
    <2>1. PICK k : k = Threw(f, "user")
        OBVIOUS
    <2>2. "user" \in Messages
        BY DEF Messages
    <2>3. FrameOK(k) /\ SameCall(f, k) /\ k.pc = "record"
        BY <1>3, <1>5, <2>1, <2>2, ThrewOK
    <2> QED BY <1>1, <1>2, <1>5, <2>1, <2>3, CallGoesOn
<1> QED BY <1>2, <1>4, <1>5

LEMMA StepForeignValue ==
    ASSUME IInv, NEW t \in Threads, ForeignValue(t)
    PROVE  IInv'
<1>1. PICK f, x : f = frame[t] /\ x = f.operands[f.next]
    OBVIOUS
<1>2. /\ f.pc = "operand"
      /\ UNCHANGED <<object, references, diagnostic, registry, lock, owner>>
      /\ IF x \notin Foreign
         THEN object[x] # Null /\ \E g \in WithOperand(f, object[x]) : Move(t, g)
         ELSE \E g \in IF f.state.decode
                       THEN WithOperand(f, ForeignSource[x]) \cup {Threw(f, "user")}
                       ELSE {Threw(f, "decoder")} : Move(t, g)
    BY <1>1 DEF ForeignValue, heapVars
<1>3. FrameOK(f)
    BY <1>1 DEF IInv, FramesOK
<1>4. x \in Addresses \cup Foreign
    BY <1>1, <1>2, <1>3, FrameFields DEF FrameOK
<1>5. "user" \in Messages /\ "decoder" \in Messages
    BY DEF Messages
<1>6. ASSUME NEW why \in Messages, NEW g, g = Threw(f, why), Move(t, g)
      PROVE  IInv'
    <2>1. FrameOK(g) /\ SameCall(f, g) /\ g.pc = "record"
        BY <1>2, <1>3, <1>6, ThrewOK
    <2> QED BY <1>1, <1>2, <1>6, <2>1, CallGoesOn
<1>7. ASSUME NEW operand, operand.value \in Values, NEW g \in WithOperand(f, operand),
             Move(t, g)
      PROVE  IInv'
    <2>1. FrameOK(g) /\ SameCall(f, g) /\ g.pc \in {"operand", "register", "returned", "record"}
        BY <1>2, <1>3, <1>7, OperandOK
    <2> QED BY <1>1, <1>2, <1>7, <2>1, CallGoesOn
<1>8. CASE x \notin Foreign
    <2>1. PICK operand : operand = object[x]
        OBVIOUS
    <2>2. operand \in States /\ operand.value \in Values
        BY <1>2, <1>4, <1>8, <2>1 DEF IInv, SharedOK, States
    <2>3. PICK g \in WithOperand(f, operand) : Move(t, g)
        BY <1>2, <1>8, <2>1
    <2> QED BY <1>7, <2>2, <2>3
<1>9. CASE x \in Foreign
    <2>1. PICK operand : operand = ForeignSource[x]
        OBVIOUS
    <2>2. operand.value \in Values
        BY <1>9, <2>1, JuliaAssumption
    <2>3. \E g : Move(t, g) /\ (g \in WithOperand(f, operand) \/ g = Threw(f, "user")
                                  \/ g = Threw(f, "decoder"))
        <3>1. CASE f.state.decode
            BY <1>2, <1>9, <2>1, <3>1
        <3>2. CASE ~f.state.decode
            BY <1>2, <1>9, <3>2
        <3> QED BY <3>1, <3>2
    <2>4. PICK g : Move(t, g) /\ (g \in WithOperand(f, operand) \/ g = Threw(f, "user")
                                    \/ g = Threw(f, "decoder"))
        BY <2>3
    <2>5. CASE g \in WithOperand(f, operand)
        BY <1>7, <2>2, <2>4, <2>5
    <2>6. CASE g = Threw(f, "user") \/ g = Threw(f, "decoder")
        BY <1>5, <1>6, <2>4, <2>6
    <2> QED BY <2>4, <2>5, <2>6
<1> QED BY <1>8, <1>9

LEMMA StepRecordFailure ==
    ASSUME IInv, NEW t \in Threads, RecordFailure(t)
    PROVE  IInv'
<1>1. PICK f : f = frame[t]
    OBVIOUS
<1>2. PICK pc \in {"failed", "escaped"} :
          /\ f.pc = "record" /\ Move(t, [f EXCEPT !.pc = pc])
          /\ \/ diagnostic' = [diagnostic EXCEPT ![f.root] = f.message]
             \/ diagnostic' = diagnostic
          /\ UNCHANGED <<object, references, registry, lock, owner>>
    BY <1>1 DEF RecordFailure
<1>3. PICK g : g = [f EXCEPT !.pc = pc]
    OBVIOUS
<1>4. FrameOK(f) /\ f \in Frames
    BY <1>1 DEF IInv, FramesOK, FrameOK
<1>5. /\ g.op = f.op /\ g.context = f.context /\ g.operands = f.operands
      /\ g.handles = f.handles /\ g.out = f.out /\ g.message = f.message
      /\ g.next = f.next /\ g.state = f.state /\ g.result = f.result
      /\ g.pc = pc /\ g \in Frames
    BY <1>3, <1>4 DEF Frames
<1>6. FrameOK(g)
    BY <1>2, <1>4, <1>5 DEF FrameOK
<1>7. f.message \in Messages
    BY <1>2, <1>4, FrameFields DEF FrameOK
<1>8. diagnostic' \in [Addresses -> Messages \cup {Null}]
    BY <1>2, <1>7 DEF IInv, SharedOK
<1>9. ArgsOf(g, owner)
    BY <1>1, <1>5 DEF IInv, ArgsInv, ArgsOf
<1>10. Move(t, g) /\ g.out \in {f.out, Null} /\ g.pc \notin {"release", "retain"}
    BY <1>2, <1>3, <1>5
<1> QED BY <1>1, <1>2, <1>6, <1>8, <1>9, <1>10, LocalStep

LEMMA StepReturn ==
    ASSUME IInv, NEW t \in Threads, Return(t)
    PROVE  IInv'
<1>1. PICK g : g = Idle
    OBVIOUS
<1>2. /\ frame[t].pc \in {"returned", "failed", "escaped"} /\ Move(t, g)
      /\ UNCHANGED <<object, references, diagnostic, registry, lock, owner>>
    BY <1>1 DEF Return, heapVars
<1>3. /\ FrameOK(g) /\ g.pc = "idle" /\ g.out = Null /\ g.context = Null /\ g.operands = <<>>
      /\ g.handles = {}
    BY <1>1, IdleOK DEF Idle
<1>4. ArgsOf(g, owner)
    BY <1>3 DEF ArgsOf
<1>5. diagnostic' \in [Addresses -> Messages \cup {Null}]
    BY <1>2 DEF IInv, SharedOK
<1> QED BY <1>2, <1>3, <1>4, <1>5, LocalStep
-----------------------------------------------------------------------------
(* The registry. *)

LEMMA StepAcquireLock ==
    ASSUME IInv, NEW t \in Threads, AcquireLock(t)
    PROVE  IInv'
<1>1. /\ lock' = t /\ frame[t].pc \in {"register", "retain", "release"}
      /\ UNCHANGED <<object, references, diagnostic, registry, owner, frame>>
    BY DEF AcquireLock, heapVars
<1>2. SharedOK' /\ LockInv'
    BY <1>1 DEF IInv, SharedOK, LockInv
<1>3. FramesOK' /\ RootedInv' /\ ArgsInv' /\ OutInv'
    BY <1>1 DEF IInv, FramesOK, RootedInv, ArgsInv, OutInv
<1>4. CountInv'
    BY <1>1, OwedIs, OwedNext DEF IInv, CountInv
<1> QED BY <1>2, <1>3, <1>4 DEF IInv

\* The callback that held the lock returns with what it was called with.
LEMMA UnlockGoes ==
    ASSUME IInv, NEW t \in Threads, NEW g, Goes(t, g), lock = t, lock' = Null
    PROVE  LockInv'
BY NullIsNothing DEF LockInv

LEMMA StepRegister ==
    ASSUME IInv, NEW t \in Threads, Register(t)
    PROVE  IInv'
<1>1. PICK f : f = frame[t]
    OBVIOUS
<1>2. PICK x : x = [f.state EXCEPT !.value = f.result]
    OBVIOUS
<1>3. f.pc = "register" /\ lock = t /\ lock' = Null
    BY <1>1 DEF Register, RegisterWith
<1>4. PICK b \in Addresses, h \in Handles :
          /\ object[b] = Null /\ Vacant(h)
          /\ object' = [object EXCEPT ![b] = x]
          /\ references' = [references EXCEPT ![b] = 1]
          /\ diagnostic' = [diagnostic EXCEPT ![b] = Null]
          /\ registry' = registry \cup {b}
          /\ owner' = [owner EXCEPT ![h] = b]
          /\ Move(t, [f EXCEPT !.out = h, !.pc = "returned"])
    BY <1>1, <1>2 DEF Register, RegisterWith
<1>5. PICK g : g = [f EXCEPT !.out = h, !.pc = "returned"]
    OBVIOUS
<1>6. FrameOK(f) /\ f \in Frames
    BY <1>1 DEF IInv, FramesOK, FrameOK
<1>7. f.op \in Makes /\ f.state \in States /\ f.result \in Values
    BY <1>3, <1>6, FrameFields DEF FrameOK
<1>8. x \in States /\ x # Null
    BY <1>2, <1>7, NullIsNothing DEF States
<1>9. /\ g.op = f.op /\ g.context = f.context /\ g.operands = f.operands
      /\ g.handles = f.handles /\ g.out = h /\ g.message = f.message
      /\ g.next = f.next /\ g.state = f.state /\ g.result = f.result
      /\ g.pc = "returned" /\ g \in Frames
    BY <1>5, <1>6 DEF Frames
<1>10. FrameOK(g)
    BY <1>3, <1>6, <1>9 DEF FrameOK
<1>11. Goes(t, g) /\ FramesOK'
    BY <1>4, <1>5, <1>10, MoveGoes DEF IInv
<1>12. frame'[t] = g /\ \A u \in Threads : u # t => frame'[u] = frame[u]
    BY <1>11 DEF Goes
<1>13. owner[h] = Null /\ ~InUse(h)
    BY <1>4 DEF Vacant
<1>14. /\ owner'[h] = b /\ \A k \in Handles : k # h => owner'[k] = owner[k]
       /\ owner' \in [Handles -> Addresses \cup {Null}]
    BY <1>4 DEF IInv, SharedOK
<1>15. /\ object'[b] = x /\ references'[b] = 1
       /\ \A a \in Addresses : a # b => object'[a] = object[a] /\ references'[a] = references[a]
    BY <1>4 DEF IInv, SharedOK
<1>16. SharedOK'
    BY <1>3, <1>4, <1>8, <1>14 DEF IInv, SharedOK
<1>17. LockInv'
    BY <1>3, <1>11, UnlockGoes
<1>18. RootedInv'
    BY <1>4, <1>8, <1>15 DEF IInv, SharedOK, RootedInv
<1>19. CountInv'
    <2> SUFFICES ASSUME NEW a \in Addresses
                 PROVE  CountOf(Owed(a)', a \in registry', references'[a])
        BY DEF CountInv
    <2>1. Cardinality(OwnersIn(owner', a)) =
              IF a = b THEN Cardinality(OwnersIn(owner, a)) + 1 ELSE Cardinality(OwnersIn(owner, a))
        <3>1. a # Null /\ b # Null
            BY NullIsNothing
        <3> QED BY <1>13, <1>14, <3>1, OwnersGrow
    <2>2. ClosingIn(frame', a) = ClosingIn(frame, a)
        BY <1>1, <1>3, <1>9, <1>12, ClosingStays
    <2>3. Owed(a)' = IF a = b THEN Owed(a) + 1 ELSE Owed(a)
        BY <2>1, <2>2, OwedIs, OwedNext, Counted
    <2>4. CASE a = b
        <3>1. a \notin registry
            BY <1>4, <2>4 DEF IInv, RootedInv
        <3>2. Owed(a) = 0
            BY <3>1, OwedIs DEF IInv, CountInv, CountOf
        <3>3. Owed(a)' = 1 /\ a \in registry' /\ references'[a] = 1
            BY <1>4, <1>15, <2>3, <2>4, <3>2
        <3> QED BY <3>3 DEF CountOf
    <2>5. CASE a # b
        <3>1. Owed(a)' = Owed(a) /\ (a \in registry' <=> a \in registry)
              /\ references'[a] = references[a]
            BY <1>4, <1>15, <2>3, <2>5
        <3> QED BY <3>1 DEF IInv, CountInv
    <2> QED BY <2>4, <2>5
<1>20. \A k \in Handles : InUse(k) /\ owner[k] # Null => owner'[k] = owner[k]
    BY <1>13, <1>14
<1>21. ArgsInv'
    <2>1. ArgsOf(f, owner) /\ f.handles \in SUBSET Handles
        BY <1>1, <1>6, FrameFields DEF IInv, ArgsInv
    <2>2. \A k \in f.handles : owner'[k] = owner[k]
        BY <1>1, <1>20, <2>1 DEF ArgsOf, InUse
    <2>3. ArgsOf(g, owner')
        BY <1>9, <2>1, <2>2 DEF ArgsOf
    <2> QED BY <1>11, <1>20, <2>3, ArgsStay
<1>22. OutInv'
    <2>1. \A u \in Threads : frame[u].out # h
        BY <1>13 DEF InUse
    <2>2. \A u \in Threads : frame[u].pc = "retain" => frame[u].out \in Handles
        BY FrameFields DEF IInv, FramesOK, FrameOK
    <2>3. \A u \in Threads : frame[u].pc = "retain" => owner'[frame[u].out] = Null
        BY <1>14, <2>1, <2>2 DEF IInv, OutInv
    <2>4. OutInv
        BY DEF IInv
    <2> QED BY <1>9, <1>12, <2>1, <2>3, <2>4 DEF OutInv
<1> QED BY <1>11, <1>16, <1>17, <1>18, <1>19, <1>21, <1>22 DEF IInv

LEMMA StepRetain ==
    ASSUME IInv, NEW t \in Threads, Retain(t)
    PROVE  IInv'
<1>1. PICK f, b, h : f = frame[t] /\ b = f.context /\ h = f.out
    OBVIOUS
<1>2. PICK g : g = [f EXCEPT !.pc = "returned"]
    OBVIOUS
<1>3. FrameOK(f) /\ f \in Frames /\ f.pc = "retain" /\ lock = t /\ lock' = Null /\ Move(t, g)
    BY <1>1, <1>2 DEF IInv, FramesOK, FrameOK, Retain, RetainWith
<1>4. b \in Addresses /\ h \in Handles /\ f.op = "retain" /\ owner[h] = Null
    <2>1. f.context # Null /\ f.out # Null /\ f.op = "retain"
        BY <1>3 DEF FrameOK
    <2>2. owner[h] = Null
        BY <1>1, <1>3 DEF IInv, OutInv
    <2> QED BY <1>1, <1>3, <2>1, <2>2, FrameFields
<1>5. \E k \in Handles : owner[k] = b
    <2>1. ArgsOf(f, owner) /\ f.handles \in SUBSET Handles
        BY <1>1, <1>3, FrameFields DEF IInv, ArgsInv
    <2> QED BY <1>1, <1>4, <2>1, NullIsNothing DEF ArgsOf
<1>6. b \in registry /\ references[b] > 0
    BY <1>4, <1>5, OwnedIsRooted
<1>7. /\ references' = [references EXCEPT ![b] = @ + 1]
      /\ owner' = [owner EXCEPT ![h] = b] /\ UNCHANGED <<object, diagnostic, registry>>
    BY <1>1, <1>6 DEF Retain, RetainWith
<1>8. /\ g.op = f.op /\ g.context = f.context /\ g.operands = f.operands
      /\ g.handles = f.handles /\ g.out = f.out /\ g.message = f.message
      /\ g.next = f.next /\ g.state = f.state /\ g.result = f.result
      /\ g.pc = "returned" /\ g \in Frames
    BY <1>2, <1>3 DEF Frames
<1>9. FrameOK(g)
    BY <1>3, <1>8 DEF FrameOK
<1>10. Goes(t, g) /\ FramesOK'
    BY <1>3, <1>9, MoveGoes DEF IInv
<1>11. frame'[t] = g /\ \A u \in Threads : u # t => frame'[u] = frame[u]
    BY <1>10 DEF Goes
<1>12. /\ owner'[h] = b /\ \A k \in Handles : k # h => owner'[k] = owner[k]
       /\ owner' \in [Handles -> Addresses \cup {Null}]
    BY <1>4, <1>7 DEF IInv, SharedOK
<1>13. /\ references'[b] = references[b] + 1 /\ references' \in [Addresses -> Nat]
       /\ \A a \in Addresses : a # b => references'[a] = references[a]
    BY <1>4, <1>7 DEF IInv, SharedOK
<1>14. SharedOK'
    BY <1>3, <1>7, <1>12, <1>13 DEF IInv, SharedOK
<1>15. LockInv'
    BY <1>3, <1>10, UnlockGoes
<1>16. \A a \in Addresses : references[a] \in Nat
    BY DEF IInv, SharedOK
<1>17. RootedInv'
    BY <1>4, <1>7, <1>13, <1>16 DEF IInv, SharedOK, RootedInv
<1>18. CountInv'
    <2> SUFFICES ASSUME NEW a \in Addresses
                 PROVE  CountOf(Owed(a)', a \in registry', references'[a])
        BY DEF CountInv
    <2>1. Cardinality(OwnersIn(owner', a)) =
              IF a = b THEN Cardinality(OwnersIn(owner, a)) + 1 ELSE Cardinality(OwnersIn(owner, a))
        <3>1. a # Null /\ b # Null
            BY <1>4, NullIsNothing
        <3> QED BY <1>4, <1>12, <3>1, OwnersGrow
    <2>2. ClosingIn(frame', a) = ClosingIn(frame, a)
        BY <1>1, <1>3, <1>8, <1>11, ClosingStays
    <2>3. Owed(a)' = IF a = b THEN Owed(a) + 1 ELSE Owed(a)
        BY <2>1, <2>2, OwedIs, OwedNext, Counted
    <2>4. a \in registry' <=> a \in registry
        BY <1>7
    <2>5. CountOf(Owed(a), a \in registry, references[a]) /\ Owed(a) \in Nat
        BY OwedIs DEF IInv, CountInv
    <2> QED BY <1>6, <1>13, <1>16, <2>3, <2>4, <2>5 DEF CountOf
<1>19. \A k \in Handles : InUse(k) /\ owner[k] # Null => owner'[k] = owner[k]
    BY <1>4, <1>12
<1>20. ArgsInv'
    <2>1. ArgsOf(f, owner) /\ f.handles \in SUBSET Handles
        BY <1>1, <1>3, FrameFields DEF IInv, ArgsInv
    <2>2. \A k \in f.handles : owner'[k] = owner[k]
        BY <1>1, <1>19, <2>1 DEF ArgsOf, InUse
    <2>3. ArgsOf(g, owner')
        BY <1>8, <2>1, <2>2 DEF ArgsOf
    <2> QED BY <1>10, <1>19, <2>3, ArgsStay
<1>21. OutInv'
    <2>1. OutInv
        BY DEF IInv
    <2>2. \A u \in Threads : u # t => frame[u].out # h
        BY <1>1, <1>4, <2>1, NullIsNothing DEF OutInv
    <2>3. \A u \in Threads : frame[u].pc = "retain" => frame[u].out \in Handles
        BY FrameFields DEF IInv, FramesOK, FrameOK
    <2>4. \A u \in Threads : u # t /\ frame[u].pc = "retain" => owner'[frame[u].out] = Null
        BY <1>12, <2>1, <2>2, <2>3 DEF OutInv
    <2> QED BY <1>1, <1>8, <1>11, <2>1, <2>4 DEF OutInv
<1> QED BY <1>10, <1>14, <1>15, <1>17, <1>18, <1>20, <1>21 DEF IInv

\* What a release does to a registered object.
LEMMA DroppedOnce ==
    ASSUME IInv, NEW b \in registry, Dropped(b)
    PROVE  /\ b \in Addresses /\ references[b] \in Nat /\ references[b] > 0
           /\ references' \in [Addresses -> Nat] /\ references'[b] = references[b] - 1
           /\ \A a \in Addresses : a # b => references'[a] = references[a]
           /\ registry' = IF references[b] = 1 THEN registry \ {b} ELSE registry
<1>1. b \in Addresses /\ references[b] \in Nat /\ references[b] > 0
      /\ references \in [Addresses -> Nat]
    BY DEF IInv, SharedOK, RootedInv
<1>2. /\ references' = [references EXCEPT ![b] = @ - 1]
      /\ registry' = IF references[b] - 1 = 0 THEN registry \ {b} ELSE registry
    BY DEF Dropped, DroppedWith
<1>3. references[b] - 1 \in Nat /\ (references[b] - 1 = 0 <=> references[b] = 1)
    BY <1>1
<1> QED BY <1>1, <1>2, <1>3

LEMMA StepRelease ==
    ASSUME IInv, NEW t \in Threads, Release(t)
    PROVE  IInv'
<1>1. PICK f, b : f = frame[t] /\ b = f.context
    OBVIOUS
<1>2. PICK g : g = [f EXCEPT !.pc = "returned"]
    OBVIOUS
<1>3. /\ FrameOK(f) /\ f \in Frames /\ f.pc = "release" /\ lock = t /\ lock' = Null
      /\ Move(t, g) /\ Dropped(b) /\ UNCHANGED <<object, diagnostic, owner>>
    BY <1>1, <1>2 DEF IInv, FramesOK, FrameOK, Release
<1>4. b \in Addresses /\ f.op = "release"
    <2>1. f.context # Null /\ f.op = "release"
        BY <1>3 DEF FrameOK
    <2> QED BY <1>1, <1>3, <2>1, FrameFields
<1>5. b \in registry
    BY <1>1, <1>3, <1>4, OwnedIsRooted
<1>6. /\ references[b] \in Nat /\ references[b] > 0
      /\ references' \in [Addresses -> Nat] /\ references'[b] = references[b] - 1
      /\ \A a \in Addresses : a # b => references'[a] = references[a]
      /\ registry' = IF references[b] = 1 THEN registry \ {b} ELSE registry
    BY <1>3, <1>5, DroppedOnce
<1>7. /\ g.op = f.op /\ g.context = f.context /\ g.operands = f.operands
      /\ g.handles = f.handles /\ g.out = f.out /\ g.message = f.message
      /\ g.next = f.next /\ g.state = f.state /\ g.result = f.result
      /\ g.pc = "returned" /\ g \in Frames
    BY <1>2, <1>3 DEF Frames
<1>8. FrameOK(g)
    BY <1>3, <1>7 DEF FrameOK
<1>9. Goes(t, g) /\ FramesOK'
    BY <1>3, <1>8, MoveGoes DEF IInv
<1>10. frame'[t] = g /\ \A u \in Threads : u # t => frame'[u] = frame[u]
    BY <1>9 DEF Goes
<1>11. SharedOK'
    BY <1>3, <1>6 DEF IInv, SharedOK
<1>12. LockInv'
    BY <1>3, <1>9, UnlockGoes
<1>13. RootedInv'
    <2> SUFFICES ASSUME NEW a \in registry' PROVE object'[a] # Null /\ references'[a] > 0
        BY DEF RootedInv
    <2>1. a \in registry /\ a \in Addresses
        BY <1>6 DEF IInv, SharedOK
    <2>2. CASE a = b
        <3>1. references[b] # 1
            BY <1>6, <2>2
        <3> QED BY <1>3, <1>6, <2>1, <2>2, <3>1 DEF IInv, RootedInv
    <2>3. CASE a # b
        BY <1>3, <1>6, <2>1, <2>3 DEF IInv, RootedInv
    <2> QED BY <2>2, <2>3
<1>14. CountInv'
    <2> SUFFICES ASSUME NEW a \in Addresses
                 PROVE  CountOf(Owed(a)', a \in registry', references'[a])
        BY DEF CountInv
    <2>1. Cardinality(ClosingIn(frame', a)) =
              IF a = b THEN Cardinality(ClosingIn(frame, a)) - 1 ELSE Cardinality(ClosingIn(frame, a))
        BY <1>1, <1>3, <1>7, <1>10, ClosingShrinks
    <2>2. OwnersIn(owner', a) = OwnersIn(owner, a)
        BY <1>3
    <2>3. Owed(a)' = IF a = b THEN Owed(a) - 1 ELSE Owed(a)
        BY <2>1, <2>2, OwedIs, OwedNext, Counted
    <2>4. CountOf(Owed(a), a \in registry, references[a]) /\ Owed(a) \in Nat
        BY OwedIs DEF IInv, CountInv
    <2>5. CASE a = b
        <3>1. Owed(a) > 0
            BY <1>1, <1>3, <1>4, <2>5, OwnedIsRooted
        <3>2. a \in registry' <=> references[a] # 1
            BY <1>5, <1>6, <2>5
        <3> QED BY <1>5, <1>6, <2>3, <2>4, <2>5, <3>1, <3>2 DEF CountOf
    <2>6. CASE a # b
        <3>1. a \in registry' <=> a \in registry
            BY <1>6, <2>6
        <3> QED BY <1>6, <2>3, <2>4, <2>6, <3>1 DEF CountOf
    <2> QED BY <2>5, <2>6
<1>15. ArgsInv'
    <2>1. ArgsOf(g, owner')
        BY <1>1, <1>3, <1>7 DEF IInv, ArgsInv, ArgsOf
    <2> QED BY <1>3, <1>9, <2>1, ArgsStay
<1>16. OutInv'
    <2>1. OutInv
        BY DEF IInv
    <2> QED BY <1>1, <1>3, <1>7, <1>10, <2>1 DEF OutInv
<1> QED BY <1>9, <1>11, <1>12, <1>13, <1>14, <1>15, <1>16 DEF IInv

LEMMA StepFinalize ==
    ASSUME IInv, NEW t \in Threads, NEW h \in Handles, Finalize(t, h)
    PROVE  IInv'
<1>1. PICK b : b = owner[h]
    OBVIOUS
<1>2. /\ Finalizers /\ b # Null /\ ~InUse(h) /\ owner' = [owner EXCEPT ![h] = Null]
      /\ IF lock = Null THEN Dropped(b) ELSE UNCHANGED <<references, registry>>
      /\ UNCHANGED <<object, diagnostic, lock, frame>>
    BY <1>1 DEF Finalize
<1>3. b \in Addresses /\ owner \in [Handles -> Addresses \cup {Null}]
    BY <1>1, <1>2 DEF IInv, SharedOK
<1>4. /\ owner[h] = b /\ owner'[h] = Null /\ \A k \in Handles : k # h => owner'[k] = owner[k]
      /\ owner' \in [Handles -> Addresses \cup {Null}]
    BY <1>1, <1>2, <1>3
<1>5. b \in registry /\ references[b] > 0 /\ Owed(b) > 0
    BY <1>3, <1>4, OwnedIsRooted
<1>6. /\ references[b] \in Nat /\ references' \in [Addresses -> Nat]
      /\ \A a \in Addresses : a # b => references'[a] = references[a]
      /\ \/ /\ references'[b] = references[b] - 1
            /\ registry' = IF references[b] = 1 THEN registry \ {b} ELSE registry
         \/ references'[b] = references[b] /\ registry' = registry
    <2>1. CASE lock = Null
        BY <1>2, <1>5, <2>1, DroppedOnce
    <2>2. CASE lock # Null
        BY <1>2, <1>3, <2>2 DEF IInv, SharedOK
    <2> QED BY <2>1, <2>2
<1>7. \A a \in Addresses : a \in registry' =>
          a \in registry /\ (a = b => references'[a] > 0)
    BY <1>5, <1>6
<1>8. SharedOK'
    BY <1>2, <1>4, <1>6 DEF IInv, SharedOK
<1>9. FramesOK' /\ LockInv'
    BY <1>2 DEF IInv, FramesOK, LockInv
<1>10. RootedInv'
    <2> SUFFICES ASSUME NEW a \in registry' PROVE object'[a] # Null /\ references'[a] > 0
        BY DEF RootedInv
    <2>1. a \in Addresses
        BY <1>8 DEF SharedOK
    <2>2. a \in registry
        BY <1>7, <2>1
    <2> QED BY <1>2, <1>6, <1>7, <2>1, <2>2 DEF IInv, RootedInv
<1>11. CountInv'
    <2> SUFFICES ASSUME NEW a \in Addresses
                 PROVE  CountOf(Owed(a)', a \in registry', references'[a])
        BY DEF CountInv
    <2>1. Cardinality(OwnersIn(owner', a)) =
              IF a = b THEN Cardinality(OwnersIn(owner, a)) - 1 ELSE Cardinality(OwnersIn(owner, a))
        <3>1. a # Null /\ b # Null
            BY <1>2, NullIsNothing
        <3> QED BY <1>4, <3>1, OwnersShrink
    <2>2. ClosingIn(frame', a) = ClosingIn(frame, a)
        BY <1>2
    <2>3. Owed(a)' = IF a = b THEN Owed(a) - 1 ELSE Owed(a)
        BY <2>1, <2>2, OwedIs, OwedNext, Counted
    <2>4. CountOf(Owed(a), a \in registry, references[a]) /\ Owed(a) \in Nat
        BY OwedIs DEF IInv, CountInv
    <2>5. CASE a = b
        <3>1. \/ references'[a] = references[a] - 1 /\ (a \in registry' <=> references[a] # 1)
              \/ references'[a] = references[a] /\ a \in registry'
            BY <1>5, <1>6, <2>5
        <3> QED BY <1>2, <1>5, <1>6, <2>3, <2>4, <2>5, <3>1 DEF CountOf
    <2>6. CASE a # b
        <3>1. a \in registry' <=> a \in registry
            BY <1>6, <2>6
        <3> QED BY <1>6, <2>3, <2>4, <2>6, <3>1 DEF CountOf
    <2> QED BY <2>5, <2>6
<1>12. ArgsInv'
    <2> SUFFICES ASSUME NEW u \in Threads PROVE ArgsOf(frame[u], owner')
        BY <1>2 DEF ArgsInv
    <2>1. ArgsOf(frame[u], owner) /\ frame[u].handles \in SUBSET Handles
        BY FrameFields DEF IInv, ArgsInv, FramesOK
    <2>2. \A k \in frame[u].handles : owner'[k] = owner[k]
        BY <1>2, <1>4, <2>1 DEF InUse
    <2> QED BY <2>1, <2>2 DEF ArgsOf
<1>13. OutInv'
    <2>1. \A u \in Threads : frame[u].pc = "retain" => frame[u].out \in Handles
        BY FrameFields DEF IInv, FramesOK, FrameOK
    <2>2. \A u \in Threads : frame[u].pc = "retain" => owner'[frame[u].out] = Null
        BY <1>4, <2>1 DEF IInv, OutInv
    <2> QED BY <1>2, <2>2 DEF IInv, OutInv
<1> QED BY <1>8, <1>9, <1>10, <1>11, <1>12, <1>13 DEF IInv

LEMMA StepCollect ==
    ASSUME IInv, NEW b \in Addresses, Collect(b)
    PROVE  IInv'
<1>1. /\ b \notin registry /\ object' = [object EXCEPT ![b] = Null]
      /\ references' = [references EXCEPT ![b] = 0]
      /\ diagnostic' = [diagnostic EXCEPT ![b] = Null]
      /\ UNCHANGED <<registry, lock, owner, frame>>
    BY DEF Collect
<1>2. SharedOK'
    BY <1>1 DEF IInv, SharedOK
<1>3. \A a \in Addresses : a # b => object'[a] = object[a] /\ references'[a] = references[a]
    BY <1>1 DEF IInv, SharedOK
<1>4. FramesOK' /\ LockInv' /\ ArgsInv' /\ OutInv'
    BY <1>1 DEF IInv, FramesOK, LockInv, ArgsInv, OutInv
<1>5. RootedInv'
    BY <1>1, <1>3 DEF IInv, SharedOK, RootedInv
<1>6. CountInv'
    <2> SUFFICES ASSUME NEW a \in Addresses
                 PROVE  CountOf(Owed(a)', a \in registry', references'[a])
        BY DEF CountInv
    <2>1. Owed(a)' = Owed(a)
        BY <1>1, OwedIs, OwedNext
    <2>2. CountOf(Owed(a), a \in registry, references[a])
        BY DEF IInv, CountInv
    <2>3. a \in registry' <=> a \in registry
        BY <1>1
    <2> QED BY <1>1, <1>3, <2>1, <2>2, <2>3 DEF CountOf
<1> QED BY <1>2, <1>4, <1>5, <1>6 DEF IInv
-----------------------------------------------------------------------------
(* The invariant holds. *)

LEMMA InitOK == Init => IInv
<1> SUFFICES ASSUME Init PROVE IInv
    OBVIOUS
<1>1. frame = [t \in Threads |-> Idle]
    BY DEF Init
<1>2. FramesOK
    BY <1>1, IdleOK DEF FramesOK
<1>3. \A t \in Threads : /\ frame[t].pc = "idle" /\ frame[t].context = Null
                         /\ frame[t].operands = <<>> /\ frame[t].handles = {}
                         /\ frame[t].out = Null
    BY <1>1 DEF Idle
<1>4. SharedOK /\ LockInv /\ RootedInv
    BY NullIsNothing DEF Init, SharedOK, LockInv, RootedInv
<1>5. CountInv
    <2> SUFFICES ASSUME NEW a \in Addresses PROVE CountOf(Owed(a), a \in registry, references[a])
        BY DEF CountInv
    <2>1. OwnersIn(owner, a) = {} /\ ClosingIn(frame, a) = {}
        BY <1>3, NullIsNothing DEF Init, OwnersIn, ClosingIn
    <2>2. Owed(a) = 0
        BY <2>1, OwedIs, FS_EmptySet
    <2>3. a \notin registry
        BY DEF Init
    <2> QED BY <2>2, <2>3 DEF CountOf
<1>6. ArgsInv /\ OutInv
    BY <1>3 DEF ArgsInv, ArgsOf, OutInv
<1> QED BY <1>2, <1>4, <1>5, <1>6 DEF IInv

LEMMA NextOK == ASSUME IInv, [Next]_vars PROVE IInv'
<1>1. CASE UNCHANGED vars
    <2>1. UNCHANGED <<object, references, diagnostic, registry, lock, owner, frame>>
        BY <1>1 DEF vars, heapVars
    <2>2. SharedOK' /\ FramesOK' /\ LockInv' /\ RootedInv' /\ ArgsInv' /\ OutInv'
        BY <2>1 DEF IInv, SharedOK, FramesOK, LockInv, RootedInv, ArgsInv, OutInv
    <2>3. CountInv'
        BY <2>1, OwedIs, OwedNext DEF IInv, CountInv
    <2> QED BY <2>2, <2>3 DEF IInv
<1>2. ASSUME NEW a \in Addresses, Collect(a) PROVE IInv'
    BY <1>2, StepCollect
<1>3. ASSUME NEW t \in Threads, Request(t) PROVE IInv'
    BY <1>3, StepEnter, StepEnterProvider, StepEnterRetain, StepEnterClose, StepFinalize
       DEF Request
<1>4. ASSUME NEW t \in Threads, Step(t) PROVE IInv'
    BY <1>4, StepProviderState, StepEncode, StepForeignValue, StepAcquireLock, StepRegister,
       StepRetain, StepRelease, StepRecordFailure, StepReturn DEF Step
<1> QED BY <1>1, <1>2, <1>3, <1>4 DEF Next

\* The inductive invariant: the registry roots what handles, closes and running
\* callbacks of the Julia provider use, and the count of each object covers
\* them (LLattice.jl:131-412).
THEOREM Inductive == Spec => []IInv
BY InitOK, NextOK, PTL DEF Spec
-----------------------------------------------------------------------------
(* What follows. *)

\* Every variable has its type; a registered object has a positive count and
\* the lock is held in a critical section only.
THEOREM TypeCorrect == Spec => []TypeOK
<1>1. ASSUME IInv PROVE TypeOK
    <2>1. registry \subseteq {a \in Addresses : references[a] > 0}
        BY <1>1 DEF IInv, SharedOK, RootedInv
    <2>2. DOMAIN frame = Threads
        BY <1>1 DEF IInv, FramesOK
    <2>3. \A t \in Threads : FrameOK(frame[t])
        BY <1>1 DEF IInv, FramesOK
    <2> QED BY <1>1, <2>1, <2>2, <2>3 DEF TypeOK, IInv, SharedOK, LockInv, FrameOK
<1> QED BY <1>1, Inductive, PTL

\* The reference count of an object covers its owners and the closes under
\* way; without finalizers it is exactly their number (LLattice.jl:159-184,
\* 367-382).
THEOREM CountsCoverOwners == Spec => []CountsAreExact
<1>1. ASSUME IInv PROVE CountsAreExact
    <2> SUFFICES ASSUME NEW a \in Addresses
                 PROVE  /\ Owed(a) > 0 => a \in registry /\ references[a] >= Owed(a)
                        /\ (a \in registry /\ ~Finalizers) => references[a] = Owed(a)
        BY DEF CountsAreExact
    <2> QED BY <1>1 DEF IInv, CountInv, CountOf
<1> QED BY <1>1, Inductive, PTL

\* No callback turns the address of a freed object back into an object, with
\* or without finalizers (LLattice.jl:146-149, 159-184).
THEOREM CallbacksSeeLiveObjects == Spec => []ContextsAreLive
<1>1. ASSUME IInv PROVE ContextsAreLive
    <2>1. ASSUME NEW t \in Threads, NEW f, f = frame[t],
                 NEW a, \/ f.pc \in {"state", "retain", "release"} /\ a = f.context
                        \/ f.pc = "operand" /\ a \in Range(f.operands) \ Foreign
          PROVE  a \in registry /\ object[a] # Null
        <3>1. FrameOK(f) /\ ArgsOf(f, owner) /\ f.handles \in SUBSET Handles
            BY <1>1, <2>1, FrameFields DEF IInv, FramesOK, ArgsInv
        <3>2. CASE f.pc = "release" /\ a = f.context
            <4>1. a # Null /\ a \in Addresses
                BY <3>1, <3>2, FrameFields DEF FrameOK
            <4> QED BY <1>1, <2>1, <3>2, <4>1, OwnedIsRooted
        <3>3. CASE f.pc \in {"state", "retain"} /\ a = f.context
            <4>1. a # Null /\ a \in Addresses /\ f.op # "release"
                BY <3>1, <3>3, FrameFields DEF FrameOK, Callbacks, Merges
            <4>2. \E h \in Handles : owner[h] = a
                BY <3>1, <3>3, <4>1 DEF ArgsOf
            <4> QED BY <1>1, <4>1, <4>2, OwnedIsRooted
        <3>4. CASE f.pc = "operand" /\ a \in Range(f.operands) \ Foreign
            <4>1. PICK n \in DOMAIN f.operands : a = f.operands[n]
                BY <3>4 DEF Range
            <4>2. a \in Addresses
                BY <3>1, <3>4, <4>1, FrameFields
            <4>3. \E h \in Handles : owner[h] = a
                BY <3>1, <3>4, <4>1 DEF ArgsOf
            <4> QED BY <1>1, <4>2, <4>3, OwnedIsRooted
        <3> QED BY <2>1, <3>2, <3>3, <3>4
    <2> QED BY <2>1 DEF ContextsAreLive
<1> QED BY <1>1, Inductive, PTL
-----------------------------------------------------------------------------
(* What comes out of a callback.  The handles it was given keep the objects  *)
(* of its arguments where they are, so what was folded so far stays right.   *)

\* What the arguments of a callback stand for, with the objects obj.
MeaningIn(obj, x) == IF x \in Foreign THEN ForeignSource[x] ELSE obj[x]
Worth(f, obj) == [n \in DOMAIN f.operands |-> MeaningIn(obj, f.operands[n]).value]

\* A callback that folds or compares has the receiver at hand; the operands
\* before the next one are of its domain and their fold is the result, or the
\* only one was compared; what it made has that result.
ResultOf(f, obj, ow) ==
    f.op \in Merges \cup {"equal"} /\ f.pc \in {"operand", "register", "returned"} =>
        /\ f.state # Null /\ obj[f.context] = f.state
        /\ f.pc # "operand" => f.next = Len(f.operands) + 1
        /\ \A n \in DOMAIN f.operands :
              n < f.next => MeaningIn(obj, f.operands[n]).domain = f.state.domain
        /\ f.op \in Merges =>
              FoldsTo(f.op, f.state.value, Worth(f, obj), f.next - 1, f.result)
        /\ f.op = "equal" => f.result = f.state.value
        /\ f.op = "equal" /\ f.pc = "returned" =>
              f.equal = (f.state.value = Worth(f, obj)[1])
        /\ f.op \in Merges /\ f.pc = "returned" =>
              /\ f.out # Null /\ ow[f.out] # Null
              /\ obj[ow[f.out]] = [f.state EXCEPT !.value = f.result]

ResultsInv == \A t \in Threads : ResultOf(frame[t], object, owner)

LEMMA FoldNone ==
    ASSUME NEW op, NEW first \in Values, NEW rest
    PROVE  FoldsTo(op, first, rest, 0, first)
<1> DEFINE p == [i \in 0..0 |-> first]
<1>1. p \in [0..0 -> Values] /\ p[0] = first
    OBVIOUS
<1> HIDE DEF p
<1> QED BY <1>1 DEF FoldsTo

\* One more item.
LEMMA FoldMore ==
    ASSUME NEW op, NEW first, NEW rest, NEW n \in Nat, NEW v, FoldsTo(op, first, rest, n, v),
           Apply(op, v, rest[n + 1]) \in Values
    PROVE  FoldsTo(op, first, rest, n + 1, Apply(op, v, rest[n + 1]))
<1>1. PICK p \in [0..n -> Values] : /\ p[0] = first
                                    /\ \A i \in 1..n : p[i] = Apply(op, p[i - 1], rest[i])
                                    /\ v = p[n]
    BY DEF FoldsTo
<1> DEFINE q == [i \in 0..n + 1 |-> IF i = n + 1 THEN Apply(op, v, rest[n + 1]) ELSE p[i]]
<1>2. q \in [0..n + 1 -> Values]
    <2>1. \A i \in 0..n + 1 : i # n + 1 => i \in 0..n
        OBVIOUS
    <2> QED BY <1>1, <2>1
<1>3. q[0] = first /\ q[n + 1] = Apply(op, v, rest[n + 1])
    BY <1>1
<1>4. ASSUME NEW i \in 1..n + 1 PROVE q[i] = Apply(op, q[i - 1], rest[i])
    <2>1. CASE i = n + 1
        BY <1>1, <2>1
    <2>2. CASE i # n + 1
        <3>1. i \in 1..n /\ i \in 0..n + 1 /\ i - 1 \in 0..n + 1 /\ i - 1 # n + 1
            BY <2>2
        <3>2. q[i] = p[i] /\ q[i - 1] = p[i - 1]
            BY <2>2, <3>1
        <3> QED BY <1>1, <3>1, <3>2
    <2> QED BY <2>1, <2>2
<1> HIDE DEF q
<1> QED BY <1>2, <1>3, <1>4 DEF FoldsTo

\* The collector takes no object that has an owner, and no step overwrites one.
OwnedStay ==
    /\ \A h \in Handles : owner[h] # Null => object'[owner[h]] = object[owner[h]]
    /\ \A h \in Handles : owner[h] # Null =>
          owner'[h] = owner[h] \/ (~InUse(h) /\ owner'[h] = Null)

LEMMA OwnedAreKept == ASSUME IInv, [Next]_vars PROVE OwnedStay
<1>1. ASSUME NEW h \in Handles, owner[h] # Null
      PROVE  owner[h] \in Addresses /\ owner[h] \in registry /\ object[owner[h]] # Null
    <2>1. owner[h] \in Addresses
        BY <1>1 DEF IInv, SharedOK
    <2> QED BY <2>1, OwnedIsRooted
<1>2. ASSUME UNCHANGED <<object, owner>> PROVE OwnedStay
    BY <1>2 DEF OwnedStay
<1>3. ASSUME NEW a \in Addresses, Collect(a) PROVE OwnedStay
    <2>1. a \notin registry /\ object' = [object EXCEPT ![a] = Null] /\ UNCHANGED owner
        BY <1>3 DEF Collect
    <2>2. \A b \in Addresses : b # a => object'[b] = object[b]
        BY <2>1 DEF IInv, SharedOK
    <2> QED BY <1>1, <2>1, <2>2 DEF OwnedStay
<1>4. ASSUME NEW t \in Threads, Register(t) PROVE OwnedStay
    <2>1. PICK b \in Addresses, h \in Handles :
              /\ object[b] = Null /\ Vacant(h)
              /\ object' = [object EXCEPT ![b] = [frame[t].state EXCEPT !.value = frame[t].result]]
              /\ owner' = [owner EXCEPT ![h] = b]
        BY <1>4 DEF Register, RegisterWith
    <2>2. \A a \in Addresses : a # b => object'[a] = object[a]
        BY <2>1 DEF IInv, SharedOK
    <2>3. \A k \in Handles : k # h => owner'[k] = owner[k]
        BY <2>1 DEF IInv, SharedOK
    <2>4. owner[h] = Null
        BY <2>1 DEF Vacant
    <2> QED BY <1>1, <2>1, <2>2, <2>3, <2>4 DEF OwnedStay
<1>5. ASSUME NEW t \in Threads, Retain(t) PROVE OwnedStay
    <2>1. /\ frame[t].pc = "retain" /\ owner' = [owner EXCEPT ![frame[t].out] = frame[t].context]
          /\ UNCHANGED object
        BY <1>5 DEF Retain, RetainWith
    <2>2. owner[frame[t].out] = Null
        BY <2>1 DEF IInv, OutInv
    <2>3. \A k \in Handles : k # frame[t].out => owner'[k] = owner[k]
        BY <2>1 DEF IInv, SharedOK
    <2> QED BY <2>1, <2>2, <2>3 DEF OwnedStay
<1>6. ASSUME NEW t \in Threads, NEW h \in Handles, EnterClose(t, h) \/ Finalize(t, h)
      PROVE  OwnedStay
    <2>1. ~InUse(h) /\ owner' = [owner EXCEPT ![h] = Null] /\ UNCHANGED object
        BY <1>6 DEF EnterClose, Finalize, heapVars
    <2>2. \A k \in Handles : k # h => owner'[k] = owner[k]
        BY <2>1 DEF IInv, SharedOK
    <2> QED BY <2>1, <2>2 DEF OwnedStay
<1>7. ASSUME NEW t \in Threads, Request(t) PROVE OwnedStay
    <2>1. ASSUME NEW op, NEW r, NEW arguments, Enter(t, op, r, arguments) PROVE OwnedStay
        BY <1>2, <2>1 DEF Enter, heapVars
    <2>2. ASSUME NEW source, EnterProvider(t, source) PROVE OwnedStay
        BY <1>2, <2>2 DEF EnterProvider, heapVars
    <2>3. ASSUME NEW h, NEW g, EnterRetain(t, h, g) PROVE OwnedStay
        BY <1>2, <2>3 DEF EnterRetain, heapVars
    <2> QED BY <1>6, <1>7, <2>1, <2>2, <2>3 DEF Request
<1>8. ASSUME NEW t \in Threads, Step(t) PROVE OwnedStay
    <2>1. CASE ProviderState(t) \/ Encode(t) \/ Diagnose(t) \/ ForeignValue(t)
        BY <1>2, <2>1 DEF ProviderState, Encode, Diagnose, ForeignValue, heapVars
    <2>2. CASE AcquireLock(t) \/ Release(t) \/ RecordFailure(t) \/ Return(t)
        BY <1>2, <2>2 DEF AcquireLock, Release, RecordFailure, Return, heapVars
    <2> QED BY <1>4, <1>5, <1>8, <2>1, <2>2 DEF Step
<1>9. CASE UNCHANGED vars
    BY <1>2, <1>9 DEF vars, heapVars
<1> QED BY <1>3, <1>7, <1>8, <1>9 DEF Next

\* Until it is closed an open handle stands for one object, which is there and
\* does not change, and a handle in use is not closed: although lookups take no
\* lock, addresses are used again, and finalizers and the collector run at any
\* time (LLattice.jl:146-184).
OpenHandlesKeepTheirObject ==
    [][\A h \in Handles : owner[h] # Null =>
          /\ object[owner[h]] # Null /\ object'[owner[h]] = object[owner[h]]
          /\ owner'[h] = owner[h] \/ (~InUse(h) /\ owner'[h] = Null)]_vars

\* The object of an open handle stays where and what it is, for any threads,
\* handles and addresses, with finalizers and without.
THEOREM HandlesKeepTheirObject == Spec => OpenHandlesKeepTheirObject
<1>1. ASSUME IInv, [Next]_vars
      PROVE  [\A h \in Handles : owner[h] # Null =>
                 /\ object[owner[h]] # Null /\ object'[owner[h]] = object[owner[h]]
                 /\ owner'[h] = owner[h] \/ (~InUse(h) /\ owner'[h] = Null)]_vars
    <2>1. OwnedStay
        BY <1>1, OwnedAreKept
    <2>2. ASSUME NEW h \in Handles, owner[h] # Null PROVE object[owner[h]] # Null
        <3>1. owner[h] \in Addresses
            BY <1>1, <2>2 DEF IInv, SharedOK
        <3> QED BY <1>1, <2>2, <3>1, OwnedIsRooted
    <2> QED BY <2>1, <2>2 DEF OwnedStay
<1> QED BY <1>1, Inductive, PTL DEF Spec, OpenHandlesKeepTheirObject

\* What a callback has so far does not change under it.
LEMMA ResultKept ==
    ASSUME IInv, OwnedStay, NEW u \in Threads, ResultOf(frame[u], object, owner)
    PROVE  ResultOf(frame[u], object', owner')
<1>1. PICK f : f = frame[u]
    OBVIOUS
<1>2. SUFFICES ASSUME f.op \in Merges \cup {"equal"},
                      f.pc \in {"operand", "register", "returned"}
               PROVE  ResultOf(f, object', owner')
    BY <1>1 DEF ResultOf
<1>3. FrameOK(f) /\ ArgsOf(f, owner) /\ f.handles \in SUBSET Handles
    BY <1>1, FrameFields DEF IInv, FramesOK, ArgsInv
<1>4. ASSUME NEW h \in Handles, NEW x, owner[h] = x, x # Null PROVE object'[x] = object[x]
    BY <1>4 DEF OwnedStay
<1>5. object'[f.context] = object[f.context]
    <2>1. f.context # Null /\ f.op # "release"
        BY <1>2, <1>3 DEF FrameOK, Callbacks, Merges
    <2>2. PICK h \in f.handles : owner[h] = f.context
        BY <1>3, <2>1 DEF ArgsOf
    <2> QED BY <1>3, <1>4, <2>1, <2>2
<1>6. ASSUME NEW n \in DOMAIN f.operands
      PROVE  MeaningIn(object', f.operands[n]) = MeaningIn(object, f.operands[n])
    <2>1. CASE f.operands[n] \in Foreign
        BY <2>1 DEF MeaningIn
    <2>2. CASE f.operands[n] \notin Foreign
        <3>1. PICK h \in f.handles : owner[h] = f.operands[n]
            BY <1>3, <2>2 DEF ArgsOf
        <3>2. h \in Handles /\ owner[h] # Null
            BY <1>3, <3>1 DEF ArgsOf
        <3> QED BY <1>4, <2>2, <3>1, <3>2 DEF MeaningIn
    <2> QED BY <2>1, <2>2
<1>7. Worth(f, object') = Worth(f, object)
    BY <1>6 DEF Worth
<1>8. f.op \in Merges /\ f.pc = "returned" =>
          owner'[f.out] = owner[f.out] /\ object'[owner[f.out]] = object[owner[f.out]]
    <2> SUFFICES ASSUME f.op \in Merges, f.pc = "returned"
                 PROVE  owner'[f.out] = owner[f.out]
                            /\ object'[owner[f.out]] = object[owner[f.out]]
        OBVIOUS
    <2>1. f.out # Null /\ owner[f.out] # Null
        BY <1>1, <1>2 DEF ResultOf
    <2>2. f.out \in Handles
        BY <1>3, <2>1, FrameFields
    <2>3. InUse(f.out)
        BY <1>1 DEF InUse
    <2> QED BY <2>1, <2>2, <2>3 DEF OwnedStay
<1>9. ResultOf(f, object, owner)
    BY <1>1
<1> QED BY <1>5, <1>6, <1>7, <1>8, <1>9 DEF ResultOf

\* An operand that is found, or borrowed and decoded, is folded or compared.
LEMMA ResultOfOperand ==
    ASSUME NEW f, FrameOK(f), f.pc = "operand", ResultOf(f, object, owner),
           NEW operand, operand = MeaningIn(object, f.operands[f.next]),
           operand.value \in Values, NEW g \in WithOperand(f, operand)
    PROVE  ResultOf(g, object, owner)
<1>1. /\ f \in Frames /\ f.op \in Merges \cup {"equal"} /\ f.state # Null
      /\ f.result \in Values /\ f.operands \in Seq(Addresses \cup Foreign)
      /\ f.op = "equal" => Len(f.operands) = 1
    BY FrameFields DEF FrameOK
<1>2. PICK next, length : next = f.next /\ length = Len(f.operands)
    OBVIOUS
<1>3. length \in Nat /\ next \in 1..length /\ DOMAIN f.operands = 1..length
    BY <1>1, <1>2, LenProperties DEF FrameOK
<1>4. FrameOK(g) /\ SameCall(f, g)
    BY OperandOK
<1>5. CASE g.pc = "record"
    BY <1>5 DEF ResultOf
<1>6. CASE g.pc # "record"
    <2>1. \A why : Threw(f, why).pc = "record"
        BY <1>1 DEF Threw, Frames
    <2>2. operand.domain = f.state.domain /\ g \in Combine(f, operand.value)
              /\ g # Threw(f, "user")
        BY <1>6, <2>1 DEF WithOperand
    <2>3. /\ g.next = next + 1 /\ g.state = f.state
          /\ g.pc # "operand" => next = length
          /\ f.op = "equal" => g.equal = (f.result = operand.value) /\ g.result = f.result
          /\ f.op # "equal" => g.result = Apply(f.op, f.result, operand.value)
        <3>1. PICK pc : pc = CASE ~IsLastOperand(f) -> "operand"
                               [] f.op = "equal"    -> "returned"
                               [] OTHER             -> "register"
            OBVIOUS
        <3>2. PICK b : b = (f.result = operand.value)
            OBVIOUS
        <3>3. \/ f.op = "equal" /\ g = [[f EXCEPT !.next = @ + 1, !.pc = pc] EXCEPT !.equal = b]
              \/ f.op # "equal" /\ g = [[f EXCEPT !.next = @ + 1, !.pc = pc]
                                            EXCEPT !.result = Apply(f.op, @, operand.value)]
            <4>1. \/ f.op = "equal" /\ g = [[f EXCEPT !.next = @ + 1, !.pc = pc]
                                               EXCEPT !.equal = (f.result = operand.value)]
                  \/ f.op # "equal" /\ g = [[f EXCEPT !.next = @ + 1, !.pc = pc]
                                               EXCEPT !.result = Apply(f.op, @, operand.value)]
                BY <2>2, <3>1 DEF Combine
            <4> QED BY <3>2, <4>1
        <3>4. pc # "operand" => next = length
            <4>1. next # length => ~IsLastOperand(f)
                BY <1>2 DEF IsLastOperand
            <4>2. next # length => f.op # "equal"
                <5>1. f.op = "equal" => length = 1
                    BY <1>1, <1>2
                <5> QED BY <1>3, <5>1
            <4> QED BY <3>1, <4>1, <4>2
        <3> QED BY <1>1, <1>2, <3>2, <3>3, <3>4 DEF Frames
    <2>4. /\ g.op = f.op /\ g.context = f.context /\ g.operands = f.operands
          /\ Worth(g, object) = Worth(f, object)
        BY <1>4 DEF SameCall, Worth
    <2>5. Worth(f, object)[next] = operand.value
        BY <1>2, <1>3 DEF Worth
    <2>6. object[f.context] = f.state
        BY <1>1 DEF ResultOf
    <2>7. \A n \in DOMAIN f.operands :
              n < next + 1 => MeaningIn(object, f.operands[n]).domain = f.state.domain
        <3> SUFFICES ASSUME NEW n \in 1..length, n < next + 1
                     PROVE  MeaningIn(object, f.operands[n]).domain = f.state.domain
            BY <1>3
        <3>1. n = next \/ n < next
            BY <1>3
        <3> QED BY <1>1, <1>2, <1>3, <2>2, <3>1 DEF ResultOf
    <2>8. CASE f.op = "equal"
        <3>1. next = 1 /\ length = 1 /\ f.result = f.state.value
            BY <1>1, <1>2, <1>3, <2>8 DEF ResultOf
        <3>2. "equal" \notin Merges
            BY DEF Merges
        <3> QED BY <1>1, <1>2, <2>3, <2>4, <2>5, <2>6, <2>7, <2>8, <3>1, <3>2 DEF ResultOf
    <2>9. CASE f.op # "equal"
        <3>1. f.op \in Merges
            BY <1>1, <2>9
        <3>2. FoldsTo(f.op, f.state.value, Worth(f, object), next - 1, f.result)
            BY <1>1, <1>2, <3>1 DEF ResultOf
        <3>3. Apply(f.op, f.result, operand.value) \in Values
            BY <1>1, JuliaAssumption DEF Apply
        <3>4. next - 1 \in Nat /\ (next - 1) + 1 = next /\ (next + 1) - 1 = next
            BY <1>3
        <3>5. FoldsTo(f.op, f.state.value, Worth(f, object), next,
                      Apply(f.op, f.result, operand.value))
            BY <2>5, <3>2, <3>3, <3>4, FoldMore
        <3>6. g.pc # "returned"
            <4>1. g.pc = CASE ~IsLastOperand(f) -> "operand"
                           [] f.op = "equal"    -> "returned"
                           [] OTHER             -> "register"
                BY <1>1, <2>2 DEF Combine, Frames
            <4> QED BY <2>9, <4>1
        <3> QED BY <1>1, <1>2, <2>3, <2>4, <2>6, <2>7, <2>9, <3>1, <3>4, <3>5, <3>6
                DEF ResultOf
    <2> QED BY <2>8, <2>9
<1> QED BY <1>5, <1>6

\* Reading the receiver: nothing is folded yet.
LEMMA ResultOfState ==
    ASSUME IInv, NEW t \in Threads, ProviderState(t)
    PROVE  \E g : Move(t, g) /\ ResultOf(g, object, owner)
<1>1. PICK f, a : f = frame[t] /\ a = f.context
    OBVIOUS
<1>2. PICK c, pc : c = object[a] /\ pc = AfterState(f)
    OBVIOUS
<1>3. PICK g : g = [f EXCEPT !.state = c, !.result = c.value, !.root = a, !.pc = pc]
    OBVIOUS
<1>4. f.pc = "state" /\ c # Null /\ Move(t, g)
    BY <1>1, <1>2, <1>3 DEF ProviderState
<1>5. FrameOK(f) /\ f \in Frames
    BY <1>1 DEF IInv, FramesOK, FrameOK
<1>6. /\ f.next = 1 /\ a \in Addresses /\ f.operands \in Seq(Addresses \cup Foreign)
      /\ f.op = "equal" => Len(f.operands) = 1
    BY <1>1, <1>4, <1>5, FrameFields DEF FrameOK
<1>7. c.value \in Values
    BY <1>2, <1>4, <1>6 DEF IInv, SharedOK, States
<1>8. /\ g.op = f.op /\ g.context = a /\ g.operands = f.operands /\ g.next = 1
      /\ g.state = c /\ g.result = c.value /\ g.pc = pc
    BY <1>1, <1>3, <1>5, <1>6 DEF Frames
<1>9. f.operands = <<>> => Len(f.operands) = 0
    OBVIOUS
<1>10. f.op \in Merges \cup {"equal"} /\ pc # "operand" => pc = "register" /\ f.operands = <<>>
    BY <1>2 DEF AfterState, Merges
<1>11. f.op \in Merges => FoldsTo(f.op, c.value, Worth(g, object), 0, c.value)
    BY <1>7, FoldNone
<1>12. ~ \E n \in DOMAIN g.operands : n < g.next
    <2>1. DOMAIN f.operands = 1..Len(f.operands) /\ Len(f.operands) \in Nat
        BY <1>6, LenProperties
    <2> QED BY <1>8, <2>1
<1>13. "equal" \notin Merges
    BY DEF Merges
<1>14. /\ g.op = "equal" => g.pc = "operand"
       /\ g.op \in Merges /\ g.pc # "operand" =>
              g.pc = "register" /\ g.next = Len(g.operands) + 1
    <2>1. f.op = "equal" => f.operands # <<>>
        <3>1. SUFFICES ASSUME f.op = "equal", f.operands = <<>> PROVE FALSE
            OBVIOUS
        <3>2. PICK length : length = Len(f.operands)
            OBVIOUS
        <3>3. length = 0 /\ length = 1
            BY <1>6, <1>9, <3>1, <3>2, Zenon
        <3> QED BY <3>3
    <2>2. f.op = "equal" => pc = "operand"
        BY <1>10, <2>1
    <2>3. f.op \in Merges /\ pc # "operand" => pc = "register" /\ Len(f.operands) = 0
        BY <1>9, <1>10
    <2>4. Len(f.operands) = 0 => 1 = Len(f.operands) + 1
        OBVIOUS
    <2> QED BY <1>8, <2>2, <2>3, <2>4
<1>15. g.op \in Merges => FoldsTo(g.op, g.state.value, Worth(g, object), g.next - 1, g.result)
    <2>1. g.next - 1 = 0
        BY <1>8
    <2> QED BY <1>8, <1>11, <2>1
<1>16. object[g.context] = g.state /\ g.state # Null /\ g.result = g.state.value
    BY <1>2, <1>4, <1>8
<1>17. ResultOf(g, object, owner)
    BY <1>12, <1>13, <1>14, <1>15, <1>16 DEF ResultOf
<1> QED BY <1>4, <1>17

\* What Register makes has the result for its value.
LEMMA ResultOfRegister ==
    ASSUME IInv, OwnedStay, NEW t \in Threads, Register(t), ResultOf(frame[t], object, owner)
    PROVE  \E g : Move(t, g) /\ ResultOf(g, object', owner')
<1>1. PICK f : f = frame[t]
    OBVIOUS
<1>2. PICK b \in Addresses, h \in Handles :
          /\ object' = [object EXCEPT ![b] = [f.state EXCEPT !.value = f.result]]
          /\ owner' = [owner EXCEPT ![h] = b]
          /\ Move(t, [f EXCEPT !.out = h, !.pc = "returned"])
    BY <1>1 DEF Register, RegisterWith
<1>3. PICK g : g = [f EXCEPT !.out = h, !.pc = "returned"]
    OBVIOUS
<1>4. f.pc = "register" /\ FrameOK(f) /\ f \in Frames
    BY <1>1 DEF Register, RegisterWith, IInv, FramesOK, FrameOK
<1>5. f.op # "equal"
    BY <1>4 DEF FrameOK, Makes, Merges
<1>6. owner'[h] = b /\ object'[b] = [f.state EXCEPT !.value = f.result]
    BY <1>2 DEF IInv, SharedOK
<1>7. /\ g.op = f.op /\ g.context = f.context /\ g.operands = f.operands
      /\ g.next = f.next /\ g.state = f.state /\ g.result = f.result
      /\ g.pc = "returned" /\ g.out = h
    BY <1>3, <1>4 DEF Frames
<1>8. Worth(g, object') = Worth(f, object')
    BY <1>7 DEF Worth
<1>9. ResultOf(f, object', owner')
    BY <1>1, ResultKept
<1>10. h # Null /\ b # Null
    BY NullIsNothing
<1>11. ResultOf(g, object', owner')
    BY <1>4, <1>5, <1>6, <1>7, <1>8, <1>9, <1>10 DEF ResultOf
<1> QED BY <1>2, <1>3, <1>11

LEMMA StepResult == ASSUME IInv, ResultsInv, [Next]_vars PROVE ResultsInv'
<1>1. OwnedStay
    BY OwnedAreKept
<1>2. ASSUME NEW u \in Threads, frame'[u] = frame[u] PROVE ResultOf(frame'[u], object', owner')
    BY <1>1, <1>2, ResultKept DEF ResultsInv
<1>3. ASSUME UNCHANGED frame PROVE ResultsInv'
    BY <1>2, <1>3 DEF ResultsInv
<1>4. ASSUME NEW t \in Threads, NEW g, Move(t, g), ResultOf(g, object', owner')
      PROVE  ResultsInv'
    <2>1. frame'[t] = g /\ \A u \in Threads : u # t => frame'[u] = frame[u]
        BY <1>4 DEF Move, IInv, FramesOK
    <2> QED BY <1>2, <1>4, <2>1 DEF ResultsInv
<1>5. ASSUME NEW t \in Threads, NEW g, Move(t, g),
             \/ g.op \notin Merges \cup {"equal"}
             \/ g.pc \notin {"operand", "register", "returned"}
      PROVE  ResultsInv'
    BY <1>4, <1>5 DEF ResultOf
<1>6. ASSUME NEW t \in Threads, NEW g, Move(t, g), ResultOf(g, object, owner),
             UNCHANGED <<object, owner>>
      PROVE  ResultsInv'
    BY <1>4, <1>6
<1>7. ASSUME NEW t \in Threads, Request(t) PROVE ResultsInv'
    <2>1. ASSUME NEW op, NEW r, NEW arguments, Enter(t, op, r, arguments) PROVE ResultsInv'
        <3>1. PICK i, hs, ops : Move(t, [Idle EXCEPT !.pc = "state", !.op = op, !.context = i,
                                                     !.handles = hs, !.operands = ops])
            BY <2>1 DEF Enter
        <3>2. PICK g : g = [Idle EXCEPT !.pc = "state", !.op = op, !.context = i,
                                        !.handles = hs, !.operands = ops]
            OBVIOUS
        <3>3. g.pc = "state"
            BY <3>2 DEF Idle
        <3> QED BY <1>5, <3>1, <3>2, <3>3
    <2>2. ASSUME NEW source, EnterProvider(t, source) PROVE ResultsInv'
        <3>1. PICK g : g = [Idle EXCEPT !.pc = "register", !.op = "provider", !.state = source,
                                        !.result = source.value]
            OBVIOUS
        <3>2. Move(t, g)
            BY <2>2, <3>1 DEF EnterProvider
        <3>3. g.op = "provider"
            BY <3>1 DEF Idle
        <3> QED BY <1>5, <3>2, <3>3 DEF Merges
    <2>3. ASSUME NEW h, NEW k, EnterRetain(t, h, k) PROVE ResultsInv'
        <3>1. PICK g : g = [Idle EXCEPT !.pc = "retain", !.op = "retain", !.context = owner[h],
                                        !.handles = {h}, !.out = k]
            OBVIOUS
        <3>2. Move(t, g)
            BY <2>3, <3>1 DEF EnterRetain
        <3>3. g.pc = "retain"
            BY <3>1 DEF Idle
        <3> QED BY <1>5, <3>2, <3>3
    <2>4. ASSUME NEW h, EnterClose(t, h) PROVE ResultsInv'
        <3>1. PICK g : g = [Idle EXCEPT !.pc = "release", !.op = "release", !.context = owner[h]]
            OBVIOUS
        <3>2. Move(t, g)
            BY <2>4, <3>1 DEF EnterClose
        <3>3. g.pc = "release"
            BY <3>1 DEF Idle
        <3> QED BY <1>5, <3>2, <3>3
    <2>5. ASSUME NEW h, Finalize(t, h) PROVE ResultsInv'
        BY <1>3, <2>5 DEF Finalize
    <2> QED BY <1>7, <2>1, <2>2, <2>3, <2>4, <2>5 DEF Request
<1>8. ASSUME NEW t \in Threads, Step(t) PROVE ResultsInv'
    <2>1. PICK f : f = frame[t]
        OBVIOUS
    <2>2. FrameOK(f) /\ f \in Frames /\ ResultOf(f, object, owner)
        BY <2>1 DEF IInv, FramesOK, FrameOK, ResultsInv
    <2>3. ASSUME NEW why, Move(t, Threw(f, why)) PROVE ResultsInv'
        <3>1. Threw(f, why).pc = "record"
            BY <2>2 DEF Threw, Frames
        <3> QED BY <1>5, <2>3, <3>1
    <2>4. ASSUME NEW pc, Move(t, [f EXCEPT !.pc = pc]),
                 f.op \notin Merges \cup {"equal"} \/ pc \in {"failed", "escaped"}
          PROVE  ResultsInv'
        <3>1. PICK g : g = [f EXCEPT !.pc = pc]
            OBVIOUS
        <3>2. g.op = f.op /\ g.pc = pc
            BY <2>2, <3>1 DEF Frames
        <3> QED BY <1>5, <2>4, <3>1, <3>2
    <2>5. CASE ProviderState(t)
        BY <1>6, <2>5, ResultOfState DEF ProviderState, heapVars
    <2>6. CASE Encode(t) \/ Diagnose(t)
        <3>1. /\ f.pc \in {"encode", "diagnose"}
              /\ Move(t, [f EXCEPT !.pc = "returned"]) \/ Move(t, Threw(f, "user"))
            BY <2>1, <2>6 DEF Encode, Diagnose
        <3>2. f.op \notin Merges \cup {"equal"}
            BY <2>2, <3>1 DEF FrameOK, Merges
        <3> QED BY <2>3, <2>4, <3>1, <3>2
    <2>7. CASE ForeignValue(t)
        <3>1. PICK x : x = f.operands[f.next]
            OBVIOUS
        <3>2. /\ f.pc = "operand" /\ UNCHANGED <<object, owner>>
              /\ \/ \E why : Move(t, Threw(f, why))
                 \/ \E g \in WithOperand(f, MeaningIn(object, x)) :
                       Move(t, g) /\ (x \notin Foreign => object[x] # Null)
            <4>1. /\ f.pc = "operand" /\ UNCHANGED <<object, owner>>
                  /\ IF x \notin Foreign
                     THEN object[x] # Null /\ \E g \in WithOperand(f, object[x]) : Move(t, g)
                     ELSE \E g \in IF f.state.decode
                                   THEN WithOperand(f, ForeignSource[x]) \cup {Threw(f, "user")}
                                   ELSE {Threw(f, "decoder")} : Move(t, g)
                BY <2>1, <2>7, <3>1 DEF ForeignValue, heapVars
            <4>2. CASE x \notin Foreign
                BY <4>1, <4>2 DEF MeaningIn
            <4>3. CASE x \in Foreign /\ f.state.decode
                BY <4>1, <4>3 DEF MeaningIn
            <4>4. CASE x \in Foreign /\ ~f.state.decode
                BY <4>1, <4>4
            <4> QED BY <4>1, <4>2, <4>3, <4>4
        <3>3. CASE \E why : Move(t, Threw(f, why))
            BY <2>3, <3>3
        <3>4. ASSUME NEW g \in WithOperand(f, MeaningIn(object, x)), Move(t, g),
                     x \notin Foreign => object[x] # Null
              PROVE  ResultsInv'
            <4>1. x \in Addresses \cup Foreign
                BY <2>2, <3>1, <3>2, FrameFields DEF FrameOK
            <4>2. MeaningIn(object, x).value \in Values
                <5>1. CASE x \in Foreign
                    BY <5>1, JuliaAssumption DEF MeaningIn
                <5>2. CASE x \notin Foreign
                    <6>1. object[x] \in States
                        BY <3>4, <4>1, <5>2 DEF IInv, SharedOK
                    <6> QED BY <5>2, <6>1 DEF MeaningIn, States
                <5> QED BY <5>1, <5>2
            <4>3. ResultOf(g, object, owner)
                BY <2>2, <3>1, <3>2, <3>4, <4>2, ResultOfOperand
            <4> QED BY <1>6, <3>2, <3>4, <4>3
        <3> QED BY <3>2, <3>3, <3>4
    <2>8. CASE AcquireLock(t)
        BY <1>3, <2>8 DEF AcquireLock
    <2>9. CASE Register(t)
        BY <1>1, <1>4, <2>1, <2>2, <2>9, ResultOfRegister
    <2>10. CASE Retain(t) \/ Release(t)
        <3>1. f.pc \in {"retain", "release"} /\ Move(t, [f EXCEPT !.pc = "returned"])
            BY <2>1, <2>10 DEF Retain, RetainWith, Release
        <3>2. f.op \notin Merges \cup {"equal"}
            BY <2>2, <3>1 DEF FrameOK, Merges
        <3> QED BY <2>4, <3>1, <3>2
    <2>11. CASE RecordFailure(t)
        BY <2>1, <2>4, <2>11 DEF RecordFailure
    <2>12. CASE Return(t)
        <3>1. Move(t, Idle) /\ Idle.pc = "idle"
            BY <2>12 DEF Return, Idle
        <3> QED BY <1>5, <3>1
    <2> QED BY <1>8, <2>5, <2>6, <2>7, <2>8, <2>9, <2>10, <2>11, <2>12 DEF Step
<1>9. ASSUME NEW a, Collect(a) PROVE ResultsInv'
    BY <1>3, <1>9 DEF Collect
<1>10. CASE UNCHANGED vars
    BY <1>3, <1>10 DEF vars
<1> QED BY <1>7, <1>8, <1>9, <1>10 DEF Next

\* A callback answers for the values its arguments have when it returns, in
\* the order they were given, and mixes no domains (LLattice.jl:206-323).
THEOREM CallbacksAreRight == Spec => []ResultsAreRight
<1>1. Init => ResultsInv
    BY DEF Init, Idle, ResultsInv, ResultOf
<1>2. ASSUME IInv, ResultsInv, [Next]_vars PROVE ResultsInv'
    BY <1>2, StepResult
<1>3. ASSUME IInv, ResultsInv PROVE ResultsAreRight
    <2> SUFFICES ASSUME NEW t \in Threads, frame[t].pc = "returned"
                 PROVE  LET f == frame[t]
                            first == object[f.context]
                            rest  == [n \in DOMAIN f.operands |-> Meaning(f.operands[n])]
                            values == [n \in DOMAIN rest |-> rest[n].value]
                            made  == object[owner[f.out]]
                        IN  /\ f.op \in Merges =>
                                 /\ FoldsTo(f.op, first.value, values, Len(values), made.value)
                                 /\ made.domain = first.domain
                            /\ f.op = "equal" => f.equal = (first.value = values[1])
                            /\ f.op \in Merges \cup {"equal"} =>
                                 \A n \in DOMAIN rest : rest[n].domain = first.domain
        BY DEF ResultsAreRight
    <2> DEFINE f == frame[t]
               rest == [n \in DOMAIN f.operands |-> Meaning(f.operands[n])]
               values == [n \in DOMAIN rest |-> rest[n].value]
    <2> SUFFICES ASSUME f.op \in Merges \cup {"equal"}
                 PROVE  /\ f.op \in Merges =>
                              /\ FoldsTo(f.op, object[f.context].value, values, Len(values),
                                         object[owner[f.out]].value)
                              /\ object[owner[f.out]].domain = object[f.context].domain
                        /\ f.op = "equal" => f.equal = (object[f.context].value = values[1])
                        /\ \A n \in DOMAIN rest : rest[n].domain = object[f.context].domain
        BY Zenon
    <2>1. FrameOK(f) /\ f \in Frames /\ ResultOf(f, object, owner)
        BY <1>3 DEF IInv, FramesOK, FrameOK, ResultsInv
    <2>2. f.state # Null /\ object[f.context] = f.state /\ f.next = Len(f.operands) + 1
        BY <2>1 DEF ResultOf
    <2>3. f.state \in States /\ f.result \in Values
        BY <2>1, <2>2, FrameFields DEF FrameOK
    <2>4. DOMAIN f.operands = 1..Len(f.operands) /\ Len(f.operands) \in Nat
        BY <2>1, FrameFields, LenProperties
    <2>5. DOMAIN rest = 1..Len(f.operands) /\ values = Worth(f, object)
        BY <2>4 DEF Worth, Meaning, MeaningIn
    <2>6. Len(values) = Len(f.operands)
        <3>1. DOMAIN values = 1..Len(f.operands)
            BY <2>5
        <3>2. values \in Seq({values[n] : n \in 1..Len(f.operands)})
            BY <2>4, <2>5
        <3> QED BY <2>4, <3>1, <3>2, LenProperties
    <2>7. f.next - 1 = Len(values)
        BY <2>2, <2>4, <2>6
    <2>8. ASSUME f.op \in Merges
          PROVE  /\ FoldsTo(f.op, object[f.context].value, values, Len(values),
                            object[owner[f.out]].value)
                 /\ object[owner[f.out]].domain = object[f.context].domain
        <3>1. object[owner[f.out]] = [f.state EXCEPT !.value = f.result]
            BY <2>1, <2>8 DEF ResultOf
        <3>2. object[owner[f.out]].value = f.result /\ object[owner[f.out]].domain = f.state.domain
            BY <2>3, <3>1 DEF States
        <3>3. FoldsTo(f.op, f.state.value, values, f.next - 1, f.result)
            BY <2>1, <2>5, <2>8 DEF ResultOf
        <3> QED BY <2>2, <2>7, <3>2, <3>3
    <2>9. f.op = "equal" => f.equal = (object[f.context].value = values[1])
        BY <2>1, <2>2, <2>5 DEF ResultOf
    <2>10. ASSUME NEW n \in DOMAIN rest PROVE rest[n].domain = object[f.context].domain
        <3>1. n \in DOMAIN f.operands /\ n < f.next
            BY <2>2, <2>4, <2>5
        <3>2. MeaningIn(object, f.operands[n]).domain = f.state.domain
            BY <2>1, <3>1 DEF ResultOf
        <3> QED BY <2>2, <3>1, <3>2 DEF Meaning, MeaningIn
    <2> QED BY <2>8, <2>9, <2>10
<1> QED BY <1>1, <1>2, <1>3, Inductive, PTL DEF Spec
=============================================================================
