------------------------- MODULE RakuProviderProofs -------------------------
(***************************************************************************)
(* The registry of the Raku provider, for any threads, handles, domains,    *)
(* values and foreign resources, and for any bounds.                        *)
(***************************************************************************)
EXTENDS RakuProvider, FiniteSetTheorems, SequenceTheorems, TLAPS

Makes == Merges \cup {"provider"}

\* What holds of the locals of one operation by themselves.
FrameCore(f) ==
    /\ f \in Frames
    /\ f.op = Null <=> f.pc \in {"idle", "drop"}
    /\ f.pc \in {"insert", "create", "rollback", "drop"} => f.entry # Null
    /\ f.message # Null <=> f.pc \in {"catch", "failed"}
    /\ f.current = Null => f.pc \in {"idle", "drop", "receiver", "catch", "failed"}
    /\ f.entry # Null => f.pc \in {"insert", "create", "rollback", "catch", "failed",
                                   "returned", "drop"}
    /\ f.pc \in {"configure", "id", "insert", "create", "rollback"} => f.op \in Makes
    /\ f.op \notin {Null, "provider"} => f.receiver # Null
    /\ f.pc = "receiver" => f.op # "provider" /\ f.next = 1
    /\ f.pc = "encode" => f.op = "stable_bytes"
    /\ f.out # Null <=> f.pc = "returned" /\ f.entry # Null
    /\ f.pc = "returned" /\ f.op \in Makes => f.entry # Null
    /\ f.current # Null => f.result \in Values
    /\ f.pc \in {"operand", "wrapped"} =>
          f.next \in DOMAIN f.operands /\ f.op \in Merges \cup {"equal"}
    /\ f.pc \in {"configure", "id", "insert", "create", "rollback", "returned"} =>
          \A n \in DOMAIN f.operands : n < f.next
    /\ f.op \notin Merges \cup {"equal"} => f.operands = <<>>
    /\ f.op = "equal" => Len(f.operands) = 1

FrameOK(f) ==
    /\ FrameCore(f)
    /\ f.wrapped # Null <=> f.pc = "wrapped"
    /\ f.pc = "wrapped" => f.wrapped = f.operands[f.next]

\* The operation goes on with the same arguments.
SameCall(f, g) ==
    /\ g.op = f.op /\ g.receiver = f.receiver /\ g.operands = f.operands
    /\ g.handles = f.handles /\ g.entry = f.entry

LEMMA NullIsNothing ==
    /\ Null \notin Operations /\ Null \notin Makes /\ Null \notin Callbacks
    /\ Null \notin Messages /\ Null \notin States /\ Null \notin Ids
    /\ Null \notin Foreign /\ Null \notin Handles /\ Null \notin Threads
    /\ Null # "equal" /\ Null # "provider" /\ Null # "OK" /\ Null # "BATCH_IN_USE"
BY NullAssumption DEF Operations, Callbacks, Merges, Makes

\* The fields of a frame, one by one.
LEMMA FrameFields ==
    ASSUME NEW f \in Frames
    PROVE  /\ f.op \in Operations \cup {Null} /\ f.receiver \in Ids \cup {Null}
           /\ f.operands \in Seq(Ids \cup Foreign) /\ f.handles \in SUBSET Handles
           /\ f.current \in States \cup {Null} /\ f.next \in Nat /\ f.next >= 1
           /\ f.result \in Values \cup {Null} /\ f.equal \in BOOLEAN
           /\ f.wrapped \in Foreign \cup {Null} /\ f.entry \in Ids \cup {Null}
           /\ f.out \in Handles \cup {Null} /\ f.message \in Messages \cup {Null}
BY DEF Frames

LEMMA IdleOK == FrameOK(Idle)
<1>1. Idle \in Frames
    BY EmptySeq DEF Frames, Idle
<1>2. /\ Idle.pc = "idle" /\ Idle.op = Null /\ Idle.receiver = Null /\ Idle.operands = <<>>
      /\ Idle.current = Null /\ Idle.wrapped = Null /\ Idle.entry = Null /\ Idle.out = Null
      /\ Idle.message = Null
    BY DEF Idle
<1> QED BY <1>1, <1>2, NullIsNothing DEF FrameOK, FrameCore, Merges

LEMMA DiedOK ==
    ASSUME NEW f, FrameCore(f), NEW why \in Messages, f.out = Null,
           f.pc \in {"receiver", "encode", "operand", "wrapped", "configure", "rollback"}
    PROVE  LET g == Died(f, why)
           IN  /\ FrameCore(g) /\ SameCall(f, g) /\ g.out = Null
               /\ g.pc \in {"catch", "failed"} /\ g.wrapped = f.wrapped
               /\ g.current = f.current /\ g.next = f.next
<1> DEFINE g == Died(f, why)
<1>1. f \in Frames
    BY DEF FrameCore
<1>2. g.pc \in {"catch", "failed"} /\ g.message = why
      /\ g = [f EXCEPT !.message = why, !.pc = g.pc]
    BY <1>1 DEF Died, Frames
<1>3. /\ g.op = f.op /\ g.entry = f.entry /\ g.receiver = f.receiver /\ g.operands = f.operands
      /\ g.current = f.current /\ g.result = f.result /\ g.wrapped = f.wrapped /\ g.out = f.out
      /\ g.handles = f.handles /\ g.next = f.next /\ g \in Frames
    BY <1>1, <1>2 DEF Frames
<1> HIDE DEF g
<1>4. FrameCore(g)
    BY <1>2, <1>3, NullIsNothing DEF FrameCore
<1> QED BY <1>2, <1>3, <1>4 DEF g, SameCall

\* Where the loop over the operands goes on.
LEMMA AfterOperand ==
    ASSUME NEW f, FrameCore(f), f.pc \in {"operand", "wrapped"}
    PROVE  LET pc == CASE f.next < Len(f.operands) -> "operand"
                       [] f.op = "equal"           -> "returned"
                       [] OTHER                    -> "configure"
           IN  /\ pc \in {"operand", "returned", "configure"}
               /\ pc = "operand" => f.next + 1 \in DOMAIN f.operands
               /\ pc # "operand" => \A n \in DOMAIN f.operands : n < f.next + 1
               /\ pc = "returned" => f.op = "equal"
               /\ pc = "configure" => f.op \in Merges
<1>1. PICK next, length : next = f.next /\ length = Len(f.operands)
    OBVIOUS
<1>2. f.operands \in Seq(Ids \cup Foreign) /\ f.op \in Merges \cup {"equal"}
    BY FrameFields DEF FrameCore
<1>3. /\ length \in Nat /\ DOMAIN f.operands = 1..length /\ next \in 1..length
      /\ f.op = "equal" => length = 1
    BY <1>1, <1>2, LenProperties DEF FrameCore
<1>4. next < length => f.op # "equal" /\ next + 1 \in 1..length
    BY <1>3
<1>5. ~(next < length) => \A n \in 1..length : n < next + 1
    BY <1>3
<1> DEFINE pc == CASE next < length -> "operand"
                   [] f.op = "equal" -> "returned"
                   [] OTHER          -> "configure"
<1>6. /\ pc \in {"operand", "returned", "configure"}
      /\ pc = "operand" => next < length
      /\ pc # "operand" => ~(next < length)
      /\ pc = "returned" => f.op = "equal"
      /\ pc = "configure" => f.op # "equal"
    <2>1. CASE next < length
        <3>1. f.op # "equal"
            BY <1>4, <2>1
        <3> QED BY <2>1, <3>1
    <2>2. CASE ~(next < length)
        BY <2>2
    <2> QED BY <2>1, <2>2
<1> HIDE DEF pc
<1>7. /\ pc \in {"operand", "returned", "configure"}
      /\ pc = "operand" => next + 1 \in DOMAIN f.operands
      /\ pc # "operand" => \A n \in DOMAIN f.operands : n < next + 1
      /\ pc = "returned" => f.op = "equal"
      /\ pc = "configure" => f.op \in Merges
    BY <1>2, <1>3, <1>4, <1>5, <1>6
<1> QED BY <1>1, <1>7 DEF pc

\* An operand that was found, or decoded.
LEMMA OperandOK ==
    ASSUME NEW f, FrameCore(f), f.pc \in {"operand", "wrapped"}, NEW operand,
           operand.value \in Values, NEW g \in WithOperand(f, operand)
    PROVE  /\ FrameCore(g) /\ SameCall(f, g) /\ g.out = Null /\ g.wrapped = f.wrapped
           /\ g.pc # "wrapped" /\ g.current = f.current
           /\ g.next = f.next \/ (g.next = f.next + 1 /\ operand.domain = f.current.domain)
<1>1. /\ f \in Frames /\ f.out = Null /\ f.entry = Null /\ f.current \in States
      /\ f.result \in Values /\ f.next \in DOMAIN f.operands /\ f.op \in Merges \cup {"equal"}
      /\ f.message = Null
    BY FrameFields DEF FrameCore
<1>2. {"domain", "user", "mute"} \subseteq Messages
    BY DEF Messages
<1>3. CASE operand.domain # f.current.domain
    BY <1>1, <1>2, <1>3, DiedOK DEF WithOperand
<1>4. CASE operand.domain = f.current.domain
    <2> DEFINE pc == CASE f.next < Len(f.operands) -> "operand"
                       [] f.op = "equal"           -> "returned"
                       [] OTHER                    -> "configure"
               k  == [f EXCEPT !.next = @ + 1, !.pc = pc]
               e  == [k EXCEPT !.equal = (f.result = operand.value)]
               m  == [k EXCEPT !.result = Apply(f.op, f.result, operand.value)]
    <2>1. g \in UserDies(f) \/ (f.op = "equal" /\ g = e) \/ (f.op # "equal" /\ g = m)
        BY <1>4 DEF WithOperand, Combine, Outcomes
    <2>2. CASE g \in UserDies(f)
        BY <1>1, <1>2, <2>2, DiedOK DEF UserDies
    <2>3. f.next \in Nat /\ f.next >= 1 /\ f.operands \in Seq(Ids \cup Foreign)
          /\ Len(f.operands) \in Nat /\ DOMAIN f.operands = 1..Len(f.operands)
        BY <1>1, FrameFields, LenProperties
    <2>4. /\ pc \in {"operand", "returned", "configure"}
          /\ pc = "operand" => f.next + 1 \in DOMAIN f.operands
          /\ pc # "operand" => \A n \in DOMAIN f.operands : n < f.next + 1
          /\ pc = "returned" => f.op = "equal"
          /\ pc = "configure" => f.op \in Merges
        BY AfterOperand
    <2>5. Apply(f.op, f.result, operand.value) \in Values
        BY <1>1, RakuAssumption DEF Apply
    <2> HIDE DEF pc
    <2>6. ASSUME g = e \/ g = m
          PROVE  /\ SameCall(f, g) /\ g.out = Null /\ g.wrapped = f.wrapped /\ g.pc = pc
                 /\ g.current = f.current /\ g.next = f.next + 1 /\ g.message = Null
                 /\ g.result \in Values /\ g \in Frames
        <3>4. k \in Frames
            <4>1. \A n \in Nat \ {0} : \A p \in {"operand", "returned", "configure"} :
                     [f EXCEPT !.next = n, !.pc = p] \in Frames
                BY <1>1 DEF Frames
            <4>2. f.next + 1 \in Nat \ {0}
                BY <2>3
            <4> QED BY <2>4, <4>1, <4>2
        <3>5. \A b \in BOOLEAN : [k EXCEPT !.equal = b] \in Frames
            BY <3>4 DEF Frames
        <3>6. \A v \in Values : [k EXCEPT !.result = v] \in Frames
            BY <3>4 DEF Frames
        <3>1. e \in Frames /\ m \in Frames
            <4> HIDE DEF k
            <4> QED BY <2>5, <3>5, <3>6
        <3>2. CASE g = e
            BY <1>1, <3>1, <3>2 DEF Frames, SameCall
        <3>3. CASE g = m
            BY <1>1, <2>5, <3>1, <3>3 DEF Frames, SameCall
        <3> QED BY <2>6, <3>2, <3>3
    <2> HIDE DEF e, m, k
    <2>7. ASSUME g = e \/ g = m PROVE FrameCore(g)
        BY <1>1, <2>4, <2>6, <2>7, NullIsNothing DEF FrameCore, SameCall, Makes, Merges
    <2> QED BY <1>4, <2>1, <2>2, <2>4, <2>6, <2>7
<1> QED BY <1>3, <1>4
-----------------------------------------------------------------------------
(* The invariant.  *)

SharedOK ==
    /\ states \in [Ids -> States \cup {Null}]
    /\ diagnostic \in [Ids -> Messages \cup {Null}]
    /\ lock \in Threads \cup {Null}
    /\ configured \in {"OK", "BATCH_IN_USE", Null}
    /\ owner \in [Handles -> Ids \cup {Null}]
    /\ adopted \in SUBSET Ids

FramesOK == frame = [t \in Threads |-> frame[t]] /\ \A t \in Threads : FrameOK(frame[t])

\* Every operation that will take an id has one left.
Makers == {t \in Threads : frame[t].op \in Makes /\ frame[t].entry = Null}
Bounded ==
    nextId \in Nat /\ nextId >= 1 /\ nextId + Cardinality(Makers) <= IdBound + 1

\* An id is given out once.
FreshIds ==
    /\ \A i \in Ids : states[i] # Null \/ i \in adopted => i < nextId
    /\ \A t \in Threads : frame[t].entry # Null => frame[t].entry < nextId

\* No two threads work on one entry.
EntriesAreDisjoint ==
    \A t, u \in Threads : t # u /\ frame[t].entry # Null => frame[t].entry # frame[u].entry

\* Where an entry is in its life, as seen from the thread that works on it.
EntryInv ==
    \A t \in Threads :
        LET f == frame[t]
        IN  /\ f.pc = "insert" => f.entry \notin adopted /\ states[f.entry] = Null
            /\ f.pc \in {"create", "rollback"} => f.entry \notin adopted /\ states[f.entry] # Null
            /\ f.pc \in {"catch", "failed"} /\ f.entry # Null =>
                  f.entry \notin adopted /\ states[f.entry] = Null
            /\ f.pc = "drop" => /\ f.entry \in adopted /\ states[f.entry] # Null
                               /\ \A h \in Handles : owner[h] # f.entry
            /\ f.pc = "returned" /\ f.entry # Null => owner[f.out] = f.entry

OwnedInv ==
    \A h \in Handles : owner[h] # Null => owner[h] \in adopted /\ states[owner[h]] # Null

\* The arguments of an operation stay open while it runs.
ArgsOf(f, ow) ==
    /\ \A h \in f.handles : ow[h] # Null
    /\ f.receiver # Null => \E h \in f.handles : ow[h] = f.receiver
    /\ \A n \in DOMAIN f.operands :
          f.operands[n] \in Foreign \/ \E h \in f.handles : ow[h] = f.operands[n]

ArgsInv == \A t \in Threads : ArgsOf(frame[t], owner)

\* What was combined so far is of one domain.
DomainsOf(f, st) ==
    f.current # Null =>
        /\ f.receiver # Null => st[f.receiver].domain = f.current.domain
        /\ \A n \in DOMAIN f.operands :
              n < f.next => IF f.operands[n] \in Foreign
                            THEN ForeignSource[f.operands[n]].domain = f.current.domain
                            ELSE st[f.operands[n]].domain = f.current.domain
        /\ f.pc \in {"create", "returned"} /\ f.entry # Null =>
              st[f.entry].domain = f.current.domain

DomainsInv == \A t \in Threads : DomainsOf(frame[t], states)

IInv == /\ SharedOK /\ FramesOK /\ Bounded /\ FreshIds /\ EntriesAreDisjoint /\ EntryInv
        /\ OwnedInv /\ NoRegistryLeak /\ ArgsInv /\ DomainsInv

\* Thread t goes on with the frame g.
Goes(t, g) ==
    /\ FrameOK(g) /\ frame'[t] = g
    /\ \A u \in Threads : u # t => frame'[u] = frame[u]
    /\ frame' = [u \in Threads |-> frame'[u]]

LEMMA MoveGoes ==
    ASSUME FramesOK, NEW t \in Threads, NEW g, FrameOK(g), Move(t, g)
    PROVE  Goes(t, g) /\ FramesOK'
<1>1. frame' = [frame EXCEPT ![t] = g] /\ frame = [u \in Threads |-> frame[u]]
    BY DEF Move, FramesOK
<1>2. frame' = [u \in Threads |-> IF u = t THEN g ELSE frame[u]]
    BY <1>1
<1>3. Goes(t, g)
    BY <1>2 DEF Goes
<1> QED BY <1>3 DEF FramesOK, Goes
-----------------------------------------------------------------------------
(* What a step that leaves the registry alone keeps.  *)

LEMMA MakersFinite == IsFiniteSet(Makers) /\ Cardinality(Makers) \in Nat
BY RakuAssumption, FS_Subset, FS_CardinalityType DEF Makers

LEMMA BoundedStays ==
    ASSUME Bounded, Makers' \subseteq Makers, nextId' = nextId
    PROVE  Bounded'
<1>1. IsFiniteSet(Makers) /\ Cardinality(Makers) \in Nat
    BY MakersFinite
<1>2. IsFiniteSet(Makers') /\ Cardinality(Makers') <= Cardinality(Makers)
      /\ Cardinality(Makers') \in Nat
    BY <1>1, FS_Subset, FS_CardinalityType
<1> QED BY <1>1, <1>2, RakuAssumption DEF Bounded

\* No new entry, and the thread leaves the one it has where it is.
SamePhase(f, g) ==
    /\ g.entry \in {f.entry, Null}
    /\ g.entry # Null => \/ g.pc = f.pc \/ (f.pc = "create" /\ g.pc = "rollback")
                         \/ (f.pc = "catch" /\ g.pc = "failed")
    /\ g.out \in {f.out, Null}
    /\ g.pc = "drop" => f.pc = "drop"
    /\ f.pc \in {"create", "rollback", "drop"} => g.entry = f.entry

LEMMA EntriesStay ==
    ASSUME IInv, NEW t \in Threads, NEW g, Goes(t, g), SamePhase(frame[t], g),
           UNCHANGED <<nextId, states, owner, adopted>>
    PROVE  FreshIds' /\ EntriesAreDisjoint' /\ EntryInv' /\ OwnedInv' /\ NoRegistryLeak'
<1> DEFINE f == frame[t]
<1>1. /\ frame'[t] = g /\ \A u \in Threads : u # t => frame'[u] = frame[u]
      /\ SamePhase(f, g) /\ FrameCore(f) /\ FrameCore(g)
    BY DEF Goes, IInv, FramesOK, FrameOK
<1>2. f.pc = "returned" /\ g.pc = "returned" /\ g.entry # Null => g.out = f.out
    BY <1>1 DEF FrameCore, SamePhase
<1>3. f.pc \in {"create", "rollback", "drop"} => /\ g.entry = f.entry /\ f.entry # Null
                                                /\ g.pc \in {"create", "rollback", "drop"}
    BY <1>1 DEF FrameCore, SamePhase
<1> HIDE DEF f
<1>4. FreshIds'
    BY <1>1 DEF IInv, FreshIds, SamePhase, f
<1>5. EntriesAreDisjoint'
    BY <1>1 DEF IInv, EntriesAreDisjoint, SamePhase, f
<1>6. EntryInv'
    <2> SUFFICES ASSUME NEW u \in Threads
                 PROVE  LET k == frame'[u]
                        IN  /\ k.pc = "insert" => k.entry \notin adopted /\ states[k.entry] = Null
                            /\ k.pc \in {"create", "rollback"} =>
                                  k.entry \notin adopted /\ states[k.entry] # Null
                            /\ k.pc \in {"catch", "failed"} /\ k.entry # Null =>
                                  k.entry \notin adopted /\ states[k.entry] = Null
                            /\ k.pc = "drop" => /\ k.entry \in adopted /\ states[k.entry] # Null
                                               /\ \A h \in Handles : owner[h] # k.entry
                            /\ k.pc = "returned" /\ k.entry # Null => owner[k.out] = k.entry
        BY DEF EntryInv
    <2>1. CASE u # t
        BY <1>1, <2>1 DEF IInv, EntryInv
    <2>2. CASE u = t
        <3>1. CASE g.entry = Null
            BY <1>1, <2>2, <3>1 DEF FrameCore
        <3>2. CASE g.entry # Null
            BY <1>1, <1>2, <2>2, <3>2 DEF IInv, EntryInv, SamePhase, FrameCore, f
        <3> QED BY <3>1, <3>2
    <2> QED BY <2>1, <2>2
<1>7. OwnedInv'
    BY DEF IInv, OwnedInv
<1>8. NoRegistryLeak'
    <2> SUFFICES ASSUME NEW i \in Ids, states[i] # Null
                 PROVE  \/ \E h \in Handles : owner[h] = i
                        \/ \E u \in Threads : /\ frame'[u].entry = i
                                              /\ frame'[u].pc \in {"create", "rollback", "drop"}
        BY DEF NoRegistryLeak
    <2>1. CASE \E h \in Handles : owner[h] = i
        BY <2>1
    <2>2. CASE \E u \in Threads : frame[u].entry = i /\ frame[u].pc \in {"create", "rollback", "drop"}
        <3>1. PICK u \in Threads : frame[u].entry = i /\ frame[u].pc \in {"create", "rollback", "drop"}
            BY <2>2
        <3>2. CASE u = t
            BY <1>1, <1>3, <3>1, <3>2 DEF f
        <3>3. CASE u # t
            BY <1>1, <3>1, <3>3
        <3> QED BY <3>2, <3>3
    <2> QED BY <2>1, <2>2 DEF IInv, NoRegistryLeak
<1> QED BY <1>4, <1>5, <1>6, <1>7, <1>8

\* The arguments are those of before, or there are none.
SameArgs(f, g) ==
    \/ g.handles = f.handles /\ g.receiver = f.receiver /\ g.operands = f.operands
    \/ g.receiver = Null /\ g.operands = <<>> /\ g.handles = {}

\* A handle some operation uses stays what it is.
LEMMA UsedHandles ==
    ASSUME IInv, \A h \in Handles : InUse(h) /\ owner[h] # Null => owner'[h] = owner[h]
    PROVE  \A v \in Threads : ArgsOf(frame[v], owner')
<1> SUFFICES ASSUME NEW v \in Threads PROVE ArgsOf(frame[v], owner')
    OBVIOUS
<1>1. ArgsOf(frame[v], owner) /\ frame[v].handles \in SUBSET Handles
    BY FrameFields DEF IInv, ArgsInv, FramesOK, FrameOK, FrameCore
<1>2. \A h \in frame[v].handles : owner'[h] = owner[h]
    BY <1>1 DEF ArgsOf, InUse
<1> QED BY <1>1, <1>2 DEF ArgsOf

LEMMA ArgsStay ==
    ASSUME IInv, NEW t \in Threads, NEW g, Goes(t, g),
           SameArgs(frame[t], g) \/ ArgsOf(g, owner'),
           \A h \in Handles : InUse(h) /\ owner[h] # Null => owner'[h] = owner[h]
    PROVE  ArgsInv'
<1> SUFFICES ASSUME NEW u \in Threads PROVE ArgsOf(frame'[u], owner')
    BY DEF ArgsInv
<1>1. \A v \in Threads : ArgsOf(frame[v], owner')
    BY UsedHandles
<1>2. CASE u # t
    BY <1>1, <1>2 DEF Goes
<1>3. CASE u = t
    <2>1. frame'[u] = g
        BY <1>3 DEF Goes
    <2>2. CASE g.receiver = Null /\ g.operands = <<>> /\ g.handles = {}
        BY <2>1, <2>2 DEF ArgsOf
    <2>3. CASE /\ g.handles = frame[t].handles /\ g.receiver = frame[t].receiver
               /\ g.operands = frame[t].operands
        BY <1>1, <2>1, <2>3 DEF ArgsOf
    <2> QED BY <2>1, <2>2, <2>3 DEF SameArgs
<1> QED BY <1>2, <1>3

\* What an operation was called with is in the registry, and not an entry
\* that someone is about to write.
LEMMA ArgsAreOwned ==
    ASSUME IInv, NEW u \in Threads
    PROVE  /\ frame[u].receiver # Null =>
                 frame[u].receiver \in Ids /\ \E h \in Handles : owner[h] = frame[u].receiver
           /\ \A n \in DOMAIN frame[u].operands : frame[u].operands[n] \notin Foreign =>
                 /\ frame[u].operands[n] \in Ids
                 /\ \E h \in Handles : owner[h] = frame[u].operands[n]
<1>1. /\ ArgsOf(frame[u], owner) /\ frame[u].handles \in SUBSET Handles
      /\ frame[u].receiver \in Ids \cup {Null}
      /\ \A n \in DOMAIN frame[u].operands : frame[u].operands[n] \in Ids \cup Foreign
    BY FrameFields DEF IInv, ArgsInv, FramesOK, FrameOK, FrameCore
<1> QED BY <1>1 DEF ArgsOf

LEMMA DomainsStay ==
    ASSUME IInv, NEW t \in Threads, NEW g, Goes(t, g), DomainsOf(g, states'), NEW i,
           \A h \in Handles : owner[h] # Null => owner[h] # i,
           \A u \in Threads : u # t /\ frame[u].entry # Null => frame[u].entry # i,
           \A j \in Ids : j # i => states'[j] = states[j]
    PROVE  DomainsInv'
<1> SUFFICES ASSUME NEW u \in Threads PROVE DomainsOf(frame'[u], states')
    BY DEF DomainsInv
<1>1. CASE u = t
    BY <1>1 DEF Goes
<1>2. CASE u # t
    <2>1. frame'[u] = frame[u] /\ DomainsOf(frame[u], states)
        BY <1>2 DEF Goes, IInv, DomainsInv
    <2>2. frame[u].receiver # Null => states'[frame[u].receiver] = states[frame[u].receiver]
        BY ArgsAreOwned, NullIsNothing
    <2>3. \A n \in DOMAIN frame[u].operands : frame[u].operands[n] \notin Foreign =>
              states'[frame[u].operands[n]] = states[frame[u].operands[n]]
        BY ArgsAreOwned, NullIsNothing
    <2>4. frame[u].entry # Null => states'[frame[u].entry] = states[frame[u].entry]
        BY <1>2, FrameFields DEF IInv, FramesOK, FrameOK, FrameCore
    <2> QED BY <2>1, <2>2, <2>3, <2>4 DEF DomainsOf
<1> QED BY <1>1, <1>2

\* A step of one thread's locals.
LEMMA LocalStep ==
    ASSUME IInv, NEW t \in Threads, NEW g, Move(t, g), FrameOK(g), SamePhase(frame[t], g),
           SameArgs(frame[t], g) \/ ArgsOf(g, owner), DomainsOf(g, states),
           Bounded', SharedOK', UNCHANGED <<nextId, states, owner, adopted>>
    PROVE  IInv'
<1>1. Goes(t, g) /\ FramesOK'
    BY MoveGoes DEF IInv
<1>2. FreshIds' /\ EntriesAreDisjoint' /\ EntryInv' /\ OwnedInv' /\ NoRegistryLeak'
    BY <1>1, EntriesStay
<1>3. ArgsInv'
    BY <1>1, ArgsStay
<1>4. DomainsInv'
    <2>1. DomainsOf(g, states')
        OBVIOUS
    <2>2. 0 \notin Ids
        BY DEF Ids
    <2>3. \A h \in Handles : owner[h] # Null => owner[h] # 0
        BY <2>2 DEF IInv, SharedOK
    <2>4. \A u \in Threads : u # t /\ frame[u].entry # Null => frame[u].entry # 0
        BY <2>2, FrameFields DEF IInv, FramesOK, FrameOK, FrameCore
    <2> QED BY <1>1, <2>1, <2>3, <2>4, DomainsStay
<1> QED BY <1>1, <1>2, <1>3, <1>4 DEF IInv

\* The number of operations that still need an id does not grow.
LEMMA MakersStay ==
    ASSUME IInv, NEW t \in Threads, NEW g, Move(t, g), FrameOK(g), nextId' = nextId,
           g.op \in Makes /\ g.entry = Null => frame[t].op \in Makes /\ frame[t].entry = Null
    PROVE  Bounded'
<1>1. Goes(t, g)
    BY MoveGoes DEF IInv
<1>2. Makers' \subseteq Makers
    BY <1>1 DEF Makers, Goes
<1> QED BY <1>2, BoundedStays DEF IInv
-----------------------------------------------------------------------------
(* Operations begin. *)

LEMMA DomainsOfFresh ==
    ASSUME NEW g, g.receiver = Null, g.operands = <<>>, g.entry = Null
    PROVE  DomainsOf(g, states)
BY DEF DomainsOf

LEMMA IdleMeansNoEntry ==
    ASSUME IInv, NEW t \in Threads, frame[t].pc = "idle"
    PROVE  frame[t].entry = Null /\ frame[t].out = Null /\ frame[t].message = Null
           /\ frame[t].op = Null /\ frame[t].wrapped = Null
BY DEF IInv, FramesOK, FrameOK, FrameCore

\* One operation more that needs an id.
LEMMA OneMaker ==
    ASSUME IInv, NEW t \in Threads, NEW g, Move(t, g), FrameOK(g), IdIsLeft, nextId' = nextId
    PROVE  Bounded'
<1>1. Goes(t, g)
    BY MoveGoes DEF IInv
<1>2. Makers' \subseteq Makers \cup {t}
    BY <1>1 DEF Makers, Goes
<1>3. /\ IsFiniteSet(Makers) /\ Cardinality(Makers) \in Nat
      /\ IsFiniteSet(Makers \cup {t}) /\ Cardinality(Makers \cup {t}) <= Cardinality(Makers) + 1
      /\ Cardinality(Makers \cup {t}) \in Nat
    <2>1. IsFiniteSet(Makers) /\ Cardinality(Makers) \in Nat
        BY MakersFinite
    <2>2. IsFiniteSet(Makers \cup {t}) /\ Cardinality(Makers \cup {t}) =
              IF t \in Makers THEN Cardinality(Makers) ELSE Cardinality(Makers) + 1
        BY <2>1, FS_AddElement
    <2> QED BY <2>1, <2>2
<1>4. Cardinality(Makers') <= Cardinality(Makers) + 1 /\ Cardinality(Makers') \in Nat
    <2>1. IsFiniteSet(Makers') /\ Cardinality(Makers') <= Cardinality(Makers \cup {t})
        BY <1>2, <1>3, FS_Subset
    <2>2. Cardinality(Makers') \in Nat
        BY <2>1, FS_CardinalityType
    <2> QED BY <1>3, <2>1, <2>2
<1>5. nextId + Cardinality(Makers) <= IdBound
    BY DEF IdIsLeft, Makers, Makes
<1> QED BY <1>3, <1>4, <1>5, RakuAssumption DEF IInv, Bounded

LEMMA StepEnterProvider ==
    ASSUME IInv, NEW t \in Threads, NEW source \in Sources, EnterProvider(t, source)
    PROVE  IInv'
<1> DEFINE k == [Idle EXCEPT !.pc = "configure", !.op = "provider",
                             !.current = source, !.result = source.value]
<1>1. PICK g : g = k
    OBVIOUS
<1>2. Idle \in Frames /\ source \in States /\ source.value \in Values
    BY IdleOK, RakuAssumption DEF FrameOK, FrameCore, States
<1>3. "configure" \in {"configure"} /\ "provider" \in Operations
    BY DEF Operations
<1>4. /\ g.pc = "configure" /\ g.op = "provider" /\ g.current = source
      /\ g.result = source.value /\ g.receiver = Null /\ g.operands = <<>> /\ g.handles = {}
      /\ g.entry = Null /\ g.out = Null /\ g.message = Null /\ g.wrapped = Null
    BY <1>1 DEF Idle
<1>5. g \in Frames
    <2>1. \A v \in Values : \A c \in States :
             [Idle EXCEPT !.pc = "configure", !.op = "provider", !.current = c, !.result = v]
                 \in Frames
        BY <1>2, <1>3 DEF Frames
    <2> QED BY <1>1, <1>2, <2>1
<1> HIDE DEF k
<1>6. FrameOK(g)
    BY <1>2, <1>4, <1>5, NullIsNothing DEF FrameOK, FrameCore, Makes, Merges
<1>7. Move(t, g) /\ IdIsLeft /\ frame[t].pc = "idle"
      /\ UNCHANGED <<nextId, states, diagnostic, lock, configured, owner, adopted>>
    BY <1>1 DEF EnterProvider, k, registryVars, shimVars
<1>8. SharedOK'
    BY <1>7 DEF IInv, SharedOK
<1>9. Bounded'
    BY <1>6, <1>7, OneMaker
<1>10. SamePhase(frame[t], g) /\ SameArgs(frame[t], g)
    BY <1>4, <1>7 DEF SamePhase, SameArgs
<1>11. DomainsOf(g, states)
    BY <1>4, DomainsOfFresh
<1> QED BY <1>6, <1>7, <1>8, <1>9, <1>10, <1>11, LocalStep
LEMMA StepEnter ==
    ASSUME IInv, NEW t \in Threads, NEW op \in Operations \ {"provider"}, NEW r \in Handles,
           NEW arguments \in ArgumentLists(op), Enter(t, op, r, arguments)
    PROVE  IInv'
<1> DEFINE hs == {r} \cup (Range(arguments) \cap Handles)
           Target(a) == IF a \in Foreign THEN a ELSE owner[a]
           ops == [n \in DOMAIN arguments |-> Target(arguments[n])]
           k == [Idle EXCEPT !.pc = "receiver", !.op = op, !.receiver = owner[r],
                             !.handles = hs, !.operands = ops]
<1>1. PICK g : g = k
    OBVIOUS
<1>2. /\ Move(t, g) /\ frame[t].pc = "idle" /\ (op \in Merges => IdIsLeft)
      /\ \A h \in hs : owner[h] # Null
      /\ UNCHANGED <<nextId, states, diagnostic, lock, configured, owner, adopted>>
    BY <1>1 DEF Enter, registryVars, shimVars
<1>3. PICK length \in Nat : /\ arguments \in [1..length -> Handles \cup Foreign]
                            /\ op = "equal" => length = 1
                            /\ op \notin Merges \cup {"equal"} => length = 0
    <2>1. CASE op \in Merges
        BY <2>1, RakuAssumption DEF ArgumentLists, Merges
    <2>2. CASE op = "equal"
        BY <2>2 DEF ArgumentLists, Merges
    <2>3. CASE op \notin Merges /\ op # "equal"
        <3>1. arguments = <<>>
            BY <2>3 DEF ArgumentLists
        <3>2. arguments \in [1..0 -> Handles \cup Foreign]
            BY <3>1
        <3> QED BY <2>3, <3>2
    <2> QED BY <2>1, <2>2, <2>3
<1>4. DOMAIN arguments = 1..length /\ \A n \in 1..length : arguments[n] \in Handles \cup Foreign
    BY <1>3
<1>5. owner \in [Handles -> Ids \cup {Null}]
    BY DEF IInv, SharedOK
<1>6. \A n \in 1..length : arguments[n] \notin Foreign => arguments[n] \in hs
    BY <1>4 DEF Range
<1>7. \A n \in 1..length : Target(arguments[n]) \in Ids \cup Foreign
    BY <1>2, <1>4, <1>5, <1>6
<1>8. ops \in [1..length -> Ids \cup Foreign]
    BY <1>4, <1>7
<1>9. ops \in Seq(Ids \cup Foreign) /\ Len(ops) = length /\ DOMAIN ops = 1..length
    <2> HIDE DEF ops
    <2>1. ops \in Seq(Ids \cup Foreign)
        BY <1>8
    <2>2. DOMAIN ops = 1..length
        BY <1>8
    <2>3. Len(ops) = length
        BY <1>3, <2>1, <2>2, LenProperties
    <2> QED BY <2>1, <2>2, <2>3
<1>10. owner[r] \in Ids /\ hs \in SUBSET Handles
    BY <1>2, <1>5
<1>11. \A n \in 1..length : ops[n] \in Foreign \/ \E h \in hs : owner[h] = ops[n]
    BY <1>4, <1>6
<1>12. PICK operands, handles : operands = ops /\ handles = hs
    OBVIOUS
<1>13. /\ g.pc = "receiver" /\ g.op = op /\ g.receiver = owner[r] /\ g.handles = handles
       /\ g.operands = operands /\ g.current = Null /\ g.next = 1 /\ g.entry = Null
       /\ g.out = Null /\ g.message = Null /\ g.wrapped = Null
    BY <1>1, <1>12 DEF Idle
<1>14. g \in Frames
    <2>1. \A i \in Ids : \A s \in Seq(Ids \cup Foreign) : \A z \in SUBSET Handles :
             [Idle EXCEPT !.pc = "receiver", !.op = op, !.receiver = i, !.handles = z,
                          !.operands = s] \in Frames
        <3>1. Idle \in Frames
            BY IdleOK DEF FrameOK, FrameCore
        <3> QED BY <3>1 DEF Frames
    <2> HIDE DEF ops, hs
    <2> QED BY <1>1, <1>9, <1>10, <2>1
<1>15. operands = <<>> \/ op \in Merges \cup {"equal"}
    <2> HIDE DEF ops, hs
    <2> QED BY <1>3, <1>9, <1>12, EmptySeq
<1>16. op = "equal" => Len(operands) = 1
    <2> HIDE DEF ops, hs
    <2> QED BY <1>3, <1>9, <1>12
<1>17. ArgsOf(g, owner)
    <2> HIDE DEF ops, hs
    <2>1. DOMAIN operands = 1..length
        BY <1>9, <1>12
    <2> QED BY <1>2, <1>10, <1>11, <1>12, <1>13, <2>1 DEF hs, ArgsOf
<1> HIDE DEF k, ops, hs, Target
<1>18. FrameOK(g)
    BY <1>10, <1>13, <1>14, <1>15, <1>16, NullIsNothing DEF FrameOK, FrameCore
<1>19. SharedOK'
    BY <1>2 DEF IInv, SharedOK
<1>20. Bounded'
    <2>1. CASE op \in Merges
        BY <1>2, <1>18, <2>1, OneMaker
    <2>2. CASE op \notin Merges
        <3>1. op \notin Makes
            BY <2>2 DEF Makes
        <3> QED BY <1>2, <1>13, <1>18, <3>1, MakersStay
    <2> QED BY <2>1, <2>2
<1>21. SamePhase(frame[t], g)
    BY <1>2, <1>13 DEF SamePhase
<1>22. DomainsOf(g, states)
    BY <1>13 DEF DomainsOf
<1> QED BY <1>2, <1>17, <1>18, <1>19, <1>20, <1>21, <1>22, LocalStep
-----------------------------------------------------------------------------
(* The receiver and the operands. *)

\* An operation that goes on without making an entry.
LEMMA CallGoesOn ==
    ASSUME IInv, NEW t \in Threads, NEW g, Move(t, g), FrameOK(g), g.entry = Null,
           SameCall(frame[t], g), frame[t].pc \notin {"create", "rollback", "drop"},
           g.pc # "drop", g.out = Null, DomainsOf(g, states),
           UNCHANGED <<nextId, states, diagnostic, lock, owner, adopted>>,
           configured' \in {"OK", "BATCH_IN_USE", Null}
    PROVE  IInv'
<1>1. SamePhase(frame[t], g) /\ SameArgs(frame[t], g)
    BY DEF SameCall, SamePhase, SameArgs
<1>2. Bounded'
    BY MakersStay DEF SameCall
<1>3. SharedOK'
    BY DEF IInv, SharedOK
<1> QED BY <1>1, <1>2, <1>3, LocalStep

\* Nothing was looked at or combined.
LEMMA SameDomains ==
    ASSUME IInv, NEW t \in Threads, NEW g, SameCall(frame[t], g), g.current = frame[t].current,
           g.next = frame[t].next, g.entry = Null \/ g.pc \notin {"create", "returned"}
    PROVE  DomainsOf(g, states)
<1>1. DomainsOf(frame[t], states)
    BY DEF IInv, DomainsInv
<1> QED BY <1>1 DEF DomainsOf, SameCall

\* The operation dies before it has an entry.
LEMMA DiesEarly ==
    ASSUME IInv, NEW t \in Threads, NEW why \in Messages, Move(t, Died(frame[t], why)),
           frame[t].pc \in {"receiver", "encode", "operand", "configure"},
           UNCHANGED <<nextId, states, diagnostic, lock, owner, adopted>>,
           configured' \in {"OK", "BATCH_IN_USE", Null}
    PROVE  IInv'
<1>1. PICK f, g : f = frame[t] /\ g = Died(f, why)
    OBVIOUS
<1>2. FrameOK(f)
    BY <1>1 DEF IInv, FramesOK
<1>3. f.out = Null /\ f.entry = Null /\ FrameCore(f) /\ f.wrapped = Null
    BY <1>1, <1>2 DEF FrameOK, FrameCore
<1>4. /\ FrameCore(g) /\ SameCall(f, g) /\ g.out = Null /\ g.pc \in {"catch", "failed"}
      /\ g.wrapped = f.wrapped /\ g.current = f.current /\ g.next = f.next
    BY <1>1, <1>3, DiedOK
<1>5. FrameOK(g) /\ g.entry = Null
    BY <1>3, <1>4 DEF FrameOK, SameCall
<1>6. DomainsOf(g, states)
    BY <1>1, <1>4, <1>5, SameDomains
<1> QED BY <1>1, <1>4, <1>5, <1>6, CallGoesOn

LEMMA StepLookupReceiver ==
    ASSUME IInv, NEW t \in Threads, LookupReceiver(t)
    PROVE  IInv'
<1>1. PICK f, i : f = frame[t] /\ i = f.receiver
    OBVIOUS
<1>2. /\ f.pc = "receiver"
      /\ UNCHANGED <<nextId, states, diagnostic, lock, configured, owner, adopted>>
    BY <1>1 DEF LookupReceiver, registryVars, shimVars
<1>3. configured' \in {"OK", "BATCH_IN_USE", Null}
    BY <1>2 DEF IInv, SharedOK
<1>4. CASE Move(t, Died(f, "closed"))
    <2>1. "closed" \in Messages
        BY DEF Messages
    <2> QED BY <1>1, <1>2, <1>3, <1>4, <2>1, DiesEarly
<1>5. CASE /\ Finds(t, i)
           /\ Move(t, [f EXCEPT !.current = states[i], !.result = states[i].value,
                                !.pc = AfterReceiver(f)])
    <2>1. PICK c, v, pc : c = states[i] /\ v = states[i].value /\ pc = AfterReceiver(f)
        OBVIOUS
    <2>2. PICK g : g = [f EXCEPT !.current = c, !.result = v, !.pc = pc]
        OBVIOUS
    <2>3. FrameOK(f) /\ FrameCore(f) /\ f \in Frames
        BY <1>1 DEF IInv, FramesOK, FrameOK, FrameCore
    <2>4. /\ f.op \in Operations \ {"provider"} /\ f.next = 1 /\ f.receiver \in Ids
          /\ f.entry = Null /\ f.out = Null /\ f.message = Null /\ f.wrapped = Null
          /\ f.operands \in Seq(Ids \cup Foreign)
          /\ f.op \notin Merges \cup {"equal"} => f.operands = <<>>
          /\ f.op = "equal" => Len(f.operands) = 1
        BY <1>2, <2>3, FrameFields, NullIsNothing DEF FrameOK, FrameCore
    <2>5. c \in States /\ v \in Values /\ c # Null
        BY <1>1, <1>5, <2>1, <2>4 DEF Finds, IInv, SharedOK, States
    <2>6. /\ pc \in {"encode", "returned", "operand", "configure"}
          /\ pc = "encode" => f.op = "stable_bytes"
          /\ pc = "operand" => f.operands # <<>> /\ f.op \in Merges \cup {"equal"}
          /\ pc = "returned" => f.op \notin Makes /\ f.operands = <<>>
          /\ pc = "configure" => f.op \in Makes /\ f.operands = <<>>
        <3>1. f.op \in {"join", "meet", "equal", "stable_bytes", "diagnostic", "value"}
            BY <2>4 DEF Operations, Callbacks, Merges
        <3>2. CASE f.op = "stable_bytes"
            <4>1. pc = "encode"
                BY <2>1, <2>4, <3>2 DEF AfterReceiver, Merges
            <4> QED BY <3>2, <4>1
        <3>3. CASE f.op \in {"diagnostic", "value"}
            BY <2>1, <2>4, <3>3 DEF AfterReceiver, Makes, Merges
        <3>4. CASE f.op \in {"join", "meet"}
            <4>1. /\ f.op \in Merges /\ f.op \in Makes
                  /\ f.op # "stable_bytes" /\ f.op \notin {"diagnostic", "value"}
                BY <3>4 DEF Makes, Merges
            <4>2. pc = IF f.operands # <<>> THEN "operand" ELSE "configure"
                BY <2>1, <4>1 DEF AfterReceiver
            <4> QED BY <4>1, <4>2
        <3>5. CASE f.op = "equal"
            <4>1. Len(<<>>) = 0
                OBVIOUS
            <4>2. f.operands # <<>>
                <5>1. SUFFICES ASSUME f.operands = <<>> PROVE FALSE
                    OBVIOUS
                <5>2. Len(f.operands) = 0
                    BY <4>1, <5>1, Zenon
                <5>3. Len(f.operands) = 1
                    BY <2>4, <3>5
                <5> QED BY <5>2, <5>3
            <4>3. pc = "operand"
                BY <2>1, <3>5, <4>2 DEF AfterReceiver
            <4> QED BY <3>5, <4>2, <4>3
        <3> QED BY <3>1, <3>2, <3>3, <3>4, <3>5
    <2>7. /\ g.op = f.op /\ g.receiver = f.receiver /\ g.operands = f.operands
          /\ g.handles = f.handles /\ g.entry = Null /\ g.out = Null /\ g.message = Null
          /\ g.wrapped = Null /\ g.next = 1 /\ g.current = c /\ g.result = v /\ g.pc = pc
        BY <2>2, <2>3, <2>4 DEF Frames
    <2>8. g \in Frames
        BY <2>2, <2>3, <2>5, <2>6 DEF Frames
    <2>9. g.pc = "operand" => 1 \in DOMAIN g.operands
        BY <2>4, <2>6, <2>7, EmptySeq, LenProperties
    <2>10. FrameOK(g)
        BY <2>4, <2>5, <2>6, <2>7, <2>8, <2>9, NullIsNothing DEF FrameOK, FrameCore
    <2>11. DomainsOf(g, states)
        <3>1. \A n \in DOMAIN g.operands : ~(n < g.next)
            BY <2>4, <2>7, LenProperties
        <3> QED BY <1>1, <2>1, <2>7, <3>1 DEF DomainsOf
    <2>12. SameCall(f, g)
        BY <2>4, <2>7 DEF SameCall
    <2>13. Move(t, g)
        BY <1>5, <2>1, <2>2
    <2> QED BY <1>1, <1>2, <1>3, <2>6, <2>7, <2>10, <2>11, <2>12, <2>13, CallGoesOn
<1> QED BY <1>1, <1>4, <1>5 DEF LookupReceiver

LEMMA StepEncode ==
    ASSUME IInv, NEW t \in Threads, Encode(t)
    PROVE  IInv'
<1>1. PICK f : f = frame[t]
    OBVIOUS
<1>2. /\ f.pc = "encode"
      /\ Move(t, [f EXCEPT !.pc = "returned"]) \/ \E g \in UserDies(f) : Move(t, g)
      /\ UNCHANGED <<nextId, states, diagnostic, lock, configured, owner, adopted>>
    BY <1>1 DEF Encode, registryVars, shimVars
<1>3. configured' \in {"OK", "BATCH_IN_USE", Null}
    BY <1>2 DEF IInv, SharedOK
<1>4. CASE \E g \in UserDies(f) : Move(t, g)
    <2>1. PICK why \in Messages : Move(t, Died(f, why))
        BY <1>4 DEF UserDies, Messages
    <2> QED BY <1>1, <1>2, <1>3, <2>1, DiesEarly
<1>5. CASE Move(t, [f EXCEPT !.pc = "returned"])
    <2>1. PICK g : g = [f EXCEPT !.pc = "returned"]
        OBVIOUS
    <2>2. FrameOK(f) /\ FrameCore(f) /\ f \in Frames
        BY <1>1 DEF IInv, FramesOK, FrameOK, FrameCore
    <2>3. /\ g.op = f.op /\ g.receiver = f.receiver /\ g.operands = f.operands
          /\ g.handles = f.handles /\ g.entry = f.entry /\ g.out = f.out
          /\ g.message = f.message /\ g.wrapped = f.wrapped /\ g.next = f.next
          /\ g.current = f.current /\ g.result = f.result /\ g.pc = "returned" /\ g \in Frames
        BY <2>1, <2>2 DEF Frames
    <2>4. f.op = "stable_bytes" /\ f.operands = <<>> /\ f.entry = Null /\ f.out = Null
        BY <1>2, <2>2 DEF FrameCore, Merges
    <2>5. FrameOK(g)
        BY <1>2, <2>2, <2>3, <2>4, NullIsNothing DEF FrameOK, FrameCore, Makes, Merges
    <2>6. SameCall(f, g)
        BY <2>3 DEF SameCall
    <2>7. DomainsOf(g, states)
        BY <1>1, <2>3, <2>4, <2>6, SameDomains
    <2> QED BY <1>1, <1>2, <1>3, <1>5, <2>1, <2>3, <2>4, <2>5, <2>6, <2>7, CallGoesOn
<1> QED BY <1>2, <1>4, <1>5

\* One operand more was looked at, or the operation died.
LEMMA OperandGoesOn ==
    ASSUME IInv, NEW t \in Threads, NEW f, f = frame[t], f.pc \in {"operand", "wrapped"},
           NEW operand, operand.value \in Values,
           IF f.operands[f.next] \in Foreign
           THEN operand.domain = ForeignSource[f.operands[f.next]].domain
           ELSE operand.domain = states[f.operands[f.next]].domain,
           NEW g \in WithOperand(f, operand), NEW k, k = [g EXCEPT !.wrapped = Null],
           Move(t, k),
           UNCHANGED <<nextId, states, diagnostic, lock, configured, owner, adopted>>
    PROVE  IInv'
<1>1. FrameOK(f) /\ FrameCore(f)
    BY DEF IInv, FramesOK, FrameOK
<1>2. /\ FrameCore(g) /\ SameCall(f, g) /\ g.out = Null /\ g.wrapped = f.wrapped
      /\ g.pc # "wrapped" /\ g.current = f.current
      /\ g.next = f.next \/ (g.next = f.next + 1 /\ operand.domain = f.current.domain)
    BY <1>1, OperandOK
<1>3. /\ k.op = g.op /\ k.receiver = g.receiver /\ k.operands = g.operands
      /\ k.handles = g.handles /\ k.entry = g.entry /\ k.out = g.out
      /\ k.message = g.message /\ k.wrapped = Null /\ k.next = g.next
      /\ k.current = g.current /\ k.result = g.result /\ k.pc = g.pc /\ k \in Frames
    BY <1>2 DEF Frames, FrameCore
<1>4. FrameOK(k)
    BY <1>2, <1>3 DEF FrameOK, FrameCore
<1>5. f.entry = Null /\ k.entry = Null
    BY <1>1, <1>2, <1>3 DEF FrameCore, SameCall
<1>6. SameCall(f, k)
    BY <1>2, <1>3 DEF SameCall
<1>7. DomainsOf(k, states)
    <2>1. DomainsOf(f, states)
        BY DEF IInv, DomainsInv
    <2>2. CASE k.next = f.next
        BY <1>2, <1>3, <1>5, <1>6, <2>2, SameDomains
    <2>3. CASE k.next = f.next + 1 /\ operand.domain = f.current.domain
        <3>1. \A n \in DOMAIN f.operands : n < f.next + 1 => n < f.next \/ n = f.next
            <4>1. f.operands \in Seq(Ids \cup Foreign) /\ f.next \in Nat
                BY <1>1, FrameFields DEF FrameCore
            <4>2. DOMAIN f.operands \subseteq Nat
                BY <4>1, LenProperties
            <4> QED BY <4>1, <4>2
        <3>2. k.current = f.current /\ k.receiver = f.receiver /\ k.operands = f.operands
            BY <1>2, <1>3, <1>6 DEF SameCall
        <3> QED BY <1>5, <2>1, <2>3, <3>1, <3>2 DEF DomainsOf
    <2> QED BY <1>2, <1>3, <2>2, <2>3
<1>8. k.pc # "drop"
    BY <1>2, <1>3, <1>6, <1>1, NullIsNothing DEF FrameCore, SameCall, Merges
<1>9. configured' \in {"OK", "BATCH_IN_USE", Null}
    BY DEF IInv, SharedOK
<1>10. k.out = Null
    BY <1>2, <1>3
<1> QED BY <1>4, <1>5, <1>6, <1>7, <1>8, <1>9, <1>10, CallGoesOn

LEMMA StepHostedOperand ==
    ASSUME IInv, NEW t \in Threads, HostedOperand(t)
    PROVE  IInv'
<1>1. PICK f, i : f = frame[t] /\ i = f.operands[f.next]
    OBVIOUS
<1>2. /\ f.pc = "operand" /\ i \in Ids
      /\ UNCHANGED <<nextId, states, diagnostic, lock, configured, owner, adopted>>
    BY <1>1 DEF HostedOperand, registryVars, shimVars
<1>3. configured' \in {"OK", "BATCH_IN_USE", Null}
    BY <1>2 DEF IInv, SharedOK
<1>4. CASE Move(t, Died(f, "closed"))
    <2>1. "closed" \in Messages
        BY DEF Messages
    <2> QED BY <1>1, <1>2, <1>3, <1>4, <2>1, DiesEarly
<1>5. CASE Finds(t, i) /\ \E g \in WithOperand(f, states[i]) : Move(t, g)
    <2>1. PICK operand : operand = states[i]
        OBVIOUS
    <2>2. PICK g \in WithOperand(f, operand) : Move(t, g)
        BY <1>5, <2>1
    <2>3. operand \in States /\ operand.value \in Values
        BY <1>2, <1>5, <2>1 DEF Finds, IInv, SharedOK, States
    <2>4. i \notin Foreign
        BY <1>2, RakuAssumption
    <2>5. FrameOK(f) /\ FrameCore(f) /\ f.wrapped = Null
        BY <1>1, <1>2 DEF IInv, FramesOK, FrameOK
    <2>6. g.wrapped = Null /\ g \in Frames
        BY <1>2, <2>3, <2>5, OperandOK DEF FrameCore
    <2>7. g = [g EXCEPT !.wrapped = Null]
        BY <2>6 DEF Frames
    <2>8. IF f.operands[f.next] \in Foreign
          THEN operand.domain = ForeignSource[f.operands[f.next]].domain
          ELSE operand.domain = states[f.operands[f.next]].domain
        BY <1>1, <2>1, <2>4
    <2> QED BY <1>1, <1>2, <2>2, <2>3, <2>7, <2>8, OperandGoesOn
<1> QED BY <1>1, <1>4, <1>5 DEF HostedOperand

LEMMA StepDecodeOperand ==
    ASSUME IInv, NEW t \in Threads, DecodeOperand(t)
    PROVE  IInv'
<1>1. PICK f : f = frame[t]
    OBVIOUS
<1>2. /\ f.pc = "wrapped"
      /\ \E g \in WithOperand(f, ForeignSource[f.wrapped]) : Move(t, [g EXCEPT !.wrapped = Null])
      /\ UNCHANGED <<nextId, states, diagnostic, lock, configured, owner, adopted>>
    BY <1>1 DEF DecodeOperand, registryVars, shimVars
<1>3. PICK operand : operand = ForeignSource[f.wrapped]
    OBVIOUS
<1>4. PICK g \in WithOperand(f, operand) : Move(t, [g EXCEPT !.wrapped = Null])
    BY <1>2, <1>3
<1>5. PICK k : k = [g EXCEPT !.wrapped = Null]
    OBVIOUS
<1>6. FrameOK(f) /\ FrameCore(f)
    BY <1>1 DEF IInv, FramesOK, FrameOK
<1>7. f.wrapped \in Foreign /\ f.wrapped = f.operands[f.next]
    BY <1>2, <1>6, FrameFields DEF FrameOK, FrameCore
<1>8. operand.value \in Values
    BY <1>3, <1>7, RakuAssumption
<1>9. IF f.operands[f.next] \in Foreign
      THEN operand.domain = ForeignSource[f.operands[f.next]].domain
      ELSE operand.domain = states[f.operands[f.next]].domain
    BY <1>3, <1>7
<1> QED BY <1>1, <1>2, <1>4, <1>5, <1>8, <1>9, OperandGoesOn

\* The operation goes on, changed only where it is and what it has borrowed.
LEMMA StepBorrowOperand ==
    ASSUME IInv, NEW t \in Threads, BorrowOperand(t)
    PROVE  IInv'
<1>1. PICK f, x : f = frame[t] /\ x = f.operands[f.next]
    OBVIOUS
<1>2. /\ f.pc = "operand" /\ x \in Foreign
      /\ UNCHANGED <<nextId, states, diagnostic, lock, configured, owner, adopted>>
      /\ \/ Move(t, [f EXCEPT !.wrapped = x, !.pc = "wrapped"])
         \/ Move(t, Died(f, "user")) \/ Move(t, Died(f, "decoder"))
    <2>1. CASE f.current.decode
        BY <1>1, <2>1 DEF BorrowOperand, registryVars, shimVars
    <2>2. CASE ~f.current.decode
        BY <1>1, <2>2 DEF BorrowOperand, registryVars, shimVars
    <2> QED BY <2>1, <2>2
<1>3. configured' \in {"OK", "BATCH_IN_USE", Null}
    BY <1>2 DEF IInv, SharedOK
<1>4. CASE Move(t, Died(f, "user")) \/ Move(t, Died(f, "decoder"))
    <2>1. "user" \in Messages /\ "decoder" \in Messages
        BY DEF Messages
    <2> QED BY <1>1, <1>2, <1>3, <1>4, <2>1, DiesEarly
<1>5. CASE Move(t, [f EXCEPT !.wrapped = x, !.pc = "wrapped"])
    <2>1. PICK g : g = [f EXCEPT !.wrapped = x, !.pc = "wrapped"]
        OBVIOUS
    <2>2. FrameOK(f) /\ FrameCore(f) /\ f \in Frames
        BY <1>1 DEF IInv, FramesOK, FrameOK, FrameCore
    <2>3. /\ g.op = f.op /\ g.receiver = f.receiver /\ g.operands = f.operands
          /\ g.handles = f.handles /\ g.entry = f.entry /\ g.out = f.out
          /\ g.message = f.message /\ g.wrapped = x /\ g.next = f.next
          /\ g.current = f.current /\ g.result = f.result /\ g.pc = "wrapped" /\ g \in Frames
        BY <1>2, <2>1, <2>2 DEF Frames
    <2>4. f.entry = Null /\ f.out = Null /\ f.message = Null /\ f.op # Null
        BY <1>2, <2>2 DEF FrameCore
    <2>5. FrameOK(g)
        BY <1>1, <1>2, <2>2, <2>3, <2>4, NullIsNothing DEF FrameOK, FrameCore
    <2>6. SameCall(f, g)
        BY <2>3 DEF SameCall
    <2>7. DomainsOf(g, states)
        BY <1>1, <2>3, <2>4, <2>6, SameDomains
    <2> QED BY <1>1, <1>2, <1>3, <1>5, <2>1, <2>3, <2>4, <2>5, <2>6, <2>7, CallGoesOn
<1> QED BY <1>2, <1>4, <1>5
-----------------------------------------------------------------------------
(* make-provider-raw. *)

LEMMA StepEnsureConfigured ==
    ASSUME IInv, NEW t \in Threads, EnsureConfigured(t)
    PROVE  IInv'
<1>1. PICK f : f = frame[t]
    OBVIOUS
<1>2. /\ f.pc = "configure"
      /\ UNCHANGED <<nextId, states, diagnostic, lock, owner, adopted>>
      /\ Move(t, [f EXCEPT !.pc = "id"]) \/ Move(t, Died(f, "native"))
    BY <1>1 DEF EnsureConfigured, registryVars
<1>3. configured' \in {"OK", "BATCH_IN_USE", Null}
    <2>1. configured' \in IF configured = Null THEN {"OK", "BATCH_IN_USE", Null}
                                               ELSE {configured}
        BY DEF EnsureConfigured
    <2> QED BY <2>1 DEF IInv, SharedOK
<1>4. CASE Move(t, Died(f, "native"))
    <2>1. "native" \in Messages
        BY DEF Messages
    <2> QED BY <1>1, <1>2, <1>3, <1>4, <2>1, DiesEarly
<1>5. CASE Move(t, [f EXCEPT !.pc = "id"])
    <2>1. PICK g : g = [f EXCEPT !.pc = "id"]
        OBVIOUS
    <2>2. FrameOK(f) /\ FrameCore(f) /\ f \in Frames
        BY <1>1 DEF IInv, FramesOK, FrameOK, FrameCore
    <2>3. /\ g.op = f.op /\ g.receiver = f.receiver /\ g.operands = f.operands
          /\ g.handles = f.handles /\ g.entry = f.entry /\ g.out = f.out
          /\ g.message = f.message /\ g.wrapped = f.wrapped /\ g.next = f.next
          /\ g.current = f.current /\ g.result = f.result /\ g.pc = "id" /\ g \in Frames
        BY <2>1, <2>2 DEF Frames
    <2>4. f.entry = Null /\ f.out = Null /\ f.message = Null /\ f.op # Null
        BY <1>2, <2>2 DEF FrameCore
    <2>5. FrameOK(g)
        BY <1>2, <2>2, <2>3, <2>4, NullIsNothing DEF FrameOK, FrameCore
    <2>6. SameCall(f, g)
        BY <2>3 DEF SameCall
    <2>7. DomainsOf(g, states)
        BY <1>1, <2>3, <2>4, <2>6, SameDomains
    <2> QED BY <1>1, <1>2, <1>3, <1>5, <2>1, <2>3, <2>4, <2>5, <2>6, <2>7, CallGoesOn
<1> QED BY <1>2, <1>4, <1>5

LEMMA StepAcquireLock ==
    ASSUME IInv, NEW t \in Threads, AcquireLock(t)
    PROVE  IInv'
<1>1. /\ lock' = t
      /\ UNCHANGED <<nextId, states, diagnostic, configured, owner, adopted, frame>>
    BY DEF AcquireLock, shimVars
<1>2. SharedOK'
    BY <1>1 DEF IInv, SharedOK
<1>3. FramesOK' /\ FreshIds' /\ EntriesAreDisjoint' /\ EntryInv' /\ OwnedInv'
      /\ NoRegistryLeak' /\ ArgsInv' /\ DomainsInv'
    BY <1>1 DEF IInv, FramesOK, FreshIds, EntriesAreDisjoint, EntryInv, OwnedInv,
                NoRegistryLeak, ArgsInv, DomainsInv
<1>4. Bounded'
    BY <1>1, BoundedStays DEF IInv, Makers
<1> QED BY <1>2, <1>3, <1>4 DEF IInv

LEMMA StepTakeId ==
    ASSUME IInv, NEW t \in Threads, TakeId(t)
    PROVE  IInv'
<1>1. PICK f, id : f = frame[t] /\ id = nextId
    OBVIOUS
<1>2. PICK g : g = [f EXCEPT !.entry = id, !.pc = "insert"]
    OBVIOUS
<1>3. /\ f.pc = "id" /\ Move(t, g) /\ nextId' = id + 1
      /\ UNCHANGED <<states, diagnostic, lock, configured, owner, adopted>>
    BY <1>1, <1>2 DEF TakeId, shimVars
<1>4. FrameOK(f) /\ FrameCore(f) /\ f \in Frames
    BY <1>1 DEF IInv, FramesOK, FrameOK, FrameCore
<1>5. /\ f.entry = Null /\ f.out = Null /\ f.message = Null /\ f.op # Null /\ f.op \in Makes
      /\ f.wrapped = Null
    BY <1>3, <1>4 DEF FrameOK, FrameCore
<1>6. /\ IsFiniteSet(Makers) /\ Cardinality(Makers) \in Nat
      /\ IsFiniteSet(Makers \ {t}) /\ Cardinality(Makers \ {t}) = Cardinality(Makers) - 1
      /\ Cardinality(Makers \ {t}) \in Nat
    <2>1. t \in Makers
        BY <1>1, <1>5 DEF Makers
    <2>2. IsFiniteSet(Makers) /\ Cardinality(Makers) \in Nat
        BY MakersFinite
    <2>3. IsFiniteSet(Makers \ {t}) /\ Cardinality(Makers \ {t}) = Cardinality(Makers) - 1
        BY <2>1, <2>2, FS_RemoveElement
    <2> QED BY <2>2, <2>3, FS_CardinalityType
<1>7. nextId \in Nat /\ nextId >= 1 /\ nextId + Cardinality(Makers) <= IdBound + 1
    BY DEF IInv, Bounded
<1>8. id \in Ids
    BY <1>1, <1>6, <1>7, RakuAssumption DEF Ids
<1>9. /\ g.op = f.op /\ g.receiver = f.receiver /\ g.operands = f.operands
      /\ g.handles = f.handles /\ g.entry = id /\ g.out = f.out
      /\ g.message = f.message /\ g.wrapped = f.wrapped /\ g.next = f.next
      /\ g.current = f.current /\ g.result = f.result /\ g.pc = "insert" /\ g \in Frames
    BY <1>2, <1>4, <1>8 DEF Frames
<1>10. FrameOK(g)
    BY <1>3, <1>4, <1>5, <1>8, <1>9, NullIsNothing DEF FrameOK, FrameCore
<1>11. Goes(t, g) /\ FramesOK'
    BY <1>3, <1>10, MoveGoes DEF IInv
<1>12. SharedOK'
    BY <1>3 DEF IInv, SharedOK
<1>13. Bounded'
    <2>1. Makers' \subseteq Makers \ {t}
        BY <1>8, <1>9, <1>11, NullIsNothing DEF Makers, Goes
    <2>2. IsFiniteSet(Makers') /\ Cardinality(Makers') <= Cardinality(Makers \ {t})
        BY <1>6, <2>1, FS_Subset
    <2>3. Cardinality(Makers') \in Nat
        BY <2>2, FS_CardinalityType
    <2> QED BY <1>1, <1>3, <1>6, <1>7, <2>2, <2>3, RakuAssumption DEF Bounded
<1>14. \A u \in Threads : u # t => frame'[u] = frame[u] /\ frame[u].entry \in Ids \cup {Null}
    BY <1>11, FrameFields DEF Goes, IInv, FramesOK, FrameOK, FrameCore
<1>15. frame'[t] = g
    BY <1>11 DEF Goes
<1>16. /\ \A i \in Ids : states[i] # Null \/ i \in adopted => i < id
       /\ \A u \in Threads : frame[u].entry # Null => frame[u].entry < id
    BY <1>1 DEF IInv, FreshIds
<1>17. states[id] = Null /\ id \notin adopted
    <2>1. ~(id < id)
        BY <1>8 DEF Ids
    <2> QED BY <1>8, <1>16, <2>1
<1>18. FreshIds'
    <2>1. \A i \in Ids : i < id => i < id + 1
        BY <1>8 DEF Ids
    <2>2. id < id + 1
        BY <1>8 DEF Ids
    <2>3. \A i \in Ids : states[i] # Null \/ i \in adopted => i < id + 1
        BY <1>16, <2>1
    <2>4. \A u \in Threads : frame'[u].entry # Null => frame'[u].entry < id + 1
        BY <1>9, <1>14, <1>15, <1>16, <2>1, <2>2
    <2> QED BY <1>3, <2>3, <2>4 DEF FreshIds
<1>19. EntriesAreDisjoint'
    <2>1. \A u \in Threads : u # t => frame'[u].entry # id
        <3>1. ~(id < id)
            BY <1>8 DEF Ids
        <3> QED BY <1>8, <1>14, <1>16, <3>1, NullIsNothing
    <2>2. EntriesAreDisjoint
        BY DEF IInv
    <2> QED BY <1>9, <1>14, <1>15, <2>1, <2>2 DEF EntriesAreDisjoint
<1>20. EntryInv'
    BY <1>3, <1>9, <1>14, <1>15, <1>17 DEF IInv, EntryInv
<1>21. OwnedInv' /\ NoRegistryLeak'
    BY <1>3, <1>5, <1>1, <1>14 DEF IInv, OwnedInv, NoRegistryLeak
<1>22. ArgsInv'
    <2>1. SameArgs(f, g)
        BY <1>9 DEF SameArgs
    <2> QED BY <1>1, <1>3, <1>11, <2>1, ArgsStay
<1>23. DomainsInv'
    <2>1. DomainsOf(f, states)
        BY <1>1 DEF IInv, DomainsInv
    <2>2. DomainsOf(g, states')
        BY <1>3, <1>9, <2>1 DEF DomainsOf
    <2>3. 0 \notin Ids
        BY DEF Ids
    <2>4. \A h \in Handles : owner[h] # Null => owner[h] # 0
        BY <2>3 DEF IInv, SharedOK
    <2>5. \A u \in Threads : u # t /\ frame[u].entry # Null => frame[u].entry # 0
        BY <1>14, <2>3
    <2> QED BY <1>3, <1>11, <2>2, <2>4, <2>5, DomainsStay
<1> QED BY <1>11, <1>12, <1>13, <1>18, <1>19, <1>20, <1>21, <1>22, <1>23 DEF IInv

Overwritten(i, x) ==
    /\ states' = [states EXCEPT ![i] = x]
    /\ diagnostic' = [diagnostic EXCEPT ![i] = Null]

\* The registry is written at the entry of a thread that holds the lock: the
\* entry appears, or it is taken out.
LEMMA RegistryWrite ==
    ASSUME IInv, NEW t \in Threads, NEW f, f = frame[t], NEW g, Goes(t, g), FramesOK',
           NEW x, Overwritten(f.entry, x), lock' = Null,
           UNCHANGED <<nextId, owner, adopted, configured>>,
           SameArgs(f, g), DomainsOf(g, states'), g.out = Null,
           \/ f.pc = "insert" /\ g.pc = "create" /\ g.entry = f.entry /\ x \in States
           \/ f.pc = "rollback" /\ g.pc \in {"catch", "failed"} /\ g.entry = f.entry /\ x = Null
           \/ f.pc = "drop" /\ g.pc = "idle" /\ g.entry = Null /\ x = Null /\ g.op = Null
    PROVE  IInv'
<1>1. FrameCore(f) /\ f.entry \in Ids /\ f.entry # Null
    <2>1. FrameCore(f)
        BY DEF IInv, FramesOK, FrameOK
    <2>2. f.entry # Null
        BY <2>1 DEF FrameCore
    <2> QED BY <2>1, <2>2, FrameFields DEF FrameCore
<1>2. PICK i : i = f.entry
    OBVIOUS
<1>3. /\ i \in Ids /\ i # Null
      /\ states'[i] = x /\ \A j \in Ids : j # i => states'[j] = states[j]
      /\ states \in [Ids -> States \cup {Null}]
    BY <1>1, <1>2 DEF Overwritten, IInv, SharedOK
<1>4. /\ frame'[t] = g
      /\ \A u \in Threads : u # t => frame'[u] = frame[u] /\ frame[u].entry # i
    BY <1>1, <1>2 DEF Goes, IInv, EntriesAreDisjoint
<1>5. \A h \in Handles : owner[h] # i
    <2>1. f.pc \in {"insert", "rollback"} => i \notin adopted
        BY <1>2 DEF IInv, EntryInv
    <2>2. f.pc = "drop" => \A h \in Handles : owner[h] # i
        BY <1>2 DEF IInv, EntryInv
    <2> QED BY <1>3, <2>1, <2>2 DEF IInv, OwnedInv
<1>6. SharedOK'
    BY <1>2, <1>3, NullIsNothing DEF Overwritten, IInv, SharedOK
<1>7. Bounded'
    <2>1. Makers' \subseteq Makers
        BY <1>2, <1>3, <1>4, NullIsNothing DEF Makers
    <2> QED BY <2>1, BoundedStays DEF IInv
<1>8. g.entry \in {i, Null}
    BY <1>2
<1>9. FreshIds'
    <2>1. /\ \A j \in Ids : states[j] # Null \/ j \in adopted => j < nextId
          /\ \A u \in Threads : frame[u].entry # Null => frame[u].entry < nextId
        BY DEF IInv, FreshIds
    <2>2. i < nextId
        BY <1>2, <1>3, <2>1
    <2>3. \A j \in Ids : states'[j] # Null \/ j \in adopted => j < nextId
        BY <1>3, <2>1, <2>2
    <2>4. \A u \in Threads : frame'[u].entry # Null => frame'[u].entry < nextId
        BY <1>4, <1>8, <2>1, <2>2
    <2> QED BY <2>3, <2>4 DEF FreshIds
<1>10. EntriesAreDisjoint'
    <2>1. EntriesAreDisjoint
        BY DEF IInv
    <2>2. \A u, v \in Threads : u # v /\ frame'[u].entry # Null => frame'[u].entry # frame'[v].entry
        BY <1>3, <1>4, <1>8, <2>1 DEF EntriesAreDisjoint
    <2> QED BY <2>2 DEF EntriesAreDisjoint
<1>11. EntryInv'
    <2> SUFFICES ASSUME NEW u \in Threads, NEW k, k = frame'[u]
                 PROVE  /\ k.pc = "insert" => k.entry \notin adopted /\ states'[k.entry] = Null
                        /\ k.pc \in {"create", "rollback"} =>
                              k.entry \notin adopted /\ states'[k.entry] # Null
                        /\ k.pc \in {"catch", "failed"} /\ k.entry # Null =>
                              k.entry \notin adopted /\ states'[k.entry] = Null
                        /\ k.pc = "drop" => /\ k.entry \in adopted /\ states'[k.entry] # Null
                                           /\ \A h \in Handles : owner[h] # k.entry
                        /\ k.pc = "returned" /\ k.entry # Null => owner[k.out] = k.entry
        BY DEF EntryInv
    <2>1. CASE u # t
        <3>1. k = frame[u] /\ FrameCore(k) /\ k.entry \in Ids \cup {Null} /\ k.entry # i
            BY <1>4, <2>1, FrameFields DEF IInv, FramesOK, FrameOK, FrameCore
        <3>2. k.entry # Null => states'[k.entry] = states[k.entry]
            BY <1>3, <3>1
        <3>3. k.pc \in {"insert", "create", "rollback", "drop"} => k.entry # Null
            BY <3>1 DEF FrameCore
        <3> QED BY <3>1, <3>2, <3>3 DEF IInv, EntryInv
    <2>2. CASE u = t
        <3>1. k = g
            BY <1>4, <2>2
        <3>2. CASE f.pc = "insert"
            <4>1. i \notin adopted
                BY <1>2, <3>2 DEF IInv, EntryInv
            <4> QED BY <1>2, <1>3, <3>1, <3>2, <4>1, NullIsNothing
        <3>3. CASE f.pc = "rollback"
            <4>1. i \notin adopted
                BY <1>2, <3>3 DEF IInv, EntryInv
            <4> QED BY <1>2, <1>3, <3>1, <3>3, <4>1
        <3>4. CASE f.pc = "drop"
            BY <3>1, <3>4
        <3> QED BY <3>2, <3>3, <3>4
    <2> QED BY <2>1, <2>2
<1>12. OwnedInv'
    <2>1. \A h \in Handles : owner[h] # Null => owner[h] \in Ids
        BY DEF IInv, SharedOK
    <2> QED BY <1>3, <1>5, <2>1 DEF IInv, OwnedInv
<1>13. NoRegistryLeak'
    <2> SUFFICES ASSUME NEW j \in Ids, states'[j] # Null
                 PROVE  \/ \E h \in Handles : owner[h] = j
                        \/ \E u \in Threads : /\ frame'[u].entry = j
                                              /\ frame'[u].pc \in {"create", "rollback", "drop"}
        BY DEF NoRegistryLeak
    <2>1. CASE j = i
        BY <1>2, <1>3, <1>4, <2>1
    <2>2. CASE j # i
        <3>1. states[j] # Null
            BY <1>3, <2>2
        <3>2. CASE \E h \in Handles : owner[h] = j
            BY <3>2
        <3>3. CASE \E u \in Threads : /\ frame[u].entry = j
                                      /\ frame[u].pc \in {"create", "rollback", "drop"}
            <4>1. PICK u \in Threads : /\ frame[u].entry = j
                                       /\ frame[u].pc \in {"create", "rollback", "drop"}
                BY <3>3
            <4>2. u # t
                BY <1>2, <2>2, <4>1
            <4> QED BY <1>4, <4>1, <4>2
        <3> QED BY <3>1, <3>2, <3>3 DEF IInv, NoRegistryLeak
    <2> QED BY <2>1, <2>2
<1>14. ArgsInv'
    BY ArgsStay
<1>15. DomainsInv'
    <2>1. \A u \in Threads : u # t /\ frame[u].entry # Null => frame[u].entry # i
        BY <1>4
    <2>2. \A h \in Handles : owner[h] # Null => owner[h] # i
        BY <1>5
    <2>3. \A j \in Ids : j # i => states'[j] = states[j]
        BY <1>3
    <2>4. Goes(t, g) /\ DomainsOf(g, states')
        OBVIOUS
    <2> QED BY <2>1, <2>2, <2>3, <2>4, DomainsStay
<1> QED BY <1>6, <1>7, <1>9, <1>10, <1>11, <1>12, <1>13, <1>14, <1>15 DEF IInv

\* What the thread itself was called with is not the entry it writes.
LEMMA OwnDomains ==
    ASSUME IInv, NEW t \in Threads, NEW f, f = frame[t], f.entry # Null,
           \A h \in Handles : owner[h] # f.entry,
           \A j \in Ids : j # f.entry => states'[j] = states[j],
           NEW g, g.current = f.current, g.next = f.next,
           SameArgs(f, g), g.pc \in {"create", "returned"} /\ g.entry # Null =>
               states'[g.entry].domain = g.current.domain
    PROVE  DomainsOf(g, states')
<1>1. DomainsOf(f, states)
    BY DEF IInv, DomainsInv
<1>2. f.receiver # Null => states'[f.receiver] = states[f.receiver]
    BY ArgsAreOwned
<1>3. \A n \in DOMAIN f.operands : f.operands[n] \notin Foreign =>
          states'[f.operands[n]] = states[f.operands[n]]
    BY ArgsAreOwned
<1>4. CASE g.receiver = f.receiver /\ g.operands = f.operands
    BY <1>1, <1>2, <1>3, <1>4 DEF DomainsOf
<1>5. CASE g.receiver = Null /\ g.operands = <<>>
    BY <1>5 DEF DomainsOf
<1> QED BY <1>4, <1>5 DEF SameArgs

\* The entry a thread is about to write is owned by nobody.
LEMMA EntryIsUnowned ==
    ASSUME IInv, NEW t \in Threads, frame[t].pc \in {"insert", "create", "rollback", "drop"}
    PROVE  /\ frame[t].entry \in Ids /\ frame[t].entry # Null
           /\ \A h \in Handles : owner[h] # frame[t].entry
<1>1. frame[t].entry # Null /\ frame[t].entry \in Ids
    BY FrameFields DEF IInv, FramesOK, FrameOK, FrameCore
<1>2. frame[t].pc # "drop" => frame[t].entry \notin adopted
    BY DEF IInv, EntryInv
<1>3. frame[t].pc = "drop" => \A h \in Handles : owner[h] # frame[t].entry
    BY DEF IInv, EntryInv
<1> QED BY <1>1, <1>2, <1>3 DEF IInv, OwnedInv

LEMMA StepInsert ==
    ASSUME IInv, NEW t \in Threads, Insert(t)
    PROVE  IInv'
<1>1. PICK f, g : f = frame[t] /\ g = [f EXCEPT !.pc = "create"]
    OBVIOUS
<1>2. PICK x : x = [f.current EXCEPT !.value = f.result]
    OBVIOUS
<1>3. /\ f.pc = "insert" /\ Move(t, g) /\ Overwritten(f.entry, x) /\ lock' = Null
      /\ UNCHANGED <<nextId, owner, adopted, configured>>
    BY <1>1, <1>2 DEF Insert, Write, Overwritten, shimVars
<1>4. FrameOK(f) /\ FrameCore(f) /\ f \in Frames
    BY <1>1 DEF IInv, FramesOK, FrameOK, FrameCore
<1>5. /\ f.entry # Null /\ f.out = Null /\ f.message = Null /\ f.op # Null /\ f.op \in Makes
      /\ f.wrapped = Null /\ f.current \in States /\ f.result \in Values
    BY <1>3, <1>4, FrameFields DEF FrameOK, FrameCore
<1>6. x \in States /\ x.domain = f.current.domain
    BY <1>2, <1>5 DEF States
<1>7. /\ g.op = f.op /\ g.receiver = f.receiver /\ g.operands = f.operands
      /\ g.handles = f.handles /\ g.entry = f.entry /\ g.out = f.out
      /\ g.message = f.message /\ g.wrapped = f.wrapped /\ g.next = f.next
      /\ g.current = f.current /\ g.result = f.result /\ g.pc = "create" /\ g \in Frames
    BY <1>1, <1>4 DEF Frames
<1>8. FrameOK(g)
    BY <1>3, <1>4, <1>5, <1>7, NullIsNothing DEF FrameOK, FrameCore
<1>9. Goes(t, g) /\ FramesOK'
    BY <1>3, <1>8, MoveGoes DEF IInv
<1>10. SameArgs(f, g)
    BY <1>7 DEF SameArgs
<1>11. /\ f.entry \in Ids /\ \A h \in Handles : owner[h] # f.entry
       /\ states'[f.entry] = x /\ \A j \in Ids : j # f.entry => states'[j] = states[j]
    <2>1. f.entry \in Ids /\ \A h \in Handles : owner[h] # f.entry
        BY <1>1, <1>3, EntryIsUnowned
    <2> QED BY <1>3, <2>1 DEF Overwritten, IInv, SharedOK
<1>12. DomainsOf(g, states')
    <2>1. g.entry # Null => states'[g.entry].domain = g.current.domain
        BY <1>6, <1>7, <1>11
    <2>2. g.current = f.current /\ g.next = f.next
        BY <1>7
    <2> QED BY <1>1, <1>5, <1>10, <1>11, <2>1, <2>2, OwnDomains
<1>13. g.pc = "create" /\ g.entry = f.entry /\ g.out = Null
    BY <1>5, <1>7
<1> QED BY <1>1, <1>3, <1>6, <1>9, <1>10, <1>12, <1>13, RegistryWrite

LEMMA StepRollback ==
    ASSUME IInv, NEW t \in Threads, Rollback(t)
    PROVE  IInv'
<1>1. PICK f, g : f = frame[t] /\ g = Died(f, "native")
    OBVIOUS
<1>2. /\ f.pc = "rollback" /\ Move(t, g) /\ Overwritten(f.entry, Null) /\ lock' = Null
      /\ UNCHANGED <<nextId, owner, adopted, configured>>
    BY <1>1 DEF Rollback, RollbackWith, Write, Overwritten, shimVars
<1>3. FrameOK(f) /\ FrameCore(f) /\ f.out = Null /\ f.wrapped = Null /\ f.entry # Null
    BY <1>1, <1>2 DEF IInv, FramesOK, FrameOK, FrameCore
<1>4. /\ FrameCore(g) /\ SameCall(f, g) /\ g.out = Null /\ g.pc \in {"catch", "failed"}
      /\ g.wrapped = f.wrapped /\ g.current = f.current /\ g.next = f.next
    <2>1. "native" \in Messages
        BY DEF Messages
    <2> QED BY <1>1, <1>2, <1>3, <2>1, DiedOK
<1>5. FrameOK(g)
    BY <1>3, <1>4 DEF FrameOK
<1>6. Goes(t, g) /\ FramesOK'
    BY <1>2, <1>5, MoveGoes DEF IInv
<1>7. SameArgs(f, g) /\ g.entry = f.entry
    BY <1>4 DEF SameArgs, SameCall
<1>8. /\ f.entry \in Ids /\ \A h \in Handles : owner[h] # f.entry
      /\ \A j \in Ids : j # f.entry => states'[j] = states[j]
    <2>1. f.entry \in Ids /\ \A h \in Handles : owner[h] # f.entry
        BY <1>1, <1>2, EntryIsUnowned
    <2> QED BY <1>2, <2>1 DEF Overwritten, IInv, SharedOK
<1>9. DomainsOf(g, states')
    <2>1. g.pc \notin {"create", "returned"}
        BY <1>4
    <2> QED BY <1>1, <1>3, <1>4, <1>7, <1>8, <2>1, OwnDomains
<1> QED BY <1>1, <1>2, <1>4, <1>6, <1>7, <1>9, RegistryWrite

LEMMA StepCreate ==
    ASSUME IInv, NEW t \in Threads, Create(t)
    PROVE  IInv'
<1>1. PICK f, i : f = frame[t] /\ i = f.entry
    OBVIOUS
<1>2. PICK h \in Handles : /\ owner[h] = Null /\ owner' = [owner EXCEPT ![h] = i]
                           /\ Move(t, [f EXCEPT !.out = h, !.pc = "returned"])
    BY <1>1 DEF Create
<1>3. PICK g : g = [f EXCEPT !.out = h, !.pc = "returned"]
    OBVIOUS
<1>4. /\ f.pc = "create" /\ adopted' = adopted \cup {i}
      /\ UNCHANGED <<nextId, states, diagnostic, lock, configured>>
    BY <1>1 DEF Create, registryVars
<1>5. FrameOK(f) /\ FrameCore(f) /\ f \in Frames
    BY <1>1 DEF IInv, FramesOK, FrameOK, FrameCore
<1>6. /\ f.message = Null /\ f.op # Null /\ f.op \in Makes
      /\ f.wrapped = Null /\ f.current \in States /\ f.result \in Values
    BY <1>4, <1>5, FrameFields DEF FrameOK, FrameCore
<1>7. /\ g.op = f.op /\ g.receiver = f.receiver /\ g.operands = f.operands
      /\ g.handles = f.handles /\ g.entry = i /\ g.out = h
      /\ g.message = f.message /\ g.wrapped = f.wrapped /\ g.next = f.next
      /\ g.current = f.current /\ g.result = f.result /\ g.pc = "returned" /\ g \in Frames
    BY <1>1, <1>3, <1>5 DEF Frames
<1>8. i \in Ids /\ i # Null /\ \A k \in Handles : owner[k] # i
    BY <1>1, <1>4, EntryIsUnowned
<1>9. FrameOK(g)
    BY <1>1, <1>4, <1>5, <1>6, <1>7, <1>8, NullIsNothing DEF FrameOK, FrameCore
<1>10. Goes(t, g) /\ FramesOK'
    BY <1>2, <1>3, <1>9, MoveGoes DEF IInv
<1>11. /\ owner'[h] = i /\ \A k \in Handles : k # h => owner'[k] = owner[k]
       /\ owner' \in [Handles -> Ids \cup {Null}]
    BY <1>2, <1>8 DEF IInv, SharedOK
<1>12. SharedOK'
    BY <1>4, <1>8, <1>11 DEF IInv, SharedOK
<1>13. Bounded'
    BY <1>2, <1>3, <1>4, <1>7, <1>8, <1>9, MakersStay
<1>14. frame'[t] = g /\ \A u \in Threads : u # t =>
           frame'[u] = frame[u] /\ frame[u].entry # i /\ frame[u].entry \in Ids \cup {Null}
    BY <1>1, <1>8, <1>10, FrameFields
       DEF Goes, IInv, EntriesAreDisjoint, FramesOK, FrameOK, FrameCore
<1>15. i \notin adopted /\ states[i] # Null
    BY <1>1, <1>4 DEF IInv, EntryInv
<1>16. FreshIds'
    <2>1. i < nextId
        BY <1>1, <1>8 DEF IInv, FreshIds
    <2> QED BY <1>4, <1>7, <1>14, <2>1 DEF IInv, FreshIds
<1>17. EntriesAreDisjoint'
    BY <1>7, <1>8, <1>14 DEF IInv, EntriesAreDisjoint
<1>18. EntryInv'
    <2> SUFFICES ASSUME NEW u \in Threads, NEW k, k = frame'[u]
                 PROVE  /\ k.pc = "insert" => k.entry \notin adopted' /\ states'[k.entry] = Null
                        /\ k.pc \in {"create", "rollback"} =>
                              k.entry \notin adopted' /\ states'[k.entry] # Null
                        /\ k.pc \in {"catch", "failed"} /\ k.entry # Null =>
                              k.entry \notin adopted' /\ states'[k.entry] = Null
                        /\ k.pc = "drop" => /\ k.entry \in adopted' /\ states'[k.entry] # Null
                                           /\ \A m \in Handles : owner'[m] # k.entry
                        /\ k.pc = "returned" /\ k.entry # Null => owner'[k.out] = k.entry
        BY DEF EntryInv
    <2>1. CASE u = t
        BY <1>7, <1>11, <1>14, <2>1
    <2>2. CASE u # t
        <3>1. k = frame[u] /\ k.entry # i /\ k.entry \in Ids \cup {Null} /\ FrameCore(k)
            BY <1>14, <2>2 DEF IInv, FramesOK, FrameOK
        <3>2. k.pc = "returned" /\ k.entry # Null => owner[k.out] = k.entry /\ k.out \in Handles
            BY <3>1, FrameFields DEF IInv, EntryInv, FrameCore
        <3>3. k.pc = "returned" /\ k.entry # Null => owner'[k.out] = k.entry
            BY <1>2, <1>11, <3>2
        <3>4. k.entry \in adopted' <=> k.entry \in adopted
            BY <1>4, <3>1
        <3>5. k.pc = "drop" => \A m \in Handles : owner'[m] # k.entry
            BY <1>11, <3>1 DEF IInv, EntryInv
        <3> QED BY <1>4, <3>1, <3>3, <3>4, <3>5 DEF IInv, EntryInv
    <2> QED BY <2>1, <2>2
<1>19. OwnedInv'
    BY <1>4, <1>11, <1>15 DEF IInv, OwnedInv
<1>20. NoRegistryLeak'
    <2> SUFFICES ASSUME NEW j \in Ids, states[j] # Null
                 PROVE  \/ \E k \in Handles : owner'[k] = j
                        \/ \E u \in Threads : /\ frame'[u].entry = j
                                              /\ frame'[u].pc \in {"create", "rollback", "drop"}
        BY <1>4 DEF NoRegistryLeak
    <2>1. CASE j = i
        BY <1>11, <2>1
    <2>2. CASE \E k \in Handles : owner[k] = j
        <3>1. PICK k \in Handles : owner[k] = j
            BY <2>2
        <3>2. k # h
            BY <1>2, <3>1, NullIsNothing
        <3> QED BY <1>11, <3>1, <3>2
    <2>3. CASE j # i /\ \E u \in Threads : /\ frame[u].entry = j
                                           /\ frame[u].pc \in {"create", "rollback", "drop"}
        BY <1>1, <1>14, <2>3
    <2> QED BY <2>1, <2>2, <2>3 DEF IInv, NoRegistryLeak
<1>21. ArgsInv'
    <2>1. SameArgs(f, g)
        BY <1>7 DEF SameArgs
    <2>2. \A k \in Handles : InUse(k) /\ owner[k] # Null => owner'[k] = owner[k]
        BY <1>2, <1>11
    <2> QED BY <1>1, <1>10, <2>1, <2>2, ArgsStay
<1>22. DomainsInv'
    <2>1. DomainsOf(f, states)
        BY <1>1 DEF IInv, DomainsInv
    <2>2. DomainsOf(g, states')
        BY <1>1, <1>4, <1>7, <2>1 DEF DomainsOf
    <2>3. \A k \in Handles : owner[k] # Null => owner[k] # i
        BY <1>8
    <2>4. \A u \in Threads : u # t /\ frame[u].entry # Null => frame[u].entry # i
        BY <1>14
    <2>5. \A j \in Ids : j # i => states'[j] = states[j]
        BY <1>4
    <2> QED BY <1>10, <2>2, <2>3, <2>4, <2>5, DomainsStay
<1> QED BY <1>10, <1>12, <1>13, <1>16, <1>17, <1>18, <1>19, <1>20, <1>21, <1>22 DEF IInv

\* The operation goes on with its entry.
LEMMA StepCreateFails ==
    ASSUME IInv, NEW t \in Threads, CreateFails(t)
    PROVE  IInv'
<1>1. PICK f, g : f = frame[t] /\ g = [f EXCEPT !.pc = "rollback"]
    OBVIOUS
<1>2. /\ f.pc = "create" /\ Move(t, g)
      /\ UNCHANGED <<nextId, states, diagnostic, lock, configured, owner, adopted>>
    BY <1>1 DEF CreateFails, registryVars, shimVars
<1>3. FrameOK(f) /\ FrameCore(f) /\ f \in Frames
    BY <1>1 DEF IInv, FramesOK, FrameOK, FrameCore
<1>4. /\ g.op = f.op /\ g.receiver = f.receiver /\ g.operands = f.operands
      /\ g.handles = f.handles /\ g.entry = f.entry /\ g.out = f.out
      /\ g.message = f.message /\ g.wrapped = f.wrapped /\ g.next = f.next
      /\ g.current = f.current /\ g.result = f.result /\ g.pc = "rollback" /\ g \in Frames
    BY <1>1, <1>3 DEF Frames
<1>5. /\ f.entry # Null /\ f.out = Null /\ f.message = Null /\ f.op # Null
      /\ f.wrapped = Null
    BY <1>2, <1>3 DEF FrameOK, FrameCore
<1>6. FrameOK(g)
    BY <1>2, <1>3, <1>4, <1>5, NullIsNothing DEF FrameOK, FrameCore
<1>7. SamePhase(f, g) /\ SameArgs(f, g) /\ SameCall(f, g)
    BY <1>2, <1>4 DEF SamePhase, SameArgs, SameCall
<1>8. DomainsOf(g, states)
    BY <1>1, <1>4, <1>7, SameDomains
<1>9. SharedOK'
    BY <1>2 DEF IInv, SharedOK
<1>10. Bounded'
    BY <1>1, <1>2, <1>4, <1>6, MakersStay
<1> QED BY <1>1, <1>2, <1>6, <1>7, <1>8, <1>9, <1>10, LocalStep

LEMMA StepCatch ==
    ASSUME IInv, NEW t \in Threads, Catch(t)
    PROVE  IInv'
<1>1. PICK f, g : f = frame[t] /\ g = [f EXCEPT !.pc = "failed"]
    OBVIOUS
<1>2. /\ f.pc = "catch" /\ Move(t, g)
      /\ UNCHANGED <<nextId, states, lock, configured, owner, adopted>>
      /\ \/ diagnostic' = [diagnostic EXCEPT ![f.receiver] = f.message]
         \/ diagnostic' = diagnostic
    BY <1>1 DEF Catch, CatchWith, shimVars
<1>3. FrameOK(f) /\ FrameCore(f) /\ f \in Frames
    BY <1>1 DEF IInv, FramesOK, FrameOK, FrameCore
<1>4. /\ g.op = f.op /\ g.receiver = f.receiver /\ g.operands = f.operands
      /\ g.handles = f.handles /\ g.entry = f.entry /\ g.out = f.out
      /\ g.message = f.message /\ g.wrapped = f.wrapped /\ g.next = f.next
      /\ g.current = f.current /\ g.result = f.result /\ g.pc = "failed" /\ g \in Frames
    BY <1>1, <1>3 DEF Frames
<1>5. f.out = Null /\ f.message # Null /\ f.op # Null /\ f.wrapped = Null
      /\ f.message \in Messages
    BY <1>2, <1>3, FrameFields DEF FrameOK, FrameCore
<1>6. FrameOK(g)
    BY <1>2, <1>3, <1>4, <1>5, NullIsNothing DEF FrameOK, FrameCore
<1>7. SamePhase(f, g) /\ SameArgs(f, g) /\ SameCall(f, g)
    BY <1>2, <1>4 DEF SamePhase, SameArgs, SameCall
<1>8. DomainsOf(g, states)
    BY <1>1, <1>4, <1>7, SameDomains
<1>9. SharedOK'
    BY <1>2, <1>5 DEF IInv, SharedOK
<1>10. Bounded'
    BY <1>1, <1>2, <1>4, <1>6, MakersStay
<1> QED BY <1>1, <1>2, <1>6, <1>7, <1>8, <1>9, <1>10, LocalStep

LEMMA StepReturn ==
    ASSUME IInv, NEW t \in Threads, Return(t)
    PROVE  IInv'
<1>1. PICK f : f = frame[t]
    OBVIOUS
<1>2. /\ f.pc \in {"returned", "failed"} /\ Move(t, [Idle EXCEPT !.wrapped = f.wrapped])
      /\ UNCHANGED <<nextId, states, diagnostic, lock, configured, owner, adopted>>
    BY <1>1 DEF Return, registryVars, shimVars
<1>3. f.wrapped = Null
    BY <1>1, <1>2 DEF IInv, FramesOK, FrameOK
<1>4. Move(t, Idle)
    <2>1. Idle \in Frames /\ Idle.wrapped = Null
        BY IdleOK DEF FrameOK, FrameCore, Idle
    <2>2. Idle = [Idle EXCEPT !.wrapped = Null]
        BY <2>1 DEF Frames
    <2> QED BY <1>2, <1>3, <2>2
<1>5. PICK g : g = Idle
    OBVIOUS
<1>6. FrameOK(g)
    BY <1>5, IdleOK
<1>7. g.pc = "idle" /\ g.entry = Null /\ g.out = Null /\ g.receiver = Null /\ g.operands = <<>>
      /\ g.handles = {} /\ g.op = Null
    BY <1>5 DEF Idle
<1>8. SamePhase(f, g) /\ SameArgs(f, g)
    BY <1>2, <1>7 DEF SamePhase, SameArgs
<1>9. DomainsOf(g, states)
    BY <1>7, DomainsOfFresh
<1>10. SharedOK'
    BY <1>2 DEF IInv, SharedOK
<1>11. Bounded'
    BY <1>2, <1>4, <1>5, <1>6, <1>7, NullIsNothing, MakersStay
<1> QED BY <1>1, <1>2, <1>4, <1>5, <1>6, <1>8, <1>9, <1>10, <1>11, LocalStep
-----------------------------------------------------------------------------
(* The life of the handles, and the drop callback. *)

LEMMA StepDrop ==
    ASSUME IInv, NEW t \in Threads, Drop(t)
    PROVE  IInv'
<1>1. PICK f, g : f = frame[t] /\ g = [f EXCEPT !.entry = Null, !.pc = "idle"]
    OBVIOUS
<1>2. /\ f.pc = "drop" /\ Move(t, g) /\ Overwritten(f.entry, Null) /\ lock' = Null
      /\ UNCHANGED <<nextId, owner, adopted, configured>>
    BY <1>1 DEF Drop, DropWith, Write, Overwritten, shimVars
<1>3. FrameOK(f) /\ FrameCore(f) /\ f \in Frames
    BY <1>1 DEF IInv, FramesOK, FrameOK, FrameCore
<1>4. /\ f.entry # Null /\ f.out = Null /\ f.message = Null /\ f.op = Null /\ f.wrapped = Null
    BY <1>2, <1>3 DEF FrameOK, FrameCore
<1>5. /\ g.op = f.op /\ g.receiver = f.receiver /\ g.operands = f.operands
      /\ g.handles = f.handles /\ g.entry = Null /\ g.out = f.out
      /\ g.message = f.message /\ g.wrapped = f.wrapped /\ g.next = f.next
      /\ g.current = f.current /\ g.result = f.result /\ g.pc = "idle" /\ g \in Frames
    BY <1>1, <1>3 DEF Frames
<1>6. FrameOK(g)
    BY <1>2, <1>3, <1>4, <1>5, NullIsNothing DEF FrameOK, FrameCore, Merges
<1>7. Goes(t, g) /\ FramesOK'
    BY <1>2, <1>6, MoveGoes DEF IInv
<1>8. SameArgs(f, g)
    BY <1>5 DEF SameArgs
<1>9. /\ f.entry \in Ids /\ \A h \in Handles : owner[h] # f.entry
      /\ \A j \in Ids : j # f.entry => states'[j] = states[j]
    <2>1. f.entry \in Ids /\ \A h \in Handles : owner[h] # f.entry
        BY <1>1, <1>2, EntryIsUnowned
    <2> QED BY <1>2, <2>1 DEF Overwritten, IInv, SharedOK
<1>10. DomainsOf(g, states')
    <2>1. g.current = f.current /\ g.next = f.next /\ g.entry = Null
        BY <1>5
    <2> QED BY <1>1, <1>4, <1>8, <1>9, <2>1, OwnDomains
<1>11. g.pc = "idle" /\ g.entry = Null /\ g.op = Null /\ g.out = Null
    BY <1>4, <1>5
<1> QED BY <1>1, <1>2, <1>7, <1>8, <1>10, <1>11, RegistryWrite

LEMMA StepRetain ==
    ASSUME IInv, NEW h \in Handles, NEW k \in Handles, Retain(h, k)
    PROVE  IInv'
<1>1. PICK i : i = owner[h]
    OBVIOUS
<1>2. /\ owner[h] = i /\ i # Null /\ owner[k] = Null /\ owner' = [owner EXCEPT ![k] = i]
      /\ UNCHANGED <<nextId, states, diagnostic, lock, configured, adopted, frame>>
    BY <1>1 DEF Retain, registryVars
<1>3. owner \in [Handles -> Ids \cup {Null}] /\ i \in Ids /\ i \in adopted /\ states[i] # Null
    BY <1>2 DEF IInv, SharedOK, OwnedInv
<1>4. /\ owner'[k] = i /\ \A m \in Handles : m # k => owner'[m] = owner[m]
      /\ owner' \in [Handles -> Ids \cup {Null}]
    BY <1>2, <1>3
<1>5. SharedOK'
    BY <1>2, <1>4 DEF IInv, SharedOK
<1>6. FramesOK' /\ FreshIds' /\ EntriesAreDisjoint' /\ DomainsInv'
    BY <1>2 DEF IInv, FramesOK, FreshIds, EntriesAreDisjoint, DomainsInv
<1>7. Bounded'
    BY <1>2, BoundedStays DEF IInv, Makers
<1>8. OwnedInv'
    BY <1>2, <1>3, <1>4 DEF IInv, OwnedInv
<1>9. EntryInv'
    <2>1. \A u \in Threads : frame[u].pc = "drop" => \A m \in Handles : owner'[m] # frame[u].entry
        BY <1>2, <1>4 DEF IInv, EntryInv
    <2>2. \A u \in Threads : frame[u].pc = "returned" /\ frame[u].entry # Null =>
              owner'[frame[u].out] = frame[u].entry
        <3> SUFFICES ASSUME NEW u \in Threads, frame[u].pc = "returned", frame[u].entry # Null
                     PROVE  owner'[frame[u].out] = frame[u].entry
            OBVIOUS
        <3>1. frame[u].out \in Handles /\ owner[frame[u].out] = frame[u].entry
            BY FrameFields DEF IInv, EntryInv, FramesOK, FrameOK, FrameCore
        <3> QED BY <1>2, <1>4, <3>1
    <2> QED BY <1>2, <2>1, <2>2 DEF IInv, EntryInv
<1>10. NoRegistryLeak'
    <2> SUFFICES ASSUME NEW j \in Ids, states[j] # Null
                 PROVE  \/ \E m \in Handles : owner'[m] = j
                        \/ \E u \in Threads : /\ frame[u].entry = j
                                              /\ frame[u].pc \in {"create", "rollback", "drop"}
        BY <1>2 DEF NoRegistryLeak
    <2>1. \A m \in Handles : owner[m] = j => owner'[m] = j
        BY <1>2, <1>4, NullIsNothing
    <2> QED BY <2>1 DEF IInv, NoRegistryLeak
<1>11. ArgsInv'
    <2>1. \A m \in Handles : InUse(m) /\ owner[m] # Null => owner'[m] = owner[m]
        BY <1>2, <1>4
    <2>2. \A u \in Threads : ArgsOf(frame[u], owner')
        BY <2>1, UsedHandles
    <2> QED BY <1>2, <2>2 DEF ArgsInv
<1> QED BY <1>5, <1>6, <1>7, <1>8, <1>9, <1>10, <1>11 DEF IInv

LEMMA StepClose ==
    ASSUME IInv, NEW t \in Threads, NEW h \in Handles, Close(t, h)
    PROVE  IInv'
<1>1. PICK f, i, last : f = frame[t] /\ i = owner[h] /\ last = IsLast(h)
    OBVIOUS
<1>2. PICK g : g = IF last THEN [f EXCEPT !.entry = i, !.pc = "drop"] ELSE f
    OBVIOUS
<1>3. /\ f.pc = "idle" /\ owner[h] = i /\ i # Null /\ ~InUse(h) /\ Move(t, g)
      /\ owner' = [owner EXCEPT ![h] = Null]
      /\ UNCHANGED <<nextId, states, diagnostic, lock, configured, adopted>>
    BY <1>1, <1>2 DEF Close, CloseWith, registryVars
<1>4. last <=> \A m \in Handles \ {h} : owner[m] # i
    BY <1>1 DEF IsLast
<1>5. owner \in [Handles -> Ids \cup {Null}] /\ i \in Ids /\ i \in adopted /\ states[i] # Null
    BY <1>3 DEF IInv, SharedOK, OwnedInv
<1>6. /\ owner'[h] = Null /\ \A m \in Handles : m # h => owner'[m] = owner[m]
      /\ owner' \in [Handles -> Ids \cup {Null}]
    BY <1>3, <1>5
<1>7. FrameOK(f) /\ FrameCore(f) /\ f \in Frames
    BY <1>1 DEF IInv, FramesOK, FrameOK, FrameCore
<1>8. /\ f.entry = Null /\ f.out = Null /\ f.message = Null /\ f.op = Null /\ f.wrapped = Null
    BY <1>3, <1>7 DEF FrameOK, FrameCore
<1>9. /\ g.op = f.op /\ g.receiver = f.receiver /\ g.operands = f.operands
      /\ g.handles = f.handles /\ g.entry = (IF last THEN i ELSE Null) /\ g.out = Null
      /\ g.message = f.message /\ g.wrapped = f.wrapped /\ g.next = f.next
      /\ g.current = f.current /\ g.result = f.result
      /\ g.pc = (IF last THEN "drop" ELSE "idle") /\ g \in Frames
    <2>1. CASE last
        BY <1>2, <1>5, <1>7, <1>8, <2>1 DEF Frames
    <2>2. CASE ~last
        <3>1. g = f
            BY <1>2, <2>2
        <3> QED BY <1>3, <1>7, <1>8, <2>2, <3>1
    <2> QED BY <2>1, <2>2
<1>10. FrameOK(g)
    BY <1>3, <1>5, <1>7, <1>8, <1>9, NullIsNothing DEF FrameOK, FrameCore, Merges
<1>11. Goes(t, g) /\ FramesOK'
    BY <1>3, <1>10, MoveGoes DEF IInv
<1>12. SharedOK'
    BY <1>3, <1>6 DEF IInv, SharedOK
<1>13. Bounded'
    <2>1. g.op \notin Makes
        BY <1>8, <1>9, NullIsNothing
    <2> QED BY <1>3, <1>10, <2>1, MakersStay
<1>14. frame'[t] = g /\ \A u \in Threads : u # t => frame'[u] = frame[u]
    BY <1>11 DEF Goes
<1>15. OwnedInv'
    BY <1>3, <1>6 DEF IInv, OwnedInv
<1>16. \A u \in Threads : frame[u].pc = "returned" /\ frame[u].entry # Null =>
           /\ frame[u].out \in Handles /\ frame[u].out # h
           /\ owner[frame[u].out] = frame[u].entry
    <2> SUFFICES ASSUME NEW u \in Threads, frame[u].pc = "returned", frame[u].entry # Null
                 PROVE  /\ frame[u].out \in Handles /\ frame[u].out # h
                        /\ owner[frame[u].out] = frame[u].entry
        OBVIOUS
    <2>1. frame[u].out \in Handles /\ owner[frame[u].out] = frame[u].entry
        BY FrameFields DEF IInv, EntryInv, FramesOK, FrameOK, FrameCore
    <2>2. frame[u].out # h
        BY <1>3 DEF InUse
    <2> QED BY <2>1, <2>2
<1>17. last => \A u \in Threads : frame[u].entry # i
    <2> SUFFICES ASSUME last, NEW u \in Threads, frame[u].entry = i PROVE FALSE
        OBVIOUS
    <2>1. /\ frame[u].entry # Null
          /\ frame[u].pc \in {"insert", "create", "rollback", "catch", "failed", "returned", "drop"}
        BY <1>3 DEF IInv, FramesOK, FrameOK, FrameCore
    <2>2. frame[u].pc \notin {"insert", "create", "rollback", "catch", "failed"}
        BY <1>5, <2>1 DEF IInv, EntryInv
    <2>3. frame[u].pc # "drop"
        BY <1>3 DEF IInv, EntryInv
    <2>4. frame[u].pc # "returned"
        BY <1>4, <1>16, <2>1
    <2> QED BY <2>1, <2>2, <2>3, <2>4
<1>18. FreshIds'
    <2>1. i < nextId
        BY <1>5 DEF IInv, FreshIds
    <2> QED BY <1>3, <1>9, <1>14, <2>1 DEF IInv, FreshIds
<1>19. EntriesAreDisjoint'
    <2>1. EntriesAreDisjoint
        BY DEF IInv
    <2>2. \A u \in Threads : u # t => frame'[u].entry = frame[u].entry /\ (last => frame[u].entry # i)
        BY <1>14, <1>17
    <2>3. frame'[t].entry = (IF last THEN i ELSE Null)
        BY <1>9, <1>14
    <2> QED BY <1>3, <2>1, <2>2, <2>3 DEF EntriesAreDisjoint
<1>20. EntryInv'
    <2> SUFFICES ASSUME NEW u \in Threads, NEW k, k = frame'[u]
                 PROVE  /\ k.pc = "insert" => k.entry \notin adopted' /\ states'[k.entry] = Null
                        /\ k.pc \in {"create", "rollback"} =>
                              k.entry \notin adopted' /\ states'[k.entry] # Null
                        /\ k.pc \in {"catch", "failed"} /\ k.entry # Null =>
                              k.entry \notin adopted' /\ states'[k.entry] = Null
                        /\ k.pc = "drop" => /\ k.entry \in adopted' /\ states'[k.entry] # Null
                                           /\ \A m \in Handles : owner'[m] # k.entry
                        /\ k.pc = "returned" /\ k.entry # Null => owner'[k.out] = k.entry
        BY DEF EntryInv
    <2>1. CASE u = t
        <3>1. k.pc = (IF last THEN "drop" ELSE "idle") /\ k.entry = (IF last THEN i ELSE Null)
            BY <1>9, <1>14, <2>1
        <3>2. last => \A m \in Handles : owner'[m] # i
            BY <1>3, <1>4, <1>6
        <3> QED BY <1>3, <1>5, <3>1, <3>2
    <2>2. CASE u # t
        <3>1. k = frame[u] /\ FrameCore(k)
            BY <1>14, <2>2 DEF IInv, FramesOK, FrameOK
        <3>2. k.pc = "returned" /\ k.entry # Null => owner'[k.out] = k.entry
            BY <1>6, <1>16, <3>1
        <3>3. k.pc = "drop" => \A m \in Handles : owner'[m] # k.entry
            <4>1. k.pc = "drop" => k.entry # Null
                BY <3>1 DEF FrameCore
            <4> QED BY <1>6, <3>1, <4>1 DEF IInv, EntryInv
        <3> QED BY <1>3, <3>1, <3>2, <3>3 DEF IInv, EntryInv
    <2> QED BY <2>1, <2>2
<1>21. NoRegistryLeak'
    <2> SUFFICES ASSUME NEW j \in Ids, states[j] # Null
                 PROVE  \/ \E m \in Handles : owner'[m] = j
                        \/ \E u \in Threads : /\ frame'[u].entry = j
                                              /\ frame'[u].pc \in {"create", "rollback", "drop"}
        BY <1>3 DEF NoRegistryLeak
    <2>1. CASE \E m \in Handles : owner[m] = j
        <3>1. PICK m \in Handles : owner[m] = j
            BY <2>1
        <3>2. CASE m # h
            BY <1>6, <3>1, <3>2
        <3>3. CASE m = h /\ last
            BY <1>3, <1>9, <1>14, <3>1, <3>3
        <3>4. CASE m = h /\ ~last
            <4>1. PICK n \in Handles \ {h} : owner[n] = i
                BY <1>4, <3>4
            <4> QED BY <1>3, <1>6, <3>1, <3>4, <4>1
        <3> QED BY <3>2, <3>3, <3>4
    <2>2. CASE \E u \in Threads : /\ frame[u].entry = j
                                  /\ frame[u].pc \in {"create", "rollback", "drop"}
        <3>1. PICK u \in Threads : /\ frame[u].entry = j
                                   /\ frame[u].pc \in {"create", "rollback", "drop"}
            BY <2>2
        <3>2. u # t
            BY <1>1, <1>3, <3>1
        <3> QED BY <1>14, <3>1, <3>2
    <2> QED BY <2>1, <2>2 DEF IInv, NoRegistryLeak
<1>22. SameArgs(f, g)
    BY <1>9 DEF SameArgs
<1>23. ArgsInv'
    <2>1. \A m \in Handles : InUse(m) /\ owner[m] # Null => owner'[m] = owner[m]
        BY <1>3, <1>6
    <2> QED BY <1>1, <1>11, <1>22, <2>1, ArgsStay
<1>24. DomainsInv'
    <2>1. DomainsOf(f, states)
        BY <1>1 DEF IInv, DomainsInv
    <2>2. g.pc \notin {"create", "returned"}
        BY <1>9
    <2>3. DomainsOf(g, states')
        BY <1>3, <1>9, <2>1, <2>2 DEF DomainsOf
    <2>4. 0 \notin Ids
        BY DEF Ids
    <2>5. \A m \in Handles : owner[m] # Null => owner[m] # 0
        BY <1>5, <2>4
    <2>6. \A u \in Threads : u # t /\ frame[u].entry # Null => frame[u].entry # 0
        BY <2>4, FrameFields DEF IInv, FramesOK, FrameOK, FrameCore
    <2>7. \A j \in Ids : j # 0 => states'[j] = states[j]
        BY <1>3
    <2> QED BY <1>11, <2>3, <2>5, <2>6, <2>7, DomainsStay
<1> QED BY <1>11, <1>12, <1>13, <1>15, <1>18, <1>19, <1>20, <1>21, <1>23, <1>24 DEF IInv
-----------------------------------------------------------------------------
(* The invariant holds. *)

LEMMA InitOK == Init => IInv
<1> SUFFICES ASSUME Init PROVE IInv
    OBVIOUS
<1>1. frame = [t \in Threads |-> Idle]
    BY DEF Init
<1>2. FramesOK
    BY <1>1, IdleOK DEF FramesOK
<1>3. \A t \in Threads : /\ frame[t].pc = "idle" /\ frame[t].op = Null /\ frame[t].entry = Null
                         /\ frame[t].receiver = Null /\ frame[t].operands = <<>>
                         /\ frame[t].handles = {} /\ frame[t].current = Null
    BY <1>1 DEF Idle
<1>4. SharedOK
    BY DEF Init, SharedOK
<1>5. Bounded
    <2>1. Makers = {}
        BY <1>3, NullIsNothing DEF Makers
    <2>2. Cardinality(Makers) = 0
        BY <2>1, FS_EmptySet
    <2> QED BY <2>2, RakuAssumption DEF Init, Bounded
<1>6. FreshIds /\ EntriesAreDisjoint /\ EntryInv /\ OwnedInv /\ NoRegistryLeak /\ ArgsInv
      /\ DomainsInv
    BY <1>3 DEF Init, FreshIds, EntriesAreDisjoint, EntryInv, OwnedInv, NoRegistryLeak, ArgsInv,
                ArgsOf, DomainsInv, DomainsOf
<1> QED BY <1>2, <1>4, <1>5, <1>6 DEF IInv

LEMMA NextOK == ASSUME IInv, [Next]_vars PROVE IInv'
<1>1. CASE UNCHANGED vars
    BY <1>1 DEF vars, registryVars, shimVars, IInv, SharedOK, FramesOK, Bounded, Makers, FreshIds,
                EntriesAreDisjoint, EntryInv, OwnedInv, NoRegistryLeak, ArgsInv, DomainsInv
<1>2. ASSUME NEW h \in Handles, NEW k \in Handles, Retain(h, k) PROVE IInv'
    BY <1>2, StepRetain
<1>3. ASSUME NEW t \in Threads, Request(t) PROVE IInv'
    BY <1>3, RakuAssumption, StepEnter, StepEnterProvider, StepClose DEF Request
<1>4. ASSUME NEW t \in Threads, Step(t) PROVE IInv'
    BY <1>4, StepLookupReceiver, StepEncode, StepHostedOperand, StepBorrowOperand,
       StepDecodeOperand, StepEnsureConfigured, StepTakeId, StepAcquireLock, StepInsert,
       StepCreate, StepCreateFails, StepRollback, StepCatch, StepReturn, StepDrop DEF Step
<1> QED BY <1>1, <1>2, <1>3, <1>4 DEF Next

\* The inductive invariant: every handle and every operation under way of the
\* Raku provider has an entry of its own in %STATES, with its arguments owned
\* and of one domain (rakumod:137-478).
THEOREM Inductive == Spec => []IInv
BY InitOK, NextOK, PTL DEF Spec
-----------------------------------------------------------------------------
(* What follows. *)

\* Every variable has its type, and the locals are set where the code sets
\* them, for any threads, handles and values.
THEOREM TypeCorrect == Spec => []TypeOK
<1>1. ASSUME IInv PROVE TypeOK
    <2>1. nextId \in 1..IdBound + 1
        <3>1. Cardinality(Makers) \in Nat
            BY MakersFinite
        <3> QED BY <1>1, <3>1, RakuAssumption DEF IInv, Bounded
    <2>2. \A t \in Threads : FrameCore(frame[t])
        BY <1>1 DEF IInv, FramesOK, FrameOK
    <2>3. DOMAIN frame = Threads
        BY <1>1 DEF IInv, FramesOK
    <2> QED BY <1>1, <2>1, <2>2, <2>3 DEF TypeOK, IInv, SharedOK, FrameCore
<1> QED BY <1>1, Inductive, PTL

\* No handle is left without the Raku object it stands for, however creates
\* that fail, drops and other operations interleave (rakumod:171-175, 442-453).
THEOREM HandlesKeepTheirObject == Spec => []OwnedAreRegistered
<1>1. ASSUME IInv PROVE OwnedAreRegistered
    BY <1>1 DEF IInv, OwnedInv, OwnedAreRegistered
<1> QED BY <1>1, Inductive, PTL

\* No path leaves an entry in %STATES that nobody will take out
\* (rakumod:442-453).
THEOREM RegistryNeverLeaks == Spec => []NoRegistryLeak
<1>1. ASSUME IInv PROVE NoRegistryLeak
    BY <1>1 DEF IInv
<1> QED BY <1>1, Inductive, PTL

\* An entry keeps its value, and only a thread that closes or makes a handle
\* changes who owns what.
LEMMA EntriesKept ==
    ASSUME IInv, [Next]_vars
    PROVE  /\ \A i \in Ids : states[i] # Null => states'[i] \in {states[i], Null}
           /\ UNCHANGED states \/ UNCHANGED owner
<1> DEFINE Kept == /\ \A i \in Ids : states[i] # Null => states'[i] \in {states[i], Null}
                   /\ UNCHANGED states \/ UNCHANGED owner
<1>1. CASE UNCHANGED states
    BY <1>1
<1>2. ASSUME NEW t \in Threads, Insert(t) PROVE Kept
    <2>1. PICK x : states' = [states EXCEPT ![frame[t].entry] = x]
        BY <1>2 DEF Insert, Write
    <2>2. states[frame[t].entry] = Null
        BY <1>2 DEF Insert, IInv, EntryInv
    <2>3. UNCHANGED owner
        BY <1>2 DEF Insert, Write, shimVars
    <2> QED BY <2>1, <2>2, <2>3 DEF IInv, SharedOK
<1>3. ASSUME NEW t \in Threads, Rollback(t) \/ Drop(t) PROVE Kept
    <2>1. states' = [states EXCEPT ![frame[t].entry] = Null]
        BY <1>3 DEF Rollback, RollbackWith, Drop, DropWith, Write
    <2>2. UNCHANGED owner
        BY <1>3 DEF Rollback, RollbackWith, Drop, DropWith, Write, shimVars
    <2> QED BY <2>1, <2>2 DEF IInv, SharedOK
<1>4. CASE UNCHANGED vars
    BY <1>1, <1>4 DEF vars, registryVars
<1>5. ASSUME NEW t \in Threads, Request(t) PROVE UNCHANGED states
    BY <1>5 DEF Request, Enter, EnterProvider, Close, CloseWith, registryVars
<1>6. ASSUME NEW h \in Handles, NEW k \in Handles, Retain(h, k) PROVE UNCHANGED states
    BY <1>6 DEF Retain, registryVars
<1>7. ASSUME NEW t \in Threads, Step(t) PROVE UNCHANGED states \/ Insert(t) \/ Rollback(t) \/ Drop(t)
    <2>1. CASE LookupReceiver(t) \/ Encode(t) \/ HostedOperand(t)
        BY <2>1 DEF LookupReceiver, Encode, HostedOperand, registryVars
    <2>2. CASE BorrowOperand(t) \/ DecodeOperand(t) \/ EnsureConfigured(t)
        BY <2>2 DEF BorrowOperand, DecodeOperand, EnsureConfigured, registryVars
    <2>3. CASE TakeId(t) \/ AcquireLock(t) \/ Create(t) \/ CreateFails(t)
        BY <2>3 DEF TakeId, AcquireLock, Create, CreateFails, registryVars
    <2>4. CASE Catch(t) \/ Return(t)
        BY <2>4 DEF Catch, CatchWith, Return, registryVars
    <2> QED BY <1>7, <2>1, <2>2, <2>3, <2>4 DEF Step
<1> QED BY <1>1, <1>2, <1>3, <1>4, <1>5, <1>6, <1>7 DEF Next

\* Each id is given to one value only, and that value is never overwritten
\* (rakumod:138-146, 442).
THEOREM ValuesAreImmutable == Spec => EntriesAreImmutable
<1> DEFINE Kept == \A i \in Ids : states[i] # Null => states'[i] \in {states[i], Null}
<1>1. ASSUME IInv, [Next]_vars PROVE Kept
    BY <1>1, EntriesKept
<1> QED BY <1>1, Inductive, PTL DEF Spec, EntriesAreImmutable

\* An operation that dies leaves no resource, no entry and no borrow behind
\* (rakumod:190-197, 443-453).
THEOREM FailuresLeaveNothing == Spec => []FailureLeavesNothing
<1>1. ASSUME IInv PROVE FailureLeavesNothing
    <2> SUFFICES ASSUME NEW t \in Threads
                 PROVE  /\ frame[t].pc = "failed" =>
                              /\ frame[t].out = Null
                              /\ frame[t].entry # Null => states[frame[t].entry] = Null
                        /\ frame[t].wrapped # Null => frame[t].pc = "wrapped"
        BY DEF FailureLeavesNothing
    <2>1. FrameOK(frame[t])
        BY <1>1 DEF IInv, FramesOK
    <2> QED BY <1>1, <2>1 DEF IInv, EntryInv, FrameOK, FrameCore
<1> QED BY <1>1, Inductive, PTL

\* What was combined or compared, and what came out, is of one domain, with
\* operands of this provider and of others (rakumod:185-195).
THEOREM OneDomainPerOperation == Spec => []DomainsNeverMix
<1>1. ASSUME IInv PROVE DomainsNeverMix
    <2> SUFFICES ASSUME NEW t \in Threads, NEW f, f = frame[t], f.pc = "returned",
                        f.op \in Merges \cup {"equal"},
                        NEW a \in Range(f.operands) \cup {owner[h] : h \in {f.out} \ {Null}}
                 PROVE  Meaning(a).domain = states[f.receiver].domain
        BY DEF DomainsNeverMix
    <2>1. FrameCore(f) /\ DomainsOf(f, states)
        BY <1>1 DEF IInv, FramesOK, FrameOK, DomainsInv
    <2>2. f.current # Null /\ f.receiver # Null
        BY <2>1, NullIsNothing DEF FrameCore, Merges
    <2>3. states[f.receiver].domain = f.current.domain
        BY <2>1, <2>2 DEF DomainsOf
    <2>4. CASE a \in Range(f.operands)
        <3>1. PICK n \in DOMAIN f.operands : a = f.operands[n]
            BY <2>4 DEF Range
        <3>2. n < f.next
            BY <2>1, <3>1 DEF FrameCore
        <3>3. IF a \in Foreign THEN ForeignSource[a].domain = f.current.domain
                               ELSE states[a].domain = f.current.domain
            BY <2>1, <2>2, <3>1, <3>2 DEF DomainsOf
        <3> QED BY <2>3, <3>3 DEF Meaning
    <2>5. CASE a \in {owner[h] : h \in {f.out} \ {Null}}
        <3>1. a = owner[f.out] /\ f.out # Null
            BY <2>5
        <3>2. f.entry # Null /\ f.entry \in Ids
            BY <2>1, <3>1, FrameFields DEF FrameCore
        <3>3. a = f.entry
            BY <1>1, <3>1, <3>2 DEF IInv, EntryInv
        <3>4. states[a].domain = f.current.domain
            BY <2>1, <2>2, <3>2, <3>3 DEF DomainsOf
        <3>5. a \notin Foreign
            BY <3>2, <3>3, RakuAssumption
        <3> QED BY <2>3, <3>4, <3>5 DEF Meaning
    <2> QED BY <2>4, <2>5
<1> QED BY <1>1, Inductive, PTL
-----------------------------------------------------------------------------
(* What comes out of an operation.  The invariant of the registry keeps the  *)
(* arguments where they are, so what was folded so far stays right.          *)

\* What the arguments of an operation are worth in the registry st.
MeaningIn(st, x) == IF x \in Foreign THEN ForeignSource[x] ELSE st[x]
Worth(f, st) == [n \in DOMAIN f.operands |-> MeaningIn(st, f.operands[n]).value]

\* A running operation has the receiver at hand and has folded, or compared,
\* the operands before the next one; what it made is that result.
ResultOf(f, st) ==
    f.op # Null /\ f.current # Null /\ f.message = Null =>
        /\ f.op # "provider" => st[f.receiver] = f.current
        /\ f.next <= Len(f.operands) + 1
        /\ f.op \in Merges =>
              FoldsTo(f.op, f.current.value, Worth(f, st), f.next - 1, f.result)
        /\ f.op \notin Merges \cup {"provider"} => f.result = f.current.value
        /\ f.op = "equal" /\ f.pc = "returned" =>
              f.equal = (f.current.value = Worth(f, st)[1])
        /\ f.pc \in {"create", "returned"} /\ f.entry # Null =>
              st[f.entry].value = f.result

ResultsInv == \A t \in Threads : ResultOf(frame[t], states)

LEMMA FoldNone ==
    ASSUME NEW op, NEW first \in Values, NEW rest
    PROVE  FoldsTo(op, first, rest, 0, first)
<1> DEFINE p == [i \in 0..0 |-> first]
<1>1. p \in [0..0 -> Values] /\ p[0] = first
    OBVIOUS
<1> HIDE DEF p
<1> QED BY <1>1 DEF FoldsTo

\* One more item.
LEMMA FoldMore ==
    ASSUME NEW op, NEW first, NEW rest, NEW n \in Nat, NEW v, FoldsTo(op, first, rest, n, v),
           Apply(op, v, rest[n + 1]) \in Values
    PROVE  FoldsTo(op, first, rest, n + 1, Apply(op, v, rest[n + 1]))
<1>1. PICK p \in [0..n -> Values] : /\ p[0] = first
                                    /\ \A i \in 1..n : p[i] = Apply(op, p[i - 1], rest[i])
                                    /\ v = p[n]
    BY DEF FoldsTo
<1> DEFINE q == [i \in 0..n + 1 |-> IF i = n + 1 THEN Apply(op, v, rest[n + 1]) ELSE p[i]]
<1>2. q \in [0..n + 1 -> Values]
    <2>1. \A i \in 0..n + 1 : i # n + 1 => i \in 0..n
        OBVIOUS
    <2> QED BY <1>1, <2>1
<1>3. q[0] = first /\ q[n + 1] = Apply(op, v, rest[n + 1])
    BY <1>1
<1>4. ASSUME NEW i \in 1..n + 1 PROVE q[i] = Apply(op, q[i - 1], rest[i])
    <2>1. CASE i = n + 1
        BY <1>1, <2>1
    <2>2. CASE i # n + 1
        <3>1. i \in 1..n /\ i \in 0..n + 1 /\ i - 1 \in 0..n + 1 /\ i - 1 # n + 1
            BY <2>2
        <3>2. q[i] = p[i] /\ q[i - 1] = p[i - 1]
            BY <2>2, <3>1
        <3> QED BY <1>1, <3>1, <3>2
    <2> QED BY <2>1, <2>2
<1> HIDE DEF q
<1> QED BY <1>2, <1>3, <1>4 DEF FoldsTo

\* What an operation was called with, and what it made, is still there.
ArgsKept(f) ==
    /\ f.receiver # Null => states'[f.receiver] = states[f.receiver]
    /\ \A n \in DOMAIN f.operands : f.operands[n] \notin Foreign =>
          states'[f.operands[n]] = states[f.operands[n]]

LEMMA ArgsAreKept ==
    ASSUME IInv, IInv', [Next]_vars, NEW t \in Threads
    PROVE  ArgsKept(frame[t])
<1>1. ASSUME NEW h \in Handles, owner[h] # Null PROVE states'[owner[h]] = states[owner[h]]
    <2>1. owner[h] \in Ids /\ states[owner[h]] # Null
        BY <1>1 DEF IInv, SharedOK, OwnedInv
    <2>2. CASE UNCHANGED states
        BY <2>2
    <2>3. CASE UNCHANGED owner
        <3>1. states'[owner[h]] # Null
            BY <1>1, <2>3 DEF IInv, OwnedInv
        <3> QED BY <2>1, <3>1, EntriesKept
    <2> QED BY <2>2, <2>3, EntriesKept
<1> QED BY <1>1, ArgsAreOwned, NullIsNothing DEF ArgsKept

\* The operation goes on, or ends, with what it had.
LEMMA ResultKept ==
    ASSUME NEW f, NEW g, FrameCore(f), ResultOf(f, states), ArgsKept(f),
           g.op = f.op, g.receiver = f.receiver, g.operands = f.operands,
           g.current = f.current, g.next = f.next, g.result = f.result, g.equal = f.equal,
           g.message = Null => f.message = Null,
           g.op = "equal" /\ g.pc = "returned" => f.pc = "returned",
           g.pc \in {"create", "returned"} /\ g.entry # Null => states'[g.entry].value = f.result
    PROVE  ResultOf(g, states')
<1>1. Worth(g, states') = Worth(f, states)
    BY DEF Worth, MeaningIn, ArgsKept
<1>2. f.op \notin {Null, "provider"} => states'[f.receiver] = states[f.receiver]
    BY DEF ArgsKept, FrameCore
<1> QED BY <1>1, <1>2 DEF ResultOf

\* One more operand is folded in, or compared.
\* How the frame of an operation begins.
LEMMA EnterMoves ==
    ASSUME NEW t, NEW op, NEW r, NEW arguments, Enter(t, op, r, arguments)
    PROVE  \E g : Move(t, g) /\ g.pc = "receiver" /\ g.current = Null
<1>1. PICK i, hs, ops : Move(t, [Idle EXCEPT !.pc = "receiver", !.op = op, !.receiver = i,
                                             !.handles = hs, !.operands = ops])
    BY DEF Enter
<1>2. PICK g : g = [Idle EXCEPT !.pc = "receiver", !.op = op, !.receiver = i,
                                !.handles = hs, !.operands = ops]
    OBVIOUS
<1>3. g.pc = "receiver" /\ g.current = Null
    BY <1>2 DEF Idle
<1> QED BY <1>1, <1>2, <1>3

LEMMA EnterProviderMoves ==
    ASSUME NEW t, NEW source, EnterProvider(t, source)
    PROVE  \E g : /\ Move(t, g) /\ g.pc = "configure" /\ g.op = "provider" /\ g.next = 1
                  /\ g.operands = <<>> /\ g.entry = Null
<1>1. PICK v : Move(t, [Idle EXCEPT !.pc = "configure", !.op = "provider",
                                    !.current = source, !.result = v])
    BY DEF EnterProvider
<1>2. PICK g : g = [Idle EXCEPT !.pc = "configure", !.op = "provider",
                                !.current = source, !.result = v]
    OBVIOUS
<1>3. /\ g.pc = "configure" /\ g.op = "provider" /\ g.next = 1 /\ g.operands = <<>>
      /\ g.entry = Null
    BY <1>2 DEF Idle
<1> QED BY <1>1, <1>2, <1>3

LEMMA ResultOfOperand ==
    ASSUME NEW f, FrameCore(f), f.pc \in {"operand", "wrapped"}, ResultOf(f, states),
           NEW operand, operand.value \in Values,
           operand.value = Worth(f, states)[f.next],
           NEW g \in WithOperand(f, operand), NEW k, k = [g EXCEPT !.wrapped = Null]
    PROVE  ResultOf(k, states)
<1>1. /\ f \in Frames /\ f.op \in Merges \cup {"equal"} /\ f.op \notin {Null, "provider"}
      /\ f.current # Null /\ f.message = Null /\ f.entry = Null
      /\ f.next \in DOMAIN f.operands /\ f.operands \in Seq(Ids \cup Foreign)
      /\ f.op = "equal" => Len(f.operands) = 1
    <2>1. f \in Frames /\ f.op \in Merges \cup {"equal"} /\ f.next \in DOMAIN f.operands
        BY DEF FrameCore
    <2>2. f.op \notin {Null, "provider"}
        BY <2>1, NullIsNothing DEF Merges, Makes
    <2>3. f.current # Null /\ f.message = Null /\ f.entry = Null
        <3>1. f.pc = "operand" \/ f.pc = "wrapped"
            OBVIOUS
        <3>2. /\ f.message # Null <=> f.pc \in {"catch", "failed"}
              /\ f.current = Null => f.pc \in {"idle", "drop", "receiver", "catch", "failed"}
              /\ f.entry # Null => f.pc \in {"insert", "create", "rollback", "catch", "failed",
                                             "returned", "drop"}
            BY DEF FrameCore
        <3> QED BY <3>1, <3>2
    <2>4. f.op = "equal" => Len(f.operands) = 1
        BY DEF FrameCore
    <2> QED BY <2>1, <2>2, <2>3, <2>4, FrameFields
<1>2. f.next \in Nat /\ f.next >= 1 /\ f.next <= Len(f.operands) /\ Len(f.operands) \in Nat
    <2>1. f.next \in Nat \ {0}
        BY <1>1 DEF Frames
    <2>2. Len(f.operands) \in Nat /\ DOMAIN f.operands = 1..Len(f.operands)
        BY <1>1, LenProperties
    <2>3. PICK next, length : next = f.next /\ length = Len(f.operands)
        OBVIOUS
    <2>4. next \in 1..length /\ length \in Nat
        BY <1>1, <2>2, <2>3
    <2> QED BY <2>3, <2>4
<1>3. /\ FrameCore(g) /\ SameCall(f, g) /\ g.current = f.current
    BY OperandOK
<1>4. /\ k.op = f.op /\ k.receiver = f.receiver /\ k.operands = f.operands
      /\ k.entry = Null /\ k.current = f.current /\ k.message = g.message
      /\ k.next = g.next /\ k.result = g.result /\ k.equal = g.equal
    BY <1>1, <1>3 DEF SameCall, FrameCore, Frames
<1>5. CASE g.message # Null
    BY <1>4, <1>5 DEF ResultOf
<1>6. CASE g.message = Null
    <2>1. \A why \in Messages : Died(f, why).message = why
        BY <1>1 DEF Died, Frames
    <2>2. g \in Outcomes(f, f.result, operand.value) /\ g \notin UserDies(f)
        <3>1. \A why \in Messages : g # Died(f, why)
            BY <1>6, <2>1, NullIsNothing
        <3>2. {"user", "mute", "domain"} \subseteq Messages
            BY DEF Messages
        <3> QED BY <3>1, <3>2 DEF WithOperand, Combine, UserDies
    <2>3. /\ g.next = f.next + 1
          /\ f.op = "equal" => g.equal = (f.result = operand.value) /\ g.result = f.result
          /\ f.op # "equal" => g.result = Apply(f.op, f.result, operand.value)
        <3>1. PICK pc : pc = CASE f.next < Len(f.operands) -> "operand"
                               [] f.op = "equal"           -> "returned"
                               [] OTHER                    -> "configure"
            OBVIOUS
        <3>2. PICK b : b = (f.result = operand.value)
            OBVIOUS
        <3>3. g = IF f.op = "equal" THEN [[f EXCEPT !.next = @ + 1, !.pc = pc] EXCEPT !.equal = b]
                  ELSE [[f EXCEPT !.next = @ + 1, !.pc = pc]
                           EXCEPT !.result = Apply(f.op, f.result, operand.value)]
            BY <2>2, <3>1, <3>2 DEF Outcomes
        <3> QED BY <1>1, <3>2, <3>3 DEF Frames
    <2>4. Worth(k, states) = Worth(f, states)
        BY <1>4 DEF Worth
    <2>5. k.next = f.next + 1 /\ k.next <= Len(k.operands) + 1 /\ k.next - 1 = f.next
        BY <1>2, <1>4, <2>3
    <2>6. states[f.receiver] = f.current
        BY <1>1 DEF ResultOf
    <2>7. CASE f.op = "equal"
        <3>1. f.next = 1 /\ f.result = f.current.value
            BY <1>1, <1>2, <2>7 DEF ResultOf, Merges
        <3> QED BY <1>4, <2>3, <2>4, <2>5, <2>6, <2>7, <3>1 DEF ResultOf, Merges
    <2>8. CASE f.op # "equal"
        <3>1. f.op \in Merges
            BY <1>1, <2>8
        <3>2. FoldsTo(f.op, f.current.value, Worth(f, states), f.next - 1, f.result)
            BY <1>1, <3>1 DEF ResultOf
        <3>3. f.result \in Values
            BY <1>1 DEF FrameCore
        <3>4. Apply(f.op, f.result, operand.value) \in Values
            BY <3>3, RakuAssumption DEF Apply
        <3>5. f.next - 1 \in Nat /\ (f.next - 1) + 1 = f.next
            BY <1>2
        <3>6. FoldsTo(f.op, f.current.value, Worth(f, states), f.next,
                      Apply(f.op, f.result, operand.value))
            BY <3>2, <3>4, <3>5, FoldMore
        <3> QED BY <1>4, <2>3, <2>4, <2>5, <2>6, <2>8, <3>1, <3>6 DEF ResultOf
    <2> QED BY <2>7, <2>8
<1> QED BY <1>5, <1>6

\* Nothing happens to the frame of another thread.
LEMMA OthersStay ==
    ASSUME IInv, [Next]_vars, NEW u \in Threads,
           ~(Request(u) \/ Step(u))
    PROVE  frame'[u] = frame[u]
<1>1. ASSUME NEW t \in Threads, t # u, NEW g, Move(t, g) PROVE frame'[u] = frame[u]
    BY <1>1 DEF Move, IInv, FramesOK
<1>2. ASSUME NEW t \in Threads, t # u, Request(t) PROVE \E g : Move(t, g)
    BY <1>2 DEF Request, Enter, EnterProvider, Close, CloseWith
<1>3. ASSUME NEW t \in Threads, t # u, Step(t) PROVE frame' = frame \/ \E g : Move(t, g)
    <2>1. CASE LookupReceiver(t) \/ Encode(t) \/ HostedOperand(t)
        BY <2>1 DEF LookupReceiver, Encode, HostedOperand
    <2>2. CASE BorrowOperand(t)
        BY <2>2 DEF BorrowOperand
    <2>3. CASE DecodeOperand(t) \/ EnsureConfigured(t)
        BY <2>3 DEF DecodeOperand, EnsureConfigured
    <2>4. CASE TakeId(t) \/ AcquireLock(t) \/ Create(t) \/ CreateFails(t)
        BY <2>4 DEF TakeId, AcquireLock, Create, CreateFails
    <2>5. CASE Catch(t) \/ Return(t) \/ Insert(t) \/ Rollback(t) \/ Drop(t)
        BY <2>5 DEF Catch, CatchWith, Return, Insert, Rollback, RollbackWith, Drop, DropWith
    <2> QED BY <1>3, <2>1, <2>2, <2>3, <2>4, <2>5 DEF Step
<1>4. CASE UNCHANGED vars
    BY <1>4 DEF vars
<1>5. ASSUME NEW h \in Handles, NEW k \in Handles, Retain(h, k) PROVE frame' = frame
    BY <1>5 DEF Retain
<1> QED BY <1>1, <1>2, <1>3, <1>4, <1>5 DEF Next

\* A thread that does nothing, or dies, or begins, has the result it had.
LEMMA ResultStays ==
    ASSUME IInv, IInv', [Next]_vars, NEW u \in Threads, ResultOf(frame[u], states),
           frame'[u] = frame[u]
    PROVE  ResultOf(frame'[u], states')
<1>1. PICK f : f = frame[u]
    OBVIOUS
<1>2. FrameCore(f) /\ ArgsKept(f)
    BY <1>1, ArgsAreKept DEF IInv, FramesOK, FrameOK
<1>3. CASE f.op = Null \/ f.current = Null \/ f.message # Null
    BY <1>1, <1>3 DEF ResultOf
<1>4. CASE f.op # Null /\ f.current # Null /\ f.message = Null
    <2>1. ASSUME f.pc \in {"create", "returned"}, f.entry # Null
          PROVE  states'[f.entry] = states[f.entry]
        <3>1. f.entry \in Ids
            BY <1>2, <2>1, FrameFields DEF FrameCore
        <3>2. states[f.entry] # Null
            <4>1. f.pc = "returned" => owner[f.out] = f.entry /\ f.out \in Handles
                BY <1>1, <1>2, <2>1, FrameFields DEF IInv, EntryInv, FrameCore
            <4> QED BY <1>1, <2>1, <3>1, <4>1, NullIsNothing DEF IInv, EntryInv, OwnedInv
        <3>3. states'[f.entry] # Null
            <4>1. f.pc = "returned" => owner'[f.out] = f.entry /\ f.out \in Handles
                BY <1>1, <1>2, <2>1, FrameFields DEF IInv, EntryInv, FrameCore
            <4> QED BY <1>1, <2>1, <3>1, <4>1, NullIsNothing DEF IInv, EntryInv, OwnedInv
        <3> QED BY <3>1, <3>2, <3>3, EntriesKept
    <2>2. f.pc \in {"create", "returned"} /\ f.entry # Null => states'[f.entry].value = f.result
        BY <1>1, <1>4, <2>1 DEF ResultOf
    <2>3. ResultOf(f, states')
        BY <1>1, <1>2, <2>2, ResultKept
    <2> QED BY <1>1, <2>3
<1> QED BY <1>3, <1>4

LEMMA StepResult ==
    ASSUME IInv, IInv', [Next]_vars, NEW t \in Threads, ResultOf(frame[t], states),
           Request(t) \/ Step(t)
    PROVE  ResultOf(frame'[t], states')
<1> DEFINE Goal == ResultOf(frame'[t], states')
<1>1. PICK f : f = frame[t]
    OBVIOUS
<1>2. FrameCore(f) /\ FrameOK(f) /\ f \in Frames /\ ArgsKept(f) /\ ResultOf(f, states)
    BY <1>1, ArgsAreKept DEF IInv, FramesOK, FrameOK, FrameCore
<1>3. ASSUME NEW g, Move(t, g) PROVE frame'[t] = g
    BY <1>3 DEF Move, IInv, FramesOK
<1>4. ASSUME frame'[t].message # Null \/ frame'[t].op = Null \/ frame'[t].current = Null
      PROVE  Goal
    BY <1>4 DEF ResultOf
<1>5. ASSUME NEW why \in Messages, Move(t, Died(f, why)) PROVE Goal
    <2>1. Died(f, why).message = why
        BY <1>2 DEF Died, Frames
    <2> QED BY <1>3, <1>4, <1>5, <2>1, NullIsNothing
<1>6. {"closed", "domain", "decoder", "user", "mute", "native"} \subseteq Messages
    BY DEF Messages
\* Entering an operation.
<1>7. ASSUME Request(t) PROVE Goal
    <2>1. ASSUME NEW op, NEW r, NEW arguments, Enter(t, op, r, arguments) PROVE Goal
        <3>1. frame'[t].current = Null
            <4>1. PICK g : Move(t, g) /\ g.current = Null
                BY <2>1, EnterMoves
            <4> QED BY <1>3, <4>1
        <3> QED BY <1>4, <3>1
    <2>2. ASSUME NEW source \in Sources, EnterProvider(t, source) PROVE Goal
        <3>1. PICK g : /\ Move(t, g) /\ g.op = "provider" /\ g.next = 1 /\ g.operands = <<>>
                       /\ g.entry = Null
            BY <2>2, EnterProviderMoves
        <3>2. g.next <= Len(g.operands) + 1
            BY <3>1
        <3>3. "provider" \notin Merges
            BY DEF Merges
        <3>4. ResultOf(g, states')
            BY <3>1, <3>2, <3>3 DEF ResultOf
        <3> QED BY <1>3, <3>1, <3>4
    <2>3. ASSUME NEW h \in Handles, Close(t, h) PROVE Goal
        <3>1. f.pc = "idle" /\ f.op = Null
            BY <1>1, <1>2, <2>3 DEF Close, CloseWith, FrameCore
        <3>2. PICK g : Move(t, g) /\ g.op = f.op
            <4>1. Move(t, [f EXCEPT !.entry = owner[h], !.pc = "drop"]) \/ Move(t, f)
                BY <1>1, <2>3 DEF Close, CloseWith
            <4>2. [f EXCEPT !.entry = owner[h], !.pc = "drop"].op = f.op
                BY <1>2 DEF Frames
            <4> QED BY <4>1, <4>2
        <3> QED BY <1>3, <1>4, <3>1, <3>2
    <2> QED BY <1>7, <2>1, <2>2, <2>3 DEF Request
\* The receiver.
<1>8. ASSUME LookupReceiver(t) PROVE Goal
    <2>1. PICK i, c, pc : i = f.receiver /\ c = states[i] /\ pc = AfterReceiver(f)
        OBVIOUS
    <2>2. CASE Move(t, Died(f, "closed"))
        BY <1>5, <1>6, <2>2
    <2>3. CASE Finds(t, i) /\ Move(t, [f EXCEPT !.current = c, !.result = c.value, !.pc = pc])
        <3>1. PICK g : g = [f EXCEPT !.current = c, !.result = c.value, !.pc = pc]
            OBVIOUS
        <3>2. f.pc = "receiver" /\ UNCHANGED states /\ f.next = 1 /\ f.entry = Null
              /\ f.op \notin {Null, "provider"} /\ f.receiver \in Ids
            BY <1>1, <1>2, <1>8, FrameFields, NullIsNothing
               DEF LookupReceiver, registryVars, FrameCore
        <3>3. /\ g.op = f.op /\ g.receiver = f.receiver /\ g.operands = f.operands
              /\ g.entry = Null /\ g.current = c /\ g.result = c.value /\ g.next = 1 /\ g.pc = pc
            BY <1>2, <3>1, <3>2 DEF Frames
        <3>4. c \in States /\ c.value \in Values
            BY <2>1, <2>3, <3>2 DEF Finds, IInv, SharedOK, States
        <3>5. f.op = "equal" => pc # "returned"
            <4>1. f.op = "equal" => f.operands # <<>>
                <5>1. SUFFICES ASSUME f.op = "equal", f.operands = <<>> PROVE FALSE
                    OBVIOUS
                <5>2. Len(f.operands) = 0
                    BY <5>1
                <5>3. Len(f.operands) = 1
                    BY <1>2, <5>1 DEF FrameCore
                <5> QED BY <5>2, <5>3
            <4>2. f.op = "equal" => pc = "operand"
                BY <2>1, <4>1 DEF AfterReceiver
            <4> QED BY <4>2
        <3>6. g.next <= Len(g.operands) + 1
            <4>1. Len(f.operands) \in Nat
                BY <1>2, FrameFields, LenProperties
            <4> QED BY <3>3, <4>1
        <3>7. FoldsTo(g.op, g.current.value, Worth(g, states'), g.next - 1, g.result)
            <4>1. g.next - 1 = 0
                BY <3>3
            <4> QED BY <3>3, <3>4, <4>1, FoldNone
        <3>8. ResultOf(g, states')
            BY <2>1, <3>2, <3>3, <3>5, <3>6, <3>7 DEF ResultOf
        <3> QED BY <1>3, <2>3, <3>1, <3>8
    <2> QED BY <1>1, <1>8, <2>1, <2>2, <2>3 DEF LookupReceiver
\* Steps that leave the result as it is.
<1>9. ASSUME Encode(t) \/ BorrowOperand(t) \/ EnsureConfigured(t) \/ TakeId(t) \/ CreateFails(t)
      PROVE  Goal
    <2>1. \/ \E why \in Messages : Move(t, Died(f, why))
          \/ \E g : /\ Move(t, g) /\ g.op = f.op /\ g.receiver = f.receiver
                    /\ g.operands = f.operands /\ g.current = f.current /\ g.next = f.next
                    /\ g.result = f.result /\ g.equal = f.equal /\ g.message = f.message
                    /\ g.pc \in {"wrapped", "id", "insert", "rollback"} \/ f.pc = "encode"
                    /\ g.entry = f.entry \/ g.pc = "insert"
        <3>1. CASE Encode(t)
            <4>1. /\ f.pc = "encode"
                  /\ \/ Move(t, [f EXCEPT !.pc = "returned"])
                     \/ Move(t, Died(f, "user")) \/ Move(t, Died(f, "mute"))
                BY <1>1, <3>1 DEF Encode, UserDies
            <4>2. PICK g : g = [f EXCEPT !.pc = "returned"]
                OBVIOUS
            <4>3. /\ g.op = f.op /\ g.receiver = f.receiver /\ g.operands = f.operands
                  /\ g.current = f.current /\ g.next = f.next /\ g.result = f.result
                  /\ g.equal = f.equal /\ g.message = f.message /\ g.entry = f.entry
                BY <1>2, <4>2 DEF Frames
            <4> QED BY <1>6, <4>1, <4>2, <4>3
        <3>2. CASE BorrowOperand(t)
            <4>1. PICK x : x = f.operands[f.next]
                OBVIOUS
            <4>2. \/ Move(t, [f EXCEPT !.wrapped = x, !.pc = "wrapped"])
                  \/ Move(t, Died(f, "user")) \/ Move(t, Died(f, "decoder"))
                BY <1>1, <3>2, <4>1 DEF BorrowOperand
            <4>3. PICK g : g = [f EXCEPT !.wrapped = x, !.pc = "wrapped"]
                OBVIOUS
            <4>4. /\ g.op = f.op /\ g.receiver = f.receiver /\ g.operands = f.operands
                  /\ g.current = f.current /\ g.next = f.next /\ g.result = f.result
                  /\ g.equal = f.equal /\ g.message = f.message /\ g.entry = f.entry
                  /\ g.pc = "wrapped"
                BY <1>2, <4>3 DEF Frames
            <4> QED BY <1>6, <4>2, <4>3, <4>4
        <3>3. CASE EnsureConfigured(t)
            <4>1. Move(t, [f EXCEPT !.pc = "id"]) \/ Move(t, Died(f, "native"))
                BY <1>1, <3>3 DEF EnsureConfigured
            <4>2. PICK g : g = [f EXCEPT !.pc = "id"]
                OBVIOUS
            <4>3. /\ g.op = f.op /\ g.receiver = f.receiver /\ g.operands = f.operands
                  /\ g.current = f.current /\ g.next = f.next /\ g.result = f.result
                  /\ g.equal = f.equal /\ g.message = f.message /\ g.entry = f.entry
                  /\ g.pc = "id"
                BY <1>2, <4>2 DEF Frames
            <4> QED BY <1>6, <4>1, <4>2, <4>3
        <3>4. CASE TakeId(t)
            <4>1. PICK g : g = [f EXCEPT !.entry = nextId, !.pc = "insert"]
                OBVIOUS
            <4>2. Move(t, g)
                BY <1>1, <3>4, <4>1 DEF TakeId
            <4>3. /\ g.op = f.op /\ g.receiver = f.receiver /\ g.operands = f.operands
                  /\ g.current = f.current /\ g.next = f.next /\ g.result = f.result
                  /\ g.equal = f.equal /\ g.message = f.message /\ g.pc = "insert"
                BY <1>2, <4>1 DEF Frames
            <4> QED BY <4>2, <4>3
        <3>5. CASE CreateFails(t)
            <4>1. PICK g : g = [f EXCEPT !.pc = "rollback"]
                OBVIOUS
            <4>2. Move(t, g)
                BY <1>1, <3>5, <4>1 DEF CreateFails
            <4>3. /\ g.op = f.op /\ g.receiver = f.receiver /\ g.operands = f.operands
                  /\ g.current = f.current /\ g.next = f.next /\ g.result = f.result
                  /\ g.equal = f.equal /\ g.message = f.message /\ g.entry = f.entry
                  /\ g.pc = "rollback"
                BY <1>2, <4>1 DEF Frames
            <4> QED BY <4>2, <4>3
        <3> QED BY <1>9, <3>1, <3>2, <3>3, <3>4, <3>5
    <2>2. ASSUME NEW g, Move(t, g), g.op = f.op, g.receiver = f.receiver,
                 g.operands = f.operands, g.current = f.current, g.next = f.next,
                 g.result = f.result, g.equal = f.equal, g.message = f.message,
                 g.pc \in {"wrapped", "id", "insert", "rollback"} \/ f.pc = "encode",
                 g.entry = f.entry \/ g.pc = "insert"
          PROVE  Goal
        <3>1. f.pc = "encode" => f.op = "stable_bytes" /\ f.entry = Null
            BY <1>2 DEF FrameCore
        <3>2. g.op = "equal" /\ g.pc = "returned" => f.pc = "returned"
            BY <2>2, <3>1
        <3>3. ~(g.pc \in {"create", "returned"} /\ g.entry # Null)
            BY <2>2, <3>1
        <3>4. ResultOf(g, states')
            BY <1>2, <2>2, <3>2, <3>3, ResultKept
        <3> QED BY <1>3, <2>2, <3>4
    <2> QED BY <1>5, <2>1, <2>2
\* The operands.
<1>10. ASSUME HostedOperand(t) PROVE Goal
    <2>1. PICK i : i = f.operands[f.next]
        OBVIOUS
    <2>2. f.pc = "operand" /\ i \in Ids /\ UNCHANGED states
        BY <1>1, <1>10, <2>1 DEF HostedOperand, registryVars
    <2>3. CASE Move(t, Died(f, "closed"))
        BY <1>5, <1>6, <2>3
    <2>4. CASE Finds(t, i) /\ \E g \in WithOperand(f, states[i]) : Move(t, g)
        <3>1. PICK operand : operand = states[i]
            OBVIOUS
        <3>2. PICK g \in WithOperand(f, operand) : Move(t, g)
            BY <2>4, <3>1
        <3>3. operand.value \in Values
            BY <2>2, <2>4, <3>1 DEF Finds, IInv, SharedOK, States
        <3>4. f.next \in DOMAIN f.operands /\ f.wrapped = Null
            BY <1>2, <2>2 DEF FrameOK, FrameCore
        <3>5. g = [g EXCEPT !.wrapped = Null]
            <4>1. g.wrapped = Null /\ g \in Frames
                BY <1>2, <2>2, <3>3, <3>4, OperandOK DEF FrameCore
            <4> QED BY <4>1 DEF Frames
        <3>6. operand.value = Worth(f, states)[f.next]
            <4>1. i \notin Foreign
                BY <2>2, RakuAssumption
            <4> QED BY <2>1, <3>1, <3>4, <4>1 DEF Worth, MeaningIn
        <3>7. ResultOf(g, states)
            BY <1>2, <2>2, <3>3, <3>5, <3>6, ResultOfOperand
        <3> QED BY <1>3, <2>2, <3>2, <3>7
    <2> QED BY <1>1, <1>10, <2>1, <2>3, <2>4 DEF HostedOperand
<1>11. ASSUME DecodeOperand(t) PROVE Goal
    <2>1. f.pc = "wrapped" /\ UNCHANGED states
        BY <1>1, <1>11 DEF DecodeOperand, registryVars
    <2>2. PICK operand : operand = ForeignSource[f.wrapped]
        OBVIOUS
    <2>3. PICK g \in WithOperand(f, operand) : Move(t, [g EXCEPT !.wrapped = Null])
        BY <1>1, <1>11, <2>2 DEF DecodeOperand
    <2>4. PICK k : k = [g EXCEPT !.wrapped = Null]
        OBVIOUS
    <2>5. /\ f.wrapped \in Foreign /\ f.wrapped = f.operands[f.next]
          /\ f.next \in DOMAIN f.operands
        BY <1>2, <2>1, FrameFields DEF FrameOK, FrameCore
    <2>6. operand.value \in Values
        BY <2>2, <2>5, RakuAssumption
    <2>7. operand.value = Worth(f, states)[f.next]
        BY <2>2, <2>5 DEF Worth, MeaningIn
    <2>8. ResultOf(k, states)
        BY <1>2, <2>1, <2>4, <2>6, <2>7, ResultOfOperand
    <2> QED BY <1>3, <2>1, <2>3, <2>4, <2>8
\* The new entry.
<1>12. ASSUME Insert(t) PROVE Goal
    <2>1. PICK g, x : g = [f EXCEPT !.pc = "create"] /\ x = [f.current EXCEPT !.value = f.result]
        OBVIOUS
    <2>2. Move(t, g) /\ states' = [states EXCEPT ![f.entry] = x] /\ f.pc = "insert"
        BY <1>1, <1>12, <2>1 DEF Insert, Write
    <2>3. /\ g.op = f.op /\ g.receiver = f.receiver /\ g.operands = f.operands
          /\ g.current = f.current /\ g.next = f.next /\ g.result = f.result
          /\ g.equal = f.equal /\ g.message = f.message /\ g.entry = f.entry /\ g.pc = "create"
        BY <1>2, <2>1 DEF Frames
    <2>4. f.entry \in Ids
        BY <1>1, <2>2, EntryIsUnowned
    <2>5. states'[f.entry] = x
        BY <2>2, <2>4 DEF IInv, SharedOK
    <2>6. f.current \in States
        BY <1>2, <2>2, FrameFields DEF FrameCore
    <2>7. x.value = f.result
        BY <2>1, <2>6 DEF States
    <2>8. ResultOf(g, states')
        BY <1>2, <2>3, <2>5, <2>7, ResultKept
    <2> QED BY <1>3, <2>2, <2>8
<1>13. ASSUME Create(t) PROVE Goal
    <2>1. PICK h \in Handles : Move(t, [f EXCEPT !.out = h, !.pc = "returned"])
        BY <1>1, <1>13 DEF Create
    <2>2. PICK g : g = [f EXCEPT !.out = h, !.pc = "returned"]
        OBVIOUS
    <2>3. UNCHANGED states /\ f.pc = "create" /\ f.entry # Null /\ f.op \in Makes
          /\ f.current # Null /\ f.op # Null /\ f.message = Null
        BY <1>1, <1>2, <1>13 DEF Create, registryVars, FrameCore
    <2>4. /\ g.op = f.op /\ g.receiver = f.receiver /\ g.operands = f.operands
          /\ g.current = f.current /\ g.next = f.next /\ g.result = f.result
          /\ g.equal = f.equal /\ g.message = f.message /\ g.entry = f.entry
        BY <1>2, <2>2 DEF Frames
    <2>5. states'[f.entry].value = f.result
        BY <1>2, <2>3 DEF ResultOf
    <2>6. g.op # "equal"
        BY <2>3, <2>4 DEF Makes, Merges
    <2>7. ResultOf(g, states')
        BY <1>2, <2>4, <2>5, <2>6, ResultKept
    <2> QED BY <1>3, <2>1, <2>2, <2>7
\* Steps that end in no result.
<1>14. ASSUME Rollback(t) PROVE Goal
    BY <1>1, <1>5, <1>6, <1>14 DEF Rollback, RollbackWith
<1>15. ASSUME Catch(t) PROVE Goal
    <2>1. Move(t, [f EXCEPT !.pc = "failed"]) /\ f.pc = "catch"
        BY <1>1, <1>15 DEF Catch, CatchWith
    <2>2. [f EXCEPT !.pc = "failed"].message = f.message /\ f.message # Null
        BY <1>2, <2>1 DEF Frames, FrameCore
    <2> QED BY <1>3, <1>4, <2>1, <2>2
<1>16. ASSUME Return(t) PROVE Goal
    <2>1. PICK g : Move(t, g) /\ g.op = Null
        BY <1>16 DEF Return, Idle
    <2> QED BY <1>3, <1>4, <2>1
<1>17. ASSUME Drop(t) PROVE Goal
    <2>1. Move(t, [f EXCEPT !.entry = Null, !.pc = "idle"]) /\ f.pc = "drop"
        BY <1>1, <1>17 DEF Drop, DropWith
    <2>2. [f EXCEPT !.entry = Null, !.pc = "idle"].op = f.op /\ f.op = Null
        BY <1>2, <2>1 DEF Frames, FrameCore
    <2> QED BY <1>3, <1>4, <2>1, <2>2
<1>18. ASSUME AcquireLock(t) PROVE Goal
    <2>1. frame' = frame
        BY <1>18 DEF AcquireLock
    <2> QED BY <2>1, ResultStays
<1> QED BY <1>7, <1>8, <1>9, <1>10, <1>11, <1>12, <1>13, <1>14, <1>15, <1>16, <1>17, <1>18
        DEF Step

\* A finished operation answers for the values its arguments have when it
\* returns, folded in the order they were given, whatever other threads made
\* and dropped meanwhile, for arrays of any length (rakumod:231-327, 346-385).
THEOREM OperationsAreRight == Spec => []ResultsAreRight
<1>1. Init => ResultsInv
    BY DEF Init, Idle, ResultsInv, ResultOf
<1>2. IInv /\ IInv' /\ ResultsInv /\ [Next]_vars => ResultsInv'
    BY StepResult, ResultStays, OthersStay DEF ResultsInv
<1>3. ASSUME IInv, ResultsInv PROVE ResultsAreRight
    <2> SUFFICES ASSUME NEW t \in Threads, NEW f, f = frame[t], f.pc = "returned",
                        NEW rest, rest = [n \in DOMAIN f.operands |-> Meaning(f.operands[n]).value]
                 PROVE  CASE f.op \in Merges ->
                                FoldsTo(f.op, states[f.receiver].value, rest, Len(rest),
                                        states[owner[f.out]].value)
                          [] f.op = "equal"    -> f.equal = (states[f.receiver].value = rest[1])
                          [] f.op = "provider" -> states[owner[f.out]].value = f.result
                          [] OTHER             -> f.result = states[f.receiver].value
        BY DEF ResultsAreRight
    <2>1. /\ FrameCore(f) /\ f \in Frames /\ f.op # Null /\ f.current # Null /\ f.message = Null
          /\ ResultOf(f, states)
        BY <1>3 DEF IInv, FramesOK, FrameOK, FrameCore, ResultsInv
    <2>2. rest = Worth(f, states)
        BY DEF Worth, Meaning, MeaningIn
    <2>3. f.op # "provider" => states[f.receiver] = f.current
        BY <2>1 DEF ResultOf
    <2>4. f.op \in Makes => owner[f.out] = f.entry /\ states[f.entry].value = f.result
        BY <1>3, <2>1 DEF IInv, EntryInv, FrameCore, ResultOf
    <2>5. CASE f.op \in Merges
        <3>1. DOMAIN f.operands = 1..Len(f.operands) /\ Len(f.operands) \in Nat /\ f.next \in Nat
            BY <2>1, FrameFields, LenProperties
        <3>2. Len(rest) = Len(f.operands)
            <4>1. rest \in Seq({rest[n] : n \in DOMAIN f.operands}) /\ DOMAIN rest = 1..Len(f.operands)
                BY <3>1
            <4> QED BY <3>1, <4>1, LenProperties
        <3>3. f.next - 1 = Len(f.operands)
            <4>1. f.next <= Len(f.operands) + 1 /\ f.next >= 1
                BY <2>1, FrameFields DEF ResultOf
            <4>2. \A n \in 1..Len(f.operands) : n < f.next
                BY <2>1, <3>1 DEF FrameCore
            <4>3. Len(f.operands) > 0 => Len(f.operands) < f.next
                BY <3>1, <4>2
            <4> QED BY <3>1, <4>1, <4>3
        <3>4. f.op # "provider" /\ f.op \in Makes
            BY <2>5 DEF Merges, Makes
        <3>5. PICK length : length = Len(rest) /\ f.next - 1 = length
            BY <3>2, <3>3
        <3>6. FoldsTo(f.op, f.current.value, Worth(f, states), f.next - 1, f.result)
            BY <2>1, <2>5 DEF ResultOf
        <3>7. FoldsTo(f.op, f.current.value, rest, Len(rest), f.result)
            BY <2>2, <3>5, <3>6
        <3>8. f.current.value = states[f.receiver].value /\ f.result = states[owner[f.out]].value
            BY <2>3, <2>4, <3>4
        <3>9. FoldsTo(f.op, states[f.receiver].value, rest, Len(rest),
                      states[owner[f.out]].value)
            BY <3>7, <3>8
        <3> QED BY <2>5, <3>9 DEF Merges
    <2>6. CASE f.op = "equal"
        BY <2>1, <2>2, <2>3, <2>6 DEF ResultOf, Merges
    <2>7. CASE f.op = "provider"
        BY <2>4, <2>7 DEF Makes, Merges
    <2>8. CASE f.op \notin Merges \cup {"equal", "provider"}
        BY <2>1, <2>3, <2>8 DEF ResultOf
    <2> QED BY <2>5, <2>6, <2>7, <2>8
<1> QED BY <1>1, <1>2, <1>3, Inductive, PTL DEF Spec
-----------------------------------------------------------------------------
\* Where a callback goes, whatever else it sets.
LEMMA FrameIs ==
    ASSUME NEW f \in Frames, NEW p
    PROVE  /\ [f EXCEPT !.pc = p].pc = p
           /\ \A c, v : [f EXCEPT !.current = c, !.result = v, !.pc = p].pc = p
           /\ \A w : [f EXCEPT !.wrapped = w, !.pc = p].pc = p
           /\ \A i : [f EXCEPT !.entry = i, !.pc = p].pc = p
           /\ \A h : [f EXCEPT !.out = h, !.pc = p].pc = p
<1>1. DOMAIN f = DOMAIN Idle
    BY DEF Frames, Idle
<1>2. {"pc", "current", "result", "wrapped", "entry", "out"} \subseteq DOMAIN f
    BY <1>1 DEF Idle
<1> QED BY <1>2

\* No diagnostic is ever a message that could not be read.
Legible == \A i \in Ids : diagnostic[i] \in Readable \cup {Null}

LEMMA StepLegible == IInv /\ Legible /\ [Next]_vars => Legible'
<1> SUFFICES ASSUME IInv, Legible, [Next]_vars PROVE Legible'
    OBVIOUS
<1>0. diagnostic \in [Ids -> Messages \cup {Null}]
    BY DEF IInv, SharedOK
<1>1. ASSUME UNCHANGED diagnostic PROVE Legible'
    BY <1>1 DEF Legible
<1>2. ASSUME NEW i, diagnostic' = [diagnostic EXCEPT ![i] = Null] PROVE Legible'
    BY <1>0, <1>2 DEF Legible
<1>3. ASSUME NEW t \in Threads, Step(t) PROVE Legible'
    <2>1. CASE Insert(t) \/ Rollback(t) \/ Drop(t)
        BY <1>2, <2>1 DEF Insert, Rollback, RollbackWith, Drop, DropWith, Write
    <2>2. CASE Catch(t)
        <3>1. PICK i, why : UNCHANGED diagnostic \/ ( /\ why \in Readable
                                                     /\ diagnostic' = [diagnostic EXCEPT ![i] = why])
            BY <2>2 DEF Catch, CatchWith
        <3> QED BY <1>0, <1>1, <3>1 DEF Legible
    <2>3. CASE LookupReceiver(t) \/ Encode(t) \/ HostedOperand(t) \/ BorrowOperand(t)
               \/ DecodeOperand(t)
        BY <1>1, <2>3 DEF LookupReceiver, Encode, HostedOperand, BorrowOperand, DecodeOperand,
                          registryVars
    <2>4. CASE EnsureConfigured(t) \/ TakeId(t) \/ AcquireLock(t) \/ Create(t)
               \/ CreateFails(t) \/ Return(t)
        BY <1>1, <2>4 DEF EnsureConfigured, TakeId, AcquireLock, Create, CreateFails, Return,
                          registryVars
    <2> QED BY <1>3, <2>1, <2>2, <2>3, <2>4 DEF Step
<1>4. ASSUME NEW t \in Threads, Request(t) PROVE Legible'
    BY <1>1, <1>4 DEF Request, Enter, EnterProvider, Close, CloseWith, registryVars
<1>5. ASSUME NEW h, NEW g, Retain(h, g) PROVE Legible'
    BY <1>1, <1>5 DEF Retain, registryVars
<1>6. CASE UNCHANGED vars
    BY <1>1, <1>6 DEF vars, registryVars
<1> QED BY <1>3, <1>4, <1>5, <1>6 DEF Next

\* With one thread, a caller whose callback died finds the reason in the
\* diagnostic of the receiver, if the exception has a message to read: no other
\* call or write of the registry comes in between.  If it has none, the caller
\* finds what another failure left there (rakumod:253-258, 298, 321, 379;
\* docs/bindings/README.md:69-70).
THEOREM OneThreadFindsTheReason ==
    ASSUME NEW CONSTANT t, Threads = {t}
    PROVE  Spec => []DiagnosticIsRecorded
<1>1. Init => DiagnosticIsRecorded /\ Legible
    BY DEF Init, Idle, DiagnosticIsRecorded, Legible
<1>2. ASSUME IInv, Legible, DiagnosticIsRecorded, [Next]_vars PROVE DiagnosticIsRecorded'
    <2>1. PICK f : f = frame[t]
        OBVIOUS
    <2> DEFINE Failed == frame'[t].pc = "failed" /\ frame'[t].op \in Callbacks \ {"diagnostic"}
               Right == Failed /\ frame'[t].message \in Readable
                        => diagnostic'[frame'[t].receiver] = frame'[t].message
    <2> SUFFICES Right
        <3>1. Legible'
            BY <1>2, StepLegible
        <3>2. IInv'
            BY <1>2, NextOK
        <3>3. Failed => frame'[t].receiver \in Ids
            <4>1. PICK g : g = frame'[t]
                OBVIOUS
            <4>2. FrameOK(g) /\ FrameCore(g) /\ g \in Frames
                BY <3>2, <4>1 DEF IInv, FramesOK, FrameOK, FrameCore
            <4>3. g.op \in Callbacks => g.receiver \in Ids
                BY <4>2, NullIsNothing, FrameFields DEF FrameCore, Callbacks, Merges
            <4> QED BY <4>1, <4>3
        <3> QED BY <3>1, <3>3 DEF DiagnosticIsRecorded, Legible
    <2>2. FrameOK(f) /\ FrameCore(f) /\ f \in Frames /\ t \in Threads
        BY <1>2, <2>1 DEF IInv, FramesOK, FrameOK, FrameCore
    <2>3. ASSUME NEW g, Move(t, g) PROVE frame'[t] = g
        BY <1>2, <2>2, <2>3 DEF Move, IInv, FramesOK
    <2>4. ASSUME UNCHANGED frame, UNCHANGED diagnostic PROVE Right
        BY <1>2, <2>2, <2>4 DEF DiagnosticIsRecorded
    <2>5. ASSUME NEW why, Move(t, Died(f, why)) PROVE Right
        <3>1. /\ Died(f, why).op = f.op
              /\ f.op \in Callbacks \ {"diagnostic"} => Died(f, why).pc = "catch"
            BY <2>2 DEF Died, Frames
        <3> QED BY <2>3, <2>5, <3>1
    <2>6. ASSUME NEW g, Move(t, g), g.pc # "failed" PROVE Right
        BY <2>3, <2>6
    <2>7. CASE Catch(t)
        <3>1. PICK i, g : i = f.receiver /\ g = [f EXCEPT !.pc = "failed"]
            OBVIOUS
        <3>2. /\ Move(t, g) /\ f.pc = "catch"
              /\ \/ diagnostic' = [diagnostic EXCEPT ![i] = f.message]
                 \/ Misses(t, i) \/ f.message \notin Readable
            BY <2>1, <2>7, <3>1 DEF Catch, CatchWith, Readable
        <3>3. g.op = f.op /\ g.receiver = f.receiver /\ g.message = f.message
            BY <2>2, <3>1 DEF Frames
        <3>4. ASSUME f.op \in Callbacks \ {"diagnostic"}
              PROVE  i \in Ids /\ states[i] # Null
            <4>1. i # Null
                BY <2>2, <3>1, <3>4, NullIsNothing DEF FrameCore, Callbacks, Merges
            <4> QED BY <1>2, <2>1, <2>2, <3>1, <4>1, ArgsAreOwned, NullIsNothing
                    DEF IInv, OwnedInv
        <3>5. ~HashIsMoving(t)
            BY <1>2, <2>2 DEF HashIsMoving, IInv, SharedOK
        <3>6. f.op \in Callbacks \ {"diagnostic"} /\ f.message \in Readable
              => diagnostic'[i] = f.message
            BY <1>2, <3>2, <3>4, <3>5 DEF Misses, IInv, SharedOK
        <3> QED BY <2>3, <3>1, <3>2, <3>3, <3>6
    <2>8. CASE Return(t)
        <3>1. PICK g : g = [Idle EXCEPT !.wrapped = f.wrapped]
            OBVIOUS
        <3>2. Move(t, g)
            BY <2>1, <2>8, <3>1 DEF Return
        <3>3. g.pc = "idle"
            BY <3>1 DEF Idle
        <3> QED BY <2>6, <3>2, <3>3
    <2>9. CASE LookupReceiver(t)
        <3>1. \/ Move(t, Died(f, "closed"))
              \/ \E c, v : Move(t, [f EXCEPT !.current = c, !.result = v, !.pc = AfterReceiver(f)])
            BY <2>1, <2>9 DEF LookupReceiver
        <3>2. AfterReceiver(f) # "failed"
            BY DEF AfterReceiver
        <3>3. \A c, v : [f EXCEPT !.current = c, !.result = v, !.pc = AfterReceiver(f)].pc # "failed"
            BY <2>2, <3>2, FrameIs
        <3> QED BY <2>5, <2>6, <3>1, <3>3
    <2>10. CASE Encode(t)
        <3>1. \/ Move(t, [f EXCEPT !.pc = "returned"])
              \/ Move(t, Died(f, "user")) \/ Move(t, Died(f, "mute"))
            BY <2>1, <2>10 DEF Encode, UserDies
        <3>2. [f EXCEPT !.pc = "returned"].pc = "returned"
            BY <2>2, FrameIs
        <3> QED BY <2>5, <2>6, <3>1, <3>2
    <2>11. ASSUME NEW v, NEW g \in WithOperand(f, v), NEW k,
                  k = g \/ k = [g EXCEPT !.wrapped = Null], Move(t, k),
                  f.pc \in {"operand", "wrapped"}, v.value \in Values
           PROVE  Right
        <3>1. FrameCore(g) /\ SameCall(f, g)
            BY <2>2, <2>11, OperandOK
        <3>2. k.pc = g.pc /\ k.op = g.op
            BY <2>11, <3>1 DEF FrameCore, Frames
        <3>3. f.op \in Callbacks \ {"diagnostic"}
            BY <2>2, <2>11 DEF FrameCore, Callbacks, Merges
        <3>4. g.pc # "failed"
            <4>1. \A why : Died(f, why).pc = "catch"
                BY <2>2, <3>3 DEF Died, Frames
            <4>2. CASE \E why : g = Died(f, why)
                BY <4>1, <4>2
            <4>3. CASE ~ \E why : g = Died(f, why)
                <5>1. PICK pc : pc = CASE f.next < Len(f.operands) -> "operand"
                                       [] f.op = "equal"           -> "returned"
                                       [] OTHER                    -> "configure"
                    OBVIOUS
                <5>2. PICK b : b = (f.result = v.value)
                    OBVIOUS
                <5>3. \/ g = [[f EXCEPT !.next = @ + 1, !.pc = pc] EXCEPT !.equal = b]
                      \/ g = [[f EXCEPT !.next = @ + 1, !.pc = pc]
                                 EXCEPT !.result = Apply(f.op, f.result, v.value)]
                    BY <2>11, <4>3, <5>1, <5>2 DEF WithOperand, Combine, Outcomes, UserDies
                <5>4. g.pc = pc
                    BY <2>2, <5>3 DEF Frames
                <5>5. pc # "failed"
                    BY <2>2, <2>11, <5>1, AfterOperand
                <5> QED BY <5>4, <5>5
            <4> QED BY <4>2, <4>3
        <3> QED BY <2>6, <2>11, <3>2, <3>4
    <2>12. CASE HostedOperand(t)
        <3>1. PICK i : i = f.operands[f.next]
            OBVIOUS
        <3>2. CASE Move(t, Died(f, "closed"))
            BY <2>5, <3>2
        <3>3. CASE Finds(t, i) /\ \E g \in WithOperand(f, states[i]) : Move(t, g)
            <4>1. i \in Ids /\ f.pc = "operand"
                BY <2>1, <2>12, <3>1 DEF HostedOperand
            <4>2. states[i].value \in Values
                BY <1>2, <3>3, <4>1 DEF Finds, IInv, SharedOK, States
            <4> QED BY <2>11, <3>3, <4>1, <4>2
        <3> QED BY <2>1, <2>12, <3>1, <3>2, <3>3 DEF HostedOperand
    <2>13. CASE DecodeOperand(t)
        <3>1. /\ f.pc = "wrapped"
              /\ \E g \in WithOperand(f, ForeignSource[f.wrapped]) :
                    Move(t, [g EXCEPT !.wrapped = Null])
            BY <2>1, <2>13 DEF DecodeOperand
        <3>2. ForeignSource[f.wrapped].value \in Values
            <4>1. f.wrapped \in Foreign
                BY <2>2, <3>1, FrameFields DEF FrameOK
            <4> QED BY <4>1, RakuAssumption
        <3> QED BY <2>11, <3>1, <3>2
    <2>14. CASE BorrowOperand(t)
        <3>1. \/ Move(t, [f EXCEPT !.wrapped = f.operands[f.next], !.pc = "wrapped"])
              \/ Move(t, Died(f, "user")) \/ Move(t, Died(f, "decoder"))
            BY <2>1, <2>14 DEF BorrowOperand
        <3>2. [f EXCEPT !.wrapped = f.operands[f.next], !.pc = "wrapped"].pc = "wrapped"
            BY <2>2, FrameIs
        <3> QED BY <2>5, <2>6, <3>1, <3>2
    <2>15. CASE EnsureConfigured(t)
        <3>1. Move(t, [f EXCEPT !.pc = "id"]) \/ Move(t, Died(f, "native"))
            BY <2>1, <2>15 DEF EnsureConfigured
        <3>2. [f EXCEPT !.pc = "id"].pc = "id"
            BY <2>2, FrameIs
        <3> QED BY <2>5, <2>6, <3>1, <3>2
    <2>16. CASE TakeId(t)
        <3>1. Move(t, [f EXCEPT !.entry = nextId, !.pc = "insert"])
            BY <2>1, <2>16 DEF TakeId
        <3>2. [f EXCEPT !.entry = nextId, !.pc = "insert"].pc = "insert"
            BY <2>2, FrameIs
        <3> QED BY <2>6, <3>1, <3>2
    <2>17. CASE AcquireLock(t)
        BY <2>4, <2>17 DEF AcquireLock
    <2>18. CASE Insert(t)
        <3>1. Move(t, [f EXCEPT !.pc = "create"])
            BY <2>1, <2>18 DEF Insert
        <3>2. [f EXCEPT !.pc = "create"].pc = "create"
            BY <2>2, FrameIs
        <3> QED BY <2>6, <3>1, <3>2
    <2>19. CASE Create(t)
        <3>1. PICK h \in Handles : Move(t, [f EXCEPT !.out = h, !.pc = "returned"])
            BY <2>1, <2>19 DEF Create
        <3>2. [f EXCEPT !.out = h, !.pc = "returned"].pc = "returned"
            BY <2>2, FrameIs
        <3> QED BY <2>6, <3>1, <3>2
    <2>20. CASE CreateFails(t)
        <3>1. Move(t, [f EXCEPT !.pc = "rollback"])
            BY <2>1, <2>20 DEF CreateFails
        <3>2. [f EXCEPT !.pc = "rollback"].pc = "rollback"
            BY <2>2, FrameIs
        <3> QED BY <2>6, <3>1, <3>2
    <2>21. CASE Rollback(t)
        BY <2>1, <2>5, <2>21 DEF Rollback, RollbackWith
    <2>22. CASE Drop(t)
        <3>1. Move(t, [f EXCEPT !.entry = Null, !.pc = "idle"])
            BY <2>1, <2>22 DEF Drop, DropWith
        <3>2. [f EXCEPT !.entry = Null, !.pc = "idle"].pc = "idle"
            BY <2>2, FrameIs
        <3> QED BY <2>6, <3>1, <3>2
    <2>23. ASSUME NEW op, NEW r, NEW arguments, Enter(t, op, r, arguments) PROVE Right
        <3>1. PICK g : Move(t, g) /\ g.pc = "receiver"
            BY <2>23, EnterMoves
        <3> QED BY <2>6, <3>1
    <2>24. ASSUME NEW source, EnterProvider(t, source) PROVE Right
        <3>1. PICK g : Move(t, g) /\ g.pc = "configure"
            BY <2>24, EnterProviderMoves
        <3> QED BY <2>6, <3>1
    <2>25. ASSUME NEW h, Close(t, h) PROVE Right
        <3>1. f.pc = "idle" /\ (Move(t, [f EXCEPT !.entry = owner[h], !.pc = "drop"]) \/ Move(t, f))
            BY <2>1, <2>25 DEF Close, CloseWith
        <3>2. [f EXCEPT !.entry = owner[h], !.pc = "drop"].pc = "drop"
            BY <2>2, FrameIs
        <3> QED BY <2>6, <3>1, <3>2
    <2>26. CASE Request(t)
        BY <2>23, <2>24, <2>25, <2>26 DEF Request
    <2>27. CASE Step(t)
        BY <2>7, <2>8, <2>9, <2>10, <2>12, <2>13, <2>14, <2>15, <2>16, <2>17, <2>18, <2>19,
           <2>20, <2>21, <2>22, <2>27 DEF Step
    <2>28. ASSUME NEW h, NEW k, Retain(h, k) PROVE Right
        BY <2>4, <2>28 DEF Retain, registryVars
    <2>29. CASE UNCHANGED vars
        BY <2>4, <2>29 DEF vars, registryVars
    <2> QED BY <1>2, <2>26, <2>27, <2>28, <2>29 DEF Next
<1> QED BY <1>1, <1>2, StepLegible, Inductive, PTL DEF Spec
-----------------------------------------------------------------------------
(* The registry implements the abstract resource. *)

LifeSame == UNCHANGED <<owner, adopted>> /\ \A i \in adopted : states'[i] = states[i]

LEMMA LifeStutters == ASSUME LifeSame PROVE UNCHANGED HR!hrVars
<1>1. LifeOf' = LifeOf
    BY DEF LifeSame, LifeOf
<1> QED BY <1>1 DEF LifeSame, HR!hrVars

LEMMA StepImplements ==
    IInv /\ [Next]_vars => [HR!HRNext]_(HR!hrVars)
<1> SUFFICES ASSUME IInv, [Next]_vars PROVE HR!HRNext \/ UNCHANGED HR!hrVars
    OBVIOUS
<1> DEFINE Goal == HR!HRNext \/ UNCHANGED HR!hrVars
<1>1. ASSUME UNCHANGED <<states, owner, adopted>> PROVE Goal
    BY <1>1, LifeStutters DEF LifeSame
<1>2. ASSUME NEW t \in Threads, Insert(t) \/ Rollback(t) PROVE Goal
    <2>1. PICK x : states' = [states EXCEPT ![frame[t].entry] = x]
        BY <1>2 DEF Insert, Rollback, RollbackWith, Write
    <2>2. frame[t].entry \notin adopted
        BY <1>2 DEF Insert, Rollback, RollbackWith, IInv, EntryInv
    <2>3. UNCHANGED <<owner, adopted>>
        BY <1>2 DEF Insert, Rollback, RollbackWith, Write, shimVars
    <2>4. LifeSame
        BY <2>1, <2>2, <2>3 DEF LifeSame, IInv, SharedOK
    <2> QED BY <2>4, LifeStutters
<1>3. ASSUME NEW t \in Threads, Drop(t) PROVE Goal
    <2>1. PICK i : i = frame[t].entry
        OBVIOUS
    <2>2. states' = [states EXCEPT ![i] = Null] /\ UNCHANGED <<owner, adopted>>
          /\ frame[t].pc = "drop"
        BY <1>3, <2>1 DEF Drop, DropWith, Write, shimVars
    <2>3. i \in Ids /\ i \in adopted /\ states[i] # Null /\ \A h \in Handles : owner[h] # i
        BY <2>1, <2>2, EntryIsUnowned DEF IInv, EntryInv
    <2>4. LifeOf[i] = "rooted" /\ LifeOf' = [LifeOf EXCEPT ![i] = "dropped"]
        BY <2>2, <2>3 DEF LifeOf, IInv, SharedOK
    <2>5. HR!DropHost(i)
        BY <2>2, <2>3, <2>4 DEF HR!DropHost
    <2> QED BY <2>3, <2>5 DEF HR!HRNext
<1>4. ASSUME NEW t \in Threads, Create(t) PROVE Goal
    <2>1. PICK i : i = frame[t].entry
        OBVIOUS
    <2>2. PICK h \in Handles : owner[h] = Null /\ owner' = [owner EXCEPT ![h] = i]
        BY <1>4, <2>1 DEF Create
    <2>3. adopted' = adopted \cup {i} /\ UNCHANGED states /\ frame[t].pc = "create"
        BY <1>4, <2>1 DEF Create, registryVars
    <2>4. i \in Ids /\ i \notin adopted /\ states[i] # Null
        BY <2>1, <2>3, EntryIsUnowned DEF IInv, EntryInv
    <2>5. LifeOf[i] = "unused" /\ LifeOf' = [LifeOf EXCEPT ![i] = "rooted"]
        BY <2>3, <2>4 DEF LifeOf
    <2>6. HR!Adopt(h, i)
        BY <2>2, <2>5 DEF HR!Adopt
    <2> QED BY <2>4, <2>6 DEF HR!HRNext
<1>5. ASSUME NEW t \in Threads, NEW h \in Handles, Close(t, h) PROVE Goal
    <2>1. owner[h] # Null /\ owner' = [owner EXCEPT ![h] = Null] /\ UNCHANGED <<states, adopted>>
        BY <1>5 DEF Close, CloseWith, registryVars
    <2>2. LifeOf' = LifeOf
        BY <2>1 DEF LifeOf
    <2> QED BY <2>1, <2>2 DEF HR!HRNext, HR!CloseHandle
<1>6. ASSUME NEW h \in Handles, NEW k \in Handles, Retain(h, k) PROVE Goal
    <2>1. /\ owner[h] # Null /\ owner[k] = Null /\ owner' = [owner EXCEPT ![k] = owner[h]]
          /\ UNCHANGED <<states, adopted>>
        BY <1>6 DEF Retain, registryVars
    <2>2. LifeOf' = LifeOf
        BY <2>1 DEF LifeOf
    <2> QED BY <2>1, <2>2 DEF HR!HRNext, HR!Share
<1>7. ASSUME NEW t \in Threads, Request(t) PROVE Goal
    <2>1. CASE \E h \in Handles : Close(t, h)
        BY <1>5, <2>1
    <2>2. CASE ~ \E h \in Handles : Close(t, h)
        BY <1>1, <1>7, <2>2 DEF Request, Enter, EnterProvider, registryVars, shimVars
    <2> QED BY <2>1, <2>2
<1>8. ASSUME NEW t \in Threads, Step(t) PROVE Goal
    <2>1. CASE LookupReceiver(t) \/ Encode(t) \/ HostedOperand(t)
        BY <1>1, <2>1 DEF LookupReceiver, Encode, HostedOperand, registryVars, shimVars
    <2>2. CASE BorrowOperand(t) \/ DecodeOperand(t) \/ EnsureConfigured(t)
        BY <1>1, <2>2 DEF BorrowOperand, DecodeOperand, EnsureConfigured, registryVars, shimVars
    <2>3. CASE TakeId(t) \/ AcquireLock(t) \/ CreateFails(t)
        BY <1>1, <2>3 DEF TakeId, AcquireLock, CreateFails, registryVars, shimVars
    <2>4. CASE Catch(t) \/ Return(t)
        BY <1>1, <2>4 DEF Catch, CatchWith, Return, registryVars, shimVars
    <2>5. CASE Insert(t) \/ Rollback(t) \/ Drop(t) \/ Create(t)
        BY <1>2, <1>3, <1>4, <2>5
    <2> QED BY <1>8, <2>1, <2>2, <2>3, <2>4, <2>5 DEF Step
<1>9. CASE UNCHANGED vars
    BY <1>1, <1>9 DEF vars, registryVars, shimVars
<1> QED BY <1>6, <1>7, <1>8, <1>9 DEF Next

\* The safety half of ImplementsHostedResource: an object is adopted once,
\* stays while someone owns it and is forgotten once, after that
\* (rakumod:171-175).
THEOREM RegistryImplementsHostedResource == Spec => HR!HRSafety
<1>1. Init => HR!HRInit
    BY DEF Init, HR!HRInit, LifeOf
<1> QED BY <1>1, StepImplements, Inductive, PTL DEF Spec, HR!HRSafety
=============================================================================
