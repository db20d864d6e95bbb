---------------------------- MODULE JuliaProvider ----------------------------
(***************************************************************************)
(* The provider side of the Julia binding                                  *)
(* (src/bindings/julia/LLattice/src/LLattice.jl:131-412).                   *)
(*                                                                         *)
(* A provider is a ProviderState object whose address is the resource      *)
(* context.  PROVIDER_REGISTRY roots the object while its count is not     *)
(* zero; an object nobody roots is collected and its address used again.   *)
(* Counts and registry are touched under PROVIDER_REGISTRY_LOCK only, but  *)
(* the callbacks turn a context back into an object without asking the     *)
(* registry.                                                               *)
(*                                                                         *)
(* A handle may also be closed by a finalizer, which runs on any thread    *)
(* between two of its steps, but not while it holds a lock.  A finalizer   *)
(* cannot wait: if the lock is taken, Julia throws, and provider_release   *)
(* swallows that.                                                          *)
(***************************************************************************)
EXTENDS Integers, SequencesExt

CONSTANTS Threads,       \* Julia threads
          Handles,       \* LatticeValue objects that can own a resource
          Addresses,     \* addresses of ProviderState objects, used again
          OperandBound,  \* bound: length of the operand array of a batch
          Operations,    \* bound: the operations that callers ask for
          Finalizers,    \* are handles also closed by finalizers?
          Domains,       \* domain identifiers
          Values,        \* lattice values, up to ==
          Join(_, _),    \* join of the values; nothing assumed
          Meet(_, _),    \* meet of the values; nothing assumed
          Sources,       \* [value, domain, decode]: arguments of provider
          Foreign,       \* resources of other providers
          ForeignSource, \* their [value, domain]
          Null

States == [value : Values, domain : Domains, decode : BOOLEAN]

Merges    == {"join", "meet"}
Callbacks == Merges \cup {"equal", "stable_bytes", "diagnostic"}

ASSUME JuliaAssumption ==
    /\ OperandBound \in Nat
    /\ Operations \subseteq Callbacks \cup {"provider", "host_value"}
    /\ Finalizers \in BOOLEAN
    /\ Sources \subseteq States
    /\ ForeignSource \in [Foreign -> [value : Values, domain : Domains]]
    /\ \A v, w \in Values : Join(v, w) \in Values /\ Meet(v, w) \in Values
    /\ IsFiniteSet(Threads) /\ IsFiniteSet(Handles)

VARIABLES
    object,      \* object[a]: the ProviderState at address a, or Null
    references,  \* state.references of the object at a
    diagnostic,  \* state.last_diagnostic of the object at a, or Null
    registry,    \* the keys of PROVIDER_REGISTRY
    lock,        \* the holder of PROVIDER_REGISTRY_LOCK, or Null
    owner,       \* owner[h]: the context of the resource handle h owns
    frame        \* frame[t]: the arguments and locals of thread t's callback

heapVars == <<object, references, diagnostic>>
vars == <<heapVars, registry, lock, owner, frame>>

Messages == {"domain",   \* lattice operands have different domains
             "decoder",  \* foreign values require a stable-byte decoder
             "user"}     \* join, meet, ==, encode, decode or the borrow threw

ASSUME NullAssumption ==
    /\ Null \notin Threads \cup Handles \cup Foreign \cup Addresses
    /\ Null \notin States \cup Callbacks \cup Messages
    /\ Null \notin {"provider", "host_value", "retain", "release"}

Frames ==
    [pc       : {"idle", "state", "operand", "encode", "diagnose", "register",
                 "retain", "release", "record", "returned", "failed", "escaped"},
     op       : Callbacks \cup {"provider", "host_value", "retain", "release", Null},
     context  : Addresses \cup {Null},     \* the context argument
     operands : Seq(Addresses \cup Foreign),
     handles  : SUBSET Handles,            \* the handles the arguments came from
     state    : States \cup {Null},        \* state, or the template of a new one
     root     : Addresses \cup {Null},     \* the object the local state refers to
     next     : Nat \ {0},                 \* index of the next operand
     result   : Values \cup {Null},        \* result
     equal    : BOOLEAN,                   \* the answer of provider_equal
     out      : Handles \cup {Null},       \* the handle that receives the result
     message  : Messages \cup {Null}]      \* the exception caught

Idle == [pc |-> "idle", op |-> Null, context |-> Null, operands |-> <<>>,
         handles |-> {}, state |-> Null, root |-> Null, next |-> 1,
         result |-> Null, equal |-> FALSE, out |-> Null, message |-> Null]

\* Type invariant, with the places where each local is set; a count in the
\* registry is at least one.
TypeOK ==
    /\ object \in [Addresses -> States \cup {Null}]
    /\ references \in [Addresses -> Nat]
    /\ diagnostic \in [Addresses -> Messages \cup {Null}]
    /\ registry \subseteq {a \in Addresses : references[a] > 0}
    /\ lock \in Threads \cup {Null}
    /\ owner \in [Handles -> Addresses \cup {Null}]
    /\ DOMAIN frame = Threads
    /\ \A t \in Threads :
          LET f == frame[t]
          IN  /\ f \in Frames
              /\ f.op = Null <=> f.pc = "idle"
              /\ f.message # Null <=> f.pc \in {"record", "failed", "escaped"}
              /\ lock = t => f.pc \in {"register", "retain", "release"}
-----------------------------------------------------------------------------
Init ==
    /\ object = [a \in Addresses |-> Null]
    /\ references = [a \in Addresses |-> 0]
    /\ diagnostic = [a \in Addresses |-> Null]
    /\ registry = {}
    /\ lock = Null
    /\ owner = [h \in Handles |-> Null]
    /\ frame = [t \in Threads |-> Idle]

Move(t, f) == frame' = [frame EXCEPT ![t] = f]

\* The handles a running callback was given, or is about to fill or return.
InUse(h) == \E t \in Threads : frame[t].out = h \/ h \in frame[t].handles

Vacant(h) == owner[h] = Null /\ ~InUse(h)

\* Bound: addresses and handles are left for every result under way.
RoomIsLeft ==
    LET makers == {t \in Threads : /\ frame[t].op \in Merges \cup {"provider"}
                                   /\ frame[t].out = Null}
    IN  /\ Cardinality({a \in Addresses : object[a] = Null}) > Cardinality(makers)
        /\ Cardinality({h \in Handles : Vacant(h)}) > Cardinality(makers)

Threw(f, why) == [f EXCEPT !.pc = "record", !.message = why]
-----------------------------------------------------------------------------
(* Entering a callback, provider, or host_value. *)

ArgumentLists(op) ==
    CASE op \in Merges -> UNION {[1..n -> Handles \cup Foreign] : n \in 0..OperandBound}
      [] op = "equal"  -> [1..1 -> Handles \cup Foreign]
      [] OTHER         -> {<<>>}

Enter(t, op, r, arguments) ==
    LET handles == {r} \cup (Range(arguments) \cap Handles)
        Target(a) == IF a \in Foreign THEN a ELSE owner[a]
    IN  /\ frame[t].pc = "idle"
        /\ \A h \in handles : owner[h] # Null
        /\ op \in Merges => RoomIsLeft
        /\ Move(t, [Idle EXCEPT
               !.pc = "state", !.op = op, !.context = owner[r], !.handles = handles,
               !.operands = [n \in DOMAIN arguments |-> Target(arguments[n])]])
        /\ UNCHANGED <<heapVars, registry, lock, owner>>

EnterProvider(t, source) ==
    /\ frame[t].pc = "idle"
    /\ RoomIsLeft
    /\ Move(t, [Idle EXCEPT !.pc = "register", !.op = "provider", !.state = source,
                            !.result = source.value])
    /\ UNCHANGED <<heapVars, registry, lock, owner>>

AfterState(f) ==
    CASE f.op = "stable_bytes"   -> "encode"
      [] f.op = "diagnostic"     -> "diagnose"
      [] f.op = "host_value"     -> "returned"
      [] f.operands # <<>>       -> "operand"
      [] OTHER                   -> "register"

\* state = provider_state(context): the object at the address, unchecked.
ProviderState(t) ==
    LET f == frame[t]
        a == f.context
    IN  /\ f.pc = "state"
        /\ object[a] # Null
        /\ Move(t, [f EXCEPT !.state = object[a], !.result = object[a].value,
                             !.root = a, !.pc = AfterState(f)])
        /\ UNCHANGED <<heapVars, registry, lock, owner>>

\* Vector{UInt8}(state.encode(state.value)), which is the user's.
Encode(t) ==
    LET f == frame[t]
    IN  /\ f.pc = "encode"
        /\ \E g \in {[f EXCEPT !.pc = "returned"], Threw(f, "user")} : Move(t, g)
        /\ UNCHANGED <<heapVars, registry, lock, owner>>

\* state.last_diagnostic, under a lock nothing else is done under.
Diagnose(t) ==
    /\ frame[t].pc = "diagnose"
    /\ Move(t, [frame[t] EXCEPT !.pc = "returned"])
    /\ UNCHANGED <<heapVars, registry, lock, owner>>
-----------------------------------------------------------------------------
(* foreign_value, and the join, meet or == it feeds. *)

Apply(op, v, w) == IF op = "join" THEN Join(v, w) ELSE Meet(v, w)

\* Mutant: the loop ends one operand early.
IsLastOperand_OneEarly(f) == f.next >= Len(f.operands) - 1

\* for index in 1:Int(count)
IsLastOperand(f) == f.next = Len(f.operands)

Combine(f, w) ==
    LET g == [f EXCEPT !.next = @ + 1,
                       !.pc = CASE ~IsLastOperand(f)     -> "operand"
                                [] f.op = "equal" -> "returned"
                                [] OTHER          -> "register"]
    IN  {IF f.op = "equal" THEN [g EXCEPT !.equal = (f.result = w)]
                           ELSE [g EXCEPT !.result = Apply(f.op, @, w)],
         Threw(f, "user")}

\* Mutant: the domains are not compared.
WithOperand_AnyDomain(f, operand) == Combine(f, operand.value)

WithOperand(f, operand) ==
    IF operand.domain = f.state.domain THEN Combine(f, operand.value)
                                       ELSE {Threw(f, "domain")}

\* raw.vtable is ours: the object at the address; otherwise borrow, compare,
\* decode and close in a finally.
ForeignValue(t) ==
    LET f == frame[t]
        x == f.operands[f.next]
    IN  /\ f.pc = "operand"
        /\ IF x \notin Foreign
           THEN object[x] # Null /\ \E g \in WithOperand(f, object[x]) : Move(t, g)
           ELSE \E g \in IF f.state.decode
                         THEN WithOperand(f, ForeignSource[x]) \cup {Threw(f, "user")}
                         ELSE {Threw(f, "decoder")} : Move(t, g)
        /\ UNCHANGED <<heapVars, registry, lock, owner>>
-----------------------------------------------------------------------------
(* The registry: register_provider_raw, provider_retain, provider_release. *)

AcquireLock(t) ==
    /\ frame[t].pc \in {"register", "retain", "release"}
    /\ lock = Null
    /\ lock' = t
    /\ UNCHANGED <<heapVars, registry, owner, frame>>

RegisterWith(t, count) ==
    LET f == frame[t]
    IN  /\ f.pc = "register"
        /\ lock = t
        /\ \E a \in Addresses, h \in Handles :
              /\ object[a] = Null
              /\ Vacant(h)
              /\ object' = [object EXCEPT ![a] = [f.state EXCEPT !.value = f.result]]
              /\ references' = [references EXCEPT ![a] = count]
              /\ diagnostic' = [diagnostic EXCEPT ![a] = Null]
              /\ registry' = registry \cup {a}
              /\ owner' = [owner EXCEPT ![h] = a]
              /\ Move(t, [f EXCEPT !.out = h, !.pc = "returned"])
        /\ lock' = Null

\* A new object with one reference is allocated and rooted, and the caller
\* owns it.
Register(t) == RegisterWith(t, 1)

EnterRetain(t, h, g) ==
    /\ frame[t].pc = "idle"
    /\ owner[h] # Null
    /\ Vacant(g) /\ RoomIsLeft
    /\ Move(t, [Idle EXCEPT !.pc = "retain", !.op = "retain", !.context = owner[h],
                            !.handles = {h}, !.out = g])
    /\ UNCHANGED <<heapVars, registry, lock, owner>>

RetainWith(t, added) ==
    LET f == frame[t]
    IN  /\ f.pc = "retain"
        /\ lock = t
        /\ references' = [references EXCEPT ![f.context] =
                             IF f.context \in registry THEN @ + added ELSE @]
        /\ owner' = [owner EXCEPT ![f.out] = f.context]
        /\ lock' = Null
        /\ Move(t, [f EXCEPT !.pc = "returned"])
        /\ UNCHANGED <<object, diagnostic, registry>>

\* Mutant: the count is not moved.
Retain_NotCounted(t) == RetainWith(t, 0)

\* PROVIDER_REGISTRY[context].references += 1, and nothing if it is missing.
Retain(t) == RetainWith(t, 1)

EnterClose(t, h) ==
    /\ frame[t].pc = "idle"
    /\ owner[h] # Null
    /\ ~InUse(h)
    /\ owner' = [owner EXCEPT ![h] = Null]
    /\ Move(t, [Idle EXCEPT !.pc = "release", !.op = "release", !.context = owner[h]])
    /\ UNCHANGED <<heapVars, registry, lock>>

DroppedWith(a, zero) ==
    IF a \in registry
    THEN /\ references' = [references EXCEPT ![a] = @ - 1]
         /\ registry' = IF references[a] - 1 = zero THEN registry \ {a} ELSE registry
    ELSE UNCHANGED <<references, registry>>

\* Mutant: the entry is deleted when the count reaches one.
Dropped_TooEarly(a) == DroppedWith(a, 1)

\* Mutant: the entry is never deleted.
Dropped_Never(a) == DroppedWith(a, -1)

\* state.references -= 1; delete! at zero; nothing if the entry is missing.
Dropped(a) == DroppedWith(a, 0)

Release(t) ==
    LET f == frame[t]
    IN  /\ f.pc = "release"
        /\ lock = t
        /\ Dropped(f.context)
        /\ lock' = Null
        /\ Move(t, [f EXCEPT !.pc = "returned"])
        /\ UNCHANGED <<object, diagnostic, owner>>

\* A finalizer closes a handle nobody refers to, in the middle of whatever
\* thread t does; the lock it cannot have makes provider_release do nothing.
Finalize(t, h) ==
    /\ Finalizers
    /\ lock # t
    /\ owner[h] # Null
    /\ ~InUse(h)
    /\ owner' = [owner EXCEPT ![h] = Null]
    /\ IF lock = Null THEN Dropped(owner[h]) ELSE UNCHANGED <<references, registry>>
    /\ UNCHANGED <<object, diagnostic, lock, frame>>

\* The collector frees an object that neither the registry nor a local
\* variable of a running callback refers to.
Collect(a) ==
    /\ object[a] # Null
    /\ a \notin registry
    /\ \A t \in Threads : frame[t].root # a
    /\ object' = [object EXCEPT ![a] = Null]
    /\ references' = [references EXCEPT ![a] = 0]
    /\ diagnostic' = [diagnostic EXCEPT ![a] = Null]
    /\ UNCHANGED <<registry, lock, owner, frame>>
-----------------------------------------------------------------------------
\* record_failure!: showerror is the user's too, and nothing catches it.
RecordFailure(t) ==
    LET f == frame[t]
    IN  /\ f.pc = "record"
        /\ \/ /\ diagnostic' = [diagnostic EXCEPT ![f.root] = f.message]
              /\ Move(t, [f EXCEPT !.pc = "failed"])
           \/ /\ f.message = "user"
              /\ Move(t, [f EXCEPT !.pc = "escaped"])
              /\ UNCHANGED diagnostic
        /\ UNCHANGED <<object, references, registry, lock, owner>>

\* The status, the value or the resource goes to the caller; what happens
\* after an exception crossed the C frame is not modelled.
Return(t) ==
    /\ frame[t].pc \in {"returned", "failed", "escaped"}
    /\ Move(t, Idle)
    /\ UNCHANGED <<heapVars, registry, lock, owner>>

Request(t) ==
    \/ \E op \in Operations \ {"provider"}, r \in Handles :
          \E arguments \in ArgumentLists(op) : Enter(t, op, r, arguments)
    \/ "provider" \in Operations /\ \E source \in Sources : EnterProvider(t, source)
    \/ \E h, g \in Handles : EnterRetain(t, h, g)
    \/ \E h \in Handles : EnterClose(t, h) \/ Finalize(t, h)

Step(t) ==
    \/ ProviderState(t) \/ Encode(t) \/ Diagnose(t) \/ ForeignValue(t)
    \/ AcquireLock(t) \/ Register(t) \/ Retain(t) \/ Release(t)
    \/ RecordFailure(t) \/ Return(t)

Next ==
    \/ \E t \in Threads : Request(t) \/ Step(t)
    \/ \E a \in Addresses : Collect(a)

Spec == Init /\ [][Next]_vars

\* A running thread goes on; one that waits for the registry lock is in the
\* queue of the lock, which wakes it at an unlock, so it gets its turn; and
\* garbage is collected in the end.
FairSpec ==
    /\ Spec
    /\ \A t \in Threads : WF_vars(Step(t)) /\ SF_vars(AcquireLock(t))
    /\ \A a \in Addresses : WF_vars(Collect(a))
-----------------------------------------------------------------------------
(* Properties. *)

\* The references to an object that the count stands for: the handles that
\* own it and the closes under way.
Owed(a) ==
    Cardinality({h \in Handles : owner[h] = a})
        + Cardinality({t \in Threads : frame[t].pc = "release" /\ frame[t].context = a})

\* The count covers every owner and every close under way, is exactly that
\* without finalizers, and such an object is rooted (LLattice.jl:159-184,
\* 367-382).
CountsAreExact ==
    \A a \in Addresses :
        /\ Owed(a) > 0 => a \in registry /\ references[a] >= Owed(a)
        /\ (a \in registry /\ ~Finalizers) => references[a] = Owed(a)

\* provider_state never turns the address of a freed object back into an
\* object, and retain and release find their entry, although no callback
\* holds the lock while it uses the object (LLattice.jl:146-149, 159-184).
ContextsAreLive ==
    \A t \in Threads :
        LET f == frame[t]
            used == CASE f.pc = "state"               -> {f.context}
                      [] f.pc \in {"retain", "release"} -> {f.context}
                      [] f.pc = "operand"             -> Range(f.operands) \ Foreign
                      [] OTHER                        -> {}
        IN  used \subseteq registry /\ \A a \in used : object[a] # Null

\* What an open receiver or operand stands for.
Meaning(x) == IF x \in Foreign THEN ForeignSource[x] ELSE object[x]

\* last is what first and then the first n of rest come to, folded from the
\* left: the last of the partial results.
FoldsTo(op, first, rest, n, last) ==
    \E partial \in [0..n -> Values] :
        /\ partial[0] = first
        /\ \A i \in 1..n : partial[i] = Apply(op, partial[i - 1], rest[i])
        /\ last = partial[n]

\* A finished callback answers for the values its arguments have when it
\* returns, in the order they were given, and never mixes domains, whatever
\* was registered and collected in between (LLattice.jl:206-323).
ResultsAreRight ==
    \A t \in Threads : frame[t].pc = "returned" =>
        LET f == frame[t]
            first == object[f.context]
            rest  == [n \in DOMAIN f.operands |-> Meaning(f.operands[n])]
            values == [n \in DOMAIN rest |-> rest[n].value]
            made  == object[owner[f.out]]
        IN  /\ f.op \in Merges =>
                 /\ FoldsTo(f.op, first.value, values, Len(values), made.value)
                 /\ made.domain = first.domain
            /\ f.op = "equal" => f.equal = (first.value = values[1])
            /\ f.op \in Merges \cup {"equal"} =>
                 \A n \in DOMAIN rest : rest[n].domain = first.domain

\* A context no handle owns any more is forgotten and its object collected,
\* until the address is used again (LLattice.jl:173-179).
ClosedIsCollected ==
    \A a \in Addresses : (\A h \in Handles : owner[h] # a)
                              ~> (object[a] = Null \/ \E h \in Handles : owner[h] = a)

\* LLattice.jl:181: "Release is likewise an infallible ABI callback"; so a
\* registered object has an owner, or a close of it is under way.
ReleaseIsInfallible == \A a \in registry : Owed(a) > 0
=============================================================================
