---------------------------- MODULE RakuProvider ----------------------------
(***************************************************************************)
(* The provider side of the Raku binding                                   *)
(* (src/bindings/raku/lib/LLattice.rakumod:138-478): the registry %STATES   *)
(* of Raku objects lent to the native side, the callbacks that compute     *)
(* with them, and make-provider-raw, which every new resource goes through. *)
(*                                                                         *)
(* The C shim underneath is taken by its contract, which ProviderShim      *)
(* establishes: a resource carries the context it was created with, a      *)
(* create either adopts the context or fails without keeping it, and the   *)
(* last close runs the drop callback once, on the closing thread.          *)
(*                                                                         *)
(* LIFETIME-LOCK guards every write of %STATES, but state() reads the hash *)
(* without it.  A read while another thread restructures the hash is       *)
(* undefined in Raku; here it may miss an entry that is there.             *)
(***************************************************************************)
EXTENDS Naturals, SequencesExt

CONSTANTS Threads,       \* Raku threads
          Handles,       \* LatticeValue objects that can own a resource
          IdBound,       \* bound: NEXT-ID stays at most IdBound + 1
          OperandBound,  \* bound: length of the operand array of a batch
          Offered,       \* bound: the operations that callers ask for
          Domains,       \* domain identifiers
          Values,        \* lattice values, up to equivalent()
          Join(_, _),    \* the join method of the values; nothing assumed
          Meet(_, _),    \* the meet method of the values; nothing assumed
          Sources,       \* [value, domain, decode]: arguments of provider()
          Foreign,       \* resources of other providers
          ForeignSource, \* their [value, domain]
          Null

Ids == 1..IdBound

States == [value : Values, domain : Domains, decode : BOOLEAN]

Merges     == {"join", "meet"}
Callbacks  == Merges \cup {"equal", "stable_bytes", "diagnostic"}
Operations == Callbacks \cup {"provider", "value"}

ASSUME RakuAssumption ==
    /\ IdBound \in Nat
    /\ OperandBound \in Nat
    /\ Offered \subseteq Operations
    /\ Sources \subseteq States
    /\ ForeignSource \in [Foreign -> [value : Values, domain : Domains]]
    /\ \A v, w \in Values : Join(v, w) \in Values /\ Meet(v, w) \in Values
    /\ IsFiniteSet(Threads)
    /\ Foreign \cap Ids = {}

VARIABLES
    nextId,      \* $NEXT-ID
    states,      \* %STATES, without the diagnostics: ProviderState or Null
    diagnostic,  \* the diagnostic attribute of a registered ProviderState
    lock,        \* the holder of $LIFETIME-LOCK, or Null
    configured,  \* $status of ensure-provider-configured, or Null
    owner,       \* owner[h]: the context of the resource handle h owns
    adopted,     \* contexts for which create-provider returned OK
    frame        \* frame[t]: the arguments and locals of thread t's operation

registryVars == <<nextId, states, diagnostic, lock>>
shimVars     == <<configured, owner, adopted>>
vars == <<registryVars, shimVars, frame>>

Messages == {"closed",   \* closed lattice provider context
             "domain",   \* lattice operands have different domains
             "decoder",  \* foreign values require a stable-byte decoder
             "user",     \* join, meet, encode, decode or the borrow died
             "mute",     \* user code died and .message of its exception dies or is no Str
             "native"}   \* check-status of configure or create died

Readable == Messages \ {"mute"}

ASSUME NullAssumption ==
    /\ Null \notin Threads \cup Handles \cup Foreign \cup Ids
    /\ Null \notin States \cup Operations \cup Messages
    /\ Null \notin {"OK", "BATCH_IN_USE"}

Frames ==
    [pc       : {"idle", "receiver", "operand", "wrapped", "encode", "configure",
                 "id", "insert", "create", "rollback", "catch", "drop",
                 "returned", "failed"},
     op       : Operations \cup {Null},
     receiver : Ids \cup {Null},        \* the id in the cell $raw-context
     operands : Seq(Ids \cup Foreign),  \* contexts or foreign resources
     handles  : SUBSET Handles,         \* the handles the arguments came from
     current  : States \cup {Null},     \* $current
     next     : Nat \ {0},              \* $index of the next operand
     result   : Values \cup {Null},     \* $result
     equal    : BOOLEAN,                \* the answer of provider-equal
     wrapped  : Foreign \cup {Null},    \* the resource borrowed as $wrapped
     entry    : Ids \cup {Null},        \* the entry being made or deleted
     out      : Handles \cup {Null},    \* the handle that received the result
     message  : Messages \cup {Null}]   \* why the operation died

Idle == [pc |-> "idle", op |-> Null, receiver |-> Null, operands |-> <<>>,
         handles |-> {}, current |-> Null, next |-> 1, result |-> Null,
         equal |-> FALSE, wrapped |-> Null, entry |-> Null, out |-> Null,
         message |-> Null]

\* Type invariant, with the places where each local is set.
TypeOK ==
    /\ nextId \in 1..IdBound + 1
    /\ states \in [Ids -> States \cup {Null}]
    /\ diagnostic \in [Ids -> Messages \cup {Null}]
    /\ lock \in Threads \cup {Null}
    /\ configured \in {"OK", "BATCH_IN_USE", Null}
    /\ owner \in [Handles -> Ids \cup {Null}]
    /\ adopted \in SUBSET Ids
    /\ DOMAIN frame = Threads
    /\ \A t \in Threads :
          LET f == frame[t]
          IN  /\ f \in Frames
              /\ f.op = Null <=> f.pc \in {"idle", "drop"}
              /\ f.pc \in {"insert", "create", "rollback", "drop"} => f.entry # Null
              /\ f.message # Null <=> f.pc \in {"catch", "failed"}
              /\ f.current = Null =>
                    f.pc \in {"idle", "drop", "receiver", "catch", "failed"}
-----------------------------------------------------------------------------
Init ==
    /\ nextId = 1
    /\ states = [i \in Ids |-> Null]
    /\ diagnostic = [i \in Ids |-> Null]
    /\ lock = Null
    /\ configured = Null
    /\ owner = [h \in Handles |-> Null]
    /\ adopted = {}
    /\ frame = [t \in Threads |-> Idle]

Move(t, f) == frame' = [frame EXCEPT ![t] = f]

\* The handles a running operation was given or is about to return.
InUse(h) == \E t \in Threads : frame[t].out = h \/ h \in frame[t].handles

\* Bound: no more operations that make a resource than ids are left for.
IdIsLeft ==
    LET makers == {t \in Threads : /\ frame[t].op \in Merges \cup {"provider"}
                                   /\ frame[t].entry = Null}
    IN  nextId + Cardinality(makers) <= IdBound

\* Another thread restructures the hash while this one reads it.
HashIsMoving(t) ==
    lock \notin {t, Null} /\ frame[lock].pc \in {"insert", "rollback", "drop"}

\* state($context) returns the entry, or dies.
Finds(t, i) == states[i] # Null
Misses(t, i) == states[i] = Null \/ HashIsMoving(t)

\* An exception inside an operation; the callbacks catch it, provider() and
\* value() let their caller have it.
Died(f, why) ==
    [f EXCEPT !.message = why,
              !.pc = IF f.op \in Callbacks \ {"diagnostic"} THEN "catch" ELSE "failed"]

\* An exception of the user's code, which may be of any class.
UserDies(f) == {Died(f, "user"), Died(f, "mute")}
-----------------------------------------------------------------------------
(* Entering an operation. *)

ArgumentLists(op) ==
    CASE op \in Merges   -> UNION {[1..n -> Handles \cup Foreign] : n \in 0..OperandBound}
      [] op = "equal"    -> [1..1 -> Handles \cup Foreign]
      [] OTHER           -> {<<>>}

\* The shim, or the caller of value(), calls with the resource of handle r.
Enter(t, op, r, arguments) ==
    LET handles == {r} \cup (Range(arguments) \cap Handles)
        Target(a) == IF a \in Foreign THEN a ELSE owner[a]
    IN  /\ frame[t].pc = "idle"
        /\ \A h \in handles : owner[h] # Null
        /\ op \in Merges => IdIsLeft
        /\ Move(t, [Idle EXCEPT
               !.pc = "receiver", !.op = op, !.receiver = owner[r], !.handles = handles,
               !.operands = [n \in DOMAIN arguments |-> Target(arguments[n])]])
        /\ UNCHANGED <<registryVars, shimVars>>

\* provider(): the new value is at hand, make-provider-raw follows.
EnterProvider(t, source) ==
    /\ frame[t].pc = "idle"
    /\ IdIsLeft
    /\ Move(t, [Idle EXCEPT !.pc = "configure", !.op = "provider",
                            !.current = source, !.result = source.value])
    /\ UNCHANGED <<registryVars, shimVars>>

AfterReceiver(f) ==
    CASE f.op = "stable_bytes"            -> "encode"
      [] f.op \in {"diagnostic", "value"} -> "returned"
      [] f.operands # <<>>                -> "operand"
      [] OTHER                            -> "configure"

\* my $current = state($raw-context)
LookupReceiver(t) ==
    LET f == frame[t]
        i == f.receiver
    IN  /\ f.pc = "receiver"
        /\ \/ Finds(t, i) /\ Move(t, [f EXCEPT !.current = states[i],
                                               !.result = states[i].value,
                                               !.pc = AfterReceiver(f)])
           \/ Misses(t, i) /\ Move(t, Died(f, "closed"))
        /\ UNCHANGED <<registryVars, shimVars>>

\* $current.encode.($current.value), which is the user's.
Encode(t) ==
    LET f == frame[t]
    IN  /\ f.pc = "encode"
        /\ \E g \in {[f EXCEPT !.pc = "returned"]} \cup UserDies(f) : Move(t, g)
        /\ UNCHANGED <<registryVars, shimVars>>
-----------------------------------------------------------------------------
(* The operands: operand-value and the join, meet or equivalent it feeds. *)

Apply(op, v, w) == IF op = "join" THEN Join(v, w) ELSE Meet(v, w)

\* What becomes of an operation that has v and combines w with it.
Outcomes(f, v, w) ==
    LET g == [f EXCEPT !.next = @ + 1,
                       !.pc = CASE f.next < Len(f.operands) -> "operand"
                                [] f.op = "equal"           -> "returned"
                                [] OTHER                    -> "configure"]
    IN  {IF f.op = "equal" THEN [g EXCEPT !.equal = (v = w)]
                           ELSE [g EXCEPT !.result = Apply(f.op, v, w)]} \cup UserDies(f)

\* Mutant: every operand is folded into the receiver, not into the result.
Combine_FromReceiver(f, w) == Outcomes(f, f.current.value, w)

\* The operand has the value w: fold it in, or compare with it.
Combine(f, w) == Outcomes(f, f.result, w)

\* Mutant: the domains are not compared.
WithOperand_AnyDomain(f, operand) == Combine(f, operand.value)

\* An operand of another domain is refused.
WithOperand(f, operand) ==
    IF operand.domain = f.current.domain THEN Combine(f, operand.value)
                                         ELSE {Died(f, "domain")}

\* The operand is a resource of this provider: use the object itself.
HostedOperand(t) ==
    LET f == frame[t]
        i == f.operands[f.next]
    IN  /\ f.pc = "operand"
        /\ i \in Ids
        /\ \/ Finds(t, i) /\ \E g \in WithOperand(f, states[i]) : Move(t, g)
           \/ Misses(t, i) /\ Move(t, Died(f, "closed"))
        /\ UNCHANGED <<registryVars, shimVars>>

\* The operand is foreign: borrow it, if its bytes can be decoded at all.
BorrowOperand(t) ==
    LET f == frame[t]
        x == f.operands[f.next]
    IN  /\ f.pc = "operand"
        /\ x \in Foreign
        /\ IF f.current.decode
           THEN \E g \in {[f EXCEPT !.wrapped = x, !.pc = "wrapped"], Died(f, "user")} :
                    Move(t, g)
           ELSE Move(t, Died(f, "decoder"))
        /\ UNCHANGED <<registryVars, shimVars>>

\* Mutant: the borrow is closed after a successful decode only.
DecodeOperand_NoLeave(t) ==
    LET f == frame[t]
    IN  /\ f.pc = "wrapped"
        /\ \E g \in WithOperand(f, ForeignSource[f.wrapped]) :
              Move(t, IF g.message = Null THEN [g EXCEPT !.wrapped = Null] ELSE g)
        /\ UNCHANGED <<registryVars, shimVars>>

\* Decode it; LEAVE closes the borrow on every way out.
DecodeOperand(t) ==
    LET f == frame[t]
    IN  /\ f.pc = "wrapped"
        /\ \E g \in WithOperand(f, ForeignSource[f.wrapped]) :
              Move(t, [g EXCEPT !.wrapped = Null])
        /\ UNCHANGED <<registryVars, shimVars>>
-----------------------------------------------------------------------------
(* make-provider-raw. *)

\* ensure-provider-configured: a validation that dies leaves the state
\* variable unset, a status of the shim is kept for ever.
EnsureConfigured(t) ==
    LET f == frame[t]
    IN  /\ f.pc = "configure"
        /\ configured' \in IF configured = Null THEN {"OK", "BATCH_IN_USE", Null}
                                                ELSE {configured}
        /\ Move(t, IF configured' = "OK" THEN [f EXCEPT !.pc = "id"]
                                         ELSE Died(f, "native"))
        /\ UNCHANGED <<registryVars, owner, adopted>>

\* Mutant: the id is the number of entries plus one.
TakeId_CountsEntries(t) ==
    LET id == Cardinality({i \in Ids : states[i] # Null}) + 1
    IN  /\ frame[t].pc = "id"
        /\ lock = Null
        /\ Move(t, [frame[t] EXCEPT !.entry = id, !.pc = "insert"])
        /\ UNCHANGED <<registryVars, shimVars>>

\* $id = $NEXT-ID++, a critical section nothing outside the lock looks into.
TakeId(t) ==
    /\ frame[t].pc = "id"
    /\ lock = Null
    /\ nextId' = nextId + 1
    /\ Move(t, [frame[t] EXCEPT !.entry = nextId, !.pc = "insert"])
    /\ UNCHANGED <<states, diagnostic, lock, shimVars>>

\* $LIFETIME-LOCK.protect around a write of %STATES.
AcquireLock(t) ==
    /\ frame[t].pc \in {"insert", "rollback", "drop"}
    /\ lock = Null
    /\ lock' = t
    /\ UNCHANGED <<nextId, states, diagnostic, shimVars, frame>>

\* %STATES{$id} = $state, or %STATES{$id}:delete, or either is forgotten.
Write(i, entry) ==
    /\ states' = [states EXCEPT ![i] = entry]
    /\ diagnostic' = [diagnostic EXCEPT ![i] = Null]
    /\ UNCHANGED <<nextId, shimVars>>

Insert(t) ==
    LET f == frame[t]
    IN  /\ f.pc = "insert"
        /\ lock = t
        /\ Write(f.entry, [f.current EXCEPT !.value = f.result])
        /\ lock' = Null
        /\ Move(t, [f EXCEPT !.pc = "create"])

\* create-provider: OK, and the resource goes to a handle of the caller ...
Create(t) ==
    LET f == frame[t]
    IN  /\ f.pc = "create"
        /\ \E h \in Handles :
              /\ owner[h] = Null
              /\ owner' = [owner EXCEPT ![h] = f.entry]
              /\ Move(t, [f EXCEPT !.out = h, !.pc = "returned"])
        /\ adopted' = adopted \cup {f.entry}
        /\ UNCHANGED <<registryVars, configured>>

\* Mutant: check-status dies before the entry is taken out.
CreateFails_KeepsEntry(t) ==
    /\ frame[t].pc = "create"
    /\ Move(t, Died(frame[t], "native"))
    /\ UNCHANGED <<registryVars, shimVars>>

\* ... or IO_ERROR.
CreateFails(t) ==
    /\ frame[t].pc = "create"
    /\ Move(t, [frame[t] EXCEPT !.pc = "rollback"])
    /\ UNCHANGED <<registryVars, shimVars>>

RollbackWith(t, holder) ==
    LET f == frame[t]
    IN  /\ f.pc = "rollback"
        /\ lock = t
        /\ Write(f.entry, Null)
        /\ lock' = holder
        /\ Move(t, Died(f, "native"))

\* Mutant: the exception leaves the critical section without unlocking.
Rollback_KeepsLock(t) == RollbackWith(t, t)

\* %STATES{$id}:delete, and check-status dies.
Rollback(t) == RollbackWith(t, Null)

CatchWith(t, Kept(_)) ==
    LET f == frame[t]
        i == f.receiver
    IN  /\ f.pc = "catch"
        /\ \/ /\ Finds(t, i) /\ f.message \in Readable
              /\ diagnostic' = [diagnostic EXCEPT ![i] = IF Kept(@) THEN @ ELSE f.message]
           \/ Misses(t, i) /\ UNCHANGED diagnostic
           \/ f.message = "mute" /\ UNCHANGED diagnostic
        /\ Move(t, [f EXCEPT !.pc = "failed"])
        /\ UNCHANGED <<nextId, states, lock, shimVars>>

\* Mutant: only the first message is kept.
Catch_KeepsFirst(t) == CatchWith(t, LAMBDA m : m # Null)

\* CATCH: try state($raw-context).diagnostic = .message, where the try swallows
\* a context that is not found and a message that is not to be had.
Catch(t) == CatchWith(t, LAMBDA m : FALSE)

\* The operation hands its status, or its exception, to its caller.
Return(t) ==
    /\ frame[t].pc \in {"returned", "failed"}
    /\ Move(t, [Idle EXCEPT !.wrapped = frame[t].wrapped])
    /\ UNCHANGED <<registryVars, shimVars>>
-----------------------------------------------------------------------------
(* The life of the handles, and the drop callback. *)

\* A second owned handle on a resource (VtResource retain).
Retain(h, g) ==
    /\ owner[h] # Null
    /\ owner[g] = Null
    /\ owner' = [owner EXCEPT ![g] = owner[h]]
    /\ UNCHANGED <<registryVars, configured, adopted, frame>>

CloseWith(t, h, last, context) ==
    /\ frame[t].pc = "idle"
    /\ owner[h] # Null
    /\ ~InUse(h)
    /\ owner' = [owner EXCEPT ![h] = Null]
    /\ Move(t, IF last THEN [frame[t] EXCEPT !.entry = context, !.pc = "drop"]
                       ELSE frame[t])
    /\ UNCHANGED <<registryVars, configured, adopted>>

IsLast(h) == \A g \in Handles \ {h} : owner[g] # owner[h]

\* Mutant: any close runs the drop callback.
Close_AlwaysDrops(t, h) == CloseWith(t, h, TRUE, owner[h])

\* Closing the last handle makes the shim run provider-drop.
Close(t, h) == CloseWith(t, h, IsLast(h), owner[h])

DropWith(t, entry) ==
    LET f == frame[t]
    IN  /\ f.pc = "drop"
        /\ lock = t
        /\ Write(f.entry, entry)
        /\ lock' = Null
        /\ Move(t, [f EXCEPT !.entry = Null, !.pc = "idle"])

\* Mutant: the try swallows a delete that never happened.
Drop_DeletesNothing(t) == DropWith(t, states[frame[t].entry])

\* provider-drop: %STATES{state-id($context)}:delete
Drop(t) == DropWith(t, Null)
-----------------------------------------------------------------------------
Request(t) ==
    \/ \E op \in Offered \ {"provider"}, r \in Handles :
          \E arguments \in ArgumentLists(op) : Enter(t, op, r, arguments)
    \/ "provider" \in Offered /\ \E source \in Sources : EnterProvider(t, source)
    \/ \E h \in Handles : Close(t, h)

Step(t) ==
    \/ LookupReceiver(t) \/ Encode(t)
    \/ HostedOperand(t) \/ BorrowOperand(t) \/ DecodeOperand(t)
    \/ EnsureConfigured(t) \/ TakeId(t) \/ AcquireLock(t) \/ Insert(t)
    \/ Create(t) \/ CreateFails(t) \/ Rollback(t) \/ Catch(t)
    \/ Return(t) \/ Drop(t)

Next ==
    \/ \E t \in Threads : Request(t) \/ Step(t)
    \/ \E h, g \in Handles : Retain(h, g)

Spec == Init /\ [][Next]_vars

\* A thread inside an operation goes on, and one that waits for the lock gets
\* it if it is free again and again.
FairSpec == Spec /\ \A t \in Threads : WF_vars(Step(t)) /\ SF_vars(AcquireLock(t))
-----------------------------------------------------------------------------
(* Properties. *)

\* What an open receiver or operand stands for.
Meaning(x) == IF x \in Foreign THEN ForeignSource[x] ELSE states[x]

\* An open handle's object is in the registry: neither a failed create nor
\* the drop of another resource takes it out while someone owns it
\* (rakumod:171-175, 442-453).
OwnedAreRegistered ==
    \A h \in Handles : owner[h] # Null => states[owner[h]] # Null

\* Whatever is in the registry is owned, or a thread is about to hand it to
\* the shim or to take it out: no path leaks an entry (rakumod:442-453).
NoRegistryLeak ==
    \A i \in Ids : states[i] # Null =>
        \/ \E h \in Handles : owner[h] = i
        \/ \E t \in Threads :
              frame[t].entry = i /\ frame[t].pc \in {"create", "rollback", "drop"}

\* The value, domain and decoder under an id never change while it is
\* registered: a host value is immutable to everyone who owns it
\* (rakumod:138-146, 442).
EntriesAreImmutable ==
    [][\A i \in Ids : states[i] # Null => states'[i] \in {states[i], Null}]_vars

\* last is what first and then the first n of rest come to, folded from the
\* left: the last of the partial results.
FoldsTo(op, first, rest, n, last) ==
    \E partial \in [0..n -> Values] :
        /\ partial[0] = first
        /\ \A i \in 1..n : partial[i] = Apply(op, partial[i - 1], rest[i])
        /\ last = partial[n]

\* A finished join or meet made a resource that is the left fold of what its
\* arguments are when it returns, and a finished comparison or encoding is
\* about those values too, whatever other threads made and dropped in
\* between (rakumod:231-327, 346-385).
ResultsAreRight ==
    \A t \in Threads : frame[t].pc = "returned" =>
        LET f == frame[t]
            first == states[f.receiver].value
            rest  == [n \in DOMAIN f.operands |-> Meaning(f.operands[n]).value]
            made  == states[owner[f.out]].value
        IN  CASE f.op \in Merges     -> FoldsTo(f.op, first, rest, Len(rest), made)
              [] f.op = "equal"    -> f.equal = (first = rest[1])
              [] f.op = "provider" -> made = f.result
              [] OTHER             -> f.result = first

\* Values of different domains are never combined or compared
\* (docs/bindings/README.md:34-37; rakumod:185-195).
DomainsNeverMix ==
    \A t \in Threads :
        LET f == frame[t]
            made == {owner[h] : h \in {f.out} \ {Null}}
        IN  (f.pc = "returned" /\ f.op \in Merges \cup {"equal"}) =>
                \A a \in Range(f.operands) \cup made :
                    Meaning(a).domain = states[f.receiver].domain

\* An operation that died left no resource, no registry entry and no borrow
\* behind, wherever it died (rakumod:190-197, 443-453).
FailureLeavesNothing ==
    \A t \in Threads :
        LET f == frame[t]
        IN  /\ f.pc = "failed" =>
                  /\ f.out = Null
                  /\ f.entry # Null => states[f.entry] = Null
            /\ f.wrapped # Null => f.pc = "wrapped"

\* Where a lent object is in its life, read off the registry.
LifeOf == [i \in Ids |-> IF i \notin adopted THEN "unused"
                         ELSE IF states[i] # Null THEN "rooted" ELSE "dropped"]

HR == INSTANCE HostedResource WITH HostContexts <- Ids, life <- LifeOf

\* The registry keeps a lent object exactly as long as the abstract resource
\* says, and forgets it in the end (rakumod:171-175).
ImplementsHostedResource == HR!HRSpec

\* Every operation and every drop comes to its end: no path keeps
\* LIFETIME-LOCK (rakumod:172-174, 435-452).
OperationsEnd == \A t \in Threads : frame[t].pc # "idle" ~> frame[t].pc = "idle"

\* A caller whose callback died finds the reason in the diagnostic of the
\* receiver, as long as no other thread calls or writes the registry in
\* between, if the exception can say what it is about.  If it cannot, what the
\* caller finds is the reason of another failure, or none (rakumod:253-258,
\* 298, 321, 379; docs/bindings/README.md:69-70).
DiagnosticIsRecorded ==
    \A t \in Threads :
        LET f == frame[t]
        IN  (f.pc = "failed" /\ f.op \in Callbacks \ {"diagnostic"}) =>
                /\ f.message \in Readable => diagnostic[f.receiver] = f.message
                /\ diagnostic[f.receiver] \in Readable \cup {Null}

\* docs/bindings/README.md:73: callbacks may overlap on valid runtime
\* threads; so a call through open handles finds their contexts open.
OverlappingCallsFindTheirContexts == \A t \in Threads : frame[t].message # "closed"
=============================================================================
