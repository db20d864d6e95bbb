---------------------------- MODULE ProviderShim ----------------------------
(***************************************************************************)
(* The native provider shim of the Raku binding                            *)
(* (src/bindings/raku/cbits/provider.c), one TLA+ step per access to shared *)
(* memory.                                                                 *)
(*                                                                         *)
(* The shim keeps one process-wide callback table, filled once under a     *)
(* spin lock and read without it, and one reference-counted heap record    *)
(* per provider, which carries a copy of the table.  Threads of the host   *)
(* program enter it through the exported functions configure and create,   *)
(* through the resource vtable (retain, release) and through the lattice   *)
(* vtable (join, meet, ...); a lattice call runs a callback of the host    *)
(* language, which may enter the shim again on the same thread.            *)
(*                                                                         *)
(* The clients keep the contract of an owned resource: they retain, close  *)
(* or call only through a handle they hold, and do not close a handle that *)
(* a running call uses.  Nothing else is assumed of their scheduling.      *)
(***************************************************************************)
EXTENDS Naturals, FiniteSets

CONSTANTS Threads,       \* threads of the host process
          Contexts,      \* addresses calloc may return, reused after free
          Handles,       \* owned VtResource values outside the shim
          HostContexts,  \* host_context pointers, each lent to one create
          Slots,         \* members of LlatticeRakuCallbacks
          DropSlot,      \* the member called on the last release
          Functions,     \* callback pointers
          Tables,        \* argument lists configure may be called with
          Null

ASSUME ShimAssumption ==
    /\ DropSlot \in Slots
    /\ Tables \subseteq [Slots -> Functions \cup {Null}]
    /\ IsFiniteSet(Handles)

VARIABLES
    lockHeld,     \* CALLBACKS_LOCK
    configured,   \* CALLBACKS_CONFIGURED
    callbacks,    \* CALLBACKS, member by member
    allocated,    \* addresses of live LlatticeRakuProvider records
    references,   \* context->references
    hostContext,  \* context->host_context
    installed,    \* context->drop ... context->meet_many
    held,         \* held[h]: context of the resource handle h owns, or Null
    pc,           \* where thread t is in configure, create or release
    table,        \* arguments of the running configure
    status,       \* status the running configure will return
    ctx,          \* context of the running create or release
    host,         \* host_context argument of the running create
    out,          \* handle the running create writes its resource to
    todo,         \* members the running copy has not written yet
    call,         \* the lattice call thread t is inside, or Null
    adopted,      \* host contexts a successful create took over
    drops,        \* how often the drop callback ran for a host context
    accepted,     \* tables for which configure returned OK
    refused       \* tables for which configure returned BATCH_IN_USE

tableVars   == <<lockHeld, configured, callbacks>>
heapVars    == <<allocated, references, hostContext, installed>>
frameVars   == <<pc, table, status, ctx, host, out, todo>>
historyVars == <<adopted, drops, accepted, refused>>
vars == <<tableVars, heapVars, held, frameVars, call, historyVars>>

EmptyTable == [s \in Slots |-> Null]

Operations == Slots \ {DropSlot}

\* The handles a running lattice call was given; its caller keeps them open.
InUse(h) == \E t \in Threads : call[t] # Null /\ h \in call[t].handles

\* A handle that can receive a new resource.
Vacant(h) == held[h] = Null /\ \A t \in Threads : out[t] # h

\* A host context no create was called with (it failed, or has not begun).
Unlent(x) == x \notin adopted /\ \A t \in Threads : host[t] # x

TableTypeOK ==
    /\ lockHeld \in BOOLEAN
    /\ configured \in BOOLEAN
    /\ callbacks \in [Slots -> Functions \cup {Null}]

HeapTypeOK ==
    /\ allocated \in SUBSET Contexts
    /\ hostContext \in [Contexts -> HostContexts \cup {Null}]
    /\ installed \in [Contexts -> [Slots -> Functions \cup {Null}]]
    /\ held \in [Handles -> Contexts \cup {Null}]

ThreadTypeOK ==
    /\ pc \in [Threads -> {"idle", "spin", "locked", "write", "unlock",
                           "alloc", "copy", "drop", "free"}]
    /\ table \in [Threads -> Tables \cup {Null}]
    /\ status \in [Threads -> {"OK", "BATCH_IN_USE", Null}]
    /\ ctx \in [Threads -> Contexts \cup {Null}]
    /\ host \in [Threads -> HostContexts \cup {Null}]
    /\ out \in [Threads -> Handles \cup {Null}]
    /\ todo \in [Threads -> SUBSET Slots]

CallRecords ==
    [slot     : Operations,
     callback : Functions \cup {Null},
     handles  : SUBSET Handles,
     hosts    : SUBSET (HostContexts \cup {Null})]

\* Null stands for NULL and for "not set", and is no value of the program.
ASSUME NullAssumption ==
    /\ Null \notin Threads \cup Contexts \cup Handles \cup HostContexts
    /\ Null \notin Functions
    /\ Null \notin Tables
    /\ Null \notin {"OK", "BATCH_IN_USE"}
    /\ Null \notin CallRecords

HistoryTypeOK ==
    /\ adopted \in SUBSET HostContexts
    /\ drops \in [HostContexts -> Nat]
    /\ accepted \in SUBSET Tables
    /\ refused \in SUBSET Tables

\* Each argument and local variable is set exactly where the code has it.
FrameInUse ==
    \A t \in Threads :
        /\ table[t] # Null <=> pc[t] \in {"spin", "locked", "write", "unlock"}
        /\ status[t] # Null <=> pc[t] = "unlock"
        /\ host[t] # Null <=> pc[t] \in {"alloc", "copy"}
        /\ out[t] # Null <=> pc[t] \in {"alloc", "copy"}
        /\ ctx[t] # Null <=> pc[t] \in {"copy", "drop", "free"}

\* The types of everything but the reference counts, which stay in Nat only
\* because of what ReferencesExact says.
FrameTypeOK ==
    /\ TableTypeOK
    /\ HeapTypeOK
    /\ ThreadTypeOK
    /\ call \in [Threads -> CallRecords \cup {Null}]
    /\ HistoryTypeOK
    /\ FrameInUse

\* Type invariant; a count never goes below zero (provider.c:45-52).
TypeOK == FrameTypeOK /\ references \in [Contexts -> Nat]

Init ==
    /\ lockHeld = FALSE
    /\ configured = FALSE
    /\ callbacks = EmptyTable
    /\ allocated = {}
    /\ references = [c \in Contexts |-> 0]
    /\ hostContext = [c \in Contexts |-> Null]
    /\ installed = [c \in Contexts |-> EmptyTable]
    /\ held = [h \in Handles |-> Null]
    /\ pc = [t \in Threads |-> "idle"]
    /\ table = [t \in Threads |-> Null]
    /\ status = [t \in Threads |-> Null]
    /\ ctx = [t \in Threads |-> Null]
    /\ host = [t \in Threads |-> Null]
    /\ out = [t \in Threads |-> Null]
    /\ todo = [t \in Threads |-> {}]
    /\ call = [t \in Threads |-> Null]
    /\ adopted = {}
    /\ drops = [x \in HostContexts |-> 0]
    /\ accepted = {}
    /\ refused = {}

Goto(t, from, to) == pc[t] = from /\ pc' = [pc EXCEPT ![t] = to]

-----------------------------------------------------------------------------
(* llattice_raku_provider_configure *)

\* The NULL check passed: start spinning for the lock.
Configure(t, T) ==
    /\ \A s \in Slots : T[s] # Null
    /\ Goto(t, "idle", "spin")
    /\ table' = [table EXCEPT ![t] = T]
    /\ UNCHANGED <<tableVars, heapVars, held, status, ctx, host, out, todo,
                   call, historyVars>>

\* atomic_flag_test_and_set found the flag clear.
AcquireLock(t) ==
    /\ ~lockHeld
    /\ Goto(t, "spin", "locked")
    /\ lockHeld' = TRUE
    /\ UNCHANGED <<configured, callbacks, heapVars, held, table, status, ctx,
                   host, out, todo, call, historyVars>>

\* Mutant: only the first member is compared.
CompareTable_FirstMember(t) ==
    /\ configured
    /\ Goto(t, "locked", "unlock")
    /\ status' = [status EXCEPT ![t] =
                     IF callbacks[DropSlot] = table[t][DropSlot]
                       THEN "OK" ELSE "BATCH_IN_USE"]
    /\ UNCHANGED <<tableVars, heapVars, held, table, ctx, host, out, todo,
                   call, historyVars>>

\* Mutant: a conflicting table returns at once, without clearing the flag.
CompareTable_ReturnsLocked(t) ==
    /\ configured
    /\ pc[t] = "locked"
    /\ IF callbacks = table[t]
         THEN /\ pc' = [pc EXCEPT ![t] = "unlock"]
              /\ status' = [status EXCEPT ![t] = "OK"]
              /\ UNCHANGED <<table, refused>>
         ELSE /\ pc' = [pc EXCEPT ![t] = "idle"]
              /\ table' = [table EXCEPT ![t] = Null]
              /\ refused' = refused \cup {table[t]}
              /\ UNCHANGED status
    /\ UNCHANGED <<tableVars, heapVars, held, ctx, host, out, todo, call,
                   adopted, drops, accepted>>

\* A table is installed already: only the same one is acceptable.
CompareTable(t) ==
    /\ configured
    /\ Goto(t, "locked", "unlock")
    /\ status' = [status EXCEPT ![t] = IF callbacks = table[t]
                                         THEN "OK" ELSE "BATCH_IN_USE"]
    /\ UNCHANGED <<tableVars, heapVars, held, table, ctx, host, out, todo,
                   call, historyVars>>

\* Mutant: the flag is stored before the struct is written.
BeginWrite_PublishesFirst(t) ==
    /\ ~configured
    /\ Goto(t, "locked", "write")
    /\ configured' = TRUE
    /\ todo' = [todo EXCEPT ![t] = Slots]
    /\ UNCHANGED <<lockHeld, callbacks, heapVars, held, table, status, ctx,
                   host, out, call, historyVars>>

\* Mutant: a configured table may be written again.
BeginWrite_Again(t) ==
    /\ Goto(t, "locked", "write")
    /\ todo' = [todo EXCEPT ![t] = Slots]
    /\ UNCHANGED <<tableVars, heapVars, held, table, status, ctx, host, out,
                   call, historyVars>>

\* No table yet: the struct assignment begins.
BeginWrite(t) ==
    /\ ~configured
    /\ Goto(t, "locked", "write")
    /\ todo' = [todo EXCEPT ![t] = Slots]
    /\ UNCHANGED <<tableVars, heapVars, held, table, status, ctx, host, out,
                   call, historyVars>>

\* One plain store of the struct assignment, in whatever order.
WriteSlot(t, s) ==
    /\ pc[t] = "write"
    /\ s \in todo[t]
    /\ callbacks' = [callbacks EXCEPT ![s] = table[t][s]]
    /\ todo' = [todo EXCEPT ![t] = @ \ {s}]
    /\ UNCHANGED <<lockHeld, configured, heapVars, held, pc, table, status,
                   ctx, host, out, call, historyVars>>

\* The release store of the flag, after the whole struct.
PublishTable(t) ==
    /\ todo[t] = {}
    /\ Goto(t, "write", "unlock")
    /\ configured' = TRUE
    /\ status' = [status EXCEPT ![t] = "OK"]
    /\ UNCHANGED <<lockHeld, callbacks, heapVars, held, table, ctx, host, out,
                   todo, call, historyVars>>

\* atomic_flag_clear, then the status is returned.
ReleaseLock(t) ==
    /\ Goto(t, "unlock", "idle")
    /\ lockHeld' = FALSE
    /\ table' = [table EXCEPT ![t] = Null]
    /\ status' = [status EXCEPT ![t] = Null]
    /\ accepted' = IF status[t] = "OK" THEN accepted \cup {table[t]}
                                       ELSE accepted
    /\ refused' = IF status[t] = "OK" THEN refused ELSE refused \cup {table[t]}
    /\ UNCHANGED <<configured, callbacks, heapVars, held, ctx, host, out, todo,
                   call, adopted, drops>>

-----------------------------------------------------------------------------
(* llattice_raku_provider_create *)

\* The acquire load of the flag saw a configured table; without one create
\* returns PROVIDER_ERROR and changes nothing.
Create(t, x, h) ==
    /\ configured
    /\ Unlent(x)
    /\ Vacant(h)
    /\ Goto(t, "idle", "alloc")
    /\ host' = [host EXCEPT ![t] = x]
    /\ out' = [out EXCEPT ![t] = h]
    /\ UNCHANGED <<tableVars, heapVars, held, table, status, ctx, todo, call,
                   historyVars>>

\* Mutant: the failing path drops the host context it was lent.
AllocateFails_Drops(t) ==
    /\ Goto(t, "alloc", "idle")
    /\ drops' = [drops EXCEPT ![host[t]] = @ + 1]
    /\ host' = [host EXCEPT ![t] = Null]
    /\ out' = [out EXCEPT ![t] = Null]
    /\ UNCHANGED <<tableVars, heapVars, held, table, status, ctx, todo, call,
                   adopted, accepted, refused>>

\* calloc returned NULL: IO_ERROR, the host keeps its context.
AllocateFails(t) ==
    /\ Goto(t, "alloc", "idle")
    /\ host' = [host EXCEPT ![t] = Null]
    /\ out' = [out EXCEPT ![t] = Null]
    /\ UNCHANGED <<tableVars, heapVars, held, table, status, ctx, todo, call,
                   historyVars>>

\* Mutant: the count stays at the zero calloc left.
Allocate_ZeroCount(t, c) ==
    /\ c \notin allocated
    /\ Goto(t, "alloc", "copy")
    /\ allocated' = allocated \cup {c}
    /\ hostContext' = [hostContext EXCEPT ![c] = host[t]]
    /\ installed' = [installed EXCEPT ![c] = EmptyTable]
    /\ ctx' = [ctx EXCEPT ![t] = c]
    /\ todo' = [todo EXCEPT ![t] = Slots]
    /\ UNCHANGED <<tableVars, references, held, table, status, host, out, call,
                   historyVars>>

\* calloc returned a zeroed record at an unused address; the count starts at 1.
Allocate(t, c) ==
    /\ c \notin allocated
    /\ Goto(t, "alloc", "copy")
    /\ allocated' = allocated \cup {c}
    /\ references' = [references EXCEPT ![c] = 1]
    /\ hostContext' = [hostContext EXCEPT ![c] = host[t]]
    /\ installed' = [installed EXCEPT ![c] = EmptyTable]
    /\ ctx' = [ctx EXCEPT ![t] = c]
    /\ todo' = [todo EXCEPT ![t] = Slots]
    /\ UNCHANGED <<tableVars, held, table, status, host, out, call,
                   historyVars>>

\* One member is read from CALLBACKS, without the lock, into the record.
CopySlot(t, s) ==
    /\ pc[t] = "copy"
    /\ s \in todo[t]
    /\ installed' = [installed EXCEPT ![ctx[t]][s] = callbacks[s]]
    /\ todo' = [todo EXCEPT ![t] = @ \ {s}]
    /\ UNCHANGED <<tableVars, allocated, references, hostContext, held, pc,
                   table, status, ctx, host, out, call, historyVars>>

\* The record is complete: out_resource receives the new reference.
FinishCreate(t) ==
    /\ todo[t] = {}
    /\ Goto(t, "copy", "idle")
    /\ held' = [held EXCEPT ![out[t]] = ctx[t]]
    /\ adopted' = adopted \cup {host[t]}
    /\ ctx' = [ctx EXCEPT ![t] = Null]
    /\ host' = [host EXCEPT ![t] = Null]
    /\ out' = [out EXCEPT ![t] = Null]
    /\ UNCHANGED <<tableVars, heapVars, table, status, todo, call, drops,
                   accepted, refused>>

-----------------------------------------------------------------------------
(* provider_retain and provider_release *)

Retain(t, h, g) ==
    /\ pc[t] = "idle"
    /\ held[h] # Null
    /\ Vacant(g)
    /\ references' = [references EXCEPT ![held[h]] = @ + 1]
    /\ held' = [held EXCEPT ![g] = held[h]]
    /\ UNCHANGED <<tableVars, allocated, hostContext, installed, frameVars,
                   call, historyVars>>

\* Mutants: the record is destroyed when the count before the subtraction was
\* not the expected 1.
ReleaseWhenPrior(t, h, last(_)) ==
    /\ pc[t] = "idle"
    /\ held[h] # Null
    /\ ~InUse(h)
    /\ references' = [references EXCEPT ![held[h]] = @ - 1]
    /\ held' = [held EXCEPT ![h] = Null]
    /\ IF last(references[held[h]])
         THEN /\ pc' = [pc EXCEPT ![t] = "drop"]
              /\ ctx' = [ctx EXCEPT ![t] = held[h]]
         ELSE UNCHANGED <<pc, ctx>>
    /\ UNCHANGED <<tableVars, allocated, hostContext, installed, table, status,
                   host, out, todo, call, historyVars>>

Release_AnyCount(t, h) == ReleaseWhenPrior(t, h, LAMBDA n : TRUE)
Release_AtTwo(t, h)    == ReleaseWhenPrior(t, h, LAMBDA n : n <= 2)
Release_AtZero(t, h)   == ReleaseWhenPrior(t, h, LAMBDA n : n = 0)

\* The fetch_sub; only the thread that saw 1 goes on to destroy the record.
Release(t, h) ==
    /\ pc[t] = "idle"
    /\ held[h] # Null
    /\ ~InUse(h)
    /\ references' = [references EXCEPT ![held[h]] = @ - 1]
    /\ held' = [held EXCEPT ![h] = Null]
    /\ IF references[held[h]] = 1
         THEN /\ pc' = [pc EXCEPT ![t] = "drop"]
              /\ ctx' = [ctx EXCEPT ![t] = held[h]]
         ELSE UNCHANGED <<pc, ctx>>
    /\ UNCHANGED <<tableVars, allocated, hostContext, installed, table, status,
                   host, out, todo, call, historyVars>>

\* Mutant: the record is freed without telling the host.
Drop_Skipped(t) ==
    /\ Goto(t, "drop", "free")
    /\ UNCHANGED <<tableVars, heapVars, held, table, status, ctx, host, out,
                   todo, call, historyVars>>

\* context->drop(context->host_context)
Drop(t) ==
    /\ Goto(t, "drop", "free")
    /\ drops' = [drops EXCEPT ![hostContext[ctx[t]]] = @ + 1]
    /\ UNCHANGED <<tableVars, heapVars, held, table, status, ctx, host, out,
                   todo, call, adopted, accepted, refused>>

\* free(context): the address may be handed out again.
Free(t) ==
    /\ Goto(t, "free", "idle")
    /\ allocated' = allocated \ {ctx[t]}
    /\ references' = [references EXCEPT ![ctx[t]] = 0]
    /\ hostContext' = [hostContext EXCEPT ![ctx[t]] = Null]
    /\ installed' = [installed EXCEPT ![ctx[t]] = EmptyTable]
    /\ ctx' = [ctx EXCEPT ![t] = Null]
    /\ UNCHANGED <<tableVars, held, table, status, host, out, todo, call,
                   historyVars>>

-----------------------------------------------------------------------------
(* provider_join ... provider_meet_many: the receiver's copy of a callback  *)
(* is called with the host context of the receiver and of each operand.     *)

Call(t, s, h, others) ==
    /\ pc[t] = "idle"
    /\ call[t] = Null
    /\ \A g \in others \cup {h} : held[g] # Null
    /\ call' = [call EXCEPT ![t] =
                  [slot     |-> s,
                   callback |-> installed[held[h]][s],
                   handles  |-> others \cup {h},
                   hosts    |-> {hostContext[held[g]] : g \in others \cup {h}}]]
    /\ UNCHANGED <<tableVars, heapVars, held, frameVars, historyVars>>

\* The callback returned to the shim and the shim to its caller.
Return(t) ==
    /\ pc[t] = "idle"
    /\ call[t] # Null
    /\ call' = [call EXCEPT ![t] = Null]
    /\ UNCHANGED <<tableVars, heapVars, held, frameVars, historyVars>>

-----------------------------------------------------------------------------
\* What a thread inside the shim does next, with no choice of the client.
ConfigureStep(t) ==
    \/ AcquireLock(t)
    \/ CompareTable(t)
    \/ BeginWrite(t)
    \/ \E s \in Slots : WriteSlot(t, s)
    \/ PublishTable(t)
    \/ ReleaseLock(t)

CreateStep(t) ==
    \/ AllocateFails(t)
    \/ \E c \in Contexts : Allocate(t, c)
    \/ \E s \in Slots : CopySlot(t, s)
    \/ FinishCreate(t)

ReleaseStep(t) == Drop(t) \/ Free(t)

\* What the client may ask of the shim.
Request(t) ==
    \/ \E T \in Tables : Configure(t, T)
    \/ \E x \in HostContexts, h \in Handles : Create(t, x, h)
    \/ \E h, g \in Handles : Retain(t, h, g)
    \/ \E h \in Handles : Release(t, h)
    \/ \E s \in Operations, h \in Handles, others \in SUBSET Handles :
            Call(t, s, h, others)
    \/ Return(t)

Next == \E t \in Threads :
    ConfigureStep(t) \/ CreateStep(t) \/ ReleaseStep(t) \/ Request(t)

Spec == Init /\ [][Next]_vars

\* A thread inside configure, create or release is not stopped for ever.
FairSpec ==
    /\ Spec
    /\ \A t \in Threads : WF_vars(ConfigureStep(t))
    /\ \A t \in Threads : WF_vars(CreateStep(t))
    /\ \A t \in Threads : WF_vars(ReleaseStep(t))
-----------------------------------------------------------------------------
(* Properties *)

\* Threads between a successful test-and-set and the clear of the flag.
Holders == {t \in Threads : pc[t] \in {"locked", "write", "unlock"}}

\* The spin lock admits one configure at a time, and the flag is set exactly
\* while one is inside (provider.c:206-227).
LockExclusion ==
    /\ lockHeld <=> Holders # {}
    /\ \A t, u \in Holders : t = u

\* create reads the table without the lock while configure writes it under the
\* lock: no resource a client can reach, and no callback a call runs, may come
\* from a table that was half written (provider.c:220-225 and 239-255).
InstalledWhole ==
    /\ \A h \in Handles : held[h] # Null =>
          /\ callbacks \in Tables
          /\ installed[held[h]] = callbacks
          /\ \A s \in Slots : callbacks[s] # Null
    /\ \A t \in Threads : call[t] # Null =>
          call[t].callback = callbacks[call[t].slot]

\* However many configure calls race, they agree: all that returned OK brought
\* the installed table, and none that brought it was told BATCH_IN_USE
\* (provider.c:209-218).
TableAgreement ==
    /\ \A T \in accepted : configured /\ callbacks = T
    /\ \A T \in refused : configured /\ callbacks # T

\* Once published the table never changes again, so a reader that saw the flag
\* needs no lock (provider.c:210 and 239).
TableFrozen == [][configured => configured' /\ callbacks' = callbacks]_vars

\* The handles that own a reference to the record at c.
HandlesOn(c) == {h \in Handles : held[h] = c}

\* Threads building or destroying the record at c.
Builders(c)   == {t \in Threads : pc[t] = "copy" /\ ctx[t] = c}
Destroyers(c) == {t \in Threads : pc[t] \in {"drop", "free"} /\ ctx[t] = c}

\* The count of a record is the number of handles on it, plus the reference a
\* create still in the shim is about to hand out; the record is being destroyed
\* exactly when that is zero (provider.c:39-52 and 246).
ReferencesExact ==
    \A c \in Contexts :
        /\ references[c] = Cardinality(HandlesOn(c))
                             + (IF Builders(c) # {} THEN 1 ELSE 0)
        /\ (c \in allocated /\ references[c] = 0) <=> Destroyers(c) # {}

\* Whatever a handle, a running create or a running release points to is an
\* allocated record, no two threads build or destroy the same one, and no
\* handle reaches a record under construction or destruction.
NoDanglingContext ==
    /\ \A h \in Handles : held[h] # Null => held[h] \in allocated
    /\ \A t \in Threads : ctx[t] # Null =>
          /\ ctx[t] \in allocated
          /\ \A h \in Handles : held[h] # ctx[t]
          /\ \A u \in Threads : ctx[u] = ctx[t] => u = t

\* A callback runs only on host contexts that were lent to a provider and not
\* dropped, for as long as the call lasts (provider.c:71-161).
CallsSeeLiveHosts ==
    \A t \in Threads : call[t] # Null =>
        \A x \in call[t].hosts : x \in adopted /\ drops[x] = 0

\* The record that carries host context x, unless its drop has returned.
Carried(x) == \E c \in allocated :
    /\ hostContext[c] = x
    /\ \A t \in Destroyers(c) : pc[t] # "free"

\* The drop callback runs exactly once for each host context a provider took
\* over, when its record dies, and never for one create did not take
\* (provider.c:45-52 and 231-273).
DroppedExactlyOnce ==
    \A x \in HostContexts :
        drops[x] = IF x \in adopted /\ ~Carried(x) THEN 1 ELSE 0

\* The refinement mapping: who owns a host context, and where it is in its life.
OwnerOf == [h \in Handles |-> IF held[h] = Null THEN Null
                                                ELSE hostContext[held[h]]]

LifeOf == [x \in HostContexts |-> IF drops[x] > 0 THEN "dropped"
                                  ELSE IF x \in adopted THEN "rooted"
                                  ELSE "unused"]

HR == INSTANCE HostedResource WITH owner <- OwnerOf, life <- LifeOf

\* The shim implements the owned resource every binding promises, whatever
\* threads race in it (provider.c:39-52 and 231-273).
ImplementsHostedResource == HR!HRSpec

\* The spin lock is never kept: every other configure gets its chance.
LockReleased == []<>~lockHeld

\* The memory of a provider without references is given back.
RecordFreed ==
    \A c \in Contexts :
        (c \in allocated /\ references[c] = 0) ~> (c \notin allocated)
=============================================================================
