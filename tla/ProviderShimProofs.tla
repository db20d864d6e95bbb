------------------------- MODULE ProviderShimProofs -------------------------
(***************************************************************************)
(* Machine-checked proofs about ProviderShim, for any number of threads,   *)
(* addresses, handles, host contexts, callback members and tables.         *)
(***************************************************************************)
EXTENDS ProviderShim, FiniteSetTheorems, TLAPS

\* Counting one more occurrence keeps a function of counters one.
LEMMA Incremented ==
    ASSUME NEW S, NEW n \in [S -> Nat], NEW x
    PROVE  [n EXCEPT ![x] = @ + 1] \in [S -> Nat]
<1> DEFINE m == [n EXCEPT ![x] = @ + 1]
<1>1. \A y \in S : m[y] = IF y = x THEN n[y] + 1 ELSE n[y]
    OBVIOUS
<1>2. \A y \in S : m[y] \in Nat
    BY <1>1
<1>3. m = [y \in S |-> m[y]]
    BY Zenon
<1> QED
    BY <1>2, <1>3

LEMMA FrameTypeStep ==
    FrameTypeOK /\ [Next]_vars => FrameTypeOK'
<1> SUFFICES ASSUME FrameTypeOK, [Next]_vars PROVE FrameTypeOK'
    OBVIOUS
<1> USE ShimAssumption, NullAssumption
        DEF FrameTypeOK, TableTypeOK, HeapTypeOK, ThreadTypeOK, HistoryTypeOK,
            FrameInUse, Goto, tableVars, heapVars, frameVars, historyVars
<1>1. ASSUME NEW t \in Threads, NEW T \in Tables,
             Configure(t, T)
      PROVE  FrameTypeOK'
    BY <1>1 DEF Configure
<1>2. ASSUME NEW t \in Threads,
             AcquireLock(t)
      PROVE  FrameTypeOK'
    BY <1>2 DEF AcquireLock
<1>3. ASSUME NEW t \in Threads,
             CompareTable(t)
      PROVE  FrameTypeOK'
    BY <1>3 DEF CompareTable
<1>4. ASSUME NEW t \in Threads,
             BeginWrite(t)
      PROVE  FrameTypeOK'
    BY <1>4 DEF BeginWrite
<1>5. ASSUME NEW t \in Threads, NEW s \in Slots,
             WriteSlot(t, s)
      PROVE  FrameTypeOK'
    BY <1>5 DEF WriteSlot
<1>6. ASSUME NEW t \in Threads,
             PublishTable(t)
      PROVE  FrameTypeOK'
    BY <1>6 DEF PublishTable
<1>7. ASSUME NEW t \in Threads,
             ReleaseLock(t)
      PROVE  FrameTypeOK'
    BY <1>7 DEF ReleaseLock
<1>8. ASSUME NEW t \in Threads, NEW x \in HostContexts,
                NEW h \in Handles,
             Create(t, x, h)
      PROVE  FrameTypeOK'
    BY <1>8 DEF Create
<1>9. ASSUME NEW t \in Threads,
             AllocateFails(t)
      PROVE  FrameTypeOK'
    BY <1>9 DEF AllocateFails
<1>10. ASSUME NEW t \in Threads, NEW c \in Contexts,
             Allocate(t, c)
      PROVE  FrameTypeOK'
    BY <1>10 DEF Allocate, EmptyTable
<1>11. ASSUME NEW t \in Threads, NEW s \in Slots,
             CopySlot(t, s)
      PROVE  FrameTypeOK'
    BY <1>11 DEF CopySlot
<1>12. ASSUME NEW t \in Threads,
             FinishCreate(t)
      PROVE  FrameTypeOK'
    BY <1>12 DEF FinishCreate
<1>13. ASSUME NEW t \in Threads, NEW h \in Handles, NEW g \in Handles,
             Retain(t, h, g)
      PROVE  FrameTypeOK'
    BY <1>13 DEF Retain
<1>14. ASSUME NEW t \in Threads, NEW h \in Handles,
             Release(t, h)
      PROVE  FrameTypeOK'
    BY <1>14 DEF Release
<1>15. ASSUME NEW t \in Threads,
             Drop(t)
      PROVE  FrameTypeOK'
  <2>1. drops' = [drops EXCEPT ![hostContext[ctx[t]]] = @ + 1]
    BY <1>15 DEF Drop
  <2>2. drops' \in [HostContexts -> Nat]
    BY <2>1, Incremented
  <2>3. /\ UNCHANGED <<tableVars, heapVars, held, table, status, ctx, host,
                       out, todo, call, adopted, accepted, refused>>
        /\ pc[t] = "drop"
        /\ pc' = [pc EXCEPT ![t] = "free"]
    BY <1>15 DEF Drop
  <2> QED
    BY <2>2, <2>3
<1>16. ASSUME NEW t \in Threads,
             Free(t)
      PROVE  FrameTypeOK'
    BY <1>16 DEF Free, EmptyTable
<1>17. ASSUME NEW t \in Threads, NEW s \in Operations,
                NEW h \in Handles, NEW others \in SUBSET Handles,
             Call(t, s, h, others)
      PROVE  FrameTypeOK'
  <2> DEFINE new == [slot     |-> s,
                     callback |-> installed[held[h]][s],
                     handles  |-> others \cup {h},
                     hosts    |-> {hostContext[held[g]] : g \in others \cup {h}}]
  <2>1. held[h] \in Contexts /\ \A g \in others : held[g] \in Contexts
    BY <1>17 DEF Call
  <2>2. installed[held[h]][s] \in Functions \cup {Null}
    BY <2>1 DEF Operations
  <2>3. {hostContext[held[g]] : g \in others \cup {h}}
          \in SUBSET (HostContexts \cup {Null})
    BY <2>1
  <2>4. new \in CallRecords
    BY <2>2, <2>3 DEF CallRecords
  <2>5. call' = [call EXCEPT ![t] = new]
    BY <1>17 DEF Call
  <2>6. call' \in [Threads -> CallRecords \cup {Null}]
    BY <2>4, <2>5
  <2>7. UNCHANGED <<tableVars, heapVars, held, frameVars, historyVars>>
    BY <1>17 DEF Call
  <2> QED
    BY <2>6, <2>7
<1>18. ASSUME NEW t \in Threads,
             Return(t)
      PROVE  FrameTypeOK'
    BY <1>18 DEF Return
<1>19. CASE UNCHANGED vars
    BY <1>19 DEF vars
<1> QED
    BY <1>1, <1>2, <1>3, <1>4, <1>5, <1>6, <1>7, <1>8, <1>9, <1>10, <1>11, <1>12,
       <1>13, <1>14, <1>15, <1>16, <1>17, <1>18, <1>19
    DEF Next, ConfigureStep, CreateStep, ReleaseStep, Request

LEMMA FrameTypeInvariant == Spec => []FrameTypeOK
<1>1. ASSUME Init PROVE FrameTypeOK
  <2> USE <1>1 DEF Init, EmptyTable
  <2>1. TableTypeOK
    BY DEF TableTypeOK
  <2>2. HeapTypeOK
    BY DEF HeapTypeOK
  <2>3. ThreadTypeOK
    BY DEF ThreadTypeOK
  <2>4. call \in [Threads -> CallRecords \cup {Null}]
    OBVIOUS
  <2>5. HistoryTypeOK
    BY DEF HistoryTypeOK
  <2>6. FrameInUse
    BY DEF FrameInUse
  <2> QED
    BY <2>1, <2>2, <2>3, <2>4, <2>5, <2>6 DEF FrameTypeOK
<1> QED
    BY <1>1, FrameTypeStep, PTL DEF Spec

-----------------------------------------------------------------------------
(* The lock and the callback table *)

Complete(T) == T \in Tables /\ \A s \in Slots : T[s] # Null

\* What makes LockExclusion, TableAgreement and TableFrozen inductive: how far
\* the one writer is, and what each status that is about to be returned says.
TableInv ==
    /\ LockExclusion
    /\ TableAgreement
    /\ configured => Complete(callbacks)
    /\ \A t \in Threads : table[t] # Null => Complete(table[t])
    /\ \A t \in Threads : pc[t] = "write" =>
          /\ ~configured
          /\ \A s \in Slots \ todo[t] : callbacks[s] = table[t][s]
    /\ \A t \in Threads : pc[t] = "unlock" =>
          configured /\ (status[t] = "OK" <=> callbacks = table[t])

LEMMA TableStep ==
    FrameTypeOK /\ TableInv /\ [Next]_vars => TableInv'
<1> SUFFICES ASSUME FrameTypeOK, TableInv, [Next]_vars PROVE TableInv'
    OBVIOUS
<1> USE ShimAssumption, NullAssumption
        DEF FrameTypeOK, TableTypeOK, ThreadTypeOK, HistoryTypeOK, FrameInUse,
            Goto, tableVars, heapVars, frameVars, historyVars, TableInv,
            LockExclusion, TableAgreement, Holders, Complete
<1>1. ASSUME NEW t \in Threads, NEW T \in Tables,
             Configure(t, T)
      PROVE  TableInv'
    BY <1>1 DEF Configure
<1>2. ASSUME NEW t \in Threads,
             AcquireLock(t)
      PROVE  TableInv'
    BY <1>2 DEF AcquireLock
<1>3. ASSUME NEW t \in Threads,
             CompareTable(t)
      PROVE  TableInv'
    BY <1>3 DEF CompareTable
<1>4. ASSUME NEW t \in Threads,
             BeginWrite(t)
      PROVE  TableInv'
    BY <1>4 DEF BeginWrite
<1>5. ASSUME NEW t \in Threads, NEW s \in Slots,
             WriteSlot(t, s)
      PROVE  TableInv'
    BY <1>5 DEF WriteSlot
<1>6. ASSUME NEW t \in Threads,
             PublishTable(t)
      PROVE  TableInv'
    BY <1>6 DEF PublishTable
<1>7. ASSUME NEW t \in Threads,
             ReleaseLock(t)
      PROVE  TableInv'
    BY <1>7 DEF ReleaseLock
<1>8. ASSUME NEW t \in Threads, NEW x \in HostContexts,
                NEW h \in Handles,
             Create(t, x, h)
      PROVE  TableInv'
    BY <1>8 DEF Create
<1>9. ASSUME NEW t \in Threads,
             AllocateFails(t)
      PROVE  TableInv'
    BY <1>9 DEF AllocateFails
<1>10. ASSUME NEW t \in Threads, NEW c \in Contexts,
             Allocate(t, c)
      PROVE  TableInv'
    BY <1>10 DEF Allocate
<1>11. ASSUME NEW t \in Threads, NEW s \in Slots,
             CopySlot(t, s)
      PROVE  TableInv'
    BY <1>11 DEF CopySlot
<1>12. ASSUME NEW t \in Threads,
             FinishCreate(t)
      PROVE  TableInv'
    BY <1>12 DEF FinishCreate
<1>13. ASSUME NEW t \in Threads, NEW h \in Handles, NEW g \in Handles,
             Retain(t, h, g)
      PROVE  TableInv'
    BY <1>13 DEF Retain
<1>14. ASSUME NEW t \in Threads, NEW h \in Handles,
             Release(t, h)
      PROVE  TableInv'
    BY <1>14 DEF Release
<1>15. ASSUME NEW t \in Threads,
             Drop(t)
      PROVE  TableInv'
    BY <1>15 DEF Drop
<1>16. ASSUME NEW t \in Threads,
             Free(t)
      PROVE  TableInv'
    BY <1>16 DEF Free
<1>17. ASSUME NEW t \in Threads, NEW s \in Operations,
                NEW h \in Handles, NEW others \in SUBSET Handles,
             Call(t, s, h, others)
      PROVE  TableInv'
    BY <1>17 DEF Call
<1>18. ASSUME NEW t \in Threads,
             Return(t)
      PROVE  TableInv'
    BY <1>18 DEF Return
<1>19. CASE UNCHANGED vars
    BY <1>19 DEF vars
<1> QED
    BY <1>1, <1>2, <1>3, <1>4, <1>5, <1>6, <1>7, <1>8, <1>9, <1>10, <1>11, <1>12,
       <1>13, <1>14, <1>15, <1>16, <1>17, <1>18, <1>19
    DEF Next, ConfigureStep, CreateStep, ReleaseStep, Request

LEMMA TableInvariant == Spec => []TableInv
<1>1. Init => TableInv
    BY NullAssumption DEF Init, TableInv, LockExclusion, TableAgreement, Holders
<1> QED
    BY <1>1, TableStep, FrameTypeInvariant, PTL DEF Spec


\* One configure at a time is inside the spin lock.
THEOREM LockIsExclusive == Spec => []LockExclusion
    BY TableInvariant, PTL DEF TableInv

\* Every configure that returned OK brought the installed table.
THEOREM TablesAgree == Spec => []TableAgreement
    BY TableInvariant, PTL DEF TableInv

LEMMA Frozen ==
    ASSUME FrameTypeOK, TableInv, [Next]_vars, configured
    PROVE  configured' /\ callbacks' = callbacks
<1> USE DEF Goto, tableVars, heapVars, frameVars, historyVars
<1>1. ASSUME NEW t \in Threads, ConfigureStep(t)
      PROVE  configured' /\ callbacks' = callbacks
  BY <1>1 DEF ConfigureStep, AcquireLock, CompareTable, BeginWrite, WriteSlot,
              PublishTable, ReleaseLock, TableInv
<1>2. ASSUME NEW t \in Threads, CreateStep(t)
      PROVE  configured' /\ callbacks' = callbacks
  BY <1>2 DEF CreateStep, AllocateFails, Allocate, CopySlot, FinishCreate
<1>3. ASSUME NEW t \in Threads, ReleaseStep(t)
      PROVE  configured' /\ callbacks' = callbacks
  BY <1>3 DEF ReleaseStep, Drop, Free
<1>4. ASSUME NEW t \in Threads, Request(t)
      PROVE  configured' /\ callbacks' = callbacks
  BY <1>4 DEF Request, Configure, Create, Retain, Release, Call, Return
<1> QED
  BY <1>1, <1>2, <1>3, <1>4 DEF Next, vars

\* A published table never changes.
THEOREM TableIsFrozen == Spec => TableFrozen
<1>1. FrameTypeOK /\ TableInv /\ [Next]_vars
        => [configured => configured' /\ callbacks' = callbacks]_vars
  BY Frozen
<1> QED
  BY <1>1, FrameTypeInvariant, TableInvariant, PTL DEF Spec, TableFrozen

-----------------------------------------------------------------------------
(* The records and the references to them *)

LEMMA HandleCount ==
    ASSUME FrameTypeOK, NEW c \in Contexts
    PROVE  /\ IsFiniteSet(HandlesOn(c))
           /\ Cardinality(HandlesOn(c)) \in Nat
           /\ Cardinality(HandlesOn(c)) = 0 <=> \A h \in Handles : held[h] # c
<1>1. IsFiniteSet(HandlesOn(c))
    BY ShimAssumption, FS_Subset DEF HandlesOn
<1> QED
    BY <1>1, FS_CardinalityType, FS_EmptySet DEF HandlesOn

\* Opening a vacant handle on c adds one to the handles of c only.
LEMMA HandleOpened ==
    ASSUME FrameTypeOK, NEW g \in Handles, NEW c,
           held' = [held EXCEPT ![g] = c],
           NEW d \in Contexts, held[g] # d
    PROVE  Cardinality(HandlesOn(d)') =
               Cardinality(HandlesOn(d)) + (IF d = c THEN 1 ELSE 0)
<1>1. /\ IsFiniteSet(HandlesOn(d)) /\ Cardinality(HandlesOn(d)) \in Nat
      /\ g \notin HandlesOn(d)
    BY HandleCount DEF HandlesOn
<1>2. CASE d = c
  <2>1. HandlesOn(d)' = HandlesOn(d) \cup {g}
    BY <1>2 DEF HandlesOn, FrameTypeOK, HeapTypeOK
  <2> QED
    BY <1>1, <1>2, <2>1, FS_AddElement
<1>3. CASE d # c
  <2>1. HandlesOn(d)' = HandlesOn(d)
    BY <1>3 DEF HandlesOn, FrameTypeOK, HeapTypeOK
  <2> QED
    BY <1>1, <1>3, <2>1
<1> QED
    BY <1>2, <1>3

\* Closing an open handle takes one from the handles of its record only.
LEMMA HandleClosed ==
    ASSUME FrameTypeOK, NEW g \in Handles, held' = [held EXCEPT ![g] = Null],
           NEW d \in Contexts
    PROVE  Cardinality(HandlesOn(d)') =
               Cardinality(HandlesOn(d)) - (IF d = held[g] THEN 1 ELSE 0)
<1>1. IsFiniteSet(HandlesOn(d)) /\ Cardinality(HandlesOn(d)) \in Nat
    BY HandleCount
<1>2. CASE held[g] = d
  <2>1. HandlesOn(d)' = HandlesOn(d) \ {g} /\ g \in HandlesOn(d)
    BY <1>2, NullAssumption DEF HandlesOn, FrameTypeOK, HeapTypeOK
  <2> QED
    BY <1>1, <1>2, <2>1, FS_RemoveElement
<1>3. CASE held[g] # d
  <2>1. HandlesOn(d)' = HandlesOn(d)
    BY <1>3, NullAssumption DEF HandlesOn, FrameTypeOK, HeapTypeOK
  <2> QED
    BY <1>1, <1>3, <2>1
<1> QED
    BY <1>2, <1>3

\* What makes ReferencesExact and NoDanglingContext inductive: the handle a
\* create will fill is vacant and reserved for it.
HeapInv ==
    /\ references \in [Contexts -> Nat]
    /\ ReferencesExact
    /\ NoDanglingContext
    /\ \A t \in Threads : out[t] # Null =>
          /\ held[out[t]] = Null
          /\ \A u \in Threads : out[u] = out[t] => u = t

\* Steps that touch no record, no handle and no reference.
LEMMA HeapFrame ==
    ASSUME FrameTypeOK, HeapInv, NEW t \in Threads,
           UNCHANGED <<allocated, references, held, ctx>>,
           \A u \in Threads \ {t} : pc'[u] = pc[u] /\ out'[u] = out[u],
           pc[t] \notin {"copy", "drop", "free"},
           pc'[t] \notin {"copy", "drop", "free"},
           out'[t] \in {out[t], Null} \/ (Vacant(out'[t]) /\ out[t] = Null)
    PROVE  HeapInv'
<1>1. \A c \in Contexts : /\ HandlesOn(c)' = HandlesOn(c)
                          /\ Builders(c)' = Builders(c)
                          /\ Destroyers(c)' = Destroyers(c)
    BY DEF HandlesOn, Builders, Destroyers
<1>2. ReferencesExact'
    BY <1>1 DEF HeapInv, ReferencesExact
<1>3. NoDanglingContext'
    BY DEF HeapInv, NoDanglingContext
<1> QED
    BY <1>2, <1>3 DEF HeapInv, Vacant, FrameTypeOK, ThreadTypeOK

LEMMA HeapUnchanged ==
    ASSUME HeapInv, UNCHANGED <<allocated, references, held, pc, ctx, out>>
    PROVE  HeapInv'
<1>1. \A c : /\ HandlesOn(c)' = HandlesOn(c)
             /\ Builders(c)' = Builders(c)
             /\ Destroyers(c)' = Destroyers(c)
    BY DEF HandlesOn, Builders, Destroyers
<1> QED
    BY <1>1 DEF HeapInv, ReferencesExact, NoDanglingContext

LEMMA HeapStep ==
    FrameTypeOK /\ HeapInv /\ [Next]_vars => HeapInv'
<1> SUFFICES ASSUME FrameTypeOK, HeapInv, [Next]_vars PROVE HeapInv'
    OBVIOUS
<1> USE DEF tableVars, heapVars, frameVars, historyVars
<1>1. ASSUME NEW t \in Threads, NEW T \in Tables,
             Configure(t, T)
      PROVE  HeapInv'
  <2>1. UNCHANGED <<allocated, references, held, ctx, out>>
    BY <1>1 DEF Configure
  <2>3. \A u \in Threads \ {t} : pc'[u] = pc[u]
    BY <1>1 DEF Configure, Goto, FrameTypeOK, ThreadTypeOK
  <2>4. pc[t] = "idle" /\ pc'[t] = "spin"
    BY <1>1 DEF Configure, Goto, FrameTypeOK, ThreadTypeOK
  <2> QED
    BY <2>1, <2>3, <2>4, HeapFrame
<1>2. ASSUME NEW t \in Threads,
             AcquireLock(t)
      PROVE  HeapInv'
  <2>1. UNCHANGED <<allocated, references, held, ctx, out>>
    BY <1>2 DEF AcquireLock
  <2>3. \A u \in Threads \ {t} : pc'[u] = pc[u]
    BY <1>2 DEF AcquireLock, Goto, FrameTypeOK, ThreadTypeOK
  <2>4. pc[t] = "spin" /\ pc'[t] = "locked"
    BY <1>2 DEF AcquireLock, Goto, FrameTypeOK, ThreadTypeOK
  <2> QED
    BY <2>1, <2>3, <2>4, HeapFrame
<1>3. ASSUME NEW t \in Threads,
             CompareTable(t)
      PROVE  HeapInv'
  <2>1. UNCHANGED <<allocated, references, held, ctx, out>>
    BY <1>3 DEF CompareTable
  <2>3. \A u \in Threads \ {t} : pc'[u] = pc[u]
    BY <1>3 DEF CompareTable, Goto, FrameTypeOK, ThreadTypeOK
  <2>4. pc[t] = "locked" /\ pc'[t] = "unlock"
    BY <1>3 DEF CompareTable, Goto, FrameTypeOK, ThreadTypeOK
  <2> QED
    BY <2>1, <2>3, <2>4, HeapFrame
<1>4. ASSUME NEW t \in Threads,
             BeginWrite(t)
      PROVE  HeapInv'
  <2>1. UNCHANGED <<allocated, references, held, ctx, out>>
    BY <1>4 DEF BeginWrite
  <2>3. \A u \in Threads \ {t} : pc'[u] = pc[u]
    BY <1>4 DEF BeginWrite, Goto, FrameTypeOK, ThreadTypeOK
  <2>4. pc[t] = "locked" /\ pc'[t] = "write"
    BY <1>4 DEF BeginWrite, Goto, FrameTypeOK, ThreadTypeOK
  <2> QED
    BY <2>1, <2>3, <2>4, HeapFrame
<1>5. ASSUME NEW t \in Threads, NEW s \in Slots,
             WriteSlot(t, s)
      PROVE  HeapInv'
    BY <1>5, HeapUnchanged DEF WriteSlot
<1>6. ASSUME NEW t \in Threads,
             PublishTable(t)
      PROVE  HeapInv'
  <2>1. UNCHANGED <<allocated, references, held, ctx, out>>
    BY <1>6 DEF PublishTable
  <2>3. \A u \in Threads \ {t} : pc'[u] = pc[u]
    BY <1>6 DEF PublishTable, Goto, FrameTypeOK, ThreadTypeOK
  <2>4. pc[t] = "write" /\ pc'[t] = "unlock"
    BY <1>6 DEF PublishTable, Goto, FrameTypeOK, ThreadTypeOK
  <2> QED
    BY <2>1, <2>3, <2>4, HeapFrame
<1>7. ASSUME NEW t \in Threads,
             ReleaseLock(t)
      PROVE  HeapInv'
  <2>1. UNCHANGED <<allocated, references, held, ctx, out>>
    BY <1>7 DEF ReleaseLock
  <2>3. \A u \in Threads \ {t} : pc'[u] = pc[u]
    BY <1>7 DEF ReleaseLock, Goto, FrameTypeOK, ThreadTypeOK
  <2>4. pc[t] = "unlock" /\ pc'[t] = "idle"
    BY <1>7 DEF ReleaseLock, Goto, FrameTypeOK, ThreadTypeOK
  <2> QED
    BY <2>1, <2>3, <2>4, HeapFrame
<1>8. ASSUME NEW t \in Threads, NEW x \in HostContexts,
                NEW h \in Handles,
             Create(t, x, h)
      PROVE  HeapInv'
  <2>1. UNCHANGED <<allocated, references, held, ctx>>
    BY <1>8 DEF Create
  <2>2. out'[t] = h /\ Vacant(h) /\ out[t] = Null /\ \A u \in Threads \ {t} : out'[u] = out[u]
    BY <1>8 DEF Create, Goto, FrameTypeOK, ThreadTypeOK, FrameInUse
  <2>3. \A u \in Threads \ {t} : pc'[u] = pc[u]
    BY <1>8 DEF Create, Goto, FrameTypeOK, ThreadTypeOK
  <2>4. pc[t] = "idle" /\ pc'[t] = "alloc"
    BY <1>8 DEF Create, Goto, FrameTypeOK, ThreadTypeOK
  <2> QED
    BY <2>1, <2>2, <2>3, <2>4, HeapFrame
<1>9. ASSUME NEW t \in Threads,
             AllocateFails(t)
      PROVE  HeapInv'
  <2>1. UNCHANGED <<allocated, references, held, ctx>>
    BY <1>9 DEF AllocateFails
  <2>2. out'[t] = Null /\ \A u \in Threads \ {t} : out'[u] = out[u]
    BY <1>9 DEF AllocateFails, FrameTypeOK, ThreadTypeOK
  <2>3. \A u \in Threads \ {t} : pc'[u] = pc[u]
    BY <1>9 DEF AllocateFails, Goto, FrameTypeOK, ThreadTypeOK
  <2>4. pc[t] = "alloc" /\ pc'[t] = "idle"
    BY <1>9 DEF AllocateFails, Goto, FrameTypeOK, ThreadTypeOK
  <2> QED
    BY <2>1, <2>2, <2>3, <2>4, HeapFrame
<1>10. ASSUME NEW t \in Threads, NEW c \in Contexts,
             Allocate(t, c)
      PROVE  HeapInv'
  <2> USE <1>10 DEF Allocate, Goto
  <2>1. /\ pc[t] = "alloc" /\ pc'[t] = "copy" /\ ctx'[t] = c
        /\ \A u \in Threads \ {t} : pc'[u] = pc[u] /\ ctx'[u] = ctx[u]
    BY DEF FrameTypeOK, ThreadTypeOK
  <2>2. /\ \A u \in Threads : ctx[u] # c
        /\ \A h \in Handles : held[h] # c
    BY NullAssumption DEF HeapInv, NoDanglingContext
  <2>3. ReferencesExact' /\ references' \in [Contexts -> Nat]
    <3>1. \A d \in Contexts : HandlesOn(d)' = HandlesOn(d)
      BY DEF HandlesOn
    <3>2. \A d \in Contexts : Destroyers(d)' = Destroyers(d)
      BY <2>1 DEF Destroyers
    <3>3. \A d \in Contexts \ {c} : Builders(d)' = Builders(d)
      BY <2>1 DEF Builders
    <3>4. Builders(c)' = {t}
      BY <2>1, <2>2 DEF Builders
    <3>5. Destroyers(c) = {}
      BY <2>2 DEF Destroyers
    <3>6. Cardinality(HandlesOn(c)) = 0
      BY <2>2, HandleCount
    <3>7. /\ references' = [references EXCEPT ![c] = 1]
          /\ allocated' = allocated \cup {c}
      OBVIOUS
    <3> QED
      BY ONLY <3>1, <3>2, <3>3, <3>4, <3>5, <3>6, <3>7, HeapInv
      DEF HeapInv, ReferencesExact
  <2>4. NoDanglingContext'
    BY DEF HeapInv, NoDanglingContext, FrameTypeOK, ThreadTypeOK
  <2> QED
    BY <2>3, <2>4 DEF HeapInv
<1>11. ASSUME NEW t \in Threads, NEW s \in Slots,
             CopySlot(t, s)
      PROVE  HeapInv'
    BY <1>11, HeapUnchanged DEF CopySlot
<1>12. ASSUME NEW t \in Threads,
             FinishCreate(t)
      PROVE  HeapInv'
  <2> USE <1>12 DEF FinishCreate, Goto
  <2>1. PICK c \in Contexts : c = ctx[t]
    BY DEF FrameTypeOK, ThreadTypeOK, FrameInUse
  <2>8. out[t] \in Handles /\ held[out[t]] = Null
    BY DEF FrameTypeOK, ThreadTypeOK, FrameInUse, HeapInv
  <2>2. /\ \A d \in Contexts : Destroyers(d)' = Destroyers(d)
        /\ \A d \in Contexts \ {c} : Builders(d)' = Builders(d)
        /\ Builders(c) = {t} /\ Builders(c)' = {}
    <3>1. /\ pc[t] = "copy" /\ pc'[t] = "idle" /\ ctx'[t] = Null
          /\ \A u \in Threads \ {t} : pc'[u] = pc[u] /\ ctx'[u] = ctx[u]
      BY DEF FrameTypeOK, ThreadTypeOK
    <3>2. \A u \in Threads \ {t} : ctx[u] # c
      BY <2>1, NullAssumption DEF HeapInv, NoDanglingContext
    <3> QED
      <4>1. \A d \in Contexts : Destroyers(d)' = Destroyers(d)
        BY <3>1 DEF Destroyers
      <4>2. \A d \in Contexts \ {c} : Builders(d)' = Builders(d)
        BY <2>1, <3>1 DEF Builders
      <4>3. Builders(c) = {t}
        BY <2>1, <3>1, <3>2 DEF Builders
      <4>4. Builders(c)' = {}
        BY <3>1, <3>2 DEF Builders
      <4> QED
        BY <4>1, <4>2, <4>3, <4>4
  <2>3. held \in [Handles -> Contexts \cup {Null}]
    BY DEF FrameTypeOK, HeapTypeOK
  <2>4. \A d \in Contexts : Cardinality(HandlesOn(d)') =
                  Cardinality(HandlesOn(d)) + (IF d = c THEN 1 ELSE 0)
    <3> TAKE d \in Contexts
    <3>1. held[out[t]] # d /\ held' = [held EXCEPT ![out[t]] = c]
      BY <2>1, <2>8, NullAssumption
    <3> QED
      BY ONLY FrameTypeOK, <2>8, <3>1, HandleOpened
  <2>5. ReferencesExact' /\ references' \in [Contexts -> Nat]
    <3>1. UNCHANGED <<references, allocated>>
      BY DEF heapVars
    <3>2. \A d \in Contexts : Cardinality(HandlesOn(d)) \in Nat
      BY HandleCount
    <3> QED
      BY ONLY <2>1, <2>2, <2>4, <3>1, <3>2, HeapInv DEF HeapInv, ReferencesExact
  <2>6. NoDanglingContext'
    BY <2>1, <2>8 DEF HeapInv, NoDanglingContext, FrameTypeOK, ThreadTypeOK,
       HeapTypeOK
  <2> QED
    BY <2>8, <2>3, <2>5, <2>6 DEF HeapInv, FrameTypeOK, ThreadTypeOK
<1>13. ASSUME NEW t \in Threads, NEW h \in Handles, NEW g \in Handles,
             Retain(t, h, g)
      PROVE  HeapInv'
  <2> USE <1>13 DEF Retain, frameVars
  <2>1. PICK c \in Contexts : c = held[h] /\ c \in allocated /\ held[g] = Null
    BY DEF FrameTypeOK, HeapTypeOK, HeapInv, NoDanglingContext, Vacant
  <2>2. \A d \in Contexts : Destroyers(d)' = Destroyers(d)
                            /\ Builders(d)' = Builders(d)
    BY DEF Builders, Destroyers
  <2>3. Destroyers(c) = {} /\ Builders(c) = {}
    BY <2>1 DEF Builders, Destroyers, HeapInv, NoDanglingContext, FrameTypeOK,
       HeapTypeOK
  <2>4. held \in [Handles -> Contexts \cup {Null}]
    BY DEF FrameTypeOK, HeapTypeOK
  <2>5. \A d \in Contexts : Cardinality(HandlesOn(d)') =
                  Cardinality(HandlesOn(d)) + (IF d = c THEN 1 ELSE 0)
    <3> TAKE d \in Contexts
    <3>1. held[g] # d /\ held' = [held EXCEPT ![g] = c]
      BY <2>1, NullAssumption
    <3> QED
      BY ONLY FrameTypeOK, <2>1, <3>1, HandleOpened
  <2>6. ReferencesExact' /\ references' \in [Contexts -> Nat]
    <3>1. \A d \in Contexts : Cardinality(HandlesOn(d)) \in Nat
      BY HandleCount
    <3>2. references[c] # 0
      BY <2>1, <2>3 DEF HeapInv, ReferencesExact
    <3>3. references' = [references EXCEPT ![c] = @ + 1] /\ allocated' = allocated
      BY <2>1
    <3> QED
      BY ONLY <2>1, <2>2, <2>3, <2>5, <3>1, <3>2, <3>3, HeapInv
      DEF HeapInv, ReferencesExact
  <2>7. NoDanglingContext'
    BY <2>1, <2>4 DEF HeapInv, NoDanglingContext
  <2> QED
    BY <2>4, <2>6, <2>7 DEF HeapInv, Vacant
<1>14. ASSUME NEW t \in Threads, NEW h \in Handles,
             Release(t, h)
      PROVE  HeapInv'
  <2> USE <1>14 DEF Release
  <2>1. PICK c \in Contexts : c = held[h] /\ c \in allocated
    BY DEF FrameTypeOK, HeapTypeOK, HeapInv, NoDanglingContext
  <2>2. held \in [Handles -> Contexts \cup {Null}]
    BY DEF FrameTypeOK, HeapTypeOK
  <2>3. /\ Cardinality(HandlesOn(c)') = Cardinality(HandlesOn(c)) - 1
        /\ \A d \in Contexts \ {c} :
              Cardinality(HandlesOn(d)') = Cardinality(HandlesOn(d))
    <3>1. \A d \in Contexts : Cardinality(HandlesOn(d)') =
              Cardinality(HandlesOn(d)) - (IF d = c THEN 1 ELSE 0)
      <4> TAKE d \in Contexts
      <4>1. held' = [held EXCEPT ![h] = Null]
        OBVIOUS
      <4> QED
        BY ONLY FrameTypeOK, <2>1, <4>1, HandleClosed
    <3>2. \A d \in Contexts : Cardinality(HandlesOn(d)) \in Nat
      BY HandleCount
    <3> QED
      BY ONLY <3>1, <3>2
  <2>4. Destroyers(c) = {} /\ Builders(c) = {}
    BY <2>1 DEF Builders, Destroyers, HeapInv, NoDanglingContext, FrameTypeOK,
       HeapTypeOK
  <2>5. references[c] = Cardinality(HandlesOn(c)) /\ references[c] \in Nat
    BY <2>1, <2>4, HandleCount DEF HeapInv, ReferencesExact
  <2>6. /\ \A d \in Contexts : Builders(d)' = Builders(d)
        /\ \A d \in Contexts \ {c} : Destroyers(d)' = Destroyers(d)
        /\ Destroyers(c)' = IF references[c] = 1 THEN {t} ELSE {}
    <3>1. /\ pc[t] = "idle" /\ ctx[t] = Null
          /\ pc'[t] = IF references[c] = 1 THEN "drop" ELSE "idle"
          /\ ctx'[t] = IF references[c] = 1 THEN c ELSE Null
          /\ \A u \in Threads \ {t} : pc'[u] = pc[u] /\ ctx'[u] = ctx[u]
      BY <2>1 DEF FrameTypeOK, ThreadTypeOK, FrameInUse
    <3>2. \A d \in Contexts : Builders(d)' = Builders(d)
      BY <3>1 DEF Builders
    <3>3. \A d \in Contexts \ {c} : Destroyers(d)' = Destroyers(d)
      BY <3>1 DEF Destroyers
    <3>4. Destroyers(c)' = IF references[c] = 1 THEN {t} ELSE {}
      <4>1. \A u \in Threads : ~(pc[u] \in {"drop", "free"} /\ ctx[u] = c)
        BY <2>4 DEF Destroyers
      <4>2. \A u \in Threads : pc'[u] \in {"drop", "free"} /\ ctx'[u] = c
                                 <=> u = t /\ references[c] = 1
        BY <3>1, <4>1
      <4> QED
        BY <4>2 DEF Destroyers
    <3> QED
      BY <3>2, <3>3, <3>4
  <2>7. references[c] > 0
    BY <2>1, <2>5, HandleCount
  <2>8. ReferencesExact' /\ references' \in [Contexts -> Nat]
    <3>1. \A d \in Contexts : Cardinality(HandlesOn(d)) \in Nat
      BY HandleCount
    <3>2. references' = [references EXCEPT ![c] = @ - 1] /\ allocated' = allocated
      BY <2>1
    <3>3. references[c] - 1 \in Nat
      BY ONLY <2>5, <2>7
    <3>4. references' \in [Contexts -> Nat]
      BY ONLY <3>2, <3>3, HeapInv DEF HeapInv
    <3>5. /\ references'[c] = references[c] - 1
          /\ \A d \in Contexts \ {c} : references'[d] = references[d]
      BY ONLY <3>2, HeapInv DEF HeapInv
    <3>6. ASSUME NEW d \in Contexts, d # c
          PROVE  /\ references'[d] = Cardinality(HandlesOn(d)')
                                       + (IF Builders(d)' # {} THEN 1 ELSE 0)
                 /\ (d \in allocated' /\ references'[d] = 0)
                      <=> Destroyers(d)' # {}
      BY ONLY <2>3, <2>6, <3>2, <3>5, <3>6, HeapInv DEF HeapInv, ReferencesExact
    <3>7. /\ references'[c] = Cardinality(HandlesOn(c)')
                                + (IF Builders(c)' # {} THEN 1 ELSE 0)
          /\ (c \in allocated' /\ references'[c] = 0) <=> Destroyers(c)' # {}
      BY ONLY <2>1, <2>3, <2>4, <2>5, <2>6, <3>2, <3>3, <3>5
    <3> QED
      BY ONLY <3>4, <3>6, <3>7 DEF ReferencesExact
  <2>10. references[c] = 1 => \A k \in Handles : held'[k] # c
    <3>1. IsFiniteSet(HandlesOn(c)')
      BY <2>1, ShimAssumption, FS_Subset DEF HandlesOn
    <3>2. references[c] = 1 => HandlesOn(c)' = {}
      <4>1. references[c] = 1 => Cardinality(HandlesOn(c)') = 0
        BY ONLY <2>1, <2>3, <2>5
      <4> QED
        BY <3>1, <4>1, FS_EmptySet
    <3> QED
      BY <3>2 DEF HandlesOn
  <2>9. NoDanglingContext'
    BY <2>1, <2>2, <2>10 DEF HeapInv, NoDanglingContext, FrameTypeOK, ThreadTypeOK
  <2> QED
    BY <2>2, <2>8, <2>9 DEF HeapInv
<1>15. ASSUME NEW t \in Threads,
             Drop(t)
      PROVE  HeapInv'
  <2> USE <1>15 DEF Drop, Goto, heapVars
  <2>1. \A d \in Contexts : /\ HandlesOn(d)' = HandlesOn(d)
                            /\ Builders(d)' = Builders(d)
                            /\ Destroyers(d)' = Destroyers(d)
    BY DEF HandlesOn, Builders, Destroyers, FrameTypeOK, ThreadTypeOK
  <2> QED
    BY <2>1 DEF HeapInv, ReferencesExact, NoDanglingContext
<1>16. ASSUME NEW t \in Threads,
             Free(t)
      PROVE  HeapInv'
  <2> USE <1>16 DEF Free, Goto
  <2>1. PICK c \in Contexts : c = ctx[t] /\ c \in allocated
    BY DEF FrameTypeOK, ThreadTypeOK, FrameInUse, HeapInv, NoDanglingContext
  <2>2. /\ \A d \in Contexts : HandlesOn(d)' = HandlesOn(d)
        /\ \A d \in Contexts : Builders(d)' = Builders(d)
        /\ \A d \in Contexts \ {c} : Destroyers(d)' = Destroyers(d)
        /\ Destroyers(c) = {t} /\ Destroyers(c)' = {}
    <3>1. /\ pc[t] = "free" /\ pc'[t] = "idle" /\ ctx'[t] = Null
          /\ \A u \in Threads \ {t} : pc'[u] = pc[u] /\ ctx'[u] = ctx[u]
      BY DEF FrameTypeOK, ThreadTypeOK
    <3>2. \A u \in Threads \ {t} : ctx[u] # c
      BY <2>1, NullAssumption DEF HeapInv, NoDanglingContext
    <3> QED
      <4>1. \A d \in Contexts : HandlesOn(d)' = HandlesOn(d)
        BY DEF HandlesOn
      <4>2. \A d \in Contexts : Builders(d)' = Builders(d)
        BY <3>1 DEF Builders
      <4>3. \A d \in Contexts \ {c} : Destroyers(d)' = Destroyers(d)
        BY <2>1, <3>1 DEF Destroyers
      <4>4. Destroyers(c) = {t}
        BY <2>1, <3>1, <3>2 DEF Destroyers
      <4>5. Destroyers(c)' = {}
        BY <3>1, <3>2 DEF Destroyers
      <4> QED
        BY <4>1, <4>2, <4>3, <4>4, <4>5
  <2>3. references[c] = 0
    BY <2>1, <2>2 DEF HeapInv, ReferencesExact
  <2>4. ReferencesExact' /\ references' \in [Contexts -> Nat]
    <3>1. /\ references' = [references EXCEPT ![c] = 0]
          /\ allocated' = allocated \ {c}
      BY <2>1
    <3> QED
      BY ONLY <2>1, <2>2, <2>3, <3>1, HeapInv DEF HeapInv, ReferencesExact
  <2>5. NoDanglingContext'
    BY <2>1, NullAssumption
    DEF HeapInv, NoDanglingContext, FrameTypeOK, ThreadTypeOK
  <2> QED
    BY <2>4, <2>5 DEF HeapInv
<1>17. ASSUME NEW t \in Threads, NEW s \in Operations,
                NEW h \in Handles, NEW others \in SUBSET Handles,
             Call(t, s, h, others)
      PROVE  HeapInv'
    BY <1>17, HeapUnchanged DEF Call
<1>18. ASSUME NEW t \in Threads,
             Return(t)
      PROVE  HeapInv'
    BY <1>18, HeapUnchanged DEF Return
<1>19. CASE UNCHANGED vars
    BY <1>19, HeapUnchanged DEF vars
<1> QED
    BY <1>1, <1>2, <1>3, <1>4, <1>5, <1>6, <1>7, <1>8, <1>9, <1>10, <1>11, <1>12,
       <1>13, <1>14, <1>15, <1>16, <1>17, <1>18, <1>19
    DEF Next, ConfigureStep, CreateStep, ReleaseStep, Request

LEMMA HeapInvariant == Spec => []HeapInv
<1>1. ASSUME Init PROVE HeapInv
  <2>1. \A c \in Contexts : HandlesOn(c) = {} /\ Builders(c) = {}
                            /\ Destroyers(c) = {}
    BY <1>1, NullAssumption DEF Init, HandlesOn, Builders, Destroyers
  <2>2. ReferencesExact
    BY <1>1, <2>1, FS_EmptySet DEF Init, ReferencesExact
  <2> QED
    BY <1>1, <2>2 DEF Init, HeapInv, NoDanglingContext
<1> QED
    BY <1>1, HeapStep, FrameTypeInvariant, PTL DEF Spec

\* A count is the number of handles, plus the one a create is handing out.
THEOREM CountsAreExact == Spec => []ReferencesExact
    BY HeapInvariant, PTL DEF HeapInv

\* No handle and no thread points to freed memory.
THEOREM NothingDangles == Spec => []NoDanglingContext
    BY HeapInvariant, PTL DEF HeapInv

\* Type invariant, the counts included.
THEOREM TypeCorrect == Spec => []TypeOK
    BY FrameTypeInvariant, HeapInvariant, PTL DEF TypeOK, HeapInv

-----------------------------------------------------------------------------
(* The tables providers carry *)

Configuring(t) == ConfigureStep(t) \/ \E T \in Tables : Configure(t, T)

\* configure touches no record, no handle and no call.
LEMMA ConfiguringFrame ==
    ASSUME FrameTypeOK, NEW t \in Threads, Configuring(t)
    PROVE  /\ UNCHANGED <<heapVars, held, ctx, host, out, call, adopted, drops>>
           /\ pc[t] \in {"idle", "spin", "locked", "write", "unlock"}
           /\ pc'[t] \in {"idle", "spin", "locked", "write", "unlock"}
           /\ \A u \in Threads \ {t} : pc'[u] = pc[u] /\ todo'[u] = todo[u]
<1> USE DEF Goto, FrameTypeOK, ThreadTypeOK, historyVars
<1>1. CASE ConfigureStep(t)
  BY <1>1 DEF ConfigureStep, AcquireLock, CompareTable, BeginWrite, WriteSlot,
              PublishTable, ReleaseLock
<1>2. CASE \E T \in Tables : Configure(t, T)
  BY <1>2 DEF Configure
<1> QED
  BY <1>1, <1>2 DEF Configuring

\* What makes InstalledWhole inductive: how far each running copy is.
InstalledInv ==
    /\ \A t \in Threads : pc[t] \in {"alloc", "copy"} => configured
    /\ \A t \in Threads : pc[t] = "copy" =>
          \A s \in Slots \ todo[t] : installed[ctx[t]][s] = callbacks[s]
    /\ \A h \in Handles : held[h] # Null =>
          configured /\ installed[held[h]] = callbacks
    /\ \A t \in Threads : call[t] # Null =>
          configured /\ call[t].callback = callbacks[call[t].slot]

LEMMA InstalledStep ==
    FrameTypeOK /\ TableInv /\ HeapInv /\ InstalledInv /\ [Next]_vars
      => InstalledInv'
<1> SUFFICES ASSUME FrameTypeOK, TableInv, HeapInv, InstalledInv, [Next]_vars
             PROVE  InstalledInv'
    OBVIOUS
<1>a. configured => configured' /\ callbacks' = callbacks
    BY Frozen
<1>1. ASSUME NEW t \in Threads, Configuring(t)
      PROVE  InstalledInv'
  <2>1. UNCHANGED <<installed, held, ctx, call>>
    BY <1>1, ConfiguringFrame DEF heapVars
  <2>2. \A u \in Threads : pc'[u] \in {"alloc", "copy"} =>
                               pc'[u] = pc[u] /\ todo'[u] = todo[u]
    BY <1>1, ConfiguringFrame
  <2> QED
    BY ONLY <2>1, <2>2, <1>a, InstalledInv DEF InstalledInv
<1>2. ASSUME NEW t \in Threads, NEW x \in HostContexts,
             NEW h \in Handles,
             Create(t, x, h)
      PROVE  InstalledInv'
    BY <1>2, <1>a DEF Create, Goto, InstalledInv, FrameTypeOK, ThreadTypeOK,
                      tableVars, heapVars, historyVars
<1>3. ASSUME NEW t \in Threads,
             AllocateFails(t)
      PROVE  InstalledInv'
    BY <1>3, <1>a DEF AllocateFails, Goto, InstalledInv, FrameTypeOK,
                      ThreadTypeOK, tableVars, heapVars, historyVars
<1>4. ASSUME NEW t \in Threads, NEW c \in Contexts,
             Allocate(t, c)
      PROVE  InstalledInv'
  <2> USE <1>4 DEF Allocate, Goto
  <2>1. /\ pc[t] = "alloc" /\ configured
        /\ pc'[t] = "copy" /\ ctx'[t] = c /\ todo'[t] = Slots
        /\ \A u \in Threads \ {t} : /\ pc'[u] = pc[u] /\ ctx'[u] = ctx[u]
                                    /\ todo'[u] = todo[u]
    BY DEF FrameTypeOK, ThreadTypeOK, InstalledInv
  <2>2. /\ \A h \in Handles : held[h] # c
        /\ \A u \in Threads : ctx[u] # c
    BY NullAssumption DEF HeapInv, NoDanglingContext
  <2>3. \A d : d # c => installed'[d] = installed[d]
    BY DEF FrameTypeOK, HeapTypeOK
  <2>4. UNCHANGED <<held, call>>
    OBVIOUS
  <2> QED
    BY ONLY <2>1, <2>2, <2>3, <2>4, <1>a, InstalledInv DEF InstalledInv
<1>5. ASSUME NEW t \in Threads, NEW s \in Slots,
             CopySlot(t, s)
      PROVE  InstalledInv'
  <2> USE <1>5 DEF CopySlot
  <2>1. PICK c \in Contexts : c = ctx[t]
    BY DEF FrameTypeOK, ThreadTypeOK, FrameInUse
  <2>2. /\ \A h \in Handles : held[h] # c
        /\ \A u \in Threads \ {t} : ctx[u] # c
    BY <2>1, NullAssumption DEF HeapInv, NoDanglingContext
  <2>3. /\ installed' = [installed EXCEPT ![c][s] = callbacks[s]]
        /\ todo' = [todo EXCEPT ![t] = @ \ {s}]
        /\ UNCHANGED <<held, call, pc, ctx>>
    BY <2>1
  <2>4. /\ \A d : d # c => installed'[d] = installed[d]
        /\ \A u \in Threads \ {t} : todo'[u] = todo[u]
    BY <2>3 DEF FrameTypeOK, HeapTypeOK, ThreadTypeOK
  <2>5. \A r \in Slots \ todo'[t] : installed'[c][r] = callbacks[r]
    <3>1. \A r \in Slots \ todo[t] : installed[c][r] = callbacks[r]
      BY <2>1 DEF InstalledInv
    <3>2. installed'[c] = [installed[c] EXCEPT ![s] = callbacks[s]]
      BY <2>3 DEF FrameTypeOK, HeapTypeOK
    <3>3. installed[c] \in [Slots -> Functions \cup {Null}]
      BY DEF FrameTypeOK, HeapTypeOK
    <3>4. todo'[t] = todo[t] \ {s}
      BY <2>3 DEF FrameTypeOK, ThreadTypeOK
    <3> QED
      BY ONLY <3>1, <3>2, <3>3, <3>4
  <2> QED
    BY ONLY <2>1, <2>2, <2>3, <2>4, <2>5, <1>a, InstalledInv DEF InstalledInv
<1>6. ASSUME NEW t \in Threads,
             FinishCreate(t)
      PROVE  InstalledInv'
  <2> USE <1>6 DEF FinishCreate, Goto
  <2>1. PICK c \in Contexts : c = ctx[t]
    BY DEF FrameTypeOK, ThreadTypeOK, FrameInUse
  <2>2. configured /\ \A s \in Slots : installed[c][s] = callbacks[s]
    BY <2>1 DEF InstalledInv
  <2>3. installed[c] = callbacks
    BY <2>2 DEF FrameTypeOK, HeapTypeOK, TableTypeOK
  <2>4. /\ held' = [held EXCEPT ![out[t]] = c]
        /\ UNCHANGED <<installed, call, todo>>
    BY <2>1 DEF heapVars
  <2>5. \A h \in Handles : held'[h] # Null => held'[h] \in {held[h], c}
    BY <2>4 DEF FrameTypeOK, HeapTypeOK
  <2>6. \A u \in Threads : pc'[u] \in {"alloc", "copy"} =>
                               pc'[u] = pc[u] /\ ctx'[u] = ctx[u]
    BY DEF FrameTypeOK, ThreadTypeOK
  <2>7. \A h \in Handles : held'[h] # Null =>
            configured' /\ installed'[held'[h]] = callbacks'
    BY ONLY <2>2, <2>3, <2>4, <2>5, <1>a, InstalledInv DEF InstalledInv
  <2> QED
    BY ONLY <2>4, <2>6, <2>7, <1>a, InstalledInv DEF InstalledInv
<1>7. ASSUME NEW t \in Threads, NEW h \in Handles, NEW g \in Handles,
             Retain(t, h, g)
      PROVE  InstalledInv'
  <2>1. /\ held' = [held EXCEPT ![g] = held[h]] /\ held[h] # Null
        /\ UNCHANGED <<installed, call, todo, pc, ctx>>
    BY <1>7 DEF Retain, heapVars, frameVars
  <2>2. \A k \in Handles : held'[k] # Null =>
            \E l \in Handles : held[l] # Null /\ held'[k] = held[l]
    BY <2>1 DEF FrameTypeOK, HeapTypeOK
  <2> QED
    BY ONLY <2>1, <2>2, <1>a, InstalledInv DEF InstalledInv
<1>8. ASSUME NEW t \in Threads, NEW h \in Handles,
             Release(t, h)
      PROVE  InstalledInv'
  <2>1. /\ held' = [held EXCEPT ![h] = Null]
        /\ UNCHANGED <<installed, call, todo>>
    BY <1>8 DEF Release, heapVars
  <2>2. \A k \in Handles : held'[k] # Null => held'[k] = held[k]
    BY <2>1 DEF FrameTypeOK, HeapTypeOK
  <2>3. \A u \in Threads : pc'[u] \in {"alloc", "copy"} =>
                               pc'[u] = pc[u] /\ ctx'[u] = ctx[u]
    BY <1>8 DEF Release, FrameTypeOK, ThreadTypeOK
  <2> QED
    BY ONLY <2>1, <2>2, <2>3, <1>a, InstalledInv DEF InstalledInv
<1>9. ASSUME NEW t \in Threads,
             Drop(t)
      PROVE  InstalledInv'
    BY <1>9, <1>a DEF Drop, Goto, InstalledInv, FrameTypeOK, ThreadTypeOK,
                      heapVars
<1>10. ASSUME NEW t \in Threads,
             Free(t)
      PROVE  InstalledInv'
  <2> USE <1>10 DEF Free, Goto
  <2>1. PICK c \in Contexts : c = ctx[t]
    BY DEF FrameTypeOK, ThreadTypeOK, FrameInUse
  <2>2. /\ \A h \in Handles : held[h] # c
        /\ \A u \in Threads \ {t} : ctx[u] # c
    BY <2>1, NullAssumption DEF HeapInv, NoDanglingContext
  <2>3. \A d : d # c => installed'[d] = installed[d]
    BY <2>1 DEF FrameTypeOK, HeapTypeOK
  <2>4. \A u \in Threads : pc'[u] \in {"alloc", "copy"} =>
                 u # t /\ pc'[u] = pc[u] /\ ctx'[u] = ctx[u]
    BY DEF FrameTypeOK, ThreadTypeOK
  <2>5. UNCHANGED <<held, call, todo>>
    OBVIOUS
  <2> QED
    BY ONLY <2>2, <2>3, <2>4, <2>5, <1>a, InstalledInv DEF InstalledInv
<1>11. ASSUME NEW t \in Threads, NEW s \in Operations,
             NEW h \in Handles, NEW others \in SUBSET Handles,
             Call(t, s, h, others)
      PROVE  InstalledInv'
  <2>1. /\ call[t] = Null /\ held[h] # Null
        /\ UNCHANGED <<installed, held, pc, ctx, todo>>
    BY <1>11 DEF Call, heapVars, frameVars
  <2>2. PICK r : r = call'[t]
    OBVIOUS
  <2>3. r.slot = s /\ r.callback = installed[held[h]][s]
    BY <1>11, <2>2 DEF Call, FrameTypeOK
  <2>4. \A u \in Threads \ {t} : call'[u] = call[u]
    BY <1>11 DEF Call, FrameTypeOK
  <2>5. r.callback = callbacks[r.slot] /\ configured
    BY <2>1, <2>3 DEF InstalledInv
  <2> QED
    BY ONLY <2>1, <2>2, <2>4, <2>5, <1>a, InstalledInv DEF InstalledInv
<1>12. ASSUME NEW t \in Threads,
             Return(t)
      PROVE  InstalledInv'
  <2>1. UNCHANGED <<installed, held, pc, ctx, todo>>
    BY <1>12 DEF Return, heapVars, frameVars
  <2>2. \A u \in Threads : call'[u] # Null => call'[u] = call[u]
    BY <1>12 DEF Return, FrameTypeOK
  <2> QED
    BY ONLY <2>1, <2>2, <1>a, InstalledInv DEF InstalledInv
<1>13. CASE UNCHANGED vars
    BY <1>13, <1>a DEF vars, heapVars, frameVars, InstalledInv
<1> QED
    BY <1>1, <1>2, <1>3, <1>4, <1>5, <1>6, <1>7, <1>8, <1>9, <1>10, <1>11, <1>12,
       <1>13
    DEF Next, ConfigureStep, CreateStep, ReleaseStep, Request, Configuring

LEMMA InstalledInvariant == Spec => []InstalledInv
<1>1. Init => InstalledInv
    BY DEF Init, InstalledInv
<1> QED
    BY <1>1, InstalledStep, FrameTypeInvariant, TableInvariant, HeapInvariant,
       PTL DEF Spec

\* No provider and no call carries a table that was half written.
THEOREM ProvidersCarryWholeTables == Spec => []InstalledWhole
<1>1. TableInv /\ InstalledInv => InstalledWhole
    BY DEF TableInv, InstalledInv, InstalledWhole, Complete
<1> QED
    BY <1>1, TableInvariant, InstalledInvariant, PTL

-----------------------------------------------------------------------------
(* Host contexts *)

\* What makes DroppedExactlyOnce inductive: records carry different host
\* contexts, each adopted already or lent to the create that builds the record.
HostInv ==
    /\ \A c \in allocated : hostContext[c] \in HostContexts
    /\ \A c, d \in allocated : hostContext[c] = hostContext[d] => c = d
    /\ \A t \in Threads : pc[t] = "copy" => hostContext[ctx[t]] = host[t]
    /\ \A t \in Threads : host[t] # Null =>
          /\ host[t] \notin adopted
          /\ \A u \in Threads : host[u] = host[t] => u = t
          /\ \A c \in allocated : hostContext[c] = host[t] => ctx[t] = c
    /\ \A c \in allocated :
          (\A t \in Threads : host[t] # hostContext[c])
             => hostContext[c] \in adopted
    /\ DroppedExactlyOnce

LEMMA HostFrame ==
    ASSUME HostInv,
           UNCHANGED <<allocated, hostContext, host, adopted, drops, ctx>>,
           \A u \in Threads : (pc'[u] = "free" <=> pc[u] = "free")
                              /\ (pc'[u] = "copy" => pc[u] = "copy")
    PROVE  HostInv'
<1>1. \A x \in HostContexts : Carried(x)' <=> Carried(x)
    BY DEF Carried, Destroyers
<1>2. DroppedExactlyOnce'
    BY <1>1 DEF HostInv, DroppedExactlyOnce
<1> QED
    BY <1>2 DEF HostInv

LEMMA HostStep ==
    FrameTypeOK /\ HeapInv /\ HostInv /\ [Next]_vars => HostInv'
<1> SUFFICES ASSUME FrameTypeOK, HeapInv, HostInv, [Next]_vars
             PROVE  HostInv'
    OBVIOUS
<1>1. ASSUME NEW t \in Threads, Configuring(t)
      PROVE  HostInv'
  <2>1. UNCHANGED <<allocated, hostContext, host, adopted, drops, ctx>>
    BY <1>1, ConfiguringFrame DEF heapVars
  <2>2. \A u \in Threads : (pc'[u] = "free" <=> pc[u] = "free")
                           /\ (pc'[u] = "copy" => pc[u] = "copy")
    BY <1>1, ConfiguringFrame
  <2> QED
    BY ONLY <2>1, <2>2, HostFrame, HostInv
<1>2. ASSUME NEW t \in Threads, NEW x \in HostContexts,
             NEW h \in Handles,
             Create(t, x, h)
      PROVE  HostInv'
  <2> USE <1>2 DEF Create, Goto
  <2>1. UNCHANGED <<allocated, hostContext, adopted, drops, ctx>>
    BY DEF heapVars, historyVars
  <2>2. /\ host'[t] = x /\ \A u \in Threads \ {t} : host'[u] = host[u]
        /\ pc[t] = "idle" /\ pc'[t] = "alloc"
        /\ \A u \in Threads \ {t} : pc'[u] = pc[u]
        /\ host[t] = Null
    BY DEF FrameTypeOK, ThreadTypeOK, FrameInUse
  <2>3. x \notin adopted /\ \A u \in Threads : host[u] # x
    BY DEF Unlent
  <2>4. \A c \in allocated : hostContext[c] # x
    BY ONLY <2>3, HostInv DEF HostInv
  <2>5. \A c \in allocated : hostContext[c] # Null
    BY NullAssumption DEF HostInv
  <2>6. DroppedExactlyOnce'
    <3>1. \A y \in HostContexts : Carried(y)' <=> Carried(y)
      BY ONLY <2>1, <2>2 DEF Carried, Destroyers
    <3> QED
      BY ONLY <2>1, <3>1, HostInv DEF HostInv, DroppedExactlyOnce
  <2> QED
    BY ONLY <2>1, <2>2, <2>3, <2>4, <2>5, <2>6, HostInv DEF HostInv
<1>3. ASSUME NEW t \in Threads,
             AllocateFails(t)
      PROVE  HostInv'
  <2> USE <1>3 DEF AllocateFails, Goto
  <2>1. UNCHANGED <<allocated, hostContext, adopted, drops, ctx>>
    BY DEF heapVars, historyVars
  <2>2. /\ host'[t] = Null /\ \A u \in Threads \ {t} : host'[u] = host[u]
        /\ pc[t] = "alloc" /\ pc'[t] = "idle" /\ ctx[t] = Null
        /\ \A u \in Threads \ {t} : pc'[u] = pc[u]
        /\ host[t] # Null
    BY DEF FrameTypeOK, ThreadTypeOK, FrameInUse
  <2>3. \A c \in allocated : hostContext[c] # host[t]
    BY <2>2, NullAssumption DEF HostInv, FrameTypeOK, HeapTypeOK
  <2>4. DroppedExactlyOnce'
    <3>1. \A y \in HostContexts : Carried(y)' <=> Carried(y)
      BY ONLY <2>1, <2>2 DEF Carried, Destroyers
    <3> QED
      BY ONLY <2>1, <3>1, HostInv DEF HostInv, DroppedExactlyOnce
  <2> QED
    BY ONLY <2>1, <2>2, <2>3, <2>4, HostInv DEF HostInv
<1>4. ASSUME NEW t \in Threads, NEW c \in Contexts,
             Allocate(t, c)
      PROVE  HostInv'
  <2> USE <1>4 DEF Allocate, Goto
  <2>1. /\ allocated' = allocated \cup {c} /\ c \notin allocated
        /\ UNCHANGED <<host, adopted, drops>>
    BY DEF historyVars
  <2>2. /\ pc[t] = "alloc" /\ pc'[t] = "copy" /\ ctx'[t] = c
        /\ \A u \in Threads \ {t} : pc'[u] = pc[u] /\ ctx'[u] = ctx[u]
        /\ host[t] \in HostContexts /\ host[t] # Null /\ ctx[t] = Null
    BY DEF FrameTypeOK, ThreadTypeOK, FrameInUse
  <2>3. \A u \in Threads : ctx[u] # c
    BY NullAssumption DEF HeapInv, NoDanglingContext
  <2>4. /\ hostContext'[c] = host[t]
        /\ \A d : d # c => hostContext'[d] = hostContext[d]
    BY DEF FrameTypeOK, HeapTypeOK
  <2>5. \A d \in allocated : hostContext[d] # host[t] /\ d # Null
    BY <2>2, NullAssumption DEF HostInv, FrameTypeOK, HeapTypeOK
  <2>6. host[t] \notin adopted /\ \A u \in Threads : host[u] = host[t] => u = t
    BY <2>2 DEF HostInv
  <2>7. DroppedExactlyOnce'
    <3>1. \A y \in HostContexts \ {host[t]} : Carried(y)' <=> Carried(y)
      BY ONLY <2>1, <2>2, <2>4 DEF Carried, Destroyers
    <3> QED
      BY ONLY <2>1, <2>6, <3>1, HostInv DEF HostInv, DroppedExactlyOnce
  <2>8. \A d \in allocated : d # c
    BY <2>1
  <2>9. \A u \in Threads : pc'[u] = "copy" => hostContext'[ctx'[u]] = host'[u]
    BY ONLY <2>1, <2>2, <2>3, <2>4, HostInv DEF HostInv
  <2>10. \A d, e \in allocated' : hostContext'[d] = hostContext'[e] => d = e
    BY ONLY <2>1, <2>4, <2>5, <2>8, HostInv DEF HostInv
  <2> QED
    BY ONLY <2>1, <2>2, <2>4, <2>5, <2>6, <2>7, <2>8, <2>9, <2>10, HostInv
    DEF HostInv
<1>5. ASSUME NEW t \in Threads, NEW s \in Slots,
             CopySlot(t, s)
      PROVE  HostInv'
  <2>1. UNCHANGED <<allocated, hostContext, host, adopted, drops, ctx, pc>>
    BY <1>5 DEF CopySlot, historyVars
  <2> QED
    BY ONLY <2>1, HostFrame, HostInv
<1>6. ASSUME NEW t \in Threads,
             FinishCreate(t)
      PROVE  HostInv'
  <2> USE <1>6 DEF FinishCreate, Goto
  <2>1. PICK c \in Contexts : c = ctx[t]
    BY DEF FrameTypeOK, ThreadTypeOK, FrameInUse
  <2>2. PICK x \in HostContexts : x = host[t] /\ x # Null
    BY NullAssumption DEF FrameTypeOK, ThreadTypeOK, FrameInUse
  <2>3. /\ UNCHANGED <<allocated, hostContext, drops>>
        /\ adopted' = adopted \cup {x}
    BY <2>2 DEF heapVars
  <2>4. /\ pc[t] = "copy" /\ pc'[t] = "idle"
        /\ ctx'[t] = Null /\ host'[t] = Null
        /\ \A u \in Threads \ {t} : /\ pc'[u] = pc[u] /\ ctx'[u] = ctx[u]
                                    /\ host'[u] = host[u]
    BY DEF FrameTypeOK, ThreadTypeOK
  <2>5. c \in allocated /\ \A u \in Threads \ {t} : ctx[u] # c
    BY <2>1, NullAssumption DEF HeapInv, NoDanglingContext
  <2>6. hostContext[c] = x /\ x \notin adopted
        /\ \A u \in Threads \ {t} : host[u] # x
    BY <2>1, <2>2, <2>4 DEF HostInv
  <2>7. DroppedExactlyOnce'
    <3>1. \A y \in HostContexts : Carried(y)' <=> Carried(y)
      BY ONLY <2>1, <2>3, <2>4, <2>5 DEF Carried, Destroyers
    <3>2. Carried(x)
      BY ONLY <2>1, <2>4, <2>5, <2>6 DEF Carried, Destroyers
    <3> QED
      BY ONLY <2>3, <2>6, <3>1, <3>2, HostInv DEF HostInv, DroppedExactlyOnce
  <2>8. \A d \in allocated : (\A u \in Threads : host'[u] # hostContext[d])
                               => hostContext[d] \in adopted'
    BY ONLY <2>2, <2>3, <2>4, <2>6, HostInv DEF HostInv
  <2> QED
    BY ONLY <2>2, <2>3, <2>4, <2>6, <2>7, <2>8, HostInv DEF HostInv
<1>7. ASSUME NEW t \in Threads, NEW h \in Handles, NEW g \in Handles,
             Retain(t, h, g)
      PROVE  HostInv'
  <2>1. UNCHANGED <<allocated, hostContext, host, adopted, drops, ctx, pc>>
    BY <1>7 DEF Retain, historyVars, frameVars
  <2> QED
    BY ONLY <2>1, HostFrame, HostInv
<1>8. ASSUME NEW t \in Threads, NEW h \in Handles,
             Release(t, h)
      PROVE  HostInv'
  <2> USE <1>8 DEF Release
  <2>1. /\ UNCHANGED <<allocated, hostContext, host, adopted, drops>>
        /\ pc[t] = "idle" /\ pc'[t] \in {"idle", "drop"} /\ host[t] = Null
        /\ \A u \in Threads \ {t} : pc'[u] = pc[u] /\ ctx'[u] = ctx[u]
    BY DEF FrameTypeOK, ThreadTypeOK, FrameInUse, historyVars
  <2>2. DroppedExactlyOnce'
    <3>1. \A y \in HostContexts : Carried(y)' <=> Carried(y)
      BY ONLY <2>1 DEF Carried, Destroyers
    <3> QED
      BY ONLY <2>1, <3>1, HostInv DEF HostInv, DroppedExactlyOnce
  <2> QED
    BY ONLY <2>1, <2>2, HostInv DEF HostInv
<1>9. ASSUME NEW t \in Threads,
             Drop(t)
      PROVE  HostInv'
  <2> USE <1>9 DEF Drop, Goto
  <2>1. PICK c \in Contexts : c = ctx[t]
    BY DEF FrameTypeOK, ThreadTypeOK, FrameInUse
  <2>2. c \in allocated /\ \A u \in Threads \ {t} : ctx[u] # c
    BY <2>1, NullAssumption DEF HeapInv, NoDanglingContext
  <2>3. PICK x \in HostContexts : x = hostContext[c]
    BY <2>2 DEF HostInv
  <2>4. /\ UNCHANGED <<allocated, hostContext, host, adopted, ctx>>
        /\ pc[t] = "drop" /\ pc'[t] = "free" /\ host[t] = Null
        /\ \A u \in Threads \ {t} : pc'[u] = pc[u]
    BY DEF FrameTypeOK, ThreadTypeOK, FrameInUse, heapVars
  <2>5. /\ drops'[x] = drops[x] + 1
        /\ \A y \in HostContexts \ {x} : drops'[y] = drops[y]
    BY <2>1, <2>3 DEF FrameTypeOK, HistoryTypeOK
  <2>6. x \in adopted
    <3>1. x # Null
      BY NullAssumption
    <3>2. \A u \in Threads : host[u] # x
      BY ONLY <2>1, <2>2, <2>3, <2>4, <3>1, HostInv DEF HostInv
    <3> QED
      BY ONLY <2>2, <2>3, <3>2, HostInv DEF HostInv
  <2>7. Carried(x) /\ ~Carried(x)'
    BY ONLY <2>1, <2>2, <2>3, <2>4, HostInv DEF HostInv, Carried, Destroyers
  <2>8. \A y \in HostContexts \ {x} : Carried(y)' <=> Carried(y)
    BY ONLY <2>1, <2>3, <2>4 DEF Carried, Destroyers
  <2>9. DroppedExactlyOnce'
    BY ONLY <2>3, <2>4, <2>5, <2>6, <2>7, <2>8, HostInv
    DEF HostInv, DroppedExactlyOnce
  <2> QED
    BY ONLY <2>4, <2>9, HostInv DEF HostInv
<1>10. ASSUME NEW t \in Threads,
             Free(t)
      PROVE  HostInv'
  <2> USE <1>10 DEF Free, Goto
  <2>1. PICK c \in Contexts : c = ctx[t]
    BY DEF FrameTypeOK, ThreadTypeOK, FrameInUse
  <2>2. c \in allocated /\ \A u \in Threads \ {t} : ctx[u] # c
    BY <2>1, NullAssumption DEF HeapInv, NoDanglingContext
  <2>3. /\ pc[t] = "free" /\ pc'[t] = "idle" /\ ctx'[t] = Null
        /\ host[t] = Null
        /\ \A u \in Threads \ {t} : pc'[u] = pc[u] /\ ctx'[u] = ctx[u]
    BY DEF FrameTypeOK, ThreadTypeOK, FrameInUse
  <2>4. /\ UNCHANGED <<host, adopted, drops>>
        /\ allocated' = allocated \ {c}
        /\ \A d : d # c => hostContext'[d] = hostContext[d]
    BY <2>1 DEF FrameTypeOK, HeapTypeOK, historyVars
  <2>5. DroppedExactlyOnce'
    <3>1. ASSUME NEW y \in HostContexts PROVE Carried(y)' <=> Carried(y)
      <4>1. \A d \in allocated' : Destroyers(d)' = Destroyers(d)
        BY ONLY <2>1, <2>3, <2>4 DEF Destroyers
      <4>2. \A u \in Threads : pc[u] = "free" => u = t \/ ctx[u] # c
        BY <2>2
      <4>3. t \in Destroyers(c)
        BY <2>1, <2>3 DEF Destroyers
      <4>4. \A d \in allocated' : \A u \in Destroyers(d) : pc'[u] = pc[u]
        BY ONLY <2>1, <2>3, <2>4 DEF Destroyers
      <4> QED
        BY ONLY <2>3, <2>4, <4>1, <4>3, <4>4 DEF Carried
    <3> QED
      BY ONLY <2>4, <3>1, HostInv DEF HostInv, DroppedExactlyOnce
  <2>6. \A u \in Threads : pc'[u] = "copy" => hostContext'[ctx'[u]] = host'[u]
    BY ONLY <2>2, <2>3, <2>4, HostInv DEF HostInv
  <2>7. \A u \in Threads : host[u] # Null => u # t
    BY <2>3
  <2> QED
    BY ONLY <2>3, <2>4, <2>5, <2>6, <2>7, HostInv DEF HostInv
<1>11. ASSUME NEW t \in Threads, NEW s \in Operations,
             NEW h \in Handles, NEW others \in SUBSET Handles,
             Call(t, s, h, others)
      PROVE  HostInv'
  <2>1. UNCHANGED <<allocated, hostContext, host, adopted, drops, ctx, pc>>
    BY <1>11 DEF Call, historyVars, frameVars, heapVars
  <2> QED
    BY ONLY <2>1, HostFrame, HostInv
<1>12. ASSUME NEW t \in Threads,
             Return(t)
      PROVE  HostInv'
  <2>1. UNCHANGED <<allocated, hostContext, host, adopted, drops, ctx, pc>>
    BY <1>12 DEF Return, historyVars, frameVars, heapVars
  <2> QED
    BY ONLY <2>1, HostFrame, HostInv
<1>13. CASE UNCHANGED vars
  <2>1. UNCHANGED <<allocated, hostContext, host, adopted, drops, ctx, pc>>
    BY <1>13 DEF vars, historyVars, frameVars, heapVars
  <2> QED
    BY ONLY <2>1, HostFrame, HostInv
<1> QED
    BY <1>1, <1>2, <1>3, <1>4, <1>5, <1>6, <1>7, <1>8, <1>9, <1>10, <1>11, <1>12,
       <1>13
    DEF Next, ConfigureStep, CreateStep, ReleaseStep, Request, Configuring

LEMMA HostInvariant == Spec => []HostInv
<1>1. Init => HostInv
    BY DEF Init, HostInv, DroppedExactlyOnce
<1> QED
    BY <1>1, HostStep, FrameTypeInvariant, HeapInvariant, PTL DEF Spec

\* Each adopted host context is dropped once, when its record dies.
THEOREM HostsAreDroppedOnce == Spec => []DroppedExactlyOnce
    BY HostInvariant, PTL DEF HostInv

-----------------------------------------------------------------------------
(* Lattice calls *)

\* The handles of a call stay open and its host contexts are theirs.
CallInv ==
    \A t \in Threads : call[t] # Null =>
        /\ \A h \in call[t].handles : held[h] # Null
        /\ \A x \in call[t].hosts :
              \E h \in call[t].handles : x = hostContext[held[h]]

LEMMA CallHosts ==
    ASSUME FrameTypeOK, NEW t \in Threads, call[t] # Null
    PROVE  call[t].handles \subseteq Handles
    BY DEF FrameTypeOK, CallRecords

LEMMA CallStep ==
    FrameTypeOK /\ HeapInv /\ CallInv /\ [Next]_vars => CallInv'
<1> SUFFICES ASSUME FrameTypeOK, HeapInv, CallInv, [Next]_vars
             PROVE  CallInv'
    OBVIOUS
<1>1. ASSUME NEW t \in Threads, Configuring(t)
      PROVE  CallInv'
  <2>1. UNCHANGED <<held, call, hostContext>>
    BY <1>1, ConfiguringFrame DEF heapVars
  <2> QED
    BY ONLY <2>1, CallInv DEF CallInv
<1>2. ASSUME NEW t \in Threads, NEW x \in HostContexts,
             NEW h \in Handles,
             Create(t, x, h)
      PROVE  CallInv'
  <2>1. UNCHANGED <<held, call, hostContext>>
    BY <1>2 DEF Create, heapVars
  <2> QED
    BY ONLY <2>1, CallInv DEF CallInv
<1>3. ASSUME NEW t \in Threads,
             AllocateFails(t)
      PROVE  CallInv'
  <2>1. UNCHANGED <<held, call, hostContext>>
    BY <1>3 DEF AllocateFails, heapVars
  <2> QED
    BY ONLY <2>1, CallInv DEF CallInv
<1>4. ASSUME NEW t \in Threads, NEW c \in Contexts,
             Allocate(t, c)
      PROVE  CallInv'
  <2>1. /\ c \notin allocated /\ UNCHANGED <<held, call>>
        /\ \A d : d # c => hostContext'[d] = hostContext[d]
    BY <1>4 DEF Allocate, FrameTypeOK, HeapTypeOK
  <2>2. \A h \in Handles : held[h] # Null => hostContext'[held[h]] = hostContext[held[h]]
    BY <2>1 DEF HeapInv, NoDanglingContext
  <2> QED
    BY ONLY FrameTypeOK, <2>1, <2>2, CallHosts, CallInv DEF CallInv
<1>5. ASSUME NEW t \in Threads, NEW s \in Slots,
             CopySlot(t, s)
      PROVE  CallInv'
  <2>1. UNCHANGED <<held, call, hostContext>>
    BY <1>5 DEF CopySlot, heapVars
  <2> QED
    BY ONLY <2>1, CallInv DEF CallInv
<1>6. ASSUME NEW t \in Threads,
             FinishCreate(t)
      PROVE  CallInv'
  <2>1. /\ UNCHANGED <<call, hostContext>> /\ pc[t] = "copy"
        /\ \A h \in Handles : h # out[t] => held'[h] = held[h]
    BY <1>6 DEF FinishCreate, Goto, heapVars, FrameTypeOK, HeapTypeOK
  <2>2. held[out[t]] = Null
    BY <2>1 DEF HeapInv, FrameTypeOK, FrameInUse
  <2> QED
    BY ONLY FrameTypeOK, <2>1, <2>2, CallHosts, CallInv DEF CallInv
<1>7. ASSUME NEW t \in Threads, NEW h \in Handles, NEW g \in Handles,
             Retain(t, h, g)
      PROVE  CallInv'
  <2>1. /\ UNCHANGED <<call, hostContext>> /\ held[g] = Null
        /\ \A k \in Handles : k # g => held'[k] = held[k]
    BY <1>7 DEF Retain, Vacant, heapVars, FrameTypeOK, HeapTypeOK
  <2> QED
    BY ONLY FrameTypeOK, <2>1, CallHosts, CallInv DEF CallInv
<1>8. ASSUME NEW t \in Threads, NEW h \in Handles,
             Release(t, h)
      PROVE  CallInv'
  <2>1. /\ UNCHANGED <<call, hostContext>> /\ ~InUse(h)
        /\ \A k \in Handles : k # h => held'[k] = held[k]
    BY <1>8 DEF Release, FrameTypeOK, HeapTypeOK
  <2> QED
    BY ONLY FrameTypeOK, <2>1, CallHosts, CallInv DEF CallInv, InUse
<1>9. ASSUME NEW t \in Threads,
             Drop(t)
      PROVE  CallInv'
  <2>1. UNCHANGED <<held, call, hostContext>>
    BY <1>9 DEF Drop, heapVars
  <2> QED
    BY ONLY <2>1, CallInv DEF CallInv
<1>10. ASSUME NEW t \in Threads,
             Free(t)
      PROVE  CallInv'
  <2>1. /\ UNCHANGED <<held, call>> /\ pc[t] = "free"
        /\ \A d : d # ctx[t] => hostContext'[d] = hostContext[d]
    BY <1>10 DEF Free, Goto, FrameTypeOK, HeapTypeOK
  <2>2. \A h \in Handles : held[h] # Null => hostContext'[held[h]] = hostContext[held[h]]
    BY <2>1 DEF HeapInv, NoDanglingContext, FrameTypeOK, FrameInUse
  <2> QED
    BY ONLY FrameTypeOK, <2>1, <2>2, CallHosts, CallInv DEF CallInv
<1>11. ASSUME NEW t \in Threads, NEW s \in Operations,
             NEW h \in Handles, NEW others \in SUBSET Handles,
             Call(t, s, h, others)
      PROVE  CallInv'
  <2>1. /\ UNCHANGED <<held, hostContext>>
        /\ \A u \in Threads \ {t} : call'[u] = call[u]
    BY <1>11 DEF Call, heapVars, FrameTypeOK
  <2>2. /\ call'[t].handles = others \cup {h}
        /\ call'[t].hosts = {hostContext[held[g]] : g \in others \cup {h}}
        /\ \A g \in others \cup {h} : held[g] # Null
    BY <1>11 DEF Call, FrameTypeOK
  <2>3. \A x \in call'[t].hosts :
            \E g \in call'[t].handles : x = hostContext[held[g]]
    BY <2>2
  <2> QED
    BY ONLY <2>1, <2>2, <2>3, CallInv DEF CallInv
<1>12. ASSUME NEW t \in Threads,
             Return(t)
      PROVE  CallInv'
  <2>1. /\ UNCHANGED <<held, hostContext>>
        /\ \A u \in Threads : call'[u] # Null => call'[u] = call[u]
    BY <1>12 DEF Return, heapVars, FrameTypeOK
  <2> QED
    BY ONLY <2>1, CallInv DEF CallInv
<1>13. CASE UNCHANGED vars
  <2>1. UNCHANGED <<held, call, hostContext>>
    BY <1>13 DEF vars, heapVars
  <2> QED
    BY ONLY <2>1, CallInv DEF CallInv
<1> QED
    BY <1>1, <1>2, <1>3, <1>4, <1>5, <1>6, <1>7, <1>8, <1>9, <1>10, <1>11, <1>12,
       <1>13
    DEF Next, ConfigureStep, CreateStep, ReleaseStep, Request, Configuring

LEMMA CallInvariant == Spec => []CallInv
<1>1. Init => CallInv
    BY DEF Init, CallInv
<1> QED
    BY <1>1, CallStep, FrameTypeInvariant, HeapInvariant, PTL DEF Spec

\* The host context of an open handle is adopted and not dropped.
LEMMA OpenHandleIsLive ==
    ASSUME FrameTypeOK, HeapInv, HostInv, NEW h \in Handles, held[h] # Null
    PROVE  /\ hostContext[held[h]] \in HostContexts
           /\ hostContext[held[h]] \in adopted
           /\ drops[hostContext[held[h]]] = 0
<1>1. PICK c \in Contexts : c = held[h] /\ c \in allocated
    BY DEF FrameTypeOK, HeapTypeOK, HeapInv, NoDanglingContext
<1>2. PICK x \in HostContexts : x = hostContext[c]
    BY <1>1 DEF HostInv
<1>3. \A u \in Threads : ctx[u] # c
    BY <1>1, NullAssumption DEF HeapInv, NoDanglingContext
<1>4. x # Null
    BY NullAssumption
<1>5. x \in adopted
    BY ONLY <1>1, <1>2, <1>3, <1>4, HostInv DEF HostInv
<1>6. Carried(x)
    BY ONLY <1>1, <1>2, <1>3 DEF Carried, Destroyers
<1> QED
    BY <1>1, <1>2, <1>5, <1>6 DEF HostInv, DroppedExactlyOnce

\* A callback only ever sees host contexts that are still alive.
THEOREM CallbacksSeeLiveHosts == Spec => []CallsSeeLiveHosts
<1>1. FrameTypeOK /\ HeapInv /\ HostInv /\ CallInv => CallsSeeLiveHosts
  <2> SUFFICES ASSUME FrameTypeOK, HeapInv, HostInv, CallInv,
                      NEW t \in Threads, call[t] # Null, NEW x \in call[t].hosts
               PROVE  x \in adopted /\ drops[x] = 0
    BY DEF CallsSeeLiveHosts
  <2>1. PICK h \in call[t].handles : x = hostContext[held[h]] /\ held[h] # Null
    BY DEF CallInv
  <2> QED
    BY <2>1, CallHosts, OpenHandleIsLive
<1> QED
    BY <1>1, FrameTypeInvariant, HeapInvariant, HostInvariant, CallInvariant, PTL

-----------------------------------------------------------------------------
(* Refinement of HostedResource *)

LEMMA RefinementStep ==
    FrameTypeOK /\ HeapInv /\ HostInv /\ [Next]_vars
      => [HR!HRNext]_(HR!hrVars)
<1> SUFFICES ASSUME FrameTypeOK, HeapInv, HostInv, [Next]_vars
             PROVE  HR!HRNext \/ UNCHANGED HR!hrVars
    OBVIOUS
<1>1. ASSUME NEW t \in Threads, Configuring(t)
      PROVE  HR!HRNext \/ UNCHANGED HR!hrVars
  <2>1. UNCHANGED <<held, hostContext, adopted, drops>>
    BY <1>1, ConfiguringFrame DEF heapVars
  <2> QED
    BY ONLY <2>1 DEF OwnerOf, LifeOf, HR!hrVars
<1>2. ASSUME NEW t \in Threads, NEW x \in HostContexts,
             NEW h \in Handles,
             Create(t, x, h)
      PROVE  HR!HRNext \/ UNCHANGED HR!hrVars
  <2>1. UNCHANGED <<held, hostContext, adopted, drops>>
    BY <1>2 DEF Create, heapVars, historyVars
  <2> QED
    BY ONLY <2>1 DEF OwnerOf, LifeOf, HR!hrVars
<1>3. ASSUME NEW t \in Threads,
             AllocateFails(t)
      PROVE  HR!HRNext \/ UNCHANGED HR!hrVars
  <2>1. UNCHANGED <<held, hostContext, adopted, drops>>
    BY <1>3 DEF AllocateFails, heapVars, historyVars
  <2> QED
    BY ONLY <2>1 DEF OwnerOf, LifeOf, HR!hrVars
<1>4. ASSUME NEW t \in Threads, NEW c \in Contexts,
             Allocate(t, c)
      PROVE  HR!HRNext \/ UNCHANGED HR!hrVars
  <2>1. /\ c \notin allocated /\ UNCHANGED <<held, adopted, drops>>
        /\ \A d : d # c => hostContext'[d] = hostContext[d]
    BY <1>4 DEF Allocate, FrameTypeOK, HeapTypeOK, historyVars
  <2>2. \A h \in Handles : held[h] # Null => hostContext'[held[h]] = hostContext[held[h]]
    BY <2>1 DEF HeapInv, NoDanglingContext
  <2> QED
    BY ONLY <2>1, <2>2 DEF OwnerOf, LifeOf, HR!hrVars
<1>5. ASSUME NEW t \in Threads, NEW s \in Slots,
             CopySlot(t, s)
      PROVE  HR!HRNext \/ UNCHANGED HR!hrVars
  <2>1. UNCHANGED <<held, hostContext, adopted, drops>>
    BY <1>5 DEF CopySlot, heapVars, historyVars
  <2> QED
    BY ONLY <2>1 DEF OwnerOf, LifeOf, HR!hrVars
<1>6. ASSUME NEW t \in Threads,
             FinishCreate(t)
      PROVE  HR!HRNext \/ UNCHANGED HR!hrVars
  <2>1. PICK x \in HostContexts : x = host[t] /\ x # Null
    BY <1>6, NullAssumption DEF FinishCreate, Goto, FrameTypeOK, ThreadTypeOK, FrameInUse
  <2>2. PICK h \in Handles : h = out[t] /\ held[h] = Null
    BY <1>6 DEF FinishCreate, Goto, FrameTypeOK, ThreadTypeOK, FrameInUse, HeapInv
  <2>3. PICK c \in Contexts : c = ctx[t] /\ hostContext[c] = x
    BY <1>6, <2>1 DEF FinishCreate, Goto, FrameTypeOK, ThreadTypeOK, FrameInUse, HostInv
  <2>4. /\ held' = [held EXCEPT ![h] = c] /\ adopted' = adopted \cup {x}
        /\ UNCHANGED <<hostContext, drops>>
    BY <1>6, <2>1, <2>2, <2>3 DEF FinishCreate, heapVars
  <2>5. x \notin adopted /\ drops[x] = 0
    BY <2>1 DEF HostInv, DroppedExactlyOnce
  <2>6. OwnerOf[h] = Null /\ LifeOf[x] = "unused"
    BY <2>2, <2>5 DEF OwnerOf, LifeOf
  <2>7. OwnerOf' = [OwnerOf EXCEPT ![h] = x]
    BY <2>3, <2>4, NullAssumption DEF OwnerOf, FrameTypeOK, HeapTypeOK
  <2>8. LifeOf' = [LifeOf EXCEPT ![x] = "rooted"]
    <3>1. \A y \in HostContexts :
              LifeOf'[y] = IF y = x THEN "rooted" ELSE LifeOf[y]
      BY <2>4, <2>5 DEF LifeOf
    <3> QED
      BY ONLY <3>1 DEF LifeOf
  <2> QED
    BY <2>6, <2>7, <2>8 DEF HR!HRNext, HR!Adopt
<1>7. ASSUME NEW t \in Threads, NEW h \in Handles, NEW g \in Handles,
             Retain(t, h, g)
      PROVE  HR!HRNext \/ UNCHANGED HR!hrVars
  <2>1. /\ held' = [held EXCEPT ![g] = held[h]]
        /\ held[h] # Null /\ held[g] = Null
        /\ UNCHANGED <<hostContext, adopted, drops>>
    BY <1>7 DEF Retain, Vacant, historyVars
  <2>2. OwnerOf[h] # Null /\ OwnerOf[g] = Null
    BY <2>1, OpenHandleIsLive, NullAssumption DEF OwnerOf
  <2>3. OwnerOf' = [OwnerOf EXCEPT ![g] = OwnerOf[h]]
    BY <2>1 DEF OwnerOf, FrameTypeOK, HeapTypeOK
  <2>4. UNCHANGED LifeOf
    BY <2>1 DEF LifeOf
  <2> QED
    BY <2>2, <2>3, <2>4 DEF HR!HRNext, HR!Share
<1>8. ASSUME NEW t \in Threads, NEW h \in Handles,
             Release(t, h)
      PROVE  HR!HRNext \/ UNCHANGED HR!hrVars
  <2>1. /\ held' = [held EXCEPT ![h] = Null] /\ held[h] # Null
        /\ UNCHANGED <<hostContext, adopted, drops>>
    BY <1>8 DEF Release, historyVars
  <2>2. OwnerOf[h] # Null
    BY <2>1, OpenHandleIsLive, NullAssumption DEF OwnerOf
  <2>3. OwnerOf' = [OwnerOf EXCEPT ![h] = Null]
    BY <2>1 DEF OwnerOf, FrameTypeOK, HeapTypeOK
  <2>4. UNCHANGED LifeOf
    BY <2>1 DEF LifeOf
  <2> QED
    BY <2>2, <2>3, <2>4 DEF HR!HRNext, HR!CloseHandle
<1>9. ASSUME NEW t \in Threads,
             Drop(t)
      PROVE  HR!HRNext \/ UNCHANGED HR!hrVars
  <2>1. PICK c \in Contexts : c = ctx[t]
    BY <1>9 DEF Drop, Goto, FrameTypeOK, ThreadTypeOK, FrameInUse
  <2>2. /\ c \in allocated /\ \A u \in Threads \ {t} : ctx[u] # c
        /\ \A h \in Handles : held[h] # c
    BY <2>1, NullAssumption DEF HeapInv, NoDanglingContext
  <2>3. PICK x \in HostContexts : x = hostContext[c]
    BY <2>2 DEF HostInv
  <2>4. /\ UNCHANGED <<held, hostContext, adopted>>
        /\ pc[t] = "drop" /\ host[t] = Null
        /\ drops' = [drops EXCEPT ![x] = @ + 1]
    BY <1>9, <2>1, <2>3 DEF Drop, Goto, FrameTypeOK, FrameInUse, heapVars
  <2>5. x \in adopted
    <3>1. x # Null
      BY NullAssumption
    <3>2. \A u \in Threads : host[u] # x
      BY ONLY <2>1, <2>2, <2>3, <2>4, <3>1, HostInv DEF HostInv
    <3> QED
      BY ONLY <2>2, <2>3, <3>2, HostInv DEF HostInv
  <2>6. Carried(x)
    BY ONLY <2>1, <2>2, <2>3, <2>4 DEF Carried, Destroyers
  <2>7. drops[x] = 0
    BY <2>5, <2>6 DEF HostInv, DroppedExactlyOnce
  <2>8. LifeOf[x] = "rooted"
    BY <2>5, <2>7 DEF LifeOf
  <2>9. \A h \in Handles : OwnerOf[h] # x
    <3> TAKE h \in Handles
    <3>1. held[h] # Null => held[h] \in allocated
      BY DEF HeapInv, NoDanglingContext
    <3>2. held[h] # Null => hostContext[held[h]] # x
      BY ONLY <2>2, <2>3, <3>1, HostInv DEF HostInv
    <3> QED
      BY <3>2, NullAssumption DEF OwnerOf
  <2>10. UNCHANGED OwnerOf
    BY <2>4 DEF OwnerOf
  <2>11. LifeOf' = [LifeOf EXCEPT ![x] = "dropped"]
    <3>1. /\ drops'[x] = 1 /\ adopted' = adopted
          /\ \A y \in HostContexts \ {x} : drops'[y] = drops[y]
      BY <2>4, <2>7 DEF FrameTypeOK, HistoryTypeOK
    <3>2. \A y \in HostContexts :
              LifeOf'[y] = IF y = x THEN "dropped" ELSE LifeOf[y]
      BY ONLY <3>1 DEF LifeOf
    <3> QED
      BY ONLY <3>2 DEF LifeOf
  <2> QED
    BY <2>8, <2>9, <2>10, <2>11 DEF HR!HRNext, HR!DropHost
<1>10. ASSUME NEW t \in Threads,
             Free(t)
      PROVE  HR!HRNext \/ UNCHANGED HR!hrVars
  <2>1. /\ UNCHANGED <<held, adopted, drops>> /\ pc[t] = "free"
        /\ \A d : d # ctx[t] => hostContext'[d] = hostContext[d]
    BY <1>10 DEF Free, Goto, FrameTypeOK, HeapTypeOK, historyVars
  <2>2. \A h \in Handles : held[h] # Null => hostContext'[held[h]] = hostContext[held[h]]
    BY <2>1 DEF HeapInv, NoDanglingContext, FrameTypeOK, FrameInUse
  <2> QED
    BY ONLY <2>1, <2>2 DEF OwnerOf, LifeOf, HR!hrVars
<1>11. ASSUME NEW t \in Threads, NEW s \in Operations,
             NEW h \in Handles, NEW others \in SUBSET Handles,
             Call(t, s, h, others)
      PROVE  HR!HRNext \/ UNCHANGED HR!hrVars
  <2>1. UNCHANGED <<held, hostContext, adopted, drops>>
    BY <1>11 DEF Call, heapVars, historyVars
  <2> QED
    BY ONLY <2>1 DEF OwnerOf, LifeOf, HR!hrVars
<1>12. ASSUME NEW t \in Threads,
             Return(t)
      PROVE  HR!HRNext \/ UNCHANGED HR!hrVars
  <2>1. UNCHANGED <<held, hostContext, adopted, drops>>
    BY <1>12 DEF Return, heapVars, historyVars
  <2> QED
    BY ONLY <2>1 DEF OwnerOf, LifeOf, HR!hrVars
<1>13. CASE UNCHANGED vars
  <2>1. UNCHANGED <<held, hostContext, adopted, drops>>
    BY <1>13 DEF vars, heapVars, historyVars
  <2> QED
    BY ONLY <2>1 DEF OwnerOf, LifeOf, HR!hrVars
<1> QED
    BY <1>1, <1>2, <1>3, <1>4, <1>5, <1>6, <1>7, <1>8, <1>9, <1>10, <1>11, <1>12,
       <1>13
    DEF Next, ConfigureStep, CreateStep, ReleaseStep, Request, Configuring

\* Every behaviour of the shim is one of the abstract owned resource.
THEOREM ShimImplementsHostedResource == Spec => HR!HRSafety
<1>1. Init => HR!HRInit
    BY DEF Init, HR!HRInit, OwnerOf, LifeOf
<1> QED
    BY <1>1, RefinementStep, FrameTypeInvariant, HeapInvariant, HostInvariant,
       PTL DEF Spec, HR!HRSafety
=============================================================================
