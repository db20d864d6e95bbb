# TLA+ models and proofs for llattice

llattice is a Rust crate with one trait, `Lattice` (`join` and `meet`), a set of
implementations of it, and two language bindings, Raku and Julia, through which
a managed language *provides* lattice values to native code. The Rust crate is
pure; nearly everything that can go wrong at run time is in the bindings: host
objects kept alive by reference counts, a callback table published to other
threads, a registry shared by threads, callbacks that fail half way, addresses
that are used again.

This directory holds TLA+ modules that model those parts from the source, the
TLC configurations that check them on small instances, and proofs that TLAPS
checks for every size of the constants. Every definition that models code is
listed in `PROJECT.json` (`map`) with the lines it stands for.

## Running it

    tlc -config Shim.cfg MCProviderShim.tla     # any run of the table below
    tlapm RakuProviderProofs.tla                # any of the eight proof modules

## 1. Inventory

| Component | Source | State it keeps | Operations | Hard behaviour | What makes it correct |
|---|---|---|---|---|---|
| C provider shim of the Raku binding | `bindings/raku/cbits/provider.c` | `CALLBACKS`, `CALLBACKS_LOCK`, `CALLBACKS_CONFIGURED`; one counted heap record per provider | configure, create; retain, release, query; eight lattice callbacks | unlocked reads of a table another thread writes, counts at zero, addresses handed out again | one table for all; a record lives exactly as long as its handles; each host context is dropped once |
| Raku provider | `bindings/raku/lib/LLattice.rakumod:137-478` | `%STATES`, `$NEXT-ID`, `$LIFETIME-LOCK`, the configuration status, one diagnostic per entry | provider, value, make-provider-raw, callbacks for join, meet, equal, bytes, diagnostic, batches, drop | registry touched before and after the native create, exceptions at every step, unlocked reads | registry = what handles own; folds in order and in one domain; a failure leaves nothing behind |
| Julia provider | `bindings/julia/LLattice/src/LLattice.jl:131-412` | `PROVIDER_REGISTRY`, its lock, one counted object per provider whose *address* is the context | provider, host_value, retain, release, the same callbacks | addresses turned into objects without the registry, the collector, finalizers | no freed address is used; exact counts; no closed provider is kept |
| Raku and Julia lattice values and law checkers | `LLattice.rakumod:28-136`, `LLattice.jl:18-129` | none | join, meet, equivalent, validate-laws | a checker that accepts an unlawful class; samples whose joins are not samples; NaN | accepted samples have one order with join and meet as its bounds; no lattice is rejected; the first failure is the one named |
| Rust trait and implementations | `src/lib.rs` | none | join, meet of integers, floats, bool, Option, HashSet, Vec | NaN, repeated items, left bias | least upper and greatest lower bounds of the documented orders |
| CRDT recipes, fixpoint loops | `docs/guides/03`, `docs/guides/04` | a lattice value per replica or node | merge, update, iterate | late, lost, repeated, reordered messages | convergence; no step back; termination at the least fixpoint |
| ABI generator | `scripts/generate-raku-provider-abi.py`, `provider-api.json` | two generated files | validate, render, `--write`, `--check` | two files written one after the other, a tree that changes, a sum that stands for a disjunction | the exit code tells the truth; header and Raku module say the same |
| Raku ABI handshake | `GeneratedProviderAbi.rakumod` (generated) | none | validate-provider-abi, bindings of the C symbols | modules and libraries of different generations, subs called by names that no rule ties to a symbol | exactly the compatible libraries are let through |
| Repository gates | `scripts/check-lattice-invariants.py`, `check-package-metadata.py`, `check-release-ref.py` | none | one pass over the tree | faults that hide each other, closures over what a loop has forgotten | accepts exactly what is in order, reports all that is not |
| Release workflow | `.github/workflows/release.yml` | refs, runs, jobs; outside: crates.io, GitHub releases | dispatch, jobs, rerun, two publications | runs side by side, lost answers, reruns, a stale preflight | only verified commits of the right tag are public; one run publishes a version at a time; success means published |
| CI and docs workflows, build hook, binding check | `ci.yml`, `docs.yml`, `Build.rakumod`, `check-bindings.raku` | files | checks, builds | none | |
| Coq proofs, law tests | `proofs/coq`, `tests/lattice_laws.rs` | none | | | statements themselves, not a program |

How the parts interact, for Raku:

    provider-api.json ── generator ──► C header ──────► C shim (library)
                              └──────► Raku module ──► validate-provider-abi ── asks ──► C shim

    Raku program ── provider() ──► make-provider-raw ── configure, create ──► C shim
                                       │ %STATES                              │ record: count, host context,
                                       │                                      │ copy of the callback table
    native library ── VtResource ── retain / release / join ... ──────────────┤
                                       ▲                                      │
                                       └── provider-join, provider-drop, ... ◄┘   (callback, same thread)

A callback that succeeds calls make-provider-raw itself, so the shim is entered
again from inside a shim call. The Julia provider has no C part: its functions
are C callable, and its record is the Julia object. The gates and the generator
meet in the release workflow, whose jobs run them on the commit of a tag.

`VtResource`, `LatticeValue`, adopt, borrow and the native batch entry points
belong to the package `vinary-tree-interop`, which is not in this repository.
They are modelled by how this code uses them: a handle owns one reference, gives
it back once, and is not closed by its owner in the middle of a call it is an
argument of.

## 2. Modules

| Module | Role |
|---|---|
| `HostedResource` | abstract: a host object is adopted, shared by handles, and dropped once after the last of them is closed. No counters, addresses, locks or threads |
| `ProviderShim` | the C shim, one step per access to shared memory |
| `RakuProvider` | registry, callbacks and make-provider-raw of the Raku provider |
| `JuliaProvider` | registry, counts, callbacks, finalizers and collector of the Julia provider |
| `LawCheck` | validate-laws of Raku and validate_laws of Julia, over an arbitrary class of values |
| `ManagedValues` | the value classes of both packages |
| `LatticeImpls` | the Rust implementations, as operators, and the orders they are documented with |
| `Replication` | replicas of any Rust type that merge states over an unreliable network |
| `ProviderContract` | the contract of the Raku ABI, its validation, both renderings and the handshake, as operators |
| `AbiGenerator` | the generator at work, and modules and libraries of different generations |
| `InvariantRegistry` | the registry gate, step by step |
| `Release` | release.yml with the release-ref and metadata checks its jobs run |
| `ProviderShimProofs`, `RakuProviderProofs`, `JuliaProviderProofs`, `LawCheckProofs`, `ReplicationProofs`, `AbiGeneratorProofs`, `InvariantRegistryProofs`, `ReleaseProofs` | theorems about the module in the name |
| `MC...` | small instances for TLC |

`ProviderShim` and `RakuProvider` are both shown to implement `HostedResource`
(`INSTANCE ... WITH`). `RakuProvider` takes the shim by exactly what the first of
these refinements establishes: create adopts or fails without keeping the
context, and the last close runs the drop callback once, on the closing thread.

Names ending in a suffix after an underscore (`Release_AtTwo`) and commented
`Mutant` are plausible bugs of the definition that follows them. They are not
part of a specification; each shows that a property can fail.

### ProviderShim

State: the three statics (`lockHeld`, `configured`, `callbacks` by member), the
heap (`allocated`, and per address `references`, `hostContext`, `installed`),
the handles outside (`held`), the locals of each thread (`pc`, `table`,
`status`, `ctx`, `host`, `out`, `todo`), the lattice call a thread is inside
(`call`) and four history variables used by properties only (`adopted`, `drops`,
`accepted`, `refused`).

| Code | Actions |
|---|---|
| configure, provider.c:186-229 | `Configure` (the NULL check), `AcquireLock`, `CompareTable` or `BeginWrite`, `WriteSlot` per member, `PublishTable`, `ReleaseLock` |
| create, 231-273 | `Create` (the acquire load), `Allocate` or `AllocateFails`, `CopySlot` per member, `FinishCreate` |
| retain, 39-43 | `Retain` |
| release, 45-52 | `Release` (the fetch-sub), `Drop`, `Free` |
| the lattice vtable, 71-161 | `Call`, `Return` |

The memory is sequentially consistent in the model. The code's orderings (a
release store of the flag, an acquire load in create, acquire-release on the
count) make every unlocked access that races in the model ordered in the code;
a run on weaker orderings is not modelled. A thread may be in a call and start a
create, retain or release underneath it, as the callbacks do; calls nest one
deep.

### RakuProvider

Each thread has one `frame`, the arguments and locals of its operation, so that
an action changes a record and the shared variables. Lookup of the receiver,
lookup or borrow of an operand, decode, encode, configure, taking the id,
inserting, creating, rolling back, recording the diagnostic and dropping are
steps of their own, because an exception or another thread may come between
any two of them. `Died` sends an exception to `Catch` in a callback and to the
caller in `provider` and `value`; an exception of user code may be of a class whose
message is not to be had (`UserDies`), and then `Catch` leaves the diagnostic as it was.
A critical section is one step that takes the
lock and one that works and gives it back; taking the id is a single step,
since nothing else reads `$NEXT-ID`.

`state()` reads `%STATES` without the lock. A Raku hash read during a concurrent
insert or delete is undefined; the model lets such a read miss (`Misses`).
`Join` and `Meet` are arbitrary functions: the provider promises the fold, not
the laws.

### JuliaProvider

The same operations over objects at reusable `Addresses`. `ProviderState(t)`
dereferences the context without the registry; `Collect` frees an object that
neither the registry nor a running callback refers to. A finalizer (`Finalize`)
closes an unreachable handle on any thread, between two of its steps, but not
while that thread holds the lock (Julia's locks defer finalizers while held). It
cannot wait, so a lock in other hands makes provider_release throw and swallow.

`record_failure!` may throw itself (`escaped`): what the process does after that
is not modelled.

### LawCheck and ManagedValues

The two checkers are the same three nested loops: pairs (commutativity and
absorption), single items (idempotence), triples (associativity). The state is
the samples, the loop, the positions of its loop variables (`cursor`) and the
verdict. `Begin` is the emptiness test, `Reject` an exception, `Advance` the next
round of the innermost loop that is not at its end, `NextLoop` the end of a loop
or of the check. The wording of the exceptions is kept only as the number of the
law in its loop body (`fault`).

A class is its `Carrier`, `Join`, `Meet` and `Equal`, all CONSTANTS. `Equal` is
assumed symmetric and transitive, and equal values, merged with one that equals
itself, give equal values. It is *not* assumed reflexive: a Julia NaN does not
equal itself. `ManagedValues` gives the classes of the packages
(`OptionalLattice` over `FiniteSetLattice`), and `MCLawCheck` adds classes that
are lattices nearly or not at all.

### LatticeImpls and Replication

The operators of `LatticeImpls` are the bodies of `join` and `meet` in lib.rs,
together with the order each type is documented with (`Below`). `Option` is over
`HashSet`, whose order is not a chain. Integers have no width: neither max nor
min can overflow. `Equal` is Rust's `==`: no NaN equals anything.

`Replication` gives each replica a value of one such type. `Update` joins an
operand in, `Send` puts the current state on the network, `Merge` joins a state
from it. The network only grows and nothing says that a message is received, so
messages are late, repeated, reordered and lost. The history variable `observed`
is the set of updates that a state stands for. Replicas are compared by `Equal`, as a
program that tests for convergence does: `Converges` says that replicas of one
`observed` compare equal *except* when all they have observed is NaN, which is the
exception docs/engineering/03-security.md:29-31 warns of, and that a NaN among
numbers is no exception. Vecs are compared by content.

### ProviderContract and AbiGenerator

`ValidModel` has the rules of validate_model in the order of the code, since a
later rule may only be asked where the earlier ones hold. A rendering is the
record of the declarations it consists of: macros, typedefs and prototypes of the
header; constants, maps and native subs of the Raku module. A callback parameter
of a sub is a signature of its own; `Abort` is the generator giving up.

`AbiGenerator` has the tree (`contract`, `header`, `raku`), the process (`pc`,
`mode`, `model`, `stale`, `exit`) and the header that the native library was
built with. Files go by the name of the contract they were rendered from, or
`Other` (edited by hand, torn, absent). `Start` reads, validates and renders;
`WriteHeader`, `WriteRaku`, `CheckHeader` and `CheckRaku` handle one file each;
`Interrupted` stops the process anywhere, also half way through a file;
`EditContract`, `ReplaceHeader` and `ReplaceRaku` are everything else that happens
to a tree. `Takes` has the libraries that each module may load with. The handshake
is modelled by its calls: a getter is looked up by its Raku name among the subs that
were generated (`Answers`), the sub leads to a C symbol, and what the shim's function
of that symbol returns (`NativeAnswers`) is compared; a name given twice, or one of
the generator's own, does not compile (`RakuCompiles`), and of a function that the
handshake does not mean nothing is known of what it returns. No policy is assumed for
`sinceApiRevision`, which nothing in the code compares with a library: two contracts
with the same numbers may have different functions, and then the module takes the
library and finds out at its first call. `ListsAssumption` says that a JSON array is a
sequence, and `NamesAssumption` that no callback has the name of a function, as the
patterns LlatticeRaku... and llattice_raku_provider_... see to.

### InvariantRegistry

A tree is abstracted to what the script asks of it: the kind of each registry
line, the columns of a row as far as a rule looks at them, the words in each
specification, the function names and hook comments in each test. `ParseLine`,
`CheckRow`, `ScanHooks` and `Close` are the loops of the script, one round at a
time; `Crash` is the `ValueError` of section 6.

The rules are stated a second time as the docstring has them (`Traceable`), of all
rows at once, with three parameters: how a name is looked for, what makes a row
without a test a proof, and which ids hooks name. `Documented` takes the docstring by
its word; `Enforced` weakens those three to what the script asks for. Both are used: the
verdict is exactly `Enforced`, and what is `Documented` (with one id to a comment) is
not turned down. `DocstringIsStricter` in `MCInvariantRegistry` shows that the
difference is real.

### Release

A run has a ref, the commit the ref had at its dispatch, a destination and five
jobs; both publishing jobs are one, `publish`, since a run has one destination.
`Dispatch`, `Start` and `Rerun` are the concurrency group of lines 19-21: one
run of a ref at work, one waiting, the newest wins. `Needs` and `Wanted` are the
`needs:` and `if:` of the jobs, `Passes` what the steps ask of the commit.
Publishing is in three steps (`Approve`, `PreflightCrate` or `ViewRelease`, then
`PublishCrate` or `CreateRelease`), because other runs and the outside act
between them. A publication may be done while its answer is lost; `Propagate` is
the delay until crates.io shows what it has; `FailJob` is any failing step, a lost
runner or a reviewer who says no.

## 3. Runs

| Run | Instance | Distinct states | Shows |
|---|---|---|---|
| `Shim` | 2 threads, 2 addresses, 3 handles, 2 host contexts, 3 tables of 2 members, fair | 408 453 | one table for all, exact counts, nothing dangles, live arguments, one drop each; refinement of `HostedResource`; lock given back; records freed |
| `RakuShared` | 2 threads, 2 handles, 3 ids, provider and join, fair | 94 266 | registry = what is owned; refinement of `HostedResource`; every operation ends |
| `RakuCalls` | 1 thread, every operation, 3 handles, 3 ids, 2 domains, 2 foreign resources, batches up to 2 | 1 043 740 | folds, comparisons, domains, failures, diagnostics |
| `RakuOverlap` | 2 threads | violated | section 6 |
| `JuliaShared` | 2 threads, 2 handles, 2 addresses, fair | 52 760 | exact counts, live contexts, closed objects collected |
| `JuliaCalls` | 1 thread, every operation, 3 handles, 3 addresses, finalizers | 1 184 196 | folds, comparisons, domains |
| `JuliaFinalizer` | 2 threads, finalizers | violated | section 6 |
| `LawCheck` | up to 3 samples of: the value classes, every pair of operations on 2 values, a chain of 3 values with one result changed, a class with a coarse equality | 65 029 | what is accepted and rejected, which counterexample is named |
| `Replication` | 3 replicas, 3 updates, 2 states under way; numbers -1..1, 2 elements, Vec operands up to 2 | 93 875 | convergence under `==`, no step back, documented bounds, NaN, Vec |
| `AbiGenerator` | 5 contracts (2 revisions, 2 ABI versions, names of getters swapped, a name given twice), 26 drafts that break a rule each, masks of 4 bits | 239 590 | honest exit codes, agreeing outputs, exact handshakes where the getters have their names |
| `InvariantRegistry` | 5950 trees: up to 4 lines, each drifted in one way, 5 sets of hooks | 67 030 | accepts exactly the registries that obey its rules; reports every fault |
| `Release` | 2 runs, a tag and a corrective tag, 4 commits, 2 versions | 134 095 | verified publications, one publisher at a time, success means published |

Why the bounds are enough. Two threads are what each race of this code takes: no
step waits for two others. Two callback members are enough to see a half-written
table, and the three tables differ in one member, or have a NULL. A host context
can be created at an address that another one has left. Three handles let a
record have an owner, a second owner and an argument of a call. A batch of two
operands tells a left fold from a right one, because the MC modules give `Join`
and `Meet` operations that are neither commutative nor associative. Three samples
give the law checker triples of different values, and hence the samples of every
counterexample to associativity; the 256 pairs of operations on two values are
all there are, and the changed chains break one law at a time. Three updates are
what it takes to tell groupings of a merge apart, and two states under way can
overtake each other; the numbers hold the infinities as ends and NaN besides. The
drafts break one rule of validate_model each, and the accepted contracts include
two revisions of one ABI version, one that changes an old prototype under a new
ABI version, and one that moves a capability. Among the trees of the registry are
faults in up to three lines at once, a repeated id, a broken line before and after
good ones, empty and reversed ranges, hooks without a row and rows without a hook.
Of the commits to be released, one lacks only its proofs and one only a
Raku description that agrees, so that each gate is the only one in the way of
something. Two runs are enough for every step
of one to fall between two steps of the other; the corrective tag names the same
version as the tag, so that the two are in different groups and want the same
publication.

`OperationsEnd`, `RecordFreed` and the other temporal properties are checked
without symmetry; `RakuCalls` and `JuliaCalls` take threads, handles and
addresses, and `Replication` replicas and elements, as interchangeable, which
they are (no constant or definition names one).

`CHECK_DEADLOCK FALSE` stands in the Raku configurations, where ids are never
given back, so that under `IdBound` the system stops when all are used and all
handles are closed; in `LawCheck` and `InvariantRegistry`, whose programs return;
and in `Release`, where all runs may be used up.

Named bounds: `IdBound`, `OperandBound`, `Offered` (RakuProvider),
`OperandBound`, `Operations`, `Finalizers`, the size of `Addresses`
(JuliaProvider), `HostContexts`, each lent once (ProviderShim), `SampleBound`
(LawCheck), `VecBound` (LatticeImpls), `UpdateBound`, `NetBound` (Replication),
`Runs`, each dispatched once (Release), `Numbers` (InvariantRegistry). `IdIsLeft`
and `RoomIsLeft` keep an operation from starting that the bound could not finish,
so no behaviour is cut in the middle.

### Fairness

- ProviderShim: a thread inside configure, create or release goes on (weak
  fairness of each of the three). Clients need not do anything. Lock waiting:
  the spin lock gives no turn to a particular thread, so only that the lock is
  given back (`LockReleased`) is claimed, not that each configure ends.
- RakuProvider: weak fairness of a thread's own steps, and strong fairness of
  taking `$LIFETIME-LOCK`: a thread that waits for a lock that is free again and
  again gets it. Every critical section is a single hash operation, so a waiting
  thread meets a free lock often; the model assumes that the operating system's
  mutex does not pass it over for ever.
- JuliaProvider: the same, with strong fairness of taking the lock, justified by
  the wait queue of `ReentrantLock`, and weak fairness of the collector, which
  runs in the end.
- The other modules state no liveness: the network of `Replication` promises
  nothing, the scripts and checkers are loops over finite data, and that a release
  run ends rests on GitHub and on a reviewer, not on the workflow.

## 4. Properties

The names are those of the modules, where each has a comment with the lines it
is about.

- Configuration: `TableAgreement` (all threads that were told OK brought the
  installed table, and none that brought it was refused), `TableFrozen`,
  `InstalledWhole` (no provider anyone can reach was built from a half-written
  table).
- Lifetime: `ReferencesExact`, `NoDanglingContext`, `CallsSeeLiveHosts`,
  `DroppedExactlyOnce`, `ImplementsHostedResource` (twice), `OwnedAreRegistered`,
  `NoRegistryLeak`, `CountsAreExact`, `ContextsAreLive`.
- Isolation of threads: `EntriesAreImmutable`. That an id is used by one thread
  only (`EntriesAreDisjoint`) is a part of the invariant proved for it.
- Results: `ResultsAreRight` (twice), `DomainsNeverMix`.
- Failure: `FailureLeavesNothing`, `DiagnosticIsRecorded` (whenever there is a message
  to read, section 6; for one thread: there
  is one diagnostic per context, and with two overlapping failures the second
  message replaces the first).
- Progress: `LockReleased`, `RecordFreed`, `OperationsEnd`, `ClosedIsCollected`.
- Law checking: `AcceptedAreBounds`, `LatticesPass`, `FirstCounterexample`.
  The first is more than the laws repeated: the samples need not be closed under
  join and meet, and still the accepted operations have one partial order whose
  least upper and greatest lower bounds they are. It also shows that a NaN sample
  is always turned down.
- Values and replicas: `JoinAndMeetAreBounds`, `NaNIsDropped`, `VecIsABiasedSet`,
  `VecLawsOnValues`, `Converges` (replicas that hold only NaN never compare equal, all
  others do), `NeverGoesBack`. They are asked at the values that replicas reach, not at
  a list of operands.
- Generated ABI: `ExitCodeIsHonest`, `OutputsAgree`, `HandshakeIsSafe` (what the calls
  by name admit, against the numbers of the two contracts).
- Registry gate: `AcceptsExactlyTheTraceable` (the loop with its sets of ids
  against the rules of the docstring), `EveryFaultIsReported`.
- Releases: `PublishedIsVerified`, `OnePublisherPerVersion`, `SuccessMeansPublished`.

The type invariants are proved (section 5), not run again; those of `LawCheck`
and `InvariantRegistry` are parts (`TypeInv`) of their proofs' invariants.

`ResultsAreRight` speaks of the fold of a batch as the last of a sequence of
partial results (`FoldsTo`): there are values, the first the receiver's and each
next one the merge of the one before with the next operand, that end in the
value returned. That is what the loops of the callbacks compute, said without
the loop.

## 5. Proofs

Every theorem is about any values of the constants that satisfy the assumptions
of the module, named there. No invariant is inductive alone; what each proof
adds, and why:

**ProviderShimProofs** (all safety of `Shim`; assumed: `ShimAssumption`, handles
are finite in number, `NullAssumption`). Proved in layers, each using those below
it:

1. `FrameTypeOK`: types without the counts, and for each `pc` which locals are
   set (`FrameInUse`). The counts are left out: that `references` stays in `Nat`
   is a *result*, since a release subtracts.
2. `TableInv`: lock exclusion; while nobody writes, the table is empty or a whole
   one; during a write the members already written agree with the argument; a
   create past its check implies `configured`. Gives `LockIsExclusive`,
   `TablesAgree`, `TableIsFrozen`.
3. `HeapInv`: what handles and threads point to is allocated, and no two builders
   or destroyers share a record; the count equation. The count is a cardinality,
   so each action has a lemma about adding or removing one handle. Gives
   `CountsAreExact`, `NothingDangles`, `TypeCorrect`.
4. `InstalledInv`: members copied so far agree with the table. Gives
   `ProvidersCarryWholeTables`.
5. `HostInv`: each adopted host context is in one record and dropped when that
   record is past its drop. Gives `HostsAreDroppedOnce`.
6. `CallInv`: handles of a running call are open and the recorded host contexts
   are those of their records. Gives `CallbacksSeeLiveHosts`.

`ShimImplementsHostedResource` maps every step to a step of `HostedResource` or a
stutter: `FinishCreate` to `Adopt`, `Retain` to `Share`, `Release` to
`CloseHandle`, `Drop` to `DropHost`, everything else to a stutter. That `DropHost`
is enabled there is `HeapInv`: the count is zero, so no handle is left.

Every safety invariant and action property of the runs is proved. Where a proof
speaks of a fold it needs induction. The library's induction theorems take an
operator as a parameter and no installed prover can instantiate them, but the
same is said of a *set* of numbers: one that has 0 and every successor has them
all (`Induct`), from `WFMin` and the well-foundedness of `<`. `FoldLeft` is a
CHOOSE of a function by its recursive equation, so it is first shown that there
is such a function, and then each fold is read as its partial results.

**RakuProviderProofs** (`Inductive`; assumed: `RakuAssumption`, in particular
that merges yield values, threads are finite in number and foreign resources are
no ids, and `NullAssumption`). One invariant of ten parts. `FramesOK` says which
locals each program point has set; `FreshIds` and `Bounded` that an id beyond
`$NEXT-ID` is nowhere, and that the operations already admitted fit under the
bound; `EntriesAreDisjoint` and `EntryInv` that a registered entry is in the hands of
one thread or of handles, never of both, which is what failing creates and drops
rest on; `OwnedInv` is `OwnedAreRegistered` with `adopted`; `ArgsInv` that arguments
stay open and borrows are where the code holds them; `DomainsInv` that what has been
folded so far is of the receiver's domain. Besides the safety properties it gives
`RegistryImplementsHostedResource`: `Create` adopts, `Retain` shares, `Close` closes, a
drop forgets, and every other step stutters.

Two more are layered on top. `OperationsAreRight` adds `ResultsInv`: the value an
operation has at each program point is the fold of the operands it has gone through,
and what it registers is that value. It holds across the steps of other threads
because entries that are owned or in the hands of an operation keep their value.
`OneThreadFindsTheReason` needs beside it that no diagnostic is ever a message that
could not be read (`Legible`). It assumes that there is one thread, the premise under which
`DiagnosticIsRecorded` is promised at all (section 4); that thread may be any, and all
other constants are free.

**JuliaProviderProofs** (`Inductive`; assumed: `JuliaAssumption`, with finite
threads and handles and closed merges, and `NullAssumption`). `CountInv` ties the
count of an object to the handles that own it plus the closes under way, exactly
without finalizers and as a lower bound with them; the sum of two cardinalities
needs a lemma per step (`OwedNext`). `RootedInv` (what is registered is an object with a
positive count), `ArgsInv` (what running callbacks point to is owned or just being
closed) and `LockInv` give `CallbacksSeeLiveObjects`: the unlocked lookup is safe because
an owner keeps the registry entry, not because of the lock. `CallbacksAreRight` adds
`ResultsInv`, by layers like in Raku, with one more thing to show: an address may be given
to another object between two steps, so a meaning must be that of the object its caller
still owns (`OwnedAreKept`), not that of the address. The same lemma is a result of its
own, `HandlesKeepTheirObject`: until it is closed, an open handle stands for one object,
with one value. No run checks that action property.

**LawCheckProofs** (the three properties of `LawCheck`, for every class of values,
every `SampleBound` and every equality as described in section 2):

1. One operation that is commutative, idempotent and associative on a set S of
   values gives an order on S, of which it is the least upper bound
   (`OrdIsTransitive`, `OpIsAbove`, `OpIsLeast`, `OrdIsAntisymmetric`). Each law
   is used only at values of S, so S need not be closed.
2. Absorption makes the orders of join and meet opposite (`OrdersAreOpposite`);
   together, `LawsGiveBounds`. The converse for a whole class is
   `BoundsGiveLaws`.
3. `LoopInv`: all positions of the loops before the current one, and all that
   come before the cursor, have passed. It is needed because the verdict alone
   says nothing about rounds long past. `SuccessorIsNext` and `EndIsLast` are the
   facts about the order of the rounds that the steps `Advance` and `NextLoop`
   rest on.
4. `AcceptanceGivesBounds`, `LatticesAreAccepted` and `FirstIsReported` follow
   from 2 and 3.

**ReplicationProofs** (any replicas, numbers, elements, updates and messages). The
invariant is that every state, at a replica or on the network, *stands for* its
updates: it is their maximum, their union, or, for floats and options, the same of
those that are not NaN or None (`Stands`; `TypeCorrect`); a Vec has their items, in
whatever order (`Holds`). Two states that stand for the same updates are one value, for
Vec up to order and repetition, and a float among them is NaN only if all updates were,
which makes `ReplicasConverge`; a merge stands for the union of
the updates, whatever arrived before. The facts about Vec (`VecsAreBiasedSets`,
`VecValuesAreLawful`) go by induction on the items of one operand: `VecJoinOf` and `VecMeetOf` say what one more
item does, and counts, contents, associativity and absorption follow item by item.

**AbiGeneratorProofs**. `ExitCodesAreHonest` adds what the run so far has done in
an undisturbed tree (`Progress`): the header is written, or is in `stale` exactly if it
differs. `RenderingsAgree` is a fact about each accepted contract. Its hard part is
that a *sum* of capabilities is their *disjunction*: `AddBit` shows that adding a power
of two where its bit is clear sets that bit, carries nothing and stays within the width
(by induction on the bit, halving the number), and `MaskIsTheUnion` goes through the
partial sums with it. That 2^(k+1) is twice 2^k (`Powers`) comes from counting subsets,
since the prover knows nothing of exponents. `HandshakesAreSafe` needs no assumption
beyond those: `AnswerOfGetter` takes a call from its name to the one sub of that name
and on to the function of its symbol, and the equality of sum and disjunction does the
rest, in both directions.

**InvariantRegistryProofs**. `RowsInv` ties rows to lines, and duplicates among
rows to duplicates among lines; `FailuresInv` says that the list of failures is empty
exactly if all that was looked at is in order; `IdsInv` that `seen` and `backed` are the
ids of the rows so far. The verdict is first had in the words of the script (`InOrder`),
and then in those of the rules (`InOrderIsEnforced`, `DocumentedIsEnforced`). `ReportInv`, above these, is that each fault so far is in the
list.

**ReleaseProofs** (assumed: `CommitAssumption`, `RefAssumption`). `RunsInv`: each run is
*sound*, i.e. a job that succeeded has earned it and a publication under way is at the
tag of its version, which still points at the run's commit. `Exclusive`: no two runs
of one ref are at work. `CratesInv`, `ReleasesInv`: what is public was such a run's.
`SuccessInv`: what a run calls published is. `OnePublisherPerVersion` follows from the
first two, since `ValidateReleaseRef` leaves one ref to a version.

Only model-checked: liveness (`LockReleased`, `RecordFreed`, `OperationsEnd`,
`ClosedIsCollected`), and the fairness half of the two refinements, both
out of the prover's reach; and the disagreements of section 6, which are
counterexamples.

## 6. Where code and documentation disagree

Two are runs that TLC ends with a counterexample.

- `RakuOverlap`: `state()` reads `%STATES` without `$LIFETIME-LOCK`, which every
  write takes. docs/bindings/README.md:73 lets callbacks overlap under
  `PARALLEL_REENTRANT`; such a call may report an open context as closed. Under
  this reading of an unsynchronised hash the other Raku properties still hold: a
  missed lookup is a failure, and failures are clean.
- `JuliaFinalizer`: LLattice.jl:181 calls release infallible, and finalizers are
  the documented fallback; a finalizer that finds the lock taken loses its
  release, and the provider is kept for ever. With finalizers `CountsAreExact`
  therefore claims only that counts are never too *small*.

Four are passing runs whose property says what the code does where a document says
otherwise; PROJECT.json quotes both sides under "findings".

- `RakuCalls`, `DiagnosticIsRecorded`: docs/bindings/README.md:69-70 lets a caller
  retrieve the diagnostic of a failure. `try state(...).diagnostic = .message` also
  swallows a failing `.message` of the user's exception, and the caller reads the
  reason of an older failure, or nothing.
- `Replication`, `VecLawsOnValues`: README.md:105, docs/theory/03 (198-205, 215),
  lib.rs:43-45 and tests/lattice_laws.rs:127-128 say that absorption or associativity
  fail on raw `Vec`. Both hold on the values themselves, order and repetitions
  included; only commutativity does not. (lib.rs:199 also describes Vec join as
  "concat + dedup", but repeated items of the left operand stay: `VecIsABiasedSet`.)
- `AbiGenerator`, `HandshakeIsSafe`: bindings/raku/README.md:60-63 says that a shim of
  an incompatible ABI version or an older revision is rejected. The generated
  handshake calls getters by Raku names that validation ties to no symbol and does not
  keep apart; `ADifferentAbiMayBeTaken` (MCAbiGenerator) exhibits an accepted contract
  whose module takes a library of another ABI version. The committed contract has the
  names right, and for such contracts the property holds.
- `InvariantRegistry`, `AcceptsExactlyTheTraceable`: the docstring of
  check-lattice-invariants.py asks for a spec name that is found verbatim (line 13), a
  formal-only row to be a Rocq, TLA+ or SMT proof (15-17) and every id of a hook comment
  (19-20) to be registered; the code looks for the first word, for the strength only and
  for the first id. `DocstringIsStricter` (MCInvariantRegistry) has an accepted registry
  for each.

One follows from what the documents say themselves: docs/engineering/03-security.md:29-31
warns that a NaN can keep replicas from ever comparing equal, and `Converges` makes that
exception and no other.

Others, seen while modelling and modelled as the code has them:

- LLattice.jl:393-394 calls join and meet lock-free; every result is registered
  under the one registry lock.
- `record_failure!` runs the user's `showerror` in the catch blocks of C-callable
  functions (`escaped` in the model); docs/bindings/README.md:69 says exceptions
  are caught before they cross a C frame.
- docs/bindings/README.md:49 says the empty fold returns a retain of the
  receiver; both providers register a new provider with the same value.
- bindings/raku/README.md:58-59 says the check fails if a generated file differs
  "byte-for-byte"; read_text translates line ends, so a file with CRLF passes
  (hence `SameHeader` compares renderings).
- The generator accepts names that end in an underscore and a digit (`a_1`), which
  are no Raku identifiers; `true` passes for the integer 1.
- check-lattice-invariants.py: the title names abi-invariants.tsv. Rule 6 speaks of
  two families of ids, VT-* and LLING-*; the code takes hooks of any family. An
  smt name with "[" and no "]" raises ValueError and all failures found so far are lost
  (`Crash`).
- check-release-ref.py --self-test has no case of a branch that is *named* like the
  tag. The check refuses it, as does the `if:` of the publishing jobs.
- release.yml: an error of `gh release view` looks the same as an absent release;
  `gh release create` refuses the second release of a tag, so nothing is lost.

## 7. Not modelled, and why

- The weak memory orderings of C11 (see ProviderShim), and NULL arguments, which
  are refused by an early return that changes nothing.
- provider_query: constant. The sizes that the handshake compares are the same
  constants on both sides, which take them from one interop package; a version beyond
  32 bits, which validation allows and C would cut off.
- Raku names that are no identifiers (`a-1`) or hide a sub of the language that the
  generated module uses.
- A NaN in Raku, user classes compared by eqv, and hash, length, in and iterate of
  the Julia values, which the law checker does not use.
- Byte strings: stable bytes are taken as the value they encode. copy-bytes,
  written and required counts are not modelled.
- Thread attachment (`THREAD_BOUND`): enforced outside this repository.
- The layout and quoting of generated texts, and the text patterns of the gates
  (regular expressions are sets of names).
- Tags that are moved: docs/engineering/04-releasing.md:25-27 rules it out, and
  `SetRef` never does it. What branch protection and environments enforce is
  GitHub's.
- ci.yml and docs.yml, which run the same gates and publish no release; the build
  hook, which runs a compiler; check-bindings.raku, which compares a table with
  sources and runs test suites.
- The counters and registers of guide 03 and the fixpoint loops of guide 04: types
  and loops of the reader, none of it in the crate. The merge of built-in types is
  modelled.
- Coq proofs and tests, which are statements.

## 8. Plan

Done: the abstract resource, both providers and the shim with their proofs; the
law checkers with theirs; the Rust types as replicas that merge; the generator,
the handshake and the registry gate; the release workflow.

What would add most from here:

1. `ProviderShim` and `RakuProvider` in one module, to replace the contract between
   them by the composition (two refinements of one specification stand for it
   now).
2. The worklist of guide 04, should the crate ever ship it.
3. The Julia provider as a third refinement of `HostedResource`, with addresses for
   identities.
