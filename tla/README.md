# GT4Py in TLA+

GT4Py turns Python stencil programs into compiled extensions. Most of the
repository is a compiler: syntax trees in, syntax trees out, with no state that
outlives a pass. What is hard to test lies around it. Programs are compiled by
worker threads and processes while the application runs; several processes (MPI
ranks, workers) share caches and build folders on disk, and any of them may fail
or be killed at any point; calls of programs share instrumentation state; and
programs run without a compiler rest on index arithmetic over domains that may be
empty, unbounded, staggered or non-contiguous. This project models those parts,
checks them with TLC on small instances, and proves their safety properties with
TLAPS for every size.

Paths below are relative to `src/src/gt4py/` of the repository.

## 1. Inventory

| Component | State | Operations | Interacts with |
|---|---|---|---|
| Compiled-programs pool (`next/otf/compiled_program.py`) | `compiled_programs`, `_compilation_jobs` of each pool; the module-wide weak table `_ongoing_compilations` | `__call__`, `compile`, `_compile_variant`, `_finish_compilation_job`, `wait_for_compilation` | submits to a runner, loads artifacts, several threads |
| Runners (`next/otf/runners.py`) | `_default_runner` and its lock; the executor of each runner | `submit`, `shutdown`, `get_default_runner`, `reset_default_runner` | worker threads and processes |
| CPP compilation step (`next/otf/compilation/compiler.py`, `build_data.py`, `importer.py`) | `gt4py.json` and the extension module of a folder; the folder's file lock | `CPPCompiler.__call__`, `CPPCompilationArtifact.load` | calls a build system |
| compiledb build system (`build_systems/compiledb.py`) | compile commands and static libraries of a folder; the template project shared by all programs of a configuration, and its lock | `CompiledbFactory.__call__`, `CompiledbProject.build`, `_cc_get_compiledb` | CMake project for the template |
| CMake build system (`build_systems/cmake.py`) | files of its folder | `CMakeProject.build` | cmake, ninja |
| DaCe compilation step (`runners/dace/workflow/compilation.py`) | library and completion marker of a folder, the folder's file lock | `DaCeCompiler.__call__`, `DaCeCompilationArtifact.load` | DaCe |
| Folders, locks, atomic writes (`otf/compilation/cache.py`, `_core/locking.py`, `_core/file_utils.py`) | the file system | `get_cache_folder`, `lock`, `atomic_write_*` | all of the above |
| Translation cache (`_core/filecache.py`, `otf/workflow.py`) | one pickled file per key, each with a file lock | `FileCache.__contains__`, `__getitem__`, `__setitem__`, `__delitem__`, `CachedStep.__call__` | gtfn and DaCe workflows |
| Program calls and instrumentation (`next/instrumentation/`, `ffront/decorator.py`, the hooks of `compiled_program.py`) | contexts entered by a hook, kept in the hook; the metrics key in a context variable; key caches; `metrics.sources`; the profiler's session and user count | `Program.__call__`, `FieldOperator.__call__`, hook calls, `start_profiling_calls`, `stop_profiling_calls` | the pool's calls, several threads |
| Domains and fields (`next/common.py`, `next/embedded/`) | values | ranges, `&`, `\|`, premap, restriction, broadcast, `concat_where`, `neighbor_sum`, assignment | programs run without a backend |
| Cartesian caching (`cartesian/caching.py`, `stencil_builder.py`, `backend/`, `loader.py`) | generated files of a stencil, without a lock | `StencilBuilder.build`, the check of the cache, `generate`, `load` | the import system |
| Compilation tasks (`otf/compilation_tasks.py`) | registry of dumped connectivities keyed by object id | `make_compilation_task`, `_dump_connectivity` | runners |
| Compiler passes (`next/ffront`, `next/iterator`, `dace/lowering`, `dace/transformations`, `cartesian/frontend`, `cartesian/gtc`) | syntax trees | rewriting | each other |
| eve, storage, type system | plain values | pure functions | everything |

What is hard here:

* **Interleaving.** The pool's tables are plain dictionaries without a lock. A
  key is tested, popped and stored in separate steps, and the runner is fetched
  before a possibly long lowering and used after it. A cache entry is looked up
  before its lock is taken. The contexts that a call enters are kept in the hook,
  an object all threads share. The cartesian cache takes no lock at all.
* **Ordering.** A job is submitted, then stored in its pool, then tracked. The
  files of a cartesian stencil are written in place, one after the other.
* **Failure.** Lowering, compilation and loading may each raise; a worker
  process may die; a process may be killed between two file writes; a program may
  raise between two contexts.
* **Locks.** The lock of the default runner is held while the runner is shut
  down; the template lock is taken inside a folder lock; the artifact is used
  after the folder lock is released.
* **Weak references.** The table of ongoing compilations forgets a future when
  nothing else refers to it, but an exception that was raised keeps its future
  alive until the cyclic collector runs.
* **Boundaries.** Empty and half-open ranges, half-cell shifts that round
  differently, neighbour tables with holes, one-element axes that stand for a
  whole range.

What makes each component correct: a wait is a barrier and loses no failure; no
operation hangs; the bookkeeping itself never raises; on disk, a completion
mark is only ever next to a complete artifact, no interrupted build makes a
later one fail, what was handed out can be loaded, and a good entry is used; a
call that nothing overlaps is measured exactly once, whatever happened before; a
field's buffer read through its domain is what the operations mean.

## 2. Modules

| Module | Models | Role |
|---|---|---|
| `CompilationPool` | the pool and the runners | detailed specification |
| `CompilationPoolProofs` | | invariants proved for every instance, and what threads may rely on that keep out of each other's way |
| `ArtifactCache` | what a cache of artifacts promises | abstract specification |
| `BuildFolder` | `CPPCompiler` over compiledb and its template | detailed, implements `ArtifactCache` |
| `BuildFolderProofs` | | invariants and the refinement, proved |
| `DaceBuildFolder` | `DaCeCompiler` | detailed specification |
| `DaceBuildFolderProofs` | | invariants, proved |
| `TranslationCache` | `CachedStep` over `FileCache` | detailed, implements `ArtifactCache` |
| `TranslationCacheProofs` | | invariants and the refinement, proved |
| `ProgramCalls` | calls through the hooks, metrics, the profiler | detailed specification |
| `ProgramCallsProofs` | | invariants, proved |
| `Domains` | ranges and domains of `next/common.py` | operators |
| `Arrays` | the array library, as far as fields use it (external) | operators |
| `Fields` | fields, connectivities and the operations of `next/embedded` | operators, `EXTENDS Domains, Arrays` |
| `Conditions` | conditions built from comparisons, `&` and `\|` | specification over `Domains` |
| `EmbeddedFields` | programs of field operations beside their meaning | composes `Fields` and `Conditions` |
| `ConditionsProofs` | | lemmas about domains, the conditions proved |
| `EmbeddedFieldsProofs` | | each operation of `Fields` proved exact, then whole programs |
| `StencilCache` | the cache of generated cartesian stencils | detailed specification |
| `StencilCacheProofs` | | invariants, proved |
| `MC...` | | instances of the above for TLC (`BuildFolder` needs none) |

The definitions whose comment begins with "Mutant" are not part of the models:
each is a plausible wrong version of the definition that follows it, which the
property named for it in `PROJECT.json` must reject.

### CompilationPool

A *variant* stands for one key of one pool: argument canonicalisation, static
arguments and hashing are abstracted to the choice of a variant, and the guard
that the key computed by the call and by the compilation agree is taken for
granted. A thread runs one operation at a time; its program counter is `pc`, its
locals are `var`, `jit`, `fut`, `run`, `todo`, `snap` and `failures`. One action
is one access to shared state:

* `__call__`: `Call` (the key), `Lookup` (`compiled_programs[key]`), `Probe`
  (`key not in _compilation_jobs`), `Pop`, `Result` (`future.result()`), `Load`
  (`.load()` and the store), `RunProgram`; a miss with `enable_jit` continues
  at `ExistingKey`, and `AfterCompile` is the recursive call.
* `compile`: `Compile` starts the loop, `NextVariant` takes one combination
  (the order is left open), `ExistingKey` is the duplicate check. The
  `compile_variant_hook` that follows it, with its assertion, belongs to the
  instrumentation and is modelled in `ProgramCalls` (`Jit`, `TakenKeyHasCause`).
* `_compile_variant`: `GetDefaultRunner`, `Submit` (with the lowering, which
  may raise, and the three runner classes), `Store` (`future.done()`),
  `EagerLoad` or `Track`.
* `wait_for_compilation`: `Wait`, `Reset` and `Drain` (`shutdown(wait=True)`
  under the lock), `Snapshot`, `Collect`, `Forget` (`del`).
* the environment: `WorkerFinish`, `WorkerCrash`, and the memory manager
  (`DropPool`, `CyclicGC`, `Reclaim`, `ReclaimRunner`).

`outcome` records how the last operation ended: normally or with which error.
`seen` and `reported` are history variables. Futures and runners are objects
from a finite set of identities, reused only when nothing refers to them, as
`id`s are. A future is unreferenced once it is resolved, no pool and no local
holds it and it is in no reference cycle; a failure raised from `result()` puts
it in one, through exception, traceback and frame.

### ArtifactCache, BuildFolder, DaceBuildFolder

`ArtifactCache` says that an entry is handed out only while it is valid,
becomes valid only on behalf of somebody who asked for it, and stops being
valid only through a client allowed to rebuild it or through external removal.

In `BuildFolder` a client (thread, worker or rank) follows
`CPPCompiler.__call__`: `Compile`, `Lock`, `Gate` (`is_usable` or
`force_recompile`), the template (`LockTemplate`, `FindTemplate`,
`CreateTemplate`, `PublishTemplate`), the build (`CopyLibraries`,
`WriteInitialized`, `RunConfig`, `WriteConfigured`, `RunBuild`, `Link`,
`WriteCompiled`), `Verify`, and `Load` after the lock is released. Files written
in place are `partial` in between; files published with `os.replace`
(`gt4py.json`, the template's compile commands) change in one step. `Crash`
kills a client anywhere: the operating system releases its file locks and the
files stay as they are. `CleanUp` deletes modules and truncates files from
outside. The history variable `excused` remembers, for a client's current
operation, that one of its own tools failed, that something outside touched its
folder or the template, or that a forced rebuild came between its `Verify` and its `Load`.

The refinement maps `valid` to the folders for which `is_usable` holds, `asked`
to the clients inside `CPPCompiler.__call__` and `served` to those that hold an
artifact not loaded yet; only clients with `force_recompile` are rebuilders.

In `DaceBuildFolder` the library is reused by DaCe on mere existence, and the
marker file vouches for it: `CheckMarker`, `UnlinkMarker`, `SdfgCompile` and
`SdfgBuild` (DaCe, external), `TouchMarker`, `Load`. The marker is withdrawn even
when there is nothing to build, so a client killed between `marker.unlink()` and
`marker.touch()` makes the next one drop a good library that others may be about
to load. The folder therefore promises less than `ArtifactCache` (an entry may
vanish without anybody asking for a rebuild) and is not shown to implement it:
`LoadsWhole` holds for clients that are not `excused`, which here means that the
library was deleted from outside or a client died in that window.

### TranslationCache

A client follows `CachedStep.__call__`: `Contains` (the lookup, before any lock),
`Lock`, `Load` (unpickle; a torn entry is evicted under the same lock by `Evict`
and is then a miss, a missing one is a miss), `Step` (the translation, which may
raise), `LockForWrite`, `WriteTemp`, `Replace`, `ReturnComputed` or
`ReturnCached`. Deleters run `__delitem__`: `Contains`, `Lock`, `Unlink`, with the
`FileNotFoundError` that an entry gone in between causes. `Kill` takes a client
anywhere and `Damage` truncates or removes the entries of `Fragile` keys. The
history variable `gap` says that a client's entry was missing or torn at some
moment of its operation. `ArtifactCache` is instantiated with the good entries as
the valid ones, the deleters as rebuilders and the fragile keys as removable.

### ProgramCalls

A call enters the program hook's context, then the context of its variant's hook,
runs, and leaves both: `Call`, `EnterProgram`, `Jit` or `Refuse`, `Open`,
`EnterVariant`, `Run`, `ClearVariant`, `ExitProgram`, `ClearProgram`. The context
managers of a call (the key that the collector will set, its token once it has
set it, and whether a time range is among them) are in the shared `ctx`, so a call
that overlaps another may enter or leave the other's. `CollectorExit` has the four ways in which
`BaseMetricsCollector.__exit__` ends, a token from another thread included.
Operators called directly open no program context, and leave the key set.
`Precompile` and `SetLevel` run beside the calls. The profiler's users take its
lock, register the hooks one by one and enter the session, which may fail
(`StartFirst`, `RegisterSecond`, `EnterSession`, `StartAgain`, `Stop`,
`UnregisterFirst`). A call is *excused* once another call overlapped it or the
metrics level was changed: the shared hook is exact for calls that do not overlap,
and the properties ask that an excused call does no harm to a later one.

### Domains, Arrays, Fields, Conditions, EmbeddedFields

These are pure algorithms checked against a reference definition. A domain is a
function from dimensions to ranges, a field an array with a domain, and the
operators follow the code's: normalised empty ranges, the two infinities, the
rounding of half-cell shifts, the inverse image of a neighbour table as a box,
slices relative to the buffer, one-element axes for broadcast dimensions, the cut
of `concat_where` into regions. The two loops of premap over its connectivities
(`_domain_premap`, `_gather_output_domain`) are given in closed form: premap has
rejected repeated codomains and order-dependent chains before, so each dimension is
renamed and shifted by at most one connectivity, and the ranges of a dimension that
several tables share are intersected, in whatever order. `EmbeddedFields` takes one field through a program
of such operations and keeps beside it `ref`, its value at every point of a window
according to the mathematical meaning alone. `Denotes` compares the two after
every step. Each operation may raise; `ErrorHasReason` asks for a reason in the
*meaning* of the operands, one definition per operation (`PremapReason`,
`RestrictReason`, `ConcatReason`, ...), and names the three limits that are no such
reason: the one element of a stretched axis cut as a whole axis, a relative slice
that ends at 0, and a skip value out of bounds (finding 4). The
set `excused` records the limits named under findings. `Conditions` builds a domain from comparisons with `&` and `|`
and keeps beside it the predicate it should be.

### StencilCache

A client follows `StencilBuilder.build`: `ReadSource` and `Check` (the two reads of
the module in `is_cache_info_available_and_consistent`), the three files in the
order they are written, each emptied by `Truncate` and complete after `Close`,
then `Import` and `ImportComputation`. Two writers that have emptied the same file
leave all or part of the text. `Crash` kills a client anywhere. The history in a
job says whether no other client wrote the stencil meanwhile (`alone`), and what
the build found when it started (`good`, `poisoned`); `killed` holds the stencils
somebody was killed while writing, until a build on its own has written them anew.

## 3. Runs

| Run | Instance | Properties | Shows |
|---|---|---|---|
| `pool_alone` | 1 thread, 2 variants, 3 futures, 2 runners of any class | `TypeOK`, `NoSilentFailure`, `NoSpuriousError`, `NoStaleRunner`, `CollectedIsRaised`, `RaisedOnce`, `FailureSurfaces` | a single-threaded application is safe from everything workers, failures and the memory manager do |
| `pool_two_threads` | 1 submitting, 1 waiting thread, thread or process workers that crash | `WaitIsBarrier`, `TrackedUntilDone`, `NoSpuriousError`, `WaitReturns` | a wait is a barrier for the jobs of the other thread too, and is not starved by new submissions |
| `pool_stale_runner` | 2 threads with a program each, one also waits | `NoStaleRunner`, violated | finding 1 |
| `build_hostile` | 2 fair clients, one forcing, one renewing; 2 programs, one exposed to cleanup; kills, tool failures | `TypeOK`, `CommitMarker`, `NeverPoisoned`, `LoadsWhole`, `SomeoneReturns`, `ImplementsArtifactCache` | interrupted builds and deleted or truncated files do no lasting harm; the two levels of locks never block everybody; the abstract promise is kept |
| `dace_hostile` | 3 clients, 2 programs, kills, tool failures, deleted libraries | `TypeOK`, `MarkedIsWhole`, `LoadsWhole` | a truncated library is never vouched for; the load outside the lock is safe |
| `translation_cache` | 3 clients, one deleting; 2 keys, one fragile; fair clients | `TypeOK`, `HitWhenGood`, `NoForeignError`, `SomeoneReturns`, `ImplementsArtifactCache` | a good entry is used and never evicted; the lookup outside the lock hurts no call; a torn entry blocks nobody |
| `program_calls` | 2 threads whose calls share a hook, 2 users of the profiler, 1 pool, 1 variant | `TypeOK`, `SampledOnce`, `KeyIsUnset`, `ErrorIsKept`, `RangesAreClosed`, `TakenKeyHasCause`, `InsideIsProfiled` | a call that nothing overlaps is exact whatever mixed-up or failed calls left behind; the profiler's user count is right |
| `embedded_fields` | programs of 3 operations; cells, staggered cells, a vertical and two neighbour tables; conditions of 3 comparisons | `TypeOK`, `Denotes`, `ConditionHolds`, `ErrorHasReason` | buffers and offsets mean what the operations mean; errors have a reason |
| `domain_union` | as above | `UnionIsExact`, violated | finding 2 |
| `skipped_neighbour` | as above | `SkippedWrapsAround`, violated | finding 4 |
| `stencil_cache` | 2 clients, 1 stencil, kills | `TypeOK`, `NoSpuriousError`, `PoisonNeedsKill`, `GoodIsUsed` | only an overlapping writer or a kill in the middle of a write makes a load fail, and a rebuild on its own heals |
| `stencil_info` | as above | `InfoIsCompared`, violated | finding 3 |

**Bounds.** *Pool:* two variants are needed for a `compile` of which one part
fails, two threads for every race the pool has, and a third future so that a
failed one can linger in a reference cycle while both variants have jobs; when no
identity is free a submission waits for the memory manager. Two runners are the
one being shut down and its successor; with one submitting thread a single
identity is enough, since the old runner is unreferenced whenever that thread
asks for a new one. *Build folders:* a client that was killed comes back under
the same name, so two clients, of which one forces and one renews, are enough for
one that was served or killed and one that rebuilds; two programs share the
template. The abstract cache may lose the entry of a program exposed to cleanup at
any time; one program is not exposed, so that losing its entry would show. *Translation cache:* three clients are a reader, a writer and a
deleter of one entry; one key stays undamaged, so that losing it would show.
*Calls:* the kinds of calls are given to the threads so that every two kinds which
share a hook overlap; two pools without profiler users were checked separately
and hold as well. *Fields:* three operations (`MaxOps`) are enough to make an
awkward field (shifted, cut, broadcast or gathered), to combine it and to look
at it; windows reach beyond every domain; fields have at most `MaxDims`
dimensions; a source over the vertical alone makes an axis that is stretched by a
broadcast and then cut, and the second table a field with two local dimensions,
which `neighbor_sum` rejects; conditions have up to `MaxCond` comparisons at the places `Cuts`.
*Stencils:* two clients are a writer and a reader or another writer; the same
instance with three clients (14.7 million states) holds too. Symmetry is used
over identities that no property tells apart, in runs without liveness properties
only. Deadlock is checked in all runs but the three over `EmbeddedFields`, whose
programs end at `MaxOps`.

**Fairness.** A thread inside an operation keeps running (`WF` of `Step(t)`):
the interpreter switches threads, and a lock that is free can be taken. A worker
finishes what it was given (a hanging compiler is outside the model). What
is unreferenced is reclaimed. No fairness is assumed for starting operations,
for crashes, for `DropPool`, or for the success of anything. In `build_hostile` and
`translation_cache` weak fairness of each client is all: `filelock` polls, so a
client may be overtaken at a lock for ever, and the property promises that *some*
client returns, not each. The other runs check safety only and assume none.

## 4. Findings

1. `next/otf/compiled_program.py:654` (`pool_stale_runner`). The comment above says
   that the pool "never holds on to a runner that `wait_for_compilation` has
   already shut down". It holds on to it during the lowering: a wait of another
   thread in between makes `submit` raise.
2. `next/common.py:572` (`domain_union`). The union of two domains is the range
   from the first start to the stop of the range that starts later, so
   `(I < 2) | (I < 1)` is `I < 1`. The docstring promises a union of overlapping
   domains.
3. `cartesian/caching.py:238` (`stencil_info`). The docstring says that an existing
   cache info file is compared with the current stencil. The check computes the
   info from the module on disk and compares it with that module; the file is
   written and never read.
4. `next/embedded/nd_array_field.py:678` (`skipped_neighbour`). The comment at line
   323 says that the skip value -1 wraps around "without out of bounds access". The
   start of the field's range is subtracted from skipped entries too, so that on a
   field that starts far enough from 0 the gather raises `IndexError`.

Behaviours that a property excuses, because nothing in the repository promises
otherwise or because the promise is only a comment about the ordinary case:

* `next/otf/compiled_program.py:451`: after a just-in-time compilation the call
  repeats itself with `enable_jit=False`; if another thread has popped the job
  and is still loading it, the first ends in "No program compiled".
* `next/otf/compiled_program.py:189`: two waiting threads snapshot the same futures;
  the second `del` raises `KeyError` and the failures collected are lost.
* `next/instrumentation/metrics.py:303`: the exit of the collector asserts that the
  source key is set. It is set by the context of the variant, so a measured call that
  fails before (bad arguments, a failed compilation, no variant) ends in the
  `AssertionError` instead of its own error, and its key is not restored. `ErrorIsKept`
  and `KeyIsUnset` say that this happens to these calls and to no others.
* The one element of a broadcast axis is sliced as if it were a whole axis, so some
  slices raise (`StretchedAxis` in `ErrorHasReason`); an assignment to part of it
  writes all of it (`"write"` in `excused`).
* `neighbor_sum` on a field that does not cover the table uses the mask of the whole
  table (`"sum"` in `excused`).
* A relative slice that ends at 0 is an `AssertionError` (`RelativeReason`).

## 5. Proofs

`CompilationPoolProofs` proves, for any constants that satisfy
`ConstantsAssumption`:

* `TypeCorrect`: `Spec => []TypeOK`;
* `Barrier`: `Spec => []WaitIsBarrier`;
* `Tracked`: `Spec => []TrackedUntilDone`.

None is inductive alone. The invariant adds

* `LocalsOK`: what a thread's locals hold at each label (the types alone allow
  `fut[t] = None` at a dereference);
* `RunnersInv`: a runner that still accepts work is the default one, an
  unresolved future sits in the default runner, and the runner lock is held
  exactly by the thread draining it;
* `HeldInv`: a future somebody refers to is not reused;
* `WaitInv`: past the drain, the jobs seen at the start of the wait are resolved;
* `ForgetInv`: a future about to be deleted from the table is resolved.

The barrier rests on the drain, not on the snapshot: a job that another thread
has submitted but not yet tracked is missed by the snapshot, and is nevertheless
resolved because the runner it was submitted to was shut down first.

The second part of `CompilationPoolProofs` is about what does not hold of every use
of the pools. Its hypotheses are facts about the constants `Callable` and `Waiters`
only: `OneWaiter`, at most one thread calls `wait_for_compilation`; `Unshared`, no
two threads call or compile the same variant; `SoleClient(w)`, only the thread `w`
uses the pools, which implies the other two. Workers, crashes and the memory
manager are unrestricted in all of them.

* `CollectedFailuresAreRaised` (`CollectedIsRaised`) and `FailuresAreRaisedOnce`
  (`RaisedOnce`): from `OneWaiter`;
* `FailuresSurface` (`FailureSurfaces`): from `Unshared`, with any number of waiters;
* `NoBookkeepingError` (`NoSpuriousError`): from both;
* `NeverStale` (`NoStaleRunner`) and `NeverSilent` (`NoSilentFailure`): from
  `SoleClient(w)`.

The hypotheses are needed: the run `pool_stale_runner` is a counterexample to
`NoStaleRunner` for two threads, and the first two behaviours listed as excused in
section 4 are what two threads on one variant, and two waiters, do. `pool_alone`
is an instance of `SoleClient`, `pool_two_threads` of `OneWaiter` and `Unshared`.
The argument has three parts. `EntryInv` says what a thread may still assume of its
pool entry at each label (the code tests a key, and acts on the answer several steps
later); it is inductive because a thread changes only the entry of its own variant
(`OtherEntries`) and the memory manager only those nobody works on
(`EnvironmentEntries`). `TableInv` follows a future through the table: submitted and
known to its thread only, tracked, in the snapshot of a wait, collected, forgotten,
reported. `ClientInv` adds that outside the reset the default runner has not been
shut down and is the one about to be used, and that a failed job is in the table, in
the failures collected so far, or reported; that the snapshot is complete follows
because a job a pool holds keeps its future alive in the weak table.

`BuildFolderProofs` proves, for any constants that satisfy
`BuildFolderAssumption`:

* `TypeCorrect`, `Committed` (`CommitMarker`), `Heals` (`NeverPoisoned`),
  `WholeLoads` (`LoadsWhole`);
* `Refinement`: `Spec => ImplementsArtifactCache`.

The invariant has four parts. `LockInv`: the locks exclude. `LinkInv`: from the
reset of the status until the module is linked the status is not `COMPILED`, and
before it is set the module is not partial. `HealInv`: a readable template has
its libraries, and what the client has put into its folder so far is complete,
unless it is excused. `FreshInv`: without `force_recompile` only unusable folders
are rebuilt, and a served folder stays usable unless the client is excused. The
refinement uses `FreshInv` for the steps that withdraw a status (they are
`Discard` steps of a forcing client or invisible) and `LinkInv` for the linker
(invisible).

`DaceBuildFolderProofs` proves, for any constants that satisfy `DaceAssumption`,
`TypeCorrect`, `Marked` (`MarkedIsWhole`) and `WholeLoads` (`LoadsWhole`). Its
invariant has `LockInv` (the locks exclude), `MarkerInv` (without the marker
nothing stale reaches DaCe, and the marker is absent while DaCe is at work) and
`ServedInv` (what an unexcused client is about to load is complete, and its
folder is marked or somebody is inside the window who will mark it again).

`TranslationCacheProofs` proves, for any constants that satisfy `CacheAssumption`,
`TypeCorrect`, `GoodIsUsed` (`HitWhenGood`), `Robust` (`NoForeignError`) and
`Refinement` (`ImplementsArtifactCache`). The invariant has `LockInv` (who works on
an entry owns its lock, and only deleters unlink), `EvictInv` (what is about to be
evicted is not good: it was unreadable under the lock, and nobody can have
published meanwhile) and `GapInv` (who finds its entry missing or torn has met a
gap). The eviction is invisible in the refinement because of `EvictInv`; that is
why the code must unlink under the lock under which it read.

`ConditionsProofs` proves, for ranges with arbitrary integers and the two
infinities: `ShiftExact` and `InverseIsComplement`; `IntersectionExact`, that the
intersection of two domains over any dimensions holds exactly the points of both, a
domain leaving the dimensions it lacks unbounded (it rests on `RangeAndExact`, the
same for two ranges); and from them `ConditionTypeCorrect` and `ConditionsAreExact` (`ConditionHolds`): conditions
of any length over any dimensions select exactly the points their operators
say, unless a union of nested ranges was taken (finding 2).

`StencilCacheProofs` proves, for any constants that satisfy `ClientsAssumption`,
`TypeCorrect`, `LoadsUnlessDisturbed` (`NoSpuriousError`), `OverlapIsHarmless`
(`PoisonNeedsKill`) and `CacheIsUsed` (`GoodIsUsed`). The invariant has `TornInv` (a
torn file was emptied last by a client that is still about to complete it, or that
was killed), `OrderInv` (the computation is there before the module), `AloneInv`
(nobody else writes the stencil of a build on its own), `WriterInv` (what such a
build has written is whole), `ReaderInv` (what it found is still there) and `GoodInv`
(a build that found a loadable stencil is on its way to load it). `OverlapIsHarmless`
needs only the first two: of several overlapping writers the last one to have
emptied a file completes it.

`ProgramCallsProofs` proves, for any constants that satisfy `CallsAssumption` (the
users and the pools are finite sets, since both are counted): `TypeCorrect`,
`OneSamplePerCall` (`SampledOnce`), `KeyIsRestored` (`KeyIsUnset`: a program call
leaves the source key of its thread exactly as it found it, except that a measured
call which never reached its variant leaves none), `ErrorsAreKept` (`ErrorIsKept`: it
raises only if it failed, and loses its error to the collector's assertion in that
one case), `RangesBalance` (`RangesAreClosed`),
`TakenKeyIsExplained` (`TakenKeyHasCause`) and `ProfilerCounts` (`InsideIsProfiled`).
The invariant of the profiler, `ProfilerInv`, says what the holder of its lock has
done so far. That of the calls has `SoloInv` (a call that is not excused is alone),
`ThreadInv` (what such a call has put into the hooks, into the context variable of
its thread and into its own record at each step, and what it leaves), `KeyCacheInv`
(the keys remembered for a variant name that variant) and `KnownInv` (every key in
use, including those that overlapping calls have left in the hooks or in a context
variable, belongs to a variant that was compiled or whose compilation failed). The
last is what makes the leftovers of mixed-up calls harmless for `TakenKeyHasCause`:
a stale key in `metrics.sources` was still put there for a reason. Each action has
a lemma that it `Moves` its own thread's call, and one lemma (`OtherThreads`) does
the other threads for all of them.

`EmbeddedFieldsProofs` first proves each operation of `Fields` on its own, for any
number of dimensions, any ranges (empty and unbounded ones included) and buffers of
any size, as a statement about values at points: `RestrictIsExact`,
`RelativeIsExact`, `BroadcastIsExact`, `BuiltinIsExact`, `SetItemIsExact`,
`TranslationIsExact`, `GatherIsExact`, `PremapIsExact`, `ConcatWhereIsExact` and
`NeighborSumIsExact`. Each says, for an operation that does not raise, that its
result is a field again, on which dimensions, and what it is at every integer point,
inside and outside its domain. The arguments follow the code:

* restriction computes a domain and a buffer slice separately, and the lemmas show
  that the position of a point in the sliced buffer is the position of the same
  point in the old one, axis by axis, also for axes of one element;
* a translation leaves the buffer alone, and `-Offset` inverts the image of each
  connectivity, with the rounding of half cells;
* a gather is defined on the boxes around the table positions that point into the
  field. A position in the box that does not is a skipped one, or the box would not
  have been one; that is why nothing is claimed at skipped neighbours and everything
  elsewhere;
* `concat_where` sorts its pieces, and what it returns is contiguous because each
  piece ends where the next begins: of the finitely many pieces, the last one to
  begin at or before a point is the one that holds it;
* a reduction sums over an axis of the buffer, its meaning over the neighbours in
  the window: the two sums are equal because the one is the other with its indices
  shifted and terms that are 0 added.

Finite sets and sums need induction. The library's induction rules take an operator
as a parameter, so the lemmas argue by a minimal counterexample instead: the subset
ordering of a finite set is well founded (`FS_StrictSubsetOrderingWellFounded`), so
the set of the subsets where a law fails would have a minimal member, and removing
one of its elements contradicts it.

Then it proves of the specification, for any constants that satisfy its assumptions:

* `FieldsWellFormed`: `Spec => []TypeOK`;
* `FieldsDenote`: `Spec => []Denotes`;
* `ProgramConditionsAreExact`: `Spec => []ConditionHolds`.

`Denotes` alone is not inductive: an operation is exact only on operands that are
fields, and the conditions move under the same `Next`. The invariant is `ProgramInv`,
the conjunction of `TypeOK`, `Denotes` and the `IInv` of `ConditionsProofs`. For
each action the theorem about its operation gives the new field at a point in terms
of the old field, `Denotes` turns the values of the old field into those of `ref`,
and the result is what the action's meaning says; where the meaning looks outside the
window, it is `UNKNOWN` and nothing is claimed. An excused program stays excused.

The assumptions on the constants are those of the code's own inputs: operands are
fields over the dimensions of the window (`OperandAssumption`); tables fill their
domains, since `as_connectivity` allocates them over it, and the table of a
reduction has one dimension beside the neighbours (`PremapAssumption`,
`TableAssumption`, which also asks that the window holds the neighbours' numbers); an
index gives a dimension a range or a position (`IndexAssumption`); conditions are
domains (`ConditionsAssumption`); no dimension is staggered twice (`BaseAssumption`).
TLC evaluates all of them on the instance.

Each part of an invariant was checked with TLC before it was proved.

Only model-checked: the liveness properties `WaitReturns` and `SomeoneReturns` (the
prover does not handle fairness), and `ErrorHasReason` of `EmbeddedFields`. The
reasons it accepts are points of the window (a hole between two values, a point that
was asked for and is not there), so it is true only of instances whose window
reaches beyond every domain that a program of `MaxOps` operations can make, as the
one of the run does; it is not true for every value of the constants.

## 6. Not modelled

* **The compiler**: `next/ffront`, `next/iterator`, `next/type_system`, the code
  generators and bindings, the DaCe lowering and transformations,
  `cartesian/frontend` and `cartesian/gtc`. This is by far the largest part of the
  repository's lines. Each pass is a pure, sequential function between large syntax
  trees or graphs; its correctness is that two programs of a language compute the
  same, which needs the semantics of that language rather than a state machine,
  and a bounded set of trees small enough for TLC would not reach the cases the
  passes are about. Modelling their control alone would leave out what can go wrong.
* **Other pure parts**: eve (data models, visitors), storage (allocation and
  layouts), options and toolchain stages. How keys, fingerprints and folder names
  are computed: two programs with the same key are the same program in the models.
* **Of the fields**: the order and transposition of dimensions, dtypes, aliasing of
  buffers, scalars as operands, `max_over` and `min_over`, the caches of
  connectivities, `as_offset`; indices outside the range of machine integers.
* **Of the calls**: event hooks other than `compile_variant_hook`, dumping of metrics,
  timers.
* **Of the cartesian cache**: the backends that compile an extension,
  disable-code-generation, `NoCachingStrategy`, and the interpreter's bytecode
  files.
* **Connectivity dumps** (`otf/compilation_tasks.py`): see the plan.
* The content of generated code and the tools that compile it.
* Power loss: atomic writes are not synced, and the code tolerates an unreadable
  entry (`CleanUp` and `Damage` cover truncation).

## 7. Plan

Done: the modules and proofs above. What is left, in this order:

1. `ConnectivityDump`: the registry keyed by reusable ids, with its weak references
   and the pruning callback, and the files it leaves for workers.
2. Composition: `CompilationPool` whose worker steps are the steps of a build
   folder's client.
3. Layout maps of the storage, and `max_over` and `min_over` in `Fields`.
