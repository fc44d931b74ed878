-------------------------- MODULE CompilationPool --------------------------
(***************************************************************************)
(* The compiled-programs pool of gt4py.next (next/otf/compiled_program.py) *)
(* with the runners that compile for it (next/otf/runners.py).             *)
(*                                                                         *)
(* Application threads call a program (just-in-time or not), precompile    *)
(* several variants of it, or wait for every compilation.  The pools, the  *)
(* in-flight compilations and the default runner are shared; of these only *)
(* the default runner is protected by a lock.  One action is one read or   *)
(* write of shared state, so that two threads interleave wherever the      *)
(* interpreter may switch between them.                                    *)
(*                                                                         *)
(* A variant is one entry (pool, key) of a CompiledProgramsPool.  A future *)
(* or a runner is an object: it is taken from the finite set of free       *)
(* identities when created and returns to it when nothing references it.   *)
(***************************************************************************)
CONSTANTS
  Threads,     \* application threads
  Pools,       \* CompiledProgramsPool objects
  Variants,    \* the program variants, over all pools
  PoolOf,      \* the pool a variant belongs to
  Futures,     \* identities of Future objects
  Runners,     \* identities of Runner objects
  Modes,       \* the values config.BUILD_JOBS_MODE may take
  Callable,    \* the variants each thread calls or compiles
  Waiters,     \* the threads that call wait_for_compilation
  None

ASSUME ConstantsAssumption ==
  /\ PoolOf \in [Variants -> Pools]
  /\ Modes \subseteq {"serial", "thread", "process"}
  /\ Callable \in [Threads -> SUBSET Variants]
  /\ Waiters \subseteq Threads
  /\ None \notin Futures \cup Runners \cup Threads \cup Variants

VARIABLES
  compiled,   \* variants present in the compiled_programs of their pool
  jobs,       \* _compilation_jobs: the in-flight future of a variant, or None
  ongoing,    \* the keys of _ongoing_compilations
  status,     \* state of every Future
  on,         \* the runner whose executor holds an unresolved future
  kind,       \* the class of every runner
  executor,   \* state of the executor inside a runner
  default,    \* _default_runner
  lock,       \* owner of _default_runner_lock
  cyclic,     \* failed futures kept alive by their own exception's traceback
  pc, var, jit, fut, run, todo, snap, failures, outcome, \* thread locals
  seen,       \* history: jobs in flight when a thread began to wait
  reported    \* history: futures whose failure a wait has raised

pools   == <<compiled, jobs, ongoing>>
objects == <<status, on, kind, executor, default, lock, cyclic>>
history == <<seen, reported>>
vars == <<pools, objects, pc, var, jit, fut, run, todo, snap, failures,
          outcome, history>>

Statuses == {"free", "pending", "ok", "failed"}
Kinds    == {"free", "serial", "thread", "process"}
States   == {"open", "broken", "shutdown"}
Labels   == {"idle", "lookup", "probe", "pop", "result", "load", "run",
             "next", "exists", "runner", "submit", "store", "track", "eager",
             "reset", "drain", "snapshot", "collect", "forget"}
Outcomes == {"none", "done", "waited", "waitFailed", "failure", "loadError",
             "loweringError", "noProgram", "exists", "shutdown", "broken",
             "keyError", "assertion"}

(***************************************************************************)
(* Who keeps a future alive: the executor until it is resolved, the pool's *)
(* job table, a local variable of a thread, or the reference cycle future  *)
(* -> exception -> traceback -> frame that a raised failure leaves behind. *)
(***************************************************************************)
Alive(f) ==
  \/ status[f] = "pending"
  \/ f \in cyclic
  \/ \E v \in Variants : jobs[v] = f
  \/ \E t \in Threads : fut[t] = f \/ f \in snap[t]

Init ==
  /\ compiled = {}
  /\ jobs = [v \in Variants |-> None]
  /\ ongoing = {}
  /\ status = [f \in Futures |-> "free"]
  /\ on = [f \in Futures |-> None]
  /\ kind = [r \in Runners |-> "free"]
  /\ executor = [r \in Runners |-> "open"]
  /\ default = None
  /\ lock = None
  /\ cyclic = {}
  /\ pc = [t \in Threads |-> "idle"]
  /\ var = [t \in Threads |-> None]
  /\ jit = [t \in Threads |-> "off"]
  /\ fut = [t \in Threads |-> None]
  /\ run = [t \in Threads |-> None]
  /\ todo = [t \in Threads |-> {}]
  /\ snap = [t \in Threads |-> {}]
  /\ failures = [t \in Threads |-> {}]
  /\ outcome = [t \in Threads |-> "none"]
  /\ seen = [t \in Threads |-> {}]
  /\ reported = {}

-----------------------------------------------------------------------------
(* Control of a thread. *)

At(t, l)   == pc[t] = l
Goto(t, l) == pc' = [pc EXCEPT ![t] = l]

Locals == <<var, jit, fut, run, todo, snap, failures, outcome>>

(* An operation of t returns or raises: its frame is gone.  The collected
   failures of a wait stay visible until the next operation of t. *)
Return(t, o) ==
  /\ Goto(t, "idle")
  /\ outcome' = [outcome EXCEPT ![t] = o]
  /\ var' = [var EXCEPT ![t] = None]
  /\ fut' = [fut EXCEPT ![t] = None]
  /\ run' = [run EXCEPT ![t] = None]
  /\ todo' = [todo EXCEPT ![t] = {}]
  /\ snap' = [snap EXCEPT ![t] = {}]
  /\ UNCHANGED <<jit, failures>>

Begin(t, l) ==
  /\ At(t, "idle")
  /\ Goto(t, l)
  /\ outcome' = [outcome EXCEPT ![t] = "none"]
  /\ failures' = [failures EXCEPT ![t] = {}]
  /\ seen' = [seen EXCEPT ![t] = {}]
  /\ UNCHANGED <<pools, objects, fut, run, snap, reported>>

-----------------------------------------------------------------------------
(* CompiledProgramsPool.__call__ and _finish_compilation_job *)

(* jit is "on" or "off" as passed in enable_jit, "again" in the recursive
   call that follows a just-in-time compilation. *)
Call(t, v, enable_jit) ==
  /\ v \in Callable[t]
  /\ Begin(t, "lookup")
  /\ var' = [var EXCEPT ![t] = v]
  /\ jit' = [jit EXCEPT ![t] = enable_jit]
  /\ UNCHANGED todo

Lookup(t) ==
  /\ At(t, "lookup")
  /\ Goto(t, IF var[t] \in compiled THEN "run" ELSE "probe")
  /\ UNCHANGED <<pools, objects, Locals, history>>

Probe(t) ==
  /\ At(t, "probe")
  /\ \/ /\ jobs[var[t]] # None
        /\ Goto(t, "pop")
        /\ UNCHANGED Locals
     \/ /\ jobs[var[t]] = None
        /\ jit[t] = "on"
        /\ Goto(t, "exists")
        /\ UNCHANGED Locals
     \/ /\ jobs[var[t]] = None
        /\ jit[t] # "on"
        /\ Return(t, "noProgram")
  /\ UNCHANGED <<pools, objects, history>>

Pop(t) ==
  /\ At(t, "pop")
  /\ \/ /\ jobs[var[t]] = None
        /\ Return(t, "keyError")
        /\ UNCHANGED jobs
     \/ /\ jobs[var[t]] # None
        /\ jobs' = [jobs EXCEPT ![var[t]] = None]
        /\ IF var[t] \in compiled
             THEN Return(t, "assertion")
             ELSE /\ fut' = [fut EXCEPT ![t] = jobs[var[t]]]
                  /\ Goto(t, "result")
                  /\ UNCHANGED <<var, jit, run, todo, snap, failures, outcome>>
  /\ UNCHANGED <<compiled, ongoing, objects, history>>

(* artifact_future.result(): waits, then yields the artifact or raises. *)
Result(t) ==
  /\ At(t, "result")
  /\ \/ /\ status[fut[t]] = "ok"
        /\ Goto(t, "load")
        /\ UNCHANGED <<cyclic, Locals>>
     \/ /\ status[fut[t]] = "failed"
        /\ cyclic' = cyclic \cup {fut[t]}
        /\ Return(t, "failure")
  /\ UNCHANGED <<pools, status, on, kind, executor, default, lock, history>>

(* .load() of the artifact, and the entry in compiled_programs. *)
Load(t) ==
  /\ At(t, "load")
  /\ \/ /\ compiled' = compiled \cup {var[t]}
        /\ fut' = [fut EXCEPT ![t] = None]
        /\ Goto(t, "run")
        /\ UNCHANGED <<var, jit, run, todo, snap, failures, outcome>>
     \/ /\ Return(t, "loadError")
        /\ UNCHANGED compiled
  /\ UNCHANGED <<jobs, ongoing, objects, history>>

RunProgram(t) ==
  /\ At(t, "run")
  /\ Return(t, "done")
  /\ UNCHANGED <<pools, objects, history>>

-----------------------------------------------------------------------------
(* CompiledProgramsPool.compile and _compile_variant *)

Compile(t, vs) ==
  /\ vs \subseteq Callable[t]
  /\ vs # {}
  /\ \A v, w \in vs : PoolOf[v] = PoolOf[w]
  /\ Begin(t, "next")
  /\ todo' = [todo EXCEPT ![t] = vs]
  /\ jit' = [jit EXCEPT ![t] = "off"]
  /\ UNCHANGED var

NextVariant(t) ==
  /\ At(t, "next")
  /\ \/ /\ todo[t] = {}
        /\ Return(t, "done")
     \/ \E v \in todo[t] :
          /\ var' = [var EXCEPT ![t] = v]
          /\ todo' = [todo EXCEPT ![t] = @ \ {v}]
          /\ Goto(t, "exists")
          /\ UNCHANGED <<jit, fut, run, snap, failures, outcome>>
  /\ UNCHANGED <<pools, objects, history>>

(* Mutant: a job in flight does not count as an existing program. *)
IsCompiledKey(v) == v \in compiled

IsExistingKey(v) == v \in compiled \/ jobs[v] # None

ExistingKey(t) ==
  /\ At(t, "exists")
  /\ \/ /\ IsExistingKey(var[t])
        /\ Return(t, "exists")
     \/ /\ ~IsExistingKey(var[t])
        /\ Goto(t, "runner")
        /\ UNCHANGED Locals
  /\ UNCHANGED <<pools, objects, history>>

(* get_default_runner: the lock is held for this step only. *)
GetDefaultRunner(t) ==
  /\ At(t, "runner")
  /\ lock = None
  /\ \/ /\ default # None
        /\ run' = [run EXCEPT ![t] = default]
        /\ UNCHANGED <<kind, executor, default>>
     \/ /\ default = None
        /\ \E r \in Runners, m \in Modes :
             /\ kind[r] = "free"
             /\ kind' = [kind EXCEPT ![r] = m]
             /\ executor' = [executor EXCEPT ![r] = "open"]
             /\ default' = r
             /\ run' = [run EXCEPT ![t] = r]
  /\ Goto(t, "submit")
  /\ UNCHANGED <<pools, status, on, lock, cyclic, var, jit, fut, todo, snap,
                 failures, outcome, history>>

NewFuture(t, s, r) ==
  \E f \in Futures :
    /\ status[f] = "free"
    /\ status' = [status EXCEPT ![f] = s]
    /\ on' = [on EXCEPT ![f] = r]
    /\ fut' = [fut EXCEPT ![t] = f]

(* make_compilation_task (the lowering) may raise before anything is
   submitted.  SerialRunner and the fallback of ProcessRunner never touch an
   executor; the executors refuse a submission once shut down or broken. *)
Submit(t) ==
  /\ At(t, "submit")
  /\ \/ /\ Return(t, "loweringError")
        /\ UNCHANGED <<status, on>>
     \/ /\ kind[run[t]] \in {"serial", "process"}
        /\ \E s \in {"ok", "failed"} : NewFuture(t, s, None)
        /\ Goto(t, "store")
        /\ UNCHANGED <<var, jit, run, todo, snap, failures, outcome>>
     \/ /\ kind[run[t]] \in {"thread", "process"}
        /\ executor[run[t]] = "open"
        /\ NewFuture(t, "pending", run[t])
        /\ Goto(t, "store")
        /\ UNCHANGED <<var, jit, run, todo, snap, failures, outcome>>
     \/ /\ kind[run[t]] \in {"thread", "process"}
        /\ executor[run[t]] # "open"
        /\ Return(t, executor[run[t]])
        /\ UNCHANGED <<status, on>>
  /\ UNCHANGED <<pools, kind, executor, default, lock, cyclic, history>>

(* The rest of _compile_variant once the submission returned: done() loads
   eagerly, otherwise the job is registered in the pool and then tracked. *)
Store(t) ==
  /\ At(t, "store")
  /\ \/ /\ status[fut[t]] = "ok"
        /\ Goto(t, "eager")
        /\ UNCHANGED <<jobs, cyclic, Locals>>
     \/ /\ status[fut[t]] = "failed"
        /\ cyclic' = cyclic \cup {fut[t]}
        /\ Return(t, "failure")
        /\ UNCHANGED jobs
     \/ /\ status[fut[t]] = "pending"
        /\ jobs' = [jobs EXCEPT ![var[t]] = fut[t]]
        /\ Goto(t, "track")
        /\ UNCHANGED <<cyclic, Locals>>
  /\ UNCHANGED <<compiled, ongoing, status, on, kind, executor, default, lock,
                 history>>

(* _compile_variant returns: __call__ calls itself, compile takes the next. *)
AfterCompile(t) ==
  /\ Goto(t, IF jit[t] = "on" THEN "lookup" ELSE "next")
  /\ jit' = [jit EXCEPT ![t] = IF jit[t] = "on" THEN "again" ELSE jit[t]]
  /\ fut' = [fut EXCEPT ![t] = None]
  /\ run' = [run EXCEPT ![t] = None]
  /\ UNCHANGED <<var, todo, snap, failures, outcome>>

(* Mutant: the eagerly loaded program is not stored in the pool. *)
EagerLoadNotStored(t) ==
  /\ At(t, "eager")
  /\ AfterCompile(t)
  /\ UNCHANGED <<pools, objects, history>>

EagerLoad(t) ==
  /\ At(t, "eager")
  /\ \/ /\ compiled' = compiled \cup {var[t]}
        /\ AfterCompile(t)
     \/ /\ Return(t, "loadError")
        /\ UNCHANGED compiled
  /\ UNCHANGED <<jobs, ongoing, objects, history>>

(* Mutant: the job is registered in its pool only. *)
TrackForgotten(t) ==
  /\ At(t, "track")
  /\ AfterCompile(t)
  /\ UNCHANGED <<pools, objects, history>>

(* Mutant: the dictionary is keyed the wrong way round. *)
TrackLabel(t) ==
  /\ At(t, "track")
  /\ ongoing' = ongoing \cup {var[t]}
  /\ AfterCompile(t)
  /\ UNCHANGED <<compiled, jobs, objects, history>>

Track(t) ==
  /\ At(t, "track")
  /\ ongoing' = ongoing \cup {fut[t]}
  /\ AfterCompile(t)
  /\ UNCHANGED <<compiled, jobs, objects, history>>

-----------------------------------------------------------------------------
(* wait_for_compilation and reset_default_runner *)

Wait(t) ==
  /\ t \in Waiters
  /\ At(t, "idle")
  /\ Goto(t, "reset")
  /\ outcome' = [outcome EXCEPT ![t] = "none"]
  /\ failures' = [failures EXCEPT ![t] = {}]
  /\ seen' = [seen EXCEPT ![t] = {f \in Futures : \E v \in Variants : jobs[v] = f}]
  /\ UNCHANGED <<pools, objects, var, jit, fut, run, todo, snap, reported>>

(* The executor refuses new work from here on; the lock stays taken. *)
Reset(t) ==
  /\ At(t, "reset")
  /\ lock = None
  /\ \/ /\ default = None
        /\ Goto(t, "snapshot")
        /\ UNCHANGED <<executor, lock>>
     \/ /\ default # None
        /\ executor' = [executor EXCEPT ![default] = "shutdown"]
        /\ lock' = t
        /\ Goto(t, "drain")
  /\ UNCHANGED <<pools, status, on, kind, default, cyclic, Locals, history>>

Pending(r) == {f \in Futures : status[f] = "pending" /\ on[f] = r}

(* Mutant: shutdown(wait=False). *)
DrainNoWait(t) ==
  /\ At(t, "drain")
  /\ default' = None
  /\ lock' = None
  /\ Goto(t, "snapshot")
  /\ UNCHANGED <<pools, status, on, kind, executor, cyclic, Locals, history>>

(* Mutant: the runner is shut down but not discarded. *)
DrainKeepRunner(t) ==
  /\ At(t, "drain")
  /\ Pending(default) = {}
  /\ lock' = None
  /\ Goto(t, "snapshot")
  /\ UNCHANGED <<pools, status, on, kind, executor, default, cyclic, Locals,
                 history>>

(* shutdown(wait=True) returns, the runner is discarded, the lock released. *)
Drain(t) ==
  /\ At(t, "drain")
  /\ Pending(default) = {}
  /\ default' = None
  /\ lock' = None
  /\ Goto(t, "snapshot")
  /\ UNCHANGED <<pools, status, on, kind, executor, cyclic, Locals, history>>

(* Mutant: finished compilations are skipped. *)
SnapshotUnfinished(t) ==
  /\ At(t, "snapshot")
  /\ snap' = [snap EXCEPT ![t] = {f \in ongoing : status[f] = "pending"}]
  /\ Goto(t, "collect")
  /\ UNCHANGED <<pools, objects, var, jit, fut, run, todo, failures, outcome,
                 history>>

(* list(_ongoing_compilations.items()): only futures that are still alive. *)
Snapshot(t) ==
  /\ At(t, "snapshot")
  /\ snap' = [snap EXCEPT ![t] = {f \in ongoing : Alive(f)}]
  /\ Goto(t, "collect")
  /\ UNCHANGED <<pools, objects, var, jit, fut, run, todo, failures, outcome,
                 history>>

(* Mutant: only a single failure is raised, several are swallowed. *)
CollectOnlyOne(t) ==
  /\ At(t, "collect")
  /\ \/ \E f \in snap[t] :
          /\ status[f] # "pending"
          /\ failures' = [failures EXCEPT ![t] =
                            IF status[f] = "failed" THEN @ \cup {f} ELSE @]
          /\ fut' = [fut EXCEPT ![t] = f]
          /\ Goto(t, "forget")
          /\ UNCHANGED <<var, jit, run, todo, snap, outcome, reported>>
     \/ /\ snap[t] = {}
        /\ Return(t, IF \E f \in failures[t] : failures[t] = {f}
                       THEN "waitFailed" ELSE "waited")
        /\ reported' = reported \cup failures[t]
  /\ UNCHANGED <<pools, objects, seen>>

(* future.exception() waits for the future; at the end of the loop the
   collected failures, if any, are raised. *)
Collect(t) ==
  /\ At(t, "collect")
  /\ \/ \E f \in snap[t] :
          /\ status[f] # "pending"
          /\ failures' = [failures EXCEPT ![t] =
                            IF status[f] = "failed" THEN @ \cup {f} ELSE @]
          /\ fut' = [fut EXCEPT ![t] = f]
          /\ Goto(t, "forget")
          /\ UNCHANGED <<var, jit, run, todo, snap, outcome, reported>>
     \/ /\ snap[t] = {}
        /\ Return(t, IF failures[t] = {} THEN "waited" ELSE "waitFailed")
        /\ reported' = reported \cup failures[t]
  /\ UNCHANGED <<pools, objects, seen>>

(* Mutant: the reported future stays in the dictionary. *)
ForgetNothing(t) ==
  /\ At(t, "forget")
  /\ snap' = [snap EXCEPT ![t] = @ \ {fut[t]}]
  /\ fut' = [fut EXCEPT ![t] = None]
  /\ Goto(t, "collect")
  /\ UNCHANGED <<pools, objects, var, jit, run, todo, failures, outcome, history>>

(* Mutant: loop while anything is in flight instead of over a snapshot. *)
ForgetAndLookAgain(t) ==
  /\ At(t, "forget")
  /\ ongoing' = ongoing \ {fut[t]}
  /\ fut' = [fut EXCEPT ![t] = None]
  /\ Goto(t, "snapshot")
  /\ UNCHANGED <<compiled, jobs, objects, var, jit, run, todo, snap, failures,
                 outcome, history>>

(* del _ongoing_compilations[future] *)
Forget(t) ==
  /\ At(t, "forget")
  /\ \/ /\ fut[t] \in ongoing
        /\ ongoing' = ongoing \ {fut[t]}
        /\ snap' = [snap EXCEPT ![t] = @ \ {fut[t]}]
        /\ fut' = [fut EXCEPT ![t] = None]
        /\ Goto(t, "collect")
        /\ UNCHANGED <<var, jit, run, todo, failures, outcome>>
     \/ /\ fut[t] \notin ongoing
        /\ Return(t, "keyError")
        /\ UNCHANGED ongoing
  /\ UNCHANGED <<compiled, jobs, objects, history>>

-----------------------------------------------------------------------------
(* Workers and the memory manager *)

threads == <<pc, Locals>>

WorkerFinish(f, s) ==
  /\ status[f] = "pending"
  /\ status' = [status EXCEPT ![f] = s]
  /\ on' = [on EXCEPT ![f] = None]
  /\ UNCHANGED <<pools, kind, executor, default, lock, cyclic, threads, history>>

(* A worker process dies: every pending future gets BrokenProcessPool and
   the executor accepts nothing more.  It stays the default runner. *)
WorkerCrash(r) ==
  /\ kind[r] = "process"
  /\ executor[r] # "broken"
  /\ status' = [f \in Futures |-> IF f \in Pending(r) THEN "failed" ELSE status[f]]
  /\ on' = [f \in Futures |-> IF f \in Pending(r) THEN None ELSE on[f]]
  /\ executor' = [executor EXCEPT ![r] = IF @ = "open" THEN "broken" ELSE @]
  /\ UNCHANGED <<pools, kind, default, lock, cyclic, threads, history>>

Uses(t, p) ==
  \E v \in Variants : PoolOf[v] = p /\ pc[t] # "idle" /\ (v = var[t] \/ v \in todo[t])

(* A program and its pool are garbage collected; the same variants may be
   defined again. *)
DropPool(p) ==
  /\ \A t \in Threads : ~Uses(t, p)
  /\ \E v \in Variants : PoolOf[v] = p /\ IsExistingKey(v)
  /\ compiled' = {v \in compiled : PoolOf[v] # p}
  /\ jobs' = [v \in Variants |-> IF PoolOf[v] = p THEN None ELSE jobs[v]]
  /\ UNCHANGED <<ongoing, objects, threads, history>>

CyclicGC ==
  /\ cyclic # {}
  /\ cyclic' = {}
  /\ UNCHANGED <<pools, status, on, kind, executor, default, lock, threads,
                 history>>

(* The last reference to a future is gone: it leaves the weak dictionary. *)
Reclaim(f) ==
  /\ status[f] # "free"
  /\ ~Alive(f)
  /\ \A t \in Threads : f \notin failures[t]
  /\ status' = [status EXCEPT ![f] = "free"]
  /\ ongoing' = ongoing \ {f}
  /\ seen' = [t \in Threads |-> seen[t] \ {f}]
  /\ reported' = reported \ {f}
  /\ UNCHANGED <<compiled, jobs, on, kind, executor, default, lock, cyclic,
                 threads>>

ReclaimRunner(r) ==
  /\ kind[r] # "free"
  /\ r # default
  /\ \A t \in Threads : run[t] # r
  /\ \A f \in Futures : on[f] # r
  /\ kind' = [kind EXCEPT ![r] = "free"]
  /\ executor' = [executor EXCEPT ![r] = "open"]
  /\ UNCHANGED <<pools, status, on, default, lock, cyclic, threads,
                 history>>

-----------------------------------------------------------------------------
Start(t) ==
  \/ \E v \in Variants, j \in {"on", "off"} : Call(t, v, j)
  \/ \E vs \in SUBSET Variants : Compile(t, vs)
  \/ Wait(t)

Step(t) ==
  \/ Lookup(t) \/ Probe(t) \/ Pop(t) \/ Result(t) \/ Load(t) \/ RunProgram(t)
  \/ NextVariant(t) \/ ExistingKey(t) \/ GetDefaultRunner(t) \/ Submit(t)
  \/ Store(t) \/ EagerLoad(t) \/ Track(t)
  \/ Reset(t) \/ Drain(t) \/ Snapshot(t) \/ Collect(t) \/ Forget(t)

Memory ==
  \/ \E p \in Pools : DropPool(p)
  \/ CyclicGC
  \/ \E f \in Futures : Reclaim(f)
  \/ \E r \in Runners : ReclaimRunner(r)

Next ==
  \/ \E t \in Threads : Start(t) \/ Step(t)
  \/ \E f \in Futures, s \in {"ok", "failed"} : WorkerFinish(f, s)
  \/ \E r \in Runners : WorkerCrash(r)
  \/ Memory

Spec == Init /\ [][Next]_vars

(* A thread inside an operation keeps running, a worker finishes what was
   submitted, the memory manager eventually frees what is unreferenced. *)
Fairness ==
  /\ \A t \in Threads : WF_vars(Step(t))
  /\ \A f \in Futures : WF_vars(\E s \in {"ok", "failed"} : WorkerFinish(f, s))
  /\ \A f \in Futures : WF_vars(Reclaim(f))
  /\ \A r \in Runners : WF_vars(ReclaimRunner(r))
  /\ WF_vars(CyclicGC)

FairSpec == Spec /\ Fairness

-----------------------------------------------------------------------------
(* Properties *)

SharedTypeOK ==
  /\ compiled \subseteq Variants
  /\ jobs \in [Variants -> Futures \cup {None}]
  /\ ongoing \subseteq Futures
  /\ status \in [Futures -> Statuses]
  /\ on \in [Futures -> Runners \cup {None}]
  /\ kind \in [Runners -> Kinds]
  /\ executor \in [Runners -> States]
  /\ default \in Runners \cup {None}
  /\ lock \in Threads \cup {None}
  /\ cyclic \subseteq Futures
  /\ seen \in [Threads -> SUBSET Futures]
  /\ reported \subseteq Futures

ThreadsTypeOK ==
  /\ pc \in [Threads -> Labels]
  /\ var \in [Threads -> Variants \cup {None}]
  /\ jit \in [Threads -> {"on", "off", "again"}]
  /\ fut \in [Threads -> Futures \cup {None}]
  /\ run \in [Threads -> Runners \cup {None}]
  /\ todo \in [Threads -> SUBSET Variants]
  /\ snap \in [Threads -> SUBSET Futures]
  /\ failures \in [Threads -> SUBSET Futures]
  /\ outcome \in [Threads -> Outcomes]

(* The pools, the runners and the locals of the threads keep their types. *)
TypeOK == SharedTypeOK /\ ThreadsTypeOK

(* wait_for_compilation is a barrier: when it returns, or raises the failures
   it collected, no job that a pool held when it was called is unresolved. *)
WaitIsBarrier ==
  \A t \in Threads : outcome[t] \in {"waited", "waitFailed"} =>
    \A f \in seen[t] : status[f] # "pending"

(* An unresolved job of a pool is tracked for wait_for_compilation, or the
   thread that registered it is about to track it. *)
TrackedUntilDone ==
  \A v \in Variants : jobs[v] # None /\ status[jobs[v]] = "pending" =>
    \/ jobs[v] \in ongoing
    \/ \E t \in Threads : pc[t] = "track" /\ fut[t] = jobs[v]

(* wait_for_compilation never returns normally over a job that failed, that
   its pool still holds and that no earlier wait has raised. *)
NoSilentFailure ==
  \A t \in Threads, v \in Variants :
    outcome[t] = "waited" /\ jobs[v] \in seen[t] =>
      (status[jobs[v]] = "failed" => jobs[v] \in reported)

(* Each failure is raised only once by wait_for_compilation. *)
RaisedOnce ==
  [][\A t \in Threads : At(t, "collect") /\ outcome'[t] = "waitFailed" =>
       failures[t] \cap reported = {}]_vars

(* No call or wait ends in an error of the bookkeeping itself: a KeyError or
   an AssertionError, or, for a call with enable_jit, "already exists" or
   "No program compiled". *)
NoSpuriousError ==
  \A t \in Threads :
    /\ outcome[t] \notin {"keyError", "assertion"}
    /\ jit[t] # "off" => outcome[t] \notin {"noProgram", "exists"}

(* A failed job leaves its pool only through a call that raises the failure,
   or with the pool itself. *)
FailureSurfaces ==
  [][\A v \in Variants :
       LET f == jobs[v] IN
       f # None /\ status[f] = "failed" /\ jobs'[v] # f =>
         \/ DropPool(PoolOf[v])
         \/ \E t \in Threads : At(t, "pop") /\ var[t] = v /\ fut'[t] = f]_vars

(* The pool never submits to a runner that wait_for_compilation shut down. *)
NoStaleRunner == \A t \in Threads : outcome[t] # "shutdown"

(* A wait that collected a failure raises it. *)
CollectedIsRaised ==
  \A t \in Threads : failures[t] # {} /\ pc[t] = "idle" => outcome[t] = "waitFailed"

(* wait_for_compilation returns although other threads keep submitting and
   whatever the workers do: it never waits for a job that nobody resolves. *)
WaitReturns == \A t \in Waiters : pc[t] # "idle" ~> pc[t] = "idle"
=============================================================================
