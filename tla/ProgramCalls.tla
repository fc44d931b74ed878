---------------------------- MODULE ProgramCalls ----------------------------
(***************************************************************************)
(* Calls of programs and field operators through the instrumentation hooks *)
(* (next/instrumentation, next/ffront/decorator.py and the hooks of        *)
(* next/otf/compiled_program.py).  A context hook keeps the context        *)
(* managers of the call in progress in the hook object itself, which all   *)
(* threads share; the metrics key lives in a context variable, one value   *)
(* per thread.  Assertions are enabled (python without -O).  All pools     *)
(* have the same root, i.e. program name and backend.                      *)
(***************************************************************************)
EXTENDS Integers, Sequences, FiniteSets

CONSTANTS
  Threads,      \* threads that call programs
  KindsOf,      \* of every thread, the kinds of calls it makes
  Users,        \* users of the GPU profiler
  Pools,        \* compiled-programs pools of one root
  Variants,     \* keys of compiled variants
  None, Missing \* no value, and an attribute that was never assigned


Hooks   == {"program", "compiled", "embedded"}
Kinds   == {"program", "operator", "embedded"}

SourceKeys ==
  [pool : 0 .. Cardinality(Pools), variant : Variants \cup {None}]
EmbeddedKey == [pool |-> 0, variant |-> None]
Tokens  == [thread : Threads, old : SourceKeys \cup {None}, used : BOOLEAN]
Managers ==
  [key : SourceKeys \cup {None}, token : Tokens \cup {None, Missing}, range : BOOLEAN]

ASSUME CallsAssumption ==
  /\ IsFiniteSet(Users) /\ IsFiniteSet(Pools)
  /\ KindsOf \in [Threads -> SUBSET Kinds]
  /\ None \notin Users \cup Variants \cup SourceKeys \cup Tokens \cup Managers
  /\ Missing \notin Tokens \cup {None}
VARIABLES
  profiled,   \* hooks on which the GPU profiler is registered
  ctx,        \* ContextHook.ctx_managers of every hook, or None if the list is empty
  cvar,       \* of every thread, the current source key
  keyCache,   \* of every thread, the keys of _metrics_source_key_cache
  rooted,     \* pools counted in _pools_per_root
  sources,    \* keys of metrics.sources
  level,      \* is a metrics level enabled?
  compiled,   \* pairs of pool and variant that are compiled
  failedOnce, \* history: pairs whose compilation has failed after the hook
  pc, call,   \* of every thread, the place and the call in progress
  session, count, lock, upc, inside  \* the profiling session and its users

metrics  == <<cvar, keyCache, rooted, sources>>
profiler == <<profiled, session, count, lock, upc, inside>>
vars == <<metrics, profiler, ctx, level, compiled, failedOnce, pc, call>>

Init ==
  /\ profiled = {} /\ session = FALSE /\ count = 0 /\ lock = None
  /\ upc = [u \in Users |-> "idle"] /\ inside = [u \in Users |-> FALSE]
  /\ ctx = [h \in Hooks |-> None]
  /\ cvar = [t \in Threads |-> None]
  /\ keyCache = [t \in Threads |-> [x \in {} |-> EmbeddedKey]]
  /\ rooted = {}
  /\ sources = {}
  /\ level \in BOOLEAN
  /\ compiled = {} /\ failedOnce = {}
  /\ pc = [t \in Threads |-> "idle"]
  /\ call = [t \in Threads |-> None]

-----------------------------------------------------------------------------
(* The context managers that a hook makes for a call: the one of its       *)
(* definition, with the key that it sets and the previous_cvar_token of    *)
(* BaseMetricsCollector, and after it the time range of the GPU profiler   *)
(* if that is registered.                                                  *)
NewManagers(h, key) == [key |-> key, token |-> Missing, range |-> h \in profiled]

HasRange(ms) == ms # None /\ ms.range

(* History of the call of a thread.  Once it is excused, i.e. another call *)
(* overlapped it or the metrics level was changed, nothing is recorded.    *)
Note(t, record) ==
  call' = [call EXCEPT ![t] = IF @.excused THEN @ ELSE record]
Excused(c) ==
  [c EXCEPT !.excused = TRUE, !.failed = FALSE, !.error = FALSE, !.ran = FALSE,
            !.added = << >>, !.before = None, !.measured = FALSE, !.open = 0]

(* ContextHook.__enter__: whatever the hook holds now is entered.  The     *)
(* token that a SourceKeySetterAtEnter keeps is never read.                *)
EnterAll(t, h) ==
  LET ms == ctx[h] IN
  /\ cvar' = IF ms = None \/ ~level THEN cvar
             ELSE [cvar EXCEPT ![t] = ms.key]
  /\ ctx' = IF ms = None \/ h # "program" THEN ctx
            ELSE [ctx EXCEPT ![h].token =
                    IF level THEN [thread |-> t, old |-> cvar[t], used |-> FALSE] ELSE None]
Opened(t, h) == call[t].open + (IF HasRange(ctx[h]) THEN 1 ELSE 0)

(* Mutant: only the managers of callbacks that are still registered are    *)
(* left.                                                                   *)
ClosedIfRegistered(t, h) ==
  call[t].open - (IF HasRange(ctx[h]) /\ h \in profiled THEN 1 ELSE 0)
Closed(t, h) == call[t].open - (IF HasRange(ctx[h]) THEN 1 ELSE 0)

(* The samples that the collector adds, and the key that it restores.      *)
(* Mutants: failed calls are not sampled; the key is left set.             *)
SamplesOfSuccess(t) == IF call[t].error THEN << >> ELSE <<cvar[t]>>
Samples(t) == <<cvar[t]>>
RestoredNever(t, tok) == cvar[t]
Restored(t, tok) == tok.old

(* BaseMetricsCollector.__exit__; raised is TRUE if it raises: no token    *)
(* was ever stored (AttributeError), no key is set (AssertionError), or    *)
(* the token was used or belongs to another thread (contextvars).          *)
CollectorExit(t, tok, raised) ==
  \/ /\ tok = None /\ ~raised
     /\ UNCHANGED <<cvar, sources, ctx>>
     /\ Note(t, [call[t] EXCEPT !.open = Closed(t, "program")])
  \/ /\ tok = Missing \/ (tok # None /\ cvar[t] = None)
     /\ raised
     /\ UNCHANGED <<cvar, sources, ctx>>
     /\ Note(t, [call[t] EXCEPT !.open = Closed(t, "program"), !.error = TRUE])
  \/ /\ tok \notin {None, Missing} /\ cvar[t] # None
     /\ sources' = sources \cup {cvar[t]}
     /\ raised = (tok.used \/ tok.thread # t)
     /\ IF raised THEN UNCHANGED <<cvar, ctx>>
        ELSE /\ cvar' = [cvar EXCEPT ![t] = Restored(t, tok)]
             /\ ctx' = [ctx EXCEPT !["program"].token.used = TRUE]
     /\ Note(t, [call[t] EXCEPT !.open = Closed(t, "program"),
                                !.added = @ \o Samples(t),
                                !.error = @ \/ raised])

(* metrics_source_key: the number is the number of pools counted by now.   *)
(* Mutant: every access to the root counts the pool again.                 *)
KeyOfRecounted(t, p, v) == [pool |-> Cardinality(rooted \cup {p}) + 1, variant |-> v]
KeyOf(t, p, v) ==
  IF <<p, v>> \in DOMAIN keyCache[t] THEN keyCache[t][<<p, v>>]
  ELSE [pool |-> Cardinality(rooted \cup {p}), variant |-> v]

Remember(t, p, v) ==
  /\ rooted' = rooted \cup {p}
  /\ keyCache' = [keyCache EXCEPT ![t] =
       [x \in DOMAIN @ \cup {<<p, v>>} |-> IF x \in DOMAIN @ THEN @[x] ELSE KeyOf(t, p, v)]]

-----------------------------------------------------------------------------
(* Program.__call__ and FieldOperator.__call__.  An operator that is       *)
(* called directly opens no program context.                               *)
Busy(u) == pc[u] \notin {"idle", "returned"}

Call(t, kind, p, v) ==
  LET new == [kind |-> kind, pool |-> p, variant |-> v, failed |-> FALSE, taken |-> FALSE,
              error |-> FALSE, ran |-> FALSE, added |-> << >>, before |-> cvar[t],
              measured |-> FALSE, open |-> 0, excused |-> FALSE]
      others == {u \in Threads \ {t} : Busy(u)} IN
  /\ pc[t] = "idle"
  /\ call' = [u \in Threads |->
       IF u = t THEN IF others = {} THEN new ELSE Excused(new)
       ELSE IF u \in others THEN Excused(call[u]) ELSE call[u]]
  /\ IF kind = "operator"
       THEN /\ pc' = [pc EXCEPT ![t] = "dispatch"]
            /\ UNCHANGED ctx
       ELSE /\ pc' = [pc EXCEPT ![t] = "enterProgram"]
            /\ ctx' = [ctx EXCEPT !["program"] = NewManagers("program", None)]
  /\ UNCHANGED <<metrics, profiler, level, compiled, failedOnce>>

(* compile_variant_hook asserts that the key of the variant is new.        *)
KeyIsTaken(t, p, v) == level /\ KeyOf(t, p, v) \in sources

(* Where an exception of the body leads.                                   *)
Unwind(t, taken) ==
  /\ pc' = [pc EXCEPT ![t] = IF call[t].kind = "operator" THEN "returned" ELSE "exitProgram"]
  /\ call' = [call EXCEPT ![t].failed = ~call[t].excused, ![t].error = ~call[t].excused,
                          ![t].taken = taken]

(* The program context is entered, and the arguments are validated.        *)
EnterProgram(t) ==
  LET entered == [call[t] EXCEPT !.measured = level, !.open = Opened(t, "program")] IN
  /\ pc[t] = "enterProgram"
  /\ EnterAll(t, "program")
  /\ \/ /\ pc' = [pc EXCEPT ![t] = "dispatch"]
        /\ Note(t, entered)
     \/ /\ pc' = [pc EXCEPT ![t] = "exitProgram"]
        /\ Note(t, [entered EXCEPT !.failed = TRUE, !.error = TRUE])
  /\ UNCHANGED <<profiler, keyCache, rooted, sources, level, compiled, failedOnce>>

(* compile_variant_hook; if KeyIsTaken, its assertion fails.               *)
CompileVariantHook(t, p, v) ==
  IF level
    THEN /\ Remember(t, p, v)
         /\ sources' = sources \cup {KeyOf(t, p, v)}
    ELSE UNCHANGED <<rooted, keyCache, sources>>

(* Mutant: the program is not stored.                                      *)
StoredNever(p, v) == compiled
Stored(p, v) == compiled \cup {<<p, v>>}

(* CompiledProgramsPool.__call__ for a variant that is not compiled.  How  *)
(* the compilation runs is the subject of CompilationPool.                 *)
Jit(t) ==
  LET p == call[t].pool  v == call[t].variant IN
  /\ pc[t] = "dispatch" /\ call[t].kind # "embedded" /\ <<p, v>> \notin compiled
  /\ CompileVariantHook(t, p, v)
  /\ \/ /\ ~KeyIsTaken(t, p, v)
        /\ compiled' = Stored(p, v)
        /\ UNCHANGED <<pc, call, failedOnce>>
     \/ /\ Unwind(t, KeyIsTaken(t, p, v))
        /\ failedOnce' = failedOnce \cup (IF KeyIsTaken(t, p, v) THEN {} ELSE {<<p, v>>})
        /\ UNCHANGED compiled
  /\ UNCHANGED <<cvar, profiler, ctx, level>>

(* The same call with enable_jit=False.                                    *)
Refuse(t) ==
  /\ pc[t] = "dispatch" /\ call[t].kind # "embedded"
  /\ <<call[t].pool, call[t].variant>> \notin compiled
  /\ Unwind(t, FALSE)
  /\ UNCHANGED <<metrics, profiler, ctx, level, compiled, failedOnce>>

VariantHook(t) == IF call[t].kind = "embedded" THEN "embedded" ELSE "compiled"

(* compiled_program_call_context and embedded_program_call_context         *)
Open(t) ==
  LET p == call[t].pool  v == call[t].variant  h == VariantHook(t) IN
  /\ pc[t] = "dispatch" /\ (h = "embedded" \/ <<p, v>> \in compiled)
  /\ pc' = [pc EXCEPT ![t] = "enterVariant"]
  /\ IF h = "embedded"
       THEN /\ ctx' = [ctx EXCEPT ![h] = NewManagers(h, EmbeddedKey)]
            /\ UNCHANGED <<rooted, keyCache>>
       ELSE /\ ctx' = [ctx EXCEPT ![h] = NewManagers(h, KeyOf(t, p, v))]
            /\ Remember(t, p, v)
  /\ UNCHANGED <<cvar, sources, profiler, level, compiled, failedOnce, call>>

EnterVariant(t) ==
  /\ pc[t] = "enterVariant"
  /\ EnterAll(t, VariantHook(t))
  /\ pc' = [pc EXCEPT ![t] = "run"]
  /\ Note(t, [call[t] EXCEPT !.open = Opened(t, VariantHook(t))])
  /\ UNCHANGED <<profiler, keyCache, rooted, sources, level, compiled, failedOnce>>

(* Mutant: the context of the variant unsets the key.                      *)
RunUnsetsKey(t) ==
  /\ pc[t] = "run"
  /\ pc' = [pc EXCEPT ![t] = "clearVariant"]
  /\ cvar' = [cvar EXCEPT ![t] = None]
  /\ Note(t, [call[t] EXCEPT !.ran = TRUE, !.open = Closed(t, VariantHook(t))])
  /\ UNCHANGED <<keyCache, rooted, sources, profiler, ctx, level, compiled, failedOnce>>

(* The program runs, and the context of the variant is left: the exit of   *)
(* SourceKeySetterAtEnter leaves the key set.                              *)
Run(t) ==
  /\ pc[t] = "run"
  /\ pc' = [pc EXCEPT ![t] = "clearVariant"]
  /\ \E ok \in BOOLEAN :
       Note(t, [call[t] EXCEPT !.ran = TRUE, !.failed = ~ok, !.error = ~ok,
                               !.open = Closed(t, VariantHook(t))])
  /\ UNCHANGED <<metrics, profiler, ctx, level, compiled, failedOnce>>

ClearVariant(t) ==
  /\ pc[t] = "clearVariant"
  /\ ctx' = [ctx EXCEPT ![VariantHook(t)] = None]
  /\ pc' = [pc EXCEPT ![t] = IF call[t].kind = "operator" THEN "returned" ELSE "exitProgram"]
  /\ UNCHANGED <<metrics, profiler, level, compiled, failedOnce, call>>

ExitProgram(t) ==
  LET ms == ctx["program"] IN
  /\ pc[t] = "exitProgram"
  /\ \E raised \in BOOLEAN :
       /\ pc' = [pc EXCEPT ![t] = IF raised THEN "returned" ELSE "clearProgram"]
       /\ IF ms = None THEN ~raised /\ UNCHANGED <<cvar, sources, ctx, call>>
                       ELSE CollectorExit(t, ms.token, raised)
  /\ UNCHANGED <<keyCache, rooted, profiler, level, compiled, failedOnce>>

ClearProgram(t) ==
  /\ pc[t] = "clearProgram"
  /\ ctx' = [ctx EXCEPT !["program"] = None]
  /\ pc' = [pc EXCEPT ![t] = "returned"]
  /\ UNCHANGED <<metrics, profiler, level, compiled, failedOnce, call>>

(* The caller goes on.                                                     *)
Return(t) ==
  /\ pc[t] = "returned"
  /\ pc' = [pc EXCEPT ![t] = "idle"]
  /\ call' = [call EXCEPT ![t] = None]
  /\ UNCHANGED <<metrics, profiler, ctx, level, compiled, failedOnce>>

(* CompiledProgramsPool.compile, outside of any call.                      *)
Precompile(t, p, v) ==
  /\ pc[t] = "idle" /\ <<p, v>> \notin compiled
  /\ CompileVariantHook(t, p, v)
  /\ \/ KeyIsTaken(t, p, v) /\ UNCHANGED <<compiled, failedOnce>>
     \/ /\ ~KeyIsTaken(t, p, v)
        /\ \/ compiled' = Stored(p, v) /\ UNCHANGED failedOnce
           \/ failedOnce' = failedOnce \cup {<<p, v>>} /\ UNCHANGED compiled
  /\ UNCHANGED <<cvar, profiler, ctx, level, pc, call>>

(* config.COLLECT_METRICS_LEVEL is changed.                                *)
SetLevel ==
  /\ level' = ~level
  /\ call' = [t \in Threads |-> IF Busy(t) THEN Excused(call[t]) ELSE call[t]]
  /\ UNCHANGED <<metrics, profiler, ctx, compiled, failedOnce, pc>>

-----------------------------------------------------------------------------
calls == <<metrics, ctx, level, compiled, failedOnce, pc, call>>

(* start_profiling_calls, with no session active: the hooks are registered *)
(* one after the other and then the session is entered, which may fail.    *)
StartFirst(u) ==
  /\ upc[u] = "idle" /\ ~inside[u] /\ lock = None /\ ~session
  /\ lock' = u /\ count' = count + 1 /\ session' = TRUE
  /\ profiled' = profiled \cup {"program"}
  /\ upc' = [upc EXCEPT ![u] = "register"]
  /\ UNCHANGED <<calls, inside>>

RegisterSecond(u) ==
  /\ upc[u] = "register"
  /\ profiled' = profiled \cup {"compiled"}
  /\ upc' = [upc EXCEPT ![u] = "enter"]
  /\ UNCHANGED <<calls, session, count, lock, inside>>

EnterSession(u) ==
  /\ upc[u] = "enter"
  /\ \/ /\ lock' = None /\ inside' = [inside EXCEPT ![u] = TRUE]
        /\ upc' = [upc EXCEPT ![u] = "idle"]
        /\ UNCHANGED <<count, profiled>>
     \/ /\ count' = 0 /\ profiled' = profiled \ {"compiled"}
        /\ upc' = [upc EXCEPT ![u] = "unregister"]
        /\ UNCHANGED <<lock, inside>>
  /\ UNCHANGED <<calls, session>>

StartAgain(u) ==
  /\ upc[u] = "idle" /\ ~inside[u] /\ lock = None /\ session
  /\ count' = count + 1
  /\ inside' = [inside EXCEPT ![u] = TRUE]
  /\ UNCHANGED <<calls, profiled, session, lock, upc>>

(* Mutant: every stop ends the session.                                    *)
IsLastAlways == TRUE
IsLast == count = 1

(* stop_profiling_calls; the last one ends the session.                    *)
Stop(u) ==
  /\ upc[u] = "idle" /\ inside[u] /\ lock = None /\ count > 0
  /\ inside' = [inside EXCEPT ![u] = FALSE]
  /\ count' = count - 1
  /\ IF ~IsLast
       THEN UNCHANGED <<lock, profiled, upc>>
       ELSE /\ lock' = u
            /\ profiled' = profiled \ {"compiled"}
            /\ upc' = [upc EXCEPT ![u] = "unregister"]
  /\ UNCHANGED <<calls, session>>

UnregisterFirst(u) ==
  /\ upc[u] = "unregister"
  /\ profiled' = profiled \ {"program"}
  /\ session' = FALSE /\ lock' = None
  /\ upc' = [upc EXCEPT ![u] = "idle"]
  /\ UNCHANGED <<calls, count, inside>>

-----------------------------------------------------------------------------
Step(t) ==
  \/ EnterProgram(t) \/ Jit(t) \/ Refuse(t)
  \/ Open(t) \/ EnterVariant(t) \/ Run(t) \/ ClearVariant(t)
  \/ ExitProgram(t) \/ ClearProgram(t) \/ Return(t)

UserStep(u) ==
  \/ StartFirst(u) \/ RegisterSecond(u) \/ EnterSession(u)
  \/ StartAgain(u) \/ Stop(u) \/ UnregisterFirst(u)

Next ==
  \/ \E t \in Threads, p \in Pools, v \in Variants :
       \E kind \in KindsOf[t] \ {"embedded"} : Call(t, kind, p, v)
  \/ \E t \in Threads : "embedded" \in KindsOf[t] /\ Call(t, "embedded", None, None)
  \/ \E t \in Threads, p \in Pools, v \in Variants : Precompile(t, p, v)
  \/ \E t \in Threads : Step(t)
  \/ \E u \in Users : UserStep(u)
  \/ SetLevel

Spec == Init /\ [][Next]_vars

-----------------------------------------------------------------------------
Places ==
  {"idle", "enterProgram", "dispatch", "enterVariant", "run", "clearVariant",
   "exitProgram", "clearProgram", "returned"}
CallRecords ==
  [kind : Kinds, pool : Pools \cup {None}, variant : Variants \cup {None},
   failed : BOOLEAN, taken : BOOLEAN, error : BOOLEAN, ran : BOOLEAN,
   added : {<< >>} \cup {<<k>> : k \in SourceKeys}, before : SourceKeys \cup {None},
   measured : BOOLEAN, open : 0 .. 2, excused : BOOLEAN]

TypeOK ==
  /\ profiled \subseteq {"program", "compiled"}
  /\ session \in BOOLEAN /\ count \in 0 .. Cardinality(Users)
  /\ lock \in Users \cup {None}
  /\ upc \in [Users -> {"idle", "register", "enter", "unregister"}]
  /\ inside \in [Users -> BOOLEAN]
  /\ ctx \in [Hooks -> Managers \cup {None}]
  /\ cvar \in [Threads -> SourceKeys \cup {None}]
  /\ rooted \subseteq Pools
  /\ DOMAIN keyCache = Threads
  /\ \A t \in Threads : \A x \in DOMAIN keyCache[t] :
       x \in Pools \X Variants /\ keyCache[t][x] \in SourceKeys
  /\ sources \subseteq SourceKeys
  /\ compiled \subseteq Pools \X Variants /\ failedOnce \subseteq Pools \X Variants
  /\ level \in BOOLEAN
  /\ pc \in [Threads -> Places]
  /\ call \in [Threads -> CallRecords \cup {None}]
  /\ \A t \in Threads : IF pc[t] = "idle" THEN call[t] = None ELSE call[t] \in CallRecords

(* A call that has returned and that no other call overlapped, with the    *)
(* metrics level left alone meanwhile.                                     *)
Clean(t) == pc[t] = "returned" /\ ~call[t].excused

(* A call on its own ends in an error only if validation, compilation or   *)
(* the program itself failed, whatever earlier calls that got mixed up, or *)
(* failed, have left in the hooks and the context variable (ContextHook).  *)
(* The exit of the program context replaces that error by one of its own   *)
(* exactly if the call was measured and failed before it reached its       *)
(* variant: then no key is set, and the assertion of                       *)
(* BaseMetricsCollector.__exit__ fails.  Any other call keeps its error.   *)
ErrorIsKept ==
  [][\A t \in Threads :
       pc[t] = "exitProgram" /\ pc'[t] # "exitProgram" /\ ~call[t].excused =>
         /\ call'[t].error => call[t].failed
         /\ pc'[t] = "returned" <=> call[t].measured /\ ~call[t].ran]_vars

(* A program call that reached its variant adds one sample, under the key  *)
(* of that variant, even if it failed; other calls add none                *)
(* (BaseMetricsCollector.__exit__).                                        *)
SampledOnce ==
  \A t \in Threads : Clean(t) =>
    call[t].added =
      IF call[t].kind # "operator" /\ call[t].measured /\ call[t].ran
        THEN <<IF call[t].kind = "embedded" THEN EmbeddedKey
               ELSE KeyOf(t, call[t].pool, call[t].variant)>>
        ELSE << >>

(* After a program call the source key is the one before it, also if the   *)
(* program failed: the key that the inner context leaves set is unset by   *)
(* the outer one (compiled_program_call_context).  Only a measured call    *)
(* that failed before it reached its variant leaves no key, because the    *)
(* exit of its collector stops at an assertion (ErrorIsKept).              *)
KeyIsUnset ==
  \A t \in Threads :
    Clean(t) /\ call[t].kind # "operator" =>
      cvar[t] = IF call[t].measured /\ ~call[t].ran THEN None ELSE call[t].before

(* Every time range that a call has opened is closed, also if the profiler *)
(* was started or stopped during the call or the call failed.              *)
RangesAreClosed == \A t \in Threads : Clean(t) => call[t].open = 0

(* The assertion of compile_variant_hook fails only for a variant whose    *)
(* compilation has failed before, or whose key another pool has got.       *)
TakenKeyHasCause ==
  \A t \in Threads :
    call[t] # None /\ call[t].taken =>
      LET p == call[t].pool  v == call[t].variant IN
      \/ <<p, v>> \in failedOnce
      \/ \E u \in Threads, q \in Pools \ {p} :
           /\ <<q, v>> \in DOMAIN keyCache[u]
           /\ keyCache[u][<<q, v>>] = KeyOf(t, p, v)

(* Whenever the lock is free, the hooks are registered exactly while some  *)
(* user is between start_profiling_calls and stop_profiling_calls.         *)
InsideIsProfiled ==
  lock = None =>
    /\ profiled = (IF \E u \in Users : inside[u] THEN {"program", "compiled"} ELSE {})
    /\ session <=> (count > 0)
    /\ count = Cardinality({u \in Users : inside[u]})
=============================================================================
