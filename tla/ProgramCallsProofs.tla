------------------------- MODULE ProgramCallsProofs -------------------------
(***************************************************************************)
(* Proofs about ProgramCalls for any threads, pools, variants and users of *)
(* the GPU profiler.                                                       *)
(***************************************************************************)
EXTENDS ProgramCalls, FiniteSetTheorems, TLAPS

(* The lock of the profiler and what its holder has done so far.           *)
NobodyInside == \A u \in Users : ~inside[u]
ProfilerInv ==
  /\ \A u \in Users : upc[u] # "idle" <=> lock = u
  /\ InsideIsProfiled
  /\ \A u \in Users :
       /\ upc[u] = "register" => session /\ NobodyInside /\ count = 1 /\ profiled = {"program"}
       /\ upc[u] = "enter" =>
            session /\ NobodyInside /\ count = 1 /\ profiled = {"program", "compiled"}
       /\ upc[u] = "unregister" => session /\ NobodyInside /\ count = 0 /\ profiled = {"program"}

(* A call that is not excused runs on its own.                             *)
Own(t) == Busy(t) /\ ~call[t].excused
SoloInv == \A t, u \in Threads : Own(t) /\ u # t => ~Busy(u)

(* Only an embedded call has no pool.                                      *)
Kinded(t) ==
  /\ call[t].kind # "embedded" => call[t].pool \in Pools /\ call[t].variant \in Variants
  /\ call[t].excused => call[t].added = << >> /\ call[t].open = 0

(* The key of the variant of a call is the one that the thread remembers.  *)
CallKey(t) ==
  IF call[t].kind = "embedded" THEN EmbeddedKey
  ELSE keyCache[t][<<call[t].pool, call[t].variant>>]
Remembered(t) ==
  call[t].kind # "embedded" => <<call[t].pool, call[t].variant>> \in DOMAIN keyCache[t]

InContext(t) == pc[t] \in {"dispatch", "enterVariant", "run", "clearVariant", "exitProgram"}
InVariant(t) == pc[t] \in {"enterVariant", "run", "clearVariant"}

(* What a call on its own has put into the hooks, ...                      *)
Hooked(t) ==
  Own(t) =>
    /\ pc[t] = "enterProgram" => ctx["program"] # None /\ ctx["program"].key = None
    /\ pc[t] \in {"enterProgram", "clearProgram", "exitProgram"} => call[t].kind # "operator"
    /\ InContext(t) /\ call[t].kind # "operator" =>
         /\ ctx["program"] # None
         /\ ctx["program"].token =
              IF level THEN [thread |-> t, old |-> call[t].before, used |-> FALSE] ELSE None
         /\ call[t].measured = level
    /\ pc[t] = "enterVariant" =>
         ctx[VariantHook(t)] # None /\ ctx[VariantHook(t)].key = CallKey(t)
    /\ InVariant(t) \/ call[t].ran => Remembered(t)

(* ... into the context variable of its thread, ...                        *)
Keyed(t) ==
  Own(t) /\ call[t].kind # "operator" =>
    /\ pc[t] = "enterProgram" => cvar[t] = call[t].before
    /\ InContext(t) =>
         cvar[t] = IF ~level THEN call[t].before
                   ELSE IF call[t].ran \/ pc[t] = "run" THEN CallKey(t) ELSE None

(* ... and into its own record, ...                                        *)
ProgramRange(t) == IF call[t].kind # "operator" /\ HasRange(ctx["program"]) THEN 1 ELSE 0
VariantRange(t) == IF HasRange(ctx[VariantHook(t)]) THEN 1 ELSE 0
Recorded(t) ==
  Own(t) =>
    /\ pc[t] \in {"enterProgram", "dispatch", "enterVariant", "run"} => ~call[t].ran
    /\ pc[t] = "clearVariant" => call[t].ran
    /\ pc[t] = "exitProgram" => call[t].ran \/ call[t].failed
    /\ call[t].error = call[t].failed
    /\ pc[t] # "clearProgram" => call[t].added = << >>
    /\ pc[t] = "enterProgram" => call[t].open = 0
    /\ InContext(t) => call[t].open =
         ProgramRange(t) + IF pc[t] = "run" THEN VariantRange(t) ELSE 0

(* ... and what it leaves.                                                 *)
Done(t) ==
  pc[t] \in {"clearProgram", "returned"} /\ ~call[t].excused =>
    /\ call[t].error = call[t].failed
    /\ call[t].open = 0
    /\ call[t].kind # "operator" =>
         cvar[t] = IF call[t].measured /\ ~call[t].ran THEN None ELSE call[t].before
    /\ call[t].ran => Remembered(t)
    /\ call[t].added =
         IF call[t].kind # "operator" /\ call[t].measured /\ call[t].ran
           THEN <<CallKey(t)>> ELSE << >>

(* Why the key of a variant was taken.                                     *)
Explained(t) ==
  call[t].taken =>
    /\ call[t].kind # "embedded" /\ Remembered(t)
    /\ LET p == call[t].pool  v == call[t].variant IN
       \/ <<p, v>> \in failedOnce
       \/ \E u \in Threads, q \in Pools \ {p} :
            <<q, v>> \in DOMAIN keyCache[u] /\ keyCache[u][<<q, v>>] = CallKey(t)

ThreadOK(t) ==
  pc[t] # "idle" =>
    Kinded(t) /\ Hooked(t) /\ Keyed(t) /\ Recorded(t) /\ Done(t) /\ Explained(t)
ThreadInv == \A t \in Threads : ThreadOK(t)

(* The keys in use are those of variants that are compiled, or whose       *)
(* compilation has failed.                                                 *)
KeyCacheInv ==
  \A t \in Threads : \A x \in DOMAIN keyCache[t] : keyCache[t][x].variant = x[2]
KnownIn(k, cache, tried) ==
  k \in {None, EmbeddedKey} \/
  \E u \in Threads, q \in Pools :
    /\ <<q, k.variant>> \in DOMAIN cache[u] /\ cache[u][<<q, k.variant>>] = k
    /\ <<q, k.variant>> \in tried
Known(k) == KnownIn(k, keyCache, compiled \cup failedOnce)
KnownInv ==
  /\ \A k \in sources : Known(k)
  /\ \A t \in Threads : Known(cvar[t])
  /\ \A h \in Hooks : ctx[h] # None =>
       /\ Known(ctx[h].key)
       /\ ctx[h].token \notin {None, Missing} => Known(ctx[h].token.old)

IInv == TypeOK /\ ProfilerInv /\ SoloInv /\ ThreadInv /\ KeyCacheInv /\ KnownInv

-----------------------------------------------------------------------------
(* The profiling session.                                                  *)

Insiders == {u \in Users : inside[u]}

(* The users inside are counted by a number of their set.                  *)
LEMMA InsidersCount ==
  ASSUME NEW f \in [Users -> BOOLEAN]
  PROVE  LET S == {u \in Users : f[u]} IN
         /\ IsFiniteSet(S) /\ Cardinality(S) \in 0 .. Cardinality(Users)
         /\ Cardinality(S) = 0 <=> \A u \in Users : ~f[u]
<1> DEFINE S == {u \in Users : f[u]}
<1>1. IsFiniteSet(Users) /\ S \subseteq Users
  BY CallsAssumption
<1>2. IsFiniteSet(S) /\ Cardinality(S) <= Cardinality(Users)
  BY <1>1, FS_Subset
<1>3. Cardinality(S) \in Nat /\ Cardinality(Users) \in Nat
  BY <1>1, <1>2, FS_CardinalityType
<1>4. Cardinality(S) = 0 <=> S = {}
  BY <1>2, FS_EmptySet
<1>5. S = {} <=> \A u \in Users : ~f[u]
  OBVIOUS
<1> QED BY <1>2, <1>3, <1>4, <1>5

(* A user that enters is one more.                                         *)
LEMMA OneMoreInside ==
  ASSUME inside \in [Users -> BOOLEAN], NEW u \in Users, ~inside[u],
         inside' = [inside EXCEPT ![u] = TRUE]
  PROVE  /\ inside' \in [Users -> BOOLEAN]
         /\ Cardinality(Insiders') = Cardinality(Insiders) + 1
<1>1. Insiders' = Insiders \cup {u} /\ u \notin Insiders
  BY DEF Insiders
<1>2. IsFiniteSet(Insiders)
  BY InsidersCount DEF Insiders
<1> QED BY <1>1, <1>2, FS_AddElement

(* A user that leaves is one less.                                         *)
LEMMA OneLessInside ==
  ASSUME inside \in [Users -> BOOLEAN], NEW u \in Users, inside[u],
         inside' = [inside EXCEPT ![u] = FALSE]
  PROVE  /\ inside' \in [Users -> BOOLEAN]
         /\ Cardinality(Insiders') = Cardinality(Insiders) - 1
<1>1. Insiders' = Insiders \ {u} /\ u \in Insiders
  BY DEF Insiders
<1>2. IsFiniteSet(Insiders)
  BY InsidersCount DEF Insiders
<1> QED BY <1>1, <1>2, FS_RemoveElement

(* The types of the profiler's variables.                                  *)
ProfilerTypes ==
  /\ profiled \subseteq {"program", "compiled"}
  /\ session \in BOOLEAN /\ count \in 0 .. Cardinality(Users)
  /\ lock \in Users \cup {None}
  /\ upc \in [Users -> {"idle", "register", "enter", "unregister"}]
  /\ inside \in [Users -> BOOLEAN]

(* start_profiling_calls and stop_profiling_calls keep the session, the    *)
(* hooks and the count in agreement, and touch no call.                    *)
LEMMA UserStepInv ==
  ASSUME ProfilerTypes, ProfilerInv, NEW u \in Users, UserStep(u)
  PROVE  ProfilerTypes' /\ ProfilerInv' /\ UNCHANGED calls
<1>1. /\ IsFiniteSet(Insiders) /\ Cardinality(Insiders) \in 0 .. Cardinality(Users)
      /\ Cardinality(Insiders) = 0 <=> NobodyInside
  BY InsidersCount DEF ProfilerTypes, Insiders, NobodyInside
<1>2. None \notin Users
  BY CallsAssumption
<1>3. lock = None =>
        /\ profiled = (IF NobodyInside THEN {} ELSE {"program", "compiled"})
        /\ session <=> (count > 0)
        /\ count = Cardinality(Insiders)
        /\ \A w \in Users : upc[w] = "idle"
  BY <1>2 DEF ProfilerInv, InsideIsProfiled, Insiders, NobodyInside
<1>4. lock' = None =>
        (InsideIsProfiled' <=>
        /\ profiled' = (IF NobodyInside' THEN {} ELSE {"program", "compiled"})
        /\ session' <=> (count' > 0)
        /\ count' = Cardinality(Insiders'))
  BY DEF InsideIsProfiled, Insiders, NobodyInside
<1>5. inside' \in [Users -> BOOLEAN] =>
        /\ Cardinality(Insiders') \in 0 .. Cardinality(Users)
        /\ Cardinality(Insiders') = 0 <=> NobodyInside'
  BY InsidersCount DEF Insiders, NobodyInside
<1>6. lock' # None => InsideIsProfiled'
  BY DEF InsideIsProfiled
<1>7. Cardinality(Users) \in Nat
  BY CallsAssumption, FS_CardinalityType
<1>8. upc[u] # "idle" => lock = u /\ \A w \in Users \ {u} : upc[w] = "idle"
  BY DEF ProfilerInv
<1>a. CASE StartFirst(u)
  <2>1. count = 0 /\ NobodyInside /\ profiled = {}
    BY <1>a, <1>1, <1>3 DEF StartFirst, ProfilerTypes
  <2>2. Cardinality(Users) >= 1
    <3>1. Users # {} BY DEF ProfilerTypes
    <3> QED BY <3>1, <1>7, CallsAssumption, FS_EmptySet
  <2>3. ProfilerTypes'
    BY <1>a, <2>1, <2>2, <1>7 DEF StartFirst, ProfilerTypes
  <2>4. NobodyInside' /\ count' = 1 /\ profiled' = {"program"} /\ session'
    BY <1>a, <2>1 DEF StartFirst, NobodyInside
  <2>5. lock' = u /\ upc'[u] = "register" /\ \A w \in Users \ {u} : upc'[w] = "idle"
    BY <1>a, <1>3 DEF StartFirst, ProfilerTypes
  <2> QED BY <1>a, <1>2, <1>6, <2>3, <2>4, <2>5 DEF StartFirst, ProfilerInv
<1>b. CASE RegisterSecond(u)
  <2>1. /\ lock' = u /\ upc'[u] = "enter" /\ \A w \in Users \ {u} : upc'[w] = "idle"
        /\ NobodyInside' /\ count' = 1 /\ profiled' = {"program", "compiled"} /\ session'
    BY <1>b, <1>8 DEF RegisterSecond, ProfilerTypes, ProfilerInv, NobodyInside
  <2>2. ProfilerTypes'
    BY <1>b DEF RegisterSecond, ProfilerTypes
  <2> QED BY <1>b, <1>2, <1>6, <2>1, <2>2 DEF RegisterSecond, ProfilerInv
<1>c. CASE EnterSession(u)
  <2>1. /\ lock = u /\ \A w \in Users \ {u} : upc'[w] = "idle"
        /\ NobodyInside /\ count = 1 /\ profiled = {"program", "compiled"} /\ session
    BY <1>c, <1>8 DEF EnterSession, ProfilerTypes, ProfilerInv
  <2>2. CASE count' = 0 /\ UNCHANGED lock
    <3>1. /\ lock' = u /\ upc'[u] = "unregister"
          /\ NobodyInside' /\ count' = 0 /\ profiled' = {"program"} /\ session'
      BY <1>c, <2>1, <2>2 DEF EnterSession, ProfilerTypes, NobodyInside
    <3>2. ProfilerTypes'
      BY <1>c, <2>1, <2>2, <3>1, <1>2, <1>7 DEF EnterSession, ProfilerTypes
    <3> QED BY <1>c, <1>2, <1>6, <2>1, <3>1, <3>2 DEF EnterSession, ProfilerInv
  <2>3. CASE lock' = None /\ count' = count
    <3>1. /\ inside' = [inside EXCEPT ![u] = TRUE] /\ upc'[u] = "idle"
          /\ UNCHANGED <<count, profiled, session>>
      BY <1>c, <2>1, <2>3 DEF EnterSession, ProfilerTypes
    <3>2. ~inside[u] BY <2>1 DEF NobodyInside
    <3>3. inside' \in [Users -> BOOLEAN] /\ Cardinality(Insiders') = 1
      <4>1. inside' \in [Users -> BOOLEAN] /\ Cardinality(Insiders') = Cardinality(Insiders) + 1
        BY <3>1, <3>2, OneMoreInside DEF ProfilerTypes
      <4> QED BY <1>1, <2>1, <4>1
    <3>4. ProfilerTypes'
      BY <1>c, <2>3, <3>1, <3>3 DEF EnterSession, ProfilerTypes
    <3>5. ~NobodyInside' BY <1>5, <3>3
    <3>6. InsideIsProfiled'
      BY <1>4, <2>1, <2>3, <3>1, <3>3, <3>5
    <3> QED BY <1>c, <1>2, <2>1, <2>3, <3>1, <3>4, <3>6 DEF EnterSession, ProfilerInv
  <2> QED BY <1>c, <2>2, <2>3 DEF EnterSession
<1>d. CASE StartAgain(u)
  <2>1. inside' \in [Users -> BOOLEAN] /\ Cardinality(Insiders') = Cardinality(Insiders) + 1
    BY <1>d, OneMoreInside DEF StartAgain, ProfilerTypes
  <2>2. count = Cardinality(Insiders) /\ count > 0 /\ profiled = {"program", "compiled"}
    BY <1>d, <1>1, <1>3 DEF StartAgain, ProfilerTypes
  <2>3. ProfilerTypes'
    BY <1>d, <1>5, <1>7, <2>1, <2>2 DEF StartAgain, ProfilerTypes
  <2>4. ~NobodyInside' /\ count' = Cardinality(Insiders') /\ count' > 0
    BY <1>1, <1>5, <1>d, <2>1, <2>2 DEF StartAgain, ProfilerTypes
  <2>5. InsideIsProfiled'
    BY <1>4, <1>6, <1>d, <2>2, <2>4 DEF StartAgain
  <2> QED BY <1>d, <1>2, <1>3, <2>3, <2>5 DEF StartAgain, ProfilerInv
<1>e. CASE Stop(u)
  <2>1. inside' \in [Users -> BOOLEAN] /\ Cardinality(Insiders') = Cardinality(Insiders) - 1
    BY <1>e, OneLessInside DEF Stop, ProfilerTypes
  <2>2. count = Cardinality(Insiders) /\ count > 0 /\ profiled = {"program", "compiled"} /\ session
    BY <1>e, <1>1, <1>3 DEF Stop, ProfilerTypes
  <2>3. count' = count - 1 /\ count' = Cardinality(Insiders') /\ count \in Nat
    BY <1>1, <1>e, <2>1, <2>2 DEF Stop, ProfilerTypes
  <2>4. CASE count # 1
    <3>1. ~NobodyInside' /\ count' > 0
      BY <1>5, <2>1, <2>2, <2>3, <2>4
    <3>2. UNCHANGED <<lock, profiled, upc, session>>
      BY <1>e, <2>4 DEF Stop, IsLast
    <3>3. ProfilerTypes'
      BY <1>e, <1>5, <1>7, <2>1, <2>3, <3>2 DEF ProfilerTypes
    <3>4. InsideIsProfiled'
      BY <1>4, <1>6, <2>2, <2>3, <3>1, <3>2
    <3>5. lock = None /\ UNCHANGED calls
      BY <1>e DEF Stop
    <3> QED BY <1>2, <1>3, <3>2, <3>3, <3>4, <3>5 DEF ProfilerInv
  <2>5. CASE count = 1
    <3>1. NobodyInside' /\ count' = 0
      BY <1>5, <2>1, <2>2, <2>3, <2>5
    <3>2. lock' = u /\ profiled' = {"program"} /\ upc' = [upc EXCEPT ![u] = "unregister"] /\ session'
      BY <1>e, <2>2, <2>5 DEF Stop, IsLast
    <3>3. lock = None /\ UNCHANGED <<calls, session>>
      BY <1>e DEF Stop
    <3>4. ProfilerTypes'
      BY <1>7, <2>1, <3>1, <3>2, <3>3 DEF ProfilerTypes
    <3>5. upc'[u] = "unregister" /\ \A w \in Users \ {u} : upc'[w] = "idle"
      BY <1>3, <3>2, <3>3 DEF ProfilerTypes
    <3> QED BY <1>2, <1>6, <3>1, <3>2, <3>3, <3>4, <3>5 DEF ProfilerInv
  <2> QED BY <2>4, <2>5
<1>f. CASE UnregisterFirst(u)
  <2>1. /\ \A w \in Users : upc'[w] = "idle"
        /\ NobodyInside' /\ count' = 0 /\ profiled' = {} /\ ~session' /\ lock' = None
    BY <1>f, <1>8 DEF UnregisterFirst, ProfilerTypes, ProfilerInv, NobodyInside
  <2>2. ProfilerTypes'
    BY <1>f DEF UnregisterFirst, ProfilerTypes
  <2>3. InsideIsProfiled'
    BY <1>4, <1>5, <2>1, <2>2 DEF ProfilerTypes
  <2> QED BY <1>f, <1>2, <2>1, <2>2, <2>3 DEF UnregisterFirst, ProfilerInv
<1> QED BY <1>a, <1>b, <1>c, <1>d, <1>e, <1>f DEF UserStep

-----------------------------------------------------------------------------
(* The calls.                                                              *)

CallTypes ==
  /\ ctx \in [Hooks -> Managers \cup {None}]
  /\ cvar \in [Threads -> SourceKeys \cup {None}]
  /\ rooted \subseteq Pools
  /\ DOMAIN keyCache = Threads
  /\ \A t \in Threads : \A x \in DOMAIN keyCache[t] :
       x \in Pools \X Variants /\ keyCache[t][x] \in SourceKeys
  /\ sources \subseteq SourceKeys
  /\ compiled \subseteq Pools \X Variants /\ failedOnce \subseteq Pools \X Variants
  /\ level \in BOOLEAN
  /\ pc \in [Threads -> Places]
  /\ call \in [Threads -> CallRecords \cup {None}]
  /\ \A t \in Threads : IF pc[t] = "idle" THEN call[t] = None ELSE call[t] \in CallRecords

CallsInv == CallTypes /\ SoloInv /\ ThreadInv /\ KeyCacheInv /\ KnownInv

(* The invariant is one about the profiler and one about the calls.        *)
LEMMA InvSplit == IInv <=> ProfilerTypes /\ ProfilerInv /\ CallsInv
BY DEF IInv, TypeOK, ProfilerTypes, CallTypes, CallsInv

(* What a step of a thread does to the other threads ...                   *)
Frame(t) ==
  \A x \in Threads \ {t} :
    /\ pc'[x] = pc[x] /\ cvar'[x] = cvar[x] /\ keyCache'[x] = keyCache[x]
    /\ call'[x] = call[x] \/ (Busy(x) /\ call'[x] = Excused(call[x]))

(* ... and to the keys that are in use.                                    *)
Grows ==
  /\ \A u \in Threads : \A x \in DOMAIN keyCache[u] :
       x \in DOMAIN keyCache'[u] /\ keyCache'[u][x] = keyCache[u][x]
  /\ compiled \subseteq compiled' /\ failedOnce \subseteq failedOnce'

(* The hooks are touched by a call in progress only, or by a call that     *)
(* excuses the others.                                                     *)
Quiet(t) ==
  Busy(t) \/ ctx' = ctx \/ \A x \in Threads \ {t} : Busy(x) => call'[x].excused

(* An excused call keeps its identity and nothing else.                    *)
LEMMA ExcusedCall ==
  ASSUME NEW c \in CallRecords
  PROVE  /\ Excused(c) \in CallRecords /\ Excused(c).excused
         /\ Excused(c).kind = c.kind /\ Excused(c).pool = c.pool
         /\ Excused(c).variant = c.variant /\ Excused(c).taken = c.taken
         /\ Excused(c).added = << >> /\ Excused(c).open = 0
<1> DEFINE added == {<< >>} \cup {<<k>> : k \in SourceKeys}
<1>1. << >> \in added OBVIOUS
<1> HIDE DEF added
<1>2. CallRecords = [kind : Kinds, pool : Pools \cup {None}, variant : Variants \cup {None},
        failed : BOOLEAN, taken : BOOLEAN, error : BOOLEAN, ran : BOOLEAN,
        added : added, before : SourceKeys \cup {None},
        measured : BOOLEAN, open : 0 .. 2, excused : BOOLEAN]
  BY DEF CallRecords, added
<1>3. 0 \in 0 .. 2 OBVIOUS
<1> QED BY <1>1, <1>2, <1>3 DEF Excused

(* The identity of a call, which lasts.                                    *)
SameCall(c, d) ==
  /\ d.kind = c.kind /\ d.pool = c.pool /\ d.variant = c.variant
  /\ d.taken = c.taken

(* A call that goes on keeps its key and the reason why it was taken.      *)
LEMMA SameKey ==
  ASSUME CallTypes, NEW t \in Threads, SameCall(call[t], call'[t]), Grows
  PROVE  /\ Remembered(t) => Remembered(t)' /\ CallKey(t)' = CallKey(t)
         /\ Explained(t) => Explained(t)'
         /\ VariantHook(t)' = VariantHook(t)
<1>1. Remembered(t) => Remembered(t)' /\ CallKey(t)' = CallKey(t)
  BY DEF SameCall, Grows, Remembered, CallKey
<1>2. VariantHook(t)' = VariantHook(t)
  BY DEF SameCall, VariantHook
<1>3. ASSUME Explained(t) PROVE Explained(t)'
  <2>1. SUFFICES ASSUME call'[t].taken PROVE Explained(t)'
    BY DEF Explained
  <2>2. call[t].taken /\ call[t].kind # "embedded" /\ Remembered(t)
    BY <1>3, <2>1 DEF Explained, SameCall
  <2>3. CASE <<call[t].pool, call[t].variant>> \in failedOnce
    BY <1>1, <2>2, <2>3 DEF Explained, SameCall, Grows
  <2>4. CASE \E u \in Threads, q \in Pools \ {call[t].pool} :
               /\ <<q, call[t].variant>> \in DOMAIN keyCache[u]
               /\ keyCache[u][<<q, call[t].variant>>] = CallKey(t)
    <3>1. PICK u \in Threads, q \in Pools \ {call[t].pool} :
               /\ <<q, call[t].variant>> \in DOMAIN keyCache[u]
               /\ keyCache[u][<<q, call[t].variant>>] = CallKey(t)
      BY <2>4
    <3>2. /\ <<q, call[t].variant>> \in DOMAIN keyCache'[u]
          /\ keyCache'[u][<<q, call[t].variant>>] = CallKey(t)'
      BY <1>1, <2>2, <3>1 DEF Grows
    <3> QED BY <1>1, <2>2, <3>2 DEF Explained, SameCall
  <2> QED BY <1>3, <2>2, <2>3, <2>4 DEF Explained
<1> QED BY <1>1, <1>2, <1>3

(* A call that is excused has nothing to show but its pool and its key.    *)
LEMMA ExcusedOK ==
  ASSUME NEW t \in Threads, call'[t].excused, Kinded(t)', Explained(t)'
  PROVE  ThreadOK(t)'
BY DEF ThreadOK, Hooked, Keyed, Recorded, Done, Own

(* A step of one thread keeps what holds of another: a call that is not    *)
(* excused is alone in the hooks.                                          *)
LEMMA OtherThreads ==
  ASSUME CallsInv, NEW t \in Threads, NEW x \in Threads \ {t},
         Frame(t), Grows, Quiet(t), level' = level
  PROVE  ThreadOK(x)'
<1>1. SUFFICES ASSUME pc'[x] # "idle" PROVE ThreadOK(x)'
  BY DEF ThreadOK
<1>2. /\ pc'[x] = pc[x] /\ cvar'[x] = cvar[x] /\ keyCache'[x] = keyCache[x]
      /\ call'[x] = call[x] \/ (Busy(x) /\ call'[x] = Excused(call[x]))
  BY DEF Frame
<1>3. call[x] \in CallRecords /\ ThreadOK(x)
  BY <1>1, <1>2 DEF CallsInv, CallTypes, ThreadInv
<1>4. SameCall(call[x], call'[x])
  BY <1>2, <1>3, ExcusedCall DEF SameCall
<1>5. Kinded(x) /\ Explained(x)
  BY <1>1, <1>2, <1>3 DEF ThreadOK
<1>6. Explained(x)'
  BY <1>4, <1>5, SameKey DEF CallsInv
<1>7. CASE call'[x].excused
  <2>1. Kinded(x)'
    BY <1>2, <1>3, <1>4, <1>5, <1>7, ExcusedCall DEF Kinded, SameCall
  <2> QED BY <1>6, <1>7, <2>1, ExcusedOK
<1>8. CASE ~call'[x].excused
  <2>1. call'[x] = call[x]
    BY <1>2, <1>3, <1>8, ExcusedCall
  <2>2. Busy(x) => ctx' = ctx
    BY <1>8, <2>1 DEF CallsInv, SoloInv, Own, Quiet
  <2>3. Kinded(x)' BY <1>5, <2>1 DEF Kinded
  <2>4. /\ CallKey(x)' = CallKey(x) /\ Remembered(x)' = Remembered(x)
        /\ VariantHook(x)' = VariantHook(x)
    BY <1>2, <2>1 DEF CallKey, Remembered, VariantHook
  <2>5. Own(x)' = Own(x) /\ InContext(x)' = InContext(x) /\ InVariant(x)' = InVariant(x)
    BY <1>2, <2>1 DEF Own, Busy, InContext, InVariant
  <2>6. Hooked(x)' /\ Keyed(x)' /\ Recorded(x)' /\ Done(x)'
    <3>1. Hooked(x) /\ Keyed(x) /\ Recorded(x) /\ Done(x)
      BY <1>1, <1>2, <1>3 DEF ThreadOK
    <3>2. Done(x)'
      BY <1>2, <2>1, <2>4, <3>1 DEF Done
    <3>3. CASE ~Own(x)
      BY <2>5, <3>2, <3>3 DEF Hooked, Keyed, Recorded
    <3>4. CASE Own(x)
      <4>1. ctx' = ctx BY <2>2, <3>4 DEF Own
      <4>2. ProgramRange(x)' = ProgramRange(x) /\ VariantRange(x)' = VariantRange(x)
        BY <2>1, <2>4, <4>1 DEF ProgramRange, VariantRange
      <4>3. Hooked(x)' BY <1>2, <2>1, <2>4, <2>5, <3>1, <4>1 DEF Hooked
      <4>4. Keyed(x)' BY <1>2, <2>1, <2>4, <2>5, <3>1 DEF Keyed
      <4>5. Recorded(x)' BY <1>2, <2>1, <2>4, <2>5, <3>1, <4>2 DEF Recorded
      <4> QED BY <3>2, <4>3, <4>4, <4>5
    <3> QED BY <3>3, <3>4
  <2> QED BY <1>6, <2>3, <2>6 DEF ThreadOK
<1> QED BY <1>7, <1>8

(* A thread that goes on does not disturb who is on his own.               *)
LEMMA SoloStep ==
  ASSUME CallsInv, NEW t \in Threads, Frame(t), Busy(t)' => Busy(t), Own(t)' => Own(t)
  PROVE  SoloInv'
<1> SUFFICES ASSUME NEW x \in Threads, NEW u \in Threads, Own(x)', u # x, Busy(u)'
             PROVE  FALSE
  BY DEF SoloInv
<1>1. \A y \in Threads : Busy(y)' => Busy(y)
  BY DEF Frame, Busy
<1>2. Own(x)
  <2>1. CASE x = t BY <2>1
  <2>2. CASE x # t
    <3>1. Busy(x) /\ call[x] \in CallRecords
      BY <1>1, <2>2 DEF Own, Busy, CallsInv, CallTypes
    <3> QED BY <2>2, <3>1, ExcusedCall DEF Own, Frame
  <2> QED BY <2>1, <2>2
<1> QED BY <1>1, <1>2 DEF CallsInv, SoloInv

(* The keys in use stay known.                                             *)
KnownAfter(k) == KnownIn(k, keyCache', compiled' \cup failedOnce')

(* A known key stays known.                                                *)
LEMMA KnownGrows ==
  ASSUME Grows, NEW k, Known(k)
  PROVE  KnownAfter(k)
BY DEF Grows, Known, KnownIn, KnownAfter

(* Keys are known wherever they are, if the new ones are.                  *)
LEMMA KnownStep ==
  ASSUME KnownInv, Grows,
         \A k \in sources' : k \in sources \/ KnownAfter(k),
         \A x \in Threads : cvar'[x] = cvar[x] \/ KnownAfter(cvar'[x]),
         \A h \in Hooks : ctx'[h] = ctx[h] \/ ctx'[h] = None \/
           (/\ KnownAfter(ctx'[h].key)
            /\ ctx'[h].token \notin {None, Missing} => KnownAfter(ctx'[h].token.old))
  PROVE  KnownInv'
<1>1. \A k \in sources' : KnownAfter(k)
  BY KnownGrows DEF KnownInv
<1>2. \A x \in Threads : KnownAfter(cvar'[x])
  BY KnownGrows DEF KnownInv
<1>3. \A h \in Hooks : ctx'[h] # None =>
         /\ KnownAfter(ctx'[h].key)
         /\ ctx'[h].token \notin {None, Missing} => KnownAfter(ctx'[h].token.old)
  BY KnownGrows DEF KnownInv
<1> QED BY <1>1, <1>2, <1>3 DEF KnownInv, Known, KnownAfter

(* Everything that a step of a thread has to establish.                    *)
Moves(t) ==
  /\ Frame(t) /\ Grows /\ Quiet(t) /\ level' = level
  /\ CallTypes' /\ SoloInv' /\ ThreadOK(t)' /\ KeyCacheInv' /\ KnownInv'

(* It is enough to show of each step that it moves its own call.           *)
LEMMA MovesInv ==
  ASSUME CallsInv, NEW t \in Threads, Moves(t)
  PROVE  CallsInv'
<1>1. \A x \in Threads \ {t} : ThreadOK(x)'
  BY OtherThreads DEF Moves
<1>2. ThreadOK(t)'
  BY DEF Moves
<1>3. \A x \in Threads : ThreadOK(x)'
  BY <1>1, <1>2
<1>4. ThreadInv'
  BY <1>3 DEF ThreadInv
<1> QED BY <1>4 DEF Moves, CallsInv

-----------------------------------------------------------------------------
(* What the parts of the actions do.                                       *)

AddedSamples == {<< >>} \cup {<<k>> : k \in SourceKeys}

(* The record of a call, with the samples under a name.                    *)
LEMMA CallRecordsAre ==
  CallRecords = [kind : Kinds, pool : Pools \cup {None}, variant : Variants \cup {None},
    failed : BOOLEAN, taken : BOOLEAN, error : BOOLEAN, ran : BOOLEAN,
    added : AddedSamples, before : SourceKeys \cup {None},
    measured : BOOLEAN, open : 0 .. 2, excused : BOOLEAN]
BY DEF CallRecords, AddedSamples

(* What a call may have added: nothing, or one sample.                     *)
LEMMA AddedSamplesAre ==
  /\ << >> \in AddedSamples
  /\ \A k \in SourceKeys : <<k>> \in AddedSamples
  /\ \A k : << >> \o <<k>> = <<k>>
BY DEF AddedSamples

(* What the invariant says of a thread inside a call.                      *)
LEMMA InProgress ==
  ASSUME CallsInv, NEW t \in Threads, pc[t] # "idle"
  PROVE  /\ CallTypes /\ call[t] \in CallRecords
         /\ Kinded(t) /\ Hooked(t) /\ Keyed(t) /\ Recorded(t) /\ Done(t) /\ Explained(t)
BY DEF CallsInv, CallTypes, ThreadInv, ThreadOK

(* The types of the hooks and of the context variables.                    *)
LEMMA Types ==
  ASSUME CallTypes
  PROVE  /\ cvar \in [Threads -> SourceKeys \cup {None}]
         /\ ctx \in [Hooks -> Managers \cup {None}]
         /\ \A h \in Hooks : ctx[h] # None =>
              /\ ctx[h] \in Managers /\ ctx[h].key \in SourceKeys \cup {None}
              /\ ctx[h].token \in Tokens \cup {None, Missing} /\ ctx[h].range \in BOOLEAN
         /\ \A t \in Threads : VariantHook(t) \in Hooks /\ VariantHook(t) # "program"
         /\ "program" \in Hooks /\ pc \in [Threads -> Places] /\ level \in BOOLEAN
BY DEF CallTypes, Managers, VariantHook, Hooks

(* A note changes the record of a call that is not excused.                *)
LEMMA NoteEffect ==
  ASSUME CallTypes, NEW t \in Threads, call[t] \in CallRecords,
         NEW r, call[t].excused \/ r \in CallRecords, Note(t, r)
  PROVE  /\ call' \in [Threads -> CallRecords \cup {None}] /\ call'[t] \in CallRecords
         /\ call'[t] = IF call[t].excused THEN call[t] ELSE r
         /\ \A x \in Threads \ {t} : call'[x] = call[x]
BY DEF Note, CallTypes

(* The steps of a call change its place, its record and nothing of the     *)
(* other threads.                                                          *)
LEMMA BusyStep ==
  ASSUME CallsInv, NEW t \in Threads, Busy(t),
         NEW w \in Places \ {"idle"}, pc' = [pc EXCEPT ![t] = w],
         call' \in [Threads -> CallRecords \cup {None}], call'[t] \in CallRecords,
         \A x \in Threads \ {t} : call'[x] = call[x],
         call'[t].excused = call[t].excused,
         cvar' \in [Threads -> SourceKeys \cup {None}],
         \A x \in Threads \ {t} : cvar'[x] = cvar[x],
         \A x \in Threads \ {t} : keyCache'[x] = keyCache[x]
  PROVE  /\ Frame(t) /\ Quiet(t) /\ SoloInv' /\ pc'[t] = w
         /\ pc' \in [Threads -> Places]
         /\ \A x \in Threads :
              IF pc'[x] = "idle" THEN call'[x] = None ELSE call'[x] \in CallRecords
<1>1. pc'[t] = w /\ pc' \in [Threads -> Places] /\ \A x \in Threads \ {t} : pc'[x] = pc[x]
  BY DEF CallsInv, CallTypes
<1>2. Frame(t) /\ Quiet(t)
  BY <1>1 DEF Frame, Quiet
<1>3. Own(t)' => Own(t)
  BY DEF Own
<1>4. SoloInv'
  BY <1>2, <1>3, SoloStep
<1>5. \A x \in Threads :
              IF pc'[x] = "idle" THEN call'[x] = None ELSE call'[x] \in CallRecords
  BY <1>1 DEF CallsInv, CallTypes
<1> QED BY <1>1, <1>2, <1>4, <1>5

(* A step that compiles nothing leaves the keys as they are.               *)
LEMMA SameCache ==
  ASSUME CallsInv, UNCHANGED <<keyCache, compiled, failedOnce>>
  PROVE  Grows /\ KeyCacheInv'
BY DEF Grows, CallsInv, KeyCacheInv

(* Entering the contexts of a hook sets the key of the thread, if metrics  *)
(* are collected.                                                          *)
LEMMA EnterAllEffect ==
  ASSUME CallTypes, NEW t \in Threads, NEW h \in Hooks, EnterAll(t, h)
  PROVE  /\ cvar' \in [Threads -> SourceKeys \cup {None}]
         /\ \A x \in Threads \ {t} : cvar'[x] = cvar[x]
         /\ cvar'[t] = IF ctx[h] = None \/ ~level THEN cvar[t] ELSE ctx[h].key
         /\ ctx' \in [Hooks -> Managers \cup {None}]
         /\ h # "program" => ctx' = ctx
         /\ \A g \in Hooks :
              /\ (g # h \/ ctx[h] = None) => ctx'[g] = ctx[g]
              /\ HasRange(ctx'[g]) = HasRange(ctx[g])
              /\ ctx'[g] = None <=> ctx[g] = None
              /\ ctx[g] # None => ctx'[g].key = ctx[g].key
         /\ h = "program" /\ ctx[h] # None => ctx'[h].token =
              IF level THEN [thread |-> t, old |-> cvar[t], used |-> FALSE] ELSE None
<1> DEFINE tok == IF level THEN [thread |-> t, old |-> cvar[t], used |-> FALSE] ELSE None
<1>1. tok \in Tokens \cup {None, Missing}
  BY DEF CallTypes, Tokens
<1>2. /\ cvar' \in [Threads -> SourceKeys \cup {None}]
      /\ \A x \in Threads \ {t} : cvar'[x] = cvar[x]
      /\ cvar'[t] = IF ctx[h] = None \/ ~level THEN cvar[t] ELSE ctx[h].key
  BY Types DEF EnterAll
<1>3. CASE ctx[h] = None \/ h # "program"
  <2>1. ctx' = ctx BY <1>3 DEF EnterAll
  <2> QED BY <1>2, <1>3, <2>1, Types
<1>4. CASE ctx[h] # None /\ h = "program"
  <2> DEFINE m == [ctx[h] EXCEPT !.token = tok]
  <2>1. ctx[h] \in Managers
    BY <1>4, Types
  <2>2. ctx' = [ctx EXCEPT ![h] = m]
    BY <1>4 DEF EnterAll
  <2>3. /\ m \in Managers /\ m.key = ctx[h].key /\ m.range = ctx[h].range
        /\ m.token = tok
    BY <1>1, <2>1 DEF Managers
  <2>4. None \notin Managers BY CallsAssumption
  <2> HIDE DEF m, tok
  <2>5. ctx'[h] = m /\ (\A g \in Hooks \ {h} : ctx'[g] = ctx[g])
        /\ ctx' \in [Hooks -> Managers \cup {None}]
    BY <2>2, <2>3, Types
  <2>6. HasRange(ctx'[h]) = HasRange(ctx[h])
    BY <2>1, <2>3, <2>4, <2>5 DEF HasRange
  <2> QED BY <1>2, <1>4, <2>1, <2>3, <2>4, <2>5, <2>6 DEF tok
<1> QED BY <1>3, <1>4

-----------------------------------------------------------------------------
(* The steps of a call.                                                    *)

(* Entering the program hook's contexts.                                   *)
LEMMA EnterProgramMoves ==
  ASSUME CallsInv, NEW t \in Threads, EnterProgram(t)
  PROVE  Moves(t)
<1> DEFINE entered == [call[t] EXCEPT !.measured = level, !.open = Opened(t, "program")]
           refused == [entered EXCEPT !.failed = TRUE, !.error = TRUE]
<1>1. pc[t] = "enterProgram" /\ Busy(t) /\ pc[t] # "idle"
  BY DEF EnterProgram, Busy
<1>2. /\ CallTypes /\ call[t] \in CallRecords /\ call[t].excused \in BOOLEAN
      /\ Kinded(t) /\ Hooked(t) /\ Keyed(t) /\ Recorded(t) /\ Done(t) /\ Explained(t)
  BY <1>1, InProgress, CallRecordsAre
<1>3. /\ EnterAll(t, "program") /\ "program" \in Hooks
      /\ UNCHANGED <<keyCache, rooted, sources, level, compiled, failedOnce>>
  BY DEF EnterProgram, Hooks
<1>4. PICK w \in {"dispatch", "exitProgram"} :
        /\ pc' = [pc EXCEPT ![t] = w]
        /\ Note(t, IF w = "dispatch" THEN entered ELSE refused)
  BY DEF EnterProgram
<1> DEFINE r == IF w = "dispatch" THEN entered ELSE refused
<1>5. ASSUME ~call[t].excused
      PROVE  /\ r \in CallRecords /\ SameCall(call[t], r) /\ r.excused = call[t].excused
             /\ r.measured = level /\ r.open = (IF HasRange(ctx["program"]) THEN 1 ELSE 0)
             /\ r.ran = call[t].ran /\ r.added = call[t].added /\ r.before = call[t].before
             /\ w = "dispatch" => r.failed = call[t].failed /\ r.error = call[t].error
             /\ w = "exitProgram" => r.failed = TRUE /\ r.error = TRUE
  <2>1. Opened(t, "program") = (IF HasRange(ctx["program"]) THEN 1 ELSE 0)
    BY <1>1, <1>2, <1>5 DEF Opened, Recorded, Own
  <2>2. Opened(t, "program") \in 0 .. 2
    BY <2>1
  <2>3. level \in BOOLEAN BY <1>2, Types
  <2> QED BY <1>2, <2>1, <2>2, <2>3, CallRecordsAre DEF SameCall
<1> HIDE DEF r
<1>6. /\ call' \in [Threads -> CallRecords \cup {None}] /\ call'[t] \in CallRecords
      /\ call'[t] = IF call[t].excused THEN call[t] ELSE r
      /\ \A x \in Threads \ {t} : call'[x] = call[x]
  <2>1. Note(t, r) BY <1>4 DEF r
  <2> QED BY <1>2, <1>5, <2>1, NoteEffect
<1>7. SameCall(call[t], call'[t]) /\ call'[t].excused = call[t].excused
  BY <1>5, <1>6 DEF SameCall
<1>8. /\ cvar' \in [Threads -> SourceKeys \cup {None}]
      /\ \A x \in Threads \ {t} : cvar'[x] = cvar[x]
      /\ ctx' \in [Hooks -> Managers \cup {None}]
  BY <1>2, <1>3, EnterAllEffect
<1>9. Grows /\ KeyCacheInv'
  BY <1>3, SameCache
<1>10. /\ Frame(t) /\ Quiet(t) /\ SoloInv' /\ pc'[t] = w
       /\ pc' \in [Threads -> Places]
       /\ \A x \in Threads :
              IF pc'[x] = "idle" THEN call'[x] = None ELSE call'[x] \in CallRecords
  <2>1. w \in Places \ {"idle"} BY DEF Places
  <2> QED BY <1>1, <1>3, <1>4, <1>6, <1>7, <1>8, <2>1, BusyStep
<1>11. CallTypes'
  BY <1>2, <1>3, <1>6, <1>8, <1>10 DEF CallTypes
<1>12. KnownInv'
  <2>1. KnownInv BY DEF CallsInv
  <2>2. KnownAfter(cvar[t])
    BY <1>9, <2>1, KnownGrows DEF KnownInv
  <2>3. ctx["program"] # None => KnownAfter(ctx["program"].key)
    BY <1>3, <1>9, <2>1, KnownGrows DEF KnownInv
  <2>4. \A x \in Threads : cvar'[x] = cvar[x] \/ KnownAfter(cvar'[x])
    BY <1>2, <1>3, <2>3, EnterAllEffect
  <2>5. \A h \in Hooks : ctx'[h] = ctx[h] \/ ctx'[h] = None \/
           (/\ KnownAfter(ctx'[h].key)
            /\ ctx'[h].token \notin {None, Missing} => KnownAfter(ctx'[h].token.old))
    <3>1. CASE ctx["program"] = None
      BY <1>2, <1>3, <3>1, EnterAllEffect
    <3>2. CASE ctx["program"] # None
      <4>1. ctx'["program"].token =
              IF level THEN [thread |-> t, old |-> cvar[t], used |-> FALSE] ELSE None
        BY <1>2, <1>3, <3>2, EnterAllEffect
      <4>2. ctx'["program"].key = ctx["program"].key
        BY <1>2, <1>3, <3>2, EnterAllEffect
      <4>3. \A h \in Hooks \ {"program"} : ctx'[h] = ctx[h]
        BY <1>2, <1>3, EnterAllEffect
      <4>4. ctx'["program"].token \notin {None, Missing} => KnownAfter(ctx'["program"].token.old)
        BY <2>2, <4>1
      <4> QED BY <2>3, <3>2, <4>2, <4>3, <4>4
    <3> QED BY <3>1, <3>2
  <2> QED BY <1>3, <1>9, <2>1, <2>4, <2>5, KnownStep
<1>13. Explained(t)' /\ VariantHook(t)' = VariantHook(t)
  BY <1>2, <1>7, <1>9, SameKey
<1>14. Kinded(t)'
  BY <1>2, <1>5, <1>6, <1>7 DEF Kinded, SameCall
<1>15. CASE call[t].excused
  BY <1>7, <1>13, <1>14, <1>15, <1>6, <1>10, <1>11, <1>9, <1>12, <1>3, ExcusedOK DEF Moves
<1>16. CASE ~call[t].excused
  <2>1. Own(t) /\ call'[t] = r /\ ~r.excused
    BY <1>1, <1>5, <1>6, <1>16 DEF Own
  <2>2. /\ ctx["program"] # None /\ ctx["program"].key = None
        /\ call[t].kind # "operator" /\ ~call[t].ran
        /\ cvar[t] = call[t].before /\ call[t].error = call[t].failed
        /\ call[t].added = << >>
    BY <1>1, <1>2, <2>1 DEF Hooked, Keyed, Recorded
  <2>3. /\ ctx'["program"] # None
        /\ ctx'["program"].token =
              IF level THEN [thread |-> t, old |-> cvar[t], used |-> FALSE] ELSE None
        /\ HasRange(ctx'["program"]) = HasRange(ctx["program"])
        /\ cvar'[t] = IF ~level THEN cvar[t] ELSE None
    BY <1>2, <1>3, <2>2, EnterAllEffect
  <2>4. level \in BOOLEAN /\ level' = level
    BY <1>2, <1>3, Types
  <2>5. r.kind = call[t].kind /\ ~r.ran
    BY <1>5, <1>16, <2>2 DEF SameCall
  <2>6. Hooked(t)'
    BY <1>5, <1>10, <1>16, <2>1, <2>2, <2>3, <2>4, <2>5 DEF Hooked, Own, InContext, InVariant
  <2>7. Keyed(t)'
    BY <1>5, <1>10, <1>16, <2>1, <2>2, <2>3, <2>4, <2>5 DEF Keyed, InContext
  <2>8. Recorded(t)'
    <3>1. r.error = r.failed /\ (w = "exitProgram" => r.failed)
      BY <1>5, <1>16, <2>2
    <3>2. r.open = ProgramRange(t)' /\ ProgramRange(t)' \in {0, 1}
      BY <1>5, <1>16, <2>1, <2>2, <2>3, <2>5 DEF ProgramRange
    <3>3. r.added = << >> /\ pc'[t] \in {"dispatch", "exitProgram"}
      BY <1>5, <1>10, <1>16, <2>2
    <3>4. r.open = ProgramRange(t)' + 0
      BY <3>2
    <3> QED BY <1>10, <2>1, <2>5, <3>1, <3>3, <3>4 DEF Recorded
  <2>9. Done(t)'
    BY <1>10 DEF Done
  <2>10. ThreadOK(t)'
    BY <1>13, <1>14, <2>6, <2>7, <2>8, <2>9 DEF ThreadOK
  <2> QED BY <1>3, <1>9, <1>10, <1>11, <1>12, <2>10 DEF Moves
<1> QED BY <1>2, <1>15, <1>16

-----------------------------------------------------------------------------
(* The keys of variants.                                                   *)

(* The key of a variant names it, and is never the embedded one.           *)
LEMMA KeyOfType ==
  ASSUME CallTypes, KeyCacheInv, NEW t \in Threads, NEW p \in Pools, NEW v \in Variants
  PROVE  /\ KeyOf(t, p, v) \in SourceKeys /\ KeyOf(t, p, v).variant = v
         /\ KeyOf(t, p, v) \notin {None, EmbeddedKey}
<1>1. CASE <<p, v>> \in DOMAIN keyCache[t]
  <2>1. keyCache[t][<<p, v>>] \in SourceKeys BY <1>1 DEF CallTypes
  <2>2. keyCache[t][<<p, v>>].variant = v BY <1>1 DEF KeyCacheInv
  <2>3. v # None /\ None \notin SourceKeys BY CallsAssumption
  <2> QED BY <1>1, <2>1, <2>2, <2>3 DEF KeyOf, EmbeddedKey
<1>2. CASE <<p, v>> \notin DOMAIN keyCache[t]
  <2> DEFINE n == Cardinality(rooted \cup {p})
  <2>1. IsFiniteSet(Pools) /\ rooted \cup {p} \subseteq Pools
    BY CallsAssumption DEF CallTypes
  <2>2. n \in Nat /\ Cardinality(Pools) \in Nat /\ n <= Cardinality(Pools)
    BY <2>1, FS_Subset, FS_CardinalityType
  <2>3. n \in 0 .. Cardinality(Pools)
    BY <2>2
  <2> HIDE DEF n
  <2>4. KeyOf(t, p, v) = [pool |-> n, variant |-> v]
    BY <1>2 DEF KeyOf, n
  <2>5. [pool |-> n, variant |-> v] \in SourceKeys /\ [pool |-> n, variant |-> v].variant = v
    BY <2>3 DEF SourceKeys
  <2>6. v # None /\ None \notin SourceKeys BY CallsAssumption
  <2> QED BY <2>4, <2>5, <2>6 DEF EmbeddedKey
<1> QED BY <1>1, <1>2

CacheTypes ==
  /\ rooted \subseteq Pools
  /\ DOMAIN keyCache = Threads
  /\ \A t \in Threads : \A x \in DOMAIN keyCache[t] :
       x \in Pools \X Variants /\ keyCache[t][x] \in SourceKeys

(* A thread remembers the key that it has computed.                        *)
LEMMA RememberEffect ==
  ASSUME CallTypes, KeyCacheInv, NEW t \in Threads, NEW p \in Pools, NEW v \in Variants,
         Remember(t, p, v)
  PROVE  /\ CacheTypes' /\ KeyCacheInv'
         /\ \A x \in Threads \ {t} : keyCache'[x] = keyCache[x]
         /\ <<p, v>> \in DOMAIN keyCache'[t] /\ keyCache'[t][<<p, v>>] = KeyOf(t, p, v)
         /\ \A u \in Threads : \A x \in DOMAIN keyCache[u] :
              x \in DOMAIN keyCache'[u] /\ keyCache'[u][x] = keyCache[u][x]
<1> DEFINE K == KeyOf(t, p, v)
           new == [x \in DOMAIN keyCache[t] \cup {<<p, v>>} |->
                     IF x \in DOMAIN keyCache[t] THEN keyCache[t][x] ELSE K]
<1>1. K \in SourceKeys /\ K.variant = v
  BY KeyOfType
<1>2. keyCache' = [keyCache EXCEPT ![t] = new] /\ rooted' = rooted \cup {p}
  BY DEF Remember
<1>3. DOMAIN keyCache = Threads /\ rooted \subseteq Pools
  BY DEF CallTypes
<1>4. keyCache'[t] = new /\ (\A x \in Threads \ {t} : keyCache'[x] = keyCache[x])
      /\ DOMAIN keyCache' = Threads
  BY <1>2, <1>3
<1>5. /\ DOMAIN new = DOMAIN keyCache[t] \cup {<<p, v>>}
      /\ \A x \in DOMAIN keyCache[t] : new[x] = keyCache[t][x]
      /\ <<p, v>> \notin DOMAIN keyCache[t] => new[<<p, v>>] = K
  OBVIOUS
<1>6. <<p, v>> \in DOMAIN keyCache[t] => keyCache[t][<<p, v>>] = K
  BY DEF KeyOf
<1> HIDE DEF new, K
<1>7. new[<<p, v>>] = K
  BY <1>5, <1>6
<1>8. \A x \in DOMAIN new : x \in Pools \X Variants /\ new[x] \in SourceKeys /\ new[x].variant = x[2]
  <2> SUFFICES ASSUME NEW x \in DOMAIN new
               PROVE  x \in Pools \X Variants /\ new[x] \in SourceKeys /\ new[x].variant = x[2]
    OBVIOUS
  <2>1. CASE x \in DOMAIN keyCache[t]
    BY <1>5, <2>1 DEF CallTypes, KeyCacheInv
  <2>2. CASE x = <<p, v>>
    BY <1>1, <1>7, <2>2
  <2> QED BY <1>5, <2>1, <2>2
<1>9. CacheTypes' /\ KeyCacheInv'
  <2>1. \A u \in Threads : \A x \in DOMAIN keyCache'[u] :
          /\ x \in Pools \X Variants /\ keyCache'[u][x] \in SourceKeys
          /\ keyCache'[u][x].variant = x[2]
    BY <1>4, <1>8 DEF CallTypes, KeyCacheInv
  <2> QED BY <1>2, <1>3, <1>4, <2>1 DEF CacheTypes, KeyCacheInv
<1> QED BY <1>4, <1>5, <1>7, <1>9 DEF K

(* A key that is taken belongs to a variant that was tried before.         *)
LEMMA TakenCause ==
  ASSUME CallsInv, NEW t \in Threads, NEW p \in Pools, NEW v \in Variants,
         KeyIsTaken(t, p, v), <<p, v>> \notin compiled
  PROVE  \/ <<p, v>> \in failedOnce
         \/ \E u \in Threads, q \in Pools \ {p} :
              <<q, v>> \in DOMAIN keyCache[u] /\ keyCache[u][<<q, v>>] = KeyOf(t, p, v)
<1>1. KeyOf(t, p, v).variant = v /\ KeyOf(t, p, v) \notin {None, EmbeddedKey}
  BY KeyOfType DEF CallsInv
<1>2. Known(KeyOf(t, p, v))
  BY DEF KeyIsTaken, CallsInv, KnownInv
<1>3. PICK u \in Threads, q \in Pools :
        /\ <<q, v>> \in DOMAIN keyCache[u] /\ keyCache[u][<<q, v>>] = KeyOf(t, p, v)
        /\ <<q, v>> \in compiled \cup failedOnce
  BY <1>1, <1>2 DEF Known, KnownIn
<1>4. CASE q = p BY <1>3, <1>4
<1>5. CASE q # p BY <1>3, <1>5
<1> QED BY <1>4, <1>5

(* compile_variant_hook adds the key of the variant to the sources.        *)
LEMMA CompileVariantHookEffect ==
  ASSUME CallsInv, NEW t \in Threads, NEW p \in Pools, NEW v \in Variants,
         CompileVariantHook(t, p, v), UNCHANGED <<cvar, ctx>>,
         compiled \subseteq compiled', failedOnce \subseteq failedOnce',
         KeyIsTaken(t, p, v) \/ <<p, v>> \in compiled' \cup failedOnce'
  PROVE  /\ CacheTypes' /\ sources' \subseteq SourceKeys
         /\ KeyCacheInv' /\ Grows /\ KnownInv'
         /\ \A x \in Threads \ {t} : keyCache'[x] = keyCache[x]
         /\ level => /\ <<p, v>> \in DOMAIN keyCache'[t]
                     /\ keyCache'[t][<<p, v>>] = KeyOf(t, p, v)
<1>1. CallTypes /\ KeyCacheInv /\ KnownInv
  BY DEF CallsInv
<1>2. CASE ~level
  <2>1. UNCHANGED <<rooted, keyCache, sources>>
    BY <1>2 DEF CompileVariantHook
  <2>2. Grows /\ KeyCacheInv' /\ CacheTypes'
    BY <1>1, <2>1 DEF Grows, KeyCacheInv, CallTypes, CacheTypes
  <2>3. KnownInv'
    BY <1>1, <2>1, <2>2, KnownStep
  <2> QED BY <1>1, <1>2, <2>1, <2>2, <2>3 DEF CallTypes
<1>3. CASE level
  <2>1. Remember(t, p, v) /\ sources' = sources \cup {KeyOf(t, p, v)}
    BY <1>3 DEF CompileVariantHook
  <2>2. /\ CacheTypes' /\ KeyCacheInv'
        /\ \A x \in Threads \ {t} : keyCache'[x] = keyCache[x]
        /\ <<p, v>> \in DOMAIN keyCache'[t] /\ keyCache'[t][<<p, v>>] = KeyOf(t, p, v)
        /\ \A u \in Threads : \A x \in DOMAIN keyCache[u] :
              x \in DOMAIN keyCache'[u] /\ keyCache'[u][x] = keyCache[u][x]
    BY <1>1, <2>1, RememberEffect
  <2>3. Grows BY <2>2 DEF Grows
  <2>4. KeyOf(t, p, v) \in SourceKeys /\ KeyOf(t, p, v).variant = v
    BY <1>1, KeyOfType
  <2>5. KeyOf(t, p, v) \in sources \/ KnownAfter(KeyOf(t, p, v))
    <3>1. CASE KeyIsTaken(t, p, v) BY <3>1 DEF KeyIsTaken
    <3>2. CASE <<p, v>> \in compiled' \cup failedOnce'
      BY <2>2, <2>4, <3>2 DEF KnownAfter, KnownIn
    <3> QED BY <3>1, <3>2
  <2>6. KnownInv'
    BY <1>1, <2>1, <2>3, <2>5, KnownStep
  <2>7. sources' \subseteq SourceKeys
    BY <1>1, <2>1, <2>4 DEF CallTypes
  <2> QED BY <2>2, <2>3, <2>6, <2>7
<1> QED BY <1>1, <1>2, <1>3 DEF CallTypes

-----------------------------------------------------------------------------
(* A call that fails before its variant runs has still to leave the        *)
(* program hook.                                                           *)
LEMMA UnwindOK ==
  ASSUME CallsInv, NEW t \in Threads, pc[t] = "dispatch", NEW taken \in BOOLEAN,
         Unwind(t, taken), UNCHANGED <<cvar, ctx, level>>,
         \A x \in Threads \ {t} : keyCache'[x] = keyCache[x],
         taken => call[t].kind # "embedded" /\ Explained(t)'
  PROVE  /\ Frame(t) /\ Quiet(t) /\ SoloInv' /\ ThreadOK(t)'
         /\ pc' \in [Threads -> Places]
         /\ call' \in [Threads -> CallRecords \cup {None}]
         /\ \A x \in Threads :
              IF pc'[x] = "idle" THEN call'[x] = None ELSE call'[x] \in CallRecords
<1> DEFINE e == ~call[t].excused
           r == [call[t] EXCEPT !.failed = e, !.error = e, !.taken = taken]
           w == IF call[t].kind = "operator" THEN "returned" ELSE "exitProgram"
<1>1. Busy(t) /\ pc[t] # "idle"
  BY DEF Busy
<1>2. /\ CallTypes /\ call[t] \in CallRecords /\ call[t].excused \in BOOLEAN
      /\ Kinded(t) /\ Hooked(t) /\ Keyed(t) /\ Recorded(t) /\ Done(t) /\ Explained(t)
  BY <1>1, InProgress, CallRecordsAre
<1>3. /\ r \in CallRecords /\ r.excused = call[t].excused
      /\ r.failed = e /\ r.error = e /\ r.taken = taken
      /\ r.kind = call[t].kind /\ r.pool = call[t].pool /\ r.variant = call[t].variant
      /\ r.measured = call[t].measured /\ r.open = call[t].open
      /\ r.ran = call[t].ran /\ r.added = call[t].added /\ r.before = call[t].before
  <2>1. e \in BOOLEAN OBVIOUS
  <2> HIDE DEF e
  <2> QED BY <1>2, <2>1, CallRecordsAre
<1>4. /\ call' \in [Threads -> CallRecords \cup {None}] /\ call'[t] = r
      /\ \A x \in Threads \ {t} : call'[x] = call[x]
  <2>1. call' = [call EXCEPT ![t] = r] BY DEF Unwind
  <2> HIDE DEF r
  <2> QED BY <1>2, <1>3, <2>1 DEF CallTypes
<1>5. pc' = [pc EXCEPT ![t] = w] /\ w \in Places \ {"idle"}
  BY DEF Unwind, Places
<1> HIDE DEF r, w
<1>6. /\ Frame(t) /\ Quiet(t) /\ SoloInv' /\ pc'[t] = w
      /\ pc' \in [Threads -> Places]
      /\ \A x \in Threads :
              IF pc'[x] = "idle" THEN call'[x] = None ELSE call'[x] \in CallRecords
  <2>1. cvar' \in [Threads -> SourceKeys \cup {None}] BY <1>2, Types
  <2> QED BY <1>1, <1>3, <1>4, <1>5, <2>1, BusyStep
<1>7. Kinded(t)'
  BY <1>2, <1>3, <1>4 DEF Kinded
<1>8. Explained(t)'
  BY <1>3, <1>4 DEF Explained
<1>9. CASE call[t].excused
  BY <1>3, <1>4, <1>6, <1>7, <1>8, <1>9, ExcusedOK
<1>10. CASE ~call[t].excused
  <2>1. Own(t) /\ InContext(t) /\ e
    BY <1>1, <1>10 DEF Own, InContext
  <2>2. /\ ~call[t].ran /\ call[t].added = << >> /\ call[t].open = ProgramRange(t) + 0
        /\ call[t].kind # "operator" =>
              /\ ctx["program"] # None
              /\ ctx["program"].token =
                   IF level THEN [thread |-> t, old |-> call[t].before, used |-> FALSE] ELSE None
              /\ call[t].measured = level
              /\ cvar[t] = IF ~level THEN call[t].before ELSE None
    BY <1>2, <2>1 DEF Hooked, Keyed, Recorded
  <2>3. w = IF call[t].kind = "operator" THEN "returned" ELSE "exitProgram"
    BY DEF w
  <2>4. ProgramRange(t)' = ProgramRange(t) /\ (call[t].kind = "operator" => ProgramRange(t) = 0)
    BY <1>3, <1>4 DEF ProgramRange
  <2>5. Hooked(t)'
    BY <1>3, <1>4, <1>6, <2>2, <2>3 DEF Hooked, Own, InContext, InVariant, Busy
  <2>6. Keyed(t)'
    BY <1>3, <1>4, <1>6, <2>2, <2>3 DEF Keyed, InContext
  <2>7. Recorded(t)'
    BY <1>3, <1>4, <1>6, <2>1, <2>2, <2>3, <2>4 DEF Recorded, Own, Busy
  <2>8. Done(t)'
    BY <1>3, <1>4, <1>6, <2>2, <2>3, <2>4 DEF Done
  <2> QED BY <1>4, <1>6, <1>7, <1>8, <2>5, <2>6, <2>7, <2>8 DEF ThreadOK
<1> QED BY <1>2, <1>9, <1>10

(* A call without a compiled variant, and without just-in-time             *)
(* compilation.                                                            *)
LEMMA RefuseMoves ==
  ASSUME CallsInv, NEW t \in Threads, Refuse(t)
  PROVE  Moves(t)
<1>1. /\ pc[t] = "dispatch" /\ Unwind(t, FALSE)
      /\ UNCHANGED <<cvar, keyCache, rooted, sources, ctx, level, compiled, failedOnce>>
  BY DEF Refuse, metrics
<1>2. /\ Frame(t) /\ Quiet(t) /\ SoloInv' /\ ThreadOK(t)'
      /\ pc' \in [Threads -> Places]
      /\ call' \in [Threads -> CallRecords \cup {None}]
      /\ \A x \in Threads :
              IF pc'[x] = "idle" THEN call'[x] = None ELSE call'[x] \in CallRecords
  BY <1>1, UnwindOK
<1>3. Grows /\ KeyCacheInv'
  BY <1>1, SameCache
<1>4. CallTypes'
  BY <1>1, <1>2 DEF CallsInv, CallTypes
<1>5. KnownInv'
  BY <1>1, <1>3, KnownStep DEF CallsInv
<1> QED BY <1>1, <1>2, <1>3, <1>4, <1>5 DEF Moves

(* A just-in-time compilation, which may fail or find its key taken.       *)
LEMMA JitMoves ==
  ASSUME CallsInv, NEW t \in Threads, Jit(t)
  PROVE  Moves(t)
<1> DEFINE p == call[t].pool  v == call[t].variant
<1>1. pc[t] = "dispatch" /\ Busy(t) /\ pc[t] # "idle" /\ call[t].kind # "embedded"
      /\ <<p, v>> \notin compiled /\ UNCHANGED <<cvar, ctx, level>>
      /\ CompileVariantHook(t, p, v)
  BY DEF Jit, Busy
<1>2. /\ CallTypes /\ call[t] \in CallRecords /\ call[t].excused \in BOOLEAN
      /\ Kinded(t) /\ Hooked(t) /\ Keyed(t) /\ Recorded(t) /\ Done(t) /\ Explained(t)
  BY <1>1, InProgress, CallRecordsAre
<1>3. p \in Pools /\ v \in Variants
  BY <1>1, <1>2 DEF Kinded
<1>4. <<p, v>> \in Pools \X Variants
  BY <1>3
<1>5. CASE /\ ~KeyIsTaken(t, p, v) /\ compiled' = compiled \cup {<<p, v>>}
           /\ UNCHANGED <<pc, call, failedOnce>>
  <2> HIDE DEF p, v
  <2>1. /\ CacheTypes' /\ sources' \subseteq SourceKeys
        /\ KeyCacheInv' /\ Grows /\ KnownInv'
        /\ \A x \in Threads \ {t} : keyCache'[x] = keyCache[x]
    BY <1>1, <1>3, <1>5, CompileVariantHookEffect
  <2>2. pc' = [pc EXCEPT ![t] = pc[t]] /\ pc[t] \in Places \ {"idle"}
    BY <1>1, <1>2, <1>5 DEF CallTypes
  <2>3. call' \in [Threads -> CallRecords \cup {None}] /\ call'[t] \in CallRecords
        /\ cvar' \in [Threads -> SourceKeys \cup {None}]
    BY <1>1, <1>2, <1>5 DEF CallTypes
  <2>4. /\ Frame(t) /\ Quiet(t) /\ SoloInv' /\ pc'[t] = pc[t]
        /\ pc' \in [Threads -> Places]
        /\ \A x \in Threads :
              IF pc'[x] = "idle" THEN call'[x] = None ELSE call'[x] \in CallRecords
    BY <1>1, <1>2, <1>5, <2>1, <2>2, <2>3, BusyStep
  <2>5. CallTypes'
    BY <1>1, <1>2, <1>4, <1>5, <2>1, <2>3, <2>4 DEF CallTypes, CacheTypes
  <2>6. Explained(t)' /\ VariantHook(t)' = VariantHook(t)
    BY <1>2, <1>5, <2>1, SameKey DEF SameCall
  <2>7. Kinded(t)' /\ Done(t)'
    BY <1>1, <1>2, <1>5 DEF Kinded, Done
  <2>8. Own(t)' = Own(t) /\ InContext(t)' = InContext(t) /\ InVariant(t)' = InVariant(t)
        /\ ProgramRange(t)' = ProgramRange(t) /\ VariantRange(t)' = VariantRange(t)
    BY <1>1, <1>5, <2>6 DEF Own, Busy, InContext, InVariant, ProgramRange, VariantRange
  <2>9. Recorded(t)'
    BY <1>2, <1>5, <2>8 DEF Recorded
  <2>10. Own(t) => ~call[t].ran /\ ~InVariant(t)
    BY <1>1, <1>2 DEF Recorded, InVariant
  <2>11. Hooked(t)'
    BY <1>1, <1>2, <1>5, <2>6, <2>8, <2>10 DEF Hooked
  <2>12. Keyed(t)'
    BY <1>1, <1>2, <1>5, <2>8, <2>10 DEF Keyed
  <2>13. ThreadOK(t)'
    BY <2>6, <2>7, <2>9, <2>11, <2>12 DEF ThreadOK
  <2> QED BY <1>1, <2>1, <2>4, <2>5, <2>13 DEF Moves
<1>6. CASE /\ Unwind(t, KeyIsTaken(t, p, v)) /\ UNCHANGED compiled
           /\ failedOnce' = failedOnce \cup (IF KeyIsTaken(t, p, v) THEN {} ELSE {<<p, v>>})
  <2>1. KeyIsTaken(t, p, v) \in BOOLEAN BY DEF KeyIsTaken
  <2>2. /\ CacheTypes' /\ sources' \subseteq SourceKeys
        /\ KeyCacheInv' /\ Grows /\ KnownInv'
        /\ \A x \in Threads \ {t} : keyCache'[x] = keyCache[x]
        /\ level => /\ <<p, v>> \in DOMAIN keyCache'[t]
                    /\ keyCache'[t][<<p, v>>] = KeyOf(t, p, v)
    <3> HIDE DEF p, v
    <3> QED BY <1>1, <1>3, <1>6, CompileVariantHookEffect
  <2>3. ASSUME KeyIsTaken(t, p, v) PROVE Explained(t)'
    <3>1. level BY <2>3 DEF KeyIsTaken
    <3>2. /\ call'[t].pool = p /\ call'[t].variant = v /\ call'[t].kind = call[t].kind
      <4>1. call' = [call EXCEPT ![t] = [call[t] EXCEPT !.failed = ~call[t].excused,
              !.error = ~call[t].excused, !.taken = KeyIsTaken(t, p, v)]]
        BY <1>6 DEF Unwind
      <4>2. call'[t] = [call[t] EXCEPT !.failed = ~call[t].excused,
              !.error = ~call[t].excused, !.taken = KeyIsTaken(t, p, v)]
        BY <1>2, <4>1 DEF CallTypes
      <4> QED BY <1>2, <4>2, CallRecordsAre
    <3>3. \/ <<p, v>> \in failedOnce
          \/ \E u \in Threads, q \in Pools \ {p} :
               <<q, v>> \in DOMAIN keyCache[u] /\ keyCache[u][<<q, v>>] = KeyOf(t, p, v)
      BY <1>1, <1>3, <2>3, TakenCause
    <3> HIDE DEF p, v
    <3>4. Remembered(t)' /\ CallKey(t)' = KeyOf(t, p, v)
      BY <1>1, <2>2, <3>1, <3>2 DEF Remembered, CallKey
    <3>5. \/ <<p, v>> \in failedOnce'
          \/ \E u \in Threads, q \in Pools \ {p} :
               <<q, v>> \in DOMAIN keyCache'[u] /\ keyCache'[u][<<q, v>>] = KeyOf(t, p, v)
      <4>1. CASE <<p, v>> \in failedOnce
        BY <1>6, <4>1
      <4>2. CASE \E u \in Threads, q \in Pools \ {p} :
               <<q, v>> \in DOMAIN keyCache[u] /\ keyCache[u][<<q, v>>] = KeyOf(t, p, v)
        BY <2>2, <4>2 DEF Grows
      <4> QED BY <3>3, <4>1, <4>2
    <3> QED BY <1>1, <3>2, <3>4, <3>5 DEF Explained
  <2>4. /\ Frame(t) /\ Quiet(t) /\ SoloInv' /\ ThreadOK(t)'
        /\ pc' \in [Threads -> Places]
        /\ call' \in [Threads -> CallRecords \cup {None}]
        /\ \A x \in Threads :
              IF pc'[x] = "idle" THEN call'[x] = None ELSE call'[x] \in CallRecords
    <3> HIDE DEF p, v
    <3> QED BY <1>1, <1>6, <2>1, <2>2, <2>3, UnwindOK
  <2>5. CallTypes'
    <3> HIDE DEF p, v
    <3>1. failedOnce' \subseteq Pools \X Variants
      BY <1>2, <1>4, <1>6 DEF CallTypes
    <3> QED BY <1>1, <1>2, <1>6, <2>2, <2>4, <3>1 DEF CallTypes, CacheTypes
  <2> QED BY <1>1, <2>2, <2>4, <2>5 DEF Moves
<1> QED BY <1>5, <1>6 DEF Jit, Stored

(* New context managers have a key and no token yet.                       *)
LEMMA NewManagersType ==
  ASSUME NEW h \in Hooks, NEW key \in SourceKeys \cup {None}
  PROVE  /\ NewManagers(h, key) \in Managers /\ NewManagers(h, key) # None
         /\ NewManagers(h, key).key = key /\ NewManagers(h, key).token = Missing
<1>1. (h \in profiled) \in BOOLEAN OBVIOUS
<1>2. /\ NewManagers(h, key) \in Managers
      /\ NewManagers(h, key).key = key /\ NewManagers(h, key).token = Missing
  BY <1>1 DEF NewManagers, Managers
<1> QED BY <1>2, CallsAssumption

(* Embedded calls have a key of their own.                                 *)
LEMMA EmbeddedKeyType == EmbeddedKey \in SourceKeys /\ EmbeddedKey # None
<1>1. Cardinality(Pools) \in Nat
  BY CallsAssumption, FS_CardinalityType
<1>2. EmbeddedKey \in SourceKeys
  BY <1>1 DEF EmbeddedKey, SourceKeys
<1> QED BY <1>2, CallsAssumption

(* The contexts of the variant's hook are created.                         *)
LEMMA OpenMoves ==
  ASSUME CallsInv, NEW t \in Threads, Open(t)
  PROVE  Moves(t)
<1> DEFINE p == call[t].pool  v == call[t].variant  h == VariantHook(t)
<1>1. /\ pc[t] = "dispatch" /\ Busy(t) /\ pc[t] # "idle"
      /\ pc' = [pc EXCEPT ![t] = "enterVariant"]
      /\ UNCHANGED <<cvar, sources, level, compiled, failedOnce, call>>
  BY DEF Open, Busy
<1>2. /\ CallTypes /\ call[t] \in CallRecords /\ call[t].excused \in BOOLEAN
      /\ Kinded(t) /\ Hooked(t) /\ Keyed(t) /\ Recorded(t) /\ Done(t) /\ Explained(t)
  BY <1>1, InProgress, CallRecordsAre
<1>3. h \in Hooks /\ h # "program" /\ (h = "embedded" <=> call[t].kind = "embedded")
  BY <1>2, Types DEF VariantHook
<1>4. KeyCacheInv /\ KnownInv BY DEF CallsInv
<1>5. \E key \in SourceKeys :
        /\ ctx' = [ctx EXCEPT ![h] = NewManagers(h, key)]
        /\ CacheTypes' /\ KeyCacheInv' /\ Grows
        /\ \A x \in Threads \ {t} : keyCache'[x] = keyCache[x]
        /\ Remembered(t)' /\ CallKey(t)' = key /\ KnownAfter(key)
  <2>1. CASE h = "embedded"
    <3>1. ctx' = [ctx EXCEPT ![h] = NewManagers(h, EmbeddedKey)] /\ UNCHANGED <<rooted, keyCache>>
      BY <2>1 DEF Open
    <3>2. CacheTypes' /\ KeyCacheInv' /\ Grows
      BY <1>1, <1>2, <3>1, SameCache DEF CallTypes, CacheTypes
    <3>3. Remembered(t)' /\ CallKey(t)' = EmbeddedKey /\ KnownAfter(EmbeddedKey)
      BY <1>1, <1>3, <2>1 DEF Remembered, CallKey, KnownAfter, KnownIn
    <3> QED BY <3>1, <3>2, <3>3, EmbeddedKeyType
  <2>2. CASE h # "embedded"
    <3> DEFINE key == KeyOf(t, p, v)
    <3>1. /\ ctx' = [ctx EXCEPT ![h] = NewManagers(h, key)] /\ Remember(t, p, v)
          /\ <<p, v>> \in compiled
      BY <2>2 DEF Open
    <3>2. p \in Pools /\ v \in Variants
      BY <1>2, <1>3, <2>2 DEF Kinded
    <3>3. key \in SourceKeys /\ key.variant = v
      BY <1>2, <1>4, <3>2, KeyOfType
    <3>4. /\ CacheTypes' /\ KeyCacheInv'
          /\ \A x \in Threads \ {t} : keyCache'[x] = keyCache[x]
          /\ <<p, v>> \in DOMAIN keyCache'[t] /\ keyCache'[t][<<p, v>>] = key
          /\ \A u \in Threads : \A x \in DOMAIN keyCache[u] :
              x \in DOMAIN keyCache'[u] /\ keyCache'[u][x] = keyCache[u][x]
      <4> HIDE DEF p, v
      <4> QED BY <1>2, <1>4, <3>1, <3>2, RememberEffect
    <3>5. Grows BY <1>1, <3>4 DEF Grows
    <3> HIDE DEF key
    <3>6. Remembered(t)' /\ CallKey(t)' = key
      BY <1>1, <1>3, <2>2, <3>4 DEF Remembered, CallKey
    <3>7. KnownAfter(key)
      BY <1>1, <3>1, <3>2, <3>3, <3>4 DEF KnownAfter, KnownIn
    <3> QED BY <3>1, <3>3, <3>4, <3>5, <3>6, <3>7
  <2> QED BY <2>1, <2>2
<1>6. PICK key \in SourceKeys :
        /\ ctx' = [ctx EXCEPT ![h] = NewManagers(h, key)]
        /\ CacheTypes' /\ KeyCacheInv' /\ Grows
        /\ \A x \in Threads \ {t} : keyCache'[x] = keyCache[x]
        /\ Remembered(t)' /\ CallKey(t)' = key /\ KnownAfter(key)
  BY <1>5
<1> HIDE DEF h
<1>7. /\ ctx' \in [Hooks -> Managers \cup {None}] /\ ctx'[h] # None /\ ctx'[h].key = key
      /\ ctx'[h].token = Missing /\ \A g \in Hooks \ {h} : ctx'[g] = ctx[g]
  <2>1. /\ NewManagers(h, key) \in Managers /\ NewManagers(h, key) # None
        /\ NewManagers(h, key).key = key /\ NewManagers(h, key).token = Missing
    BY <1>3, NewManagersType
  <2> QED BY <1>2, <1>3, <1>6, <2>1, Types
<1>8. /\ call' \in [Threads -> CallRecords \cup {None}] /\ call'[t] \in CallRecords
      /\ cvar' \in [Threads -> SourceKeys \cup {None}]
  BY <1>1, <1>2 DEF CallTypes
<1>9. /\ Frame(t) /\ Quiet(t) /\ SoloInv' /\ pc'[t] = "enterVariant"
      /\ pc' \in [Threads -> Places]
      /\ \A x \in Threads :
              IF pc'[x] = "idle" THEN call'[x] = None ELSE call'[x] \in CallRecords
  <2>1. "enterVariant" \in Places \ {"idle"} BY DEF Places
  <2> QED BY <1>1, <1>6, <1>8, <2>1, BusyStep
<1>10. CallTypes'
  BY <1>1, <1>2, <1>6, <1>7, <1>8, <1>9 DEF CallTypes, CacheTypes
<1>11. KnownInv'
  BY <1>1, <1>4, <1>6, <1>7, KnownStep
<1>12. Explained(t)' /\ VariantHook(t)' = h
  BY <1>1, <1>2, <1>6, SameKey DEF SameCall, h
<1>13. Kinded(t)' /\ Done(t)'
  BY <1>1, <1>2, <1>9 DEF Kinded, Done
<1>14. /\ Own(t)' = Own(t) /\ InContext(t) /\ InContext(t)' /\ InVariant(t)'
       /\ ProgramRange(t)' = ProgramRange(t)
  BY <1>1, <1>3, <1>7, <1>9 DEF Own, Busy, InContext, InVariant, ProgramRange, Hooks
<1>15. Recorded(t)'
  BY <1>1, <1>2, <1>9, <1>14 DEF Recorded
<1>16. Hooked(t)'
  BY <1>1, <1>2, <1>3, <1>6, <1>7, <1>9, <1>12, <1>14 DEF Hooked, Hooks
<1>17. Keyed(t)'
  BY <1>1, <1>2, <1>9, <1>14 DEF Keyed, Recorded
<1>18. ThreadOK(t)'
  BY <1>12, <1>13, <1>15, <1>16, <1>17 DEF ThreadOK
<1> QED BY <1>1, <1>6, <1>9, <1>10, <1>11, <1>18 DEF Moves

(* Entering the contexts of the variant's hook.                            *)
LEMMA EnterVariantMoves ==
  ASSUME CallsInv, NEW t \in Threads, EnterVariant(t)
  PROVE  Moves(t)
<1> DEFINE h == VariantHook(t)
           r == [call[t] EXCEPT !.open = Opened(t, h)]
<1>1. /\ pc[t] = "enterVariant" /\ Busy(t) /\ pc[t] # "idle"
      /\ pc' = [pc EXCEPT ![t] = "run"] /\ EnterAll(t, h) /\ Note(t, r)
      /\ UNCHANGED <<keyCache, rooted, sources, level, compiled, failedOnce>>
  BY DEF EnterVariant, Busy
<1>2. /\ CallTypes /\ call[t] \in CallRecords /\ call[t].excused \in BOOLEAN
      /\ Kinded(t) /\ Hooked(t) /\ Keyed(t) /\ Recorded(t) /\ Done(t) /\ Explained(t)
  BY <1>1, InProgress, CallRecordsAre
<1>3. h \in Hooks /\ h # "program"
  BY <1>2, Types
<1>4. InContext(t) /\ InVariant(t)
  BY <1>1 DEF InContext, InVariant
<1>5. ASSUME ~call[t].excused
      PROVE  /\ r \in CallRecords /\ SameCall(call[t], r) /\ r.excused = call[t].excused
             /\ r.measured = call[t].measured /\ r.open = ProgramRange(t) + VariantRange(t)
             /\ r.ran = call[t].ran /\ r.added = call[t].added /\ r.before = call[t].before
             /\ r.failed = call[t].failed /\ r.error = call[t].error
  <2>1. call[t].open = ProgramRange(t) + 0
    BY <1>1, <1>2, <1>4, <1>5 DEF Recorded, Own
  <2>2. ProgramRange(t) \in {0, 1} /\ VariantRange(t) \in {0, 1}
    BY DEF ProgramRange, VariantRange
  <2>3. Opened(t, h) = ProgramRange(t) + VariantRange(t)
    BY <2>1, <2>2 DEF Opened, VariantRange
  <2>4. Opened(t, h) \in 0 .. 2
    BY <2>2, <2>3
  <2> QED BY <1>2, <2>3, <2>4, CallRecordsAre DEF SameCall
<1> HIDE DEF r, h
<1>6. /\ call' \in [Threads -> CallRecords \cup {None}] /\ call'[t] \in CallRecords
      /\ call'[t] = IF call[t].excused THEN call[t] ELSE r
      /\ \A x \in Threads \ {t} : call'[x] = call[x]
  BY <1>1, <1>2, <1>5, NoteEffect
<1>7. SameCall(call[t], call'[t]) /\ call'[t].excused = call[t].excused
  BY <1>5, <1>6 DEF SameCall
<1>8. /\ cvar' \in [Threads -> SourceKeys \cup {None}]
      /\ \A x \in Threads \ {t} : cvar'[x] = cvar[x]
      /\ cvar'[t] = IF ctx[h] = None \/ ~level THEN cvar[t] ELSE ctx[h].key
      /\ ctx' = ctx
  BY <1>1, <1>2, <1>3, EnterAllEffect
<1>9. Grows /\ KeyCacheInv'
  BY <1>1, SameCache
<1>10. /\ Frame(t) /\ Quiet(t) /\ SoloInv' /\ pc'[t] = "run"
       /\ pc' \in [Threads -> Places]
       /\ \A x \in Threads :
              IF pc'[x] = "idle" THEN call'[x] = None ELSE call'[x] \in CallRecords
  <2>1. "run" \in Places \ {"idle"} BY DEF Places
  <2> QED BY <1>1, <1>6, <1>7, <1>8, <2>1, BusyStep
<1>11. CallTypes'
  BY <1>1, <1>2, <1>6, <1>8, <1>10 DEF CallTypes
<1>12. KnownInv'
  <2>1. KnownInv BY DEF CallsInv
  <2>2. ctx[h] # None => KnownAfter(ctx[h].key)
    BY <1>3, <1>9, <2>1, KnownGrows DEF KnownInv
  <2>3. \A x \in Threads : cvar'[x] = cvar[x] \/ KnownAfter(cvar'[x])
    BY <1>8, <2>2
  <2> QED BY <1>1, <1>8, <1>9, <2>1, <2>3, KnownStep
<1>13. Explained(t)' /\ VariantHook(t)' = VariantHook(t)
  BY <1>2, <1>7, <1>9, SameKey
<1>14. Kinded(t)' /\ Done(t)'
  BY <1>2, <1>5, <1>6, <1>7, <1>10 DEF Kinded, SameCall, Done
<1>15. CASE call[t].excused
  BY <1>1, <1>7, <1>13, <1>14, <1>15, <1>6, <1>10, <1>11, <1>9, <1>12, ExcusedOK DEF Moves
<1>16. CASE ~call[t].excused
  <2>1. Own(t) /\ call'[t] = r /\ ~r.excused
    BY <1>1, <1>5, <1>6, <1>16 DEF Own
  <2>2. /\ ctx[h] # None /\ ctx[h].key = CallKey(t) /\ Remembered(t)
        /\ ~call[t].ran /\ call[t].error = call[t].failed /\ call[t].added = << >>
    BY <1>1, <1>2, <1>4, <2>1 DEF Hooked, Recorded, h
  <2>3. Remembered(t)' /\ CallKey(t)' = CallKey(t)
    BY <1>2, <1>7, <1>9, <2>2, SameKey
  <2>4. /\ r.kind = call[t].kind /\ ~r.ran
        /\ ProgramRange(t)' = ProgramRange(t) /\ VariantRange(t)' = VariantRange(t)
    BY <1>5, <1>8, <1>13, <1>16, <2>1, <2>2 DEF SameCall, ProgramRange, VariantRange
  <2>5. InContext(t)'
    BY <1>10 DEF InContext
  <2>6. Hooked(t)'
    BY <1>1, <1>2, <1>4, <1>5, <1>8, <1>10, <1>16, <2>1, <2>3, <2>4 DEF Hooked
  <2>7. Keyed(t)'
    BY <1>1, <1>2, <1>4, <1>5, <1>8, <1>10, <1>16, <2>1, <2>2, <2>3, <2>4 DEF Keyed
  <2>8. Recorded(t)'
    BY <1>5, <1>10, <1>16, <2>1, <2>2, <2>4 DEF Recorded
  <2>10. ThreadOK(t)'
    BY <1>13, <1>14, <2>6, <2>7, <2>8 DEF ThreadOK
  <2> QED BY <1>1, <1>9, <1>10, <1>11, <1>12, <2>10 DEF Moves
<1> QED BY <1>2, <1>15, <1>16

(* The program runs, and may raise.                                        *)
LEMMA RunMoves ==
  ASSUME CallsInv, NEW t \in Threads, Run(t)
  PROVE  Moves(t)
<1> DEFINE h == VariantHook(t)
<1>1. /\ pc[t] = "run" /\ Busy(t) /\ pc[t] # "idle"
      /\ pc' = [pc EXCEPT ![t] = "clearVariant"]
      /\ UNCHANGED <<cvar, keyCache, rooted, sources, ctx, level, compiled, failedOnce>>
  BY DEF Run, Busy, metrics
<1>a. PICK ok \in BOOLEAN :
        Note(t, [call[t] EXCEPT !.ran = TRUE, !.failed = ~ok, !.error = ~ok,
                                !.open = Closed(t, VariantHook(t))])
  BY DEF Run
<1> DEFINE bad == ~ok
           r == [call[t] EXCEPT !.ran = TRUE, !.failed = bad, !.error = bad,
                                !.open = Closed(t, h)]
<1>2. /\ CallTypes /\ call[t] \in CallRecords /\ call[t].excused \in BOOLEAN
      /\ Kinded(t) /\ Hooked(t) /\ Keyed(t) /\ Recorded(t) /\ Done(t) /\ Explained(t)
  BY <1>1, InProgress, CallRecordsAre
<1>3. Note(t, r) BY <1>a
<1>b. bad \in BOOLEAN OBVIOUS
<1> HIDE DEF bad
<1>4. InContext(t) /\ InVariant(t)
  BY <1>1 DEF InContext, InVariant
<1>5. ASSUME ~call[t].excused
      PROVE  /\ r \in CallRecords /\ SameCall(call[t], r) /\ r.excused = call[t].excused
             /\ r.measured = call[t].measured /\ r.open = ProgramRange(t)
             /\ r.ran = TRUE /\ r.added = call[t].added /\ r.before = call[t].before
             /\ r.failed = bad /\ r.error = bad
  <2>1. call[t].open = ProgramRange(t) + VariantRange(t)
    BY <1>1, <1>2, <1>4, <1>5 DEF Recorded, Own
  <2>2. ProgramRange(t) \in {0, 1} /\ VariantRange(t) \in {0, 1}
    BY DEF ProgramRange, VariantRange
  <2>3. Closed(t, h) = ProgramRange(t)
    BY <2>1, <2>2 DEF Closed, VariantRange
  <2>4. Closed(t, h) \in 0 .. 2
    BY <2>2, <2>3
  <2> QED BY <1>2, <1>b, <2>3, <2>4, CallRecordsAre DEF SameCall
<1> HIDE DEF r, h
<1>6. /\ call' \in [Threads -> CallRecords \cup {None}] /\ call'[t] \in CallRecords
      /\ call'[t] = IF call[t].excused THEN call[t] ELSE r
      /\ \A x \in Threads \ {t} : call'[x] = call[x]
  BY <1>2, <1>3, <1>5, NoteEffect
<1>7. SameCall(call[t], call'[t]) /\ call'[t].excused = call[t].excused
  BY <1>5, <1>6 DEF SameCall
<1>8. cvar' \in [Threads -> SourceKeys \cup {None}]
  BY <1>1, <1>2, Types
<1>9. Grows /\ KeyCacheInv'
  BY <1>1, SameCache
<1>10. /\ Frame(t) /\ Quiet(t) /\ SoloInv' /\ pc'[t] = "clearVariant"
       /\ pc' \in [Threads -> Places]
       /\ \A x \in Threads :
              IF pc'[x] = "idle" THEN call'[x] = None ELSE call'[x] \in CallRecords
  <2>1. "clearVariant" \in Places \ {"idle"} BY DEF Places
  <2> QED BY <1>1, <1>6, <1>7, <1>8, <2>1, BusyStep
<1>11. CallTypes'
  BY <1>1, <1>2, <1>6, <1>8, <1>10 DEF CallTypes
<1>12. KnownInv'
  BY <1>1, <1>9, KnownStep DEF CallsInv
<1>13. Explained(t)' /\ VariantHook(t)' = VariantHook(t)
  BY <1>2, <1>7, <1>9, SameKey
<1>14. Kinded(t)' /\ Done(t)'
  BY <1>2, <1>5, <1>6, <1>7, <1>10 DEF Kinded, SameCall, Done
<1>15. CASE call[t].excused
  BY <1>1, <1>7, <1>13, <1>14, <1>15, <1>6, <1>10, <1>11, <1>9, <1>12, ExcusedOK DEF Moves
<1>16. CASE ~call[t].excused
  <2>1. Own(t) /\ call'[t] = r /\ ~r.excused
    BY <1>1, <1>5, <1>6, <1>16 DEF Own
  <2>2. Remembered(t) /\ call[t].added = << >>
    BY <1>1, <1>2, <1>4, <2>1 DEF Hooked, Recorded
  <2>3. Remembered(t)' /\ CallKey(t)' = CallKey(t)
    BY <1>2, <1>7, <1>9, <2>2, SameKey
  <2>4. r.kind = call[t].kind /\ ProgramRange(t)' = ProgramRange(t)
    BY <1>1, <1>5, <1>16, <2>1 DEF SameCall, ProgramRange
  <2>5. ProgramRange(t) + 0 = ProgramRange(t)
    BY DEF ProgramRange
  <2>6. Hooked(t)'
    BY <1>1, <1>2, <1>4, <1>5, <1>10, <1>16, <2>1, <2>3, <2>4 DEF Hooked
  <2>7. Keyed(t)'
    BY <1>1, <1>2, <1>4, <1>5, <1>10, <1>16, <2>1, <2>2, <2>3, <2>4 DEF Keyed
  <2>8. Recorded(t)'
    BY <1>5, <1>10, <1>16, <2>1, <2>2, <2>4, <2>5 DEF Recorded
  <2>10. ThreadOK(t)'
    BY <1>13, <1>14, <2>6, <2>7, <2>8 DEF ThreadOK
  <2> QED BY <1>1, <1>9, <1>10, <1>11, <1>12, <2>10 DEF Moves
<1> QED BY <1>2, <1>15, <1>16

(* A hook is cleared.                                                      *)
LEMMA Cleared ==
  ASSUME CallTypes, NEW h \in Hooks, ctx' = [ctx EXCEPT ![h] = None]
  PROVE  /\ ctx' \in [Hooks -> Managers \cup {None}] /\ ctx'[h] = None
         /\ \A g \in Hooks \ {h} : ctx'[g] = ctx[g]
BY Types

(* The variant's hook forgets its contexts.                                *)
LEMMA ClearVariantMoves ==
  ASSUME CallsInv, NEW t \in Threads, ClearVariant(t)
  PROVE  Moves(t)
<1> DEFINE h == VariantHook(t)
           w == IF call[t].kind = "operator" THEN "returned" ELSE "exitProgram"
<1>1. /\ pc[t] = "clearVariant" /\ Busy(t) /\ pc[t] # "idle"
      /\ pc' = [pc EXCEPT ![t] = w] /\ ctx' = [ctx EXCEPT ![h] = None]
      /\ UNCHANGED <<cvar, keyCache, rooted, sources, level, compiled, failedOnce, call>>
  BY DEF ClearVariant, Busy, metrics
<1>2. /\ CallTypes /\ call[t] \in CallRecords /\ call[t].excused \in BOOLEAN
      /\ Kinded(t) /\ Hooked(t) /\ Keyed(t) /\ Recorded(t) /\ Done(t) /\ Explained(t)
  BY <1>1, InProgress, CallRecordsAre
<1>3. h \in Hooks /\ h # "program"
  BY <1>2, Types
<1>4. w \in Places \ {"idle"} BY DEF Places
<1> HIDE DEF h, w
<1>5. /\ ctx' \in [Hooks -> Managers \cup {None}] /\ ctx'[h] = None
      /\ \A g \in Hooks \ {h} : ctx'[g] = ctx[g]
  BY <1>1, <1>2, <1>3, Cleared
<1>6. ctx'["program"] = ctx["program"]
  BY <1>2, <1>3, <1>5, Types
<1>7. /\ call' \in [Threads -> CallRecords \cup {None}] /\ call'[t] \in CallRecords
      /\ cvar' \in [Threads -> SourceKeys \cup {None}]
  BY <1>1, <1>2 DEF CallTypes
<1>8. /\ Frame(t) /\ Quiet(t) /\ SoloInv' /\ pc'[t] = w
      /\ pc' \in [Threads -> Places]
      /\ \A x \in Threads :
              IF pc'[x] = "idle" THEN call'[x] = None ELSE call'[x] \in CallRecords
  BY <1>1, <1>4, <1>7, BusyStep
<1>9. Grows /\ KeyCacheInv'
  BY <1>1, SameCache
<1>10. CallTypes'
  BY <1>1, <1>2, <1>5, <1>7, <1>8 DEF CallTypes
<1>11. KnownInv'
  BY <1>1, <1>5, <1>9, KnownStep DEF CallsInv
<1>12. /\ Explained(t)' /\ Kinded(t)'
       /\ Remembered(t)' = Remembered(t) /\ CallKey(t)' = CallKey(t)
  BY <1>1, <1>2, <1>9 DEF Explained, Kinded, Remembered, CallKey
<1>13. /\ InContext(t) /\ InVariant(t) /\ ProgramRange(t)' = ProgramRange(t)
       /\ call[t].kind = "operator" => ProgramRange(t) = 0
       /\ ProgramRange(t) + 0 = ProgramRange(t)
  BY <1>1, <1>6 DEF InContext, InVariant, ProgramRange
<1>14. w = IF call[t].kind = "operator" THEN "returned" ELSE "exitProgram"
  BY DEF w
<1>15. Hooked(t)'
  BY <1>1, <1>2, <1>6, <1>8, <1>12, <1>13, <1>14 DEF Hooked, Own, InVariant, Busy
<1>16. Keyed(t)'
  BY <1>1, <1>2, <1>8, <1>12, <1>13, <1>14 DEF Keyed, Own, Busy
<1>17. Recorded(t)'
  BY <1>1, <1>2, <1>8, <1>13, <1>14 DEF Recorded, Own, Busy
<1>18. Done(t)'
  BY <1>1, <1>2, <1>8, <1>12, <1>13, <1>14 DEF Done, Recorded, Hooked, Own
<1>19. ThreadOK(t)'
  BY <1>12, <1>15, <1>16, <1>17, <1>18 DEF ThreadOK
<1> QED BY <1>1, <1>8, <1>9, <1>10, <1>11, <1>19 DEF Moves

(* The program hook forgets its contexts.                                  *)
LEMMA ClearProgramMoves ==
  ASSUME CallsInv, NEW t \in Threads, ClearProgram(t)
  PROVE  Moves(t)
<1>1. /\ pc[t] = "clearProgram" /\ Busy(t) /\ pc[t] # "idle"
      /\ pc' = [pc EXCEPT ![t] = "returned"] /\ ctx' = [ctx EXCEPT !["program"] = None]
      /\ UNCHANGED <<cvar, keyCache, rooted, sources, level, compiled, failedOnce, call>>
      /\ "returned" \in Places \ {"idle"} /\ "program" \in Hooks
  BY DEF ClearProgram, Busy, metrics, Places, Hooks
<1>2. /\ CallTypes /\ call[t] \in CallRecords /\ call[t].excused \in BOOLEAN
      /\ Kinded(t) /\ Hooked(t) /\ Keyed(t) /\ Recorded(t) /\ Done(t) /\ Explained(t)
  BY <1>1, InProgress, CallRecordsAre
<1>3. /\ ctx' \in [Hooks -> Managers \cup {None}] /\ ctx'["program"] = None
      /\ \A g \in Hooks \ {"program"} : ctx'[g] = ctx[g]
  BY <1>1, <1>2, Cleared
<1>4. /\ call' \in [Threads -> CallRecords \cup {None}] /\ call'[t] \in CallRecords
      /\ cvar' \in [Threads -> SourceKeys \cup {None}]
  BY <1>1, <1>2 DEF CallTypes
<1>5. /\ Frame(t) /\ Quiet(t) /\ SoloInv' /\ pc'[t] = "returned"
      /\ pc' \in [Threads -> Places]
      /\ \A x \in Threads :
              IF pc'[x] = "idle" THEN call'[x] = None ELSE call'[x] \in CallRecords
  BY <1>1, <1>4, BusyStep
<1>6. Grows /\ KeyCacheInv'
  BY <1>1, SameCache
<1>7. CallTypes'
  BY <1>1, <1>2, <1>3, <1>4, <1>5 DEF CallTypes
<1>8. KnownInv'
  BY <1>1, <1>3, <1>6, KnownStep DEF CallsInv
<1>9. /\ Explained(t)' /\ Kinded(t)' /\ Remembered(t)' = Remembered(t)
      /\ CallKey(t)' = CallKey(t)
  BY <1>1, <1>2, <1>6 DEF Explained, Kinded, Remembered, CallKey
<1>10. Done(t)'
  BY <1>1, <1>2, <1>5, <1>9 DEF Done
<1>11. ThreadOK(t)'
  BY <1>5, <1>9, <1>10 DEF ThreadOK, Hooked, Keyed, Recorded, Own, Busy
<1> QED BY <1>1, <1>5, <1>6, <1>7, <1>8, <1>11 DEF Moves

(* The thread is free for another call.                                    *)
LEMMA ReturnMoves ==
  ASSUME CallsInv, NEW t \in Threads, Return(t)
  PROVE  Moves(t)
<1>1. /\ pc[t] = "returned" /\ pc' = [pc EXCEPT ![t] = "idle"] /\ call' = [call EXCEPT ![t] = None]
      /\ UNCHANGED <<cvar, keyCache, rooted, sources, ctx, level, compiled, failedOnce>>
      /\ "idle" \in Places
  BY DEF Return, metrics, Places
<1>2. CallTypes BY DEF CallsInv
<1>3. /\ pc'[t] = "idle" /\ call'[t] = None /\ pc' \in [Threads -> Places]
      /\ call' \in [Threads -> CallRecords \cup {None}]
      /\ \A x \in Threads \ {t} : pc'[x] = pc[x] /\ call'[x] = call[x]
  BY <1>1, <1>2 DEF CallTypes
<1>4. Frame(t) /\ Quiet(t) /\ Grows /\ KeyCacheInv'
  BY <1>1, <1>3, SameCache DEF Frame, Quiet
<1>5. CallTypes'
  BY <1>1, <1>2, <1>3 DEF CallTypes
<1>6. SoloInv'
  BY <1>3, <1>4, SoloStep DEF Own, Busy
<1>7. KnownInv'
  BY <1>1, <1>4, KnownStep DEF CallsInv
<1>8. ThreadOK(t)'
  BY <1>3 DEF ThreadOK
<1> QED BY <1>1, <1>4, <1>5, <1>6, <1>7, <1>8 DEF Moves

(* A variant is compiled outside any call.                                 *)
LEMMA PrecompileMoves ==
  ASSUME CallsInv, NEW t \in Threads, NEW p \in Pools, NEW v \in Variants, Precompile(t, p, v)
  PROVE  Moves(t)
<1>1. /\ pc[t] = "idle" /\ CompileVariantHook(t, p, v) /\ UNCHANGED <<cvar, ctx, level, pc, call>>
      /\ compiled \subseteq compiled' /\ failedOnce \subseteq failedOnce'
      /\ KeyIsTaken(t, p, v) \/ <<p, v>> \in compiled' \cup failedOnce'
      /\ compiled' \subseteq compiled \cup {<<p, v>>} /\ failedOnce' \subseteq failedOnce \cup {<<p, v>>}
  BY DEF Precompile, Stored
<1>2. CallTypes BY DEF CallsInv
<1>3. /\ CacheTypes' /\ sources' \subseteq SourceKeys
      /\ KeyCacheInv' /\ Grows /\ KnownInv'
      /\ \A x \in Threads \ {t} : keyCache'[x] = keyCache[x]
  BY <1>1, CompileVariantHookEffect
<1>4. Frame(t) /\ Quiet(t)
  BY <1>1, <1>3 DEF Frame, Quiet
<1>5. CallTypes'
  <2>1. <<p, v>> \in Pools \X Variants OBVIOUS
  <2>2. compiled' \subseteq Pools \X Variants /\ failedOnce' \subseteq Pools \X Variants
    BY <1>1, <1>2, <2>1 DEF CallTypes
  <2> QED BY <1>1, <1>2, <1>3, <2>2 DEF CallTypes, CacheTypes
<1>6. SoloInv'
  BY <1>1, <1>4, SoloStep DEF Own, Busy
<1>7. ThreadOK(t)'
  BY <1>1 DEF ThreadOK
<1> QED BY <1>1, <1>3, <1>4, <1>5, <1>6, <1>7 DEF Moves

(* A call begins, and excuses those it overlaps.                           *)
LEMMA CallMoves ==
  ASSUME CallsInv, NEW t \in Threads, NEW kind \in Kinds,
         NEW p \in Pools \cup {None}, NEW v \in Variants \cup {None},
         kind # "embedded" => p \in Pools /\ v \in Variants,
         Call(t, kind, p, v)
  PROVE  Moves(t)
<1> DEFINE new == [kind |-> kind, pool |-> p, variant |-> v, failed |-> FALSE, taken |-> FALSE,
              error |-> FALSE, ran |-> FALSE, added |-> << >>, before |-> cvar[t],
              measured |-> FALSE, open |-> 0, excused |-> FALSE]
           others == {u \in Threads \ {t} : Busy(u)}
           w == IF kind = "operator" THEN "dispatch" ELSE "enterProgram"
<1>1. /\ pc[t] = "idle" /\ pc' = [pc EXCEPT ![t] = w]
      /\ UNCHANGED <<cvar, keyCache, rooted, sources, level, compiled, failedOnce>>
      /\ w \in Places \ {"idle"} /\ "program" \in Hooks
      /\ ctx' = IF kind = "operator" THEN ctx
                ELSE [ctx EXCEPT !["program"] = NewManagers("program", None)]
  BY DEF Call, metrics, Places, Hooks
<1>2. CallTypes BY DEF CallsInv
<1>3. /\ new \in CallRecords /\ new.kind = kind /\ new.pool = p /\ new.variant = v
      /\ new.error = new.failed /\ ~new.taken /\ ~new.ran /\ new.added = << >>
      /\ new.before = cvar[t] /\ new.open = 0 /\ ~new.excused
  <2>1. cvar[t] \in SourceKeys \cup {None} /\ 0 \in 0 .. 2
    BY <1>2, Types
  <2> QED BY <2>1, CallRecordsAre, AddedSamplesAre
<1>4. call' = [u \in Threads |->
       IF u = t THEN IF others = {} THEN new ELSE Excused(new)
       ELSE IF u \in others THEN Excused(call[u]) ELSE call[u]]
  BY DEF Call
<1> HIDE DEF new, w
<1>5. /\ call'[t] = (IF others = {} THEN new ELSE Excused(new))
      /\ \A u \in Threads \ {t} : call'[u] = IF Busy(u) THEN Excused(call[u]) ELSE call[u]
      /\ pc'[t] = w /\ (\A u \in Threads \ {t} : pc'[u] = pc[u]) /\ pc' \in [Threads -> Places]
  BY <1>1, <1>2, <1>4 DEF CallTypes
<1>6. \A u \in Threads : Busy(u) => call[u] \in CallRecords
  BY <1>2 DEF CallTypes, Busy
<1>7. /\ call'[t] \in CallRecords /\ call'[t].kind = kind /\ call'[t].pool = p
      /\ call'[t].variant = v /\ ~call'[t].taken
      /\ call'[t].excused <=> others # {}
  BY <1>3, <1>5, ExcusedCall
<1>8. \A u \in Threads \ {t} : Busy(u) => call'[u] \in CallRecords /\ call'[u].excused
  BY <1>5, <1>6, ExcusedCall
<1>9. /\ call' \in [Threads -> CallRecords \cup {None}]
      /\ \A x \in Threads :
              IF pc'[x] = "idle" THEN call'[x] = None ELSE call'[x] \in CallRecords
  <2>1. \A x \in Threads :
              IF pc'[x] = "idle" THEN call'[x] = None ELSE call'[x] \in CallRecords
    <3> SUFFICES ASSUME NEW x \in Threads
                 PROVE  IF pc'[x] = "idle" THEN call'[x] = None ELSE call'[x] \in CallRecords
      OBVIOUS
    <3>1. CASE x = t BY <1>1, <1>5, <1>7, <3>1
    <3>2. CASE x # t BY <1>2, <1>5, <1>8, <3>2 DEF CallTypes, Busy
    <3> QED BY <3>1, <3>2
  <2> HIDE DEF others
  <2> QED BY <1>4, <2>1
<1>10. /\ ctx' \in [Hooks -> Managers \cup {None}]
       /\ \A g \in Hooks \ {"program"} : ctx'[g] = ctx[g]
       /\ kind = "operator" => ctx' = ctx
       /\ kind # "operator" => /\ ctx'["program"] # None
                               /\ ctx'["program"].key = None
                               /\ ctx'["program"].token = Missing
  <2>1. /\ NewManagers("program", None) \in Managers /\ NewManagers("program", None) # None
        /\ NewManagers("program", None).key = None
        /\ NewManagers("program", None).token = Missing
    BY <1>1, NewManagersType
  <2> QED BY <1>1, <1>2, <2>1, Types
<1>11. CallTypes'
  BY <1>1, <1>2, <1>5, <1>9, <1>10 DEF CallTypes
<1>12. Frame(t) /\ Quiet(t) /\ Grows /\ KeyCacheInv'
  BY <1>1, <1>5, <1>8, SameCache DEF Frame, Quiet
<1>13. SoloInv'
  <2> SUFFICES ASSUME NEW x \in Threads, NEW u \in Threads, Own(x)', u # x, Busy(u)'
               PROVE  FALSE
    BY DEF SoloInv
  <2>1. x = t
    BY <1>5, <1>8 DEF Own, Busy
  <2>2. others = {}
    BY <1>7, <2>1 DEF Own
  <2>3. Busy(u)
    BY <1>5, <2>1 DEF Busy
  <2> QED BY <2>1, <2>2, <2>3
<1>14. KnownInv'
  <2>1. KnownAfter(None) BY DEF KnownAfter, KnownIn
  <2>2. \A h \in Hooks : ctx'[h] = ctx[h] \/ ctx'[h] = None \/
           (/\ KnownAfter(ctx'[h].key)
            /\ ctx'[h].token \notin {None, Missing} => KnownAfter(ctx'[h].token.old))
    BY <1>10, <2>1
  <2> QED BY <1>1, <1>12, <2>2, KnownStep DEF CallsInv
<1>15. Kinded(t)' /\ Explained(t)' /\ Done(t)'
  <2>1. w \notin {"clearProgram", "returned"} BY DEF w
  <2>2. Kinded(t)'
    BY <1>3, <1>5, <1>7, ExcusedCall DEF Kinded
  <2> QED BY <1>5, <1>7, <2>1, <2>2 DEF Explained, Done
<1>16. CASE others # {}
  <2>1. ThreadOK(t)' BY <1>7, <1>15, <1>16, ExcusedOK
  <2> QED BY <1>1, <1>11, <1>12, <1>13, <1>14, <2>1 DEF Moves
<1>17. CASE others = {}
  <2>1. call'[t] = new BY <1>5, <1>17
  <2>2. w = IF kind = "operator" THEN "dispatch" ELSE "enterProgram" BY DEF w
  <2>3. Hooked(t)'
    BY <1>3, <1>5, <1>10, <2>1, <2>2 DEF Hooked, InContext, InVariant
  <2>4. Keyed(t)'
    BY <1>1, <1>3, <1>5, <2>1, <2>2 DEF Keyed, InContext
  <2>5. Recorded(t)'
    <3>1. kind = "operator" => ProgramRange(t)' + 0 = 0
      BY <1>3, <2>1 DEF ProgramRange
    <3> QED BY <1>3, <1>5, <2>1, <2>2, <3>1 DEF Recorded, InContext
  <2>6. ThreadOK(t)'
    BY <1>15, <2>3, <2>4, <2>5 DEF ThreadOK
  <2> QED BY <1>1, <1>11, <1>12, <1>13, <1>14, <2>6 DEF Moves
<1> QED BY <1>16, <1>17

(* A change of the metrics level excuses the calls in progress.            *)
LEMMA SetLevelInv ==
  ASSUME CallsInv, SetLevel
  PROVE  CallsInv'
<1>1. /\ level' = ~level
      /\ call' = [t \in Threads |-> IF Busy(t) THEN Excused(call[t]) ELSE call[t]]
      /\ UNCHANGED <<cvar, keyCache, rooted, sources, ctx, compiled, failedOnce, pc>>
  BY DEF SetLevel, metrics
<1>2. CallTypes BY DEF CallsInv
<1>3. \A t \in Threads : call'[t] = IF Busy(t) THEN Excused(call[t]) ELSE call[t]
  BY <1>1
<1>4. \A t \in Threads : Busy(t) =>
        call[t] \in CallRecords /\ call'[t] \in CallRecords /\ call'[t].excused
  BY <1>2, <1>3, ExcusedCall DEF CallTypes, Busy
<1>5. CallTypes'
  <2>1. \A t \in Threads : IF pc[t] = "idle" THEN call'[t] = None ELSE call'[t] \in CallRecords
    BY <1>2, <1>3, <1>4 DEF CallTypes, Busy
  <2>2. call' \in [Threads -> CallRecords \cup {None}]
    BY <1>1, <2>1
  <2>3. level' \in BOOLEAN BY <1>1
  <2> QED BY <1>1, <1>2, <2>1, <2>2, <2>3 DEF CallTypes
<1>6. SoloInv'
  BY <1>1, <1>3, <1>4 DEF SoloInv, Own, Busy
<1>7. Grows /\ KeyCacheInv' /\ KnownInv'
  BY <1>1, SameCache, KnownStep DEF CallsInv
<1>8. ThreadInv'
  <2> SUFFICES ASSUME NEW t \in Threads, pc'[t] # "idle" PROVE ThreadOK(t)'
    BY DEF ThreadInv, ThreadOK
  <2>1. /\ call[t] \in CallRecords /\ Kinded(t) /\ Done(t) /\ Explained(t)
    BY <1>1, InProgress
  <2>2. SameCall(call[t], call'[t])
    BY <1>3, <2>1, ExcusedCall DEF SameCall
  <2>3. Explained(t)'
    BY <1>2, <1>7, <2>1, <2>2, SameKey
  <2>4. Kinded(t)'
    BY <1>3, <2>1, <2>2, ExcusedCall DEF Kinded, SameCall
  <2>5. CASE Busy(t)
    BY <1>4, <2>3, <2>4, <2>5, ExcusedOK
  <2>6. CASE ~Busy(t)
    <3>1. call'[t] = call[t] /\ ~Busy(t)'
      BY <1>1, <1>3, <2>6 DEF Busy
    <3>2. Done(t)'
      BY <1>1, <2>1, <3>1 DEF Done, Remembered, CallKey
    <3> QED BY <2>3, <2>4, <3>1, <3>2 DEF ThreadOK, Hooked, Keyed, Recorded, Own
  <2> QED BY <2>5, <2>6
<1> QED BY <1>5, <1>6, <1>7, <1>8 DEF CallsInv

(* The token that a call on its own finds is its own, and unused.          *)
LEMMA ExitProgramMoves ==
  ASSUME CallsInv, NEW t \in Threads, ExitProgram(t)
  PROVE  Moves(t)
<1> DEFINE ms == ctx["program"]  tok == ms.token
           closed == [call[t] EXCEPT !.open = Closed(t, "program")]
           failed == [call[t] EXCEPT !.open = Closed(t, "program"), !.error = TRUE]
           Sampled(e) == [call[t] EXCEPT !.open = Closed(t, "program"),
                            !.added = @ \o <<cvar[t]>>, !.error = e]
<1>1. /\ pc[t] = "exitProgram" /\ Busy(t) /\ pc[t] # "idle" /\ "program" \in Hooks
      /\ UNCHANGED <<keyCache, rooted, level, compiled, failedOnce>>
  BY DEF ExitProgram, Busy, Hooks
<1>2. /\ CallTypes /\ call[t] \in CallRecords /\ call[t].excused \in BOOLEAN
      /\ Kinded(t) /\ Hooked(t) /\ Keyed(t) /\ Recorded(t) /\ Done(t) /\ Explained(t)
  BY <1>1, InProgress, CallRecordsAre
<1>3. PICK raised \in BOOLEAN :
       /\ pc' = [pc EXCEPT ![t] = IF raised THEN "returned" ELSE "clearProgram"]
       /\ IF ms = None THEN ~raised /\ UNCHANGED <<cvar, sources, ctx, call>>
                       ELSE CollectorExit(t, tok, raised)
  BY DEF ExitProgram
<1> DEFINE w == IF raised THEN "returned" ELSE "clearProgram"
           error == call[t].error \/ raised
<1>4. InContext(t) BY <1>1 DEF InContext
<1>5. ms # None => ms \in Managers /\ tok \in Tokens \cup {None, Missing}
  BY <1>1, <1>2, Types
<1>6. cvar[t] \in SourceKeys \cup {None} /\ cvar \in [Threads -> SourceKeys \cup {None}]
  BY <1>2, Types
<1>7. ASSUME ~call[t].excused
      PROVE  /\ ms # None /\ call[t].kind # "operator" /\ call[t].measured = level
             /\ tok = (IF level THEN [thread |-> t, old |-> call[t].before, used |-> FALSE] ELSE None)
             /\ cvar[t] = IF ~level THEN call[t].before ELSE IF call[t].ran THEN CallKey(t) ELSE None
             /\ call[t].ran => Remembered(t)
             /\ call[t].ran \/ call[t].failed
             /\ call[t].error = call[t].failed /\ call[t].added = << >>
             /\ Closed(t, "program") = 0
  <2>1. Own(t) BY <1>1, <1>7 DEF Own
  <2>2. /\ ms # None /\ call[t].kind # "operator" /\ call[t].measured = level
        /\ tok = (IF level THEN [thread |-> t, old |-> call[t].before, used |-> FALSE] ELSE None)
        /\ call[t].ran => Remembered(t)
    BY <1>1, <1>2, <1>4, <2>1 DEF Hooked
  <2>3. cvar[t] = IF ~level THEN call[t].before ELSE IF call[t].ran THEN CallKey(t) ELSE None
    BY <1>1, <1>2, <1>4, <2>1, <2>2 DEF Keyed
  <2>4. /\ call[t].ran \/ call[t].failed
        /\ call[t].error = call[t].failed /\ call[t].added = << >>
        /\ call[t].open = ProgramRange(t) + 0
    BY <1>1, <1>2, <1>4, <2>1 DEF Recorded
  <2>5. Closed(t, "program") = 0
    BY <2>2, <2>4 DEF Closed, ProgramRange
  <2> QED BY <2>2, <2>3, <2>4, <2>5
<1>8. ASSUME call[t].ran, Remembered(t) PROVE CallKey(t) \in SourceKeys /\ CallKey(t) # None
  <2>1. CASE call[t].kind = "embedded"
    BY <2>1, EmbeddedKeyType DEF CallKey
  <2>2. CASE call[t].kind # "embedded"
    BY <1>2, <1>8, <2>2, CallsAssumption DEF CallKey, Remembered, CallTypes
  <2> QED BY <2>1, <2>2
<1>9. /\ call[t].error \in BOOLEAN /\ call[t].failed \in BOOLEAN /\ level \in BOOLEAN
      /\ error \in BOOLEAN /\ 0 \in 0 .. 2
  BY <1>2, CallRecordsAre, Types
<1>10. ASSUME ~call[t].excused
       PROVE  /\ \A r \in {closed, failed} :
                   /\ r \in CallRecords /\ SameCall(call[t], r) /\ r.excused = call[t].excused
                   /\ r.open = 0 /\ r.added = << >> /\ r.ran = call[t].ran
                   /\ r.before = call[t].before /\ r.measured = call[t].measured
                   /\ r.failed = call[t].failed
              /\ closed.error = call[t].error /\ failed.error = TRUE
  <2> DEFINE Same(r) ==
        /\ r \in CallRecords /\ SameCall(call[t], r) /\ r.excused = call[t].excused
        /\ r.open = 0 /\ r.added = << >> /\ r.ran = call[t].ran
        /\ r.before = call[t].before /\ r.measured = call[t].measured
        /\ r.failed = call[t].failed
  <2>1. Closed(t, "program") = 0 /\ call[t].added = << >> BY <1>7, <1>10
  <2>2. Same(closed) /\ closed.error = call[t].error
    BY <1>2, <1>9, <2>1, CallRecordsAre DEF SameCall
  <2>3. Same(failed) /\ failed.error = TRUE
    BY <1>2, <1>9, <2>1, CallRecordsAre DEF SameCall
  <2> HIDE DEF closed, failed
  <2> QED BY <2>2, <2>3
<1>11. ASSUME ~call[t].excused, cvar[t] \in SourceKeys
       PROVE  LET r == Sampled(error) IN
              /\ r \in CallRecords /\ SameCall(call[t], r) /\ r.excused = call[t].excused
              /\ r.open = 0 /\ r.added = <<cvar[t]>> /\ r.ran = call[t].ran
              /\ r.before = call[t].before /\ r.measured = call[t].measured
              /\ r.failed = call[t].failed /\ r.error = error
  <2> HIDE DEF error
  <2>1. call[t].added \o <<cvar[t]>> = <<cvar[t]>> /\ <<cvar[t]>> \in AddedSamples
    BY <1>7, <1>11, AddedSamplesAre
  <2>2. Sampled(error) = [call[t] EXCEPT !.open = 0, !.added = <<cvar[t]>>, !.error = error]
    BY <1>2, <1>7, <1>11, <2>1, CallRecordsAre
  <2> QED BY <1>2, <1>9, <2>1, <2>2, CallRecordsAre DEF SameCall
<1>12. w \in Places \ {"idle"} /\ pc' = [pc EXCEPT ![t] = w]
  BY <1>3 DEF Places
<1>13. Grows /\ KeyCacheInv'
  BY <1>1, SameCache
<1> HIDE DEF closed, failed, Sampled, error
(* What the step does to the shared variables.                             *)
<1>14. /\ cvar' \in [Threads -> SourceKeys \cup {None}]
       /\ \A x \in Threads \ {t} : cvar'[x] = cvar[x]
       /\ ctx' \in [Hooks -> Managers \cup {None}]
       /\ sources' \subseteq sources \cup {cvar[t]} /\ sources' \subseteq SourceKeys
       /\ cvar'[t] = cvar[t] \/
            (ms # None /\ tok \notin {None, Missing} /\ cvar'[t] = tok.old)
       /\ \A h \in Hooks : ctx'[h] = ctx[h] \/
            (/\ h = "program" /\ ms # None /\ ctx'[h].key = ms.key
             /\ tok \notin {None, Missing} /\ ctx'[h].token.old = tok.old)
  <2>1. CASE UNCHANGED <<cvar, sources, ctx>>
    BY <1>2, <1>6, <2>1, Types DEF CallTypes
  <2>2. CASE /\ ms # None /\ tok \notin {None, Missing} /\ cvar[t] # None
             /\ sources' = sources \cup {cvar[t]} /\ UNCHANGED <<cvar, ctx>>
    BY <1>2, <1>6, <2>2, Types DEF CallTypes
  <2>3. CASE /\ ms # None /\ tok \notin {None, Missing} /\ cvar[t] # None
             /\ sources' = sources \cup {cvar[t]}
             /\ cvar' = [cvar EXCEPT ![t] = tok.old]
             /\ ctx' = [ctx EXCEPT !["program"] =
                          [ms EXCEPT !.token = [tok EXCEPT !.used = TRUE]]]
    <3> DEFINE u == [tok EXCEPT !.used = TRUE]
               m == [ms EXCEPT !.token = u]
    <3>1. tok \in Tokens /\ ms \in Managers BY <1>5, <2>3
    <3>2. u \in Tokens /\ u.old = tok.old /\ tok.old \in SourceKeys \cup {None}
      BY <3>1 DEF Tokens
    <3> HIDE DEF u
    <3>3. m \in Managers /\ m.key = ms.key /\ m.token = u
      BY <3>1, <3>2 DEF Managers
    <3>4. ctx' = [ctx EXCEPT !["program"] = m] BY <2>3 DEF u
    <3> HIDE DEF m
    <3>5. ctx'["program"] = m /\ (\A h \in Hooks \ {"program"} : ctx'[h] = ctx[h])
          /\ ctx' \in [Hooks -> Managers \cup {None}]
      BY <1>1, <1>2, <3>3, <3>4, Types
    <3>6. /\ cvar' \in [Threads -> SourceKeys \cup {None}] /\ cvar'[t] = tok.old
          /\ \A x \in Threads \ {t} : cvar'[x] = cvar[x]
      BY <1>6, <2>3, <3>2
    <3>7. sources' \subseteq SourceKeys
      BY <1>2, <1>6, <2>3 DEF CallTypes
    <3> QED BY <2>3, <3>2, <3>3, <3>5, <3>6, <3>7
  <2> QED BY <1>3, <2>1, <2>2, <2>3 DEF CollectorExit, Restored
(* What it does to the record of the call.                                 *)
<1>15. ASSUME ~call[t].excused
       PROVE  LET r == call'[t] IN
              /\ r \in CallRecords /\ SameCall(call[t], r) /\ r.excused = call[t].excused
              /\ r.open = 0 /\ r.ran = call[t].ran
              /\ r.before = call[t].before /\ r.measured = call[t].measured
              /\ r.failed = call[t].failed /\ r.error = r.failed
              /\ r.added = (IF call[t].measured /\ call[t].ran THEN <<CallKey(t)>> ELSE << >>)
              /\ cvar'[t] = (IF call[t].measured /\ ~call[t].ran THEN None ELSE call[t].before)
              /\ call' \in [Threads -> CallRecords \cup {None}]
              /\ \A x \in Threads \ {t} : call'[x] = call[x]
  <2>1. CASE ~level
    <3>1. tok = None BY <1>7, <1>15, <2>1
    <3>2. Note(t, closed) /\ UNCHANGED cvar
      BY <1>3, <1>7, <1>15, <3>1, CallsAssumption DEF CollectorExit, closed
    <3>3. /\ call' \in [Threads -> CallRecords \cup {None}] /\ call'[t] = closed
          /\ \A x \in Threads \ {t} : call'[x] = call[x]
      BY <1>2, <1>10, <1>15, <3>2, NoteEffect
    <3> QED BY <1>7, <1>10, <1>15, <2>1, <3>2, <3>3
  <2>2. CASE level /\ ~call[t].ran
    <3>1. tok # None /\ tok \in Tokens /\ cvar[t] = None
      <4>1. tok = [thread |-> t, old |-> call[t].before, used |-> FALSE]
        BY <1>7, <1>15, <2>2
      <4>2. call[t].before \in SourceKeys \cup {None}
        BY <1>2, CallRecordsAre
      <4>3. tok \in Tokens BY <4>1, <4>2 DEF Tokens
      <4> QED BY <1>7, <1>15, <2>2, <4>3, CallsAssumption
    <3>2. Note(t, failed) /\ UNCHANGED cvar
      BY <1>3, <1>7, <1>15, <3>1, CallsAssumption DEF CollectorExit, failed
    <3>3. /\ call' \in [Threads -> CallRecords \cup {None}] /\ call'[t] = failed
          /\ \A x \in Threads \ {t} : call'[x] = call[x]
      BY <1>2, <1>10, <1>15, <3>2, NoteEffect
    <3>4. call[t].failed = TRUE BY <1>7, <1>9, <1>15, <2>2
    <3> QED BY <1>7, <1>10, <1>15, <2>2, <3>1, <3>2, <3>3, <3>4
  <2>3. CASE level /\ call[t].ran
    <3>1. tok = [thread |-> t, old |-> call[t].before, used |-> FALSE]
      BY <1>7, <1>15, <2>3
    <3>2. tok.old = call[t].before /\ ~tok.used /\ tok.thread = t
      BY <3>1
    <3>3. tok \in Tokens
      <4>1. call[t].before \in SourceKeys \cup {None}
        BY <1>2, CallRecordsAre
      <4> QED BY <3>1, <4>1 DEF Tokens
    <3>4. cvar[t] = CallKey(t) /\ cvar[t] \in SourceKeys /\ cvar[t] # None
      BY <1>7, <1>8, <1>15, <2>3
    <3>5. /\ ~raised /\ cvar' = [cvar EXCEPT ![t] = tok.old]
          /\ Note(t, [call[t] EXCEPT !.open = Closed(t, "program"), !.added = @ \o <<cvar[t]>>,
                                     !.error = @ \/ raised])
      BY <1>3, <1>7, <1>15, <3>2, <3>3, <3>4, CallsAssumption
         DEF CollectorExit, Restored, Samples
    <3>6. Note(t, Sampled(error))
      <4>1. [call[t] EXCEPT !.open = Closed(t, "program"), !.added = @ \o <<cvar[t]>>,
                            !.error = @ \/ raised] = Sampled(error)
        BY DEF Sampled, error
      <4> QED BY <3>5, <4>1
    <3>7. /\ call' \in [Threads -> CallRecords \cup {None}] /\ call'[t] = Sampled(error)
          /\ \A x \in Threads \ {t} : call'[x] = call[x]
      <4> HIDE DEF Sampled, error
      <4> QED BY <1>2, <1>11, <1>15, <3>4, <3>6, NoteEffect
    <3>8. cvar'[t] = call[t].before
      BY <1>6, <3>2, <3>5
    <3>9. error = call[t].error
      BY <1>9, <3>5 DEF error
    <3> QED BY <1>7, <1>11, <1>15, <2>3, <3>4, <3>7, <3>8, <3>9
  <2> QED BY <1>9, <1>2, CallRecordsAre, <2>1, <2>2, <2>3
<1>16. ASSUME call[t].excused
       PROVE  call' = call
  <2>1. \A r : Note(t, r) => call' = call
    BY <1>2, <1>16 DEF Note, CallTypes
  <2> QED BY <1>3, <2>1 DEF CollectorExit
<1>17. /\ call' \in [Threads -> CallRecords \cup {None}] /\ call'[t] \in CallRecords
       /\ \A x \in Threads \ {t} : call'[x] = call[x]
       /\ SameCall(call[t], call'[t]) /\ call'[t].excused = call[t].excused
  <2>1. CASE call[t].excused
    BY <1>2, <1>16, <2>1 DEF SameCall, CallTypes
  <2>2. CASE ~call[t].excused
    BY <1>15, <2>2
  <2> QED BY <1>2, <2>1, <2>2
<1> HIDE DEF w
<1>18. /\ Frame(t) /\ Quiet(t) /\ SoloInv' /\ pc'[t] = w
       /\ pc' \in [Threads -> Places]
       /\ \A x \in Threads :
              IF pc'[x] = "idle" THEN call'[x] = None ELSE call'[x] \in CallRecords
  BY <1>1, <1>12, <1>14, <1>17, BusyStep
<1>19. CallTypes'
  BY <1>1, <1>2, <1>14, <1>17, <1>18 DEF CallTypes
<1>20. KnownInv'
  <2>1. KnownInv BY DEF CallsInv
  <2>2. KnownAfter(cvar[t])
    BY <1>13, <2>1, KnownGrows DEF KnownInv
  <2>3. ms # None => KnownAfter(ms.key) /\ (tok \notin {None, Missing} => KnownAfter(tok.old))
    BY <1>1, <1>13, <2>1, KnownGrows DEF KnownInv
  <2>4. \A k \in sources' : k \in sources \/ KnownAfter(k)
    BY <1>14, <2>2
  <2>5. \A x \in Threads : cvar'[x] = cvar[x] \/ KnownAfter(cvar'[x])
    BY <1>14, <2>3
  <2>6. \A h \in Hooks : ctx'[h] = ctx[h] \/ ctx'[h] = None \/
           (/\ KnownAfter(ctx'[h].key)
            /\ ctx'[h].token \notin {None, Missing} => KnownAfter(ctx'[h].token.old))
    BY <1>14, <2>3
  <2> QED BY <1>13, <2>1, <2>4, <2>5, <2>6, KnownStep
<1>21. Explained(t)'
  BY <1>2, <1>13, <1>17, SameKey
<1>22. w = IF raised THEN "returned" ELSE "clearProgram"
  BY DEF w
<1>23. CASE call[t].excused
  <2>1. Kinded(t)' BY <1>2, <1>16, <1>23 DEF Kinded
  <2>2. ThreadOK(t)' BY <1>17, <1>21, <1>23, <2>1, ExcusedOK
  <2> QED BY <1>1, <1>13, <1>18, <1>19, <1>20, <2>2 DEF Moves
<1>24. CASE ~call[t].excused
  <2>1. /\ call'[t].kind = call[t].kind /\ call'[t].kind # "operator" /\ ~call'[t].excused
        /\ call'[t].ran = call[t].ran /\ call'[t].measured = call[t].measured
        /\ call'[t].before = call[t].before /\ call'[t].open = 0
        /\ call'[t].error = call'[t].failed
        /\ call'[t].added = (IF call[t].measured /\ call[t].ran THEN <<CallKey(t)>> ELSE << >>)
        /\ cvar'[t] = (IF call[t].measured /\ ~call[t].ran THEN None ELSE call[t].before)
    BY <1>7, <1>15, <1>24 DEF SameCall
  <2>2. call[t].ran => Remembered(t)' /\ CallKey(t)' = CallKey(t)
    BY <1>2, <1>7, <1>13, <1>17, <1>24, SameKey
  <2>3. Kinded(t)'
    BY <1>2, <1>17, <2>1 DEF Kinded, SameCall
  <2>4. Done(t)'
    BY <2>1, <2>2 DEF Done
  <2>5. Hooked(t)' /\ Keyed(t)' /\ Recorded(t)'
    <3>1. ~InContext(t)' /\ ~InVariant(t)' /\ pc'[t] \in {"clearProgram", "returned"}
      BY <1>18, <1>22 DEF InContext, InVariant
    <3>2. Hooked(t)' BY <2>1, <2>2, <3>1 DEF Hooked
    <3>3. Keyed(t)' BY <3>1 DEF Keyed
    <3>4. Recorded(t)' BY <2>1, <3>1 DEF Recorded, Own, Busy
    <3> QED BY <3>2, <3>3, <3>4
  <2>6. ThreadOK(t)'
    BY <1>21, <2>3, <2>4, <2>5 DEF ThreadOK
  <2> QED BY <1>1, <1>13, <1>18, <1>19, <1>20, <2>6 DEF Moves
<1> QED BY <1>2, <1>23, <1>24

-----------------------------------------------------------------------------
(* The invariant and what follows from it.                                 *)

(* Nothing is called and nobody profiles at first.                         *)
LEMMA InitInv == Init => IInv
<1> SUFFICES ASSUME Init PROVE IInv
  OBVIOUS
<1>1. \A t \in Threads : pc[t] = "idle" /\ call[t] = None /\ cvar[t] = None
  BY DEF Init
<1>2. ProfilerTypes /\ ProfilerInv
  <2>1. Cardinality({u \in Users : inside[u]}) = 0 /\ Cardinality(Users) \in Nat
    <3>1. inside \in [Users -> BOOLEAN] /\ \A u \in Users : ~inside[u] BY DEF Init
    <3> QED BY <3>1, InsidersCount, CallsAssumption, FS_CardinalityType
  <2>2. ProfilerTypes
    <3>1. upc \in [Users -> {"idle", "register", "enter", "unregister"}]
      BY DEF Init
    <3>2. /\ inside \in [Users -> BOOLEAN] /\ profiled = {} /\ session = FALSE
          /\ count = 0 /\ lock = None
      BY DEF Init
    <3>3. 0 \in 0 .. Cardinality(Users) BY <2>1
    <3>4. session \in BOOLEAN BY <3>2
    <3> QED BY <3>1, <3>2, <3>3, <3>4, Zenon DEF ProfilerTypes
  <2>3. InsideIsProfiled
    BY <2>1 DEF Init, InsideIsProfiled
  <2> QED BY <2>2, <2>3, CallsAssumption DEF Init, ProfilerInv
<1>3. CallTypes
  <2>1. /\ ctx \in [Hooks -> Managers \cup {None}]
        /\ cvar \in [Threads -> SourceKeys \cup {None}]
        /\ rooted \subseteq Pools /\ sources \subseteq SourceKeys
        /\ compiled \subseteq Pools \X Variants /\ failedOnce \subseteq Pools \X Variants
        /\ level \in BOOLEAN
        /\ call \in [Threads -> CallRecords \cup {None}]
    BY DEF Init
  <2>2. pc \in [Threads -> Places]
    BY DEF Init, Places
  <2>3. DOMAIN keyCache = Threads /\ \A t \in Threads : DOMAIN keyCache[t] = {}
    BY DEF Init
  <2> QED BY <1>1, <2>1, <2>2, <2>3 DEF CallTypes
<1>4. SoloInv /\ ThreadInv
  BY <1>1 DEF SoloInv, ThreadInv, ThreadOK, Own, Busy
<1>5. KeyCacheInv
  BY DEF Init, KeyCacheInv
<1>6. KnownInv
  BY <1>1 DEF Init, KnownInv, Known, KnownIn
<1> QED BY <1>2, <1>3, <1>4, <1>5, <1>6, InvSplit DEF CallsInv

(* The calls do not touch the profiler ...                                 *)
LEMMA ProfilerSame ==
  ASSUME ProfilerTypes, ProfilerInv, UNCHANGED profiler
  PROVE  ProfilerTypes' /\ ProfilerInv'
BY DEF profiler, ProfilerTypes, ProfilerInv, InsideIsProfiled, NobodyInside

(* ... nor the profiler the calls.                                         *)
LEMMA CallsSame ==
  ASSUME CallsInv, UNCHANGED calls
  PROVE  CallsInv'
<1>1. UNCHANGED <<cvar, keyCache, rooted, sources, ctx, level, compiled, failedOnce, pc, call>>
  BY DEF calls, metrics
<1>2. CallTypes' BY <1>1 DEF CallsInv, CallTypes
<1>3. SoloInv' BY <1>1 DEF CallsInv, SoloInv, Own, Busy
<1>4. KeyCacheInv' BY <1>1 DEF CallsInv, KeyCacheInv
<1>5. KnownInv' BY <1>1 DEF CallsInv, KnownInv, Known
<1>6. ThreadInv'
  <2> SUFFICES ASSUME NEW t \in Threads PROVE ThreadOK(t)'
    BY DEF ThreadInv
  <2>1. ThreadOK(t) BY DEF CallsInv, ThreadInv
  <2>2. /\ Own(t)' = Own(t) /\ InContext(t)' = InContext(t) /\ InVariant(t)' = InVariant(t)
        /\ CallKey(t)' = CallKey(t) /\ Remembered(t)' = Remembered(t)
        /\ VariantHook(t)' = VariantHook(t)
    BY <1>1 DEF Own, Busy, InContext, InVariant, CallKey, Remembered, VariantHook
  <2>3. ProgramRange(t)' = ProgramRange(t) /\ VariantRange(t)' = VariantRange(t)
    BY <1>1, <2>2 DEF ProgramRange, VariantRange
  <2>4. Kinded(t)' = Kinded(t) BY <1>1 DEF Kinded
  <2>5. Hooked(t)' = Hooked(t) BY <1>1, <2>2 DEF Hooked
  <2>6. Keyed(t)' = Keyed(t) BY <1>1, <2>2 DEF Keyed
  <2>7. Recorded(t)' = Recorded(t) BY <1>1, <2>2, <2>3 DEF Recorded
  <2>8. Done(t)' = Done(t) BY <1>1, <2>2 DEF Done
  <2>9. Explained(t)' = Explained(t) BY <1>1, <2>2 DEF Explained
  <2> QED BY <1>1, <2>1, <2>4, <2>5, <2>6, <2>7, <2>8, <2>9 DEF ThreadOK
<1> QED BY <1>2, <1>3, <1>4, <1>5, <1>6 DEF CallsInv

(* Every step keeps the invariant.                                         *)
LEMMA NextInv == IInv /\ Next => IInv'
<1> SUFFICES ASSUME IInv, Next PROVE IInv'
  OBVIOUS
<1>1. ProfilerTypes /\ ProfilerInv /\ CallsInv
  BY InvSplit
<1>2. (ProfilerTypes /\ ProfilerInv /\ CallsInv)' => IInv'
  BY DEF IInv, TypeOK, ProfilerTypes, CallTypes, CallsInv
<1>3. ASSUME NEW t \in Threads, Moves(t), UNCHANGED profiler PROVE IInv'
  BY <1>1, <1>2, <1>3, MovesInv, ProfilerSame
<1>4. ASSUME NEW t \in Threads, NEW p \in Pools, NEW v \in Variants,
             NEW kind \in KindsOf[t] \ {"embedded"}, Call(t, kind, p, v)
      PROVE  IInv'
  <2>1. kind \in Kinds BY CallsAssumption
  <2>2. Moves(t) BY <1>1, <1>4, <2>1, CallMoves
  <2>3. UNCHANGED profiler BY <1>4 DEF Call
  <2> QED BY <1>3, <2>2, <2>3
<1>5. ASSUME NEW t \in Threads, Call(t, "embedded", None, None)
      PROVE  IInv'
  <2>1. "embedded" \in Kinds BY DEF Kinds
  <2>2. Moves(t) BY <1>1, <1>5, <2>1, CallMoves
  <2>3. UNCHANGED profiler BY <1>5 DEF Call
  <2> QED BY <1>3, <2>2, <2>3
<1>6. ASSUME NEW t \in Threads, NEW p \in Pools, NEW v \in Variants, Precompile(t, p, v)
      PROVE  IInv'
  <2>1. UNCHANGED profiler BY <1>6 DEF Precompile
  <2> QED BY <1>1, <1>3, <1>6, <2>1, PrecompileMoves
<1>7. ASSUME NEW t \in Threads, Step(t) PROVE IInv'
  <2>1. UNCHANGED profiler
    BY <1>7 DEF Step, EnterProgram, Jit, Refuse, Open, EnterVariant, Run, ClearVariant,
                ExitProgram, ClearProgram, Return
  <2>2. Moves(t)
    BY <1>1, <1>7, EnterProgramMoves, JitMoves, RefuseMoves, OpenMoves, EnterVariantMoves,
       RunMoves, ClearVariantMoves, ExitProgramMoves, ClearProgramMoves, ReturnMoves DEF Step
  <2> QED BY <1>3, <2>1, <2>2
<1>8. ASSUME NEW u \in Users, UserStep(u) PROVE IInv'
  <2>1. ProfilerTypes' /\ ProfilerInv' /\ UNCHANGED calls
    BY <1>1, <1>8, UserStepInv
  <2> QED BY <1>1, <1>2, <2>1, CallsSame
<1>9. ASSUME SetLevel PROVE IInv'
  <2>1. UNCHANGED profiler BY <1>9 DEF SetLevel
  <2> QED BY <1>1, <1>2, <1>9, <2>1, SetLevelInv, ProfilerSame
<1> QED BY <1>4, <1>5, <1>6, <1>7, <1>8, <1>9 DEF Next

(* So does a step of something else.                                       *)
LEMMA StutterInv == IInv /\ UNCHANGED vars => IInv'
<1> SUFFICES ASSUME IInv, UNCHANGED vars PROVE IInv'
  OBVIOUS
<1>1. UNCHANGED profiler /\ UNCHANGED calls
  BY DEF vars, calls
<1>2. (ProfilerTypes /\ ProfilerInv /\ CallsInv)'
  BY <1>1, InvSplit, ProfilerSame, CallsSame
<1> QED BY <1>2 DEF IInv, TypeOK, ProfilerTypes, CallTypes, CallsInv

(* The invariant holds of every behaviour.                                 *)
LEMMA Invariance == Spec => []IInv
<1>1. IInv /\ [Next]_vars => IInv'
  BY NextInv, StutterInv
<1> QED BY <1>1, InitInv, PTL DEF Spec

(* Every variable keeps its type, whatever the calls, the users of the     *)
(* profiler and their interleaving: at most two time ranges are open in a  *)
(* call, and a call adds at most one sample.                               *)
THEOREM TypeCorrect == Spec => []TypeOK
<1>1. IInv => TypeOK BY DEF IInv
<1> QED BY <1>1, Invariance, PTL

(* The facts about a call on its own that has returned.                    *)
LEMMA CleanCall ==
  ASSUME IInv, NEW t \in Threads, Clean(t)
  PROVE  Done(t) /\ call[t].kind \in Kinds /\ ~call[t].excused /\ pc[t] = "returned"
<1>1. pc[t] = "returned" /\ ~call[t].excused
  BY DEF Clean
<1>2. CallsInv BY InvSplit
<1>3. call[t] \in CallRecords /\ Done(t)
  BY <1>1, <1>2, InProgress
<1> QED BY <1>1, <1>3, CallRecordsAre

(* A program call on its own adds one sample under the key of its variant  *)
(* if it got that far, and other calls add none.                           *)
THEOREM OneSamplePerCall == Spec => []SampledOnce
<1>1. ASSUME IInv, NEW t \in Threads, Clean(t)
      PROVE  call[t].added =
               IF call[t].kind # "operator" /\ call[t].measured /\ call[t].ran
                 THEN <<IF call[t].kind = "embedded" THEN EmbeddedKey
                        ELSE KeyOf(t, call[t].pool, call[t].variant)>>
                 ELSE << >>
  <2>1. Done(t) /\ ~call[t].excused /\ pc[t] = "returned"
    BY <1>1, CleanCall
  <2>2. call[t].ran => Remembered(t)
    BY <2>1 DEF Done
  <2>3. call[t].ran =>
          CallKey(t) = IF call[t].kind = "embedded" THEN EmbeddedKey
                       ELSE KeyOf(t, call[t].pool, call[t].variant)
    BY <2>2 DEF CallKey, Remembered, KeyOf
  <2> QED BY <2>1, <2>3 DEF Done
<1>2. IInv => SampledOnce
  BY <1>1 DEF SampledOnce
<1> QED BY <1>2, Invariance, PTL

(* A program call on its own leaves the source key that it found, and the  *)
(* collector unsets the one that the context of the variant has left; a    *)
(* measured call that never reached its variant leaves none.               *)
THEOREM KeyIsRestored == Spec => []KeyIsUnset
<1>1. IInv => KeyIsUnset
  BY CleanCall DEF KeyIsUnset, Done
<1> QED BY <1>1, Invariance, PTL

(* Only the exit of the program context leads a thread out of it.          *)
LEMMA WhoExits ==
  ASSUME CallTypes, Next, NEW t \in Threads, pc[t] = "exitProgram", pc'[t] # "exitProgram"
  PROVE  ExitProgram(t)
<1> USE DEF CallTypes
<1>1. ASSUME NEW u \in Threads, Step(u) PROVE ExitProgram(t)
  <2>1. \E w : pc' = [pc EXCEPT ![u] = w]
    <3>1. CASE EnterProgram(u) BY <3>1 DEF EnterProgram
    <3>2. CASE Jit(u)
      <4>1. pc' = pc => pc' = [pc EXCEPT ![u] = pc[u]] OBVIOUS
      <4> QED BY <3>2, <4>1 DEF Jit, Unwind
    <3>3. CASE Refuse(u) BY <3>3 DEF Refuse, Unwind
    <3>4. CASE Open(u) BY <3>4 DEF Open
    <3>5. CASE EnterVariant(u) BY <3>5 DEF EnterVariant
    <3>6. CASE Run(u) BY <3>6 DEF Run
    <3>7. CASE ClearVariant(u) BY <3>7 DEF ClearVariant
    <3>8. CASE ExitProgram(u) BY <3>8 DEF ExitProgram
    <3>9. CASE ClearProgram(u) BY <3>9 DEF ClearProgram
    <3>10. CASE Return(u) BY <3>10 DEF Return
    <3> QED BY <1>1, <3>1, <3>2, <3>3, <3>4, <3>5, <3>6, <3>7, <3>8, <3>9, <3>10 DEF Step
  <2>2. u = t BY <2>1
  <2>3. ~(\/ EnterProgram(t) \/ Jit(t) \/ Refuse(t) \/ Open(t) \/ EnterVariant(t)
          \/ Run(t) \/ ClearVariant(t) \/ ClearProgram(t) \/ Return(t))
    BY DEF EnterProgram, Jit, Refuse, Open, EnterVariant, Run, ClearVariant, ClearProgram, Return
  <2> QED BY <1>1, <2>2, <2>3 DEF Step
<1>2. ASSUME NEW u \in Threads, NEW kind, NEW p, NEW v, Call(u, kind, p, v)
      PROVE  FALSE
  BY <1>2 DEF Call
<1>3. ASSUME NEW u \in Threads, NEW p, NEW v, Precompile(u, p, v) PROVE FALSE
  BY <1>3 DEF Precompile
<1>4. ASSUME NEW u \in Users, UserStep(u) PROVE FALSE
  BY <1>4 DEF UserStep, StartFirst, RegisterSecond, EnterSession, StartAgain, Stop,
              UnregisterFirst, calls
<1>5. CASE SetLevel BY <1>5 DEF SetLevel
<1> QED BY <1>1, <1>2, <1>3, <1>4, <1>5 DEF Next

(* A call on its own raises only if it failed itself: what mixed-up or     *)
(* failed calls before it have left in the hook objects and in the context *)
(* variable never makes BaseMetricsCollector.__exit__ raise.  It loses its *)
(* error to the assertion there if it was measured and never reached its   *)
(* variant, and in no other case.                                          *)
THEOREM ErrorsAreKept == Spec => ErrorIsKept
<1>1. ASSUME IInv, Next, NEW t \in Threads, pc[t] = "exitProgram", pc'[t] # "exitProgram",
             ~call[t].excused
      PROVE  /\ call'[t].error => call[t].failed
             /\ pc'[t] = "returned" <=> call[t].measured /\ ~call[t].ran
  <2> DEFINE ms == ctx["program"]
  <2>1. CallsInv BY <1>1, InvSplit
  <2>2. /\ CallTypes /\ call[t] \in CallRecords
        /\ Hooked(t) /\ Keyed(t)
    BY <1>1, <2>1, InProgress
  <2>3. ExitProgram(t) BY <1>1, <2>2, WhoExits
  <2>4. Own(t) /\ InContext(t) BY <1>1 DEF Own, InContext, Busy
  <2>5. /\ ms # None /\ call[t].measured = level /\ call[t].kind # "operator"
        /\ ms.token = (IF level THEN [thread |-> t, old |-> call[t].before, used |-> FALSE]
                                ELSE None)
        /\ call[t].ran => Remembered(t)
    BY <1>1, <2>2, <2>4 DEF Hooked
  <2>6. level => cvar[t] = IF call[t].ran THEN CallKey(t) ELSE None
    BY <1>1, <2>2, <2>4, <2>5 DEF Keyed
  <2>7. call[t].ran => CallKey(t) # None
    <3>1. CASE call[t].kind = "embedded"
      BY <3>1, EmbeddedKeyType DEF CallKey
    <3>2. CASE call[t].kind # "embedded"
      BY <2>2, <2>5, <3>2, CallsAssumption DEF CallKey, Remembered, CallTypes
    <3> QED BY <3>1, <3>2
  <2>8. PICK raised \in BOOLEAN :
          /\ pc' = [pc EXCEPT ![t] = IF raised THEN "returned" ELSE "clearProgram"]
          /\ CollectorExit(t, ms.token, raised)
    BY <2>3, <2>5 DEF ExitProgram
  <2>9. pc'[t] = IF raised THEN "returned" ELSE "clearProgram"
    BY <2>2, <2>8 DEF CallTypes
  <2>10. ~level => ~raised
    BY <2>5, <2>8, CallsAssumption DEF CollectorExit
  <2>11. level => ms.token \notin {None, Missing} /\ ms.token.thread = t /\ ~ms.token.used
    <3>1. call[t].before \in SourceKeys \cup {None} BY <2>2, CallRecordsAre
    <3>2. [thread |-> t, old |-> call[t].before, used |-> FALSE] \in Tokens
      BY <3>1 DEF Tokens
    <3>3. level => ms.token \in Tokens BY <2>5, <3>2
    <3>4. None \notin Tokens /\ Missing \notin Tokens BY CallsAssumption
    <3>5. level => ms.token.thread = t /\ ~ms.token.used BY <2>5
    <3> HIDE DEF ms
    <3> QED BY <3>3, <3>4, <3>5, Zenon
  <2>12. level /\ call[t].ran => ~raised
    BY <2>6, <2>7, <2>8, <2>11 DEF CollectorExit
  <2>13. level /\ ~call[t].ran => raised
    BY <2>6, <2>8, <2>11 DEF CollectorExit
  <2>14. pc'[t] = "returned" <=> call[t].measured /\ ~call[t].ran
    BY <2>5, <2>9, <2>10, <2>12, <2>13, Zenon
  <2>15. call'[t].excused = call[t].excused /\ call'[t].failed = call[t].failed
    <3>1. \A x, e, o : LET c == call[t]
                            y == [c EXCEPT !.open = o]
                            z == [c EXCEPT !.open = o, !.error = e]
                            w == [c EXCEPT !.open = o, !.added = x, !.error = e]
                        IN  /\ y.excused = c.excused /\ y.failed = c.failed
                            /\ z.excused = c.excused /\ z.failed = c.failed
                            /\ w.excused = c.excused /\ w.failed = c.failed
      BY <2>2, CallRecordsAre
    <3>2. PICK r : r.excused = call[t].excused /\ r.failed = call[t].failed /\ Note(t, r)
      <4>1. CASE Note(t, [call[t] EXCEPT !.open = Closed(t, "program")])
        BY <3>1, <4>1
      <4>2. CASE Note(t, [call[t] EXCEPT !.open = Closed(t, "program"), !.error = TRUE])
        BY <3>1, <4>2
      <4>3. CASE Note(t, [call[t] EXCEPT !.open = Closed(t, "program"),
                            !.added = call[t].added \o Samples(t),
                            !.error = call[t].error \/ raised])
        <5> DEFINE x == call[t].added \o Samples(t)  e == call[t].error \/ raised
        <5>1. Note(t, [call[t] EXCEPT !.open = Closed(t, "program"), !.added = x, !.error = e])
          BY <4>3
        <5> HIDE DEF x, e
        <5> QED BY <3>1, <5>1
      <4> QED BY <2>8, <4>1, <4>2, <4>3 DEF CollectorExit
    <3> QED BY <1>1, <2>2, <3>2 DEF Note, CallTypes
  <2>16. call'[t].error = call'[t].failed
    <3>1. ThreadOK(t)' BY <1>1, NextInv DEF IInv, ThreadInv
    <3>2. pc'[t] \in {"clearProgram", "returned"} /\ pc'[t] # "idle" BY <2>9
    <3> QED BY <1>1, <2>15, <3>1, <3>2 DEF ThreadOK, Done
  <2> QED BY <2>14, <2>15, <2>16
<1>2. IInv /\ [Next]_vars =>
        [\A t \in Threads :
           pc[t] = "exitProgram" /\ pc'[t] # "exitProgram" /\ ~call[t].excused =>
             /\ call'[t].error => call[t].failed
             /\ pc'[t] = "returned" <=> call[t].measured /\ ~call[t].ran]_vars
  BY <1>1
<1> QED BY <1>2, Invariance, PTL DEF Spec, ErrorIsKept

(* A call on its own closes the time ranges that it has opened, although   *)
(* the profiler may be started and stopped at any moment of it.            *)
THEOREM RangesBalance == Spec => []RangesAreClosed
<1>1. IInv => RangesAreClosed
  BY CleanCall DEF RangesAreClosed, Done
<1> QED BY <1>1, Invariance, PTL

(* The assertion of compile_variant_hook fails only after a failed         *)
(* compilation of the variant, or for a key that another pool has got,     *)
(* for any number of pools, variants and threads.                          *)
THEOREM TakenKeyIsExplained == Spec => []TakenKeyHasCause
<1>1. ASSUME IInv, NEW t \in Threads, call[t] # None, call[t].taken
      PROVE  LET p == call[t].pool  v == call[t].variant IN
             \/ <<p, v>> \in failedOnce
             \/ \E u \in Threads, q \in Pools \ {p} :
                  /\ <<q, v>> \in DOMAIN keyCache[u]
                  /\ keyCache[u][<<q, v>>] = KeyOf(t, p, v)
  <2>1. CallsInv BY <1>1, InvSplit
  <2>2. pc[t] # "idle"
    BY <1>1, <2>1 DEF CallsInv, CallTypes
  <2>3. Explained(t)
    BY <2>1, <2>2, InProgress
  <2>4. CallKey(t) = KeyOf(t, call[t].pool, call[t].variant)
    BY <1>1, <2>3 DEF Explained, Remembered, CallKey, KeyOf
  <2> QED BY <1>1, <2>3, <2>4 DEF Explained
<1>2. IInv => TakenKeyHasCause
  BY <1>1 DEF TakenKeyHasCause
<1> QED BY <1>2, Invariance, PTL

(* Whenever the profiler's lock is free, the hooks are registered exactly  *)
(* while a user is inside, and the count is the number of users inside,    *)
(* for any finite set of users and also if a session fails to start.       *)
THEOREM ProfilerCounts == Spec => []InsideIsProfiled
<1>1. IInv => InsideIsProfiled
  BY DEF IInv, ProfilerInv
<1> QED BY <1>1, Invariance, PTL
=============================================================================
