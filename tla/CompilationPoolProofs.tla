----------------------- MODULE CompilationPoolProofs -----------------------
(***************************************************************************)
(* Proofs about CompilationPool for any number of threads, pools, variants *)
(* and runners.                                                            *)
(***************************************************************************)
EXTENDS CompilationPool, TLAPS

USE DEF Statuses, Kinds, States, Labels, Outcomes

(* What a thread's locals hold at each point of its operation. *)
LocalsAt(t) ==
  /\ pc[t] \in {"lookup", "probe", "pop", "result", "load", "run", "exists",
                "runner", "submit", "store", "track", "eager"} =>
       var[t] \in Variants
  /\ pc[t] \in {"result", "load", "store", "track", "eager", "forget"} =>
       fut[t] \in Futures
  /\ pc[t] = "submit" => run[t] \in Runners

LocalsOK == \A t \in Threads : LocalsAt(t)

(* A thread's operation ends: its locals keep their types. *)
LEMMA ReturnOK ==
  ASSUME ThreadsTypeOK, NEW t \in Threads, NEW o \in Outcomes, Return(t, o)
  PROVE  ThreadsTypeOK'
BY DEF ThreadsTypeOK, Return, Goto

(* A thread's operation goes on with the locals it has. *)
LEMMA ContinueOK ==
  ASSUME ThreadsTypeOK, NEW t \in Threads, NEW l \in Labels, Goto(t, l),
         UNCHANGED Locals
  PROVE  ThreadsTypeOK'
BY DEF ThreadsTypeOK, Goto, Locals

(* Every step keeps the pools, the in-flight table, the futures and the
   runners within their types. *)
LEMMA SharedTypeStep == TypeOK /\ LocalsOK /\ [Next]_vars => SharedTypeOK'
<1> SUFFICES ASSUME SharedTypeOK, ThreadsTypeOK, LocalsOK, [Next]_vars
             PROVE  SharedTypeOK'
  BY DEF TypeOK
<1>1. SharedTypeOK'
  <2> USE ConstantsAssumption DEF SharedTypeOK, ThreadsTypeOK, At, Begin, pools, objects,
        history, threads
  <2>1. ASSUME NEW t \in Threads, Start(t) PROVE SharedTypeOK'
    <3>1. ASSUME NEW v \in Variants, NEW j \in {"on", "off"}, Call(t, v, j)
          PROVE  SharedTypeOK'
      BY <3>1 DEF Call
    <3>2. ASSUME NEW vs \in SUBSET Variants, Compile(t, vs) PROVE SharedTypeOK'
      BY <3>2 DEF Compile
    <3>3. CASE Wait(t)
      BY <3>3 DEF Wait
    <3> HIDE DEF SharedTypeOK, ThreadsTypeOK
    <3> QED BY <2>1, <3>1, <3>2, <3>3 DEF Start
  <2>2. ASSUME NEW t \in Threads, Step(t) PROVE SharedTypeOK'
    <3>0. LocalsAt(t) BY DEF LocalsOK
    <3>1. CASE Lookup(t) BY <3>1 DEF Lookup
    <3>2. CASE Probe(t) BY <3>2 DEF Probe
    <3>3. CASE Pop(t) BY <3>3 DEF Pop
    <3>4. CASE Result(t) BY <3>0, <3>4 DEF Result, LocalsAt
    <3>5. CASE Load(t) BY <3>0, <3>5 DEF Load, LocalsAt
    <3>6. CASE RunProgram(t) BY <3>6 DEF RunProgram
    <3>7. CASE NextVariant(t) BY <3>7 DEF NextVariant
    <3>8. CASE ExistingKey(t) BY <3>8 DEF ExistingKey
    <3>9. CASE GetDefaultRunner(t) BY <3>9, SMTT(30) DEF GetDefaultRunner
    <3>10. CASE Submit(t) BY <3>10 DEF Submit, NewFuture
    <3>11. CASE Store(t) BY <3>0, <3>11 DEF Store, LocalsAt
    <3>12. CASE EagerLoad(t) BY <3>0, <3>12 DEF EagerLoad, LocalsAt
    <3>13. CASE Track(t) BY <3>0, <3>13 DEF Track, LocalsAt
    <3>14. CASE Reset(t) BY <3>14 DEF Reset
    <3>15. CASE Drain(t) BY <3>15 DEF Drain
    <3>16. CASE Snapshot(t) BY <3>16 DEF Snapshot
    <3>17. CASE Collect(t) BY <3>17 DEF Collect
    <3>18. CASE Forget(t) BY <3>18 DEF Forget
    <3> HIDE DEF SharedTypeOK, ThreadsTypeOK
    <3> QED BY <2>2, <3>1, <3>2, <3>3, <3>4, <3>5, <3>6, <3>7, <3>8, <3>9, <3>10,
               <3>11, <3>12, <3>13, <3>14, <3>15, <3>16, <3>17, <3>18 DEF Step
  <2>3. ASSUME NEW f \in Futures, NEW s \in {"ok", "failed"}, WorkerFinish(f, s)
        PROVE  SharedTypeOK'
    BY <2>3 DEF WorkerFinish
  <2>4. ASSUME NEW r \in Runners, WorkerCrash(r) PROVE SharedTypeOK'
    BY <2>4 DEF WorkerCrash
  <2>5. CASE Memory
    <3>1. ASSUME NEW p \in Pools, DropPool(p) PROVE SharedTypeOK'
      BY <3>1 DEF DropPool
    <3>2. CASE CyclicGC BY <3>2 DEF CyclicGC
    <3>3. ASSUME NEW f \in Futures, Reclaim(f) PROVE SharedTypeOK'
      BY <3>3 DEF Reclaim
    <3>4. ASSUME NEW r \in Runners, ReclaimRunner(r) PROVE SharedTypeOK'
      BY <3>4 DEF ReclaimRunner
    <3> HIDE DEF SharedTypeOK, ThreadsTypeOK
    <3> QED BY <2>5, <3>1, <3>2, <3>3, <3>4 DEF Memory
  <2>6. CASE UNCHANGED vars
    BY <2>6 DEF vars
  <2> HIDE DEF SharedTypeOK, ThreadsTypeOK
  <2> QED BY <2>1, <2>2, <2>3, <2>4, <2>5, <2>6 DEF Next
<1> QED BY <1>1

(* Every step keeps the locals of the threads within their types. *)
LEMMA ThreadsTypeStep == TypeOK /\ LocalsOK /\ [Next]_vars => ThreadsTypeOK'
<1> SUFFICES ASSUME SharedTypeOK, ThreadsTypeOK, LocalsOK, [Next]_vars
             PROVE  ThreadsTypeOK'
  BY DEF TypeOK
<1>1. ThreadsTypeOK'
  <2> USE ConstantsAssumption DEF SharedTypeOK, ThreadsTypeOK, Begin, Goto, pools,
        objects, history, threads, Locals
  <2>1. ASSUME NEW t \in Threads, Start(t) PROVE ThreadsTypeOK'
    <3>1. ASSUME NEW v \in Variants, NEW j \in {"on", "off"}, Call(t, v, j)
          PROVE  ThreadsTypeOK'
      BY <3>1 DEF Call
    <3>2. ASSUME NEW vs \in SUBSET Variants, Compile(t, vs) PROVE ThreadsTypeOK'
      BY <3>2 DEF Compile
    <3>3. CASE Wait(t)
      BY <3>3 DEF Wait
    <3> HIDE DEF SharedTypeOK, ThreadsTypeOK
    <3> QED BY <2>1, <3>1, <3>2, <3>3 DEF Start
  <2>2. ASSUME NEW t \in Threads, Step(t) PROVE ThreadsTypeOK'
    <3>0. LocalsAt(t) BY DEF LocalsOK
    <3>1. CASE Lookup(t) BY <3>1, ReturnOK, ContinueOK DEF Lookup
    <3>2. CASE Probe(t) BY <3>2, ReturnOK, ContinueOK DEF Probe
    <3>3. CASE Pop(t)
      <4>1. CASE \E o \in Outcomes : Return(t, o) BY <4>1, ReturnOK
      <4>2. CASE ~\E o \in Outcomes : Return(t, o) 
        BY <3>0, <3>3, <4>2 DEF Pop, At, LocalsAt
      <4> QED BY <4>1, <4>2
    <3>4. CASE Result(t) BY <3>4, ReturnOK, ContinueOK DEF Result
    <3>5. CASE Load(t) BY <3>5, ReturnOK, ContinueOK DEF Load
    <3>6. CASE RunProgram(t) BY <3>6, ReturnOK, ContinueOK DEF RunProgram
    <3>7. CASE NextVariant(t) BY <3>7, ReturnOK, ContinueOK, SMTT(30) DEF NextVariant
    <3>8. CASE ExistingKey(t) BY <3>8, ReturnOK, ContinueOK DEF ExistingKey
    <3>9. CASE GetDefaultRunner(t)
      <4>1. run' \in [Threads -> Runners \cup {None}]
        BY <3>9 DEF GetDefaultRunner
      <4> QED BY <3>9, <4>1 DEF GetDefaultRunner
    <3>10. CASE Submit(t)
      <4>1. CASE \E o \in Outcomes : Return(t, o) BY <4>1, ReturnOK
      <4>2. CASE ~\E o \in Outcomes : Return(t, o)
        <5>1. fut' \in [Threads -> Futures \cup {None}] /\ Goto(t, "store")
          BY <3>0, <3>10, <4>2 DEF Submit, NewFuture, At, LocalsAt
        <5>2. UNCHANGED <<var, jit, run, todo, snap, failures, outcome>>
          BY <3>0, <3>10, <4>2 DEF Submit, At, LocalsAt
        <5> QED BY <5>1, <5>2
      <4> QED BY <4>1, <4>2
    <3>11. CASE Store(t) BY <3>11, ReturnOK, ContinueOK DEF Store
    <3>12. CASE EagerLoad(t)
      <4>1. CASE \E o \in Outcomes : Return(t, o) BY <4>1, ReturnOK
      <4>2. CASE ~\E o \in Outcomes : Return(t, o) BY <3>12, <4>2, SMTT(30) DEF EagerLoad, AfterCompile
      <4> QED BY <4>1, <4>2
    <3>13. CASE Track(t) BY <3>13, ReturnOK, ContinueOK DEF Track, AfterCompile
    <3>14. CASE Reset(t) BY <3>14, ReturnOK, ContinueOK DEF Reset
    <3>15. CASE Drain(t) BY <3>15, ReturnOK, ContinueOK DEF Drain
    <3>16. CASE Snapshot(t) BY <3>16, ReturnOK, ContinueOK DEF Snapshot
    <3>17. CASE Collect(t) BY <3>17, ReturnOK, ContinueOK DEF Collect
    <3>18. CASE Forget(t)
      <4>1. CASE \E o \in Outcomes : Return(t, o) BY <4>1, ReturnOK
      <4>2. CASE ~\E o \in Outcomes : Return(t, o) BY <3>18, <4>2, SMTT(30) DEF Forget, AfterCompile
      <4> QED BY <4>1, <4>2
    <3> HIDE DEF SharedTypeOK, ThreadsTypeOK
    <3> QED BY <2>2, <3>1, <3>2, <3>3, <3>4, <3>5, <3>6, <3>7, <3>8, <3>9, <3>10,
               <3>11, <3>12, <3>13, <3>14, <3>15, <3>16, <3>17, <3>18 DEF Step
  <2>3. ASSUME NEW f \in Futures, NEW s \in {"ok", "failed"}, WorkerFinish(f, s)
        PROVE  ThreadsTypeOK'
    BY <2>3 DEF WorkerFinish
  <2>4. ASSUME NEW r \in Runners, WorkerCrash(r) PROVE ThreadsTypeOK'
    BY <2>4 DEF WorkerCrash
  <2>5. CASE Memory
    <3>1. ASSUME NEW p \in Pools, DropPool(p) PROVE ThreadsTypeOK'
      BY <3>1 DEF DropPool
    <3>2. CASE CyclicGC BY <3>2 DEF CyclicGC
    <3>3. ASSUME NEW f \in Futures, Reclaim(f) PROVE ThreadsTypeOK'
      BY <3>3 DEF Reclaim
    <3>4. ASSUME NEW r \in Runners, ReclaimRunner(r) PROVE ThreadsTypeOK'
      BY <3>4 DEF ReclaimRunner
    <3> HIDE DEF SharedTypeOK, ThreadsTypeOK
    <3> QED BY <2>5, <3>1, <3>2, <3>3, <3>4 DEF Memory
  <2>6. CASE UNCHANGED vars
    BY <2>6 DEF vars
  <2> HIDE DEF SharedTypeOK, ThreadsTypeOK
  <2> QED BY <2>1, <2>2, <2>3, <2>4, <2>5, <2>6 DEF Next
<1> QED BY <1>1

(* Every step of compiled_program.py defines a local before it uses it. *)
LEMMA LocalsStep == TypeOK /\ LocalsOK /\ [Next]_vars => LocalsOK'
<1> SUFFICES ASSUME TypeOK, LocalsOK, [Next]_vars, NEW u \in Threads
             PROVE  LocalsAt(u)'
  BY DEF LocalsOK
<1> USE ConstantsAssumption DEF TypeOK, SharedTypeOK, ThreadsTypeOK, LocalsOK,
        LocalsAt, At, Goto, Return, Begin, Locals, pools,
        objects, history, threads
<1>1. LocalsAt(u)'
  <2>1. ASSUME NEW t \in Threads, Start(t) PROVE LocalsAt(u)'
    <3>1. ASSUME NEW v \in Variants, NEW j \in {"on", "off"}, Call(t, v, j)
          PROVE  LocalsAt(u)'
      BY <3>1 DEF Call
    <3>2. ASSUME NEW vs \in SUBSET Variants, Compile(t, vs) PROVE LocalsAt(u)'
      BY <3>2 DEF Compile
    <3>3. CASE Wait(t)
      BY <3>3 DEF Wait
    <3> HIDE DEF TypeOK
    <3> QED BY <2>1, <3>1, <3>2, <3>3 DEF Start
  <2>2. ASSUME NEW t \in Threads, Step(t) PROVE LocalsAt(u)'
    <3>1. CASE Lookup(t) BY <3>1 DEF Lookup
    <3>2. CASE Probe(t) BY <3>2 DEF Probe
    <3>3. CASE Pop(t) BY <3>3 DEF Pop
    <3>4. CASE Result(t) BY <3>4 DEF Result
    <3>5. CASE Load(t) BY <3>5 DEF Load
    <3>6. CASE RunProgram(t) BY <3>6 DEF RunProgram
    <3>7. CASE NextVariant(t) BY <3>7 DEF NextVariant
    <3>8. CASE ExistingKey(t) BY <3>8 DEF ExistingKey
    <3>9. CASE GetDefaultRunner(t) BY <3>9 DEF GetDefaultRunner
    <3>10. CASE Submit(t) BY <3>10 DEF Submit, NewFuture
    <3>11. CASE Store(t) BY <3>11 DEF Store
    <3>12. CASE EagerLoad(t) BY <3>12 DEF EagerLoad, AfterCompile
    <3>13. CASE Track(t) BY <3>13 DEF Track, AfterCompile
    <3>14. CASE Reset(t) BY <3>14 DEF Reset
    <3>15. CASE Drain(t) BY <3>15 DEF Drain
    <3>16. CASE Snapshot(t) BY <3>16 DEF Snapshot
    <3>17. CASE Collect(t) BY <3>17 DEF Collect
    <3>18. CASE Forget(t) BY <3>18 DEF Forget
    <3> HIDE DEF TypeOK
    <3> QED BY <2>2, <3>1, <3>2, <3>3, <3>4, <3>5, <3>6, <3>7, <3>8, <3>9, <3>10,
               <3>11, <3>12, <3>13, <3>14, <3>15, <3>16, <3>17, <3>18 DEF Step
  <2>3. ASSUME NEW f \in Futures, NEW s \in {"ok", "failed"}, WorkerFinish(f, s)
        PROVE  LocalsAt(u)'
    BY <2>3 DEF WorkerFinish
  <2>4. ASSUME NEW r \in Runners, WorkerCrash(r) PROVE LocalsAt(u)'
    BY <2>4 DEF WorkerCrash
  <2>5. CASE Memory
    <3>1. ASSUME NEW p \in Pools, DropPool(p) PROVE LocalsAt(u)'
      BY <3>1 DEF DropPool
    <3>2. CASE CyclicGC BY <3>2 DEF CyclicGC
    <3>3. ASSUME NEW f \in Futures, Reclaim(f) PROVE LocalsAt(u)'
      BY <3>3 DEF Reclaim
    <3>4. ASSUME NEW r \in Runners, ReclaimRunner(r) PROVE LocalsAt(u)'
      BY <3>4 DEF ReclaimRunner
    <3> HIDE DEF TypeOK
    <3> QED BY <2>5, <3>1, <3>2, <3>3, <3>4 DEF Memory
  <2>6. CASE UNCHANGED vars
    BY <2>6 DEF vars
  <2> HIDE DEF TypeOK
  <2> QED BY <2>1, <2>2, <2>3, <2>4, <2>5, <2>6 DEF Next
<1> QED BY <1>1

(* Type correctness: every operation of compiled_program.py and runners.py
   keeps the pools, the in-flight table, the runners and the locals of the
   threads within their types. *)
THEOREM TypeCorrect == Spec => []TypeOK
<1>1. Init => TypeOK /\ LocalsOK
  BY ConstantsAssumption DEF Init, TypeOK, SharedTypeOK, ThreadsTypeOK, LocalsOK, LocalsAt
<1>2. TypeOK /\ LocalsOK /\ [Next]_vars => TypeOK'
  BY SharedTypeStep, ThreadsTypeStep DEF TypeOK
<1> QED BY <1>1, <1>2, LocalsStep, PTL DEF Spec

-----------------------------------------------------------------------------
(***************************************************************************)
(* The inductive invariant behind the barrier.  A runner that still accepts *)
(* work is the default one, and an unresolved future sits in the executor  *)
(* of the default runner: a runner is discarded only once it is drained.   *)
(***************************************************************************)
RunnersInv ==
  /\ \A t \in Threads : pc[t] = "drain" <=> lock = t
  /\ lock # None => default # None /\ executor[default] = "shutdown"
  /\ default # None => kind[default] # "free"
  /\ \A t \in Threads : pc[t] = "submit" => kind[run[t]] # "free"
  /\ \A r \in Runners : kind[r] # "free" /\ executor[r] # "shutdown" => r = default
  /\ \A f \in Futures : status[f] = "pending" => on[f] # None /\ on[f] = default

(* A future that something refers to is never handed out again. *)
HeldInv ==
  /\ \A v \in Variants : jobs[v] # None => status[jobs[v]] # "free"
  /\ \A t \in Threads : fut[t] # None => status[fut[t]] # "free"
  /\ \A t \in Threads : \A f \in snap[t] \cup seen[t] : status[f] # "free"
  /\ \A f \in ongoing : status[f] # "free"

(* Past the drain, the jobs seen at the start of the wait are resolved. *)
WaitInv ==
  \A t \in Threads :
    pc[t] \in {"snapshot", "collect", "forget"} \/ outcome[t] \in {"waited", "waitFailed"} =>
      \A f \in seen[t] : status[f] # "pending"

(* Only a resolved future is removed from _ongoing_compilations. *)
ForgetInv == \A t \in Threads : pc[t] = "forget" => status[fut[t]] # "pending"

(* The default runner is drained before it is discarded. *)
LEMMA RunnersStep ==
  TypeOK /\ LocalsOK /\ RunnersInv /\ [Next]_vars => RunnersInv'
<1> SUFFICES ASSUME SharedTypeOK, ThreadsTypeOK, LocalsOK, RunnersInv,
                    [Next]_vars
             PROVE  RunnersInv'
  BY DEF TypeOK
<1>1. RunnersInv'
  <2> USE ConstantsAssumption DEF SharedTypeOK, ThreadsTypeOK, RunnersInv, LocalsAt, At,
        Goto, Return, Begin, Locals, pools, objects, history, threads
  <2>1. ASSUME NEW t \in Threads, Start(t) PROVE RunnersInv'
    <3>1. ASSUME NEW v \in Variants, NEW j \in {"on", "off"}, Call(t, v, j)
          PROVE  RunnersInv'
      BY <3>1 DEF Call
    <3>2. ASSUME NEW vs \in SUBSET Variants, Compile(t, vs) PROVE RunnersInv'
      BY <3>2 DEF Compile
    <3>3. CASE Wait(t)
      BY <3>3 DEF Wait
    <3> HIDE DEF SharedTypeOK, ThreadsTypeOK, RunnersInv
    <3> QED BY <2>1, <3>1, <3>2, <3>3 DEF Start
  <2>2. ASSUME NEW t \in Threads, Step(t) PROVE RunnersInv'
    <3>0. LocalsAt(t) BY DEF LocalsOK
    <3>1. CASE Lookup(t) BY <3>1, <3>0 DEF Lookup
    <3>2. CASE Probe(t) BY <3>2, <3>0 DEF Probe
    <3>3. CASE Pop(t) BY <3>3, <3>0 DEF Pop
    <3>4. CASE Result(t) BY <3>4, <3>0 DEF Result
    <3>5. CASE Load(t) BY <3>5, <3>0 DEF Load
    <3>6. CASE RunProgram(t) BY <3>6, <3>0 DEF RunProgram
    <3>7. CASE NextVariant(t)
      <4>1. UNCHANGED <<status, on, kind, executor, default, lock>>
        BY <3>7 DEF NextVariant
      <4>2. PICK l \in {"idle", "exists"} : pc' = [pc EXCEPT ![t] = l]
        BY <3>7 DEF NextVariant
      <4>3. \A u \in Threads : u # t => run'[u] = run[u]
        BY <3>7 DEF NextVariant
      <4> QED BY <3>7, <4>1, <4>2, <4>3 DEF NextVariant
    <3>8. CASE ExistingKey(t) BY <3>8, <3>0, SMTT(30) DEF ExistingKey
    <3>9. CASE GetDefaultRunner(t)
      <4>1. CASE default # None
        BY <3>9, <4>1 DEF GetDefaultRunner
      <4>2. CASE default = None
        <5>1. PICK r \in Runners, m \in Modes :
                /\ kind[r] = "free"
                /\ kind' = [kind EXCEPT ![r] = m]
                /\ executor' = [executor EXCEPT ![r] = "open"]
                /\ default' = r
                /\ run' = [run EXCEPT ![t] = r]
          BY <3>9, <4>2 DEF GetDefaultRunner
        <5>2. m # "free"
          OBVIOUS
        <5>3. UNCHANGED <<status, on, lock>> /\ lock = None
          BY <3>9 DEF GetDefaultRunner
        <5>4. pc' = [pc EXCEPT ![t] = "submit"] /\ pc[t] = "runner"
          BY <3>9 DEF GetDefaultRunner
        <5>5. \A q \in Runners : kind[q] # "free" => executor[q] = "shutdown"
          BY <4>2
        <5>6. \A f \in Futures : status[f] # "pending"
          BY <4>2
        <5> QED BY <5>1, <5>2, <5>3, <5>4, <5>5, <5>6
      <4> QED BY <4>1, <4>2
    <3>10. CASE Submit(t)
      <4>1. /\ UNCHANGED <<kind, executor, default, lock>>
            /\ pc[t] = "submit"
        BY <3>10 DEF Submit
      <4>2. PICK l \in {"idle", "store"} : pc' = [pc EXCEPT ![t] = l]
        BY <3>10 DEF Submit
      <4>3. \A u \in Threads : u # t => run'[u] = run[u]
        BY <3>10 DEF Submit
      <4>4. \/ UNCHANGED <<status, on>>
            \/ \E f \in Futures, s \in {"ok", "failed"} :
                 /\ status' = [status EXCEPT ![f] = s]
                 /\ on' = [on EXCEPT ![f] = None]
            \/ /\ executor[run[t]] = "open"
               /\ \E f \in Futures :
                    /\ status' = [status EXCEPT ![f] = "pending"]
                    /\ on' = [on EXCEPT ![f] = run[t]]
        BY <3>10 DEF Submit, NewFuture
      <4>5. \A f \in Futures : status'[f] = "pending" => on'[f] # None /\ on'[f] = default
        <5>1. run[t] \in Runners /\ kind[run[t]] # "free"
          BY <3>0, <4>1
        <5>2. executor[run[t]] = "open" => run[t] = default
          BY <5>1
        <5> QED BY <4>4, <5>1, <5>2
      <4> QED BY <4>1, <4>2, <4>3, <4>5
    <3>11. CASE Store(t) BY <3>11, <3>0 DEF Store
    <3>12. CASE EagerLoad(t)
      <4>1. UNCHANGED <<status, on, kind, executor, default, lock>>
        BY <3>12 DEF EagerLoad
      <4>2. PICK l \in {"idle", "lookup", "next"} : pc' = [pc EXCEPT ![t] = l]
        BY <3>12 DEF EagerLoad, AfterCompile
      <4>3. \A u \in Threads : u # t => run'[u] = run[u]
        BY <3>12 DEF EagerLoad, AfterCompile
      <4> QED BY <3>12, <4>1, <4>2, <4>3 DEF EagerLoad
    <3>13. CASE Track(t) BY <3>13, <3>0 DEF Track, AfterCompile
    <3>14. CASE Reset(t) BY <3>14, <3>0 DEF Reset
    <3>15. CASE Drain(t) BY <3>15, <3>0 DEF Drain, Pending
    <3>16. CASE Snapshot(t) BY <3>16, <3>0 DEF Snapshot, Alive
    <3>17. CASE Collect(t) BY <3>17, <3>0 DEF Collect
    <3>18. CASE Forget(t) BY <3>18, <3>0 DEF Forget
    <3> HIDE DEF SharedTypeOK, ThreadsTypeOK, RunnersInv
    <3> QED BY <2>2, <3>1, <3>2, <3>3, <3>4, <3>5, <3>6, <3>7, <3>8, <3>9, <3>10,
               <3>11, <3>12, <3>13, <3>14, <3>15, <3>16, <3>17, <3>18 DEF Step
  <2>3. ASSUME NEW f \in Futures, NEW s \in {"ok", "failed"}, WorkerFinish(f, s)
        PROVE  RunnersInv'
    BY <2>3 DEF WorkerFinish
  <2>4. ASSUME NEW r \in Runners, WorkerCrash(r) PROVE RunnersInv'
    BY <2>4 DEF WorkerCrash, Pending
  <2>5. CASE Memory
    <3>1. ASSUME NEW p \in Pools, DropPool(p) PROVE RunnersInv'
      BY <3>1 DEF DropPool
    <3>2. CASE CyclicGC BY <3>2 DEF CyclicGC
    <3>3. ASSUME NEW f \in Futures, Reclaim(f) PROVE RunnersInv'
      BY <3>3 DEF Reclaim, Alive
    <3>4. ASSUME NEW r \in Runners, ReclaimRunner(r) PROVE RunnersInv'
      BY <3>4 DEF ReclaimRunner
    <3> HIDE DEF SharedTypeOK, ThreadsTypeOK, RunnersInv
    <3> QED BY <2>5, <3>1, <3>2, <3>3, <3>4 DEF Memory
  <2>6. CASE UNCHANGED vars
    BY <2>6 DEF vars
  <2> HIDE DEF SharedTypeOK, ThreadsTypeOK, RunnersInv
  <2> QED BY <2>1, <2>2, <2>3, <2>4, <2>5, <2>6 DEF Next
<1> QED BY <1>1

(* No step frees a future that is referenced, or refers to a free one. *)
LEMMA HeldStep ==
  TypeOK /\ LocalsOK /\ HeldInv /\ [Next]_vars => HeldInv'
<1> SUFFICES ASSUME SharedTypeOK, ThreadsTypeOK, LocalsOK, HeldInv,
                    [Next]_vars
             PROVE  HeldInv'
  BY DEF TypeOK
<1>1. HeldInv'
  <2> USE ConstantsAssumption DEF SharedTypeOK, ThreadsTypeOK, HeldInv, LocalsAt, At,
        Goto, Return, Begin, Locals, pools, objects, history, threads
  <2>1. ASSUME NEW t \in Threads, Start(t) PROVE HeldInv'
    <3>1. ASSUME NEW v \in Variants, NEW j \in {"on", "off"}, Call(t, v, j)
          PROVE  HeldInv'
      BY <3>1 DEF Call
    <3>2. ASSUME NEW vs \in SUBSET Variants, Compile(t, vs) PROVE HeldInv'
      BY <3>2 DEF Compile
    <3>3. CASE Wait(t)
      BY <3>3 DEF Wait
    <3> HIDE DEF SharedTypeOK, ThreadsTypeOK, HeldInv
    <3> QED BY <2>1, <3>1, <3>2, <3>3 DEF Start
  <2>2. ASSUME NEW t \in Threads, Step(t) PROVE HeldInv'
    <3>0. LocalsAt(t) BY DEF LocalsOK
    <3>1. CASE Lookup(t) BY <3>1, <3>0 DEF Lookup
    <3>2. CASE Probe(t)
      <4>1. \A f \in Futures : status[f] # "free" => status'[f] # "free"
        BY <3>2 DEF Probe
      <4>2. \A u \in Threads : fut'[u] = None \/ fut'[u] = fut[u]
                               \/ (fut'[u] \in Futures /\ status'[fut'[u]] # "free")
        BY <3>0, <3>2 DEF Probe
      <4>3. \A u \in Threads : snap'[u] \subseteq snap[u] /\ seen'[u] = seen[u]
        BY <3>2 DEF Probe
      <4>4. (\A v \in Variants : jobs'[v] \in {None, jobs[v]}) /\ ongoing' = ongoing
        BY <3>0, <3>2 DEF Probe
      <4> QED BY <4>1, <4>2, <4>3, <4>4
    <3>3. CASE Pop(t)
      <4>1. \A f \in Futures : status[f] # "free" => status'[f] # "free"
        BY <3>3 DEF Pop
      <4>2. \A u \in Threads : fut'[u] = None \/ fut'[u] = fut[u]
                               \/ (fut'[u] \in Futures /\ status'[fut'[u]] # "free")
        BY <3>0, <3>3 DEF Pop
      <4>3. \A u \in Threads : snap'[u] \subseteq snap[u] /\ seen'[u] = seen[u]
        BY <3>3 DEF Pop
      <4>4. (\A v \in Variants : jobs'[v] \in {None, jobs[v]}) /\ ongoing' = ongoing
        BY <3>0, <3>3 DEF Pop
      <4> QED BY <4>1, <4>2, <4>3, <4>4
    <3>4. CASE Result(t)
      <4>1. \A f \in Futures : status[f] # "free" => status'[f] # "free"
        BY <3>4 DEF Result
      <4>2. \A u \in Threads : fut'[u] = None \/ fut'[u] = fut[u]
                               \/ (fut'[u] \in Futures /\ status'[fut'[u]] # "free")
        BY <3>0, <3>4 DEF Result
      <4>3. \A u \in Threads : snap'[u] \subseteq snap[u] /\ seen'[u] = seen[u]
        BY <3>4 DEF Result
      <4>4. (\A v \in Variants : jobs'[v] \in {None, jobs[v]}) /\ ongoing' = ongoing
        BY <3>0, <3>4 DEF Result
      <4> QED BY <4>1, <4>2, <4>3, <4>4
    <3>5. CASE Load(t) BY <3>5, <3>0, SMTT(30) DEF Load
    <3>6. CASE RunProgram(t) BY <3>6, <3>0 DEF RunProgram
    <3>7. CASE NextVariant(t) BY <3>7, <3>0, SMTT(30) DEF NextVariant
    <3>8. CASE ExistingKey(t) BY <3>8, <3>0, SMTT(30) DEF ExistingKey
    <3>9. CASE GetDefaultRunner(t) BY <3>9, <3>0 DEF GetDefaultRunner
    <3>10. CASE Submit(t)
      <4>1. \A f \in Futures : status[f] # "free" => status'[f] # "free"
        BY <3>10 DEF Submit, NewFuture
      <4>2. \A u \in Threads : fut'[u] = None \/ fut'[u] = fut[u]
                               \/ (fut'[u] \in Futures /\ status'[fut'[u]] # "free")
        BY <3>0, <3>10 DEF Submit, NewFuture
      <4>3. \A u \in Threads : snap'[u] \subseteq snap[u] /\ seen'[u] = seen[u]
        BY <3>10, SMTT(30) DEF Submit, NewFuture
      <4>4. (\A v \in Variants : jobs'[v] \in {None, jobs[v]}) /\ ongoing' = ongoing
        BY <3>0, <3>10 DEF Submit, NewFuture
      <4> QED BY <4>1, <4>2, <4>3, <4>4
    <3>11. CASE Store(t) BY <3>11, <3>0, SMTT(30) DEF Store
    <3>12. CASE EagerLoad(t)
      <4>1. \A f \in Futures : status[f] # "free" => status'[f] # "free"
        BY <3>12 DEF EagerLoad, AfterCompile
      <4>2. \A u \in Threads : fut'[u] = None \/ fut'[u] = fut[u]
                               \/ (fut'[u] \in Futures /\ status'[fut'[u]] # "free")
        BY <3>0, <3>12 DEF EagerLoad, AfterCompile
      <4>3. \A u \in Threads : snap'[u] \subseteq snap[u] /\ seen'[u] = seen[u]
        BY <3>12 DEF EagerLoad, AfterCompile
      <4>4. (\A v \in Variants : jobs'[v] \in {None, jobs[v]}) /\ ongoing' = ongoing
        BY <3>0, <3>12 DEF EagerLoad, AfterCompile
      <4> QED BY <4>1, <4>2, <4>3, <4>4
    <3>13. CASE Track(t) BY <3>13, <3>0 DEF Track, AfterCompile
    <3>14. CASE Reset(t) BY <3>14, <3>0 DEF Reset
    <3>15. CASE Drain(t) BY <3>15, <3>0 DEF Drain, Pending
    <3>16. CASE Snapshot(t) BY <3>16, <3>0 DEF Snapshot, Alive
    <3>17. CASE Collect(t) BY <3>17, <3>0, SMTT(30) DEF Collect
    <3>18. CASE Forget(t) BY <3>18, <3>0, SMTT(30) DEF Forget
    <3> HIDE DEF SharedTypeOK, ThreadsTypeOK, HeldInv
    <3> QED BY <2>2, <3>1, <3>2, <3>3, <3>4, <3>5, <3>6, <3>7, <3>8, <3>9, <3>10,
               <3>11, <3>12, <3>13, <3>14, <3>15, <3>16, <3>17, <3>18 DEF Step
  <2>3. ASSUME NEW f \in Futures, NEW s \in {"ok", "failed"}, WorkerFinish(f, s)
        PROVE  HeldInv'
    BY <2>3 DEF WorkerFinish
  <2>4. ASSUME NEW r \in Runners, WorkerCrash(r) PROVE HeldInv'
    BY <2>4 DEF WorkerCrash, Pending
  <2>5. CASE Memory
    <3>1. ASSUME NEW p \in Pools, DropPool(p) PROVE HeldInv'
      BY <3>1 DEF DropPool
    <3>2. CASE CyclicGC BY <3>2 DEF CyclicGC
    <3>3. ASSUME NEW f \in Futures, Reclaim(f) PROVE HeldInv'
      BY <3>3 DEF Reclaim, Alive
    <3>4. ASSUME NEW r \in Runners, ReclaimRunner(r) PROVE HeldInv'
      BY <3>4 DEF ReclaimRunner
    <3> HIDE DEF SharedTypeOK, ThreadsTypeOK, HeldInv
    <3> QED BY <2>5, <3>1, <3>2, <3>3, <3>4 DEF Memory
  <2>6. CASE UNCHANGED vars
    BY <2>6 DEF vars
  <2> HIDE DEF SharedTypeOK, ThreadsTypeOK, HeldInv
  <2> QED BY <2>1, <2>2, <2>3, <2>4, <2>5, <2>6 DEF Next
<1> QED BY <1>1

(* A wait gets past the drain only when nothing is unresolved. *)
LEMMA WaitStep ==
  TypeOK /\ LocalsOK /\ RunnersInv /\ HeldInv /\ WaitInv /\ [Next]_vars => WaitInv'
<1> SUFFICES ASSUME SharedTypeOK, ThreadsTypeOK, LocalsOK, RunnersInv, HeldInv, WaitInv,
                    [Next]_vars
             PROVE  WaitInv'
  BY DEF TypeOK
<1>1. WaitInv'
  <2> USE ConstantsAssumption DEF SharedTypeOK, ThreadsTypeOK, WaitInv, LocalsAt, At,
        Goto, Return, Begin, Locals, pools, objects, history, threads
  <2>1. ASSUME NEW t \in Threads, Start(t) PROVE WaitInv'
    <3>1. ASSUME NEW v \in Variants, NEW j \in {"on", "off"}, Call(t, v, j)
          PROVE  WaitInv'
      BY <3>1 DEF Call
    <3>2. ASSUME NEW vs \in SUBSET Variants, Compile(t, vs) PROVE WaitInv'
      BY <3>2 DEF Compile
    <3>3. CASE Wait(t)
      BY <3>3 DEF Wait
    <3> HIDE DEF SharedTypeOK, ThreadsTypeOK, WaitInv
    <3> QED BY <2>1, <3>1, <3>2, <3>3 DEF Start
  <2>2. ASSUME NEW t \in Threads, Step(t) PROVE WaitInv'
    <3>0. LocalsAt(t) BY DEF LocalsOK
    <3>1. CASE Lookup(t) BY <3>1, <3>0 DEF Lookup
    <3>2. CASE Probe(t) BY <3>2, <3>0 DEF Probe
    <3>3. CASE Pop(t) BY <3>3, <3>0 DEF Pop
    <3>4. CASE Result(t) BY <3>4, <3>0 DEF Result
    <3>5. CASE Load(t) BY <3>5, <3>0 DEF Load
    <3>6. CASE RunProgram(t) BY <3>6, <3>0 DEF RunProgram
    <3>7. CASE NextVariant(t) BY <3>7, <3>0 DEF NextVariant
    <3>8. CASE ExistingKey(t) BY <3>8, <3>0 DEF ExistingKey
    <3>9. CASE GetDefaultRunner(t) BY <3>9, <3>0 DEF GetDefaultRunner
    <3>10. CASE Submit(t)
      <4>1. \A f \in Futures : status[f] # "free" => status'[f] = status[f]
        BY <3>10 DEF Submit, NewFuture
      <4>2. PICK l \in {"idle", "store"} : pc' = [pc EXCEPT ![t] = l]
        BY <3>10 DEF Submit
      <4>3. \A u \in Threads : u # t => fut'[u] = fut[u] /\ outcome'[u] = outcome[u]
        BY <3>10 DEF Submit, NewFuture
      <4>4. outcome'[t] = outcome[t] \/ outcome'[t] \notin {"waited", "waitFailed"}
        BY <3>0, <3>10, SMTT(30) DEF Submit, NewFuture
      <4>5. UNCHANGED <<seen, jobs, ongoing>>
        BY <3>10 DEF Submit
      <4> QED BY <3>10, <4>1, <4>2, <4>3, <4>4, <4>5 DEF HeldInv, Submit
    <3>11. CASE Store(t) BY <3>11, <3>0 DEF Store
    <3>12. CASE EagerLoad(t) BY <3>12, <3>0 DEF EagerLoad, AfterCompile
    <3>13. CASE Track(t) BY <3>13, <3>0 DEF Track, AfterCompile
    <3>14. CASE Reset(t)
      <4>1. CASE default = None
        <5>1. \A f \in Futures : status[f] # "pending"
          BY <4>1 DEF RunnersInv
        <5>2. UNCHANGED <<status, seen, outcome>>
          BY <3>14 DEF Reset
        <5> QED BY <5>1, <5>2
      <4>2. CASE default # None
        BY <3>14, <4>2 DEF Reset
      <4> QED BY <4>1, <4>2
    <3>15. CASE Drain(t)
      <4>1. \A f \in Futures : status[f] # "pending"
        BY <3>15 DEF Drain, Pending, RunnersInv
      <4>2. UNCHANGED <<status, seen, outcome>>
        BY <3>15 DEF Drain
      <4> QED BY <4>1, <4>2
    <3>16. CASE Snapshot(t) BY <3>16, <3>0 DEF Snapshot, Alive
    <3>17. CASE Collect(t) BY <3>17, <3>0 DEF Collect
    <3>18. CASE Forget(t) BY <3>18, <3>0, SMTT(30) DEF Forget
    <3> HIDE DEF SharedTypeOK, ThreadsTypeOK, WaitInv
    <3> QED BY <2>2, <3>1, <3>2, <3>3, <3>4, <3>5, <3>6, <3>7, <3>8, <3>9, <3>10,
               <3>11, <3>12, <3>13, <3>14, <3>15, <3>16, <3>17, <3>18 DEF Step
  <2>3. ASSUME NEW f \in Futures, NEW s \in {"ok", "failed"}, WorkerFinish(f, s)
        PROVE  WaitInv'
    BY <2>3 DEF WorkerFinish
  <2>4. ASSUME NEW r \in Runners, WorkerCrash(r) PROVE WaitInv'
    BY <2>4 DEF WorkerCrash, Pending
  <2>5. CASE Memory
    <3>1. ASSUME NEW p \in Pools, DropPool(p) PROVE WaitInv'
      BY <3>1 DEF DropPool
    <3>2. CASE CyclicGC BY <3>2 DEF CyclicGC
    <3>3. ASSUME NEW f \in Futures, Reclaim(f) PROVE WaitInv'
      BY <3>3 DEF Reclaim, Alive
    <3>4. ASSUME NEW r \in Runners, ReclaimRunner(r) PROVE WaitInv'
      BY <3>4 DEF ReclaimRunner
    <3> HIDE DEF SharedTypeOK, ThreadsTypeOK, WaitInv
    <3> QED BY <2>5, <3>1, <3>2, <3>3, <3>4 DEF Memory
  <2>6. CASE UNCHANGED vars
    BY <2>6 DEF vars
  <2> HIDE DEF SharedTypeOK, ThreadsTypeOK, WaitInv
  <2> QED BY <2>1, <2>2, <2>3, <2>4, <2>5, <2>6 DEF Next
<1> QED BY <1>1

(* A resolved future stays resolved while a wait refers to it. *)
LEMMA ForgetStep ==
  TypeOK /\ LocalsOK /\ HeldInv /\ ForgetInv /\ [Next]_vars => ForgetInv'
<1> SUFFICES ASSUME SharedTypeOK, ThreadsTypeOK, LocalsOK, HeldInv, ForgetInv,
                    [Next]_vars
             PROVE  ForgetInv'
  BY DEF TypeOK
<1>1. ForgetInv'
  <2> USE ConstantsAssumption DEF SharedTypeOK, ThreadsTypeOK, ForgetInv, LocalsAt, At,
        Goto, Return, Begin, Locals, pools, objects, history, threads
  <2>1. ASSUME NEW t \in Threads, Start(t) PROVE ForgetInv'
    <3>1. ASSUME NEW v \in Variants, NEW j \in {"on", "off"}, Call(t, v, j)
          PROVE  ForgetInv'
      BY <3>1 DEF Call
    <3>2. ASSUME NEW vs \in SUBSET Variants, Compile(t, vs) PROVE ForgetInv'
      BY <3>2 DEF Compile
    <3>3. CASE Wait(t)
      BY <3>3 DEF Wait
    <3> HIDE DEF SharedTypeOK, ThreadsTypeOK, ForgetInv
    <3> QED BY <2>1, <3>1, <3>2, <3>3 DEF Start
  <2>2. ASSUME NEW t \in Threads, Step(t) PROVE ForgetInv'
    <3>0. LocalsAt(t) BY DEF LocalsOK
    <3>1. CASE Lookup(t) BY <3>1, <3>0 DEF Lookup
    <3>2. CASE Probe(t) BY <3>2, <3>0 DEF Probe
    <3>3. CASE Pop(t) BY <3>3, <3>0 DEF Pop
    <3>4. CASE Result(t) BY <3>4, <3>0 DEF Result
    <3>5. CASE Load(t) BY <3>5, <3>0 DEF Load
    <3>6. CASE RunProgram(t) BY <3>6, <3>0 DEF RunProgram
    <3>7. CASE NextVariant(t) BY <3>7, <3>0 DEF NextVariant
    <3>8. CASE ExistingKey(t) BY <3>8, <3>0 DEF ExistingKey
    <3>9. CASE GetDefaultRunner(t) BY <3>9, <3>0 DEF GetDefaultRunner
    <3>10. CASE Submit(t)
      <4>1. \A f \in Futures : status[f] # "free" => status'[f] = status[f]
        BY <3>10 DEF Submit, NewFuture
      <4>2. PICK l \in {"idle", "store"} : pc' = [pc EXCEPT ![t] = l]
        BY <3>10 DEF Submit
      <4>3. \A u \in Threads : u # t => fut'[u] = fut[u]
        BY <3>10 DEF Submit, NewFuture
      <4>4. UNCHANGED <<seen, jobs, ongoing>>
        BY <3>10 DEF Submit
      <4> QED BY <3>10, <4>1, <4>2, <4>3, <4>4, LocalsOK DEF HeldInv, LocalsOK, Submit
    <3>11. CASE Store(t) BY <3>11, <3>0 DEF Store
    <3>12. CASE EagerLoad(t) BY <3>12, <3>0 DEF EagerLoad, AfterCompile
    <3>13. CASE Track(t) BY <3>13, <3>0 DEF Track, AfterCompile
    <3>14. CASE Reset(t) BY <3>14, <3>0 DEF Reset
    <3>15. CASE Drain(t) BY <3>15, <3>0 DEF Drain, Pending
    <3>16. CASE Snapshot(t) BY <3>16, <3>0 DEF Snapshot, Alive
    <3>17. CASE Collect(t) BY <3>17, <3>0 DEF Collect
    <3>18. CASE Forget(t) BY <3>18, <3>0 DEF Forget
    <3> HIDE DEF SharedTypeOK, ThreadsTypeOK, ForgetInv
    <3> QED BY <2>2, <3>1, <3>2, <3>3, <3>4, <3>5, <3>6, <3>7, <3>8, <3>9, <3>10,
               <3>11, <3>12, <3>13, <3>14, <3>15, <3>16, <3>17, <3>18 DEF Step
  <2>3. ASSUME NEW f \in Futures, NEW s \in {"ok", "failed"}, WorkerFinish(f, s)
        PROVE  ForgetInv'
    BY <2>3 DEF WorkerFinish
  <2>4. ASSUME NEW r \in Runners, WorkerCrash(r) PROVE ForgetInv'
    <3>1. \A f \in Futures : status[f] # "pending" => status'[f] # "pending"
      BY <2>4 DEF WorkerCrash, Pending
    <3>2. UNCHANGED <<pc, fut>>
      BY <2>4 DEF WorkerCrash
    <3> QED BY <3>1, <3>2, LocalsOK DEF LocalsOK
  <2>5. CASE Memory
    <3>1. ASSUME NEW p \in Pools, DropPool(p) PROVE ForgetInv'
      BY <3>1 DEF DropPool
    <3>2. CASE CyclicGC BY <3>2 DEF CyclicGC
    <3>3. ASSUME NEW f \in Futures, Reclaim(f) PROVE ForgetInv'
      BY <3>3 DEF Reclaim, Alive
    <3>4. ASSUME NEW r \in Runners, ReclaimRunner(r) PROVE ForgetInv'
      BY <3>4 DEF ReclaimRunner
    <3> HIDE DEF SharedTypeOK, ThreadsTypeOK, ForgetInv
    <3> QED BY <2>5, <3>1, <3>2, <3>3, <3>4 DEF Memory
  <2>6. CASE UNCHANGED vars
    BY <2>6 DEF vars
  <2> HIDE DEF SharedTypeOK, ThreadsTypeOK, ForgetInv
  <2> QED BY <2>1, <2>2, <2>3, <2>4, <2>5, <2>6 DEF Next
<1> QED BY <1>1

(* Only a resolved future leaves the table of in-flight compilations. *)
LEMMA TrackedStep ==
  TypeOK /\ LocalsOK /\ HeldInv /\ ForgetInv /\ TrackedUntilDone /\ [Next]_vars => TrackedUntilDone'
<1> SUFFICES ASSUME SharedTypeOK, ThreadsTypeOK, LocalsOK, HeldInv, ForgetInv, TrackedUntilDone,
                    [Next]_vars
             PROVE  TrackedUntilDone'
  BY DEF TypeOK
<1>1. TrackedUntilDone'
  <2> USE ConstantsAssumption DEF SharedTypeOK, ThreadsTypeOK, TrackedUntilDone, LocalsAt, At,
        Goto, Return, Begin, Locals, pools, objects, history, threads
  <2>1. ASSUME NEW t \in Threads, Start(t) PROVE TrackedUntilDone'
    <3>1. ASSUME NEW v \in Variants, NEW j \in {"on", "off"}, Call(t, v, j)
          PROVE  TrackedUntilDone'
      BY <3>1 DEF Call
    <3>2. ASSUME NEW vs \in SUBSET Variants, Compile(t, vs) PROVE TrackedUntilDone'
      BY <3>2 DEF Compile
    <3>3. CASE Wait(t)
      BY <3>3 DEF Wait
    <3> HIDE DEF SharedTypeOK, ThreadsTypeOK, TrackedUntilDone
    <3> QED BY <2>1, <3>1, <3>2, <3>3 DEF Start
  <2>2. ASSUME NEW t \in Threads, Step(t) PROVE TrackedUntilDone'
    <3>0. LocalsAt(t) BY DEF LocalsOK
    <3>1. CASE Lookup(t) BY <3>1, <3>0 DEF Lookup
    <3>2. CASE Probe(t) BY <3>2, <3>0 DEF Probe
    <3>3. CASE Pop(t) BY <3>3, <3>0 DEF Pop
    <3>4. CASE Result(t) BY <3>4, <3>0 DEF Result
    <3>5. CASE Load(t) BY <3>5, <3>0 DEF Load
    <3>6. CASE RunProgram(t) BY <3>6, <3>0 DEF RunProgram
    <3>7. CASE NextVariant(t) BY <3>7, <3>0 DEF NextVariant
    <3>8. CASE ExistingKey(t) BY <3>8, <3>0 DEF ExistingKey
    <3>9. CASE GetDefaultRunner(t) BY <3>9, <3>0 DEF GetDefaultRunner
    <3>10. CASE Submit(t)
      <4>1. \A f \in Futures : status[f] # "free" => status'[f] = status[f]
        BY <3>10 DEF Submit, NewFuture
      <4>2. PICK l \in {"idle", "store"} : pc' = [pc EXCEPT ![t] = l]
        BY <3>10 DEF Submit
      <4>3. \A u \in Threads : u # t => fut'[u] = fut[u]
        BY <3>10 DEF Submit, NewFuture
      <4>4. UNCHANGED <<seen, jobs, ongoing>>
        BY <3>10 DEF Submit
      <4> QED BY <3>10, <4>1, <4>2, <4>3, <4>4 DEF HeldInv, Submit
    <3>11. CASE Store(t) BY <3>11, <3>0 DEF Store
    <3>12. CASE EagerLoad(t) BY <3>12, <3>0 DEF EagerLoad, AfterCompile
    <3>13. CASE Track(t) BY <3>13, <3>0 DEF Track, AfterCompile
    <3>14. CASE Reset(t) BY <3>14, <3>0 DEF Reset
    <3>15. CASE Drain(t) BY <3>15, <3>0 DEF Drain, Pending
    <3>16. CASE Snapshot(t) BY <3>16, <3>0 DEF Snapshot, Alive
    <3>17. CASE Collect(t) BY <3>17, <3>0 DEF Collect
    <3>18. CASE Forget(t)
      <4>1. \A f \in ongoing : f \in ongoing' \/ f = fut[t]
        BY <3>18 DEF Forget
      <4>2. status[fut[t]] # "pending"
        BY <3>18 DEF Forget, ForgetInv
      <4>3. UNCHANGED <<jobs, status>>
        BY <3>18 DEF Forget
      <4>4. PICK l \in {"idle", "collect"} : pc' = [pc EXCEPT ![t] = l]
        BY <3>18 DEF Forget
      <4>5. \A u \in Threads : u # t => fut'[u] = fut[u]
        BY <3>18 DEF Forget
      <4> QED BY <3>18, <4>1, <4>2, <4>3, <4>4, <4>5, SMTT(30) DEF Forget
    <3> HIDE DEF SharedTypeOK, ThreadsTypeOK, TrackedUntilDone
    <3> QED BY <2>2, <3>1, <3>2, <3>3, <3>4, <3>5, <3>6, <3>7, <3>8, <3>9, <3>10,
               <3>11, <3>12, <3>13, <3>14, <3>15, <3>16, <3>17, <3>18 DEF Step
  <2>3. ASSUME NEW f \in Futures, NEW s \in {"ok", "failed"}, WorkerFinish(f, s)
        PROVE  TrackedUntilDone'
    BY <2>3 DEF WorkerFinish
  <2>4. ASSUME NEW r \in Runners, WorkerCrash(r) PROVE TrackedUntilDone'
    BY <2>4 DEF WorkerCrash, Pending
  <2>5. CASE Memory
    <3>1. ASSUME NEW p \in Pools, DropPool(p) PROVE TrackedUntilDone'
      BY <3>1 DEF DropPool
    <3>2. CASE CyclicGC BY <3>2 DEF CyclicGC
    <3>3. ASSUME NEW f \in Futures, Reclaim(f) PROVE TrackedUntilDone'
      BY <3>3 DEF Reclaim, Alive
    <3>4. ASSUME NEW r \in Runners, ReclaimRunner(r) PROVE TrackedUntilDone'
      BY <3>4 DEF ReclaimRunner
    <3> HIDE DEF SharedTypeOK, ThreadsTypeOK, TrackedUntilDone
    <3> QED BY <2>5, <3>1, <3>2, <3>3, <3>4 DEF Memory
  <2>6. CASE UNCHANGED vars
    BY <2>6 DEF vars
  <2> HIDE DEF SharedTypeOK, ThreadsTypeOK, TrackedUntilDone
  <2> QED BY <2>1, <2>2, <2>3, <2>4, <2>5, <2>6 DEF Next
<1> QED BY <1>1

(* The conjunction of the above is inductive. *)
IInv ==
  /\ TypeOK /\ LocalsOK /\ RunnersInv /\ HeldInv
  /\ WaitInv /\ ForgetInv /\ TrackedUntilDone

(* Every behaviour of the pool satisfies the inductive invariant. *)
LEMMA Inductive == Spec => []IInv
<1>1. Init => IInv
  BY ConstantsAssumption DEF Init, IInv, TypeOK, SharedTypeOK, ThreadsTypeOK, LocalsOK,
     LocalsAt, RunnersInv, HeldInv, WaitInv, ForgetInv, TrackedUntilDone
<1>2. IInv /\ [Next]_vars => IInv'
  BY SharedTypeStep, ThreadsTypeStep, LocalsStep, RunnersStep, HeldStep, WaitStep,
     ForgetStep, TrackedStep DEF IInv, TypeOK
<1> QED BY <1>1, <1>2, PTL DEF Spec

(* wait_for_compilation is a barrier for any number of threads, programs and
   runners, also for a job that is submitted but not tracked yet: when it
   returns or raises, every job that a pool held when it was called is
   resolved. *)
THEOREM Barrier == Spec => []WaitIsBarrier
<1>1. IInv => WaitIsBarrier
  BY DEF IInv, WaitInv, WaitIsBarrier
<1> QED BY <1>1, Inductive, PTL

(* No unresolved job of a pool escapes wait_for_compilation: it stays tracked,
   or is about to be tracked by the thread that registered it. *)
THEOREM Tracked == Spec => []TrackedUntilDone
<1>1. IInv => TrackedUntilDone
  BY DEF IInv
<1> QED BY <1>1, Inductive, PTL

-----------------------------------------------------------------------------
(***************************************************************************)
(* What the callers of the compiled-programs pool may rely on, and under   *)
(* which discipline.  The pool and the table of ongoing compilations are   *)
(* plain dictionaries read and written without a lock, so that what a      *)
(* caller expects of them depends on who else uses them:                   *)
(*                                                                         *)
(*  - OneWaiter: at most one thread calls wait_for_compilation;            *)
(*  - Unshared: no two threads call or compile the same variant;           *)
(*  - SoleClient(w): only thread w uses the pools at all.                  *)
(*                                                                         *)
(* Each is a fact about the constants Callable and Waiters.  The workers,  *)
(* their crashes and the memory manager are never restricted.              *)
(***************************************************************************)

OneWaiter == \A t, u \in Waiters : t = u

Unshared ==
  \A t, u \in Threads : t # u => Callable[t] \cap Callable[u] = {}

SoleClient(w) ==
  \A t \in Threads : t # w => Callable[t] = {} /\ t \notin Waiters

-----------------------------------------------------------------------------
(* What a step may touch. *)

Environment ==
  \/ \E f \in Futures, s \in {"ok", "failed"} : WorkerFinish(f, s)
  \/ \E r \in Runners : WorkerCrash(r)
  \/ Memory

(* A step is one of a thread, of the environment, or none. *)
LEMMA StepKinds ==
  ASSUME [Next]_vars
  PROVE  \/ \E t \in Threads : Start(t) \/ Step(t)
         \/ Environment
         \/ UNCHANGED vars
BY DEF Next, Environment

(* The frame of a thread is as it was. *)
SameFrame(u) ==
  /\ pc'[u] = pc[u] /\ var'[u] = var[u] /\ jit'[u] = jit[u]
  /\ fut'[u] = fut[u] /\ run'[u] = run[u] /\ todo'[u] = todo[u]
  /\ snap'[u] = snap[u] /\ failures'[u] = failures[u]
  /\ outcome'[u] = outcome[u]

(* A thread changes its own frame only. *)
LEMMA OtherFrames ==
  ASSUME TypeOK, NEW t \in Threads, Start(t) \/ Step(t), NEW u \in Threads, u # t
  PROVE  SameFrame(u)
<1> USE DEF TypeOK, SharedTypeOK, ThreadsTypeOK, SameFrame, Goto, Return, Begin,
          Locals, pools, objects, history
<1>1. ASSUME NEW v \in Variants, NEW j \in {"on", "off"}, Call(t, v, j)
      PROVE  SameFrame(u)
  BY <1>1 DEF Call
<1>2. ASSUME NEW vs \in SUBSET Variants, Compile(t, vs)
      PROVE  SameFrame(u)
  BY <1>2 DEF Compile
<1>3. CASE Wait(t) BY <1>3 DEF Wait
<1>4. CASE Lookup(t) BY <1>4 DEF Lookup
<1>5. CASE Probe(t) BY <1>5 DEF Probe
<1>6. CASE Pop(t) BY <1>6 DEF Pop
<1>7. CASE Result(t) BY <1>7 DEF Result
<1>8. CASE Load(t) BY <1>8 DEF Load
<1>9. CASE RunProgram(t) BY <1>9 DEF RunProgram
<1>10. CASE NextVariant(t) BY <1>10 DEF NextVariant
<1>11. CASE ExistingKey(t) BY <1>11 DEF ExistingKey
<1>12. CASE GetDefaultRunner(t) BY <1>12 DEF GetDefaultRunner
<1>13. CASE Submit(t) BY <1>13 DEF Submit, NewFuture
<1>14. CASE Store(t) BY <1>14 DEF Store
<1>15. CASE EagerLoad(t) BY <1>15 DEF EagerLoad, AfterCompile
<1>16. CASE Track(t) BY <1>16 DEF Track, AfterCompile
<1>17. CASE Reset(t) BY <1>17 DEF Reset
<1>18. CASE Drain(t) BY <1>18 DEF Drain
<1>19. CASE Snapshot(t) BY <1>19 DEF Snapshot
<1>20. CASE Collect(t) BY <1>20 DEF Collect
<1>21. CASE Forget(t) BY <1>21 DEF Forget
<1> HIDE DEF SameFrame, TypeOK
<1> QED
  BY <1>1, <1>2, <1>3, <1>4, <1>5, <1>6, <1>7, <1>8, <1>9, <1>10, <1>11,
     <1>12, <1>13, <1>14, <1>15, <1>16, <1>17, <1>18, <1>19, <1>20, <1>21 DEF Start, Step

(* Workers and the memory manager change no frame. *)
LEMMA EnvironmentFrames ==
  ASSUME Environment, NEW u \in Threads
  PROVE  SameFrame(u)
BY DEF Environment, WorkerFinish, WorkerCrash, Memory, DropPool, CyclicGC, Reclaim,
   ReclaimRunner, threads, Locals, SameFrame

(* The points of an operation at which var holds the variant it is about. *)
Calling == {"lookup", "probe", "pop", "result", "load", "run", "exists",
            "runner", "submit", "store", "track", "eager"}

(* The entry of a pool for a variant is as it was. *)
SameEntry(v) == jobs'[v] = jobs[v] /\ (v \in compiled' <=> v \in compiled)

(* A thread changes the entry of its own variant only. *)
LEMMA OtherEntries ==
  ASSUME TypeOK, NEW t \in Threads, Start(t) \/ Step(t), NEW v \in Variants,
         pc[t] \notin Calling \/ v # var[t]
  PROVE  SameEntry(v)
<1> USE DEF TypeOK, SharedTypeOK, ThreadsTypeOK, SameEntry, Calling, At, Begin,
          pools, objects, history
<1>1. ASSUME NEW x \in Variants, NEW j \in {"on", "off"}, Call(t, x, j)
      PROVE  SameEntry(v)
  BY <1>1 DEF Call
<1>2. ASSUME NEW vs \in SUBSET Variants, Compile(t, vs)
      PROVE  SameEntry(v)
  BY <1>2 DEF Compile
<1>3. CASE Wait(t) BY <1>3 DEF Wait
<1>4. CASE Lookup(t) BY <1>4 DEF Lookup
<1>5. CASE Probe(t) BY <1>5 DEF Probe
<1>6. CASE Pop(t) BY <1>6 DEF Pop
<1>7. CASE Result(t) BY <1>7 DEF Result
<1>8. CASE Load(t) BY <1>8 DEF Load
<1>9. CASE RunProgram(t) BY <1>9 DEF RunProgram
<1>10. CASE NextVariant(t) BY <1>10 DEF NextVariant
<1>11. CASE ExistingKey(t) BY <1>11 DEF ExistingKey
<1>12. CASE GetDefaultRunner(t) BY <1>12 DEF GetDefaultRunner
<1>13. CASE Submit(t) BY <1>13 DEF Submit, NewFuture
<1>14. CASE Store(t) BY <1>14 DEF Store
<1>15. CASE EagerLoad(t) BY <1>15 DEF EagerLoad, AfterCompile
<1>16. CASE Track(t) BY <1>16 DEF Track, AfterCompile
<1>17. CASE Reset(t) BY <1>17 DEF Reset
<1>18. CASE Drain(t) BY <1>18 DEF Drain
<1>19. CASE Snapshot(t) BY <1>19 DEF Snapshot
<1>20. CASE Collect(t) BY <1>20 DEF Collect
<1>21. CASE Forget(t) BY <1>21 DEF Forget
<1> HIDE DEF SameEntry, TypeOK
<1> QED
  BY <1>1, <1>2, <1>3, <1>4, <1>5, <1>6, <1>7, <1>8, <1>9, <1>10, <1>11,
     <1>12, <1>13, <1>14, <1>15, <1>16, <1>17, <1>18, <1>19, <1>20, <1>21 DEF Start, Step

(* The memory manager drops no entry that a thread is working on, the workers
   touch none. *)
LEMMA EnvironmentEntries ==
  ASSUME TypeOK, Environment, NEW u \in Threads, pc[u] # "idle", var[u] \in Variants
  PROVE  SameEntry(var[u])
<1> USE DEF TypeOK, SharedTypeOK, ThreadsTypeOK, SameEntry, pools, objects
<1>1. ASSUME NEW p \in Pools, DropPool(p) PROVE SameEntry(var[u])
  BY <1>1 DEF DropPool, Uses
<1>2. CASE UNCHANGED <<compiled, jobs>>
  BY <1>2
<1> QED BY <1>1, <1>2 DEF Environment, WorkerFinish, WorkerCrash, Memory, CyclicGC,
        Reclaim, ReclaimRunner

-----------------------------------------------------------------------------
(* A thread works on its own variants, and only a waiter waits. *)

Waiting == {"reset", "drain", "snapshot", "collect", "forget"}

OwnerAt(t) ==
  /\ pc[t] \in Calling => var[t] \in Callable[t]
  /\ todo[t] \subseteq Callable[t]
  /\ pc[t] \in Waiting => t \in Waiters

OwnerInv == \A t \in Threads : OwnerAt(t)

(* The steps of an operation stay with the variants it was called with. *)
LEMMA OwnerStep == TypeOK /\ OwnerInv /\ [Next]_vars => OwnerInv'
<1> SUFFICES ASSUME TypeOK, OwnerInv, [Next]_vars, NEW u \in Threads
             PROVE  OwnerAt(u)'
  BY DEF OwnerInv
<1>0. OwnerAt(u)
  BY DEF OwnerInv
<1>1. ASSUME NEW t \in Threads, Start(t) \/ Step(t), u = t PROVE OwnerAt(t)'
  <2>0. OwnerAt(t)
    BY DEF OwnerInv
  <2> USE DEF TypeOK, SharedTypeOK, ThreadsTypeOK, OwnerAt, Calling, Waiting, At,
            Goto, Return, Begin, Locals
  <2>1. ASSUME NEW v \in Variants, NEW j \in {"on", "off"}, Call(t, v, j)
        PROVE  OwnerAt(t)'
    BY <2>1, <2>0 DEF Call
  <2>2. ASSUME NEW vs \in SUBSET Variants, Compile(t, vs)
        PROVE  OwnerAt(t)'
    BY <2>2, <2>0 DEF Compile
  <2>3. CASE Wait(t) BY <2>3, <2>0 DEF Wait
  <2>4. CASE Lookup(t) BY <2>4, <2>0 DEF Lookup
  <2>5. CASE Probe(t) BY <2>5, <2>0 DEF Probe
  <2>6. CASE Pop(t) BY <2>6, <2>0 DEF Pop
  <2>7. CASE Result(t) BY <2>7, <2>0 DEF Result
  <2>8. CASE Load(t) BY <2>8, <2>0 DEF Load
  <2>9. CASE RunProgram(t) BY <2>9, <2>0 DEF RunProgram
  <2>10. CASE NextVariant(t) BY <2>10, <2>0 DEF NextVariant
  <2>11. CASE ExistingKey(t) BY <2>11, <2>0 DEF ExistingKey
  <2>12. CASE GetDefaultRunner(t) BY <2>12, <2>0 DEF GetDefaultRunner
  <2>13. CASE Submit(t) BY <2>13, <2>0 DEF Submit, NewFuture
  <2>14. CASE Store(t) BY <2>14, <2>0 DEF Store
  <2>15. CASE EagerLoad(t) BY <2>15, <2>0 DEF EagerLoad, AfterCompile
  <2>16. CASE Track(t) BY <2>16, <2>0 DEF Track, AfterCompile
  <2>17. CASE Reset(t) BY <2>17, <2>0 DEF Reset
  <2>18. CASE Drain(t) BY <2>18, <2>0 DEF Drain
  <2>19. CASE Snapshot(t) BY <2>19, <2>0 DEF Snapshot
  <2>20. CASE Collect(t) BY <2>20, <2>0 DEF Collect
  <2>21. CASE Forget(t) BY <2>21, <2>0 DEF Forget
  <2> HIDE DEF OwnerAt, TypeOK
  <2> QED
    BY <1>1, <2>1, <2>2, <2>3, <2>4, <2>5, <2>6, <2>7, <2>8, <2>9, <2>10, <2>11,
       <2>12, <2>13, <2>14, <2>15, <2>16, <2>17, <2>18, <2>19, <2>20, <2>21 DEF Start, Step
<1>2. CASE SameFrame(u)
  BY <1>0, <1>2 DEF OwnerAt, SameFrame
<1>3. CASE UNCHANGED vars
  BY <1>0, <1>3 DEF OwnerAt, vars
<1> QED BY <1>1, <1>2, <1>3, StepKinds, OtherFrames, EnvironmentFrames

-----------------------------------------------------------------------------
(***************************************************************************)
(* What a thread may assume of the entry of its variant: nobody else       *)
(* changes it, so what it looked up is still true when it acts on it.      *)
(***************************************************************************)
Compiling == {"exists", "runner", "submit", "store", "eager", "track"}

EntryAt(t) ==
  /\ pc[t] \in {"runner", "submit", "store", "eager", "result", "load"} =>
       var[t] \notin compiled /\ jobs[var[t]] = None
  /\ pc[t] \in {"pop", "track"} => jobs[var[t]] # None
  /\ pc[t] = "probe" =>
       var[t] \notin compiled /\ (jit[t] = "again" => jobs[var[t]] # None)
  /\ pc[t] = "exists" /\ jit[t] # "off" =>
       var[t] \notin compiled /\ jobs[var[t]] = None
  /\ pc[t] = "lookup" /\ jit[t] = "again" =>
       var[t] \in compiled \/ jobs[var[t]] # None
  /\ pc[t] \in Compiling => jit[t] # "again"
  /\ pc[t] = "next" => jit[t] = "off"

EitherOr == \A v \in Variants : jobs[v] # None => v \notin compiled

EntryInv == EitherOr /\ \A t \in Threads : EntryAt(t)

(* The thread's own steps establish what its next step relies on. *)
LEMMA OwnEntry ==
  ASSUME TypeOK, LocalsOK, EitherOr, NEW t \in Threads, EntryAt(t), Start(t) \/ Step(t)
  PROVE  EntryAt(t)'
<1>0. LocalsAt(t)
  BY DEF LocalsOK
<1> USE ConstantsAssumption DEF TypeOK, SharedTypeOK, ThreadsTypeOK, EntryAt,
          LocalsAt, Compiling, At, Goto, Return, Begin, Locals, pools, objects,
          history
<1>1. ASSUME NEW v \in Variants, NEW j \in {"on", "off"}, Call(t, v, j)
      PROVE  EntryAt(t)'
  BY <1>1, <1>0 DEF Call
<1>2. ASSUME NEW vs \in SUBSET Variants, Compile(t, vs)
      PROVE  EntryAt(t)'
  BY <1>2, <1>0 DEF Compile
<1>3. CASE Wait(t) BY <1>3, <1>0 DEF Wait
<1>4. CASE Lookup(t) BY <1>4, <1>0 DEF Lookup
<1>5. CASE Probe(t) BY <1>5, <1>0 DEF Probe
<1>6. CASE Pop(t) BY <1>6, <1>0 DEF Pop
<1>7. CASE Result(t) BY <1>7, <1>0 DEF Result
<1>8. CASE Load(t) BY <1>8, <1>0 DEF Load
<1>9. CASE RunProgram(t) BY <1>9, <1>0 DEF RunProgram
<1>10. CASE NextVariant(t) BY <1>10, <1>0 DEF NextVariant
<1>11. CASE ExistingKey(t) BY <1>11, <1>0 DEF ExistingKey, IsExistingKey
<1>12. CASE GetDefaultRunner(t) BY <1>12, <1>0 DEF GetDefaultRunner
<1>13. CASE Submit(t) BY <1>13, <1>0 DEF Submit, NewFuture
<1>14. CASE Store(t) BY <1>14, <1>0 DEF Store
<1>15. CASE EagerLoad(t) BY <1>15, <1>0 DEF EagerLoad, AfterCompile
<1>16. CASE Track(t) BY <1>16, <1>0 DEF Track, AfterCompile
<1>17. CASE Reset(t) BY <1>17, <1>0 DEF Reset
<1>18. CASE Drain(t) BY <1>18, <1>0 DEF Drain
<1>19. CASE Snapshot(t) BY <1>19, <1>0 DEF Snapshot
<1>20. CASE Collect(t) BY <1>20, <1>0 DEF Collect
<1>21. CASE Forget(t) BY <1>21, <1>0 DEF Forget
<1> HIDE DEF EntryAt, TypeOK
<1> QED
  BY <1>1, <1>2, <1>3, <1>4, <1>5, <1>6, <1>7, <1>8, <1>9, <1>10, <1>11,
     <1>12, <1>13, <1>14, <1>15, <1>16, <1>17, <1>18, <1>19, <1>20, <1>21 DEF Start, Step

(* A program is in its pool as compiled or as a job, never as both. *)
LEMMA EitherOrStep ==
  ASSUME TypeOK, LocalsOK, EitherOr, NEW t \in Threads, EntryAt(t), Start(t) \/ Step(t)
  PROVE  EitherOr'
<1> SUFFICES ASSUME NEW v \in Variants, jobs'[v] # None PROVE v \notin compiled'
  BY DEF EitherOr
<1>1. CASE pc[t] \notin Calling \/ v # var[t]
  BY <1>1, OtherEntries DEF EitherOr, SameEntry
<1>2. CASE v = var[t] /\ pc[t] \in Calling
  <2>0. LocalsAt(t)
    BY DEF LocalsOK
  <2> USE ConstantsAssumption, <1>2 DEF TypeOK, SharedTypeOK, ThreadsTypeOK,
            EntryAt, EitherOr, LocalsAt, Calling, At, Begin, pools, objects, history
  <2>1. ASSUME NEW x \in Variants, NEW j \in {"on", "off"}, Call(t, x, j)
        PROVE  v \notin compiled'
    BY <2>1, <2>0 DEF Call
  <2>2. ASSUME NEW vs \in SUBSET Variants, Compile(t, vs)
        PROVE  v \notin compiled'
    BY <2>2, <2>0 DEF Compile
  <2>3. CASE Wait(t) BY <2>3, <2>0 DEF Wait
  <2>4. CASE Lookup(t) BY <2>4, <2>0 DEF Lookup
  <2>5. CASE Probe(t) BY <2>5, <2>0 DEF Probe
  <2>6. CASE Pop(t) BY <2>6, <2>0 DEF Pop
  <2>7. CASE Result(t) BY <2>7, <2>0 DEF Result
  <2>8. CASE Load(t) BY <2>8, <2>0 DEF Load
  <2>9. CASE RunProgram(t) BY <2>9, <2>0 DEF RunProgram
  <2>10. CASE NextVariant(t) BY <2>10, <2>0 DEF NextVariant
  <2>11. CASE ExistingKey(t) BY <2>11, <2>0 DEF ExistingKey
  <2>12. CASE GetDefaultRunner(t) BY <2>12, <2>0 DEF GetDefaultRunner
  <2>13. CASE Submit(t) BY <2>13, <2>0 DEF Submit, NewFuture
  <2>14. CASE Store(t) BY <2>14, <2>0 DEF Store
  <2>15. CASE EagerLoad(t) BY <2>15, <2>0 DEF EagerLoad, AfterCompile
  <2>16. CASE Track(t) BY <2>16, <2>0 DEF Track, AfterCompile
  <2>17. CASE Reset(t) BY <2>17, <2>0 DEF Reset
  <2>18. CASE Drain(t) BY <2>18, <2>0 DEF Drain
  <2>19. CASE Snapshot(t) BY <2>19, <2>0 DEF Snapshot
  <2>20. CASE Collect(t) BY <2>20, <2>0 DEF Collect
  <2>21. CASE Forget(t) BY <2>21, <2>0 DEF Forget
  <2> HIDE DEF EitherOr, TypeOK
  <2> QED
    BY <2>1, <2>2, <2>3, <2>4, <2>5, <2>6, <2>7, <2>8, <2>9, <2>10, <2>11,
       <2>12, <2>13, <2>14, <2>15, <2>16, <2>17, <2>18, <2>19, <2>20, <2>21 DEF Start, Step
<1> QED BY <1>1, <1>2

(* When no two threads share a variant, no step of another thread or of the
   environment invalidates what a thread looked up. *)
LEMMA EntryStep ==
  ASSUME Unshared
  PROVE  TypeOK /\ LocalsOK /\ OwnerInv /\ EntryInv /\ [Next]_vars => EntryInv'
<1> SUFFICES ASSUME TypeOK, LocalsOK, OwnerInv, EntryInv, [Next]_vars PROVE EntryInv'
  OBVIOUS
<1>1. EitherOr'
  <2>1. ASSUME NEW t \in Threads, Start(t) \/ Step(t) PROVE EitherOr'
    BY <2>1, EitherOrStep DEF EntryInv
  <2>2. CASE Environment
    <3>1. jobs \in [Variants -> Futures \cup {None}]
      BY DEF TypeOK, SharedTypeOK
    <3>2. ASSUME NEW p \in Pools, DropPool(p) PROVE EitherOr'
      BY <3>1, <3>2 DEF DropPool, EntryInv, EitherOr
    <3>3. CASE UNCHANGED <<compiled, jobs>>
      BY <3>3 DEF EntryInv, EitherOr
    <3> QED BY <2>2, <3>2, <3>3 DEF Environment, WorkerFinish, WorkerCrash, Memory,
            CyclicGC, Reclaim, ReclaimRunner, pools
  <2>3. CASE UNCHANGED vars
    BY <2>3 DEF vars, pools, EntryInv, EitherOr
  <2> QED BY <2>1, <2>2, <2>3, StepKinds
<1>2. ASSUME NEW u \in Threads PROVE EntryAt(u)'
  <2>0. EntryAt(u) /\ LocalsAt(u)
    BY DEF EntryInv, LocalsOK
  <2>1. ASSUME SameFrame(u), pc[u] \in Calling => SameEntry(var[u]) PROVE EntryAt(u)'
    BY <2>0, <2>1 DEF EntryAt, SameFrame, SameEntry, Calling, Compiling
  <2>2. ASSUME NEW t \in Threads, Start(t) \/ Step(t) PROVE EntryAt(u)'
    <3>1. CASE u = t
      BY <2>0, <2>2, <3>1, OwnEntry DEF EntryInv
    <3>2. CASE u # t
      <4>1. ASSUME pc[u] \in Calling PROVE SameEntry(var[u])
        <5>1. var[u] \in Callable[u] /\ var[u] \in Variants
          BY <2>0, <4>1 DEF OwnerInv, OwnerAt, LocalsAt, Calling
        <5>2. pc[t] \in Calling => var[t] # var[u]
          BY <3>2, <5>1 DEF OwnerInv, OwnerAt, Unshared
        <5> QED BY <2>2, <5>1, <5>2, OtherEntries
      <4>2. SameFrame(u)
        BY <2>2, <3>2, OtherFrames
      <4> QED BY <2>1, <4>1, <4>2
    <3> QED BY <3>1, <3>2
  <2>3. CASE Environment
    <3>1. ASSUME pc[u] \in Calling PROVE SameEntry(var[u])
      BY <2>0, <2>3, <3>1, EnvironmentEntries DEF Calling, LocalsAt
    <3> QED BY <2>1, <2>3, <3>1, EnvironmentFrames
  <2>4. CASE UNCHANGED vars
    BY <2>0, <2>4 DEF EntryAt, vars, pools
  <2> QED BY <2>2, <2>3, <2>4, StepKinds
<1> QED BY <1>1, <1>2 DEF EntryInv

-----------------------------------------------------------------------------
(***************************************************************************)
(* The table of ongoing compilations and the failures raised from it.  A   *)
(* future is tracked, then collected by a wait, then forgotten, and only   *)
(* then reported: with one waiter nothing is collected twice and nothing   *)
(* that is collected gets lost.                                            *)
(***************************************************************************)
TableApart ==
  /\ reported \cap ongoing = {}
  /\ \A f \in reported : status[f] # "free"
  /\ \A t \in Threads : \A f \in failures[t] : status[f] # "free"

(* A submitted future that is not tracked yet is known to its thread only. *)
Fresh(t) == pc[t] \in {"store", "track"}

FreshInv ==
  \A t \in Threads : Fresh(t) =>
    /\ fut[t] \notin ongoing \cup reported
    /\ \A u \in Threads : fut[t] \notin failures[u]
    /\ \A u \in Threads : u # t /\ Fresh(u) => fut[u] # fut[t]

(* Where a wait has got to. *)
CollectAt(t) ==
  /\ pc[t] \notin {"collect", "forget", "idle"} => failures[t] = {}
  /\ pc[t] \notin {"collect", "forget"} => snap[t] = {}
  /\ pc[t] = "idle" =>
       failures[t] \subseteq reported /\ (failures[t] # {} => outcome[t] = "waitFailed")
  /\ snap[t] \subseteq ongoing
  /\ pc[t] = "collect" => failures[t] \cap (ongoing \cup reported) = {}
  /\ pc[t] = "forget" =>
       /\ fut[t] \in snap[t]
       /\ failures[t] \cap reported = {}
       /\ failures[t] \cap ongoing \subseteq {fut[t]}
       /\ status[fut[t]] = "failed" => fut[t] \in failures[t]

TableInv == TableApart /\ FreshInv /\ \A t \in Threads : CollectAt(t)

(* Only the waiter's steps past the snapshot report or forget anything. *)
LEMMA ApartStep ==
  TypeOK /\ LocalsOK /\ HeldInv /\ TableInv /\ [Next]_vars => TableApart'
<1> SUFFICES ASSUME TypeOK, LocalsOK, HeldInv, TableInv, [Next]_vars PROVE TableApart'
  OBVIOUS
<1>1. ASSUME NEW t \in Threads, Start(t) \/ Step(t) PROVE TableApart'
  <2>0. LocalsAt(t) /\ CollectAt(t) /\ TableApart /\ FreshInv
    BY DEF LocalsOK, TableInv
  <2> USE ConstantsAssumption DEF TypeOK, SharedTypeOK, ThreadsTypeOK, TableApart,
            LocalsAt, At, Goto, Return, Begin, Locals, pools, objects, history
  <2>1. ASSUME NEW v \in Variants, NEW j \in {"on", "off"}, Call(t, v, j)
        PROVE  TableApart'
    BY <2>1, <2>0 DEF Call
  <2>2. ASSUME NEW vs \in SUBSET Variants, Compile(t, vs)
        PROVE  TableApart'
    BY <2>2, <2>0 DEF Compile
  <2>3. CASE Wait(t) BY <2>3, <2>0 DEF Wait
  <2>4. CASE Lookup(t) BY <2>4, <2>0 DEF Lookup
  <2>5. CASE Probe(t) BY <2>5, <2>0 DEF Probe
  <2>6. CASE Pop(t) BY <2>6, <2>0 DEF Pop
  <2>7. CASE Result(t) BY <2>7, <2>0 DEF Result
  <2>8. CASE Load(t) BY <2>8, <2>0 DEF Load
  <2>9. CASE RunProgram(t) BY <2>9, <2>0 DEF RunProgram
  <2>10. CASE NextVariant(t) BY <2>10, <2>0 DEF NextVariant
  <2>11. CASE ExistingKey(t) BY <2>11, <2>0 DEF ExistingKey
  <2>12. CASE GetDefaultRunner(t) BY <2>12, <2>0 DEF GetDefaultRunner
  <2>13. CASE Submit(t) BY <2>13, <2>0 DEF Submit, NewFuture
  <2>14. CASE Store(t) BY <2>14, <2>0 DEF Store
  <2>15. CASE EagerLoad(t) BY <2>15, <2>0 DEF EagerLoad, AfterCompile
  <2>16. CASE Track(t) BY <2>16, <2>0 DEF Track, AfterCompile, FreshInv, Fresh
  <2>17. CASE Reset(t) BY <2>17, <2>0 DEF Reset
  <2>18. CASE Drain(t) BY <2>18, <2>0 DEF Drain
  <2>19. CASE Snapshot(t) BY <2>19, <2>0 DEF Snapshot
  <2>20. CASE Collect(t) BY <2>20, <2>0 DEF Collect, CollectAt
  <2>21. CASE Forget(t) BY <2>21, <2>0 DEF Forget, CollectAt
  <2> HIDE DEF TableApart, TypeOK
  <2> QED
    BY <1>1, <2>1, <2>2, <2>3, <2>4, <2>5, <2>6, <2>7, <2>8, <2>9, <2>10, <2>11,
       <2>12, <2>13, <2>14, <2>15, <2>16, <2>17, <2>18, <2>19, <2>20, <2>21 DEF Start, Step
<1>2. CASE Environment
  <2>0. TableApart
    BY DEF TableInv
  <2> USE DEF TypeOK, SharedTypeOK, ThreadsTypeOK, TableApart, pools, objects,
            history, threads, Locals
  <2>1. ASSUME NEW f \in Futures, NEW s \in {"ok", "failed"}, WorkerFinish(f, s)
        PROVE  TableApart'
    BY <2>0, <2>1 DEF WorkerFinish
  <2>2. ASSUME NEW r \in Runners, WorkerCrash(r) PROVE TableApart'
    BY <2>0, <2>2 DEF WorkerCrash
  <2>3. ASSUME NEW p \in Pools, DropPool(p) PROVE TableApart'
    BY <2>0, <2>3 DEF DropPool
  <2>4. CASE CyclicGC
    BY <2>0, <2>4 DEF CyclicGC
  <2>5. ASSUME NEW f \in Futures, Reclaim(f) PROVE TableApart'
    BY <2>0, <2>5 DEF Reclaim
  <2>6. ASSUME NEW r \in Runners, ReclaimRunner(r) PROVE TableApart'
    BY <2>0, <2>6 DEF ReclaimRunner
  <2> HIDE DEF TableApart
  <2> QED BY <1>2, <2>1, <2>2, <2>3, <2>4, <2>5, <2>6 DEF Environment, Memory
<1>3. CASE UNCHANGED vars
  BY <1>3 DEF vars, pools, objects, history, TableInv, TableApart
<1> QED BY <1>1, <1>2, <1>3, StepKinds

(* No future becomes known to the table or to a wait that was not before, and
   no other one becomes fresh. *)
NothingNew(t) ==
  /\ ongoing' \subseteq ongoing
  /\ reported' \subseteq reported \cup failures[t]
  /\ failures'[t] \subseteq failures[t] \cup ongoing
  /\ Fresh(t)' => Fresh(t) /\ fut'[t] = fut[t]

(* Then the fresh futures stay known to their threads only. *)
LEMMA FreshKept ==
  ASSUME FreshInv, NEW t \in Threads, NothingNew(t),
         \A u \in Threads : u # t => SameFrame(u)
  PROVE  FreshInv'
<1>1. \A u \in Threads : Fresh(u)' => Fresh(u) /\ fut'[u] = fut[u]
  BY DEF NothingNew, SameFrame, Fresh
<1>2. \A u \in Threads : failures'[u] \subseteq failures[u] \cup ongoing
  BY DEF NothingNew, SameFrame
<1>3. ongoing' \cup reported' \subseteq ongoing \cup reported \cup failures[t]
  BY DEF NothingNew
<1> SUFFICES ASSUME NEW x \in Threads, Fresh(x)'
             PROVE  /\ fut'[x] \notin ongoing' \cup reported'
                    /\ \A u \in Threads : fut'[x] \notin failures'[u]
                    /\ \A u \in Threads : u # x /\ Fresh(u)' => fut'[u] # fut'[x]
  BY DEF FreshInv
<1>4. Fresh(x) /\ fut'[x] = fut[x]
  BY <1>1
<1>5. fut[x] \notin ongoing \cup reported /\ \A u \in Threads : fut[x] \notin failures[u]
  BY <1>4 DEF FreshInv
<1>6. ASSUME NEW u \in Threads, u # x, Fresh(u)' PROVE fut'[u] # fut'[x]
  BY <1>1, <1>4, <1>6 DEF FreshInv
<1> QED BY <1>2, <1>3, <1>4, <1>5, <1>6

(* A future that its thread has just submitted stays known to it only. *)
LEMMA FreshStep ==
  TypeOK /\ LocalsOK /\ HeldInv /\ TableInv /\ [Next]_vars => FreshInv'
<1> SUFFICES ASSUME TypeOK, LocalsOK, HeldInv, TableInv, [Next]_vars PROVE FreshInv'
  OBVIOUS
<1>1. ASSUME NEW t \in Threads, Start(t) \/ Step(t) PROVE FreshInv'
  <2>0. LocalsAt(t) /\ CollectAt(t) /\ TableApart /\ FreshInv
    BY DEF LocalsOK, TableInv
  <2>1. \A u \in Threads : u # t => SameFrame(u)
    BY <1>1, OtherFrames
  <2> USE ConstantsAssumption DEF TypeOK, SharedTypeOK, ThreadsTypeOK, Fresh,
            LocalsAt, At, Goto, Return, Begin, Locals, pools, objects, history
  <2>2. CASE Submit(t)
    <3>1. UNCHANGED <<ongoing, reported, failures>>
      BY <2>2 DEF Submit
    <3>2. CASE Goto(t, "idle")
      BY <2>0, <2>1, <3>1, <3>2, FreshKept DEF NothingNew
    <3>3. CASE Goto(t, "store") /\ \E f \in Futures :
                 status[f] = "free" /\ fut' = [fut EXCEPT ![t] = f]
      <4>1. PICK f \in Futures : status[f] = "free" /\ fut' = [fut EXCEPT ![t] = f]
        BY <3>3
      <4>2. f \notin ongoing \cup reported /\ \A u \in Threads : f \notin failures[u]
        BY <2>0, <4>1 DEF HeldInv, TableApart
      <4>3. \A u \in Threads : Fresh(u) => fut[u] # f
        BY <4>1 DEF HeldInv
      <4>4. \A u \in Threads : u # t => pc'[u] = pc[u] /\ fut'[u] = fut[u]
        BY <2>1 DEF SameFrame
      <4> QED BY <2>0, <3>1, <3>3, <4>1, <4>2, <4>3, <4>4 DEF FreshInv
    <3> QED BY <2>2, <3>2, <3>3 DEF Submit, NewFuture
  <2>3. CASE Track(t)
    <3>1. ongoing' = ongoing \cup {fut[t]} /\ UNCHANGED <<reported, failures>>
      BY <2>3 DEF Track, AfterCompile
    <3>2. Fresh(t) /\ ~Fresh(t)'
      BY <2>3 DEF Track, AfterCompile
    <3>3. \A u \in Threads : u # t => pc'[u] = pc[u] /\ fut'[u] = fut[u]
      BY <2>1 DEF SameFrame
    <3>4. \A u \in Threads : u # t /\ Fresh(u) => fut[u] # fut[t]
      BY <2>0, <3>2 DEF FreshInv
    <3> QED BY <2>0, <3>1, <3>2, <3>3, <3>4 DEF FreshInv
  <2>4. ASSUME ~Submit(t), ~Track(t) PROVE NothingNew(t)
    <3> USE DEF NothingNew
    <3>1. ASSUME NEW v \in Variants, NEW j \in {"on", "off"}, Call(t, v, j)
          PROVE  NothingNew(t)
      BY <3>1, <2>0 DEF Call
    <3>2. ASSUME NEW vs \in SUBSET Variants, Compile(t, vs)
          PROVE  NothingNew(t)
      BY <3>2, <2>0 DEF Compile
    <3>3. CASE Wait(t) BY <3>3, <2>0 DEF Wait
    <3>4. CASE Lookup(t) BY <3>4, <2>0 DEF Lookup
    <3>5. CASE Probe(t) BY <3>5, <2>0 DEF Probe
    <3>6. CASE Pop(t) BY <3>6, <2>0 DEF Pop
    <3>7. CASE Result(t) BY <3>7, <2>0 DEF Result
    <3>8. CASE Load(t) BY <3>8, <2>0 DEF Load
    <3>9. CASE RunProgram(t) BY <3>9, <2>0 DEF RunProgram
    <3>10. CASE NextVariant(t) BY <3>10, <2>0 DEF NextVariant
    <3>11. CASE ExistingKey(t) BY <3>11, <2>0 DEF ExistingKey
    <3>12. CASE GetDefaultRunner(t) BY <3>12, <2>0 DEF GetDefaultRunner
    <3>13. CASE Submit(t) BY <2>4, <3>13
    <3>14. CASE Store(t) BY <3>14, <2>0 DEF Store
    <3>15. CASE EagerLoad(t) BY <3>15, <2>0 DEF EagerLoad, AfterCompile
    <3>16. CASE Track(t) BY <2>4, <3>16
    <3>17. CASE Reset(t) BY <3>17, <2>0 DEF Reset
    <3>18. CASE Drain(t) BY <3>18, <2>0 DEF Drain
    <3>19. CASE Snapshot(t) BY <3>19, <2>0 DEF Snapshot
    <3>20. CASE Collect(t) BY <3>20, <2>0 DEF Collect, CollectAt
    <3>21. CASE Forget(t) BY <3>21, <2>0 DEF Forget
    <3> HIDE DEF NothingNew, TypeOK
    <3> QED
      BY <1>1, <3>1, <3>2, <3>3, <3>4, <3>5, <3>6, <3>7, <3>8, <3>9, <3>10, <3>11,
         <3>12, <3>13, <3>14, <3>15, <3>16, <3>17, <3>18, <3>19, <3>20, <3>21 DEF Start, Step
  <2> HIDE DEF TypeOK
  <2> QED BY <2>0, <2>1, <2>2, <2>3, <2>4, FreshKept
<1>2. CASE Environment
  <2>0. FreshInv /\ LocalsOK
    BY DEF TableInv
  <2> USE DEF TypeOK, SharedTypeOK, ThreadsTypeOK, FreshInv, Fresh, pools, objects,
            history, threads, Locals
  <2>1. ASSUME NEW f \in Futures, Reclaim(f) PROVE FreshInv'
    BY <2>0, <2>1 DEF Reclaim
  <2>2. CASE UNCHANGED <<ongoing, threads, history>>
    BY <2>0, <2>2
  <2> HIDE DEF FreshInv
  <2> QED BY <1>2, <2>1, <2>2 DEF Environment, Memory, WorkerFinish, WorkerCrash,
          DropPool, CyclicGC, ReclaimRunner
<1>3. CASE UNCHANGED vars
  BY <1>3 DEF vars, pools, objects, history, TableInv, FreshInv, Fresh
<1> QED BY <1>1, <1>2, <1>3, StepKinds

(* The waiter's own steps lead from the snapshot to the report. *)
LEMMA OwnCollect ==
  ASSUME TypeOK, LocalsOK, HeldInv, TableInv, NEW t \in Threads, Start(t) \/ Step(t)
  PROVE  CollectAt(t)'
<1>0. LocalsAt(t) /\ CollectAt(t) /\ TableApart /\ FreshInv
  BY DEF LocalsOK, TableInv
<1> USE ConstantsAssumption DEF TypeOK, SharedTypeOK, ThreadsTypeOK, CollectAt,
          LocalsAt, At, Goto, Return, Begin, Locals, pools, objects, history
<1>1. ASSUME NEW v \in Variants, NEW j \in {"on", "off"}, Call(t, v, j)
      PROVE  CollectAt(t)'
  BY <1>1, <1>0 DEF Call
<1>2. ASSUME NEW vs \in SUBSET Variants, Compile(t, vs)
      PROVE  CollectAt(t)'
  BY <1>2, <1>0 DEF Compile
<1>3. CASE Wait(t) BY <1>3, <1>0 DEF Wait
<1>4. CASE Lookup(t) BY <1>4, <1>0 DEF Lookup
<1>5. CASE Probe(t) BY <1>5, <1>0 DEF Probe
<1>6. CASE Pop(t) BY <1>6, <1>0 DEF Pop
<1>7. CASE Result(t) BY <1>7, <1>0 DEF Result
<1>8. CASE Load(t) BY <1>8, <1>0 DEF Load
<1>9. CASE RunProgram(t) BY <1>9, <1>0 DEF RunProgram
<1>10. CASE NextVariant(t) BY <1>10, <1>0 DEF NextVariant
<1>11. CASE ExistingKey(t) BY <1>11, <1>0 DEF ExistingKey
<1>12. CASE GetDefaultRunner(t) BY <1>12, <1>0 DEF GetDefaultRunner
<1>13. CASE Submit(t) BY <1>13, <1>0 DEF Submit, NewFuture
<1>14. CASE Store(t) BY <1>14, <1>0 DEF Store
<1>15. CASE EagerLoad(t) BY <1>15, <1>0 DEF EagerLoad, AfterCompile
<1>16. CASE Track(t) BY <1>16, <1>0 DEF Track, AfterCompile
<1>17. CASE Reset(t) BY <1>17, <1>0 DEF Reset
<1>18. CASE Drain(t) BY <1>18, <1>0 DEF Drain
<1>19. CASE Snapshot(t) BY <1>19, <1>0 DEF Snapshot
<1>20. CASE Collect(t)
  <2>1. ASSUME NEW f \in snap[t], status[f] # "pending",
               failures' = [failures EXCEPT ![t] =
                              IF status[f] = "failed" THEN @ \cup {f} ELSE @],
               fut' = [fut EXCEPT ![t] = f], Goto(t, "forget"),
               UNCHANGED <<snap, reported>>
        PROVE  CollectAt(t)'
    <3>1. UNCHANGED <<ongoing, status>>
      BY <1>20 DEF Collect
    <3>2. failures'[t] \subseteq failures[t] \cup {f} /\ fut'[t] = f /\ pc'[t] = "forget"
      BY <2>1
    <3>3. status[f] = "failed" => f \in failures'[t]
      BY <2>1
    <3>4. f \in ongoing /\ f \notin reported /\ failures[t] \cap (ongoing \cup reported) = {}
      BY <1>0, <1>20 DEF Collect, TableApart
    <3> QED BY <1>0, <2>1, <3>1, <3>2, <3>3, <3>4
  <2>2. CASE snap[t] = {} /\ Return(t, IF failures[t] = {} THEN "waited" ELSE "waitFailed")
             /\ reported' = reported \cup failures[t]
    BY <1>0, <1>20, <2>2 DEF Collect
  <2> QED BY <1>20, <2>1, <2>2 DEF Collect
<1>21. CASE Forget(t) BY <1>21, <1>0 DEF Forget
<1> HIDE DEF CollectAt, TypeOK
<1> QED
  BY <1>1, <1>2, <1>3, <1>4, <1>5, <1>6, <1>7, <1>8, <1>9, <1>10, <1>11,
     <1>12, <1>13, <1>14, <1>15, <1>16, <1>17, <1>18, <1>19, <1>20, <1>21 DEF Start, Step

(* What any step of a thread leaves alone in the table. *)
TableEffects(t) ==
  /\ reported \subseteq reported'
  /\ \A f \in Futures : status[f] # "free" => status'[f] = status[f]
  /\ pc[t] \notin Waiting =>
       /\ reported' = reported /\ ongoing \subseteq ongoing'
       /\ \A f \in ongoing' : f \in ongoing \/ (pc[t] = "track" /\ f = fut[t])

(* Only a wait reports or forgets, and only a track adds. *)
LEMMA TableEffectsStep ==
  ASSUME TypeOK, NEW t \in Threads, Start(t) \/ Step(t)
  PROVE  TableEffects(t)
<1> USE DEF TypeOK, SharedTypeOK, ThreadsTypeOK, TableEffects, Waiting, At, Begin,
          pools, objects, history
<1>1. ASSUME NEW v \in Variants, NEW j \in {"on", "off"}, Call(t, v, j)
      PROVE  TableEffects(t)
  BY <1>1 DEF Call
<1>2. ASSUME NEW vs \in SUBSET Variants, Compile(t, vs)
      PROVE  TableEffects(t)
  BY <1>2 DEF Compile
<1>3. CASE Wait(t) BY <1>3 DEF Wait
<1>4. CASE Lookup(t) BY <1>4 DEF Lookup
<1>5. CASE Probe(t) BY <1>5 DEF Probe
<1>6. CASE Pop(t) BY <1>6 DEF Pop
<1>7. CASE Result(t) BY <1>7 DEF Result
<1>8. CASE Load(t) BY <1>8 DEF Load
<1>9. CASE RunProgram(t) BY <1>9 DEF RunProgram
<1>10. CASE NextVariant(t) BY <1>10 DEF NextVariant
<1>11. CASE ExistingKey(t) BY <1>11 DEF ExistingKey
<1>12. CASE GetDefaultRunner(t) BY <1>12 DEF GetDefaultRunner
<1>13. CASE Submit(t) BY <1>13 DEF Submit, NewFuture
<1>14. CASE Store(t) BY <1>14 DEF Store
<1>15. CASE EagerLoad(t) BY <1>15 DEF EagerLoad, AfterCompile
<1>16. CASE Track(t) BY <1>16 DEF Track, AfterCompile
<1>17. CASE Reset(t) BY <1>17 DEF Reset
<1>18. CASE Drain(t) BY <1>18 DEF Drain
<1>19. CASE Snapshot(t) BY <1>19 DEF Snapshot
<1>20. CASE Collect(t) BY <1>20 DEF Collect
<1>21. CASE Forget(t) BY <1>21 DEF Forget
<1> HIDE DEF TableEffects, TypeOK
<1> QED
  BY <1>1, <1>2, <1>3, <1>4, <1>5, <1>6, <1>7, <1>8, <1>9, <1>10, <1>11,
     <1>12, <1>13, <1>14, <1>15, <1>16, <1>17, <1>18, <1>19, <1>20, <1>21 DEF Start, Step

(* With one waiter, a wait is disturbed by nobody. *)
LEMMA TableStep ==
  ASSUME OneWaiter
  PROVE  TypeOK /\ LocalsOK /\ HeldInv /\ ForgetInv /\ OwnerInv /\ TableInv /\ [Next]_vars
           => TableInv'
<1> SUFFICES ASSUME TypeOK, LocalsOK, HeldInv, ForgetInv, OwnerInv, TableInv, [Next]_vars
             PROVE  TableInv'
  OBVIOUS
<1>1. ASSUME NEW u \in Threads PROVE CollectAt(u)'
  <2>0. CollectAt(u) /\ LocalsAt(u)
    BY DEF TableInv, LocalsOK
  <2>1. ASSUME NEW t \in Threads, Start(t) \/ Step(t) PROVE CollectAt(u)'
    <3>1. CASE u = t
      BY <2>1, <3>1, OwnCollect
    <3>2. CASE u # t
      <4>1. SameFrame(u)
        BY <2>1, <3>2, OtherFrames
      <4>2. TableEffects(t)
        BY <2>1, TableEffectsStep
      <4>3. pc[u] = "forget" => status'[fut[u]] = status[fut[u]]
        BY <2>0, <4>2, ConstantsAssumption DEF LocalsAt, HeldInv, TableEffects
      <4>4. CASE pc[u] \in {"collect", "forget"}
        <5>1. pc[t] \notin Waiting
          BY <3>2, <4>4 DEF OneWaiter, OwnerInv, OwnerAt, Waiting
        <5>2. pc[t] = "track" => fut[t] \notin failures[u]
          BY DEF TableInv, FreshInv, Fresh
        <5> QED BY <2>0, <4>1, <4>2, <4>3, <4>4, <5>1, <5>2
                DEF CollectAt, SameFrame, TableEffects
      <4>5. CASE pc[u] \notin {"collect", "forget"}
        BY <2>0, <4>1, <4>2, <4>5 DEF CollectAt, SameFrame, TableEffects
      <4> QED BY <4>4, <4>5
    <3> QED BY <3>1, <3>2
  <2>2. CASE Environment
    <3>1. SameFrame(u)
      BY <2>2, EnvironmentFrames
    <3>2. pc[u] = "forget" => status'[fut[u]] = status[fut[u]]
      <4> SUFFICES ASSUME pc[u] = "forget" PROVE status'[fut[u]] = status[fut[u]]
        OBVIOUS
      <4>1. fut[u] \in Futures /\ status[fut[u]] # "pending" /\ fut[u] \in snap[u]
        BY <2>0 DEF LocalsAt, ForgetInv, CollectAt
      <4> USE DEF TypeOK, SharedTypeOK
      <4>2. ASSUME NEW f \in Futures, NEW s \in {"ok", "failed"}, WorkerFinish(f, s)
            PROVE  status'[fut[u]] = status[fut[u]]
        BY <4>1, <4>2 DEF WorkerFinish
      <4>3. ASSUME NEW r \in Runners, WorkerCrash(r) PROVE status'[fut[u]] = status[fut[u]]
        BY <4>1, <4>3 DEF WorkerCrash, Pending
      <4>4. ASSUME NEW f \in Futures, Reclaim(f) PROVE status'[fut[u]] = status[fut[u]]
        BY <4>1, <4>4 DEF Reclaim, Alive
      <4>5. CASE UNCHANGED status
        BY <4>5
      <4> QED BY <2>2, <4>2, <4>3, <4>4, <4>5 DEF Environment, Memory, DropPool, CyclicGC,
              ReclaimRunner, objects
    <3>3. ASSUME NEW f \in Futures, Reclaim(f) PROVE CollectAt(u)'
      <4>1. f \notin snap[u] /\ f \notin failures[u]
        BY <3>3 DEF Reclaim, Alive
      <4>2. ongoing' = ongoing \ {f} /\ reported' = reported \ {f}
        BY <3>3 DEF Reclaim
      <4> QED BY <2>0, <3>1, <3>2, <4>1, <4>2 DEF CollectAt, SameFrame
    <3>4. CASE UNCHANGED <<ongoing, reported>>
      BY <2>0, <3>1, <3>2, <3>4 DEF CollectAt, SameFrame
    <3> QED BY <2>2, <3>3, <3>4 DEF Environment, Memory, WorkerFinish, WorkerCrash,
            DropPool, CyclicGC, ReclaimRunner, pools, history
  <2>3. CASE UNCHANGED vars
    BY <2>0, <2>3 DEF CollectAt, vars, pools, objects, history
  <2> QED BY <2>1, <2>2, <2>3, StepKinds
<1> QED BY <1>1, ApartStep, FreshStep DEF TableInv

-----------------------------------------------------------------------------
(* The outcomes of the operations. *)

OutcomeAt(t) ==
  /\ outcome[t] \notin {"keyError", "assertion"}
  /\ jit[t] # "off" => outcome[t] \notin {"noProgram", "exists"}

(* An operation that finds the entry and the table as it left them does not
   fail in its own bookkeeping. *)
LEMMA OwnOutcome ==
  ASSUME TypeOK, LocalsOK, EitherOr, NEW t \in Threads, EntryAt(t), CollectAt(t),
         OutcomeAt(t), Start(t) \/ Step(t)
  PROVE  OutcomeAt(t)'
<1>0. LocalsAt(t)
  BY DEF LocalsOK
<1> USE ConstantsAssumption DEF TypeOK, SharedTypeOK, ThreadsTypeOK, OutcomeAt, At,
          Goto, Return, Begin, Locals, pools, objects, history
<1>1. ASSUME NEW v \in Variants, NEW j \in {"on", "off"}, Call(t, v, j)
      PROVE  OutcomeAt(t)'
  BY <1>1, <1>0 DEF Call
<1>2. ASSUME NEW vs \in SUBSET Variants, Compile(t, vs)
      PROVE  OutcomeAt(t)'
  BY <1>2, <1>0 DEF Compile
<1>3. CASE Wait(t) BY <1>3, <1>0 DEF Wait
<1>4. CASE Lookup(t) BY <1>4, <1>0 DEF Lookup
<1>5. CASE Probe(t) BY <1>5, <1>0 DEF Probe, EntryAt, LocalsAt
<1>6. CASE Pop(t) BY <1>6, <1>0 DEF Pop, EntryAt, EitherOr, LocalsAt
<1>7. CASE Result(t) BY <1>7, <1>0 DEF Result
<1>8. CASE Load(t) BY <1>8, <1>0 DEF Load
<1>9. CASE RunProgram(t) BY <1>9, <1>0 DEF RunProgram
<1>10. CASE NextVariant(t) BY <1>10, <1>0 DEF NextVariant
<1>11. CASE ExistingKey(t) BY <1>11, <1>0 DEF ExistingKey, EntryAt, IsExistingKey
<1>12. CASE GetDefaultRunner(t) BY <1>12, <1>0 DEF GetDefaultRunner
<1>13. CASE Submit(t) BY <1>13, <1>0 DEF Submit, NewFuture, LocalsAt
<1>14. CASE Store(t) BY <1>14, <1>0 DEF Store
<1>15. CASE EagerLoad(t) BY <1>15, <1>0 DEF EagerLoad, AfterCompile
<1>16. CASE Track(t) BY <1>16, <1>0 DEF Track, AfterCompile
<1>17. CASE Reset(t) BY <1>17, <1>0 DEF Reset
<1>18. CASE Drain(t) BY <1>18, <1>0 DEF Drain
<1>19. CASE Snapshot(t) BY <1>19, <1>0 DEF Snapshot
<1>20. CASE Collect(t) BY <1>20, <1>0 DEF Collect
<1>21. CASE Forget(t) BY <1>21, <1>0 DEF Forget, CollectAt
<1> HIDE DEF OutcomeAt, TypeOK
<1> QED
  BY <1>1, <1>2, <1>3, <1>4, <1>5, <1>6, <1>7, <1>8, <1>9, <1>10, <1>11,
     <1>12, <1>13, <1>14, <1>15, <1>16, <1>17, <1>18, <1>19, <1>20, <1>21 DEF Start, Step

(* Nobody else writes the outcome of a thread. *)
LEMMA OutcomeStep ==
  TypeOK /\ LocalsOK /\ EntryInv /\ TableInv /\ NoSpuriousError /\ [Next]_vars
    => NoSpuriousError'
<1> SUFFICES ASSUME TypeOK, LocalsOK, EntryInv, TableInv, NoSpuriousError, [Next]_vars,
                    NEW u \in Threads
             PROVE  OutcomeAt(u)'
  BY DEF NoSpuriousError, OutcomeAt
<1>0. EitherOr /\ EntryAt(u) /\ CollectAt(u) /\ OutcomeAt(u)
  BY DEF EntryInv, TableInv, NoSpuriousError, OutcomeAt
<1>1. ASSUME NEW t \in Threads, Start(t) \/ Step(t), u = t PROVE OutcomeAt(u)'
  BY <1>0, <1>1, OwnOutcome
<1>2. CASE SameFrame(u)
  BY <1>0, <1>2 DEF OutcomeAt, SameFrame
<1>3. CASE UNCHANGED vars
  BY <1>0, <1>3 DEF OutcomeAt, vars
<1> QED BY <1>1, <1>2, <1>3, StepKinds, OtherFrames, EnvironmentFrames

-----------------------------------------------------------------------------
(* One waiter. *)

WaiterInv == IInv /\ OwnerInv /\ TableInv

(* With one waiter, the table of ongoing compilations and the reports agree. *)
LEMMA OneWaiterInductive ==
  ASSUME OneWaiter
  PROVE  Spec => []WaiterInv
<1>1. Init => OwnerInv /\ TableInv
  BY DEF Init, OwnerInv, OwnerAt, Calling, Waiting, TableInv, TableApart, FreshInv, Fresh,
     CollectAt
<1>2. IInv /\ OwnerInv /\ TableInv /\ [Next]_vars => OwnerInv' /\ TableInv'
  BY OwnerStep, TableStep DEF IInv
<1> QED BY <1>1, <1>2, Inductive, PTL DEF Spec, WaiterInv

(* wait_for_compilation never swallows a failure it has collected, whatever
   the other threads call or compile: with one waiter, the loop over the table
   always gets to the raise. *)
THEOREM CollectedFailuresAreRaised ==
  ASSUME OneWaiter
  PROVE  Spec => []CollectedIsRaised
<1>1. WaiterInv => CollectedIsRaised
  BY DEF WaiterInv, TableInv, CollectAt, CollectedIsRaised
<1> QED BY <1>1, OneWaiterInductive, PTL

(* wait_for_compilation raises each failure once: what an earlier wait of the
   only waiter has raised is no longer in the table. *)
THEOREM FailuresAreRaisedOnce ==
  ASSUME OneWaiter
  PROVE  Spec => RaisedOnce
<1>1. WaiterInv /\ [Next]_vars =>
        [\A t \in Threads : At(t, "collect") /\ outcome'[t] = "waitFailed" =>
           failures[t] \cap reported = {}]_vars
  BY DEF WaiterInv, TableInv, CollectAt, At
<1> QED BY <1>1, OneWaiterInductive, PTL DEF Spec, RaisedOnce

-----------------------------------------------------------------------------
(* No two threads share a variant. *)

PoolInv == IInv /\ OwnerInv /\ EntryInv

(* Without sharing, an entry changes only under the thread it belongs to. *)
LEMMA UnsharedInductive ==
  ASSUME Unshared
  PROVE  Spec => []PoolInv
<1>1. Init => OwnerInv /\ EntryInv
  BY DEF Init, OwnerInv, OwnerAt, Calling, Waiting, EntryInv, EitherOr, EntryAt, Compiling
<1>2. IInv /\ OwnerInv /\ EntryInv /\ [Next]_vars => OwnerInv' /\ EntryInv'
  BY OwnerStep, EntryStep DEF IInv
<1> QED BY <1>1, <1>2, Inductive, PTL DEF Spec, PoolInv

(* A job leaves its pool through the call that popped it, or with the pool. *)
LEMMA JobLeaves ==
  ASSUME PoolInv, [Next]_vars, NEW v \in Variants, jobs[v] # None, jobs'[v] # jobs[v]
  PROVE  \/ DropPool(PoolOf[v])
         \/ \E t \in Threads : At(t, "pop") /\ var[t] = v /\ fut'[t] = jobs[v]
<1> USE DEF PoolInv, IInv, TypeOK, SharedTypeOK, ThreadsTypeOK
<1>1. ASSUME NEW t \in Threads, Start(t) \/ Step(t)
      PROVE  At(t, "pop") /\ var[t] = v /\ fut'[t] = jobs[v]
  <2>0. LocalsAt(t) /\ EntryAt(t) /\ v \notin compiled
    BY DEF LocalsOK, EntryInv, EitherOr
  <2> USE ConstantsAssumption DEF At, Begin, pools, objects, history
  <2>1. CASE Pop(t)
    BY <2>0, <2>1 DEF Pop, LocalsAt
  <2>2. CASE Store(t)
    BY <2>0, <2>2 DEF Store, LocalsAt, EntryAt
  <2>3. CASE UNCHANGED jobs
    BY <2>3
  <2> QED
    BY <1>1, <2>1, <2>2, <2>3 DEF Start, Step, Call, Compile, Wait, Lookup, Probe, Result,
       Load, RunProgram, NextVariant, ExistingKey, GetDefaultRunner, Submit, EagerLoad,
       Track, Reset, Drain, Snapshot, Collect, Forget
<1>2. CASE Environment
  <2>1. ASSUME NEW p \in Pools, DropPool(p) PROVE DropPool(PoolOf[v])
    <3>1. PoolOf[v] = p
      BY <2>1 DEF DropPool
    <3> QED BY <2>1, <3>1
  <2>2. CASE UNCHANGED jobs
    BY <2>2
  <2> QED BY <1>2, <2>1, <2>2 DEF Environment, Memory, WorkerFinish, WorkerCrash,
          CyclicGC, Reclaim, ReclaimRunner, pools
<1>3. CASE UNCHANGED vars
  BY <1>3 DEF vars, pools
<1> QED BY <1>1, <1>2, <1>3, StepKinds

(* A failed job leaves its pool only through a call that raises the failure,
   or with the pool itself: no thread overwrites it and none drops it, for any
   number of threads that do not share a variant and any number of waiters. *)
THEOREM FailuresSurface ==
  ASSUME Unshared
  PROVE  Spec => FailureSurfaces
<1>1. PoolInv /\ [Next]_vars =>
        [\A v \in Variants :
           LET f == jobs[v] IN
           f # None /\ status[f] = "failed" /\ jobs'[v] # f =>
             \/ DropPool(PoolOf[v])
             \/ \E t \in Threads : At(t, "pop") /\ var[t] = v /\ fut'[t] = f]_vars
  BY JobLeaves
<1> QED BY <1>1, UnsharedInductive, PTL DEF Spec, FailureSurfaces

(* With one waiter and without sharing, no call and no wait ends in a KeyError
   or an AssertionError of the bookkeeping, and no just-in-time call in "already
   exists" or "No program compiled". *)
THEOREM NoBookkeepingError ==
  ASSUME OneWaiter, Unshared
  PROVE  Spec => []NoSpuriousError
<1>1. Init => NoSpuriousError
  BY DEF Init, NoSpuriousError
<1>2. WaiterInv /\ PoolInv /\ NoSpuriousError /\ [Next]_vars => NoSpuriousError'
  BY OutcomeStep DEF WaiterInv, PoolInv, IInv
<1> QED BY <1>1, <1>2, OneWaiterInductive, UnsharedInductive, PTL DEF Spec

-----------------------------------------------------------------------------
(***************************************************************************)
(* One client: the thread w compiles, calls and waits, the others do not   *)
(* use the pools.                                                          *)
(***************************************************************************)
OthersIdle(w) ==
  \A t \in Threads : t # w =>
    pc[t] = "idle" /\ outcome[t] = "none" /\ failures[t] = {}

(* The other threads never begin. *)
LEMMA OnlyClientSteps ==
  ASSUME NEW w \in Threads, SoleClient(w), OthersIdle(w), NEW t \in Threads, t # w
  PROVE  ~Start(t) /\ ~Step(t)
BY DEF OthersIdle, SoleClient, Start, Call, Compile, Wait, Step, At, Lookup, Probe, Pop,
   Result, Load, RunProgram, NextVariant, ExistingKey, GetDefaultRunner, Submit, Store,
   EagerLoad, Track, Reset, Drain, Snapshot, Collect, Forget

(* The other threads stay idle. *)
LEMMA IdleStep ==
  ASSUME NEW w \in Threads, SoleClient(w)
  PROVE  TypeOK /\ OthersIdle(w) /\ [Next]_vars => OthersIdle(w)'
<1> SUFFICES ASSUME TypeOK, OthersIdle(w), [Next]_vars, NEW u \in Threads, u # w
             PROVE  SameFrame(u)
  BY DEF OthersIdle, SameFrame
<1>1. ~Start(u) /\ ~Step(u)
  BY OnlyClientSteps
<1>2. CASE UNCHANGED vars
  BY <1>2 DEF vars, SameFrame
<1> QED BY <1>1, <1>2, StepKinds, OtherFrames, EnvironmentFrames

(* Outside reset_default_runner, the default runner accepts work or is broken,
   and it is the runner a submission is about to use. *)
RunnerAt(w) ==
  /\ pc[w] # "drain" /\ default # None => executor[default] # "shutdown"
  /\ pc[w] = "submit" => run[w] = default
  /\ outcome[w] # "shutdown"

(* A client that does not submit while it resets never meets a runner that
   has been shut down. *)
LEMMA RunnerStep ==
  ASSUME NEW w \in Threads, SoleClient(w)
  PROVE  TypeOK /\ LocalsOK /\ OthersIdle(w) /\ RunnerAt(w) /\ [Next]_vars => RunnerAt(w)'
<1> SUFFICES ASSUME TypeOK, LocalsOK, OthersIdle(w), RunnerAt(w), [Next]_vars
             PROVE  RunnerAt(w)'
  OBVIOUS
<1>1. ASSUME NEW t \in Threads, t = w, Start(t) \/ Step(t) PROVE RunnerAt(t)'
  <2>0. LocalsAt(t) /\ RunnerAt(t)
    BY <1>1 DEF LocalsOK
  <2> USE ConstantsAssumption DEF TypeOK, SharedTypeOK, ThreadsTypeOK, RunnerAt,
            LocalsAt, At, Goto, Return, Begin, Locals, pools, objects, history
  <2>1. ASSUME NEW v \in Variants, NEW j \in {"on", "off"}, Call(t, v, j)
        PROVE  RunnerAt(t)'
    BY <2>1, <2>0 DEF Call
  <2>2. ASSUME NEW vs \in SUBSET Variants, Compile(t, vs)
        PROVE  RunnerAt(t)'
    BY <2>2, <2>0 DEF Compile
  <2>3. CASE Wait(t) BY <2>3, <2>0 DEF Wait
  <2>4. CASE Lookup(t) BY <2>4, <2>0 DEF Lookup
  <2>5. CASE Probe(t) BY <2>5, <2>0 DEF Probe
  <2>6. CASE Pop(t) BY <2>6, <2>0 DEF Pop
  <2>7. CASE Result(t) BY <2>7, <2>0 DEF Result
  <2>8. CASE Load(t) BY <2>8, <2>0 DEF Load
  <2>9. CASE RunProgram(t) BY <2>9, <2>0 DEF RunProgram
  <2>10. CASE NextVariant(t) BY <2>10, <2>0 DEF NextVariant
  <2>11. CASE ExistingKey(t) BY <2>11, <2>0 DEF ExistingKey
  <2>12. CASE GetDefaultRunner(t) BY <2>12, <2>0 DEF GetDefaultRunner
  <2>13. CASE Submit(t) BY <2>13, <2>0 DEF Submit, NewFuture
  <2>14. CASE Store(t) BY <2>14, <2>0 DEF Store
  <2>15. CASE EagerLoad(t) BY <2>15, <2>0 DEF EagerLoad, AfterCompile
  <2>16. CASE Track(t) BY <2>16, <2>0 DEF Track, AfterCompile
  <2>17. CASE Reset(t) BY <2>17, <2>0 DEF Reset
  <2>18. CASE Drain(t) BY <2>18, <2>0 DEF Drain
  <2>19. CASE Snapshot(t) BY <2>19, <2>0 DEF Snapshot
  <2>20. CASE Collect(t) BY <2>20, <2>0 DEF Collect
  <2>21. CASE Forget(t) BY <2>21, <2>0 DEF Forget
  <2> HIDE DEF RunnerAt, TypeOK
  <2> QED
    BY <1>1, <2>1, <2>2, <2>3, <2>4, <2>5, <2>6, <2>7, <2>8, <2>9, <2>10, <2>11,
       <2>12, <2>13, <2>14, <2>15, <2>16, <2>17, <2>18, <2>19, <2>20, <2>21 DEF Start, Step
<1>2. CASE Environment
  <2> USE ConstantsAssumption DEF TypeOK, SharedTypeOK, ThreadsTypeOK, RunnerAt,
            pools, objects, threads, Locals
  <2>1. ASSUME NEW f \in Futures, NEW s \in {"ok", "failed"}, WorkerFinish(f, s)
        PROVE  RunnerAt(w)'
    BY <2>1 DEF WorkerFinish
  <2>2. ASSUME NEW r \in Runners, WorkerCrash(r) PROVE RunnerAt(w)'
    BY <2>2 DEF WorkerCrash
  <2>3. ASSUME NEW p \in Pools, DropPool(p) PROVE RunnerAt(w)'
    BY <2>3 DEF DropPool
  <2>4. CASE CyclicGC
    BY <2>4 DEF CyclicGC
  <2>5. ASSUME NEW f \in Futures, Reclaim(f) PROVE RunnerAt(w)'
    BY <2>5 DEF Reclaim
  <2>6. ASSUME NEW r \in Runners, ReclaimRunner(r) PROVE RunnerAt(w)'
    BY <2>6 DEF ReclaimRunner
  <2> HIDE DEF RunnerAt
  <2> QED BY <1>2, <2>1, <2>2, <2>3, <2>4, <2>5, <2>6 DEF Environment, Memory
<1>3. CASE UNCHANGED vars
  BY <1>3 DEF vars, objects, RunnerAt
<1> QED BY <1>1, <1>2, <1>3, StepKinds, OnlyClientSteps

(* A failed job that its pool still holds is in the table, in the failures
   collected so far, or has been reported. *)
JobKnown(w) ==
  \A v \in Variants : jobs[v] # None /\ status[jobs[v]] = "failed" =>
    \/ jobs[v] \in ongoing \cup reported \cup failures[w]
    \/ pc[w] = "track" /\ fut[w] = jobs[v]

(* The snapshot of a wait holds every tracked job of the pools. *)
SnapComplete(w) ==
  pc[w] \in {"collect", "forget"} =>
    \A v \in Variants : jobs[v] \in ongoing => jobs[v] \in snap[w]

(* A wait that returned normally left no failed job unreported. *)
NotSilent(w) ==
  outcome[w] = "waited" =>
    \A v \in Variants : jobs[v] \in seen[w] /\ status[jobs[v]] = "failed" =>
      jobs[v] \in reported

(* The unresolved jobs are tracked, or about to be by the client. *)
JobTracked(w) ==
  \A v \in Variants : jobs[v] # None /\ status[jobs[v]] = "pending" =>
    \/ jobs[v] \in ongoing
    \/ pc[w] = "track" /\ fut[w] = jobs[v]

SilentInv(w) == JobKnown(w) /\ SnapComplete(w) /\ NotSilent(w)

(* A failed job is known from the moment it fails. *)
LEMMA KnownStep ==
  ASSUME NEW w \in Threads, SoleClient(w), IInv, OthersIdle(w), TableInv,
         SilentInv(w), [Next]_vars
  PROVE  JobKnown(w)'
<1>0. TypeOK /\ LocalsOK /\ JobKnown(w) /\ JobTracked(w) /\ CollectAt(w) /\ HeldInv
  BY DEF IInv, SilentInv, TableInv, TrackedUntilDone, OthersIdle, JobTracked
<1>1. ASSUME NEW t \in Threads, t = w, Start(t) \/ Step(t) PROVE JobKnown(t)'
  <2>0. LocalsAt(t) /\ JobKnown(t) /\ CollectAt(t)
    BY <1>0, <1>1 DEF LocalsOK
  <2> USE ConstantsAssumption, <1>0 DEF TypeOK, SharedTypeOK, ThreadsTypeOK,
            JobKnown, CollectAt, LocalsAt, At, Goto, Return, Begin, Locals, pools,
            objects, history
  <2>1. ASSUME NEW v \in Variants, NEW j \in {"on", "off"}, Call(t, v, j)
        PROVE  JobKnown(t)'
    BY <2>1, <2>0 DEF Call
  <2>2. ASSUME NEW vs \in SUBSET Variants, Compile(t, vs)
        PROVE  JobKnown(t)'
    BY <2>2, <2>0 DEF Compile
  <2>3. CASE Wait(t) BY <2>3, <2>0 DEF Wait
  <2>4. CASE Lookup(t) BY <2>4, <2>0 DEF Lookup
  <2>5. CASE Probe(t) BY <2>5, <2>0 DEF Probe
  <2>6. CASE Pop(t) BY <2>6, <2>0 DEF Pop
  <2>7. CASE Result(t) BY <2>7, <2>0 DEF Result
  <2>8. CASE Load(t) BY <2>8, <2>0 DEF Load
  <2>9. CASE RunProgram(t) BY <2>9, <2>0 DEF RunProgram
  <2>10. CASE NextVariant(t) BY <2>10, <2>0 DEF NextVariant
  <2>11. CASE ExistingKey(t) BY <2>11, <2>0 DEF ExistingKey
  <2>12. CASE GetDefaultRunner(t) BY <2>12, <2>0 DEF GetDefaultRunner
  <2>13. CASE Submit(t)
    <3>1. UNCHANGED <<jobs, ongoing, reported, failures>> /\ pc[t] = "submit"
      BY <2>13 DEF Submit
    <3>2. \A f \in Futures : status[f] # "free" => status'[f] = status[f]
      BY <2>13 DEF Submit, NewFuture
    <3>3. \A v \in Variants : jobs[v] # None => status'[jobs[v]] = status[jobs[v]]
      BY <3>2 DEF HeldInv
    <3> QED BY <2>0, <3>1, <3>3
  <2>14. CASE Store(t) BY <2>14, <2>0 DEF Store
  <2>15. CASE EagerLoad(t) BY <2>15, <2>0 DEF EagerLoad, AfterCompile
  <2>16. CASE Track(t) BY <2>16, <2>0 DEF Track, AfterCompile
  <2>17. CASE Reset(t) BY <2>17, <2>0 DEF Reset
  <2>18. CASE Drain(t) BY <2>18, <2>0 DEF Drain
  <2>19. CASE Snapshot(t) BY <2>19, <2>0 DEF Snapshot
  <2>20. CASE Collect(t) BY <2>20, <2>0 DEF Collect
  <2>21. CASE Forget(t) BY <2>21, <2>0 DEF Forget
  <2> HIDE DEF JobKnown, TypeOK
  <2> QED
    BY <1>1, <2>1, <2>2, <2>3, <2>4, <2>5, <2>6, <2>7, <2>8, <2>9, <2>10, <2>11,
       <2>12, <2>13, <2>14, <2>15, <2>16, <2>17, <2>18, <2>19, <2>20, <2>21 DEF Start, Step
<1>2. CASE Environment
  <2> USE ConstantsAssumption, <1>0 DEF TypeOK, SharedTypeOK, ThreadsTypeOK,
            JobKnown, JobTracked, pools, objects, threads, Locals, history
  <2>1. ASSUME NEW f \in Futures, NEW s \in {"ok", "failed"}, WorkerFinish(f, s)
        PROVE  JobKnown(w)'
    BY <2>1 DEF WorkerFinish
  <2>2. ASSUME NEW r \in Runners, WorkerCrash(r) PROVE JobKnown(w)'
    BY <2>2 DEF WorkerCrash, Pending
  <2>3. ASSUME NEW p \in Pools, DropPool(p) PROVE JobKnown(w)'
    BY <2>3 DEF DropPool
  <2>4. CASE CyclicGC
    BY <2>4 DEF CyclicGC
  <2>5. ASSUME NEW f \in Futures, Reclaim(f) PROVE JobKnown(w)'
    BY <2>5 DEF Reclaim, Alive
  <2>6. ASSUME NEW r \in Runners, ReclaimRunner(r) PROVE JobKnown(w)'
    BY <2>6 DEF ReclaimRunner
  <2> HIDE DEF JobKnown
  <2> QED BY <1>2, <2>1, <2>2, <2>3, <2>4, <2>5, <2>6 DEF Environment, Memory
<1>3. CASE UNCHANGED vars
  BY <1>0, <1>3 DEF vars, pools, objects, history, JobKnown
<1> QED BY <1>1, <1>2, <1>3, StepKinds, OnlyClientSteps

(* Nothing is tracked while the client collects. *)
LEMMA SnapStep ==
  ASSUME NEW w \in Threads, SoleClient(w), IInv, OthersIdle(w), SilentInv(w), [Next]_vars
  PROVE  SnapComplete(w)'
<1>0. TypeOK /\ LocalsOK /\ SnapComplete(w)
  BY DEF IInv, SilentInv
<1>1. ASSUME NEW t \in Threads, t = w, Start(t) \/ Step(t) PROVE SnapComplete(t)'
  <2>0. LocalsAt(t) /\ SnapComplete(t)
    BY <1>0, <1>1 DEF LocalsOK
  <2> USE ConstantsAssumption, <1>0 DEF TypeOK, SharedTypeOK, ThreadsTypeOK,
            SnapComplete, LocalsAt, At, Goto, Return, Begin, Locals, pools, objects,
            history
  <2>1. ASSUME NEW v \in Variants, NEW j \in {"on", "off"}, Call(t, v, j)
        PROVE  SnapComplete(t)'
    BY <2>1, <2>0 DEF Call
  <2>2. ASSUME NEW vs \in SUBSET Variants, Compile(t, vs)
        PROVE  SnapComplete(t)'
    BY <2>2, <2>0 DEF Compile
  <2>3. CASE Wait(t) BY <2>3, <2>0 DEF Wait
  <2>4. CASE Lookup(t) BY <2>4, <2>0 DEF Lookup
  <2>5. CASE Probe(t) BY <2>5, <2>0 DEF Probe
  <2>6. CASE Pop(t) BY <2>6, <2>0 DEF Pop
  <2>7. CASE Result(t) BY <2>7, <2>0 DEF Result
  <2>8. CASE Load(t) BY <2>8, <2>0 DEF Load
  <2>9. CASE RunProgram(t) BY <2>9, <2>0 DEF RunProgram
  <2>10. CASE NextVariant(t) BY <2>10, <2>0 DEF NextVariant
  <2>11. CASE ExistingKey(t) BY <2>11, <2>0 DEF ExistingKey
  <2>12. CASE GetDefaultRunner(t) BY <2>12, <2>0 DEF GetDefaultRunner
  <2>13. CASE Submit(t) BY <2>13, <2>0 DEF Submit, NewFuture
  <2>14. CASE Store(t) BY <2>14, <2>0 DEF Store
  <2>15. CASE EagerLoad(t) BY <2>15, <2>0 DEF EagerLoad, AfterCompile
  <2>16. CASE Track(t) BY <2>16, <2>0 DEF Track, AfterCompile
  <2>17. CASE Reset(t) BY <2>17, <2>0 DEF Reset
  <2>18. CASE Drain(t) BY <2>18, <2>0 DEF Drain
  <2>19. CASE Snapshot(t) BY <2>19, <2>0 DEF Snapshot, Alive
  <2>20. CASE Collect(t) BY <2>20, <2>0 DEF Collect
  <2>21. CASE Forget(t) BY <2>21, <2>0 DEF Forget
  <2> HIDE DEF SnapComplete, TypeOK
  <2> QED
    BY <1>1, <2>1, <2>2, <2>3, <2>4, <2>5, <2>6, <2>7, <2>8, <2>9, <2>10, <2>11,
       <2>12, <2>13, <2>14, <2>15, <2>16, <2>17, <2>18, <2>19, <2>20, <2>21 DEF Start, Step
<1>2. CASE Environment
  <2> USE ConstantsAssumption, <1>0 DEF TypeOK, SharedTypeOK, ThreadsTypeOK,
            SnapComplete, pools, objects, threads, Locals, history
  <2>1. ASSUME NEW f \in Futures, NEW s \in {"ok", "failed"}, WorkerFinish(f, s)
        PROVE  SnapComplete(w)'
    BY <2>1 DEF WorkerFinish
  <2>2. ASSUME NEW r \in Runners, WorkerCrash(r) PROVE SnapComplete(w)'
    BY <2>2 DEF WorkerCrash
  <2>3. ASSUME NEW p \in Pools, DropPool(p) PROVE SnapComplete(w)'
    BY <2>3 DEF DropPool
  <2>4. CASE CyclicGC
    BY <2>4 DEF CyclicGC
  <2>5. ASSUME NEW f \in Futures, Reclaim(f) PROVE SnapComplete(w)'
    BY <2>5 DEF Reclaim, Alive
  <2>6. ASSUME NEW r \in Runners, ReclaimRunner(r) PROVE SnapComplete(w)'
    BY <2>6 DEF ReclaimRunner
  <2> HIDE DEF SnapComplete
  <2> QED BY <1>2, <2>1, <2>2, <2>3, <2>4, <2>5, <2>6 DEF Environment, Memory
<1>3. CASE UNCHANGED vars
  BY <1>0, <1>3 DEF vars, pools, SnapComplete
<1> QED BY <1>1, <1>2, <1>3, StepKinds, OnlyClientSteps

(* A wait returns normally only when every failed job has been reported. *)
LEMMA NotSilentStep ==
  ASSUME NEW w \in Threads, SoleClient(w), IInv, OthersIdle(w), SilentInv(w), [Next]_vars
  PROVE  NotSilent(w)'
<1>0. TypeOK /\ LocalsOK /\ NotSilent(w) /\ WaitInv /\ HeldInv
  BY DEF IInv, SilentInv
<1>1. ASSUME NEW t \in Threads, t = w, Start(t) \/ Step(t) PROVE NotSilent(t)'
  <2>0. LocalsAt(t) /\ NotSilent(t) /\ JobKnown(t) /\ SnapComplete(t)
    BY <1>0, <1>1 DEF LocalsOK, SilentInv
  <2> USE ConstantsAssumption, <1>0 DEF TypeOK, SharedTypeOK, ThreadsTypeOK,
            NotSilent, LocalsAt, At, Goto, Return, Begin, Locals, pools, objects,
            history
  <2>1. ASSUME NEW v \in Variants, NEW j \in {"on", "off"}, Call(t, v, j)
        PROVE  NotSilent(t)'
    BY <2>1, <2>0 DEF Call
  <2>2. ASSUME NEW vs \in SUBSET Variants, Compile(t, vs)
        PROVE  NotSilent(t)'
    BY <2>2, <2>0 DEF Compile
  <2>3. CASE Wait(t) BY <2>3, <2>0 DEF Wait
  <2>4. CASE Lookup(t) BY <2>4, <2>0 DEF Lookup
  <2>5. CASE Probe(t) BY <2>5, <2>0 DEF Probe
  <2>6. CASE Pop(t) BY <2>6, <2>0 DEF Pop
  <2>7. CASE Result(t) BY <2>7, <2>0 DEF Result
  <2>8. CASE Load(t) BY <2>8, <2>0 DEF Load
  <2>9. CASE RunProgram(t) BY <2>9, <2>0 DEF RunProgram
  <2>10. CASE NextVariant(t) BY <2>10, <2>0 DEF NextVariant
  <2>11. CASE ExistingKey(t) BY <2>11, <2>0 DEF ExistingKey
  <2>12. CASE GetDefaultRunner(t) BY <2>12, <2>0 DEF GetDefaultRunner
  <2>13. CASE Submit(t) BY <2>13, <2>0 DEF Submit, NewFuture, HeldInv
  <2>14. CASE Store(t)
    <3>1. UNCHANGED <<status, seen, reported>>
      BY <2>14 DEF Store
    <3>2. CASE UNCHANGED jobs /\ (outcome'[t] = "failure" \/ UNCHANGED outcome)
      BY <2>0, <3>1, <3>2
    <3>3. CASE status[fut[t]] = "pending" /\ jobs' = [jobs EXCEPT ![var[t]] = fut[t]]
               /\ UNCHANGED outcome
      BY <2>0, <3>1, <3>3
    <3> QED BY <2>14, <3>2, <3>3 DEF Store
  <2>15. CASE EagerLoad(t) BY <2>15, <2>0 DEF EagerLoad, AfterCompile
  <2>16. CASE Track(t) BY <2>16, <2>0 DEF Track, AfterCompile
  <2>17. CASE Reset(t) BY <2>17, <2>0 DEF Reset
  <2>18. CASE Drain(t) BY <2>18, <2>0 DEF Drain
  <2>19. CASE Snapshot(t) BY <2>19, <2>0 DEF Snapshot
  <2>20. CASE Collect(t) BY <2>20, <2>0 DEF Collect, JobKnown, SnapComplete
  <2>21. CASE Forget(t) BY <2>21, <2>0 DEF Forget
  <2> HIDE DEF NotSilent, TypeOK
  <2> QED
    BY <1>1, <2>1, <2>2, <2>3, <2>4, <2>5, <2>6, <2>7, <2>8, <2>9, <2>10, <2>11,
       <2>12, <2>13, <2>14, <2>15, <2>16, <2>17, <2>18, <2>19, <2>20, <2>21 DEF Start, Step
<1>2. CASE Environment
  <2> USE ConstantsAssumption, <1>0 DEF TypeOK, SharedTypeOK, ThreadsTypeOK,
            NotSilent, pools, objects, threads, Locals, history
  <2>1. ASSUME NEW f \in Futures, NEW s \in {"ok", "failed"}, WorkerFinish(f, s)
        PROVE  NotSilent(w)'
    BY <2>1 DEF WorkerFinish, WaitInv
  <2>2. ASSUME NEW r \in Runners, WorkerCrash(r) PROVE NotSilent(w)'
    BY <2>2 DEF WorkerCrash, Pending, WaitInv
  <2>3. ASSUME NEW p \in Pools, DropPool(p) PROVE NotSilent(w)'
    BY <2>3 DEF DropPool
  <2>4. CASE CyclicGC
    BY <2>4 DEF CyclicGC
  <2>5. ASSUME NEW f \in Futures, Reclaim(f) PROVE NotSilent(w)'
    BY <2>5 DEF Reclaim, Alive
  <2>6. ASSUME NEW r \in Runners, ReclaimRunner(r) PROVE NotSilent(w)'
    BY <2>6 DEF ReclaimRunner
  <2> HIDE DEF NotSilent
  <2> QED BY <1>2, <2>1, <2>2, <2>3, <2>4, <2>5, <2>6 DEF Environment, Memory
<1>3. CASE UNCHANGED vars
  BY <1>0, <1>3 DEF vars, pools, objects, history, NotSilent
<1> QED BY <1>1, <1>2, <1>3, StepKinds, OnlyClientSteps

ClientInv(w) == OthersIdle(w) /\ RunnerAt(w) /\ SilentInv(w)

(* One client has neither a second waiter nor a variant in common. *)
LEMMA SoleIsAlone ==
  ASSUME NEW w \in Threads, SoleClient(w)
  PROVE  OneWaiter /\ Unshared
BY ConstantsAssumption DEF SoleClient, OneWaiter, Unshared

(* Every behaviour with one client satisfies the invariants of a client. *)
LEMMA ClientInductive ==
  ASSUME NEW w \in Threads, SoleClient(w)
  PROVE  Spec => [](WaiterInv /\ ClientInv(w))
<1>1. Init => ClientInv(w)
  BY DEF Init, ClientInv, OthersIdle, RunnerAt, SilentInv, JobKnown, SnapComplete, NotSilent
<1>2. WaiterInv /\ ClientInv(w) /\ [Next]_vars => ClientInv(w)'
  <2> SUFFICES ASSUME IInv, TableInv, ClientInv(w), [Next]_vars PROVE ClientInv(w)'
    BY DEF WaiterInv
  <2>1. TypeOK /\ LocalsOK /\ OthersIdle(w) /\ RunnerAt(w) /\ SilentInv(w)
    BY DEF IInv, ClientInv
  <2>2. OthersIdle(w)'
    BY <2>1, IdleStep
  <2>3. RunnerAt(w)'
    BY <2>1, RunnerStep
  <2>4. SilentInv(w)'
    BY <2>1, KnownStep, SnapStep, NotSilentStep DEF SilentInv
  <2> QED BY <2>2, <2>3, <2>4 DEF ClientInv
<1>3. OneWaiter
  BY SoleIsAlone
<1>4. Spec => []WaiterInv
  BY <1>3, OneWaiterInductive
<1> QED BY <1>1, <1>2, <1>4, PTL DEF Spec

(* A program that compiles, calls and waits from one thread never submits to
   a runner that its wait_for_compilation shut down, whatever the workers do.
   The run pool_stale_runner shows that a second thread is enough to do so. *)
THEOREM NeverStale ==
  ASSUME NEW w \in Threads, SoleClient(w)
  PROVE  Spec => []NoStaleRunner
<1>1. WaiterInv /\ ClientInv(w) => NoStaleRunner
  BY DEF ClientInv, OthersIdle, RunnerAt, NoStaleRunner
<1> QED BY <1>1, ClientInductive, PTL

(* For a program that uses the pools from one thread, wait_for_compilation
   returns normally only if every job it saw and that its pool still holds
   succeeded or has been raised before, whatever the workers do. *)
THEOREM NeverSilent ==
  ASSUME NEW w \in Threads, SoleClient(w)
  PROVE  Spec => []NoSilentFailure
<1>1. WaiterInv /\ ClientInv(w) => NoSilentFailure
  BY DEF ClientInv, OthersIdle, SilentInv, NotSilent, NoSilentFailure
<1> QED BY <1>1, ClientInductive, PTL
=============================================================================
