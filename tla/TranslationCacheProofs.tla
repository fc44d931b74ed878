----------------------- MODULE TranslationCacheProofs -----------------------
(***************************************************************************)
(* Proofs about TranslationCache for any clients, keys, deleters and       *)
(* damaged entries.                                                        *)
(***************************************************************************)
EXTENDS TranslationCache, TLAPS

Held     == {"load", "evict", "write", "replace", "stored", "unlink", "unlinked"}
Missing  == {"evict", "step", "wlock", "write", "replace"}
Deleting == {"unlink", "unlinked"}

(* The lock of an entry excludes: a client at work on the file owns it.  Only
   a delete unlinks, and only deleters delete. *)
LockInv ==
  \A c \in Clients :
    /\ pc[c] # "idle" => key[c] \in Keys
    /\ pc[c] \in Held => lock[key[c]] = c
    /\ pc[c] \in Deleting => op[c] = "del"
    /\ pc[c] \in Missing \cup {"load"} => op[c] = "call"
    /\ op[c] = "del" => c \in Deleters

(* What is about to be evicted is not good: it was unreadable when the lock
   was taken, and nobody else can publish meanwhile. *)
EvictInv == \A c \in Clients : pc[c] = "evict" => file[key[c]] # "good"

(* Whoever finds its entry missing or torn has met a gap. *)
GapInv ==
  \A c \in Clients :
    /\ pc[c] # "idle" /\ file[key[c]] # "good" => gap[c]
    /\ pc[c] \in Missing => gap[c]

IInv == TypeOK /\ LockInv /\ EvictInv /\ GapInv /\ NoForeignError

(* Every step keeps files, locks and clients within their types. *)
LEMMA TypeStep ==
  ASSUME TypeOK, LockInv, [Next]_vars
  PROVE  TypeOK'
<1> USE CacheAssumption DEF TypeOK, LockInv, Contents, Labels, Outcomes,
      Held, Missing, Deleting, At, Goto, Return, Unlock, SetFile, vars, clients
<1>1. ASSUME NEW c \in Clients, NEW k \in Keys, Call(c, k) \/ Delete(c, k) PROVE TypeOK'
  <2>1. PICK o \in {"call", "del"} : Begin(c, k, o) BY <1>1 DEF Call, Delete
  <2>2. gap' \in [Clients -> BOOLEAN]
    <3>1. gap' = [gap EXCEPT ![c] = file[k] # "good"] BY <2>1 DEF Begin
    <3>2. (file[k] # "good") \in BOOLEAN OBVIOUS
    <3> QED BY ONLY <3>1, <3>2, gap \in [Clients -> BOOLEAN], Zenon
  <2> QED BY <2>1, <2>2 DEF Begin
<1>2. ASSUME NEW c \in Clients, Advance(c) PROVE TypeOK'
  <2>1. CASE Contains(c) BY <2>1 DEF Contains
  <2>2. CASE Lock(c) BY <2>2 DEF Lock
  <2>3. CASE Load(c) BY <2>3 DEF Load
  <2>4. CASE Evict(c) BY <2>4 DEF Evict
  <2>5. CASE Step(c) BY <2>5 DEF Step
  <2>6. CASE LockForWrite(c) BY <2>6 DEF LockForWrite
  <2>7. CASE WriteTemp(c) BY <2>7 DEF WriteTemp
  <2>8. CASE Replace(c) BY <2>8 DEF Replace
  <2>9. CASE ReturnComputed(c) BY <2>9 DEF ReturnComputed
  <2>10. CASE ReturnCached(c) BY <2>10 DEF ReturnCached
  <2>11. CASE Unlink(c)
    <3>1. CASE file[key[c]] = "absent" BY <2>11, <3>1 DEF Unlink
    <3>2. CASE file[key[c]] # "absent"
      <4>1. SetFile(key[c], "absent") /\ Goto(c, "unlinked") /\ lock' = lock
        BY <2>11, <3>2 DEF Unlink
      <4> QED BY <4>1
    <3> QED BY <3>1, <3>2
  <2>12. CASE ReturnDeleted(c) BY <2>12 DEF ReturnDeleted
  <2> QED BY <1>2, <2>1, <2>2, <2>3, <2>4, <2>5, <2>6, <2>7, <2>8, <2>9, <2>10, <2>11, <2>12 DEF Advance
<1>3. ASSUME NEW c \in Clients, Kill(c) PROVE TypeOK'
  BY <1>3 DEF Kill
<1>4. ASSUME NEW k \in Keys, Damage(k) PROVE TypeOK'
  BY <1>4 DEF Damage
<1>5. CASE UNCHANGED vars BY <1>5
<1> QED BY <1>1, <1>2, <1>3, <1>4, <1>5 DEF Next

(* Every step keeps the locks exclusive. *)
LEMMA LockStep ==
  ASSUME TypeOK, LockInv, [Next]_vars
  PROVE  LockInv'
<1> USE CacheAssumption DEF TypeOK, LockInv, Contents, Labels, Outcomes,
      Held, Missing, Deleting, At, Goto, Return, Unlock, SetFile, vars, clients
<1>1. ASSUME NEW c \in Clients, NEW k \in Keys, Call(c, k) \/ Delete(c, k) PROVE LockInv'
  BY <1>1 DEF Call, Delete, Begin
<1>2. ASSUME NEW c \in Clients, Advance(c) PROVE LockInv'
  <2>1. CASE Contains(c) BY <2>1 DEF Contains
  <2>2. CASE Lock(c) BY <2>2 DEF Lock
  <2>3. CASE Load(c) BY <2>3 DEF Load
  <2>4. CASE Evict(c) BY <2>4 DEF Evict
  <2>5. CASE Step(c) BY <2>5 DEF Step
  <2>6. CASE LockForWrite(c) BY <2>6 DEF LockForWrite
  <2>7. CASE WriteTemp(c) BY <2>7 DEF WriteTemp
  <2>8. CASE Replace(c) BY <2>8 DEF Replace
  <2>9. CASE ReturnComputed(c) BY <2>9 DEF ReturnComputed
  <2>10. CASE ReturnCached(c) BY <2>10 DEF ReturnCached
  <2>11. CASE Unlink(c) BY <2>11 DEF Unlink
  <2>12. CASE ReturnDeleted(c) BY <2>12 DEF ReturnDeleted
  <2> QED BY <1>2, <2>1, <2>2, <2>3, <2>4, <2>5, <2>6, <2>7, <2>8, <2>9, <2>10, <2>11, <2>12 DEF Advance
<1>3. ASSUME NEW c \in Clients, Kill(c) PROVE LockInv'
  BY <1>3 DEF Kill
<1>4. ASSUME NEW k \in Keys, Damage(k) PROVE LockInv'
  BY <1>4 DEF Damage
<1>5. CASE UNCHANGED vars BY <1>5
<1> QED BY <1>1, <1>2, <1>3, <1>4, <1>5 DEF Next

(* Under its lock an unreadable entry stays unreadable until it is evicted. *)
LEMMA EvictStep ==
  ASSUME TypeOK, LockInv, EvictInv, [Next]_vars
  PROVE  EvictInv'
<1> USE CacheAssumption DEF TypeOK, LockInv, EvictInv, Held, Contents, At, Goto, Return, Unlock, SetFile, vars, clients
<1>1. ASSUME NEW c \in Clients, NEW k \in Keys, Call(c, k) \/ Delete(c, k) PROVE EvictInv'
  BY <1>1 DEF Call, Delete, Begin
<1>2. ASSUME NEW c \in Clients, Advance(c) PROVE EvictInv'
  <2>1. CASE Contains(c) BY <2>1 DEF Contains
  <2>2. CASE Lock(c) BY <2>2 DEF Lock
  <2>3. CASE Load(c) BY <2>3 DEF Load
  <2>4. CASE Evict(c) BY <2>4 DEF Evict
  <2>5. CASE Step(c) BY <2>5 DEF Step
  <2>6. CASE LockForWrite(c) BY <2>6 DEF LockForWrite
  <2>7. CASE WriteTemp(c) BY <2>7 DEF WriteTemp
  <2>8. CASE Replace(c) BY <2>8 DEF Replace
  <2>9. CASE ReturnComputed(c) BY <2>9 DEF ReturnComputed
  <2>10. CASE ReturnCached(c) BY <2>10 DEF ReturnCached
  <2>11. CASE Unlink(c) BY <2>11 DEF Unlink
  <2>12. CASE ReturnDeleted(c) BY <2>12 DEF ReturnDeleted
  <2> QED BY <1>2, <2>1, <2>2, <2>3, <2>4, <2>5, <2>6, <2>7, <2>8, <2>9, <2>10, <2>11, <2>12 DEF Advance
<1>3. ASSUME NEW c \in Clients, Kill(c) PROVE EvictInv'
  BY <1>3 DEF Kill
<1>4. ASSUME NEW k \in Keys, Damage(k) PROVE EvictInv'
  BY <1>4 DEF Damage
<1>5. CASE UNCHANGED vars BY <1>5
<1> QED BY <1>1, <1>2, <1>3, <1>4, <1>5 DEF Next

(* Every step records the gaps, and errors come with one. *)
LEMMA GapStep ==
  ASSUME TypeOK, LockInv, EvictInv, GapInv, NoForeignError, [Next]_vars
  PROVE  (GapInv /\ NoForeignError)'
<1> USE CacheAssumption DEF TypeOK, LockInv, EvictInv, GapInv, NoForeignError,
      Held, Missing, Deleting, Contents, At, Goto, Return, Unlock, SetFile, vars, clients
<1>1. ASSUME NEW c \in Clients, NEW k \in Keys, Call(c, k) \/ Delete(c, k) PROVE (GapInv /\ NoForeignError)'
  <2>1. PICK o \in {"call", "del"} : Begin(c, k, o) BY <1>1 DEF Call, Delete
  <2>2. file[k] # "good" => gap'[c] BY <2>1 DEF Begin
  <2>3. \A d \in Clients \ {c} : gap'[d] <=> gap[d] BY <2>1 DEF Begin
  <2>4. GapInv' BY <2>1, <2>2, <2>3 DEF Begin
  <2>5. NoForeignError' BY <2>1, <2>2, <2>3 DEF Begin
  <2> QED BY <2>4, <2>5
<1>2. ASSUME NEW c \in Clients, Advance(c) PROVE (GapInv /\ NoForeignError)'
  <2>1. CASE Contains(c) BY <2>1 DEF Contains
  <2>2. CASE Lock(c) BY <2>2 DEF Lock
  <2>3. CASE Load(c) BY <2>3 DEF Load
  <2>4. CASE Evict(c) BY <2>4 DEF Evict
  <2>5. CASE Step(c) BY <2>5 DEF Step
  <2>6. CASE LockForWrite(c) BY <2>6 DEF LockForWrite
  <2>7. CASE WriteTemp(c) BY <2>7 DEF WriteTemp
  <2>8. CASE Replace(c) BY <2>8 DEF Replace
  <2>9. CASE ReturnComputed(c) BY <2>9 DEF ReturnComputed
  <2>10. CASE ReturnCached(c) BY <2>10 DEF ReturnCached
  <2>11. CASE Unlink(c)
    <3>1. CASE file[key[c]] = "absent" BY <2>11, <3>1 DEF Unlink
    <3>2. CASE file[key[c]] # "absent"
      <4>1. SetFile(key[c], "absent") /\ Goto(c, "unlinked") /\ pc[c] = "unlink"
        BY <2>11, <3>2 DEF Unlink
      <4>2. \A d \in Clients : gap[d] \/ key[d] = key[c] => gap'[d] BY <4>1
      <4>3. \A j \in Keys : j = key[c] \/ file'[j] = file[j] BY <4>1
      <4> QED BY <4>1, <4>2, <4>3
    <3> QED BY <3>1, <3>2
  <2>12. CASE ReturnDeleted(c) BY <2>12 DEF ReturnDeleted
  <2> QED BY <1>2, <2>1, <2>2, <2>3, <2>4, <2>5, <2>6, <2>7, <2>8, <2>9, <2>10, <2>11, <2>12 DEF Advance
<1>3. ASSUME NEW c \in Clients, Kill(c) PROVE (GapInv /\ NoForeignError)'
  BY <1>3 DEF Kill
<1>4. ASSUME NEW k \in Keys, Damage(k) PROVE (GapInv /\ NoForeignError)'
  <2>1. PICK content \in {"torn", "absent"} : SetFile(k, content) BY <1>4 DEF Damage
  <2>2. \A c \in Clients : gap[c] \/ key[c] = k => gap'[c] BY <2>1
  <2>3. UNCHANGED <<lock, clients>> /\ \A j \in Keys : j = k \/ file'[j] = file[j]
    BY <1>4, <2>1 DEF Damage
  <2> QED BY <2>2, <2>3
<1>5. CASE UNCHANGED vars BY <1>5
<1> QED BY <1>1, <1>2, <1>3, <1>4, <1>5 DEF Next

(* The invariant holds at the start and every step keeps it. *)
LEMMA Inductive == Spec => []IInv
<1>1. Init => IInv
  BY CacheAssumption DEF Init, IInv, TypeOK, LockInv, EvictInv, GapInv,
     NoForeignError, Contents, Labels, Outcomes, Held, Missing, Deleting
<1>2. IInv /\ [Next]_vars => IInv'
  BY TypeStep, LockStep, EvictStep, GapStep DEF IInv
<1> QED BY <1>1, <1>2, PTL DEF Spec

(* Every entry, lock and client of the cache stays in a known state. *)
THEOREM TypeCorrect == Spec => []TypeOK
<1>1. IInv => TypeOK BY DEF IInv
<1> QED BY <1>1, Inductive, PTL

(* CachedStep runs its step only if its entry was missing or unreadable at
   some moment of the call. *)
THEOREM GoodIsUsed == Spec => []HitWhenGood
<1>1. IInv => HitWhenGood BY DEF IInv, GapInv, HitWhenGood, Missing
<1> QED BY <1>1, Inductive, PTL

(* The unlocked lookup of FileCache never makes a cached call fail, and makes
   a delete fail only if the entry went away meanwhile. *)
THEOREM Robust == Spec => []NoForeignError
<1>1. IInv => NoForeignError BY DEF IInv
<1> QED BY <1>1, Inductive, PTL
-----------------------------------------------------------------------------
(* The abstract cache that the files implement *)

Valid  == {k \in Keys : file[k] = "good"}
Asked  == [c \in Clients |-> IF pc[c] \in {"idle", "served"} THEN None ELSE key[c]]
Served == [c \in Clients |-> IF At(c, "served") THEN key[c] ELSE None]

(* A step that changes neither good entries nor requests is not seen. *)
LEMMA Hidden ==
  ASSUME Valid' = Valid, Asked' = Asked, Served' = Served
  PROVE  [AC!ACNext]_(AC!acVars)
BY DEF AC!acVars, Valid, Asked, Served

(* A client that goes on inside its operation keeps its request. *)
LEMMA Stays ==
  ASSUME TypeOK, NEW c \in Clients, pc[c] \notin {"idle", "served"},
         NEW l, l \notin {"idle", "served"},
         pc' = [pc EXCEPT ![c] = l], UNCHANGED key
  PROVE  Asked' = Asked /\ Served' = Served
BY DEF TypeOK, At, Asked, Served

(* A step inside an operation that touches no file. *)
LEMMA Quiet ==
  ASSUME TypeOK, NEW c \in Clients, pc[c] \notin {"idle", "served"},
         NEW l, l \notin {"idle", "served"},
         pc' = [pc EXCEPT ![c] = l], UNCHANGED <<key, file>>
  PROVE  [AC!ACNext]_(AC!acVars)
<1>1. Valid' = Valid BY DEF Valid
<1> QED BY <1>1, Stays, Hidden

(* An operation ends: its request is dropped, or its value is returned. *)
LEMMA Ends ==
  ASSUME TypeOK, LockInv, NEW c \in Clients, pc[c] # "idle", NEW o,
         Return(c, o), UNCHANGED file
  PROVE  [AC!ACNext]_(AC!acVars)
<1> USE CacheAssumption DEF TypeOK, LockInv, Return, At, Asked, Served
<1>1. Valid' = Valid BY DEF Valid
<1>2. CASE pc[c] = "served"
  <2>1. Asked' = Asked BY <1>2
  <2>2. Served[c] # None /\ Served' = [Served EXCEPT ![c] = None] BY <1>2
  <2>3. AC!Leave(c) BY <1>1, <2>1, <2>2 DEF AC!Leave, Valid
  <2> QED BY <2>3 DEF AC!ACNext
<1>3. CASE pc[c] # "served"
  <2>1. Served' = Served BY <1>3
  <2>2. Asked[c] # None /\ Asked' = [Asked EXCEPT ![c] = None] BY <1>3
  <2>3. AC!Reject(c) BY <1>1, <2>1, <2>2 DEF AC!Reject, Valid
  <2> QED BY <2>3 DEF AC!ACNext
<1> QED BY <1>2, <1>3

(* An entry that goes away does so from outside or by a deleter. *)
LEMMA Discards ==
  ASSUME NEW k \in Keys, k \in Fragile \/ \E c \in Deleters : Asked[c] = k,
         Valid' = Valid \ {k}, Asked' = Asked, Served' = Served
  PROVE  [AC!ACNext]_(AC!acVars)
<1>1. CASE k \in Valid
  <2>1. AC!Discard(k) BY <1>1 DEF AC!Discard, Valid, Asked, Served
  <2> QED BY <2>1 DEF AC!ACNext
<1>2. CASE k \notin Valid
  <2>1. Valid' = Valid BY <1>2
  <2> QED BY <2>1, Hidden
<1> QED BY <1>1, <1>2

(* A client inside its operation publishes the entry it asked for. *)
LEMMA Publishes ==
  ASSUME NEW k \in Keys, \E c \in Clients : Asked[c] = k,
         Valid' = Valid \cup {k}, Asked' = Asked, Served' = Served
  PROVE  [AC!ACNext]_(AC!acVars)
<1>1. CASE k \notin Valid
  <2>1. AC!Publish(k) BY <1>1 DEF AC!Publish, Valid, Asked, Served
  <2> QED BY <2>1 DEF AC!ACNext
<1>2. CASE k \in Valid
  <2>1. Valid' = Valid BY <1>2
  <2> QED BY <2>1, Hidden
<1> QED BY <1>1, <1>2

(* Every step is a step of the abstract cache, or one it does not see. *)
LEMMA RefinementStep ==
  ASSUME TypeOK, LockInv, EvictInv, [Next]_vars
  PROVE  [AC!ACNext]_(AC!acVars)
<1> DEFINE Goal == [AC!ACNext]_(AC!acVars)
<1> HIDE DEF Goal
<1>1. ASSUME NEW c \in Clients, NEW k \in Keys, Call(c, k) \/ Delete(c, k) PROVE Goal
  <2>1. PICK o : Begin(c, k, o) BY <1>1 DEF Call, Delete
  <2>2. Valid' = Valid BY <2>1 DEF Begin, Valid
  <2>3. Served' = Served BY <2>1 DEF Begin, At, Served, TypeOK
  <2>4. Asked' = [Asked EXCEPT ![c] = k] BY <2>1 DEF Begin, At, Asked, TypeOK
  <2>5. Asked[c] = None /\ Served[c] = None BY <2>1 DEF Begin, At, Asked, Served
  <2>6. AC!Ask(c, k) BY <2>2, <2>3, <2>4, <2>5 DEF AC!Ask, Valid, Asked, Served
  <2> QED BY <2>6 DEF AC!ACNext, Goal
<1>2. ASSUME NEW c \in Clients, Advance(c) PROVE Goal
  <2> USE DEF At, Goto, Goal
  <2>1. CASE Contains(c) BY <2>1, Quiet, Ends DEF Contains
  <2>2. CASE Lock(c) BY <2>2, Quiet DEF Lock
  <2>3. CASE Load(c)
    <3>1. CASE file[key[c]] = "good"
      <4>1. Valid' = Valid BY <2>3 DEF Load, Valid
      <4>2. Asked[c] = key[c] /\ key[c] \in Valid
        BY <2>3, <3>1 DEF Load, Asked, Valid, LockInv
      <4>3. Served' = [Served EXCEPT ![c] = Asked[c]]
        BY <2>3, <3>1, <4>2 DEF Load, Served, TypeOK
      <4>4. Asked' = [Asked EXCEPT ![c] = None]
        BY <2>3, <3>1 DEF Load, Asked, TypeOK
      <4>5. AC!Serve(c) BY <4>1, <4>2, <4>3, <4>4 DEF AC!Serve, Valid, Asked, Served
      <4> QED BY <4>5 DEF AC!ACNext
    <3>2. CASE file[key[c]] # "good" BY <2>3, <3>2, Quiet DEF Load
    <3> QED BY <3>1, <3>2
  <2>4. CASE Evict(c)
    <3>1. Asked' = Asked /\ Served' = Served BY <2>4, Stays DEF Evict
    <3>2. Valid' = Valid
      BY <2>4 DEF Evict, SetFile, Valid, EvictInv, LockInv, TypeOK
    <3> QED BY <3>1, <3>2, Hidden
  <2>5. CASE Step(c) BY <2>5, Quiet, Ends DEF Step
  <2>6. CASE LockForWrite(c) BY <2>6, Quiet DEF LockForWrite
  <2>7. CASE WriteTemp(c) BY <2>7, Quiet, Ends DEF WriteTemp
  <2>8. CASE Replace(c)
    <3>1. Asked' = Asked /\ Served' = Served BY <2>8, Stays DEF Replace
    <3>2. Valid' = Valid \cup {key[c]} /\ key[c] \in Keys
      BY <2>8 DEF Replace, SetFile, Valid, LockInv, TypeOK
    <3>3. Asked[c] = key[c] BY <2>8 DEF Replace, Asked
    <3> QED BY <3>1, <3>2, <3>3, Publishes
  <2>9. CASE ReturnComputed(c) BY <2>9, Ends DEF ReturnComputed
  <2>10. CASE ReturnCached(c) BY <2>10, Ends DEF ReturnCached
  <2>11. CASE Unlink(c)
    <3>1. CASE file[key[c]] = "absent" BY <2>11, <3>1, Ends DEF Unlink
    <3>2. CASE file[key[c]] # "absent"
      <4>1. Asked' = Asked /\ Served' = Served BY <2>11, <3>2, Stays DEF Unlink
      <4>2. Valid' = Valid \ {key[c]} /\ key[c] \in Keys
        BY <2>11, <3>2 DEF Unlink, SetFile, Valid, LockInv, TypeOK
      <4>3. c \in Deleters /\ Asked[c] = key[c]
        BY <2>11 DEF Unlink, LockInv, Deleting, Asked
      <4> QED BY <4>1, <4>2, <4>3, Discards
    <3> QED BY <3>1, <3>2
  <2>12. CASE ReturnDeleted(c) BY <2>12, Ends DEF ReturnDeleted
  <2> QED BY <1>2, <2>1, <2>2, <2>3, <2>4, <2>5, <2>6, <2>7, <2>8, <2>9,
             <2>10, <2>11, <2>12 DEF Advance
<1>3. ASSUME NEW c \in Clients, Kill(c) PROVE Goal
  BY <1>3, Ends DEF Kill, Goal
<1>4. ASSUME NEW k \in Keys, Damage(k) PROVE Goal
  <2>1. Asked' = Asked /\ Served' = Served
    BY <1>4 DEF Damage, clients, Asked, Served, At
  <2>2. Valid' = Valid \ {k} BY <1>4 DEF Damage, SetFile, Valid, TypeOK
  <2> QED BY <1>4, <2>1, <2>2, Discards DEF Damage, Goal
<1>5. CASE UNCHANGED vars
  <2>1. Valid' = Valid /\ Asked' = Asked /\ Served' = Served
    BY <1>5 DEF vars, clients, Valid, Asked, Served, At
  <2> QED BY <2>1, Hidden DEF Goal
<1> QED BY <1>1, <1>2, <1>3, <1>4, <1>5 DEF Next, Goal

(* FileCache with CachedStep keeps the promise of an artifact cache: a cached
   value is handed out only while its entry is good, and a good entry goes away
   only through __delitem__ or from outside. *)
THEOREM Refinement == Spec => ImplementsArtifactCache
<1>1. Init => AC!ACInit BY DEF Init, AC!ACInit, At
<1>2. IInv /\ [Next]_vars => [AC!ACNext]_(AC!acVars)
  BY RefinementStep DEF IInv
<1> QED BY <1>1, <1>2, Inductive, PTL DEF Spec, ImplementsArtifactCache, AC!ACSpec
=============================================================================
