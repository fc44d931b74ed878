----------------------- MODULE DaceBuildFolderProofs -----------------------
(***************************************************************************)
(* Proofs about DaceBuildFolder for any clients and programs.              *)
(***************************************************************************)
EXTENDS DaceBuildFolder, TLAPS

(* The locks exclude. *)
LockInv ==
  \A q \in Clients :
    /\ pc[q] # "idle" => prog[q] \in Programs
    /\ pc[q] \notin {"idle", "lock", "load"} => lock[prog[q]] = q

(* Without the marker nothing stale reaches DaCe, and the marker is absent
   while DaCe is at work. *)
MarkerInv ==
  \A q \in Clients :
    /\ pc[q] = "unmark" /\ prog[q] \notin marker => library[prog[q]] = "absent"
    /\ pc[q] \in {"compile", "build", "mark"} => prog[q] \notin marker
    /\ pc[q] \in {"compile", "mark"} => library[prog[q]] # "partial"

(* What a client is about to load is complete, and whoever locks its folder
   next finds the marker, unless the client is excused. *)
ServedInv ==
  \A q \in Clients :
    /\ pc[q] = "mark" /\ ~excused[q] => library[prog[q]] = "complete"
    /\ pc[q] = "load" /\ ~excused[q] =>
         /\ library[prog[q]] = "complete"
         /\ \/ prog[q] \in marker
            \/ \E r \in Clients : pc[r] \in {"compile", "mark"} /\ prog[r] = prog[q]

IInv ==
  TypeOK /\ LockInv /\ MarkedIsWhole /\ MarkerInv /\ ServedInv /\ LoadsWhole

(* Whom Excuse excuses. *)
LEMMA Excused ==
  ASSUME NEW p, NEW ls, excused \in [Clients -> BOOLEAN], Excuse(p, ls)
  PROVE  /\ excused' \in [Clients -> BOOLEAN]
         /\ \A r \in Clients : ~excused'[r] =>
              /\ excused'[r] = excused[r]
              /\ ~(prog[r] = p /\ pc[r] \in ls)
<1>1. excused' = [r \in Clients |-> IF prog[r] = p /\ pc[r] \in ls THEN TRUE
                                                               ELSE excused[r]]
  BY DEF Excuse
<1>2. ASSUME NEW r \in Clients, prog[r] = p /\ pc[r] \in ls PROVE excused'[r] = TRUE
  BY <1>1, <1>2, Zenon
<1>3. ASSUME NEW r \in Clients, ~(prog[r] = p /\ pc[r] \in ls)
      PROVE  excused'[r] = excused[r]
  BY <1>1, <1>3, Zenon
<1>4. \A r \in Clients : excused'[r] \in BOOLEAN
  BY <1>2, <1>3, Zenon
<1> QED BY <1>1, <1>2, <1>3, <1>4, Zenon

(* Every step keeps the types. *)
LEMMA TypeStep ==
  ASSUME TypeOK, LockInv, [Next]_vars
  PROVE  TypeOK'
<1> USE DaceAssumption DEF TypeOK, Contents, Labels, LockInv,
      vars, files, clients, At, Goto, Finish, Unlock, Excuse
<1>1. ASSUME NEW q \in Clients, NEW p \in Programs, Compile(q, p) PROVE TypeOK'
  BY <1>1 DEF Compile
<1>2. ASSUME NEW q \in Clients, Step(q) PROVE TypeOK'
  <2>1. CASE Lock(q) BY <2>1 DEF Lock
  <2>2. CASE CheckMarker(q) BY <2>2 DEF CheckMarker
  <2>3. CASE UnlinkMarker(q) BY <2>3 DEF UnlinkMarker
  <2>4. CASE SdfgCompile(q) BY <2>4 DEF SdfgCompile
  <2>5. CASE SdfgBuild(q) BY <2>5 DEF SdfgBuild
  <2>6. CASE TouchMarker(q) BY <2>6 DEF TouchMarker
  <2>7. CASE Load(q) BY <2>7 DEF Load
  <2> QED BY <1>2, <2>1, <2>2, <2>3, <2>4, <2>5, <2>6, <2>7 DEF Step
<1>3. ASSUME NEW q \in Clients, Crash(q) PROVE TypeOK'
  <2>1. excused' \in [Clients -> BOOLEAN]
    <3>1. CASE pc[q] \in {"compile", "mark"}
      <4>1. Excuse(prog[q], {"load"}) BY <1>3, <3>1 DEF Crash
      <4> HIDE DEF Excuse
      <4> QED BY <4>1, Excused
    <3>2. CASE pc[q] \notin {"compile", "mark"} BY <1>3, <3>2, Zenon DEF Crash
    <3> QED BY <3>1, <3>2
  <2>2. /\ library' \in [Programs -> Contents]
        /\ marker' \subseteq Programs
        /\ lock' \in [Programs -> Clients \cup {None}]
        /\ pc' \in [Clients -> Labels]
        /\ prog' \in [Clients -> Programs \cup {None}]
        /\ result' \in [Clients -> {"none", "error", "loaded", "loadError"}]
    BY <1>3 DEF Crash
  <2> QED BY <2>1, <2>2
<1>4. ASSUME NEW p \in Programs, CleanUp(p) PROVE TypeOK'
  BY <1>4 DEF CleanUp
<1>5. CASE UNCHANGED vars BY <1>5
<1> QED BY <1>1, <1>2, <1>3, <1>4, <1>5 DEF Next

(* No step lets two clients into one folder. *)
LEMMA LockStep ==
  ASSUME TypeOK, LockInv, [Next]_vars
  PROVE  LockInv'
<1> USE DaceAssumption DEF TypeOK, Contents, Labels, LockInv,
      vars, files, clients, At, Goto, Finish, Unlock, Excuse
<1>1. ASSUME NEW q \in Clients, NEW p \in Programs, Compile(q, p) PROVE LockInv'
  BY <1>1 DEF Compile
<1>2. ASSUME NEW q \in Clients, Step(q) PROVE LockInv'
  <2>1. CASE Lock(q) BY <2>1 DEF Lock
  <2>2. CASE CheckMarker(q) BY <2>2 DEF CheckMarker
  <2>3. CASE UnlinkMarker(q) BY <2>3 DEF UnlinkMarker
  <2>4. CASE SdfgCompile(q) BY <2>4 DEF SdfgCompile
  <2>5. CASE SdfgBuild(q) BY <2>5 DEF SdfgBuild
  <2>6. CASE TouchMarker(q) BY <2>6 DEF TouchMarker
  <2>7. CASE Load(q) BY <2>7 DEF Load
  <2> QED BY <1>2, <2>1, <2>2, <2>3, <2>4, <2>5, <2>6, <2>7 DEF Step
<1>3. ASSUME NEW q \in Clients, Crash(q) PROVE LockInv'
  BY <1>3 DEF Crash
<1>4. ASSUME NEW p \in Programs, CleanUp(p) PROVE LockInv'
  BY <1>4 DEF CleanUp
<1>5. CASE UNCHANGED vars BY <1>5
<1> QED BY <1>1, <1>2, <1>3, <1>4, <1>5 DEF Next

(* The marker is withdrawn before a library is written and set only after it
   is complete. *)
LEMMA MarkerStep ==
  ASSUME TypeOK, LockInv, MarkedIsWhole, MarkerInv, [Next]_vars
  PROVE  (MarkedIsWhole /\ MarkerInv)'
<1> USE DaceAssumption DEF TypeOK, Contents, Labels, LockInv,
      MarkedIsWhole, MarkerInv, vars, files, clients, At, Goto, Finish, Unlock, Excuse
<1>1. ASSUME NEW q \in Clients, NEW p \in Programs, Compile(q, p) PROVE (MarkedIsWhole /\ MarkerInv)'
  BY <1>1 DEF Compile
<1>2. ASSUME NEW q \in Clients, Step(q) PROVE (MarkedIsWhole /\ MarkerInv)'
  <2>1. CASE Lock(q) BY <2>1 DEF Lock
  <2>2. CASE CheckMarker(q) BY <2>2 DEF CheckMarker
  <2>3. CASE UnlinkMarker(q) BY <2>3 DEF UnlinkMarker
  <2>4. CASE SdfgCompile(q) BY <2>4 DEF SdfgCompile
  <2>5. CASE SdfgBuild(q) BY <2>5 DEF SdfgBuild
  <2>6. CASE TouchMarker(q) BY <2>6 DEF TouchMarker
  <2>7. CASE Load(q) BY <2>7 DEF Load
  <2> QED BY <1>2, <2>1, <2>2, <2>3, <2>4, <2>5, <2>6, <2>7 DEF Step
<1>3. ASSUME NEW q \in Clients, Crash(q) PROVE (MarkedIsWhole /\ MarkerInv)'
  BY <1>3 DEF Crash
<1>4. ASSUME NEW p \in Programs, CleanUp(p) PROVE (MarkedIsWhole /\ MarkerInv)'
  BY <1>4 DEF CleanUp
<1>5. CASE UNCHANGED vars BY <1>5
<1> QED BY <1>1, <1>2, <1>3, <1>4, <1>5 DEF Next

(* What was served is not dropped. *)
LEMMA ServedStep ==
  ASSUME TypeOK, LockInv, MarkedIsWhole, MarkerInv, ServedInv, LoadsWhole, [Next]_vars
  PROVE  (ServedInv /\ LoadsWhole)'
<1> USE DaceAssumption DEF TypeOK, Contents, Labels, LockInv,
      MarkedIsWhole, MarkerInv, ServedInv, LoadsWhole, vars, files, clients, At, Goto, Finish, Unlock, Excuse
<1>1. ASSUME NEW q \in Clients, NEW p \in Programs, Compile(q, p) PROVE (ServedInv /\ LoadsWhole)'
  BY <1>1 DEF Compile
<1>2. ASSUME NEW q \in Clients, Step(q) PROVE (ServedInv /\ LoadsWhole)'
  <2>1. CASE Lock(q) BY <2>1 DEF Lock
  <2>2. CASE CheckMarker(q) BY <2>2 DEF CheckMarker
  <2>3. CASE UnlinkMarker(q) BY <2>3 DEF UnlinkMarker
  <2>4. CASE SdfgCompile(q) BY <2>4 DEF SdfgCompile
  <2>5. CASE SdfgBuild(q) BY <2>5 DEF SdfgBuild
  <2>6. CASE TouchMarker(q) BY <2>6 DEF TouchMarker
  <2>7. CASE Load(q) BY <2>7 DEF Load
  <2> QED BY <1>2, <2>1, <2>2, <2>3, <2>4, <2>5, <2>6, <2>7 DEF Step
<1>3. ASSUME NEW q \in Clients, Crash(q) PROVE (ServedInv /\ LoadsWhole)'
  <2>1. /\ pc' = [pc EXCEPT ![q] = "idle"]
        /\ prog' = [prog EXCEPT ![q] = None]
        /\ result' = [result EXCEPT ![q] = "none"]
        /\ UNCHANGED <<library, marker>>
    BY <1>3 DEF Crash
  <2>2. CASE pc[q] \in {"compile", "mark"}
    <3>1. \A r \in Clients : ~excused'[r] =>
            excused'[r] = excused[r] /\ ~(prog[r] = prog[q] /\ pc[r] \in {"load"})
      <4>1. Excuse(prog[q], {"load"}) BY <1>3, <2>2 DEF Crash
      <4> HIDE DEF Excuse
      <4> QED BY <4>1, Excused
    <3> QED BY <2>1, <2>2, <3>1
  <2>3. CASE pc[q] \notin {"compile", "mark"}
    <3>1. excused' = excused BY <1>3, <2>3 DEF Crash
    <3> QED BY <2>1, <2>3, <3>1
  <2> QED BY <2>2, <2>3
<1>4. ASSUME NEW p \in Programs, CleanUp(p) PROVE (ServedInv /\ LoadsWhole)'
  BY <1>4 DEF CleanUp
<1>5. CASE UNCHANGED vars BY <1>5
<1> QED BY <1>1, <1>2, <1>3, <1>4, <1>5 DEF Next

(* The invariant holds at the start and every step keeps it. *)
LEMMA Inductive == Spec => []IInv
<1>1. Init => IInv
  BY DaceAssumption
     DEF Init, IInv, TypeOK, Contents, Labels, LockInv, MarkedIsWhole, MarkerInv,
         ServedInv, LoadsWhole
<1>2. IInv /\ [Next]_vars => IInv'
  BY TypeStep, LockStep, MarkerStep, ServedStep DEF IInv
<1> QED BY <1>1, <1>2, PTL DEF Spec

(* Libraries, markers, locks and clients keep their types. *)
THEOREM TypeCorrect == Spec => []TypeOK
<1>1. IInv => TypeOK BY DEF IInv
<1> QED BY <1>1, Inductive, PTL

(* DaCeCompiler never leaves its marker next to a truncated library, which
   DaCe would reuse. *)
THEOREM Marked == Spec => []MarkedIsWhole
<1>1. IInv => MarkedIsWhole BY DEF IInv
<1> QED BY <1>1, Inductive, PTL

(* DaCeCompilationArtifact.load finds a complete library unless it was deleted
   from outside or a client died without the marker in between. *)
THEOREM WholeLoads == Spec => []LoadsWhole
<1>1. IInv => LoadsWhole BY DEF IInv
<1> QED BY <1>1, Inductive, PTL
=============================================================================
