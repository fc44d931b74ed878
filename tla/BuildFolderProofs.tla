------------------------- MODULE BuildFolderProofs -------------------------
(***************************************************************************)
(* Proofs about BuildFolder for any clients, programs and options.         *)
(***************************************************************************)
EXTENDS BuildFolder, TLAPS

(* The labels at which a client holds the lock of its program's folder, and
   those among them at which it is rebuilding the folder. *)
Building == {"tlock", "find", "create", "publish", "copy", "init", "config",
             "commit", "build", "link", "compiled"}
Locked   == Building \cup {"gate", "verify"}

(* The locks exclude: a client inside a folder or the template owns it. *)
LockInv ==
  \A q \in Clients :
    /\ pc[q] # "idle" => prog[q] \in Programs
    /\ pc[q] \in Locked => lock[prog[q]] = q
    /\ pc[q] \in {"find", "create", "publish"} => tlock = q

(* From the reset of the status until the module is written the folder is not
   marked compiled. *)
LinkInv ==
  \A q \in Clients :
    /\ pc[q] \in {"config", "commit", "build", "link"} =>
         data[prog[q]] # "COMPILED"
    /\ pc[q] = "compiled" => module[prog[q]] # "partial"

(* The readable template has all its archives, and what a client has put into
   its folder so far is complete, unless something outside interfered. *)
HealInv ==
  /\ template = "complete" => archive = "complete"
  /\ \A q \in Clients :
       /\ pc[q] \in {"copy", "init"} => archive = "complete"
       /\ pc[q] \in {"copy", "init", "config"} =>
            template = "complete" \/ excused[q]
       /\ pc[q] \in {"config", "commit", "build"} => library[prog[q]] = "complete"
       /\ pc[q] = "build" => commands[prog[q]] = "complete"
       /\ pc[q] \in {"build", "link", "compiled"} =>
            data[prog[q]] = "CONFIGURED" \/ excused[q]
       /\ pc[q] = "compiled" => module[prog[q]] = "complete" \/ excused[q]
       /\ pc[q] = "verify" => IsUsable(prog[q]) \/ excused[q]

(* Without force_recompile only an unusable folder is rebuilt, and what was
   served stays usable until it is loaded, unless the client is excused. *)
FreshInv ==
  /\ \A q \in Clients \ Forcing : pc[q] \in Building => ~IsUsable(prog[q])
  /\ \A q \in Clients : pc[q] = "load" => IsUsable(prog[q]) \/ excused[q]

IInv ==
  TypeOK /\ LockInv /\ CommitMarker /\ LinkInv /\ HealInv /\ NeverPoisoned
    /\ FreshInv /\ LoadsWhole

(* A cleanup excuses every client whose folder it touches, and all that are
   working if it touches the template. *)
LEMMA CleanUpExcuses ==
  ASSUME TypeOK, CleanUp
  PROVE  /\ excused' \in [Clients -> BOOLEAN]
         /\ \A q \in Clients : excused[q] => excused'[q]
         /\ \A q \in Clients : template' # template /\ pc[q] # "idle" => excused'[q]
         /\ \A q \in Clients :
              /\ prog[q] \in Programs
              /\ data'[prog[q]] # data[prog[q]] \/ module'[prog[q]] # module[prog[q]]
              => excused'[q]
<1>1. CASE \E p \in Exposed :
             /\ \/ module' = [module EXCEPT ![p] = "absent"] /\ UNCHANGED data
                \/ data' = [data EXCEPT ![p] = "torn"] /\ UNCHANGED module
             /\ excused' = [q \in Clients |-> IF prog[q] = p THEN TRUE ELSE excused[q]]
             /\ UNCHANGED template
  <2>1. PICK p \in Exposed :
          /\ \/ module' = [module EXCEPT ![p] = "absent"] /\ UNCHANGED data
             \/ data' = [data EXCEPT ![p] = "torn"] /\ UNCHANGED module
          /\ excused' = [q \in Clients |-> IF prog[q] = p THEN TRUE ELSE excused[q]]
          /\ UNCHANGED template
    BY <1>1
  <2>2. \A q \in Clients : excused'[q] = IF prog[q] = p THEN TRUE ELSE excused[q]
    BY <2>1, Zenon
  <2>3. \A q \in Clients : excused[q] \in BOOLEAN BY DEF TypeOK
  <2>4. excused' \in [Clients -> BOOLEAN] BY <2>1, <2>3, Zenon
  <2>5. \A q \in Clients : excused[q] => excused'[q] BY <2>2, Zenon
  <2>6. \A q \in Clients : prog[q] = p => excused'[q] BY <2>2, Zenon
  <2>7. \A q \in Clients : prog[q] \in Programs /\ prog[q] # p =>
          data'[prog[q]] = data[prog[q]] /\ module'[prog[q]] = module[prog[q]]
    BY <2>1 DEF TypeOK
  <2> QED BY <2>1, <2>4, <2>5, <2>6, <2>7, Zenon
<1>2. CASE /\ excused' = [q \in Clients |-> IF At(q, "idle") THEN excused[q] ELSE TRUE]
           /\ UNCHANGED <<data, module>>
  <2>1. \A q \in Clients : excused'[q] = IF pc[q] = "idle" THEN excused[q] ELSE TRUE
    BY <1>2, Zenon DEF At
  <2>2. \A q \in Clients : excused[q] \in BOOLEAN BY DEF TypeOK
  <2>3. excused' \in [Clients -> BOOLEAN] BY <1>2, <2>2, Zenon
  <2>4. data' = data /\ module' = module BY <1>2
  <2> QED BY <2>1, <2>3, <2>4, Zenon
<1> QED BY <1>1, <1>2, Zenon DEF CleanUp

(* A cleanup removes or damages files and does nothing else. *)
LEMMA CleanUpRemoves ==
  ASSUME TypeOK, CleanUp
  PROVE  /\ data' \in [Programs -> Statuses] /\ module' \in [Programs -> Contents]
         /\ \A p \in Programs : /\ data'[p] \in {data[p], "torn"}
                                /\ module'[p] \in {module[p], "absent"}
         /\ template' \in {template, "partial"}
         /\ UNCHANGED <<library, commands, archive, lock, tlock, pc, prog, result>>
BY BuildFolderAssumption DEF TypeOK, CleanUp, Statuses, Contents, locks

(* Every step keeps files, locks and clients within their types. *)
LEMMA TypeStep ==
  ASSUME TypeOK, LockInv, [Next]_vars
  PROVE  TypeOK'
<1> USE BuildFolderAssumption DEF TypeOK, Contents, Labels, Statuses, Building, Locked, LockInv,
      Overtaken, vars, files, locks, clients, At, Goto, Finish,
      Raise, Unlock
<1>1. ASSUME NEW q \in Clients, NEW p \in Programs, Compile(q, p) PROVE TypeOK'
  BY <1>1 DEF Compile
<1>2. ASSUME NEW q \in Clients, Step(q) PROVE TypeOK'
  <2>1. CASE Lock(q) BY <2>1 DEF Lock
  <2>2. CASE Gate(q) BY <2>2 DEF Gate
  <2>3. CASE Verify(q) BY <2>3 DEF Verify
  <2>4. CASE Load(q) BY <2>4 DEF Load
  <2>5. CASE LockTemplate(q) BY <2>5 DEF LockTemplate
  <2>6. CASE FindTemplate(q) BY <2>6 DEF FindTemplate
  <2>7. CASE CreateTemplate(q)
    <3>1. excused' \in [Clients -> BOOLEAN]
      <4>1. excused' = excused \/ excused' = [excused EXCEPT ![q] = TRUE]
        BY <2>7 DEF CreateTemplate
      <4> QED BY <4>1
    <3> QED BY <2>7, <3>1 DEF CreateTemplate
  <2>8. CASE PublishTemplate(q)
    <3>1. excused' \in [Clients -> BOOLEAN]
      <4>1. excused' = excused \/ excused' = [excused EXCEPT ![q] = TRUE]
        BY <2>8 DEF PublishTemplate
      <4> QED BY <4>1
    <3> QED BY <2>8, <3>1 DEF PublishTemplate
  <2>9. CASE CopyLibraries(q) BY <2>9 DEF CopyLibraries
  <2>10. CASE WriteInitialized(q) BY <2>10 DEF WriteInitialized
  <2>11. CASE RunConfig(q) BY <2>11 DEF RunConfig
  <2>12. CASE WriteConfigured(q) BY <2>12 DEF WriteConfigured
  <2>13. CASE RunBuild(q)
    <3>1. excused' \in [Clients -> BOOLEAN]
      <4>1. excused' = excused \/ excused' = [excused EXCEPT ![q] = TRUE]
        BY <2>13 DEF RunBuild
      <4> QED BY <4>1
    <3> QED BY <2>13, <3>1 DEF RunBuild
  <2>14. CASE Link(q)
    <3>1. excused' \in [Clients -> BOOLEAN]
      <4>1. excused' = excused \/ excused' = [excused EXCEPT ![q] = TRUE]
        BY <2>14 DEF Link
      <4> QED BY <4>1
    <3> QED BY <2>14, <3>1 DEF Link
  <2>15. CASE WriteCompiled(q) BY <2>15 DEF WriteCompiled
  <2> QED BY <1>2, <2>1, <2>2, <2>3, <2>4, <2>5, <2>6, <2>7, <2>8,
             <2>9, <2>10, <2>11, <2>12, <2>13, <2>14, <2>15 DEF Step
<1>3. ASSUME NEW q \in Clients, Crash(q) PROVE TypeOK'
  BY <1>3 DEF Crash
<1>4. CASE CleanUp
  BY <1>4, CleanUpExcuses, CleanUpRemoves
<1>5. CASE UNCHANGED vars BY <1>5
<1> QED BY <1>1, <1>2, <1>3, <1>4, <1>5 DEF Next

(* No step lets two clients into one folder or into the template. *)
LEMMA LockStep ==
  ASSUME TypeOK, LockInv, [Next]_vars
  PROVE  LockInv'
<1> USE BuildFolderAssumption DEF TypeOK, Contents, Labels, Statuses, Building, Locked, LockInv,
      Overtaken, vars, files, locks, clients, At, Goto, Finish,
      Raise, Unlock
<1>1. ASSUME NEW q \in Clients, NEW p \in Programs, Compile(q, p) PROVE LockInv'
  BY <1>1 DEF Compile
<1>2. ASSUME NEW q \in Clients, Step(q) PROVE LockInv'
  <2>1. CASE Lock(q) BY <2>1 DEF Lock
  <2>2. CASE Gate(q) BY <2>2 DEF Gate
  <2>3. CASE Verify(q) BY <2>3 DEF Verify
  <2>4. CASE Load(q) BY <2>4 DEF Load
  <2>5. CASE LockTemplate(q) BY <2>5 DEF LockTemplate
  <2>6. CASE FindTemplate(q) BY <2>6 DEF FindTemplate
  <2>7. CASE CreateTemplate(q) BY <2>7 DEF CreateTemplate
  <2>8. CASE PublishTemplate(q) BY <2>8 DEF PublishTemplate
  <2>9. CASE CopyLibraries(q) BY <2>9 DEF CopyLibraries
  <2>10. CASE WriteInitialized(q) BY <2>10 DEF WriteInitialized
  <2>11. CASE RunConfig(q) BY <2>11 DEF RunConfig
  <2>12. CASE WriteConfigured(q) BY <2>12 DEF WriteConfigured
  <2>13. CASE RunBuild(q) BY <2>13 DEF RunBuild
  <2>14. CASE Link(q) BY <2>14 DEF Link
  <2>15. CASE WriteCompiled(q) BY <2>15 DEF WriteCompiled
  <2> QED BY <1>2, <2>1, <2>2, <2>3, <2>4, <2>5, <2>6, <2>7, <2>8,
             <2>9, <2>10, <2>11, <2>12, <2>13, <2>14, <2>15 DEF Step
<1>3. ASSUME NEW q \in Clients, Crash(q) PROVE LockInv'
  BY <1>3 DEF Crash
<1>4. CASE CleanUp
  BY <1>4, CleanUpExcuses, CleanUpRemoves
<1>5. CASE UNCHANGED vars BY <1>5
<1> QED BY <1>1, <1>2, <1>3, <1>4, <1>5 DEF Next

(* A folder is marked compiled only when its module is written, and the mark
   is withdrawn before the module is written again. *)
LEMMA CommitStep ==
  ASSUME TypeOK, LockInv, CommitMarker, LinkInv, [Next]_vars
  PROVE  (CommitMarker /\ LinkInv)'
<1> USE BuildFolderAssumption DEF TypeOK, Contents, Labels, Statuses, Building, Locked, LockInv,
      CommitMarker, LinkInv, Overtaken, vars, files, locks, clients, At, Goto, Finish,
      Raise, Unlock
<1>1. ASSUME NEW q \in Clients, NEW p \in Programs, Compile(q, p) PROVE (CommitMarker /\ LinkInv)'
  BY <1>1 DEF Compile
<1>2. ASSUME NEW q \in Clients, Step(q) PROVE (CommitMarker /\ LinkInv)'
  <2>1. CASE Lock(q) BY <2>1 DEF Lock
  <2>2. CASE Gate(q) BY <2>2 DEF Gate
  <2>3. CASE Verify(q) BY <2>3 DEF Verify
  <2>4. CASE Load(q) BY <2>4 DEF Load
  <2>5. CASE LockTemplate(q) BY <2>5 DEF LockTemplate
  <2>6. CASE FindTemplate(q) BY <2>6 DEF FindTemplate
  <2>7. CASE CreateTemplate(q) BY <2>7 DEF CreateTemplate
  <2>8. CASE PublishTemplate(q) BY <2>8 DEF PublishTemplate
  <2>9. CASE CopyLibraries(q) BY <2>9 DEF CopyLibraries
  <2>10. CASE WriteInitialized(q) BY <2>10 DEF WriteInitialized
  <2>11. CASE RunConfig(q) BY <2>11 DEF RunConfig
  <2>12. CASE WriteConfigured(q) BY <2>12 DEF WriteConfigured
  <2>13. CASE RunBuild(q) BY <2>13 DEF RunBuild
  <2>14. CASE Link(q) BY <2>14 DEF Link
  <2>15. CASE WriteCompiled(q) BY <2>15 DEF WriteCompiled
  <2> QED BY <1>2, <2>1, <2>2, <2>3, <2>4, <2>5, <2>6, <2>7, <2>8,
             <2>9, <2>10, <2>11, <2>12, <2>13, <2>14, <2>15 DEF Step
<1>3. ASSUME NEW q \in Clients, Crash(q) PROVE (CommitMarker /\ LinkInv)'
  BY <1>3 DEF Crash
<1>4. CASE CleanUp
  BY <1>4, CleanUpExcuses, CleanUpRemoves
<1>5. CASE UNCHANGED vars BY <1>5
<1> QED BY <1>1, <1>2, <1>3, <1>4, <1>5 DEF Next

(* What an earlier client left behind cannot make a later one fail. *)
LEMMA HealStep ==
  ASSUME TypeOK, LockInv, LinkInv, HealInv, NeverPoisoned, [Next]_vars
  PROVE  (HealInv /\ NeverPoisoned)'
<1> USE BuildFolderAssumption DEF TypeOK, Contents, Labels, Statuses, Building, Locked, LockInv,
      LinkInv, HealInv, NeverPoisoned, IsUsable, Overtaken, vars, files, locks, clients, At, Goto, Finish,
      Raise, Unlock
<1>1. ASSUME NEW q \in Clients, NEW p \in Programs, Compile(q, p) PROVE (HealInv /\ NeverPoisoned)'
  BY <1>1 DEF Compile
<1>2. ASSUME NEW q \in Clients, Step(q) PROVE (HealInv /\ NeverPoisoned)'
  <2>1. CASE Lock(q) BY <2>1 DEF Lock
  <2>2. CASE Gate(q) BY <2>2 DEF Gate
  <2>3. CASE Verify(q) BY <2>3 DEF Verify
  <2>4. CASE Load(q) BY <2>4 DEF Load
  <2>5. CASE LockTemplate(q) BY <2>5 DEF LockTemplate
  <2>6. CASE FindTemplate(q) BY <2>6 DEF FindTemplate
  <2>7. CASE CreateTemplate(q) BY <2>7 DEF CreateTemplate
  <2>8. CASE PublishTemplate(q) BY <2>8 DEF PublishTemplate
  <2>9. CASE CopyLibraries(q) BY <2>9 DEF CopyLibraries
  <2>10. CASE WriteInitialized(q) BY <2>10 DEF WriteInitialized
  <2>11. CASE RunConfig(q) BY <2>11 DEF RunConfig
  <2>12. CASE WriteConfigured(q) BY <2>12 DEF WriteConfigured
  <2>13. CASE RunBuild(q) BY <2>13 DEF RunBuild
  <2>14. CASE Link(q) BY <2>14 DEF Link
  <2>15. CASE WriteCompiled(q) BY <2>15 DEF WriteCompiled
  <2> QED BY <1>2, <2>1, <2>2, <2>3, <2>4, <2>5, <2>6, <2>7, <2>8,
             <2>9, <2>10, <2>11, <2>12, <2>13, <2>14, <2>15 DEF Step
<1>3. ASSUME NEW q \in Clients, Crash(q) PROVE (HealInv /\ NeverPoisoned)'
  BY <1>3 DEF Crash
<1>4. CASE CleanUp
  BY <1>4, CleanUpExcuses, CleanUpRemoves
<1>5. CASE UNCHANGED vars BY <1>5
<1> QED BY <1>1, <1>2, <1>3, <1>4, <1>5 DEF Next

(* Served folders are not rebuilt. *)
LEMMA FreshStep ==
  ASSUME TypeOK, LockInv, CommitMarker, LinkInv, FreshInv, LoadsWhole, [Next]_vars
  PROVE  (FreshInv /\ LoadsWhole)'
<1> USE BuildFolderAssumption DEF TypeOK, Contents, Labels, Statuses, Building, Locked, LockInv,
      CommitMarker, LinkInv, FreshInv, LoadsWhole, IsUsable, Overtaken, vars, files, locks, clients, At, Goto, Finish,
      Raise, Unlock
<1>1. ASSUME NEW q \in Clients, NEW p \in Programs, Compile(q, p) PROVE (FreshInv /\ LoadsWhole)'
  BY <1>1 DEF Compile
<1>2. ASSUME NEW q \in Clients, Step(q) PROVE (FreshInv /\ LoadsWhole)'
  <2>1. CASE Lock(q) BY <2>1 DEF Lock
  <2>2. CASE Gate(q) BY <2>2 DEF Gate
  <2>3. CASE Verify(q) BY <2>3 DEF Verify
  <2>4. CASE Load(q) BY <2>4 DEF Load
  <2>5. CASE LockTemplate(q) BY <2>5 DEF LockTemplate
  <2>6. CASE FindTemplate(q) BY <2>6 DEF FindTemplate
  <2>7. CASE CreateTemplate(q) BY <2>7 DEF CreateTemplate
  <2>8. CASE PublishTemplate(q) BY <2>8 DEF PublishTemplate
  <2>9. CASE CopyLibraries(q) BY <2>9 DEF CopyLibraries
  <2>10. CASE WriteInitialized(q) BY <2>10 DEF WriteInitialized
  <2>11. CASE RunConfig(q) BY <2>11 DEF RunConfig
  <2>12. CASE WriteConfigured(q) BY <2>12 DEF WriteConfigured
  <2>13. CASE RunBuild(q) BY <2>13 DEF RunBuild
  <2>14. CASE Link(q) BY <2>14 DEF Link
  <2>15. CASE WriteCompiled(q) BY <2>15 DEF WriteCompiled
  <2> QED BY <1>2, <2>1, <2>2, <2>3, <2>4, <2>5, <2>6, <2>7, <2>8,
             <2>9, <2>10, <2>11, <2>12, <2>13, <2>14, <2>15 DEF Step
<1>3. ASSUME NEW q \in Clients, Crash(q) PROVE (FreshInv /\ LoadsWhole)'
  BY <1>3 DEF Crash
<1>4. CASE CleanUp
  BY <1>4, CleanUpExcuses, CleanUpRemoves
<1>5. CASE UNCHANGED vars BY <1>5
<1> QED BY <1>1, <1>2, <1>3, <1>4, <1>5 DEF Next

-----------------------------------------------------------------------------
(* The artifact cache that the build folders implement *)

Valid  == {p \in Programs : IsUsable(p)}
Asked  == [q \in Clients |-> IF InFolder(q) THEN prog[q] ELSE None]
Served == [q \in Clients |-> IF At(q, "load") THEN prog[q] ELSE None]

(* A step that changes neither validity nor requests is not seen. *)
LEMMA Hidden ==
  ASSUME Valid' = Valid, Asked' = Asked, Served' = Served
  PROVE  [AC!ACNext]_(AC!acVars)
BY DEF AC!acVars, Valid, Asked, Served

(* A folder that a client inside it makes usable is published. *)
LEMMA Publishes ==
  ASSUME NEW q \in Clients, Asked[q] \in Programs, Asked[q] \notin Valid,
         Valid' = Valid \cup {Asked[q]}, Asked' = Asked, Served' = Served
  PROVE  [AC!ACNext]_(AC!acVars)
<1>1. AC!Publish(Asked[q]) BY DEF AC!Publish, Valid, Asked, Served
<1> QED BY <1>1 DEF AC!ACNext

(* A folder stops being usable on behalf of a forcing client or a cleanup. *)
LEMMA Discards ==
  ASSUME NEW p \in Programs, p \in Valid,
         p \in Exposed \/ \E q \in Forcing : Asked[q] = p,
         Valid' = Valid \ {p}, Asked' = Asked, Served' = Served
  PROVE  [AC!ACNext]_(AC!acVars)
<1>1. AC!Discard(p) BY DEF AC!Discard, Valid, Asked, Served
<1> QED BY <1>1 DEF AC!ACNext

(* An operation ends: its request is rejected, or its artifact was loaded. *)
LEMMA Ends ==
  ASSUME TypeOK, LockInv, NEW q \in Clients, pc[q] # "idle", NEW r, NEW e,
         Finish(q, r, e), UNCHANGED <<data, module>>
  PROVE  [AC!ACNext]_(AC!acVars)
<1> USE BuildFolderAssumption DEF TypeOK, LockInv, Finish, InFolder, At, Asked, Served
<1>1. Valid' = Valid BY DEF Valid, IsUsable
<1>2. CASE pc[q] = "load"
  <2>1. AC!Leave(q)
    <3>1. Asked' = Asked BY <1>2
    <3>2. Served[q] # None /\ Served' = [Served EXCEPT ![q] = None] BY <1>2
    <3> QED BY <1>1, <3>1, <3>2 DEF AC!Leave, Valid
  <2> QED BY <2>1 DEF AC!ACNext
<1>3. CASE pc[q] # "load"
  <2>1. AC!Reject(q)
    <3>1. Served' = Served BY <1>3
    <3>2. Asked[q] # None /\ Asked' = [Asked EXCEPT ![q] = None] BY <1>3
    <3> QED BY <1>1, <3>1, <3>2 DEF AC!Reject, Valid
  <2> QED BY <2>1 DEF AC!ACNext
<1> QED BY <1>2, <1>3

(* A client that goes on inside its folder keeps its request. *)
LEMMA Stays ==
  ASSUME TypeOK, NEW q \in Clients, pc[q] \notin {"idle", "load"},
         NEW l, l \notin {"idle", "load"},
         pc' = [pc EXCEPT ![q] = l], UNCHANGED prog
  PROVE  Asked' = Asked /\ Served' = Served
BY DEF TypeOK, InFolder, At, Asked, Served

(* A step of a client inside its folder, which changes no other folder. *)
LEMMA Inside ==
  ASSUME TypeOK, LockInv, NEW q \in Clients, pc[q] \notin {"idle", "load"},
         NEW l, l \notin {"idle", "load"},
         pc' = [pc EXCEPT ![q] = l], UNCHANGED prog,
         \A p \in Programs \ {prog[q]} : IsUsable(p)' <=> IsUsable(p),
         IsUsable(prog[q]) /\ ~(IsUsable(prog[q])') => q \in Forcing
  PROVE  [AC!ACNext]_(AC!acVars)
<1>1. Asked' = Asked /\ Served' = Served BY Stays
<1>2. Asked[q] = prog[q] /\ prog[q] \in Programs /\ prog'[q] = prog[q]
  BY DEF LockInv, Asked, InFolder
<1>3. CASE IsUsable(prog[q]) /\ ~(IsUsable(prog[q])')
  <2>1. Valid' = Valid \ {prog[q]} /\ prog[q] \in Valid
    BY <1>2, <1>3 DEF Valid
  <2>2. \E r \in Forcing : Asked[r] = prog[q] BY <1>2, <1>3
  <2> QED BY <1>1, <1>2, <2>1, <2>2, Discards
<1>4. CASE ~IsUsable(prog[q]) /\ IsUsable(prog[q])'
  <2>1. Valid' = Valid \cup {prog[q]} /\ prog[q] \notin Valid
    BY <1>2, <1>4 DEF Valid
  <2> QED BY <1>1, <1>2, <2>1, Publishes
<1>5. CASE IsUsable(prog[q])' <=> IsUsable(prog[q])
  <2>1. Valid' = Valid BY <1>2, <1>5 DEF Valid
  <2> QED BY <1>1, <2>1, Hidden
<1> QED BY <1>3, <1>4, <1>5

(* A step of a client inside its folder that touches no status or module. *)
LEMMA Quiet ==
  ASSUME TypeOK, LockInv, NEW q \in Clients, pc[q] \notin {"idle", "load"},
         NEW l, l \notin {"idle", "load"},
         pc' = [pc EXCEPT ![q] = l], UNCHANGED <<prog, data, module>>
  PROVE  [AC!ACNext]_(AC!acVars)
<1>1. Valid' = Valid BY DEF Valid, IsUsable
<1> QED BY <1>1, Stays, Hidden

(* Every step is a step of the artifact cache, or one it does not see. *)
LEMMA RefinementStep ==
  ASSUME TypeOK, LockInv, LinkInv, FreshInv, [Next]_vars
  PROVE  [AC!ACNext]_(AC!acVars)
<1> DEFINE Goal == [AC!ACNext]_(AC!acVars)
<1> HIDE DEF Goal
<1>1. ASSUME NEW q \in Clients, NEW p \in Programs, Compile(q, p) PROVE Goal
  <2>1. Valid' = Valid BY <1>1 DEF Compile, files, Valid, IsUsable
  <2>2. Served' = Served BY <1>1 DEF Compile, At, Served, TypeOK
  <2>3. Asked' = [Asked EXCEPT ![q] = p]
    BY <1>1 DEF Compile, At, Asked, InFolder, TypeOK
  <2>4. Asked[q] = None /\ Served[q] = None
    BY <1>1 DEF Compile, At, Asked, Served, InFolder
  <2>5. AC!Ask(q, p) BY <2>1, <2>2, <2>3, <2>4 DEF AC!Ask, Valid, Asked, Served
  <2> QED BY <2>5 DEF AC!ACNext, Goal
<1>2. ASSUME NEW q \in Clients, Step(q) PROVE Goal
  <2> USE DEF At, Goto, files, Goal
  <2>1. CASE Lock(q) BY <2>1, Quiet DEF Lock
  <2>2. CASE Gate(q) BY <2>2, Quiet DEF Gate
  <2>3. CASE Verify(q)
    <3>1. CASE IsUsable(prog[q]) /\ Goto(q, "load")
      <4>1. Valid' = Valid BY <2>3 DEF Verify, Valid, IsUsable
      <4>2. Asked[q] = prog[q] /\ prog[q] \in Valid
        BY <2>3, <3>1 DEF Verify, Asked, InFolder, Valid, LockInv
      <4>3. Served' = [Served EXCEPT ![q] = Asked[q]]
        BY <2>3, <3>1, <4>2 DEF Verify, Goto, Served, TypeOK
      <4>4. Asked' = [Asked EXCEPT ![q] = None]
        BY <2>3, <3>1 DEF Verify, Goto, Asked, InFolder, TypeOK
      <4>5. AC!Serve(q)
        BY <4>1, <4>2, <4>3, <4>4 DEF AC!Serve, Valid, Asked, Served
      <4> QED BY <4>5 DEF AC!ACNext
    <3>2. CASE Raise(q, FALSE) BY <2>3, <3>2, Ends DEF Verify, Raise
    <3> QED BY <2>3, <3>1, <3>2 DEF Verify
  <2>4. CASE Load(q) BY <2>4, Ends DEF Load
  <2>5. CASE LockTemplate(q) BY <2>5, Quiet DEF LockTemplate
  <2>6. CASE FindTemplate(q) BY <2>6, Quiet DEF FindTemplate
  <2>7. CASE CreateTemplate(q) BY <2>7, Quiet, Ends DEF CreateTemplate, Raise
  <2>8. CASE PublishTemplate(q) BY <2>8, Quiet, Ends DEF PublishTemplate, Raise
  <2>9. CASE CopyLibraries(q) BY <2>9, Quiet DEF CopyLibraries
  <2>10. CASE WriteInitialized(q)
    <3>1. \A p \in Programs \ {prog[q]} : IsUsable(p)' <=> IsUsable(p)
      BY <2>10 DEF WriteInitialized, IsUsable, TypeOK
    <3>2. IsUsable(prog[q]) => q \in Forcing
      BY <2>10 DEF WriteInitialized, FreshInv, Building
    <3> QED BY <2>10, <3>1, <3>2, Inside DEF WriteInitialized
  <2>11. CASE RunConfig(q) BY <2>11, Quiet, Ends DEF RunConfig, Raise
  <2>12. CASE WriteConfigured(q)
    <3>1. \A p \in Programs \ {prog[q]} : IsUsable(p)' <=> IsUsable(p)
      BY <2>12 DEF WriteConfigured, IsUsable, TypeOK
    <3>2. IsUsable(prog[q]) => q \in Forcing
      BY <2>12 DEF WriteConfigured, FreshInv, Building
    <3> QED BY <2>12, <3>1, <3>2, Inside DEF WriteConfigured
  <2>13. CASE RunBuild(q)
    <3>1. CASE \E e \in BOOLEAN : Raise(q, e) /\ UNCHANGED module
      BY <2>13, <3>1, Ends DEF RunBuild, Raise
    <3>2. CASE Goto(q, "verify") /\ UNCHANGED module
      BY <2>13, <3>2, Quiet DEF RunBuild
    <3>3. CASE /\ data[prog[q]] = "CONFIGURED"
               /\ module' = [module EXCEPT ![prog[q]] = "partial"]
               /\ Goto(q, "link")
      <4>1. \A p \in Programs \ {prog[q]} : IsUsable(p)' <=> IsUsable(p)
        BY <2>13, <3>3 DEF RunBuild, IsUsable, TypeOK
      <4>2. ~IsUsable(prog[q]) BY <3>3 DEF IsUsable
      <4> QED BY <2>13, <3>3, <4>1, <4>2, Inside DEF RunBuild
    <3> QED BY <2>13, <3>1, <3>2, <3>3 DEF RunBuild
  <2>14. CASE Link(q)
    <3>1. CASE Raise(q, TRUE) /\ UNCHANGED module
      BY <2>14, <3>1, Ends DEF Link, Raise
    <3>2. CASE /\ module' = [module EXCEPT ![prog[q]] = "complete"]
               /\ Goto(q, "compiled")
      <4>1. \A p \in Programs \ {prog[q]} : IsUsable(p)' <=> IsUsable(p)
        BY <2>14, <3>2 DEF Link, IsUsable, TypeOK
      <4>2. ~IsUsable(prog[q]) BY <2>14 DEF Link, LinkInv, IsUsable
      <4> QED BY <2>14, <3>2, <4>1, <4>2, Inside DEF Link
    <3> QED BY <2>14, <3>1, <3>2 DEF Link
  <2>15. CASE WriteCompiled(q)
    <3>1. CASE Raise(q, FALSE) /\ UNCHANGED data
      BY <2>15, <3>1, Ends DEF WriteCompiled, Raise
    <3>2. CASE /\ data' = [data EXCEPT ![prog[q]] = "COMPILED"]
               /\ Goto(q, "verify")
      <4>1. \A p \in Programs \ {prog[q]} : IsUsable(p)' <=> IsUsable(p)
        BY <2>15, <3>2 DEF WriteCompiled, IsUsable, TypeOK
      <4>2. IsUsable(prog[q]) => IsUsable(prog[q])'
        BY <2>15, <3>2 DEF WriteCompiled, IsUsable, TypeOK, LockInv, Goto
      <4> QED BY <2>15, <3>2, <4>1, <4>2, Inside DEF WriteCompiled
    <3> QED BY <2>15, <3>1, <3>2 DEF WriteCompiled
  <2> QED BY <1>2, <2>1, <2>2, <2>3, <2>4, <2>5, <2>6, <2>7, <2>8,
             <2>9, <2>10, <2>11, <2>12, <2>13, <2>14, <2>15 DEF Step
<1>3. ASSUME NEW q \in Clients, Crash(q) PROVE Goal
  BY <1>3, Ends DEF Crash, At, files, Goal
<1>4. CASE CleanUp
  <2>1. Asked' = Asked /\ Served' = Served
    BY <1>4 DEF CleanUp, Asked, Served, InFolder, At
  <2>2. CASE UNCHANGED <<data, module>>
    <3>1. Valid' = Valid BY <2>2 DEF Valid, IsUsable
    <3> QED BY <2>1, <3>1, Hidden DEF Goal
  <2>3. CASE ~UNCHANGED <<data, module>>
    <3>1. PICK p \in Exposed :
            \/ module' = [module EXCEPT ![p] = "absent"] /\ UNCHANGED data
            \/ data' = [data EXCEPT ![p] = "torn"] /\ UNCHANGED module
      BY <1>4, <2>3 DEF CleanUp
    <3>2. Valid' = Valid \ {p} BY <3>1, BuildFolderAssumption DEF Valid, IsUsable, TypeOK
    <3>3. CASE p \in Valid
      BY <2>1, <3>2, <3>3, Discards, BuildFolderAssumption DEF Goal
    <3>4. CASE p \notin Valid
      <4>1. Valid' = Valid BY <3>2, <3>4
      <4> QED BY <2>1, <4>1, Hidden DEF Goal
    <3> QED BY <3>3, <3>4
  <2> QED BY <2>2, <2>3
<1>5. CASE UNCHANGED vars
  <2>1. Valid' = Valid /\ Asked' = Asked /\ Served' = Served
    BY <1>5 DEF vars, files, clients, Valid, Asked, Served, IsUsable, InFolder, At
  <2> QED BY <2>1, Hidden DEF Goal
<1> QED BY <1>1, <1>2, <1>3, <1>4, <1>5 DEF Next, Goal

(* The invariant holds at the start and every step keeps it. *)
LEMMA Inductive == Spec => []IInv
<1>1. Init => IInv
  BY BuildFolderAssumption
     DEF Init, IInv, TypeOK, Contents, Labels, Statuses, Building, Locked, LockInv,
         CommitMarker, LinkInv, HealInv, NeverPoisoned, FreshInv, LoadsWhole
<1>2. IInv /\ [Next]_vars => IInv'
  BY TypeStep, LockStep, CommitStep, HealStep, FreshStep DEF IInv
<1> QED BY <1>1, <1>2, PTL DEF Spec

(* Every file and every client of the build folders stays in a known state. *)
THEOREM TypeCorrect == Spec => []TypeOK
<1>1. IInv => TypeOK BY DEF IInv
<1> QED BY <1>1, Inductive, PTL

(* Whatever is killed or fails, build_data never says COMPILED next to a
   module that the linker has not finished. *)
THEOREM Committed == Spec => []CommitMarker
<1>1. IInv => CommitMarker BY DEF IInv
<1> QED BY <1>1, Inductive, PTL

(* CPPCompiler fails only if a tool fails or files are removed meanwhile: an
   interrupted build never makes a later one fail. *)
THEOREM Heals == Spec => []NeverPoisoned
<1>1. IInv => NeverPoisoned BY DEF IInv
<1> QED BY <1>1, Inductive, PTL

(* CPPCompilationArtifact.load, although outside the lock, finds a complete
   module unless it was removed or a forced recompilation came in between. *)
THEOREM WholeLoads == Spec => []LoadsWhole
<1>1. IInv => LoadsWhole BY DEF IInv
<1> QED BY <1>1, Inductive, PTL

(* The build folders implement ArtifactCache: is_usable is the validity of an
   entry, and only a client with force_recompile invalidates one. *)
THEOREM Refinement == Spec => ImplementsArtifactCache
<1>1. Init => AC!ACInit
  BY DEF Init, AC!ACInit, IsUsable, InFolder, At
<1>2. IInv /\ [Next]_vars => [AC!ACNext]_(AC!acVars)
  BY RefinementStep DEF IInv
<1> QED BY <1>1, <1>2, Inductive, PTL DEF Spec, ImplementsArtifactCache, AC!ACSpec
=============================================================================
