---------------------------- MODULE BuildFolder ----------------------------
(***************************************************************************)
(* The build folders of the gtfn backends: CPPCompiler                     *)
(* (next/otf/compilation/compiler.py) over the compiledb build system      *)
(* (build_systems/compiledb.py), which takes its compile commands from a   *)
(* template project shared by all programs of a configuration.             *)
(*                                                                         *)
(* A client is a thread, a worker process or an MPI rank.  Every program   *)
(* folder and the template folder have a file lock; a killed client drops  *)
(* its locks and leaves the files as they are.  A file that is written in  *)
(* place is "partial" while it is written; a file published with           *)
(* os.replace goes from one complete content to the next.                  *)
(***************************************************************************)
CONSTANTS
  Clients,
  Programs,    \* programs of one configuration, each with its folder
  Forcing,     \* clients with force_recompile
  Renewing,    \* clients with renew_compiledb
  Exposed,     \* programs whose files something outside deletes or truncates
  None

ASSUME BuildFolderAssumption ==
  /\ Forcing \subseteq Clients
  /\ Renewing \subseteq Clients
  /\ Exposed \subseteq Programs
  /\ None \notin Clients \cup Programs

VARIABLES
  data,       \* gt4py.json of a folder: its status, "absent" or "torn"
  module,     \* the extension module of a folder
  library,    \* the static libraries copied into a folder
  commands,   \* compile_commands.json of a folder
  template,   \* compile_commands.json of the template folder
  archive,    \* the static libraries built in the template folder
  lock,       \* owner of the lock of every folder
  tlock,      \* owner of the lock of the template folder
  pc, prog,   \* the clients
  result,     \* how the last operation of a client ended
  excused     \* history: a tool of the client's failed, a file was removed
              \* from outside, or a forced rebuild overtook its load

files   == <<data, module, library, commands, template, archive>>
locks   == <<lock, tlock>>
clients == <<pc, prog, result, excused>>
vars    == <<files, locks, clients>>

Contents == {"absent", "partial", "complete"}
Labels   == {"idle", "lock", "gate", "tlock", "find", "create", "publish",
             "copy", "init", "config", "commit", "build", "link", "compiled",
             "verify", "load"}

Statuses == {"absent", "torn", "INITIALIZED", "CONFIGURED", "COMPILED"}

Init ==
  /\ data = [p \in Programs |-> "absent"]
  /\ module = [p \in Programs |-> "absent"]
  /\ library = [p \in Programs |-> "absent"]
  /\ commands = [p \in Programs |-> "absent"]
  /\ template = "absent"
  /\ archive = "absent"
  /\ lock = [p \in Programs |-> None]
  /\ tlock = None
  /\ pc = [q \in Clients |-> "idle"]
  /\ prog = [q \in Clients |-> None]
  /\ result = [q \in Clients |-> "none"]
  /\ excused = [q \in Clients |-> FALSE]

At(q, l)   == pc[q] = l
Goto(q, l) == /\ pc' = [pc EXCEPT ![q] = l]
              /\ UNCHANGED <<prog, result, excused>>

(* The client leaves every "with lock" block it is in. *)
Unlock(q) ==
  /\ lock' = [p \in Programs |-> IF lock[p] = q THEN None ELSE lock[p]]
  /\ tlock' = IF tlock = q THEN None ELSE tlock

Finish(q, r, excuse) ==
  /\ pc' = [pc EXCEPT ![q] = "idle"]
  /\ prog' = [prog EXCEPT ![q] = None]
  /\ result' = [result EXCEPT ![q] = r]
  /\ excused' = IF excuse THEN [excused EXCEPT ![q] = TRUE] ELSE excused

(* Mutant: an error path that keeps its locks. *)
RaiseLocked(q, excuse) == Finish(q, "error", excuse) /\ UNCHANGED locks

(* An exception leaves CPPCompiler.__call__. *)
Raise(q, excuse) == Finish(q, "error", excuse) /\ Unlock(q)

-----------------------------------------------------------------------------
(* CPPCompiler.__call__ *)

Compile(q, p) ==
  /\ At(q, "idle")
  /\ pc' = [pc EXCEPT ![q] = "lock"]
  /\ prog' = [prog EXCEPT ![q] = p]
  /\ result' = [result EXCEPT ![q] = "none"]
  /\ excused' = [excused EXCEPT ![q] = FALSE]
  /\ UNCHANGED <<files, locks>>

Lock(q) ==
  /\ At(q, "lock")
  /\ lock[prog[q]] = None
  /\ lock' = [lock EXCEPT ![prog[q]] = q]
  /\ Goto(q, "gate")
  /\ UNCHANGED <<files, tlock>>

IsUsable(p) == data[p] = "COMPILED" /\ module[p] # "absent"

(* Mutant: a usable folder is rebuilt too. *)
GateRebuilds(q) ==
  /\ At(q, "gate")
  /\ Goto(q, "tlock")
  /\ UNCHANGED <<files, locks>>

(* Mutant: the folder is handed out without the check after the build. *)
GateReturns(q) ==
  /\ At(q, "gate")
  /\ Goto(q, IF q \in Forcing \/ ~IsUsable(prog[q]) THEN "tlock" ELSE "return")
  /\ UNCHANGED <<files, locks>>

Gate(q) ==
  /\ At(q, "gate")
  /\ Goto(q, IF q \in Forcing \/ ~IsUsable(prog[q]) THEN "tlock" ELSE "verify")
  /\ UNCHANGED <<files, locks>>

Verify(q) ==
  /\ At(q, "verify")
  /\ \/ /\ IsUsable(prog[q])
        /\ Unlock(q)
        /\ Goto(q, "load")
     \/ /\ ~IsUsable(prog[q])
        /\ Raise(q, FALSE)
  /\ UNCHANGED files

(* CPPCompilationArtifact.load, outside the lock. *)
Load(q) ==
  /\ At(q, "load")
  /\ Finish(q, IF module[prog[q]] = "complete" THEN "loaded" ELSE "loadError", FALSE)
  /\ UNCHANGED <<files, locks>>

-----------------------------------------------------------------------------
(* CompiledbFactory.__call__: _cc_get_compiledb under the template lock *)

LockTemplate(q) ==
  /\ At(q, "tlock")
  /\ tlock = None
  /\ tlock' = q
  /\ Goto(q, IF q \in Renewing THEN "create" ELSE "find")
  /\ UNCHANGED <<files, lock>>

(* Mutant: a template that exists is taken without being parsed. *)
FindTemplateUnparsed(q) ==
  /\ At(q, "find")
  /\ \/ /\ template # "absent"
        /\ tlock' = None
        /\ Goto(q, "copy")
     \/ /\ template = "absent"
        /\ Goto(q, "create")
        /\ UNCHANGED tlock
  /\ UNCHANGED <<files, lock>>

(* _cc_find_compiledb: an unreadable template is evicted. *)
FindTemplate(q) ==
  /\ At(q, "find")
  /\ \/ /\ template = "complete"
        /\ tlock' = None
        /\ Goto(q, "copy")
        /\ UNCHANGED template
     \/ /\ template # "complete"
        /\ template' = "absent"
        /\ Goto(q, "create")
        /\ UNCHANGED tlock
  /\ UNCHANGED <<data, module, library, commands, archive, lock>>

(* _cc_create_compiledb: CMake configures and builds the prototype project
   in place (a build of what is up to date touches nothing) ... *)
CreateTemplate(q) ==
  /\ At(q, "create")
  /\ \/ /\ archive' = IF archive = "complete" THEN archive ELSE "partial"
        /\ Goto(q, "publish")
        /\ UNCHANGED locks
     \/ /\ Raise(q, TRUE)
        /\ UNCHANGED archive
  /\ UNCHANGED <<data, module, library, commands, template>>

(* ... and the compile commands are published atomically. *)
PublishTemplate(q) ==
  /\ At(q, "publish")
  /\ \/ /\ archive' = "complete"
        /\ template' = "complete"
        /\ tlock' = None
        /\ Goto(q, "copy")
        /\ UNCHANGED lock
     \/ /\ Raise(q, TRUE)
        /\ UNCHANGED <<archive, template>>
  /\ UNCHANGED <<data, module, library, commands>>

-----------------------------------------------------------------------------
(* CompiledbProject.build *)

(* _write_files copies the archives of the template in place, without the
   template lock ... *)
CopyLibraries(q) ==
  /\ At(q, "copy")
  /\ library' = [library EXCEPT ![prog[q]] = "partial"]
  /\ Goto(q, "init")
  /\ UNCHANGED <<data, module, commands, template, archive, locks>>

Overtaken(r, p) == At(r, "load") /\ prog[r] = p

(* ... and resets the status once the files are there. *)
WriteInitialized(q) ==
  /\ At(q, "init")
  /\ library' = [library EXCEPT ![prog[q]] = archive]
  /\ data' = [data EXCEPT ![prog[q]] = "INITIALIZED"]
  /\ pc' = [pc EXCEPT ![q] = "config"]
  /\ excused' = [r \in Clients |-> IF q \in Forcing /\ Overtaken(r, prog[q])
                                     THEN TRUE ELSE excused[r]]
  /\ UNCHANGED <<prog, result>>
  /\ UNCHANGED <<module, commands, template, archive, locks>>

(* _run_config reads the template, also without its lock. *)
RunConfig(q) ==
  /\ At(q, "config")
  /\ \/ /\ template = "complete"
        /\ commands' = [commands EXCEPT ![prog[q]] = "partial"]
        /\ Goto(q, "commit")
        /\ UNCHANGED locks
     \/ /\ template # "complete"
        /\ Raise(q, FALSE)
        /\ UNCHANGED commands
  /\ UNCHANGED <<data, module, library, template, archive>>

WriteConfigured(q) ==
  /\ At(q, "commit")
  /\ commands' = [commands EXCEPT ![prog[q]] = "complete"]
  /\ data' = [data EXCEPT ![prog[q]] = "CONFIGURED"]
  /\ Goto(q, "build")
  /\ UNCHANGED <<module, library, template, archive, locks>>

(* _run_build runs the commands one after the other, unless the status just
   read is not CONFIGURED; the linker writes the module in place ... *)
RunBuild(q) ==
  /\ At(q, "build")
  /\ \/ /\ data[prog[q]] # "CONFIGURED"
        /\ Goto(q, "verify")
        /\ UNCHANGED <<module, locks>>
     \/ /\ data[prog[q]] = "CONFIGURED"
        /\ commands[prog[q]] = "complete" /\ library[prog[q]] = "complete"
        /\ module' = [module EXCEPT ![prog[q]] = "partial"]
        /\ Goto(q, "link")
        /\ UNCHANGED locks
     \/ /\ data[prog[q]] = "CONFIGURED"
        /\ ~(commands[prog[q]] = "complete" /\ library[prog[q]] = "complete")
        /\ Raise(q, FALSE)
        /\ UNCHANGED module
     \/ /\ Raise(q, TRUE)
        /\ UNCHANGED module
  /\ UNCHANGED <<data, library, commands, template, archive>>

(* Mutant: the exit code of the linker is ignored. *)
LinkUnchecked(q) ==
  /\ At(q, "link")
  /\ \/ module' = [module EXCEPT ![prog[q]] = "complete"]
     \/ UNCHANGED module
  /\ Goto(q, "compiled")
  /\ UNCHANGED <<data, library, commands, template, archive, locks>>

(* ... and finishes it or fails. *)
Link(q) ==
  /\ At(q, "link")
  /\ \/ /\ module' = [module EXCEPT ![prog[q]] = "complete"]
        /\ Goto(q, "compiled")
        /\ UNCHANGED locks
     \/ /\ Raise(q, TRUE)
        /\ UNCHANGED module
  /\ UNCHANGED <<data, library, commands, template, archive>>

(* update_status: the commit marker is the last thing written. *)
WriteCompiled(q) ==
  /\ At(q, "compiled")
  /\ \/ /\ data[prog[q]] \notin {"absent", "torn"}
        /\ data' = [data EXCEPT ![prog[q]] = "COMPILED"]
        /\ Goto(q, "verify")
        /\ UNCHANGED locks
     \/ /\ data[prog[q]] \in {"absent", "torn"}
        /\ Raise(q, FALSE)
        /\ UNCHANGED data
  /\ UNCHANGED <<module, library, commands, template, archive>>

-----------------------------------------------------------------------------
(* The environment *)

(* A client is killed; the operating system releases its locks. *)
Crash(q) ==
  /\ ~At(q, "idle")
  /\ Finish(q, "none", FALSE)
  /\ Unlock(q)
  /\ UNCHANGED files

(* External cleanup deletes a module, or a file is found truncated.  The
   clients that work on what was touched are excused. *)
CleanUp ==
  /\ \/ \E p \in Exposed :
          /\ \/ /\ module[p] # "absent"
                /\ module' = [module EXCEPT ![p] = "absent"]
                /\ UNCHANGED data
             \/ /\ data[p] # "absent"
                /\ data' = [data EXCEPT ![p] = "torn"]
                /\ UNCHANGED module
          /\ excused' = [q \in Clients |-> IF prog[q] = p THEN TRUE ELSE excused[q]]
          /\ UNCHANGED template
     \/ /\ Exposed # {} /\ template = "complete"
        /\ template' = "partial"
        /\ excused' = [q \in Clients |-> IF At(q, "idle") THEN excused[q] ELSE TRUE]
        /\ UNCHANGED <<data, module>>
  /\ UNCHANGED <<library, commands, archive, locks, pc, prog, result>>

Step(q) ==
  \/ Lock(q) \/ Gate(q) \/ Verify(q) \/ Load(q)
  \/ LockTemplate(q) \/ FindTemplate(q) \/ CreateTemplate(q) \/ PublishTemplate(q)
  \/ CopyLibraries(q) \/ WriteInitialized(q) \/ RunConfig(q) \/ WriteConfigured(q)
  \/ RunBuild(q) \/ Link(q) \/ WriteCompiled(q)

Next ==
  \/ \E q \in Clients, p \in Programs : Compile(q, p)
  \/ \E q \in Clients : Step(q) \/ Crash(q)
  \/ CleanUp

Spec == Init /\ [][Next]_vars

(* A client that can run is eventually run.  Nothing more is assumed of the
   locks: filelock polls, so a waiting client may be overtaken for ever. *)
FairSpec == Spec /\ \A q \in Clients : WF_vars(Step(q))

-----------------------------------------------------------------------------
(* Properties *)

(* Every file and every client is in a known state. *)
TypeOK ==
  /\ data \in [Programs -> Statuses]
  /\ module \in [Programs -> Contents]
  /\ library \in [Programs -> Contents]
  /\ commands \in [Programs -> Contents]
  /\ template \in Contents
  /\ archive \in Contents
  /\ lock \in [Programs -> Clients \cup {None}]
  /\ tlock \in Clients \cup {None}
  /\ pc \in [Clients -> Labels]
  /\ prog \in [Clients -> Programs \cup {None}]
  /\ result \in [Clients -> {"none", "error", "loaded", "loadError"}]
  /\ excused \in [Clients -> BOOLEAN]

(* The status COMPILED is a commit marker: no kill, failure or interleaving
   leaves it next to a module that is not completely written. *)
CommitMarker == \A p \in Programs : data[p] = "COMPILED" => module[p] # "partial"

(* An interrupted or failed build never poisons a folder or the template: a
   compilation whose own tools succeed, and whose files nobody removed
   meanwhile, does not fail. *)
NeverPoisoned == \A q \in Clients : result[q] = "error" => excused[q]

(* The artifact is loaded after the lock is released; the module is complete
   all the same, unless it was removed or a forced rebuild came in between:
   no other client rebuilds a folder that was handed out. *)
LoadsWhole == \A q \in Clients : result[q] = "loadError" => excused[q]

(* The locks of the program folders and of the template, taken one inside the
   other, never block every client: if all are compiling, one returns. *)
SomeoneReturns ==
  (\A q \in Clients : ~At(q, "idle")) ~> (\E q \in Clients : At(q, "idle"))

InFolder(q) == pc[q] \notin {"idle", "load"}

AC == INSTANCE ArtifactCache WITH
        Rebuilders <- Forcing,
        Removable <- Exposed,
        valid <- {p \in Programs : IsUsable(p)},
        asked <- [q \in Clients |-> IF InFolder(q) THEN prog[q] ELSE None],
        served <- [q \in Clients |-> IF At(q, "load") THEN prog[q] ELSE None]

(* The build folders implement the abstract cache: a usable folder is handed
   out as it is and stays usable unless a client forces a recompilation or
   something outside removes its files. *)
ImplementsArtifactCache == AC!ACSpec
=============================================================================
