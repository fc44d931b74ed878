-------------------------- MODULE DaceBuildFolder --------------------------
(***************************************************************************)
(* The build folders of the DaCe backends: DaCeCompiler                    *)
(* (next/program_processors/runners/dace/workflow/compilation.py).  DaCe   *)
(* itself is external; what matters of it is that it reuses a library that *)
(* exists without looking into it, and otherwise writes it in place.  The  *)
(* marker file says that the library in the folder is complete.            *)
(*                                                                         *)
(* Unlike CPPCompiler, every client withdraws the marker before DaCe looks *)
(* whether there is anything to build, so a client that dies in between    *)
(* makes the next one delete a good library.                               *)
(***************************************************************************)
CONSTANTS
  Clients,
  Programs,    \* each with its folder
  None

ASSUME DaceAssumption == None \notin Clients \cup Programs

VARIABLES
  library,    \* the compiled library of a folder
  marker,     \* the folders with _COMPILE_COMPLETE_MARKER
  lock,       \* owner of the lock of every folder
  pc, prog,   \* the clients
  result,     \* how the last operation of a client ended
  excused     \* history: before the client loaded its library, the library
              \* was deleted or a client was killed without the marker

files   == <<library, marker>>
clients == <<pc, prog, result, excused>>
vars    == <<files, lock, clients>>

Contents == {"absent", "partial", "complete"}
Labels   == {"idle", "lock", "check", "unmark", "compile", "build", "mark", "load"}

Init ==
  /\ library = [p \in Programs |-> "absent"]
  /\ marker = {}
  /\ lock = [p \in Programs |-> None]
  /\ pc = [q \in Clients |-> "idle"]
  /\ prog = [q \in Clients |-> None]
  /\ result = [q \in Clients |-> "none"]
  /\ excused = [q \in Clients |-> FALSE]

At(q, l)   == pc[q] = l
Goto(q, l) == /\ pc' = [pc EXCEPT ![q] = l]
              /\ UNCHANGED <<prog, result, excused>>

Unlock(q) == lock' = [p \in Programs |-> IF lock[p] = q THEN None ELSE lock[p]]

Finish(q, r) ==
  /\ pc' = [pc EXCEPT ![q] = "idle"]
  /\ prog' = [prog EXCEPT ![q] = None]
  /\ result' = [result EXCEPT ![q] = r]

-----------------------------------------------------------------------------
(* DaCeCompiler.__call__ *)

Compile(q, p) ==
  /\ At(q, "idle")
  /\ pc' = [pc EXCEPT ![q] = "lock"]
  /\ prog' = [prog EXCEPT ![q] = p]
  /\ result' = [result EXCEPT ![q] = "none"]
  /\ excused' = [excused EXCEPT ![q] = FALSE]
  /\ UNCHANGED <<files, lock>>

Lock(q) ==
  /\ At(q, "lock")
  /\ lock[prog[q]] = None
  /\ lock' = [lock EXCEPT ![prog[q]] = q]
  /\ Goto(q, "check")
  /\ UNCHANGED files

(* Mutant: the library is always dropped. *)
CheckAndDrop(q) ==
  /\ At(q, "check")
  /\ library' = [library EXCEPT ![prog[q]] = "absent"]
  /\ Goto(q, "unmark")
  /\ UNCHANGED <<marker, lock>>

(* Without the marker the library is stale and is dropped. *)
CheckMarker(q) ==
  /\ At(q, "check")
  /\ library' = [library EXCEPT ![prog[q]] =
                   IF prog[q] \in marker THEN @ ELSE "absent"]
  /\ Goto(q, "unmark")
  /\ UNCHANGED <<marker, lock>>

(* Mutant: the marker is not withdrawn before compiling. *)
KeepMarker(q) ==
  /\ At(q, "unmark")
  /\ Goto(q, "compile")
  /\ UNCHANGED <<files, lock>>

UnlinkMarker(q) ==
  /\ At(q, "unmark")
  /\ marker' = marker \ {prog[q]}
  /\ Goto(q, "compile")
  /\ UNCHANGED <<library, lock>>

(* sdfg.compile: an existing library is reused, whatever is in it ... *)
SdfgCompile(q) ==
  /\ At(q, "compile")
  /\ \/ /\ library[prog[q]] # "absent"
        /\ Goto(q, "mark")
        /\ UNCHANGED <<library, lock>>
     \/ /\ library[prog[q]] = "absent"
        /\ library' = [library EXCEPT ![prog[q]] = "partial"]
        /\ Goto(q, "build")
        /\ UNCHANGED lock
     \/ /\ library[prog[q]] = "absent"
        /\ Finish(q, "error")
        /\ Unlock(q)
        /\ UNCHANGED <<library, excused>>
  /\ UNCHANGED marker

(* ... otherwise it is built in place, unless a tool fails, before it wrote
   anything or later. *)
SdfgBuild(q) ==
  /\ At(q, "build")
  /\ \/ /\ library' = [library EXCEPT ![prog[q]] = "complete"]
        /\ Goto(q, "mark")
        /\ UNCHANGED lock
     \/ /\ Finish(q, "error")
        /\ Unlock(q)
        /\ UNCHANGED <<library, excused>>
  /\ UNCHANGED marker

(* Mutant: the marker is written under a wrong name. *)
TouchMarkerElsewhere(q) ==
  /\ At(q, "mark")
  /\ marker' = marker \cup {q}
  /\ Unlock(q)
  /\ Goto(q, "load")
  /\ UNCHANGED library

(* marker.touch(), and the lock is released. *)
TouchMarker(q) ==
  /\ At(q, "mark")
  /\ marker' = marker \cup {prog[q]}
  /\ Unlock(q)
  /\ Goto(q, "load")
  /\ UNCHANGED library

(* DaCeCompilationArtifact.load, outside the lock. *)
Load(q) ==
  /\ At(q, "load")
  /\ Finish(q, IF library[prog[q]] = "complete" THEN "loaded" ELSE "loadError")
  /\ UNCHANGED <<files, lock, excused>>

(* The clients of p at one of the labels ls are excused if they cannot load. *)
Excuse(p, ls) ==
  excused' = [r \in Clients |-> IF prog[r] = p /\ pc[r] \in ls THEN TRUE
                                                             ELSE excused[r]]

(* A client is killed; the operating system releases its lock.  Between the
   unlinking and the touching of the marker this condemns the library. *)
Crash(q) ==
  /\ ~At(q, "idle")
  /\ Finish(q, "none")
  /\ Unlock(q)
  /\ IF pc[q] \in {"compile", "mark"} THEN Excuse(prog[q], {"load"})
                                      ELSE UNCHANGED excused
  /\ UNCHANGED files

(* External cleanup deletes a library and leaves the marker. *)
CleanUp(p) ==
  /\ library[p] # "absent"
  /\ library' = [library EXCEPT ![p] = "absent"]
  /\ Excuse(p, {"mark", "load"})
  /\ UNCHANGED <<marker, lock, pc, prog, result>>

Step(q) ==
  \/ Lock(q) \/ CheckMarker(q) \/ UnlinkMarker(q) \/ SdfgCompile(q)
  \/ SdfgBuild(q) \/ TouchMarker(q) \/ Load(q)

Next ==
  \/ \E q \in Clients, p \in Programs : Compile(q, p)
  \/ \E q \in Clients : Step(q) \/ Crash(q)
  \/ \E p \in Programs : CleanUp(p)

Spec == Init /\ [][Next]_vars

-----------------------------------------------------------------------------
(* Properties *)

(* The libraries, markers, locks and clients keep their types. *)
TypeOK ==
  /\ library \in [Programs -> Contents]
  /\ marker \subseteq Programs
  /\ lock \in [Programs -> Clients \cup {None}]
  /\ pc \in [Clients -> Labels]
  /\ prog \in [Clients -> Programs \cup {None}]
  /\ result \in [Clients -> {"none", "error", "loaded", "loadError"}]
  /\ excused \in [Clients -> BOOLEAN]

(* The marker never stands next to a truncated library, whoever is killed or
   fails and even if the library of a marked folder was deleted: DaCe would
   reuse it for ever. *)
MarkedIsWhole == \A p \in marker : library[p] # "partial"

(* Between the release of the lock and the load nobody takes the library
   away, unless it is deleted from outside or a client of the same folder is
   killed between the unlinking and the touching of the marker. *)
LoadsWhole == \A q \in Clients : result[q] = "loadError" => excused[q]
=============================================================================
