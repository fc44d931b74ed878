---------------------------- MODULE StencilCache ----------------------------
(***************************************************************************)
(* The cache of generated stencils of gt4py.cartesian, for the backends    *)
(* that generate Python (numpy and debug): StencilBuilder.build, the check *)
(* of JITCachingStrategy, the files that BaseBackend.generate writes in    *)
(* place, and the import.  Clients are processes or threads; no lock is    *)
(* taken.  The content of a file is a function of the stencil (its path    *)
(* holds the fingerprint), so it is absent, torn or whole.                 *)
(***************************************************************************)
EXTENDS Naturals, Sequences

CONSTANTS Clients, Stencils, None

ASSUME ClientsAssumption == None \notin Clients

(* The files of a stencil in the order they are written.                   *)
Order == <<"computation", "module", "info">>
Files == {"computation", "module", "info"}

VARIABLES
  file,      \* content of every file of every stencil
  last,      \* the client that truncated a file last and has not written it
  pc,        \* the place of every client
  job,       \* the build in progress: its options, the read of the module (seen,
             \* kept until it is compared), the result, and as history whether no
             \* other client wrote the stencil meanwhile (alone) and then what it
             \* found (good, poisoned) and whether it wrote although good (wrote)
  killed     \* history: stencils a client was killed while writing

vars == <<file, last, pc, job, killed>>

Init ==
  /\ file = [s \in Stencils |-> [f \in Files |-> "absent"]]
  /\ last = [s \in Stencils |-> [f \in Files |-> None]]
  /\ pc = [q \in Clients |-> "idle"]
  /\ job = [q \in Clients |-> None]
  /\ killed = {}

Truncating == {"truncate1", "truncate2", "truncate3"}
Closing    == {"close1", "close2", "close3"}
Writing(q, s) == pc[q] \in Truncating \cup Closing /\ job[q].stencil = s
Others(q, s)  == {u \in Clients \ {q} : pc[u] # "idle" /\ job[u].stencil = s}

(* A stencil that a build without rebuild would try to load in vain.       *)
Poisoned(s) ==
  \/ file[s]["module"] = "torn"
  \/ file[s]["module"] = "whole" /\ file[s]["computation"] # "whole"

-----------------------------------------------------------------------------
Goto(q, place) == pc' = [pc EXCEPT ![q] = place]
Finish(q, result) ==
  /\ Goto(q, "returned")
  /\ job' = [job EXCEPT ![q].result = result]

Disturbed(j) == [j EXCEPT !.alone = FALSE, !.good = FALSE, !.poisoned = FALSE]

(* From here on q writes: builds of the same stencil that are under way    *)
(* are no longer on their own.                                             *)
StartWriting(q, js) ==
  LET s == js[q].stencil
      own == [js[q] EXCEPT !.wrote = js[q].good, !.seen = "absent"] IN
  job' = [u \in Clients |->
            IF u = q THEN IF \E v \in Others(q, s) : Writing(v, s) THEN Disturbed(own) ELSE own
            ELSE IF u \in Others(q, s) THEN Disturbed(js[u]) ELSE js[u]]

(* StencilBuilder.build, with or without rebuild and raise_if_not_cached,  *)
(* and with or without disable-cache-validation.                           *)
Build(q, s, rebuild, cachedOnly, validate) ==
  LET quiet == \A u \in Clients \ {q} : ~Writing(u, s)
      new == [stencil |-> s, cachedOnly |-> cachedOnly, validate |-> validate,
              seen |-> "absent", wrote |-> FALSE, alone |-> quiet, result |-> None,
              good |-> quiet /\ ~rebuild /\ file[s]["module"] = "whole",
              poisoned |-> quiet /\ ~rebuild /\ Poisoned(s)] IN
  /\ pc[q] = "idle"
  /\ IF rebuild /\ ~cachedOnly
       THEN Goto(q, "truncate1") /\ StartWriting(q, [job EXCEPT ![q] = new])
       ELSE IF rebuild
       THEN Goto(q, "returned") /\ job' = [job EXCEPT ![q] = [new EXCEPT !.result = "notCached"]]
       ELSE Goto(q, "check1") /\ job' = [job EXCEPT ![q] = new]
  /\ UNCHANGED <<file, last, killed>>

(* Mutant: the hash of the source is from before the module was written.   *)
ReadSourceEarly(q) ==
  /\ pc[q] = "check1"
  /\ Goto(q, "check2")
  /\ UNCHANGED <<file, last, job, killed>>

(* generate_cache_info reads the module (stencil_source) ...               *)
ReadSource(q) ==
  /\ pc[q] = "check1"
  /\ Goto(q, "check2")
  /\ job' = [job EXCEPT ![q].seen = file[job[q].stencil]["module"]]
  /\ UNCHANGED <<file, last, killed>>

(* Mutant: a module that cannot be read passes.                            *)
ConsistentIfAbsent(q, now) == IF now = "absent" THEN {TRUE} ELSE {job[q].seen = now}

(* ... and the check reads it again and compares the two: what two reads   *)
(* of a torn file see may differ or not.                                   *)
Consistent(q, now) ==
  CASE now = "absent" -> {FALSE}
    [] now # "absent" /\ ~job[q].validate -> {TRUE}
    [] now = "whole" /\ job[q].validate -> {job[q].seen = "whole"}
    [] now = "torn" /\ job[q].validate -> IF job[q].seen = "torn" THEN BOOLEAN ELSE {FALSE}

(* is_cache_info_available_and_consistent, and what build does with it.    *)
Check(q) ==
  LET s == job[q].stencil IN
  /\ pc[q] = "check2"
  /\ \E ok \in Consistent(q, file[s]["module"]) :
       \/ ok /\ Goto(q, "import") /\ job' = [job EXCEPT ![q].seen = "absent"]
       \/ ~ok /\ job[q].cachedOnly /\ Finish(q, "notCached")
       \/ ~ok /\ ~job[q].cachedOnly /\ Goto(q, "truncate1") /\ StartWriting(q, job)
  /\ UNCHANGED <<file, last, killed>>

(* Mutant: code is generated into the open file.                           *)
GenerateFailsOpen(q) ==
  /\ pc[q] \in {"truncate1", "truncate2", "close1", "close2"}
  /\ Finish(q, "failed")
  /\ UNCHANGED <<file, last, killed>>

(* The frontend or the code generation raises, before a Python file of the *)
(* stencil is opened.                                                      *)
GenerateFails(q) ==
  /\ pc[q] \in {"truncate1", "truncate2"}
  /\ Finish(q, "failed")
  /\ UNCHANGED <<file, last, killed>>

(* open(path, "w") empties the file; the text is there when it is closed.  *)
(* If another client has emptied it in between, all or part of it is.      *)
Truncate(q, i) ==
  LET s == job[q].stencil IN
  /\ pc[q] = <<"truncate1", "truncate2", "truncate3">>[i]
  /\ file' = [file EXCEPT ![s][Order[i]] = "torn"]
  /\ last' = [last EXCEPT ![s][Order[i]] = q]
  /\ Goto(q, <<"close1", "close2", "close3">>[i])
  /\ UNCHANGED <<job, killed>>

Close(q, i) ==
  LET s == job[q].stencil  f == Order[i] IN
  /\ pc[q] = <<"close1", "close2", "close3">>[i]
  /\ \/ /\ last[s][f] = q
        /\ file' = [file EXCEPT ![s][f] = "whole"]
        /\ last' = [last EXCEPT ![s][f] = None]
     \/ /\ last[s][f] = None
        /\ UNCHANGED <<file, last>>
     \/ /\ last[s][f] \notin {q, None}
        /\ \E c \in {"torn", "whole"} : file' = [file EXCEPT ![s][f] = c]
        /\ UNCHANGED last
  /\ Goto(q, <<"truncate2", "truncate3", "import">>[i])
  /\ killed' = IF i = 3 /\ job[q].alone THEN killed \ {s} ELSE killed
  /\ UNCHANGED job

(* BaseBackend._load: the module is imported, which imports the            *)
(* computation.  A file that is missing or torn raises, or leaves a class  *)
(* that cannot run; the retries of make_module_from_file do not apply.     *)
Import(q) ==
  /\ pc[q] = "import"
  /\ IF file[job[q].stencil]["module"] = "whole"
       THEN Goto(q, "importComputation") /\ UNCHANGED job
       ELSE Finish(q, "bad")
  /\ UNCHANGED <<file, last, killed>>

ImportComputation(q) ==
  /\ pc[q] = "importComputation"
  /\ Finish(q, IF file[job[q].stencil]["computation"] = "whole" THEN "ok" ELSE "bad")
  /\ UNCHANGED <<file, last, killed>>

(* Mutant: the build data of the last build are kept.                      *)
ReturnKeepsData(q) ==
  /\ pc[q] = "returned"
  /\ Goto(q, "idle")
  /\ UNCHANGED <<file, last, job, killed>>

Return(q) ==
  /\ pc[q] = "returned"
  /\ Goto(q, "idle")
  /\ job' = [job EXCEPT ![q] = None]
  /\ UNCHANGED <<file, last, killed>>

(* A client is killed.                                                     *)
Crash(q) ==
  /\ pc[q] \notin {"idle", "returned"}
  /\ Goto(q, "idle")
  /\ job' = [job EXCEPT ![q] = None]
  /\ killed' = IF Writing(q, job[q].stencil) THEN killed \cup {job[q].stencil} ELSE killed
  /\ UNCHANGED <<file, last>>

Step(q) ==
  \/ ReadSource(q) \/ Check(q) \/ GenerateFails(q)
  \/ \E i \in 1 .. 3 : Truncate(q, i) \/ Close(q, i)
  \/ Import(q) \/ ImportComputation(q) \/ Return(q)

Next ==
  \E q \in Clients :
    \/ \E s \in Stencils, rebuild, cachedOnly, validate \in BOOLEAN :
         Build(q, s, rebuild, cachedOnly, validate)
    \/ Step(q)
    \/ Crash(q)

Spec == Init /\ [][Next]_vars

-----------------------------------------------------------------------------
Jobs ==
  [stencil : Stencils, cachedOnly : BOOLEAN, validate : BOOLEAN,
   seen : {"absent", "torn", "whole"}, wrote : BOOLEAN, alone : BOOLEAN,
   result : {None, "ok", "bad", "failed", "notCached"}, good : BOOLEAN, poisoned : BOOLEAN]

TypeOK ==
  /\ file \in [Stencils -> [Files -> {"absent", "torn", "whole"}]]
  /\ last \in [Stencils -> [Files -> Clients \cup {None}]]
  /\ pc \in [Clients -> Truncating \cup Closing
                  \cup {"idle", "check1", "check2", "import", "importComputation", "returned"}]
  /\ job \in [Clients -> Jobs \cup {None}]
  /\ \A q \in Clients : IF pc[q] = "idle" THEN job[q] = None ELSE job[q] \in Jobs
  /\ killed \subseteq Stencils

Returned(q, result) == pc[q] = "returned" /\ job[q].result = result

(* A build fails to load its stencil only if another client wrote the same *)
(* stencil meanwhile, or if it started, without rebuild, on a torn module  *)
(* (StencilBuilder.build, BaseBackend.load): nothing else that killed,     *)
(* failed or concurrent builds leave behind does harm, and a rebuild on    *)
(* its own always heals.                                                   *)
NoSpuriousError ==
  \A q \in Clients : Returned(q, "bad") => ~job[q].alone \/ job[q].poisoned

(* However builds overlap, when the last writer has gone the stencil can   *)
(* be loaded or is absent, unless a client was killed while writing it     *)
(* (the computation is written before the module, NumpyBackend.generate).  *)
PoisonNeedsKill ==
  \A s \in Stencils :
    Poisoned(s) /\ (\A q \in Clients : ~Writing(q, s)) => s \in killed

(* A build that starts on a loadable stencil, and that no writer overlaps, *)
(* loads it and writes nothing, also with raise_if_not_cached.             *)
GoodIsUsed ==
  \A q \in Clients :
    pc[q] = "returned" /\ job[q].alone /\ job[q].good /\ ~job[q].poisoned =>
      job[q].result = "ok" /\ ~job[q].wrote

(* The docstring of JITCachingStrategy: "check if a cache info file exists *)
(* in the location corresponding to the current stencil. If it exists,     *)
(* compare it to the additional caching information for the current        *)
(* stencil."  So what is loaded from the cache has a cache info file.      *)
InfoIsCompared ==
  [][\A q \in Clients :
       pc[q] = "check2" /\ pc'[q] = "import" => file[job[q].stencil]["info"] # "absent"]_vars
=============================================================================
