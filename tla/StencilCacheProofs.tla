------------------------- MODULE StencilCacheProofs -------------------------
(***************************************************************************)
(* Proofs about StencilCache for any clients and stencils.                 *)
(***************************************************************************)
EXTENDS StencilCache, TLAPS

ClosingOf(f) == CASE f = "computation" -> "close1"
                  [] f = "module" -> "close2"
                  [] f = "info" -> "close3"
TruncatingOf(f) == CASE f = "computation" -> "truncate1"
                     [] f = "module" -> "truncate2"
                     [] f = "info" -> "truncate3"
AfterClose(f) == CASE f = "computation" -> "truncate2"
                   [] f = "module" -> "truncate3"
                   [] f = "info" -> "import"

(* A torn file was emptied by a client that is still about to write it, or *)
(* that was killed.                                                        *)
TornInv ==
  \A s \in Stencils, f \in Files :
    /\ file[s][f] = "torn" => last[s][f] # None
    /\ \A q \in Clients : last[s][f] = q =>
         s \in killed \/ (pc[q] = ClosingOf(f) /\ job[q].stencil = s)

(* The computation is there before the module is.                          *)
OrderInv ==
  /\ \A s \in Stencils :
       file[s]["module"] # "absent" => file[s]["computation"] # "absent"
  /\ \A q \in Clients :
       pc[q] \in {"close1", "truncate2", "close2", "truncate3", "close3"} =>
         file[job[q].stencil]["computation"] # "absent"

Usable(s) == file[s]["module"] = "whole" /\ file[s]["computation"] = "whole"
Written(s, f) == file[s][f] = "whole" /\ last[s][f] = None

(* Nobody else writes the stencil of a build on its own ...                *)
AloneInv ==
  \A q, u \in Clients :
    pc[q] # "idle" /\ job[q].alone /\ u # q => ~Writing(u, job[q].stencil)

(* ... so what it has written so far is whole, ...                         *)
WriterInv ==
  \A q \in Clients : pc[q] # "idle" /\ job[q].alone =>
    LET s == job[q].stencil IN
    /\ \A f \in Files : pc[q] = ClosingOf(f) => last[s][f] = q
    /\ pc[q] \in {"truncate2", "close2", "truncate3", "close3"} => Written(s, "computation")
    /\ pc[q] \in {"truncate3", "close3"} => Written(s, "module")

(* ... and what it found when it started is still there.                   *)
ReaderInv ==
  \A q \in Clients : pc[q] # "idle" /\ job[q].alone /\ ~job[q].poisoned =>
    LET s == job[q].stencil IN
    /\ pc[q] \in {"check1", "check2"} => ~Poisoned(s)
    /\ pc[q] \in {"import", "importComputation"} => Usable(s)
    /\ pc[q] = "returned" => job[q].result # "bad"

GoodInv ==
  \A q \in Clients : pc[q] # "idle" /\ job[q].alone /\ ~job[q].poisoned /\ job[q].good =>
    /\ ~job[q].wrote
    /\ pc[q] \in {"check1", "check2", "import", "importComputation", "returned"}
    /\ pc[q] \in {"check1", "check2"} => Usable(job[q].stencil)
    /\ pc[q] = "check2" => job[q].seen = "whole"
    /\ pc[q] = "returned" => job[q].result = "ok"

IInv == TypeOK /\ TornInv /\ OrderInv /\ AloneInv /\ WriterInv /\ ReaderInv /\ GoodInv

-----------------------------------------------------------------------------
(* A client that begins to write disturbs every other build of its stencil.*)
LEMMA StartWritingEffect ==
  ASSUME TypeOK, NEW q \in Clients, NEW js \in [Clients -> Jobs \cup {None}], js[q] \in Jobs,
         \A u \in Clients \ {q} : js[u] = job[u], StartWriting(q, js)
  PROVE  /\ job' \in [Clients -> Jobs \cup {None}]
         /\ job'[q] \in Jobs
         /\ job'[q].stencil = js[q].stencil
         /\ job'[q].alone =>
              /\ js[q].alone
              /\ job'[q].good <=> js[q].good
              /\ job'[q].poisoned <=> js[q].poisoned
              /\ \A v \in Clients \ {q} : ~Writing(v, js[q].stencil)
         /\ \A u \in Clients \ {q} :
              /\ pc[u] = "idle" => job'[u] = job[u]
              /\ pc[u] # "idle" => job'[u] \in Jobs /\ job'[u].stencil = job[u].stencil
              /\ pc[u] # "idle" /\ job'[u].alone =>
                   job'[u] = job[u] /\ job[u].stencil # js[q].stencil
<1> DEFINE s == js[q].stencil
           own == [js[q] EXCEPT !.wrote = js[q].good, !.seen = "absent"]
<1>1. /\ own \in Jobs /\ own.stencil = s /\ (own.alone <=> js[q].alone)
      /\ (own.good <=> js[q].good) /\ (own.poisoned <=> js[q].poisoned)
  BY DEF Jobs
<1>2. \A j \in Jobs : /\ Disturbed(j) \in Jobs /\ Disturbed(j).stencil = j.stencil
                      /\ ~Disturbed(j).alone
  BY DEF Jobs, Disturbed
<1>3. \A u \in Clients : job'[u] =
        IF u = q THEN IF \E v \in Others(q, s) : Writing(v, s) THEN Disturbed(own) ELSE own
        ELSE IF u \in Others(q, s) THEN Disturbed(js[u]) ELSE js[u]
  BY DEF StartWriting
<1>4. job' = [u \in Clients |-> job'[u]]
  BY DEF StartWriting
<1>5. \A u \in Clients \ {q} : pc[u] # "idle" => job[u] \in Jobs
  BY DEF TypeOK
<1>6. \A u \in Clients \ {q} : u \in Others(q, s) <=> pc[u] # "idle" /\ job[u].stencil = s
  BY DEF Others
<1>7. \A v \in Clients \ {q} : Writing(v, s) => v \in Others(q, s)
  BY <1>6 DEF Writing, Truncating, Closing
<1>8. Others(q, s) \subseteq Clients \ {q}
  BY DEF Others
<1>9. \A u \in Clients \ {q} : job'[u] = IF u \in Others(q, s) THEN Disturbed(job[u]) ELSE job[u]
  BY <1>3
<1>10. \A u \in Clients \ {q} :
              /\ pc[u] = "idle" => job'[u] = job[u]
              /\ pc[u] # "idle" => job'[u] \in Jobs /\ job'[u].stencil = job[u].stencil
              /\ pc[u] # "idle" /\ job'[u].alone =>
                   job'[u] = job[u] /\ job[u].stencil # s
  BY <1>2, <1>5, <1>6, <1>9
<1>11. job'[q] = IF \E v \in Others(q, s) : Writing(v, s) THEN Disturbed(own) ELSE own
  BY <1>3
<1>12. job'[q] \in Jobs /\ job'[q].stencil = s
  BY <1>1, <1>2, <1>11, ZenonT(60)
<1>13. ASSUME job'[q].alone
       PROVE  job'[q] = own /\ \A v \in Clients \ {q} : ~Writing(v, s)
  BY <1>1, <1>2, <1>7, <1>11, <1>13
<1>14. job' \in [Clients -> Jobs \cup {None}]
  <2>1. \A u \in Clients : job'[u] \in Jobs \cup {None}
    BY <1>10, <1>12 DEF TypeOK
  <2> QED BY <1>4, <2>1
<1>15. job'[q].alone =>
              /\ js[q].alone
              /\ job'[q].good <=> js[q].good
              /\ job'[q].poisoned <=> js[q].poisoned
              /\ \A v \in Clients \ {q} : ~Writing(v, s)
  BY <1>1, <1>13
<1> QED BY <1>10, <1>12, <1>14, <1>15

-----------------------------------------------------------------------------
(* The effect of each kind of step, with what the guards have established.  *)

(* The options and the history of a build, which its own steps keep.       *)
SameBuild(j, k) ==
  /\ k \in Jobs /\ k.stencil = j.stencil
  /\ (k.alone <=> j.alone) /\ (k.good <=> j.good)
  /\ (k.poisoned <=> j.poisoned) /\ (k.wrote <=> j.wrote)

(* StencilBuilder.build begins: it knows whether somebody writes and what is there. *)
BuildShape(q, s) ==
  /\ pc[q] = "idle" /\ UNCHANGED <<file, last, killed>>
  /\ \E place \in {"truncate1", "returned", "check1"} : pc' = [pc EXCEPT ![q] = place]
  /\ job' \in [Clients -> Jobs \cup {None}]
  /\ job'[q] \in Jobs
  /\ job'[q].stencil = s
  /\ job'[q].alone =>
       /\ \A v \in Clients \ {q} : ~Writing(v, s)
       /\ pc'[q] = "check1" /\ ~job'[q].poisoned => ~Poisoned(s)
       /\ job'[q].good => pc'[q] = "check1" /\ file[s]["module"] = "whole" /\ ~job'[q].wrote
  /\ pc'[q] = "returned" => job'[q].result = "notCached"
  /\ \A u \in Clients \ {q} :
       /\ pc[u] = "idle" => job'[u] = job[u]
       /\ pc[u] # "idle" => job'[u] \in Jobs /\ job'[u].stencil = job[u].stencil
       /\ pc[u] # "idle" /\ job'[u].alone =>
            job'[u] = job[u] /\ (pc'[q] = "truncate1" => job[u].stencil # s)

(* A file is emptied. *)
TruncateShape(q, f) ==
  /\ pc[q] = TruncatingOf(f) /\ pc' = [pc EXCEPT ![q] = ClosingOf(f)]
  /\ file' = [file EXCEPT ![job[q].stencil][f] = "torn"]
  /\ last' = [last EXCEPT ![job[q].stencil][f] = q]
  /\ UNCHANGED <<job, killed>>

(* A file is closed: whole, unless another client has emptied it too. *)
CloseShape(q, f) ==
  /\ pc[q] = ClosingOf(f) /\ pc' = [pc EXCEPT ![q] = AfterClose(f)]
  /\ \/ /\ last[job[q].stencil][f] = q
        /\ file' = [file EXCEPT ![job[q].stencil][f] = "whole"]
        /\ last' = [last EXCEPT ![job[q].stencil][f] = None]
     \/ /\ last[job[q].stencil][f] = None
        /\ UNCHANGED <<file, last>>
     \/ /\ last[job[q].stencil][f] \notin {q, None}
        /\ \E c \in {"torn", "whole"} : file' = [file EXCEPT ![job[q].stencil][f] = c]
        /\ UNCHANGED last
  /\ killed' = IF f = "info" /\ job[q].alone THEN killed \ {job[q].stencil} ELSE killed
  /\ UNCHANGED job

(* A step of a build that neither writes nor starts to. *)
ReaderShape(q) ==
  LET s == job[q].stencil IN
  /\ pc[q] # "idle" /\ UNCHANGED <<file, last, killed>> /\ SameBuild(job[q], job'[q])
  /\ job' = [job EXCEPT ![q] = job'[q]]
  /\ \E place \in {"check2", "import", "importComputation", "returned"} :
       pc' = [pc EXCEPT ![q] = place]
  /\ \/ /\ pc[q] = "check1" /\ pc'[q] = "check2"
        /\ job'[q].seen = file[s]["module"]
     \/ /\ pc[q] = "check2" /\ pc'[q] = "import"
        /\ file[s]["module"] # "absent"
     \/ /\ pc[q] = "check2" /\ pc'[q] = "returned" /\ job'[q].result = "notCached"
        /\ ~(file[s]["module"] = "whole" /\ job[q].seen = "whole")
     \/ /\ pc[q] \in {"truncate1", "truncate2"} /\ pc'[q] = "returned"
        /\ job'[q].result = "failed"
     \/ /\ pc[q] = "import" /\ pc'[q] = "importComputation"
        /\ file[s]["module"] = "whole"
     \/ /\ pc[q] = "import" /\ pc'[q] = "returned" /\ job'[q].result = "bad"
        /\ file[s]["module"] # "whole"
     \/ /\ pc[q] = "importComputation" /\ pc'[q] = "returned"
        /\ job'[q].result = IF file[s]["computation"] = "whole" THEN "ok" ELSE "bad"

(* A check that fails without raise_if_not_cached. *)
CheckWritesShape(q) ==
  LET s == job[q].stencil IN
  /\ pc[q] = "check2" /\ UNCHANGED <<file, last, killed>>
  /\ pc' = [pc EXCEPT ![q] = "truncate1"]
  /\ ~(file[s]["module"] = "whole" /\ job[q].seen = "whole")
  /\ job' \in [Clients -> Jobs \cup {None}]
  /\ job'[q] \in Jobs
  /\ job'[q].stencil = s
  /\ job'[q].alone =>
       /\ job[q].alone
       /\ job'[q].good <=> job[q].good
       /\ job'[q].poisoned <=> job[q].poisoned
       /\ \A v \in Clients \ {q} : ~Writing(v, s)
  /\ \A u \in Clients \ {q} :
       /\ pc[u] = "idle" => job'[u] = job[u]
       /\ pc[u] # "idle" => job'[u] \in Jobs /\ job'[u].stencil = job[u].stencil
       /\ pc[u] # "idle" /\ job'[u].alone =>
            job'[u] = job[u] /\ job[u].stencil # s

(* A client is done, or killed. *)
LeaveShape(q) ==
  /\ pc[q] # "idle" /\ UNCHANGED <<file, last>>
  /\ pc' = [pc EXCEPT ![q] = "idle"] /\ job' = [job EXCEPT ![q] = None]
  /\ killed' \in {killed, killed \cup {job[q].stencil}}
  /\ Writing(q, job[q].stencil) => job[q].stencil \in killed'

(* StencilBuilder.build begins: it knows whether somebody writes and what  *)
(* is there.                                                               *)
LEMMA BuildEffect ==
  ASSUME TypeOK, NEW q \in Clients, NEW s \in Stencils,
         NEW rebuild \in BOOLEAN, NEW cachedOnly \in BOOLEAN, NEW validate \in BOOLEAN,
         Build(q, s, rebuild, cachedOnly, validate)
  PROVE  BuildShape(q, s)
<1> USE DEF BuildShape
<1> DEFINE quiet == \A u \in Clients \ {q} : ~Writing(u, s)
           new == [stencil |-> s, cachedOnly |-> cachedOnly, validate |-> validate,
              seen |-> "absent", wrote |-> FALSE, alone |-> quiet, result |-> None,
              good |-> quiet /\ ~rebuild /\ file[s]["module"] = "whole",
              poisoned |-> quiet /\ ~rebuild /\ Poisoned(s)]
<1>1. /\ new \in Jobs /\ new.stencil = s /\ ~new.wrote
      /\ (new.alone <=> quiet)
      /\ (new.good <=> quiet /\ ~rebuild /\ file[s]["module"] = "whole")
      /\ (new.poisoned <=> quiet /\ ~rebuild /\ Poisoned(s))
  <2>1. /\ quiet \in BOOLEAN
        /\ (quiet /\ ~rebuild /\ file[s]["module"] = "whole") \in BOOLEAN
        /\ (quiet /\ ~rebuild /\ Poisoned(s)) \in BOOLEAN
    BY DEF Poisoned
  <2> QED BY <2>1 DEF Jobs
<1>2. /\ pc[q] = "idle" /\ UNCHANGED <<file, last, killed>>
      /\ IF rebuild /\ ~cachedOnly
            THEN Goto(q, "truncate1") /\ StartWriting(q, [job EXCEPT ![q] = new])
            ELSE IF rebuild
            THEN Goto(q, "returned") /\ job' = [job EXCEPT ![q] = [new EXCEPT !.result = "notCached"]]
            ELSE Goto(q, "check1") /\ job' = [job EXCEPT ![q] = new]
  BY DEF Build
<1> HIDE DEF new
<1>3. CASE rebuild /\ ~cachedOnly
  <2> DEFINE js == [job EXCEPT ![q] = new]
  <2>1. /\ js \in [Clients -> Jobs \cup {None}] /\ js[q] = new
        /\ \A u \in Clients \ {q} : js[u] = job[u]
    BY <1>1 DEF TypeOK
  <2>2. StartWriting(q, js) /\ pc' = [pc EXCEPT ![q] = "truncate1"] /\ pc'[q] = "truncate1"
    BY <1>2, <1>3 DEF Goto, TypeOK
  <2> HIDE DEF js
  <2> QED BY <1>1, <1>2, <1>3, <2>1, <2>2, StartWritingEffect
<1>4. CASE rebuild /\ cachedOnly
  <2>1. pc' = [pc EXCEPT ![q] = "returned"] /\ pc'[q] = "returned"
    BY <1>2, <1>4 DEF Goto, TypeOK
  <2>2. /\ job' = [job EXCEPT ![q] = [new EXCEPT !.result = "notCached"]]
        /\ job'[q] = [new EXCEPT !.result = "notCached"]
    BY <1>2, <1>4 DEF TypeOK
  <2>3. /\ job'[q] \in Jobs /\ job'[q].stencil = s /\ (job'[q].alone => quiet) /\ ~job'[q].good
        /\ job'[q].result = "notCached"
    BY <1>1, <1>4, <2>2 DEF Jobs
  <2>4. \A u \in Clients \ {q} : job'[u] = job[u] /\ (pc[u] # "idle" => job[u] \in Jobs)
    BY <2>2 DEF TypeOK
  <2>5. job' \in [Clients -> Jobs \cup {None}]
    BY <2>2, <2>3, <2>4 DEF TypeOK
  <2> QED BY <1>2, <2>1, <2>3, <2>4, <2>5
<1>5. CASE ~rebuild
  <2>1. pc' = [pc EXCEPT ![q] = "check1"] /\ pc'[q] = "check1"
    BY <1>2, <1>5 DEF Goto, TypeOK
  <2>2. job' = [job EXCEPT ![q] = new] /\ job'[q] = new
    BY <1>2, <1>5 DEF TypeOK
  <2>4. \A u \in Clients \ {q} : job'[u] = job[u] /\ (pc[u] # "idle" => job[u] \in Jobs)
    BY <2>2 DEF TypeOK
  <2>5. job' \in [Clients -> Jobs \cup {None}]
    BY <1>1, <2>2 DEF TypeOK
  <2>6. job'[q].alone =>
              /\ \A v \in Clients \ {q} : ~Writing(v, s)
              /\ ~job'[q].poisoned => ~Poisoned(s)
              /\ job'[q].good => file[s]["module"] = "whole" /\ ~job'[q].wrote
    BY <1>1, <1>5, <2>2
  <2> QED BY <1>1, <1>2, <2>1, <2>2, <2>4, <2>5, <2>6
<1> QED BY <1>3, <1>4, <1>5

(* open(path, "w") in terms of the file it empties.                        *)
LEMMA TruncateEffect ==
  ASSUME TypeOK, NEW q \in Clients, NEW i \in 1 .. 3, Truncate(q, i)
  PROVE  \E f \in Files : TruncateShape(q, f)
<1> USE DEF Files, TruncateShape, CloseShape
<1>0. i = 1 \/ i = 2 \/ i = 3 OBVIOUS
<1>1. CASE i = 1
  <2> WITNESS "computation" \in Files
  <2> QED BY <1>1 DEF Truncate, Goto, Order, TruncatingOf, ClosingOf
<1>2. CASE i = 2
  <2> WITNESS "module" \in Files
  <2> QED BY <1>2 DEF Truncate, Goto, Order, TruncatingOf, ClosingOf
<1>3. CASE i = 3
  <2> WITNESS "info" \in Files
  <2> QED BY <1>3 DEF Truncate, Goto, Order, TruncatingOf, ClosingOf
<1> QED BY ONLY <1>0, <1>1, <1>2, <1>3, Zenon

(* The file is closed: whole, unless another client has emptied it too.    *)
LEMMA CloseEffect ==
  ASSUME TypeOK, NEW q \in Clients, NEW i \in 1 .. 3, Close(q, i)
  PROVE  \E f \in Files : CloseShape(q, f)
<1> USE DEF Files, TruncateShape, CloseShape
<1>0. i = 1 \/ i = 2 \/ i = 3 OBVIOUS
<1>1. CASE i = 1
  <2> WITNESS "computation" \in Files
  <2> QED BY <1>1 DEF Close, Goto, Order, AfterClose, ClosingOf
<1>2. CASE i = 2
  <2> WITNESS "module" \in Files
  <2> QED BY <1>2 DEF Close, Goto, Order, AfterClose, ClosingOf
<1>3. CASE i = 3
  <2> WITNESS "info" \in Files
  <2> QED BY <1>3 DEF Close, Goto, Order, AfterClose, ClosingOf
<1> QED BY ONLY <1>0, <1>1, <1>2, <1>3, Zenon

(* The check passes only if the module exists, and always if it was whole  *)
(* at both reads.                                                          *)
LEMMA ConsistentFacts ==
  ASSUME NEW q \in Clients, job[q] \in Jobs, NEW now \in {"absent", "torn", "whole"},
         NEW ok \in Consistent(q, now)
  PROVE  /\ ok \in BOOLEAN
         /\ ok => now # "absent"
         /\ ~ok => ~(now = "whole" /\ job[q].seen = "whole")
<1>0. job[q].validate \in BOOLEAN BY DEF Jobs
<1>1. CASE now = "absent" BY <1>1 DEF Consistent
<1>2. CASE now = "torn" BY <1>0, <1>2 DEF Consistent
<1>3. CASE now = "whole" BY <1>0, <1>3 DEF Consistent
<1> QED BY <1>1, <1>2, <1>3

(* The steps of a build that neither write nor start to.                   *)
LEMMA ReaderEffect ==
  ASSUME TypeOK, NEW q \in Clients,
         \/ ReadSource(q) \/ GenerateFails(q) \/ Import(q) \/ ImportComputation(q)
         \/ Check(q) /\ pc'[q] # "truncate1"
  PROVE  ReaderShape(q)
<1> USE DEF ReaderShape
<1>0. /\ pc[q] # "idle" => job[q] \in Jobs
      /\ \A s \in Stencils : file[s]["module"] \in {"absent", "torn", "whole"}
  BY DEF TypeOK, Files
<1>1. ASSUME job[q] \in Jobs, NEW r \in {"ok", "bad", "failed", "notCached"}
      PROVE  SameBuild(job[q], [job[q] EXCEPT !.result = r]) /\ [job[q] EXCEPT !.result = r].result = r
  BY <1>1 DEF Jobs, SameBuild
<1>2. ASSUME job[q] \in Jobs, NEW r \in {"absent", "torn", "whole"}
      PROVE  SameBuild(job[q], [job[q] EXCEPT !.seen = r]) /\ [job[q] EXCEPT !.seen = r].seen = r
  BY <1>2 DEF Jobs, SameBuild
<1>3. ASSUME NEW r, Finish(q, r)
      PROVE  /\ job'[q] = [job[q] EXCEPT !.result = r] /\ job' = [job EXCEPT ![q] = job'[q]]
             /\ pc' = [pc EXCEPT ![q] = "returned"] /\ pc'[q] = "returned"
  BY <1>3 DEF Finish, Goto, TypeOK
<1>4. ASSUME NEW place, Goto(q, place)
      PROVE  pc' = [pc EXCEPT ![q] = place] /\ pc'[q] = place
  BY <1>4 DEF Goto, TypeOK
<1>5. job[q] \in Jobs => job[q].stencil \in Stencils BY DEF Jobs
<1>6. CASE ReadSource(q)
  <2>1. /\ job'[q] = [job[q] EXCEPT !.seen = file[job[q].stencil]["module"]]
        /\ job' = [job EXCEPT ![q] = job'[q]]
    BY <1>6 DEF ReadSource, TypeOK
  <2> QED BY <1>0, <1>2, <1>4, <1>5, <1>6, <2>1, ZenonT(60) DEF ReadSource
<1>7. CASE GenerateFails(q)
  BY <1>0, <1>1, <1>3, <1>7 DEF GenerateFails
<1>8. CASE Import(q)
  <2>1. CASE file[job[q].stencil]["module"] = "whole"
    <3>1. SameBuild(job[q], job[q]) BY <1>0, <1>8 DEF Import, SameBuild
    <3> QED BY <1>0, <1>4, <1>8, <2>1, <3>1 DEF Import, TypeOK
  <2>2. CASE file[job[q].stencil]["module"] # "whole"
    BY <1>0, <1>1, <1>3, <1>8, <2>2 DEF Import
  <2> QED BY <2>1, <2>2
<1>9. CASE ImportComputation(q)
  BY <1>0, <1>1, <1>3, <1>9 DEF ImportComputation
<1>10. CASE Check(q) /\ pc'[q] # "truncate1"
  <2>1. PICK ok \in Consistent(q, file[job[q].stencil]["module"]) :
          \/ ok /\ Goto(q, "import") /\ job' = [job EXCEPT ![q].seen = "absent"]
          \/ ~ok /\ job[q].cachedOnly /\ Finish(q, "notCached")
          \/ ~ok /\ ~job[q].cachedOnly /\ Goto(q, "truncate1") /\ StartWriting(q, job)
    BY <1>10 DEF Check
  <2>2. pc[q] = "check2" /\ UNCHANGED <<file, last, killed>> BY <1>10 DEF Check
  <2>3. /\ ok \in BOOLEAN
        /\ ok => file[job[q].stencil]["module"] # "absent"
        /\ ~ok => ~(file[job[q].stencil]["module"] = "whole" /\ job[q].seen = "whole")
    BY <1>0, <1>5, <2>2, ConsistentFacts
  <2>4. CASE ok /\ Goto(q, "import") /\ job' = [job EXCEPT ![q].seen = "absent"]
    <3>1. job'[q] = [job[q] EXCEPT !.seen = "absent"] /\ job' = [job EXCEPT ![q] = job'[q]]
      BY <2>4 DEF TypeOK
    <3> QED BY <1>0, <1>2, <1>4, <2>2, <2>3, <2>4, <3>1
  <2>5. CASE ~ok /\ job[q].cachedOnly /\ Finish(q, "notCached")
    BY <1>0, <1>1, <1>3, <2>2, <2>3, <2>5
  <2> QED BY <1>4, <1>10, <2>1, <2>4, <2>5
<1> QED BY <1>6, <1>7, <1>8, <1>9, <1>10

(* A check that fails without raise_if_not_cached.                         *)
LEMMA CheckWritesEffect ==
  ASSUME TypeOK, NEW q \in Clients, Check(q), pc'[q] = "truncate1"
  PROVE  CheckWritesShape(q)
<1> USE DEF CheckWritesShape
<1>1. PICK ok \in Consistent(q, file[job[q].stencil]["module"]) :
        \/ ok /\ Goto(q, "import") /\ job' = [job EXCEPT ![q].seen = "absent"]
        \/ ~ok /\ job[q].cachedOnly /\ Finish(q, "notCached")
        \/ ~ok /\ ~job[q].cachedOnly /\ Goto(q, "truncate1") /\ StartWriting(q, job)
  BY DEF Check
<1>2. pc[q] = "check2" /\ UNCHANGED <<file, last, killed>> BY DEF Check
<1>3. ~ok /\ Goto(q, "truncate1") /\ StartWriting(q, job)
  BY <1>1 DEF Goto, Finish, TypeOK
<1>4. /\ job[q] \in Jobs /\ job \in [Clients -> Jobs \cup {None}]
      /\ file[job[q].stencil]["module"] \in {"absent", "torn", "whole"}
  BY <1>2 DEF TypeOK, Jobs, Files
<1>5. ~(file[job[q].stencil]["module"] = "whole" /\ job[q].seen = "whole")
  BY <1>3, <1>4, ConsistentFacts
<1> QED BY <1>2, <1>3, <1>4, <1>5, StartWritingEffect DEF Goto

(* A client is done, or killed.                                            *)
LEMMA LeaveEffect ==
  ASSUME TypeOK, NEW q \in Clients, Return(q) \/ Crash(q)
  PROVE  LeaveShape(q)
BY DEF LeaveShape, Return, Crash, Goto, Writing, Truncating, Closing

(* What writing one file leaves alone.                                     *)
Elsewhere(q, f) ==
  LET s == job[q].stencil IN
  /\ job[q] \in Jobs /\ s \in Stencils /\ UNCHANGED job
  /\ \A u \in Clients \ {q} : pc'[u] = pc[u]
  /\ \A u \in Clients : pc[u] # "idle" => job[u].stencil \in Stencils
  /\ file' \in [Stencils -> [Files -> {"absent", "torn", "whole"}]]
  /\ last' \in [Stencils -> [Files -> Clients \cup {None}]]
  /\ \A x \in Stencils, g \in Files :
       x # s \/ g # f => file'[x][g] = file[x][g] /\ last'[x][g] = last[x][g]

(* TruncateShape and CloseShape file by file.                              *)
TruncatePoint(q, f) ==
  LET s == job[q].stencil IN
  /\ Elsewhere(q, f)
  /\ pc[q] = TruncatingOf(f) /\ pc'[q] = ClosingOf(f) /\ pc' = [pc EXCEPT ![q] = ClosingOf(f)]
  /\ file'[s][f] = "torn" /\ last'[s][f] = q
  /\ UNCHANGED killed
ClosePoint(q, f) ==
  LET s == job[q].stencil IN
  /\ Elsewhere(q, f)
  /\ pc[q] = ClosingOf(f) /\ pc'[q] = AfterClose(f) /\ pc' = [pc EXCEPT ![q] = AfterClose(f)]
  /\ \/ last[s][f] = q /\ file'[s][f] = "whole" /\ last'[s][f] = None
     \/ last[s][f] = None /\ file'[s][f] = file[s][f] /\ last'[s][f] = None
     \/ /\ last[s][f] \notin {q, None} /\ last'[s][f] = last[s][f]
        /\ file'[s][f] \in {"torn", "whole"}
  /\ killed' = IF f = "info" /\ job[q].alone THEN killed \ {s} ELSE killed

(* What emptying a file does, file by file.                                *)
LEMMA TruncatePointwise ==
  ASSUME TypeOK, NEW q \in Clients, NEW f \in Files, TruncateShape(q, f)
  PROVE  TruncatePoint(q, f)
<1>1. job[q] \in Jobs /\ job[q].stencil \in Stencils
  BY DEF TruncateShape, TypeOK, Jobs, TruncatingOf, Files
<1>2. \A u \in Clients : pc[u] # "idle" => job[u].stencil \in Stencils
  BY DEF TypeOK, Jobs
<1> QED BY <1>1, <1>2 DEF TruncateShape, TypeOK, Elsewhere, TruncatePoint

(* What completing a file does, file by file.                              *)
LEMMA ClosePointwise ==
  ASSUME TypeOK, NEW q \in Clients, NEW f \in Files, CloseShape(q, f)
  PROVE  ClosePoint(q, f)
<1> USE DEF ClosePoint
<1> DEFINE s == job[q].stencil
<1>1. job[q] \in Jobs /\ job[q].stencil \in Stencils
  BY DEF CloseShape, TypeOK, Jobs, ClosingOf, Files
<1>2. /\ pc[q] = ClosingOf(f) /\ pc'[q] = AfterClose(f) /\ UNCHANGED job
      /\ pc' = [pc EXCEPT ![q] = AfterClose(f)]
      /\ \A u \in Clients \ {q} : pc'[u] = pc[u]
      /\ killed' = IF f = "info" /\ job[q].alone THEN killed \ {s} ELSE killed
  BY DEF CloseShape, TypeOK
<1>6. \A u \in Clients : pc[u] # "idle" => job[u].stencil \in Stencils
  BY DEF TypeOK, Jobs
<1>3. CASE /\ last[s][f] = q
           /\ file' = [file EXCEPT ![s][f] = "whole"] /\ last' = [last EXCEPT ![s][f] = None]
  BY <1>1, <1>2, <1>6, <1>3 DEF TypeOK, Elsewhere
<1>4. CASE last[s][f] = None /\ UNCHANGED <<file, last>>
  BY <1>1, <1>2, <1>6, <1>4 DEF TypeOK, Elsewhere
<1>5. CASE /\ last[s][f] \notin {q, None} /\ UNCHANGED last
           /\ \E c \in {"torn", "whole"} : file' = [file EXCEPT ![s][f] = c]
  <2>1. PICK c \in {"torn", "whole"} : file' = [file EXCEPT ![s][f] = c] BY <1>5
  <2> QED BY <1>1, <1>2, <1>6, <1>5, <2>1 DEF TypeOK, Elsewhere
<1> QED BY <1>3, <1>4, <1>5 DEF CloseShape

(* Every step has one of these shapes.                                     *)
LEMMA StepShape ==
  ASSUME TypeOK, [Next]_vars
  PROVE  \/ UNCHANGED vars
         \/ \E q \in Clients :
              \/ \E s \in Stencils : BuildShape(q, s)
              \/ ReaderShape(q) \/ CheckWritesShape(q) \/ LeaveShape(q)
              \/ \E f \in Files : TruncatePoint(q, f) \/ ClosePoint(q, f)
<1>1. \/ UNCHANGED vars
      \/ \E q \in Clients :
           \/ \E s \in Stencils, rebuild, cachedOnly, validate \in BOOLEAN :
                Build(q, s, rebuild, cachedOnly, validate)
           \/ ReadSource(q) \/ GenerateFails(q) \/ Import(q) \/ ImportComputation(q)
           \/ Check(q) /\ pc'[q] # "truncate1"
           \/ Check(q) /\ pc'[q] = "truncate1"
           \/ \E i \in 1 .. 3 : Truncate(q, i)
           \/ \E i \in 1 .. 3 : Close(q, i)
           \/ Return(q) \/ Crash(q)
  BY Zenon DEF Next, Step
<1>2. ASSUME NEW q \in Clients, NEW i \in 1 .. 3, Truncate(q, i) \/ Close(q, i)
      PROVE  \E f \in Files : TruncatePoint(q, f) \/ ClosePoint(q, f)
  BY <1>2, TruncateEffect, CloseEffect, TruncatePointwise, ClosePointwise
<1> QED BY <1>1, <1>2, BuildEffect, ReaderEffect, CheckWritesEffect, LeaveEffect

-----------------------------------------------------------------------------
(* Every step keeps each part of the invariant.                            *)

(* Files, clients and builds keep their types. *)
LEMMA TypeStep ==
  ASSUME TypeOK, [Next]_vars
  PROVE  TypeOK'
<1> USE ClientsAssumption DEF TypeOK, Writing, Truncating, Closing, TruncatingOf, ClosingOf, AfterClose, Files
<1>1. ASSUME NEW q \in Clients, NEW s \in Stencils, BuildShape(q, s) PROVE TypeOK'
  <2>1. PICK place \in {"truncate1", "returned", "check1"} : pc' = [pc EXCEPT ![q] = place]
    BY <1>1 DEF BuildShape
  <2>2. pc'[q] # "idle" /\ \A u \in Clients \ {q} : pc'[u] = pc[u] BY <2>1
  <2>3. \A u \in Clients : IF pc'[u] = "idle" THEN job'[u] = None ELSE job'[u] \in Jobs
    BY <1>1, <2>2 DEF BuildShape
  <2> QED BY <1>1, <2>1, <2>3 DEF BuildShape
<1>2. ASSUME NEW q \in Clients, ReaderShape(q) PROVE TypeOK'
  BY <1>2 DEF ReaderShape, SameBuild
<1>3. ASSUME NEW q \in Clients, CheckWritesShape(q) PROVE TypeOK'
  BY <1>3 DEF CheckWritesShape
<1>4. ASSUME NEW q \in Clients, NEW f \in Files, TruncatePoint(q, f) PROVE TypeOK'
  BY <1>4 DEF TruncatePoint, Elsewhere
<1>5. ASSUME NEW q \in Clients, NEW f \in Files, ClosePoint(q, f) PROVE TypeOK'
  BY <1>5 DEF ClosePoint, Elsewhere
<1>6. ASSUME NEW q \in Clients, LeaveShape(q) PROVE TypeOK'
  <2>1. job[q] \in Jobs /\ job[q].stencil \in Stencils BY <1>6 DEF LeaveShape, Jobs
  <2> QED BY <1>6, <2>1 DEF LeaveShape
<1>7. CASE UNCHANGED vars BY <1>7 DEF vars
<1> QED BY <1>1, <1>2, <1>3, <1>4, <1>5, <1>6, <1>7, StepShape

(* A torn file has a writer, or had one that was killed. *)
LEMMA TornStep ==
  ASSUME TypeOK, TornInv, AloneInv, WriterInv, [Next]_vars
  PROVE  TornInv'
<1> USE ClientsAssumption DEF TypeOK, TornInv, Writing, Truncating, Closing, TruncatingOf, ClosingOf, AfterClose, Files
<1>1. ASSUME NEW q \in Clients, NEW s \in Stencils, BuildShape(q, s) PROVE TornInv'
  BY <1>1 DEF BuildShape
<1>2. ASSUME NEW q \in Clients, ReaderShape(q) PROVE TornInv'
  BY <1>2 DEF ReaderShape, SameBuild
<1>3. ASSUME NEW q \in Clients, CheckWritesShape(q) PROVE TornInv'
  BY <1>3 DEF CheckWritesShape
<1>4. ASSUME NEW q \in Clients, NEW f \in Files, TruncatePoint(q, f) PROVE TornInv'
  BY <1>4, SMTT(30) DEF TruncatePoint, Elsewhere
<1>5. ASSUME NEW q \in Clients, NEW f \in Files, ClosePoint(q, f) PROVE TornInv'
  <2>1. CASE f = "computation" BY <1>5, <2>1 DEF ClosePoint, Elsewhere
  <2>2. CASE f = "module" BY <1>5, <2>2, SMTT(30) DEF ClosePoint, Elsewhere
  <2>3. CASE f = "info" BY <1>5, <2>3 DEF ClosePoint, AloneInv, WriterInv, Written, Elsewhere
  <2> QED BY <2>1, <2>2, <2>3
<1>6. ASSUME NEW q \in Clients, LeaveShape(q) PROVE TornInv'
  BY <1>6 DEF LeaveShape
<1>7. CASE UNCHANGED vars BY <1>7 DEF vars
<1> QED BY <1>1, <1>2, <1>3, <1>4, <1>5, <1>6, <1>7, StepShape

(* The computation comes before the module. *)
LEMMA OrderStep ==
  ASSUME TypeOK, OrderInv, [Next]_vars
  PROVE  OrderInv'
<1> USE ClientsAssumption DEF TypeOK, OrderInv, Writing, Truncating, Closing, TruncatingOf, ClosingOf, AfterClose, Files
<1>1. ASSUME NEW q \in Clients, NEW s \in Stencils, BuildShape(q, s) PROVE OrderInv'
  BY <1>1 DEF BuildShape
<1>2. ASSUME NEW q \in Clients, ReaderShape(q) PROVE OrderInv'
  BY <1>2 DEF ReaderShape, SameBuild
<1>3. ASSUME NEW q \in Clients, CheckWritesShape(q) PROVE OrderInv'
  BY <1>3 DEF CheckWritesShape
<1>4. ASSUME NEW q \in Clients, NEW f \in Files, TruncatePoint(q, f) PROVE OrderInv'
  <2>1. \A x \in Stencils : file'[x]["computation"] = "absent" => file[x]["computation"] = "absent"
    BY <1>4 DEF TruncatePoint, Elsewhere
  <2>2. \A x \in Stencils : file[x]["module"] = "absent" /\ file'[x]["module"] # "absent" =>
          file[x]["computation"] # "absent"
    BY <1>4 DEF TruncatePoint, Elsewhere
  <2>3. ASSUME NEW u \in Clients, pc'[u] \in {"close1", "truncate2", "close2", "truncate3", "close3"}
        PROVE  file'[job'[u].stencil]["computation"] # "absent"
    <3>1. CASE u = q BY <1>4, <2>1, <2>3, <3>1 DEF TruncatePoint, Elsewhere
    <3>2. CASE u # q BY <1>4, <2>1, <2>3, <3>2 DEF TruncatePoint, Elsewhere
    <3> QED BY <3>1, <3>2
  <2> QED BY <2>1, <2>2, <2>3
<1>5. ASSUME NEW q \in Clients, NEW f \in Files, ClosePoint(q, f) PROVE OrderInv'
  <2>1. \A x \in Stencils : file'[x]["computation"] = "absent" => file[x]["computation"] = "absent"
    BY <1>5 DEF ClosePoint, Elsewhere
  <2>2. \A x \in Stencils : file[x]["module"] = "absent" /\ file'[x]["module"] # "absent" =>
          file[x]["computation"] # "absent"
    BY <1>5 DEF ClosePoint, Elsewhere
  <2>3. ASSUME NEW u \in Clients, pc'[u] \in {"close1", "truncate2", "close2", "truncate3", "close3"}
        PROVE  file'[job'[u].stencil]["computation"] # "absent"
    <3>1. CASE u = q BY <1>5, <2>1, <2>3, <3>1 DEF ClosePoint, Elsewhere
    <3>2. CASE u # q BY <1>5, <2>1, <2>3, <3>2 DEF ClosePoint, Elsewhere
    <3> QED BY <3>1, <3>2
  <2> QED BY <2>1, <2>2, <2>3
<1>6. ASSUME NEW q \in Clients, LeaveShape(q) PROVE OrderInv'
  BY <1>6 DEF LeaveShape
<1>7. CASE UNCHANGED vars BY <1>7 DEF vars
<1> QED BY <1>1, <1>2, <1>3, <1>4, <1>5, <1>6, <1>7, StepShape

(* A build on its own stays so until somebody else writes. *)
LEMMA AloneStep ==
  ASSUME TypeOK, AloneInv, [Next]_vars
  PROVE  AloneInv'
<1> USE ClientsAssumption DEF TypeOK, AloneInv, Writing, Truncating, Closing, TruncatingOf, ClosingOf, AfterClose, Files
<1>1. ASSUME NEW q \in Clients, NEW s \in Stencils, BuildShape(q, s) PROVE AloneInv'
  BY <1>1 DEF BuildShape
<1>2. ASSUME NEW q \in Clients, ReaderShape(q) PROVE AloneInv'
  BY <1>2 DEF ReaderShape, SameBuild
<1>3. ASSUME NEW q \in Clients, CheckWritesShape(q) PROVE AloneInv'
  BY <1>3 DEF CheckWritesShape
<1>4. ASSUME NEW q \in Clients, NEW f \in Files, TruncatePoint(q, f) PROVE AloneInv'
  BY <1>4 DEF TruncatePoint, Elsewhere
<1>5. ASSUME NEW q \in Clients, NEW f \in Files, ClosePoint(q, f) PROVE AloneInv'
  BY <1>5 DEF ClosePoint, Elsewhere
<1>6. ASSUME NEW q \in Clients, LeaveShape(q) PROVE AloneInv'
  BY <1>6 DEF LeaveShape
<1>7. CASE UNCHANGED vars BY <1>7 DEF vars
<1> QED BY <1>1, <1>2, <1>3, <1>4, <1>5, <1>6, <1>7, StepShape

(* What a build on its own writes stays whole. *)
LEMMA WriterStep ==
  ASSUME TypeOK, AloneInv, WriterInv, [Next]_vars
  PROVE  WriterInv'
<1> USE ClientsAssumption DEF TypeOK, AloneInv, WriterInv, Written, Writing, Truncating, Closing, TruncatingOf, ClosingOf, AfterClose, Files
<1>1. ASSUME NEW q \in Clients, NEW s \in Stencils, BuildShape(q, s) PROVE WriterInv'
  BY <1>1 DEF BuildShape
<1>2. ASSUME NEW q \in Clients, ReaderShape(q) PROVE WriterInv'
  BY <1>2 DEF ReaderShape, SameBuild
<1>3. ASSUME NEW q \in Clients, CheckWritesShape(q) PROVE WriterInv'
  BY <1>3 DEF CheckWritesShape
<1>4. ASSUME NEW q \in Clients, NEW f \in Files, TruncatePoint(q, f) PROVE WriterInv'
  <2>1. CASE f = "computation" BY <1>4, <2>1 DEF TruncatePoint, Elsewhere
  <2>2. CASE f = "module" BY <1>4, <2>2 DEF TruncatePoint, Elsewhere
  <2>3. CASE f = "info" BY <1>4, <2>3 DEF TruncatePoint, Elsewhere
  <2> QED BY <2>1, <2>2, <2>3
<1>5. ASSUME NEW q \in Clients, NEW f \in Files, ClosePoint(q, f) PROVE WriterInv'
  <2>1. CASE f = "computation" BY <1>5, <2>1 DEF ClosePoint, Elsewhere
  <2>2. CASE f = "module" BY <1>5, <2>2 DEF ClosePoint, Elsewhere
  <2>3. CASE f = "info" BY <1>5, <2>3 DEF ClosePoint, Elsewhere
  <2> QED BY <2>1, <2>2, <2>3
<1>6. ASSUME NEW q \in Clients, LeaveShape(q) PROVE WriterInv'
  BY <1>6 DEF LeaveShape
<1>7. CASE UNCHANGED vars BY <1>7 DEF vars
<1> HIDE DEF TypeOK, WriterInv
<1> QED BY <1>1, <1>2, <1>3, <1>4, <1>5, <1>6, <1>7, StepShape

(* What a build on its own found stays there. *)
LEMMA ReaderStep ==
  ASSUME TypeOK, AloneInv, WriterInv, ReaderInv, [Next]_vars
  PROVE  ReaderInv'
<1> USE ClientsAssumption DEF TypeOK, AloneInv, WriterInv, ReaderInv, Written, Usable, Poisoned, Writing, Truncating, Closing, TruncatingOf, ClosingOf, AfterClose, Files
<1>1. ASSUME NEW q \in Clients, NEW s \in Stencils, BuildShape(q, s) PROVE ReaderInv'
  BY <1>1 DEF BuildShape
<1>2. ASSUME NEW q \in Clients, ReaderShape(q) PROVE ReaderInv'
  <2>1. job[q].stencil \in Stencils BY <1>2 DEF ReaderShape, Jobs
  <2>2. file[job[q].stencil]["module"] \in {"absent", "torn", "whole"} BY <2>1
  <2>3. \A u \in Clients \ {q} : pc'[u] = pc[u] /\ job'[u] = job[u] BY <1>2 DEF ReaderShape
  <2> QED BY <1>2, <2>2, <2>3 DEF ReaderShape, SameBuild
<1>3. ASSUME NEW q \in Clients, CheckWritesShape(q) PROVE ReaderInv'
  BY <1>3 DEF CheckWritesShape
<1>4. ASSUME NEW q \in Clients, NEW f \in Files, TruncatePoint(q, f) PROVE ReaderInv'
  <2>1. CASE f = "computation" BY <1>4, <2>1 DEF TruncatePoint, Elsewhere
  <2>2. CASE f = "module" BY <1>4, <2>2 DEF TruncatePoint, Elsewhere
  <2>3. CASE f = "info" BY <1>4, <2>3 DEF TruncatePoint, Elsewhere
  <2> QED BY <2>1, <2>2, <2>3
<1>5. ASSUME NEW q \in Clients, NEW f \in Files, ClosePoint(q, f) PROVE ReaderInv'
  <2>1. CASE f = "computation" BY <1>5, <2>1 DEF ClosePoint, Elsewhere
  <2>2. CASE f = "module" BY <1>5, <2>2 DEF ClosePoint, Elsewhere
  <2>3. CASE f = "info" BY <1>5, <2>3 DEF ClosePoint, Elsewhere
  <2> QED BY <2>1, <2>2, <2>3
<1>6. ASSUME NEW q \in Clients, LeaveShape(q) PROVE ReaderInv'
  BY <1>6 DEF LeaveShape
<1>7. CASE UNCHANGED vars BY <1>7 DEF vars
<1> QED BY <1>1, <1>2, <1>3, <1>4, <1>5, <1>6, <1>7, StepShape

(* A build on its own uses what is good. *)
LEMMA GoodStep ==
  ASSUME TypeOK, AloneInv, ReaderInv, GoodInv, [Next]_vars
  PROVE  GoodInv'
<1> USE ClientsAssumption DEF TypeOK, AloneInv, ReaderInv, GoodInv, Usable, Poisoned, Writing, Truncating, Closing, TruncatingOf, ClosingOf, AfterClose, Files
<1>1. ASSUME NEW q \in Clients, NEW s \in Stencils, BuildShape(q, s) PROVE GoodInv'
  BY <1>1 DEF BuildShape
<1>2. ASSUME NEW q \in Clients, ReaderShape(q) PROVE GoodInv'
  BY <1>2 DEF ReaderShape, SameBuild
<1>3. ASSUME NEW q \in Clients, CheckWritesShape(q) PROVE GoodInv'
  BY <1>3 DEF CheckWritesShape
<1>4. ASSUME NEW q \in Clients, NEW f \in Files, TruncatePoint(q, f) PROVE GoodInv'
  <2>1. CASE f = "computation" BY <1>4, <2>1 DEF TruncatePoint, Elsewhere
  <2>2. CASE f = "module" BY <1>4, <2>2 DEF TruncatePoint, Elsewhere
  <2>3. CASE f = "info" BY <1>4, <2>3 DEF TruncatePoint, Elsewhere
  <2> QED BY <2>1, <2>2, <2>3
<1>5. ASSUME NEW q \in Clients, NEW f \in Files, ClosePoint(q, f) PROVE GoodInv'
  <2>1. CASE f = "computation" BY <1>5, <2>1, SMTT(30) DEF ClosePoint, Elsewhere
  <2>2. CASE f = "module" BY <1>5, <2>2 DEF ClosePoint, Elsewhere
  <2>3. CASE f = "info" BY <1>5, <2>3 DEF ClosePoint, Elsewhere
  <2> QED BY <2>1, <2>2, <2>3
<1>6. ASSUME NEW q \in Clients, LeaveShape(q) PROVE GoodInv'
  BY <1>6 DEF LeaveShape
<1>7. CASE UNCHANGED vars BY <1>7 DEF vars
<1> QED BY <1>1, <1>2, <1>3, <1>4, <1>5, <1>6, <1>7, StepShape

(* The invariant holds at the start and every step keeps it.               *)
LEMMA Inductive == Spec => []IInv
<1>1. Init => IInv
  BY ClientsAssumption DEF Init, IInv, TypeOK, TornInv, OrderInv, AloneInv, WriterInv, ReaderInv, GoodInv,
     Files, Truncating, Closing, Writing
<1>2. IInv /\ [Next]_vars => IInv'
  BY TypeStep, TornStep, OrderStep, AloneStep, WriterStep, ReaderStep, GoodStep DEF IInv
<1> QED BY <1>1, <1>2, PTL DEF Spec

-----------------------------------------------------------------------------
(* Files, clients and builds stay in known states, for any clients and     *)
(* stencils.                                                               *)
THEOREM TypeCorrect == Spec => []TypeOK
<1>1. IInv => TypeOK BY DEF IInv
<1> QED BY <1>1, Inductive, PTL

(* StencilBuilder.build fails to load its stencil only if another client   *)
(* wrote it meanwhile or it started on a torn one; a rebuild on its own    *)
(* heals.                                                                  *)
THEOREM LoadsUnlessDisturbed == Spec => []NoSpuriousError
<1>1. IInv => NoSpuriousError
  BY DEF IInv, TypeOK, ReaderInv, NoSpuriousError, Returned
<1> QED BY <1>1, Inductive, PTL

(* However many builds overlap without a lock, the files they leave behind *)
(* can be loaded or are absent, unless a writer was killed.                *)
THEOREM OverlapIsHarmless == Spec => []PoisonNeedsKill
<1>1. IInv => PoisonNeedsKill
  <2> SUFFICES ASSUME IInv, NEW s \in Stencils, Poisoned(s), s \notin killed,
                      \A q \in Clients : ~Writing(q, s)
               PROVE  FALSE
    BY DEF PoisonNeedsKill
  <2>1. \E f \in Files : file[s][f] = "torn"
    BY DEF IInv, TypeOK, OrderInv, Poisoned, Files
  <2>2. PICK f \in Files : file[s][f] = "torn" BY <2>1
  <2>3. PICK q \in Clients : last[s][f] = q
    BY <2>2 DEF IInv, TypeOK, TornInv
  <2>4. pc[q] = ClosingOf(f) /\ job[q].stencil = s
    BY <2>3 DEF IInv, TornInv
  <2> QED BY <2>4 DEF Writing, Closing, ClosingOf, Files
<1> QED BY <1>1, Inductive, PTL

(* A build that starts on a loadable stencil, and that no writer overlaps, *)
(* loads it and writes nothing.                                            *)
THEOREM CacheIsUsed == Spec => []GoodIsUsed
<1>1. IInv => GoodIsUsed BY DEF IInv, GoodInv, GoodIsUsed
<1> QED BY <1>1, Inductive, PTL
=============================================================================
