-------------------------- MODULE TranslationCache --------------------------
(***************************************************************************)
(* The persistent cache of translated programs: a CachedStep               *)
(* (next/otf/workflow.py) over a FileCache (_core/filecache.py).           *)
(*                                                                         *)
(* Clients (threads, workers, ranks) share the cache folder.  An entry is  *)
(* one file with a file lock of its own.  Whether an entry exists is       *)
(* looked up before the lock is taken; reading, evicting, publishing and   *)
(* deleting happen under it.  A client may be killed anywhere; a truncated *)
(* file (power loss: atomic writes are not synced) or a deleted one may    *)
(* appear from outside.                                                    *)
(***************************************************************************)
CONSTANTS
  Clients,     \* whoever calls the cached step or deletes an entry
  Keys,        \* cache keys: fingerprints of the step and its input
  Deleters,    \* the clients that also delete entries
  Fragile,     \* the keys whose file something outside truncates or removes
  None

ASSUME CacheAssumption ==
  /\ Deleters \subseteq Clients
  /\ Fragile \subseteq Keys
  /\ None \notin Clients \cup Keys

VARIABLES
  file,      \* content of the entry of a key
  lock,      \* the client that holds the file lock of a key, or None
  pc, key,   \* where a client is, and the key its operation is about
  op,        \* "call" or "del"
  outcome,   \* how its last operation ended
  gap        \* history: the entry was missing or torn during the operation

clients == <<pc, key, op, outcome>>
vars == <<file, lock, clients, gap>>

Contents == {"absent", "torn", "good"}
Labels   == {"idle", "contains", "lock", "load", "evict", "step", "wlock",
             "write", "replace", "stored", "served", "unlink", "unlinked"}
Outcomes == {"none", "value", "stepError", "writeError", "osError", "deleted",
             "keyError", "killed"}

(* A torn entry may be left from before. *)
Init ==
  /\ file \in [Keys -> {"absent", "torn"}]
  /\ lock = [k \in Keys |-> None]
  /\ pc = [c \in Clients |-> "idle"]
  /\ key = [c \in Clients |-> None]
  /\ op = [c \in Clients |-> "call"]
  /\ outcome = [c \in Clients |-> "none"]
  /\ gap = [c \in Clients |-> FALSE]

At(c, l)   == pc[c] = l
Goto(c, l) == pc' = [pc EXCEPT ![c] = l] /\ UNCHANGED <<key, op, outcome>>

Return(c, o) ==
  /\ pc' = [pc EXCEPT ![c] = "idle"]
  /\ key' = [key EXCEPT ![c] = None]
  /\ outcome' = [outcome EXCEPT ![c] = o]
  /\ UNCHANGED op

(* The with statement releases the lock however its block is left. *)
Unlock(c) == lock' = [lock EXCEPT ![key[c]] = None]

(* The content of an entry changes: operations about it remember a gap. *)
SetFile(k, content) ==
  /\ file' = [file EXCEPT ![k] = content]
  /\ gap' = [c \in Clients |-> gap[c] \/ (key[c] = k /\ content # "good")]

-----------------------------------------------------------------------------
(* CachedStep.__call__ and FileCache.__delitem__ begin. *)
Begin(c, k, o) ==
  /\ At(c, "idle")
  /\ pc' = [pc EXCEPT ![c] = "contains"]
  /\ key' = [key EXCEPT ![c] = k]
  /\ op' = [op EXCEPT ![c] = o]
  /\ outcome' = [outcome EXCEPT ![c] = "none"]
  /\ gap' = [gap EXCEPT ![c] = file[k] # "good"]
  /\ UNCHANGED <<file, lock>>

Call(c, k)   == Begin(c, k, "call")
Delete(c, k) == c \in Deleters /\ Begin(c, k, "del")

(* __contains__, without the lock: a KeyError sends a call to its step. *)
Contains(c) ==
  /\ At(c, "contains")
  /\ \/ /\ file[key[c]] # "absent"
        /\ Goto(c, "lock")
     \/ /\ file[key[c]] = "absent"
        /\ op[c] = "call"
        /\ Goto(c, "step")
     \/ /\ file[key[c]] = "absent"
        /\ op[c] = "del"
        /\ Return(c, "keyError")
  /\ UNCHANGED <<file, lock, gap>>

(* Mutant: the lock records what is locked instead of by whom. *)
LockPath(c) ==
  /\ At(c, "lock")
  /\ lock[key[c]] = None
  /\ lock' = [lock EXCEPT ![key[c]] = key[c]]
  /\ Goto(c, IF op[c] = "call" THEN "load" ELSE "unlink")
  /\ UNCHANGED <<file, gap>>

(* Mutant: an entry somebody else is using counts as missing. *)
LockOrMiss(c) ==
  /\ \/ /\ At(c, "lock")
        /\ lock[key[c]] = None
        /\ lock' = [lock EXCEPT ![key[c]] = c]
        /\ Goto(c, IF op[c] = "call" THEN "load" ELSE "unlink")
     \/ /\ At(c, "lock")
        /\ lock[key[c]] # None
        /\ op[c] = "call"
        /\ Goto(c, "step")
        /\ UNCHANGED lock
  /\ UNCHANGED <<file, gap>>

Lock(c) ==
  /\ At(c, "lock")
  /\ lock[key[c]] = None
  /\ lock' = [lock EXCEPT ![key[c]] = c]
  /\ Goto(c, IF op[c] = "call" THEN "load" ELSE "unlink")
  /\ UNCHANGED <<file, gap>>

(* Mutant: only unreadable contents are handled, not a file that is gone. *)
LoadMissingRaises(c) ==
  /\ At(c, "load")
  /\ \/ /\ file[key[c]] = "good"
        /\ Unlock(c)
        /\ Goto(c, "served")
     \/ /\ file[key[c]] = "torn"
        /\ Goto(c, "evict")
        /\ UNCHANGED lock
     \/ /\ file[key[c]] = "absent"
        /\ Unlock(c)
        /\ Return(c, "osError")
  /\ UNCHANGED <<file, gap>>

(* Mutant: the lock is released before the unreadable entry is unlinked. *)
LoadUnlocks(c) ==
  /\ At(c, "load")
  /\ Unlock(c)
  /\ Goto(c, IF file[key[c]] = "good" THEN "served" ELSE "evict")
  /\ UNCHANGED <<file, gap>>

(* open and pickle.load: a truncated or vanished file is handled alike. *)
Load(c) ==
  /\ At(c, "load")
  /\ \/ /\ file[key[c]] = "good"
        /\ Unlock(c)
        /\ Goto(c, "served")
     \/ /\ file[key[c]] # "good"
        /\ Goto(c, "evict")
        /\ UNCHANGED lock
  /\ UNCHANGED <<file, gap>>

(* Mutant: the exception escapes with the lock held. *)
EvictLocked(c) ==
  /\ At(c, "evict")
  /\ SetFile(key[c], "absent")
  /\ Goto(c, "step")
  /\ UNCHANGED lock

(* path.unlink(missing_ok=True); the KeyError makes the call run its step. *)
Evict(c) ==
  /\ At(c, "evict")
  /\ SetFile(key[c], "absent")
  /\ Unlock(c)
  /\ Goto(c, "step")

Step(c) ==
  /\ At(c, "step")
  /\ Goto(c, "wlock") \/ Return(c, "stepError")
  /\ UNCHANGED <<file, lock, gap>>

-----------------------------------------------------------------------------
(* FileCache.__setitem__: pickle into a sibling file, rename it into place. *)
LockForWrite(c) ==
  /\ At(c, "wlock")
  /\ lock[key[c]] = None
  /\ lock' = [lock EXCEPT ![key[c]] = c]
  /\ Goto(c, "write")
  /\ UNCHANGED <<file, gap>>

WriteTemp(c) ==
  /\ At(c, "write")
  /\ \/ /\ Goto(c, "replace")
        /\ UNCHANGED lock
     \/ /\ Unlock(c)
        /\ Return(c, "writeError")
  /\ UNCHANGED <<file, gap>>

Replace(c) ==
  /\ At(c, "replace")
  /\ SetFile(key[c], "good")
  /\ Goto(c, "stored")
  /\ UNCHANGED lock

(* The call returns what its step computed, not what was stored. *)
ReturnComputed(c) ==
  /\ At(c, "stored")
  /\ Unlock(c)
  /\ Return(c, "value")
  /\ UNCHANGED <<file, gap>>

ReturnCached(c) ==
  /\ At(c, "served")
  /\ Return(c, "value")
  /\ UNCHANGED <<file, lock, gap>>

(* FileCache.__delitem__ under the lock: the entry may be gone by now, and
   then unlink raises FileNotFoundError. *)
Unlink(c) ==
  /\ At(c, "unlink")
  /\ \/ /\ file[key[c]] = "absent"
        /\ Unlock(c)
        /\ Return(c, "osError")
        /\ UNCHANGED <<file, gap>>
     \/ /\ file[key[c]] # "absent"
        /\ SetFile(key[c], "absent")
        /\ Goto(c, "unlinked")
        /\ UNCHANGED lock

ReturnDeleted(c) ==
  /\ At(c, "unlinked")
  /\ Unlock(c)
  /\ Return(c, "deleted")
  /\ UNCHANGED <<file, gap>>

-----------------------------------------------------------------------------
(* The environment.  The operating system releases the locks of the dead. *)
Kill(c) ==
  /\ pc[c] # "idle"
  /\ lock' = [k \in Keys |-> IF lock[k] = c THEN None ELSE lock[k]]
  /\ Return(c, "killed")
  /\ UNCHANGED <<file, gap>>

Damage(k) ==
  /\ k \in Fragile
  /\ file[k] # "absent"
  /\ \E content \in {"torn", "absent"} : SetFile(k, content)
  /\ UNCHANGED <<lock, clients>>

Advance(c) ==
  Contains(c) \/ Lock(c) \/ Load(c) \/ Evict(c) \/ Step(c) \/ LockForWrite(c)
    \/ WriteTemp(c) \/ Replace(c) \/ ReturnComputed(c) \/ ReturnCached(c)
    \/ Unlink(c) \/ ReturnDeleted(c)

Next ==
  \/ \E c \in Clients, k \in Keys : Call(c, k) \/ Delete(c, k)
  \/ \E c \in Clients : Advance(c) \/ Kill(c)
  \/ \E k \in Keys : Damage(k)

Spec == Init /\ [][Next]_vars

(* A client inside an operation keeps running. *)
FairSpec == Spec /\ \A c \in Clients : WF_vars(Advance(c))

-----------------------------------------------------------------------------
(* Files, locks and clients stay within their types. *)
TypeOK ==
  /\ file \in [Keys -> Contents]
  /\ lock \in [Keys -> Clients \cup {None}]
  /\ pc \in [Clients -> Labels]
  /\ key \in [Clients -> Keys \cup {None}]
  /\ op \in [Clients -> {"call", "del"}]
  /\ outcome \in [Clients -> Outcomes]
  /\ gap \in [Clients -> BOOLEAN]

(* A good entry is used: a call that runs its step overlapped a moment at
   which the entry was missing or torn, however lookups, evictions and
   publications of other clients interleave with it. *)
HitWhenGood ==
  \A c \in Clients :
    pc[c] \in {"step", "wlock", "write", "replace"} => gap[c]

(* The lookup happens before the lock is taken, yet no call fails because the
   entry was evicted, deleted or damaged in between; only a delete does, with
   FileNotFoundError, and only when the entry went away meanwhile. *)
NoForeignError ==
  \A c \in Clients : outcome[c] \in {"osError", "keyError"} => op[c] = "del" /\ gap[c]

(* Whatever fails or dies with an entry locked, the clients never all wait:
   if all are inside an operation, one returns. *)
SomeoneReturns ==
  (\A c \in Clients : ~At(c, "idle")) ~> (\E c \in Clients : At(c, "idle"))

AC == INSTANCE ArtifactCache WITH
        Programs <- Keys,
        Rebuilders <- Deleters,
        Removable <- Fragile,
        valid <- {k \in Keys : file[k] = "good"},
        asked <- [c \in Clients |-> IF pc[c] \in {"idle", "served"} THEN None ELSE key[c]],
        served <- [c \in Clients |-> IF At(c, "served") THEN key[c] ELSE None]

(* The cache implements the same abstract promise as the build folders: a
   cached value is handed out only while its entry is good, and a good entry goes away
   only through a delete, never through the eviction of a torn one. *)
ImplementsArtifactCache == AC!ACSpec
=============================================================================
