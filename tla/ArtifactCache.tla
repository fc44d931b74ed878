--------------------------- MODULE ArtifactCache ---------------------------
(***************************************************************************)
(* What a build cache promises, whatever build system is behind it.  Every *)
(* program has an entry that is either valid, i.e. a compilation step may  *)
(* hand it out, or not.  A client asks for a program and is served only    *)
(* while the entry is valid.  An entry becomes valid on behalf of a client *)
(* that asked for it; it stops being valid on behalf of such a client, if  *)
(* it may rebuild what is valid, or because something outside removed it.  *)
(***************************************************************************)
CONSTANTS
  Clients, Programs, None,
  Rebuilders,        \* clients that may rebuild a valid entry
  Removable          \* the programs whose entries something outside removes

VARIABLES valid, asked, served

acVars == <<valid, asked, served>>

ACInit ==
  /\ valid = {}
  /\ asked = [q \in Clients |-> None]
  /\ served = [q \in Clients |-> None]

Ask(q, p) ==
  /\ asked[q] = None
  /\ served[q] = None
  /\ asked' = [asked EXCEPT ![q] = p]
  /\ UNCHANGED <<valid, served>>

Publish(p) ==
  /\ \E q \in Clients : asked[q] = p
  /\ p \notin valid
  /\ valid' = valid \cup {p}
  /\ UNCHANGED <<asked, served>>

Discard(p) ==
  /\ p \in valid
  /\ p \in Removable \/ \E q \in Rebuilders : asked[q] = p
  /\ valid' = valid \ {p}
  /\ UNCHANGED <<asked, served>>

Serve(q) ==
  /\ asked[q] \in valid
  /\ served' = [served EXCEPT ![q] = asked[q]]
  /\ asked' = [asked EXCEPT ![q] = None]
  /\ UNCHANGED valid

(* The request fails, or its process dies. *)
Reject(q) ==
  /\ asked[q] # None
  /\ asked' = [asked EXCEPT ![q] = None]
  /\ UNCHANGED <<valid, served>>

(* The artifact is loaded, or its process dies. *)
Leave(q) ==
  /\ served[q] # None
  /\ served' = [served EXCEPT ![q] = None]
  /\ UNCHANGED <<valid, asked>>

ACNext ==
  \/ \E q \in Clients, p \in Programs : Ask(q, p)
  \/ \E p \in Programs : Publish(p) \/ Discard(p)
  \/ \E q \in Clients : Serve(q) \/ Reject(q) \/ Leave(q)

ACSpec == ACInit /\ [][ACNext]_acVars
=============================================================================
