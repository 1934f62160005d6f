------------------------------- MODULE Vault -------------------------------
(***************************************************************************)
(* What the recorder promises about media, without workers, files on their *)
(* way, tables or stops: an identity is bound once and for good to a body  *)
(* with its metadata, a body that is bound has a managed copy or one in a  *)
(* backup, and the recorder drops the managed copy only while a backup has *)
(* it.  Harm is what comes from outside.                                   *)
(***************************************************************************)
EXTENDS FiniteSets

CONSTANTS Ident, Body, Meta, Unbound

VARIABLES
  binding,   \* the body and metadata an identity stands for, or Unbound
  managed,   \* bodies with a sound managed copy
  backedUp,  \* bodies that can be read back from a backup
  harmed     \* bodies whose managed copy was hit from outside

vars == <<binding, managed, backedUp, harmed>>

Bound == {binding[id].body : id \in {id \in Ident : binding[id] # Unbound}}

Init ==
  /\ binding = [id \in Ident |-> Unbound]
  /\ managed = {} /\ backedUp = {} /\ harmed = {}

\* A copy is put in place, for a body that may not be bound yet.
Install(h) ==
  /\ managed' = managed \cup {h}
  /\ UNCHANGED <<binding, backedUp, harmed>>

\* An identity is bound to a body the vault has.
Bind(id, h, m) ==
  /\ binding[id] = Unbound /\ h \in managed \cup backedUp \cup harmed
  /\ binding' = [binding EXCEPT ![id] = [body |-> h, meta |-> m]]
  /\ UNCHANGED <<managed, backedUp, harmed>>

\* A backup holds sound bodies only.
Backup(S) ==
  /\ S \subseteq managed
  /\ backedUp' = backedUp \cup S
  /\ UNCHANGED <<binding, managed, harmed>>

\* The recorder drops a managed copy of what a backup has.
Drop(h) ==
  /\ h \in managed \cap backedUp
  /\ managed' = managed \ {h}
  /\ UNCHANGED <<binding, backedUp, harmed>>

\* A medium of the backup fails; the managed copy is there.
Fade(h) ==
  /\ h \in managed
  /\ backedUp' = backedUp \ {h}
  /\ UNCHANGED <<binding, managed, harmed>>

Harm(h) ==
  /\ managed' = managed \ {h}
  /\ harmed' = harmed \cup {h}
  /\ UNCHANGED <<binding, backedUp>>

Next ==
  \/ \E h \in Body : Install(h) \/ Drop(h) \/ Fade(h) \/ Harm(h)
  \/ \E id \in Ident, h \in Body, m \in Meta : Bind(id, h, m)
  \/ \E S \in SUBSET Body : Backup(S)

Spec == Init /\ [][Next]_vars
=============================================================================
