----------------------------- MODULE MCRecorder -----------------------------
(***************************************************************************)
(* Small inboxes for the model checker.                                    *)
(***************************************************************************)
EXTENDS Recorder

CONSTANTS c1, c2, c3, idA, idB, m1, m2   \* bodies, identities, metadata hashes

Doc(id, c, m) == [form |-> "ok", ident |-> id, sha |-> c, meta |-> m, size |-> 1]

\* All bodies have one size, so that only their hash tells them apart.
OneSize == [c \in Content |-> 1]

\* One device that publishes one segment.
OneDoc == {Doc(idA, c1, m1)}

\* Devices that disagree about identities, bodies and metadata.
Rivals == {Doc(idA, c1, m1), Doc(idB, c1, m1), Doc(idB, c2, m1), Doc(idB, c1, m2)}

\* Everything else a sidecar can be wrong about: c2 exceeds the size limit and
\* c3 is not a video.
Flawed ==
  {Doc(idA, c1, m1), Doc(idA, c3, m1), [Doc(idA, c1, m1) EXCEPT !.size = 2]}
    \cup {[Doc(idA, c1, m1) EXCEPT !.form = f] : f \in {"incomplete", "invalid", "oversize"}}
MixedSizes == [c \in Content |-> IF c = c2 THEN 3 ELSE 1]

OldConf == {[fp |-> Doc(idA, c1, m1), seg |-> 1]}
NoOldConf == {}
=============================================================================
