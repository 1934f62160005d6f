----------------------------- MODULE MCEventApi -----------------------------
(***************************************************************************)
(* Three senders for the model checker: two that post the same key, once   *)
(* with the same and once with another content, and a device that sends a  *)
(* heartbeat.                                                              *)
(***************************************************************************)
EXTENDS EventApi

CONSTANTS s1, s2, s3

It(k, x) == [valid |-> TRUE, collector |-> "col", key |-> k, content |-> x]
Bad == [It(0, 0) EXCEPT !.valid = FALSE]

Posts ==
  [c \in Client |->
     CASE c = s1 -> <<It(1, 0), Bad, It(2, 0)>>
       [] c = s2 -> <<It(2, 1), It(3, 0), It(3, 0)>>
       [] c = s3 -> <<It(1, 0)>>]
Items == UNION {{Posts[c][i] : i \in DOMAIN Posts[c]} : c \in Client}
Targets == [c \in Client |-> IF c = s3 THEN "collector_heartbeats" ELSE "raw_events"]
=============================================================================
