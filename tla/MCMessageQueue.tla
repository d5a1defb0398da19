--------------------------- MODULE MCMessageQueue ---------------------------
(* TLC instance of MessageQueue: chunks of four units, so that a chunk holds *)
(* its dummy head, two messages or data and the switch out of it.            *)
EXTENDS MessageQueue
=============================================================================
