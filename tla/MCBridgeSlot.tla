---------------------------- MODULE MCBridgeSlot ----------------------------
(* BridgeSlot for TLC: three requests, of which one doesn't fit the agent's *)
(* own buffer and one not the buffer made for that one.                     *)
EXTENDS BridgeSlot

CONSTANTS c1, c2, c3

McSize == [c \in Clients |-> CASE c = c1 -> 1 [] c = c2 -> 2 [] c = c3 -> 3]
=============================================================================
