---------------------------- MODULE MCSlidingWindow ----------------------------
(* Two clients whose clocks are a millisecond apart; a call takes at most one *)
(* more, so that the limit holds for two of the four milliseconds.            *)
EXTENDS SlidingWindow

CONSTANTS c1, c2

MCSkew == [c \in Clients |-> IF c = c1 THEN 0 ELSE MaxSkew]
=============================================================================
