--------------------------- MODULE MCMultiplexer ---------------------------
(***************************************************************************)
(* Multiplexer for TLC: two sockets, and two timers that expire sometimes  *)
(* together and sometimes apart, so that their order in the queue changes. *)
(***************************************************************************)
EXTENDS Multiplexer

MCSockets == {"s1", "s2"}
MCTimers  == {"t1", "t2"}
MCDelay   == [t \in Timers |-> IF t = "t1" THEN 0 ELSE 1]
MCPeriod  == [t \in Timers |-> IF t = "t1" THEN 2 ELSE 1]
=============================================================================
