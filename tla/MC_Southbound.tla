--------------------------- MODULE MC_Southbound ---------------------------
(* Small instance of Southbound for TLC: two goroutines, two Target        *)
(* objects, and two descriptors of one device that differ in address and  *)
(* security, so that a reconnect changes every field of the destination.   *)
EXTENDS Southbound

MCDevices ==
    { [key |-> "k1", addr |-> "a1", sec |-> "s1"],
      [key |-> "k1", addr |-> "a2", sec |-> "s2"] }

MCKeys == {"k1"}
MCAddrs == {"a1", "a2"}
MCSecs == {"s1", "s2"}
=============================================================================
