---------------------------- MODULE MCComparison ----------------------------
(* A faithful day, and one of missing copies and links, on ladders of three;   *)
(* every fault alone and two at a time on two orders.                          *)
EXTENDS Comparison

MCScenarios ==
  {[faults |-> f, most |-> 3, parts |-> {0, 1}] : f \in {{}, {"misses", "unrecorded"}}}
    \union {[faults |-> {f, g}, most |-> 2, parts |-> 0 .. 3] : f, g \in AllFaults}
=============================================================================
