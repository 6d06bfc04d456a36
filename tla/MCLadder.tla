------------------------------ MODULE MCLadder ------------------------------
(* Small instances of Ladder. *)
EXTENDS Ladder

MCRung  == 1 .. 3
MCRungSizes == 1 .. 2

EntryLadder(rungs, most, faults) ==
  [exit |-> FALSE, rungs |-> rungs, maxStart |-> most, faults |-> faults]
ExitLadder(rungs, most, faults) ==
  [exit |-> TRUE, rungs |-> rungs, maxStart |-> most, faults |-> faults]

\* Bursts of three that stand still; and ladders of two that move while they are
\* handled.
MCLadders ==
  { EntryLadder(1 .. 3, 3, {"mirrors", "lag"}), ExitLadder(1 .. 3, 6, {"repeat", "lag"}),
    EntryLadder(1 .. 2, 2, {"fills", "mirrors", "expiry", "position"}),
    ExitLadder(1 .. 2, 4, {"fills", "mirrors", "grows", "position"}),
    EntryLadder(1 .. 2, 1, Disturbances \ {"mirrors", "repeat"}),
    ExitLadder(1 .. 2, 3, Disturbances \ {"mirrors", "repeat"}) }

\* One order of the master, and its fill: NeverCountsTwice fails.
OneRung  == {1}
MCFills  == {EntryLadder(OneRung, 1, {"fills"})}
=============================================================================
