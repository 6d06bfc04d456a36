------------------------------ MODULE ForceOnce ------------------------------
(***************************************************************************)
(* What the escalation of a mirrored limit order promises, with no mention *)
(* of tasks, claims or reads: the follower's order rests and fills; it may *)
(* be withdrawn; only a withdrawn order may be forced to market, at most   *)
(* once, and never for more than what it had left to fill.                 *)
(***************************************************************************)
EXTENDS Integers

CONSTANT Qty        \* lots of the mirrored order

VARIABLES
  phase,            \* "resting", "withdrawn" or "forced"
  filled,           \* lots the limit order filled
  forced            \* lots sent to market in its place

forceVars == <<phase, filled, forced>>

Init ==
  /\ phase = "resting"
  /\ filled = 0
  /\ forced = 0

\* The resting limit fills, in part or in full.
Fill ==
  /\ phase = "resting"
  /\ filled < Qty
  /\ filled' \in (filled + 1) .. Qty
  /\ UNCHANGED <<phase, forced>>

\* The limit is cancelled with something left to fill.
Withdraw ==
  /\ phase = "resting"
  /\ filled < Qty
  /\ phase' = "withdrawn"
  /\ UNCHANGED <<filled, forced>>

\* The remainder (or a part of it) goes to market, once.
Force ==
  /\ phase = "withdrawn"
  /\ phase' = "forced"
  /\ forced' \in 1 .. (Qty - filled)
  /\ UNCHANGED filled

Next == Fill \/ Withdraw \/ Force

Spec == Init /\ [][Next]_forceVars
=============================================================================
