---------------------------- MODULE ConfirmCopy ----------------------------
(***************************************************************************)
(* Confirm-copy: the task CopyEngine starts when an entry of the master is *)
(* final (filled, or cancelled after a part filled) to compare what one    *)
(* follower got for it with its share, and to buy the gap at market.       *)
(*                                                                         *)
(* The task sleeps first and runs outside the symbol's lock, beside the    *)
(* mirror it judges, the escalation of that mirror and the reconcile pass: *)
(* each action below is the code between two awaits.  Lots of the master   *)
(* are taken perLot at a time, so that a rung's share can be more than its *)
(* part of the position's.                                                 *)
(***************************************************************************)
EXTENDS Integers, FiniteSets

CONSTANTS
  Orders,       \* entries of the master on one symbol
  Qty,          \* lots of each
  MaxPerLot,    \* largest ratio of the master's lots to the follower's
  TolerancePct, \* RECON_SIZE_TOLERANCE_PCT
  Scenarios     \* what may go wrong, see Scenario

AllFaults ==
  { "ladder",        \* the master rests more than one entry
    "unmirrored",    \* an order may be skipped: placing failed or was not sized
    "peer",          \* another follower was mirrored, so ordermap exists
    "sat_out",       \* a leg skipped because the follower was at its target
    "resend",        \* the completion is delivered twice
    "escalates",     \* the escalation may run before the confirm is over
    "reconcile",     \* the reconcile pass tops the follower up
    "withdrawn",     \* the mirror is cancelled by the desk
    "reduces",       \* the master also sells through other orders
    "lag",           \* the follower's position shows his fills late
    "map_read",      \* ordermap cannot be read
    "db",            \* the accounts cannot be read
    "ledger_read",   \* the ledger cannot be read: no legs
    "order_read",    \* the follower's orders cannot be read: assumed live
    "marker",        \* Redis does not answer the once-marker
    "ratio",         \* the share cannot be computed: 0
    "position_read", \* the follower's positions cannot be read: he holds 0
    "master_read",   \* the master's cannot: he holds 0
    "cancel",        \* the cancel of the mirror is refused
    "market",        \* the market order, or its answer, is lost
    "crash" }        \* the process restarts: sleeping tasks are gone

Scenario == [faults : SUBSET AllFaults, perLot : 1 .. MaxPerLot]

ASSUME ConfirmAssumption ==
  /\ Orders # {} /\ IsFiniteSet(Orders)
  /\ Qty \in Nat \ {0}
  /\ MaxPerLot \in Nat \ {0}
  /\ TolerancePct \in Nat
  /\ Scenarios \subseteq Scenario

Task == Orders \X {1, 2}

VARIABLES
  scene,    \* the scenario of this behaviour
  mfilled,  \* lots of the master's order that filled
  mstate,   \* "open", "cancelling", "cancelled"
  mpos,     \* the master's position
  mirror,   \* "unplaced", "none", "live", "filled", "cancelled"
  mfill,    \* lots of the mirror that filled
  left,     \* lots an escalation has cancelled and is about to market
  forced,   \* lots escalations marketed
  held,     \* the follower's position
  shown,    \* what the exchange answers for it
  rgap,     \* lots the reconcile pass is about to top up
  mapped,   \* ordermap: "nothing", "mirror", "market"
  leg,      \* status of the ledger's leg
  legqty,   \* and the lots it records
  marker,   \* is confirmed:{order}:{follower} set
  pc,       \* where each task stands
  knows,    \* the copy of ordermap a task works on
  counted,  \* lots the ledger shows as filled
  seen,     \* the follower's position a task read (while asleep: at its start)
  short,    \* lots the task is about to buy
  bought    \* lots confirm-copy bought for the order

master == <<mfilled, mstate, mpos>>
copy   == <<mirror, mfill, left, forced>>
store  == <<mapped, leg, legqty, marker>>
task   == <<pc, knows, counted, seen, short>>
vars   == <<scene, master, copy, held, shown, rgap, store, task, bought>>

Fault(f) == f \in scene.faults
Mirrors  == {"unplaced", "none", "live", "filled", "cancelled"}
PC == {"idle", "map", "sleep", "legs", "live", "mark", "held", "master",
       "buy", "record", "done"}
Legs == {"none", "at_target", "skipped", "placed", "cancelled", "filled"}

Least(a, b)    == IF a <= b THEN a ELSE b
Greatest(a, b) == IF a >= b THEN a ELSE b

\* A follower's share of n lots, rounded up.
Share(n) == (n + scene.perLot - 1) \div scene.perLot

\* The least difference from a target that is acted on: a lot, or so many per
\* cent of the target, whichever is more (in whole lots: rounded up).
SizeDeadband(target) == Greatest(1, (target * TolerancePct + 99) \div 100)

TypeOK ==
  /\ scene \in Scenarios
  /\ mfilled \in [Orders -> 0 .. Qty]
  /\ mstate \in [Orders -> {"open", "cancelling", "cancelled"}]
  /\ mpos \in Nat
  /\ mirror \in [Orders -> Mirrors]
  /\ mfill \in [Orders -> 0 .. Qty]
  /\ left \in [Orders -> 0 .. Qty]
  /\ forced \in [Orders -> 0 .. Qty]
  /\ held \in Nat /\ shown \in 0 .. held
  /\ rgap \in Nat
  /\ mapped \in [Orders -> {"nothing", "mirror", "market"}]
  /\ leg \in [Orders -> Legs]
  /\ legqty \in [Orders -> 0 .. Qty]
  /\ marker \in [Orders -> BOOLEAN]
  /\ pc \in [Task -> PC]
  /\ knows \in [Task -> {"nothing", "mirror", "market"}]
  /\ counted \in [Task -> 0 .. Qty]
  /\ seen \in [Task -> Nat]
  /\ short \in [Task -> 0 .. Qty]
  /\ bought \in [Orders -> Nat]

Init ==
  /\ scene \in Scenarios
  /\ mfilled = [o \in Orders |-> 0]
  /\ mstate = [o \in Orders |-> "open"]
  /\ mpos = 0
  /\ mirror = [o \in Orders |-> "unplaced"]
  /\ mfill = [o \in Orders |-> 0]
  /\ left = [o \in Orders |-> 0]
  /\ forced = [o \in Orders |-> 0]
  /\ held = 0 /\ shown = 0 /\ rgap = 0
  /\ mapped = [o \in Orders |-> "nothing"]
  /\ leg = [o \in Orders |-> "none"]
  /\ legqty = [o \in Orders |-> 0]
  /\ marker = [o \in Orders |-> FALSE]
  /\ pc = [t \in Task |-> "idle"]
  /\ knows = [t \in Task |-> "nothing"]
  /\ counted = [t \in Task |-> 0]
  /\ seen = [t \in Task |-> 0]
  /\ short = [t \in Task |-> 0]
  /\ bought = [o \in Orders |-> 0]

\* The orders the master works in this scenario.
Working == IF Fault("ladder") THEN Orders ELSE {CHOOSE o \in Orders : TRUE}

\* The follower's position grows by n lots; a late one shows them later.
Gains(n) ==
  /\ held' = held + n
  /\ shown' = IF Fault("lag") THEN shown ELSE held + n
-----------------------------------------------------------------------------
(* The exchange and the desk. *)

Show ==
  /\ shown < held
  /\ shown' = held
  /\ UNCHANGED <<scene, master, copy, held, rgap, store, task, bought>>

MasterFills(o) ==
  /\ mstate[o] = "open" /\ mirror[o] # "unplaced"
  /\ \E n \in 1 .. (Qty - mfilled[o]) :
       /\ mfilled' = [mfilled EXCEPT ![o] = @ + n]
       /\ mpos' = mpos + n
  /\ UNCHANGED <<scene, mstate, copy, held, shown, rgap, store, task, bought>>

MasterReduces ==
  /\ Fault("reduces")
  /\ mpos > 0
  /\ mpos' = mpos - 1
  /\ UNCHANGED <<scene, mfilled, mstate, copy, held, shown, rgap, store, task, bought>>

\* At the master's price, and not before him.
MirrorFills(o) ==
  /\ mirror[o] = "live"
  /\ \E n \in 1 .. (Share(mfilled[o]) - mfill[o]) :
       /\ mfill' = [mfill EXCEPT ![o] = @ + n]
       /\ mirror' = [mirror EXCEPT ![o] = IF mfill[o] + n = Share(Qty) THEN "filled" ELSE "live"]
       /\ Gains(n)
  /\ UNCHANGED <<scene, master, left, forced, rgap, store, task, bought>>

Withdrawn(o) ==
  /\ Fault("withdrawn")
  /\ mirror[o] = "live"
  /\ mirror' = [mirror EXCEPT ![o] = "cancelled"]
  /\ UNCHANGED <<scene, master, mfill, left, forced, held, shown, rgap, store, task, bought>>
-----------------------------------------------------------------------------
(* The other handlers, as far as confirm-copy can tell them apart. *)

\* _mirror_place puts the follower's share to rest and records it.
MirrorPlaced(o) ==
  /\ mirror[o] = "unplaced"
  /\ mirror' = [mirror EXCEPT ![o] = "live"]
  /\ mapped' = [mapped EXCEPT ![o] = "mirror"]
  /\ leg' = [leg EXCEPT ![o] = "placed"]
  /\ UNCHANGED <<scene, master, mfill, left, forced, held, shown, rgap, legqty, marker, task, bought>>

\* Or it leaves the follower out: nothing owed, not sized, or refused.
MirrorMissed(o) ==
  /\ mirror[o] = "unplaced"
  /\ \E why \in {"at_target", "skipped"} :
       /\ Fault(IF why = "at_target" THEN "sat_out" ELSE "unmirrored")
       /\ leg' = [leg EXCEPT ![o] = why]
  /\ mirror' = [mirror EXCEPT ![o] = "none"]
  /\ UNCHANGED <<scene, master, mfill, left, forced, held, shown, rgap, mapped, legqty, marker, task, bought>>

\* master_filled, complete: the escalation is set up and the task spawned.
Completed(t) ==
  LET o == t[1] IN
  /\ mfilled[o] = Qty
  /\ pc[t] = "idle" /\ mstate[o] = "open"
  /\ (t[2] = 2) => Fault("resend") /\ pc[<<o, 1>>] # "idle"
  /\ pc' = [pc EXCEPT ![t] = "map"]
  /\ seen' = [seen EXCEPT ![t] = held]
  /\ UNCHANGED <<scene, master, copy, held, shown, rgap, store, knows, counted, short, bought>>

\* _mirror_cancel: the mirror is cancelled, and after a partial fill of a
\* mapped order the task is spawned with the map it read.
MasterCancels(o) ==
  LET t == <<o, 1>> IN
  /\ mstate[o] = "open" /\ mirror[o] # "unplaced" /\ mfilled[o] < Qty
  /\ mstate' = [mstate EXCEPT ![o] = "cancelling"]
  /\ \/ mirror' = [mirror EXCEPT ![o] = IF @ = "live" THEN "cancelled" ELSE @]
     \/ Fault("cancel") /\ UNCHANGED mirror
  /\ IF mfilled[o] > 0 /\ (mapped[o] # "nothing" \/ Fault("peer"))
     THEN /\ pc' = [pc EXCEPT ![t] = "sleep"]
          /\ knows' = [knows EXCEPT ![t] = mapped[o]]
          /\ seen' = [seen EXCEPT ![t] = held]
     ELSE UNCHANGED <<pc, knows, seen>>
  /\ UNCHANGED <<scene, mfilled, mpos, mfill, left, forced, held, shown, rgap, store, counted, short, bought>>

\* ... and then its ledger leg is marked and ordermap deleted.
CancelForgets(o) ==
  /\ mstate[o] = "cancelling"
  /\ mstate' = [mstate EXCEPT ![o] = "cancelled"]
  /\ leg' = [leg EXCEPT ![o] = IF mapped[o] # "nothing" THEN "cancelled" ELSE @]
  /\ mapped' = [mapped EXCEPT ![o] = "nothing"]
  /\ UNCHANGED <<scene, mfilled, mpos, copy, held, shown, rgap, legqty, marker, task, bought>>

\* The escalation sleeps two seconds longer than the confirm of the same
\* completion: they overlap only when one of them, spawned by another event,
\* has a clock of its own.
EscalationCancels(o) ==
  /\ mfilled[o] = Qty /\ mirror[o] = "live"
  /\ \/ Fault("escalates")
     \/ pc[<<o, 1>>] = "done" /\ pc[<<o, 2>>] \in {"idle", "map", "sleep", "done"}
  /\ mirror' = [mirror EXCEPT ![o] = "cancelled"]
  /\ left' = [left EXCEPT ![o] = Share(Qty) - mfill[o]]
  /\ UNCHANGED <<scene, master, mfill, forced, held, shown, rgap, store, task, bought>>

EscalationMarkets(o) ==
  /\ left[o] > 0
  /\ forced' = [forced EXCEPT ![o] = left[o]]
  /\ left' = [left EXCEPT ![o] = 0]
  /\ Gains(left[o])
  /\ mapped' = [mapped EXCEPT ![o] = "market"]
  /\ leg' = [leg EXCEPT ![o] = "placed"]
  /\ legqty' = [legqty EXCEPT ![o] = 0]
  /\ UNCHANGED <<scene, master, mirror, mfill, rgap, marker, task, bought>>

\* The reconcile pass sizes a top-up, and orders it later.
ReconcileSizes ==
  /\ Fault("reconcile")
  /\ rgap = 0 /\ shown < Share(mpos)
  /\ rgap' = Share(mpos) - shown
  /\ UNCHANGED <<scene, master, copy, held, shown, store, task, bought>>

ReconcileTopsUp ==
  /\ rgap > 0
  /\ rgap' = 0
  /\ Gains(rgap)
  /\ UNCHANGED <<scene, master, copy, store, task, bought>>
-----------------------------------------------------------------------------
(* _confirm_order_copied. *)

At(t, p)    == pc[t] = p
GoTo(t, p)  == pc' = [pc EXCEPT ![t] = p]
Env         == <<scene, master, copy, rgap>>

\* Without a mapping passed in, ordermap is read before the sleep.
ReadMap(t) ==
  /\ At(t, "map")
  /\ \/ /\ GoTo(t, "sleep")
        /\ knows' = [knows EXCEPT ![t] = mapped[t[1]]]
     \/ Fault("map_read") /\ GoTo(t, "done") /\ UNCHANGED knows
  /\ UNCHANGED <<Env, held, shown, store, counted, seen, short, bought>>

\* As it was: nothing mapped, nothing to confirm.
WakeMapped(t) ==
  /\ At(t, "sleep")
  /\ shown >= seen[t]
  /\ Fault("escalates") \/ left[t[1]] = 0
  /\ \/ GoTo(t, IF knows[t] = "nothing" THEN "done" ELSE "legs")
     \/ Fault("db") /\ GoTo(t, "done")
  /\ UNCHANGED <<Env, held, shown, store, knows, counted, seen, short, bought>>

\* The sleep lets earlier fills show.  With nothing mapped every active
\* follower is a candidate; with a mapping, only those it names.
Wake(t) ==
  /\ At(t, "sleep")
  /\ shown >= seen[t]
  /\ Fault("escalates") \/ left[t[1]] = 0
  /\ \/ GoTo(t, IF knows[t] = "nothing" /\ Fault("peer") THEN "done" ELSE "legs")
     \/ Fault("db") /\ GoTo(t, "done")
  /\ UNCHANGED <<Env, held, shown, store, knows, counted, seen, short, bought>>

\* What the ledger says the follower filled for this order.
LegsFilled(o) == IF leg[o] = "filled" THEN legqty[o] ELSE 0

ReadLegs(t) ==
  LET o == t[1] IN
  /\ At(t, "legs")
  /\ \/ /\ GoTo(t, IF leg[o] = "at_target" THEN "done" ELSE "live")
        /\ counted' = [counted EXCEPT ![t] = LegsFilled(o)]
     \/ /\ Fault("ledger_read")
        /\ GoTo(t, "live")
        /\ UNCHANGED counted
  /\ UNCHANGED <<Env, held, shown, store, knows, seen, short, bought>>

\* A mirror that rests is the escalation's.
Resting(t) == knows[t] = "mirror" /\ mirror[t[1]] = "live"

CheckLive(t) ==
  /\ At(t, "live")
  /\ \/ GoTo(t, IF Resting(t) THEN "done" ELSE "mark")
     \/ Fault("order_read") /\ knows[t] # "nothing" /\ GoTo(t, "done")
  /\ UNCHANGED <<Env, held, shown, store, knows, counted, seen, short, bought>>

\* Without the once-marker.
MarkNever(t) ==
  /\ At(t, "mark")
  /\ GoTo(t, "held")
  /\ UNCHANGED <<Env, held, shown, store, knows, counted, seen, short, bought>>

\* Once per (order, follower), and sized before anything else is read.
Mark(t) ==
  LET o == t[1] IN
  /\ At(t, "mark")
  /\ \/ GoTo(t, IF marker[o] THEN "done" ELSE "held") /\ marker' = [marker EXCEPT ![o] = TRUE]
     \/ Fault("marker") /\ GoTo(t, "held") /\ UNCHANGED marker
     \/ Fault("ratio") /\ ~marker[o] /\ GoTo(t, "done") /\ marker' = [marker EXCEPT ![o] = TRUE]
  /\ UNCHANGED <<Env, held, shown, mapped, leg, legqty, knows, counted, seen, short, bought>>

ReadHeld(t) ==
  /\ At(t, "held")
  /\ GoTo(t, "master")
  /\ \E h \in {shown} \union (IF Fault("position_read") THEN {0} ELSE {}) :
       seen' = [seen EXCEPT ![t] = h]
  /\ UNCHANGED <<Env, held, shown, store, knows, counted, short, bought>>

\* Bounded by the position alone.
GapOfPosition(t, m) == Share(m) - seen[t]

\* The gap this order left, never more than the gap the position has.
Gap(t, m) == Least(Share(mfilled[t[1]]) - counted[t], Share(m) - seen[t])

\* A gap below the deadband of what the order should have brought is left.
TooSmall(t, m) == Gap(t, m) < 1 \/ Gap(t, m) < SizeDeadband(Share(mfilled[t[1]]))

ReadMaster(t) ==
  /\ At(t, "master")
  /\ \E m \in {mpos} \union (IF Fault("master_read") THEN {0} ELSE {}) :
       IF TooSmall(t, m)
       THEN GoTo(t, "done") /\ UNCHANGED short
       ELSE GoTo(t, "buy") /\ short' = [short EXCEPT ![t] = Gap(t, m)]
  /\ UNCHANGED <<Env, held, shown, store, knows, counted, seen, bought>>

Buy(t) ==
  LET o == t[1] IN
  /\ At(t, "buy")
  /\ \/ /\ Gains(short[t])
        /\ bought' = [bought EXCEPT ![o] = @ + short[t]]
        /\ \/ GoTo(t, "record")
           \/ Fault("market") /\ GoTo(t, "done")
     \/ Fault("market") /\ GoTo(t, "done") /\ UNCHANGED <<held, shown, bought>>
  /\ UNCHANGED <<Env, store, knows, counted, seen, short>>

RecordLeg(t) ==
  LET o == t[1] IN
  /\ At(t, "record")
  /\ GoTo(t, "done")
  /\ leg' = [leg EXCEPT ![o] = "filled"]
  /\ legqty' = [legqty EXCEPT ![o] = short[t]]
  /\ UNCHANGED <<Env, held, shown, mapped, marker, knows, counted, seen, short, bought>>

\* A restart: the tasks in memory are gone, the once-marker is not.
Crash ==
  /\ Fault("crash")
  /\ \E t \in Task : pc[t] \notin {"idle", "done"}
  /\ pc' = [t \in Task |-> IF pc[t] = "idle" THEN "idle" ELSE "done"]
  /\ left' = [o \in Orders |-> 0]
  /\ rgap' = 0
  /\ UNCHANGED <<scene, master, mirror, mfill, forced, held, shown, store, knows, counted, seen, short, bought>>
-----------------------------------------------------------------------------
Step(t) ==
  \/ ReadMap(t) \/ Wake(t) \/ ReadLegs(t) \/ CheckLive(t) \/ Mark(t)
  \/ ReadHeld(t) \/ ReadMaster(t) \/ Buy(t) \/ RecordLeg(t)

Handled(o) ==
  \/ MirrorPlaced(o) \/ MirrorMissed(o) \/ MasterCancels(o) \/ CancelForgets(o)
  \/ EscalationCancels(o) \/ EscalationMarkets(o)

Next ==
  \/ \E o \in Working : MasterFills(o) \/ MirrorFills(o) \/ Withdrawn(o) \/ Handled(o)
  \/ \E o \in Working : Completed(<<o, 1>>) \/ Completed(<<o, 2>>)
  \/ \E t \in Task : Step(t)
  \/ Show \/ MasterReduces \/ ReconcileSizes \/ ReconcileTopsUp \/ Crash

Spec == Init /\ [][Next]_vars

\* The engine handles its events, its tasks run to their end, the escalation
\* fires, and a position shows in the end.  The master and the exchange owe
\* nothing.
FairSpec ==
  /\ Spec
  /\ \A t \in Task : WF_vars(Step(t)) /\ WF_vars(Completed(t))
  /\ \A o \in Orders :
       WF_vars(EscalationCancels(o)) /\ WF_vars(EscalationMarkets(o)) /\ WF_vars(CancelForgets(o))
  /\ WF_vars(Show)
-----------------------------------------------------------------------------
\* What confirm-copy adds leaves the follower within his share of the master's
\* position: it does not buy what the mirror still buys, nor twice when the
\* completion is repeated, a task dies or an answer is lost (the docstring's
\* "two things keep this from over-opening").  It is the only buyer here: one
\* order, the escalation on its own clock, the positions readable.
NeverOverCopies ==
  scene.faults \intersect {"ladder", "escalates", "reconcile", "reduces", "lag",
                           "marker", "position_read"} = {}
  => \A o \in Orders : bought[o] > 0 => held <= Share(mpos)

\* When the master's entries are final the follower is, in the end, less than
\* the deadband of one of them short of his share, by his mirrors, their
\* escalations or confirm-copy: a mirror that was never placed, or was cancelled
\* with the master's remainder, is made up.
Harmless == {"unmirrored", "resend", "lag", "ledger_read", "ladder"}
Final(o) == \/ mfilled[o] = Qty
            \/ mstate[o] = "cancelled" /\ (mfilled[o] > 0 => mirror[o] # "none")
MissIsMadeUp ==
  scene.faults \subseteq Harmless
  => ((\A o \in Working : Final(o)) ~> (\E o \in Working : Share(mpos) - held < SizeDeadband(Share(mfilled[o]))))

\* Confirm-copy buys no lots for an order whose mirror has filled them ("what
\* the follower did is read from the order we actually placed for it").
BuysOnlyItsGap ==
  scene.faults \subseteq {"ladder"}
  => \A o \in Orders : bought[o] + mfill[o] + forced[o] <= Share(mfilled[o])
=============================================================================
