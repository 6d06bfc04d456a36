--------------------------- MODULE OrderHistory ---------------------------
(***************************************************************************)
(* How the copy of one resting order of the master on one follower is      *)
(* recorded in trades and trade_copies.  The order goes out first and its  *)
(* row is written by a task of its own, so the fill stream, the sweeper of *)
(* pending legs and the next push of the same order meet the row in any    *)
(* order.  Every write is one block without an await (order_history makes  *)
(* its database calls from the loop): an action is such a block, or the    *)
(* part of the handler that ends by creating the task.                     *)
(***************************************************************************)
EXTENDS Integers, Sequences

CONSTANTS
  Qty,          \* lots of the mirror
  MaxOrders,    \* bound on the orders placed on the follower
  MaxWrites,    \* bound on the pushes whose records are not written yet
  MaxMishaps,   \* bound on failing calls, missed events and restarts
  Scenarios     \* the sets of disturbances to consider, see AllFaults

AllFaults ==
  { "resend",     \* the master's order is pushed again once it is mirrored
    "elsewhere",  \* the desk cancels the mirror
    "escalate",   \* the mirror is withdrawn and its remainder marketed
    "missed",     \* a fill event is lost while the socket reconnects
    "db",         \* a database call fails
    "read",       \* the sweeper cannot read the order, or has no client
    "expiry",     \* a parked fill is older than _EARLY_FILL_TTL_SEC
    "crash" }     \* the process restarts

ASSUME HistoryAssumption ==
  /\ Qty \in Nat \ {0} /\ MaxOrders \in Nat \ {0} /\ MaxWrites \in Nat \ {0}
  /\ MaxMishaps \in Nat
  /\ Scenarios \subseteq SUBSET AllFaults

VARIABLES
  faults,       \* the disturbances of this behaviour
  master,       \* what became of the master's order
  ord,          \* the follower's orders at the exchange
  mapped,       \* ordermap of the follower, None if absent
  mirrordone,   \* mirrordone:{master_order_id}:{follower}
  esc,          \* the escalation that has withdrawn an order: see Escalation
  histleg,      \* histleg:{master_order_id}:{follower}
  writes,       \* the history tasks of the pushes, oldest first
  trade,        \* status of the order's row in trades
  row,          \* the leg's row in trade_copies
  early,        \* _early_fills: the fill parked for each order, 0 if none
  events,       \* fill events on their way to _on_follower_fill
  sweep,        \* the row the sweeper has read, while it asks for its order
  parked,       \* the row is in _unresolved
  mishaps       \* failures so far

orders == <<master, ord, mapped, mirrordone, esc>>
tables == <<trade, row, histleg>>
vars   == <<faults, orders, tables, writes, early, events, sweep, parked, mishaps>>

Id   == 1 .. MaxOrders
None == 0          \* no order
Null == -1         \* requested_quantity was never written
Size == {Null} \union 0 .. Qty

Leg   == [st : {"pending", "skipped", "failed"}, req : Size, oid : Id \union {None},
          once : BOOLEAN]
NoLeg == [st |-> "none", req |-> Null, oid |-> None, once |-> FALSE]
Row   == [st : {"pending", "partial", "filled", "skipped", "failed"},
          req : Size, qty : 0 .. Qty, oid : Id \union {None}]
NoRow == [st |-> "absent", req |-> Null, qty |-> 0, oid |-> None]
Idle  == [at |-> "idle", read |-> NoRow]

\* Its lots still to be marketed, then the market order to put into ordermap.
Escalation == [at : {"withdrawn", "marketed"}, rest : 0 .. Qty, heir : Id \union {None}]
NoEsc      == [at |-> "none", rest |-> 0, heir |-> None]

Fault(f)       == f \in faults
Greatest(a, b) == IF a >= b THEN a ELSE b
Live(id)       == id # None /\ ord[id].st = "open"
Unused         == {id \in Id : ord[id].st = "none"}
Fresh(id)      == id \in Unused /\ \A other \in Unused : id <= other

TypeOK ==
  /\ faults \in Scenarios /\ master \in {"open", "filled", "cancelled"}
  /\ ord \in [Id -> [st : {"none", "open", "closed", "cancelled"},
                     size : 0 .. Qty, filled : 0 .. Qty]]
  /\ mapped \in Id \union {None} /\ mirrordone \in BOOLEAN /\ histleg \in BOOLEAN
  /\ esc = NoEsc \/ esc \in Escalation
  /\ Len(writes) <= MaxWrites
  /\ \A i \in DOMAIN writes : /\ writes[i].at \in {"stage", "leg", "rollup"}
                              /\ writes[i].leg = NoLeg \/ writes[i].leg \in Leg
  /\ trade \in {"absent", "processing", "copied", "failed"}
  /\ row = NoRow \/ row \in Row
  /\ early \in [Id -> 0 .. Qty]
  /\ events \in Seq([oid : Id, filled : 1 .. Qty])
  /\ sweep = Idle \/ (sweep.at = "asking" /\ sweep.read \in Row)
  /\ parked \in BOOLEAN /\ mishaps \in 0 .. MaxMishaps

Init ==
  /\ faults \in Scenarios /\ master = "open" /\ esc = NoEsc
  /\ ord = [id \in Id |-> [st |-> "none", size |-> 0, filled |-> 0]]
  /\ mapped = None /\ mirrordone = FALSE /\ histleg = FALSE
  /\ writes = <<>> /\ trade = "absent" /\ row = NoRow
  /\ early = [id \in Id |-> 0] /\ events = <<>>
  /\ sweep = Idle /\ parked = FALSE /\ mishaps = 0

Mishap(f) == Fault(f) /\ mishaps < MaxMishaps /\ mishaps' = mishaps + 1
-----------------------------------------------------------------------------
(* _mirror_place: the decision, the order, and the tasks that record it.   *)

Record(leg) == writes' = Append(writes, [at |-> "stage", leg |-> leg])
LegOf(st, req, oid) == [st |-> st, req |-> req, oid |-> oid, once |-> FALSE]

\* A push that was queued before the master's order filled comes after it too.
Pushable == master = "open" \/ (master = "filled" /\ Fault("resend"))
Pushed   == Pushable /\ Len(writes) < MaxWrites
Gone   == mapped # None /\ ~mirrordone /\ ~Live(mapped)

\* No mirror yet, or one that was cancelled before it filled.
NeedsMirror == mapped = None \/ (Gone /\ ord[mapped].filled = 0)

MirrorPlaced ==
  /\ Pushed /\ NeedsMirror
  /\ \E id \in Id :
       /\ Fresh(id)
       /\ ord' = [ord EXCEPT ![id] = [st |-> "open", size |-> Qty, filled |-> 0]]
       /\ mapped' = id
       /\ Record(LegOf("pending", Qty, id))
  /\ UNCHANGED <<master, esc, mirrordone, tables, early, events, sweep, parked, mishaps>>

\* The exchange refuses the order, the sizing says zero, or it is unavailable.
MirrorNotPlaced ==
  /\ Pushed /\ NeedsMirror
  /\ mapped' = None
  /\ Record(LegOf("failed", Qty, None)) \/ Record(LegOf("skipped", 0, None))
       \/ Record(LegOf("skipped", Null, None))
  /\ UNCHANGED <<master, esc, ord, mirrordone, tables, early, events, sweep, parked, mishaps>>

\* The short-circuits write at most one leg, behind the marker histleg.
AlreadyMirrored ==
  /\ Fault("resend") /\ Pushed
  /\ mapped # None /\ (mirrordone \/ Live(mapped))
  /\ Record([st |-> "pending", req |-> Null, oid |-> mapped, once |-> TRUE])
  /\ UNCHANGED <<orders, tables, early, events, sweep, parked, mishaps>>

MirrorFinished ==
  /\ Fault("resend") /\ Pushed
  /\ Gone /\ ord[mapped].filled > 0
  /\ mirrordone' = TRUE
  /\ Record(NoLeg)
  /\ UNCHANGED <<master, esc, ord, mapped, tables, early, events, sweep, parked, mishaps>>
-----------------------------------------------------------------------------
(* The tasks: record_order_stage, record_leg, record_order_status.         *)

\* A total is added to the last one; a leg counts as whole at once.
SettleAdded(r, req, prev, filled) ==
  [r EXCEPT !.qty = prev + filled, !.st = IF prev + filled < req THEN "partial" ELSE "filled"]

SettleWhole(r, req, prev, filled) ==
  [r EXCEPT !.qty = Greatest(prev, filled), !.st = "filled"]

\* _settlement: fill events carry running totals, so the larger one counts.
Settle(r, req, prev, filled) ==
  LET qty == Greatest(prev, filled) IN
  [r EXCEPT !.qty = qty, !.st = IF req # Null /\ qty < req THEN "partial" ELSE "filled"]

Advance(at) == writes' = [writes EXCEPT ![1].at = at]
Due(at)     == writes # <<>> /\ writes[1].at = at

WriteStage ==
  /\ Due("stage")
  /\ trade' = "processing"
  /\ Advance("leg")
  /\ UNCHANGED <<orders, row, histleg, early, events, sweep, parked, mishaps>>

Marks(leg) == histleg' = (histleg \/ leg.once)

\* Without the row's uuid nothing is recorded, but the marker is set; a failed
\* upsert reads the uuid back.
StageFails ==
  /\ Due("stage") /\ Mishap("db")
  /\ \/ trade # "absent" /\ Advance("leg") /\ UNCHANGED histleg
     \/ Marks(writes[1].leg) /\ writes' = Tail(writes)
  /\ UNCHANGED <<orders, trade, row, early, events, sweep, parked>>

\* The columns of the payload replace those of the row, if there is one.
Written(leg) ==
  [st |-> leg.st, req |-> IF leg.req = Null THEN row.req ELSE leg.req,
   qty |-> row.qty, oid |-> IF leg.oid = None THEN row.oid ELSE leg.oid]

\* The parked fill is forgotten.
ClaimedNothing(leg) == Written(leg)

\* What the fill stream parked is settled with the payload's own columns.
Claimed(leg) ==
  IF leg.st = "pending" /\ leg.oid # None /\ early[leg.oid] > 0
  THEN Settle(Written(leg), leg.req, 0, early[leg.oid])
  ELSE Written(leg)

Taken(leg) == IF leg.st = "pending" /\ leg.oid # None
              THEN [early EXCEPT ![leg.oid] = 0] ELSE early

Skipped(leg) == leg = NoLeg \/ (leg.once /\ histleg)
WriteLeg ==
  /\ Due("leg") /\ ~Skipped(writes[1].leg)
  /\ LET leg == writes[1].leg IN
       /\ row' = Claimed(leg) /\ early' = Taken(leg) /\ Marks(leg)
  /\ Advance("rollup")
  /\ UNCHANGED <<orders, trade, events, sweep, parked, mishaps>>

WriteNoLeg ==
  /\ Due("leg") /\ Skipped(writes[1].leg)
  /\ Advance("rollup")
  /\ UNCHANGED <<orders, tables, early, events, sweep, parked, mishaps>>

\* The write fails; or it succeeds and the update with the parked fill, which
\* was taken out of _early_fills, fails.
LegFails ==
  /\ Due("leg") /\ ~Skipped(writes[1].leg) /\ Mishap("db")
  /\ LET leg == writes[1].leg IN
       /\ Marks(leg)
       /\ \/ UNCHANGED <<row, early>>
          \/ row' = Written(leg) /\ early' = Taken(leg)
  /\ Advance("rollup")
  /\ UNCHANGED <<orders, trade, events, sweep, parked>>

Rollup ==
  /\ Due("rollup")
  /\ \/ /\ trade' = IF writes[1].leg.st = "failed" THEN "failed" ELSE "copied"
        /\ UNCHANGED mishaps
     \/ Mishap("db") /\ UNCHANGED trade
  /\ writes' = Tail(writes)
  /\ UNCHANGED <<orders, row, histleg, early, events, sweep, parked>>
-----------------------------------------------------------------------------
(* The exchange, the fill stream of the follower and record_follower_fill. *)

OrderFills ==
  \E id \in Id : /\ Live(id)
    /\ \E n \in 1 .. (ord[id].size - ord[id].filled) :
       LET total == ord[id].filled + n IN
       /\ ord' = [ord EXCEPT ![id].filled = total,
                             ![id].st = IF total = ord[id].size THEN "closed" ELSE "open"]
       /\ \/ events' = Append(events, [oid |-> id, filled |-> total])
             /\ UNCHANGED mishaps
          \/ Mishap("missed") /\ UNCHANGED events
    /\ UNCHANGED <<master, esc, mapped, mirrordone, tables, writes, early, sweep, parked>>

Cancel(id) == [ord EXCEPT ![id].st = "cancelled"]

MirrorCancelled ==
  /\ Fault("elsewhere") /\ Live(mapped) /\ master = "open"
  /\ ord' = Cancel(mapped)
  /\ UNCHANGED <<master, esc, mapped, mirrordone, tables, writes, early, events, sweep,
                 parked, mishaps>>

\* His order fills, or is cancelled and takes the mirror and ordermap with it.
MasterOrderEnds ==
  /\ master = "open"
  /\ \/ master' = "filled" /\ UNCHANGED <<ord, mapped>>
     \/ /\ master' = "cancelled"
        /\ ord' = IF Live(mapped) THEN Cancel(mapped) ELSE ord
        /\ mapped' = None
  /\ UNCHANGED <<mirrordone, esc, tables, writes, early, events, sweep, parked, mishaps>>

(* _escalate_unfilled_limit, a task of its own that holds no lock of the   *)
(* symbol: a push may come at each of its awaits.                          *)

\* The master's order filled, or cannot be read; the cancel is the claim.  What the
\* order filled is read back, and counts as nothing when it cannot be.
EscalateCancel ==
  /\ Fault("escalate") /\ esc = NoEsc
  /\ master = "filled" \/ (master = "open" /\ Fault("read"))
  /\ \E id \in Id, filled \in 0 .. Qty :
       /\ Live(id)
       /\ filled = ord[id].filled \/ (filled = 0 /\ Fault("read"))
       /\ ord' = Cancel(id)
       /\ esc' = [at |-> "withdrawn", rest |-> ord[id].size - filled, heir |-> None]
  /\ UNCHANGED <<master, mapped, mirrordone, tables, writes, early, events, sweep,
                 parked, mishaps>>

\* A close is capped by what is left to close; the market order fills at once.
EscalateMarket ==
  /\ esc.at = "withdrawn"
  /\ \E id \in Id, n \in 1 .. esc.rest :
       /\ Fresh(id)
       /\ ord' = [ord EXCEPT ![id] = [st |-> "closed", size |-> n, filled |-> n]]
       /\ esc' = [at |-> "marketed", rest |-> 0, heir |-> id]
       /\ \/ events' = Append(events, [oid |-> id, filled |-> n]) /\ UNCHANGED mishaps
          \/ Mishap("missed") /\ UNCHANGED events
  /\ UNCHANGED <<master, mapped, mirrordone, tables, writes, early, sweep, parked>>

\* The record is not told of the market order, only ordermap is.
EscalateRepoint ==
  /\ esc.at = "marketed"
  /\ mapped' = esc.heir /\ esc' = NoEsc
  /\ UNCHANGED <<master, ord, mirrordone, tables, writes, early, events, sweep, parked, mishaps>>

\* Nothing is left to close, the sizing cannot be read, or the order is refused.
EscalateGivesUp ==
  /\ esc.at = "withdrawn" /\ esc' = NoEsc
  /\ UNCHANGED <<master, ord, mapped, mirrordone, tables, writes, early, events, sweep,
                 parked, mishaps>>

\* A fill whose leg is not there yet is parked; the largest total is kept.
RecordFill ==
  /\ events # <<>>
  /\ LET e == Head(events) IN
       IF row # NoRow /\ row.oid = e.oid
       THEN row' = Settle(row, row.req, row.qty, e.filled) /\ UNCHANGED early
       ELSE early' = [early EXCEPT ![e.oid] = Greatest(@, e.filled)] /\ UNCHANGED row
  /\ events' = Tail(events)
  /\ UNCHANGED <<orders, trade, histleg, writes, sweep, parked, mishaps>>

RecordFillFails ==
  /\ events # <<>> /\ Mishap("db")
  /\ events' = Tail(events)
  /\ UNCHANGED <<orders, tables, writes, early, sweep, parked>>

FillExpires ==
  \E id \in Id : /\ early[id] > 0 /\ Mishap("expiry")
    /\ early' = [early EXCEPT ![id] = 0]
    /\ UNCHANGED <<orders, tables, writes, events, sweep, parked>>
-----------------------------------------------------------------------------
(* sweep_pending_legs.  The age of the row is not modelled: the sweep may  *)
(* come at any time.                                                       *)

SweepReads ==
  /\ sweep = Idle /\ row.st = "pending" /\ row.oid # None /\ ~parked
  /\ sweep' = [at |-> "asking", read |-> row]
  /\ UNCHANGED <<orders, tables, writes, early, events, parked, mishaps>>

\* An order that was cancelled before any fill is left alone.
SweepSettlesFills ==
  /\ sweep # Idle
  /\ LET od == ord[sweep.read.oid] IN
       row' = IF ~Live(sweep.read.oid) /\ od.filled > 0
              THEN Settle(row, row.req, row.qty, od.filled) ELSE row
  /\ sweep' = Idle
  /\ UNCHANGED <<orders, trade, histleg, writes, early, events, parked, mishaps>>

\* The row as it was read goes into the settlement, and the update names the
\* row alone.
SweepSettles ==
  /\ sweep # Idle
  /\ LET r == sweep.read
         od == ord[r.oid]
     IN  row' = IF Live(r.oid) THEN row
                ELSE IF od.filled > 0
                THEN LET s == Settle(r, r.req, r.qty, od.filled)
                     IN  [row EXCEPT !.qty = s.qty, !.st = s.st]
                ELSE [row EXCEPT !.st = "skipped"]
  /\ sweep' = Idle
  /\ UNCHANGED <<orders, trade, histleg, writes, early, events, parked, mishaps>>

SweepFails ==
  /\ sweep # Idle
  /\ \/ Mishap("read") /\ parked' = TRUE
     \/ Mishap("db") /\ UNCHANGED parked
  /\ sweep' = Idle
  /\ UNCHANGED <<orders, tables, writes, early, events>>

Unpark ==
  /\ parked /\ parked' = FALSE
  /\ UNCHANGED <<orders, tables, writes, early, events, sweep, mishaps>>

Crash ==
  /\ Mishap("crash")
  /\ writes' = <<>> /\ early' = [id \in Id |-> 0] /\ events' = <<>>
  /\ sweep' = Idle /\ parked' = FALSE /\ esc' = NoEsc
  /\ UNCHANGED <<master, ord, mapped, mirrordone, tables>>
-----------------------------------------------------------------------------
Push  == MirrorPlaced \/ MirrorNotPlaced \/ AlreadyMirrored \/ MirrorFinished
Write == WriteStage \/ WriteLeg \/ WriteNoLeg \/ Rollup
Sweep == SweepReads \/ SweepSettles
Escalate == EscalateCancel \/ EscalateMarket \/ EscalateRepoint \/ EscalateGivesUp

Next ==
  /\ \/ Push \/ Write \/ StageFails \/ LegFails
     \/ OrderFills \/ MirrorCancelled \/ MasterOrderEnds \/ Escalate
     \/ RecordFill \/ RecordFillFails \/ FillExpires
     \/ Sweep \/ SweepFails \/ Unpark \/ Crash
  /\ UNCHANGED faults

Spec == Init /\ [][Next]_vars

\* The loop runs its tasks and callbacks, the sweeper comes round every 120 s
\* and a parked row is free again after an hour.
FairSpec ==
  /\ Spec
  /\ WF_vars(Write /\ UNCHANGED faults) /\ WF_vars(RecordFill /\ UNCHANGED faults)
  /\ WF_vars(Sweep /\ UNCHANGED faults) /\ WF_vars(Unpark /\ UNCHANGED faults)
-----------------------------------------------------------------------------
AtRest == writes = <<>> /\ events = <<>>

\* However the row, the fill events and the sweep meet, once they are done a
\* leg that was written says of its order what the exchange says: the lots it
\* filled, and whether that is all of them.  A fill that beat its row counts.
RecordsWhatFilled ==
  AtRest /\ row.oid # None /\ faults = {} =>
    LET f == ord[row.oid].filled IN
    /\ row.qty = f
    /\ row.st = "filled" <=> f = Qty
    /\ row.st = "partial" <=> f \in 1 .. Qty - 1

\* A push may come while an escalation has withdrawn the mirror and not marketed it.
Tangled == Fault("escalate") /\ (Fault("resend") \/ Fault("read"))

\* Whatever is lost, sent again, swept late or replaced, the record never has
\* more lots than one order of the follower filled.  And unless a push meets an
\* escalation half-way, that order is the one it names, and unless a write was
\* lost a leg is called filled only when that order filled whole, and no other
\* filled any.
NeverOverstates ==
  /\ row.qty > 0 => \E id \in Id : row.qty <= ord[id].filled
  /\ row.qty > 0 /\ ~Tangled => row.oid # None /\ row.qty <= ord[row.oid].filled
  /\ row.st = "filled" /\ ~Tangled /\ faults \intersect {"db", "crash"} = {} =>
       \A id \in Id : ord[id].filled = IF id = row.oid THEN Qty ELSE 0

\* A leg stays pending only while its order rests: what the fill stream misses,
\* the sweeper settles.
LegSettles ==
  (row.st = "pending" /\ row.oid # None) ~> (row.st # "pending" \/ Live(row.oid))

\* What the engine says of a leg, "pending until the follower's own fill
\* stream confirms it", as an action property: a leg that was confirmed is not
\* pending again.
NeverUnsettles ==
  [][row.st \in {"partial", "filled"} => row'.st # "pending"]_row

\* A leg the sweeper calls skipped, "before any fill", was copied by nobody.
SkippedIsNotCopied ==
  AtRest /\ row.st = "skipped" /\ row.oid # None => \A id \in Id : ord[id].filled = 0
=============================================================================
