-------------------------- MODULE OrderHistoryProofs --------------------------
(***************************************************************************)
(* That the record of a copy never has more lots than its order filled,    *)
(* calls it filled only when it was, and, when nothing fails, says in the  *)
(* end what the exchange says: for any size, any number of replacements of *)
(* the order and of pushes whose records are still waiting.                *)
(***************************************************************************)
EXTENDS OrderHistory, TLAPS

\* The types in three parts, with what the state of an order says of its lots.
Order  == [st : {"none", "open", "closed", "cancelled"}, size : 0 .. Qty, filled : 0 .. Qty]
Fill   == [oid : Id, filled : 1 .. Qty]
Write1 == [at : {"stage", "leg", "rollup"}, leg : Leg \union {NoLeg}]

Sound(o) ==
  /\ o.st = "none" => o.filled = 0
  /\ o.st = "open" => o.filled < o.size
  /\ o.st = "closed" => o.filled > 0

Exchange ==
  /\ master \in {"open", "filled", "cancelled"} /\ ord \in [Id -> Order]
  /\ esc = NoEsc \/ esc \in Escalation
  /\ mapped \in Id \union {None} /\ mirrordone \in BOOLEAN
  /\ \A id \in Id : Sound(ord[id])

Tables ==
  /\ histleg \in BOOLEAN /\ trade \in {"absent", "processing", "copied", "failed"}
  /\ row = NoRow \/ row \in Row
  /\ writes \in Seq(Write1) /\ Len(writes) <= MaxWrites

Streams ==
  /\ faults \in Scenarios /\ parked \in BOOLEAN /\ mishaps \in 0 .. MaxMishaps
  /\ early \in [Id -> 0 .. Qty] /\ events \in Seq(Fill)
  /\ sweep = Idle \/ (sweep.at = "asking" /\ sweep.read \in Row /\ sweep.read.oid # None)

Types == Exchange /\ Tables /\ Streams

Placed == {id \in Id : ord[id].st # "none"}
Over   == {id \in Id : ord[id].st = "cancelled" /\ ord[id].filled = 0}

\* One order at most rests, the one ordermap names; while his may be pushed, every
\* other that was placed is over.
Orders ==
  /\ mapped # None => mapped \in Placed
  /\ \A id \in Id : ord[id].st = "open" => id = mapped
  /\ Pushable => Placed \ {mapped} \subseteq Over

\* An order that filled whole had no other that filled, before it or after.
Whole ==
  \A a, b \in Id : a # b =>
    /\ ord[b].st = "open" => ord[a].filled < Qty
    /\ ord[b].st = "open" /\ ord[a].filled > 0 => ord[b].size < Qty
    /\ ord[a].filled = Qty => ord[b].filled = 0

\* While an escalation is half-way nothing rests and nothing is pushed, and what it
\* has still to market is what is missing.
Withdrawn ==
  /\ esc # NoEsc => ~Pushable /\ \A id \in Id : ord[id].st # "open"
  /\ esc.at = "withdrawn" =>
       \A id \in Id : ord[id].filled < Qty /\ (ord[id].filled > 0 => esc.rest < Qty)
  /\ esc.at = "marketed" => esc.heir \in Placed

\* A leg names a placed order and its size, or says again that there is a mirror.
Names(leg, placed) ==
  /\ leg.oid = None <=> leg.st # "pending"
  /\ leg.oid # None => /\ leg.oid \in placed
                       /\ leg.req = Null \/ (leg.req = Qty /\ ~leg.once)

\* A leg may be written over an order that is its own, or is over.
Yields(id, leg, over) == leg = NoLeg \/ id \in {None, leg.oid} \union over

\* The legs that wait name placed orders; whatever a leg is written over is over.
Legs ==
  \A i \in 1 .. Len(writes) :
    /\ Names(writes[i].leg, Placed)
    /\ Yields(row.oid, writes[i].leg, Over)
    /\ \A h \in 1 .. i - 1 : Yields(writes[h].leg.oid, writes[i].leg, Over)
    /\ i > 1 => writes[i].at = "stage"

\* No stream tells of more lots than the order filled, and nobody who writes the row
\* knows of more than some order filled.
Streamed ==
  /\ \A id \in Id : early[id] <= ord[id].filled
  /\ \A i \in 1 .. Len(events) : events[i].filled <= ord[events[i].oid].filled
Covered(n) == n > 0 => \E id \in Id : n <= ord[id].filled
Bounded    == Streamed /\ Covered(row.qty) /\ (sweep # Idle => Covered(sweep.read.qty))

\* Nobody who writes the row knows of more lots than its order filled.
Counted ==
  /\ row.oid = None => row.qty = 0
  /\ row.oid # None => row.oid \in Placed /\ row.qty <= ord[row.oid].filled
  /\ \A id \in Id : early[id] <= ord[id].filled
  /\ \A i \in 1 .. Len(events) : events[i].filled <= ord[events[i].oid].filled
  /\ sweep # Idle => /\ sweep.read.oid \in Placed
                     /\ sweep.read.qty <= ord[sweep.read.oid].filled
                     /\ row.oid = sweep.read.oid \/ sweep.read.oid \in Over

\* The leg that tells how many lots an order has is written, or waits before place i.
Ready(id, i, w, named, over) ==
  \/ id = named \/ id \in over
  \/ \E h \in 1 .. i - 1 : w[h].leg.oid = id /\ w[h].leg.req = Qty

\* While no write is lost, a row whose order may fill knows its size.
Sized ==
  /\ row.oid # None => early[row.oid] = 0 /\ (row.req = Qty \/ row.oid \in Over)
  /\ sweep # Idle => sweep.read.req = Qty \/ sweep.read.oid \in Over
  /\ row.st = "filled" => row.oid # None /\ ord[row.oid].filled = Qty
  /\ Pushable /\ mapped # None => Ready(mapped, Len(writes) + 1, writes, row.oid, Over)
  /\ \A i \in 1 .. Len(writes) :
       writes[i].leg.oid # None /\ writes[i].leg.req = Null =>
         Ready(writes[i].leg.oid, i, writes, row.oid, Over)
  /\ writes # <<>> /\ writes[1].at = "rollup" /\ writes[1].leg.oid # None
       /\ writes[1].leg.req = Qty => writes[1].leg.oid \in {row.oid} \union Over

\* When nothing is disturbed there is one order, and its leg is the last to be written.
Lone ==
  /\ esc = NoEsc /\ \A a, b \in Placed : a = b
  /\ Pushable => Placed \subseteq {mapped} /\ Over = {}
  /\ \A i \in 1 .. Len(writes) : writes[i].leg.oid # None => i = Len(writes)
  /\ row.oid # None => writes = <<>> \/ (Len(writes) = 1 /\ writes[1].at = "rollup")

\* Where the lots of an order are: in the row, parked or on their way.
Held(id, total) ==
  \/ row.oid = id /\ row.qty = total
  \/ early[id] = total
  \/ \E i \in 1 .. Len(events) : events[i].oid = id /\ events[i].filled = total

\* Then no lot is lost, and the row's status fits its lots.
Complete ==
  /\ \A id \in Id : ord[id].filled > 0 => Held(id, ord[id].filled)
  /\ row.oid # None =>
       /\ row.st = "filled" <=> row.qty = Qty
       /\ row.st = "partial" <=> row.qty \in 1 .. Qty - 1

\* Each part under the disturbances it withstands.
Kept == faults \intersect {"db", "crash"} = {}
Steady == Orders /\ Whole /\ Withdrawn /\ Legs /\ Counted
IInv ==
  /\ Types /\ Bounded
  /\ ~Tangled => Steady
  /\ ~Tangled /\ Kept => Sized
  /\ faults = {} => Lone /\ Complete
-----------------------------------------------------------------------------
LEMMA Bounds ==
  /\ Qty \in Nat \ {0} /\ MaxOrders \in Nat \ {0} /\ MaxWrites \in Nat \ {0}
  /\ MaxMishaps \in Nat
BY HistoryAssumption DEF HistoryAssumption

LEMMA NoneIsNoId == None \notin Id /\ Id \subseteq Nat
BY DEF None, Id

LEMMA TypesSuffice == Types => TypeOK
<1> SUFFICES ASSUME Types
             PROVE  TypeOK
  OBVIOUS
<1>1. \A i \in DOMAIN writes : writes[i] \in Write1
  BY DEF Types, Tables
<1>2. QED BY <1>1 DEF Types, Exchange, Order, Tables, Write1, Fill, Streams, TypeOK

USE Bounds, NoneIsNoId

\* Which steps touch which part of the state.
LEMMA Frame ==
  ASSUME Next
  PROVE  /\ \/ UNCHANGED <<ord, mapped>> \/ MirrorPlaced \/ MirrorNotPlaced
            \/ OrderFills \/ MirrorCancelled \/ MasterOrderEnds \/ Escalate
         /\ UNCHANGED master \/ MasterOrderEnds
         /\ UNCHANGED esc \/ Escalate \/ Crash
         /\ UNCHANGED mirrordone \/ MirrorFinished
         /\ UNCHANGED writes \/ Push \/ Write \/ StageFails \/ LegFails \/ Crash
         /\ UNCHANGED <<trade, histleg>> \/ Write \/ StageFails \/ LegFails
         /\ UNCHANGED row \/ WriteLeg \/ LegFails \/ RecordFill \/ SweepSettles
         /\ \/ UNCHANGED early \/ WriteLeg \/ LegFails \/ RecordFill \/ FillExpires
            \/ Crash
         /\ \/ UNCHANGED events \/ OrderFills \/ EscalateMarket \/ RecordFill
            \/ RecordFillFails \/ Crash
         /\ UNCHANGED sweep \/ Sweep \/ SweepFails \/ Crash
         /\ UNCHANGED parked \/ SweepFails \/ Unpark \/ Crash
         /\ UNCHANGED mishaps \/ \E f \in AllFaults : Mishap(f)
         /\ UNCHANGED faults
<1> USE DEF orders, tables
<1>1. CASE Push
  BY <1>1 DEF Next, Push, MirrorPlaced, MirrorNotPlaced, AlreadyMirrored, MirrorFinished
<1>2. CASE Write \/ StageFails \/ LegFails
  BY <1>2 DEF Next, Write, WriteStage, WriteLeg, WriteNoLeg, Rollup, StageFails, LegFails,
              AllFaults
<1>3. CASE OrderFills \/ MirrorCancelled \/ MasterOrderEnds
  BY <1>3 DEF Next, OrderFills, MirrorCancelled, MasterOrderEnds, AllFaults
<1>7. CASE Escalate
  BY <1>7 DEF Next, Escalate, EscalateCancel, EscalateMarket, EscalateRepoint,
              EscalateGivesUp, AllFaults
<1>4. CASE RecordFill \/ RecordFillFails \/ FillExpires
  BY <1>4 DEF Next, RecordFill, RecordFillFails, FillExpires, AllFaults
<1>5. CASE Sweep \/ SweepFails \/ Unpark \/ Crash
  BY <1>5 DEF Next, Sweep, SweepReads, SweepSettles, SweepFails, Unpark, Crash, AllFaults
<1>6. QED BY <1>1, <1>2, <1>3, <1>4, <1>5, <1>7 DEF Next

\* An order that may no longer be pushed is never pushed again.
LEMMA NoMorePushes ==
  ASSUME Types, Next
  PROVE  Pushable' => Pushable
<1>1. UNCHANGED faults /\ (UNCHANGED master \/ master = "open")
  BY Frame DEF MasterOrderEnds
<1>2. QED BY <1>1 DEF Pushable, Fault
-----------------------------------------------------------------------------
(* What the steps do, field by field. *)

LEMMA Places ==
  ASSUME Types, MirrorPlaced
  PROVE  /\ mapped' \in Id /\ ord[mapped'].st = "none" /\ ord' \in [Id -> Order]
         /\ \A k \in Id \ {mapped'} : ord'[k] = ord[k]
         /\ ord'[mapped'] = [st |-> "open", size |-> Qty, filled |-> 0]
         /\ writes' = Append(writes, [at |-> "stage", leg |-> LegOf("pending", Qty, mapped')])
         /\ Pushable /\ NeedsMirror /\ Len(writes) < MaxWrites
         /\ UNCHANGED <<row, early, events, sweep>>
BY DEF MirrorPlaced, Fresh, Unused, Pushed, Record, Types, Exchange, Order, tables

LEMMA FillsOne ==
  ASSUME Types, OrderFills
  PROVE  \E id \in Id : \E n \in 1 .. Qty :
           /\ ord[id].st = "open" /\ ord' \in [Id -> Order]
           /\ \A k \in Id \ {id} : ord'[k] = ord[k]
           /\ ord'[id].filled = ord[id].filled + n /\ ord'[id].size = ord[id].size
           /\ ord'[id].filled <= ord[id].size
           /\ ord'[id].st = IF ord'[id].filled = ord[id].size THEN "closed" ELSE "open"
           /\ \/ events' = Append(events, [oid |-> id, filled |-> ord'[id].filled])
              \/ faults # {} /\ UNCHANGED events
<1> USE DEF Types, Exchange, Order, Sound
<1>1. PICK id \in Id : /\ Live(id)
        /\ \E n \in 1 .. (ord[id].size - ord[id].filled) :
             LET total == ord[id].filled + n IN
             /\ ord' = [ord EXCEPT ![id].filled = total,
                                   ![id].st = IF total = ord[id].size THEN "closed" ELSE "open"]
             /\ \/ events' = Append(events, [oid |-> id, filled |-> total])
                \/ Mishap("missed") /\ UNCHANGED events
  BY DEF OrderFills
<1>2. PICK n \in 1 .. (ord[id].size - ord[id].filled) :
        /\ ord' = [ord EXCEPT ![id].filled = ord[id].filled + n,
                              ![id].st = IF ord[id].filled + n = ord[id].size
                                         THEN "closed" ELSE "open"]
        /\ \/ events' = Append(events, [oid |-> id, filled |-> ord[id].filled + n])
           \/ faults # {} /\ UNCHANGED events
  BY <1>1 DEF Mishap, Fault
<1>3. /\ ord[id].st = "open" /\ n \in 1 .. Qty /\ ord[id].filled + n \in 1 .. Qty
      /\ ord[id].filled + n <= ord[id].size
  BY <1>1, <1>2 DEF Live
<1> DEFINE total == ord[id].filled + n
           more  == [ord EXCEPT ![id].filled = total]
           st    == IF total = ord[id].size THEN "closed" ELSE "open"
<1>4. /\ more \in [Id -> Order] /\ \A k \in Id \ {id} : more[k] = ord[k]
      /\ more[id].filled = total /\ more[id].size = ord[id].size
  BY <1>3
<1>5. ord' = [more EXCEPT ![id].st = st] /\ st \in {"open", "closed"}
  BY <1>2
<1> HIDE DEF more, st
<1>6. /\ ord' \in [Id -> Order] /\ \A k \in Id \ {id} : ord'[k] = more[k]
      /\ ord'[id].st = st /\ ord'[id].filled = more[id].filled
      /\ ord'[id].size = more[id].size
  BY <1>4, <1>5
<1>7. QED BY <1>2, <1>3, <1>4, <1>6 DEF st

LEMMA CancelsOne ==
  ASSUME Types, NEW id \in Id
  PROVE  /\ Cancel(id) \in [Id -> Order] /\ \A k \in Id \ {id} : Cancel(id)[k] = ord[k]
         /\ Cancel(id)[id].st = "cancelled" /\ Cancel(id)[id].filled = ord[id].filled
         /\ Cancel(id)[id].size = ord[id].size
BY DEF Cancel, Types, Exchange, Order

LEMMA Withdraws ==
  ASSUME Types, EscalateCancel
  PROVE  \E id \in Id :
           /\ ord[id].st = "open" /\ ord' = Cancel(id) /\ UNCHANGED mapped
           /\ Fault("escalate") /\ (master = "filled" \/ Fault("read"))
           /\ esc' \in Escalation /\ esc' # NoEsc /\ esc'.at = "withdrawn"
           /\ esc'.rest = ord[id].size - ord[id].filled \/ Fault("read")
<1>1. PICK id \in Id, filled \in 0 .. Qty :
        /\ Live(id) /\ ord' = Cancel(id)
        /\ filled = ord[id].filled \/ (filled = 0 /\ Fault("read"))
        /\ esc' = [at |-> "withdrawn", rest |-> ord[id].size - filled, heir |-> None]
  BY DEF EscalateCancel
<1>2. ord[id].st = "open" /\ ord[id].size - filled \in 0 .. Qty
  BY <1>1 DEF Live, Types, Exchange, Order, Sound
<1>3. UNCHANGED mapped /\ Fault("escalate") /\ (master = "filled" \/ Fault("read"))
  BY DEF EscalateCancel
<1> DEFINE rest == ord[id].size - filled
<1>4. /\ rest \in 0 .. Qty /\ esc' = [at |-> "withdrawn", rest |-> rest, heir |-> None]
      /\ rest = ord[id].size - ord[id].filled \/ Fault("read")
  BY <1>1, <1>2
<1> HIDE DEF rest
<1>5. /\ esc' \in Escalation /\ esc'.at = "withdrawn" /\ esc'.rest = rest
      /\ esc' # NoEsc
  BY <1>4 DEF Escalation, NoEsc
<1>6. QED BY <1>1, <1>2, <1>3, <1>4, <1>5 DEF rest

LEMMA Markets ==
  ASSUME Types, EscalateMarket
  PROVE  \E id \in Id : \E n \in 1 .. Qty :
           /\ esc.at = "withdrawn" /\ esc \in Escalation /\ n <= esc.rest
           /\ ord[id].st = "none" /\ ord[id].filled = 0 /\ ord' \in [Id -> Order]
           /\ \A k \in Id \ {id} : ord'[k] = ord[k]
           /\ ord'[id].st = "closed" /\ ord'[id].filled = n /\ ord'[id].size = n
           /\ esc' \in Escalation /\ esc' # NoEsc /\ esc'.at = "marketed" /\ esc'.heir = id
           /\ \/ events' = Append(events, [oid |-> id, filled |-> n])
              \/ UNCHANGED events
           /\ UNCHANGED mapped
<1>1. PICK id \in Id, n \in 1 .. esc.rest :
        /\ Fresh(id)
        /\ ord' = [ord EXCEPT ![id] = [st |-> "closed", size |-> n, filled |-> n]]
        /\ esc' = [at |-> "marketed", rest |-> 0, heir |-> id]
        /\ \/ events' = Append(events, [oid |-> id, filled |-> n])
           \/ UNCHANGED events
  BY DEF EscalateMarket
<1>2. esc.at = "withdrawn" /\ esc \in Escalation /\ UNCHANGED mapped
  BY DEF EscalateMarket, Types, Exchange, NoEsc
<1>3. n \in 1 .. Qty /\ n <= esc.rest
  <2>1. esc.rest \in 0 .. Qty
    BY <1>2 DEF Escalation
  <2>2. QED BY <1>1, <2>1
<1>4. ord[id].st = "none" /\ ord[id].filled = 0 /\ ord \in [Id -> Order]
  BY <1>1 DEF Fresh, Unused, Types, Exchange, Sound
<1> DEFINE new == [st |-> "closed", size |-> n, filled |-> n]
<1>5. new \in Order /\ new.st = "closed" /\ new.filled = n /\ new.size = n
  BY <1>3 DEF Order
<1> HIDE DEF new
<1>6. ord' = [ord EXCEPT ![id] = new]
  BY <1>1 DEF new
<1>7. /\ ord' \in [Id -> Order] /\ ord'[id] = new
      /\ \A k \in Id \ {id} : ord'[k] = ord[k]
  BY <1>4, <1>5, <1>6
<1>8. /\ esc' \in Escalation /\ esc' # NoEsc /\ esc'.at = "marketed" /\ esc'.heir = id
  BY <1>1 DEF Escalation, NoEsc
<1>9. QED BY <1>1, <1>2, <1>3, <1>4, <1>5, <1>7, <1>8

\* An escalation changes the orders only by its cancel and its market order.
LEMMA Escalates ==
  ASSUME Types, Escalate
  PROVE  \/ EscalateCancel \/ EscalateMarket
         \/ /\ UNCHANGED ord /\ esc' = NoEsc
            /\ mapped' = mapped \/ (esc.at = "marketed" /\ mapped' = esc.heir)
BY DEF Escalate, EscalateRepoint, EscalateGivesUp

LEMMA EndsMaster ==
  ASSUME Types, MasterOrderEnds
  PROVE  /\ Pushable /\ mapped' \in {mapped, None}
         /\ Pushable' => UNCHANGED <<ord, mapped>>
         /\ \/ UNCHANGED <<ord, mapped>>
            \/ mapped \notin {id \in Id : ord[id].st = "open"} /\ UNCHANGED ord /\ mapped' = None
            \/ mapped \in Id /\ ord[mapped].st = "open" /\ ord' = Cancel(mapped) /\ mapped' = None
BY DEF MasterOrderEnds, Pushable, Live, Types, Exchange

\* A fill that is counted in, or an order that turns out to have filled.
Settled(s, r, req, prev, filled) ==
  /\ s \in Row /\ s.oid = r.oid /\ s.req = r.req
  /\ s.qty \in {prev, filled} /\ s.qty >= prev /\ s.qty >= filled
  /\ s.st \in {"partial", "filled"}
  /\ s.st = "partial" <=> (req # Null /\ s.qty < req)

LEMMA SettleFields ==
  ASSUME NEW r \in Row \union {NoRow}, NEW req \in Size,
         NEW prev \in 0 .. Qty, NEW filled \in 0 .. Qty
  PROVE  Settled(Settle(r, req, prev, filled), r, req, prev, filled)
<1> DEFINE qty == Greatest(prev, filled)
           st  == IF req # Null /\ qty < req THEN "partial" ELSE "filled"
           s   == Settle(r, req, prev, filled)
<1>1. qty \in 0 .. Qty /\ qty \in {prev, filled} /\ qty >= prev /\ qty >= filled
  BY DEF Greatest
<1>2. st \in {"partial", "filled"} /\ (st = "partial" <=> (req # Null /\ qty < req))
  OBVIOUS
<1> HIDE DEF qty, st
<1>3. s = [st |-> st, req |-> r.req, qty |-> qty, oid |-> r.oid]
  <2>1. s = [r EXCEPT !.qty = qty, !.st = st]
    BY DEF Settle, qty, st
  <2>2. CASE r = NoRow
    BY <2>1, <2>2 DEF NoRow
  <2>3. CASE r \in Row
    BY <2>1, <2>3 DEF Row
  <2>4. QED BY <2>2, <2>3
<1>4. r.req \in Size /\ r.oid \in Id \union {None}
  BY DEF NoRow, Row, Size
<1> HIDE DEF s
<1>5. s \in Row /\ s.oid = r.oid /\ s.req = r.req /\ s.qty = qty /\ s.st = st
  BY <1>1, <1>2, <1>3, <1>4 DEF Row
<1>6. QED BY <1>1, <1>2, <1>5 DEF s, Settled

\* The first task moves on, is done, or another comes behind the rest.
LEMMA Advances ==
  ASSUME Types, writes # <<>>, NEW at \in {"leg", "rollup"}, Advance(at)
  PROVE  /\ writes' \in Seq(Write1) /\ Len(writes') = Len(writes)
         /\ writes'[1].at = at /\ \A i \in 1 .. Len(writes) : writes'[i].leg = writes[i].leg
         /\ \A i \in 2 .. Len(writes) : writes'[i] = writes[i]
<1> DEFINE w == [writes[1] EXCEPT !.at = at]
<1>1. Len(writes) \in Nat \ {0} /\ \A i \in 1 .. Len(writes) : writes[i] \in Write1
  BY DEF Types, Tables
<1>2. w \in Write1 /\ w.leg = writes[1].leg /\ w.at = at
  BY <1>1 DEF Write1
<1>3. writes' = [writes EXCEPT ![1] = w]
  BY DEF Advance
<1> HIDE DEF w
<1>4. /\ writes' \in Seq(Write1) /\ Len(writes') = Len(writes)
      /\ writes'[1] = w /\ \A i \in 2 .. Len(writes) : writes'[i] = writes[i]
  BY <1>1, <1>2, <1>3 DEF Types, Tables
<1>5. QED BY <1>1, <1>2, <1>4

LEMMA Drops ==
  ASSUME Types, writes # <<>>, writes' = Tail(writes)
  PROVE  /\ writes' \in Seq(Write1) /\ Len(writes') = Len(writes) - 1
         /\ Len(writes) \in Nat \ {0}
         /\ \A i \in 1 .. Len(writes') : writes'[i] = writes[i + 1]
BY DEF Types, Tables

LEMMA Appends ==
  ASSUME Types, NEW w \in Write1, writes' = Append(writes, w)
  PROVE  /\ writes' \in Seq(Write1) /\ Len(writes') = Len(writes) + 1
         /\ Len(writes) \in Nat /\ writes'[Len(writes')] = w
         /\ \A i \in 1 .. Len(writes) : writes'[i] = writes[i]
BY DEF Types, Tables

\* What a push appends.
LEMMA Pushes ==
  ASSUME Types, Push
  PROVE  \E leg \in Leg \union {NoLeg} :
           /\ writes' = Append(writes, [at |-> "stage", leg |-> leg])
           /\ Len(writes) < MaxWrites /\ Pushable
           /\ UNCHANGED <<row, early, events, sweep>>
           /\ \/ /\ MirrorPlaced /\ leg.oid = mapped' /\ leg.req = Qty /\ ~leg.once
                 /\ leg.st = "pending"
              \/ MirrorNotPlaced /\ leg.oid = None /\ leg.st # "pending" /\ leg # NoLeg
              \/ /\ AlreadyMirrored /\ leg.oid = mapped /\ leg.req = Null /\ leg.st = "pending"
                 /\ UNCHANGED <<ord, mapped>>
              \/ MirrorFinished /\ leg = NoLeg /\ UNCHANGED <<ord, mapped>>
<1> USE DEF Pushed, Record, LegOf, Leg, Size, Null, NoLeg, orders, tables, Types, Exchange
<1>1. CASE MirrorPlaced
  <2>1. LegOf("pending", Qty, mapped') \in Leg
    BY <1>1, Places
  <2>2. QED BY <1>1, <2>1, Places
<1>2. CASE MirrorNotPlaced
  <2>1. /\ LegOf("failed", Qty, None) \in Leg /\ LegOf("skipped", 0, None) \in Leg
        /\ LegOf("skipped", Null, None) \in Leg
    OBVIOUS
  <2>2. QED BY <1>2, <2>1 DEF MirrorNotPlaced
<1>3. CASE AlreadyMirrored
  <2> DEFINE leg == [st |-> "pending", req |-> Null, oid |-> mapped, once |-> TRUE]
  <2>1. leg \in Leg
    OBVIOUS
  <2>2. QED BY <1>3, <2>1 DEF AlreadyMirrored
<1>4. CASE MirrorFinished
  BY <1>4 DEF MirrorFinished
<1>5. QED BY <1>1, <1>2, <1>3, <1>4 DEF Push

\* What a leg writes into the row.
LEMMA WrittenFields ==
  ASSUME Types, NEW leg \in Leg
  PROVE  /\ Written(leg) \in Row /\ Written(leg).st = leg.st /\ Written(leg).qty = row.qty
         /\ Written(leg).oid = IF leg.oid = None THEN row.oid ELSE leg.oid
         /\ Written(leg).req = IF leg.req = Null THEN row.req ELSE leg.req
BY DEF Written, Types, Tables, Leg, Row, NoRow, Size

Parked(leg) == leg.st = "pending" /\ leg.oid # None /\ early[leg.oid] > 0

LEMMA WritesLeg ==
  ASSUME Types, WriteLeg \/ LegFails
  PROVE  LET leg == writes[1].leg IN
         /\ writes # <<>> /\ writes[1].at = "leg" /\ leg \in Leg /\ Advance("rollup")
         /\ ~(leg.once /\ histleg)
         /\ UNCHANGED <<ord, mapped, events, sweep>>
         /\ \/ UNCHANGED <<row, early>> /\ Fault("db")
            \/ /\ row' \in Row /\ early' = Taken(leg)
               /\ row'.oid = IF leg.oid = None THEN row.oid ELSE leg.oid
               /\ row'.req = IF leg.req = Null THEN row.req ELSE leg.req
               /\ \/ row'.qty = row.qty /\ row'.st = leg.st /\ (Fault("db") \/ ~Parked(leg))
                  \/ /\ Parked(leg) /\ row'.qty = early[leg.oid] /\ row'.st \in {"partial", "filled"}
                     /\ row'.st = "partial" <=> (leg.req # Null /\ row'.qty < leg.req)
<1> DEFINE leg == writes[1].leg
<1>1. /\ writes # <<>> /\ writes[1].at = "leg" /\ leg \in Leg /\ Advance("rollup")
      /\ ~(leg.once /\ histleg) /\ UNCHANGED <<ord, mapped, events, sweep>>
  <2>1. /\ writes # <<>> /\ writes[1].at = "leg" /\ Advance("rollup")
        /\ ~Skipped(leg) /\ UNCHANGED <<ord, mapped, events, sweep>>
    BY DEF WriteLeg, LegFails, Due, orders
  <2>2. writes[1] \in Write1
    BY <2>1 DEF Types, Tables
  <2>3. QED BY <2>1, <2>2 DEF Skipped, Write1
<1>2. CASE LegFails
  BY <1>1, <1>2, WrittenFields DEF LegFails, Mishap
<1>3. CASE WriteLeg
  <2>1. row' = Claimed(leg) /\ early' = Taken(leg)
    BY <1>3 DEF WriteLeg
  <2>2. CASE ~Parked(leg)
    BY <1>1, <2>1, <2>2, WrittenFields DEF Claimed, Parked
  <2>3. CASE Parked(leg)
    <3> DEFINE w == Written(leg)
               f == early[leg.oid]
    <3>1. row' = Settle(w, leg.req, 0, f)
      BY <2>1, <2>3 DEF Claimed, Parked
    <3>2. leg.oid \in Id /\ leg.req \in Size
      BY <1>1, <2>3 DEF Leg, Parked
    <3>3. /\ f \in 0 .. Qty /\ f > 0 /\ w \in Row
          /\ w.oid = leg.oid /\ w.req = IF leg.req = Null THEN row.req ELSE leg.req
      BY <1>1, <2>3, <3>2, WrittenFields DEF Parked, Types, Streams
    <3> HIDE DEF w, f, leg
    <3>4. Settled(row', w, leg.req, 0, f)
      BY <3>1, <3>2, <3>3, SettleFields
    <3>5. /\ row' \in Row /\ row'.oid = w.oid /\ row'.req = w.req
          /\ row'.qty \in {0, f} /\ row'.qty >= f
          /\ row'.st \in {"partial", "filled"}
          /\ row'.st = "partial" <=> (leg.req # Null /\ row'.qty < leg.req)
      BY <3>4 DEF Settled
    <3>6. row'.qty = f /\ leg.oid # None
      BY <3>2, <3>3, <3>5
    <3>7. QED BY <1>1, <2>1, <2>3, <3>3, <3>5, <3>6 DEF f, leg
  <2>4. QED BY <2>2, <2>3
<1>4. QED BY <1>2, <1>3

\* What a fill event and the sweep write into the row.
LEMMA FillsRow ==
  ASSUME Types, RecordFill
  PROVE  /\ events # <<>> /\ events' = Tail(events) /\ Head(events) = events[1]
         /\ events[1].oid \in Id /\ events[1].filled \in 1 .. Qty
         /\ UNCHANGED <<ord, mapped, writes, sweep>>
         /\ \/ /\ row.oid = events[1].oid /\ UNCHANGED early
               /\ row' \in Row /\ row'.oid = row.oid /\ row'.req = row.req
               /\ row'.qty \in {row.qty, events[1].filled}
               /\ row'.qty >= row.qty /\ row'.qty >= events[1].filled
               /\ row'.st \in {"partial", "filled"}
               /\ row'.st = "partial" <=> (row.req # Null /\ row'.qty < row.req)
            \/ /\ row.oid # events[1].oid /\ UNCHANGED row
               /\ early' \in [Id -> 0 .. Qty]
               /\ \A id \in Id \ {events[1].oid} : early'[id] = early[id]
               /\ early'[events[1].oid] \in {early[events[1].oid], events[1].filled}
               /\ early'[events[1].oid] >= early[events[1].oid]
               /\ early'[events[1].oid] >= events[1].filled
<1> DEFINE e == events[1]
<1>1. /\ events # <<>> /\ events' = Tail(events) /\ Head(events) = e
      /\ e.oid \in Id /\ e.filled \in 1 .. Qty
      /\ UNCHANGED <<ord, mapped, writes, sweep>>
  <2>1. /\ events # <<>> /\ events' = Tail(events)
        /\ UNCHANGED <<ord, mapped, writes, sweep>>
    BY DEF RecordFill, orders
  <2>2. Head(events) = events[1] /\ Len(events) \in Nat \ {0}
    BY <2>1 DEF Types, Streams
  <2>3. e \in Fill
    BY <2>2 DEF Types, Streams
  <2>4. QED BY <2>1, <2>2, <2>3 DEF Fill
<1>2. CASE row # NoRow /\ row.oid = e.oid
  <2>1. row' = Settle(row, row.req, row.qty, e.filled) /\ UNCHANGED early
    BY <1>1, <1>2 DEF RecordFill
  <2>2. /\ row \in Row \union {NoRow} /\ row.req \in Size /\ row.qty \in 0 .. Qty
        /\ e.filled \in 0 .. Qty
    BY <1>1, <1>2 DEF Types, Tables, Row
  <2> HIDE DEF e
  <2>3. Settled(row', row, row.req, row.qty, e.filled)
    BY <2>1, <2>2, SettleFields
  <2>4. QED BY <1>1, <1>2, <2>1, <2>3 DEF e, Settled
<1>3. CASE ~(row # NoRow /\ row.oid = e.oid)
  <2>1. /\ early' = [early EXCEPT ![e.oid] = Greatest(@, e.filled)] /\ UNCHANGED row
        /\ row.oid # e.oid
    BY <1>1, <1>3 DEF RecordFill, NoRow
  <2>2. early[e.oid] \in 0 .. Qty /\ early \in [Id -> 0 .. Qty]
    BY <1>1 DEF Types, Streams
  <2>3. /\ Greatest(early[e.oid], e.filled) \in {early[e.oid], e.filled}
        /\ Greatest(early[e.oid], e.filled) >= early[e.oid]
        /\ Greatest(early[e.oid], e.filled) >= e.filled
        /\ Greatest(early[e.oid], e.filled) \in 0 .. Qty
    BY <1>1, <2>2 DEF Greatest
  <2> HIDE DEF e
  <2>4. QED BY <1>1, <1>3, <2>1, <2>2, <2>3 DEF e
<1>4. QED BY <1>2, <1>3

LEMMA SweepsRow ==
  ASSUME Types, SweepSettles
  PROVE  LET r == sweep.read IN
         /\ sweep # Idle /\ sweep' = Idle /\ r \in Row /\ r.oid \in Id
         /\ UNCHANGED <<ord, mapped, writes, early, events>>
         /\ \/ UNCHANGED row
            \/ /\ ord[r.oid].st # "open" /\ ord[r.oid].filled = 0
               /\ row' = [row EXCEPT !.st = "skipped"]
            \/ /\ ord[r.oid].st # "open" /\ ord[r.oid].filled > 0
               /\ row'.oid = row.oid /\ row'.req = row.req /\ row' \in Row
               /\ row'.qty \in {r.qty, ord[r.oid].filled}
               /\ row'.qty >= r.qty /\ row'.qty >= ord[r.oid].filled
               /\ row'.st \in {"partial", "filled"}
               /\ row'.st = "partial" <=> (r.req # Null /\ row'.qty < r.req)
<1> DEFINE r == sweep.read
           f == ord[r.oid].filled
           s == Settle(r, r.req, r.qty, f)
<1>1. /\ sweep # Idle /\ sweep' = Idle /\ r \in Row /\ r.oid \in Id
      /\ UNCHANGED <<ord, mapped, writes, early, events>>
  BY DEF SweepSettles, Types, Streams, Row, orders
<1>2. f \in 0 .. Qty /\ r.req \in Size /\ r.qty \in 0 .. Qty
  BY <1>1 DEF Row, Types, Exchange, Order
<1>3. CASE ord[r.oid].st = "open"
  BY <1>1, <1>3 DEF SweepSettles, Live, None, Id
<1>4. CASE ord[r.oid].st # "open" /\ f = 0
  BY <1>1, <1>4 DEF SweepSettles, Live
<1>5. CASE ord[r.oid].st # "open" /\ f > 0
  <2>1. row' = [row EXCEPT !.qty = s.qty, !.st = s.st]
    BY <1>1, <1>5 DEF SweepSettles, Live
  <2>0. r \in Row
    BY <1>1
  <2> HIDE DEF f, r
  <2>2. Settled(s, r, r.req, r.qty, f)
    BY <2>0, <1>2, SettleFields
  <2> HIDE DEF s
  <2>3. s.st \in {"partial", "filled"} /\ s.qty \in 0 .. Qty
    BY <1>2, <2>2 DEF Settled
  <2>4. /\ s.qty \in {r.qty, f} /\ s.qty >= r.qty /\ s.qty >= f
        /\ s.st = "partial" <=> (r.req # Null /\ s.qty < r.req)
    BY <2>2 DEF Settled
  <2>5. /\ row'.oid = row.oid /\ row'.req = row.req /\ row' \in Row
        /\ row'.qty = s.qty /\ row'.st = s.st
    <3>1. CASE row = NoRow
      BY <2>1, <2>3, <3>1 DEF NoRow, Row, Size
    <3>2. CASE row \in Row
      BY <2>1, <2>3, <3>2 DEF Row
    <3>3. QED BY <3>1, <3>2 DEF Types, Tables
  <2>6. QED BY <1>1, <1>5, <2>3, <2>4, <2>5 DEF r, f
<1>6. QED BY <1>2, <1>3, <1>4, <1>5
-----------------------------------------------------------------------------
(* The types. *)

LEMMA ExchangeStep ==
  ASSUME Types, Next
  PROVE  Exchange'
<1> USE DEF Types, Exchange
<1>0. /\ mirrordone' \in BOOLEAN /\ master' \in {"open", "filled", "cancelled"}
      /\ esc' = NoEsc \/ esc' \in Escalation
  <2>1. esc' = NoEsc \/ esc' \in Escalation
    BY Frame, Escalates, Withdraws, Markets DEF Crash
  <2>2. QED BY <2>1, Frame DEF MirrorFinished, MasterOrderEnds
<1>1. CASE UNCHANGED <<ord, mapped>>
  BY <1>0, <1>1
<1>2. CASE MirrorPlaced
  <2>1. Sound(ord'[mapped'])
    BY <1>2, Places DEF Sound
  <2>2. QED BY <1>0, <1>2, <2>1, Places
<1>3. CASE MirrorNotPlaced
  BY <1>0, <1>3 DEF MirrorNotPlaced
<1>4. CASE OrderFills
  <2>1. UNCHANGED mapped
    BY <1>4 DEF OrderFills
  <2>2. PICK id \in Id :
          /\ ord' \in [Id -> Order] /\ \A k \in Id \ {id} : ord'[k] = ord[k]
          /\ Sound(ord'[id])
    <3>1. PICK id \in Id : \E n \in 1 .. Qty :
            /\ ord' \in [Id -> Order] /\ \A k \in Id \ {id} : ord'[k] = ord[k]
            /\ ord'[id].filled = ord[id].filled + n /\ ord'[id].size = ord[id].size
            /\ ord'[id].filled <= ord[id].size
            /\ ord'[id].st = IF ord'[id].filled = ord[id].size THEN "closed" ELSE "open"
      BY <1>4, FillsOne
    <3>2. ord[id].filled \in 0 .. Qty /\ ord[id].size \in 0 .. Qty
      BY DEF Order
    <3>3. QED BY <3>1, <3>2 DEF Sound
  <2>3. QED BY <1>0, <2>1, <2>2
<1>5. ASSUME NEW id \in Id, ord' = Cancel(id)
      PROVE  ord' \in [Id -> Order] /\ \A k \in Id : Sound(ord'[k])
  <2>1. Sound(ord'[id])
    BY <1>5, CancelsOne DEF Sound
  <2>2. QED BY <1>5, <2>1, CancelsOne
<1>6. CASE MirrorCancelled
  <2>1. mapped \in Id /\ ord' = Cancel(mapped) /\ UNCHANGED mapped
    BY <1>6 DEF MirrorCancelled, Live
  <2>2. QED BY <1>0, <1>5, <2>1
<1>7. CASE MasterOrderEnds
  BY <1>0, <1>5, <1>7, EndsMaster
<1>8. CASE Escalate
  <2>1. CASE EscalateCancel
    BY <1>0, <1>5, <2>1, Withdraws
  <2>2. CASE EscalateMarket
    <3>1. PICK id \in Id : \E n \in 1 .. Qty :
            /\ ord' \in [Id -> Order] /\ UNCHANGED mapped
            /\ \A k \in Id \ {id} : ord'[k] = ord[k]
            /\ ord'[id].st = "closed" /\ ord'[id].filled = n
      BY <2>2, Markets
    <3>2. Sound(ord'[id])
      BY <3>1 DEF Sound
    <3>3. QED BY <1>0, <3>1, <3>2
  <2>3. CASE UNCHANGED ord /\ (mapped' = mapped \/ (esc.at = "marketed" /\ mapped' = esc.heir))
    <3>1. mapped' \in Id \union {None}
      BY <2>3 DEF Escalation, NoEsc
    <3>2. QED BY <1>0, <2>3, <3>1
  <2>4. QED BY <1>8, <2>1, <2>2, <2>3, Escalates
<1>9. QED BY <1>1, <1>2, <1>3, <1>4, <1>6, <1>7, <1>8, Frame

\* Only a leg changes which order the row names.
LEMMA RowNames ==
  ASSUME Types, Next
  PROVE  /\ row' = NoRow \/ row' \in Row
         /\ \/ UNCHANGED row \/ RecordFill \/ SweepSettles \/ WriteLeg \/ LegFails
         /\ \/ row'.oid = row.oid
            \/ (WriteLeg \/ LegFails) /\ row'.oid = writes[1].leg.oid /\ writes[1].leg.oid # None
<1>1. CASE UNCHANGED row
  BY <1>1 DEF Types, Tables
<1>2. CASE WriteLeg \/ LegFails
  BY <1>2, WritesLeg DEF Types, Tables
<1>3. CASE RecordFill
  BY <1>3, FillsRow DEF Types, Tables
<1>4. CASE SweepSettles
  <2>1. row' = [row EXCEPT !.st = "skipped"] => row' \in Row /\ row'.oid = row.oid
    BY DEF Types, Tables, Row, NoRow, Size
  <2>2. QED BY <1>4, <2>1, SweepsRow DEF Types, Tables
<1>5. QED BY <1>1, <1>2, <1>3, <1>4, Frame

LEMMA TablesStep ==
  ASSUME Types, Next
  PROVE  Tables'
<1>1. row' = NoRow \/ row' \in Row
  BY RowNames
<1>2. trade' \in {"absent", "processing", "copied", "failed"} /\ histleg' \in BOOLEAN
  BY Frame DEF Types, Tables, Write, WriteStage, WriteLeg, WriteNoLeg, Rollup, StageFails,
               LegFails, Marks, Leg, NoLeg, Write1, orders, tables
<1>3. writes' \in Seq(Write1) /\ Len(writes') <= MaxWrites
  <2>0. writes \in Seq(Write1) /\ Len(writes) <= MaxWrites
    BY DEF Types, Tables
  <2>1. CASE UNCHANGED writes
    BY <2>0, <2>1
  <2>2. CASE Push
    <3>1. PICK leg \in Leg \union {NoLeg} :
            /\ writes' = Append(writes, [at |-> "stage", leg |-> leg])
            /\ Len(writes) < MaxWrites
      BY <2>2, Pushes
    <3>2. [at |-> "stage", leg |-> leg] \in Write1
      BY DEF Write1
    <3>3. QED BY <3>1, <3>2, Appends
  <2>3. ASSUME NEW at \in {"leg", "rollup"}, writes # <<>>, Advance(at)
        PROVE  writes' \in Seq(Write1) /\ Len(writes') <= MaxWrites
    BY <2>0, <2>3, Advances
  <2>4. ASSUME writes # <<>>, writes' = Tail(writes)
        PROVE  writes' \in Seq(Write1) /\ Len(writes') <= MaxWrites
    BY <2>0, <2>4, Drops
  <2>5. CASE Crash
    BY <2>5 DEF Crash
  <2>6. CASE Write \/ StageFails \/ LegFails
    BY <2>3, <2>4, <2>6
       DEF Write, WriteStage, WriteLeg, WriteNoLeg, Rollup, StageFails, LegFails, Due
  <2>7. QED BY <2>1, <2>2, <2>5, <2>6, Frame
<1>4. QED BY <1>1, <1>2, <1>3 DEF Tables

LEMMA StreamsStep ==
  ASSUME Types, Next
  PROVE  Streams'
<1> USE DEF Types, Streams
<1>1. faults' \in Scenarios /\ parked' \in BOOLEAN
  BY Frame DEF SweepFails, Unpark, Crash, tables, orders
<1>2. mishaps' \in 0 .. MaxMishaps
  BY Frame DEF Mishap
<1>3. early' \in [Id -> 0 .. Qty]
  <2>1. CASE WriteLeg \/ LegFails
    BY <2>1, WritesLeg DEF Taken
  <2>2. CASE RecordFill
    BY <2>2, FillsRow
  <2>3. CASE FillExpires \/ Crash
    BY <2>3 DEF FillExpires, Crash
  <2>4. QED BY <2>1, <2>2, <2>3, Frame
<1>4. events' \in Seq(Fill)
  <2>1. CASE OrderFills
    <3>1. PICK id \in Id : \E n \in 1 .. Qty :
            /\ ord' \in [Id -> Order] /\ ord'[id].filled = ord[id].filled + n
            /\ \/ events' = Append(events, [oid |-> id, filled |-> ord'[id].filled])
               \/ UNCHANGED events
      BY <2>1, FillsOne
    <3>4. ord'[id].filled \in 1 .. Qty
      <4>1. ord[id].filled \in 0 .. Qty /\ ord'[id].filled \in 0 .. Qty
        BY <3>1 DEF Exchange, Order
      <4>2. QED BY <3>1, <4>1
    <3>2. [oid |-> id, filled |-> ord'[id].filled] \in Fill
      BY <3>4 DEF Fill
    <3>3. QED BY <3>1, <3>2
  <2>5. CASE EscalateMarket
    <3>1. PICK id \in Id : \E n \in 1 .. Qty :
            \/ events' = Append(events, [oid |-> id, filled |-> n])
            \/ UNCHANGED events
      BY <2>5, Markets
    <3>2. PICK n \in 1 .. Qty :
            \/ events' = Append(events, [oid |-> id, filled |-> n])
            \/ UNCHANGED events
      BY <3>1
    <3>3. [oid |-> id, filled |-> n] \in Fill
      BY DEF Fill
    <3>4. QED BY <3>2, <3>3
  <2>2. CASE RecordFill \/ RecordFillFails
    <3>1. events # <<>> /\ events' = Tail(events)
      BY <2>2 DEF RecordFill, RecordFillFails
    <3>2. QED BY <3>1
  <2>3. CASE Crash
    BY <2>3 DEF Crash
  <2>4. QED BY <2>1, <2>2, <2>3, <2>5, Frame
<1>5. sweep' = Idle \/ (sweep'.at = "asking" /\ sweep'.read \in Row /\ sweep'.read.oid # None)
  <2>1. CASE SweepReads
    BY <2>1 DEF SweepReads, Tables, NoRow
  <2>2. QED BY <2>1, Frame DEF Sweep, SweepSettles, SweepFails, Crash
<1>6. QED BY <1>1, <1>2, <1>3, <1>4, <1>5
-----------------------------------------------------------------------------
(* The orders at the exchange. *)

\* What is placed stays placed, what is over stays over, and fills are not undone.
Lasting ==
  \A id \in Id : /\ id \in Placed => id \in Placed'
                 /\ id \in Over => id \in Over'
                 /\ ord[id].filled <= ord'[id].filled

LEMMA Lasts ==
  ASSUME Types, Next
  PROVE  Lasting
<1> DEFINE Holds == \A id \in Id :
             /\ ord[id].st # "none" => ord'[id].st # "none"
             /\ ord[id].st = "cancelled" => ord'[id].st = "cancelled" /\ ord'[id].filled = ord[id].filled
             /\ ord[id].filled <= ord'[id].filled
<1> SUFFICES Holds
  BY DEF Lasting, Placed, Over
<1>0. \A id \in Id : ord[id].filled \in Nat
  BY DEF Types, Exchange, Order
<1>1. CASE UNCHANGED ord
  BY <1>0, <1>1
<1>2. CASE MirrorPlaced
  <2>1. ord[mapped'].filled = 0
    BY <1>2, Places DEF Types, Exchange, Sound
  <2>2. QED BY <1>0, <1>2, <2>1, Places
<1>3. CASE OrderFills
  <2>1. PICK id \in Id :
          /\ ord[id].st = "open" /\ ord'[id].st \in {"open", "closed"}
          /\ \A k \in Id \ {id} : ord'[k] = ord[k]
          /\ ord[id].filled <= ord'[id].filled
    <3>1. PICK id \in Id : \E n \in 1 .. Qty :
            /\ ord[id].st = "open" /\ \A k \in Id \ {id} : ord'[k] = ord[k]
            /\ ord'[id].filled = ord[id].filled + n
            /\ ord'[id].st = IF ord'[id].filled = ord[id].size THEN "closed" ELSE "open"
      BY <1>3, FillsOne
    <3>2. QED BY <1>0, <3>1
  <2>2. ASSUME NEW k \in Id
        PROVE  /\ ord[k].st # "none" => ord'[k].st # "none"
               /\ ord[k].st = "cancelled" =>
                    ord'[k].st = "cancelled" /\ ord'[k].filled = ord[k].filled
               /\ ord[k].filled <= ord'[k].filled
    <3>1. CASE k = id
      BY <2>1, <3>1
    <3>2. CASE k # id
      <4>1. ord'[k] = ord[k]
        BY <2>1, <3>2
      <4>2. QED BY <1>0, <4>1
    <3>3. QED BY <3>1, <3>2
  <2>3. QED BY <2>2
<1>4. ASSUME NEW id \in Id, ord[id].st = "open", ord' = Cancel(id)
      PROVE  Holds
  BY <1>0, <1>4, CancelsOne
<1>5. CASE MirrorCancelled
  BY <1>4, <1>5 DEF MirrorCancelled, Live, Types, Exchange
<1>6. CASE MasterOrderEnds
  BY <1>1, <1>4, <1>6, EndsMaster
<1>7. CASE Escalate
  <2>1. CASE EscalateCancel
    BY <1>4, <2>1, Withdraws
  <2>2. CASE EscalateMarket
    <3>1. PICK id \in Id :
            /\ ord[id].st = "none" /\ ord[id].filled = 0 /\ ord' \in [Id -> Order]
            /\ \A k \in Id \ {id} : ord'[k] = ord[k]
            /\ ord'[id].st = "closed"
      BY <2>2, Markets
    <3>2. ord'[id].filled \in Nat
      BY <3>1 DEF Order
    <3>3. ASSUME NEW k \in Id
          PROVE  /\ ord[k].st # "none" => ord'[k].st # "none"
                 /\ ord[k].st = "cancelled" =>
                      ord'[k].st = "cancelled" /\ ord'[k].filled = ord[k].filled
                 /\ ord[k].filled <= ord'[k].filled
      <4>1. CASE k = id
        BY <3>1, <3>2, <4>1
      <4>2. CASE k # id
        <5>1. ord'[k] = ord[k] /\ ord[k].filled \in Nat
          BY <1>0, <3>1, <4>2
        <5>2. QED BY <5>1
      <4>3. QED BY <4>1, <4>2
    <3>4. QED BY <3>3
  <2>3. QED BY <1>1, <1>7, <2>1, <2>2, Escalates
<1>8. QED
  BY <1>1, <1>2, <1>3, <1>5, <1>6, <1>7, Frame DEF MirrorNotPlaced

\* An order that no longer rests and did not fill is over.
LEMMA NeedsOver ==
  ASSUME Types, Orders, Pushable, NeedsMirror
  PROVE  \A id \in Id : id \in Placed => id \in Over
<1>1. mapped # None => mapped \in Over
  BY DEF NeedsMirror, Gone, Live, Over, Placed, Orders, Types, Exchange, Order, Sound
<1>2. QED BY <1>1 DEF Orders, Types, Exchange

LEMMA OrdersStep ==
  ASSUME Types, Orders, Withdrawn, ~Tangled, Next
  PROVE  Orders'
<1> USE DEF Orders, Types, Exchange
<1>0. Pushable' => Pushable
  BY NoMorePushes
<1>1. CASE UNCHANGED <<ord, mapped>>
  BY <1>0, <1>1 DEF Placed, Over
<1>2. CASE MirrorPlaced
  <2>1. \A id \in Id : id \in Placed => id \in Over
    BY <1>2, Places, NeedsOver
  <2>2. \A id \in Id \ {mapped'} : ord'[id] = ord[id] /\ ord[id].st # "open"
    BY <1>2, <2>1, Places DEF Placed, Over
  <2>3. mapped' \in Id /\ ord'[mapped'].st = "open"
    BY <1>2, Places
  <2>4. mapped' \in Placed'
    BY <2>3 DEF Placed
  <2>5. \A id \in Id : ord'[id].st = "open" => id = mapped'
    BY <2>2
  <2>6. Placed' \ {mapped'} \subseteq Over'
    BY <2>1, <2>2 DEF Placed, Over
  <2>7. QED BY <2>4, <2>5, <2>6
<1>3. CASE MirrorNotPlaced
  <2>1. \A id \in Id : id \in Placed => id \in Over
    BY <1>3, NeedsOver DEF MirrorNotPlaced, Pushed
  <2>2. mapped' = None /\ UNCHANGED ord
    BY <1>3 DEF MirrorNotPlaced
  <2>3. QED BY <2>1, <2>2 DEF Placed, Over
<1>4. CASE OrderFills
  <2>1. UNCHANGED mapped
    BY <1>4 DEF OrderFills
  <2>2. PICK id \in Id : /\ ord[id].st = "open" /\ ord'[id].st \in {"open", "closed"}
                         /\ \A k \in Id \ {id} : ord'[k] = ord[k]
    BY <1>4, FillsOne
  <2>3. QED BY <1>0, <2>1, <2>2 DEF Placed, Over
<1>5. ASSUME mapped \in Id, ord' = Cancel(mapped), ord[mapped].st = "open",
             mapped' \in {mapped, None}, Pushable' => mapped' = mapped
      PROVE  Orders'
  <2>1. \A k \in Id : /\ ord'[k].st # "open" /\ (ord[k].st = "none" <=> ord'[k].st = "none")
                      /\ k # mapped => ord'[k] = ord[k]
    BY <1>5, CancelsOne
  <2>2. Placed' = Placed /\ \A k \in Id \ {mapped} : k \in Over' <=> k \in Over
    BY <2>1 DEF Placed, Over
  <2>3. Placed' \subseteq Id
    BY DEF Placed
  <2>4. QED BY <1>0, <1>5, <2>1, <2>2, <2>3
<1>6. CASE MirrorCancelled
  BY <1>5, <1>6 DEF MirrorCancelled, Live
<1>7. CASE MasterOrderEnds
  <2>1. Pushable' => UNCHANGED <<ord, mapped>>
    BY <1>7, EndsMaster
  <2>2. CASE UNCHANGED <<ord, mapped>>
    BY <1>1, <2>2
  <2>3. CASE UNCHANGED ord /\ mapped' = None /\ \A id \in Id : ord[id].st # "open"
    BY <1>1, <2>1, <2>3 DEF Placed, Over
  <2>4. CASE mapped \in Id /\ ord[mapped].st = "open" /\ ord' = Cancel(mapped) /\ mapped' = None
    BY <1>5, <2>1, <2>4
  <2>5. QED BY <1>7, <2>2, <2>3, <2>4, EndsMaster
<1>8. CASE Escalate
  <2>1. CASE EscalateCancel
    BY <1>5, <2>1, Withdraws
  <2>2. CASE EscalateMarket
    <3>1. PICK id \in Id :
            /\ esc.at = "withdrawn" /\ ord[id].st = "none" /\ UNCHANGED mapped
            /\ \A k \in Id \ {id} : ord'[k] = ord[k]
            /\ ord'[id].st = "closed"
      BY <2>2, Markets
    <3>2. ~Pushable /\ \A k \in Id : ord'[k].st # "open"
      BY <3>1 DEF Withdrawn, NoEsc
    <3>3. Placed \subseteq Placed'
      BY <3>1 DEF Placed
    <3>4. QED BY <1>0, <3>1, <3>2, <3>3
  <2>3. CASE /\ UNCHANGED ord /\ esc.at = "marketed" /\ mapped' = esc.heir
    <3>1. ~Pushable /\ mapped' \in Placed
      BY <2>3 DEF Withdrawn, NoEsc
    <3>2. Placed' = Placed
      BY <2>3 DEF Placed
    <3>3. \A k \in Id : ord[k].st # "open"
      BY <2>3 DEF Withdrawn, NoEsc
    <3>4. QED BY <1>0, <2>3, <3>1, <3>2, <3>3
  <2>4. QED BY <1>1, <1>8, <2>1, <2>2, <2>3, Escalates
<1>9. QED BY <1>1, <1>2, <1>3, <1>4, <1>6, <1>7, <1>8, Frame

LEMMA WholeStep ==
  ASSUME Types, Orders, Withdrawn, Whole, Next
  PROVE  Whole'
<1> USE DEF Whole
<1>0. \A id \in Id : /\ ord[id].filled \in 0 .. Qty /\ ord[id].size \in 0 .. Qty
                     /\ ord[id].st = "open" => id = mapped /\ ord[id].filled < ord[id].size
                     /\ ord[id].st = "none" => ord[id].filled = 0
  BY DEF Types, Exchange, Order, Sound, Orders
<1>1. CASE UNCHANGED ord
  BY <1>1
<1>2. CASE MirrorPlaced
  <2>1. \A id \in Id : ord[id].filled = 0 /\ ord[id].st # "open"
    BY <1>0, <1>2, Places, NeedsOver DEF Placed, Over
  <2>2. ASSUME NEW id \in Id
        PROVE  ord'[id].filled = 0
    <3>1. ord'[mapped'].filled = 0 /\ \A k \in Id \ {mapped'} : ord'[k] = ord[k]
      BY <1>2, Places
    <3>2. QED BY <2>1, <3>1
  <2>3. 0 < Qty /\ ~(0 > 0) /\ Qty # 0
    OBVIOUS
  <2>4. SUFFICES ASSUME NEW a \in Id, NEW b \in Id
                 PROVE  /\ ord'[b].st = "open" => ord'[a].filled < Qty
                        /\ ord'[b].st = "open" /\ ord'[a].filled > 0 => ord'[b].size < Qty
                        /\ ord'[a].filled = Qty => ord'[b].filled = 0
    BY DEF Whole
  <2>5. ord'[a].filled = 0 /\ ord'[b].filled = 0
    BY <2>2
  <2>6. QED BY <2>3, <2>5
<1>3. CASE OrderFills
  <2>1. PICK id \in Id :
          /\ ord[id].st = "open" /\ ord'[id].st \in {"open", "closed"}
          /\ \A k \in Id \ {id} : ord'[k] = ord[k]
          /\ ord'[id].filled <= ord[id].size /\ ord'[id].size = ord[id].size
          /\ ord'[id].filled \in 1 .. Qty
    <3>1. PICK id \in Id : \E n \in 1 .. Qty :
            /\ ord[id].st = "open" /\ \A k \in Id \ {id} : ord'[k] = ord[k]
            /\ ord'[id].filled = ord[id].filled + n /\ ord'[id].size = ord[id].size
            /\ ord'[id].filled <= ord[id].size
            /\ ord'[id].st = IF ord'[id].filled = ord[id].size THEN "closed" ELSE "open"
      BY <1>3, FillsOne
    <3>2. ord[id].filled \in 0 .. Qty /\ ord[id].size \in 0 .. Qty
      BY <1>0
    <3>3. QED BY <3>1, <3>2
  <2>2. \A k \in Id \ {id} : /\ ord[k].filled < Qty /\ ord[k].st # "open"
                             /\ ord[k].filled > 0 => ord[id].size < Qty
    BY <1>0, <2>1
  <2>3. QED BY <1>0, <2>1, <2>2
<1>4. ASSUME NEW id \in Id, ord' = Cancel(id)
      PROVE  Whole'
  <2>1. \A k \in Id : /\ ord'[k].filled = ord[k].filled /\ ord'[k].size = ord[k].size
                      /\ ord'[k].st = "open" => ord[k].st = "open"
    BY <1>4, CancelsOne
  <2>2. QED BY <2>1
<1>5. CASE MirrorCancelled
  BY <1>4, <1>5 DEF MirrorCancelled, Live, Types, Exchange
<1>6. CASE MasterOrderEnds
  BY <1>1, <1>4, <1>6, EndsMaster
<1>7. CASE Escalate
  <2>1. CASE EscalateCancel
    BY <1>4, <2>1, Withdraws
  <2>2. CASE EscalateMarket
    <3>1. PICK new \in Id : \E n \in 1 .. Qty :
            /\ esc.at = "withdrawn" /\ esc \in Escalation /\ n <= esc.rest
            /\ \A k \in Id \ {new} : ord'[k] = ord[k]
            /\ ord'[new].st = "closed" /\ ord'[new].filled = n
      BY <2>2, Markets
    <3>2. PICK n \in 1 .. Qty :
            /\ esc.at = "withdrawn" /\ esc \in Escalation /\ n <= esc.rest
            /\ \A k \in Id \ {new} : ord'[k] = ord[k]
            /\ ord'[new].st = "closed" /\ ord'[new].filled = n
      BY <3>1
    <3>3. /\ esc.rest \in 0 .. Qty
          /\ \A k \in Id : /\ ord[k].st # "open" /\ ord[k].filled < Qty
                           /\ ord[k].filled > 0 => esc.rest < Qty
      BY <3>2 DEF Withdrawn, Escalation, NoEsc
    <3>4. \A k \in Id : ord'[k].st # "open"
      BY <3>2, <3>3
    <3>5. \A k \in Id \ {new} : ord'[k].filled < Qty /\ (n = Qty => ord'[k].filled = 0)
      <4>1. \A k \in Id \ {new} : ord[k].filled < Qty /\ (n = Qty => ord[k].filled = 0)
        BY <1>0, <3>2, <3>3
      <4>2. QED BY <3>2, <4>1
    <3>6. ASSUME NEW a \in Id, NEW b \in Id, a # b
          PROVE  ord'[a].filled = Qty => ord'[b].filled = 0
      <4>1. CASE a = new
        BY <3>2, <3>5, <3>6, <4>1
      <4>2. CASE a # new
        <5>1. ord'[a].filled < Qty
          BY <3>5, <4>2
        <5>2. QED BY <5>1
      <4>3. QED BY <4>1, <4>2
    <3>7. QED BY <3>4, <3>6
  <2>3. QED BY <1>1, <1>7, <2>1, <2>2, Escalates
<1>8. QED
  BY <1>1, <1>2, <1>3, <1>5, <1>6, <1>7, Frame DEF MirrorNotPlaced
LEMMA WithdrawnStep ==
  ASSUME Types, Orders, Whole, Withdrawn, ~Tangled, Next
  PROVE  Withdrawn'
<1>0. /\ Pushable' => Pushable /\ Lasting
      /\ \A id \in Id : ord[id].filled \in 0 .. Qty /\ ord[id].size \in 0 .. Qty
  BY NoMorePushes, Lasts DEF Types, Exchange, Order
<1>1. CASE UNCHANGED esc /\ UNCHANGED ord
  <2>1. Placed' = Placed
    BY <1>1 DEF Placed
  <2>2. QED BY <1>0, <1>1, <2>1 DEF Withdrawn
<1>2. CASE UNCHANGED esc /\ esc = NoEsc
  BY <1>2 DEF Withdrawn, NoEsc
<1>3. CASE UNCHANGED esc /\ esc # NoEsc
  <2>1. ~Pushable /\ \A id \in Id : ord[id].st # "open"
    BY <1>3 DEF Withdrawn
  <2>2. ~MirrorPlaced /\ ~MirrorNotPlaced
    BY <2>1 DEF MirrorPlaced, MirrorNotPlaced, Pushed
  <2>3. ~OrderFills
    BY <2>1, FillsOne
  <2>4. ~MirrorCancelled
    BY <2>1 DEF MirrorCancelled, Live, Types, Exchange
  <2>5. ~MasterOrderEnds
    BY <2>1, EndsMaster
  <2>8. Escalate => UNCHANGED ord
    <3>1. EscalateCancel => FALSE
      BY <1>3 DEF EscalateCancel
    <3>2. EscalateMarket => FALSE
      BY <1>3, Markets
    <3>3. QED BY <3>1, <3>2, Escalates
  <2>6. UNCHANGED ord
    BY <2>2, <2>3, <2>4, <2>5, <2>8, Frame
  <2>7. QED BY <1>1, <1>3, <2>6
<1>4. CASE esc' = NoEsc
  BY <1>4 DEF Withdrawn, NoEsc
<1>5. CASE EscalateCancel
  <2>1. PICK id \in Id :
          /\ ord[id].st = "open" /\ ord' = Cancel(id) /\ UNCHANGED mapped
          /\ Fault("escalate") /\ (master = "filled" \/ Fault("read"))
          /\ esc' \in Escalation /\ esc' # NoEsc /\ esc'.at = "withdrawn"
          /\ esc'.rest = ord[id].size - ord[id].filled \/ Fault("read")
    BY <1>5, Withdraws
  <2>2. ~Pushable /\ ~Fault("read")
    BY <2>1 DEF Tangled, Pushable
  <2>3. /\ \A k \in Id : ord'[k].filled = ord[k].filled
        /\ \A k \in Id : ord'[k].st # "open"
    BY <2>1, CancelsOne DEF Orders
  <2>4. ASSUME NEW k \in Id
        PROVE  ord[k].filled < Qty /\ (ord[k].filled > 0 => esc'.rest < Qty)
    <3>1. ord[id].filled < ord[id].size /\ esc'.rest = ord[id].size - ord[id].filled
      BY <2>1, <2>2 DEF Types, Exchange, Sound
    <3>2. CASE k = id
      <4>1. ord[id].filled \in 0 .. Qty /\ ord[id].size \in 0 .. Qty
        BY <1>0
      <4>2. QED BY <3>1, <3>2, <4>1
    <3>3. CASE k # id
      <4>1. ord[k].filled < Qty /\ (ord[k].filled > 0 => ord[id].size < Qty)
        BY <2>1, <3>3 DEF Whole
      <4>2. ord[id].filled \in 0 .. Qty /\ ord[id].size \in 0 .. Qty
        BY <1>0
      <4>3. QED BY <3>1, <4>1, <4>2
    <3>4. QED BY <3>2, <3>3
  <2>5. QED BY <1>0, <2>1, <2>2, <2>3, <2>4 DEF Withdrawn
<1>6. CASE EscalateMarket
  <2>1. PICK id \in Id :
          /\ esc.at = "withdrawn"
          /\ \A k \in Id \ {id} : ord'[k] = ord[k]
          /\ ord'[id].st = "closed" /\ esc'.at = "marketed" /\ esc'.heir = id
    BY <1>6, Markets
  <2>2. ~Pushable /\ \A k \in Id : ord[k].st # "open"
    BY <2>1 DEF Withdrawn, NoEsc
  <2>3. id \in Placed' /\ \A k \in Id : ord'[k].st # "open"
    BY <2>1, <2>2 DEF Placed
  <2>4. QED BY <1>0, <2>1, <2>2, <2>3 DEF Withdrawn
<1>7. QED BY <1>2, <1>3, <1>4, <1>5, <1>6, Frame, Escalates DEF Crash
-----------------------------------------------------------------------------
(* The legs that wait. *)

LEMMA Ranges ==
  ASSUME Types
  PROVE  /\ row.oid \in Id \union {None} /\ row.qty \in 0 .. Qty /\ row.req \in Size
         /\ \A i \in 1 .. Len(writes) :
              writes[i].leg \in Leg \union {NoLeg} /\ writes[i].leg.oid \in Id \union {None}
         /\ \A i \in 1 .. Len(events) : events[i].oid \in Id /\ events[i].filled \in 1 .. Qty
         /\ Len(writes) \in Nat /\ Len(events) \in Nat
         /\ \A id \in Id : early[id] \in 0 .. Qty /\ ord[id].filled \in 0 .. Qty
<1>1. row.oid \in Id \union {None} /\ row.qty \in 0 .. Qty /\ row.req \in Size
  BY DEF Types, Tables, NoRow, Row, Size
<1>2. /\ Len(writes) \in Nat
      /\ \A i \in 1 .. Len(writes) : writes[i] \in Write1
  BY DEF Types, Tables
<1>3. \A i \in 1 .. Len(writes) : writes[i].leg \in Leg \union {NoLeg}
  BY <1>2 DEF Write1
<1>4. \A l \in Leg \union {NoLeg} : l.oid \in Id \union {None}
  BY DEF Leg, NoLeg
<1>5. /\ Len(events) \in Nat
      /\ \A i \in 1 .. Len(events) : events[i] \in Fill
  BY DEF Types, Streams
<1>6. \A e \in Fill : e.oid \in Id /\ e.filled \in 1 .. Qty
  BY DEF Fill
<1>7. \A id \in Id : early[id] \in 0 .. Qty /\ ord[id].filled \in 0 .. Qty
  BY DEF Types, Streams, Exchange, Order
<1>8. QED BY <1>1, <1>2, <1>3, <1>4, <1>5, <1>6, <1>7

LEMMA Monotone ==
  ASSUME Lasting
  PROVE  Placed \subseteq Placed' /\ Over \subseteq Over' /\ Placed \subseteq Id /\ Placed' \subseteq Id
BY DEF Lasting, Placed, Over

LEMMA Keeps ==
  ASSUME NEW leg, NEW id, NEW p, NEW q, p \subseteq q
  PROVE  /\ Names(leg, p) => Names(leg, q)
         /\ Yields(id, leg, p) => Yields(id, leg, q)
BY DEF Names, Yields

\* Which orders a new leg may be written over.
LEMMA PushesOver ==
  ASSUME Types, Orders, Lasting, Push
  PROVE  \E leg \in Leg \union {NoLeg} :
           /\ writes' = Append(writes, [at |-> "stage", leg |-> leg])
           /\ UNCHANGED <<row, early, events, sweep>>
           /\ Pushable /\ Names(leg, Placed') /\ \A id \in Placed : Yields(id, leg, Over')
           /\ \/ leg.oid = mapped' /\ leg.req = Qty
              \/ leg.oid = None /\ mapped' \in {None, mapped}
              \/ leg.oid = mapped /\ mapped' = mapped
<1>1. PICK leg \in Leg \union {NoLeg} :
        /\ writes' = Append(writes, [at |-> "stage", leg |-> leg])
        /\ Pushable /\ UNCHANGED <<row, early, events, sweep>>
        /\ \/ /\ MirrorPlaced /\ leg.oid = mapped' /\ leg.req = Qty /\ ~leg.once
              /\ leg.st = "pending"
           \/ MirrorNotPlaced /\ leg.oid = None /\ leg.st # "pending" /\ leg # NoLeg
           \/ /\ AlreadyMirrored /\ leg.oid = mapped /\ leg.req = Null /\ leg.st = "pending"
              /\ UNCHANGED <<ord, mapped>>
           \/ MirrorFinished /\ leg = NoLeg /\ UNCHANGED <<ord, mapped>>
  BY Pushes
<1>0. Placed \subseteq Id /\ Over \subseteq Over' /\ Placed \subseteq Placed'
  BY Monotone
<1> SUFFICES /\ Names(leg, Placed') /\ \A id \in Placed : Yields(id, leg, Over')
             /\ \/ leg.oid = mapped' /\ leg.req = Qty
                \/ leg.oid = None /\ mapped' \in {None, mapped}
                \/ leg.oid = mapped /\ mapped' = mapped
  BY <1>1
<1>2. CASE /\ MirrorPlaced /\ leg.oid = mapped' /\ leg.req = Qty /\ ~leg.once
           /\ leg.st = "pending"
  <2>1. mapped' \in Id /\ ord'[mapped'].st = "open" /\ NeedsMirror
    BY <1>2, Places
  <2>2. mapped' \in Placed'
    BY <2>1 DEF Placed
  <2>3. Placed \subseteq Over
    BY <1>0, <1>1, <2>1, NeedsOver
  <2>4. QED BY <1>0, <1>2, <2>1, <2>2, <2>3 DEF Names, Yields
<1>3. CASE MirrorNotPlaced /\ leg.oid = None /\ leg.st # "pending" /\ leg # NoLeg
  <2>1. mapped' = None /\ NeedsMirror
    BY <1>3 DEF MirrorNotPlaced
  <2>2. Placed \subseteq Over
    BY <1>0, <1>1, <2>1, NeedsOver
  <2>3. QED BY <1>0, <1>3, <2>1, <2>2 DEF Names, Yields
<1>4. CASE /\ AlreadyMirrored /\ leg.oid = mapped /\ leg.req = Null /\ leg.st = "pending"
           /\ UNCHANGED <<ord, mapped>>
  <2>1. mapped # None /\ mapped \in Placed
    BY <1>4 DEF AlreadyMirrored, Orders
  <2>2. Placed \ {mapped} \subseteq Over
    BY <1>1 DEF Orders
  <2>3. QED BY <1>0, <1>4, <2>1, <2>2 DEF Names, Yields
<1>5. CASE MirrorFinished /\ leg = NoLeg /\ UNCHANGED <<ord, mapped>>
  BY <1>5 DEF NoLeg, Names, Yields
<1>6. QED BY <1>1, <1>2, <1>3, <1>4, <1>5

\* How the tasks move, and when the row comes to name another order.
LEMMA Tasks ==
  ASSUME Types, Next
  PROVE  \/ UNCHANGED writes /\ row'.oid = row.oid
         \/ Push
         \/ /\ writes # <<>> /\ writes[1].at = "stage" /\ Advance("leg")
            /\ row'.oid = row.oid
         \/ /\ writes # <<>> /\ writes[1].at = "leg" /\ Advance("rollup")
            /\ \/ row'.oid = row.oid /\ (Fault("db") \/ Skipped(writes[1].leg))
               \/ row'.oid = IF writes[1].leg.oid = None THEN row.oid ELSE writes[1].leg.oid
         \/ /\ writes # <<>> /\ writes' = Tail(writes) /\ row'.oid = row.oid
            /\ Fault("db") \/ writes[1].at = "rollup"
         \/ Crash
<1>1. CASE WriteLeg \/ LegFails
  BY <1>1, WritesLeg
<1>2. CASE WriteStage \/ StageFails
  BY <1>2 DEF WriteStage, StageFails, Due, Mishap, orders, tables
<1>3. CASE WriteNoLeg
  BY <1>3 DEF WriteNoLeg, Due, tables
<1>4. CASE Rollup
  BY <1>4 DEF Rollup, Due
<1>5. CASE UNCHANGED writes /\ ~(WriteLeg \/ LegFails)
  BY <1>5, RowNames
<1>6. QED BY <1>1, <1>2, <1>3, <1>4, <1>5, Frame DEF Write

LEMMA LegsStep ==
  ASSUME Types, Orders, Legs, Counted, Next
  PROVE  Legs'
<1>0. /\ Lasting /\ Placed \subseteq Placed' /\ Over \subseteq Over'
      /\ row.oid \in {None} \union Placed
      /\ \A i \in 1 .. Len(writes) : writes[i].leg.oid \in {None} \union Placed
      /\ Len(writes) \in Nat
  <2>1. Len(writes) \in Nat
    BY Ranges
  <2>2. row.oid \in {None} \union Placed
    BY DEF Counted
  <2>3. \A i \in 1 .. Len(writes) : writes[i].leg.oid \in {None} \union Placed
    BY DEF Legs, Names
  <2>4. QED BY <2>1, <2>2, <2>3, Lasts, Monotone
<1>1. ASSUME NEW i \in 1 .. Len(writes)
      PROVE  /\ Names(writes[i].leg, Placed') /\ Yields(row.oid, writes[i].leg, Over')
             /\ \A h \in 1 .. i - 1 : Yields(writes[h].leg.oid, writes[i].leg, Over')
             /\ i > 1 => writes[i].at = "stage"
  BY <1>0, Keeps DEF Legs
<1>2. CASE Push
  <2>1. PICK leg \in Leg \union {NoLeg} :
          /\ writes' = Append(writes, [at |-> "stage", leg |-> leg])
          /\ Names(leg, Placed') /\ \A id \in Placed : Yields(id, leg, Over')
          /\ UNCHANGED row
    BY <1>0, <1>2, PushesOver
  <2> DEFINE w == [at |-> "stage", leg |-> leg]
             n == Len(writes) + 1
  <2>2. w \in Write1 /\ w.at = "stage" /\ w.leg = leg
    BY DEF Write1
  <2> HIDE DEF w
  <2>3. /\ Len(writes') = n /\ writes'[n] = w /\ n \in Nat
        /\ \A i \in 1 .. Len(writes) : writes'[i] = writes[i]
    BY <2>1, <2>2, Appends DEF w
  <2>4. Yields(None, leg, Over')
    BY DEF Yields
  <2>5. ASSUME NEW i \in 1 .. n
        PROVE  /\ Names(writes'[i].leg, Placed') /\ Yields(row'.oid, writes'[i].leg, Over')
               /\ \A h \in 1 .. i - 1 : Yields(writes'[h].leg.oid, writes'[i].leg, Over')
               /\ i > 1 => writes'[i].at = "stage"
    <3>1. CASE i \in 1 .. Len(writes)
      BY <1>0, <1>1, <2>1, <2>3, <3>1
    <3>2. CASE i = n
      <4>1. \A h \in 1 .. i - 1 : writes'[h] = writes[h] /\ writes[h].leg.oid \in {None} \union Placed
        BY <1>0, <2>3, <3>2
      <4>2. QED BY <1>0, <2>1, <2>2, <2>3, <2>4, <3>2, <4>1
    <3>3. QED BY <1>0, <3>1, <3>2
  <2>6. QED BY <2>3, <2>5 DEF Legs
<1>3. CASE UNCHANGED writes /\ row'.oid = row.oid
  BY <1>1, <1>3 DEF Legs
<1>4. ASSUME writes # <<>>, NEW at \in {"leg", "rollup"}, Advance(at),
             row'.oid \in {row.oid, writes[1].leg.oid}
      PROVE  Legs'
  <2>1. /\ Len(writes') = Len(writes)
        /\ \A i \in 1 .. Len(writes) : writes'[i].leg = writes[i].leg
        /\ \A i \in 2 .. Len(writes) : writes'[i] = writes[i]
    BY <1>4, Advances
  <2>2. \A i \in 1 .. Len(writes) : Yields(writes[1].leg.oid, writes[i].leg, Over')
    <3>1. Yields(writes[1].leg.oid, writes[1].leg, Over')
      BY DEF Yields
    <3>2. \A i \in 1 .. Len(writes) : i = 1 \/ 1 \in 1 .. i - 1
      BY <1>0
    <3>3. QED BY <1>1, <3>1, <3>2
  <2>3. ASSUME NEW i \in 1 .. Len(writes)
        PROVE  /\ Names(writes'[i].leg, Placed') /\ Yields(row'.oid, writes'[i].leg, Over')
               /\ \A h \in 1 .. i - 1 : Yields(writes'[h].leg.oid, writes'[i].leg, Over')
               /\ i > 1 => writes'[i].at = "stage"
    <3>1. \A h \in 1 .. i - 1 : h \in 1 .. Len(writes)
      BY <1>0
    <3>2. i > 1 => i \in 2 .. Len(writes)
      BY <1>0
    <3>3. QED BY <1>1, <1>4, <2>1, <2>2, <3>1, <3>2
  <2>4. QED BY <2>1, <2>3 DEF Legs
<1>5. ASSUME writes # <<>>, writes' = Tail(writes), row'.oid = row.oid
      PROVE  Legs'
  <2>1. /\ Len(writes') = Len(writes) - 1
        /\ \A i \in 1 .. Len(writes') : writes'[i] = writes[i + 1]
    BY <1>5, Drops
  <2>2. ASSUME NEW i \in 1 .. Len(writes')
        PROVE  /\ Names(writes'[i].leg, Placed') /\ Yields(row'.oid, writes'[i].leg, Over')
               /\ \A h \in 1 .. i - 1 : Yields(writes'[h].leg.oid, writes'[i].leg, Over')
               /\ i > 1 => writes'[i].at = "stage"
    <3>1. /\ i + 1 \in 1 .. Len(writes) /\ i + 1 > 1
          /\ \A h \in 1 .. i - 1 : h \in 1 .. Len(writes') /\ h + 1 \in 1 .. (i + 1) - 1
      BY <1>0, <2>1
    <3>2. QED BY <1>1, <1>5, <2>1, <3>1
  <2>3. QED BY <2>2 DEF Legs
<1>6. CASE Crash
  BY <1>6 DEF Crash, Legs
<1>7. QED BY <1>2, <1>3, <1>4, <1>5, <1>6, Tasks
-----------------------------------------------------------------------------
(* The numbers the writers of the row hold. *)

LEMMA RowCounted ==
  ASSUME Types, Legs, Counted, Next
  PROVE  /\ row'.oid = None => row'.qty = 0
         /\ row'.oid # None => row'.oid \in Placed /\ row'.qty <= ord[row'.oid].filled
<1>0. /\ \A id \in Id : ord[id].filled \in Nat /\ early[id] \in Nat
      /\ \A id \in Over : ord[id].filled = 0
      /\ row.oid \in Id \union {None} /\ row.qty \in Nat /\ Placed \subseteq Id
  BY Ranges DEF Over, Placed
<1>1. CASE UNCHANGED row
  BY <1>1 DEF Counted
<1>2. CASE RecordFill
  <2>1. 1 \in 1 .. Len(events)
    BY <1>2, Ranges DEF RecordFill
  <2>2. events[1].filled <= ord[events[1].oid].filled
    BY <2>1 DEF Counted
  <2>3. CASE UNCHANGED row
    BY <2>3 DEF Counted
  <2>4. CASE /\ row.oid = events[1].oid /\ row'.oid = row.oid /\ row.oid # None
             /\ row'.qty \in {row.qty, events[1].filled}
    BY <2>2, <2>4 DEF Counted
  <2>5. QED BY <1>2, <2>3, <2>4, FillsRow
<1>3. CASE SweepSettles
  <2> DEFINE r == sweep.read
             f == ord[r.oid].filled
  <2>1. /\ r.oid \in Id /\ r.qty <= f /\ (row.oid = r.oid \/ r.oid \in Over) /\ f \in Nat
        /\ r.oid \in Placed
    BY <1>0, <1>3, SweepsRow DEF Counted
  <2>2. CASE UNCHANGED row \/ row' = [row EXCEPT !.st = "skipped"]
    <3>1. row'.oid = row.oid /\ row'.qty = row.qty
      BY <2>2 DEF Types, Tables, Row, NoRow
    <3>2. QED BY <3>1 DEF Counted
  <2>3. CASE f > 0 /\ row'.oid = row.oid /\ row'.qty \in {r.qty, f}
    <3>1. row.oid = r.oid
      BY <1>0, <2>1, <2>3
    <3>2. QED BY <2>1, <2>3, <3>1
  <2>4. QED BY <1>3, <2>2, <2>3, SweepsRow
<1>4. CASE WriteLeg \/ LegFails
  <2> DEFINE leg == writes[1].leg
  <2>1. /\ leg \in Leg /\ 1 \in 1 .. Len(writes)
    BY <1>4, WritesLeg, Ranges
  <2>2. Names(leg, Placed) /\ Yields(row.oid, leg, Over) /\ leg # NoLeg /\ leg.oid \in Id \union {None}
    BY <2>1 DEF Legs, Leg, NoLeg
  <2>3. CASE leg.oid = None /\ row'.oid = row.oid /\ row'.qty = row.qty
    BY <2>3 DEF Counted
  <2>4. CASE leg.oid # None /\ row'.oid = leg.oid /\ row'.qty = row.qty
    <3>1. row.oid \in {None, leg.oid} \union Over
      BY <2>2 DEF Yields
    <3>2. leg.oid \in Placed /\ leg.oid \in Id
      BY <2>2, <2>4 DEF Names
    <3>3. row.oid = leg.oid \/ row.qty = 0
      BY <1>0, <3>1 DEF Counted
    <3>4. row.oid = leg.oid => row.qty <= ord[leg.oid].filled
      BY <2>4 DEF Counted
    <3>5. ord[leg.oid].filled \in Nat
      BY <1>0, <3>2
    <3>6. row.qty <= ord[leg.oid].filled
      BY <3>3, <3>4, <3>5
    <3>7. QED BY <2>4, <3>2, <3>6
  <2>5. CASE leg.oid # None /\ row'.oid = leg.oid /\ row'.qty = early[leg.oid]
    BY <1>0, <2>2, <2>5 DEF Counted, Names
  <2>6. CASE UNCHANGED row
    BY <1>1, <2>6
  <2>7. QED BY <1>4, <2>3, <2>4, <2>5, <2>6, WritesLeg DEF Parked
<1>5. QED BY <1>1, <1>2, <1>3, <1>4, RowNames

\* The order the row names is the same after a step, or is over.
LEMMA NamedLasts ==
  ASSUME Types, Legs, Counted, Next, NEW id \in Id, id \in {row.oid} \union Over
  PROVE  id \in {row'.oid} \union Over'
<1>1. Over \subseteq Over'
  BY Lasts, Monotone
<1>2. CASE row'.oid = row.oid
  BY <1>1, <1>2
<1>3. CASE (WriteLeg \/ LegFails) /\ row'.oid = writes[1].leg.oid /\ writes[1].leg.oid # None
  <2>1. 1 \in 1 .. Len(writes) /\ writes[1].leg \in Leg
    BY <1>3, WritesLeg, Ranges
  <2>2. row.oid \in {None, writes[1].leg.oid} \union Over
    BY <2>1 DEF Legs, Yields, Leg, NoLeg
  <2>3. QED BY <1>1, <1>3, <2>2
<1>4. QED BY <1>2, <1>3, RowNames

LEMMA StreamedStep ==
  ASSUME Types, Streamed, Next
  PROVE  Streamed'
<1>0. /\ Lasting /\ Placed \subseteq Placed' /\ Over \subseteq Over' /\ Placed \subseteq Id
      /\ \A id \in Id : ord[id].filled \in Nat /\ early[id] \in Nat /\ ord'[id].filled \in Nat
      /\ \A id \in Id : ord[id].filled <= ord'[id].filled
  <2>1. \A id \in Id : ord'[id].filled \in Nat
    BY ExchangeStep DEF Exchange, Order
  <2>2. QED BY <2>1, Lasts, Monotone, Ranges DEF Lasting
<1>1. \A id \in Id : early[id] <= ord'[id].filled
  <2>1. ASSUME NEW id \in Id
        PROVE  early[id] <= ord'[id].filled
    <3>1. /\ early[id] <= ord[id].filled /\ ord[id].filled <= ord'[id].filled
          /\ early[id] \in Nat /\ ord[id].filled \in Nat /\ ord'[id].filled \in Nat
      BY <1>0 DEF Streamed
    <3>2. QED BY <3>1
  <2>2. QED BY <2>1
<1>3. \A id \in Id : early'[id] <= ord'[id].filled
  <2>1. CASE UNCHANGED early
    BY <1>1, <2>1
  <2>2. CASE WriteLeg \/ LegFails
    <3>1. UNCHANGED early \/ early' = Taken(writes[1].leg)
      BY <2>2, WritesLeg
    <3>2. \A id \in Id : early'[id] \in {early[id], 0}
      BY <3>1 DEF Taken, Types, Streams
    <3>3. QED BY <1>0, <1>1, <3>2
  <2>3. CASE RecordFill
    <3>1. 1 \in 1 .. Len(events)
      BY <2>3, Ranges DEF RecordFill
    <3>2. events[1].filled <= ord[events[1].oid].filled
      BY <3>1 DEF Streamed
    <3>3. CASE /\ \A id \in Id \ {events[1].oid} : early'[id] = early[id]
               /\ early'[events[1].oid] \in {early[events[1].oid], events[1].filled}
      <4>1. \A id \in Id : early'[id] <= ord[id].filled
        BY <3>2, <3>3 DEF Streamed
      <4>2. ord' = ord
        BY <2>3, FillsRow
      <4>3. QED BY <4>1, <4>2
    <3>4. QED BY <2>1, <2>3, <3>3, FillsRow
  <2>4. CASE FillExpires \/ Crash
    <3>1. \A id \in Id : early'[id] \in {early[id], 0}
      BY <2>4 DEF FillExpires, Crash, Types, Streams
    <3>2. QED BY <1>0, <1>1, <3>1
  <2>5. QED BY <2>1, <2>2, <2>3, <2>4, Frame
<1>4. \A i \in 1 .. Len(events') : events'[i].filled <= ord'[events'[i].oid].filled
  <2>0. \A i \in 1 .. Len(events) : events[i].filled <= ord'[events[i].oid].filled
    <3>1. ASSUME NEW i \in 1 .. Len(events)
          PROVE  events[i].filled <= ord'[events[i].oid].filled
      <4>1. /\ events[i].oid \in Id /\ events[i].filled \in 1 .. Qty
            /\ events[i].filled <= ord[events[i].oid].filled
        BY Ranges DEF Streamed
      <4>2. /\ ord[events[i].oid].filled <= ord'[events[i].oid].filled
            /\ ord[events[i].oid].filled \in Nat /\ ord'[events[i].oid].filled \in Nat
        BY <1>0, <4>1
      <4>3. QED BY <4>1, <4>2
    <3>2. QED BY <3>1
  <2>1. CASE UNCHANGED events
    BY <2>0, <2>1
  <2>6. ASSUME NEW id \in Id, events' = Append(events, [oid |-> id, filled |-> ord'[id].filled])
        PROVE  \A i \in 1 .. Len(events') : events'[i].filled <= ord'[events'[i].oid].filled
    <3> DEFINE e == [oid |-> id, filled |-> ord'[id].filled]
    <3>1. e.oid = id /\ e.filled = ord'[id].filled
      OBVIOUS
    <3> HIDE DEF e
    <3>2. events' = Append(events, e)
      BY <2>6 DEF e
    <3>3. Len(events') = Len(events) + 1 /\ Len(events) \in Nat
      BY <3>2 DEF Types, Streams
    <3>4. \A i \in 1 .. Len(events') : events'[i] = IF i = Len(events) + 1 THEN e ELSE events[i]
      BY <3>2, <3>3 DEF Types, Streams
    <3>5. \A i \in 1 .. Len(events') : i = Len(events) + 1 \/ i \in 1 .. Len(events)
      BY <3>3
    <3>6. QED BY <1>0, <2>0, <3>1, <3>4, <3>5
  <2>2. CASE OrderFills
    <3>1. PICK id \in Id :
            \/ events' = Append(events, [oid |-> id, filled |-> ord'[id].filled])
            \/ UNCHANGED events
      BY <2>2, FillsOne
    <3>2. QED BY <2>1, <2>6, <3>1
  <2>7. CASE EscalateMarket
    <3>1. PICK id \in Id :
            \/ events' = Append(events, [oid |-> id, filled |-> ord'[id].filled])
            \/ UNCHANGED events
      BY <2>7, Markets
    <3>2. QED BY <2>1, <2>6, <3>1
  <2>3. CASE events # <<>> /\ events' = Tail(events)
    <3>1. /\ Len(events') = Len(events) - 1 /\ Len(events) \in Nat
          /\ \A i \in 1 .. Len(events') : events'[i] = events[i + 1]
      BY <2>3 DEF Types, Streams
    <3>2. \A i \in 1 .. Len(events') : i + 1 \in 1 .. Len(events)
      BY <3>1
    <3>3. QED BY <2>0, <3>1, <3>2
  <2>4. CASE events' = <<>>
    BY <2>4
  <2>5. QED BY <2>1, <2>2, <2>3, <2>4, <2>7, Frame DEF RecordFill, RecordFillFails, Crash
<1>5. QED BY <1>3, <1>4 DEF Streamed

\* What is known of the row's lots when a push meets an escalation half-way.
LEMMA BoundedStep ==
  ASSUME Types, Bounded, Next
  PROVE  Bounded'
<1>0. /\ Streamed' /\ \A id \in Id : ord[id].filled <= ord'[id].filled
      /\ \A id \in Id : ord[id].filled \in Nat /\ ord'[id].filled \in Nat
  <2>1. \A id \in Id : ord'[id].filled \in Nat
    BY ExchangeStep DEF Exchange, Order
  <2>2. QED BY <2>1, StreamedStep, Lasts, Ranges DEF Bounded, Lasting
<1>1. ASSUME NEW n \in Nat, Covered(n)
      PROVE  Covered(n)'
  <2>1. CASE n > 0
    <3>1. PICK id \in Id : n <= ord[id].filled
      BY <1>1, <2>1 DEF Covered
    <3>2. n <= ord'[id].filled
      BY <1>0, <3>1
    <3>3. QED BY <3>2 DEF Covered
  <2>2. CASE ~(n > 0)
    BY <2>2 DEF Covered
  <2>3. QED BY <2>1, <2>2
<1>2. ASSUME NEW n \in Nat, NEW id \in Id, n <= ord[id].filled
      PROVE  Covered(n)'
  BY <1>1, <1>2 DEF Covered
<1>3. row.qty \in Nat /\ Covered(row.qty) /\ (sweep # Idle => Covered(sweep.read.qty))
  BY Ranges DEF Bounded
<1>4. Covered(row.qty)'
  <2>1. CASE row'.qty = row.qty
    <3>1. Covered(row.qty)' <=> (row.qty > 0 => \E id \in Id : row.qty <= ord'[id].filled)
      BY <2>1 DEF Covered
    <3>2. row.qty > 0 => \E id \in Id : row.qty <= ord'[id].filled
      <4>1. ASSUME row.qty > 0
            PROVE  \E id \in Id : row.qty <= ord'[id].filled
        <5>1. PICK id \in Id : row.qty <= ord[id].filled
          BY <1>3, <4>1 DEF Covered
        <5>2. /\ ord[id].filled \in Nat /\ ord'[id].filled \in Nat
              /\ ord[id].filled <= ord'[id].filled
          BY <1>0, <5>1
        <5>3. row.qty <= ord'[id].filled
          BY <1>3, <5>1, <5>2
        <5>4. QED BY <5>3
      <4>2. QED BY <4>1
    <3>3. QED BY <3>1, <3>2
  <2>2. ASSUME NEW id \in Id, NEW n \in Nat, row'.qty = n, n <= ord[id].filled
        PROVE  Covered(row.qty)'
    <3>1. row'.qty <= ord'[id].filled
      BY <1>0, <2>2
    <3>2. QED BY <3>1 DEF Covered
  <2>3. CASE RecordFill
    <3>1. 1 \in 1 .. Len(events) /\ events[1].oid \in Id /\ events[1].filled \in 1 .. Qty
      BY <2>3, Ranges DEF RecordFill
    <3>2. events[1].filled <= ord[events[1].oid].filled
      BY <3>1 DEF Bounded, Streamed
    <3>3. row'.qty \in {row.qty, events[1].filled}
      BY <2>3, FillsRow
    <3>4. CASE row'.qty = events[1].filled
      <4>1. events[1].filled \in Nat
        BY <3>1
      <4>2. QED BY <2>2, <3>1, <3>2, <3>4, <4>1
    <3>5. QED BY <2>1, <3>3, <3>4
  <2>4. CASE SweepSettles
    <3> DEFINE r == sweep.read
               f == ord[r.oid].filled
    <3>1. /\ sweep # Idle /\ r.oid \in Id /\ r.qty \in 0 .. Qty /\ f \in Nat
      BY <1>0, <2>4, SweepsRow DEF Row
    <3>2. Covered(r.qty)
      BY <1>3, <3>1
    <3>3. row'.qty \in {row.qty, r.qty, f}
      <4>1. row' = [row EXCEPT !.st = "skipped"] => row'.qty = row.qty
        BY DEF Types, Tables, Row, NoRow
      <4>2. QED BY <2>4, <4>1, SweepsRow
    <3>4. CASE row'.qty = r.qty /\ r.qty > 0
      <4>1. PICK id \in Id : r.qty <= ord[id].filled
        BY <3>2, <3>4 DEF Covered
      <4>2. QED BY <2>2, <3>1, <3>4, <4>1
    <3>5. CASE row'.qty = r.qty /\ r.qty = 0
      BY <3>5 DEF Covered
    <3>6. CASE row'.qty = f
      <4>1. f <= f
        BY <3>1
      <4>2. QED BY <2>2, <3>1, <3>6, <4>1
    <3>7. QED BY <2>1, <3>1, <3>3, <3>4, <3>5, <3>6
  <2>5. CASE WriteLeg \/ LegFails
    <3> DEFINE leg == writes[1].leg
    <3>1. /\ leg \in Leg
          /\ \/ row'.qty = row.qty
             \/ Parked(leg) /\ row'.qty = early[leg.oid]
      BY <2>5, WritesLeg
    <3>2. leg.oid \in Id \union {None}
      BY <3>1 DEF Leg
    <3>3. Parked(leg) => early[leg.oid] \in 0 .. Qty /\ early[leg.oid] <= ord[leg.oid].filled
                         /\ leg.oid \in Id
      BY <3>2, Ranges DEF Parked, Bounded, Streamed
    <3>4. CASE Parked(leg) /\ row'.qty = early[leg.oid]
      <4>1. early[leg.oid] \in Nat
        BY <3>3, <3>4
      <4>2. QED BY <2>2, <3>3, <3>4, <4>1
    <3>5. QED BY <2>1, <3>1, <3>4
  <2>6. QED BY <2>1, <2>3, <2>4, <2>5, RowNames
<1>5. ASSUME sweep' # Idle
      PROVE  Covered(sweep.read.qty)'
  <2>1. CASE SweepReads
    <3>1. sweep'.read.qty = row.qty /\ row'.qty = row.qty
      BY <2>1 DEF SweepReads, tables
    <3>2. Covered(row.qty)'
      BY <1>4
    <3>3. QED BY <3>1, <3>2 DEF Covered
  <2>2. CASE UNCHANGED sweep
    <3>1. sweep.read.qty \in Nat /\ Covered(sweep.read.qty) /\ sweep'.read.qty = sweep.read.qty
      BY <1>3, <1>5, <2>2 DEF Types, Streams, Row
    <3>2. sweep.read.qty > 0 => \E id \in Id : sweep.read.qty <= ord'[id].filled
      <4>1. ASSUME sweep.read.qty > 0
            PROVE  \E id \in Id : sweep.read.qty <= ord'[id].filled
        <5>1. PICK id \in Id : sweep.read.qty <= ord[id].filled
          BY <3>1, <4>1 DEF Covered
        <5>2. /\ ord[id].filled \in Nat /\ ord'[id].filled \in Nat
              /\ ord[id].filled <= ord'[id].filled
          BY <1>0, <5>1
        <5>3. sweep.read.qty <= ord'[id].filled
          BY <3>1, <5>1, <5>2
        <5>4. QED BY <5>3
      <4>2. QED BY <4>1
    <3>3. QED BY <3>1, <3>2 DEF Covered
  <2>3. QED BY <1>5, <2>1, <2>2, Frame DEF Sweep, SweepSettles, SweepFails, Crash
<1>6. QED BY <1>0, <1>4, <1>5 DEF Bounded

LEMMA CountedStep ==
  ASSUME Types, Legs, Counted, Next
  PROVE  Counted'
<1>0. /\ Lasting /\ Placed \subseteq Placed' /\ Over \subseteq Over' /\ Placed \subseteq Id
      /\ \A id \in Id : ord[id].filled \in Nat /\ early[id] \in Nat /\ ord'[id].filled \in Nat
      /\ \A id \in Id : ord[id].filled <= ord'[id].filled
  <2>1. \A id \in Id : ord'[id].filled \in Nat
    BY ExchangeStep DEF Exchange, Order
  <2>2. QED BY <2>1, Lasts, Monotone, Ranges DEF Lasting
<1>1. row'.oid = None => row'.qty = 0
  BY RowCounted
<1>2. row'.oid # None => row'.oid \in Placed' /\ row'.qty <= ord'[row'.oid].filled
  <2>1. row'.oid # None => /\ row'.oid \in Placed /\ row'.qty <= ord[row'.oid].filled
    BY RowCounted
  <2>2. row'.qty \in Nat
    BY RowNames DEF Row, NoRow
  <2>3. ASSUME row'.oid # None
        PROVE  row'.qty <= ord'[row'.oid].filled
    <3>1. row'.oid \in Id /\ row'.qty <= ord[row'.oid].filled
      BY <1>0, <2>1, <2>3
    <3>2. /\ ord[row'.oid].filled <= ord'[row'.oid].filled
          /\ ord[row'.oid].filled \in Nat /\ ord'[row'.oid].filled \in Nat
      BY <1>0, <3>1
    <3>3. QED BY <2>2, <3>1, <3>2
  <2>4. QED BY <1>0, <2>1, <2>3
<1>3. Streamed'
  BY StreamedStep DEF Counted, Streamed
<1>5. ASSUME sweep' # Idle
      PROVE  /\ sweep'.read.oid \in Placed' /\ sweep'.read.qty <= ord'[sweep'.read.oid].filled
             /\ row'.oid = sweep'.read.oid \/ sweep'.read.oid \in Over'
  <2>1. CASE SweepReads
    <3>1. /\ sweep'.read = row /\ row.oid # None /\ UNCHANGED <<row, ord>>
      BY <2>1 DEF SweepReads, orders, tables
    <3>2. QED BY <1>0, <3>1 DEF Counted
  <2>2. CASE UNCHANGED sweep
    <3> DEFINE r == sweep.read
    <3>1. /\ r.oid \in Placed /\ r.qty <= ord[r.oid].filled /\ r.qty \in Nat
          /\ row.oid = r.oid \/ r.oid \in Over
      BY <1>5, <2>2 DEF Counted, Types, Streams, Row
    <3>2. r.oid \in Placed' /\ r.qty <= ord'[r.oid].filled
      <4>1. r.oid \in Id /\ r.oid \in Placed'
        BY <1>0, <3>1
      <4>2. /\ ord[r.oid].filled <= ord'[r.oid].filled
            /\ ord[r.oid].filled \in Nat /\ ord'[r.oid].filled \in Nat
        BY <1>0, <4>1
      <4>3. QED BY <3>1, <4>1, <4>2
    <3>3. row'.oid = r.oid \/ r.oid \in Over'
      BY <1>0, <3>1, NamedLasts
    <3>4. QED BY <2>2, <3>2, <3>3
  <2>3. QED BY <1>5, <2>1, <2>2, Frame DEF Sweep, SweepSettles, SweepFails, Crash
<1>6. QED BY <1>1, <1>2, <1>3, <1>5 DEF Counted, Streamed
-----------------------------------------------------------------------------
(* What the row knows of the size of its order, while no write is lost. *)

LEMMA ReadyLasts ==
  ASSUME Types, Legs, Counted, Sized, Next, ~Fault("db"), ~Fault("crash"),
         NEW id \in Id, NEW i \in 1 .. Len(writes) + 1,
         Ready(id, i, writes, row.oid, Over)
  PROVE  /\ (\A h \in 1 .. Len(writes) : writes'[h].leg = writes[h].leg) =>
              Ready(id, i, writes', row'.oid, Over')
         /\ writes # <<>> /\ writes' = Tail(writes) =>
              Ready(id, i - 1, writes', row'.oid, Over')
<1>0. Len(writes) \in Nat
  BY Ranges
<1>1. CASE id \in {row.oid} \union Over
  BY <1>1, NamedLasts DEF Ready
<1>2. CASE \E h \in 1 .. i - 1 : writes[h].leg.oid = id /\ writes[h].leg.req = Qty
  <2>1. PICK h \in 1 .. i - 1 : writes[h].leg.oid = id /\ writes[h].leg.req = Qty
    BY <1>2
  <2>2. h \in 1 .. Len(writes)
    BY <1>0
  <2>3. ASSUME writes # <<>>, writes' = Tail(writes)
        PROVE  Ready(id, i - 1, writes', row'.oid, Over')
    <3>1. /\ Len(writes') = Len(writes) - 1
          /\ \A k \in 1 .. Len(writes') : writes'[k] = writes[k + 1]
      BY <2>3, Drops
    <3>2. CASE h = 1
      <4>1. writes[1].at = "rollup"
        <5>1. ~Push /\ ~Crash /\ writes' # writes
          <6>1. Push => Len(writes') = Len(writes) + 1
            BY Pushes, Appends DEF Write1
          <6>2. QED BY <1>0, <3>1, <6>1 DEF Crash, Mishap
        <5>2. ASSUME NEW at \in {"leg", "rollup"}, Advance(at)
              PROVE  FALSE
          <6>1. Len(writes') = Len(writes)
            BY <2>3, <5>2, Advances
          <6>2. QED BY <1>0, <3>1, <6>1
        <5>3. QED BY <5>1, <5>2, Tasks
      <4>2. id \in {row.oid} \union Over
        BY <2>1, <2>3, <3>2, <4>1 DEF Sized
      <4>3. QED BY <4>2, NamedLasts DEF Ready
    <3>3. CASE h > 1
      <4>1. h - 1 \in 1 .. (i - 1) - 1 /\ h - 1 \in 1 .. Len(writes') /\ (h - 1) + 1 = h
        BY <1>0, <2>2, <3>1, <3>3
      <4>2. writes'[h - 1] = writes[h]
        BY <3>1, <4>1
      <4>3. QED BY <2>1, <4>1, <4>2 DEF Ready
    <3>4. QED BY <3>2, <3>3
  <2>4. QED BY <2>1, <2>2, <2>3 DEF Ready
<1>3. QED BY <1>1, <1>2 DEF Ready

LEMMA SizedStep ==
  ASSUME Types, Orders, Withdrawn, ~Tangled, Legs, Counted, Sized, Next, Kept
  PROVE  Sized'
<1>0. /\ ~Fault("db") /\ ~Fault("crash") /\ ~Crash /\ ~LegFails /\ ~StageFails
      /\ Over \subseteq Over'
      /\ \A id \in Id : /\ ord[id].filled \in 0 .. Qty /\ ord'[id].filled \in 0 .. Qty
                        /\ early[id] \in 0 .. Qty
                        /\ early[id] <= ord[id].filled /\ ord[id].filled <= ord'[id].filled
      /\ \A id \in Over : ord[id].filled = 0
      /\ row.oid \in Id \union {None} /\ Len(writes) \in Nat /\ Placed \subseteq Id
  <2>1. ~Fault("db") /\ ~Fault("crash")
    BY DEF Kept, Fault
  <2>2. ~Crash /\ ~LegFails /\ ~StageFails
    BY <2>1 DEF Crash, LegFails, StageFails, Mishap
  <2>3. /\ Over \subseteq Over' /\ Placed \subseteq Id
        /\ \A id \in Id : ord[id].filled <= ord'[id].filled
    BY Lasts, Monotone DEF Lasting
  <2>4. \A id \in Id : ord'[id].filled \in 0 .. Qty
    BY ExchangeStep DEF Exchange, Order
  <2>5. \A id \in Id : ord[id].filled \in 0 .. Qty /\ early[id] \in 0 .. Qty
    BY Ranges
  <2>6. \A id \in Id : early[id] <= ord[id].filled
    BY DEF Counted
  <2>7. \A id \in Over : ord[id].filled = 0
    BY DEF Over
  <2>8. row.oid \in Id \union {None} /\ Len(writes) \in Nat
    BY Ranges
  <2>9. QED BY <2>1, <2>2, <2>3, <2>4, <2>5, <2>6, <2>7, <2>8
<1> DEFINE leg == writes[1].leg
<1>1. ASSUME WriteLeg
      PROVE  /\ leg \in Leg /\ 1 \in 1 .. Len(writes) /\ leg.oid \in Id \union {None}
             /\ writes[1].at = "leg" /\ Advance("rollup") /\ writes # <<>>
             /\ leg.oid = None <=> leg.st # "pending"
             /\ leg.oid # None => leg.req \in {Null, Qty} /\ (leg.req = Null => leg.oid \in {row.oid} \union Over)
             /\ leg.oid = None => row.oid \in {None} \union Over
             /\ early' = Taken(leg)
             /\ row'.oid = IF leg.oid = None THEN row.oid ELSE leg.oid
             /\ row'.req = IF leg.req = Null THEN row.req ELSE leg.req
             /\ \/ row'.qty = row.qty /\ row'.st = leg.st /\ ~Parked(leg)
                \/ /\ Parked(leg) /\ row'.qty = early[leg.oid] /\ row'.st \in {"partial", "filled"}
                   /\ row'.st = "partial" <=> (leg.req # Null /\ row'.qty < leg.req)
  <2>1. /\ leg \in Leg /\ 1 \in 1 .. Len(writes) /\ writes # <<>>
        /\ writes[1].at = "leg" /\ Advance("rollup")
    BY <1>1, WritesLeg, Ranges
  <2>2. Names(leg, Placed) /\ Yields(row.oid, leg, Over) /\ leg # NoLeg
    BY <2>1 DEF Legs, Leg, NoLeg
  <2>3. leg.oid # None /\ leg.req = Null => Ready(leg.oid, 1, writes, row.oid, Over)
    BY <2>1 DEF Sized
  <2>4. leg.oid # None => leg.req \in {Null, Qty} /\ (leg.req = Null => leg.oid \in {row.oid} \union Over)
    BY <2>2, <2>3 DEF Names, Ready
  <2>5. /\ early' = Taken(leg)
        /\ row'.oid = IF leg.oid = None THEN row.oid ELSE leg.oid
        /\ row'.req = IF leg.req = Null THEN row.req ELSE leg.req
        /\ \/ row'.qty = row.qty /\ row'.st = leg.st /\ ~Parked(leg)
           \/ /\ Parked(leg) /\ row'.qty = early[leg.oid] /\ row'.st \in {"partial", "filled"}
              /\ row'.st = "partial" <=> (leg.req # Null /\ row'.qty < leg.req)
    BY <1>0, <1>1, WritesLeg
  <2>6. leg.oid \in Id \union {None} /\ (leg.oid = None <=> leg.st # "pending")
    BY <2>1, <2>2 DEF Leg, Names
  <2>7. leg.oid = None => row.oid \in {None} \union Over
    BY <2>2 DEF Yields
  <2>8. QED BY <2>1, <2>4, <2>5, <2>6, <2>7
<1>2. row'.oid # None => early'[row'.oid] = 0 /\ (row'.req = Qty \/ row'.oid \in Over')
  <2>1. CASE WriteLeg
    <3>1. CASE leg.oid = None
      BY <1>0, <1>1, <2>1, <3>1 DEF Taken, Sized
    <3>2. CASE leg.oid # None
      <4>1. early'[leg.oid] = 0 /\ leg.oid \in Id /\ row'.oid = leg.oid
        BY <1>1, <2>1, <3>2 DEF Taken, Types, Streams
      <4>2. row'.req = Qty \/ leg.oid \in Over'
        BY <1>0, <1>1, <2>1, <3>2 DEF Sized
      <4>3. QED BY <4>1, <4>2
    <3>3. QED BY <3>1, <3>2
  <2>2. ASSUME row'.oid = row.oid, row'.req = row.req,
               row.oid # None => early'[row.oid] \in {early[row.oid], 0}
        PROVE  row'.oid # None => early'[row'.oid] = 0 /\ (row'.req = Qty \/ row'.oid \in Over')
    BY <1>0, <2>2 DEF Sized
  <2>3. CASE RecordFill
    BY <1>0, <2>2, <2>3, FillsRow
  <2>4. CASE SweepSettles
    <3>1. row'.oid = row.oid /\ row'.req = row.req /\ UNCHANGED early
      BY <2>4, SweepsRow DEF Types, Tables, Row, NoRow
    <3>2. QED BY <2>2, <3>1
  <2>5. CASE UNCHANGED row /\ (UNCHANGED early \/ FillExpires)
    BY <1>0, <2>2, <2>5 DEF FillExpires, Types, Streams
  <2>6. QED BY <1>0, <2>1, <2>3, <2>4, <2>5, Frame
<1>3. sweep' # Idle => sweep'.read.req = Qty \/ sweep'.read.oid \in Over'
  <2>1. CASE SweepReads
    BY <1>0, <2>1 DEF SweepReads, Sized
  <2>2. CASE UNCHANGED sweep
    BY <1>0, <2>2 DEF Sized
  <2>3. QED BY <1>0, <2>1, <2>2, Frame DEF Sweep, SweepSettles, SweepFails
<1>4. row'.st = "filled" => row'.oid # None /\ ord'[row'.oid].filled = Qty
  <2>0. ASSUME NEW id \in Id, ord[id].filled >= Qty
        PROVE  ord'[id].filled = Qty
    BY <1>0, <2>0
  <2>1. CASE UNCHANGED row
    <3>1. row.st = "filled" => row.oid \in Id /\ ord[row.oid].filled >= Qty
      BY <1>0 DEF Sized
    <3>2. QED BY <2>0, <2>1, <3>1
  <2>2. CASE WriteLeg
    <3>1. CASE Parked(leg)
      <4>1. leg.oid \in Id /\ early[leg.oid] > 0 /\ row'.qty = early[leg.oid]
        BY <1>1, <2>2, <3>1 DEF Parked
      <4>2. leg.oid \notin Over
        BY <1>0, <4>1
      <4>3. leg.oid = row.oid => early[leg.oid] = 0
        BY <4>1 DEF Sized
      <4>4. leg.req = Qty
        BY <1>1, <2>2, <4>1, <4>2, <4>3
      <4>5. /\ early[leg.oid] \in 0 .. Qty /\ ord[leg.oid].filled \in 0 .. Qty
            /\ early[leg.oid] <= ord[leg.oid].filled
        BY <1>0, <4>1
      <4>6. row'.st = "partial" <=> row'.qty < Qty
        BY <1>1, <2>2, <3>1, <4>4 DEF Null
      <4>7. row'.st = "filled" => ord[leg.oid].filled >= Qty
        BY <4>1, <4>5, <4>6
      <4>8. QED BY <1>1, <2>0, <2>2, <3>1, <4>1, <4>7
    <3>2. CASE ~Parked(leg)
      BY <1>1, <2>2, <3>2 DEF Leg
    <3>3. QED BY <3>1, <3>2
  <2>3. CASE RecordFill
    <3> DEFINE e == events[1]
    <3>1. e.oid \in Id /\ e.filled \in 1 .. Qty /\ e.filled <= ord[e.oid].filled
      <4>1. 1 \in 1 .. Len(events)
        BY <2>3, Ranges DEF RecordFill
      <4>2. QED BY <2>3, <4>1, FillsRow DEF Counted
    <3>2. CASE /\ row.oid = e.oid /\ row'.oid = row.oid /\ row'.qty \in {row.qty, e.filled}
               /\ row'.st = "partial" <=> (row.req # Null /\ row'.qty < row.req)
      <4>1. row.qty <= ord[e.oid].filled /\ row.qty \in 0 .. Qty
        BY <3>1, <3>2, Ranges DEF Counted
      <4>2. row.req = Qty
        BY <1>0, <3>1, <3>2 DEF Sized
      <4>3. row'.st = "filled" => ord[e.oid].filled >= Qty
        BY <1>0, <3>1, <3>2, <4>1, <4>2 DEF Null
      <4>4. QED BY <2>0, <3>1, <3>2, <4>3
    <3>3. QED BY <2>1, <2>3, <3>2, FillsRow
  <2>4. CASE SweepSettles
    <3> DEFINE r == sweep.read
               f == ord[r.oid].filled
    <3>1. /\ r.oid \in Id /\ r.qty <= f /\ (row.oid = r.oid \/ r.oid \in Over)
          /\ r.req = Qty \/ r.oid \in Over
          /\ r.qty \in 0 .. Qty /\ f \in 0 .. Qty
      BY <1>0, <2>4, SweepsRow DEF Counted, Sized, Row
    <3>2. CASE row' = [row EXCEPT !.st = "skipped"]
      BY <3>2 DEF Types, Tables, Row, NoRow
    <3>3. CASE /\ f > 0 /\ row'.oid = row.oid /\ row'.qty \in {r.qty, f}
               /\ row'.st = "partial" <=> (r.req # Null /\ row'.qty < r.req)
      <4>1. r.oid \notin Over
        BY <1>0, <3>1, <3>3
      <4>2. row.oid = r.oid /\ r.req = Qty
        BY <3>1, <4>1
      <4>3. row'.st = "filled" => f >= Qty
        BY <3>1, <3>3, <4>2 DEF Null
      <4>4. QED BY <2>0, <3>1, <3>3, <4>2, <4>3
    <3>4. QED BY <2>1, <2>4, <3>2, <3>3, SweepsRow
  <2>5. QED BY <1>0, <2>1, <2>2, <2>3, <2>4, RowNames
<1>5. /\ Pushable' /\ mapped' # None => Ready(mapped', Len(writes') + 1, writes', row'.oid, Over')
      /\ \A i \in 1 .. Len(writes') :
           writes'[i].leg.oid # None /\ writes'[i].leg.req = Null =>
             Ready(writes'[i].leg.oid, i, writes', row'.oid, Over')
  <2>0. ASSUME NEW i \in 1 .. Len(writes), writes[i].leg.oid # None, writes[i].leg.req = Null
        PROVE  writes[i].leg.oid \in Id /\ Ready(writes[i].leg.oid, i, writes, row.oid, Over)
    BY <2>0, Ranges DEF Sized
  <2>1. CASE Push
    <3>1. PICK l \in Leg \union {NoLeg} :
            /\ writes' = Append(writes, [at |-> "stage", leg |-> l]) /\ Pushable
            /\ \/ l.oid = mapped' /\ l.req = Qty
               \/ l.oid = None /\ mapped' \in {None, mapped}
               \/ l.oid = mapped /\ mapped' = mapped
      BY <2>1, PushesOver, Lasts
    <3> DEFINE w == [at |-> "stage", leg |-> l]
               n == Len(writes) + 1
    <3>2. w \in Write1 /\ w.leg = l
      BY DEF Write1
    <3> HIDE DEF w
    <3>3. /\ Len(writes') = n /\ writes'[n].leg = l /\ n \in Nat
          /\ \A i \in 1 .. Len(writes) : writes'[i] = writes[i] /\ writes'[i].leg = writes[i].leg
      BY <3>1, <3>2, Appends DEF w
    <3>4. mapped # None => mapped \in Id /\ Ready(mapped, n, writes, row.oid, Over)
      BY <3>1 DEF Sized, Types, Exchange
    <3>5. mapped # None => Ready(mapped, n, writes', row'.oid, Over')
      BY <1>0, <3>3, <3>4, ReadyLasts
    <3>6. ASSUME NEW i \in 1 .. n, writes'[i].leg.oid # None, writes'[i].leg.req = Null
          PROVE  Ready(writes'[i].leg.oid, i, writes', row'.oid, Over')
      <4>1. CASE i \in 1 .. Len(writes)
        <5>1. i \in 1 .. n /\ writes'[i].leg = writes[i].leg
          BY <1>0, <3>3, <4>1
        <5>2. writes[i].leg.oid \in Id /\ Ready(writes[i].leg.oid, i, writes, row.oid, Over)
          BY <2>0, <3>6, <4>1, <5>1
        <5>3. QED BY <1>0, <3>3, <5>1, <5>2, ReadyLasts
      <4>2. CASE i = n
        BY <3>1, <3>3, <3>5, <3>6, <4>2 DEF Null
      <4>3. QED BY <1>0, <4>1, <4>2
    <3>7. ASSUME mapped' # None
          PROVE  Ready(mapped', n + 1, writes', row'.oid, Over')
      <4>1. CASE l.oid = mapped' /\ l.req = Qty
        <5>1. n \in 1 .. (n + 1) - 1
          BY <3>3
        <5>2. QED BY <3>3, <4>1, <5>1 DEF Ready
      <4>2. CASE mapped' = mapped
        <5>1. \A h \in 1 .. n - 1 : h \in 1 .. (n + 1) - 1
          BY <3>3
        <5>2. QED BY <3>5, <3>7, <4>2, <5>1 DEF Ready
      <4>3. QED BY <3>1, <3>7, <4>1, <4>2
    <3>8. QED BY <3>3, <3>6, <3>7
  <2>2. ASSUME ~Push
        PROVE  Pushable' => Pushable /\ (mapped' = mapped \/ mapped' = None)
    <3>1. CASE Escalate
      <4>1. esc.at = "marketed" => ~Pushable
        BY DEF Withdrawn, NoEsc
      <4>2. QED BY <3>1, <4>1, NoMorePushes, Escalates, Withdraws, Markets
    <3>2. CASE ~Escalate
      BY <2>2, <3>2, NoMorePushes, Frame DEF Push, OrderFills, MirrorCancelled, MasterOrderEnds
    <3>3. QED BY <3>1, <3>2
  <2>3. Pushable /\ mapped # None => mapped \in Id /\ Ready(mapped, Len(writes) + 1, writes, row.oid, Over)
    BY DEF Sized, Types, Exchange
  <2>4. CASE /\ ~Push /\ Len(writes') = Len(writes)
             /\ \A i \in 1 .. Len(writes) : writes'[i].leg = writes[i].leg
    <3>1. Pushable' /\ mapped' # None => Ready(mapped', Len(writes') + 1, writes', row'.oid, Over')
      <4>1. Len(writes) + 1 \in 1 .. Len(writes) + 1
        BY <1>0
      <4>2. QED BY <1>0, <2>2, <2>3, <2>4, <4>1, ReadyLasts
    <3>2. ASSUME NEW i \in 1 .. Len(writes), writes[i].leg.oid # None, writes[i].leg.req = Null
          PROVE  Ready(writes[i].leg.oid, i, writes', row'.oid, Over')
      <4>1. i \in 1 .. Len(writes) + 1
        BY <1>0
      <4>2. QED BY <1>0, <2>0, <2>4, <3>2, <4>1, ReadyLasts
    <3>3. QED BY <2>4, <3>1, <3>2
  <2>5. CASE ~Push /\ writes # <<>> /\ writes' = Tail(writes)
    <3>1. /\ Len(writes') = Len(writes) - 1 /\ (Len(writes) + 1) - 1 = Len(writes') + 1
          /\ \A i \in 1 .. Len(writes') : writes'[i] = writes[i + 1]
      BY <1>0, <2>5, Drops
    <3>2. Pushable' /\ mapped' # None => Ready(mapped', Len(writes') + 1, writes', row'.oid, Over')
      <4>1. Len(writes) + 1 \in 1 .. Len(writes) + 1
        BY <1>0
      <4>2. QED BY <1>0, <2>2, <2>3, <2>5, <3>1, <4>1, ReadyLasts
    <3>3. ASSUME NEW i \in 1 .. Len(writes'), writes'[i].leg.oid # None, writes'[i].leg.req = Null
          PROVE  Ready(writes'[i].leg.oid, i, writes', row'.oid, Over')
      <4>1. i + 1 \in 1 .. Len(writes) /\ i + 1 \in 1 .. Len(writes) + 1 /\ (i + 1) - 1 = i
        BY <1>0, <3>1
      <4>2. writes'[i] = writes[i + 1]
        BY <3>1
      <4>3. /\ writes[i + 1].leg.oid \in Id
            /\ Ready(writes[i + 1].leg.oid, i + 1, writes, row.oid, Over)
        BY <2>0, <3>3, <4>1, <4>2
      <4>4. Ready(writes[i + 1].leg.oid, (i + 1) - 1, writes', row'.oid, Over')
        BY <1>0, <2>5, <4>1, <4>3, ReadyLasts
      <4>5. QED BY <4>1, <4>2, <4>4
    <3>4. QED BY <3>2, <3>3
  <2>6. ASSUME writes # <<>>, NEW at \in {"leg", "rollup"}, Advance(at)
        PROVE  Len(writes') = Len(writes) /\ \A i \in 1 .. Len(writes) : writes'[i].leg = writes[i].leg
    BY <2>6, Advances
  <2>7. QED BY <1>0, <2>1, <2>4, <2>5, <2>6, Tasks
<1>6. writes' # <<>> /\ writes'[1].at = "rollup" /\ writes'[1].leg.oid # None
        /\ writes'[1].leg.req = Qty => writes'[1].leg.oid \in {row'.oid} \union Over'
  <2>0. ASSUME writes # <<>>
        PROVE  /\ 1 \in 1 .. Len(writes) /\ leg.oid \in Id \union {None}
               /\ writes[1].at = "rollup" /\ leg.oid # None /\ leg.req = Qty => leg.oid \in {row.oid} \union Over
    BY <2>0, Ranges DEF Sized, Types, Tables
  <2>1. ASSUME writes # <<>>, writes'[1].at = writes[1].at, writes'[1].leg = writes[1].leg
        PROVE  writes'[1].at = "rollup" /\ writes'[1].leg.oid # None
                 /\ writes'[1].leg.req = Qty => writes'[1].leg.oid \in {row'.oid} \union Over'
    BY <2>0, <2>1, NamedLasts
  <2>2. CASE UNCHANGED writes
    BY <2>1, <2>2
  <2>3. CASE Push
    <3>1. PICK l \in Leg \union {NoLeg} : writes' = Append(writes, [at |-> "stage", leg |-> l])
      BY <2>3, Pushes
    <3> DEFINE w == [at |-> "stage", leg |-> l]
    <3>2. w \in Write1 /\ w.at = "stage"
      BY DEF Write1
    <3> HIDE DEF w
    <3>3. /\ writes'[Len(writes')] = w /\ Len(writes') = Len(writes) + 1
          /\ \A i \in 1 .. Len(writes) : writes'[i] = writes[i]
      BY <3>1, <3>2, Appends DEF w
    <3>4. CASE writes = <<>>
      <4>1. writes'[1].at = "stage"
        BY <3>2, <3>3, <3>4
      <4>2. QED BY <4>1
    <3>5. CASE writes # <<>>
      <4>1. writes'[1] = writes[1]
        BY <2>0, <3>3, <3>5
      <4>2. QED BY <2>1, <3>5, <4>1
    <3>6. QED BY <3>4, <3>5
  <2>4. CASE writes # <<>> /\ Advance("leg")
    <3>1. writes'[1].at = "leg"
      BY <2>4, Advances
    <3>2. QED BY <3>1
  <2>5. CASE WriteLeg
    <3>1. writes'[1].leg = leg
      BY <1>1, <2>5, Advances
    <3>2. QED BY <1>1, <2>5, <3>1
  <2>6. CASE writes # <<>> /\ Advance("rollup") /\ Skipped(leg)
    <3>1. writes'[1].leg = leg
      BY <2>0, <2>6, Advances
    <3>2. leg = NoLeg \/ leg.once
      BY <2>6 DEF Skipped
    <3>3. leg.oid # None => leg.req = Null
      BY <2>0, <2>6, <3>2 DEF Legs, Names, NoLeg
    <3>4. QED BY <3>1, <3>3 DEF Null
  <2>7. CASE writes # <<>> /\ writes' = Tail(writes)
    <3>1. /\ Len(writes') = Len(writes) - 1
          /\ \A i \in 1 .. Len(writes') : writes'[i] = writes[i + 1]
      BY <2>7, Drops
    <3>2. ASSUME writes' # <<>>
          PROVE  writes'[1].at = "stage"
      <4>1. Len(writes') \in Nat \ {0}
        BY <2>7, <3>2, Drops
      <4>2. 2 \in 1 .. Len(writes) /\ 1 \in 1 .. Len(writes') /\ 2 > 1
        BY <1>0, <3>1, <4>1
      <4>3. writes[2].at = "stage" /\ writes'[1] = writes[2]
        BY <3>1, <4>2 DEF Legs
      <4>4. QED BY <4>3
    <3>3. QED BY <3>2
  <2>8. CASE WriteNoLeg
    BY <2>6, <2>8 DEF WriteNoLeg, Due
  <2>9. CASE WriteStage \/ Rollup
    BY <2>4, <2>7, <2>9 DEF WriteStage, Rollup, Due
  <2>10. QED BY <1>0, <2>2, <2>3, <2>5, <2>8, <2>9, Frame DEF Write
<1>7. QED BY <1>2, <1>3, <1>4, <1>5, <1>6 DEF Sized
-----------------------------------------------------------------------------
(* When nothing is disturbed. *)

LEMMA Calm ==
  ASSUME Next, Lone, faults = {}
  PROVE  /\ ~Crash /\ ~LegFails /\ ~StageFails /\ ~RecordFillFails /\ ~FillExpires
         /\ ~SweepFails /\ ~AlreadyMirrored /\ ~MirrorFinished /\ ~MirrorCancelled
         /\ ~Escalate /\ ~EscalateMarket
         /\ \A f : ~Fault(f)
<1>1. \A f : ~Fault(f)
  BY DEF Fault
<1>2. /\ ~Crash /\ ~LegFails /\ ~StageFails /\ ~RecordFillFails /\ ~FillExpires
      /\ ~SweepFails /\ ~AlreadyMirrored /\ ~MirrorFinished /\ ~MirrorCancelled
  BY <1>1 DEF Mishap, Crash, LegFails, StageFails, RecordFillFails, FillExpires, SweepFails,
              AlreadyMirrored, MirrorFinished, MirrorCancelled
<1>3. ~Escalate /\ ~EscalateMarket
  BY <1>1 DEF Lone, NoEsc, Escalate, EscalateCancel, EscalateMarket, EscalateRepoint,
              EscalateGivesUp
<1>4. QED BY <1>1, <1>2, <1>3

LEMMA FirstPush ==
  ASSUME Types, Orders, Counted, Lone, Push, Next, faults = {}
  PROVE  /\ MirrorPlaced \/ MirrorNotPlaced
         /\ Placed = {} /\ Over = {} /\ row.oid = None
<1>1. MirrorPlaced \/ MirrorNotPlaced
  BY Calm DEF Push
<1>2. Pushable /\ NeedsMirror
  BY <1>1 DEF MirrorPlaced, MirrorNotPlaced, Pushed
<1>3. Placed \subseteq Over /\ Over = {}
  BY <1>2, NeedsOver DEF Lone, Placed
<1>4. QED BY <1>1, <1>3 DEF Counted

LEMMA LoneStep ==
  ASSUME Types, Orders, Legs, Counted, Lone, Next, faults = {}
  PROVE  Lone'
<1>1. /\ esc' = NoEsc /\ \A a, b \in Placed' : a = b
      /\ Pushable' => Placed' \subseteq {mapped'} /\ Over' = {}
  <2>0. esc' = NoEsc /\ (Pushable' => Pushable)
    BY NoMorePushes, Calm, Frame DEF Lone
  <2>1. CASE UNCHANGED <<ord, mapped>>
    BY <2>0, <2>1 DEF Lone, Placed, Over
  <2>2. CASE MirrorPlaced
    <3>1. Placed = {}
      BY <2>2, FirstPush DEF Push
    <3>2. /\ \A k \in Id \ {mapped'} : ord'[k] = ord[k]
          /\ ord'[mapped'].st = "open" /\ mapped' \in Id
      BY <2>2, Places
    <3>3. \A k \in Id : ord[k].st = "none"
      BY <3>1 DEF Placed
    <3>4. QED BY <2>0, <3>2, <3>3 DEF Placed, Over
  <2>3. CASE MirrorNotPlaced
    <3>1. Placed = {} /\ Over = {} /\ UNCHANGED ord
      BY <2>3, FirstPush DEF Push, MirrorNotPlaced
    <3>2. QED BY <2>0, <3>1 DEF Placed, Over
  <2>4. CASE OrderFills
    <3>1. PICK id \in Id : /\ ord[id].st = "open" /\ ord'[id].st \in {"open", "closed"}
                           /\ \A k \in Id \ {id} : ord'[k] = ord[k]
      BY <2>4, FillsOne
    <3>2. Placed' = Placed /\ Over' = Over
      BY <3>1 DEF Placed, Over
    <3>3. UNCHANGED mapped
      BY <2>4 DEF OrderFills
    <3>4. QED BY <2>0, <3>2, <3>3 DEF Lone
  <2>5. CASE MasterOrderEnds
    <3>1. Pushable' => UNCHANGED <<ord, mapped>>
      BY <2>5, EndsMaster
    <3>2. Placed' = Placed
      <4>1. CASE UNCHANGED ord
        BY <4>1 DEF Placed
      <4>2. CASE mapped \in Id /\ ord[mapped].st = "open" /\ ord' = Cancel(mapped)
        BY <4>2, CancelsOne DEF Placed
      <4>3. QED BY <2>5, <4>1, <4>2, EndsMaster
    <3>3. Pushable' => Over' = Over
      BY <3>1 DEF Over
    <3>4. QED BY <2>0, <3>1, <3>2, <3>3 DEF Lone
  <2>6. QED BY <2>1, <2>2, <2>3, <2>4, <2>5, Calm, Frame
<1> DEFINE n == Len(writes)
<1>0. /\ n \in Nat /\ row.oid \in {None} \union Placed
      /\ \A i \in 1 .. n : writes[i].leg.oid \in {None} \union Placed
      /\ writes # <<>> => n > 0
  <2>1. n \in Nat /\ (writes # <<>> => n > 0)
    BY DEF Types, Tables
  <2>2. row.oid \in {None} \union Placed
    BY DEF Counted
  <2>3. \A i \in 1 .. Len(writes) : writes[i].leg.oid \in {None} \union Placed
    BY DEF Legs, Names
  <2>4. QED BY <2>1, <2>2, <2>3
<1>2. CASE Push
  <2>1. Placed = {} /\ row.oid = None
    BY <1>2, FirstPush
  <2>2. PICK l \in Leg \union {NoLeg} :
          writes' = Append(writes, [at |-> "stage", leg |-> l]) /\ UNCHANGED row
    BY <1>2, Pushes
  <2>3. /\ Len(writes') = n + 1
        /\ \A i \in 1 .. n : writes'[i] = writes[i]
    BY <2>2, Appends DEF Write1
  <2>4. \A i \in 1 .. Len(writes') : writes'[i].leg.oid # None => i = Len(writes')
    BY <1>0, <2>1, <2>3
  <2>5. QED BY <1>1, <2>1, <2>2, <2>4 DEF Lone
<1>3. CASE UNCHANGED writes /\ row'.oid = row.oid
  BY <1>1, <1>3 DEF Lone
<1>4. ASSUME writes # <<>>, NEW at \in {"leg", "rollup"}, Advance(at),
             row'.oid # None => n = 1 /\ at = "rollup"
      PROVE  Lone'
  <2>1. Len(writes') = n /\ writes'[1].at = at /\ \A i \in 1 .. n : writes'[i].leg = writes[i].leg
    BY <1>4, Advances
  <2>2. \A i \in 1 .. Len(writes') : writes'[i].leg.oid # None => i = Len(writes')
    BY <2>1 DEF Lone
  <2>3. QED BY <1>1, <1>4, <2>1, <2>2 DEF Lone
<1>5. CASE writes # <<>> /\ writes' = Tail(writes) /\ row'.oid = row.oid
  <2>1. /\ Len(writes') = n - 1 /\ writes' \in Seq(Write1)
        /\ \A i \in 1 .. Len(writes') : writes'[i] = writes[i + 1]
    BY <1>5, Drops
  <2>2. ASSUME NEW i \in 1 .. Len(writes'), writes'[i].leg.oid # None
        PROVE  i = Len(writes')
    <3>1. i + 1 \in 1 .. n /\ writes'[i] = writes[i + 1]
      BY <1>0, <2>1
    <3>2. i + 1 = n
      BY <2>2, <3>1 DEF Lone
    <3>3. QED BY <1>0, <2>1, <3>2
  <2>3. row'.oid # None => writes' = <<>>
    <3>1. row'.oid # None => n = 1
      BY <1>5 DEF Lone
    <3>2. QED BY <2>1, <3>1
  <2>4. QED BY <1>1, <2>2, <2>3 DEF Lone
<1>6. CASE /\ writes # <<>> /\ writes[1].at = "stage" /\ Advance("leg") /\ row'.oid = row.oid
  BY <1>4, <1>6 DEF Lone
<1>7. CASE /\ writes # <<>> /\ writes[1].at = "leg" /\ Advance("rollup")
           /\ row'.oid \in {row.oid, writes[1].leg.oid}
  <2>1. row.oid = None
    BY <1>7 DEF Lone
  <2>2. 1 \in 1 .. n
    BY <1>0, <1>7
  <2>3. writes[1].leg.oid # None => n = 1
    BY <2>2 DEF Lone
  <2>4. QED BY <1>4, <1>7, <2>1, <2>3
<1>8. QED BY <1>2, <1>3, <1>5, <1>6, <1>7, Calm, Tasks

\* A leg is the first to name an order, and knows its size unless the order is over.
LEMMA FirstLeg ==
  ASSUME Types, Legs, Counted, Sized, Lone, WriteLeg, faults = {}
  PROVE  LET leg == writes[1].leg IN
         /\ row.oid = None /\ row.qty = 0 /\ leg.oid \in Id \union {None}
         /\ leg.oid # None => leg.st = "pending" /\ leg.req \in {Qty, Null}
                              /\ (leg.req = Qty \/ leg.oid \in Over)
         /\ leg.oid = None => row'.oid = None
         /\ leg.oid # None => row'.oid = leg.oid
         /\ early' = Taken(leg)
         /\ leg.oid # None =>
              \/ row'.qty = 0 /\ row'.st = "pending" /\ early[leg.oid] = 0
              \/ /\ early[leg.oid] > 0 /\ row'.qty = early[leg.oid]
                 /\ row'.st \in {"partial", "filled"}
                 /\ row'.st = "partial" <=> (leg.req # Null /\ row'.qty < leg.req)
<1> DEFINE leg == writes[1].leg
<1>1. /\ writes[1].at = "leg" /\ leg \in Leg /\ writes # <<>> /\ ~Fault("db")
      /\ 1 \in 1 .. Len(writes)
  BY WritesLeg, Ranges DEF Fault
<1>2. row.oid = None /\ row.qty = 0
  BY <1>1 DEF Lone, Counted
<1>3. Names(leg, Placed) /\ leg.oid \in Id \union {None}
  BY <1>1 DEF Legs, Leg
<1>4. leg.oid # None /\ leg.req = Null => leg.oid \in Over
  <2>1. leg.oid # None /\ leg.req = Null => Ready(leg.oid, 1, writes, row.oid, Over)
    BY <1>1 DEF Sized
  <2>2. QED BY <1>2, <2>1 DEF Ready
<1>5. leg.oid # None => early[leg.oid] \in 0 .. Qty
  BY <1>3, Ranges
<1>6. /\ early' = Taken(leg)
      /\ row'.oid = IF leg.oid = None THEN row.oid ELSE leg.oid
      /\ \/ row'.qty = row.qty /\ row'.st = leg.st /\ ~Parked(leg)
         \/ /\ Parked(leg) /\ row'.qty = early[leg.oid] /\ row'.st \in {"partial", "filled"}
            /\ row'.st = "partial" <=> (leg.req # Null /\ row'.qty < leg.req)
  BY <1>1, WritesLeg
<1>7. leg.oid # None => leg.st = "pending" /\ leg.req \in {Qty, Null}
  BY <1>3 DEF Names
<1>8. QED BY <1>2, <1>3, <1>4, <1>5, <1>6, <1>7 DEF Parked

\* A settled row counts as whole exactly when its lots are all there are.
LEMMA Fits ==
  ASSUME NEW st \in {"partial", "filled"}, NEW qty \in 1 .. Qty,
         st = "partial" <=> qty < Qty
  PROVE  /\ st = "filled" <=> qty = Qty
         /\ st = "partial" <=> qty \in 1 .. Qty - 1
OBVIOUS

LEMMA StatusStep ==
  ASSUME Types, Legs, Counted, Sized, Lone, Complete, Next, faults = {}, row'.oid # None
  PROVE  /\ row'.st = "filled" <=> row'.qty = Qty
         /\ row'.st = "partial" <=> row'.qty \in 1 .. Qty - 1
<1>0. /\ \A id \in Id : /\ ord[id].filled \in 0 .. Qty /\ early[id] \in 0 .. Qty
                        /\ early[id] <= ord[id].filled
      /\ \A id \in Over : ord[id].filled = 0
      /\ row.oid \in Id \union {None} /\ Placed \subseteq Id
  BY Ranges DEF Counted, Over, Placed
<1>1. CASE UNCHANGED row
  BY <1>1 DEF Complete
<1>2. CASE WriteLeg
  <2> DEFINE leg == writes[1].leg
  <2>1. leg.oid \in Id /\ row'.oid = leg.oid /\ leg.oid # None
    BY <1>2, FirstLeg
  <2>2. CASE row'.qty = 0 /\ row'.st = "pending"
    BY <2>2
  <2>3. CASE /\ early[leg.oid] > 0 /\ row'.qty = early[leg.oid]
             /\ row'.st \in {"partial", "filled"}
             /\ row'.st = "partial" <=> (leg.req # Null /\ row'.qty < leg.req)
    <3>0. early[leg.oid] \in 0 .. Qty /\ early[leg.oid] <= ord[leg.oid].filled
      BY <1>0, <2>1
    <3>1. leg.oid \notin Over
      BY <1>0, <2>3, <3>0
    <3>2. leg.req = Qty
      BY <1>2, <2>1, <3>1, FirstLeg
    <3>3. row'.qty \in 1 .. Qty
      BY <2>3, <3>0
    <3>4. row'.st = "partial" <=> row'.qty < Qty
      BY <2>3, <3>2 DEF Null
    <3>5. QED BY <2>3, <3>3, <3>4, Fits
  <2>4. QED BY <1>2, <2>1, <2>2, <2>3, FirstLeg
<1>3. CASE RecordFill
  <2> DEFINE e == events[1]
  <2>1. e.oid \in Id /\ e.filled \in 1 .. Qty /\ e.filled <= ord[e.oid].filled
    <3>1. 1 \in 1 .. Len(events)
      BY <1>3, Ranges DEF RecordFill
    <3>2. QED BY <1>3, <3>1, FillsRow DEF Counted
  <2>2. CASE /\ row.oid = e.oid /\ row'.qty \in {row.qty, e.filled} /\ row'.qty >= e.filled
             /\ row'.st \in {"partial", "filled"}
             /\ row'.st = "partial" <=> (row.req # Null /\ row'.qty < row.req)
    <3>1. row.req = Qty
      BY <1>0, <2>1, <2>2 DEF Sized
    <3>2. row'.qty \in 1 .. Qty
      BY <2>1, <2>2, Ranges
    <3>3. row'.st = "partial" <=> row'.qty < Qty
      BY <2>2, <3>1 DEF Null
    <3>4. QED BY <2>2, <3>2, <3>3, Fits
  <2>3. QED BY <1>1, <1>3, <2>2, FillsRow
<1>4. CASE SweepSettles
  <2> DEFINE r == sweep.read
             f == ord[r.oid].filled
  <2>1. /\ r.oid \in Id /\ r.qty <= f /\ (row.oid = r.oid \/ r.oid \in Over)
        /\ r.req = Qty \/ r.oid \in Over
        /\ r.oid \in Placed /\ r.qty \in 0 .. Qty /\ f \in 0 .. Qty
    BY <1>0, <1>4, SweepsRow DEF Counted, Sized, Row
  <2>2. CASE f = 0 /\ row' = [row EXCEPT !.st = "skipped"]
    <3>1. row'.oid = row.oid /\ row'.qty = row.qty /\ row'.st = "skipped"
      BY <2>2 DEF Types, Tables, Row, NoRow
    <3>2. row.oid \in Placed /\ row.qty <= ord[row.oid].filled /\ row.qty \in 0 .. Qty
      BY <3>1, Ranges DEF Counted
    <3>3. row.oid = r.oid
      BY <2>1, <3>2 DEF Lone
    <3>4. QED BY <2>2, <3>1, <3>2, <3>3
  <2>3. CASE /\ f > 0 /\ row'.qty \in {r.qty, f} /\ row'.qty >= f
             /\ row'.st \in {"partial", "filled"}
             /\ row'.st = "partial" <=> (r.req # Null /\ row'.qty < r.req)
    <3>1. r.oid \notin Over
      BY <1>0, <2>1, <2>3
    <3>2. r.req = Qty
      BY <2>1, <3>1
    <3>3. row'.qty \in 1 .. Qty
      BY <2>1, <2>3
    <3>4. row'.st = "partial" <=> row'.qty < Qty
      BY <2>3, <3>2 DEF Null
    <3>5. QED BY <2>3, <3>3, <3>4, Fits
  <2>4. QED BY <1>1, <1>4, <2>2, <2>3, SweepsRow
<1>5. QED BY <1>1, <1>2, <1>3, <1>4, Calm, RowNames

\* A total that no order exceeds is not lost by a step.
LEMMA HeldStep ==
  ASSUME Types, Legs, Counted, Sized, Lone, Next, faults = {},
         NEW id \in Id, ord[id].filled > 0, ord'[id].filled = ord[id].filled,
         Held(id, ord[id].filled)
  PROVE  Held(id, ord[id].filled)'
<1> DEFINE f == ord[id].filled
<1>0. /\ f \in 1 .. Qty /\ early[id] \in 0 .. Qty /\ row.qty \in 0 .. Qty
      /\ row.oid = id => row.qty <= f
      /\ early[id] <= f
      /\ id # None
  <2>1. f \in 0 .. Qty /\ f > 0 /\ early[id] \in 0 .. Qty /\ row.qty \in 0 .. Qty
    BY Ranges
  <2>2. id # None
    OBVIOUS
  <2>3. /\ row.oid = id => row.qty <= f
        /\ early[id] <= f
    BY <2>2 DEF Counted
  <2>4. QED BY <2>1, <2>2, <2>3
<1>1. ASSUME row'.oid = row.oid, row'.qty = row.qty, UNCHANGED <<early, events>>
      PROVE  Held(id, f)'
  BY <1>1 DEF Held
<1>2. CASE RecordFill
  <2> DEFINE e == events[1]
  <2>1. 1 \in 1 .. Len(events) /\ Len(events) \in Nat /\ events # <<>> /\ events' = Tail(events)
    BY <1>2, Ranges DEF RecordFill
  <2>2. /\ Len(events') = Len(events) - 1
        /\ \A i \in 1 .. Len(events') : events'[i] = events[i + 1]
    BY <2>1 DEF Types, Streams
  <2>3. e.oid \in Id /\ e.filled \in 1 .. Qty /\ (e.oid = id => e.filled <= f)
    BY <1>2, <2>1, FillsRow DEF Counted
  <2>4. CASE \E i \in 2 .. Len(events) : events[i].oid = id /\ events[i].filled = f
    <3>1. PICK i \in 2 .. Len(events) : events[i].oid = id /\ events[i].filled = f
      BY <2>4
    <3>2. i - 1 \in 1 .. Len(events') /\ events'[i - 1] = events[i]
      BY <2>1, <2>2
    <3>3. QED BY <3>1, <3>2 DEF Held
  <2>5. CASE \/ row.oid = id /\ row.qty = f
             \/ early[id] = f
             \/ e.oid = id /\ e.filled = f
    <3>1. CASE /\ row.oid = e.oid /\ UNCHANGED early /\ row'.oid = row.oid
               /\ row'.qty \in {row.qty, e.filled} /\ row'.qty >= row.qty /\ row'.qty >= e.filled
      <4>1. CASE row.oid = id
        <5>1. row'.qty <= f /\ row'.qty \in 0 .. Qty
          BY <1>0, <2>3, <3>1, <4>1
        <5>2. CASE early[id] = f
          BY <3>1, <5>2 DEF Held
        <5>3. CASE row.qty = f \/ e.filled = f
          BY <1>0, <3>1, <4>1, <5>1, <5>3 DEF Held
        <5>4. QED BY <2>5, <5>2, <5>3
      <4>2. CASE row.oid # id
        BY <2>5, <3>1, <4>2 DEF Held
      <4>3. QED BY <4>1, <4>2
    <3>2. CASE /\ row.oid # e.oid /\ UNCHANGED row
               /\ \A k \in Id \ {e.oid} : early'[k] = early[k]
               /\ early'[e.oid] \in {early[e.oid], e.filled}
               /\ early'[e.oid] >= early[e.oid] /\ early'[e.oid] >= e.filled
      <4>1. CASE e.oid = id
        <5>1. early'[id] = f \/ (row.oid = id /\ row.qty = f)
          BY <1>0, <2>3, <2>5, <3>2, <4>1
        <5>2. QED BY <3>2, <5>1 DEF Held
      <4>2. CASE e.oid # id
        BY <2>5, <3>2, <4>2 DEF Held
      <4>3. QED BY <4>1, <4>2
    <3>3. QED BY <1>2, <3>1, <3>2, FillsRow
  <2>6. QED
    <3>1. \A i \in 1 .. Len(events) : i = 1 \/ i \in 2 .. Len(events)
      BY <2>1
    <3>2. QED BY <2>4, <2>5, <3>1 DEF Held
<1>3. CASE WriteLeg
  <2> DEFINE leg == writes[1].leg
  <2>1. /\ row.oid = None /\ early' = Taken(leg) /\ UNCHANGED events
        /\ leg.oid # None => leg.st = "pending" /\ row'.oid = leg.oid
    BY <1>3, FirstLeg DEF WriteLeg
  <2>2. CASE \E i \in 1 .. Len(events) : events[i].oid = id /\ events[i].filled = f
    BY <2>1, <2>2 DEF Held
  <2>3. CASE early[id] = f
    <3>1. CASE leg.oid = id
      <4>1. row'.oid = id /\ row'.qty = f
        BY <1>0, <1>3, <2>1, <2>3, <3>1, FirstLeg
      <4>2. QED BY <4>1 DEF Held
    <3>2. CASE leg.oid # id
      <4>1. early'[id] = early[id]
        BY <2>1, <3>2 DEF Taken, Types, Streams
      <4>2. QED BY <2>3, <4>1 DEF Held
    <3>3. QED BY <3>1, <3>2
  <2>4. QED BY <1>0, <2>1, <2>2, <2>3 DEF Held
<1>4. CASE SweepSettles
  <2> DEFINE r == sweep.read
             g == ord[r.oid].filled
  <2>1. /\ r.oid \in Id /\ r.qty <= g /\ (row.oid = r.oid \/ r.oid \in Over)
        /\ r.qty \in 0 .. Qty /\ g \in 0 .. Qty
    <3>1. r.oid \in Id /\ r.qty \in 0 .. Qty
      BY <1>4, SweepsRow DEF Row
    <3>2. QED BY <1>4, <3>1, SweepsRow, Ranges DEF Counted
  <2>2. UNCHANGED <<early, events>>
    BY <1>4, SweepsRow
  <2>3. CASE UNCHANGED row
    BY <1>1, <2>2, <2>3
  <2>4. CASE row' = [row EXCEPT !.st = "skipped"]
    <3>1. row'.oid = row.oid /\ row'.qty = row.qty
      BY <2>4 DEF Types, Tables, Row, NoRow
    <3>2. QED BY <1>1, <2>2, <3>1
  <2>5. CASE g > 0 /\ row'.oid = row.oid /\ row'.qty \in {r.qty, g} /\ row'.qty >= g
    <3>1. row.oid = r.oid
      BY <2>1, <2>5 DEF Over
    <3>2. row'.qty = g
      BY <2>1, <2>5
    <3>3. QED BY <2>2, <2>5, <3>1, <3>2 DEF Held
  <2>6. QED BY <1>4, <2>3, <2>4, <2>5, SweepsRow
<1>5. CASE OrderFills
  <2>1. UNCHANGED <<row, early>>
    BY <1>5 DEF OrderFills, tables
  <2>2. UNCHANGED events \/ \E x : events' = Append(events, x)
    BY <1>5 DEF OrderFills
  <2>3. /\ Len(events') >= Len(events) /\ Len(events) \in Nat /\ Len(events') \in Nat
        /\ \A i \in 1 .. Len(events) : events'[i] = events[i]
    BY <2>2 DEF Types, Streams
  <2>4. QED BY <2>1, <2>3 DEF Held
<1>6. QED BY <1>1, <1>2, <1>3, <1>4, <1>5, Calm, Frame

LEMMA CompleteStep ==
  ASSUME Types, Orders, Legs, Counted, Sized, Lone, Complete, Next, faults = {}
  PROVE  Complete'
<1>1. ASSUME NEW id \in Id, ord'[id].filled > 0
      PROVE  Held(id, ord[id].filled)'
  <2>1. CASE ord'[id].filled = ord[id].filled
    <3>1. Held(id, ord[id].filled)
      BY <1>1, <2>1 DEF Complete, Held
    <3>2. QED BY <1>1, <2>1, <3>1, HeldStep
  <2>2. CASE OrderFills
    <3>1. PICK k \in Id :
            /\ \A j \in Id \ {k} : ord'[j] = ord[j]
            /\ events' = Append(events, [oid |-> k, filled |-> ord'[k].filled])
      BY <2>2, FillsOne
    <3>2. CASE id # k
      BY <2>1, <3>1, <3>2
    <3>3. CASE id = k
      <4> DEFINE e == [oid |-> id, filled |-> ord'[id].filled]
      <4>1. e.oid = id /\ e.filled = ord'[id].filled /\ events' = Append(events, e)
        BY <3>1, <3>3
      <4> HIDE DEF e
      <4>2. Len(events') \in 1 .. Len(events') /\ events'[Len(events')] = e
        BY <4>1 DEF Types, Streams
      <4>3. QED BY <4>1, <4>2 DEF Held
    <3>4. QED BY <3>2, <3>3
  <2>3. CASE MirrorPlaced
    BY <1>1, <2>1, <2>3, Places
  <2>4. CASE MasterOrderEnds
    BY <2>1, <2>4, EndsMaster, CancelsOne
  <2>5. CASE UNCHANGED ord
    BY <2>1, <2>5
  <2>6. QED BY <2>2, <2>3, <2>4, <2>5, Calm, Frame DEF MirrorNotPlaced
<1>2. QED BY <1>1, StatusStep DEF Complete, Held
-----------------------------------------------------------------------------
(* The theorems. *)

LEMMA InitInv == Init => IInv
<1> SUFFICES ASSUME Init
             PROVE  IInv
  OBVIOUS
<1> USE DEF Init
<1>1. [st |-> "none", size |-> 0, filled |-> 0] \in Order
  BY DEF Order
<1>2. Exchange
  BY <1>1 DEF Exchange, Sound
<1>9. esc = NoEsc /\ esc.at = "none"
  BY DEF NoEsc
<1>3. Tables /\ Streams
  <2>1. writes \in Seq(Write1) /\ Len(writes) <= MaxWrites /\ events \in Seq(Fill)
    OBVIOUS
  <2>2. early \in [Id -> 0 .. Qty] /\ mishaps \in 0 .. MaxMishaps
    OBVIOUS
  <2>3. QED BY <2>1, <2>2 DEF Tables, Streams
<1>4. \A id \in Id : ord[id].st = "none" /\ ord[id].filled = 0 /\ early[id] = 0
  OBVIOUS
<1>5. Placed = {} /\ Over = {} /\ row.oid = None /\ row.qty = 0 /\ row.st = "absent"
  BY <1>4 DEF Placed, Over, NoRow
<1>6. Orders /\ Whole /\ Withdrawn /\ Legs /\ Counted /\ Lone /\ Bounded
  <2>1. Orders /\ Whole /\ Withdrawn
    BY <1>4, <1>5, <1>9 DEF Orders, Whole, Withdrawn
  <2>2. Legs /\ Counted /\ Lone
    BY <1>4, <1>5, <1>9 DEF Legs, Counted, Lone
  <2>3. Bounded
    BY <1>4, <1>5 DEF Bounded, Streamed, Covered
  <2>4. QED BY <2>1, <2>2, <2>3
<1>7. Sized /\ Complete
  BY <1>4, <1>5 DEF Sized, Complete
<1>8. QED BY <1>2, <1>3, <1>6, <1>7 DEF IInv, Types, Steady

LEMMA NextInv == IInv /\ [Next]_vars => IInv'
<1>1. CASE IInv /\ UNCHANGED vars
  <2> USE <1>1 DEF vars, orders, tables
  <2>1. Types' = Types /\ Placed' = Placed /\ Over' = Over
    BY DEF Types, Exchange, Tables, Streams, Placed, Over
  <2>10. Pushable' = Pushable /\ Tangled' = Tangled
    BY DEF Pushable, Tangled, Fault
  <2>2. Orders' = Orders /\ Whole' = Whole
    BY <2>1, <2>10 DEF Orders, Whole
  <2>11. Withdrawn' = Withdrawn
    BY <2>1, <2>10 DEF Withdrawn
  <2>12. Bounded' = Bounded
    BY DEF Bounded, Streamed, Covered
  <2>3. Legs' = Legs
    BY <2>1 DEF Legs
  <2>4. Counted' = Counted
    BY <2>1 DEF Counted
  <2>5. Sized' = Sized
    BY <2>1, <2>10 DEF Sized
  <2>6. Lone' = Lone
    BY <2>1, <2>10 DEF Lone
  <2>7. Complete' = Complete
    BY DEF Complete, Held
  <2>8. Kept' = Kept
    BY DEF Kept
  <2>13. Steady' = Steady
    BY <2>2, <2>3, <2>4, <2>11 DEF Steady
  <2>9. QED BY <2>1, <2>5, <2>6, <2>7, <2>8, <2>10, <2>12, <2>13 DEF IInv
<1>2. ASSUME IInv, Next
      PROVE  IInv'
  <2>1. UNCHANGED faults
    BY <1>2, Frame
  <2>2. Types /\ Types' /\ Bounded'
    BY <1>2, ExchangeStep, TablesStep, StreamsStep, BoundedStep DEF IInv, Types
  <2>6. (Tangled' <=> Tangled) /\ (Kept' <=> Kept)
    BY <2>1 DEF Tangled, Fault, Kept
  <2>7. ASSUME ~Tangled
        PROVE  Steady'
    <3>1. Orders /\ Whole /\ Withdrawn /\ Legs /\ Counted
      BY <1>2, <2>7 DEF IInv, Steady
    <3>2. Orders' /\ Whole' /\ Withdrawn'
      BY <1>2, <2>2, <2>7, <3>1, OrdersStep, WholeStep, WithdrawnStep
    <3>3. Legs' /\ Counted'
      BY <1>2, <2>2, <3>1, LegsStep, CountedStep
    <3>4. QED BY <3>2, <3>3 DEF Steady
  <2>3. ASSUME ~Tangled, Kept
        PROVE  Sized'
    BY <1>2, <2>2, <2>3, SizedStep DEF IInv, Steady
  <2>4. ASSUME faults' = {}
        PROVE  Lone' /\ Complete'
    <3>1. faults = {} /\ ~Tangled /\ Kept
      BY <2>1, <2>4 DEF Tangled, Fault, Kept
    <3>2. Steady /\ Sized /\ Lone /\ Complete
      BY <1>2, <3>1 DEF IInv
    <3>3. QED BY <1>2, <2>2, <3>1, <3>2, LoneStep, CompleteStep DEF Steady
  <2>5. QED BY <2>2, <2>3, <2>4, <2>6, <2>7 DEF IInv
<1>3. QED BY <1>1, <1>2

\* In every state the program reaches, each part holds under its disturbances.
THEOREM Invariance == Spec => []IInv
BY InitInv, NextInv, PTL DEF Spec

\* Every variable keeps its type, and no more pushes wait than were asked for.
THEOREM TypeCorrect == Spec => []TypeOK
BY Invariance, TypesSuffice, PTL DEF IInv

\* Whatever is lost, sent again, swept late or replaced, the record never has more lots
\* than one order of the follower filled (record_leg, record_follower_fill,
\* sweep_pending_legs).  Unless a push meets an escalation between its cancel and its
\* market order that is the order it names, and unless a write was lost too, a leg is
\* called filled only when that order filled whole and no other filled any.
THEOREM RecordNeverOverstates == Spec => []NeverOverstates
<1>1. ASSUME IInv
      PROVE  NeverOverstates
  <2>1. Bounded /\ row.oid \in Id \union {None} /\ Types
    BY <1>1, Ranges DEF IInv
  <2>2. row.qty > 0 => \E id \in Id : row.qty <= ord[id].filled
    BY <2>1 DEF Bounded, Covered
  <2>3. row.qty > 0 /\ ~Tangled => row.oid # None /\ row.qty <= ord[row.oid].filled
    BY <1>1 DEF IInv, Steady, Counted
  <2>4. ASSUME row.st = "filled", ~Tangled, faults \intersect {"db", "crash"} = {}, NEW id \in Id
        PROVE  ord[id].filled = IF id = row.oid THEN Qty ELSE 0
    <3>1. Sized /\ Whole
      BY <1>1, <2>4 DEF IInv, Kept, Steady
    <3>2. row.oid \in Id /\ ord[row.oid].filled = Qty
      BY <2>1, <2>4, <3>1 DEF Sized
    <3>3. QED BY <3>1, <3>2 DEF Whole
  <2>5. QED BY <2>2, <2>3, <2>4 DEF NeverOverstates
<1>2. QED BY <1>1, Invariance, PTL

\* Undisturbed, however the row, the fill events and the sweep meet: once the tasks and
\* events are done the row has the lots its order filled, and says whether that is all.
THEOREM RecordsTheFills == Spec => []RecordsWhatFilled
<1>1. ASSUME IInv
      PROVE  RecordsWhatFilled
  <2> SUFFICES ASSUME AtRest, row.oid # None, faults = {}
               PROVE  /\ row.qty = ord[row.oid].filled
                      /\ row.st = "filled" <=> ord[row.oid].filled = Qty
                      /\ row.st = "partial" <=> ord[row.oid].filled \in 1 .. Qty - 1
    BY DEF RecordsWhatFilled
  <2>0. ~Tangled /\ Kept
    BY DEF Tangled, Fault, Kept
  <2>1. Counted /\ Sized /\ Complete /\ row.oid \in Id /\ Len(events) = 0
    BY <1>1, <2>0, Ranges DEF IInv, Steady, AtRest
  <2>2. /\ row.qty \in 0 .. Qty /\ ord[row.oid].filled \in 0 .. Qty
        /\ row.qty <= ord[row.oid].filled /\ early[row.oid] = 0
    BY <1>1, <2>1, Ranges DEF IInv, Counted, Sized
  <2>3. ord[row.oid].filled > 0 => Held(row.oid, ord[row.oid].filled)
    BY <2>1 DEF Complete
  <2>4. row.qty = ord[row.oid].filled
    BY <2>1, <2>2, <2>3 DEF Held
  <2>5. QED BY <2>1, <2>4 DEF Complete
<1>2. QED BY <1>1, Invariance, PTL
=============================================================================
