--------------------------- MODULE MirrorOrderProofs ---------------------------
(***************************************************************************)
(* That one resting order of the master has one mirror at most, that       *)
(* ordermap names it, that it buys no more than the order, ends at the     *)
(* master's price and goes when he cancels: for any size, any number of    *)
(* repeated events, edits and orders at the exchange, each under the       *)
(* disturbances its property names.  The invariant says of every place the *)
(* handlers can stand at what they know there of the mirrors.              *)
(***************************************************************************)
EXTENDS MirrorOrder, FiniteSetTheorems, TLAPS

\* The types in four parts: the master and his events, the exchange, the tasks
\* and the handler.  Beyond TypeOK they say that no order fills beyond its size and
\* that the cancel of the master's order always finds room in the queue.
Events ==
  /\ mstate \in {"open", "closed", "cancelled"} /\ mrev \in 0 .. MaxEdits
  /\ marked \in BOOLEAN
  /\ queue \in Seq(Event) /\ Len(queue) <= MaxQueue + 1
  /\ (mstate = "open" => Len(queue) <= MaxQueue)

Order == [st : {"none", "open", "closed", "cancelled"}, filled : Nat,
          rev : 0 .. MaxEdits, size : Nat]
Exchange ==
  /\ ord \in [Id -> Order] /\ held \in Nat /\ bought \in Nat
  /\ \A id \in Id : ord[id].filled <= ord[id].size

Tasks ==
  /\ mapped \in Id \union {None} /\ mirrordone \in BOOLEAN
  /\ esc \in [Id -> {"none", "armed", "withdrawn", "marketed", "over"}]
  /\ heir \in [Id -> Id \union {None}]

Locals ==
  /\ faults \in Scenarios
  /\ pc \in PC /\ ev \in Event
  /\ foid \in Id \union {None} /\ tries \in 0 .. 1
  /\ want \in Nat /\ entry \in Entry /\ mseen \in Nat
  /\ crashes \in 0 .. MaxCrashes

Types == Events /\ Exchange /\ Tasks /\ Locals

\* The market order of an escalation took the place of the mirror in ordermap.
Superseded == Fault("escalate") /\ mstate = "closed" /\ mapped # None /\ Spent(mapped)

\* What escalation tasks may have done: nothing before the master's order filled.
Escalations ==
  \A id \in Id :
    /\ esc[id] = "marketed" => heir[id] \in Id /\ ord[heir[id]].st = "closed"
    /\ mstate # "closed" => esc[id] \in {"none", "armed"}
    /\ ~Fault("escalate") => esc[id] = "none"

\* Only one mirror rests, and who looks at ordermap finds it or something bought.
Single   == \A a, b \in Mirrors : a = b
MapKnows == pc # "map" => Mirrors \subseteq {mapped} \/ Superseded

\* What the handler of a placement or an edit knows where it stands.
Asked ==
  pc \in {"live", "gone", "edit", "editfail"} =>
    /\ foid # None
    /\ Mirrors \subseteq {foid} \/ (Fault("escalate") /\ Spent(foid))
Placing ==
  /\ pc \in {"live", "gone", "edit", "editfail"} => mapped # None
  /\ pc \in {"gone", "editfail"} => ~Live(foid)
  /\ pc = "size" => Mirrors = {} \/ (ev.kind = "update" /\ mapped # None)
  /\ pc \in {"mpos", "settled", "held", "place"} => Mirrors = {}
  /\ pc = "map" => foid # None /\ Mirrors \subseteq {foid}

\* What the handler of a cancel knows, and that only a cancel is one.
Cancelling ==
  /\ pc \in {"cancel", "find", "settle", "close", "forget"} => mstate = "cancelled"
  /\ pc \in {"find", "settle", "close", "forget"} => Mirrors = {}
  /\ \A i \in 1 .. Len(queue) : queue[i].kind = "cancel" => mstate = "cancelled"

Known == Escalations /\ Single /\ MapKnows /\ Asked /\ Placing /\ Cancelling

\* While no listing is late, the cancel is the last the master's order is heard
\* of; what follows is its handler, and then nothing is left that it could close.
CancelIsLast == \A i \in 1 .. Len(queue) - 1 : queue[i].kind # "cancel"
Remains == Settling => held - Base < SizeDeadband(Base)
CancelHandled ==
  mstate = "cancelled" =>
    \/ /\ queue # <<>> /\ queue[Len(queue)].kind = "cancel"
       /\ pc \notin {"cancel", "find", "settle", "close", "forget"}
    \/ queue = <<>> /\ pc \in {"cancel", "find", "settle"}
    \/ queue = <<>> /\ pc = "close" /\ (Settling => held - want <= Base)
    \/ queue = <<>> /\ pc \in {"forget", "idle"} /\ Mirrors = {} /\ Remains
LastWord == CancelIsLast /\ CancelHandled

\* What was bought was bought by the mirror that rests, or by one that ordermap
\* names and that is seen to be spent, until the cancel is done.
Bought ==
  /\ bought <= MostBought
  /\ \A id \in Mirrors : bought = ord[id].filled /\ ord[id].size <= MostBought
  /\ pc \in {"live", "gone", "edit", "editfail", "map"} => bought = 0 \/ Spent(foid)
  /\ pc \in {"mpos", "settled", "held", "place"} => bought = 0
  /\ pc \in {"edit", "editfail", "place"} => want <= MostBought
  /\ pc = "size" => bought = 0 \/ (ev.kind = "update" /\ mapped # None)
  /\ pc # "map" => \/ bought = 0 \/ (mapped # None /\ Spent(mapped))
                   \/ (mstate = "cancelled" /\ queue = <<>> /\ pc = "idle")

\* What the sizing of an entry has read: the follower's position is what both had
\* and what the mirrors bought, and the lots of the order are in the master's only
\* when it filled, which its mark shows unless it is late.
Sized ==
  /\ Fault("holds") => \/ held = Base + bought
                       \/ (mstate = "cancelled" /\ queue = <<>> /\ pc \in {"forget", "idle"})
  /\ ~Fault("late_mark") => (mstate = "closed" => marked)
  /\ pc \in {"settled", "held"} => /\ mseen <= Base + Qty
                                   /\ ~Fault("read") => mseen >= Base
  /\ pc = "settled" => mseen <= Base \/ mstate = "closed"
  /\ pc = "held" /\ entry # "filled" /\ ~Fault("late_mark") => mseen <= Base
Counting == Withstands({"unsized", "hands_off"}) /\ HeldIsRead

\* The edit to the master's price waits, or is under way.
Newest(i) == queue[i].kind = "update" /\ queue[i].rev = mrev
Due       == \E i \in 1 .. Len(queue) : Newest(i)
Applying  == /\ pc \in {"recheck", "guard", "live", "size", "edit"}
             /\ ev.kind = "update" /\ ev.rev = mrev

\* Whatever has an old price, the newest follows it.
Priced ==
  mstate = "open" =>
    /\ mirrordone => mapped # None /\ Mirrors = {} /\ pc \in {"idle", "recheck", "guard"}
    /\ \A i \in 1 .. Len(queue) :
         queue[i].rev = mrev \/ \E j \in i + 1 .. Len(queue) : Newest(j)
    /\ pc # "idle" => ev.rev = mrev \/ Due
    /\ \A id \in Mirrors : ord[id].rev = mrev \/ Due \/ Applying

\* Each part under the disturbances it withstands.
IInv ==
  /\ Types
  /\ Withstands({"late_listing", "escalate", "unsized", "hands_off"}) => Known
  /\ Withstands({"escalate", "unsized", "hands_off"}) => LastWord
  /\ Counting => Bought /\ Sized
  /\ Withstands({"late_listing"}) => Priced
-----------------------------------------------------------------------------
LEMMA Bounds ==
  /\ Qty \in Nat \ {0} /\ Others \in Nat /\ TolerancePct \in Nat /\ MaxOrders \in Nat \ {0} /\ MaxQueue \in Nat \ {0}
  /\ MaxEdits \in Nat /\ MaxCrashes \in Nat
BY MirrorAssumption DEF MirrorAssumption

LEMMA NoneIsNoId == None \notin Id /\ Id \subseteq Nat
BY DEF None, Id

LEMMA TypesSuffice == Types => TypeOK
BY DEF Types, TypeOK, Events, Exchange, Order, Tasks, Locals

USE Bounds, NoneIsNoId

LEMMA Positions ==
  /\ Base \in Nat /\ MasterPos \in Nat
  /\ MasterPos <= Base + Qty /\ (mstate # "closed" => MasterPos = Base)
BY DEF Base, MasterPos

LEMMA DeadbandIsALot == ASSUME NEW n \in Nat PROVE SizeDeadband(n) \in Nat /\ SizeDeadband(n) >= 1
BY DEF SizeDeadband, Greatest

LEMMA AnswersAreLots ==
  ASSUME Types
  PROVE  /\ HeldAnswers \subseteq Nat /\ WouldHold \in Nat
         /\ OrZero(held) \subseteq Nat /\ OrZero(MasterPos) \subseteq Nat
BY Positions DEF HeldAnswers, WouldHold, OrZero, Types, Exchange, Locals

\* Which steps touch which part of the state.
LEMMA Frame ==
  ASSUME Next
  PROVE  /\ UNCHANGED <<master, queue>> \/ Take \/ Master
         /\ \/ UNCHANGED exchange \/ MirrorFills \/ CancelledElsewhere \/ Edit \/ Place
            \/ CancelMapped \/ FindAndCancel \/ EntryOpenQty \/ CloseExcess
            \/ \E id \in Id : EscalateCancel(id) \/ EscalateMarket(id)
         /\ \/ UNCHANGED <<redis, tasks>> \/ Crash \/ Escalate \/ Gone \/ EditRefused
            \/ Map \/ Forget
         /\ UNCHANGED <<pc, local>> \/ Crash \/ Handler
         /\ UNCHANGED faults
<1> USE DEF master, exchange, redis, tasks, sizing, local
<1>1. CASE Master
  BY <1>1 DEF Next, Master, Repush, MasterEdits, MasterFills, MarkFilled, MasterCancels
<1>2. CASE MirrorFills \/ CancelledElsewhere \/ Crash
  BY <1>2 DEF Next, MirrorFills, CancelledElsewhere, Crash
<1>3. CASE Escalate
  BY <1>3 DEF Next, Escalate, EscalateCancel, EscalateMarket, EscalateRepoint
<1>4. CASE Handler
  <2>1. CASE Take \/ Recheck \/ Guard \/ IsLive \/ Gone
    BY <1>4, <2>1 DEF Next, Take, Recheck, Guard, IsLive, Gone
  <2>2. CASE Size \/ Edit \/ EditRefused \/ Place \/ Map
    BY <1>4, <2>2 DEF Next, Size, Edit, EditRefused, Place, Map
  <2>3. CASE CancelMapped \/ FindAndCancel \/ Settle \/ CloseExcess \/ Forget
    BY <1>4, <2>3 DEF Next, CancelMapped, FindAndCancel, Settle, CloseExcess, Forget
  <2>4. CASE ReadMaster \/ Settled \/ EntryOpenQty
    BY <1>4, <2>4 DEF Next, ReadMaster, Settled, EntryOpenQty
  <2>5. QED BY <1>4, <2>1, <2>2, <2>3, <2>4 DEF Handler
<1>5. QED BY <1>1, <1>2, <1>3, <1>4 DEF Next

-----------------------------------------------------------------------------
(* The types. *)

LEMMA EventsStep ==
  ASSUME Types, Next
  PROVE  Events'
<1> USE DEF Types, Events, Event, master
<1>1. CASE UNCHANGED <<master, queue>>
  BY <1>1
<1>2. CASE Take
  BY <1>2 DEF Take
<1>3. CASE Repush
  BY <1>3 DEF Repush, Push
<1>4. CASE MasterEdits
  BY <1>4 DEF MasterEdits, Push
<1>5. CASE MasterFills
  BY <1>5 DEF MasterFills
<1>6. CASE MasterCancels
  BY <1>6 DEF MasterCancels, Push
<1>7. CASE MarkFilled
  BY <1>7 DEF MarkFilled
<1>8. QED BY <1>1, <1>2, <1>3, <1>4, <1>5, <1>6, <1>7, Frame DEF Master

\* What a fill does, field by field.
LEMMA FillsOne ==
  ASSUME Types, MirrorFills
  PROVE  \E id \in Mirrors : \E n \in Nat \ {0} :
           /\ ord' \in [Id -> Order]
           /\ \A k \in Id \ {id} : ord'[k] = ord[k]
           /\ ord'[id].filled = ord[id].filled + n /\ ord'[id].filled <= ord'[id].size
           /\ ord'[id].rev = ord[id].rev /\ ord'[id].st \in {"open", "closed"}
           /\ ord'[id].size = ord[id].size
           /\ held' = held + n /\ bought' = bought + n
<1> USE DEF Types, Exchange, Order, Live
<1>1. PICK id \in Mirrors : \E n \in 1 .. (ord[id].size - ord[id].filled) :
        /\ ord' = [ord EXCEPT ![id].filled = @ + n,
                              ![id].st = IF ord[id].filled + n = ord[id].size
                                         THEN "closed" ELSE "open"]
        /\ held' = held + n /\ bought' = bought + n
  BY DEF MirrorFills
<1>2. PICK n \in 1 .. (ord[id].size - ord[id].filled) :
        /\ ord' = [ord EXCEPT ![id].filled = @ + n,
                              ![id].st = IF ord[id].filled + n = ord[id].size
                                         THEN "closed" ELSE "open"]
        /\ held' = held + n /\ bought' = bought + n
  BY <1>1
<1>3. id \in Id /\ n \in Nat \ {0} /\ ord[id].filled + n <= ord[id].size
  BY <1>2 DEF Mirrors
<1> DEFINE more == [ord EXCEPT ![id].filled = @ + n]
           st   == IF ord[id].filled + n = ord[id].size THEN "closed" ELSE "open"
<1>4. /\ more \in [Id -> Order] /\ \A k \in Id \ {id} : more[k] = ord[k]
      /\ more[id].filled = ord[id].filled + n
      /\ more[id].size = ord[id].size /\ more[id].rev = ord[id].rev
  BY <1>3
<1>5. ord' = [more EXCEPT ![id].st = st]
  BY <1>2
<1>6. st \in {"open", "closed"}
  OBVIOUS
<1> HIDE DEF more, st
<1>7. /\ ord' \in [Id -> Order] /\ \A k \in Id \ {id} : ord'[k] = more[k]
      /\ ord'[id].st = st /\ ord'[id].filled = more[id].filled
      /\ ord'[id].size = more[id].size /\ ord'[id].rev = more[id].rev
  BY <1>3, <1>4, <1>5, <1>6
<1>8. QED BY <1>2, <1>3, <1>4, <1>6, <1>7

LEMMA ExchangeStep ==
  ASSUME Types, Next
  PROVE  Exchange'
<1> USE DEF Types, Exchange, Order, exchange, Live
<1>1. CASE UNCHANGED exchange
  BY <1>1
<1>2. CASE MirrorFills
  BY <1>2, FillsOne DEF Mirrors
<1>3. CASE CancelledElsewhere
  BY <1>3 DEF CancelledElsewhere, Mirrors
<1>4. ASSUME NEW id \in Id, EscalateCancel(id)
      PROVE  Exchange'
  BY <1>4 DEF EscalateCancel
<1>5. ASSUME NEW id \in Id, EscalateMarket(id)
      PROVE  Exchange'
  <2>1. Unfilled(id) \subseteq Nat
    BY DEF Unfilled
  <2>2. QED BY <1>5, <2>1 DEF EscalateMarket, Unused
<1>6. CASE Edit
  BY <1>6 DEF Edit, Locals, Event
<1>7. CASE Place
  BY <1>7 DEF Place, Accept, Unused, Locals, Event
<1>8. CASE CancelMapped
  BY <1>8 DEF CancelMapped
<1>9. CASE FindAndCancel
  BY <1>9 DEF FindAndCancel, Mirrors
<1>10. CASE EntryOpenQty
  BY <1>10 DEF EntryOpenQty
<1>11. CASE CloseExcess
  BY <1>11 DEF CloseExcess, Greatest, Locals
<1>12. QED
  BY <1>1, <1>2, <1>3, <1>4, <1>5, <1>6, <1>7, <1>8, <1>9, <1>10, <1>11, Frame

LEMMA TasksStep ==
  ASSUME Types, Next
  PROVE  Tasks'
<1> USE DEF Types, Tasks, redis, tasks
<1>1. CASE UNCHANGED <<redis, tasks>>
  BY <1>1
<1>2. CASE Crash
  BY <1>2 DEF Crash
<1>3. CASE Escalate
  BY <1>3 DEF Escalate, EscalateCancel, EscalateMarket, EscalateRepoint, Unused
<1>4. CASE Gone
  BY <1>4 DEF Gone
<1>5. CASE EditRefused
  BY <1>5 DEF EditRefused
<1>6. CASE Map
  BY <1>6 DEF Map, Locals
<1>7. CASE Forget
  BY <1>7 DEF Forget
<1>8. QED BY <1>1, <1>2, <1>3, <1>4, <1>5, <1>6, <1>7, Frame

LEMMA LocalsStep ==
  ASSUME Types, Next
  PROVE  Locals'
<1> USE DEF Types, Locals, PC, Entry, sizing, local, Goto, Quit
<1>0. UNCHANGED faults
  BY Frame
<1>1. CASE UNCHANGED <<pc, local>>
  BY <1>0, <1>1
<1>2. CASE Crash
  BY <1>0, <1>2 DEF Crash
<1>3. CASE Take
  BY <1>0, <1>3 DEF Take, Events
<1>4. CASE Recheck
  BY <1>0, <1>4 DEF Recheck
<1>5. CASE Guard
  BY <1>0, <1>5 DEF Guard, Tasks
<1>6. CASE IsLive
  BY <1>0, <1>6 DEF IsLive
<1>7. CASE Gone
  BY <1>0, <1>7 DEF Gone
<1>8. CASE Size
  BY <1>0, <1>8 DEF Size, BookAnswers, Tasks
<1>9. CASE Edit
  BY <1>0, <1>9 DEF Edit
<1>10. CASE EditRefused
  BY <1>0, <1>10 DEF EditRefused
<1>11. CASE Place
  BY <1>0, <1>11 DEF Place, Unused
<1>12. CASE Map
  BY <1>0, <1>12 DEF Map
<1>13. CASE CancelMapped
  BY <1>0, <1>13 DEF CancelMapped, Tasks
<1>14. CASE FindAndCancel
  BY <1>0, <1>14 DEF FindAndCancel
<1>15. CASE Settle
  <2>1. \A h \in OrZero(held), t \in OrZero(MasterPos) :
          h - t >= SizeDeadband(t) => h - t \in Nat
    BY AnswersAreLots, DeadbandIsALot
  <2>2. want' \in Nat
    BY <1>15, <2>1 DEF Settle
  <2>3. QED BY <1>0, <1>15, <2>2 DEF Settle
<1>16. CASE Forget
  BY <1>0, <1>16 DEF Forget
<1>17. CASE ReadMaster
  BY <1>0, <1>17, Positions DEF ReadMaster
<1>18. CASE Settled
  BY <1>0, <1>18 DEF Settled
<1>19. CASE EntryOpenQty
  <2>1. want' \in Nat
    BY <1>19, AnswersAreLots DEF EntryOpenQty, Greatest
  <2>2. QED BY <1>0, <1>19, <2>1 DEF EntryOpenQty
<1>20. CASE CloseExcess
  BY <1>0, <1>20 DEF CloseExcess
<1>21. QED
  BY <1>1, <1>2, <1>3, <1>4, <1>5, <1>6, <1>7, <1>8, <1>9, <1>10, <1>11, <1>12, <1>13,
     <1>14, <1>15, <1>16, <1>17, <1>18, <1>19, <1>20, Frame DEF Handler
-----------------------------------------------------------------------------
(* What the handlers know of the mirrors. *)

\* But for a placement no step brings a mirror to rest, and what was spent stays so.
Fading ==
  /\ Mirrors' \subseteq Mirrors
  /\ \A id \in Id : Spent(id) => Spent(id)'
  /\ \A id \in Id : ord[id].st = "closed" => ord'[id].st = "closed"

LEMMA Fades ==
  ASSUME Types, Next, ~Place
  PROVE  Fading
<1> USE DEF Types, Exchange, Order, exchange, Fading, Mirrors, Live, Spent
<1>1. CASE UNCHANGED exchange
  BY <1>1
<1>2. CASE MirrorFills
  <2>1. PICK id \in Mirrors : \E n \in Nat \ {0} :
          /\ \A k \in Id \ {id} : ord'[k] = ord[k]
          /\ ord'[id].filled = ord[id].filled + n
    BY <1>2, FillsOne
  <2>2. id \in Id /\ ord[id].st = "open" /\ ord[id].filled \in Nat /\ ord'[id].filled > 0
    BY <2>1
  <2>3. QED BY <2>1, <2>2
<1>3. CASE CancelledElsewhere
  BY <1>3 DEF CancelledElsewhere
<1>4. ASSUME NEW id \in Id, EscalateCancel(id)
      PROVE  Fading
  BY <1>4 DEF EscalateCancel
<1>5. ASSUME NEW id \in Id, EscalateMarket(id)
      PROVE  Fading
  <2>1. CASE UNCHANGED exchange
    BY <2>1
  <2>2. ASSUME NEW n \in Unfilled(id), NEW new \in Unused,
               ord' = [ord EXCEPT ![new] =
                        [st |-> "closed", filled |-> n, rev |-> ord[id].rev, size |-> n]]
        PROVE  Fading
    BY <2>2 DEF Unused
  <2>3. QED BY <1>5, <2>1, <2>2 DEF EscalateMarket
<1>6. CASE Edit
  BY <1>6 DEF Edit
<1>7. CASE CancelMapped
  BY <1>7 DEF CancelMapped
<1>8. CASE FindAndCancel
  BY <1>8 DEF FindAndCancel
<1>9. CASE EntryOpenQty \/ CloseExcess
  BY <1>9 DEF EntryOpenQty, CloseExcess
<1>10. QED
  BY <1>1, <1>2, <1>3, <1>4, <1>5, <1>6, <1>7, <1>8, <1>9, Frame

\* What an order filled changes by its own fills only, and its size never.
LEMMA FilledStays ==
  ASSUME Types, Next, ~Place, ~MirrorFills, ~Escalate
  PROVE  /\ \A id \in Id : ord'[id].filled = ord[id].filled /\ ord'[id].size = ord[id].size
         /\ UNCHANGED bought
<1> USE DEF Types, Exchange, Order, exchange, Mirrors, Live
<1>1. CASE UNCHANGED exchange
  BY <1>1
<1>2. CASE CancelledElsewhere
  BY <1>2 DEF CancelledElsewhere
<1>3. CASE Edit
  BY <1>3 DEF Edit
<1>4. CASE CancelMapped
  BY <1>4 DEF CancelMapped
<1>5. CASE FindAndCancel
  BY <1>5 DEF FindAndCancel
<1>6. CASE EntryOpenQty \/ CloseExcess
  BY <1>6 DEF EntryOpenQty, CloseExcess
<1>7. QED BY <1>1, <1>2, <1>3, <1>4, <1>5, <1>6, Frame DEF Escalate

\* What is pushed comes behind what waits.
LEMMA Pushes ==
  ASSUME Types, NEW e \in Event, queue' = Append(queue, e)
  PROVE  /\ Len(queue') = Len(queue) + 1 /\ queue'[Len(queue')] = e
         /\ \A i \in 1 .. Len(queue) : queue'[i] = queue[i]
BY DEF Types, Events, Event

\* Where no handler moves and ordermap stays, fading mirrors change nothing.
LEMMA KnownKept ==
  ASSUME Types, Known, Fading, UNCHANGED <<faults, mstate, queue, pc, ev, foid, mapped>>
  PROVE  Single' /\ MapKnows' /\ Asked' /\ Placing' /\ Cancelling'
<1> USE DEF Known, Fading, Types, Tasks, Locals
<1>0. Fault("escalate")' = Fault("escalate")
  BY DEF Fault
<1>1. Single'
  BY DEF Single
<1>2. MapKnows'
  <2>1. Superseded => Superseded'
    BY <1>0 DEF Superseded, Spent
  <2>2. QED BY <2>1 DEF MapKnows
<1>3. Asked'
  BY <1>0 DEF Asked, Spent
<1>4. Placing'
  <2>1. ~Live(foid) => ~Live(foid)'
    BY DEF Mirrors, Live
  <2>2. QED BY <2>1 DEF Placing
<1>5. Cancelling'
  BY DEF Cancelling
<1>6. QED BY <1>1, <1>2, <1>3, <1>4, <1>5

\* What is placed while nothing rests is the only mirror, fresh and at the event's price.
LEMMA PlacesOne ==
  ASSUME Types, Known, Place, ~Fault("reply")
  PROVE  \E id \in Unused :
           /\ \/ Accept(id) /\ foid' = id /\ pc' = "map"
              \/ UNCHANGED <<ord, foid>> /\ pc' = "idle"
           /\ Mirrors' \subseteq {id} /\ \A k \in Id \ {id} : ord'[k] = ord[k]
           /\ \A k \in Mirrors' :
                ord'[k].rev = ev.rev /\ ord'[k].filled = 0 /\ ord'[k].size = want
<1>1. PICK id \in Unused :
        \/ Accept(id) /\ foid' = id /\ pc' = "map"
        \/ UNCHANGED <<ord, foid>> /\ pc' = "idle"
  BY DEF Place, Goto, Quit
<1>2. id \in Id /\ \A k \in Id : ord[k].st # "open"
  BY DEF Place, Known, Placing, Unused, Mirrors, Live
<1>3. CASE Accept(id)
  <2>1. /\ \A k \in Id \ {id} : ord'[k] = ord[k]
        /\ ord'[id].rev = ev.rev /\ ord'[id].filled = 0 /\ ord'[id].size = want
    BY <1>2, <1>3 DEF Accept, Types, Exchange
  <2>2. Mirrors' \subseteq {id}
    BY <1>2, <2>1 DEF Mirrors, Live
  <2>3. QED BY <1>1, <2>1, <2>2
<1>4. CASE UNCHANGED ord
  <2>1. Mirrors' = {}
    BY <1>2, <1>4 DEF Mirrors, Live
  <2>2. QED BY <1>1, <1>4, <2>1
<1>5. QED BY <1>1, <1>3, <1>4

\* A step of a handler that only reads, or acts on the position, moves on with what
\* it knew.
LEMMA Proceeds ==
  ASSUME Known, UNCHANGED <<mstate, queue, ord, mapped, esc, heir, ev, foid>>,
         Fault("escalate")' = Fault("escalate"),
         \/ pc \in {"mpos", "settled", "held"} /\ pc' \in {"settled", "held", "place", "idle"}
         \/ pc \in {"settle", "close"} /\ pc' \in {"close", "forget"}
  PROVE  Known'
<1>1. Mirrors' = Mirrors /\ (Superseded' <=> Superseded)
  BY DEF Mirrors, Live, Superseded, Spent
<1>2. Escalations' /\ Single'
  BY <1>1 DEF Known, Escalations, Single
<1>3. MapKnows' /\ Asked'
  BY <1>1 DEF Known, MapKnows, Asked
<1>4. Placing'
  BY <1>1 DEF Known, Placing
<1>5. Cancelling'
  BY <1>1 DEF Known, Cancelling
<1>6. QED BY <1>2, <1>3, <1>4, <1>5 DEF Known

\* Every step keeps what the handlers, the tasks and ordermap know of the mirrors.
LEMMA KnownStep ==
  ASSUME Types, Types', Known, Next,
         Withstands({"late_listing", "escalate", "unsized", "hands_off"})
  PROVE  Known'
<1> USE DEF Known, Goto, Quit, exchange, master, redis, tasks, sizing, local
<1>0. /\ UNCHANGED faults /\ Fault("escalate")' = Fault("escalate")
      /\ ~Fault("crash") /\ ~Fault("redis") /\ ~Fault("reply") /\ ~Fault("cancel")
      /\ ~Fault("edit") /\ ~Fault("half_read") /\ ~Fault("skip")
      /\ (Fault("escalate") => ~Fault("read") \/ ~Fault("holds"))
  BY Frame DEF Withstands, Benign, Fault
<1>1. CASE Take
  BY <1>0, <1>1 DEF Take, Types, Exchange, Order, Tasks, Events, Event, Locals,
     Escalations, Single, MapKnows, Asked, Placing, Cancelling, Superseded, Mirrors, Live, Spent
<1>2. CASE Recheck
  BY <1>0, <1>2 DEF Recheck, Types, Exchange, Order, Tasks, Events, Event, Locals,
     Escalations, Single, MapKnows, Asked, Placing, Cancelling, Superseded, Mirrors, Live, Spent
<1>3. CASE Guard
  BY <1>0, <1>3 DEF Guard, Types, Exchange, Order, Tasks, Events, Event, Locals,
     Escalations, Single, MapKnows, Asked, Placing, Cancelling, Superseded, Mirrors, Live, Spent
<1>4. CASE IsLive
  <2>1. LiveAnswers(foid) \subseteq {Live(foid), TRUE}
    BY <1>0 DEF LiveAnswers
  <2>2. QED BY <1>0, <1>4, <2>1 DEF IsLive, Types, Tasks, Exchange, Order, Locals,
       Escalations, Single, MapKnows, Asked, Placing, Cancelling, Superseded, Mirrors, Live, Spent
<1>5. CASE Gone
  BY <1>0, <1>5 DEF Gone, Types, Exchange, Order, Tasks, Events, Event, Locals,
     Escalations, Single, MapKnows, Asked, Placing, Cancelling, Superseded, Mirrors, Live, Spent
<1>6. CASE Size
  BY <1>0, <1>6 DEF Size, Types, Exchange, Order, Tasks, Events, Event, Locals,
     Escalations, Single, MapKnows, Asked, Placing, Cancelling, Superseded, Mirrors, Live, Spent
<1>7. CASE Edit
  <2>1. Fading /\ (Live(foid)' => Live(foid))
    BY <1>7, Fades DEF Edit, Place, Fading, Types, Locals, Mirrors, Live
  <2>2. /\ pc = "edit" /\ (pc' = "idle" \/ (pc' = "editfail" /\ ~Live(foid) /\ UNCHANGED ord))
        /\ UNCHANGED <<mstate, queue, mapped, mirrordone, esc, heir, ev, foid>>
    BY <1>0, <1>7 DEF Edit
  <2>3. Escalations' /\ Single' /\ Cancelling'
    BY <1>0, <2>1, <2>2 DEF Escalations, Single, Cancelling, Fading, Types, Tasks
  <2>4. Superseded => Superseded'
    BY <1>0, <2>1, <2>2 DEF Superseded, Spent, Fading, Types, Tasks
  <2>5. MapKnows'
    BY <1>0, <2>1, <2>2, <2>4 DEF MapKnows, Fading
  <2>6. Asked' /\ Placing'
    BY <1>0, <2>1, <2>2 DEF Asked, Placing, Spent, Live, Mirrors, Fading, Types, Locals
  <2>7. QED BY <2>3, <2>5, <2>6
<1>8. CASE EditRefused
  BY <1>0, <1>8 DEF EditRefused, Types, Exchange, Order, Tasks, Events, Event, Locals,
     Escalations, Single, MapKnows, Asked, Placing, Cancelling, Superseded, Mirrors, Live, Spent
<1>9. CASE Place
  <2>1. PICK id \in Unused :
          /\ \/ Accept(id) /\ foid' = id /\ pc' = "map"
             \/ UNCHANGED <<ord, foid>> /\ pc' = "idle"
          /\ Mirrors' \subseteq {id} /\ \A k \in Id \ {id} : ord'[k] = ord[k]
    BY <1>0, <1>9, PlacesOne
  <2>2. /\ pc = "place" /\ Mirrors = {}
        /\ UNCHANGED <<mstate, queue, mapped, mirrordone, esc, heir, ev>>
    BY <1>9 DEF Place, Placing
  <2>3. Escalations'
    BY <1>0, <2>1, <2>2 DEF Escalations, Unused, Types, Tasks
  <2>4. /\ Mirrors' = {} \/ pc' = "map"
        /\ pc' = "map" => foid' = id /\ id \in Id
    BY <2>1, <2>2 DEF Unused, Mirrors, Live
  <2>5. QED
    BY <2>1, <2>2, <2>3, <2>4 DEF Single, MapKnows, Asked, Placing, Cancelling
<1>10. CASE Map
  BY <1>0, <1>10 DEF Map, Types, Exchange, Order, Tasks, Events, Event, Locals,
     Escalations, Single, MapKnows, Asked, Placing, Cancelling, Superseded, Mirrors, Live, Spent
<1>11. CASE CancelMapped
  <2>1. Fading
    BY <1>11, Fades DEF CancelMapped, Place
  <2>2. /\ pc = "cancel" /\ pc' \in {"settle", "find"} /\ mstate = "cancelled"
        /\ UNCHANGED <<mstate, queue, mapped, mirrordone, esc, heir, ev>>
    BY <1>0, <1>11 DEF CancelMapped, Cancelling
  <2>3. Mirrors \subseteq {mapped}
    BY <2>2 DEF MapKnows, Superseded
  <2>4. Mirrors' = {}
    BY <1>0, <1>11, <2>3 DEF CancelMapped, Types, Tasks, Exchange, Order, Mirrors, Live
  <2>5. Escalations'
    BY <1>0, <2>1, <2>2 DEF Escalations, Fading, Types, Tasks
  <2>6. QED BY <2>2, <2>4, <2>5 DEF Single, MapKnows, Asked, Placing, Cancelling
<1>12. CASE FindAndCancel
  <2>1. Fading
    BY <1>12, Fades DEF FindAndCancel, Place
  <2>2. /\ pc = "find" /\ pc' = "settle" /\ Mirrors = {} /\ mstate = "cancelled"
        /\ UNCHANGED <<mstate, queue, mapped, mirrordone, esc, heir, ev>>
    BY <1>12 DEF FindAndCancel, Cancelling
  <2>3. Escalations'
    BY <1>0, <2>1, <2>2 DEF Escalations, Fading, Types, Tasks
  <2>4. QED BY <2>1, <2>2, <2>3 DEF Fading, Single, MapKnows, Asked, Placing, Cancelling
<1>13. CASE Settle
  <2>1. /\ pc = "settle" /\ pc' \in {"close", "forget"}
        /\ UNCHANGED <<mstate, queue, ord, mapped, esc, heir, ev, foid>>
    BY <1>13 DEF Settle
  <2>2. QED BY <1>0, <2>1, Proceeds
<1>14. CASE Forget
  BY <1>0, <1>14 DEF Forget, Types, Exchange, Order, Tasks, Events, Event, Locals,
     Escalations, Single, MapKnows, Asked, Placing, Cancelling, Superseded, Mirrors, Live, Spent
<1>15. CASE Repush
  <2> DEFINE e == [kind |-> "place", rev |-> mrev]
  <2>1. queue' = Append(queue, e) /\ UNCHANGED <<mstate, ord, mapped, esc, heir, pc, ev, foid>>
    BY <1>15 DEF Repush, Push
  <2>2. /\ Len(queue') = Len(queue) + 1 /\ queue'[Len(queue')].kind # "cancel"
        /\ \A i \in 1 .. Len(queue) : queue'[i] = queue[i]
    <3>1. e \in Event /\ e.kind # "cancel"
      BY <1>15 DEF Repush, Types, Events, Event
    <3> HIDE DEF e
    <3>2. QED BY <2>1, <3>1, Pushes
  <2>3. Cancelling'
    BY <2>1, <2>2 DEF Cancelling, Mirrors, Live, Types, Events
  <2>4. QED
    BY <1>0, <2>1, <2>3 DEF Escalations, Single, MapKnows, Asked, Placing, Superseded,
       Mirrors, Live, Spent, Cancelling
<1>16. CASE MasterEdits
  <2> DEFINE e == [kind |-> "update", rev |-> mrev + 1]
  <2>1. queue' = Append(queue, e) /\ UNCHANGED <<mstate, ord, mapped, esc, heir, pc, ev, foid>>
    BY <1>16 DEF MasterEdits, Push
  <2>2. /\ Len(queue') = Len(queue) + 1 /\ queue'[Len(queue')].kind # "cancel"
        /\ \A i \in 1 .. Len(queue) : queue'[i] = queue[i]
    <3>1. e \in Event /\ e.kind # "cancel"
      BY <1>16 DEF MasterEdits, Types, Events, Event
    <3> HIDE DEF e
    <3>2. QED BY <2>1, <3>1, Pushes
  <2>3. Cancelling'
    BY <2>1, <2>2 DEF Cancelling, Mirrors, Live, Types, Events
  <2>4. QED
    BY <1>0, <2>1, <2>3 DEF Escalations, Single, MapKnows, Asked, Placing, Superseded,
       Mirrors, Live, Spent
<1>17. CASE MasterFills
  BY <1>0, <1>17 DEF MasterFills, Types, Exchange, Order, Tasks, Events, Event, Locals,
     Escalations, Single, MapKnows, Asked, Placing, Cancelling, Superseded, Mirrors, Live, Spent
<1>18. CASE MasterCancels
  BY <1>0, <1>18 DEF MasterCancels, Push, Types, Exchange, Order, Tasks, Events, Event, Locals,
     Escalations, Single, MapKnows, Asked, Placing, Cancelling, Superseded, Mirrors, Live, Spent
<1>19. CASE MirrorFills
  <2>1. Fading /\ UNCHANGED <<mstate, queue, pc, ev, foid, mapped, esc, heir>>
    BY <1>19, Fades DEF MirrorFills, Place
  <2>2. Escalations'
    BY <1>0, <2>1 DEF Escalations, Fading, Types, Tasks
  <2>3. QED BY <1>0, <2>1, <2>2, KnownKept
<1>20. CASE CancelledElsewhere
  <2>1. Fading /\ UNCHANGED <<mstate, queue, pc, ev, foid, mapped, esc, heir>>
    BY <1>20, Fades DEF CancelledElsewhere, Place
  <2>2. Escalations'
    BY <1>0, <2>1 DEF Escalations, Fading, Types, Tasks
  <2>3. QED BY <1>0, <2>1, <2>2, KnownKept
<1>21. CASE Crash
  BY <1>0, <1>21 DEF Crash,
     Escalations, Single, MapKnows, Asked, Placing, Cancelling, Superseded, Mirrors, Live, Spent
<1>22. ASSUME NEW id \in Id, EscalateCancel(id)
      PROVE  Known'
  <2>1. Fading /\ UNCHANGED <<mstate, queue, pc, ev, foid, mapped>>
    BY <1>22, Fades DEF EscalateCancel, Place
  <2>2. mstate = "closed"
    BY <1>0, <1>22 DEF EscalateCancel, Escalations, Base
  <2>3. Escalations'
    BY <1>0, <1>22, <2>1, <2>2
       DEF EscalateCancel, Escalations, Fading, Live, Types, Tasks, Exchange, Order
  <2>4. QED BY <1>0, <2>1, <2>3, KnownKept
<1>23. ASSUME NEW id \in Id, EscalateMarket(id)
      PROVE  Known'
  <2>1. Fading /\ UNCHANGED <<mstate, queue, pc, ev, foid, mapped>>
    BY <1>23, Fades DEF EscalateMarket, Place
  <2>2. Escalations'
    <3>1. CASE UNCHANGED <<exchange, heir>> /\ esc' = [esc EXCEPT ![id] = "over"]
      <4>1. /\ esc' \in [Id -> {"none", "armed", "withdrawn", "marketed", "over"}]
            /\ esc'[id] = "over" /\ \A k \in Id \ {id} : esc'[k] = esc[k]
            /\ heir' = heir /\ ord' = ord /\ mstate' = mstate
        BY <2>1, <3>1 DEF Types, Tasks
      <4>2. esc[id] = "withdrawn"
        BY <1>23 DEF EscalateMarket
      <4>3. mstate = "closed" /\ Fault("escalate")
        BY <4>2 DEF Escalations
      <4>4. QED BY <1>0, <4>1, <4>3 DEF Escalations
    <3>2. ASSUME NEW n \in Unfilled(id), NEW new \in Unused,
                 esc' = [esc EXCEPT ![id] = "marketed"], heir' = [heir EXCEPT ![id] = new],
                 ord' = [ord EXCEPT ![new] =
                          [st |-> "closed", filled |-> n, rev |-> ord[id].rev, size |-> n]]
          PROVE  Escalations'
      <4>1. new \in Id /\ ord'[new].st = "closed" /\ heir'[id] = new
        BY <3>2 DEF Unused, Types, Tasks, Exchange
      <4>2. esc[id] = "withdrawn"
        BY <1>23 DEF EscalateMarket
      <4>3. \A k \in Id \ {id} : esc'[k] = esc[k] /\ heir'[k] = heir[k]
        BY <3>2 DEF Types, Tasks
      <4>4. esc'[id] = "marketed"
        BY <3>2 DEF Types, Tasks
      <4>5. QED
        BY <1>0, <2>1, <4>1, <4>2, <4>3, <4>4 DEF Escalations, Fading, Types, Tasks
    <3>3. QED BY <1>23, <3>1, <3>2 DEF EscalateMarket
  <2>3. QED BY <1>0, <2>1, <2>2, KnownKept
<1>24. ASSUME NEW id \in Id, EscalateRepoint(id)
      PROVE  Known'
  <2>1. Fading
    BY <1>24, Fades DEF EscalateRepoint, Place
  <2>2. /\ mapped' \in Id /\ ord'[mapped'].st = "closed" /\ UNCHANGED exchange
        /\ Fault("escalate") /\ mstate = "closed"
        /\ UNCHANGED <<mstate, queue, heir, pc, ev, foid>>
    BY <1>0, <1>24, <2>1 DEF EscalateRepoint, Escalations, Types, Tasks
  <2>3. Escalations'
    BY <1>0, <1>24, <2>2 DEF EscalateRepoint, Escalations, Types, Tasks
  <2>4. Superseded'
    BY <1>0, <2>2 DEF Superseded, Spent
  <2>5. Single' /\ Asked' /\ Cancelling'
    BY <1>0, <2>2 DEF Single, Asked, Cancelling, Mirrors, Live, Spent
  <2>6. Placing'
    BY <2>2 DEF Placing, Mirrors, Live
  <2>7. QED BY <2>3, <2>4, <2>5, <2>6 DEF MapKnows
<1>25. CASE ReadMaster
  <2>1. /\ pc = "mpos" /\ pc' \in {"settled", "place"}
        /\ UNCHANGED <<mstate, queue, ord, mapped, esc, heir, ev, foid>>
    BY <1>25 DEF ReadMaster
  <2>2. QED BY <1>0, <2>1, Proceeds
<1>26. CASE Settled
  <2>1. /\ pc = "settled" /\ pc' = "held"
        /\ UNCHANGED <<mstate, queue, ord, mapped, esc, heir, ev, foid>>
    BY <1>26 DEF Settled
  <2>2. QED BY <1>0, <2>1, Proceeds
<1>27. CASE EntryOpenQty
  <2>1. /\ pc = "held" /\ pc' \in {"place", "idle"}
        /\ UNCHANGED <<mstate, queue, ord, mapped, esc, heir, ev, foid>>
    BY <1>27 DEF EntryOpenQty
  <2>2. QED BY <1>0, <2>1, Proceeds
<1>28. CASE CloseExcess
  <2>1. /\ pc = "close" /\ pc' = "forget"
        /\ UNCHANGED <<mstate, queue, ord, mapped, esc, heir, ev, foid>>
    BY <1>28 DEF CloseExcess
  <2>2. QED BY <1>0, <2>1, Proceeds
<1>29. CASE MarkFilled
  <2>1. Fading /\ UNCHANGED <<mstate, queue, pc, ev, foid, mapped, esc, heir>>
    BY <1>29, Fades DEF MarkFilled, Place
  <2>2. Escalations'
    BY <1>0, <2>1 DEF Escalations, Fading, Types, Tasks
  <2>3. QED BY <1>0, <2>1, <2>2, KnownKept
<1>30. QED
  BY <1>1, <1>2, <1>3, <1>4, <1>5, <1>6, <1>7, <1>8, <1>9, <1>10, <1>11, <1>12, <1>13, <1>14, <1>15, <1>16, <1>17, <1>18, <1>19, <1>20, <1>21, <1>22, <1>23, <1>24, <1>25,
     <1>26, <1>27, <1>28, <1>29
     DEF Next, Handler, Master, Escalate
-----------------------------------------------------------------------------
(* The cancel is the last word, and leaves nothing. *)

\* No escalation acts on a mirror before the master's order filled.
LEMMA ClosedOnly ==
  ASSUME Types, Known, ~({"read", "holds", "escalate"} \subseteq faults), NEW id \in Id,
         EscalateCancel(id) \/ EscalateMarket(id)
  PROVE  mstate = "closed"
<1>1. CASE EscalateMarket(id)
  BY <1>1 DEF EscalateMarket, Known, Escalations
<1>2. CASE EscalateCancel(id)
  <2>1. Fault("escalate")
    BY <1>2 DEF EscalateCancel, Known, Escalations
  <2>2. QED BY <1>2, <2>1 DEF EscalateCancel, Base, Fault
<1>3. QED BY <1>1, <1>2

LEMMA LastWordStep ==
  ASSUME Types, Known, LastWord, Next, Withstands({"escalate", "unsized", "hands_off"})
  PROVE  LastWord'
<1> USE DEF LastWord, CancelIsLast, CancelHandled, exchange, master, Goto, Quit
<1>0. /\ ~Fault("late_listing") /\ ~Fault("crash") /\ ~Fault("skip") /\ ~Fault("redis")
      /\ ~Crash
  BY DEF Withstands, Benign, Fault, Crash
<1>00. /\ (Settling' <=> Settling) /\ Base' = Base
       /\ Settling => ~Fault("read") /\ ~Fault("rejected") /\ ~Fault("hands_off")
                       /\ ~Fault("unsized")
  BY Frame DEF Settling, Base, Fault
<1>1. CASE Take
  <2>1. /\ ev' = Head(queue) /\ queue' = Tail(queue) /\ queue # <<>>
        /\ pc' = IF Head(queue).kind = "cancel" THEN "cancel" ELSE "recheck"
        /\ UNCHANGED <<mstate, ord, held>>
    BY <1>1 DEF Take
  <2>2. /\ Len(queue') = Len(queue) - 1 /\ Len(queue) \in Nat \ {0}
        /\ \A i \in 1 .. Len(queue') : queue'[i] = queue[i + 1]
        /\ Head(queue) = queue[1]
    BY <2>1 DEF Types, Events
  <2>3. CancelIsLast'
    BY <2>2
  <2>4. CASE Len(queue) = 1
    BY <2>1, <2>2, <2>3, <2>4 DEF Types, Events
  <2>5. CASE Len(queue) > 1
    <3>1. Len(queue') \in 1 .. Len(queue') /\ Len(queue') + 1 = Len(queue)
      BY <2>2, <2>5
    <3>2. queue' # <<>> /\ queue'[Len(queue')] = queue[Len(queue)]
      BY <2>2, <3>1
    <3>3. 1 \in 1 .. Len(queue) - 1
      BY <2>2, <2>5
    <3>4. QED BY <2>1, <2>2, <2>3, <3>2, <3>3
  <2>6. QED BY <2>2, <2>4, <2>5
<1>2. CASE Repush \/ MasterEdits \/ MasterCancels
  <2>1. PICK e \in Event : /\ mstate = "open" /\ queue' = Append(queue, e)
                           /\ e.kind = "cancel" \/ mstate' = "open"
                           /\ mstate' = "cancelled" => e.kind = "cancel"
                           /\ pc' \notin {"cancel", "find", "settle", "close", "forget"}
    BY <1>0, <1>2 DEF Repush, MasterEdits, MasterCancels, Push, Event, Types, Events,
                      Known, Cancelling
  <2>2. /\ Len(queue') = Len(queue) + 1 /\ queue'[Len(queue')] = e
        /\ \A i \in 1 .. Len(queue) : queue'[i] = queue[i]
    BY <2>1, Pushes
  <2>3. \A i \in 1 .. Len(queue) : queue[i].kind # "cancel"
    BY <2>1 DEF Known, Cancelling
  <2>4. CancelIsLast'
    BY <2>2, <2>3 DEF Types, Events
  <2>5. queue' # <<>>
    BY <2>2 DEF Types, Events
  <2>6. QED BY <2>1, <2>2, <2>4, <2>5
<1>3. CASE MasterFills
  BY <1>3 DEF MasterFills
<1>3a. CASE MarkFilled
  BY <1>3a DEF MarkFilled
<1>4. CASE UNCHANGED <<master, queue>> /\ mstate # "cancelled"
  BY <1>4
<1>5. CASE UNCHANGED <<master, queue>> /\ mstate = "cancelled"
  <2>1. CASE /\ queue # <<>> /\ queue[Len(queue)].kind = "cancel"
             /\ pc \notin {"cancel", "find", "settle", "close", "forget"}
    <3>0. ~Take
      BY <1>5, <2>1 DEF Take, Types, Events
    <3>1. pc' \notin {"cancel", "find", "settle", "close", "forget"}
      BY <1>0, <2>1, <3>0, Frame
         DEF Handler, Recheck, Guard, IsLive, Gone, Size, ReadMaster, Settled, EntryOpenQty, Edit,
             EditRefused, Place, Map, Forget, CancelMapped, FindAndCancel, Settle,
             CloseExcess, local
    <3>2. QED BY <1>5, <2>1, <3>1
  <2>2. CASE queue = <<>> /\ pc \in {"cancel", "find", "settle"}
    <3>1. CASE UNCHANGED pc
      BY <1>5, <2>2, <3>1
    <3>2. CASE CancelMapped
      BY <1>0, <1>5, <2>2, <3>2 DEF CancelMapped
    <3>3. CASE FindAndCancel
      BY <1>5, <2>2, <3>3 DEF FindAndCancel
    <3>4. CASE Settle
      <4>1. /\ pc = "settle" /\ UNCHANGED <<queue, held, ord>> /\ pc' \in {"close", "forget"}
            /\ Mirrors' = Mirrors /\ Mirrors = {}
        BY <1>5, <3>4 DEF Settle, Mirrors, Live, Known, Cancelling
      <4>2. MasterPos = Base /\ held \in Nat
        BY <1>5, Positions DEF Types, Exchange
      <4>3. Settling => \/ held - Base >= SizeDeadband(Base) /\ want' = held - Base /\ pc' = "close"
                        \/ ~(held - Base >= SizeDeadband(Base)) /\ pc' = "forget"
        BY <1>00, <3>4, <4>2 DEF Settle, OrZero
      <4>4. Base \in Nat /\ SizeDeadband(Base) \in Nat
        BY Positions DEF SizeDeadband, Greatest
      <4>5. CASE pc' = "close"
        BY <1>00, <1>5, <2>2, <4>1, <4>2, <4>3, <4>4, <4>5
      <4>6. CASE pc' = "forget"
        <5>1. Settling => held - Base < SizeDeadband(Base)
          BY <4>2, <4>3, <4>4, <4>6
        <5>2. Remains'
          BY <1>00, <4>1, <5>1 DEF Remains, SizeDeadband
        <5>3. QED BY <1>5, <2>2, <4>1, <4>6, <5>2
      <4>7. QED BY <4>1, <4>5, <4>6
    <3>5. QED
      BY <1>0, <2>2, <3>1, <3>2, <3>3, <3>4, Frame
         DEF Handler, Take, Recheck, Guard, IsLive, Gone, Size, ReadMaster, Settled, EntryOpenQty, Edit,
             EditRefused, Place, Map, Forget, CloseExcess
  <2>3. CASE queue = <<>> /\ pc \in {"forget", "idle"} /\ Mirrors = {} /\ Remains
    <3>1. pc' \in {"forget", "idle"}
      BY <1>0, <1>5, <2>3, Frame
         DEF Handler, Take, Recheck, Guard, IsLive, Gone, Size, ReadMaster, Settled, EntryOpenQty, Edit,
             EditRefused, Place, Map, Forget, CancelMapped, FindAndCancel, Settle,
             CloseExcess, local
    <3>2. ~(MirrorFills \/ CancelledElsewhere \/ Place)
      BY <2>3 DEF MirrorFills, CancelledElsewhere, Place
    <3>3. ASSUME NEW id \in Id
          PROVE  ~(EscalateCancel(id) \/ EscalateMarket(id))
      BY <1>5, ClosedOnly DEF Withstands
    <3>4. UNCHANGED exchange
      BY <2>3, <3>2, <3>3, Frame
         DEF Edit, CancelMapped, FindAndCancel, EntryOpenQty, CloseExcess
    <3>5. Remains'
      BY <1>00, <2>3, <3>4 DEF Remains, SizeDeadband
    <3>6. QED BY <1>5, <2>3, <3>1, <3>4, <3>5 DEF Mirrors, Live
  <2>4. CASE queue = <<>> /\ pc = "close" /\ (Settling => held - want <= Base)
    <3>1. Mirrors = {}
      BY <2>4 DEF Known, Cancelling
    <3>2. ~(MirrorFills \/ CancelledElsewhere \/ Place)
      BY <2>4, <3>1 DEF MirrorFills, CancelledElsewhere, Place
    <3>3. ASSUME NEW id \in Id
          PROVE  ~(EscalateCancel(id) \/ EscalateMarket(id))
      BY <1>5, ClosedOnly DEF Withstands
    <3>4. CASE CloseExcess
      <4>1. /\ pc' = "forget" /\ UNCHANGED <<queue, ord>> /\ Mirrors' = {}
        BY <3>1, <3>4 DEF CloseExcess, Mirrors, Live
      <4>2. held \in Nat /\ want \in Nat /\ Base \in Nat /\ SizeDeadband(Base) \in Nat /\ SizeDeadband(Base) >= 1
        BY Positions, DeadbandIsALot DEF Types, Exchange, Locals, SizeDeadband, Greatest
      <4>3. Settling => held' = Greatest(0, held - want)
        BY <1>00, <3>4 DEF CloseExcess
      <4>4. Settling => held' - Base < SizeDeadband(Base)
        BY <2>4, <4>2, <4>3 DEF Greatest
      <4>5. Remains'
        BY <1>00, <4>4 DEF Remains, SizeDeadband
      <4>6. QED BY <1>5, <2>4, <4>1, <4>5
    <3>5. CASE ~CloseExcess
      <4>1. UNCHANGED exchange
        BY <2>4, <3>2, <3>3, <3>5, Frame
           DEF Edit, CancelMapped, FindAndCancel, EntryOpenQty
      <4>2. UNCHANGED <<pc, local>>
        BY <1>0, <2>4, <3>5, Frame
           DEF Handler, Take, Recheck, Guard, IsLive, Gone, Size, ReadMaster, Settled,
               EntryOpenQty, Edit, EditRefused, Place, Map, Forget, CancelMapped,
               FindAndCancel, Settle
      <4>3. QED BY <1>00, <1>5, <2>4, <4>1, <4>2 DEF local, sizing
    <3>6. QED BY <3>4, <3>5
  <2>5. QED BY <1>5, <2>1, <2>2, <2>3, <2>4
<1>6. QED BY <1>1, <1>2, <1>3, <1>3a, <1>4, <1>5, Frame DEF Master

-----------------------------------------------------------------------------
(* What the mirrors buy. *)

\* An entry is never sized above the order, or twice the order where the mark may
\* be late: what is in the master's position is not to come as well.
LEMMA WantsNoMore ==
  ASSUME Types, Bought, Sized, Counting, EntryOpenQty
  PROVE  want' <= MostBought
<1>1. /\ held \in Nat /\ mseen \in Nat /\ Base \in Nat /\ bought \in Nat
  BY Positions DEF Types, Exchange, Locals
<1>2. PICK h \in HeldAnswers : want' = Greatest(0, WouldHold - h)
  BY DEF EntryOpenQty
<1>3. pc = "held" /\ bought = 0 /\ mseen <= Base + Qty
  BY DEF EntryOpenQty, Bought, Sized
<1>4. h \in Nat /\ Base <= h
  <2>1. h \in Nat
    BY <1>2, AnswersAreLots
  <2>2. CASE Fault("holds")
    <3>1. h = held
      BY <1>2, <2>2 DEF Counting, HeldIsRead, HeldAnswers, Fault
    <3>2. held = Base
      BY <1>1, <1>3, <2>2 DEF Sized
    <3>3. QED BY <1>1, <3>1, <3>2
  <2>3. CASE ~Fault("holds")
    BY <2>1, <2>3 DEF Base
  <2>4. QED BY <2>1, <2>2, <2>3
<1>5. WouldHold <= Base + MostBought /\ MostBought \in Nat
  <2>1. CASE entry = "filled"
    BY <1>1, <1>3, <2>1 DEF WouldHold, MostBought
  <2>2. CASE entry # "filled" /\ Fault("late_mark")
    BY <1>1, <1>3, <2>2 DEF WouldHold, MostBought
  <2>3. CASE entry # "filled" /\ ~Fault("late_mark")
    BY <1>1, <1>3, <2>3 DEF WouldHold, MostBought, Sized
  <2>4. QED BY <2>1, <2>2, <2>3
<1>6. WouldHold \in Nat
  BY AnswersAreLots
<1>7. QED BY <1>1, <1>2, <1>4, <1>5, <1>6 DEF Greatest

LEMMA BoughtStep ==
  ASSUME Types, Types', Known, LastWord, Bought, Sized, Next, Counting
  PROVE  Bought'
<1> USE DEF Bought, Goto, Quit, exchange, master, redis, tasks, sizing, local
<1>0. /\ ~Fault("late_listing") /\ ~Fault("crash") /\ ~Fault("reply") /\ ~Fault("cancel")
      /\ ~Fault("edit") /\ ~Fault("half_read") /\ ~Fault("escalate") /\ ~Fault("redis")
      /\ ~Fault("skip") /\ ~Crash /\ ~Escalate
  BY DEF Counting, Withstands, Benign, Fault, Crash, Escalate, EscalateCancel, EscalateMarket,
         EscalateRepoint, Known, Escalations
<1>00. MostBought' = MostBought /\ MostBought \in Nat /\ Qty <= MostBought
  BY Frame DEF MostBought, Fault
<1>1. CASE Take
  BY <1>0, <1>00, <1>1 DEF Take, Known, MapKnows, Asked, Placing, Superseded, Mirrors, Live, Spent, LastWord, CancelHandled, Cancelling,
     Types, Exchange, Order, Tasks, Locals, Events
<1>2. CASE Recheck
  BY <1>0, <1>00, <1>2 DEF Recheck, Known, MapKnows, Asked, Placing, Superseded, Mirrors, Live, Spent,
     Types, Exchange, Order, Tasks, Locals, Events
<1>3. CASE Guard
  BY <1>0, <1>00, <1>3 DEF Guard, Known, MapKnows, Asked, Placing, Superseded, Mirrors, Live, Spent,
     Types, Exchange, Order, Tasks, Locals, Events
<1>4. CASE IsLive
  BY <1>0, <1>00, <1>4 DEF IsLive, LiveAnswers, Known, MapKnows, Asked, Placing, Superseded, Mirrors, Live, Spent,
     Types, Exchange, Order, Tasks, Locals, Events
<1>5. CASE Gone
  BY <1>0, <1>00, <1>5 DEF Gone, Known, MapKnows, Asked, Placing, Superseded, Mirrors, Live, Spent,
     Types, Exchange, Order, Tasks, Locals, Events
<1>6. CASE Size
  BY <1>0, <1>00, <1>6 DEF Size, Known, MapKnows, Asked, Placing, Superseded, Mirrors, Live, Spent,
     Types, Exchange, Order, Tasks, Locals, Events
<1>7. CASE Edit
  <2>1. Fading /\ ~Place /\ ~MirrorFills
    BY <1>7, Fades DEF Edit, Place, MirrorFills
  <2>2. /\ UNCHANGED bought
        /\ \A id \in Id : ord'[id].filled = ord[id].filled /\ ord'[id].size = ord[id].size
    BY <1>0, <2>1, FilledStays
  <2>3. QED
    BY <1>0, <1>00, <1>7, <2>1, <2>2
       DEF Edit, Fading, Known, MapKnows, Asked, Placing, Superseded, Spent, Types, Tasks, Locals
<1>8. CASE EditRefused
  BY <1>0, <1>00, <1>8 DEF EditRefused, Known, MapKnows, Asked, Placing, Superseded, Mirrors, Live, Spent,
     Types, Exchange, Order, Tasks, Locals, Events
<1>9. CASE Place
  <2>1. bought = 0 /\ bought' = 0 /\ want <= MostBought /\ pc' \in {"map", "idle"}
    BY <1>0, <1>9 DEF Place
  <2>2. \A id \in Mirrors' : ord'[id].filled = 0 /\ ord'[id].size = want
    BY <1>0, <1>9, PlacesOne
  <2>3. QED BY <1>00, <2>1, <2>2
<1>10. CASE Map
  BY <1>0, <1>00, <1>10 DEF Map, Known, MapKnows, Asked, Placing, Superseded, Mirrors, Live, Spent,
     Types, Exchange, Order, Tasks, Locals, Events
<1>11. CASE CancelMapped
  <2>1. Fading /\ ~Place /\ ~MirrorFills
    BY <1>11, Fades DEF CancelMapped, Place, MirrorFills
  <2>2. /\ UNCHANGED bought
        /\ \A id \in Id : ord'[id].filled = ord[id].filled /\ ord'[id].size = ord[id].size
    BY <1>0, <2>1, FilledStays
  <2>3. /\ pc \in {"cancel", "find"} /\ pc' \in {"find", "settle"}
        /\ UNCHANGED <<mstate, queue, mapped>>
    BY <1>0, <1>11 DEF CancelMapped
  <2>4. Spent(mapped) /\ mapped # None => Spent(mapped)'
    BY <2>1, <2>3 DEF Fading, Spent, Types, Tasks
  <2>5. \A id \in Mirrors' : bought' = ord'[id].filled /\ ord'[id].size <= MostBought
    BY <2>1, <2>2 DEF Fading, Mirrors
  <2>6. QED BY <1>00, <2>2, <2>3, <2>4, <2>5
<1>12. CASE FindAndCancel
  <2>1. Fading /\ ~Place /\ ~MirrorFills
    BY <1>12, Fades DEF FindAndCancel, Place, MirrorFills
  <2>2. /\ UNCHANGED bought
        /\ \A id \in Id : ord'[id].filled = ord[id].filled /\ ord'[id].size = ord[id].size
    BY <1>0, <2>1, FilledStays
  <2>3. /\ pc \in {"cancel", "find"} /\ pc' \in {"find", "settle"}
        /\ UNCHANGED <<mstate, queue, mapped>>
    BY <1>12 DEF FindAndCancel
  <2>4. Spent(mapped) /\ mapped # None => Spent(mapped)'
    BY <2>1, <2>3 DEF Fading, Spent, Types, Tasks
  <2>5. \A id \in Mirrors' : bought' = ord'[id].filled /\ ord'[id].size <= MostBought
    BY <2>1, <2>2 DEF Fading, Mirrors
  <2>6. QED BY <1>00, <2>2, <2>3, <2>4, <2>5
<1>13. CASE Settle
  BY <1>0, <1>00, <1>13 DEF Settle, Known, MapKnows, Asked, Placing, Superseded, Mirrors, Live, Spent,
     Types, Exchange, Order, Tasks, Locals, Events
<1>14. CASE Forget
  BY <1>0, <1>00, <1>14 DEF Forget, Known, MapKnows, Asked, Placing, Superseded, Mirrors, Live, Spent, LastWord, CancelHandled, Cancelling,
     Types, Exchange, Order, Tasks, Locals, Events
<1>15. CASE Repush
  BY <1>0, <1>00, <1>15 DEF Repush, Push, Known, MapKnows, Asked, Placing, Superseded, Mirrors, Live, Spent,
     Types, Exchange, Order, Tasks, Locals, Events
<1>16. CASE MasterEdits
  BY <1>0, <1>00, <1>16 DEF MasterEdits, Push, Known, MapKnows, Asked, Placing, Superseded, Mirrors, Live, Spent,
     Types, Exchange, Order, Tasks, Locals, Events
<1>17. CASE MasterFills
  BY <1>0, <1>00, <1>17 DEF MasterFills, Known, MapKnows, Asked, Placing, Superseded, Mirrors, Live, Spent,
     Types, Exchange, Order, Tasks, Locals, Events
<1>18. CASE MasterCancels
  BY <1>0, <1>00, <1>18 DEF MasterCancels, Push, Known, MapKnows, Asked, Placing, Superseded, Mirrors, Live, Spent,
     Types, Exchange, Order, Tasks, Locals, Events
<1>19. CASE MirrorFills
  <2>1. PICK id \in Mirrors, n \in Nat \ {0} :
          /\ \A k \in Id \ {id} : ord'[k] = ord[k]
          /\ ord'[id].filled = ord[id].filled + n
          /\ ord' \in [Id -> Order] /\ ord'[id].filled <= ord'[id].size
          /\ ord'[id].size = ord[id].size
          /\ bought' = bought + n
    BY <1>19, FillsOne
  <2>2. UNCHANGED <<mstate, queue, pc, ev, foid, mapped>>
    BY <1>19 DEF MirrorFills
  <2>3. id \in Id /\ ord[id].filled \in Nat /\ bought' = ord'[id].filled /\ ord'[id].filled > 0
    BY <2>1 DEF Mirrors, Types, Exchange, Order
  <2>4. bought' <= MostBought /\ ord'[id].size <= MostBought
    <3>1. ord'[id] \in Order /\ ord[id].size <= MostBought
      BY <2>1, <2>3
    <3>2. QED BY <1>00, <2>1, <2>3, <3>1 DEF Order
  <2>5. Fading
    BY <1>19, Fades DEF MirrorFills, Place
  <2>6. \A k \in Mirrors' : k = id
    BY <2>1, <2>5 DEF Fading, Known, Single
  <2>7. Spent(id)'
    BY <2>3 DEF Spent
  <2>8. /\ pc # "map" => id = mapped /\ mapped # None
        /\ pc \in {"live", "gone", "edit", "editfail", "map"} => id = foid
        /\ pc \notin {"mpos", "settled", "held", "place"} /\ (pc = "size" => ev.kind = "update" /\ mapped # None)
    BY <1>0, <2>1, <2>3 DEF Known, MapKnows, Asked, Placing, Superseded
  <2>9. UNCHANGED want
    BY <1>19 DEF MirrorFills
  <2>10. QED BY <1>00, <2>2, <2>3, <2>4, <2>6, <2>7, <2>8, <2>9 DEF Spent
<1>20. CASE CancelledElsewhere
  <2>0. UNCHANGED <<held, pc>> /\ held \in Nat
    BY <1>20 DEF CancelledElsewhere, Types, Exchange
  <2>1. ~Place /\ ~MirrorFills
    <3>1. ~Place
      BY <1>0, <1>00, <1>20, <2>0 DEF CancelledElsewhere, Place
    <3>2. ~MirrorFills
      BY <2>0, FillsOne
    <3>3. QED BY <3>1, <3>2
  <2>2. /\ UNCHANGED bought
        /\ \A id \in Id : ord'[id].filled = ord[id].filled /\ ord'[id].size = ord[id].size
    BY <1>0, <2>1, FilledStays
  <2>3. Fading
    BY <2>1, Fades
  <2>4. QED
    BY <1>0, <1>00, <1>20, <2>2, <2>3
       DEF CancelledElsewhere, Fading, Known, MapKnows, Asked, Placing, Superseded, Spent, Types, Tasks, Locals
<1>21. CASE ReadMaster
  BY <1>0, <1>00, <1>21 DEF ReadMaster, Known, MapKnows, Asked, Placing, Superseded, Mirrors, Live, Spent,
     Types, Exchange, Order, Tasks, Locals, Events
<1>22. CASE Settled
  BY <1>0, <1>00, <1>22 DEF Settled, Known, MapKnows, Asked, Placing, Superseded, Mirrors, Live, Spent,
     Types, Exchange, Order, Tasks, Locals, Events
<1>23. CASE EntryOpenQty
  <2>1. /\ pc = "held" /\ bought = 0 /\ Mirrors' = Mirrors /\ pc' \in {"idle", "place"}
        /\ UNCHANGED <<ord, bought, mapped, mstate, queue>>
    BY <1>23 DEF EntryOpenQty, Mirrors, Live
  <2>2. want' <= MostBought
    BY <1>23, WantsNoMore
  <2>3. QED BY <1>00, <2>1, <2>2
<1>24. CASE CloseExcess
  BY <1>0, <1>00, <1>24 DEF CloseExcess, Known, MapKnows, Asked, Placing, Superseded, Mirrors, Live, Spent,
     Types, Exchange, Order, Tasks, Locals, Events
<1>25. CASE MarkFilled
  BY <1>0, <1>00, <1>25 DEF MarkFilled, Known, MapKnows, Asked, Placing, Superseded, Mirrors, Live, Spent,
     Types, Exchange, Order, Tasks, Locals, Events
<1>26. QED
  BY <1>0, <1>00, <1>1, <1>2, <1>3, <1>4, <1>5, <1>6, <1>7, <1>8, <1>9, <1>10, <1>11, <1>12, <1>13, <1>14, <1>15, <1>16, <1>17, <1>18, <1>19, <1>20, <1>21,
     <1>22, <1>23, <1>24, <1>25
     DEF Next, Handler, Master
\* What the sizing reads stays so.
LEMMA SizedStep ==
  ASSUME Types, Types', Known, LastWord, Bought, Sized, Next, Counting
  PROVE  Sized'
<1> USE DEF Goto, Quit, exchange, master, redis, tasks, sizing, local
<1>0. /\ ~Fault("late_listing") /\ ~Fault("redis") /\ ~Crash /\ ~Escalate
      /\ \A f \in AllFaults : Fault(f)' = Fault(f)
      /\ Base' = Base
  BY Frame DEF Counting, Withstands, Benign, Fault, Crash, Escalate, EscalateCancel,
         EscalateMarket, EscalateRepoint, Known, Escalations, Base
<1>1. /\ Fault("holds")' = Fault("holds") /\ Fault("read")' = Fault("read")
      /\ Fault("late_mark")' = Fault("late_mark")
      /\ held \in Nat /\ mseen \in Nat /\ Base \in Nat /\ bought \in Nat
  BY <1>0, Positions DEF AllFaults, Types, Exchange, Locals
<1>2. Fault("holds")' => \/ held' = Base' + bought'
                        \/ (mstate' = "cancelled" /\ queue' = <<>> /\ pc' \in {"forget", "idle"})
  <2> SUFFICES ASSUME Fault("holds")
               PROVE  \/ held' = Base + bought'
                      \/ (mstate' = "cancelled" /\ queue' = <<>> /\ pc' \in {"forget", "idle"})
    BY <1>0, <1>1
  <2>1. CASE mstate = "cancelled" /\ queue = <<>> /\ pc \in {"forget", "idle"}
    <3>1. UNCHANGED <<mstate, queue>>
      BY <1>0, <2>1, Frame DEF Take, Master, Repush, MasterEdits, MasterFills, MarkFilled, MasterCancels
    <3>2. pc' \in {"forget", "idle"}
      BY <1>0, <2>1, Frame
         DEF Handler, Take, Recheck, Guard, IsLive, Gone, Size, ReadMaster, Settled, EntryOpenQty, Edit,
             EditRefused, Place, Map, Forget, CancelMapped, FindAndCancel, Settle,
             CloseExcess
    <3>3. QED BY <2>1, <3>1, <3>2
  <2>2. CASE held = Base + bought
    <3>1. CASE UNCHANGED <<held, bought>>
      BY <2>2, <3>1
    <3>2. CASE MirrorFills
      <4>1. PICK n \in Nat : held' = held + n /\ bought' = bought + n
        BY <3>2, FillsOne
      <4>2. QED BY <1>1, <2>2, <4>1
    <3>3. CASE EntryOpenQty
      <4>1. pc = "held" /\ bought' = bought /\ bought = 0
        BY <3>3 DEF EntryOpenQty, Bought
      <4>2. held = Base /\ HeldAnswers = {held} /\ mseen >= Base
        BY <1>1, <2>2, <4>1 DEF HeldAnswers, Counting, HeldIsRead, Fault, Sized
      <4>3. held' = held
        BY <1>1, <3>3, <4>2 DEF EntryOpenQty
      <4>4. QED BY <2>2, <4>1, <4>3
    <3>4. CASE CloseExcess
      BY <3>4 DEF CloseExcess, LastWord, CancelHandled, Known, Cancelling
    <3>5. CASE CancelledElsewhere \/ Edit \/ Place \/ CancelMapped \/ FindAndCancel
      BY <2>2, <3>5 DEF CancelledElsewhere, Edit, Place, CancelMapped, FindAndCancel
    <3>6. QED
      BY <1>0, <3>1, <3>2, <3>3, <3>4, <3>5, Frame DEF Escalate
  <2>3. QED BY <2>1, <2>2 DEF Sized
<1>3. ~Fault("late_mark")' => (mstate' = "closed" => marked')
  BY <1>1, Frame DEF Sized, Take, Master, Repush, Push, MasterEdits, MasterFills, MarkFilled, MasterCancels
<1>4. CASE ReadMaster
  <2>1. /\ pc = "mpos" /\ pc' \in {"place", "settled"} /\ UNCHANGED mstate
        /\ pc' = "settled" => (mseen' \in {MasterPos, Base} \/ (mseen' = 0 /\ Fault("read")))
    BY <1>4 DEF ReadMaster
  <2>2. pc' = "settled" => /\ mseen' <= Base + Qty /\ (~Fault("read") => mseen' >= Base)
                           /\ (mseen' <= Base \/ mstate' = "closed")
    BY <1>1, <2>1, Positions DEF MasterPos
  <2>3. QED BY <1>0, <1>1, <1>2, <1>3, <2>1, <2>2 DEF Sized
<1>5. CASE Settled
  <2>1. /\ pc = "settled" /\ pc' = "held" /\ UNCHANGED <<mstate, marked, mseen>>
        /\ entry' # "filled" => ~marked
    BY <1>0, <1>5 DEF Settled
  <2>2. QED BY <1>0, <1>1, <1>2, <1>3, <2>1 DEF Sized
<1>6. CASE Handler /\ ~ReadMaster /\ ~Settled
  <2>1. pc' \notin {"settled", "held"}
    BY <1>6
       DEF Handler, Take, Recheck, Guard, IsLive, Gone, Size, EntryOpenQty, Edit,
           EditRefused, Place, Map, Forget, CancelMapped, FindAndCancel, Settle, CloseExcess
  <2>2. QED BY <1>2, <1>3, <2>1 DEF Sized
<1>7. CASE UNCHANGED <<pc, local>>
  <2>1. mstate = "closed" => mstate' = "closed"
    BY Frame DEF Take, Master, Repush, MasterEdits, MasterFills, MarkFilled, MasterCancels
  <2>2. QED BY <1>0, <1>1, <1>2, <1>3, <1>7, <2>1 DEF Sized
<1>8. QED BY <1>0, <1>4, <1>5, <1>6, <1>7, Frame
-----------------------------------------------------------------------------
(* Prices. *)

\* The conjuncts of Priced.
DoneIsGone == mirrordone => mapped # None /\ Mirrors = {} /\ pc \in {"idle", "recheck", "guard"}
Followed   == \A i \in 1 .. Len(queue) :
                queue[i].rev = mrev \/ \E j \in i + 1 .. Len(queue) : Newest(j)
InHand     == pc # "idle" => ev.rev = mrev \/ Due
Resting    == \A id \in Mirrors : ord[id].rev = mrev \/ Due \/ Applying

LEMMA PricedParts ==
  /\ Priced <=> (mstate = "open" => DoneIsGone /\ Followed /\ InHand /\ Resting)
  /\ Priced' <=> (mstate' = "open" => DoneIsGone' /\ Followed' /\ InHand' /\ Resting')
BY DEF Priced, DoneIsGone, Followed, InHand, Resting

LEMMA PricedStep ==
  ASSUME Types, Types', Known, Priced, Next, Withstands({"late_listing"})
  PROVE  Priced'
<1> USE DEF exchange, master, redis, tasks, sizing, local, Goto, Quit
<1> SUFFICES ASSUME mstate' = "open"
             PROVE  DoneIsGone' /\ Followed' /\ InHand' /\ Resting'
  BY PricedParts
<1>0. /\ ~Fault("crash") /\ ~Fault("reply") /\ ~Fault("cancel") /\ ~Fault("redis")
      /\ ~Fault("edit") /\ ~Fault("half_read") /\ ~Fault("escalate")
      /\ ~Fault("unsized") /\ ~Fault("skip")
      /\ ~Crash /\ ~Escalate
  BY DEF Withstands, Benign, Fault, Crash, Escalate, EscalateCancel, EscalateMarket,
         EscalateRepoint, Known, Escalations
<1>1. mstate = "open" /\ ~MasterFills /\ ~MasterCancels
  <2>1. mstate' = mstate \/ MasterFills \/ MasterCancels
    BY Frame DEF Master, Repush, MasterEdits, MarkFilled, Take
  <2>2. QED BY <2>1 DEF MasterFills, MasterCancels
<1>2. DoneIsGone /\ Followed /\ InHand /\ Resting
  BY <1>1, PricedParts
<1>3. pc \notin {"cancel", "find", "settle", "close", "forget"}
  BY <1>1 DEF Known, Cancelling
<1>4. /\ pc # "map" => Mirrors \subseteq {mapped}
      /\ pc \in {"live", "gone", "edit", "editfail"} => foid # None /\ Mirrors \subseteq {foid}
      /\ pc \in {"gone", "editfail", "place", "mpos", "settled", "held"} => Mirrors = {}
  BY <1>0 DEF Known, MapKnows, Superseded, Asked, Placing, Mirrors
<1>5. CASE Take
  <2>1. /\ ev' = Head(queue) /\ queue' = Tail(queue) /\ queue # <<>>
        /\ UNCHANGED <<mrev, ord, mapped, mirrordone>> /\ pc = "idle"
        /\ pc' = IF Head(queue).kind = "cancel" THEN "cancel" ELSE "recheck"
    BY <1>5 DEF Take
  <2>2. /\ Len(queue') = Len(queue) - 1 /\ Len(queue) \in Nat \ {0}
        /\ \A i \in 1 .. Len(queue') : queue'[i] = queue[i + 1]
        /\ ev' = queue[1]
    BY <2>1 DEF Types, Events
  <2>3. pc' = "recheck"
    BY <1>1, <2>1, <2>2 DEF Known, Cancelling, Types, Events
  <2>4. \A j \in 2 .. Len(queue) : Newest(j) => Newest(j - 1)' /\ j - 1 \in 1 .. Len(queue')
    BY <2>1, <2>2 DEF Newest
  <2>5. Followed'
    <3> SUFFICES ASSUME NEW i \in 1 .. Len(queue'), queue'[i].rev # mrev'
                 PROVE  \E j \in i + 1 .. Len(queue') : Newest(j)'
      BY DEF Followed
    <3>1. PICK j \in i + 2 .. Len(queue) : Newest(j)
      BY <1>2, <2>1, <2>2 DEF Followed
    <3>2. QED BY <2>2, <2>4, <3>1
  <2>6. InHand'
    BY <1>2, <2>1, <2>2, <2>4 DEF Followed, InHand, Due
  <2>7. Resting'
    <3> SUFFICES ASSUME NEW id \in Mirrors', ord'[id].rev # mrev', ~Due'
                 PROVE  Applying'
      BY DEF Resting
    <3>1. id \in Mirrors /\ ord[id].rev # mrev
      BY <2>1 DEF Mirrors, Live
    <3>2. PICK j \in 1 .. Len(queue) : Newest(j)
      BY <1>2, <2>1, <3>1 DEF Resting, Applying, Due
    <3>3. j = 1
      BY <2>2, <2>4, <3>2 DEF Due
    <3>4. QED BY <2>1, <2>2, <2>3, <3>2, <3>3 DEF Newest, Applying
  <2>8. DoneIsGone'
    BY <1>2, <2>1, <2>3 DEF DoneIsGone, Mirrors, Live
  <2>9. QED BY <2>5, <2>6, <2>7, <2>8
<1>6. CASE Repush \/ MasterEdits
  <2>1. PICK e \in Event :
          /\ queue' = Append(queue, e) /\ e.rev = mrev'
          /\ mrev' = mrev \/ e.kind = "update"
          /\ UNCHANGED <<ord, mapped, mirrordone, pc, ev>>
    BY <1>6 DEF Repush, MasterEdits, Push, Event, Types, Events
  <2>2. /\ Len(queue') = Len(queue) + 1 /\ queue'[Len(queue')] = e
        /\ \A i \in 1 .. Len(queue) : queue'[i] = queue[i]
        /\ Len(queue) \in Nat
    BY <2>1, Pushes DEF Types, Events
  <2>3. CASE mrev' = mrev
    <3>1. \A i \in 1 .. Len(queue) : Newest(i) => Newest(i)'
      BY <2>2, <2>3 DEF Newest
    <3>2. Due => Due'
      BY <2>2, <3>1 DEF Due
    <3>3. Followed'
      BY <1>2, <2>1, <2>2, <2>3, <3>1 DEF Followed
    <3>4. InHand' /\ Resting' /\ DoneIsGone'
      BY <1>2, <2>1, <2>3, <3>2 DEF InHand, Resting, DoneIsGone, Applying, Mirrors, Live
    <3>5. QED BY <3>3, <3>4
  <2>4. CASE mrev' # mrev
    <3> DEFINE last == Len(queue) + 1
    <3>1. /\ last \in 1 .. Len(queue') /\ Len(queue') = last
          /\ queue'[last].kind = "update" /\ queue'[last].rev = mrev'
      BY <2>1, <2>2, <2>4
    <3>2. Due'
      BY <3>1 DEF Due, Newest
    <3>3. Followed'
      <4> SUFFICES ASSUME NEW i \in 1 .. Len(queue'), queue'[i].rev # mrev'
                   PROVE  \E j \in i + 1 .. Len(queue') : Newest(j)'
        BY DEF Followed
      <4>1. last \in i + 1 .. Len(queue')
        BY <2>2, <3>1
      <4>2. QED BY <3>1, <4>1 DEF Newest
    <3>4. InHand' /\ Resting' /\ DoneIsGone'
      BY <1>2, <2>1, <3>2 DEF InHand, Resting, DoneIsGone, Mirrors, Live
    <3>5. QED BY <3>3, <3>4
  <2>5. QED BY <2>3, <2>4
<1>7. CASE UNCHANGED <<mstate, mrev, queue>>
  <2>1. (Due <=> Due') /\ Followed' /\ mrev' = mrev
    BY <1>2, <1>7 DEF Due, Followed, Newest
  <2>2. CASE Place
    <3>1. /\ pc = "place" /\ pc' \in {"map", "idle"}
          /\ UNCHANGED <<mapped, mirrordone, ev>>
      BY <1>0, <2>2 DEF Place
    <3>2. \A id \in Mirrors' : ord'[id].rev = ev.rev
      BY <1>0, <2>2, PlacesOne
    <3>3. QED BY <1>2, <2>1, <3>1, <3>2 DEF InHand, Resting, DoneIsGone
  <2>3. CASE Edit
    <3>1. Fading
      BY <2>3, Fades DEF Edit, Place
    <3>2. /\ pc = "edit" /\ pc' \in {"idle", "editfail"}
          /\ UNCHANGED <<mapped, mirrordone, ev>>
      BY <2>3 DEF Edit
    <3>3. \A id \in Mirrors' : ord'[id].rev = ev.rev
      BY <1>0, <1>4, <2>3 DEF Edit, Mirrors, Live, Types, Exchange, Order
    <3>4. QED BY <1>2, <2>1, <3>1, <3>2, <3>3 DEF Fading, InHand, Resting, DoneIsGone
  <2>4. CASE MirrorFills \/ CancelledElsewhere
    <3>1. /\ Mirrors' \subseteq Mirrors /\ \A id \in Mirrors' : ord'[id].rev = ord[id].rev
          /\ UNCHANGED <<mapped, mirrordone, pc, ev>>
      <4>1. CASE MirrorFills
        BY <4>1, FillsOne DEF MirrorFills, Mirrors, Live
      <4>2. CASE CancelledElsewhere
        BY <4>2 DEF CancelledElsewhere, Mirrors, Live, Types, Exchange, Order
      <4>3. QED BY <2>4, <4>1, <4>2
    <3>2. QED BY <1>2, <2>1, <3>1 DEF InHand, Resting, DoneIsGone, Applying
  <2>5. CASE UNCHANGED exchange /\ UNCHANGED <<pc, local>>
    <3>1. UNCHANGED <<redis, tasks, pc, local, exchange>>
      BY <1>0, <1>3, <2>5, Frame DEF Gone, EditRefused, Map, Forget
    <3>2. QED
      BY <1>2, <2>1, <3>1 DEF InHand, Resting, DoneIsGone, Applying, Mirrors, Live
  <2>6. CASE Recheck \/ Guard \/ IsLive \/ Size \/ ReadMaster \/ Settled \/ EntryOpenQty
    <3>1. UNCHANGED <<ord, mapped, mirrordone, ev>> /\ Mirrors' = Mirrors
      BY <2>6 DEF Recheck, Guard, IsLive, Size, ReadMaster, Settled, EntryOpenQty, Mirrors, Live
    <3>2. InHand'
      BY <1>2, <2>1, <2>6, <3>1 DEF InHand, Recheck, Guard, IsLive, Size, ReadMaster, Settled, EntryOpenQty
    <3>3. DoneIsGone'
      BY <1>1, <1>2, <2>6, <3>1 DEF DoneIsGone, Recheck, Guard, IsLive, Size, ReadMaster, Settled, EntryOpenQty
    <3>4. Mirrors # {} /\ Applying => Applying'
      <4>1. CASE Recheck
        BY <1>1, <1>7, <3>1, <4>1 DEF Recheck, Applying
      <4>2. CASE Guard
        BY <1>0, <1>2, <1>4, <1>7, <3>1, <4>2 DEF Guard, Applying, DoneIsGone, Mirrors, Live
      <4>3. CASE IsLive
        <5>1. Mirrors # {} => Live(foid)
          BY <1>4, <4>3 DEF IsLive, Mirrors
        <5>2. LiveAnswers(foid) \subseteq {Live(foid), TRUE}
          BY <1>0 DEF LiveAnswers
        <5>3. QED BY <1>7, <3>1, <4>3, <5>1, <5>2 DEF IsLive, Applying
      <4>4. CASE Size
        <5>1. mapped # None \/ Mirrors = {}
          BY <1>4, <4>4 DEF Size, Known, Placing
        <5>2. QED BY <1>0, <1>7, <3>1, <4>4, <5>1 DEF Size, Applying
      <4>5. CASE ReadMaster \/ Settled \/ EntryOpenQty
        BY <1>4, <4>5 DEF ReadMaster, Settled, EntryOpenQty
      <4>6. QED BY <2>6, <4>1, <4>2, <4>3, <4>4, <4>5
    <3>5. Resting'
      BY <1>2, <2>1, <3>1, <3>4 DEF Resting
    <3>6. QED BY <2>1, <3>2, <3>3, <3>5
  <2>7. CASE Gone \/ EditRefused \/ Map
    <3>1. UNCHANGED <<ord, ev>> /\ Mirrors' = Mirrors
      BY <2>7 DEF Gone, EditRefused, Map, Mirrors, Live
    <3>2. InHand'
      BY <1>2, <2>1, <2>7, <3>1 DEF InHand, Gone, EditRefused, Map
    <3>3. Resting'
      BY <1>2, <1>4, <2>1, <2>7, <3>1 DEF Resting, Applying, Gone, EditRefused, Map
    <3>4. DoneIsGone'
      <4>1. ~mirrordone
        BY <1>2, <2>7 DEF DoneIsGone, Gone, EditRefused, Map
      <4>2. CASE Gone
        BY <1>4, <3>1, <4>1, <4>2 DEF DoneIsGone, Gone, Known, Placing
      <4>3. CASE EditRefused
        BY <1>4, <3>1, <4>1, <4>3 DEF DoneIsGone, EditRefused, Known, Placing
      <4>4. CASE Map
        BY <4>1, <4>4 DEF DoneIsGone, Map
      <4>5. QED BY <2>7, <4>2, <4>3, <4>4
    <3>5. QED BY <2>1, <3>2, <3>3, <3>4
  <2>8. ~(CancelMapped \/ FindAndCancel \/ Settle \/ CloseExcess \/ Forget)
    BY <1>3 DEF CancelMapped, FindAndCancel, Settle, CloseExcess, Forget
  <2>9. QED
    BY <1>0, <1>5, <2>2, <2>3, <2>4, <2>5, <2>6, <2>7, <2>8, Frame DEF Handler, Escalate
<1>8. QED BY <1>1, <1>5, <1>6, <1>7, Frame DEF Master, MarkFilled
-----------------------------------------------------------------------------
(* The invariant and the properties. *)

LEMMA InitInv == Init => IInv
<1> SUFFICES ASSUME Init
             PROVE  IInv
  OBVIOUS
<1> USE DEF Init
<1>1. Types
  <2>1. Events
    <3>1. marked \in BOOLEAN
      OBVIOUS
    <3>2. QED BY <3>1 DEF Events, Event
  <2>2. Exchange
    <3>0. Base \in Nat
      BY Positions
    <3>1. Absent \in Order /\ Absent.filled <= Absent.size
      BY DEF Absent, Order
    <3>2. ord \in [Id -> Order] /\ \A id \in Id : ord[id] = Absent
      BY <3>1
    <3>3. QED BY <3>0, <3>1, <3>2 DEF Exchange
  <2>3. Tasks
    BY DEF Tasks
  <2>4. Locals
    BY DEF Locals, PC, Event, Entry
  <2>5. QED BY <2>1, <2>2, <2>3, <2>4 DEF Types
<1>2. Mirrors = {}
  BY DEF Mirrors, Live, Absent
<1>3. Len(queue) = 1 /\ queue[1].kind = "place" /\ queue[1].rev = 0
  OBVIOUS
<1>4. Known
  BY <1>2, <1>3 DEF Known, Escalations, Single, MapKnows, Asked, Placing, Cancelling
<1>5. LastWord /\ Bought /\ Sized
  <2>1. Base \in Nat /\ MostBought \in Nat
    BY Positions DEF MostBought
  <2>2. QED
    BY <1>2, <1>3, <2>1 DEF LastWord, CancelIsLast, CancelHandled, Bought, Sized
<1>6. Priced
  BY <1>2, <1>3 DEF Priced
<1>7. QED BY <1>1, <1>4, <1>5, <1>6 DEF IInv

LEMMA NextInv == IInv /\ [Next]_vars => IInv'
<1> SUFFICES ASSUME IInv, [Next]_vars
             PROVE  IInv'
  OBVIOUS
<1>1. CASE Next
  <2>1. Types /\ Types'
    BY <1>1, EventsStep, ExchangeStep, TasksStep, LocalsStep DEF IInv, Types
  <2>2. faults' = faults
    BY <1>1, Frame
  <2> DEFINE A == Withstands({"late_listing", "escalate", "unsized", "hands_off"})
             B == Withstands({"escalate", "unsized", "hands_off"})
             C == Withstands({"late_listing"})
  <2>3. /\ (B => A) /\ (C => A) /\ (Counting => B)
        /\ (A' <=> A) /\ (B' <=> B) /\ (C' <=> C) /\ (Counting' <=> Counting)
    BY <2>2 DEF Withstands, Counting, HeldIsRead, Fault
  <2>4. A => Known'
    BY <1>1, <2>1, KnownStep DEF IInv
  <2>5. B => LastWord'
    BY <1>1, <2>1, <2>3, LastWordStep DEF IInv
  <2>6. Counting => Bought' /\ Sized'
    BY <1>1, <2>1, <2>3, BoughtStep, SizedStep DEF IInv
  <2>7. C => Priced'
    BY <1>1, <2>1, <2>3, PricedStep DEF IInv
  <2> HIDE DEF A, B, C
  <2>8. QED BY <2>1, <2>3, <2>4, <2>5, <2>6, <2>7 DEF IInv, A, B, C
<1>2. CASE UNCHANGED vars
  <2> USE <1>2 DEF vars, master, exchange, redis, tasks, sizing, local
  <2>1. Types'
    BY DEF IInv, Types, Events, Exchange, Tasks, Locals
  <2>2. (Known => Known') /\ (LastWord => LastWord')
    BY DEF Known, Escalations, Single, MapKnows, Asked, Placing, Cancelling, Superseded,
           Fault, LastWord, CancelIsLast, CancelHandled, Remains, Settling, SizeDeadband,
           Base, Mirrors, Live, Spent
  <2>3. (Bought => Bought') /\ (Sized => Sized') /\ (Priced => Priced')
    BY DEF Bought, MostBought, Sized, Base, Fault, Priced, Due, Newest, Applying, Mirrors,
           Live, Spent
  <2>4. QED BY <2>1, <2>2, <2>3 DEF IInv, Withstands, Counting, HeldIsRead, Fault
<1>3. QED BY <1>1, <1>2

\* The inductive invariant, whatever the constants: the theorems below read it.
THEOREM Invariance == Spec => []IInv
BY InitInv, NextInv, PTL DEF Spec

\* The types hold for every number of orders, events, edits and restarts and
\* every set of disturbances: the queue of _on_order_event never outgrows its
\* bound, and no order is handled for more than the master's size.
THEOREM TypeCorrect == Spec => []TypeOK
<1>1. IInv => TypeOK
  BY TypesSuffice DEF IInv
<1>2. QED BY <1>1, Invariance, PTL

\* _mirror_place is "idempotent per (master_order_id, follower)": one mirror at
\* most rests, however often the order is pushed or edited and whatever the
\* escalation does meanwhile.
THEOREM OneMirrorRests == Spec => []OneLiveMirror
<1>1. IInv => OneLiveMirror
  <2> SUFFICES ASSUME IInv, Withstands({"late_listing", "escalate", "unsized", "hands_off"})
               PROVE  Cardinality(Mirrors) <= 1
    BY DEF OneLiveMirror
  <2>1. \A a, b \in Mirrors : a = b
    BY DEF IInv, Known, Single
  <2>2. CASE Mirrors = {}
    BY <2>2, FS_EmptySet
  <2>3. CASE Mirrors # {}
    <3>1. PICK id \in Mirrors : TRUE
      BY <2>3
    <3>2. Mirrors = {id}
      BY <2>1, <3>1
    <3>3. Cardinality({id}) = 1
      BY FS_Singleton
    <3>4. QED BY <3>2, <3>3
  <2>4. QED BY <2>2, <2>3
<1>2. QED BY <1>1, Invariance, PTL

\* The mirrors of one order buy no more than it, and no more than twice its size
\* where the mark of its fill may be late: the sizing against what is held and the
\* recheck of a spent mirror never let a second one fill beside the first.
THEOREM BuysNoMoreThanTheOrder == Spec => []NeverOverbuys
<1>1. IInv => NeverOverbuys
  BY DEF IInv, Bought, NeverOverbuys, Counting
<1>2. QED BY <1>1, Invariance, PTL

\* Between events ordermap names the mirror that rests, so that the handlers of
\* an edit and of a cancel find it.
THEOREM MapNamesTheMirror == Spec => []MapFindsMirror
<1>1. IInv => MapFindsMirror
  <2> SUFFICES ASSUME IInv, Withstands({"late_listing"}), pc = "idle",
                      NEW id \in Mirrors
               PROVE  mapped = id
    BY DEF MapFindsMirror
  <2>1. ~Superseded
    BY DEF Withstands, Benign, Superseded, Fault
  <2>2. Withstands({"late_listing", "escalate", "unsized", "hands_off"})
    BY DEF Withstands
  <2>3. QED BY <2>1, <2>2 DEF IInv, Known, MapKnows
<1>2. QED BY <1>1, Invariance, PTL

\* When every event is handled the mirror that rests has the master's price: no
\* edit is lost behind a repeated placement or a refused one.
THEOREM MirrorHasThePrice == Spec => []EditsFollow
<1>1. IInv => EditsFollow
  <2> SUFFICES ASSUME IInv, Withstands({"late_listing"}), Quiet, mstate = "open",
                      NEW id \in Mirrors
               PROVE  ord[id].rev = mrev
    BY DEF EditsFollow
  <2>1. Priced /\ queue = <<>> /\ pc = "idle"
    BY DEF IInv, Quiet
  <2>2. ~Due /\ ~Applying
    BY <2>1 DEF Due, Applying
  <2>3. QED BY <2>1, <2>2 DEF Priced
<1>2. QED BY <1>1, Invariance, PTL

\* When every event is handled, an order the master cancelled has no mirror that
\* rests, and the follower, who may have filled before him, holds no more of it
\* than the deadband leaves.
THEOREM NothingIsLeft == Spec => []CancelLeavesNothing
<1>1. IInv => CancelLeavesNothing
  <2> SUFFICES ASSUME IInv, Quiet, mstate = "cancelled"
               PROVE  /\ Withstands({"escalate", "unsized", "hands_off"}) => Mirrors = {}
                      /\ Settling => held - Base < SizeDeadband(Base)
    BY DEF CancelLeavesNothing
  <2>1. Withstands({"escalate", "unsized", "hands_off"}) => Mirrors = {} /\ Remains
    BY DEF IInv, LastWord, CancelHandled, Quiet
  <2>2. Settling => Withstands({"escalate", "unsized", "hands_off"})
    BY DEF Settling, Withstands, Benign
  <2>3. QED BY <2>1, <2>2 DEF Remains
<1>2. QED BY <1>1, Invariance, PTL
=============================================================================
