---------------------------- MODULE MirrorOrder ----------------------------
(***************************************************************************)
(* One resting entry of the master, mirrored on one follower: the queue of *)
(* order events, the handlers _mirror_place and _mirror_cancel that the    *)
(* symbol's lock runs one at a time, and the escalation task that runs     *)
(* beside them.  What makes the handler idempotent is the pair ordermap /  *)
(* mirrordone in Redis and the exchange's answer to "is it still live".    *)
(***************************************************************************)
EXTENDS Integers, Sequences, FiniteSets

CONSTANTS
  Qty,          \* lots of the master's order, which the follower copies one to one
  Others,       \* lots both may hold already, of other orders on the symbol
  TolerancePct, \* RECON_SIZE_TOLERANCE_PCT
  MaxOrders,    \* bound on the orders placed on the follower
  MaxQueue,     \* bound on the events waiting
  MaxEdits,     \* bound on the master's price edits
  MaxCrashes,   \* bound on the restarts
  Ages,         \* is an event older than STALE_EVENT_RECHECK_SEC when handled
  Scenarios     \* the sets of disturbances to consider, see AllFaults

AllFaults ==
  { "late_listing", \* the master's orders were listed before one was gone
    "read",         \* a status read fails altogether
    "half_read",    \* one of the two get_open_orders calls fails
    "stale_cache",  \* the caches of open orders and holdings are behind
    "edit",         \* an edit is refused although the order rests
    "cancel",       \* a cancel request is lost
    "reply",        \* the exchange accepts an order, its answer is lost
    "rejected",     \* the exchange refuses an order
    "redis",        \* Redis does not answer
    "late_mark",    \* the mark that the master's order filled is late
    "holds",        \* master and follower hold lots of other orders
    "hands_off",    \* the master's stop has fired: the leg is left alone
    "unsized",      \* the follower's share cannot be computed
    "skip",         \* the accounts cannot be read, or the follower has no client
    "escalate",     \* escalation tasks run
    "elsewhere",    \* the desk cancels the mirror
    "crash" }       \* the process restarts

ASSUME MirrorAssumption ==
  /\ Qty \in Nat \ {0}
  /\ Others \in Nat /\ TolerancePct \in Nat
  /\ MaxOrders \in Nat \ {0}
  /\ MaxQueue \in Nat \ {0}
  /\ MaxEdits \in Nat /\ MaxCrashes \in Nat
  /\ Ages \subseteq BOOLEAN /\ Ages # {}
  /\ Scenarios \subseteq SUBSET AllFaults

VARIABLES
  faults,       \* the disturbances the environment may cause in this behaviour
  mstate,       \* the master's order: "open", "closed", "cancelled"
  mrev,         \* how often its price was edited
  marked,       \* master_filled_key of the order is set
  queue,        \* order_events, oldest first, with what waits for the lock
  ord,          \* the follower's orders at the exchange
  held,         \* lots the follower holds
  bought,       \* lots it ever bought for this order
  mapped,       \* ordermap:{master_order_id} of the follower, None if absent
  mirrordone,   \* mirrordone:{master_order_id}:{follower} is set
  esc,          \* where the escalation task of each order stands
  heir,         \* the market order that replaced each order, if any
  pc, ev,       \* the handler and its event
  foid,         \* the mirror the handler asks about, or has placed
  want,         \* lots the handler is about to place, or to close
  entry,        \* what it knows of the master's order: does it still rest
  mseen,        \* the master's position it read
  tries,        \* attempts of _place_order_with_retry
  crashes       \* restarts so far

exchange == <<ord, held, bought>>
master   == <<mstate, mrev, marked>>
redis    == <<mapped, mirrordone>>
tasks    == <<esc, heir>>
sizing   == <<want, entry, mseen>>
local    == <<ev, foid, sizing, tries, crashes>>
vars     == <<faults, master, queue, exchange, redis, tasks, pc, local>>

Id   == 1 .. MaxOrders
None == 0

Event == [kind : {"place", "update", "cancel"}, rev : 0 .. MaxEdits]
Absent == [st |-> "none", filled |-> 0, rev |-> 0, size |-> 0]

Fault(f)       == f \in faults
Least(a, b)    == IF a <= b THEN a ELSE b
Greatest(a, b) == IF a >= b THEN a ELSE b

\* What both hold of other orders, and what the master holds.
Base      == IF Fault("holds") THEN Others ELSE 0
MasterPos == Base + (IF mstate = "closed" THEN Qty ELSE 0)

\* The least difference from a target that is acted on: a lot, or so many per
\* cent of the target, whichever is more (in whole lots: rounded up).
SizeDeadband(target) == Greatest(1, (target * TolerancePct + 99) \div 100)

Live(id)  == id # None /\ ord[id].st = "open"
Mirrors   == {id \in Id : Live(id)}
Unused    == {id \in Id : ord[id].st = "none"}
Quiet     == queue = <<>> /\ pc = "idle"

PC == {"idle", "recheck", "guard", "live", "gone", "size", "mpos", "settled", "held",
       "edit", "editfail", "place", "map", "cancel", "find", "settle", "close", "forget"}
Entry == {"unknown", "listed", "unlisted", "unread", "filled", "resting"}

TypeOK ==
  /\ faults \in Scenarios
  /\ mstate \in {"open", "closed", "cancelled"}
  /\ mrev \in 0 .. MaxEdits /\ marked \in BOOLEAN
  /\ queue \in Seq(Event) /\ Len(queue) <= MaxQueue + 1
  /\ ord \in [Id -> [st : {"none", "open", "closed", "cancelled"}, filled : Nat,
                     rev : 0 .. MaxEdits, size : Nat]]
  /\ held \in Nat /\ bought \in Nat
  /\ mapped \in Id \union {None} /\ mirrordone \in BOOLEAN
  /\ esc \in [Id -> {"none", "armed", "withdrawn", "marketed", "over"}]
  /\ heir \in [Id -> Id \union {None}]
  /\ pc \in PC /\ ev \in Event
  /\ foid \in Id \union {None} /\ tries \in 0 .. 1
  /\ want \in Nat /\ entry \in Entry /\ mseen \in Nat
  /\ crashes \in 0 .. MaxCrashes

\* The master has placed his order and the listener has pushed it.
Init ==
  /\ faults \in Scenarios
  /\ mstate = "open" /\ mrev = 0 /\ marked = FALSE
  /\ queue = <<[kind |-> "place", rev |-> 0]>>
  /\ ord = [id \in Id |-> Absent] /\ held = Base /\ bought = 0
  /\ mapped = None /\ mirrordone = FALSE
  /\ esc = [id \in Id |-> "none"] /\ heir = [id \in Id |-> None]
  /\ pc = "idle" /\ ev = [kind |-> "place", rev |-> 0]
  /\ foid = None /\ tries = 0 /\ crashes = 0
  /\ want = 0 /\ entry = "unknown" /\ mseen = 0
-----------------------------------------------------------------------------
(* The master and the listener. *)

Push(kind, rev) == queue' = Append(queue, [kind |-> kind, rev |-> rev])

\* The 30 s reconcile pass, or a repeated WS update, pushes a resting order.
Repush ==
  /\ Len(queue) < MaxQueue
  /\ mstate = "open" \/ Fault("late_listing")
  /\ Push("place", mrev)
  /\ UNCHANGED <<master, exchange, redis, tasks, pc, local>>

MasterEdits ==
  /\ mstate = "open" /\ mrev < MaxEdits /\ Len(queue) < MaxQueue
  /\ mrev' = mrev + 1
  /\ Push("update", mrev + 1)
  /\ UNCHANGED <<mstate, marked, exchange, redis, tasks, pc, local>>

\* A fill pushes master_filled, which only spawns tasks; the listener marks the
\* order filled when it hears of it.
MasterFills ==
  /\ mstate = "open"
  /\ mstate' = "closed" /\ marked' = ~Fault("late_mark")
  /\ UNCHANGED <<mrev, queue, exchange, redis, tasks, pc, local>>

MarkFilled ==
  /\ mstate = "closed" /\ ~marked
  /\ marked' = TRUE
  /\ UNCHANGED <<mstate, mrev, queue, exchange, redis, tasks, pc, local>>

MasterCancels ==
  /\ mstate = "open"
  /\ mstate' = "cancelled"
  /\ Push("cancel", mrev)
  /\ UNCHANGED <<mrev, marked, exchange, redis, tasks, pc, local>>
-----------------------------------------------------------------------------
(* The follower's exchange. *)

MirrorFills ==
  /\ \E id \in Mirrors : \E n \in 1 .. (ord[id].size - ord[id].filled) :
       /\ ord' = [ord EXCEPT ![id].filled = @ + n,
                             ![id].st = IF ord[id].filled + n = ord[id].size
                                        THEN "closed" ELSE "open"]
       /\ held' = held + n /\ bought' = bought + n
  /\ UNCHANGED <<master, queue, redis, tasks, pc, local>>

\* The desk cancels the mirror, while the bound leaves another to place.
CancelledElsewhere ==
  /\ Fault("elsewhere") /\ Unused # {}
  /\ \E id \in Mirrors : ord' = [ord EXCEPT ![id].st = "cancelled"]
  /\ UNCHANGED <<master, queue, held, bought, redis, tasks, pc, local>>

\* The process restarts: the handler's event was popped and is gone, like every task in memory.
Crash ==
  /\ Fault("crash") /\ crashes < MaxCrashes
  /\ pc # "idle"
  /\ crashes' = crashes + 1
  /\ pc' = "idle"
  /\ esc' = [id \in Id |-> "none"]
  /\ UNCHANGED <<master, queue, exchange, redis, heir, ev, foid, sizing, tries>>
-----------------------------------------------------------------------------
(* The escalation task of a placed mirror, reduced to what others see; the   *)
(* module Escalation has it in full.                                        *)

\* A master's order that cannot be read does not stop the task; a position of
\* his that reads zero does.
EscalateCancel(id) ==
  /\ esc[id] = "armed"
  /\ mstate = "closed" \/ (Fault("read") /\ Base > 0)
  /\ IF Live(id)
     THEN esc' = [esc EXCEPT ![id] = "withdrawn"] /\ ord' = [ord EXCEPT ![id].st = "cancelled"]
     ELSE esc' = [esc EXCEPT ![id] = "over"] /\ UNCHANGED ord
  /\ UNCHANGED <<master, queue, held, bought, heir, redis, pc, local>>

\* The rest goes out at market, or all of it when the fills cannot be read.
Unfilled(id) ==
  {ord[id].size - ord[id].filled} \union (IF Fault("read") THEN {ord[id].size} ELSE {})

EscalateMarket(id) ==
  /\ esc[id] = "withdrawn"
  /\ \/ /\ esc' = [esc EXCEPT ![id] = "marketed"]
        /\ \E n \in Unfilled(id), new \in Unused :
             /\ \A other \in Unused : new <= other
             /\ held' = held + n /\ bought' = bought + n
             /\ ord' = [ord EXCEPT ![new] =
                          [st |-> "closed", filled |-> n, rev |-> ord[id].rev, size |-> n]]
             /\ heir' = [heir EXCEPT ![id] = new]
     \/ /\ Fault("rejected")
        /\ esc' = [esc EXCEPT ![id] = "over"]
        /\ UNCHANGED <<exchange, heir>>
  /\ UNCHANGED <<master, queue, redis, pc, local>>

EscalateRepoint(id) ==
  /\ esc[id] = "marketed"
  /\ esc' = [esc EXCEPT ![id] = "over"]
  /\ mapped' = heir[id]
  /\ UNCHANGED <<master, queue, exchange, heir, mirrordone, pc, local>>

Escalate == \E id \in Id : EscalateCancel(id) \/ EscalateMarket(id) \/ EscalateRepoint(id)
-----------------------------------------------------------------------------
(* _mirror_place. *)

Goto(to) == pc' = to
Quit     == pc' = "idle"

Take ==
  /\ pc = "idle" /\ queue # <<>>
  /\ ev' = Head(queue) /\ queue' = Tail(queue)
  /\ Goto(IF Head(queue).kind = "cancel" THEN "cancel" ELSE "recheck")
  /\ foid' = None /\ tries' = 0
  /\ want' = 0 /\ entry' = "unknown" /\ mseen' = 0
  /\ UNCHANGED <<master, exchange, redis, tasks, crashes>>

\* An old event asks whether the master's order is done; a cancelled order is
\* not "done", and an order that cannot be read does not stop the handler.
Recheck ==
  /\ pc = "recheck"
  /\ \E old \in Ages, read \in (IF Fault("read") THEN BOOLEAN ELSE {TRUE}) :
       Goto(IF old /\ read /\ mstate = "closed" THEN "idle" ELSE "guard")
  /\ UNCHANGED <<master, queue, exchange, redis, tasks, local>>

Guard ==
  /\ pc = "guard"
  /\ foid' = mapped
  /\ \/ Fault("skip") /\ Quit
     \/ Goto(IF mapped = None THEN "size" ELSE IF mirrordone THEN "idle" ELSE "live")
  /\ UNCHANGED <<master, queue, exchange, redis, tasks, ev, sizing, tries, crashes>>

\* A read that fails is taken for "not there".
LiveUnlessUnread(id) == {Live(id)} \union (IF Fault("read") THEN {FALSE} ELSE {})

\* _order_is_live: a cached YES may be old and a failed read is YES; a NO is
\* fresh, but it is given as well when only one of the two lists was read.
LiveAnswers(id) ==
  {Live(id)} \union (IF Fault("stale_cache") \/ Fault("read") THEN {TRUE} ELSE {})
             \union (IF Fault("half_read") THEN {FALSE} ELSE {})

\* A live mirror has nothing to do, whatever the event.
IsLiveForAnyKind ==
  /\ pc = "live"
  /\ \E live \in LiveAnswers(foid) : Goto(IF live THEN "idle" ELSE "gone")
  /\ UNCHANGED <<master, queue, exchange, redis, tasks, local>>

IsLive ==
  /\ pc = "live"
  /\ \E live \in LiveAnswers(foid) :
       Goto(IF ~live THEN "gone" ELSE IF ev.kind = "update" THEN "size" ELSE "idle")
  /\ UNCHANGED <<master, queue, exchange, redis, tasks, local>>

\* What the order that is no longer live did.
Spent(id) == ord[id].filled > 0 \/ ord[id].st = "closed"

\* As the code once was: gone is gone, filled or not.
GoneWhateverItDid ==
  /\ pc = "gone"
  /\ mapped' = None /\ UNCHANGED mirrordone
  /\ Goto("size")
  /\ UNCHANGED <<master, queue, exchange, tasks, local>>

\* The stale map is left to block the next placement.
GoneStaysMapped ==
  /\ pc = "gone"
  /\ Quit /\ mirrordone' = Spent(foid) /\ UNCHANGED mapped
  /\ UNCHANGED <<master, queue, exchange, tasks, local>>

Gone ==
  /\ pc = "gone"
  /\ \/ Fault("read") /\ Quit /\ UNCHANGED redis
     \/ Spent(foid) /\ Quit /\ mirrordone' = TRUE /\ UNCHANGED mapped
     \/ /\ ~Spent(foid)
        /\ mapped' = None /\ UNCHANGED mirrordone
        /\ Goto(IF ev.kind = "update" THEN "idle" ELSE "size")
  /\ UNCHANGED <<master, queue, exchange, tasks, local>>

\* What is read of the master's resting book: is the order in it.
BookAnswers ==
  {IF mstate = "open" THEN "listed" ELSE "unlisted"}
    \union (IF Fault("read") THEN {"unread"} ELSE {})
    \union (IF Fault("half_read") THEN {"unlisted"} ELSE {})

\* An edit asks for the order's size.  An entry is sized as part of the master's
\* ladder, from a book read now.
Size ==
  /\ pc = "size"
  /\ foid' = mapped
  /\ \/ Fault("unsized") /\ Quit /\ UNCHANGED <<want, entry>>
     \/ /\ ev.kind = "update"
        /\ want' = Qty /\ UNCHANGED entry
        /\ Goto(IF mapped # None THEN "edit" ELSE "place")
     \/ /\ ev.kind # "update"
        /\ entry' \in BookAnswers /\ UNCHANGED want
        /\ Goto("mpos")
  /\ UNCHANGED <<master, queue, exchange, redis, tasks, ev, mseen, tries, crashes>>

\* Next the master's position, cached or zero when it cannot be read; without a
\* book there is no ladder, and the order's own size is placed.
ReadMaster ==
  /\ pc = "mpos"
  /\ \/ /\ entry = "unread"
        /\ want' = Qty /\ entry' = "unknown" /\ UNCHANGED mseen
        /\ Goto("place")
     \/ /\ entry # "unread"
        /\ mseen' \in {MasterPos} \union (IF Fault("stale_cache") THEN {Base} ELSE {})
                                  \union (IF Fault("read") THEN {0} ELSE {})
        /\ UNCHANGED <<want, entry>>
        /\ Goto("settled")
  /\ UNCHANGED <<master, queue, exchange, redis, tasks, ev, foid, tries, crashes>>

\* _master_order_settled: the mark, the book, and only then the exchange; an
\* answer that cannot be read is "still resting".
Settled ==
  /\ pc = "settled"
  /\ \E mark \in {marked} \union (IF Fault("redis") THEN {FALSE} ELSE {}),
        read \in (IF Fault("read") THEN BOOLEAN ELSE {TRUE}) :
       entry' = IF mark \/ (entry = "unlisted" /\ read /\ mstate = "closed")
                THEN "filled" ELSE "resting"
  /\ Goto("held")
  /\ UNCHANGED <<master, queue, exchange, redis, tasks, ev, foid, want, mseen, tries, crashes>>

HeldAnswers == {held} \union (IF Fault("stale_cache") THEN (Base .. held) ELSE {})
                      \union (IF Fault("read") THEN {0} ELSE {})

\* Where the master will be when the order fills, if it has not yet.
WouldHold == mseen + (IF entry = "filled" THEN 0 ELSE Qty)

\* The difference is taken whether or not the follower holds more.
OpenTheDifference ==
  /\ pc = "held"
  /\ \E h \in HeldAnswers : want' = WouldHold - h
  /\ Goto(IF want' < 1 THEN "idle" ELSE "place")
  /\ entry' = "unknown" /\ mseen' = 0
  /\ UNCHANGED <<master, queue, exchange, redis, tasks, ev, foid, tries, crashes>>

\* A filled order opens what the follower lacks of the master's position.  A
\* position that is gone by then was closed by the order itself: it was routed
\* here by mistake, and the follower may be closed as well.
EntryOpenQty ==
  /\ pc = "held"
  /\ \E h \in HeldAnswers :
       /\ want' = Greatest(0, WouldHold - h)
       /\ \/ UNCHANGED held
          \/ entry = "filled" /\ mseen = 0 /\ h > 0 /\ held' = 0
  /\ Goto(IF want' < 1 THEN "idle" ELSE "place")
  /\ entry' = "unknown" /\ mseen' = 0
  /\ UNCHANGED <<master, queue, ord, bought, redis, tasks, ev, foid, tries, crashes>>

Edit ==
  /\ pc = "edit"
  /\ \/ Live(foid) /\ ord' = [ord EXCEPT ![foid].rev = ev.rev] /\ Quit
     \/ ~Live(foid) /\ Goto("editfail") /\ UNCHANGED ord
     \/ Fault("edit") /\ Goto("editfail") /\ UNCHANGED ord
  /\ UNCHANGED <<master, queue, held, bought, redis, tasks, local>>

\* Refused: re-placed unless the mirror filled or cannot be read.
EditRefused ==
  /\ pc = "editfail"
  /\ \/ Fault("read") /\ Quit /\ UNCHANGED mirrordone
     \/ Spent(foid) /\ Quit /\ mirrordone' = TRUE
     \/ ~Spent(foid) /\ Goto("place") /\ UNCHANGED mirrordone
  /\ UNCHANGED <<master, queue, exchange, mapped, tasks, local>>

\* The exchange accepts an order of the handler's size.
Accept(id) ==
  ord' = [ord EXCEPT ![id] = [st |-> "open", filled |-> 0, rev |-> ev.rev, size |-> want]]

\* _place_order_with_retry: a transient failure is tried once more.
Place ==
  /\ pc = "place" /\ Unused # {}
  /\ \E id \in Unused :
       /\ \A other \in Unused : id <= other
       /\ \/ Accept(id) /\ foid' = id /\ Goto("map") /\ UNCHANGED tries
          \/ Fault("rejected") /\ Quit /\ UNCHANGED <<ord, foid, tries>>
          \/ /\ Fault("reply")
             /\ Accept(id) \/ (Fault("rejected") /\ UNCHANGED ord)
             /\ IF tries = 0 THEN tries' = 1 /\ Goto("place")
                             ELSE Quit /\ UNCHANGED tries
             /\ UNCHANGED foid
  /\ UNCHANGED <<master, queue, held, bought, redis, tasks, ev, sizing, crashes>>

\* The mirror is never mapped.
MapForgotten ==
  /\ pc = "map"
  /\ Quit
  /\ UNCHANGED <<master, queue, exchange, redis, tasks, local>>

\* The mirror is mapped and its escalation task starts; when Redis fails
\* neither happens.
Map ==
  /\ pc = "map"
  /\ \/ /\ mapped' = foid
        /\ esc' = IF Fault("escalate") THEN [esc EXCEPT ![foid] = "armed"] ELSE esc
     \/ Fault("redis") /\ UNCHANGED <<mapped, esc>>
  /\ Quit
  /\ UNCHANGED <<master, queue, exchange, heir, mirrordone, local>>
-----------------------------------------------------------------------------
(* _mirror_cancel. *)

\* Of a follower that is skipped nothing is cancelled, yet all are forgotten.
CancelMapped ==
  /\ pc = "cancel"
  /\ foid' = mapped
  /\ \/ Fault("skip") /\ UNCHANGED ord /\ Goto("forget")
     \/ /\ Live(mapped)
        /\ ord' = [ord EXCEPT ![mapped].st = "cancelled"]
        /\ Goto("settle") \/ (Fault("cancel") /\ Goto("find"))
     \/ /\ ~Live(mapped) \/ Fault("cancel") \/ Fault("redis")
        /\ UNCHANGED ord /\ Goto("find")
  /\ UNCHANGED <<master, queue, held, bought, redis, tasks, ev, sizing, tries, crashes>>

\* Self-heal: cancel the first resting order of the same side and price.
FindAndCancel ==
  /\ pc = "find"
  /\ LET match == {id \in Mirrors : ord[id].rev = ev.rev}
     IN  \/ \E id \in match : ord' = [ord EXCEPT ![id].st = "cancelled"]
         \/ /\ match = {} \/ Fault("cancel") \/ Fault("read") \/ Fault("half_read")
            /\ UNCHANGED ord
  /\ Goto("settle")
  /\ UNCHANGED <<master, queue, held, bought, redis, tasks, local>>

\* As the code once was: the cancel is copied and nothing is settled.
SettleNothing ==
  /\ pc = "settle"
  /\ Goto("forget")
  /\ UNCHANGED <<master, queue, exchange, redis, tasks, local>>

\* A position that cannot be read is zero.
OrZero(n) == {n} \union (IF Fault("read") THEN {0} ELSE {})

\* _settle_exit_after_cancel: what the follower holds above its share of the
\* master's position is closed, unless the leg is left to its own stop, the share
\* cannot be computed or the two differ by less than the deadband.
Settle ==
  /\ pc = "settle"
  /\ \/ /\ Fault("hands_off") \/ (Fault("unsized") /\ MasterPos > 0)
        /\ Goto("forget") /\ UNCHANGED want
     \/ \E h \in OrZero(held), target \in OrZero(MasterPos) :
          IF h - target >= SizeDeadband(target)
          THEN want' = h - target /\ Goto("close")
          ELSE Goto("forget") /\ UNCHANGED want
  /\ UNCHANGED <<master, queue, exchange, redis, tasks, ev, foid, entry, mseen, tries, crashes>>

\* At market and reduce-only; a refusal is logged.
CloseExcess ==
  /\ pc = "close"
  /\ \/ held' = Greatest(0, held - want)
     \/ Fault("rejected") /\ UNCHANGED held
  /\ want' = 0
  /\ Goto("forget")
  /\ UNCHANGED <<master, queue, ord, bought, redis, tasks, ev, foid, entry, mseen, tries, crashes>>

Forget ==
  /\ pc = "forget"
  /\ mapped' = None \/ (Fault("redis") /\ UNCHANGED mapped)
  /\ Quit
  /\ UNCHANGED <<master, queue, exchange, mirrordone, tasks, local>>
-----------------------------------------------------------------------------
Handler ==
  \/ Take \/ Recheck \/ Guard \/ IsLive \/ Gone
  \/ Size \/ ReadMaster \/ Settled \/ EntryOpenQty \/ Edit \/ EditRefused \/ Place \/ Map
  \/ CancelMapped \/ FindAndCancel \/ Settle \/ CloseExcess \/ Forget

Master == Repush \/ MasterEdits \/ MasterFills \/ MarkFilled \/ MasterCancels

Next ==
  /\ Handler \/ Master \/ MirrorFills \/ CancelledElsewhere \/ Crash \/ Escalate
  /\ UNCHANGED faults

Spec == Init /\ [][Next]_vars

\* The consumer and the handlers run; while the master's order rests the
\* reconcile pass keeps pushing it.  The exchange and the desk owe nothing.
FairSpec ==
  Spec /\ WF_vars(Handler /\ UNCHANGED faults) /\ WF_vars(Repush /\ UNCHANGED faults)
-----------------------------------------------------------------------------
(* Properties.  Each says which disturbances it withstands beside these.   *)

\* An escalation whose reads fail may take another order's position for the
\* fill of the master's, and run ahead of it.
Benign == {"stale_cache", "read", "rejected", "elsewhere", "late_mark", "holds"}
Withstands(more) ==
  faults \subseteq Benign \union more /\ ~({"read", "holds", "escalate"} \subseteq faults)

\* "Idempotent per (master_order_id, follower)": however often an order is
\* pushed, by a listing that is late as well, and whatever the escalation does
\* beside the handlers, one mirror at most rests at the exchange.
OneLiveMirror ==
  Withstands({"late_listing", "escalate", "unsized", "hands_off"}) => Cardinality(Mirrors) <= 1

\* The mirrors of one order never buy more than it, while no escalation runs
\* beside the handlers and, where the follower holds other lots as well, his
\* position is read.  When the order fills between the read of the book and that
\* of the position and its mark is late it counts twice, and never more often.
HeldIsRead == Fault("holds") => {"read", "stale_cache"} \intersect faults = {}
MostBought == IF Fault("late_mark") THEN 2 * Qty ELSE Qty
NeverOverbuys ==
  Withstands({"unsized", "hands_off"}) /\ HeldIsRead => bought <= MostBought

\* "Only forces when still warranted, and never double-fills": the same with the
\* escalation beside the handlers, and nothing else going wrong.
NeverDoubleFills == faults \subseteq {"escalate"} => bought <= Qty

\* Between events a resting mirror is the one ordermap names, so that it can
\* be found again to be edited or cancelled.
MapFindsMirror ==
  Withstands({"late_listing"}) /\ pc = "idle" => \A id \in Mirrors : mapped = id

\* When every event is handled, a resting mirror has the master's price.
EditsFollow ==
  Withstands({"late_listing"}) /\ Quiet /\ mstate = "open" =>
    \A id \in Mirrors : ord[id].rev = mrev

\* What the settling of a cancel withstands: it closes what it can read, size and
\* place, where no stop is left to do it.
Settling == faults \subseteq {"stale_cache", "elsewhere", "late_mark", "holds", "escalate"}

\* When every event is handled, a cancelled order has left nothing behind: no
\* resting mirror, and of the lots the mirrors bought no more than the deadband
\* of what the follower rightly holds.
CancelLeavesNothing ==
  Quiet /\ mstate = "cancelled" =>
    /\ Withstands({"escalate", "unsized", "hands_off"}) => Mirrors = {}
    /\ Settling => held - Base < SizeDeadband(Base)

\* While the master's order rests the follower's mirror comes to rest, again
\* after somebody cancelled it or a restart lost its event, unless it filled;
\* not when the exchange always refuses or never answers, a cache never ends,
\* the share is never computed or the follower always skipped.
MirrorRests ==
  ({"rejected", "read", "stale_cache", "unsized", "skip"} \intersect faults = {} /\ mstate = "open")
    ~> (Mirrors # {} \/ bought > 0 \/ mstate # "open")
=============================================================================
