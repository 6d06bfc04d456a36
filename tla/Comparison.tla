----------------------------- MODULE Comparison -----------------------------
(***************************************************************************)
(* Do the accounts match?  The two reports on a day's trading of one       *)
(* symbol by the master and one follower: order_compare grades every order *)
(* of the master by the order the follower placed for it, fill_compare the *)
(* follower's net against his share of the master's net.                   *)
(*                                                                         *)
(* The day is played first: the master works orders, which fill, in part   *)
(* or wholly, or are cancelled; the engine copies them rightly or not, and *)
(* writes its legs or fails to.  The reports then see the exchange's       *)
(* orders and the legs, never what the engine meant: "for" below is not    *)
(* theirs to read.                                                         *)
(***************************************************************************)
EXTENDS Integers, Sequences, FiniteSetsExt

CONSTANTS
  Sizes,        \* sizes of the master's orders
  Num, Den,     \* the follower's ratio to the master
  MaxTime,      \* the end of the day
  OrderWindow,  \* INFER_WINDOW_SEC of order_compare
  FillWindow,   \* INFER_WINDOW_SEC of fill_compare
  Scenarios     \* what the engine may get wrong, on how many orders

AllFaults ==
  { "doubles",     \* it punches an order twice over
    "misses",      \* it places nothing, and may record a failure
    "skips",       \* it decides to place nothing, and records it
    "keeps",       \* a cancel does not reach the follower's order
    "unfilled",    \* the follower's order fills less than its share
    "late",        \* it copies after the windows are over
    "unrecorded",  \* a leg is not written, or names no master order
    "unreadable" } \* the follower's orders and fills cannot be read

\* The faults of a day, the most orders, and how far one fills that is cancelled.
Scenario == [faults : SUBSET AllFaults, most : Nat, parts : SUBSET Nat]

ASSUME ComparisonAssumption ==
  /\ MaxTime \in Nat
  /\ Sizes \subseteq Nat \ {0} /\ IsFiniteSet(Sizes) /\ Sizes # {}
  /\ Num \in Nat \ {0} /\ Den \in Nat \ {0}
  /\ OrderWindow \in Nat /\ FillWindow \in Nat
  /\ \A s \in Scenarios : s \in Scenario

VARIABLES
  scene,    \* the scenario of this behaviour
  now,      \* the clock
  orders,   \* the master's orders, by time placed
  copies,   \* the follower's, by time placed
  legs,     \* for each order of the master, the leg the engine wrote
  rows,     \* the orders graded so far; 0 before the reports read
  pairs,    \* order_compare: the copy each row claimed, None for none
  fills     \* fill_compare: the same over what filled

vars == <<scene, now, orders, copies, legs, rows, pairs, fills>>

None == 0
Fault(f) == f \in scene.faults
Sides == {"buy", "sell"}
States == {"open", "closed", "cancelled"}
Statuses == {"waiting", "nothing", "failed", "skipped", "pending"}

\* Every placement is rounded up, and is a lot at least.
Share(n) == (n * Num + Den - 1) \div Den

Leg(status, copy, named) == [status |-> status, copy |-> copy, named |-> named]

TypeOK ==
  /\ scene \in Scenarios
  /\ now \in 0 .. MaxTime
  /\ orders \in Seq([side : Sides, size : Sizes, filled : Nat, at : 0 .. MaxTime, state : States])
  /\ Len(orders) <= scene.most
  /\ copies \in Seq([side : Sides, size : Nat, filled : Nat, at : 0 .. MaxTime, state : States,
                     for : DOMAIN orders])
  /\ legs \in Seq([status : Statuses, copy : {None} \union DOMAIN copies, named : BOOLEAN])
  /\ Len(legs) = Len(orders)
  /\ rows \in 0 .. Len(orders) + 1
  /\ \A s \in {pairs, fills} :
       s \in Seq({None} \union DOMAIN copies) /\ Len(s) = (IF rows = 0 THEN 0 ELSE rows - 1)

Init ==
  /\ scene \in Scenarios
  /\ now = 0 /\ orders = <<>> /\ copies = <<>> /\ legs = <<>>
  /\ rows = 0 /\ pairs = <<>> /\ fills = <<>>
-----------------------------------------------------------------------------
(* The day. *)

\* When an order is filled or cancelled is not seen by the reports, so that all
\* are worked first, and end in the order in which they were placed.
Working == rows = 0 /\ \A i \in DOMAIN orders : orders[i].state = "open"
Ends(i) ==
  /\ rows = 0 /\ orders[i].state = "open"
  /\ \A k \in DOMAIN orders : legs[k].status # "waiting" /\ (k < i => orders[k].state # "open")
Report  == <<rows, pairs, fills>>

Tick ==
  /\ Working /\ now < MaxTime
  /\ Fault("late") \/ \A i \in DOMAIN legs : legs[i].status # "waiting"
  /\ now' = now + 1
  /\ UNCHANGED <<scene, orders, copies, legs, Report>>

MasterPlaces ==
  /\ Working /\ Len(orders) < scene.most
  /\ \E side \in Sides, size \in Sizes :
       orders' = Append(orders,
                        [side |-> side, size |-> size, filled |-> 0, at |-> now, state |-> "open"])
  /\ legs' = Append(legs, Leg("waiting", None, FALSE))
  /\ UNCHANGED <<scene, now, copies, Report>>

\* The engine copies an order and writes the leg that links the two.
Copy(i) ==
  /\ Working /\ legs[i].status = "waiting"
  /\ \E n \in {Share(orders[i].size)}
               \union (IF Fault("doubles") THEN {2 * Share(orders[i].size)} ELSE {}) :
       copies' = Append(copies, [side |-> orders[i].side, size |-> n, filled |-> 0, at |-> now,
                                 state |-> "open", for |-> i])
  /\ \E l \in {Leg("pending", Len(copies'), TRUE)}
               \union (IF Fault("unrecorded")
                       THEN {Leg("pending", Len(copies'), FALSE), Leg("nothing", None, FALSE)}
                       ELSE {}) :
       legs' = [legs EXCEPT ![i] = l]
  /\ UNCHANGED <<scene, now, orders, Report>>

\* Or it places nothing.
CopiesNot(i) ==
  /\ Working /\ legs[i].status = "waiting"
  /\ \E l \in (IF Fault("misses") THEN {Leg("failed", None, TRUE), Leg("nothing", None, FALSE)} ELSE {})
               \union (IF Fault("skips") THEN {Leg("skipped", None, TRUE)} ELSE {}) :
       legs' = [legs EXCEPT ![i] = l]
  /\ UNCHANGED <<scene, now, orders, copies, Report>>

CopiesOf(i) == {j \in DOMAIN copies : copies[j].for = i}

\* An order ends with n of its lots filled: closed when these are all of it.
Ended(o, n) == [o EXCEPT !.filled = n, !.state = IF n = o.size THEN "closed" ELSE "cancelled"]
MasterEnds(i, n) == orders' = [orders EXCEPT ![i] = Ended(orders[i], n)]

\* Where an order ended with n lots filled, what may have become of its copy: its
\* share filled, by the limit or at market, and the rest cancelled; or less; or
\* it was never cancelled, and fills on.
Fates(f, n) ==
  {Ended(f, q) : q \in {m \in 0 .. f.size : m = Share(n) \/ (Fault("unfilled") /\ m < Share(n))
                                           \/ (Fault("keeps") /\ n < f.size /\ m = f.size)}}
    \union {[f EXCEPT !.filled = q] :
              q \in {m \in 0 .. f.size - 1 : \/ Fault("unfilled") /\ m <= Share(n)
                                             \/ Fault("keeps") /\ m >= Share(n)}}

\* No order has two copies.
CopyEnds(i, n) ==
  \/ CopiesOf(i) = {} /\ UNCHANGED copies
  \/ \E j \in CopiesOf(i) : \E f \in Fates(copies[j], n) : copies' = [copies EXCEPT ![j] = f]

Fill(i) ==
  /\ Ends(i)
  /\ MasterEnds(i, orders[i].size) /\ CopyEnds(i, orders[i].size)
  /\ UNCHANGED <<scene, now, legs, Report>>

\* An order is cancelled with a part of it filled, or none.
Cancel(i) ==
  /\ Ends(i)
  /\ \E n \in scene.parts \intersect (0 .. orders[i].size - 1) : MasterEnds(i, n) /\ CopyEnds(i, n)
  /\ UNCHANGED <<scene, now, legs, Report>>
-----------------------------------------------------------------------------
(* Matching an order of the master to one of the follower's. *)

\* The legs the database answers, by the master's order and by the follower's.
LegOf(i)     == IF legs[i].named THEN legs[i] ELSE Leg("nothing", None, FALSE)
LegOfCopy(j) == LET is == {i \in DOMAIN legs : legs[i].copy = j}
                IN  IF is = {} THEN Leg("nothing", None, FALSE) ELSE legs[CHOOSE i \in is : TRUE]

\* What the exchange answers for the follower: everything, or an error.
Seen == IF Fault("unreadable") THEN {} ELSE DOMAIN copies

Abs(n) == IF n < 0 THEN -n ELSE n
Gap(i, j) == Abs(orders[i].at - copies[j].at)

\* The nearest, whoever claimed it already.
InferAgain(i, candidates, taken, window) ==
  LET near == {j \in candidates : copies[j].side = orders[i].side /\ Gap(i, j) <= window}
  IN  IF near = {} THEN None
      ELSE CHOOSE j \in near : \A k \in near : Gap(i, j) < Gap(i, k) \/ (Gap(i, j) = Gap(i, k) /\ j <= k)

\* The nearest unclaimed order of the same side within the window; of those as
\* near, the first.
Infer(i, candidates, taken, window) ==
  LET near == {j \in candidates \ taken : copies[j].side = orders[i].side /\ Gap(i, j) <= window}
  IN  IF near = {} THEN None
      ELSE CHOOSE j \in near : \A k \in near : Gap(i, j) < Gap(i, k) \/ (Gap(i, j) = Gap(i, k) /\ j <= k)

\* A recorded link first; it is followed whatever is claimed already.
Pair(i, candidates, taken, window) ==
  IF LegOf(i).copy \in candidates THEN LegOf(i).copy ELSE Infer(i, candidates, taken, window)

RangeOf(s) == {s[k] : k \in DOMAIN s}

\* fill_compare sees orders that filled: by the time they did, as they are
\* placed and filled together here.
SeenFills == {j \in Seen : copies[j].filled > 0}

Over == \A i \in DOMAIN orders : orders[i].state # "open"

\* The reports of a day that is over read the exchange and the legs.
Read ==
  /\ rows = 0 /\ Over
  /\ rows' = 1
  /\ UNCHANGED <<scene, now, orders, copies, legs, pairs, fills>>

\* compare_orders and compare: the next row.
Row ==
  /\ rows \in DOMAIN orders
  /\ rows' = rows + 1
  /\ pairs' = Append(pairs, Pair(rows, Seen, RangeOf(pairs), OrderWindow))
  /\ fills' = Append(fills,
       IF orders[rows].filled = 0 THEN None
       ELSE Pair(rows, SeenFills, RangeOf(fills), FillWindow))
  /\ UNCHANGED <<scene, now, orders, copies, legs>>

Next ==
  \/ Tick \/ MasterPlaces \/ Read \/ Row
  \/ \E i \in DOMAIN orders : Copy(i) \/ CopiesNot(i) \/ Fill(i) \/ Cancel(i)

Spec == Init /\ [][Next]_vars

Reported == rows = Len(orders) + 1
-----------------------------------------------------------------------------
(* order_compare. *)

Mismatches == {"missing", "oversized", "undersized", "cancel_missed", "extra"}
Passes     == {"matched", "ladder", "cancelled_ok"}
Tolerance  == 1

\* Too much for the target, too little, or as it should be.
Sized(placed, target, allowance, right) ==
  CASE placed > target + allowance -> "oversized"
    [] placed + Tolerance < target -> "undersized"
    [] OTHER -> right

\* The leg a row shows: its own, or that of the copy it inferred.
RowLeg(i, j) == IF legs[i].named \/ j = None THEN LegOf(i) ELSE LegOfCopy(j)

\* _cancelled: withdrawn before anything filled.
Cancelled(o) == o.state = "cancelled" /\ o.filled = 0

\* Without a copy nothing was owed if the order was cancelled, filled in part or not.
GradeNone(i) ==
  CASE Fault("unreadable") -> "unreadable"
    [] ~Fault("unreadable") /\ RowLeg(i, None).status = "skipped" -> "skipped"
    [] ~Fault("unreadable") /\ RowLeg(i, None).status # "skipped" ->
         IF orders[i].state = "cancelled" THEN "cancelled_ok" ELSE "missing"

\* By its size alone, whatever became of the master's order.
GradeBySize(i, j) ==
  IF j = None THEN GradeNone(i)
  ELSE Sized(copies[j].size, Share(orders[i].size), Tolerance, "matched")

\* _grade: one order of the master, the copy j its row claimed.  An order that
\* filled in part before it was cancelled is graded by size alone.
Grade(i, j) ==
  IF j = None THEN GradeNone(i)
  ELSE IF Cancelled(orders[i])
       THEN CASE copies[j].filled > 0 -> "extra"
              [] copies[j].filled = 0 /\ copies[j].state = "open" -> "cancel_missed"
              [] OTHER -> "cancelled_ok"
       ELSE Sized(copies[j].size, Share(orders[i].size), Tolerance, "matched")

\* The tolerance of one order, for any number of them.
AllowanceOfOne(n) == Tolerance

\* As many lots more as there are rungs rounded up.
Allowance(n) == Tolerance + n - 1

\* The orders of one side are a ladder when there are two.
Rungs(i) == {k \in DOMAIN orders : orders[k].side = orders[i].side}
IsLadder(rungs) == Cardinality(rungs) >= 2

OrderLots(is) == MapThenSumSet(LAMBDA k : orders[k].size, is)
PlacedLots(is) ==
  MapThenSumSet(LAMBDA k : IF pairs[k] = None THEN 0 ELSE copies[pairs[k]].size, is)

\* apply_ladder_context: inside a ladder the total decides what was matched or
\* a mismatch.
OrderVerdict(i) ==
  LET alone == Grade(i, pairs[i])
      rungs == Rungs(i)
  IN  IF IsLadder(rungs) /\ alone \in Mismatches \union {"matched"}
      THEN Sized(PlacedLots(rungs), Share(OrderLots(rungs)), Allowance(Cardinality(rungs)), "ladder")
      ELSE alone
-----------------------------------------------------------------------------
(* fill_compare. *)

Signed(o) == IF o.side = "buy" THEN o.filled ELSE -o.filled

FilledOrders == {i \in DOMAIN orders : orders[i].filled > 0}
MasterNet    == MapThenSumSet(LAMBDA i : Signed(orders[i]), FilledOrders)
FollowerNet  == MapThenSumSet(LAMBDA j : Signed(copies[j]), SeenFills)

\* expected_net: his share of the net, and of nothing nothing.
TargetNet == IF MasterNet < 0 THEN -Share(-MasterNet) ELSE Share(MasterNet)

\* _classify: one order of the master by the fill its row claimed, against what
\* the engine asked for where the leg says so, and else the share of what filled.
FillGrade(i) ==
  LET j == fills[i]
      leg == RowLeg(i, j)
      target == IF leg.copy # None THEN copies[leg.copy].size ELSE Share(orders[i].filled)
  IN  CASE j = None /\ Fault("unreadable") -> "unreadable"
        [] j = None /\ ~Fault("unreadable") ->
             (CASE leg.status = "skipped" -> "skipped"
                [] leg.status = "pending" -> "resting"
                [] OTHER -> "missing")
        [] j # None /\ copies[j].filled > target + Tolerance -> "over"
        [] j # None /\ copies[j].filled + Tolerance < target -> "short"
        [] OTHER -> "matched"

StoodDown ==
  \A i \in FilledOrders : FillGrade(i) \in {"skipped", "resting"}

\* reconcile_groups: the verdict on the symbol.
GroupVerdict ==
  CASE Fault("unreadable") -> "unreadable"
    [] ~Fault("unreadable") /\ SeenFills = {} ->
         (CASE StoodDown -> "skipped"
            [] ~StoodDown /\ TargetNet = 0 -> "matched"
            [] OTHER -> "missing")
    [] OTHER ->
         (CASE \/ Abs(FollowerNet) + Tolerance < Abs(TargetNet)
               \/ FollowerNet * TargetNet < 0 -> "short"
            [] Abs(FollowerNet) > Abs(TargetNet) + Allowance(Cardinality(FilledOrders)) -> "over"
            [] OTHER -> "matched")

\* _apply_group_context: the rungs of a ladder say what the symbol says.
FillVerdict(i) ==
  IF Cardinality(FilledOrders) < 2 THEN FillGrade(i)
  ELSE IF GroupVerdict \in {"matched", "over", "skipped"} THEN "ladder" ELSE GroupVerdict
-----------------------------------------------------------------------------
(* What the reports owe the desk, on a day that is over. *)

\* The engine's copy of an order is what it should be: of its share, filled as
\* far as the master's, and not left behind.
Right(i) ==
  \E j \in DOMAIN copies :
    /\ CopiesOf(i) = {j} /\ copies[j].size = Share(orders[i].size)
    /\ copies[j].filled = Share(orders[i].filled) /\ copies[j].state # "open"

OneWay == Cardinality({orders[i].side : i \in FilledOrders}) = 1

\* A day that was copied rightly and written down reads clean: every order is
\* matched, in or out of a ladder, however the shares were rounded and however
\* much of each order filled; and where the master traded one way only, so does
\* the net ("not a copy failure"), and with it each order that filled, but for
\* one that filled alone and in part: its row is held to what was asked for.
FaithfulDayIsClean ==
  Reported /\ scene.faults \intersect {"unreadable", "unrecorded"} = {}
    /\ (\A i \in DOMAIN orders : Right(i))
  => /\ \A i \in DOMAIN orders : OrderVerdict(i) \in Passes
     /\ OneWay =>
          /\ GroupVerdict = "matched"
          /\ \A i \in FilledOrders :
               orders[i].filled = orders[i].size \/ Cardinality(FilledOrders) >= 2
               => FillVerdict(i) \in {"matched", "ladder"}

\* An order that is the only one of its side and was copied rightly passes,
\* however the others were.
LoneOrderIsClean ==
  Reported /\ scene.faults \intersect {"unreadable", "unrecorded"} = {}
  => \A i \in DOMAIN orders : ~IsLadder(Rungs(i)) /\ Right(i) => OrderVerdict(i) \in Passes

\* A copy of the wrong size, a missing one that nobody decided on, and one that
\* outlived, or filled beside, an order the master withdrew unfilled are reported,
\* recorded or not, when the order is the only one of its side.  Of an order that
\* was cancelled with a part of it filled only too large a copy is.
WrongCopy(i) ==
  \/ CopiesOf(i) = {} /\ orders[i].state # "cancelled" /\ legs[i].status # "skipped"
  \/ \E j \in CopiesOf(i) :
       IF Cancelled(orders[i]) THEN copies[j].state = "open" \/ copies[j].filled > 0
       ELSE copies[j].size > Share(orders[i].size) + Tolerance

WrongCopyIsSeen ==
  Reported /\ scene.faults \intersect {"unreadable", "late"} = {}
  => \A i \in DOMAIN orders :
       ~IsLadder(Rungs(i)) /\ WrongCopy(i) => OrderVerdict(i) \in Mismatches

\* What the follower placed for the orders of a ladder.
CopiesOfRungs(rungs) == {j \in DOMAIN copies : copies[j].for \in rungs}
CopiedLots(rungs)    == MapThenSumSet(LAMBDA j : copies[j].size, CopiesOfRungs(rungs))

\* No leg links a copy, or each order has one that does.
LinksAgree ==
  \/ \A i \in DOMAIN orders : LegOf(i).copy = None
  \/ \A i \in DOMAIN orders : LegOf(i).copy # None

\* A ladder whose copies come to more than its share, or to less, is a mismatch
\* on every rung, although the rows may have claimed each other's copies: none is
\* counted twice and none forgotten.  (Of a ladder the master did not cancel.)
WrongLadderIsSeen ==
  Reported /\ scene.faults \intersect {"unreadable", "late", "skips"} = {} /\ LinksAgree
  => \A i \in DOMAIN orders :
       LET rungs  == Rungs(i)
           target == Share(OrderLots(rungs))
       IN  /\ IsLadder(rungs) /\ \A k \in rungs : orders[k].state # "cancelled"
           /\ \/ CopiedLots(rungs) > target + Allowance(Cardinality(rungs))
              \/ CopiedLots(rungs) + Tolerance < target
           => OrderVerdict(i) \in Mismatches

\* "So two master orders can't both claim one fill."
ClaimedOnce ==
  \A i, k \in DOMAIN pairs : i # k /\ pairs[i] # None => pairs[i] # pairs[k]

\* "The master cancelling an order and the follower not is a mismatch in its own
\* right": in a ladder as well.
CancelIsGraded ==
  Reported /\ scene.faults = {"keeps"}
  => \A i \in DOMAIN orders : WrongCopy(i) => OrderVerdict(i) \in Mismatches
=============================================================================
