--------------------------- MODULE OrderExecutor ---------------------------
(***************************************************************************)
(* OrderExecutor.execute: one live copy of a master fill on one follower.  *)
(* A limit at the master's price, polled for FILL_WAIT_SEC, cancelled, and *)
(* the remainder sent to market; then the trade_copies row is settled.     *)
(* The exchange fills the limit, and an operator pauses the account, in    *)
(* between any two awaits.                                                 *)
(***************************************************************************)
EXTENDS Integers

CONSTANTS
  Size,       \* lots to copy (order_size)
  MaxPolls,   \* bound on the polls FILL_WAIT_SEC leaves room for
  Scenarios   \* the sets of disturbances to consider, see AllFaults

AllFaults ==
  { "order_read",    \* get_order fails or carries no fill state
    "cancel",        \* the cancel request or its answer is lost
    "limit_reply",   \* the limit is accepted but its answer is lost
    "market_reply",  \* likewise for the market order
    "rejected",      \* the exchange refuses an order
    "liquidity",     \* the market order fills in part or not at all
    "risk",          \* the risk check refuses the copy
    "db",            \* a write to the database fails and changes nothing
    "pause" }        \* an operator pauses the account meanwhile

ASSUME ExecutorAssumption ==
  /\ Size \in Nat \ {0}
  /\ MaxPolls \in Nat
  /\ Scenarios \subseteq SUBSET AllFaults

VARIABLES
  faults,     \* the disturbances the environment may cause in this behaviour
  limit,      \* the limit order: "none", "open", "closed", "cancelled"
  lfilled,    \* lots it filled
  sent,       \* lots of the market order that reached the exchange
  mfilled,    \* lots it filled
  account,    \* status of the account row: "active" or "paused"
  row,        \* status of the trade_copies row
  rowQty,     \* its quantity
  short,      \* does its failure_reason name a shortfall
  schema,     \* _HAS_PARTIAL_SCHEMA: no write has been refused in this process
  pc,
  polls,      \* polls left before the deadline
  known,      \* filled_qty, what the executor believes has filled
  cancelled   \* its cancel succeeded

exchange == <<limit, lfilled, sent, mfilled>>
database == <<account, row, rowQty, short, schema>>
local    == <<polls, known, cancelled>>
vars     == <<faults, exchange, database, local, pc>>

PC == {"insert", "risk", "limit", "poll", "cancel", "recount", "market",
       "confirm", "revive", "record", "done", "raised"}

Unknown == -1     \* _confirm could not read the order

Fault(f)       == f \in faults
Greatest(a, b) == IF a >= b THEN a ELSE b

TypeOK ==
  /\ faults \in Scenarios
  /\ limit \in {"none", "open", "closed", "cancelled"}
  /\ lfilled \in 0 .. Size
  /\ sent \in 0 .. Size
  /\ mfilled \in 0 .. sent
  /\ account \in {"active", "paused"}
  /\ row \in {"none", "pending", "skipped", "filled", "partial", "failed"}
  /\ rowQty \in 0 .. Size
  /\ short \in BOOLEAN /\ schema \in BOOLEAN
  /\ pc \in PC
  /\ polls \in 0 .. MaxPolls
  /\ known \in 0 .. Size
  /\ cancelled \in BOOLEAN

\* The caller read an active follower; it may have been paused since it did.  An
\* earlier copy may have met a refused write.
Init ==
  /\ faults \in Scenarios
  /\ limit = "none" /\ lfilled = 0 /\ sent = 0 /\ mfilled = 0
  /\ account \in (IF Fault("pause") THEN {"active", "paused"} ELSE {"active"})
  /\ row = "none" /\ rowQty = 0 /\ short = FALSE
  /\ schema \in (IF Fault("db") THEN BOOLEAN ELSE {TRUE})
  /\ pc = "insert" /\ polls = MaxPolls /\ known = 0 /\ cancelled = FALSE
-----------------------------------------------------------------------------
(* The environment. *)

LimitFills ==
  /\ limit = "open"
  /\ \E n \in 1 .. (Size - lfilled) :
       /\ lfilled' = lfilled + n
       /\ limit' = IF lfilled + n = Size THEN "closed" ELSE "open"
  /\ UNCHANGED <<sent, mfilled, database, local, pc>>

\* POST /accounts/{id}/pause
Pause ==
  /\ Fault("pause")
  /\ account = "active"
  /\ account' = "paused"
  /\ UNCHANGED <<exchange, row, rowQty, short, schema, local, pc>>
-----------------------------------------------------------------------------
(* The executor. *)

\* _confirm: the lots an order filled, or Unknown; None is never "zero".
Confirmed(truth) == IF Fault("order_read") THEN {truth, Unknown} ELSE {truth}

Inserted    == row' = "pending" /\ rowQty' = Size /\ pc' = "risk"
NotInserted == Fault("db") /\ pc' = "done" /\ UNCHANGED <<row, rowQty>>

\* The pending row comes before any order.  A first insert that fails is taken
\* for a table without requested_quantity, and repeated without it.
Insert ==
  /\ pc = "insert"
  /\ \/ Inserted /\ UNCHANGED schema
     \/ ~schema /\ NotInserted /\ UNCHANGED schema
     \/ Fault("db") /\ schema /\ schema' = FALSE /\ (Inserted \/ NotInserted)
  /\ UNCHANGED <<exchange, account, short, local>>

\* RiskEngine.check judges the account dict the caller read.  Without a master
\* price there is no limit phase.
RiskCheck ==
  /\ pc = "risk"
  /\ \/ pc' \in {"limit", "market"} /\ UNCHANGED row
     \/ Fault("risk") /\ pc' = "done" /\ row' = "skipped"
     \/ Fault("risk") /\ Fault("db") /\ pc' = "raised" /\ UNCHANGED row
  /\ UNCHANGED <<exchange, account, rowQty, short, schema, local>>

\* Phase 1.  An order whose answer is lost is believed not to exist.
PlaceLimit ==
  /\ pc = "limit"
  /\ \/ limit' = "open" /\ pc' = "poll"
     \/ Fault("limit_reply") /\ limit' = "open" /\ pc' = "market"
     \/ Fault("rejected") /\ pc' = "market" /\ UNCHANGED limit
  /\ UNCHANGED <<lfilled, sent, mfilled, database, local>>

\* At the deadline the remainder goes to market beside the limit.
PollThenMarket ==
  /\ pc = "poll"
  /\ known' = Greatest(known, lfilled)
  /\ pc' = IF known' >= Size THEN "revive" ELSE "market"
  /\ UNCHANGED <<exchange, database, polls, cancelled>>

Poll ==
  /\ pc = "poll"
  /\ \E f \in Confirmed(lfilled) : known' = Greatest(known, f)
  /\ \/ known' >= Size /\ pc' = "revive" /\ UNCHANGED polls
     \/ known' < Size /\ polls > 0 /\ pc' = "poll" /\ polls' = polls - 1
     \/ known' < Size /\ pc' = "cancel" /\ UNCHANGED polls
  /\ UNCHANGED <<exchange, database, cancelled>>

\* As the code once was: the count comes before the cancel, and is trusted.
CancelLimitUncounted ==
  /\ pc = "cancel"
  /\ pc' = "market"
  /\ limit' = IF limit = "open" THEN "cancelled" ELSE limit
  /\ cancelled' = (limit = "open")
  /\ UNCHANGED <<lfilled, sent, mfilled, database, polls, known>>

CancelLimit ==
  /\ pc = "cancel"
  /\ pc' = "recount"
  /\ \/ limit = "open" /\ limit' = "cancelled" /\ cancelled' = TRUE
     \/ limit = "closed" /\ UNCHANGED <<limit, cancelled>>
     \/ /\ Fault("cancel") /\ limit = "open"
        /\ limit' \in {"open", "cancelled"}
        /\ UNCHANGED cancelled
  /\ UNCHANGED <<lfilled, sent, mfilled, database, polls, known>>

\* The final count.  Neither cancelled nor readable is unknown_state: phase 2
\* is skipped.
Recount ==
  /\ pc = "recount"
  /\ \E f \in Confirmed(lfilled) :
       /\ known' = Greatest(known, f)
       /\ pc' = IF known' >= Size \/ (f = Unknown /\ ~cancelled)
                THEN "revive" ELSE "market"
  /\ UNCHANGED <<exchange, database, polls, cancelled>>

\* Phase 2.
SendMarket ==
  /\ pc = "market"
  /\ \/ /\ sent' = Size - known
        /\ mfilled' \in (IF Fault("liquidity") THEN 0 .. sent' ELSE {sent'})
        /\ pc' \in (IF Fault("market_reply") THEN {"confirm", "revive"} ELSE {"confirm"})
     \/ Fault("rejected") /\ pc' = "revive" /\ UNCHANGED <<sent, mfilled>>
  /\ UNCHANGED <<limit, lfilled, database, local>>

\* The lots assumed are the copy's, not the remainder's.
ConfirmMarketWhole ==
  /\ pc = "confirm"
  /\ \E f \in Confirmed(mfilled) :
       known' = known + (IF f = Unknown THEN Size ELSE f)
  /\ pc' = "revive"
  /\ UNCHANGED <<exchange, database, polls, cancelled>>

\* An accepted market order that cannot be read is assumed filled.
ConfirmMarket ==
  /\ pc = "confirm"
  /\ \E f \in Confirmed(mfilled) :
       known' = known + (IF f = Unknown THEN Size - known ELSE f)
  /\ pc' = "revive"
  /\ UNCHANGED <<exchange, database, polls, cancelled>>

\* A fill resets the account: consecutive_failures 0, status active.
Revive ==
  /\ pc = "revive"
  /\ \/ known > 0 /\ account' = "active" /\ pc' = "record"
     \/ known = 0 /\ UNCHANGED account /\ pc' = "record"
     \/ Fault("db") /\ known > 0 /\ UNCHANGED account /\ pc' = "raised"
  /\ UNCHANGED <<exchange, row, rowQty, short, schema, local>>

\* One write of the row's terminal status, with the shortfall in its reason.
Written(status, quantity) ==
  row' = status /\ rowQty' = quantity /\ short' = (quantity < Size) /\ pc' = "done"
Unwritten == Fault("db") /\ pc' = "raised" /\ UNCHANGED <<row, rowQty, short>>

\* As the code once was: anything that filled is "filled".
RecordAnyFill ==
  /\ pc = "record"
  /\ \/ known = 0 /\ Written("failed", rowQty)
     \/ known > 0 /\ Written("filled", known)
  /\ UNCHANGED <<exchange, account, schema, local>>

\* A copy that filled nothing leaves its row alone.
RecordFillsOnly ==
  /\ pc = "record"
  /\ \/ known = 0 /\ pc' = "done" /\ UNCHANGED <<row, rowQty, short>>
     \/ known \in 1 .. (Size - 1) /\ Written("partial", known)
     \/ known = Size /\ Written("filled", known)
  /\ UNCHANGED <<exchange, account, schema, local>>

\* The row's terminal status; a failed one keeps the quantity it asked for.  A
\* "partial" that is refused is taken for a table that does not know the status,
\* and written again as "filled".
Record ==
  /\ pc = "record"
  /\ \/ known = 0 /\ (Written("failed", rowQty) \/ Unwritten) /\ UNCHANGED schema
     \/ known = Size /\ (Written("filled", known) \/ Unwritten) /\ UNCHANGED schema
     \/ known \in 1 .. (Size - 1) /\ Written("partial", known) /\ UNCHANGED schema
     \/ /\ known \in 1 .. (Size - 1)
        /\ Fault("db") /\ schema' = FALSE
        /\ Written("filled", known) \/ Unwritten
  /\ UNCHANGED <<exchange, account, local>>

Step ==
  \/ Insert \/ RiskCheck \/ PlaceLimit \/ Poll \/ CancelLimit \/ Recount
  \/ SendMarket \/ ConfirmMarket \/ Revive \/ Record

Next == (LimitFills \/ Pause \/ Step) /\ UNCHANGED faults

Spec == Init /\ [][Next]_vars

\* The coroutine runs to its end; the exchange and the operator owe nothing.
FairSpec == Spec /\ WF_vars(Step /\ UNCHANGED faults)
-----------------------------------------------------------------------------
(* Properties.                                                             *)

\* What most of them need: every request is answered and every order can be
\* read.  Refusals, thin books, a failing database and a pause may still happen.
Answered == {"order_read", "cancel", "limit_reply", "market_reply"} \intersect faults = {}

\* The limit and the market remainder together never exceed the copy's size:
\* "an over-filled one leaves the follower long/short more than the master".
NeverOverfills == Answered => lfilled + sent <= Size

\* "None means UNKNOWN, never "zero filled"": the same when a read of the order
\* fails, and nothing else.
HiccupNeverDoubleFills == faults \subseteq {"order_read"} => lfilled + sent <= Size

\* The market remainder goes out only when the limit can no longer fill:
\* "Cancel FIRST, then count".
NoMarketOverLiveLimit == Answered /\ sent > 0 => limit # "open"

\* The settled row says what the exchange did: its lots, whether they fell short
\* ("the shortfall still reaches failure_reason, so the information isn't lost -
\* only the badge is"), and by its status, unless the database refused a write.
RecordMatchesExchange ==
  Answered /\ pc = "done" =>
    /\ row \in {"filled", "partial"} =>
         rowQty = lfilled + mfilled /\ (short <=> rowQty < Size)
    /\ row = "partial" => rowQty < Size
    /\ row = "filled" /\ schema => rowQty = Size
    /\ row \in {"failed", "skipped", "none"} => lfilled + mfilled = 0

\* Whatever was lost or unreadable, the row never claims lots that no order of
\* this copy asked the exchange for and could have got.
NeverClaimsUnordered == row \in {"filled", "partial"} => rowQty <= lfilled + sent

\* A copy that was begun is settled: no row stays pending, whatever the exchange
\* does, as long as the database works.
EventuallyRecorded == (~Fault("db") /\ row = "pending") ~> (row # "pending")

\* A pause lasts until an operator resumes the account ("Pause copying and
\* disconnect WS"): no execution lifts it.  Stated and not checked: Revive does.
PauseHolds == [][account = "paused" => account' = "paused"]_vars

\* The abstract promise: one force, of a withdrawn limit, for its remainder.
Phase ==
  IF sent > 0 THEN "forced"
  ELSE IF \/ limit = "cancelled"
          \/ limit = "none" /\ (pc \in {"market", "revive", "record", "raised"} \/ row = "failed")
       THEN "withdrawn" ELSE "resting"

Promise == INSTANCE ForceOnce WITH Qty <- Size, phase <- Phase,
                                   filled <- lfilled, forced <- sent

CopiesOnce == Promise!Init /\ [][Answered => Promise!Next]_(Promise!forceVars)
=============================================================================
