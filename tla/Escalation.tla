----------------------------- MODULE Escalation -----------------------------
(***************************************************************************)
(* "Limit, 5 s, then market": the tasks CopyEngine runs to force one       *)
(* follower order that mirrors a resting limit of the master.              *)
(*                                                                         *)
(* One task is spawned when the mirror is placed (it knows the master's    *)
(* order id), others when the master's order is reported filled (they do   *)
(* not).  They run concurrently with each other, with the exchange and     *)
(* with every other handler: each action below is the code between two     *)
(* awaits.  Positions are counted in follower lots (ratio 1).              *)
(***************************************************************************)
EXTENDS Integers

CONSTANTS
  Placed,       \* tasks spawned by _mirror_place
  Filled,       \* tasks spawned by _escalate_after_master_fill
  Qty,          \* lots of the mirror, and of the master's order
  MaxPos,       \* bound on the position the master starts from
  TolerancePct, \* RECON_SIZE_TOLERANCE_PCT
  Scenarios     \* what may be mirrored and what may go wrong, see Scenario

Task == Placed \union Filled

AllFaults ==
  { "order_read",     \* get_order fails: _safe_get_order answers {}
    "position_read",  \* get_positions fails: it answers [], read as size 0
    "stale_cache",    \* _master_pos_cache is shared with the other handlers
    "ratio",          \* the follower's ratio cannot be computed
    "redis",          \* Redis does not answer
    "claim_expiry",   \* the claim's TTL runs out
    "cancel",         \* a cancel request or its answer is lost
    "market",         \* a market order or its answer is lost
    "cancel_elsewhere", \* another handler (or the desk) cancels the mirror
    "master_trades" } \* the master also reduces through other orders

\* An entry or an exit (reduce_only), and the disturbances the environment may
\* cause; neither changes while the mirror lives.
Scenario == [exit : BOOLEAN, faults : SUBSET AllFaults]

ASSUME EscalationAssumption ==
  /\ Placed \intersect Filled = {}
  /\ Qty \in Nat \ {0}
  /\ MaxPos \in Nat
  /\ MaxPos >= Qty
  /\ TolerancePct \in Nat
  /\ Scenarios \subseteq Scenario

VARIABLES
  scene,        \* the scenario of this behaviour
  order,        \* the mirror at the exchange: "open", "closed", "cancelled"
  filled,       \* lots it filled
  mfilled,      \* lots the master's order filled
  mpos,         \* the master's position
  held,         \* the follower's position
  mcache,       \* _master_pos_cache for the symbol, NoValue when expired
  aged,         \* tasks that slept before the cached value was written
  claim,        \* is the key escalating:{order_id} set
  mapped,       \* what ordermap names: "mirror", or the "market" order
  pc,           \* where each task stands
  seen,         \* master position a task last read
  cancelled,    \* the task's own cancel succeeded
  want,         \* lots the task is about to market
  forced,       \* lots marketed in place of the mirror
  forcers       \* tasks whose market order reached the exchange

exchange == <<order, filled, mfilled, mpos, held>>
local    == <<pc, seen, cancelled, want>>
history  == <<forced, forcers>>
vars     == <<scene, exchange, mcache, aged, claim, mapped, local, history>>

NoValue == -1

PC == {"idle", "sleep", "mirror", "master", "warrant", "excess", "drop",
       "claim", "cancel", "readback", "resize", "cap", "market", "repoint",
       "done"}

Fault(f) == f \in scene.faults
ReduceOnly == scene.exit

Least(a, b)    == IF a <= b THEN a ELSE b
Greatest(a, b) == IF a >= b THEN a ELSE b

TypeOK ==
  /\ scene \in Scenarios
  /\ order \in {"open", "closed", "cancelled"}
  /\ filled \in 0 .. Qty
  /\ mfilled \in 0 .. Qty
  /\ mpos \in Nat
  /\ held \in Int
  /\ mcache \in Int
  /\ aged \subseteq Task
  /\ claim \in BOOLEAN
  /\ mapped \in {"mirror", "market"}
  /\ pc \in [Task -> PC]
  /\ seen \in [Task -> Int]
  /\ cancelled \in [Task -> BOOLEAN]
  /\ want \in [Task -> 0 .. Qty]
  /\ forced \in Int
  /\ forcers \subseteq Task

\* The mirror has just been placed and mapped, its task is asleep.  An exit
\* rests against a position of at least its size; the follower may hold more
\* or less than its share.
Init ==
  /\ scene \in Scenarios
  /\ order = "open" /\ filled = 0 /\ mfilled = 0
  /\ mpos \in (IF ReduceOnly THEN Qty .. MaxPos ELSE 0 .. MaxPos)
  /\ held \in (IF ReduceOnly THEN Qty .. MaxPos ELSE {mpos})
  /\ mcache = NoValue /\ aged = {} /\ claim = FALSE /\ mapped = "mirror"
  /\ pc = [t \in Task |-> IF t \in Placed THEN "sleep" ELSE "idle"]
  /\ seen = [t \in Task |-> 0]
  /\ cancelled = [t \in Task |-> FALSE]
  /\ want = [t \in Task |-> 0]
  /\ forced = 0 /\ forcers = {}
-----------------------------------------------------------------------------
(* The environment: the exchange, the master, the other handlers. *)

\* An entry adds to a position, an exit reduces it.
Moved(pos, n) == IF ReduceOnly THEN pos - n ELSE pos + n

MirrorFills ==
  /\ order = "open"
  /\ \E n \in 1 .. (Qty - filled) :
       /\ filled' = filled + n
       /\ held' = Moved(held, n)
       /\ order' = IF filled + n = Qty THEN "closed" ELSE "open"
  /\ UNCHANGED <<mfilled, mpos, mcache, aged, claim, mapped, local, history>>

MasterFills ==
  /\ \E n \in 1 .. (Qty - mfilled) :
       /\ ReduceOnly => n <= mpos
       /\ mfilled' = mfilled + n
       /\ mpos' = Moved(mpos, n)
  /\ UNCHANGED <<order, filled, held, mcache, aged, claim, mapped, local, history>>

MasterTrades ==
  /\ Fault("master_trades")
  /\ mpos > 0
  /\ mpos' = mpos - 1
  /\ UNCHANGED <<order, filled, mfilled, held, mcache, aged, claim, mapped, local, history>>

CancelledElsewhere ==
  /\ Fault("cancel_elsewhere")
  /\ order = "open"
  /\ order' = "cancelled"
  /\ UNCHANGED <<filled, mfilled, mpos, held, mcache, aged, claim, mapped, local, history>>

\* Another handler reads the master's position and caches it.
CachedElsewhere ==
  /\ Fault("stale_cache")
  /\ mcache = NoValue
  /\ mcache' = mpos
  /\ aged' = {}
  /\ UNCHANGED <<exchange, claim, mapped, local, history>>

\* _MASTER_POS_TTL runs out.
CacheExpires ==
  /\ mcache # NoValue
  /\ mcache' = NoValue
  /\ aged' = {}
  /\ UNCHANGED <<exchange, claim, mapped, local, history>>

\* ESCALATION_CLAIM_TTL runs out.
ClaimExpires ==
  /\ Fault("claim_expiry")
  /\ claim
  /\ claim' = FALSE
  /\ UNCHANGED <<exchange, mcache, aged, mapped, local, history>>
-----------------------------------------------------------------------------
(* Helpers of the tasks. *)

MasterDone == mfilled = Qty        \* _order_done of the master's order
MirrorDone == order = "closed"     \* _order_done: a cancelled order is not done

At(t, from)   == pc[t] = from
Goto(t, to)   == pc' = [pc EXCEPT ![t] = to]
Finish(t)     == Goto(t, "done")
Unshared      == UNCHANGED <<claim, mapped>>

\* Outcomes of a read of one's own: the truth or, when it fails, the fallback.
Answer(fault, truth, fallback) == IF Fault(fault) THEN {truth, fallback} ELSE {truth}

\* _master_position_size: the cached value while it lasts, else the exchange's;
\* a failed read is 0, and is cached like any other.
ReadMasterPosition(t) ==
  IF mcache # NoValue
  THEN /\ seen' = [seen EXCEPT ![t] = mcache]
       /\ UNCHANGED <<mcache, aged>>
  ELSE \E m \in Answer("position_read", mpos, 0) :
         /\ seen' = [seen EXCEPT ![t] = m]
         /\ IF Fault("stale_cache")
            THEN mcache' = m /\ aged' = {}
            ELSE UNCHANGED <<mcache, aged>>

\* The least difference from a target that is acted on: a lot, or so many per
\* cent of the target, whichever is more (in whole lots: rounded up).
SizeDeadband(target) == Greatest(1, (target * TolerancePct + 99) \div 100)

\* The deadband compared the wrong way round: an excess of exactly the deadband
\* is never closed.
CloseQtyAboveDeadband(target, cur) ==
  LET excess == Greatest(0, cur - target)
  IN  IF excess <= SizeDeadband(target) THEN 0 ELSE excess

\* _follower_close_qty: what the follower holds above its share of the master.
CloseQty(target, cur) ==
  LET excess == Greatest(0, cur - target)
  IN  IF excess < SizeDeadband(target) THEN 0 ELSE excess

\* The ratio reads as 0 although the master holds something.
Unsized(t) == Fault("ratio") /\ seen[t] > 0
-----------------------------------------------------------------------------
(* The task _escalate_unfilled_limit, and the handler that spawns more. *)

\* _escalate_after_master_fill: on a COMPLETE fill, for a mirror it can read
\* that is not done.
Spawn(t) ==
  /\ t \in Filled /\ At(t, "idle")
  /\ MasterDone /\ ~MirrorDone
  /\ Goto(t, "sleep")
  /\ aged' = IF mcache # NoValue THEN aged \union {t} ELSE aged
  /\ UNCHANGED <<exchange, mcache, seen, cancelled, want, history>> /\ Unshared

\* A wait shorter than the cache's TTL.
WakeEarly(t) ==
  /\ At(t, "sleep")
  /\ Goto(t, "mirror")
  /\ UNCHANGED <<exchange, mcache, aged, seen, cancelled, want, history>> /\ Unshared

\* ESCALATE_WAIT_SEC (5 s) exceeds _MASTER_POS_TTL (3 s): a position cached
\* before the sleep began has expired when it ends.
Wake(t) ==
  /\ At(t, "sleep") /\ t \notin aged
  /\ Goto(t, "mirror")
  /\ UNCHANGED <<exchange, mcache, aged, seen, cancelled, want, history>> /\ Unshared

CheckMirror(t) ==
  /\ At(t, "mirror")
  /\ \E mirrorDone \in Answer("order_read", MirrorDone, FALSE) :
       IF mirrorDone THEN Finish(t)
       ELSE Goto(t, IF t \in Placed THEN "master" ELSE "warrant")
  /\ UNCHANGED <<exchange, mcache, aged, seen, cancelled, want, history>> /\ Unshared

\* The task no longer waits with the master.
CheckMasterSkipped(t) ==
  /\ At(t, "master")
  /\ Goto(t, "warrant")
  /\ UNCHANGED <<exchange, mcache, aged, seen, cancelled, want, history>> /\ Unshared

\* Never ahead of the master: wait with him while his order rests.  An order
\* that cannot be read does not stop the task.
CheckMaster(t) ==
  /\ At(t, "master")
  /\ \E resting \in Answer("order_read", ~MasterDone, FALSE) :
       IF resting THEN Finish(t) ELSE Goto(t, "warrant")
  /\ UNCHANGED <<exchange, mcache, aged, seen, cancelled, want, history>> /\ Unshared

\* Is forcing still warranted?  The master's position first.
Warrant(t) ==
  /\ At(t, "warrant")
  /\ ReadMasterPosition(t)
  /\ IF ReduceOnly THEN Goto(t, "excess")
     ELSE IF seen'[t] = 0 THEN Finish(t) ELSE Goto(t, "claim")
  /\ UNCHANGED <<exchange, cancelled, want, history>> /\ Unshared

\* An exit: then the follower's.
Excess(t) ==
  /\ At(t, "excess")
  /\ \/ Unsized(t) /\ Finish(t)
     \/ \E cur \in Answer("position_read", held, 0) :
          Goto(t, IF CloseQty(seen[t], cur) < 1 THEN "drop" ELSE "claim")
  /\ UNCHANGED <<exchange, mcache, aged, seen, cancelled, want, history>> /\ Unshared

\* The cancel request at the exchange: it succeeds on an open order only, and
\* the request or its answer may be lost.  ok is what the caller is told.
CancelRequest(ok) ==
  \/ ok /\ order = "open" /\ order' = "cancelled"
  \/ ~ok /\ order # "open" /\ UNCHANGED order
  \/ ~ok /\ Fault("cancel") /\ order = "open" /\ order' \in {"open", "cancelled"}

\* Nothing is owed: cancel the stale limit, with no claim, and stop.
Drop(t) ==
  /\ At(t, "drop")
  /\ \E ok \in BOOLEAN : CancelRequest(ok)
  /\ Finish(t)
  /\ UNCHANGED <<filled, mfilled, mpos, held, mcache, aged, seen, cancelled, want, history>>
  /\ Unshared

\* _claim_escalation: SET NX; granted as well when Redis is unreachable.
Claim(t) ==
  /\ At(t, "claim")
  /\ \/ ~claim /\ claim' = TRUE /\ Goto(t, "cancel")
     \/ claim /\ UNCHANGED claim /\ Finish(t)
     \/ Fault("redis") /\ UNCHANGED claim /\ Goto(t, "cancel")
  /\ UNCHANGED <<exchange, mcache, aged, mapped, seen, cancelled, want, history>>

Cancel(t) ==
  /\ At(t, "cancel")
  /\ \E ok \in BOOLEAN :
       /\ CancelRequest(ok)
       /\ cancelled' = [cancelled EXCEPT ![t] = ok]
  /\ Goto(t, "readback")
  /\ UNCHANGED <<filled, mfilled, mpos, held, mcache, aged, seen, want, history>>
  /\ Unshared

\* As the code once was: a cancel that failed stops the task only when the
\* order is done, and a cancelled order is not.
ReadBackUnlessDone(t) ==
  /\ At(t, "readback")
  /\ want' = [want EXCEPT ![t] = Qty - filled]
  /\ IF ~cancelled[t] /\ MirrorDone THEN Finish(t)
     ELSE Goto(t, IF want'[t] < 1 THEN "done" ELSE "market")
  /\ UNCHANGED <<exchange, mcache, aged, seen, cancelled, history>> /\ Unshared

\* The whole order is marketed, whatever the limit filled.
ReadBackWhole(t) ==
  /\ At(t, "readback")
  /\ want' = [want EXCEPT ![t] = Qty]
  /\ IF cancelled[t] THEN Goto(t, "market") ELSE Finish(t)
  /\ UNCHANGED <<exchange, mcache, aged, seen, cancelled, history>> /\ Unshared

\* The filled part is added instead of subtracted.
ReadBackAdded(t) ==
  /\ At(t, "readback")
  /\ want' = [want EXCEPT ![t] = Qty + filled]
  /\ IF cancelled[t] THEN Goto(t, "market") ELSE Finish(t)
  /\ UNCHANGED <<exchange, mcache, aged, seen, cancelled, history>> /\ Unshared

\* Only the caller whose cancel succeeded may market, and only the remainder;
\* _filled_size of an order that cannot be read is 0.
ReadBack(t) ==
  /\ At(t, "readback")
  /\ \E f \in Answer("order_read", filled, 0) :
       want' = [want EXCEPT ![t] = Qty - f]
  /\ IF ~cancelled[t] THEN Finish(t)
     ELSE IF ReduceOnly THEN Goto(t, "resize")
     ELSE Goto(t, IF want'[t] < 1 THEN "done" ELSE "market")
  /\ UNCHANGED <<exchange, mcache, aged, seen, cancelled, history>> /\ Unshared

\* An exit is sized again, master first, and capped by what is owed.
Resize(t) ==
  /\ At(t, "resize")
  /\ ReadMasterPosition(t)
  /\ Goto(t, "cap")
  /\ UNCHANGED <<exchange, cancelled, want, history>> /\ Unshared

\* A share that cannot be computed is taken for "no cap".
CapUnlessUnsized(t) ==
  /\ At(t, "cap")
  /\ \/ Unsized(t) /\ UNCHANGED want /\ Goto(t, IF want[t] < 1 THEN "done" ELSE "market")
     \/ /\ want' = [want EXCEPT ![t] = Least(@, CloseQty(seen[t], held))]
        /\ Goto(t, IF want'[t] < 1 THEN "done" ELSE "market")
  /\ UNCHANGED <<exchange, mcache, aged, seen, cancelled, history>> /\ Unshared

\* The remainder, or what is owed if that is less.
Cap(t) ==
  /\ At(t, "cap")
  /\ \/ Unsized(t) /\ Finish(t) /\ UNCHANGED want
     \/ \E cur \in Answer("position_read", held, 0) :
          /\ want' = [want EXCEPT ![t] = Least(@, CloseQty(seen[t], cur))]
          /\ Goto(t, IF want'[t] < 1 THEN "done" ELSE "market")
  /\ UNCHANGED <<exchange, mcache, aged, seen, cancelled, history>> /\ Unshared

\* The market order fills at once.  It may be refused or lost before the
\* exchange sees it, or its answer may be lost: the task then stops.
Market(t) ==
  /\ At(t, "market")
  /\ \/ /\ forced' = forced + want[t]
        /\ forcers' = forcers \union {t}
        /\ held' = Moved(held, want[t])
        /\ \/ Goto(t, IF t \in Placed THEN "repoint" ELSE "done")
           \/ Fault("market") /\ Finish(t)
     \/ /\ Fault("market") /\ Finish(t)
        /\ UNCHANGED <<forced, forcers, held>>
  /\ UNCHANGED <<order, filled, mfilled, mpos, mcache, aged, seen, cancelled, want>>
  /\ Unshared

\* ordermap is re-pointed at the market order, by tasks that know the id.
Repoint(t) ==
  /\ At(t, "repoint")
  /\ \/ mapped' = "market"
     \/ Fault("redis") /\ UNCHANGED mapped
  /\ Finish(t)
  /\ UNCHANGED <<exchange, mcache, aged, claim, seen, cancelled, want, history>>

TaskStep(t) ==
  \/ Wake(t) \/ CheckMirror(t) \/ CheckMaster(t) \/ Warrant(t) \/ Excess(t)
  \/ Drop(t) \/ Claim(t) \/ Cancel(t) \/ ReadBack(t) \/ Resize(t) \/ Cap(t)
  \/ Market(t) \/ Repoint(t)

Environment ==
  \/ MirrorFills \/ MasterFills \/ MasterTrades \/ CancelledElsewhere
  \/ CachedElsewhere \/ CacheExpires \/ ClaimExpires

Next ==
  /\ \/ Environment
     \/ \E t \in Task : Spawn(t) \/ TaskStep(t)
  /\ UNCHANGED scene

Spec == Init /\ [][Next]_vars

\* Every spawned task runs, a delivered fill event is handled, caches expire.
\* Nothing obliges the master, the exchange or another handler to act.
Fairness ==
  /\ \A t \in Task : /\ WF_vars(Spawn(t) /\ UNCHANGED scene)
                     /\ WF_vars(TaskStep(t) /\ UNCHANGED scene)
  /\ WF_vars(CacheExpires /\ UNCHANGED scene)

FairSpec == Spec /\ Fairness
-----------------------------------------------------------------------------
(* Properties.  Some hold only where certain disturbances are absent; each   *)
(* of those says so.                                                        *)

\* At most one of the tasks that wake up for a mirror ever markets its lots,
\* with or without the Redis claim: cancelling is the claim.
OneForcer == \A t, u \in forcers : t = u

\* Nothing is marketed while the limit it replaces can still fill.
NoMarketOverLiveLimit == forcers # {} => order = "cancelled"

\* The mirror and the market order that replaces it never exceed the order
\* ("Only forces when still warranted, and never double-fills"), as long as the
\* cancelled mirror can be read: an unreadable one counts as unfilled.
NeverDoubleFills == ~Fault("order_read") => filled + forced <= Qty

\* An exit forced to market stops at the follower's share of what the master
\* still holds; it never flattens a follower whose master kept a part.  A failed
\* read of his position is the size 0, and would.
ForceStopsAtShare ==
  [][\A t \in Task :
       ReduceOnly /\ ~Fault("position_read") /\ t \notin forcers /\ t \in forcers'
         => held' >= mpos']_vars

\* Nothing is forced for a master whose order still rests, unless that order
\* could not be read.
NeverAheadOfMaster == ~Fault("order_read") /\ forcers # {} => MasterDone

\* Once a market order has replaced the mirror and its task is over, ordermap
\* names the market order and not the limit that was cancelled.  Stated and not
\* checked: the tasks in Filled do not know the master's order, and leave it.
MapNamesTheFill ==
  \A t \in forcers : At(t, "done") => mapped = "market"

\* Every fill of the master is copied in the end: the follower fills its order,
\* by the limit or at market, unless the master left or the limit was withdrawn
\* by somebody else.
\* The engine's requests are answered; only its cache and the world may move.
Withdrawn == order = "cancelled" /\ \A t \in Task : ~cancelled[t]
Answered  == scene.faults \subseteq {"stale_cache", "master_trades", "cancel_elsewhere"}

MasterFillCopied ==
  (Answered /\ ~ReduceOnly /\ MasterDone)
    ~> (filled + forced = Qty \/ mpos = 0 \/ Withdrawn)

\* The same for an exit, when no disturbance is allowed: the follower comes down
\* to less than a deadband above its share of what the master kept, or has closed
\* all that the mirror was sized to close.
MasterExitCopied ==
  (scene.faults = {} /\ ReduceOnly /\ MasterDone)
    ~> (held - mpos < SizeDeadband(mpos) \/ filled + forced = Qty)

\* The abstract promise, over this state.
Phase ==
  IF forced > 0 THEN "forced"
  ELSE IF order = "cancelled" THEN "withdrawn" ELSE "resting"

Promise == INSTANCE ForceOnce WITH phase <- Phase

\* The tasks keep the promise where the mirror can be read.
ForcesOnce ==
  Promise!Init /\ [][~Fault("order_read") => Promise!Next]_(Promise!forceVars)
=============================================================================
