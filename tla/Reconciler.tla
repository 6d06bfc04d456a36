----------------------------- MODULE Reconciler -----------------------------
(***************************************************************************)
(* The position reconciler: every 10 s each master's listener pushes a     *)
(* snapshot of its positions, and _reconcile_positions makes its follower  *)
(* match, one pass at a time for all owners (they share the lock "_").     *)
(* One symbol, one follower for each owner, a ratio of 1: the follower's   *)
(* share of a position is the position.  Beside the passes the master      *)
(* trades, the live copy copies or misses him, mirrors rest and fill, and  *)
(* stops fire.                                                             *)
(***************************************************************************)
EXTENDS Integers, Sequences, FiniteSets

CONSTANTS
  Owner,      \* the masters, each with its follower
  MaxQueue,   \* bound on the snapshots waiting
  TolerancePct,  \* RECON_SIZE_TOLERANCE_PCT
  Scenarios   \* the bounds and disturbances to consider, see Scenario

AllFaults ==
  { "missed",     \* the live copy misses a trade, or mirrors rest and linger
    "backlog",    \* passes run late, back to back, while the world moves
    "master",     \* the listener's get_positions fails, and returns []
    "follower",   \* the follower's get_positions fails, and returns []
    "client",     \* no client for the follower
    "accounts",   \* the accounts table cannot be read
    "orders",     \* the follower's orders cannot be read, and count as none
    "ratio",      \* a balance reads as 0
    "fills",      \* the master's fills cannot be read
    "book",       \* the master's orders cannot be read
    "refused",    \* the exchange refuses an order
    "cancel",     \* a cancel request fails
    "stops",      \* stops rest and fire
    "redis",      \* a command to Redis fails
    "crash" }     \* the process restarts

\* What bounds one behaviour, and what may disturb it.
Scenario ==
  [ maxSize   : Nat \ {0},          \* bound on a position
    minSize   : Int \ (Nat \ {0}),  \* and below: a short is negative
    maxMoves  : Nat,                \* on what the world does beside the passes
    maxHidden : Nat,                \* on the reads of a position that lag
    maxFails  : Nat,                \* on the reads and requests that fail
    faults    : SUBSET AllFaults ]

ASSUME ReconcilerAssumption ==
  /\ Owner # {} /\ IsFiniteSet(Owner)
  /\ MaxQueue \in Nat \ {0} /\ TolerancePct \in Nat
  /\ \A s \in Scenarios : s \in Scenario

VARIABLES
  scene,      \* the scenario of this behaviour
  master,     \* each master's position
  age,        \* how long ago he last filled: 0 .. 3, see Ages
  working,    \* he has a resting order that reduces it
  exit,       \* how he last got flat
  marking,    \* the event of his stop is not yet handled
  held,       \* the follower's position
  before,     \* its position before the fills of the last seconds
  entry,      \* its resting entry of one lot: its side, 0 for none
  closing,    \* a reduce-only order of one lot rests against its position
  stop,       \* its own stop rests
  handsoff,   \* handsoff:{owner}:{follower}:{symbol} in Redis
  peak,       \* mpeak:{owner}:{symbol} in Redis
  memPeak,    \* _master_size_peak of the symbol, for all owners; 0 if absent
  queue,      \* the snapshots in order_events
  due,        \* the owners whose listener is due to push a snapshot
  debounced,  \* followers with a recent _recon_open_ts
  openPrev, closePrev, trimPrev, topupPrev,  \* the last pass's candidates
  pass,       \* the pass in progress
  moves, hidden, fails,  \* how much the bounds have left
  high,       \* history: the largest snapshot of the leg each master is in
  spared      \* history: a pass found the leg marked hands-off, and it lasts

world   == <<master, age, working, exit, marking>>
account == <<held, before, entry, closing, stop>>
redis   == <<handsoff, peak>>
latches == <<openPrev, closePrev, trimPrev, topupPrev>>
clock   == <<due, debounced>>
bounds  == <<moves, hidden, fails>>
history == <<high, spared>>
vars == <<scene, world, account, redis, memPeak, queue, clock, latches, pass, bounds, history>>

Size == scene.minSize .. scene.maxSize
\* 0: within TRIM_SETTLE_SEC, 1: within STALE_ORPHAN_SEC, 2: within
\* FRESH_ENTRY_SEC, 3: longer ago, or not among the last hundred fills.
Ages == 0 .. 3
Kinds == {"none", "open", "close", "trim", "topup"}

Fault(f)   == f \in scene.faults
Fails(f)   == Fault(f) /\ fails < scene.maxFails
Abs(n)     == IF n < 0 THEN -n ELSE n
Sign(n)    == IF n < 0 THEN -1 ELSE IF n = 0 THEN 0 ELSE 1
Least(a, b) == IF a <= b THEN a ELSE b
Greatest(a, b) == IF a >= b THEN a ELSE b
SameSide(a, b) == Sign(a) = Sign(b) /\ a # 0

Idle == [at |-> "idle", owner |-> CHOOSE o \in Owner : TRUE, msz |-> 0, seen |-> 0,
         entry |-> 0, closing |-> FALSE, stop |-> FALSE, kind |-> "none", lots |-> 0]

TypeOK ==
  /\ scene \in Scenarios
  /\ master \in [Owner -> Size] /\ age \in [Owner -> Ages]
  /\ working \in [Owner -> BOOLEAN] /\ exit \in [Owner -> {"manual", "sl_tp", "unknown"}]
  /\ marking \in [Owner -> BOOLEAN]
  /\ held \in [Owner -> Int] /\ before \in [Owner -> Int]
  /\ entry \in [Owner -> -1 .. 1] /\ closing \in [Owner -> BOOLEAN] /\ stop \in [Owner -> BOOLEAN]
  /\ handsoff \in [Owner -> BOOLEAN]
  /\ peak \in [Owner -> Nat] /\ memPeak \in Nat
  /\ queue \in Seq(Owner \X Size) /\ Len(queue) <= MaxQueue
  /\ due \subseteq Owner /\ debounced \subseteq Owner
  /\ openPrev \subseteq Owner /\ closePrev \subseteq Owner
  /\ trimPrev \subseteq Owner \X (Nat \ {0})
  /\ topupPrev \in [Owner -> 0 .. Greatest(scene.maxSize, -scene.minSize)]
  /\ pass \in [at : {"idle", "taken", "judge", "cancel", "order"}, owner : Owner,
               msz : Size, seen : Int, entry : -1 .. 1, closing : BOOLEAN,
               stop : BOOLEAN, kind : Kinds, lots : Nat]
  /\ moves \in 0 .. scene.maxMoves /\ hidden \in 0 .. scene.maxHidden /\ fails \in 0 .. scene.maxFails
  /\ high \in [Owner -> Nat] /\ spared \in [Owner -> BOOLEAN]

Init ==
  /\ scene \in Scenarios
  /\ master = [o \in Owner |-> 0] /\ age = [o \in Owner |-> 3]
  /\ working = [o \in Owner |-> FALSE] /\ exit = [o \in Owner |-> "unknown"]
  /\ marking = [o \in Owner |-> FALSE]
  /\ held = [o \in Owner |-> 0] /\ before = [o \in Owner |-> 0]
  /\ entry = [o \in Owner |-> 0] /\ closing = [o \in Owner |-> FALSE] /\ stop = [o \in Owner |-> FALSE]
  /\ handsoff = [o \in Owner |-> FALSE] /\ peak = [o \in Owner |-> 0]
  /\ memPeak = 0 /\ queue = <<>> /\ due = Owner /\ debounced = {}
  /\ openPrev = {} /\ closePrev = {} /\ trimPrev = {}
  /\ topupPrev = [o \in Owner |-> 0]
  /\ pass = Idle /\ moves = 0 /\ hidden = 0 /\ fails = 0
  /\ high = [o \in Owner |-> 0] /\ spared = [o \in Owner |-> FALSE]
-----------------------------------------------------------------------------
(* The world beside the passes.  A pass takes well under a second and runs *)
(* when its snapshot is pushed; only a backlog lets the world move between *)
(* a snapshot and the orders it leads to.                                  *)

Quiet == queue = <<>> /\ pass.at = "idle"
Moves ==
  /\ Quiet \/ Fault("backlog")
  /\ moves < scene.maxMoves /\ moves' = moves + 1
  /\ UNCHANGED <<hidden, fails, peak, memPeak, queue, clock, latches, pass, high>>

\* The position the exchange reports lags by a second or two.
HoldsNow(o, n) == held' = [held EXCEPT ![o] = n] /\ UNCHANGED before

\* The follower's leg is over when it is flat, or the master re-enters.
Lasts(o, m, h) == spared' = [spared EXCEPT ![o] = @ /\ m = 0 /\ h # 0]

\* The master trades; the live copy copies him at once, misses him, or copies
\* one lot of it.
MasterTrades(o) ==
  /\ Moves
  /\ \E m \in Size \ {master[o]} :
       /\ master' = [master EXCEPT ![o] = m]
       /\ LET d == m - master[o]
          IN \E copied \in {d} \union IF Fault("missed") THEN {0, Sign(d)} ELSE {} :
               HoldsNow(o, held[o] + copied)
       /\ \E how \in {"manual", "unknown"} :
            exit' = [exit EXCEPT ![o] = IF m = 0 THEN how ELSE @]
       /\ working' = [working EXCEPT ![o] = @ /\ SameSide(m, master[o])]
       /\ Lasts(o, master'[o], held'[o])
  /\ age' = [age EXCEPT ![o] = 0]
  /\ UNCHANGED <<marking, entry, closing, stop, handsoff>>

\* He rests an order that reduces his position, which the live copy mirrors or
\* misses; or takes it back, which leaves the mirror stuck or withdraws it.
MasterWorks(o) ==
  /\ Moves
  /\ master[o] # 0 /\ Fault("missed")
  /\ working' = [working EXCEPT ![o] = ~@]
  /\ closing' \in {closing, [closing EXCEPT ![o] = ~working[o] /\ held[o] # 0]}
  /\ UNCHANGED <<master, age, exit, marking, held, before, entry, stop, handsoff, spared>>

\* The live copy rests the mirror of an entry he works, on the side he is on.
EntryRests(o) ==
  /\ Moves
  /\ entry[o] = 0 /\ Fault("missed")
  /\ entry' = [entry EXCEPT ![o] = IF master[o] < 0 THEN -1 ELSE 1]
  /\ UNCHANGED <<world, held, before, closing, stop, handsoff, spared>>

EntryFills(o) ==
  /\ Moves
  /\ entry[o] # 0
  /\ HoldsNow(o, held[o] + entry[o])
  /\ entry' = [entry EXCEPT ![o] = 0]
  /\ Lasts(o, master[o], held[o] + entry[o])
  /\ UNCHANGED <<world, closing, stop, handsoff>>

CloseFills(o) ==
  /\ Moves
  /\ closing[o] /\ held[o] # 0
  /\ HoldsNow(o, held[o] - Sign(held[o]))
  /\ closing' = [closing EXCEPT ![o] = FALSE]
  /\ Lasts(o, master[o], held[o] - Sign(held[o]))
  /\ UNCHANGED <<world, entry, stop, handsoff>>

StopRests(o) ==
  /\ Moves /\ Fault("stops")
  /\ ~stop[o] /\ held[o] # 0
  /\ stop' = [stop EXCEPT ![o] = TRUE]
  /\ UNCHANGED <<world, held, before, entry, closing, handsoff, spared>>

StopFires(o) ==
  /\ Moves
  /\ stop[o] /\ held[o] # 0
  /\ HoldsNow(o, 0)
  /\ stop' = [stop EXCEPT ![o] = FALSE]
  /\ Lasts(o, master[o], 0)
  /\ UNCHANGED <<world, entry, closing, handsoff>>

\* The master's own stop fires, and its event is on its way: not all of what the
\* passes need to know has changed yet.
MasterStopFires(o) ==
  /\ Moves /\ Fault("stops")
  /\ master[o] # 0
  /\ master' = [master EXCEPT ![o] = 0] /\ age' = [age EXCEPT ![o] = 0]
  /\ exit' = [exit EXCEPT ![o] = "sl_tp"] /\ working' = [working EXCEPT ![o] = FALSE]
  /\ marking' = [marking EXCEPT ![o] = TRUE]
  /\ UNCHANGED <<account, handsoff, spared>>

\* The handler of that event flags his followers' legs, whatever has become of
\* them and whichever pass is under way; without the accounts, or Redis, nothing
\* is flagged.
MarkHandsOff(o) ==
  /\ marking[o]
  /\ marking' = [marking EXCEPT ![o] = FALSE]
  /\ \/ handsoff' = [handsoff EXCEPT ![o] = TRUE] /\ UNCHANGED fails
     \/ /\ Fails("accounts") \/ Fails("redis")
        /\ fails' = fails + 1 /\ UNCHANGED handsoff
  /\ UNCHANGED <<master, age, working, exit, account, peak, memPeak, queue, clock, latches,
                 pass, moves, hidden, history>>

\* Ten seconds: fills show, debounces expire, the next pass may come.
Tick ==
  /\ Quiet \/ Fault("backlog")
  /\ due = {} \/ (due = Owner /\ before # held)
  /\ due' = Owner /\ debounced' = {} /\ before' = held
  /\ age' = [o \in Owner |-> Greatest(age[o], 1)]
  /\ UNCHANGED <<master, working, exit, marking, held, entry, closing, stop, redis, memPeak, queue,
                 latches, pass, bounds, history>>

GrowOlder(o) ==
  /\ age[o] \in 1 .. 2
  /\ age' = [age EXCEPT ![o] = @ + 1]
  /\ UNCHANGED <<master, working, exit, marking, account, redis, memPeak, queue, clock, latches,
                 pass, bounds, history>>

\* A restart keeps Redis and the exchanges, and loses what was in memory: the
\* event of a stop too, when it was popped and not handled.
Restart ==
  /\ Fault("crash") /\ moves < scene.maxMoves /\ moves' = moves + 1
  /\ pass' = Idle /\ memPeak' = 0 /\ debounced' = {}
  /\ openPrev' = {} /\ closePrev' = {} /\ trimPrev' = {}
  /\ topupPrev' = [o \in Owner |-> 0]
  /\ \E kept \in SUBSET Owner : marking' = [o \in Owner |-> marking[o] /\ o \in kept]
  /\ UNCHANGED <<master, age, working, exit, account, redis, queue, due, hidden, fails, history>>
-----------------------------------------------------------------------------
(* The listener and one pass. *)

Fail(b) == fails' = IF b THEN fails + 1 ELSE fails

\* _push_position_reconcile lists the master's positions; a failed read is [].
Push(o) ==
  /\ Len(queue) < MaxQueue
  /\ (Quiet /\ o \in due) \/ Fault("backlog")
  /\ \E failed \in {FALSE} \union {Fails("master")} :
       /\ queue' = Append(queue, <<o, IF failed THEN 0 ELSE master[o]>>)
       /\ Fail(failed)
  /\ due' = due \ {o}
  /\ UNCHANGED <<world, account, redis, memPeak, debounced, latches, pass, moves, hidden, history>>

\* A peak that is kept in the process only, and one without its abs().
BumpForgotten(o, msz) == Greatest(memPeak, Abs(msz))
BumpSigned(o, msz) == msz

\* bump_peak in Redis returns the running peak.
BumpPeak(o, msz) == Greatest(peak[o], Abs(msz))

\* The pass starts: a leg in the snapshot raises its peak, a leg out of it is
\* forgotten, in Redis only when this process remembers it.  Without Redis the
\* size in the snapshot passes for the peak, and Redis keeps what it has.
Peaks(o, msz) ==
  \E down \in {FALSE} \union {Fails("redis")} :
    /\ Fail(down)
    /\ memPeak' = IF msz = 0 THEN 0 ELSE IF down THEN Abs(msz) ELSE BumpPeak(o, msz)
    /\ peak' = IF down \/ (msz = 0 /\ memPeak = 0) THEN peak
               ELSE [peak EXCEPT ![o] = IF msz = 0 THEN 0 ELSE BumpPeak(o, msz)]

\* Without the accounts table the pass is given up before it starts.
Take ==
  /\ pass.at = "idle" /\ queue # <<>>
  /\ queue' = Tail(queue)
  /\ LET o == Head(queue)[1]
         msz == Head(queue)[2]
     IN \/ /\ Peaks(o, msz)
           /\ pass' = [Idle EXCEPT !.at = "taken", !.owner = o, !.msz = msz]
           /\ high' = [high EXCEPT ![o] = IF msz = 0 THEN 0 ELSE Greatest(@, Abs(msz))]
        \/ /\ Fails("accounts") /\ Fail(TRUE)
           /\ UNCHANGED <<memPeak, peak, pass, high>>
  /\ UNCHANGED <<world, account, handsoff, clock, latches, moves, hidden, spared>>

\* The pass ends: its candidates replace those of the pass before.
Candidates(open, close, trim, topup) ==
  /\ openPrev' = open /\ closePrev' = close /\ trimPrev' = trim /\ topupPrev' = topup
NoTopup == [o \in Owner |-> 0]

\* Without a client the follower is skipped, and so is not a candidate.
Skip ==
  /\ pass.at = "taken"
  /\ Fails("client") /\ Fail(TRUE)
  /\ Candidates({}, {}, {}, NoTopup)
  /\ pass' = Idle
  /\ UNCHANGED <<world, account, redis, memPeak, queue, clock, moves, hidden, history>>

\* A hands-off mark is released when the master holds the symbol again, or when
\* the follower is not seen to hold it.
Release(o, msz, seen) ==
  handsoff' = [handsoff EXCEPT ![o] = @ /\ msz = 0 /\ seen # 0]

\* What get_positions answers: the position, the one before the last fills, or
\* nothing at all.  Orders that cannot be read count as none.
Answers(o, seen, listed) ==
  \/ seen = held[o] /\ listed /\ UNCHANGED <<hidden, fails>>
  \/ /\ before[o] # held[o] /\ seen = before[o] /\ listed
     /\ hidden < scene.maxHidden /\ hidden' = hidden + 1 /\ UNCHANGED fails
  \/ seen = 0 /\ listed /\ Fails("follower") /\ Fail(TRUE) /\ UNCHANGED hidden
  \/ seen = held[o] /\ ~listed /\ Fails("orders") /\ Fail(TRUE) /\ UNCHANGED hidden

\* The follower's positions and orders are read, once for the pass.
Read ==
  /\ pass.at = "taken"
  /\ LET o == pass.owner
     IN \E seen \in {0, held[o], before[o]}, listed \in BOOLEAN :
          /\ Answers(o, seen, listed)
          /\ Release(o, pass.msz, seen)
          /\ pass' = [pass EXCEPT !.at = "judge", !.seen = seen,
                                  !.entry = IF listed THEN entry[o] ELSE 0,
                                  !.closing = listed /\ closing[o],
                                  !.stop = listed /\ stop[o]]
  /\ UNCHANGED <<world, account, peak, memPeak, queue, clock, latches, moves, history>>
-----------------------------------------------------------------------------
(* What the pass makes of it.  A candidate becomes an order only when the  *)
(* pass before saw it too.                                                 *)

judged == <<world, account, redis, memPeak, queue, due, moves, hidden, history>>

Share(msz)  == Abs(msz)
Deadband(target) == Greatest(1, (target * TolerancePct + 99) \div 100)
Resting(p)  == p.entry # 0 \/ p.closing \/ p.stop
Building(p) == p.entry # 0 /\ ~SameSide(p.entry, -p.seen)
Stuck(p)    == p.closing \/ SameSide(p.entry, -p.seen)
Settling(a) == a = 0
Recent(a)   == a <= 1
Fresh(a)    == a <= 2

\* calculate_follower_quantity answers 0 when it has no ratio: then nothing is
\* resized and nothing opened.  Fills that cannot be read count as old.
Reads(p, lots, a) ==
  \/ lots = Share(p.msz) /\ a = age[p.owner] /\ Fail(FALSE)
  \/ lots = 0 /\ a = age[p.owner] /\ Fails("ratio") /\ Fail(TRUE)
  \/ lots = Share(p.msz) /\ a = 3 /\ Fails("fills") /\ Fail(TRUE)

Leaves(open, close, trim, topup) ==
  /\ Candidates(open, close, trim, topup)
  /\ pass' = Idle
Orders(kind, lots, at) == pass' = [pass EXCEPT !.at = at, !.kind = kind, !.lots = lots]

\* The right side at the wrong size, with nothing building and the master's
\* last fill settled.
Mismatched(p, lots, a) ==
  /\ SameSide(p.seen, p.msz) /\ ~Building(p) /\ lots >= 1
  /\ Abs(Abs(p.seen) - lots) >= Deadband(lots)
  /\ ~Settling(a)
Over(p, lots, a)  == Mismatched(p, lots, a) /\ Abs(p.seen) > lots
Under(p, lots, a) == Mismatched(p, lots, a) /\ Abs(p.seen) < lots
BelowPeak(p)      == memPeak # 0 /\ Abs(p.msz) < memPeak

\* The pass before saw the candidate too.  A confirmation that is not waited for,
\* and a top-up by what the first of the two passes saw.
LatchedAtOnce(key, prev) == TRUE
Latched(key, prev) == key \in prev
AgreedFirst(short, prev) == prev
Agreed(short, prev) == Least(short, prev)

\* The excess is trimmed, once the master works no order and two passes agree
\* on it; a resting close of the follower is cancelled first.
Trim ==
  /\ pass.at = "judge"
  /\ \E lots \in 0 .. Share(pass.msz), a \in Ages :
       /\ Reads(pass, lots, a) /\ Over(pass, lots, a)
       /\ ~working[pass.owner]
       /\ LET key == <<pass.owner, Abs(pass.seen) - lots>>
          IN /\ Candidates({}, {}, {key}, NoTopup)
             /\ IF Latched(key, trimPrev)
                THEN Orders("trim", key[2], IF Stuck(pass) THEN "cancel" ELSE "order")
                ELSE pass' = Idle
  /\ UNCHANGED <<judged, debounced>>

\* The shortfall is topped up, while the master is at his peak and has filled
\* lately, by the smaller of what two passes saw.
TopUp ==
  /\ pass.at = "judge"
  /\ \E lots \in 0 .. Share(pass.msz), a \in Ages :
       /\ Reads(pass, lots, a) /\ Under(pass, lots, a)
       /\ ~BelowPeak(pass) /\ Fresh(a)
       /\ LET o == pass.owner
              short == lots - Abs(pass.seen)
          IN /\ Candidates({}, {}, {}, [NoTopup EXCEPT ![o] = short])
             /\ IF topupPrev[o] # 0 /\ o \notin debounced
                THEN /\ Orders("topup", Agreed(short, topupPrev[o]), "order")
                     /\ debounced' = debounced \union {o}
                ELSE pass' = Idle /\ UNCHANGED debounced
  /\ UNCHANGED judged

\* A short leg below the peak is left; so is a stale one, with a debounce.
LeaveShort ==
  /\ pass.at = "judge"
  /\ \E lots \in 0 .. Share(pass.msz), a \in Ages :
       /\ Reads(pass, lots, a) /\ Under(pass, lots, a)
       /\ \/ BelowPeak(pass) /\ UNCHANGED debounced
          \/ /\ ~BelowPeak(pass) /\ ~Fresh(a)
             /\ debounced' = debounced \union {pass.owner}
  /\ Leaves({}, {}, {}, NoTopup)
  /\ UNCHANGED judged

\* The right side, and nothing to resize or no way to tell.
LeaveSettled ==
  /\ pass.at = "judge"
  /\ SameSide(pass.seen, pass.msz)
  /\ \/ \E lots \in 0 .. Share(pass.msz), a \in Ages :
          /\ Reads(pass, lots, a)
          /\ ~Mismatched(pass, lots, a) \/ (Over(pass, lots, a) /\ working[pass.owner])
     \/ /\ Over(pass, Share(pass.msz), age[pass.owner])
        /\ Fails("book") /\ Fail(TRUE)
  /\ Leaves({}, {}, {}, NoTopup)
  /\ UNCHANGED <<judged, debounced>>

\* A stop or another order of the follower rests, the master did not leave by
\* hand, and not long ago.
Waits(p, a) == Resting(p) /\ exit[p.owner] # "manual" /\ Recent(a)

\* A leg deferred only while a stop rests.
DeferredWhileResting(p, a) == p.msz = 0 /\ Waits(p, a)
\* A deferral without its way out.
DeferredForever(p, a) ==
  p.msz = 0 /\ (handsoff[p.owner] \/ (Resting(p) /\ exit[p.owner] # "manual"))

\* The master is flat and left the follower to its stop.
Deferred(p, a) == p.msz = 0 /\ (handsoff[p.owner] \/ Waits(p, a))

Orphan(p) == p.seen # 0 /\ ~SameSide(p.seen, p.msz)

\* A leg the master does not hold, or holds on the other side, is closed whole.
\* A hands-off mark that Redis does not give counts as none.
Close ==
  /\ pass.at = "judge"
  /\ Orphan(pass)
  /\ \/ \E a \in Ages : Reads(pass, Share(pass.msz), a) /\ ~Deferred(pass, a)
     \/ /\ pass.msz = 0 /\ ~Waits(pass, age[pass.owner])
        /\ Fails("redis") /\ Fail(TRUE)
  /\ Candidates({}, {pass.owner}, {}, NoTopup)
  /\ IF Latched(pass.owner, closePrev) THEN Orders("close", Abs(pass.seen), "order")
                                         ELSE pass' = Idle
  /\ UNCHANGED <<judged, debounced>>

Defer ==
  /\ pass.at = "judge"
  /\ Orphan(pass)
  /\ Deferred(pass, age[pass.owner]) /\ Fail(FALSE)
  /\ Leaves({}, {}, {}, NoTopup)
  /\ spared' = [spared EXCEPT ![pass.owner] = @ \/ handsoff[pass.owner]]
  /\ UNCHANGED <<world, account, redis, memPeak, queue, due, moves, hidden, high, debounced>>

Missing(p) == p.msz # 0 /\ p.seen = 0 /\ ~Resting(p)

\* A leg the follower misses altogether is opened whole while the master's last
\* fill is recent; a stale one is left, with a debounce.
Open ==
  /\ pass.at = "judge"
  /\ Missing(pass)
  /\ Candidates({pass.owner}, {}, {}, NoTopup)
  /\ \E lots \in 0 .. Share(pass.msz), a \in Ages :
       /\ Reads(pass, lots, a)
       /\ LET now == /\ Latched(pass.owner, openPrev) /\ pass.owner \notin debounced
                     /\ lots >= 1
          IN /\ IF now /\ Fresh(a) THEN Orders("open", lots, "order")
                                            ELSE pass' = Idle
             /\ debounced' = IF now THEN debounced \union {pass.owner} ELSE debounced
  /\ UNCHANGED judged

LeaveFlat ==
  /\ pass.at = "judge"
  /\ pass.seen = 0 /\ ~Missing(pass)
  /\ Leaves({}, {}, {}, NoTopup)
  /\ Fail(FALSE)
  /\ UNCHANGED <<judged, debounced>>
-----------------------------------------------------------------------------
(* The orders of a pass. *)

\* The stuck close is cancelled; the trim goes on whether or not that worked.
CancelStuck ==
  /\ pass.at = "cancel"
  /\ \/ /\ closing' = [closing EXCEPT ![pass.owner] = FALSE]
        /\ entry' = [entry EXCEPT ![pass.owner] = IF SameSide(@, -pass.seen) THEN 0 ELSE @]
        /\ Fail(FALSE)
     \/ Fails("cancel") /\ Fail(TRUE) /\ UNCHANGED <<entry, closing>>
  /\ pass' = [pass EXCEPT !.at = "order"]
  /\ UNCHANGED <<world, held, before, stop, redis, memPeak, queue, clock, latches, moves,
                 hidden, history>>

Adds(kind) == kind \in {"open", "topup"}

\* What a market order does: one that adds, on the side of the leg it joins,
\* and a reduce-only one, which the exchange stops at flat.
After(o, p) ==
  CASE p.kind = "open"  -> held[o] + Sign(p.msz) * p.lots
    [] p.kind = "topup" -> held[o] + Sign(p.seen) * p.lots
    [] OTHER -> IF SameSide(held[o], p.seen)
                THEN held[o] - Sign(p.seen) * Least(p.lots, Abs(held[o]))
                ELSE held[o]

\* A close of a leg the master has left clears the follower's stops as well.
Order ==
  /\ pass.at = "order"
  /\ \/ /\ held' = [held EXCEPT ![pass.owner] = After(pass.owner, pass)]
        /\ stop' = [stop EXCEPT ![pass.owner] =
                      @ /\ ~(pass.kind = "close" /\ pass.msz = 0)]
        /\ Lasts(pass.owner, master[pass.owner], held'[pass.owner])
        /\ Fail(FALSE)
     \/ Fails("refused") /\ Fail(TRUE) /\ UNCHANGED <<held, stop, spared>>
  /\ pass' = Idle
  /\ UNCHANGED <<world, before, entry, closing, redis, memPeak, queue, clock, latches, moves, hidden, high>>

Pass == \/ Take \/ Skip \/ Read
        \/ Trim \/ TopUp \/ LeaveShort \/ LeaveSettled
        \/ Close \/ Defer \/ Open \/ LeaveFlat
        \/ CancelStuck \/ Order

Next ==
  /\ \/ Pass \/ Tick \/ Restart
     \/ \E o \in Owner :
          \/ Push(o) \/ GrowOlder(o) \/ MarkHandsOff(o)
          \/ MasterTrades(o) \/ MasterWorks(o) \/ EntryRests(o) \/ EntryFills(o)
          \/ CloseFills(o) \/ StopRests(o) \/ StopFires(o) \/ MasterStopFires(o)
  /\ UNCHANGED scene

Spec == Init /\ [][Next]_vars

\* The consumer drains the queue, each listener pushes, time passes.
FairSpec ==
  /\ Spec
  /\ WF_vars(Pass /\ UNCHANGED scene) /\ WF_vars(Tick /\ UNCHANGED scene)
  /\ \A o \in Owner : /\ WF_vars(Push(o) /\ UNCHANGED scene)
                      /\ WF_vars(GrowOlder(o) /\ UNCHANGED scene)
-----------------------------------------------------------------------------
(* What the passes promise. *)

Ordering(o)  == pass.at = "order" /\ pass.owner = o /\ pass'.at = "idle"
Adding(o)    == Ordering(o) /\ Adds(pass.kind)
Reducing(o)  == Ordering(o) /\ ~Adds(pass.kind)

\* What has moved, or was misread, since the pass read the two positions.
Drift(o) == Abs(master[o] - pass.msz) + Abs(held[o] - pass.seen)

\* No order takes the follower past the master, in the direction the order goes,
\* by more than the two positions have moved since this pass read them: not by
\* what they moved since the pass before, whose candidate the order confirms,
\* however late the passes run and whatever fails.
NeverOvershoots ==
  [][\A o \in Owner :
       LET way == Sign(held'[o] - held[o])
       IN Ordering(o) /\ held'[o] # held[o] => way * held'[o] <= way * master[o] + Drift(o)]_vars

\* Passes on time, with positions and marks they can read.  Trades missed, orders
\* that cannot be read, requests refused, clients, balances, fills and books
\* unavailable, stops and restarts are withstood.
Prompt ==
  /\ {"backlog", "master", "follower", "redis"} \intersect scene.faults = {}
  /\ scene.maxHidden = 0

\* A leg that a pass found left to its own stop is never forced by a later one,
\* for as long as it lasts: its mark outlives restarts, and is not released under
\* it.  Until the mark comes, and it may be lost, only Waits holds a pass back.
NeverForces ==
  [][\A o \in Owner : Prompt /\ Reducing(o) /\ spared[o] => held'[o] = held[o]]_vars

\* "While a master is unwinding, a follower must never be adding": no top-up goes
\* out while the passes know the master to be below the largest size he had on
\* the leg, however late they run and whatever fails but Redis, which keeps it.
TopsUpAtPeak ==
  [][\A o \in Owner : ~Fault("redis") /\ Adding(o) /\ pass.kind = "topup" => Abs(pass.msz) >= high[o]]_vars

\* When the live copy copies everything, one read that misses the last fills
\* never makes a pass trade.
QuietWhenCopied ==
  scene.faults \subseteq {"client", "crash"} /\ scene.maxHidden <= 1 => pass.at \notin {"cancel", "order"}

\* The peak a pass judges by is that of the leg the master is in ("A leg the
\* master has fully exited starts from a clean peak next time").
PeakIsOfThisLeg == pass.at \in {"taken", "judge"} /\ pass.msz # 0 => memPeak = high[pass.owner]

\* Over-exposure ends, to less than the deadband of what the master holds, unless
\* he works an exit, the follower still builds, or the leg is left to its stop.
Overexposed(o) ==
  /\ held[o] # 0 /\ ~working[o] /\ ~handsoff[o] /\ ~SameSide(entry[o], held[o])
  /\ SameSide(held[o], master[o]) =>
       Abs(held[o]) - Abs(master[o]) >= Deadband(Share(master[o]))
OverexposureEnds == \A o \in Owner : <>[]~Overexposed(o)
=============================================================================
