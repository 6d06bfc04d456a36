-------------------------- MODULE ProtectionSync --------------------------
(***************************************************************************)
(* The stop of one position: how the master's reaches one follower, and    *)
(* the sweep that repairs it.  The listener's snapshot (his orders, then   *)
(* his positions) waits in order_events; the handler reads the follower's  *)
(* orders and positions, and cancels an orphan or restores a missing stop  *)
(* only when the sweep before saw it too.  It runs under the lock "_", so  *)
(* beside the handlers that mirror his stop events under the symbol's own. *)
(***************************************************************************)
EXTENDS Integers, Sequences

CONSTANTS
  MaxStops,     \* bound on the stops the master sets
  MaxQueue,     \* bound on the snapshots waiting
  MaxTurns,     \* bound on what master and market do
  MaxMishaps,   \* bound on failing calls and restarts
  Scenarios     \* the sets of disturbances to consider, see AllFaults

AllFaults ==
  { "silent",     \* a removed stop comes without its cancel event
    "partial",    \* his stop fires and closes a part of the position
    "again",      \* the exchange reports a stop of his once more
    "elsewhere",  \* the desk cancels the follower's stop
    "refused",    \* the exchange refuses a stop or a cancel
    "half",       \* the follower's pending orders cannot be read, the open can
    "unread",     \* neither can, or positions or an order cannot, or there is no client
    "db",         \* the accounts cannot be loaded
    "tenants",    \* another owner's sweeps run too
    "crash" }     \* the process restarts

ASSUME ProtectionAssumption ==
  /\ {MaxStops, MaxQueue, MaxTurns} \subseteq Nat \ {0}
  /\ MaxMishaps \in Nat
  /\ Scenarios \subseteq SUBSET AllFaults

VARIABLES
  faults,       \* the disturbances of this behaviour
  mheld,        \* the master holds the symbol
  mstop,        \* the stop he has on it, None if he has none
  set,          \* how many stops he has set so far
  fheld,        \* the follower holds the symbol
  live,         \* the stop of his that the follower's copies, None if it has none
  mapped,       \* those of his stops that ordermap has a copy of
  sprung,       \* those whose copy fired, so that its order reads filled
  done,         \* those marked in mirrordone
  snap,         \* the listener's snapshot in the making
  sweeps,       \* the snapshots pushed, by the stop he had in each
  todo,         \* his stop events, with what waits for the symbol's lock
  pass,         \* the sweep under way
  orphanPrev,   \* the stop is in _prot_orphans_prev
  missingPrev,  \* the stop is in _prot_missing_prev
  sightings,    \* what the last two sweeps could have seen, newest first
  fired,        \* those that fired on a part of his position while copied
  turns, mishaps

master   == <<mheld, mstop, set>>
follower == <<fheld, live>>
engine   == <<pass, orphanPrev, missingPrev, sightings>>
bounds   == <<turns, mishaps>>
copies   == <<mapped, sprung, done>>
vars     == <<faults, master, follower, copies, snap, sweeps, todo, engine, fired, bounds>>

None == 0
Stop == 1 .. MaxStops
Pass == [at : {"idle", "orders", "cancel", "positions", "place", "end"},
         stop : Stop \union {None}, seen : Stop \union {None},
         orphan : BOOLEAN, missing : BOOLEAN]
Snap == [at : {"idle", "positions"}, stop : Stop \union {None}]
Idle == [at |-> "idle", stop |-> None, seen |-> None, orphan |-> FALSE, missing |-> FALSE]
NoSnap == [at |-> "idle", stop |-> None]
Sighting == [set : BOOLEAN, bare : BOOLEAN]

Fault(f)  == f \in faults
Mishap(f) == Fault(f) /\ mishaps < MaxMishaps /\ mishaps' = mishaps + 1
Turn      == turns < MaxTurns /\ turns' = turns + 1 /\ UNCHANGED mishaps

TypeOK ==
  /\ faults \in Scenarios
  /\ mheld \in BOOLEAN /\ mstop \in Stop \union {None} /\ set \in 0 .. MaxStops
  /\ (mstop # None => mheld)
  /\ fheld \in BOOLEAN /\ live \in Stop \union {None} /\ mapped \subseteq Stop
  /\ (live # None => fheld) /\ sprung \subseteq Stop /\ done \subseteq Stop
  /\ snap \in Snap
  /\ sweeps \in Seq(Stop \union {None}) /\ Len(sweeps) <= MaxQueue
  /\ todo \in Seq([kind : {"place", "cancel"}, stop : Stop])
  /\ pass \in Pass /\ orphanPrev \in BOOLEAN /\ missingPrev \in BOOLEAN
  /\ sightings \in [{1, 2} -> Sighting] /\ fired \subseteq Stop
  /\ turns \in 0 .. MaxTurns /\ mishaps \in 0 .. MaxMishaps

\* Both hold the position, and nothing protects it yet.
Init ==
  /\ faults \in Scenarios
  /\ mheld = TRUE /\ mstop = None /\ set = 0
  /\ fheld = TRUE /\ live = None /\ mapped = {} /\ sprung = {} /\ done = {}
  /\ snap = NoSnap /\ sweeps = <<>> /\ todo = <<>>
  /\ pass = Idle /\ orphanPrev = FALSE /\ missingPrev = FALSE
  /\ sightings = [i \in {1, 2} |-> [set |-> FALSE, bare |-> FALSE]]
  /\ fired = {} /\ turns = 0 /\ mishaps = 0
-----------------------------------------------------------------------------
(* The master and the market. *)

Tell(kind, s) == todo' = Append(todo, [kind |-> kind, stop |-> s])

MasterProtects ==
  /\ Turn /\ mheld /\ mstop = None /\ set < MaxStops
  /\ mstop' = set + 1 /\ set' = set + 1
  /\ Tell("place", set + 1)
  /\ UNCHANGED <<mheld, follower, copies, snap, sweeps, engine, fired>>

\* His resting stop changes state, and its order is pushed again.
StopToldAgain ==
  /\ Fault("again") /\ Turn /\ mstop # None
  /\ Tell("place", mstop)
  /\ UNCHANGED <<master, follower, copies, snap, sweeps, engine, fired>>

MasterUnprotects ==
  /\ Turn /\ mstop # None
  /\ mstop' = None
  /\ Tell("cancel", mstop) \/ (Fault("silent") /\ UNCHANGED todo)
  /\ UNCHANGED <<mheld, set, follower, copies, snap, sweeps, engine, fired>>

\* A stop that fires is pushed too; its handler leaves the followers' stops.
MasterStopFires ==
  /\ Turn /\ mstop # None
  /\ mstop' = None
  /\ mheld' \in IF Fault("partial") THEN BOOLEAN ELSE {FALSE}
  /\ fired' = IF mheld' /\ live = mstop THEN fired \union {mstop} ELSE fired
  /\ UNCHANGED <<set, follower, copies, snap, sweeps, todo, engine>>

\* He closes by hand; the exchange tidies his stop away as a "stop_cancel".
MasterExits ==
  /\ Turn /\ mheld
  /\ mheld' = FALSE /\ mstop' = None
  /\ IF mstop # None THEN Tell("cancel", mstop) ELSE UNCHANGED todo
  /\ UNCHANGED <<set, follower, copies, snap, sweeps, engine, fired>>

MasterEnters ==
  /\ Turn /\ ~mheld
  /\ mheld' = TRUE
  /\ UNCHANGED <<mstop, set, follower, copies, snap, sweeps, todo, engine, fired>>

\* The copy engine opens what the master holds.
FollowerEnters ==
  /\ Turn /\ mheld /\ ~fheld
  /\ fheld' = TRUE
  /\ UNCHANGED <<master, live, copies, snap, sweeps, todo, engine, fired>>

\* His own, jittered stop fires; the exchange clears the rest.
FollowerStopFires ==
  /\ Turn /\ live # None
  /\ fheld' = FALSE /\ live' = None
  /\ sprung' = sprung \union {live}
  /\ UNCHANGED <<master, mapped, done, snap, sweeps, todo, engine, fired>>

CopyCancelled ==
  /\ Mishap("elsewhere")
  /\ live # None /\ live' = None
  /\ UNCHANGED <<master, fheld, copies, snap, sweeps, todo, engine, fired, turns>>
-----------------------------------------------------------------------------
(* Mirroring his stop events, one at a time under the symbol's lock.       *)

\* The bracket endpoint answers 400 to a second bracket and to no position.
Accepted == fheld /\ live = None

\* Place a copy of the stop s, and add it to the map.
Place(s, map) ==
  \/ /\ Accepted /\ live' = s
     /\ mapped' = map \union {s} /\ sprung' = sprung \ {s} /\ UNCHANGED mishaps
  \/ ~Accepted /\ mapped' = map /\ UNCHANGED <<live, sprung, mishaps>>
  \/ Mishap("refused") /\ mapped' = map /\ UNCHANGED <<live, sprung>>

Event(kind) == todo # <<>> /\ Head(todo).kind = kind

\* A mapped copy that rests, or that was found filled before, leaves nothing to
\* do; one that is gone is marked if it filled, and placed again if it did not.
\* Nothing is placed on an account or an order that cannot be read.
MirrorPlace ==
  /\ Event("place")
  /\ LET s == Head(todo).stop
         gone == s \in mapped \ done /\ live # s IN
     \/ s \notin mapped /\ Place(s, mapped) /\ UNCHANGED done
     \/ s \in mapped /\ ~gone /\ UNCHANGED <<live, copies, mishaps>>
     \/ gone /\ s \in sprung /\ done' = done \union {s} /\ UNCHANGED <<live, mapped, sprung, mishaps>>
     \/ gone /\ s \notin sprung /\ Place(s, mapped \ {s}) /\ UNCHANGED done
     \/ (\E f \in {"unread", "db"} : Mishap(f)) /\ UNCHANGED <<live, copies>>
  /\ todo' = Tail(todo)
  /\ UNCHANGED <<master, fheld, snap, sweeps, engine, fired, turns>>

\* He still holds: a deliberate cancel, passed on to the mapped copy, or, if
\* that is gone, to one that matches (or to none).  The map goes in any case.
CancelPassedOn ==
  LET s == Head(todo).stop IN
  /\ \/ live' = None /\ UNCHANGED mishaps
     \/ live # s /\ UNCHANGED <<live, mishaps>>
     \/ (\E f \in {"refused", "unread", "db"} : Mishap(f)) /\ UNCHANGED live
  /\ mapped' = mapped \ {s}
  /\ UNCHANGED fheld

\* He is flat: the follower is closed too if he left by hand, and keeps its
\* stop if the exit reads like a stop, or like nothing known.
FlatAnswered ==
  /\ \/ fheld' = FALSE /\ live' = None
     \/ UNCHANGED <<fheld, live>>
  /\ UNCHANGED mapped

\* A position of his that cannot be read counts as none; without the accounts
\* he is unknown, and the cancel is passed on to nobody.
MirrorCancel ==
  /\ Event("cancel")
  /\ \/ mheld /\ CancelPassedOn
     \/ mheld /\ Mishap("unread") /\ FlatAnswered
     \/ ~mheld /\ FlatAnswered /\ UNCHANGED mishaps
     \/ ~mheld /\ Mishap("db") /\ mapped' = mapped \ {Head(todo).stop} /\ UNCHANGED follower
  /\ todo' = Tail(todo)
  /\ UNCHANGED <<master, sprung, done, snap, sweeps, engine, fired, turns>>
-----------------------------------------------------------------------------
(* _reconcile_orders: the listener's snapshot, two reads and a push.       *)

SnapOrders ==
  /\ snap.at = "idle" /\ Len(sweeps) < MaxQueue
  /\ snap' = [at |-> "positions", stop |-> mstop]
  /\ UNCHANGED <<master, follower, copies, sweeps, todo, engine, fired, bounds>>

\* The snapshot is pushed twice.
SnapPositionsTwice ==
  /\ snap.at = "positions"
  /\ sweeps' = IF mheld THEN sweeps \o <<snap.stop, snap.stop>> ELSE sweeps
  /\ snap' = NoSnap
  /\ UNCHANGED <<master, follower, copies, todo, engine, fired, bounds>>

\* Nothing is pushed for a master who is flat.
SnapPositions ==
  /\ snap.at = "positions"
  /\ sweeps' = IF mheld THEN Append(sweeps, snap.stop) ELSE sweeps
  /\ snap' = NoSnap
  /\ UNCHANGED <<master, follower, copies, todo, engine, fired, bounds>>
-----------------------------------------------------------------------------
(* _sync_protection: one sweep of the follower. *)

At(l) == pass.at = l
See   == sightings' = [sightings EXCEPT ![2] = sightings[1],
                         ![1] = [set |-> pass.stop # None, bare |-> live = None]]
Step(next) ==
  /\ pass' = next
  /\ UNCHANGED <<master, fheld, snap, todo, fired, turns>>
Looked == UNCHANGED <<live, copies>>
Kept   == UNCHANGED <<orphanPrev, missingPrev>>

TakeSweep ==
  /\ At("idle") /\ sweeps # <<>>
  /\ Step([Idle EXCEPT !.at = "orders", !.stop = Head(sweeps)])
  /\ sweeps' = Tail(sweeps)
  /\ Looked /\ Kept /\ UNCHANGED <<sightings, mishaps>>

\* Without followers the sweep returns and the sets stay as they were.
LoadFails ==
  /\ At("idle") /\ sweeps # <<>> /\ Mishap("db")
  /\ sweeps' = Tail(sweeps)
  /\ Step(Idle) /\ Looked /\ Kept /\ UNCHANGED sightings

\* The copy found, or none; what follows depends on whether he has a stop.
Listed(copy, ok) ==
  LET orphan == copy # None /\ pass.stop = None IN
  [pass EXCEPT !.seen = copy, !.orphan = orphan,
               !.at = CASE orphan /\ orphanPrev    -> "cancel"
                        [] pass.stop # None /\ ok -> "positions"
                        [] OTHER                  -> "end"]

ReadOrders ==
  /\ At("orders") /\ See
  /\ \/ Step(Listed(live, TRUE)) /\ UNCHANGED mishaps
     \/ Mishap("half") /\ Step(Listed(None, TRUE))
     \/ Mishap("unread") /\ Step(Listed(None, FALSE))
  /\ Looked /\ Kept /\ UNCHANGED sweeps

CancelOrphan ==
  /\ At("cancel")
  /\ \/ live' = (IF live = pass.seen THEN None ELSE live) /\ UNCHANGED mishaps
     \/ Mishap("refused") /\ UNCHANGED live
  /\ Step([pass EXCEPT !.at = "end"])
  /\ Kept /\ UNCHANGED <<copies, sweeps, sightings>>

\* A failed read of the positions looks like a follower who holds nothing.
ReadPositions ==
  /\ At("positions")
  /\ \E held \in {fheld, FALSE} :
       LET missing == held /\ pass.seen = None IN
       /\ IF held = fheld THEN UNCHANGED mishaps ELSE Mishap("unread")
       /\ Step([pass EXCEPT !.missing = missing,
                            !.at = IF missing /\ missingPrev THEN "place" ELSE "end"])
  /\ Looked /\ Kept /\ UNCHANGED <<sweeps, sightings>>

PlaceMissing ==
  /\ At("place")
  /\ Place(pass.stop, mapped)
  /\ Step([pass EXCEPT !.at = "end"])
  /\ Kept /\ UNCHANGED <<done, sweeps, sightings>>

\* Candidates pile up over the sweeps; they are not remembered.
EndSweepAdds ==
  /\ At("end")
  /\ orphanPrev' = (orphanPrev \/ pass.orphan) /\ missingPrev' = (missingPrev \/ pass.missing)
  /\ Step(Idle) /\ Looked /\ UNCHANGED <<sweeps, sightings, mishaps>>

EndSweepForgets ==
  /\ At("end")
  /\ orphanPrev' = FALSE /\ missingPrev' = FALSE
  /\ Step(Idle) /\ Looked /\ UNCHANGED <<sweeps, sightings, mishaps>>

\* This sweep's candidates replace those of the one before.
EndSweep ==
  /\ At("end")
  /\ orphanPrev' = pass.orphan /\ missingPrev' = pass.missing
  /\ Step(Idle) /\ Looked /\ UNCHANGED <<sweeps, sightings, mishaps>>

\* Another owner's sweep replaces them by candidates of its own.
OtherOwnersSweep ==
  /\ Fault("tenants") /\ At("idle")
  /\ orphanPrev' = FALSE /\ missingPrev' = FALSE
  /\ Step(Idle) /\ Looked /\ UNCHANGED <<sweeps, sightings, mishaps>>

\* What was popped is lost with the tasks, and the sets are in memory.
Crash ==
  /\ Mishap("crash")
  /\ pass' = Idle /\ orphanPrev' = FALSE /\ missingPrev' = FALSE
  /\ snap' = NoSnap /\ sweeps' = <<>> /\ todo' = <<>>
  /\ UNCHANGED <<master, follower, copies, sightings, fired, turns>>
-----------------------------------------------------------------------------
Market   == \/ MasterProtects \/ MasterUnprotects \/ MasterStopFires \/ MasterExits
            \/ StopToldAgain \/ MasterEnters \/ FollowerEnters \/ FollowerStopFires \/ CopyCancelled
Mirror   == MirrorPlace \/ MirrorCancel
Snapshot == SnapOrders \/ SnapPositions
Sweep    == \/ TakeSweep \/ ReadOrders \/ CancelOrphan \/ ReadPositions
            \/ PlaceMissing \/ EndSweep

Next ==
  /\ Market \/ Mirror \/ Snapshot \/ Sweep \/ LoadFails \/ OtherOwnersSweep \/ Crash
  /\ UNCHANGED faults

Spec == Init /\ [][Next]_vars

\* The listener comes round every 30 s, and the loop runs its tasks.
FairSpec ==
  /\ Spec
  /\ WF_vars(Mirror /\ UNCHANGED faults)
  /\ WF_vars(Snapshot /\ UNCHANGED faults)
  /\ WF_vars(Sweep /\ UNCHANGED faults)
-----------------------------------------------------------------------------
Cancels == At("cancel") /\ pass'.at = "end" /\ live' # live
Places  == At("place") /\ pass'.at = "end" /\ live' # live

\* One bad snapshot never costs a stop or adds one: the sweep cancels only when
\* the master had none at both of the last two snapshots it handled, and, if the
\* follower's orders could be read whole, places only when he had one at both
\* and the follower had none at either look.
SweepConfirms ==
  [][/\ Cancels => \A i \in {1, 2} : ~sightings[i].set
     /\ Places /\ ~Fault("half") => \A i \in {1, 2} : sightings[i].set /\ sightings[i].bare]_vars

\* When master and market come to rest and both hold the position, the follower
\* is in the end protected if the master is, and not if he is not, whatever was
\* lost, refused, unread or fired before.
ProtectionConverges ==
  ~Fault("tenants") => <>[](mheld /\ fheld => (live # None <=> mstop # None))

\* What _mirror_cancel says of a stop that fired, as an action property: the
\* follower's copy of it is left to its own trigger.
FiredStopIsLeft ==
  [][Cancels => live \notin fired]_vars
=============================================================================
