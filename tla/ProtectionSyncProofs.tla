------------------------- MODULE ProtectionSyncProofs -------------------------
(***************************************************************************)
(* That no single snapshot costs or adds a stop, for any number of stops,  *)
(* snapshots, turns and failures, beside the sweeps of other owners too.   *)
(* The reason is where the two sets of candidates come from: between two   *)
(* sweeps they hold only what the last one that finished could have seen.  *)
(***************************************************************************)
EXTENDS ProtectionSync, TLAPS

\* What the proofs use of the bounds.
LEMMA Bounds ==
  /\ MaxStops \in Nat \ {0} /\ MaxQueue \in Nat \ {0} /\ MaxTurns \in Nat \ {0}
  /\ MaxMishaps \in Nat
BY ProtectionAssumption DEF ProtectionAssumption

USE Bounds DEF None, Stop

\* The sighting of the last sweep that finished: the newest one until the sweep
\* under way has looked, and the one before it from then on.
Looking == pass.at \in {"idle", "orders"}
Before  == IF Looking THEN sightings[1] ELSE sightings[2]

\* What was remembered was seen; what this sweep found, it saw.
Remembered ==
  /\ orphanPrev => ~Before.set
  /\ missingPrev => Before.set /\ (~Fault("half") => Before.bare)

Found ==
  /\ pass.orphan => ~Looking /\ ~sightings[1].set
  /\ pass.missing => ~Looking /\ sightings[1].set /\ (~Fault("half") => sightings[1].bare)

\* Where the sweep stands says what it has confirmed.
Confirmed ==
  /\ pass.at = "cancel" => orphanPrev /\ pass.orphan
  /\ pass.at = "positions" =>
       /\ sightings[1].set
       /\ pass.seen = None /\ ~Fault("half") => sightings[1].bare
  /\ pass.at = "place" => missingPrev /\ pass.missing

\* The types, in four parts: the stops, what waits, the sweep, and the bounds.
\* The last conjuncts of Queues and Sweeper make them inductive: a snapshot under
\* way has room, and only a sweep with a stop to copy looks for a place for it.
Stops ==
  /\ mheld \in BOOLEAN /\ mstop \in Stop \union {None} /\ set \in 0 .. MaxStops
  /\ (mstop # None => mheld)
  /\ fheld \in BOOLEAN /\ live \in Stop \union {None} /\ mapped \subseteq Stop
  /\ (live # None => fheld) /\ fired \subseteq Stop
  /\ sprung \subseteq Stop /\ done \subseteq Stop
Told == [kind : {"place", "cancel"}, stop : Stop]
Queues ==
  /\ snap \in Snap
  /\ sweeps \in Seq(Stop \union {None}) /\ Len(sweeps) <= MaxQueue
  /\ todo \in Seq(Told)
  /\ (snap.at = "positions" => Len(sweeps) < MaxQueue)
Sweeper ==
  /\ pass \in Pass /\ orphanPrev \in BOOLEAN /\ missingPrev \in BOOLEAN
  /\ sightings \in [{1, 2} -> Sighting]
  /\ (pass.at \in {"positions", "place"} => pass.stop # None)
Counts == faults \in Scenarios /\ turns \in 0 .. MaxTurns /\ mishaps \in 0 .. MaxMishaps

Types == Stops /\ Queues /\ Sweeper /\ Counts

IInv == Types /\ Remembered /\ Found /\ Confirmed

LEMMA TypesSuffice == Types => TypeOK
BY DEF Types, TypeOK, Stops, Queues, Sweeper, Counts, Told

\* What is told and what is taken out of a queue.
LEMMA TellsStops ==
  ASSUME Queues, NEW s \in Stop, NEW kind \in {"place", "cancel"}, Tell(kind, s)
  PROVE  todo' \in Seq(Told)
<1>1. [kind |-> kind, stop |-> s] \in Told
  BY DEF Told
<1>2. QED BY <1>1 DEF Queues, Tell

LEMMA Heads ==
  ASSUME Queues
  PROVE  /\ todo # <<>> => Head(todo) \in Told /\ Tail(todo) \in Seq(Told)
         /\ sweeps # <<>> => /\ Head(sweeps) \in Stop \union {None}
                             /\ Tail(sweeps) \in Seq(Stop \union {None})
                             /\ Len(Tail(sweeps)) < Len(sweeps)
BY DEF Queues

\* The initial state satisfies the invariant.
LEMMA InitInv == Init => IInv
<1> SUFFICES ASSUME Init PROVE IInv
  OBVIOUS
<1>1. Stops
  BY DEF Init, Stops
<1>2. Queues
  BY DEF Init, Queues, Snap, NoSnap
<1>3. Sweeper
  BY DEF Init, Sweeper, Pass, Idle, Sighting
<1>4. Counts
  BY DEF Init, Counts
<1>5. Remembered /\ Found /\ Confirmed
  BY DEF Init, Remembered, Found, Confirmed, Looking, Before, Idle
<1>6. QED BY <1>1, <1>2, <1>3, <1>4, <1>5 DEF IInv, Types

\* What master and market do keeps the types.
LEMMA MarketTypes ==
  ASSUME Types, Market, UNCHANGED faults
  PROVE  Types'
<1> USE DEF Types, Turn, Mishap, Fault, At, Step, Looked, Kept, master, follower, copies, engine, bounds
<1>1. CASE MasterProtects
  <2>1. Stops'
    BY <1>1 DEF MasterProtects, Stops
  <2>2. Queues'
    BY <1>1, TellsStops DEF MasterProtects, Queues, Stops
  <2>3. Sweeper'
    BY <1>1 DEF MasterProtects, Sweeper
  <2>4. Counts'
    BY <1>1 DEF MasterProtects, Counts
  <2>5. QED BY <2>1, <2>2, <2>3, <2>4
<1>2. CASE MasterUnprotects
  <2>1. Stops'
    BY <1>2 DEF MasterUnprotects, Stops
  <2>2. Queues'
    BY <1>2, TellsStops DEF MasterUnprotects, Queues, Stops
  <2>3. Sweeper'
    BY <1>2 DEF MasterUnprotects, Sweeper
  <2>4. Counts'
    BY <1>2 DEF MasterUnprotects, Counts
  <2>5. QED BY <2>1, <2>2, <2>3, <2>4
<1>3. CASE MasterStopFires
  <2>1. Stops'
    BY <1>3 DEF MasterStopFires, Stops
  <2>2. Queues'
    BY <1>3 DEF MasterStopFires, Queues
  <2>3. Sweeper'
    BY <1>3 DEF MasterStopFires, Sweeper
  <2>4. Counts'
    BY <1>3 DEF MasterStopFires, Counts
  <2>5. QED BY <2>1, <2>2, <2>3, <2>4
<1>4. CASE MasterExits
  <2>1. Stops'
    BY <1>4 DEF MasterExits, Stops
  <2>2. Queues'
    BY <1>4, TellsStops DEF MasterExits, Queues, Stops
  <2>3. Sweeper'
    BY <1>4 DEF MasterExits, Sweeper
  <2>4. Counts'
    BY <1>4 DEF MasterExits, Counts
  <2>5. QED BY <2>1, <2>2, <2>3, <2>4
<1>5. CASE MasterEnters
  <2>1. Stops'
    BY <1>5 DEF MasterEnters, Stops
  <2>2. Queues'
    BY <1>5 DEF MasterEnters, Queues
  <2>3. Sweeper'
    BY <1>5 DEF MasterEnters, Sweeper
  <2>4. Counts'
    BY <1>5 DEF MasterEnters, Counts
  <2>5. QED BY <2>1, <2>2, <2>3, <2>4
<1>0. CASE StopToldAgain
  <2>1. Stops'
    BY <1>0 DEF StopToldAgain, Stops
  <2>2. Queues'
    BY <1>0, TellsStops DEF StopToldAgain, Queues, Stops
  <2>3. Sweeper'
    BY <1>0 DEF StopToldAgain, Sweeper
  <2>4. Counts'
    BY <1>0 DEF StopToldAgain, Counts
  <2>5. QED BY <2>1, <2>2, <2>3, <2>4
<1>6. CASE FollowerEnters
  <2>1. Stops'
    BY <1>6 DEF FollowerEnters, Stops
  <2>2. Queues'
    BY <1>6 DEF FollowerEnters, Queues
  <2>3. Sweeper'
    BY <1>6 DEF FollowerEnters, Sweeper
  <2>4. Counts'
    BY <1>6 DEF FollowerEnters, Counts
  <2>5. QED BY <2>1, <2>2, <2>3, <2>4
<1>7. CASE FollowerStopFires
  <2>1. Stops'
    BY <1>7 DEF FollowerStopFires, Stops
  <2>2. Queues'
    BY <1>7 DEF FollowerStopFires, Queues
  <2>3. Sweeper'
    BY <1>7 DEF FollowerStopFires, Sweeper
  <2>4. Counts'
    BY <1>7 DEF FollowerStopFires, Counts
  <2>5. QED BY <2>1, <2>2, <2>3, <2>4
<1>8. CASE CopyCancelled
  <2>1. Stops'
    BY <1>8 DEF CopyCancelled, Stops
  <2>2. Queues'
    BY <1>8 DEF CopyCancelled, Queues
  <2>3. Sweeper'
    BY <1>8 DEF CopyCancelled, Sweeper
  <2>4. Counts'
    BY <1>8 DEF CopyCancelled, Counts
  <2>5. QED BY <2>1, <2>2, <2>3, <2>4
<1>9. QED BY <1>0, <1>1, <1>2, <1>3, <1>4, <1>5, <1>6, <1>7, <1>8 DEF Market

\* So do the handlers of his stop events.
LEMMA MirrorTypes ==
  ASSUME Types, Mirror, UNCHANGED faults
  PROVE  Types'
<1> USE DEF Types, Turn, Mishap, Fault, At, Step, Looked, Kept, master, follower, copies, engine, bounds
<1>1. CASE MirrorPlace
  <2>1. Stops'
    BY <1>1, Heads DEF MirrorPlace, Stops, Place, Accepted, Event, Told
  <2>2. Queues'
    BY <1>1, Heads DEF MirrorPlace, Queues, Event
  <2>3. Sweeper'
    BY <1>1 DEF MirrorPlace, Sweeper
  <2>4. Counts'
    BY <1>1 DEF MirrorPlace, Counts, Place, Accepted
  <2>5. QED BY <2>1, <2>2, <2>3, <2>4
<1>2. CASE MirrorCancel
  <2>1. Stops'
    <3>1. mapped' \subseteq mapped /\ UNCHANGED <<master, sprung, done, fired>>
      BY <1>2 DEF MirrorCancel, CancelPassedOn, FlatAnswered
    <3>2. \/ live' = None /\ fheld' \in {fheld, FALSE}
          \/ UNCHANGED <<live, fheld>>
      BY <1>2 DEF MirrorCancel, CancelPassedOn, FlatAnswered
    <3>3. QED BY <3>1, <3>2 DEF Stops
  <2>2. Queues'
    BY <1>2, Heads DEF MirrorCancel, Queues, Event
  <2>3. Sweeper'
    BY <1>2 DEF MirrorCancel, Sweeper
  <2>4. Counts'
    BY <1>2 DEF MirrorCancel, Counts, CancelPassedOn, FlatAnswered
  <2>5. QED BY <2>1, <2>2, <2>3, <2>4
<1>3. QED BY <1>1, <1>2 DEF Mirror

\* So does the listener.
LEMMA SnapshotTypes ==
  ASSUME Types, Snapshot, UNCHANGED faults
  PROVE  Types'
<1> USE DEF Types, Turn, Mishap, Fault, At, Step, Looked, Kept, master, follower, copies, engine, bounds
<1>1. CASE SnapOrders
  <2>1. Stops'
    BY <1>1 DEF SnapOrders, Stops
  <2>2. Queues'
    BY <1>1 DEF SnapOrders, Queues, Stops, Snap
  <2>3. Sweeper'
    BY <1>1 DEF SnapOrders, Sweeper
  <2>4. Counts'
    BY <1>1 DEF SnapOrders, Counts
  <2>5. QED BY <2>1, <2>2, <2>3, <2>4
<1>2. CASE SnapPositions
  <2>1. Stops'
    BY <1>2 DEF SnapPositions, Stops
  <2>2. Queues'
    BY <1>2 DEF SnapPositions, Queues, Stops, Snap, NoSnap
  <2>3. Sweeper'
    BY <1>2 DEF SnapPositions, Sweeper
  <2>4. Counts'
    BY <1>2 DEF SnapPositions, Counts
  <2>5. QED BY <2>1, <2>2, <2>3, <2>4
<1>3. QED BY <1>1, <1>2 DEF Snapshot

\* And the steps of the sweep.
LEMMA SweepTypes ==
  ASSUME Types, Sweep \/ LoadFails \/ OtherOwnersSweep \/ Crash, UNCHANGED faults
  PROVE  Types'
<1> USE DEF Types, Turn, Mishap, Fault, At, Step, Looked, Kept, master, follower, copies, engine, bounds
<1>1. CASE TakeSweep
  <2>1. Stops'
    BY <1>1 DEF TakeSweep, Stops
  <2>2. Queues'
    BY <1>1, Heads DEF TakeSweep, Queues
  <2>3. Sweeper'
    BY <1>1, Heads DEF TakeSweep, Sweeper, Pass, Idle
  <2>4. Counts'
    BY <1>1 DEF TakeSweep, Counts
  <2>5. QED BY <2>1, <2>2, <2>3, <2>4
<1>2. CASE ReadOrders
  <2>0. UNCHANGED <<master, follower, copies, snap, sweeps, todo, fired, turns, faults>>
    BY <1>2 DEF ReadOrders
  <2>1. Stops'
    BY <2>0 DEF Stops
  <2>2. Queues'
    BY <2>0 DEF Queues
  <2>3. Sweeper'
    BY <1>2 DEF ReadOrders, Sweeper, Pass, Idle, Stops, Listed, See, Sighting
  <2>4. Counts'
    <3>1. mishaps' = mishaps \/ (mishaps < MaxMishaps /\ mishaps' = mishaps + 1)
      BY <1>2 DEF ReadOrders
    <3>2. QED BY <2>0, <3>1 DEF Counts
  <2>5. QED BY <2>1, <2>2, <2>3, <2>4
<1>3. CASE CancelOrphan
  <2>1. Stops'
    BY <1>3 DEF CancelOrphan, Stops
  <2>2. Queues'
    BY <1>3 DEF CancelOrphan, Queues
  <2>3. Sweeper'
    BY <1>3 DEF CancelOrphan, Sweeper, Pass, Idle
  <2>4. Counts'
    BY <1>3 DEF CancelOrphan, Counts
  <2>5. QED BY <2>1, <2>2, <2>3, <2>4
<1>4. CASE ReadPositions
  <2>1. Stops'
    BY <1>4 DEF ReadPositions, Stops
  <2>2. Queues'
    BY <1>4 DEF ReadPositions, Queues
  <2>3. Sweeper'
    BY <1>4 DEF ReadPositions, Sweeper, Pass, Idle
  <2>4. Counts'
    BY <1>4 DEF ReadPositions, Counts
  <2>5. QED BY <2>1, <2>2, <2>3, <2>4
<1>5. CASE PlaceMissing
  <2>1. Stops'
    BY <1>5 DEF PlaceMissing, Stops, Sweeper, Place, Accepted, Pass
  <2>2. Queues'
    BY <1>5 DEF PlaceMissing, Queues
  <2>3. Sweeper'
    BY <1>5 DEF PlaceMissing, Sweeper, Pass, Idle
  <2>4. Counts'
    BY <1>5 DEF PlaceMissing, Counts, Place, Accepted
  <2>5. QED BY <2>1, <2>2, <2>3, <2>4
<1>6. CASE EndSweep
  <2>1. Stops'
    BY <1>6 DEF EndSweep, Stops
  <2>2. Queues'
    BY <1>6 DEF EndSweep, Queues
  <2>3. Sweeper'
    BY <1>6 DEF EndSweep, Sweeper, Pass, Idle
  <2>4. Counts'
    BY <1>6 DEF EndSweep, Counts
  <2>5. QED BY <2>1, <2>2, <2>3, <2>4
<1>7. CASE LoadFails
  <2>1. Stops'
    BY <1>7 DEF LoadFails, Stops
  <2>2. Queues'
    BY <1>7, Heads DEF LoadFails, Queues
  <2>3. Sweeper'
    BY <1>7 DEF LoadFails, Sweeper, Pass, Idle
  <2>4. Counts'
    BY <1>7 DEF LoadFails, Counts
  <2>5. QED BY <2>1, <2>2, <2>3, <2>4
<1>8. CASE OtherOwnersSweep
  <2>1. Stops'
    BY <1>8 DEF OtherOwnersSweep, Stops
  <2>2. Queues'
    BY <1>8 DEF OtherOwnersSweep, Queues
  <2>3. Sweeper'
    BY <1>8 DEF OtherOwnersSweep, Sweeper, Pass, Idle
  <2>4. Counts'
    BY <1>8 DEF OtherOwnersSweep, Counts
  <2>5. QED BY <2>1, <2>2, <2>3, <2>4
<1>9. CASE Crash
  <2>1. Stops'
    BY <1>9 DEF Crash, Stops
  <2>2. Queues'
    BY <1>9 DEF Crash, Queues, Snap, NoSnap
  <2>3. Sweeper'
    BY <1>9 DEF Crash, Sweeper, Pass, Idle
  <2>4. Counts'
    BY <1>9 DEF Crash, Counts
  <2>5. QED BY <2>1, <2>2, <2>3, <2>4
<1>10. QED BY <1>1, <1>2, <1>3, <1>4, <1>5, <1>6, <1>7, <1>8, <1>9 DEF Sweep

\* Only the sweep touches what it remembers.
LEMMA OthersAside ==
  ASSUME IInv, UNCHANGED engine, UNCHANGED faults
  PROVE  (Remembered /\ Found /\ Confirmed)'
BY DEF IInv, engine, Remembered, Found, Confirmed, Looking, Before, Fault

\* Each step of the sweep keeps what its candidates stand for.
LEMMA SweepRemembers ==
  ASSUME IInv, Sweep \/ LoadFails \/ OtherOwnersSweep \/ Crash, UNCHANGED faults
  PROVE  (Remembered /\ Found /\ Confirmed)'
<1> USE DEF IInv, Types, Stops, Sweeper, Pass, Idle, Fault, At, Step, Kept,
            Remembered, Found, Confirmed, Looking, Before
<1>1. CASE TakeSweep
  BY <1>1 DEF TakeSweep
<1>2. CASE ReadOrders
  <2>1. sightings' = [sightings EXCEPT ![2] = sightings[1],
                       ![1] = [set |-> pass.stop # None, bare |-> live = None]]
    BY <1>2 DEF ReadOrders, See
  <2>2. /\ sightings'[2] = sightings[1]
        /\ sightings'[1].set = (pass.stop # None) /\ sightings'[1].bare = (live = None)
    BY <2>1
  <2>3. UNCHANGED <<orphanPrev, missingPrev>> /\ ~pass.missing /\ pass.at = "orders"
    BY <1>2 DEF ReadOrders
  <2>4. PICK copy \in {live, None}, ok \in BOOLEAN :
          pass' = Listed(copy, ok) /\ (copy # live => ~ok \/ Fault("half"))
    BY <1>2 DEF ReadOrders, Mishap
  <2>5. /\ pass'.stop = pass.stop /\ pass'.missing = pass.missing /\ pass'.seen = copy
        /\ pass'.orphan = (copy # None /\ pass.stop = None)
        /\ pass'.at \in {"cancel", "positions", "end"}
        /\ pass'.at = "cancel" => pass'.orphan /\ orphanPrev
        /\ pass'.at = "positions" => pass.stop # None /\ ok
    BY <2>4 DEF Listed
  <2>6. QED BY <2>2, <2>3, <2>4, <2>5
<1>3. CASE CancelOrphan
  BY <1>3 DEF CancelOrphan
<1>4. CASE ReadPositions
  BY <1>4 DEF ReadPositions
<1>5. CASE PlaceMissing
  BY <1>5 DEF PlaceMissing
<1>6. CASE EndSweep
  BY <1>6 DEF EndSweep
<1>7. CASE LoadFails
  BY <1>7 DEF LoadFails
<1>8. CASE OtherOwnersSweep
  BY <1>8 DEF OtherOwnersSweep
<1>9. CASE Crash
  BY <1>9 DEF Crash
<1>10. QED
  BY <1>1, <1>2, <1>3, <1>4, <1>5, <1>6, <1>7, <1>8, <1>9 DEF Sweep

\* Every step keeps the invariant.
LEMMA NextInv == IInv /\ [Next]_vars => IInv'
<1> SUFFICES ASSUME IInv, [Next]_vars PROVE IInv'
  OBVIOUS
<1>1. CASE Market /\ UNCHANGED faults
  <2>1. UNCHANGED engine
    BY <1>1 DEF Market, MasterProtects, MasterUnprotects, MasterStopFires, MasterExits,
         StopToldAgain, MasterEnters, FollowerEnters, FollowerStopFires, CopyCancelled
  <2>2. QED BY <1>1, <2>1, MarketTypes, OthersAside DEF IInv
<1>2. CASE Mirror /\ UNCHANGED faults
  BY <1>2, MirrorTypes, OthersAside DEF IInv, Mirror, MirrorPlace, MirrorCancel
<1>3. CASE Snapshot /\ UNCHANGED faults
  BY <1>3, SnapshotTypes, OthersAside DEF IInv, Snapshot, SnapOrders, SnapPositions
<1>4. CASE (Sweep \/ LoadFails \/ OtherOwnersSweep \/ Crash) /\ UNCHANGED faults
  BY <1>4, SweepTypes, SweepRemembers DEF IInv
<1>5. CASE UNCHANGED vars
  <2>1. UNCHANGED <<engine, faults>>
    BY <1>5 DEF vars
  <2>2. Types'
    BY <1>5 DEF IInv, Types, Stops, Queues, Sweeper, Counts, vars, master, follower, copies, engine, bounds
  <2>3. QED BY <2>1, <2>2, OthersAside DEF IInv
<1>6. QED BY <1>1, <1>2, <1>3, <1>4, <1>5 DEF Next

LEMMA Invariance == Spec => []IInv
<1>1. QED BY InitInv, NextInv, PTL DEF Spec

\* The types of the protection sync, for any bounds and disturbances.
THEOREM TypeCorrect == Spec => []TypeOK
<1>1. IInv => TypeOK
  BY TypesSuffice DEF IInv
<1>2. QED BY Invariance, <1>1, PTL

\* However snapshots, sweeps, restarts, failed reads and other owners' sweeps
\* fall, _sync_protection cancels a stop only when the master had none at the
\* last two snapshots it handled, and places one only when he had one at both
\* and the follower, if its orders could be read whole, had none at either look.
THEOREM SweepTwiceSeen == Spec => SweepConfirms
<1>1. IInv /\ [Next]_vars =>
        [/\ Cancels => \A i \in {1, 2} : ~sightings[i].set
         /\ Places /\ ~Fault("half") =>
              \A i \in {1, 2} : sightings[i].set /\ sightings[i].bare]_vars
  BY DEF IInv, Remembered, Found, Confirmed, Looking, Before, Cancels, Places, At
<1>2. QED BY Invariance, <1>1, PTL DEF Spec, SweepConfirms
=============================================================================
