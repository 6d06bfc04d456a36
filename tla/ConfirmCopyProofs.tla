-------------------------- MODULE ConfirmCopyProofs --------------------------
(***************************************************************************)
(* What confirm-copy may never buy, for an order of any size, at any ratio *)
(* of the lots, whatever else is lost, refused, repeated or restarted.     *)
(***************************************************************************)
EXTENDS ConfirmCopy, TLAPS

\* A mirror fills no more than the share of what the master's order filled.
Behind == \A o \in Orders : mfill[o] <= Share(mfilled[o])

\* The one order of a behaviour without a ladder.
one == CHOOSE o \in Orders : TRUE
\* The tasks of it.
Both == {<<one, 1>>, <<one, 2>>}

\* Where a task compares and buys, and where nobody else may have.
Looks == {"legs", "live", "mark", "held", "master", "buy", "record"}
Owns  == {"held", "master", "buy", "record"}

\* Confirm-copy is the only buyer and can read the positions.
Alone == scene.faults \intersect {"ladder", "escalates", "reconcile", "reduces", "lag",
                                  "marker", "position_read"} = {}

\* The positions are what the one order made them, and show.
Plain ==
  /\ \A o \in Orders \ {one} : bought[o] = 0 /\ pc[<<o, 1>>] = "idle" /\ pc[<<o, 2>>] = "idle"
  /\ mpos = mfilled[one] /\ shown = held /\ rgap = 0
  /\ mfilled[one] > 0 \/ mstate[one] # "open" => mirror[one] # "unplaced"

\* A task starts when the order is final, so the master's position is.
Started ==
  /\ \A t \in Both : pc[t] # "idle" => mfilled[one] = Qty \/ mstate[one] # "open"
  /\ \A t \in Both : pc[t] = "map" => mstate[one] = "open" /\ mfilled[one] = Qty
  /\ bought[one] > 0 => mfilled[one] = Qty \/ mstate[one] # "open"

\* A mirror that rests is known to the task: it never gets to buy beside it,
\* nor beside the escalation that has taken the mirror's lots.
Excluded ==
  /\ mirror[one] = "live" /\ mstate[one] # "cancelled" => mapped[one] = "mirror"
  /\ \A t \in Both :
       /\ pc[t] \in {"sleep", "legs", "live"} /\ mirror[one] = "live" => knows[t] = "mirror"
       /\ pc[t] \in Owns \union {"mark"} => mirror[one] # "live"
       /\ pc[t] \in Looks => left[one] = 0
  /\ left[one] > 0 => pc[<<one, 1>>] = "done" /\ mirror[one] = "cancelled"

\* One task passes the marker.
Once ==
  /\ \A t \in Both : pc[t] \in Owns => marker[one]
  /\ ~(pc[<<one, 1>>] \in Owns /\ pc[<<one, 2>>] \in Owns)

\* The follower's share of the master's position.
Due == Share(mpos)

\* What it buys was sized for the position as it is; then nobody buys any more.
Sized ==
  /\ \A t \in Both :
       /\ pc[t] \in {"master", "buy"} => seen[t] = held
       /\ pc[t] = "buy" => held + short[t] <= Due
  /\ bought[one] > 0 =>
       /\ held <= Due
       /\ marker[one] /\ mirror[one] # "live" /\ left[one] = 0
       /\ \A t \in Both : pc[t] \notin {"held", "master", "buy"}

Calm == Plain /\ Started /\ Excluded /\ Once /\ Sized
IInv == TypeOK /\ Behind /\ (Alone => Calm)
-----------------------------------------------------------------------------
(* The follower's share. *)

\* Division rounds down.
LEMMA Divides ==
  ASSUME NEW n \in Nat, NEW p \in Nat \ {0}
  PROVE  n \div p \in Nat /\ p * (n \div p) <= n /\ n < p * (n \div p) + p
BY Z3

\* A larger multiple of something positive is of a larger number.
LEMMA Multiples ==
  ASSUME NEW a \in Nat, NEW b \in Nat, NEW p \in Nat \ {0}, a < b
  PROVE  p * a + p <= p * b
BY Z3

\* A share is a number of lots, no more than the master's and larger for more.
LEMMA ShareOf ==
  ASSUME scene \in Scenarios
  PROVE  /\ \A n \in Nat : Share(n) \in Nat /\ Share(n) <= n
         /\ \A m, n \in Nat : m <= n => Share(m) <= Share(n)
<1> DEFINE p == scene.perLot
<1>1. p \in Nat \ {0}
  BY ConfirmAssumption DEF Scenario
<1>2. \A n \in Nat : Share(n) = (n + p - 1) \div p
  BY DEF Share
<1> HIDE DEF p
<1>3. \A n \in Nat : /\ Share(n) \in Nat
                     /\ p * Share(n) <= n + p - 1 /\ n + p - 1 < p * Share(n) + p
  <2> TAKE n \in Nat
  <2>1. n + p - 1 \in Nat
    BY <1>1
  <2> QED
    BY <1>1, <1>2, <2>1, Divides
<1>4. ASSUME NEW n \in Nat
      PROVE  Share(n) <= n
  <2>1. SUFFICES ASSUME n < Share(n) PROVE FALSE
    BY <1>3
  <2>2. p * n + p <= p * Share(n)
    BY <1>1, <1>3, <2>1, Multiples
  <2>3. n <= p * n /\ p * n \in Nat
    BY <1>1, Z3
  <2>4. p * Share(n) \in Nat
    BY <1>1, <1>3, Z3
  <2>5. p * Share(n) <= n + p - 1
    BY <1>3
  <2> DEFINE q == p * Share(n)
             r == p * n
  <2> HIDE DEF q, r
  <2>6. /\ q \in Nat /\ r \in Nat /\ r + p <= q /\ n <= r /\ q <= n + p - 1
    BY <2>2, <2>3, <2>4, <2>5 DEF q, r
  <2> QED
    BY <1>1, <2>6
<1>5. ASSUME NEW m \in Nat, NEW n \in Nat, m <= n
      PROVE  Share(m) <= Share(n)
  <2>1. SUFFICES ASSUME Share(n) < Share(m) PROVE FALSE
    BY <1>3
  <2>2. p * Share(n) + p <= p * Share(m)
    BY <1>1, <1>3, <2>1, Multiples
  <2>3. p * Share(n) \in Nat /\ p * Share(m) \in Nat
    BY <1>1, <1>3, Z3
  <2>4. n + p - 1 < p * Share(n) + p /\ p * Share(m) <= m + p - 1
    BY <1>3
  <2> DEFINE q == p * Share(n)
             r == p * Share(m)
  <2> HIDE DEF q, r
  <2>5. /\ q \in Nat /\ r \in Nat /\ q + p <= r
        /\ n + p - 1 < q + p /\ r <= m + p - 1
    BY <2>2, <2>3, <2>4 DEF q, r
  <2> QED
    BY <1>1, <1>5, <2>5
<1> QED
  BY <1>3, <1>4, <1>5
-----------------------------------------------------------------------------
(* The types, and how far a mirror fills. *)

MasterOK ==
  /\ mfilled \in [Orders -> 0 .. Qty]
  /\ mstate \in [Orders -> {"open", "cancelling", "cancelled"}]
  /\ mpos \in Nat
CopyOK ==
  /\ mirror \in [Orders -> Mirrors]
  /\ mfill \in [Orders -> 0 .. Qty]
  /\ left \in [Orders -> 0 .. Qty]
  /\ forced \in [Orders -> 0 .. Qty]
HeldOK == held \in Nat /\ shown \in 0 .. held /\ rgap \in Nat
StoreOK ==
  /\ mapped \in [Orders -> {"nothing", "mirror", "market"}]
  /\ leg \in [Orders -> Legs]
  /\ legqty \in [Orders -> 0 .. Qty]
  /\ marker \in [Orders -> BOOLEAN]
TaskOK ==
  /\ pc \in [Task -> PC]
  /\ knows \in [Task -> {"nothing", "mirror", "market"}]
  /\ counted \in [Task -> 0 .. Qty]
  /\ seen \in [Task -> Nat]
  /\ short \in [Task -> 0 .. Qty]
BoughtOK == bought \in [Orders -> Nat]

LEMMA TypeParts ==
  /\ TypeOK <=> /\ scene \in Scenarios
                /\ MasterOK /\ CopyOK /\ HeldOK /\ StoreOK /\ TaskOK /\ BoughtOK
  /\ /\ scene' \in Scenarios
     /\ MasterOK' /\ CopyOK' /\ HeldOK' /\ StoreOK' /\ TaskOK' /\ BoughtOK'
     => TypeOK'
BY Zenon DEF TypeOK, MasterOK, CopyOK, HeldOK, StoreOK, TaskOK, BoughtOK

\* What is left alone keeps its type.
LEMMA Untouched ==
  /\ MasterOK /\ UNCHANGED master => MasterOK'
  /\ CopyOK /\ UNCHANGED copy => CopyOK'
  /\ HeldOK /\ UNCHANGED <<held, shown, rgap>> => HeldOK'
  /\ StoreOK /\ UNCHANGED store => StoreOK'
  /\ TaskOK /\ UNCHANGED task => TaskOK'
  /\ BoughtOK /\ UNCHANGED bought => BoughtOK'
<1>1. MasterOK /\ UNCHANGED master => MasterOK'
  BY DEF MasterOK, master
<1>2. CopyOK /\ UNCHANGED copy => CopyOK'
  BY DEF CopyOK, copy
<1>3. HeldOK /\ UNCHANGED <<held, shown, rgap>> => HeldOK'
  BY DEF HeldOK
<1>4. StoreOK /\ UNCHANGED store => StoreOK'
  BY DEF StoreOK, store
<1>5. TaskOK /\ UNCHANGED task => TaskOK'
  BY DEF TaskOK, task
<1>6. BoughtOK /\ UNCHANGED bought => BoughtOK'
  BY DEF BoughtOK
<1> QED
  BY <1>1, <1>2, <1>3, <1>4, <1>5, <1>6

\* Without a ladder the master works one order.
LEMMA OneWorks == one \in Orders /\ Working \subseteq Orders /\ (Alone => Working = {one})
<1>1. one \in Orders
  BY ConfirmAssumption DEF one
<1> QED
  BY <1>1 DEF Working, Alone, Fault, one

\* A position that gains lots shows them, or shows what it did.
LEMMA GainsTyped ==
  ASSUME HeldOK, NEW n \in Nat, Gains(n), rgap' \in Nat
  PROVE  HeldOK'
BY DEF HeldOK, Gains

\* The moves of the exchange and the desk.
Trading(o) == MasterFills(o) \/ MirrorFills(o) \/ Withdrawn(o)

LEMMA TradingTyped ==
  ASSUME TypeOK, Behind, NEW o \in Orders, Trading(o)
  PROVE  TypeOK' /\ Behind'
<1>1. /\ MasterOK /\ CopyOK /\ HeldOK /\ scene \in Scenarios
      /\ Qty \in Nat
  BY TypeParts, ConfirmAssumption
<1>2. /\ UNCHANGED <<scene, left, forced, rgap, store, task, bought>>
      /\ scene' \in Scenarios /\ StoreOK' /\ TaskOK' /\ BoughtOK'
  BY TypeParts, Untouched DEF Trading, MasterFills, MirrorFills, Withdrawn, copy
<1>3. \A n \in Nat : Share(n)' = Share(n)
  BY <1>2 DEF Share
<1>4. CASE MasterFills(o)
  <2>1. PICK n \in 1 .. (Qty - mfilled[o]) :
          mfilled' = [mfilled EXCEPT ![o] = @ + n] /\ mpos' = mpos + n
    BY <1>4 DEF MasterFills
  <2>2. UNCHANGED <<mstate, copy, held, shown>>
    BY <1>4 DEF MasterFills
  <2>3. MasterOK'
    BY <1>1, <2>1, <2>2 DEF MasterOK
  <2>4. CopyOK' /\ HeldOK'
    BY <1>1, <1>2, <2>2, Untouched
  <2>5. Behind'
    <3> SUFFICES ASSUME NEW x \in Orders
                 PROVE  mfill[x] <= Share(mfilled'[x])
      BY <1>3, <2>2, <2>3 DEF Behind, copy, MasterOK, Share
    <3>1. mfilled[x] \in Nat /\ mfilled'[x] \in Nat /\ mfilled[x] <= mfilled'[x] /\ mfill[x] \in Nat
      BY <1>1, <2>1 DEF MasterOK, CopyOK
    <3>2. /\ Share(mfilled[x]) \in Nat /\ Share(mfilled'[x]) \in Nat
          /\ Share(mfilled[x]) <= Share(mfilled'[x])
      BY <1>1, <3>1, ShareOf
    <3> QED
      BY <3>1, <3>2 DEF Behind
  <2> QED
    BY <1>2, <2>3, <2>4, <2>5, TypeParts
<1>5. CASE MirrorFills(o)
  <2>1. PICK n \in 1 .. (Share(mfilled[o]) - mfill[o]) :
          /\ mfill' = [mfill EXCEPT ![o] = @ + n]
          /\ mirror' = [mirror EXCEPT ![o] = IF mfill[o] + n = Share(Qty) THEN "filled" ELSE "live"]
          /\ Gains(n)
    BY <1>5 DEF MirrorFills
  <2>2. UNCHANGED master /\ MasterOK'
    BY <1>1, <1>5, Untouched DEF MirrorFills
  <2>3. Share(mfilled[o]) \in Nat /\ Share(mfilled[o]) <= mfilled[o] /\ mfilled[o] \in 0 .. Qty
    BY <1>1, ShareOf DEF MasterOK
  <2>4. /\ n \in Nat /\ mfill[o] \in Nat /\ mfill[o] + n <= Share(mfilled[o])
        /\ mfill[o] + n \in 0 .. Qty
    BY <1>1, <2>1, <2>3 DEF CopyOK
  <2>5. CopyOK'
    BY <1>1, <1>2, <2>1, <2>4 DEF CopyOK, Mirrors
  <2>6. HeldOK'
    BY <1>1, <1>2, <2>1, <2>4, GainsTyped DEF HeldOK
  <2>7. Behind'
    <3>1. mfilled' = mfilled /\ scene' = scene
      BY <1>2, <2>2 DEF master
    <3>2. \A x \in Orders : mfill'[x] <= Share(mfilled[x])
      BY <1>1, <2>1, <2>4 DEF Behind, CopyOK
    <3> QED
      BY <3>1, <3>2 DEF Behind, Share
  <2> QED
    BY <1>2, <2>2, <2>5, <2>6, <2>7, TypeParts
<1>6. CASE Withdrawn(o)
  <2>1. /\ UNCHANGED <<mfilled, mstate, mpos, mfill, left, forced, held, shown>>
        /\ mirror' = [mirror EXCEPT ![o] = "cancelled"]
    BY <1>6 DEF Withdrawn, master
  <2>2. MasterOK' /\ HeldOK'
    BY <1>1, <1>2, <2>1 DEF MasterOK, HeldOK
  <2>3. CopyOK'
    BY <1>1, <2>1 DEF CopyOK, Mirrors
  <2>4. Behind'
    BY <1>2, <2>1 DEF Behind, Share
  <2> QED
    BY <1>2, <2>2, <2>3, <2>4, TypeParts
<1> QED
  BY <1>4, <1>5, <1>6 DEF Trading

\* Whoever does not fill leaves the mirrors as far behind as they are.
LEMMA StaysBehind ==
  ASSUME Behind, UNCHANGED <<scene, mfilled, mfill>>
  PROVE  Behind'
BY DEF Behind, Share

LEMMA HandledTyped ==
  ASSUME TypeOK, Behind, NEW o \in Orders, Handled(o)
  PROVE  TypeOK' /\ Behind'
<1>1. /\ MasterOK /\ CopyOK /\ HeldOK /\ StoreOK /\ TaskOK /\ scene \in Scenarios
      /\ Qty \in Nat
  BY TypeParts, ConfirmAssumption
<1>2. UNCHANGED <<scene, mfilled, mpos, mfill, rgap, marker, bought>>
  BY DEF Handled, MirrorPlaced, MirrorMissed, MasterCancels, CancelForgets,
         EscalationCancels, EscalationMarkets, master, copy, store
<1>3. Behind' /\ scene' \in Scenarios /\ BoughtOK'
  BY <1>2, StaysBehind, TypeParts, Untouched
<1>4. MasterOK'
  <2>1. mstate' \in [Orders -> {"open", "cancelling", "cancelled"}]
    BY <1>1 DEF Handled, MirrorPlaced, MirrorMissed, MasterCancels, CancelForgets,
         EscalationCancels, EscalationMarkets, master, MasterOK
  <2> QED
    BY <1>1, <1>2, <2>1 DEF MasterOK
<1>5. mirror' \in [Orders -> Mirrors]
  BY <1>1 DEF Handled, MirrorPlaced, MirrorMissed, MasterCancels, CancelForgets,
       EscalationCancels, EscalationMarkets, copy, CopyOK, Mirrors
<1>6. mapped' \in [Orders -> {"nothing", "mirror", "market"}]
  BY <1>1 DEF Handled, MirrorPlaced, MirrorMissed, MasterCancels, CancelForgets,
       EscalationCancels, EscalationMarkets, store, StoreOK
<1>7. leg' \in [Orders -> Legs]
  <2>1. ASSUME NEW s \in Legs, leg' = [leg EXCEPT ![o] = s]
        PROVE  leg' \in [Orders -> Legs]
    BY <1>1, <2>1 DEF StoreOK
  <2>2. leg[o] \in Legs
    BY <1>1 DEF StoreOK
  <2>3. leg' = leg \/ \E s \in Legs : leg' = [leg EXCEPT ![o] = s]
    BY <2>2 DEF Handled, MirrorPlaced, MirrorMissed, MasterCancels, CancelForgets,
         EscalationCancels, EscalationMarkets, store, Legs
  <2> QED
    BY <1>1, <2>1, <2>3 DEF StoreOK
<1>8. ASSUME UNCHANGED <<left, forced, held, shown>>
      PROVE  CopyOK' /\ HeldOK'
  BY <1>1, <1>2, <1>5, <1>8 DEF CopyOK, HeldOK
<1>9. ASSUME UNCHANGED legqty
      PROVE  StoreOK'
  BY <1>1, <1>2, <1>6, <1>7, <1>9 DEF StoreOK
<1>10. CASE MirrorPlaced(o) \/ MirrorMissed(o) \/ CancelForgets(o)
  <2>1. UNCHANGED <<left, forced, held, shown, legqty, task>>
    BY <1>10 DEF MirrorPlaced, MirrorMissed, CancelForgets, copy
  <2> QED
    BY <1>1, <1>3, <1>4, <1>8, <1>9, <2>1, TypeParts, Untouched
<1>11. CASE MasterCancels(o)
  <2>1. UNCHANGED <<left, forced, held, shown, store, counted, short>>
    BY <1>11 DEF MasterCancels
  <2>2. TaskOK'
    <3>1. <<o, 1>> \in Task /\ mapped[o] \in {"nothing", "mirror", "market"} /\ held \in Nat
      BY <1>1 DEF Task, StoreOK, HeldOK
    <3>2. \/ /\ pc' = [pc EXCEPT ![<<o, 1>>] = "sleep"]
             /\ knows' = [knows EXCEPT ![<<o, 1>>] = mapped[o]]
             /\ seen' = [seen EXCEPT ![<<o, 1>>] = held]
          \/ UNCHANGED <<pc, knows, seen>>
      BY <1>11 DEF MasterCancels
    <3> QED
      BY <1>1, <2>1, <3>1, <3>2 DEF TaskOK, PC
  <2>3. UNCHANGED legqty
    BY <2>1 DEF store
  <2> QED
    BY <1>3, <1>4, <1>8, <1>9, <2>1, <2>2, <2>3, TypeParts
<1>12. CASE EscalationCancels(o)
  <2>1. /\ UNCHANGED <<forced, held, shown, store, task>>
        /\ left' = [left EXCEPT ![o] = Share(Qty) - mfill[o]] /\ mfilled[o] = Qty
    BY <1>12 DEF EscalationCancels
  <2>2. Share(Qty) \in Nat /\ Share(Qty) <= Qty /\ mfill[o] <= Share(Qty) /\ mfill[o] \in Nat
    BY <1>1, <2>1, ShareOf DEF Behind, CopyOK
  <2>3. left' \in [Orders -> 0 .. Qty]
    BY <1>1, <2>1, <2>2 DEF CopyOK
  <2>4. CopyOK' /\ HeldOK'
    BY <1>1, <1>2, <1>5, <2>1, <2>3 DEF CopyOK, HeldOK
  <2> QED
    BY <1>1, <1>3, <1>4, <2>1, <2>4, TypeParts, Untouched
<1>13. CASE EscalationMarkets(o)
  <2>1. /\ forced' = [forced EXCEPT ![o] = left[o]] /\ left' = [left EXCEPT ![o] = 0]
        /\ Gains(left[o]) /\ legqty' = [legqty EXCEPT ![o] = 0] /\ UNCHANGED task
    BY <1>13 DEF EscalationMarkets
  <2>2. CopyOK'
    BY <1>1, <1>2, <1>5, <2>1 DEF CopyOK
  <2>3. HeldOK'
    BY <1>1, <1>2, <2>1, GainsTyped DEF CopyOK, HeldOK
  <2>4. StoreOK'
    BY <1>1, <1>2, <1>6, <1>7, <2>1 DEF StoreOK
  <2> QED
    BY <1>1, <1>3, <1>4, <2>1, <2>2, <2>3, <2>4, TypeParts, Untouched
<1> QED
  BY <1>10, <1>11, <1>12, <1>13 DEF Handled

\* A task of confirm-copy.
LEMMA TaskTyped ==
  ASSUME TypeOK, Behind, NEW t \in Task, Completed(t) \/ Step(t)
  PROVE  TypeOK' /\ Behind'
<1>1. /\ MasterOK /\ CopyOK /\ HeldOK /\ StoreOK /\ TaskOK /\ BoughtOK /\ scene \in Scenarios
      /\ Qty \in Nat /\ t[1] \in Orders
  BY TypeParts, ConfirmAssumption DEF Task
<1>2. UNCHANGED <<scene, master, copy, rgap>>
  BY DEF Completed, Step, ReadMap, Wake, ReadLegs, CheckLive, Mark, ReadHeld, ReadMaster,
         Buy, RecordLeg, Env
<1>3. Behind' /\ scene' \in Scenarios /\ MasterOK' /\ CopyOK'
  BY <1>1, <1>2, StaysBehind, Untouched DEF master, copy
<1>4. ASSUME UNCHANGED <<held, shown>>
      PROVE  HeldOK'
  BY <1>1, <1>2, <1>4, Untouched
<1>5. pc' \in [Task -> PC]
  <2>1. \E p \in PC : pc' = [pc EXCEPT ![t] = p]
    BY DEF Completed, Step, ReadMap, Wake, ReadLegs, CheckLive, Mark, ReadHeld, ReadMaster,
           Buy, RecordLeg, GoTo, PC
  <2> QED
    BY <1>1, <2>1 DEF TaskOK
<1>6. CASE Completed(t) \/ ReadHeld(t)
  <2>1. UNCHANGED <<held, shown, store, knows, counted, short, bought>>
    BY <1>6 DEF Completed, ReadHeld
  <2>2. \E n \in Nat : seen' = [seen EXCEPT ![t] = n]
    BY <1>1, <1>6 DEF Completed, ReadHeld, HeldOK
  <2>3. TaskOK'
    BY <1>1, <1>5, <2>1, <2>2 DEF TaskOK
  <2> QED
    BY <1>1, <1>3, <1>4, <2>1, <2>3, TypeParts, Untouched
<1>7. CASE ReadMap(t)
  <2>1. UNCHANGED <<held, shown, store, counted, seen, short, bought>>
    BY <1>7 DEF ReadMap
  <2>2. TaskOK'
    BY <1>1, <1>5, <1>7, <2>1 DEF ReadMap, TaskOK, StoreOK
  <2> QED
    BY <1>1, <1>3, <1>4, <2>1, <2>2, TypeParts, Untouched
<1>8. CASE Wake(t) \/ CheckLive(t)
  <2>1. UNCHANGED <<held, shown, store, knows, counted, seen, short, bought>>
    BY <1>8 DEF Wake, CheckLive
  <2>2. TaskOK'
    BY <1>1, <1>5, <2>1 DEF TaskOK
  <2> QED
    BY <1>1, <1>3, <1>4, <2>1, <2>2, TypeParts, Untouched
<1>9. CASE ReadLegs(t)
  <2>1. /\ UNCHANGED <<held, shown, store, knows, seen, short, bought>>
        /\ counted' = counted \/ counted' = [counted EXCEPT ![t] = LegsFilled(t[1])]
    BY <1>9 DEF ReadLegs
  <2>2. LegsFilled(t[1]) \in 0 .. Qty
    BY <1>1 DEF LegsFilled, StoreOK
  <2>3. TaskOK'
    BY <1>1, <1>5, <2>1, <2>2 DEF TaskOK
  <2> QED
    BY <1>1, <1>3, <1>4, <2>1, <2>3, TypeParts, Untouched
<1>10. CASE Mark(t)
  <2>1. UNCHANGED <<held, shown, mapped, leg, legqty, knows, counted, seen, short, bought>>
    BY <1>10 DEF Mark
  <2>2. TaskOK'
    BY <1>1, <1>5, <2>1 DEF TaskOK
  <2>3. marker' \in [Orders -> BOOLEAN]
    <3>1. marker' = marker \/ marker' = [marker EXCEPT ![t[1]] = TRUE]
      BY <1>10 DEF Mark
    <3> QED
      BY <1>1, <3>1 DEF StoreOK
  <2>4. StoreOK'
    BY <1>1, <2>1, <2>3 DEF StoreOK
  <2> QED
    BY <1>1, <1>3, <1>4, <2>1, <2>2, <2>4, TypeParts, Untouched
<1>11. CASE ReadMaster(t)
  <2>1. UNCHANGED <<held, shown, store, knows, counted, seen, bought>>
    BY <1>11 DEF ReadMaster
  <2>2. short' = short \/ \E m \in Nat : ~TooSmall(t, m) /\ short' = [short EXCEPT ![t] = Gap(t, m)]
    BY <1>1, <1>11 DEF ReadMaster, MasterOK
  <2>3. ASSUME NEW m \in Nat, ~(Gap(t, m) < 1)
        PROVE  Gap(t, m) \in 0 .. Qty
    <3>1. /\ Share(m) \in Nat /\ Share(mfilled[t[1]]) \in Nat /\ Share(mfilled[t[1]]) <= mfilled[t[1]]
          /\ mfilled[t[1]] \in 0 .. Qty
      BY <1>1, ShareOf DEF MasterOK
    <3>2. counted[t] \in Nat /\ seen[t] \in Nat
      BY <1>1 DEF TaskOK
    <3> QED
      BY <1>1, <2>3, <3>1, <3>2 DEF Gap, Least
  <2>4. TaskOK'
    BY <1>1, <1>5, <2>1, <2>2, <2>3 DEF TaskOK, TooSmall
  <2> QED
    BY <1>1, <1>3, <1>4, <2>1, <2>4, TypeParts, Untouched
<1>12. CASE Buy(t)
  <2>1. UNCHANGED <<store, knows, counted, seen, short>>
    BY <1>12 DEF Buy
  <2>2. short[t] \in Nat
    BY <1>1 DEF TaskOK
  <2>3. TaskOK'
    BY <1>1, <1>5, <2>1 DEF TaskOK
  <2>4. CASE Gains(short[t]) /\ bought' = [bought EXCEPT ![t[1]] = @ + short[t]]
    <3>1. HeldOK'
      BY <1>1, <1>2, <2>2, <2>4, GainsTyped DEF HeldOK
    <3>2. BoughtOK'
      BY <1>1, <2>2, <2>4 DEF BoughtOK
    <3> QED
      BY <1>1, <1>3, <2>1, <2>3, <3>1, <3>2, TypeParts, Untouched
  <2>5. CASE UNCHANGED <<held, shown, bought>>
    BY <1>1, <1>3, <1>4, <2>1, <2>3, <2>5, TypeParts, Untouched
  <2> QED
    BY <1>12, <2>4, <2>5 DEF Buy
<1>13. CASE RecordLeg(t)
  <2>1. UNCHANGED <<held, shown, mapped, marker, knows, counted, seen, short, bought>>
    BY <1>13 DEF RecordLeg
  <2>2. TaskOK'
    BY <1>1, <1>5, <2>1 DEF TaskOK
  <2>3. StoreOK'
    <3>1. leg' = [leg EXCEPT ![t[1]] = "filled"] /\ legqty' = [legqty EXCEPT ![t[1]] = short[t]]
      BY <1>13 DEF RecordLeg
    <3>2. short[t] \in 0 .. Qty
      BY <1>1 DEF TaskOK
    <3> QED
      BY <1>1, <2>1, <3>1, <3>2 DEF StoreOK, Legs
  <2> QED
    BY <1>1, <1>3, <1>4, <2>1, <2>2, <2>3, TypeParts, Untouched
<1> QED
  BY <1>6, <1>7, <1>8, <1>9, <1>10, <1>11, <1>12, <1>13 DEF Step

\* The reconcile pass, what shows, and a restart.
LEMMA RestTyped ==
  ASSUME TypeOK, Behind, Show \/ MasterReduces \/ ReconcileSizes \/ ReconcileTopsUp \/ Crash
  PROVE  TypeOK' /\ Behind'
<1>1. /\ MasterOK /\ CopyOK /\ HeldOK /\ StoreOK /\ TaskOK /\ BoughtOK /\ scene \in Scenarios
      /\ Qty \in Nat
  BY TypeParts, ConfirmAssumption
<1>2. UNCHANGED <<scene, mfilled, mstate, mirror, mfill, forced, store, knows, counted, seen, short, bought>>
  BY DEF Show, MasterReduces, ReconcileSizes, ReconcileTopsUp, Crash, master, copy, task
<1>3. Behind' /\ scene' \in Scenarios /\ StoreOK' /\ BoughtOK'
  BY <1>1, <1>2, StaysBehind, Untouched
<1>4. MasterOK'
  <2>1. mpos' \in Nat
    BY <1>1 DEF MasterOK, Show, MasterReduces, ReconcileSizes, ReconcileTopsUp, Crash, master
  <2> QED
    BY <1>1, <1>2, <2>1 DEF MasterOK
<1>5. CopyOK'
  <2>1. left' \in [Orders -> 0 .. Qty]
    BY <1>1 DEF CopyOK, Show, MasterReduces, ReconcileSizes, ReconcileTopsUp, Crash, copy
  <2> QED
    BY <1>1, <1>2, <2>1 DEF CopyOK
<1>6. TaskOK'
  <2>1. pc' \in [Task -> PC]
    BY <1>1 DEF TaskOK, PC, Show, MasterReduces, ReconcileSizes, ReconcileTopsUp, Crash, task
  <2> QED
    BY <1>1, <1>2, <2>1 DEF TaskOK
<1>7. HeldOK'
  <2>1. CASE Show \/ MasterReduces \/ Crash
    BY <1>1, <2>1 DEF HeldOK, Show, MasterReduces, Crash
  <2>2. CASE ReconcileSizes
    <3>1. Share(mpos) \in Nat
      BY <1>1, ShareOf DEF MasterOK
    <3> QED
      BY <1>1, <2>2, <3>1 DEF HeldOK, ReconcileSizes
  <2>3. CASE ReconcileTopsUp
    BY <1>1, <2>3, GainsTyped DEF HeldOK, ReconcileTopsUp
  <2> QED
    BY <2>1, <2>2, <2>3
<1> QED
  BY <1>3, <1>4, <1>5, <1>6, <1>7, TypeParts

LEMMA TypeKept == TypeOK /\ Behind /\ [Next]_vars => TypeOK' /\ Behind'
<1> SUFFICES ASSUME TypeOK, Behind, [Next]_vars
             PROVE  TypeOK' /\ Behind'
  OBVIOUS
<1>1. CASE UNCHANGED vars
  BY <1>1, TypeParts, Untouched, StaysBehind DEF vars, master, copy
<1>2. ASSUME NEW o \in Working, MasterFills(o) \/ MirrorFills(o) \/ Withdrawn(o) \/ Handled(o)
      PROVE  TypeOK' /\ Behind'
  BY <1>2, OneWorks, TradingTyped, HandledTyped DEF Trading
<1>3. ASSUME NEW o \in Working, Completed(<<o, 1>>) \/ Completed(<<o, 2>>)
      PROVE  TypeOK' /\ Behind'
  <2>1. <<o, 1>> \in Task /\ <<o, 2>> \in Task
    BY OneWorks DEF Task
  <2> QED
    BY <1>3, <2>1, TaskTyped
<1>4. ASSUME NEW t \in Task, Step(t)
      PROVE  TypeOK' /\ Behind'
  BY <1>4, TaskTyped
<1> QED
  BY <1>1, <1>2, <1>3, <1>4, RestTyped DEF Next

LEMMA InitTyped == Init => TypeOK /\ Behind
<1> SUFFICES ASSUME Init PROVE TypeOK /\ Behind
  OBVIOUS
<1>1. Qty \in Nat /\ scene \in Scenarios
  BY ConfirmAssumption DEF Init
<1>2. MasterOK /\ CopyOK /\ HeldOK
  BY <1>1 DEF Init, MasterOK, CopyOK, HeldOK, Mirrors
<1>3. StoreOK /\ BoughtOK
  BY <1>1 DEF Init, StoreOK, BoughtOK, Legs
<1>4. TaskOK
  BY <1>1 DEF Init, TaskOK, PC
<1>5. Behind
  <2>1. Share(0) \in Nat
    BY <1>1, ShareOf
  <2> QED
    BY <2>1 DEF Init, Behind
<1> QED
  BY <1>1, <1>2, <1>3, <1>4, <1>5, TypeParts

\* Every variable has its type in every behaviour: what is left to force, what is
\* short and what the ledger counts never exceed the order.
THEOREM TypeCorrect == Spec => []TypeOK
BY InitTyped, TypeKept, PTL DEF Spec
-----------------------------------------------------------------------------
(* The only buyer. *)

\* What does not happen beside it, and what it works on.
LEMMA AloneMeans ==
  ASSUME TypeOK, Alone
  PROVE  /\ ~Fault("escalates") /\ ~Fault("reconcile") /\ ~Fault("reduces")
         /\ ~Fault("lag") /\ ~Fault("marker") /\ ~Fault("position_read")
         /\ Working = {one} /\ one \in Orders
         /\ <<one, 1>> \in Task /\ <<one, 2>> \in Task /\ <<one, 1>> # <<one, 2>>
         /\ Both = {<<one, 1>>, <<one, 2>>}
         /\ mfilled \in [Orders -> 0 .. Qty] /\ mpos \in Nat /\ Qty \in Nat \ {0}
         /\ mstate \in [Orders -> {"open", "cancelling", "cancelled"}]
         /\ mirror \in [Orders -> Mirrors] /\ left \in [Orders -> 0 .. Qty]
         /\ held \in Nat /\ shown \in 0 .. held /\ rgap \in Nat
         /\ mapped \in [Orders -> {"nothing", "mirror", "market"}]
         /\ marker \in [Orders -> BOOLEAN] /\ pc \in [Task -> PC]
         /\ knows \in [Task -> {"nothing", "mirror", "market"}]
         /\ seen \in [Task -> Nat] /\ short \in [Task -> 0 .. Qty]
         /\ bought \in [Orders -> Nat]
<1>1. /\ ~Fault("escalates") /\ ~Fault("reconcile") /\ ~Fault("reduces")
      /\ ~Fault("lag") /\ ~Fault("marker") /\ ~Fault("position_read")
  BY DEF Alone, Fault
<1>2. Working = {one} /\ one \in Orders
  BY OneWorks
<1>3. /\ <<one, 1>> \in Task /\ <<one, 2>> \in Task /\ <<one, 1>> # <<one, 2>>
      /\ Both = {<<one, 1>>, <<one, 2>>}
  BY <1>2 DEF Task, Both
<1> QED
  BY <1>1, <1>2, <1>3, ConfirmAssumption
  DEF TypeOK

\* The share is that of a position nobody has traded.
LEMMA DueStays ==
  ASSUME UNCHANGED <<scene, mpos>>
  PROVE  Due' = Due
BY DEF Due, Share

\* The master fills only before a task starts.
LEMMA CalmMasterFills ==
  ASSUME TypeOK, Alone, Calm, MasterFills(one)
  PROVE  Calm'
<1> USE AloneMeans
<1>1. PICK n \in 1 .. (Qty - mfilled[one]) :
        mfilled' = [mfilled EXCEPT ![one] = @ + n] /\ mpos' = mpos + n
  BY DEF MasterFills
<1>2. /\ UNCHANGED <<mstate, mirror, left, held, shown, rgap, mapped, marker, pc, knows, seen, short, bought>>
      /\ mstate[one] = "open" /\ mirror[one] # "unplaced" /\ mfilled[one] < Qty
  BY <1>1 DEF MasterFills, copy, store, task
<1>3. pc[<<one, 1>>] = "idle" /\ pc[<<one, 2>>] = "idle" /\ bought[one] = 0
  BY <1>2 DEF Calm, Started
<1>4. Plain'
  BY <1>1, <1>2 DEF Calm, Plain
<1>5. Started'
  BY <1>2, <1>3 DEF Started
<1>6. Excluded'
  BY <1>2 DEF Calm, Excluded
<1>7. Once'
  BY <1>2 DEF Calm, Once
<1>8. Sized'
  BY <1>2, <1>3 DEF Sized
<1> QED
  BY <1>4, <1>5, <1>6, <1>7, <1>8 DEF Calm

\* A mirror fills only beside tasks that have not looked for it, and before
\* anything is bought.
LEMMA CalmMirrorMoves ==
  ASSUME TypeOK, Alone, Calm, MirrorFills(one) \/ Withdrawn(one)
  PROVE  Calm'
<1> USE AloneMeans
<1>1. /\ UNCHANGED <<mfilled, mstate, mpos, left, rgap, mapped, marker, pc, knows, seen, short, bought>>
      /\ mirror[one] = "live" /\ UNCHANGED scene
      /\ \E s \in {"filled", "live", "cancelled"} : mirror' = [mirror EXCEPT ![one] = s]
  BY DEF MirrorFills, Withdrawn, master, store, task
<1>2. shown' = held'
  BY DEF MirrorFills, Withdrawn, Gains, Calm, Plain
<1>3. bought[one] = 0 /\ \A t \in Both : pc[t] \notin Owns
  BY <1>1 DEF Calm, Sized, Excluded
<1>4. Plain'
  BY <1>1, <1>2 DEF Calm, Plain
<1>5. Started'
  BY <1>1 DEF Calm, Started
<1>6. Excluded'
  BY <1>1 DEF Calm, Excluded
<1>7. Once'
  BY <1>1 DEF Calm, Once
<1>8. Sized'
  BY <1>1, <1>3 DEF Sized, Owns
<1> QED
  BY <1>4, <1>5, <1>6, <1>7, <1>8 DEF Calm

LEMMA CalmPlacing ==
  ASSUME TypeOK, Alone, Calm, MirrorPlaced(one) \/ MirrorMissed(one)
  PROVE  Calm'
<1> USE AloneMeans
<1>1. /\ UNCHANGED <<scene, mfilled, mstate, mpos, left, held, shown, rgap, marker, pc, knows, seen, short, bought>>
      /\ mirror[one] = "unplaced"
      /\ \/ mirror' = [mirror EXCEPT ![one] = "live"] /\ mapped' = [mapped EXCEPT ![one] = "mirror"]
         \/ mirror' = [mirror EXCEPT ![one] = "none"] /\ mapped' = mapped
  BY DEF MirrorPlaced, MirrorMissed, master, task
<1>2. /\ mfilled[one] = 0 /\ mstate[one] = "open"
      /\ pc[<<one, 1>>] = "idle" /\ pc[<<one, 2>>] = "idle" /\ bought[one] = 0 /\ left[one] = 0
  BY <1>1 DEF Calm, Plain, Started, Excluded
<1>3. Plain'
  BY <1>1, <1>2 DEF Calm, Plain
<1>4. Started'
  BY <1>1 DEF Calm, Started
<1>5. Excluded'
  BY <1>1, <1>2 DEF Excluded, Looks, Owns
<1>6. Once'
  BY <1>1 DEF Calm, Once
<1>7. Sized'
  BY <1>1, <1>2 DEF Sized
<1> QED
  BY <1>3, <1>4, <1>5, <1>6, <1>7 DEF Calm

\* A cancel is final before its task starts, and the task is given the map that
\* still names the mirror.
LEMMA CalmMasterCancels ==
  ASSUME TypeOK, Alone, Calm, MasterCancels(one)
  PROVE  Calm'
<1> USE AloneMeans
<1>1. /\ UNCHANGED <<scene, mfilled, mpos, left, held, shown, rgap, mapped, marker, short, bought>>
      /\ mstate[one] = "open" /\ mfilled[one] < Qty /\ mirror[one] # "unplaced"
      /\ mstate' = [mstate EXCEPT ![one] = "cancelling"]
      /\ mirror' = mirror \/ mirror' = [mirror EXCEPT ![one] = IF @ = "live" THEN "cancelled" ELSE @]
      /\ \/ /\ pc' = [pc EXCEPT ![<<one, 1>>] = "sleep"]
            /\ knows' = [knows EXCEPT ![<<one, 1>>] = mapped[one]]
            /\ seen' = [seen EXCEPT ![<<one, 1>>] = held]
         \/ UNCHANGED <<pc, knows, seen>>
  BY DEF MasterCancels, store
<1>2. /\ pc[<<one, 1>>] = "idle" /\ pc[<<one, 2>>] = "idle" /\ bought[one] = 0
      /\ left[one] = 0
  BY <1>1 DEF Calm, Started, Excluded
<1>3. pc'[<<one, 1>>] \in {"idle", "sleep"} /\ pc'[<<one, 2>>] = "idle"
  BY <1>1, <1>2
<1>4. mirror'[one] = "live" => mirror[one] = "live"
  BY <1>1
<1>5. Plain'
  <2>1. \A o \in Orders \ {one} : pc'[<<o, 1>>] = "idle" /\ pc'[<<o, 2>>] = "idle"
    <3> SUFFICES ASSUME NEW o \in Orders \ {one}
                 PROVE  pc'[<<o, 1>>] = "idle" /\ pc'[<<o, 2>>] = "idle"
      OBVIOUS
    <3>1. <<o, 1>> \in Task /\ <<o, 2>> \in Task /\ <<o, 1>> # <<one, 1>> /\ <<o, 2>> # <<one, 1>>
      BY DEF Task
    <3> QED
      BY <1>1, <3>1 DEF Calm, Plain
  <2>2. mirror'[one] # "unplaced"
    BY <1>1
  <2> QED
    BY <1>1, <2>1, <2>2 DEF Calm, Plain
<1>6. Started'
  BY <1>1, <1>2, <1>3 DEF Started
<1>7. Excluded'
  <2>1. mirror'[one] = "live" /\ mstate'[one] # "cancelled" => mapped'[one] = "mirror"
    BY <1>1, <1>4 DEF Calm, Excluded
  <2>2. pc'[<<one, 1>>] = "sleep" /\ mirror'[one] = "live" => knows'[<<one, 1>>] = "mirror"
    BY <1>1, <1>2, <1>4 DEF Calm, Excluded
  <2>3. left'[one] = 0
    BY <1>1, <1>2
  <2> QED
    BY <1>3, <2>1, <2>2, <2>3 DEF Excluded, Owns, Looks
<1>8. Once'
  BY <1>3 DEF Once, Owns
<1>9. Sized'
  BY <1>1, <1>2, <1>3 DEF Sized
<1> QED
  BY <1>5, <1>6, <1>7, <1>8, <1>9 DEF Calm

LEMMA CalmCancelForgets ==
  ASSUME TypeOK, Alone, Calm, CancelForgets(one)
  PROVE  Calm'
<1> USE AloneMeans
<1>1. /\ UNCHANGED <<scene, mfilled, mpos, mirror, left, held, shown, rgap, marker, pc, knows, seen, short, bought>>
      /\ mstate[one] = "cancelling" /\ mstate' = [mstate EXCEPT ![one] = "cancelled"]
  BY DEF CancelForgets, copy, task
<1>2. Plain'
  BY <1>1 DEF Calm, Plain
<1>3. Started'
  BY <1>1 DEF Calm, Started
<1>4. Excluded'
  BY <1>1 DEF Calm, Excluded
<1>5. Once'
  BY <1>1 DEF Calm, Once
<1>6. Sized'
  BY <1>1, DueStays DEF Calm, Sized
<1> QED
  BY <1>2, <1>3, <1>4, <1>5, <1>6 DEF Calm

\* The escalation takes the mirror after one task is over and before the other
\* looks, and its lots arrive before that one does.
LEMMA CalmEscalates ==
  ASSUME TypeOK, Alone, Calm, EscalationCancels(one) \/ EscalationMarkets(one)
  PROVE  Calm'
<1> USE AloneMeans
<1>1. CASE EscalationCancels(one)
  <2>1. /\ UNCHANGED <<scene, mfilled, mstate, mpos, held, shown, rgap, mapped, marker, pc, knows, seen, short, bought>>
        /\ mirror[one] = "live" /\ mirror' = [mirror EXCEPT ![one] = "cancelled"]
        /\ pc[<<one, 1>>] = "done" /\ pc[<<one, 2>>] \in {"idle", "map", "sleep", "done"}
    BY <1>1 DEF EscalationCancels, master, store, task
  <2>2. bought[one] = 0
    BY <2>1 DEF Calm, Sized
  <2>3. Plain'
    BY <2>1 DEF Calm, Plain
  <2>4. Started'
    BY <2>1 DEF Calm, Started
  <2>5. Excluded'
    BY <2>1 DEF Excluded, Owns, Looks
  <2>6. Once'
    BY <2>1 DEF Calm, Once
  <2>7. Sized'
    BY <2>1, <2>2 DEF Sized
  <2> QED
    BY <2>3, <2>4, <2>5, <2>6, <2>7 DEF Calm
<1>2. CASE EscalationMarkets(one)
  <2>1. /\ UNCHANGED <<scene, mfilled, mstate, mpos, mirror, rgap, marker, pc, knows, seen, short, bought>>
        /\ left[one] > 0 /\ left' = [left EXCEPT ![one] = 0] /\ Gains(left[one])
    BY <1>2 DEF EscalationMarkets, master, task
  <2>2. /\ mirror[one] = "cancelled" /\ bought[one] = 0 /\ \A t \in Both : pc[t] \notin Looks
    BY <2>1 DEF Calm, Excluded, Sized
  <2>3. Plain'
    BY <2>1 DEF Calm, Plain, Gains
  <2>4. Started'
    BY <2>1 DEF Calm, Started
  <2>5. Excluded'
    BY <2>1, <2>2 DEF Excluded, Owns, Looks
  <2>6. Once'
    BY <2>1 DEF Calm, Once
  <2>7. Sized'
    BY <2>1, <2>2 DEF Sized, Looks
  <2> QED
    BY <2>3, <2>4, <2>5, <2>6, <2>7 DEF Calm
<1> QED
  BY <1>1, <1>2

\* Tasks of the one order leave the others alone.
LEMMA OthersIdle ==
  ASSUME TypeOK, Alone, Plain, NEW t \in Both, NEW p, pc' = [pc EXCEPT ![t] = p]
  PROVE  \A o \in Orders \ {one} : pc'[<<o, 1>>] = "idle" /\ pc'[<<o, 2>>] = "idle"
<1> SUFFICES ASSUME NEW o \in Orders \ {one}
             PROVE  pc'[<<o, 1>>] = "idle" /\ pc'[<<o, 2>>] = "idle"
  OBVIOUS
<1>1. <<o, 1>> \in Task /\ <<o, 2>> \in Task /\ <<o, 1>> # t /\ <<o, 2>> # t
  BY AloneMeans DEF Task
<1> QED
  BY <1>1, AloneMeans DEF Plain

LEMMA CalmCompleted ==
  ASSUME TypeOK, Alone, Calm, NEW t \in Both, Completed(t)
  PROVE  Calm'
<1> USE AloneMeans
<1>1. /\ UNCHANGED <<scene, mfilled, mstate, mpos, mirror, left, held, shown, rgap, mapped, marker, knows, short, bought>>
      /\ pc[t] = "idle" /\ pc' = [pc EXCEPT ![t] = "map"]
      /\ mfilled[one] = Qty /\ mstate[one] = "open"
      /\ seen' = [seen EXCEPT ![t] = held]
  BY DEF Completed, master, copy, store
<1>2. \A u \in Both : u # t => pc'[u] = pc[u] /\ seen'[u] = seen[u]
  BY <1>1
<1>3. pc'[t] = "map" /\ t \in Task
  BY <1>1
<1>4. Plain'
  BY <1>1, OthersIdle DEF Calm, Plain
<1>5. Started'
  BY <1>1 DEF Calm, Started
<1>6. Excluded'
  <2>1. left[one] > 0 => pc'[<<one, 1>>] = "done"
    BY <1>1, <1>2 DEF Calm, Excluded
  <2> QED
    BY <1>1, <1>2, <1>3, <2>1 DEF Calm, Excluded, Owns, Looks
<1>7. Once'
  BY <1>1, <1>2, <1>3 DEF Calm, Once, Owns
<1>8. Sized'
  BY <1>1, <1>2, <1>3, DueStays DEF Calm, Sized
<1> QED
  BY <1>4, <1>5, <1>6, <1>7, <1>8 DEF Calm

\* The steps of a task up to the marker.  A mirror that still rests is found:
\* the task was given the map, or reads it, while it names the mirror.
LEMMA CalmLooks ==
  ASSUME TypeOK, Alone, Calm, NEW t \in Both,
         ReadMap(t) \/ Wake(t) \/ ReadLegs(t) \/ CheckLive(t)
  PROVE  Calm'
<1> USE AloneMeans
<1>1. /\ UNCHANGED <<scene, mfilled, mstate, mpos, mirror, left, held, shown, rgap, mapped, marker, seen, short, bought>>
      /\ \/ pc[t] = "map" /\ \E p \in {"sleep", "done"} : pc' = [pc EXCEPT ![t] = p]
         \/ pc[t] = "sleep" /\ \E p \in {"legs", "done"} : pc' = [pc EXCEPT ![t] = p]
         \/ pc[t] = "legs" /\ \E p \in {"live", "done"} : pc' = [pc EXCEPT ![t] = p]
         \/ pc[t] = "live" /\ \E p \in {"mark", "done"} : pc' = [pc EXCEPT ![t] = p]
  BY DEF ReadMap, Wake, ReadLegs, CheckLive, Env, At, GoTo, master, copy, store
<1>2. PICK p \in {"sleep", "legs", "live", "mark", "done"} : pc' = [pc EXCEPT ![t] = p]
  BY <1>1
<1>3. pc'[t] = p /\ t \in Task /\ \A u \in Both : u # t => pc'[u] = pc[u]
  BY <1>2
<1>4. Plain'
  BY <1>1, <1>2, OthersIdle DEF Calm, Plain
<1>5. Started'
  <2>1. pc[t] # "idle"
    BY <1>1
  <2> QED
    BY <1>1, <1>3, <2>1 DEF Calm, Started
<1>6. Excluded'
  <2>1. \A u \in Both : u # t => knows'[u] = knows[u]
    BY DEF ReadMap, Wake, ReadLegs, CheckLive
  <2>2. p \in {"sleep", "legs", "live"} /\ mirror[one] = "live" => knows'[t] = "mirror"
    <3>1. CASE ReadMap(t)
      <4>1. pc[t] = "map" /\ (p = "done" \/ knows' = [knows EXCEPT ![t] = mapped[one]])
        BY <1>3, <3>1 DEF ReadMap, At, GoTo
      <4>2. mstate[one] = "open"
        BY <4>1 DEF Calm, Started
      <4> QED
        BY <4>1, <4>2 DEF Calm, Excluded
    <3>2. CASE Wake(t) \/ ReadLegs(t) \/ CheckLive(t)
      <4>1. pc[t] \in {"sleep", "legs", "live"} /\ knows' = knows
        BY <3>2 DEF Wake, ReadLegs, CheckLive, At
      <4> QED
        BY <4>1 DEF Calm, Excluded
    <3> QED
      BY <3>1, <3>2
  <2>3. p = "mark" => mirror[one] # "live"
    <3> SUFFICES ASSUME p = "mark" PROVE mirror[one] # "live"
      OBVIOUS
    <3>1. CheckLive(t)
      BY <1>3 DEF ReadMap, Wake, ReadLegs, CheckLive, GoTo
    <3>2. ~Resting(t) /\ pc[t] = "live"
      BY <1>3, <3>1 DEF CheckLive, GoTo, At
    <3> QED
      BY <3>2 DEF Resting, Calm, Excluded
  <2>4. p \in Looks => left[one] = 0
    <3>1. CASE Wake(t)
      BY <3>1 DEF Wake
    <3>2. CASE ReadLegs(t) \/ CheckLive(t)
      <4>1. pc[t] \in Looks
        BY <3>2 DEF ReadLegs, CheckLive, At, Looks
      <4> QED
        BY <4>1 DEF Calm, Excluded
    <3>3. CASE ReadMap(t)
      <4>1. p \in {"sleep", "done"}
        BY <1>3, <3>3 DEF ReadMap, GoTo
      <4> QED
        BY <4>1 DEF Looks
    <3> QED
      BY <3>1, <3>2, <3>3
  <2>5. left[one] > 0 => pc'[<<one, 1>>] = "done" /\ mirror[one] = "cancelled"
    <3>1. pc[t] # "done"
      BY <1>1
    <3> QED
      BY <1>3, <3>1 DEF Calm, Excluded
  <2>6. \A u \in Both :
          /\ pc'[u] \in {"sleep", "legs", "live"} /\ mirror[one] = "live" => knows'[u] = "mirror"
          /\ pc'[u] \in Owns \union {"mark"} => mirror[one] # "live"
          /\ pc'[u] \in Looks => left[one] = 0
    <3> SUFFICES ASSUME NEW u \in Both
                 PROVE  /\ pc'[u] \in {"sleep", "legs", "live"} /\ mirror[one] = "live" => knows'[u] = "mirror"
                        /\ pc'[u] \in Owns \union {"mark"} => mirror[one] # "live"
                        /\ pc'[u] \in Looks => left[one] = 0
      OBVIOUS
    <3>1. CASE u = t
      BY <1>3, <2>2, <2>3, <2>4, <3>1 DEF Owns
    <3>2. CASE u # t
      BY <1>3, <2>1, <3>2 DEF Calm, Excluded
    <3> QED
      BY <3>1, <3>2
  <2> QED
    BY <1>1, <2>5, <2>6 DEF Calm, Excluded
<1>7. Once'
  BY <1>1, <1>3 DEF Calm, Once, Owns
<1>8. Sized'
  BY <1>1, <1>3, DueStays DEF Calm, Sized
<1> QED
  BY <1>4, <1>5, <1>6, <1>7, <1>8 DEF Calm

\* One task passes the marker.
LEMMA CalmMarks ==
  ASSUME TypeOK, Alone, Calm, NEW t \in Both, Mark(t)
  PROVE  Calm'
<1> USE AloneMeans
<1>1. /\ UNCHANGED <<scene, mfilled, mstate, mpos, mirror, left, held, shown, rgap, mapped, knows, seen, short, bought>>
      /\ pc[t] = "mark" /\ marker' = [marker EXCEPT ![one] = TRUE]
      /\ \/ pc' = [pc EXCEPT ![t] = "done"]
         \/ pc' = [pc EXCEPT ![t] = "held"] /\ ~marker[one]
  BY DEF Mark, Env, At, GoTo, master, copy
<1>2. PICK p \in {"held", "done"} : pc' = [pc EXCEPT ![t] = p]
  BY <1>1
<1>3. pc'[t] = p /\ t \in Task /\ \A u \in Both : u # t => pc'[u] = pc[u]
  BY <1>2
<1>4. p = "held" => ~marker[one]
  BY <1>1, <1>3
<1>5. Plain'
  BY <1>1, <1>2, OthersIdle DEF Calm, Plain
<1>6. Started'
  BY <1>1, <1>3 DEF Calm, Started
<1>7. Excluded'
  <2>1. /\ mirror[one] # "live" /\ left[one] = 0
    BY <1>1 DEF Calm, Excluded, Looks
  <2> QED
    BY <1>1, <1>3, <2>1 DEF Calm, Excluded
<1>8. Once'
  <2>1. marker'[one]
    BY <1>1
  <2>2. p = "held" => \A u \in Both : pc[u] \notin Owns
    BY <1>4 DEF Calm, Once
  <2> QED
    BY <1>3, <2>1, <2>2 DEF Calm, Once, Owns
<1>9. Sized'
  <2>1. marker'[one]
    BY <1>1
  <2>2. p = "held" => bought[one] = 0
    BY <1>4 DEF Calm, Sized
  <2> QED
    BY <1>1, <1>3, <2>1, <2>2, DueStays DEF Calm, Sized
<1> QED
  BY <1>5, <1>6, <1>7, <1>8, <1>9 DEF Calm

\* It reads the position, which nobody moves until it has bought.
LEMMA CalmReads ==
  ASSUME TypeOK, Alone, Calm, NEW t \in Both, ReadHeld(t) \/ ReadMaster(t)
  PROVE  Calm'
<1> USE AloneMeans
<1>1. UNCHANGED <<scene, mfilled, mstate, mpos, mirror, left, held, shown, rgap, mapped, marker, knows, bought>>
  BY DEF ReadHeld, ReadMaster, Env, master, copy, store
<1>2. PICK p \in {"master", "buy", "done"} : pc' = [pc EXCEPT ![t] = p]
  BY DEF ReadHeld, ReadMaster, GoTo
<1>3. pc'[t] = p /\ t \in Task /\ \A u \in Both : u # t => pc'[u] = pc[u]
  BY <1>2
<1>4. pc[t] \in {"held", "master"}
  BY DEF ReadHeld, ReadMaster, At
<1>5. Plain'
  BY <1>1, <1>2, OthersIdle DEF Calm, Plain
<1>6. Started'
  BY <1>1, <1>3, <1>4 DEF Calm, Started
<1>7. Excluded'
  <2>1. /\ mirror[one] # "live" /\ left[one] = 0
    BY <1>4 DEF Calm, Excluded, Looks, Owns
  <2> QED
    BY <1>1, <1>3, <2>1 DEF Calm, Excluded
<1>8. Once'
  BY <1>1, <1>3, <1>4 DEF Calm, Once, Owns
<1>9. bought[one] = 0
  BY <1>4 DEF Calm, Sized
<1>10. \A u \in Both \ {t} : pc[u] \notin Owns
  BY <1>4 DEF Calm, Once, Owns
<1>11. p \in {"master", "buy"} => seen'[t] = held
  <2>1. CASE ReadHeld(t)
    BY <1>3, <2>1 DEF ReadHeld, Calm, Plain
  <2>2. CASE ReadMaster(t)
    <3>1. pc[t] = "master" /\ seen' = seen
      BY <2>2 DEF ReadMaster, At
    <3> QED
      BY <3>1 DEF Calm, Sized
  <2> QED
    BY <2>1, <2>2
<1>12. p = "buy" => held + short'[t] <= Due
  <2> SUFFICES ASSUME p = "buy" PROVE held + short'[t] <= Due
    OBVIOUS
  <2>1. ReadMaster(t)
    BY <1>3 DEF ReadHeld, GoTo
  <2>2. PICK m \in {mpos, 0} : ~TooSmall(t, m) /\ short' = [short EXCEPT ![t] = Gap(t, m)]
    BY <1>3, <2>1 DEF ReadMaster, GoTo
  <2>3. seen[t] = held
    BY <2>1 DEF ReadMaster, At, Calm, Sized
  <2>4. /\ Share(m) \in Nat /\ Share(mpos) \in Nat /\ Share(m) <= Share(mpos)
        /\ Share(mfilled[t[1]]) - counted[t] \in Int
    <3>1. scene \in Scenarios /\ counted[t] \in Nat /\ mfilled[t[1]] \in Nat
      BY <1>3 DEF TypeOK
    <3>2. m \in Nat /\ mpos \in Nat /\ m <= mpos
      BY <2>2
    <3>3. Share(m) \in Nat /\ Share(mpos) \in Nat /\ Share(m) <= Share(mpos)
      BY <3>1, <3>2, ShareOf
    <3>4. Share(mfilled[t[1]]) \in Nat
      BY <3>1, ShareOf
    <3> QED
      BY <3>1, <3>3, <3>4
  <2>5. Gap(t, m) <= Share(m) - held
    BY <2>3, <2>4 DEF Gap, Least
  <2>6. Gap(t, m) \in Int
    BY <2>3, <2>4 DEF Gap, Least
  <2>7. short'[t] = Gap(t, m)
    BY <1>3, <2>2
  <2> QED
    BY <2>4, <2>5, <2>6, <2>7 DEF Due
<1>13. Sized'
  BY <1>1, <1>3, <1>9, <1>10, <1>11, <1>12, DueStays DEF Sized, Owns
<1> QED
  BY <1>5, <1>6, <1>7, <1>8, <1>13 DEF Calm

LEMMA CalmBuys ==
  ASSUME TypeOK, Alone, Calm, NEW t \in Both, Buy(t) \/ RecordLeg(t)
  PROVE  Calm'
<1> USE AloneMeans
<1>1. UNCHANGED <<scene, mfilled, mstate, mpos, mirror, left, rgap, mapped, marker, knows, seen, short>>
  BY DEF Buy, RecordLeg, Env, master, copy, store
<1>2. PICK p \in {"record", "done"} : pc' = [pc EXCEPT ![t] = p]
  BY DEF Buy, RecordLeg, GoTo
<1>3. pc'[t] = p /\ t \in Task /\ t[1] = one /\ \A u \in Both : u # t => pc'[u] = pc[u]
  BY <1>2
<1>4. pc[t] \in {"buy", "record"}
  BY DEF Buy, RecordLeg, At
<1>5. /\ mirror[one] # "live" /\ left[one] = 0 /\ marker[one]
      /\ \A u \in Both \ {t} : pc[u] \notin Owns
      /\ mfilled[one] = Qty \/ mstate[one] # "open"
  BY <1>4 DEF Calm, Excluded, Once, Started, Looks, Owns
<1>6. \/ UNCHANGED <<held, shown, bought>>
      \/ /\ pc[t] = "buy" /\ Gains(short[t])
         /\ bought' = [bought EXCEPT ![one] = @ + short[t]]
  BY <1>3 DEF Buy, RecordLeg, At
<1>7. shown' = held' /\ \A o \in Orders \ {one} : bought'[o] = bought[o]
  BY <1>6 DEF Gains, Calm, Plain
<1>8. Plain'
  BY <1>1, <1>2, <1>7, OthersIdle DEF Calm, Plain
<1>9. Started'
  BY <1>1, <1>3, <1>4, <1>5 DEF Calm, Started
<1>10. Excluded'
  BY <1>1, <1>3, <1>5 DEF Calm, Excluded
<1>11. Once'
  BY <1>1, <1>3, <1>5 DEF Calm, Once, Owns
<1>12. bought'[one] > 0 => held' <= Due
  <2>1. CASE UNCHANGED <<held, shown, bought>>
    BY <2>1 DEF Calm, Sized
  <2>2. CASE pc[t] = "buy" /\ Gains(short[t])
    BY <2>2 DEF Calm, Sized, Gains
  <2> QED
    BY <1>6, <2>1, <2>2
<1>13. \A u \in Both : pc'[u] \notin {"held", "master", "buy"}
  BY <1>3, <1>5 DEF Owns
<1>14. Sized'
  BY <1>1, <1>5, <1>12, <1>13, DueStays DEF Sized
<1> QED
  BY <1>8, <1>9, <1>10, <1>11, <1>14 DEF Calm

\* What the others do not do beside it, and a restart, after which no task goes
\* on but the marker stands.
LEMMA CalmRests ==
  ASSUME TypeOK, Alone, Calm, Show \/ MasterReduces \/ ReconcileSizes \/ ReconcileTopsUp \/ Crash
  PROVE  Calm'
<1> USE AloneMeans
<1>1. ~(Show \/ MasterReduces \/ ReconcileSizes \/ ReconcileTopsUp)
  BY DEF Show, MasterReduces, ReconcileSizes, ReconcileTopsUp, Calm, Plain
<1>2. /\ UNCHANGED <<scene, mfilled, mstate, mpos, mirror, held, shown, mapped, marker, knows, seen, short, bought>>
      /\ pc' = [u \in Task |-> IF pc[u] = "idle" THEN "idle" ELSE "done"]
      /\ left' = [o \in Orders |-> 0] /\ rgap' = 0
  BY <1>1 DEF Crash, master, store
<1>3. \A u \in Task : pc'[u] = IF pc[u] = "idle" THEN "idle" ELSE "done"
  BY <1>2
<1>4. Plain'
  <2>1. \A o \in Orders : <<o, 1>> \in Task /\ <<o, 2>> \in Task
    BY DEF Task
  <2> QED
    BY <1>2, <1>3, <2>1 DEF Calm, Plain
<1>5. Started'
  BY <1>2, <1>3 DEF Calm, Started
<1>6. Excluded'
  BY <1>2, <1>3 DEF Calm, Excluded, Owns, Looks
<1>7. Once'
  BY <1>3 DEF Once, Owns
<1>8. Sized'
  BY <1>2, <1>3, DueStays DEF Calm, Sized
<1> QED
  BY <1>4, <1>5, <1>6, <1>7, <1>8 DEF Calm

LEMMA CalmKept ==
  ASSUME TypeOK, Alone, Calm, Next
  PROVE  Calm'
<1>1. ASSUME NEW o \in Working, MasterFills(o) \/ MirrorFills(o) \/ Withdrawn(o) \/ Handled(o)
      PROVE  Calm'
  <2>1. o = one
    BY AloneMeans
  <2> QED
    BY <1>1, <2>1, CalmMasterFills, CalmMirrorMoves, CalmPlacing, CalmMasterCancels,
       CalmCancelForgets, CalmEscalates DEF Handled
<1>2. ASSUME NEW o \in Working, Completed(<<o, 1>>) \/ Completed(<<o, 2>>)
      PROVE  Calm'
  <2>1. o = one /\ <<one, 1>> \in Both /\ <<one, 2>> \in Both
    BY AloneMeans
  <2> QED
    BY <1>2, <2>1, CalmCompleted
<1>3. ASSUME NEW t \in Task, Step(t)
      PROVE  Calm'
  <2>1. pc[t] # "idle"
    BY <1>3 DEF Step, ReadMap, Wake, ReadLegs, CheckLive, Mark, ReadHeld, ReadMaster, Buy,
                RecordLeg, At
  <2>2. t \in Both
    <3>1. PICK o \in Orders, n \in {1, 2} : t = <<o, n>>
      BY DEF Task
    <3>2. o = one
      BY <2>1, <3>1 DEF Calm, Plain
    <3> QED
      BY <3>1, <3>2 DEF Both
  <2> QED
    BY <1>3, <2>2, CalmLooks, CalmMarks, CalmReads, CalmBuys DEF Step
<1> QED
  BY <1>1, <1>2, <1>3, CalmRests DEF Next
-----------------------------------------------------------------------------
(* What holds of every behaviour. *)

\* A mirror is never ahead of the master, and an only buyer is one at a time and
\* sized for the position as it is: the invariant the last theorem follows from.
THEOREM Invariance == Spec => []IInv
<1>1. Init => IInv
  <2> SUFFICES ASSUME Init, TypeOK, Behind PROVE Calm
    BY InitTyped DEF IInv
  <2>1. \A t \in Task : pc[t] = "idle"
    BY DEF Init
  <2>2. one \in Orders /\ \A o \in Orders : <<o, 1>> \in Task /\ <<o, 2>> \in Task
    BY OneWorks DEF Task
  <2>3. \A t \in Both : pc[t] = "idle"
    <3>1. Both \subseteq Task
      BY <2>2 DEF Both
    <3> QED
      BY <2>1, <3>1
  <2>4. Plain
    BY <2>1, <2>2 DEF Init, Plain
  <2>5. /\ bought[one] = 0 /\ left[one] = 0 /\ mirror[one] = "unplaced"
    BY <2>2 DEF Init
  <2>6. pc[<<one, 1>>] = "idle"
    BY <2>1, <2>2
  <2> QED
    BY <2>3, <2>4, <2>5, <2>6 DEF Calm, Started, Excluded, Once, Sized, Owns, Looks
<1>2. IInv /\ [Next]_vars => IInv'
  <2> SUFFICES ASSUME IInv, [Next]_vars
               PROVE  IInv'
    OBVIOUS
  <2>1. TypeOK' /\ Behind'
    BY TypeKept DEF IInv
  <2>2. CASE Next
    <3>1. UNCHANGED scene
      BY <2>2 DEF Next, MasterFills, MirrorFills, Withdrawn, Handled, MirrorPlaced, MirrorMissed,
         MasterCancels, CancelForgets, EscalationCancels, EscalationMarkets, Completed, Step,
         ReadMap, Wake, ReadLegs, CheckLive, Mark, ReadHeld, ReadMaster, Buy, RecordLeg, Env,
         Show, MasterReduces, ReconcileSizes, ReconcileTopsUp, Crash
    <3>2. Alone' => Alone
      BY <3>1 DEF Alone
    <3> QED
      BY <2>1, <2>2, <3>2, CalmKept DEF IInv
  <2>3. CASE UNCHANGED vars
    <3>1. /\ UNCHANGED <<scene, mfilled, mstate, mpos, mirror, left, held, shown, rgap, mapped,
                         marker, pc, knows, seen, short, bought>>
      BY <2>3 DEF vars, master, copy, store, task
    <3>2. Alone' => Alone
      BY <3>1 DEF Alone
    <3>3. Calm => Calm'
      BY <3>1, DueStays DEF Calm, Plain, Started, Excluded, Once, Sized
    <3> QED
      BY <2>1, <3>2, <3>3 DEF IInv
  <2> QED
    BY <2>2, <2>3
<1> QED
  BY <1>1, <1>2, PTL DEF Spec

\* Where confirm-copy is the only buyer and can read the positions, what it adds
\* leaves the follower within his share of the master's position, whatever else
\* is lost, repeated or refused and however the process restarts (the docstring's
\* "two things keep this from over-opening").
THEOREM BuysWithinTheShare == Spec => []NeverOverCopies
<1>1. IInv => NeverOverCopies
  <2> SUFFICES ASSUME IInv, Alone, NEW o \in Orders, bought[o] > 0
               PROVE  held <= Share(mpos)
    BY DEF NeverOverCopies, Alone
  <2>1. o = one
    <3>1. Plain
      BY DEF IInv, Calm
    <3>2. o # one => bought[o] = 0
      BY <3>1 DEF Plain
    <3> QED
      BY <3>2
  <2> QED
    BY <2>1 DEF IInv, Calm, Sized, Due
<1> QED
  BY <1>1, Invariance, PTL
=============================================================================
