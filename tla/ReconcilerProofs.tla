-------------------------- MODULE ReconcilerProofs --------------------------
(***************************************************************************)
(* What the orders of a reconcile pass may never do, for any masters, any  *)
(* positions and any number of passes and failures.                        *)
(***************************************************************************)
EXTENDS Reconciler, TLAPS

\* The peak a pass compares with is at least the largest size it was shown of
\* the leg; a top-up is sized at it.
Peaked ==
  /\ \A o \in Owner : high[o] <= peak[o]
  /\ pass.at \in {"taken", "judge"} /\ pass.msz # 0 =>
       high[pass.owner] <= memPeak /\ memPeak # 0
  /\ pass.at = "order" /\ pass.kind = "topup" => high[pass.owner] <= Abs(pass.msz)

\* What each kind of order was sized for.
Sized ==
  /\ pass.at = "cancel" => pass.kind = "trim"
  /\ pass.at \in {"cancel", "order"} =>
       \/ pass.kind = "open" /\ pass.seen = 0 /\ pass.lots <= Abs(pass.msz)
       \/ /\ pass.kind = "topup" /\ SameSide(pass.seen, pass.msz)
          /\ pass.lots + Abs(pass.seen) <= Abs(pass.msz)
       \/ /\ pass.kind = "trim" /\ SameSide(pass.seen, pass.msz)
          /\ pass.lots + Abs(pass.msz) = Abs(pass.seen)
       \/ /\ pass.kind = "close" /\ ~SameSide(pass.seen, pass.msz)
          /\ pass.lots = Abs(pass.seen)

\* A prompt pass finds the positions as its reads, and its snapshot, showed them.
Current ==
  /\ queue # <<>> => pass.at = "idle" /\ Len(queue) = 1 /\ Head(queue)[2] = master[Head(queue)[1]]
  /\ pass.at # "idle" => pass.msz = master[pass.owner]
  /\ pass.at \in {"judge", "cancel", "order"} => pass.seen = held[pass.owner]

\* A leg that a pass found left to its own stop is marked for as long as it lasts,
\* and no order that reduces it is on its way.
Marked(o) == spared[o] => handsoff[o] /\ master[o] = 0 /\ held[o] # 0
Left ==
  /\ \A o \in Owner : Marked(o)
  /\ pass.at \in {"cancel", "order"} /\ ~Adds(pass.kind) => ~spared[pass.owner]

IInv ==
  /\ TypeOK /\ Sized
  /\ ~Fault("redis") => Peaked
  /\ Prompt => Current /\ Left
-----------------------------------------------------------------------------
(* The numbers. *)

\* The bounds of a behaviour are numbers, and being flat is within them.
LEMMA SceneBounds ==
  ASSUME scene \in Scenarios
  PROVE  /\ scene.maxSize \in Nat \ {0}
         /\ scene.minSize \in Int /\ scene.minSize <= 0
         /\ scene.maxMoves \in Nat /\ scene.maxHidden \in Nat /\ scene.maxFails \in Nat
         /\ 0 \in Size
         /\ \A m \in Size : m \in Int /\ Abs(m) <= Greatest(scene.maxSize, -scene.minSize)
         /\ Greatest(scene.maxSize, -scene.minSize) \in Nat
<1>1. scene \in Scenario
  BY ReconcilerAssumption
<1>2. /\ scene.maxSize \in Nat \ {0} /\ scene.minSize \in Int \ (Nat \ {0})
      /\ scene.maxMoves \in Nat /\ scene.maxHidden \in Nat /\ scene.maxFails \in Nat
  BY <1>1 DEF Scenario
<1> QED
  BY <1>2 DEF Size, Abs, Greatest

\* What the operators on numbers return.
LEMMA AbsOf == \A n \in Int : Abs(n) \in Nat /\ (Abs(n) = 0 <=> n = 0)
BY DEF Abs

LEMMA SignOf == \A n \in Int : Sign(n) \in -1 .. 1 /\ (Sign(n) = 0 <=> n = 0)
BY DEF Sign

LEMMA LeastOf ==
  \A m, n \in Int : Least(m, n) \in {m, n} /\ Least(m, n) <= m /\ Least(m, n) <= n
BY DEF Least

LEMMA DeadbandIsALot == \A n \in Nat : Deadband(n) \in Int /\ Deadband(n) >= 1
BY ReconcilerAssumption DEF Deadband, Greatest

LEMMA GreatestOf ==
  \A m, n \in Int : Greatest(m, n) \in {m, n} /\ m <= Greatest(m, n) /\ n <= Greatest(m, n)
BY DEF Greatest
-----------------------------------------------------------------------------
(* The types.  A step of the world leaves the passes alone, and a judgement *)
(* leaves the world alone: each part of the type is kept on its own.        *)

WorldOK ==
  /\ master \in [Owner -> Size] /\ age \in [Owner -> Ages]
  /\ working \in [Owner -> BOOLEAN] /\ exit \in [Owner -> {"manual", "sl_tp", "unknown"}]
  /\ marking \in [Owner -> BOOLEAN]
AccountOK ==
  /\ held \in [Owner -> Int] /\ before \in [Owner -> Int]
  /\ entry \in [Owner -> -1 .. 1] /\ closing \in [Owner -> BOOLEAN] /\ stop \in [Owner -> BOOLEAN]
RedisOK == handsoff \in [Owner -> BOOLEAN] /\ peak \in [Owner -> Nat] /\ memPeak \in Nat
QueueOK ==
  /\ queue \in Seq(Owner \X Size) /\ Len(queue) <= MaxQueue
  /\ due \subseteq Owner /\ debounced \subseteq Owner
LatchesOK ==
  /\ openPrev \subseteq Owner /\ closePrev \subseteq Owner
  /\ trimPrev \subseteq Owner \X (Nat \ {0})
  /\ topupPrev \in [Owner -> 0 .. Greatest(scene.maxSize, -scene.minSize)]
PassOK ==
  pass \in [at : {"idle", "taken", "judge", "cancel", "order"}, owner : Owner,
            msz : Size, seen : Int, entry : -1 .. 1, closing : BOOLEAN,
            stop : BOOLEAN, kind : Kinds, lots : Nat]
BoundsOK ==
  /\ moves \in 0 .. scene.maxMoves /\ hidden \in 0 .. scene.maxHidden
  /\ fails \in 0 .. scene.maxFails
HistoryOK == high \in [Owner -> Nat] /\ spared \in [Owner -> BOOLEAN]

LEMMA TypeParts ==
  /\ TypeOK <=> /\ scene \in Scenarios
                /\ WorldOK /\ AccountOK /\ RedisOK /\ QueueOK
                /\ LatchesOK /\ PassOK /\ BoundsOK /\ HistoryOK
  /\ /\ scene' \in Scenarios
     /\ WorldOK' /\ AccountOK' /\ RedisOK' /\ QueueOK'
     /\ LatchesOK' /\ PassOK' /\ BoundsOK' /\ HistoryOK'
     => TypeOK'
BY Zenon DEF TypeOK, WorldOK, AccountOK, RedisOK, QueueOK, LatchesOK, PassOK, BoundsOK, HistoryOK

\* What is left alone keeps its type.
LEMMA Untouched ==
  ASSUME UNCHANGED scene
  PROVE  /\ WorldOK /\ UNCHANGED world => WorldOK'
         /\ AccountOK /\ UNCHANGED account => AccountOK'
         /\ RedisOK /\ UNCHANGED <<handsoff, peak, memPeak>> => RedisOK'
         /\ QueueOK /\ UNCHANGED <<queue, due, debounced>> => QueueOK'
         /\ LatchesOK /\ UNCHANGED latches => LatchesOK'
         /\ PassOK /\ UNCHANGED pass => PassOK'
         /\ BoundsOK /\ UNCHANGED bounds => BoundsOK'
         /\ HistoryOK /\ UNCHANGED history => HistoryOK'
<1>1. Size' = Size
  BY DEF Size
<1>2. WorldOK /\ UNCHANGED world => WorldOK'
  BY <1>1 DEF WorldOK, world
<1>3. AccountOK /\ UNCHANGED account => AccountOK'
  BY DEF AccountOK, account
<1>4. RedisOK /\ UNCHANGED <<handsoff, peak, memPeak>> => RedisOK'
  BY DEF RedisOK
<1>5. QueueOK /\ UNCHANGED <<queue, due, debounced>> => QueueOK'
  BY <1>1 DEF QueueOK
<1>6. LatchesOK /\ UNCHANGED latches => LatchesOK'
  BY DEF LatchesOK, latches
<1>7. PassOK /\ UNCHANGED pass => PassOK'
  BY <1>1 DEF PassOK
<1>8. BoundsOK /\ UNCHANGED bounds => BoundsOK'
  BY DEF BoundsOK, bounds
<1>9. HistoryOK /\ UNCHANGED history => HistoryOK'
  BY DEF HistoryOK, history
<1> QED
  BY <1>2, <1>3, <1>4, <1>5, <1>6, <1>7, <1>8, <1>9

\* Between two passes there is nothing to type but the owner.
LEMMA IdleTyped ==
  ASSUME scene \in Scenarios, UNCHANGED scene, pass' = Idle
  PROVE  PassOK'
<1> DEFINE first == CHOOSE o \in Owner : TRUE
<1>1. first \in Owner
  BY ReconcilerAssumption
<1>2. 0 \in Size /\ Size' = Size
  BY SceneBounds DEF Size
<1> HIDE DEF first
<1> QED
  BY <1>1, <1>2 DEF PassOK, Idle, Kinds, first

\* The moves of the world.
Moving(o) ==
  \/ MasterTrades(o) \/ MasterWorks(o) \/ EntryRests(o) \/ EntryFills(o)
  \/ CloseFills(o) \/ StopRests(o) \/ StopFires(o) \/ MasterStopFires(o)

LEMMA MovingLeaves ==
  ASSUME TypeOK, NEW o \in Owner, Moving(o), UNCHANGED scene
  PROVE  /\ Quiet \/ Fault("backlog")
         /\ UNCHANGED <<peak, memPeak, queue, due, debounced, latches, pass, high>>
         /\ BoundsOK'
<1>1. Moves
  BY DEF Moving, MasterTrades, MasterWorks, EntryRests, EntryFills, CloseFills,
         StopRests, StopFires, MasterStopFires
<1>2. /\ Quiet \/ Fault("backlog")
      /\ UNCHANGED <<peak, memPeak, queue, due, debounced, latches, pass, high>>
  BY <1>1 DEF Moves, clock
<1>3. BoundsOK'
  BY <1>1, TypeParts, SceneBounds DEF Moves, BoundsOK
<1> QED
  BY <1>2, <1>3

\* What a pass concludes.
Judging == Trim \/ TopUp \/ LeaveShort \/ LeaveSettled \/ Close \/ Defer \/ Open \/ LeaveFlat

LEMMA JudgingLeaves ==
  ASSUME Judging
  PROVE  /\ pass.at = "judge"
         /\ UNCHANGED <<world, account, redis, memPeak, queue, due, moves, hidden, high>>
         /\ \/ UNCHANGED spared
            \/ /\ Defer
               /\ spared' = [spared EXCEPT ![pass.owner] = @ \/ handsoff[pass.owner]]
BY DEF Judging, Trim, TopUp, LeaveShort, LeaveSettled, Close, Defer, Open, LeaveFlat, judged, history

\* A failure is counted, up to the bound.
LEMMA FailCounts ==
  ASSUME scene \in Scenarios, BoundsOK, UNCHANGED scene,
         NEW f, Fail(FALSE) \/ (Fails(f) /\ Fail(TRUE))
  PROVE  fails' \in 0 .. scene'.maxFails
BY SceneBounds DEF BoundsOK, Fail, Fails

\* What a pass reads of the follower's share.
LEMMA ReadsOf ==
  ASSUME TypeOK, UNCHANGED scene, NEW lots, NEW a, Reads(pass, lots, a)
  PROVE  /\ lots \in {0, Abs(pass.msz)} /\ a \in {3, age[pass.owner]}
         /\ fails' \in 0 .. scene'.maxFails
<1>1. Fail(FALSE) \/ (Fails("ratio") /\ Fail(TRUE)) \/ (Fails("fills") /\ Fail(TRUE))
  BY DEF Reads
<1>2. fails' \in 0 .. scene'.maxFails
  BY <1>1, FailCounts, TypeParts
<1> QED
  BY <1>2 DEF Reads, Share

LEMMA MovingTyped ==
  ASSUME TypeOK, NEW o \in Owner, Moving(o), UNCHANGED scene
  PROVE  TypeOK'
<1>1. /\ QueueOK' /\ LatchesOK' /\ PassOK' /\ BoundsOK'
  BY MovingLeaves, TypeParts, Untouched
<1>2. /\ \A m \in Size : m \in Int
      /\ 0 \in Size /\ Size' = Size
  BY SceneBounds, TypeParts DEF Size
<1>3. RedisOK' /\ HistoryOK'
  <2>1. handsoff' \in [Owner -> BOOLEAN]
    BY TypeParts DEF Moving, RedisOK, MasterTrades, MasterWorks, EntryRests, EntryFills,
       CloseFills, StopRests, StopFires, MasterStopFires
  <2>2. spared' \in [Owner -> BOOLEAN]
    BY TypeParts DEF Moving, HistoryOK, Lasts, MasterTrades, MasterWorks, EntryRests, EntryFills,
       CloseFills, StopRests, StopFires, MasterStopFires
  <2> QED
    BY <2>1, <2>2, MovingLeaves, TypeParts DEF RedisOK, HistoryOK
<1>4. CASE MasterTrades(o)
  <2>1. WorldOK'
    <3>1. master' \in [Owner -> Size]
      BY <1>4, TypeParts DEF MasterTrades, WorldOK
    <3>2. age' \in [Owner -> Ages]
      BY <1>4, TypeParts DEF MasterTrades, WorldOK, Ages
    <3>3. working' \in [Owner -> BOOLEAN]
      BY <1>4, TypeParts DEF MasterTrades, WorldOK
    <3>4. exit' \in [Owner -> {"manual", "sl_tp", "unknown"}]
      BY <1>4, TypeParts DEF MasterTrades, WorldOK
    <3>5. marking' \in [Owner -> BOOLEAN]
      BY <1>4, TypeParts DEF MasterTrades, WorldOK
    <3> QED
      BY <1>2, <3>1, <3>2, <3>3, <3>4, <3>5 DEF WorldOK
  <2>2. AccountOK'
    BY <1>2, <1>4, TypeParts, SignOf DEF MasterTrades, WorldOK, AccountOK, HoldsNow
  <2> QED
    BY <1>1, <1>3, <2>1, <2>2, TypeParts
<1>5. CASE MasterWorks(o)
  <2>1. WorldOK'
    BY <1>2, <1>5, TypeParts DEF MasterWorks, WorldOK
  <2>2. AccountOK'
    BY <1>5, TypeParts DEF MasterWorks, AccountOK
  <2> QED
    BY <1>1, <1>3, <2>1, <2>2, TypeParts
<1>6. CASE MasterStopFires(o)
  <2>1. WorldOK'
    BY <1>2, <1>6, TypeParts DEF MasterStopFires, WorldOK, Ages
  <2> QED
    BY <1>1, <1>3, <1>6, <2>1, TypeParts, Untouched DEF MasterStopFires
<1>7. ASSUME EntryRests(o) \/ EntryFills(o) \/ CloseFills(o) \/ StopRests(o) \/ StopFires(o)
      PROVE  TypeOK'
  <2>1. WorldOK'
    BY <1>7, TypeParts, Untouched
    DEF EntryRests, EntryFills, CloseFills, StopRests, StopFires
  <2>2. AccountOK'
    <3>1. held' \in [Owner -> Int] /\ before' \in [Owner -> Int]
      <4>1. \/ UNCHANGED <<held, before>>
            \/ HoldsNow(o, held[o] + entry[o])
            \/ HoldsNow(o, held[o] - Sign(held[o]))
            \/ HoldsNow(o, 0)
        BY <1>7 DEF EntryRests, EntryFills, CloseFills, StopRests, StopFires
      <4> QED
        BY <4>1, TypeParts, SignOf DEF AccountOK, HoldsNow
    <3>2. entry' \in [Owner -> -1 .. 1]
      BY <1>7, TypeParts
      DEF AccountOK, EntryRests, EntryFills, CloseFills, StopRests, StopFires
    <3>3. closing' \in [Owner -> BOOLEAN] /\ stop' \in [Owner -> BOOLEAN]
      BY <1>7, TypeParts
      DEF AccountOK, EntryRests, EntryFills, CloseFills, StopRests, StopFires
    <3> QED
      BY <3>1, <3>2, <3>3 DEF AccountOK
  <2> QED
    BY <1>1, <1>3, <2>1, <2>2, TypeParts
<1> QED
  BY <1>4, <1>5, <1>6, <1>7 DEF Moving

LEMMA JudgingTyped ==
  ASSUME TypeOK, Judging, UNCHANGED scene
  PROVE  TypeOK'
<1>1. WorldOK' /\ AccountOK' /\ RedisOK' /\ HistoryOK'
  <2>1. WorldOK' /\ AccountOK' /\ RedisOK'
    BY JudgingLeaves, TypeParts, Untouched DEF redis
  <2>2. HistoryOK'
    BY JudgingLeaves, TypeParts DEF HistoryOK, RedisOK
  <2> QED
    BY <2>1, <2>2
<1>2. fails' \in 0 .. scene'.maxFails
  <2>1. ASSUME NEW lots, NEW a, Reads(pass, lots, a)
        PROVE  fails' \in 0 .. scene'.maxFails
    BY <2>1, ReadsOf
  <2>2. ASSUME Fail(FALSE) \/ (Fails("book") /\ Fail(TRUE)) \/ (Fails("redis") /\ Fail(TRUE))
        PROVE  fails' \in 0 .. scene'.maxFails
    BY <2>2, FailCounts, TypeParts
  <2> QED
    BY <2>1, <2>2 DEF Judging, Trim, TopUp, LeaveShort, LeaveSettled, Close, Defer, Open, LeaveFlat
<1>3. BoundsOK'
  BY <1>2, JudgingLeaves, TypeParts DEF BoundsOK
<1>4. pass.owner \in Owner /\ pass.msz \in Size /\ pass.msz \in Int /\ pass.seen \in Int
  BY TypeParts, SceneBounds DEF PassOK
<1>5. QueueOK'
  <2>1. debounced' \in SUBSET (debounced \union {pass.owner})
    BY DEF Judging, Trim, TopUp, LeaveShort, LeaveSettled, Close, Defer, Open, LeaveFlat
  <2>2. Size' = Size
    BY DEF Size
  <2> QED
    BY <1>4, <2>1, <2>2, JudgingLeaves, TypeParts DEF QueueOK
<1>6. LatchesOK' /\ PassOK'
  <2> DEFINE Cap == Greatest(scene.maxSize, -scene.minSize)
             M == [Owner -> 0 .. Cap]
  <2>1. Cap \in Nat /\ Size' = Size
    BY SceneBounds, TypeParts DEF Size
  <2>2. Abs(pass.msz) \in 0 .. Cap /\ Abs(pass.seen) \in Nat
    <3>1. Abs(pass.msz) <= Cap
      BY <1>4, SceneBounds, TypeParts
    <3>2. Abs(pass.msz) \in Nat /\ Abs(pass.seen) \in Nat
      BY <1>4, AbsOf
    <3> HIDE DEF Cap
    <3> QED
      BY <2>1, <3>1, <3>2
  <2>3. pass' = Idle => PassOK'
    BY IdleTyped, TypeParts
  <2>4. ASSUME NEW kind \in Kinds, NEW lots \in Nat, NEW at \in {"order", "cancel"},
               Orders(kind, lots, at)
        PROVE  PassOK'
    BY <2>1, <2>4, TypeParts DEF Orders, PassOK
  <2>5. ASSUME NEW open \in SUBSET Owner, NEW close \in SUBSET Owner,
               NEW trim \in SUBSET (Owner \X (Nat \ {0})), NEW topup \in M,
               Candidates(open, close, trim, topup)
        PROVE  LatchesOK'
    BY <2>5 DEF Candidates, LatchesOK
  <2>6. NoTopup \in M
    BY <2>1 DEF NoTopup
  <2>7. CASE LeaveShort \/ LeaveSettled \/ Defer \/ LeaveFlat
    <3>1. Leaves({}, {}, {}, NoTopup)
      BY <2>7 DEF LeaveShort, LeaveSettled, Defer, LeaveFlat
    <3> QED
      BY <2>3, <2>5, <2>6, <3>1, TypeParts DEF Leaves
  <2>8. CASE Close
    <3>1. LatchesOK'
      BY <1>4, <2>5, <2>6, <2>8 DEF Close
    <3>2. PassOK'
      BY <2>2, <2>3, <2>4, <2>8, TypeParts DEF Close, Kinds
    <3> QED
      BY <3>1, <3>2
  <2>9. CASE Open
    <3>1. LatchesOK'
      BY <1>4, <2>5, <2>6, <2>9 DEF Open
    <3>2. PassOK'
      BY <2>2, <2>3, <2>4, <2>9, TypeParts DEF Open, Kinds, Share
    <3> QED
      BY <3>1, <3>2
  <2>10. CASE Trim
    <3>1. PICK lots \in 0 .. Share(pass.msz) : \E a \in Ages :
             /\ Over(pass, lots, a)
             /\ Candidates({}, {}, {<<pass.owner, Abs(pass.seen) - lots>>}, NoTopup)
             /\ \/ Orders("trim", Abs(pass.seen) - lots, "cancel")
                \/ Orders("trim", Abs(pass.seen) - lots, "order")
                \/ pass' = Idle
      BY <2>10 DEF Trim
    <3>2. Abs(pass.seen) - lots \in Nat \ {0}
      BY <2>2, <3>1 DEF Over, Share
    <3>3. LatchesOK'
      BY <1>4, <2>5, <2>6, <3>1, <3>2
    <3>4. PassOK'
      BY <2>3, <2>4, <3>1, <3>2, TypeParts DEF Kinds
    <3> QED
      BY <3>3, <3>4
  <2>11. CASE TopUp
    <3> DEFINE Short(lots) == lots - Abs(pass.seen)
    <3>1. PICK lots \in 0 .. Share(pass.msz) : \E a \in Ages :
             /\ Under(pass, lots, a)
             /\ Candidates({}, {}, {}, [NoTopup EXCEPT ![pass.owner] = Short(lots)])
             /\ \/ Orders("topup", Least(Short(lots), topupPrev[pass.owner]), "order")
                \/ pass' = Idle
      BY <2>11 DEF TopUp, Agreed
    <3>2. Short(lots) \in 0 .. Cap
      BY <2>1, <2>2, <3>1 DEF Under, Share
    <3>3. [NoTopup EXCEPT ![pass.owner] = Short(lots)] \in M
      BY <2>6, <3>2
    <3>4. LatchesOK'
      BY <2>5, <3>1, <3>3
    <3>5. topupPrev[pass.owner] \in Nat
      BY <1>4, <2>1, TypeParts DEF LatchesOK
    <3>6. Least(Short(lots), topupPrev[pass.owner]) \in Nat
      BY <2>1, <3>2, <3>5 DEF Least
    <3>7. PassOK'
      BY <2>3, <2>4, <3>1, <3>6, TypeParts DEF Kinds
    <3> QED
      BY <3>4, <3>7
  <2> QED
    BY <2>7, <2>8, <2>9, <2>10, <2>11 DEF Judging
<1> QED
  BY <1>1, <1>3, <1>5, <1>6, JudgingLeaves, TypeParts

\* The rest of a pass: its snapshot, its reads, its orders.
LEMMA PassingTyped ==
  ASSUME TypeOK, Take \/ Skip \/ Read \/ CancelStuck \/ Order, UNCHANGED scene
  PROVE  TypeOK'
<1> DEFINE Failed == fails' \in 0 .. scene'.maxFails
<1>1. Size' = Size /\ 0 \in Size /\ \A m \in Size : m \in Int
  BY SceneBounds, TypeParts DEF Size
<1>2. Failed
  <2>1. ASSUME NEW f, Fails(f), Fail(TRUE)
        PROVE  Failed
    BY <2>1, FailCounts, TypeParts
  <2>2. ASSUME Fail(FALSE) \/ UNCHANGED fails
        PROVE  Failed
    BY <2>2, TypeParts, SceneBounds DEF BoundsOK, Fail
  <2> QED
    <3>1. ASSUME Take
          PROVE  Failed
      <4>1. CASE \E o, m : Peaks(o, m)
        <5>1. PICK down \in {FALSE} \union {Fails("redis")} : Fail(down)
          BY <4>1 DEF Peaks
        <5>2. Fail(FALSE) \/ (Fails("redis") /\ Fail(TRUE))
          BY <5>1 DEF Fails
        <5> QED
          BY <2>1, <2>2, <5>2
      <4>2. CASE Fails("accounts") /\ Fail(TRUE)
        BY <2>1, <4>2
      <4> QED
        BY <3>1, <4>1, <4>2 DEF Take
    <3> QED
      BY <2>1, <2>2, <3>1 DEF Skip, Read, Answers, CancelStuck, Order
<1> HIDE DEF Failed
<1>3. UNCHANGED moves /\ (UNCHANGED hidden \/ (hidden < scene.maxHidden /\ hidden' = hidden + 1))
  BY DEF Take, Skip, Read, Answers, CancelStuck, Order
<1>4. BoundsOK'
  BY <1>2, <1>3, TypeParts, SceneBounds DEF BoundsOK, Failed
<1>5. WorldOK'
  BY TypeParts, Untouched DEF Take, Skip, Read, CancelStuck, Order
<1>6. /\ PassOK
      /\ pass.owner \in Owner /\ pass.msz \in Size /\ pass.msz \in Int
      /\ pass.seen \in Int /\ pass.lots \in Nat
  BY <1>1, TypeParts DEF PassOK
<1>7. CASE Take
  <2> DEFINE o == Head(queue)[1]
             msz == Head(queue)[2]
  <2>1. queue \in Seq(Owner \X Size) /\ queue # <<>> /\ Len(queue) <= MaxQueue /\ MaxQueue \in Nat
    BY <1>7, TypeParts, ReconcilerAssumption DEF QueueOK, Take
  <2>2. Head(queue) \in Owner \X Size /\ Tail(queue) \in Seq(Owner \X Size)
        /\ Len(Tail(queue)) <= MaxQueue
    BY <2>1
  <2>3. o \in Owner /\ msz \in Size /\ msz \in Int
    BY <1>1, <2>2
  <2> HIDE DEF o, msz
  <2>4. QueueOK'
    BY <1>1, <1>7, <2>2, TypeParts DEF QueueOK, Take, clock
  <2>5. AccountOK' /\ LatchesOK'
    BY <1>7, TypeParts, Untouched DEF Take
  <2>6. BumpPeak(o, msz) \in Nat
    BY <2>3, AbsOf, GreatestOf, TypeParts DEF BumpPeak, RedisOK
  <2>7. \/ /\ Peaks(o, msz)
           /\ pass' = [Idle EXCEPT !.at = "taken", !.owner = o, !.msz = msz]
           /\ high' = [high EXCEPT ![o] = IF msz = 0 THEN 0 ELSE Greatest(@, Abs(msz))]
        \/ UNCHANGED <<memPeak, peak, pass, high>>
    BY <1>7 DEF Take, o, msz
  <2>8. RedisOK'
    <3>1. handsoff' = handsoff
      BY <1>7 DEF Take
    <3>2. CASE Peaks(o, msz)
      <4>1. Abs(msz) \in Nat
        BY <2>3, AbsOf
      <4>2. memPeak' \in {0, Abs(msz), BumpPeak(o, msz)}
        BY <3>2 DEF Peaks
      <4>3. peak' = peak \/ \E n \in {0, BumpPeak(o, msz)} : peak' = [peak EXCEPT ![o] = n]
        BY <3>2 DEF Peaks
      <4> QED
        BY <2>3, <2>6, <3>1, <4>1, <4>2, <4>3, TypeParts DEF RedisOK
    <3> QED
      BY <2>7, <3>1, <3>2, TypeParts DEF RedisOK
  <2>9. HistoryOK'
    <3>1. spared' = spared
      BY <1>7 DEF Take
    <3>2. Greatest(high[o], Abs(msz)) \in Nat
      BY <2>3, AbsOf, GreatestOf, TypeParts DEF HistoryOK
    <3> QED
      BY <2>3, <2>7, <3>1, <3>2, TypeParts DEF HistoryOK
  <2>10. PassOK'
    <3>1. CASE pass' = [Idle EXCEPT !.at = "taken", !.owner = o, !.msz = msz]
      <4>1. pass' = [at |-> "taken", owner |-> o, msz |-> msz, seen |-> 0, entry |-> 0,
                     closing |-> FALSE, stop |-> FALSE, kind |-> "none", lots |-> 0]
        BY <3>1 DEF Idle
      <4> QED
        BY <1>1, <2>3, <4>1 DEF PassOK, Kinds
    <3> QED
      BY <1>6, <2>7, <3>1, TypeParts, Untouched
  <2> QED
    BY <1>4, <1>5, <2>4, <2>5, <2>8, <2>9, <2>10, TypeParts
<1>8. CASE Skip
  <2>1. LatchesOK'
    <3>1. Greatest(scene.maxSize, -scene.minSize) \in Nat
      BY SceneBounds, TypeParts
    <3> QED
      BY <1>8, <3>1 DEF Skip, Candidates, NoTopup, LatchesOK
  <2>2. AccountOK' /\ RedisOK' /\ QueueOK' /\ HistoryOK'
    BY <1>8, TypeParts, Untouched DEF Skip, redis, clock
  <2>3. PassOK'
    BY <1>8, IdleTyped, TypeParts DEF Skip
  <2> QED
    BY <1>4, <1>5, <2>1, <2>2, <2>3, TypeParts
<1>9. CASE Read
  <2>1. AccountOK' /\ QueueOK' /\ LatchesOK' /\ HistoryOK'
    BY <1>9, TypeParts, Untouched DEF Read, clock
  <2>2. PICK seen \in {0, held[pass.owner], before[pass.owner]}, listed \in BOOLEAN :
          /\ Release(pass.owner, pass.msz, seen)
          /\ pass' = [pass EXCEPT !.at = "judge", !.seen = seen,
                                  !.entry = IF listed THEN entry[pass.owner] ELSE 0,
                                  !.closing = listed /\ closing[pass.owner],
                                  !.stop = listed /\ stop[pass.owner]]
    BY <1>9 DEF Read
  <2>3. RedisOK'
    BY <1>9, <2>2, TypeParts DEF Read, Release, RedisOK
  <2>4. /\ seen \in Int
        /\ (IF listed THEN entry[pass.owner] ELSE 0) \in -1 .. 1
        /\ (listed /\ closing[pass.owner]) \in BOOLEAN
        /\ (listed /\ stop[pass.owner]) \in BOOLEAN
    BY <1>6, TypeParts DEF AccountOK
  <2>5. PassOK'
    BY <1>1, <1>6, <2>2, <2>4 DEF PassOK
  <2> QED
    BY <1>4, <1>5, <2>1, <2>3, <2>5, TypeParts
<1>10. CASE CancelStuck
  <2>1. RedisOK' /\ QueueOK' /\ LatchesOK' /\ HistoryOK'
    BY <1>10, TypeParts, Untouched DEF CancelStuck, redis, clock
  <2>2. AccountOK'
    <3>1. UNCHANGED <<held, before, stop>>
      BY <1>10 DEF CancelStuck
    <3>2. closing' \in [Owner -> BOOLEAN]
      BY <1>6, <1>10, TypeParts DEF CancelStuck, AccountOK
    <3>3. entry' \in [Owner -> -1 .. 1]
      <4>1. entry' = entry \/ \E e \in {0, entry[pass.owner]} :
                                entry' = [entry EXCEPT ![pass.owner] = e]
        BY <1>6, <1>10 DEF CancelStuck
      <4> QED
        BY <1>6, <4>1, TypeParts DEF AccountOK
    <3> QED
      BY <3>1, <3>2, <3>3, TypeParts DEF AccountOK
  <2>3. PassOK'
    BY <1>1, <1>6, <1>10 DEF CancelStuck, PassOK
  <2> QED
    BY <1>4, <1>5, <2>1, <2>2, <2>3, TypeParts
<1>11. CASE Order
  <2>1. RedisOK' /\ QueueOK' /\ LatchesOK'
    BY <1>11, TypeParts, Untouched DEF Order, redis, clock
  <2>2. held[pass.owner] \in Int
    BY <1>6, TypeParts DEF AccountOK
  <2>3. After(pass.owner, pass) \in Int
    <3>1. /\ Sign(pass.msz) \in {-1, 0, 1} /\ Sign(pass.seen) \in {-1, 0, 1}
          /\ Least(pass.lots, Abs(held[pass.owner])) \in Int
      BY <1>6, <2>2, SignOf, AbsOf, LeastOf
    <3>2. \A s \in {-1, 0, 1}, n \in Int : s * n \in Int
      OBVIOUS
    <3>3. /\ Sign(pass.msz) * pass.lots \in Int /\ Sign(pass.seen) * pass.lots \in Int
          /\ Sign(pass.seen) * Least(pass.lots, Abs(held[pass.owner])) \in Int
      BY <1>6, <3>1, <3>2
    <3> QED
      BY <2>2, <3>3 DEF After
  <2>4. AccountOK'
    BY <1>6, <1>11, <2>3, TypeParts DEF Order, AccountOK
  <2>5. HistoryOK'
    BY <1>6, <1>11, TypeParts DEF Order, Lasts, HistoryOK
  <2>6. PassOK'
    BY <1>11, IdleTyped, TypeParts DEF Order
  <2> QED
    BY <1>4, <1>5, <2>1, <2>4, <2>5, <2>6, TypeParts
<1> QED
  BY <1>7, <1>8, <1>9, <1>10, <1>11

\* Time, restarts, and the listener.
LEMMA ElapsingTyped ==
  ASSUME TypeOK, UNCHANGED scene,
         Tick \/ Restart \/ \E o \in Owner : Push(o) \/ GrowOlder(o) \/ MarkHandsOff(o)
  PROVE  TypeOK'
<1>1. Size' = Size /\ 0 \in Size
  BY SceneBounds, TypeParts DEF Size
<1>2. CASE Tick
  <2>1. WorldOK'
    BY <1>1, <1>2, TypeParts, GreatestOf DEF Tick, WorldOK, Ages
  <2>2. AccountOK'
    BY <1>2, TypeParts DEF Tick, AccountOK
  <2>3. QueueOK'
    BY <1>1, <1>2, TypeParts DEF Tick, QueueOK
  <2> QED
    BY <1>2, <2>1, <2>2, <2>3, TypeParts, Untouched DEF Tick, redis
<1>3. CASE Restart
  <2>1. RedisOK' /\ QueueOK'
    BY <1>1, <1>3, TypeParts DEF Restart, RedisOK, QueueOK, redis
  <2>2. LatchesOK'
    <3>1. Greatest(scene.maxSize, -scene.minSize) \in Nat
      BY SceneBounds, TypeParts
    <3> QED
      BY <1>3, <3>1 DEF Restart, LatchesOK
  <2>3. PassOK'
    BY <1>3, IdleTyped, TypeParts DEF Restart
  <2>4. BoundsOK'
    BY <1>3, TypeParts, SceneBounds DEF Restart, BoundsOK
  <2>5. WorldOK'
    <3>1. marking' \in [Owner -> BOOLEAN]
      BY <1>3, TypeParts DEF Restart, WorldOK
    <3> QED
      BY <1>1, <1>3, <3>1, TypeParts DEF Restart, WorldOK
  <2> QED
    BY <1>3, <2>1, <2>2, <2>3, <2>4, <2>5, TypeParts, Untouched DEF Restart
<1>4. ASSUME NEW o \in Owner, Push(o)
      PROVE  TypeOK'
  <2>1. fails' \in 0 .. scene'.maxFails
    <3>1. Fail(FALSE) \/ (Fails("master") /\ Fail(TRUE))
      <4>1. PICK failed \in {FALSE} \union {Fails("master")} : Fail(failed)
        BY <1>4 DEF Push
      <4>2. failed \in BOOLEAN
        BY <4>1 DEF Fails
      <4> QED
        BY <4>1, <4>2
    <3> QED
      BY <3>1, FailCounts, TypeParts
  <2>2. BoundsOK'
    BY <1>4, <2>1, TypeParts DEF Push, BoundsOK
  <2>3. QueueOK'
    <3>1. PICK failed \in BOOLEAN : queue' = Append(queue, <<o, IF failed THEN 0 ELSE master[o]>>)
      BY <1>4 DEF Push, Fails
    <3>2. <<o, IF failed THEN 0 ELSE master[o]>> \in Owner \X Size
      BY <1>1, TypeParts DEF WorldOK
    <3> QED
      BY <1>1, <1>4, <3>1, <3>2, TypeParts, ReconcilerAssumption DEF Push, QueueOK
  <2> QED
    BY <1>4, <2>2, <2>3, TypeParts, Untouched DEF Push, redis
<1>5. ASSUME NEW o \in Owner, GrowOlder(o)
      PROVE  TypeOK'
  <2>1. WorldOK'
    BY <1>1, <1>5, TypeParts DEF GrowOlder, WorldOK, Ages
  <2> QED
    BY <1>5, <2>1, TypeParts, Untouched DEF GrowOlder, redis, clock
<1>6. ASSUME NEW o \in Owner, MarkHandsOff(o)
      PROVE  TypeOK'
  <2>1. WorldOK'
    <3>1. marking' \in [Owner -> BOOLEAN]
      BY <1>6, TypeParts DEF MarkHandsOff, WorldOK
    <3> QED
      BY <1>1, <1>6, <3>1, TypeParts DEF MarkHandsOff, WorldOK
  <2>2. RedisOK'
    BY <1>6, TypeParts DEF MarkHandsOff, RedisOK
  <2>3. BoundsOK'
    BY <1>6, TypeParts, SceneBounds DEF MarkHandsOff, BoundsOK, Fails
  <2> QED
    BY <1>6, <2>1, <2>2, <2>3, TypeParts, Untouched DEF MarkHandsOff, clock
<1> QED
  BY <1>2, <1>3, <1>4, <1>5, <1>6

LEMMA TypeKept == TypeOK /\ [Next]_vars => TypeOK'
<1> SUFFICES ASSUME TypeOK, [Next]_vars
             PROVE  TypeOK'
  OBVIOUS
<1>1. CASE UNCHANGED vars
  BY <1>1, TypeParts, Untouched DEF vars, redis, clock
<1>2. CASE Next
  BY <1>2, MovingTyped, JudgingTyped, PassingTyped, ElapsingTyped DEF Next, Pass, Moving, Judging
<1> QED
  BY <1>1, <1>2

LEMMA InitTyped == Init => TypeOK
<1> SUFFICES ASSUME Init PROVE TypeOK
  OBVIOUS
<1> USE DEF Init
<1>1. /\ scene \in Scenarios /\ 0 \in Size
      /\ Greatest(scene.maxSize, -scene.minSize) \in Nat
      /\ scene.maxMoves \in Nat /\ scene.maxHidden \in Nat /\ scene.maxFails \in Nat
  BY SceneBounds
<1>2. WorldOK
  BY <1>1 DEF WorldOK, Ages
<1>3. AccountOK /\ RedisOK /\ HistoryOK
  BY DEF AccountOK, RedisOK, HistoryOK
<1>4. QueueOK
  BY ReconcilerAssumption DEF QueueOK
<1>5. LatchesOK
  BY <1>1 DEF LatchesOK
<1>6. PassOK
  <2> DEFINE first == CHOOSE o \in Owner : TRUE
  <2>1. first \in Owner
    BY ReconcilerAssumption
  <2> HIDE DEF first
  <2> QED
    BY <1>1, <2>1 DEF PassOK, Idle, Kinds, first
<1>7. BoundsOK
  BY <1>1 DEF BoundsOK
<1> QED
  BY <1>1, <1>2, <1>3, <1>4, <1>5, <1>6, <1>7, TypeParts

\* Every variable has its type, in every behaviour.
THEOREM TypeCorrect == Spec => []TypeOK
BY InitTyped, TypeKept, PTL DEF Spec
-----------------------------------------------------------------------------
(* Peaks and sizes: what an order was made of. *)

\* Between two passes nothing is on its way.
LEMMA IdleAt ==
  ASSUME pass' = Idle
  PROVE  pass'.at = "idle"
BY DEF Idle

\* What a judgement leaves: nothing, or an order for what the pass has read.
Concluded ==
  /\ pass'.at \in {"cancel", "order"}
  /\ pass'.owner = pass.owner /\ pass'.msz = pass.msz /\ pass'.seen = pass.seen
  /\ Sized'
  /\ pass'.kind = "topup" => pass.msz # 0 /\ ~BelowPeak(pass)
  /\ pass'.kind = "close" => pass.msz # 0 \/ ~handsoff[pass.owner] \/ Fails("redis")

LEMMA Concludes ==
  ASSUME TypeOK, Judging, UNCHANGED scene
  PROVE  pass'.at = "idle" \/ Concluded
<1>1. /\ pass \in [at : {"idle", "taken", "judge", "cancel", "order"}, owner : Owner,
                   msz : Size, seen : Int, entry : -1 .. 1, closing : BOOLEAN,
                   stop : BOOLEAN, kind : Kinds, lots : Nat]
      /\ pass.owner \in Owner /\ pass.msz \in Int /\ pass.seen \in Int
  BY TypeParts, SceneBounds DEF PassOK
<1>2. Abs(pass.msz) \in Nat /\ Abs(pass.seen) \in Nat
  BY <1>1, AbsOf
<1>3. ASSUME NEW kind, NEW lots, NEW at, Orders(kind, lots, at)
      PROVE  /\ pass'.at = at /\ pass'.kind = kind /\ pass'.lots = lots
             /\ pass'.owner = pass.owner /\ pass'.msz = pass.msz /\ pass'.seen = pass.seen
  BY <1>1, <1>3 DEF Orders
<1>4. CASE LeaveShort \/ LeaveSettled \/ Defer \/ LeaveFlat
  BY <1>4, IdleAt DEF LeaveShort, LeaveSettled, Defer, LeaveFlat, Leaves
<1>5. CASE Open
  <2>1. PICK lots \in 0 .. Share(pass.msz) : Orders("open", lots, "order") \/ pass' = Idle
    BY <1>5 DEF Open
  <2>2. pass.seen = 0 /\ lots <= Abs(pass.msz)
    BY <1>2, <1>5 DEF Open, Missing, Share
  <2>3. CASE Orders("open", lots, "order")
    BY <1>3, <2>2, <2>3 DEF Concluded, Sized
  <2> QED
    BY <2>1, <2>3, IdleAt
<1>6. CASE Close
  <2>1. CASE Orders("close", Abs(pass.seen), "order")
    <3>1. /\ ~SameSide(pass.seen, pass.msz)
          /\ pass.msz # 0 \/ ~handsoff[pass.owner] \/ Fails("redis")
      BY <1>6 DEF Close, Orphan, Deferred
    <3> QED
      BY <1>3, <2>1, <3>1 DEF Concluded, Sized
  <2> QED
    BY <1>6, <2>1, IdleAt DEF Close
<1>7. CASE Trim
  <2>1. PICK lots \in 0 .. Share(pass.msz) :
          /\ \E a \in Ages : Reads(pass, lots, a) /\ Over(pass, lots, a)
          /\ \/ Orders("trim", Abs(pass.seen) - lots, "cancel")
             \/ Orders("trim", Abs(pass.seen) - lots, "order")
             \/ pass' = Idle
    BY <1>7 DEF Trim
  <2>2. SameSide(pass.seen, pass.msz) /\ lots = Abs(pass.msz)
    BY <1>2, <2>1, ReadsOf DEF Over, Mismatched
  <2>3. (Abs(pass.seen) - lots) + Abs(pass.msz) = Abs(pass.seen)
    BY <1>2, <2>2
  <2>4. ASSUME NEW at \in {"cancel", "order"}, Orders("trim", Abs(pass.seen) - lots, at)
        PROVE  Concluded
    BY <1>3, <2>2, <2>3, <2>4 DEF Concluded, Sized
  <2> QED
    BY <2>1, <2>4, IdleAt
<1>8. CASE TopUp
  <2>1. PICK lots \in 0 .. Share(pass.msz) :
          /\ \E a \in Ages : Under(pass, lots, a)
          /\ ~BelowPeak(pass)
          /\ \/ Orders("topup", Least(lots - Abs(pass.seen), topupPrev[pass.owner]), "order")
             \/ pass' = Idle
    BY <1>8 DEF TopUp, Agreed
  <2>2. SameSide(pass.seen, pass.msz) /\ lots <= Abs(pass.msz) /\ lots \in Int
    BY <1>2, <2>1 DEF Under, Mismatched, Share
  <2>3. pass.msz # 0
    BY <1>1, <2>2, SignOf DEF SameSide
  <2>4. topupPrev[pass.owner] \in Int
    <3>1. Greatest(scene.maxSize, -scene.minSize) \in Nat
      BY SceneBounds, TypeParts
    <3> QED
      BY <1>1, <3>1, TypeParts DEF LatchesOK
  <2>5. Least(lots - Abs(pass.seen), topupPrev[pass.owner]) + Abs(pass.seen) <= Abs(pass.msz)
    BY <1>2, <2>2, <2>4 DEF Least
  <2>6. CASE Orders("topup", Least(lots - Abs(pass.seen), topupPrev[pass.owner]), "order")
    BY <1>3, <2>1, <2>2, <2>3, <2>5, <2>6 DEF Concluded, Sized
  <2> QED
    BY <2>1, <2>6, IdleAt
<1> QED
  BY <1>4, <1>5, <1>6, <1>7, <1>8 DEF Judging

LEMMA SizedKept ==
  ASSUME TypeOK, Sized, Next
  PROVE  Sized'
<1>1. CASE UNCHANGED pass
  BY <1>1 DEF Sized
<1>2. CASE pass'.at \in {"idle", "taken", "judge"}
  BY <1>2 DEF Sized
<1>3. CASE \E o \in Owner : Moving(o)
  BY <1>1, <1>3, MovingLeaves DEF Next
<1>4. CASE Judging
  BY <1>2, <1>4, Concludes DEF Next, Concluded
<1>5. CASE CancelStuck
  <2>1. pass.at = "cancel" /\ pass' = [pass EXCEPT !.at = "order"]
    BY <1>5 DEF CancelStuck
  <2>2. /\ pass'.at = "order" /\ pass'.kind = pass.kind /\ pass'.lots = pass.lots
        /\ pass'.msz = pass.msz /\ pass'.seen = pass.seen
    BY <2>1, TypeParts DEF PassOK
  <2> QED
    BY <2>1, <2>2 DEF Sized
<1>6. CASE Take
  <2>1. UNCHANGED pass \/ \E o, msz : pass' = [Idle EXCEPT !.at = "taken", !.owner = o, !.msz = msz]
    BY <1>6 DEF Take
  <2> QED
    BY <1>1, <1>2, <2>1 DEF Idle
<1>7. CASE Read
  BY <1>2, <1>7, TypeParts DEF Read, PassOK
<1>8. CASE Skip \/ Order \/ Restart
  BY <1>2, <1>8, IdleAt DEF Skip, Order, Restart
<1>9. CASE Tick \/ \E o \in Owner : Push(o) \/ GrowOlder(o) \/ MarkHandsOff(o)
  BY <1>1, <1>9 DEF Tick, Push, GrowOlder, MarkHandsOff
<1> QED
  BY <1>3, <1>4, <1>5, <1>6, <1>7, <1>8, <1>9 DEF Next, Pass, Moving, Judging

LEMMA PeakedKept ==
  ASSUME TypeOK, Sized, ~Fault("redis"), Peaked, Next
  PROVE  Peaked'
<1>1. CASE UNCHANGED <<peak, memPeak, pass, high>>
  BY <1>1 DEF Peaked
<1>2. CASE pass'.at = "idle" /\ UNCHANGED <<peak, high>>
  BY <1>2 DEF Peaked
<1>3. CASE \E o \in Owner : Moving(o)
  BY <1>1, <1>3, MovingLeaves DEF Next
<1>4. /\ peak \in [Owner -> Nat] /\ memPeak \in Nat /\ high \in [Owner -> Nat]
      /\ pass.owner \in Owner /\ pass.msz \in Int /\ Abs(pass.msz) \in Nat
  BY TypeParts, SceneBounds, AbsOf DEF RedisOK, HistoryOK, PassOK
<1>5. CASE Judging
  <2>1. UNCHANGED <<peak, high, memPeak>> /\ pass.at = "judge"
    BY <1>5, JudgingLeaves DEF redis
  <2>2. CASE Concluded
    <3>1. ASSUME pass.msz # 0, ~BelowPeak(pass)
          PROVE  high[pass.owner] <= Abs(pass.msz)
      BY <1>4, <2>1, <3>1 DEF Peaked, BelowPeak
    <3> QED
      BY <2>1, <2>2, <3>1 DEF Peaked, Concluded
  <2> QED
    BY <1>2, <1>5, <2>1, <2>2, Concludes DEF Next
<1>6. CASE CancelStuck
  <2>1. pass.at = "cancel" /\ pass' = [pass EXCEPT !.at = "order"] /\ UNCHANGED <<peak, high>>
    BY <1>6 DEF CancelStuck, redis, history
  <2>2. pass'.at = "order" /\ pass'.kind = "trim"
    BY <2>1, TypeParts DEF PassOK, Sized
  <2> QED
    BY <2>1, <2>2 DEF Peaked
<1>7. CASE Take
  <2> DEFINE o == Head(queue)[1]
             msz == Head(queue)[2]
  <2>1. o \in Owner /\ msz \in Int
    <3>1. queue \in Seq(Owner \X Size) /\ queue # <<>>
      BY <1>7, TypeParts DEF QueueOK, Take
    <3>2. Head(queue) \in Owner \X Size
      BY <3>1
    <3> QED
      BY <3>2, TypeParts, SceneBounds
  <2>2. \/ /\ Peaks(o, msz)
           /\ pass' = [Idle EXCEPT !.at = "taken", !.owner = o, !.msz = msz]
           /\ high' = [high EXCEPT ![o] = IF msz = 0 THEN 0 ELSE Greatest(@, Abs(msz))]
        \/ UNCHANGED <<memPeak, peak, pass, high>>
    BY <1>7 DEF Take
  <2> HIDE DEF o, msz
  <2>3. CASE /\ Peaks(o, msz)
             /\ pass' = [Idle EXCEPT !.at = "taken", !.owner = o, !.msz = msz]
             /\ high' = [high EXCEPT ![o] = IF msz = 0 THEN 0 ELSE Greatest(@, Abs(msz))]
    <3>1. pass'.at = "taken" /\ pass'.owner = o /\ pass'.msz = msz
      BY <2>3 DEF Idle
    <3>2. high[o] <= peak[o] /\ high[o] \in Nat /\ peak[o] \in Nat
      BY <1>4, <2>1 DEF Peaked
    <3>3. CASE msz # 0
      <4> DEFINE p == BumpPeak(o, msz)
                 h == Greatest(high[o], Abs(msz))
      <4>1. h <= p /\ p # 0 /\ h \in Nat /\ p \in Nat
        BY <2>1, <3>2, <3>3 DEF BumpPeak, Greatest, Abs
      <4>2. memPeak' = p /\ peak' = [peak EXCEPT ![o] = p] /\ high' = [high EXCEPT ![o] = h]
        BY <2>3, <3>3 DEF Peaks, Fails
      <4> HIDE DEF p, h
      <4>3. peak'[o] = p /\ high'[o] = h
        BY <1>4, <2>1, <4>2
      <4>4. \A x \in Owner : high'[x] <= peak'[x]
        BY <1>4, <4>1, <4>2 DEF Peaked
      <4> QED
        BY <3>1, <4>1, <4>2, <4>3, <4>4 DEF Peaked
    <3>4. CASE msz = 0
      <4>1. high' = [high EXCEPT ![o] = 0] /\ \E k \in {0, peak[o]} : peak' = [peak EXCEPT ![o] = k]
        <5>1. high' = [high EXCEPT ![o] = 0]
          BY <2>3, <3>4
        <5>2. peak' = peak \/ peak' = [peak EXCEPT ![o] = 0]
          BY <2>3, <3>4 DEF Peaks
        <5>3. peak = [peak EXCEPT ![o] = peak[o]]
          BY <1>4, <2>1
        <5> QED
          BY <5>1, <5>2, <5>3
      <4>2. \A x \in Owner : high'[x] <= peak'[x]
        BY <1>4, <3>2, <4>1 DEF Peaked
      <4> QED
        BY <3>1, <3>4, <4>2 DEF Peaked
    <3> QED
      BY <3>3, <3>4
  <2> QED
    BY <1>1, <2>2, <2>3
<1>8. CASE Read
  <2>1. UNCHANGED <<peak, memPeak, high>> /\ pass.at = "taken"
    BY <1>8 DEF Read, history
  <2>2. pass'.at = "judge" /\ pass'.owner = pass.owner /\ pass'.msz = pass.msz
    BY <1>8, TypeParts DEF Read, PassOK
  <2> QED
    BY <2>1, <2>2 DEF Peaked
<1>9. CASE Skip \/ Order \/ Restart
  BY <1>2, <1>9, IdleAt DEF Skip, Order, Restart, redis, history
<1>10. CASE Tick \/ \E o \in Owner : Push(o) \/ GrowOlder(o) \/ MarkHandsOff(o)
  BY <1>1, <1>10 DEF Tick, Push, GrowOlder, MarkHandsOff, redis, history
<1> QED
  BY <1>3, <1>5, <1>6, <1>7, <1>8, <1>9, <1>10 DEF Next, Pass, Moving, Judging
-----------------------------------------------------------------------------
(* A prompt pass finds the world as it read it. *)

\* What does not happen to it.
LEMMA NoDelays ==
  ASSUME TypeOK, Prompt
  PROVE  /\ ~Fault("backlog") /\ ~Fails("master") /\ ~Fails("follower")
         /\ ~Fails("redis")
         /\ ~(hidden < scene.maxHidden)
BY TypeParts, SceneBounds DEF Prompt, Fault, Fails, BoundsOK

\* The world does not move while a pass is on its way.
LEMMA MovesWhenQuiet ==
  ASSUME TypeOK, Prompt, NEW o \in Owner, Moving(o), UNCHANGED scene
  PROVE  Quiet /\ UNCHANGED <<queue, pass>>
BY MovingLeaves, NoDelays

LEMMA CurrentKept ==
  ASSUME TypeOK, Prompt, Current, Next
  PROVE  Current'
<1>1. CASE queue' = <<>> /\ pass'.at = "idle"
  BY <1>1 DEF Current
<1>2. CASE \E o \in Owner : Moving(o)
  BY <1>1, <1>2, MovesWhenQuiet DEF Next, Quiet
<1>3. CASE Judging
  <2>1. /\ pass.at = "judge" /\ UNCHANGED <<master, held, queue>>
    BY <1>3, JudgingLeaves DEF world, account
  <2> QED
    BY <1>1, <1>3, <2>1, Concludes DEF Next, Concluded, Current
<1>4. CASE CancelStuck
  <2>1. /\ pass.at = "cancel" /\ pass' = [pass EXCEPT !.at = "order"]
        /\ UNCHANGED <<master, held, queue>>
    BY <1>4 DEF CancelStuck, world
  <2>2. /\ pass'.at = "order" /\ pass'.kind = pass.kind /\ pass'.owner = pass.owner
        /\ pass'.msz = pass.msz /\ pass'.seen = pass.seen /\ pass.owner \in Owner
    BY <2>1, TypeParts DEF PassOK
  <2> QED
    BY <2>1, <2>2 DEF Current
<1>5. CASE Take
  <2>1. /\ queue # <<>> /\ queue \in Seq(Owner \X Size)
        /\ pass.at = "idle" /\ queue' = Tail(queue) /\ UNCHANGED <<master, held>>
    BY <1>5, TypeParts DEF Take, world, account, QueueOK
  <2>2. Len(queue) = 1 /\ Head(queue)[2] = master[Head(queue)[1]]
    BY <2>1 DEF Current
  <2>3. queue' = <<>>
    BY <2>1, <2>2
  <2>4. \/ pass' = [Idle EXCEPT !.at = "taken", !.owner = Head(queue)[1], !.msz = Head(queue)[2]]
        \/ pass' = pass
    BY <1>5 DEF Take
  <2>5. CASE pass' = [Idle EXCEPT !.at = "taken", !.owner = Head(queue)[1], !.msz = Head(queue)[2]]
    <3>1. pass'.at = "taken" /\ pass'.owner = Head(queue)[1] /\ pass'.msz = Head(queue)[2]
      BY <2>5 DEF Idle
    <3> QED
      BY <2>1, <2>2, <2>3, <3>1 DEF Current
  <2> QED
    BY <1>1, <2>1, <2>3, <2>4, <2>5
<1>6. CASE Read
  <2>1. pass.at = "taken" /\ UNCHANGED <<master, held, queue>>
    BY <1>6 DEF Read, world, account
  <2>2. PICK seen \in {0, held[pass.owner], before[pass.owner]}, listed \in BOOLEAN :
          /\ Answers(pass.owner, seen, listed)
          /\ pass' = [pass EXCEPT !.at = "judge", !.seen = seen,
                                  !.entry = IF listed THEN entry[pass.owner] ELSE 0,
                                  !.closing = listed /\ closing[pass.owner],
                                  !.stop = listed /\ stop[pass.owner]]
    BY <1>6 DEF Read
  <2>3. seen = held[pass.owner]
    BY <2>2, NoDelays DEF Answers
  <2>4. /\ pass'.at = "judge" /\ pass'.owner = pass.owner /\ pass'.msz = pass.msz
        /\ pass'.seen = held[pass.owner]
    BY <2>2, <2>3, TypeParts DEF PassOK
  <2> QED
    BY <2>1, <2>4 DEF Current
<1>7. CASE Skip \/ Order
  <2>1. pass.at # "idle" /\ queue' = queue /\ pass' = Idle
    BY <1>7 DEF Skip, Order
  <2> QED
    BY <1>1, <2>1, IdleAt DEF Current
<1>8. CASE Restart
  <2>1. UNCHANGED <<master, queue>> /\ pass'.at = "idle"
    BY <1>8, IdleAt DEF Restart
  <2> QED
    BY <2>1 DEF Current
<1>9. CASE Tick
  <2>1. Quiet /\ UNCHANGED <<queue, pass>>
    BY <1>9, NoDelays DEF Tick
  <2> QED
    BY <1>1, <2>1 DEF Quiet
<1>10. ASSUME NEW o \in Owner, GrowOlder(o) \/ MarkHandsOff(o)
       PROVE  Current'
  <2>1. UNCHANGED <<master, held, queue, pass>>
    BY <1>10 DEF GrowOlder, MarkHandsOff, account
  <2> QED
    BY <2>1 DEF Current
<1>11. ASSUME NEW o \in Owner, Push(o)
       PROVE  Current'
  <2>1. Quiet /\ UNCHANGED <<pass, master>>
    BY <1>11, NoDelays DEF Push, world
  <2>2. PICK failed \in {FALSE} \union {Fails("master")} :
          queue' = Append(queue, <<o, IF failed THEN 0 ELSE master[o]>>)
    BY <1>11 DEF Push
  <2>3. ~failed
    BY <2>2, NoDelays
  <2>4. queue' = << <<o, master[o]>> >>
    BY <2>1, <2>2, <2>3 DEF Quiet
  <2> QED
    BY <2>1, <2>4 DEF Current, Quiet
<1> QED
  BY <1>2, <1>3, <1>4, <1>5, <1>6, <1>7, <1>8, <1>9, <1>10, <1>11
  DEF Next, Pass, Moving, Judging

\* No move of the world unmarks a leg before it is over.
LEMMA MovingKeepsMarks ==
  ASSUME TypeOK, NEW o \in Owner, Moving(o), \A x \in Owner : Marked(x)
  PROVE  \A x \in Owner : Marked(x)'
<1>1. /\ master \in [Owner -> Size] /\ held \in [Owner -> Int]
      /\ handsoff \in [Owner -> BOOLEAN] /\ spared \in [Owner -> BOOLEAN]
  BY TypeParts DEF WorldOK, AccountOK, RedisOK, HistoryOK
<1>2. CASE UNCHANGED <<master, held, handsoff, spared>>
  BY <1>2 DEF Marked
<1>3. CASE MasterStopFires(o)
  <2>1. /\ master' = [master EXCEPT ![o] = 0] /\ master[o] # 0
        /\ UNCHANGED <<handsoff, spared, held>>
    BY <1>3 DEF MasterStopFires, account
  <2> QED
    BY <1>1, <2>1 DEF Marked
<1>4. ASSUME NEW m, NEW h, master' = [master EXCEPT ![o] = m], held' = [held EXCEPT ![o] = h],
             Lasts(o, m, h), handsoff' = handsoff
      PROVE  \A x \in Owner : Marked(x)'
  BY <1>1, <1>4 DEF Lasts, Marked
<1>5. CASE MasterTrades(o)
  <2>1. PICK m \in Size \ {master[o]} :
          /\ master' = [master EXCEPT ![o] = m]
          /\ \E copied : HoldsNow(o, held[o] + copied)
          /\ Lasts(o, master'[o], held'[o])
    BY <1>5 DEF MasterTrades
  <2>2. PICK h : held' = [held EXCEPT ![o] = h]
    BY <2>1 DEF HoldsNow
  <2>3. master'[o] = m /\ held'[o] = h
    BY <1>1, <2>1, <2>2
  <2>4. handsoff' = handsoff
    BY <1>5 DEF MasterTrades
  <2> QED
    BY <1>4, <2>1, <2>2, <2>3, <2>4
<1>6. ASSUME NEW h, HoldsNow(o, h), Lasts(o, master[o], h), UNCHANGED <<master, handsoff>>
      PROVE  \A x \in Owner : Marked(x)'
  <2>1. master' = [master EXCEPT ![o] = master[o]]
    BY <1>1, <1>6
  <2> QED
    BY <1>4, <1>6, <2>1 DEF HoldsNow
<1>7. CASE EntryFills(o) \/ CloseFills(o) \/ StopFires(o)
  BY <1>6, <1>7 DEF EntryFills, CloseFills, StopFires, world
<1>8. CASE MasterWorks(o) \/ EntryRests(o) \/ StopRests(o)
  BY <1>2, <1>8 DEF MasterWorks, EntryRests, StopRests, world
<1> QED
  BY <1>3, <1>5, <1>7, <1>8 DEF Moving

LEMMA LeftKept ==
  ASSUME TypeOK, Sized, Prompt, Current, Left, Next
  PROVE  Left'
<1> DEFINE Reduces == pass.at \in {"cancel", "order"} /\ ~Adds(pass.kind)
<1>1. /\ master \in [Owner -> Size] /\ held \in [Owner -> Int]
      /\ handsoff \in [Owner -> BOOLEAN] /\ spared \in [Owner -> BOOLEAN] /\ pass.owner \in Owner
  BY TypeParts DEF WorldOK, AccountOK, RedisOK, HistoryOK, PassOK
<1>2. \A o \in Owner : Marked(o)
  BY DEF Left, Marked
<1>3. ASSUME \A o \in Owner : Marked(o)', pass'.at \notin {"cancel", "order"}
      PROVE  Left'
  BY <1>3 DEF Left, Marked
<1>4. ASSUME UNCHANGED <<master, held, handsoff, spared>>
      PROVE  \A o \in Owner : Marked(o)'
  BY <1>2, <1>4 DEF Marked
<1>5. CASE \E o \in Owner : Moving(o)
  <2>1. Quiet /\ UNCHANGED pass
    BY <1>5, MovesWhenQuiet DEF Next
  <2> QED
    BY <1>2, <1>3, <1>5, <2>1, MovingKeepsMarks DEF Quiet
<1>6. CASE Judging
  <2>1. pass.at = "judge" /\ UNCHANGED <<master, held, handsoff>>
    BY <1>6, JudgingLeaves DEF world, account, redis
  <2>2. ~Defer \/ pass'.at = "idle"
    BY IdleAt DEF Defer, Leaves
  <2>3. \A o \in Owner : Marked(o)'
    <3>1. CASE UNCHANGED spared
      BY <1>4, <2>1, <3>1
    <3>2. CASE Defer /\ spared' = [spared EXCEPT ![pass.owner] = @ \/ handsoff[pass.owner]]
      <4>1. master[pass.owner] = 0 /\ held[pass.owner] # 0
        BY <2>1, <3>2 DEF Defer, Orphan, Deferred, Current
      <4> QED
        BY <1>1, <1>2, <2>1, <3>2, <4>1 DEF Marked
    <3> QED
      BY <1>6, <3>1, <3>2, JudgingLeaves
  <2>4. CASE Concluded
    <3>1. ASSUME pass'.kind \notin {"open", "topup"}
          PROVE  ~spared[pass.owner]
      <4>1. CASE pass.msz # 0
        BY <1>1, <2>1, <4>1 DEF Current, Left, Marked
      <4>2. CASE pass.msz = 0 /\ pass'.kind = "close"
        BY <1>1, <2>4, <4>2, NoDelays DEF Concluded, Left, Marked
      <4>3. CASE pass'.kind = "trim"
        <5>1. SameSide(pass.seen, pass.msz) /\ pass.seen \in Int
          BY <2>4, <4>3, TypeParts DEF Concluded, Sized, PassOK
        <5>2. pass.msz # 0
          BY <5>1, SignOf DEF SameSide, Sign
        <5> QED
          BY <4>1, <5>2
      <4>4. pass'.kind \in {"trim", "close"}
        BY <2>4, <3>1 DEF Concluded, Sized
      <4> QED
        BY <4>1, <4>2, <4>3, <4>4
    <3>2. UNCHANGED spared
      BY <1>6, <2>2, <2>4, JudgingLeaves DEF Concluded
    <3> QED
      BY <2>1, <2>3, <2>4, <3>1, <3>2 DEF Concluded, Left, Marked, Adds
  <2> QED
    BY <1>3, <1>6, <2>1, <2>3, <2>4, Concludes DEF Next
<1>7. CASE CancelStuck
  <2>1. /\ pass.at = "cancel" /\ pass' = [pass EXCEPT !.at = "order"]
        /\ UNCHANGED <<master, held, handsoff, spared>>
    BY <1>7 DEF CancelStuck, world, redis, history
  <2>2. pass'.at = "order" /\ pass'.kind = pass.kind /\ pass'.owner = pass.owner
    BY <2>1, TypeParts DEF PassOK
  <2> QED
    BY <2>1, <2>2 DEF Left, Marked
<1>8. CASE Take
  <2>1. /\ UNCHANGED <<master, held, handsoff, spared>> /\ pass.at = "idle"
        /\ pass' = pass \/ \E o, msz : pass' = [Idle EXCEPT !.at = "taken", !.owner = o, !.msz = msz]
    BY <1>8 DEF Take, world, account
  <2>2. pass'.at \in {"idle", "taken"}
    BY <2>1 DEF Idle
  <2> QED
    BY <1>3, <1>4, <2>1, <2>2
<1>9. CASE Read
  <2>1. UNCHANGED <<master, held, spared>> /\ pass.at = "taken"
    BY <1>9 DEF Read, world, account, history
  <2>2. PICK seen \in {0, held[pass.owner], before[pass.owner]}, listed \in BOOLEAN :
          /\ Answers(pass.owner, seen, listed)
          /\ Release(pass.owner, pass.msz, seen)
    BY <1>9 DEF Read
  <2>3. seen = held[pass.owner] /\ pass.msz = master[pass.owner]
    BY <2>1, <2>2, NoDelays DEF Answers, Current
  <2>4. \A o \in Owner : Marked(o)'
    BY <1>1, <1>2, <2>1, <2>2, <2>3 DEF Release, Marked
  <2>5. pass'.at = "judge"
    BY <1>9, TypeParts DEF Read, PassOK
  <2> QED
    BY <1>3, <2>4, <2>5
<1>10. CASE Order
  <2>1. UNCHANGED <<master, handsoff>> /\ pass' = Idle
    BY <1>10 DEF Order, world, redis
  <2>2. \/ /\ \E h : held' = [held EXCEPT ![pass.owner] = h]
           /\ Lasts(pass.owner, master[pass.owner], held'[pass.owner])
        \/ UNCHANGED <<held, spared>>
    BY <1>10 DEF Order
  <2>3. \A o \in Owner : Marked(o)'
    BY <1>1, <1>2, <2>1, <2>2 DEF Lasts, Marked
  <2> QED
    BY <1>3, <2>1, <2>3, IdleAt
<1>11. CASE Skip \/ Restart
  <2>1. UNCHANGED <<master, held, handsoff, spared>> /\ pass' = Idle
    BY <1>11 DEF Skip, Restart, world, account, redis, history
  <2> QED
    BY <1>3, <1>4, <2>1, IdleAt
<1>12. CASE Tick \/ \E o \in Owner : Push(o) \/ GrowOlder(o)
  <2>1. UNCHANGED <<master, held, handsoff, spared, pass>>
    BY <1>12 DEF Tick, Push, GrowOlder, world, account, redis, history
  <2> QED
    BY <2>1 DEF Left, Marked
<1>13. CASE \E o \in Owner : MarkHandsOff(o)
  <2>1. /\ UNCHANGED <<master, held, spared, pass>>
        /\ handsoff' = handsoff \/ \E o \in Owner : handsoff' = [handsoff EXCEPT ![o] = TRUE]
    BY <1>13 DEF MarkHandsOff, account, history
  <2>2. \A o \in Owner : Marked(o)'
    BY <1>1, <1>2, <2>1 DEF Marked
  <2> QED
    BY <2>1, <2>2 DEF Left, Marked
<1> QED
  BY <1>5, <1>6, <1>7, <1>8, <1>9, <1>10, <1>11, <1>12, <1>13
  DEF Next, Pass, Moving, Judging
-----------------------------------------------------------------------------
(* What holds of every behaviour. *)

\* Orders are sized for what was read and, when passes are prompt, what was read
\* is what holds: the invariant the rest follows from.
THEOREM Invariance == Spec => []IInv
<1>1. Init => IInv
  <2> SUFFICES ASSUME Init, TypeOK
               PROVE  Peaked /\ Sized /\ Current /\ Left
    BY InitTyped DEF IInv
  <2>1. pass.at = "idle" /\ queue = <<>>
    BY DEF Init, Idle
  <2>2. \A o \in Owner : high[o] <= peak[o] /\ ~spared[o]
    BY DEF Init
  <2> QED
    BY <2>1, <2>2 DEF Peaked, Sized, Current, Left, Marked
<1>2. IInv /\ [Next]_vars => IInv'
  <2> SUFFICES ASSUME IInv, [Next]_vars
               PROVE  IInv'
    OBVIOUS
  <2>1. CASE UNCHANGED vars
    <3>1. TypeOK'
      BY <2>1, TypeKept DEF IInv
    <3>2. UNCHANGED <<scene, master, held, handsoff, peak, memPeak, closing, queue, pass, high, spared>>
      BY <2>1 DEF vars, world, account, redis, history
    <3>3. Sized'
      BY <3>2 DEF IInv, Sized
    <3>4. (Prompt' => Prompt) /\ (Fault("redis") => Fault("redis")')
      BY <3>2 DEF Prompt, Fault
    <3>5. Prompt => Current' /\ Left'
      BY <3>2 DEF IInv, Current, Left, Marked
    <3>6. ~Fault("redis") => Peaked'
      BY <3>2 DEF IInv, Peaked
    <3> QED
      BY <3>1, <3>3, <3>4, <3>5, <3>6 DEF IInv
  <2>2. CASE Next
    <3>1. TypeOK' /\ Sized' /\ (~Fault("redis") => Peaked')
      BY <2>2, TypeKept, SizedKept, PeakedKept DEF IInv
    <3>2. (Prompt' => Prompt) /\ (Fault("redis") => Fault("redis")')
      BY <2>2 DEF Next, Prompt, Fault
    <3>3. Prompt => Current' /\ Left'
      BY <2>2, CurrentKept, LeftKept DEF IInv
    <3> QED
      BY <3>1, <3>2, <3>3 DEF IInv
  <2> QED
    BY <2>1, <2>2
<1> QED
  BY <1>1, <1>2, PTL DEF Spec

\* "While a master is unwinding, a follower must never be adding": however late
\* the passes run, and whatever fails but Redis, the order of a top-up is sized by
\* a snapshot that shows the master at the largest size he had on the leg
\* (Reconciler: bump_peak, _reconcile_one_owner).
THEOREM ToppedUpAtPeak == Spec => TopsUpAtPeak
<1>1. IInv => [\A o \in Owner : ~Fault("redis") /\ Adding(o) /\ pass.kind = "topup" =>
                                  Abs(pass.msz) >= high[o]]_vars
  <2> SUFFICES ASSUME IInv, NEW o \in Owner, ~Fault("redis"), Adding(o), pass.kind = "topup"
               PROVE  Abs(pass.msz) >= high[o]
    OBVIOUS
  <2>1. high[o] <= Abs(pass.msz)
    BY DEF IInv, Peaked, Adding, Ordering
  <2>2. high[o] \in Nat /\ Abs(pass.msz) \in Nat
    BY TypeParts, SceneBounds, AbsOf DEF IInv, HistoryOK, PassOK
  <2> QED
    BY <2>1, <2>2
<1> QED
  BY <1>1, Invariance, PTL DEF TopsUpAtPeak

\* A leg that a pass found left to the follower's own stop is never reduced by a
\* later one that is prompt: the hands-off mark stays for as long as the leg,
\* restarts included, and every pass that could send the order reads it.
THEOREM LeavesItToTheStop == Spec => NeverForces
<1>1. IInv => [\A o \in Owner : Prompt /\ Reducing(o) /\ spared[o] => held'[o] = held[o]]_vars
  BY DEF IInv, Left, Reducing, Ordering
<1> QED
  BY <1>1, Invariance, PTL DEF NeverForces

\* A position that changes as a pass ends is moved by its market order.
LEMMA OrderMoves ==
  ASSUME TypeOK, [Next]_vars, NEW o \in Owner, Ordering(o), held'[o] # held[o]
  PROVE  held' = [held EXCEPT ![o] = After(o, pass)]
<1>1. pass.at = "order" /\ pass.owner = o /\ pass' # pass
  BY DEF Ordering
<1>2. held' # held
  OBVIOUS
<1>3. Next
  BY <1>2 DEF vars, account
<1>4. ASSUME NEW x \in Owner, Moving(x)
      PROVE  FALSE
  BY <1>1, <1>3, <1>4, MovingLeaves DEF Next
<1>5. ~Judging
  BY <1>1, JudgingLeaves
<1>6. ~(Take \/ Skip \/ Read \/ CancelStuck)
  BY <1>1 DEF Take, Skip, Read, CancelStuck
<1>7. ~(Tick \/ Restart \/ \E x \in Owner : Push(x) \/ GrowOlder(x) \/ MarkHandsOff(x))
  BY <1>2 DEF Tick, Restart, Push, GrowOlder, MarkHandsOff, account
<1>8. Order
  BY <1>3, <1>4, <1>5, <1>6, <1>7 DEF Next, Pass, Moving, Judging
<1> QED
  BY <1>1, <1>2, <1>8 DEF Order

\* The position that an order of each kind leaves, and the way it goes: m and h
\* are the positions of the master and the follower, msz and seen what the pass
\* read of them, n the lots it orders.
LEMMA Lands ==
  ASSUME NEW m \in Int, NEW h \in Int, NEW msz \in Int, NEW seen \in Int, NEW n \in Nat,
         NEW to \in Int, to # h
  PROVE  LET way == Sign(to - h)
             drift == Abs(m - msz) + Abs(h - seen)
         IN  /\ seen = 0 /\ n <= Abs(msz) /\ to = h + Sign(msz) * n =>
                  way * to <= way * m + drift
             /\ SameSide(seen, msz) /\ n + Abs(seen) <= Abs(msz) /\ to = h + Sign(seen) * n =>
                  way * to <= way * m + drift
             /\ /\ SameSide(h, seen) /\ to = h - Sign(seen) * Least(n, Abs(h))
                /\ \/ SameSide(seen, msz) /\ n + Abs(msz) = Abs(seen)
                   \/ ~SameSide(seen, msz) /\ n = Abs(seen)
                => way * to <= way * m + drift
<1> DEFINE way == Sign(to - h)
           drift == Abs(m - msz) + Abs(h - seen)
<1>1. (way = 1 /\ to > h) \/ (way = -1 /\ to < h)
  BY DEF Sign
<1>2. /\ m - msz <= Abs(m - msz) /\ msz - m <= Abs(m - msz)
      /\ h - seen <= Abs(h - seen) /\ seen - h <= Abs(h - seen)
      /\ Abs(m - msz) \in Int /\ Abs(h - seen) \in Int
  BY DEF Abs
<1>3. msz < 0 \/ msz = 0 \/ msz > 0
  OBVIOUS
<1>4. seen < 0 \/ seen = 0 \/ seen > 0
  OBVIOUS
<1> HIDE DEF way
<1>5. seen = 0 /\ n <= Abs(msz) /\ to = h + Sign(msz) * n => way * to <= way * m + drift
  <2> DEFINE a == Abs(m - msz)
             b == Abs(h - seen)
  <2> HIDE DEF a, b
  <2> SUFFICES ASSUME seen = 0, n <= Abs(msz), to = h + Sign(msz) * n
               PROVE  way * to <= way * m + (a + b)
    BY DEF a, b
  <2>1. m - msz <= a /\ msz - m <= a /\ h - seen <= b /\ seen - h <= b /\ a \in Int /\ b \in Int
    BY <1>2 DEF a, b
  <2>2. CASE msz < 0
    <3>1. to = h - n /\ n <= -msz
      BY <2>2 DEF Sign, Abs
    <3> QED
      BY <1>1, <2>1, <3>1
  <2>3. CASE msz > 0
    <3>1. to = h + n /\ n <= msz
      BY <2>3 DEF Sign, Abs
    <3> QED
      BY <1>1, <2>1, <3>1
  <2> QED
    BY <1>3, <2>2, <2>3 DEF Sign
<1>6. SameSide(seen, msz) /\ n + Abs(seen) <= Abs(msz) /\ to = h + Sign(seen) * n
      => way * to <= way * m + drift
  <2> DEFINE a == Abs(m - msz)
             b == Abs(h - seen)
  <2> HIDE DEF a, b
  <2> SUFFICES ASSUME SameSide(seen, msz), n + Abs(seen) <= Abs(msz), to = h + Sign(seen) * n
               PROVE  way * to <= way * m + (a + b)
    BY DEF a, b
  <2>1. m - msz <= a /\ msz - m <= a /\ h - seen <= b /\ seen - h <= b /\ a \in Int /\ b \in Int
    BY <1>2 DEF a, b
  <2>2. CASE seen < 0
    <3>1. msz < 0
      BY <2>2 DEF SameSide, Sign
    <3>2. to = h - n /\ n - seen <= -msz
      BY <2>2, <3>1 DEF Sign, Abs
    <3> QED
      BY <1>1, <2>1, <3>2
  <2>3. CASE seen > 0
    <3>1. msz > 0
      BY <1>3, <2>3 DEF SameSide, Sign
    <3>2. to = h + n /\ n + seen <= msz
      BY <2>3, <3>1 DEF Sign, Abs
    <3> QED
      BY <1>1, <2>1, <3>2
  <2> QED
    BY <1>4, <2>2, <2>3 DEF SameSide
<1>7. ASSUME SameSide(h, seen), to = h - Sign(seen) * Least(n, Abs(h)),
             \/ SameSide(seen, msz) /\ n + Abs(msz) = Abs(seen)
             \/ ~SameSide(seen, msz) /\ n = Abs(seen)
      PROVE  way * to <= way * m + drift
  <2> DEFINE a == Abs(m - msz)
             b == Abs(h - seen)
  <2> HIDE DEF a, b
  <2> SUFFICES way * to <= way * m + (a + b)
    BY DEF a, b
  <2>1. m - msz <= a /\ msz - m <= a /\ h - seen <= b /\ seen - h <= b /\ a \in Int /\ b \in Int
    BY <1>2 DEF a, b
  <2>2. CASE seen < 0
    <3>1. h < 0
      <4>1. Sign(seen) = -1 /\ Sign(h) = Sign(seen)
        BY <1>7, <2>2 DEF SameSide, Sign
      <4>2. h < 0 \/ h = 0 \/ h > 0
        OBVIOUS
      <4> QED
        BY <4>1, <4>2 DEF Sign
    <3>2. to = h + Least(n, -h)
      <4>1. Sign(seen) = -1 /\ Abs(h) = -h
        BY <2>2, <3>1 DEF Sign, Abs
      <4>2. to = h - (-1) * Least(n, -h) /\ Least(n, -h) \in Int
        BY <1>7, <4>1, LeastOf
      <4> QED
        BY <4>2
    <3>3. Least(n, -h) <= n /\ Least(n, -h) <= -h /\ Least(n, -h) \in Int
      BY DEF Least
    <3>4. \/ msz < 0 /\ n - msz = -seen
          \/ msz >= 0 /\ n = -seen
      BY <1>3, <1>7, <2>2 DEF SameSide, Sign, Abs
    <3> DEFINE l == Least(n, -h)
    <3> HIDE DEF l
    <3>5. to = h + l /\ l <= n /\ l <= -h /\ l \in Int
      BY <3>2, <3>3 DEF l
    <3>7. to <= m + (a + b)
      BY <2>1, <3>4, <3>5
    <3>8. l >= 0
      BY <3>1 DEF l, Least
    <3> QED
      BY <1>1, <3>5, <3>7, <3>8, <2>1
  <2>3. CASE seen > 0
    <3>1. h > 0
      <4>1. Sign(seen) = 1 /\ Sign(h) = Sign(seen)
        BY <1>7, <2>3 DEF SameSide, Sign
      <4>2. h < 0 \/ h = 0 \/ h > 0
        OBVIOUS
      <4> QED
        BY <4>1, <4>2 DEF Sign
    <3>2. to = h - Least(n, h)
      <4>1. Sign(seen) = 1 /\ Abs(h) = h
        BY <2>3, <3>1 DEF Sign, Abs
      <4>2. to = h - 1 * Least(n, h) /\ Least(n, h) \in Int
        BY <1>7, <4>1, LeastOf
      <4> QED
        BY <4>2
    <3>4. \/ msz > 0 /\ n + msz = seen
          \/ msz <= 0 /\ n = seen
      BY <1>3, <1>7, <2>3 DEF SameSide, Sign, Abs
    <3> DEFINE l == Least(n, h)
    <3>5. to = h - l /\ l <= n /\ l <= h /\ l \in Int /\ l >= 0
      BY <3>1, <3>2 DEF Least
    <3> HIDE DEF l
    <3>7. m <= to + (a + b)
      BY <2>1, <3>4, <3>5
    <3> QED
      BY <1>1, <3>5, <3>7, <2>1
  <2> QED
    BY <1>4, <1>7, <2>2, <2>3 DEF SameSide, Sign
<1> QED
  BY <1>5, <1>6, <1>7 DEF way

\* An order never takes the follower past the master, the way the order goes, by
\* more than the two positions have moved since its pass read them: whatever
\* happened since the pass before, however late they run, whatever fails, and
\* for positions of any size, long or short.
THEOREM OrdersStopAtTheMaster == Spec => NeverOvershoots
<1> DEFINE Within(o) ==
      LET way == Sign(held'[o] - held[o])
      IN  Ordering(o) /\ held'[o] # held[o] => way * held'[o] <= way * master[o] + Drift(o)
<1>1. IInv /\ [Next]_vars => [\A o \in Owner : Within(o)]_vars
  <2> SUFFICES ASSUME IInv, [Next]_vars, NEW o \in Owner, Ordering(o), held'[o] # held[o]
               PROVE  Sign(held'[o] - held[o]) * held'[o] <= Sign(held'[o] - held[o]) * master[o] + Drift(o)
    OBVIOUS
  <2>1. held'[o] = After(o, pass)
    BY OrderMoves, TypeParts DEF IInv, AccountOK
  <2>2. pass.at = "order" /\ pass.owner = o
    BY DEF Ordering
  <2>3. /\ master[o] \in Int /\ held[o] \in Int /\ held'[o] \in Int
        /\ pass.msz \in Int /\ pass.seen \in Int /\ pass.lots \in Nat
    <3>1. TypeOK /\ TypeOK'
      BY TypeKept DEF IInv
    <3>2. AccountOK'
      BY <3>1 DEF TypeOK, AccountOK
    <3> QED
      BY <3>1, <3>2, TypeParts, SceneBounds DEF WorldOK, AccountOK, PassOK
  <2>4. CASE pass.kind = "open" /\ pass.seen = 0 /\ pass.lots <= Abs(pass.msz)
    <3>1. held'[o] = held[o] + Sign(pass.msz) * pass.lots
      BY <2>1, <2>4 DEF After
    <3> QED
      BY <2>3, <2>4, <3>1, Lands DEF Drift
  <2>5. CASE /\ pass.kind = "topup" /\ SameSide(pass.seen, pass.msz)
             /\ pass.lots + Abs(pass.seen) <= Abs(pass.msz)
    <3>1. held'[o] = held[o] + Sign(pass.seen) * pass.lots
      BY <2>1, <2>5 DEF After
    <3> QED
      BY <2>3, <2>5, <3>1, Lands DEF Drift
  <2>6. CASE /\ pass.kind \in {"trim", "close"}
             /\ \/ SameSide(pass.seen, pass.msz) /\ pass.lots + Abs(pass.msz) = Abs(pass.seen)
                \/ ~SameSide(pass.seen, pass.msz) /\ pass.lots = Abs(pass.seen)
    <3>1. /\ SameSide(held[o], pass.seen)
          /\ held'[o] = held[o] - Sign(pass.seen) * Least(pass.lots, Abs(held[o]))
      BY <2>1, <2>6 DEF After
    <3> QED
      BY <2>3, <2>6, <3>1, Lands DEF Drift
  <2> QED
    BY <2>2, <2>4, <2>5, <2>6 DEF IInv, Sized
<1> QED
  BY <1>1, Invariance, PTL DEF NeverOvershoots, Spec
-----------------------------------------------------------------------------
(* What the live copy copied leaves the passes nothing to do. *)

\* Every trade is copied at once, and at most one read misses it.
AllCopied == scene.faults \subseteq {"client", "crash"} /\ scene.maxHidden <= 1

\* The pass before had no candidates.
NoCandidates ==
  /\ openPrev = {} /\ closePrev = {} /\ trimPrev = {}
  /\ \A o \in Owner : topupPrev[o] = 0

\* The follower is where the master is, as the snapshots say.
InStep ==
  /\ \A o \in Owner : held[o] = master[o] /\ entry[o] = 0 /\ ~closing[o] /\ ~stop[o]
  /\ queue # <<>> => pass.at = "idle" /\ Len(queue) = 1 /\ Head(queue)[2] = master[Head(queue)[1]]
  /\ pass.at # "idle" => pass.msz = master[pass.owner]

\* Only the read that misses makes a candidate, and no pass before it did.
Unconfirmed ==
  /\ pass.at \in {"idle", "taken", "judge"}
  /\ hidden = 0 => NoCandidates
  /\ pass.at = "judge" =>
       /\ pass.entry = 0 /\ ~pass.closing /\ ~pass.stop
       /\ pass.seen # held[pass.owner] => hidden # 0 /\ NoCandidates

LEMMA NothingFails ==
  ASSUME AllCopied
  PROVE  /\ \A f \in AllFaults \ {"client", "crash"} : ~Fault(f) /\ ~Fails(f)
         /\ scene.maxHidden <= 1
BY DEF AllCopied, Fault, Fails

LEMMA MovesInStep ==
  ASSUME TypeOK, AllCopied, InStep, Unconfirmed, NEW o \in Owner, Moving(o), UNCHANGED scene
  PROVE  InStep' /\ Unconfirmed'
<1>1. Quiet /\ UNCHANGED <<queue, latches, pass>>
  BY MovingLeaves, NothingFails DEF AllFaults
<1>2. UNCHANGED hidden
  BY DEF Moving, Moves, MasterTrades, MasterWorks, EntryRests, EntryFills, CloseFills, StopRests,
         StopFires, MasterStopFires
<1>3. MasterTrades(o)
  <2>1. ~MasterWorks(o) /\ ~EntryRests(o) /\ ~StopRests(o) /\ ~MasterStopFires(o)
    BY NothingFails DEF AllFaults, MasterWorks, EntryRests, StopRests, MasterStopFires
  <2>2. ~EntryFills(o) /\ ~CloseFills(o) /\ ~StopFires(o)
    BY DEF InStep, EntryFills, CloseFills, StopFires
  <2> QED
    BY <2>1, <2>2 DEF Moving
<1>4. PICK m \in Size : /\ master' = [master EXCEPT ![o] = m]
                       /\ held' = [held EXCEPT ![o] = held[o] + (m - master[o])]
  BY <1>3, NothingFails DEF MasterTrades, HoldsNow, AllFaults
<1>5. UNCHANGED <<entry, closing, stop>>
  BY <1>3 DEF MasterTrades
<1>6. \A x \in Owner : held'[x] = master'[x]
  <2>1. m \in Int /\ master[o] \in Int /\ held[o] = master[o]
    BY TypeParts, SceneBounds DEF InStep, WorldOK
  <2>2. held \in [Owner -> Int] /\ master \in [Owner -> Size]
    BY TypeParts DEF WorldOK, AccountOK
  <2> QED
    BY <1>4, <2>1, <2>2 DEF InStep
<1>7. InStep'
  BY <1>1, <1>5, <1>6 DEF InStep, Quiet
<1>8. Unconfirmed'
  BY <1>1, <1>2 DEF Unconfirmed, Quiet, NoCandidates, latches
<1> QED
  BY <1>7, <1>8

\* A pass that read the position as it is has no candidate.
LEMMA JudgesInStep ==
  ASSUME TypeOK, AllCopied, InStep, Unconfirmed, Judging, UNCHANGED scene
  PROVE  InStep' /\ Unconfirmed'
<1>1. /\ pass.at = "judge" /\ UNCHANGED <<master, held, entry, closing, stop, queue, hidden>>
      /\ pass.owner \in Owner /\ pass.msz = master[pass.owner]
      /\ pass.msz \in Int /\ pass.seen \in Int
  BY JudgingLeaves, TypeParts, SceneBounds DEF InStep, PassOK, world, account
<1>2. queue = <<>>
  BY <1>1 DEF InStep
<1>3. CASE pass.seen = held[pass.owner]
  <2>1. pass.seen = pass.msz /\ (pass.seen # 0 => SameSide(pass.seen, pass.msz))
    BY <1>1, <1>3 DEF InStep, SameSide
  <2>2. \A lots, a : Reads(pass, lots, a) => lots = Abs(pass.msz)
    BY NothingFails DEF Reads, Share, AllFaults
  <2>3. \A a : ~Mismatched(pass, Abs(pass.msz), a)
    BY <1>1, <2>1, AbsOf, DeadbandIsALot DEF Mismatched
  <2>4. ~Trim /\ ~TopUp /\ ~LeaveShort
    BY <2>2, <2>3 DEF Trim, TopUp, LeaveShort, Over, Under
  <2>5. ~Close /\ ~Defer
    BY <2>1 DEF Close, Defer, Orphan
  <2>6. ~Open
    BY <2>1 DEF Open, Missing
  <2>7. LeaveSettled \/ LeaveFlat
    BY <2>4, <2>5, <2>6 DEF Judging
  <2>8. Leaves({}, {}, {}, NoTopup)
    BY <2>7 DEF LeaveSettled, LeaveFlat
  <2>9. pass'.at = "idle" /\ NoCandidates'
    BY <2>8, IdleAt DEF Leaves, Candidates, NoTopup, NoCandidates
  <2> QED
    BY <1>1, <1>2, <2>9 DEF InStep, Unconfirmed
<1>4. CASE pass.seen # held[pass.owner]
  <2>1. hidden # 0 /\ NoCandidates
    BY <1>1, <1>4 DEF Unconfirmed
  <2>2. pass' = Idle
    <3>1. \A key : ~Latched(key, trimPrev) /\ ~Latched(key, closePrev) /\ ~Latched(key, openPrev)
      BY <2>1 DEF NoCandidates, Latched
    <3>2. topupPrev[pass.owner] = 0
      BY <1>1, <2>1 DEF NoCandidates
    <3> QED
      BY <3>1, <3>2 DEF Judging, Trim, TopUp, LeaveShort, LeaveSettled, Close, Defer, Open,
                        LeaveFlat, Leaves
  <2> QED
    BY <1>1, <1>2, <2>1, <2>2, IdleAt DEF InStep, Unconfirmed
<1> QED
  BY <1>3, <1>4

LEMMA PassesInStep ==
  ASSUME TypeOK, AllCopied, InStep, Unconfirmed, UNCHANGED scene,
         Take \/ Skip \/ Read \/ CancelStuck \/ Order
  PROVE  InStep' /\ Unconfirmed'
<1>1. CASE Take
  <2>1. /\ queue # <<>> /\ queue \in Seq(Owner \X Size)
        /\ pass.at = "idle" /\ queue' = Tail(queue)
        /\ UNCHANGED <<master, held, entry, closing, stop, latches, hidden>>
    BY <1>1, TypeParts DEF Take, world, account, QueueOK
  <2>2. Len(queue) = 1 /\ Head(queue)[2] = master[Head(queue)[1]]
    BY <2>1 DEF InStep
  <2>3. queue' = <<>>
    BY <2>1, <2>2
  <2>4. \/ pass' = [Idle EXCEPT !.at = "taken", !.owner = Head(queue)[1], !.msz = Head(queue)[2]]
        \/ pass' = pass
    BY <1>1 DEF Take
  <2>5. \/ pass'.at = "taken" /\ pass'.msz = master[pass'.owner]
        \/ pass'.at = "idle"
    BY <2>1, <2>2, <2>4 DEF Idle
  <2>6. InStep'
    BY <2>1, <2>3, <2>5 DEF InStep
  <2>7. Unconfirmed'
    BY <2>1, <2>5 DEF Unconfirmed, NoCandidates, latches
  <2> QED
    BY <2>6, <2>7
<1>2. CASE Skip
  <2>1. /\ pass' = Idle /\ UNCHANGED <<master, held, entry, closing, stop, queue, hidden>>
        /\ pass.at # "idle"
    BY <1>2 DEF Skip, world, account
  <2>2. NoCandidates'
    BY <1>2 DEF Skip, Candidates, NoTopup, NoCandidates
  <2> QED
    BY <2>1, <2>2, IdleAt DEF InStep, Unconfirmed
<1>3. CASE Read
  <2> DEFINE o == pass.owner
  <2>1. /\ pass.at = "taken" /\ o \in Owner
        /\ UNCHANGED <<master, held, entry, closing, stop, queue, latches>>
    BY <1>3, TypeParts DEF Read, world, account, PassOK
  <2>2. PICK seen \in {0, held[o], before[o]}, listed \in BOOLEAN :
          /\ Answers(o, seen, listed)
          /\ pass' = [pass EXCEPT !.at = "judge", !.seen = seen,
                                  !.entry = IF listed THEN entry[o] ELSE 0,
                                  !.closing = listed /\ closing[o],
                                  !.stop = listed /\ stop[o]]
    BY <1>3 DEF Read
  <2>3. /\ pass'.at = "judge" /\ pass'.owner = o /\ pass'.msz = pass.msz /\ pass'.seen = seen
        /\ pass'.entry = (IF listed THEN entry[o] ELSE 0)
        /\ pass'.closing = (listed /\ closing[o]) /\ pass'.stop = (listed /\ stop[o])
    BY <2>2, TypeParts DEF PassOK
  <2>4. pass'.entry = 0 /\ ~pass'.closing /\ ~pass'.stop
    BY <2>1, <2>3 DEF InStep
  <2>5. \/ seen = held[o] /\ UNCHANGED hidden
        \/ hidden = 0 /\ hidden' = 1
    <3>1. ~Fails("follower") /\ ~Fails("orders")
      BY NothingFails DEF AllFaults
    <3>2. scene.maxHidden \in Nat /\ scene.maxHidden <= 1 /\ hidden \in 0 .. scene.maxHidden
      BY NothingFails, TypeParts, SceneBounds DEF BoundsOK
    <3>3. \/ seen = held[o] /\ UNCHANGED hidden
          \/ hidden < scene.maxHidden /\ hidden' = hidden + 1
      BY <2>2, <3>1 DEF Answers
    <3> QED
      BY <3>2, <3>3
  <2>6. InStep'
    BY <2>1, <2>3 DEF InStep
  <2>7. Unconfirmed'
    BY <2>1, <2>3, <2>4, <2>5 DEF Unconfirmed, NoCandidates, latches
  <2> QED
    BY <2>6, <2>7
<1>4. ~CancelStuck /\ ~Order
  BY DEF CancelStuck, Order, Unconfirmed
<1> QED
  BY <1>1, <1>2, <1>3, <1>4

LEMMA WaitsInStep ==
  ASSUME TypeOK, AllCopied, InStep, Unconfirmed, UNCHANGED scene,
         Tick \/ Restart \/ \E o \in Owner : Push(o) \/ GrowOlder(o) \/ MarkHandsOff(o)
  PROVE  InStep' /\ Unconfirmed'
<1>1. CASE Tick \/ \E o \in Owner : GrowOlder(o) \/ MarkHandsOff(o)
  <2>1. UNCHANGED <<master, held, entry, closing, stop, queue, latches, pass, hidden>>
    BY <1>1 DEF Tick, GrowOlder, MarkHandsOff, account, bounds
  <2> QED
    BY <2>1 DEF InStep, Unconfirmed, NoCandidates, latches
<1>2. CASE Restart
  <2>1. /\ UNCHANGED <<master, held, entry, closing, stop, queue, hidden>>
        /\ pass' = Idle /\ NoCandidates'
    BY <1>2 DEF Restart, account, NoCandidates
  <2> QED
    BY <2>1, IdleAt DEF InStep, Unconfirmed
<1>3. ASSUME NEW o \in Owner, Push(o)
      PROVE  InStep' /\ Unconfirmed'
  <2>1. Quiet /\ UNCHANGED <<master, held, entry, closing, stop, latches, pass, hidden>>
    BY <1>3, NothingFails DEF Push, world, account, AllFaults
  <2>2. queue' = << <<o, master[o]>> >>
    <3>1. PICK failed \in {FALSE} \union {Fails("master")} :
            queue' = Append(queue, <<o, IF failed THEN 0 ELSE master[o]>>)
      BY <1>3 DEF Push
    <3>2. ~failed
      BY <3>1, NothingFails DEF AllFaults
    <3> QED
      BY <2>1, <3>1, <3>2 DEF Quiet
  <2> QED
    BY <2>1, <2>2 DEF InStep, Unconfirmed, NoCandidates, latches, Quiet
<1> QED
  BY <1>1, <1>2, <1>3

\* A pass never sends an order while the live copy copies every trade of the
\* master, although one read may miss the last of them: what that read makes
\* a candidate no other pass sees, and without one in the pass before nothing
\* is sent.
THEOREM NothingToReconcile == Spec => []QuietWhenCopied
<1> DEFINE Inv == TypeOK /\ (AllCopied => InStep /\ Unconfirmed)
<1>1. Init => Inv
  <2> SUFFICES ASSUME Init
               PROVE  InStep /\ Unconfirmed
    BY InitTyped
  <2> QED
    BY DEF Init, InStep, Unconfirmed, NoCandidates, Idle
<1>2. Inv /\ [Next]_vars => Inv'
  <2> SUFFICES ASSUME Inv, [Next]_vars
               PROVE  Inv'
    OBVIOUS
  <2>1. TypeOK' /\ UNCHANGED scene
    BY TypeKept DEF Next, vars
  <2>2. SUFFICES ASSUME AllCopied
                 PROVE  InStep' /\ Unconfirmed'
    BY <2>1 DEF AllCopied
  <2>3. CASE UNCHANGED vars
    BY <2>2, <2>3 DEF vars, world, account, latches, bounds, InStep, Unconfirmed, NoCandidates
  <2>4. CASE Next
    BY <2>1, <2>2, <2>4, MovesInStep, JudgesInStep, PassesInStep, WaitsInStep
    DEF Next, Pass, Moving, Judging
  <2> QED
    BY <2>3, <2>4
<1>3. Inv => QuietWhenCopied
  BY DEF QuietWhenCopied, AllCopied, Unconfirmed
<1> QED
  BY <1>1, <1>2, <1>3, PTL DEF Spec
=============================================================================
