------------------------ MODULE OrderExecutorProofs ------------------------
(***************************************************************************)
(* Proofs about OrderExecutor, for every size and every number of polls:   *)
(* its types, and that a copy whose requests are answered and whose orders *)
(* can be read never markets over a live limit, never overfills, records   *)
(* what happened, and implements the abstract promise of ForceOnce.        *)
(***************************************************************************)
EXTENDS OrderExecutor, TLAPS

USE ExecutorAssumption

\* The market order is for no more than the executor believed to be missing.
Counted == TypeOK /\ (pc = "confirm" => sent <= Size - known)

Before == {"insert", "risk", "limit"}

\* Where the executor stands, against what the exchange did.
Control ==
  /\ pc \in Before => limit = "none" /\ known = 0
  /\ pc = "insert" => row = "none"
  /\ row = "failed" => pc = "done"
  /\ limit = "none" => lfilled = 0
  /\ limit = "closed" => lfilled = Size
  /\ limit = "open" => lfilled < Size
  /\ pc \in Before \union {"poll", "cancel", "recount", "market"} => sent = 0
  /\ pc \in {"poll", "cancel", "recount"} => known <= lfilled /\ limit # "none"
  /\ pc = "recount" => limit # "open"
  /\ pc = "market" => limit # "open" /\ known = lfilled /\ known < Size
  /\ pc = "confirm" => limit # "open" /\ known = lfilled /\ sent > 0
  /\ pc \in {"revive", "record"} => limit # "open" /\ known = lfilled + mfilled
  /\ pc = "done" => limit # "open"
  /\ sent > 0 => limit # "open"
  /\ lfilled + sent <= Size
  /\ RecordMatchesExchange

IInv == Counted /\ (Answered => Control)

\* The initial state satisfies the invariant.
LEMMA InitInv == Init => IInv
<1> SUFFICES ASSUME Init PROVE IInv
  OBVIOUS
<1>1. account \in {"active", "paused"}
  BY DEF Init
<1>2. polls \in 0 .. MaxPolls /\ mfilled \in 0 .. sent /\ sent \in 0 .. Size
  BY DEF Init
<1>3. Counted
  BY <1>1, <1>2 DEF Init, TypeOK, PC, Counted
<1>4. Control
  BY DEF Init, Control, Before, RecordMatchesExchange
<1>5. QED BY <1>3, <1>4 DEF IInv

\* What Record writes, in one attempt or two, or that it writes nothing.
LEMMA RecordWrites ==
  ASSUME Record, Counted
  PROVE  \/ /\ pc' = "done" /\ short' = (rowQty' < Size)
            /\ \/ known = 0 /\ row' = "failed" /\ rowQty' = rowQty
               \/ known = Size /\ row' = "filled" /\ rowQty' = known
               \/ known \in 1 .. (Size - 1) /\ row' = "partial" /\ rowQty' = known
               \/ known \in 1 .. (Size - 1) /\ row' = "filled" /\ rowQty' = known /\ schema' = FALSE
         \/ UNCHANGED <<row, rowQty, short>> /\ pc' = "raised"
<1>1. CASE known = 0
  <2>1. Written("failed", rowQty) \/ Unwritten
    BY <1>1 DEF Record
  <2>2. QED BY <1>1, <2>1 DEF Written, Unwritten
<1>2. CASE known = Size
  <2>1. Written("filled", known) \/ Unwritten
    BY <1>2 DEF Record
  <2>2. QED BY <1>2, <2>1 DEF Written, Unwritten
<1>3. CASE known \in 1 .. (Size - 1)
  <2>1. \/ Written("partial", known)
        \/ schema' = FALSE /\ Written("filled", known)
        \/ Unwritten
    BY <1>3 DEF Record
  <2>2. QED BY <1>3, <2>1 DEF Written, Unwritten
<1>4. known = 0 \/ known = Size \/ known \in 1 .. (Size - 1)
  BY DEF Counted, TypeOK
<1>5. QED BY <1>1, <1>2, <1>3, <1>4

\* Every step keeps the types and the count.
LEMMA StepCounted == Counted /\ [Next]_vars => Counted'
<1> SUFFICES ASSUME Counted, [Next]_vars PROVE Counted'
  OBVIOUS
<1>0. faults' \in Scenarios
  BY DEF Counted, TypeOK, Next, vars
<1> USE <1>0 DEF Counted, TypeOK, PC, exchange, database, local
<1>1. CASE UNCHANGED vars
  BY <1>1 DEF vars
<1>2. CASE LimitFills
  <2>1. lfilled' \in 0 .. Size /\ limit' \in {"open", "closed"}
    BY <1>2 DEF LimitFills
  <2>2. QED BY <1>2, <2>1 DEF LimitFills
<1>3. CASE Pause \/ Insert \/ RiskCheck \/ PlaceLimit
  <2>1. CASE Pause
    BY <2>1 DEF Pause
  <2>2. CASE Insert
    <3>1. \/ row' = "pending" /\ rowQty' = Size /\ pc' = "risk"
          \/ row' = row /\ rowQty' = rowQty /\ pc' = "done"
      BY <2>2 DEF Insert, Inserted, NotInserted
    <3>2. schema' \in BOOLEAN /\ UNCHANGED <<exchange, account, short, local>>
      BY <2>2 DEF Insert
    <3>3. QED BY <3>1, <3>2
  <2>3. CASE RiskCheck \/ PlaceLimit
    BY <2>3 DEF RiskCheck, PlaceLimit
  <2>4. QED BY <1>3, <2>1, <2>2, <2>3
<1>4. CASE Poll \/ Recount
  <2>1. \A f \in Confirmed(lfilled) : Greatest(known, f) \in 0 .. Size
    BY DEF Confirmed, Unknown, Greatest
  <2>2. known' \in 0 .. Size
    BY <1>4, <2>1 DEF Poll, Recount
  <2>3. polls' \in 0 .. MaxPolls
    BY <1>4 DEF Poll, Recount
  <2>4. QED BY <1>4, <2>2, <2>3 DEF Poll, Recount
<1>5. CASE CancelLimit
  BY <1>5 DEF CancelLimit
<1>6. CASE SendMarket
  <2>1. sent' \in 0 .. Size /\ mfilled' \in 0 .. sent'
    BY <1>6 DEF SendMarket
  <2>2. pc' = "confirm" => sent' = Size - known
    BY <1>6 DEF SendMarket
  <2>3. pc' \in {"confirm", "revive"}
    BY <1>6 DEF SendMarket
  <2>4. QED BY <1>6, <2>1, <2>2, <2>3 DEF SendMarket
<1>7. CASE ConfirmMarket
  <2>1. known' \in 0 .. Size
    BY <1>7 DEF ConfirmMarket, Confirmed, Unknown
  <2>2. QED BY <1>7, <2>1 DEF ConfirmMarket
<1>8. CASE Revive \/ Record
  <2>1. CASE Revive
    BY <2>1 DEF Revive
  <2>2. CASE Record
    <3>1. \/ row' \in {"failed", "filled", "partial"} /\ rowQty' \in {rowQty, known}
             /\ short' \in BOOLEAN /\ pc' = "done"
          \/ UNCHANGED <<row, rowQty, short>> /\ pc' = "raised"
      <4>1. (rowQty' < Size) \in BOOLEAN
        OBVIOUS
      <4>2. QED BY <2>2, <4>1, RecordWrites
    <3>2. schema' \in BOOLEAN /\ UNCHANGED <<exchange, account, local>>
      BY <2>2 DEF Record
    <3>3. QED BY <3>1, <3>2
  <2>3. QED BY <1>8, <2>1, <2>2
<1>9. QED
  BY <1>1, <1>2, <1>3, <1>4, <1>5, <1>6, <1>7, <1>8 DEF Next, Step

\* Every step of a copy that is answered keeps Control.
LEMMA StepControl ==
  ASSUME Answered, Counted, Control, [Next]_vars PROVE Control'
<1>0. Answered'
  BY DEF Answered, Next, vars
<1> USE DEF Counted, TypeOK, Control, Before, PC, RecordMatchesExchange, exchange, database, local
<1>1. CASE UNCHANGED vars
  BY <1>1 DEF vars
<1>2. CASE LimitFills
  <2>1. PICK n \in 1 .. (Size - lfilled) :
          /\ lfilled' = lfilled + n
          /\ limit' = IF lfilled + n = Size THEN "closed" ELSE "open"
    BY <1>2 DEF LimitFills
  <2>2. limit = "open" /\ sent = 0 /\ UNCHANGED <<sent, mfilled, database, local, pc>>
    BY <1>2 DEF LimitFills
  <2>3. lfilled' \in 0 .. Size
    BY <2>1
  <2>4. QED BY <2>1, <2>2, <2>3
<1>3. CASE Pause
  BY <1>3 DEF Pause
<1>4. CASE Insert \/ RiskCheck
  <2>1. lfilled + mfilled = 0
    BY <1>4 DEF Insert, RiskCheck, Inserted, NotInserted
  <2>2. CASE Insert
    BY <2>1, <2>2 DEF Insert, Inserted, NotInserted
  <2>3. CASE RiskCheck
    BY <2>1, <2>3 DEF RiskCheck
  <2>4. QED BY <1>4, <2>2, <2>3
<1>5. CASE PlaceLimit
  BY <1>5 DEF PlaceLimit, Answered, Fault
<1>6. CASE Poll
  <2>1. known' = Greatest(known, lfilled)
    BY <1>6 DEF Poll, Confirmed, Answered, Fault
  <2>2. known' \in Nat /\ known' <= lfilled
    BY <1>6, <2>1 DEF Poll, Greatest
  <2>3. polls' \in 0 .. MaxPolls
    BY <1>6 DEF Poll
  <2>4. \/ pc' = "revive" /\ known' >= Size
        \/ pc' \in {"poll", "cancel"}
    BY <1>6 DEF Poll
  <2>5. pc = "poll" /\ UNCHANGED <<exchange, database, cancelled>>
    BY <1>6 DEF Poll
  <2>6. mfilled = 0 /\ (lfilled = Size => limit # "open")
    BY <2>5
  <2>7. QED BY <2>2, <2>3, <2>4, <2>5, <2>6
<1>7. CASE CancelLimit
  BY <1>7 DEF CancelLimit, Answered, Fault
<1>8. CASE Recount
  <2>1. known' = Greatest(known, lfilled) /\ pc' = IF known' >= Size THEN "revive" ELSE "market"
    BY <1>8 DEF Recount, Confirmed, Answered, Fault, Unknown
  <2>2. known' = lfilled
    BY <1>8, <2>1 DEF Recount, Greatest
  <2>3. pc = "recount" /\ UNCHANGED <<exchange, database, polls, cancelled>>
    BY <1>8 DEF Recount
  <2>4. QED BY <2>1, <2>2, <2>3
<1>9. CASE SendMarket
  <2>1. \/ sent' = Size - known /\ mfilled' \in 0 .. sent' /\ pc' = "confirm"
        \/ UNCHANGED <<sent, mfilled>> /\ pc' = "revive"
    BY <1>9 DEF SendMarket, Answered, Fault
  <2>2. pc = "market" /\ UNCHANGED <<limit, lfilled, database, local>>
    BY <1>9 DEF SendMarket
  <2>3. sent' \in 0 .. Size /\ mfilled' \in 0 .. sent' /\ lfilled + sent' <= Size
    BY <2>1, <2>2
  <2>4. mfilled = 0 /\ known = lfilled
    BY <2>2
  <2>6. CASE pc' = "confirm"
    BY <2>1, <2>2, <2>3, <2>4, <2>6
  <2>7. CASE UNCHANGED <<sent, mfilled>> /\ pc' = "revive"
    BY <2>2, <2>3, <2>4, <2>7
  <2>8. QED BY <2>1, <2>6, <2>7
<1>10. CASE ConfirmMarket
  <2>1. known' = known + mfilled
    BY <1>10 DEF ConfirmMarket, Confirmed, Answered, Fault, Unknown
  <2>2. QED BY <1>10, <2>1 DEF ConfirmMarket
<1>11. CASE Revive
  BY <1>11 DEF Revive
<1>12. CASE Record
  <2>1. UNCHANGED <<exchange, account, local>> /\ pc = "record"
    BY <1>12 DEF Record
  <2>2. known = lfilled + mfilled /\ limit # "open" /\ known \in 0 .. Size
    BY <2>1
  <2>3. CASE UNCHANGED <<row, rowQty, short>> /\ pc' = "raised"
    BY <2>1, <2>3
  <2>4. CASE pc' = "done" /\ short' = (rowQty' < Size)
    <3>1. row' \in {"failed", "filled", "partial"}
      BY <1>12, <2>4, RecordWrites
    <3>2. row' \in {"filled", "partial"} => rowQty' = known
      BY <1>12, <2>4, RecordWrites
    <3>3. row' = "partial" => rowQty' < Size
      BY <1>12, <2>2, <2>4, RecordWrites
    <3>4. row' = "filled" /\ schema' => rowQty' = Size
      BY <1>12, <2>4, RecordWrites
    <3>5. row' = "failed" => known = 0
      BY <1>12, <2>4, RecordWrites
    <3>6. RecordMatchesExchange'
      BY <2>1, <2>2, <2>4, <3>1, <3>2, <3>3, <3>4, <3>5
    <3>7. QED BY <2>1, <2>2, <2>4, <3>6
  <2>5. QED BY <1>12, <2>3, <2>4, RecordWrites
<1>13. QED
  BY <1>1, <1>2, <1>3, <1>4, <1>5, <1>6, <1>7, <1>8, <1>9, <1>10, <1>11, <1>12
  DEF Next, Step

\* Status, quantities, polls and counts of a copy (OrderExecutor.execute) stay in
\* their ranges, whatever the exchange does: it never believes in more lots than
\* the copy has.
THEOREM TypeCorrect == Spec => []TypeOK
<1>1. Init => Counted
  BY InitInv DEF IInv
<1>2. Counted => TypeOK
  BY DEF Counted
<1>3. QED BY <1>1, <1>2, StepCounted, PTL DEF Spec

\* The invariant that carries the two theorems below.
LEMMA Invariance == Spec => []IInv
<1>1. IInv /\ [Next]_vars => IInv'
  <2> SUFFICES ASSUME IInv, [Next]_vars PROVE IInv'
    OBVIOUS
  <2>1. Answered' <=> Answered
    BY DEF Answered, Next, vars
  <2>2. QED BY <2>1, StepCounted, StepControl DEF IInv
<1>2. QED BY <1>1, InitInv, PTL DEF Spec

\* "Cancel FIRST, then count": the limit and the market remainder together
\* never exceed the size of the copy, and the remainder is sent only when the
\* limit can no longer fill.
THEOREM CopyNeverOverfills == Spec => [](NeverOverfills /\ NoMarketOverLiveLimit)
<1>1. IInv => NeverOverfills /\ NoMarketOverLiveLimit
  BY DEF IInv, Control, NeverOverfills, NoMarketOverLiveLimit
<1>2. QED BY <1>1, Invariance, PTL

\* The row of a copy that was answered says what the exchange did, whether the
\* first write of _insert_copy_row and of _write_copy_status is accepted or the
\* second: its lots, whether they fell short, and "filled" for a shortfall only
\* after the database has refused a write.
THEOREM RowIsHonest == Spec => []RecordMatchesExchange
<1>1. IInv => RecordMatchesExchange
  BY DEF IInv, Control, RecordMatchesExchange
<1>2. QED BY <1>1, Invariance, PTL
-----------------------------------------------------------------------------
\* What the executor believes was ordered for, whatever is lost or unreadable:
\* up to the market order it has counted the limit alone.
Limited == {"insert", "risk", "limit", "poll", "cancel", "recount", "market"}

Claims ==
  /\ pc \in Limited => sent = 0
  /\ pc = "confirm" => sent = Size - known
  /\ pc \in Limited \union {"confirm"} => known <= lfilled
  /\ pc # "done" => row \notin {"filled", "partial"}
  /\ known <= lfilled + sent
  /\ NeverClaimsUnordered

\* What was covered stays covered when the limit fills.
LEMMA Grows ==
  ASSUME NEW n \in Nat, NEW l \in Nat, NEW k \in Nat, NEW m \in Nat, n <= l + k, l < m
  PROVE  n <= m + k
  OBVIOUS

\* What the limit covers is covered with the market order beside it.
LEMMA Adds ==
  ASSUME NEW n \in Nat, NEW l \in Nat, NEW k \in Nat, n <= l PROVE n <= l + k
  OBVIOUS

\* Every step keeps Claims, under every disturbance.
LEMMA StepClaims == Counted /\ Claims /\ [Next]_vars => Claims'
<1> SUFFICES ASSUME Counted, Claims, [Next]_vars PROVE Claims'
  OBVIOUS
<1> USE DEF Counted, TypeOK, Claims, Limited, NeverClaimsUnordered, PC, exchange, database, local
<1>1. CASE UNCHANGED vars
  BY <1>1 DEF vars
<1>2. CASE LimitFills
  <2>1. lfilled' \in Nat /\ lfilled < lfilled'
    BY <1>2 DEF LimitFills
  <2>2. UNCHANGED <<sent, row, rowQty, known, pc>>
    BY <1>2 DEF LimitFills
  <2>3. lfilled \in Nat /\ sent \in Nat /\ known \in Nat /\ rowQty \in Nat
    OBVIOUS
  <2>4. (pc \in Limited => sent = 0)'
    BY <2>1, <2>2
  <2>5. (pc = "confirm" => sent = Size - known)'
    BY <2>1, <2>2
  <2>6. (pc \in Limited \union {"confirm"} => known <= lfilled)'
    BY <2>1, <2>2, <2>3
  <2>7. (pc # "done" => row \notin {"filled", "partial"})'
    BY <2>1, <2>2
  <2>8. (known <= lfilled + sent)'
    BY <2>1, <2>2, <2>3, Grows
  <2>9. NeverClaimsUnordered'
    BY <2>1, <2>2, <2>3, Grows
  <2>10. QED BY <2>4, <2>5, <2>6, <2>7, <2>8, <2>9
<1>3. CASE Pause \/ Insert \/ RiskCheck \/ PlaceLimit
  BY <1>3 DEF Pause, Insert, RiskCheck, PlaceLimit, Inserted, NotInserted
<1>4. CASE Poll \/ Recount
  <2>1. \A f \in Confirmed(lfilled) : Greatest(known, f) \in 0 .. lfilled
    BY <1>4 DEF Confirmed, Unknown, Greatest, Poll, Recount
  <2>2. known' \in 0 .. lfilled /\ pc \in {"poll", "recount"}
    BY <1>4, <2>1 DEF Poll, Recount
  <2>3. pc' \in {"poll", "cancel", "market", "revive"} /\ UNCHANGED <<lfilled, sent, row, rowQty>>
    BY <1>4 DEF Poll, Recount
  <2>4. sent' = 0 /\ row' \notin {"filled", "partial"} /\ pc' # "confirm"
    BY <2>2, <2>3
  <2>5. known' \in Nat /\ lfilled' \in Nat /\ known' <= lfilled' /\ lfilled' + 0 = lfilled'
    BY <2>2, <2>3
  <2>6. QED BY <2>4, <2>5
<1>5. CASE CancelLimit
  BY <1>5 DEF CancelLimit
<1>6. CASE SendMarket
  <2>1. sent' \in {0, Size - known} /\ (pc' = "confirm" => sent' = Size - known)
    BY <1>6 DEF SendMarket
  <2>2. pc' \in {"confirm", "revive"} /\ pc = "market" /\ UNCHANGED <<lfilled, row, rowQty, known>>
    BY <1>6 DEF SendMarket
  <2>3. row' \notin {"filled", "partial"} /\ pc' \notin Limited
    BY <2>2
  <2>4. known' \in Nat /\ lfilled' \in Nat /\ known' <= lfilled' /\ sent' \in Nat
    BY <2>1, <2>2
  <2>5. known' <= lfilled' + sent'
    BY <2>4, Adds
  <2>6. pc' = "confirm" => sent' = Size - known'
    BY <2>1, <2>2
  <2>7. QED BY <2>3, <2>4, <2>5, <2>6
<1>7. CASE ConfirmMarket
  <2>1. known' \in 0 .. (lfilled + sent)
    BY <1>7 DEF ConfirmMarket, Confirmed, Unknown
  <2>2. pc' = "revive" /\ pc = "confirm" /\ UNCHANGED <<lfilled, sent, row, rowQty>>
    BY <1>7 DEF ConfirmMarket
  <2>3. QED BY <2>1, <2>2
<1>8. CASE Revive \/ Record
  BY <1>8 DEF Revive, Record, Written, Unwritten
<1>9. QED
  BY <1>1, <1>2, <1>3, <1>4, <1>5, <1>6, <1>7, <1>8 DEF Next, Step

\* Whatever was lost or unreadable, the row of a copy never claims lots that no
\* order of that copy asked the exchange for: an accepted market order that
\* cannot be read is assumed filled for its own lots, not for the copy's.
THEOREM RowClaimsOnlyOrders == Spec => []NeverClaimsUnordered
<1>1. Init => Counted /\ Claims
  <2>1. Init => Claims
    BY DEF Init, Claims, Limited, NeverClaimsUnordered
  <2>2. QED BY <2>1, InitInv DEF IInv
<1>2. Claims => NeverClaimsUnordered
  BY DEF Claims
<1>3. QED BY <1>1, <1>2, StepCounted, StepClaims, PTL DEF Spec
-----------------------------------------------------------------------------
\* A step of an answered copy is a step of the promise, or none.
LEMMA PromiseStep ==
  ASSUME Answered, IInv, [Next]_vars
  PROVE  [Promise!Next]_(Promise!forceVars)
<1> USE DEF IInv, Counted, TypeOK, Control, Before, Promise!forceVars, exchange, database, local
<1> DEFINE Same == UNCHANGED <<Phase, lfilled, sent>>
<1>1. ASSUME Same PROVE [Promise!Next]_(Promise!forceVars)
  BY <1>1
<1>2. ASSUME UNCHANGED <<lfilled, sent>>, sent = 0, lfilled < Size,
             Phase = "resting", Phase' = "withdrawn"
      PROVE  [Promise!Next]_(Promise!forceVars)
  BY <1>2 DEF Promise!Next, Promise!Withdraw
<1>3. CASE UNCHANGED vars
  BY <1>3, <1>1 DEF vars, Phase
<1>4. CASE LimitFills
  <2>1. PICK n \in 1 .. (Size - lfilled) :
          /\ lfilled' = lfilled + n
          /\ limit' = IF lfilled + n = Size THEN "closed" ELSE "open"
    BY <1>4 DEF LimitFills
  <2>2. limit = "open" /\ sent = 0 /\ sent' = 0
    BY <1>4 DEF LimitFills
  <2>3. Phase = "resting" /\ Phase' = "resting"
    BY <2>1, <2>2 DEF Phase
  <2>4. lfilled < Size /\ lfilled' \in (lfilled + 1) .. Size
    BY <2>1
  <2>5. QED BY <2>2, <2>3, <2>4 DEF Promise!Next, Promise!Fill
<1>5. CASE Pause \/ Poll \/ Recount
  BY <1>5, <1>1 DEF Pause, Poll, Recount, Phase
<1>6. CASE Insert
  BY <1>6, <1>1 DEF Insert, Phase, Inserted, NotInserted
<1>7. CASE RiskCheck \/ PlaceLimit
  <2>1. UNCHANGED <<lfilled, sent>> /\ sent = 0 /\ lfilled < Size /\ Phase = "resting"
    BY <1>7 DEF RiskCheck, PlaceLimit, Phase
  <2>2. Phase' \in {"resting", "withdrawn"}
    BY <2>1 DEF Phase
  <2>3. QED BY <2>1, <2>2, <1>1, <1>2
<1>8. CASE CancelLimit
  <2>1. Same \/ (limit = "open" /\ limit' = "cancelled")
    BY <1>8 DEF CancelLimit, Answered, Fault, Phase
  <2>2. CASE limit = "open" /\ limit' = "cancelled"
    BY <1>8, <2>2, <1>2 DEF CancelLimit, Phase
  <2>3. QED BY <2>1, <2>2, <1>1
<1>9. CASE SendMarket
  <2>1. sent = 0 /\ known = lfilled /\ lfilled < Size /\ Phase = "withdrawn"
    BY <1>9 DEF SendMarket, Phase
  <2>2. UNCHANGED <<limit, lfilled, row>>
    BY <1>9 DEF SendMarket
  <2>3. CASE sent' = Size - known
    <3>1. sent' \in 1 .. (Size - lfilled) /\ Phase' = "forced"
      BY <2>1, <2>3 DEF Phase
    <3>2. QED BY <2>1, <2>2, <3>1 DEF Promise!Next, Promise!Force
  <2>4. CASE sent' = sent /\ pc' = "revive"
    BY <1>9, <2>1, <2>2, <2>4, <1>1 DEF SendMarket, Phase
  <2>5. QED BY <1>9, <2>3, <2>4 DEF SendMarket
<1>10. CASE ConfirmMarket \/ Revive
  BY <1>10, <1>1 DEF ConfirmMarket, Revive, Phase
<1>11. CASE Record
  <2>1. sent = 0 /\ limit = "none" => known = 0
    BY <1>11 DEF Record, Written, Unwritten
  <2>2. QED BY <1>11, <2>1, <1>1 DEF Record, Phase, Written, Unwritten
<1>12. QED
  BY <1>3, <1>4, <1>5, <1>6, <1>7, <1>8, <1>9, <1>10, <1>11 DEF Next, Step

\* OrderExecutor.execute keeps the promise of ForceOnce when it is answered: one
\* market order at most, after the limit was withdrawn, for its remainder.
THEOREM CopyForcesOnce == Spec => CopiesOnce
<1>1. Init => Promise!Init
  BY DEF Init, Promise!Init, Phase
<1>2. IInv /\ [Next]_vars => [Answered => Promise!Next]_(Promise!forceVars)
  BY PromiseStep
<1>3. QED BY <1>1, <1>2, Invariance, PTL DEF Spec, CopiesOnce
=============================================================================
