-------------------------- MODULE EscalationProofs --------------------------
(***************************************************************************)
(* Proofs about Escalation, for any set of tasks, any size and any faults: *)
(* its types; that the successful cancel is the only licence to market,    *)
(* whatever Redis does; when the mirror can be read back, that the follower*)
(* never gets more than its order and that the tasks implement the promise *)
(* of ForceOnce; when orders can be read, that nothing is forced ahead of  *)
(* the master; and when positions can be read, that a forced exit stops at *)
(* the follower's share of what he still holds.                            *)
(***************************************************************************)
EXTENDS Escalation, TLAPS

USE EscalationAssumption

\* States of a task whose cancel has succeeded.
Licensed == {"resize", "cap", "market", "repoint"}

\* Whoever cancelled the mirror is alone, and only it goes on to market.
Licence ==
  /\ \A t \in Task : cancelled[t] => order = "cancelled"
  /\ \A t, u \in Task : cancelled[t] /\ cancelled[u] => t = u
  /\ \A t \in Task : pc[t] \in Licensed => cancelled[t]
  /\ \A t \in forcers : cancelled[t] /\ pc[t] \in {"repoint", "done"}

\* What is about to be marketed is what the cancelled mirror left unfilled.
Remainder ==
  /\ order = "open" => filled < Qty
  /\ forcers = {} => forced = 0
  /\ \A t \in Task : pc[t] \in {"resize", "cap", "market"} => want[t] <= Qty - filled
  /\ \A t \in Task : pc[t] = "market" => want[t] >= 1
  /\ forcers # {} => forced >= 1
  /\ filled + forced <= Qty

IInv == TypeOK /\ Licence /\ (~Fault("order_read") => Remainder)
-----------------------------------------------------------------------------
\* The initial state is well typed.
LEMMA InitTypes == Init => TypeOK
<1> SUFFICES ASSUME Init PROVE TypeOK
  OBVIOUS
<1>1. pc \in [Task -> PC]
  BY DEF Init, PC
<1>2. mpos \in Nat /\ held \in Int
  <2>1. CASE ReduceOnly
    BY <2>1 DEF Init
  <2>2. CASE ~ReduceOnly
    BY <2>2 DEF Init
  <2>3. QED BY <2>1, <2>2
<1>3. cancelled \in [Task -> BOOLEAN] /\ claim \in BOOLEAN
  BY DEF Init
<1>4. seen \in [Task -> Int] /\ want \in [Task -> 0 .. Qty]
  BY DEF Init
<1>5. filled \in 0 .. Qty /\ mfilled \in 0 .. Qty /\ mcache \in Int /\ forced \in Int
  BY DEF Init, NoValue
<1>6. scene \in Scenarios
  BY DEF Init
<1>7. QED BY <1>1, <1>2, <1>3, <1>4, <1>5, <1>6 DEF Init, TypeOK

\* Every step keeps the types.
LEMMA StepTypes == TypeOK /\ [Next]_vars => TypeOK'
<1> SUFFICES ASSUME TypeOK, [Next]_vars PROVE TypeOK'
  OBVIOUS
<1>0. scene' \in Scenarios
  BY DEF TypeOK, Next, vars
<1> USE <1>0 DEF TypeOK
<1>1. CASE UNCHANGED vars
  BY <1>1 DEF vars, exchange, local, history
<1>2. CASE Environment
  <2>1. CASE MirrorFills
    <3>1. PICK n \in 1 .. (Qty - filled) : filled' = filled + n /\ held' = Moved(held, n)
      BY <2>1 DEF MirrorFills
    <3>2. filled' \in 0 .. Qty /\ held' \in Int
      BY <3>1 DEF Moved
    <3>3. QED
      BY <2>1, <3>2 DEF MirrorFills, local, history
  <2>2. CASE MasterFills
    <3>1. PICK n \in 1 .. (Qty - mfilled) :
            (ReduceOnly => n <= mpos) /\ mfilled' = mfilled + n /\ mpos' = Moved(mpos, n)
      BY <2>2 DEF MasterFills
    <3>2. mfilled' \in 0 .. Qty /\ mpos' \in Nat
      BY <3>1 DEF Moved
    <3>3. QED
      BY <2>2, <3>2 DEF MasterFills, local, history
  <2>3. CASE MasterTrades \/ CancelledElsewhere
    BY <2>3 DEF MasterTrades, CancelledElsewhere, vars, exchange, local, history
  <2>4. CASE CachedElsewhere
    BY <2>4 DEF CachedElsewhere, exchange, local, history
  <2>5. CASE CacheExpires
    BY <2>5 DEF CacheExpires, NoValue, exchange, local, history
  <2>6. CASE ClaimExpires
    BY <2>6 DEF ClaimExpires, exchange, local, history
  <2>7. QED BY <1>2, <2>1, <2>2, <2>3, <2>4, <2>5, <2>6 DEF Environment
<1>3. ASSUME NEW t \in Task, Spawn(t) PROVE TypeOK'
  BY <1>3 DEF Spawn, At, Goto, PC, Unshared, exchange, history
<1>4. ASSUME NEW t \in Task, TaskStep(t) PROVE TypeOK'
  <2> USE DEF At, Goto, Finish, PC, Unshared, exchange, history
  <2>1. CASE Wake(t) \/ CheckMirror(t) \/ CheckMaster(t) \/ Excess(t)
    BY <2>1 DEF Wake, CheckMirror, CheckMaster, Excess
  <2>2. CASE Warrant(t) \/ Resize(t)
    <3>1. seen' \in [Task -> Int] /\ mcache' \in Int /\ aged' \subseteq Task
      BY <2>2 DEF Warrant, Resize, ReadMasterPosition, Answer
    <3>2. QED BY <2>2, <3>1 DEF Warrant, Resize
  <2>3. CASE Drop(t) \/ Cancel(t)
    BY <2>3 DEF Drop, Cancel, CancelRequest
  <2>4. CASE Claim(t) \/ Repoint(t)
    BY <2>4 DEF Claim, Repoint
  <2>5. CASE ReadBack(t)
    BY <2>5 DEF ReadBack, Answer
  <2>6. CASE Cap(t)
    <3>1. \A c \in Int : CloseQty(seen[t], c) \in Nat
      BY DEF CloseQty, Greatest
    <3>2. \A c \in Answer("position_read", held, 0) : c \in Int
      BY DEF Answer
    <3>3. want' \in [Task -> 0 .. Qty]
      BY <2>6, <3>1, <3>2 DEF Cap, Least
    <3>4. QED BY <2>6, <3>3 DEF Cap
  <2>7. CASE Market(t)
    BY <2>7 DEF Market, Moved
  <2>8. QED
    BY <1>4, <2>1, <2>2, <2>3, <2>4, <2>5, <2>6, <2>7 DEF TaskStep
<1>5. QED BY <1>1, <1>2, <1>3, <1>4 DEF Next

\* The variables keep their types: pc, claims, caches and counters of the
\* escalation tasks (_escalate_unfilled_limit and the handlers around it).
THEOREM TypeCorrect == Spec => []TypeOK
BY InitTypes, StepTypes, PTL DEF Spec
-----------------------------------------------------------------------------
\* A step of the environment touches no task and can only close the mirror.
LEMMA EnvironmentFrame ==
  ASSUME Environment
  PROVE  UNCHANGED <<pc, cancelled, want, seen, forced, forcers>>
         /\ (order' = order \/ order = "open")
<1>1. CASE MirrorFills
  BY <1>1 DEF MirrorFills, local, history
<1>2. CASE MasterFills \/ MasterTrades
  BY <1>2 DEF MasterFills, MasterTrades, local, history
<1>3. CASE CancelledElsewhere
  BY <1>3 DEF CancelledElsewhere, local, history
<1>4. CASE CachedElsewhere \/ CacheExpires \/ ClaimExpires
  BY <1>4 DEF CachedElsewhere, CacheExpires, ClaimExpires, exchange, local, history
<1>5. QED BY <1>1, <1>2, <1>3, <1>4 DEF Environment

\* The cancel request of _safe_cancel: who is told it succeeded found the
\* mirror open; nobody re-opens a mirror.
LEMMA CancelFrame ==
  ASSUME NEW ok \in BOOLEAN, CancelRequest(ok)
  PROVE  /\ ok => order = "open" /\ order' = "cancelled"
         /\ order' = order \/ (order = "open" /\ order' = "cancelled")
BY DEF CancelRequest

\* Every step keeps Licence: the cancel is the claim, the Redis key is not.
LEMMA LicenceStep ==
  ASSUME TypeOK, Licence, [Next]_vars PROVE Licence'
<1>1. CASE UNCHANGED vars
  BY <1>1 DEF Licence, vars, exchange, local, history
<1>2. CASE Environment
  BY <1>2, EnvironmentFrame DEF Licence
<1>3. ASSUME NEW t \in Task, Spawn(t) PROVE Licence'
  BY <1>3 DEF Licence, Licensed, TypeOK, Spawn, At, Goto, exchange, history
<1>4. ASSUME NEW t \in Task, TaskStep(t) PROVE Licence'
  <2> USE DEF Licence, Licensed, TypeOK, At, Goto, Finish, exchange, history
  <2>1. CASE Wake(t) \/ CheckMirror(t) \/ CheckMaster(t) \/ Warrant(t) \/ Excess(t)
    <3>1. PICK to \in PC \ Licensed : pc' = [pc EXCEPT ![t] = to]
      BY <2>1 DEF Wake, CheckMirror, CheckMaster, Warrant, Excess, PC
    <3>2. UNCHANGED <<order, cancelled, forcers>> /\ t \notin forcers
      BY <2>1 DEF Wake, CheckMirror, CheckMaster, Warrant, Excess
    <3>3. QED BY <3>1, <3>2
  <2>2. CASE Drop(t)
    <3>1. order' = order \/ order = "open"
      BY <2>2, CancelFrame DEF Drop
    <3>2. QED BY <2>2, <3>1 DEF Drop
  <2>3. CASE Claim(t)
    BY <2>3 DEF Claim
  <2>4. CASE Cancel(t)
    <3>1. PICK ok \in BOOLEAN :
            CancelRequest(ok) /\ cancelled' = [cancelled EXCEPT ![t] = ok]
      BY <2>4 DEF Cancel
    <3>2. ok => order = "open" /\ order' = "cancelled"
      BY <3>1, CancelFrame
    <3>3. order' = order \/ (order = "open" /\ order' = "cancelled")
      BY <3>1, CancelFrame
    <3>4. \A u \in Task : cancelled'[u] <=> (IF u = t THEN ok ELSE cancelled[u])
      BY <3>1
    <3>5. \A u \in Task : pc'[u] = IF u = t THEN "readback" ELSE pc[u]
      BY <2>4 DEF Cancel
    <3>6. t \notin forcers /\ forcers' = forcers
      BY <2>4 DEF Cancel
    <3>7. \A u \in Task : cancelled'[u] => order' = "cancelled"
      BY <3>2, <3>3, <3>4
    <3>8. \A u, v \in Task : cancelled'[u] /\ cancelled'[v] => u = v
      <4>1. CASE ok
        <5>1. \A u \in Task : ~cancelled[u]
          BY <4>1, <3>2
        <5>2. QED BY <5>1, <3>4
      <4>2. CASE ~ok
        BY <4>2, <3>4
      <4>3. QED BY <4>1, <4>2
    <3>9. \A u \in Task : pc'[u] \in Licensed => cancelled'[u]
      BY <3>4, <3>5
    <3>10. \A u \in forcers' : cancelled'[u] /\ pc'[u] \in {"repoint", "done"}
      BY <3>4, <3>5, <3>6
    <3>11. QED BY <3>7, <3>8, <3>9, <3>10
  <2>5. CASE ReadBack(t)
    BY <2>5 DEF ReadBack
  <2>6. CASE Resize(t) \/ Cap(t)
    BY <2>6 DEF Resize, Cap
  <2>7. CASE Market(t)
    BY <2>7 DEF Market
  <2>8. CASE Repoint(t)
    BY <2>8 DEF Repoint
  <2>9. QED
    BY <1>4, <2>1, <2>2, <2>3, <2>4, <2>5, <2>6, <2>7, <2>8 DEF TaskStep
<1>5. QED BY <1>1, <1>2, <1>3, <1>4 DEF Next

\* Cancelling is the claim: of all the tasks racing for one mirror at most one
\* markets it, and only once the mirror is cancelled, whatever the faults.
THEOREM CancellingIsTheClaim == Spec => [](OneForcer /\ NoMarketOverLiveLimit)
<1>1. Init => Licence
  BY DEF Init, Licence, Licensed
<1>2. TypeOK /\ Licence /\ [Next]_vars => Licence'
  BY LicenceStep
<1>3. TypeOK /\ Licence => OneForcer /\ NoMarketOverLiveLimit
  BY DEF TypeOK, Licence, OneForcer, NoMarketOverLiveLimit
<1>4. QED BY <1>1, <1>2, <1>3, TypeCorrect, PTL DEF Spec
-----------------------------------------------------------------------------
\* A task about to market is the first: nothing was marketed before it.
LEMMA FirstForce ==
  ASSUME TypeOK, Licence, Remainder, NEW t \in Task, pc[t] \in {"resize", "cap", "market"}
  PROVE  forcers = {} /\ forced = 0 /\ order = "cancelled" /\ want[t] <= Qty - filled
<1>1. cancelled[t] /\ order = "cancelled"
  BY DEF Licence, Licensed
<1>2. t \notin forcers
  BY DEF Licence
<1>3. \A u \in forcers : u = t
  BY <1>1 DEF Licence, TypeOK
<1>4. QED BY <1>1, <1>2, <1>3 DEF Remainder

\* Every step keeps Remainder when the mirror can be read back.
LEMMA RemainderStep ==
  ASSUME TypeOK, Licence, Remainder, [Next]_vars, ~Fault("order_read")
  PROVE  Remainder'
<1>1. CASE UNCHANGED vars
  BY <1>1 DEF Remainder, vars, exchange, local, history
<1>2. CASE Environment
  <2>1. CASE MirrorFills
    <3>1. PICK n \in 1 .. (Qty - filled) :
            /\ filled' = filled + n
            /\ order' = IF filled + n = Qty THEN "closed" ELSE "open"
      BY <2>1 DEF MirrorFills
    <3>2. order = "open" /\ UNCHANGED <<forced, forcers, pc, want>>
      BY <2>1 DEF MirrorFills, local, history
    <3>3. \A t \in Task : pc[t] \notin Licensed
      BY <3>2 DEF Licence
    <3>4. forcers = {} /\ forced = 0
      BY <3>2 DEF Licence, Remainder, TypeOK
    <3>5. order' = "open" => filled' < Qty
      BY <3>1 DEF TypeOK
    <3>6. filled' + forced' <= Qty
      BY <3>1, <3>2, <3>4 DEF TypeOK
    <3>7. QED BY <3>2, <3>3, <3>4, <3>5, <3>6 DEF Remainder, Licensed
  <2>2. CASE ~MirrorFills
    <3>1. UNCHANGED filled
      BY <1>2, <2>2 DEF Environment, MasterFills, MasterTrades, CancelledElsewhere,
                   CachedElsewhere, CacheExpires, ClaimExpires, exchange
    <3>2. order' = "open" => order = "open"
      BY <1>2, EnvironmentFrame
    <3>3. QED BY <1>2, <3>1, <3>2, EnvironmentFrame DEF Remainder
  <2>3. QED BY <2>1, <2>2
<1>3. ASSUME NEW t \in Task, Spawn(t) PROVE Remainder'
  BY <1>3 DEF Remainder, TypeOK, Spawn, At, Goto, exchange, history
<1>4. ASSUME NEW t \in Task, TaskStep(t) PROVE Remainder'
  <2> USE DEF TypeOK, At, Goto, Finish, exchange, history
  <2>1. CASE Wake(t) \/ CheckMirror(t) \/ CheckMaster(t) \/ Warrant(t) \/ Excess(t)
    <3>1. PICK to \in PC \ Licensed : pc' = [pc EXCEPT ![t] = to]
      BY <2>1 DEF Wake, CheckMirror, CheckMaster, Warrant, Excess, PC, Licensed
    <3>2. UNCHANGED <<order, filled, want, forced, forcers>>
      BY <2>1 DEF Wake, CheckMirror, CheckMaster, Warrant, Excess
    <3>3. QED BY <3>1, <3>2 DEF Remainder, Licensed
  <2>2. CASE Drop(t) \/ Cancel(t)
    <3>1. order' = "open" => order = "open"
      BY <2>2, CancelFrame DEF Drop, Cancel
    <3>2. pc' \in {[pc EXCEPT ![t] = "done"], [pc EXCEPT ![t] = "readback"]}
      BY <2>2 DEF Drop, Cancel
    <3>3. UNCHANGED <<filled, want, forced, forcers>>
      BY <2>2 DEF Drop, Cancel
    <3>4. QED BY <3>1, <3>2, <3>3 DEF Remainder
  <2>3. CASE Claim(t) \/ Repoint(t)
    BY <2>3 DEF Claim, Repoint, Remainder
  <2>4. CASE ReadBack(t)
    <3>1. want' = [want EXCEPT ![t] = Qty - filled]
      BY <2>4 DEF ReadBack, Answer, Fault
    <3>2. pc'[t] = "market" => want'[t] >= 1
      BY <2>4, <3>1 DEF ReadBack
    <3>3. \A u \in Task : u # t => pc'[u] = pc[u] /\ want'[u] = want[u]
      BY <2>4, <3>1 DEF ReadBack
    <3>4. UNCHANGED <<order, filled, forced, forcers>>
      BY <2>4 DEF ReadBack
    <3>5. QED BY <3>1, <3>2, <3>3, <3>4 DEF Remainder
  <2>5. CASE Resize(t)
    BY <2>5 DEF Resize, Remainder
  <2>6. CASE Cap(t)
    <3>1. want' = want \/ \E q \in Int : want' = [want EXCEPT ![t] = Least(@, q)]
      <4>1. \A c \in Int : CloseQty(seen[t], c) \in Nat
        BY DEF CloseQty, Greatest
      <4>2. \A c \in Answer("position_read", held, 0) : c \in Int
        BY DEF Answer
      <4>3. QED BY <2>6, <4>1, <4>2 DEF Cap
    <3>2. want'[t] <= want[t]
      BY <3>1 DEF Least
    <3>3. \A u \in Task : u # t => pc'[u] = pc[u] /\ want'[u] = want[u]
      BY <2>6, <3>1 DEF Cap
    <3>4. want[t] <= Qty - filled
      BY <2>6, FirstForce DEF Cap
    <3>5. pc'[t] = "market" => want'[t] >= 1
      <4>1. \/ pc' = [pc EXCEPT ![t] = "done"]
            \/ pc' = [pc EXCEPT ![t] = IF want'[t] < 1 THEN "done" ELSE "market"]
        BY <2>6 DEF Cap
      <4>2. want'[t] \in Int
        BY <3>1 DEF Least
      <4>3. QED BY <4>1, <4>2
    <3>6. UNCHANGED <<order, filled, forced, forcers>>
      BY <2>6 DEF Cap
    <3>7. want' \in [Task -> Int]
      BY <3>1 DEF Least
    <3>8. QED BY <3>2, <3>3, <3>4, <3>5, <3>6, <3>7 DEF Remainder
  <2>7. CASE Market(t)
    <3>1. pc[t] = "market" /\ forcers = {} /\ forced = 0 /\ order = "cancelled"
          /\ want[t] <= Qty - filled /\ want[t] >= 1
      BY <2>7, FirstForce DEF Market, Remainder
    <3>2. \A u \in Task : u # t => pc'[u] = pc[u]
      BY <2>7 DEF Market
    <3>3. pc'[t] \in {"repoint", "done"}
      BY <2>7 DEF Market
    <3>4. UNCHANGED <<order, filled, want>>
      BY <2>7 DEF Market
    <3>5. (forced' = want[t] /\ forcers' = {t}) \/ (forced' = 0 /\ forcers' = {})
      BY <2>7, <3>1 DEF Market
    <3>6. QED BY <3>1, <3>2, <3>3, <3>4, <3>5 DEF Remainder
  <2>8. QED
    BY <1>4, <2>1, <2>2, <2>3, <2>4, <2>5, <2>6, <2>7 DEF TaskStep
<1>5. QED BY <1>1, <1>2, <1>3, <1>4 DEF Next

\* The invariant that carries the two theorems below.
LEMMA Inductive == Spec => []IInv
<1>1. Init => IInv
  <2>1. Init => Licence
    BY DEF Init, Licence, Licensed
  <2>2. Init => Remainder
    BY DEF Init, Remainder
  <2>3. Init => TypeOK
    BY InitTypes
  <2>4. QED BY <2>1, <2>2, <2>3 DEF IInv
<1>2. IInv /\ [Next]_vars => IInv'
  <2> SUFFICES ASSUME IInv, [Next]_vars PROVE IInv'
    OBVIOUS
  <2>1. Fault("order_read")' <=> Fault("order_read")
    BY DEF Next, vars, Fault
  <2>2. TypeOK' /\ Licence'
    BY StepTypes, LicenceStep DEF IInv
  <2>3. ~Fault("order_read")' => Remainder'
    BY <2>1, RemainderStep DEF IInv
  <2>4. QED BY <2>2, <2>3 DEF IInv
<1>3. QED BY <1>1, <1>2, PTL DEF Spec

\* "Only forces when still warranted, and never double-fills": the mirror's
\* fills and the market order that replaces it never exceed the order, when the
\* read that follows the cancel succeeds.
THEOREM NoDoubleFill == Spec => []NeverDoubleFills
<1>1. IInv => NeverDoubleFills
  BY DEF IInv, Remainder, NeverDoubleFills
<1>2. QED BY <1>1, Inductive, PTL
-----------------------------------------------------------------------------
\* A step of the tasks is a step of the promise, or none.
LEMMA PromiseStep ==
  ASSUME IInv, [Next]_vars, ~Fault("order_read")
  PROVE  [Promise!Next]_(Promise!forceVars)
<1> USE DEF IInv, Promise!forceVars
<1> DEFINE Same == UNCHANGED <<order, filled, forced>>
<1>1. ASSUME Same PROVE [Promise!Next]_(Promise!forceVars)
  BY <1>1 DEF Phase
<1>2. ASSUME UNCHANGED <<filled, forced>>, order = "open", order' = "cancelled"
      PROVE [Promise!Next]_(Promise!forceVars)
  <2>1. forced = 0 /\ filled < Qty
    BY <1>2 DEF Remainder, Licence, TypeOK
  <2>2. Promise!Withdraw
    BY <1>2, <2>1 DEF Promise!Withdraw, Phase
  <2>3. QED BY <2>2 DEF Promise!Next
<1>3. CASE UNCHANGED vars
  BY <1>3, <1>1 DEF vars, exchange, history
<1>4. CASE MirrorFills
  <2>1. PICK n \in 1 .. (Qty - filled) : filled' = filled + n
    BY <1>4 DEF MirrorFills
  <2>2. order = "open" /\ order' \in {"open", "closed"} /\ forced' = forced
    BY <1>4 DEF MirrorFills, history
  <2>3. forced = 0
    BY <2>2 DEF Remainder, Licence, TypeOK
  <2>4. filled < Qty /\ filled' \in (filled + 1) .. Qty
    BY <2>1 DEF TypeOK
  <2>5. Phase = "resting" /\ Phase' = "resting"
    BY <2>2, <2>3 DEF Phase
  <2>6. Promise!Fill
    BY <2>2, <2>4, <2>5 DEF Promise!Fill
  <2>7. QED BY <2>6 DEF Promise!Next
<1>5. CASE CancelledElsewhere
  BY <1>5, <1>2 DEF CancelledElsewhere, history
<1>6. CASE MasterFills \/ MasterTrades \/ CachedElsewhere \/ CacheExpires \/ ClaimExpires
  BY <1>6, <1>1 DEF MasterFills, MasterTrades, CachedElsewhere, CacheExpires,
                ClaimExpires, exchange, history
<1>7. ASSUME NEW t \in Task, Spawn(t) PROVE [Promise!Next]_(Promise!forceVars)
  BY <1>7, <1>1 DEF Spawn, exchange, history
<1>8. ASSUME NEW t \in Task, TaskStep(t) PROVE [Promise!Next]_(Promise!forceVars)
  <2>1. CASE Drop(t) \/ Cancel(t)
    <3>1. Same \/ (UNCHANGED <<filled, forced>> /\ order = "open" /\ order' = "cancelled")
      BY <2>1, CancelFrame DEF Drop, Cancel, history
    <3>2. QED BY <3>1, <1>1, <1>2
  <2>2. CASE Market(t)
    <3>1. forced = 0 /\ order = "cancelled" /\ want[t] \in 1 .. (Qty - filled)
      BY <2>2, FirstForce DEF Market, At, Remainder, TypeOK
    <3>2. UNCHANGED <<order, filled>> /\ forced' \in {want[t], 0}
      BY <2>2, <3>1 DEF Market, Goto, Finish, TypeOK
    <3>3. CASE forced' = 0
      BY <3>1, <3>2, <3>3, <1>1
    <3>4. CASE forced' = want[t]
      <4>1. Phase = "withdrawn" /\ Phase' = "forced"
        BY <3>1, <3>2, <3>4 DEF Phase
      <4>2. Promise!Force
        BY <3>1, <3>2, <3>4, <4>1 DEF Promise!Force
      <4>3. QED BY <4>2 DEF Promise!Next
    <3>5. QED BY <3>2, <3>3, <3>4
  <2>3. CASE Wake(t) \/ CheckMirror(t) \/ CheckMaster(t) \/ Warrant(t) \/ Excess(t)
    BY <2>3, <1>1 DEF Wake, CheckMirror, CheckMaster, Warrant, Excess, exchange, history
  <2>4. CASE Claim(t) \/ ReadBack(t) \/ Resize(t) \/ Cap(t) \/ Repoint(t)
    BY <2>4, <1>1 DEF Claim, ReadBack, Resize, Cap, Repoint, exchange, history
  <2>5. QED BY <1>8, <2>1, <2>2, <2>3, <2>4 DEF TaskStep
<1>9. QED
  BY <1>3, <1>4, <1>5, <1>6, <1>7, <1>8 DEF Next, Environment

\* The escalation tasks implement ForceOnce: one force, of a withdrawn order,
\* for no more than its remainder.
THEOREM ImplementsForceOnce == Spec => ForcesOnce
<1>1. Init => Promise!Init
  BY DEF Init, Promise!Init, Phase
<1>2. IInv /\ [Next]_vars
        => [~Fault("order_read") => Promise!Next]_(Promise!forceVars)
  BY PromiseStep
<1>3. QED BY <1>1, <1>2, Inductive, PTL DEF Spec, ForcesOnce
-----------------------------------------------------------------------------
\* Past the check of the master's order, that order is done; tasks that a fill
\* spawned never wait for less.
Past == {"warrant", "excess", "drop", "claim", "cancel", "readback", "resize",
         "cap", "market", "repoint"}

Patient ==
  /\ \A t \in Task : pc[t] \in Past => MasterDone
  /\ \A t \in Filled : pc[t] # "idle" => MasterDone
  /\ forcers # {} => MasterDone

\* Every step keeps Patient, when the master's order can be read.
LEMMA PatientStep ==
  ASSUME TypeOK, Patient, [Next]_vars, ~Fault("order_read")
  PROVE  Patient'
<1> USE DEF Patient, Past, TypeOK, MasterDone
<1>1. CASE UNCHANGED vars
  BY <1>1 DEF vars, exchange, local, history
<1>2. CASE Environment
  <2>1. UNCHANGED <<pc, forcers>>
    BY <1>2, EnvironmentFrame
  <2>2. MasterDone => MasterDone'
    <3>1. CASE MasterFills
      BY <3>1 DEF MasterFills
    <3>2. CASE MirrorFills \/ MasterTrades \/ CancelledElsewhere
      BY <3>2 DEF MirrorFills, MasterTrades, CancelledElsewhere
    <3>3. CASE CachedElsewhere \/ CacheExpires \/ ClaimExpires
      BY <3>3 DEF CachedElsewhere, CacheExpires, ClaimExpires, exchange
    <3>4. QED BY <1>2, <3>1, <3>2, <3>3 DEF Environment
  <2>3. QED BY <2>1, <2>2
<1>3. ASSUME NEW t \in Task, Spawn(t) PROVE Patient'
  BY <1>3 DEF Spawn, At, Goto, exchange, history
<1>4. ASSUME NEW t \in Task, TaskStep(t) PROVE Patient'
  <2> USE DEF At, Goto, Finish, exchange, history
  <2>1. CASE Wake(t)
    BY <2>1 DEF Wake
  <2>2. CASE CheckMirror(t)
    BY <2>2 DEF CheckMirror, Task
  <2>3. CASE CheckMaster(t)
    <3>0. UNCHANGED <<mfilled, forcers>> /\ pc[t] = "master"
      BY <2>3 DEF CheckMaster
    <3>1. CASE MasterDone
      BY <3>0, <3>1
    <3>2. ASSUME ~MasterDone PROVE pc' = [pc EXCEPT ![t] = "done"]
      <4>1. \A resting \in Answer("order_read", ~MasterDone, FALSE) : resting
        BY <3>2, Zenon DEF Answer
      <4>2. QED BY <2>3, <4>1, Zenon DEF CheckMaster
    <3>3. CASE ~MasterDone
      BY <3>0, <3>2, <3>3 DEF Task
    <3>4. QED BY <3>1, <3>3
  <2>4. CASE Warrant(t) \/ Excess(t) \/ Drop(t) \/ Claim(t) \/ Cancel(t)
    BY <2>4 DEF Warrant, Excess, Drop, Claim, Cancel
  <2>5. CASE ReadBack(t) \/ Resize(t) \/ Cap(t) \/ Market(t) \/ Repoint(t)
    BY <2>5 DEF ReadBack, Resize, Cap, Market, Repoint
  <2>6. QED BY <1>4, <2>1, <2>2, <2>3, <2>4, <2>5 DEF TaskStep
<1>5. QED BY <1>1, <1>2, <1>3, <1>4 DEF Next

\* No task forces ahead of the master: nothing is marketed while his own order
\* still rests, as long as orders can be read.
THEOREM WaitsForMaster == Spec => []NeverAheadOfMaster
<1>1. Init => Patient
  BY DEF Init, Patient, Past, Task
<1>2. TypeOK /\ (~Fault("order_read") => Patient) /\ [Next]_vars
        => (~Fault("order_read") => Patient)'
  <2> SUFFICES ASSUME TypeOK, ~Fault("order_read") => Patient, [Next]_vars,
                      ~Fault("order_read")'
               PROVE  Patient'
    OBVIOUS
  <2>1. ~Fault("order_read")
    BY DEF Fault, Next, vars
  <2>2. QED BY <2>1, PatientStep
<1>3. (~Fault("order_read") => Patient) => NeverAheadOfMaster
  BY DEF Patient, NeverAheadOfMaster
<1>4. QED BY <1>1, <1>2, <1>3, TypeCorrect, PTL DEF Spec
-----------------------------------------------------------------------------
\* What an exit knows when it is about to force: no more of the master than he
\* still holds, and no more lots than the follower has above that.
Cautious ==
  /\ mcache # NoValue => mcache >= mpos
  /\ \A t \in Task : pc[t] \in {"cap", "market"} => seen[t] >= mpos
  /\ \A t \in Task : pc[t] = "market" => held - want[t] >= seen[t]

\* What the follower is told to close never takes it below the target.
LEMMA CloseQtyStops ==
  ASSUME NEW target \in Int, NEW cur \in Int
  PROVE  /\ CloseQty(target, cur) \in Nat
         /\ CloseQty(target, cur) >= 1 => cur - CloseQty(target, cur) >= target
BY DEF CloseQty, Greatest

\* Every step of an exit keeps Cautious, when positions can be read.
LEMMA CautiousStep ==
  ASSUME TypeOK, Licence, Cautious, [Next]_vars, ReduceOnly, ~Fault("position_read")
  PROVE  Cautious'
<1> USE DEF Cautious, TypeOK
<1>1. CASE UNCHANGED vars
  BY <1>1 DEF vars, exchange, local, history
<1>2. CASE Environment
  <2>0. UNCHANGED <<pc, seen, want>>
    BY <1>2, EnvironmentFrame
  <2>1. CASE MirrorFills
    <3>1. \A t \in Task : pc[t] # "market"
      BY <2>1 DEF MirrorFills, Licence, Licensed
    <3>2. QED BY <2>0, <2>1, <3>1 DEF MirrorFills
  <2>2. CASE MasterFills
    <3>1. PICK n \in 1 .. (Qty - mfilled) : mpos' = Moved(mpos, n)
      BY <2>2 DEF MasterFills
    <3>2. mpos' \in Int /\ mpos' <= mpos
      BY <3>1 DEF Moved
    <3>3. QED BY <2>0, <2>2, <3>2 DEF MasterFills
  <2>3. CASE MasterTrades \/ CancelledElsewhere
    BY <2>0, <2>3 DEF MasterTrades, CancelledElsewhere
  <2>4. CASE CachedElsewhere
    BY <2>0, <2>4 DEF CachedElsewhere, exchange
  <2>5. CASE CacheExpires \/ ClaimExpires
    BY <2>0, <2>5 DEF CacheExpires, ClaimExpires, exchange
  <2>6. QED BY <1>2, <2>1, <2>2, <2>3, <2>4, <2>5 DEF Environment
<1>3. ASSUME NEW t \in Task, Spawn(t) PROVE Cautious'
  BY <1>3 DEF Spawn, At, Goto, exchange, history
<1>4. ASSUME NEW t \in Task, TaskStep(t) PROVE Cautious'
  <2> USE DEF At, Goto, Finish, exchange, history
  <2>1. CASE Wake(t) \/ CheckMirror(t) \/ CheckMaster(t) \/ Excess(t)
    <3>1. PICK to \in PC \ {"cap", "market"} : pc' = [pc EXCEPT ![t] = to]
      BY <2>1 DEF Wake, CheckMirror, CheckMaster, Excess, PC
    <3>2. UNCHANGED <<mcache, mpos, held, seen, want>>
      BY <2>1 DEF Wake, CheckMirror, CheckMaster, Excess
    <3>3. QED BY <3>1, <3>2
  <2>2. CASE Warrant(t) \/ Resize(t)
    <3>1. PICK m \in Int : /\ m >= mpos
                           /\ seen' = [seen EXCEPT ![t] = m]
                           /\ mcache' = mcache \/ mcache' = m
      <4>1. ReadMasterPosition(t)
        BY <2>2 DEF Warrant, Resize
      <4>2. CASE mcache # NoValue
        BY <4>1, <4>2 DEF ReadMasterPosition
      <4>3. CASE mcache = NoValue
        <5>1. Answer("position_read", mpos, 0) = {mpos}
          BY DEF Answer
        <5>2. seen' = [seen EXCEPT ![t] = mpos] /\ (mcache' = mcache \/ mcache' = mpos)
          BY <4>1, <4>3, <5>1 DEF ReadMasterPosition
        <5>3. mpos \in Int /\ mpos >= mpos
          OBVIOUS
        <5>4. QED BY <5>2, <5>3, Zenon
      <4>4. QED BY <4>2, <4>3
    <3>2. UNCHANGED <<mpos, held, want>>
      BY <2>2 DEF Warrant, Resize
    <3>3. PICK to \in PC \ {"market"} : pc' = [pc EXCEPT ![t] = to]
      BY <2>2 DEF Warrant, Resize, PC
    <3>4. QED BY <3>1, <3>2, <3>3
  <2>3. CASE Drop(t) \/ Claim(t) \/ Cancel(t)
    BY <2>3 DEF Drop, Claim, Cancel
  <2>4. CASE ReadBack(t)
    <3>1. PICK to \in PC \ {"cap", "market"} : pc' = [pc EXCEPT ![t] = to]
      BY <2>4 DEF ReadBack, PC
    <3>2. PICK n : want' = [want EXCEPT ![t] = n]
      BY <2>4 DEF ReadBack
    <3>3. UNCHANGED <<mcache, mpos, held, seen>>
      BY <2>4 DEF ReadBack
    <3>4. QED BY <3>1, <3>2, <3>3
  <2>5. CASE Cap(t)
    <3>0. UNCHANGED <<mcache, mpos, held, seen>> /\ pc[t] = "cap"
      BY <2>5 DEF Cap
    <3>1. CASE Unsized(t) /\ Finish(t) /\ UNCHANGED want
      BY <3>0, <3>1
    <3>2. CASE \E cur \in Answer("position_read", held, 0) :
                 /\ want' = [want EXCEPT ![t] = Least(@, CloseQty(seen[t], cur))]
                 /\ Goto(t, IF want'[t] < 1 THEN "done" ELSE "market")
      <4>1. want' = [want EXCEPT ![t] = Least(want[t], CloseQty(seen[t], held))]
        BY <3>2 DEF Answer
      <4>2. pc' = [pc EXCEPT ![t] = IF want'[t] < 1 THEN "done" ELSE "market"]
        BY <3>2
      <4>3. /\ CloseQty(seen[t], held) \in Nat
            /\ CloseQty(seen[t], held) >= 1 => held - CloseQty(seen[t], held) >= seen[t]
        BY CloseQtyStops
      <4>4. want'[t] >= 1 => held - want'[t] >= seen[t]
        BY <4>1, <4>3 DEF Least
      <4>5. \A u \in Task \ {t} : want'[u] = want[u] /\ pc'[u] = pc[u]
        BY <4>1, <4>2
      <4>6. pc'[t] = "market" => want'[t] >= 1
        BY <4>1, <4>2, <4>3 DEF Least
      <4>7. QED BY <3>0, <4>2, <4>4, <4>5, <4>6
    <3>3. QED BY <2>5, <3>1, <3>2 DEF Cap
  <2>6. CASE Market(t)
    <3>1. \A u \in Task \ {t} : pc[u] # "market"
      BY <2>6 DEF Market, Licence, Licensed
    <3>2. UNCHANGED <<mcache, mpos, seen, want>>
      BY <2>6 DEF Market
    <3>3. PICK to \in {"repoint", "done"} : pc' = [pc EXCEPT ![t] = to]
      BY <2>6 DEF Market
    <3>4. QED BY <3>1, <3>2, <3>3
  <2>7. CASE Repoint(t)
    BY <2>7 DEF Repoint
  <2>8. QED BY <1>4, <2>1, <2>2, <2>3, <2>4, <2>5, <2>6, <2>7 DEF TaskStep
<1>5. QED BY <1>1, <1>2, <1>3, <1>4 DEF Next

\* Only a market order adds a forcer, and then an exit stops at the share of what
\* the master still holds.
LEMMA MarketStops ==
  ASSUME TypeOK, Cautious, [Next]_vars, ReduceOnly,
         NEW t \in Task, t \notin forcers, t \in forcers'
  PROVE  held' >= mpos'
<1>1. ~UNCHANGED vars /\ ~Environment
  BY EnvironmentFrame DEF vars, history
<1>2. PICK u \in Task : Spawn(u) \/ TaskStep(u)
  BY <1>1 DEF Next
<1>3. Market(u)
  BY <1>2 DEF TaskStep, Spawn, Wake, CheckMirror, CheckMaster, Warrant, Excess, Drop,
              Claim, Cancel, ReadBack, Resize, Cap, Repoint, history
<1>4. held' = held - want[u] /\ mpos' = mpos /\ pc[u] = "market"
  BY <1>3 DEF Market, Moved, At
<1>5. QED BY <1>4 DEF Cautious, TypeOK

\* An exit forced to market never takes the follower below its share of what the
\* master kept, when positions can be read: however stale the master's cached
\* position, and whatever he and the mirror fill meanwhile.
THEOREM StopsAtShare == Spec => ForceStopsAtShare
<1> DEFINE Careful == ReduceOnly /\ ~Fault("position_read") => Cautious
<1>1. Init => Careful /\ Licence
  BY DEF Init, Cautious, Licence, Licensed
<1>2. TypeOK /\ Licence /\ Careful /\ [Next]_vars => Careful' /\ Licence'
  <2> SUFFICES ASSUME TypeOK, Licence, Careful, [Next]_vars PROVE Careful' /\ Licence'
    OBVIOUS
  <2>1. (ReduceOnly /\ ~Fault("position_read"))' => ReduceOnly /\ ~Fault("position_read")
    BY DEF ReduceOnly, Fault, Next, vars
  <2>2. QED BY <2>1, LicenceStep, CautiousStep
<1>3. TypeOK /\ Careful /\ [Next]_vars
        => [\A t \in Task : ReduceOnly /\ ~Fault("position_read")
              /\ t \notin forcers /\ t \in forcers' => held' >= mpos']_vars
  BY MarketStops
<1>4. QED BY <1>1, <1>2, <1>3, TypeCorrect, PTL DEF Spec, ForceStopsAtShare
=============================================================================
