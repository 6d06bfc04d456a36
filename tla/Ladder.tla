------------------------------- MODULE Ladder -------------------------------
(***************************************************************************)
(* A ladder: several resting orders of the master on one symbol, all of    *)
(* them entries or all of them exits, copied to one follower.  The handler *)
(* _mirror_place sizes one rung at a time, from reads that await each      *)
(* other: the master's resting book, his position, whether the rung has    *)
(* filled, what the follower holds.  The rungs, the follower's mirrors and *)
(* the reads are here; ordermap, edits and cancels are in MirrorOrder.     *)
(***************************************************************************)
EXTENDS Integers, FiniteSets, FiniteSetsExt

CONSTANTS
  Rung,                \* the master's orders: their ids, which break ties
  RungSizes,           \* the sizes a rung may have
  RatioNum, RatioDen,  \* the follower's ratio, RatioNum / RatioDen
  Ladders              \* the ladders and disturbances to consider, see LadderScenario

Disturbances ==
  { "grows",      \* the master adds rungs after the first was handled
    "fills",      \* his rungs fill
    "mirrors",    \* the follower's mirrors fill
    "expiry",     \* the 3 s caches run out between two events of the ladder
    "repeat",     \* the poll pushes the rungs again
    "lag",        \* the master's listing misses the rung, or still shows it
    "book",       \* his orders cannot be read, or only one of the two lists
    "position",   \* a get_positions fails, and returns []
    "order",      \* get_order fails
    "refused" }   \* the exchange refuses the mirror

\* Entries or exits, which orders, the bound on the positions at the start, and
\* what may happen.
LadderScenario == [exit : BOOLEAN, rungs : SUBSET Rung, maxStart : Nat, faults : SUBSET Disturbances]

ASSUME LadderAssumption ==
  /\ Rung \subseteq Nat /\ IsFiniteSet(Rung)
  /\ RungSizes \subseteq Nat \ {0}
  /\ RatioNum \in Nat \ {0} /\ RatioDen \in Nat \ {0}
  /\ Ladders \subseteq LadderScenario
  /\ \A s \in Ladders : s.rungs # {}

VARIABLES
  setting,   \* the scenario of this behaviour
  mpos,      \* the master's position, without its sign
  size,      \* the size of each rung
  state,     \* "none", "resting" or "filled"
  marked,    \* rungs whose fill the listener has marked in Redis
  due,       \* rungs with an event waiting for the symbol's lock
  held,      \* the follower's position
  open,      \* what rests of each rung's mirror
  placed,    \* the size of each rung's mirror, 0 for none
  mcache,    \* _master_pos_cache of the symbol, NoValue when expired
  hcache,    \* _follower_pos_cache of the follower and symbol
  pc, cur,   \* the handler and its rung
  read,      \* what it has read
  start      \* history: what the follower held at the start

ladder     == <<mpos, size, state, marked>>
mirror     == <<held, open, placed>>
caches     == <<mcache, hcache>>
handler    == <<pc, cur, read>>
ladderVars == <<setting, ladder, due, mirror, caches, handler, start>>

NoValue  == -1
Unread   == {NoValue}      \* the book that could not be read

Disturbed(f)   == f \in setting.faults
Exit           == setting.exit
Least(a, b)    == IF a <= b THEN a ELSE b
Greatest(a, b) == IF a >= b THEN a ELSE b

Resting    == {r \in Rung : state[r] = "resting"}
Mapped     == {r \in Rung : placed[r] > 0}
Lots(s)    == MapThenSumSet(LAMBDA r : size[r], s)
OpenLots   == MapThenSumSet(LAMBDA r : open[r], Rung)

Smallest   == CHOOSE n \in RungSizes : \A m \in RungSizes : n <= m

NoRead == [book |-> {}, mpos |-> 0, filled |-> FALSE, held |-> 0, was |-> FALSE]

LadderTypeOK ==
  /\ setting \in Ladders
  /\ mpos \in Nat /\ size \in [Rung -> RungSizes]
  /\ state \in [Rung -> {"none", "resting", "filled"}]
  /\ marked \subseteq Rung /\ due \subseteq Rung
  /\ held \in Nat
  /\ placed \in [Rung -> Nat] /\ open \in [Rung -> Nat]
  /\ \A r \in Rung : open[r] <= placed[r]
  /\ mcache \in Nat \union {NoValue} /\ hcache \in Nat \union {NoValue}
  /\ pc \in {"idle", "signed", "book", "mpos", "settled", "held", "place"}
  /\ cur \in Rung
  /\ read \in [book : (SUBSET Rung) \union {Unread}, mpos : Nat, filled : BOOLEAN,
               held : Nat, was : BOOLEAN]
  /\ start \in Nat

\* A ladder placed as one burst, or its first rungs; exits never exceed the
\* position they reduce.  The follower may hold more or less than its share.
LadderInit ==
  /\ setting \in Ladders
  /\ size \in {f \in [Rung -> RungSizes] : \A r \in Rung \ setting.rungs : f[r] = Smallest}
  /\ \E first \in (IF Disturbed("grows") THEN SUBSET setting.rungs ELSE {setting.rungs}) :
       /\ state = [r \in Rung |-> IF r \in first THEN "resting" ELSE "none"]
       /\ due = first
  /\ mpos \in 0 .. setting.maxStart /\ (Exit => Lots(setting.rungs) <= mpos)
  /\ held \in 0 .. setting.maxStart /\ (Exit => held > 0)
  /\ marked = {} /\ start = held
  /\ open = [r \in Rung |-> 0] /\ placed = [r \in Rung |-> 0]
  /\ mcache = NoValue /\ hcache = NoValue
  /\ pc = "idle" /\ cur = (CHOOSE r \in Rung : TRUE) /\ read = NoRead
-----------------------------------------------------------------------------
(* The sizing, in whole lots. *)

CeilDiv(n, d)        == -((-n) \div d)

\* calculate_follower_quantity with a ratio, rounded up: a target may be 0, an
\* order is at least one lot.
FollowerShare(lots)  == CeilDiv(lots * RatioNum, RatioDen)
RungLots(lots)       == Greatest(1, FollowerShare(lots))

\* Python rounds a half to the even side.
RoundDiv(n, d) ==
  LET q == n \div d
      twice == 2 * (n % d)
  IN  IF twice < d \/ (twice = d /\ q % 2 = 0) THEN q ELSE q + 1

\* The lots the resting exits ask the follower to close.
CoverageTarget(lots, resting, position) ==
  IF lots = 0 \/ resting = 0 \/ position = 0 THEN 0
  ELSE Least(lots, Greatest(1, RoundDiv(lots * Least(resting, position), position)))

\* Every rung its rounded-down share, and no more.
AllocateFloor(rungs, total) ==
  [r \in rungs |-> IF total <= 0 THEN 0 ELSE (total * size[r]) \div Lots(rungs)]

\* What rounding leaves goes to the largest rung.
AllocateToLargest(rungs, total) ==
  LET base == AllocateFloor(rungs, total)
      left == total - MapThenSumSet(LAMBDA r : base[r], rungs)
      first(r) == \A q \in rungs \ {r} : size[q] < size[r] \/ (size[q] = size[r] /\ r < q)
  IN  [r \in rungs |-> IF total > 0 /\ first(r) THEN base[r] + left ELSE base[r]]

\* Largest remainder: what rounding down leaves goes, lot by lot, to the rungs
\* with the largest fractions, then the larger ones, then the smaller ids.
Allocate(rungs, total) ==
  LET pool == Lots(rungs)
      base(r) == (total * size[r]) \div pool
      part(r) == (total * size[r]) % pool
      left == total - MapThenSumSet(base, rungs)
      ahead(q, r) == \/ part(q) > part(r)
                     \/ part(q) = part(r) /\ size[q] > size[r]
                     \/ part(q) = part(r) /\ size[q] = size[r] /\ q < r
  IN  [r \in rungs |->
         IF total <= 0 THEN 0
         ELSE base(r) + IF Cardinality({q \in rungs : ahead(q, r)}) < left THEN 1 ELSE 0]

\* _entry_open_qty: a filled rung opens up to the share of the position, a
\* resting one its part of what the whole ladder will add.
EntryLots ==
  IF read.book = Unread THEN RungLots(size[cur])
  ELSE IF read.filled THEN Greatest(0, FollowerShare(read.mpos) - read.held)
  ELSE LET rungs == read.book \union {cur}
       IN  Allocate(rungs, Greatest(0, FollowerShare(read.mpos + Lots(rungs)) - read.held))[cur]

\* The reduce-only branch: a filled rung closes down to the share, a resting one
\* its part of the cover; an unreadable book falls back to the rung alone.
ExitLots ==
  IF read.filled THEN Greatest(0, read.held - FollowerShare(read.mpos))
  ELSE IF read.book = Unread
  THEN Least(read.held, read.held - FollowerShare(Greatest(0, read.mpos - size[cur])))
  ELSE LET rungs == read.book \union {cur}
       IN  Allocate(rungs, CoverageTarget(read.held, Lots(rungs), read.mpos))[cur]
-----------------------------------------------------------------------------
(* The master, the exchange and the listener. *)

MasterAdds(r) ==
  /\ Disturbed("grows") /\ r \in setting.rungs /\ state[r] = "none"
  /\ Exit => Lots(Resting) + size[r] <= mpos
  /\ state' = [state EXCEPT ![r] = "resting"]
  /\ due' = due \union {r}
  /\ UNCHANGED <<mpos, size, marked, mirror, caches, handler>>

MasterFills(r) ==
  /\ Disturbed("fills") /\ state[r] = "resting"
  /\ state' = [state EXCEPT ![r] = "filled"]
  /\ mpos' = IF Exit THEN mpos - size[r] ELSE mpos + size[r]
  /\ UNCHANGED <<size, marked, due, mirror, caches, handler>>

\* The listener sees the fill, some time later, and marks the order.
Mark(r) ==
  /\ state[r] = "filled" /\ r \notin marked
  /\ marked' = marked \union {r}
  /\ UNCHANGED <<mpos, size, state, due, mirror, caches, handler>>

\* A reduce-only order never fills beyond the position.
MirrorFills(r) ==
  /\ Disturbed("mirrors")
  /\ \E n \in 1 .. (IF Exit THEN Least(open[r], held) ELSE open[r]) :
       /\ open' = [open EXCEPT ![r] = @ - n]
       /\ held' = IF Exit THEN held - n ELSE held + n
  /\ UNCHANGED <<ladder, due, placed, caches, handler>>

Repush(r) ==
  /\ Disturbed("repeat") /\ state[r] = "resting" /\ r \notin due
  /\ due' = due \union {r}
  /\ UNCHANGED <<ladder, mirror, caches, handler>>

CacheExpires ==
  /\ Disturbed("expiry")
  /\ \/ mcache # NoValue /\ mcache' = NoValue /\ UNCHANGED hcache
     \/ hcache # NoValue /\ hcache' = NoValue /\ UNCHANGED mcache
  /\ UNCHANGED <<ladder, due, mirror, handler>>
-----------------------------------------------------------------------------
(* The handler, from one await to the next. *)

Goto(to)  == pc' = to
Return    == pc' = "idle" /\ read' = NoRead
Outcomes(fault, truth, fallback) == {truth} \union (IF Disturbed(fault) THEN {fallback} ELSE {})

\* A rung that has its mirror is left alone, see MirrorOrder.
Take(r) ==
  /\ pc = "idle" /\ r \in due
  /\ due' = due \ {r}
  /\ cur' = r
  /\ IF r \in Mapped THEN Return
     ELSE /\ read' = [NoRead EXCEPT !.was = state[r] = "filled"]
          /\ Goto(IF Exit THEN "signed" ELSE "book")
  /\ UNCHANGED <<ladder, mirror, caches>>

\* An exit reads the follower first: flat, or unread, there is nothing to reduce.
ReadSigned ==
  /\ pc = "signed"
  /\ \E h \in Outcomes("position", held, 0) :
       IF h = 0 THEN Return ELSE read' = [read EXCEPT !.held = h] /\ Goto("mpos")
  /\ UNCHANGED <<ladder, due, mirror, caches, cur>>

\* The master's resting orders, always fresh.  The listing may lag the events;
\* when one of its two pages fails the other passes for the whole.
Listings ==
  {Resting} \union (IF Disturbed("lag") THEN {Resting \ {cur}, Resting \union {cur}} ELSE {})
            \union (IF Disturbed("book") THEN {Unread, {}} ELSE {})

\* An entry reads it first and is sized on its own when it cannot.
ReadBook ==
  /\ pc = "book"
  /\ \E book \in Listings :
       /\ read' = [read EXCEPT !.book = book]
       /\ Goto(IF Exit THEN "settled" ELSE IF book = Unread THEN "place" ELSE "mpos")
  /\ UNCHANGED <<ladder, due, mirror, caches, cur>>

\* The master's position: cached for an entry, fresh for an exit (which caches it
\* for nobody here); a failed read is 0, and is cached.
ReadPosition ==
  /\ pc = "mpos"
  /\ \E m \in (IF ~Exit /\ mcache # NoValue THEN {mcache} ELSE Outcomes("position", mpos, 0)) :
       read' = [read EXCEPT !.mpos = m] /\ mcache' = IF Exit THEN mcache ELSE m
  /\ Goto(IF Exit THEN "book" ELSE "settled")
  /\ UNCHANGED <<ladder, due, mirror, hcache, cur>>

\* As the code once was: the listener's mark decides.
SettledByMark ==
  /\ pc = "settled"
  /\ read' = [read EXCEPT !.filled = cur \in marked]
  /\ Goto(IF Exit THEN "place" ELSE "held")
  /\ UNCHANGED <<ladder, due, mirror, caches, cur>>

\* _master_order_settled: marked as filled; or resting in the book; or else the
\* exchange is asked about the order.
Settled ==
  /\ pc = "settled"
  /\ \E done \in Outcomes("order", state[cur] = "filled", FALSE) :
       read' = [read EXCEPT !.filled =
                  cur \in marked \/ ((read.book = Unread \/ cur \notin read.book) /\ done)]
  /\ Goto(IF Exit THEN "place" ELSE "held")
  /\ UNCHANGED <<ladder, due, mirror, caches, cur>>

\* _follower_held.
ReadHeld ==
  /\ pc = "held"
  /\ \E h \in (IF hcache # NoValue THEN {hcache} ELSE Outcomes("position", held, 0)) :
       read' = [read EXCEPT !.held = h] /\ hcache' = h
  /\ Goto("place")
  /\ UNCHANGED <<ladder, due, mirror, mcache, cur>>

\* Nothing is asked about the number of lots.
PlaceAnything ==
  /\ pc = "place"
  /\ LET lots == IF Exit THEN ExitLots ELSE EntryLots
     IN  placed' = [placed EXCEPT ![cur] = lots] /\ open' = [open EXCEPT ![cur] = lots]
  /\ Return
  /\ UNCHANGED <<ladder, due, held, caches, cur>>

\* The mirror rests with the lots of its rung; without any the rung is skipped.
Place ==
  /\ pc = "place"
  /\ LET lots == IF Exit THEN ExitLots ELSE EntryLots
     IN \/ /\ lots >= 1
           /\ placed' = [placed EXCEPT ![cur] = lots] /\ open' = [open EXCEPT ![cur] = lots]
        \/ /\ lots < 1 \/ Disturbed("refused")
           /\ UNCHANGED <<placed, open>>
  /\ Return
  /\ UNCHANGED <<ladder, due, held, caches, cur>>

Handle ==
  \/ \E r \in Rung : Take(r)
  \/ ReadSigned \/ ReadBook \/ ReadPosition \/ Settled \/ ReadHeld \/ Place

World ==
  \/ \E r \in Rung : MasterAdds(r) \/ MasterFills(r) \/ Mark(r) \/ MirrorFills(r) \/ Repush(r)
  \/ CacheExpires

LadderNext == (Handle \/ World) /\ UNCHANGED <<setting, start>>

LadderSpec == LadderInit /\ [][LadderNext]_ladderVars
-----------------------------------------------------------------------------
(* Properties.                                                             *)

Handled == due = {} /\ pc = "idle"

\* The ladder of a burst stands still while its events are handled.  Neither a
\* listing without the rung matters, nor, for exits, repeated events, nor, for
\* entries, fills of the mirrors within the 3 s of the cache.
StandsStill == setting.faults \subseteq (IF Exit THEN {"repeat", "lag"} ELSE {"mirrors", "lag"})

\* What the whole ladder asks of the follower.
Asked ==
  IF Exit THEN CoverageTarget(held, Lots(setting.rungs), mpos)
          ELSE Greatest(0, FollowerShare(mpos + Lots(setting.rungs)) - start)

\* "That guarantees the parts sum to EXACTLY the total": although each rung is
\* sized on its own, from reads of its own and in any order, the mirrors of a
\* ladder together carry what the ladder asks for, no lot more or less, and each
\* carries its own share of it, rounded down or up.
SplitFairly ==
  StandsStill /\ Handled =>
    /\ MapThenSumSet(LAMBDA r : placed[r], Rung) = Asked
    /\ \A r \in setting.rungs :
         /\ placed[r] * Lots(setting.rungs) < Asked * size[r] + Lots(setting.rungs)
         /\ placed[r] * Lots(setting.rungs) > Asked * size[r] - Lots(setting.rungs)

\* A rung that filled before its event was handled brings the follower to its
\* share of the position the master is read to hold, whatever the listener has
\* marked and however the other rungs move, unless a read about it fails.
FilledReachesShare ==
  [][pc = "place" /\ pc' = "idle" /\ read.was /\ {"lag", "book", "order", "refused"} \intersect setting.faults = {} =>
       IF Exit THEN read.held - placed'[cur] <= FollowerShare(read.mpos)
               ELSE read.held + placed'[cur] >= FollowerShare(read.mpos)]_ladderVars

\* An entry never opens more than the follower's share of the position the
\* master will have when all that rests has filled ("Adding it again counts the
\* same lots twice").
NeverCountsTwice ==
  ~Exit => held + OpenLots <= Greatest(start, FollowerShare(mpos + Lots(Resting)))
=============================================================================
