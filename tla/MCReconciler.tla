---------------------------- MODULE MCReconciler ----------------------------
(* Small instances of Reconciler. *)
EXTENDS Reconciler

Within(size, most, failed, disturbances) ==
  [maxSize |-> size, minSize |-> 0, maxMoves |-> most, maxHidden |-> 0,
   maxFails |-> failed, faults |-> disturbances]

\* Trades missed, reads refused, restarts, and a pass that finds all of it in
\* time; passes that run late and read nothing right; sizes of which a deadband is
\* two lots; Redis down; and positions that lag, shorts among them, behind a live
\* copy that copies everything.
MCScenarios ==
  { Within(3, 4, 1, {"missed", "client", "refused", "crash", "ratio", "accounts",
                     "fills", "book", "stops"}),
    Within(3, 3, 1, {"missed", "backlog", "crash", "master", "follower", "orders", "cancel"}),
    Within(4, 4, 0, {"missed"}),
    Within(2, 3, 1, {"stops", "redis", "crash"}),
    [Within(2, 6, 1, {"client", "crash"}) EXCEPT !.minSize = -1, !.maxHidden = 1] }

MCLiveScenarios == {Within(3, 4, 1, {"missed", "stops", "client", "refused"})}

\* Two masters, and trades the live copy misses: with Owner = {a, b}
\* OverexposureEnds fails.
MCTwoOwners == {Within(2, 2, 1, {"missed"})}

\* Nothing but restarts: PeakIsOfThisLeg fails.
MCRestarts == {Within(2, 4, 1, {"crash"})}
=============================================================================
