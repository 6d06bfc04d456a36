--------------------------- MODULE MCOrderExecutor --------------------------
(* Small instances of OrderExecutor: what the environment may do to a copy. *)
EXTENDS OrderExecutor

\* Every request is answered; the database works; anything may happen.
MCScenarios ==
  { {"rejected", "liquidity", "risk", "db", "pause"}, AllFaults \ {"db"}, AllFaults }

\* An order that was placed and cancelled cannot be read: HiccupNeverDoubleFills
\* fails, as the README describes.
UnreadableOrder == {{"order_read"}}
=============================================================================
