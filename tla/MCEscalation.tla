---------------------------- MODULE MCEscalation ----------------------------
(* Small instances of Escalation: which tasks race, and what may go wrong. *)
EXTENDS Escalation

\* The task of the placement against the task of a fill event.
MCPlaced == {"p1"}
MCFilled == {"f1"}

Entry(faults) == [exit |-> FALSE, faults |-> faults]
Exit(faults)  == [exit |-> TRUE, faults |-> faults]

\* The engine as designed, while its cache is stale, the master also reduces
\* and others cancel the mirror; everything at once, but for one kind of read;
\* and those reads.
MCScenarios ==
  { Entry({"stale_cache", "master_trades", "cancel_elsewhere"}),
    Exit({}),
    Entry(AllFaults \ {"order_read", "ratio"}),
    Exit(AllFaults \ {"order_read", "position_read", "master_trades"}),
    Entry({"order_read", "redis", "claim_expiry", "cancel"}),
    Exit({"order_read", "position_read", "redis"}) }
=============================================================================
