------------------------- MODULE MCProtectionSync -------------------------
(* The orderly run, every disturbance alone, and those that meet in a row. *)
EXTENDS ProtectionSync

MCScenarios ==
  {{}} \union {{f} : f \in AllFaults}
    \union {{"silent", "crash"}, {"partial", "unread"}, {"elsewhere", "refused"},
              {"again", "elsewhere"}, {"again", "unread"}}
=============================================================================
