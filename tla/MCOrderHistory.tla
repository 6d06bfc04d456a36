-------------------------- MODULE MCOrderHistory --------------------------
(* The orderly run, every disturbance alone, and those that meet in a row. *)
EXTENDS OrderHistory

MCScenarios ==
  {{}} \union {{f} : f \in AllFaults}
    \union {{"resend", "elsewhere", "missed"}, {"resend", "crash"},
            {"resend", "escalate"}, {"read", "escalate"}, {"escalate", "missed"},
            {"db", "resend"}}
=============================================================================
