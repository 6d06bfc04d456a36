--------------------------- MODULE MCConfirmCopy ---------------------------
(* The orderly run and every disturbance alone, at each ratio, and those that *)
(* meet: a missed mirror or a second rung with each failure.                  *)
EXTENDS ConfirmCopy

MCScenarios ==
  [faults : {{}, {"ladder"}} \union {{f} : f \in AllFaults}
              \union {{"unmirrored", f} : f \in AllFaults \ {"ladder"}},
   perLot : 1 .. MaxPerLot]
=============================================================================
