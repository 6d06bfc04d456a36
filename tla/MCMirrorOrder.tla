---------------------------- MODULE MCMirrorOrder ---------------------------
(* Small instances of MirrorOrder: what may go wrong around one mirror. *)
EXTENDS MirrorOrder

AnyAge == BOOLEAN

\* What an order meets while the follower holds nothing else, with a listing that
\* is late, beside the escalation tasks, and both; what it meets beside other lots
\* of his; a mark that is late; and a restart with what can be lost around it.
Alone  == {"stale_cache", "read", "rejected", "elsewhere"}
Beside == {"elsewhere", "holds"}

MCScenarios ==
  {Alone \union more : more \in SUBSET {"late_listing", "escalate"}}
    \union {Beside \union more : more \in
              {{"rejected"}, {"late_mark"}, {"stale_cache", "escalate"}, {"read", "late_listing"}}}
    \union {{"elsewhere", "stale_cache", "hands_off", "unsized"}}
    \union {{"crash", f} : f \in {"elsewhere", "reply", "cancel"}}

\* The engine as designed, with its escalation tasks.
EscalateOnly == {{"escalate"}}
=============================================================================
