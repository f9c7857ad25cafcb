----------------------------- MODULE BuildLife ------------------------------
(***************************************************************************)
(* What the daemon promises about one build, with every mechanism left     *)
(* out: it waits, a runner takes it, the runner may give it back only      *)
(* before it starts, it starts at most once, on the runner that took it,   *)
(* and once it is over it stays over.                                      *)
(***************************************************************************)
CONSTANTS Runners, NoRunner

VARIABLES life, owner

lifeVars == <<life, owner>>

Init == life \in {"none", "waiting"} /\ owner = NoRunner

Enqueue == life = "none" /\ life' = "waiting" /\ UNCHANGED owner

Take(r) == life = "waiting" /\ life' = "held" /\ owner' = r

GiveBack == life = "held" /\ life' = "waiting" /\ owner' = NoRunner

Start == life = "held" /\ life' = "started" /\ UNCHANGED owner

End == life \in {"waiting", "held", "started"} /\ life' = "over" /\ owner' = NoRunner

Next == Enqueue \/ (\E r \in Runners : Take(r)) \/ GiveBack \/ Start \/ End

Spec == Init /\ [][Next]_lifeVars
=============================================================================
