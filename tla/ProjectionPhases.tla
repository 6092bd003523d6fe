-------------------------- MODULE ProjectionPhases --------------------------
(***************************************************************************)
(* What a projection promises, without its twelve ways of getting there:   *)
(* it is set up once, then it is live, and only a live one forwards input; *)
(* it may be held and go on; it ends by returning the window, by failing   *)
(* or by being closed, and what has failed or closed never lives again.    *)
(***************************************************************************)

VARIABLE phase

Phases == {"local", "setup", "live", "held", "returning", "failed", "closed"}

Init == phase = "local"

Begin     == phase = "local" /\ phase' = "setup"
GoLive    == phase = "setup" /\ phase' = "live"
Hold      == phase = "live" /\ phase' = "held"
Release   == phase = "held" /\ phase' = "live"
GiveBack  == phase \in {"live", "held"} /\ phase' = "returning"
Returned  == phase = "returning" /\ phase' = "local"
Fail      == phase \in {"setup", "live", "held", "returning"} /\ phase' = "failed"
Shut      == phase' = "closed"

Next == \/ Begin \/ GoLive \/ Hold \/ Release \/ GiveBack \/ Returned \/ Fail \/ Shut

Spec == Init /\ [][Next]_phase
=============================================================================
