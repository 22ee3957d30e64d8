--------------------------- MODULE MCResearchEvents ----------------------------
(* An instance of ResearchEvents for TLC: two processes and one reader, who may be *)
(* connected to either; the second run is in the process of the first or not.     *)
EXTENDS ResearchEvents, TLC

CONSTANTS r1, p1, p2

\* The processes are alike: the first run may as well be in p1.
FirstInP1 == <<{p1}, {p1, p2}>>
OneFault == ("escrow" :> 0) @@ ("direct" :> 1)
===============================================================================
