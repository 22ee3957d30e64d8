---------------------------- MODULE MCResearchFlow ----------------------------
(* Instances of ResearchFlow for TLC: the agent the application ships, an agent  *)
(* that leaves the record to the run worker, and operators who requeue only the  *)
(* operations that close a research or any of them.                              *)
EXTENDS ResearchFlow, TLC

CONSTANTS w1, w2

OneWorker   == {w1}
TwoWorkers  == {w1, w2}
ClosingOnly == {"SETTLE", "RECONCILE", "CLOSE"}
NoRecovery  == {}
Claims(first, run, settle, close) ==
  [t \in Types |-> CASE t = "ACTIVATE" -> first [] t = "RUN" -> run
                     [] t = "SETTLE" -> settle [] t = "CLOSE" -> close [] OTHER -> 2]
ShippedClaims == Claims(3, 3, 2, 2)
TwoClaims     == Claims(2, 2, 2, 2)
SettleClaims  == Claims(2, 3, 3, 2)
Symm          == Permutations(Workers)
=============================================================================
