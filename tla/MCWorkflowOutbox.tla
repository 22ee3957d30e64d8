--------------------------- MODULE MCWorkflowOutbox ---------------------------
(* Instances of WorkflowOutbox for TLC. All workers run under the default        *)
(* workerId, as cron deliveries do; the second key only has to compete for the   *)
(* batch limit.                                                                  *)
EXTENDS WorkflowOutbox, TLC

CONSTANTS w1, w2, cron, api

TwoWorkers  == {w1, w2}
SharedOwner == [w \in Workers |-> cron]
Symm        == Permutations(Workers)

\* The second key is left once a worker has claimed it: it is there only to compete
\* for the batch.
SecondKeyOnce == \A k \in Keys \ {1} : row[k].token <= 1
=============================================================================
