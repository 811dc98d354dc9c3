----------------------------- MODULE MCMetrics -----------------------------
(* Two tasks, more than a channel holds, of sizes that tell them apart.    *)
EXTENDS Metrics, TLC

CONSTANTS t1, t2

Sizes == t1 :> 1 @@ t2 :> 2
=============================================================================
