------------------------------ MODULE MCInsights ------------------------------
(* An instance of Insights: two queues, one of them with a snapshot, and    *)
(* rules of two of the four types.                                          *)
EXTENDS Insights

CONSTANTS q1, q2

Took(n) == [ms |-> n]

MCContent ==
  {[type |-> "completed", queue |-> q1, took |-> Took(1)],
   [type |-> "failed", queue |-> q1, took |-> Took(2)],
   [type |-> "failed", queue |-> q2, took |-> None],
   [type |-> "snapshot", queue |-> q1, waiting |-> 1, workers |-> 0],
   [type |-> "snapshot", queue |-> q1, waiting |-> 0, workers |-> 1]}

Failures == [type |-> "failed_threshold", queue |-> AnyQueue, window |-> 1,
             threshold |-> 1]
NewGroup == [type |-> "new_error_group", queue |-> AnyQueue, window |-> 2]
StuckQ1 == [type |-> "stuck_queue", queue |-> q1, window |-> 3]
LossQ1 == [type |-> "worker_loss", queue |-> q1, window |-> 3]

MCConditions == {Failures, NewGroup, StuckQ1, LossQ1}
MCRuleOf == <<Failures, NewGroup>>

(* One bucket more than guardBucketMs counts; rows of several times in one  *)
(* bucket; too fine.                                                        *)
MCWindow ==
  {[from |-> 1, to |-> 4, size |-> 2], [from |-> 1, to |-> 5, size |-> 4],
   [from |-> 1, to |-> 5, size |-> 1]}
===============================================================================
