------------------------ MODULE MCPlanExecutionFlush ------------------------
EXTENDS PlanExecution

\* A FlushChangesPlan under a NonIsolatedPlan of up to 3 transactions.
MCPlans == {[stages |-> <<"Flush">>, segments |-> 3, skip |-> 0]}
MCScanHi == 4
MCSortKey == [d \in 1..3 |-> 0]
=============================================================================
