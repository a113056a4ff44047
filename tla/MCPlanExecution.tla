--------------------------- MODULE MCPlanExecution ---------------------------
EXTENDS PlanExecution

\* Filter then Project as a NonIsolatedPlan of up to 3 transactions,
\* Filter, Flush, Project in one transaction, Project over Skip 1 in up
\* to 3 transactions, and Sort over Project in one transaction.
MCPlans == {[stages |-> <<"Filter", "Project">>, segments |-> 3, skip |-> 0],
            [stages |-> <<"Filter", "Flush", "Project">>, segments |-> 1, skip |-> 0],
            [stages |-> <<"Skip", "Project">>, segments |-> 3, skip |-> 1],
            [stages |-> <<"Project", "Sort">>, segments |-> 1, skip |-> 0]}
MCPass == {1, 3}
MCScanHi == 4
\* Sort keys against primary-key order (distinct: with equal keys the
\* unstable std::sort has no single result to refine).
MCSortKey == [d \in 1..3 |-> 4 - d]
=============================================================================
