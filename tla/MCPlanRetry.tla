----------------------------- MODULE MCPlanRetry -----------------------------
EXTENDS PlanRetry

\* A range with three documents (more than the limit) and an empty one.
MCRanges == {<<1, 4>>, <<2, 2>>}

\* An UpdatePlan, a ProjectAndUpdatePlan projecting the new or the old
\* document, an InsertPlan of the range's documents, an IndexInsertPlan and
\* an UpdateIndexStatusPlan.
MCOps == {[kind |-> "Update", projectNew |-> FALSE],
          [kind |-> "ProjectAndUpdate", projectNew |-> TRUE],
          [kind |-> "ProjectAndUpdate", projectNew |-> FALSE],
          [kind |-> "Insert", projectNew |-> FALSE],
          [kind |-> "IndexInsert", projectNew |-> FALSE],
          [kind |-> "UpdateIndexStatus", projectNew |-> FALSE]}
====
