---------------------------- MODULE MCPlanUpdateRW ----------------------------
EXTENDS PlanUpdateRW

\* Documents 1 and 2 of the three, or an empty range (which upserts).
MCRanges == {<<0, 3>>, <<2, 2>>}

\* Documents 1 and 2 only.
MCRangeOneTwo == {<<0, 3>>}
====
