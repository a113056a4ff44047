------------------------ MODULE MCPlanFindAndModify ------------------------
EXTENDS PlanFindAndModify

\* The whole collection (documents 1..3, the first match 2 after a failing
\* document), and a range with no match, each with and without an upsert
\* and with the old or the new document asked for.
MCRequests == [lo : {1}, hi : {2, 4}, upsert : BOOLEAN, projectNew : BOOLEAN]
MCPass == {2, 3}
=============================================================================
