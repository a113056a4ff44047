----------------------------- MODULE MCPlanUnion -----------------------------
(* Union of a table range ["", 3) with the point lookup of _id 4, or of   *)
(* _id 3 (which does not exist), over a collection holding documents 1, 2 *)
(* and 4 of two cells each.  One inner permit makes the point lookup wait  *)
(* while a range document is in flight; up to three transactions.          *)
EXTENDS PlanUnion

MCPresent == {1, 2, 4}
RangeSide == [kind |-> "range", lo |-> 0, hi |-> 3]

\* The range with the lookup of _id 4, which exists.
MCPresentPoint == {<<RangeSide, [kind |-> "point", lo |-> 4, hi |-> 4]>>}

\* Either that union, the range with the lookup of _id 3, which does not
\* exist, or the ranges ["", 2) and [2, 5): two scans, each with a split.
MCQueries == MCPresentPoint \cup {<<RangeSide, [kind |-> "point", lo |-> 3, hi |-> 3]>>,
                                  <<[kind |-> "range", lo |-> 0, hi |-> 2],
                                    [kind |-> "range", lo |-> 2, hi |-> 5]>>}
=============================================================================
