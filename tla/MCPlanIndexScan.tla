--------------------------- MODULE MCPlanIndexScan ---------------------------
(* Three documents with values 1..3: a = [1, 3], 2, [1, 2] and            *)
(* b = 2, 1, [1, 2].  The query runs one of three scans:                   *)
(*  - 1 <= a <= 2 on the simple index: it reads entries of all three        *)
(*    documents, documents 1 and 3 have two entries each, and document 1's *)
(*    last value lies above the range;                                     *)
(*  - a = 1 on the simple index, the equality scan without deduplicator;   *)
(*  - a = 1 and 1 <= b <= 2 on the compound index (a, b): document 3 has   *)
(*    two entries in the range and four in all, document 1 one of two.    *)
(*                                                                         *)
(* The same documents, a simple index on a and a compound index on         *)
(* (a, b), are the collection the push-down planner is checked on.         *)
EXTENDS PlanIndexScan

MCVals == [d \in 1..3 |-> CASE d = 1 -> {1, 3} [] d = 2 -> {2} [] d = 3 -> {1, 2}]
MCBVals == <<{2}, {1}, {1, 2}>>
MCScans == {[fields |-> <<"a">>, fix |-> 0, lo |-> 1, hi |-> 2],
            [fields |-> <<"a">>, fix |-> 0, lo |-> 1, hi |-> 1],
            [fields |-> <<"a", "b">>, fix |-> 1, lo |-> 1, hi |-> 2]}

PD == INSTANCE Pushdown WITH BVals <- MCBVals, SimpleIndexes <- {"a"},
                             CompoundIndexes <- {<<"a", "b">>}

\* Path expressions: _id, a with and without array expansion, and b.
IdE == [path |-> "_id", expand |-> TRUE]
AE == [path |-> "a", expand |-> TRUE]
AFlat == [path |-> "a", expand |-> FALSE]
BE == [path |-> "b", expand |-> TRUE]
\* Leaves: equality (tight), a half-open range (tight), $in of 1 and 3
\* (range [1, 3], not tight) and one with no range.
Eq(v) == [set |-> {v}, lo |-> v, hi |-> v]
Ge2 == [set |-> {2, 3}, lo |-> 2, hi |-> 4]
In13 == [set |-> {1, 3}, lo |-> 1, hi |-> 3]
NoRange == [set |-> {2}, lo |-> 0, hi |-> 4]

Atoms == {PD!ANY(e, l) : e \in {IdE, AE, AFlat, BE},
                         l \in {Eq(1), Eq(2), Ge2, In13, NoRange}}
         \cup {PD!ALL, PD!NONE}
\* The atoms that push down in more than one way, for deeper trees.
Small == {PD!ANY(e, l) : e \in {IdE, AE, BE}, l \in {Eq(1), In13}}

MCQueries ==
    Atoms
    \cup {PD!NOT(t) : t \in Atoms}
    \cup {PD!AND(<<t1, t2>>) : t1, t2 \in Atoms}
    \cup {PD!OR(<<t1, t2>>) : t1, t2 \in Atoms}
    \cup {PD!OR(<<t1, t2, t3>>) : t1, t2, t3 \in Small}
    \cup {PD!AND(<<t1, PD!OR(<<t2, t3>>)>>) : t1, t2, t3 \in Small}

\* Spec 8 over the predicates of MCQueries: the plan
\* FilterPlan::construct_filter_plan(TableScan, pr) builds (push_down of the
\* table and index scans, recursively, or a plain Filter) outputs every
\* document as many times as the Filter does: once if pr holds, else never.
PushDownSound ==
    \A pr \in MCQueries, d \in 1..N :
        PD!Count(PD!ConstructFilterPlan(PD!TableScan, pr), d) = IF PD!Eval(pr, d) THEN 1 ELSE 0

\* The query of scan sc: lo <= a <= hi, or a = fix and lo <= b <= hi,
\* over the expanded fields.
IndexQuery(sc) ==
    LET last == [set |-> sc.lo..sc.hi, lo |-> sc.lo, hi |-> sc.hi]
    IN  IF Len(sc.fields) = 1 THEN PD!ANY(AE, last)
        ELSE PD!AND(<<PD!ANY(AE, Eq(sc.fix)), PD!ANY(BE, last)>>)

\* When the non-isolated index scan ends normally, the planner turns its
\* query into exactly the index scan that was executed, the documents that
\* scan delivered across its transactions are those the plain Filter over
\* the table selects, and the planner is sound on every predicate checked:
\* the push-down (construct_filter_plan, lines 65-262) and the execution
\* (toDocInfo, deduplicateIndexStream, doNonIsolatedRO) agree with Filter.
PushDownPreservesResult ==
    outEnd = "end_of_stream" =>
        /\ PD!ConstructFilterPlan(PD!TableScan, IndexQuery(ix))
               = PD!Plan("IndexScan", ix.fields, ix.fix, ix.lo, ix.hi, <<>>, PD!ALL)
        /\ Range(delivered \o out) = {d \in 1..N : PD!Eval(IndexQuery(ix), d)}
        /\ PushDownSound
=============================================================================
