------------------------------ MODULE Pushdown ------------------------------
(***************************************************************************)
(* The predicate push-down planner (QLPlan.actor.cpp lines 65-262, and     *)
(* ExtPathExpression::get_index_key in QLExpression.h) as recursive        *)
(* operators, checked against the plain meaning of a Filter.               *)
(*                                                                         *)
(* Documents 1..N have the primary key _id = d and fields "a" and "b",   *)
(* each holding a set of values (an array when it holds more than one).   *)
(* A predicate is a tree of ALL, NONE, AND, OR, NOT and ANY(expr,    *)
(* leaf); a leaf is a set of accepted values with the range get_range()    *)
(* reports (lo = 0: no begin, hi = V + 1: no end).  A plan is a tree of    *)
(* TableScan, PrimaryKeyLookup, IndexScan, Filter, Union and Empty; its    *)
(* meaning is the number of times it outputs each document.               *)
(***************************************************************************)
EXTENDS Integers, Sequences, FiniteSets

CONSTANTS
    N, V,             \* documents 1..N, field values 1..V (N <= V)
    Vals,             \* Vals[d]: the values of document d's field "a"
    BVals,            \* BVals[d]: the values of document d's field "b"
    SimpleIndexes,    \* the fields with a simple index
    CompoundIndexes   \* <<f1, f2>>: the fields of each compound index

Docs == 1..N
Values == 1..V
NoBegin == 0
NoEnd == V + 1

\* Constructors
Pred(k, e, l, ts) == [kind |-> k, expr |-> e, leaf |-> l, terms |-> ts]
NoExpr == [path |-> "", expand |-> FALSE]
NoLeaf == [set |-> {}, lo |-> NoBegin, hi |-> NoEnd]
ALL == Pred("ALL", NoExpr, NoLeaf, <<>>)
NONE == Pred("NONE", NoExpr, NoLeaf, <<>>)
AND(ts) == Pred("AND", NoExpr, NoLeaf, ts)
OR(ts) == Pred("OR", NoExpr, NoLeaf, ts)
NOT(t) == Pred("NOT", NoExpr, NoLeaf, <<t>>)
ANY(e, l) == Pred("ANY", e, l, <<>>)
Plan(k, ix, fix, lo, hi, srcs, f) ==
    [kind |-> k, index |-> ix, fix |-> fix, lo |-> lo, hi |-> hi, srcs |-> srcs, filter |-> f]
TableScan == Plan("TableScan", <<>>, 0, NoBegin, NoEnd, <<>>, ALL)
\* An absent Optional<Reference<Plan>>.
Absent == Plan("none", <<>>, 0, NoBegin, NoEnd, <<>>, ALL)
Present(pl) == pl.kind # "none"

-----------------------------------------------------------------------------
(* Predicates and expressions                                              *)

InRange(v, lo, hi) == (lo = NoBegin \/ lo <= v) /\ (hi = NoEnd \/ v <= hi)
HasRange(l) == l.lo # NoBegin \/ l.hi # NoEnd
\* range_is_tight(): the range is exactly the accepted values.
Tight(l) == l.set = {v \in Values : InRange(v, l.lo, l.hi)}

\* The values a path expression yields on a document: an array is expanded
\* into its elements only when expandLastArray is set; otherwise it is one
\* array value, which no leaf over scalar values accepts.
FieldVals(f, d) == CASE f = "_id" -> {d} [] f = "a" -> Vals[d] [] f = "b" -> BVals[d]
ExprVals(e, d) ==
    IF ~e.expand /\ Cardinality(FieldVals(e.path, d)) > 1 THEN {} ELSE FieldVals(e.path, d)

\* ExtPathExpression::get_index_key: the path, if the last array is expanded.
IndexKey(e) == IF e.expand THEN e.path ELSE ""

\* What FilterPlan's predicate->evaluate() decides for a document.
RECURSIVE Eval(_, _)
Eval(pr, d) ==
    CASE pr.kind = "ALL" -> TRUE
      [] pr.kind = "NONE" -> FALSE
      [] pr.kind = "AND" -> \A i \in 1..Len(pr.terms) : Eval(pr.terms[i], d)
      [] pr.kind = "OR" -> \E i \in 1..Len(pr.terms) : Eval(pr.terms[i], d)
      [] pr.kind = "NOT" -> ~Eval(pr.terms[1], d)
      [] pr.kind = "ANY" -> \E v \in ExprVals(pr.expr, d) : v \in pr.leaf.set

\* IPredicate::simplify(): terms are simplified first; an AND drops ALL
\* terms and is NONE if one is NONE, an OR the reverse; no term leaves the
\* unit, a single term is itself; NOT of ALL is NONE and of NONE is ALL.
RECURSIVE Simplify(_)
Simplify(pr) ==
    LET ts == [i \in 1..Len(pr.terms) |-> Simplify(pr.terms[i])]
        unit == IF pr.kind = "AND" THEN "ALL" ELSE "NONE"
        zero == IF pr.kind = "AND" THEN NONE ELSE ALL
        kept == SelectSeq(ts, LAMBDA t : t.kind # unit)
    IN  CASE pr.kind \in {"AND", "OR"} /\ \E i \in 1..Len(ts) : ts[i] = zero -> zero
          [] pr.kind \in {"AND", "OR"} /\ kept = <<>> -> IF pr.kind = "AND" THEN ALL ELSE NONE
          [] pr.kind \in {"AND", "OR"} /\ Len(kept) = 1 -> kept[1]
          [] pr.kind \in {"AND", "OR"} -> [pr EXCEPT !.terms = kept]
          [] pr.kind = "NOT" /\ ts[1].kind = "ALL" -> NONE
          [] pr.kind = "NOT" /\ ts[1].kind = "NONE" -> ALL
          [] pr.kind = "NOT" -> NOT(ts[1])
          [] OTHER -> pr

\* The terms of an AND without its i-th.
Others(ts, i) == SubSeq(ts, 1, i - 1) \o SubSeq(ts, i + 1, Len(ts))

-----------------------------------------------------------------------------
(* The planner                                                             *)

\* IndexScanPlan::single_key(): begin and end are the same value.
SingleKey(p) == p.lo # NoBegin /\ p.lo = p.hi

\* FilterPlan::push_down: AND the query into the filter.
FilterPushDown(p, pr) == [p EXCEPT !.filter = Simplify(AND(<<p.filter, pr>>))]

RECURSIVE PushDownInto(_, _), TablePushDown(_), IndexPushDown(_, _), OrPushDown(_),
          OrPushDownNoNot(_),
          AndPushDown(_, _, _), WithResidual(_, _, _), ConstructFilterPlan(_, _)

\* Plan::push_down, dispatched on the plan's type; the plans other than
\* the scans and FilterPlan do not push down.
PushDownInto(p, pr) ==
    CASE p.kind = "TableScan" -> TablePushDown(pr)
      [] p.kind = "IndexScan" -> IndexPushDown(p, pr)
      [] p.kind = "Filter" -> FilterPushDown(p, pr)
      [] OTHER -> Absent

\* The AND case of both scans: the first term that pushes down, wrapped by
\* construct_filter_plan in a filter for all the other terms.
AndPushDown(p, ts, i) ==
    IF i > Len(ts) THEN Absent
    ELSE IF Present(PushDownInto(p, ts[i]))
         THEN ConstructFilterPlan(PushDownInto(p, ts[i]), Simplify(AND(Others(ts, i))))
         ELSE AndPushDown(p, ts, i + 1)

\* A scan over the range of leaf l, filtered by pr unless the range is tight.
WithResidual(scanPlan, l, pr) ==
    IF Tight(l) THEN scanPlan ELSE ConstructFilterPlan(scanPlan, pr)

\* (mutant) the OR case without excluding the last term from the others.
OrPushDownNoNot(pr) ==
    LET lastPlan == TablePushDown(pr.terms[Len(pr.terms)])
        pd == TablePushDown(Simplify(OR(SubSeq(pr.terms, 1, Len(pr.terms) - 1))))
    IN  IF ~Present(lastPlan) \/ ~Present(pd) THEN Absent
        ELSE Plan("Union", <<>>, 0, 0, 0, <<pd, lastPlan>>, ALL)

\* The OR case of TableScanPlan::push_down: a union of the last term's plan
\* and the plan of (the other terms AND NOT the last), so that a document
\* matching several terms is output once.
OrPushDown(pr) ==
    LET last == pr.terms[Len(pr.terms)]
        lastPlan == TablePushDown(last)
        pd == TablePushDown(Simplify(AND(<<OR(SubSeq(pr.terms, 1, Len(pr.terms) - 1)),
                                          NOT(last)>>)))
    IN  IF ~Present(lastPlan) \/ ~Present(pd) THEN Absent
        ELSE Plan("Union", <<>>, 0, 0, 0, <<pd, lastPlan>>, ALL)

\* TableScanPlan::push_down.
TablePushDown(pr) ==
    CASE pr.kind = "ANY" /\ IndexKey(pr.expr) = "_id" /\ HasRange(pr.leaf) ->
            WithResidual(Plan("PKLookup", <<>>, 0, pr.leaf.lo, pr.leaf.hi, <<>>, ALL), pr.leaf, pr)
      [] pr.kind = "ANY" /\ IndexKey(pr.expr) \in SimpleIndexes /\ HasRange(pr.leaf) ->
            WithResidual(Plan("IndexScan", <<IndexKey(pr.expr)>>, 0, pr.leaf.lo, pr.leaf.hi, <<>>, ALL),
                         pr.leaf, pr)
      [] pr.kind = "OR" -> OrPushDown(pr)
      [] pr.kind = "AND" -> AndPushDown(TableScan, pr.terms, 1)
      [] pr.kind = "NONE" -> Plan("Empty", <<>>, 0, 0, 0, <<>>, ALL)
      [] OTHER -> Absent

\* IndexScanPlan::push_down: a scan of one value of f1 takes a range on f2
\* through the compound index <<f1, f2>>, with the value as its prefix.
IndexPushDown(p, pr) ==
    CASE ~SingleKey(p) -> Absent
      [] pr.kind = "ANY" /\ p.index \o <<IndexKey(pr.expr)>> \in CompoundIndexes
                        /\ HasRange(pr.leaf) ->
            WithResidual(Plan("IndexScan", p.index \o <<IndexKey(pr.expr)>>, p.lo,
                              pr.leaf.lo, pr.leaf.hi, <<>>, ALL), pr.leaf, pr)
      [] pr.kind = "AND" -> AndPushDown(p, pr.terms, 1)
      [] OTHER -> Absent

\* FilterPlan::construct_filter_plan(source, filter).
ConstructFilterPlan(p, pr) ==
    CASE pr.kind = "ALL" -> p
      [] Present(PushDownInto(p, pr)) -> PushDownInto(p, pr)
      [] OTHER -> Plan("Filter", <<>>, 0, 0, 0, <<p>>, pr)

-----------------------------------------------------------------------------
(* What a plan outputs                                                     *)

\* Times plan p outputs document d.  A primary-key lookup reads [begin,
\* strinc(end)) (a single get when begin = end); an index scan outputs a
\* document once however many of its entries are in range (PlanIndexScan
\* checks deduplicateIndexStream does so); a union does not deduplicate.
RECURSIVE Count(_, _)
Count(p, d) ==
    CASE p.kind = "TableScan" -> 1
      [] p.kind = "PKLookup" -> IF InRange(d, p.lo, p.hi) THEN 1 ELSE 0
      [] p.kind = "IndexScan" /\ Len(p.index) = 1 ->
            IF \E v \in FieldVals(p.index[1], d) : InRange(v, p.lo, p.hi) THEN 1 ELSE 0
      [] p.kind = "IndexScan" ->
            IF \E v \in FieldVals(p.index[2], d) :
                  p.fix \in FieldVals(p.index[1], d) /\ InRange(v, p.lo, p.hi)
            THEN 1 ELSE 0
      [] p.kind = "Filter" -> IF Eval(p.filter, d) THEN Count(p.srcs[1], d) ELSE 0
      [] p.kind = "Union" -> Count(p.srcs[1], d) + Count(p.srcs[2], d)
      [] p.kind = "Empty" -> 0
=============================================================================
