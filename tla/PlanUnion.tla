------------------------------ MODULE PlanUnion ------------------------------
(***************************************************************************)
(* A UnionPlan of two primary-key scans under a non-isolated read-only     *)
(* query (QLPlan.actor.cpp):                                               *)
(*                                                                         *)
(*   NonIsolatedPlan(Union(PrimaryKeyLookup_1, PrimaryKeyLookup_2))        *)
(*                                                                         *)
(* Each side is either a range lookup (doPKScan over getDescendants) or a  *)
(* point lookup (begin == end: doSinglePKLookup).  doUnion forwards what   *)
(* either side sends and ends once both sides have ended.  The sides have  *)
(* their own scan IDs, so each has its own entry in the PlanCheckpoint.    *)
(*                                                                         *)
(* Keys are abstracted as in PlanExecution: 0 is "", document d has the    *)
(* primary key d and END = N+1 is "\xff".  Only the documents in Present   *)
(* exist.  doUnion is synchronous (it waits on both sides and sends at     *)
(* once), so a side's send or end_of_stream reaches the union's output, or *)
(* the union's open flags, in the same step.  The collection's metadata is *)
(* not changed here; PlanExecution models the metadata check.              *)
(***************************************************************************)
EXTENDS Integers, Sequences, SequencesExt, FiniteSets

CONSTANTS
    N,             \* primary keys 1..N
    Cells,         \* KV cells per document
    Present,       \* the documents that exist
    Queries,       \* the unions a query may be: pairs of sides, each
                   \* [kind |-> "range" | "point", lo, hi]
    Permits,       \* FLOW_CONTROL_LOCK_PERMITS of each PlanCheckpoint
    OuterPermits,  \* permits of the outer checkpoint's lock
    MaxSegments,   \* bound on the transactions of the query
    SlowFirstRead, \* may the timer fire before a range scan emits?
    SlowPointRead  \* may the timer fire while a point lookup is pending?

END == N + 1
Keys == 0..END
Docs == 1..N
NoKey == <<0, 0>>
SideIds == 1..2

ASSUME /\ N \in Nat \ {0} /\ Cells \in Nat \ {0} /\ Present \subseteq Docs
       /\ Queries \subseteq [SideIds -> [kind : {"range", "point"}, lo : Keys, hi : Keys]]
       /\ \A u \in Queries : \A s \in SideIds : u[s].lo <= u[s].hi
       /\ Permits \in Nat \ {0} /\ OuterPermits \in Nat \ {0}
       /\ MaxSegments \in Nat \ {0}
       /\ SlowFirstRead \in BOOLEAN /\ SlowPointRead \in BOOLEAN

VARIABLES
    Sides,     \* Sides[s]: the sub-plan of side s, fixed for the whole run
    ckpt,      \* ckpt[s]: scan s of the inner PlanCheckpoint
    sc,        \* sc[s]: the doPKScan or doSinglePKLookup actor of side s
    open,      \* open[s]: doUnion's aOpen / bOpen
    q,         \* documents sent by doUnion, not yet received by RO
    ended,     \* doUnion has sent end_of_stream
    active,    \* permits taken from the inner checkpoint's lock
    ro,        \* the doNonIsolatedRO actor
    out,       \* doNonIsolatedRO's output stream
    outEnd,    \* how that stream was terminated ("none" while open)
    outActive, \* permits taken from the outer checkpoint's lock
    delivered  \* documents consumed by the final consumer, in order

vars == <<Sides, ckpt, sc, open, q, ended, active, ro, out, outEnd, outActive,
          delivered>>

-----------------------------------------------------------------------------
(* Documents each side of an uninterrupted execution outputs.              *)

SideDocs(s) ==
    IF Sides[s].kind = "range"
    THEN {d \in Present : Sides[s].lo <= d /\ d < Sides[s].hi}
    ELSE {Sides[s].lo} \cap Present

ExpectedDocs == UNION {SideDocs(s) : s \in SideIds}

-----------------------------------------------------------------------------
(* PlanCheckpoint and PrimaryKeyLookupPlan::execute                        *)

\* A scan's entry in a new PlanCheckpoint: bounds ["", "\xff"), split "\xff".
NewScanEntry == [begin |-> 0, end |-> END, split |-> END]

\* The first cell getDescendants returns at or after document d.
FirstCell(d) == <<Min({e \in Present \cup {END} : e >= d}), 1>>

\* The kv that follows kv in a range read.
NextCell(kv) == IF kv[2] < Cells THEN <<kv[1], kv[2] + 1>> ELSE FirstCell(kv[1] + 1)

\* Mutant: the point lookup ignores the checkpoint's bounds.
NewSideNoBounds(s, c) ==
    IF Sides[s].kind = "point"
    THEN [phase |-> "get", pos |-> NoKey, hi |-> END, lastPK |-> 0, lastKey |-> NoKey]
    ELSE LET lo == IF Sides[s].lo > c.begin THEN Sides[s].lo ELSE c.begin
             hiC == IF Sides[s].hi < c.end THEN Sides[s].hi ELSE c.end
         IN  [phase |-> "read", pos |-> FirstCell(lo),
              hi |-> IF lo > hiC THEN lo ELSE hiC, lastPK |-> 0, lastKey |-> NoKey]

\* execute() for side s on checkpoint entry c.  A point lookup whose key is
\* outside getBounds(scanID) ends at once; otherwise it waits on get(x).  A
\* range lookup reads [max(begin, bounds.begin), max(that, min(end, bounds.end))).
NewSide(s, c) ==
    IF Sides[s].kind = "point"
    THEN [phase |-> IF c.begin <= Sides[s].lo /\ Sides[s].lo < c.end
                    THEN "get" ELSE "done",
          pos |-> NoKey, hi |-> END, lastPK |-> 0, lastKey |-> NoKey]
    ELSE LET lo == IF Sides[s].lo > c.begin THEN Sides[s].lo ELSE c.begin
             hiC == IF Sides[s].hi < c.end THEN Sides[s].hi ELSE c.end
         IN  [phase |-> "read", pos |-> FirstCell(lo),
              hi |-> IF lo > hiC THEN lo ELSE hiC, lastPK |-> 0, lastKey |-> NoKey]

\* UnionPlan::execute: both sides, then doUnion, whose open flags are
\* cleared at once for a side that has already ended.
OpenFlags(scs) == [s \in SideIds |-> scs[s].phase # "done"]

-----------------------------------------------------------------------------
(* doUnion                                                                 *)

\* Mutant: doUnion ends as soon as either side ends.
SideEndsEarly(s) ==
    /\ open' = [open EXCEPT ![s] = FALSE]
    /\ ended' = TRUE

\* Side s has sent end_of_stream: doUnion clears its open flag and, once
\* neither side is open, sends end_of_stream itself.
SideEnds(s) ==
    /\ open' = [open EXCEPT ![s] = FALSE]
    /\ ended' = \A t \in SideIds : ~open'[t]

-----------------------------------------------------------------------------
(* doPKScan (a range side)                                                 *)

\* waitNext(kvs): a new primary key goes to the permit wait, another cell
\* of the last document only moves lastKey; the end of the range ends the
\* scan, and doUnion sees end_of_stream on that side.
ScanRead(s) ==
    /\ Sides[s].kind = "range"
    /\ sc[s].phase = "read"
    /\ \/ /\ sc[s].pos[1] < sc[s].hi /\ sc[s].pos[1] <= N
          /\ sc' = [sc EXCEPT ![s] =
                      IF sc[s].pos[1] # sc[s].lastPK
                      THEN [sc[s] EXCEPT !.phase = "take", !.lastPK = sc[s].pos[1]]
                      ELSE [sc[s] EXCEPT !.lastKey = sc[s].pos,
                                         !.pos = NextCell(sc[s].pos)]]
          /\ UNCHANGED <<open, ended>>
       \/ /\ sc[s].pos[1] >= sc[s].hi \/ sc[s].pos[1] > N
          /\ sc' = [sc EXCEPT ![s].phase = "done"]
          /\ SideEnds(s)
    /\ UNCHANGED <<Sides, ckpt, q, active, ro, out, outEnd, outActive, delivered>>

\* Mutant: the document is sent without waiting for a permit.
ScanTakeNoWait(s) ==
    /\ Sides[s].kind = "range"
    /\ sc[s].phase = "take"
    /\ active' = active + 1
    /\ q' = Append(q, sc[s].pos[1])
    /\ sc' = [sc EXCEPT ![s] = [sc[s] EXCEPT !.phase = "read", !.lastKey = sc[s].pos,
                                             !.pos = NextCell(sc[s].pos)]]
    /\ UNCHANGED <<Sides, ckpt, open, ended, ro, out, outEnd, outActive, delivered>>

\* outputLock->take(1), send (doUnion forwards it at once), move lastKey.
ScanTake(s) ==
    /\ Sides[s].kind = "range"
    /\ sc[s].phase = "take"
    /\ active < Permits
    /\ active' = active + 1
    /\ q' = Append(q, sc[s].pos[1])
    /\ sc' = [sc EXCEPT ![s] = [sc[s] EXCEPT !.phase = "read", !.lastKey = sc[s].pos,
                                             !.pos = NextCell(sc[s].pos)]]
    /\ UNCHANGED <<Sides, ckpt, open, ended, ro, out, outEnd, outActive, delivered>>

\* doPKScan's cancellation handler: strinc of lastKey's primary key, any
\* key when lastKey is still empty.
ScanSplits(s) ==
    IF sc[s].lastKey = NoKey THEN Keys ELSE {sc[s].lastKey[1] + 1}

-----------------------------------------------------------------------------
(* doSinglePKLookup (a point side)                                         *)

\* Mutant: an absent document ends the actor without end_of_stream.
PointGetAbsentNoEnd(s) ==
    /\ Sides[s].kind = "point"
    /\ sc[s].phase = "get"
    /\ sc' = [sc EXCEPT ![s].phase = IF Sides[s].lo \in Present THEN "take" ELSE "done"]
    /\ UNCHANGED <<Sides, ckpt, q, open, ended, active, ro, out, outEnd, outActive, delivered>>

\* get(x) returns: an absent document ends the lookup (end_of_stream), a
\* present one goes to the permit wait.
PointGet(s) ==
    /\ Sides[s].kind = "point"
    /\ sc[s].phase = "get"
    /\ \/ /\ Sides[s].lo \in Present
          /\ sc' = [sc EXCEPT ![s].phase = "take"]
          /\ UNCHANGED <<open, ended>>
       \/ /\ Sides[s].lo \notin Present
          /\ sc' = [sc EXCEPT ![s].phase = "done"]
          /\ SideEnds(s)
    /\ UNCHANGED <<Sides, ckpt, q, active, ro, out, outEnd, outActive, delivered>>

\* Mutant: the lookup returns after the send without end_of_stream.
PointTakeNoEnd(s) ==
    /\ Sides[s].kind = "point"
    /\ sc[s].phase = "take"
    /\ active < Permits
    /\ active' = active + 1
    /\ q' = Append(q, Sides[s].lo)
    /\ sc' = [sc EXCEPT ![s].phase = "done"]
    /\ UNCHANGED <<Sides, ckpt, open, ended, ro, out, outEnd, outActive, delivered>>

\* flowControlLock->take(1), send the document, throw end_of_stream.
PointTake(s) ==
    /\ Sides[s].kind = "point"
    /\ sc[s].phase = "take"
    /\ active < Permits
    /\ active' = active + 1
    /\ q' = Append(q, Sides[s].lo)
    /\ sc' = [sc EXCEPT ![s].phase = "done"]
    /\ SideEnds(s)
    /\ UNCHANGED <<Sides, ckpt, ro, out, outEnd, outActive, delivered>>

\* The splits side s can leave when cancelled: doSinglePKLookup has no
\* cancellation branch, and an actor that has finished writes nothing, so
\* the split keeps its default "\xff".
SideSplits(s) ==
    IF Sides[s].kind = "range" /\ sc[s].phase # "done" THEN ScanSplits(s) ELSE {END}

\* No document of side s is half-way when the timer fires: a range scan
\* has emitted in this segment (or ended), a point lookup has ended.
Settled(s) ==
    IF Sides[s].kind = "range"
    THEN SlowFirstRead \/ sc[s].lastKey # NoKey \/ sc[s].phase = "done"
    ELSE SlowPointRead \/ sc[s].phase = "done"

-----------------------------------------------------------------------------
(* doNonIsolatedRO                                                         *)

\* waitNext(docs) in the choose, then wait(outerLock->take(1)).
ROReceive ==
    /\ ro.phase = "choose"
    /\ q # <<>>
    /\ ro' = [ro EXCEPT !.phase = "take", !.held = Head(q)]
    /\ q' = Tail(q)
    /\ UNCHANGED <<Sides, ckpt, sc, open, ended, active, out, outEnd, outActive, delivered>>

\* Mutant: the inner permit is not released.
ROForwardNoRelease ==
    /\ ro.phase = "take"
    /\ outActive < OuterPermits
    /\ outActive' = outActive + 1
    /\ out' = Append(out, ro.held)
    /\ ro' = [ro EXCEPT !.phase = "choose", !.held = 0]
    /\ UNCHANGED <<Sides, ckpt, sc, open, q, ended, active, outEnd, delivered>>

\* The outer permit is taken, the inner one released, the document sent.
ROForward ==
    /\ ro.phase = "take"
    /\ outActive < OuterPermits
    /\ outActive' = outActive + 1
    /\ active' = active - 1
    /\ out' = Append(out, ro.held)
    /\ ro' = [ro EXCEPT !.phase = "choose", !.held = 0]
    /\ UNCHANGED <<Sides, ckpt, sc, open, q, ended, outEnd, delivered>>

\* waitNext(docs) throws end_of_stream: the output stream ends.
ROEnd ==
    /\ ro.phase = "choose"
    /\ q = <<>>
    /\ ended
    /\ outEnd' = "end_of_stream"
    /\ ro' = [ro EXCEPT !.phase = "done"]
    /\ UNCHANGED <<Sides, ckpt, sc, open, q, ended, active, out, outActive, delivered>>

\* The timer wins the choose: stopAndCheckpoint() cancels both sides and
\* doUnion; each side's rest is [split, end).  The new transaction sees the
\* same metadata version and the plan is executed on the new checkpoint.
ROTimeout ==
    /\ ro.phase = "choose"
    /\ q = <<>>
    /\ ~ended
    /\ ro.seg < MaxSegments
    /\ \A s \in SideIds : Settled(s)
    /\ \E sp \in SideSplits(1) \X SideSplits(2) :
          LET c == [s \in SideIds |-> [begin |-> sp[s], end |-> ckpt[s].end,
                                        split |-> END]]
              scs == [s \in SideIds |-> NewSide(s, c[s])]
          IN  /\ ckpt' = c
              /\ sc' = scs
              /\ open' = OpenFlags(scs)
              /\ ended' = \A s \in SideIds : ~open'[s]
    /\ q' = <<>>
    /\ active' = 0
    /\ ro' = [ro EXCEPT !.seg = @ + 1]
    /\ UNCHANGED <<Sides, out, outEnd, outActive, delivered>>

\* waitNext(stream), flowControlLock->release().
Consume ==
    /\ out # <<>>
    /\ delivered' = Append(delivered, Head(out))
    /\ out' = Tail(out)
    /\ outActive' = outActive - 1
    /\ UNCHANGED <<Sides, ckpt, sc, open, q, ended, active, ro, outEnd>>

-----------------------------------------------------------------------------

Init ==
    /\ Sides \in Queries
    /\ ckpt = [s \in SideIds |-> NewScanEntry]
    /\ sc = [s \in SideIds |-> NewSide(s, NewScanEntry)]
    /\ open = OpenFlags(sc)
    /\ ended = \A s \in SideIds : ~open[s]
    /\ q = <<>>
    /\ active = 0
    /\ ro = [phase |-> "choose", held |-> 0, seg |-> 1]
    /\ out = <<>>
    /\ outEnd = "none"
    /\ outActive = 0
    /\ delivered = <<>>

Next ==
    \/ \E s \in SideIds : ScanRead(s) \/ ScanTake(s) \/ PointGet(s) \/ PointTake(s)
    \/ ROReceive \/ ROForward \/ ROEnd \/ ROTimeout
    \/ Consume

\* Every actor whose future is ready eventually runs; the timer need not fire.
Fairness ==
    /\ \A s \in SideIds : /\ WF_vars(ScanRead(s)) /\ WF_vars(ScanTake(s))
                         /\ WF_vars(PointGet(s)) /\ WF_vars(PointTake(s))
    /\ WF_vars(ROReceive) /\ WF_vars(ROForward) /\ WF_vars(ROEnd)
    /\ WF_vars(Consume)

Spec == Init /\ [][Next]_vars /\ Fairness

-----------------------------------------------------------------------------
(* Properties                                                              *)

TypeOK ==
    /\ Sides \in Queries
    /\ ckpt \in [SideIds -> [begin : Keys, end : Keys, split : Keys]]
    /\ \A s \in SideIds : sc[s].phase \in {"read", "take", "get", "done"}
    /\ open \in [SideIds -> BOOLEAN] /\ ended \in BOOLEAN
    /\ q \in Seq(Docs) /\ out \in Seq(Docs) /\ delivered \in Seq(Docs)
    /\ active \in 0..Permits /\ outActive \in 0..OuterPermits
    /\ ro.phase \in {"choose", "take", "done"}
    /\ outEnd \in {"none", "end_of_stream"}

Emitted == delivered \o out

\* Across all transactions the union outputs each document at most once,
\* only documents one of its sides selects, and each range side's documents
\* in key order: doUnion interleaves the sides, and the checkpoint of every
\* side must resume exactly after what that side already output.
UnionExactlyOnce ==
    /\ IsInjective(Emitted)
    /\ Range(Emitted) \subseteq ExpectedDocs
    /\ \A s \in SideIds :
          IsPrefix(SelectSeq(Emitted, LAMBDA d : d \in SideDocs(s)),
                   SetToSortSeq(SideDocs(s), <))

\* When doNonIsolatedRO ends its output normally, every document of both
\* sides has been output: doUnion only ends after both of its inputs end.
UnionCompleteOnEnd ==
    outEnd = "end_of_stream" => Range(Emitted) = ExpectedDocs

\* Every permit of the inner lock is held by a document that a side has
\* sent and doNonIsolatedRO has not yet passed on.
PermitsTrackDocuments ==
    active = Len(q) + (IF ro.phase = "take" THEN 1 ELSE 0)

\* The query always finishes.
QueryTerminates == <>(outEnd # "none")
=============================================================================
