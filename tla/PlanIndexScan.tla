---------------------------- MODULE PlanIndexScan ----------------------------
(***************************************************************************)
(* An index range scan under a non-isolated read-only query               *)
(* (QLPlan.actor.cpp):                                                     *)
(*                                                                         *)
(*   NonIsolatedPlan(IndexScan(index, begin, end))                         *)
(*                                                                         *)
(* The index is simple, on field a, or compound, on (a, b).  A simple     *)
(* scan reads Lo <= a <= Hi; a compound scan, the one                      *)
(* IndexScanPlan::push_down builds, reads a = Fix and Lo <= b <= Hi.       *)
(* IndexScanPlan::execute reads the index entries in [lowerBound,          *)
(* upperBound) with toDocInfo, which emits one document per entry, and     *)
(* deduplicateIndexStream, which keeps a document only at its last entry   *)
(* below upperBound (a document whose fields are arrays has one entry per *)
(* combination of values).  An equality scan of a simple index skips the  *)
(* deduplicator.  doNonIsolatedRO forwards, checkpoints and re-executes as *)
(* in PlanExecution; the collection's metadata does not change here.       *)
(*                                                                         *)
(* Keys are encoded as integers that keep their order and prefixes: the    *)
(* key of the digits <<x1, ..., xj>> (j <= 3, base R) is Enc, twice their *)
(* value padded with zero digits; an entry's key is Enc(values \o <<d>>),  *)
(* the bare encoded values are a prefix of all of their entries, and       *)
(* strinc of a prefix adds one to its last digit.  An odd key k + 1 is     *)
(* keyAfter(k), 0 is the empty key, 1 is "\x00" and END is "\xff".        *)
(***************************************************************************)
EXTENDS Integers, Sequences, SequencesExt, FiniteSets

CONSTANTS
    N,             \* documents 1..N
    V,             \* values 1..V of the indexed fields
    Vals,          \* Vals[d]: the values document d's field a holds
    BVals,         \* BVals[d]: the values document d's field b holds
    Scans,         \* the index scans [fields, fix, lo, hi] a query may run
    Permits,       \* FLOW_CONTROL_LOCK_PERMITS of each PlanCheckpoint
    OuterPermits,  \* permits of the outer checkpoint's lock
    MaxSegments,   \* bound on the transactions of the query
    SlowFirstRead  \* may the timer fire before toDocInfo reads an entry?

Docs == 1..N
Values == 1..V
R == IF V > N THEN V + 2 ELSE N + 2
Enc(digits) == 2 * FoldLeft(LAMBDA acc, x : acc * R + x, 0, digits) * R ^ (3 - Len(digits))
END == Enc(<<V + 1>>)
Keys == 0..END
KeyAfter(k) == k + 1

ASSUME /\ N \in Nat \ {0} /\ V \in Nat \ {0}
       /\ Vals \in [Docs -> SUBSET Values \ {{}}]
       /\ BVals \in [Docs -> SUBSET Values \ {{}}]
       /\ \A sc \in Scans :
             /\ sc.fields \in {<<"a">>, <<"a", "b">>}
             /\ sc.fix \in IF Len(sc.fields) = 1 THEN {0} ELSE Values
             /\ sc.lo \in Values /\ sc.hi \in Values /\ sc.lo <= sc.hi
       /\ Permits \in Nat \ {0} /\ OuterPermits \in Nat \ {0}
       /\ MaxSegments \in Nat \ {0} /\ SlowFirstRead \in BOOLEAN

FieldVals(f, d) == IF f = "a" THEN Vals[d] ELSE BVals[d]

VARIABLES
    ix,        \* the scan the query runs (chosen once)
    ckpt,      \* scan 0 of the inner PlanCheckpoint: [begin, end, split]
    scan,      \* the toDocInfo actor
    dq,        \* deduplicateIndexStream's deque of entries
    q,         \* documents sent by deduplicateIndexStream, not yet received
    ended,     \* ended[1]: toDocInfo sent end_of_stream; ended[2]: dedup did
    active,    \* permits taken from the inner checkpoint's lock
    ro,        \* the doNonIsolatedRO actor
    out,       \* doNonIsolatedRO's output stream
    outEnd,    \* how that stream was terminated ("none" while open)
    outActive, \* permits taken from the outer checkpoint's lock
    delivered  \* documents consumed by the final consumer, in order

vars == <<ix, ckpt, scan, dq, q, ended, active, ro, out, outEnd, outActive,
          delivered>>

\* The combinations of a document's values of scan sc's index fields:
\* the cartesian product compoundWouldBeLast builds (one per index entry).
IndexTuples(sc, d) ==
    {t \in TupleOf(Values, Len(sc.fields)) :
        \A i \in 1..Len(sc.fields) : t[i] \in FieldVals(sc.fields[i], d)}

\* The index entries: key, the indexed values and the document.
EntriesOf(sc) ==
    UNION {{[key |-> Enc(t \o <<d>>), val |-> t, doc |-> d] : t \in IndexTuples(sc, d)} : d \in Docs}

\* begin and end: the encoded fixed prefix, if any, then lo and hi;
\* the upper bound of a scan from the start is strinc(end).
Prefix(sc) == IF Len(sc.fields) = 1 THEN <<>> ELSE <<sc.fix>>
QueryBegin(sc) == Enc(Prefix(sc) \o <<sc.lo>>)
QueryUpper(sc) == Enc(Prefix(sc) \o <<sc.hi + 1>>)

-----------------------------------------------------------------------------
(* The uninterrupted execution's output                                    *)

InQuery(sc, e) == QueryBegin(sc) <= e.key /\ e.key < QueryUpper(sc)

\* A matching document is emitted once, at its last entry in the range.
ExpectedOf(sc) ==
    LET hits(d) == {e.key : e \in {x \in EntriesOf(sc) : x.doc = d /\ InQuery(sc, x)}}
    IN  SetToSortSeq({d \in Docs : hits(d) # {}}, LAMBDA x, y : Max(hits(x)) < Max(hits(y)))

Entries == EntriesOf(ix)
Expected == ExpectedOf(ix)

-----------------------------------------------------------------------------
(* IndexScanPlan::execute and toDocInfo                                    *)

\* A scan's entry in a new PlanCheckpoint: bounds ["", "\xff"), split "\xff".
NewScanEntry == [begin |-> 0, end |-> END, split |-> END]

\* lowerBound = max(begin, bounds.begin) and upperBound = max(lowerBound,
\* min(strinc(end), bounds.end)): toDocInfo is created reading from there.
NewScan(c) ==
    LET lower == IF QueryBegin(ix) > c.begin THEN QueryBegin(ix) ELSE c.begin
        upC == IF QueryUpper(ix) < c.end THEN QueryUpper(ix) ELSE c.end
    IN  [phase |-> "read", from |-> lower, upper |-> IF lower > upC THEN lower ELSE upC,
         cur |-> 0, lastKey |-> 0]

\* The entries getDescendants still returns to the scan.
Remaining(s) == {e \in Entries : s.from <= e.key /\ e.key < s.upper}

\* deduplicateIndexStream is added unless the scan is an equality on a
\* simple index, whose documents have one entry each in the range.
Dedup == ~(Len(ix.fields) = 1 /\ ix.lo = ix.hi)

\* dis.send(output): to the deduplicator's deque, or, without one, to the
\* stream doNonIsolatedRO reads.
SendEntry(e) ==
    IF Dedup THEN dq' = Append(dq, e) /\ q' = q
             ELSE q' = Append(q, e.doc) /\ dq' = dq

\* Stream 1's end_of_stream reaches stream 2 once the deque is drained.
EndFlows(e, d) == IF e[1] /\ d = <<>> THEN [e EXCEPT ![2] = TRUE] ELSE e

\* waitNext(index_keys): the next entry goes to the permit wait; at the end
\* of the range toDocInfo sends end_of_stream.
ScanRead ==
    /\ scan.phase = "read"
    /\ \/ /\ Remaining(scan) # {}
          /\ LET e == CHOOSE x \in Remaining(scan) :
                        \A y \in Remaining(scan) : x.key <= y.key
             IN  scan' = [scan EXCEPT !.phase = "take", !.cur = e.key]
          /\ UNCHANGED ended
       \/ /\ Remaining(scan) = {}
          /\ scan' = [scan EXCEPT !.phase = "done"]
          /\ ended' = EndFlows([ended EXCEPT ![1] = TRUE], dq)
    /\ UNCHANGED <<ix, ckpt, dq, q, active, ro, out, outEnd, outActive, delivered>>

\* Mutant: the permit is not waited for.
ScanTakeNoWait ==
    /\ scan.phase = "take"
    /\ active' = active + 1
    /\ SendEntry(CHOOSE e \in Entries : e.key = scan.cur)
    /\ scan' = [scan EXCEPT !.phase = "read", !.lastKey = scan.cur,
                            !.from = scan.cur + 1]
    /\ UNCHANGED <<ix, ckpt, ended, ro, out, outEnd, outActive, delivered>>

\* outputLock->take(), lastKey := the entry, send it to the deduplicator.
ScanTake ==
    /\ scan.phase = "take"
    /\ active < Permits
    /\ active' = active + 1
    /\ SendEntry(CHOOSE e \in Entries : e.key = scan.cur)
    /\ scan' = [scan EXCEPT !.phase = "read", !.lastKey = scan.cur,
                            !.from = scan.cur + 1]
    /\ UNCHANGED <<ix, ckpt, ended, ro, out, outEnd, outActive, delivered>>

\* toDocInfo's cancellation handler: keyAfter(lastKey).
ScanSplit == KeyAfter(scan.lastKey)

-----------------------------------------------------------------------------
(* simpleWouldBeLast and deduplicateIndexStream                            *)

\* The largest of a document's key parts below upperBound ("" if none):
\* the parts sorted, then searched from the back.
LastKeyPart(d, upper) ==
    LET below == {p \in {Enc(t) : t \in IndexTuples(ix, d)} : p < upper}
    IN  IF below = {} THEN 0 ELSE Max(below)

\* doc->scanKey().startsWith(last): the entry's values are last's (every
\* key starts with the empty one).
StartsWith(e, part) == part = 0 \/ part = Enc(e.val)

\* simpleWouldBeLast: a document with one value passes; otherwise the
\* entry passes when it is at the largest value below upperBound.
WouldBeLast(e, upper) ==
    \/ Cardinality(FieldVals(ix.fields[1], e.doc)) = 1
    \/ StartsWith(e, LastKeyPart(e.doc, upper))

\* Mutant: the largest combination is taken without comparing it with
\* upperBound.
CompoundWouldBeLastNoBound(e, upper) ==
    \/ Cardinality(IndexTuples(ix, e.doc)) = 1
    \/ StartsWith(e, Max({Enc(t) : t \in IndexTuples(ix, e.doc)}))

\* compoundWouldBeLast: the same over the cartesian product of the values
\* of every indexed field; old_values_size is the product's size.
CompoundWouldBeLast(e, upper) ==
    \/ Cardinality(IndexTuples(ix, e.doc)) = 1
    \/ StartsWith(e, LastKeyPart(e.doc, upper))

\* self.size() == 1 ? simpleWouldBeLast : compoundWouldBeLast
Pass(e) ==
    IF Len(ix.fields) = 1 THEN WouldBeLast(e, scan.upper)
    ELSE CompoundWouldBeLast(e, scan.upper)

\* Mutant: a dropped entry does not release its permit.
DedupCompleteNoRelease ==
    /\ dq # <<>>
    /\ LET pass == Pass(Head(dq))
       IN  /\ q' = IF pass THEN Append(q, Head(dq).doc) ELSE q
           /\ UNCHANGED active
    /\ dq' = Tail(dq)
    /\ ended' = EndFlows(ended, dq')
    /\ UNCHANGED <<ix, ckpt, scan, ro, out, outEnd, outActive, delivered>>

\* The head's wouldBeLast future resolves: the document is sent on, or
\* dropped and its permit released; after end_of_stream the deque drains.
DedupComplete ==
    /\ dq # <<>>
    /\ LET pass == Pass(Head(dq))
       IN  /\ q' = IF pass THEN Append(q, Head(dq).doc) ELSE q
           /\ active' = IF pass THEN active ELSE active - 1
    /\ dq' = Tail(dq)
    /\ ended' = EndFlows(ended, dq')
    /\ UNCHANGED <<ix, ckpt, scan, ro, out, outEnd, outActive, delivered>>

\* Mutant: the handler writes the keys in output order (the tail wins).
DedupSplitForward(s) == IF dq = <<>> THEN s ELSE Last(dq).key

\* deduplicateIndexStream's cancellation handler, after toDocInfo's: the
\* scan keys of the held entries from the back, so the head's wins.
DedupSplit(s) == IF dq = <<>> THEN s ELSE Head(dq).key

-----------------------------------------------------------------------------
(* doNonIsolatedRO                                                         *)

\* waitNext(docs) in the choose, then wait(outerLock->take(1)).
ROReceive ==
    /\ ro.phase = "choose"
    /\ q # <<>>
    /\ ro' = [ro EXCEPT !.phase = "take", !.held = Head(q)]
    /\ q' = Tail(q)
    /\ UNCHANGED <<ix, ckpt, scan, dq, ended, active, out, outEnd, outActive, delivered>>

\* The outer permit is taken, the inner one released, the document sent.
ROForward ==
    /\ ro.phase = "take"
    /\ outActive < OuterPermits
    /\ outActive' = outActive + 1
    /\ active' = active - 1
    /\ out' = Append(out, ro.held)
    /\ ro' = [ro EXCEPT !.phase = "choose", !.held = 0]
    /\ UNCHANGED <<ix, ckpt, scan, dq, q, ended, outEnd, delivered>>

\* waitNext(docs) throws end_of_stream: the output stream ends.
ROEnd ==
    /\ ro.phase = "choose"
    /\ q = <<>>
    /\ ended[2]
    /\ outEnd' = "end_of_stream"
    /\ ro' = [ro EXCEPT !.phase = "done"]
    /\ UNCHANGED <<ix, ckpt, scan, dq, q, ended, active, out, outActive, delivered>>

\* The split stopAndCheckpoint() collects: toDocInfo's handler runs first
\* (unless it has ended, leaving "\xff"), then the deduplicator's.
CheckpointSplit == DedupSplit(IF scan.phase = "done" THEN ckpt.split ELSE ScanSplit)

\* The timer wins the choose: stopAndCheckpoint(), a new transaction with
\* the same metadata version, and the plan executed on the checkpoint.
ROTimeout ==
    /\ ro.phase = "choose"
    /\ q = <<>>
    /\ ~ended[2]
    /\ ro.seg < MaxSegments
    /\ SlowFirstRead \/ scan.lastKey # 0 \/ scan.phase = "done"
    /\ LET c == [begin |-> CheckpointSplit, end |-> ckpt.end, split |-> END]
       IN  /\ ckpt' = c
           /\ scan' = NewScan(c)
    /\ dq' = <<>>
    /\ ended' = <<FALSE, FALSE>>
    /\ active' = 0
    /\ ro' = [ro EXCEPT !.seg = @ + 1]
    /\ UNCHANGED <<ix, q, out, outEnd, outActive, delivered>>

\* waitNext(stream), flowControlLock->release().
Consume ==
    /\ out # <<>>
    /\ delivered' = Append(delivered, Head(out))
    /\ out' = Tail(out)
    /\ outActive' = outActive - 1
    /\ UNCHANGED <<ix, ckpt, scan, dq, q, ended, active, ro, outEnd>>

-----------------------------------------------------------------------------

Init ==
    /\ ix \in Scans
    /\ ckpt = NewScanEntry
    /\ scan = NewScan(NewScanEntry)
    /\ dq = <<>>
    /\ q = <<>>
    /\ ended = <<FALSE, FALSE>>
    /\ active = 0
    /\ ro = [phase |-> "choose", held |-> 0, seg |-> 1]
    /\ out = <<>>
    /\ outEnd = "none"
    /\ outActive = 0
    /\ delivered = <<>>

Next ==
    \/ ScanRead \/ ScanTake \/ DedupComplete
    \/ ROReceive \/ ROForward \/ ROEnd \/ ROTimeout
    \/ Consume

\* Every actor whose future is ready eventually runs; the timer need not fire.
Fairness ==
    /\ WF_vars(ScanRead) /\ WF_vars(ScanTake) /\ WF_vars(DedupComplete)
    /\ WF_vars(ROReceive) /\ WF_vars(ROForward) /\ WF_vars(ROEnd)
    /\ WF_vars(Consume)

Spec == Init /\ [][Next]_vars /\ Fairness

-----------------------------------------------------------------------------
(* Properties                                                              *)

TypeOK ==
    /\ ix \in Scans
    /\ ckpt \in [begin : Keys, end : Keys, split : Keys]
    /\ scan.phase \in {"read", "take", "done"}
    /\ dq \in Seq(Entries) /\ q \in Seq(Docs)
    /\ out \in Seq(Docs) /\ delivered \in Seq(Docs)
    /\ ended \in BOOLEAN \X BOOLEAN
    /\ active \in 0..Permits /\ outActive \in 0..OuterPermits
    /\ ro.phase \in {"choose", "take", "done"}
    /\ outEnd \in {"none", "end_of_stream"}

\* Across all transactions the index scan outputs every matching document
\* once, at its last entry below the upper bound, in index order: the
\* deduplicator drops the other entries of an array-valued document, and
\* every checkpoint resumes at the first entry whose document is not out.
IndexExactlyOnceInOrder == IsPrefix(delivered \o out, Expected)

\* Every permit of the inner lock is held by an entry in the deduplicator's
\* deque, a document it sent, or the document doNonIsolatedRO holds.
PermitsTrackEntries ==
    active = Len(dq) + Len(q) + (IF ro.phase = "take" THEN 1 ELSE 0)

Stream == INSTANCE QueryStream
              WITH Queries <- Scans, ResultOf <- ExpectedOf,
                   query <- ix, emitted <- delivered \o out,
                   status <- IF outEnd = "none" THEN "open" ELSE outEnd

\* Every step of the index scan under doNonIsolatedRO is a step of the
\* abstract query stream: matching documents once each, in index order,
\* end_of_stream only after the last one, and eventually a close, however
\* the deduplicator, simpleWouldBeLast and the checkpoints cut the scan.
StreamRefinement == Stream!Spec
=============================================================================
