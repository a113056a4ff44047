---------------------------- MODULE PlanExecution ----------------------------
(***************************************************************************)
(* The streaming plan executor and the checkpoint / split-bound protocol   *)
(* of QLPlan.actor.cpp, for a linear plan                                  *)
(*                                                                         *)
(*   NonIsolatedPlan(Stage_K(... Stage_1(TableScan | PK range) ...))       *)
(*                                                                         *)
(* driven by executeUntilCompletionTransactionally.  One scan (doPKScan)   *)
(* reads the KV cells of the documents in its range and emits each         *)
(* document once, taking a permit of the inner PlanCheckpoint's flow-      *)
(* control lock.  Each stage is one of the head-queue actors doFilter,     *)
(* doProject, doFlushChanges, or doSkip, whose count of documents still to *)
(* skip is the checkpoint's int state.  The last stage may be doSort: it   *)
(* runs the stages below it on its own inner checkpoint and, once its      *)
(* input has ended, sends what it received in sort-key order (such a plan  *)
(* is run in one transaction, as doSort writes no split).                  *)
(* doNonIsolatedRO forwards documents to its consumer and, when its timer  *)
(* fires, calls stopAndCheckpoint(), opens a new transaction, re-checks    *)
(* the collection metadata and re-executes the plan on the returned        *)
(* checkpoint.                                                             *)
(*                                                                         *)
(* Keys are abstracted to integers: 0 is "" / "\x00", document d has the   *)
(* primary key d (1..N) and END = N+1 is "\xff".  The scan key of a        *)
(* document is the key of its first cell, which bounds exactly like d;     *)
(* strinc(d) bounds exactly like d+1.                                      *)
(*                                                                         *)
(* Flow delivers a PromiseStream.send() synchronously to an actor waiting  *)
(* on the stream, and every stage always waits on its input (the Plan      *)
(* contract, lines 45-47), so a document sent to stage i is at once in     *)
(* stage i's deque: q[i].  q[K+1] is the stream read by doNonIsolatedRO,   *)
(* which does not always wait on it.                                       *)
(***************************************************************************)
EXTENDS Integers, Sequences, SequencesExt, FiniteSets

CONSTANTS
    N,              \* documents in the collection, primary keys 1..N
    Cells,          \* KV cells per document (getDescendants returns each)
    ScanLo,         \* begin key of the scan (0 for a TableScan)
    ScanHi,         \* end key of the scan, exclusive (END for a TableScan)
    Plans,          \* the plans a query may have: [stages, segments, skip]
    Pass,           \* documents the Filter predicate accepts
    SortKey,        \* the sort key of each document, for doSort
    Permits,        \* FLOW_CONTROL_LOCK_PERMITS of each PlanCheckpoint
    OuterPermits,   \* permits of the outer checkpoint's lock
    MaxMetaChanges, \* bound on concurrent metadata changes
    SlowFirstRead   \* may a segment's timer fire before its scan emits?

END == N + 1
Keys == 0..END
Docs == 1..N
NoKey == <<0, 0>>          \* the empty Key: lastKey before any cell is read
StageKinds == {"Filter", "Project", "Flush", "Skip", "Sort"}
Errors == {"collection_metadata_changed", "metadata_changed_nonisolated"}

ASSUME /\ N \in Nat \ {0} /\ Cells \in Nat \ {0}
       /\ ScanLo \in Keys /\ ScanHi \in Keys /\ ScanLo <= ScanHi
       /\ Plans \subseteq [stages : Seq(StageKinds), segments : Nat \ {0}, skip : Nat]
       /\ Pass \subseteq Docs /\ SortKey \in [Docs -> Nat]
       /\ \A p \in Plans : \A i \in DOMAIN p.stages :
             p.stages[i] = "Sort" => i = Len(p.stages) /\ p.segments = 1
       /\ Permits \in Nat \ {0} /\ OuterPermits \in Nat \ {0}
       /\ MaxMetaChanges \in Nat
       /\ SlowFirstRead \in BOOLEAN

VARIABLES
    plan,      \* the query's plan, chosen by the planner before execution
    ckpt,      \* the inner PlanCheckpoint: scan 0 [begin, end, split] and
               \* its int state (left)
    scan,      \* the doPKScan actor of the current segment
    q,         \* q[i]: documents received by stage i, not yet output
    ended,     \* ended[i]: end_of_stream has been sent into q[i]
    active,    \* permits taken from the inner checkpoint's lock
    ro,        \* the doNonIsolatedRO actor
    out,       \* doNonIsolatedRO's output stream
    outEnd,    \* how that stream was terminated ("none" while open)
    outActive, \* permits taken from the outer checkpoint's lock
    delivered, \* documents consumed by the final consumer, in order
    dbMeta,    \* the collection's metadata in the database
    sortHeld   \* permits doSort took from the checkpoint it runs on; with a
               \* doSort, active counts those of its inner checkpoint

vars == <<plan, ckpt, scan, q, ended, active, ro, out, outEnd, outActive,
          delivered, dbMeta, sortHeld>>

\* The stage kinds of the plan, Stages[1] reads the scan's output; a plan run
\* by executeUntilCompletionTransactionally in one transaction has
\* segments = 1, a NonIsolatedPlan a bound on its transactions.
Stages == plan.stages
K == Len(Stages)
MaxSegments == plan.segments
StageIds == UNION {1..Len(p.stages) : p \in Plans}
HasSort == K > 0 /\ Stages[K] = "Sort"

-----------------------------------------------------------------------------
(* Documents of the uninterrupted execution, in output order.              *)

InScan(d) == ScanLo <= d /\ d < ScanHi

\* The documents stage i onwards of plan p outputs when given s.
RECURSIVE Through(_, _, _)
Through(p, s, i) ==
    IF i > Len(p.stages) THEN s
    ELSE Through(p, CASE p.stages[i] = "Filter" -> SelectSeq(s, LAMBDA d : d \in Pass)
                      [] p.stages[i] = "Skip" -> SubSeq(s, p.skip + 1, Len(s))
                      [] p.stages[i] = "Sort" -> SortSeq(s, LAMBDA a, b : SortKey[a] < SortKey[b])
                      [] OTHER -> s,
                 i + 1)

ExpectedOf(p) == Through(p, SelectSeq([i \in Docs |-> i], InScan), 1)
Expected == ExpectedOf(plan)

-----------------------------------------------------------------------------
(* PlanCheckpoint                                                          *)

\* A new PlanCheckpoint: scan 0 with bounds ["", "\xff") and split "\xff";
\* doSkip's getIntState(skip) adds the int state with the skip as value.
NewScanEntry == [begin |-> 0, end |-> END, split |-> END, left |-> plan.skip]

\* The key range TableScanPlan / PrimaryKeyLookupPlan::execute pass to
\* getDescendants: their own range intersected with getBounds(scanID).
ScanRange(c) ==
    LET lo == IF ScanLo > c.begin THEN ScanLo ELSE c.begin
        hiC == IF ScanHi < c.end THEN ScanHi ELSE c.end
    IN  <<lo, IF lo > hiC THEN lo ELSE hiC>>

\* A doPKScan actor just created by execute(): reading its first cell.
NewScan(c) ==
    LET r == ScanRange(c)
    IN  [phase |-> "read", pos |-> <<IF r[1] < 1 THEN 1 ELSE r[1], 1>>,
         hi |-> r[2], lastPK |-> 0, lastKey |-> NoKey]

\* Stream i's end_of_stream reaches stream i+1 once stage i has output
\* everything it holds (the drain loop, then throw end_of_stream()).
RECURSIVE EndFlows(_, _, _)
EndFlows(e, qs, i) ==
    IF i > K THEN e
    ELSE EndFlows(IF e[i] /\ qs[i] = <<>> THEN [e EXCEPT ![i + 1] = TRUE]
                                         ELSE e, qs, i + 1)

\* The kv that follows kv in the range read.
NextCell(kv) == IF kv[2] < Cells THEN <<kv[1], kv[2] + 1>> ELSE <<kv[1] + 1, 1>>

\* send(d) into stream i, with the lock's permits and the int state: a
\* Flow send runs the receiving actor at once, so doSkip drops the document
\* (releasing its permit, --leftToSkip) or sends it on there and then;
\* doSort keeps it and releases its inner permit; any other stage puts it
\* in its deque.
RECURSIVE SendTo(_, _, _)
SendTo(st, i, d) ==
    CASE i <= K /\ Stages[i] = "Skip" /\ st.left # 0 ->
            [st EXCEPT !.active = @ - 1, !.left = @ - 1]
      [] i <= K /\ Stages[i] = "Skip" -> SendTo(st, i + 1, d)
      [] i <= K /\ Stages[i] = "Sort" -> [st EXCEPT !.q[i] = Append(@, d), !.active = @ - 1]
      [] OTHER -> [st EXCEPT !.q[i] = Append(@, d)]

\* The streams, permits and int state after a step.
Apply(st) ==
    /\ q' = st.q
    /\ ended' = EndFlows(ended, st.q, 1)
    /\ active' = st.active
    /\ ckpt' = [ckpt EXCEPT !.left = st.left]

\* Stage i's deque without its head.
Popped(i) == [q |-> [q EXCEPT ![i] = Tail(@)], active |-> active, left |-> ckpt.left]

-----------------------------------------------------------------------------
(* doPKScan                                                                *)

\* waitNext(kvs): a new primary key goes to the permit wait, another cell
\* of the last document only moves lastKey; end of the range ends the scan.
ScanRead ==
    /\ scan.phase = "read"
    /\ \/ /\ scan.pos[1] < scan.hi /\ scan.pos[1] <= N
          /\ scan' = IF scan.pos[1] # scan.lastPK
                     THEN [scan EXCEPT !.phase = "take", !.lastPK = scan.pos[1]]
                     ELSE [scan EXCEPT !.lastKey = scan.pos,
                                       !.pos = NextCell(scan.pos)]
          /\ UNCHANGED ended
       \/ /\ scan.pos[1] >= scan.hi \/ scan.pos[1] > N
          /\ scan' = [scan EXCEPT !.phase = "done"]
          /\ ended' = EndFlows([ended EXCEPT ![1] = TRUE], q, 1)
    /\ UNCHANGED <<plan, sortHeld, ckpt, q, active, ro, out, outEnd, outActive, delivered, dbMeta>>

\* outputLock->take(1), send the document, and only then move lastKey.
ScanTake ==
    /\ scan.phase = "take"
    /\ active < Permits
    /\ Apply(SendTo([q |-> q, active |-> active + 1, left |-> ckpt.left], 1, scan.pos[1]))
    /\ scan' = [scan EXCEPT !.phase = "read", !.lastKey = scan.pos,
                            !.pos = NextCell(scan.pos)]
    /\ UNCHANGED <<plan, sortHeld, ro, out, outEnd, outActive, delivered, dbMeta>>

\* The split doPKScan's cancellation handler writes: strinc of the primary
\* key of lastKey.  With lastKey still empty the code decodes an empty key
\* and takes its first part, which is undefined: any key may result.
ScanSplits ==
    IF scan.lastKey = NoKey THEN Keys ELSE {scan.lastKey[1] + 1}

-----------------------------------------------------------------------------
(* doFilter, doProject, doFlushChanges                                     *)

\* The head of stage i's deque leaves it, sent to stage i+1 when kept, its
\* permit released when not.
PopHead(i, keep) ==
    IF keep THEN SendTo(Popped(i), i + 1, Head(q[i]))
    ELSE [Popped(i) EXCEPT !.active = @ - 1]

\* Mutant: a permit is released for every document, passing or not.
FilterCompleteReleaseAll(i) ==
    /\ Stages[i] = "Filter"
    /\ q[i] # <<>>
    /\ Apply([PopHead(i, Head(q[i]) \in Pass) EXCEPT !.active = active - 1])
    /\ UNCHANGED <<plan, sortHeld, scan, ro, out, outEnd, outActive, delivered, dbMeta>>

\* doFilter: the head's predicate future resolves; a passing document is
\* sent on, a failing one dropped and its permit released.
FilterComplete(i) ==
    /\ Stages[i] = "Filter"
    /\ q[i] # <<>>
    /\ Apply(PopHead(i, Head(q[i]) \in Pass))
    /\ UNCHANGED <<plan, sortHeld, scan, ro, out, outEnd, outActive, delivered, dbMeta>>

\* doProject: the head's projection resolves and is sent on.
ProjectComplete(i) ==
    /\ Stages[i] = "Project"
    /\ q[i] # <<>>
    /\ Apply(PopHead(i, TRUE))
    /\ UNCHANGED <<plan, sortHeld, scan, ro, out, outEnd, outActive, delivered, dbMeta>>

\* Mutant: the head is sent on but not popped from the deque.
FlushCompleteNoPop(i) ==
    /\ Stages[i] = "Flush"
    /\ q[i] # <<>>
    /\ Apply(SendTo([q |-> q, active |-> active, left |-> ckpt.left], i + 1, Head(q[i])))
    /\ UNCHANGED <<plan, sortHeld, scan, ro, out, outEnd, outActive, delivered, dbMeta>>

\* doFlushChanges: the head's commitChanges() resolves and it is sent on.
FlushComplete(i) ==
    /\ Stages[i] = "Flush"
    /\ q[i] # <<>>
    /\ Apply(PopHead(i, TRUE))
    /\ UNCHANGED <<plan, sortHeld, scan, ro, out, outEnd, outActive, delivered, dbMeta>>

\* doSort once its input has ended: the sorted documents are sent in
\* order, each after outerLock->take(); then innerCheckpoint->stop() and
\* end_of_stream.  std::sort is not stable: of documents with equal keys
\* any one may come first.
SortEmit ==
    /\ HasSort
    /\ ended[K] /\ q[K] # <<>>
    /\ sortHeld < Permits
    /\ sortHeld' = sortHeld + 1
    /\ \E j \in DOMAIN q[K] :
          /\ \A k \in DOMAIN q[K] : SortKey[q[K][j]] <= SortKey[q[K][k]]
          /\ q' = [q EXCEPT ![K] = RemoveAt(@, j), ![K + 1] = Append(@, q[K][j])]
          /\ ended' = EndFlows(ended, q', 1)
    /\ UNCHANGED <<plan, ckpt, scan, active, ro, out, outEnd, outActive, delivered, dbMeta>>

\* Mutant: the handler iterates the deque in output order.
FilterCancelForward(i, s) == IF q[i] = <<>> THEN s ELSE Last(q[i])

\* Cancellation handlers, given the split written so far for the scan.
\* doFilter and doProject set splitBound(scanId) := scanKey for their
\* documents in reverse output order, so the head's key is written last.
FilterCancel(i, s) == IF q[i] = <<>> THEN s ELSE Head(q[i])
ProjectCancel(i, s) == IF q[i] = <<>> THEN s ELSE Head(q[i])
\* doFlushChanges sends the error on and writes no split; doSkip holds no
\* document and has no cancellation handler.
FlushCancel(i, s) == s
SkipCancel(i, s) == s

StageCancel(i, s) ==
    CASE Stages[i] = "Filter" -> FilterCancel(i, s)
      [] Stages[i] = "Project" -> ProjectCancel(i, s)
      [] Stages[i] = "Flush" -> FlushCancel(i, s)
      [] Stages[i] = "Skip" -> SkipCancel(i, s)

\* PlanCheckpoint::stop(): ops are cancelled in topological order, the
\* scan first, then stages 1..K; each handler may overwrite the split.
RECURSIVE CancelStages(_, _)
CancelStages(i, s) == IF i > K THEN s ELSE CancelStages(i + 1, StageCancel(i, s))

\* PlanCheckpoint::stopAndCheckpoint: the rest of the scan is [split, end)
\* and the int state keeps its current value (getIntState's split).
StopAndCheckpoint(scanSplit) ==
    [begin |-> CancelStages(1, scanSplit), end |-> ckpt.end, split |-> END,
     left |-> ckpt.left]

-----------------------------------------------------------------------------
(* doNonIsolatedRO                                                         *)

\* waitNext(docs) in the choose, then wait(outerLock->take(1)).
ROReceive ==
    /\ ro.phase = "choose"
    /\ q[K + 1] # <<>>
    /\ ro' = [ro EXCEPT !.phase = "take", !.held = Head(q[K + 1])]
    /\ q' = [q EXCEPT ![K + 1] = Tail(@)]
    /\ UNCHANGED <<plan, sortHeld, ckpt, scan, ended, active, out, outEnd, outActive, delivered, dbMeta>>

\* Mutant: the inner permit is not released.
ROForwardNoRelease ==
    /\ ro.phase = "take"
    /\ outActive < OuterPermits
    /\ outActive' = outActive + 1
    /\ out' = Append(out, ro.held)
    /\ ro' = [ro EXCEPT !.phase = "choose", !.held = 0]
    /\ UNCHANGED <<plan, sortHeld, ckpt, scan, q, ended, active, outEnd, delivered, dbMeta>>

\* The outer permit is taken, the inner one released (doSort took it, if
\* the plan sorts), the document sent.
ROForward ==
    /\ ro.phase = "take"
    /\ outActive < OuterPermits
    /\ outActive' = outActive + 1
    /\ IF HasSort THEN sortHeld' = sortHeld - 1 /\ UNCHANGED active
                  ELSE active' = active - 1 /\ UNCHANGED sortHeld
    /\ out' = Append(out, ro.held)
    /\ ro' = [ro EXCEPT !.phase = "choose", !.held = 0]
    /\ UNCHANGED <<plan, ckpt, scan, q, ended, outEnd, delivered, dbMeta>>

\* waitNext(docs) throws end_of_stream: stop() and sendError(end_of_stream).
ROEnd ==
    /\ ro.phase = "choose"
    /\ q[K + 1] = <<>>
    /\ ended[K + 1]
    /\ outEnd' = "end_of_stream"
    /\ ro' = [ro EXCEPT !.phase = "done"]
    /\ UNCHANGED <<plan, sortHeld, ckpt, scan, q, ended, active, out, outActive, delivered, dbMeta>>

\* The timer wins the choose (docs is not ready): stopAndCheckpoint(), then
\* the wait for the new transaction's metadata version.
ROTimeout ==
    /\ ro.phase = "choose"
    /\ q[K + 1] = <<>>
    /\ ~ended[K + 1]
    /\ ro.seg < MaxSegments
    /\ SlowFirstRead \/ scan.lastKey # NoKey \/ scan.phase = "done"
    /\ \E s \in IF scan.phase = "done" THEN {ckpt.split} ELSE ScanSplits :
          ckpt' = StopAndCheckpoint(s)
    /\ scan' = [scan EXCEPT !.phase = "stopped"]
    /\ q' = [i \in 1..K + 1 |-> <<>>]
    /\ ended' = [i \in 1..K + 1 |-> FALSE]
    /\ active' = 0
    /\ ro' = [ro EXCEPT !.phase = "meta"]
    /\ UNCHANGED <<plan, sortHeld, out, outEnd, outActive, delivered, dbMeta>>

\* The metadata version of the new transaction decides: same version or an
\* acceptable change re-executes the plan on the checkpoint; a moved
\* collection or an unacceptable change ends the output with an error.
ROResume ==
    /\ ro.phase = "meta"
    /\ \/ /\ dbMeta.version = ro.metaVersion \/ (~dbMeta.moved /\ dbMeta.okay)
          /\ scan' = NewScan(ckpt)
          /\ ro' = [ro EXCEPT !.phase = "choose", !.seg = @ + 1,
                              !.metaVersion = dbMeta.version]
          /\ UNCHANGED outEnd
       \/ /\ dbMeta.version # ro.metaVersion
          /\ dbMeta.moved \/ ~dbMeta.okay
          /\ outEnd' = IF dbMeta.moved THEN "collection_metadata_changed"
                                       ELSE "metadata_changed_nonisolated"
          /\ ro' = [ro EXCEPT !.phase = "done"]
          /\ UNCHANGED scan
    /\ UNCHANGED <<plan, sortHeld, ckpt, q, ended, active, out, outActive, delivered, dbMeta>>

-----------------------------------------------------------------------------
(* executeUntilCompletionTransactionally, and the environment              *)

\* waitNext(stream), flowControlLock->release().
Consume ==
    /\ out # <<>>
    /\ delivered' = Append(delivered, Head(out))
    /\ out' = Tail(out)
    /\ outActive' = outActive - 1
    /\ UNCHANGED <<plan, sortHeld, ckpt, scan, q, ended, active, ro, outEnd, dbMeta>>

\* Another client changes the collection's metadata (e.g. builds an index,
\* or drops and recreates the collection, which moves its directory).
ChangeMetadata ==
    /\ dbMeta.version < MaxMetaChanges
    /\ \E moved \in {dbMeta.moved, TRUE}, okay \in BOOLEAN :
          dbMeta' = [version |-> dbMeta.version + 1, moved |-> moved, okay |-> okay]
    /\ UNCHANGED <<plan, sortHeld, ckpt, scan, q, ended, active, ro, out, outEnd, outActive, delivered>>

-----------------------------------------------------------------------------

Init ==
    /\ plan \in Plans
    /\ ckpt = NewScanEntry
    /\ scan = NewScan(NewScanEntry)
    /\ q = [i \in 1..K + 1 |-> <<>>]
    /\ ended = [i \in 1..K + 1 |-> FALSE]
    /\ active = 0
    /\ ro = [phase |-> "choose", held |-> 0, seg |-> 1, metaVersion |-> 0]
    /\ out = <<>>
    /\ outEnd = "none"
    /\ outActive = 0
    /\ delivered = <<>>
    /\ dbMeta = [version |-> 0, moved |-> FALSE, okay |-> TRUE]
    /\ sortHeld = 0

Next ==
    \/ ScanRead
    \/ ScanTake
    \/ \E i \in 1..K : FilterComplete(i)
    \/ \E i \in 1..K : ProjectComplete(i)
    \/ \E i \in 1..K : FlushComplete(i)
    \/ SortEmit
    \/ ROReceive
    \/ ROForward
    \/ ROEnd
    \/ ROTimeout
    \/ ROResume
    \/ Consume
    \/ ChangeMetadata

\* The single-threaded scheduler runs every actor whose future is ready;
\* the timer and other clients are not obliged to act.
Fairness ==
    /\ WF_vars(ScanRead) /\ WF_vars(ScanTake)
    /\ \A i \in StageIds : WF_vars(i <= K /\ FilterComplete(i))
    /\ \A i \in StageIds : WF_vars(i <= K /\ ProjectComplete(i))
    /\ \A i \in StageIds : WF_vars(i <= K /\ FlushComplete(i))
    /\ WF_vars(SortEmit) /\ WF_vars(ROReceive) /\ WF_vars(ROForward) /\ WF_vars(ROEnd)
    /\ WF_vars(ROResume) /\ WF_vars(Consume)

Spec == Init /\ [][Next]_vars /\ Fairness

-----------------------------------------------------------------------------
(* Properties                                                              *)

TypeOK ==
    /\ plan \in Plans
    /\ ckpt \in [begin : Keys, end : Keys, split : Keys, left : 0..plan.skip]
    /\ scan.phase \in {"read", "take", "done", "stopped"}
    /\ q \in [1..K + 1 -> Seq(Docs)]
    /\ ended \in [1..K + 1 -> BOOLEAN]
    /\ active \in 0..Permits /\ sortHeld \in 0..Permits /\ outActive \in 0..OuterPermits
    /\ ro.phase \in {"choose", "take", "meta", "done"}
    /\ out \in Seq(Docs) /\ delivered \in Seq(Docs)
    /\ outEnd \in {"none", "end_of_stream"} \cup Errors

\* Everything the non-isolated plan has output, across all of its
\* transactions, is the uninterrupted execution's output so far: no
\* document repeated, none skipped, in its order (spec 8, the
\* exactly-once property of stopAndCheckpoint and resumption).
EmittedExactlyOnceInOrder == IsPrefix(delivered \o out, Expected)

\* Between two transactions, the checkpoint's begin key is above every
\* document already output and not above the next document still to be
\* output (the split-key contract of stopAndCheckpoint, lines 1806-1813).
SplitBoundContract ==
    ro.phase = "meta" =>
        LET emitted == Range(delivered \o out)
        IN  /\ \A d \in emitted : d < ckpt.begin
            /\ \A d \in Range(Expected) \ emitted : ckpt.begin <= d

\* Every permit of the inner lock is held by a document some actor has
\* received and not yet finished with (Plan contract, lines 57 and 62);
\* with a doSort, the permits of its inner lock by the documents below it,
\* and those it took by the documents it has sent.
PermitsTrackDocuments ==
    ro.phase # "meta" =>
        LET held(lo, hi) == Len(FlattenSeq([i \in lo..hi |-> q[i]]))
            taking == IF ro.phase = "take" THEN 1 ELSE 0
        IN  IF HasSort THEN active = held(1, K - 1) /\ sortHeld = Len(q[K + 1]) + taking
            ELSE active = held(1, K + 1) + taking

\* The stream doNonIsolatedRO returns, as its consumer sees it.
StreamStatus ==
    CASE outEnd = "none" -> "open"
      [] outEnd = "end_of_stream" -> "end_of_stream"
      [] OTHER -> "error"

Stream == INSTANCE QueryStream
              WITH Queries <- Plans, ResultOf <- ExpectedOf, query <- plan,
                   emitted <- delivered \o out, status <- StreamStatus

\* However the executor splits the query into transactions, every step of
\* it is a step of the abstract query stream: the documents doNonIsolatedRO
\* sends are those of the uninterrupted execution, once each and in order,
\* end_of_stream only follows the last of them, nothing follows the end,
\* and the stream is eventually closed (stopAndCheckpoint, the split
\* handlers of every stage, and the re-execution on the checkpoint).
StreamRefinement == Stream!Spec
=============================================================================
