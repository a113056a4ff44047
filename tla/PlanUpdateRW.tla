----------------------------- MODULE PlanUpdateRW -----------------------------
(***************************************************************************)
(* An update or an index build under a non-isolated read-write query     *)
(* (QLPlan.actor.cpp):                                                     *)
(*                                                                         *)
(*   NonIsolatedPlan(Update(limit, upsert?)(TableScan | PK range))         *)
(*   NonIsolatedPlan(BuildIndex(TableScan | PK range))                     *)
(*                                                                         *)
(* doUpdate starts an update per input document, counts the documents in  *)
(* the checkpoint's int state (getIntState) and stops reading once the     *)
(* count reaches the limit; if nothing matched it may upsert one document. *)
(* scanAndBuildIndex writes an index entry per document; a resumed         *)
(* segment first records the "currently processing document" and waits    *)
(* for it, while the scan fills its input stream.  doNonIsolatedRW stages  *)
(* each document (commitChanges), and when its timer fires, or its buffer  *)
(* is full, or the plan ends, it calls stopAndCheckpoint(), waits for the  *)
(* staged documents, commits, and only then outputs them.  A failed commit *)
(* re-runs the same checkpoint in a new transaction; a successful one      *)
(* moves on to the next.  Before each new transaction's segment the        *)
(* collection's metadata version is checked, and a change the plan cannot *)
(* accept (wasMetadataChangeOkay) ends the query with an error.            *)
(*                                                                         *)
(* A retryable error of the sub-plan's reads reaches waitNext(docs) before *)
(* any stopAndCheckpoint(), and the same catch retries it: the checkpoint  *)
(* is executed again without stop(), so the new scan takes the next scan   *)
(* id (with the default bounds) and doUpdate a new int state.              *)
(*                                                                         *)
(* Keys are abstracted as in PlanExecution (document d has key d, END is   *)
(* "\xff").  UPSERTED stands for the document an upsert inserts.  Another *)
(* client may change the metadata: unrelated to the plan, or replacing the *)
(* index being built by a build with another build id.  A transaction      *)
(* that read the metadata version does not commit after such a change      *)
(* (FoundationDB's conflict check).                                        *)
(***************************************************************************)
EXTENDS Integers, Sequences, SequencesExt, FiniteSets

CONSTANTS
    N,             \* documents 1..N, one KV cell each
    Ranges,        \* the [begin, end) key ranges a query may scan
    Ops,           \* the sub-plans: "Update" and "BuildIndex"
    Limit,         \* the UpdatePlan's limit
    Upsert,        \* does the UpdatePlan have an upsertOp?
    Permits,       \* FLOW_CONTROL_LOCK_PERMITS of each PlanCheckpoint
    OuterPermits,  \* permits of the outer checkpoint's lock
    BufferMax,     \* NONISOLATED_RW_INTERNAL_BUFFER_MAX
    MaxSegments,   \* bound on timer-driven checkpoints
    MaxRetries,    \* bound on failed commits
    MaxReadErrors, \* bound on retryable errors of the sub-plan's reads
    MaxMetaChanges, \* bound on other clients' metadata changes
    SlowFirstRead  \* may the timer fire before the scan emits?

END == N + 1
Keys == 0..END
Docs == 1..N
UPSERTED == N + 1
NoKey == 0

ASSUME /\ N \in Nat \ {0} /\ Ops \subseteq {"Update", "BuildIndex"} /\ MaxMetaChanges \in Nat
       /\ Ranges \subseteq {r \in Keys \X Keys : r[1] <= r[2]}
       /\ Limit \in Nat \ {0} /\ Upsert \in BOOLEAN
       /\ Permits \in Nat \ {0} /\ OuterPermits \in Nat \ {0}
       /\ BufferMax \in Nat \ {0} /\ MaxSegments \in Nat /\ MaxRetries \in Nat /\ MaxReadErrors \in Nat
       /\ SlowFirstRead \in BOOLEAN

VARIABLES
    range,      \* the query's range <<begin, end>>, fixed for the whole run
    op,         \* the sub-plan over the scan, fixed for the whole run
    ckpt,       \* the scans of innerCheckpoint: ckpt[i] is scan id i-1's [begin, end, split]
    sid,        \* the index in ckpt of the running doPKScan's scan
    sAdded,     \* innerCheckpoint's scansAdded
    st,         \* the last int state of innerCheckpoint: [begin, split]; split is count
    nstates,    \* the number of int states of innerCheckpoint
    stAdded,    \* innerCheckpoint's stateAdded
    nxt,        \* next_checkpoint, while the current one is committed
    scan,       \* the doPKScan actor
    uin,        \* documents in upd's input stream, not yet received
    upd,        \* the doUpdate or scanAndBuildIndex actor: [phase, uq, ended]
    rdocs,      \* documents doUpdate sent, not yet received by doNonIsolatedRW
    active,     \* permits taken from innerCheckpoint's lock
    rw,         \* the doNonIsolatedRW actor
    committing, \* committingDocs
    buffered,   \* bufferedDocs
    applied,    \* updates (index entries) committed, in commit order
    dbMeta,     \* the metadata in the database: [version, ours]; ours: the
                \* index being built is still this build's
    out, outEnd, outActive, delivered

exec == <<sid, sAdded, nstates, stAdded>>
vars == <<range, op, dbMeta, ckpt, exec, st, nxt, scan, uin, upd, rdocs, active, rw, committing,
          buffered, applied, out, outEnd, outActive, delivered>>

-----------------------------------------------------------------------------
(* What the plan must do: an update of the first Limit documents of the   *)
(* range, or an upsert when there are none; an index entry for each.      *)

InRange == SelectSeq([i \in Docs |-> i], LAMBDA d : range[1] <= d /\ d < range[2])
ExpectedUpdates ==
    IF op = "BuildIndex" THEN InRange
    ELSE IF InRange = <<>> /\ Upsert THEN <<UPSERTED>>
    ELSE SubSeq(InRange, 1, IF Limit < Len(InRange) THEN Limit ELSE Len(InRange))

-----------------------------------------------------------------------------
(* PlanCheckpoint, PrimaryKeyLookupPlan::execute, doPKScan                 *)

NewScanEntry == [begin |-> 0, end |-> END, split |-> END]

\* A doPKScan actor reading max(range[1], begin) .. min(range[2], end).
NewScan(c) ==
    LET lo == IF range[1] > c.begin THEN range[1] ELSE c.begin
        hiC == IF range[2] < c.end THEN range[2] ELSE c.end
    IN  [phase |-> "read", pos |-> IF lo < 1 THEN 1 ELSE lo,
         hi |-> IF lo > hiC THEN lo ELSE hiC, lastKey |-> NoKey]

\* A new doUpdate actor reads its input at once; a new scanAndBuildIndex
\* on a checkpoint that does not begin at "" first writes and stages the
\* "currently processing document" (unstrincObjectId of the begin key).
NewUpdate(c) ==
    [phase |-> IF op = "BuildIndex" /\ c.begin # 0 THEN "marker" ELSE "run",
     uq |-> <<>>, ended |-> FALSE]

\* getIntState(0): the count starts again from the checkpoint's begin.
Restart(s) == [s EXCEPT !.split = s.begin]

\* addScan(): scan id sAdded; an entry the checkpoint does not have yet is
\* added with the default bounds.
AddScan(c) == IF sAdded < Len(c) THEN c ELSE Append(c, NewScanEntry)

\* getIntState(0): a new state (count 0) when stateAdded = states.size(),
\* and in any case the last state, restarted from its begin.
GetIntState ==
    /\ st' = IF stAdded = nstates THEN [begin |-> 0, split |-> 0] ELSE Restart(st)
    /\ nstates' = IF stAdded = nstates THEN nstates + 1 ELSE nstates
    /\ stAdded' = stAdded + 1

\* Mutant: addScan() returns ++scansAdded.
ExecutePreIncrement ==
    LET c == AddScan(ckpt)
    IN  /\ ckpt' = c /\ sid' = sAdded /\ sAdded' = sAdded + 1
        /\ scan' = NewScan(c[sAdded + 1])
        /\ upd' = NewUpdate(c[1])
        /\ IF op = "Update" THEN GetIntState ELSE UNCHANGED <<st, nstates, stAdded>>

\* subPlan->execute(innerCheckpoint): PrimaryKeyLookupPlan::execute starts
\* doPKScan on its scan's bounds; UpdatePlan::execute takes its count
\* (BuildIndexPlan none) and starts its actor, which looks at scan 0.
Execute ==
    LET c == AddScan(ckpt)
    IN  /\ ckpt' = c /\ sid' = sAdded + 1 /\ sAdded' = sAdded + 1
        /\ scan' = NewScan(c[sAdded + 1])
        /\ upd' = NewUpdate(c[1])
        /\ IF op = "Update" THEN GetIntState ELSE UNCHANGED <<st, nstates, stAdded>>

\* doPKScan's cancellation handler (with one cell per document the scan key
\* is the primary key); any key when lastKey is still empty.
ScanSplits == IF scan.lastKey = NoKey THEN Keys ELSE {scan.lastKey + 1}

-----------------------------------------------------------------------------
(* doUpdate and scanAndBuildIndex                                          *)

\* Once its input has ended (or doUpdate's limit is reached) and every
\* started update or index entry has been sent on, doUpdate upserts when
\* the count is 0, and otherwise end_of_stream is sent.
Settle(u, count) ==
    IF u.phase = "drain" /\ u.uq = <<>>
    THEN IF op = "Update" /\ Upsert /\ count = 0 THEN [u EXCEPT !.phase = "upsert"]
         ELSE [u EXCEPT !.phase = "done", !.ended = TRUE]
    ELSE u

\* waitNext(input): doUpdate starts the update, count += 1, and at the
\* limit stops reading; scanAndBuildIndex starts buildIndexEntry.
Receive(u, count, d) ==
    [u EXCEPT !.uq = Append(@, d),
              !.phase = IF op = "Update" /\ count + 1 >= Limit THEN "drain" ELSE "run"]

\* waitNext(kvs) of doPKScan: the next document goes to the permit wait;
\* at the end of the range end_of_stream reaches a reading doUpdate.
ScanRead ==
    /\ scan.phase = "read"
    /\ \/ /\ scan.pos < scan.hi /\ scan.pos <= N
          /\ scan' = [scan EXCEPT !.phase = "take"]
          /\ UNCHANGED upd
       \/ /\ scan.pos >= scan.hi \/ scan.pos > N
          /\ scan' = [scan EXCEPT !.phase = "done"]
          /\ upd' = IF upd.phase = "run"
                    THEN Settle([upd EXCEPT !.phase = "drain"], st.split) ELSE upd
    /\ UNCHANGED <<range, op, exec, dbMeta, ckpt, st, nxt, uin, rdocs, active, rw, committing, buffered,
                   applied, out, outEnd, outActive, delivered>>

\* outputLock->take(1) and send: a reading doUpdate or scanAndBuildIndex
\* receives the document at once; otherwise it stays in the stream.
ScanTake ==
    /\ scan.phase = "take"
    /\ active < Permits
    /\ active' = active + 1
    /\ scan' = [scan EXCEPT !.phase = "read", !.lastKey = scan.pos, !.pos = @ + 1]
    /\ IF upd.phase = "run"
       THEN /\ upd' = Receive(upd, st.split, scan.pos)
            /\ st' = IF op = "Update" THEN [st EXCEPT !.split = @ + 1] ELSE st
            /\ UNCHANGED uin
       ELSE /\ uin' = Append(uin, scan.pos)
            /\ UNCHANGED <<upd, st>>
    /\ UNCHANGED <<range, op, exec, dbMeta, ckpt, nxt, rdocs, rw, committing, buffered, applied, out,
                   outEnd, outActive, delivered>>

\* scanAndBuildIndex: the "currently processing document" is staged; the
\* loop then receives, in order, what the scan sent meanwhile (waitNext on
\* a ready stream does not yield), and at its end end_of_stream.
BuildMarker ==
    /\ upd.phase = "marker"
    /\ upd' = LET u == [upd EXCEPT !.phase = "run", !.uq = uin]
              IN  IF scan.phase = "done" THEN Settle([u EXCEPT !.phase = "drain"], 0) ELSE u
    /\ uin' = <<>>
    /\ UNCHANGED <<range, op, exec, dbMeta, ckpt, st, nxt, scan, rdocs, active, rw, committing,
                   buffered, applied, out, outEnd, outActive, delivered>>

\* The head's update or index entry resolves and the document is sent on.
UpdateComplete ==
    /\ upd.phase \in {"run", "drain"}
    /\ upd.uq # <<>>
    /\ rdocs' = Append(rdocs, Head(upd.uq))
    /\ upd' = Settle([upd EXCEPT !.uq = Tail(@)], st.split)
    /\ UNCHANGED <<range, op, exec, dbMeta, ckpt, st, nxt, scan, uin, active, rw, committing, buffered,
                   applied, out, outEnd, outActive, delivered>>

\* Mutant: the upserted document is sent without taking a permit.
UpdateUpsertNoTake ==
    /\ upd.phase = "upsert"
    /\ rdocs' = Append(rdocs, UPSERTED)
    /\ upd' = [upd EXCEPT !.phase = "done", !.ended = TRUE]
    /\ UNCHANGED <<range, op, exec, dbMeta, ckpt, st, nxt, scan, uin, active, rw, committing, buffered,
                   applied, out, outEnd, outActive, delivered>>

\* flowControlLock->take(), upsertOp->insert(), send, end_of_stream.
UpdateUpsert ==
    /\ upd.phase = "upsert"
    /\ active < Permits
    /\ active' = active + 1
    /\ rdocs' = Append(rdocs, UPSERTED)
    /\ upd' = [upd EXCEPT !.phase = "done", !.ended = TRUE]
    /\ UNCHANGED <<range, op, exec, dbMeta, ckpt, st, nxt, scan, uin, rw, committing, buffered, applied,
                   out, outEnd, outActive, delivered>>

\* doUpdate's cancellation handler, after doPKScan's: the scan keys of the
\* updates it holds, from the back, so the head's wins.
UpdateSplit(s) == IF upd.uq = <<>> THEN s ELSE Head(upd.uq)

\* scanAndBuildIndex's cancellation handler: the scan keys of the documents
\* still in its input stream, then of its pending entries, each from the
\* back, so the earliest held document's wins.
BuildSplit(s) ==
    CASE upd.uq # <<>> -> Head(upd.uq)
      [] uin # <<>> -> Head(uin)
      [] OTHER -> s

\* The split the sub-plan's cancellation leaves for the scan.
StageSplit(s) == IF op = "Update" THEN UpdateSplit(s) ELSE BuildSplit(s)

-----------------------------------------------------------------------------
(* doNonIsolatedRW                                                         *)

\* The scan waits on a lock whose permits are all taken.
ScanBlocked == scan.phase = "take" /\ active >= Permits

\* The timer may fire: not before the scan's first document unless
\* SlowFirstRead or the scan is blocked on the lock, and at most MaxSegments
\* times, except that delay(3.0) always ends a segment in which nothing can
\* move any more (the next checkpoint's lock is a new one).
TimerMayFire ==
    \/ /\ rw.seg < MaxSegments
       /\ SlowFirstRead \/ scan.lastKey # NoKey \/ scan.phase = "done" \/ ScanBlocked
    \/ ScanBlocked /\ rdocs = <<>> /\ committing = <<>> /\ upd.uq = <<>>

\* bufferedDocs.size() + committingDocs.size() >= BUFFER_MAX: timeout = delay(0).
BufferFull == Len(buffered) + Len(committing) >= BufferMax

\* waitNext(docs): commitChanges() of the document is started.
RWReceive ==
    /\ rw.phase = "run"
    /\ rdocs # <<>>
    /\ committing' = Append(committing, Head(rdocs))
    /\ rdocs' = Tail(rdocs)
    /\ UNCHANGED <<range, op, exec, dbMeta, ckpt, st, nxt, scan, uin, upd, active, rw, buffered, applied,
                   out, outEnd, outActive, delivered>>

\* The head's commitChanges() resolves: it is buffered, its permit released.
RWCommitted ==
    /\ rw.phase = "run"
    /\ committing # <<>>
    /\ buffered' = Append(buffered, Head(committing))
    /\ committing' = Tail(committing)
    /\ active' = active - 1
    /\ UNCHANGED <<range, op, exec, dbMeta, ckpt, st, nxt, scan, uin, upd, rdocs, rw, applied, out,
                   outEnd, outActive, delivered>>

\* The loop ends, on end_of_stream (finished) or on the timer, and
\* stopAndCheckpoint() cancels doPKScan, then the sub-plan; the next checkpoint
\* starts the scan at the split and the count at its current value.
RWStop ==
    /\ rw.phase = "run"
    /\ rdocs = <<>>
    /\ upd.ended \/ TimerMayFire \/ BufferFull
    /\ \E s \in IF scan.phase \in {"read", "take"} THEN ScanSplits ELSE {ckpt[sid].split} :
          LET c == [ckpt EXCEPT ![sid].split = StageSplit(s)]
          IN  /\ ckpt' = c
              /\ nxt' = [scans |-> [i \in DOMAIN c |-> [begin |-> c[i].split, end |-> c[i].end,
                                                        split |-> END]],
                         st |-> [begin |-> st.split, split |-> st.split]]
    /\ sAdded' = 0 /\ stAdded' = 0
    /\ scan' = [scan EXCEPT !.phase = "stopped"]
    /\ upd' = [upd EXCEPT !.phase = "stopped", !.uq = <<>>]
    /\ uin' = <<>>
    /\ rw' = [rw EXCEPT !.phase = "drain", !.finished = upd.ended,
                        !.seg = IF upd.ended THEN @ ELSE @ + 1]
    /\ UNCHANGED <<range, op, sid, nstates, dbMeta, st, rdocs, active, committing, buffered, applied, out, outEnd,
                   outActive, delivered>>

\* The documents still being staged are waited for and buffered.
RWDrain ==
    /\ rw.phase = "drain"
    /\ committing # <<>>
    /\ buffered' = Append(buffered, Head(committing))
    /\ committing' = Tail(committing)
    /\ UNCHANGED <<range, op, exec, dbMeta, ckpt, st, nxt, scan, uin, upd, rdocs, active, rw, applied,
                   out, outEnd, outActive, delivered>>

\* tr->commit() conflicts if a metadata change was committed after the
\* transaction read the metadata version.
CommitOK == dbMeta.version = rw.txnMeta

\* The commit succeeds: the staged writes are durable, and the next
\* checkpoint (with a new flow-control lock) replaces the current one.
CommitSucceeded ==
    /\ CommitOK
    /\ applied' = applied \o buffered
    /\ ckpt' = nxt.scans /\ st' = nxt.st
    /\ active' = 0
    /\ rw' = [rw EXCEPT !.phase = "output"]
    /\ UNCHANGED buffered

\* Mutant: the buffered documents are not dropped after a failed commit.
CommitFailedKeepBuffer ==
    /\ rw' = [rw EXCEPT !.phase = "meta", !.finished = FALSE, !.retries = @ + 1]
    /\ UNCHANGED <<ckpt, st, applied, active, buffered>>

\* Mutant: after a failed commit the buffered documents are output.
CommitFailedOutput ==
    /\ rw' = [rw EXCEPT !.phase = "output", !.retries = @ + 1]
    /\ UNCHANGED <<ckpt, st, applied, active, buffered>>

\* The commit fails: onError, finished = false, the buffered documents are
\* dropped, and the same checkpoint, with its lock, is executed again in a
\* new transaction.
CommitFailed ==
    /\ buffered' = <<>>
    /\ rw' = [rw EXCEPT !.phase = "meta", !.finished = FALSE, !.retries = @ + 1]
    /\ UNCHANGED <<ckpt, st, applied, active>>

\* tr->commit(), after the drain: it succeeds unless it conflicts, and it
\* may fail with a retryable error (at most MaxRetries times).
RWCommit ==
    /\ rw.phase = "drain"
    /\ committing = <<>>
    /\ \/ CommitSucceeded
       \/ (~CommitOK \/ rw.retries < MaxRetries) /\ CommitFailed
    /\ UNCHANGED <<range, op, exec, dbMeta, nxt, scan, uin, upd, rdocs, committing, out, outEnd,
                   outActive, delivered>>

\* The scan's range read fails with a retryable error while doUpdate (or
\* scanAndBuildIndex) reads its input: doPKScan sends the error, the
\* sub-plan's catch sends it on, and waitNext(docs) rethrows it to the catch
\* of line 860.  The staged and buffered documents are dropped with the
\* transaction (onError), the dead actors' permits are never released, and
\* the loop goes on with innerCheckpoint as it is: not stopped, so its
\* scansAdded and stateAdded are not reset.
RWReadError ==
    /\ rw.phase = "run" /\ rw.readErrors < MaxReadErrors
    /\ scan.phase = "read" /\ upd.phase = "run"
    /\ scan' = [scan EXCEPT !.phase = "failed"]
    /\ upd' = [upd EXCEPT !.phase = "failed", !.uq = <<>>]
    /\ rdocs' = <<>> /\ committing' = <<>> /\ buffered' = <<>>
    /\ rw' = [rw EXCEPT !.phase = "meta", !.finished = FALSE, !.readErrors = @ + 1]
    /\ UNCHANGED <<range, op, exec, dbMeta, ckpt, st, nxt, uin, active, applied, out, outEnd,
                   outActive, delivered>>

\* outerLock->take(1), then the buffered document is output.
RWOutput ==
    /\ rw.phase = "output"
    /\ buffered # <<>>
    /\ outActive < OuterPermits
    /\ outActive' = outActive + 1
    /\ out' = Append(out, Head(buffered))
    /\ buffered' = Tail(buffered)
    /\ UNCHANGED <<range, op, exec, dbMeta, ckpt, st, nxt, scan, uin, upd, rdocs, active, rw, committing,
                   applied, outEnd, delivered>>

\* All output: a finished plan ends the stream; otherwise a new transaction
\* follows.
RWNext ==
    /\ rw.phase = "output"
    /\ buffered = <<>>
    /\ \/ /\ rw.finished
          /\ outEnd' = "end_of_stream"
          /\ rw' = [rw EXCEPT !.phase = "done"]
       \/ /\ ~rw.finished
          /\ rw' = [rw EXCEPT !.phase = "meta"]
          /\ UNCHANGED outEnd
    /\ UNCHANGED <<range, op, exec, dbMeta, ckpt, st, nxt, scan, uin, upd, rdocs, active, committing,
                   buffered, applied, out, outActive, delivered>>

\* Mutant: BuildIndexPlan::wasMetadataChangeOkay asks only its scan.
MetadataChangeOkayScanOnly == TRUE

\* subPlan->wasMetadataChangeOkay(newCx): BuildIndexPlan accepts a change
\* only while its index is still BUILDING with its build id (and then asks
\* its scan); the scan's and UpdatePlan's checks, defined outside this
\* file, are taken to accept.
MetadataChangeOkay == op = "Update" \/ dbMeta.ours

\* Mutant: a metadata change the plan refuses is not reported.
RWMetaNoError ==
    /\ rw.phase = "meta"
    /\ dbMeta.version = rw.meta \/ MetadataChangeOkay
    /\ Execute
    /\ rw' = [rw EXCEPT !.phase = "run", !.meta = dbMeta.version, !.txnMeta = dbMeta.version]
    /\ UNCHANGED <<range, op, dbMeta, nxt, uin, rdocs, active, committing, buffered,
                   applied, out, outEnd, outActive, delivered>>

\* The new transaction reads the metadata version; after a change the
\* plan must accept, or the query ends with metadata_changed_nonisolated
\* (the outer catch stops the checkpoint and sends the error).  The
\* checkpoint is then executed in the new transaction.
RWMeta ==
    /\ rw.phase = "meta"
    /\ \/ /\ dbMeta.version = rw.meta \/ MetadataChangeOkay
          /\ Execute
          /\ rw' = [rw EXCEPT !.phase = "run", !.meta = dbMeta.version,
                              !.txnMeta = dbMeta.version]
          /\ UNCHANGED outEnd
       \/ /\ dbMeta.version # rw.meta /\ ~MetadataChangeOkay
          /\ outEnd' = "metadata_changed_nonisolated"
          /\ rw' = [rw EXCEPT !.phase = "done"]
          /\ UNCHANGED <<scan, st, upd, ckpt, exec>>
    /\ UNCHANGED <<range, op, dbMeta, nxt, uin, rdocs, active, committing, buffered,
                   applied, out, outActive, delivered>>

\* waitNext(stream), flowControlLock->release().
Consume ==
    /\ out # <<>>
    /\ delivered' = Append(delivered, Head(out))
    /\ out' = Tail(out)
    /\ outActive' = outActive - 1
    /\ UNCHANGED <<range, op, exec, dbMeta, ckpt, st, nxt, scan, uin, upd, rdocs, active, rw, committing,
                   buffered, applied, outEnd>>

\* Another client changes the collection's metadata: a change unrelated to
\* the plan, or the index being built dropped and created again (a new
\* build id).  Either bumps the metadata version.
ChangeMetadata ==
    /\ dbMeta.version < MaxMetaChanges
    /\ \E ours \in {dbMeta.ours, FALSE} : dbMeta' = [version |-> dbMeta.version + 1, ours |-> ours]
    /\ UNCHANGED <<range, op, exec, ckpt, st, nxt, scan, uin, upd, rdocs, active, rw, committing,
                   buffered, applied, out, outEnd, outActive, delivered>>

-----------------------------------------------------------------------------

Init ==
    /\ range \in Ranges
    /\ op \in Ops
    /\ dbMeta = [version |-> 0, ours |-> TRUE]
    /\ ckpt = <<NewScanEntry>> /\ sid = 1 /\ sAdded = 1
    /\ st = [begin |-> 0, split |-> 0]
    /\ nstates = (IF op = "Update" THEN 1 ELSE 0) /\ stAdded = nstates
    /\ nxt = [scans |-> <<NewScanEntry>>, st |-> [begin |-> 0, split |-> 0]]
    /\ scan = NewScan(NewScanEntry)
    /\ uin = <<>>
    /\ upd = NewUpdate(NewScanEntry)
    /\ rdocs = <<>>
    /\ active = 0
    /\ rw = [phase |-> "run", finished |-> FALSE, seg |-> 0, retries |-> 0,
              readErrors |-> 0, meta |-> 0, txnMeta |-> 0]
    /\ committing = <<>>
    /\ buffered = <<>>
    /\ applied = <<>>
    /\ out = <<>>
    /\ outEnd = "none"
    /\ outActive = 0
    /\ delivered = <<>>

Next ==
    \/ ScanRead \/ ScanTake \/ BuildMarker \/ UpdateComplete \/ UpdateUpsert
    \/ RWReceive \/ RWCommitted \/ RWStop \/ RWDrain \/ RWCommit
    \/ RWReadError \/ RWOutput \/ RWNext \/ RWMeta \/ Consume \/ ChangeMetadata

\* Every actor whose future is ready eventually runs, and a delay() does
\* expire, so RWStop is fair (the timer itself is bounded by MaxSegments).
\* Failed commits, read errors and other clients' metadata changes are not obliged to
\* happen.
Fairness ==
    /\ WF_vars(ScanRead) /\ WF_vars(ScanTake) /\ WF_vars(UpdateComplete)
    /\ WF_vars(UpdateUpsert) /\ WF_vars(RWReceive) /\ WF_vars(RWCommitted)
    /\ WF_vars(RWStop) /\ WF_vars(RWDrain) /\ WF_vars(RWCommit)
    /\ WF_vars(BuildMarker) /\ WF_vars(RWMeta)
    /\ WF_vars(RWOutput) /\ WF_vars(RWNext) /\ WF_vars(Consume)

Spec == Init /\ [][Next]_vars /\ Fairness

-----------------------------------------------------------------------------
(* Properties                                                              *)

TypeOK ==
    /\ range \in Ranges /\ op \in Ops
    /\ ckpt \in Seq([begin : Keys, end : Keys, split : Keys]) /\ sid \in DOMAIN ckpt
    /\ st.split \in Nat /\ st.begin <= st.split
    /\ scan.phase \in {"read", "take", "done", "stopped", "failed"}
    /\ upd.phase \in {"marker", "run", "drain", "upsert", "done", "stopped", "failed"}
    /\ rw.phase \in {"run", "drain", "output", "meta", "done"}
    /\ active \in 0..Permits /\ outActive \in 0..OuterPermits
    /\ applied \in Seq(Docs \cup {UPSERTED})
    /\ outEnd \in {"none", "end_of_stream", "metadata_changed_nonisolated"}

\* The updates committed across all transactions are the first documents
\* of the range, each once and in key order, never more than the limit,
\* and an upsert only when nothing matched (spec 4.7, and the comment at
\* line 850: the next part is done "instead of redoing this part").
UpdatesAppliedOnce == IsPrefix(applied, ExpectedUpdates)


\* When the query ends normally, every update it had to make is committed
\* (spec 4.7: the update stops after limit documents).
UpdateCompleteOnEnd == outEnd = "end_of_stream" => applied = ExpectedUpdates

\* Both, in every run in which no read error has reached doNonIsolatedRW (a
\* read error breaks them): across timers, full buffers, failed commits
\* and index builds resumed mid-stream, a failed commit re-runs its segment
\* without its effects, a successful one resumes exactly after what it
\* committed, the count survives checkpoints, and a normal end comes only
\* after every update.
UpdatesExactlyOnceWithoutReadError ==
    rw.readErrors = 0 => UpdatesAppliedOnce /\ UpdateCompleteOnEnd

\* doNonIsolatedRW only outputs documents whose updates have committed, in
\* the order they were committed.
OutputOnlyCommitted == IsPrefix(delivered \o out, applied)

\* Documents some actor of the running segment holds.
InFlight == Len(uin) + Len(upd.uq) + Len(rdocs) + Len(committing)

\* Every document in flight holds a permit of the current inner lock: no
\* permit is released twice or for a document still being processed.
PermitsCoverDocuments == rw.phase = "run" => active >= InFlight

\* An index build commits index entries only while the index is still the
\* one it builds: after another client has replaced it, the transaction
\* that read the old metadata version conflicts, and the metadata check of
\* the next transaction (BuildIndexPlan::wasMetadataChangeOkay) ends the
\* build before it writes entries for an index that is no longer its own.
StaleBuildNeverCommits ==
    [][op = "BuildIndex" /\ applied' # applied => dbMeta.ours]_vars

\* The query always finishes.
QueryTerminates == <>(outEnd # "none")
=============================================================================
