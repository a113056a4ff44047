------------------------------- MODULE PlanRetry -------------------------------
(***************************************************************************)
(* An update under a RetryPlan (QLPlan.actor.cpp, doRetry):               *)
(*                                                                         *)
(*   Retry(Update(limit, upsert?)(TableScan | PK range))                   *)
(*   Retry(ProjectAndUpdate(upsert?, projectNew)(TableScan | PK range))    *)
(*   Retry(Insert(docs))                                                   *)
(*   Retry(IndexInsert(index))        (createIndexes, line 945)            *)
(*   Retry(UpdateIndexStatus(status, buildId))                             *)
(*                                                                         *)
(* The second is an isolated findAndModify: projectAndUpdate takes the     *)
(* first document (or, with none, inserts the upsert, taking a permit for  *)
(* it), updates it, writes it into the transaction with commitChanges()   *)
(* and sends its projection, unless it upserted without projectNew.        *)
(*                                                                         *)
(* Each attempt runs the whole sub-plan on a new PlanCheckpoint (so with a *)
(* new flow-control lock and a count of 0) in one transaction.  doRetry    *)
(* stages every document it receives (commitChanges) and keeps the staged  *)
(* ones in ret.  At end_of_stream it stops the sub-plan, waits for what is *)
(* still staging, commits, and only then outputs ret under the outer lock. *)
(* A retryable error, from the sub-plan, from commitChanges or from the    *)
(* commit, is passed to onError, which either backs off (and the whole    *)
(* plan is run again) or, at the transaction's retry limit, rethrows it.   *)
(* commit_unknown_result is rethrown at once: the commit may or may not    *)
(* have happened.                                                          *)
(*                                                                         *)
(* doInsert inserts the documents of the range, in order, taking a permit *)
(* for each.  The index catalog the two index plans read is fixed for the *)
(* run: it holds no conflicting index (or this build's id), an index with *)
(* the same key or with the same name, or another build's id.             *)
(*                                                                         *)
(* Keys are abstracted as in PlanUpdateRW; there are no checkpoints, so no *)
(* split is ever written (boundsWanted stays false under stop()).          *)
(***************************************************************************)
EXTENDS Integers, Sequences, SequencesExt

CONSTANTS
    N,             \* documents 1..N, one KV cell each
    Ranges,        \* the [begin, end) key ranges a query may scan
    Ops,           \* the sub-plans a query may have: [kind, projectNew]
    Catalogs,      \* what the index catalog may hold for the index plans
    Limit,         \* the UpdatePlan's limit
    Upsert,        \* does the UpdatePlan have an upsertOp?
    Permits,       \* FLOW_CONTROL_LOCK_PERMITS of each PlanCheckpoint
    OuterPermits,  \* permits of the outer checkpoint's lock
    MaxRetries,    \* bound on the retryable errors the environment produces
    CommitUnknown  \* may a commit end in commit_unknown_result?

END == N + 1
Keys == 0..END
Docs == 1..N
UPSERTED == N + 1
INDEXDOC == N + 2          \* the index document an index plan writes
ScanOps == {"Update", "ProjectAndUpdate"}
IndexOps == {"IndexInsert", "UpdateIndexStatus"}

ASSUME /\ N \in Nat \ {0} /\ Ranges \subseteq {r \in Keys \X Keys : r[1] <= r[2]}
       /\ Ops \subseteq [kind : ScanOps \cup {"Insert"} \cup IndexOps, projectNew : BOOLEAN]
       /\ Catalogs \subseteq {"none", "sameKey", "sameName", "otherBuild"}
       /\ Limit \in Nat \ {0} /\ Upsert \in BOOLEAN
       /\ Permits \in Nat \ {0} /\ OuterPermits \in Nat \ {0}
       /\ MaxRetries \in Nat /\ CommitUnknown \in BOOLEAN

VARIABLES
    range,      \* the query's range <<begin, end>>, fixed for the whole run
    op,         \* the sub-plan over the scan, fixed for the whole run
    catalog,    \* the index catalog an index plan reads, fixed for the run
    scan,       \* the doPKScan actor of the current attempt
    uin,        \* documents sent to doUpdate after it stopped reading
    upd,        \* the doUpdate or projectAndUpdate actor: [phase, uq, ended, held]
    count,      \* doUpdate's count (int state 0 of innerCheckpoint)
    txn,        \* the writes made in the attempt's transaction, in order
    rdocs,      \* documents doUpdate sent, not yet received by doRetry
    active,     \* permits taken from innerCheckpoint's lock
    rt,         \* the doRetry actor: [phase, retries]
    committing, \* committing: documents whose commitChanges() is pending
    ret,        \* ret: staged documents of this attempt, then the output
    applied,    \* updates committed to the database, in commit order
    out, outEnd, outActive, delivered

vars == <<range, op, catalog, scan, uin, upd, count, txn, rdocs, active, rt, committing, ret,
          applied, out, outEnd, outActive, delivered>>

-----------------------------------------------------------------------------
(* What the update must do: the first Limit documents of the range (the    *)
(* first one for projectAndUpdate), or an upsert when there are none; and  *)
(* what it outputs: those documents, except an upsert without projectNew.  *)

InRange == SelectSeq([i \in Docs |-> i], LAMBDA d : range[1] <= d /\ d < range[2])
OpLimit == IF op.kind = "Update" THEN Limit ELSE 1
ExpectedUpdates ==
    CASE op.kind = "Insert" -> InRange
      [] op.kind \in IndexOps -> IF catalog = "none" THEN <<INDEXDOC>> ELSE <<>>
      [] InRange = <<>> /\ Upsert -> <<UPSERTED>>
      [] OTHER -> SubSeq(InRange, 1, IF OpLimit < Len(InRange) THEN OpLimit ELSE Len(InRange))
ExpectedOutput ==
    IF op.kind = "ProjectAndUpdate" /\ ~op.projectNew /\ InRange = <<>> THEN <<>>
    ELSE ExpectedUpdates

-----------------------------------------------------------------------------
(* The sub-plan: doPKScan and doUpdate                                     *)

\* A doPKScan actor over the query's range on a new checkpoint, whose
\* bounds are the whole key space; the other plans have no scan.
NewScan ==
    IF op.kind \in ScanOps THEN [phase |-> "read", pos |-> IF range[1] < 1 THEN 1 ELSE range[1]]
    ELSE [phase |-> "done", pos |-> 0]

\* A new doUpdate or projectAndUpdate actor, reading its input; doInsert,
\* whose loop breaks at once with no documents; doIndexInsert, waiting for
\* its permit; updateIndexStatus, reading the index document.
NewUpdate ==
    [phase |-> CASE op.kind = "Insert" /\ InRange = <<>> -> "done"
                 [] op.kind = "IndexInsert" -> "index"
                 [] op.kind = "UpdateIndexStatus" -> "status"
                 [] OTHER -> "run",
     uq |-> <<>>, ended |-> op.kind = "Insert" /\ InRange = <<>>, held |-> 0]

\* Mutant: end_of_stream is never sent after the last update.
SettleNoEnd(u, c) ==
    IF u.phase = "drain" /\ u.uq = <<>>
    THEN IF op.kind = "Update" /\ Upsert /\ c = 0 THEN [u EXCEPT !.phase = "upsert"]
         ELSE [u EXCEPT !.phase = "done"]
    ELSE u

\* Once its input has ended or the limit is reached and every started
\* update has been sent on, doUpdate upserts when the count is 0, and
\* otherwise sends end_of_stream.
Settle(u, c) ==
    IF u.phase = "drain" /\ u.uq = <<>>
    THEN IF op.kind = "Update" /\ Upsert /\ c = 0 THEN [u EXCEPT !.phase = "upsert"]
         ELSE [u EXCEPT !.phase = "done", !.ended = TRUE]
    ELSE u

\* waitNext(input): the update is started, count += 1, and at the limit
\* doUpdate stops reading its input.
Receive(u, c, d) ==
    [u EXCEPT !.uq = Append(@, d), !.phase = IF c + 1 >= Limit THEN "drain" ELSE "run"]

\* A document sent to the actor while it reads its input: doUpdate starts
\* its update and counts it; projectAndUpdate's waitNext returns it as its
\* first document, and it reads no more.
Accept(d) ==
    IF op.kind = "Update"
    THEN upd' = Receive(upd, count, d) /\ count' = count + 1
    ELSE upd' = [upd EXCEPT !.phase = "work", !.uq = <<d>>] /\ UNCHANGED count

\* end_of_stream reaches the reading actor: doUpdate drains what it started;
\* projectAndUpdate's waitNext throws it, so it goes on with no document.
InputEnded(u) ==
    IF op.kind = "Update" THEN Settle([u EXCEPT !.phase = "drain"], count)
    ELSE [u EXCEPT !.phase = "work"]

\* waitNext(kvs) of doPKScan: the next document goes to the permit wait;
\* at the end of the range end_of_stream reaches a reading doUpdate.
ScanRead ==
    /\ scan.phase = "read"
    /\ \/ /\ scan.pos < range[2] /\ scan.pos <= N
          /\ scan' = [scan EXCEPT !.phase = "take"]
          /\ UNCHANGED upd
       \/ /\ scan.pos >= range[2] \/ scan.pos > N
          /\ scan' = [scan EXCEPT !.phase = "done"]
          /\ upd' = IF upd.phase = "run" THEN InputEnded(upd) ELSE upd
    /\ UNCHANGED <<range, op, catalog, txn, uin, count, rdocs, active, rt, committing, ret, applied,
                   out, outEnd, outActive, delivered>>

\* Mutant: the scan sends without waiting for a permit.
ScanTakeNoWait ==
    /\ scan.phase = "take"
    /\ active' = active + 1
    /\ scan' = [scan EXCEPT !.phase = "read", !.pos = @ + 1]
    /\ IF upd.phase = "run"
       THEN Accept(scan.pos) /\ UNCHANGED uin
       ELSE /\ uin' = Append(uin, scan.pos)
            /\ UNCHANGED <<upd, count>>
    /\ UNCHANGED <<range, op, catalog, txn, rdocs, rt, committing, ret, applied, out, outEnd,
                   outActive, delivered>>

\* outputLock->take(1) and send: a reading doUpdate receives the document
\* at once; after the limit it stays in the stream.
ScanTake ==
    /\ scan.phase = "take"
    /\ active < Permits
    /\ active' = active + 1
    /\ scan' = [scan EXCEPT !.phase = "read", !.pos = @ + 1]
    /\ IF upd.phase = "run"
       THEN Accept(scan.pos) /\ UNCHANGED uin
       ELSE /\ uin' = Append(uin, scan.pos)
            /\ UNCHANGED <<upd, count>>
    /\ UNCHANGED <<range, op, catalog, txn, rdocs, rt, committing, ret, applied, out, outEnd, outActive,
                   delivered>>

\* The head's update resolves and the document is sent on.
UpdateComplete ==
    /\ upd.phase \in {"run", "drain"}
    /\ upd.uq # <<>>
    /\ rdocs' = Append(rdocs, Head(upd.uq))
    /\ upd' = Settle([upd EXCEPT !.uq = Tail(@)], count)
    /\ UNCHANGED <<range, op, catalog, txn, scan, uin, count, active, rt, committing, ret, applied, out,
                   outEnd, outActive, delivered>>

\* projectAndUpdate after its first waitNext: the first document is
\* updated, or with none the upsert is inserted after flowControlLock->
\* take(); commitChanges() writes it into the transaction; the projection is
\* sent unless the upsert happened without projectNew (whose permit is then
\* never released); then end_of_stream.
ProjectAndUpdate ==
    /\ upd.phase = "work"
    /\ LET any == upd.uq # <<>>
           doc == IF any THEN Head(upd.uq) ELSE UPSERTED
           writes == any \/ Upsert
           sends == any \/ (op.projectNew /\ Upsert)
       IN  /\ ~any /\ Upsert => active < Permits
           /\ active' = IF ~any /\ Upsert THEN active + 1 ELSE active
           /\ txn' = IF writes THEN Append(txn, doc) ELSE txn
           /\ rdocs' = IF sends THEN Append(rdocs, doc) ELSE rdocs
           /\ upd' = [phase |-> "done", uq |-> <<>>, ended |-> TRUE,
                      held |-> IF writes /\ ~sends THEN 1 ELSE 0]
    /\ UNCHANGED <<range, op, catalog, scan, uin, count, rt, committing, ret, applied, out, outEnd,
                   outActive, delivered>>

\* flowControlLock->take(), upsertOp->insert(), send, end_of_stream.
UpdateUpsert ==
    /\ upd.phase = "upsert"
    /\ active < Permits
    /\ active' = active + 1
    /\ rdocs' = Append(rdocs, UPSERTED)
    /\ upd' = [upd EXCEPT !.phase = "done", !.ended = TRUE]
    /\ UNCHANGED <<range, op, catalog, txn, scan, uin, count, rt, committing, ret, applied, out, outEnd,
                   outActive, delivered>>

\* doInsert's choose: flowControlLock->take(), the next insert is started
\* and i++; once all are started the loop breaks, and the inserts still
\* pending are awaited and sent in order before end_of_stream.
InsertTake ==
    /\ op.kind = "Insert"
    /\ upd.phase = "run"
    /\ active < Permits
    /\ active' = active + 1
    /\ count' = count + 1
    /\ upd' = [upd EXCEPT !.uq = Append(@, InRange[count + 1]),
                          !.phase = IF count + 1 >= Len(InRange) THEN "drain" ELSE "run"]
    /\ UNCHANGED <<range, op, catalog, txn, scan, uin, rdocs, rt, committing, ret, applied,
                   out, outEnd, outActive, delivered>>

\* doIndexInsert: flowControlLock->take(1), then the collection's indexes
\* are read.  An index with the same key throws end_of_stream with nothing
\* sent; one with the same name, index_name_taken; the permit is kept in
\* both.  Otherwise the index document is inserted and the metadata
\* version bumped in the transaction, and the document is sent.
IndexInsert ==
    /\ upd.phase = "index"
    /\ active < Permits
    /\ active' = active + 1
    /\ rdocs' = IF catalog \in {"sameKey", "sameName"} THEN rdocs ELSE Append(rdocs, INDEXDOC)
    /\ upd' = [phase |-> IF catalog = "sameName" THEN "failed" ELSE "done", uq |-> <<>>,
               ended |-> catalog # "sameName",
               held |-> IF catalog \in {"sameKey", "sameName"} THEN 1 ELSE 0]
    /\ UNCHANGED <<range, op, catalog, txn, scan, uin, count, rt, committing, ret, applied,
                   out, outEnd, outActive, delivered>>

\* updateIndexStatus with a build id: the index document's "build id" is
\* read; another build's id throws index_wrong_build_id.  Otherwise, after
\* flowControlLock->take(), the status is set, the marker and the build id
\* cleared and the metadata version bumped, and the document is sent.
UpdateIndexStatus ==
    /\ upd.phase = "status"
    /\ \/ /\ catalog = "otherBuild"
          /\ upd' = [upd EXCEPT !.phase = "failed"]
          /\ UNCHANGED <<active, rdocs>>
       \/ /\ catalog # "otherBuild"
          /\ active < Permits
          /\ active' = active + 1
          /\ rdocs' = Append(rdocs, INDEXDOC)
          /\ upd' = [upd EXCEPT !.phase = "done", !.ended = TRUE]
    /\ UNCHANGED <<range, op, catalog, txn, scan, uin, count, rt, committing, ret, applied,
                   out, outEnd, outActive, delivered>>

-----------------------------------------------------------------------------
(* doRetry                                                                 *)

\* Mutant: a new attempt re-uses the previous checkpoint's lock.
NewAttemptSameLock ==
    /\ scan' = NewScan /\ uin' = <<>> /\ upd' = NewUpdate /\ count' = 0
    /\ rdocs' = <<>> /\ committing' = <<>> /\ ret' = <<>> /\ txn' = <<>>
    /\ UNCHANGED active

\* Mutant: ret is not cleared for the next attempt.
NewAttemptKeepRet ==
    /\ scan' = NewScan /\ uin' = <<>> /\ upd' = NewUpdate /\ count' = 0
    /\ rdocs' = <<>> /\ active' = 0 /\ committing' = <<>> /\ txn' = <<>>
    /\ UNCHANGED ret

\* A new attempt: subPlan->execute() on a new PlanCheckpoint (a new lock,
\* count 0) in a new transaction, with committing and ret empty.
NewAttempt ==
    /\ scan' = NewScan /\ uin' = <<>> /\ upd' = NewUpdate /\ count' = 0
    /\ rdocs' = <<>> /\ active' = 0 /\ committing' = <<>> /\ ret' = <<>> /\ txn' = <<>>

\* The catch at 956-962: onError backs off and the loop runs a new attempt
\* in a new transaction, or onError rethrows and the error goes to the
\* output (line 966).  Line 962 makes a new transaction for every attempt,
\* so the RETRY_LIMIT set by RetryPlan::newTransaction (line 981) counts
\* from 0 each time and is reached only when it is 0; onError also rethrows
\* after the transaction's TIMEOUT.  Either may end any attempt.
OnError ==
    \/ /\ rt.retries < MaxRetries
       /\ NewAttempt
       /\ rt' = [phase |-> "run", retries |-> rt.retries + 1]
       /\ UNCHANGED outEnd
    \/ /\ rt' = [rt EXCEPT !.phase = "done"]
       /\ outEnd' = "error"
       /\ scan' = [scan EXCEPT !.phase = "stopped"]
       /\ upd' = [upd EXCEPT !.phase = "stopped"]
       /\ UNCHANGED <<uin, count, txn, rdocs, active, committing, ret>>

\* waitNext(docs): commitChanges() of the document is started.
RetryReceive ==
    /\ rt.phase = "run"
    /\ rdocs # <<>>
    /\ committing' = Append(committing, Head(rdocs))
    /\ rdocs' = Tail(rdocs)
    /\ UNCHANGED <<range, op, catalog, txn, scan, uin, upd, count, active, rt, ret, applied, out, outEnd,
                   outActive, delivered>>

\* The head's commitChanges() resolves, in the loop or in the drain after
\* it: the document joins ret and its permit is released; this writes the
\* document's changes into the transaction (projectAndUpdate wrote its own).
RetryStaged ==
    /\ rt.phase \in {"run", "drain"}
    /\ committing # <<>>
    /\ ret' = Append(ret, Head(committing))
    /\ committing' = Tail(committing)
    /\ txn' = IF op.kind = "ProjectAndUpdate" THEN txn ELSE Append(txn, Head(committing))
    /\ active' = active - 1
    /\ UNCHANGED <<range, op, catalog, scan, uin, upd, count, rdocs, rt, applied, out, outEnd,
                   outActive, delivered>>

\* waitNext(docs) throws end_of_stream: innerCheckpoint->stop() cancels the
\* sub-plan (the documents left in its streams are dropped with its lock).
RetryEnd ==
    /\ rt.phase = "run"
    /\ rdocs = <<>>
    /\ upd.ended
    /\ scan' = [scan EXCEPT !.phase = "stopped"]
    /\ upd' = [upd EXCEPT !.phase = "stopped"]
    /\ uin' = <<>>
    /\ rt' = [rt EXCEPT !.phase = "drain"]
    /\ UNCHANGED <<range, op, catalog, txn, count, rdocs, active, committing, ret, applied, out, outEnd,
                   outActive, delivered>>

\* A retryable error reaches doRetry before the commit: a read of the
\* sub-plan fails (waitNext(docs) throws it, and stop() cancels the plan) or
\* a commitChanges() future fails.
RetryError ==
    /\ rt.phase \in {"run", "drain"}
    /\ OnError
    /\ UNCHANGED <<range, op, catalog, applied, out, outActive, delivered>>

\* The sub-plan's error is not retryable (index_name_taken,
\* index_wrong_build_id): waitNext(docs) throws it after the documents sent
\* before it, stop() cancels the plan, and onError rethrows it to the output.
RetryFailed ==
    /\ rt.phase = "run"
    /\ upd.phase = "failed"
    /\ rdocs = <<>>
    /\ rt' = [rt EXCEPT !.phase = "done"]
    /\ outEnd' = "error"
    /\ upd' = [upd EXCEPT !.phase = "stopped"]
    /\ UNCHANGED <<range, op, catalog, txn, scan, uin, count, rdocs, active, committing, ret,
                   applied, out, outActive, delivered>>

\* Mutant: commit_unknown_result is handled as a retryable error.
RetryCommitUnknownRetried ==
    /\ rt.phase = "drain"
    /\ committing = <<>>
    /\ \/ /\ applied' = applied \o txn
          /\ rt' = [rt EXCEPT !.phase = "output"]
          /\ UNCHANGED <<scan, uin, upd, count, txn, rdocs, active, committing, ret,
                         outEnd>>
       \/ /\ OnError
          /\ UNCHANGED applied
       \/ /\ CommitUnknown
          /\ OnError
          /\ applied' \in {applied, applied \o txn}
    /\ UNCHANGED <<range, op, catalog, out, outActive, delivered>>

\* Mutant: the commit does not wait for the documents still staging.
RetryCommitEarly ==
    /\ rt.phase = "drain"
    /\ \/ /\ applied' = applied \o txn
          /\ rt' = [rt EXCEPT !.phase = "output"]
          /\ UNCHANGED <<scan, uin, upd, count, txn, rdocs, active, committing, ret,
                         outEnd>>
       \/ /\ OnError
          /\ UNCHANGED applied
       \/ /\ CommitUnknown
          /\ applied' \in {applied, applied \o txn}
          /\ rt' = [rt EXCEPT !.phase = "done"]
          /\ outEnd' = "error"
          /\ UNCHANGED <<scan, uin, upd, count, txn, rdocs, active, committing, ret>>
    /\ UNCHANGED <<range, op, catalog, out, outActive, delivered>>

\* tr->commit() once nothing is staging: on success the updates of ret are
\* durable; a retryable failure goes to onError; commit_unknown_result is
\* rethrown to the output whether or not the commit took effect.
RetryCommit ==
    /\ rt.phase = "drain"
    /\ committing = <<>>
    /\ \/ /\ applied' = applied \o txn
          /\ rt' = [rt EXCEPT !.phase = "output"]
          /\ UNCHANGED <<scan, uin, upd, count, txn, rdocs, active, committing, ret,
                         outEnd>>
       \/ /\ OnError
          /\ UNCHANGED applied
       \/ /\ CommitUnknown
          /\ applied' \in {applied, applied \o txn}
          /\ rt' = [rt EXCEPT !.phase = "done"]
          /\ outEnd' = "error"
          /\ UNCHANGED <<scan, uin, upd, count, txn, rdocs, active, committing, ret>>
    /\ UNCHANGED <<range, op, catalog, out, outActive, delivered>>

\* The loop over ret: outerLock->take(1), then output.send(r).
RetryOutput ==
    /\ rt.phase = "output"
    /\ ret # <<>>
    /\ outActive < OuterPermits
    /\ outActive' = outActive + 1
    /\ out' = Append(out, Head(ret))
    /\ ret' = Tail(ret)
    /\ UNCHANGED <<range, op, catalog, txn, scan, uin, upd, count, rdocs, active, rt, committing,
                   applied, outEnd, delivered>>

\* throw end_of_stream(): it is rethrown by both catches and sent on.
RetryEndOfStream ==
    /\ rt.phase = "output"
    /\ ret = <<>>
    /\ rt' = [rt EXCEPT !.phase = "done"]
    /\ outEnd' = "end_of_stream"
    /\ UNCHANGED <<range, op, catalog, txn, scan, uin, upd, count, rdocs, active, committing, ret,
                   applied, out, outActive, delivered>>

\* waitNext(stream), flowControlLock->release().
Consume ==
    /\ out # <<>>
    /\ delivered' = Append(delivered, Head(out))
    /\ out' = Tail(out)
    /\ outActive' = outActive - 1
    /\ UNCHANGED <<range, op, catalog, txn, scan, uin, upd, count, rdocs, active, rt, committing, ret,
                   applied, outEnd>>

-----------------------------------------------------------------------------

Init ==
    /\ range \in Ranges
    /\ op \in Ops
    /\ catalog \in CASE op.kind = "IndexInsert" -> Catalogs \ {"otherBuild"}
                    [] op.kind = "UpdateIndexStatus" -> Catalogs \cap {"none", "otherBuild"}
                    [] OTHER -> {"none"}
    /\ txn = <<>>
    /\ scan = NewScan /\ uin = <<>> /\ upd = NewUpdate /\ count = 0
    /\ rdocs = <<>> /\ active = 0 /\ committing = <<>> /\ ret = <<>>
    /\ rt = [phase |-> "run", retries |-> 0]
    /\ applied = <<>>
    /\ out = <<>> /\ outEnd = "none" /\ outActive = 0 /\ delivered = <<>>

Next ==
    \/ ScanRead \/ ScanTake \/ UpdateComplete \/ UpdateUpsert \/ ProjectAndUpdate
    \/ InsertTake \/ IndexInsert \/ UpdateIndexStatus
    \/ RetryReceive \/ RetryStaged \/ RetryEnd \/ RetryError \/ RetryFailed \/ RetryCommit
    \/ RetryOutput \/ RetryEndOfStream \/ Consume

\* Every actor whose future is ready eventually runs, and a commit
\* eventually completes one way or another.  Errors are not obliged to
\* happen, and their number is bounded by the retry limit.
Fairness ==
    /\ WF_vars(ScanRead) /\ WF_vars(ScanTake) /\ WF_vars(UpdateComplete)
    /\ WF_vars(UpdateUpsert) /\ WF_vars(ProjectAndUpdate) /\ WF_vars(InsertTake)
    /\ WF_vars(IndexInsert) /\ WF_vars(UpdateIndexStatus) /\ WF_vars(RetryFailed)
    /\ WF_vars(RetryReceive) /\ WF_vars(RetryStaged)
    /\ WF_vars(RetryEnd) /\ WF_vars(RetryCommit) /\ WF_vars(RetryOutput)
    /\ WF_vars(RetryEndOfStream) /\ WF_vars(Consume)

Spec == Init /\ [][Next]_vars /\ Fairness

-----------------------------------------------------------------------------
(* Properties                                                              *)

TypeOK ==
    /\ range \in Ranges /\ op \in Ops /\ catalog \in Catalogs \cup {"none"}
    /\ txn \in Seq(Docs \cup {UPSERTED, INDEXDOC})
    /\ scan.phase \in {"read", "take", "done", "stopped"}
    /\ upd.phase \in {"run", "drain", "work", "upsert", "index", "status", "failed", "done",
                     "stopped"}
    /\ rt.phase \in {"run", "drain", "output", "done"} /\ rt.retries \in 0..MaxRetries
    /\ count \in 0..N /\ active \in 0..Permits /\ outActive \in 0..OuterPermits
    /\ applied \in Seq(Docs \cup {UPSERTED, INDEXDOC})
    /\ outEnd \in {"none", "end_of_stream", "error"}

\* doRetry is all or nothing: across every attempt, retries and a
\* commit_unknown_result included, the database holds either none of the
\* update's effects or exactly the ones a single run would make (spec 4.12
\* and scenario 6: the committed state matches a single successful run).
AllOrNothing == applied \in {<<>>, ExpectedUpdates}

\* doRetry only outputs documents whose updates have committed, in the
\* order they were staged.
OutputOnlyCommitted == IsPrefix(delivered \o out, applied)

\* When the query ends normally, the consumer is given exactly what a
\* single run outputs, and the updates of a single run are committed.
CompleteOnEnd ==
    outEnd = "end_of_stream" => delivered \o out = ExpectedOutput /\ applied = ExpectedUpdates

\* Documents some actor of the current attempt holds, projectAndUpdate's
\* unsent upsert included.
InFlight == Len(uin) + Len(upd.uq) + upd.held + Len(rdocs) + Len(committing)

\* Every permit of the current attempt's lock is held by a document of that
\* attempt: none is lost with the documents of an abandoned attempt.
PermitsTrackDocuments == rt.phase = "run" => active = InFlight

\* The query always finishes, with end_of_stream or an error.
QueryTerminates == <>(outEnd # "none")

====
