-------------------------- MODULE PlanFindAndModify --------------------------
(***************************************************************************)
(* findAndModify (QLPlan.actor.cpp, FindAndModifyPlan) over the plan       *)
(*                                                                         *)
(*   FindAndModify(Filter(TableScan | PK range))                           *)
(*                                                                         *)
(* The actor runs the sub-plan non-isolated: each segment is one           *)
(* transaction with a 1 s timer; when the timer wins the choose it calls   *)
(* stopAndCheckpoint(), opens a new transaction, re-checks the collection  *)
(* metadata and runs the sub-plan again on the checkpoint.  The first     *)
(* document the sub-plan outputs (or end_of_stream) ends the search: the   *)
(* sub-plan is stopped and, in the transaction that found it, the document *)
(* is updated (or, with nothing found, the upsert inserted), committed,   *)
(* and the reply sent under the outer lock.                                *)
(*                                                                         *)
(* Documents have one KV cell; 0 is the empty key, END = N+1 is "\xff".    *)
(***************************************************************************)
EXTENDS Integers, Sequences, SequencesExt

CONSTANTS
    N,              \* documents in the collection, primary keys 1..N
    Pass,           \* documents the query predicate accepts
    Requests,       \* [lo, hi, upsert, projectNew]: the requests a client may send
    Permits,        \* FLOW_CONTROL_LOCK_PERMITS of each PlanCheckpoint
    OuterPermits,   \* permits of the outer checkpoint's lock
    MaxSegments,    \* bound on the transactions (the code has none)
    MaxMetaChanges, \* bound on concurrent metadata changes
    CommitFails,    \* may the final commit fail (conflict, unknown result)?
    SlowFirstRead   \* may a segment's timer fire before its scan reads?

END == N + 1
Keys == 0..END
Docs == 1..N
UPSERTED == N + 1   \* the document upsertOp->insert() creates

ASSUME /\ N \in Nat \ {0} /\ Pass \subseteq Docs
       /\ Requests \subseteq [lo : Keys, hi : Keys, upsert : BOOLEAN, projectNew : BOOLEAN]
       /\ Permits \in Nat \ {0} /\ OuterPermits \in Nat \ {0}
       /\ MaxSegments \in Nat \ {0} /\ MaxMetaChanges \in Nat
       /\ CommitFails \in BOOLEAN /\ SlowFirstRead \in BOOLEAN

VARIABLES
    req,       \* the request, fixed for the whole run
    ckpt,      \* scan 0 of innerCheckpoint: the rest of the range [begin, END)
    scan,      \* the doPKScan actor of the current segment
    fq,        \* doFilter's deque: documents whose predicate is pending
    fended,    \* end_of_stream has reached doFilter
    docs,      \* the sub-plan's output stream, read by findAndModify
    dended,    \* end_of_stream has been sent into docs
    active,    \* permits taken from innerCheckpoint's lock
    fm,        \* the findAndModify actor
    applied,   \* the writes committed to the database
    out, outEnd, outActive, delivered,
    dbMeta,    \* the collection's metadata in the database
    last,      \* the driver's last document received (0: none)
    ret        \* the driver's outcome: running, error, or returned (count, last)

vars == <<req, ckpt, scan, fq, fended, docs, dended, active, fm, applied,
          out, outEnd, outActive, delivered, dbMeta, last, ret>>

driver == <<last, ret>>

sub == <<ckpt, scan, fq, fended, docs, dended, active>>

-----------------------------------------------------------------------------
(* What the request must do                                                *)

Matches == SelectSeq([i \in Docs |-> i], LAMBDA d : req.lo <= d /\ d < req.hi /\ d \in Pass)

\* The first match is modified; with no match the upsert is inserted.
Intended ==
    IF Matches # <<>> THEN <<Head(Matches)>>
    ELSE IF req.upsert THEN <<UPSERTED>> ELSE <<>>

-----------------------------------------------------------------------------
(* The sub-plan: doPKScan and doFilter                                     *)

\* A doPKScan actor on the checkpoint: [max(lo, begin), hi).
NewScan(c) ==
    [phase |-> "read", pos |-> Max({req.lo, c.begin, 1}), lastKey |-> 0]

\* waitNext(kvs): the next document goes to the permit wait; at the end of
\* the range end_of_stream reaches doFilter, and passes it when it is idle.
ScanRead ==
    /\ scan.phase = "read"
    /\ \/ /\ scan.pos < req.hi /\ scan.pos <= N
          /\ scan' = [scan EXCEPT !.phase = "take"]
          /\ UNCHANGED <<fended, dended>>
       \/ /\ scan.pos >= req.hi \/ scan.pos > N
          /\ scan' = [scan EXCEPT !.phase = "done"]
          /\ fended' = TRUE
          /\ dended' = (fq = <<>>)
    /\ UNCHANGED <<req, driver, ckpt, fq, docs, active, fm, applied, out, outEnd, outActive,
                   delivered, dbMeta>>

\* outputLock->take(1), send, and only then lastKey := the cell's key.
ScanTake ==
    /\ scan.phase = "take"
    /\ active < Permits
    /\ active' = active + 1
    /\ fq' = Append(fq, scan.pos)
    /\ scan' = [scan EXCEPT !.phase = "read", !.lastKey = scan.pos, !.pos = @ + 1]
    /\ UNCHANGED <<req, driver, ckpt, fended, docs, dended, fm, applied, out, outEnd,
                   outActive, delivered, dbMeta>>

\* Mutant: a permit is released for every document, passing or not.
FilterCompleteReleaseAll ==
    /\ fq # <<>>
    /\ docs' = IF Head(fq) \in Pass THEN Append(docs, Head(fq)) ELSE docs
    /\ fq' = Tail(fq)
    /\ active' = active - 1
    /\ dended' = (fended /\ fq' = <<>>)
    /\ UNCHANGED <<req, driver, ckpt, scan, fended, fm, applied, out, outEnd, outActive,
                   delivered, dbMeta>>

\* doFilter: the head's predicate resolves; a passing document is sent on,
\* a failing one dropped and its permit released.  Once the deque drains
\* after end_of_stream, end_of_stream is sent on.
FilterComplete ==
    /\ fq # <<>>
    /\ docs' = IF Head(fq) \in Pass THEN Append(docs, Head(fq)) ELSE docs
    /\ fq' = Tail(fq)
    /\ active' = IF Head(fq) \in Pass THEN active ELSE active - 1
    /\ dended' = (fended /\ fq' = <<>>)
    /\ UNCHANGED <<req, driver, ckpt, scan, fended, fm, applied, out, outEnd, outActive,
                   delivered, dbMeta>>

\* Mutant: doFilter's handler writes its documents in output order.
FilterSplitForward(s) == IF fq = <<>> THEN s ELSE Last(fq)

\* stop() with bounds wanted: doPKScan writes strinc(lastKey) (any key when
\* lastKey is still empty: the decode of an empty key is undefined), or
\* nothing when it has finished; then doFilter writes its documents' keys
\* from the back, so its head's key is the split.
ScanSplits == IF scan.lastKey = 0 THEN Keys ELSE {scan.lastKey + 1}
FilterSplit(s) == IF fq = <<>> THEN s ELSE Head(fq)

-----------------------------------------------------------------------------
(* findAndModify                                                           *)

\* The sub-plan of a segment is cancelled by innerCheckpoint->stop().
Stopped ==
    /\ scan' = [scan EXCEPT !.phase = "stopped"]
    /\ fq' = <<>> /\ docs' = <<>>

\* waitNext(docs) wins the choose: firstDoc, innerLock->release(), done;
\* the loop breaks and innerCheckpoint->stop() cancels the sub-plan.
FMFound ==
    /\ fm.phase = "choose"
    /\ docs # <<>>
    /\ fm' = [fm EXCEPT !.phase = "commit", !.any = TRUE, !.first = Head(docs)]
    /\ active' = active - 1
    /\ Stopped
    /\ UNCHANGED <<req, driver, ckpt, fended, dended, applied, out, outEnd, outActive,
                   delivered, dbMeta>>

\* waitNext(docs) throws end_of_stream: done with nothing found.
FMEnd ==
    /\ fm.phase = "choose"
    /\ docs = <<>> /\ dended
    /\ fm' = [fm EXCEPT !.phase = "commit"]
    /\ Stopped
    /\ UNCHANGED <<req, driver, ckpt, fended, dended, active, applied, out, outEnd,
                   outActive, delivered, dbMeta>>

\* Mutant: the next segment keeps the stopped checkpoint's permits.
FMTimeoutKeepLock ==
    /\ fm.phase = "choose"
    /\ docs = <<>> /\ ~dended
    /\ fm.seg < MaxSegments
    /\ SlowFirstRead \/ scan.lastKey # 0 \/ scan.phase = "done"
    /\ \E s \in IF scan.phase = "done" THEN {END} ELSE ScanSplits :
          ckpt' = [begin |-> FilterSplit(s)]
    /\ Stopped
    /\ fended' = FALSE /\ dended' = FALSE
    /\ fm' = [fm EXCEPT !.phase = "meta"]
    /\ UNCHANGED <<req, driver, active, applied, out, outEnd, outActive, delivered, dbMeta>>

\* The 1 s timer wins the choose: stopAndCheckpoint(), then a new
\* transaction and the wait for its metadata version.
FMTimeout ==
    /\ fm.phase = "choose"
    /\ docs = <<>> /\ ~dended
    /\ fm.seg < MaxSegments
    /\ SlowFirstRead \/ scan.lastKey # 0 \/ scan.phase = "done"
    /\ \E s \in IF scan.phase = "done" THEN {END} ELSE ScanSplits :
          ckpt' = [begin |-> FilterSplit(s)]
    /\ Stopped
    /\ fended' = FALSE /\ dended' = FALSE /\ active' = 0
    /\ fm' = [fm EXCEPT !.phase = "meta"]
    /\ UNCHANGED <<req, driver, applied, out, outEnd, outActive, delivered, dbMeta>>

\* The same metadata version, or an acceptable change, runs the sub-plan
\* again (++nTransactions); a moved collection or an unacceptable change
\* is thrown, and the catch sends the error.
FMResume ==
    /\ fm.phase = "meta"
    /\ \/ /\ dbMeta.version = fm.metaVersion \/ (~dbMeta.moved /\ dbMeta.okay)
          /\ scan' = NewScan(ckpt)
          /\ fm' = [fm EXCEPT !.phase = "choose", !.seg = @ + 1,
                              !.metaVersion = dbMeta.version]
          /\ UNCHANGED outEnd
       \/ /\ dbMeta.version # fm.metaVersion
          /\ dbMeta.moved \/ ~dbMeta.okay
          /\ outEnd' = IF dbMeta.moved THEN "collection_metadata_changed"
                                       ELSE "metadata_changed_nonisolated"
          /\ fm' = [fm EXCEPT !.phase = "done"]
          /\ UNCHANGED scan
    /\ UNCHANGED <<req, driver, ckpt, fq, fended, docs, dended, active, applied, out,
                   outActive, delivered, dbMeta>>

\* The writes of the transaction: updateOp on firstDoc, else upsertOp.
Modified ==
    IF fm.any THEN <<fm.first>> ELSE IF req.upsert THEN <<UPSERTED>> ELSE <<>>

\* The reply: sent if any || (projectNew && upsertOp).
Reply ==
    IF fm.any \/ (req.projectNew /\ req.upsert) THEN Modified ELSE <<>>

\* Mutant: the reply is sent before the commit's outcome is known.
FMCommitSendFirst ==
    /\ fm.phase = "commit"
    /\ out' = out \o Reply
    /\ outActive' = outActive + Len(Reply)
    /\ \/ /\ applied' = Modified
          /\ outEnd' = "end_of_stream"
       \/ /\ CommitFails
          /\ applied' \in {applied, Modified}
          /\ outEnd' = "error"
    /\ fm' = [fm EXCEPT !.phase = "done"]
    /\ UNCHANGED <<req, driver, sub, fq, fended, dended, delivered, dbMeta>>

\* update / insert, commitChanges() and dtr->tr->commit() in the
\* transaction that found the document.  A failed commit is thrown to the
\* catch, which sends the error; commit_unknown_result may have committed.
FMCommit ==
    /\ fm.phase = "commit"
    /\ \/ /\ applied' = Modified
          /\ fm' = [fm EXCEPT !.phase = "send"]
          /\ UNCHANGED outEnd
       \/ /\ CommitFails
          /\ applied' \in {applied, Modified}
          /\ fm' = [fm EXCEPT !.phase = "done"]
          /\ outEnd' = "error"
    /\ UNCHANGED <<req, driver, sub, out, outActive, delivered, dbMeta>>

\* outerLock->take(), send the reply if there is one, throw end_of_stream.
\* The permit is taken even when there is no reply; nothing releases it.
FMSend ==
    /\ fm.phase = "send"
    /\ outActive < OuterPermits
    /\ out' = out \o Reply
    /\ outActive' = outActive + 1
    /\ outEnd' = "end_of_stream"
    /\ fm' = [fm EXCEPT !.phase = "done"]
    /\ UNCHANGED <<req, driver, sub, applied, delivered, dbMeta>>

-----------------------------------------------------------------------------
(* executeUntilCompletionAndReturnLastTransactionally, and the environment *)

\* waitNext(stream): last := next, flowControlLock->release(), count++
\* (count is Len(delivered)).
Consume ==
    /\ out # <<>>
    /\ delivered' = Append(delivered, Head(out))
    /\ last' = Head(out)
    /\ out' = Tail(out)
    /\ outActive' = outActive - 1
    /\ UNCHANGED <<req, ret, sub, fm, applied, outEnd, dbMeta>>

\* waitNext throws: checkpoint->stop(), then the pair (count, last) is
\* returned after end_of_stream and any other error is rethrown.
DriverReturn ==
    /\ ret.state = "running"
    /\ out = <<>> /\ outEnd # "none"
    /\ ret' = IF outEnd = "end_of_stream"
              THEN [state |-> "returned", count |-> Len(delivered), last |-> last]
              ELSE [ret EXCEPT !.state = "error"]
    /\ UNCHANGED <<req, last, sub, fm, applied, out, outEnd, outActive, delivered, dbMeta>>

\* Another client changes the collection's metadata.
ChangeMetadata ==
    /\ dbMeta.version < MaxMetaChanges
    /\ \E moved \in {dbMeta.moved, TRUE}, okay \in BOOLEAN :
          dbMeta' = [version |-> dbMeta.version + 1, moved |-> moved, okay |-> okay]
    /\ UNCHANGED <<req, driver, sub, fm, applied, out, outEnd, outActive, delivered>>

-----------------------------------------------------------------------------

Init ==
    /\ req \in Requests
    /\ ckpt = [begin |-> 0]
    /\ scan = NewScan([begin |-> 0])
    /\ fq = <<>> /\ fended = FALSE /\ docs = <<>> /\ dended = FALSE
    /\ active = 0
    /\ fm = [phase |-> "choose", seg |-> 1, metaVersion |-> 0, any |-> FALSE, first |-> 0]
    /\ applied = <<>>
    /\ out = <<>> /\ outEnd = "none" /\ outActive = 0 /\ delivered = <<>>
    /\ dbMeta = [version |-> 0, moved |-> FALSE, okay |-> TRUE]
    /\ last = 0 /\ ret = [state |-> "running", count |-> 0, last |-> 0]

Next ==
    \/ ScanRead \/ ScanTake \/ FilterComplete
    \/ FMFound \/ FMEnd \/ FMTimeout \/ FMResume \/ FMCommit \/ FMSend
    \/ Consume \/ DriverReturn \/ ChangeMetadata

\* Ready actors run; the timer, the commit's failure and other clients are
\* not obliged to act.
Fairness ==
    /\ WF_vars(ScanRead) /\ WF_vars(ScanTake) /\ WF_vars(FilterComplete)
    /\ WF_vars(FMFound) /\ WF_vars(FMEnd) /\ WF_vars(FMResume)
    /\ WF_vars(FMCommit) /\ WF_vars(FMSend) /\ WF_vars(Consume)
    /\ WF_vars(DriverReturn)

Spec == Init /\ [][Next]_vars /\ Fairness

-----------------------------------------------------------------------------
(* Properties                                                              *)

TypeOK ==
    /\ req \in Requests /\ ckpt \in [begin : Keys]
    /\ scan.phase \in {"read", "take", "done", "stopped"}
    /\ fq \in Seq(Docs) /\ docs \in Seq(Docs)
    /\ active \in 0..Permits /\ outActive \in 0..OuterPermits
    /\ fm.phase \in {"choose", "meta", "commit", "send", "done"}
    /\ applied \in Seq(Docs \cup {UPSERTED}) /\ out \in Seq(Docs \cup {UPSERTED})
    /\ last \in Docs \cup {0, UPSERTED}
    /\ ret \in [state : {"running", "error", "returned"}, count : 0..1,
               last : Docs \cup {0, UPSERTED}]

\* Whatever the segments and their checkpoints, the database is changed at
\* most by the intended write, the first match in key order (or the upsert
\* when nothing matches), and a request that ends normally has made it: no
\* document is skipped by a split, none modified twice.
FindsFirstMatch ==
    /\ applied \in {<<>>, Intended}
    /\ outEnd = "end_of_stream" => applied = Intended

\* The client is answered with the committed document only: a reply is sent
\* only after the commit succeeded, a request that ends normally replies
\* with the match, or with the upserted document when it asked for the new
\* one, and the driver returns exactly that reply as (count, last).
ReplyMatchesCommit ==
    LET reply == delivered \o out
        want == IF Matches = <<>> /\ ~req.projectNew THEN <<>> ELSE Intended
    IN  /\ reply # <<>> => applied = Intended /\ reply = Intended
        /\ outEnd = "end_of_stream" => reply = want
        /\ ret.state = "returned" =>
              ret.count = Len(want) /\ ret.last = IF want = <<>> THEN 0 ELSE want[1]

\* Every request is eventually answered, by a reply and end_of_stream or
\* by an error, and the driver returns or rethrows.
QueryTerminates == <>(ret.state # "running")
=============================================================================
