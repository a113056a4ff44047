# TLA+ models of the Document Layer query-plan executor

This directory models the query-plan executor of the FoundationDB Document
Layer, `src/src/QLPlan.actor.cpp`, and the expression header
`src/src/QLExpression.h`. A query plan is a tree of Flow actors. The leaves
scan FoundationDB key ranges. The inner nodes filter, project, update, flush,
skip, sort, insert, index and union the documents that flow up to them. The
predicate push-down planner builds these trees.

## 1. The system

### 1.1 Parts

- **Scans.**
  - `doPKScan` (TableScan, PrimaryKeyLookup range) reads key/value cells in
    order and groups them by primary key. Before it sends a document it takes
    a flow-control permit. It remembers the key of the last cell it sent in
    `lastKey`.
  - `doSinglePKLookup` fetches one document.
  - `toDocInfo` with `deduplicateIndexStream` (IndexScan) reads index entries.
    It emits a document at its last eligible entry.
- **FlowControlLock.** A counting semaphore, and the "document finished"
  signal. A scan takes one permit per document. Whoever drops or finishes the
  document releases the permit.
- **PlanCheckpoint.** It holds:
  - per scan, the bounds `[begin, end)` and the `split` written on
    cancellation;
  - per stateful op, an int state (the skip and limit counters);
  - the list of running ops.

  `stop()` cancels the ops in topological order. `stopAndCheckpoint()` first
  asks for split bounds, then stops, then builds the next checkpoint. Its
  scans start at the split, so the last writer of a split wins. The int
  states are copied into the next checkpoint. The contract (lines 45-60)
  says:
  - a scan writes a split at or before the next document it could output;
  - an asynchronous stage holding documents writes the scan key of the
    earliest one.
- **Head-queue stages.** `doFilter`, `doProject` and `doFlushChanges` start
  one asynchronous task per input document and keep the tasks in a deque.
  They output the results strictly from the head. On cancellation, Filter
  and Project write the scan keys of the documents they hold, from the back
  to the front, so the head is written last.
- **doSkip.** It drops the first `skip` documents, releasing their permits,
  and counts them in its int state. A Flow `send()` runs the waiting actor at
  once, so doSkip never holds a document.
- **doSort.** It runs its sub-plan on its own inner checkpoint and collects
  every document, releasing each inner permit at once. At end_of_stream it
  sorts them and sends them in order, each after a permit of the checkpoint
  it runs on.
- **Non-isolated plans.**
  - `doNonIsolatedRO` forwards documents under an outer lock. A timer (3 s
    first, then `NONISOLATED_INTERNAL_TIMEOUT`) ends the current transaction
    segment: stopAndCheckpoint, then a new transaction, then a metadata
    version check. The plan then re-executes from the checkpoint.
  - `doNonIsolatedRW` additionally commits each segment and retries it on a
    retryable failure.
- **Retry.** `doRetry` runs the whole sub-plan in one transaction, commits,
  and on a retryable error starts again on a new checkpoint.
- **Updates.** `doUpdate` applies an update to each document, up to a limit,
  or upserts when nothing matched. `ProjectAndUpdatePlan` does the same for
  the first document only and outputs the old or new document.
- **Inserts and indexes.**
  - `doInsert` starts one insert per permit and outputs them in order.
  - `doIndexInsert` checks the catalog for an index with the same key (then
    it ends with nothing sent) or the same name (an error). Otherwise it
    inserts the index document.
  - `updateIndexStatus` checks the build id, then sets the status.
  - `scanAndBuildIndex` (BuildIndex) writes an index entry per scanned
    document. On a resumed segment it first records the "currently
    processing document". Between segments `BuildIndexPlan::
    wasMetadataChangeOkay` accepts a metadata change only while its index is
    still building with its build id.
- **findAndModify.** It runs the sub-plan in 1-second transactions until the
  first document appears, then updates or upserts it, commits and replies.
- **Predicate push-down.** `construct_filter_plan` and the `push_down`
  methods of TableScan, IndexScan and Filter rewrite `Filter(scan, pred)`
  into primary-key lookups, index scans, unions and residual filters.
- **Not modelled:** the byte-level helpers `unstrincObjectId` and
  `buildIndexEntry` (see section 6).

### 1.2 How the parts interact

- Documents flow up the tree through PromiseStreams.
- Permits flow back down the tree through the FlowControlLock. The consumer
  releases an outer permit, RO releases an inner one, and the scan takes
  inner ones.
- Splits are written bottom-up in cancellation order. The checkpoint carries
  them, and the int states, into the next transaction segment.
- The planner decides which scans exist. The executor's guarantees are only
  useful if the rewritten plan selects what the plain Filter would.

### 1.3 What makes the executor hard to test

- The timer can fire at any point of the pipeline. When it fires, each stage
  may be holding some documents.
- The order of cancellation and of split writes decides where the plan
  resumes.
- A permit that leaks or is never released stalls the whole plan.
- Metadata can change between segments.
- A commit can fail, or end in `commit_unknown_result`, after documents have
  been counted or output.
- The planner's rewrites are recursive. A union that is not disjoint
  duplicates documents.

The hazards, each at its source line, are listed in `PROJECT.json`.

## 2. Modules

### `QueryStream.tla` (abstract)

This module is what a plan promises its consumer. The stream carries the
documents of the uninterrupted, single-transaction execution, each once and
in order. It is then closed, by end_of_stream after the last of them, or by
an error at any point.

- Variables: `query`, `emitted` and `status`.
- Actions: `Emit`, `Finish` and `Fail`.
- Weak fairness on `Next`: an open stream is eventually closed.

`PlanExecution` and `PlanIndexScan` instantiate it with a refinement mapping,
and check `StreamRefinement == Stream!Spec` as a temporal property:
- `emitted` is what the consumer has received, followed by what is in the
  outer stream;
- `status` is the end of the outer stream.

### `PlanExecution.tla`

This module models a scan → stage chain → `doNonIsolatedRO` → consumer
pipeline. The plan is an input: the variable `plan` is chosen in `Init` from
the constant `Plans`. A plan is a stage sequence over `"Filter"`,
`"Project"`, `"Flush"`, `"Skip"` and `"Sort"`, a number of segments, and a
skip count. Sort may only be the last stage, of a plan run in one
transaction (an `ASSUME`; see the hazard at line 1497).

**Data abstraction:**

- Documents are primary keys `1..N`. Each document has `Cells` cells.
- Key `0` is `""`, and `END = N+1` is `"\xff"`. `strinc(pk)` is `pk+1`.
- The filter predicate is the set `Pass`. Projection is the identity on keys.
- `SortKey[d]` is document d's sort key. The BSON comparator is the order on
  these keys.

**State and the code it models:**

| variable | code |
|---|---|
| `ckpt` | the scan entry of `PlanCheckpoint` (begin, end, split) and doSkip's int state `left` |
| `scan` | `doPKScan` locals: the read position, the range end, `lastPK`, `lastKey` |
| `q[i]` | stage i's deque; `q[K+1]` is the inner output stream read by RO |
| `ended[i]` | end_of_stream has reached stage i's input |
| `active` | permits held on the inner `checkpoint->getDocumentFinishedLock()` (with a Sort, on doSort's `innerLock`) |
| `sortHeld` | permits doSort took with `outerLock->take()` |
| `ro` | `doNonIsolatedRO` locals: the phase, the held document, the segment, `metadataVersion` |
| `out`, `outEnd`, `outActive`, `delivered` | the outer stream, the outer lock and the consumer in `executeUntilCompletionTransactionally` |
| `dbMeta` | the collection's metadata version in the database (changed by other clients) |

**Actions:**

- The scan:
  - `ScanRead` is one cell of the loop at 546-560.
  - `ScanTake` is the permit wait and the send.
  - `ScanSplits` is the cancellation handler at 561-569. With an empty
    `lastKey` it can be any key (undefined behaviour).
- The stages:
  - `SendTo` is a Flow `send()` into stage i. A Skip stage with documents
    left to drop consumes the document synchronously and releases its
    permit. A Skip stage with nothing left passes the document on.
  - `FilterComplete`, `ProjectComplete` and `FlushComplete` complete the
    head task and send its result on. `Apply` writes the result of a send
    chain back to the state.
  - `EndFlows` moves end_of_stream on through stages whose deques are empty.
  - `FilterCancel`, `ProjectCancel`, `FlushCancel` and `SkipCancel` are the
    catch blocks.
  - `CancelStages` is the topological loop of `stop()`.
  - `StopAndCheckpoint` builds the new scan entry and carries the skip count.
  - `SortEmit` is doSort after its input ended. It sends a document with the
    least key left, which allows any order among equal keys (`std::sort` is
    not stable).
- RO:
  - `ROReceive` and `ROForward` take a document and forward it.
  - `ROEnd` handles end_of_stream.
  - `ROTimeout` is the timer branch up to and including stopAndCheckpoint.
  - `ROResume` is the metadata check and the re-execution.
- The environment:
  - `Consume` is the final consumer.
  - `ChangeMetadata` is another client.

**MC modules:** `MCPlanExecution` has three plans:
- Filter → Project, in up to 3 segments;
- Filter → Flush → Project, in one transaction;
- Skip 1 → Project, in up to 3 segments;
- Project → Sort, in one transaction, with sort keys opposite to key order.

`MCPlanExecutionFlush` puts Flush inside the non-isolated plan.

### `PlanUnion.tla`

This module models `doUnion` of two sides under `doNonIsolatedRO`. Each side
is either a PK range scan (`doPKScan`) or a point lookup
(`doSinglePKLookup`). The pair of sides is an input: the variable `Sides` is
chosen in `Init` from the constant `Queries` and never changes.
`MCPlanUnion` offers a range with a present point, a range with an absent
point, and two adjacent ranges. With two ranges, both scans split and
checkpoint independently under one inner permit.

- `sc[s]` and `ckpt[s]` are side s's actor and its scan entry in the
  checkpoint (one scan id per side). `open[s]` is doUnion's `aOpen`/`bOpen`.
- `ScanRead`, `ScanTake` and `ScanSplits` are doPKScan, as in PlanExecution.
- `PointGet` is the `get()` of `doSinglePKLookup`: present, or absent (the
  side ends at once). `PointTake` is the permit wait and the send.
  `SideSplits` says that the lookup writes no split when cancelled.
- `SideEnds` is doUnion's choose loop. A side's end_of_stream closes it, and
  the union ends when both are closed.
- `ROTimeout` is the whole timer branch: stopAndCheckpoint, then
  re-execution of both sides from the new bounds.

### `PlanIndexScan.tla`

This module models an IndexScan under `doNonIsolatedRO`: `toDocInfo`
followed by `deduplicateIndexStream`. Each document has a set of values in
each of the fields a (`Vals`) and b (`BVals`). An array-valued document
therefore has several index entries, one per combination of the indexed
fields' values (`IndexTuples`).

The scan the query runs, `ix`, is chosen in Init from `Scans`. It is one of:
- a range `lo <= a <= hi` on the simple index on a;
- the same with `lo = hi`, which `IndexScanPlan::execute` returns without
  a deduplicator (`Dedup`, `SendEntry`);
- `a = fix` and `lo <= b <= hi` on the compound index (a, b), the scan
  `IndexScanPlan::push_down` builds by appending the suffix to the prefix.

- Keys are integers in base `R`: `Enc(<<x1, ..., xj>>)` keeps the order of
  the tuples and makes the bare values a prefix of all of their entries.
  An entry's key is `Enc(values \o <<d>>)`. `QueryBegin` and `QueryUpper`
  are `begin` and `strinc(end)`. `KeyAfter(k)` is `keyAfter`.
- `ScanRead`, `ScanTake` and `ScanSplit` are toDocInfo. On cancellation it
  writes `keyAfter(lastKey)`, which is `"\x00"` while `lastKey` is empty.
- `WouldBeLast` is `simpleWouldBeLast` and `CompoundWouldBeLast` is
  `compoundWouldBeLast`. Each takes the document's largest key part below
  `upperBound` (`LastKeyPart`) and passes the entry if its key starts with
  it (`StartsWith`; every key starts with the empty part). `Pass` picks one
  of the two by the index's size. `DedupComplete` outputs or drops the head.
  `DedupSplit` is the deduplicator's cancellation handler.
- `ROTimeout` also models `getBounds`, which moves the scan's lower bound to
  the split (`CheckpointSplit`).

### `Pushdown.tla`

This module models the planner (lines 65-262) as RECURSIVE operators over
predicate and plan records. It has no variables: `MCPlanIndexScan`
instantiates it and checks it inside the index-scan run.

- **Predicates** are ALL, NONE, AND, OR, NOT and ANY(expression, leaf). A
  leaf is a set of accepted values with the range `get_range()` reports.
  `Tight` is `range_is_tight()`.
- **Expressions** are a path with `expandLastArray`. `IndexKey` is
  `ExtPathExpression::get_index_key()` (`QLExpression.h` 75-77).
  `ExprVals` is `evaluate()`, which is defined outside `src/`: an unexpanded
  array is one value that no scalar leaf accepts.
- **The planner:**
  - `ConstructFilterPlan` is `construct_filter_plan`.
  - `PushDownInto` dispatches `push_down` on the plan's type.
  - `TablePushDown`, `IndexPushDown` and `FilterPushDown` are the three
    `push_down` methods.
  - `OrPushDown` and `AndPushDown` are the OR and AND cases.
- **`Simplify`** (`IPredicate::simplify()`) and **`Eval`**
  (`predicate->evaluate()`) are defined outside `src/`. They are modelled
  from the spec.
- **`Count(p, d)`** is how many times plan p outputs document d. A union
  adds its sides, because `doUnion` does not deduplicate. An index scan
  outputs a document once, which `PlanIndexScan` checks of
  `deduplicateIndexStream`.

The documents in `MCPlanIndexScan` have array fields `a` and `b`, a simple
index on a, a compound index `<<a, b>>`, and `_id`. They are the same
documents the index scan reads. `MCQueries` is 1444
predicates:
- 22 atoms (ANY on `_id`, expanded and unexpanded `a`, and `b`, with
  tight, loose and range-less leaves; ALL; NONE);
- their negations;
- all AND and OR pairs of atoms;
- OR triples and AND-of-OR nestings of a smaller set.

Together these produce every plan shape: PK lookups, simple and compound
index scans, residual filters, nested unions, and Empty.

### `PlanUpdateRW.tla`

This module models an update or an index build under `doNonIsolatedRW`:

    NonIsolatedPlan(Update(limit, upsert?)(PK range))
    NonIsolatedPlan(BuildIndex(PK range))

The query's range and sub-plan are inputs (`range` from `Ranges`, `op` from
`Ops`).

| variable | code |
|---|---|
| `ckpt`, `st` | the scans of `innerCheckpoint` (a sequence of begin, end, split) and its int state; `st.split` is doUpdate's `count` (`getIntState`) |
| `sid`, `sAdded`, `nstates`, `stAdded` | the scan id `addScan` returned to doPKScan, `scansAdded`, `states.size()` and `stateAdded` |
| `nxt` | `next_checkpoint`, held while the segment commits |
| `scan`, `uin` | doPKScan, and the documents left in doUpdate's input after the limit |
| `upd` | doUpdate: its phase and its `futures` deque |
| `rdocs` | doUpdate's output stream |
| `rw`, `committing`, `buffered` | doNonIsolatedRW: its phase, `committingDocs`, `bufferedDocs`, the segment and retry counts |
| `applied` | the updates (or index entries) committed to the database |
| `dbMeta` | the collection's metadata version, and whether the index is still this build's |

Other clients may change the metadata (`ChangeMetadata`). Such a change is
either unrelated to the plan, or a new build that replaces the index. A
transaction that read the metadata version does not commit after a change
(`CommitOK`). This is FoundationDB's conflict check, which the code relies
on but does not contain.

**Actions:**

- doUpdate:
  - `Receive` and `ScanTake` count a document when it is received.
  - `UpdateComplete` outputs the head.
  - `Settle` covers the drain, the upsert decision and end_of_stream.
  - `UpdateUpsert` is the upsert.
  - `UpdateSplit` is the cancellation handler.
- scanAndBuildIndex:
  - `NewUpdate` starts a resumed build in phase `"marker"`. The scan's
    documents wait in `uin` while the marker commits.
  - `BuildMarker` is the marker's `commitChanges()`. The loop then receives
    what queued in order, and the end if the scan has ended.
  - `Receive`, `UpdateComplete` and `Settle` are shared with doUpdate.
  - `BuildSplit` is the cancellation handler: it writes the documents left
    in the stream, then the futures, each back to front.
- doNonIsolatedRW:
  - `RWReceive` stages a document. `RWCommitted` buffers the head and
    releases its permit.
  - `RWStop` is the end of the loop: end_of_stream, the timer or the buffer
    limit, then stopAndCheckpoint.
  - `RWDrain` drains the staged documents without releasing their permits.
  - `RWCommit` commits. Success (`CommitSucceeded`) moves to
    `next_checkpoint` with a new lock. A failure (`CommitFailed`) re-runs
    the same checkpoint with its old lock. A conflict always fails; other
    failures are bounded by `MaxRetries`.
  - `RWReadError` is an error from the scan's read (813-818). The inner
    checkpoint is not stopped, so the catch at line 860 re-executes the
    plan on it without a stop: `addScan` returns the next scan id and
    appends a full-range scan (`AddScan`, 1915-1920), and `getIntState`
    reuses the last state with its split reset (`GetIntState`). The permits
    of the dead actors are not returned. `MaxReadErrors` bounds these
    errors.
  - `Execute` is `subPlan->execute(innerCheckpoint, dtr)` (779-780), shared
    by the metadata check and the read-error path.
  - The timer may fire while the scan waits on the lock (`ScanBlocked`,
    `TimerMayFire`) even past `MaxSegments`: the real `delay()` always
    expires, and the next commit installs a new lock.
  - `RWOutput` and `RWNext` output the documents and end or continue.
  - `RWMeta` is the metadata check of the new transaction (871-884) and the
    re-execution. `MetadataChangeOkay` is `wasMetadataChangeOkay`. A refused
    change ends the query with `metadata_changed_nonisolated`.

### `PlanRetry.tla`

This module models the write plans under `doRetry`:

    Retry(Update(limit, upsert?)(PK range))
    Retry(ProjectAndUpdate(projectNew?)(PK range))
    Retry(Insert(docs))
    Retry(IndexInsert(index))
    Retry(UpdateIndexStatus(status, buildId))

The operation (`op`, from `Ops`) and the range (`range`, from `Ranges`) are
inputs. Insert inserts the documents of the range. The index catalog the
index plans read (`catalog`, from `Catalogs`) is fixed for the run. It holds
no conflicting index, or an index with the same key, or one with the same
name, or another build's id. Each attempt runs the sub-plan on a new PlanCheckpoint, so it gets a
new lock and a count of 0 (`NewAttempt`).

- `txn` is the writes made in the attempt's transaction. It is kept apart
  from `ret`, the documents doRetry will output, because ProjectAndUpdate
  with the old document asked for writes an upsert but outputs nothing.
- `Accept` and `InputEnded` are the sub-plan's receive and end_of_stream.
  For doUpdate this is `Receive` and `Settle`. For ProjectAndUpdate it is
  the first document only.
- `ProjectAndUpdate` is the whole of `ProjectAndUpdatePlan::execute`
  (1309-1346): update the first document, or upsert. The result is sent
  when there is something to send. An upsert that sends nothing keeps the
  permit it took until the plan is stopped (`held`).
- `InsertTake` is doInsert's permit branch. `UpdateComplete` and `Settle`
  also cover its in-order output and drain.
- `IndexInsert` takes a permit, then reads the catalog. The same key ends the
  stream with nothing sent. The same name fails with `index_name_taken`.
  Both keep the permit. Otherwise the index document is sent.
- `UpdateIndexStatus` fails with `index_wrong_build_id` for another build's
  id. Otherwise it takes a permit and sends the index document.
- `RetryFailed` is a non-retryable error. `onError` rethrows it to the
  output.
- `RetryReceive` and `RetryStaged` are the choose loop and the drain after
  it. `RetryEnd` is end_of_stream followed by `stop()`.
- `RetryError` is a retryable error from the sub-plan or from
  `commitChanges()`.
- `RetryCommit` is the commit. It succeeds, or fails with a retryable error,
  or ends in `commit_unknown_result`. In that last case `applied` may or may
  not include `txn`.
- `OnError` is `onError`. It backs off and starts a new attempt, or
  rethrows the error. The code's RETRY_LIMIT counts from 0 on each call
  (line 962), and onError may also rethrow after its timeout (line 981), so
  the model lets it rethrow on any attempt. `MaxRetries` only bounds the
  retryable errors the environment produces.
- `RetryOutput` and `RetryEndOfStream` output `ret` after the commit.

### `PlanFindAndModify.tla`

This module models `FindAndModifyPlan` over `Filter(PK range)`. The request
(`req`, from `Requests`) is the range, upsert and projectNew.

- The sub-plan is doPKScan and doFilter, with their split handlers.
- `FMFound` and `FMEnd`: the first document, or end_of_stream, ends the
  search and stops the sub-plan.
- `FMTimeout` and `FMResume` are the 1 s timer: stopAndCheckpoint, a new
  transaction, the metadata check, and re-execution.
- `FMCommit` and `FMSend` are the update or upsert, the commit (success,
  failure, or `commit_unknown_result`), and the reply under the outer lock.
  `FMSend` takes an outer permit even when there is no reply to send, and
  nothing releases it.
- `Consume` and `DriverReturn` are
  `executeUntilCompletionAndReturnLastTransactionally`: it keeps the last
  document (`last`), then stops the checkpoint and returns `(count, last)`
  or rethrows (`ret`).

## 3. Runs

| run | pipeline and bounds | result |
|---|---|---|
| `pipeline_checkpoint` | TableScan [0,4) under RO, with four plans: Filter(Pass={1,3}) → Project in 3 segments; Filter → Flush → Project in 1; Skip 1 → Project in 3; Project → Sort (keys 3,2,1) in 1. N=3 docs, 2 cells each, 2 inner and 1 outer permit, 1 metadata change. | passes; 6508 states |
| `flush_loses_documents` | Flush inside the non-isolated plan | **violation** |
| `scan_cancelled_before_first_document` | the pipeline_checkpoint plans, with the timer allowed before the first read | **violation** |
| `union_checkpoint` | range ["",3) ∪ lookup of _id 4 (present) or _id 3 (absent), or ranges ["",2) ∪ [2,5). Docs {1,2,4}, 2 cells each, 1 inner permit, 3 segments. | passes; 976 states |
| `point_lookup_cancelled` | the present lookup, with the timer allowed while `get()` is pending | **violation** |
| `index_scan_checkpoint` | values 1..3; a = [1,3], 2, [1,2] and b = 2, 1, [1,2]; the scan 1 ≤ a ≤ 2, a = 1 (no deduplicator), or a = 1 and 1 ≤ b ≤ 2 on the compound index; 2 inner permits, 3 segments. Also the planner on 1444 predicates. | passes; 1356 states |
| `index_scan_cancelled_before_first_entry` | the same, with the timer allowed before the first entry | **violation** |
| `rw_update_checkpoint` | unlimited update with upsert, or an index build, over docs 1-2 of 3 or an empty range; 5 permits, buffer max 2, 2 timer segments, 1 failed commit, 1 read error, 1 metadata change (unrelated, or the index replaced) | passes; 268414 states |
| `rw_read_error_reruns_scan` | unlimited update over docs 1-2 of 3, 5 permits, 2 segments, 1 read error, no failed commit | **violation** |
| `rw_limit_counts_cancelled` | the same update with limit 2, no failed commit and no read error | **violation** |
| `retry_update` | Update (limit 2, upsert), ProjectAndUpdate (old or new document) and Insert over docs 1-3 or an empty range; IndexInsert and UpdateIndexStatus against every catalog; 2 permits, retry limit 2, commit_unknown_result possible | passes; 1017 states |
| `find_and_modify` | range [1,2) or [1,4), Pass={2,3}, upsert and projectNew in every combination; 2 permits, 3 segments, 1 metadata change, a failing commit | passes; 7965 states |

**What the properties say:**

- `StreamRefinement` (PlanExecution, PlanIndexScan): every step of the
  executor is a step of `QueryStream`. The consumer sees the documents of
  the uninterrupted execution, each once and in order, end_of_stream only
  after the last, nothing after the end, and eventually a close.
  - In PlanExecution the expected result is computed by passing the scan
    through each stage (`ExpectedOf`). Skip drops the first `skip` documents
    across all segments.
  - In PlanIndexScan it is the matching documents in the order of their
    last entry in the range, for each of the three scans.
- `UnionExactlyOnce` and `UnionCompleteOnEnd` (PlanUnion): the consumer
  sees the documents of the two sides, each once, with each side in order.
  end_of_stream means all of them.
- `PushDownPreservesResult` (index scan run). This is spec §8: `Filter(p, q)`
  and `construct_filter_plan(p, q)` give the same multiset. It is checked
  with `Count` for every predicate of `MCQueries`. It also requires that the
  index-scan query plans to exactly the executed IndexScan, and that a
  normally ended execution delivered the documents the Filter selects.
- `SplitBoundContract` (PlanExecution): after a stopAndCheckpoint, the new
  scan begins after every emitted document and at or before every unemitted
  one.
- `UpdatesAppliedOnce` (RW): the committed updates or index entries, over
  every segment and retry, are a prefix of the first `limit` documents of
  the range (or the single upsert). `UpdateCompleteOnEnd`: end_of_stream
  means all of them. The passing run checks both, as
  `UpdatesExactlyOnceWithoutReadError`, in the executions without a read
  error; the `rw_read_error_reruns_scan` run shows that a read error
  breaks `UpdatesAppliedOnce`.
- `StaleBuildNeverCommits` (RW), an action property: a step that commits
  index entries of a build happens only while the index is still that
  build's. The metadata check between segments and the conflict on the
  commit must together stop a build whose index was replaced.
- `AllOrNothing` (Retry): the database holds none of the attempt's writes or
  all of them, including after `commit_unknown_result`. For the index plans
  "all" is the index document, and only when the catalog allows it.
  `CompleteOnEnd`: a normal end outputs exactly one run's result.
- `OutputOnlyCommitted` (RW, Retry): a document is output only after its
  update has committed.
- `FindsFirstMatch` and `ReplyMatchesCommit` (findAndModify): the database
  changes only by the first match in key order (or the upsert). The reply
  is sent only after that commit, and is the match, or the upserted document
  if the new one was asked for. The driver returns that reply as its count
  and last document.
- The permit properties (`PermitsTrackEntries`, `PermitsCoverDocuments`): the permits taken from the inner lock equal (or,
  for `PermitsCoverDocuments`, are at least) the documents in flight. For
  Retry this includes the permit held by a non-sending upsert or index
  insert. For Sort, both doSort locks are counted.
- `QueryTerminates`: the query ends, with end_of_stream or an error. In
  findAndModify, the driver also returns or rethrows.

**Why the bounds are enough:**

- Two cells per document exercise doPKScan's cell grouping and a cut in the
  middle of a document.
- Two or three documents give every stage a document to hold at a
  checkpoint, and give a drop that releases a permit. One document is
  filtered out, absent, skipped or outside the range.
- One or two permits make the scan wait on the lock while documents are in
  flight.
- Two or three segments allow a checkpoint inside a resumed segment. That is
  where a stale split, or a carried skip or update count, shows.
- One failed commit and one read error (RW), one failed commit
  (findAndModify) and two retryable errors (Retry) allow a failure after a
  checkpoint, a retry after a retry, and a rethrow.
- In RW, one metadata change can land before or after any segment's read of
  the version. So it can meet a build in its scan, in its marker commit, or
  in its commit. Five permits keep the run clear of finding 5: a random
  failure plus a conflict would otherwise leak the lock dry.
- In the index scans, document 3's fields are both arrays. The compound
  scan therefore meets four combinations, two of them in range and two
  above it, so `compoundWouldBeLast` must compare with `upperBound`. A
  document with two entries in range lets a checkpoint fall between them.
- Project → Sort with three documents and two permits makes doSort wait on
  its outer lock between sends.
- The 1444 predicates reach every branch of the planner, and nest OR and
  AND three deep. Every produced plan kind occurs: union 145,
  compound-index scan 16, residual filter 798, PK lookup 3, simple index
  scan 9, Empty 1.
- Each property of a passing run has a mutant in `PROJECT.json`: the
  property is violated when one mapped definition is replaced by a
  plausible bug.

## 4. Findings

The violation runs show six disagreements between the code and the
executor's contract (lines 45-62 of `QLPlan.actor.cpp` and spec §4).
`PROJECT.json` has the details.

1. `doFlushChanges` writes no split on cancellation (line 1074). Under a
   non-isolated plan, a document waiting in its deque is skipped.
2. `doPKScan` computes its split from an empty `lastKey` when cancelled
   before its first document (line 565). The result is undefined behaviour.
3. `doSinglePKLookup` writes no split when cancelled during `get()`
   (line 529). The resumed query never outputs that document.
4. `toDocInfo` writes `keyAfter("")` when cancelled before its first entry
   (line 347). The index range is rescanned and documents are output again.
5. `doNonIsolatedRW` re-executes the plan after a read error without
   stopping the inner checkpoint (line 860). `addScan` hands the new scan a
   fresh full-range entry, so the scan starts again at the range's begin:
   a document committed by an earlier segment is updated a second time.
   The permits of the dead actors are not returned either. (A failed
   commit re-runs the segment on its old lock too; that leak is recovered
   by the timer and the next commit's new lock, which `QueryTerminates`
   in the passing run covers.)
6. `doUpdate` counts a document on receipt, and the count is carried across
   checkpoints (line 1104). A cancelled document is counted twice, so a
   limit above 1 updates too few documents.

Two observations about the planner are not violations:

- For spec scenario 2 (`OR(_id = a, _id = b)`), the spec shows
  `Union(PKLookup(a), Filter(PKLookup(b), NOT a))`. The code builds the
  other arrangement: the negation goes on the side of the other terms, so it
  is `Union(Filter(PKLookup(a), NOT b), PKLookup(b))`. The multisets are the
  same, and `PushDownPreservesResult` holds for both.
- `TableScanPlan::push_down` (line 98) compares `get_index_key()` with the
  encoded key part of `"_id"`. Whether they compare equal depends on the
  `DataValue` encoding, which is outside this repository. The model takes
  the spec's reading, that an `_id` predicate becomes a PK lookup.

## 5. Fairness

Flow runs one thread with a cooperative scheduler. An actor whose future is
ready eventually runs. So the model has weak fairness on the scans, each
stage, the RO forwarding and resume, the RW, Retry and findAndModify loops,
and the consumer.

The timers and other clients' metadata changes get no fairness. Each may or
may not happen, and the liveness properties must hold either way. A bound on
the segments limits the number of timeouts. Without that bound, a timer
firing forever would keep the query from ending, which the real timeout
(seconds) prevents in practice.

In doNonIsolatedRW, `RWStop`, `BuildMarker` and `RWMeta` are fair. Once the segment's `delay()` expires
the loop breaks, so a segment whose plan has stalled still ends; for that
reason the timer may fire past `MaxSegments` while the scan is blocked on
the lock. Commit failures, read errors and retryable errors are never
forced. `MaxRetries` and `MaxReadErrors` bound what the environment
produces; they are not limits of the code.

`QueryStream` has weak fairness on its `Next`, so `StreamRefinement`
includes that the stream is eventually closed.

Deadlock checking is off in the runs, because a finished query is a terminal
state. `QueryTerminates` and `StreamRefinement` check that no other kind of
stop is reachable.

## 6. Not modelled

- **doSort under a non-isolated plan.** doSort registers no scan on its
  checkpoint and writes no split. A timer checkpoint would therefore re-run
  the whole sort. Where the planner puts a Sort is decided outside `src/`,
  so Sort plans run in one transaction. A sub-plan error under doSort is
  traced and rethrown without `sendError` (line 1515). PlanExecution's
  stages do not fail.
- **Insert, IndexInsert and UpdateIndexStatus outside doRetry.** doInsert's
  progress int state is disabled (line 1441), so it could not resume from a
  checkpoint. The index plans' metadata bump is part of their write, and
  nothing else in PlanRetry reads it.
- **Two int states in one checkpoint.** `getIntState` returns
  `states.back()` rather than `states[s]` (line 1944; the comment at 1442
  says "This is broken for now"). With two int-state operators (for example
  Skip under Update) they would alias after the first checkpoint. Each
  modelled plan has at most one, so `PROJECT.json` lists this as a hazard
  with no property.
- **ProjectAndUpdate's cancellation handler.** It is modelled only under
  Retry, where a cancelled attempt is discarded as a whole.
- **Byte-level encodings** (`DataKey`, `unstrincObjectId`, `buildIndexEntry`).
  Keys are abstracted to integers. The encoding widths are defined outside
  `src/`. `unstrincObjectId`'s cases depend on them, so no reference
  definition can be stated from this code. The build's marker write is a
  step whose content is not tracked.
- **Projections and update operators.** Values are abstracted away.
- **Open-ended index scans.** Every modelled scan has both `begin` and
  `end`. An absent bound becomes `"\x00"` or `"\xff"` in `push_down` and
  `execute`; that changes only the key range read.
- **`cancel_ongoing_index_reads`** (line 841). The model has no index reads
  under doNonIsolatedRW to cancel.
- **`collection_metadata_changed` in RW.** The RW metadata check is
  modelled for the plan's acceptance (`wasMetadataChangeOkay`). The moved
  directory case is the same code as in RO, which PlanExecution models.
