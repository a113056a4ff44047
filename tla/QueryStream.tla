----------------------------- MODULE QueryStream -----------------------------
(***************************************************************************)
(* What a query plan promises its consumer (Plan contract, QLPlan.h, and   *)
(* spec 8): the stream it returns carries the documents of the            *)
(* uninterrupted, single-transaction execution, each once and in order,    *)
(* and is then closed, by end_of_stream after the last of them or by an    *)
(* error at any point.  However many transactions the executor splits the  *)
(* query into, and wherever it checkpoints, the consumer sees no more than *)
(* this.                                                                   *)
(***************************************************************************)
EXTENDS Naturals, Sequences

CONSTANTS
    Queries,        \* the queries a client may issue
    ResultOf(_)     \* a query's uninterrupted output, in order

VARIABLES
    query,          \* the query issued
    emitted,        \* documents sent into the stream so far
    status          \* "open", "end_of_stream" or "error"

svars == <<query, emitted, status>>

Result == ResultOf(query)

\* The next document of the result is sent.
Emit ==
    /\ status = "open"
    /\ Len(emitted) < Len(Result)
    /\ emitted' = Append(emitted, Result[Len(emitted) + 1])
    /\ UNCHANGED <<query, status>>

\* end_of_stream is sent after the whole result.
Finish ==
    /\ status = "open"
    /\ emitted = Result
    /\ status' = "end_of_stream"
    /\ UNCHANGED <<query, emitted>>

\* The query fails: the stream is closed with an error, wherever it is.
Fail ==
    /\ status = "open"
    /\ status' = "error"
    /\ UNCHANGED <<query, emitted>>

Init == query \in Queries /\ emitted = <<>> /\ status = "open"

Next == Emit \/ Finish \/ Fail

\* An open stream is eventually closed.
Spec == Init /\ [][Next]_svars /\ WF_svars(Next)
=============================================================================
