------------------------------ MODULE CostTracker ------------------------------
(***************************************************************************)
(* app/cost_tracker.py and the reads of app/routers/metrics.py: a capped   *)
(* list of the calls of external APIs, and counters per endpoint that are  *)
(* never trimmed and that no route reads.                                  *)
(***************************************************************************)
EXTENDS Integers, Sequences, FiniteSets

CONSTANTS
  Endpoints,
  MaxRecords  \* _MAX_RECORDS

ASSUME CostAssumption == MaxRecords \in Nat \ {0}

VARIABLES
  records,  \* _records: [endpoint, success, cached, at, what], oldest first
  counters  \* _endpoint_counters

costVars == <<records, counters>>

NoCalls == [total |-> 0, success |-> 0, failed |-> 0, cached |-> 0]

CostInit == records = <<>> /\ counters = [e \in Endpoints |-> NoCalls]

One(b) == IF b THEN 1 ELSE 0

RecordApiCall(call) ==
  /\ records' = IF Len(records) < MaxRecords THEN Append(records, call)
                ELSE Tail(Append(records, call))
  /\ counters' = [counters EXCEPT ![call.endpoint] =
       [total |-> @.total + 1, success |-> @.success + One(call.success),
        failed |-> @.failed + One(~call.success), cached |-> @.cached + One(call.cached)]]

-----------------------------------------------------------------------------
(* What the metrics routes report.                                         *)

\* The calls of an endpoint, as positions in the list.
Of(e) == {i \in DOMAIN records : records[i].endpoint = e}

\* The newest comes first; the k-th has k - 1 after it.
GetRecentCalls(limit, e) ==
  LET Newest(k) == CHOOSE i \in Of(e) : Cardinality({j \in Of(e) : j > i}) = k - 1
  IN  [k \in {n \in 1..limit : n <= Cardinality(Of(e))} |-> records[Newest(k)]]

\* The calls of an endpoint since a time.  A cached one is priced like any other.
GetSummary(e, since) ==
  LET recent == {i \in Of(e) : records[i].at >= since}
  IN  [total |-> Cardinality(recent),
       success |-> Cardinality({i \in recent : records[i].success}),
       failed |-> Cardinality({i \in recent : ~records[i].success}),
       cached |-> Cardinality({i \in recent : records[i].cached})]
=============================================================================
