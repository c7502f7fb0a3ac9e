--------------------------- MODULE ResourceMonitor ---------------------------
(***************************************************************************)
(* The resource monitor (resources.py): one refresh at a time reads a      *)
(* provider, keeps the last measurement of every metric, and says how far  *)
(* it may be trusted.  What a reading holds is external: any of the        *)
(* metrics, at their present values, or nothing, or no answer in time.     *)
(***************************************************************************)
EXTENDS Naturals, FiniteSets, Functions

CONSTANTS
  Metrics,     \* what the provider measures; all grow, as costs do
  Limits,      \* the limit of some of them
  MaxValue, MaxReads   \* bounds

VARIABLES
  truth,     \* the value of each metric now
  reads,     \* readings so far, the time
  pending,   \* whether a refresh waits for the provider
  metrics,   \* the snapshot: [value, as_of, stale] of some metrics; as_of 0 is the snapshot's
  as_of,     \* time of the snapshot, 0 without one
  freshness,
  measured   \* the last time each metric was measured, and what it was

monitorVars == <<truth, reads, pending, metrics, as_of, freshness, measured>>

NoMetrics == [k \in {} |-> 0]

MonitorInit ==
  /\ truth = [k \in Metrics |-> 0] /\ reads = 0 /\ pending = FALSE
  /\ metrics = NoMetrics /\ as_of = 0 /\ freshness = "unavailable"
  /\ measured = [k \in Metrics |-> [at |-> 0, value |-> 0]]

Grow(k) ==
  /\ truth[k] < MaxValue /\ truth' = [truth EXCEPT ![k] = @ + 1]
  /\ UNCHANGED <<reads, pending, metrics, as_of, freshness, measured>>

\* A refresh that is not due yet.
Early ==
  /\ ~pending /\ reads > 0
  /\ freshness' = IF freshness = "fresh" THEN "cached" ELSE freshness
  /\ UNCHANGED <<truth, reads, pending, metrics, as_of, measured>>

\* A refresh that is due, or forced by budget_status.
Refresh ==
  /\ ~pending /\ reads < MaxReads
  /\ pending' = TRUE /\ reads' = reads + 1
  /\ UNCHANGED <<truth, metrics, as_of, freshness, measured>>

\* Fault: it is kept as if the new snapshot had measured it.
Fault_Retained(k) == [metrics[k] EXCEPT !.stale = TRUE]

\* A metric that a reading lacks is kept, with the time at which it was measured.
Retained(k) == [metrics[k] EXCEPT !.as_of = IF @ = 0 THEN as_of ELSE @, !.stale = TRUE]

Merged(read) == [k \in DOMAIN metrics \cup DOMAIN read |-> IF k \in DOMAIN read THEN read[k] ELSE Retained(k)]

\* Nothing at all, where there was something before.
Incomplete(found) == as_of # 0 /\ found = {} /\ DOMAIN metrics # {}

Failed == freshness' = (IF as_of # 0 THEN "stale" ELSE "unavailable") /\ UNCHANGED <<metrics, as_of, measured>>

Succeed(found) ==
  /\ metrics' = Merged([k \in found |-> [value |-> truth[k], as_of |-> 0, stale |-> FALSE]])
  /\ as_of' = reads /\ freshness' = "fresh"
  /\ measured' = [k \in Metrics |-> IF k \in found THEN [at |-> reads, value |-> truth[k]] ELSE measured[k]]

Answer(found) ==
  /\ pending /\ pending' = FALSE
  /\ IF Incomplete(found) THEN Failed ELSE Succeed(found)
  /\ UNCHANGED <<truth, reads>>

\* The provider fails, or does not answer in timeout_seconds.
Error == pending /\ pending' = FALSE /\ Failed /\ UNCHANGED <<truth, reads>>

MonitorNext ==
  \/ Early \/ Refresh \/ Error
  \/ \E k \in Metrics : Grow(k)
  \/ \E found \in SUBSET Metrics : Answer(found)

MonitorSpec == MonitorInit /\ [][MonitorNext]_monitorVars

\* exhausted(): the last known value of a metric has reached its limit.
Exhausted == \E k \in DOMAIN metrics \cap DOMAIN Limits : metrics[k].value >= Limits[k]

\* What describe() says of a metric: unknown, an old value with its time, or a value.
Told(k) ==
  IF k \notin DOMAIN metrics THEN [known |-> FALSE, at |-> 0, value |-> 0]
  ELSE [known |-> ~metrics[k].stale, at |-> IF metrics[k].as_of = 0 THEN as_of ELSE metrics[k].as_of,
        value |-> metrics[k].value]

----------------------------------------------------------------------------
(* Properties *)

\* Every metric is told with the value and the time of its last measurement, however
\* many readings failed or lacked it since, and as a present value only if the
\* newest snapshot measured it; a snapshot is called fresh or cached only if the
\* last reading succeeded.  So a limit that was reached stays reached whatever
\* the provider leaves out.
LastKnownIsKept ==
  /\ \A k \in Metrics :
       /\ Told(k).at = measured[k].at /\ Told(k).value = measured[k].value
       /\ Told(k).known => measured[k].at = as_of
  /\ freshness \in {"fresh", "cached"} /\ ~pending => as_of = reads
  /\ (\E k \in Metrics \cap DOMAIN Limits : measured[k].at # 0 /\ measured[k].value >= Limits[k]) => Exhausted
=============================================================================
