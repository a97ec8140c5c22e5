-------------------------------- MODULE Emit --------------------------------
(***************************************************************************)
(* The metrics and logs builders (internal/emit) as constant-level         *)
(* operators.  A MetricsBuilder is the sequence of its ResourceMetrics,    *)
(* each with the key the index map holds it under; a point keeps the kind  *)
(* and the resource attributes of the MetricPoint it came from, so that    *)
(* properties can compare them with where it ended up.                     *)
(***************************************************************************)
EXTENDS Integers, Sequences
LOCAL INSTANCE SequencesExt

KindGauge == "gauge"
KindSum   == "sum"

NewBuilder == << >>

\* Only these two attributes tell resources apart.
resourceKey(attrs) == [k \in DOMAIN attrs \cap {"interface", "node_id"} |-> attrs[k]]

\* The entry of s for which Test holds, or a new one; and s with the entry e put back.
Find(s, Test(_), new)  == LET i == SelectInSeq(s, Test) IN IF i = 0 THEN new ELSE s[i]
Update(s, Test(_), e)  == LET i == SelectInSeq(s, Test) IN IF i = 0 THEN Append(s, e) ELSE [s EXCEPT ![i] = e]

\* resourceMetrics: found by key, or made with the attributes of the first point
resourceMetrics(b, attrs) ==
    Find(b, LAMBDA r : r.key = resourceKey(attrs),
         [key |-> resourceKey(attrs), attrs |-> attrs, metrics |-> << >>])

\* MetricsBuilder.Add: one Metric per name, whose kind is that of its first point
addMetric(b, p) ==
    LET rm == resourceMetrics(b, p.attrs)
        m  == Find(rm.metrics, LAMBDA x : x.name = p.name, [name |-> p.name, kind |-> p.kind, points |-> << >>])
        metrics == Update(rm.metrics, LAMBDA x : x.name = p.name, [m EXCEPT !.points = Append(@, p)])
    IN  Update(b, LAMBDA r : r.key = rm.key, [rm EXCEPT !.metrics = metrics])

scopeLogs(b, attrs) ==
    Find(b, LAMBDA r : r.key = resourceKey(attrs),
         [key |-> resourceKey(attrs), attrs |-> attrs, records |-> << >>])

\* LogsBuilder.Add
addLog(b, r) ==
    LET sl == scopeLogs(b, r.attrs)
    IN  Update(b, LAMBDA x : x.key = sl.key, [sl EXCEPT !.records = Append(@, r)])

Empty(b) == b = << >>

keepBatch(b) == b            \* mutant: Emit does not reset the builder

\* The builder that Emit leaves.
afterEmit(b) == NewBuilder
=============================================================================
