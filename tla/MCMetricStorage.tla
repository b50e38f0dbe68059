---- MODULE MCMetricStorage ----
(* A host whose interface has rx and tx, sent in one value list, another   *)
(* host with one metric, and a type the filter rejects.                    *)
EXTENDS MetricStorage, TLC

CONSTANTS w1, w2, rx, tx, load, other, ha, hb

MCMetric == {rx, tx, load, other}
MCHostOf == rx :> ha @@ tx :> ha @@ other :> ha @@ load :> hb
MCValueLists == {<<rx, tx>>, <<rx, other>>, <<load>>}
====
