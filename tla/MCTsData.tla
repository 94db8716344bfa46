------------------------------ MODULE MCTsData ------------------------------
(* TsData for TLC: batches of a few points of two series.                  *)
EXTENDS TsData, TLC

CONSTANTS Level, Switch

E(s, dt, recs) == [series |-> s, dt |-> dt, records |-> recs]
P(t, v) == [t |-> t, v |-> v]

\* After a nameless entry one point of Switch and a record without a time.
Plain == <<E(NoSeries, "int", <<P(1, 2)>>), E(Switch, "bool", <<P(2, Word), P(NoTime, 2)>>)>>

\* Three points of Level; then an entry that does not convert: the third is
\* never stored.
Broken == <<E(Level, "int", <<P(1, 3), P(2, 4), P(3, 4)>>), E(Switch, "int", <<P(1, None)>>),
            E(Level, "int", <<P(1, 6)>>)>>

\* Level changes its type, in the simple form.
Simple == SimpleBatch(Level, "number", 1, 3)

\* Points at both ends of the window, and one after it.
OneWindow == {<<1, 2>>}

\* Two points to a bucket, and all in one.
TwoWidths == {parse_interval(2, "s"), parse_interval(1, "m")}

ThreeBatches == {Plain, Broken, Simple}
=============================================================================
