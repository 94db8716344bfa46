------------------------------- MODULE TsData -------------------------------
(***************************************************************************)
(* Time series: devices publish batches of points over MQTT, the ingestor  *)
(* stores them in one table of typed columns, the app reads a window of    *)
(* one series, raw or aggregated.                                          *)
(*                                                                         *)
(* A batch is a list of entries, each the points of one series; the simple *)
(* form is a batch of one entry with one point.  The ingestor commits once *)
(* per entry, and there is no key a point delivered twice would violate.   *)
(* A query is two SELECTs, one for the type and one for the rows.  A       *)
(* definition named Bug_... is a mutated form of the one that follows it;  *)
(* no specification uses it.                                               *)
(***************************************************************************)
EXTENDS Integers, Sequences, FiniteSets, FiniteSetsExt

CONSTANTS
    Series,         \* a node and one of its Device.param names
    NoSeries,       \* a name without a dot
    Times,          \* seconds, counted from the origin of time_bucket
    NoTime,         \* a t that is missing or no number
    Numbers,        \* JSON numbers, counted in halves
    Word, None,     \* a JSON value that is no number; null
    Types,          \* values of dt
    Batches,        \* the payloads devices publish
    MaxMessages,    \* how many they publish
    MaxDeliveries,  \* how often the broker may deliver one of them
    Ingestors,      \* replicas
    Readers,        \* concurrent queries
    Windows,        \* the <<start_time, end_time>> readers ask for
    Widths,         \* aggregate_interval, in seconds
    Limits          \* values of num_records

Messages == 1..MaxMessages

Values == Numbers \cup {Word, None}

Entry == [series : Series \cup {NoSeries}, dt : Types,
          records : Seq([t : Times \cup {NoTime}, v : Values])]

ASSUME TsDataAssumption ==
    /\ Times \subseteq Nat /\ Numbers \subseteq Nat /\ Limits \subseteq Nat
    /\ Windows \subseteq Times \X Times
    /\ {Word, None, NoTime} \cap Int = {} /\ Word # None
    /\ NoSeries \notin Series
    /\ MaxMessages \in Nat /\ MaxDeliveries \in Nat \ {0} /\ Widths \subseteq Nat \ {0}
    /\ \A b \in Batches : b \in Seq(Entry)

VARIABLES
    sent,        \* what was published, in order; a message is its number
    deliveries,  \* how often each message was delivered
    waiting,     \* the messages the broker still holds
    hand,        \* the message each replica is handling
    tsdata,      \* the table
    query,       \* the query each reader has under way
    handled,     \* history: messages that were handled to the end
    lost         \* history: messages a replica died with

tsVars == <<sent, deliveries, waiting, hand, tsdata, query, handled, lost>>

-----------------------------------------------------------------------------
(* Rows.                                                                   *)

Columns == {"int", "float", "bool", "str"}

value_column(dt) ==
    CASE dt \in {"int", "bool"} -> dt
      [] dt \in {"float", "number"} -> "float"
      [] OTHER -> "str"

\* int(v) and float(v) raise on what does not read as a number.
Coercible(dt, v) == value_column(dt) \in {"int", "float"} => v \in Numbers

\* int drops the fraction, bool is the truth of v (a half is counted 1, so
\* true is 2), str keeps v as text, null as the word None.
Coerced(dt, v) ==
    CASE value_column(dt) = "int" -> v - (v % 2)
      [] value_column(dt) = "bool" -> IF v \in {0, None} THEN 0 ELSE 2
      [] OTHER -> v

\* at, the place in its delivery a row comes from, stands for the row itself:
\* the table has no key.
Row == [series : Series, ts : Times, dt : Types, value : Nat \cup {Word, None},
        at : Messages \X (1..MaxDeliveries) \X Nat \X Nat]

Free == [pc |-> "idle"]

\* A message in hand: which delivery of it, and the entry that comes next.
Hand ==
    {Free} \cup [pc : {"entries"}, msg : Messages, delivery : 1..MaxDeliveries,
                 next : Nat \ {0}]

\* A query: the type has been read, or the rows too.  after is history: the
\* messages that had been handled when it arrived.
Query ==
    {Free}
      \cup [pc : {"rows"}, series : Series, from : Times, to : Times, lim : Limits,
            col : Columns, after : SUBSET Messages]
      \cup [pc : {"answer"}, series : Series, from : Times, to : Times, lim : Limits,
            col : Columns, after : SUBSET Messages, got : SUBSET Row]

TsTypeOK ==
    /\ sent \in Seq(Batches) /\ Len(sent) <= MaxMessages
    /\ deliveries \in [Messages -> 0..MaxDeliveries]
    /\ waiting \subseteq DOMAIN sent
    /\ hand \in [Ingestors -> Hand]
    /\ tsdata \subseteq Row
    /\ query \in [Readers -> Query]
    /\ handled \subseteq DOMAIN sent /\ lost \subseteq DOMAIN sent

TsInit ==
    /\ sent = <<>>
    /\ deliveries = [m \in Messages |-> 0]
    /\ waiting = {}
    /\ hand = [g \in Ingestors |-> Free]
    /\ tsdata = {}
    /\ query = [r \in Readers |-> Free]
    /\ handled = {}
    /\ lost = {}

-----------------------------------------------------------------------------
(* The broker: QoS 1, a message may be delivered again.                    *)

Publish(b) ==
    /\ Len(sent) < MaxMessages
    /\ sent' = Append(sent, b)
    /\ waiting' = waiting \cup {Len(sent) + 1}
    /\ UNCHANGED <<deliveries, hand, tsdata, query, handled, lost>>

\* A replica receives a message; the broker may keep it to send it again.
Take(g, m, again) ==
    /\ hand[g] = Free
    /\ m \in waiting
    /\ again => deliveries[m] + 1 < MaxDeliveries
    /\ waiting' = IF again THEN waiting ELSE waiting \ {m}
    /\ deliveries' = [deliveries EXCEPT ![m] = @ + 1]
    /\ hand' = [hand EXCEPT ![g] = [pc |-> "entries", msg |-> m,
                                    delivery |-> deliveries[m] + 1, next |-> 1]]
    /\ UNCHANGED <<sent, tsdata, query, handled, lost>>

-----------------------------------------------------------------------------
(* _handle_tsdata, _handle_simple_tsdata and insert_tsdata.                *)

\* The records whose t is a time; the others are skipped.
Points(e) == {i \in 1..Len(e.records) : e.records[i].t # NoTime}

\* A value that does not convert fails the entry before its INSERT.
EntryFails(e) ==
    /\ e.series \in Series
    /\ \E i \in Points(e) : ~Coercible(e.dt, e.records[i].v)

\* The rows of entry k of a delivery.
RowsOf(m, d, k) ==
    LET e == sent[m][k] IN
    IF e.series = NoSeries THEN {}
    ELSE {[series |-> e.series, ts |-> e.records[i].t, dt |-> e.dt,
           value |-> Coerced(e.dt, e.records[i].v), at |-> <<m, d, k, i>>] : i \in Points(e)}

Handling(g) == hand[g].pc = "entries" /\ hand[g].next <= Len(sent[hand[g].msg])

\* The payload of simple_tsdata, { name, dt, t, v }: a batch of one point.
SimpleBatch(s, dt, t, v) == <<[series |-> s, dt |-> dt, records |-> <<[t |-> t, v |-> v]>>]>>

EntryInHand(g) == sent[hand[g].msg][hand[g].next]

Bug_SkipsFailed(g) ==
    /\ Handling(g)
    /\ tsdata' = tsdata \cup (IF EntryFails(EntryInHand(g)) THEN {}
                             ELSE RowsOf(hand[g].msg, hand[g].delivery, hand[g].next))
    /\ hand' = [hand EXCEPT ![g].next = @ + 1]
    /\ UNCHANGED <<sent, deliveries, waiting, query, handled, lost>>

Bug_StopsAtNameless(g) ==
    /\ Handling(g)
    /\ ~EntryFails(EntryInHand(g))
    /\ tsdata' = tsdata \cup RowsOf(hand[g].msg, hand[g].delivery, hand[g].next)
    /\ hand' = [hand EXCEPT ![g].next = IF EntryInHand(g).series = NoSeries
                                        THEN Len(sent[hand[g].msg]) + 1 ELSE @ + 1]
    /\ UNCHANGED <<sent, deliveries, waiting, query, handled, lost>>

\* One entry, one INSERT, one commit; an entry with no name or no points
\* adds nothing.
StoreEntry(g) ==
    /\ Handling(g)
    /\ ~EntryFails(EntryInHand(g))
    /\ tsdata' = tsdata \cup RowsOf(hand[g].msg, hand[g].delivery, hand[g].next)
    /\ hand' = [hand EXCEPT ![g].next = @ + 1]
    /\ UNCHANGED <<sent, deliveries, waiting, query, handled, lost>>

\* The handler returns, or raises at an entry and dispatch logs it: either
\* way the message is done with and what was committed stays.
EndMessage(g) ==
    /\ hand[g].pc = "entries"
    /\ Handling(g) => EntryFails(EntryInHand(g))
    /\ handled' = handled \cup {hand[g].msg}
    /\ hand' = [hand EXCEPT ![g] = Free]
    /\ UNCHANGED <<sent, deliveries, waiting, tsdata, query, lost>>

\* The replica dies; it acknowledged the message when it received it.
Crash(g) ==
    /\ hand[g].pc = "entries"
    /\ lost' = lost \cup {hand[g].msg}
    /\ hand' = [hand EXCEPT ![g] = Free]
    /\ UNCHANGED <<sent, deliveries, waiting, tsdata, query, handled>>

-----------------------------------------------------------------------------
(* query_tsdata.                                                           *)

RowsIn(s) == {x \in tsdata : x.series = s}

Bug_Window(s, from, to) == {x \in RowsIn(s) : from <= x.ts /\ x.ts < to}

Window(s, from, to) == {x \in RowsIn(s) : from <= x.ts /\ x.ts <= to}

Bug_LastTypes(s) ==
    IF tsdata = {} THEN {"int"}
    ELSE {x.dt : x \in {y \in tsdata : \A z \in tsdata : z.ts <= y.ts}}

\* The type of the newest row, int without one; of rows of the same second
\* the database takes any.
LastTypes(s) ==
    IF RowsIn(s) = {} THEN {"int"}
    ELSE {x.dt : x \in {y \in RowsIn(s) : \A z \in RowsIn(s) : z.ts <= y.ts}}

\* What the second SELECT shows of a row: NULL when the row's value is in
\* another column.
Null == None

Shown(x, col) == IF value_column(x.dt) = col THEN x.value ELSE Null

\* ORDER BY ts LIMIT lim: the oldest rows, any of those of the same second.
Oldest(W, lim) ==
    {S \in SUBSET W : /\ Cardinality(S) = IF Cardinality(W) < lim THEN Cardinality(W) ELSE lim
                      /\ \A x \in S, y \in W \ S : x.ts <= y.ts}

\* GET /user/nodes/tsdata or simple_tsdata, for a node the user has access
\* to (Sharing): the first SELECT.
QueryType(r, s, from, to, lim) ==
    /\ query[r] = Free
    /\ \E dt \in LastTypes(s) :
          query' = [query EXCEPT ![r] =
                      [pc |-> "rows", series |-> s, from |-> from, to |-> to,
                       lim |-> lim, col |-> value_column(dt), after |-> handled]]
    /\ UNCHANGED <<sent, deliveries, waiting, hand, tsdata, handled, lost>>

\* The second SELECT and the answer, a list of times and values.
QueryRows(r) ==
    LET q == query[r] IN
    /\ q.pc = "rows"
    /\ \E S \in Oldest(Window(q.series, q.from, q.to), q.lim) :
          query' = [query EXCEPT ![r] =
                      [pc |-> "answer", series |-> q.series, from |-> q.from, to |-> q.to,
                       lim |-> q.lim, col |-> q.col, after |-> q.after, got |-> S]]
    /\ UNCHANGED <<sent, deliveries, waiting, hand, tsdata, handled, lost>>

\* The route hands the answer out.
QueryDone(r) ==
    /\ query[r].pc = "answer"
    /\ query' = [query EXCEPT ![r] = Free]
    /\ UNCHANGED <<sent, deliveries, waiting, hand, tsdata, handled, lost>>

-----------------------------------------------------------------------------
(* The aggregated form: GROUP BY time_bucket, only for a column SQL can    *)
(* aggregate.                                                              *)

\* aggregate_interval, a count and a unit, in seconds.
parse_interval(n, unit) ==
    n * CASE unit = "s" -> 1 [] unit = "m" -> 60 [] unit = "h" -> 3600 [] unit = "d" -> 86400

Bug_time_bucket(width, ts) == ((ts + width - 1) \div width) * width

time_bucket(width, ts) == (ts \div width) * width

\* What one bucket holds: the values that are not NULL.
Filled(W, width, b, col) ==
    {x \in W : time_bucket(width, x.ts) = b /\ value_column(x.dt) = col}

\* AVG is the pair of the sum and the count.
AggregateOf(agg, X) ==
    LET Total == SumFunction([x \in X |-> x.value]) IN
    IF X = {} THEN Null
    ELSE CASE agg = "sum" -> Total
           [] agg = "avg" -> <<Total, Cardinality(X)>>
           [] agg = "min" -> Min({x.value : x \in X})
           [] agg = "max" -> Max({x.value : x \in X})

Buckets(W, width) == {time_bucket(width, x.ts) : x \in W}

\* The answer: a value for each bucket that has a row.
Aggregated(agg, W, width, col) ==
    [b \in Buckets(W, width) |-> AggregateOf(agg, Filled(W, width, b, col))]

-----------------------------------------------------------------------------

Serve(g) ==
    \/ \E m \in Messages : Take(g, m, FALSE)
    \/ StoreEntry(g)
    \/ EndMessage(g)

TsNext ==
    \/ \E b \in Batches : Publish(b)
    \/ \E g \in Ingestors, m \in Messages : Take(g, m, TRUE)
    \/ \E g \in Ingestors : Serve(g) \/ Crash(g)
    \/ \E r \in Readers, s \in Series, win \in Windows, lim \in Limits :
          QueryType(r, s, win[1], win[2], lim)
    \/ \E r \in Readers : QueryRows(r) \/ QueryDone(r)

\* A replica goes on with what the broker holds for it and with what it has
\* in hand.
TsSpec == TsInit /\ [][TsNext]_tsVars /\ \A g \in Ingestors : WF_tsVars(Serve(g))

-----------------------------------------------------------------------------
(* Properties.                                                             *)

\* The entries of a batch that can be stored: those before the first one
\* that fails.
Storable(m) ==
    {k \in 1..Len(sent[m]) : \A j \in 1..k : ~EntryFails(sent[m][j])}

\* The points of message m in series s, as <<entry, record>>.
PointsIn(m, s) ==
    UNION {{<<k, i>> : i \in Points(sent[m][k])} :
             k \in {j \in Storable(m) : sent[m][j].series = s}}

\* Partial failure: a delivery leaves whole entries, in their order and
\* without a gap, none at or after one that fails; all of them once it has
\* been handled to the end.
WholeEntries ==
    \A m \in DOMAIN sent, d \in 1..MaxDeliveries :
        LET mine == {x \in tsdata : x.at[1] = m /\ x.at[2] = d} IN
        \E K \in 0..Len(sent[m]) :
            /\ 1..K \subseteq Storable(m)
            /\ mine = UNION {RowsOf(m, d, k) : k \in 1..K}
            /\ d <= deliveries[m] /\ m \notin lost =>
                  \/ 1..K = Storable(m)
                  \/ \E g \in Ingestors : /\ hand[g].pc = "entries" /\ hand[g].msg = m
                                          /\ hand[g].delivery = d

\* What was stored before a query arrived, and lies in its window, is in the
\* answer, unless num_records rows at least as old are: from the device's
\* batch to the app's chart.
HandledIsRead ==
    \A r \in Readers : query[r].pc = "answer" =>
        LET q == query[r] IN
        \A m \in q.after \ lost : \A p \in PointsIn(m, q.series) :
            LET t == sent[m][p[1]].records[p[2]].t IN
            q.from <= t /\ t <= q.to =>
                \/ \E x \in q.got : x.at[1] = m /\ x.at[3] = p[1] /\ x.at[4] = p[2] /\ x.ts = t
                \/ Cardinality(q.got) = q.lim /\ \A x \in q.got : x.ts <= t

\* The column is chosen by one SELECT and read by another: as long as a
\* series had rows when the query arrived and all its points are of one
\* kind, no value is shown as NULL, whatever is stored in between.
TypedAnswer ==
    \A r \in Readers : query[r].pc = "answer" =>
        LET q == query[r] IN
        /\ \E m \in q.after \ lost : PointsIn(m, q.series) # {}
        /\ \A x, y \in RowsIn(q.series) : value_column(x.dt) = value_column(y.dt)
        => \A x \in q.got : Shown(x, q.col) = x.value

\* The aggregated answers on the rows W tell the same as their numbers:
\* every row lies in the one bucket that begins at or before it and ends
\* after it, the sums of the buckets add up, and the maximum of a bucket is
\* the largest number in it.
SameAsRaw(W, width, col) ==
    LET filled == {x \in W : value_column(x.dt) = col}
        sums == Aggregated("sum", W, width, col)
        tops == Aggregated("max", W, width, col)
        real == {b \in DOMAIN sums : sums[b] # Null}
        Holds(b, x) == b <= x.ts /\ x.ts < b + width
    IN  /\ \A x \in W : Cardinality({b \in DOMAIN sums : Holds(b, x)}) = 1
        /\ SumFunctionOnSet(sums, real) = SumFunction([x \in filled |-> x.value])
        /\ \A x \in filled : \E b \in real : Holds(b, x) /\ x.value <= tops[b]
        /\ \A b \in real : \E x \in filled : Holds(b, x) /\ x.value = tops[b]

\* An aggregated answer agrees with the raw one on every window, repeated
\* deliveries and rows of other columns included (query_tsdata).
AggregateAgrees ==
    \A s \in Series, win \in Windows, width \in Widths, col \in {"int", "float"} :
        SameAsRaw(Window(s, win[1], win[2]), width, col)

\* Every message is handled to the end or dies with a replica, and in the
\* first case all its storable points are in the table.
StoredOrLost ==
    \A m \in Messages :
        m \in DOMAIN sent ~>
            \/ m \in lost
            \/ /\ m \in DOMAIN sent
               /\ \A k \in Storable(m) : \E d \in 1..MaxDeliveries : RowsOf(m, d, k) \subseteq tsdata
=============================================================================
