---------------------------- MODULE ShadowProofs ----------------------------
(***************************************************************************)
(* Theorems about the params shadow: what a merge does, for all documents; *)
(* that the shadow only ever shows what its node reported, for any number  *)
(* of replicas and HTTPS requests; and, for one ingestor replica, that the *)
(* stored state is what the device reported and the state the device is    *)
(* in, however messages are sent again.                                    *)
(***************************************************************************)
EXTENDS RemoteControl, TLAPS

(* Documents and their merge.                                              *)

\* A value of a document is a dict of params or a leaf.
LEMMA DocValue ==
    ASSUME NEW doc, IsDoc(doc), NEW d \in DOMAIN doc
    PROVE  /\ doc[d].isDict \in BOOLEAN
           /\ doc[d].isDict =>
                 doc[d] = Dict([p \in DOMAIN doc[d].params |-> doc[d].params[p]])
           /\ ~doc[d].isDict => doc[d] = Leaf(doc[d].leaf)
<1> DEFINE f == [p \in DOMAIN doc[d].params |-> doc[d].params[p]]
           b == doc[d].isDict
           x == doc[d].leaf
<1>1. doc[d] = IF b THEN Dict(f) ELSE Leaf(x)
    BY DEF IsDoc
<1> HIDE DEF f, x
<1>2. CASE b
  <2>1. doc[d] = Dict(f)
      BY <1>1, <1>2
  <2>2. doc[d].isDict = TRUE
      BY <2>1 DEF Dict
  <2> QED BY <1>2, <2>1, <2>2 DEF f
<1>3. CASE ~b
  <2>1. doc[d] = Leaf(x)
      BY <1>1, <1>3
  <2>2. doc[d].isDict = FALSE
      BY <2>1 DEF Leaf
  <2> QED BY <1>3, <2>1, <2>2 DEF x
<1> QED BY <1>2, <1>3

\* Functions with such values are documents.
LEMMA DocFrom ==
    ASSUME NEW doc, doc = [d \in DOMAIN doc |-> doc[d]],
           \A d \in DOMAIN doc :
               \/ doc[d] = Dict([p \in DOMAIN doc[d].params |-> doc[d].params[p]])
               \/ doc[d] = Leaf(doc[d].leaf)
    PROVE  IsDoc(doc)
<1> DEFINE v(d) == IF doc[d].isDict
                   THEN Dict([p \in DOMAIN doc[d].params |-> doc[d].params[p]])
                   ELSE Leaf(doc[d].leaf)
<1>1. ASSUME NEW d \in DOMAIN doc PROVE doc[d] = v(d)
  <2> DEFINE f == [p \in DOMAIN doc[d].params |-> doc[d].params[p]]
             x == doc[d].leaf
  <2>1. doc[d] = Dict(f) \/ doc[d] = Leaf(x)
      OBVIOUS
  <2>2. v(d) = IF doc[d].isDict THEN Dict(f) ELSE Leaf(x)
      OBVIOUS
  <2> HIDE DEF f, x, v
  <2>3. doc[d] = Dict(f) => doc[d].isDict
      BY DEF Dict
  <2>4. doc[d] = Leaf(x) => ~doc[d].isDict
      BY DEF Leaf
  <2> QED BY <2>1, <2>2, <2>3, <2>4
<1>2. [d \in DOMAIN doc |-> doc[d]] = [d \in DOMAIN doc |-> v(d)]
  <2> HIDE DEF v
  <2> QED BY <1>1
<1> QED BY <1>2 DEF IsDoc

\* What the merge of two documents has for a device.
LEMMA MergeCases ==
    ASSUME NEW c, NEW u
    PROVE  /\ DOMAIN MergeParams(c, u) = DOMAIN c \cup DOMAIN u
           /\ \A d \in DOMAIN c \cup DOMAIN u :
                 \/ /\ d \notin DOMAIN u
                    /\ MergeParams(c, u)[d] = c[d]
                 \/ /\ d \in DOMAIN u
                    /\ ~(d \in DOMAIN c /\ c[d].isDict /\ u[d].isDict)
                    /\ MergeParams(c, u)[d] = u[d]
                 \/ /\ d \in DOMAIN u /\ d \in DOMAIN c /\ c[d].isDict /\ u[d].isDict
                    /\ MergeParams(c, u)[d] =
                         Dict(Override(c[d].params, u[d].params))
<1>1. ASSUME NEW d \in DOMAIN c \cup DOMAIN u
      PROVE \/ /\ d \notin DOMAIN u
               /\ MergeParams(c, u)[d] = c[d]
            \/ /\ d \in DOMAIN u
               /\ ~(d \in DOMAIN c /\ c[d].isDict /\ u[d].isDict)
               /\ MergeParams(c, u)[d] = u[d]
            \/ /\ d \in DOMAIN u /\ d \in DOMAIN c /\ c[d].isDict /\ u[d].isDict
               /\ MergeParams(c, u)[d] = Dict(Override(c[d].params, u[d].params))
    BY DEF MergeParams
<1> QED BY <1>1 DEF MergeParams

\* The dict of a merge, taken apart.
LEMMA DictFields ==
    ASSUME NEW f, NEW v, v = Dict(f)
    PROVE  v.isDict = TRUE /\ v.params = f /\ v.leaf = 0
BY DEF Dict

\* A merge of documents is a document.
LEMMA MergeDoc ==
    ASSUME NEW c, NEW u, IsDoc(c), IsDoc(u)
    PROVE  IsDoc(MergeParams(c, u))
<1> DEFINE m == MergeParams(c, u)
<1>1. m = [d \in DOMAIN m |-> m[d]]
    BY DEF MergeParams
<1>2. ASSUME NEW d \in DOMAIN m
      PROVE \/ m[d] = Dict([p \in DOMAIN m[d].params |-> m[d].params[p]])
            \/ m[d] = Leaf(m[d].leaf)
  <2>1. CASE d \notin DOMAIN u /\ m[d] = c[d] /\ d \in DOMAIN c
    <3>1. \/ c[d] = Dict([p \in DOMAIN c[d].params |-> c[d].params[p]])
          \/ c[d] = Leaf(c[d].leaf)
        BY <2>1, DocValue
    <3> QED BY <2>1, <3>1
  <2>2. CASE d \in DOMAIN u /\ m[d] = u[d]
    <3>1. \/ u[d] = Dict([p \in DOMAIN u[d].params |-> u[d].params[p]])
          \/ u[d] = Leaf(u[d].leaf)
        BY <2>2, DocValue
    <3> QED BY <2>2, <3>1
  <2>3. CASE m[d] = Dict(Override(c[d].params, u[d].params))
    <3> DEFINE f == Override(c[d].params, u[d].params)
    <3>1. f = [p \in DOMAIN f |-> f[p]]
        BY DEF Override
    <3>2. m[d].params = f
        BY <2>3 DEF Dict
    <3> HIDE DEF m, f
    <3>3. m[d] = Dict(f)
        BY <2>3 DEF f
    <3> QED BY <3>1, <3>2, <3>3
  <2>4. d \in DOMAIN c \cup DOMAIN u
      BY MergeCases
  <2>5. \/ d \notin DOMAIN u /\ m[d] = c[d]
        \/ d \in DOMAIN u /\ m[d] = u[d]
        \/ m[d] = Dict(Override(c[d].params, u[d].params))
      BY <2>4, MergeCases
  <2> HIDE DEF m
  <2> QED BY <2>1, <2>2, <2>3, <2>4, <2>5
<1> HIDE DEF m
<1>3. IsDoc(m)
    BY <1>1, <1>2, DocFrom
<1> QED BY <1>3 DEF m

\* What one report does to one param of the shadow: if the report speaks of
\* it, the shadow shows what the report says, otherwise what it showed
\* (_merge_params, services/node.py).
THEOREM MergeShowsReport ==
    ASSUME NEW c, NEW u, NEW d, NEW p
    PROVE  At(MergeParams(c, u), d, p) =
             IF Speaks(u, d, p) THEN At(u, d, p) ELSE At(c, d, p)
<1> DEFINE m == MergeParams(c, u)
<1>0. DOMAIN m = DOMAIN c \cup DOMAIN u
    BY MergeCases
<1>1. CASE d \in DOMAIN u /\ d \in DOMAIN c /\ c[d].isDict /\ u[d].isDict
  <2>1. m[d] = Dict(Override(c[d].params, u[d].params))
      BY <1>1, MergeCases
  <2>2. m[d].isDict = TRUE /\ m[d].params = Override(c[d].params, u[d].params)
      BY <2>1, DictFields
  <2> HIDE DEF m
  <2>3. At(m, d, p) = IF Speaks(u, d, p) THEN At(u, d, p) ELSE At(c, d, p)
      BY <1>0, <1>1, <2>2 DEF At, Speaks, Override
  <2> QED BY <2>3 DEF m
<1>2. CASE d \in DOMAIN u /\ ~(d \in DOMAIN c /\ c[d].isDict /\ u[d].isDict)
  <2>1. m[d] = u[d]
      BY <1>2, MergeCases
  <2> QED BY <1>0, <1>2, <2>1 DEF At, Speaks
<1>3. CASE d \in DOMAIN c /\ d \notin DOMAIN u
  <2>1. m[d] = c[d]
      BY <1>3, MergeCases
  <2> QED BY <1>0, <1>3, <2>1 DEF At, Speaks
<1>4. CASE d \notin DOMAIN c /\ d \notin DOMAIN u
    BY <1>0, <1>4 DEF At, Speaks
<1> QED BY <1>1, <1>2, <1>3, <1>4

\* What a device of a document is: a dict, or which leaf.
Kind(doc, d) ==
    IF d \in DOMAIN doc THEN {<<doc[d].isDict, doc[d].leaf>>} ELSE {}

\* After a merge a device is what the report says, if the report names it.
LEMMA MergeKind ==
    ASSUME NEW c, NEW u, IsDoc(c), IsDoc(u), NEW d
    PROVE  Kind(MergeParams(c, u), d) =
             IF d \in DOMAIN u THEN Kind(u, d) ELSE Kind(c, d)
<1> DEFINE m == MergeParams(c, u)
<1>0. DOMAIN m = DOMAIN c \cup DOMAIN u
    BY MergeCases
<1>1. CASE d \in DOMAIN u /\ d \in DOMAIN c /\ c[d].isDict /\ u[d].isDict
  <2>1. m[d] = Dict(Override(c[d].params, u[d].params))
      BY <1>1, MergeCases
  <2>2. m[d].isDict = TRUE /\ m[d].leaf = 0
      BY <2>1 DEF Dict
  <2>3. u[d].isDict = TRUE /\ u[d].leaf = 0
    <3> DEFINE f == [p \in DOMAIN u[d].params |-> u[d].params[p]]
    <3>1. u[d] = Dict(f)
        BY <1>1, DocValue
    <3> HIDE DEF f
    <3> QED BY <3>1 DEF Dict
  <2> HIDE DEF m
  <2>4. Kind(m, d) = Kind(u, d)
      BY <1>0, <1>1, <2>2, <2>3 DEF Kind
  <2> QED BY <1>1, <2>4 DEF m
<1>2. CASE d \in DOMAIN u /\ ~(d \in DOMAIN c /\ c[d].isDict /\ u[d].isDict)
  <2>1. m[d] = u[d]
      BY <1>2, MergeCases
  <2> QED BY <1>0, <1>2, <2>1 DEF Kind
<1>3. CASE d \in DOMAIN c /\ d \notin DOMAIN u
  <2>1. m[d] = c[d]
      BY <1>3, MergeCases
  <2> QED BY <1>0, <1>3, <2>1 DEF Kind
<1>4. CASE d \notin DOMAIN c /\ d \notin DOMAIN u
    BY <1>0, <1>4 DEF Kind
<1> QED BY <1>1, <1>2, <1>3, <1>4

\* Giving the same params a second time changes nothing.
LEMMA OverrideTwice ==
    ASSUME NEW f, NEW g
    PROVE  Override(Override(f, g), g) = Override(f, g)
BY DEF Override

\* A report delivered twice in a row is a report delivered once: the QoS 1
\* redelivery of a params/local message does not change the shadow
\* (_merge_params, services/node.py).
THEOREM MergeTwice ==
    ASSUME NEW c, NEW u, IsDoc(u)
    PROVE  MergeParams(MergeParams(c, u), u) = MergeParams(c, u)
<1> DEFINE m == MergeParams(c, u)
           n == MergeParams(m, u)
<1>0. DOMAIN m = DOMAIN c \cup DOMAIN u
    BY MergeCases
<1>1. DOMAIN n = DOMAIN m
  <2> HIDE DEF m
  <2>1. DOMAIN n = DOMAIN m \cup DOMAIN u
      BY MergeCases
  <2> QED BY <1>0, <2>1
<1>2. ASSUME NEW d \in DOMAIN m PROVE n[d] = m[d]
  <2>0. \/ d \notin DOMAIN u /\ n[d] = m[d]
        \/ /\ d \in DOMAIN u /\ ~(m[d].isDict /\ u[d].isDict)
           /\ n[d] = u[d]
        \/ /\ d \in DOMAIN u /\ m[d].isDict /\ u[d].isDict
           /\ n[d] = Dict(Override(m[d].params, u[d].params))
    <3> HIDE DEF m
    <3> QED BY <1>2, MergeCases
  <2>1. CASE d \notin DOMAIN u
      BY <2>0, <2>1
  <2>2. CASE d \in DOMAIN u /\ ~u[d].isDict
    <3>1. m[d] = u[d]
        BY <1>0, <1>2, <2>2, MergeCases
    <3> QED BY <2>0, <2>2, <3>1
  <2>3. CASE d \in DOMAIN u /\ u[d].isDict /\ ~(d \in DOMAIN c /\ c[d].isDict)
    <3> DEFINE f == [p \in DOMAIN u[d].params |-> u[d].params[p]]
    <3>1. m[d] = u[d]
        BY <1>0, <1>2, <2>3, MergeCases
    <3>2. u[d] = Dict(f)
        BY <2>3, DocValue
    <3>3. u[d].params = f
      <4> HIDE DEF f
      <4> QED BY <3>2, DictFields
    <3>4. m[d].isDict
        BY <2>3, <3>1
    <3>5. n[d] = Dict(Override(m[d].params, u[d].params))
      BY <2>0, <2>3, <3>4
    <3>6. Override(f, f) = f
        BY DEF Override
    <3> QED BY <3>1, <3>2, <3>3, <3>5, <3>6
  <2>4. CASE d \in DOMAIN u /\ u[d].isDict /\ d \in DOMAIN c /\ c[d].isDict
    <3> DEFINE f == Override(c[d].params, u[d].params)
    <3>1. m[d] = Dict(f)
        BY <1>0, <1>2, <2>4, MergeCases
    <3>2. m[d].isDict = TRUE /\ m[d].params = f
        BY <3>1, DictFields
    <3>3. n[d] = Dict(Override(m[d].params, u[d].params))
      BY <2>0, <2>4, <3>2
    <3> QED BY <3>1, <3>2, <3>3, OverrideTwice
  <2> QED BY <2>1, <2>2, <2>3, <2>4
<1>3. m = [d \in DOMAIN m |-> m[d]] /\ n = [d \in DOMAIN n |-> n[d]]
    BY DEF MergeParams
<1> HIDE DEF m, n
<1>4. n = m
    BY <1>1, <1>2, <1>3
<1> QED BY <1>4 DEF m, n

-----------------------------------------------------------------------------
(* Lists of messages.                                                      *)

IsSeq(s) == s \in Seq({s[i] : i \in DOMAIN s})

\* The places of a list.
LEMMA SeqFacts ==
    ASSUME NEW s, IsSeq(s)
    PROVE  Len(s) \in Nat /\ DOMAIN s = 1..Len(s)
BY DEF IsSeq

\* A list over any set of elements is a list.
LEMMA SeqIsSeq ==
    ASSUME NEW S, NEW s \in Seq(S)
    PROVE  IsSeq(s)
<1>1. s \in [1..Len(s) -> {s[i] : i \in DOMAIN s}] /\ Len(s) \in Nat
    OBVIOUS
<1> DEFINE R == {s[i] : i \in DOMAIN s}
<1> HIDE DEF R
<1>2. s \in Seq(R)
    BY <1>1 DEF R
<1> QED BY <1>2 DEF IsSeq, R

\* A message appended comes last.
LEMMA AppendFacts ==
    ASSUME NEW s, IsSeq(s), NEW m
    PROVE  /\ IsSeq(Append(s, m))
           /\ DOMAIN Append(s, m) = 1..(Len(s) + 1)
           /\ Len(Append(s, m)) = Len(s) + 1
           /\ \A i \in 1..Len(s) : Append(s, m)[i] = s[i]
           /\ Append(s, m)[Len(s) + 1] = m
<1> DEFINE S == {s[i] : i \in DOMAIN s} \cup {m}
<1>1. s \in Seq(S) /\ m \in S
  <2>1. s \in [1..Len(s) -> S] /\ Len(s) \in Nat
      BY DEF IsSeq
  <2> HIDE DEF S
  <2>2. s \in Seq(S)
      BY <2>1
  <2> QED BY <2>2 DEF S
<1> HIDE DEF S
<1>2. Append(s, m) \in Seq(S)
    BY <1>1
<1>3. IsSeq(Append(s, m))
    BY <1>2, SeqIsSeq
<1> QED BY <1>1, <1>3

\* The message at the head goes, the others move up.
LEMMA TailFacts ==
    ASSUME NEW s, IsSeq(s), Len(s) > 0
    PROVE  /\ IsSeq(Tail(s))
           /\ Len(Tail(s)) = Len(s) - 1
           /\ DOMAIN Tail(s) = 1..(Len(s) - 1)
           /\ \A i \in 1..(Len(s) - 1) : Tail(s)[i] = s[i + 1]
<1> DEFINE S == {s[i] : i \in DOMAIN s}
<1>1. s \in Seq(S)
    BY DEF IsSeq
<1> HIDE DEF S
<1>2. s # <<>>
    BY <1>1
<1>3. Tail(s) \in Seq(S)
    BY <1>1, <1>2
<1>4. IsSeq(Tail(s))
    BY <1>3, SeqIsSeq
<1> QED BY <1>1, <1>2, <1>3, <1>4

\* What is left when the oldest messages are gone was there.
LEMMA SubSeqFacts ==
    ASSUME NEW s, IsSeq(s), NEW k \in 0..Len(s)
    PROVE  /\ IsSeq(SubSeq(s, k + 1, Len(s)))
           /\ Len(SubSeq(s, k + 1, Len(s))) = Len(s) - k
           /\ \A i \in DOMAIN SubSeq(s, k + 1, Len(s)) :
                 \E j \in DOMAIN s : SubSeq(s, k + 1, Len(s))[i] = s[j]
<1> DEFINE S == {s[i] : i \in DOMAIN s}
           r == SubSeq(s, k + 1, Len(s))
<1>1. s \in Seq(S) /\ Len(s) \in Nat /\ DOMAIN s = 1..Len(s)
    BY DEF IsSeq
<1> HIDE DEF S
<1>2. /\ r \in Seq(S)
      /\ Len(r) = Len(s) - k
      /\ \A i \in 1..(Len(s) - k) : r[i] = s[k + i]
    BY <1>1
<1> HIDE DEF r
<1>3. DOMAIN r = 1..(Len(s) - k)
    BY <1>2
<1>4. ASSUME NEW i \in DOMAIN r PROVE \E j \in DOMAIN s : r[i] = s[j]
  <2>1. k + i \in DOMAIN s
      BY <1>1, <1>3
  <2> QED BY <1>2, <1>3, <2>1
<1>5. IsSeq(r)
    BY <1>2, SeqIsSeq
<1> QED BY <1>2, <1>4, <1>5 DEF r

-----------------------------------------------------------------------------
(* Nothing is made up: any number of replicas and HTTPS requests.          *)

\* A step of the backend, the broker or the devices, whatever the devices
\* report.
AnyStep ==
    \/ \E m : \E g \in Ingestors : m.node \in Nodes /\ DevicePublish(m, g)
    \/ \E m : \E w \in Workers : m.node \in Nodes /\ HttpsReport(w, m)
    \/ \E g \in Ingestors : Acknowledge(g)
    \/ \E g \in Ingestors : Reconnect(g)
    \/ \E g \in Ingestors : \E k \in 0..Len(inbox[g]) : Crash(g, k)
    \/ \E g \in Ingestors : Dispatch(g)
    \/ \E g \in Ingestors : EnsureNode(g)
    \/ \E g \in Ingestors : EnsureConflict(g)
    \/ \E p \in Procs : ReadRow(p)
    \/ \E p \in Procs : upsert_params_shadow(p)
    \/ \E p \in Procs : upsert_node_config(p)
    \/ \E p \in Procs : UpsertConflict(p)
    \/ \E w \in Workers : Abort(w)
    \/ UNCHANGED vars

\* Every step of NodeShadow is one of those.
LEMMA NextAny == ASSUME [Next]_vars PROVE AnyStep
<1>1. \A m \in Message : m.node \in Nodes
    BY DEF Message
<1> QED BY <1>1 DEF Next, Session, Consume, Handle, AnyStep, Procs

\* Every step of RemoteControl, too.
LEMMA RemoteAny == ASSUME [RemoteNext]_rvars PROVE AnyStep
<1>1. ASSUME NEW n \in Nodes, NEW g \in Ingestors, NEW again \in BOOLEAN,
             ApplyCommand(n, g, again)
      PROVE AnyStep
  <2> DEFINE m == [node |-> n, topic |-> "params",
                   body |-> Obeyed(actual[n], Head(downlink[n]))]
  <2>1. m.node \in Nodes /\ DevicePublish(m, g)
      BY <1>1 DEF ApplyCommand
  <2> HIDE DEF m
  <2> QED BY <2>1 DEF AnyStep
<1>2. ASSUME NEW n \in Nodes, NEW doc \in Payloads, NEW g \in Ingestors,
             ChangeLocally(n, doc, g)
      PROVE AnyStep
  <2> DEFINE m == [node |-> n, topic |-> "params", body |-> doc]
  <2>1. m.node \in Nodes /\ DevicePublish(m, g)
      BY <1>2 DEF ChangeLocally
  <2> HIDE DEF m
  <2> QED BY <2>1 DEF AnyStep
<1>3. ASSUME NEW n \in Nodes, NEW c \in Configs, NEW g \in Ingestors,
             DevicePublish([node |-> n, topic |-> "config", body |-> c], g)
      PROVE AnyStep
  <2> DEFINE m == [node |-> n, topic |-> "config", body |-> c]
  <2>1. m.node \in Nodes /\ DevicePublish(m, g)
      BY <1>3
  <2> HIDE DEF m
  <2> QED BY <2>1 DEF AnyStep
<1>4. ASSUME NEW g \in Ingestors, Session(g) PROVE AnyStep
    BY <1>4 DEF Session, Consume, Handle, AnyStep, Procs
<1>5. CASE UNCHANGED vars
    BY <1>5 DEF AnyStep
<1> QED BY <1>1, <1>2, <1>3, <1>4, <1>5
        DEF RemoteNext, PutParams, PublishParams, PublishFails, ChangeAccess, rvars

\* A message a node has reported, and a document made of what it reported.
ToldIn(reports, m) == \E j \in DOMAIN reports : reports[j] = m

Own(reports, doc) ==
    \A d, p : \A v \in At(doc, d, p) :
        \E j \in DOMAIN reports : /\ reports[j].topic = "params"
                                  /\ v \in At(reports[j].body, d, p)

Told(m) == m.node \in Nodes /\ ToldIn(reported[m.node], m)

\* Every process is idle or has a message in hand, with the row it read.
Shaped ==
    /\ DOMAIN inbox = Ingestors /\ DOMAIN next = Ingestors
    /\ DOMAIN req = Procs /\ DOMAIN reported = Nodes
    /\ \A g \in Ingestors : IsSeq(inbox[g]) /\ next[g] \in 1..(Len(inbox[g]) + 1)
    /\ \A n \in Nodes : IsSeq(reported[n])
    /\ \A p \in Procs :
          \/ req[p] = Idle
          \/ /\ req[p].pc \in {"ensure", "read"}
             /\ req[p] = [pc |-> req[p].pc, msg |-> req[p].msg]
          \/ req[p] = [pc |-> "write", msg |-> req[p].msg, base |-> req[p].base]

\* Messages and bases come from the node's reports, and so does the shadow.
FromReports ==
    /\ \A g \in Ingestors : \A i \in DOMAIN inbox[g] : Told(inbox[g][i])
    /\ \A p \in Procs : req[p].pc # "idle" => Told(req[p].msg)
    /\ \A p \in Procs : (req[p].pc = "write" /\ req[p].msg.topic = "params") =>
          \A b \in req[p].base : Own(reported[req[p].msg.node], b)
    /\ \A n \in DOMAIN shadow : n \in Nodes /\ Own(reported[n], shadow[n])

ReportedInv == Shaped /\ FromReports

\* Nothing has been reported and nothing is stored.
LEMMA ReportedInit == Init => ReportedInv
<1> SUFFICES ASSUME Init PROVE ReportedInv
    OBVIOUS
<1>1. IsSeq(<<>>)
    BY DEF IsSeq
<1>2. Shaped
  <2>1. 1 \in 1..(Len(<<>>) + 1)
      OBVIOUS
  <2> QED BY <1>1, <2>1 DEF Init, Shaped
<1>3. FromReports
    BY DEF Init, FromReports, Idle
<1> QED BY <1>2, <1>3 DEF ReportedInv

\* What a node has reported stays reported.
Grows == \A n \in Nodes : \A i \in DOMAIN reported[n] :
            i \in DOMAIN reported'[n] /\ reported'[n][i] = reported[n][i]

\* A report comes last and changes no other.
LEMMA ReportGrows ==
    ASSUME Shaped, NEW m, m.node \in Nodes, Report(m)
    PROVE  /\ Grows
           /\ DOMAIN reported' = Nodes
           /\ \A n \in Nodes : IsSeq(reported'[n])
           /\ \A n \in Nodes : n # m.node => reported'[n] = reported[n]
           /\ reported'[m.node] = Append(reported[m.node], m)
           /\ Told(m)'
<1> DEFINE s == reported[m.node]
<1>1. reported' = [reported EXCEPT ![m.node] = Append(s, m)] /\ DOMAIN reported = Nodes
    BY DEF Report, Shaped
<1>2. IsSeq(s)
    BY DEF Shaped
<1>3. /\ reported'[m.node] = Append(s, m) /\ DOMAIN reported' = Nodes
      /\ \A n \in Nodes : n # m.node => reported'[n] = reported[n]
    BY <1>1
<1> HIDE DEF s
<1>4. Len(s) \in Nat /\ DOMAIN s = 1..Len(s)
    BY <1>2, SeqFacts
<1>5. /\ IsSeq(Append(s, m)) /\ DOMAIN Append(s, m) = 1..(Len(s) + 1)
      /\ \A i \in 1..Len(s) : Append(s, m)[i] = s[i]
      /\ Append(s, m)[Len(s) + 1] = m
    BY <1>2, AppendFacts
<1>6. Grows
  <2> SUFFICES ASSUME NEW n \in Nodes, NEW i \in DOMAIN reported[n]
               PROVE i \in DOMAIN reported'[n] /\ reported'[n][i] = reported[n][i]
      BY DEF Grows
  <2>1. CASE n = m.node
    <3>1. i \in 1..Len(s) /\ i \in 1..(Len(s) + 1)
        BY <1>4, <2>1 DEF s
    <3> QED BY <1>3, <1>5, <2>1, <3>1 DEF s
  <2>2. CASE n # m.node
      BY <1>3, <2>2
  <2> QED BY <2>1, <2>2
<1>7. Told(m)'
  <2>1. Len(s) + 1 \in DOMAIN reported'[m.node] /\ reported'[m.node][Len(s) + 1] = m
      BY <1>3, <1>4, <1>5
  <2> QED BY <2>1 DEF Told, ToldIn
<1>8. \A n \in Nodes : IsSeq(reported'[n])
    BY <1>3, <1>5 DEF Shaped
<1> QED BY <1>3, <1>6, <1>7, <1>8 DEF s

\* What was told stays told.
LEMMA ToldStays ==
    ASSUME Grows, NEW m, Told(m)
    PROVE  m.node \in Nodes /\ ToldIn(reported'[m.node], m)
BY DEF Grows, Told, ToldIn

\* What was made of reports still is.
LEMMA OwnStays ==
    ASSUME Grows, NEW n \in Nodes, NEW doc, Own(reported[n], doc)
    PROVE  Own(reported'[n], doc)
BY DEF Grows, Own

\* Most steps leave the reports alone.
LEMMA AnyGrows ==
    ASSUME Shaped, AnyStep
    PROVE  Grows /\ DOMAIN reported' = Nodes /\ \A n \in Nodes : IsSeq(reported'[n])
<1>1. CASE UNCHANGED reported
    BY <1>1 DEF Grows, Shaped
<1>2. ASSUME NEW m, m.node \in Nodes, Report(m)
      PROVE Grows /\ DOMAIN reported' = Nodes /\ \A n \in Nodes : IsSeq(reported'[n])
    BY <1>2, ReportGrows
<1> QED BY <1>1, <1>2
        DEF AnyStep, DevicePublish, HttpsReport, Acknowledge, Reconnect, Crash, Dispatch,
            EnsureNode, EnsureConflict, ReadRow, upsert_params_shadow, upsert_node_config,
            UpsertConflict, Abort, vars

\* What one step does to the process that takes it.
Takes(p) ==
    \/ req'[p] = req[p]
    \/ req'[p] = Idle
    \/ p \in Ingestors /\ Dispatch(p)
    \/ p \in Ingestors /\ EnsureNode(p)
    \/ ReadRow(p)
    \/ p \in Workers /\ \E m : m.node \in Nodes /\ HttpsReport(p, m)

\* Every step moves one process at most.
LEMMA AnyTakes ==
    ASSUME Shaped, AnyStep, NEW p \in Procs
    PROVE  DOMAIN req' = Procs /\ Takes(p)
<1> USE DEF Shaped, Takes
<1>1. ASSUME NEW q \in Procs, NEW r, req' = [req EXCEPT ![q] = r]
      PROVE DOMAIN req' = Procs /\ (p # q => req'[p] = req[p]) /\ (p = q => req'[p] = r)
    BY <1>1
<1>2. ASSUME NEW m, NEW w \in Workers, m.node \in Nodes, HttpsReport(w, m)
      PROVE DOMAIN req' = Procs /\ Takes(p)
  <2>1. CASE p = w
      BY <1>1, <1>2, <2>1 DEF HttpsReport, Procs
  <2>2. CASE p # w
      BY <1>1, <1>2, <2>2 DEF HttpsReport, Procs
  <2> QED BY <2>1, <2>2
<1>3. ASSUME NEW g \in Ingestors, Dispatch(g) PROVE DOMAIN req' = Procs /\ Takes(p)
  <2> DEFINE r == [pc |-> EnsureBranch(inbox[g][next[g]].node), msg |-> inbox[g][next[g]]]
  <2>1. req' = [req EXCEPT ![g] = r] /\ g \in Procs
      BY <1>3 DEF Dispatch, Procs
  <2> HIDE DEF r
  <2> QED BY <1>1, <1>3, <2>1
<1>4. ASSUME NEW g \in Ingestors, EnsureNode(g) PROVE DOMAIN req' = Procs /\ Takes(p)
  <2> DEFINE r == [req[g] EXCEPT !.pc = "read"]
  <2>1. req' = [req EXCEPT ![g] = r] /\ g \in Procs
      BY <1>4 DEF EnsureNode, Procs
  <2> HIDE DEF r
  <2> QED BY <1>1, <1>4, <2>1
<1>5. ASSUME NEW q \in Procs, ReadRow(q) PROVE DOMAIN req' = Procs /\ Takes(p)
  <2> DEFINE r == [pc |-> "write", msg |-> req[q].msg,
                   base |-> RowOf(TableFor(req[q].msg), req[q].msg.node)]
  <2>1. req' = [req EXCEPT ![q] = r]
      BY <1>5 DEF ReadRow
  <2> HIDE DEF r
  <2> QED BY <1>1, <1>5, <2>1
<1>6. ASSUME NEW q \in Procs, req' = [req EXCEPT ![q] = Idle]
      PROVE DOMAIN req' = Procs /\ Takes(p)
    BY <1>6
<1>7. CASE UNCHANGED req
    BY <1>7
<1> QED BY <1>2, <1>3, <1>4, <1>5, <1>6, <1>7
        DEF AnyStep, DevicePublish, Acknowledge, Reconnect, Crash, EnsureConflict,
            upsert_params_shadow, upsert_node_config, UpsertConflict, Abort, vars, Procs

\* A replica that has committed the node's row keeps its message.
LEMMA EnsureKeeps ==
    ASSUME Shaped, NEW g \in Ingestors, EnsureNode(g)
    PROVE  req'[g] = [pc |-> "read", msg |-> req[g].msg]
<1> DEFINE m == req[g].msg
<1>1. req[g] = [pc |-> "ensure", msg |-> m] /\ g \in DOMAIN req
  <2>1. req[g].pc = "ensure" /\ g \in Procs /\ g \in DOMAIN req
      BY DEF Shaped, EnsureNode, Procs
  <2>2. req[g] # Idle
      BY <2>1 DEF Idle
  <2>3. req[g] # [pc |-> "write", msg |-> m, base |-> req[g].base]
      BY <2>1
  <2> QED BY <2>1, <2>2, <2>3 DEF Shaped
<1> HIDE DEF m
<1>2. req'[g] = [req[g] EXCEPT !.pc = "read"]
    BY <1>1 DEF EnsureNode
<1>3. [req[g] EXCEPT !.pc = "read"] = [pc |-> "read", msg |-> m]
    BY <1>1
<1> QED BY <1>2, <1>3 DEF m

\* A step on a list of messages adds one at the end or takes some from the
\* front, and the broker's place in it moves along.
LEMMA InboxStep ==
    ASSUME Shaped, AnyStep, NEW g \in Ingestors
    PROVE  /\ IsSeq(inbox'[g])
           /\ next'[g] \in 1..(Len(inbox'[g]) + 1)
           /\ \A i \in DOMAIN inbox'[g] :
                 \/ \E j \in DOMAIN inbox[g] : inbox'[g][i] = inbox[g][j]
                 \/ \E m, h : /\ m.node \in Nodes /\ DevicePublish(m, h)
                              /\ inbox'[g][i] = m
<1> DEFINE s == inbox[g]
           r == inbox'[g]
           Goal == /\ IsSeq(r) /\ next'[g] \in 1..(Len(r) + 1)
                   /\ \A i \in DOMAIN r : \/ \E j \in DOMAIN s : r[i] = s[j]
                                          \/ \E m, h : /\ m.node \in Nodes
                                                       /\ DevicePublish(m, h)
                                                       /\ r[i] = m
<1>0. /\ IsSeq(s) /\ Len(s) \in Nat /\ DOMAIN s = 1..Len(s)
      /\ next[g] \in 1..(Len(s) + 1)
      /\ DOMAIN inbox = Ingestors /\ DOMAIN next = Ingestors
    BY SeqFacts DEF Shaped
<1>1. CASE r = s /\ next'[g] = next[g]
    BY <1>0, <1>1
<1>2. ASSUME NEW m, NEW h \in Ingestors, m.node \in Nodes, DevicePublish(m, h) PROVE Goal
  <2>1. CASE g # h
      BY <1>0, <1>1, <1>2, <2>1 DEF DevicePublish
  <2>2. CASE g = h
    <3>1. r = Append(s, m) /\ next'[g] = next[g]
        BY <1>0, <1>2, <2>2 DEF DevicePublish
    <3> HIDE DEF s, r
    <3>2. /\ IsSeq(r) /\ DOMAIN r = 1..(Len(s) + 1) /\ Len(r) = Len(s) + 1
          /\ \A i \in 1..Len(s) : r[i] = s[i]
          /\ r[Len(s) + 1] = m
        BY <1>0, <3>1, AppendFacts
    <3>3. next'[g] \in 1..(Len(r) + 1)
        BY <1>0, <3>1, <3>2
    <3>4. ASSUME NEW i \in DOMAIN r
          PROVE (\E j \in DOMAIN s : r[i] = s[j]) \/ r[i] = m
        BY <1>0, <3>2
    <3> QED BY <1>2, <3>2, <3>3, <3>4
  <2> QED BY <2>1, <2>2
<1>3. ASSUME NEW h \in Ingestors, Acknowledge(h) PROVE Goal
  <2>1. CASE g # h
      BY <1>0, <1>1, <1>3, <2>1 DEF Acknowledge
  <2>2. CASE g = h
    <3>1. r = Tail(s) /\ next'[g] = next[g] - 1 /\ next[g] > 1
        BY <1>0, <1>3, <2>2 DEF Acknowledge
    <3>2. Len(s) > 0
        BY <1>0, <3>1
    <3> HIDE DEF s, r
    <3>3. /\ IsSeq(r) /\ DOMAIN r = 1..(Len(s) - 1) /\ Len(r) = Len(s) - 1
          /\ \A i \in 1..(Len(s) - 1) : r[i] = s[i + 1]
        BY <1>0, <3>1, <3>2, TailFacts
    <3>4. next'[g] \in 1..(Len(r) + 1)
        BY <1>0, <3>1, <3>3
    <3>5. ASSUME NEW i \in DOMAIN r PROVE \E j \in DOMAIN s : r[i] = s[j]
      <4>1. i + 1 \in DOMAIN s /\ r[i] = s[i + 1]
          BY <1>0, <3>3
      <4> QED BY <4>1
    <3> QED BY <3>3, <3>4, <3>5
  <2> QED BY <2>1, <2>2
<1>4. ASSUME NEW h \in Ingestors, Reconnect(h) PROVE Goal
  <2>1. r = s /\ (next'[g] = next[g] \/ next'[g] = 1)
      BY <1>0, <1>4 DEF Reconnect
  <2> QED BY <1>0, <2>1
<1>5. ASSUME NEW h \in Ingestors, NEW k \in 0..Len(inbox[h]), Crash(h, k) PROVE Goal
  <2>1. CASE g # h
      BY <1>0, <1>1, <1>5, <2>1 DEF Crash
  <2>2. CASE g = h
    <3>1. r = SubSeq(s, k + 1, Len(s)) /\ next'[g] = 1 /\ k \in 0..Len(s)
        BY <1>0, <1>5, <2>2 DEF Crash
    <3> HIDE DEF s, r
    <3>2. /\ IsSeq(r) /\ Len(r) = Len(s) - k
          /\ \A i \in DOMAIN r : \E j \in DOMAIN s : r[i] = s[j]
      <4>1. /\ IsSeq(SubSeq(s, k + 1, Len(s))) /\ Len(SubSeq(s, k + 1, Len(s))) = Len(s) - k
            /\ \A i \in DOMAIN SubSeq(s, k + 1, Len(s)) :
                  \E j \in DOMAIN s : SubSeq(s, k + 1, Len(s))[i] = s[j]
          BY <1>0, <3>1, SubSeqFacts
      <4> QED BY <3>1, <4>1
    <3>3. Len(r) \in Nat /\ next'[g] = 1
        BY <3>1, <3>2, SeqFacts
    <3>4. next'[g] \in 1..(Len(r) + 1)
        BY <3>3
    <3> QED BY <3>2, <3>4
  <2> QED BY <2>1, <2>2
<1>6. ASSUME NEW h \in Ingestors, Dispatch(h) PROVE Goal
  <2>1. r = s /\ (next'[g] = next[g] \/ (next[g] <= Len(s) /\ next'[g] = next[g] + 1))
      BY <1>0, <1>6 DEF Dispatch
  <2> QED BY <1>0, <2>1
<1>7. CASE UNCHANGED <<inbox, next>>
    BY <1>1, <1>7
<1>8. ASSUME NEW p, \/ EnsureNode(p) \/ EnsureConflict(p) \/ ReadRow(p) \/ Abort(p)
                    \/ upsert_params_shadow(p) \/ upsert_node_config(p) \/ UpsertConflict(p)
      PROVE UNCHANGED <<inbox, next>>
    BY <1>8 DEF EnsureNode, EnsureConflict, ReadRow, upsert_params_shadow,
                upsert_node_config, UpsertConflict, Abort
<1>9. ASSUME NEW p, NEW m, HttpsReport(p, m) PROVE UNCHANGED <<inbox, next>>
    BY <1>9 DEF HttpsReport
<1> HIDE DEF Goal
<1>10. CASE \E m : \E h \in Ingestors : m.node \in Nodes /\ DevicePublish(m, h)
    BY <1>2, <1>10 DEF Goal
<1>11. CASE \E h \in Ingestors : \E k \in 0..Len(inbox[h]) : Crash(h, k)
    BY <1>5, <1>11 DEF Goal
<1>12. CASE \E m : \E w \in Workers : m.node \in Nodes /\ HttpsReport(w, m)
    BY <1>7, <1>9, <1>12 DEF Goal
<1>13. CASE \E h \in Ingestors : Acknowledge(h) \/ Reconnect(h) \/ Dispatch(h)
    BY <1>3, <1>4, <1>6, <1>13 DEF Goal
<1>14. CASE UNCHANGED vars
    BY <1>7, <1>14 DEF Goal, vars
<1>15. CASE \E p : \/ EnsureNode(p) \/ EnsureConflict(p) \/ ReadRow(p) \/ Abort(p)
                   \/ upsert_params_shadow(p) \/ upsert_node_config(p) \/ UpsertConflict(p)
    BY <1>7, <1>8, <1>15 DEF Goal
<1> QED BY <1>10, <1>11, <1>12, <1>13, <1>14, <1>15 DEF AnyStep

\* Every step keeps the shape of the processes and the lists.
LEMMA ShapedStep ==
    ASSUME Shaped, AnyStep
    PROVE  Shaped'
<1>1. DOMAIN reported' = Nodes /\ \A n \in Nodes : IsSeq(reported'[n])
    BY AnyGrows
<1>2. DOMAIN req' = Procs
  <2>1. CASE Procs = {}
      BY <2>1 DEF AnyStep, DevicePublish, Acknowledge, Shaped, Procs, vars
  <2> QED BY <2>1, AnyTakes
<1>3. ASSUME NEW p \in Procs
      PROVE \/ req'[p] = Idle
            \/ /\ req'[p].pc \in {"ensure", "read"}
               /\ req'[p] = [pc |-> req'[p].pc, msg |-> req'[p].msg]
            \/ req'[p] = [pc |-> "write", msg |-> req'[p].msg, base |-> req'[p].base]
  <2>0. p \in DOMAIN req
      BY DEF Shaped
  <2>1. CASE req'[p] = req[p] \/ req'[p] = Idle
      BY <2>1 DEF Shaped
  <2>2. ASSUME p \in Ingestors, Dispatch(p)
        PROVE req'[p].pc \in {"ensure", "read"} /\ req'[p] = [pc |-> req'[p].pc, msg |-> req'[p].msg]
    <3> DEFINE b == EnsureBranch(inbox[p][next[p]].node)
               m == inbox[p][next[p]]
    <3>1. req'[p] = [pc |-> b, msg |-> m] /\ b \in {"ensure", "read"}
        BY <2>0, <2>2 DEF Dispatch, EnsureBranch
    <3> HIDE DEF b, m
    <3> QED BY <3>1
  <2>3. ASSUME p \in Ingestors, EnsureNode(p)
        PROVE req'[p].pc = "read" /\ req'[p] = [pc |-> req'[p].pc, msg |-> req'[p].msg]
    <3> DEFINE m == req[p].msg
    <3>1. req'[p] = [pc |-> "read", msg |-> m]
        BY <2>3, EnsureKeeps
    <3> HIDE DEF m
    <3> QED BY <3>1
  <2>4. ASSUME ReadRow(p)
        PROVE req'[p] = [pc |-> "write", msg |-> req'[p].msg, base |-> req'[p].base]
    <3> DEFINE m == req[p].msg
               b == RowOf(TableFor(m), m.node)
    <3>1. req'[p] = [pc |-> "write", msg |-> m, base |-> b]
        BY <2>0, <2>4 DEF ReadRow
    <3> HIDE DEF b, m
    <3> QED BY <3>1
  <2>5. ASSUME NEW m, HttpsReport(p, m)
        PROVE req'[p].pc = "read" /\ req'[p] = [pc |-> req'[p].pc, msg |-> req'[p].msg]
    <3>1. req'[p] = [pc |-> "read", msg |-> m]
        BY <2>0, <2>5 DEF HttpsReport
    <3> QED BY <3>1
  <2> QED BY <2>1, <2>2, <2>3, <2>4, <2>5, AnyTakes DEF Takes
<1>4. DOMAIN inbox' = Ingestors /\ DOMAIN next' = Ingestors
    BY DEF AnyStep, DevicePublish, HttpsReport, Acknowledge, Reconnect, Crash, Dispatch,
           EnsureNode, EnsureConflict, ReadRow, upsert_params_shadow, upsert_node_config,
           UpsertConflict, Abort, vars, Shaped
<1>5. \A g \in Ingestors : IsSeq(inbox'[g]) /\ next'[g] \in 1..(Len(inbox'[g]) + 1)
    BY InboxStep
<1> QED BY <1>1, <1>2, <1>3, <1>4, <1>5 DEF Shaped

\* The message a process has in hand after a step, and where it comes from.
LEMMA HandStep ==
    ASSUME ReportedInv, AnyStep, NEW p \in Procs, req'[p].pc # "idle"
    PROVE  Told(req[p].msg)'
<1>0. Shaped /\ FromReports /\ Grows /\ p \in DOMAIN req
    BY AnyGrows DEF ReportedInv, Shaped
<1> DEFINE m == req'[p].msg
<1> SUFFICES m.node \in Nodes /\ ToldIn(reported'[m.node], m)
    BY DEF Told
<1>1. CASE Told(m)
  <2> HIDE DEF m
  <2> QED BY <1>0, <1>1, ToldStays
<1>2. CASE req'[p] = req[p]
    BY <1>0, <1>1, <1>2 DEF FromReports
<1>3. CASE req'[p] = Idle
    BY <1>3 DEF Idle
<1>4. CASE p \in Ingestors /\ Dispatch(p)
  <2>1. m = inbox[p][next[p]] /\ next[p] \in DOMAIN inbox[p]
    <3>1. /\ next[p] \in 1..(Len(inbox[p]) + 1) /\ next[p] <= Len(inbox[p])
          /\ Len(inbox[p]) \in Nat /\ DOMAIN inbox[p] = 1..Len(inbox[p])
        BY <1>0, <1>4, SeqFacts DEF Shaped, Dispatch
    <3> QED BY <1>0, <1>4, <3>1 DEF Dispatch
  <2> QED BY <1>0, <1>1, <1>4, <2>1 DEF FromReports
<1>5. CASE p \in Ingestors /\ EnsureNode(p)
  <2>1. m = req[p].msg /\ req[p].pc # "idle"
      BY <1>0, <1>5, EnsureKeeps DEF EnsureNode
  <2> QED BY <1>0, <1>1, <2>1 DEF FromReports
<1>6. CASE ReadRow(p)
  <2>1. m = req[p].msg /\ req[p].pc # "idle"
      BY <1>0, <1>6 DEF ReadRow
  <2> QED BY <1>0, <1>1, <2>1 DEF FromReports
<1>7. ASSUME NEW x, x.node \in Nodes, HttpsReport(p, x)
      PROVE m.node \in Nodes /\ ToldIn(reported'[m.node], m)
  <2>1. m = x /\ Report(x)
      BY <1>0, <1>7 DEF HttpsReport
  <2>2. Told(x)'
      BY <1>0, <1>7, <2>1, ReportGrows
  <2> QED BY <2>1, <2>2 DEF Told
<1> QED BY <1>0, <1>2, <1>3, <1>4, <1>5, <1>6, <1>7, AnyTakes DEF Takes

\* A row a process has read was made of reports.
LEMMA BaseStep ==
    ASSUME ReportedInv, AnyStep, NEW p \in Procs, req'[p].pc = "write",
           req'[p].msg.topic = "params", NEW b \in req'[p].base
    PROVE  Own(reported'[req'[p].msg.node], b)
<1>0. Shaped /\ FromReports /\ Grows /\ p \in DOMAIN req
    BY AnyGrows DEF ReportedInv, Shaped
<1>1. CASE req'[p] = req[p]
  <2>1. Own(reported[req[p].msg.node], b) /\ req[p].msg.node \in Nodes
      BY <1>0, <1>1 DEF FromReports, Told
  <2> QED BY <1>0, <1>1, <2>1, OwnStays
<1>2. CASE ReadRow(p)
  <2> DEFINE n == req[p].msg.node
  <2>1. /\ req'[p].msg = req[p].msg /\ req'[p].base = RowOf(TableFor(req[p].msg), n)
        /\ UNCHANGED reported
      BY <1>0, <1>2 DEF ReadRow
  <2>2. n \in DOMAIN shadow /\ b = shadow[n]
      BY <2>1 DEF TableFor, RowOf
  <2> QED BY <1>0, <2>1, <2>2 DEF FromReports
<1>3. req'[p] # Idle
    BY DEF Idle
<1>4. ASSUME p \in Ingestors, Dispatch(p) PROVE FALSE
  <2>1. req'[p].pc = EnsureBranch(inbox[p][next[p]].node)
      BY <1>0, <1>4 DEF Dispatch
  <2> QED BY <2>1 DEF EnsureBranch
<1>5. ASSUME p \in Ingestors, EnsureNode(p) PROVE FALSE
  <2>1. req'[p] = [pc |-> "read", msg |-> req[p].msg]
      BY <1>0, <1>5, EnsureKeeps
  <2> DEFINE m == req[p].msg
  <2> HIDE DEF m
  <2>2. req'[p] = [pc |-> "read", msg |-> m]
      BY <2>1 DEF m
  <2> QED BY <2>2
<1>6. ASSUME NEW m, HttpsReport(p, m) PROVE FALSE
    BY <1>0, <1>6 DEF HttpsReport
<1> QED BY <1>0, <1>1, <1>2, <1>3, <1>4, <1>5, <1>6, AnyTakes DEF Takes

\* A merge of what a node reported is made of what it reported.
LEMMA OwnMerge ==
    ASSUME NEW reports, NEW b, NEW u, Own(reports, b), Own(reports, u)
    PROVE  Own(reports, MergeParams(b, u))
<1> SUFFICES ASSUME NEW d, NEW p, NEW v \in At(MergeParams(b, u), d, p)
             PROVE \E j \in DOMAIN reports : /\ reports[j].topic = "params"
                                             /\ v \in At(reports[j].body, d, p)
    BY DEF Own
<1>1. At(MergeParams(b, u), d, p) = IF Speaks(u, d, p) THEN At(u, d, p) ELSE At(b, d, p)
    BY MergeShowsReport
<1>2. v \in At(u, d, p) \/ v \in At(b, d, p)
    BY <1>1
<1> QED BY <1>2 DEF Own

\* What the commit of a params report does to the table.
LEMMA UpsertCases ==
    ASSUME NEW p, upsert_params_shadow(p)
    PROVE  LET m == req[p].msg IN
           /\ req[p].pc = "write" /\ m.topic = "params"
           /\ \/ req[p].base = {} /\ shadow' = Override(shadow, [n \in {m.node} |-> m.body])
              \/ \E b \in req[p].base :
                    \/ shadow' = shadow /\ MergeParams(b, m.body) = b
                    \/ shadow' = Override(shadow, [n \in {m.node} |-> MergeParams(b, m.body)])
<1> DEFINE m == req[p].msg
           b == CHOOSE x \in req[p].base : TRUE
<1>1. CASE req[p].base = {}
  <2>1. req[p].pc = "write" /\ m.topic = "params"
      BY DEF upsert_params_shadow
  <2>2. shadow' = Override(shadow, [n \in {m.node} |-> m.body])
      BY <1>1 DEF upsert_params_shadow
  <2> QED BY <1>1, <2>1, <2>2
<1>2. CASE req[p].base # {}
  <2>1. b \in req[p].base
      BY <1>2
  <2>2. \/ shadow' = shadow /\ MergeParams(b, m.body) = b
        \/ shadow' = Override(shadow, [n \in {m.node} |-> MergeParams(b, m.body)])
      BY <1>2 DEF upsert_params_shadow
  <2>3. req[p].pc = "write" /\ m.topic = "params"
      BY DEF upsert_params_shadow
  <2> HIDE DEF b
  <2> QED BY <2>1, <2>2, <2>3
<1> QED BY <1>1, <1>2

\* Every row of the shadow is made of what its node reported.
LEMMA ShadowStep ==
    ASSUME ReportedInv, AnyStep, NEW n \in DOMAIN shadow'
    PROVE  n \in Nodes /\ Own(reported'[n], shadow'[n])
<1>0. Shaped /\ FromReports /\ Grows
    BY AnyGrows DEF ReportedInv
<1>1. CASE n \in DOMAIN shadow /\ shadow'[n] = shadow[n]
  <2>1. n \in Nodes /\ Own(reported[n], shadow[n])
      BY <1>0, <1>1 DEF FromReports
  <2> QED BY <1>0, <1>1, <2>1, OwnStays
<1>2. ASSUME NEW p \in Procs, upsert_params_shadow(p)
      PROVE n \in Nodes /\ Own(reported'[n], shadow'[n])
  <2> DEFINE m == req[p].msg
  <2>1. /\ req[p].pc = "write" /\ m.topic = "params"
        /\ \/ req[p].base = {} /\ shadow' = Override(shadow, [k \in {m.node} |-> m.body])
           \/ \E b \in req[p].base :
                 \/ shadow' = shadow
                 \/ shadow' = Override(shadow, [k \in {m.node} |-> MergeParams(b, m.body)])
      BY <1>2, UpsertCases
  <2>2. m.node \in Nodes /\ ToldIn(reported[m.node], m)
      BY <1>0, <2>1 DEF FromReports, Told
  <2>3. Own(reported[m.node], m.body)
      BY <2>1, <2>2 DEF ToldIn, Own
  <2>4. \A b \in req[p].base : Own(reported[m.node], b)
      BY <1>0, <2>1 DEF FromReports
  <2>5. ASSUME NEW x, Own(reported[m.node], x),
               shadow' = Override(shadow, [k \in {m.node} |-> x])
        PROVE n \in Nodes /\ Own(reported'[n], shadow'[n])
    <3> HIDE DEF m
    <3>1. /\ DOMAIN shadow' = DOMAIN shadow \cup {m.node}
          /\ shadow'[m.node] = x
          /\ \A k \in DOMAIN shadow : k # m.node => shadow'[k] = shadow[k]
        BY <2>5 DEF Override
    <3>2. CASE n = m.node
      <4>1. Own(reported'[m.node], x)
          BY <1>0, <2>2, <2>5, OwnStays
      <4> QED BY <2>2, <3>1, <3>2, <4>1
    <3>3. CASE n # m.node
        BY <1>1, <3>1, <3>3
    <3> QED BY <3>2, <3>3
  <2>6. \A b \in req[p].base : Own(reported[m.node], MergeParams(b, m.body))
      BY <2>3, <2>4, OwnMerge
  <2> HIDE DEF m
  <2> QED BY <1>1, <2>1, <2>3, <2>5, <2>6
<1>3. ASSUME NEW p, NEW m, HttpsReport(p, m) \/ DevicePublish(m, p)
      PROVE UNCHANGED shadow
    BY <1>3 DEF HttpsReport, DevicePublish
<1>4. ASSUME NEW p, \/ Acknowledge(p) \/ Reconnect(p) \/ Dispatch(p) \/ EnsureNode(p)
                    \/ EnsureConflict(p) \/ ReadRow(p) \/ upsert_node_config(p)
                    \/ UpsertConflict(p) \/ Abort(p) \/ \E k : Crash(p, k)
      PROVE UNCHANGED shadow
    BY <1>4 DEF Acknowledge, Reconnect, Dispatch, EnsureNode, EnsureConflict, ReadRow,
                upsert_node_config, UpsertConflict, Abort, Crash
<1>5. (\E p \in Procs : upsert_params_shadow(p)) \/ UNCHANGED shadow
    BY <1>3, <1>4 DEF AnyStep, vars
<1> QED BY <1>1, <1>2, <1>5

\* Every step preserves that nothing is made up.
LEMMA ReportedStep ==
    ASSUME ReportedInv, AnyStep
    PROVE  ReportedInv'
<1>0. Shaped /\ FromReports /\ Grows
    BY AnyGrows DEF ReportedInv
<1>1. Shaped'
    BY <1>0, ShapedStep
<1>2. ASSUME NEW g \in Ingestors, NEW i \in DOMAIN inbox'[g]
      PROVE Told(inbox[g][i])'
  <2>1. CASE \E j \in DOMAIN inbox[g] : inbox'[g][i] = inbox[g][j]
    <3>1. Told(inbox'[g][i])
        BY <1>0, <2>1 DEF FromReports
    <3>2. inbox'[g][i].node \in Nodes /\ ToldIn(reported'[inbox'[g][i].node], inbox'[g][i])
        BY <1>0, <3>1, ToldStays
    <3> QED BY <3>2 DEF Told
  <2>2. ASSUME NEW m, NEW h, m.node \in Nodes, DevicePublish(m, h), inbox'[g][i] = m
        PROVE Told(inbox[g][i])'
    <3>1. Told(m)'
        BY <1>0, <2>2, ReportGrows DEF DevicePublish
    <3> QED BY <2>2, <3>1 DEF Told
  <2> QED BY <1>0, <2>1, <2>2, InboxStep
<1>3. FromReports'
    BY <1>2, HandStep, BaseStep, ShadowStep DEF FromReports
<1> QED BY <1>1, <1>3 DEF ReportedInv

\* Whatever is lost, repeated or overtaken between any number of replicas and
\* HTTPS requests, the shadow of a node holds only values that node itself
\* has reported (_merge_params and upsert_params_shadow, services/node.py).
THEOREM ShadowIsReported == Spec => []ShadowReported
<1>1. ReportedInv => ShadowReported
  <2> SUFFICES ASSUME ReportedInv, NEW n \in DOMAIN shadow, NEW d \in DOMAIN shadow[n],
                      NEW p \in ParamNames, NEW v \in At(shadow[n], d, p)
               PROVE v \in UNION {At(Said(n, "params")[i], d, p) :
                                    i \in DOMAIN Said(n, "params")}
      BY DEF ShadowReported
  <2>1. PICK j \in DOMAIN reported[n] : /\ reported[n][j].topic = "params"
                                        /\ v \in At(reported[n][j].body, d, p)
      BY DEF ReportedInv, FromReports, Own
  <2>2. j \in DOMAIN Said(n, "params") /\ Said(n, "params")[j] = reported[n][j].body
      BY <2>1 DEF Said
  <2> QED BY <2>1, <2>2
<1>2. ReportedInv /\ [Next]_vars => ReportedInv'
    BY NextAny, ReportedStep
<1> QED BY <1>1, <1>2, ReportedInit, PTL DEF Spec

-----------------------------------------------------------------------------
(* One replica: what the stored state says of a node, question by          *)
(* question.  A question q is about the config of a node, about whether it *)
(* has a shadow, about what a device is, or about a param.                 *)

IsQuestion(q) ==
    q.node \in Nodes /\ q.kind \in {"config", "row", "device", "param"}

\* The messages that answer a question.
Relevant(q, m) ==
    /\ m.node = q.node
    /\ \/ q.kind = "config" /\ m.topic = "config"
       \/ q.kind = "row" /\ m.topic = "params"
       \/ q.kind = "device" /\ m.topic = "params" /\ q.device \in DOMAIN m.body
       \/ q.kind = "param" /\ m.topic = "params" /\ Speaks(m.body, q.device, q.param)

\* The answer of a document, of a message, and of the stored state: a set of
\* at most one element.
DocSays(q, doc) ==
    IF q.kind = "device" THEN Kind(doc, q.device) ELSE At(doc, q.device, q.param)

Tells(q, m) ==
    CASE q.kind = "config" -> {m.body}
      [] q.kind = "row"    -> {TRUE}
      [] OTHER             -> DocSays(q, m.body)

Shown(q) ==
    CASE q.kind = "config" -> RowOf(configs, q.node)
      [] q.kind = "row"    -> {TRUE : n \in {q.node} \cap DOMAIN shadow}
      [] OTHER             -> DocSays(q, get_user_node_params(q.node))

\* The last message of a list that answers the question, and its answer.
LastIn(s, q, i) ==
    /\ i \in DOMAIN s /\ Relevant(q, s[i])
    /\ \A j \in DOMAIN s : Relevant(q, s[j]) => j <= i

Says(s, q, v) ==
    \/ v = {} /\ \A j \in DOMAIN s : ~Relevant(q, s[j])
    \/ \E j \in DOMAIN s : LastIn(s, q, j) /\ v = Tells(q, s[j])

\* The replica has a message that answers the question in hand, or one yet
\* to come.
InHand(g, q) == req[g].pc # "idle" /\ Relevant(q, req[g].msg)

Ahead(g, q) ==
    \E i \in DOMAIN inbox[g] : i >= next[g] /\ Relevant(q, inbox[g][i])

\* The last answer among the messages the broker holds is the last one the
\* node gave; so is the one in hand, when none is to come; so is what is
\* stored, when none is in hand either.
InboxLatest(g, q) ==
    \A i \in DOMAIN inbox[g] : LastIn(inbox[g], q, i) =>
        Says(reported[q.node], q, Tells(q, inbox[g][i]))

HandLatest(g, q) ==
    (InHand(g, q) /\ ~Ahead(g, q)) =>
        Says(reported[q.node], q, Tells(q, req[g].msg))

StoreLatest(g, q) ==
    (~InHand(g, q) /\ ~Ahead(g, q)) => Says(reported[q.node], q, Shown(q))

\* The device is in the state it has reported.
DeviceLatest(q) ==
    q.kind \in {"device", "param"} =>
        Says(reported[q.node], q, DocSays(q, actual[q.node]))

AnswerInv(g, q) ==
    InboxLatest(g, q) /\ HandLatest(g, q) /\ StoreLatest(g, q) /\ DeviceLatest(q)

\* What the only process relies on: nobody else writes between its steps.
AloneInv(g) ==
    /\ req[g].pc = "ensure" => req[g].msg.node \notin nodes
    /\ req[g].pc \in {"read", "write"} => req[g].msg.node \in nodes
    /\ req[g].pc = "write" => req[g].base = RowOf(TableFor(req[g].msg), req[g].msg.node)

\* A message has a document or a config in it; so has everything reported,
\* stored, or on its way to a device.
Sane(m) ==
    \/ m.topic = "params" /\ IsDoc(m.body)
    \/ m.topic = "config" /\ m.body \in Configs

ReportsSane ==
    \A n \in Nodes : \A j \in DOMAIN reported[n] :
        reported[n][j].node = n /\ Sane(reported[n][j])

ShadowDocs == \A n \in DOMAIN shadow : IsDoc(shadow[n])

ConfigsTold ==
    \A n \in DOMAIN configs : n \in Nodes /\ \E j \in DOMAIN reported[n] :
        reported[n][j].topic = "config" /\ reported[n][j].body = configs[n]

DeviceDocs ==
    /\ DOMAIN actual = Nodes /\ DOMAIN downlink = Nodes /\ DOMAIN put = Phones
    /\ \A n \in Nodes : IsDoc(actual[n]) /\ IsSeq(downlink[n])
    /\ \A n \in Nodes : \A j \in DOMAIN downlink[n] : IsDoc(downlink[n][j])
    /\ \A f \in Phones : put[f].pc # "idle" => put[f].node \in Nodes /\ IsDoc(put[f].body)

ContentInv == ReportsSane /\ ShadowDocs /\ ConfigsTold /\ DeviceDocs

ReplicaInv(g) ==
    /\ ReportedInv /\ AloneInv(g) /\ ContentInv
    /\ \A q : IsQuestion(q) => AnswerInv(g, q)

\* A message added to a list gives the last answer to the questions it is
\* about and changes no other.
LEMMA SaysAppend ==
    ASSUME NEW s, IsSeq(s), NEW q, NEW m
    PROVE  /\ Relevant(q, m) => Says(Append(s, m), q, Tells(q, m))
           /\ \A v : (~Relevant(q, m) /\ Says(s, q, v)) => Says(Append(s, m), q, v)
<1> DEFINE t == Append(s, m)
<1>0. Len(s) \in Nat /\ DOMAIN s = 1..Len(s)
    BY SeqFacts
<1>1. /\ DOMAIN t = 1..(Len(s) + 1) /\ t[Len(s) + 1] = m
      /\ \A i \in 1..Len(s) : t[i] = s[i]
    BY AppendFacts
<1> HIDE DEF t
<1>2. Len(s) + 1 \in DOMAIN t /\ \A j \in DOMAIN t : j <= Len(s) + 1
    BY <1>0, <1>1
<1>3. \A i \in DOMAIN t : i = Len(s) + 1 \/ i \in DOMAIN s
    BY <1>0, <1>1
<1>4. \A i \in DOMAIN s : i \in DOMAIN t /\ t[i] = s[i]
    BY <1>0, <1>1
<1>5. ASSUME Relevant(q, m) PROVE Says(t, q, Tells(q, m))
  <2>1. LastIn(t, q, Len(s) + 1)
      BY <1>1, <1>2, <1>5 DEF LastIn
  <2> QED BY <1>1, <1>2, <2>1 DEF Says
<1>6. ASSUME ~Relevant(q, m), NEW v, Says(s, q, v) PROVE Says(t, q, v)
  <2>1. \A j \in DOMAIN t : Relevant(q, t[j]) => j \in DOMAIN s /\ Relevant(q, s[j])
      BY <1>1, <1>3, <1>4, <1>6
  <2>2. CASE v = {} /\ \A j \in DOMAIN s : ~Relevant(q, s[j])
      BY <2>1, <2>2 DEF Says
  <2>3. ASSUME NEW j \in DOMAIN s, LastIn(s, q, j), v = Tells(q, s[j]) PROVE Says(t, q, v)
    <3>1. LastIn(t, q, j) /\ t[j] = s[j]
        BY <1>4, <2>1, <2>3 DEF LastIn
    <3> QED BY <1>4, <2>3, <3>1 DEF Says
  <2> QED BY <1>6, <2>2, <2>3 DEF Says
<1> QED BY <1>5, <1>6 DEF t

\* The last answer in the longer list is the new message, if it is one,
LEMMA LastIsNew ==
    ASSUME NEW s, NEW m, NEW q, NEW i, IsSeq(s), LastIn(Append(s, m), q, i), Relevant(q, m)
    PROVE  Append(s, m)[i] = m
<1> DEFINE t == Append(s, m)
<1>0. Len(s) \in Nat /\ LastIn(t, q, i)
    BY SeqFacts
<1>1. DOMAIN t = 1..(Len(s) + 1) /\ t[Len(s) + 1] = m
    BY AppendFacts
<1> HIDE DEF t
<1>2. i \in DOMAIN t /\ Len(s) + 1 <= i
    BY <1>0, <1>1 DEF LastIn
<1>3. i = Len(s) + 1
    BY <1>0, <1>1, <1>2
<1> QED BY <1>1, <1>3 DEF t

\* and otherwise the one that was the last.
LEMMA LastWasThere ==
    ASSUME NEW s, NEW m, NEW q, NEW i, IsSeq(s), LastIn(Append(s, m), q, i), ~Relevant(q, m)
    PROVE  LastIn(s, q, i) /\ Append(s, m)[i] = s[i]
<1> DEFINE t == Append(s, m)
<1>0. Len(s) \in Nat /\ DOMAIN s = 1..Len(s) /\ LastIn(t, q, i)
    BY SeqFacts
<1>1. /\ DOMAIN t = 1..(Len(s) + 1) /\ t[Len(s) + 1] = m
      /\ \A j \in 1..Len(s) : t[j] = s[j]
    BY AppendFacts
<1> HIDE DEF t
<1>2. \A j \in DOMAIN t : j = Len(s) + 1 \/ j \in DOMAIN s
    BY <1>0, <1>1
<1>3. \A j \in DOMAIN s : j \in DOMAIN t /\ t[j] = s[j]
    BY <1>0, <1>1
<1>4. LastIn(s, q, i) /\ t[i] = s[i]
    BY <1>0, <1>1, <1>2, <1>3 DEF LastIn
<1> QED BY <1>4 DEF t

\* The last answer stays the last when the message at the head goes.
LEMMA LastTail ==
    ASSUME NEW s, IsSeq(s), Len(s) > 0, NEW q, NEW i, LastIn(Tail(s), q, i)
    PROVE  i + 1 \in DOMAIN s /\ LastIn(s, q, i + 1) /\ Tail(s)[i] = s[i + 1]
<1> DEFINE t == Tail(s)
<1>0. Len(s) \in Nat /\ DOMAIN s = 1..Len(s)
    BY SeqFacts
<1>1. DOMAIN t = 1..(Len(s) - 1) /\ \A j \in 1..(Len(s) - 1) : t[j] = s[j + 1]
    BY TailFacts
<1>2. LastIn(t, q, i)
    OBVIOUS
<1> HIDE DEF t
<1>3. i \in 1..(Len(s) - 1) /\ i + 1 \in DOMAIN s /\ t[i] = s[i + 1]
    BY <1>0, <1>1, <1>2 DEF LastIn
<1>4. ASSUME NEW j \in DOMAIN s, Relevant(q, s[j]) PROVE j <= i + 1
  <2>1. CASE j = 1
      BY <1>3, <2>1
  <2>2. CASE j # 1
    <3>1. j - 1 \in DOMAIN t /\ t[j - 1] = s[j]
        BY <1>0, <1>1, <2>2
    <3>2. j - 1 <= i
        BY <1>2, <1>4, <3>1 DEF LastIn
    <3> QED BY <1>0, <1>3, <3>2
  <2> QED BY <2>1, <2>2
<1>5. Relevant(q, s[i + 1])
    BY <1>2, <1>3 DEF LastIn
<1> QED BY <1>3, <1>4, <1>5 DEF LastIn, t

\* A list gives one last answer.
LEMMA SaysOne ==
    ASSUME NEW s, IsSeq(s), NEW q, NEW v, NEW w, Says(s, q, v), Says(s, q, w)
    PROVE  v = w
<1>0. Len(s) \in Nat /\ DOMAIN s = 1..Len(s)
    BY SeqFacts
<1>1. \A i, j \in DOMAIN s : (LastIn(s, q, i) /\ LastIn(s, q, j)) => i = j
    BY <1>0 DEF LastIn
<1> QED BY <1>1 DEF Says, LastIn

-----------------------------------------------------------------------------
(* The broker's steps.                                                     *)

\* A report that answers a question is ahead of the replica, any other
\* changes nothing about it.
LEMMA PublishAnswers ==
    ASSUME NEW g \in Ingestors, Shaped, NEW q, IsQuestion(q), AnswerInv(g, q),
           NEW m, m.node \in Nodes, DevicePublish(m, g)
    PROVE  InboxLatest(g, q)' /\ HandLatest(g, q)' /\ StoreLatest(g, q)'
<1> DEFINE s == inbox[g]
           n == q.node
<1>1. /\ inbox'[g] = Append(s, m) /\ UNCHANGED <<next, req, configs, shadow>>
      /\ IsSeq(s) /\ next[g] \in 1..(Len(s) + 1)
    BY DEF DevicePublish, Shaped
<1>2. n \in Nodes /\ IsSeq(reported[n])
    BY DEF IsQuestion, Shaped
<1>3. reported'[n] = IF m.node = n THEN Append(reported[n], m) ELSE reported[n]
    BY <1>2, ReportGrows DEF DevicePublish
<1>4. Shown(q)' = Shown(q) /\ InHand(g, q)' = InHand(g, q)
    BY <1>1 DEF Shown, get_user_node_params, InHand
<1>5. /\ Len(s) \in Nat /\ DOMAIN s = 1..Len(s)
      /\ DOMAIN inbox'[g] = 1..(Len(s) + 1)
      /\ \A i \in 1..Len(s) : inbox'[g][i] = s[i]
      /\ inbox'[g][Len(s) + 1] = m
    BY <1>1, SeqFacts, AppendFacts
<1>6. CASE Relevant(q, m)
  <2>1. Says(reported'[n], q, Tells(q, m))
      BY <1>2, <1>3, <1>6, SaysAppend DEF Relevant
  <2>2. InboxLatest(g, q)'
    <3>1. ASSUME NEW i, LastIn(inbox'[g], q, i) PROVE inbox'[g][i] = m
      <4>1. IsSeq(s) /\ LastIn(Append(s, m), q, i) /\ Relevant(q, m)
          BY <1>1, <1>6, <3>1
      <4> HIDE DEF s
      <4>2. Append(s, m)[i] = m
          BY ONLY <4>1, LastIsNew
      <4> QED BY <1>1, <4>2
    <3> QED BY <2>1, <3>1 DEF InboxLatest
  <2>3. Ahead(g, q)'
    <3>1. Len(s) + 1 \in DOMAIN inbox'[g] /\ Len(s) + 1 >= next'[g]
        BY <1>1, <1>5
    <3> QED BY <1>5, <1>6, <3>1 DEF Ahead
  <2> QED BY <2>2, <2>3 DEF HandLatest, StoreLatest
<1>7. CASE ~Relevant(q, m)
  <2>1. ASSUME NEW v, Says(reported[n], q, v) PROVE Says(reported'[n], q, v)
      BY <1>2, <1>3, <1>7, <2>1, SaysAppend
  <2>2. InboxLatest(g, q)'
    <3>1. ASSUME NEW i, LastIn(inbox'[g], q, i) PROVE LastIn(s, q, i) /\ inbox'[g][i] = s[i]
      <4>1. IsSeq(s) /\ LastIn(Append(s, m), q, i) /\ ~Relevant(q, m)
          BY <1>1, <1>7, <3>1
      <4> HIDE DEF s
      <4>2. LastIn(s, q, i) /\ Append(s, m)[i] = s[i]
          BY ONLY <4>1, LastWasThere
      <4> QED BY <1>1, <4>2
    <3>2. \A i : LastIn(s, q, i) => Says(reported[n], q, Tells(q, s[i]))
        BY DEF AnswerInv, InboxLatest, LastIn
    <3> QED BY <2>1, <3>1, <3>2 DEF InboxLatest
  <2>3. Ahead(g, q) => Ahead(g, q)'
    <3>1. \A i \in DOMAIN s : i \in DOMAIN inbox'[g] /\ inbox'[g][i] = s[i]
        BY <1>5
    <3> QED BY <1>1, <3>1 DEF Ahead
  <2>4. HandLatest(g, q)'
      BY <1>1, <1>4, <2>1, <2>3 DEF AnswerInv, HandLatest
  <2>5. StoreLatest(g, q)'
      BY <1>4, <2>1, <2>3 DEF AnswerInv, StoreLatest
  <2> QED BY <2>2, <2>4, <2>5
<1> QED BY <1>6, <1>7

\* An acknowledged message is behind the replica.
LEMMA AcknowledgeAnswers ==
    ASSUME NEW g \in Ingestors, Shaped, NEW q, AnswerInv(g, q), Acknowledge(g)
    PROVE  InboxLatest(g, q)' /\ HandLatest(g, q)' /\ StoreLatest(g, q)'
<1> DEFINE s == inbox[g]
<1>1. /\ inbox'[g] = Tail(s) /\ next'[g] = next[g] - 1 /\ next[g] > 1
      /\ UNCHANGED <<req, configs, shadow, reported>>
      /\ IsSeq(s) /\ next[g] \in 1..(Len(s) + 1)
    BY DEF Acknowledge, Shaped
<1>2. Len(s) \in Nat /\ DOMAIN s = 1..Len(s)
    BY <1>1, SeqFacts
<1>3. Len(s) > 0
    BY <1>1, <1>2
<1>4. /\ DOMAIN inbox'[g] = 1..(Len(s) - 1)
      /\ \A i \in 1..(Len(s) - 1) : inbox'[g][i] = s[i + 1]
  <2> HIDE DEF s
  <2> QED BY <1>1, <1>3, TailFacts
<1>5. Shown(q)' = Shown(q) /\ InHand(g, q)' = InHand(g, q)
    BY <1>1 DEF Shown, get_user_node_params, InHand
<1>6. InboxLatest(g, q)'
  <2>1. \A i : LastIn(inbox'[g], q, i) =>
                 i + 1 \in DOMAIN s /\ LastIn(s, q, i + 1) /\ inbox'[g][i] = s[i + 1]
    <3> HIDE DEF s
    <3> QED BY <1>1, <1>3, LastTail
  <2> QED BY <1>1, <2>1 DEF AnswerInv, InboxLatest
<1>7. Ahead(g, q) => Ahead(g, q)'
  <2> SUFFICES ASSUME NEW i \in DOMAIN s, i >= next[g], Relevant(q, s[i])
               PROVE \E j \in DOMAIN inbox'[g] : j >= next'[g] /\ Relevant(q, inbox'[g][j])
      BY DEF Ahead
  <2>1. i - 1 \in DOMAIN inbox'[g] /\ i - 1 >= next'[g] /\ inbox'[g][i - 1] = s[i]
      BY <1>1, <1>2, <1>4
  <2> QED BY <2>1
<1>8. HandLatest(g, q)' /\ StoreLatest(g, q)'
    BY <1>1, <1>5, <1>7 DEF AnswerInv, HandLatest, StoreLatest
<1> QED BY <1>6, <1>8

\* After a reconnect more is ahead, never less.
LEMMA ReconnectAnswers ==
    ASSUME NEW g \in Ingestors, Shaped, NEW q, AnswerInv(g, q), Reconnect(g)
    PROVE  InboxLatest(g, q)' /\ HandLatest(g, q)' /\ StoreLatest(g, q)'
<1>1. next'[g] = 1 /\ UNCHANGED <<req, configs, shadow, inbox, reported>>
    BY DEF Reconnect, Shaped
<1>2. Shown(q)' = Shown(q) /\ InHand(g, q)' = InHand(g, q)
    BY <1>1 DEF Shown, get_user_node_params, InHand
<1>3. Ahead(g, q) => Ahead(g, q)'
  <2>1. \A i \in DOMAIN inbox[g] : i >= 1
      BY SeqFacts DEF Shaped
  <2> QED BY <1>1, <2>1 DEF Ahead
<1> QED BY <1>1, <1>2, <1>3 DEF AnswerInv, InboxLatest, HandLatest, StoreLatest

-----------------------------------------------------------------------------
(* The replica's steps.                                                    *)

\* The message taken in hand is the last answer, if no other is ahead.
LEMMA DispatchAnswers ==
    ASSUME NEW g \in Ingestors, Shaped, NEW q, AnswerInv(g, q), Dispatch(g)
    PROVE  InboxLatest(g, q)' /\ HandLatest(g, q)' /\ StoreLatest(g, q)'
<1> DEFINE s == inbox[g]
           m == s[next[g]]
<1>1. /\ req[g].pc = "idle" /\ next[g] <= Len(s) /\ next'[g] = next[g] + 1
      /\ UNCHANGED <<inbox, configs, shadow, reported>>
      /\ IsSeq(s) /\ next[g] \in 1..(Len(s) + 1)
    BY DEF Dispatch, Shaped
<1>2. Len(s) \in Nat /\ DOMAIN s = 1..Len(s)
    BY <1>1, SeqFacts
<1>3. req'[g].pc # "idle" /\ req'[g].msg = m
  <2> DEFINE b == EnsureBranch(m.node)
  <2>1. b # "idle"
      BY DEF EnsureBranch
  <2>2. req'[g] = [pc |-> b, msg |-> m]
      BY DEF Dispatch, Shaped, Procs
  <2> HIDE DEF b, m
  <2> QED BY <2>1, <2>2
<1>4. Shown(q)' = Shown(q) /\ ~InHand(g, q) /\ (InHand(g, q)' <=> Relevant(q, m))
    BY <1>1, <1>3 DEF Shown, get_user_node_params, InHand
<1>5. InboxLatest(g, q)'
    BY <1>1 DEF AnswerInv, InboxLatest
<1>6. next[g] \in DOMAIN s
    BY <1>1, <1>2
<1>7. \A i \in DOMAIN s : i >= next[g] => i = next[g] \/ i >= next'[g]
    BY <1>1, <1>2
<1>8. CASE Relevant(q, m)
  <2>1. ASSUME ~Ahead(g, q)' PROVE Says(reported'[q.node], q, Tells(q, req'[g].msg))
    <3>1. \A i \in DOMAIN s : i >= next'[g] => ~Relevant(q, s[i])
        BY <1>1, <2>1 DEF Ahead
    <3>2. \A i \in DOMAIN s : Relevant(q, s[i]) => i <= next[g]
        BY <1>1, <1>2, <3>1
    <3>3. LastIn(s, q, next[g])
        BY <1>6, <1>8, <3>2 DEF LastIn
    <3> QED BY <1>1, <1>3, <1>6, <3>3 DEF AnswerInv, InboxLatest
  <2> QED BY <1>4, <1>5, <1>8, <2>1 DEF HandLatest, StoreLatest
<1>9. CASE ~Relevant(q, m)
  <2>1. Ahead(g, q) => Ahead(g, q)'
      BY <1>1, <1>7, <1>9 DEF Ahead
  <2> QED BY <1>1, <1>4, <1>5, <1>9, <2>1 DEF AnswerInv, HandLatest, StoreLatest
<1> QED BY <1>8, <1>9

\* A step that keeps the message in hand and writes neither table.
LEMMA KeepAnswers ==
    ASSUME NEW g \in Ingestors, NEW q, AnswerInv(g, q),
           UNCHANGED <<inbox, next, configs, shadow, reported>>,
           req'[g].pc = "idle" <=> req[g].pc = "idle",
           req[g].pc # "idle" => req'[g].msg = req[g].msg
    PROVE  InboxLatest(g, q)' /\ HandLatest(g, q)' /\ StoreLatest(g, q)'
<1>1. Shown(q)' = Shown(q) /\ (InHand(g, q)' <=> InHand(g, q)) /\ (Ahead(g, q)' <=> Ahead(g, q))
    BY DEF Shown, get_user_node_params, InHand, Ahead
<1> QED BY <1>1 DEF AnswerInv, InboxLatest, HandLatest, StoreLatest, InHand

\* A commit that stores the answers of the message in hand, and no others.
LEMMA CommitAnswers ==
    ASSUME NEW g \in Ingestors, NEW q, AnswerInv(g, q),
           UNCHANGED <<inbox, next, reported>>,
           req[g].pc # "idle", req'[g] = Idle,
           Relevant(q, req[g].msg) => Shown(q)' = Tells(q, req[g].msg),
           ~Relevant(q, req[g].msg) => Shown(q)' = Shown(q)
    PROVE  InboxLatest(g, q)' /\ HandLatest(g, q)' /\ StoreLatest(g, q)'
<1>1. ~InHand(g, q)' /\ (Ahead(g, q)' <=> Ahead(g, q))
    BY DEF InHand, Ahead, Idle
<1>2. InboxLatest(g, q)' /\ HandLatest(g, q)'
    BY <1>1 DEF AnswerInv, InboxLatest, HandLatest
<1>3. ASSUME ~Ahead(g, q) PROVE Says(reported[q.node], q, Shown(q)')
  <2>1. CASE Relevant(q, req[g].msg)
    <3>1. Says(reported[q.node], q, Tells(q, req[g].msg))
        BY <1>3, <2>1 DEF AnswerInv, HandLatest, InHand
    <3> QED BY <2>1, <3>1
  <2>2. CASE ~Relevant(q, req[g].msg)
    <3>1. Says(reported[q.node], q, Shown(q))
        BY <1>3, <2>2 DEF AnswerInv, StoreLatest, InHand
    <3> QED BY <2>2, <3>1
  <2> QED BY <2>1, <2>2
<1> QED BY <1>1, <1>2, <1>3 DEF StoreLatest

-----------------------------------------------------------------------------
(* Documents answer questions.                                             *)

\* Whether a document says anything about what a question asks.
Names(q, doc) ==
    IF q.kind = "device" THEN q.device \in DOMAIN doc ELSE Speaks(doc, q.device, q.param)

\* A document that says nothing has no answer.
LEMMA SilentDoc ==
    ASSUME NEW q, NEW doc, ~Names(q, doc)
    PROVE  DocSays(q, doc) = {}
BY DEF Names, DocSays, Kind, Speaks, At

\* The merge gives the answer of the report if it has one, otherwise the
\* answer there was.
LEMMA MergeSays ==
    ASSUME NEW q, NEW c, NEW u, IsDoc(c), IsDoc(u)
    PROVE  DocSays(q, MergeParams(c, u)) =
             IF Names(q, u) THEN DocSays(q, u) ELSE DocSays(q, c)
<1>1. CASE q.kind = "device"
  <2>1. Kind(MergeParams(c, u), q.device) =
          IF q.device \in DOMAIN u THEN Kind(u, q.device) ELSE Kind(c, q.device)
      BY MergeKind
  <2> QED BY <1>1, <2>1 DEF DocSays, Names
<1>2. CASE q.kind # "device"
  <2>1. At(MergeParams(c, u), q.device, q.param) =
          IF Speaks(u, q.device, q.param) THEN At(u, q.device, q.param)
          ELSE At(c, q.device, q.param)
      BY MergeShowsReport
  <2> QED BY <1>2, <2>1 DEF DocSays, Names
<1> QED BY <1>1, <1>2

\* What a document has an answer to, its merge with another speaks of.
LEMMA MergeNames ==
    ASSUME NEW q, NEW c, NEW u, ~Names(q, MergeParams(c, u))
    PROVE  DocSays(q, c) = {}
<1> DEFINE m == MergeParams(c, u)
           d == q.device
           p == q.param
<1>0. DOMAIN m = DOMAIN c \cup DOMAIN u
    BY MergeCases
<1>1. CASE q.kind = "device"
    BY <1>0, <1>1 DEF Names, DocSays, Kind
<1>2. CASE q.kind # "device" /\ d \notin DOMAIN c
    BY <1>2 DEF DocSays, At
<1>3. CASE q.kind # "device" /\ d \in DOMAIN c
  <2>0. ~Speaks(m, d, p)
      BY <1>3 DEF Names
  <2>1. \/ m[d] = c[d]
        \/ ~(c[d].isDict /\ u[d].isDict) /\ m[d] = u[d]
        \/ m[d] = Dict(Override(c[d].params, u[d].params))
    <3> HIDE DEF d
    <3>1. d \in DOMAIN c \cup DOMAIN u
        BY <1>3
    <3>2. \/ /\ d \notin DOMAIN u
             /\ m[d] = c[d]
          \/ /\ d \in DOMAIN u
             /\ ~(d \in DOMAIN c /\ c[d].isDict /\ u[d].isDict)
             /\ m[d] = u[d]
          \/ /\ d \in DOMAIN u /\ d \in DOMAIN c /\ c[d].isDict /\ u[d].isDict
             /\ m[d] = Dict(Override(c[d].params, u[d].params))
        BY <3>1, MergeCases
    <3> HIDE DEF m
    <3> QED BY <1>3, <3>2
  <2>2. m[d].isDict /\ p \notin DOMAIN m[d].params
    <3> HIDE DEF m
    <3>1. d \in DOMAIN m
        BY <1>0, <1>3
    <3> QED BY <2>0, <3>1 DEF Speaks
  <2>3. CASE m[d] = c[d]
      BY <1>3, <2>2, <2>3 DEF DocSays, At
  <2>4. CASE ~(c[d].isDict /\ u[d].isDict) /\ m[d] = u[d]
      BY <1>3, <2>2, <2>4 DEF DocSays, At
  <2>5. CASE m[d] = Dict(Override(c[d].params, u[d].params))
    <3>1. m[d].params = Override(c[d].params, u[d].params)
        BY <2>5, DictFields
    <3>2. p \notin DOMAIN c[d].params
        BY <2>2, <3>1 DEF Override
    <3> QED BY <1>3, <3>2 DEF DocSays, At
  <2> QED BY <2>1, <2>3, <2>4, <2>5
<1> QED BY <1>1, <1>2, <1>3

\* The state of a device that obeyed a command is a document.
LEMMA ObeyedDoc ==
    ASSUME NEW state, NEW c, IsDoc(state), IsDoc(c)
    PROVE  IsDoc(Obeyed(state, c))
<1> DEFINE x == [d \in {e \in DOMAIN c : c[e].isDict} |->
                   IF d \in DOMAIN state /\ ~state[d].isDict THEN state[d] ELSE c[d]]
<1>1. ASSUME NEW d \in DOMAIN x
      PROVE \/ x[d] = Dict([p \in DOMAIN x[d].params |-> x[d].params[p]])
            \/ x[d] = Leaf(x[d].leaf)
  <2>0. d \in DOMAIN c /\ (x[d] = c[d] \/ (d \in DOMAIN state /\ x[d] = state[d]))
    <3> DEFINE y == IF d \in DOMAIN state /\ ~state[d].isDict THEN state[d] ELSE c[d]
    <3>1. d \in DOMAIN c /\ x[d] = y
        OBVIOUS
    <3> HIDE DEF x
    <3> QED BY <3>1 DEF y
  <2> HIDE DEF x
  <2>1. CASE x[d] = c[d]
    <3>1. \/ c[d] = Dict([p \in DOMAIN c[d].params |-> c[d].params[p]])
          \/ c[d] = Leaf(c[d].leaf)
        BY <2>0, DocValue
    <3> QED BY <2>1, <3>1
  <2>2. CASE d \in DOMAIN state /\ x[d] = state[d]
    <3>1. \/ state[d] = Dict([p \in DOMAIN state[d].params |-> state[d].params[p]])
          \/ state[d] = Leaf(state[d].leaf)
        BY <2>2, DocValue
    <3> QED BY <2>2, <3>1
  <2> QED BY <2>0, <2>1, <2>2
<1>2. x = [d \in DOMAIN x |-> x[d]]
    OBVIOUS
<1>3. Obeyed(state, c) = MergeParams(state, x)
    BY DEF Obeyed
<1> HIDE DEF x
<1>4. IsDoc(x)
    BY <1>1, <1>2, DocFrom
<1> QED BY <1>3, <1>4, MergeDoc

\* Nothing is a document.
LEMMA NoParamsDoc == IsDoc(NoParams)
BY DEF IsDoc, NoParams

-----------------------------------------------------------------------------
(* The commits of the only replica.                                        *)

\* The params report in hand is merged into the row as it is.
LEMMA ShadowRow ==
    ASSUME NEW g, AloneInv(g), upsert_params_shadow(g)
    PROVE  LET m == req[g].msg IN
           /\ DOMAIN shadow' = DOMAIN shadow \cup {m.node}
           /\ \A n \in DOMAIN shadow : n # m.node => shadow'[n] = shadow[n]
           /\ m.node \in DOMAIN shadow =>
                 shadow'[m.node] = MergeParams(shadow[m.node], m.body)
           /\ m.node \notin DOMAIN shadow => shadow'[m.node] = m.body
<1> DEFINE m == req[g].msg
           k == m.node
           u == m.body
<1>1. /\ req[g].pc = "write" /\ m.topic = "params"
      /\ \/ req[g].base = {} /\ shadow' = Override(shadow, [n \in {k} |-> u])
         \/ \E b \in req[g].base :
               \/ shadow' = shadow /\ MergeParams(b, u) = b
               \/ shadow' = Override(shadow, [n \in {k} |-> MergeParams(b, u)])
    BY UpsertCases
<1>2. req[g].base = RowOf(shadow, k)
    BY <1>1 DEF AloneInv, TableFor
<1> HIDE DEF m, k, u
<1>3. ASSUME NEW x, shadow' = Override(shadow, [n \in {k} |-> x])
      PROVE /\ DOMAIN shadow' = DOMAIN shadow \cup {k}
            /\ \A n \in DOMAIN shadow : n # k => shadow'[n] = shadow[n]
            /\ shadow'[k] = x
    BY <1>3 DEF Override
<1>4. CASE k \in DOMAIN shadow
  <2>1. \/ shadow' = shadow /\ MergeParams(shadow[k], u) = shadow[k]
        \/ shadow' = Override(shadow, [n \in {k} |-> MergeParams(shadow[k], u)])
      BY <1>1, <1>2, <1>4 DEF RowOf
  <2>2. CASE shadow' = shadow /\ MergeParams(shadow[k], u) = shadow[k]
      BY <1>4, <2>2 DEF m, k, u
  <2>3. CASE shadow' = Override(shadow, [n \in {k} |-> MergeParams(shadow[k], u)])
    <3>1. /\ DOMAIN shadow' = DOMAIN shadow \cup {k}
          /\ \A n \in DOMAIN shadow : n # k => shadow'[n] = shadow[n]
          /\ shadow'[k] = MergeParams(shadow[k], u)
        BY <1>3, <2>3
    <3> QED BY <1>4, <3>1 DEF m, k, u
  <2> QED BY <2>1, <2>2, <2>3
<1>5. CASE k \notin DOMAIN shadow
  <2>1. shadow' = Override(shadow, [n \in {k} |-> u])
      BY <1>1, <1>2, <1>5 DEF RowOf
  <2>2. /\ DOMAIN shadow' = DOMAIN shadow \cup {k}
        /\ \A n \in DOMAIN shadow : n # k => shadow'[n] = shadow[n]
        /\ shadow'[k] = u
      BY <1>3, <2>1
  <2> QED BY <1>5, <2>2 DEF m, k, u
<1> QED BY <1>4, <1>5

\* The config in hand replaces the row as it is, column by column.
LEMMA ConfigRow ==
    ASSUME NEW g, AloneInv(g), upsert_node_config(g), req[g].msg.body \in Configs
    PROVE  LET m == req[g].msg IN
           /\ DOMAIN configs' = DOMAIN configs \cup {m.node}
           /\ \A n \in DOMAIN configs : n # m.node => configs'[n] = configs[n]
           /\ configs'[m.node] = m.body
<1> DEFINE m == req[g].msg
           k == m.node
           c == m.body
           r == configs[k]
<1>1. req[g].base = RowOf(configs, k)
    BY DEF upsert_node_config, AloneInv, TableFor
<1>2. CASE k \notin DOMAIN configs
  <2>1. configs' = Override(configs, [n \in {k} |-> c])
      BY <1>1, <1>2 DEF upsert_node_config, RowOf
  <2> HIDE DEF m, k, c
  <2>2. /\ DOMAIN configs' = DOMAIN configs \cup {k}
        /\ \A n \in DOMAIN configs : n # k => configs'[n] = configs[n]
        /\ configs'[k] = c
      BY <2>1 DEF Override
  <2> QED BY <2>2 DEF m, k, c
<1>3. CASE k \in DOMAIN configs
  <2> DEFINE b == CHOOSE x \in req[g].base : TRUE
  <2>0. b = r /\ req[g].base # {}
      BY <1>1, <1>3 DEF RowOf
  <2>1. configs' = [configs EXCEPT ![k] = UpdateColumns(@, b, c)]
      BY <2>0 DEF upsert_node_config
  <2>2. c = [version |-> c.version, payload |-> c.payload]
      BY ShadowAssumption
  <2> HIDE DEF m, k, c, b
  <2>3. configs' = [configs EXCEPT ![k] = UpdateColumns(r, r, c)]
      BY <2>0, <2>1
  <2>4. UpdateColumns(r, r, c) = c
    <3> DEFINE rv == r.version
               rp == r.payload
               cv == c.version
               cp == c.payload
               v == IF rv = cv THEN rv ELSE cv
               p == IF rp = cp THEN rp ELSE cp
    <3>1. UpdateColumns(r, r, c) = [version |-> v, payload |-> p]
        BY DEF UpdateColumns
    <3>2. v = cv /\ p = cp
        OBVIOUS
    <3>3. c = [version |-> cv, payload |-> cp]
        BY <2>2
    <3> HIDE DEF v, p, cv, cp, r
    <3> QED BY <3>1, <3>2, <3>3
  <2>5. /\ DOMAIN configs' = DOMAIN configs
        /\ \A n \in DOMAIN configs : n # k => configs'[n] = configs[n]
        /\ configs'[k] = c
      BY <1>3, <2>3, <2>4
  <2>6. DOMAIN configs' = DOMAIN configs \cup {k}
      BY <1>3, <2>5
  <2> QED BY <2>5, <2>6 DEF m, k, c
<1> QED BY <1>2, <1>3

\* The commit of a params report: the stored state gives the answers of the
\* report, and keeps the others.
LEMMA ParamsShown ==
    ASSUME NEW g \in Ingestors, AloneInv(g), upsert_params_shadow(g), NEW q, IsQuestion(q),
           IsDoc(req[g].msg.body),
           req[g].msg.node \in DOMAIN shadow => IsDoc(shadow[req[g].msg.node])
    PROVE  /\ Relevant(q, req[g].msg) => Shown(q)' = Tells(q, req[g].msg)
           /\ ~Relevant(q, req[g].msg) => Shown(q)' = Shown(q)
<1> DEFINE m == req[g].msg
           k == m.node
           u == m.body
           n == q.node
           old == get_user_node_params(n)
           new == get_user_node_params(n)'
<1>0. m.topic = "params" /\ configs' = configs
    BY DEF upsert_params_shadow
<1>1. /\ DOMAIN shadow' = DOMAIN shadow \cup {k}
      /\ \A i \in DOMAIN shadow : i # k => shadow'[i] = shadow[i]
      /\ k \in DOMAIN shadow => shadow'[k] = MergeParams(shadow[k], u)
      /\ k \notin DOMAIN shadow => shadow'[k] = u
    BY ShadowRow
<1>2. CASE q.kind = "config"
    BY <1>0, <1>2 DEF Relevant, Shown, Tells
<1>3. CASE q.kind = "row"
    BY <1>0, <1>1, <1>3 DEF Relevant, Shown, Tells
<1>4. CASE q.kind \in {"device", "param"}
  <2>1. /\ Shown(q) = DocSays(q, old) /\ Shown(q)' = DocSays(q, new)
        /\ Tells(q, m) = DocSays(q, u)
      BY <1>4 DEF Shown, Tells, DocSays
  <2>2. Relevant(q, m) <=> (k = n /\ Names(q, u))
      BY <1>0, <1>4 DEF Relevant, Names
  <2>3. CASE k # n
    <3>1. new = old
        BY <1>1, <2>3 DEF get_user_node_params
    <3> QED BY <2>1, <2>2, <2>3, <3>1
  <2>4. CASE k = n /\ k \in DOMAIN shadow
    <3>1. old = shadow[k] /\ new = MergeParams(shadow[k], u) /\ IsDoc(shadow[k]) /\ IsDoc(u)
        BY <1>1, <2>4 DEF get_user_node_params
    <3> HIDE DEF old, new, u, k, n, m
    <3>2. DocSays(q, new) = IF Names(q, u) THEN DocSays(q, u) ELSE DocSays(q, old)
        BY <3>1, MergeSays
    <3>3. (Names(q, u) => Shown(q)' = Tells(q, m)) /\ (~Names(q, u) => Shown(q)' = Shown(q))
        BY <2>1, <3>2
    <3> QED BY <2>2, <2>4, <3>3 DEF m
  <2>5. CASE k = n /\ k \notin DOMAIN shadow
    <3>1. old = NoParams /\ new = u
        BY <1>1, <2>5 DEF get_user_node_params
    <3>2. ~Names(q, NoParams)
        BY DEF Names, NoParams, Speaks
    <3>3. DocSays(q, NoParams) = {}
        BY <3>2, SilentDoc
    <3>4. ~Names(q, u) => DocSays(q, u) = {}
        BY SilentDoc
    <3> HIDE DEF old, new, u, k, n, m
    <3>5. (Names(q, u) => Shown(q)' = Tells(q, m)) /\ (~Names(q, u) => Shown(q)' = Shown(q))
        BY <2>1, <3>1, <3>3, <3>4
    <3> QED BY <2>2, <2>5, <3>5 DEF m
  <2> QED BY <2>3, <2>4, <2>5
<1> QED BY <1>2, <1>3, <1>4 DEF IsQuestion

\* The commit of a config, likewise.
LEMMA ConfigShown ==
    ASSUME NEW g \in Ingestors, AloneInv(g), upsert_node_config(g), NEW q, IsQuestion(q),
           req[g].msg.body \in Configs
    PROVE  /\ Relevant(q, req[g].msg) => Shown(q)' = Tells(q, req[g].msg)
           /\ ~Relevant(q, req[g].msg) => Shown(q)' = Shown(q)
<1> DEFINE m == req[g].msg
<1>0. m.topic = "config" /\ shadow' = shadow
    BY DEF upsert_node_config
<1>1. /\ DOMAIN configs' = DOMAIN configs \cup {m.node}
      /\ \A n \in DOMAIN configs : n # m.node => configs'[n] = configs[n]
      /\ configs'[m.node] = m.body
    BY ConfigRow
<1>2. CASE q.kind = "config"
    BY <1>0, <1>1, <1>2 DEF Relevant, Shown, Tells, RowOf
<1>3. CASE q.kind # "config"
  <2>1. ~Relevant(q, m)
      BY <1>0, <1>3 DEF Relevant
  <2>2. Shown(q)' = Shown(q)
      BY <1>0, <1>3 DEF Shown, DocSays, get_user_node_params
  <2> QED BY <2>1, <2>2
<1> QED BY <1>2, <1>3

-----------------------------------------------------------------------------
(* The steps of RemoteControl with one replica.                            *)

\* A node publishes, the session goes on, or neither the backend nor the
\* device takes part.
LEMMA RemoteCases ==
    ASSUME NEW g, Ingestors = {g}, [RemoteNext]_rvars
    PROVE  \/ UNCHANGED <<vars, actual>>
           \/ \E n \in Nodes, again \in BOOLEAN : ApplyCommand(n, g, again)
           \/ \E n \in Nodes, doc \in Payloads : ChangeLocally(n, doc, g)
           \/ \E n \in Nodes, c \in Configs :
                 /\ DevicePublish([node |-> n, topic |-> "config", body |-> c], g)
                 /\ UNCHANGED remoteVars
           \/ Session(g) /\ UNCHANGED remoteVars
BY DEF RemoteNext, PutParams, PublishParams, PublishFails, ChangeAccess, rvars, remoteVars

\* The command a device applies is a document.
LEMMA HeadDoc ==
    ASSUME DeviceDocs, NEW n \in Nodes, downlink[n] # <<>>
    PROVE  IsDoc(Obeyed(actual[n], Head(downlink[n]))) /\ Len(downlink[n]) > 0
<1> DEFINE s == downlink[n]
           S == {s[i] : i \in DOMAIN s}
<1>1. IsSeq(s) /\ s # <<>> /\ IsDoc(actual[n]) /\ \A j \in DOMAIN s : IsDoc(s[j])
    BY DEF DeviceDocs
<1>2. s \in Seq(S)
    BY <1>1 DEF IsSeq
<1> HIDE DEF s, S
<1>3. Len(s) > 0 /\ 1 \in DOMAIN s /\ Head(s) = s[1]
    BY <1>1, <1>2
<1>4. IsDoc(Head(s))
    BY <1>1, <1>3
<1>5. IsDoc(Obeyed(actual[n], Head(s)))
    BY <1>1, <1>4, ObeyedDoc
<1> QED BY <1>3, <1>5 DEF s

\* Seen from the backend: a message is published, or the session goes on.
LEMMA BackendCases ==
    ASSUME NEW g, Ingestors = {g}, DeviceDocs, [RemoteNext]_rvars
    PROVE  \/ UNCHANGED vars
           \/ \E m : m.node \in Nodes /\ Sane(m) /\ DevicePublish(m, g)
           \/ Session(g)
<1>1. ASSUME NEW n \in Nodes, NEW again \in BOOLEAN, ApplyCommand(n, g, again)
      PROVE \E m : m.node \in Nodes /\ Sane(m) /\ DevicePublish(m, g)
  <2> DEFINE new == Obeyed(actual[n], Head(downlink[n]))
             m == [node |-> n, topic |-> "params", body |-> new]
  <2>1. DevicePublish(m, g) /\ IsDoc(new)
      BY <1>1, HeadDoc DEF ApplyCommand
  <2> HIDE DEF new
  <2>2. m.node \in Nodes /\ Sane(m)
      BY <2>1 DEF Sane
  <2> HIDE DEF m
  <2> QED BY <2>1, <2>2
<1>2. ASSUME NEW n \in Nodes, NEW doc \in Payloads, ChangeLocally(n, doc, g)
      PROVE \E m : m.node \in Nodes /\ Sane(m) /\ DevicePublish(m, g)
  <2> DEFINE m == [node |-> n, topic |-> "params", body |-> doc]
  <2>1. m.node \in Nodes /\ DevicePublish(m, g)
      BY <1>2 DEF ChangeLocally
  <2>2. Sane(m)
      BY ShadowAssumption DEF Sane
  <2> HIDE DEF m
  <2> QED BY <2>1, <2>2
<1>3. ASSUME NEW n \in Nodes, NEW c \in Configs,
             DevicePublish([node |-> n, topic |-> "config", body |-> c], g)
      PROVE \E m : m.node \in Nodes /\ Sane(m) /\ DevicePublish(m, g)
  <2> DEFINE m == [node |-> n, topic |-> "config", body |-> c]
  <2>1. m.node \in Nodes /\ Sane(m) /\ DevicePublish(m, g)
      BY <1>3 DEF Sane
  <2> HIDE DEF m
  <2> QED BY <2>1
<1> QED BY <1>1, <1>2, <1>3, RemoteCases

\* Nobody writes between the steps of the only replica.
LEMMA AloneStep ==
    ASSUME NEW g, Ingestors = {g}, Shaped, DeviceDocs, AloneInv(g), [RemoteNext]_rvars
    PROVE  AloneInv(g)'
<1>0. DOMAIN req = Procs /\ g \in Procs
    BY DEF Shaped, Procs
<1>1. CASE UNCHANGED <<nodes, configs, shadow, req>>
    BY <1>1 DEF AloneInv, TableFor
<1>2. CASE Dispatch(g)
  <2> DEFINE m == inbox[g][next[g]]
             b == EnsureBranch(m.node)
  <2>1. req'[g] = [pc |-> b, msg |-> m] /\ nodes' = nodes
      BY <1>0, <1>2 DEF Dispatch
  <2>2. \/ b = "ensure" /\ m.node \notin nodes
        \/ b = "read" /\ m.node \in nodes
      BY DEF EnsureBranch
  <2> HIDE DEF m, b
  <2>3. req'[g].pc = b /\ req'[g].msg = m
      BY <2>1
  <2> QED BY <2>1, <2>2, <2>3 DEF AloneInv
<1>3. CASE EnsureNode(g)
  <2>1. req'[g].pc = "read" /\ req'[g].msg = req[g].msg
      BY <1>0, <1>3, EnsureKeeps
  <2>2. req[g].msg.node \in nodes'
      BY <1>3 DEF EnsureNode
  <2> QED BY <2>1, <2>2 DEF AloneInv
<1>4. CASE ReadRow(g)
  <2> DEFINE m == req[g].msg
             b == RowOf(TableFor(m), m.node)
  <2>1. req'[g] = [pc |-> "write", msg |-> m, base |-> b] /\ m.node \in nodes
      BY <1>0, <1>4 DEF ReadRow, AloneInv
  <2>2. UNCHANGED <<nodes, shadow, configs>>
      BY <1>4 DEF ReadRow
  <2> DEFINE T == IF m.topic = "params" THEN shadow' ELSE configs'
  <2>3. b = RowOf(T, m.node)
      BY <2>2 DEF TableFor
  <2> HIDE DEF m, b
  <2>4. req'[g].pc = "write" /\ req'[g].msg = m /\ req'[g].base = b
      BY <2>1
  <2>5. TableFor(req[g].msg)' = T
      BY <2>4 DEF TableFor
  <2> HIDE DEF T
  <2>6. RowOf(TableFor(req[g].msg), req[g].msg.node)' = RowOf(T, m.node)
      BY <2>4, <2>5 DEF RowOf
  <2> QED BY <2>1, <2>2, <2>3, <2>4, <2>6 DEF AloneInv
<1>5. CASE req'[g] = Idle
    BY <1>5 DEF AloneInv, Idle
<1>6. ASSUME upsert_params_shadow(g) \/ upsert_node_config(g) \/ UpsertConflict(g)
             \/ EnsureConflict(g)
      PROVE req'[g] = Idle
    BY <1>0, <1>6 DEF upsert_params_shadow, upsert_node_config, UpsertConflict, EnsureConflict
<1>7. ASSUME Acknowledge(g) \/ Reconnect(g) PROVE UNCHANGED <<nodes, configs, shadow, req>>
    BY <1>7 DEF Acknowledge, Reconnect
<1>8. ASSUME NEW m, DevicePublish(m, g) PROVE UNCHANGED <<nodes, configs, shadow, req>>
    BY <1>8 DEF DevicePublish
<1>9. ASSUME UNCHANGED vars PROVE UNCHANGED <<nodes, configs, shadow, req>>
    BY <1>9 DEF vars
<1>10. CASE Session(g)
    BY <1>1, <1>2, <1>3, <1>4, <1>5, <1>6, <1>7, <1>10 DEF Session, Consume, Handle
<1> QED BY <1>1, <1>8, <1>9, <1>10, BackendCases

\* A message of the replica came from a report, so it is sane.
LEMMA HandSane ==
    ASSUME NEW g \in Ingestors, ReportedInv, ReportsSane, req[g].pc # "idle"
    PROVE  Sane(req[g].msg) /\ Told(req[g].msg)
<1>1. Told(req[g].msg)
    BY DEF ReportedInv, FromReports, Procs
<1> QED BY <1>1 DEF Told, ToldIn, ReportsSane

\* Reports stay sane.
LEMMA ReportsStep ==
    ASSUME NEW g, Ingestors = {g}, Shaped, DeviceDocs, ReportsSane, [RemoteNext]_rvars
    PROVE  ReportsSane'
<1>1. CASE UNCHANGED reported
    BY <1>1 DEF ReportsSane
<1>2. ASSUME NEW m, m.node \in Nodes, Sane(m), DevicePublish(m, g) PROVE ReportsSane'
  <2> SUFFICES ASSUME NEW n \in Nodes, NEW j \in DOMAIN reported'[n]
               PROVE reported'[n][j].node = n /\ Sane(reported'[n][j])
      BY DEF ReportsSane
  <2> DEFINE s == reported[n]
  <2>0. IsSeq(s) /\ \A i \in DOMAIN s : s[i].node = n /\ Sane(s[i])
      BY DEF Shaped, ReportsSane
  <2>1. /\ n # m.node => reported'[n] = s
        /\ n = m.node => reported'[n] = Append(s, m)
      BY <1>2, ReportGrows DEF DevicePublish
  <2>2. CASE n # m.node
      BY <2>0, <2>1, <2>2
  <2>3. CASE n = m.node
    <3>1. reported'[n] = Append(s, m)
        BY <2>1, <2>3
    <3> HIDE DEF s
    <3>2. /\ DOMAIN Append(s, m) = 1..(Len(s) + 1) /\ Append(s, m)[Len(s) + 1] = m
          /\ \A i \in 1..Len(s) : Append(s, m)[i] = s[i]
          /\ Len(s) \in Nat /\ DOMAIN s = 1..Len(s)
        BY <2>0, AppendFacts, SeqFacts
    <3>3. j = Len(s) + 1 \/ j \in 1..Len(s)
        BY <3>1, <3>2
    <3> QED BY <1>2, <2>0, <2>3, <3>1, <3>2, <3>3
  <2> QED BY <2>2, <2>3
<1>3. ASSUME Session(g) \/ UNCHANGED vars PROVE UNCHANGED reported
    BY <1>3 DEF Session, Consume, Handle, Acknowledge, Reconnect, Dispatch, EnsureNode,
                EnsureConflict, ReadRow, upsert_params_shadow, upsert_node_config,
                UpsertConflict, vars
<1> QED BY <1>1, <1>2, <1>3, BackendCases

\* The tables are written by the replica's commits only.
LEMMA TableWrites ==
    ASSUME NEW g, Ingestors = {g}, DeviceDocs, [RemoteNext]_rvars
    PROVE  /\ upsert_params_shadow(g) \/ UNCHANGED shadow
           /\ upsert_node_config(g) \/ UNCHANGED configs
<1>1. ASSUME Session(g) PROVE /\ upsert_params_shadow(g) \/ UNCHANGED shadow
                              /\ upsert_node_config(g) \/ UNCHANGED configs
    BY <1>1 DEF Session, Consume, Handle, Acknowledge, Reconnect, Dispatch, EnsureNode,
                EnsureConflict, ReadRow, upsert_params_shadow, upsert_node_config,
                UpsertConflict
<1>2. ASSUME NEW m, DevicePublish(m, g) PROVE UNCHANGED <<shadow, configs>>
    BY <1>2 DEF DevicePublish
<1>3. ASSUME UNCHANGED vars PROVE UNCHANGED <<shadow, configs>>
    BY <1>3 DEF vars
<1> QED BY <1>1, <1>2, <1>3, BackendCases

\* The stored state is made of documents and of configs that were sent.
LEMMA TablesStep ==
    ASSUME NEW g, Ingestors = {g}, ReportedInv, AloneInv(g), ContentInv, [RemoteNext]_rvars
    PROVE  ShadowDocs' /\ ConfigsTold'
<1>0. Shaped /\ DeviceDocs /\ ShadowDocs /\ ConfigsTold /\ ReportsSane /\ g \in Ingestors
    BY DEF ReportedInv, ContentInv
<1>1. ASSUME UNCHANGED shadow PROVE ShadowDocs'
    BY <1>0, <1>1 DEF ShadowDocs
<1>2. ASSUME upsert_params_shadow(g) PROVE ShadowDocs'
  <2> DEFINE m == req[g].msg
  <2>1. req[g].pc # "idle" /\ m.topic = "params"
      BY <1>2 DEF upsert_params_shadow
  <2>2. IsDoc(m.body)
      BY <1>0, <2>1, HandSane DEF Sane
  <2>3. /\ DOMAIN shadow' = DOMAIN shadow \cup {m.node}
        /\ \A n \in DOMAIN shadow : n # m.node => shadow'[n] = shadow[n]
        /\ m.node \in DOMAIN shadow => shadow'[m.node] = MergeParams(shadow[m.node], m.body)
        /\ m.node \notin DOMAIN shadow => shadow'[m.node] = m.body
      BY <1>2, ShadowRow
  <2>4. m.node \in DOMAIN shadow => IsDoc(MergeParams(shadow[m.node], m.body))
      BY <1>0, <2>2, MergeDoc DEF ShadowDocs
  <2> HIDE DEF m
  <2>5. ShadowDocs'
      BY <1>0, <2>2, <2>3, <2>4 DEF ShadowDocs
  <2> QED BY <2>5
<1>3. ShadowDocs'
    BY <1>0, <1>1, <1>2, TableWrites
<1>4. Grows
    BY <1>0, RemoteAny, AnyGrows
<1>5. ASSUME UNCHANGED configs PROVE ConfigsTold'
    BY <1>0, <1>4, <1>5 DEF ConfigsTold, Grows
<1>6. ASSUME upsert_node_config(g) PROVE ConfigsTold'
  <2> DEFINE m == req[g].msg
  <2>1. req[g].pc # "idle" /\ m.topic = "config"
      BY <1>6 DEF upsert_node_config
  <2>2. m.body \in Configs /\ Told(m)
      BY <1>0, <2>1, HandSane DEF Sane
  <2>3. /\ DOMAIN configs' = DOMAIN configs \cup {m.node}
        /\ \A n \in DOMAIN configs : n # m.node => configs'[n] = configs[n]
        /\ configs'[m.node] = m.body
      BY <1>6, <2>2, ConfigRow
  <2> HIDE DEF m
  <2>4. m.node \in Nodes /\ ToldIn(reported'[m.node], m)
      BY <1>4, <2>2, ToldStays
  <2>5. ASSUME NEW n \in DOMAIN configs'
        PROVE n \in Nodes /\ \E j \in DOMAIN reported'[n] :
                 reported'[n][j].topic = "config" /\ reported'[n][j].body = configs'[n]
    <3>1. CASE n = m.node
        BY <2>1, <2>3, <2>4, <3>1 DEF ToldIn
    <3>2. CASE n # m.node
        BY <1>0, <1>4, <2>3, <2>5, <3>2 DEF ConfigsTold, Grows
    <3> QED BY <3>1, <3>2
  <2> QED BY <2>5 DEF ConfigsTold
<1>7. ConfigsTold'
    BY <1>0, <1>5, <1>6, TableWrites
<1> QED BY <1>3, <1>7

\* The devices' states and the commands on their way stay documents.
LEMMA DeviceStep ==
    ASSUME DeviceDocs, [RemoteNext]_rvars
    PROVE  DeviceDocs'
<1>1. CASE UNCHANGED <<put, downlink, actual>>
    BY <1>1 DEF DeviceDocs
<1>2. ASSUME NEW f \in Phones, NEW n \in Nodes, NEW c \in Commands, PutParams(f, n, c)
      PROVE DeviceDocs'
  <2>1. /\ DOMAIN put' = Phones /\ UNCHANGED <<downlink, actual>>
        /\ put'[f] = [pc |-> "publish", node |-> n, body |-> c]
        /\ \A h \in Phones : h # f => put'[h] = put[h]
      BY <1>2 DEF PutParams, DeviceDocs
  <2>2. put'[f].node = n /\ put'[f].body = c /\ IsDoc(c)
      BY <2>1, RemoteAssumption
  <2>3. \A h \in Phones : put'[h].pc # "idle" => put'[h].node \in Nodes /\ IsDoc(put'[h].body)
      BY <2>1, <2>2 DEF DeviceDocs
  <2> QED BY <2>1, <2>3 DEF DeviceDocs
<1>3. ASSUME NEW f \in Phones, PublishParams(f) PROVE DeviceDocs'
  <2> DEFINE n == put[f].node
             c == put[f].body
             s == downlink[n]
  <2>1. /\ DOMAIN put' = Phones /\ put'[f] = Idle
        /\ \A h \in Phones : h # f => put'[h] = put[h]
        /\ n \in Nodes /\ IsDoc(c) /\ actual' = actual
      BY <1>3 DEF PublishParams, DeviceDocs
  <2>2. \A h \in Phones : put'[h].pc # "idle" => put'[h].node \in Nodes /\ IsDoc(put'[h].body)
      BY <2>1 DEF DeviceDocs, Idle
  <2>3. /\ DOMAIN downlink' = Nodes /\ downlink'[n] = Append(s, c)
        /\ \A k \in Nodes : k # n => downlink'[k] = downlink[k]
      BY <1>3, <2>1 DEF PublishParams, DeviceDocs
  <2>4. IsSeq(s) /\ \A j \in DOMAIN s : IsDoc(s[j])
      BY <2>1 DEF DeviceDocs
  <2> HIDE DEF n, c, s
  <2>5. /\ IsSeq(Append(s, c)) /\ DOMAIN Append(s, c) = 1..(Len(s) + 1)
        /\ \A i \in 1..Len(s) : Append(s, c)[i] = s[i]
        /\ Append(s, c)[Len(s) + 1] = c
        /\ Len(s) \in Nat /\ DOMAIN s = 1..Len(s)
      BY <2>4, AppendFacts, SeqFacts
  <2>6. ASSUME NEW j \in DOMAIN Append(s, c) PROVE IsDoc(Append(s, c)[j])
    <3>1. j = Len(s) + 1 \/ j \in 1..Len(s)
        BY <2>5
    <3> QED BY <2>1, <2>4, <2>5, <3>1
  <2>7. \A k \in Nodes : IsSeq(downlink'[k]) /\ \A j \in DOMAIN downlink'[k] : IsDoc(downlink'[k][j])
      BY <2>3, <2>5, <2>6 DEF DeviceDocs
  <2> QED BY <2>1, <2>2, <2>3, <2>7 DEF DeviceDocs
<1>4. ASSUME NEW f \in Phones, PublishFails(f) PROVE DeviceDocs'
    BY <1>4 DEF PublishFails, DeviceDocs, Idle
<1>5. ASSUME NEW n \in Nodes, NEW g \in Ingestors, NEW again \in BOOLEAN,
             ApplyCommand(n, g, again)
      PROVE DeviceDocs'
  <2> DEFINE new == Obeyed(actual[n], Head(downlink[n]))
             s == downlink[n]
  <2>1. IsDoc(new) /\ Len(s) > 0 /\ IsSeq(s) /\ \A j \in DOMAIN s : IsDoc(s[j])
      BY <1>5, HeadDoc DEF ApplyCommand, DeviceDocs
  <2>2. actual' = [actual EXCEPT ![n] = new] /\ put' = put
      BY <1>5 DEF ApplyCommand
  <2>3. downlink' = downlink \/ downlink' = [downlink EXCEPT ![n] = Tail(s)]
      BY <1>5 DEF ApplyCommand
  <2> HIDE DEF new, s
  <2>4. DOMAIN actual' = Nodes /\ \A k \in Nodes : IsDoc(actual'[k])
      BY <2>1, <2>2 DEF DeviceDocs
  <2>5. /\ IsSeq(Tail(s)) /\ DOMAIN Tail(s) = 1..(Len(s) - 1)
        /\ \A i \in 1..(Len(s) - 1) : Tail(s)[i] = s[i + 1]
        /\ Len(s) \in Nat /\ DOMAIN s = 1..Len(s)
      BY <2>1, TailFacts, SeqFacts
  <2>6. ASSUME NEW j \in DOMAIN Tail(s) PROVE IsDoc(Tail(s)[j])
    <3>1. j + 1 \in DOMAIN s /\ Tail(s)[j] = s[j + 1]
        BY <2>5
    <3> QED BY <2>1, <3>1
  <2>7. /\ DOMAIN downlink' = Nodes
        /\ \A k \in Nodes : IsSeq(downlink'[k]) /\ \A j \in DOMAIN downlink'[k] : IsDoc(downlink'[k][j])
    <3>1. CASE downlink' = downlink
        BY <3>1 DEF DeviceDocs
    <3>2. CASE downlink' = [downlink EXCEPT ![n] = Tail(s)]
      <4>1. /\ DOMAIN downlink' = Nodes /\ downlink'[n] = Tail(s)
            /\ \A k \in Nodes : k # n => downlink'[k] = downlink[k]
          BY <3>2 DEF DeviceDocs
      <4> QED BY <2>5, <2>6, <4>1 DEF DeviceDocs
    <3> QED BY <2>3, <3>1, <3>2
  <2> QED BY <2>2, <2>4, <2>7 DEF DeviceDocs
<1>6. ASSUME NEW n \in Nodes, NEW doc \in Payloads, NEW g \in Ingestors,
             ChangeLocally(n, doc, g)
      PROVE DeviceDocs'
  <2> DEFINE new == MergeParams(actual[n], doc)
  <2>1. IsDoc(new)
      BY ShadowAssumption, MergeDoc DEF DeviceDocs
  <2>2. actual' = [actual EXCEPT ![n] = new] /\ UNCHANGED <<put, downlink>>
      BY <1>6 DEF ChangeLocally
  <2> HIDE DEF new
  <2>3. DOMAIN actual' = Nodes /\ \A k \in Nodes : IsDoc(actual'[k])
      BY <2>1, <2>2 DEF DeviceDocs
  <2> QED BY <2>2, <2>3 DEF DeviceDocs
<1>7. ASSUME NEW f, NEW n, ChangeAccess(f, n) PROVE UNCHANGED <<put, downlink, actual>>
    BY <1>7 DEF ChangeAccess
<1> QED BY <1>1, <1>2, <1>3, <1>4, <1>5, <1>6, <1>7 DEF RemoteNext, remoteVars, rvars

\* What the only replica, its tables and the devices hold stays sane.
LEMMA ContentStep ==
    ASSUME NEW g, Ingestors = {g}, ReportedInv, AloneInv(g), ContentInv, [RemoteNext]_rvars
    PROVE  ContentInv'
BY ReportsStep, TablesStep, DeviceStep DEF ContentInv, ReportedInv

-----------------------------------------------------------------------------
(* The device, and the invariant of the whole.                             *)

\* A report that says how an answer changes is the last answer.
LEMMA ReportSays ==
    ASSUME Shaped, NEW m, m.node \in Nodes, Report(m), NEW q, IsQuestion(q),
           NEW v, Says(reported[q.node], q, v), NEW w,
           Relevant(q, m) => w = Tells(q, m), ~Relevant(q, m) => w = v
    PROVE  Says(reported'[q.node], q, w)
<1> DEFINE s == reported[q.node]
<1>1. q.node \in Nodes /\ IsSeq(s) /\ Says(s, q, v)
    BY DEF IsQuestion, Shaped
<1>2. /\ q.node # m.node => reported'[q.node] = s
      /\ q.node = m.node => reported'[q.node] = Append(s, m)
    BY <1>1, ReportGrows
<1> HIDE DEF s
<1>3. CASE Relevant(q, m)
  <2>1. q.node = m.node
      BY <1>3 DEF Relevant
  <2>2. Says(Append(s, m), q, Tells(q, m))
      BY <1>1, <1>3, SaysAppend
  <2> QED BY <1>2, <1>3, <2>1, <2>2
<1>4. CASE ~Relevant(q, m)
  <2>1. Says(Append(s, m), q, v)
      BY <1>1, <1>4, SaysAppend
  <2> QED BY <1>1, <1>2, <1>4, <2>1
<1> QED BY <1>3, <1>4

\* Whatever the device does, it reports the state it gets into.
LEMMA DeviceAnswers ==
    ASSUME NEW g, Ingestors = {g}, Shaped, ContentInv, NEW q, IsQuestion(q),
           DeviceLatest(q), [RemoteNext]_rvars
    PROVE  DeviceLatest(q)'
<1> SUFFICES ASSUME q.kind \in {"device", "param"}
             PROVE  Says(reported'[q.node], q, DocSays(q, actual'[q.node]))
    BY DEF DeviceLatest
<1> DEFINE k == q.node
<1>0. /\ Says(reported[k], q, DocSays(q, actual[k])) /\ DeviceDocs /\ k \in Nodes
      /\ DOMAIN actual = Nodes
    BY DEF DeviceLatest, ContentInv, IsQuestion, DeviceDocs
<1>1. CASE UNCHANGED <<reported, actual>>
    BY <1>0, <1>1
<1>2. ASSUME NEW n \in Nodes, NEW again \in BOOLEAN, ApplyCommand(n, g, again)
      PROVE Says(reported'[k], q, DocSays(q, actual'[k]))
  <2> DEFINE new == Obeyed(actual[n], Head(downlink[n]))
             m == [node |-> n, topic |-> "params", body |-> new]
  <2>1. Report(m) /\ actual' = [actual EXCEPT ![n] = new]
      BY <1>2 DEF ApplyCommand, DevicePublish
  <2>2. ASSUME ~Names(q, new) PROVE DocSays(q, new) = DocSays(q, actual[n])
    <3>1. DocSays(q, new) = {}
        BY <2>2, SilentDoc
    <3> DEFINE c == Head(downlink[n])
               x == [d \in {e \in DOMAIN c : c[e].isDict} |->
                       IF d \in DOMAIN actual[n] /\ ~actual[n][d].isDict
                       THEN actual[n][d] ELSE c[d]]
    <3>2. new = MergeParams(actual[n], x)
        BY DEF Obeyed
    <3> HIDE DEF x, new
    <3>3. DocSays(q, actual[n]) = {}
        BY <2>2, <3>2, MergeNames
    <3> QED BY <3>1, <3>3
  <2> HIDE DEF new
  <2>3. m.node = n /\ m.topic = "params" /\ m.body = new
      OBVIOUS
  <2> HIDE DEF m
  <2>4. Relevant(q, m) <=> (n = k /\ Names(q, new))
      BY <2>3 DEF Relevant, Names
  <2>5. Tells(q, m) = DocSays(q, new)
      BY <2>3 DEF Tells
  <2>6. /\ n = k => actual'[k] = new
        /\ n # k => actual'[k] = actual[k]
      BY <1>0, <2>1
  <2>7. /\ Relevant(q, m) => DocSays(q, actual'[k]) = Tells(q, m)
        /\ ~Relevant(q, m) => DocSays(q, actual'[k]) = DocSays(q, actual[k])
      BY <2>2, <2>4, <2>5, <2>6
  <2> DEFINE v == DocSays(q, actual[k])
             w == DocSays(q, actual'[k])
  <2>8. /\ Report(m) /\ m.node \in Nodes /\ Says(reported[q.node], q, v)
        /\ (Relevant(q, m) => w = Tells(q, m)) /\ (~Relevant(q, m) => w = v)
      BY <1>0, <2>1, <2>3, <2>7
  <2> HIDE DEF v, w
  <2>9. Says(reported'[q.node], q, w)
      BY <2>8, ReportSays
  <2> QED BY <2>9 DEF w
<1>3. ASSUME NEW n \in Nodes, NEW doc \in Payloads, ChangeLocally(n, doc, g)
      PROVE Says(reported'[k], q, DocSays(q, actual'[k]))
  <2> DEFINE m == [node |-> n, topic |-> "params", body |-> doc]
             new == MergeParams(actual[n], doc)
  <2>1. Report(m) /\ actual' = [actual EXCEPT ![n] = new]
      BY <1>3 DEF ChangeLocally, DevicePublish
  <2>2. DocSays(q, new) = IF Names(q, doc) THEN DocSays(q, doc) ELSE DocSays(q, actual[n])
      BY <1>0, ShadowAssumption, MergeSays DEF DeviceDocs
  <2> HIDE DEF new
  <2>3. m.node = n /\ m.topic = "params" /\ m.body = doc
      OBVIOUS
  <2> HIDE DEF m
  <2>4. Relevant(q, m) <=> (n = k /\ Names(q, doc))
      BY <2>3 DEF Relevant, Names
  <2>5. Tells(q, m) = DocSays(q, doc)
      BY <2>3 DEF Tells
  <2>6. /\ n = k => actual'[k] = new
        /\ n # k => actual'[k] = actual[k]
      BY <1>0, <2>1
  <2>7. /\ Relevant(q, m) => DocSays(q, actual'[k]) = Tells(q, m)
        /\ ~Relevant(q, m) => DocSays(q, actual'[k]) = DocSays(q, actual[k])
      BY <2>2, <2>4, <2>5, <2>6
  <2> DEFINE v == DocSays(q, actual[k])
             w == DocSays(q, actual'[k])
  <2>8. /\ Report(m) /\ m.node \in Nodes /\ Says(reported[q.node], q, v)
        /\ (Relevant(q, m) => w = Tells(q, m)) /\ (~Relevant(q, m) => w = v)
      BY <1>0, <2>1, <2>3, <2>7
  <2> HIDE DEF v, w
  <2>9. Says(reported'[q.node], q, w)
      BY <2>8, ReportSays
  <2> QED BY <2>9 DEF w
<1>4. ASSUME NEW n \in Nodes, NEW c \in Configs,
             DevicePublish([node |-> n, topic |-> "config", body |-> c], g), actual' = actual
      PROVE Says(reported'[k], q, DocSays(q, actual'[k]))
  <2> DEFINE m == [node |-> n, topic |-> "config", body |-> c]
             v == DocSays(q, actual[k])
  <2>1. Report(m) /\ m.node \in Nodes /\ ~Relevant(q, m)
      BY <1>4 DEF DevicePublish, Relevant
  <2>2. Says(reported[q.node], q, v)
      BY <1>0
  <2> HIDE DEF m, v
  <2>3. Says(reported'[q.node], q, v)
      BY <2>1, <2>2, ReportSays
  <2> QED BY <1>4, <2>3 DEF v
<1>5. ASSUME Session(g) \/ UNCHANGED vars PROVE UNCHANGED reported
    BY <1>5 DEF Session, Consume, Handle, Acknowledge, Reconnect, Dispatch, EnsureNode,
                EnsureConflict, ReadRow, upsert_params_shadow, upsert_node_config,
                UpsertConflict, vars
<1> QED BY <1>1, <1>2, <1>3, <1>4, <1>5, RemoteCases DEF remoteVars

\* Every step of the replica's session keeps its answers.
LEMMA SessionAnswers ==
    ASSUME NEW g, Ingestors = {g}, ReportedInv, AloneInv(g), ContentInv,
           NEW q, IsQuestion(q), AnswerInv(g, q), Session(g)
    PROVE  InboxLatest(g, q)' /\ HandLatest(g, q)' /\ StoreLatest(g, q)'
<1>0. /\ Shaped /\ ReportsSane /\ ShadowDocs /\ g \in Ingestors
      /\ g \in Procs /\ DOMAIN req = Procs
    BY DEF ReportedInv, ContentInv, Shaped, Procs
<1>1. CASE Acknowledge(g)
    BY <1>0, <1>1, AcknowledgeAnswers
<1>2. CASE Reconnect(g)
    BY <1>0, <1>2, ReconnectAnswers
<1>3. CASE Dispatch(g)
    BY <1>0, <1>3, DispatchAnswers
<1>4. CASE EnsureNode(g)
  <2>1. UNCHANGED <<inbox, next, configs, shadow, reported>> /\ req[g].pc # "idle"
      BY <1>4 DEF EnsureNode
  <2> DEFINE m == req[g].msg
  <2>2. req'[g] = [pc |-> "read", msg |-> m]
      BY <1>0, <1>4, EnsureKeeps
  <2> HIDE DEF m
  <2>3. req'[g].pc # "idle" /\ req'[g].msg = m
      BY <2>2
  <2> QED BY <1>0, <2>1, <2>3, KeepAnswers DEF m
<1>5. CASE EnsureConflict(g)
    BY <1>5 DEF EnsureConflict, AloneInv
<1>6. CASE ReadRow(g)
  <2>1. UNCHANGED <<inbox, next, configs, shadow, reported>> /\ req[g].pc # "idle"
      BY <1>6 DEF ReadRow
  <2> DEFINE m == req[g].msg
             b == RowOf(TableFor(req[g].msg), req[g].msg.node)
  <2>2. req'[g] = [pc |-> "write", msg |-> m, base |-> b]
      BY <1>0, <1>6 DEF ReadRow
  <2> HIDE DEF m, b
  <2>3. req'[g].pc # "idle" /\ req'[g].msg = m
      BY <2>2
  <2> QED BY <1>0, <2>1, <2>3, KeepAnswers DEF m
<1>7. CASE upsert_params_shadow(g)
  <2>1. /\ UNCHANGED <<inbox, next, reported>> /\ req[g].pc # "idle"
        /\ req[g].msg.topic = "params" /\ req'[g] = Idle
      BY <1>0, <1>7 DEF upsert_params_shadow
  <2>2. IsDoc(req[g].msg.body)
      BY <1>0, <2>1, HandSane DEF Sane
  <2>3. req[g].msg.node \in DOMAIN shadow => IsDoc(shadow[req[g].msg.node])
      BY <1>0 DEF ShadowDocs
  <2>4. /\ Relevant(q, req[g].msg) => Shown(q)' = Tells(q, req[g].msg)
        /\ ~Relevant(q, req[g].msg) => Shown(q)' = Shown(q)
      BY <1>0, <1>7, <2>2, <2>3, ParamsShown
  <2> QED BY <1>0, <2>1, <2>4, CommitAnswers
<1>8. CASE upsert_node_config(g)
  <2>1. /\ UNCHANGED <<inbox, next, reported>> /\ req[g].pc # "idle"
        /\ req[g].msg.topic = "config" /\ req'[g] = Idle
      BY <1>0, <1>8 DEF upsert_node_config
  <2>2. req[g].msg.body \in Configs
      BY <1>0, <2>1, HandSane DEF Sane
  <2>3. /\ Relevant(q, req[g].msg) => Shown(q)' = Tells(q, req[g].msg)
        /\ ~Relevant(q, req[g].msg) => Shown(q)' = Shown(q)
      BY <1>0, <1>8, <2>2, ConfigShown
  <2> QED BY <1>0, <2>1, <2>3, CommitAnswers
<1>9. CASE UpsertConflict(g)
    BY <1>9 DEF UpsertConflict, Clashes, AloneInv, RowOf
<1> QED BY <1>1, <1>2, <1>3, <1>4, <1>5, <1>6, <1>7, <1>8, <1>9
        DEF Session, Consume, Handle

\* Every step keeps every answer.
LEMMA AnswerStep ==
    ASSUME NEW g, Ingestors = {g}, ReplicaInv(g), [RemoteNext]_rvars,
           NEW q, IsQuestion(q)
    PROVE  AnswerInv(g, q)'
<1>0. /\ ReportedInv /\ Shaped /\ AloneInv(g) /\ ContentInv /\ DeviceDocs
      /\ AnswerInv(g, q) /\ g \in Ingestors
    BY DEF ReplicaInv, ReportedInv, ContentInv
<1>1. DeviceLatest(q)'
    BY <1>0, DeviceAnswers DEF AnswerInv
<1>2. CASE UNCHANGED vars
  <2>1. /\ Shown(q)' = Shown(q) /\ (InHand(g, q)' <=> InHand(g, q))
        /\ (Ahead(g, q)' <=> Ahead(g, q)) /\ UNCHANGED <<inbox, req, reported>>
      BY <1>2 DEF Shown, get_user_node_params, InHand, Ahead, vars
  <2>2. InboxLatest(g, q)' /\ HandLatest(g, q)' /\ StoreLatest(g, q)'
      BY <1>0, <2>1 DEF AnswerInv, InboxLatest, HandLatest, StoreLatest
  <2> QED BY <1>1, <2>2 DEF AnswerInv
<1>3. ASSUME NEW m, m.node \in Nodes, DevicePublish(m, g) PROVE AnswerInv(g, q)'
    BY <1>0, <1>1, <1>3, PublishAnswers DEF AnswerInv
<1>4. CASE Session(g)
    BY <1>0, <1>1, <1>4, SessionAnswers DEF AnswerInv
<1> QED BY <1>0, <1>2, <1>3, <1>4, BackendCases

\* Nothing was reported, nothing is stored, and the devices know nothing.
LEMMA ReplicaInit ==
    ASSUME NEW g, Ingestors = {g}, RemoteInit
    PROVE  ReplicaInv(g)
<1>0. ReportedInv /\ g \in Ingestors /\ g \in Procs
    BY ReportedInit DEF RemoteInit, Procs
<1>1. AloneInv(g)
    BY <1>0 DEF RemoteInit, Init, AloneInv, Idle
<1>2. IsSeq(<<>>) /\ DOMAIN <<>> = {}
    BY DEF IsSeq
<1>3. ReportsSane /\ ShadowDocs /\ ConfigsTold
    BY <1>2 DEF RemoteInit, Init, ReportsSane, ShadowDocs, ConfigsTold
<1>4. DeviceDocs
    BY <1>2, NoParamsDoc DEF RemoteInit, DeviceDocs, Idle
<1>5. ASSUME NEW q, IsQuestion(q) PROVE AnswerInv(g, q)
  <2>1. /\ q.node \in Nodes /\ reported[q.node] = <<>> /\ inbox[g] = <<>> /\ req[g].pc = "idle"
        /\ configs = [n \in {} |-> 0] /\ shadow = [n \in {} |-> 0]
        /\ actual[q.node] = NoParams
      BY <1>0, <1>5 DEF RemoteInit, Init, IsQuestion, Idle
  <2>2. \A v : v = {} => Says(reported[q.node], q, v)
      BY <1>2, <2>1 DEF Says
  <2>3. DocSays(q, NoParams) = {}
    <3>1. ~Names(q, NoParams)
        BY DEF Names, NoParams, Speaks
    <3> QED BY <3>1, SilentDoc
  <2>4. Shown(q) = {}
      BY <1>5, <2>1, <2>3 DEF Shown, get_user_node_params, RowOf
  <2>5. InboxLatest(g, q) /\ HandLatest(g, q)
      BY <1>2, <2>1 DEF InboxLatest, HandLatest, InHand
  <2>6. StoreLatest(g, q) /\ DeviceLatest(q)
      BY <2>1, <2>2, <2>3, <2>4 DEF StoreLatest, DeviceLatest
  <2> QED BY <2>5, <2>6 DEF AnswerInv
<1> QED BY <1>0, <1>1, <1>3, <1>4, <1>5 DEF ReplicaInv, ContentInv

\* Every step preserves the invariant of the only replica.
LEMMA ReplicaStep ==
    ASSUME NEW g, Ingestors = {g}, ReplicaInv(g), [RemoteNext]_rvars
    PROVE  ReplicaInv(g)'
<1>0. ReportedInv /\ Shaped /\ AloneInv(g) /\ ContentInv /\ DeviceDocs
    BY DEF ReplicaInv, ReportedInv, ContentInv
<1>1. ReportedInv'
    BY <1>0, RemoteAny, ReportedStep
<1>2. AloneInv(g)'
    BY <1>0, AloneStep
<1>3. ContentInv'
    BY <1>0, ContentStep
<1>4. \A q : IsQuestion(q) => AnswerInv(g, q)'
    BY AnswerStep
<1> QED BY <1>1, <1>2, <1>3, <1>4 DEF ReplicaInv

-----------------------------------------------------------------------------
(* What the answers add up to.                                             *)

\* The answer of a list is the answer of the latest message that has one.
LEMMA LatestAnswer ==
    ASSUME NEW s, IsSeq(s), NEW q, NEW v, Says(s, q, v),
           NEW I, I = {i \in DOMAIN s : Relevant(q, s[i])}
    PROVE  /\ I = {} => v = {}
           /\ I # {} => Latest(I) \in I /\ v = Tells(q, s[Latest(I)])
<1>0. Len(s) \in Nat /\ DOMAIN s = 1..Len(s)
    BY SeqFacts
<1>1. CASE v = {} /\ \A j \in DOMAIN s : ~Relevant(q, s[j])
    BY <1>1
<1>2. ASSUME NEW j \in DOMAIN s, LastIn(s, q, j), v = Tells(q, s[j])
      PROVE I # {} /\ Latest(I) \in I /\ v = Tells(q, s[Latest(I)])
  <2>1. j \in I /\ \A i \in I : i <= j
      BY <1>2 DEF LastIn
  <2>2. \A i \in I : (\A h \in I : h <= i) => i = j
      BY <1>0, <2>1
  <2>3. Latest(I) \in I /\ \A h \in I : h <= Latest(I)
      BY <2>1 DEF Latest
  <2>4. Latest(I) = j
      BY <2>2, <2>3
  <2> QED BY <1>2, <2>1, <2>4
<1> QED BY <1>1, <1>2 DEF Says

\* When everything has been handled, the stored state gives the last answer
\* to every question.
LEMMA QuietSays ==
    ASSUME NEW g, Ingestors = {g}, ReplicaInv(g), Quiet, NEW q, IsQuestion(q)
    PROVE  Says(reported[q.node], q, Shown(q)) /\ IsSeq(reported[q.node])
<1>0. Shaped /\ StoreLatest(g, q) /\ g \in Ingestors /\ g \in Procs /\ q.node \in Nodes
    BY DEF ReplicaInv, AnswerInv, ReportedInv, Procs, IsQuestion
<1>1. ~InHand(g, q)
    BY <1>0 DEF Quiet, InHand
<1>2. Len(inbox[g]) \in Nat /\ DOMAIN inbox[g] = 1..Len(inbox[g])
    BY <1>0, SeqFacts DEF Shaped
<1>3. next[g] \in 1..(Len(inbox[g]) + 1) /\ next[g] > Len(inbox[g])
    BY <1>0 DEF Shaped, Quiet
<1>4. ~Ahead(g, q)
    BY <1>2, <1>3 DEF Ahead
<1> QED BY <1>0, <1>1, <1>4 DEF StoreLatest, Shaped

\* The config of a node is the last one it reported.
LEMMA ConfigAnswer ==
    ASSUME NEW g, Ingestors = {g}, ReplicaInv(g), Quiet, NEW n \in Nodes
    PROVE  LET I == DOMAIN Said(n, "config") IN
           /\ n \in DOMAIN configs <=> I # {}
           /\ n \in DOMAIN configs => configs[n] = Said(n, "config")[Latest(I)]
<1> DEFINE q == [node |-> n, kind |-> "config"]
           s == reported[n]
           I == {i \in DOMAIN s : s[i].topic = "config"}
<1>0. q.node = n /\ q.kind = "config"
    OBVIOUS
<1>1. DOMAIN Said(n, "config") = I /\ \A i \in I : Said(n, "config")[i] = s[i].body
    BY DEF Said
<1>2. \A i \in DOMAIN s : s[i].node = n
    BY DEF ReplicaInv, ContentInv, ReportsSane
<1> HIDE DEF q
<1>3. IsQuestion(q)
    BY <1>0 DEF IsQuestion
<1>4. Says(s, q, Shown(q)) /\ IsSeq(s)
    BY <1>0, <1>3, QuietSays
<1>5. I = {i \in DOMAIN s : Relevant(q, s[i])}
    BY <1>0, <1>2 DEF Relevant
<1> DEFINE v == Shown(q)
<1> HIDE DEF s, I, v
<1>6. /\ I = {} => v = {}
      /\ I # {} => Latest(I) \in I /\ v = Tells(q, s[Latest(I)])
    BY <1>4, <1>5, LatestAnswer DEF v
<1>7. v = RowOf(configs, n)
    BY <1>0 DEF v, Shown
<1>8. \A m : Tells(q, m) = {m.body}
    BY <1>0 DEF Tells
<1> QED BY <1>1, <1>6, <1>7, <1>8 DEF RowOf

\* A node has a shadow when it has reported params.
LEMMA RowAnswer ==
    ASSUME NEW g, Ingestors = {g}, ReplicaInv(g), Quiet, NEW n \in Nodes
    PROVE  n \in DOMAIN shadow <=> DOMAIN Said(n, "params") # {}
<1> DEFINE q == [node |-> n, kind |-> "row"]
           s == reported[n]
           I == {i \in DOMAIN s : s[i].topic = "params"}
<1>0. q.node = n /\ q.kind = "row"
    OBVIOUS
<1>1. DOMAIN Said(n, "params") = I
    BY DEF Said
<1>2. \A i \in DOMAIN s : s[i].node = n
    BY DEF ReplicaInv, ContentInv, ReportsSane
<1> HIDE DEF q
<1>3. IsQuestion(q)
    BY <1>0 DEF IsQuestion
<1>4. Says(s, q, Shown(q)) /\ IsSeq(s)
    BY <1>0, <1>3, QuietSays
<1>5. I = {i \in DOMAIN s : Relevant(q, s[i])}
    BY <1>0, <1>2 DEF Relevant
<1> DEFINE v == Shown(q)
<1> HIDE DEF s, I, v
<1>6. /\ I = {} => v = {}
      /\ I # {} => Latest(I) \in I /\ v = Tells(q, s[Latest(I)])
    BY <1>4, <1>5, LatestAnswer DEF v
<1>7. v = {TRUE : k \in {n} \cap DOMAIN shadow}
    BY <1>0 DEF v, Shown
<1>8. \A m : Tells(q, m) = {TRUE}
    BY <1>0 DEF Tells
<1> QED BY <1>1, <1>6, <1>7, <1>8

\* What the shadow says of a device or of a param is what the last report
\* that speaks of it says.
LEMMA DocAnswer ==
    ASSUME NEW g, Ingestors = {g}, ReplicaInv(g), Quiet, NEW q, IsQuestion(q),
           q.kind \in {"device", "param"}
    PROVE  LET R == Said(q.node, "params")
               I == {i \in DOMAIN R : Names(q, R[i])}
               v == DocSays(q, get_user_node_params(q.node))
           IN /\ I = {} => v = {}
              /\ I # {} => Latest(I) \in I /\ v = DocSays(q, R[Latest(I)])
<1> DEFINE n == q.node
           s == reported[n]
           R == Said(n, "params")
           I == {i \in DOMAIN R : Names(q, R[i])}
           v == DocSays(q, get_user_node_params(n))
<1>1. /\ DOMAIN R = {i \in DOMAIN s : s[i].topic = "params"}
      /\ \A i \in DOMAIN R : R[i] = s[i].body
    BY DEF Said
<1>2. \A i \in DOMAIN s : s[i].node = n
    BY DEF ReplicaInv, ContentInv, ReportsSane, IsQuestion
<1>3. Says(s, q, Shown(q)) /\ IsSeq(s)
    BY QuietSays
<1>4. Shown(q) = v
    BY DEF Shown
<1>5. \A i \in DOMAIN s : Relevant(q, s[i]) <=> (s[i].topic = "params" /\ Names(q, s[i].body))
    BY <1>2 DEF Relevant, Names
<1> HIDE DEF s, R, v
<1>6. I = {i \in DOMAIN s : Relevant(q, s[i])}
    BY <1>1, <1>5
<1> HIDE DEF I
<1>7. /\ I = {} => v = {}
      /\ I # {} => Latest(I) \in I /\ v = Tells(q, s[Latest(I)])
    BY <1>3, <1>4, <1>6, LatestAnswer
<1>8. \A i \in I : Tells(q, s[i]) = DocSays(q, R[i])
    BY <1>1 DEF Tells, I
<1>9. I # {} => Latest(I) \in I /\ v = DocSays(q, R[Latest(I)])
    BY <1>7, <1>8
<1> QED BY <1>7, <1>9 DEF R, I, v, s

\* A device of the shadow is what the last report that names it says.
LEMMA DeviceAnswer ==
    ASSUME NEW g, Ingestors = {g}, ReplicaInv(g), Quiet, NEW n \in Nodes, NEW d
    PROVE  LET R == Said(n, "params")
               I == {i \in DOMAIN R : d \in DOMAIN R[i]}
               v == Kind(get_user_node_params(n), d)
           IN /\ I = {} => v = {}
              /\ I # {} => Latest(I) \in I /\ v = Kind(R[Latest(I)], d)
<1> DEFINE q == [node |-> n, kind |-> "device", device |-> d]
<1>0. q.node = n /\ q.kind = "device" /\ q.device = d
    OBVIOUS
<1> HIDE DEF q
<1>1. IsQuestion(q)
    BY <1>0 DEF IsQuestion
<1>2. \A doc : (Names(q, doc) <=> d \in DOMAIN doc) /\ DocSays(q, doc) = Kind(doc, d)
    BY <1>0 DEF Names, DocSays
<1> DEFINE R == Said(n, "params")
           I == {i \in DOMAIN R : Names(q, R[i])}
           v == DocSays(q, get_user_node_params(n))
<1>3. /\ I = {} => v = {}
      /\ I # {} => Latest(I) \in I /\ v = DocSays(q, R[Latest(I)])
    BY <1>0, <1>1, DocAnswer
<1>4. I = {i \in DOMAIN R : d \in DOMAIN R[i]} /\ v = Kind(get_user_node_params(n), d)
    BY <1>2
<1>5. DocSays(q, R[Latest(I)]) = Kind(R[Latest(I)], d)
    BY <1>2
<1> HIDE DEF I, v, R
<1> QED BY <1>3, <1>4, <1>5 DEF R

\* A param of the shadow has the value of the last report that speaks of it.
LEMMA ParamAnswer ==
    ASSUME NEW g, Ingestors = {g}, ReplicaInv(g), Quiet, NEW n \in Nodes, NEW d, NEW p
    PROVE  LET R == Said(n, "params")
               I == {i \in DOMAIN R : Speaks(R[i], d, p)}
               v == At(get_user_node_params(n), d, p)
           IN /\ I = {} => v = {}
              /\ I # {} => Latest(I) \in I /\ v = At(R[Latest(I)], d, p)
<1> DEFINE q == [node |-> n, kind |-> "param", device |-> d, param |-> p]
<1>0. q.node = n /\ q.kind = "param" /\ q.device = d /\ q.param = p
    OBVIOUS
<1> HIDE DEF q
<1>1. IsQuestion(q)
    BY <1>0 DEF IsQuestion
<1>2. \A doc : (Names(q, doc) <=> Speaks(doc, d, p)) /\ DocSays(q, doc) = At(doc, d, p)
    BY <1>0 DEF Names, DocSays
<1> DEFINE R == Said(n, "params")
           I == {i \in DOMAIN R : Names(q, R[i])}
           v == DocSays(q, get_user_node_params(n))
<1>3. /\ I = {} => v = {}
      /\ I # {} => Latest(I) \in I /\ v = DocSays(q, R[Latest(I)])
    BY <1>0, <1>1, DocAnswer
<1>4. I = {i \in DOMAIN R : Speaks(R[i], d, p)} /\ v = At(get_user_node_params(n), d, p)
    BY <1>2
<1>5. DocSays(q, R[Latest(I)]) = At(R[Latest(I)], d, p)
    BY <1>2
<1> HIDE DEF I, v, R
<1> QED BY <1>3, <1>4, <1>5 DEF R

\* The shadow of a node is what its reports add up to.
LEMMA ShadowAnswer ==
    ASSUME NEW g, Ingestors = {g}, ReplicaInv(g), Quiet, NEW n \in Nodes, n \in DOMAIN shadow
    PROVE  SumsUp(shadow[n], Said(n, "params"), ParamNames)
<1> DEFINE R == Said(n, "params")
           doc == shadow[n]
           Named(d) == {i \in DOMAIN R : d \in DOMAIN R[i]}
           Spoken(d, p) == {i \in DOMAIN R : Speaks(R[i], d, p)}
<1>0. get_user_node_params(n) = doc
    BY DEF get_user_node_params
<1>1. ASSUME NEW d
      PROVE /\ Named(d) = {} => Kind(doc, d) = {}
            /\ Named(d) # {} => /\ Latest(Named(d)) \in Named(d)
                                /\ Kind(doc, d) = Kind(R[Latest(Named(d))], d)
    BY <1>0, DeviceAnswer
<1>2. ASSUME NEW d, NEW p
      PROVE /\ Spoken(d, p) = {} => At(doc, d, p) = {}
            /\ Spoken(d, p) # {} => At(doc, d, p) = At(R[Latest(Spoken(d, p))], d, p)
    BY <1>0, ParamAnswer
<1> HIDE DEF R, doc
<1>3. ASSUME NEW d PROVE d \in DOMAIN doc <=> Named(d) # {}
  <2> DEFINE N == Named(d)
             j == Latest(N)
  <2>1. d \in DOMAIN doc <=> Kind(doc, d) # {}
      BY DEF Kind
  <2>2. N # {} => d \in DOMAIN R[j]
      BY <1>1
  <2>3. N # {} => Kind(R[j], d) # {}
      BY <2>2 DEF Kind
  <2> HIDE DEF j, N
  <2>4. (N = {} => Kind(doc, d) = {}) /\ (N # {} => Kind(doc, d) = Kind(R[j], d))
      BY <1>1 DEF j, N
  <2> QED BY <2>1, <2>3, <2>4 DEF N
<1>4. DOMAIN doc = UNION {DOMAIN R[i] : i \in DOMAIN R}
    BY <1>3
<1>5. ASSUME NEW d \in DOMAIN doc
      PROVE LET last == R[Latest(Named(d))][d] IN
            doc[d].isDict = last.isDict /\ doc[d].leaf = last.leaf
  <2> DEFINE j == Latest(Named(d))
  <2>1. d \in DOMAIN R[j] /\ Kind(doc, d) = Kind(R[j], d)
      BY <1>1, <1>3, <1>5
  <2> HIDE DEF j
  <2>2. Kind(doc, d) = {<<doc[d].isDict, doc[d].leaf>>}
      BY <1>5 DEF Kind
  <2>3. Kind(R[j], d) = {<<R[j][d].isDict, R[j][d].leaf>>}
      BY <2>1 DEF Kind
  <2>4. doc[d].isDict = R[j][d].isDict /\ doc[d].leaf = R[j][d].leaf
    <3> DEFINE a == doc[d].isDict
               x == doc[d].leaf
               b == R[j][d].isDict
               y == R[j][d].leaf
    <3>1. {<<a, x>>} = {<<b, y>>}
        BY <2>1, <2>2, <2>3
    <3> HIDE DEF a, x, b, y
    <3>2. <<a, x>> = <<b, y>>
        BY <3>1
    <3>3. a = b /\ x = y
        BY <3>2
    <3> QED BY <3>3 DEF a, x, b, y
  <2> QED BY <2>4 DEF j
<1>6. ASSUME NEW d \in DOMAIN doc, NEW p
      PROVE At(doc, d, p) = IF Spoken(d, p) = {} THEN {}
                            ELSE At(R[Latest(Spoken(d, p))], d, p)
  <2> DEFINE S == Spoken(d, p)
             w == At(R[Latest(S)], d, p)
  <2>1. (S = {} => At(doc, d, p) = {}) /\ (S # {} => At(doc, d, p) = w)
      BY <1>2
  <2> HIDE DEF S, w
  <2>2. At(doc, d, p) = IF S = {} THEN {} ELSE w
      BY <2>1
  <2> QED BY <2>2 DEF S, w
<1>7. SumsUp(doc, R, ParamNames)
    BY <1>4, <1>5, <1>6 DEF SumsUp
<1> QED BY <1>7 DEF doc, R

-----------------------------------------------------------------------------
(* The theorems for one replica.                                           *)

\* With one ingestor replica, the invariant above holds however phones,
\* devices, broker and replica interleave.
THEOREM ReplicaInvHolds ==
    ASSUME NEW g, Ingestors = {g}
    PROVE  RemoteSpec => []ReplicaInv(g)
<1>1. RemoteInit => ReplicaInv(g)
    BY ReplicaInit
<1>2. ReplicaInv(g) /\ [RemoteNext]_rvars => ReplicaInv(g)'
    BY ReplicaStep
<1> QED BY <1>1, <1>2, PTL DEF RemoteSpec

\* With one ingestor replica, once everything has been handled the shadow and
\* the config of every node are what the node's reports add up to: messages
\* sent again after a reconnect undo nothing that came after them
\* (_handle_params_local and _handle_config, mqtt/router.py;
\* upsert_params_shadow and upsert_node_config, services/node.py).
THEOREM OneReplicaConverges ==
    ASSUME NEW g, Ingestors = {g}
    PROVE  RemoteSpec => []ParamsConverge
<1>1. ReplicaInv(g) => ParamsConverge
  <2> SUFFICES ASSUME ReplicaInv(g), Quiet, NEW n \in Nodes PROVE UpToDate(n)
      BY DEF ParamsConverge
  <2>1. n \in DOMAIN shadow <=> DOMAIN Said(n, "params") # {}
      BY RowAnswer
  <2>2. n \in DOMAIN shadow => SumsUp(shadow[n], Said(n, "params"), ParamNames)
      BY ShadowAnswer
  <2>3. /\ n \in DOMAIN configs <=> DOMAIN Said(n, "config") # {}
        /\ n \in DOMAIN configs =>
              configs[n] = Said(n, "config")[Latest(DOMAIN Said(n, "config"))]
      BY ConfigAnswer
  <2> QED BY <2>1, <2>2, <2>3 DEF UpToDate
<1> QED BY <1>1, ReplicaInvHolds, PTL

\* With one ingestor replica, the config_version column of a row of
\* node_configs and its payload come from one report, though the UPDATE
\* writes only the columns that differ (upsert_node_config, services/node.py).
THEOREM OneReplicaConfigWhole ==
    ASSUME NEW g, Ingestors = {g}
    PROVE  RemoteSpec => []ConfigWhole
<1>1. ReplicaInv(g) => ConfigWhole
  <2> SUFFICES ASSUME ReplicaInv(g), NEW n \in DOMAIN configs
               PROVE \E i \in DOMAIN Said(n, "config") : configs[n] = Said(n, "config")[i]
      BY DEF ConfigWhole
  <2>1. PICK j \in DOMAIN reported[n] : /\ reported[n][j].topic = "config"
                                        /\ reported[n][j].body = configs[n]
      BY DEF ReplicaInv, ContentInv, ConfigsTold
  <2>2. j \in DOMAIN Said(n, "config") /\ Said(n, "config")[j] = reported[n][j].body
      BY <2>1 DEF Said
  <2> QED BY <2>1, <2>2
<1> QED BY <1>1, ReplicaInvHolds, PTL

\* With one ingestor replica, once everything has been handled the shadow the
\* phones read is the state the device is in: commands that were lost,
\* repeated or overtaken do not show, and commands that were obeyed do
\* (put_user_node_params and get_user_node_params, user_nodes.py; cmd_run,
\* fake_node.py).
THEOREM OneReplicaShowsDevice ==
    ASSUME NEW g, Ingestors = {g}
    PROVE  RemoteSpec => []AppSeesDevice
<1>1. ReplicaInv(g) => AppSeesDevice
  <2> SUFFICES ASSUME ReplicaInv(g), Quiet, NEW n \in Nodes
               PROVE LET shown == get_user_node_params(n) IN
                     /\ DOMAIN shown = DOMAIN actual[n]
                     /\ \A d \in DOMAIN shown :
                           /\ shown[d].isDict = actual[n][d].isDict
                           /\ \A p \in ParamNames : At(shown, d, p) = At(actual[n], d, p)
      BY DEF AppSeesDevice
  <2> DEFINE shown == get_user_node_params(n)
             state == actual[n]
  <2>1. ASSUME NEW q, IsQuestion(q), q.node = n, q.kind \in {"device", "param"}
        PROVE DocSays(q, shown) = DocSays(q, state)
    <3>1. Says(reported[n], q, Shown(q)) /\ IsSeq(reported[n])
        BY <2>1, QuietSays
    <3>2. Says(reported[n], q, DocSays(q, state))
        BY <2>1 DEF ReplicaInv, AnswerInv, DeviceLatest
    <3>3. Shown(q) = DocSays(q, shown)
        BY <2>1 DEF Shown
    <3>4. Shown(q) = DocSays(q, state)
        BY <3>1, <3>2, SaysOne
    <3> QED BY <3>3, <3>4
  <2>2. ASSUME NEW d PROVE Kind(shown, d) = Kind(state, d)
    <3> DEFINE q == [node |-> n, kind |-> "device", device |-> d]
    <3>1. q.node = n /\ q.kind = "device" /\ q.device = d
        OBVIOUS
    <3> HIDE DEF q, shown, state
    <3>2. DocSays(q, shown) = DocSays(q, state)
        BY <2>1, <3>1 DEF IsQuestion
    <3> QED BY <3>1, <3>2 DEF DocSays
  <2>3. ASSUME NEW d, NEW p PROVE At(shown, d, p) = At(state, d, p)
    <3> DEFINE q == [node |-> n, kind |-> "param", device |-> d, param |-> p]
    <3>1. q.node = n /\ q.kind = "param" /\ q.device = d /\ q.param = p
        OBVIOUS
    <3> HIDE DEF q, shown, state
    <3>2. DocSays(q, shown) = DocSays(q, state)
        BY <2>1, <3>1 DEF IsQuestion
    <3> QED BY <3>1, <3>2 DEF DocSays
  <2> HIDE DEF shown, state
  <2>4. \A d : d \in DOMAIN shown <=> d \in DOMAIN state
      BY <2>2 DEF Kind
  <2>5. ASSUME NEW d \in DOMAIN shown PROVE shown[d].isDict = state[d].isDict
    <3> DEFINE a == shown[d].isDict
               x == shown[d].leaf
               b == state[d].isDict
               y == state[d].leaf
    <3>1. Kind(shown, d) = {<<a, x>>} /\ Kind(state, d) = {<<b, y>>}
        BY <2>4, <2>5 DEF Kind
    <3> HIDE DEF a, x, b, y
    <3>2. <<a, x>> = <<b, y>>
        BY <2>2, <3>1
    <3>3. a = b
        BY <3>2
    <3> QED BY <3>3 DEF a, b
  <2>6. DOMAIN shown = DOMAIN state
      BY <2>4
  <2> QED BY <2>3, <2>5, <2>6 DEF shown, state
<1> QED BY <1>1, ReplicaInvHolds, PTL

=============================================================================
