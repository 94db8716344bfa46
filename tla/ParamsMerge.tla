---------------------------- MODULE ParamsMerge -----------------------------
(***************************************************************************)
(* The params documents devices report and the merge that folds a report   *)
(* into the stored shadow.  A document is a partial function from device   *)
(* names to values; a value is a dict of params or something else (leaf).  *)
(***************************************************************************)
EXTENDS Naturals

\* {**f, **g}: both, g's entries first.
Override(f, g) ==
    [x \in DOMAIN f \cup DOMAIN g |-> IF x \in DOMAIN g THEN g[x] ELSE f[x]]

NoParams == [p \in {} |-> 0]

Dict(f) == [isDict |-> TRUE, params |-> f, leaf |-> 0]
Leaf(x) == [isDict |-> FALSE, params |-> NoParams, leaf |-> x]

\* A document: every value is the one or the other.
IsDoc(doc) ==
    doc = [d \in DOMAIN doc |->
             IF doc[d].isDict
             THEN Dict([p \in DOMAIN doc[d].params |-> doc[d].params[p]])
             ELSE Leaf(doc[d].leaf)]

Bug_Shallow(current, update) == Override(current, update)

\* Two dicts of one device are joined, anything else replaces what was there.
MergeParams(current, update) ==
    [d \in DOMAIN current \cup DOMAIN update |->
        IF d \notin DOMAIN update THEN current[d]
        ELSE IF d \in DOMAIN current /\ current[d].isDict /\ update[d].isDict
             THEN Dict(Override(current[d].params, update[d].params))
             ELSE update[d]]

-----------------------------------------------------------------------------
(* The reference: which values a sequence of reports adds up to.           *)

\* The value of param p of device d, as a set of at most one element.
At(doc, d, p) ==
    IF d \in DOMAIN doc /\ doc[d].isDict /\ p \in DOMAIN doc[d].params
    THEN {doc[d].params[p]} ELSE {}

\* Whether a report says anything about param p of device d.
Speaks(doc, d, p) ==
    d \in DOMAIN doc /\ (doc[d].isDict => p \in DOMAIN doc[d].params)

\* The largest of some indices.
Latest(I) == CHOOSE i \in I : \A j \in I : j <= i

\* doc is what the reports add up to: every param has the value the last
\* report that speaks of it gives it, and every device is a dict or a leaf
\* as the last report that names it says.
SumsUp(doc, reports, Params) ==
    LET Named(d) == {i \in DOMAIN reports : d \in DOMAIN reports[i]}
        Spoken(d, p) == {i \in DOMAIN reports : Speaks(reports[i], d, p)}
    IN /\ DOMAIN doc = UNION {DOMAIN reports[i] : i \in DOMAIN reports}
       /\ \A d \in DOMAIN doc :
             LET last == reports[Latest(Named(d))][d] IN
             /\ doc[d].isDict = last.isDict
             /\ doc[d].leaf = last.leaf
             /\ \A p \in Params :
                   At(doc, d, p) =
                     IF Spoken(d, p) = {} THEN {}
                     ELSE At(reports[Latest(Spoken(d, p))], d, p)
=============================================================================
