--------------------------- MODULE IngressProofs ----------------------------
(***************************************************************************)
(* Theorems about what comes in from the devices.                          *)
(*                                                                         *)
(* Broker, with Spec: who may speak for a node, and whether it is shown    *)
(* online; for any node ids, topics, filters and handlers and any number   *)
(* of waiting announcements.                                               *)
(*                                                                         *)
(* TsData, with TsSpec: what becomes of the points a node sends, and what  *)
(* an app reads of them; for any batches, any number of messages,          *)
(* deliveries, replicas and readers.                                       *)
(*                                                                         *)
(* The two specifications share no variable; no theorem is about both.     *)
(***************************************************************************)
EXTENDS Broker, TsData, FiniteSetTheorems, WellFoundedInduction, TLAPS

-----------------------------------------------------------------------------
(* The broker's webhooks.                                                  *)

\* What the client's latest announcement says, if it has made one.
Due(c) == IF session[c] = "up" THEN "online" ELSE "offline"

\* The last announcement waiting tells how the client stands now, and when
\* none is waiting the one whose answer the broker awaits does.
Queued(c) ==
    events[c] # <<>> => events[c][Len(events[c])] = Due(c)

Asked(c) ==
    events[c] = <<>> =>
        \A h \in Serving(c) : call[h].awaited => call[h].kind = Due(c)

Announced == \A c \in Clients : Queued(c) /\ Asked(c)

Inv == TypeOK /\ PresenceSettles /\ Announced

-----------------------------------------------------------------------------
(* Types.                                                                  *)

\* The initial state satisfies the invariant: nobody is connected, nobody is
\* recorded online.
LEMMA InitInv == Init => Inv
<1> SUFFICES ASSUME Init PROVE Inv
    OBVIOUS
<1> USE DEF Init
<1>1. TypeOK
    BY DEF TypeOK, Call
<1>2. PresenceSettles
    BY DEF PresenceSettles, get_user_node_status, Clients
<1>3. Announced
    BY DEF Announced, Queued, Asked, Serving, Idle
<1> QED BY <1>1, <1>2, <1>3 DEF Inv

\* A request that is being served carries a client and an announcement.
LEMMA CallTypes ==
  ASSUME TypeOK, NEW h \in Handlers, call[h].pc = "mark"
  PROVE /\ call[h] \in [pc : {"mark"}, client : Clients,
                        kind : {"online", "offline"}, awaited : BOOLEAN]
        /\ call[h].client \in Clients
        /\ call[h].kind \in {"online", "offline"}
        /\ call[h].awaited \in BOOLEAN
<1>1. call[h] \in [pc : {"mark"}, client : Clients,
                   kind : {"online", "offline"}, awaited : BOOLEAN]
    BY DEF TypeOK, Call, Idle
<1> QED BY <1>1

\* Every step preserves the types.
LEMMA TypeStep ==
  ASSUME TypeOK, [Next]_vars
  PROVE TypeOK'
<1> USE DEF TypeOK
<1>1. ASSUME NEW n \in Ids, Issue(n) \/ Revoke(n) PROVE TypeOK'
    BY <1>1 DEF Issue, Revoke
<1>2. ASSUME NEW c \in Clients, Register(c) PROVE TypeOK'
    BY <1>2 DEF Register
<1>3. ASSUME NEW c \in Clients, Connect(c) PROVE TypeOK'
    BY <1>3 DEF Connect, Announce
<1>4. ASSUME NEW c \in Clients, Disconnect(c) PROVE TypeOK'
    BY <1>4 DEF Disconnect, Announce
<1>5. ASSUME NEW c \in Clients, NEW h \in Handlers, Hook(c, h) PROVE TypeOK'
  <2>1. Head(events[c]) \in {"online", "offline"}
        /\ Tail(events[c]) \in Seq({"online", "offline"})
      BY <1>5 DEF Hook
  <2>2. [pc |-> "mark", client |-> c, kind |-> Head(events[c]), awaited |-> TRUE] \in Call
      BY <2>1 DEF Call
  <2> QED BY <1>5, <2>1, <2>2 DEF Hook
<1>6. ASSUME NEW h \in Handlers, Timeout(h) PROVE TypeOK'
  <2>1. call[h] \in [pc : {"mark"}, client : Clients,
                     kind : {"online", "offline"}, awaited : BOOLEAN]
      BY <1>6, CallTypes DEF Timeout
  <2>2. [call[h] EXCEPT !.awaited = FALSE] \in Call
      BY <2>1 DEF Call
  <2>3. call' \in [Handlers -> Call]
      BY <1>6, <2>2 DEF Timeout
  <2> QED BY <1>6, <2>1, <2>3 DEF Timeout
<1>7. ASSUME NEW h \in Handlers, Mark(h) PROVE TypeOK'
  <2>1. Idle \in Call /\ call[h].client \in Clients /\ call[h].awaited \in BOOLEAN
      BY <1>7, CallTypes DEF Mark, Call
  <2>2. online' \in [Ids -> BOOLEAN]
      BY <1>7, <2>1 DEF Mark, Marked, is_backend, Clients
  <2> DEFINE good == call[h].awaited /\ Serving(call[h].client) = {h}
  <2>3. good \in BOOLEAN
      BY <2>1
  <2>4. settled' = [settled EXCEPT ![call[h].client] = good]
      BY <1>7 DEF Mark
  <2> HIDE DEF good
  <2>5. settled' \in [Clients -> BOOLEAN]
      BY <2>3, <2>4
  <2> QED BY <1>7, <2>1, <2>2, <2>5 DEF Mark
<1>8. ASSUME NEW h \in Handlers, Fail(h) PROVE TypeOK'
    BY <1>8, CallTypes DEF Fail, Call
<1>9. CASE UNCHANGED vars
    BY <1>9 DEF vars
<1> QED BY <1>1, <1>2, <1>3, <1>4, <1>5, <1>6, <1>7, <1>8, <1>9 DEF Next

-----------------------------------------------------------------------------
(* The invariant, client by client.                                        *)

Settles(c) ==
    (c \in Ids /\ settled[c] /\ events[c] = <<>> /\ Serving(c) = {})
        => (online[c] <=> session[c] = "up")

ClientInv(c) == Queued(c) /\ Asked(c) /\ Settles(c)

\* A step that has nothing to do with a client.
Apart(c) == /\ events'[c] = events[c] /\ session'[c] = session[c]
            /\ settled'[c] = settled[c]
            /\ Serving(c)' = Serving(c)
            /\ \A h \in Serving(c) : call'[h] = call[h]
            /\ c \in Ids => online'[c] = online[c]

\* Such a step leaves what holds of the client alone.
LEMMA ApartStep ==
  ASSUME NEW c \in Clients, ClientInv(c), Apart(c)
  PROVE ClientInv(c)'
<1>1. Queued(c)'
    BY DEF ClientInv, Apart, Queued, Due
<1>2. Asked(c)'
    BY DEF ClientInv, Apart, Asked, Due
<1>3. Settles(c)'
    BY DEF ClientInv, Apart, Settles
<1> QED BY <1>1, <1>2, <1>3 DEF ClientInv

\* A change of one handler's request concerns the client it had and the one
\* it gets.
LEMMA ServingStep ==
  ASSUME TypeOK, NEW h \in Handlers, NEW r, call' = [call EXCEPT ![h] = r], NEW c
  PROVE /\ (r.pc = "mark" /\ r.client = c) => Serving(c)' = Serving(c) \cup {h}
        /\ ~(r.pc = "mark" /\ r.client = c) => Serving(c)' = Serving(c) \ {h}
        /\ \A g \in Serving(c) \ {h} : call'[g] = call[g]
        /\ call'[h] = r
BY DEF Serving, TypeOK

\* Connecting or disconnecting puts the announcement that is due last.
LEMMA AnnounceStep ==
  ASSUME TypeOK, NEW c \in Clients, ClientInv(c), UNCHANGED <<online, call, settled>>,
         session'[c] \in {"none", "up"},
         Announce(c, IF session'[c] = "up" THEN "online" ELSE "offline")
  PROVE ClientInv(c)'
<1> DEFINE kind == IF session'[c] = "up" THEN "online" ELSE "offline"
<1>1. events'[c] = Append(events[c], kind)
    BY DEF Announce, TypeOK
<1>2. events[c] \in Seq({"online", "offline"}) /\ kind \in {"online", "offline"}
    BY DEF TypeOK
<1> HIDE DEF kind
<1>3. events'[c] # <<>> /\ events'[c][Len(events'[c])] = kind
    BY <1>1, <1>2
<1>4. kind = Due(c)'
    BY DEF kind, Due
<1> QED BY <1>3, <1>4 DEF ClientInv, Queued, Asked, Settles

\* The call the broker makes carries the first announcement waiting, which is
\* the last one if no other waits.
LEMMA HookStep ==
  ASSUME TypeOK, NEW c \in Clients, ClientInv(c), NEW h \in Handlers, Hook(c, h)
  PROVE ClientInv(c)'
<1> DEFINE r == [pc |-> "mark", client |-> c, kind |-> Head(events[c]), awaited |-> TRUE]
<1>1. events[c] \in Seq({"online", "offline"}) /\ events[c] # <<>>
    BY DEF Hook, TypeOK
<1>2. events'[c] = Tail(events[c]) /\ session' = session
    BY DEF Hook, TypeOK
<1>3. /\ Serving(c)' = Serving(c) \cup {h}
      /\ \A g \in Serving(c) \ {h} : call'[g] = call[g]
      /\ call'[h] = r
  <2>1. r.pc = "mark" /\ r.client = c /\ call' = [call EXCEPT ![h] = r]
      BY DEF Hook
  <2> HIDE DEF r
  <2> QED BY <2>1, ServingStep
<1>4. h \in Serving(c)'
    BY <1>3
<1>5. Queued(c)'
  <2>1. events'[c] # <<>> => events'[c][Len(events'[c])] = events[c][Len(events[c])]
      BY <1>1, <1>2
  <2> QED BY <1>1, <1>2, <2>1 DEF Queued, ClientInv, Due
<1>6. Asked(c)'
  <2>1. ASSUME events'[c] = <<>> PROVE Head(events[c]) = events[c][Len(events[c])]
    <3> DEFINE e == events[c]
    <3>1. e \in Seq({"online", "offline"}) /\ e # <<>> /\ Tail(e) = <<>>
        BY <1>1, <1>2, <2>1
    <3> HIDE DEF e
    <3>2. Len(Tail(e)) = Len(<<>>)
        BY <3>1, Zenon
    <3>3. Len(e) = 1
        BY <3>1, <3>2
    <3>4. Head(e) = e[Len(e)]
        BY <3>1, <3>3
    <3> QED BY <3>4 DEF e
  <2>2. \A g \in Serving(c) : ~call[g].awaited
      BY DEF Hook
  <2>3. events'[c] = <<>> => call'[h].kind = Due(c)'
    <3>1. call'[h].kind = Head(events[c])
        BY <1>3
    <3>2. events[c][Len(events[c])] = Due(c) /\ Due(c)' = Due(c)
        BY <1>1, <1>2 DEF ClientInv, Queued, Due
    <3> QED BY <2>1, <3>1, <3>2
  <2>4. \A g \in Serving(c) \ {h} : ~call'[g].awaited
      BY <1>3, <2>2
  <2> QED BY <1>3, <2>3, <2>4 DEF Asked
<1>7. Settles(c)'
    BY <1>4 DEF Settles
<1> QED BY <1>5, <1>6, <1>7 DEF ClientInv

\* A call the broker gives up on unsettles its client.
LEMMA TimeoutStep ==
  ASSUME TypeOK, NEW c \in Clients, ClientInv(c),
         NEW h \in Handlers, call[h].client = c, Timeout(h)
  PROVE ClientInv(c)'
<1> DEFINE r == [call[h] EXCEPT !.awaited = FALSE]
<1>1. call[h] \in [pc : {"mark"}, client : Clients, kind : {"online", "offline"},
                   awaited : BOOLEAN]
    BY CallTypes DEF Timeout
<1>2. r.pc = "mark" /\ r.client = c /\ ~r.awaited
    BY <1>1
<1>3. call' = [call EXCEPT ![h] = r]
    BY DEF Timeout
<1>4. h \in Serving(c)
    BY <1>1 DEF Serving, Timeout
<1> HIDE DEF r
<1>5. /\ Serving(c)' = Serving(c)
      /\ \A g \in Serving(c) \ {h} : call'[g] = call[g]
      /\ call'[h] = r
  <2>1. Serving(c)' = Serving(c) \cup {h}
      BY <1>2, <1>3, ServingStep
  <2>2. (\A g \in Serving(c) \ {h} : call'[g] = call[g]) /\ call'[h] = r
      BY <1>3, ServingStep
  <2> QED BY <1>4, <2>1, <2>2
<1>6. ~settled'[c] /\ UNCHANGED <<session, events>>
    BY DEF Timeout, TypeOK
<1>7. Queued(c)' /\ Settles(c)'
    BY <1>6 DEF ClientInv, Queued, Settles, Due
<1>8. Asked(c)'
    BY <1>2, <1>5, <1>6 DEF ClientInv, Asked, Due
<1> QED BY <1>7, <1>8 DEF ClientInv

\* A call that ends in time, with no other running, leaves the record as the
\* last announcement says; one that fails unsettles its client.
LEMMA EndStep ==
  ASSUME TypeOK, NEW c \in Clients, ClientInv(c),
         NEW h \in Handlers, call[h].client = c, Mark(h) \/ Fail(h)
  PROVE ClientInv(c)'
<1>1. call[h].pc = "mark" /\ call' = [call EXCEPT ![h] = Idle] /\ UNCHANGED <<session, events>>
    BY DEF Mark, Fail
<1>2. /\ Serving(c)' = Serving(c) \ {h}
      /\ \A g \in Serving(c) \ {h} : call'[g] = call[g]
  <2> DEFINE r == Idle
  <2>1. r.pc # "mark" /\ call' = [call EXCEPT ![h] = r]
      BY <1>1 DEF Idle
  <2> HIDE DEF r
  <2> QED BY <2>1, ServingStep
<1>3. h \in Serving(c)
    BY <1>1 DEF Serving
<1>4. Queued(c)' /\ Asked(c)'
    BY <1>1, <1>2 DEF ClientInv, Queued, Asked, Due
<1>5. ASSUME c \in Ids, settled'[c], events'[c] = <<>>
      PROVE online'[c] <=> session'[c] = "up"
  <2>1. Mark(h)
      BY <1>5 DEF Fail, TypeOK
  <2>2. call[h].awaited /\ Serving(c) = {h}
    <3> DEFINE good == call[h].awaited /\ Serving(c) = {h}
    <3>1. settled' = [settled EXCEPT ![c] = good]
        BY <2>1 DEF Mark
    <3> HIDE DEF good
    <3>2. settled'[c] = good
        BY <3>1 DEF TypeOK
    <3>3. good
        BY <1>5, <3>2
    <3> QED BY <3>3 DEF good
  <2>3. call[h].kind = Due(c)
      BY <1>1, <1>3, <1>5, <2>2 DEF ClientInv, Asked
  <2>4. online'[c] = (call[h].kind = "online")
      BY <1>5, <2>1, BrokerAssumption DEF Mark, Marked, is_backend, TypeOK
  <2> QED BY <1>1, <2>3, <2>4 DEF Due
<1>6. Settles(c)'
    BY <1>5 DEF Settles
<1> QED BY <1>4, <1>6 DEF ClientInv

-----------------------------------------------------------------------------
(* The invariant is inductive.                                             *)

\* Every step preserves what holds of every client.
LEMMA ClientStep ==
  ASSUME TypeOK, [Next]_vars, NEW c \in Clients, ClientInv(c)
  PROVE ClientInv(c)'
<1> USE DEF TypeOK
<1>1. ASSUME UNCHANGED <<online, session, events, call, settled>> PROVE ClientInv(c)'
  <2>1. Apart(c)
      BY <1>1 DEF Apart, Serving
  <2> QED BY <2>1, ApartStep
<1>2. ASSUME NEW n \in Ids, Issue(n) \/ Revoke(n) PROVE ClientInv(c)'
    BY <1>1, <1>2 DEF Issue, Revoke
<1>3. ASSUME NEW d \in Clients, Register(d) PROVE ClientInv(c)'
  <2>1. /\ UNCHANGED <<online, events, call, settled>>
        /\ (session'[c] = "up") = (session[c] = "up")
        /\ Due(c)' = Due(c)
      BY <1>3 DEF Register, Due
  <2> QED BY <2>1 DEF ClientInv, Queued, Asked, Settles, Serving
<1>4. ASSUME NEW d \in Clients, Connect(d) \/ Disconnect(d) PROVE ClientInv(c)'
  <2>1. CASE c = d
    <3>1. UNCHANGED <<online, call, settled>> /\ session'[c] \in {"none", "up"}
        BY <1>4, <2>1 DEF Connect, Disconnect
    <3>2. Announce(c, IF session'[c] = "up" THEN "online" ELSE "offline")
        BY <1>4, <2>1 DEF Connect, Disconnect
    <3> QED BY <3>1, <3>2, AnnounceStep
  <2>2. CASE c # d
    <3>1. Apart(c)
        BY <1>4, <2>2 DEF Connect, Disconnect, Announce, Apart, Serving
    <3> QED BY <3>1, ApartStep
  <2> QED BY <2>1, <2>2
<1>5. ASSUME NEW d \in Clients, NEW h \in Handlers, Hook(d, h) PROVE ClientInv(c)'
  <2>1. CASE c # d
    <3>1. Apart(c)
        BY <1>5, <2>1 DEF Hook, Apart, Serving
    <3> QED BY <3>1, ApartStep
  <2> QED BY <1>5, <2>1, HookStep
<1>6. ASSUME NEW h \in Handlers, Timeout(h) PROVE ClientInv(c)'
  <2>1. CASE c # call[h].client
    <3>1. call[h].client \in Clients
        BY <1>6, CallTypes DEF Timeout
    <3>2. \A g \in Handlers : g # h => call'[g] = call[g]
        BY <1>6 DEF Timeout
    <3>3. call'[h].client = call[h].client
      <4>1. call[h] \in [pc : {"mark"}, client : Clients,
                         kind : {"online", "offline"}, awaited : BOOLEAN]
          BY <1>6, CallTypes DEF Timeout
      <4> QED BY <1>6, <4>1 DEF Timeout
    <3>4. Serving(c)' = Serving(c) /\ \A g \in Serving(c) : call'[g] = call[g]
        BY <2>1, <3>2, <3>3 DEF Serving
    <3>5. Apart(c)
        BY <1>6, <2>1, <3>1, <3>4 DEF Timeout, Apart
    <3> QED BY <3>5, ApartStep
  <2> QED BY <1>6, <2>1, TimeoutStep
<1>7. ASSUME NEW h \in Handlers, Mark(h) \/ Fail(h) PROVE ClientInv(c)'
  <2>1. CASE c # call[h].client
    <3>1. call[h].client \in Clients
        BY <1>7, CallTypes DEF Mark, Fail
    <3>2. Serving(c)' = Serving(c) /\ \A g \in Serving(c) : call'[g] = call[g]
        BY <1>7, <2>1 DEF Mark, Fail, Serving, Idle
    <3>3. settled'[c] = settled[c] /\ UNCHANGED <<session, events>>
        BY <1>7, <2>1, <3>1 DEF Mark, Fail
    <3>4. c \in Ids => online'[c] = online[c]
        BY <1>7, <2>1, <3>1 DEF Mark, Marked, Fail, is_backend, Clients
    <3> QED BY <3>2, <3>3, <3>4, ApartStep DEF Apart
  <2> QED BY <1>7, <2>1, EndStep
<1>8. CASE UNCHANGED vars
    BY <1>1, <1>8 DEF vars
<1> QED BY <1>2, <1>3, <1>4, <1>5, <1>6, <1>7, <1>8 DEF Next

\* Every step preserves the invariant.
LEMMA InvStep == Inv /\ [Next]_vars => Inv'
<1> SUFFICES ASSUME Inv, [Next]_vars PROVE Inv'
    OBVIOUS
<1>1. \A c \in Clients : ClientInv(c)
    BY DEF Inv, PresenceSettles, Announced, ClientInv, Settles, get_user_node_status
<1>2. \A c \in Clients : ClientInv(c)'
    BY <1>1, ClientStep DEF Inv
<1>3. Announced'
    BY <1>2 DEF Announced, ClientInv
<1>4. PresenceSettles'
    BY <1>2 DEF PresenceSettles, ClientInv, Settles, get_user_node_status, Clients
<1> QED BY <1>3, <1>4, TypeStep DEF Inv

-----------------------------------------------------------------------------
(* The theorems.                                                           *)

\* The invariant holds of every behaviour.
THEOREM InvHolds == Spec => []Inv
BY InitInv, InvStep, PTL DEF Spec

\* The certificates, the record of who is online and the calls keep their
\* types.
THEOREM TypeCorrect == Spec => []TypeOK
<1>1. Inv => TypeOK
    BY DEF Inv
<1> QED BY <1>1, InvHolds, PTL

\* A node whose last announcement was answered in time, alone, is recorded as
\* it stands, however many failed or came late before
\* (mark_online and mark_offline, vmq_authz.py).
THEOREM PresenceIsRight == Spec => []PresenceSettles
<1>1. Inv => PresenceSettles
    BY DEF Inv
<1> QED BY <1>1, InvHolds, PTL

\* The prefix test lets a device publish only what the router reads as its
\* own, whatever the ids and the topics (_allowed_topic, vmq_authz.py).
THEOREM ReportsOwn == Spec => []ReportsAreOwn
<1>1. ReportsAreOwn
    BY BrokerAssumption
       DEF ReportsAreOwn, authorise_publish, is_backend, allowed_topic, split_topic
<1> QED BY <1>1, PTL

\* A filter that passes the prefix test fixes the level of the node id: the
\* wildcards a device may use come after it (authorise_subscribe,
\* vmq_authz.py).
LEMMA FilterFixesNode ==
  ASSUME NEW n \in Ids, NEW f \in Filters, NEW t \in Topics,
         allowed_topic(n, f), Matches(f, t)
  PROVE split_topic(t) = n
<1>1. Len(f) \in Nat /\ Len(f) >= 3 /\ f[2] = n /\ n # Plus
    BY BrokerAssumption DEF allowed_topic
<1> DEFINE k == IF f # <<>> /\ f[Len(f)] = Hash THEN Len(f) - 1 ELSE Len(f)
<1>2. 2 \in 1..k
    BY <1>1
<1>3. \A j \in 1..k : f[j] \in {t[j], Plus}
    BY DEF Matches
<1> HIDE DEF k
<1> QED BY <1>1, <1>2, <1>3 DEF split_topic

\* No subscription a device is granted reaches a topic of another node,
\* whatever the filters and the topics (authorise_subscribe, vmq_authz.py).
THEOREM SubscriptionsOwn == Spec => []DeafToOthers
<1>1. DeafToOthers
    BY BrokerAssumption, FilterFixesNode DEF DeafToOthers, authorise_subscribe, is_backend
<1> QED BY <1>1, PTL

-----------------------------------------------------------------------------
(* Time series: from the batch to the answer.                              *)

\* The rows a delivery has left in the table, and those of its first K
\* entries.
Mine(m, d) == {x \in tsdata : x.at[1] = m /\ x.at[2] = d}

Upto(m, d, K) == UNION {RowsOf(m, d, k) : k \in 1..K}

\* A delivery has its number, which none had before.
DeliveryInv ==
    /\ \A m \in waiting : deliveries[m] < MaxDeliveries
    /\ \A m \in Messages : m \notin DOMAIN sent => deliveries[m] = 0

\* Of a message in hand the entries before the next one are stored, and no
\* more: none of them fails.
InHand(g) ==
    /\ hand[g].msg \in DOMAIN sent
    /\ hand[g].delivery \in 1..deliveries[hand[g].msg]
    /\ hand[g].next \in 1..Len(sent[hand[g].msg]) + 1
    /\ 1..hand[g].next - 1 \subseteq Storable(hand[g].msg)
    /\ Mine(hand[g].msg, hand[g].delivery)
         = Upto(hand[g].msg, hand[g].delivery, hand[g].next - 1)

HandInv == \A g \in Ingestors : hand[g].pc = "entries" => InHand(g)

\* No two replicas work on the same delivery.
OwnDeliveries ==
    \A g, h \in Ingestors :
        (/\ hand[g].pc = "entries" /\ hand[h].pc = "entries"
         /\ hand[g].msg = hand[h].msg /\ hand[g].delivery = hand[h].delivery)
        => g = h

\* A row comes from a delivery that was made.
RowInv ==
    /\ IsFiniteSet(tsdata)
    /\ \A x \in tsdata : /\ x.at[1] \in DOMAIN sent
                         /\ x.at[2] \in 1..deliveries[x.at[1]]

\* Some replica has delivery d of message m in hand.
Held(m, d) ==
    \E g \in Ingestors : /\ hand[g].pc = "entries" /\ hand[g].msg = m
                         /\ hand[g].delivery = d

\* What WholeEntries says of one delivery and the number K of its entries that
\* are stored.
WholeUpto(m, d, K) ==
    /\ K \in 0..Len(sent[m])
    /\ 1..K \subseteq Storable(m)
    /\ Mine(m, d) = Upto(m, d, K)
    /\ d <= deliveries[m] /\ m \notin lost => 1..K = Storable(m) \/ Held(m, d)

StoreInv == /\ TsTypeOK /\ DeliveryInv /\ HandInv /\ OwnDeliveries /\ RowInv
            /\ WholeEntries

\* An entry of a batch that was sent is an entry, and so are its records.
LEMMA EntryTypes ==
    ASSUME TsTypeOK, NEW m \in DOMAIN sent
    PROVE  /\ m \in Messages /\ sent[m] \in Seq(Entry)
           /\ \A k \in 1..Len(sent[m]) :
                /\ sent[m][k].series \in Series \cup {NoSeries}
                /\ sent[m][k].dt \in Types
                /\ sent[m][k].records \in Seq([t : Times \cup {NoTime}, v : Values])
<1>1. m \in 1..Len(sent) /\ Len(sent) \in Nat /\ sent[m] \in Batches
    BY DEF TsTypeOK
<1>2. sent[m] \in Seq(Entry)
    BY <1>1, TsDataAssumption
<1>3. \A k \in 1..Len(sent[m]) : sent[m][k] \in Entry
    BY <1>2
<1>4. m \in 1..MaxMessages
    BY <1>1, TsDataAssumption DEF TsTypeOK
<1>5. ASSUME NEW k \in 1..Len(sent[m])
      PROVE  /\ sent[m][k].series \in Series \cup {NoSeries}
             /\ sent[m][k].dt \in Types
             /\ sent[m][k].records \in Seq([t : Times \cup {NoTime}, v : Values])
    BY <1>3 DEF Entry
<1> QED BY <1>2, <1>4, <1>5 DEF Messages

\* The rows of an entry that does not fail are rows, named after their
\* delivery.
LEMMA RowTypes ==
    ASSUME TsTypeOK, NEW m \in DOMAIN sent, NEW d \in 1..MaxDeliveries,
           NEW k \in 1..Len(sent[m]), ~EntryFails(sent[m][k])
    PROVE  RowsOf(m, d, k) \subseteq Row
<1> DEFINE e == sent[m][k]
<1>0. m \in Messages /\ Len(sent[m]) \in Nat
    BY EntryTypes
<1>a. /\ e.series \in Series \cup {NoSeries} /\ e.dt \in Types
      /\ e.records \in Seq([t : Times \cup {NoTime}, v : Values])
    BY EntryTypes
<1>1. /\ m \in Messages /\ k \in Nat
      /\ e.series \in Series \cup {NoSeries} /\ e.dt \in Types
      /\ e.records \in Seq([t : Times \cup {NoTime}, v : Values])
    BY <1>0, <1>a
<1> HIDE DEF e
<1>2. SUFFICES ASSUME e.series # NoSeries, NEW i \in Points(e)
               PROVE  [series |-> e.series, ts |-> e.records[i].t, dt |-> e.dt,
                       value |-> Coerced(e.dt, e.records[i].v),
                       at |-> <<m, d, k, i>>] \in Row
    BY DEF RowsOf, e
<1>3. e.series \in Series
    BY <1>1, <1>2
<1>4. /\ i \in Nat /\ e.records[i].t \in Times /\ e.records[i].v \in Values
    <2>1. i \in 1..Len(e.records) /\ e.records[i].t # NoTime
        BY <1>2 DEF Points
    <2>2. Len(e.records) \in Nat
        BY <1>1
    <2>3. e.records[i] \in [t : Times \cup {NoTime}, v : Values]
        <3> DEFINE Rec == [t : Times \cup {NoTime}, v : Values]
                   recs == e.records
        <3>1. recs \in Seq(Rec) /\ i \in 1..Len(recs)
            BY <1>1, <2>1
        <3> HIDE DEF Rec, recs
        <3>2. recs[i] \in Rec
            BY <3>1
        <3> QED BY <3>2 DEF Rec, recs
    <2> QED BY <2>1, <2>2, <2>3
<1>5. Coercible(e.dt, e.records[i].v)
    BY <1>2, <1>3 DEF EntryFails, e
<1>6. Coerced(e.dt, e.records[i].v) \in Nat \cup {Word, None}
    <2> DEFINE v == e.records[i].v
    <2>1. v \in Nat \cup {Word, None}
        BY <1>4, TsDataAssumption DEF Values
    <2>2. CASE value_column(e.dt) = "int"
        <3>1. v \in Nat
            BY <1>5, <2>2, TsDataAssumption DEF Coercible
        <3>2. v - (v % 2) \in Nat
            BY <3>1
        <3> QED BY <2>2, <3>2 DEF Coerced
    <2>3. CASE value_column(e.dt) # "int"
        BY <2>1, <2>3 DEF Coerced
    <2> QED BY <2>2, <2>3
<1>7. <<m, d, k, i>> \in Messages \X (1..MaxDeliveries) \X Nat \X Nat
    BY <1>1, <1>4
<1> QED BY <1>1, <1>3, <1>4, <1>6, <1>7 DEF Row

\* Every row of an entry carries the delivery it comes from.
LEMMA RowOrigin ==
    ASSUME NEW m, NEW d, NEW k, NEW x \in RowsOf(m, d, k)
    PROVE  x.at[1] = m /\ x.at[2] = d
BY DEF RowsOf

\* An entry has finitely many rows.
LEMMA RowsFinite ==
    ASSUME TsTypeOK, NEW m \in DOMAIN sent, NEW d, NEW k \in 1..Len(sent[m])
    PROVE  IsFiniteSet(RowsOf(m, d, k))
<1> DEFINE e == sent[m][k]
           P == Points(e)
           row(i) == [series |-> e.series, ts |-> e.records[i].t, dt |-> e.dt,
                      value |-> Coerced(e.dt, e.records[i].v), at |-> <<m, d, k, i>>]
           R == {row(i) : i \in P}
           f == [i \in P |-> row(i)]
<1>1. Len(e.records) \in Nat
    BY EntryTypes
<1>2. IsFiniteSet(1..Len(e.records))
    <2> DEFINE n == Len(e.records)
    <2> HIDE DEF n
    <2>1. n \in Int /\ 1 \in Int
        BY <1>1 DEF n
    <2>2. IsFiniteSet(1..n)
        BY <2>1, FS_Interval
    <2> QED BY <2>2 DEF n
<1>3. IsFiniteSet(P)
    BY <1>2, FS_Subset DEF Points
<1>4. f \in Surjection(P, R)
    <2> HIDE DEF P, row
    <2> QED BY DEF Surjection
<1>5. IsFiniteSet(R)
    <2> HIDE DEF P, R, f
    <2> QED BY <1>3, <1>4, FS_Surjection
<1>6. RowsOf(m, d, k) = {} \/ RowsOf(m, d, k) = R
    BY DEF RowsOf
<1> QED BY <1>5, <1>6, FS_EmptySet

\* What was published stays as it was: messages are only added.
LEMMA SentStays ==
    ASSUME TsTypeOK, [TsNext]_tsVars
    PROVE  /\ DOMAIN sent \subseteq DOMAIN sent'
           /\ \A m \in DOMAIN sent : sent'[m] = sent[m]
<1>1. ASSUME NEW b \in Batches, Publish(b)
      PROVE  /\ DOMAIN sent \subseteq DOMAIN sent'
             /\ \A m \in DOMAIN sent : sent'[m] = sent[m]
    BY <1>1 DEF Publish, TsTypeOK
<1>2. CASE UNCHANGED sent
    BY <1>2
<1> QED BY <1>1, <1>2
        DEF TsNext, tsVars, Take, Serve, StoreEntry, EndMessage, Crash, QueryType,
            QueryRows, QueryDone

\* So its rows, the entries that can be stored and the points stay too.
LEMMA SameRows ==
    ASSUME TsTypeOK, [TsNext]_tsVars, NEW m \in DOMAIN sent
    PROVE  /\ Storable(m)' = Storable(m)
           /\ \A d, k : RowsOf(m, d, k)' = RowsOf(m, d, k)
           /\ \A d, K : Upto(m, d, K)' = Upto(m, d, K)
           /\ \A s : PointsIn(m, s)' = PointsIn(m, s)
<1>1. sent'[m] = sent[m]
    BY SentStays
<1>2. Storable(m)' = Storable(m)
    BY <1>1 DEF Storable
<1>3. \A d, k : RowsOf(m, d, k)' = RowsOf(m, d, k)
    BY <1>1 DEF RowsOf
<1>4. \A d, K : Upto(m, d, K)' = Upto(m, d, K)
    BY <1>3 DEF Upto
<1>5. \A s : PointsIn(m, s)' = PointsIn(m, s)
    BY <1>1, <1>2 DEF PointsIn
<1> QED BY <1>2, <1>3, <1>4, <1>5

\* A replica that is not free has a message in hand.
LEMMA HandTypes ==
    ASSUME TsTypeOK, NEW g \in Ingestors, hand[g].pc = "entries"
    PROVE  /\ hand[g] \in [pc : {"entries"}, msg : Messages,
                           delivery : 1..MaxDeliveries, next : Nat \ {0}]
           /\ hand[g].msg \in Messages /\ hand[g].delivery \in 1..MaxDeliveries
           /\ hand[g].next \in Nat \ {0}
<1>1. hand[g] \in Hand
    BY DEF TsTypeOK
<1>2. hand[g] \in [pc : {"entries"}, msg : Messages,
                   delivery : 1..MaxDeliveries, next : Nat \ {0}]
    BY <1>1 DEF Hand, Free
<1> QED BY <1>2

\* The steps that touch the queries only.
Asking ==
    \/ \E r \in Readers, s \in Series, win \in Windows, lim \in Limits :
          QueryType(r, s, win[1], win[2], lim)
    \/ \E r \in Readers : QueryRows(r) \/ QueryDone(r)

\* The types survive every step.
LEMMA TsTypeStep ==
    ASSUME TsTypeOK, HandInv, DeliveryInv, [TsNext]_tsVars
    PROVE  TsTypeOK'
<1> USE TsDataAssumption DEF TsTypeOK
<1>1. ASSUME NEW b \in Batches, Publish(b) PROVE TsTypeOK'
    BY <1>1 DEF Publish
<1>2. ASSUME NEW g \in Ingestors, NEW m \in Messages, NEW again \in BOOLEAN,
             Take(g, m, again)
      PROVE  TsTypeOK'
    <2>1. /\ deliveries[m] \in 0..MaxDeliveries /\ deliveries[m] < MaxDeliveries
          /\ deliveries[m] + 1 \in 1..MaxDeliveries
        BY <1>2 DEF Take, DeliveryInv
    <2>2. deliveries' \in [Messages -> 0..MaxDeliveries]
        BY <1>2, <2>1 DEF Take
    <2>3. hand' \in [Ingestors -> Hand]
        <3> DEFINE h == [pc |-> "entries", msg |-> m,
                         delivery |-> deliveries[m] + 1, next |-> 1]
        <3>1. h \in Hand
            BY <2>1 DEF Hand
        <3>2. hand' = [hand EXCEPT ![g] = h]
            BY <1>2 DEF Take
        <3> HIDE DEF h
        <3> QED BY <3>1, <3>2
    <2> QED BY <1>2, <2>2, <2>3 DEF Take
<1>3. ASSUME NEW g \in Ingestors, StoreEntry(g) PROVE TsTypeOK'
    <2> DEFINE m == hand[g].msg
               d == hand[g].delivery
               k == hand[g].next
    <2>1. /\ hand[g].pc = "entries" /\ m \in DOMAIN sent
          /\ d \in 1..MaxDeliveries /\ k \in Nat \ {0} /\ k <= Len(sent[m])
          /\ ~EntryFails(sent[m][k])
        BY <1>3, HandTypes DEF StoreEntry, Handling, EntryInHand, HandInv, InHand
    <2>2. k \in 1..Len(sent[m])
        BY <2>1, EntryTypes
    <2>3. RowsOf(m, d, k) \subseteq Row
        BY <2>1, <2>2, RowTypes
    <2>4. hand' \in [Ingestors -> Hand]
        <3> DEFINE h == [hand[g] EXCEPT !.next = hand[g].next + 1]
                   Busy == [pc : {"entries"}, msg : Messages,
                            delivery : 1..MaxDeliveries, next : Nat \ {0}]
        <3>a. hand[g] \in Busy
            BY <2>1, HandTypes
        <3>b. h \in Busy
            <4>1. hand[g].next + 1 \in Nat \ {0}
                BY <2>1
            <4> QED BY <3>a, <4>1
        <3>1. h \in Hand
            BY <3>b DEF Hand
        <3>2. hand' = [hand EXCEPT ![g] = h]
            BY <1>3 DEF StoreEntry
        <3> HIDE DEF h
        <3> QED BY <3>1, <3>2
    <2> HIDE DEF m, d, k
    <2> QED BY <1>3, <2>3, <2>4 DEF StoreEntry, m, d, k
<1>4. ASSUME NEW g \in Ingestors, EndMessage(g) PROVE TsTypeOK'
    <2>1. hand[g].msg \in DOMAIN sent
        BY <1>4 DEF EndMessage, HandInv, InHand
    <2> QED BY <1>4, <2>1 DEF EndMessage, Hand
<1>5. ASSUME NEW g \in Ingestors, Crash(g) PROVE TsTypeOK'
    <2>1. hand[g].msg \in DOMAIN sent
        BY <1>5 DEF Crash, HandInv, InHand
    <2> QED BY <1>5, <2>1 DEF Crash, Hand
<1>6. CASE Asking
    <2>1. UNCHANGED <<sent, deliveries, waiting, hand, tsdata, handled, lost>>
        BY <1>6 DEF Asking, QueryType, QueryRows, QueryDone
    <2>2. query' \in [Readers -> Query]
        <3>1. ASSUME NEW r \in Readers, NEW s \in Series, NEW win \in Windows,
                     NEW lim \in Limits, QueryType(r, s, win[1], win[2], lim)
              PROVE  query' \in [Readers -> Query]
            <4>1. PICK dt \in LastTypes(s) :
                     query' = [query EXCEPT ![r] =
                        [pc |-> "rows", series |-> s, from |-> win[1], to |-> win[2],
                         lim |-> lim, col |-> value_column(dt), after |-> handled]]
                BY <3>1 DEF QueryType
            <4> DEFINE q == [pc |-> "rows", series |-> s, from |-> win[1],
                             to |-> win[2], lim |-> lim, col |-> value_column(dt),
                             after |-> handled]
            <4>2. win[1] \in Times /\ win[2] \in Times
                OBVIOUS
            <4>3. value_column(dt) \in Columns
                BY DEF value_column, Columns
            <4>4. handled \subseteq Messages
                BY EntryTypes
            <4>5. q \in Query
                BY <4>2, <4>3, <4>4 DEF Query
            <4>6. query' = [query EXCEPT ![r] = q]
                BY <4>1
            <4> HIDE DEF q
            <4> QED BY <4>5, <4>6
        <3>2. ASSUME NEW r \in Readers, QueryRows(r)
              PROVE  query' \in [Readers -> Query]
            <4>1. /\ query[r] \in Query /\ query[r].pc = "rows"
                BY <3>2 DEF QueryRows
            <4>2. query[r] \in [pc : {"rows"}, series : Series, from : Times,
                                to : Times, lim : Limits, col : Columns,
                                after : SUBSET Messages]
                BY <4>1 DEF Query, Free
            <4>3. PICK S \in Oldest(Window(query[r].series, query[r].from, query[r].to),
                                    query[r].lim) :
                     query' = [query EXCEPT ![r] =
                        [pc |-> "answer", series |-> query[r].series,
                         from |-> query[r].from, to |-> query[r].to,
                         lim |-> query[r].lim, col |-> query[r].col,
                         after |-> query[r].after, got |-> S]]
                BY <3>2 DEF QueryRows
            <4> DEFINE q == [pc |-> "answer", series |-> query[r].series,
                             from |-> query[r].from, to |-> query[r].to,
                             lim |-> query[r].lim, col |-> query[r].col,
                             after |-> query[r].after, got |-> S]
            <4>4. S \subseteq Row
                BY <4>3 DEF Oldest, Window, RowsIn
            <4>5. q \in Query
                BY <4>2, <4>4 DEF Query
            <4>6. query' = [query EXCEPT ![r] = q]
                BY <4>3
            <4> HIDE DEF q
            <4> QED BY <4>5, <4>6
        <3>3. ASSUME NEW r \in Readers, QueryDone(r)
              PROVE  query' \in [Readers -> Query]
            BY <3>3 DEF QueryDone, Query
        <3> QED BY <1>6, <3>1, <3>2, <3>3 DEF Asking
    <2> QED BY <2>1, <2>2
<1>7. CASE UNCHANGED tsVars
    BY <1>7 DEF tsVars
<1> QED BY <1>1, <1>2, <1>3, <1>4, <1>5, <1>6, <1>7 DEF TsNext, Serve, Asking

\* WholeEntries in these terms, of a state and of the next one.
LEMMA WholeNow ==
    ASSUME WholeEntries, NEW m \in DOMAIN sent, NEW d \in 1..MaxDeliveries
    PROVE  \E K : WholeUpto(m, d, K)
BY DEF WholeEntries, WholeUpto, Held, Mine, Upto

\* The same, the other way round.
LEMMA WholeAgain ==
    ASSUME \A m \in DOMAIN sent', d \in 1..MaxDeliveries : \E K : WholeUpto(m, d, K)'
    PROVE  WholeEntries'
<1> SUFFICES ASSUME NEW m \in DOMAIN sent', NEW d \in 1..MaxDeliveries
             PROVE  \E K \in 0..Len(sent'[m]) :
                       /\ 1..K \subseteq Storable(m)'
                       /\ Mine(m, d)' = Upto(m, d, K)'
                       /\ d <= deliveries'[m] /\ m \notin lost' =>
                             1..K = Storable(m)' \/ Held(m, d)'
    BY DEF WholeEntries, Held, Mine, Upto
<1>1. PICK K : WholeUpto(m, d, K)'
    OBVIOUS
<1> QED BY <1>1 DEF WholeUpto

\* A delivery that a step does not touch is as whole as it was.
LEMMA WholeStays ==
    ASSUME TsTypeOK, [TsNext]_tsVars, NEW m \in DOMAIN sent, NEW d, NEW K,
           WholeUpto(m, d, K),
           Mine(m, d)' = Mine(m, d), lost \subseteq lost',
           d <= deliveries'[m] => d <= deliveries[m],
           m \notin lost' /\ Held(m, d) => Held(m, d)'
    PROVE  WholeUpto(m, d, K)'
<1>1. /\ sent'[m] = sent[m] /\ Storable(m)' = Storable(m)
      /\ Upto(m, d, K)' = Upto(m, d, K)
    BY SentStays, SameRows
<1> QED BY <1>1 DEF WholeUpto

\* Nor does it change for the replica that has it in hand.
LEMMA InHandStays ==
    ASSUME TsTypeOK, [TsNext]_tsVars, NEW g \in Ingestors,
           hand[g].pc = "entries", hand'[g] = hand[g], InHand(g),
           Mine(hand[g].msg, hand[g].delivery)' = Mine(hand[g].msg, hand[g].delivery),
           hand[g].delivery \in 1..deliveries'[hand[g].msg]
    PROVE  InHand(g)'
<1> DEFINE m == hand[g].msg
           d == hand[g].delivery
<1>1. m \in DOMAIN sent
    BY DEF InHand
<1>2. /\ m \in DOMAIN sent' /\ sent'[m] = sent[m] /\ Storable(m)' = Storable(m)
    BY <1>1, SentStays, SameRows
<1>4. Upto(hand[g].msg, hand[g].delivery, hand[g].next - 1)'
        = Upto(hand[g].msg, hand[g].delivery, hand[g].next - 1)
    <2>1. \A k : RowsOf(hand[g].msg, hand[g].delivery, k)'
                   = RowsOf(hand[g].msg, hand[g].delivery, k)
        BY <1>2 DEF RowsOf
    <2> QED BY <2>1 DEF Upto
<1>5. Storable(hand[g].msg)' = Storable(hand[g].msg)
    BY <1>2 DEF Storable
<1> QED BY <1>2, <1>4, <1>5 DEF InHand

\* A message is published: nothing of it is stored or delivered yet.
LEMMA PublishStep ==
    ASSUME StoreInv, NEW b \in Batches, Publish(b), [TsNext]_tsVars
    PROVE  DeliveryInv' /\ HandInv' /\ OwnDeliveries' /\ RowInv' /\ WholeEntries'
<1> USE DEF StoreInv
<1>0. /\ UNCHANGED <<deliveries, hand, tsdata, lost>>
      /\ DOMAIN sent' = DOMAIN sent \cup {Len(sent) + 1}
      /\ DOMAIN sent \subseteq DOMAIN sent'
      /\ Len(sent) + 1 \notin DOMAIN sent /\ Len(sent) + 1 \in Messages
      /\ waiting' = waiting \cup {Len(sent) + 1}
    BY TsDataAssumption DEF Publish, TsTypeOK, Messages
<1>1. DeliveryInv'
    <2>1. deliveries[Len(sent) + 1] = 0
        BY <1>0 DEF DeliveryInv
    <2> QED BY <1>0, <2>1, TsDataAssumption DEF DeliveryInv
<1>2. HandInv'
    <2> SUFFICES ASSUME NEW g \in Ingestors, hand'[g].pc = "entries"
                 PROVE  InHand(g)'
        BY DEF HandInv
    <2>1. hand'[g] = hand[g] /\ InHand(g)
        BY <1>0 DEF HandInv
    <2>2. Mine(hand[g].msg, hand[g].delivery)' = Mine(hand[g].msg, hand[g].delivery)
        BY <1>0 DEF Mine
    <2> QED BY <1>0, <2>1, <2>2, InHandStays DEF InHand
<1>3. OwnDeliveries'
    BY <1>0 DEF OwnDeliveries
<1>4. RowInv'
    BY <1>0 DEF RowInv
<1>5. WholeEntries'
    <2> SUFFICES ASSUME NEW m \in DOMAIN sent', NEW d \in 1..MaxDeliveries
                 PROVE  \E K : WholeUpto(m, d, K)'
        BY WholeAgain
    <2>1. CASE m \in DOMAIN sent
        <3>1. PICK K : WholeUpto(m, d, K)
            BY <2>1, WholeNow
        <3>2. Mine(m, d)' = Mine(m, d) /\ Held(m, d)' = Held(m, d)
            BY <1>0 DEF Mine, Held
        <3> QED BY <1>0, <2>1, <3>1, <3>2, WholeStays
    <2>2. CASE m \notin DOMAIN sent
        <3>1. m = Len(sent) + 1 /\ deliveries'[m] = 0 /\ ~(d <= deliveries'[m])
            BY <1>0, <2>2 DEF DeliveryInv
        <3>2. Mine(m, d)' = {}
            BY <1>0, <2>2 DEF RowInv, Mine
        <3>3. Upto(m, d, 0)' = {}
            BY DEF Upto
        <3>4. sent'[m] \in Batches
            BY <3>1 DEF Publish, TsTypeOK
        <3>5. Len(sent'[m]) \in Nat
            BY <3>4, TsDataAssumption
        <3>6. 0 \in 0..Len(sent'[m]) /\ 1..0 \subseteq Storable(m)'
            BY <3>5
        <3>7. WholeUpto(m, d, 0)'
            BY <3>1, <3>2, <3>3, <3>6 DEF WholeUpto
        <3> QED BY <3>7
    <2> QED BY <2>1, <2>2
<1> QED BY <1>1, <1>2, <1>3, <1>4, <1>5

\* A replica takes a message: the delivery is a new one, and nothing of it is
\* stored.
LEMMA TakeStep ==
    ASSUME StoreInv, NEW g \in Ingestors, NEW m \in Messages, NEW again \in BOOLEAN,
           Take(g, m, again), [TsNext]_tsVars
    PROVE  DeliveryInv' /\ HandInv' /\ OwnDeliveries' /\ RowInv' /\ WholeEntries'
<1> USE DEF StoreInv
<1>d. PICK d : d = deliveries[m] + 1
    OBVIOUS
<1>0. /\ UNCHANGED <<sent, tsdata, lost>>
      /\ hand[g] = Free /\ m \in waiting /\ m \in DOMAIN sent
      /\ \A h \in Ingestors : h # g => hand'[h] = hand[h]
      /\ hand'[g].pc = "entries" /\ hand'[g].msg = m
      /\ hand'[g].delivery = d /\ hand'[g].next = 1
      /\ waiting' \subseteq waiting
      /\ again => d < MaxDeliveries
      /\ ~again => m \notin waiting'
    BY <1>d DEF Take, TsTypeOK
<1>1. /\ deliveries'[m] = d /\ d \in 1..MaxDeliveries
      /\ \A n \in Messages : /\ deliveries[n] \in Nat /\ deliveries'[n] \in Nat
                             /\ n # m => deliveries'[n] = deliveries[n]
                             /\ deliveries[n] <= deliveries'[n]
    BY <1>d, <1>0, TsDataAssumption DEF Take, TsTypeOK, DeliveryInv
<1>2. DOMAIN sent \subseteq Messages
    BY EntryTypes
<1>3. DeliveryInv'
    <2>1. waiting \subseteq Messages
        BY <1>2 DEF TsTypeOK
    <2>2. ASSUME NEW n \in waiting' PROVE deliveries'[n] < MaxDeliveries
        <3>1. CASE n = m
            BY <1>0, <1>1, <2>2, <3>1
        <3>2. CASE n # m
            BY <1>0, <1>1, <2>1, <2>2, <3>2 DEF DeliveryInv
        <3> QED BY <3>1, <3>2
    <2>3. ASSUME NEW n \in Messages, n \notin DOMAIN sent' PROVE deliveries'[n] = 0
        BY <1>0, <1>1, <2>3 DEF DeliveryInv
    <2> QED BY <2>2, <2>3 DEF DeliveryInv
<1>4. RowInv'
    <2> SUFFICES ASSUME NEW x \in tsdata
                 PROVE  x.at[1] \in DOMAIN sent /\ x.at[2] \in 1..deliveries'[x.at[1]]
        BY <1>0 DEF RowInv
    <2>1. x.at[1] \in DOMAIN sent /\ x.at[2] \in 1..deliveries[x.at[1]]
        BY DEF RowInv
    <2> QED BY <1>1, <1>2, <2>1
<1>5. Mine(m, d) = {}
    <2> SUFFICES ASSUME NEW x \in tsdata, x.at[1] = m, x.at[2] = d PROVE FALSE
        BY DEF Mine
    <2>1. d \in 1..deliveries[m]
        BY DEF RowInv
    <2> QED BY <1>d, <1>1, <2>1
<1>6. \A n, e : Mine(n, e)' = Mine(n, e)
    BY <1>0 DEF Mine
<1>7. HandInv'
    <2> SUFFICES ASSUME NEW h \in Ingestors, hand'[h].pc = "entries"
                 PROVE  InHand(h)'
        BY DEF HandInv
    <2>1. CASE h # g
        <3>1. hand'[h] = hand[h] /\ InHand(h)
            BY <1>0, <2>1 DEF HandInv
        <3>2. hand[h].msg \in DOMAIN sent /\ hand[h].delivery \in 1..deliveries[hand[h].msg]
            BY <3>1 DEF InHand
        <3>3. hand[h].delivery \in 1..deliveries'[hand[h].msg]
            BY <1>1, <1>2, <3>2
        <3>4. Mine(hand[h].msg, hand[h].delivery)' = Mine(hand[h].msg, hand[h].delivery)
            BY <1>0, <3>1 DEF Mine
        <3> QED BY <3>1, <3>3, <3>4, InHandStays
    <2>2. CASE h = g
        <3>1. /\ 1..0 \subseteq Storable(m)' /\ Upto(m, d, 0)' = {}
            BY DEF Upto
        <3>2. Len(sent[m]) \in Nat
            BY <1>0, EntryTypes
        <3>3. Mine(m, d)' = {}
            BY <1>5, <1>6
        <3>4. /\ Mine(hand[g].msg, hand[g].delivery)' = {}
              /\ Upto(hand[g].msg, hand[g].delivery, 0)' = {}
              /\ hand'[g].next - 1 = 0
            BY <1>0, <3>1, <3>3 DEF Mine, Upto
        <3>5. 1 \in 1..Len(sent'[m]) + 1
            BY <1>0, <3>2
        <3>6. d \in 1..deliveries'[m]
            BY <1>1
        <3>7. 1..0 \subseteq Storable(hand[g].msg)'
            OBVIOUS
        <3> QED BY <1>0, <2>2, <3>4, <3>5, <3>6, <3>7 DEF InHand
    <2> QED BY <2>1, <2>2
<1>8. OwnDeliveries'
    <2>1. ASSUME NEW h \in Ingestors, h # g, hand[h].pc = "entries",
                 hand[h].msg = m, hand[h].delivery = d
          PROVE  FALSE
        BY <1>d, <1>1, <2>1 DEF HandInv, InHand
    <2> QED BY <1>0, <2>1 DEF OwnDeliveries
<1>9. WholeEntries'
    <2> SUFFICES ASSUME NEW n \in DOMAIN sent', NEW e \in 1..MaxDeliveries
                 PROVE  \E K : WholeUpto(n, e, K)'
        BY WholeAgain
    <2>0. n \in DOMAIN sent
        BY <1>0
    <2>1. CASE n = m /\ e = d
        <3>1. 1..0 \subseteq Storable(m)' /\ Upto(m, d, 0)' = {}
            BY DEF Upto
        <3>2. Len(sent[m]) \in Nat
            BY <1>0, EntryTypes
        <3>3. 0 \in 0..Len(sent'[m]) /\ Mine(m, d)' = {}
            BY <1>0, <1>5, <1>6, <3>2
        <3>4. Held(m, d)'
            BY <1>0 DEF Held
        <3>5. WholeUpto(m, d, 0)'
            BY <3>1, <3>3, <3>4 DEF WholeUpto
        <3> QED BY <2>1, <3>5
    <2>2. CASE ~(n = m /\ e = d)
        <3>1. PICK K : WholeUpto(n, e, K)
            BY <2>0, WholeNow
        <3>2. Held(n, e) => Held(n, e)'
            BY <1>0 DEF Held, Free
        <3>3. e <= deliveries'[n] => e <= deliveries[n]
            BY <1>d, <1>1, <1>2, <2>0, <2>2
        <3> QED BY <1>0, <1>6, <2>0, <3>1, <3>2, <3>3, WholeStays
    <2> QED BY <2>1, <2>2
<1> QED BY <1>3, <1>4, <1>7, <1>8, <1>9

\* The rows of one delivery leave those of all others alone.
LEMMA OthersRows ==
    ASSUME NEW m, NEW d, NEW k, tsdata' = tsdata \cup RowsOf(m, d, k)
    PROVE  /\ Mine(m, d)' = Mine(m, d) \cup RowsOf(m, d, k)
           /\ \A n, e : ~(n = m /\ e = d) => Mine(n, e)' = Mine(n, e)
<1>1. \A x \in RowsOf(m, d, k) : x.at[1] = m /\ x.at[2] = d
    BY RowOrigin
<1> QED BY <1>1 DEF Mine

\* The entry that comes next is stored: the delivery is whole one entry
\* further.
LEMMA StoreStep ==
    ASSUME StoreInv, NEW g \in Ingestors, StoreEntry(g), [TsNext]_tsVars
    PROVE  DeliveryInv' /\ HandInv' /\ OwnDeliveries' /\ RowInv' /\ WholeEntries'
<1> USE DEF StoreInv
<1>d. PICK m, d, k : m = hand[g].msg /\ d = hand[g].delivery /\ k = hand[g].next
    OBVIOUS
<1>0. /\ UNCHANGED <<sent, deliveries, waiting, lost>>
      /\ hand[g].pc = "entries" /\ k <= Len(sent[m]) /\ ~EntryFails(sent[m][k])
      /\ tsdata' = tsdata \cup RowsOf(m, d, k)
      /\ InHand(g) /\ m \in DOMAIN sent /\ d \in 1..MaxDeliveries
      /\ d \in 1..deliveries[m]
      /\ k \in Nat \ {0}
    BY <1>d, HandTypes DEF StoreEntry, Handling, EntryInHand, HandInv, InHand
<1>1. /\ \A h \in Ingestors : /\ h # g => hand'[h] = hand[h]
                              /\ hand'[h].pc = hand[h].pc
                              /\ hand[h].pc = "entries" =>
                                   /\ hand'[h].msg = hand[h].msg
                                   /\ hand'[h].delivery = hand[h].delivery
      /\ hand'[g].next = k + 1
    <2>1. hand[g] \in [pc : {"entries"}, msg : Messages,
                       delivery : 1..MaxDeliveries, next : Nat \ {0}]
        BY <1>0, HandTypes
    <2>2. hand' = [hand EXCEPT ![g] = [hand[g] EXCEPT !.next = hand[g].next + 1]]
        BY DEF StoreEntry
    <2>3. hand \in [Ingestors -> Hand]
        BY DEF TsTypeOK
    <2> QED BY <1>d, <2>1, <2>2, <2>3
<1>2. Len(sent[m]) \in Nat /\ k \in 1..Len(sent[m])
    BY <1>0, EntryTypes
<1>3. /\ Mine(m, d)' = Mine(m, d) \cup RowsOf(m, d, k)
      /\ \A n, e : ~(n = m /\ e = d) => Mine(n, e)' = Mine(n, e)
    <2> QED BY <1>0, OthersRows
<1>4. Mine(m, d) = Upto(m, d, k - 1) /\ 1..(k - 1) \subseteq Storable(m)
    BY <1>d, <1>0 DEF InHand
<1>5. 1..k \subseteq Storable(m)
    <2> SUFFICES ASSUME NEW j \in 1..k PROVE j \in Storable(m)
        OBVIOUS
    <2>1. CASE j < k
        BY <1>0, <1>4, <2>1
    <2>2. CASE j = k
        <3>1. ASSUME NEW i \in 1..k PROVE ~EntryFails(sent[m][i])
            <4>1. CASE i = k
                BY <1>0, <4>1
            <4>2. CASE i < k
                <5>1. i \in Storable(m)
                    BY <1>0, <1>4, <3>1, <4>2
                <5>2. i \in 1..i
                    BY <1>0, <3>1
                <5> QED BY <5>1, <5>2 DEF Storable
            <4> QED BY <1>0, <3>1, <4>1, <4>2
        <3> QED BY <1>2, <2>2, <3>1 DEF Storable
    <2> QED BY <1>0, <2>1, <2>2
<1>6. Upto(m, d, k) = Upto(m, d, k - 1) \cup RowsOf(m, d, k)
    <2>1. 1..k = 1..(k - 1) \cup {k}
        BY <1>0
    <2> QED BY <2>1 DEF Upto
<1>7. /\ Mine(m, d)' = Upto(m, d, k)' /\ (1..k \subseteq Storable(m))'
    BY <1>0, <1>3, <1>4, <1>5, <1>6, SameRows
<1>8. DeliveryInv'
    BY <1>0 DEF DeliveryInv
<1>9. OwnDeliveries'
    BY <1>1 DEF OwnDeliveries
<1>10. RowInv'
    <2>1. IsFiniteSet(tsdata')
        BY <1>0, <1>2, RowsFinite, FS_Union DEF RowInv
    <2> SUFFICES ASSUME NEW x \in tsdata'
                 PROVE  x.at[1] \in DOMAIN sent /\ x.at[2] \in 1..deliveries[x.at[1]]
        BY <1>0, <2>1 DEF RowInv
    <2>2. CASE x \in tsdata
        BY <2>2 DEF RowInv
    <2>3. CASE x \in RowsOf(m, d, k)
        BY <1>0, <2>3, RowOrigin
    <2> QED BY <1>0, <2>2, <2>3
<1>11. HandInv'
    <2> SUFFICES ASSUME NEW h \in Ingestors, hand'[h].pc = "entries"
                 PROVE  InHand(h)'
        BY DEF HandInv
    <2>1. CASE h # g
        <3>1. hand'[h] = hand[h] /\ hand[h].pc = "entries" /\ InHand(h)
            BY <1>1, <2>1 DEF HandInv
        <3>2. ~(hand[h].msg = m /\ hand[h].delivery = d)
            BY <1>d, <1>0, <2>1, <3>1 DEF OwnDeliveries
        <3>3. Mine(hand[h].msg, hand[h].delivery)' = Mine(hand[h].msg, hand[h].delivery)
            <4>1. \A n, e : ~(n = m /\ e = d) =>
                     {x \in tsdata' : x.at[1] = n /\ x.at[2] = e} = Mine(n, e)
                BY <1>3 DEF Mine
            <4> QED BY <3>1, <3>2, <4>1 DEF Mine
        <3>4. hand[h].delivery \in 1..deliveries'[hand[h].msg]
            BY <1>0, <3>1 DEF InHand
        <3> QED BY <3>1, <3>3, <3>4, InHandStays
    <2>2. CASE h = g
        <3>1. hand'[g].msg = m /\ hand'[g].delivery = d /\ hand'[g].next = k + 1
            BY <1>d, <1>0, <1>1
        <3>2. k + 1 \in 1..Len(sent'[m]) + 1 /\ (k + 1) - 1 = k
            BY <1>0, <1>2
        <3>3. Mine(hand[g].msg, hand[g].delivery)' = Mine(m, d)'
            BY <3>1 DEF Mine
        <3>4. Upto(hand[g].msg, hand[g].delivery, hand[g].next - 1)' = Upto(m, d, k)'
            BY <3>1, <3>2 DEF Upto, RowsOf
        <3>5. Storable(hand[g].msg)' = Storable(m)'
            BY <3>1 DEF Storable
        <3> QED BY <1>0, <1>7, <2>2, <3>1, <3>2, <3>3, <3>4, <3>5 DEF InHand
    <2> QED BY <2>1, <2>2
<1>12. WholeEntries'
    <2> SUFFICES ASSUME NEW n \in DOMAIN sent', NEW e \in 1..MaxDeliveries
                 PROVE  \E K : WholeUpto(n, e, K)'
        BY WholeAgain
    <2>0. n \in DOMAIN sent
        BY <1>0
    <2>1. CASE n = m /\ e = d
        <3>1. Held(m, d)'
            BY <1>d, <1>0, <1>1 DEF Held
        <3>2. k \in 0..Len(sent'[m])
            BY <1>0, <1>2
        <3>3. WholeUpto(m, d, k)'
            BY <1>7, <3>1, <3>2 DEF WholeUpto
        <3> QED BY <2>1, <3>3
    <2>2. CASE ~(n = m /\ e = d)
        <3>1. PICK K : WholeUpto(n, e, K)
            BY <2>0, WholeNow
        <3>2. Held(n, e) => Held(n, e)'
            BY <1>1 DEF Held
        <3>3. Mine(n, e)' = Mine(n, e)
            BY <1>3, <2>2
        <3> QED BY <1>0, <2>0, <3>1, <3>2, <3>3, WholeStays
    <2> QED BY <2>1, <2>2
<1> QED BY <1>8, <1>9, <1>10, <1>11, <1>12

\* At the end of a message everything that can be stored is.
LEMMA EndIsWhole ==
    ASSUME StoreInv, NEW g \in Ingestors, EndMessage(g),
           NEW m, m = hand[g].msg, NEW k, k = hand[g].next
    PROVE  1..(k - 1) = Storable(m)
<1> USE DEF StoreInv
<1>0. /\ hand[g].pc = "entries" /\ InHand(g) /\ m \in DOMAIN sent /\ k \in Nat \ {0}
      /\ 1..(k - 1) \subseteq Storable(m)
      /\ k <= Len(sent[m]) => EntryFails(sent[m][k])
    BY HandTypes DEF EndMessage, Handling, EntryInHand, HandInv, InHand
<1>1. Len(sent[m]) \in Nat
    BY <1>0, EntryTypes
<1> SUFFICES ASSUME NEW j \in Storable(m) PROVE j \in 1..(k - 1)
    BY <1>0
<1>2. j \in 1..Len(sent[m]) /\ \A i \in 1..j : ~EntryFails(sent[m][i])
    BY DEF Storable
<1>3. j < k
    <2> SUFFICES ASSUME k <= j PROVE FALSE
        BY <1>0, <1>1, <1>2
    <2>1. k \in 1..j /\ k <= Len(sent[m])
        BY <1>0, <1>1, <1>2
    <2> QED BY <1>0, <1>2, <2>1
<1> QED BY <1>0, <1>1, <1>2, <1>3

\* A replica is done with a message, by its end or its own: its delivery is
\* whole, or the message is lost.
LEMMA LeaveStep ==
    ASSUME StoreInv, NEW g \in Ingestors, EndMessage(g) \/ Crash(g), [TsNext]_tsVars
    PROVE  DeliveryInv' /\ HandInv' /\ OwnDeliveries' /\ RowInv' /\ WholeEntries'
<1> USE DEF StoreInv
<1>d. PICK m, d, k : m = hand[g].msg /\ d = hand[g].delivery /\ k = hand[g].next
    OBVIOUS
<1>0. /\ UNCHANGED <<sent, deliveries, waiting, tsdata>>
      /\ hand[g].pc = "entries" /\ InHand(g) /\ m \in DOMAIN sent /\ d \in 1..MaxDeliveries
      /\ lost \subseteq lost' /\ (Crash(g) => m \in lost')
    BY <1>d, HandTypes DEF EndMessage, Crash, HandInv, InHand
<1>1. /\ hand'[g].pc # "entries"
      /\ \A h \in Ingestors : h # g => hand'[h] = hand[h]
    BY DEF EndMessage, Crash, TsTypeOK, Free
<1>2. DeliveryInv'
    BY <1>0 DEF DeliveryInv
<1>3. OwnDeliveries'
    BY <1>1 DEF OwnDeliveries
<1>4. RowInv'
    BY <1>0 DEF RowInv
<1>5. \A n, e : Mine(n, e)' = Mine(n, e)
    BY <1>0 DEF Mine
<1>6. HandInv'
    <2> SUFFICES ASSUME NEW h \in Ingestors, hand'[h].pc = "entries"
                 PROVE  InHand(h)'
        BY DEF HandInv
    <2>1. hand'[h] = hand[h] /\ hand[h].pc = "entries" /\ InHand(h)
        BY <1>1 DEF HandInv
    <2>2. Mine(hand[h].msg, hand[h].delivery)' = Mine(hand[h].msg, hand[h].delivery)
        BY <1>0, <2>1 DEF Mine
    <2>3. hand[h].delivery \in 1..deliveries'[hand[h].msg]
        BY <1>0, <2>1 DEF InHand
    <2> QED BY <2>1, <2>2, <2>3, InHandStays
<1>7. WholeEntries'
    <2> SUFFICES ASSUME NEW n \in DOMAIN sent', NEW e \in 1..MaxDeliveries
                 PROVE  \E K : WholeUpto(n, e, K)'
        BY WholeAgain
    <2>0. n \in DOMAIN sent
        BY <1>0
    <2>1. PICK K : WholeUpto(n, e, K)
        BY <2>0, WholeNow
    <2>2. CASE n # m \/ e # d \/ Crash(g)
        <3>1. n \notin lost' /\ Held(n, e) => Held(n, e)'
            BY <1>d, <1>0, <1>1, <2>2 DEF Held
        <3> QED BY <1>0, <1>5, <2>0, <2>1, <3>1, WholeStays
    <2>3. CASE n = m /\ e = d /\ EndMessage(g)
        <3>1. 1..(k - 1) = Storable(m)
            BY <1>d, <2>3, EndIsWhole
        <3>2. /\ k - 1 \in 0..Len(sent[m]) /\ Mine(m, d) = Upto(m, d, k - 1)
            <4>1. k \in 1..Len(sent[m]) + 1 /\ Len(sent[m]) \in Nat
                BY <1>d, <1>0, EntryTypes DEF InHand
            <4>2. Mine(m, d) = Upto(m, d, k - 1)
                BY <1>d, <1>0 DEF InHand
            <4> QED BY <4>1, <4>2
        <3>3. PICK J : J = k - 1
            OBVIOUS
        <3>4. Storable(m)' = Storable(m) /\ Upto(m, d, J)' = Upto(m, d, J)
            BY <1>0, SameRows
        <3>5. /\ J \in 0..Len(sent'[m]) /\ 1..J = Storable(m)'
              /\ Mine(m, d)' = Upto(m, d, J)'
            BY <1>0, <1>5, <3>1, <3>2, <3>3, <3>4
        <3>6. WholeUpto(m, d, J)'
            BY <3>5 DEF WholeUpto
        <3> QED BY <2>3, <3>6
    <2> QED BY <2>2, <2>3
<1> QED BY <1>2, <1>3, <1>4, <1>6, <1>7

\* The invariant of the table is inductive.
LEMMA StoreInvStep == StoreInv /\ [TsNext]_tsVars => StoreInv'
<1> SUFFICES ASSUME StoreInv, [TsNext]_tsVars PROVE StoreInv'
    OBVIOUS
<1>0. TsTypeOK'
    BY TsTypeStep DEF StoreInv
<1>1. CASE UNCHANGED <<sent, deliveries, waiting, hand, tsdata, lost>>
    <2>1. DeliveryInv' /\ OwnDeliveries' /\ RowInv'
        BY <1>1 DEF StoreInv, DeliveryInv, OwnDeliveries, RowInv
    <2>2. \A m, d, k : RowsOf(m, d, k)' = RowsOf(m, d, k)
        BY <1>1 DEF RowsOf
    <2>3. \A m : Storable(m)' = Storable(m)
        BY <1>1 DEF Storable
    <2>4. HandInv'
        <3>1. \A g \in Ingestors : InHand(g)' = InHand(g)
            BY <1>1, <2>2 DEF InHand, Mine, Upto, Storable, RowsOf
        <3> QED BY <1>1, <3>1 DEF StoreInv, HandInv
    <2>5. WholeEntries'
        BY <1>1, <2>2, <2>3 DEF StoreInv, WholeEntries
    <2> QED BY <1>0, <2>1, <2>4, <2>5 DEF StoreInv
<1>2. \/ \E b \in Batches : Publish(b)
      \/ \E g \in Ingestors, m \in Messages : Take(g, m, TRUE) \/ Take(g, m, FALSE)
      \/ \E g \in Ingestors : StoreEntry(g)
      \/ \E g \in Ingestors : EndMessage(g) \/ Crash(g)
      \/ UNCHANGED <<sent, deliveries, waiting, hand, tsdata, lost>>
    BY DEF TsNext, Serve, tsVars, QueryType, QueryRows, QueryDone
<1>3. TRUE \in BOOLEAN /\ FALSE \in BOOLEAN
    OBVIOUS
<1>4. CASE \E b \in Batches : Publish(b)
    BY <1>0, <1>4, PublishStep DEF StoreInv
<1>5. CASE \E g \in Ingestors, m \in Messages : Take(g, m, TRUE) \/ Take(g, m, FALSE)
    BY <1>0, <1>3, <1>5, TakeStep DEF StoreInv
<1>6. CASE \E g \in Ingestors : StoreEntry(g)
    BY <1>0, <1>6, StoreStep DEF StoreInv
<1>7. CASE \E g \in Ingestors : EndMessage(g) \/ Crash(g)
    BY <1>0, <1>7, LeaveStep DEF StoreInv
<1> QED BY <1>1, <1>2, <1>4, <1>5, <1>6, <1>7

-----------------------------------------------------------------------------
(* Time series: the answers.                                               *)

\* A message that was handled to the end, and with which no replica died, has
\* all it can have in the table, from one delivery at least.
Stored ==
    \A m \in handled \ lost : \E d \in 1..MaxDeliveries :
        \A k \in Storable(m) : RowsOf(m, d, k) \subseteq tsdata

\* Whether the series of a query had points when the query arrived.
HadPoints(q) == \E m \in q.after \ lost : PointsIn(m, q.series) # {}

\* A query under way knows of nothing that was not handled; and its column is
\* that of a row of the series, unless the series had none.
Informed(q) ==
    /\ q.after \subseteq handled
    /\ HadPoints(q) => \E y \in RowsIn(q.series) : value_column(y.dt) = q.col

\* What HandledIsRead says of an answer.
Answered(q) ==
    \A m \in q.after \ lost : \A p \in PointsIn(m, q.series) :
        LET t == sent[m][p[1]].records[p[2]].t IN
        q.from <= t /\ t <= q.to =>
            \/ \E x \in q.got : x.at[1] = m /\ x.at[3] = p[1] /\ x.at[4] = p[2] /\ x.ts = t
            \/ Cardinality(q.got) = q.lim /\ \A x \in q.got : x.ts <= t

QueryInv ==
    \A r \in Readers :
        /\ query[r].pc # "idle" => Informed(query[r])
        /\ query[r].pc = "answer" => /\ query[r].got \subseteq RowsIn(query[r].series)
                                     /\ Answered(query[r])

TsInv == StoreInv /\ Stored /\ QueryInv

\* No row is removed, and what was handled or lost remains so.
LEMMA TableGrows ==
    ASSUME [TsNext]_tsVars
    PROVE  tsdata \subseteq tsdata' /\ handled \subseteq handled' /\ lost \subseteq lost'
BY DEF TsNext, Serve, tsVars, Publish, Take, StoreEntry, EndMessage, Crash, QueryType,
       QueryRows, QueryDone

\* Only the end of a message adds to what was handled.
LEMMA StoredStep == StoreInv /\ Stored /\ [TsNext]_tsVars => Stored'
<1> SUFFICES ASSUME StoreInv, Stored, [TsNext]_tsVars, NEW m \in handled' \ lost'
             PROVE  (\E d \in 1..MaxDeliveries :
                        \A k \in Storable(m) : RowsOf(m, d, k) \subseteq tsdata)'
    BY DEF Stored
<1>1. CASE m \in handled
    <2>1. m \in DOMAIN sent /\ m \in handled \ lost
        BY <1>1, TableGrows DEF StoreInv, TsTypeOK
    <2>2. PICK d \in 1..MaxDeliveries : \A k \in Storable(m) : RowsOf(m, d, k) \subseteq tsdata
        BY <2>1 DEF Stored
    <2>3. Storable(m)' = Storable(m) /\ \A k : RowsOf(m, d, k)' = RowsOf(m, d, k)
        BY <2>1, SameRows DEF StoreInv
    <2> QED BY <2>2, <2>3, TableGrows
<1>2. CASE m \notin handled
    <2>1. PICK g \in Ingestors : EndMessage(g) /\ m = hand[g].msg
        BY <1>2 DEF TsNext, Serve, tsVars, Publish, Take, StoreEntry, EndMessage, Crash,
                    QueryType, QueryRows, QueryDone
    <2>2. PICK d, k : d = hand[g].delivery /\ k = hand[g].next
        OBVIOUS
    <2>3. 1..(k - 1) = Storable(m)
        BY <2>1, <2>2, EndIsWhole
    <2>4. /\ hand[g].pc = "entries" /\ m \in DOMAIN sent /\ d \in 1..MaxDeliveries
          /\ Mine(m, d) = Upto(m, d, k - 1)
        BY <2>1, <2>2, HandTypes DEF EndMessage, StoreInv, HandInv, InHand
    <2>5. \A j \in Storable(m) : RowsOf(m, d, j) \subseteq tsdata
        BY <2>3, <2>4 DEF Mine, Upto
    <2>6. Storable(m)' = Storable(m) /\ \A j : RowsOf(m, d, j)' = RowsOf(m, d, j)
        BY <2>4, SameRows DEF StoreInv
    <2> QED BY <2>4, <2>5, <2>6, TableGrows
<1> QED BY <1>1, <1>2

\* A point of a message that was handled and not lost has a row.
LEMMA StoredPoint ==
    ASSUME TsTypeOK, Stored, NEW m \in handled \ lost, NEW s \in Series,
           NEW p \in PointsIn(m, s)
    PROVE  \E x \in RowsIn(s) :
              /\ x.at[1] = m /\ x.at[3] = p[1] /\ x.at[4] = p[2]
              /\ x.ts = sent[m][p[1]].records[p[2]].t
<1>1. PICK d \in 1..MaxDeliveries : \A k \in Storable(m) : RowsOf(m, d, k) \subseteq tsdata
    BY DEF Stored
<1>2. PICK k \in Storable(m) : sent[m][k].series = s
                               /\ \E i \in Points(sent[m][k]) : p = <<k, i>>
    BY DEF PointsIn
<1>3. PICK i \in Points(sent[m][k]) : p = <<k, i>>
    BY <1>2
<1>4. s # NoSeries
    BY TsDataAssumption
<1> DEFINE x == [series |-> sent[m][k].series, ts |-> sent[m][k].records[i].t,
                 dt |-> sent[m][k].dt,
                 value |-> Coerced(sent[m][k].dt, sent[m][k].records[i].v),
                 at |-> <<m, d, k, i>>]
<1>5. x \in RowsOf(m, d, k)
    BY <1>2, <1>4 DEF RowsOf
<1>6. x \in tsdata
    BY <1>1, <1>5
<1>7. x \in RowsIn(s)
    BY <1>2, <1>6 DEF RowsIn
<1>8. /\ x.at[1] = m /\ x.at[3] = p[1] /\ x.at[4] = p[2]
      /\ x.ts = sent[m][p[1]].records[p[2]].t
    BY <1>3
<1> HIDE DEF x
<1> QED BY <1>7, <1>8

\* What a query knows stays true while the table changes.
LEMMA QueryStays ==
    ASSUME TsInv, [TsNext]_tsVars, NEW q, q.after \subseteq handled
    PROVE  /\ Informed(q) => Informed(q)'
           /\ Answered(q) => Answered(q)'
           /\ \A s : RowsIn(s) \subseteq RowsIn(s)'
<1>1. \A m \in q.after : m \in DOMAIN sent
    BY DEF TsInv, StoreInv, TsTypeOK
<1>2. \A m \in q.after : \A s : PointsIn(m, s)' = PointsIn(m, s)
    BY <1>1, SameRows DEF TsInv, StoreInv
<1>3. \A m \in q.after : sent'[m] = sent[m]
    BY <1>1, SentStays DEF TsInv, StoreInv
<1>4. \A s : RowsIn(s) \subseteq RowsIn(s)'
    BY TableGrows DEF RowsIn
<1>5. ASSUME Informed(q) PROVE Informed(q)'
    <2>1. HadPoints(q)' => HadPoints(q)
        BY <1>2, TableGrows DEF HadPoints
    <2> QED BY <1>4, <1>5, <2>1, TableGrows DEF Informed
<1>6. ASSUME Answered(q) PROVE Answered(q)'
    <2> SUFFICES ASSUME NEW m \in q.after \ lost', NEW p \in PointsIn(m, q.series)',
                        q.from <= sent'[m][p[1]].records[p[2]].t,
                        sent'[m][p[1]].records[p[2]].t <= q.to
                 PROVE  \/ \E x \in q.got : /\ x.at[1] = m /\ x.at[3] = p[1] /\ x.at[4] = p[2]
                                             /\ x.ts = sent'[m][p[1]].records[p[2]].t
                        \/ /\ Cardinality(q.got) = q.lim
                           /\ \A x \in q.got : x.ts <= sent'[m][p[1]].records[p[2]].t
        BY DEF Answered
    <2>1. /\ m \in q.after \ lost /\ p \in PointsIn(m, q.series)
          /\ sent'[m] = sent[m]
        BY <1>2, <1>3, TableGrows
    <2> QED BY <1>6, <2>1 DEF Answered
<1> QED BY <1>4, <1>5, <1>6

\* The rows ORDER BY ts LIMIT leaves out are no older than those it takes, of
\* which there are then as many as asked for.
LEMMA LeftOut ==
    ASSUME NEW W, IsFiniteSet(W), NEW lim \in Nat, NEW S \in Oldest(W, lim),
           NEW x \in W, x \notin S
    PROVE  Cardinality(S) = lim /\ \A y \in S : y.ts <= x.ts
<1>1. /\ S \in SUBSET W
      /\ Cardinality(S) = IF Cardinality(W) < lim THEN Cardinality(W) ELSE lim
      /\ \A y \in S : y.ts <= x.ts
    BY DEF Oldest
<1>2. Cardinality(S) # Cardinality(W)
    BY <1>1, FS_Subset
<1>3. Cardinality(W) \in Nat
    BY FS_CardinalityType
<1> QED BY <1>1, <1>2, <1>3

\* The answers are right when they are read and stay so.
LEMMA QueryStep == TsInv /\ [TsNext]_tsVars => QueryInv'
<1> SUFFICES ASSUME TsInv, [TsNext]_tsVars, NEW r \in Readers
             PROVE  /\ query'[r].pc # "idle" => Informed(query[r])'
                    /\ query'[r].pc = "answer" =>
                          /\ query'[r].got \subseteq RowsIn(query[r].series)'
                          /\ Answered(query[r])'
    BY DEF QueryInv
<1> USE DEF TsInv
<1>q. PICK q : q = query'[r]
    OBVIOUS
<1> SUFFICES /\ q.pc # "idle" => Informed(q)'
             /\ q.pc = "answer" => q.got \subseteq RowsIn(q.series)' /\ Answered(q)'
    BY <1>q DEF Informed, Answered, HadPoints, RowsIn
<1>t. /\ TsTypeOK /\ query[r] \in Query
      /\ \A e \in Readers : query[e] \in Query
    BY DEF StoreInv, TsTypeOK
<1>1. CASE query'[r] = query[r]
    <2>1. /\ q.pc # "idle" => Informed(q)
          /\ q.pc = "answer" => q.got \subseteq RowsIn(q.series) /\ Answered(q)
        BY <1>q, <1>1 DEF QueryInv
    <2>2. q.pc = "answer" => q.pc # "idle"
        OBVIOUS
    <2>3. q.pc # "idle" => q.after \subseteq handled
        BY <2>1 DEF Informed
    <2>4. CASE q.pc # "idle"
        BY <2>1, <2>2, <2>3, <2>4, QueryStays
    <2> QED BY <2>2, <2>4
<1>2. ASSUME NEW s \in Series, NEW win \in Windows, NEW lim \in Limits,
             QueryType(r, s, win[1], win[2], lim)
      PROVE  q.pc = "rows" /\ Informed(q)'
    <2>1. PICK dt \in LastTypes(s) :
             query' = [query EXCEPT ![r] =
                [pc |-> "rows", series |-> s, from |-> win[1], to |-> win[2],
                 lim |-> lim, col |-> value_column(dt), after |-> handled]]
        BY <1>2 DEF QueryType
    <2>2. /\ q.pc = "rows" /\ q.series = s /\ q.col = value_column(dt)
          /\ q.after = handled
        BY <1>q, <1>t, <2>1 DEF StoreInv, TsTypeOK
    <2>3. Informed(q)
        <3> SUFFICES ASSUME HadPoints(q)
                     PROVE  \E y \in RowsIn(s) : value_column(y.dt) = value_column(dt)
            BY <2>2 DEF Informed
        <3>1. PICK m \in handled \ lost : PointsIn(m, s) # {}
            BY <2>2 DEF HadPoints
        <3>2. RowsIn(s) # {}
            BY <1>t, <3>1, StoredPoint
        <3> QED BY <3>2 DEF LastTypes
    <2> QED BY <2>2, <2>3, QueryStays
<1>3. ASSUME QueryRows(r)
      PROVE  Informed(q)' /\ q.got \subseteq RowsIn(q.series)' /\ Answered(q)'
    <2>0. PICK o : o = query[r]
        OBVIOUS
    <2>1. PICK S \in Oldest(Window(o.series, o.from, o.to), o.lim) :
             query' = [query EXCEPT ![r] =
                [pc |-> "answer", series |-> o.series, from |-> o.from, to |-> o.to,
                 lim |-> o.lim, col |-> o.col, after |-> o.after, got |-> S]]
        BY <1>3, <2>0 DEF QueryRows
    <2>2. o \in [pc : {"rows"}, series : Series, from : Times, to : Times,
                 lim : Limits, col : Columns, after : SUBSET Messages]
        BY <1>3, <1>t, <2>0 DEF QueryRows, Query, Free
    <2>3. /\ q.pc = "answer" /\ q.series = o.series /\ q.from = o.from /\ q.to = o.to
          /\ q.lim = o.lim /\ q.col = o.col /\ q.after = o.after /\ q.got = S
        BY <1>q, <1>t, <2>1 DEF StoreInv, TsTypeOK
    <2>4. o.pc = "rows" /\ o.series \in Series /\ o.lim \in Nat
        BY <2>2, TsDataAssumption
    <2>5. Informed(q) /\ q.after \subseteq handled
        <3>1. Informed(o)
            BY <2>0, <2>4 DEF QueryInv
        <3> QED BY <2>3, <3>1 DEF Informed, HadPoints
    <2> DEFINE W == Window(o.series, o.from, o.to)
    <2>6. W \subseteq RowsIn(o.series) /\ W \subseteq tsdata
        BY DEF Window, RowsIn
    <2>7. IsFiniteSet(W)
        BY <2>6, FS_Subset DEF StoreInv, RowInv
    <2>8. q.got \subseteq RowsIn(q.series)
        BY <2>1, <2>3, <2>6 DEF Oldest
    <2>9. Answered(q)
        <3> SUFFICES ASSUME NEW m \in q.after \ lost, NEW p \in PointsIn(m, q.series),
                            NEW t, t = sent[m][p[1]].records[p[2]].t,
                            q.from <= t, t <= q.to,
                            ~(\E x \in q.got : /\ x.at[1] = m /\ x.at[3] = p[1]
                                               /\ x.at[4] = p[2] /\ x.ts = t)
                     PROVE  Cardinality(q.got) = q.lim /\ \A x \in q.got : x.ts <= t
            BY DEF Answered
        <3>1. PICK x \in RowsIn(o.series) :
                 /\ x.at[1] = m /\ x.at[3] = p[1] /\ x.at[4] = p[2] /\ x.ts = t
            <4>0. PICK s \in Series : s = o.series
                BY <2>4
            <4>1. m \in handled \ lost /\ p \in PointsIn(m, s)
                BY <2>3, <2>5, <4>0
            <4>2. TsTypeOK /\ Stored
                BY <1>t
            <4>3. \E x \in RowsIn(s) :
                     /\ x.at[1] = m /\ x.at[3] = p[1] /\ x.at[4] = p[2]
                     /\ x.ts = sent[m][p[1]].records[p[2]].t
                BY <4>1, <4>2, StoredPoint
            <4> QED BY <4>0, <4>3
        <3>2. x \in W /\ x \notin S
            BY <2>3, <3>1 DEF Window
        <3> HIDE DEF W
        <3>3. Cardinality(S) = o.lim /\ \A y \in S : y.ts <= x.ts
            BY <2>1, <2>4, <2>7, <3>2, LeftOut DEF W
        <3> QED BY <2>3, <3>1, <3>3
    <2> QED BY <2>5, <2>8, <2>9, QueryStays
<1>4. ASSUME QueryDone(r) PROVE q.pc = "idle"
    BY <1>4, <1>q, <1>t DEF QueryDone, Free, StoreInv, TsTypeOK
<1>5. \/ query'[r] = query[r]
      \/ \E s \in Series, win \in Windows, lim \in Limits :
            QueryType(r, s, win[1], win[2], lim)
      \/ QueryRows(r)
      \/ QueryDone(r)
    <2>1. ASSUME NEW e \in Readers, e # r, NEW v, query' = [query EXCEPT ![e] = v]
          PROVE  query'[r] = query[r]
        BY <2>1 DEF StoreInv, TsTypeOK
    <2>2. CASE UNCHANGED query
        BY <2>2
    <2>3. CASE \E e \in Readers, s \in Series, win \in Windows, lim \in Limits :
                  QueryType(e, s, win[1], win[2], lim)
        BY <2>1, <2>3 DEF QueryType
    <2>4. CASE \E e \in Readers : QueryRows(e)
        BY <2>1, <2>4 DEF QueryRows
    <2>5. CASE \E e \in Readers : QueryDone(e)
        BY <2>1, <2>5 DEF QueryDone
    <2> QED BY <2>2, <2>3, <2>4, <2>5
            DEF TsNext, Serve, tsVars, Publish, Take, StoreEntry, EndMessage, Crash
<1> QED BY <1>1, <1>2, <1>3, <1>4, <1>5

\* The invariant holds initially: nothing is sent, stored or asked.
LEMMA TsInitInv == TsInit => TsInv
<1> SUFFICES ASSUME TsInit PROVE TsInv
    OBVIOUS
<1> USE TsDataAssumption DEF TsInit
<1>1. TsTypeOK
    BY DEF TsTypeOK, Hand, Query
<1>2. DeliveryInv /\ OwnDeliveries /\ HandInv
    BY DEF DeliveryInv, OwnDeliveries, HandInv, Free
<1>3. RowInv
    BY FS_EmptySet DEF RowInv
<1>4. WholeEntries
    BY DEF WholeEntries
<1>5. Stored /\ QueryInv
    BY DEF Stored, QueryInv, Free
<1> QED BY <1>1, <1>2, <1>3, <1>4, <1>5 DEF TsInv, StoreInv

\* The invariant of the time series is inductive, so it holds in every
\* reachable state.
THEOREM TsInvHolds == TsSpec => []TsInv
<1>1. TsInit => TsInv
    BY TsInitInv
<1>2. TsInv /\ [TsNext]_tsVars => TsInv'
    BY StoreInvStep, StoredStep, QueryStep DEF TsInv
<1> QED BY <1>1, <1>2, PTL DEF TsSpec

\* The table, the messages in hand and the queries keep their types.
THEOREM TsTypeCorrect == TsSpec => []TsTypeOK
<1>1. TsInv => TsTypeOK
    BY DEF TsInv, StoreInv
<1> QED BY <1>1, TsInvHolds, PTL

\* A delivery leaves whole entries and no gap, whatever entry fails, however
\* many replicas there are and however often a batch is delivered.
THEOREM EntriesWhole == TsSpec => []WholeEntries
<1>1. TsInv => WholeEntries
    BY DEF TsInv, StoreInv
<1> QED BY <1>1, TsInvHolds, PTL

\* What was handled before a query arrived is in its answer, unless the limit
\* is full of points at least as old.
THEOREM AnswersComplete == TsSpec => []HandledIsRead
<1>1. TsInv => HandledIsRead
    BY DEF TsInv, QueryInv, HandledIsRead, Answered
<1> QED BY <1>1, TsInvHolds, PTL

\* The two SELECTs of a query agree on the column as long as the series keeps
\* to one: no value is shown as NULL.
THEOREM AnswersTyped == TsSpec => []TypedAnswer
<1>1. TsInv => TypedAnswer
    <2> SUFFICES ASSUME TsInv, NEW r \in Readers, query[r].pc = "answer",
                        NEW q, q = query[r], HadPoints(q),
                        \A x, y \in RowsIn(q.series) :
                            value_column(x.dt) = value_column(y.dt),
                        NEW x \in q.got
                 PROVE  Shown(x, q.col) = x.value
        BY DEF TypedAnswer, HadPoints
    <2>1. PICK y \in RowsIn(q.series) : value_column(y.dt) = q.col
        BY DEF TsInv, QueryInv, Informed
    <2>2. x \in RowsIn(q.series)
        BY DEF TsInv, QueryInv
    <2> QED BY <2>1, <2>2 DEF Shown
<1> QED BY <1>1, TsInvHolds, PTL

-----------------------------------------------------------------------------
(* Sums and maxima over a finite set, for the aggregated answers.          *)

\* The element a fold takes out of s first.
Chosen(s) == CHOOSE y \in s : TRUE

\* g adds up v over every subset of S, the way the fold does.
Adds(g, v, S) ==
    g = [s \in SUBSET S |-> IF s = {} THEN 0 ELSE v[Chosen(s)] + g[s \ {Chosen(s)}]]

\* Induction over a finite set, with the claim as a set G of sets: of the
\* subsets outside G one would be minimal.
LEMMA FiniteInduction ==
    ASSUME NEW S, IsFiniteSet(S), NEW G,
           \A T \in SUBSET S : (\A x \in T : T \ {x} \in G) => T \in G
    PROVE  S \in G
<1> DEFINE R == StrictSubsetOrdering(S)
           bad == {T \in FiniteSubsetsOf(S) : T \notin G}
<1>1. S \in FiniteSubsetsOf(S)
    BY DEF FiniteSubsetsOf
<1>2. SUFFICES ASSUME bad # {} PROVE FALSE
    BY <1>1
<1>3. IsWellFoundedOn(R, FiniteSubsetsOf(S))
    BY FS_StrictSubsetOrderingWellFounded
<1>4. bad \subseteq FiniteSubsetsOf(S)
    OBVIOUS
<1> HIDE DEF bad, R
<1>5. PICK T \in bad : \A U \in bad : <<U, T>> \notin R
    BY <1>2, <1>3, <1>4, WFMin
<1>6. T \in SUBSET S /\ IsFiniteSet(T) /\ T \notin G
    BY <1>5 DEF bad, FiniteSubsetsOf
<1>7. ASSUME NEW x \in T PROVE T \ {x} \in G
    <2>1. T \ {x} \in FiniteSubsetsOf(S)
        BY <1>6, FS_RemoveElement DEF FiniteSubsetsOf
    <2>2. <<T \ {x}, T>> \in R
        BY <1>6, <1>7, <2>1 DEF R, StrictSubsetOrdering, FiniteSubsetsOf
    <2> QED BY <1>5, <2>1, <2>2 DEF bad
<1> QED BY <1>6, <1>7

\* The fold takes out an element.
LEMMA Picked == \A s : s # {} => Chosen(s) \in s
BY DEF Chosen

\* At most one function adds up v over the subsets of S.
LEMMA AddsOnce ==
    ASSUME NEW v, NEW S, IsFiniteSet(S), NEW g, NEW h, Adds(g, v, S), Adds(h, v, S)
    PROVE  g = h
<1> DEFINE G == {T \in SUBSET S : g[T] = h[T]}
<1>1. ASSUME NEW U \in SUBSET S PROVE U \in G
    <2>1. IsFiniteSet(U)
        BY FS_Subset
    <2>2. ASSUME NEW T \in SUBSET U, \A x \in T : T \ {x} \in G PROVE T \in G
        <3>1. T \in SUBSET S
            OBVIOUS
        <3>2. CASE T = {}
            BY <3>1, <3>2 DEF Adds
        <3>3. CASE T # {}
            <4>1. T \ {Chosen(T)} \in G
                BY <2>2, <3>3, Picked
            <4>2. g[T \ {Chosen(T)}] = h[T \ {Chosen(T)}]
                BY <4>1
            <4>3. g[T] = v[Chosen(T)] + g[T \ {Chosen(T)}]
                BY <3>1, <3>3 DEF Adds
            <4>4. h[T] = v[Chosen(T)] + h[T \ {Chosen(T)}]
                BY <3>1, <3>3 DEF Adds
            <4> QED BY <3>1, <4>2, <4>3, <4>4
        <3> QED BY <3>2, <3>3
    <2> HIDE DEF G
    <2> QED BY <2>1, <2>2, FiniteInduction
<1>2. \A U \in SUBSET S : g[U] = h[U]
    BY <1>1
<1>3. g = [s \in SUBSET S |-> g[s]] /\ h = [s \in SUBSET S |-> h[s]]
    BY DEF Adds
<1> QED BY <1>2, <1>3

\* It does so over the subsets of a subset as well.
LEMMA AddsWithin ==
    ASSUME NEW v, NEW S, NEW g, Adds(g, v, S), NEW U \in SUBSET S
    PROVE  Adds([s \in SUBSET U |-> g[s]], v, U)
<1> DEFINE h == [s \in SUBSET U |-> g[s]]
           k == [s \in SUBSET U |-> IF s = {} THEN 0 ELSE v[Chosen(s)] + h[s \ {Chosen(s)}]]
<1>1. ASSUME NEW s \in SUBSET U PROVE h[s] = k[s]
    <2>1. s \in SUBSET S /\ s \ {Chosen(s)} \in SUBSET U
        OBVIOUS
    <2>2. g[s] = IF s = {} THEN 0 ELSE v[Chosen(s)] + g[s \ {Chosen(s)}]
        BY <2>1 DEF Adds
    <2> QED BY <2>1, <2>2
<1>2. h = k
    BY <1>1
<1> QED BY <1>2 DEF Adds

\* The function that adds up v over the subsets of S.
TheSum(v, S) == CHOOSE g : Adds(g, v, S)

\* There is such a function.
LEMMA AddsExists ==
    ASSUME NEW v, NEW S, IsFiniteSet(S)
    PROVE  \E g : Adds(g, v, S)
<1> DEFINE G == {T \in SUBSET S : \E g : Adds(g, v, T)}
<1>1. ASSUME NEW T \in SUBSET S, \A x \in T : T \ {x} \in G PROVE T \in G
    <2> DEFINE a(s) == TheSum(v, s)[s]
               h == [s \in SUBSET T |-> IF s # T THEN a(s)
                        ELSE IF s = {} THEN 0 ELSE v[Chosen(s)] + a(s \ {Chosen(s)})]
               k == [s \in SUBSET T |-> IF s = {} THEN 0 ELSE v[Chosen(s)] + h[s \ {Chosen(s)}]]
    <2>1. ASSUME NEW s \in SUBSET T, s # T
          PROVE  Adds(TheSum(v, s), v, s)
        <3>1. PICK x \in T : x \notin s
            BY <2>1
        <3>2. PICK g : Adds(g, v, T \ {x})
            BY <1>1
        <3>3. s \in SUBSET (T \ {x})
            BY <3>1
        <3>4. \E g1 : Adds(g1, v, s)
            BY <3>2, <3>3, AddsWithin
        <3> QED BY <3>4 DEF TheSum
    <2>2. ASSUME NEW s \in SUBSET T, s # T, s # {}
          PROVE  a(s) = v[Chosen(s)] + a(s \ {Chosen(s)})
        <3> DEFINE r == s \ {Chosen(s)}
        <3>1. r \in SUBSET T /\ r # T /\ r \in SUBSET s
            BY <2>2, Picked
        <3>2. Adds(TheSum(v, s), v, s) /\ Adds(TheSum(v, r), v, r)
            BY <2>1, <2>2, <3>1
        <3>3. IsFiniteSet(r)
            BY <3>1, FS_Subset
        <3>4. Adds([u \in SUBSET r |-> TheSum(v, s)[u]], v, r)
            BY <3>1, <3>2, AddsWithin
        <3>5. TheSum(v, r) = [u \in SUBSET r |-> TheSum(v, s)[u]]
            <4> HIDE DEF r
            <4> QED BY <3>2, <3>3, <3>4, AddsOnce
        <3>6. TheSum(v, r)[r] = TheSum(v, s)[r]
            BY <3>5
        <3>7. TheSum(v, s)[s] = v[Chosen(s)] + TheSum(v, s)[r]
            BY <3>2, <2>2 DEF Adds
        <3> QED BY <3>6, <3>7
    <2>3. ASSUME NEW s \in SUBSET T PROVE h[s] = k[s]
        <3>1. CASE s = {}
            <4>1. CASE T = {}
                BY <3>1, <4>1
            <4>2. CASE T # {}
                BY <2>1, <3>1, <4>2 DEF Adds
            <4> QED BY <4>1, <4>2
        <3>2. CASE s # {}
            <4>1. s \ {Chosen(s)} \in SUBSET T /\ s \ {Chosen(s)} # T
                BY <3>2, Picked
            <4>2. h[s \ {Chosen(s)}] = a(s \ {Chosen(s)})
                BY <4>1
            <4>3. h[s] = v[Chosen(s)] + a(s \ {Chosen(s)})
                BY <2>2, <3>2
            <4> QED BY <3>2, <4>2, <4>3
        <3> QED BY <3>1, <3>2
    <2>4. h = k
        BY <2>3
    <2>5. Adds(h, v, T)
        BY <2>4 DEF Adds
    <2> QED BY <2>5
<1>2. S \in G
    <2> HIDE DEF G
    <2> QED BY <1>1, FiniteInduction
<1> QED BY <1>2

\* A sum is what that function says of the whole set.
LEMMA SumUnfold == \A v, S : SumFunctionOnSet(v, S) = TheSum(v, S)[S]
BY DEF SumFunctionOnSet, FoldFunctionOnSet, MapThenFoldSet, TheSum, Adds, Chosen

\* So a sum obeys the equation of the fold.
LEMMA SumStep ==
    ASSUME NEW v, NEW S, IsFiniteSet(S)
    PROVE  SumFunctionOnSet(v, S) =
             IF S = {} THEN 0 ELSE v[Chosen(S)] + SumFunctionOnSet(v, S \ {Chosen(S)})
<1> DEFINE r == S \ {Chosen(S)}
<1>1. r \in SUBSET S /\ IsFiniteSet(r)
    BY FS_Subset
<1>2. Adds(TheSum(v, S), v, S) /\ Adds(TheSum(v, r), v, r)
    BY <1>1, AddsExists DEF TheSum
<1>3. Adds([u \in SUBSET r |-> TheSum(v, S)[u]], v, r)
    BY <1>1, <1>2, AddsWithin
<1>4. TheSum(v, r) = [u \in SUBSET r |-> TheSum(v, S)[u]]
    <2> HIDE DEF r
    <2> QED BY <1>1, <1>2, <1>3, AddsOnce
<1>5. TheSum(v, r)[r] = TheSum(v, S)[r]
    BY <1>4
<1>6. TheSum(v, S)[S] = IF S = {} THEN 0 ELSE v[Chosen(S)] + TheSum(v, S)[r]
    BY <1>2 DEF Adds
<1> QED BY <1>5, <1>6, SumUnfold

Sum(v, S) == SumFunctionOnSet(v, S)

\* The sum of integers is an integer.
LEMMA SumType ==
    ASSUME NEW v, NEW S, IsFiniteSet(S), \A x \in S : v[x] \in Int
    PROVE  SumFunctionOnSet(v, S) \in Int
<1> DEFINE G == {T \in SUBSET S : SumFunctionOnSet(v, T) \in Int}
<1>1. ASSUME NEW T \in SUBSET S, \A x \in T : T \ {x} \in G PROVE T \in G
    <2>1. IsFiniteSet(T)
        BY FS_Subset
    <2>2. CASE T = {}
        <3>1. SumFunctionOnSet(v, T) = 0
            BY <2>1, <2>2, SumStep
        <3> QED BY <3>1
    <2>3. CASE T # {}
        <3>1. Chosen(T) \in T
            BY <2>3, Picked
        <3>2. v[Chosen(T)] \in Int /\ SumFunctionOnSet(v, T \ {Chosen(T)}) \in Int
            BY <1>1, <3>1
        <3>3. SumFunctionOnSet(v, T) = v[Chosen(T)] + SumFunctionOnSet(v, T \ {Chosen(T)})
            BY <2>1, <2>3, SumStep
        <3> QED BY <3>2, <3>3
    <2> QED BY <2>2, <2>3
<1>2. S \in G
    <2> HIDE DEF G
    <2> QED BY <1>1, FiniteInduction
<1> QED BY <1>2

\* A sum depends on the values over the set alone.
LEMMA SumSame ==
    ASSUME NEW v, NEW u, NEW S, IsFiniteSet(S), \A x \in S : v[x] = u[x]
    PROVE  SumFunctionOnSet(v, S) = SumFunctionOnSet(u, S)
<1> DEFINE G == {T \in SUBSET S : SumFunctionOnSet(v, T) = SumFunctionOnSet(u, T)}
<1>1. ASSUME NEW T \in SUBSET S, \A x \in T : T \ {x} \in G PROVE T \in G
    <2>1. IsFiniteSet(T)
        BY FS_Subset
    <2>2. T # {} => /\ v[Chosen(T)] = u[Chosen(T)]
                    /\ SumFunctionOnSet(v, T \ {Chosen(T)}) = SumFunctionOnSet(u, T \ {Chosen(T)})
        BY <1>1, Picked
    <2> QED BY <2>1, <2>2, SumStep
<1>2. S \in G
    <2> HIDE DEF G
    <2> QED BY <1>1, FiniteInduction
<1> QED BY <1>2

\* The order does not matter: any element may be taken out first.
LEMMA SumWithout ==
    ASSUME NEW v, NEW S, IsFiniteSet(S), \A y \in S : v[y] \in Int, NEW x \in S
    PROVE  SumFunctionOnSet(v, S) = v[x] + SumFunctionOnSet(v, S \ {x})
<1> DEFINE G == {T \in SUBSET S : \A y \in T : Sum(v, T) = v[y] + Sum(v, T \ {y})}
<1>1. ASSUME NEW T \in SUBSET S, \A y \in T : T \ {y} \in G, NEW y \in T
      PROVE  Sum(v, T) = v[y] + Sum(v, T \ {y})
    <2> DEFINE c == Chosen(T)
               r == T \ {c, y}
    <2>1. IsFiniteSet(T) /\ IsFiniteSet(r)
        BY FS_Subset
    <2>2. c \in T
        BY Picked
    <2>3. Sum(v, T) = v[c] + Sum(v, T \ {c})
        BY <2>1, <2>2, SumStep DEF Sum
    <2>4. CASE y = c
        BY <2>3, <2>4
    <2>5. CASE y # c
        <3> HIDE DEF c
        <3>1. (T \ {c}) \ {y} = r /\ (T \ {y}) \ {c} = r
            OBVIOUS
        <3>2. Sum(v, T \ {c}) = v[y] + Sum(v, r)
            BY <1>1, <2>2, <2>5, <3>1
        <3>3. Sum(v, T \ {y}) = v[c] + Sum(v, r)
            BY <1>1, <2>2, <2>5, <3>1
        <3>4. v[c] \in Int /\ v[y] \in Int /\ Sum(v, r) \in Int
            BY <2>1, <2>2, SumType DEF Sum
        <3> HIDE DEF r
        <3> QED BY <2>3, <3>2, <3>3, <3>4
    <2> QED BY <2>4, <2>5
<1>2. S \in G
    <2>1. \A T \in SUBSET S : (\A y \in T : T \ {y} \in G) => T \in G
        BY <1>1
    <2> HIDE DEF G
    <2> QED BY <2>1, FiniteInduction
<1> QED BY <1>2 DEF Sum

\* The sums of two disjoint sets add up.
LEMMA SumUnion ==
    ASSUME NEW v, NEW A, NEW B, IsFiniteSet(A), IsFiniteSet(B), A \cap B = {},
           \A x \in A \cup B : v[x] \in Int
    PROVE  SumFunctionOnSet(v, A \cup B) = SumFunctionOnSet(v, A) + SumFunctionOnSet(v, B)
<1> DEFINE G == {T \in SUBSET B : Sum(v, A \cup T) = Sum(v, A) + Sum(v, T)}
<1>0. Sum(v, A) \in Int
    BY SumType DEF Sum
<1>1. ASSUME NEW T \in SUBSET B, \A x \in T : T \ {x} \in G PROVE T \in G
    <2>1. CASE T = {}
        <3>1. Sum(v, T) = 0 /\ A \cup T = A
            BY <2>1, FS_EmptySet, SumStep DEF Sum
        <3> QED BY <1>0, <3>1
    <2>2. CASE T # {}
        <3>1. PICK x : x \in T
            BY <2>2
        <3>2. IsFiniteSet(T) /\ IsFiniteSet(A \cup T) /\ IsFiniteSet(T \ {x})
            BY FS_Subset, FS_Union
        <3>3. (A \cup T) \ {x} = A \cup (T \ {x})
            BY <3>1
        <3>4. Sum(v, A \cup T) = v[x] + Sum(v, A \cup (T \ {x}))
            BY <3>1, <3>2, <3>3, SumWithout DEF Sum
        <3>5. Sum(v, T) = v[x] + Sum(v, T \ {x})
            BY <3>1, <3>2, SumWithout DEF Sum
        <3>6. Sum(v, A \cup (T \ {x})) = Sum(v, A) + Sum(v, T \ {x})
            BY <1>1, <3>1
        <3>7. v[x] \in Int /\ Sum(v, T \ {x}) \in Int
            BY <3>1, <3>2, SumType DEF Sum
        <3> QED BY <1>0, <3>4, <3>5, <3>6, <3>7
    <2> QED BY <2>1, <2>2
<1>2. B \in G
    <2> HIDE DEF G
    <2> QED BY <1>1, FiniteInduction
<1> QED BY <1>2 DEF Sum

\* The elements of F that k puts in group b.
Group(F, k, b) == {x \in F : k[x] = b}

\* A sum may be taken by groups: k names the group of an element, w the sum
\* of each group.
LEMMA SumGroups ==
    ASSUME NEW v, NEW F, IsFiniteSet(F), \A x \in F : v[x] \in Int,
           NEW k, NEW B, IsFiniteSet(B), NEW w,
           \A b \in B : w[b] = SumFunctionOnSet(v, Group(F, k, b)),
           \A x \in F : k[x] \in B
    PROVE  SumFunctionOnSet(w, B) = SumFunctionOnSet(v, F)
<1> DEFINE Of(T) == {x \in F : k[x] \in T}
           G == {T \in SUBSET B : Sum(w, T) = Sum(v, Of(T))}
<1>0. \A b \in B : w[b] \in Int
    <2> SUFFICES ASSUME NEW b \in B PROVE w[b] \in Int
        OBVIOUS
    <2> DEFINE X == Group(F, k, b)
    <2>1. IsFiniteSet(X) /\ \A x \in X : v[x] \in Int
        BY FS_Subset DEF Group
    <2>2. w[b] = SumFunctionOnSet(v, X)
        OBVIOUS
    <2> HIDE DEF X
    <2> QED BY <2>1, <2>2, SumType
<1>1. ASSUME NEW T \in SUBSET B, \A b \in T : T \ {b} \in G PROVE T \in G
    <2>1. CASE T = {}
        <3>1. Of(T) = {}
            BY <2>1
        <3> QED BY <2>1, <3>1, FS_EmptySet, SumStep DEF Sum
    <2>2. CASE T # {}
        <3>1. PICK b : b \in T
            BY <2>2
        <3> DEFINE X == Group(F, k, b)
                   Y == Of(T \ {b})
        <3>2. IsFiniteSet(T) /\ IsFiniteSet(X) /\ IsFiniteSet(Y)
            BY FS_Subset DEF Group
        <3>3. Of(T) = X \cup Y /\ X \cap Y = {}
            BY <3>1 DEF Group
        <3>4. \A x \in X \cup Y : v[x] \in Int
            BY DEF Group
        <3>5. Sum(w, T \ {b}) = Sum(v, Y)
            BY <1>1, <3>1
        <3>6. w[b] = Sum(v, X)
            BY <3>1 DEF Sum
        <3> HIDE DEF X, Y, Of
        <3>7. Sum(v, X \cup Y) = Sum(v, X) + Sum(v, Y)
            BY <3>2, <3>3, <3>4, SumUnion DEF Sum
        <3>8. Sum(w, T) = w[b] + Sum(w, T \ {b})
            BY <1>0, <3>1, <3>2, SumWithout DEF Sum
        <3> QED BY <3>3, <3>5, <3>6, <3>7, <3>8
    <2> QED BY <2>1, <2>2
<1>2. B \in G
    <2> HIDE DEF G
    <2> QED BY <1>1, FiniteInduction
<1>3. Of(B) = F
    OBVIOUS
<1> QED BY <1>2, <1>3 DEF Sum

\* A finite set of integers that is not empty has a largest element.
LEMMA MaxExists ==
    ASSUME NEW S, IsFiniteSet(S), S \subseteq Int, S # {}
    PROVE  Max(S) \in S /\ \A y \in S : y <= Max(S)
<1> DEFINE G == {T \in SUBSET S : T # {} => \E x \in T : \A y \in T : x >= y}
<1>1. ASSUME NEW T \in SUBSET S, \A x \in T : T \ {x} \in G PROVE T \in G
    <2>1. SUFFICES ASSUME T # {} PROVE \E x \in T : \A y \in T : x >= y
        OBVIOUS
    <2>2. PICK a : a \in T
        BY <2>1
    <2>3. CASE T \ {a} = {}
        BY <2>2, <2>3
    <2>4. CASE T \ {a} # {}
        <3>1. PICK x \in T \ {a} : \A y \in T \ {a} : x >= y
            BY <1>1, <2>2, <2>4
        <3>2. a \in Int /\ x \in Int /\ \A y \in T : y \in Int
            BY <2>2, <3>1
        <3> QED BY <2>2, <3>1, <3>2
    <2> QED BY <2>3, <2>4
<1>2. S \in G
    <2> HIDE DEF G
    <2> QED BY <1>1, FiniteInduction
<1>3. \E x \in S : \A y \in S : x >= y
    BY <1>2
<1>4. Max(S) \in S /\ \A y \in S : Max(S) >= y
    BY <1>3 DEF Max
<1> QED BY <1>4

\* A point lies in its bucket.
LEMMA BucketHolds ==
    ASSUME NEW t \in Nat, NEW w \in Nat \ {0}
    PROVE  /\ t \div w \in Nat
           /\ time_bucket(w, t) <= t /\ t < time_bucket(w, t) + w
<1>1. /\ t \div w \in Nat
      /\ (t \div w) * w <= t /\ t < (t \div w) * w + w
    OBVIOUS
<1> QED BY <1>1 DEF time_bucket

\* No two multiples of the width are the beginning of a point's bucket.
LEMMA BucketOnce ==
    ASSUME NEW p \in Nat, NEW q \in Nat, NEW t \in Nat, NEW w \in Nat \ {0},
           p * w <= t, t < p * w + w, q * w <= t, t < q * w + w
    PROVE  p = q
<1>1. ASSUME NEW a \in Nat, NEW b \in Nat, a < b PROVE a * w + w <= b * w
    <2>1. PICK k \in Nat : b = a + 1 + k
        <3>1. b - a - 1 \in Nat /\ b = a + 1 + (b - a - 1)
            BY <1>1
        <3> QED BY <3>1
    <2>2. b * w = a * w + w + k * w
        BY <2>1
    <2>3. k * w \in Nat /\ a * w \in Nat
        OBVIOUS
    <2> QED BY <2>2, <2>3
<1>2. p * w \in Nat /\ q * w \in Nat
    OBVIOUS
<1>3. ASSUME p < q PROVE FALSE
    <2>1. p * w + w <= q * w
        BY <1>1, <1>3
    <2> QED BY <1>2, <2>1
<1>4. ASSUME q < p PROVE FALSE
    <2>1. q * w + w <= p * w
        BY <1>1, <1>4
    <2> QED BY <1>2, <2>1
<1> QED BY <1>3, <1>4


\* What is stored in a numeric column is a number: an entry with a value that
\* does not convert is never stored.
LEMMA NumbersInColumns ==
    ASSUME StoreInv, NEW x \in tsdata, value_column(x.dt) \in {"int", "float"}
    PROVE  x.value \in Nat
<1> DEFINE m == x.at[1]
           d == x.at[2]
<1>1. m \in DOMAIN sent /\ d \in 1..deliveries[m]
    BY DEF StoreInv, RowInv
<1>2. d \in 1..MaxDeliveries
    <2>1. m \in Messages
        BY <1>1, EntryTypes DEF StoreInv
    <2>2. deliveries[m] \in 0..MaxDeliveries
        BY <2>1 DEF StoreInv, TsTypeOK
    <2> QED BY <1>1, <2>2, TsDataAssumption
<1>3. PICK K \in 0..Len(sent[m]) : 1..K \subseteq Storable(m) /\ Mine(m, d) = Upto(m, d, K)
    BY <1>1, <1>2 DEF StoreInv, WholeEntries, Mine, Upto
<1>4. PICK k \in 1..K : x \in RowsOf(m, d, k)
    <2>1. x \in Mine(m, d)
        BY DEF Mine
    <2> QED BY <1>3, <2>1 DEF Upto
<1> DEFINE e == sent[m][k]
<1>5. ~EntryFails(e)
    <2>1. k \in Storable(m)
        BY <1>3, <1>4
    <2>2. k \in 1..k
        BY <1>4
    <2> QED BY <2>1, <2>2 DEF Storable
<1>6. k \in 1..Len(sent[m])
    BY <1>3, <1>4 DEF Storable
<1>7. e.series \in Series \cup {NoSeries}
    BY <1>1, <1>6, EntryTypes DEF StoreInv
<1>8. PICK i \in Points(e) : /\ e.series # NoSeries /\ x.dt = e.dt
                             /\ x.value = Coerced(e.dt, e.records[i].v)
    BY <1>4 DEF RowsOf
<1>9. Coercible(e.dt, e.records[i].v)
    BY <1>5, <1>7, <1>8 DEF EntryFails
<1> DEFINE n == e.records[i].v
<1> HIDE DEF n, e
<1>10. n \in Nat
    BY <1>8, <1>9, TsDataAssumption DEF Coercible, n
<1>11. n - (n % 2) \in Nat
    BY <1>10
<1> QED BY <1>8, <1>10, <1>11 DEF Coerced, n

\* A set has finitely many buckets.
LEMMA BucketsFinite ==
    ASSUME NEW W, IsFiniteSet(W), NEW width
    PROVE  IsFiniteSet(Buckets(W, width))
<1> DEFINE f == [x \in W |-> time_bucket(width, x.ts)]
<1>1. f \in Surjection(W, Buckets(W, width))
    BY DEF Surjection, Buckets
<1> HIDE DEF f
<1> QED BY <1>1, FS_Surjection

\* Every row lies in one bucket.
LEMMA OneBucket ==
    ASSUME NEW W, NEW width \in Nat \ {0}, \A y \in W : y.ts \in Nat, NEW x \in W
    PROVE  Cardinality({b \in Buckets(W, width) : b <= x.ts /\ x.ts < b + width}) = 1
<1> DEFINE c == time_bucket(width, x.ts)
           C == {b \in Buckets(W, width) : b <= x.ts /\ x.ts < b + width}
<1>1. c \in C
    BY BucketHolds DEF Buckets
<1>2. ASSUME NEW b \in C PROVE b = c
    <2>1. PICK y \in W : b = time_bucket(width, y.ts)
        BY DEF Buckets
    <2> DEFINE p == y.ts \div width
               q == x.ts \div width
    <2>2. b = p * width /\ c = q * width
        BY <2>1 DEF time_bucket
    <2>3. p \in Nat /\ q \in Nat
        BY BucketHolds
    <2>4. b <= x.ts /\ x.ts < b + width /\ c <= x.ts /\ x.ts < c + width
        BY <1>1
    <2> HIDE DEF p, q, c
    <2>5. p = q
        BY <2>2, <2>3, <2>4, BucketOnce
    <2> QED BY <2>2, <2>5
<1>3. C = {c}
    BY <1>1, <1>2
<1> HIDE DEF C
<1> QED BY <1>3, FS_Singleton DEF C

\* A window of one series, seen through a column of numbers: what the four
\* conjuncts of AggregateAgrees say of it.
LEMMA AggregateRight ==
    ASSUME NEW W, IsFiniteSet(W), \A x \in W : x.ts \in Nat,
           NEW width \in Nat \ {0}, NEW col,
           \A x \in W : value_column(x.dt) = col => x.value \in Nat
    PROVE  SameAsRaw(W, width, col)
<1> DEFINE filled == {x \in W : value_column(x.dt) = col}
           sums == Aggregated("sum", W, width, col)
           tops == Aggregated("max", W, width, col)
           real == {b \in DOMAIN sums : sums[b] # Null}
           B == Buckets(W, width)
           v == [x \in filled |-> x.value]
           k == [x \in filled |-> time_bucket(width, x.ts)]
           In(b) == Group(filled, k, b)
<1>1. DOMAIN sums = B /\ IsFiniteSet(B)
    BY BucketsFinite DEF Aggregated
<1>2. IsFiniteSet(filled) /\ \A x \in filled : x \in W /\ v[x] \in Nat /\ v[x] \in Int
    BY FS_Subset
<1>3. \A b : In(b) = Filled(W, width, b, col)
    BY DEF Filled, Group
<1>4. \A b : IsFiniteSet(In(b)) /\ In(b) \subseteq filled
    BY <1>2, FS_Subset DEF Group
<1>5. ASSUME NEW b \in B, In(b) # {}
      PROVE  sums[b] = SumFunctionOnSet(v, In(b)) /\ tops[b] = Max({x.value : x \in In(b)})
    <2> DEFINE X == In(b)
               u == [x \in X |-> x.value]
    <2>1. X = Filled(W, width, b, col) /\ X # {} /\ IsFiniteSet(X)
        BY <1>3, <1>4, <1>5
    <2>2. /\ sums[b] = AggregateOf("sum", Filled(W, width, b, col))
          /\ tops[b] = AggregateOf("max", Filled(W, width, b, col))
        BY <1>5 DEF Aggregated
    <2>3. \A x \in X : u[x] = v[x]
        BY <1>4
    <2>4. DOMAIN u = X
        OBVIOUS
    <2> HIDE DEF X, v
    <2>5. AggregateOf("sum", X) = SumFunction(u)
        BY <2>1 DEF AggregateOf
    <2>6. AggregateOf("max", X) = Max({x.value : x \in X})
        BY <2>1 DEF AggregateOf
    <2> HIDE DEF u
    <2>7. SumFunction(u) = SumFunctionOnSet(v, X)
        BY <2>1, <2>3, <2>4, SumSame DEF SumFunction
    <2> QED BY <2>1, <2>2, <2>5, <2>6, <2>7 DEF X
<1>6. ASSUME NEW b \in B PROVE b \in real <=> In(b) # {}
    <2>1. CASE In(b) = {}
        <3>1. sums[b] = AggregateOf("sum", {})
            BY <1>3, <1>6, <2>1 DEF Aggregated
        <3>2. AggregateOf("sum", {}) = Null
            BY DEF AggregateOf
        <3> QED BY <2>1, <3>1, <3>2
    <2>2. CASE In(b) # {}
        <3> DEFINE X == In(b)
        <3>1. IsFiniteSet(X) /\ \A x \in X : v[x] \in Int
            BY <1>2, <1>4
        <3>2. sums[b] = SumFunctionOnSet(v, X)
            BY <1>5, <2>2
        <3> HIDE DEF X, v
        <3>3. sums[b] \in Int
            BY <3>1, <3>2, SumType
        <3>4. Null \notin Int
            BY TsDataAssumption DEF Null
        <3> QED BY <1>1, <2>2, <3>3, <3>4
    <2> QED BY <2>1, <2>2
<1>7. real \subseteq B /\ IsFiniteSet(real)
    BY <1>1, FS_Subset
<1>8. ASSUME NEW x \in filled PROVE k[x] \in real /\ x \in In(k[x]) /\ k[x] \in B
    <2>1. k[x] \in B
        BY <1>2 DEF Buckets
    <2>2. x \in In(k[x])
        BY DEF Group
    <2> QED BY <1>6, <2>1, <2>2
<1>9. ASSUME NEW b, NEW x \in In(b) PROVE b <= x.ts /\ x.ts < b + width
    <2>1. x \in filled /\ b = time_bucket(width, x.ts) /\ x.ts \in Nat
        BY <1>2 DEF Group
    <2> QED BY <2>1, BucketHolds
<1>10. ASSUME NEW b \in real
       PROVE  /\ \E x \in In(b) : x.value = tops[b]
              /\ \A x \in In(b) : x.value <= tops[b]
    <2> DEFINE X == In(b)
               V == {x.value : x \in X}
               f == [x \in X |-> x.value]
    <2>1. b \in B /\ X # {} /\ IsFiniteSet(X)
        BY <1>4, <1>6, <1>7
    <2>2. \A x \in X : x.value \in Int
        BY <1>2, <1>4
    <2>3. tops[b] = Max(V)
        BY <1>5, <2>1
    <2> HIDE DEF X
    <2>4. f \in Surjection(X, V)
        BY DEF Surjection
    <2>5. IsFiniteSet(V)
        <3> HIDE DEF f, V
        <3> QED BY <2>1, <2>4, FS_Surjection
    <2>6. V # {} /\ V \subseteq Int
        BY <2>1, <2>2
    <2> HIDE DEF V
    <2>7. Max(V) \in V /\ \A y \in V : y <= Max(V)
        BY <2>5, <2>6, MaxExists
    <2> QED BY <2>3, <2>7 DEF V, X
<1>11. SumFunctionOnSet(sums, real) = SumFunction(v)
    <2>1. \A b \in real : sums[b] = SumFunctionOnSet(v, Group(filled, k, b))
        BY <1>5, <1>6, <1>7
    <2>2. \A x \in filled : k[x] \in real
        BY <1>8
    <2>3. DOMAIN v = filled
        OBVIOUS
    <2> HIDE DEF v, k, filled, sums, real
    <2>4. IsFiniteSet(filled) /\ IsFiniteSet(real) /\ \A x \in filled : v[x] \in Int
        BY <1>2, <1>7
    <2>5. SumFunctionOnSet(sums, real) = SumFunctionOnSet(v, filled)
        BY <2>1, <2>2, <2>4, SumGroups
    <2> QED BY <2>3, <2>5 DEF SumFunction
<1>12. \A x \in filled :
         \E b \in real : b <= x.ts /\ x.ts < b + width /\ x.value <= tops[b]
    BY <1>8, <1>9, <1>10
<1>13. \A b \in real :
         \E x \in filled : b <= x.ts /\ x.ts < b + width /\ x.value = tops[b]
    BY <1>4, <1>9, <1>10
<1>14. \A x \in W :
         Cardinality({b \in DOMAIN sums : b <= x.ts /\ x.ts < b + width}) = 1
    BY <1>1, OneBucket
<1> QED BY <1>11, <1>12, <1>13, <1>14 DEF SameAsRaw

\* An aggregated answer tells the same as the raw one (query_tsdata with an
\* interval): buckets do not overlap, the sums add up, the maxima are values
\* of their buckets and bound them; for any window, width and number of rows.
THEOREM AggregatesAgree == TsSpec => []AggregateAgrees
<1>1. TsInv => AggregateAgrees
    <2> SUFFICES ASSUME TsInv, NEW s \in Series, NEW win \in Windows,
                        NEW width \in Widths, NEW col \in {"int", "float"}
                 PROVE  SameAsRaw(Window(s, win[1], win[2]), width, col)
        BY DEF AggregateAgrees
    <2> DEFINE W == Window(s, win[1], win[2])
    <2>1. W \subseteq tsdata
        BY DEF Window, RowsIn
    <2>2. IsFiniteSet(W)
        BY <2>1, FS_Subset DEF TsInv, StoreInv, RowInv
    <2>3. \A x \in W : x.ts \in Nat
        BY <2>1, TsDataAssumption DEF TsInv, StoreInv, TsTypeOK, Row
    <2>4. \A x \in W : value_column(x.dt) = col => x.value \in Nat
        BY <2>1, NumbersInColumns DEF TsInv
    <2>5. width \in Nat \ {0}
        BY TsDataAssumption
    <2> HIDE DEF W
    <2>6. SameAsRaw(W, width, col)
        BY <2>2, <2>3, <2>4, <2>5, AggregateRight
    <2> QED BY <2>6 DEF W
<1> QED BY <1>1, TsInvHolds, PTL
=============================================================================
