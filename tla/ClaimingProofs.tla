--------------------------- MODULE ClaimingProofs ---------------------------
(* Proofs about Claiming, for any number of workers, claims, MACs, users    *)
(* and nodes.                                                               *)
EXTENDS Claiming, TLAPS

\* What holds of a request between its steps: the claim it read is still
\* there; past the first commit it is verified; a node that was found is not
\* lost again; and the worker has not issued a certificate for this claim
\* yet, which is what makes single use survive one more request.
RequestInv ==
    \A w \in Workers :
        req[w].pc # "idle" =>
            /\ req[w].claim \in DOMAIN claims
            /\ req[w].pc \in {"issue", "insert"}
                  => claims[req[w].claim].status = "verified"
            /\ req[w].pc = "insert" /\ ~req[w].newNode
                  => claims[req[w].claim].node \in nodes
            /\ \A c \in certs : c.claim = req[w].claim => c.by # w

\* The inductive invariant.
Inv == TypeOK /\ RequestInv /\ CertBacked /\ SequentialSingleUse

\* The rows have the declared types, and a request only carries values it
\* may carry, after every step.
LEMMA TypeStep == TypeOK /\ RequestInv /\ [Next]_vars => TypeOK'
<1> SUFFICES ASSUME TypeOK, RequestInv, [Next]_vars PROVE TypeOK'
    OBVIOUS
<1> USE ClaimingAssumption DEF TypeOK
<1>1. ASSUME NEW m \in Macs, InitiateSelfClaim(m) PROVE TypeOK'
    BY <1>1 DEF InitiateSelfClaim, InsertClaim, GenerateNodeId, ClaimChallenge
<1>2. ASSUME NEW u \in Users, NEW m \in Macs, InitiateAssistedClaim(u, m)
      PROVE  TypeOK'
    BY <1>2 DEF InitiateAssistedClaim, InsertClaim, GenerateNodeId,
                ClaimChallenge
<1>3. ASSUME NEW w \in Workers, NEW i \in DOMAIN claims,
             NEW proof \in BOOLEAN, NEW csr \in BOOLEAN,
             VerifySelfRead(w, i, proof, csr)
      PROVE  TypeOK'
    <2>1. claims[i].attempts \in 0..MaxAttempts
        BY DEF ClaimChallenge
    <2> QED BY <1>3, <2>1 DEF VerifySelfRead, Request
<1>4. ASSUME NEW w \in Workers, NEW u \in Users, NEW csr \in BOOLEAN,
             VerifyAssistedRead(w, u, csr)
      PROVE  TypeOK'
    BY <1>4 DEF VerifyAssistedRead, Request
<1>5. ASSUME NEW w \in Workers, Step(w) PROVE TypeOK'
    <2>0. req[w] \in Request
        OBVIOUS
    <2>1. CASE VerifySelfFail(w)
        <3>1. /\ req[w].claim \in DOMAIN claims
              /\ req[w].attempts + 1 \in 0..MaxAttempts
            BY <2>0, <2>1 DEF VerifySelfFail, Request, Idle, RequestInv
        <3>2. claims' \in [DOMAIN claims -> ClaimChallenge]
            <4> DEFINE i == req[w].claim
                       row == [claims[i] EXCEPT !.attempts = req[w].attempts + 1]
            <4>1. claims[i] \in ClaimChallenge
                BY <3>1
            <4>2. row \in ClaimChallenge
                BY <3>1, <4>1 DEF ClaimChallenge
            <4>3. claims' = [claims EXCEPT ![i] = row]
                BY <2>1 DEF VerifySelfFail, WriteAttempts
            <4> QED BY <3>1, <4>2, <4>3
        <3> QED BY <2>1, <3>2 DEF VerifySelfFail, Request
    <2>2. CASE VerifySelfCommit(w)
        <3>1. /\ req[w].claim \in DOMAIN claims
              /\ req[w].csr \in BOOLEAN
            BY <2>0, <2>2 DEF VerifySelfCommit, Request, Idle, RequestInv
        <3>2. claims' \in [DOMAIN claims -> ClaimChallenge]
            <4> DEFINE i == req[w].claim
                       row == [claims[i] EXCEPT !.status = "verified"]
            <4>1. row \in ClaimChallenge
                BY <3>1 DEF ClaimChallenge
            <4>2. claims' = [claims EXCEPT ![i] = row]
                BY <2>2 DEF VerifySelfCommit, MarkVerified
            <4> QED BY <3>1, <4>1, <4>2
        <3> QED BY <2>2, <3>1, <3>2 DEF VerifySelfCommit, Request
    <2>3. CASE VerifyAssistedCommit(w)
        <3>1. /\ req[w].claim \in DOMAIN claims
              /\ req[w].csr \in BOOLEAN
            BY <2>0, <2>3 DEF VerifyAssistedCommit, Request, Idle, RequestInv
        <3>2. claims' \in [DOMAIN claims -> ClaimChallenge]
            <4> DEFINE i == req[w].claim
                       row == [claims[i] EXCEPT !.status = "verified"]
            <4>1. row \in ClaimChallenge
                BY <3>1 DEF ClaimChallenge
            <4>2. claims' = [claims EXCEPT ![i] = row]
                BY <2>3 DEF VerifyAssistedCommit, MarkVerified
            <4> QED BY <3>1, <4>1, <4>2
        <3> QED BY <2>3, <3>1, <3>2 DEF VerifyAssistedCommit, Request
    <2>4. CASE IssueFail(w)
        BY <2>4 DEF IssueFail, Request
    <2>5. CASE IssueRead(w)
        <3>1. req[w].claim \in ClaimIds
            BY <2>0, <2>5 DEF IssueRead, Request, Idle
        <3> QED BY <2>5, <3>1 DEF IssueRead, Request
    <2>6. CASE IssueCommit(w)
        <3>1. req[w].claim \in DOMAIN claims
            BY <2>6 DEF IssueCommit, RequestInv
        <3>2. claims[req[w].claim].node \in Nodes
            BY <3>1 DEF ClaimChallenge
        <3>3. certs' \subseteq NodeCertificate
            BY <2>6, <3>1, <3>2 DEF IssueCommit, NodeCertificate
        <3>4. nodes' \subseteq Nodes
            BY <2>6, <3>2 DEF IssueCommit, AddNode
        <3> QED BY <2>6, <3>3, <3>4 DEF IssueCommit, Request
    <2>7. CASE IssueConflict(w)
        BY <2>7 DEF IssueConflict, Request
    <2>8. CASE Abort(w)
        BY <2>8 DEF Abort, Request
    <2> QED BY <1>5, <2>1, <2>2, <2>3, <2>4, <2>5, <2>6, <2>7, <2>8 DEF Step
<1>6. ASSUME NEW i \in DOMAIN claims, Expire(i) PROVE TypeOK'
    <2> DEFINE row == [claims[i] EXCEPT !.expired = TRUE]
    <2>1. row \in ClaimChallenge
        BY DEF ClaimChallenge
    <2>2. claims' = [claims EXCEPT ![i] = row]
        BY <1>6 DEF Expire
    <2>3. claims' \in [DOMAIN claims -> ClaimChallenge]
        BY <2>1, <2>2
    <2> QED BY <1>6, <2>3 DEF Expire
<1>7. ASSUME NEW n \in Nodes, EnsureNode(n) PROVE TypeOK'
    BY <1>7 DEF EnsureNode
<1>8. CASE UNCHANGED vars
    BY <1>8 DEF vars
<1> QED BY <1>1, <1>2, <1>3, <1>4, <1>5, <1>6, <1>7, <1>8 DEF Next

\* A commit changes one claim's columns and adds rows; nothing else moves.
LEMMA RequestStep == Inv /\ [Next]_vars => RequestInv'
<1> SUFFICES ASSUME Inv, [Next]_vars PROVE RequestInv'
    OBVIOUS
<1> USE DEF Inv, TypeOK, RequestInv
<1>1. ASSUME NEW m \in Macs, InitiateSelfClaim(m) PROVE RequestInv'
    BY <1>1 DEF InitiateSelfClaim, InsertClaim
<1>2. ASSUME NEW u \in Users, NEW m \in Macs, InitiateAssistedClaim(u, m)
      PROVE  RequestInv'
    BY <1>2 DEF InitiateAssistedClaim, InsertClaim
<1>3. ASSUME NEW w \in Workers, NEW i \in DOMAIN claims,
             NEW proof \in BOOLEAN, NEW csr \in BOOLEAN,
             VerifySelfRead(w, i, proof, csr)
      PROVE  RequestInv'
    <2>1. \A c \in certs : c.claim # i
        BY <1>3 DEF VerifySelfRead, SelfClaimOpen, CertBacked
    <2> QED BY <1>3, <2>1 DEF VerifySelfRead
<1>4. ASSUME NEW w \in Workers, NEW u \in Users, NEW csr \in BOOLEAN,
             VerifyAssistedRead(w, u, csr)
      PROVE  RequestInv'
    <2>1. PICK i \in DOMAIN claims :
             /\ PendingAssisted(u) = {i}
             /\ req' = [req EXCEPT ![w] = [pc |-> "assisted", claim |-> i,
                                           csr |-> csr]]
        BY <1>4 DEF VerifyAssistedRead
    <2>2. claims[i].status = "pending"
        BY <2>1 DEF PendingAssisted
    <2>3. \A c \in certs : c.claim # i
        BY <2>2 DEF CertBacked
    <2> QED BY <1>4, <2>1, <2>3 DEF VerifyAssistedRead
<1>5. ASSUME NEW w \in Workers, Step(w) PROVE RequestInv'
    <2>1. CASE VerifySelfFail(w)
        BY <2>1 DEF VerifySelfFail, WriteAttempts, Idle
    <2>2. CASE VerifySelfCommit(w)
        BY <2>2 DEF VerifySelfCommit, MarkVerified
    <2>3. CASE VerifyAssistedCommit(w)
        BY <2>3 DEF VerifyAssistedCommit, MarkVerified
    <2>4. CASE IssueFail(w)
        BY <2>4 DEF IssueFail, Idle
    <2>5. CASE IssueRead(w)
        BY <2>5 DEF IssueRead
    <2>6. CASE IssueCommit(w)
        BY <2>6 DEF IssueCommit, AddNode, Idle
    <2>7. CASE IssueConflict(w)
        BY <2>7 DEF IssueConflict, Idle
    <2>8. CASE Abort(w)
        BY <2>8 DEF Abort, Idle
    <2> QED BY <1>5, <2>1, <2>2, <2>3, <2>4, <2>5, <2>6, <2>7, <2>8 DEF Step
<1>6. ASSUME NEW i \in DOMAIN claims, Expire(i) PROVE RequestInv'
    BY <1>6 DEF Expire
<1>7. ASSUME NEW n \in Nodes, EnsureNode(n) PROVE RequestInv'
    BY <1>7 DEF EnsureNode
<1>8. CASE UNCHANGED vars
    BY <1>8 DEF vars
<1> QED BY <1>1, <1>2, <1>3, <1>4, <1>5, <1>6, <1>7, <1>8 DEF Next

\* What a step does to claim i: no step writes the node of a claim, turns a
\* verified claim back, or drops a row.
Grows(i) ==
    /\ i \in DOMAIN claims'
    /\ claims'[i].node = claims[i].node
    /\ claims[i].status = "verified" => claims'[i].status = "verified"

\* Every step lets every claim grow in that sense: rows are never deleted.
LEMMA ClaimsGrow ==
    ASSUME Inv, [Next]_vars, NEW i \in DOMAIN claims
    PROVE  Grows(i)
<1> USE DEF Inv, TypeOK, RequestInv, Grows
<1>1. ASSUME NEW m \in Macs, InitiateSelfClaim(m) PROVE Grows(i)
    BY <1>1 DEF InitiateSelfClaim, InsertClaim
<1>2. ASSUME NEW u \in Users, NEW m \in Macs, InitiateAssistedClaim(u, m)
      PROVE  Grows(i)
    BY <1>2 DEF InitiateAssistedClaim, InsertClaim
<1>3. ASSUME NEW w \in Workers, Step(w) PROVE Grows(i)
    <2>1. CASE VerifySelfFail(w)
        BY <2>1 DEF VerifySelfFail, WriteAttempts, ClaimChallenge
    <2>2. CASE VerifySelfCommit(w)
        BY <2>2 DEF VerifySelfCommit, MarkVerified, ClaimChallenge
    <2>3. CASE VerifyAssistedCommit(w)
        BY <2>3 DEF VerifyAssistedCommit, MarkVerified, ClaimChallenge
    <2>4. CASE UNCHANGED claims
        BY <2>4
    <2> QED BY <1>3, <2>1, <2>2, <2>3, <2>4
            DEF Step, IssueFail, IssueRead, IssueCommit, IssueConflict, Abort
<1>4. ASSUME NEW j \in DOMAIN claims, Expire(j) PROVE Grows(i)
    BY <1>4 DEF Expire, ClaimChallenge
<1>5. CASE UNCHANGED claims
    BY <1>5
<1> QED BY <1>1, <1>2, <1>3, <1>4, <1>5
        DEF Next, vars, VerifySelfRead, VerifyAssistedRead, EnsureNode

\* Only the commit of _issue_certificate adds a certificate, and no step
\* removes a node.
LEMMA CertificateStep ==
    ASSUME Inv, [Next]_vars
    PROVE  /\ nodes \subseteq nodes'
           /\ certs' = certs \/ \E w \in Workers : IssueCommit(w)
<1>1. ASSUME NEW w \in Workers, Step(w)
      PROVE  /\ nodes \subseteq nodes'
             /\ certs' = certs \/ IssueCommit(w)
    BY <1>1 DEF Step, VerifySelfFail, VerifySelfCommit, VerifyAssistedCommit,
                IssueFail, IssueRead, IssueCommit, AddNode, IssueConflict, Abort
<1>2. CASE ~\E w \in Workers : Step(w)
    BY <1>2 DEF Next, vars, InitiateSelfClaim, InitiateAssistedClaim,
                VerifySelfRead, VerifyAssistedRead, Expire, EnsureNode
<1> QED BY <1>1, <1>2

\* A new certificate is for a verified claim, carries its node, and the node
\* has a row after the commit.
LEMMA BackedStep == Inv /\ [Next]_vars => CertBacked'
<1> SUFFICES ASSUME Inv, [Next]_vars, NEW c \in certs'
             PROVE  /\ c.claim \in DOMAIN claims'
                    /\ claims'[c.claim].status = "verified"
                    /\ claims'[c.claim].node = c.node
                    /\ c.node \in nodes'
    BY DEF CertBacked, get_node_from_mtls
<1> SUFFICES /\ c.claim \in DOMAIN claims
             /\ claims[c.claim].status = "verified"
             /\ claims[c.claim].node = c.node
             /\ c.node \in nodes'
    BY ClaimsGrow DEF Grows
<1>1. CASE c \in certs
    BY <1>1, CertificateStep DEF Inv, CertBacked, get_node_from_mtls
<1>2. CASE c \notin certs
    <2>1. PICK w \in Workers : IssueCommit(w)
        BY <1>2, CertificateStep
    <2>2. /\ c.claim = req[w].claim
          /\ c.node = claims[req[w].claim].node
        BY <1>2, <2>1 DEF IssueCommit
    <2>3. req[w].newNode \/ ~req[w].newNode
        OBVIOUS
    <2>4. c.node \in nodes'
        BY <2>1, <2>2 DEF IssueCommit, AddNode, Inv, RequestInv
    <2> QED BY <2>1, <2>2, <2>4 DEF IssueCommit, Inv, RequestInv
<1> QED BY <1>1, <1>2

\* A worker that issues has no earlier certificate for the claim.
LEMMA SingleUseStep == Inv /\ [Next]_vars => SequentialSingleUse'
<1> SUFFICES ASSUME Inv, [Next]_vars PROVE SequentialSingleUse'
    OBVIOUS
<1>1. CASE certs' = certs
    BY <1>1 DEF Inv, SequentialSingleUse
<1>2. CASE \E w \in Workers : IssueCommit(w)
    <2>1. PICK w \in Workers : IssueCommit(w)
        BY <1>2
    <2>2. PICK s \in Serials :
             certs' = certs \cup {[serial |-> s,
                                  node |-> claims[req[w].claim].node,
                                  claim |-> req[w].claim, by |-> w]}
        BY <2>1 DEF IssueCommit
    <2>3. \A c \in certs : c.claim = req[w].claim => c.by # w
        BY <2>1 DEF IssueCommit, Inv, RequestInv
    <2> QED BY <2>2, <2>3 DEF Inv, SequentialSingleUse
<1> QED BY <1>1, <1>2, CertificateStep

\* The invariant is inductive, so it holds of every reachable state.
THEOREM InvHolds == Spec => []Inv
<1>1. Init => Inv
    BY DEF Init, Inv, TypeOK, RequestInv, CertBacked, SequentialSingleUse,
           Idle, Request
<1>2. Inv /\ [Next]_vars => Inv'
    BY TypeStep, RequestStep, BackedStep, SingleUseStep DEF Inv
<1> QED BY <1>1, <1>2, PTL DEF Spec

\* The tables and the requests of the claiming handlers keep their types.
THEOREM TypeCorrect == Spec => []TypeOK
<1>1. Inv => TypeOK
    BY DEF Inv
<1> QED BY <1>1, InvHolds, PTL

\* A stored certificate belongs to a verified claim and a registered node,
\* whatever requests, aborts and ingestor inserts interleave.
THEOREM CertificatesBacked == Spec => []CertBacked
<1>1. Inv => CertBacked
    BY DEF Inv
<1> QED BY <1>1, InvHolds, PTL

\* One worker never gets two certificates out of one claim.
THEOREM SingleUseWithoutOverlap == Spec => []SequentialSingleUse
<1>1. Inv => SequentialSingleUse
    BY DEF Inv
<1> QED BY <1>1, InvHolds, PTL

\* No step, however stale what it read, takes a verified claim back.
THEOREM VerifiedForGood == Spec => VerifiedIsFinal
<1>1. Inv /\ [Next]_vars =>
        [\A i \in DOMAIN claims :
           claims[i].status = "verified" => claims'[i].status = "verified"]_vars
    BY ClaimsGrow DEF Grows
<1> QED BY <1>1, InvHolds, PTL DEF Spec, VerifiedIsFinal
-----------------------------------------------------------------------------
(* Dead claims.                                                             *)

\* A request takes up a claim only from the row that is pending and not
\* expired, and goes on with the claim it took up.
LEMMA TakesUpOpenClaims ==
    ASSUME Inv, [Next]_vars, NEW i \in DOMAIN claims,
           claims[i].status = "verified" \/ claims[i].expired,
           InFlight(i) = {}
    PROVE  InFlight(i)' = {}
<1> SUFFICES ASSUME NEW v \in Workers, req'[v].pc # "idle", req'[v].claim = i
             PROVE  FALSE
    BY DEF InFlight
<1>0. req[v].pc = "idle" \/ req[v].claim # i
    BY DEF InFlight
<1> USE DEF Inv, TypeOK
<1>1. ASSUME NEW w \in Workers, NEW j \in DOMAIN claims,
             NEW proof \in BOOLEAN, NEW csr \in BOOLEAN,
             VerifySelfRead(w, j, proof, csr)
      PROVE  FALSE
    <2>1. j # i
        BY <1>1 DEF VerifySelfRead, SelfClaimOpen
    <2> QED BY <1>0, <1>1, <2>1 DEF VerifySelfRead
<1>2. ASSUME NEW w \in Workers, NEW u \in Users, NEW csr \in BOOLEAN,
             VerifyAssistedRead(w, u, csr)
      PROVE  FALSE
    <2>1. PICK j \in DOMAIN claims :
             /\ PendingAssisted(u) = {j} /\ ~claims[j].expired
             /\ req' = [req EXCEPT ![w] = [pc |-> "assisted", claim |-> j,
                                           csr |-> csr]]
        BY <1>2 DEF VerifyAssistedRead
    <2>2. j # i
        BY <2>1 DEF PendingAssisted
    <2> QED BY <1>0, <2>1, <2>2
<1>3. ASSUME NEW w \in Workers, Step(w) PROVE FALSE
    <2>1. CASE VerifySelfCommit(w)
        BY <1>0, <2>1 DEF VerifySelfCommit
    <2>2. CASE VerifyAssistedCommit(w)
        BY <1>0, <2>2 DEF VerifyAssistedCommit
    <2>3. CASE IssueRead(w)
        BY <1>0, <2>3 DEF IssueRead
    <2>4. CASE req' = [req EXCEPT ![w] = Idle]
        BY <1>0, <2>4 DEF Idle
    <2> QED BY <1>3, <2>1, <2>2, <2>3, <2>4
            DEF Step, VerifySelfFail, IssueFail, IssueCommit, IssueConflict, Abort
<1>4. CASE UNCHANGED req
    BY <1>0, <1>4
<1> QED BY <1>1, <1>2, <1>3, <1>4
        DEF Next, vars, InitiateSelfClaim, InitiateAssistedClaim, Expire, EnsureNode

\* Only a request that is under way with a claim writes its status.
LEMMA StatusByRequests ==
    ASSUME Inv, [Next]_vars, NEW i \in DOMAIN claims, InFlight(i) = {}
    PROVE  claims'[i].status = claims[i].status
<1> USE DEF Inv, TypeOK
<1>1. ASSUME NEW m \in Macs, InitiateSelfClaim(m)
      PROVE  claims'[i] = claims[i]
    BY <1>1 DEF InitiateSelfClaim, InsertClaim
<1>2. ASSUME NEW u \in Users, NEW m \in Macs, InitiateAssistedClaim(u, m)
      PROVE  claims'[i] = claims[i]
    BY <1>2 DEF InitiateAssistedClaim, InsertClaim
<1>3. ASSUME NEW w \in Workers, Step(w) PROVE claims'[i] = claims[i]
    <2>1. ~(req[w].pc # "idle" /\ req[w].claim = i)
        BY DEF InFlight
    <2>2. CASE VerifySelfFail(w)
        BY <2>1, <2>2 DEF VerifySelfFail, WriteAttempts
    <2>3. CASE VerifySelfCommit(w)
        BY <2>1, <2>3 DEF VerifySelfCommit, MarkVerified
    <2>4. CASE VerifyAssistedCommit(w)
        BY <2>1, <2>4 DEF VerifyAssistedCommit, MarkVerified
    <2>5. CASE UNCHANGED claims
        BY <2>5
    <2> QED BY <1>3, <2>2, <2>3, <2>4, <2>5
            DEF Step, IssueFail, IssueRead, IssueCommit, IssueConflict, Abort
<1>4. ASSUME NEW j \in DOMAIN claims, Expire(j)
      PROVE  claims'[i].status = claims[i].status
    BY <1>4 DEF Expire, ClaimChallenge
<1>5. CASE UNCHANGED claims
    BY <1>5
<1> QED BY <1>1, <1>2, <1>3, <1>4, <1>5
        DEF Next, vars, VerifySelfRead, VerifyAssistedRead, EnsureNode

\* A new certificate is of a claim that a request was under way with.
LEMMA IssuedToRequests ==
    ASSUME Inv, [Next]_vars, NEW i \in DOMAIN claims, InFlight(i) = {},
           NEW c \in certs', c.claim = i
    PROVE  c \in certs
<1> SUFFICES ASSUME c \notin certs PROVE FALSE
    OBVIOUS
<1>1. PICK w \in Workers : IssueCommit(w)
    BY CertificateStep
<1>2. req[w].pc # "idle" /\ req[w].claim = i
    BY <1>1 DEF IssueCommit
<1> QED BY <1>2 DEF InFlight

\* A claim that was verified and came to nothing never yields a certificate:
\* whatever is sent again, the device has to initiate anew.
THEOREM BurntForGood == Spec => BurntStaysBurnt
<1>1. ASSUME Inv, [Next]_vars, NEW i \in DOMAIN claims, Burnt(i)
      PROVE  Burnt(i)'
    <2>1. claims'[i].status = "verified"
        BY <1>1, StatusByRequests DEF Burnt
    <2>2. InFlight(i)' = {}
        BY <1>1, TakesUpOpenClaims DEF Burnt
    <2>3. \A c \in certs' : c.claim # i
        BY <1>1, IssuedToRequests DEF Burnt
    <2> QED BY <2>1, <2>2, <2>3 DEF Burnt
<1>2. Inv /\ [Next]_vars =>
        [\A i \in DOMAIN claims : Burnt(i) => Burnt(i)']_vars
    BY <1>1
<1> QED BY <1>2, InvHolds, PTL DEF Spec, BurntStaysBurnt

\* A claim whose deadline passed while no request was under way with it stays
\* pending for ever, and no request gets past the checks of verify with it.
THEOREM ExpiredForGood == Spec => ExpiredStaysUnclaimed
<1>1. ASSUME Inv, [Next]_vars, NEW i \in DOMAIN claims,
             claims[i].expired, claims[i].status = "pending", InFlight(i) = {}
      PROVE  claims'[i].status = "pending" /\ InFlight(i)' = {}
    BY <1>1, StatusByRequests, TakesUpOpenClaims
<1>2. Inv /\ [Next]_vars =>
        [\A i \in DOMAIN claims :
            claims[i].expired /\ claims[i].status = "pending" /\ InFlight(i) = {}
              => claims'[i].status = "pending" /\ InFlight(i)' = {}]_vars
    BY <1>1
<1> QED BY <1>2, InvHolds, PTL DEF Spec, ExpiredStaysUnclaimed
=============================================================================
