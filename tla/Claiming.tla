------------------------------ MODULE Claiming ------------------------------
(***************************************************************************)
(* Device claiming: POST /claim/initiate and POST /claim/verify, in both   *)
(* the self-claim (HMAC) and the assisted (user token) mode.               *)
(*                                                                         *)
(* The API runs several replicas with several uvicorn workers each, and a  *)
(* handler gives way at every await, so a request is a small process: one  *)
(* step per SELECT whose result is used later and one per COMMIT.  A       *)
(* SELECT sees what is committed when it runs (READ COMMITTED); nothing is *)
(* locked, so what was read may be stale when the commit happens.  Only    *)
(* the columns a handler assigns are written.  A request that is refused   *)
(* before it wrote anything changes nothing and is a stuttering step.      *)
(***************************************************************************)
EXTENDS Naturals, FiniteSets

CONSTANTS
    Macs,         \* MAC addresses that show up in requests
    Nodes,        \* node ids
    NodeIdOf,     \* lower-casing of a MAC into a node id; not injective
    Provisioned,  \* MACs with a device_provisioning row (uploaded by the factory)
    Users,        \* confirmed users
    NoUser,       \* the NULL user_id of a self claim
    Workers,      \* concurrent requests the API serves
    ClaimIds,     \* primary keys of claim_challenges (also stands for auth_id)
    Serials,      \* certificate serial numbers
    MaxAttempts   \* bound on the attempts column

ASSUME ClaimingAssumption ==
    /\ NodeIdOf \in [Macs -> Nodes]
    /\ Provisioned \subseteq Macs
    /\ NoUser \notin Users
    /\ MaxAttempts \in Nat

VARIABLES
    claims,   \* claim_challenges: primary key -> row
    nodes,    \* nodes: the node ids that have a row
    certs,    \* node_certificates
    req       \* the request each worker is serving

vars == <<claims, nodes, certs, req>>

-----------------------------------------------------------------------------
(* Rows and requests. *)

\* A row of claim_challenges.  expires_at and the clock are one bit: whether
\* the row's deadline has passed.
ClaimChallenge ==
    [mode : {"self", "assisted"}, mac : Macs, node : Nodes,
     user : Users \cup {NoUser}, status : {"pending", "verified"},
     expired : BOOLEAN, attempts : 0..MaxAttempts]

\* A row of node_certificates.  claim and by are history: the claim it was
\* issued for and the worker that issued it.
NodeCertificate ==
    [serial : Serials, node : Nodes, claim : ClaimIds, by : Workers]

Idle == [pc |-> "idle"]

\* The requests in flight, with the local variables that are still used.
Request ==
    {Idle}
      \cup [pc : {"self"}, claim : ClaimIds, attempts : 0..MaxAttempts,
            proof : BOOLEAN, csr : BOOLEAN]
      \cup [pc : {"assisted"}, claim : ClaimIds, csr : BOOLEAN]
      \cup [pc : {"issue"}, claim : ClaimIds, csr : BOOLEAN]
      \cup [pc : {"insert"}, claim : ClaimIds, newNode : BOOLEAN]

TypeOK ==
    /\ DOMAIN claims \subseteq ClaimIds
    /\ claims \in [DOMAIN claims -> ClaimChallenge]
    /\ nodes \subseteq Nodes
    /\ certs \subseteq NodeCertificate
    /\ req \in [Workers -> Request]

Init ==
    /\ claims = [i \in {} |-> 0]
    /\ nodes = {}
    /\ certs = {}
    /\ req = [w \in Workers |-> Idle]

-----------------------------------------------------------------------------
(* Helpers.  A definition named Bug_... is a mutated form of the one that  *)
(* follows it; no specification uses it.                                   *)

\* The node id of a device: its MAC, lower-cased.
GenerateNodeId(m) == NodeIdOf[m]

\* Adding a row under a primary key that is not taken.
InsertClaim(i, row) ==
    claims' = [j \in DOMAIN claims \cup {i} |-> IF j = i THEN row ELSE claims[j]]

\* What verify_assisted_claim selects: all pending assisted claims of the
\* user, whatever their MAC and whether or not they have expired.
PendingAssisted(u) ==
    {i \in DOMAIN claims : /\ claims[i].mode = "assisted"
                           /\ claims[i].user = u
                           /\ claims[i].status = "pending"}

Bug_IgnoresStatus(i) ==
    claims[i].mode = "self" /\ ~claims[i].expired /\ claims[i].mac \in Provisioned

Bug_IgnoresDeadline(i) ==
    /\ claims[i].mode = "self"
    /\ claims[i].status = "pending"
    /\ claims[i].mac \in Provisioned

\* The checks verify_self_claim makes on the row it read, and on the
\* device_provisioning row of its MAC.
SelfClaimOpen(i) ==
    /\ claims[i].mode = "self"
    /\ claims[i].status = "pending"
    /\ ~claims[i].expired
    /\ claims[i].mac \in Provisioned

Bug_RewritesRow(i, n) ==
    claims' = [claims EXCEPT ![i].attempts = n, ![i].status = "pending"]

\* The failed-response commit writes the attempts column and no other.
WriteAttempts(i, n) == claims' = [claims EXCEPT ![i].attempts = n]

Bug_NotCommitted(i) == claims' = claims

\* status = "verified", committed on its own.
MarkVerified(i) == claims' = [claims EXCEPT ![i].status = "verified"]

Bug_ForgetsNode(n, absent) == nodes' = nodes

\* db.add(Node(...)) when the lookup found none.
AddNode(n, absent) == nodes' = IF absent THEN nodes \cup {n} ELSE nodes

\* The workers serving a request that has passed the checks on claim i.
InFlight(i) == {w \in Workers : req[w].pc # "idle" /\ req[w].claim = i}

\* The certificate check behind the mTLS endpoints: the CN has a
\* certificate that is not revoked, and its node has a row.
get_node_from_mtls(n) == (\E c \in certs : c.node = n) /\ n \in nodes

-----------------------------------------------------------------------------
(* POST /claim/initiate.  device_provisioning is only read, so the lookup  *)
(* and the insert are one step.                                            *)

InitiateSelfClaim(m) ==
    /\ m \in Provisioned
    /\ \E i \in ClaimIds \ DOMAIN claims :
          InsertClaim(i, [mode |-> "self", mac |-> m, node |-> GenerateNodeId(m),
                          user |-> NoUser, status |-> "pending",
                          expired |-> FALSE, attempts |-> 0])
    /\ UNCHANGED <<nodes, certs, req>>

InitiateAssistedClaim(u, m) ==
    /\ \E i \in ClaimIds \ DOMAIN claims :
          InsertClaim(i, [mode |-> "assisted", mac |-> m, node |-> GenerateNodeId(m),
                          user |-> u, status |-> "pending",
                          expired |-> FALSE, attempts |-> 0])
    /\ UNCHANGED <<nodes, certs, req>>

-----------------------------------------------------------------------------
(* POST /claim/verify without a token.                                     *)

\* The row is read and checked.  proof tells whether the response is the
\* HMAC of this row's challenge under the key of its MAC, csr whether the
\* CSR can be signed.
VerifySelfRead(w, i, proof, csr) ==
    /\ req[w].pc = "idle"
    /\ SelfClaimOpen(i)
    /\ req' = [req EXCEPT ![w] = [pc |-> "self", claim |-> i,
                                  attempts |-> claims[i].attempts,
                                  proof |-> proof, csr |-> csr]]
    /\ UNCHANGED <<claims, nodes, certs>>

\* A wrong response: attempts, as read, plus one is written.  Nothing reads
\* the column; MaxAttempts caps it.
VerifySelfFail(w) ==
    /\ req[w].pc = "self"
    /\ ~req[w].proof
    /\ req[w].attempts < MaxAttempts
    /\ WriteAttempts(req[w].claim, req[w].attempts + 1)
    /\ req' = [req EXCEPT ![w] = Idle]
    /\ UNCHANGED <<nodes, certs>>

\* The right response: the claim is burnt, in a commit of its own, before
\* the CSR is looked at.
VerifySelfCommit(w) ==
    /\ req[w].pc = "self"
    /\ req[w].proof
    /\ MarkVerified(req[w].claim)
    /\ req' = [req EXCEPT ![w] = [pc |-> "issue", claim |-> req[w].claim,
                                  csr |-> req[w].csr]]
    /\ UNCHANGED <<nodes, certs>>

-----------------------------------------------------------------------------
(* POST /claim/verify with a user token.                                   *)

\* scalar_one_or_none: the query must return at most one row.  With two or
\* more the request ends in an exception and writes nothing.
VerifyAssistedRead(w, u, csr) ==
    /\ req[w].pc = "idle"
    /\ \E i \in DOMAIN claims :
          /\ PendingAssisted(u) = {i}
          /\ ~claims[i].expired
          /\ req' = [req EXCEPT ![w] = [pc |-> "assisted", claim |-> i,
                                        csr |-> csr]]
    /\ UNCHANGED <<claims, nodes, certs>>

VerifyAssistedCommit(w) ==
    /\ req[w].pc = "assisted"
    /\ MarkVerified(req[w].claim)
    /\ req' = [req EXCEPT ![w] = [pc |-> "issue", claim |-> req[w].claim,
                                  csr |-> req[w].csr]]
    /\ UNCHANGED <<nodes, certs>>

-----------------------------------------------------------------------------
(* _issue_certificate, shared by both modes.                               *)

\* The CSR cannot be signed: 400, and the claim stays burnt.
IssueFail(w) ==
    /\ req[w].pc = "issue"
    /\ ~req[w].csr
    /\ req' = [req EXCEPT ![w] = Idle]
    /\ UNCHANGED <<claims, nodes, certs>>

\* The CSR is signed and the node looked up.
IssueRead(w) ==
    /\ req[w].pc = "issue"
    /\ req[w].csr
    /\ req' = [req EXCEPT ![w] =
                 [pc |-> "insert", claim |-> req[w].claim,
                  newNode |-> claims[req[w].claim].node \notin nodes]]
    /\ UNCHANGED <<claims, nodes, certs>>

\* Node (when it was absent) and certificate are inserted in one commit.
IssueCommit(w) ==
    LET n == claims[req[w].claim].node IN
    /\ req[w].pc = "insert"
    /\ req[w].newNode => n \notin nodes
    /\ AddNode(n, req[w].newNode)
    /\ \E s \in Serials :
          /\ \A c \in certs : c.serial # s
          /\ certs' = certs \cup {[serial |-> s, node |-> n,
                                   claim |-> req[w].claim, by |-> w]}
    /\ req' = [req EXCEPT ![w] = Idle]
    /\ UNCHANGED claims

\* The node was inserted by somebody else since: the primary key is violated,
\* the whole commit rolls back and the request answers 500.
IssueConflict(w) ==
    /\ req[w].pc = "insert"
    /\ req[w].newNode
    /\ claims[req[w].claim].node \in nodes
    /\ req' = [req EXCEPT ![w] = Idle]
    /\ UNCHANGED <<claims, nodes, certs>>

-----------------------------------------------------------------------------
(* What happens around the requests.                                       *)

\* The request dies (worker restarted, connection lost): the open
\* transaction rolls back, what was committed stays.
Abort(w) ==
    /\ req[w].pc # "idle"
    /\ req' = [req EXCEPT ![w] = Idle]
    /\ UNCHANGED <<claims, nodes, certs>>

\* A claim's deadline passes.
Expire(i) ==
    /\ ~claims[i].expired
    /\ claims' = [claims EXCEPT ![i].expired = TRUE]
    /\ UNCHANGED <<nodes, certs, req>>

\* The ingestor's _ensure_node commits a node row for a device that
\* publishes and has none.
EnsureNode(n) ==
    /\ n \notin nodes
    /\ nodes' = nodes \cup {n}
    /\ UNCHANGED <<claims, certs, req>>

Step(w) ==
    \/ VerifySelfFail(w)
    \/ VerifySelfCommit(w)
    \/ VerifyAssistedCommit(w)
    \/ IssueFail(w)
    \/ IssueRead(w)
    \/ IssueCommit(w)
    \/ IssueConflict(w)
    \/ Abort(w)

Next ==
    \/ \E m \in Macs : InitiateSelfClaim(m)
    \/ \E u \in Users, m \in Macs : InitiateAssistedClaim(u, m)
    \/ \E w \in Workers, i \in DOMAIN claims, proof, csr \in BOOLEAN :
          VerifySelfRead(w, i, proof, csr)
    \/ \E w \in Workers, u \in Users, csr \in BOOLEAN :
          VerifyAssistedRead(w, u, csr)
    \/ \E w \in Workers : Step(w)
    \/ \E i \in DOMAIN claims : Expire(i)
    \/ \E n \in Nodes : EnsureNode(n)

Spec == Init /\ [][Next]_vars

-----------------------------------------------------------------------------
(* Properties.                                                             *)

\* Every stored certificate authenticates: its claim was verified for that
\* very node, and the node has a row, so get_node_from_mtls never answers
\* "Node not registered" (deps/mtls.py) to a device that holds one.
CertBacked ==
    \A c \in certs :
        /\ c.claim \in DOMAIN claims
        /\ claims[c.claim].status = "verified"
        /\ claims[c.claim].node = c.node
        /\ get_node_from_mtls(c.node)

\* A claim is good for one certificate as long as its requests do not
\* overlap: two certificates of one claim come from two different workers,
\* both of which had read the row while it was pending (claim.py, "Challenge
\* already used").
SequentialSingleUse ==
    \A c, d \in certs : c.claim = d.claim /\ c.by = d.by => c = d

\* A claim burnt without a certificate (bad CSR, node insert conflict,
\* worker lost after the first commit).
Burnt(i) ==
    /\ claims[i].status = "verified"
    /\ InFlight(i) = {}
    /\ \A c \in certs : c.claim # i

\* No later request revives a burnt claim: the device has to initiate anew.
BurntStaysBurnt ==
    [][\A i \in DOMAIN claims : Burnt(i) => Burnt(i)']_vars

\* verified is final, also when a request that read the row earlier still
\* writes to it.
VerifiedIsFinal ==
    [][\A i \in DOMAIN claims :
          claims[i].status = "verified" => claims'[i].status = "verified"]_vars

\* Once the deadline has passed with no request under way, no request gets
\* past the checks any more and the claim stays pending for ever.
ExpiredStaysUnclaimed ==
    [][\A i \in DOMAIN claims :
          claims[i].expired /\ claims[i].status = "pending" /\ InFlight(i) = {}
             => claims'[i].status = "pending" /\ InFlight(i)' = {}]_vars
=============================================================================
