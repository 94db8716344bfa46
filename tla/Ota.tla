-------------------------------- MODULE Ota ---------------------------------
(***************************************************************************)
(* Firmware updates: the admin stages and confirms images and creates jobs *)
(* for sets of nodes; each device polls for its oldest open job, installs  *)
(* it and reports how it goes.                                             *)
(*                                                                         *)
(* A report is one step for the SELECT and one for the COMMIT (see         *)
(* Claiming).  A device may give up waiting for the answer, so several of  *)
(* its reports can be at the server at once.  A definition named Bug_...   *)
(* is a mutated form of the one that follows it; no specification uses it. *)
(***************************************************************************)
EXTENDS Naturals, FiniteSets

CONSTANTS
    Nodes,
    Registered,   \* the nodes that have a row
    Images,       \* primary keys of ota_images
    MaxJobs,      \* bound on jobs; a job's number is its created_at
    Workers,      \* concurrent requests the API serves
    MaxReboots,   \* how often a device may restart and forget its job
    Transports,   \* how devices report: "https", "mqtt"
    Outcomes,     \* the final statuses devices report
    Patient       \* whether devices wait until a report is answered

ASSUME OtaAssumption ==
    /\ Registered \subseteq Nodes
    /\ MaxJobs \in Nat /\ MaxReboots \in Nat
    /\ Transports \subseteq {"https", "mqtt"}
    /\ Outcomes \subseteq {"success", "failed", "rejected", "delayed"}
    /\ Patient \in BOOLEAN

VARIABLES
    images,    \* ota_images: primary key -> status
    jobs,      \* ota_jobs: number -> image
    jobNodes,  \* ota_job_nodes: <<job, node>> -> status
    device,    \* what each device is doing
    req,       \* the report each worker is serving
    reboots    \* how often devices have restarted

vars == <<images, jobs, jobNodes, device, req, reboots>>

-----------------------------------------------------------------------------

Jobs == 1..MaxJobs
Final == {"success", "failed", "rejected", "delayed"}
Status == {"pending", "in-progress"} \cup Final

Idle == [pc |-> "idle"]
Working == [pc : {"start", "install"}, job : Jobs]
Report == [pc : {"sent"}, node : Nodes, job : Jobs, status : Status]
            \cup [pc : {"read"}, node : Nodes, job : Jobs, status : Status, base : Status]

TypeOK ==
    /\ DOMAIN images \subseteq Images
    /\ images \in [DOMAIN images -> {"staged", "ready"}]
    /\ DOMAIN jobs \subseteq Jobs
    /\ jobs \in [DOMAIN jobs -> Images]
    /\ DOMAIN jobNodes \subseteq (DOMAIN jobs) \X Registered
    /\ jobNodes \in [DOMAIN jobNodes -> Status]
    /\ device \in [Nodes -> {Idle} \cup Working]
    /\ req \in [Workers -> {Idle} \cup Report]
    /\ reboots \in 0..MaxReboots

Init ==
    /\ images = [i \in {} |-> 0]
    /\ jobs = [j \in {} |-> 0]
    /\ jobNodes = [jn \in {} |-> 0]
    /\ device = [n \in Nodes |-> Idle]
    /\ req = [w \in Workers |-> Idle]
    /\ reboots = 0

-----------------------------------------------------------------------------
(* The admin.                                                              *)

create_image_upload(i) ==
    /\ i \notin DOMAIN images
    /\ images' = [k \in DOMAIN images \cup {i} |-> IF k = i THEN "staged" ELSE images[k]]
    /\ UNCHANGED <<jobs, jobNodes, device, req, reboots>>

\* Images are never deleted, so the SELECT and the COMMIT are one step.
confirm_image_upload(i) ==
    /\ images' = [images EXCEPT ![i] = "ready"]
    /\ UNCHANGED <<jobs, jobNodes, device, req, reboots>>

Bug_AnyImage(i) == i \in DOMAIN images

ImageReady(i) == i \in DOMAIN images /\ images[i] = "ready"

\* The route wants a node at all; the foreign key wants known ones.
Targets(N) == N # {} /\ N \subseteq Registered

\* Job and job nodes in one commit; an unknown node fails it as a whole.
\* created_at is when the transaction began, so jobs need not become visible
\* in the order of their numbers.
create_job(j, i, N) ==
    /\ ImageReady(i)
    /\ Targets(N)
    /\ j \in Jobs \ DOMAIN jobs
    /\ jobs' = [k \in DOMAIN jobs \cup {j} |-> IF k = j THEN i ELSE jobs[k]]
    /\ jobNodes' = [jn \in DOMAIN jobNodes \cup ({j} \X N) |->
                       IF jn \in DOMAIN jobNodes THEN jobNodes[jn] ELSE "pending"]
    /\ UNCHANGED <<images, device, req, reboots>>

-----------------------------------------------------------------------------
(* The device and GET /node/otafetch.                                      *)

Bug_OnlyPending(n) ==
    {j \in DOMAIN jobs : /\ <<j, n>> \in DOMAIN jobNodes
                         /\ jobNodes[<<j, n>>] = "pending"}

\* The node's open jobs.  A job's own status is "active" for ever.
OpenJobs(n) ==
    {j \in DOMAIN jobs : /\ <<j, n>> \in DOMAIN jobNodes
                         /\ jobNodes[<<j, n>>] \in {"pending", "in-progress"}}

\* The workers that serve a report of node n.
Reporting(n) == {w \in Workers : req[w].pc # "idle" /\ req[w].node = n}

\* Whether a device goes on with reports of its own unanswered.
MayGoOn(n) == Patient => Reporting(n) = {}

\* The answer names the oldest of them; without one the device waits.
fetch_pending_for_node(n) ==
    /\ device[n].pc = "idle"
    /\ MayGoOn(n)
    /\ \E j \in OpenJobs(n) :
          /\ \A k \in OpenJobs(n) : j <= k
          /\ device' = [device EXCEPT ![n] = [pc |-> "start", job |-> j]]
    /\ UNCHANGED <<images, jobs, jobNodes, req, reboots>>

\* The device's next move once it has reported status s.
AfterReport(n, s) ==
    device' = [device EXCEPT ![n] = IF s \in Final THEN Idle
                                    ELSE [pc |-> "install", job |-> @.job]]

\* What a device reports next: in-progress once, then how it ended.
Reportable(n) ==
    CASE device[n].pc = "idle" -> {}
      [] device[n].pc = "start" -> {"in-progress"} \cup Outcomes
      [] device[n].pc = "install" -> Outcomes

\* POST /node/otastatus arrives at the server.
SendStatus(n, w, s) ==
    /\ "https" \in Transports
    /\ s \in Reportable(n)
    /\ req[w].pc = "idle"
    /\ MayGoOn(n)
    /\ req' = [req EXCEPT ![w] =
                 [pc |-> "sent", node |-> n, job |-> device[n].job, status |-> s]]
    /\ AfterReport(n, s)
    /\ UNCHANGED <<images, jobs, jobNodes, reboots>>

\* The same report published on node/<id>/otastatus: _handle_otastatus does
\* nothing with it.
PublishStatus(n, s) ==
    /\ "mqtt" \in Transports
    /\ s \in Reportable(n)
    /\ AfterReport(n, s)
    /\ UNCHANGED <<images, jobs, jobNodes, req, reboots>>

Reboot(n) ==
    /\ device[n].pc # "idle"
    /\ reboots < MaxReboots
    /\ device' = [device EXCEPT ![n] = Idle]
    /\ reboots' = reboots + 1
    /\ UNCHANGED <<images, jobs, jobNodes, req>>

-----------------------------------------------------------------------------
(* update_status.                                                          *)

\* The SELECT of the node's row of the job (404 if there is none).
ReadStatus(w) ==
    LET r == req[w] IN
    /\ r.pc = "sent"
    /\ req' = [req EXCEPT ![w] =
                 [pc |-> "read", node |-> r.node, job |-> r.job, status |-> r.status,
                  base |-> jobNodes[<<r.job, r.node>>]]]
    /\ UNCHANGED <<images, jobs, jobNodes, device, reboots>>

Bug_AllNodes(j, n, v) ==
    jobNodes' = [jn \in DOMAIN jobNodes |-> IF jn[1] = j THEN v ELSE jobNodes[jn]]

WriteStatus(j, n, v) == jobNodes' = [jobNodes EXCEPT ![<<j, n>>] = v]

\* The COMMIT.  A status equal to what was read is not written.
update_status(w) ==
    LET r == req[w] IN
    /\ r.pc = "read"
    /\ IF r.base = r.status THEN UNCHANGED jobNodes
                            ELSE WriteStatus(r.job, r.node, r.status)
    /\ req' = [req EXCEPT ![w] = Idle]
    /\ UNCHANGED <<images, jobs, device, reboots>>

\* The request is lost on its way or its worker dies.
Abort(w) ==
    /\ req[w].pc # "idle"
    /\ req' = [req EXCEPT ![w] = Idle]
    /\ UNCHANGED <<images, jobs, jobNodes, device, reboots>>

-----------------------------------------------------------------------------

Serve(w) == ReadStatus(w) \/ update_status(w)

\* How a device finishes the job in hand.
Finish(n) ==
    \E s \in Outcomes : PublishStatus(n, s) \/ \E w \in Workers : SendStatus(n, w, s)

CalmNext ==
    \/ \E i \in Images : create_image_upload(i)
    \/ \E i \in DOMAIN images : confirm_image_upload(i)
    \/ \E j \in Jobs, i \in Images, N \in SUBSET Nodes : create_job(j, i, N)
    \/ \E n \in Nodes : fetch_pending_for_node(n) \/ Reboot(n)
    \/ \E n \in Nodes, w \in Workers, s \in Status : SendStatus(n, w, s)
    \/ \E n \in Nodes, s \in Status : PublishStatus(n, s)
    \/ \E w \in Workers : Serve(w)

Next == CalmNext \/ \E w \in Workers : Abort(w)

Spec == Init /\ [][Next]_vars

\* Devices poll, finish what they began, and the server serves.
CalmSpec ==
    /\ Init /\ [][CalmNext]_vars
    /\ \A n \in Nodes : WF_vars(fetch_pending_for_node(n)) /\ WF_vars(Finish(n))
    /\ \A w \in Workers : WF_vars(Serve(w))

-----------------------------------------------------------------------------
(* Properties.                                                             *)

\* A device never installs, and the server never serves a report about, a
\* job it was not given, and the image of a job in hand is confirmed.
InstallsItsOwn ==
    /\ \A n \in Nodes : device[n].pc # "idle" =>
          /\ <<device[n].job, n>> \in DOMAIN jobNodes
          /\ images[jobs[device[n].job]] = "ready"
    /\ \A w \in Workers : req[w].pc # "idle" => <<req[w].job, req[w].node>> \in DOMAIN jobNodes

\* A job finished on a node, with no report of it left at the server and not
\* in the device's hands.
Done(j, n) ==
    /\ <<j, n>> \in DOMAIN jobNodes
    /\ jobNodes[<<j, n>>] \in Final
    /\ device[n].pc # "idle" => device[n].job # j
    /\ \A w \in Reporting(n) : req[w].job # j

\* Done is for good: neither late reports of other jobs, other nodes' reports,
\* restarts nor new jobs bring a finished job back to the device.
DoneForGood ==
    [][\A j \in Jobs, n \in Nodes :
          Done(j, n) => Done(j, n)' /\ jobNodes'[<<j, n>>] = jobNodes[<<j, n>>]]_vars

\* Every job is finished on every node it was created for, devices that
\* restart and reports that overtake one another included.
JobsFinish ==
    \A j \in Jobs, n \in Nodes :
        <<j, n>> \in DOMAIN jobNodes ~>
            <<j, n>> \in DOMAIN jobNodes /\ jobNodes[<<j, n>>] \in Final
=============================================================================
