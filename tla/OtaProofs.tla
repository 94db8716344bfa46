----------------------------- MODULE OtaProofs ------------------------------
(***************************************************************************)
(* Theorems about firmware updates: devices install and report on the jobs *)
(* they were given, with confirmed images, and what is done stays done,    *)
(* for any nodes, images, jobs, concurrent reports and restarts.           *)
(***************************************************************************)
EXTENDS Ota, TLAPS

\* The images of jobs are confirmed, and stay so.
JobsReady == \A j \in DOMAIN jobs : ImageReady(jobs[j])

Inv == TypeOK /\ InstallsItsOwn /\ JobsReady

-----------------------------------------------------------------------------
(* What devices and workers have in hand.                                  *)

\* A device at work has a job.
LEMMA DeviceFields ==
    ASSUME TypeOK, NEW n \in Nodes, device[n].pc # "idle"
    PROVE  device[n].job \in Jobs /\ device[n].pc \in {"start", "install"}
<1>1. device[n] \in {Idle} \cup Working
    BY DEF TypeOK
<1>2. device[n] # Idle
    BY DEF Idle
<1> QED BY <1>1, <1>2 DEF Working

\* A worker that serves a report knows node, job and status.
LEMMA ReqFields ==
    ASSUME TypeOK, NEW w \in Workers, req[w].pc # "idle"
    PROVE  /\ req[w].node \in Nodes /\ req[w].job \in Jobs /\ req[w].status \in Status
           /\ req[w].pc \in {"sent", "read"}
           /\ req[w].pc = "read" => req[w].base \in Status
<1>1. req[w] \in {Idle} \cup Report
    BY DEF TypeOK
<1>2. req[w] # Idle
    BY DEF Idle
<1>3. req[w] \in Report
    BY <1>1, <1>2
<1> QED BY <1>3 DEF Report

\* A device that reports has a job, and reports a status.
LEMMA Reporter ==
    ASSUME TypeOK, NEW n \in Nodes, NEW s \in Reportable(n)
    PROVE  device[n].pc # "idle" /\ s \in Status
<1>1. device[n].pc # "idle"
    BY DEF Reportable
<1>2. device[n].pc \in {"start", "install"}
    BY <1>1, DeviceFields
<1>3. s \in {"in-progress"} \cup Outcomes
    BY <1>2 DEF Reportable
<1> QED BY <1>1, <1>3, OtaAssumption DEF Status, Final

\* After a report a device rests or goes on with the same job.
LEMMA ReportMoves ==
    ASSUME TypeOK, NEW n \in Nodes, NEW s, AfterReport(n, s), device[n].pc # "idle"
    PROVE  /\ device' \in [Nodes -> {Idle} \cup Working]
           /\ \A k \in Nodes : k # n => device'[k] = device[k]
           /\ device'[n] = Idle \/ device'[n] = [pc |-> "install", job |-> device[n].job]
<1> DEFINE j == device[n].job
           v == IF s \in Final THEN Idle ELSE [pc |-> "install", job |-> j]
<1>1. j \in Jobs /\ device \in [Nodes -> {Idle} \cup Working]
    BY DeviceFields DEF TypeOK
<1>2. device' = [device EXCEPT ![n] = v]
    BY DEF AfterReport
<1> HIDE DEF j
<1>3. v \in {Idle} \cup Working /\ (v = Idle \/ v = [pc |-> "install", job |-> j])
    BY <1>1 DEF Working
<1> HIDE DEF v
<1>4. device'[n] = v /\ \A k \in Nodes : k # n => device'[k] = device[k]
    BY <1>1, <1>2
<1>5. device' \in [Nodes -> {Idle} \cup Working]
    BY <1>1, <1>2, <1>3
<1> QED BY <1>3, <1>4, <1>5 DEF j

-----------------------------------------------------------------------------
(* The type invariant.                                                     *)

\* Every step keeps the types.
LEMMA TypeStep ==
    ASSUME Inv, [Next]_vars
    PROVE  TypeOK'
<1>0. TypeOK /\ InstallsItsOwn
    BY DEF Inv
<1>1. ASSUME NEW i \in Images, create_image_upload(i) PROVE TypeOK'
    BY <1>0, <1>1 DEF TypeOK, create_image_upload
<1>2. ASSUME NEW i \in DOMAIN images, confirm_image_upload(i) PROVE TypeOK'
    BY <1>0, <1>2 DEF TypeOK, confirm_image_upload
<1>3. ASSUME NEW j \in Jobs, NEW i \in Images, NEW N \in SUBSET Nodes, create_job(j, i, N)
      PROVE TypeOK'
  <2>1. /\ DOMAIN jobs' = DOMAIN jobs \cup {j}
        /\ jobs' \in [DOMAIN jobs' -> Images]
      BY <1>0, <1>3 DEF TypeOK, create_job
  <2>2. DOMAIN jobNodes' = DOMAIN jobNodes \cup ({j} \X N)
      BY <1>3 DEF create_job
  <2>3. jobNodes' \in [DOMAIN jobNodes' -> Status]
      BY <1>0, <1>3 DEF TypeOK, create_job, Status
  <2>4. N \subseteq Registered
      BY <1>3 DEF create_job, Targets
  <2>5. DOMAIN jobNodes' \subseteq (DOMAIN jobs') \X Registered
      BY <1>0, <2>1, <2>2, <2>4 DEF TypeOK
  <2>6. DOMAIN jobs' \subseteq Jobs
      BY <1>0, <2>1 DEF TypeOK
  <2> QED BY <1>0, <1>3, <2>1, <2>3, <2>5, <2>6 DEF TypeOK, create_job
<1>4. ASSUME NEW n \in Nodes, fetch_pending_for_node(n) PROVE TypeOK'
  <2>1. PICK j \in OpenJobs(n) : device' = [device EXCEPT ![n] = [pc |-> "start", job |-> j]]
      BY <1>4 DEF fetch_pending_for_node
  <2>2. [pc |-> "start", job |-> j] \in Working
      BY <1>0 DEF OpenJobs, TypeOK, Working
  <2>3. device' \in [Nodes -> {Idle} \cup Working]
      BY <1>0, <2>1, <2>2 DEF TypeOK
  <2> QED BY <1>0, <1>4, <2>3 DEF TypeOK, fetch_pending_for_node
<1>5. ASSUME NEW n \in Nodes, Reboot(n) PROVE TypeOK'
  <2>1. device' \in [Nodes -> {Idle} \cup Working]
      BY <1>0, <1>5 DEF TypeOK, Reboot
  <2>2. reboots' \in 0..MaxReboots
      BY <1>0, <1>5, OtaAssumption DEF TypeOK, Reboot
  <2> QED BY <1>0, <1>5, <2>1, <2>2 DEF TypeOK, Reboot
<1>6. ASSUME NEW n \in Nodes, NEW w \in Workers, NEW s \in Status, SendStatus(n, w, s)
      PROVE TypeOK'
  <2>1. device[n].pc # "idle"
      BY <1>0, <1>6, Reporter DEF SendStatus
  <2>2. device' \in [Nodes -> {Idle} \cup Working]
      BY <1>0, <1>6, <2>1, ReportMoves DEF SendStatus
  <2>3. [pc |-> "sent", node |-> n, job |-> device[n].job, status |-> s] \in Report
      BY <1>0, <2>1, DeviceFields DEF Report
  <2>4. req' \in [Workers -> {Idle} \cup Report]
      BY <1>0, <1>6, <2>3 DEF TypeOK, SendStatus
  <2> QED BY <1>0, <1>6, <2>2, <2>4 DEF TypeOK, SendStatus
<1>7. ASSUME NEW n \in Nodes, NEW s \in Status, PublishStatus(n, s) PROVE TypeOK'
  <2>1. device[n].pc # "idle"
      BY <1>0, <1>7, Reporter DEF PublishStatus
  <2>2. device' \in [Nodes -> {Idle} \cup Working]
      BY <1>0, <1>7, <2>1, ReportMoves DEF PublishStatus
  <2> QED BY <1>0, <1>7, <2>2 DEF TypeOK, PublishStatus
<1>8. ASSUME NEW w \in Workers, ReadStatus(w) PROVE TypeOK'
  <2> DEFINE r == req[w]
             v == [pc |-> "read", node |-> r.node, job |-> r.job, status |-> r.status,
                   base |-> jobNodes[<<r.job, r.node>>]]
  <2>1. r.pc # "idle"
      BY <1>8 DEF ReadStatus
  <2>2. r.node \in Nodes /\ r.job \in Jobs /\ r.status \in Status
      BY <1>0, <2>1, ReqFields
  <2>3. jobNodes[<<r.job, r.node>>] \in Status
      BY <1>0, <2>1 DEF InstallsItsOwn, TypeOK
  <2>4. v \in Report
      BY <2>2, <2>3 DEF Report
  <2>5. req' \in [Workers -> {Idle} \cup Report]
      BY <1>0, <1>8, <2>4 DEF TypeOK, ReadStatus
  <2> QED BY <1>0, <1>8, <2>5 DEF TypeOK, ReadStatus
<1>9. ASSUME NEW w \in Workers, update_status(w) PROVE TypeOK'
  <2> DEFINE r == req[w]
  <2>1. r.pc # "idle"
      BY <1>9 DEF update_status
  <2>2. r.status \in Status
      BY <1>0, <2>1, ReqFields
  <2>3. jobNodes' = jobNodes \/ jobNodes' = [jobNodes EXCEPT ![<<r.job, r.node>>] = r.status]
      BY <1>9 DEF update_status, WriteStatus
  <2>4. DOMAIN jobNodes' = DOMAIN jobNodes /\ jobNodes' \in [DOMAIN jobNodes -> Status]
      BY <1>0, <2>2, <2>3 DEF TypeOK
  <2>5. req' \in [Workers -> {Idle} \cup Report]
      BY <1>0, <1>9 DEF TypeOK, update_status
  <2> QED BY <1>0, <1>9, <2>4, <2>5 DEF TypeOK, update_status
<1>10. ASSUME NEW w \in Workers, Abort(w) PROVE TypeOK'
    BY <1>0, <1>10 DEF TypeOK, Abort
<1>11. CASE UNCHANGED vars
    BY <1>0, <1>11 DEF TypeOK, vars
<1> QED BY <1>1, <1>2, <1>3, <1>4, <1>5, <1>6, <1>7, <1>8, <1>9, <1>10, <1>11
        DEF Next, CalmNext, Serve

-----------------------------------------------------------------------------
(* What a step does to the tables, to a device and to a worker.            *)

\* Nothing is taken out of the tables, and a confirmed image stays confirmed.
TablesGrow ==
    /\ DOMAIN jobNodes \subseteq DOMAIN jobNodes'
    /\ \A j \in DOMAIN jobs : j \in DOMAIN jobs' /\ jobs'[j] = jobs[j]
    /\ \A i : ImageReady(i) => ImageReady(i)'

\* Every step leaves what the tables hold, up to statuses.
LEMMA GrowStep ==
    ASSUME TypeOK, [Next]_vars
    PROVE  TablesGrow
<1>1. ASSUME NEW i \in Images, create_image_upload(i) PROVE TablesGrow
    BY <1>1 DEF TablesGrow, create_image_upload, ImageReady
<1>2. ASSUME NEW i \in DOMAIN images, confirm_image_upload(i) PROVE TablesGrow
    BY <1>2 DEF TablesGrow, confirm_image_upload, ImageReady, TypeOK
<1>3. ASSUME NEW j \in Jobs, NEW i \in Images, NEW N \in SUBSET Nodes, create_job(j, i, N)
      PROVE TablesGrow
    BY <1>3 DEF TablesGrow, create_job, ImageReady
<1>4. ASSUME NEW w \in Workers, update_status(w) PROVE TablesGrow
  <2>1. DOMAIN jobNodes' = DOMAIN jobNodes /\ UNCHANGED <<images, jobs>>
      BY <1>4 DEF update_status, WriteStatus
  <2> QED BY <2>1 DEF TablesGrow, ImageReady
<1>5. CASE UNCHANGED <<images, jobs, jobNodes>>
    BY <1>5 DEF TablesGrow, ImageReady
<1> QED BY <1>1, <1>2, <1>3, <1>4, <1>5
        DEF Next, CalmNext, Serve, fetch_pending_for_node, Reboot, SendStatus, PublishStatus,
            ReadStatus, Abort, vars

\* A device goes on with its job, rests, or takes an open one.
LEMMA DeviceStep ==
    ASSUME TypeOK, [Next]_vars, NEW n \in Nodes, device'[n].pc # "idle"
    PROVE  \/ device[n].pc # "idle" /\ device'[n].job = device[n].job
           \/ device'[n].job \in OpenJobs(n)
<1> DEFINE Goal == \/ device[n].pc # "idle" /\ device'[n].job = device[n].job
                   \/ device'[n].job \in OpenJobs(n)
<1>0. device \in [Nodes -> {Idle} \cup Working] /\ device'[n] # Idle
    BY DEF TypeOK, Idle
<1>1. ASSUME NEW k \in Nodes, fetch_pending_for_node(k) PROVE Goal
  <2>1. PICK j \in OpenJobs(k) : device' = [device EXCEPT ![k] = [pc |-> "start", job |-> j]]
      BY <1>1 DEF fetch_pending_for_node
  <2> QED BY <1>0, <2>1
<1>2. ASSUME NEW k \in Nodes, Reboot(k) PROVE Goal
    BY <1>0, <1>2 DEF Reboot
<1>3. ASSUME NEW k \in Nodes, NEW s \in Reportable(k), AfterReport(k, s) PROVE Goal
  <2>1. device[k].pc # "idle"
      BY <1>3, Reporter
  <2>2. /\ \A h \in Nodes : h # k => device'[h] = device[h]
        /\ device'[k] = Idle \/ device'[k] = [pc |-> "install", job |-> device[k].job]
      BY <1>3, <2>1, ReportMoves
  <2>3. CASE k = n
    <3> DEFINE j == device[n].job
    <3>1. device'[n] = [pc |-> "install", job |-> j]
        BY <1>0, <2>2, <2>3
    <3> HIDE DEF j
    <3>2. device'[n].job = j
        BY <3>1
    <3> QED BY <2>1, <2>3, <3>2 DEF j
  <2>4. CASE k # n
      BY <2>2, <2>4
  <2> QED BY <2>3, <2>4
<1>4. CASE UNCHANGED device
    BY <1>4
<1> QED BY <1>1, <1>2, <1>3, <1>4
        DEF Next, CalmNext, Serve, create_image_upload, confirm_image_upload, create_job,
            SendStatus, PublishStatus, ReadStatus, update_status, Abort, vars

\* A worker goes on with its report, rests, or gets one a device sends about
\* the job in its hands.
LEMMA WorkerStep ==
    ASSUME TypeOK, [Next]_vars, NEW w \in Workers, req'[w].pc # "idle"
    PROVE  \/ req[w].pc # "idle" /\ req'[w].job = req[w].job /\ req'[w].node = req[w].node
           \/ \E n \in Nodes : /\ device[n].pc # "idle"
                               /\ req'[w].node = n /\ req'[w].job = device[n].job
<1> DEFINE Goal == \/ req[w].pc # "idle" /\ req'[w].job = req[w].job /\ req'[w].node = req[w].node
                   \/ \E n \in Nodes : /\ device[n].pc # "idle"
                                       /\ req'[w].node = n /\ req'[w].job = device[n].job
<1>0. req \in [Workers -> {Idle} \cup Report] /\ req'[w] # Idle
    BY DEF TypeOK, Idle
<1>1. ASSUME NEW n \in Nodes, NEW v \in Workers, NEW s \in Status, SendStatus(n, v, s)
      PROVE Goal
  <2>1. device[n].pc # "idle"
      BY <1>1, Reporter DEF SendStatus
  <2> DEFINE j == device[n].job
  <2>2. req' = [req EXCEPT ![v] = [pc |-> "sent", node |-> n, job |-> j, status |-> s]]
      BY <1>1 DEF SendStatus
  <2> HIDE DEF j
  <2>3. CASE v = w
    <3>1. req'[w].node = n /\ req'[w].job = j
        BY <1>0, <2>2, <2>3
    <3> QED BY <2>1, <3>1 DEF j
  <2>4. CASE v # w
      BY <1>0, <2>2, <2>4
  <2> QED BY <2>3, <2>4
<1>2. ASSUME NEW v \in Workers, ReadStatus(v) PROVE Goal
  <2> DEFINE k == req[v].node
             j == req[v].job
             s == req[v].status
             b == jobNodes[<<j, k>>]
  <2>1. req' = [req EXCEPT ![v] = [pc |-> "read", node |-> k, job |-> j, status |-> s, base |-> b]]
      BY <1>2 DEF ReadStatus
  <2>2. req[v].pc # "idle"
      BY <1>2 DEF ReadStatus
  <2> HIDE DEF k, j, s, b
  <2>3. CASE v = w
    <3>1. req'[w].node = k /\ req'[w].job = j
        BY <1>0, <2>1, <2>3
    <3> QED BY <2>2, <2>3, <3>1 DEF k, j
  <2>4. CASE v # w
      BY <1>0, <2>1, <2>4
  <2> QED BY <2>3, <2>4
<1>3. ASSUME NEW v \in Workers, update_status(v) \/ Abort(v) PROVE Goal
  <2>1. req' = [req EXCEPT ![v] = Idle]
      BY <1>3 DEF update_status, Abort
  <2> QED BY <1>0, <2>1
<1>4. CASE UNCHANGED req
    BY <1>4
<1> QED BY <1>1, <1>2, <1>3, <1>4
        DEF Next, CalmNext, Serve, create_image_upload, confirm_image_upload, create_job,
            fetch_pending_for_node, Reboot, PublishStatus, vars

-----------------------------------------------------------------------------
(* The invariant.                                                          *)

\* A new job has a confirmed image, and no image goes back to staged.
LEMMA ReadyStep ==
    ASSUME Inv, [Next]_vars
    PROVE  JobsReady'
<1>0. TypeOK /\ JobsReady /\ TablesGrow
    BY GrowStep DEF Inv
<1>1. ASSUME NEW j \in Jobs, NEW i \in Images, NEW N \in SUBSET Nodes, create_job(j, i, N)
      PROVE JobsReady'
  <2>1. /\ DOMAIN jobs' = DOMAIN jobs \cup {j} /\ jobs'[j] = i /\ ImageReady(i)
        /\ \A k \in DOMAIN jobs : jobs'[k] = jobs[k]
      BY <1>0, <1>1 DEF create_job, TablesGrow
  <2> QED BY <1>0, <2>1 DEF JobsReady, TablesGrow
<1>2. CASE UNCHANGED jobs
    BY <1>0, <1>2 DEF JobsReady, TablesGrow
<1> QED BY <1>1, <1>2
        DEF Next, CalmNext, Serve, create_image_upload, confirm_image_upload,
            fetch_pending_for_node, Reboot, SendStatus, PublishStatus, ReadStatus,
            update_status, Abort, vars

\* Jobs in hand were given out, and reports are about jobs in hand.
LEMMA OwnStep ==
    ASSUME Inv, [Next]_vars
    PROVE  InstallsItsOwn'
<1>0. TypeOK /\ InstallsItsOwn /\ JobsReady /\ TablesGrow /\ JobsReady'
    BY GrowStep, ReadyStep DEF Inv
<1>1. ASSUME NEW n \in Nodes, device'[n].pc # "idle"
      PROVE /\ <<device'[n].job, n>> \in DOMAIN jobNodes'
            /\ images'[jobs'[device'[n].job]] = "ready"
  <2> DEFINE j == device'[n].job
  <2>1. <<j, n>> \in DOMAIN jobNodes
    <3>1. device[n].pc # "idle" => <<device[n].job, n>> \in DOMAIN jobNodes
        BY <1>0 DEF InstallsItsOwn
    <3> QED BY <1>0, <1>1, <3>1, DeviceStep DEF OpenJobs
  <2> HIDE DEF j
  <2>2. <<j, n>> \in DOMAIN jobNodes' /\ j \in DOMAIN jobs
      BY <1>0, <2>1 DEF TablesGrow, TypeOK
  <2>3. j \in DOMAIN jobs'
      BY <1>0, <2>2 DEF TablesGrow
  <2>4. images'[jobs'[j]] = "ready"
      BY <1>0, <2>3 DEF JobsReady, ImageReady
  <2> QED BY <2>2, <2>4 DEF j
<1>2. ASSUME NEW w \in Workers, req'[w].pc # "idle"
      PROVE <<req'[w].job, req'[w].node>> \in DOMAIN jobNodes'
  <2>1. req[w].pc # "idle" => <<req[w].job, req[w].node>> \in DOMAIN jobNodes
      BY <1>0 DEF InstallsItsOwn
  <2>2. \A n \in Nodes : device[n].pc # "idle" => <<device[n].job, n>> \in DOMAIN jobNodes
      BY <1>0 DEF InstallsItsOwn
  <2>3. <<req'[w].job, req'[w].node>> \in DOMAIN jobNodes
      BY <1>0, <1>2, <2>1, <2>2, WorkerStep
  <2> QED BY <1>0, <2>3 DEF TablesGrow
<1> QED BY <1>1, <1>2 DEF InstallsItsOwn

\* The inductive invariant holds.
THEOREM InvHolds == Spec => []Inv
<1>1. Init => Inv
  <2> SUFFICES ASSUME Init PROVE Inv
      OBVIOUS
  <2>1. TypeOK
      BY OtaAssumption DEF Init, TypeOK
  <2>2. InstallsItsOwn /\ JobsReady
      BY DEF Init, InstallsItsOwn, JobsReady, Idle
  <2> QED BY <2>1, <2>2 DEF Inv
<1>2. Inv /\ [Next]_vars => Inv'
    BY TypeStep, OwnStep, ReadyStep DEF Inv
<1> QED BY <1>1, <1>2, PTL DEF Spec

\* The OTA tables, the devices and the reports at the server keep their types
\* (services/ota.py).
THEOREM TypeCorrect == Spec => []TypeOK
<1>1. Inv => TypeOK
    BY DEF Inv
<1> QED BY <1>1, InvHolds, PTL

\* A device never installs, and the server never serves a report about, a job
\* it was not given, and the image of a job in hand is confirmed: create_job
\* wants a ready image and fetch_pending_for_node joins the node's own rows
\* (services/ota.py).
THEOREM OwnJobsOnly == Spec => []InstallsItsOwn
<1>1. Inv => InstallsItsOwn
    BY DEF Inv
<1> QED BY <1>1, InvHolds, PTL

-----------------------------------------------------------------------------
(* What is done stays done.                                                *)

\* The status of a finished job is not written once no report of it is left.
LEMMA StatusStays ==
    ASSUME Inv, [Next]_vars, NEW j \in Jobs, NEW n \in Nodes, Done(j, n)
    PROVE  <<j, n>> \in DOMAIN jobNodes' /\ jobNodes'[<<j, n>>] = jobNodes[<<j, n>>]
<1>0. TypeOK /\ <<j, n>> \in DOMAIN jobNodes /\ \A w \in Reporting(n) : req[w].job # j
    BY DEF Inv, Done
<1> DEFINE Goal == <<j, n>> \in DOMAIN jobNodes' /\ jobNodes'[<<j, n>>] = jobNodes[<<j, n>>]
<1>1. ASSUME NEW h \in Jobs, NEW i \in Images, NEW N \in SUBSET Nodes, create_job(h, i, N)
      PROVE Goal
    BY <1>0, <1>1 DEF create_job
<1>2. ASSUME NEW w \in Workers, update_status(w) PROVE Goal
  <2> DEFINE pair == <<req[w].job, req[w].node>>
  <2>1. jobNodes' = jobNodes \/ jobNodes' = [jobNodes EXCEPT ![pair] = req[w].status]
      BY <1>2 DEF update_status, WriteStatus
  <2>2. pair # <<j, n>>
      BY <1>0, <1>2 DEF update_status, Reporting
  <2> HIDE DEF pair
  <2> QED BY <1>0, <2>1, <2>2
<1>3. CASE UNCHANGED jobNodes
    BY <1>0, <1>3
<1> QED BY <1>1, <1>2, <1>3
        DEF Next, CalmNext, Serve, create_image_upload, confirm_image_upload,
            fetch_pending_for_node, Reboot, SendStatus, PublishStatus, ReadStatus, Abort, vars

\* A job finished on a node, with no report of it left, never comes back to
\* the device and its status never changes again: late reports of other jobs,
\* other nodes' reports, restarts and new jobs included (update_status and
\* fetch_pending_for_node, services/ota.py).
THEOREM DoneStaysDone == Spec => DoneForGood
<1>1. ASSUME Inv, [Next]_vars, NEW j \in Jobs, NEW n \in Nodes, Done(j, n)
      PROVE Done(j, n)' /\ jobNodes'[<<j, n>>] = jobNodes[<<j, n>>]
  <2>0. /\ TypeOK /\ jobNodes[<<j, n>>] \in Final
        /\ device[n].pc # "idle" => device[n].job # j
        /\ \A w \in Reporting(n) : req[w].job # j
      BY <1>1 DEF Inv, Done
  <2>1. <<j, n>> \in DOMAIN jobNodes' /\ jobNodes'[<<j, n>>] = jobNodes[<<j, n>>]
      BY <1>1, StatusStays
  <2>2. ASSUME device'[n].pc # "idle" PROVE device'[n].job # j
    <3>1. j \notin OpenJobs(n)
        BY <2>0 DEF OpenJobs, Final
    <3> QED BY <1>1, <2>0, <2>2, <3>1, DeviceStep
  <2>3. ASSUME NEW w \in Workers, req'[w].pc # "idle", req'[w].node = n
        PROVE req'[w].job # j
      BY <1>1, <2>0, <2>3, WorkerStep DEF Reporting
  <2>4. \A w \in Reporting(n)' : req'[w].job # j
      BY <2>3 DEF Reporting
  <2>5. Done(j, n)'
      BY <2>0, <2>1, <2>2, <2>4 DEF Done
  <2> QED BY <2>1, <2>5
<1>2. Inv /\ [Next]_vars =>
        [\A j \in Jobs, n \in Nodes :
            Done(j, n) => Done(j, n)' /\ jobNodes'[<<j, n>>] = jobNodes[<<j, n>>]]_vars
    BY <1>1
<1> QED BY <1>2, InvHolds, PTL DEF Spec, DoneForGood

=============================================================================
