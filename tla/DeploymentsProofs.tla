--------------------------- MODULE DeploymentsProofs ---------------------------
(***************************************************************************)
(* Safety of the deployment pipeline, for every number of chats,           *)
(* deployments, jobs, workers and requests, every bound and every fault    *)
(* but those a theorem's hypotheses leave out.                             *)
(***************************************************************************)
EXTENDS Deployments, TLAPS

-------------------------------------------------------------------------------
(* Type correctness *)

(* The id a new row takes is unused, and belongs to the row it is for. *)
LEMMA NewDepUnused ==
  ASSUME NEW c, UnusedDeps(c) # {}
  PROVE  NewDep(c) \in Deps /\ ChatOf[NewDep(c)] = c /\ dep[NewDep(c)].status = "none"
<1>1. NewDep(c) \in UnusedDeps(c)  BY DEF NewDep
<1>2. QED  BY <1>1 DEF UnusedDeps, OfChat

LEMMA NewJobUnused ==
  ASSUME NEW d, UnusedJobs(d) # {}
  PROVE  NewJob(d) \in Jobs /\ JobDep[NewJob(d)] = d /\ jobs[NewJob(d)].status = "none"
<1>1. NewJob(d) \in UnusedJobs(d)  BY DEF NewJob
<1>2. QED  BY <1>1 DEF UnusedJobs

LEMMA InsertedType ==
  ASSUME TypeOK, NEW d, NEW t \in JobType
  PROVE  Inserted(d, t) \in [Jobs -> JobRow]
BY DEF TypeOK, Inserted, JobRow, JobStatus

LEMMA MovedType ==
  ASSUME TypeOK, NEW d, NEW s \in Status
  PROVE  Moved(d, s) \in [Deps -> DepRow]
BY DEF TypeOK, Moved, DepRow, Status

LEMMA SetJobType ==
  ASSUME TypeOK, NEW j, NEW s \in JobStatus, SetJob(j, s)
  PROVE  jobs' \in [Jobs -> JobRow]
BY DEF TypeOK, SetJob, JobRow

(* A worker past its claim has a job in hand. *)
LEMMA JobInHand ==
  ASSUME TypeOK, NEW w \in Workers, wk[w].pc \notin {"idle", "reconcile"}
  PROVE  /\ wk[w].job \in Jobs
         /\ JobDep[wk[w].job] \in Deps
         /\ jobs[wk[w].job] \in JobRow
BY IdsAssumption DEF TypeOK

LEMMA FaultType ==
  ASSUME TypeOK, NEW k, Fault(k)
  PROVE  faults' \in 0..MaxFaults
BY BoundsAssumption DEF TypeOK, Fault

LEMMA AnswerType ==
  ASSUME TypeOK, NEW r \in Requests, Answer(r)
  PROVE  /\ req' \in [Requests -> [pc: RequestPC, dep: Deps \cup {NoDep}]]
         /\ \A q \in Requests : req'[q].dep = NoDep <=> req'[q].pc = "none"
BY DEF TypeOK, Answer, NoRequest, RequestPC

LEMMA InitTypeOK == Init => TypeOK
BY IdsAssumption, BoundsAssumption
   DEF Init, TypeOK, DepRow, JobRow, JobType, IdleWorker, NoRequest, WorkerPC,
       RequestPC, Outcome

LEMMA RequestTypeOK ==
  ASSUME TypeOK, NEW r \in Requests, Request(r)
  PROVE  TypeOK'
<1> USE DEF tables, aws, RequestPC
<1>1. ASSUME NEW d \in Deps, DestroyRead(r, d) \/ CancelRead(r, d) \/ ResolveRead(r, d)
      PROVE  TypeOK'
      BY <1>1, IdsAssumption DEF TypeOK, DestroyRead, CancelRead, ResolveRead
<1>2. CASE DestroyMark(r)
      <2>1. req[r].dep \in Deps  BY <1>2 DEF TypeOK, DestroyMark
      <2>2. CASE Accepts(req[r].dep, "destroying")
            <3>1. dep' \in [Deps -> DepRow]
                  BY <1>2, <2>2, MovedType DEF DestroyMark, Status
            <3>2. req' = [req EXCEPT ![r].pc = "queue"]  BY <1>2, <2>2 DEF DestroyMark
            <3>3. req' \in [Requests -> [pc: RequestPC, dep: Deps \cup {NoDep}]]
                  BY <3>2 DEF TypeOK
            <3>4. \A q \in Requests : req'[q].dep = NoDep <=> req'[q].pc = "none"
                  BY <1>2, <3>2, <2>1 DEF TypeOK, DestroyMark
            <3>5. QED  BY <1>2, <3>1, <3>3, <3>4 DEF DestroyMark, TypeOK
      <2>3. CASE ~Accepts(req[r].dep, "destroying")
            BY <1>2, <2>3 DEF DestroyMark, TypeOK, Answer, NoRequest
      <2>4. QED  BY <2>2, <2>3
<1>3. CASE DestroyQueue(r)
      <2>1. jobs' \in [Jobs -> JobRow]
            BY <1>3, InsertedType DEF DestroyQueue, JobType
      <2>2. QED  BY <1>3, <2>1 DEF DestroyQueue, TypeOK, Answer, NoRequest
<1>4. CASE CancelWrite(r) \/ ResolveWrite(r)
      <2>1. dep' \in [Deps -> DepRow]
            BY <1>4, MovedType DEF CancelWrite, ResolveWrite, TypeOK, Status
      <2>2. Answer(r) /\ UNCHANGED <<jobs, wk, stale, aws, faults>>
            BY <1>4 DEF CancelWrite, ResolveWrite
      <2>3. QED  BY <2>1, <2>2, AnswerType DEF TypeOK
<1>5. CASE ResolveDrop(r)
      <2>1. jobs' \in [Jobs -> JobRow]
            BY <1>5 DEF ResolveDrop, TypeOK, JobRow, JobStatus
      <2>2. QED  BY <1>5, <2>1 DEF ResolveDrop, TypeOK
<1>6. CASE Abandon(r)
      BY <1>6, FaultType DEF Abandon, TypeOK, Answer, NoRequest
<1>7. QED  BY <1>1, <1>2, <1>3, <1>4, <1>5, <1>6 DEF Request

(* What the steps of a worker with a job in hand do to its own state. *)
LEMMA GotoType ==
  ASSUME TypeOK, NEW w \in Workers, wk[w].pc \notin {"idle", "reconcile"},
         NEW pc \in WorkerPC \ {"idle", "reconcile"}, NEW out \in Outcome,
         Goto(w, pc) \/ wk' = [wk EXCEPT ![w].pc = pc, ![w].out = out]
                     \/ wk' = [wk EXCEPT ![w].out = out, ![w].pc = pc]
  PROVE  /\ wk' \in [Workers -> [pc: WorkerPC, job: Jobs \cup {NoJob}, out: Outcome]]
         /\ \A v \in Workers : wk'[v].job = NoJob <=> wk'[v].pc \in {"idle", "reconcile"}
<1>1. wk[w].job # NoJob  BY DEF TypeOK
<1>2. CASE Goto(w, pc)  BY <1>1, <1>2 DEF TypeOK, Goto
<1>3. CASE wk' = [wk EXCEPT ![w].pc = pc, ![w].out = out] \/
           wk' = [wk EXCEPT ![w].out = out, ![w].pc = pc]
      <2>1. wk' = [wk EXCEPT ![w] = [pc |-> pc, job |-> wk[w].job, out |-> out]]
            BY <1>3 DEF TypeOK
      <2>2. QED  BY <1>1, <2>1 DEF TypeOK
<1>4. QED  BY <1>2, <1>3

LEMMA IdleType ==
  ASSUME TypeOK, NEW w \in Workers, wk' = [wk EXCEPT ![w] = IdleWorker]
  PROVE  /\ wk' \in [Workers -> [pc: WorkerPC, job: Jobs \cup {NoJob}, out: Outcome]]
         /\ \A v \in Workers : wk'[v].job = NoJob <=> wk'[v].pc \in {"idle", "reconcile"}
BY DEF TypeOK, IdleWorker, WorkerPC, Outcome

(* What a Terraform run does to the chat it works for. *)
LEMMA InterruptedType ==
  ASSUME TypeOK, NEW j \in Jobs, Interrupted(j)
  PROVE  fresh' \subseteq Deps /\ infra' \in [Chats -> Deps \cup {Nothing}]
<1>1. JobDep[j] \in Deps /\ ChatOf[JobDep[j]] \in Chats  BY IdsAssumption
<1>2. infra[ChatOf[JobDep[j]]] \in Deps \cup {Nothing}  BY <1>1 DEF TypeOK
<1>3. QED  BY <1>1, <1>2 DEF Interrupted, Touch, TypeOK

LEMMA RunTypeOK ==
  ASSUME TypeOK, NEW w \in Workers, RunPlan(w) \/ RunApply(w) \/ RunDestroy(w)
  PROVE  TypeOK'
<1> DEFINE j == wk[w].job
           d == JobDep[j]
<1> USE DEF tables, Outcome, AfterError, WorkerPC
<1>1. /\ wk[w].pc \notin {"idle", "reconcile"}
      /\ UNCHANGED <<tables, stale, req, faults>>
      BY DEF RunPlan, RunApply, RunDestroy, InTerraform, Running
<1>2. j \in Jobs /\ d \in Deps /\ jobs[j].attempts \in Nat
      BY <1>1, JobInHand DEF JobRow
<1>3. ChatOf[d] \in Chats  BY <1>2, IdsAssumption
<1>4. CASE RunPlan(w)
      <2>1. PICK out \in Outcome :
              /\ saved' = [saved EXCEPT ![d] = IF out = "ok" THEN jobs[j].attempts ELSE 0]
              /\ fresh' = IF out = "ok" THEN fresh \cup {d} ELSE fresh \ {d}
              /\ wk' = [wk EXCEPT ![w].out = out,
                          ![w].pc = IF out = "ok" THEN "record" ELSE AfterError(out)]
            BY <1>4 DEF RunPlan
      <2>2. infra' = infra  BY <1>4 DEF RunPlan
      <2>3. saved' \in [Deps -> Nat] /\ fresh' \subseteq Deps  BY <2>1, <1>2 DEF TypeOK
      <2>4. QED  BY <1>1, <2>1, <2>2, <2>3, GotoType DEF TypeOK
<1>5. CASE RunApply(w)
      <2>1. saved' = saved  BY <1>5 DEF RunApply
      <2>2. CASE Touch(ChatOf[d], d) /\ Goto(w, "record")
            BY <1>1, <1>2, <1>3, <2>1, <2>2, GotoType DEF TypeOK, Touch
      <2>3. ASSUME NEW out \in Outcome, Interrupted(j),
                   wk' = [wk EXCEPT ![w].out = out, ![w].pc = AfterError(out)]
            PROVE  TypeOK'
            BY <1>1, <1>2, <2>1, <2>3, GotoType, InterruptedType DEF TypeOK
      <2>4. QED  BY <1>5, <2>2, <2>3 DEF RunApply
<1>6. CASE RunDestroy(w)
      <2>1. CASE Touch(ChatOf[d], Nothing) /\ saved' = [saved EXCEPT ![d] = 0] /\ Goto(w, "record")
            BY <1>1, <1>2, <1>3, <2>1, GotoType DEF TypeOK, Touch
      <2>2. ASSUME NEW out \in Outcome, Interrupted(j), saved' = saved,
                   wk' = [wk EXCEPT ![w].out = out, ![w].pc = AfterError(out)]
            PROVE  TypeOK'
            BY <1>1, <1>2, <2>2, GotoType, InterruptedType DEF TypeOK
      <2>3. QED  BY <1>6, <2>1, <2>2 DEF RunDestroy
<1>7. QED  BY <1>4, <1>5, <1>6

LEMMA RecordTypeOK ==
  ASSUME TypeOK, NEW w \in Workers,
         \/ Record(w) \/ Succeed(w) \/ ScheduleTeardown(w) \/ Disown(w)
         \/ LoseJob(w) \/ LoseDeployment(w)
         \/ Fail(w) \/ WasRequeued(w) \/ FailDeployment(w)
         \/ Finish(w) \/ Settle(w)
  PROVE  TypeOK'
<1> DEFINE j == wk[w].job
           d == JobDep[j]
<1> USE DEF tables, aws, Outcome, WorkerPC, JobStatus
<1>1. wk[w].pc \notin {"idle", "reconcile"}
      BY DEF Record, Succeed, ScheduleTeardown, Disown, LoseJob, LoseDeployment,
                  Fail, WasRequeued, FailDeployment, Finish, Settle
<1>2. j \in Jobs /\ d \in Deps /\ jobs[j].attempts \in Nat /\ jobs[j].type \in JobType
      BY <1>1, JobInHand DEF JobRow
<1>3. DoneStatus(jobs[j].type) \in Status /\ FailedStatus(jobs[j].type) \in Status
      BY <1>2 DEF DoneStatus, FailedStatus, JobType, Status
<1>4. CASE Record(w)
      <2>1. dep' \in [Deps -> DepRow]
            <3>1. CASE UNCHANGED dep  BY <3>1 DEF TypeOK
            <3>2. CASE dep' = Moved(d, DoneStatus(jobs[j].type))
                  BY <1>3, <3>2, MovedType
            <3>3. CASE dep' = [dep EXCEPT ![d].status = DoneStatus(jobs[j].type),
                                          ![d].hash = jobs[j].attempts]
                  BY <1>2, <1>3, <3>3 DEF TypeOK, DepRow
            <3>4. QED  BY <1>4, <3>1, <3>2, <3>3 DEF Record
      <2>2. Goto(w, "succeed") \/ Goto(w, "disown")  BY <1>4 DEF Record
      <2>3. UNCHANGED <<jobs, stale, req, aws, faults>>  BY <1>4 DEF Record
      <2>4. QED  BY <1>1, <2>1, <2>2, <2>3, GotoType DEF TypeOK
<1>5. CASE Succeed(w)
      BY <1>1, <1>5, GotoType, SetJobType DEF Succeed, TypeOK
<1>6. CASE ScheduleTeardown(w)
      BY <1>1, <1>6, GotoType, InsertedType DEF ScheduleTeardown, TypeOK, JobType
<1>7. CASE Disown(w)
      BY <1>1, <1>7, GotoType, SetJobType DEF Disown, TypeOK
<1>8. CASE LoseJob(w)
      BY <1>1, <1>8, GotoType, SetJobType DEF LoseJob, TypeOK
<1>9. CASE LoseDeployment(w)
      BY <1>1, <1>9, GotoType, MovedType DEF LoseDeployment, TypeOK, Status
<1>10. CASE Fail(w)
      BY <1>1, <1>10, GotoType, SetJobType DEF Fail, TypeOK
<1>11. CASE WasRequeued(w)
      BY <1>1, <1>11, GotoType DEF WasRequeued, TypeOK
<1>12. CASE FailDeployment(w)
      BY <1>1, <1>3, <1>12, GotoType, MovedType DEF FailDeployment, TypeOK
<1>13. CASE Finish(w)
      <2>1. saved' \in [Deps -> Nat] /\ fresh' \subseteq Deps
            BY <1>13 DEF Finish, TypeOK
      <2>2. /\ faults' \in 0..MaxFaults
            /\ UNCHANGED <<tables, stale, req, infra>>
            BY <1>13, FaultType DEF Finish, TypeOK
      <2>3. Goto(w, "settle") \/ wk' = [wk EXCEPT ![w] = IdleWorker]
            BY <1>13 DEF Finish, Goto
      <2>4. QED  BY <1>1, <2>1, <2>2, <2>3, GotoType, IdleType DEF TypeOK
<1>14. CASE Settle(w)
      BY <1>14, IdleType, SetJobType DEF Settle, TypeOK
<1>15. QED
      BY <1>4, <1>5, <1>6, <1>7, <1>8, <1>9, <1>10, <1>11, <1>12, <1>13, <1>14

LEMMA OtherWorkTypeOK ==
  ASSUME TypeOK, NEW w \in Workers,
         \/ BuildFails(w) \/ DestroyBegin(w) \/ DestroySkip(w)
         \/ StatementFails(w) \/ SettleFails(w)
  PROVE  TypeOK'
<1> DEFINE j == wk[w].job
           d == JobDep[j]
<1> USE DEF tables, aws, Outcome, WorkerPC, JobStatus
<1>1. wk[w].pc \notin {"idle", "reconcile"}
      BY DEF BuildFails, DestroyBegin, DestroySkip, StatementFails, SettleFails
<1>2. j \in Jobs /\ d \in Deps  BY <1>1, JobInHand
<1>3. CASE BuildFails(w)
      <2>1. jobs' \in [Jobs -> JobRow]
            BY <1>3, SetJobType DEF BuildFails, TypeOK
      <2>2. QED  BY <1>3, <2>1, IdleType, FaultType DEF BuildFails, TypeOK
<1>4. CASE DestroyBegin(w)
      <2>1. dep' \in [Deps -> DepRow]
            BY <1>4, MovedType DEF DestroyBegin, TypeOK, Status
      <2>2. /\ Goto(w, "destroy") \/ Goto(w, "skip")
            /\ UNCHANGED <<jobs, stale, req, aws, faults>>
            BY <1>4 DEF DestroyBegin
      <2>3. QED  BY <1>1, <2>1, <2>2, GotoType DEF TypeOK
<1>5. CASE DestroySkip(w)
      <2>1. jobs' \in [Jobs -> JobRow]
            BY <1>5, SetJobType DEF DestroySkip, TypeOK
      <2>2. faults' \in 0..MaxFaults
            BY <1>5, FaultType DEF DestroySkip, TypeOK
      <2>3. saved' \in [Deps -> Nat] /\ fresh' \subseteq Deps
            BY <1>5 DEF DestroySkip, TypeOK
      <2>4. Goto(w, "finish") /\ UNCHANGED <<dep, stale, req, infra>>
            BY <1>5 DEF DestroySkip
      <2>5. QED  BY <1>1, <2>1, <2>2, <2>3, <2>4, GotoType DEF TypeOK
<1>6. CASE StatementFails(w)
      <2>1. AfterFault(w) \in WorkerPC \ {"idle", "reconcile"}
            BY <1>6 DEF StatementFails, AfterFault
      <2>2. QED  BY <1>1, <1>6, <2>1, GotoType, FaultType DEF StatementFails, TypeOK
<1>7. CASE SettleFails(w)
      BY <1>7, IdleType, FaultType DEF SettleFails, TypeOK
<1>8. QED  BY <1>3, <1>4, <1>5, <1>6, <1>7

LEMMA WorkerTypeOK ==
  ASSUME TypeOK, NEW w \in Workers, Worker(w)
  PROVE  TypeOK'
<1> USE DEF tables, aws, WorkerPC, Outcome
<1>1. ASSUME NEW j \in Jobs, Claim(w, j)
      PROVE  TypeOK'
      <2>1. jobs' \in [Jobs -> JobRow]
            BY <1>1 DEF Claim, TypeOK, JobRow, JobStatus
      <2>2. wk' = [wk EXCEPT ![w] = [pc |-> "claimed", job |-> j, out |-> "ok"]]
            BY <1>1 DEF Claim
      <2>3. /\ wk' \in [Workers -> [pc: WorkerPC, job: Jobs \cup {NoJob}, out: Outcome]]
            /\ \A v \in Workers : wk'[v].job = NoJob <=> wk'[v].pc \in {"idle", "reconcile"}
            BY <1>1, <2>2, IdsAssumption DEF TypeOK
      <2>4. QED  BY <1>1, <2>1, <2>3 DEF Claim, TypeOK
<1>2. ASSUME NEW j \in Jobs, Reconcile(w, j)
      PROVE  TypeOK'
      <2>1. dep' \in [Deps -> DepRow] /\ faults' \in 0..MaxFaults
            BY <1>2, MovedType, FaultType DEF Reconcile, TypeOK, Status
      <2>2. /\ wk' \in [Workers -> [pc: WorkerPC, job: Jobs \cup {NoJob}, out: Outcome]]
            /\ \A v \in Workers : wk'[v].job = NoJob <=> wk'[v].pc \in {"idle", "reconcile"}
            BY <1>2 DEF Reconcile, Goto, TypeOK
      <2>3. QED  BY <1>2, <2>1, <2>2 DEF Reconcile, TypeOK
<1>3. CASE Work(w)
      BY <1>3, RunTypeOK, RecordTypeOK, OtherWorkTypeOK DEF Work
<1>4. CASE Reclaim(w)
      <2>1. jobs' \in [Jobs -> JobRow]
            BY <1>4 DEF Reclaim, TypeOK, JobRow, JobStatus
      <2>2. stale' \in [Workers -> SUBSET Jobs]
            BY <1>4 DEF Reclaim, TypeOK
      <2>3. /\ wk' \in [Workers -> [pc: WorkerPC, job: Jobs \cup {NoJob}, out: Outcome]]
            /\ \A v \in Workers : wk'[v].job = NoJob <=> wk'[v].pc \in {"idle", "reconcile"}
            BY <1>4 DEF Reclaim, Goto, TypeOK
      <2>4. QED  BY <1>4, <2>1, <2>2, <2>3 DEF Reclaim, TypeOK
<1>5. CASE Sweep(w)
      BY <1>5 DEF Sweep, TypeOK
<1>6. CASE Crash(w)
      <2>1. faults' \in 0..MaxFaults  BY <1>6, FaultType DEF Crash
      <2>2. fresh' \subseteq Deps /\ infra' \in [Chats -> Deps \cup {Nothing}]
            <3>1. CASE UNCHANGED <<infra, fresh>>  BY <3>1 DEF TypeOK
            <3>2. CASE Interrupted(wk[w].job) /\ Running(w)
                  BY <3>2, JobInHand, InterruptedType DEF Running
            <3>3. QED  BY <1>6, <3>1, <3>2 DEF Crash, InTerraform
      <2>3. stale' \in [Workers -> SUBSET Jobs]  BY <1>6 DEF Crash, TypeOK
      <2>4. QED  BY <1>6, <2>1, <2>2, <2>3, IdleType DEF Crash, TypeOK
<1>7. QED  BY <1>1, <1>2, <1>3, <1>4, <1>5, <1>6 DEF Worker

LEMMA CreateTypeOK ==
  ASSUME TypeOK, NEW c \in Chats, Create(c)
  PROVE  TypeOK'
<1>1. jobs' \in [Jobs -> JobRow]
      BY InsertedType DEF Create, JobType
<1>2. dep' \in [Deps -> DepRow]
      BY DEF Create, TypeOK, DepRow, Status
<1>3. QED  BY <1>1, <1>2 DEF Create, TypeOK, aws

LEMMA ApproveTypeOK ==
  ASSUME TypeOK, NEW d \in Deps, NEW h, Approve(d, h)
  PROVE  TypeOK'
<1>1. jobs' \in [Jobs -> JobRow]
      BY InsertedType DEF Approve, JobType
<1>2. dep' \in [Deps -> DepRow]
      <2>1. [dep EXCEPT ![d].status = "applying"] \in [Deps -> DepRow]
            BY DEF TypeOK, DepRow, Status
      <2>2. ASSUME NEW f \in [Deps -> DepRow]
            PROVE  [f EXCEPT ![d].approved = TRUE] \in [Deps -> DepRow]
            BY DEF DepRow
      <2>3. QED  BY <2>1, <2>2 DEF Approve
<1>3. QED  BY <1>1, <1>2 DEF Approve, TypeOK, aws

(* Every variable has its type, whatever requests, workers and faults do. *)
THEOREM TypeCorrect == Spec => []TypeOK
<1>1. TypeOK /\ [Next]_vars => TypeOK'
      <2> SUFFICES ASSUME TypeOK, [Next]_vars PROVE TypeOK'  OBVIOUS
      <2>1. ASSUME NEW d \in Deps, LoseWorkspace(d)
            PROVE  TypeOK'
            BY <2>1, FaultType DEF LoseWorkspace, TypeOK, tables
      <2>2. CASE UNCHANGED vars
            BY <2>2 DEF vars, TypeOK
      <2>3. QED
            BY <2>1, <2>2, CreateTypeOK, ApproveTypeOK, RequestTypeOK, WorkerTypeOK DEF Next
<1>2. QED  BY InitTypeOK, <1>1, PTL DEF Spec

-------------------------------------------------------------------------------
(* The deployments table *)

(* The statuses change as DeploymentStore.Transition would change them. *)
Moves(d, s) ==
  /\ Accepts(d, s)
  /\ \A e \in Deps : dep'[e].status = Moved(d, s)[e].status

Stays == \A e \in Deps : dep'[e].status = dep[e].status

LEMMA MovedMoves ==
  ASSUME NEW d, NEW s, Accepts(d, s), dep' = Moved(d, s)
  PROVE  Moves(d, s)
BY DEF Moves

LEMMA RequestMoves ==
  ASSUME TypeOK, NEW r \in Requests, Request(r)
  PROVE  Stays \/ \E d \in Deps, s \in Status : Moves(d, s)
<1>1. ASSUME NEW d \in Deps, DestroyRead(r, d) \/ CancelRead(r, d) \/ ResolveRead(r, d)
      PROVE  Stays
      BY <1>1 DEF DestroyRead, CancelRead, ResolveRead, Stays, tables
<1>2. CASE DestroyMark(r) \/ CancelWrite(r) \/ ResolveWrite(r)
      <2>1. req[r].dep \in Deps
            BY <1>2 DEF TypeOK, DestroyMark, CancelWrite, ResolveWrite
      <2>2. \/ UNCHANGED dep
            \/ \E s \in {"destroying", "cancelled"} :
                 Accepts(req[r].dep, s) /\ dep' = Moved(req[r].dep, s)
            BY <1>2 DEF DestroyMark, CancelWrite, ResolveWrite
      <2>3. QED  BY <2>1, <2>2, MovedMoves DEF Stays, Status
<1>3. CASE DestroyQueue(r) \/ ResolveDrop(r) \/ Abandon(r)
      BY <1>3 DEF DestroyQueue, ResolveDrop, Abandon, Stays, tables
<1>4. QED  BY <1>1, <1>2, <1>3 DEF Request

LEMMA WorkMoves ==
  ASSUME TypeOK, NEW w \in Workers, Work(w)
  PROVE  Stays \/ \E d \in Deps, s \in Status : Moves(d, s)
<1> DEFINE j == wk[w].job
           d == JobDep[j]
<1>1. j \in Jobs /\ d \in Deps /\ jobs[j].type \in JobType
      BY JobInHand DEF Work, BuildFails, DestroyBegin, DestroySkip, RunPlan, RunApply,
         RunDestroy, InTerraform, Running, Record, Succeed, ScheduleTeardown, Disown,
         LoseJob, LoseDeployment, Fail, WasRequeued, FailDeployment, Finish, Settle,
         StatementFails, SettleFails, JobRow
<1>2. CASE \/ BuildFails(w) \/ DestroySkip(w)
           \/ RunPlan(w) \/ RunApply(w) \/ RunDestroy(w)
           \/ Succeed(w) \/ ScheduleTeardown(w) \/ Disown(w)
           \/ LoseJob(w) \/ Fail(w) \/ WasRequeued(w)
           \/ Finish(w) \/ Settle(w) \/ StatementFails(w) \/ SettleFails(w)
      BY <1>2 DEF BuildFails, DestroySkip, RunPlan, RunApply, RunDestroy, Succeed,
         ScheduleTeardown, Disown, LoseJob, Fail, WasRequeued, Finish, Settle,
         StatementFails, SettleFails, Stays, tables
<1>3. CASE DestroyBegin(w) \/ LoseDeployment(w) \/ FailDeployment(w)
      <2>1. FailedStatus(jobs[j].type) \in Status
            BY <1>1 DEF FailedStatus, JobType, Status
      <2>2. \/ UNCHANGED dep
            \/ \E s \in {"destroying", "unknown", FailedStatus(jobs[j].type)} :
                 Accepts(d, s) /\ dep' = Moved(d, s)
            BY <1>3 DEF DestroyBegin, LoseDeployment, FailDeployment
      <2>3. QED  BY <1>1, <2>1, <2>2, MovedMoves DEF Stays, Status
<1>4. CASE Record(w)
      <2> DEFINE s == DoneStatus(jobs[j].type)
      <2>1. s \in Status  BY <1>1 DEF DoneStatus, JobType, Status
      <2>2. CASE UNCHANGED dep  BY <2>2 DEF Stays
      <2>3. CASE Accepts(d, s) /\ dep' = Moved(d, s)  BY <1>1, <2>1, <2>3, MovedMoves
      <2>4. CASE /\ Accepts(d, s) /\ s = "awaiting_approval"
                 /\ dep' = [dep EXCEPT ![d].status = s, ![d].hash = jobs[j].attempts]
            <3>1. Superseded(d, s) = {}  BY <2>4 DEF Superseded
            <3>2. \A e \in Deps : dep'[e].status = IF e = d THEN s ELSE dep[e].status
                  BY <1>1, <2>4 DEF TypeOK, DepRow
            <3>3. \A e \in Deps : Moved(d, s)[e].status = IF e = d THEN s ELSE dep[e].status
                  BY <1>1, <3>1 DEF TypeOK, DepRow, Moved
            <3> HIDE DEF s, d
            <3>4. Moves(d, s)  BY <2>4, <3>2, <3>3 DEF Moves
            <3>5. QED  BY <1>1, <2>1, <3>4
      <2>5. QED  BY <1>4, <2>2, <2>3, <2>4 DEF Record
<1>5. QED  BY <1>2, <1>3, <1>4 DEF Work

(* Approve writes around Transition, but what Transition would write. *)
LEMMA ApproveMoves ==
  ASSUME TypeOK, OnePerChat, NEW d \in Deps, NEW h, Approve(d, h)
  PROVE  Moves(d, "applying")
<1>1. dep[d].status = "awaiting_approval"  BY DEF Approve
<1>2. ~IndexRejects(d, "applying")
      BY <1>1, IdsAssumption DEF OnePerChat, IndexRejects, InFlight, OfChat
<1>3. Accepts(d, "applying")
      BY <1>1, <1>2 DEF Accepts, CanTransition, allowedTransitions
<1>4. \A e \in Deps : dep'[e].status = IF e = d THEN "applying" ELSE dep[e].status
      BY DEF Approve, TypeOK, DepRow
<1>5. \A e \in Deps : Moved(d, "applying")[e].status
                        = IF e = d THEN "applying" ELSE dep[e].status
      BY DEF TypeOK, DepRow, Moved, Superseded
<1>6. QED  BY <1>3, <1>4, <1>5 DEF Moves

(* Every write to a status is one of Transition's or Create's. *)
LEMMA StatusSteps ==
  ASSUME TypeOK, OnePerChat, [Next]_vars
  PROVE  \/ Stays
         \/ \E d \in Deps, s \in Status : Moves(d, s)
         \/ \E c \in Chats : Create(c)
<1>1. ASSUME NEW d \in Deps, NEW h, Approve(d, h)
      PROVE  \E s \in Status : Moves(d, s)
      BY <1>1, ApproveMoves DEF Status
<1>2. ASSUME NEW d \in Deps, LoseWorkspace(d)  PROVE Stays
      BY <1>2 DEF LoseWorkspace, tables, Stays
<1>3. ASSUME NEW w \in Workers, Worker(w)
      PROVE  Stays \/ \E d \in Deps, s \in Status : Moves(d, s)
      <2>1. ASSUME NEW j \in Jobs, Reconcile(w, j)
            PROVE  Stays \/ \E d \in Deps, s \in Status : Moves(d, s)
            <3>1. JobDep[j] \in Deps  BY IdsAssumption
            <3>2. \/ UNCHANGED dep
                  \/ Accepts(JobDep[j], "unknown") /\ dep' = Moved(JobDep[j], "unknown")
                  BY <2>1 DEF Reconcile
            <3>3. QED  BY <3>1, <3>2, MovedMoves DEF Stays, Status
      <2>2. CASE (\E j \in Jobs : Claim(w, j)) \/ Reclaim(w) \/ Sweep(w) \/ Crash(w)
            BY <2>2 DEF Claim, Reclaim, Sweep, Crash, tables, Stays
      <2>3. QED  BY <1>3, <2>1, <2>2, WorkMoves DEF Worker
<1>4. CASE UNCHANGED vars  BY <1>4 DEF vars, Stays
<1>5. QED  BY <1>1, <1>2, <1>3, <1>4, RequestMoves DEF Next

LEMMA MovesOnePerChat ==
  ASSUME TypeOK, OnePerChat, NEW d \in Deps, NEW s \in Status, Moves(d, s)
  PROVE  OnePerChat'
<1> DEFINE others == OfChat(ChatOf[d]) \ {d}
<1>1. ChatOf[d] \in Chats  BY IdsAssumption
<1>2. \A e \in Deps : dep'[e].status = IF e = d THEN s
                      ELSE IF e \in Superseded(d, s) THEN "superseded" ELSE dep[e].status
      BY DEF Moves, Moved, TypeOK, DepRow
<1>3. s \in InFlight /\ dep[d].status # s => \A e \in others : dep[e].status \notin InFlight
      BY DEF Moves, Accepts, IndexRejects
<1>4. s = "applied" /\ dep[d].status # s =>
        \A e \in others : e \in Superseded(d, s) \/ dep[e].status # "applied"
      BY DEF Superseded
<1>5. "superseded" \notin InFlight  BY DEF InFlight
<1>6. ASSUME NEW c \in Chats, NEW e \in OfChat(c), NEW f \in OfChat(c), e # f
      PROVE  ~ (dep'[e].status \in InFlight /\ dep'[f].status \in InFlight)
             /\ ~ (dep'[e].status = "applied" /\ dep'[f].status = "applied")
      <2>1. ~ (dep[e].status \in InFlight /\ dep[f].status \in InFlight)
            /\ ~ (dep[e].status = "applied" /\ dep[f].status = "applied")
            BY <1>6 DEF OnePerChat
      <2>2. e \in Deps /\ f \in Deps /\ (d \in {e, f} => {e, f} \ {d} \subseteq others)
            BY DEF OfChat
      <2>3. QED  BY <1>2, <1>3, <1>4, <1>5, <1>6, <2>1, <2>2
<1>7. QED  BY <1>6 DEF OnePerChat, OfChat

LEMMA CreateOnePerChat ==
  ASSUME TypeOK, OnePerChat, NEW c \in Chats, Create(c)
  PROVE  OnePerChat'
<1> DEFINE d == NewDep(c)
<1>1. d \in Deps /\ ChatOf[d] = c /\ dep[d].status = "none"
      BY NewDepUnused DEF Create
<1>2. \A e \in Deps : dep'[e].status = IF e = d THEN "planning"
                      ELSE IF ChatOf[e] = c /\ dep[e].status = "awaiting_approval"
                           THEN "cancelled" ELSE dep[e].status
      BY DEF Create, TypeOK, DepRow
<1>3. \A e \in OfChat(c) : dep[e].status \notin InFlight \ {"awaiting_approval"}
      BY DEF Create
<1> HIDE DEF d
<1>4. ASSUME NEW b \in Chats, NEW e \in OfChat(b), NEW f \in OfChat(b), e # f
      PROVE  ~ (dep'[e].status \in InFlight /\ dep'[f].status \in InFlight)
             /\ ~ (dep'[e].status = "applied" /\ dep'[f].status = "applied")
      <2>1. ~ (dep[e].status \in InFlight /\ dep[f].status \in InFlight)
            /\ ~ (dep[e].status = "applied" /\ dep[f].status = "applied")
            BY <1>4 DEF OnePerChat
      <2>2. e \in Deps /\ f \in Deps /\ ChatOf[e] = b /\ ChatOf[f] = b  BY DEF OfChat
      <2>3. QED  BY <1>1, <1>2, <1>3, <1>4, <2>1, <2>2 DEF InFlight, OfChat
<1>5. QED  BY <1>4 DEF OnePerChat, OfChat

LEMMA InitOnePerChat == Init => OnePerChat
BY DEF Init, OnePerChat, OfChat, InFlight

(* One deployment per chat is in flight, and at most one is live: what the   *)
(* partial unique index, Create's check and the supersede update give only   *)
(* together.                                                                 *)
THEOREM OnePerChatHolds == Spec => []OnePerChat
<1>1. TypeOK /\ OnePerChat /\ [Next]_vars => OnePerChat'
      <2> SUFFICES ASSUME TypeOK, OnePerChat, [Next]_vars PROVE OnePerChat'  OBVIOUS
      <2>1. CASE Stays
            BY <2>1 DEF Stays, OnePerChat, OfChat
      <2>2. QED  BY <2>1, StatusSteps, MovesOnePerChat, CreateOnePerChat
<1>2. QED  BY InitOnePerChat, <1>1, TypeCorrect, PTL DEF Spec

(* What a write to a status may do. *)
LegalStep == \A d \in Deps :
  \/ dep'[d].status = dep[d].status
  \/ CanTransition(dep[d].status, dep'[d].status)
  \/ dep[d].status = "none" /\ dep'[d].status = "planning"

LEMMA StepsAreLegal ==
  ASSUME TypeOK, OnePerChat, [Next]_vars
  PROVE  LegalStep
<1>1. CASE Stays  BY <1>1 DEF Stays, LegalStep
<1>2. ASSUME NEW d \in Deps, NEW s \in Status, Moves(d, s)
      PROVE  LegalStep
      <2>1. \A e \in Deps : dep'[e].status = IF e = d THEN s
                ELSE IF e \in Superseded(d, s) THEN "superseded" ELSE dep[e].status
            BY <1>2 DEF Moves, Moved, TypeOK, DepRow
      <2>2. \A e \in Superseded(d, s) : dep[e].status = "applied"
            BY DEF Superseded
      <2>3. CanTransition("applied", "superseded")
            BY DEF CanTransition, allowedTransitions
      <2>4. dep[d].status = s \/ CanTransition(dep[d].status, s)
            BY <1>2 DEF Moves, Accepts
      <2>5. QED  BY <2>1, <2>2, <2>3, <2>4 DEF LegalStep
<1>3. ASSUME NEW c \in Chats, Create(c)
      PROVE  LegalStep
      <2>1. dep[NewDep(c)].status = "none"  BY <1>3, NewDepUnused DEF Create
      <2>2. CanTransition("awaiting_approval", "cancelled")
            BY DEF CanTransition, allowedTransitions
      <2>3. QED  BY <1>3, <2>1, <2>2 DEF Create, TypeOK, DepRow, LegalStep
<1>4. QED  BY <1>1, <1>2, <1>3, StatusSteps

(* Every write to a status is a legal transition, those of Create, Approve   *)
(* and the supersede update included.                                       *)
THEOREM TransitionsAreLegal == Spec => LegalTransitions
<1>1. TypeOK /\ OnePerChat /\ [Next]_vars => [LegalStep]_dep
      BY StepsAreLegal
<1>2. QED  BY <1>1, TypeCorrect, OnePerChatHolds, PTL DEF Spec, LegalTransitions, LegalStep

-------------------------------------------------------------------------------
(* The jobs table *)

Inserts == \E d \in Deps, t \in JobType : UnusedJobs(d) # {} /\ jobs' = Inserted(d, t)

(* A worker ends the job in hand, for now or for good. *)
Ends(w) == \E s \in JobStatus \ {"running"} :
             /\ wk[w].job \in Jobs
             /\ SetJob(wk[w].job, s)
             /\ s = "pending" => MayRetry(w) /\ wk[w].pc = "fail"

(* What a worker does after its claim: it keeps its job or lets go of it, and *)
(* a job changes only at the hands of a worker that is done running it.       *)
Proceeds(w) ==
  /\ \A v \in Workers \ {w} : wk'[v] = wk[v]
  /\ wk'[w].job \in {wk[w].job, NoJob}
  /\ Running(w)' \/ wk'[w].pc \in {"fail", "record"}
       => Running(w) /\ wk'[w].job = wk[w].job /\ jobs' = jobs
  /\ jobs' = jobs \/ Inserts \/ Ends(w)

(* Its run is over: it does not go on inside Terraform. *)
Leaves(w) ==
  /\ \A v \in Workers \ {w} : wk'[v] = wk[v]
  /\ wk'[w].job \in {wk[w].job, NoJob}
  /\ ~Running(w)'
  /\ wk'[w].pc \in {"fail", "record"}
       => Running(w) /\ wk'[w].job = wk[w].job /\ jobs' = jobs

LEMMA GotoLeaves ==
  ASSUME TypeOK, NEW w \in Workers, NEW pc, pc \notin {"claimed", "destroy", "fail"},
         pc = "record" => Running(w) /\ jobs' = jobs,
         Goto(w, pc)
  PROVE  Leaves(w)
BY DEF TypeOK, Goto, Leaves, Running

LEMMA EditLeaves ==
  ASSUME TypeOK, NEW w \in Workers, NEW pc, pc \notin {"claimed", "destroy"}, NEW out,
         pc \in {"fail", "record"} => Running(w) /\ jobs' = jobs,
         \/ wk' = [wk EXCEPT ![w].pc = pc, ![w].out = out]
         \/ wk' = [wk EXCEPT ![w].out = out, ![w].pc = pc]
  PROVE  Leaves(w)
<1>1. wk' = [wk EXCEPT ![w] = [pc |-> pc, job |-> wk[w].job, out |-> out]]
      BY DEF TypeOK
<1>2. QED  BY <1>1 DEF TypeOK, Leaves, Running

LEMMA IdleLeaves ==
  ASSUME TypeOK, NEW w \in Workers, wk' = [wk EXCEPT ![w] = IdleWorker]
  PROVE  Leaves(w)
BY DEF TypeOK, IdleWorker, Leaves, Running

LEMMA WorkProceeds ==
  ASSUME TypeOK, NEW w \in Workers, Work(w)
  PROVE  Proceeds(w)
<1> DEFINE j == wk[w].job
<1> USE DEF tables, JobStatus
<1>1. wk[w].pc \notin {"idle", "reconcile"}
      BY DEF Work, BuildFails, DestroyBegin, DestroySkip, RunPlan, RunApply,
         RunDestroy, InTerraform, Running, Record, Succeed, ScheduleTeardown, Disown,
         LoseJob, LoseDeployment, Fail, WasRequeued, FailDeployment, Finish, Settle,
         StatementFails, SettleFails
<1>2. j \in Jobs /\ JobDep[j] \in Deps  BY <1>1, JobInHand
<1>3. Leaves(w) /\ (jobs' = jobs \/ Inserts \/ Ends(w)) => Proceeds(w)
      BY DEF Leaves, Proceeds
<1>4. CASE BuildFails(w)
      <2>1. jobs' = jobs \/ Ends(w)  BY <1>2, <1>4 DEF BuildFails, Ends
      <2>2. QED  BY <1>3, <1>4, <2>1, IdleLeaves DEF BuildFails
<1>5. CASE DestroyBegin(w)
      <2>1. jobs' = jobs  BY <1>5 DEF DestroyBegin
      <2>2. CASE Goto(w, "destroy")
            BY <1>5, <2>1, <2>2 DEF DestroyBegin, Goto, Proceeds, Running, TypeOK
      <2>3. CASE Goto(w, "skip")  BY <1>3, <2>1, <2>3, GotoLeaves
      <2>4. QED  BY <1>5, <2>2, <2>3 DEF DestroyBegin
<1>6. CASE DestroySkip(w)
      <2>1. jobs' = jobs \/ Ends(w)  BY <1>2, <1>6 DEF DestroySkip, Ends
      <2>2. Goto(w, "finish")  BY <1>6 DEF DestroySkip
      <2>3. QED  BY <1>3, <2>1, <2>2, GotoLeaves
<1>7. CASE RunPlan(w)
      <2>1. PICK out \in Outcome :
              wk' = [wk EXCEPT ![w].out = out,
                       ![w].pc = IF out = "ok" THEN "record" ELSE AfterError(out)]
            BY <1>7 DEF RunPlan
      <2>2. jobs' = jobs  BY <1>7 DEF RunPlan
      <2> DEFINE pc == IF out = "ok" THEN "record" ELSE AfterError(out)
      <2>3. pc \notin {"claimed", "destroy"}  BY DEF AfterError
      <2>4. wk' = [wk EXCEPT ![w].out = out, ![w].pc = pc]  BY <2>1
      <2> HIDE DEF pc
      <2>5. Leaves(w)  BY <1>7, <2>2, <2>3, <2>4, EditLeaves DEF RunPlan, InTerraform
      <2>6. QED  BY <1>3, <2>2, <2>5
<1>8. CASE RunApply(w) \/ RunDestroy(w)
      <2>1. jobs' = jobs  BY <1>8 DEF RunApply, RunDestroy
      <2>2. CASE Goto(w, "record")
            <3>1. Running(w)  BY <1>8 DEF RunApply, RunDestroy, InTerraform
            <3>2. QED  BY <1>3, <2>1, <2>2, <3>1, GotoLeaves
      <2>3. ASSUME NEW out \in Outcome,
                   wk' = [wk EXCEPT ![w].out = out, ![w].pc = AfterError(out)]
            PROVE  Proceeds(w)
            <3>1. AfterError(out) \notin {"claimed", "destroy"}  BY DEF AfterError
            <3>2. Running(w)  BY <1>8 DEF RunApply, RunDestroy, InTerraform
            <3>3. Leaves(w)  BY <2>1, <2>3, <3>1, <3>2, EditLeaves
            <3>4. QED  BY <1>3, <2>1, <3>3
      <2>4. \/ Goto(w, "record")
            \/ \E out \in Outcome : wk' = [wk EXCEPT ![w].out = out, ![w].pc = AfterError(out)]
            <3>1. CASE RunApply(w)  BY <3>1 DEF RunApply, Outcome
            <3>2. CASE RunDestroy(w)  BY <3>2 DEF RunDestroy, Outcome
            <3>3. QED  BY <1>8, <3>1, <3>2
      <2>5. QED  BY <2>2, <2>3, <2>4
<1>9. CASE Record(w) \/ LoseDeployment(w) \/ WasRequeued(w) \/ FailDeployment(w)
      <2>1. jobs' = jobs
            BY <1>9 DEF Record, LoseDeployment, WasRequeued, FailDeployment
      <2>2. \E pc : pc \notin {"claimed", "destroy", "fail", "record"} /\ Goto(w, pc)
            BY <1>9 DEF Record, LoseDeployment, WasRequeued, FailDeployment
      <2>3. QED  BY <1>3, <2>1, <2>2, GotoLeaves
<1>10. CASE Succeed(w) \/ Disown(w)
      <2>1. Ends(w)  BY <1>2, <1>10 DEF Succeed, Disown, Ends
      <2>2. \E pc : pc \notin {"claimed", "destroy", "fail", "record"} /\ Goto(w, pc)
            BY <1>10 DEF Succeed, Disown
      <2>3. QED  BY <1>3, <2>1, <2>2, GotoLeaves
<1>11. CASE LoseJob(w) \/ Fail(w)
      <2>1. Ends(w)  BY <1>2, <1>11 DEF LoseJob, Fail, Ends
      <2>2. \E pc \in {"lostdep", "requeued"} :
              wk' = [wk EXCEPT ![w].pc = pc, ![w].out = "ok"]
            BY <1>11 DEF LoseJob, Fail
      <2>3. QED  BY <1>3, <2>1, <2>2, EditLeaves
<1>12. CASE Settle(w)
      <2>1. Ends(w)  BY <1>2, <1>12 DEF Settle, Ends
      <2>2. QED  BY <1>3, <1>12, <2>1, IdleLeaves DEF Settle
<1>13. CASE ScheduleTeardown(w)
      <2>1. Inserts  BY <1>2, <1>13 DEF ScheduleTeardown, Inserts, JobType
      <2>2. Goto(w, "finish")  BY <1>13 DEF ScheduleTeardown
      <2>3. QED  BY <1>3, <2>1, <2>2, GotoLeaves
<1>14. CASE Finish(w)
      <2>1. jobs' = jobs  BY <1>14 DEF Finish
      <2>2. Goto(w, "settle") \/ wk' = [wk EXCEPT ![w] = IdleWorker]
            BY <1>14 DEF Finish, Goto
      <2>3. QED  BY <1>3, <2>1, <2>2, GotoLeaves, IdleLeaves
<1>15. CASE StatementFails(w)
      <2>1. AfterFault(w) \notin {"claimed", "destroy", "fail", "record"}
            BY <1>15 DEF StatementFails, AfterFault
      <2>2. jobs' = jobs
            /\ wk' = [wk EXCEPT ![w].pc = AfterFault(w), ![w].out = "ok"]
            BY <1>15 DEF StatementFails
      <2>3. QED  BY <1>3, <2>1, <2>2, EditLeaves
<1>16. CASE SettleFails(w)
      BY <1>3, <1>16, IdleLeaves DEF SettleFails
<1>17. QED
      BY <1>4, <1>5, <1>6, <1>7, <1>8, <1>9, <1>10, <1>11, <1>12, <1>13, <1>14,
         <1>15, <1>16 DEF Work

(* Every step, seen from the jobs and from the workers' own state. *)
LEMMA JobSteps ==
  ASSUME TypeOK, [Next]_vars
  PROVE  \/ wk' = wk /\ (jobs' = jobs \/ Inserts)
         \/ \E r \in Requests : ResolveDrop(r)
         \/ \E w \in Workers : \/ Proceeds(w) \/ Reclaim(w)
                              \/ \E j \in Jobs : Claim(w, j)
<1> USE DEF tables
<1>1. ASSUME NEW c \in Chats, Create(c)
      PROVE  wk' = wk /\ Inserts
      BY <1>1, NewDepUnused DEF Create, Inserts, JobType
<1>2. ASSUME NEW d \in Deps, NEW h, Approve(d, h)
      PROVE  wk' = wk /\ (jobs' = jobs \/ Inserts)
      <2>1. UnusedJobs(d) # {}  BY <1>2 DEF Approve, Spare
      <2>2. QED  BY <1>2, <2>1 DEF Approve, Inserts, JobType
<1>3. ASSUME NEW d \in Deps, LoseWorkspace(d)
      PROVE  wk' = wk /\ jobs' = jobs
      BY <1>3 DEF LoseWorkspace
<1>4. ASSUME NEW r \in Requests, Request(r), ~ResolveDrop(r)
      PROVE  wk' = wk /\ (jobs' = jobs \/ Inserts)
      <2>1. CASE DestroyQueue(r)
            BY <2>1 DEF DestroyQueue, Inserts, JobType, TypeOK
      <2>2. CASE ~DestroyQueue(r)
            BY <1>4, <2>2 DEF Request, DestroyRead, CancelRead, ResolveRead, DestroyMark,
               CancelWrite, ResolveWrite, Abandon
      <2>3. QED  BY <2>1, <2>2
<1>5. ASSUME NEW w \in Workers, Worker(w), ~Reclaim(w), \A j \in Jobs : ~Claim(w, j)
      PROVE  Proceeds(w)
      <2>1. ASSUME NEW j \in Jobs, Reconcile(w, j)
            PROVE  Proceeds(w)
            BY <2>1 DEF Reconcile, Goto, Proceeds, Running, TypeOK
      <2>2. CASE Sweep(w)
            BY <2>2 DEF Sweep, Proceeds, Running
      <2>3. CASE Crash(w)
            BY <2>3, IdleLeaves DEF Crash, Leaves, Proceeds
      <2>4. QED  BY <1>5, <2>1, <2>2, <2>3, WorkProceeds DEF Worker
<1>6. CASE UNCHANGED vars  BY <1>6 DEF vars
<1>7. QED  BY <1>1, <1>2, <1>3, <1>4, <1>5, <1>6 DEF Next

(* A job is only queued with an attempt to spare; AttemptsBounded alone is    *)
(* not inductive, for Claim counts an attempt without looking at the bound.   *)
AttemptsInv ==
  \A j \in Jobs : /\ jobs[j].attempts <= MaxAttempts
                  /\ jobs[j].status = "pending" => jobs[j].attempts < MaxAttempts

(* However often a job is requeued and however often its worker dies, it is  *)
(* claimed at most max_attempts times.                                       *)
THEOREM AttemptsAreBounded == Spec => []AttemptsBounded
<1>1. Init => AttemptsInv
      BY BoundsAssumption DEF Init, AttemptsInv
<1>2. TypeOK /\ AttemptsInv /\ [Next]_vars => AttemptsInv'
      <2> SUFFICES ASSUME TypeOK, AttemptsInv, [Next]_vars PROVE AttemptsInv'  OBVIOUS
      <2> USE BoundsAssumption DEF AttemptsInv, TypeOK, JobRow
      <2>1. CASE jobs' = jobs  BY <2>1
      <2>2. CASE Inserts
            BY <2>2, NewJobUnused DEF Inserts, Inserted
      <2>3. ASSUME NEW r \in Requests, ResolveDrop(r)
            PROVE  AttemptsInv'
            BY <2>3 DEF ResolveDrop
      <2>4. ASSUME NEW w \in Workers, Reclaim(w)
            PROVE  AttemptsInv'
            BY <2>4 DEF Reclaim
      <2>5. ASSUME NEW w \in Workers, NEW j \in Jobs, Claim(w, j)
            PROVE  AttemptsInv'
            BY <2>5 DEF Claim, Claimable
      <2>6. ASSUME NEW w \in Workers, Ends(w)
            PROVE  AttemptsInv'
            BY <2>6 DEF Ends, SetJob, MayRetry
      <2>7. QED  BY <2>1, <2>2, <2>3, <2>4, <2>5, <2>6, JobSteps DEF Proceeds
<1>3. AttemptsInv => AttemptsBounded  BY DEF AttemptsInv, AttemptsBounded
<1>4. QED  BY <1>1, <1>2, <1>3, TypeCorrect, PTL DEF Spec

-------------------------------------------------------------------------------
(* One Terraform run per chat, as long as no worker stalls *)

(* A worker in a run holds a job that is running, and is the only one to     *)
(* hold it; a chat has one running job.                                      *)
ClaimInv ==
  /\ \A w \in Workers : Running(w) => jobs[wk[w].job].status = "running"
  /\ \A v, w \in Workers : wk[v].job = wk[w].job => v = w \/ wk[v].job = NoJob
  /\ \A i, j \in Jobs :
       jobs[i].status = "running" /\ jobs[j].status = "running" /\ JobChat(i) = JobChat(j)
         => i = j

LEMMA ClaimInvExcludes == TypeOK /\ ClaimInv => OneTerraformPerChat
<1> SUFFICES ASSUME TypeOK, ClaimInv, NEW v \in Workers, NEW w \in Workers,
                    Running(v), Running(w), JobChat(wk[v].job) = JobChat(wk[w].job)
             PROVE  v = w
    BY DEF OneTerraformPerChat, InTerraform
<1>1. wk[v].job \in Jobs /\ wk[w].job \in Jobs  BY JobInHand DEF Running
<1>2. wk[v].job = wk[w].job  BY <1>1 DEF ClaimInv
<1>3. QED  BY <1>1, <1>2, IdsAssumption DEF ClaimInv

LEMMA ProceedsClaimInv ==
  ASSUME TypeOK, ClaimInv, NEW w \in Workers, Proceeds(w)
  PROVE  ClaimInv'
<1>1. \A i \in Jobs : jobs'[i].status = "running" => jobs[i].status = "running"
      <2>1. CASE jobs' = jobs  BY <2>1
      <2>2. CASE Inserts  BY <2>2, NewJobUnused DEF Inserts, Inserted, TypeOK
      <2>3. CASE Ends(w)  BY <2>3 DEF Ends, SetJob, TypeOK, JobRow
      <2>4. QED  BY <2>1, <2>2, <2>3 DEF Proceeds
<1>2. ASSUME NEW v \in Workers, Running(v)'
      PROVE  jobs'[wk'[v].job].status = "running"
      <2>1. CASE v = w  BY <1>2, <2>1, JobInHand DEF Proceeds, ClaimInv, Running
      <2>2. CASE v # w
            <3>1. wk'[v] = wk[v] /\ Running(v)  BY <1>2, <2>2 DEF Proceeds, Running
            <3>2. wk[v].job \in Jobs /\ jobs[wk[v].job].status = "running"
                  BY <3>1, JobInHand DEF Running, ClaimInv
            <3>3. CASE jobs' = jobs  BY <3>1, <3>2, <3>3
            <3>4. CASE Inserts
                  BY <3>1, <3>2, <3>4, NewJobUnused DEF Inserts, Inserted, TypeOK
            <3>5. CASE Ends(w)
                  <4>1. wk[w].job # wk[v].job
                        BY <2>2, <3>2, IdsAssumption DEF ClaimInv
                  <4>2. QED  BY <3>1, <3>2, <3>5, <4>1 DEF Ends, SetJob, TypeOK
            <3>6. QED  BY <3>3, <3>4, <3>5 DEF Proceeds
      <2>3. QED  BY <2>1, <2>2
<1>3. \A u, v \in Workers : wk'[u].job = wk'[v].job => u = v \/ wk'[u].job = NoJob
      BY DEF Proceeds, ClaimInv
<1>4. QED  BY <1>1, <1>2, <1>3 DEF ClaimInv

LEMMA ClaimClaimInv ==
  ASSUME TypeOK, ClaimInv, ~Stalls, NEW w \in Workers, NEW j \in Jobs, Claim(w, j)
  PROVE  ClaimInv'
<1>1. /\ Claimable(j)
      /\ \A v \in Workers : ~Handles(v, j)
      /\ wk' = [wk EXCEPT ![w] = [pc |-> "claimed", job |-> j, out |-> "ok"]]
      BY DEF Claim
<1>2. \A i \in Jobs : jobs'[i].status = IF i = j THEN "running" ELSE jobs[i].status
      BY DEF Claim, TypeOK, JobRow
<1>3. \A v \in Workers : wk'[v] = IF v = w THEN [pc |-> "claimed", job |-> j, out |-> "ok"]
                          ELSE wk[v]
      BY <1>1 DEF TypeOK
<1>4. \A v \in Workers : Running(v)' => jobs'[wk'[v].job].status = "running"
      BY <1>2, <1>3, JobInHand DEF Running, ClaimInv
<1>5. \A u, v \in Workers : wk'[u].job = wk'[v].job => u = v \/ wk'[u].job = NoJob
      BY <1>1, <1>3 DEF Handles, ClaimInv
<1>6. \A i, k \in Jobs :
        jobs'[i].status = "running" /\ jobs'[k].status = "running" /\ JobChat(i) = JobChat(k)
          => i = k
      BY <1>1, <1>2 DEF Claimable, ClaimInv
<1>7. QED  BY <1>4, <1>5, <1>6 DEF ClaimInv, JobChat

LEMMA ReclaimClaimInv ==
  ASSUME TypeOK, ClaimInv, ~Stalls, NEW w \in Workers, Reclaim(w)
  PROVE  ClaimInv'
<1>1. \A i \in Jobs : jobs'[i].status = IF IsStale(i) THEN "unknown" ELSE jobs[i].status
      BY DEF Reclaim, TypeOK, JobRow
<1>2. \A v \in Workers : wk'[v].job = wk[v].job /\ (Running(v)' => Running(v))
      BY DEF Reclaim, Goto, TypeOK, Running
<1>3. \A v \in Workers : Running(v) => wk[v].job \in Jobs /\ ~IsStale(wk[v].job)
      BY JobInHand DEF IsStale, Handles, Running
<1>4. QED  BY <1>1, <1>2, <1>3 DEF ClaimInv, JobChat

LEMMA ResolveDropClaimInv ==
  ASSUME TypeOK, ClaimInv, NEW r \in Requests, ResolveDrop(r)
  PROVE  ClaimInv'
<1>1. /\ wk' = wk
      /\ \A i \in Jobs : jobs'[i].status = "running" <=> jobs[i].status = "running"
      BY DEF ResolveDrop, TypeOK, JobRow
<1>2. QED  BY <1>1, JobInHand DEF ClaimInv, Running, JobChat

(* While no worker stalls, claims exclude each other. *)
THEOREM ClaimsExclude ==
  ASSUME "stall" \notin Faults
  PROVE  Spec => []ClaimInv
<1>1. Init => ClaimInv
      BY IdsAssumption DEF Init, ClaimInv, IdleWorker, Running
<1>2. TypeOK /\ ClaimInv /\ [Next]_vars => ClaimInv'
      <2> SUFFICES ASSUME TypeOK, ClaimInv, [Next]_vars PROVE ClaimInv'  OBVIOUS
      <2>1. ~Stalls  BY DEF Stalls
      <2>2. CASE wk' = wk /\ jobs' = jobs  BY <2>2 DEF ClaimInv, Running, JobChat
      <2>3. CASE wk' = wk /\ Inserts
            <3>1. \A i \in Jobs : jobs'[i].status = "running" <=> jobs[i].status = "running"
                  BY <2>3, NewJobUnused DEF Inserts, Inserted, TypeOK
            <3>2. QED  BY <2>3, <3>1, JobInHand DEF ClaimInv, Running, JobChat
      <2>4. QED
            BY <2>1, <2>2, <2>3, JobSteps, ProceedsClaimInv, ClaimClaimInv,
               ReclaimClaimInv, ResolveDropClaimInv
<1>3. QED  BY <1>1, <1>2, TypeCorrect, PTL DEF Spec

(* While no worker stalls between two statements, two workers are never in   *)
(* Terraform for the same chat: whatever else fails, one claim excludes all  *)
(* others.                                                                   *)
THEOREM OneTerraformHolds ==
  ASSUME "stall" \notin Faults
  PROVE  Spec => []OneTerraformPerChat
<1>1. QED  BY ClaimsExclude, ClaimInvExcludes, TypeCorrect, PTL

-------------------------------------------------------------------------------
(* A job of unknown outcome stays so, as long as no worker stalls *)

(* The job that a worker is about to fail is still running: nobody has       *)
(* reclaimed it, or it would be brought back by a retry.                     *)
FailInv == \A w \in Workers : wk[w].pc = "fail" => jobs[wk[w].job].status = "running"

LEMMA RunningStays ==
  ASSUME TypeOK, Inserts \/ (\E r \in Requests : ResolveDrop(r)), NEW j \in Jobs
  PROVE  /\ jobs[j].status = "running" => jobs'[j].status = "running"
         /\ jobs[j].status = "unknown" => jobs'[j].status = "unknown"
<1>1. CASE Inserts  BY <1>1, NewJobUnused DEF Inserts, Inserted, TypeOK
<1>2. ASSUME NEW r \in Requests, ResolveDrop(r)
      PROVE  jobs'[j].status = IF jobs[j].status = "pending" THEN jobs'[j].status
                               ELSE jobs[j].status
      BY <1>2 DEF ResolveDrop, TypeOK
<1>3. QED  BY <1>1, <1>2

LEMMA ProceedsFailInv ==
  ASSUME TypeOK, ClaimInv, FailInv, NEW w \in Workers, Proceeds(w)
  PROVE  FailInv'
<1> SUFFICES ASSUME NEW v \in Workers, wk'[v].pc = "fail"
             PROVE  jobs'[wk'[v].job].status = "running"
    BY DEF FailInv
<1>1. CASE v = w  BY <1>1 DEF Proceeds, ClaimInv
<1>2. CASE v # w
      <2>1. wk'[v] = wk[v]  BY <1>2 DEF Proceeds
      <2>2. wk[v].job \in Jobs /\ jobs[wk[v].job].status = "running"
            BY <2>1, JobInHand DEF FailInv
      <2>3. CASE jobs' = jobs  BY <2>1, <2>2, <2>3
      <2>4. CASE Inserts  BY <2>1, <2>2, <2>4, RunningStays
      <2>5. CASE Ends(w)
            <3>1. wk[w].job # wk[v].job  BY <1>2, <2>2, IdsAssumption DEF ClaimInv
            <3>2. QED  BY <2>1, <2>2, <2>5, <3>1 DEF Ends, SetJob, TypeOK
      <2>6. QED  BY <2>3, <2>4, <2>5 DEF Proceeds
<1>3. QED  BY <1>1, <1>2

LEMMA ClaimFailInv ==
  ASSUME TypeOK, FailInv, NEW w \in Workers, NEW j \in Jobs, Claim(w, j)
  PROVE  FailInv'
<1>1. \A i \in Jobs : jobs'[i].status = IF i = j THEN "running" ELSE jobs[i].status
      BY DEF Claim, TypeOK, JobRow
<1>2. \A v \in Workers : wk'[v].pc = "fail" => wk'[v] = wk[v]
      BY DEF Claim, TypeOK
<1>3. QED  BY <1>1, <1>2, JobInHand DEF FailInv

LEMMA ReclaimFailInv ==
  ASSUME TypeOK, FailInv, ~Stalls, NEW w \in Workers, Reclaim(w)
  PROVE  FailInv'
<1>1. \A i \in Jobs : jobs'[i].status = IF IsStale(i) THEN "unknown" ELSE jobs[i].status
      BY DEF Reclaim, TypeOK, JobRow
<1>2. \A v \in Workers : wk'[v].pc = "fail" => wk'[v] = wk[v]
      BY DEF Reclaim, Goto, TypeOK
<1>3. \A v \in Workers : wk[v].pc = "fail" => wk[v].job \in Jobs /\ ~IsStale(wk[v].job)
      BY JobInHand DEF IsStale, Handles
<1>4. QED  BY <1>1, <1>2, <1>3 DEF FailInv

(* While no worker stalls, only a running job is failed. *)
THEOREM FailsWhatRuns ==
  ASSUME "stall" \notin Faults
  PROVE  Spec => []FailInv
<1>1. Init => FailInv
      BY DEF Init, FailInv, IdleWorker
<1>2. TypeOK /\ ClaimInv /\ FailInv /\ [Next]_vars => FailInv'
      <2> SUFFICES ASSUME TypeOK, ClaimInv, FailInv, [Next]_vars PROVE FailInv'  OBVIOUS
      <2>1. ~Stalls  BY DEF Stalls
      <2>2. CASE wk' = wk /\ jobs' = jobs  BY <2>2 DEF FailInv
      <2>3. CASE wk' = wk /\ Inserts  BY <2>3, RunningStays, JobInHand DEF FailInv
      <2>4. ASSUME NEW r \in Requests, ResolveDrop(r)
            PROVE  FailInv'
            <3>1. wk' = wk  BY <2>4 DEF ResolveDrop
            <3>2. QED  BY <2>4, <3>1, RunningStays, JobInHand DEF FailInv
      <2>5. QED
            BY <2>1, <2>2, <2>3, <2>4, JobSteps, ProceedsFailInv, ClaimFailInv, ReclaimFailInv
<1>3. QED  BY <1>1, <1>2, ClaimsExclude, TypeCorrect, PTL DEF Spec

(* While no worker stalls between two statements, a job whose outcome is     *)
(* unknown is never run again, by whatever else its worker, the reclaim, a   *)
(* retry or a person does to it.                                             *)
THEOREM UnknownIsFinal ==
  ASSUME "stall" \notin Faults
  PROVE  Spec => UnknownJobIsFinal
<1> DEFINE Final == \A j \in Jobs :
             jobs[j].status = "unknown" => jobs'[j].status \notin {"pending", "running"}
<1>1. ASSUME TypeOK, FailInv, [Next]_vars
      PROVE  Final
      <2> SUFFICES ASSUME NEW j \in Jobs, jobs[j].status = "unknown"
                   PROVE  jobs'[j].status \notin {"pending", "running"}
          OBVIOUS
      <2>1. CASE jobs' = jobs  BY <2>1
      <2>2. CASE Inserts \/ \E r \in Requests : ResolveDrop(r)
            BY <1>1, <2>2, RunningStays
      <2>3. ASSUME NEW w \in Workers, NEW i \in Jobs, Claim(w, i)
            PROVE  jobs'[j] = jobs[j]
            BY <1>1, <2>3 DEF Claim, Claimable, TypeOK
      <2>4. ASSUME NEW w \in Workers, Reclaim(w)
            PROVE  jobs'[j].status = "unknown"
            BY <1>1, <2>4 DEF Reclaim, TypeOK, JobRow
      <2>5. ASSUME NEW w \in Workers, Ends(w)
            PROVE  jobs'[j].status \notin {"pending", "running"}
            BY <1>1, <2>5 DEF Ends, SetJob, FailInv, TypeOK, JobRow
      <2>6. QED  BY <1>1, <2>1, <2>2, <2>3, <2>4, <2>5, JobSteps DEF Proceeds
<1>2. TypeOK /\ FailInv /\ [Next]_vars => [Final]_jobs
      BY <1>1
<1>3. QED  BY <1>2, FailsWhatRuns, TypeCorrect, PTL DEF Spec, UnknownJobIsFinal

-------------------------------------------------------------------------------
(* An apply runs the plan that was approved *)

(* A worker whose run is going on, or has yet to be recorded, or to fail. *)
Busy(w) == wk[w].pc \in {"claimed", "destroy", "record", "fail"}

(* A job in hand has been queued; while its worker is busy, nobody else may  *)
(* take it up, and nobody else is busy with it.                              *)
HeldInv ==
  /\ \A w \in Workers : wk[w].job \in Jobs => jobs[wk[w].job].status # "none"
  /\ \A w \in Workers : Busy(w) => jobs[wk[w].job].status # "pending"
  /\ \A v, w \in Workers : Busy(v) /\ Busy(w) /\ wk[v].job = wk[w].job => v = w

LEMMA BusyJob ==
  ASSUME TypeOK, NEW w \in Workers, Busy(w)
  PROVE  wk[w].job \in Jobs /\ wk[w].job # NoJob
BY JobInHand, IdsAssumption DEF Busy, TypeOK

LEMMA ProceedsHeldInv ==
  ASSUME TypeOK, HeldInv, NEW w \in Workers, Proceeds(w)
  PROVE  HeldInv'
<1>1. Busy(w)' => Busy(w) /\ wk'[w].job = wk[w].job /\ jobs' = jobs
      BY DEF Proceeds, Busy, Running
<1>2. \A v \in Workers \ {w} : wk'[v] = wk[v]
      BY DEF Proceeds
<1>3. ASSUME NEW i \in Jobs, jobs[i].status # "none"
      PROVE  jobs'[i].status # "none"
      <2>1. CASE jobs' = jobs  BY <1>3, <2>1
      <2>2. CASE Inserts  BY <1>3, <2>2, NewJobUnused DEF Inserts, Inserted, TypeOK
      <2>3. CASE Ends(w)  BY <1>3, <2>3 DEF Ends, SetJob, TypeOK, JobRow, JobStatus
      <2>4. QED  BY <2>1, <2>2, <2>3 DEF Proceeds
<1>4. ASSUME NEW v \in Workers, v # w, Busy(v)
      PROVE  jobs'[wk[v].job].status # "pending"
      <2>1. wk[v].job \in Jobs /\ jobs[wk[v].job].status \notin {"none", "pending"}
            BY <1>4, BusyJob DEF HeldInv
      <2>2. CASE jobs' = jobs  BY <2>1, <2>2
      <2>3. CASE Inserts  BY <2>1, <2>3, NewJobUnused DEF Inserts, Inserted, TypeOK
      <2>4. CASE Ends(w)
            <3>1. PICK s \in JobStatus : SetJob(wk[w].job, s) /\ (s = "pending" => Busy(w))
                  BY <2>4 DEF Ends, Busy
            <3>2. s = "pending" => wk[v].job # wk[w].job
                  BY <1>4, <3>1 DEF HeldInv
            <3>3. QED  BY <2>1, <3>1, <3>2 DEF SetJob, TypeOK, JobRow
      <2>5. QED  BY <2>2, <2>3, <2>4 DEF Proceeds
<1>5. \A v \in Workers : wk'[v].job \in {wk[v].job, NoJob}
      BY <1>2 DEF Proceeds
<1>6. \A v \in Workers : Busy(v)' => Busy(v) /\ wk'[v].job = wk[v].job
      BY <1>1, <1>2 DEF Busy
<1>7. \A v \in Workers : wk'[v].job \in Jobs => jobs'[wk'[v].job].status # "none"
      BY <1>3, <1>5, IdsAssumption DEF HeldInv
<1>8. \A v \in Workers : Busy(v)' => jobs'[wk'[v].job].status # "pending"
      BY <1>1, <1>4, <1>6 DEF HeldInv
<1>9. QED  BY <1>6, <1>7, <1>8 DEF HeldInv

LEMMA ClaimHeldInv ==
  ASSUME TypeOK, HeldInv, NEW w \in Workers, NEW j \in Jobs, Claim(w, j)
  PROVE  HeldInv'
<1>1. \A i \in Jobs : jobs'[i].status = IF i = j THEN "running" ELSE jobs[i].status
      BY DEF Claim, TypeOK, JobRow
<1>2. \A v \in Workers : wk'[v] = IF v = w THEN [pc |-> "claimed", job |-> j, out |-> "ok"]
                          ELSE wk[v]
      BY DEF Claim, TypeOK
<1>3. \A v \in Workers : Busy(v) => wk[v].job # j
      BY DEF Claim, Claimable, HeldInv
<1>4. \A v \in Workers : Busy(v)' => v = w \/ Busy(v)
      BY <1>2 DEF Busy
<1>5. QED  BY <1>1, <1>2, <1>3, <1>4, BusyJob DEF HeldInv

LEMMA ReclaimHeldInv ==
  ASSUME TypeOK, HeldInv, NEW w \in Workers, Reclaim(w)
  PROVE  HeldInv'
<1>1. \A i \in Jobs : jobs'[i].status = IF IsStale(i) THEN "unknown" ELSE jobs[i].status
      BY DEF Reclaim, TypeOK, JobRow
<1>2. \A v \in Workers : wk'[v].job = wk[v].job /\ (Busy(v)' => Busy(v))
      BY DEF Reclaim, Goto, TypeOK, Busy
<1>3. QED  BY <1>1, <1>2, BusyJob DEF HeldInv

LEMMA ResolveDropHeldInv ==
  ASSUME TypeOK, HeldInv, NEW r \in Requests, ResolveDrop(r)
  PROVE  HeldInv'
<1>1. /\ wk' = wk
      /\ \A i \in Jobs : jobs'[i].status \in {jobs[i].status, "failed"}
      BY DEF ResolveDrop, TypeOK, JobRow
<1>2. QED  BY <1>1, BusyJob DEF HeldInv, Busy

LEMMA InsertHeldInv ==
  ASSUME TypeOK, HeldInv, wk' = wk, jobs' = jobs \/ Inserts
  PROVE  HeldInv'
<1>1. \A i \in Jobs : jobs[i].status # "none" => jobs'[i] = jobs[i]
      BY NewJobUnused DEF Inserts, Inserted, TypeOK
<1>2. QED  BY <1>1, BusyJob DEF HeldInv, Busy

LEMMA NextHeldInv ==
  ASSUME TypeOK, HeldInv, [Next]_vars
  PROVE  HeldInv'
BY JobSteps, ProceedsHeldInv, ClaimHeldInv, ReclaimHeldInv, ResolveDropHeldInv,
   InsertHeldInv

(* A row of the jobs table keeps its type; it is queued again, or handed     *)
(* out, only by the worker that is busy with it.                             *)
Queued(j) == jobs[j].status # "none"
IsPlan(j) == Queued(j) /\ jobs[j].type = "plan"
Open(j) == jobs[j].status = "pending" \/ \E w \in Workers : Busy(w) /\ wk[w].job = j

LEMMA QueuedStays ==
  ASSUME TypeOK, HeldInv, [Next]_vars, NEW j \in Jobs, Queued(j)
  PROVE  /\ Queued(j)'
         /\ jobs'[j].type = jobs[j].type
         /\ Open(j)' => Open(j)
<1>1. CASE wk' = wk /\ (jobs' = jobs \/ Inserts)
      <2>1. jobs'[j] = jobs[j]
            BY <1>1, NewJobUnused DEF Inserts, Inserted, TypeOK, Queued
      <2>2. QED  BY <1>1, <2>1 DEF Queued, Open, Busy
<1>2. ASSUME NEW r \in Requests, ResolveDrop(r)
      PROVE  Queued(j)' /\ jobs'[j].type = jobs[j].type /\ (Open(j)' => Open(j))
      <2>1. /\ wk' = wk /\ jobs'[j].type = jobs[j].type
            /\ jobs'[j].status \in {jobs[j].status, "failed"}
            BY <1>2 DEF ResolveDrop, TypeOK, JobRow
      <2>2. QED  BY <2>1 DEF Queued, Open, Busy
<1>3. ASSUME NEW w \in Workers, Proceeds(w)
      PROVE  Queued(j)' /\ jobs'[j].type = jobs[j].type /\ (Open(j)' => Open(j))
      <2>1. \A v \in Workers : Busy(v)' => Busy(v) /\ wk'[v].job = wk[v].job
            BY <1>3 DEF Proceeds, Busy, Running
      <2>2. /\ Queued(j)' /\ jobs'[j].type = jobs[j].type
            /\ jobs'[j].status = "pending" => Open(j)
            <3>1. CASE jobs' = jobs  BY <3>1 DEF Queued, Open
            <3>2. CASE Inserts
                  <4>1. jobs'[j] = jobs[j]
                        BY <3>2, NewJobUnused DEF Inserts, Inserted, TypeOK, Queued
                  <4>2. QED  BY <4>1 DEF Queued, Open
            <3>3. CASE Ends(w)
                  <4>1. PICK s \in JobStatus :
                          /\ SetJob(wk[w].job, s)
                          /\ s = "pending" => Busy(w)
                        BY <3>3 DEF Ends, Busy
                  <4>2. /\ jobs'[j].type = jobs[j].type
                        /\ jobs'[j].status = IF j = wk[w].job THEN s ELSE jobs[j].status
                        BY <4>1 DEF SetJob, TypeOK, JobRow
                  <4>3. QED  BY <4>1, <4>2 DEF Queued, Open, JobStatus
            <3>4. QED  BY <1>3, <3>1, <3>2, <3>3 DEF Proceeds
      <2>3. QED  BY <2>1, <2>2 DEF Open
<1>4. ASSUME NEW w \in Workers, Reclaim(w)
      PROVE  Queued(j)' /\ jobs'[j].type = jobs[j].type /\ (Open(j)' => Open(j))
      <2>1. /\ jobs'[j].type = jobs[j].type
            /\ jobs'[j].status \in {jobs[j].status, "unknown"}
            BY <1>4 DEF Reclaim, TypeOK, JobRow
      <2>2. \A v \in Workers : Busy(v)' => Busy(v) /\ wk'[v].job = wk[v].job
            BY <1>4 DEF Reclaim, Goto, TypeOK, Busy
      <2>3. QED  BY <2>1, <2>2 DEF Queued, Open
<1>5. ASSUME NEW w \in Workers, NEW i \in Jobs, Claim(w, i)
      PROVE  Queued(j)' /\ jobs'[j].type = jobs[j].type /\ (Open(j)' => Open(j))
      <2>1. /\ jobs'[j].type = jobs[j].type
            /\ jobs'[j].status = IF i = j THEN "running" ELSE jobs[j].status
            /\ jobs[i].status = "pending"
            BY <1>5 DEF Claim, Claimable, TypeOK, JobRow
      <2>2. \A v \in Workers : Busy(v)' /\ wk'[v].job = j /\ i # j
                                 => Busy(v) /\ wk[v].job = j
            BY <1>5 DEF Claim, TypeOK, Busy
      <2>3. QED  BY <2>1, <2>2 DEF Queued, Open
<1>6. QED  BY <1>1, <1>2, <1>3, <1>4, <1>5, JobSteps

(* What a create, an approval and anything else inserts. *)
LEMMA InsertedRow ==
  ASSUME TypeOK, NEW d \in Deps, UnusedJobs(d) # {}, NEW t \in JobType,
         jobs' = Inserted(d, t),
         NEW j \in Jobs, jobs[j].status = "none", jobs'[j].status # "none"
  PROVE  /\ JobDep[j] = d
         /\ jobs'[j] = [type |-> t, status |-> "pending", attempts |-> 0]
BY NewJobUnused DEF Inserted, TypeOK

LEMMA NewRows ==
  ASSUME TypeOK, HeldInv, [Next]_vars, NEW j \in Jobs, ~Queued(j), Queued(j)'
  PROVE  \/ /\ jobs'[j].type = "destroy"
            /\ \/ \E r \in Requests : DestroyQueue(r) /\ JobDep[j] = req[r].dep
               \/ \E w \in Workers : ScheduleTeardown(w) /\ JobDep[j] = JobDep[wk[w].job]
         \/ /\ jobs'[j].type = "plan"
            /\ \E c \in Chats : Create(c) /\ JobDep[j] = NewDep(c)
         \/ /\ jobs'[j].type = "apply"
            /\ \E h \in 1..MaxAttempts : Approve(JobDep[j], h)
<1> USE DEF tables, JobType
<1>0. jobs[j].status = "none" /\ jobs'[j].status # "none"  BY DEF Queued
<1>1. ASSUME NEW c \in Chats, Create(c)
      PROVE  jobs'[j].type = "plan" /\ JobDep[j] = NewDep(c)
      BY <1>0, <1>1, NewDepUnused, InsertedRow DEF Create
<1>2. ASSUME NEW d \in Deps, NEW h \in 1..MaxAttempts, Approve(d, h)
      PROVE  jobs'[j].type = "apply" /\ JobDep[j] = d
      <2>1. UnusedJobs(d) # {}  BY <1>2 DEF Approve, Spare
      <2>2. QED  BY <1>0, <1>2, <2>1, InsertedRow DEF Approve
<1>3. ASSUME NEW d \in Deps, LoseWorkspace(d)
      PROVE  FALSE
      BY <1>3 DEF LoseWorkspace, Queued
<1>4. ASSUME NEW r \in Requests, Request(r)
      PROVE  jobs'[j].type = "destroy" /\ DestroyQueue(r) /\ JobDep[j] = req[r].dep
      <2>1. CASE DestroyQueue(r)
            <3>1. req[r].dep \in Deps  BY <2>1 DEF DestroyQueue, TypeOK
            <3>2. QED  BY <1>0, <2>1, <3>1, InsertedRow DEF DestroyQueue
      <2>2. CASE ResolveDrop(r)
            BY <2>2 DEF ResolveDrop, Queued, TypeOK, JobRow
      <2>3. CASE ~DestroyQueue(r) /\ ~ResolveDrop(r)
            BY <1>4, <2>3 DEF Request, DestroyRead, CancelRead, ResolveRead, DestroyMark,
               CancelWrite, ResolveWrite, Abandon, Queued
      <2>4. QED  BY <2>1, <2>2, <2>3
<1>5. ASSUME NEW w \in Workers, Worker(w)
      PROVE  jobs'[j].type = "destroy" /\ ScheduleTeardown(w) /\ JobDep[j] = JobDep[wk[w].job]
      <2>1. CASE ScheduleTeardown(w)
            <3>1. JobDep[wk[w].job] \in Deps  BY <2>1, JobInHand DEF ScheduleTeardown
            <3>2. QED  BY <1>0, <2>1, <3>1, InsertedRow DEF ScheduleTeardown
      <2>2. CASE Reclaim(w)
            BY <2>2 DEF Reclaim, IsStale, Queued, TypeOK, JobRow
      <2>3. CASE Sweep(w) \/ Crash(w) \/ \E i \in Jobs : Reconcile(w, i)
            BY <2>3 DEF Sweep, Crash, Reconcile, Queued
      <2>4. CASE \E i \in Jobs : Claim(w, i)
            BY <2>4 DEF Claim, Claimable, Queued, TypeOK, JobRow
      <2>5. CASE Work(w) /\ ~ScheduleTeardown(w)
            <3>1. jobs' = jobs \/ \E s \in JobStatus : SetJob(wk[w].job, s)
                  BY <2>5 DEF Work, BuildFails, DestroyBegin, DestroySkip, RunPlan, RunApply,
                     RunDestroy, Record, Succeed, Disown, LoseJob, LoseDeployment, Fail,
                     WasRequeued, FailDeployment, Finish, Settle, StatementFails, SettleFails,
                     JobStatus
            <3>2. QED  BY <3>1 DEF HeldInv, SetJob, Queued, TypeOK
      <2>6. QED  BY <1>5, <2>1, <2>2, <2>3, <2>4, <2>5 DEF Worker
<1>6. CASE UNCHANGED vars  BY <1>6 DEF vars, Queued
<1>7. QED  BY <1>1, <1>2, <1>3, <1>4, <1>5, <1>6 DEF Next

(* What the deployments table keeps: hashes and approvals, and that a row    *)
(* is there.                                                                 *)
Keeps(d) ==
  /\ dep'[d].hash = dep[d].hash
  /\ dep[d].approved => dep'[d].approved
  /\ dep'[d].status = "none" => dep[d].status = "none"

(* The one exception: a worker records the hash of the plan it has run. *)
Hashes(w) ==
  LET j == wk[w].job
      d == JobDep[j]
  IN  /\ wk[w].pc = "record" /\ jobs[j].type = "plan"
      /\ dep' = [dep EXCEPT ![d].status = "awaiting_approval", ![d].hash = jobs[j].attempts]
      /\ \A v \in Workers : wk'[v].pc = IF v = w THEN "succeed" ELSE wk[v].pc
      /\ \A v \in Workers : wk'[v].job = wk[v].job
      /\ jobs' = jobs /\ saved' = saved

LEMMA MovedKeeps ==
  ASSUME TypeOK, NEW d \in Deps, NEW s \in Status, dep' = Moved(d, s), NEW e \in Deps
  PROVE  Keeps(e)
BY DEF TypeOK, DepRow, Moved, Keeps, Status

LEMMA DepSteps ==
  ASSUME TypeOK, [Next]_vars
  PROVE  (\A e \in Deps : Keeps(e)) \/ \E w \in Workers : Hashes(w)
<1> USE DEF tables
<1>1. CASE UNCHANGED dep  BY <1>1 DEF Keeps
<1>2. ASSUME NEW c \in Chats, Create(c)
      PROVE  \A e \in Deps : Keeps(e)
      BY <1>2 DEF Create, Keeps, TypeOK, DepRow
<1>3. ASSUME NEW d \in Deps, NEW h, Approve(d, h)
      PROVE  \A e \in Deps : Keeps(e)
      BY <1>3 DEF Approve, Keeps, TypeOK, DepRow
<1>4. ASSUME NEW r \in Requests, Request(r)
      PROVE  \A e \in Deps : Keeps(e)
      <2>1. CASE DestroyMark(r) \/ CancelWrite(r) \/ ResolveWrite(r)
            <3>1. req[r].dep \in Deps
                  BY <2>1 DEF TypeOK, DestroyMark, CancelWrite, ResolveWrite
            <3>2. \/ UNCHANGED dep
                  \/ \E s \in {"destroying", "cancelled"} : dep' = Moved(req[r].dep, s)
                  BY <2>1 DEF DestroyMark, CancelWrite, ResolveWrite
            <3>3. QED  BY <1>1, <3>1, <3>2, MovedKeeps DEF Status, Keeps
      <2>2. CASE ~(DestroyMark(r) \/ CancelWrite(r) \/ ResolveWrite(r))
            <3>1. UNCHANGED dep
                  BY <1>4, <2>2 DEF Request, DestroyRead, CancelRead, ResolveRead, DestroyQueue,
                     ResolveDrop, Abandon
            <3>2. QED  BY <3>1 DEF Keeps
      <2>3. QED  BY <2>1, <2>2
<1>5. ASSUME NEW w \in Workers, Work(w), ~Record(w)
      PROVE  \A e \in Deps : Keeps(e)
      <2> DEFINE d == JobDep[wk[w].job]
      <2>1. CASE DestroyBegin(w) \/ LoseDeployment(w) \/ FailDeployment(w)
            <3>1. d \in Deps /\ jobs[wk[w].job].type \in JobType
                  BY <2>1, JobInHand DEF DestroyBegin, LoseDeployment, FailDeployment, JobRow
            <3>2. FailedStatus(jobs[wk[w].job].type) \in Status
                  BY <3>1 DEF FailedStatus, JobType, Status
            <3>3. \/ UNCHANGED dep
                  \/ \E s \in {"destroying", "unknown", FailedStatus(jobs[wk[w].job].type)} :
                       dep' = Moved(d, s)
                  BY <2>1 DEF DestroyBegin, LoseDeployment, FailDeployment
            <3>4. CASE UNCHANGED dep  BY <3>4 DEF Keeps
            <3>5. ASSUME NEW s \in {"destroying", "unknown", FailedStatus(jobs[wk[w].job].type)},
                         dep' = Moved(d, s)
                  PROVE  \A e \in Deps : Keeps(e)
                  <4>1. s \in Status  BY <3>2 DEF Status
                  <4>2. QED  BY <3>1, <3>5, <4>1, MovedKeeps
            <3>6. QED  BY <3>3, <3>4, <3>5
      <2>2. CASE ~(DestroyBegin(w) \/ LoseDeployment(w) \/ FailDeployment(w))
            <3>1. UNCHANGED dep
                  BY <1>5, <2>2 DEF Work, BuildFails, DestroySkip, RunPlan, RunApply, RunDestroy,
                     Succeed, ScheduleTeardown, Disown, LoseJob, Fail, WasRequeued, Finish, Settle,
                     StatementFails, SettleFails
            <3>2. QED  BY <3>1 DEF Keeps
      <2>3. QED  BY <2>1, <2>2
<1>6. ASSUME NEW w \in Workers, Record(w)
      PROVE  (\A e \in Deps : Keeps(e)) \/ Hashes(w)
      <2> DEFINE j == wk[w].job
                 d == JobDep[j]
                 s == DoneStatus(jobs[j].type)
      <2>1. d \in Deps /\ jobs[j].type \in JobType
            BY <1>6, JobInHand DEF Record, JobRow
      <2>2. s \in Status /\ (s = "awaiting_approval" => jobs[j].type = "plan")
            BY <2>1 DEF DoneStatus, JobType, Status
      <2>3. \/ UNCHANGED dep
            \/ dep' = Moved(d, s)
            \/ /\ s = "awaiting_approval" /\ Goto(w, "succeed")
               /\ dep' = [dep EXCEPT ![d].status = s, ![d].hash = jobs[j].attempts]
            BY <1>6 DEF Record
      <2>4. CASE UNCHANGED dep  BY <2>4 DEF Keeps
      <2>5. CASE dep' = Moved(d, s)  BY <2>1, <2>2, <2>5, MovedKeeps
      <2>6. CASE /\ s = "awaiting_approval" /\ Goto(w, "succeed")
                 /\ dep' = [dep EXCEPT ![d].status = s, ![d].hash = jobs[j].attempts]
            <3>1. /\ wk[w].pc = "record" /\ jobs' = jobs /\ saved' = saved
                  BY <1>6 DEF Record, aws
            <3>2. \A v \in Workers : /\ wk'[v].pc = IF v = w THEN "succeed" ELSE wk[v].pc
                                     /\ wk'[v].job = wk[v].job
                  BY <2>6 DEF Goto, TypeOK
            <3>3. QED  BY <2>2, <2>6, <3>1, <3>2 DEF Hashes
      <2>7. QED  BY <2>3, <2>4, <2>5, <2>6
<1>7. ASSUME NEW w \in Workers, NEW j \in Jobs, Reconcile(w, j)
      PROVE  \A e \in Deps : Keeps(e)
      <2>1. JobDep[j] \in Deps  BY IdsAssumption
      <2>2. UNCHANGED dep \/ dep' = Moved(JobDep[j], "unknown")  BY <1>7 DEF Reconcile
      <2>3. QED  BY <2>1, <2>2, MovedKeeps DEF Status, Keeps
<1>8. ASSUME NEW w \in Workers, Worker(w)
      PROVE  (\A e \in Deps : Keeps(e)) \/ Hashes(w)
      <2>1. CASE (\E j \in Jobs : Claim(w, j)) \/ Reclaim(w) \/ Sweep(w) \/ Crash(w)
            BY <2>1 DEF Claim, Reclaim, Sweep, Crash, Keeps
      <2>2. QED  BY <1>5, <1>6, <1>7, <1>8, <2>1 DEF Worker
<1>9. QED
      BY <1>1, <1>2, <1>3, <1>4, <1>8 DEF Next, LoseWorkspace, vars

(* A plan file comes from a plan's run and from nowhere else. *)
LEMMA SavedSteps ==
  ASSUME TypeOK, [Next]_vars
  PROVE  \/ \A d \in Deps : saved'[d] \in {0, saved[d]}
         \/ \E w \in Workers : RunPlan(w)
<1> USE DEF tables, aws
<1>1. ASSUME NEW w \in Workers, Worker(w), ~RunPlan(w)
      PROVE  \A d \in Deps : saved'[d] \in {0, saved[d]}
      <2>1. CASE DestroySkip(w) \/ RunDestroy(w)
            BY <2>1 DEF DestroySkip, RunDestroy, TypeOK
      <2>2. CASE Finish(w) \/ Sweep(w)
            BY <2>2 DEF Finish, Sweep, TypeOK
      <2>3. CASE Work(w) /\ ~DestroySkip(w) /\ ~RunDestroy(w) /\ ~Finish(w)
            BY <1>1, <2>3 DEF Work, BuildFails, DestroyBegin, RunApply, Record, Succeed,
               ScheduleTeardown, Disown, LoseJob, LoseDeployment, Fail, WasRequeued,
               FailDeployment, Settle, StatementFails, SettleFails
      <2>4. CASE \/ Reclaim(w) \/ Crash(w)
                 \/ \E j \in Jobs : Claim(w, j) \/ Reconcile(w, j)
            BY <2>4 DEF Reclaim, Crash, Claim, Reconcile
      <2>5. QED  BY <1>1, <2>1, <2>2, <2>3, <2>4 DEF Worker
<1>2. ASSUME NEW d \in Deps, LoseWorkspace(d)
      PROVE  \A e \in Deps : saved'[e] \in {0, saved[e]}
      BY <1>2 DEF LoseWorkspace, TypeOK
<1>3. ASSUME \/ \E c \in Chats : Create(c)
             \/ \E d \in Deps : \E h \in 1..MaxAttempts : Approve(d, h)
             \/ \E r \in Requests : Request(r)
             \/ UNCHANGED vars
      PROVE  saved' = saved
      BY <1>3 DEF Create, Approve, Request, DestroyRead, CancelRead, ResolveRead, DestroyMark,
         DestroyQueue, CancelWrite, ResolveDrop, ResolveWrite, Abandon, vars
<1>4. QED  BY <1>1, <1>2, <1>3 DEF Next

(* A deployment has one plan job, and had none before it was created.       *)
PlanJobInv ==
  \A i \in Jobs : IsPlan(i) =>
    /\ dep[JobDep[i]].status # "none"
    /\ \A j \in Jobs : IsPlan(j) /\ JobDep[j] = JobDep[i] => i = j

(* Its hash is written once, when no run of its plan can follow any more;    *)
(* an apply is queued only for a hash, and with an approval.                 *)
HashInv ==
  /\ \A d \in Deps : dep[d].status = "none" => dep[d].hash = 0
  /\ \A j \in Jobs : IsPlan(j) /\ Open(j) => dep[JobDep[j]].hash = 0
  /\ \A j \in Jobs : Queued(j) /\ jobs[j].type = "apply" =>
       dep[JobDep[j]].approved /\ dep[JobDep[j]].hash # 0

(* The plan file is the one whose hash is recorded, or is about to be.      *)
SavedInv ==
  /\ \A d \in Deps : dep[d].hash # 0 => saved[d] \in {0, dep[d].hash}
  /\ \A w \in Workers : wk[w].pc = "record" /\ jobs[wk[w].job].type = "plan" =>
       saved[JobDep[wk[w].job]] \in {0, jobs[wk[w].job].attempts}

ApprovedInv == HeldInv /\ PlanJobInv /\ HashInv /\ SavedInv

LEMMA ApprovedInvSuffices == TypeOK /\ ApprovedInv => ApplyRunsApprovedPlan
<1> SUFFICES ASSUME TypeOK, ApprovedInv, NEW w \in Workers,
                    InTerraform(w, "apply"), CanApply(JobDep[wk[w].job])
             PROVE  LET d == JobDep[wk[w].job]
                    IN  dep[d].approved /\ dep[d].hash = saved[d]
    BY DEF ApplyRunsApprovedPlan
<1>1. wk[w].job \in Jobs /\ JobDep[wk[w].job] \in Deps
      BY JobInHand DEF InTerraform, Running
<1>2. Queued(wk[w].job) /\ jobs[wk[w].job].type = "apply"
      BY <1>1 DEF ApprovedInv, HeldInv, Queued, InTerraform
<1>3. QED  BY <1>1, <1>2 DEF ApprovedInv, HashInv, SavedInv, CanApply

(* A recorded hash is the first of its deployment, and nobody is left to run *)
(* the plan again.                                                           *)
LEMMA HashesOnce ==
  ASSUME TypeOK, ApprovedInv, NEW w \in Workers, Hashes(w)
  PROVE  LET d == JobDep[wk[w].job]
         IN  /\ wk[w].job \in Jobs /\ d \in Deps
             /\ IsPlan(wk[w].job)
             /\ dep[d].hash = 0
             /\ dep'[d].hash = jobs[wk[w].job].attempts
             /\ dep'[d].status # "none"
             /\ \A e \in Deps : e # d => dep'[e] = dep[e]
             /\ \A e \in Deps : dep'[e].approved = dep[e].approved
             /\ \A i \in Jobs : i = wk[w].job => ~Open(i)'
<1> DEFINE j == wk[w].job
           d == JobDep[j]
<1>1. j \in Jobs /\ d \in Deps /\ Busy(w)
      BY JobInHand DEF Hashes, Busy
<1>2. IsPlan(j)  BY <1>1 DEF ApprovedInv, HeldInv, Hashes, IsPlan, Queued
<1>3. dep[d].hash = 0  BY <1>1, <1>2 DEF ApprovedInv, HashInv, Open
<1>4. /\ dep'[d].hash = jobs[j].attempts
      /\ dep'[d].status # "none"
      /\ \A e \in Deps : e # d => dep'[e] = dep[e]
      /\ \A e \in Deps : dep'[e].approved = dep[e].approved
      BY <1>1 DEF Hashes, TypeOK, DepRow
<1>5. ASSUME NEW i \in Jobs, i = j
      PROVE  ~Open(i)'
      <2>1. jobs'[i].status # "pending"  BY <1>1, <1>5 DEF ApprovedInv, HeldInv, Hashes
      <2>2. \A v \in Workers : Busy(v)' => v # w /\ Busy(v) /\ wk'[v].job = wk[v].job
            BY DEF Hashes, Busy
      <2>3. \A v \in Workers : Busy(v)' => wk'[v].job # i
            BY <1>1, <1>5, <2>2 DEF ApprovedInv, HeldInv
      <2>4. QED  BY <2>1, <2>3 DEF Open
<1>6. QED  BY <1>1, <1>2, <1>3, <1>4, <1>5

LEMMA NextPlanJobInv ==
  ASSUME TypeOK, ApprovedInv, [Next]_vars
  PROVE  PlanJobInv'
<1>1. \A d \in Deps : dep'[d].status = "none" => dep[d].status = "none"
      BY DepSteps, HashesOnce DEF Keeps
<1>2. ASSUME NEW i \in Jobs, IsPlan(i)', ~IsPlan(i)
      PROVE  /\ dep[JobDep[i]].status = "none" /\ dep'[JobDep[i]].status # "none"
             /\ \E c \in Chats : Create(c) /\ JobDep[i] = NewDep(c)
      <2>1. ~Queued(i) /\ Queued(i)' /\ jobs'[i].type = "plan"
            BY <1>2, QueuedStays DEF IsPlan, ApprovedInv
      <2>2. PICK c \in Chats : Create(c) /\ JobDep[i] = NewDep(c)
            BY <2>1, NewRows DEF ApprovedInv
      <2>3. dep[JobDep[i]].status = "none" /\ JobDep[i] \in Deps
            BY <2>2, NewDepUnused DEF Create
      <2>4. dep'[JobDep[i]].status # "none"
            BY <2>2, <2>3 DEF Create, TypeOK, DepRow
      <2>5. QED  BY <2>2, <2>3, <2>4
<1>3. ASSUME NEW i \in Jobs, IsPlan(i)'
      PROVE  dep'[JobDep[i]].status # "none"
      BY <1>1, <1>2, <1>3, IdsAssumption DEF ApprovedInv, PlanJobInv
<1>4. ASSUME NEW i \in Jobs, NEW k \in Jobs, IsPlan(i)', IsPlan(k)', JobDep[k] = JobDep[i]
      PROVE  i = k
      <2>1. CASE IsPlan(i) /\ IsPlan(k)  BY <1>4, <2>1 DEF ApprovedInv, PlanJobInv
      <2>2. CASE IsPlan(i) /\ ~IsPlan(k)
            BY <1>2, <1>4, <2>2 DEF ApprovedInv, PlanJobInv
      <2>3. CASE ~IsPlan(i) /\ IsPlan(k)
            BY <1>2, <1>4, <2>3 DEF ApprovedInv, PlanJobInv
      <2>4. CASE ~IsPlan(i) /\ ~IsPlan(k)
            <3>1. PICK c \in Chats : Create(c) /\ JobDep[i] = NewDep(c)
                  BY <1>2, <1>4, <2>4
            <3>2. ~Queued(i) /\ ~Queued(k) /\ Queued(i)' /\ Queued(k)'
                  BY <1>4, <2>4, QueuedStays DEF IsPlan, ApprovedInv
            <3>3. \A j \in Jobs : j # NewJob(NewDep(c)) => jobs'[j] = jobs[j]
                  BY <3>1 DEF Create, Inserted, TypeOK
            <3>4. QED  BY <3>2, <3>3 DEF Queued
      <2>5. QED  BY <2>1, <2>2, <2>3, <2>4
<1>5. QED  BY <1>3, <1>4 DEF PlanJobInv

LEMMA NextHashInv ==
  ASSUME TypeOK, ApprovedInv, [Next]_vars
  PROVE  HashInv'
<1>1. ASSUME NEW d \in Deps, dep'[d].status = "none"
      PROVE  dep'[d].hash = 0
      BY <1>1, DepSteps, HashesOnce DEF Keeps, ApprovedInv, HashInv
<1>2. ASSUME NEW j \in Jobs, IsPlan(j)', Open(j)'
      PROVE  dep'[JobDep[j]].hash = 0
      <2>1. JobDep[j] \in Deps  BY IdsAssumption
      <2>2. dep[JobDep[j]].hash = 0
            <3>1. CASE Queued(j)
                  BY <1>2, <3>1, QueuedStays DEF IsPlan, ApprovedInv, HashInv
            <3>2. CASE ~Queued(j)
                  <4>1. PICK c \in Chats : Create(c) /\ JobDep[j] = NewDep(c)
                        BY <1>2, <3>2, NewRows DEF IsPlan, ApprovedInv
                  <4>2. dep[JobDep[j]].status = "none"
                        BY <4>1, NewDepUnused DEF Create
                  <4>3. QED  BY <2>1, <4>2 DEF ApprovedInv, HashInv
            <3>3. QED  BY <3>1, <3>2
      <2>3. CASE \A e \in Deps : Keeps(e)  BY <2>1, <2>2, <2>3 DEF Keeps
      <2>4. ASSUME NEW w \in Workers, Hashes(w)
            PROVE  dep'[JobDep[j]].hash = 0
            <3>1. CASE JobDep[j] # JobDep[wk[w].job]
                  BY <2>1, <2>2, <2>4, <3>1, HashesOnce
            <3>2. CASE JobDep[j] = JobDep[wk[w].job]
                  <4>1. IsPlan(j)  BY <1>2, <2>4 DEF IsPlan, Queued, Hashes
                  <4>2. j = wk[w].job
                        <5>1. wk[w].job \in Jobs /\ IsPlan(wk[w].job)
                              BY <2>4, HashesOnce
                        <5>2. QED  BY <3>2, <4>1, <5>1 DEF ApprovedInv, PlanJobInv
                  <4>3. QED  BY <1>2, <2>4, <4>2, HashesOnce
            <3>3. QED  BY <3>1, <3>2
      <2>5. QED  BY <2>3, <2>4, DepSteps
<1>3. ASSUME NEW j \in Jobs, Queued(j)', jobs'[j].type = "apply"
      PROVE  dep'[JobDep[j]].approved /\ dep'[JobDep[j]].hash # 0
      <2>1. JobDep[j] \in Deps  BY IdsAssumption
      <2>2. CASE Queued(j)
            <3>1. dep[JobDep[j]].approved /\ dep[JobDep[j]].hash # 0
                  BY <1>3, <2>2, QueuedStays DEF ApprovedInv, HashInv
            <3>2. CASE \A e \in Deps : Keeps(e)  BY <2>1, <3>1, <3>2 DEF Keeps
            <3>3. ASSUME NEW w \in Workers, Hashes(w)
                  PROVE  dep'[JobDep[j]].approved /\ dep'[JobDep[j]].hash # 0
                  BY <2>1, <3>1, <3>3, HashesOnce
            <3>4. QED  BY <3>2, <3>3, DepSteps
      <2>3. CASE ~Queued(j)
            <3>1. PICK h \in 1..MaxAttempts : Approve(JobDep[j], h)
                  BY <1>3, <2>3, NewRows DEF ApprovedInv
            <3>2. QED  BY <2>1, <3>1 DEF Approve, TypeOK, DepRow
      <2>4. QED  BY <2>2, <2>3
<1>4. QED  BY <1>1, <1>2, <1>3 DEF HashInv

(* The attempts of a job that somebody is busy with do not change, and what  *)
(* is to be recorded has just been run.                                      *)
LEMMA RecordsFollow ==
  ASSUME TypeOK, ApprovedInv, [Next]_vars, NEW v \in Workers, wk'[v].pc = "record"
  PROVE  /\ Busy(v) /\ wk'[v].job = wk[v].job
         /\ jobs'[wk[v].job].attempts = jobs[wk[v].job].attempts
         /\ jobs'[wk[v].job].type = jobs[wk[v].job].type
<1>1. CASE wk' = wk /\ (jobs' = jobs \/ Inserts)
      <2>1. Busy(v)  BY <1>1 DEF Busy
      <2>2. wk[v].job \in Jobs /\ jobs[wk[v].job].status # "none"
            BY <2>1, BusyJob DEF ApprovedInv, HeldInv
      <2>3. jobs'[wk[v].job] = jobs[wk[v].job]
            BY <1>1, <2>2, NewJobUnused DEF Inserts, Inserted, TypeOK
      <2>4. QED  BY <1>1, <2>1, <2>3
<1>2. ASSUME NEW r \in Requests, ResolveDrop(r)
      PROVE  /\ wk' = wk
             /\ \A j \in Jobs : /\ jobs'[j].attempts = jobs[j].attempts
                                /\ jobs'[j].type = jobs[j].type
      BY <1>2 DEF ResolveDrop, TypeOK, JobRow
<1>3. ASSUME NEW w \in Workers, Reclaim(w)
      PROVE  /\ wk'[v] = wk[v]
             /\ \A j \in Jobs : /\ jobs'[j].attempts = jobs[j].attempts
                                /\ jobs'[j].type = jobs[j].type
      BY <1>3 DEF Reclaim, Goto, TypeOK, JobRow
<1>4. ASSUME NEW w \in Workers, NEW i \in Jobs, Claim(w, i)
      PROVE  /\ wk'[v] = wk[v] /\ wk[v].job # i
             /\ \A j \in Jobs : j # i => jobs'[j] = jobs[j]
      <2>1. wk'[v] = wk[v] /\ \A j \in Jobs : j # i => jobs'[j] = jobs[j]
            BY <1>4 DEF Claim, TypeOK
      <2>2. Busy(v)  BY <2>1 DEF Busy
      <2>3. QED  BY <1>4, <2>1, <2>2 DEF Claim, Claimable, ApprovedInv, HeldInv
<1>5. ASSUME NEW w \in Workers, Proceeds(w)
      PROVE  /\ Busy(v) /\ wk'[v].job = wk[v].job
             /\ jobs'[wk[v].job].attempts = jobs[wk[v].job].attempts
             /\ jobs'[wk[v].job].type = jobs[wk[v].job].type
      <2>1. Busy(v) /\ wk'[v].job = wk[v].job
            BY <1>5 DEF Proceeds, Busy, Running
      <2>2. wk[v].job \in Jobs /\ jobs[wk[v].job].status # "none"
            BY <2>1, BusyJob DEF ApprovedInv, HeldInv
      <2>3. CASE jobs' = jobs  BY <2>1, <2>3
      <2>4. CASE Inserts
            BY <2>1, <2>2, <2>4, NewJobUnused DEF Inserts, Inserted, TypeOK
      <2>5. CASE Ends(w)
            BY <2>1, <2>2, <2>5 DEF Ends, SetJob, TypeOK, JobRow
      <2>6. QED  BY <1>5, <2>3, <2>4, <2>5 DEF Proceeds
<1>6. Busy(v)' => wk'[v].pc \in {"claimed", "destroy", "record", "fail"}  BY DEF Busy
<1>7. wk'[v] = wk[v] => Busy(v) /\ wk[v].job \in Jobs
      BY BusyJob DEF Busy
<1>8. QED  BY <1>1, <1>2, <1>3, <1>4, <1>5, <1>7, JobSteps

(* A plan is recorded by the worker that has just run it. *)
LEMMA RecordedPlan ==
  ASSUME TypeOK, [Next]_vars, NEW v \in Workers, wk'[v].pc = "record",
         wk[v].job \in Jobs, jobs[wk[v].job].type = "plan"
  PROVE  wk[v].pc = "record" \/ RunPlan(v)
<1> USE DEF tables
<1>1. CASE wk'[v] = wk[v]  BY <1>1
<1>2. CASE wk'[v] # wk[v]
      <2>1. \A c \in Chats : ~Create(c)  BY <1>2 DEF Create
      <2>2. \A d \in Deps : ~LoseWorkspace(d) /\ \A h \in 1..MaxAttempts : ~Approve(d, h)
            BY <1>2 DEF Approve, LoseWorkspace
      <2>3. \A r \in Requests : ~Request(r)
            BY <1>2 DEF Request, DestroyRead, CancelRead, ResolveRead, DestroyMark,
               DestroyQueue, CancelWrite, ResolveDrop, ResolveWrite, Abandon
      <2>4. PICK w \in Workers : Worker(w)
            BY <1>2, <2>1, <2>2, <2>3 DEF Next, vars
      <2>5. CASE w = v
            <3>1. CASE RunPlan(v) \/ RunApply(v) \/ RunDestroy(v)
                  BY <3>1 DEF RunApply, RunDestroy, InTerraform
            <3>2. CASE Work(v) /\ ~(RunPlan(v) \/ RunApply(v) \/ RunDestroy(v))
                  <4>1. CASE StatementFails(v)
                        <5>1. AfterFault(v) # "record"  BY <4>1 DEF StatementFails, AfterFault
                        <5>2. QED  BY <4>1, <5>1 DEF StatementFails, TypeOK
                  <4>2. CASE \/ BuildFails(v) \/ Finish(v) \/ Settle(v) \/ SettleFails(v)
                             \/ LoseJob(v) \/ Fail(v)
                        BY <4>2 DEF BuildFails, Finish, Settle, SettleFails, LoseJob, Fail,
                           IdleWorker, TypeOK
                  <4>3. CASE \/ DestroyBegin(v) \/ DestroySkip(v) \/ Record(v) \/ Succeed(v)
                             \/ ScheduleTeardown(v) \/ Disown(v) \/ LoseDeployment(v)
                             \/ WasRequeued(v) \/ FailDeployment(v)
                        <5>1. \E pc : pc # "record" /\ Goto(v, pc)
                              BY <4>3 DEF DestroyBegin, DestroySkip, Record, Succeed, Disown,
                                 ScheduleTeardown, LoseDeployment, WasRequeued, FailDeployment
                        <5>2. QED  BY <5>1 DEF Goto, TypeOK
                  <4>4. QED  BY <3>2, <4>1, <4>2, <4>3 DEF Work
            <3>3. CASE ~Work(v)
                  <4>1. ASSUME NEW j \in Jobs, Claim(v, j) \/ Reconcile(v, j)
                        PROVE  wk'[v].pc # "record"
                        BY <4>1 DEF Claim, Reconcile, Goto, TypeOK
                  <4>2. CASE Reclaim(v) \/ Crash(v)
                        BY <4>2 DEF Reclaim, Crash, Goto, IdleWorker, TypeOK
                  <4>3. CASE Sweep(v)
                        BY <1>2, <4>3 DEF Sweep
                  <4>4. QED  BY <2>4, <2>5, <3>3, <4>1, <4>2, <4>3 DEF Worker
            <3>4. QED  BY <3>1, <3>2, <3>3
      <2>6. CASE w # v
            <3>1. Proceeds(w) => wk'[v] = wk[v]  BY <2>6 DEF Proceeds
            <3>2. CASE Work(w)  BY <1>2, <3>1, <3>2, WorkProceeds
            <3>3. CASE ~Work(w)
                  BY <1>2, <2>4, <2>6, <3>3 DEF Worker, Claim, Reconcile, Reclaim, Sweep, Crash,
                     Goto, TypeOK
            <3>4. QED  BY <3>2, <3>3
      <2>7. QED  BY <2>5, <2>6
<1>3. QED  BY <1>1, <1>2

LEMMA NextSavedInv ==
  ASSUME TypeOK, ApprovedInv, [Next]_vars
  PROVE  SavedInv'
<1>1. ASSUME NEW w \in Workers, RunPlan(w)
      PROVE  SavedInv'
      <2> DEFINE j == wk[w].job
                 d == JobDep[j]
      <2>1. Busy(w) /\ j \in Jobs /\ d \in Deps /\ jobs[j].type = "plan"
            BY <1>1, JobInHand DEF RunPlan, InTerraform, Running, Busy
      <2>2. IsPlan(j) /\ dep[d].hash = 0
            BY <2>1 DEF ApprovedInv, HeldInv, HashInv, IsPlan, Queued, Open
      <2>3. /\ dep' = dep /\ jobs' = jobs
            /\ \A e \in Deps : e # d => saved'[e] = saved[e]
            BY <1>1 DEF RunPlan, tables, TypeOK
      <2>4. PICK out \in Outcome :
              /\ saved' = [saved EXCEPT ![d] = IF out = "ok" THEN jobs[j].attempts ELSE 0]
              /\ wk' = [wk EXCEPT ![w].out = out,
                          ![w].pc = IF out = "ok" THEN "record" ELSE AfterError(out)]
            BY <1>1 DEF RunPlan
      <2>5. /\ saved'[d] \in {0, jobs[j].attempts}
            /\ \A v \in Workers : v # w => wk'[v] = wk[v]
            /\ wk'[w].job = j
            BY <2>1, <2>4 DEF TypeOK
      <2>6. \A e \in Deps : dep'[e].hash # 0 => saved'[e] \in {0, dep'[e].hash}
            BY <2>2, <2>3 DEF ApprovedInv, SavedInv
      <2>7. ASSUME NEW v \in Workers, v # w, wk[v].pc = "record", jobs[wk[v].job].type = "plan"
            PROVE  JobDep[wk[v].job] \in Deps /\ JobDep[wk[v].job] # d
            <3>1. Busy(v) /\ wk[v].job \in Jobs /\ JobDep[wk[v].job] \in Deps
                  BY <2>7, JobInHand DEF Busy
            <3>2. IsPlan(wk[v].job)
                  BY <2>7, <3>1 DEF ApprovedInv, HeldInv, IsPlan, Queued
            <3>3. wk[v].job # j  BY <2>1, <2>7, <3>1 DEF ApprovedInv, HeldInv
            <3>4. QED  BY <2>1, <2>2, <3>1, <3>2, <3>3 DEF ApprovedInv, PlanJobInv
      <2>8. \A v \in Workers : wk'[v].pc = "record" /\ jobs'[wk'[v].job].type = "plan" =>
              saved'[JobDep[wk'[v].job]] \in {0, jobs'[wk'[v].job].attempts}
            BY <2>3, <2>5, <2>7 DEF ApprovedInv, SavedInv
      <2>9. QED  BY <2>6, <2>8 DEF SavedInv
<1>2. CASE \A d \in Deps : saved'[d] \in {0, saved[d]}
      <2>1. ASSUME NEW v \in Workers, wk'[v].pc = "record", jobs'[wk'[v].job].type = "plan"
            PROVE  saved'[JobDep[wk'[v].job]] \in {0, jobs'[wk'[v].job].attempts}
            <3>1. /\ Busy(v) /\ wk'[v].job = wk[v].job
                  /\ jobs'[wk[v].job].attempts = jobs[wk[v].job].attempts
                  /\ jobs[wk[v].job].type = "plan"
                  BY <2>1, RecordsFollow
            <3>2. wk[v].job \in Jobs /\ JobDep[wk[v].job] \in Deps
                  BY <3>1, BusyJob, IdsAssumption
            <3>3. wk[v].pc = "record" \/ RunPlan(v)
                  BY <2>1, <3>1, <3>2, RecordedPlan
            <3>4. CASE RunPlan(v)  BY <1>1, <2>1, <3>4 DEF SavedInv
            <3>5. CASE wk[v].pc = "record"
                  BY <1>2, <3>1, <3>2, <3>5 DEF ApprovedInv, SavedInv
            <3>6. QED  BY <3>3, <3>4, <3>5
      <2>2. ASSUME NEW d \in Deps, dep'[d].hash # 0
            PROVE  saved'[d] \in {0, dep'[d].hash}
            <3>1. CASE dep'[d].hash = dep[d].hash
                  BY <1>2, <2>2, <3>1 DEF ApprovedInv, SavedInv
            <3>2. ASSUME NEW w \in Workers, Hashes(w)
                  PROVE  saved'[d] \in {0, dep'[d].hash}
                  <4>1. CASE d # JobDep[wk[w].job]
                        BY <3>1, <3>2, <4>1, HashesOnce
                  <4>2. CASE d = JobDep[wk[w].job]
                        <5>1. dep'[d].hash = jobs[wk[w].job].attempts
                              BY <3>2, <4>2, HashesOnce
                        <5>2. saved[d] \in {0, jobs[wk[w].job].attempts}
                              BY <3>2, <4>2 DEF Hashes, ApprovedInv, SavedInv
                        <5>3. QED  BY <1>2, <5>1, <5>2
                  <4>3. QED  BY <4>1, <4>2
            <3>3. QED  BY <3>1, <3>2, DepSteps DEF Keeps
      <2>3. QED  BY <2>1, <2>2 DEF SavedInv
<1>3. QED  BY <1>1, <1>2, SavedSteps

LEMMA ApprovedInvHolds == Spec => []ApprovedInv
<1>1. Init => ApprovedInv
      BY IdsAssumption DEF Init, ApprovedInv, HeldInv, PlanJobInv, HashInv, SavedInv, IdleWorker,
         Busy, IsPlan, Queued, Open
<1>2. TypeOK /\ ApprovedInv /\ [Next]_vars => ApprovedInv'
      BY NextHeldInv, NextPlanJobInv, NextHashInv, NextSavedInv DEF ApprovedInv
<1>3. QED  BY <1>1, <1>2, TypeCorrect, PTL DEF Spec

(* An apply only ever runs, for a deployment somebody approved, the very     *)
(* plan file whose hash they were shown: also after retries, crashes, stalls *)
(* and a lost disk, for a plan is run only until its hash is recorded.       *)
THEOREM ApprovedPlanRuns == Spec => []ApplyRunsApprovedPlan
BY TypeCorrect, ApprovedInvHolds, ApprovedInvSuffices, PTL

-------------------------------------------------------------------------------
(* What a step does to one worker, one job, one deployment, one chat *)

(* Where a worker with a job in hand goes next, and when the jobs table is   *)
(* left alone.                                                               *)
Flow ==
  ({"claimed"} \X {"idle", "destroy", "skip", "record", "fail", "lost"})
    \cup ({"destroy"} \X {"record", "fail", "lost"})
    \cup ({"record"} \X {"succeed", "disown"})
    \cup ({"succeed"} \X {"schedule", "finish"})
    \cup ({"skip", "schedule", "disown", "lostdep", "failed"} \X {"finish"})
    \cup ({"lost"} \X {"lostdep"})
    \cup ({"fail"} \X {"requeued"})
    \cup ({"requeued"} \X {"finish", "failed"})
    \cup ({"finish"} \X {"idle", "settle"})
    \cup ({"settle"} \X {"idle"})

LEMMA RunLeads ==
  ASSUME TypeOK, NEW w \in Workers, RunPlan(w) \/ RunApply(w) \/ RunDestroy(w)
  PROVE  /\ \A v \in Workers \ {w} : wk'[v] = wk[v]
         /\ wk'[w].pc \in {"record", "fail", "lost"} /\ wk'[w].job = wk[w].job
<1>1. CASE Goto(w, "record")  BY <1>1 DEF Goto, TypeOK
<1>2. ASSUME NEW out \in Outcome, NEW pc \in {"record", "fail", "lost"},
             wk' = [wk EXCEPT ![w].out = out, ![w].pc = pc]
      PROVE  /\ \A v \in Workers \ {w} : wk'[v] = wk[v]
             /\ wk'[w].pc = pc /\ wk'[w].job = wk[w].job
      BY <1>2 DEF TypeOK
<1>3. \A out : AfterError(out) \in {"fail", "lost"}  BY DEF AfterError
<1>4. CASE RunPlan(w)
      <2>1. PICK out \in Outcome :
              wk' = [wk EXCEPT ![w].out = out,
                       ![w].pc = IF out = "ok" THEN "record" ELSE AfterError(out)]
            BY <1>4 DEF RunPlan
      <2>2. (IF out = "ok" THEN "record" ELSE AfterError(out)) \in {"record", "fail", "lost"}
            BY <1>3
      <2>3. QED  BY <1>2, <2>1, <2>2
<1>5. CASE RunApply(w) \/ RunDestroy(w)
      <2>1. \/ Goto(w, "record")
            \/ \E out \in Outcome : wk' = [wk EXCEPT ![w].out = out, ![w].pc = AfterError(out)]
            <3>1. CASE RunApply(w)  BY <3>1 DEF RunApply, Outcome
            <3>2. CASE RunDestroy(w)  BY <3>2 DEF RunDestroy, Outcome
            <3>3. QED  BY <1>5, <3>1, <3>2
      <2>2. QED  BY <1>1, <1>2, <1>3, <2>1
<1>6. QED  BY <1>4, <1>5

LEMMA WorkFlow ==
  ASSUME TypeOK, NEW w \in Workers, Work(w)
  PROVE  /\ \A v \in Workers \ {w} : wk'[v] = wk[v]
         /\ <<wk[w].pc, wk'[w].pc>> \in Flow
         /\ wk'[w].pc # "idle" => wk'[w].job = wk[w].job
         /\ wk'[w].pc \in {"destroy", "skip", "record", "fail", "lost", "succeed", "disown", "failed"}
              => jobs' = jobs
<1> USE DEF tables
<1>1. CASE BuildFails(w) \/ SettleFails(w) \/ Settle(w)
      BY <1>1 DEF BuildFails, SettleFails, Settle, IdleWorker, TypeOK, Flow
<1>2. CASE DestroyBegin(w) \/ Record(w) \/ WasRequeued(w)
      BY <1>2 DEF DestroyBegin, Record, WasRequeued, Goto, TypeOK, Flow
<1>3. CASE DestroySkip(w) \/ Succeed(w) \/ ScheduleTeardown(w) \/ Disown(w)
           \/ LoseDeployment(w) \/ FailDeployment(w)
      BY <1>3 DEF DestroySkip, Succeed, ScheduleTeardown, Disown, LoseDeployment,
         FailDeployment, Goto, TypeOK, Flow
<1>4. CASE LoseJob(w) \/ Fail(w)
      BY <1>4 DEF LoseJob, Fail, TypeOK, Flow
<1>5. CASE RunPlan(w) \/ RunApply(w) \/ RunDestroy(w)
      <2>1. wk[w].pc \in {"claimed", "destroy"} /\ jobs' = jobs
            BY <1>5 DEF RunPlan, RunApply, RunDestroy, InTerraform, Running
      <2>2. QED  BY <1>5, <2>1, RunLeads DEF Flow
<1>6. CASE Finish(w)
      <2>1. wk[w].pc = "finish" /\ (Goto(w, "settle") \/ wk' = [wk EXCEPT ![w] = IdleWorker])
            BY <1>6 DEF Finish, Goto
      <2>2. QED  BY <2>1 DEF Goto, IdleWorker, TypeOK, Flow
<1>7. CASE StatementFails(w)
      <2>1. /\ <<wk[w].pc, AfterFault(w)>> \in Flow /\ jobs' = jobs
            /\ wk' = [wk EXCEPT ![w].pc = AfterFault(w), ![w].out = "ok"]
            BY <1>7 DEF StatementFails, AfterFault, Flow
      <2>2. QED  BY <2>1 DEF TypeOK
<1>8. QED
      BY <1>1, <1>2, <1>3, <1>4, <1>5, <1>6, <1>7 DEF Work

(* Every step, seen from one worker. *)
LEMMA WorkerSteps ==
  ASSUME TypeOK, [Next]_vars, NEW v \in Workers
  PROVE  \/ wk'[v] = wk[v]
         \/ Work(v)
         \/ \E j \in Jobs : Claim(v, j)
         \/ /\ wk'[v].pc \in {"idle", "reconcile"}
            /\ Crash(v) \/ wk[v].pc \in {"idle", "reconcile"}
<1> USE DEF tables
<1>1. CASE \/ \E c \in Chats : Create(c)
           \/ \E d \in Deps : LoseWorkspace(d) \/ \E h \in 1..MaxAttempts : Approve(d, h)
           \/ UNCHANGED vars
      BY <1>1 DEF Create, LoseWorkspace, Approve, vars
<1>2. ASSUME NEW r \in Requests, Request(r)  PROVE wk' = wk
      BY <1>2 DEF Request, DestroyRead, CancelRead, ResolveRead, DestroyMark,
         DestroyQueue, CancelWrite, ResolveDrop, ResolveWrite, Abandon
<1>3. ASSUME NEW w \in Workers, Worker(w), w # v  PROVE wk'[v] = wk[v]
      <2>1. CASE Work(w)  BY <1>3, <2>1, WorkFlow
      <2>2. CASE ~Work(w)
            BY <1>3, <2>2 DEF Worker, Claim, Reconcile, Reclaim, Sweep, Crash, Goto, TypeOK
      <2>3. QED  BY <2>1, <2>2
<1>4. CASE Worker(v)
      <2>1. ASSUME NEW j \in Jobs, Reconcile(v, j)
            PROVE  wk[v].pc = "reconcile" /\ wk'[v].pc \in {"idle", "reconcile"}
            BY <2>1 DEF Reconcile, Goto, TypeOK
      <2>2. CASE Reclaim(v) \/ Crash(v)  BY <2>2 DEF Reclaim, Crash, Goto, IdleWorker, TypeOK
      <2>3. CASE Sweep(v)  BY <2>3 DEF Sweep
      <2>4. QED  BY <1>4, <2>1, <2>2, <2>3 DEF Worker
<1>5. QED  BY <1>1, <1>2, <1>3, <1>4 DEF Next

(* Every change of a job's status, and who may make it. *)
LEMMA JobStatusSteps ==
  ASSUME TypeOK, [Next]_vars, NEW j \in Jobs, jobs'[j].status # jobs[j].status
  PROVE  \/ jobs[j].status = "none" /\ jobs'[j].status = "pending"
         \/ /\ jobs[j].status = "pending" /\ jobs'[j].status = "failed"
            /\ \E r \in Requests : ResolveDrop(r)
         \/ /\ jobs[j].status = "pending" /\ jobs'[j].status = "running"
            /\ \E w \in Workers : Claim(w, j)
         \/ /\ IsStale(j) /\ jobs'[j].status = "unknown"
            /\ \E w \in Workers : Reclaim(w)
         \/ \E w \in Workers : Work(w) /\ wk[w].job = j /\ Ends(w)
<1>1. CASE wk' = wk /\ (jobs' = jobs \/ Inserts)
      BY <1>1, NewJobUnused DEF Inserts, Inserted, TypeOK
<1>2. ASSUME NEW r \in Requests, ResolveDrop(r)
      PROVE  jobs[j].status = "pending" /\ jobs'[j].status = "failed"
      BY <1>2 DEF ResolveDrop, TypeOK, JobRow
<1>3. ASSUME NEW w \in Workers, NEW i \in Jobs, Claim(w, i)
      PROVE  i = j /\ jobs[j].status = "pending" /\ jobs'[j].status = "running"
      BY <1>3 DEF Claim, Claimable, TypeOK, JobRow
<1>4. ASSUME NEW w \in Workers, Reclaim(w)
      PROVE  IsStale(j) /\ jobs'[j].status = "unknown"
      BY <1>4 DEF Reclaim, TypeOK, JobRow
<1>5. ASSUME NEW w \in Workers, Work(w)
      PROVE  \/ jobs[j].status = "none" /\ jobs'[j].status = "pending"
             \/ wk[w].job = j /\ Ends(w)
      <2>1. CASE Ends(w)  BY <2>1 DEF Ends, SetJob, TypeOK
      <2>2. CASE Inserts  BY <2>2, NewJobUnused DEF Inserts, Inserted, TypeOK
      <2>3. QED  BY <1>5, <2>1, <2>2, WorkProceeds DEF Proceeds
<1>6. ASSUME NEW r \in Requests, Request(r), ~ResolveDrop(r)
      PROVE  jobs[j].status = "none" /\ jobs'[j].status = "pending"
      <2>1. CASE DestroyQueue(r)
            <3>1. Inserts  BY <2>1 DEF DestroyQueue, Inserts, JobType, TypeOK
            <3>2. QED  BY <3>1, NewJobUnused DEF Inserts, Inserted, TypeOK
      <2>2. CASE ~DestroyQueue(r)
            BY <1>6, <2>2 DEF Request, DestroyRead, CancelRead, ResolveRead, DestroyMark,
               CancelWrite, ResolveWrite, Abandon, tables
      <2>3. QED  BY <2>1, <2>2
<1>7. ASSUME NEW w \in Workers, Worker(w)
      PROVE  \/ Work(w) \/ Reclaim(w) \/ \E i \in Jobs : Claim(w, i)
      BY <1>7 DEF Worker, Reconcile, Sweep, Crash, tables
<1>8. ASSUME NEW c \in Chats, Create(c)
      PROVE  wk' = wk /\ Inserts
      BY <1>8, NewDepUnused DEF Create, Inserts, JobType
<1>9. ASSUME NEW d \in Deps, NEW h, Approve(d, h)
      PROVE  wk' = wk /\ Inserts
      <2>1. UnusedJobs(d) # {}  BY <1>9 DEF Approve, Spare
      <2>2. QED  BY <1>9, <2>1 DEF Approve, Inserts, JobType
<1>10. QED
      BY <1>1, <1>2, <1>3, <1>4, <1>5, <1>6, <1>7, <1>8, <1>9 DEF Next, LoseWorkspace, vars, tables

(* Every change of a deployment's status, and who makes it. *)
LEMMA MovedStatus ==
  ASSUME TypeOK, NEW d \in Deps, NEW s, dep' = Moved(d, s), NEW e \in Deps
  PROVE  dep'[e].status = IF e = d THEN s
                          ELSE IF e \in Superseded(d, s) THEN "superseded" ELSE dep[e].status
BY DEF Moved, TypeOK, DepRow

RequestChanges(r, d) ==
  /\ req[r].dep = d
  /\ \/ DestroyMark(r) /\ dep'[d].status = "destroying"
     \/ (CancelWrite(r) \/ ResolveWrite(r)) /\ dep'[d].status = "cancelled"

Records(w) ==
  /\ Record(w)
  /\ dep'[JobDep[wk[w].job]].status = DoneStatus(jobs[wk[w].job].type)
  /\ wk' = [wk EXCEPT ![w].pc = "succeed"]

WorkChanges(w, d) ==
  /\ wk[w].job \in Jobs /\ JobDep[wk[w].job] = d
  /\ \/ DestroyBegin(w) /\ dep'[d].status = "destroying"
     \/ Records(w)
     \/ LoseDeployment(w) /\ dep'[d].status = "unknown"
     \/ FailDeployment(w) /\ dep'[d].status = FailedStatus(jobs[wk[w].job].type)

Supersedes(w, d) ==
  /\ Records(w) /\ jobs[wk[w].job].type = "apply"
  /\ ChatOf[JobDep[wk[w].job]] = ChatOf[d] /\ JobDep[wk[w].job] # d
  /\ dep[d].status = "applied" /\ dep'[d].status = "superseded"

StatusMove(d) ==
  \/ \E c \in Chats : Create(c) /\ d = NewDep(c) /\ dep'[d].status = "planning"
  \/ dep[d].status = "awaiting_approval" /\ dep'[d].status = "cancelled"
  \/ \E h \in 1..MaxAttempts : Approve(d, h) /\ dep'[d].status = "applying"
  \/ \E r \in Requests : RequestChanges(r, d)
  \/ \E w \in Workers : WorkChanges(w, d) \/ Supersedes(w, d)
  \/ \E w \in Workers, j \in Jobs :
       Reconcile(w, j) /\ JobDep[j] = d /\ dep'[d].status = "unknown"

LEMMA RecordMoves ==
  ASSUME TypeOK, NEW w \in Workers, Record(w), NEW d \in Deps,
         dep'[d].status # dep[d].status
  PROVE  WorkChanges(w, d) \/ Supersedes(w, d)
<1> DEFINE j == wk[w].job
           e == JobDep[j]
           s == DoneStatus(jobs[j].type)
<1>1. j \in Jobs /\ e \in Deps /\ jobs[j].type \in JobType
      BY JobInHand DEF Record, JobRow
<1>2. /\ Goto(w, "succeed")
      /\ \/ dep' = Moved(e, s)
         \/ s = "awaiting_approval" /\ dep' = [dep EXCEPT ![e].status = s, ![e].hash = jobs[j].attempts]
      BY DEF Record
<1>3. CASE s = "awaiting_approval" /\ dep' = [dep EXCEPT ![e].status = s, ![e].hash = jobs[j].attempts]
      <2>1. dep'[e].status = s /\ \A f \in Deps : f # e => dep'[f] = dep[f]
            BY <1>1, <1>3 DEF TypeOK, DepRow
      <2>2. QED  BY <1>1, <1>2, <2>1 DEF Records, WorkChanges, Goto
<1>4. CASE dep' = Moved(e, s)
      <2>1. dep'[e].status = s  BY <1>1, <1>4, MovedStatus
      <2>2. Records(w)  BY <1>2, <2>1 DEF Records, Goto
      <2>3. CASE d = e  BY <1>1, <2>2, <2>3 DEF WorkChanges
      <2>4. CASE d # e
            <3>1. d \in Superseded(e, s) /\ dep'[d].status = "superseded"
                  BY <1>1, <1>4, <2>4, MovedStatus
            <3>2. s = "applied" /\ ChatOf[d] = ChatOf[e] /\ dep[d].status = "applied"
                  BY <3>1 DEF Superseded, OfChat
            <3>3. jobs[j].type = "apply"  BY <1>1, <3>2 DEF DoneStatus, JobType
            <3>4. QED  BY <2>2, <2>4, <3>1, <3>2, <3>3 DEF Supersedes
      <2>5. QED  BY <2>3, <2>4
<1>5. QED  BY <1>2, <1>3, <1>4

LEMMA StatusMoves ==
  ASSUME TypeOK, [Next]_vars, NEW d \in Deps, dep'[d].status # dep[d].status
  PROVE  StatusMove(d)
<1> USE DEF tables
<1>1. ASSUME NEW c \in Chats, Create(c)
      PROVE  StatusMove(d)
      <2>1. dep'[d].status = IF d = NewDep(c) THEN "planning"
                             ELSE IF ChatOf[d] = c /\ dep[d].status = "awaiting_approval"
                                  THEN "cancelled" ELSE dep[d].status
            BY <1>1 DEF Create, TypeOK, DepRow
      <2>2. QED  BY <1>1, <2>1 DEF StatusMove
<1>2. ASSUME NEW e \in Deps, NEW h \in 1..MaxAttempts, Approve(e, h)
      PROVE  StatusMove(d)
      <2>1. dep'[d].status = IF d = e THEN "applying" ELSE dep[d].status
            BY <1>2 DEF Approve, TypeOK, DepRow
      <2>2. QED  BY <1>2, <2>1 DEF StatusMove
<1>3. ASSUME NEW r \in Requests, Request(r)
      PROVE  RequestChanges(r, d)
      <2>1. DestroyMark(r) \/ CancelWrite(r) \/ ResolveWrite(r)
            BY <1>3 DEF Request, DestroyRead, CancelRead, ResolveRead, DestroyQueue,
               ResolveDrop, Abandon
      <2>2. req[r].dep \in Deps
            BY <2>1 DEF TypeOK, DestroyMark, CancelWrite, ResolveWrite
      <2>3. \/ DestroyMark(r) /\ dep' = Moved(req[r].dep, "destroying")
            \/ (CancelWrite(r) \/ ResolveWrite(r)) /\ dep' = Moved(req[r].dep, "cancelled")
            BY <2>1 DEF DestroyMark, CancelWrite, ResolveWrite
      <2>4. Superseded(req[r].dep, "destroying") = {} /\ Superseded(req[r].dep, "cancelled") = {}
            BY DEF Superseded
      <2>5. QED  BY <2>2, <2>3, <2>4, MovedStatus DEF RequestChanges
<1>4. ASSUME NEW w \in Workers, Work(w)
      PROVE  WorkChanges(w, d) \/ Supersedes(w, d)
      <2> DEFINE j == wk[w].job
      <2>1. CASE Record(w)  BY <2>1, RecordMoves
      <2>2. CASE DestroyBegin(w) \/ LoseDeployment(w) \/ FailDeployment(w)
            <3>1. j \in Jobs /\ JobDep[j] \in Deps /\ jobs[j].type \in JobType
                  BY <2>2, JobInHand DEF DestroyBegin, LoseDeployment, FailDeployment, JobRow
            <3>2. \/ DestroyBegin(w) /\ dep' = Moved(JobDep[j], "destroying")
                  \/ LoseDeployment(w) /\ dep' = Moved(JobDep[j], "unknown")
                  \/ FailDeployment(w) /\ dep' = Moved(JobDep[j], FailedStatus(jobs[j].type))
                  BY <2>2 DEF DestroyBegin, LoseDeployment, FailDeployment
            <3>3. ASSUME NEW s \in {"destroying", "unknown", FailedStatus(jobs[j].type)}
                  PROVE  Superseded(JobDep[j], s) = {}
                  BY <3>1 DEF Superseded, FailedStatus, JobType
            <3>4. QED  BY <3>1, <3>2, <3>3, MovedStatus DEF WorkChanges
      <2>3. CASE ~(Record(w) \/ DestroyBegin(w) \/ LoseDeployment(w) \/ FailDeployment(w))
            BY <1>4, <2>3 DEF Work, BuildFails, DestroySkip, RunPlan, RunApply, RunDestroy,
               Succeed, ScheduleTeardown, Disown, LoseJob, Fail, WasRequeued, Finish, Settle,
               StatementFails, SettleFails
      <2>4. QED  BY <2>1, <2>2, <2>3
<1>5. ASSUME NEW w \in Workers, Worker(w), ~Work(w)
      PROVE  \E j \in Jobs : Reconcile(w, j) /\ JobDep[j] = d /\ dep'[d].status = "unknown"
      <2>1. PICK j \in Jobs : Reconcile(w, j)
            BY <1>5 DEF Worker, Claim, Reclaim, Sweep, Crash
      <2>2. dep' = Moved(JobDep[j], "unknown") /\ JobDep[j] \in Deps
            BY <2>1, IdsAssumption DEF Reconcile
      <2>3. Superseded(JobDep[j], "unknown") = {}  BY DEF Superseded
      <2>4. QED  BY <2>1, <2>2, <2>3, MovedStatus
<1>6. QED
      BY <1>1, <1>2, <1>3, <1>4, <1>5 DEF Next, StatusMove, LoseWorkspace, vars

(* Which step a worker can take where it stands. *)
LEMMA WorkAt ==
  ASSUME NEW w \in Workers, Work(w)
  PROVE  /\ wk[w].pc = "claimed" => \/ BuildFails(w) \/ DestroyBegin(w) \/ RunPlan(w)
                                    \/ RunApply(w) \/ StatementFails(w)
         /\ wk[w].pc = "destroy" => RunDestroy(w)
         /\ wk[w].pc = "skip" => DestroySkip(w)
         /\ wk[w].pc = "record" => Record(w) \/ StatementFails(w)
         /\ wk[w].pc = "succeed" => Succeed(w) \/ StatementFails(w)
         /\ wk[w].pc = "schedule" => ScheduleTeardown(w) \/ StatementFails(w)
         /\ wk[w].pc = "disown" => Disown(w) \/ StatementFails(w)
         /\ wk[w].pc = "lost" => LoseJob(w) \/ StatementFails(w)
         /\ wk[w].pc = "lostdep" => LoseDeployment(w) \/ StatementFails(w)
         /\ wk[w].pc = "fail" => Fail(w) \/ StatementFails(w)
         /\ wk[w].pc = "requeued" => WasRequeued(w) \/ StatementFails(w)
         /\ wk[w].pc = "failed" => FailDeployment(w) \/ StatementFails(w)
         /\ wk[w].pc = "finish" => Finish(w)
         /\ wk[w].pc = "settle" => Settle(w) \/ SettleFails(w)
BY DEF Work, BuildFails, DestroyBegin, DestroySkip, RunPlan, RunApply, RunDestroy, InTerraform,
   Running, Record, Succeed, ScheduleTeardown, Disown, LoseJob, LoseDeployment, Fail,
   WasRequeued, FailDeployment, Finish, Settle, StatementFails, SettleFails

LEMMA FaultLeads ==
  ASSUME TypeOK, NEW w \in Workers, StatementFails(w)
  PROVE  /\ wk'[w].pc = AfterFault(w)
         /\ "statement" \in Faults /\ faults' > 0
         /\ dep' = dep
BY DEF StatementFails, Fault, TypeOK, tables

(* How a worker comes to the statements that the invariants speak of. *)
LEMMA Arrivals ==
  ASSUME TypeOK, NEW w \in Workers, Work(w)
  PROVE  /\ wk'[w].pc = "succeed" => Records(w)
         /\ wk'[w].pc = "destroy" => DestroyBegin(w) /\ Accepts(JobDep[wk[w].job], "destroying")
                                     /\ dep' = Moved(JobDep[wk[w].job], "destroying")
         /\ wk'[w].pc = "schedule" => wk[w].pc = "succeed" /\ jobs[wk[w].job].type = "apply"
         /\ wk'[w].pc = "record" => RunPlan(w) \/ RunApply(w) \/ RunDestroy(w)
         /\ wk'[w].pc = "failed" =>
              \/ wk[w].pc = "requeued" /\ jobs[wk[w].job].status # "pending" /\ jobs' = jobs
              \/ "statement" \in Faults /\ faults' > 0
<1> DEFINE at == wk[w].pc
           to == wk'[w].pc
<1>0. <<at, to>> \in Flow  BY WorkFlow
<1>1. ASSUME to = "succeed"  PROVE Records(w)
      <2>1. at = "record"  BY <1>0, <1>1 DEF Flow
      <2>2. CASE Record(w)
            <3> DEFINE d == JobDep[wk[w].job]
                       s == DoneStatus(jobs[wk[w].job].type)
            <3>1. d \in Deps  BY <2>2, JobInHand DEF Record
            <3>2. \/ dep' = Moved(d, s) /\ Goto(w, "succeed")
                  \/ /\ dep' = [dep EXCEPT ![d].status = s, ![d].hash = jobs[wk[w].job].attempts]
                     /\ Goto(w, "succeed")
                  \/ Goto(w, "disown")
                  BY <2>2 DEF Record
            <3>3. ~Goto(w, "disown")  BY <1>1 DEF Goto, TypeOK
            <3>4. dep'[d].status = s
                  <4>1. CASE dep' = Moved(d, s)  BY <3>1, <4>1, MovedStatus
                  <4>2. CASE dep' = [dep EXCEPT ![d].status = s, ![d].hash = jobs[wk[w].job].attempts]
                        BY <3>1, <4>2 DEF TypeOK, DepRow
                  <4>3. QED  BY <3>2, <3>3, <4>1, <4>2
            <3>5. QED  BY <2>2, <3>2, <3>3, <3>4 DEF Records, Goto
      <2>3. QED  BY <1>1, <2>1, <2>2, WorkAt, FaultLeads DEF AfterFault
<1>2. ASSUME to = "destroy"
      PROVE  DestroyBegin(w) /\ Accepts(JobDep[wk[w].job], "destroying")
             /\ dep' = Moved(JobDep[wk[w].job], "destroying")
      <2>1. at = "claimed"  BY <1>0, <1>2 DEF Flow
      <2>2. CASE DestroyBegin(w)
            BY <1>2, <2>2 DEF DestroyBegin, Goto, TypeOK
      <2>3. ~StatementFails(w)  BY <1>2, <2>1, FaultLeads DEF AfterFault
      <2>4. ~BuildFails(w)  BY <1>2 DEF BuildFails, IdleWorker, TypeOK
      <2>5. CASE RunPlan(w) \/ RunApply(w)
            BY <1>2, <2>5, RunLeads
      <2>6. QED  BY <2>1, <2>2, <2>3, <2>4, <2>5, WorkAt
<1>3. ASSUME to = "schedule"  PROVE at = "succeed" /\ jobs[wk[w].job].type = "apply"
      <2>1. at = "succeed"  BY <1>0, <1>3 DEF Flow
      <2>2. CASE Succeed(w)  BY <1>3, <2>1, <2>2 DEF Succeed, Goto, TypeOK
      <2>3. CASE StatementFails(w)  BY <1>3, <2>1, <2>3, FaultLeads DEF AfterFault
      <2>4. QED  BY <2>1, <2>2, <2>3, WorkAt
<1>4. ASSUME to = "record"  PROVE RunPlan(w) \/ RunApply(w) \/ RunDestroy(w)
      <2>1. at \in {"claimed", "destroy"}  BY <1>0, <1>4 DEF Flow
      <2>2. ~StatementFails(w)
            <3>1. AfterFault(w) # "record"  BY <2>1 DEF AfterFault
            <3>2. QED  BY <1>4, <3>1, FaultLeads
      <2>3. ~BuildFails(w)  BY <1>4 DEF BuildFails, IdleWorker, TypeOK
      <2>4. ~DestroyBegin(w)  BY <1>4 DEF DestroyBegin, Goto, TypeOK
      <2>5. QED  BY <2>1, <2>2, <2>3, <2>4, WorkAt
<1>5. ASSUME to = "failed"
      PROVE  \/ at = "requeued" /\ jobs[wk[w].job].status # "pending" /\ jobs' = jobs
             \/ "statement" \in Faults /\ faults' > 0
      <2>1. at = "requeued"  BY <1>0, <1>5 DEF Flow
      <2>2. CASE WasRequeued(w)  BY <1>5, <2>1, <2>2 DEF WasRequeued, Goto, TypeOK, tables
      <2>3. QED  BY <2>1, <2>2, WorkAt, FaultLeads
<1>6. QED  BY <1>1, <1>2, <1>3, <1>4, <1>5

(* How a request comes to the statements that move or queue something. *)
LEMMA RequestSteps ==
  ASSUME TypeOK, [Next]_vars, NEW r \in Requests
  PROVE  \/ req'[r] = req[r]
         \/ req'[r].pc = "none"
         \/ \E d \in Deps : DestroyRead(r, d) /\ req'[r].pc = "destroy" /\ req'[r].dep = d
         \/ \E d \in Deps : CancelRead(r, d) /\ req'[r].pc = "cancel" /\ req'[r].dep = d
         \/ \E d \in Deps : ResolveRead(r, d) /\ req'[r].pc = "drop" /\ req'[r].dep = d
         \/ /\ req'[r].pc = "queue" /\ req'[r].dep = req[r].dep
            /\ req[r].dep \in Deps /\ dep'[req[r].dep].status = "destroying"
         \/ /\ req[r].pc = "drop" /\ req'[r].pc = "resolve" /\ req'[r].dep = req[r].dep
            /\ ResolveDrop(r)
<1> USE DEF tables
<1>1. ASSUME NEW q \in Requests, Request(q), q # r  PROVE req'[r] = req[r]
      BY <1>1 DEF Request, DestroyRead, CancelRead, ResolveRead, DestroyMark, DestroyQueue,
         CancelWrite, ResolveDrop, ResolveWrite, Abandon, Answer, TypeOK
<1>2. ASSUME NEW d \in Deps, DestroyRead(r, d) \/ CancelRead(r, d) \/ ResolveRead(r, d)
      PROVE  \/ DestroyRead(r, d) /\ req'[r].pc = "destroy" /\ req'[r].dep = d
             \/ CancelRead(r, d) /\ req'[r].pc = "cancel" /\ req'[r].dep = d
             \/ ResolveRead(r, d) /\ req'[r].pc = "drop" /\ req'[r].dep = d
      BY <1>2 DEF DestroyRead, CancelRead, ResolveRead, TypeOK
<1>3. CASE DestroyMark(r)
      <2>1. req[r].dep \in Deps  BY <1>3 DEF DestroyMark, TypeOK
      <2>2. CASE Accepts(req[r].dep, "destroying")
            <3>1. dep' = Moved(req[r].dep, "destroying") /\ req' = [req EXCEPT ![r].pc = "queue"]
                  BY <1>3, <2>2 DEF DestroyMark
            <3>2. dep'[req[r].dep].status = "destroying"  BY <2>1, <3>1, MovedStatus
            <3>3. req'[r].pc = "queue" /\ req'[r].dep = req[r].dep  BY <3>1 DEF TypeOK
            <3>4. QED  BY <2>1, <3>2, <3>3
      <2>3. CASE ~Accepts(req[r].dep, "destroying")
            BY <1>3, <2>3 DEF DestroyMark, Answer, NoRequest, TypeOK
      <2>4. QED  BY <2>2, <2>3
<1>4. CASE DestroyQueue(r) \/ CancelWrite(r) \/ ResolveWrite(r) \/ Abandon(r)
      BY <1>4 DEF DestroyQueue, CancelWrite, ResolveWrite, Abandon, Answer, NoRequest, TypeOK
<1>5. CASE ResolveDrop(r)
      <2>1. req[r].pc = "drop" /\ req' = [req EXCEPT ![r].pc = "resolve"]
            BY <1>5 DEF ResolveDrop
      <2>2. req'[r].pc = "resolve" /\ req'[r].dep = req[r].dep  BY <2>1 DEF TypeOK
      <2>3. QED  BY <1>5, <2>1, <2>2
<1>6. CASE Request(r)  BY <1>2, <1>3, <1>4, <1>5, <1>6 DEF Request
<1>7. ASSUME NEW w \in Workers, Worker(w)  PROVE req' = req
      <2>1. CASE Work(w)
            BY <2>1 DEF Work, BuildFails, DestroyBegin, DestroySkip, RunPlan, RunApply,
               RunDestroy, Record, Succeed, ScheduleTeardown, Disown, LoseJob, LoseDeployment,
               Fail, WasRequeued, FailDeployment, Finish, Settle, StatementFails, SettleFails
      <2>2. CASE ~Work(w)
            BY <1>7, <2>2 DEF Worker, Claim, Reconcile, Reclaim, Sweep, Crash
      <2>3. QED  BY <2>1, <2>2
<1>8. QED
      BY <1>1, <1>6, <1>7 DEF Next, Create, Approve, LoseWorkspace, vars

(* Terraform changes, or may have changed, what exists in chat c. *)
Touches(w, c) ==
  /\ wk[w].job \in Jobs /\ JobChat(wk[w].job) = c
  /\ \/ /\ InTerraform(w, "apply") /\ CanApply(JobDep[wk[w].job])
        /\ Touch(c, JobDep[wk[w].job])
     \/ /\ InTerraform(w, "destroy")
        /\ \E x \in {infra[c], Nothing} : Touch(c, x)
  /\ dep' = dep

LEMMA InterruptedTouches ==
  ASSUME TypeOK, NEW w \in Workers, InTerraform(w, jobs[wk[w].job].type),
         Interrupted(wk[w].job), dep' = dep
  PROVE  UNCHANGED <<infra, fresh>> \/ Touches(w, JobChat(wk[w].job))
<1>1. wk[w].job \in Jobs  BY JobInHand DEF InTerraform, Running
<1>2. QED  BY <1>1 DEF Interrupted, Touches, JobChat

(* Only a run and a lost process touch AWS, plan files change at these and   *)
(* at a few other points.                                                    *)
FileSteps(d) ==
  \/ saved'[d] = saved[d] /\ (d \in fresh' <=> d \in fresh)
  \/ \E w \in Workers : RunPlan(w) /\ JobDep[wk[w].job] = d
  \/ /\ saved'[d] \in {0, saved[d]}
     /\ d \in fresh' => d \in fresh
     /\ \/ \E w \in Workers : Touches(w, ChatOf[d])
        \/ \E w \in Workers : DestroySkip(w) /\ JobDep[wk[w].job] = d
        \/ \E w \in Workers : /\ Finish(w) /\ JobDep[wk[w].job] = d
                              /\ jobs[wk[w].job].type = "apply"
        \/ dep' = dep /\ dep[d].status \notin InFlight
  \/ \E e \in Deps : LoseWorkspace(e)

LEMMA AwsSteps ==
  ASSUME TypeOK, [Next]_vars
  PROVE  /\ infra' = infra \/ \E w \in Workers : Touches(w, JobChat(wk[w].job))
         /\ \A d \in Deps : FileSteps(d)
<1> USE DEF tables, aws
<1>1. CASE UNCHANGED aws  BY <1>1 DEF FileSteps
<1>2. ASSUME NEW d \in Deps, LoseWorkspace(d)
      PROVE  infra' = infra /\ \A e \in Deps : FileSteps(e)
      BY <1>2 DEF LoseWorkspace, FileSteps
<1>3. ASSUME NEW w \in Workers, RunPlan(w)
      PROVE  infra' = infra /\ \A e \in Deps : FileSteps(e)
      <2>1. infra' = infra /\ JobDep[wk[w].job] \in Deps
            BY <1>3, JobInHand DEF RunPlan, InTerraform, Running
      <2>2. \A e \in Deps : e # JobDep[wk[w].job] =>
              saved'[e] = saved[e] /\ (e \in fresh' <=> e \in fresh)
            BY <1>3 DEF RunPlan, TypeOK
      <2>3. FileSteps(JobDep[wk[w].job])  BY <1>3 DEF FileSteps
      <2>4. QED  BY <2>1, <2>2, <2>3 DEF FileSteps
<1>4. ASSUME NEW w \in Workers, Touches(w, JobChat(wk[w].job)),
             \A e \in Deps : saved'[e] = saved[e] \/ (saved'[e] = 0 /\ e = JobDep[wk[w].job])
      PROVE  \A e \in Deps : FileSteps(e)
      <2> SUFFICES ASSUME NEW e \in Deps PROVE FileSteps(e)  OBVIOUS
      <2>1. fresh' = fresh \ OfChat(JobChat(wk[w].job))  BY <1>4 DEF Touches, Touch
      <2>2. CASE e \in OfChat(JobChat(wk[w].job))
            <3>1. ChatOf[e] = JobChat(wk[w].job)  BY <2>2 DEF OfChat
            <3>2. QED  BY <1>4, <2>1, <3>1 DEF FileSteps
      <2>3. CASE e \notin OfChat(JobChat(wk[w].job))
            <3>1. e # JobDep[wk[w].job]  BY <2>3 DEF OfChat, JobChat
            <3>2. QED  BY <1>4, <2>1, <2>3, <3>1 DEF FileSteps
      <2>4. QED  BY <2>2, <2>3
<1>5. ASSUME NEW w \in Workers, RunApply(w) \/ RunDestroy(w)
      PROVE  /\ infra' = infra \/ Touches(w, JobChat(wk[w].job))
             /\ \A e \in Deps : FileSteps(e)
      <2> DEFINE j == wk[w].job
                 d == JobDep[j]
      <2>1. j \in Jobs /\ d \in Deps /\ dep' = dep /\ InTerraform(w, jobs[j].type)
            BY <1>5, JobInHand DEF RunApply, RunDestroy, InTerraform, Running
      <2>2. \A e \in Deps : saved'[e] = saved[e] \/ (saved'[e] = 0 /\ e = d)
            <3>1. RunApply(w) => saved' = saved  BY DEF RunApply
            <3>2. RunDestroy(w) => saved' = saved \/ saved' = [saved EXCEPT ![d] = 0]
                  BY DEF RunDestroy
            <3>3. saved' = saved \/ saved' = [saved EXCEPT ![d] = 0]  BY <1>5, <3>1, <3>2
            <3>4. QED  BY <3>3 DEF TypeOK
      <2>3. CASE Interrupted(j) /\ saved' = saved
            BY <1>1, <1>4, <2>1, <2>2, <2>3, InterruptedTouches
      <2>4. CASE ~(Interrupted(j) /\ saved' = saved)
            <3>1. Touches(w, JobChat(j))
                  <4>1. CASE RunApply(w)
                        BY <2>1, <2>4, <4>1 DEF RunApply, Touches, JobChat
                  <4>2. CASE RunDestroy(w)
                        <5>1. InTerraform(w, "destroy") /\ Touch(JobChat(j), Nothing)
                              BY <2>4, <4>2 DEF RunDestroy, JobChat
                        <5>2. QED  BY <2>1, <5>1 DEF Touches
                  <4>3. QED  BY <1>5, <4>1, <4>2
            <3>2. QED  BY <1>4, <2>2, <3>1
      <2>5. QED  BY <2>3, <2>4
<1>6. ASSUME NEW w \in Workers, Crash(w)
      PROVE  /\ infra' = infra \/ Touches(w, JobChat(wk[w].job))
             /\ \A e \in Deps : FileSteps(e)
      <2>1. saved' = saved /\ dep' = dep  BY <1>6 DEF Crash
      <2>2. \/ UNCHANGED <<infra, fresh>>
            \/ InTerraform(w, jobs[wk[w].job].type) /\ Interrupted(wk[w].job)
            BY <1>6 DEF Crash, InTerraform
      <2>3. CASE UNCHANGED <<infra, fresh>>  BY <1>1, <2>1, <2>3
      <2>4. CASE InTerraform(w, jobs[wk[w].job].type) /\ Interrupted(wk[w].job)
            <3>1. UNCHANGED <<infra, fresh>> \/ Touches(w, JobChat(wk[w].job))
                  BY <2>1, <2>4, InterruptedTouches
            <3>2. CASE Touches(w, JobChat(wk[w].job))  BY <1>4, <2>1, <3>2
            <3>3. QED  BY <2>3, <3>1, <3>2
      <2>5. QED  BY <2>2, <2>3, <2>4
<1>7. ASSUME NEW w \in Workers, DestroySkip(w)
      PROVE  infra' = infra /\ \A e \in Deps : FileSteps(e)
      <2>1. /\ infra' = infra /\ dep' = dep
            /\ \A e \in Deps : saved'[e] = IF e = JobDep[wk[w].job] THEN 0 ELSE saved[e]
            /\ fresh' = fresh \ {JobDep[wk[w].job]}
            BY <1>7 DEF DestroySkip, TypeOK
      <2>2. QED  BY <1>7, <2>1 DEF FileSteps
<1>8. ASSUME NEW w \in Workers, Finish(w)
      PROVE  infra' = infra /\ \A e \in Deps : FileSteps(e)
      <2> DEFINE used == IF jobs[wk[w].job].type = "apply" THEN {JobDep[wk[w].job]} ELSE {}
      <2>1. /\ infra' = infra
            /\ \A e \in Deps : saved'[e] = IF e \in used THEN 0 ELSE saved[e]
            /\ fresh' = fresh \ used
            BY <1>8 DEF Finish
      <2>2. \A e \in used : jobs[wk[w].job].type = "apply" /\ e = JobDep[wk[w].job]
            OBVIOUS
      <2> HIDE DEF used
      <2>3. QED  BY <1>8, <2>1, <2>2 DEF FileSteps
<1>9. ASSUME NEW w \in Workers, Sweep(w)
      PROVE  infra' = infra /\ \A e \in Deps : FileSteps(e)
      <2> DEFINE swept == {d \in Deps \ Retained : saved[d] # 0}
      <2>1. /\ infra' = infra /\ dep' = dep
            /\ \A e \in Deps : saved'[e] = IF e \in swept THEN 0 ELSE saved[e]
            /\ fresh' = fresh \ swept
            BY <1>9 DEF Sweep
      <2>2. \A e \in swept : dep[e].status \notin InFlight
            BY DEF Retained
      <2> HIDE DEF swept
      <2>3. QED  BY <2>1, <2>2 DEF FileSteps
<1>10. ASSUME NEW w \in Workers, Worker(w)
      PROVE  \/ UNCHANGED aws
             \/ \/ RunPlan(w) \/ RunApply(w) \/ RunDestroy(w) \/ Crash(w)
                \/ DestroySkip(w) \/ Finish(w) \/ Sweep(w)
      <2>1. CASE Work(w)
            BY <2>1 DEF Work, BuildFails, DestroyBegin, Record, Succeed, ScheduleTeardown,
               Disown, LoseJob, LoseDeployment, Fail, WasRequeued, FailDeployment, Settle,
               StatementFails, SettleFails
      <2>2. CASE ~Work(w)  BY <1>10, <2>2 DEF Worker, Claim, Reconcile, Reclaim
      <2>3. QED  BY <2>1, <2>2
<1>11. CASE \/ \E c \in Chats : Create(c)
            \/ \E d \in Deps : \E h \in 1..MaxAttempts : Approve(d, h)
            \/ \E r \in Requests : Request(r)
            \/ UNCHANGED vars
      <2>1. UNCHANGED aws
            BY <1>11 DEF Create, Approve, Request, DestroyRead, CancelRead, ResolveRead,
               DestroyMark, DestroyQueue, CancelWrite, ResolveDrop, ResolveWrite, Abandon, vars
      <2>2. QED  BY <1>1, <2>1
<1>12. QED
      BY <1>1, <1>2, <1>3, <1>5, <1>6, <1>7, <1>8, <1>9, <1>10, <1>11 DEF Next

-------------------------------------------------------------------------------
(* What the later invariants rest on *)

(* The job of a worker that has yet to settle it is running: nothing but     *)
(* this worker takes it out of that state while no worker stalls.            *)
Unsettled(w) ==
  wk[w].pc \in {"claimed", "destroy", "skip", "record", "succeed", "disown", "fail", "lost"}

RunningInv == \A w \in Workers : Unsettled(w) => jobs[wk[w].job].status = "running"

LEMMA NextRunningInv ==
  ASSUME TypeOK, ClaimInv, RunningInv, ~Stalls, [Next]_vars
  PROVE  RunningInv'
<1> SUFFICES ASSUME NEW w \in Workers, Unsettled(w)'
             PROVE  jobs'[wk'[w].job].status = "running"
    BY DEF RunningInv
<1>1. CASE wk'[w] = wk[w]
      <2> DEFINE j == wk[w].job
      <2>1. Unsettled(w)  BY <1>1 DEF Unsettled
      <2>2. j \in Jobs /\ j # NoJob /\ jobs[j].status = "running"
            BY <2>1, JobInHand, IdsAssumption DEF Unsettled, RunningInv
      <2>3. ~IsStale(j)  BY DEF IsStale, Handles
      <2>4. ASSUME NEW u \in Workers, Work(u), wk[u].job = j
            PROVE  FALSE
            <3>1. u = w  BY <2>2, <2>4 DEF ClaimInv
            <3>2. QED  BY <1>1, <2>1, <2>4, <3>1, WorkFlow DEF Flow, Unsettled
      <2>5. jobs'[j].status = jobs[j].status
            BY <2>2, <2>3, <2>4, JobStatusSteps
      <2>6. QED  BY <1>1, <2>2, <2>5
<1>2. CASE Work(w)
      BY <1>2, WorkFlow DEF Flow, Unsettled, RunningInv
<1>3. ASSUME NEW j \in Jobs, Claim(w, j)
      PROVE  jobs'[wk'[w].job].status = "running"
      BY <1>3 DEF Claim, TypeOK, JobRow
<1>4. QED  BY <1>1, <1>2, <1>3, WorkerSteps DEF Unsettled

(* Two workers that have yet to settle their jobs work for different chats. *)
LEMMA OneUnsettled ==
  ASSUME TypeOK, ClaimInv, RunningInv, NEW v \in Workers, NEW w \in Workers,
         Unsettled(v), Unsettled(w), JobChat(wk[v].job) = JobChat(wk[w].job)
  PROVE  v = w
<1>1. wk[v].job \in Jobs /\ wk[w].job \in Jobs /\ wk[v].job # NoJob
      BY JobInHand, IdsAssumption DEF Unsettled
<1>2. wk[v].job = wk[w].job  BY <1>1 DEF ClaimInv, RunningInv
<1>3. QED  BY <1>1, <1>2 DEF ClaimInv

(* Once a deployment has left the early statuses it does not come back, and  *)
(* neither does one whose apply is over.                                     *)
Early == {"none", "planning", "awaiting_approval"}
Begun(d) == dep[d].status \notin Early
PastApply(d) == dep[d].status \notin Early \cup {"applying"}

BegunAfter(d) == dep'[d].status \notin Early
PastApplyAfter(d) == dep'[d].status \notin Early \cup {"applying"}

LEMMA TransitionsLeave ==
  ASSUME NEW from, NEW to, CanTransition(from, to)
  PROVE  /\ from # "none" /\ to # "planning" /\ to # "none"
         /\ to = "awaiting_approval" => from = "planning"
         /\ to = "applying" => from = "awaiting_approval"
         /\ from = "applying" => to \in {"applied", "apply_failed", "unknown"}
BY DEF CanTransition, allowedTransitions

LEMMA BegunStays ==
  ASSUME TypeOK, OnePerChat, [Next]_vars, NEW d \in Deps
  PROVE  /\ Begun(d) => BegunAfter(d)
         /\ PastApply(d) => PastApplyAfter(d)
<1>1. \/ dep'[d].status = dep[d].status
      \/ CanTransition(dep[d].status, dep'[d].status)
      \/ dep[d].status = "none" /\ dep'[d].status = "planning"
      BY StepsAreLegal DEF LegalStep
<1>2. QED
      BY <1>1, TransitionsLeave DEF Begun, BegunAfter, PastApply, PastApplyAfter, Early

(* The job of a worker is queued, and keeps its type. *)
LEMMA HeldJob ==
  ASSUME TypeOK, HeldInv, [Next]_vars, NEW w \in Workers,
         wk[w].pc \notin {"idle", "reconcile"}
  PROVE  /\ wk[w].job \in Jobs /\ JobDep[wk[w].job] \in Deps
         /\ Queued(wk[w].job)
         /\ jobs'[wk[w].job].type = jobs[wk[w].job].type
         /\ jobs[wk[w].job].type \in JobType
<1>1. wk[w].job \in Jobs /\ JobDep[wk[w].job] \in Deps /\ jobs[wk[w].job].type \in JobType
      BY JobInHand DEF JobRow
<1>2. PICK j \in Jobs : j = wk[w].job  BY <1>1
<1>3. Queued(j)  BY <1>1, <1>2 DEF HeldInv, Queued
<1>4. jobs'[j].type = jobs[j].type  BY <1>3, QueuedStays
<1>5. QED  BY <1>1, <1>2, <1>3, <1>4

(* An apply is queued when its deployment has been approved, a destroy when  *)
(* its apply is over; so is one that a request is about to destroy or has    *)
(* found resolvable.                                                         *)
ApplyRecorded(w) ==
  wk[w].pc = "schedule" \/ (wk[w].pc = "succeed" /\ jobs[wk[w].job].type = "apply")

PastInv ==
  /\ \A j \in Jobs : Queued(j) /\ jobs[j].type = "apply" => Begun(JobDep[j])
  /\ \A j \in Jobs : Queued(j) /\ jobs[j].type = "destroy" => PastApply(JobDep[j])
  /\ \A r \in Requests : req[r].pc \in {"queue", "drop", "resolve"} => PastApply(req[r].dep)
  /\ \A w \in Workers : ApplyRecorded(w) => PastApply(JobDep[wk[w].job])

LEMMA NextPastInv ==
  ASSUME TypeOK, OnePerChat, HeldInv, PastInv, [Next]_vars
  PROVE  PastInv'
<1>1. ASSUME NEW j \in Jobs, Queued(j)', jobs'[j].type = "apply"
      PROVE  BegunAfter(JobDep[j])
      <2>1. JobDep[j] \in Deps  BY IdsAssumption
      <2>2. CASE Queued(j)
            BY <1>1, <2>1, <2>2, QueuedStays, BegunStays DEF PastInv
      <2>3. CASE ~Queued(j)
            <3>1. PICK h \in 1..MaxAttempts : Approve(JobDep[j], h)
                  BY <1>1, <2>3, NewRows
            <3>2. dep'[JobDep[j]].status = "applying"
                  BY <2>1, <3>1 DEF Approve, TypeOK, DepRow
            <3>3. QED  BY <3>2 DEF BegunAfter, Early
      <2>4. QED  BY <2>2, <2>3
<1>2. ASSUME NEW j \in Jobs, Queued(j)', jobs'[j].type = "destroy"
      PROVE  PastApplyAfter(JobDep[j])
      <2>1. JobDep[j] \in Deps  BY IdsAssumption
      <2>2. CASE Queued(j)
            BY <1>2, <2>1, <2>2, QueuedStays, BegunStays DEF PastInv
      <2>3. CASE ~Queued(j)
            <3>1. \/ \E r \in Requests : DestroyQueue(r) /\ JobDep[j] = req[r].dep
                  \/ \E w \in Workers : ScheduleTeardown(w) /\ JobDep[j] = JobDep[wk[w].job]
                  BY <1>2, <2>3, NewRows
            <3>2. PastApply(JobDep[j])
                  BY <3>1 DEF PastInv, DestroyQueue, ScheduleTeardown, ApplyRecorded
            <3>3. QED  BY <2>1, <3>2, BegunStays
      <2>4. QED  BY <2>2, <2>3
<1>3. ASSUME NEW r \in Requests, req'[r].pc \in {"queue", "drop", "resolve"}
      PROVE  PastApplyAfter(req'[r].dep)
      <2>1. CASE req'[r] = req[r] \/ (req[r].pc = "drop" /\ req'[r].dep = req[r].dep)
            <3>1. req[r].dep \in Deps /\ req[r].pc \in {"queue", "drop", "resolve"}
                  BY <1>3, <2>1 DEF TypeOK
            <3>2. QED  BY <2>1, <3>1, BegunStays DEF PastInv
      <2>2. ASSUME NEW d \in Deps, ResolveRead(r, d), req'[r].dep = d
            PROVE  PastApplyAfter(d)
            <3>1. PastApply(d)
                  BY <2>2 DEF ResolveRead, Resolvable, PastApply, Early
            <3>2. QED  BY <2>2, <3>1, BegunStays
      <2>3. CASE /\ req'[r].dep = req[r].dep
                 /\ req[r].dep \in Deps /\ dep'[req[r].dep].status = "destroying"
            BY <2>3 DEF PastApplyAfter, Early
      <2>4. \/ req'[r] = req[r] \/ (req[r].pc = "drop" /\ req'[r].dep = req[r].dep)
            \/ \E d \in Deps : ResolveRead(r, d) /\ req'[r].dep = d
            \/ /\ req'[r].dep = req[r].dep
               /\ req[r].dep \in Deps /\ dep'[req[r].dep].status = "destroying"
            BY <1>3, RequestSteps
      <2>5. QED  BY <2>1, <2>2, <2>3, <2>4
<1>4. ASSUME NEW w \in Workers, ApplyRecorded(w)'
      PROVE  PastApplyAfter(JobDep[wk'[w].job])
      <2>1. CASE wk'[w] = wk[w]
            <3>1. wk[w].pc \in {"schedule", "succeed"}
                  BY <1>4, <2>1 DEF ApplyRecorded
            <3>2. ApplyRecorded(w) /\ JobDep[wk[w].job] \in Deps
                  BY <1>4, <2>1, <3>1, HeldJob DEF ApplyRecorded
            <3>3. QED  BY <2>1, <3>2, BegunStays DEF PastInv
      <2>2. CASE Work(w)
            <3>1. /\ wk'[w].job = wk[w].job
                  /\ wk[w].pc \in {"record", "succeed"}
                  BY <1>4, <2>2, WorkFlow DEF ApplyRecorded, Flow
            <3>2. JobDep[wk[w].job] \in Deps /\ jobs'[wk[w].job].type = jobs[wk[w].job].type
                  BY <3>1, HeldJob
            <3>3. CASE wk'[w].pc = "schedule"
                  <4>1. ApplyRecorded(w)  BY <2>2, <3>3, Arrivals DEF ApplyRecorded
                  <4>2. QED  BY <3>1, <3>2, <4>1, BegunStays DEF PastInv
            <3>4. CASE wk'[w].pc = "succeed" /\ jobs[wk[w].job].type = "apply"
                  <4>1. dep'[JobDep[wk[w].job]].status = "applied"
                        BY <2>2, <3>4, Arrivals DEF Records, DoneStatus
                  <4>2. QED  BY <3>1, <4>1 DEF PastApplyAfter, Early
            <3>5. QED  BY <1>4, <3>1, <3>2, <3>3, <3>4 DEF ApplyRecorded
      <2>3. ASSUME NEW j \in Jobs, Claim(w, j)  PROVE FALSE
            BY <1>4, <2>3 DEF Claim, ApplyRecorded, TypeOK
      <2>4. QED  BY <1>4, <2>1, <2>2, <2>3, WorkerSteps DEF ApplyRecorded
<1>5. QED  BY <1>1, <1>2, <1>3, <1>4 DEF PastInv, PastApply, PastApplyAfter, Begun, BegunAfter

(* One apply is ever queued for a deployment. *)
IsApply(j) == Queued(j) /\ jobs[j].type = "apply"

ApplyJobInv ==
  \A i, j \in Jobs : IsApply(i) /\ IsApply(j) /\ JobDep[i] = JobDep[j] => i = j

LEMMA NextApplyJobInv ==
  ASSUME TypeOK, HeldInv, PastInv, ApplyJobInv, [Next]_vars
  PROVE  ApplyJobInv'
<1>1. ASSUME NEW i \in Jobs, IsApply(i)', ~IsApply(i)
      PROVE  /\ ~Queued(i) /\ Queued(i)' /\ ~Begun(JobDep[i])
             /\ \E h : Approve(JobDep[i], h)
      <2>1. ~Queued(i) /\ Queued(i)'  BY <1>1, QueuedStays DEF IsApply
      <2>2. PICK h \in 1..MaxAttempts : Approve(JobDep[i], h)
            BY <1>1, <2>1, NewRows DEF IsApply
      <2>3. QED  BY <2>1, <2>2 DEF Approve, Begun, Early
<1>2. ASSUME NEW i \in Jobs, NEW j \in Jobs, IsApply(i)', IsApply(j)', JobDep[i] = JobDep[j]
      PROVE  i = j
      <2>1. CASE IsApply(i) /\ IsApply(j)  BY <1>2, <2>1 DEF ApplyJobInv
      <2>2. CASE IsApply(i) /\ ~IsApply(j)  BY <1>1, <1>2, <2>2 DEF PastInv, IsApply
      <2>3. CASE ~IsApply(i) /\ IsApply(j)  BY <1>1, <1>2, <2>3 DEF PastInv, IsApply
      <2>4. CASE ~IsApply(i) /\ ~IsApply(j)
            <3>1. PICK h : Approve(JobDep[i], h)  BY <1>1, <1>2, <2>4
            <3>2. /\ ~Queued(i) /\ ~Queued(j) /\ Queued(i)' /\ Queued(j)'
                  BY <1>1, <1>2, <2>4
            <3>3. \A k \in Jobs : k # NewJob(JobDep[i]) => jobs'[k] = jobs[k]
                  BY <3>1 DEF Approve, Inserted, TypeOK
            <3>4. QED  BY <3>2, <3>3 DEF Queued
      <2>5. QED  BY <2>1, <2>2, <2>3, <2>4
<1>3. QED  BY <1>2 DEF ApplyJobInv

(* Nobody takes up a job again once its run has been settled one way or the  *)
(* other.                                                                    *)
Over(w) == wk[w].pc \in {"succeed", "schedule", "disown", "lost", "lostdep"}

OverInv == \A w \in Workers : Over(w) => ~Open(wk[w].job)

LEMMA NextOverInv ==
  ASSUME TypeOK, HeldInv, OverInv, [Next]_vars
  PROVE  OverInv'
<1> SUFFICES ASSUME NEW w \in Workers, Over(w)'
             PROVE  \E j \in Jobs : j = wk'[w].job /\ ~Open(j)'
    BY DEF OverInv, Open
<1>1. ASSUME Over(w), wk'[w].job = wk[w].job
      PROVE  \E j \in Jobs : j = wk'[w].job /\ ~Open(j)'
      <2>1. PICK j \in Jobs : j = wk[w].job /\ Queued(j)
            BY <1>1, HeldJob DEF Over
      <2>2. ~Open(j)  BY <1>1, <2>1 DEF OverInv
      <2>3. QED  BY <1>1, <2>1, <2>2, QueuedStays
<1>2. CASE Work(w)
      <2>1. wk'[w].job = wk[w].job  BY <1>2, WorkFlow DEF Over
      <2>2. CASE Over(w)  BY <1>1, <2>1, <2>2
      <2>3. CASE ~Over(w)
            <3>1. Busy(w) /\ ~Busy(w)' /\ jobs' = jobs /\ \A v \in Workers \ {w} : wk'[v] = wk[v]
                  BY <1>2, <2>3, WorkFlow DEF Flow, Over, Busy
            <3>2. PICK j \in Jobs : j = wk[w].job  BY <3>1, BusyJob
            <3>3. jobs'[j].status # "pending"  BY <3>1, <3>2 DEF HeldInv
            <3>4. ASSUME NEW v \in Workers, Busy(v)', wk'[v].job = j  PROVE FALSE
                  <4>1. v # w /\ Busy(v) /\ wk[v].job = j  BY <3>1, <3>4 DEF Busy
                  <4>2. QED  BY <3>1, <3>2, <4>1 DEF HeldInv
            <3>5. QED  BY <2>1, <3>2, <3>3, <3>4 DEF Open
      <2>4. QED  BY <2>2, <2>3
<1>3. CASE wk'[w] = wk[w]  BY <1>1, <1>3 DEF Over
<1>4. ASSUME NEW j \in Jobs, Claim(w, j)  PROVE FALSE
      BY <1>4 DEF Claim, Over, TypeOK
<1>5. QED  BY <1>2, <1>3, <1>4, WorkerSteps DEF Over

(* A hash is recorded before it is shown, a claim counts as an attempt, and  *)
(* a lost plan leaves no hash.                                               *)
HashedInv ==
  /\ \A d \in Deps : dep[d].status \in {"awaiting_approval", "applying"} => dep[d].hash # 0
  /\ \A w \in Workers : Busy(w) => jobs[wk[w].job].attempts # 0
  /\ \A w \in Workers : wk[w].pc \in {"lost", "lostdep"} /\ jobs[wk[w].job].type = "plan" =>
       dep[JobDep[wk[w].job]].hash = 0

LEMMA AttemptsGrow ==
  ASSUME TypeOK, [Next]_vars, NEW j \in Jobs, Queued(j)
  PROVE  jobs'[j].attempts >= jobs[j].attempts
<1> USE DEF TypeOK, JobRow
<1>1. CASE Inserts  BY <1>1, NewJobUnused DEF Inserts, Inserted, Queued
<1>2. ASSUME NEW r \in Requests, ResolveDrop(r)
      PROVE  jobs'[j].attempts >= jobs[j].attempts
      BY <1>2 DEF ResolveDrop
<1>3. ASSUME NEW w \in Workers, Reclaim(w)
      PROVE  jobs'[j].attempts >= jobs[j].attempts
      BY <1>3 DEF Reclaim
<1>4. ASSUME NEW w \in Workers, NEW i \in Jobs, Claim(w, i)
      PROVE  jobs'[j].attempts >= jobs[j].attempts
      BY <1>4 DEF Claim
<1>5. ASSUME NEW w \in Workers, Ends(w)
      PROVE  jobs'[j].attempts >= jobs[j].attempts
      BY <1>5 DEF Ends, SetJob
<1>6. CASE jobs' = jobs  BY <1>6
<1>7. QED  BY <1>1, <1>2, <1>3, <1>4, <1>5, <1>6, JobSteps DEF Proceeds

(* A deployment comes to wait for approval when its plan's worker records it. *)
LEMMA AwaitedBy ==
  ASSUME TypeOK, OnePerChat, [Next]_vars, NEW d \in Deps,
         dep'[d].status = "awaiting_approval", dep[d].status # "awaiting_approval"
  PROVE  \E w \in Workers : Hashes(w) /\ JobDep[wk[w].job] = d /\ dep[d].status = "planning"
<1>0. dep[d].status = "planning"
      BY StepsAreLegal, TransitionsLeave DEF LegalStep
<1>1. PICK w \in Workers : WorkChanges(w, d) /\ Records(w)
      <2>1. StatusMove(d)  BY StatusMoves
      <2>2. ASSUME NEW w \in Workers, FailDeployment(w), wk[w].job \in Jobs
            PROVE  FailedStatus(jobs[wk[w].job].type) # "awaiting_approval"
            BY <2>2 DEF TypeOK, JobRow, JobType, FailedStatus
      <2>3. QED  BY <2>1, <2>2 DEF StatusMove, RequestChanges, WorkChanges, Supersedes
<1>2. wk[w].job \in Jobs /\ JobDep[wk[w].job] = d /\ jobs[wk[w].job].type \in JobType
      BY <1>1 DEF WorkChanges, TypeOK, JobRow
<1>3. jobs[wk[w].job].type = "plan" /\ DoneStatus(jobs[wk[w].job].type) = "awaiting_approval"
      BY <1>1, <1>2 DEF Records, DoneStatus, JobType
<1>4. /\ wk[w].pc = "record" /\ jobs' = jobs /\ saved' = saved
      /\ wk' = [wk EXCEPT ![w].pc = "succeed"]
      BY <1>1 DEF Records, Record, aws
<1>5. ~Goto(w, "disown")  BY <1>4 DEF Goto, TypeOK
<1>6. dep' = [dep EXCEPT ![d].status = "awaiting_approval", ![d].hash = jobs[wk[w].job].attempts]
      BY <1>1, <1>2, <1>3, <1>5 DEF Records, Record
<1>7. \A v \in Workers : /\ wk'[v].pc = IF v = w THEN "succeed" ELSE wk[v].pc
                         /\ wk'[v].job = wk[v].job
      BY <1>4 DEF TypeOK
<1>8. QED  BY <1>0, <1>2, <1>3, <1>4, <1>6, <1>7 DEF Hashes

LEMMA NextHashedInv ==
  ASSUME TypeOK, OnePerChat, ApprovedInv, OverInv, HashedInv, [Next]_vars
  PROVE  HashedInv'
<1>1. ASSUME NEW d \in Deps, dep'[d].status \in {"awaiting_approval", "applying"}
      PROVE  dep'[d].hash # 0
      <2>1. ASSUME NEW w \in Workers, Hashes(w), JobDep[wk[w].job] = d
            PROVE  dep'[d].hash # 0
            <3>1. Busy(w)  BY <2>1 DEF Hashes, Busy
            <3>2. QED  BY <2>1, <3>1, HashesOnce DEF HashedInv
      <2>2. CASE dep[d].status \in {"awaiting_approval", "applying"}
            <3>1. dep[d].hash # 0  BY <2>2 DEF HashedInv
            <3>2. QED  BY <2>1, <3>1, DepSteps, HashesOnce DEF Keeps
      <2>3. CASE dep[d].status \notin {"awaiting_approval", "applying"}
            <3>1. dep'[d].status = "awaiting_approval"
                  BY <1>1, <2>3, StepsAreLegal, TransitionsLeave DEF LegalStep
            <3>2. QED  BY <2>1, <2>3, <3>1, AwaitedBy
      <2>4. QED  BY <2>2, <2>3
<1>2. ASSUME NEW w \in Workers, Busy(w)'
      PROVE  jobs'[wk'[w].job].attempts # 0
      <2>1. CASE wk'[w] = wk[w]
            <3>1. Busy(w)  BY <1>2, <2>1 DEF Busy
            <3>2. PICK j \in Jobs : j = wk[w].job  BY <3>1, BusyJob
            <3>3. Queued(j) /\ jobs[j].attempts # 0
                  BY <3>1, <3>2 DEF ApprovedInv, HeldInv, Queued, HashedInv
            <3>4. jobs'[j].attempts >= jobs[j].attempts /\ jobs[j].attempts \in Nat
                  BY <3>3, AttemptsGrow DEF TypeOK, JobRow
            <3>5. jobs'[j].attempts # 0  BY <3>3, <3>4
            <3>6. QED  BY <2>1, <3>2, <3>5
      <2>2. CASE Work(w)
            BY <1>2, <2>2, WorkFlow DEF Flow, Busy, HashedInv
      <2>3. ASSUME NEW j \in Jobs, Claim(w, j)
            PROVE  jobs'[wk'[w].job].attempts # 0
            BY <2>3 DEF Claim, TypeOK, JobRow
      <2>4. QED  BY <1>2, <2>1, <2>2, <2>3, WorkerSteps DEF Busy
<1>3. ASSUME NEW w \in Workers, wk'[w].pc \in {"lost", "lostdep"}, jobs'[wk'[w].job].type = "plan"
      PROVE  dep'[JobDep[wk'[w].job]].hash = 0
      <2>1. \/ wk'[w] = wk[w]
            \/ Work(w) /\ wk'[w].job = wk[w].job
               /\ wk[w].pc \in {"claimed", "destroy", "lost"}
            <3>1. ASSUME NEW j \in Jobs, Claim(w, j)  PROVE FALSE
                  BY <1>3, <3>1 DEF Claim, TypeOK
            <3>2. QED  BY <1>3, <3>1, WorkerSteps, WorkFlow DEF Flow
      <2>2. /\ wk'[w].job = wk[w].job
            /\ wk[w].pc \in {"lost", "lostdep", "claimed", "destroy"}
            /\ wk[w].pc \in {"claimed", "destroy"} => wk'[w].pc # wk[w].pc
            BY <1>3, <2>1
      <2>3. PICK j \in Jobs : j = wk[w].job /\ JobDep[j] \in Deps /\ IsPlan(j)
            BY <1>3, <2>2, HeldJob DEF ApprovedInv, IsPlan
      <2>4. dep[JobDep[j]].hash = 0
            BY <2>2, <2>3 DEF HashedInv, ApprovedInv, HashInv, IsPlan, Open, Busy
      <2>5. ASSUME NEW u \in Workers, Hashes(u), JobDep[wk[u].job] = JobDep[j]
            PROVE  FALSE
            <3>1. wk[u].job \in Jobs /\ IsPlan(wk[u].job)  BY <2>5, HashesOnce
            <3>2. wk[u].job = j  BY <2>3, <2>5, <3>1 DEF ApprovedInv, PlanJobInv
            <3>3. Busy(u) /\ wk[u].pc = "record"  BY <2>5 DEF Hashes, Busy
            <3>4. CASE Over(w)  BY <2>3, <3>2, <3>3, <3>4 DEF OverInv, Open
            <3>5. CASE Busy(w)
                  <4>1. u = w  BY <2>3, <3>2, <3>3, <3>5 DEF ApprovedInv, HeldInv
                  <4>2. QED  BY <2>2, <3>3, <4>1
            <3>6. QED  BY <2>2, <3>4, <3>5 DEF Over, Busy
      <2>6. QED  BY <2>2, <2>3, <2>4, <2>5, DepSteps, HashesOnce DEF Keeps
<1>4. QED  BY <1>1, <1>2, <1>3 DEF HashedInv

-------------------------------------------------------------------------------
(* Faults, and the jobs a worker has reclaimed *)

(* No worker stalls or dies between moving its deployment and settling its   *)
(* job, and at most one statement fails, with no fault after it.             *)
Steady ==
  /\ {"stall", "half_recorded"} \cap Faults = {}
  /\ "statement" \in Faults => MaxFaults <= 1

(* That statement, or another fault in its place, has been. *)
Spent == "statement" \in Faults /\ faults > 0

LEMMA FaultSteps ==
  ASSUME TypeOK, [Next]_vars
  PROVE  faults' = faults \/ \E k : Fault(k)
<1>1. ASSUME NEW w \in Workers, Work(w)
      PROVE  faults' = faults \/ \E k : Fault(k)
      <2>1. CASE \/ BuildFails(w) \/ DestroySkip(w) \/ Finish(w)
                 \/ StatementFails(w) \/ SettleFails(w)
            BY <2>1 DEF BuildFails, DestroySkip, Finish, StatementFails, SettleFails
      <2>2. CASE ~(\/ BuildFails(w) \/ DestroySkip(w) \/ Finish(w)
                   \/ StatementFails(w) \/ SettleFails(w))
            BY <1>1, <2>2 DEF Work, DestroyBegin, RunPlan, RunApply, RunDestroy, Record,
               Succeed, ScheduleTeardown, Disown, LoseJob, LoseDeployment, Fail,
               WasRequeued, FailDeployment, Settle
      <2>3. QED  BY <2>1, <2>2
<1>2. ASSUME NEW w \in Workers, Worker(w), ~Work(w)
      PROVE  faults' = faults \/ \E k : Fault(k)
      BY <1>2 DEF Worker, Claim, Reconcile, Reclaim, Sweep, Crash
<1>3. ASSUME NEW r \in Requests, Request(r)
      PROVE  faults' = faults \/ \E k : Fault(k)
      BY <1>3 DEF Request, DestroyRead, CancelRead, ResolveRead, DestroyMark,
         DestroyQueue, CancelWrite, ResolveDrop, ResolveWrite, Abandon
<1>4. QED  BY <1>1, <1>2, <1>3 DEF Next, Create, Approve, LoseWorkspace, vars

LEMMA SpentStays ==
  ASSUME TypeOK, [Next]_vars
  PROVE  /\ Spent => Spent'
         /\ faults > 0 => faults' > 0
         /\ Steady /\ Spent => \A k : ~Fault(k)
BY FaultSteps, BoundsAssumption DEF Fault, Spent, Steady, TypeOK

LEMMA StaleSteps ==
  ASSUME TypeOK, [Next]_vars, NEW v \in Workers, NEW j \in stale'[v]
  PROVE  j \in stale[v] \/ (Reclaim(v) /\ IsStale(j))
<1>1. CASE stale' = stale  BY <1>1
<1>2. ASSUME NEW w \in Workers, NEW i \in Jobs, Reconcile(w, i)
      PROVE  j \in stale[v]
      BY <1>2 DEF Reconcile, TypeOK
<1>3. ASSUME NEW w \in Workers, Reclaim(w)
      PROVE  j \in stale[v] \/ (Reclaim(v) /\ IsStale(j))
      BY <1>3 DEF Reclaim, TypeOK
<1>4. ASSUME NEW w \in Workers, Crash(w)
      PROVE  j \in stale[v]
      BY <1>4 DEF Crash, TypeOK
<1>5. ASSUME NEW w \in Workers, Work(w)
      PROVE  stale' = stale
      BY <1>5 DEF Work, BuildFails, DestroyBegin, DestroySkip, RunPlan, RunApply,
         RunDestroy, Record, Succeed, ScheduleTeardown, Disown, LoseJob, LoseDeployment,
         Fail, WasRequeued, FailDeployment, Finish, Settle, StatementFails, SettleFails
<1>6. ASSUME NEW r \in Requests, Request(r)
      PROVE  stale' = stale
      BY <1>6 DEF Request, DestroyRead, CancelRead, ResolveRead, DestroyMark,
         DestroyQueue, CancelWrite, ResolveDrop, ResolveWrite, Abandon
<1>7. QED
      BY <1>1, <1>2, <1>3, <1>4, <1>5, <1>6
         DEF Next, Worker, Create, Approve, LoseWorkspace, Claim, Sweep, vars

(* A plan whose hash is recorded is being settled as long as its job is      *)
(* running, so that no reclaim takes it for a plan that was lost; and nobody *)
(* is busy with a reclaimed job.                                             *)
Settling(w) == wk[w].pc = "succeed" \/ (wk[w].pc \in {"finish", "settle"} /\ Spent)

SettlingInv ==
  /\ \A j \in Jobs :
       jobs[j].type = "plan" /\ jobs[j].status = "running" /\ dep[JobDep[j]].hash # 0 =>
         \E w \in Workers : wk[w].job = j /\ Settling(w)
  /\ \A v \in Workers : \A j \in stale[v] :
       Queued(j) /\ ~Open(j) /\ (jobs[j].type = "plan" => dep[JobDep[j]].hash = 0)

LEMMA NextSettlingInv ==
  ASSUME Steady, TypeOK, ApprovedInv, SettlingInv, [Next]_vars
  PROVE  SettlingInv'
<1>1. ASSUME NEW j \in Jobs, jobs'[j].type = "plan", jobs'[j].status = "running",
             dep'[JobDep[j]].hash # 0
      PROVE  \E w \in Workers : wk'[w].job = j /\ Settling(w)'
      <2>1. JobDep[j] \in Deps  BY IdsAssumption
      <2>2. jobs[j].status = "running"
            <3>1. ASSUME NEW w \in Workers, Claim(w, j)  PROVE FALSE
                  <4>1. jobs[j].status = "pending" /\ jobs[j].type = "plan" /\ dep' = dep
                        BY <1>1, <3>1 DEF Claim, Claimable, TypeOK, JobRow
                  <4>2. IsPlan(j) /\ Open(j)  BY <4>1 DEF IsPlan, Queued, Open
                  <4>3. QED  BY <1>1, <4>1, <4>2 DEF ApprovedInv, HashInv
            <3>2. ASSUME NEW w \in Workers, wk[w].job = j, Ends(w)  PROVE FALSE
                  BY <1>1, <3>2 DEF Ends, SetJob, TypeOK, JobRow
            <3>3. QED  BY <1>1, <3>1, <3>2, JobStatusSteps
      <2>3. IsPlan(j)
            <3>1. Queued(j)  BY <2>2 DEF Queued
            <3>2. jobs'[j].type = jobs[j].type  BY <3>1, QueuedStays DEF ApprovedInv
            <3>3. QED  BY <1>1, <3>1, <3>2 DEF IsPlan
      <2>4. CASE dep[JobDep[j]].hash = 0
            <3>1. PICK u \in Workers : Hashes(u) /\ JobDep[wk[u].job] = JobDep[j]
                  BY <1>1, <2>1, <2>4, DepSteps, HashesOnce DEF Keeps
            <3>2. wk[u].job = j
                  BY <2>3, <3>1, HashesOnce DEF ApprovedInv, PlanJobInv
            <3>3. QED  BY <3>1, <3>2 DEF Hashes, Settling
      <2>5. CASE dep[JobDep[j]].hash # 0
            <3>1. PICK w \in Workers : wk[w].job = j /\ Settling(w)
                  BY <2>2, <2>3, <2>5 DEF SettlingInv, IsPlan
            <3>2. CASE wk'[w] = wk[w]
                  BY <3>1, <3>2, SpentStays DEF Settling
            <3>3. CASE Work(w)
                  <4>1. CASE wk[w].pc = "succeed"
                        <5>1. ~Succeed(w)
                              BY <1>1, <3>1 DEF Succeed, SetJob, TypeOK, JobRow
                        <5>2. StatementFails(w)  BY <3>3, <4>1, <5>1, WorkAt
                        <5>3. wk'[w].pc = "finish" /\ Spent'
                              BY <2>3, <3>1, <4>1, <5>2, FaultLeads DEF AfterFault, Spent, IsPlan
                        <5>4. QED  BY <3>1, <3>3, <5>3, WorkFlow DEF Settling
                  <4>2. CASE wk[w].pc = "finish" /\ Spent
                        <5>1. Finish(w)  BY <3>3, <4>2, WorkAt
                        <5>2. wk' = [wk EXCEPT ![w].pc = "settle"]
                              BY <2>2, <3>1, <4>2, <5>1, SpentStays DEF Finish
                        <5>3. QED  BY <3>1, <4>2, <5>2, SpentStays DEF Settling, TypeOK
                  <4>3. CASE wk[w].pc = "settle" /\ Spent
                        <5>1. ~Settle(w)  BY <1>1, <3>1 DEF Settle, SetJob, TypeOK, JobRow
                        <5>2. ~SettleFails(w)  BY <4>3, SpentStays DEF SettleFails
                        <5>3. QED  BY <3>3, <4>3, <5>1, <5>2, WorkAt
                  <4>4. QED  BY <3>1, <4>1, <4>2, <4>3 DEF Settling
            <3>4. CASE Crash(w)
                  BY <3>1, <3>4, SpentStays DEF Crash, Settling, Fault, Steady
            <3>5. ~ \E i \in Jobs : Claim(w, i)  BY <3>1 DEF Settling, Claim
            <3>6. QED  BY <3>1, <3>2, <3>3, <3>4, <3>5, WorkerSteps DEF Settling
      <2>6. QED  BY <2>4, <2>5
<1>2. ASSUME NEW v \in Workers, NEW j \in Jobs, j \in stale'[v]
      PROVE  Queued(j)' /\ ~Open(j)' /\ (jobs'[j].type = "plan" => dep'[JobDep[j]].hash = 0)
      <2>1. JobDep[j] \in Deps  BY IdsAssumption
      <2>2. CASE j \in stale[v]
            <3>1. Queued(j) /\ ~Open(j) /\ (jobs[j].type = "plan" => dep[JobDep[j]].hash = 0)
                  BY <2>2 DEF SettlingInv
            <3>2. Queued(j)' /\ ~Open(j)' /\ jobs'[j].type = jobs[j].type
                  BY <3>1, QueuedStays DEF ApprovedInv
            <3>3. ASSUME jobs[j].type = "plan"
                  PROVE  dep'[JobDep[j]].hash = 0
                  <4>1. IsPlan(j)  BY <3>1, <3>3 DEF IsPlan
                  <4>2. ASSUME NEW u \in Workers, Hashes(u), JobDep[wk[u].job] = JobDep[j]
                        PROVE  FALSE
                        <5>1. wk[u].job = j /\ Busy(u)
                              BY <4>1, <4>2, HashesOnce DEF ApprovedInv, PlanJobInv, Hashes, Busy
                        <5>2. QED  BY <3>1, <5>1 DEF Open
                  <4>3. QED  BY <2>1, <3>1, <3>3, <4>2, DepSteps, HashesOnce DEF Keeps
            <3>4. QED  BY <3>2, <3>3
      <2>3. CASE Reclaim(v) /\ IsStale(j)
            <3>1. jobs[j].status = "running" /\ \A u \in Workers : wk[u].job # j
                  BY <2>3 DEF IsStale, Handles, Stalls, Steady
            <3>2. /\ jobs'[j].status = "unknown" /\ jobs'[j].type = jobs[j].type
                  /\ dep' = dep /\ \A u \in Workers : wk'[u].job = wk[u].job
                  BY <2>3 DEF Reclaim, Goto, TypeOK, JobRow
            <3>3. jobs[j].type = "plan" => dep[JobDep[j]].hash = 0
                  BY <3>1 DEF SettlingInv
            <3>4. QED  BY <3>1, <3>2, <3>3 DEF Queued, Open
      <2>4. QED  BY <1>2, <2>2, <2>3, StaleSteps
<1>3. \A v \in Workers : stale'[v] \subseteq Jobs
      <2>1. ASSUME NEW v \in Workers, NEW j \in stale'[v]  PROVE j \in Jobs
            <3>1. CASE Reclaim(v)  BY <2>1, <3>1 DEF Reclaim, TypeOK
            <3>2. QED  BY <2>1, <3>1, StaleSteps DEF TypeOK
      <2>2. QED  BY <2>1
<1>4. QED  BY <1>1, <1>2, <1>3 DEF SettlingInv

-------------------------------------------------------------------------------
(* A deployment is applied under its chat's lock *)

(* The one way in which a deployment may leave 'applying' while its job is    *)
(* still there to be run: the job's retry was taken for a failure because    *)
(* the statement that reads it back failed.  Then the worker is about to     *)
(* remove the plan file.                                                     *)
Cleaning(j) == \E w \in Workers : wk[w].job = j /\ wk[w].pc = "finish" /\ Spent

LockInv ==
  /\ \A w \in Workers :
       wk[w].pc = "failed" /\ jobs[wk[w].job].type = "apply" /\ Open(wk[w].job) => Spent
  /\ \A j \in Jobs : IsApply(j) /\ Open(j) /\ CanApply(JobDep[j]) =>
       dep[JobDep[j]].status = "applying" \/ Cleaning(j)

SettledInv == PastInv /\ ApplyJobInv /\ OverInv /\ HashedInv

(* Only the apply of a deployment ends 'applying'. *)
LEMMA LeavesApplying ==
  ASSUME TypeOK, OnePerChat, ApprovedInv, SettledInv, SettlingInv, [Next]_vars,
         NEW j \in Jobs, IsApply(j), Open(j), dep[JobDep[j]].status = "applying",
         dep'[JobDep[j]].status # "applying"
  PROVE  \E w \in Workers :
           /\ wk[w].job = j
           /\ Records(w) \/ (FailDeployment(w) /\ wk[w].pc = "failed" /\ wk'[w].pc = "finish")
<1> DEFINE d == JobDep[j]
<1> USE DEF SettledInv
<1>1. d \in Deps /\ dep[d].hash # 0  BY IdsAssumption DEF HashedInv
<1>2. /\ StatusMove(d)
      /\ dep'[d].status \in {"applied", "apply_failed", "unknown"}
      BY <1>1, StatusMoves, StepsAreLegal, TransitionsLeave DEF LegalStep
<1>3. ASSUME NEW i \in Jobs, Queued(i), JobDep[i] = d
      PROVE  jobs[i].type = "plan" \/ i = j
      <2>1. jobs[i].type \in {"plan", "apply", "destroy"}  BY DEF TypeOK, JobRow, JobType
      <2>2. jobs[i].type # "destroy"  BY <1>3 DEF PastInv, PastApply
      <2>3. jobs[i].type = "apply" => i = j  BY <1>3 DEF ApplyJobInv, IsApply
      <2>4. QED  BY <2>1, <2>2, <2>3
<1>4. ASSUME NEW v \in Workers, NEW i \in Jobs, Reconcile(v, i), JobDep[i] = d
      PROVE  FALSE
      <2>1. Queued(i) /\ ~Open(i) /\ (jobs[i].type = "plan" => dep[d].hash = 0)
            BY <1>4 DEF Reconcile, SettlingInv
      <2>2. QED  BY <1>1, <1>3, <1>4, <2>1
<1>5. PICK w \in Workers : WorkChanges(w, d)
      BY <1>2, <1>4 DEF StatusMove, RequestChanges, Supersedes
<1>6. wk[w].pc \notin {"idle", "reconcile"} /\ ~DestroyBegin(w)
      BY <1>2, <1>5 DEF WorkChanges, TypeOK, Records, Record, LoseDeployment, FailDeployment,
         DestroyBegin
<1>7. PICK i \in Jobs : i = wk[w].job /\ JobDep[i] = d /\ Queued(i)
      BY <1>5, <1>6, HeldJob DEF WorkChanges, ApprovedInv
<1>8. jobs[i].type # "plan"
      <2> SUFFICES ASSUME jobs[i].type = "plan" PROVE FALSE  OBVIOUS
      <2>1. ~Records(w)  BY <1>2, <1>7 DEF Records, DoneStatus
      <2>2. ~LoseDeployment(w)  BY <1>1, <1>7 DEF LoseDeployment, HashedInv
      <2>3. QED  BY <1>2, <1>5, <1>6, <1>7, <2>1, <2>2 DEF WorkChanges, FailedStatus
<1>9. i = j  BY <1>3, <1>7, <1>8
<1>10. ~LoseDeployment(w)  BY <1>7, <1>9 DEF LoseDeployment, OverInv, Over
<1>11. FailDeployment(w) => wk[w].pc = "failed" /\ wk'[w].pc = "finish"
      BY DEF FailDeployment, Goto, TypeOK
<1>12. QED  BY <1>5, <1>6, <1>7, <1>9, <1>10, <1>11 DEF WorkChanges

LEMMA NextLockInv ==
  ASSUME Steady, TypeOK, OnePerChat, ClaimInv, ApprovedInv, SettledInv, SettlingInv, LockInv,
         [Next]_vars
  PROVE  LockInv'
<1> USE DEF SettledInv
<1>1. ASSUME NEW w \in Workers, wk'[w].pc = "failed", jobs'[wk'[w].job].type = "apply",
             Open(wk[w].job)', ~Spent'
      PROVE  FALSE
      <2>1. wk'[w] = wk[w] \/ Work(w)
            <3>1. ASSUME NEW j \in Jobs, Claim(w, j)  PROVE FALSE
                  BY <1>1, <3>1 DEF Claim, TypeOK
            <3>2. QED  BY <1>1, <3>1, WorkerSteps
      <2>2. wk'[w].job = wk[w].job /\ wk[w].pc \in {"requeued", "failed"}
            BY <1>1, <2>1, WorkFlow DEF Flow
      <2>3. PICK j \in Jobs : /\ j = wk[w].job /\ Queued(j)
                              /\ jobs'[j].type = jobs[j].type
            BY <2>2, HeldJob DEF ApprovedInv
      <2>4. Open(j)'  BY <1>1, <2>2, <2>3 DEF Open
      <2>5. CASE wk'[w] = wk[w]
            <3>1. Open(j)  BY <2>3, <2>4, QueuedStays DEF ApprovedInv
            <3>2. QED  BY <1>1, <2>3, <2>5, <3>1, SpentStays DEF LockInv
      <2>6. CASE Work(w)
            <3>1. jobs[j].status # "pending" /\ jobs' = jobs
                  BY <1>1, <2>3, <2>6, Arrivals DEF Spent
            <3>2. PICK u \in Workers : Busy(u)' /\ wk'[u].job = j
                  BY <2>4, <3>1 DEF Open
            <3>3. u # w  BY <1>1, <3>2 DEF Busy
            <3>4. wk[u].job = wk[w].job  BY <2>3, <2>6, <3>2, <3>3, WorkFlow
            <3>5. QED  BY <2>3, <3>3, <3>4, IdsAssumption DEF ClaimInv
      <2>7. QED  BY <2>1, <2>5, <2>6
<1>2. ASSUME NEW j \in Jobs, IsApply(j)', Open(j)', CanApply(JobDep[j])'
      PROVE  dep'[JobDep[j]].status = "applying" \/ Cleaning(j)'
      <2> DEFINE d == JobDep[j]
      <2>1. d \in Deps  BY IdsAssumption
      <2>2. CASE ~Queued(j)
            <3>1. PICK h \in 1..MaxAttempts : Approve(d, h)
                  BY <1>2, <2>2, NewRows DEF IsApply, ApprovedInv
            <3>2. QED  BY <2>1, <3>1 DEF Approve, TypeOK, DepRow
      <2>3. CASE Queued(j)
            <3>1. IsApply(j) /\ Open(j)
                  BY <1>2, <2>3, QueuedStays DEF IsApply, ApprovedInv
            <3>2. ASSUME NEW w \in Workers, RunPlan(w), JobDep[wk[w].job] = d
                  PROVE  FALSE
                  <4>1. Busy(w) /\ jobs[wk[w].job].type = "plan"
                        BY <3>2 DEF RunPlan, InTerraform, Running, Busy
                  <4>2. PICK i \in Jobs : i = wk[w].job /\ IsPlan(i) /\ Open(i)
                        BY <4>1, BusyJob, HeldJob DEF ApprovedInv, HeldInv, IsPlan, Open, Queued
                  <4>3. QED  BY <3>1, <3>2, <4>2 DEF ApprovedInv, HashInv, IsApply
            <3>3. CanApply(d)
                  <4>1. FileSteps(d)  BY <2>1, AwsSteps
                  <4>2. saved[d] \in Nat  BY <2>1 DEF TypeOK
                  <4>3. saved'[d] # 0 /\ d \in fresh'  BY <1>2 DEF CanApply
                  <4>4. \A e \in Deps :
                          LoseWorkspace(e) => fresh' = fresh /\ saved'[d] \in {0, saved[d]}
                        BY <2>1 DEF LoseWorkspace, TypeOK
                  <4>5. QED  BY <3>2, <4>1, <4>2, <4>3, <4>4 DEF FileSteps, CanApply
            <3>4. CASE Cleaning(j)
                  <4>1. PICK w \in Workers : wk[w].job = j /\ wk[w].pc = "finish" /\ Spent
                        BY <3>4 DEF Cleaning
                  <4>2. CASE wk'[w] = wk[w]  BY <4>1, <4>2, SpentStays DEF Cleaning
                  <4>3. CASE Work(w)
                        <5>1. Finish(w)  BY <4>1, <4>3, WorkAt
                        <5>2. saved'[d] = 0  BY <2>1, <3>1, <4>1, <5>1 DEF Finish, IsApply
                        <5>3. QED  BY <1>2, <5>2 DEF CanApply
                  <4>4. ~Crash(w)  BY <4>1, SpentStays DEF Crash
                  <4>5. ~ \E i \in Jobs : Claim(w, i)  BY <4>1 DEF Claim
                  <4>6. QED  BY <4>1, <4>2, <4>3, <4>4, <4>5, WorkerSteps
            <3>5. CASE dep[d].status = "applying" /\ dep'[d].status # "applying"
                  <4>1. PICK w \in Workers :
                          /\ wk[w].job = j
                          /\ Records(w)
                             \/ (FailDeployment(w) /\ wk[w].pc = "failed" /\ wk'[w].pc = "finish")
                        BY <3>1, <3>5, LeavesApplying
                  <4>2. ~Records(w)
                        <5>1. Records(w) => wk'[w].pc = "succeed" /\ wk'[w].job = j
                              BY <4>1 DEF Records, TypeOK
                        <5>2. OverInv'  BY NextOverInv DEF ApprovedInv
                        <5>3. QED  BY <1>2, <5>1, <5>2 DEF OverInv, Over, Open
                  <4>3. wk'[w].job = j /\ wk'[w].pc = "finish"
                        BY <4>1, <4>2 DEF FailDeployment, Goto, TypeOK
                  <4>4. Spent  BY <3>1, <4>1, <4>2 DEF LockInv, IsApply
                  <4>5. QED  BY <4>3, <4>4, SpentStays DEF Cleaning
            <3>6. QED  BY <3>1, <3>3, <3>4, <3>5 DEF LockInv
      <2>4. QED  BY <2>2, <2>3
<1>3. ASSUME NEW w \in Workers, wk'[w].pc = "failed", jobs'[wk'[w].job].type = "apply",
             ~Spent'
      PROVE  ~ (\/ jobs'[wk'[w].job].status = "pending"
                \/ \E v \in Workers : Busy(v)' /\ wk'[v].job = wk'[w].job)
      BY <1>1, <1>3 DEF Open
<1>4. QED  BY <1>2, <1>3 DEF LockInv, Open

LEMMA LockInvSuffices ==
  ASSUME TypeOK, ClaimInv, HeldInv, LockInv
  PROVE  ApplyHoldsLock
<1> SUFFICES ASSUME NEW w \in Workers, InTerraform(w, "apply"), CanApply(JobDep[wk[w].job])
             PROVE  dep[JobDep[wk[w].job]].status = "applying"
    BY DEF ApplyHoldsLock
<1>1. Busy(w) /\ Running(w)  BY DEF InTerraform, Running, Busy
<1>2. PICK j \in Jobs : j = wk[w].job /\ j # NoJob  BY <1>1, BusyJob
<1>3. IsApply(j) /\ Open(j)
      BY <1>1, <1>2 DEF InTerraform, IsApply, Queued, Open, HeldInv
<1>4. ~Cleaning(j)
      BY <1>1, <1>2 DEF Cleaning, ClaimInv, Running
<1>5. QED  BY <1>2, <1>3, <1>4 DEF LockInv

-------------------------------------------------------------------------------
(* What a human was shown is still what will happen *)

(* d's plan file is the one of attempt h, ready to be applied, unless its    *)
(* disk was lost.                                                            *)
Intact(d, h) == d \in fresh /\ saved[d] \in {0, h}

IntactAfter(d, h) == d \in fresh' /\ saved'[d] \in {0, h}

Planned(w) ==
  /\ wk[w].pc = "record" /\ jobs[wk[w].job].type = "plan"
  /\ dep[JobDep[wk[w].job]].status = "planning"

(* A plan that is about to be recorded, or was, is intact; no teardown runs  *)
(* in the chat of one that waits for approval.                               *)
AwaitInv ==
  /\ \A w \in Workers : wk[w].pc = "skip" => jobs[wk[w].job].type = "destroy"
  /\ \A w \in Workers : wk[w].pc = "destroy" =>
       \A d \in OfChat(JobChat(wk[w].job)) : dep[d].status # "awaiting_approval"
  /\ \A w \in Workers : Planned(w) =>
       Intact(JobDep[wk[w].job], jobs[wk[w].job].attempts)
  /\ AwaitedPlanStaysValid

(* The invariants of this and the earlier sections. *)
LockedInv ==
  /\ OnePerChat /\ ClaimInv /\ ApprovedInv /\ RunningInv
  /\ SettledInv /\ SettlingInv /\ LockInv

(* While d is planned or waits, only a run of its plan or a teardown of its  *)
(* chat can spoil the plan.                                                  *)
LEMMA IntactStays ==
  ASSUME TypeOK, LockedInv, AwaitInv, [Next]_vars,
         NEW d \in Deps, dep[d].status \in {"planning", "awaiting_approval"},
         NEW h, Intact(d, h),
         \A u \in Workers : ~ (RunPlan(u) /\ JobDep[wk[u].job] = d),
         \A u \in Workers : ~ (InTerraform(u, "destroy") /\ JobChat(wk[u].job) = ChatOf[d])
  PROVE  IntactAfter(d, h)
<1> USE DEF LockedInv, SettledInv
<1>1. \A e \in Deps : LoseWorkspace(e) => fresh' = fresh /\ saved'[d] \in {0, saved[d]}
      BY DEF LoseWorkspace, TypeOK
<1>2. ASSUME NEW u \in Workers, Touches(u, ChatOf[d])  PROVE FALSE
      <2>1. InTerraform(u, "apply") /\ CanApply(JobDep[wk[u].job])
            BY <1>2 DEF Touches
      <2>2. dep[JobDep[wk[u].job]].status = "applying"
            BY <2>1, LockInvSuffices DEF ApplyHoldsLock, ApprovedInv
      <2>3. /\ JobDep[wk[u].job] \in Deps /\ ChatOf[JobDep[wk[u].job]] = ChatOf[d]
            /\ ChatOf[d] \in Chats
            BY <1>2, IdsAssumption DEF Touches, JobChat
      <2>4. JobDep[wk[u].job] = d
            BY <2>2, <2>3 DEF OnePerChat, OfChat, InFlight
      <2>5. QED  BY <2>2, <2>4
<1>3. ASSUME NEW u \in Workers, JobDep[wk[u].job] = d,
             \/ DestroySkip(u)
             \/ Finish(u) /\ jobs[wk[u].job].type = "apply"
      PROVE  FALSE
      <2>1. wk[u].pc \in {"skip", "finish"}  BY <1>3 DEF DestroySkip, Finish
      <2>2. PICK j \in Jobs : j = wk[u].job /\ Queued(j)
            BY <2>1, HeldJob DEF ApprovedInv
      <2>3. jobs[j].type \in {"apply", "destroy"}
            BY <1>3, <2>2 DEF DestroySkip, AwaitInv
      <2>4. QED  BY <1>3, <2>2, <2>3 DEF PastInv, PastApply, Begun, Early
<1>4. FileSteps(d)  BY AwsSteps
<1>5. QED  BY <1>1, <1>2, <1>3, <1>4 DEF FileSteps, Intact, IntactAfter, InFlight

LEMMA PlannedStays ==
  ASSUME TypeOK, LockedInv, AwaitInv, [Next]_vars, NEW w \in Workers, Planned(w)
  PROVE  IntactAfter(JobDep[wk[w].job], jobs[wk[w].job].attempts)
<1> USE DEF LockedInv, SettledInv
<1>1. PICK j \in Jobs : /\ j = wk[w].job /\ j # NoJob /\ JobDep[j] \in Deps
                        /\ IsPlan(j) /\ Unsettled(w) /\ Busy(w)
      <2>1. Busy(w) /\ Unsettled(w)  BY DEF Planned, Busy, Unsettled
      <2>2. PICK j \in Jobs : j = wk[w].job /\ j # NoJob  BY <2>1, BusyJob
      <2>3. IsPlan(j) /\ JobDep[j] \in Deps
            BY <2>1, <2>2, IdsAssumption DEF Planned, IsPlan, Queued, ApprovedInv, HeldInv
      <2>4. QED  BY <2>1, <2>2, <2>3
<1>2. ASSUME NEW u \in Workers, RunPlan(u), JobDep[wk[u].job] = JobDep[j]
      PROVE  FALSE
      <2>1. Busy(u) /\ jobs[wk[u].job].type = "plan" /\ wk[u].pc # "record"
            BY <1>2 DEF RunPlan, InTerraform, Running, Busy
      <2>2. PICK i \in Jobs : i = wk[u].job /\ IsPlan(i)
            BY <2>1, BusyJob DEF ApprovedInv, HeldInv, IsPlan, Queued
      <2>3. i = j  BY <1>1, <1>2, <2>2 DEF ApprovedInv, PlanJobInv
      <2>4. QED  BY <1>1, <2>1, <2>2, <2>3 DEF ApprovedInv, HeldInv, Planned
<1>3. ASSUME NEW u \in Workers, InTerraform(u, "destroy"),
             JobChat(wk[u].job) = ChatOf[JobDep[j]]
      PROVE  FALSE
      <2>1. wk[u].pc = "destroy"  BY <1>3 DEF InTerraform
      <2>2. u = w  BY <1>1, <1>3, <2>1, OneUnsettled DEF Unsettled, JobChat
      <2>3. QED  BY <2>1, <2>2 DEF Planned
<1>4. Intact(JobDep[j], jobs[j].attempts)  BY <1>1 DEF AwaitInv
<1>5. QED  BY <1>1, <1>2, <1>3, <1>4, IntactStays DEF Planned

LEMMA NextAwaitInv ==
  ASSUME ~Stalls, TypeOK, LockedInv, AwaitInv, [Next]_vars
  PROVE  AwaitInv'
<1> USE DEF LockedInv, SettledInv
<1>1. ASSUME NEW w \in Workers, wk'[w].pc = "skip"
      PROVE  jobs'[wk'[w].job].type = "destroy"
      <2>1. wk'[w] = wk[w] \/ Work(w)
            <3>1. ASSUME NEW j \in Jobs, Claim(w, j)  PROVE FALSE
                  BY <1>1, <3>1 DEF Claim, TypeOK
            <3>2. QED  BY <1>1, <3>1, WorkerSteps
      <2>2. /\ wk'[w].job = wk[w].job /\ wk[w].pc \in {"claimed", "skip"}
            /\ wk[w].pc = "claimed" => Work(w)
            BY <1>1, <2>1, WorkFlow DEF Flow
      <2>3. PICK j \in Jobs : /\ j = wk[w].job
                              /\ jobs'[j].type = jobs[j].type
            BY <2>2, HeldJob DEF ApprovedInv
      <2>4. CASE wk[w].pc = "skip"  BY <2>2, <2>3, <2>4 DEF AwaitInv
      <2>5. CASE wk[w].pc = "claimed"
            <3>1. ~BuildFails(w)  BY <1>1 DEF BuildFails, IdleWorker, TypeOK
            <3>2. ~RunPlan(w) /\ ~RunApply(w)  BY <1>1, RunLeads
            <3>3. DestroyBegin(w) \/ StatementFails(w)
                  BY <2>2, <2>5, <3>1, <3>2, WorkAt
            <3>4. QED  BY <2>2, <2>3, <2>5, <3>3 DEF DestroyBegin, StatementFails
      <2>6. QED  BY <2>2, <2>4, <2>5
<1>2. ASSUME NEW w \in Workers, wk'[w].pc = "destroy",
             NEW d \in OfChat(JobChat(wk'[w].job)), dep'[d].status = "awaiting_approval"
      PROVE  FALSE
      <2>1. d \in Deps /\ ChatOf[d] = JobChat(wk'[w].job)  BY <1>2 DEF OfChat
      <2>2. CASE wk'[w] = wk[w]
            <3>1. dep[d].status # "awaiting_approval"  BY <1>2, <2>2 DEF AwaitInv
            <3>2. PICK u \in Workers : Hashes(u) /\ JobDep[wk[u].job] = d
                  BY <1>2, <2>1, <3>1, AwaitedBy
            <3>3. wk[u].pc = "record"  BY <3>2 DEF Hashes
            <3>4. u = w
                  BY <1>2, <2>1, <2>2, <3>2, <3>3, OneUnsettled DEF Unsettled, JobChat
            <3>5. QED  BY <1>2, <2>2, <3>3, <3>4
      <2>3. CASE Work(w)
            <3> DEFINE e == JobDep[wk[w].job]
            <3>1. /\ DestroyBegin(w) /\ Accepts(e, "destroying") /\ wk'[w].job = wk[w].job
                  /\ dep' = Moved(e, "destroying")
                  BY <1>2, <2>3, Arrivals, WorkFlow
            <3>2. e \in Deps /\ ChatOf[e] = ChatOf[d] /\ ChatOf[d] \in Chats
                  BY <2>1, <3>1, JobInHand, IdsAssumption DEF DestroyBegin, JobChat
            <3>3. d # e /\ dep[d].status = "awaiting_approval"
                  BY <1>2, <2>1, <3>1, <3>2, MovedStatus DEF Superseded
            <3>4. CASE dep[e].status = "destroying"
                  BY <3>2, <3>3, <3>4 DEF OnePerChat, OfChat, InFlight
            <3>5. CASE ~IndexRejects(e, "destroying")
                  BY <3>2, <3>3, <3>5 DEF IndexRejects, OfChat, InFlight
            <3>6. QED  BY <3>1, <3>4, <3>5 DEF Accepts
      <2>4. ASSUME NEW j \in Jobs, Claim(w, j)  PROVE FALSE
            BY <1>2, <2>4 DEF Claim, TypeOK
      <2>5. QED  BY <1>2, <2>2, <2>3, <2>4, WorkerSteps
<1>3. ASSUME NEW w \in Workers, wk'[w].pc = "record", jobs'[wk'[w].job].type = "plan",
             dep'[JobDep[wk'[w].job]].status = "planning"
      PROVE  IntactAfter(JobDep[wk'[w].job], jobs'[wk'[w].job].attempts)
      <2>1. /\ Busy(w) /\ wk'[w].job = wk[w].job
            /\ jobs'[wk[w].job].attempts = jobs[wk[w].job].attempts
            /\ jobs[wk[w].job].type = "plan"
            BY <1>3, RecordsFollow DEF ApprovedInv
      <2>2. PICK j \in Jobs : /\ j = wk[w].job /\ JobDep[j] \in Deps /\ IsPlan(j)
                              /\ jobs[j].attempts # 0
            BY <2>1, BusyJob, IdsAssumption DEF ApprovedInv, HeldInv, IsPlan, Queued, HashedInv
      <2>3. CASE RunPlan(w)
            <3>1. PICK out \in Outcome :
                    /\ saved' = [saved EXCEPT ![JobDep[j]] = IF out = "ok" THEN jobs[j].attempts ELSE 0]
                    /\ fresh' = IF out = "ok" THEN fresh \cup {JobDep[j]} ELSE fresh \ {JobDep[j]}
                    /\ wk' = [wk EXCEPT ![w].out = out,
                                ![w].pc = IF out = "ok" THEN "record" ELSE AfterError(out)]
                  BY <2>2, <2>3 DEF RunPlan
            <3>2. out = "ok"
                  <4>1. AfterError(out) # "record"  BY DEF AfterError
                  <4>2. QED  BY <1>3, <3>1, <4>1 DEF TypeOK
            <3>3. saved'[JobDep[j]] = jobs[j].attempts /\ JobDep[j] \in fresh'
                  BY <2>2, <3>1, <3>2 DEF TypeOK
            <3>4. QED  BY <2>1, <2>2, <3>3 DEF IntactAfter
      <2>4. CASE wk[w].pc = "record"
            <3>1. dep[JobDep[j]].status = "planning"
                  <4>1. dep[JobDep[j]].status # "none"
                        BY <2>2 DEF ApprovedInv, PlanJobInv
                  <4>2. QED  BY <1>3, <2>1, <2>2, <4>1, StepsAreLegal, TransitionsLeave DEF LegalStep
            <3>2. Planned(w)  BY <2>1, <2>2, <2>4, <3>1 DEF Planned
            <3>3. QED  BY <2>1, <3>2, PlannedStays
      <2>5. QED  BY <1>3, <2>1, <2>2, <2>3, <2>4, RecordedPlan
<1>4. ASSUME NEW d \in Deps, dep'[d].status = "awaiting_approval"
      PROVE  IntactAfter(d, dep'[d].hash)
      <2>1. CASE dep[d].status = "awaiting_approval"
            <3>1. dep[d].hash # 0  BY <2>1 DEF HashedInv
            <3>2. dep'[d].hash = dep[d].hash
                  BY <3>1, DepSteps, HashesOnce DEF Keeps
            <3>3. ASSUME NEW u \in Workers, RunPlan(u), JobDep[wk[u].job] = d
                  PROVE  FALSE
                  <4>1. Busy(u) /\ jobs[wk[u].job].type = "plan"
                        BY <3>3 DEF RunPlan, InTerraform, Running, Busy
                  <4>2. PICK i \in Jobs : i = wk[u].job /\ IsPlan(i) /\ Open(i)
                        BY <4>1, BusyJob DEF ApprovedInv, HeldInv, IsPlan, Queued, Open
                  <4>3. QED  BY <3>1, <3>3, <4>2 DEF ApprovedInv, HashInv
            <3>4. ASSUME NEW u \in Workers, InTerraform(u, "destroy"),
                         JobChat(wk[u].job) = ChatOf[d]
                  PROVE  FALSE
                  BY <2>1, <3>4 DEF AwaitInv, InTerraform, OfChat
            <3>5. Intact(d, dep[d].hash)
                  BY <2>1 DEF AwaitInv, AwaitedPlanStaysValid, Intact
            <3>6. QED  BY <2>1, <3>2, <3>3, <3>4, <3>5, IntactStays
      <2>2. CASE dep[d].status # "awaiting_approval"
            <3>1. PICK w \in Workers : /\ Hashes(w) /\ JobDep[wk[w].job] = d
                                       /\ dep[d].status = "planning"
                  BY <1>4, <2>2, AwaitedBy
            <3>2. dep'[d].hash = jobs[wk[w].job].attempts  BY <3>1, HashesOnce
            <3>3. Planned(w)  BY <3>1 DEF Hashes, Planned
            <3>4. QED  BY <3>1, <3>2, <3>3, PlannedStays
      <2>3. QED  BY <2>1, <2>2
<1>5. QED
      BY <1>1, <1>2, <1>3, <1>4
         DEF AwaitInv, AwaitedPlanStaysValid, Planned, Intact, IntactAfter

-------------------------------------------------------------------------------
(* Nothing that exists is forgotten *)

LiveInv ==
  /\ \A c \in Chats : infra[c] \in Deps => ChatOf[infra[c]] = c
  /\ LiveIsRecorded
  /\ \A w \in Workers : wk[w].pc = "record" =>
       /\ jobs[wk[w].job].type = "apply" => infra[JobChat(wk[w].job)] = JobDep[wk[w].job]
       /\ jobs[wk[w].job].type = "destroy" => infra[JobChat(wk[w].job)] = Nothing
  /\ \A r \in Requests : req[r].pc \in {"drop", "resolve"} =>
       infra[ChatOf[req[r].dep]] # req[r].dep
  /\ \A r \in Requests : req[r].pc # "cancel"

(* What exists in a chat changes at the hands of a worker inside Terraform:  *)
(* to the deployment it applies, which holds the lock, or to nothing.        *)
LEMMA InfraSteps ==
  ASSUME TypeOK, LockedInv, [Next]_vars, NEW c \in Chats, infra'[c] # infra[c]
  PROVE  \E u \in Workers : /\ Running(u) /\ JobChat(wk[u].job) = c /\ dep' = dep
                            /\ \/ /\ infra'[c] = JobDep[wk[u].job]
                                  /\ JobDep[wk[u].job] \in Deps
                                  /\ ChatOf[JobDep[wk[u].job]] = c
                                  /\ dep[JobDep[wk[u].job]].status = "applying"
                               \/ infra'[c] = Nothing
<1> USE DEF LockedInv, SettledInv
<1>1. PICK u \in Workers : Touches(u, JobChat(wk[u].job))
      BY AwsSteps
<1>2. /\ wk[u].job \in Jobs /\ JobDep[wk[u].job] \in Deps /\ dep' = dep /\ Running(u)
      /\ ChatOf[JobDep[wk[u].job]] = JobChat(wk[u].job) /\ JobChat(wk[u].job) \in Chats
      BY <1>1, IdsAssumption DEF Touches, InTerraform, JobChat
<1>3. ASSUME NEW x, Touch(JobChat(wk[u].job), x)
      PROVE  JobChat(wk[u].job) = c /\ infra'[c] = x
      BY <1>2, <1>3 DEF Touch, TypeOK
<1>4. CASE /\ InTerraform(u, "apply") /\ CanApply(JobDep[wk[u].job])
           /\ Touch(JobChat(wk[u].job), JobDep[wk[u].job])
      <2>1. dep[JobDep[wk[u].job]].status = "applying"
            BY <1>4, LockInvSuffices DEF ApplyHoldsLock, ApprovedInv
      <2>2. QED  BY <1>2, <1>3, <1>4, <2>1
<1>5. ASSUME NEW x \in {infra[JobChat(wk[u].job)], Nothing}, Touch(JobChat(wk[u].job), x)
      PROVE  JobChat(wk[u].job) = c /\ infra'[c] = Nothing
      BY <1>3, <1>5
<1>6. QED  BY <1>1, <1>2, <1>4, <1>5 DEF Touches

(* A deployment that may be live stops being so by one of four statements.   *)
LEMMA LeavesLive ==
  ASSUME TypeOK, OnePerChat, LiveInv, [Next]_vars, NEW d \in Deps,
         dep[d].status \in MayHaveLiveResources \cup {"applying"},
         dep'[d].status # dep[d].status,
         dep'[d].status \notin MayHaveLiveResources
  PROVE  \/ \E r \in Requests : ResolveWrite(r) /\ req[r].dep = d /\ dep'[d].status = "cancelled"
         \/ \E w \in Workers : /\ wk[w].pc = "record" /\ JobDep[wk[w].job] = d
                               /\ jobs[wk[w].job].type = "destroy"
                               /\ dep'[d].status = "destroyed"
         \/ \E w \in Workers : Supersedes(w, d)
<1>1. dep'[d].status \in {"superseded", "cancelled", "destroyed"}
      BY StepsAreLegal DEF LegalStep, CanTransition, allowedTransitions, MayHaveLiveResources
<1>2. StatusMove(d)  BY StatusMoves
<1>3. ASSUME NEW r \in Requests, RequestChanges(r, d)
      PROVE  ResolveWrite(r) /\ req[r].dep = d /\ dep'[d].status = "cancelled"
      BY <1>1, <1>3 DEF RequestChanges, CancelWrite, LiveInv
<1>4. ASSUME NEW w \in Workers, WorkChanges(w, d)
      PROVE  /\ wk[w].pc = "record" /\ JobDep[wk[w].job] = d
             /\ jobs[wk[w].job].type = "destroy" /\ dep'[d].status = "destroyed"
      <2>1. jobs[wk[w].job].type \in JobType  BY <1>4 DEF WorkChanges, TypeOK, JobRow
      <2>2. Records(w) /\ JobDep[wk[w].job] = d
            BY <1>1, <1>4, <2>1 DEF WorkChanges, FailedStatus, JobType
      <2>3. QED  BY <1>1, <2>1, <2>2 DEF Records, Record, DoneStatus, JobType
<1>5. QED
      BY <1>1, <1>2, <1>3, <1>4 DEF StatusMove, MayHaveLiveResources

LEMMA NextLiveInv ==
  ASSUME "cancel" \notin Ops, TypeOK, LockedInv, LiveInv, [Next]_vars
  PROVE  LiveInv'
<1> USE DEF LockedInv, SettledInv
<1>1. ASSUME NEW c \in Chats, infra'[c] \in Deps
      PROVE  ChatOf[infra'[c]] = c
      <2>1. CASE infra'[c] = infra[c]  BY <1>1, <2>1 DEF LiveInv
      <2>2. CASE infra'[c] # infra[c]  BY <1>1, <2>2, InfraSteps, IdsAssumption
      <2>3. QED  BY <2>1, <2>2
<1>2. ASSUME NEW c \in Chats, NEW d \in Deps, infra'[c] = d
      PROVE  dep'[d].status \in MayHaveLiveResources \cup {"applying"}
      <2>1. CASE infra[c] # d
            BY <1>2, <2>1, InfraSteps, IdsAssumption
      <2>2. CASE infra[c] = d
            <3>1. dep[d].status \in MayHaveLiveResources \cup {"applying"} /\ ChatOf[d] = c
                  BY <2>2 DEF LiveInv, LiveIsRecorded
            <3>2. ASSUME NEW r \in Requests, ResolveWrite(r), req[r].dep = d  PROVE FALSE
                  BY <2>2, <3>1, <3>2 DEF ResolveWrite, LiveInv
            <3>3. ASSUME NEW w \in Workers, wk[w].pc = "record", JobDep[wk[w].job] = d,
                         jobs[wk[w].job].type = "destroy"
                  PROVE  FALSE
                  BY <2>2, <3>1, <3>3, IdsAssumption DEF LiveInv, JobChat
            <3>4. ASSUME NEW w \in Workers, Supersedes(w, d)  PROVE FALSE
                  BY <2>2, <3>1, <3>4 DEF Supersedes, Records, Record, LiveInv, JobChat
            <3>5. CASE dep'[d].status # dep[d].status
                  BY <3>1, <3>2, <3>3, <3>4, <3>5, LeavesLive
            <3>6. QED  BY <3>1, <3>5
      <2>3. QED  BY <2>1, <2>2
<1>3. ASSUME NEW w \in Workers, wk'[w].pc = "record"
      PROVE  \E j \in Jobs :
               /\ j = wk'[w].job
               /\ jobs'[j].type = "apply" => infra'[JobChat(j)] = JobDep[j]
               /\ jobs'[j].type = "destroy" => infra'[JobChat(j)] = Nothing
      <2>1. Busy(w) /\ wk'[w].job = wk[w].job  BY <1>3, RecordsFollow
      <2>2. PICK j \in Jobs : /\ j = wk[w].job /\ j # NoJob /\ jobs'[j].type = jobs[j].type
                              /\ JobDep[j] \in Deps /\ JobChat(j) \in Chats
                              /\ ChatOf[JobDep[j]] = JobChat(j)
            BY <2>1, BusyJob, RecordsFollow, <1>3, IdsAssumption DEF JobChat
      <2>3. CASE wk'[w] = wk[w]
            <3>1. ASSUME infra'[JobChat(j)] # infra[JobChat(j)]  PROVE FALSE
                  <4>1. PICK u \in Workers : Running(u) /\ JobChat(wk[u].job) = JobChat(j)
                        BY <2>2, <3>1, InfraSteps
                  <4>2. u = w
                        BY <1>3, <2>2, <2>3, <4>1, OneUnsettled DEF Unsettled, Running
                  <4>3. QED  BY <1>3, <2>3, <4>1, <4>2 DEF Running
            <3>2. QED  BY <1>3, <2>1, <2>2, <2>3, <3>1 DEF LiveInv
      <2>4. CASE Work(w)
            <3>1. CASE RunPlan(w)  BY <2>1, <2>2, <3>1 DEF RunPlan, InTerraform
            <3>2. \A out : AfterError(out) # "record"  BY DEF AfterError
            <3>3. ASSUME NEW out \in Outcome, wk' = [wk EXCEPT ![w].out = out, ![w].pc = AfterError(out)]
                  PROVE  FALSE
                  BY <1>3, <3>2, <3>3 DEF TypeOK
            <3>4. CASE RunApply(w)
                  <4>1. jobs[j].type = "apply" /\ Touch(ChatOf[JobDep[j]], JobDep[j])
                        BY <2>2, <3>3, <3>4 DEF RunApply, InTerraform, Outcome
                  <4>2. QED  BY <2>1, <2>2, <4>1 DEF Touch, TypeOK
            <3>5. CASE RunDestroy(w)
                  <4>1. jobs[j].type = "destroy" /\ Touch(ChatOf[JobDep[j]], Nothing)
                        BY <2>2, <3>3, <3>5 DEF RunDestroy, InTerraform
                  <4>2. QED  BY <2>1, <2>2, <4>1 DEF Touch, TypeOK
            <3>6. QED  BY <1>3, <2>4, <3>1, <3>4, <3>5, Arrivals
      <2>5. ASSUME NEW i \in Jobs, Claim(w, i)  PROVE FALSE
            BY <1>3, <2>5 DEF Claim, TypeOK
      <2>6. QED  BY <1>3, <2>3, <2>4, <2>5, WorkerSteps
<1>4. ASSUME NEW r \in Requests, req'[r].pc \in {"drop", "resolve"}
      PROVE  infra'[ChatOf[req'[r].dep]] # req'[r].dep
      <2>1. CASE req'[r] = req[r] \/ (req[r].pc = "drop" /\ req'[r].dep = req[r].dep)
            <3> DEFINE d == req[r].dep
            <3>1. /\ d \in Deps /\ req'[r].dep = d /\ ChatOf[d] \in Chats
                  /\ infra[ChatOf[d]] # d /\ PastApply(d)
                  BY <1>4, <2>1, IdsAssumption DEF TypeOK, LiveInv, PastInv
            <3>2. CASE infra'[ChatOf[d]] # infra[ChatOf[d]]
                  BY <3>1, <3>2, InfraSteps, IdsAssumption DEF PastApply
            <3>3. QED  BY <3>1, <3>2
      <2>2. ASSUME NEW d \in Deps, ResolveRead(r, d), req'[r].dep = d
            PROVE  infra'[ChatOf[d]] # d
            BY <2>2 DEF ResolveRead, aws
      <2>3. QED  BY <1>4, <2>1, <2>2, RequestSteps
<1>5. \A r \in Requests : req'[r].pc # "cancel"
      <2> SUFFICES ASSUME NEW r \in Requests, req'[r].pc = "cancel" PROVE FALSE  OBVIOUS
      <2>1. \A d \in Deps : ~CancelRead(r, d)  BY DEF CancelRead
      <2>2. QED  BY <2>1, RequestSteps DEF LiveInv
<1>6. \A w \in Workers : wk'[w].pc = "record" =>
        /\ jobs'[wk'[w].job].type = "apply" => infra'[JobChat(wk'[w].job)] = JobDep[wk'[w].job]
        /\ jobs'[wk'[w].job].type = "destroy" => infra'[JobChat(wk'[w].job)] = Nothing
      BY <1>3
<1>7. QED  BY <1>1, <1>2, <1>4, <1>5, <1>6 DEF LiveInv, LiveIsRecorded, JobChat

(* A teardown under way was begun, and its deployment is still recorded as   *)
(* possibly live, or a person has found that nothing is left of it.          *)
DestroyInv ==
  \A w \in Workers : wk[w].pc = "destroy" =>
    LET d == JobDep[wk[w].job]
    IN  \/ dep[d].status \in {"destroying", "destroy_failed", "unknown"}
        \/ dep[d].status = "cancelled" /\ infra[ChatOf[d]] # d

LEMMA NextDestroyInv ==
  ASSUME TypeOK, LockedInv, LiveInv, DestroyInv, [Next]_vars
  PROVE  DestroyInv'
<1> USE DEF LockedInv, SettledInv
<1>1. ASSUME NEW w \in Workers, wk'[w].pc = "destroy"
      PROVE  \E d \in Deps :
               /\ d = JobDep[wk'[w].job]
               /\ \/ dep'[d].status \in {"destroying", "destroy_failed", "unknown"}
                  \/ dep'[d].status = "cancelled" /\ infra'[ChatOf[d]] # d
      <2>1. CASE Work(w)
            <3> DEFINE e == JobDep[wk[w].job]
            <3>1. /\ DestroyBegin(w) /\ wk'[w].job = wk[w].job
                  /\ dep' = Moved(e, "destroying")
                  BY <1>1, <2>1, Arrivals, WorkFlow
            <3>2. e \in Deps  BY <3>1, JobInHand DEF DestroyBegin
            <3>3. QED  BY <3>1, <3>2, MovedStatus
      <2>2. CASE wk'[w] = wk[w]
            <3>1. PICK j \in Jobs : j = wk[w].job /\ JobDep[j] \in Deps
                  BY <1>1, <2>2, JobInHand
            <3>2. PICK d \in Deps : d = JobDep[j] /\ ChatOf[d] \in Chats
                  BY <3>1, IdsAssumption
            <3>3. CASE /\ dep[d].status \in {"destroying", "destroy_failed", "unknown"}
                       /\ dep'[d].status \notin {"destroying", "destroy_failed", "unknown"}
                  <4>1. /\ dep'[d].status # dep[d].status
                        /\ dep'[d].status \notin MayHaveLiveResources
                        BY <3>3, StepsAreLegal DEF LegalStep, CanTransition, allowedTransitions,
                           MayHaveLiveResources
                  <4>2. ASSUME NEW r \in Requests, ResolveWrite(r), req[r].dep = d,
                               dep'[d].status = "cancelled"
                        PROVE  infra'[ChatOf[d]] # d
                        BY <4>2 DEF ResolveWrite, LiveInv, aws
                  <4>3. ASSUME NEW u \in Workers, wk[u].pc = "record", JobDep[wk[u].job] = d
                        PROVE  FALSE
                        <5>1. u = w
                              BY <1>1, <2>2, <3>1, <3>2, <4>3, OneUnsettled DEF Unsettled, JobChat
                        <5>2. QED  BY <1>1, <2>2, <4>3, <5>1
                  <4>4. ~ \E u \in Workers : Supersedes(u, d)
                        BY <3>3 DEF Supersedes
                  <4>5. QED
                        BY <2>2, <3>1, <3>2, <3>3, <4>1, <4>2, <4>3, <4>4, LeavesLive
                           DEF MayHaveLiveResources
            <3>4. CASE dep[d].status = "cancelled" /\ infra[ChatOf[d]] # d
                  <4>1. dep'[d].status = "cancelled"
                        BY <3>4, StepsAreLegal DEF LegalStep, CanTransition, allowedTransitions
                  <4>2. CASE infra'[ChatOf[d]] # infra[ChatOf[d]]
                        BY <2>2, <3>1, <3>2, <3>4, <4>1, <4>2, InfraSteps, IdsAssumption
                  <4>3. QED  BY <2>2, <3>1, <3>2, <3>4, <4>1, <4>2
            <3>5. QED  BY <1>1, <2>2, <3>1, <3>2, <3>3, <3>4 DEF DestroyInv
      <2>3. ASSUME NEW j \in Jobs, Claim(w, j)  PROVE FALSE
            BY <1>1, <2>3 DEF Claim, TypeOK
      <2>4. QED  BY <1>1, <2>1, <2>2, <2>3, WorkerSteps
<1>2. QED  BY <1>1 DEF DestroyInv

-------------------------------------------------------------------------------
(* Until something fails, somebody is bound to move a moving deployment on *)

Doing(t) == CASE t = "plan"    -> "planning"
              [] t = "apply"   -> "applying"
              [] t = "destroy" -> "destroying"

(* The worker is yet to record what became of its job's deployment ...       *)
Pursues(w) ==
  wk[w].pc \in {"claimed", "destroy", "record", "fail", "requeued", "failed", "lost", "lostdep"}

(* ... or has ended the job.                                                 *)
HasEnded(w) ==
  wk[w].pc \in {"schedule", "lostdep", "requeued", "failed", "finish"}

Bound(d, t) ==
  \E j \in Jobs :
    /\ JobDep[j] = d /\ jobs[j].type = t
    /\ jobs[j].status = "pending" \/ \E w \in Workers : wk[w].job = j /\ Pursues(w)

Queues(d) == \E r \in Requests : req[r].pc = "queue" /\ req[r].dep = d

(* No job is orphaned, so none is reclaimed, and the job that moved a        *)
(* deployment, or that a request is about to queue for it, is still there.   *)
BoundInv ==
  /\ \A r \in Requests : req[r].pc # "drop"
  /\ faults = 0 =>
       /\ \A j \in Jobs : jobs[j].status = "running" => \E w \in Workers : wk[w].job = j
       /\ \A w \in Workers : stale[w] = {} /\ wk[w].pc # "settle"
       /\ \A w \in Workers : HasEnded(w) => jobs[wk[w].job].status # "running"
       /\ \A d \in Deps, t \in JobType :
            dep[d].status = Doing(t) => Bound(d, t) \/ (t = "destroy" /\ Queues(d))

LEMMA BoundInvSuffices ==
  ASSUME TypeOK, BoundInv
  PROVE  InFlightHasWork
<1> SUFFICES ASSUME faults = 0, NEW d \in Deps,
                    dep[d].status \in {"planning", "applying", "destroying"}
             PROVE  HasWork(d)
    BY DEF InFlightHasWork, NothingIsStranded
<1>1. PICK t \in JobType : dep[d].status = Doing(t)  BY DEF JobType, Doing
<1>2. CASE Queues(d)
      <2>1. PICK r \in Requests : req[r].pc = "queue" /\ req[r].dep = d  BY <1>2 DEF Queues
      <2>2. req[r] = [pc |-> "queue", dep |-> d]  BY <2>1 DEF TypeOK
      <2>3. QED  BY <2>2 DEF HasWork
<1>3. CASE Bound(d, t)
      BY <1>3 DEF Bound, HasWork
<1>4. QED  BY <1>1, <1>2, <1>3 DEF BoundInv

LEMMA Quiet ==
  ASSUME TypeOK, [Next]_vars, faults' = 0
  PROVE  faults = 0 /\ \A k : ~Fault(k)
BY SpentStays DEF TypeOK, Fault

(* A deployment at work accepts every end of its job. *)
LEMMA AcceptsEnd ==
  ASSUME OnePerChat, NEW d \in Deps, NEW t \in JobType, dep[d].status = Doing(t)
  PROVE  /\ Accepts(d, DoneStatus(t)) /\ Accepts(d, FailedStatus(t)) /\ Accepts(d, "unknown")
         /\ Doing(t) \notin {DoneStatus(t), FailedStatus(t), "unknown"}
<1>1. ChatOf[d] \in Chats  BY IdsAssumption
<1>2. dep[d].status \in InFlight  BY DEF Doing, InFlight, JobType
<1>3. \A e \in OfChat(ChatOf[d]) \ {d} : dep[e].status \notin InFlight
      BY <1>1, <1>2 DEF OnePerChat, OfChat
<1>4. \A s : ~IndexRejects(d, s)  BY <1>3 DEF IndexRejects
<1>5. \A s \in {DoneStatus(t), FailedStatus(t), "unknown"} :
        CanTransition(Doing(t), s) /\ s # Doing(t)
      BY DEF JobType, Doing, DoneStatus, FailedStatus, CanTransition, allowedTransitions
<1>6. QED  BY <1>4, <1>5 DEF Accepts

(* The worker of a deployment's job moves it on, or is still to do so, or    *)
(* has put the job back.                                                     *)
LEMMA Pursued ==
  ASSUME TypeOK, OnePerChat, HeldInv, [Next]_vars, faults' = 0,
         NEW w \in Workers, Work(w), Pursues(w),
         NEW j \in Jobs, j = wk[w].job,
         dep[JobDep[j]].status = Doing(jobs[j].type),
         dep'[JobDep[j]].status = Doing(jobs[j].type)
  PROVE  \/ Pursues(w)' /\ wk'[w].job = j
         \/ jobs'[j].status = "pending"
<1> DEFINE d == JobDep[j]
           t == jobs[j].type
<1>1. d \in Deps /\ t \in JobType  BY IdsAssumption DEF TypeOK, JobRow
<1>2. /\ ~BuildFails(w) /\ ~StatementFails(w)  BY Quiet DEF BuildFails, StatementFails
<1>3. ASSUME wk'[w].pc \in {"destroy", "record", "fail", "requeued", "failed", "lost", "lostdep"}
      PROVE  Pursues(w)' /\ wk'[w].job = j
      BY <1>3, WorkFlow DEF Pursues
<1>4. ASSUME NEW s \in {DoneStatus(t), FailedStatus(t), "unknown"}, dep' = Moved(d, s)
      PROVE  FALSE
      <2>1. dep'[d].status = s  BY <1>1, <1>4, MovedStatus
      <2>2. QED  BY <1>1, <2>1, AcceptsEnd
<1>5. CASE wk[w].pc = "claimed"
      <2>1. CASE DestroyBegin(w)
            <3>1. Accepts(d, "destroying")
                  BY <2>1 DEF DestroyBegin, Accepts, Doing
            <3>2. wk'[w].pc = "destroy"  BY <2>1, <3>1 DEF DestroyBegin, Goto, TypeOK
            <3>3. QED  BY <1>3, <3>2
      <2>2. CASE RunPlan(w) \/ RunApply(w)  BY <1>3, <2>2, RunLeads
      <2>3. QED  BY <1>2, <1>5, <2>1, <2>2, WorkAt
<1>6. CASE wk[w].pc = "destroy"  BY <1>3, <1>6, WorkAt, RunLeads
<1>7. CASE wk[w].pc = "record"
      <2>1. Record(w)  BY <1>2, <1>7, WorkAt
      <2>2. Accepts(d, DoneStatus(t))  BY <1>1, AcceptsEnd
      <2>3. wk'[w].pc = "succeed"  BY <2>1, <2>2 DEF Record, Goto, TypeOK
      <2>4. dep'[d].status = DoneStatus(t)  BY <2>3, Arrivals DEF Records
      <2>5. QED  BY <1>1, <2>4, AcceptsEnd
<1>8. CASE wk[w].pc \in {"fail", "lost"}
      BY <1>3, <1>8, WorkFlow DEF Flow
<1>9. CASE wk[w].pc = "requeued"
      <2>1. WasRequeued(w)  BY <1>2, <1>9, WorkAt
      <2>2. jobs' = jobs /\ wk'[w].pc = IF jobs[j].status = "pending" THEN "finish" ELSE "failed"
            BY <2>1 DEF WasRequeued, Goto, TypeOK, tables
      <2>3. QED  BY <1>3, <2>2
<1>10. CASE wk[w].pc = "failed"
      <2>1. FailDeployment(w)  BY <1>2, <1>10, WorkAt
      <2>2. dep' = Moved(d, FailedStatus(t))
            BY <1>1, <2>1, AcceptsEnd DEF FailDeployment
      <2>3. QED  BY <1>4, <2>2
<1>11. CASE wk[w].pc = "lostdep"
      <2>1. LoseDeployment(w)  BY <1>2, <1>11, WorkAt
      <2>2. dep' = Moved(d, "unknown")
            BY <1>1, <2>1, AcceptsEnd DEF LoseDeployment
      <2>3. QED  BY <1>4, <2>2
<1>12. QED  BY <1>5, <1>6, <1>7, <1>8, <1>9, <1>10, <1>11 DEF Pursues

(* Who queues the job of a teardown that a request has begun. *)
LEMMA QueueSteps ==
  ASSUME TypeOK, [Next]_vars, faults' = 0, NEW r \in Requests, req[r].pc = "queue"
  PROVE  req'[r] = req[r] \/ DestroyQueue(r)
<1>1. ASSUME NEW q \in Requests, Request(q), q # r  PROVE req'[r] = req[r]
      BY <1>1 DEF Request, DestroyRead, CancelRead, ResolveRead, DestroyMark, DestroyQueue,
         CancelWrite, ResolveDrop, ResolveWrite, Abandon, Answer, TypeOK
<1>2. CASE Request(r)
      BY <1>2, Quiet DEF Request, DestroyRead, CancelRead, ResolveRead, DestroyMark,
         CancelWrite, ResolveDrop, ResolveWrite, Abandon
<1>3. ASSUME NEW w \in Workers, Worker(w)  PROVE req' = req
      <2>1. CASE Work(w)
            BY <2>1 DEF Work, BuildFails, DestroyBegin, DestroySkip, RunPlan, RunApply,
               RunDestroy, Record, Succeed, ScheduleTeardown, Disown, LoseJob, LoseDeployment,
               Fail, WasRequeued, FailDeployment, Finish, Settle, StatementFails, SettleFails
      <2>2. CASE ~Work(w)
            BY <1>3, <2>2 DEF Worker, Claim, Reconcile, Reclaim, Sweep, Crash
      <2>3. QED  BY <2>1, <2>2
<1>4. QED
      BY <1>1, <1>2, <1>3 DEF Next, Create, Approve, LoseWorkspace, vars

(* The statements that put a deployment to work leave a job for it. *)
LEMMA PutsToWork ==
  ASSUME TypeOK, OnePerChat, [Next]_vars, NEW d \in Deps, NEW t \in JobType,
         dep'[d].status = Doing(t), dep[d].status # Doing(t)
  PROVE  Bound(d, t)' \/ (t = "destroy" /\ Queues(d)')
<1>1. ASSUME NEW e \in Deps, UnusedJobs(e) # {}, jobs' = Inserted(e, t), d = e
      PROVE  Bound(d, t)'
      BY <1>1, NewJobUnused DEF Inserted, Bound, TypeOK
<1>2. StatusMove(d)  BY StatusMoves
<1>3. ASSUME NEW c \in Chats, Create(c), d = NewDep(c), dep'[d].status = "planning"
      PROVE  Bound(d, t)'
      <2>1. t = "plan"  BY <1>3 DEF Doing, JobType
      <2>2. UnusedJobs(d) # {} /\ jobs' = Inserted(d, "plan")  BY <1>3 DEF Create
      <2>3. QED  BY <1>1, <2>1, <2>2
<1>4. ASSUME NEW h \in 1..MaxAttempts, Approve(d, h), dep'[d].status = "applying"
      PROVE  Bound(d, t)'
      <2>1. t = "apply"  BY <1>4 DEF Doing, JobType
      <2>2. UnusedJobs(d) # {} /\ jobs' = Inserted(d, "apply")  BY <1>4 DEF Approve, Spare
      <2>3. QED  BY <1>1, <2>1, <2>2
<1>5. ASSUME NEW r \in Requests, RequestChanges(r, d)
      PROVE  t = "destroy" /\ Queues(d)'
      <2>1. t = "destroy" /\ DestroyMark(r) /\ req[r].dep = d
            BY <1>5 DEF RequestChanges, Doing, JobType
      <2>2. dep' # dep  OBVIOUS
      <2>3. req' = [req EXCEPT ![r].pc = "queue"]  BY <2>1, <2>2 DEF DestroyMark
      <2>4. QED  BY <2>1, <2>3 DEF Queues, TypeOK
<1>6. ASSUME NEW w \in Workers, WorkChanges(w, d)
      PROVE  Bound(d, t)'
      <2>1. jobs[wk[w].job].type \in JobType  BY <1>6 DEF WorkChanges, TypeOK, JobRow
      <2>2. t = "destroy" /\ DestroyBegin(w)
            BY <1>6, <2>1 DEF WorkChanges, Records, DoneStatus, FailedStatus, Doing, JobType
      <2>3. dep' # dep  OBVIOUS
      <2>4. /\ wk'[w].pc = "destroy" /\ wk'[w].job = wk[w].job /\ jobs' = jobs
            /\ jobs[wk[w].job].type = "destroy"
            BY <2>2, <2>3 DEF DestroyBegin, Goto, TypeOK
      <2>5. QED  BY <1>6, <2>2, <2>4 DEF WorkChanges, Bound, Pursues
<1>7. Doing(t) \in {"planning", "applying", "destroying"}  BY DEF Doing, JobType
<1>8. QED
      BY <1>2, <1>3, <1>4, <1>5, <1>6, <1>7 DEF StatusMove, Supersedes

LEMMA NextBoundInv ==
  ASSUME "resolve" \notin Ops, ~Stalls, TypeOK, OnePerChat, ClaimInv, HeldInv, RunningInv,
         BoundInv, [Next]_vars
  PROVE  BoundInv'
<1>1. ASSUME NEW r \in Requests, req'[r].pc = "drop"  PROVE FALSE
      <2>1. \A d \in Deps : ~ResolveRead(r, d)  BY DEF ResolveRead
      <2>2. QED  BY <1>1, <2>1, RequestSteps DEF BoundInv
<1>2. CASE faults' # 0  BY <1>1, <1>2 DEF BoundInv
<1>3. CASE faults' = 0
      <2>0. /\ \A j \in Jobs : jobs[j].status = "running" => \E w \in Workers : wk[w].job = j
            /\ \A w \in Workers : stale[w] = {} /\ wk[w].pc # "settle"
            /\ \A w \in Workers : HasEnded(w) => jobs[wk[w].job].status # "running"
            /\ \A d \in Deps, t \in JobType :
                 dep[d].status = Doing(t) => Bound(d, t) \/ (t = "destroy" /\ Queues(d))
            /\ \A w \in Workers : ~Crash(w) /\ ~BuildFails(w) /\ ~StatementFails(w)
            BY <1>3, Quiet DEF BoundInv, Crash, BuildFails, StatementFails
      <2>1. \A j \in Jobs : ~IsStale(j)  BY <2>0 DEF IsStale, Handles
      <2>2. ASSUME NEW w \in Workers, Work(w), wk'[w].job # wk[w].job
            PROVE  /\ wk[w].pc = "finish" /\ Finish(w) /\ jobs' = jobs
                   /\ wk[w].job \in Jobs /\ jobs[wk[w].job].status # "running"
            <3>1. <<wk[w].pc, wk'[w].pc>> \in Flow /\ wk'[w].pc = "idle"
                  BY <2>2, WorkFlow
            <3>2. wk[w].pc \in {"claimed", "finish"}
                  BY <2>0, <3>1 DEF Flow
            <3>3. wk[w].pc # "claimed"
                  <4>1. ASSUME DestroyBegin(w)  PROVE wk'[w].pc # "idle"
                        BY <4>1 DEF DestroyBegin, Goto, TypeOK
                  <4>2. QED  BY <2>0, <2>2, <3>1, <4>1, WorkAt, RunLeads
            <3>4. Finish(w) /\ wk[w].pc = "finish"  BY <2>2, <3>2, <3>3, WorkAt
            <3>5. jobs' = jobs /\ wk[w].job \in Jobs  BY <3>4, JobInHand DEF Finish, tables
            <3>6. QED  BY <2>0, <3>4, <3>5 DEF HasEnded
      <2>3. ASSUME NEW j \in Jobs, jobs'[j].status = "running"
            PROVE  \E w \in Workers : wk'[w].job = j
            <3>1. CASE jobs[j].status = "running"
                  <4>1. PICK w \in Workers : wk[w].job = j  BY <2>0, <3>1
                  <4>2. wk[w].pc \notin {"idle", "reconcile"}
                        BY <4>1, IdsAssumption DEF TypeOK
                  <4>3. wk'[w].job = j
                        <5>1. CASE Work(w)  BY <2>2, <3>1, <4>1, <5>1
                        <5>2. ASSUME NEW i \in Jobs, Claim(w, i)  PROVE FALSE
                              BY <4>2, <5>2 DEF Claim
                        <5>3. QED  BY <2>0, <4>1, <4>2, <5>1, <5>2, WorkerSteps
                  <4>4. QED  BY <4>3
            <3>2. CASE jobs[j].status # "running"
                  <4>1. ~ \E w \in Workers : wk[w].job = j /\ Ends(w)
                        BY <2>3, <3>2 DEF Ends, SetJob, TypeOK, JobRow
                  <4>2. PICK w \in Workers : Claim(w, j)
                        BY <2>3, <3>2, <4>1, JobStatusSteps
                  <4>3. QED  BY <4>2 DEF Claim, TypeOK
            <3>3. QED  BY <3>1, <3>2
      <2>4. ASSUME NEW w \in Workers, stale'[w] # {} \/ wk'[w].pc = "settle"
            PROVE  FALSE
            <3>1. CASE stale'[w] # {}
                  <4>1. PICK j \in stale'[w] : TRUE  BY <3>1
                  <4>2. Reclaim(w) /\ IsStale(j)  BY <2>0, <4>1, StaleSteps
                  <4>3. j \in Jobs  BY <4>1, <4>2 DEF Reclaim, TypeOK
                  <4>4. QED  BY <2>1, <4>2, <4>3
            <3>2. CASE wk'[w].pc = "settle"
                  <4>1. Work(w)
                        <5>1. ASSUME NEW j \in Jobs, Claim(w, j)  PROVE FALSE
                              BY <3>2, <5>1 DEF Claim, TypeOK
                        <5>2. QED  BY <2>0, <3>2, <5>1, WorkerSteps
                  <4>2. wk[w].pc = "finish"  BY <3>2, <4>1, WorkFlow DEF Flow
                  <4>3. Finish(w)  BY <4>1, <4>2, WorkAt
                  <4>4. jobs[wk[w].job].status # "running"  BY <2>0, <4>2 DEF HasEnded
                  <4>5. wk' = [wk EXCEPT ![w] = IdleWorker]  BY <4>3, <4>4 DEF Finish
                  <4>6. QED  BY <3>2, <4>5 DEF IdleWorker, TypeOK
            <3>3. QED  BY <2>4, <3>1, <3>2
      <2>5. ASSUME NEW w \in Workers, HasEnded(w)'
            PROVE  \E j \in Jobs : j = wk'[w].job /\ jobs'[j].status # "running"
            <3>1. wk'[w] = wk[w] \/ Work(w)
                  <4>1. ASSUME NEW j \in Jobs, Claim(w, j)  PROVE FALSE
                        BY <2>5, <4>1 DEF Claim, TypeOK, HasEnded
                  <4>2. QED  BY <2>0, <2>5, <4>1, WorkerSteps DEF HasEnded
            <3>2. wk'[w].job = wk[w].job  BY <2>5, <3>1, WorkFlow DEF HasEnded
            <3>3. PICK j \in Jobs : j = wk[w].job
                  <4>1. wk[w].pc \notin {"idle", "reconcile"}
                        BY <2>5, <3>1, WorkFlow DEF HasEnded, Flow
                  <4>2. QED  BY <4>1, JobInHand
            <3>4. CASE jobs[j].status # "running"
                  <4>1. ASSUME NEW u \in Workers, Claim(u, j)  PROVE FALSE
                        BY <3>3, <4>1 DEF Claim, Handles
                  <4>2. ASSUME NEW u \in Workers, wk[u].job = j, Ends(u)
                        PROVE  jobs'[j].status # "running"
                        BY <4>2 DEF Ends, SetJob, TypeOK, JobRow
                  <4>3. jobs'[j].status # "running"
                        BY <2>1, <3>4, <4>1, <4>2, JobStatusSteps
                  <4>4. QED  BY <3>2, <3>3, <4>3
            <3>5. CASE jobs[j].status = "running"
                  <4>1. ~HasEnded(w) /\ Work(w)  BY <2>0, <2>5, <3>1, <3>3, <3>5 DEF HasEnded
                  <4>2. \/ wk[w].pc = "skip" \/ wk[w].pc = "succeed" \/ wk[w].pc = "disown"
                        \/ wk[w].pc = "lost" \/ wk[w].pc = "fail"
                        BY <2>5, <4>1, WorkFlow DEF HasEnded, Flow
                  <4>3. \E s \in JobStatus \ {"running"} : SetJob(j, s)
                        BY <2>0, <3>3, <4>1, <4>2, WorkAt, <1>3, Quiet
                           DEF DestroySkip, Succeed, Disown, LoseJob, Fail, JobStatus
                  <4>4. jobs'[j].status # "running"  BY <4>3 DEF SetJob, TypeOK, JobRow
                  <4>5. QED  BY <3>2, <3>3, <4>4
            <3>6. QED  BY <3>4, <3>5
      <2>6. ASSUME NEW d \in Deps, NEW t \in JobType, dep'[d].status = Doing(t)
            PROVE  Bound(d, t)' \/ (t = "destroy" /\ Queues(d)')
            <3>1. CASE dep[d].status # Doing(t)  BY <2>6, <3>1, PutsToWork
            <3>2. ASSUME dep[d].status = Doing(t), t = "destroy", Queues(d)
                  PROVE  Bound(d, t)' \/ Queues(d)'
                  <4>1. PICK r \in Requests : req[r].pc = "queue" /\ req[r].dep = d
                        BY <3>2 DEF Queues
                  <4>2. CASE req'[r] = req[r]  BY <4>1, <4>2 DEF Queues
                  <4>3. CASE DestroyQueue(r)
                        BY <3>2, <4>1, <4>3, NewJobUnused DEF DestroyQueue, Inserted, Bound, TypeOK
                  <4>4. QED  BY <1>3, <4>1, <4>2, <4>3, QueueSteps
            <3>3. ASSUME dep[d].status = Doing(t), Bound(d, t)
                  PROVE  Bound(d, t)'
                  <4>1. PICK j \in Jobs :
                          /\ JobDep[j] = d /\ jobs[j].type = t
                          /\ \/ jobs[j].status = "pending"
                             \/ \E w \in Workers : wk[w].job = j /\ Pursues(w)
                        BY <3>3 DEF Bound
                  <4>2. Queued(j) /\ jobs'[j].type = t
                        <5>1. Queued(j)  BY <4>1 DEF Queued, HeldInv
                        <5>2. QED  BY <4>1, <5>1, QueuedStays
                  <4>3. ASSUME NEW w \in Workers, wk'[w].job = j, Pursues(w)'
                        PROVE  Bound(d, t)'
                        BY <4>1, <4>2, <4>3 DEF Bound
                  <4>4. ASSUME jobs'[j].status = "pending"
                        PROVE  Bound(d, t)'
                        BY <4>1, <4>2, <4>4 DEF Bound
                  <4>5. ASSUME NEW w \in Workers, wk[w].job = j, Pursues(w)
                        PROVE  Bound(d, t)'
                        <5>1. CASE wk'[w] = wk[w]  BY <4>3, <4>5, <5>1 DEF Pursues
                        <5>2. CASE Work(w)
                              BY <1>3, <2>6, <3>3, <4>1, <4>3, <4>4, <4>5, <5>2, Pursued
                        <5>3. ~ \E i \in Jobs : Claim(w, i)  BY <4>5 DEF Claim, Pursues
                        <5>4. QED  BY <2>0, <4>5, <5>1, <5>2, <5>3, WorkerSteps DEF Pursues
                  <4>6. CASE jobs[j].status = "pending" /\ jobs'[j].status # "pending"
                        <5>1. ~ \E r \in Requests : ResolveDrop(r)
                              BY DEF BoundInv, ResolveDrop
                        <5>2. ASSUME NEW w \in Workers, Claim(w, j)
                              PROVE  Bound(d, t)'
                              BY <4>3, <5>2 DEF Claim, Pursues, TypeOK
                        <5>3. ASSUME NEW w \in Workers, Work(w), wk[w].job = j
                              PROVE  Bound(d, t)'
                              <6>1. jobs[j].status # "running"  BY <4>6
                              <6>2. wk[w].pc \notin {"idle", "reconcile"}
                                    BY <5>3, IdsAssumption DEF TypeOK
                              <6>3. ~Unsettled(w)  BY <5>3, <6>1 DEF RunningInv
                              <6>4. CASE Pursues(w)  BY <4>5, <5>3, <6>4
                              <6>5. CASE wk[w].pc \in {"schedule", "finish"}
                                    <7>1. jobs'[j].status = "pending"
                                          <8>1. CASE Finish(w)  BY <4>6, <8>1 DEF Finish, tables
                                          <8>2. CASE ScheduleTeardown(w)
                                                BY <4>6, <5>3, <8>2, IdsAssumption, NewJobUnused
                                                   DEF ScheduleTeardown, Inserted, TypeOK
                                          <8>3. QED  BY <2>0, <5>3, <6>5, <8>1, <8>2, WorkAt
                                    <7>2. QED  BY <4>4, <7>1
                              <6>6. QED
                                    BY <2>0, <6>2, <6>3, <6>4, <6>5
                                       DEF Unsettled, Pursues, TypeOK, WorkerPC
                        <5>4. QED
                              BY <2>1, <4>6, <5>1, <5>2, <5>3, JobStatusSteps
                  <4>7. QED  BY <4>1, <4>4, <4>5, <4>6
            <3>4. QED  BY <2>0, <2>6, <3>1, <3>2, <3>3
      <2>7. \A w \in Workers : HasEnded(w)' => jobs'[wk'[w].job].status # "running"
            BY <2>5
      <2>8. QED  BY <1>1, <2>3, <2>4, <2>6, <2>7 DEF BoundInv, HasEnded
<1>4. QED  BY <1>2, <1>3

-------------------------------------------------------------------------------
(* These invariants hold in every state *)

LEMMA SettledInvHolds == Spec => []SettledInv
<1>1. Init => SettledInv
      <2> SUFFICES ASSUME Init PROVE SettledInv  OBVIOUS
      <2>1. /\ \A w \in Workers : wk[w].pc = "idle"
            /\ \A j \in Jobs : ~Queued(j)
            /\ \A r \in Requests : req[r].pc = "none"
            /\ \A d \in Deps : dep[d].status = "none"
            BY DEF Init, IdleWorker, NoRequest, Queued
      <2>2. QED
            BY <2>1 DEF SettledInv, PastInv, ApplyRecorded, ApplyJobInv, IsApply, OverInv, Over,
               HashedInv, Busy
<1>2. TypeOK /\ OnePerChat /\ ApprovedInv /\ SettledInv /\ [Next]_vars => SettledInv'
      BY NextPastInv, NextApplyJobInv, NextOverInv, NextHashedInv DEF SettledInv, ApprovedInv
<1>3. QED
      BY <1>1, <1>2, TypeCorrect, OnePerChatHolds, ApprovedInvHolds, PTL DEF Spec

LEMMA RunningInvHolds ==
  ASSUME "stall" \notin Faults
  PROVE  Spec => []RunningInv
<1>1. Init => RunningInv  BY DEF Init, IdleWorker, RunningInv, Unsettled
<1>2. TypeOK /\ ClaimInv /\ RunningInv /\ [Next]_vars => RunningInv'
      BY NextRunningInv DEF Stalls
<1>3. QED  BY <1>1, <1>2, TypeCorrect, ClaimsExclude, PTL DEF Spec

LEMMA LockedInvHolds ==
  ASSUME Steady
  PROVE  Spec => []LockedInv
<1>1. "stall" \notin Faults  BY DEF Steady
<1>2. Init => SettlingInv /\ LockInv
      <2> SUFFICES ASSUME Init PROVE SettlingInv /\ LockInv  OBVIOUS
      <2>1. /\ \A w \in Workers : wk[w].pc = "idle" /\ stale[w] = {}
            /\ \A j \in Jobs : jobs[j].status = "none"
            BY DEF Init, IdleWorker
      <2>2. QED  BY <2>1 DEF SettlingInv, LockInv, IsApply, Queued
<1>3. TypeOK /\ ApprovedInv /\ SettlingInv /\ [Next]_vars => SettlingInv'
      BY NextSettlingInv
<1>4. TypeOK /\ OnePerChat /\ ClaimInv /\ ApprovedInv /\ SettledInv /\ SettlingInv /\ LockInv
        /\ [Next]_vars => LockInv'
      BY NextLockInv
<1>5. QED
      BY <1>1, <1>2, <1>3, <1>4, TypeCorrect, OnePerChatHolds, ClaimsExclude, ApprovedInvHolds,
         RunningInvHolds, SettledInvHolds, PTL DEF Spec, LockedInv

(* While an apply runs that Terraform can carry out, its deployment is      *)
(* 'applying' and so holds its chat's lock: no crash, retry, reclaim or      *)
(* resolution takes it away meanwhile.  Steady is needed: when a plan is     *)
(* recorded and its job is left running, because the worker died in between  *)
(* or because two statements failed, the job is reclaimed during the apply.  *)
THEOREM ApplyKeepsLock ==
  ASSUME Steady
  PROVE  Spec => []ApplyHoldsLock
<1>1. TypeOK /\ LockedInv => ApplyHoldsLock
      BY LockInvSuffices DEF LockedInv, ApprovedInv
<1>2. QED  BY <1>1, TypeCorrect, LockedInvHolds, PTL

(* From the moment a plan is offered until it is approved, replaced or      *)
(* cancelled, its file stays as it was hashed and Terraform still accepts    *)
(* it, unless the disk is lost: nothing else changes the chat's              *)
(* infrastructure, and neither the sweep nor another job removes the file.   *)
THEOREM AwaitedPlanStays ==
  ASSUME Steady
  PROVE  Spec => []AwaitedPlanStaysValid
<1>1. ~Stalls  BY DEF Steady, Stalls
<1>2. Init => AwaitInv
      BY DEF Init, IdleWorker, AwaitInv, Planned, AwaitedPlanStaysValid
<1>3. TypeOK /\ LockedInv /\ AwaitInv /\ [Next]_vars => AwaitInv'
      BY <1>1, NextAwaitInv
<1>4. QED
      BY <1>2, <1>3, TypeCorrect, LockedInvHolds, PTL DEF Spec, AwaitInv

LEMMA LiveInvHolds ==
  ASSUME Steady, "cancel" \notin Ops
  PROVE  Spec => []LiveInv
<1>1. Init => LiveInv
      BY IdsAssumption DEF Init, IdleWorker, NoRequest, LiveInv, LiveIsRecorded
<1>2. TypeOK /\ LockedInv /\ LiveInv /\ [Next]_vars => LiveInv'
      BY NextLiveInv
<1>3. QED  BY <1>1, <1>2, TypeCorrect, LockedInvHolds, PTL DEF Spec

(* Whatever an apply has created, or may have, some deployment says so in    *)
(* its status, until a teardown has removed it, a newer apply has taken it   *)
(* over or a person has resolved it: through retries, lost runs, crashes and *)
(* racing destroy and resolve requests.  A cancel request is left out, for   *)
(* it can lose an apply that failed after the request's check.               *)
THEOREM LiveStaysRecorded ==
  ASSUME Steady, "cancel" \notin Ops
  PROVE  Spec => []LiveIsRecorded
BY LiveInvHolds, PTL DEF LiveInv

(* Terraform destroys only for a deployment whose teardown has begun and     *)
(* which is still recorded as possibly live, or which a person has resolved  *)
(* meanwhile when nothing of it was left.                                    *)
THEOREM DestroysWhatIsTornDown ==
  ASSUME Steady, "cancel" \notin Ops
  PROVE  Spec => []DestroyOnlyTornDown
<1>1. Init => DestroyInv  BY DEF Init, IdleWorker, DestroyInv
<1>2. TypeOK /\ LockedInv /\ LiveInv /\ DestroyInv /\ [Next]_vars => DestroyInv'
      BY NextDestroyInv
<1>3. DestroyInv => DestroyOnlyTornDown
      BY DEF DestroyInv, DestroyOnlyTornDown, InTerraform
<1>4. QED
      BY <1>1, <1>2, <1>3, TypeCorrect, LockedInvHolds, LiveInvHolds, PTL DEF Spec

(* Until a fault, every deployment that is planned, applied or torn down has *)
(* a job queued or in hand, or a request about to queue one: none holds its  *)
(* chat's lock for work nobody will do.  A resolve request is left out, for  *)
(* it drops a teardown that was queued after the request's check.            *)
THEOREM MovingHasWork ==
  ASSUME "stall" \notin Faults, "resolve" \notin Ops
  PROVE  Spec => []InFlightHasWork
<1>1. ~Stalls  BY DEF Stalls
<1>2. Init => BoundInv
      <2>1. \A t \in JobType : Doing(t) # "none"  BY DEF Doing, JobType
      <2>2. QED  BY <2>1 DEF Init, IdleWorker, NoRequest, BoundInv, HasEnded
<1>3. TypeOK /\ OnePerChat /\ ClaimInv /\ ApprovedInv /\ RunningInv /\ BoundInv /\ [Next]_vars
        => BoundInv'
      BY <1>1, NextBoundInv DEF ApprovedInv
<1>4. TypeOK /\ BoundInv => InFlightHasWork  BY BoundInvSuffices
<1>5. QED
      BY <1>2, <1>3, <1>4, TypeCorrect, OnePerChatHolds, ClaimsExclude, ApprovedInvHolds,
         RunningInvHolds, PTL DEF Spec

===============================================================================
