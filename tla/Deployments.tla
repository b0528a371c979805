------------------------------ MODULE Deployments ------------------------------
(***************************************************************************)
(* The deployment pipeline: the deployments and jobs tables, the HTTP      *)
(* requests of internal/deployment/service.go that write them, the workers *)
(* of internal/deployment/worker.go, and the Terraform runs they start.    *)
(*                                                                         *)
(* One step is one database transaction, or one Terraform run.  Between    *)
(* any two of them other requests and workers interleave, the process may  *)
(* die, and the statement itself may fail: those faults draw on MaxFaults. *)
(* Deployment and job ids are fresh UUIDs, so the chat (the deployment) an *)
(* id will be inserted for is fixed in advance by ChatOf (JobDep).         *)
(***************************************************************************)
EXTENDS Naturals, FiniteSets, DeploymentStatus

CONSTANTS
  Chats,        \* chats; each has one Terraform state
  Deps, ChatOf, \* deployment ids, and the chat each belongs to
  Jobs, JobDep, \* job ids, and the deployment each works for
  Workers,      \* worker goroutines, one per process
  Requests,     \* HTTP requests that can be in progress at once
  Ops,          \* kinds of multi-step request users make
  MaxAttempts,  \* jobs.max_attempts
  Faults,       \* kinds of fault that may happen, among FaultKinds
  MaxFaults,    \* bound on their number in a behaviour
  Teardown,     \* whether TEARDOWN_AFTER > 0
  Nothing,      \* "no infrastructure"
  NoJob, NoDep

ASSUME IdsAssumption ==
  /\ ChatOf \in [Deps -> Chats]
  /\ JobDep \in [Jobs -> Deps]
  /\ Nothing \notin Deps
  /\ NoJob \notin Jobs
  /\ NoDep \notin Deps

(* crash:         a worker's process dies                                   *)
(* half_recorded: ... after moving its deployment, before settling its job  *)
(* statement:     a database statement of a worker fails                    *)
(* precondition:  buildRequest fails                                        *)
(* abandon:       a request is cut short between two of its statements      *)
(* disk:          a workspace is lost                                       *)
(* stall:         a worker pauses between two statements for longer than    *)
(*                BaseBackoff, or JOB_STALE_AFTER - DEPLOY_MAX_RUN_TIME     *)
(*                (not counted by MaxFaults: it is a matter of timing)      *)
FaultKinds == {"crash", "half_recorded", "statement", "precondition",
               "abandon", "disk", "stall"}

ASSUME BoundsAssumption ==
  /\ MaxAttempts \in Nat \ {0}
  /\ Faults \subseteq FaultKinds
  /\ MaxFaults \in Nat
  /\ Teardown \in BOOLEAN
  /\ Ops \subseteq {"destroy", "cancel", "resolve"}

VARIABLES
  dep,    \* deployments table: status, plan_hash, approved_at set?
  jobs,   \* jobs table: type, status, attempts
  wk,     \* per worker: program counter, job in hand, outcome of its run
  stale,  \* per worker: reclaimed jobs whose deployment it has yet to mark
  req,    \* per request slot: the statement it issues next, its deployment
  saved,  \* workspaces: which attempt's plan file is there (0: none)
  fresh,  \* deployments whose plan no step of the program has removed since
          \* it was made, nor outdated by changing the chat's state
  infra,  \* per chat: the deployment whose apply last touched AWS, or Nothing
  faults  \* faults so far

vars == <<dep, jobs, wk, stale, req, saved, fresh, infra, faults>>
tables == <<dep, jobs>>
aws == <<saved, fresh, infra>>

-------------------------------------------------------------------------------
(* State formulae *)

DepRow == [status: Status \cup {"none"}, hash: Nat, approved: BOOLEAN]
JobRow == [type: JobType, status: JobStatus \cup {"none"}, attempts: Nat]

(* What a Terraform run reports, by the two flags of awsfail.Failure that  *)
(* the worker branches on: "retry" is retryable and determinate, "refused" *)
(* determinate and final, "lost" indeterminate.                            *)
Outcome == {"ok", "retry", "refused", "lost"}

WorkerPC == {"idle", "claimed", "skip", "destroy", "record", "succeed",
             "schedule", "disown", "fail", "requeued", "failed", "lost",
             "lostdep", "finish", "settle", "reconcile"}

RequestPC == {"none", "destroy", "queue", "cancel", "drop", "resolve"}

OfChat(c) == {d \in Deps : ChatOf[d] = c}
JobChat(j) == ChatOf[JobDep[j]]

UnusedDeps(c) == {d \in OfChat(c) : dep[d].status = "none"}
UnusedJobs(d) == {j \in Jobs : JobDep[j] = d /\ jobs[j].status = "none"}
NewDep(c) == CHOOSE d \in UnusedDeps(c) : TRUE
NewJob(d) == CHOOSE j \in UnusedJobs(d) : TRUE

(* The bound on jobs leaves n rows to a new request for d, beyond those the *)
(* requests and the apply under way will still insert.                      *)
Spare(d, n) ==
  LET queuing  == {r \in Requests : req[r].dep = d /\ req[r].pc \in {"destroy", "queue"}}
      applying == {j \in Jobs : /\ JobDep[j] = d /\ jobs[j].type = "apply"
                                /\ \/ jobs[j].status \in {"pending", "running"}
                                   \/ \E w \in Workers : wk[w].job = j}
  IN  /\ UnusedJobs(d) # {}
      /\ Cardinality(UnusedJobs(d))
           >= n + Cardinality(queuing) + IF Teardown THEN Cardinality(applying) ELSE 0

IdleWorker == [pc |-> "idle", job |-> NoJob, out |-> "ok"]
NoRequest == [pc |-> "none", dep |-> NoDep]

(* Between the claim and the end of the Terraform run: here the job is not  *)
(* stale, for DEPLOY_MAX_RUN_TIME ends the run before JOB_STALE_AFTER.      *)
Running(w) == wk[w].pc \in {"claimed", "destroy"}

(* Inside Terraform.  A destroy first moves its deployment. *)
InTerraform(w, t) ==
  /\ Running(w)
  /\ jobs[wk[w].job].type = t
  /\ wk[w].pc = "destroy" <=> t = "destroy"

Handles(w, j) == wk[w].job = j

(* Mutant: the index leaves 'destroying' out. *)
IndexForgetsDestroying(d, s) ==
  /\ s \in InFlight \ {"destroying"}
  /\ \E e \in OfChat(ChatOf[d]) \ {d} : dep[e].status \in InFlight

(* deployments_one_inflight_per_chat would reject status s for d. *)
IndexRejects(d, s) ==
  /\ s \in InFlight
  /\ \E e \in OfChat(ChatOf[d]) \ {d} : dep[e].status \in InFlight

(* Mutant: Transition leaves the check to the index. *)
AcceptsIllegal(d, s) == ~IndexRejects(d, s)

(* DeploymentStore.Transition commits, and what it writes. *)
Accepts(d, s) == \/ dep[d].status = s
                 \/ CanTransition(dep[d].status, s) /\ ~IndexRejects(d, s)

(* Mutant: the earlier deployment stays 'applied'. *)
SupersededNever(d, s) == {}

Superseded(d, s) ==
  IF s = "applied" /\ dep[d].status # s
  THEN {e \in OfChat(ChatOf[d]) \ {d} : dep[e].status = "applied"}
  ELSE {}

Moved(d, s) ==
  [e \in Deps |-> IF e = d THEN [dep[e] EXCEPT !.status = s]
                  ELSE IF e \in Superseded(d, s)
                       THEN [dep[e] EXCEPT !.status = "superseded"]
                       ELSE dep[e]]

(* Mutant: the row takes the status of its deployment. *)
InsertedPlanning(d, t) ==
  [jobs EXCEPT ![NewJob(d)] = [type |-> t, status |-> "planning", attempts |-> 0]]

(* insertJob *)
Inserted(d, t) ==
  [jobs EXCEPT ![NewJob(d)] = [type |-> t, status |-> "pending", attempts |-> 0]]

SetJob(j, s) == jobs' = [jobs EXCEPT ![j].status = s]
Goto(w, pc) == wk' = [wk EXCEPT ![w].pc = pc]
Answer(r) == req' = [req EXCEPT ![r] = NoRequest]
Fault(kind) == kind \in Faults /\ faults < MaxFaults /\ faults' = faults + 1
Stalls == "stall" \in Faults

Init ==
  /\ dep = [d \in Deps |-> [status |-> "none", hash |-> 0, approved |-> FALSE]]
  /\ jobs = [j \in Jobs |-> [type |-> "plan", status |-> "none", attempts |-> 0]]
  /\ wk = [w \in Workers |-> IdleWorker]
  /\ stale = [w \in Workers |-> {}]
  /\ req = [r \in Requests |-> NoRequest]
  /\ saved = [d \in Deps |-> 0]
  /\ fresh = {}
  /\ infra = [c \in Chats |-> Nothing]
  /\ faults = 0

-------------------------------------------------------------------------------
(* Requests *)

(* Plan: DeploymentStore.Create, one transaction under the chat's row lock.  *)
(* The reads before it (chat, config version, connection) touch no state     *)
(* modelled here; a refusal there is this action not happening.              *)
Create(c) ==
  LET d == NewDep(c)
  IN  /\ UnusedDeps(c) # {}
      /\ UnusedJobs(d) # {}
      /\ \A e \in OfChat(c) : dep[e].status \notin InFlight \ {"awaiting_approval"}
      /\ dep' = [e \in Deps |->
                   IF e = d THEN [dep[e] EXCEPT !.status = "planning"]
                   ELSE IF ChatOf[e] = c /\ dep[e].status = "awaiting_approval"
                        THEN [dep[e] EXCEPT !.status = "cancelled"]
                        ELSE dep[e]]
      /\ jobs' = Inserted(d, "plan")
      /\ UNCHANGED <<wk, stale, req, aws, faults>>

(* Approve with the hash the user was shown: ApproveAndQueueApply. *)
Approve(d, h) ==
  /\ dep[d].status = "awaiting_approval"
  /\ dep[d].hash # 0 /\ dep[d].hash = h
  /\ Spare(d, IF Teardown THEN 2 ELSE 1)
  /\ dep' = [dep EXCEPT ![d].status = "applying", ![d].approved = TRUE]
  /\ jobs' = Inserted(d, "apply")
  /\ UNCHANGED <<wk, stale, req, aws, faults>>

(* Destroy reads and checks, moves the deployment, then queues the job. *)
DestroyRead(r, d) ==
  /\ "destroy" \in Ops
  /\ req[r].pc = "none"
  /\ CanTransition(dep[d].status, "destroying")
  /\ Spare(d, 1)
  /\ req' = [req EXCEPT ![r] = [pc |-> "destroy", dep |-> d]]
  /\ UNCHANGED <<tables, wk, stale, aws, faults>>

DestroyMark(r) ==
  /\ req[r].pc = "destroy"
  /\ IF Accepts(req[r].dep, "destroying")
     THEN /\ dep' = Moved(req[r].dep, "destroying")
          /\ req' = [req EXCEPT ![r].pc = "queue"]
     ELSE Answer(r) /\ UNCHANGED dep
  /\ UNCHANGED <<jobs, wk, stale, aws, faults>>

DestroyQueue(r) ==
  /\ req[r].pc = "queue"
  /\ UnusedJobs(req[r].dep) # {}
  /\ jobs' = Inserted(req[r].dep, "destroy")
  /\ Answer(r)
  /\ UNCHANGED <<dep, wk, stale, aws, faults>>

(* Cancel reads and checks, then moves the deployment. *)
CancelRead(r, d) ==
  /\ "cancel" \in Ops
  /\ req[r].pc = "none"
  /\ dep[d].status \notin MayHaveLiveResources \cup {"none"}
  /\ req' = [req EXCEPT ![r] = [pc |-> "cancel", dep |-> d]]
  /\ UNCHANGED <<tables, wk, stale, aws, faults>>

CancelWrite(r) ==
  /\ req[r].pc = "cancel"
  /\ dep' = IF Accepts(req[r].dep, "cancelled")
            THEN Moved(req[r].dep, "cancelled") ELSE dep
  /\ Answer(r)
  /\ UNCHANGED <<jobs, wk, stale, aws, faults>>

Resolvable(d) == dep[d].status \in {"unknown", "apply_failed", "destroy_failed"}

(* Resolve: a person has looked in AWS, and nothing of d remains there.  It *)
(* reads and checks, drops the queued jobs, then moves the deployment.      *)
ResolveRead(r, d) ==
  /\ "resolve" \in Ops
  /\ req[r].pc = "none"
  /\ infra[ChatOf[d]] # d
  /\ Resolvable(d)
  /\ req' = [req EXCEPT ![r] = [pc |-> "drop", dep |-> d]]
  /\ UNCHANGED <<tables, wk, stale, aws, faults>>

ResolveDrop(r) ==
  /\ req[r].pc = "drop"
  /\ jobs' = [j \in Jobs |-> IF JobDep[j] = req[r].dep /\ jobs[j].status = "pending"
                             THEN [jobs[j] EXCEPT !.status = "failed"] ELSE jobs[j]]
  /\ req' = [req EXCEPT ![r].pc = "resolve"]
  /\ UNCHANGED <<dep, wk, stale, aws, faults>>

ResolveWrite(r) ==
  /\ req[r].pc = "resolve"
  /\ dep' = IF Accepts(req[r].dep, "cancelled")
            THEN Moved(req[r].dep, "cancelled") ELSE dep
  /\ Answer(r)
  /\ UNCHANGED <<jobs, wk, stale, aws, faults>>

(* The client hangs up, the API process dies, or the statement fails: the  *)
(* rest of the request does not happen.                                    *)
Abandon(r) ==
  /\ req[r].pc # "none"
  /\ Fault("abandon")
  /\ Answer(r)
  /\ UNCHANGED <<tables, wk, stale, aws>>

-------------------------------------------------------------------------------
(* Worker: claiming a job *)

(* Mutants: no NOT EXISTS clause; a job of unknown outcome is due again. *)
ClaimableUnlocked(j) == jobs[j].status = "pending"
ClaimableAgain(j) ==
  /\ jobs[j].status \in {"pending", "unknown"}
  /\ \A i \in Jobs : JobChat(i) = JobChat(j) => jobs[i].status # "running"

(* A due job, none running for the same chat. *)
Claimable(j) ==
  /\ jobs[j].status = "pending"
  /\ \A i \in Jobs : JobChat(i) = JobChat(j) => jobs[i].status # "running"

(* JobStore.Claim.  Waiting for run_after is the job not being claimed yet; *)
(* SKIP LOCKED may pass over the oldest row, so any due row can be taken.   *)
(* A requeued job is due after its backoff, by which time the worker that   *)
(* requeued it is done with it unless workers stall.                        *)
Claim(w, j) ==
  /\ wk[w].pc = "idle"
  /\ Claimable(j)
  /\ Stalls \/ \A v \in Workers : ~Handles(v, j)
  /\ jobs' = [jobs EXCEPT ![j].status = "running", ![j].attempts = @ + 1]
  /\ wk' = [wk EXCEPT ![w] = [pc |-> "claimed", job |-> j, out |-> "ok"]]
  /\ UNCHANGED <<dep, stale, req, aws, faults>>

(* buildRequest fails (connection revoked, AWS or the database not         *)
(* answering): the job fails for good, the deployment row is not touched,  *)
(* and execute returns without ensureFinished, so a Fail that does not     *)
(* land leaves the job running.                                            *)
BuildFails(w) ==
  /\ wk[w].pc = "claimed"
  /\ Fault("precondition")
  /\ SetJob(wk[w].job, "failed") \/ UNCHANGED jobs
  /\ wk' = [wk EXCEPT ![w] = IdleWorker]
  /\ UNCHANGED <<dep, stale, req, aws>>

(* Mutant: the error is logged and the run goes ahead. *)
DestroyRegardless(w) ==
  LET d == JobDep[wk[w].job]
  IN  /\ wk[w].pc = "claimed" /\ jobs[wk[w].job].type = "destroy"
      /\ dep' = IF Accepts(d, "destroying") THEN Moved(d, "destroying") ELSE dep
      /\ Goto(w, "destroy")
      /\ UNCHANGED <<jobs, stale, req, aws, faults>>

(* runDestroy moves the deployment to destroying; any error from that is   *)
(* taken to mean there is nothing to tear down.                            *)
DestroyBegin(w) ==
  LET d == JobDep[wk[w].job]
  IN  /\ wk[w].pc = "claimed" /\ jobs[wk[w].job].type = "destroy"
      /\ IF Accepts(d, "destroying")
         THEN dep' = Moved(d, "destroying") /\ Goto(w, "destroy")
         ELSE Goto(w, "skip") /\ UNCHANGED dep
      /\ UNCHANGED <<jobs, stale, req, aws, faults>>

DestroySkip(w) ==
  LET j == wk[w].job
  IN  /\ wk[w].pc = "skip"
      /\ \/ SetJob(j, "succeeded") /\ UNCHANGED faults
         \/ Fault("statement") /\ UNCHANGED jobs
      /\ saved' = [saved EXCEPT ![JobDep[j]] = 0]
      /\ fresh' = fresh \ {JobDep[j]}
      /\ Goto(w, "finish")
      /\ UNCHANGED <<dep, stale, req, infra>>

-------------------------------------------------------------------------------
(* Worker: the Terraform run *)

(* Terraform changes what exists in chat c to x: no plan saved earlier      *)
(* against that state is valid any more.                                    *)
Touch(c, x) ==
  /\ infra' = [infra EXCEPT ![c] = x]
  /\ fresh' = fresh \ OfChat(c)

(* Apply runs the saved plan file and nothing else; Terraform itself        *)
(* refuses a plan whose state has moved since.                              *)
CanApply(d) == saved[d] # 0 /\ d \in fresh

(* A run that fails or is killed may have done any part of its work. *)
Interrupted(j) ==
  LET d == JobDep[j]
      c == ChatOf[d]
  IN  \/ UNCHANGED <<infra, fresh>>
      \/ jobs[j].type = "apply" /\ CanApply(d) /\ Touch(c, d)
      \/ jobs[j].type = "destroy" /\ \E x \in {infra[c], Nothing} : Touch(c, x)

(* Mutant: an indeterminate error is only logged. *)
AfterErrorIgnored(out) == IF out = "lost" THEN "finish" ELSE "fail"

(* Where handleRunError goes first. *)
AfterError(out) == IF out = "lost" THEN "lost" ELSE "fail"

(* A failed plan leaves no plan file: runPlan cleans the workspace up. *)
RunPlan(w) ==
  LET j == wk[w].job
      d == JobDep[j]
  IN  /\ InTerraform(w, "plan")
      /\ \E out \in Outcome :
           /\ saved' = [saved EXCEPT ![d] = IF out = "ok" THEN jobs[j].attempts ELSE 0]
           /\ fresh' = IF out = "ok" THEN fresh \cup {d} ELSE fresh \ {d}
           /\ wk' = [wk EXCEPT ![w].out = out,
                       ![w].pc = IF out = "ok" THEN "record" ELSE AfterError(out)]
      /\ UNCHANGED <<tables, stale, req, infra, faults>>

(* A missing or stale plan is an error no rule of awsfail recognises, so    *)
(* it is reported as indeterminate.                                         *)
RunApply(w) ==
  LET j == wk[w].job
      d == JobDep[j]
  IN  /\ InTerraform(w, "apply")
      /\ \/ /\ CanApply(d)
            /\ Touch(ChatOf[d], d)
            /\ Goto(w, "record")
         \/ \E out \in IF CanApply(d) THEN Outcome \ {"ok"} ELSE {"lost"} :
              /\ Interrupted(j)
              /\ wk' = [wk EXCEPT ![w].out = out, ![w].pc = AfterError(out)]
      /\ UNCHANGED <<tables, stale, req, saved, faults>>

(* Destroy works from the chat's state: it removes everything there is.     *)
(* On success the workspace is cleaned up before the result is recorded.    *)
RunDestroy(w) ==
  LET j == wk[w].job
      d == JobDep[j]
  IN  /\ InTerraform(w, "destroy")
      /\ \/ /\ Touch(ChatOf[d], Nothing)
            /\ saved' = [saved EXCEPT ![d] = 0]
            /\ Goto(w, "record")
         \/ \E out \in Outcome \ {"ok"} :
              /\ Interrupted(j)
              /\ wk' = [wk EXCEPT ![w].out = out, ![w].pc = AfterError(out)]
              /\ UNCHANGED saved
      /\ UNCHANGED <<tables, stale, req, faults>>

-------------------------------------------------------------------------------
(* Worker: recording the outcome, one statement at a time *)

(* The run succeeded: move the deployment.  A plan also stores its hash.    *)
Record(w) ==
  LET j == wk[w].job
      d == JobDep[j]
      s == DoneStatus(jobs[j].type)
  IN  /\ wk[w].pc = "record"
      /\ IF Accepts(d, s)
         THEN /\ dep' = IF s = "awaiting_approval" /\ dep[d].status # s
                        THEN [dep EXCEPT ![d].status = s, ![d].hash = jobs[j].attempts]
                        ELSE Moved(d, s)
              /\ Goto(w, "succeed")
         ELSE Goto(w, "disown") /\ UNCHANGED dep
      /\ UNCHANGED <<jobs, stale, req, aws, faults>>

(* Succeed writes whatever the job's status is by now. *)
Succeed(w) ==
  LET j == wk[w].job
  IN  /\ wk[w].pc = "succeed"
      /\ SetJob(j, "succeeded")
      /\ Goto(w, IF jobs[j].type = "apply" /\ Teardown THEN "schedule" ELSE "finish")
      /\ UNCHANGED <<dep, stale, req, aws, faults>>

(* After an apply: the auto-teardown is a destroy job queued for later. *)
ScheduleTeardown(w) ==
  LET d == JobDep[wk[w].job]
  IN  /\ wk[w].pc = "schedule"
      /\ UnusedJobs(d) # {}
      /\ jobs' = Inserted(d, "destroy")
      /\ Goto(w, "finish")
      /\ UNCHANGED <<dep, stale, req, aws, faults>>

(* Mutant: the run went well, so the job succeeded. *)
DisownSucceeds(w) ==
  /\ wk[w].pc = "disown"
  /\ SetJob(wk[w].job, "succeeded")
  /\ Goto(w, "finish")
  /\ UNCHANGED <<dep, stale, req, aws, faults>>

(* The run succeeded but moving the deployment did not. *)
Disown(w) ==
  /\ wk[w].pc = "disown"
  /\ SetJob(wk[w].job, "unknown")
  /\ Goto(w, "finish")
  /\ UNCHANGED <<dep, stale, req, aws, faults>>

(* handleRunError, indeterminate: the job, then the deployment. *)
LoseJob(w) ==
  /\ wk[w].pc = "lost"
  /\ SetJob(wk[w].job, "unknown")
  /\ wk' = [wk EXCEPT ![w].pc = "lostdep", ![w].out = "ok"]
  /\ UNCHANGED <<dep, stale, req, aws, faults>>

LoseDeployment(w) ==
  LET d == JobDep[wk[w].job]
  IN  /\ wk[w].pc = "lostdep"
      /\ dep' = IF Accepts(d, "unknown") THEN Moved(d, "unknown") ELSE dep
      /\ Goto(w, "finish")
      /\ UNCHANGED <<jobs, stale, req, aws, faults>>

(* Mutant: one attempt too many. *)
MayRetryOnceMore(w) ==
  wk[w].out = "retry" /\ jobs[wk[w].job].attempts <= MaxAttempts

MayRetry(w) == wk[w].out = "retry" /\ jobs[wk[w].job].attempts < MaxAttempts

(* handleRunError, determinate: JobStore.Fail requeues the job if retrying  *)
(* may help and attempts remain ...                                         *)
Fail(w) ==
  /\ wk[w].pc = "fail"
  /\ SetJob(wk[w].job, IF MayRetry(w) THEN "pending" ELSE "failed")
  /\ wk' = [wk EXCEPT ![w].pc = "requeued", ![w].out = "ok"]
  /\ UNCHANGED <<dep, stale, req, aws, faults>>

(* Mutant: every failed job is taken for a requeued one. *)
AlwaysRequeued(w) ==
  wk[w].pc = "requeued" /\ Goto(w, "finish") /\ UNCHANGED <<tables, stale, req, aws, faults>>

(* ... wasRequeued reads the job back ... *)
WasRequeued(w) ==
  /\ wk[w].pc = "requeued"
  /\ Goto(w, IF jobs[wk[w].job].status = "pending" THEN "finish" ELSE "failed")
  /\ UNCHANGED <<tables, stale, req, aws, faults>>

(* ... and unless it is pending, the deployment has failed. *)
FailDeployment(w) ==
  LET j == wk[w].job
      d == JobDep[j]
      s == FailedStatus(jobs[j].type)
  IN  /\ wk[w].pc = "failed"
      /\ dep' = IF Accepts(d, s) THEN Moved(d, s) ELSE dep
      /\ Goto(w, "finish")
      /\ UNCHANGED <<jobs, stale, req, aws, faults>>

(* The handler returns; after an apply, whatever came of it, it removes the *)
(* workspace.  ensureFinished then looks for a job left running ...         *)
Finish(w) ==
  LET j == wk[w].job
      d == JobDep[j]
      used == IF jobs[j].type = "apply" THEN {d} ELSE {}
  IN  /\ wk[w].pc = "finish"
      /\ saved' = [e \in Deps |-> IF e \in used THEN 0 ELSE saved[e]]
      /\ fresh' = fresh \ used
      /\ \/ /\ wk' = [wk EXCEPT ![w] = IF jobs[j].status = "running"
                                       THEN [@ EXCEPT !.pc = "settle"] ELSE IdleWorker]
            /\ UNCHANGED faults
         \/ Fault("statement") /\ wk' = [wk EXCEPT ![w] = IdleWorker]
      /\ UNCHANGED <<tables, stale, req, infra>>

(* ... and marks it unknown. *)
Settle(w) ==
  /\ wk[w].pc = "settle"
  /\ SetJob(wk[w].job, "unknown")
  /\ wk' = [wk EXCEPT ![w] = IdleWorker]
  /\ UNCHANGED <<dep, stale, req, aws, faults>>

(* Where the handler goes on when a statement fails: it logs the error, or *)
(* takes the branch that an illegal transition would take.                 *)
AfterFault(w) ==
  CASE wk[w].pc = "claimed"  -> "skip"
    [] wk[w].pc = "record"   -> "disown"
    [] wk[w].pc = "succeed"  -> IF jobs[wk[w].job].type = "apply" /\ Teardown
                                THEN "schedule" ELSE "finish"
    [] wk[w].pc = "fail"     -> "requeued"
    [] wk[w].pc = "requeued" -> "failed"
    [] wk[w].pc = "lost"     -> "lostdep"
    [] OTHER                 -> "finish"

StatementFails(w) ==
  /\ \/ wk[w].pc = "claimed" /\ jobs[wk[w].job].type = "destroy"
     \/ wk[w].pc \in {"record", "succeed", "schedule", "disown", "fail",
                      "requeued", "failed", "lost", "lostdep"}
  /\ Fault("statement")
  /\ wk' = [wk EXCEPT ![w].pc = AfterFault(w), ![w].out = "ok"]
  /\ UNCHANGED <<tables, stale, req, aws>>

SettleFails(w) ==
  /\ wk[w].pc = "settle"
  /\ Fault("statement")
  /\ wk' = [wk EXCEPT ![w] = IdleWorker]
  /\ UNCHANGED <<tables, stale, req, aws>>

-------------------------------------------------------------------------------
(* Worker: housekeeping, and the faults of its surroundings *)

(* Mutants: JOB_STALE_AFTER within the longest run; reclaiming stops with   *)
(* the attempts.                                                           *)
IsStaleEarly(j) == jobs[j].status = "running"
IsStaleWithAttempts(j) ==
  /\ jobs[j].status = "running" /\ jobs[j].attempts < MaxAttempts
  /\ \A v \in Workers : Handles(v, j) => Stalls /\ ~Running(v)

(* The heartbeat of j is older than JOB_STALE_AFTER: its worker is gone.    *)
(* A worker that is alive set it at claim, and its run ends earlier than    *)
(* that; only one that then stalls while recording can be overtaken.        *)
IsStale(j) ==
  /\ jobs[j].status = "running"
  /\ \A v \in Workers : Handles(v, j) => Stalls /\ ~Running(v)

(* Mutant: a stale job is queued again. *)
ReclaimRequeues(w) ==
  LET reclaimed == {j \in Jobs : IsStale(j)}
  IN  /\ wk[w].pc = "idle"
      /\ reclaimed # {}
      /\ jobs' = [j \in Jobs |-> IF j \in reclaimed
                                 THEN [jobs[j] EXCEPT !.status = "pending"] ELSE jobs[j]]
      /\ UNCHANGED <<dep, wk, stale, req, aws, faults>>

(* ReclaimStale, one statement over the whole table ... *)
Reclaim(w) ==
  LET reclaimed == {j \in Jobs : IsStale(j)}
  IN  /\ wk[w].pc = "idle"
      /\ reclaimed # {}
      /\ jobs' = [j \in Jobs |-> IF j \in reclaimed
                                 THEN [jobs[j] EXCEPT !.status = "unknown"] ELSE jobs[j]]
      /\ stale' = [stale EXCEPT ![w] = reclaimed]
      /\ Goto(w, "reconcile")
      /\ UNCHANGED <<dep, req, aws, faults>>

(* ... then Reconcile marks the deployments, one transaction each; an error *)
(* is logged and the next one tried.                                        *)
Reconcile(w, j) ==
  LET d == JobDep[j]
  IN  /\ wk[w].pc = "reconcile"
      /\ j \in stale[w]
      /\ \/ /\ dep' = IF Accepts(d, "unknown") THEN Moved(d, "unknown") ELSE dep
            /\ UNCHANGED faults
         \/ Fault("statement") /\ UNCHANGED dep
      /\ stale' = [stale EXCEPT ![w] = @ \ {j}]
      /\ Goto(w, IF stale[w] = {j} THEN "idle" ELSE "reconcile")
      /\ UNCHANGED <<jobs, req, aws>>

(* Mutant: a plan nobody has approved is not in flight. *)
RetainedWhileMoving == {d \in Deps : dep[d].status \in InFlight \ {"awaiting_approval"}}

(* WorkspaceRetainIDs *)
Retained == {d \in Deps : dep[d].status \in InFlight}

(* sweepWorkspaces, once WorkspaceTTL has passed. *)
Sweep(w) ==
  LET swept == {d \in Deps \ Retained : saved[d] # 0}
  IN  /\ wk[w].pc = "idle"
      /\ swept # {}
      /\ saved' = [d \in Deps |-> IF d \in swept THEN 0 ELSE saved[d]]
      /\ fresh' = fresh \ swept
      /\ UNCHANGED <<tables, wk, stale, req, infra, faults>>

(* The process dies, or is told to stop: Terraform is killed with it and no *)
(* further statement is issued.  A new process then starts idle.            *)
Crash(w) ==
  LET j == wk[w].job
  IN  /\ wk[w].pc # "idle"
      /\ Fault(IF wk[w].pc = "succeed" THEN "half_recorded" ELSE "crash")
      /\ IF \E t \in JobType : InTerraform(w, t)
         THEN Interrupted(j) ELSE UNCHANGED <<infra, fresh>>
      /\ wk' = [wk EXCEPT ![w] = IdleWorker]
      /\ stale' = [stale EXCEPT ![w] = {}]
      /\ UNCHANGED <<tables, req, saved>>

(* The disk with a saved plan is lost: a redeploy, or a worker elsewhere. *)
LoseWorkspace(d) ==
  /\ saved[d] # 0
  /\ Fault("disk")
  /\ saved' = [saved EXCEPT ![d] = 0]
  /\ UNCHANGED <<tables, wk, stale, req, fresh, infra>>

-------------------------------------------------------------------------------

Request(r) ==
  \/ \E d \in Deps : DestroyRead(r, d) \/ CancelRead(r, d) \/ ResolveRead(r, d)
  \/ DestroyMark(r) \/ DestroyQueue(r)
  \/ CancelWrite(r)
  \/ ResolveDrop(r) \/ ResolveWrite(r)
  \/ Abandon(r)

(* What a worker does with the job in hand, one statement or run. *)
Work(w) ==
  \/ BuildFails(w)
  \/ DestroyBegin(w) \/ DestroySkip(w)
  \/ RunPlan(w) \/ RunApply(w) \/ RunDestroy(w)
  \/ Record(w) \/ Succeed(w) \/ ScheduleTeardown(w) \/ Disown(w)
  \/ LoseJob(w) \/ LoseDeployment(w)
  \/ Fail(w) \/ WasRequeued(w) \/ FailDeployment(w)
  \/ Finish(w) \/ Settle(w)
  \/ StatementFails(w) \/ SettleFails(w)

Worker(w) ==
  \/ \E j \in Jobs : Claim(w, j) \/ Reconcile(w, j)
  \/ Work(w)
  \/ Reclaim(w)
  \/ Sweep(w)
  \/ Crash(w)

Next ==
  \/ \E c \in Chats : Create(c)
  \/ \E d \in Deps : LoseWorkspace(d) \/ \E h \in 1..MaxAttempts : Approve(d, h)
  \/ \E r \in Requests : Request(r)
  \/ \E w \in Workers : Worker(w)

Spec == Init /\ [][Next]_vars

-------------------------------------------------------------------------------
(* Properties *)

(* Every variable has its type. *)
TypeOK ==
  /\ dep \in [Deps -> DepRow]
  /\ jobs \in [Jobs -> JobRow]
  /\ wk \in [Workers -> [pc: WorkerPC, job: Jobs \cup {NoJob}, out: Outcome]]
  /\ \A w \in Workers : wk[w].job = NoJob <=> wk[w].pc \in {"idle", "reconcile"}
  /\ stale \in [Workers -> SUBSET Jobs]
  /\ req \in [Requests -> [pc: RequestPC, dep: Deps \cup {NoDep}]]
  /\ \A r \in Requests : req[r].dep = NoDep <=> req[r].pc = "none"
  /\ saved \in [Deps -> Nat]
  /\ fresh \subseteq Deps
  /\ infra \in [Chats -> Deps \cup {Nothing}]
  /\ faults \in 0..MaxFaults

(* A chat has one Terraform state, and two runs at once corrupt it: no two  *)
(* workers are inside Terraform for the same chat.                          *)
OneTerraformPerChat ==
  \A v, w \in Workers : \A s, t \in JobType :
    /\ InTerraform(v, s) /\ InTerraform(w, t)
    /\ JobChat(wk[v].job) = JobChat(wk[w].job)
    => v = w

(* An apply only ever runs, for a deployment somebody approved, the very    *)
(* plan file whose hash they were shown.                                    *)
ApplyRunsApprovedPlan ==
  \A w \in Workers :
    LET d == JobDep[wk[w].job]
    IN  InTerraform(w, "apply") /\ CanApply(d)
        => dep[d].approved /\ dep[d].hash = saved[d]

(* ... and while it runs, its deployment holds the chat's in-flight lock,   *)
(* so no other deployment of the chat is planned or approved meanwhile.     *)
ApplyHoldsLock ==
  \A w \in Workers :
    LET d == JobDep[wk[w].job]
    IN  InTerraform(w, "apply") /\ CanApply(d) => dep[d].status = "applying"

(* While a plan waits for a human and for its apply, nothing else changes   *)
(* the chat's infrastructure, and no run, sweep or cleanup removes or       *)
(* replaces the plan file, even after a fault: it is the one reviewed, or it *)
(* went with its disk.                                                      *)
AwaitedPlanStaysValid ==
  \A d \in Deps :
    dep[d].status = "awaiting_approval" =>
      d \in fresh /\ saved[d] \in {0, dep[d].hash}

(* Nothing that exists in AWS is forgotten: the deployment that last        *)
(* touched it is reported as possibly live, or is being applied.            *)
LiveIsRecorded ==
  \A c \in Chats, d \in Deps :
    infra[c] = d => dep[d].status \in MayHaveLiveResources \cup {"applying"}

(* Terraform destroys only on behalf of a deployment whose teardown has      *)
(* begun and whose record still says resources may be live - or which a     *)
(* person resolved meanwhile, when nothing of it was left: never one that   *)
(* was cancelled before it was applied, superseded, or already destroyed.   *)
DestroyOnlyTornDown ==
  \A w \in Workers :
    InTerraform(w, "destroy") =>
      LET d == JobDep[wk[w].job]
      IN  \/ dep[d].status \in {"destroying", "destroy_failed", "unknown"}
          \/ dep[d].status = "cancelled" /\ infra[ChatOf[d]] # d

(* One deployment per chat is in flight, and one is what "is live now":     *)
(* DeployedVersion reads the latter.                                        *)
OnePerChat ==
  \A c \in Chats : \A d, e \in OfChat(c) :
    \/ d = e
    \/ ~ (dep[d].status \in InFlight /\ dep[e].status \in InFlight)
       /\ ~ (dep[d].status = "applied" /\ dep[e].status = "applied")

(* A job is claimed at most max_attempts times, however often its worker    *)
(* dies or it is requeued.                                                  *)
AttemptsBounded == \A j \in Jobs : jobs[j].attempts <= MaxAttempts

(* Somebody is bound to move deployment d on: a queued or running job, a    *)
(* worker still recording, a Reconcile under way, or a Destroy request that *)
(* is about to queue its job.                                               *)
HasWork(d) ==
  \/ \E j \in Jobs : JobDep[j] = d /\ jobs[j].status \in {"pending", "running"}
  \/ \E w \in Workers : \E j \in stale[w] \cup ({wk[w].job} \cap Jobs) : JobDep[j] = d
  \/ \E r \in Requests : req[r] = [pc |-> "queue", dep |-> d]

(* A deployment that holds its chat's lock to work is being worked for, or is  *)
(* about to be: the lock implies a Terraform run (domain/deployment.go), and *)
(* without one it would hold for ever.  This the code does not keep when a  *)
(* process dies, or a statement or a precondition fails, at the wrong moment. *)
NothingIsStranded ==
  \A d \in Deps :
    dep[d].status \in {"planning", "applying", "destroying"} => HasWork(d)

(* Until something fails, it does, whatever is retried and however a worker's *)
(* statements on the job and on the deployment fall.                        *)
InFlightHasWork == faults = 0 => NothingIsStranded

(* When something has, the loss is on record: a deployment left planning or  *)
(* applying with nothing to move it on has a job that failed or is unknown,  *)
(* so that it is told from one that is under way.  (A teardown that is not   *)
(* marked or not queued may leave no such job.)                              *)
LossIsOnRecord ==
  \A d \in Deps :
    dep[d].status \in {"planning", "applying"} =>
      HasWork(d) \/ \E j \in Jobs : JobDep[j] = d /\ jobs[j].status \in {"failed", "unknown"}

(* An applied deployment exists: outside a run, 'applied' in the table      *)
(* means something is there in AWS.                                         *)
AppliedExists ==
  \A d \in Deps :
    dep[d].status = "applied" => infra[ChatOf[d]] # Nothing \/ HasWork(d)

(* Every write to a deployment's status - by Transition, or around it by    *)
(* Create, Approve and the supersede update - is a legal transition.        *)
LegalTransitions ==
  [][\A d \in Deps :
       \/ dep'[d].status = dep[d].status
       \/ CanTransition(dep[d].status, dep'[d].status)
       \/ dep[d].status = "none" /\ dep'[d].status = "planning"]_dep

(* The tables implement the slot of a chat: whatever the order of requests,  *)
(* statements and faults, a chat has one deployment at work or waiting, and  *)
(* one that is live and changes hands in a single step.                     *)
InSlot(S) == [c \in Chats |-> {d \in OfChat(c) : dep[d].status \in S}]

Slot == INSTANCE ChatSlot WITH
          working <- InSlot({"planning", "applying", "destroying"}),
          waiting <- InSlot({"awaiting_approval"}),
          live <- InSlot({"applied"})

ImplementsSlot == Slot!SlotSpec

(* A job whose outcome is unknown is never run again. *)
UnknownJobIsFinal ==
  [][\A j \in Jobs :
       jobs[j].status = "unknown" => jobs'[j].status \notin {"pending", "running"}]_jobs

-------------------------------------------------------------------------------
(* Liveness.  Run polls and reconciles on tickers, and a statement or a run *)
(* under a timeout returns; requests finish unless abandoned.  Users, and   *)
(* faults, are under no obligation.                                         *)

Fairness ==
  /\ \A w \in Workers :
       /\ WF_vars(Work(w))
       /\ WF_vars(\E j \in Jobs : Claim(w, j))
       /\ WF_vars(\E j \in Jobs : Reconcile(w, j))
       /\ WF_vars(Reclaim(w))
  /\ \A r \in Requests : WF_vars(DestroyMark(r) \/ DestroyQueue(r) \/ CancelWrite(r)
                                  \/ ResolveDrop(r) \/ ResolveWrite(r))

LiveSpec == Spec /\ Fairness

(* No job stays running for ever, whatever becomes of its worker: it would  *)
(* keep every other job of the chat from being claimed.                     *)
JobsSettle ==
  \A j \in Jobs : jobs[j].status = "running" ~> jobs[j].status # "running"

(* Without faults, a deployment waiting on a run is always moved on.        *)
DeploymentsSettle ==
  [](faults = 0) => \A d \in Deps :
    dep[d].status \in {"planning", "applying", "destroying"}
      ~> dep[d].status \notin {"planning", "applying", "destroying"}

===============================================================================
