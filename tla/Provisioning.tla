------------------------------ MODULE Provisioning ------------------------------
(***************************************************************************)
(* A deployment and the AWS connection it depends on: the account a plan is  *)
(* requested for (internal/deployment/service.go), the one a job resolves    *)
(* anew when it runs (worker.go), the one the saved plan names               *)
(* (internal/runner/terraform) and the one the row records, while the user   *)
(* connects, disconnects and moves to another account.  AwsConnection has    *)
(* the connection; Deployments has what this leaves out of the pipeline.    *)
(***************************************************************************)
EXTENDS AwsConnection, DeploymentStatus, TLC

CONSTANT NoTarget

VARIABLES
  dep,    \* the deployment's row: its status and aws_account_id
  job,    \* its job that is pending or running, by type
  run,    \* the target of the Terraform run in progress
  saved,  \* the target that the deployment's workspace was prepared for
  infra,  \* the accounts in which its resources are
  moved   \* history: the connection has named another account than the row

vars == <<row, ids, trust, req, faults, dep, job, run, saved, infra, moved>>
pipeline == <<dep, job, run, saved, infra>>

Targets == Accounts \X ExternalIds
Account(t) == t[1]
Reachable(t) == Works(t[1], t[2])
Resolving == \E r \in Requests : req[r].op = "job"

Init ==
  /\ AwsInit
  /\ dep = [status |-> "none", account |-> NoAccount]
  /\ job = "none"
  /\ run = NoTarget /\ saved = NoTarget
  /\ infra = {}
  /\ moved = FALSE

Elsewhere(d) ==
  d.status # "none" /\ Exists' /\ row'.account \notin {NoAccount, d.account}

(* Every step looks at where the connection points after it. *)
Watched == moved' = (moved \/ Elsewhere(dep'))

-------------------------------------------------------------------------------
(* Requests *)

(* The connection's own requests, and the customer. *)
Connection ==
  /\ AwsNext
  /\ UNCHANGED pipeline

(* Plan, once it has found the chat active and the version applicable       *)
PlanRead(r) ==
  /\ dep.status = "none"
  /\ TargetRead(r, "plan")
  /\ UNCHANGED pipeline

(* ... creates the deployment, if its target still answers. *)
Create(r) ==
  /\ req[r].op = "plan" /\ Write(r)
  /\ IF req[r].heard = "none" /\ dep.status = "none"
     THEN dep' = [status |-> "planning", account |-> req[r].account] /\ job' = "plan"
     ELSE UNCHANGED <<dep, job>>
  /\ UNCHANGED <<run, saved, infra>>

Moves(status) == CanTransition(dep.status, status) /\ dep' = [dep EXCEPT !.status = status]

Approve ==
  /\ Moves("applying")
  /\ job' = "apply"
  /\ UNCHANGED <<awsVars, run, saved, infra>>

(* Destroy queues a teardown, next to the scheduled one if there is one.    *)
Destroy ==
  /\ job \in {"none", "destroy"} /\ run = NoTarget /\ ~Resolving
  /\ Moves("destroying")
  /\ job' = "destroy"
  /\ UNCHANGED <<awsVars, run, saved, infra>>

-------------------------------------------------------------------------------
(* The worker *)

(* buildRequest resolves the target anew *)
JobStart(r) ==
  /\ job # "none" /\ run = NoTarget /\ ~Resolving
  /\ TargetRead(r, "job")
  /\ UNCHANGED pipeline

(* ... and the job fails if it cannot; the deployment stays where it is.    *)
JobFails ==
  /\ job # "none" /\ run = NoTarget /\ ~Resolving
  /\ ~Connected
  /\ job' = "none"
  /\ UNCHANGED <<awsVars, dep, run, saved, infra>>

(* Mutant: a target that cannot be resolved is nothing to tear down.        *)
UnresolvedIsGone ==
  IF job = "destroy" THEN [dep EXCEPT !.status = "destroyed"] ELSE dep

Unresolved == dep

(* A teardown is marked before it runs.                                     *)
JobResolved(r) ==
  /\ req[r].op = "job" /\ Write(r)
  /\ IF req[r].heard = "none"
     THEN /\ run' = <<req[r].account, req[r].ext>>
          /\ dep' = IF job = "destroy" THEN [dep EXCEPT !.status = "destroying"] ELSE dep
          /\ UNCHANGED job
     ELSE /\ job' = "none"
          /\ dep' = Unresolved
          /\ UNCHANGED run
  /\ UNCHANGED <<saved, infra>>

RunEnds(status) ==
  /\ dep' = [dep EXCEPT !.status = status]
  /\ run' = NoTarget
  /\ UNCHANGED awsVars

(* Plan: prepare writes the run's target into the workspace's main.tf, init *)
(* and plan run there, and the plan file stays for Apply.                   *)
RunPlan ==
  /\ run # NoTarget /\ job = "plan"
  /\ Reachable(run)
  /\ RunEnds(DoneStatus("plan"))
  /\ saved' = run
  /\ job' = "none"
  /\ UNCHANGED infra

(* Mutant: the workspace is prepared again for the run's own target.        *)
PreparedAgain == run

(* What Apply runs: the saved plan file, in the workspace it was made in.   *)
Planned == saved

(* Apply, and Cleanup; auto-teardown is just a scheduled job.               *)
RunApply ==
  /\ run # NoTarget /\ job = "apply"
  /\ Planned # NoTarget /\ Reachable(Planned)
  /\ RunEnds(DoneStatus("apply"))
  /\ infra' = infra \cup {Account(Planned)}
  /\ saved' = NoTarget
  /\ job' \in {"none", "destroy"}

(* Destroy: prepare again, for the run's target.  State holds the resources  *)
(* whatever account they are in; those the provider does not find there are *)
(* dropped from it.                                                         *)
RunDestroy ==
  /\ run # NoTarget /\ job = "destroy"
  /\ Reachable(run)
  /\ RunEnds(DoneStatus("destroy"))
  /\ infra' = infra \ {Account(run)}
  /\ saved' = NoTarget
  /\ job' = "none"

(* The run fails, before or after it has done some of its work, for good or  *)
(* to be tried again; only a teardown that fails leaves its workspace.       *)
RunFails ==
  /\ run # NoTarget
  /\ \/ job' = "none" /\ \E status \in {FailedStatus(job), "unknown"} : RunEnds(status)
     \/ job' = job /\ RunEnds(dep.status)
  /\ \/ UNCHANGED infra
     \/ job = "apply" /\ Planned # NoTarget /\ infra' = infra \cup {Account(Planned)}
     \/ job = "destroy" /\ infra' = infra \ {Account(run)}
  /\ saved' = IF job = "destroy" THEN run ELSE NoTarget

Next ==
  /\ \/ Connection
     \/ \E r \in Requests :
          PlanRead(r) \/ Create(r) \/ JobStart(r) \/ JobResolved(r)
     \/ Approve \/ Destroy \/ JobFails
     \/ RunPlan \/ RunApply \/ RunDestroy \/ RunFails
  /\ Watched

Spec == Init /\ [][Next]_vars

(* The connection alone, before anything is planned.  A request goes on to    *)
(* its end, time passes, and pages that show the padlock keep being loaded:  *)
(* strongly fair, for there are more requests than slots.                    *)
ConnectionSpec ==
  /\ Init
  /\ [][Connection /\ Watched]_vars
  /\ WF_vars(Age /\ UNCHANGED pipeline /\ Watched)
  /\ \A r \in Requests :
       WF_vars((VerifyRole(r) \/ Write(r) \/ Disconnect(r)) /\ Connection /\ Watched)
  /\ SF_vars((\E r \in Requests : CheckRead(r, FALSE)) /\ UNCHANGED pipeline /\ Watched)

(* Accounts and request slots are interchangeable. *)
Interchangeable == Permutations(Accounts) \cup Permutations(Requests)

-------------------------------------------------------------------------------
(* Properties *)

TypeOK ==
  /\ AwsTypeOK
  /\ dep \in [status: Status \cup {"none"}, account: Accounts \cup {NoAccount}]
  /\ job \in JobType \cup {"none"}
  /\ run \in Targets \cup {NoTarget}
  /\ saved \in Targets \cup {NoTarget}
  /\ infra \subseteq Accounts
  /\ moved \in BOOLEAN

(* A deployment's resources are never split over two accounts, although its  *)
(* jobs resolve their account anew each time they run, an apply may fail half *)
(* way and be tried again, and the connection may have moved in between.     *)
NeverSplit == \A a, b \in infra : a = b

(* As long as the connection stays with the account of the deployment, what  *)
(* the row says is true: resources are in that account and nowhere else,    *)
(* and none is left when the deployment is destroyed.                       *)
RecordIsTrue ==
  ~moved => /\ infra \subseteq {dep.account}
            /\ dep.status = "destroyed" => infra = {}

===============================================================================
