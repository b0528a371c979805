--------------------------- MODULE DeploymentStatus ---------------------------
(***************************************************************************)
(* The deployment state machine of internal/domain/deployment.go: the      *)
(* statuses, the legal moves between them, and the three classifications   *)
(* the rest of the backend branches on.  Pure: no state, no constants.     *)
(***************************************************************************)

Status == { "planning", "awaiting_approval", "applying", "applied",
            "superseded", "plan_failed", "apply_failed", "destroying",
            "destroyed", "destroy_failed", "cancelled", "unknown" }

(* allowedTransitions, one row per status that has successors. *)
allowedTransitions ==
  ({"planning"} \X {"awaiting_approval", "plan_failed", "cancelled", "unknown"})
    \cup ({"awaiting_approval"} \X {"applying", "cancelled"})
    \cup ({"applying"} \X {"applied", "apply_failed", "unknown"})
    \cup ({"applied"} \X {"destroying", "superseded", "unknown"})
    \cup ({"apply_failed"} \X {"destroying", "unknown", "cancelled"})
    \cup ({"destroying"} \X {"destroyed", "destroy_failed", "unknown"})
    \cup ({"destroy_failed"} \X {"destroying", "unknown", "cancelled"})
    \cup ({"unknown"} \X {"destroying", "cancelled"})
    \cup ({"plan_failed"} \X {"cancelled"})

CanTransition(from, to) == <<from, to>> \in allowedTransitions

(* Statuses that hold the per-chat lock (also the partial unique index). *)
InFlight == {"planning", "awaiting_approval", "applying", "destroying"}

(* Statuses reported as "AWS might be billing for this". *)
MayHaveLiveResources ==
  {"applied", "apply_failed", "destroy_failed", "unknown", "destroying"}

(* The unit of work: one job is one whole Terraform run. *)
JobType == {"plan", "apply", "destroy"}

JobStatus == {"pending", "running", "succeeded", "failed", "unknown"}

(* The status a deployment reaches when a job of type t succeeds ... *)
DoneStatus(t) == CASE t = "plan"    -> "awaiting_approval"
                   [] t = "apply"   -> "applied"
                   [] t = "destroy" -> "destroyed"

(* Mutant: a failed teardown ends like a successful one. *)
FailedDestroyIsDone(t) == IF t = "destroy" THEN "destroyed"
                          ELSE IF t = "plan" THEN "plan_failed" ELSE "apply_failed"

(* ... and when it fails for good with a determinate error. *)
FailedStatus(t) == CASE t = "plan"    -> "plan_failed"
                     [] t = "apply"   -> "apply_failed"
                     [] t = "destroy" -> "destroy_failed"

===============================================================================
