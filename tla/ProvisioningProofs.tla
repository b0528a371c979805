--------------------------- MODULE ProvisioningProofs ---------------------------
(***************************************************************************)
(* Proofs about AwsConnection and Provisioning, for any accounts, requests   *)
(* and bounds: a broken connection is explained, a reconnect keeps the       *)
(* external id, a deployment's resources are all in one account, and its row *)
(* tells the truth until the connection moves elsewhere.                    *)
(***************************************************************************)
EXTENDS Provisioning, TLAPS

(* What a request has read of the row, while it uses it.                    *)
RequestsInv ==
  \A r \in Requests :
    /\ req[r].pc \in {"none", "delete"} => req[r].op = "check"
    /\ req[r].pc \in {"call", "write"} =>
         req[r].account \in Accounts /\ req[r].ext \in ExternalIds

(* One request at most resolves a target for the job, and no run is in        *)
(* progress meanwhile; nothing is under way without a job, nor is there one *)
(* before the deployment or after its end.                                  *)
PipelineInv ==
  /\ job = "none" => run = NoTarget /\ ~Resolving
  /\ Resolving => run = NoTarget
  /\ \A q, r \in Requests : req[q].op = "job" /\ req[r].op = "job" => q = r
  /\ dep.status \in {"none", "destroyed"} => job = "none"
  /\ dep.status = "none" => saved = NoTarget /\ infra = {}

(* As long as the connection stays with the deployment's account, so does    *)
(* every target taken from it.                                              *)
AccountInv ==
  ~moved =>
    /\ dep.status # "none" /\ Exists => row.account \in {NoAccount, dep.account}
    /\ \A r \in Requests : req[r].op = "job" => req[r].account = dep.account
    /\ \A t \in {run, saved} : t # NoTarget => Account(t) = dep.account
    /\ infra \subseteq {dep.account}
    /\ dep.status = "destroyed" => infra = {}

IInv == TypeOK /\ RequestsInv /\ PipelineInv /\ AccountInv

-------------------------------------------------------------------------------
(* The connection *)

Ops == {"verify", "check", "plan", "job"}

(* The four ways in which a step moves a request on. *)
Answered(r) == Answer(r)

Asks(r) ==
  /\ req[r].pc = "none" /\ Exists
  /\ \E op \in Ops, a \in Accounts : Ask(r, op, a)

Hears(r) ==
  /\ req[r].pc = "call"
  /\ \E h \in Codes \cup {"none"} :
       req' = [req EXCEPT ![r].pc = "write", ![r].heard = h]

Deletes(r) == req[r].pc = "none" /\ req' = [req EXCEPT ![r].pc = "delete"]

(* However a request moves on, it keeps to its type and to what it has read. *)
LEMMA RequestMoves ==
  ASSUME AwsTypeOK, RequestsInv, NEW r \in Requests,
         Answered(r) \/ Asks(r) \/ Hears(r) \/ Deletes(r)
  PROVE  /\ req' \in [Requests -> Request]
         /\ RequestsInv'
         /\ \A q \in Requests \ {r} : req'[q] = req[q]
<1> USE ConnectionAssumption
<1>1. /\ req \in [Requests -> Request] /\ req[r] \in Request
      /\ MaxRows \in Nat \ {0} /\ (Exists => row \in Row)
      BY DEF AwsTypeOK, Exists
<1>2. ASSUME NEW x \in Request, req' = [req EXCEPT ![r] = x],
             x.pc \in {"none", "delete"} => x.op = "check",
             x.pc \in {"call", "write"} => x.account \in Accounts /\ x.ext \in ExternalIds
      PROVE  /\ req' \in [Requests -> Request]
             /\ RequestsInv'
             /\ \A q \in Requests \ {r} : req'[q] = req[q]
      <2>1. /\ req' \in [Requests -> Request] /\ req'[r] = x
            /\ \A q \in Requests \ {r} : req'[q] = req[q]
            BY <1>1, <1>2
      <2>2. ASSUME NEW q \in Requests
            PROVE  /\ req'[q].pc \in {"none", "delete"} => req'[q].op = "check"
                   /\ req'[q].pc \in {"call", "write"} =>
                        req'[q].account \in Accounts /\ req'[q].ext \in ExternalIds
            BY <1>2, <2>1 DEF RequestsInv
      <2>3. RequestsInv'  BY <2>2 DEF RequestsInv, ExternalIds
      <2>4. QED  BY <2>1, <2>3
<1>3. CASE Answered(r)
      <2>1. NoRequest \in Request /\ NoRequest.pc = "none" /\ NoRequest.op = "check"
            BY <1>1 DEF NoRequest, Request
      <2>2. QED  BY <1>2, <1>3, <2>1 DEF Answered, Answer
<1>4. CASE Asks(r)
      <2>1. PICK op \in Ops, a \in Accounts : Ask(r, op, a)  BY <1>4 DEF Asks
      <2> DEFINE x == [pc |-> "call", op |-> op, account |-> a,
                       ext |-> row.ext, heard |-> "none"]
      <2>2. row.ext \in ExternalIds  BY <1>1, <1>4 DEF Asks, Row
      <2>3. x \in Request /\ x.pc = "call" /\ x.account \in Accounts /\ x.ext \in ExternalIds
            BY <1>1, <2>1, <2>2 DEF Request, ExternalIds, Ops
      <2>4. req' = [req EXCEPT ![r] = x]  BY <2>1 DEF Ask
      <2> HIDE DEF x
      <2>5. QED  BY <1>2, <2>3, <2>4
<1>5. CASE Hears(r)
      <2>1. PICK h \in Codes \cup {"none"} :
              req' = [req EXCEPT ![r].pc = "write", ![r].heard = h]
            BY <1>5 DEF Hears
      <2> DEFINE x == [req[r] EXCEPT !.pc = "write", !.heard = h]
      <2>2. x \in Request /\ x.pc = "write" /\ x.account = req[r].account /\ x.ext = req[r].ext
            BY <1>1 DEF Request
      <2>3. x.account \in Accounts /\ x.ext \in ExternalIds
            BY <1>5, <2>2 DEF Hears, RequestsInv
      <2>4. req' = [req EXCEPT ![r] = x]  BY <1>1, <2>1
      <2> HIDE DEF x
      <2>5. QED  BY <1>2, <2>2, <2>3, <2>4
<1>6. CASE Deletes(r)
      <2> DEFINE x == [req[r] EXCEPT !.pc = "delete"]
      <2>1. x \in Request /\ x.pc = "delete" /\ x.op = "check"
            BY <1>1, <1>6 DEF Request, Deletes, RequestsInv
      <2>2. req' = [req EXCEPT ![r] = x]  BY <1>1, <1>6 DEF Deletes
      <2> HIDE DEF x
      <2>3. QED  BY <1>2, <2>1, <2>2
<1>7. QED  BY <1>3, <1>4, <1>5, <1>6

(* A verdict leaves a row, or none where there was none; it names an account  *)
(* only when it ends a Verify.                                              *)
LEMMA Verdicts ==
  ASSUME AwsTypeOK, RequestsInv, NEW r \in Requests, Write(r)
  PROVE  /\ row' \in Row \cup {NoRow}
         /\ Answered(r)
         /\ UNCHANGED <<ids, trust, faults>>
<1>1. req[r] \in Request /\ req[r].account \in Accounts /\ (Exists => row \in Row)
      BY DEF Write, RequestsInv, AwsTypeOK, Exists
<1>2. Exists => /\ \A code \in Codes : MarkBroken(code) \in Row
                /\ MarkActive(req[r].account) \in Row
                /\ TouchChecked \in Row
      BY <1>1 DEF MarkBroken, MarkActive, TouchChecked, Row
<1>3. req[r].heard # "none" => req[r].heard \in Codes  BY <1>1 DEF Request
<1>4. row' \in Row \cup {NoRow}  BY <1>1, <1>2, <1>3 DEF Write
<1>5. QED  BY <1>4 DEF Write, Answered

(* A request of the connection's own resolves no target. *)
Unresolving ==
  \A q \in Requests :
    req'[q].op = "job" => req[q].op = "job" /\ req'[q].account = req[q].account

LEMMA RequestUnresolving ==
  ASSUME AwsTypeOK, RequestsInv, NEW r \in Requests,
         \/ Answered(r) \/ Hears(r) \/ Deletes(r)
         \/ Asks(r) /\ req'[r].op # "job"
  PROVE  Unresolving
<1>1. \A q \in Requests \ {r} : req'[q] = req[q]  BY RequestMoves
<1>2. req'[r].op = "job" => req[r].op = "job" /\ req'[r].account = req[r].account
      BY DEF AwsTypeOK, Answered, Answer, NoRequest, Hears, Deletes, Request
<1>3. QED  BY <1>1, <1>2 DEF Unresolving

(* The connection's own requests, and the customer. *)
LEMMA AwsSteps ==
  ASSUME AwsTypeOK, RequestsInv, AwsNext
  PROVE  AwsTypeOK' /\ RequestsInv' /\ Unresolving
<1> USE ConnectionAssumption
<1>1. /\ row \in Row \cup {NoRow} /\ ids \in 0..MaxRows /\ faults \in 0..MaxFaults
      /\ trust \in [Accounts -> 0..MaxRows] /\ MaxRows \in Nat \ {0} /\ MaxFaults \in Nat
      BY DEF AwsTypeOK
<1>2. ASSUME req' = req  PROVE RequestsInv' /\ Unresolving /\ req' \in [Requests -> Request]
      BY <1>2 DEF RequestsInv, Unresolving, AwsTypeOK
<1>3. ASSUME NEW a \in Accounts, CreateStack(a) \/ DeleteStack(a)
      PROVE  AwsTypeOK' /\ RequestsInv' /\ Unresolving
      BY <1>1, <1>2, <1>3 DEF CreateStack, DeleteStack, AwsTypeOK
<1>4. CASE Age
      BY <1>1, <1>2, <1>4 DEF Age, AwsTypeOK, Exists, Row
<1>5. CASE Start
      <2>1. ids + 1 \in ExternalIds /\ ids' \in 0..MaxRows
            BY <1>1, <1>5 DEF Start, ExternalIds
      <2>2. row' \in Row \cup {NoRow}
            BY <1>1, <1>5, <2>1 DEF Start, Pending, Row
      <2>3. QED  BY <1>1, <1>2, <1>5, <2>1, <2>2 DEF Start, AwsTypeOK
<1>6. ASSUME NEW r \in Requests, NEW a \in Accounts, VerifyRead(r, a)
      PROVE  AwsTypeOK' /\ RequestsInv' /\ Unresolving
      <2>1. Asks(r)  BY <1>6 DEF VerifyRead, Asks, Ops
      <2>2. req'[r].op # "job"  BY <1>6 DEF VerifyRead, Ask, AwsTypeOK
      <2>3. QED  BY <1>1, <1>6, <2>1, <2>2, RequestMoves, RequestUnresolving
                 DEF VerifyRead, AwsTypeOK
<1>7. ASSUME NEW r \in Requests, NEW force \in BOOLEAN, CheckRead(r, force)
      PROVE  AwsTypeOK' /\ RequestsInv' /\ Unresolving
      <2>1. row.account \in Accounts
            BY <1>1, <1>7 DEF CheckRead, Checkable, Exists, Row
      <2>2. Asks(r)  BY <1>7, <2>1 DEF CheckRead, Asks, Ops
      <2>3. req'[r].op # "job"  BY <1>7 DEF CheckRead, Ask, AwsTypeOK
      <2>4. QED  BY <1>1, <1>7, <2>2, <2>3, RequestMoves, RequestUnresolving
                 DEF CheckRead, AwsTypeOK
<1>8. ASSUME NEW r \in Requests, DisconnectRead(r)
      PROVE  AwsTypeOK' /\ RequestsInv' /\ Unresolving
      <2>1. Deletes(r)  BY <1>8 DEF DisconnectRead, Deletes
      <2>2. QED  BY <1>1, <1>8, <2>1, RequestMoves, RequestUnresolving
                 DEF DisconnectRead, AwsTypeOK
<1>9. ASSUME NEW r \in Requests, Write(r)  PROVE AwsTypeOK' /\ RequestsInv' /\ Unresolving
      <2>1. /\ row' \in Row \cup {NoRow} /\ Answered(r)
            /\ UNCHANGED <<ids, trust, faults>>
            BY <1>9, Verdicts
      <2>2. QED  BY <1>1, <2>1, RequestMoves, RequestUnresolving DEF AwsTypeOK
<1>10. ASSUME NEW r \in Requests, Disconnect(r)
       PROVE  AwsTypeOK' /\ RequestsInv' /\ Unresolving
      <2>1. Answered(r)  BY <1>10 DEF Disconnect, Answered
      <2>2. QED  BY <1>1, <1>10, <2>1, RequestMoves, RequestUnresolving
                 DEF Disconnect, AwsTypeOK
<1>11. ASSUME NEW r \in Requests, VerifyRole(r) \/ StsFails(r)
       PROVE  AwsTypeOK' /\ RequestsInv' /\ Unresolving
      <2>1. Hears(r)  BY <1>11 DEF VerifyRole, StsFails, Hears, Codes
      <2>2. faults' \in 0..MaxFaults /\ UNCHANGED <<row, ids, trust>>
            BY <1>1, <1>11 DEF VerifyRole, StsFails
      <2>3. QED  BY <1>1, <2>1, <2>2, RequestMoves, RequestUnresolving DEF AwsTypeOK
<1>12. ASSUME NEW r \in Requests, Dropped(r)
       PROVE  AwsTypeOK' /\ RequestsInv' /\ Unresolving
      <2>1. Answered(r)  BY <1>12 DEF Dropped, Answered
      <2>2. faults' \in 0..MaxFaults /\ UNCHANGED <<row, ids, trust>>
            BY <1>1, <1>12 DEF Dropped
      <2>3. QED  BY <1>1, <2>1, <2>2, RequestMoves, RequestUnresolving DEF AwsTypeOK
<1>13. QED
      BY <1>3, <1>4, <1>5, <1>6, <1>7, <1>8, <1>9, <1>10, <1>11, <1>12 DEF AwsNext

(* A target is read for a plan or for the job. *)
LEMMA TargetSteps ==
  ASSUME AwsTypeOK, RequestsInv, NEW r \in Requests, NEW op \in {"plan", "job"},
         TargetRead(r, op)
  PROVE  /\ AwsTypeOK' /\ RequestsInv'
         /\ \A q \in Requests \ {r} : req'[q] = req[q]
         /\ req'[r].op = op /\ req'[r].account = row.account
         /\ Exists /\ row.account \in Accounts /\ UNCHANGED <<row, ids, trust, faults>>
<1>1. Exists /\ row.account \in Accounts
      BY DEF TargetRead, Connected, Exists, AwsTypeOK, Row
<1>2. Asks(r)  BY <1>1 DEF TargetRead, Asks, Ops
<1>3. req'[r].op = op /\ req'[r].account = row.account
      BY DEF TargetRead, Ask, AwsTypeOK
<1>4. QED  BY <1>1, <1>2, <1>3, RequestMoves DEF TargetRead, AwsTypeOK

-------------------------------------------------------------------------------
(* The pipeline *)

DepRow == [status: Status \cup {"none"}, account: Accounts \cup {NoAccount}]

(* A plan or a job hears of its target and goes on. *)
LEMMA TargetHeard ==
  ASSUME AwsTypeOK, RequestsInv, NEW r \in Requests, Write(r)
  PROVE  /\ AwsTypeOK' /\ RequestsInv'
         /\ \A q \in Requests \ {r} : req'[q] = req[q]
         /\ req'[r].op = "check"
         /\ req[r].account \in Accounts /\ req[r].ext \in ExternalIds
<1>1. /\ row' \in Row \cup {NoRow} /\ Answered(r) /\ UNCHANGED <<ids, trust, faults>>
      BY Verdicts
<1>2. /\ req' \in [Requests -> Request] /\ RequestsInv'
      /\ \A q \in Requests \ {r} : req'[q] = req[q]
      BY <1>1, RequestMoves
<1>3. req'[r].op = "check"  BY <1>1 DEF Answered, Answer, NoRequest, AwsTypeOK
<1>4. req[r].account \in Accounts /\ req[r].ext \in ExternalIds
      BY DEF Write, RequestsInv
<1>5. QED  BY <1>1, <1>2, <1>3, <1>4 DEF AwsTypeOK

(* What every step keeps, because it looks at the connection after it.       *)
LEMMA WatchedSteps ==
  ASSUME TypeOK, Watched
  PROVE  /\ moved' \in BOOLEAN
         /\ ~moved' => /\ ~moved
                       /\ dep'.status # "none" /\ Exists'
                            => row'.account \in {NoAccount, dep'.account}
BY DEF TypeOK, Watched, Elsewhere

LEMMA RequestsSame ==
  ASSUME AwsTypeOK, RequestsInv, UNCHANGED awsVars
  PROVE  AwsTypeOK' /\ RequestsInv' /\ req' = req /\ (Resolving' <=> Resolving)
BY DEF AwsTypeOK, RequestsInv, awsVars, Resolving

(* The invariant after a step that starts or ends no resolution, from what   *)
(* the step does to the pipeline.                                           *)
LEMMA KeptByPipeline ==
  ASSUME IInv, Watched, AwsTypeOK', RequestsInv', Unresolving,
         dep' \in DepRow, job' \in JobType \cup {"none"},
         run' \in Targets \cup {NoTarget}, saved' \in Targets \cup {NoTarget},
         infra' \subseteq Accounts,
         dep'.status # "none" => dep'.account = dep.account,
         dep'.status = "none" => dep' = dep /\ job' = job /\ saved' = saved /\ infra' = infra,
         job' = "none" => run' = NoTarget /\ ~Resolving,
         Resolving => run' = NoTarget,
         dep'.status = "destroyed" => job' = "none",
         run' \in {run, NoTarget}, saved' \in {run, saved, NoTarget},
         ~moved => infra' \subseteq {dep.account} /\ (dep'.status = "destroyed" => infra' = {})
  PROVE  IInv'
<1>1. /\ moved' \in BOOLEAN
      /\ ~moved' => /\ ~moved
                    /\ dep'.status # "none" /\ Exists'
                         => row'.account \in {NoAccount, dep'.account}
      BY WatchedSteps DEF IInv
<1>2. TypeOK'  BY <1>1 DEF TypeOK, DepRow
<1>3. Resolving' => Resolving  BY DEF Unresolving, Resolving
<1>4. PipelineInv'
      <2>1. \A q, r \in Requests : req'[q].op = "job" /\ req'[r].op = "job" => q = r
            BY DEF Unresolving, IInv, PipelineInv
      <2>2. /\ job' = "none" => run' = NoTarget /\ ~Resolving'
            /\ Resolving' => run' = NoTarget
            BY <1>3
      <2>3. dep'.status = "none" => saved' = NoTarget /\ infra' = {} /\ job' = "none"
            BY DEF IInv, PipelineInv
      <2>4. QED  BY <2>1, <2>2, <2>3 DEF PipelineInv
<1>5. AccountInv'
      <2> SUFFICES ASSUME ~moved'  PROVE AccountInv'  BY DEF AccountInv
      <2>1. /\ ~moved /\ \A t \in {run, saved} : t # NoTarget => Account(t) = dep.account
            /\ \A r \in Requests : req[r].op = "job" => req[r].account = dep.account
            BY <1>1 DEF IInv, AccountInv
      <2>2. dep'.account = dep.account  BY DEF DepRow
      <2>3. \A r \in Requests : req'[r].op = "job" => req'[r].account = dep'.account
            BY <2>1, <2>2 DEF Unresolving
      <2>4. \A t \in {run', saved'} : t # NoTarget => Account(t) = dep'.account
            BY <2>1, <2>2
      <2>5. infra' \subseteq {dep'.account} /\ (dep'.status = "destroyed" => infra' = {})
            BY <2>1, <2>2
      <2>6. QED  BY <1>1, <2>3, <2>4, <2>5 DEF AccountInv, Account
<1>6. QED  BY <1>2, <1>4, <1>5 DEF IInv

LEMMA ProvisioningSteps ==
  ASSUME IInv, Next
  PROVE  IInv'
<1> USE DEF IInv
<1>1. /\ AwsTypeOK /\ RequestsInv /\ Watched
      /\ dep \in DepRow /\ job \in JobType \cup {"none"}
      /\ run \in Targets \cup {NoTarget} /\ saved \in Targets \cup {NoTarget}
      /\ infra \subseteq Accounts
      BY DEF Next, TypeOK, DepRow
<1>2. /\ job = "none" => run = NoTarget /\ ~Resolving
      /\ Resolving => run = NoTarget
      /\ dep.status \in {"none", "destroyed"} => job = "none"
      /\ dep.status = "none" => saved = NoTarget /\ infra = {}
      BY DEF PipelineInv
<1>3. ~moved => /\ infra \subseteq {dep.account}
                /\ dep.status = "destroyed" => infra = {}
                /\ run # NoTarget => Account(run) = dep.account
                /\ saved # NoTarget => Account(saved) = dep.account
      BY DEF AccountInv, Account
(* What does not touch the connection. *)
<1>4. ASSUME UNCHANGED awsVars
      PROVE  AwsTypeOK' /\ RequestsInv' /\ Unresolving
      BY <1>1, <1>4, RequestsSame DEF Unresolving
<1>5. ASSUME NEW s \in Status, dep' = [dep EXCEPT !.status = s]
      PROVE  dep' \in DepRow /\ dep'.status = s /\ dep'.account = dep.account
      BY <1>1, <1>5 DEF DepRow
<1>6. ASSUME NEW t \in Targets  PROVE Account(t) \in Accounts
      BY <1>6 DEF Targets, Account
<1>7. CASE Connection
      <2>1. AwsTypeOK' /\ RequestsInv' /\ Unresolving
            BY <1>1, <1>7, AwsSteps DEF Connection
      <2>2. UNCHANGED pipeline  BY <1>7 DEF Connection
      <2>3. QED  BY <1>1, <1>2, <1>3, <2>1, <2>2, KeptByPipeline DEF pipeline
<1>8. CASE Approve
      <2>1. /\ dep.status = "awaiting_approval" /\ dep' = [dep EXCEPT !.status = "applying"]
            /\ job' = "apply" /\ UNCHANGED <<awsVars, run, saved, infra>>
            BY <1>8 DEF Approve, Moves, CanTransition, allowedTransitions
      <2>2. dep' \in DepRow /\ dep'.status = "applying" /\ dep'.account = dep.account
            BY <1>5, <2>1 DEF Status
      <2>3. QED  BY <1>1, <1>2, <1>3, <1>4, <2>1, <2>2, KeptByPipeline DEF JobType
<1>9. CASE Destroy
      <2>1. /\ dep.status \notin {"none", "destroyed"}
            /\ dep' = [dep EXCEPT !.status = "destroying"]
            /\ run = NoTarget /\ job' = "destroy" /\ UNCHANGED <<awsVars, run, saved, infra>>
            BY <1>9 DEF Destroy, Moves, CanTransition, allowedTransitions
      <2>2. dep' \in DepRow /\ dep'.status = "destroying" /\ dep'.account = dep.account
            BY <1>5, <2>1 DEF Status
      <2>3. QED  BY <1>1, <1>2, <1>3, <1>4, <2>1, <2>2, KeptByPipeline DEF JobType
<1>10. CASE JobFails
      <2>1. /\ job' = "none" /\ run = NoTarget /\ ~Resolving
            /\ UNCHANGED <<awsVars, dep, run, saved, infra>>
            BY <1>10 DEF JobFails
      <2>2. QED  BY <1>1, <1>2, <1>3, <1>4, <2>1, KeptByPipeline
<1>11. CASE RunPlan
      <2>1. /\ run # NoTarget /\ job = "plan" /\ job' = "none" /\ saved' = run
            /\ dep' = [dep EXCEPT !.status = "awaiting_approval"]
            /\ run' = NoTarget /\ UNCHANGED <<awsVars, infra>>
            BY <1>11 DEF RunPlan, RunEnds, DoneStatus
      <2>2. dep' \in DepRow /\ dep'.status = "awaiting_approval" /\ dep'.account = dep.account
            BY <1>5, <2>1 DEF Status
      <2>3. QED  BY <1>1, <1>2, <1>3, <1>4, <2>1, <2>2, KeptByPipeline
<1>12. CASE RunApply
      <2>1. /\ run # NoTarget /\ job = "apply" /\ job' \in {"none", "destroy"}
            /\ saved # NoTarget /\ saved' = NoTarget
            /\ infra' = infra \cup {Account(saved)}
            /\ dep' = [dep EXCEPT !.status = "applied"]
            /\ run' = NoTarget /\ UNCHANGED awsVars
            BY <1>12 DEF RunApply, RunEnds, DoneStatus, Planned
      <2>2. dep' \in DepRow /\ dep'.status = "applied" /\ dep'.account = dep.account
            BY <1>5, <2>1 DEF Status
      <2>3. infra' \subseteq Accounts /\ (~moved => infra' \subseteq {dep.account})
            BY <1>1, <1>3, <1>6, <2>1
      <2>4. QED  BY <1>1, <1>2, <1>4, <2>1, <2>2, <2>3, KeptByPipeline DEF JobType
<1>13. CASE RunDestroy
      <2>1. /\ run # NoTarget /\ job' = "none" /\ saved' = NoTarget
            /\ infra' = infra \ {Account(run)}
            /\ dep' = [dep EXCEPT !.status = "destroyed"]
            /\ run' = NoTarget /\ UNCHANGED awsVars
            BY <1>13 DEF RunDestroy, RunEnds, DoneStatus
      <2>2. dep' \in DepRow /\ dep'.status = "destroyed" /\ dep'.account = dep.account
            BY <1>5, <2>1 DEF Status
      <2>3. infra' \subseteq Accounts /\ (~moved => infra' = {})
            BY <1>1, <1>3, <2>1
      <2>4. QED  BY <1>1, <1>2, <1>4, <2>1, <2>2, <2>3, KeptByPipeline
<1>14. CASE RunFails
      <2>1. /\ run # NoTarget /\ job \in JobType /\ ~Resolving
            /\ dep.status \notin {"none", "destroyed"}
            /\ job' \in {job, "none"} /\ run' = NoTarget /\ UNCHANGED awsVars
            /\ saved' \in {run, NoTarget}
            BY <1>1, <1>2, <1>14 DEF RunFails, RunEnds
      <2>2. dep' \in DepRow /\ dep'.account = dep.account
            /\ dep'.status \notin {"none", "destroyed"}
            <3>1. FailedStatus(job) \in Status \ {"destroyed"} /\ "unknown" \in Status
                  BY <2>1 DEF FailedStatus, JobType, Status
            <3>2. PICK s \in (Status \cup {dep.status}) \ {"destroyed"} :
                    dep' = [dep EXCEPT !.status = s]
                  BY <1>14, <2>1, <3>1 DEF RunFails, RunEnds
            <3>3. dep.status \in Status /\ "none" \notin Status
                  BY <1>1, <2>1 DEF DepRow, Status
            <3>4. s \in Status /\ s \notin {"none", "destroyed"}  BY <3>2, <3>3
            <3>5. QED  BY <1>5, <3>2, <3>4
      <2>3. \/ infra' = infra \/ infra' = infra \ {Account(run)}
            \/ saved # NoTarget /\ infra' = infra \cup {Account(saved)}
            BY <1>14 DEF RunFails, Planned
      <2>4. infra' \subseteq Accounts /\ (~moved => infra' \subseteq {dep.account})
            BY <1>1, <1>3, <1>6, <2>3
      <2>5. QED  BY <1>1, <1>2, <1>4, <2>1, <2>2, <2>4, KeptByPipeline
<1>15. ASSUME NEW r \in Requests, PlanRead(r)  PROVE IInv'
      <2>1. /\ AwsTypeOK' /\ RequestsInv' /\ req'[r].op = "plan"
            /\ \A q \in Requests \ {r} : req'[q] = req[q]
            BY <1>1, <1>15, TargetSteps DEF PlanRead
      <2>2. Unresolving  BY <2>1 DEF Unresolving
      <2>3. UNCHANGED pipeline  BY <1>15 DEF PlanRead
      <2>4. QED  BY <1>1, <1>2, <1>3, <2>1, <2>2, <2>3, KeptByPipeline DEF pipeline
<1>16. ASSUME NEW r \in Requests, Create(r)  PROVE IInv'
      <2>1. /\ AwsTypeOK' /\ RequestsInv' /\ req'[r].op = "check"
            /\ \A q \in Requests \ {r} : req'[q] = req[q]
            /\ req[r].account \in Accounts
            BY <1>1, <1>16, TargetHeard DEF Create
      <2>2. Unresolving  BY <2>1 DEF Unresolving
      <2>3. UNCHANGED <<run, saved, infra>>  BY <1>16 DEF Create
      <2>4. CASE dep' = dep /\ job' = job
            BY <1>1, <1>2, <1>3, <2>1, <2>2, <2>3, <2>4, KeptByPipeline
      <2>5. CASE /\ dep.status = "none" /\ job' = "plan"
                 /\ dep' = [status |-> "planning", account |-> req[r].account]
            <3>1. dep' \in DepRow /\ dep'.status = "planning" /\ dep' # dep
                  BY <2>1, <2>5 DEF DepRow, Status
            <3>2. /\ moved' \in BOOLEAN
                  /\ ~moved' /\ Exists' => row'.account \in {NoAccount, dep'.account}
                  BY <1>1, <3>1, WatchedSteps
            <3>3. run = NoTarget /\ saved = NoTarget /\ infra = {} /\ ~Resolving
                  BY <1>2, <2>5
            <3>4. \A q \in Requests : req'[q].op # "job"
                  BY <2>2, <3>3 DEF Unresolving, Resolving
            <3>5. TypeOK'
                  BY <2>1, <2>3, <2>5, <3>1, <3>2, <3>3 DEF TypeOK, DepRow, JobType
            <3>6. PipelineInv'
                  BY <2>3, <2>5, <3>1, <3>3, <3>4 DEF PipelineInv, Resolving
            <3>7. AccountInv'
                  BY <2>3, <3>1, <3>2, <3>3, <3>4 DEF AccountInv
            <3>8. QED  BY <2>1, <3>5, <3>6, <3>7
      <2>6. QED  BY <1>16, <2>4, <2>5 DEF Create
<1>17. ASSUME NEW r \in Requests, JobStart(r)  PROVE IInv'
      <2>1. /\ AwsTypeOK' /\ RequestsInv' /\ req'[r].op = "job" /\ req'[r].account = row.account
            /\ \A q \in Requests \ {r} : req'[q] = req[q]
            /\ Exists /\ row.account \in Accounts /\ UNCHANGED row
            BY <1>1, <1>17, TargetSteps DEF JobStart
      <2>2. job # "none" /\ run = NoTarget /\ ~Resolving /\ UNCHANGED pipeline
            BY <1>17 DEF JobStart
      <2>3. \A q \in Requests : req'[q].op = "job" => q = r
            BY <2>1, <2>2 DEF Resolving
      <2>4. moved' \in BOOLEAN /\ (~moved' => ~moved)  BY <1>1, WatchedSteps
      <2>5. TypeOK'  BY <1>1, <2>1, <2>2, <2>4 DEF TypeOK, DepRow, pipeline
      <2>6. PipelineInv'  BY <1>2, <2>2, <2>3 DEF PipelineInv, pipeline
      <2>7. AccountInv'
            <3> SUFFICES ASSUME ~moved'  PROVE AccountInv'  BY DEF AccountInv
            <3>1. dep.status # "none"  BY <1>2, <2>2
            <3>2. row.account = dep.account
                  <4>1. row.account \in {NoAccount, dep.account}
                        BY <2>1, <2>4, <3>1 DEF AccountInv
                  <4>2. QED  BY <2>1, <4>1, ConnectionAssumption
            <3>3. \A q \in Requests : req'[q].op = "job" => req'[q].account = dep'.account
                  BY <2>1, <2>2, <2>3, <3>2 DEF pipeline
            <3>4. Exists' => row'.account = dep'.account
                  BY <2>1, <2>2, <3>2 DEF pipeline
            <3>5. QED
                  BY <2>2, <2>4, <3>3, <3>4 DEF AccountInv, pipeline, Account
      <2>8. QED  BY <2>1, <2>5, <2>6, <2>7
<1>18. ASSUME NEW r \in Requests, JobResolved(r)  PROVE IInv'
      <2>1. /\ AwsTypeOK' /\ RequestsInv' /\ req'[r].op = "check" /\ req[r].op = "job"
            /\ \A q \in Requests \ {r} : req'[q] = req[q]
            /\ req[r].account \in Accounts /\ req[r].ext \in ExternalIds
            BY <1>1, <1>18, TargetHeard DEF JobResolved
      <2>2. Resolving /\ run = NoTarget /\ job # "none"
            BY <1>2, <2>1 DEF Resolving
      <2>3. \A q \in Requests : req'[q].op # "job"
            BY <2>1 DEF PipelineInv
      <2>4. /\ moved' \in BOOLEAN
            /\ ~moved' => /\ ~moved
                          /\ dep'.status # "none" /\ Exists'
                               => row'.account \in {NoAccount, dep'.account}
            BY <1>1, WatchedSteps
      <2>5. dep.status \in Status \ {"destroyed"}
            BY <1>1, <1>2, <2>2 DEF DepRow
      <2>6. /\ dep' \in DepRow /\ dep'.account = dep.account
            /\ dep'.status \notin {"none", "destroyed"}
            <3>1. dep' = dep \/ dep' = [dep EXCEPT !.status = "destroying"]
                  BY <1>18 DEF JobResolved, Unresolved
            <3>2. "destroying" \in Status /\ "none" \notin Status  BY DEF Status
            <3>3. QED  BY <1>1, <1>5, <2>5, <3>1, <3>2
      <2>7. /\ \/ run' = <<req[r].account, req[r].ext>> /\ job' = job
               \/ run' = NoTarget /\ job' = "none"
            /\ UNCHANGED <<saved, infra>>
            BY <1>18, <2>2 DEF JobResolved
      <2>8. run' \in Targets \cup {NoTarget}  BY <2>1, <2>7 DEF Targets
      <2>9. TypeOK'  BY <1>1, <2>1, <2>4, <2>6, <2>7, <2>8 DEF TypeOK, DepRow
      <2>10. PipelineInv'
            BY <2>2, <2>3, <2>6, <2>7 DEF PipelineInv, Resolving
      <2>11. AccountInv'
            <3> SUFFICES ASSUME ~moved'  PROVE AccountInv'  BY DEF AccountInv
            <3>1. req[r].account = dep.account  BY <2>1, <2>4 DEF AccountInv
            <3>2. run' # NoTarget => Account(run') = dep'.account
                  BY <2>6, <2>7, <3>1 DEF Account
            <3>3. saved' # NoTarget => Account(saved') = dep'.account
                  BY <1>3, <2>4, <2>6, <2>7 DEF Account
            <3>4. infra' \subseteq {dep'.account}  BY <1>3, <2>4, <2>6, <2>7
            <3>5. QED  BY <2>3, <2>4, <2>6, <3>2, <3>3, <3>4 DEF AccountInv, Account
      <2>12. QED  BY <2>1, <2>9, <2>10, <2>11
<1>20. QED
      BY <1>7, <1>8, <1>9, <1>10, <1>11, <1>12, <1>13, <1>14, <1>15, <1>16, <1>17, <1>18
      DEF Next

-------------------------------------------------------------------------------
(* Theorems *)

LEMMA InitHolds == Init => IInv
<1> SUFFICES ASSUME Init  PROVE IInv  OBVIOUS
<1>1. /\ row = NoRow /\ ids = 0 /\ faults = 0 /\ trust = [a \in Accounts |-> 0]
      /\ req = [r \in Requests |-> NoRequest]
      /\ dep = [status |-> "none", account |-> NoAccount] /\ job = "none"
      /\ run = NoTarget /\ saved = NoTarget /\ infra = {} /\ moved = FALSE
      BY DEF Init, AwsInit
<1>2. MaxRows \in Nat /\ MaxFaults \in Nat  BY ConnectionAssumption
<1>3. NoRequest \in Request  BY <1>2 DEF NoRequest, Request
<1>4. TypeOK
      <2>1. 0 \in 0..MaxRows /\ 0 \in 0..MaxFaults  BY <1>2
      <2>2. AwsTypeOK  BY <1>1, <1>3, <2>1 DEF AwsTypeOK
      <2>3. QED  BY <1>1, <2>2 DEF TypeOK
<1>5. RequestsInv  BY <1>1 DEF RequestsInv, NoRequest
<1>6. PipelineInv  BY <1>1 DEF PipelineInv, Resolving, NoRequest
<1>7. AccountInv  BY <1>1 DEF AccountInv, NoRequest
<1>8. QED  BY <1>4, <1>5, <1>6, <1>7 DEF IInv

(* Requests keep to the row they read, one at most resolves a target for the  *)
(* job, and targets stay with the account as long as the connection does.   *)
THEOREM Invariant == Spec => []IInv
<1>1. IInv /\ UNCHANGED vars => IInv'
      BY DEF IInv, TypeOK, AwsTypeOK, RequestsInv, PipelineInv, AccountInv,
             Resolving, Exists, Account, vars
<1>2. QED  BY <1>1, InitHolds, ProvisioningSteps, PTL DEF Spec

(* Every variable of the connection and of the pipeline has its type.        *)
THEOREM TypeCorrect == Spec => []TypeOK
BY Invariant, PTL DEF IInv

(* As long as the connection names the deployment's account, its row says     *)
(* truly where its resources are, and "destroyed" that there are none.      *)
THEOREM RecordsAreTrue == Spec => []RecordIsTrue
<1>1. IInv => RecordIsTrue  BY DEF IInv, AccountInv, RecordIsTrue
<1>2. QED  BY <1>1, Invariant, PTL

(* Once there are resources nothing is planned any more, and an apply that is *)
(* tried again finds no plan to apply.                                      *)
SplitInv ==
  /\ NeverSplit
  /\ infra # {} => job # "plan" /\ (job = "apply" => saved = NoTarget)
  /\ infra # {} \/ job = "apply" =>
       dep.status \notin {"none", "planning", "awaiting_approval"}

LEMMA SplitSteps ==
  ASSUME IInv, SplitInv, [Next]_vars  PROVE SplitInv'
<1> USE DEF SplitInv, NeverSplit
<1>1. dep.status = "none" => infra = {}  BY DEF IInv, PipelineInv
<1>2. dep \in DepRow /\ job \in JobType \cup {"none"}
      BY DEF IInv, TypeOK, DepRow
<1>3. CASE UNCHANGED pipeline  BY <1>3 DEF pipeline
<1>4. ASSUME NEW r \in Requests, Create(r)  PROVE SplitInv'
      BY <1>1, <1>4 DEF Create
<1>5. ASSUME NEW r \in Requests, JobResolved(r)  PROVE SplitInv'
      BY <1>2, <1>5 DEF JobResolved, Unresolved, DepRow
<1>6. CASE Approve
      <2>1. dep.status = "awaiting_approval" /\ infra' = infra
            BY <1>6 DEF Approve, Moves, CanTransition, allowedTransitions
      <2>2. dep'.status = "applying"  BY <1>2, <1>6 DEF Approve, Moves, DepRow
      <2>3. QED  BY <2>1, <2>2
<1>7. CASE Destroy
      <2>1. dep'.status = "destroying" /\ job' = "destroy" /\ infra' = infra
            BY <1>2, <1>7 DEF Destroy, Moves, DepRow
      <2>2. QED  BY <2>1
<1>8. CASE JobFails  BY <1>8 DEF JobFails
<1>9. CASE RunPlan
      <2>1. infra' = {} /\ job' = "none"  BY <1>9 DEF RunPlan
      <2>2. QED  BY <2>1
<1>10. CASE RunApply
      <2>1. /\ infra = {} /\ infra' = {Account(saved)}
            /\ dep'.status = "applied" /\ job' \in {"none", "destroy"}
            BY <1>2, <1>10 DEF RunApply, RunEnds, Planned, DoneStatus, DepRow
      <2>2. QED  BY <2>1
<1>11. CASE RunDestroy
      <2>1. /\ infra' \subseteq infra /\ dep'.status = "destroyed" /\ job' = "none"
            BY <1>2, <1>11 DEF RunDestroy, RunEnds, DoneStatus, DepRow
      <2>2. QED  BY <2>1
<1>12. CASE RunFails
      <2>1. /\ job' \in {job, "none"}
            /\ job # "destroy" => saved' = NoTarget
            BY <1>12 DEF RunFails
      <2>2. /\ dep'.status \in {dep.status, "unknown", FailedStatus(job)}
            BY <1>2, <1>12 DEF RunFails, RunEnds, DepRow
      <2>3. FailedStatus(job) \notin {"none", "planning", "awaiting_approval"}
            BY <1>2, <1>12 DEF RunFails, FailedStatus, JobType, IInv, PipelineInv
      <2>4. CASE infra' \subseteq infra  BY <2>1, <2>2, <2>3, <2>4
      <2>5. CASE job = "apply" /\ saved # NoTarget /\ infra' = infra \cup {Account(saved)}
            <3>1. infra = {} /\ infra' = {Account(saved)}  BY <2>5
            <3>2. dep.status \notin {"none", "planning", "awaiting_approval"}
                  BY <2>5
            <3>3. QED  BY <2>1, <2>2, <2>3, <2>5, <3>1, <3>2
      <2>6. QED  BY <1>12, <2>4, <2>5 DEF RunFails, Planned
<1>13. QED
      BY <1>3, <1>4, <1>5, <1>6, <1>7, <1>8, <1>9, <1>10, <1>11, <1>12
      DEF Next, vars, pipeline, Connection, PlanRead, JobStart

(* A deployment whose apply failed half way is not applied a second time, in  *)
(* another account: whatever its jobs resolved, wherever the connection went *)
(* in between, its resources are all in one account.                        *)
THEOREM NeverSplits == Spec => []NeverSplit
<1>1. Init => SplitInv  BY DEF Init, SplitInv, NeverSplit
<1>2. IInv /\ SplitInv /\ [Next]_vars => SplitInv'  BY SplitSteps
<1>3. QED  BY <1>1, <1>2, Invariant, PTL DEF Spec, SplitInv

(* What becomes of the row in a step. *)
LEMMA RowSteps ==
  ASSUME IInv, Next
  PROVE  \/ row' = row \/ row' = NoRow
         \/ Exists /\ row' = [row EXCEPT !.fresh = FALSE]
         \/ ~Exists /\ row' = [ext |-> ids + 1, account |-> NoAccount, status |-> "pending",
                               error |-> "none", fresh |-> FALSE]
         \/ Exists /\ \E code \in Codes : row' = MarkBroken(code)
         \/ Exists /\ \E a \in Accounts : row' = MarkActive(a)
         \/ Exists /\ row' = TouchChecked
<1> DEFINE Goal == \/ row' = row \/ row' = NoRow
                   \/ Exists /\ row' = [row EXCEPT !.fresh = FALSE]
                   \/ ~Exists /\ row' = [ext |-> ids + 1, account |-> NoAccount,
                                         status |-> "pending", error |-> "none", fresh |-> FALSE]
                   \/ Exists /\ \E code \in Codes : row' = MarkBroken(code)
                   \/ Exists /\ \E a \in Accounts : row' = MarkActive(a)
                   \/ Exists /\ row' = TouchChecked
<1> SUFFICES Goal  OBVIOUS
<1>1. ASSUME NEW r \in Requests, Write(r)  PROVE Goal
      <2>1. req[r].account \in Accounts  BY <1>1 DEF Write, IInv, RequestsInv
      <2>2. req[r].heard # "none" => req[r].heard \in Codes
            BY DEF IInv, TypeOK, AwsTypeOK, Request
      <2>3. QED  BY <1>1, <2>1, <2>2 DEF Write
<1>2. ASSUME AwsNext  PROVE Goal
      <2>1. Age \/ Start => Goal  BY DEF Age, Start, Pending
      <2>2. ASSUME NEW r \in Requests,
                   \/ \E a \in Accounts : VerifyRead(r, a)
                   \/ \E force \in BOOLEAN : CheckRead(r, force)
                   \/ DisconnectRead(r) \/ VerifyRole(r) \/ StsFails(r) \/ Dropped(r)
            PROVE  Goal
            <3>1. row' = row
                  BY <2>2 DEF VerifyRead, CheckRead, DisconnectRead, VerifyRole, StsFails, Dropped
            <3>2. QED  BY <3>1
      <2>3. ASSUME NEW r \in Requests, Disconnect(r)  PROVE Goal
            BY <2>3 DEF Disconnect
      <2>4. ASSUME NEW a \in Accounts, CreateStack(a) \/ DeleteStack(a)  PROVE Goal
            <3>1. row' = row  BY <2>4 DEF CreateStack, DeleteStack
            <3>2. QED  BY <3>1
      <2> HIDE DEF Goal
      <2>5. QED  BY <1>1, <1>2, <2>1, <2>2, <2>3, <2>4 DEF AwsNext
<1>3. ASSUME NEW r \in Requests,
             PlanRead(r) \/ Create(r) \/ JobStart(r) \/ JobResolved(r)
      PROVE  Goal
      <2>1. Create(r) \/ JobResolved(r) => Goal  BY <1>1 DEF Create, JobResolved
      <2>2. PlanRead(r) \/ JobStart(r) => row' = row  BY DEF PlanRead, JobStart, TargetRead
      <2>3. QED  BY <1>3, <2>1, <2>2
<1>4. ASSUME UNCHANGED awsVars  PROVE Goal  BY <1>4 DEF awsVars
<1>5. Approve \/ Destroy \/ JobFails \/ RunPlan \/ RunApply \/ RunDestroy \/ RunFails
        => UNCHANGED awsVars
      BY DEF Approve, Destroy, JobFails, RunPlan, RunApply, RunDestroy, RunFails, RunEnds
<1>6. Connection => AwsNext  BY DEF Connection
<1> HIDE DEF Goal
<1>7. QED  BY <1>2, <1>3, <1>4, <1>5, <1>6 DEF Next

(* Whichever of several verdicts is written last, a broken connection, and no *)
(* other, has a reason to show.                                             *)
THEOREM BrokenIsExplained == Spec => []BrokenSaysWhy
<1>1. Init => BrokenSaysWhy  BY DEF Init, AwsInit, BrokenSaysWhy, Exists
<1>2. IInv /\ BrokenSaysWhy /\ [Next]_vars => BrokenSaysWhy'
      <2> SUFFICES ASSUME IInv, BrokenSaysWhy, [Next]_vars  PROVE BrokenSaysWhy'  OBVIOUS
      <2>1. Exists => row \in Row /\ (row.status = "broken" <=> row.error # "none")
            BY DEF IInv, TypeOK, AwsTypeOK, Exists, BrokenSaysWhy
      <2>2. CASE UNCHANGED vars  BY <2>1, <2>2 DEF vars, BrokenSaysWhy, Exists
      <2>3. ASSUME Next, Exists'  PROVE row'.status = "broken" <=> row'.error # "none"
            <3>1. CASE row' = row  BY <2>1, <2>3, <3>1 DEF Exists
            <3>2. CASE Exists /\ row' = [row EXCEPT !.fresh = FALSE]
                  BY <2>1, <3>2 DEF Row
            <3>3. CASE row' = [ext |-> ids + 1, account |-> NoAccount, status |-> "pending",
                               error |-> "none", fresh |-> FALSE]
                  BY <3>3
            <3>4. CASE Exists /\ \E code \in Codes : row' = MarkBroken(code)
                  BY <2>1, <3>4 DEF MarkBroken, Row, Codes
            <3>5. CASE Exists /\ \E a \in Accounts : row' = MarkActive(a)
                  BY <2>1, <3>5 DEF MarkActive, Row
            <3>6. CASE Exists /\ row' = TouchChecked
                  BY <2>1, <3>6 DEF TouchChecked, Row
            <3>7. QED
                  BY <2>3, <3>1, <3>2, <3>3, <3>4, <3>5, <3>6, RowSteps DEF Exists
      <2>4. QED  BY <2>2, <2>3 DEF BrokenSaysWhy
<1>3. QED  BY <1>1, <1>2, Invariant, PTL DEF Spec

(* The external id that the customer's role trusts stays as long as the row.  *)
THEOREM ReconnectsKeepTheId == Spec => ExternalIdKept
<1>1. IInv /\ [Next]_vars => [Exists /\ row' # NoRow => row'.ext = row.ext]_awsVars
      <2> SUFFICES ASSUME IInv, [Next]_vars, Exists, row' # NoRow
                   PROVE  row'.ext = row.ext
          OBVIOUS
      <2>1. row \in Row  BY DEF IInv, TypeOK, AwsTypeOK, Exists
      <2>2. CASE UNCHANGED vars  BY <2>2 DEF vars
      <2>3. CASE Next
            BY <2>1, <2>3, RowSteps DEF MarkBroken, MarkActive, TouchChecked, Row
      <2>4. QED  BY <2>2, <2>3
<1>2. QED  BY <1>1, Invariant, PTL DEF Spec, ExternalIdKept

===============================================================================
