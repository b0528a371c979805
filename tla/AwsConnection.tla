----------------------------- MODULE AwsConnection -----------------------------
(***************************************************************************)
(* One user's AWS connection: the row of aws_connections                   *)
(* (internal/store/connections.go), the requests that write it             *)
(* (internal/awsconnect/service.go), and the role in the customer's account *)
(* that decides whether it works.                                          *)
(*                                                                         *)
(* Verify, Check and TargetFor read the row, ask STS, and write a verdict:  *)
(* three steps, between which other requests and the customer act.         *)
(* The role's name is fixed per user, so an account names its ARN.         *)
(***************************************************************************)
EXTENDS Naturals

CONSTANTS
  Accounts,     \* AWS accounts that a pasted ARN may name
  Owned,        \* those in which the customer can create the stack
  MaxRows,      \* bound on the times a row is inserted
  MaxFaults,    \* bound on the answers of STS that say nothing of the role
  Requests,     \* HTTP requests and jobs that can be in progress at once
  NoAccount,    \* role_arn, account_id IS NULL
  NoRow

ASSUME ConnectionAssumption ==
  /\ Owned \subseteq Accounts
  /\ NoAccount \notin Accounts
  /\ MaxRows \in Nat \ {0}
  /\ MaxFaults \in Nat

VARIABLES
  row,     \* the user's row, or NoRow
  ids,     \* external ids generated so far, numbered
  trust,   \* per account: the external id its role trusts (0: no role)
  req,     \* per request slot: its next step, what it has read and heard
  faults   \* answers of STS so far that said nothing of the role

awsVars == <<row, ids, trust, req, faults>>

-------------------------------------------------------------------------------
(* State formulae *)

ExternalIds == 1..MaxRows

Codes == {"access", "aws_side"}

(* fresh: last_checked_at lies within the freshness window. *)
Row == [ext: ExternalIds, account: Accounts \cup {NoAccount},
        status: {"pending", "active", "broken"},
        error: Codes \cup {"none"}, fresh: BOOLEAN]

(* account: the one claimed (Verify) or stored (Check, and TargetFor on      *)
(* behalf of a plan or a job).                                              *)
Request == [pc: {"none", "call", "write", "delete"},
            op: {"verify", "check", "plan", "job"},
            account: Accounts \cup {NoAccount}, ext: 0..MaxRows,
            heard: Codes \cup {"none"}]

NoRequest == [pc |-> "none", op |-> "check", account |-> NoAccount,
              ext |-> 0, heard |-> "none"]

Exists == row # NoRow
Works(account, ext) == account # NoAccount /\ trust[account] = ext /\ ext # 0

Answer(r) == req' = [req EXCEPT ![r] = NoRequest]

(* The request has read the row and goes on to call STS. *)
Ask(r, op, account) ==
  req' = [req EXCEPT ![r] = [pc |-> "call", op |-> op, account |-> account,
                             ext |-> row.ext, heard |-> "none"]]

AwsInit ==
  /\ row = NoRow
  /\ ids = 0
  /\ trust = [a \in Accounts |-> 0]
  /\ req = [r \in Requests |-> NoRequest]
  /\ faults = 0

-------------------------------------------------------------------------------
(* The customer *)

(* The CloudFormation stack is created from a launch link, whose external id *)
(* is that of some row so far, or deleted.                                  *)
CreateStack(a) ==
  /\ a \in Owned /\ trust[a] = 0
  /\ \E e \in 1..ids : trust' = [trust EXCEPT ![a] = e]
  /\ UNCHANGED <<row, ids, req, faults>>

DeleteStack(a) ==
  /\ trust[a] # 0
  /\ trust' = [trust EXCEPT ![a] = 0]
  /\ UNCHANGED <<row, ids, req, faults>>

(* CheckFreshness runs out. *)
Age ==
  /\ Exists /\ row.fresh
  /\ row' = [row EXCEPT !.fresh = FALSE]
  /\ UNCHANGED <<ids, trust, req, faults>>

-------------------------------------------------------------------------------
(* Requests *)

(* Mutants: the external id is left out; a conflict takes the new one. *)
PendingUnnamed(e) ==
  IF Exists THEN row
  ELSE [ext |-> 0, account |-> NoAccount, status |-> "pending",
        error |-> "none", fresh |-> FALSE]
PendingOverwritten(e) ==
  [ext |-> e, account |-> NoAccount, status |-> "pending", error |-> "none", fresh |-> FALSE]

(* The row EnsurePending leaves: a new one, or the one there was. *)
Pending(e) ==
  IF Exists THEN row
  ELSE [ext |-> e, account |-> NoAccount, status |-> "pending",
        error |-> "none", fresh |-> FALSE]

(* Start generates an external id, and uses it if there is no row. *)
Start ==
  /\ ids < MaxRows
  /\ ids' = IF Exists THEN ids ELSE ids + 1
  /\ row' = Pending(ids + 1)
  /\ UNCHANGED <<trust, req, faults>>

(* Verify reads the row and takes the pasted ARN as a claim. *)
VerifyRead(r, a) ==
  /\ req[r].pc = "none"
  /\ Exists
  /\ Ask(r, "verify", a)
  /\ UNCHANGED <<row, ids, trust, faults>>

(* Mutant: only an active connection is checked again. *)
CheckableIfActive == row.status = "active" /\ row.account # NoAccount

Checkable == row.status # "pending" /\ row.account # NoAccount

(* Status calls Check unless the row is pending, has no role or, when the   *)
(* caller does not force it, was checked recently.                          *)
CheckRead(r, force) ==
  /\ req[r].pc = "none"
  /\ Exists /\ Checkable
  /\ force \/ ~row.fresh
  /\ Ask(r, "check", row.account)
  /\ UNCHANGED <<row, ids, trust, faults>>

Connected == Exists /\ row.status = "active" /\ row.account # NoAccount

(* TargetFor, for a plan or for a job. *)
TargetRead(r, op) ==
  /\ req[r].pc = "none"
  /\ Connected
  /\ Ask(r, op, row.account)
  /\ UNCHANGED <<row, ids, trust, faults>>

(* AssumeRole and GetCallerIdentity answer for the role ... *)
VerifyRole(r) ==
  /\ req[r].pc = "call"
  /\ req' = [req EXCEPT ![r].pc = "write",
                        ![r].heard = IF Works(req[r].account, req[r].ext) THEN "none" ELSE "access"]
  /\ UNCHANGED <<row, ids, trust, faults>>

(* ... or throttles, times out, or is not to be reached. *)
StsFails(r) ==
  /\ req[r].pc = "call"
  /\ faults < MaxFaults
  /\ faults' = faults + 1
  /\ req' = [req EXCEPT ![r].pc = "write", ![r].heard = "aws_side"]
  /\ UNCHANGED <<row, ids, trust>>

(* The three verdicts are UPDATEs by user_id: they write whatever row the   *)
(* user has by then, and none if there is none.                             *)
MarkBroken(code) == [row EXCEPT !.status = "broken", !.error = code, !.fresh = TRUE]

MarkActive(a) ==
  [row EXCEPT !.account = a, !.status = "active", !.error = "none", !.fresh = TRUE]

(* Mutant: a success leaves the verdict of an earlier failure. *)
TouchOnly == [row EXCEPT !.error = "none", !.fresh = TRUE]

TouchChecked == [row EXCEPT !.status = "active", !.error = "none", !.fresh = TRUE]

Write(r) ==
  LET q == req[r]
  IN  /\ q.pc = "write"
      /\ row' = IF ~Exists THEN NoRow
                ELSE IF q.heard # "none" THEN MarkBroken(q.heard)
                ELSE CASE q.op = "verify" -> MarkActive(q.account)
                       [] q.op = "check"  -> TouchChecked
                       [] OTHER           -> row
      /\ Answer(r)
      /\ UNCHANGED <<ids, trust, faults>>

(* Disconnect looks the row up, then deletes the user's row. *)
DisconnectRead(r) ==
  /\ req[r].pc = "none"
  /\ Exists
  /\ req' = [req EXCEPT ![r].pc = "delete"]
  /\ UNCHANGED <<row, ids, trust, faults>>

Disconnect(r) ==
  /\ req[r].pc = "delete"
  /\ row' = NoRow
  /\ Answer(r)
  /\ UNCHANGED <<ids, trust, faults>>

(* The request is cancelled, or the process or the database goes away. *)
Dropped(r) ==
  /\ req[r].pc # "none"
  /\ faults < MaxFaults
  /\ faults' = faults + 1
  /\ Answer(r)
  /\ UNCHANGED <<row, ids, trust>>

(* All but the reading and the use of a target, which Provisioning has.     *)
AwsNext ==
  \/ \E a \in Accounts : CreateStack(a) \/ DeleteStack(a)
  \/ Age
  \/ Start
  \/ \E r \in Requests :
       \/ \E a \in Accounts : VerifyRead(r, a)
       \/ \E force \in BOOLEAN : CheckRead(r, force)
       \/ DisconnectRead(r)
       \/ (req[r].op \in {"verify", "check"} /\ Write(r)) \/ Disconnect(r)
       \/ VerifyRole(r) \/ StsFails(r) \/ Dropped(r)

-------------------------------------------------------------------------------
(* Properties *)

AwsTypeOK ==
  /\ row \in Row \cup {NoRow}
  /\ ids \in 0..MaxRows
  /\ trust \in [Accounts -> 0..MaxRows]
  /\ req \in [Requests -> Request]
  /\ faults \in 0..MaxFaults

(* A reconnect keeps the external id for as long as the row lives, or the   *)
(* role the customer has created would no longer answer to it.              *)
ExternalIdKept == [][Exists /\ row' # NoRow => row'.ext = row.ext]_awsVars

(* The UI explains every broken connection, and no other, whichever verdict *)
(* was written last.                                                        *)
BrokenSaysWhy == Exists => (row.status = "broken" <=> row.error # "none")

(* Whatever late verdicts say, the stored status catches up with AWS: when  *)
(* the role stays, with the row's external id, the connection repairs       *)
(* itself, and when it stays away that is noticed.  Pasting ARNs must end:  *)
(* each failing Verify marks the row broken and checked anew.               *)
Settled ==
  /\ Exists /\ row.status # "pending" /\ row.account # NoAccount
  /\ \A r \in Requests : req[r].op # "verify"
VerdictCatchesUp ==
  /\ <>[](Settled /\ Works(row.account, row.ext)) => []<>(Exists /\ row.status = "active")
  /\ <>[](Settled /\ ~Works(row.account, row.ext)) => []<>(Exists /\ row.status # "active")

===============================================================================
