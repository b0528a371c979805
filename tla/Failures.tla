-------------------------------- MODULE Failures -------------------------------
(***************************************************************************)
(* From an error to what a user is told: a Terraform command or an STS call  *)
(* fails, the error carries some text or an API code (RunError of            *)
(* runner/terraform), internal/awsfail classifies it, the code is stored and *)
(* read back.  A text is the set of the rules its words match, "other" being *)
(* words that match none.                                                   *)
(***************************************************************************)
EXTENDS Naturals, FiniteSets, Sequences, Functions

CONSTANTS
  Resources,   \* what the command creates, changes or destroys
  Echoes,      \* the rules that words of a resource's attributes match
  MaxMatches,  \* bound on the rules that one text matches
  Nothing

VARIABLES
  phase,        \* idle, running, over
  calls,        \* the AWS call for each resource
  diagnostics,  \* what terraform wrote to stderr
  output,       \* what it wrote to stdout
  err,          \* the error the command ended with, or Nothing
  failure       \* what it was classified as, or Nothing

vars == <<phase, calls, diagnostics, output, err, failure>>

-------------------------------------------------------------------------------
(* Classification *)

(* The substring rules of byMessage, in the order they are tried            *)
Rules == <<"account_problem", "access_denied", "region_unavailable", "role_missing",
           "our_credentials", "throttled", "timeout", "service_unavailable">>
Symptoms == Range(Rules) \cup {"other"}
Texts == {text \in SUBSET Symptoms : Cardinality(text) \in 1..MaxMatches}
Codes == Range(Rules) \cup {"quota_exceeded", "invalid_request", "unknown"}

(* Mutant: a timeout is a failure like any other. *)
TimeoutIsClean(code) ==
  [code |-> code,
   retryable |-> code \in {"throttled", "service_unavailable", "timeout"},
   aws_side |-> code \in {"throttled", "service_unavailable", "timeout"},
   indeterminate |-> code = "service_unavailable"]

(* The failure for a class of API error codes; timeoutFailure is one of them. *)
ByAPICode(code) ==
  [code |-> code,
   retryable |-> code \in {"throttled", "service_unavailable", "timeout"},
   aws_side |-> code \in {"throttled", "service_unavailable", "timeout"},
   indeterminate |-> code \in {"service_unavailable", "timeout"}]

Unidentified == [code |-> "unknown", retryable |-> TRUE, aws_side |-> FALSE,
                 indeterminate |-> TRUE]

ByMessage(text) ==
  LET matching == {i \in DOMAIN Rules : Rules[i] \in text}
  IN  IF matching = {} THEN Unidentified
      ELSE ByAPICode(Rules[CHOOSE i \in matching : \A j \in matching : i <= j])

(* context: it wraps a context error.  narrowed: what it offers as text to   *)
(* classify.  api: the class of its API error code, if it has one.          *)
Classify(e) ==
  IF e.context THEN ByAPICode("timeout")
  ELSE IF e.narrowed # {} THEN ByMessage(e.narrowed)
  ELSE IF e.api \in Codes \ {"unknown"} THEN ByAPICode(e.api)
  ELSE ByMessage(e.text)

(* The flags of a code read back from storage *)
Retryable(c) == c \in {"throttled", "service_unavailable", "timeout", "unknown"}
AWSSide(c) == c \in {"throttled", "service_unavailable", "timeout"}

(* Mutant: an unidentified failure reads back as a clean one. *)
IndeterminateIfIdentified(c) == c \in {"timeout", "service_unavailable"}

Indeterminate(c) == c \in {"timeout", "service_unavailable", "unknown"}

(* HealthOf: only the code is stored, the rest is worked out anew. *)
ReadBack(c) ==
  [code |-> c, retryable |-> Retryable(c), aws_side |-> AWSSide(c),
   indeterminate |-> Indeterminate(c)]

-------------------------------------------------------------------------------
(* Errors *)

(* Mutant: what is offered to classify is all the text there is. *)
RunErrorOfAll(context, diags, out) ==
  [context |-> context, narrowed |-> diags \cup out, api |-> "none", text |-> diags \cup out]

(* A command that failed: the output stands in where there is no diagnostic. *)
RunError(context, diags, out) ==
  [context |-> context, narrowed |-> diags, api |-> "none",
   text |-> IF diags # {} THEN diags ELSE out]

SdkError(context, code, text) ==
  [context |-> context, narrowed |-> {}, api |-> code, text |-> text]

-------------------------------------------------------------------------------
(* A command *)

Init ==
  /\ phase = "idle"
  /\ calls = [r \in Resources |-> "waiting"]
  /\ diagnostics = {} /\ output = {}
  /\ err = Nothing /\ failure = Nothing

Start ==
  /\ phase = "idle"
  /\ phase' = "running"
  /\ UNCHANGED <<calls, diagnostics, output, err, failure>>

(* The context is over before the command starts.                           *)
NeverStarts ==
  /\ phase = "idle"
  /\ phase' = "over"
  /\ err' = RunError(TRUE, {}, {})
  /\ UNCHANGED <<calls, diagnostics, output, failure>>

(* Verify and Check call STS instead; a transport error has text only.      *)
StsFails(context, code, text) ==
  /\ phase = "idle"
  /\ phase' = "over"
  /\ err' = SdkError(context, code, text)
  /\ UNCHANGED <<calls, diagnostics, output, failure>>

(* Terraform prints the attributes of the resources as it goes.             *)
Prints(s) ==
  /\ phase = "running"
  /\ output' = output \cup {s}
  /\ UNCHANGED <<phase, calls, diagnostics, err, failure>>

CallEnds(r, result) ==
  /\ phase = "running" /\ calls[r] = "waiting"
  /\ calls' = [calls EXCEPT ![r] = result]
  /\ UNCHANGED <<phase, output, err, failure>>

Succeeds(r) ==
  /\ CallEnds(r, "done")
  /\ UNCHANGED diagnostics

(* The words of a diagnostic that are due to what happened: a refusal's, or  *)
(* those of an answer that never came or says nothing.  Either may match     *)
(* other rules besides, by a name, a retry or a request id it mentions.      *)
Says(text, result) ==
  text \cap (IF result = "doubtful" THEN {"timeout", "service_unavailable", "other"}
             ELSE Symptoms \ {"timeout", "service_unavailable"}) # {}

(* AWS refuses the call, or what became of it is not known.                 *)
Fails(r, text, result) ==
  /\ Says(text, result)
  /\ CallEnds(r, result)
  /\ diagnostics' = diagnostics \cup text

Exits ==
  /\ phase = "running"
  /\ \A r \in Resources : calls[r] # "waiting"
  /\ phase' = "over"
  /\ err' = IF diagnostics = {} THEN Nothing ELSE RunError(FALSE, diagnostics, output)
  /\ UNCHANGED <<calls, diagnostics, output, failure>>

(* The context ends and the process is killed, before it reports anything;   *)
(* the error wraps the exit status, not the context's.                      *)
Killed ==
  /\ phase = "running"
  /\ phase' = "over"
  /\ calls' = [r \in Resources |-> IF calls[r] = "waiting" THEN "doubtful" ELSE calls[r]]
  /\ diagnostics' = {}
  /\ err' = RunError(FALSE, {}, output)
  /\ UNCHANGED <<output, failure>>

(* handleRunError; Verify and Check of the connection *)
Report ==
  /\ phase = "over" /\ err # Nothing /\ failure = Nothing
  /\ failure' = Classify(err)
  /\ UNCHANGED <<phase, calls, diagnostics, output, err>>

Next ==
  \/ Start \/ NeverStarts \/ Exits \/ Killed \/ Report
  \/ \E context \in BOOLEAN, code \in Codes \cup {"none", "unlisted"}, text \in Texts :
       StsFails(context, code, text)
  \/ \E s \in Echoes : Prints(s)
  \/ \E r \in Resources : Succeeds(r)
  \/ \E r \in Resources, text \in Texts, result \in {"refused", "doubtful"} :
       Fails(r, text, result)

Spec == Init /\ [][Next]_vars

-------------------------------------------------------------------------------
(* Properties *)

Doubtful == \E r \in Resources : calls[r] = "doubtful"

(* The rules whose failures say that nothing took effect *)
Determinate == Range(Rules) \ {"timeout", "service_unavailable"}

(* A command that may have taken effect is reported as a clean failure only  *)
(* where words of a refusal are in what it is classified by: terraform's     *)
(* diagnostics, or its output if it was killed before it wrote any.  No end   *)
(* of a command, no class of error and no flag of a code hides the doubt.    *)
OnlyWordsHideDoubt ==
  (failure # Nothing /\ Doubtful /\ ~failure.indeterminate) =>
    Determinate \cap (IF diagnostics # {} THEN diagnostics ELSE output) # {}

(* Where terraform says what failed, what it printed of the resources'       *)
(* attributes has no part in the verdict.                                   *)
OutputDoesNotClassify ==
  (failure # Nothing /\ diagnostics # {}) => failure.code \in diagnostics \cup {"unknown"}

(* A failure read back from its stored code is what it was when reported.   *)
FlagsSurviveStorage == failure # Nothing => ReadBack(failure.code) = failure

===============================================================================
