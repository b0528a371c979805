----------------------------- MODULE FailuresProofs -----------------------------
(***************************************************************************)
(* Classification, for any number of resources and whatever their           *)
(* attributes are called: what is stored of a failure is enough, and what a  *)
(* command printed on its way has no part in the verdict.                   *)
(***************************************************************************)
EXTENDS Failures, TLAPS

(* The codes that rules and classes of API errors yield. *)
RuleCodes == {"account_problem", "access_denied", "region_unavailable", "role_missing",
              "our_credentials", "throttled", "timeout", "service_unavailable"}

LEMMA RulesRange ==
  /\ Range(Rules) = RuleCodes
  /\ DOMAIN Rules = 1..8
  /\ \A i \in DOMAIN Rules : Rules[i] \in RuleCodes
<1>1. DOMAIN Rules = 1..8 /\ \A i \in 1..8 : Rules[i] \in RuleCodes
      BY DEF Rules, RuleCodes
<1>2. /\ Rules[1] = "account_problem" /\ Rules[2] = "access_denied"
      /\ Rules[3] = "region_unavailable" /\ Rules[4] = "role_missing"
      /\ Rules[5] = "our_credentials" /\ Rules[6] = "throttled"
      /\ Rules[7] = "timeout" /\ Rules[8] = "service_unavailable"
      BY DEF Rules
<1>3. \A c \in RuleCodes : \E i \in 1..8 : Rules[i] = c
      BY <1>2 DEF RuleCodes
<1>4. QED  BY <1>1, <1>3 DEF Range

(* The first of the rules that match. *)
LEMMA FirstRule ==
  ASSUME NEW text
  PROVE  LET matching == {i \in DOMAIN Rules : Rules[i] \in text}
             first == CHOOSE i \in matching : \A j \in matching : i <= j
         IN  matching # {} => first \in matching
<1> DEFINE matching == {i \in DOMAIN Rules : Rules[i] \in text}
<1>1. SUFFICES ASSUME matching # {}
               PROVE  \E i \in matching : \A j \in matching : i <= j
      OBVIOUS
<1>2. matching \subseteq 1..8  BY RulesRange
<1>3. QED  BY <1>1, <1>2

(* byMessage yields one of the codes whose words are in the text, or the     *)
(* failure that is not identified.                                          *)
LEMMA MessageCode ==
  ASSUME NEW text
  PROVE  \/ ByMessage(text) = Unidentified
         \/ \E c \in RuleCodes \cap text : ByMessage(text) = ByAPICode(c)
<1> DEFINE matching == {i \in DOMAIN Rules : Rules[i] \in text}
           first == CHOOSE i \in matching : \A j \in matching : i <= j
<1>1. CASE matching = {}  BY <1>1 DEF ByMessage
<1>2. CASE matching # {}
      <2>1. first \in matching  BY <1>2, FirstRule
      <2>2. Rules[first] \in RuleCodes \cap text  BY <2>1, RulesRange
      <2>3. ByMessage(text) = ByAPICode(Rules[first])  BY <1>2 DEF ByMessage
      <2>4. QED  BY <2>2, <2>3
<1>3. QED  BY <1>1, <1>2

(* The flags of every code but "unknown" are those of its class, and those   *)
(* of "unknown" are those of the failure that is not identified.            *)
LEMMA FlagsOfCodes ==
  /\ \A c \in RuleCodes \cup {"quota_exceeded", "invalid_request"} :
       ReadBack(ByAPICode(c).code) = ByAPICode(c)
  /\ ReadBack(Unidentified.code) = Unidentified
<1>1. ASSUME NEW c \in RuleCodes \cup {"quota_exceeded", "invalid_request"}
      PROVE  ReadBack(ByAPICode(c).code) = ByAPICode(c)
      <2>1. c # "unknown"  BY <1>1 DEF RuleCodes
      <2>2. Retryable(c) = (c \in {"throttled", "service_unavailable", "timeout"})
            BY <2>1 DEF Retryable
      <2>3. AWSSide(c) = (c \in {"throttled", "service_unavailable", "timeout"})
            BY DEF AWSSide
      <2>4. Indeterminate(c) = (c \in {"service_unavailable", "timeout"})
            BY <2>1 DEF Indeterminate
      <2>5. ByAPICode(c).code = c  BY DEF ByAPICode
      <2>6. QED  BY <2>2, <2>3, <2>4, <2>5, Zenon DEF ReadBack, ByAPICode
<1>2. ReadBack(Unidentified.code) = Unidentified
      <2>1. /\ Retryable("unknown") = TRUE /\ AWSSide("unknown") = FALSE
            /\ Indeterminate("unknown") = TRUE
            BY DEF Retryable, AWSSide, Indeterminate
      <2>2. Unidentified.code = "unknown"  BY DEF Unidentified
      <2>3. QED  BY <2>1, <2>2, Zenon DEF ReadBack, Unidentified
<1>3. QED  BY <1>1, <1>2

LEMMA ClassifyReadsBack ==
  ASSUME NEW e  PROVE ReadBack(Classify(e).code) = Classify(e)
<1>1. \A text : ReadBack(ByMessage(text).code) = ByMessage(text)
      BY MessageCode, FlagsOfCodes
<1>2. \A c \in Codes \ {"unknown"} : ReadBack(ByAPICode(c).code) = ByAPICode(c)
      BY RulesRange, FlagsOfCodes DEF Codes
<1>3. "timeout" \in Codes \ {"unknown"}  BY RulesRange DEF Codes, RuleCodes
<1>4. QED  BY <1>1, <1>2, <1>3 DEF Classify

(* A failure that is stored by its code alone is read back as it was         *)
(* reported, flag by flag: nothing AWS or Terraform may say is told to the   *)
(* user in one way and stored in another.                                   *)
THEOREM FlagsAreKept == Spec => []FlagsSurviveStorage
<1>1. ASSUME failure # Nothing => ReadBack(failure.code) = failure, [Next]_vars
      PROVE  (failure # Nothing => ReadBack(failure.code) = failure)'
      <2>1. UNCHANGED failure \/ failure' = Classify(err)
            BY <1>1 DEF Next, vars, Start, NeverStarts, Exits, Killed, Report, StsFails,
                        Prints, Succeeds, Fails, CallEnds
      <2>2. CASE UNCHANGED failure  BY <1>1, <2>2
      <2>3. CASE failure' = Classify(err)  BY <2>3, ClassifyReadsBack
      <2>4. QED  BY <2>1, <2>2, <2>3
<1>2. Init => FlagsSurviveStorage  BY DEF Init, FlagsSurviveStorage
<1>3. QED  BY <1>1, <1>2, PTL DEF Spec, FlagsSurviveStorage

-------------------------------------------------------------------------------

(* The error of a command that wrote diagnostics offers just these, and it   *)
(* is not a context error; diagnostics are not written once it is over.     *)
ErrInv ==
  /\ phase \in {"idle", "running", "over"}
  /\ phase = "idle" => diagnostics = {}
  /\ phase # "over" => err = Nothing
  /\ failure # Nothing => phase = "over" /\ err # Nothing /\ failure = Classify(err)
  /\ (phase = "over" /\ diagnostics # {}) => err = RunError(FALSE, diagnostics, output)

LEMMA ErrInvHolds == Spec => []ErrInv
<1>1. Init => ErrInv  BY DEF Init, ErrInv
<1>2. ErrInv /\ [Next]_vars => ErrInv'
      <2> SUFFICES ASSUME ErrInv, [Next]_vars  PROVE ErrInv'  OBVIOUS
      <2> USE DEF ErrInv
      <2>1. CASE Start  BY <2>1 DEF Start
      <2>2. CASE NeverStarts  BY <2>2 DEF NeverStarts
      <2>3. CASE Exits  BY <2>3 DEF Exits
      <2>4. CASE Killed  BY <2>4 DEF Killed
      <2>5. CASE Report  BY <2>5 DEF Report
      <2>6. ASSUME NEW context, NEW code, NEW text, StsFails(context, code, text)
            PROVE  ErrInv'
            BY <2>6 DEF StsFails
      <2>7. ASSUME NEW s, Prints(s)  PROVE ErrInv'  BY <2>7 DEF Prints
      <2>8. ASSUME NEW r, Succeeds(r)  PROVE ErrInv'  BY <2>8 DEF Succeeds, CallEnds
      <2>9. ASSUME NEW r, NEW text, NEW result, Fails(r, text, result)  PROVE ErrInv'
            BY <2>9 DEF Fails, CallEnds
      <2>10. CASE UNCHANGED vars  BY <2>10 DEF vars
      <2>11. QED  BY <2>1, <2>2, <2>3, <2>4, <2>5, <2>6, <2>7, <2>8, <2>9, <2>10 DEF Next
<1>3. QED  BY <1>1, <1>2, PTL DEF Spec

(* Where Terraform says what failed, the verdict is about that: attributes   *)
(* of a user's resources, which its output repeats, cannot pass for a        *)
(* timeout or a refusal.                                                    *)
THEOREM OutputIsIgnored == Spec => []OutputDoesNotClassify
<1>1. ErrInv => OutputDoesNotClassify
      <2> SUFFICES ASSUME ErrInv, failure # Nothing, diagnostics # {}
                   PROVE  failure.code \in diagnostics \cup {"unknown"}
          BY DEF OutputDoesNotClassify
      <2>1. failure = Classify(RunError(FALSE, diagnostics, output))  BY DEF ErrInv
      <2>2. failure = ByMessage(diagnostics)  BY <2>1 DEF Classify, RunError
      <2>3. QED  BY <2>2, MessageCode DEF Unidentified, ByAPICode
<1>2. QED  BY <1>1, ErrInvHolds, PTL

-------------------------------------------------------------------------------

(* Only a command that started has done anything, and where its outcome is   *)
(* in doubt its error carries what it wrote.                                *)
DoubtInv ==
  /\ phase = "idle" => ~Doubtful
  /\ (phase = "over" /\ Doubtful /\ err # Nothing) =>
       err = RunError(FALSE, diagnostics, output)

LEMMA DoubtInvHolds == Spec => []DoubtInv
<1>1. Init => DoubtInv  BY DEF Init, DoubtInv, Doubtful
<1>2. DoubtInv /\ [Next]_vars => DoubtInv'
      <2> SUFFICES ASSUME DoubtInv, [Next]_vars  PROVE DoubtInv'  OBVIOUS
      <2> USE DEF DoubtInv, Doubtful
      <2>1. CASE Start \/ NeverStarts  BY <2>1 DEF Start, NeverStarts
      <2>2. CASE Exits  BY <2>2 DEF Exits
      <2>3. CASE Killed  BY <2>3 DEF Killed
      <2>4. CASE Report  BY <2>4 DEF Report
      <2>5. ASSUME NEW context, NEW code, NEW text, StsFails(context, code, text)
            PROVE  DoubtInv'
            BY <2>5 DEF StsFails
      <2>6. ASSUME NEW s, Prints(s)  PROVE DoubtInv'  BY <2>6 DEF Prints
      <2>7. ASSUME NEW r, NEW result, CallEnds(r, result)  PROVE DoubtInv'
            BY <2>7 DEF CallEnds
      <2>8. CASE UNCHANGED vars  BY <2>8 DEF vars
      <2>9. QED
            BY <2>1, <2>2, <2>3, <2>4, <2>5, <2>6, <2>7, <2>8 DEF Next, Succeeds, Fails
<1>3. QED  BY <1>1, <1>2, PTL DEF Spec

(* Whatever fails of however many calls, and however the command ends, only  *)
(* words of a refusal make a failure that may have taken effect a clean one: *)
(* every other rule that its text can match, and matching none, leaves the   *)
(* outcome in doubt.                                                        *)
THEOREM DoubtIsHiddenByWordsOnly == Spec => []OnlyWordsHideDoubt
<1>1. ErrInv /\ DoubtInv => OnlyWordsHideDoubt
      <2> DEFINE text == IF diagnostics # {} THEN diagnostics ELSE output
      <2> SUFFICES ASSUME ErrInv, DoubtInv, failure # Nothing, Doubtful,
                          Determinate \cap text = {}
                   PROVE  failure.indeterminate
          BY DEF OnlyWordsHideDoubt
      <2>1. failure = Classify(RunError(FALSE, diagnostics, output))
            BY DEF ErrInv, DoubtInv
      <2>2. failure = ByMessage(text)
            <3>1. "none" \notin Codes  BY RulesRange DEF Codes, RuleCodes
            <3>2. QED  BY <2>1, <3>1 DEF Classify, RunError
      <2> HIDE DEF text
      <2>3. CASE failure = Unidentified  BY <2>3 DEF Unidentified
      <2>4. ASSUME NEW c \in RuleCodes \cap text, failure = ByAPICode(c)
            PROVE  failure.indeterminate
            <3>1. c \in {"timeout", "service_unavailable"}
                  BY <2>4, RulesRange DEF Determinate
            <3>2. QED  BY <2>4, <3>1 DEF ByAPICode
      <2>5. QED  BY <2>2, <2>3, <2>4, MessageCode
<1>2. QED  BY <1>1, ErrInvHolds, DoubtInvHolds, PTL

===============================================================================
