----------------------------- MODULE RefreshTokens -----------------------------
(***************************************************************************)
(* The refresh_tokens table for one user (internal/store/tokens.go), and    *)
(* the requests that write it (internal/auth/service.go): signing in,       *)
(* refreshing and logging out.  A rotation is a transaction at READ         *)
(* COMMITTED: it reads the row presented, under its lock, in one statement  *)
(* and writes in a later one, and other requests run between the two.       *)
(***************************************************************************)
EXTENDS Naturals

CONSTANTS
  Tokens,    \* refresh tokens, fresh when issued
  NoToken,
  Requests   \* rotations that may be under way at once

ASSUME TokensAssumption == Tokens # {} /\ NoToken \notin Tokens

VARIABLES
  rows,  \* refresh_tokens as committed, by token
  txn,   \* per request: its rotation under way
  cut    \* history: the tokens that were there when a cascade began

tokenVars == <<rows, txn, cut>>

-------------------------------------------------------------------------------
(* State formulae *)

(* by: replaced_by.  recent: revoked no longer than refreshGrace ago. *)
TokenRow == [state: {"none", "live", "revoked"}, by: Tokens \cup {NoToken},
             recent: BOOLEAN, expired: BOOLEAN]

Issued == {t \in Tokens : rows[t].state # "none"}
Unused == Tokens \ Issued
Live == {t \in Tokens : rows[t].state = "live"}

LiveRow == [state |-> "live", by |-> NoToken, recent |-> FALSE, expired |-> FALSE]
Revoked(t, by) ==
  [state |-> "revoked", by |-> by, recent |-> TRUE, expired |-> rows[t].expired]

(* A rotation under way: the verdict on its token, and for a cascade the    *)
(* rows in the snapshot of its UPDATE, which follows at once.               *)
RotateOutcome == {"invalid", "ok", "grace", "reuse"}
Rotation == [outcome: {"none"} \cup RotateOutcome, old: Tokens \cup {NoToken},
             seen: SUBSET Tokens]
NoRotation == [outcome |-> "none", old |-> NoToken, seen |-> {}]
Rotating(q) == txn[q].outcome # "none"

(* SELECT ... FOR UPDATE: the row is locked until the transaction ends. *)
LockedByOther(q, t) == \E r \in Requests \ {q} : Rotating(r) /\ txn[r].old = t
Locked(t) == \E r \in Requests : Rotating(r) /\ txn[r].old = t

(* Mutant: the replacement's own fate is not looked at. *)
GraceWithoutReplacement(t) ==
  rows[t].state = "revoked" /\ rows[t].by # NoToken /\ rows[t].recent

(* graceOK: rotated a moment ago, and the replacement still stands. *)
Grace(t) ==
  /\ rows[t].state = "revoked" /\ rows[t].by # NoToken /\ rows[t].recent
  /\ rows[rows[t].by].state = "live"

(* RotateOutcome, for a token that exists *)
Outcome(t) ==
  IF rows[t].expired THEN "invalid"
  ELSE IF rows[t].state = "live" THEN "ok"
  ELSE IF Grace(t) THEN "grace"
  ELSE "reuse"

TokensInit ==
  /\ rows = [t \in Tokens |-> [LiveRow EXCEPT !.state = "none"]]
  /\ txn = [q \in Requests |-> NoRotation]
  /\ cut = {}

-------------------------------------------------------------------------------
(* Requests *)

(* Signup and Login: TokenStore.Create *)
Issue(new) ==
  /\ new \in Unused
  /\ rows' = [rows EXCEPT ![new] = LiveRow]
  /\ UNCHANGED <<txn, cut>>

(* ConsumeForRotation up to its verdict.  The row presented cannot change    *)
(* under the lock, so it is read together with its replacement.             *)
RotateRead(q, old) ==
  /\ ~Rotating(q)
  /\ old \in Issued /\ ~Locked(old)
  /\ txn' = [txn EXCEPT ![q] =
       [outcome |-> Outcome(old), old |-> old,
        seen |-> IF Outcome(old) = "reuse" THEN Issued ELSE {}]]
  /\ UNCHANGED <<rows, cut>>

(* The rows the UPDATE's snapshot shows and that are still live. *)
Cascaded(seen) ==
  [t \in Tokens |-> IF t \in Live \cap seen THEN Revoked(t, rows[t].by) ELSE rows[t]]

(* Mutant: a grace rotation moves the replacement pointer. *)
ReplacedAgain(q, new) ==
  [rows EXCEPT ![new] = LiveRow, ![txn[q].old] = Revoked(txn[q].old, new)]

(* The first rotation revokes the old row and names its replacement; one    *)
(* within the grace period only adds a row.                                 *)
Replaced(q, new) ==
  [rows EXCEPT ![new] = LiveRow,
               ![txn[q].old] = IF txn[q].outcome = "ok" /\ @.state = "live"
                               THEN Revoked(txn[q].old, new) ELSE @]

(* The writes and the commit.  The cascade's UPDATE waits for the rows of    *)
(* its snapshot that others have locked; rows inserted since escape it.     *)
RotateWrite(q, new) ==
  /\ Rotating(q)
  /\ txn' = [txn EXCEPT ![q] = NoRotation]
  /\ \/ /\ txn[q].outcome = "invalid"
        /\ UNCHANGED <<rows, cut>>
     \/ /\ txn[q].outcome \in {"ok", "grace"}
        /\ new \in Unused
        /\ rows' = Replaced(q, new)
        /\ UNCHANGED cut
     \/ /\ txn[q].outcome = "reuse"
        /\ \A t \in txn[q].seen \cap Live : ~LockedByOther(q, t)
        /\ rows' = Cascaded(txn[q].seen)
        /\ cut' = cut \cup txn[q].seen

(* The connection is lost, or the request is cancelled: a rollback. *)
RotateFails(q) ==
  /\ Rotating(q)
  /\ txn' = [txn EXCEPT ![q] = NoRotation]
  /\ UNCHANGED <<rows, cut>>

(* Logout: GetByHash, then Revoke of a row that is not revoked. *)
Revoke(t) ==
  /\ t \in Issued /\ ~Locked(t)
  /\ rows' = IF t \in Live THEN [rows EXCEPT ![t] = Revoked(t, NoToken)] ELSE rows
  /\ UNCHANGED <<txn, cut>>

(* Time passes: refreshGrace since a revocation, refreshTTL since an issue. *)
GraceEnds(t) ==
  /\ rows[t].recent
  /\ rows' = [rows EXCEPT ![t].recent = FALSE]
  /\ UNCHANGED <<txn, cut>>

Expire(t) ==
  /\ t \in Issued /\ ~rows[t].expired
  /\ rows' = [rows EXCEPT ![t].expired = TRUE]
  /\ UNCHANGED <<txn, cut>>

TokensNext ==
  \/ \E t \in Tokens : Issue(t) \/ Revoke(t) \/ GraceEnds(t) \/ Expire(t)
  \/ \E q \in Requests, t \in Tokens : RotateRead(q, t) \/ RotateWrite(q, t)
  \/ \E q \in Requests : RotateFails(q)

TokensSpec == TokensInit /\ [][TokensNext]_tokenVars

-------------------------------------------------------------------------------
(* Properties *)

TokensTypeOK ==
  /\ rows \in [Tokens -> TokenRow]
  /\ txn \in [Requests -> Rotation]
  /\ cut \subseteq Tokens

(* A cascade ends every session there was when it began: none of its tokens  *)
(* is live, or revived through one that it replaced, unless a rotation that  *)
(* was under way replaced it meanwhile (a token the cascade did not see).   *)
CascadeEndsSessions ==
  \A t \in cut : Outcome(t) \in {"ok", "grace"} => rows[t].by \in Tokens \ cut

(* A request within the grace period leaves the chain of rotations intact.  *)
ReplacementIsFixed ==
  [][\A t \in Tokens : rows[t].by # NoToken => rows'[t].by = rows[t].by]_tokenVars

===============================================================================
