-------------------------- MODULE BrowserSessionProofs -------------------------
(***************************************************************************)
(* Proofs about RefreshTokens, for any set of tokens and of requests: what   *)
(* a cascade ends stays ended, and a rotation is never renamed.  The tabs    *)
(* do to the server's table what RefreshTokens lets requests do, so it holds *)
(* of the browser's sessions too.                                           *)
(***************************************************************************)
EXTENDS BrowserSession, TLAPS

-------------------------------------------------------------------------------
(* The table of refresh tokens *)


(* A replacement was issued, a cascade sees issued rows, none that one has   *)
(* cut is live, and only an unused row has no state.                        *)
RowsIInv ==
  /\ TokensTypeOK
  /\ \A t \in Tokens : rows[t].by \in Issued \cup {NoToken}
  /\ \A t \in Tokens : rows[t].by # NoToken => rows[t].state = "revoked"
  /\ \A q \in Requests : /\ txn[q].seen \subseteq Issued
                         /\ Rotating(q) => txn[q].old \in Issued
  /\ cut \subseteq Issued
  /\ cut \cap Live = {}

(* Revoking a row gives a row. *)
LEMMA RevokedRow ==
  ASSUME RowsIInv, NEW t \in Tokens, NEW by \in Tokens \cup {NoToken}
  PROVE  /\ Revoked(t, by) \in TokenRow
         /\ Revoked(t, by).by = by /\ Revoked(t, by).state = "revoked"
BY DEF Revoked, RowsIInv, TokensTypeOK, TokenRow

(* The writes of a rotation: a row stays issued, and one that is revoked     *)
(* stays revoked.                                                           *)
LEMMA RotateWriteStep ==
  ASSUME RowsIInv, NEW q \in Requests, NEW new \in Tokens, RotateWrite(q, new)
  PROVE  RowsIInv'
<1> USE TokensAssumption
<1>1. txn' = [txn EXCEPT ![q] = NoRotation] BY DEF RotateWrite
<1>2. NoRotation \in Rotation BY DEF NoRotation, Rotation
<1>3. txn' \in [Requests -> Rotation] BY <1>1, <1>2 DEF RowsIInv, TokensTypeOK
<1>4. CASE rows' = rows /\ cut' = cut
  BY <1>1, <1>3, <1>4 DEF RowsIInv, TokensTypeOK, Issued, Live, Rotating, NoRotation
<1>5. CASE /\ txn[q].outcome \in {"ok", "grace"} /\ new \in Unused
           /\ rows' = Replaced(q, new) /\ cut' = cut
  <2> DEFINE old == txn[q].old
  <2>1. old \in Issued BY DEF RowsIInv, RotateWrite
  <2>2. old \in Tokens /\ old # new /\ rows[new].state = "none"
    BY <1>5, <2>1 DEF Issued, Unused
  <2>3. LiveRow \in TokenRow BY DEF LiveRow, TokenRow
  <2>4. Revoked(old, new) \in TokenRow /\ Revoked(old, new).by = new
        /\ Revoked(old, new).state = "revoked"
    BY <2>2, RevokedRow
  <2>5. /\ rows' \in [Tokens -> TokenRow]
        /\ rows'[new] = LiveRow
        /\ rows'[old] = rows[old] \/ rows'[old] = Revoked(old, new)
        /\ \A t \in Tokens \ {new, old} : rows'[t] = rows[t]
    BY <1>5, <2>2, <2>3, <2>4 DEF Replaced, RowsIInv, TokensTypeOK
  <2>6. /\ Issued' = Issued \cup {new}
        /\ Live' \subseteq Live \cup {new}
        /\ \A t \in Tokens : rows'[t].by \in Issued' \cup {NoToken}
        /\ \A t \in Tokens : rows'[t].by # NoToken => rows'[t].state = "revoked"
    <3>1. rows'[new].state = "live" /\ rows'[new].by = NoToken BY <2>5 DEF LiveRow
    <3>2. rows'[old].state # "none" /\ rows'[old].by \in Issued \cup {new, NoToken}
          /\ (rows'[old].by # NoToken => rows'[old].state = "revoked")
          /\ (rows'[old].state = "live" => rows[old].state = "live")
      BY <2>1, <2>2, <2>4, <2>5 DEF RowsIInv, Issued
    <3>3. Issued' = Issued \cup {new} BY <2>1, <2>5, <3>1, <3>2 DEF Issued
    <3>4. Live' \subseteq Live \cup {new} BY <2>5, <3>2 DEF Live
    <3> QED BY <2>5, <3>1, <3>2, <3>3, <3>4 DEF RowsIInv
  <2>7. new \notin cut BY <1>5 DEF RowsIInv, Unused
  <2>8. \A r \in Requests : /\ txn'[r].seen \subseteq Issued'
                            /\ (Rotating(r))' => txn'[r].old \in Issued'
    BY <1>1, <2>6 DEF RowsIInv, Rotating, NoRotation, TokensTypeOK
  <2> QED BY <1>3, <1>5, <2>5, <2>6, <2>7, <2>8 DEF RowsIInv, TokensTypeOK
<1>6. CASE rows' = Cascaded(txn[q].seen) /\ cut' = cut \cup txn[q].seen
  <2>1. ASSUME NEW t \in Tokens
        PROVE  /\ rows'[t] \in TokenRow
               /\ rows'[t].by = rows[t].by
               /\ \/ rows'[t].state = rows[t].state /\ (t \in txn[q].seen => t \notin Live)
                  \/ rows[t].state = "live" /\ rows'[t].state = "revoked"
    <3>1. rows[t] \in TokenRow /\ rows[t].by \in Tokens \cup {NoToken}
      BY DEF RowsIInv, TokensTypeOK, TokenRow
    <3>2. CASE t \in Live \cap txn[q].seen
      <4>1. rows'[t] = Revoked(t, rows[t].by) BY <1>6, <3>2 DEF Cascaded
      <4> QED BY <3>1, <3>2, <4>1, RevokedRow DEF Live
    <3>3. CASE t \notin Live \cap txn[q].seen
      BY <1>6, <3>1, <3>3 DEF Cascaded
    <3> QED BY <3>2, <3>3
  <2>9. /\ rows' \in [Tokens -> TokenRow]
        /\ Issued' = Issued
        /\ \A t \in txn[q].seen : t \in Tokens => rows'[t].state # "live"
    BY <1>6, <2>1 DEF Cascaded, Issued, Live
  <2>2. Live' \subseteq Live \ txn[q].seen BY <2>1, <2>9 DEF Live
  <2>3. cut' \in SUBSET Tokens /\ cut' \subseteq Issued' /\ cut' \cap Live' = {}
    BY <1>6, <2>9, <2>2 DEF RowsIInv, TokensTypeOK, Issued
  <2>4. \A r \in Requests : /\ txn'[r].seen \subseteq Issued'
                            /\ (Rotating(r))' => txn'[r].old \in Issued'
    BY <1>1, <2>9 DEF RowsIInv, Rotating, NoRotation, TokensTypeOK
  <2> QED BY <1>3, <2>1, <2>9, <2>2, <2>3, <2>4 DEF RowsIInv, TokensTypeOK, Live
<1> QED BY <1>4, <1>5, <1>6 DEF RotateWrite

LEMMA RotateReadStep ==
  ASSUME RowsIInv, NEW q \in Requests, NEW old \in Tokens, RotateRead(q, old)
  PROVE  RowsIInv'
<1> DEFINE new == [outcome |-> Outcome(old), old |-> old,
                   seen |-> IF Outcome(old) = "reuse" THEN Issued ELSE {}]
<1>1. new \in Rotation BY DEF Rotation, Outcome, RotateOutcome, Issued
<1>2. new.seen \subseteq Issued /\ new.old \in Issued BY DEF RotateRead
<1>3. txn' = [txn EXCEPT ![q] = new] /\ rows' = rows /\ cut' = cut BY DEF RotateRead
<1> HIDE DEF new
<1> QED BY <1>1, <1>2, <1>3 DEF RowsIInv, TokensTypeOK, Issued, Live, Rotating

(* The writes of one statement *)
LEMMA StatementStep ==
  ASSUME RowsIInv, NEW t \in Tokens, Issue(t) \/ Revoke(t) \/ GraceEnds(t) \/ Expire(t)
  PROVE  RowsIInv'
<1> USE TokensAssumption
<1>0. txn' = txn /\ cut' = cut BY DEF Issue, Revoke, GraceEnds, Expire
<1>1. CASE Issue(t)
  <2>1. /\ rows' \in [Tokens -> TokenRow] /\ rows'[t] = LiveRow
        /\ \A s \in Tokens \ {t} : rows'[s] = rows[s]
    BY <1>1 DEF Issue, RowsIInv, TokensTypeOK, LiveRow, TokenRow
  <2>2. Issued' = Issued \cup {t} /\ Live' = Live \cup {t}
    BY <2>1 DEF Issued, Live, LiveRow
  <2>3. t \notin cut BY <1>1 DEF Issue, Unused, RowsIInv
  <2>4. \A s \in Tokens : rows'[s].by \in Issued' \cup {NoToken}
    BY <2>1, <2>2 DEF RowsIInv, LiveRow
  <2>5. \A s \in Tokens : rows'[s].by # NoToken => rows'[s].state = "revoked"
    <3> SUFFICES ASSUME NEW s \in Tokens, rows'[s].by # NoToken PROVE rows'[s].state = "revoked"
      OBVIOUS
    <3>1. CASE s = t
      <4>1. rows'[s].by = NoToken BY <2>1, <3>1 DEF LiveRow
      <4> QED BY <4>1
    <3>2. CASE s # t
      <4>1. rows'[s] = rows[s] BY <2>1, <3>2
      <4> QED BY <4>1 DEF RowsIInv
    <3> QED BY <3>1, <3>2
  <2> QED BY <1>0, <2>1, <2>2, <2>3, <2>4, <2>5 DEF RowsIInv, TokensTypeOK, Rotating
<1>2. CASE Revoke(t) \/ GraceEnds(t) \/ Expire(t)
  <2>0. /\ rows[t] \in TokenRow
        /\ t \in Live => rows[t].by = NoToken /\ rows[t].state = "live"
    BY DEF RowsIInv, TokensTypeOK, Live, TokenRow
  <2>4. \/ rows' = rows
        \/ t \in Live /\ rows' = [rows EXCEPT ![t] = Revoked(t, NoToken)]
        \/ rows' = [rows EXCEPT ![t].recent = FALSE]
        \/ rows' = [rows EXCEPT ![t].expired = TRUE]
    BY <1>2 DEF Revoke, GraceEnds, Expire
  <2>5. /\ rows' \in [Tokens -> TokenRow]
        /\ rows'[t].by = rows[t].by
        /\ \/ rows'[t].state = rows[t].state
           \/ rows[t].state = "live" /\ rows'[t].state = "revoked"
        /\ \A s \in Tokens \ {t} : rows'[s] = rows[s]
    <3>1. CASE t \in Live /\ rows' = [rows EXCEPT ![t] = Revoked(t, NoToken)]
      BY <2>0, <3>1, RevokedRow DEF RowsIInv, TokensTypeOK
    <3>2. CASE rows' = [rows EXCEPT ![t].recent = FALSE]
      BY <2>0, <3>2 DEF RowsIInv, TokensTypeOK, TokenRow
    <3>3. CASE rows' = [rows EXCEPT ![t].expired = TRUE]
      BY <2>0, <3>3 DEF RowsIInv, TokensTypeOK, TokenRow
    <3>4. CASE rows' = rows BY <3>4 DEF RowsIInv, TokensTypeOK
    <3> QED BY <2>4, <3>1, <3>2, <3>3, <3>4
  <2>1. /\ rows' \in [Tokens -> TokenRow]
        /\ \A s \in Tokens : /\ rows'[s].by = rows[s].by
                             /\ \/ rows'[s].state = rows[s].state
                                \/ rows[s].state = "live" /\ rows'[s].state = "revoked"
    BY <2>5
  <2>2. Issued' = Issued /\ Live' \subseteq Live BY <2>1 DEF Issued, Live
  <2> QED BY <1>0, <2>1, <2>2 DEF RowsIInv, TokensTypeOK, Rotating, Live
<1> QED BY <1>1, <1>2

(* The invariant of the table and of the rotations under way. *)
THEOREM RowsInvariant == TokensSpec => []RowsIInv
<1>1. TokensInit => RowsIInv
  <2> SUFFICES ASSUME TokensInit PROVE RowsIInv OBVIOUS
  <2>1. \A t \in Tokens : /\ rows[t] \in TokenRow /\ rows[t].state = "none"
                          /\ rows[t].by = NoToken
    BY DEF TokensInit, LiveRow, TokenRow
  <2>2. \A q \in Requests : /\ txn[q] \in Rotation /\ txn[q].seen = {} /\ ~Rotating(q)
    BY DEF TokensInit, NoRotation, Rotation, Rotating
  <2>3. TokensTypeOK BY <2>1, <2>2 DEF TokensInit, TokensTypeOK
  <2> QED BY <2>1, <2>2, <2>3 DEF TokensInit, RowsIInv, Live
<1>2. RowsIInv /\ [TokensNext]_tokenVars => RowsIInv'
  <2> SUFFICES ASSUME RowsIInv, [TokensNext]_tokenVars PROVE RowsIInv' OBVIOUS
  <2>1. ASSUME NEW t \in Tokens, Issue(t) \/ Revoke(t) \/ GraceEnds(t) \/ Expire(t)
        PROVE  RowsIInv'
    BY <2>1, StatementStep
  <2>2. ASSUME NEW q \in Requests, NEW t \in Tokens, RotateRead(q, t) PROVE RowsIInv'
    BY <2>2, RotateReadStep
  <2>3. ASSUME NEW q \in Requests, NEW t \in Tokens, RotateWrite(q, t) PROVE RowsIInv'
    BY <2>3, RotateWriteStep
  <2>4. ASSUME NEW q \in Requests, RotateFails(q) PROVE RowsIInv'
    BY <2>4 DEF RotateFails, RowsIInv, TokensTypeOK, NoRotation, Rotation, Issued, Live,
       Rotating
  <2>5. CASE UNCHANGED tokenVars
    BY <2>5 DEF tokenVars, RowsIInv, TokensTypeOK, Issued, Live, Rotating
  <2> QED BY <2>1, <2>2, <2>3, <2>4, <2>5 DEF TokensNext
<1> QED BY <1>1, <1>2, PTL DEF TokensSpec

(* A cascade ends every session there was when it began, whatever runs       *)
(* beside it: only a token it could not see keeps a predecessor alive.      *)
THEOREM CascadeEnds == TokensSpec => []CascadeEndsSessions
<1>1. RowsIInv => CascadeEndsSessions
  <2> SUFFICES ASSUME RowsIInv, NEW t \in cut, Outcome(t) \in {"ok", "grace"}
               PROVE  rows[t].by \in Tokens \ cut
    BY DEF CascadeEndsSessions
  <2>1. t \in Tokens /\ rows[t].state # "live" BY DEF RowsIInv, TokensTypeOK, Live
  <2>2. Grace(t) BY <2>1 DEF Outcome
  <2>3. rows[t].by \in Tokens BY <2>1, <2>2 DEF Grace, RowsIInv, TokensTypeOK, TokenRow
  <2> QED BY <2>2, <2>3 DEF Grace, RowsIInv, Live
<1> QED BY <1>1, RowsInvariant, PTL

(* Whatever is presented again, and however many requests race, a token's    *)
(* replacement never changes once it has one.                               *)
THEOREM ReplacementNeverMoves == TokensSpec => ReplacementIsFixed
<1> DEFINE Fixed == \A t \in Tokens : rows[t].by # NoToken => rows'[t].by = rows[t].by
<1>1. RowsIInv /\ [TokensNext]_tokenVars => Fixed \/ UNCHANGED tokenVars
  <2> SUFFICES ASSUME RowsIInv, TokensNext PROVE Fixed
    BY DEF tokenVars
  <2>1. ASSUME NEW t \in Tokens, Issue(t) \/ Revoke(t) \/ GraceEnds(t) \/ Expire(t)
        PROVE  Fixed
    BY <2>1 DEF Issue, Revoke, GraceEnds, Expire, RowsIInv, TokensTypeOK, TokenRow, Revoked,
       Live, LiveRow, Unused, Issued
  <2>2. ASSUME NEW q \in Requests, NEW new \in Tokens, RotateWrite(q, new) PROVE Fixed
    <3>1. CASE new \in Unused /\ rows' = Replaced(q, new)
      <4>1. txn[q].old \in Tokens BY <2>2 DEF RowsIInv, RotateWrite, Issued
      <4>2. \A t \in Tokens \ {new} : rows'[t] = rows[t] \/ rows[t].state = "live"
        BY <3>1, <4>1 DEF Replaced, RowsIInv, TokensTypeOK
      <4>3. \A t \in Tokens : rows[t].state = "live" => rows[t].by = NoToken
        BY DEF RowsIInv, TokensTypeOK, TokenRow
      <4> QED BY <3>1, <4>2, <4>3 DEF RowsIInv, TokensTypeOK, Unused, Issued
    <3>2. CASE rows' = Cascaded(txn[q].seen)
      BY <3>2 DEF Cascaded, Revoked, RowsIInv, TokensTypeOK, TokenRow
    <3> QED BY <2>2, <3>1, <3>2 DEF RotateWrite
  <2>3. ASSUME NEW q \in Requests, RotateFails(q) \/ \E t \in Tokens : RotateRead(q, t)
        PROVE  Fixed
    BY <2>3 DEF RotateFails, RotateRead
  <2> QED BY <2>1, <2>2, <2>3 DEF TokensNext
<1>2. RowsIInv /\ [TokensNext]_tokenVars => [Fixed]_tokenVars BY <1>1
<1> QED BY <1>2, RowsInvariant, PTL DEF TokensSpec, ReplacementIsFixed

-------------------------------------------------------------------------------
(* The tabs of a browser *)

(* Every step of the tabs is a step of the server, or none of its business. *)
LEMMA TabStep == [Next]_vars => [TokensNext]_tokenVars
<1> SUFFICES ASSUME [Next]_vars PROVE [TokensNext]_tokenVars OBVIOUS
<1> USE DEF tokenVars
<1>1. CASE TimePasses BY <1>1 DEF TimePasses, TokensNext
<1>2. ASSUME NEW t \in Tabs,
             \/ CrossTabLogout(t) \/ LogoutStart(t) \/ LogoutLost(t) \/ LogoutEnds(t)
             \/ TimerRefresh(t) \/ CallRefresh(t) \/ CallBare(t) \/ BareAnswered(t)
             \/ RefreshEnds(t) \/ BodyStalls(t) \/ BodyArrives(t)
      PROVE  UNCHANGED tokenVars
  BY <1>2 DEF CrossTabLogout, LogoutStart, LogoutLost, LogoutEnds, TimerRefresh,
     CallRefresh, CallBare, BareAnswered, RefreshEnds, BodyStalls, BodyArrives, Ends
<1>3. ASSUME NEW t \in Tabs, Login(t) PROVE TokensNext
  <2>1. Issue(NewToken) /\ NewToken \in Tokens BY <1>3 DEF Login, Issue, Unused
  <2> QED BY <2>1 DEF TokensNext
<1>4. ASSUME NEW t \in Tabs, LogoutArrives(t) PROVE TokensNext
  <2>1. Revoke(logout.old) /\ logout.old \in Tokens BY <1>4 DEF LogoutArrives, Revoke, Issued
  <2> QED BY <2>1 DEF TokensNext
<1>5. ASSUME NEW t \in Tabs, RefreshArrives(t) PROVE TokensNext
  <2>1. RotateRead(t, refresh[t].old) /\ refresh[t].old \in Tokens
    BY <1>5 DEF RefreshArrives, RotateRead, Issued
  <2> QED BY <2>1, TabsAssumption DEF TokensNext
<1>6. ASSUME NEW t \in Tabs, RefreshServed(t) PROVE TokensNext
  <2>1. RotateWrite(t, NewToken) BY <1>6 DEF RefreshServed
  <2>2. \E new \in Tokens : RotateWrite(t, new)
    <3>1. CASE NewToken \in Tokens BY <2>1, <3>1
    <3>2. CASE NewToken \notin Tokens
      BY <2>1, <3>2, TokensAssumption DEF RotateWrite, Unused
    <3> QED BY <3>1, <3>2
  <2> QED BY <2>2, TabsAssumption DEF TokensNext
<1>7. ASSUME NEW t \in Tabs, RefreshLost(t) PROVE TokensNext \/ UNCHANGED tokenVars
  BY <1>7, TabsAssumption DEF RefreshLost, TokensNext
<1>8. CASE UNCHANGED vars BY <1>8 DEF vars
<1> QED BY <1>1, <1>2, <1>3, <1>4, <1>5, <1>6, <1>7, <1>8 DEF Next

(* The tabs implement the requests of RefreshTokens. *)
THEOREM TabsUseTokens == Spec => TokensSpec
<1>1. Init => TokensInit BY DEF Init
<1> QED BY <1>1, TabStep, PTL DEF Spec, TokensSpec

(* However the tabs of a browser race each other, a logout or a lost answer, *)
(* a cascade ends every session there was when it began, and a token is     *)
(* replaced once.                                                           *)
THEOREM TabsRespectCascades == Spec => []CascadeEndsSessions /\ ReplacementIsFixed
BY TabsUseTokens, CascadeEnds, ReplacementNeverMoves, PTL

-------------------------------------------------------------------------------
(* No tab presents a token twice *)

Refreshes == [pc: {"idle", "sent", "ok", "failed", "stalled", "rejected"},
              old: Tokens \cup {NoToken}, new: Tokens \cup {NoToken}]

(* What is stored and what a tab has presented was issued; a tab that has    *)
(* presented the stored token is still waiting for the answer; and the token *)
(* in an answer is known to the tab that is to store it and to nobody else.  *)
PresentInv ==
  /\ refresh \in [Tabs -> Refreshes]
  /\ presented \in [Tabs -> SUBSET Issued]
  /\ stored \in Issued \cup {NoToken}
  /\ \A t \in Tabs : stored \in presented[t] => InFlight(t)
  /\ \A t \in Tabs : refresh[t].new # NoToken =>
       /\ refresh[t].new \in Issued \ {stored}
       /\ \A u \in Tabs : refresh[t].new \notin presented[u]
       /\ \A u \in Tabs : refresh[u].new = refresh[t].new => u = t

(* A token that is issued stays so. *)
LEMMA IssuedStays ==
  ASSUME RowsIInv, [TokensNext]_tokenVars
  PROVE  Issued \subseteq Issued'
<1> USE TokensAssumption DEF RowsIInv, TokensTypeOK, TokenRow, Issued
<1>1. ASSUME NEW t \in Tokens, Issue(t) \/ Revoke(t) \/ GraceEnds(t) \/ Expire(t)
      PROVE  Issued \subseteq Issued'
      BY <1>1 DEF Issue, Revoke, GraceEnds, Expire, Revoked, LiveRow
<1>2. ASSUME NEW q \in Requests, NEW t \in Tokens, RotateRead(q, t) \/ RotateFails(q)
      PROVE  Issued \subseteq Issued'
      BY <1>2 DEF RotateRead, RotateFails
<1>3. ASSUME NEW q \in Requests, NEW t \in Tokens, RotateWrite(q, t)
      PROVE  Issued \subseteq Issued'
      BY <1>3 DEF RotateWrite, Replaced, Cascaded, Revoked, LiveRow
<1>4. CASE UNCHANGED tokenVars  BY <1>4 DEF tokenVars
<1>5. ASSUME NEW q \in Requests, RotateFails(q)
      PROVE  Issued \subseteq Issued'
      BY <1>5 DEF RotateFails
<1> QED BY <1>1, <1>2, <1>3, <1>4, <1>5 DEF TokensNext

(* Where the state of the tabs is left alone, all of it still holds. *)
LEMMA TabsIdle ==
  ASSUME PresentInv, RowsIInv, [TokensNext]_tokenVars, stored' \in {stored, NoToken},
         UNCHANGED <<refresh, presented>>
  PROVE  PresentInv'
BY IssuedStays, TokensAssumption DEF PresentInv, InFlight, RowsIInv, TokensTypeOK, Issued

LEMMA StartStep ==
  ASSUME PresentInv, RowsIInv, NEW t \in Tabs, ~InFlight(t), Start(t),
         UNCHANGED <<rows, stored>>
  PROVE  PresentInv'
<1>1. stored \in Issued /\ stored \in Tokens  BY DEF Start, PresentInv, Issued
<1>2. \A u \in Tabs : refresh'[u] = IF u = t THEN [pc |-> "sent", old |-> stored, new |-> NoToken]
                                   ELSE refresh[u]
      BY DEF Start, PresentInv
<1>3. \A u \in Tabs : presented'[u] = IF u = t THEN presented[t] \cup {stored}
                                     ELSE presented[u]
      BY DEF Start, PresentInv
<1>4. refresh' \in [Tabs -> Refreshes]
      BY <1>1 DEF Start, PresentInv, Refreshes
<1>5. presented' \in [Tabs -> SUBSET Issued]  BY <1>1 DEF Start, PresentInv
<1>6. Issued' = Issued  BY DEF Issued
<1>7. \A u \in Tabs : stored \in presented'[u] => refresh'[u].pc # "idle"
      BY <1>2, <1>3 DEF PresentInv, InFlight
<1>8. \A u \in Tabs : refresh'[u].new # NoToken =>
         u # t /\ refresh'[u].new = refresh[u].new
      BY <1>2
<1> QED BY <1>3, <1>4, <1>5, <1>6, <1>7, <1>8 DEF PresentInv, InFlight

(* A refresh that is refused at once, or whose answer stalls, holds on to    *)
(* what it has.                                                             *)
LEMMA HeldStep ==
  ASSUME PresentInv, RowsIInv, NEW t \in Tabs, NEW pc \in {"stalled", "rejected"},
         refresh' = [refresh EXCEPT ![t].pc = pc], UNCHANGED <<rows, stored, presented>>
  PROVE  PresentInv'
<1>1. refresh' \in [Tabs -> Refreshes]  BY DEF PresentInv, Refreshes
<1>2. \A u \in Tabs : refresh'[u].new = refresh[u].new  BY DEF PresentInv, Refreshes
<1>3. \A u \in Tabs : refresh[u].pc # "idle" => refresh'[u].pc # "idle"
      BY DEF PresentInv, Refreshes
<1>4. Issued' = Issued  BY DEF Issued
<1> QED BY <1>1, <1>2, <1>3, <1>4 DEF PresentInv, InFlight

(* A token that a tab or the storage comes by is a new one. *)
LEMMA LoginStep ==
  ASSUME PresentInv, RowsIInv, NEW t \in Tabs, Login(t)
  PROVE  PresentInv'
<1>1. NewToken \in Tokens \ Issued  BY DEF Login, Issue, Unused
<1>2. NewToken \in Issued'
      BY <1>1 DEF Login, Issue, Issued, LiveRow, RowsIInv, TokensTypeOK
<1>3. Issued \subseteq Issued'
      BY <1>1 DEF Login, Issue, Issued, LiveRow, RowsIInv, TokensTypeOK
<1>4. UNCHANGED <<refresh, presented>> /\ stored' = NewToken  BY DEF Login
<1>5. \A u \in Tabs : presented[u] \subseteq Issued
      BY DEF PresentInv
<1>6. \A u \in Tabs : refresh[u].new # NoToken => refresh[u].new \in Issued
      BY DEF PresentInv
<1> QED BY <1>1, <1>2, <1>3, <1>4, <1>5, <1>6 DEF PresentInv, InFlight

LEMMA ServedStep ==
  ASSUME PresentInv, RowsIInv, NEW t \in Tabs, RefreshServed(t)
  PROVE  PresentInv'
<1> DEFINE ok == txn[t].outcome \in {"ok", "grace"}
<1>1. [TokensNext]_tokenVars
      <2>1. [Next]_vars  BY DEF Next
      <2> QED BY <2>1, TabStep
<1>2. Issued \subseteq Issued'  BY <1>1, IssuedStays
<1>3. UNCHANGED <<stored, presented>>  BY DEF RefreshServed
<1>4. ok => NewToken \in Tokens \ Issued /\ rows' = Replaced(t, NewToken)
      BY DEF RefreshServed, RotateWrite, Unused
<1>5. ok => NewToken \in Issued'
      <2> SUFFICES ASSUME ok  PROVE NewToken \in Issued'  OBVIOUS
      <2>1. txn[t].old \in Issued  BY TabsAssumption DEF RefreshServed, RotateWrite, RowsIInv
      <2>2. rows'[NewToken] = LiveRow
            BY <1>4, <2>1 DEF Replaced, RowsIInv, TokensTypeOK, Issued
      <2> QED BY <1>4, <2>2 DEF Issued, LiveRow
<1>6. \A u \in Tabs : u # t => refresh'[u] = refresh[u]
      BY DEF RefreshServed, PresentInv
<1>7. /\ refresh'[t].pc = IF ok THEN "ok" ELSE "failed"
      /\ refresh'[t].old = refresh[t].old
      /\ refresh'[t].new = IF ok THEN NewToken ELSE NoToken
      BY DEF RefreshServed, PresentInv
<1>8. refresh' \in [Tabs -> Refreshes]
      <2> DEFINE pc == IF ok THEN "ok" ELSE "failed"
                 new == IF ok THEN NewToken ELSE NoToken
      <2>1. pc \in {"ok", "failed"} /\ new \in Tokens \cup {NoToken}  BY <1>4
      <2>2. refresh' = [refresh EXCEPT ![t].pc = pc, ![t].new = new]  BY DEF RefreshServed
      <2> HIDE DEF pc, new
      <2>3. [refresh EXCEPT ![t].pc = pc] \in [Tabs -> Refreshes]
            BY <2>1 DEF PresentInv, Refreshes
      <2>4. ASSUME NEW f \in [Tabs -> Refreshes]
            PROVE  [f EXCEPT ![t].new = new] \in [Tabs -> Refreshes]
            BY <2>1 DEF Refreshes
      <2> QED BY <2>2, <2>3, <2>4
<1> HIDE DEF ok
<1>9. \A u \in Tabs : stored \in presented[u] => refresh'[u].pc # "idle"
      BY <1>6, <1>7 DEF PresentInv, InFlight
<1>10. /\ \A u \in Tabs : presented[u] \subseteq Issued
       /\ stored \in Issued \cup {NoToken}
       /\ \A u \in Tabs : refresh[u].new # NoToken => refresh[u].new \in Issued
      BY DEF PresentInv
<1>11. ASSUME NEW u \in Tabs, refresh'[u].new # NoToken
       PROVE  /\ refresh'[u].new \in Issued' \ {stored'}
              /\ \A v \in Tabs : refresh'[u].new \notin presented'[v]
              /\ \A v \in Tabs : refresh'[v].new = refresh'[u].new => v = u
      <2>1. CASE u = t
            <3>1. ok /\ refresh'[u].new = NewToken  BY <1>7, <1>11, <2>1
            <3>2. NewToken # stored  BY <1>4, <1>10, <3>1, TokensAssumption
            <3>3. NewToken # NoToken  BY <1>4, <3>1, TokensAssumption
            <3> QED BY <1>3, <1>4, <1>5, <1>6, <1>10, <2>1, <3>1, <3>2, <3>3
      <2>2. CASE u # t
            <3>1. refresh'[u] = refresh[u]  BY <1>6, <2>2
            <3>2. refresh'[t].new # NoToken => refresh'[t].new \notin Issued  BY <1>4, <1>7
            <3>3. /\ refresh[u].new \in Issued \ {stored}
                  /\ \A v \in Tabs : refresh[u].new \notin presented[v]
                  /\ \A v \in Tabs : refresh[v].new = refresh[u].new => v = u
                  BY <1>11, <3>1 DEF PresentInv
            <3> QED BY <1>2, <1>3, <1>6, <1>11, <3>1, <3>2, <3>3
      <2> QED BY <2>1, <2>2
<1> QED BY <1>2, <1>3, <1>8, <1>9, <1>10, <1>11 DEF PresentInv, InFlight

(* A refresh that is lost, or at its end. *)
LEMMA EndsStep ==
  ASSUME PresentInv, RowsIInv, NEW t \in Tabs,
         RefreshLost(t) \/ RefreshEnds(t) \/ BodyArrives(t)
  PROVE  PresentInv'
<1> USE TokensAssumption
<1>0. RefreshLost(t) \/ Ends(t)  BY DEF RefreshEnds, BodyArrives
<1>1. Issued' = Issued
      BY <1>0 DEF RefreshLost, Ends, RotateFails, Issued
<1>2. presented' = presented  BY <1>0 DEF RefreshLost, Ends
<1>3. refresh' \in [Tabs -> Refreshes]
      BY <1>0 DEF RefreshLost, Ends, Idle, PresentInv, Refreshes
<1>4. \A u \in Tabs : u # t => refresh'[u] = refresh[u]
      BY <1>0 DEF RefreshLost, Ends, PresentInv
<1>5. refresh'[t].new = NoToken
      BY <1>0 DEF RefreshLost, Ends, Idle, PresentInv, Refreshes
<1>6. CASE RefreshLost(t)
      <2>1. refresh'[t].pc = "failed" /\ stored' = stored
            BY <1>6 DEF RefreshLost, PresentInv, Refreshes
      <2> QED BY <1>1, <1>2, <1>3, <1>4, <1>5, <2>1 DEF PresentInv, InFlight
<1>7. CASE Ends(t)
      <2>1. \/ refresh[t].new # NoToken /\ stored' = refresh[t].new
            \/ stored' = NoToken
            BY <1>7 DEF Ends, LoseSession
      <2>2. \A u \in Tabs : stored' \notin presented[u]
            BY <2>1 DEF PresentInv, Issued
      <2>3. stored' \in Issued \cup {NoToken}  BY <2>1 DEF PresentInv
      <2>4. \A u \in Tabs : refresh[u].new # NoToken /\ u # t =>
              refresh[u].new \in Issued \ {stored'}
            BY <2>1 DEF PresentInv, Issued
      <2> QED BY <1>1, <1>2, <1>3, <1>4, <1>5, <2>2, <2>3, <2>4 DEF PresentInv, InFlight
<1> QED BY <1>0, <1>6, <1>7

LEMMA PresentInvStep ==
  ASSUME PresentInv, RowsIInv, [Next]_vars
  PROVE  PresentInv'
<1>1. [TokensNext]_tokenVars  BY TabStep
<1>2. ASSUME NEW t \in Tabs,
             \/ CrossTabLogout(t) \/ LogoutStart(t) \/ LogoutArrives(t) \/ LogoutLost(t)
             \/ LogoutEnds(t) \/ RefreshArrives(t) \/ CallBare(t)
      PROVE  PresentInv'
      <2>1. stored' \in {stored, NoToken} /\ UNCHANGED <<refresh, presented>>
            BY <1>2 DEF CrossTabLogout, LogoutStart, LogoutArrives, LogoutLost, LogoutEnds,
               LoseSession, RefreshArrives, CallBare
      <2> QED BY <1>1, <2>1, TabsIdle
<1>3. ASSUME NEW t \in Tabs, TimerRefresh(t) \/ CallRefresh(t) \/ BareAnswered(t)
      PROVE  PresentInv'
      <2>1. UNCHANGED <<rows, stored>>  BY <1>3 DEF TimerRefresh, CallRefresh, BareAnswered
      <2>2. \/ UNCHANGED <<refresh, presented>>
            \/ ~InFlight(t) /\ Start(t)
            \/ Reject(t)
            BY <1>3 DEF TimerRefresh, CallRefresh, BareAnswered
      <2>3. CASE UNCHANGED <<refresh, presented>>  BY <1>1, <2>1, <2>3, TabsIdle
      <2>4. CASE ~InFlight(t) /\ Start(t)  BY <2>1, <2>4, StartStep
      <2>5. CASE Reject(t)
            <3>1. /\ refresh' = [refresh EXCEPT ![t].pc = "rejected"]
                  /\ presented' = presented
                  BY <2>5 DEF Reject
            <3> QED BY <2>1, <3>1, HeldStep
      <2> QED BY <2>2, <2>3, <2>4, <2>5
<1>4. ASSUME NEW t \in Tabs, BodyStalls(t)  PROVE PresentInv'
      <2>1. /\ refresh' = [refresh EXCEPT ![t].pc = "stalled"]
            /\ UNCHANGED <<rows, stored, presented>>
            BY <1>4 DEF BodyStalls
      <2> QED BY <2>1, HeldStep
<1>5. CASE TimePasses \/ UNCHANGED vars
      <2>1. stored' \in {stored, NoToken} /\ UNCHANGED <<refresh, presented>>
            BY <1>5 DEF TimePasses, vars
      <2> QED BY <1>1, <2>1, TabsIdle
<1> QED BY <1>2, <1>3, <1>4, <1>5, LoginStep, ServedStep, EndsStep DEF Next

(* A tab never presents a refresh token twice, however many tabs race it,     *)
(* however many calls find the session expired, and whatever is lost.        *)
THEOREM TokensPresentedOnce == Spec => PresentedOnce
<1> DEFINE Once == \A t \in Tabs : (Start(t) /\ refresh'[t] # refresh[t])
                                    => stored \notin presented[t]
<1>1. Init => PresentInv
      BY TokensAssumption DEF Init, PresentInv, Refreshes, Idle, InFlight
<1>2. ASSUME PresentInv, [Next]_vars  PROVE Once
      <2> SUFFICES ASSUME NEW t \in Tabs, Start(t), refresh'[t] # refresh[t]
                   PROVE  ~InFlight(t)
          BY <1>2 DEF PresentInv
      <2>1. refresh'[t].pc = "sent"  BY <1>2 DEF Start, PresentInv, Refreshes
      <2>2. ASSUME NEW u \in Tabs, TimerRefresh(u) \/ CallRefresh(u) \/ BareAnswered(u)
            PROVE  ~InFlight(t)
            <3>1. refresh' # refresh  BY <1>2
            <3>2. (Start(u) /\ ~InFlight(u)) \/ Reject(u)
                  BY <2>2, <3>1 DEF TimerRefresh, CallRefresh, BareAnswered
            <3>3. u = t  BY <1>2, <3>2 DEF Start, Reject, PresentInv, Refreshes
            <3>4. CASE Reject(u)
                  BY <1>2, <2>1, <3>3, <3>4 DEF Reject, PresentInv, Refreshes
            <3> QED BY <3>2, <3>3, <3>4
      <2>3. ASSUME NEW u \in Tabs,
                   \/ RefreshServed(u) \/ RefreshLost(u) \/ RefreshEnds(u)
                   \/ BodyStalls(u) \/ BodyArrives(u)
            PROVE  refresh'[t].pc # "sent" \/ refresh'[t] = refresh[t]
            BY <1>2, <2>3 DEF RefreshServed, RefreshLost, RefreshEnds, BodyStalls,
               BodyArrives, Ends, Idle, PresentInv, Refreshes
      <2>4. ASSUME NEW u \in Tabs,
                   \/ CrossTabLogout(u) \/ Login(u) \/ LogoutStart(u) \/ LogoutArrives(u)
                   \/ LogoutLost(u) \/ LogoutEnds(u) \/ RefreshArrives(u) \/ CallBare(u)
            PROVE  refresh' = refresh
            BY <2>4 DEF CrossTabLogout, Login, LogoutStart, LogoutArrives, LogoutLost,
               LogoutEnds, RefreshArrives, CallBare
      <2>5. CASE TimePasses \/ UNCHANGED vars  BY <2>5 DEF TimePasses, vars
      <2> QED BY <1>2, <2>1, <2>2, <2>3, <2>4, <2>5 DEF Next
<1>3. RowsIInv /\ PresentInv /\ [Next]_vars => PresentInv'  BY PresentInvStep
<1>4. PresentInv /\ [Next]_vars => [Once]_vars  BY <1>2
<1> QED BY <1>1, <1>3, <1>4, TabsUseTokens, RowsInvariant, PTL DEF Spec, PresentedOnce

===============================================================================
