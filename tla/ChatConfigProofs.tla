---------------------------- MODULE ChatConfigProofs ----------------------------
(***************************************************************************)
(* The history of a chat, for any documents, amounts and requests and       *)
(* however long it grows.  A step writes nothing to it, what a turn writes   *)
(* or what a person's edit or revert writes (HistorySteps); that a write is  *)
(* computed against the running version needs an invariant on what the       *)
(* requests under way have read (BaseInv).                                  *)
(***************************************************************************)
EXTENDS ChatConfig, TLAPS

(* A version is appended. *)
Grows(doc, from, source, applicable, message) ==
  /\ doc \in Docs
  /\ versions' = WithVersion(doc, from, source, applicable, message)
  /\ chat'.current = chat.current + 1

Same == versions' = versions /\ chat'.current = chat.current

(* The three kinds of step, by what they write to the history. *)
Silent == Same /\ messages' = messages /\ chat'.seq = chat.seq

PersonWrote ==
  /\ \E doc \in Docs, source \in {"manual", "revert"}, applicable \in BOOLEAN :
       Grows(doc, DocAt(chat.current), source, applicable, chat.seq + 1)
  /\ messages' = WithMessage(chat.seq + 1, "system", None)
  /\ chat'.seq = chat.seq + 1
  /\ chat'.budget = chat.budget

TurnWrote(r) ==
  \E applicable \in BOOLEAN, doc \in Docs \cup {NoDoc} :
    /\ IF doc = NoDoc THEN Same
       ELSE /\ req[r].base = chat.current
            /\ Grows(doc, DocAt(chat.current), "assistant", applicable, chat.seq + 2)
    /\ messages' = Extended(
         WithMessage(chat.seq + 2, "assistant",
                     IF doc = NoDoc THEN None ELSE chat.current + 1),
         chat.seq + 1, [role |-> "user", version |-> None])
    /\ chat'.seq = chat.seq + 2
    /\ chat'.budget # chat.budget /\ doc # NoDoc /\ applicable => Cost[doc] <= chat'.budget

(* The row after the write of an edit or a revert. *)
LEMMA PersonsRow ==
  ASSUME chat \in ChatRow,
         chat' = [chat EXCEPT !.seq = chat.seq + 1, !.current = @ + 1]
  PROVE  /\ chat' \in ChatRow
         /\ chat'.seq = chat.seq + 1 /\ chat'.current = chat.current + 1
         /\ chat'.budget = chat.budget
<1> DEFINE seq == chat.seq + 1
           current == chat.current + 1
<1>1. seq \in Nat /\ current \in Nat  BY DEF ChatRow
<1>2. chat' = [chat EXCEPT !.seq = seq, !.current = current]  BY DEF ChatRow
<1> HIDE DEF seq, current
<1>3. /\ chat' \in ChatRow /\ chat'.seq = seq /\ chat'.current = current
      /\ chat'.budget = chat.budget
      BY <1>1, <1>2 DEF ChatRow
<1>4. QED  BY <1>3 DEF seq, current

LEMMA TurnHistory ==
  ASSUME TypeOK, NEW r \in Requests, TurnWrite(r)
  PROVE  TurnWrote(r) /\ chat' \in ChatRow
<1>1. PICK doc \in Docs \cup {NoDoc}, outOfScope \in BOOLEAN, asked \in Amounts \cup {None} :
        LET read == req[r].budget
            previous == DocAt(req[r].base)
            verdict == IF doc = NoDoc THEN "ok"
                       ELSE Verdict(doc, EffectiveBudget(read, asked), outOfScope)
            new == IF Worth(doc, verdict, previous) THEN doc ELSE NoDoc
        IN  /\ new # NoDoc => SameVersion(req[r].base, chat.current)
            /\ AppendTurn(Tightens(read, asked), asked, new, previous, verdict = "ok")
      BY DEF TurnWrite
<1> DEFINE read == req[r].budget
           previous == DocAt(req[r].base)
           verdict == IF doc = NoDoc THEN "ok"
                      ELSE Verdict(doc, EffectiveBudget(read, asked), outOfScope)
           new == IF Worth(doc, verdict, previous) THEN doc ELSE NoDoc
           set == Tightens(read, asked)
           applicable == verdict = "ok"
<1>2. AppendTurn(set, asked, new, previous, applicable)  BY <1>1
<1>3. /\ new \in Docs \cup {NoDoc}
      /\ new # NoDoc => new = doc /\ req[r].base = chat.current
      BY <1>1 DEF SameVersion
<1>4. chat \in ChatRow  BY DEF TypeOK
<1>5. asked \in Nat  BY DocumentsAssumption DEF None
<1>6. set /\ new # NoDoc /\ applicable => Cost[new] <= asked
      <2>1. SUFFICES ASSUME set, new # NoDoc, applicable  PROVE Cost[doc] <= asked
            BY <1>3
      <2>2. EffectiveBudget(read, asked) = asked /\ asked # None
            BY <2>1 DEF EffectiveBudget, Tightens
      <2>3. Verdict(doc, asked, outOfScope) = "ok"  BY <1>3, <2>1, <2>2
      <2>4. doc \in Docs /\ ~ (Cost[doc] > asked)  BY <1>3, <2>1, <2>2, <2>3 DEF Verdict
      <2>5. QED  BY <1>5, <2>4, DocumentsAssumption
<1> HIDE DEF new, applicable, set, previous
<1>7. /\ chat'.seq = chat.seq + 2
      /\ chat'.current = chat.current + IF new = NoDoc THEN 0 ELSE 1
      /\ chat'.budget = IF set THEN asked ELSE chat.budget
      /\ chat' \in ChatRow
      <2> DEFINE seq == chat.seq + 2
                 current == chat.current + IF new = NoDoc THEN 0 ELSE 1
                 budget == IF set THEN asked ELSE chat.budget
      <2>1. seq \in Nat /\ current \in Nat /\ budget \in Nat  BY <1>4, <1>5 DEF ChatRow
      <2>2. chat' = [chat EXCEPT !.seq = seq, !.current = current, !.budget = budget,
                                 !.title = "given"]
            BY <1>2 DEF AppendTurn
      <2> HIDE DEF seq, current, budget
      <2>3. /\ chat'.seq = seq /\ chat'.current = current /\ chat'.budget = budget
            /\ chat' \in ChatRow
            BY <1>4, <2>1, <2>2 DEF ChatRow, Title
      <2>4. QED  BY <2>3 DEF seq, current, budget
<1>8. /\ messages' = Extended(
            WithMessage(chat.seq + 2, "assistant",
                        IF new = NoDoc THEN None ELSE chat.current + 1),
            chat.seq + 1, [role |-> "user", version |-> None])
      /\ versions' = IF new = NoDoc THEN versions
                     ELSE WithVersion(new, previous, "assistant", applicable, chat.seq + 2)
      BY <1>2 DEF AppendTurn
<1>9. new # NoDoc => previous = DocAt(chat.current)  BY <1>3 DEF previous
<1>10. applicable \in BOOLEAN  BY DEF applicable
<1>11. chat.current + 0 = chat.current  BY <1>4 DEF ChatRow
<1>12. IF new = NoDoc THEN Same
       ELSE /\ req[r].base = chat.current
            /\ Grows(new, DocAt(chat.current), "assistant", applicable, chat.seq + 2)
       BY <1>3, <1>7, <1>8, <1>9, <1>11 DEF Same, Grows
<1>13. chat'.budget # chat.budget /\ new # NoDoc /\ applicable => Cost[new] <= chat'.budget
       BY <1>6, <1>7
<1>14. QED  BY <1>3, <1>7, <1>8, <1>10, <1>12, <1>13 DEF TurnWrote

LEMMA EditHistory ==
  ASSUME TypeOK, NEW r \in Requests, EditWrite(r)
  PROVE  PersonWrote /\ chat' \in ChatRow
<1>1. PICK doc \in Docs :
        LET verdict == Verdict(doc, req[r].budget, FALSE)
            live == DocAt(chat.current)
            message == chat.seq + 1
        IN  /\ messages' = WithMessage(message, "system", None)
            /\ versions' = WithVersion(doc, live, "manual", verdict = "ok", message)
            /\ chat' = [chat EXCEPT !.seq = message, !.current = @ + 1]
      BY DEF EditWrite
<1> DEFINE applicable == Verdict(doc, req[r].budget, FALSE) = "ok"
<1>2. applicable \in BOOLEAN
      /\ versions' = WithVersion(doc, DocAt(chat.current), "manual", applicable, chat.seq + 1)
      BY <1>1
<1> HIDE DEF applicable
<1>3. /\ chat' \in ChatRow /\ chat'.seq = chat.seq + 1
      /\ chat'.current = chat.current + 1 /\ chat'.budget = chat.budget
      BY <1>1, PersonsRow DEF TypeOK
<1>4. messages' = WithMessage(chat.seq + 1, "system", None)  BY <1>1
<1>5. QED  BY <1>2, <1>3, <1>4 DEF PersonWrote, Grows

LEMMA RevertHistory ==
  ASSUME TypeOK, NEW target \in DOMAIN versions, Revert(target)
  PROVE  PersonWrote /\ chat' \in ChatRow
<1>1. /\ versions[target].doc \in Docs /\ versions[target].applicable \in BOOLEAN
      /\ chat \in ChatRow
      BY DEF TypeOK, VersionRow
<1>2. /\ chat' \in ChatRow /\ chat'.seq = chat.seq + 1
      /\ chat'.current = chat.current + 1 /\ chat'.budget = chat.budget
      BY <1>1, PersonsRow DEF Revert
<1>3. /\ messages' = WithMessage(chat.seq + 1, "system", None)
      /\ versions' = WithVersion(versions[target].doc, DocAt(chat.current), "revert",
                                 versions[target].applicable, chat.seq + 1)
      BY DEF Revert
<1>4. QED  BY <1>1, <1>2, <1>3 DEF PersonWrote, Grows

LEMMA UpdatedRow ==
  ASSUME TypeOK, NEW c \in Changes, NEW archived \in BOOLEAN, chat' = Updated(c, archived)
  PROVE  chat' \in ChatRow /\ chat'.current = chat.current /\ chat'.seq = chat.seq
<1>1. chat \in ChatRow /\ Amounts \subseteq Nat /\ None \in Nat
      BY DocumentsAssumption DEF TypeOK, None
<1>2. QED  BY <1>1 DEF Updated, Changes, ChatRow, Title

(* What a step writes to the history. *)
LEMMA HistorySteps ==
  ASSUME TypeOK, [Next]_vars
  PROVE  /\ chat' \in ChatRow
         /\ Silent \/ PersonWrote \/ \E r \in Requests : TurnWrote(r) /\ Answer(r)
<1>1. chat \in ChatRow  BY DEF TypeOK
<1>2. ASSUME UNCHANGED <<chat, versions, messages>>
      PROVE  chat' \in ChatRow /\ Silent
      BY <1>1, <1>2 DEF Silent, Same
<1>3. ASSUME NEW r \in Requests,
             \/ TurnCheck(r) \/ TurnReadChat(r) \/ TurnReadConfig(r)
             \/ EditCheck(r) \/ EditReadPrevious(r) \/ UpdateCheck(r) \/ RequestFails(r)
      PROVE  chat' \in ChatRow /\ Silent
      BY <1>2, <1>3 DEF TurnCheck, TurnReadChat, TurnReadConfig, EditCheck, EditReadPrevious,
                        UpdateCheck, RequestFails
<1>4. ASSUME NEW r \in Requests, UpdateWrite(r)  PROVE chat' \in ChatRow /\ Silent
      <2>1. PICK c \in Changes : chat' = Updated(c, chat.archived \/ c.archive)
            BY <1>4 DEF UpdateWrite
      <2>2. (chat.archived \/ c.archive) \in BOOLEAN  BY <1>1 DEF ChatRow, Changes
      <2>3. QED  BY <1>4, <2>1, <2>2, UpdatedRow DEF UpdateWrite, Silent, Same
<1>5. CASE Restore  BY <1>5, UpdatedRow DEF Restore, Silent, Same
<1>6. CASE Archive  BY <1>1, <1>6 DEF Archive, Silent, Same, ChatRow
<1>7. ASSUME NEW r \in Requests, TurnWrite(r)
      PROVE  chat' \in ChatRow /\ TurnWrote(r) /\ Answer(r)
      BY <1>7, TurnHistory DEF TurnWrite
<1>8. CASE UNCHANGED vars  BY <1>2, <1>8 DEF vars
<1>9. QED  BY <1>3, <1>4, <1>5, <1>6, <1>7, <1>8, EditHistory, RevertHistory DEF Next

-------------------------------------------------------------------------------
(* The chain of versions *)

(* What a request under way has read: a version there has been, and for an   *)
(* edit nothing, or the document of one no older than the version it edits. *)
HasRead(q) ==
  /\ q.pc \in {"reply", "previous", "edit"} => q.base \in 0..chat.current
  /\ q.pc = "edit" /\ q.prev # NoDoc =>
       \E k \in q.base..chat.current : q.prev = DocAt(k)

BaseInv == \A r \in Requests : HasRead(req[r])

ChainInv == TypeOK /\ HistoryIsChain /\ BaseInv

LEMMA LatestIsCurrent ==
  ASSUME TypeOK, HistoryIsChain  PROVE Latest = chat.current
<1>1. chat.current \in Nat /\ DOMAIN versions = 1..chat.current
      BY DEF TypeOK, ChatRow, HistoryIsChain
<1>2. /\ chat.current \in DOMAIN versions \cup {None}
      /\ \A u \in DOMAIN versions : u <= chat.current
      BY <1>1 DEF None
<1>3. \A v \in DOMAIN versions \cup {None} :
        (\A u \in DOMAIN versions : u <= v) => v = chat.current
      BY <1>1 DEF None
<1>4. QED  BY <1>2, <1>3 DEF Latest

LEMMA DocAtType ==
  ASSUME TypeOK, HistoryIsChain, NEW k \in 0..chat.current
  PROVE  DocAt(k) \in Docs \cup {NoDoc}
<1>1. k = 0 \/ k \in DOMAIN versions  BY DEF TypeOK, ChatRow, HistoryIsChain
<1>2. QED  BY <1>1 DEF DocAt, None, TypeOK, VersionRow

(* One more version, made from the running one. *)
LEMMA GrowsChain ==
  ASSUME TypeOK, HistoryIsChain, NEW doc, NEW source \in {"assistant", "revert", "manual"},
         NEW applicable \in BOOLEAN, NEW message \in Nat,
         Grows(doc, DocAt(chat.current), source, applicable, message)
  PROVE  /\ HistoryIsChain'
         /\ DOMAIN versions' = DOMAIN versions \cup {chat.current + 1}
         /\ \A v \in DOMAIN versions : versions'[v] = versions[v]
         /\ versions'[chat.current + 1] =
              [doc |-> doc, parent |-> chat.current, from |-> DocAt(chat.current),
               source |-> source, applicable |-> applicable, message |-> message]
         /\ \A v \in DOMAIN versions' : versions'[v] \in VersionRow
         /\ \A k \in 0..chat.current : DocAt(k)' = DocAt(k)
<1> DEFINE n == chat.current
           row == [doc |-> doc, parent |-> n, from |-> DocAt(n), source |-> source,
                   applicable |-> applicable, message |-> message]
<1>1. /\ n \in Nat /\ DOMAIN versions = 1..n
      /\ \A v \in 1..n : versions[v] \in VersionRow
      /\ \A v \in 1..n : versions[v].parent = v - 1 /\ versions[v].from = DocAt(v - 1)
      BY DEF TypeOK, ChatRow, HistoryIsChain
<1>2. versions' = Extended(versions, n + 1, row) /\ chat'.current = n + 1 /\ doc \in Docs
      BY DEF Grows, WithVersion
<1>3. DocAt(n) \in Docs \cup {NoDoc}  BY <1>1, DocAtType
<1>4. row \in VersionRow  BY <1>1, <1>2, <1>3 DEF VersionRow
<1> HIDE DEF row
<1>5. /\ DOMAIN versions' = 1..n \cup {n + 1}
      /\ versions'[n + 1] = row
      /\ \A v \in 1..n : versions'[v] = versions[v]
      <2>1. n + 1 \notin 1..n  BY <1>1
      <2>2. /\ DOMAIN Extended(versions, n + 1, row) = DOMAIN versions \cup {n + 1}
            /\ Extended(versions, n + 1, row)[n + 1] = row
            /\ \A k \in DOMAIN versions \ {n + 1} :
                 Extended(versions, n + 1, row)[k] = versions[k]
            BY DEF Extended
      <2>3. QED  BY <1>1, <1>2, <2>1, <2>2
<1>6. 1..n \cup {n + 1} = 1..(n + 1)  BY <1>1
<1>7. \A v \in 1..(n + 1) : versions'[v] \in VersionRow  BY <1>1, <1>4, <1>5, <1>6
<1>8. \A k \in 0..n : DocAt(k)' = DocAt(k)  BY <1>1, <1>5 DEF DocAt, None
<1>9. ASSUME NEW v \in 1..(n + 1)
      PROVE  versions'[v].parent = v - 1 /\ versions'[v].from = DocAt(v - 1)'
      <2>1. CASE v = n + 1
            <3>1. v - 1 = n /\ n \in 0..n  BY <1>1, <2>1
            <3>2. DocAt(v - 1)' = DocAt(n)  BY <1>8, <3>1
            <3>3. QED  BY <1>5, <2>1, <3>1, <3>2 DEF row
      <2>2. CASE v \in 1..n
            <3>1. v - 1 \in 0..n  BY <1>1, <2>2
            <3>2. DocAt(v - 1)' = DocAt(v - 1)  BY <1>8, <3>1
            <3>3. QED  BY <1>1, <1>5, <2>2, <3>2
      <2>3. QED  BY <1>1, <1>6, <2>1, <2>2
<1>10. HistoryIsChain'  BY <1>2, <1>5, <1>6, <1>9 DEF HistoryIsChain
<1>11. QED  BY <1>1, <1>5, <1>6, <1>7, <1>8, <1>10 DEF row

(* No step rewrites or removes a version, and each new one continues the     *)
(* chain.                                                                   *)
LEMMA HistoryGrows ==
  ASSUME TypeOK, HistoryIsChain, [Next]_vars
  PROVE  /\ HistoryIsChain'
         /\ chat' \in ChatRow /\ chat.current <= chat'.current
         /\ \A v \in DOMAIN versions' : versions'[v] \in VersionRow
         /\ \A k \in 0..chat.current : DocAt(k)' = DocAt(k)
<1>1. /\ chat \in ChatRow /\ chat.current \in Nat /\ chat.seq \in Nat
      /\ chat.seq + 1 \in Nat /\ chat.seq + 2 \in Nat
      BY DEF TypeOK, ChatRow
<1>2. CASE Same
      <2>1. HistoryIsChain'  BY <1>2 DEF Same, HistoryIsChain, DocAt
      <2>2. QED  BY <1>1, <1>2, <2>1, HistorySteps DEF Same, TypeOK, DocAt
<1>3. ASSUME NEW doc, NEW source \in {"assistant", "revert", "manual"},
             NEW applicable \in BOOLEAN, NEW message \in Nat,
             Grows(doc, DocAt(chat.current), source, applicable, message)
      PROVE  /\ HistoryIsChain' /\ chat.current <= chat'.current
             /\ \A v \in DOMAIN versions' : versions'[v] \in VersionRow
             /\ \A k \in 0..chat.current : DocAt(k)' = DocAt(k)
      <2>1. chat.current <= chat'.current  BY <1>1, <1>3 DEF Grows
      <2>2. QED  BY <1>3, <2>1, GrowsChain
<1>4. CASE PersonWrote
      <2>1. PICK doc \in Docs, source \in {"manual", "revert"}, applicable \in BOOLEAN :
              Grows(doc, DocAt(chat.current), source, applicable, chat.seq + 1)
            BY <1>4 DEF PersonWrote
      <2>2. source \in {"assistant", "revert", "manual"}  BY <2>1
      <2>3. QED  BY <1>1, <1>3, <2>1, <2>2, HistorySteps
<1>5. ASSUME NEW r \in Requests, TurnWrote(r)
      PROVE  Same \/ \E doc \in Docs, applicable \in BOOLEAN :
               Grows(doc, DocAt(chat.current), "assistant", applicable, chat.seq + 2)
      BY <1>5 DEF TurnWrote
<1>6. CASE \E doc \in Docs, applicable \in BOOLEAN :
             Grows(doc, DocAt(chat.current), "assistant", applicable, chat.seq + 2)
      BY <1>1, <1>3, <1>6, HistorySteps
<1>7. QED  BY <1>2, <1>4, <1>5, <1>6, HistorySteps DEF Silent

(* What a request has read stays a part of the history. *)
LEMMA StillRead ==
  ASSUME TypeOK, HistoryIsChain, [Next]_vars, NEW q, HasRead(q)
  PROVE  HasRead(q)'
<1>1. /\ chat.current \in Nat /\ chat'.current \in Nat /\ chat.current <= chat'.current
      /\ \A k \in 0..chat.current : DocAt(k)' = DocAt(k)
      BY HistoryGrows DEF TypeOK, ChatRow
<1>2. q.pc \in {"reply", "previous", "edit"} =>
        q.base \in 0..chat.current /\ q.base \in 0..chat'.current
      BY <1>1 DEF HasRead
<1>3. ASSUME q.pc = "edit", q.prev # NoDoc
      PROVE  \E k \in q.base..chat'.current : q.prev = DocAt(k)'
      <2>1. PICK k \in q.base..chat.current : q.prev = DocAt(k)  BY <1>3 DEF HasRead
      <2>2. q.base \in 0..chat.current  BY <1>2, <1>3
      <2>3. k \in 0..chat.current /\ k \in q.base..chat'.current  BY <1>1, <2>1, <2>2
      <2>4. QED  BY <1>1, <2>1, <2>3
<1>4. QED  BY <1>2, <1>3 DEF HasRead

LEMMA RequestSet ==
  ASSUME ChainInv, [Next]_vars, NEW r \in Requests, NEW q \in Request, HasRead(q),
         req' = [req EXCEPT ![r] = q]
  PROVE  req' \in [Requests -> Request] /\ BaseInv'
<1>1. req \in [Requests -> Request]  BY DEF ChainInv, TypeOK
<1>2. \A p \in Requests : req'[p] = IF p = r THEN q ELSE req[p]  BY <1>1
<1>3. HasRead(q)'  BY StillRead DEF ChainInv
<1>4. ASSUME NEW p \in Requests  PROVE HasRead(req[p])'
      <2>1. CASE p = r  BY <1>2, <1>3, <2>1 DEF HasRead
      <2>2. CASE p # r
            <3>1. HasRead(req[p])  BY DEF ChainInv, BaseInv
            <3> DEFINE held == req[p]
            <3>2. held = req'[p]  BY <1>2, <2>2
            <3>3. \A b : HasRead(b) => HasRead(b)'  BY StillRead DEF ChainInv
            <3>4. QED  BY <3>1, <3>2, <3>3 DEF HasRead
      <2>3. QED  BY <2>1, <2>2
<1>5. QED  BY <1>1, <1>4 DEF BaseInv

LEMMA RequestsSame ==
  ASSUME ChainInv, [Next]_vars, req' = req
  PROVE  req' \in [Requests -> Request] /\ BaseInv'
<1>1. ASSUME NEW p \in Requests  PROVE HasRead(req[p])'
      <2>1. HasRead(req[p])  BY DEF ChainInv, BaseInv
      <2>2. \A b : HasRead(b) => HasRead(b)'  BY StillRead DEF ChainInv
      <2>3. QED  BY <2>1, <2>2 DEF HasRead
<1>2. QED  BY <1>1 DEF BaseInv, ChainInv, TypeOK

(* Every request keeps to what it has read. *)
LEMMA RequestsRead ==
  ASSUME ChainInv, [Next]_vars
  PROVE  req' \in [Requests -> Request] /\ BaseInv'
<1>1. /\ req \in [Requests -> Request] /\ chat \in ChatRow
      /\ chat.current \in Nat /\ chat.budget \in Nat
      /\ DOMAIN versions = 1..chat.current
      BY DEF ChainInv, TypeOK, ChatRow, HistoryIsChain
<1>2. \A r \in Requests : req[r] \in Request /\ HasRead(req[r])
      BY <1>1 DEF ChainInv, BaseInv
<1>3. Latest = chat.current  BY LatestIsCurrent DEF ChainInv
<1>4. NoRequest \in Request /\ HasRead(NoRequest)
      BY DEF NoRequest, Request, RequestPC, None, HasRead
<1>5. ASSUME NEW r \in Requests, Answer(r)  PROVE req' \in [Requests -> Request] /\ BaseInv'
      BY <1>4, <1>5, RequestSet DEF Answer
<1>6. ASSUME NEW r \in Requests, NEW pc \in {"turn", "update"}, Goto(r, pc)
      PROVE  req' \in [Requests -> Request] /\ BaseInv'
      <2> DEFINE q == [req[r] EXCEPT !.pc = pc]
      <2>1. q \in Request /\ HasRead(q)  BY <1>2 DEF Request, RequestPC, HasRead
      <2>2. req' = [req EXCEPT ![r] = q]  BY <1>6 DEF Goto
      <2> HIDE DEF q
      <2>3. QED  BY <2>1, <2>2, RequestSet
<1>7. ASSUME NEW r \in Requests, TurnReadChat(r)
      PROVE  req' \in [Requests -> Request] /\ BaseInv'
      <2> DEFINE q == [req[r] EXCEPT !.pc = "context", !.budget = chat.budget]
      <2>1. q \in Request /\ HasRead(q)  BY <1>1, <1>2 DEF Request, RequestPC, HasRead
      <2>2. req' = [req EXCEPT ![r] = q]  BY <1>7 DEF TurnReadChat
      <2> HIDE DEF q
      <2>3. QED  BY <2>1, <2>2, RequestSet
<1>8. ASSUME NEW r \in Requests, TurnReadConfig(r)
      PROVE  req' \in [Requests -> Request] /\ BaseInv'
      <2> DEFINE q == [req[r] EXCEPT !.pc = "reply", !.base = chat.current]
      <2>1. q \in Request  BY <1>1, <1>2 DEF Request, RequestPC
      <2>2. q.pc = "reply" /\ q.base = chat.current  BY <1>2 DEF Request
      <2>3. req' = [req EXCEPT ![r] = q]  BY <1>3, <1>8 DEF TurnReadConfig
      <2> HIDE DEF q
      <2>4. HasRead(q)  BY <1>1, <2>2 DEF HasRead
      <2>5. QED  BY <2>1, <2>3, <2>4, RequestSet
<1>9. ASSUME NEW r \in Requests, EditCheck(r)
      PROVE  req' \in [Requests -> Request] /\ BaseInv'
      <2>1. PICK v \in DOMAIN versions :
              req' = [req EXCEPT ![r] = [pc |-> "previous", budget |-> chat.budget,
                                         base |-> v, prev |-> NoDoc]]
            BY <1>9 DEF EditCheck
      <2> DEFINE q == [pc |-> "previous", budget |-> chat.budget, base |-> v, prev |-> NoDoc]
      <2>2. q \in Request /\ HasRead(q)  BY <1>1, <2>1 DEF Request, RequestPC, HasRead
      <2> HIDE DEF q
      <2>3. QED  BY <2>1, <2>2, RequestSet DEF q
<1>10. ASSUME NEW r \in Requests, EditReadPrevious(r)
      PROVE  req' \in [Requests -> Request] /\ BaseInv'
      <2>0. PICK doc \in {DocAt(chat.current), NoDoc} :
              req' = [req EXCEPT ![r].pc = "edit", ![r].prev = doc]
            BY <1>3, <1>10 DEF EditReadPrevious
      <2> DEFINE q == [req[r] EXCEPT !.pc = "edit", !.prev = doc]
      <2>1. doc \in Docs \cup {NoDoc}  BY <1>1, <2>0, DocAtType DEF ChainInv
      <2>2. req[r].base \in 0..chat.current  BY <1>2, <1>10 DEF EditReadPrevious, HasRead
      <2>3. chat.current \in req[r].base..chat.current  BY <1>1, <2>2
      <2>4. q \in Request  BY <1>2, <2>1 DEF Request, RequestPC
      <2>5. q.pc = "edit" /\ q.base = req[r].base /\ q.prev \in {DocAt(chat.current), NoDoc}
            BY <1>2, <2>0 DEF Request
      <2>6. req' = [req EXCEPT ![r] = q]  BY <2>0
      <2> HIDE DEF q
      <2>7. HasRead(q)  BY <2>2, <2>3, <2>5 DEF HasRead
      <2>8. QED  BY <2>4, <2>6, <2>7, RequestSet
<1>11. CASE Restore \/ Archive \/ (\E v \in DOMAIN versions : Revert(v)) \/ UNCHANGED vars
      BY <1>11, RequestsSame DEF Restore, Archive, Revert, vars
<1>12. QED
      BY <1>5, <1>6, <1>7, <1>8, <1>9, <1>10, <1>11
      DEF Next, TurnCheck, TurnWrite, EditWrite, UpdateCheck, UpdateWrite, RequestFails

-------------------------------------------------------------------------------
(* The transcript *)

(* What a step adds to it: one message, or a user's and its answer.          *)
LEMMA MessagesGrow ==
  ASSUME TypeOK, DOMAIN messages = 1..chat.seq, [Next]_vars
  PROVE  /\ DOMAIN messages' = 1..chat'.seq
         /\ chat.seq <= chat'.seq
         /\ \A m \in DOMAIN messages : messages'[m] = messages[m]
         /\ \A m \in DOMAIN messages' : messages'[m] \in MessageRow
<1>1. /\ chat.seq \in Nat /\ chat.current \in Nat
      /\ DOMAIN messages = 1..chat.seq
      /\ \A m \in 1..chat.seq : messages[m] \in MessageRow
      BY DEF TypeOK, ChatRow
<1> DEFINE n == chat.seq
<1>2. CASE Silent  BY <1>1, <1>2 DEF Silent
<1>3. CASE PersonWrote
      <2> DEFINE row == [role |-> "system", version |-> None]
      <2>1. row \in MessageRow  BY DEF MessageRow, None
      <2> HIDE DEF row
      <2>2. messages' = Extended(messages, n + 1, row) /\ chat'.seq = n + 1
            BY <1>3 DEF PersonWrote, WithMessage, row
      <2>3. /\ DOMAIN messages' = 1..n \cup {n + 1}
            /\ messages'[n + 1] = row
            /\ \A m \in 1..n : messages'[m] = messages[m]
            BY <1>1, <2>2 DEF Extended
      <2>4. 1..n \cup {n + 1} = 1..(n + 1)  BY <1>1
      <2>5. \A m \in 1..(n + 1) : messages'[m] \in MessageRow  BY <1>1, <2>1, <2>3, <2>4
      <2>6. n <= n + 1  BY <1>1
      <2>7. QED  BY <1>1, <2>2, <2>3, <2>4, <2>5, <2>6
<1>4. ASSUME NEW r \in Requests, TurnWrote(r)
      PROVE  /\ DOMAIN messages' = 1..chat'.seq
             /\ chat.seq <= chat'.seq
             /\ \A m \in DOMAIN messages : messages'[m] = messages[m]
             /\ \A m \in DOMAIN messages' : messages'[m] \in MessageRow
      <2>1. PICK applicable \in BOOLEAN, doc \in Docs \cup {NoDoc} :
              /\ messages' = Extended(
                   WithMessage(chat.seq + 2, "assistant",
                               IF doc = NoDoc THEN None ELSE chat.current + 1),
                   chat.seq + 1, [role |-> "user", version |-> None])
              /\ chat'.seq = chat.seq + 2
            BY <1>4 DEF TurnWrote
      <2> DEFINE v == IF doc = NoDoc THEN None ELSE chat.current + 1
                 answer == [role |-> "assistant", version |-> v]
                 row == [role |-> "user", version |-> None]
      <2>2. v \in Nat  BY <1>1 DEF None
      <2>3. answer \in MessageRow /\ row \in MessageRow  BY <2>2 DEF MessageRow, None
      <2> HIDE DEF answer, row
      <2>4. messages' = Extended(Extended(messages, n + 2, answer), n + 1, row)
            BY <2>1 DEF WithMessage, answer, row
      <2>5. /\ DOMAIN messages' = 1..n \cup {n + 1, n + 2}
            /\ messages'[n + 1] = row /\ messages'[n + 2] = answer
            /\ \A m \in 1..n : messages'[m] = messages[m]
            BY <1>1, <2>4 DEF Extended
      <2>6. 1..n \cup {n + 1, n + 2} = 1..(n + 2)  BY <1>1
      <2>7. \A m \in 1..(n + 2) : messages'[m] \in MessageRow  BY <1>1, <2>3, <2>5, <2>6
      <2>8. n <= n + 2  BY <1>1
      <2>9. QED  BY <1>1, <2>1, <2>5, <2>6, <2>7, <2>8
<1>5. QED  BY <1>2, <1>3, <1>4, HistorySteps

ChatInv == ChainInv /\ DOMAIN messages = 1..chat.seq

LEMMA InitHolds == Init => ChatInv
<1> SUFFICES ASSUME Init  PROVE ChatInv  OBVIOUS
<1>1. PICK b \in Amounts \cup {None}, t \in Title :
        chat = [current |-> None, seq |-> 0, budget |-> b, archived |-> FALSE, title |-> t]
      BY DEF Init
<1>2. chat \in ChatRow /\ chat.current = 0 /\ chat.seq = 0
      BY <1>1, DocumentsAssumption DEF ChatRow, None
<1>3. DOMAIN versions = {} /\ DOMAIN messages = {} /\ 1..0 = {}  BY DEF Init
<1>4. \A r \in Requests : req[r] = NoRequest  BY DEF Init
<1>5. req \in [Requests -> Request]
      BY DEF Init, NoRequest, Request, RequestPC, None
<1>6. BaseInv  BY <1>4 DEF BaseInv, HasRead, NoRequest
<1>7. TypeOK  BY <1>2, <1>3, <1>5 DEF TypeOK
<1>8. HistoryIsChain  BY <1>2, <1>3 DEF HistoryIsChain
<1>9. QED  BY <1>2, <1>3, <1>6, <1>7, <1>8 DEF ChatInv, ChainInv

(* Every variable has its type, the history is one chain and so far nobody   *)
(* has read what is not a part of it; there are no gaps in the transcript.   *)
THEOREM ChainInvariant == Spec => []ChatInv
<1>1. ChatInv /\ [Next]_vars => ChatInv'
      <2> SUFFICES ASSUME ChatInv, [Next]_vars  PROVE ChatInv'  OBVIOUS
      <2>1. ChainInv /\ TypeOK /\ HistoryIsChain /\ DOMAIN messages = 1..chat.seq
            BY DEF ChatInv, ChainInv
      <2>2. /\ HistoryIsChain' /\ chat' \in ChatRow
            /\ \A v \in DOMAIN versions' : versions'[v] \in VersionRow
            BY <2>1, HistoryGrows
      <2>3. req' \in [Requests -> Request] /\ BaseInv'  BY <2>1, RequestsRead
      <2>4. /\ DOMAIN messages' = 1..chat'.seq
            /\ \A m \in DOMAIN messages' : messages'[m] \in MessageRow
            BY <2>1, MessagesGrow
      <2>5. DOMAIN versions' \subseteq Nat \ {0} /\ DOMAIN messages' \subseteq Nat \ {0}
            BY <2>2, <2>4 DEF HistoryIsChain, ChatRow
      <2>6. TypeOK'  BY <2>2, <2>3, <2>4, <2>5 DEF TypeOK
      <2>7. QED  BY <2>2, <2>3, <2>4, <2>6 DEF ChatInv, ChainInv
<1>2. QED  BY <1>1, InitHolds, PTL DEF Spec

(* Every row of every table has its type. *)
THEOREM TypeCorrect == Spec => []TypeOK
BY ChainInvariant, PTL DEF ChatInv, ChainInv

(* However turns, edits and reverts interleave, each version continues the   *)
(* one before it and its change list starts from that one's document.       *)
THEOREM HistoryIsAChain == Spec => []HistoryIsChain
BY ChainInvariant, PTL DEF ChatInv, ChainInv

(* An edit that will be accepted shows the change it makes, or, when what it *)
(* replaces could not be read, one from nothing: never one from a document   *)
(* that another write has replaced meanwhile.                               *)
THEOREM EditsShowNoStaleChange == Spec => []EditShowsNoStaleChange
<1>1. ChatInv => EditShowsNoStaleChange
      <2> SUFFICES ASSUME ChatInv, NEW r \in Requests, req[r].prev # NoDoc,
                          req[r].pc = "edit", Editable(req[r].base)
                   PROVE  req[r].prev = DocAt(chat.current)
          BY DEF EditShowsNoStaleChange
      <2>1. req[r].base = chat.current  BY DEF Editable
      <2>2. PICK k \in req[r].base..chat.current : req[r].prev = DocAt(k)
            BY DEF ChatInv, ChainInv, BaseInv, HasRead
      <2>3. k = chat.current  BY <2>1, <2>2 DEF ChatInv, ChainInv, TypeOK, ChatRow
      <2>4. QED  BY <2>2, <2>3
<1>2. QED  BY <1>1, ChainInvariant, PTL

(* The same, field by field, for any version that a step writes.             *)
LEMMA RowWritten ==
  ASSUME TypeOK, HistoryIsChain
  PROVE  \A doc \in Docs, source \in {"assistant", "revert", "manual"},
            applicable \in BOOLEAN, message \in Nat :
           Grows(doc, DocAt(chat.current), source, applicable, message) =>
             /\ DOMAIN versions' = DOMAIN versions \cup {chat.current + 1}
             /\ \A v \in DOMAIN versions : versions'[v] = versions[v]
             /\ versions'[chat.current + 1].doc = doc
             /\ versions'[chat.current + 1].source = source
             /\ versions'[chat.current + 1].applicable = applicable
             /\ versions'[chat.current + 1].message = message
<1> SUFFICES ASSUME NEW doc \in Docs, NEW source \in {"assistant", "revert", "manual"},
                    NEW applicable \in BOOLEAN, NEW message \in Nat,
                    Grows(doc, DocAt(chat.current), source, applicable, message)
             PROVE  /\ DOMAIN versions' = DOMAIN versions \cup {chat.current + 1}
                    /\ \A v \in DOMAIN versions : versions'[v] = versions[v]
                    /\ versions'[chat.current + 1].doc = doc
                    /\ versions'[chat.current + 1].source = source
                    /\ versions'[chat.current + 1].applicable = applicable
                    /\ versions'[chat.current + 1].message = message
    OBVIOUS
<1> DEFINE n == chat.current
           row == [doc |-> doc, parent |-> n, from |-> DocAt(n), source |-> source,
                   applicable |-> applicable, message |-> message]
<1>1. n \in Nat /\ DOMAIN versions = 1..n  BY DEF TypeOK, ChatRow, HistoryIsChain
<1>2. versions' = Extended(versions, n + 1, row)  BY DEF Grows, WithVersion
<1>3. /\ row.doc = doc /\ row.source = source
      /\ row.applicable = applicable /\ row.message = message
      OBVIOUS
<1> HIDE DEF row
<1>4. n + 1 \notin 1..n  BY <1>1
<1>5. /\ DOMAIN versions' = DOMAIN versions \cup {n + 1}
      /\ versions'[n + 1] = row
      /\ \A v \in DOMAIN versions \ {n + 1} : versions'[v] = versions[v]
      BY <1>2 DEF Extended
<1>6. QED  BY <1>1, <1>3, <1>4, <1>5

(* A version and the message that explains it are written together.          *)
LEMMA NarratedSteps ==
  ASSUME ChatInv, EveryVersionNarrated, [Next]_vars
  PROVE  EveryVersionNarrated'
<1> DEFINE n == chat.current
           s == chat.seq
<1>1. /\ TypeOK /\ HistoryIsChain /\ n \in Nat /\ s \in Nat
      /\ DOMAIN versions = 1..n /\ DOMAIN messages = 1..s
      BY DEF ChatInv, ChainInv, TypeOK, ChatRow, HistoryIsChain
<1>2. /\ DOMAIN messages' = 1..chat'.seq /\ s <= chat'.seq
      /\ \A m \in 1..s : messages'[m] = messages[m]
      BY <1>1, MessagesGrow
<1>3. ASSUME NEW v \in 1..n
      PROVE  /\ versions[v].message \in 1..s
             /\ messages[versions[v].message] =
                  IF versions[v].source = "assistant"
                  THEN [role |-> "assistant", version |-> v]
                  ELSE [role |-> "system", version |-> None]
             /\ \A u \in 1..n : versions[u].message = versions[v].message => u = v
      BY <1>1, <1>3 DEF EveryVersionNarrated
<1>4. \A m \in 1..s : messages[m].version # None =>
        messages[m].version \in 1..n /\ versions[messages[m].version].message = m
      BY <1>1 DEF EveryVersionNarrated
(* A version whose message is one of this step's. *)
<1>5. ASSUME NEW doc \in Docs, NEW source \in {"assistant", "revert", "manual"},
             NEW applicable \in BOOLEAN, NEW message \in (s + 1)..chat'.seq,
             Grows(doc, DocAt(n), source, applicable, message),
             messages'[message] = IF source = "assistant"
                                  THEN [role |-> "assistant", version |-> n + 1]
                                  ELSE [role |-> "system", version |-> None],
             \A m \in (s + 1)..chat'.seq : m # message => messages'[m].version = None
      PROVE  EveryVersionNarrated'
      <2>1. message \in Nat /\ chat'.seq \in Nat /\ message > s
            BY <1>1, <1>5, HistorySteps DEF ChatRow
      <2>2. /\ DOMAIN versions' = 1..n \cup {n + 1}
            /\ \A v \in 1..n : versions'[v] = versions[v]
            /\ versions'[n + 1].message = message
            /\ versions'[n + 1].source = source
            <3>1. /\ message \in Nat /\ doc \in Docs /\ applicable \in BOOLEAN
                  /\ source \in {"assistant", "revert", "manual"}
                  /\ Grows(doc, DocAt(chat.current), source, applicable, message)
                  BY <1>5, <2>1
            <3>2. /\ DOMAIN versions' = DOMAIN versions \cup {chat.current + 1}
                  /\ \A v \in DOMAIN versions : versions'[v] = versions[v]
                  /\ versions'[chat.current + 1].message = message
                  /\ versions'[chat.current + 1].source = source
                  <4> DEFINE G(d, src, a, m) == Grows(d, DocAt(chat.current), src, a, m)
                             W(d, src, a, m) ==
                               /\ DOMAIN versions' = DOMAIN versions \cup {chat.current + 1}
                               /\ \A v \in DOMAIN versions : versions'[v] = versions[v]
                               /\ versions'[chat.current + 1].doc = d
                               /\ versions'[chat.current + 1].source = src
                               /\ versions'[chat.current + 1].applicable = a
                               /\ versions'[chat.current + 1].message = m
                  <4>1. \A d \in Docs, src \in {"assistant", "revert", "manual"},
                           a \in BOOLEAN, m \in Nat : G(d, src, a, m) => W(d, src, a, m)
                        BY <1>1, RowWritten
                  <4>2. G(doc, source, applicable, message)  BY <3>1
                  <4> HIDE DEF G, W
                  <4>3. W(doc, source, applicable, message)  BY <3>1, <4>1, <4>2, Zenon
                  <4>4. QED  BY <4>3 DEF W
            <3>3. QED  BY <1>1, <3>2
      <2>3. message \in DOMAIN messages'  BY <1>1, <1>2, <2>1
      <2>4. \A u \in 1..n : versions'[u].message # message
            <3>1. \A u \in 1..n : versions[u].message \in 1..s  BY <1>3
            <3>2. \A u \in 1..n : versions[u].message # message  BY <1>1, <2>1, <3>1
            <3>3. QED  BY <2>2, <3>2
      <2>5. ASSUME NEW v \in DOMAIN versions'
            PROVE  /\ versions'[v].message \in DOMAIN messages'
                   /\ messages'[versions'[v].message] =
                        IF versions'[v].source = "assistant"
                        THEN [role |-> "assistant", version |-> v]
                        ELSE [role |-> "system", version |-> None]
                   /\ \A u \in DOMAIN versions' :
                        versions'[u].message = versions'[v].message => u = v
            <3>1. CASE v \in 1..n
                  <4>1. versions'[v] = versions[v] /\ versions[v].message \in 1..s
                        BY <1>3, <2>2, <3>1
                  <4>2. versions[v].message # message  BY <1>1, <2>1, <4>1
                  <4>3. versions[v].message \in DOMAIN messages'
                        BY <1>1, <1>2, <2>1, <4>1
                  <4>4. messages'[versions[v].message] = messages[versions[v].message]
                        BY <1>2, <4>1
                  <4>5. \A u \in DOMAIN versions' :
                          versions'[u].message = versions'[v].message => u = v
                        BY <1>3, <2>2, <3>1, <4>1, <4>2
                  <4>6. QED  BY <1>3, <3>1, <4>1, <4>3, <4>4, <4>5
            <3>2. CASE v = n + 1
                  <4>1. versions'[v].message = message /\ versions'[v].source = source
                        BY <2>2, <3>2
                  <4>2. QED  BY <1>5, <2>2, <2>3, <2>4, <3>2, <4>1
            <3>3. QED  BY <2>2, <3>1, <3>2
      <2>6. ASSUME NEW m \in DOMAIN messages', messages'[m].version # None
            PROVE  /\ messages'[m].version \in DOMAIN versions'
                   /\ versions'[messages'[m].version].message = m
            <3>1. CASE m \in 1..s
                  BY <1>2, <1>4, <2>2, <2>6, <3>1
            <3>2. CASE m \in (s + 1)..chat'.seq
                  <4>1. m = message  BY <1>5, <2>6, <3>2
                  <4>2. source = "assistant" /\ messages'[m].version = n + 1
                        BY <1>5, <2>6, <4>1
                  <4>3. QED  BY <2>2, <4>1, <4>2
            <3>3. QED  BY <1>1, <1>2, <2>1, <3>1, <3>2
      <2>7. QED  BY <1>2, <2>5, <2>6 DEF EveryVersionNarrated
(* No version, and messages that name none. *)
<1>6. ASSUME Same, \A m \in (s + 1)..chat'.seq : messages'[m].version = None
      PROVE  EveryVersionNarrated'
      <2>1. chat'.seq \in Nat  BY <1>1, HistorySteps DEF ChatRow
      <2>2. \A m \in DOMAIN messages' : m \in 1..s \/ m \in (s + 1)..chat'.seq
            BY <1>1, <1>2, <2>1
      <2>3. \A m \in 1..s : m \in DOMAIN messages'  BY <1>1, <1>2, <2>1
      <2>4. QED
            BY <1>1, <1>2, <1>3, <1>4, <1>6, <2>2, <2>3 DEF EveryVersionNarrated, Same
<1>7. CASE Silent  BY <1>1, <1>6, <1>7 DEF Silent
<1>8. CASE PersonWrote
      <2>1. PICK doc \in Docs, source \in {"manual", "revert"}, applicable \in BOOLEAN :
              Grows(doc, DocAt(n), source, applicable, s + 1)
            BY <1>8 DEF PersonWrote
      <2>2. chat'.seq = s + 1 /\ s + 1 \in (s + 1)..chat'.seq
            BY <1>1, <1>8 DEF PersonWrote
      <2>3. messages'[s + 1] = [role |-> "system", version |-> None]
            BY <1>8 DEF PersonWrote, WithMessage, Extended
      <2>4. \A m \in (s + 1)..chat'.seq : m = s + 1  BY <1>1, <2>2
      <2>5. source \in {"assistant", "revert", "manual"} /\ source # "assistant"  BY <2>1
      <2>6. QED  BY <1>5, <2>1, <2>2, <2>3, <2>4, <2>5
<1>9. ASSUME NEW r \in Requests, TurnWrote(r)  PROVE EveryVersionNarrated'
      <2>1. PICK applicable \in BOOLEAN, doc \in Docs \cup {NoDoc} :
              /\ IF doc = NoDoc THEN Same
                 ELSE Grows(doc, DocAt(n), "assistant", applicable, s + 2)
              /\ messages' = Extended(
                   WithMessage(s + 2, "assistant", IF doc = NoDoc THEN None ELSE n + 1),
                   s + 1, [role |-> "user", version |-> None])
              /\ chat'.seq = s + 2
            BY <1>9 DEF TurnWrote
      <2>2. /\ messages'[s + 1].version = None
            /\ messages'[s + 2] = [role |-> "assistant",
                                   version |-> IF doc = NoDoc THEN None ELSE n + 1]
            BY <1>1, <2>1 DEF WithMessage, Extended
      <2>3. \A m \in (s + 1)..chat'.seq : m = s + 1 \/ m = s + 2  BY <1>1, <2>1
      <2>4. s + 2 \in (s + 1)..chat'.seq  BY <1>1, <2>1
      <2>5. CASE doc = NoDoc
            BY <1>6, <2>1, <2>2, <2>3, <2>5
      <2>6. CASE doc # NoDoc
            <3>1. Grows(doc, DocAt(n), "assistant", applicable, s + 2)  BY <2>1, <2>6
            <3>2. messages'[s + 2] = [role |-> "assistant", version |-> n + 1]
                  BY <2>2, <2>6
            <3>3. \A m \in (s + 1)..chat'.seq : m # s + 2 => messages'[m].version = None
                  BY <2>2, <2>3
            <3>4. doc \in Docs  BY <2>6
            <3>5. QED  BY <1>5, <2>4, <3>1, <3>2, <3>3, <3>4
      <2>7. QED  BY <2>5, <2>6
<1>10. QED  BY <1>1, <1>7, <1>8, <1>9, HistorySteps

(* The panel never changes without the conversation explaining why.          *)
THEOREM VersionsAreNarrated == Spec => []EveryVersionNarrated
<1>1. Init => EveryVersionNarrated
      <2> SUFFICES ASSUME Init  PROVE EveryVersionNarrated  OBVIOUS
      <2>1. chat.seq = 0 /\ DOMAIN versions = {} /\ DOMAIN messages = {} /\ 1..0 = {}
            BY DEF Init
      <2>2. QED  BY <2>1 DEF EveryVersionNarrated
<1>2. QED  BY <1>1, NarratedSteps, ChainInvariant, PTL DEF Spec

(* A ceiling that a turn sets binds what it stores as applicable, whatever   *)
(* was written since it read the chat.                                      *)
THEOREM CeilingBindsItsTurn == Spec => BudgetBindsItsTurn
<1> DEFINE Binds == \A v \in DOMAIN versions' \ DOMAIN versions :
                      chat'.budget # chat.budget /\ versions'[v].applicable
                        => Cost[versions'[v].doc] <= chat'.budget
<1>1. ChatInv /\ [Next]_vars => [Binds]_vars
      <2> SUFFICES ASSUME ChatInv, [Next]_vars, NEW v \in DOMAIN versions' \ DOMAIN versions,
                          chat'.budget # chat.budget, versions'[v].applicable
                   PROVE  Cost[versions'[v].doc] <= chat'.budget
          OBVIOUS
      <2>1. TypeOK /\ HistoryIsChain  BY DEF ChatInv, ChainInv
      <2>2. ~Silent /\ ~PersonWrote  BY DEF Silent, Same, PersonWrote
      <2>3. PICK r \in Requests : TurnWrote(r)  BY <2>1, <2>2, HistorySteps
      <2>4. PICK applicable \in BOOLEAN, doc \in Docs :
              /\ Grows(doc, DocAt(chat.current), "assistant", applicable, chat.seq + 2)
              /\ applicable => Cost[doc] <= chat'.budget
            BY <2>3 DEF TurnWrote, Same
      <2>5. chat.seq + 2 \in Nat  BY <2>1 DEF TypeOK, ChatRow
      <2>6. /\ DOMAIN versions' = DOMAIN versions \cup {chat.current + 1}
            /\ versions'[chat.current + 1].doc = doc
            /\ versions'[chat.current + 1].applicable = applicable
            BY <2>1, <2>4, <2>5, RowWritten
      <2>7. v = chat.current + 1  BY <2>6
      <2>8. QED  BY <2>4, <2>6, <2>7
<1>2. QED  BY <1>1, ChainInvariant, PTL DEF Spec, BudgetBindsItsTurn

===============================================================================
