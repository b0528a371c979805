------------------------------ MODULE ChatConfig -------------------------------
(***************************************************************************)
(* One chat: its row, its transcript and its append-only history of        *)
(* configuration versions (internal/store/chats.go and configs.go), written *)
(* by conversational turns and manual edits (internal/reasoning/service.go), *)
(* reverts and settings (internal/httpapi/handlers).                       *)
(*                                                                         *)
(* A turn reads the chat, calls the model for seconds without a lock, and   *)
(* then writes everything in one transaction; other requests run between.  *)
(* One step is one statement or one transaction.  Documents are compared   *)
(* and priced, never looked into: Catalog and ConfigDiff do that.          *)
(***************************************************************************)
EXTENDS Naturals, FiniteSets

CONSTANTS
  Docs,         \* documents that a model or a person may submit
  Faulty,       \* those that break the catalog's rules
  Cost,         \* the high end of each document's estimated cost
  Amounts,      \* dollar amounts that a ceiling can take
  Requests,     \* HTTP requests that can be in progress at once
  MaxVersions,  \* bound on the versions of the chat
  MaxMessages,  \* bound on its messages
  NoDoc

ASSUME DocumentsAssumption ==
  /\ Faulty \subseteq Docs
  /\ NoDoc \notin Docs
  /\ Cost \in [Docs -> Nat]
  /\ Amounts \subseteq Nat \ {0}

ASSUME ChatBoundsAssumption == MaxVersions \in Nat /\ MaxMessages \in Nat

VARIABLES
  chat,      \* row of chats: current version and ceiling (0: NULL), seq, archived, title
  versions,  \* chat_config_versions, by version
  messages,  \* messages, by seq
  req        \* per request slot: its next statement and what it has read

vars == <<chat, versions, messages, req>>

-------------------------------------------------------------------------------
(* State formulae *)

None == 0

Title == {"default", "given"}

ChatRow == [current: Nat, seq: Nat, budget: Nat, archived: BOOLEAN, title: Title]

(* from is the document that the stored change list starts from. *)
VersionRow == [doc: Docs, parent: Nat, from: Docs \cup {NoDoc},
               source: {"assistant", "revert", "manual"},
               applicable: BOOLEAN, message: Nat]

MessageRow == [role: {"user", "assistant", "system"}, version: Nat]

RequestPC == {"none", "turn", "context", "reply", "previous", "edit", "update"}

(* The body of a settings request, one that does not restore the chat: a    *)
(* field it leaves out is "keep", None or FALSE.                            *)
Changes == [title: Title \cup {"keep"}, budget: Amounts \cup {None},
            clear: BOOLEAN, archive: BOOLEAN]

(* budget: the ceiling read.  base: the version a turn read, or that an      *)
(* editor was showing.  prev: the document an edit is shown to replace, or   *)
(* NoDoc, when that could not be read.                                      *)
Request == [pc: RequestPC, budget: Nat, base: Nat, prev: Docs \cup {NoDoc}]

NoRequest == [pc |-> "none", budget |-> None, base |-> None, prev |-> NoDoc]

DocAt(v) == IF v = None THEN NoDoc ELSE versions[v].doc

(* CurrentConfig: the greatest version there is, not the chat's pointer. *)
Latest == CHOOSE v \in DOMAIN versions \cup {None} : \A u \in DOMAIN versions : u <= v

(* Mutant: the base is not compared. *)
SameVersionSkipped(a, b) == TRUE

(* sameVersion *)
SameVersion(a, b) == a = b

(* Catalog.Validate, as far as a chat tells its outcomes apart. *)
Verdict(doc, ceiling, outOfScope) ==
  IF doc \in Faulty THEN "rejected"
  ELSE IF outOfScope \/ (ceiling # None /\ Cost[doc] > ceiling)
       THEN "not_applicable"
       ELSE "ok"

(* resolveBudgetChange: asked is None when the turn says nothing of a budget, *)
(* asks for its removal, or names a figure out of range.                    *)
Tightens(current, asked) == asked # None /\ (current = None \/ asked < current)

(* Mutant: the proposal is validated against the ceiling in force before. *)
CeilingBefore(read, asked) == read

(* effectiveBudget *)
EffectiveBudget(read, asked) == IF Tightens(read, asked) THEN asked ELSE read

(* Whether a proposal becomes a version: it is valid, and not what there was. *)
Worth(doc, verdict, previous) ==
  doc # NoDoc /\ verdict # "rejected" /\ doc # previous

Extended(f, i, row) == [k \in DOMAIN f \cup {i} |-> IF k = i THEN row ELSE f[k]]

(* Mutant: the message that explains a version does not name it. *)
UnnamedMessage(i, role, v) == Extended(messages, i, [role |-> role, version |-> None])

(* insertMessage.  Only a turn then names, in an UPDATE, the version that   *)
(* its reply produced; a revert's or an edit's message is stored with NULL. *)
WithMessage(i, role, v) == Extended(messages, i, [role |-> role, version |-> v])

(* Mutant: versions are numbered from zero. *)
VersionFromZero(doc, from, source, applicable, message) ==
  Extended(versions, chat.current,
           [doc |-> doc, parent |-> chat.current, from |-> from, source |-> source,
            applicable |-> applicable, message |-> message])

(* insertConfigVersion: the next version, whose parent is the running one *)
WithVersion(doc, from, source, applicable, message) ==
  Extended(versions, chat.current + 1,
           [doc |-> doc, parent |-> chat.current, from |-> from, source |-> source,
            applicable |-> applicable, message |-> message])

(* UNIQUE (chat_id, version), and the bounds. *)
RoomFor(vs, ms) ==
  /\ chat.current + vs <= MaxVersions
  /\ chat.seq + ms <= MaxMessages
  /\ vs = 1 => chat.current + 1 \notin DOMAIN versions

Answer(r) == req' = [req EXCEPT ![r] = NoRequest]
Goto(r, pc) == req' = [req EXCEPT ![r].pc = pc]

Init ==
  /\ \E b \in Amounts \cup {None}, t \in Title :
       chat = [current |-> None, seq |-> 0, budget |-> b,
               archived |-> FALSE, title |-> t]
  /\ versions = [v \in {} |-> NoDoc]
  /\ messages = [m \in {} |-> NoDoc]
  /\ req = [r \in Requests |-> NoRequest]

-------------------------------------------------------------------------------
(* A turn: ChatHandler.SendMessage, then Service.SendMessage *)

(* requireActive *)
TurnCheck(r) ==
  /\ req[r].pc = "none"
  /\ ~chat.archived
  /\ Goto(r, "turn")
  /\ UNCHANGED <<chat, versions, messages>>

(* GetChat: the ceiling this turn is resolved and validated against. *)
TurnReadChat(r) ==
  /\ req[r].pc = "turn"
  /\ req' = [req EXCEPT ![r].pc = "context", ![r].budget = chat.budget]
  /\ UNCHANGED <<chat, versions, messages>>

(* RecentMessages and CurrentConfig: the version this turn reasons about. *)
TurnReadConfig(r) ==
  /\ req[r].pc = "context"
  /\ req' = [req EXCEPT ![r].pc = "reply", ![r].base = Latest]
  /\ UNCHANGED <<chat, versions, messages>>

(* AppendTurn commits, under the chat's row lock. *)
AppendTurn(setBudget, budget, doc, from, applicable) ==
  LET vs == IF doc = NoDoc THEN 0 ELSE 1
      reply == chat.seq + 2
      v == IF vs = 1 THEN chat.current + 1 ELSE None
  IN  /\ RoomFor(vs, 2)
      /\ messages' = Extended(WithMessage(reply, "assistant", v), chat.seq + 1,
                              [role |-> "user", version |-> None])
      /\ versions' = IF vs = 1
                     THEN WithVersion(doc, from, "assistant", applicable, reply)
                     ELSE versions
      /\ chat' = [chat EXCEPT !.seq = reply, !.current = @ + vs,
                              !.budget = IF setBudget THEN budget ELSE @,
                              !.title = "given"]

(* The model has answered with a document (or none), its view of the scope  *)
(* and a ceiling it heard (or none).  ErrStaleConfig is this not happening. *)
TurnWrite(r) ==
  /\ req[r].pc = "reply"
  /\ \E doc \in Docs \cup {NoDoc}, outOfScope \in BOOLEAN, asked \in Amounts \cup {None} :
       LET read == req[r].budget
           previous == DocAt(req[r].base)
           verdict == IF doc = NoDoc THEN "ok"
                      ELSE Verdict(doc, EffectiveBudget(read, asked), outOfScope)
           new == IF Worth(doc, verdict, previous) THEN doc ELSE NoDoc
       IN  /\ new # NoDoc => SameVersion(req[r].base, chat.current)
           /\ AppendTurn(Tightens(read, asked), asked, new, previous, verdict = "ok")
  /\ Answer(r)

-------------------------------------------------------------------------------
(* A manual edit: Service.ApplyManualEdit, then ChatStore.ApplyManualEdit *)

(* GetChat.  The editor was showing some version the chat has had. *)
EditCheck(r) ==
  /\ req[r].pc = "none"
  /\ ~chat.archived
  /\ \E v \in DOMAIN versions :
       req' = [req EXCEPT ![r] = [pc |-> "previous", budget |-> chat.budget,
                                  base |-> v, prev |-> NoDoc]]
  /\ UNCHANGED <<chat, versions, messages>>

(* CurrentConfig once more, for the diff that the answer shows.  An error of *)
(* this read is swallowed: the edit goes on, and its diff is from nothing.  *)
EditReadPrevious(r) ==
  /\ req[r].pc = "previous"
  /\ \E doc \in {DocAt(Latest), NoDoc} :
       req' = [req EXCEPT ![r].pc = "edit", ![r].prev = doc]
  /\ UNCHANGED <<chat, versions, messages>>

(* Mutant: an edit replaces whatever is running. *)
EditableAlways(base) == chat.current # None

Editable(base) == chat.current # None /\ chat.current = base

(* Refusals (a faulty document, ErrStaleConfig, no change) are RequestFails. *)
EditWrite(r) ==
  /\ req[r].pc = "edit"
  /\ Editable(req[r].base)
  /\ RoomFor(1, 1)
  /\ \E doc \in Docs :
       LET verdict == Verdict(doc, req[r].budget, FALSE)
           live == DocAt(chat.current)
           message == chat.seq + 1
       IN  /\ Worth(doc, verdict, live)
           /\ messages' = WithMessage(message, "system", None)
           /\ versions' = WithVersion(doc, live, "manual", verdict = "ok", message)
           /\ chat' = [chat EXCEPT !.seq = message, !.current = @ + 1]
  /\ Answer(r)

-------------------------------------------------------------------------------
(* Revert and settings *)

(* ChatStore.Revert, one transaction.  It looks at neither archived_at nor  *)
(* the ceiling.                                                             *)
Revert(target) ==
  LET message == chat.seq + 1
  IN  /\ chat.current # None
      /\ target \in DOMAIN versions /\ target # chat.current
      /\ RoomFor(1, 1)
      /\ messages' = WithMessage(message, "system", None)
      /\ versions' = WithVersion(versions[target].doc, DocAt(chat.current), "revert",
                                 versions[target].applicable, message)
      /\ chat' = [chat EXCEPT !.seq = message, !.current = @ + 1]
      /\ UNCHANGED req

(* ChatStore.UpdateChat, of a chat that stays or becomes archived or active. *)
Updated(c, archived) ==
  [chat EXCEPT !.title = IF c.title = "keep" THEN @ ELSE c.title,
               !.budget = IF c.clear THEN None
                          ELSE IF c.budget # None THEN c.budget ELSE @,
               !.archived = archived]

(* ChatHandler.Update checks that the chat is active, then writes ... *)
UpdateCheck(r) ==
  /\ req[r].pc = "none"
  /\ ~chat.archived
  /\ Goto(r, "update")
  /\ UNCHANGED <<chat, versions, messages>>

UpdateWrite(r) ==
  /\ req[r].pc = "update"
  /\ \E c \in Changes : chat' = Updated(c, chat.archived \/ c.archive)
  /\ Answer(r)
  /\ UNCHANGED <<versions, messages>>

(* ... unless the request restores the chat. *)
Restore ==
  /\ \E c \in Changes : ~c.archive /\ chat' = Updated(c, FALSE)
  /\ UNCHANGED <<versions, messages, req>>

(* ArchiveChat *)
Archive ==
  /\ ~chat.archived
  /\ chat' = [chat EXCEPT !.archived = TRUE]
  /\ UNCHANGED <<versions, messages, req>>

(* The request is refused, the model or a statement fails, or the process   *)
(* dies: nothing is written.                                                *)
RequestFails(r) ==
  /\ req[r].pc # "none"
  /\ Answer(r)
  /\ UNCHANGED <<chat, versions, messages>>

Next ==
  \/ \E r \in Requests :
       \/ TurnCheck(r) \/ TurnReadChat(r) \/ TurnReadConfig(r) \/ TurnWrite(r)
       \/ EditCheck(r) \/ EditReadPrevious(r) \/ EditWrite(r)
       \/ UpdateCheck(r) \/ UpdateWrite(r)
       \/ RequestFails(r)
  \/ \E v \in DOMAIN versions : Revert(v)
  \/ Restore
  \/ Archive

Spec == Init /\ [][Next]_vars

-------------------------------------------------------------------------------
(* Properties *)

TypeOK ==
  /\ chat \in ChatRow
  /\ DOMAIN versions \subseteq Nat \ {0}
  /\ \A v \in DOMAIN versions : versions[v] \in VersionRow
  /\ DOMAIN messages \subseteq Nat \ {0}
  /\ \A m \in DOMAIN messages : messages[m] \in MessageRow
  /\ req \in [Requests -> Request]

(* The history is one chain, and each version's change list describes the   *)
(* step from its parent: no write was computed against a base that another   *)
(* had replaced, which AppendTurn and ApplyManualEdit refuse as stale.      *)
HistoryIsChain ==
  /\ DOMAIN versions = 1..chat.current
  /\ \A v \in DOMAIN versions :
       versions[v].parent = v - 1 /\ versions[v].from = DocAt(v - 1)

(* The panel never changes without the conversation explaining why: each     *)
(* version has a message of its own in a transcript without gaps, an         *)
(* assistant's if a model proposed it and a system message if a person did,  *)
(* and a message that names a version is the one that explains it.           *)
EveryVersionNarrated ==
  /\ DOMAIN messages = 1..chat.seq
  /\ \A v \in DOMAIN versions :
       LET m == versions[v].message
       IN  /\ m \in DOMAIN messages
           /\ messages[m] = IF versions[v].source = "assistant"
                            THEN [role |-> "assistant", version |-> v]
                            ELSE [role |-> "system", version |-> None]
           /\ \A u \in DOMAIN versions : versions[u].message = m => u = v
  /\ \A m \in DOMAIN messages :
       messages[m].version # None =>
         /\ messages[m].version \in DOMAIN versions
         /\ versions[messages[m].version].message = m

(* An edit that will be accepted is not answered with the diff from another  *)
(* document than the one it replaces, although that document was read in an  *)
(* earlier statement, between which and the write others may commit.  It may *)
(* be answered with a diff from nothing: ApplyManualEdit ignores an error of *)
(* that read.                                                               *)
EditShowsNoStaleChange ==
  \A r \in Requests :
    req[r].pc = "edit" /\ Editable(req[r].base) =>
      req[r].prev \in {NoDoc, DocAt(chat.current)}

(* A ceiling set by a turn binds the proposal it accompanies: what is stored *)
(* with it as applicable costs no more.                                     *)
BudgetBindsItsTurn ==
  [][\A v \in DOMAIN versions' \ DOMAIN versions :
       chat'.budget # chat.budget /\ versions'[v].applicable
         => Cost[versions'[v].doc] <= chat'.budget]_vars

===============================================================================
