-------------------------------- MODULE ChatSlot --------------------------------
(***************************************************************************)
(* What the deployment pipeline promises a chat, whatever happens to its    *)
(* jobs, workers and requests: one deployment at a time works on the chat's *)
(* infrastructure or waits to be approved, and one is live, having got      *)
(* there by way of the former.  Deployments implements this.                *)
(***************************************************************************)
CONSTANTS Chats, Deps

VARIABLES
  working,  \* per chat: the deployment that Terraform is to run for, if any
  waiting,  \* per chat: the one whose plan waits for a person
  live      \* per chat: the one that is applied

slotVars == <<working, waiting, live>>

Set(f, c, S) == [f EXCEPT ![c] = S]

SlotInit ==
  /\ working = [c \in Chats |-> {}]
  /\ waiting = [c \in Chats |-> {}]
  /\ live = [c \in Chats |-> {}]

(* A new plan begins; it takes the place of one that nobody has approved. *)
Plan(c, d) ==
  /\ working[c] = {} /\ d \notin waiting[c] \cup live[c]
  /\ working' = Set(working, c, {d})
  /\ waiting' = Set(waiting, c, {})
  /\ UNCHANGED live

(* The plan is there to be seen, and a person approves it. *)
Offer(c) ==
  /\ working[c] # {}
  /\ waiting' = Set(waiting, c, working[c])
  /\ working' = Set(working, c, {})
  /\ UNCHANGED live

Approve(c) ==
  /\ waiting[c] # {}
  /\ working' = Set(working, c, waiting[c])
  /\ waiting' = Set(waiting, c, {})
  /\ UNCHANGED live

(* What was applied becomes the live one, in the same step in which the     *)
(* earlier one ceases to be.                                                *)
GoLive(c) ==
  /\ working[c] # {}
  /\ live' = Set(live, c, working[c])
  /\ working' = Set(working, c, {})
  /\ UNCHANGED waiting

(* A teardown begins, of the live one or of the remains of another. *)
TearDown(c, d) ==
  /\ working[c] = {} /\ waiting[c] = {}
  /\ working' = Set(working, c, {d})
  /\ live' = Set(live, c, live[c] \ {d})
  /\ UNCHANGED waiting

(* Work ends with nothing to show for it: failed, cancelled, destroyed or   *)
(* of unknown outcome.                                                      *)
End(c) ==
  /\ working' = Set(working, c, {})
  /\ waiting' = Set(waiting, c, {})
  /\ UNCHANGED live

(* It is no longer known what became of the live one. *)
Lose(c) ==
  /\ live' = Set(live, c, {})
  /\ UNCHANGED <<working, waiting>>

SlotNext ==
  \E c \in Chats :
    \/ Offer(c) \/ Approve(c) \/ GoLive(c) \/ End(c) \/ Lose(c)
    \/ \E d \in Deps : Plan(c, d) \/ TearDown(c, d)

SlotSpec == SlotInit /\ [][SlotNext]_slotVars

===============================================================================
