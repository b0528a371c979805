----------------------------- MODULE DeploymentPoll -----------------------------
(***************************************************************************)
(* The deployment panel of one page: the polling hook                       *)
(* (src/hooks/useDeployment.ts of the frontend), the buttons that act       *)
(* (DeploymentPanel.tsx) and the server behind them.  The hook polls by a    *)
(* timer that its answer sets again; an action's answer sets a timer too.   *)
(* Requests take time, so that answers come late and out of order.          *)
(***************************************************************************)
EXTENDS DeploymentStatus, Naturals

CONSTANTS
  Deps, NoDep,
  Slots,     \* timers and requests that can be pending at once
  NoSlot,
  NoView,    \* nothing is shown
  MaxLost    \* bound on the requests that fail

ASSUME PollAssumption ==
  NoDep \notin Deps /\ NoSlot \notin Slots /\ MaxLost \in Nat

VARIABLES
  server,    \* status of each deployment
  selected,  \* deploymentId
  shown,     \* the deployment on the page, or NoView
  task,      \* per slot: a timer that is set, or a request on its way
  current,   \* the slot of the timer that timer.current names
  lost       \* requests that have failed

vars == <<server, selected, shown, task, current, lost>>

-------------------------------------------------------------------------------
(* State formulae *)

ShouldPoll(status) == status \in {"planning", "applying", "destroying"}

(* The buttons, by the status they ask for: approve, cancel or resolve, destroy *)
Offered(status) ==
  {x \in {"applying"} : status = "awaiting_approval"}
  \cup {x \in {"cancelled"} : status \in {"planning", "awaiting_approval", "plan_failed",
                                          "unknown", "apply_failed", "destroy_failed"}}
  \cup {x \in {"destroying"} : status \in {"applied", "apply_failed", "destroy_failed",
                                           "unknown", "superseded"}}

(* loop: sets a timer again when it is answered; once: does not.            *)
(* page: the deployment that the hook was called with at the time.          *)
(* says: the status asked for, then the answer.                             *)
Task == [kind: {"free", "loop", "once", "act"}, at: {"none", "timer", "sent", "answered"},
         dep: Deps \cup {NoDep}, page: Deps \cup {NoDep},
         says: Status \cup {"none", "error"}]

Free == [kind |-> "free", at |-> "none", dep |-> NoDep, page |-> NoDep, says |-> "none"]
Get(kind, at, d) == [kind |-> kind, at |-> at, dep |-> d, page |-> d, says |-> "none"]

Room(s) == task[s] = Free

View(d, status) == [dep |-> d, status |-> status]

(* Mutant: the loop of the deployment before is not cancelled. *)
StoppedNever(s) == IF s = current THEN Free ELSE task[s]

(* The effect's cleanup: the timer is cleared, and a loop that waits for an   *)
(* answer goes no further after it.                                         *)
Stopped(s) ==
  IF s = current THEN Free
  ELSE IF task[s].kind # "loop" THEN task[s]
  ELSE IF task[s].at = "timer" THEN Free
  ELSE [task[s] EXCEPT !.kind = "once"]

(* Mutant: the timer is left set when there is nothing to poll for. *)
SettlePollsOn(status, tasks, cur) == task' = tasks /\ current' = cur

(* The effect on what is shown, which runs before anything else happens:     *)
(* a settled status clears the timer.                                       *)
Settle(status, tasks, cur) ==
  IF ShouldPoll(status) \/ cur = NoSlot
  THEN task' = tasks /\ current' = cur
  ELSE task' = [tasks EXCEPT ![cur] = Free] /\ current' = NoSlot

Init ==
  /\ server = [d \in Deps |-> "planning"]
  /\ selected = NoDep
  /\ shown = NoView
  /\ task = [s \in Slots |-> Free]
  /\ current = NoSlot
  /\ lost = 0

-------------------------------------------------------------------------------
(* The user *)

(* Another chat is opened, or a plan is started: the hook starts over.      *)
Open(s, d) ==
  /\ d # selected /\ Room(s)
  /\ selected' = d
  /\ shown' = NoView
  /\ task' = [[x \in Slots |-> Stopped(x)] EXCEPT ![s] = Get("loop", "sent", d)]
  /\ current' = NoSlot
  /\ UNCHANGED <<server, lost>>

Close ==
  /\ selected # NoDep
  /\ selected' = NoDep
  /\ shown' = NoView
  /\ task' = [x \in Slots |-> Stopped(x)]
  /\ current' = NoSlot
  /\ UNCHANGED <<server, lost>>

(* A button is pressed: apply(fn) *)
Act(s, target) ==
  /\ selected # NoDep /\ shown # NoView
  /\ target \in Offered(shown.status)
  /\ Room(s)
  /\ task' = [task EXCEPT ![s] = [kind |-> "act", at |-> "sent", dep |-> shown.dep,
                                  page |-> selected, says |-> target]]
  /\ UNCHANGED <<server, selected, shown, current, lost>>

-------------------------------------------------------------------------------
(* The server, and the way there *)

(* Workers, other pages and scheduled teardowns move a deployment on.       *)
Moves(d) ==
  /\ \E status \in Status :
       CanTransition(server[d], status) /\ server' = [server EXCEPT ![d] = status]
  /\ UNCHANGED <<selected, shown, task, current, lost>>

Read(s) ==
  /\ task[s].at = "sent" /\ task[s].kind # "act"
  /\ task' = [task EXCEPT ![s].at = "answered", ![s].says = server[task[s].dep]]
  /\ UNCHANGED <<server, selected, shown, current, lost>>

(* An action is carried out and answered, carried out and the answer lost,  *)
(* or refused.                                                              *)
Serve(s) ==
  /\ task[s].at = "sent" /\ task[s].kind = "act"
  /\ \/ /\ CanTransition(server[task[s].dep], task[s].says)
        /\ server' = [server EXCEPT ![task[s].dep] = task[s].says]
        /\ \E says \in {task[s].says, "error"} :
             task' = [task EXCEPT ![s].at = "answered", ![s].says = says]
     \/ /\ task' = [task EXCEPT ![s].at = "answered", ![s].says = "error"]
        /\ UNCHANGED server
  /\ UNCHANGED <<selected, shown, current, lost>>

ReadFails(s) ==
  /\ task[s].at = "sent" /\ task[s].kind # "act"
  /\ lost < MaxLost
  /\ lost' = lost + 1
  /\ task' = [task EXCEPT ![s].at = "answered", ![s].says = "error"]
  /\ UNCHANGED <<server, selected, shown, current>>

-------------------------------------------------------------------------------
(* The hook *)

(* The timer runs out, and a refresh is sent. *)
Fires(s) ==
  /\ task[s].at = "timer"
  /\ task' = [task EXCEPT ![s].at = "sent"]
  /\ current' = IF current = s THEN NoSlot ELSE current
  /\ UNCHANGED <<server, selected, shown, lost>>

(* refresh is answered, for whatever deployment it asked; a loop goes on.   *)
Refreshed(s) ==
  LET q == task[s]
      loops == q.kind = "loop"
      tasks == [task EXCEPT ![s] = IF loops THEN Get("loop", "timer", q.dep) ELSE Free]
      cur == IF loops THEN s ELSE current
  IN  /\ q.at = "answered" /\ q.kind # "act"
      /\ IF q.says = "error"
         THEN task' = tasks /\ current' = cur /\ UNCHANGED shown
         ELSE shown' = View(q.dep, q.says) /\ Settle(q.says, tasks, cur)
      /\ UNCHANGED <<server, selected, lost>>

(* The timer set so far makes way for one refresh. *)
Restarted(s, page) ==
  [x \in Slots |-> IF x = s THEN Get("once", "timer", page)
                   ELSE IF x = current THEN Free ELSE task[x]]

(* apply's fn is answered, or fails and a refresh is sent at once.          *)
Applied(s) ==
  LET q == task[s]
  IN  /\ q.at = "answered" /\ q.kind = "act"
      /\ IF q.says = "error"
         THEN task' = [task EXCEPT ![s] = Get("once", "sent", q.page)]
              /\ UNCHANGED <<shown, current>>
         ELSE shown' = View(q.dep, q.says) /\ Settle(q.says, Restarted(s, q.page), s)
      /\ UNCHANGED <<server, selected, lost>>

Next ==
  \/ \E d \in Deps : Moves(d)
  \/ Close
  \/ \E s \in Slots :
       \/ (\E d \in Deps : Open(s, d)) \/ (\E target \in Status : Act(s, target))
       \/ Read(s) \/ Serve(s) \/ ReadFails(s)
       \/ Fires(s) \/ Refreshed(s) \/ Applied(s)

Spec == Init /\ [][Next]_vars

(* A timer runs out, a request is answered or times out, and the browser    *)
(* takes the answer.                                                        *)
LiveSpec ==
  /\ Spec
  /\ \A s \in Slots : WF_vars(Read(s) \/ Serve(s) \/ Fires(s) \/ Refreshed(s) \/ Applied(s))

-------------------------------------------------------------------------------
(* Properties *)

TypeOK ==
  /\ server \in [Deps -> Status]
  /\ selected \in Deps \cup {NoDep}
  /\ shown = NoView \/ shown \in [dep: Deps, status: Status]
  /\ task \in [Slots -> Task]
  /\ current \in Slots \cup {NoSlot}
  /\ lost \in 0..MaxLost

(* However the user switches between deployments and acts on them, the page  *)
(* has one polling loop, and it polls what is selected; when its timer is    *)
(* set, timer.current names it, so that a settled status can stop it.       *)
OneLoop ==
  \A s \in Slots : task[s].kind = "loop" =>
    /\ task[s].dep = selected
    /\ task[s].at = "timer" => current = s
    /\ \A x \in Slots : task[x].kind = "loop" => x = s

(* Once the deployment on the page is settled for good and nobody acts on it, *)
(* the page falls silent: no poll is left over by actions and answers that   *)
(* overtook each other.                                                     *)
StopsOnceSettled ==
  \A d \in Deps :
    <>[](selected = d /\ ~ShouldPoll(server[d]) /\ \A s \in Slots : task[s].kind # "act")
      => <>[](\A s \in Slots : task[s] = Free)

(* What the hook's comment says: it polls while the deployment is in flight. *)
InFlightIsPolled ==
  (shown # NoView /\ shown.dep = selected /\ ShouldPoll(shown.status))
    => \E s \in Slots : task[s] # Free

===============================================================================
