-------------------------- MODULE DeploymentPollProofs --------------------------
(***************************************************************************)
(* Theorems about DeploymentPoll, for any number of deployments, timers and  *)
(* requests.                                                                *)
(***************************************************************************)
EXTENDS DeploymentPoll, TLAPS

(* What is pending says what it was asked and what it was answered. *)
TaskOK(q) ==
  /\ q.kind = "free" => q = Free
  /\ q.kind # "free" => q.dep \in Deps /\ q.page \in Deps
  /\ q.at = "answered" => q.says \in Status \cup {"error"}
  /\ q.kind = "act" => q.at # "timer" /\ (q.at = "sent" => q.says \in Status)

TaskInv == \A s \in Slots : TaskOK(task[s])

(* OneLoop, of the tasks before the effect on what is shown. *)
Looping(tasks, page, cur) ==
  \A s \in Slots : tasks[s].kind = "loop" =>
    /\ tasks[s].dep = page
    /\ tasks[s].at = "timer" => cur = s
    /\ \A x \in Slots : tasks[x].kind = "loop" => x = s

IInv == TypeOK /\ TaskInv /\ OneLoop

LEMMA InitInv == Init => IInv
  BY PollAssumption DEF Init, IInv, TypeOK, TaskInv, TaskOK, OneLoop, Task, Free, Status

(* A task made by Get has its type. *)
LEMMA GetType ==
  ASSUME NEW kind \in {"loop", "once"}, NEW at \in {"timer", "sent"}, NEW d \in Deps
  PROVE  /\ Get(kind, at, d) \in Task /\ TaskOK(Get(kind, at, d))
         /\ Get(kind, at, d).kind = kind /\ Get(kind, at, d).at = at
         /\ Get(kind, at, d).dep = d
  BY DEF Get, Task, TaskOK

LEMMA FreeType == Free \in Task /\ Free.kind = "free" /\ TaskOK(Free)
  BY DEF Free, Task, TaskOK

(* The cleanup leaves no loop behind. *)
LEMMA StoppedType ==
  ASSUME IInv, NEW s \in Slots
  PROVE  Stopped(s) \in Task /\ TaskOK(Stopped(s)) /\ Stopped(s).kind # "loop"
  <1>1. task[s] \in Task /\ TaskOK(task[s])
    BY DEF IInv, TypeOK, TaskInv
  <1>2. CASE task[s].kind = "loop"
    BY <1>1, <1>2, FreeType DEF Stopped, Task, TaskOK
  <1>3. CASE task[s].kind # "loop"
    BY <1>1, <1>3, FreeType DEF Stopped
  <1>4. QED  BY <1>2, <1>3

(* The effect that may clear the timer keeps what holds of the tasks. *)
LEMMA SettleInv ==
  ASSUME NEW status, NEW tasks \in [Slots -> Task], NEW cur \in Slots \cup {NoSlot},
         Settle(status, tasks, cur),
         \A s \in Slots : TaskOK(tasks[s]),
         Looping(tasks, selected', cur)
  PROVE  /\ task' \in [Slots -> Task] /\ current' \in Slots \cup {NoSlot}
         /\ TaskInv' /\ OneLoop'
  <1>1. CASE task' = tasks /\ current' = cur
    BY <1>1 DEF TaskInv, OneLoop, Looping, TaskOK, Free
  <1>2. CASE task' = [tasks EXCEPT ![cur] = Free] /\ current' = NoSlot /\ cur \in Slots
    <2>1. task' \in [Slots -> Task] /\ \A s \in Slots : task'[s] = tasks[s] \/ task'[s] = Free
      BY <1>2, FreeType
    <2>2. TaskInv'
      BY <2>1, FreeType DEF TaskInv, TaskOK, Free
    <2>3. \A s \in Slots : task'[s].kind = "loop" => s # cur /\ task'[s] = tasks[s]
      BY <1>2, FreeType
    <2>4. OneLoop'
      BY <2>3 DEF OneLoop, Looping
    <2>5. QED  BY <1>2, <2>1, <2>2, <2>4
  <1>3. QED  BY <1>1, <1>2 DEF Settle

LEMMA OpenInv ==
  ASSUME IInv, NEW s \in Slots, NEW d \in Deps, Open(s, d)
  PROVE  IInv'
  <1>1. /\ task' \in [Slots -> Task]
        /\ task'[s] = Get("loop", "sent", d)
        /\ \A x \in Slots \ {s} : task'[x] = Stopped(x)
    BY StoppedType, GetType DEF Open
  <1>2. TypeOK'
    BY <1>1, PollAssumption DEF Open, IInv, TypeOK
  <1>3. TaskInv'
    BY <1>1, StoppedType, GetType DEF TaskInv, TaskOK, Free
  <1>4. OneLoop'
    <2>1. \A x \in Slots : task'[x].kind = "loop" => x = s
      BY <1>1, StoppedType
    <2>2. QED  BY <1>1, <2>1, GetType DEF OneLoop, Open
  <1>5. QED  BY <1>2, <1>3, <1>4 DEF IInv

LEMMA CloseInv ==
  ASSUME IInv, Close
  PROVE  IInv'
  <1>1. task' \in [Slots -> Task] /\ \A x \in Slots : task'[x] = Stopped(x)
    BY StoppedType DEF Close
  <1>2. TypeOK'
    BY <1>1 DEF Close, IInv, TypeOK
  <1>3. TaskInv'
    BY <1>1, StoppedType DEF TaskInv, TaskOK, Free
  <1>4. OneLoop'
    BY <1>1, StoppedType DEF OneLoop
  <1>5. QED  BY <1>2, <1>3, <1>4 DEF IInv

LEMMA AnsweredType ==
  ASSUME NEW q \in Task, NEW says \in Status \cup {"error"}
  PROVE  [q EXCEPT !.at = "answered", !.says = says] \in Task
  BY DEF Task

(* Requests that are made, served or sent by a timer. *)
LEMMA RequestInv ==
  ASSUME IInv, NEW s \in Slots,
         \/ \E target \in Status : Act(s, target)
         \/ Read(s) \/ Serve(s) \/ ReadFails(s) \/ Fires(s)
  PROVE  IInv'
  <1> USE DEF IInv
  <1>1. ASSUME NEW target \in Status, Act(s, target)  PROVE IInv'
    <2>1. task' = [task EXCEPT ![s] = [kind |-> "act", at |-> "sent", dep |-> shown.dep,
                                       page |-> selected, says |-> target]]
          /\ shown.dep \in Deps /\ selected \in Deps
      BY <1>1 DEF Act, TypeOK
    <2>2. TypeOK'
      BY <1>1, <2>1 DEF Act, TypeOK, Task
    <2>3. TaskInv' /\ OneLoop'
      BY <1>1, <2>1 DEF Act, TypeOK, TaskInv, TaskOK, OneLoop, Free
    <2>4. QED  BY <2>2, <2>3
  <1>2. ASSUME Read(s)  PROVE IInv'
    <2>1. task[s].kind # "free" /\ server[task[s].dep] \in Status
      BY <1>2 DEF Read, TypeOK, TaskInv, TaskOK, Free
    <2>2. TypeOK'
      <3>1. task' = [task EXCEPT ![s] = [task[s] EXCEPT !.at = "answered",
                                                        !.says = server[task[s].dep]]]
        BY <1>2 DEF Read, TypeOK
      <3>2. task' \in [Slots -> Task]
        BY <2>1, <3>1, AnsweredType DEF TypeOK
      <3>3. QED  BY <1>2, <3>2 DEF Read, TypeOK
    <2>3. TaskInv' /\ OneLoop'
      BY <1>2, <2>1 DEF Read, TypeOK, TaskInv, TaskOK, OneLoop, Task, Free
    <2>4. QED  BY <2>2, <2>3
  <1>3. ASSUME Serve(s)  PROVE IInv'
    <2>1. task[s].dep \in Deps /\ task[s].says \in Status
      BY <1>3 DEF Serve, TaskInv, TaskOK
    <2>2. PICK says \in Status \cup {"error"} :
            task' = [task EXCEPT ![s].at = "answered", ![s].says = says]
      BY <1>3, <2>1 DEF Serve
    <2>3. TypeOK'
      BY <1>3, <2>1, <2>2 DEF Serve, TypeOK, Task
    <2>4. TaskInv' /\ OneLoop'
      BY <1>3, <2>1, <2>2 DEF Serve, TypeOK, TaskInv, TaskOK, OneLoop, Task, Free
    <2>5. QED  BY <2>3, <2>4
  <1>4. ASSUME ReadFails(s)  PROVE IInv'
    <2>1. task[s].kind # "free"
      BY <1>4 DEF ReadFails, TypeOK, TaskInv, TaskOK, Free
    <2>2. TypeOK'
      <3>1. task' = [task EXCEPT ![s] = [task[s] EXCEPT !.at = "answered", !.says = "error"]]
        BY <1>4 DEF ReadFails, TypeOK
      <3>2. task' \in [Slots -> Task]
        BY <3>1, AnsweredType DEF TypeOK
      <3>3. QED  BY <1>4, <3>2, PollAssumption DEF ReadFails, TypeOK
    <2>3. TaskInv' /\ OneLoop'
      BY <1>4, <2>1 DEF ReadFails, TypeOK, TaskInv, TaskOK, OneLoop, Task, Free
    <2>4. QED  BY <2>2, <2>3
  <1>5. ASSUME Fires(s)  PROVE IInv'
    <2>1. task[s].kind \notin {"free", "act"}
      BY <1>5 DEF Fires, TypeOK, TaskInv, TaskOK, Free
    <2>2. TypeOK'
      BY <1>5 DEF Fires, TypeOK, Task
    <2>3. TaskInv' /\ OneLoop'
      BY <1>5, <2>1 DEF Fires, TypeOK, TaskInv, TaskOK, OneLoop, Task, Free
    <2>4. QED  BY <2>2, <2>3
  <1>6. QED  BY <1>1, <1>2, <1>3, <1>4, <1>5

(* A refresh that is answered shows its answer, and a loop sets its timer. *)
LEMMA RefreshedInv ==
  ASSUME IInv, NEW s \in Slots, Refreshed(s)
  PROVE  IInv'
  <1> DEFINE q == task[s]
             loops == q.kind = "loop"
             tasks == [task EXCEPT ![s] = IF loops THEN Get("loop", "timer", q.dep) ELSE Free]
             cur == IF loops THEN s ELSE current
  <1>1. /\ q \in Task /\ TaskOK(q) /\ q.at = "answered" /\ q.kind # "act"
        /\ q.dep \in Deps /\ q.says \in Status \cup {"error"}
    BY DEF IInv, TypeOK, TaskInv, TaskOK, Refreshed, Free
  <1>2. tasks \in [Slots -> Task] /\ cur \in Slots \cup {NoSlot}
    BY <1>1, GetType, FreeType DEF IInv, TypeOK
  <1>3. \A x \in Slots : TaskOK(tasks[x])
    BY <1>1, GetType, FreeType DEF IInv, TypeOK, TaskInv
  <1>4. Looping(tasks, selected', cur)
    <2>1. selected' = selected  BY DEF Refreshed
    <2>2. CASE loops
      <3>1. tasks[s] = Get("loop", "timer", q.dep) /\ q.dep = selected
            /\ \A x \in Slots \ {s} : tasks[x] = task[x] /\ task[x].kind # "loop"
        BY <2>2 DEF IInv, TypeOK, OneLoop
      <3>2. QED  BY <1>1, <2>1, <2>2, <3>1, GetType DEF Looping
    <2>3. CASE ~loops
      <3>1. tasks[s] = Free /\ cur = current /\ \A x \in Slots \ {s} : tasks[x] = task[x]
        BY <2>3 DEF IInv, TypeOK
      <3>2. QED  BY <2>1, <3>1, FreeType DEF Looping, IInv, OneLoop
    <2>4. QED  BY <2>2, <2>3
  <1>5. /\ task' \in [Slots -> Task] /\ current' \in Slots \cup {NoSlot}
        /\ TaskInv' /\ OneLoop'
    <2>1. CASE q.says = "error"
      <3>1. task' = tasks /\ current' = cur  BY <2>1 DEF Refreshed
      <3>2. QED  BY <1>2, <1>3, <1>4, <3>1 DEF TaskInv, OneLoop, Looping, TaskOK, Free
    <2>2. CASE q.says # "error"
      <3>1. Settle(q.says, tasks, cur)  BY <2>2 DEF Refreshed
      <3> HIDE DEF tasks, cur
      <3>2. QED  BY <1>2, <1>3, <1>4, <3>1, SettleInv
    <2>3. QED  BY <2>1, <2>2
  <1>6. QED  BY <1>1, <1>5 DEF IInv, TypeOK, Refreshed, View

(* An action that is answered makes its timer the only one, or sends a      *)
(* refresh.                                                                 *)
LEMMA AppliedInv ==
  ASSUME IInv, NEW s \in Slots, Applied(s)
  PROVE  IInv'
  <1> DEFINE q == task[s]
             tasks == Restarted(s, q.page)
  <1>1. /\ q \in Task /\ TaskOK(q) /\ q.at = "answered" /\ q.kind = "act"
        /\ q.dep \in Deps /\ q.page \in Deps /\ q.says \in Status \cup {"error"}
    BY DEF IInv, TypeOK, TaskInv, TaskOK, Applied
  <1>2. selected' = selected  BY DEF Applied
  <1>3. CASE q.says = "error"
    <2>1. task' = [task EXCEPT ![s] = Get("once", "sent", q.page)] /\ current' = current
          /\ shown' = shown
      BY <1>3 DEF Applied
    <2>2. task' \in [Slots -> Task] /\ TaskInv'
      BY <1>1, <2>1, GetType DEF IInv, TypeOK, TaskInv, TaskOK, Free
    <2>3. OneLoop'
      BY <1>1, <1>2, <2>1, GetType DEF IInv, TypeOK, OneLoop
    <2>4. QED  BY <2>1, <2>2, <2>3 DEF IInv, TypeOK, Applied
  <1>4. CASE q.says # "error"
    <2>1. shown' = View(q.dep, q.says) /\ Settle(q.says, tasks, s)
      BY <1>4 DEF Applied
    <2>2. /\ tasks \in [Slots -> Task]
          /\ tasks[s] = Get("once", "timer", q.page)
          /\ \A x \in Slots \ {s} : tasks[x] = IF x = current THEN Free ELSE task[x]
      BY <1>1, GetType, FreeType DEF Restarted, IInv, TypeOK
    <2>3. \A x \in Slots : TaskOK(tasks[x])
      BY <1>1, <2>2, GetType, FreeType DEF IInv, TaskInv
    <2>4. Looping(tasks, selected', s)
      BY <1>1, <1>2, <2>2, GetType, FreeType DEF Looping, IInv, OneLoop
    <2> HIDE DEF tasks
    <2>5. /\ task' \in [Slots -> Task] /\ current' \in Slots \cup {NoSlot}
          /\ TaskInv' /\ OneLoop'
      BY <2>1, <2>2, <2>3, <2>4, SettleInv
    <2>6. QED  BY <1>1, <1>4, <2>1, <2>5 DEF IInv, TypeOK, Applied, View
  <1>5. QED  BY <1>3, <1>4

(* The invariant holds throughout. *)
THEOREM Invariant == Spec => []IInv
  <1>1. Init => IInv  BY InitInv
  <1>2. IInv /\ [Next]_vars => IInv'
    <2> SUFFICES ASSUME IInv, [Next]_vars  PROVE IInv'
      OBVIOUS
    <2>1. ASSUME NEW d \in Deps, Moves(d)  PROVE IInv'
      BY <2>1 DEF Moves, IInv, TypeOK, TaskInv, TaskOK, OneLoop, Free
    <2>2. CASE Close
      BY <2>2, CloseInv
    <2>3. ASSUME NEW s \in Slots, NEW d \in Deps, Open(s, d)  PROVE IInv'
      BY <2>3, OpenInv
    <2>4. ASSUME NEW s \in Slots,
                 \/ \E target \in Status : Act(s, target)
                 \/ Read(s) \/ Serve(s) \/ ReadFails(s) \/ Fires(s)
          PROVE  IInv'
      BY <2>4, RequestInv
    <2>5. ASSUME NEW s \in Slots, Refreshed(s)  PROVE IInv'
      BY <2>5, RefreshedInv
    <2>6. ASSUME NEW s \in Slots, Applied(s)  PROVE IInv'
      BY <2>6, AppliedInv
    <2>7. CASE UNCHANGED vars
      BY <2>7 DEF vars, IInv, TypeOK, TaskInv, TaskOK, OneLoop, Free
    <2>8. QED  BY <2>1, <2>2, <2>3, <2>4, <2>5, <2>6, <2>7 DEF Next
  <1>3. QED  BY <1>1, <1>2, PTL DEF Spec

(* Every variable of the page and the server has its type. *)
THEOREM TypeCorrect == Spec => []TypeOK
  <1>1. IInv => TypeOK  BY DEF IInv
  <1>2. QED  BY <1>1, Invariant, PTL

(* For any number of deployments, timers and requests: the page has one      *)
(* polling loop at most, for the deployment selected, and can stop it       *)
(* (useDeployment, its effects and apply).                                  *)
THEOREM PageHasOneLoop == Spec => []OneLoop
  <1>1. IInv => OneLoop  BY DEF IInv
  <1>2. QED  BY <1>1, Invariant, PTL

===============================================================================
