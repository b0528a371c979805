------------------------- MODULE DeploymentsSlotProofs -------------------------
(***************************************************************************)
(* The deployment tables implement the slot of a chat, for every number of  *)
(* chats, deployments, jobs, workers and requests, every bound and fault.   *)
(* It follows from OnePerChat: every write to a status is one of Transition *)
(* or Create (StatusSteps), and each of these is one step of ChatSlot.      *)
(***************************************************************************)
EXTENDS DeploymentsProofs

AtWork == {"planning", "applying", "destroying"}
Waits == {"awaiting_approval"}
Lives == {"applied"}

(* The abstract step, or none. *)
SlotStep == [Slot!SlotNext]_(Slot!slotVars)

LEMMA InSlotMember ==
  ASSUME NEW S, NEW c \in Chats
  PROVE  /\ InSlot(S)[c] = {d \in OfChat(c) : dep[d].status \in S}
         /\ InSlot(S)'[c] = {d \in OfChat(c) : dep'[d].status \in S}
BY DEF InSlot, OfChat

(* What Transition leaves of one class of statuses, in the chat of d. *)
Left(S, d, s) == InSlot(S)[ChatOf[d]] \ (Superseded(d, s) \cup {d})

LEMMA MovedSlot ==
  ASSUME TypeOK, NEW d \in Deps, NEW s \in Status, Moves(d, s),
         NEW S, "superseded" \notin S
  PROVE  InSlot(S)' = [InSlot(S) EXCEPT ![ChatOf[d]] =
                         IF s \in S THEN Left(S, d, s) \cup {d} ELSE Left(S, d, s)]
<1>1. PICK c \in Chats : c = ChatOf[d]  BY IdsAssumption
<1>2. d \in OfChat(c)  BY <1>1 DEF OfChat
<1>3. \A e \in OfChat(c) : e \in Deps  BY DEF OfChat
<1>4. \A e \in Deps : dep'[e].status = IF e = d THEN s
                      ELSE IF e \in Superseded(d, s) THEN "superseded" ELSE dep[e].status
      BY DEF Moves, Moved, TypeOK, DepRow
<1>5. Superseded(d, s) \subseteq OfChat(c)  BY <1>1 DEF Superseded
<1>6. InSlot(S)'[c] = IF s \in S THEN Left(S, d, s) \cup {d} ELSE Left(S, d, s)
      <2>1. \A e \in OfChat(c) : e \in Left(S, d, s)
              <=> dep[e].status \in S /\ e \notin Superseded(d, s) /\ e # d
            BY <1>1, InSlotMember DEF Left
      <2>2. Left(S, d, s) \subseteq OfChat(c)  BY <1>1, InSlotMember DEF Left
      <2>3. \A e \in OfChat(c) : e \in InSlot(S)'[c] <=>
              (e \in Left(S, d, s)) \/ (e = d /\ s \in S)
            BY <1>2, <1>3, <1>4, <2>1, InSlotMember
      <2>4. InSlot(S)'[c] \subseteq OfChat(c)  BY InSlotMember
      <2>5. QED  BY <1>2, <2>2, <2>3, <2>4
<1>7. ASSUME NEW b \in Chats, b # c  PROVE InSlot(S)'[b] = InSlot(S)[b]
      <2>1. \A e \in OfChat(b) : e \in Deps /\ e # d /\ e \notin Superseded(d, s)
            BY <1>1, <1>5, <1>7 DEF OfChat
      <2>2. \A e \in OfChat(b) : dep'[e].status = dep[e].status  BY <1>4, <2>1
      <2>3. \A e \in OfChat(b) : e \in InSlot(S)'[b] <=> e \in InSlot(S)[b]
            BY <2>2, InSlotMember
      <2>4. InSlot(S)'[b] \subseteq OfChat(b) /\ InSlot(S)[b] \subseteq OfChat(b)
            BY InSlotMember
      <2>5. QED  BY <2>3, <2>4
<1>8. /\ DOMAIN InSlot(S) = Chats /\ InSlot(S) = [b \in Chats |-> InSlot(S)[b]]
      /\ InSlot(S)' = [b \in Chats |-> {e \in OfChat(b) : dep'[e].status \in S}]
      BY DEF InSlot
<1>9. \A b \in Chats : InSlot(S)'[b] = {e \in OfChat(b) : dep'[e].status \in S}
      BY InSlotMember
<1>10. InSlot(S)' = [b \in Chats |-> InSlot(S)'[b]]  BY <1>8, <1>9, Zenon
<1>11. QED  BY <1>1, <1>6, <1>7, <1>8, <1>10

(* In the chat of a deployment that holds the lock, nothing else is at work  *)
(* or waits; and the one that is live is the only one.                      *)
LEMMA AloneInSlot ==
  ASSUME OnePerChat, NEW d \in Deps, NEW c \in Chats, c = ChatOf[d]
  PROVE  /\ dep[d].status \in AtWork => InSlot(AtWork)[c] = {d} /\ InSlot(Waits)[c] = {}
         /\ dep[d].status \in Waits => InSlot(AtWork)[c] = {} /\ InSlot(Waits)[c] = {d}
         /\ dep[d].status \in Lives => InSlot(Lives)[c] = {d}
<1>1. d \in OfChat(c)  BY DEF OfChat
<1>2. \A e \in OfChat(c) \ {d} :
        /\ dep[d].status \in InFlight => dep[e].status \notin InFlight
        /\ dep[d].status = "applied" => dep[e].status # "applied"
      BY <1>1 DEF OnePerChat
<1>3. InFlight = AtWork \cup Waits  BY DEF InFlight, AtWork, Waits
<1>4. AtWork \cap Waits = {}  BY DEF AtWork, Waits
<1>5. QED  BY <1>1, <1>2, <1>3, <1>4, InSlotMember DEF Lives

(* The steps of ChatSlot, as the sets of one chat before and after. *)
SlotCases(d, w, a, l, x, b, m) ==
  \/ w = {} /\ d \notin a \cup l /\ x = {d} /\ b = {} /\ m = l
  \/ w # {} /\ m = l /\ b = w /\ x = {}
  \/ a # {} /\ m = l /\ x = a /\ b = {}
  \/ w # {} /\ b = a /\ m = w /\ x = {}
  \/ w = {} /\ a = {} /\ b = a /\ x = {d} /\ m = l \ {d}
  \/ x = {} /\ b = {} /\ m = l
  \/ m = {} /\ x = w /\ b = a
  \/ x = w /\ b = a /\ m = l

(* Nothing changes in any chat but c. *)
OnlyIn(c) ==
  /\ InSlot(AtWork)' = [InSlot(AtWork) EXCEPT ![c] = InSlot(AtWork)'[c]]
  /\ InSlot(Waits)' = [InSlot(Waits) EXCEPT ![c] = InSlot(Waits)'[c]]
  /\ InSlot(Lives)' = [InSlot(Lives) EXCEPT ![c] = InSlot(Lives)'[c]]

LEMMA SlotSteps ==
  ASSUME NEW c \in Chats, NEW d \in Deps, OnlyIn(c),
         SlotCases(d, InSlot(AtWork)[c], InSlot(Waits)[c], InSlot(Lives)[c],
                   InSlot(AtWork)'[c], InSlot(Waits)'[c], InSlot(Lives)'[c])
  PROVE  SlotStep
<1>1. \A S : InSlot(S) = [InSlot(S) EXCEPT ![c] = InSlot(S)[c]]  BY DEF InSlot
<1>2. SUFFICES \/ Slot!Plan(c, d) \/ Slot!Offer(c) \/ Slot!Approve(c) \/ Slot!GoLive(c)
               \/ Slot!TearDown(c, d) \/ Slot!End(c) \/ Slot!Lose(c)
               \/ UNCHANGED Slot!slotVars
      BY DEF SlotStep, Slot!SlotNext
<1> DEFINE W == InSlot(AtWork)
           A == InSlot(Waits)
           L == InSlot(Lives)
           x == W'[c]
           b == A'[c]
           m == L'[c]
<1>3. /\ W = [W EXCEPT ![c] = W[c]] /\ A = [A EXCEPT ![c] = A[c]]
      /\ L = [L EXCEPT ![c] = L[c]]
      BY <1>1
<1> USE DEF OnlyIn, AtWork, Waits, Lives, Slot!Set
<1>4. CASE W[c] = {} /\ d \notin A[c] \cup L[c] /\ x = {d} /\ b = {} /\ m = L[c]
      BY <1>3, <1>4 DEF Slot!Plan
<1>5. CASE W[c] # {} /\ m = L[c] /\ b = W[c] /\ x = {}
      BY <1>3, <1>5 DEF Slot!Offer
<1>6. CASE A[c] # {} /\ m = L[c] /\ x = A[c] /\ b = {}
      BY <1>3, <1>6 DEF Slot!Approve
<1>7. CASE W[c] # {} /\ b = A[c] /\ m = W[c] /\ x = {}
      BY <1>3, <1>7 DEF Slot!GoLive
<1>8. CASE W[c] = {} /\ A[c] = {} /\ b = A[c] /\ x = {d} /\ m = L[c] \ {d}
      BY <1>3, <1>8 DEF Slot!TearDown
<1>9. CASE x = {} /\ b = {} /\ m = L[c]
      BY <1>3, <1>9 DEF Slot!End
<1>10. CASE m = {} /\ x = W[c] /\ b = A[c]
      BY <1>3, <1>10 DEF Slot!Lose
<1>11. CASE x = W[c] /\ b = A[c] /\ m = L[c]
      BY <1>3, <1>11 DEF Slot!slotVars
<1>12. QED  BY <1>4, <1>5, <1>6, <1>7, <1>8, <1>9, <1>10, <1>11 DEF SlotCases

(* A legal transition of d, from o to s, as it shows in the chat of d. *)
LEMMA LegalSlotCase ==
  ASSUME NEW d, NEW o, NEW s, NEW w, NEW a, NEW l,
         o = s \/ CanTransition(o, s),
         d \in w <=> o \in AtWork, d \in a <=> o \in Waits, d \in l <=> o \in Lives,
         o \in AtWork => w = {d} /\ a = {},
         o \in Waits => w = {} /\ a = {d},
         o \in Lives => l = {d},
         s = "destroying" /\ o \notin AtWork => w = {} /\ a = {}
  PROVE  SlotCases(d, w, a, l,
                   IF s \in AtWork THEN (w \ {d}) \cup {d} ELSE w \ {d},
                   IF s \in Waits THEN (a \ {d}) \cup {d} ELSE a \ {d},
                   IF s \in Lives /\ o # s THEN {d} ELSE IF s \in Lives THEN l ELSE l \ {d})
<1> DEFINE x == IF s \in AtWork THEN (w \ {d}) \cup {d} ELSE w \ {d}
           b == IF s \in Waits THEN (a \ {d}) \cup {d} ELSE a \ {d}
           m == IF s \in Lives /\ o # s THEN {d} ELSE IF s \in Lives THEN l ELSE l \ {d}
<1>1. CASE o = s
      <2>1. x = w /\ b = a /\ m = l  BY <1>1
      <2>2. QED  BY <2>1 DEF SlotCases
<1>2. CASE o = "planning" /\ s = "awaiting_approval"
      <2>1. w = {d} /\ x = {} /\ b = {d} /\ m = l  BY <1>2 DEF AtWork, Waits, Lives
      <2>2. QED  BY <2>1 DEF SlotCases
<1>3. CASE o = "awaiting_approval" /\ s = "applying"
      <2>1. a = {d} /\ x = {d} /\ b = {} /\ m = l  BY <1>3 DEF AtWork, Waits, Lives
      <2>2. QED  BY <2>1 DEF SlotCases
<1>4. CASE o = "applying" /\ s = "applied"
      <2>1. w = {d} /\ a = {} /\ x = {} /\ b = {} /\ m = {d}
            BY <1>4 DEF AtWork, Waits, Lives
      <2>2. QED  BY <2>1 DEF SlotCases
<1>5. CASE s = "destroying" /\ o \notin AtWork
      <2>1. w = {} /\ a = {} /\ x = {d} /\ b = {} /\ m = l \ {d}
            BY <1>5 DEF AtWork, Waits, Lives
      <2>2. QED  BY <2>1 DEF SlotCases
<1>6. CASE o \in AtWork /\ s \notin AtWork \cup Waits \cup Lives
      <2>1. x = {} /\ b = {} /\ m = l  BY <1>6 DEF AtWork, Waits, Lives
      <2>2. QED  BY <2>1 DEF SlotCases
<1>7. CASE o \in Waits /\ s \notin AtWork \cup Waits \cup Lives
      <2>1. x = {} /\ b = {} /\ m = l  BY <1>7 DEF AtWork, Waits, Lives
      <2>2. QED  BY <2>1 DEF SlotCases
<1>8. CASE o \in Lives /\ s \notin AtWork \cup Waits \cup Lives
      <2>1. x = w /\ b = a /\ m = {}  BY <1>8 DEF AtWork, Waits, Lives
      <2>2. QED  BY <2>1 DEF SlotCases
<1>9. CASE /\ o \notin AtWork \cup Waits \cup Lives
           /\ s \notin AtWork \cup Waits \cup Lives
      <2>1. x = w /\ b = a /\ m = l  BY <1>9
      <2>2. QED  BY <2>1 DEF SlotCases
<1>10. \/ o = s
       \/ o = "planning" /\ s = "awaiting_approval"
       \/ o = "awaiting_approval" /\ s = "applying"
       \/ o = "applying" /\ s = "applied"
       \/ s = "destroying" /\ o \notin AtWork
       \/ s \notin AtWork \cup Waits \cup Lives
       BY DEF CanTransition, allowedTransitions, AtWork, Waits, Lives
<1>11. QED  BY <1>1, <1>2, <1>3, <1>4, <1>5, <1>6, <1>7, <1>8, <1>9, <1>10

LEMMA MovesSlot ==
  ASSUME TypeOK, OnePerChat, NEW d \in Deps, NEW s \in Status, Moves(d, s)
  PROVE  SlotStep
<1> DEFINE o == dep[d].status
           W == InSlot(AtWork)
           A == InSlot(Waits)
           L == InSlot(Lives)
<1>1. PICK c \in Chats : c = ChatOf[d]  BY IdsAssumption
<1>2. d \in OfChat(c)  BY <1>1 DEF OfChat
<1>3. o = s \/ (CanTransition(o, s) /\ ~IndexRejects(d, s))  BY DEF Moves, Accepts
<1>4. s # "applied" \/ o = s => Superseded(d, s) = {}  BY DEF Superseded
<1>5. /\ W' = [W EXCEPT ![c] = IF s \in AtWork THEN Left(AtWork, d, s) \cup {d}
                                              ELSE Left(AtWork, d, s)]
      /\ A' = [A EXCEPT ![c] = IF s \in Waits THEN Left(Waits, d, s) \cup {d}
                                             ELSE Left(Waits, d, s)]
      /\ L' = [L EXCEPT ![c] = IF s \in Lives THEN Left(Lives, d, s) \cup {d}
                                             ELSE Left(Lives, d, s)]
      BY <1>1, MovedSlot DEF AtWork, Waits, Lives
<1>6. /\ Left(AtWork, d, s) = W[c] \ (Superseded(d, s) \cup {d})
      /\ Left(Waits, d, s) = A[c] \ (Superseded(d, s) \cup {d})
      /\ Left(Lives, d, s) = L[c] \ (Superseded(d, s) \cup {d})
      BY <1>1 DEF Left
<1>7. /\ d \in W[c] <=> o \in AtWork
      /\ d \in A[c] <=> o \in Waits
      /\ d \in L[c] <=> o \in Lives
      BY <1>2, InSlotMember
<1>8. /\ o \in AtWork => W[c] = {d} /\ A[c] = {}
      /\ o \in Waits => W[c] = {} /\ A[c] = {d}
      /\ o \in Lives => L[c] = {d}
      BY <1>1, AloneInSlot
<1>9. \A e \in Superseded(d, s) : e \notin W[c] /\ e \notin A[c]
      BY <1>1, InSlotMember DEF Superseded, AtWork, Waits
<1>10. s = "destroying" /\ o \notin AtWork => W[c] = {} /\ A[c] = {}
       <2>1. SUFFICES ASSUME s = "destroying", o \notin AtWork  PROVE W[c] = {} /\ A[c] = {}
             OBVIOUS
       <2>2. ~IndexRejects(d, s) /\ CanTransition(o, s)  BY <1>3, <2>1 DEF AtWork
       <2>3. \A e \in OfChat(c) \ {d} : dep[e].status \notin InFlight
             BY <1>1, <2>1, <2>2 DEF IndexRejects, InFlight
       <2>4. o \notin Waits  BY <2>1, <2>2 DEF CanTransition, allowedTransitions, Waits
       <2>5. AtWork \cup Waits = InFlight  BY DEF InFlight, AtWork, Waits
       <2>6. QED  BY <2>1, <2>3, <2>4, <2>5, InSlotMember
<1> DEFINE S == Superseded(d, s)
<1>11. W' = [W EXCEPT ![c] = IF s \in AtWork THEN (W[c] \ {d}) \cup {d} ELSE W[c] \ {d}]
       BY <1>5, <1>6, <1>9
<1>12. A' = [A EXCEPT ![c] = IF s \in Waits THEN (A[c] \ {d}) \cup {d} ELSE A[c] \ {d}]
       BY <1>5, <1>6, <1>9
<1>13. L' = [L EXCEPT ![c] = IF s \in Lives /\ o # s THEN {d}
                             ELSE IF s \in Lives THEN L[c] ELSE L[c] \ {d}]
       <2>1. CASE s = "applied" /\ o # s
             <3>1. \A e \in L[c] \ {d} : e \in Superseded(d, s)
                   BY <1>1, <2>1, InSlotMember DEF Superseded, Lives
             <3>2. L[c] \ (Superseded(d, s) \cup {d}) = {}  BY <3>1
             <3>3. QED  BY <1>5, <1>6, <2>1, <3>2 DEF Lives
       <2>2. CASE s = "applied" /\ o = s
             BY <1>4, <1>5, <1>6, <1>8, <2>2 DEF Lives
       <2>3. CASE s # "applied"  BY <1>4, <1>5, <1>6, <2>3 DEF Lives
       <2>4. QED  BY <2>1, <2>2, <2>3
<1>14. SlotCases(d, W[c], A[c], L[c],
                 IF s \in AtWork THEN (W[c] \ {d}) \cup {d} ELSE W[c] \ {d},
                 IF s \in Waits THEN (A[c] \ {d}) \cup {d} ELSE A[c] \ {d},
                 IF s \in Lives /\ o # s THEN {d} ELSE IF s \in Lives THEN L[c] ELSE L[c] \ {d})
       <2> HIDE DEF W, A, L, o
       <2> QED  BY <1>3, <1>7, <1>8, <1>10, LegalSlotCase
<1>15. /\ W' = [W EXCEPT ![c] = W'[c]]
       /\ A' = [A EXCEPT ![c] = A'[c]]
       /\ L' = [L EXCEPT ![c] = L'[c]]
       BY <1>5 DEF InSlot
<1>16. SlotCases(d, W[c], A[c], L[c], W'[c], A'[c], L'[c])
       <2>1. c \in DOMAIN W /\ c \in DOMAIN A /\ c \in DOMAIN L  BY DEF InSlot
       <2>2. /\ W'[c] = IF s \in AtWork THEN (W[c] \ {d}) \cup {d} ELSE W[c] \ {d}
             /\ A'[c] = IF s \in Waits THEN (A[c] \ {d}) \cup {d} ELSE A[c] \ {d}
             /\ L'[c] = IF s \in Lives /\ o # s THEN {d}
                        ELSE IF s \in Lives THEN L[c] ELSE L[c] \ {d}
             <3> HIDE DEF W, A, L, o
             <3> QED  BY <1>11, <1>12, <1>13, <2>1
       <2>3. QED  BY <1>14, <2>2
<1>17. OnlyIn(c)  BY <1>15 DEF OnlyIn
<1>18. QED  BY <1>1, <1>16, <1>17, SlotSteps

LEMMA CreateSlot ==
  ASSUME TypeOK, NEW c \in Chats, Create(c)
  PROVE  SlotStep
<1> DEFINE d == NewDep(c)
<1>1. d \in Deps /\ ChatOf[d] = c /\ dep[d].status = "none"
      BY NewDepUnused DEF Create
<1>2. \A e \in Deps : dep'[e].status = IF e = d THEN "planning"
                      ELSE IF ChatOf[e] = c /\ dep[e].status = "awaiting_approval"
                           THEN "cancelled" ELSE dep[e].status
      BY DEF Create, TypeOK, DepRow
<1>3. \A e \in OfChat(c) : dep[e].status \notin AtWork
      BY DEF Create, InFlight, AtWork
<1> HIDE DEF d
<1>4. d \in OfChat(c)  BY <1>1 DEF OfChat
<1>5. \A b \in Chats \ {c} : \A e \in OfChat(b) : dep'[e].status = dep[e].status
      BY <1>1, <1>2 DEF OfChat
<1>6. \A e \in OfChat(c) : dep'[e].status = IF e = d THEN "planning"
                           ELSE IF dep[e].status = "awaiting_approval"
                           THEN "cancelled" ELSE dep[e].status
      BY <1>2 DEF OfChat
<1>7. \A S : \A b \in Chats \ {c} : InSlot(S)'[b] = InSlot(S)[b]
      <2> SUFFICES ASSUME NEW S, NEW b \in Chats \ {c}  PROVE InSlot(S)'[b] = InSlot(S)[b]
          OBVIOUS
      <2>1. InSlot(S)'[b] = {e \in OfChat(b) : dep'[e].status \in S}  BY InSlotMember
      <2>2. InSlot(S)[b] = {e \in OfChat(b) : dep[e].status \in S}  BY InSlotMember
      <2>3. QED  BY <1>5, <2>1, <2>2
<1>8. \A S : /\ DOMAIN InSlot(S) = Chats
             /\ InSlot(S) = [b \in Chats |-> InSlot(S)[b]]
             /\ InSlot(S)' = [b \in Chats |-> InSlot(S)'[b]]
      BY DEF InSlot
<1>9. \A S : InSlot(S)' = [InSlot(S) EXCEPT ![c] = InSlot(S)'[c]]
      BY <1>7, <1>8
<1>10. InSlot(AtWork)[c] = {} /\ d \notin InSlot(Waits)[c] \cup InSlot(Lives)[c]
       BY <1>1, <1>3, InSlotMember DEF Waits, Lives
<1>11. InSlot(AtWork)'[c] = {d} /\ InSlot(Waits)'[c] = {}
       <2>1. \A e \in OfChat(c) : /\ dep'[e].status \in AtWork <=> e = d
                                  /\ dep'[e].status \notin Waits
             BY <1>3, <1>6 DEF AtWork, Waits
       <2>2. QED  BY <1>4, <2>1, InSlotMember
<1>12. InSlot(Lives)'[c] = InSlot(Lives)[c]
       <2>1. \A e \in OfChat(c) : dep'[e].status \in Lives <=> dep[e].status \in Lives
             BY <1>1, <1>6 DEF Lives
       <2>2. InSlot(Lives)'[c] = {e \in OfChat(c) : dep'[e].status \in Lives}
             BY InSlotMember
       <2>3. InSlot(Lives)[c] = {e \in OfChat(c) : dep[e].status \in Lives}
             BY InSlotMember
       <2>4. QED  BY <2>1, <2>2, <2>3
<1>13. SlotCases(d, InSlot(AtWork)[c], InSlot(Waits)[c], InSlot(Lives)[c],
                 InSlot(AtWork)'[c], InSlot(Waits)'[c], InSlot(Lives)'[c])
       BY <1>10, <1>11, <1>12 DEF SlotCases
<1>14. OnlyIn(c)  BY <1>9 DEF OnlyIn
<1>15. QED  BY <1>1, <1>13, <1>14, SlotSteps

LEMMA InitSlot == Init => Slot!SlotInit
<1> SUFFICES ASSUME Init  PROVE Slot!SlotInit  OBVIOUS
<1>1. \A c \in Chats : \A d \in OfChat(c) : dep[d].status = "none"
      BY DEF Init, OfChat
<1>2. ASSUME NEW S, "none" \notin S  PROVE InSlot(S) = [c \in Chats |-> {}]
      BY <1>1, <1>2 DEF InSlot
<1>3. QED  BY <1>2 DEF Slot!SlotInit

(* Whatever users, workers and faults do, the tables give every chat what    *)
(* ChatSlot promises it: statements that follow one another in a request or  *)
(* a job, and those of others between them, never show the chat two          *)
(* deployments at work, nor one that is live without having been at work.    *)
THEOREM TablesImplementSlot == Spec => ImplementsSlot
<1>1. TypeOK /\ OnePerChat /\ [Next]_vars => SlotStep
      <2> SUFFICES ASSUME TypeOK, OnePerChat, [Next]_vars  PROVE SlotStep  OBVIOUS
      <2>1. CASE Stays
            <3>1. \A c \in Chats : \A d \in OfChat(c) : dep'[d].status = dep[d].status
                  BY <2>1 DEF Stays, OfChat
            <3>2. ASSUME NEW S  PROVE InSlot(S)' = InSlot(S)  BY <3>1 DEF InSlot
            <3>3. UNCHANGED Slot!slotVars  BY <3>2 DEF Slot!slotVars
            <3>4. QED  BY <3>3 DEF SlotStep
      <2>2. QED  BY <2>1, StatusSteps, MovesSlot, CreateSlot
<1>2. QED  BY <1>1, InitSlot, TypeCorrect, OnePerChatHolds, PTL
           DEF Spec, SlotStep, ImplementsSlot, Slot!SlotSpec

===============================================================================
