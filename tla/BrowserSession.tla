---------------------------- MODULE BrowserSession -----------------------------
(***************************************************************************)
(* The tabs of one browser on one session: src/lib/client.ts, tokens.ts and *)
(* auth.tsx of the frontend against the server's RefreshTokens.  The tabs   *)
(* share localStorage; each has one refresh in flight at most, which its    *)
(* calls wait for.  Requests and answers take time, may be lost, or stall   *)
(* in the middle of their body.  A tab is one load of the page.            *)
(***************************************************************************)
EXTENDS RefreshTokens, FiniteSets

CONSTANTS
  Tabs,     \* each has one refresh under way at most: Requests is Tabs
  NoTab,
  MaxLost   \* bound on the requests and answers that are lost

ASSUME TabsAssumption == Requests = Tabs /\ MaxLost \in Nat

VARIABLES
  stored,     \* the refresh token in localStorage
  refresh,    \* per tab: where its refresh is, the token presented, the answer
  waiting,    \* tabs in which calls wait for the refresh
  bare,       \* tabs with calls under way that have no session to show
  logout,     \* where the logout under way is, its tab, the token it names
  cleared,    \* tabs with a storage event to come: the token was removed
  presented,  \* history: the tokens each tab has presented
  lost        \* requests and answers lost so far

vars == <<rows, txn, cut, stored, refresh, waiting, bare, logout, cleared, presented, lost>>

Idle == [pc |-> "idle", old |-> NoToken, new |-> NoToken]
Quiet == [pc |-> "idle", tab |-> NoTab, old |-> NoToken]

Init ==
  /\ TokensInit
  /\ stored = NoToken
  /\ refresh = [t \in Tabs |-> Idle]
  /\ waiting = {}
  /\ bare = {}
  /\ logout = Quiet
  /\ cleared = {}
  /\ presented = [t \in Tabs |-> {}]
  /\ lost = 0

(* Tokens are random: which one is new makes no difference. *)
NewToken == CHOOSE t \in Unused : TRUE

(* The bound on tokens leaves one for every refresh under way, and n more. *)
Spare(n) ==
  Cardinality(Unused) >= n + Cardinality({t \in Tabs : refresh[t].pc = "sent"})

Sent(t) == refresh[t].pc = "sent"
Lose == lost < MaxLost /\ lost' = lost + 1

-------------------------------------------------------------------------------
(* Storage *)

(* A removal is announced to the other tabs, if there was something there. *)
StorageEvents(t) == IF stored # NoToken THEN cleared \cup (Tabs \ {t}) ELSE cleared

(* loseSession *)
LoseSession(t) ==
  /\ stored' = NoToken
  /\ cleared' = StorageEvents(t)

(* watchCrossTabLogout: the event comes whenever the browser delivers it. *)
CrossTabLogout(t) ==
  /\ t \in cleared
  /\ stored' = NoToken
  /\ cleared' = StorageEvents(t) \ {t}
  /\ UNCHANGED <<rows, txn, cut, refresh, waiting, bare, logout, presented, lost>>

-------------------------------------------------------------------------------
(* Signing in and out *)

(* login, signup: the answer is stored. *)
Login(t) ==
  /\ stored = NoToken /\ logout.pc = "idle"
  /\ Spare(1)
  /\ Issue(NewToken)
  /\ stored' = NewToken
  /\ UNCHANGED <<refresh, waiting, bare, logout, cleared, presented, lost>>

(* logout names the stored token to the server ... *)
LogoutStart(t) ==
  /\ stored # NoToken /\ logout.pc = "idle"
  /\ logout' = [pc |-> "sent", tab |-> t, old |-> stored]
  /\ UNCHANGED <<rows, txn, cut, stored, refresh, waiting, bare, cleared, presented, lost>>

LogoutArrives(t) ==
  /\ logout.tab = t /\ logout.pc = "sent"
  /\ Revoke(logout.old)
  /\ logout' = [logout EXCEPT !.pc = "done"]
  /\ UNCHANGED <<stored, refresh, waiting, bare, cleared, presented, lost>>

LogoutLost(t) ==
  /\ logout.tab = t /\ logout.pc = "sent"
  /\ Lose
  /\ logout' = [logout EXCEPT !.pc = "done"]
  /\ UNCHANGED <<rows, txn, cut, stored, refresh, waiting, bare, cleared, presented>>

(* ... and signs out locally whatever came of it. *)
LogoutEnds(t) ==
  /\ logout.tab = t /\ logout.pc = "done"
  /\ LoseSession(t)
  /\ logout' = Quiet
  /\ UNCHANGED <<rows, txn, cut, refresh, waiting, bare, presented, lost>>

-------------------------------------------------------------------------------
(* Refreshing *)

(* Mutant: inFlightRefresh is not consulted. *)
NeverInFlight(t) == FALSE

(* inFlightRefresh.  A promise that was rejected at once is never replaced. *)
InFlight(t) == refresh[t].pc # "idle"
Dead(t) == refresh[t].pc = "rejected"

(* refreshSession starts with the stored token. *)
Start(t) ==
  /\ stored # NoToken /\ Spare(1)
  /\ refresh' = [refresh EXCEPT ![t] = [pc |-> "sent", old |-> stored, new |-> NoToken]]
  /\ presented' = [presented EXCEPT ![t] = @ \cup {stored}]

(* With nothing stored it throws before its try, whose finally is what       *)
(* forgets a refresh that has ended.                                        *)
Reject(t) ==
  /\ stored = NoToken
  /\ refresh' = [refresh EXCEPT ![t].pc = "rejected"]
  /\ UNCHANGED presented

(* scheduleRefresh: the proactive timer, which a tab's own loss of the       *)
(* session stops, and another tab's only once its event has come.           *)
TimerRefresh(t) ==
  /\ ~InFlight(t)
  /\ Start(t) \/ (t \in cleared /\ Reject(t))
  /\ UNCHANGED <<rows, txn, cut, stored, waiting, bare, logout, cleared, lost>>

(* A call finds its access token expired, or is answered 401: it starts a   *)
(* refresh or joins the one in flight.                                      *)
CallRefresh(t) ==
  /\ t \notin waiting /\ ~Dead(t)
  /\ waiting' = waiting \cup {t}
  /\ IF InFlight(t) THEN UNCHANGED <<refresh, presented>> ELSE Start(t)
  /\ UNCHANGED <<rows, txn, cut, stored, bare, logout, cleared, lost>>

(* ensureFreshToken has no token for a call: another tab has removed it, or *)
(* it is expired and the refresh is refused at once.  The call goes out.    *)
CallBare(t) ==
  /\ t \notin bare
  /\ (stored = NoToken /\ t \in cleared) \/ (stored # NoToken /\ Dead(t))
  /\ bare' = bare \cup {t}
  /\ UNCHANGED <<rows, txn, cut, stored, refresh, waiting, logout, cleared, presented, lost>>

(* It is answered 401, and request calls refreshSession after all. *)
BareAnswered(t) ==
  /\ t \in bare
  /\ bare' = bare \ {t}
  /\ \/ /\ Dead(t)
        /\ UNCHANGED <<refresh, waiting, presented>>
     \/ /\ InFlight(t) /\ ~Dead(t)
        /\ waiting' = waiting \cup {t}
        /\ UNCHANGED <<refresh, presented>>
     \/ /\ ~InFlight(t)
        /\ Start(t)
        /\ waiting' = waiting \cup {t}
     \/ /\ ~InFlight(t)
        /\ Reject(t)
        /\ UNCHANGED waiting
  /\ UNCHANGED <<rows, txn, cut, stored, logout, cleared, lost>>

(* Mutant: the refresh itself is sent as an authenticated request, which    *)
(* waits for the refresh in flight when the access token has expired.       *)
AwaitsRefreshItself(t) == t \in waiting

(* authenticated: false *)
AwaitsRefresh(t) == FALSE

RefreshArrives(t) ==
  /\ Sent(t) /\ ~AwaitsRefresh(t)
  /\ RotateRead(t, refresh[t].old)
  /\ UNCHANGED <<stored, refresh, waiting, bare, logout, cleared, presented, lost>>

RefreshServed(t) ==
  LET ok == txn[t].outcome \in {"ok", "grace"}
  IN  /\ RotateWrite(t, NewToken)
      /\ refresh' = [refresh EXCEPT ![t].pc = IF ok THEN "ok" ELSE "failed",
                                    ![t].new = IF ok THEN NewToken ELSE NoToken]
      /\ UNCHANGED <<stored, waiting, bare, logout, cleared, presented, lost>>

(* The request does not arrive, the server fails before or after its commit, *)
(* nothing comes back within the timeout, or the connection breaks.          *)
RefreshLost(t) ==
  /\ refresh[t].pc \in {"sent", "ok", "stalled"}
  /\ Lose
  /\ IF Rotating(t) THEN RotateFails(t) ELSE UNCHANGED <<rows, txn, cut>>
  /\ refresh' = [refresh EXCEPT ![t].pc = "failed", ![t].new = NoToken]
  /\ UNCHANGED <<stored, waiting, bare, logout, cleared, presented>>

(* saveSession, or loseSession and never a retry.  The calls go on; after a  *)
(* failure those answered 401 end, and those that met an expired token go    *)
(* out without one.                                                         *)
Ends(t) ==
  /\ IF refresh[t].new # NoToken
     THEN stored' = refresh[t].new /\ UNCHANGED <<cleared, bare>>
     ELSE LoseSession(t) /\ bare' \in {bare, bare \cup (waiting \cap {t})}
  /\ refresh' = [refresh EXCEPT ![t] = Idle]
  /\ waiting' = waiting \ {t}
  /\ UNCHANGED <<rows, txn, cut, logout, presented, lost>>

RefreshEnds(t) == refresh[t].pc \in {"ok", "failed"} /\ Ends(t)

(* The headers of an answer are there, which ends the timeout, but not all   *)
(* of its body: text() and json() wait for that without one ...             *)
BodyStalls(t) ==
  /\ refresh[t].pc \in {"ok", "failed"}
  /\ refresh' = [refresh EXCEPT ![t].pc = "stalled"]
  /\ UNCHANGED <<rows, txn, cut, stored, waiting, bare, logout, cleared, presented, lost>>

(* ... and it may come yet. *)
BodyArrives(t) == refresh[t].pc = "stalled" /\ Ends(t)

-------------------------------------------------------------------------------

TimePasses ==
  /\ \E k \in Tokens : GraceEnds(k)
  /\ UNCHANGED <<stored, refresh, waiting, bare, logout, cleared, presented, lost>>

Next ==
  \/ TimePasses
  \/ \E t \in Tabs :
       \/ CrossTabLogout(t) \/ Login(t)
       \/ LogoutStart(t) \/ LogoutArrives(t) \/ LogoutLost(t) \/ LogoutEnds(t)
       \/ TimerRefresh(t) \/ CallRefresh(t) \/ CallBare(t) \/ BareAnswered(t)
       \/ RefreshArrives(t) \/ RefreshServed(t) \/ RefreshLost(t)
       \/ BodyStalls(t) \/ BodyArrives(t) \/ RefreshEnds(t)

Spec == Init /\ [][Next]_vars

-------------------------------------------------------------------------------
(* Properties *)

(* A tab never presents a refresh token twice, whatever is lost and however *)
(* many calls find the session expired at once: twice is what the server    *)
(* reads as theft once the grace period is over.                            *)
PresentedOnce ==
  [][\A t \in Tabs : (Start(t) /\ refresh'[t] # refresh[t]) => stored \notin presented[t]]_vars

(* Nothing keeps the refresh of tab t from its next step. *)
CanGoOn(t) ==
  ENABLED RefreshArrives(t) \/ ENABLED RefreshServed(t) \/ ENABLED RefreshEnds(t)

(* Calls and refreshes never wait for one another in a circle: of a refresh  *)
(* that calls wait for, the next step may be taken, or its rotation waits    *)
(* for another's at the server, which may.  Only the rest of an answer may   *)
(* be a wait for nobody: its timeout ends with the headers.                 *)
WaitersCanGoOn ==
  \A t \in waiting :
    \/ CanGoOn(t)
    \/ \E u \in Tabs \ {t} : Rotating(u) /\ CanGoOn(u)
    \/ refresh[t].pc = "stalled"

===============================================================================
