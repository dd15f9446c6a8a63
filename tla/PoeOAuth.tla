------------------------------ MODULE PoeOAuth ------------------------------
(***************************************************************************)
(* The PoE OAuth session of poe-info-service (internal/server/poe_oauth.go *)
(* over the OS credential store and the accounts table): interactive       *)
(* logins, the background refresh driven by a timer, and logouts, each a   *)
(* goroutine that takes poeOAuth.mu for a few short sections and works     *)
(* unlocked in between.                                                    *)
(*                                                                         *)
(* A token is the account it belongs to.  Timers may fire as soon as they  *)
(* are armed and a token may be past its refresh window at any refresh:    *)
(* every timing is a possible one.  lastError steers nothing and is left   *)
(* out.                                                                    *)
(***************************************************************************)
EXTENDS Naturals, FiniteSets

CONSTANTS
  Account,      (* the PoE accounts a user may sign in with                *)
  None,         (* no token, no timer, no account                          *)
  MayFail,      (* whether the OS credential store may refuse              *)
  MaxTimers,    (* bound: refresh timers ever armed                        *)
  MaxLogins,    (* bound: login flows ever started                         *)
  MaxLogouts,   (* bound: logouts ever requested                           *)
  MaxRestarts   (* bound: how often the service is started again           *)

ASSUME OAuthAssumption ==
  /\ None \notin Account
  /\ MayFail \in BOOLEAN
  /\ MaxTimers \in Nat /\ MaxLogins \in Nat /\ MaxLogouts \in Nat
  /\ MaxRestarts \in Nat
  /\ None \notin {"refresh", "login", "logout"} \X Nat

VARIABLES
  token,         (* poeOAuth.token                                         *)
  inProgress,    (* poeOAuth.inProgress                                    *)
  refreshTimer,  (* poeOAuth.refreshTimer                                  *)
  cred,          (* the token in the credential store                      *)
  active,        (* accounts with oauth_authenticated_at set               *)
  shown,         (* the status last published                              *)
  pc,            (* where each goroutine is; a timer starts out "armed"    *)
  tok,           (* its local token                                        *)
  view,          (* the snapshot it is about to publish                    *)
  next,          (* what it does after publishing                          *)
  used,          (* how many timers, logins and logouts there have been    *)
  restarts,      (* how often the service was started again                *)
  loggedOut      (* history: a logout since, and no login begun or pending *)

vars == <<token, inProgress, refreshTimer, cred, active, shown, pc, tok, view,
          next, used, restarts, loggedOut>>

Refreshes == {"refresh"} \X (1 .. MaxTimers)
Logins    == {"login"}   \X (1 .. MaxLogins)
Logouts   == {"logout"}  \X (1 .. MaxLogouts)
Proc      == Refreshes \cup Logins \cup Logouts

Status == <<token, inProgress>>      \* poeOAuthSnapshot

Init ==
  /\ token = None /\ inProgress = FALSE /\ refreshTimer = None
  /\ cred = None /\ active = {} /\ shown = <<None, FALSE>>
  /\ pc = [p \in Proc |-> "none"]
  /\ tok = [p \in Proc |-> None]
  /\ view = [p \in Proc |-> <<None, FALSE>>]
  /\ next = [p \in Proc |-> "done"]
  /\ used = [refresh |-> 0, login |-> 0, logout |-> 0]
  /\ restarts = 0
  /\ loggedOut = FALSE

-----------------------------------------------------------------------------
(* Publishing: the state is copied under the lock and published after it.  *)

(* p is done with the state; it will publish and then do n.                *)
Tells(p, n) ==
  /\ pc' = [pc EXCEPT ![p] = "telling"]
  /\ next' = [next EXCEPT ![p] = n]

TakeSnapshot(p) ==
  /\ pc[p] = "telling"
  /\ view' = [view EXCEPT ![p] = Status]
  /\ pc' = [pc EXCEPT ![p] = "publishing"]
  /\ UNCHANGED <<token, inProgress, refreshTimer, cred, active, shown, tok, next,
                 used, restarts, loggedOut>>

PublishStatus(p) ==
  /\ pc[p] = "publishing"
  /\ shown' = view[p]
  /\ view' = [view EXCEPT ![p] = <<None, FALSE>>]
  /\ pc' = [pc EXCEPT ![p] = next[p]]
  /\ UNCHANGED <<token, inProgress, refreshTimer, cred, active, tok, next, used,
                 restarts, loggedOut>>

-----------------------------------------------------------------------------
(* Timers.                                                                 *)

NewTimer == <<"refresh", used.refresh + 1>>

(* time.AfterFunc, with what becomes of the goroutine p that calls it.     *)
ArmTimer(others) ==
  /\ used.refresh < MaxTimers
  /\ used' = [used EXCEPT !.refresh = @ + 1]
  /\ refreshTimer' = NewTimer
  /\ pc' = [others EXCEPT ![NewTimer] = "armed"]

(* refreshTimer.Stop(), which does nothing once the timer has fired.       *)
Stopped == [p \in Proc |->
              IF p = refreshTimer /\ pc[p] = "armed" THEN "stopped" ELSE pc[p]]

(* schedulePoeOAuthRefresh, the last thing a login or a refresh does.      *)
Schedule(p) ==
  /\ pc[p] = "schedule"
  /\ ArmTimer([Stopped EXCEPT ![p] = "done"])
  /\ UNCHANGED <<token, inProgress, cred, active, shown, tok, view, next, restarts,
                 loggedOut>>

-----------------------------------------------------------------------------
(* runPoeOAuthRefresh.                                                     *)

(* Without a token there is nothing to refresh.                            *)
NilUnchecked == {"refreshing", "past"}                          \* mutant
Afterwards == IF token = None THEN {"done"} ELSE {"refreshing", "past"}

TimerFires(p) ==
  /\ p \in Refreshes /\ pc[p] = "armed"
  /\ tok' = [tok EXCEPT ![p] = token]
  /\ \E then \in Afterwards : pc' = [pc EXCEPT ![p] = then]
  /\ UNCHANGED <<token, inProgress, refreshTimer, cred, active, shown, view, next,
                 used, restarts, loggedOut>>

(* Past the refresh window: the user must sign in again.                   *)
DropToken(p) ==
  /\ pc[p] = "past"
  /\ token' = None
  /\ pc' = [pc EXCEPT ![p] = "clearing"]
  /\ UNCHANGED <<inProgress, refreshTimer, cred, active, shown, tok, view, next,
                 used, restarts, loggedOut>>

RefreshSucceeds(p) ==
  /\ pc[p] = "refreshing"
  /\ pc' = [pc EXCEPT ![p] = "got"]
  /\ UNCHANGED <<token, inProgress, refreshTimer, cred, active, shown, tok, view,
                 next, used, restarts, loggedOut>>

(* The retry timer replaces refreshTimer without stopping it.              *)
NoRetry(others) ==                                              \* mutant
  pc' = others /\ UNCHANGED <<used, refreshTimer>>
Retry(others) == ArmTimer(others)

RefreshFails(p) ==
  /\ pc[p] = "refreshing"
  /\ Retry([pc EXCEPT ![p] = "telling"])
  /\ next' = [next EXCEPT ![p] = "done"]
  /\ UNCHANGED <<token, inProgress, cred, active, shown, tok, view, restarts,
                 loggedOut>>

-----------------------------------------------------------------------------
(* handlePoeOAuthLogin and runPoeOAuthLogin.                               *)

MayStartAlways == TRUE                                          \* mutant
MayStart == ~inProgress

StartLogin ==
  /\ used.login < MaxLogins
  /\ MayStart
  /\ used' = [used EXCEPT !.login = @ + 1]
  /\ inProgress' = TRUE
  /\ loggedOut' = FALSE
  /\ Tells(<<"login", used.login + 1>>, "browser")
  /\ UNCHANGED <<token, refreshTimer, cred, active, shown, tok, view, restarts>>

(* poe.Login came back with a token; the flow is over before it is stored. *)
LoginSucceeds(p, a) ==
  /\ pc[p] = "browser"
  /\ tok' = [tok EXCEPT ![p] = a]
  /\ inProgress' = FALSE
  /\ pc' = [pc EXCEPT ![p] = "got"]
  /\ UNCHANGED <<token, refreshTimer, cred, active, shown, view, next, used,
                 restarts, loggedOut>>

(* The flag is reset whether or not there is a token.                      *)
NotInProgress == FALSE

(* An error, or no answer from the browser.                                *)
LoginFails(p) ==
  /\ pc[p] = "browser"
  /\ inProgress' = NotInProgress
  /\ Tells(p, "done")
  /\ UNCHANGED <<token, refreshTimer, cred, active, shown, tok, view, used,
                 restarts, loggedOut>>

-----------------------------------------------------------------------------
(* What a login and a refresh do with their token, one statement at a time.*)

SaveToken(p) ==
  /\ pc[p] = "got"
  /\ cred' \in {tok[p]} \cup (IF MayFail THEN {cred} ELSE {})
  /\ pc' = [pc EXCEPT ![p] = "saved"]
  /\ UNCHANGED <<token, inProgress, refreshTimer, active, shown, tok, view, next,
                 used, restarts, loggedOut>>

(* upsertOAuthAccount: no other account's flag is reset.                   *)
RecordAccount(p) ==
  /\ pc[p] = "saved"
  /\ active' = active \cup {tok[p]}
  /\ pc' = [pc EXCEPT ![p] = "recorded"]
  /\ UNCHANGED <<token, inProgress, refreshTimer, cred, shown, tok, view, next,
                 used, restarts, loggedOut>>

SetToken(p) ==
  /\ pc[p] = "recorded"
  /\ token' = tok[p]
  /\ Tells(p, "schedule")
  /\ UNCHANGED <<inProgress, refreshTimer, cred, active, shown, tok, view, used,
                 restarts, loggedOut>>

-----------------------------------------------------------------------------
(* handlePoeOAuthLogout.                                                   *)

Logout ==
  LET p == <<"logout", used.logout + 1>> IN
  /\ used.logout < MaxLogouts
  /\ used' = [used EXCEPT !.logout = @ + 1]
  /\ refreshTimer' = None
  /\ tok' = [tok EXCEPT ![p] = token]
  /\ token' = None
  /\ pc' = [Stopped EXCEPT ![p] = "clearing"]
  /\ loggedOut' = \A l \in Logins : pc[l] \in {"none", "done"}
  /\ UNCHANGED <<inProgress, cred, active, shown, view, next, restarts>>

(* A refresh that dropped its token only publishes; a logout goes on to    *)
(* the account row, and gives up without publishing if the store refuses.  *)
ClearCredential(p) ==
  /\ pc[p] = "clearing"
  /\ \/ /\ cred' = None
        /\ IF p \in Refreshes
             THEN Tells(p, "done")
             ELSE pc' = [pc EXCEPT ![p] = "deactivating"] /\ UNCHANGED next
     \/ /\ MayFail /\ UNCHANGED cred
        /\ IF p \in Refreshes
             THEN Tells(p, "done")
             ELSE pc' = [pc EXCEPT ![p] = "done"] /\ UNCHANGED next
  /\ UNCHANGED <<token, inProgress, refreshTimer, active, shown, tok, view, used,
                 restarts, loggedOut>>

Deactivate(p) ==
  /\ pc[p] = "deactivating"
  /\ active' = active \ {tok[p]}
  /\ Tells(p, "done")
  /\ UNCHANGED <<token, inProgress, refreshTimer, cred, shown, tok, view, used,
                 restarts, loggedOut>>

-----------------------------------------------------------------------------
(* The process ends and is started again: hydratePoeOAuthToken.            *)
Restart ==
  /\ restarts < MaxRestarts
  /\ restarts' = restarts + 1
  /\ inProgress' = FALSE
  /\ tok' = [p \in Proc |-> None]
  /\ view' = [p \in Proc |-> <<None, FALSE>>]
  /\ next' = [p \in Proc |-> "done"]
  /\ \/ /\ cred # None
        /\ token' = cred
        /\ ArmTimer([p \in Proc |-> "done"])
        /\ UNCHANGED cred
     \/ /\ token' = None /\ cred' = None
        /\ refreshTimer' = None
        /\ pc' = [p \in Proc |-> "done"]
        /\ UNCHANGED used
  /\ shown' = <<token', FALSE>>
  /\ UNCHANGED <<active, loggedOut>>

-----------------------------------------------------------------------------
RefreshNext(p) == TimerFires(p) \/ DropToken(p) \/ RefreshSucceeds(p)
                  \/ RefreshFails(p)

(* poe.Login stops waiting for the browser after five minutes.             *)
WaitsForever(p) == FALSE                                        \* mutant
TimesOut(p) == LoginFails(p)

LoginNext(p) == (\E a \in Account : LoginSucceeds(p, a)) \/ LoginFails(p)

Finishes(p) == SaveToken(p) \/ RecordAccount(p) \/ SetToken(p) \/ Schedule(p)
               \/ ClearCredential(p) \/ Deactivate(p)
               \/ TakeSnapshot(p) \/ PublishStatus(p)

Next ==
  \/ \E p \in Proc : RefreshNext(p) \/ LoginNext(p) \/ Finishes(p)
  \/ StartLogin \/ Logout \/ Restart

Spec == Init /\ [][Next]_vars

(* Goroutines run; Refresh ends within 30 s, one way or the other, and a   *)
(* login at the latest when its time is up.  Nobody has to log in or out,  *)
(* nor to answer in the browser.                                           *)
Fairness ==
  \A p \in Proc : WF_vars(RefreshNext(p) \/ TimesOut(p) \/ Finishes(p))

FairSpec == Spec /\ Fairness

-----------------------------------------------------------------------------
Stages == {"none", "armed", "stopped", "refreshing", "past", "clearing", "got",
           "saved", "recorded", "schedule", "browser", "deactivating", "telling",
           "publishing", "done"}

TypeOK ==
  /\ token \in Account \cup {None} /\ cred \in Account \cup {None}
  /\ inProgress \in BOOLEAN /\ loggedOut \in BOOLEAN
  /\ refreshTimer \in Refreshes \cup {None}
  /\ active \subseteq Account
  /\ shown \in (Account \cup {None}) \X BOOLEAN
  /\ pc \in [Proc -> Stages]
  /\ tok \in [Proc -> Account \cup {None}]
  /\ view \in [Proc -> (Account \cup {None}) \X BOOLEAN]
  /\ next \in [Proc -> {"browser", "schedule", "done"}]
  /\ used \in [refresh : 0 .. MaxTimers, login : 0 .. MaxLogins,
               logout : 0 .. MaxLogouts]
  /\ restarts \in 0 .. MaxRestarts

(* A goroutine in the middle of a login attempt, before its outcome.       *)
InFlow(p) ==
  pc[p] = "browser" \/ (pc[p] \in {"telling", "publishing"} /\ next[p] = "browser")

(* inProgress is set exactly while one browser flow runs, and there are    *)
(* never two, however logins, failures and restarts interleave: a client   *)
(* told "started": false has somebody's outcome to wait for.               *)
OneLoginFlow ==
  /\ inProgress <=> \E p \in Logins : InFlow(p)
  /\ \A p, q \in Logins : InFlow(p) /\ InFlow(q) => p = q

(* A goroutine that will arm a refresh timer or drop the token, or a timer.*)
Refreshing(p) ==
  \/ pc[p] \in {"armed", "refreshing", "past", "got", "saved", "recorded", "schedule"}
  \/ pc[p] \in {"telling", "publishing"} /\ next[p] = "schedule"

(* Whatever timers were stopped, overwritten or lost with the process, a   *)
(* token in memory always has its refresh ahead of it: it can never run    *)
(* out while the service is up because nobody is left to renew it.         *)
RefreshPending == token # None => \E p \in Proc : Refreshing(p)

(* Every login attempt ends, so that the next one can start.               *)
LoginEnds == inProgress ~> ~inProgress

-----------------------------------------------------------------------------
(* Logout "discards the in-memory and persisted token and cancels any      *)
(* pending refresh" (a comment of poe_oauth.go): nothing signs in again by *)
(* itself.  It does not hold.                                              *)
LogoutIsFinal == loggedOut => token = None
=============================================================================
