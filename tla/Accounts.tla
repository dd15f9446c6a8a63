------------------------------- MODULE Accounts -------------------------------
(***************************************************************************)
(* The accounts page of the settings (SettingsPage::buildAccountsPage) and *)
(* the three stores behind its buttons (util/PoeAccountStore.cpp,          *)
(* SteamAccountStore.cpp, PoeOAuthStore.cpp), which keep nothing: the      *)
(* service has the credentials and the sign-in, the page remembers only    *)
(* what it was told.                                                       *)
(*                                                                         *)
(* A button stays disabled until the first word from the service.  The     *)
(* windows in which the user signs in (PoeLoginWindow,                     *)
(* SteamKeyLoginWindow) are modal: while one is open no button is clicked. *)
(* The connection is ServiceLink's: requests are handled and answered one  *)
(* after the other; those that are out when it is lost, and those that     *)
(* were made without it, end with an error when it is next lost.           *)
(***************************************************************************)
EXTENDS Naturals, Sequences, SequencesExt

CONSTANTS
  Session, Key,   (* POESESSID and the Steam Web API key                   *)
  None,           (* no window                                             *)
  MaxLogins,      (* bound: clicks on buttons                              *)
  MaxLosses       (* bound: connections lost                               *)

Credential == {Session, Key}

VARIABLES
  built,          (* the page is built                                     *)
  enabled,        (* the buttons that are                                  *)
  has,            (* m_hasSession, m_hasSteamKey                           *)
  window,         (* the window that is open                               *)
  authorized,     (* m_poeOAuthAuthorized                                  *)
  inProgress,     (* m_poeOAuthInProgress                                  *)
  connected,
  unsent,         (* requests made without a connection                    *)
  toService,      (* requests on their way                                 *)
  toApp,          (* answers and events on theirs                          *)
  stored,         (* the service's credentials                             *)
  signIn,         (* its sign-in: "out", "login" (in the browser) or "in"  *)
  \* History and bounds.
  failed,         (* a request ended with an error                         *)
  overtaken,      (* a credential was deleted while a store of it was out  *)
  logins, losses

buttonVars  == <<enabled, has, authorized, inProgress>>
serviceVars == <<stored, signIn>>
linkVars    == <<connected, unsent, toService, toApp>>
boundVars   == <<failed, overtaken, logins, losses>>
accountVars == <<built, buttonVars, window, linkVars, serviceVars, boundVars>>

Verb == {"check", "store", "delete", "status", "login", "logout"}
Request(what, of) == [what |-> what, of |-> of]

Init ==
  /\ built = FALSE /\ enabled = {} /\ has = {} /\ window = None
  /\ authorized = FALSE /\ inProgress = FALSE
  /\ connected \in BOOLEAN
  /\ unsent = <<>> /\ toService = <<>> /\ toApp = <<>>
  /\ stored \in SUBSET Credential /\ signIn \in {"out", "in"}
  /\ failed = FALSE /\ overtaken = FALSE /\ logins = 0 /\ losses = 0

Sends(requests) ==
  /\ IF connected THEN toService' = toService \o requests /\ UNCHANGED unsent
                  ELSE unsent' = unsent \o requests /\ UNCHANGED toService
  /\ UNCHANGED <<connected, toApp>>

-----------------------------------------------------------------------------
(* The page.                                                               *)

buildAccountsPage ==
  /\ ~built /\ built' = TRUE
  /\ Sends(<<Request("check", Key), Request("check", Session), Request("status", None)>>)
  /\ UNCHANGED <<buttonVars, window, serviceVars, boundVars>>

Click(button) ==
  /\ button \in enabled /\ window = None
  /\ logins < MaxLogins /\ logins' = logins + 1

ClickLogin(c) ==
  /\ Click(c) /\ c \notin has
  /\ window' = Request("login", c)
  /\ UNCHANGED <<built, buttonVars, linkVars, serviceVars, failed, overtaken, losses>>

(* The window has found the credential in a page it loaded.                *)
Captured(c) ==
  /\ window = Request("login", c) /\ window' = None
  /\ Sends(<<Request("store", c)>>)
  /\ UNCHANGED <<built, buttonVars, serviceVars, boundVars>>

sessionCaptured == Captured(Session)
keyCaptured     == Captured(Key)

GivesUp ==
  /\ window # None /\ window.what = "login" /\ window' = None
  /\ UNCHANGED <<built, buttonVars, linkVars, serviceVars, boundVars>>

StillOut(c) ==
  \/ \E i \in DOMAIN toService : toService[i] = Request("store", c)
  \/ \E i \in DOMAIN toApp : toApp[i].what = "store" /\ toApp[i].of = c

LogsOut(c) ==
  /\ has' = has \ {c}
  /\ Sends(<<Request("delete", c)>>)
  /\ overtaken' = (overtaken \/ StillOut(c))
  /\ UNCHANGED <<built, enabled, authorized, inProgress, serviceVars, failed, losses>>

ClickLogoutKey == Click(Key) /\ Key \in has /\ LogsOut(Key) /\ UNCHANGED window

(* The session is deleted once the user has closed the site's window.      *)
ClickLogoutSession ==
  /\ Click(Session) /\ Session \in has
  /\ window' = Request("browse", Session)
  /\ UNCHANGED <<built, buttonVars, linkVars, serviceVars, failed, overtaken, losses>>

BrowseClosed ==
  /\ window = Request("browse", Session) /\ window' = None
  /\ LogsOut(Session) /\ UNCHANGED logins

(* updatePoeOAuthButton disables the button while a login is in progress.  *)
OAuthButton(busy) ==
  /\ inProgress' = busy
  /\ enabled' = IF busy THEN enabled \ {"oauth"} ELSE enabled \cup {"oauth"}

ClickOAuth ==
  /\ Click("oauth")
  /\ IF authorized THEN Sends(<<Request("logout", None)>>) /\ UNCHANGED <<enabled, inProgress>>
     ELSE OAuthButton(TRUE) /\ Sends(<<Request("login", None)>>)
  /\ UNCHANGED <<built, has, authorized, window, serviceVars, failed, overtaken, losses>>

-----------------------------------------------------------------------------
(* The service.                                                            *)

Answer(r, ok, value) == [what |-> r.what, of |-> r.of, ok |-> ok, value |-> value]
Pushed(s) == Answer(Request("push", None), TRUE, s)

(* What each request does; the store of the operating system may refuse.   *)
Handles(r) ==
  \/ /\ r.what \in {"check", "store", "delete"}
     /\ \E ok \in BOOLEAN :
          /\ stored' = CASE ~ok \/ r.what = "check" -> stored
                         [] ok /\ r.what = "store" -> stored \cup {r.of}
                         [] ok /\ r.what = "delete" -> stored \ {r.of}
          /\ failed' = (failed \/ ~ok)
          /\ toApp' = Append(toApp, Answer(r, ok, r.of \in stored))
     /\ UNCHANGED signIn
  \/ /\ r.what = "status"
     /\ toApp' = Append(toApp, Answer(r, TRUE, signIn))
     /\ UNCHANGED <<serviceVars, failed>>
  \/ /\ r.what = "login"
     /\ signIn' = "login"
     /\ toApp' = toApp \o IF signIn = "login" THEN <<Answer(r, TRUE, None)>>
                          ELSE <<Answer(r, TRUE, None), Pushed("login")>>
     /\ UNCHANGED <<stored, failed>>
  \/ /\ r.what = "logout"
     /\ signIn' = "out"
     /\ \/ toApp' = toApp \o <<Pushed("out"), Answer(r, TRUE, None)>>
        \/ toApp' = Append(toApp, Answer(r, FALSE, None))
     /\ UNCHANGED <<stored, failed>>

Handle ==
  /\ connected /\ toService # <<>> /\ toService' = Tail(toService)
  /\ Handles(Head(toService))
  /\ UNCHANGED <<built, buttonVars, window, connected, unsent, overtaken, logins, losses>>

(* The browser comes back, or never does.                                  *)
LoginFlowEnds ==
  /\ signIn = "login" /\ signIn' \in {"in", "out"}
  /\ toApp' = IF connected THEN Append(toApp, Pushed(signIn')) ELSE toApp
  /\ UNCHANGED <<built, buttonVars, window, connected, unsent, toService, stored, boundVars>>

-----------------------------------------------------------------------------
(* What the page makes of the answers.                                     *)

onStatus(s) ==
  /\ authorized' = (s = "in")
  /\ OAuthButton(s = "login")
  /\ UNCHANGED has

Ignored == UNCHANGED buttonVars

onChecked(c, present) ==
  /\ has' = IF present THEN has \cup {c} ELSE has \ {c}
  /\ enabled' = enabled \cup {c}
  /\ UNCHANGED <<authorized, inProgress>>

OnlyEnables(c, ok) ==                                           \* mutant
  enabled' = enabled \cup {c} /\ UNCHANGED <<has, authorized, inProgress>>
onStored(c, ok) == IF ok THEN onChecked(c, TRUE) ELSE Ignored

Receive ==
  LET m == Head(toApp) IN
  /\ toApp # <<>> /\ toApp' = Tail(toApp)
  /\ CASE m.what \in {"status", "push"} -> IF built THEN onStatus(m.value) ELSE Ignored
       [] m.what = "check" -> onChecked(m.of, m.ok /\ m.value)
       [] m.what = "store" -> onStored(m.of, m.ok)
       [] OTHER -> Ignored
  /\ UNCHANGED <<built, window, connected, unsent, toService, serviceVars, boundVars>>

Connected ==
  /\ ~connected /\ connected' = TRUE
  /\ UNCHANGED <<built, buttonVars, window, unsent, toService, toApp, serviceVars, boundVars>>

(* Every request that is out ends with an error: a check as if there were  *)
(* nothing, the others without a trace.  The service may have been         *)
(* stopped; a login does not outlive it.  Or an attempt to connect fails.  *)
Disconnected ==
  LET out == {unsent[i] : i \in DOMAIN unsent} \cup {toService[i] : i \in DOMAIN toService}
             \cup {Request(toApp[i].what, toApp[i].of) : i \in DOMAIN toApp}
      checks == {c \in Credential : Request("check", c) \in out} IN
  /\ losses < MaxLosses /\ losses' = losses + 1
  /\ connected' = FALSE
  /\ unsent' = <<>> /\ toService' = <<>> /\ toApp' = <<>>
  /\ has' = has \ checks /\ enabled' = enabled \cup checks
  /\ failed' = (failed \/ out # {})
  /\ signIn' \in IF signIn = "login" THEN {"login", "out"} ELSE {signIn}
  /\ UNCHANGED <<built, authorized, inProgress, window, stored, overtaken, logins>>

-----------------------------------------------------------------------------
Next ==
  \/ buildAccountsPage
  \/ (\E c \in Credential : ClickLogin(c)) \/ sessionCaptured \/ keyCaptured \/ GivesUp
  \/ ClickLogoutKey \/ ClickLogoutSession \/ BrowseClosed \/ ClickOAuth
  \/ Handle \/ LoginFlowEnds \/ Receive \/ Connected \/ Disconnected

Fairness ==
  /\ WF_accountVars(Handle) /\ WF_accountVars(Receive)
  /\ WF_accountVars(Connected) /\ WF_accountVars(LoginFlowEnds)

FairSpec == Init /\ [][Next]_accountVars /\ Fairness

TypeOK ==
  /\ {built, authorized, inProgress, connected} \subseteq BOOLEAN
  /\ enabled \subseteq Credential \cup {"oauth"} /\ has \subseteq Credential
  /\ window \in {None, Request("browse", Session)} \cup [what : {"login"}, of : Credential]
  /\ unsent \in Seq([what : Verb, of : Credential \cup {None}])
  /\ toService \in Seq([what : Verb, of : Credential \cup {None}])
  /\ stored \subseteq Credential /\ signIn \in {"out", "login", "in"}

-----------------------------------------------------------------------------
Settled == built /\ window = None /\ unsent \o toService \o toApp = <<>>

(* At rest the buttons offer to log out of exactly what the service has,   *)
(* in whatever order windows, answers and clicks came, unless a request    *)
(* has failed or a logout has overtaken the answer to a login              *)
(* (SettingsPage::buildAccountsPage).                                      *)
ButtonsAgree == Settled /\ ~failed /\ ~overtaken => has = stored

(* "Starts an interactive login ...  The eventual outcome arrives via      *)
(* statusChanged" (PoeOAuthStore.h): the button says "Waiting for          *)
(* browser..." and cannot be clicked until it does.                        *)
LoginOutcomeArrives == inProgress ~> ~inProgress
=============================================================================
