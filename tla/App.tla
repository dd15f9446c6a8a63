-------------------------------- MODULE App --------------------------------
(***************************************************************************)
(* The app, one part at a time: each behaviour is of one of them, chosen   *)
(* in the initial state, while the others stay as they are: one of the     *)
(* five pages, the background tasks, the window or the accounts page.      *)
(* The parts share no state but what the pages' modules call the same.     *)
(***************************************************************************)
EXTENDS Page, Sequences

CONSTANTS
  \* The pages: see ChatPage, DmPage, LogPage, SessionViewPage.
  Channels, Choices, Dates, Partners, Live, Sessions,
  InitialLimit, MessageWindow, LogWindow, MaxOffset,
  SessionClicks,    (* MaxClicks of the two pages of sessions              *)
  \* TaskManager.
  Kind, General, Slots, MaxTasks, MaxMail, MaxTimers,
  \* Shell; the sub-page that Shell calls Accounts.
  Game, Account, SubPages, MaxMoves, MaxReady,
  \* Accounts; the credentials it calls Session and Key.
  PoeSession, SteamKey, MaxLogins, MaxLosses

(* The windows of messages and sessions grow from kInitialLimit to         *)
(* kMaxWindow, a page starts with all channels ticked, and nobody but      *)
(* MainWindow submits a task of the general kind.  The buttons of the      *)
(* accounts page are three, and None is not a window.                      *)
ASSUME AppAssumption ==
  /\ {InitialLimit, MessageWindow, LogWindow, MaxOffset, SessionClicks} \subseteq Nat
  /\ InitialLimit <= MessageWindow /\ InitialLimit <= LogWindow
  /\ Channels \in Choices
  /\ Slots \in [Kind \cup {General} -> Nat \ {0}]
  /\ General \notin Kind /\ {MaxTasks, MaxTimers} \subseteq Nat
  /\ PoeSession # SteamKey /\ "oauth" \notin {PoeSession, SteamKey}
  /\ None \notin Nat \cup {"active"}
  /\ None \notin [what : {"login", "browse"}, of : {PoeSession, SteamKey}]

VARIABLES
  part,
  liveTimer, panel, ignored, stage, combo, label, front, frozen,
  kind, status, cancelling, mailbox, over, pendingShow, rows, lastStatus,
  ingesting, graceScheduled, graceTimers, trackerTask, trackers,
  current, gear, search, stack, opened, requestor, preloads, tasks, due,
  index, target, loaded, moves, readies,
  built, enabled, has, window, authorized, inProgress, linked, unsent,
  toService, toApp, stored, signIn, failed, overtaken, logins, losses

messageVars == <<liveTimer, panel>>
stashVars   == <<stage, combo>>
sessionVars == <<label, front, frozen>>
taskVars ==
  <<kind, status, cancelling, mailbox, over, pendingShow, rows, lastStatus,
    ingesting, graceScheduled, graceTimers, trackerTask, trackers>>
shellVars ==
  <<current, gear, search, stack, opened, requestor, preloads, tasks, due,
    index, target, loaded, moves, readies>>
loginVars ==
  <<built, enabled, has, window, authorized, inProgress, linked, unsent,
    toService, toApp, stored, signIn, failed, overtaken, logins, losses>>

Chat   == INSTANCE ChatPage WITH MaxWindow <- MessageWindow
Dm     == INSTANCE DmPage WITH MaxWindow <- MessageWindow
Log    == INSTANCE LogPage WITH MaxWindow <- LogWindow, MaxClicks <- SessionClicks
Stash  == INSTANCE StashPage
View   == INSTANCE SessionViewPage WITH MaxClicks <- SessionClicks
Tasks  == INSTANCE TaskManager
Shell  == INSTANCE Shell WITH shown <- opened, Accounts <- Account
Logins == INSTANCE Accounts WITH connected <- linked, Session <- PoeSession, Key <- SteamKey

(* None is not a query, nor is an error.                                   *)
ASSUME QueryAssumption ==
  /\ None \notin Chat!Query \cup Dm!Query \cup Log!Query \cup Stash!Query \cup View!Query
  /\ Error \notin View!Query

(* The sub-pages of the settings have names of their own.                  *)
ASSUME SubPageAssumption ==
  /\ SubPages \in Seq(Shell!Sub) /\ {Game, Account} \subseteq Shell!Sub
  /\ {"task", "preload", "categories", "loading", None} \cap Shell!Sub = {}

vars ==
  <<part, pageVars, messageVars, ignored, stashVars, sessionVars,
    taskVars, shellVars, loginVars>>

-----------------------------------------------------------------------------
PageParts == {"chat", "dm", "log", "stash", "session"}

(* What a part is like while another one is in play.                       *)
PageIdle(p) ==
  /\ p \in {"chat", "dm"} \/ (liveTimer = FALSE /\ panel = FALSE)
  /\ p = "log"     \/ ignored = FALSE
  /\ p = "stash"   \/ (stage = "list" /\ combo = "loading")
  /\ p = "session" \/ (label = None /\ front = FALSE /\ frozen = FALSE)
  /\ p \in PageParts \/ (Chat!Init /\ ~visible)

Idle(p) ==
  /\ PageIdle(p)
  /\ p = "tasks" \/ Tasks!Init
  /\ p = "shell" \/ (Shell!Init /\ stack = "guide" /\ ~opened)
  /\ p = "accounts" \/ (Logins!Init /\ ~linked /\ stored = {} /\ signIn = "out")

Init ==
  \/ part = "chat"     /\ Chat!Init    /\ Idle("chat")
  \/ part = "dm"       /\ Dm!Init      /\ Idle("dm")
  \/ part = "log"      /\ Log!Init     /\ Idle("log")
  \/ part = "stash"    /\ Stash!Init   /\ Idle("stash")
  \/ part = "session"  /\ View!Init /\ Idle("session")
  \/ part = "tasks"    /\ Tasks!Init   /\ Idle("tasks")
  \/ part = "shell"    /\ Shell!Init   /\ Idle("shell")
  \/ part = "accounts" /\ Logins!Init  /\ Idle("accounts")

NoPage == UNCHANGED <<part, taskVars, shellVars, loginVars>>
OnPage(p, A) == part = p /\ A /\ NoPage

OnChat(A)    == OnPage("chat", A)    /\ UNCHANGED <<ignored, stashVars, sessionVars>>
OnDm(A)      == OnPage("dm", A)      /\ UNCHANGED <<ignored, stashVars, sessionVars>>
OnLog(A)     == OnPage("log", A)     /\ UNCHANGED <<messageVars, stashVars, sessionVars>>
OnStash(A)   == OnPage("stash", A)   /\ UNCHANGED <<messageVars, ignored, sessionVars>>
OnSession(A) == OnPage("session", A) /\ UNCHANGED <<messageVars, ignored, stashVars>>

NoTask == UNCHANGED <<part, pageVars, messageVars, ignored, stashVars, sessionVars>>
OnTasks(A)  == part = "tasks" /\ A /\ NoTask /\ UNCHANGED <<shellVars, loginVars>>
OnShell(A)  == part = "shell" /\ A /\ NoTask /\ UNCHANGED <<taskVars, loginVars>>
OnLogins(A) == part = "accounts" /\ A /\ NoTask /\ UNCHANGED <<taskVars, shellVars>>

Next ==
  \/ OnChat(Chat!Next)
  \/ OnDm(Dm!Next)
  \/ OnLog(Log!Next)
  \/ OnStash(Stash!Next)
  \/ OnSession(View!Next)
  \/ OnTasks(Tasks!Next)
  \/ OnShell(Shell!Next)
  \/ OnLogins(Logins!Next)

Spec == Init /\ [][Next]_vars

-----------------------------------------------------------------------------
(* Timers fire, and the service answers each request, if only with an      *)
(* error; pages that try again after an error get an answer in the end.    *)
Timer(what) ==
  \/ OnChat(Chat!Soon(what)) \/ OnDm(Dm!Soon(what)) \/ OnLog(Log!Soon(what))
  \/ OnStash(Stash!Soon(what)) \/ OnSession(View!Soon(what))

LiveTimer == OnChat(Chat!LiveTimer) \/ OnDm(Dm!LiveTimer)

Answered ==
  \/ OnChat(Chat!Answer \/ Chat!AnswerError) \/ OnDm(Dm!Answer \/ Dm!AnswerError)
  \/ OnLog(Log!Answer \/ Log!AnswerError)
  \/ OnStash(Stash!ListAnswer \/ Stash!ListError \/ Stash!LeagueAnswer)
  \/ OnSession(View!Answer \/ View!AnswerError)

AnsweredWell ==
  OnLog(Log!Answer) \/ OnStash(Stash!ListAnswer) \/ OnSession(View!Answer)

(* Besides, the event loop runs and no worker works for ever.  A behaviour *)
(* is of one part, so that fairness to an action of one part or another of *)
(* another is fairness to both.                                            *)
FairSpec ==
  /\ Spec
  /\ WF_vars(Timer("load") \/ OnTasks(Tasks!Deliver) \/ OnShell(Shell!TimerFires))
  /\ WF_vars(Timer("again") \/ OnShell(Shell!PreloadDue))
  /\ WF_vars(Timer("retry") \/ LiveTimer)
  /\ WF_vars(Answered)
  /\ SF_vars(AnsweredWell \/ OnTasks(Tasks!WorkEnds))

-----------------------------------------------------------------------------
TypeOK ==
  /\ part = "chat"    => Chat!TypeOK
  /\ part = "dm"      => Dm!TypeOK
  /\ part = "log"     => Log!TypeOK
  /\ part = "stash"   => Stash!TypeOK
  /\ part = "session" => View!TypeOK
  /\ part = "tasks"   => Tasks!TypeOK
  /\ part = "shell"   => Shell!TypeOK
  /\ part = "accounts" => Logins!TypeOK

(* Every page implements PageLoad: see the definition of Load in each.     *)
Implements ==
  INSTANCE PageLoad WITH
    wanted <- query,
    owed <- CASE part = "log"     -> dirty \/ ignored
              [] part = "stash"   -> dirty \/ ~ready
              [] part = "session" -> dirty \/ handlers = 0
              [] OTHER            -> dirty \/ liveTimer
LoadSpec == Implements!Spec

(* A visible page that says "Loading data, please stand by...", that has   *)
(* stopped painting its cards while it loads, or that knows its leagues    *)
(* are old, gets to show its data, whatever is clicked meanwhile, as long  *)
(* as there is a connection and what else it waits for; the sub-page of    *)
(* the settings that says "Loading..." is built, however tasks were        *)
(* merged, demoted or cancelled on the way; and every background task ends,*)
(* a progress tracker once the service is done ingesting, any other in its *)
(* turn.                                                                   *)
Waiting ==
  \/ visible /\ (overlay \/ frozen \/ (part = "stash" /\ dirty /\ handlers > 0))
  \/ part = "shell" /\ Shell!Loading
  \/ part = "tasks" /\ Tasks!Unfinished
Served  ==
  CASE part = "shell" -> ~Shell!Loading
    [] part = "tasks" -> ~Tasks!Unfinished
    [] OTHER -> \/ ~visible \/ ~connected \/ ~ready
                \/ ~overlay /\ ~frozen /\ (part = "stash" => ~dirty)
NothingWaitsForEver == Waiting ~> Served

(* The header over the cards names the session that is loaded under it.    *)
HeaderNamesSession == part = "session" => View!HeaderNamesSession

(* The other parts' properties: see there.                                 *)
SlotsFilled     == Tasks!SlotsFilled
RowsMatchTasks  == Tasks!RowsMatchTasks
TrackerHeld     == Tasks!TrackerHeld
NavAgrees       == Shell!NavAgrees
CursorMeansWaiting == Shell!CursorMeansWaiting
ButtonsAgree    == Logins!ButtonsAgree
=============================================================================
