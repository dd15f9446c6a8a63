-------------------------------- MODULE Page --------------------------------
(***************************************************************************)
(* What the pages of the app that load data from the service have in       *)
(* common: their link to the service, and the state of their one request.  *)
(* Every page class keeps these fields for itself, under the same names.   *)
(***************************************************************************)
EXTENDS Naturals, FiniteSets

CONSTANTS
  None,         (* no request, nothing shown, no filter                    *)
  Error,        (* an error message in the place of the data               *)
  MaxClicks,    (* bound: what the user does to the query                  *)
  MaxNews       (* bound: events and settings the data must reflect        *)

ASSUME PageAssumption ==
  /\ None # Error
  /\ MaxClicks \in Nat /\ MaxNews \in Nat

VARIABLES
  handlers,     (* 0: no client yet; slots connected to "connected"; 2: any*)
                (* number                                                  *)
  connected,    (* PoeInfoClient::isConnected                              *)
  ready,        (* what else the page waits for: the end of the log replay *)
                (* (m_sessionsReady) or a sign-in (m_authorized)           *)
  visible,      (* isVisible                                               *)
  dirty,        (* m_dirty                                                 *)
  query,        (* what the page should show: filter, window, and news, a  *)
                (* count of what the answer must be younger than           *)
  asked,        (* the query in flight (m_rebuildInFlight)                 *)
  shown,        (* the query whose answer is on the screen                 *)
  overlay,      (* the loading overlay                                     *)
  soon,         (* single shot timers                                      *)
  clicks        (* counts for MaxClicks                                    *)

linkVars == <<handlers, connected, ready>>
pageVars == <<linkVars, visible, dirty, query, asked, shown, overlay, soon, clicks>>

(* m_poeInfoClient && m_poeInfoClient->isConnected(), and ready.           *)
Ready == handlers > 0 /\ connected /\ ready

(* MainWindow calls setPoeInfoClient at each connection; every call adds a *)
(* slot for the connections to come.                                       *)
OneMore == IF handlers < 2 THEN handlers + 1 ELSE 2

InitPage(firstQuery) ==
  /\ handlers = 0 /\ connected = FALSE /\ visible \in BOOLEAN
  /\ query = firstQuery
  /\ asked = None /\ shown = None
  /\ soon = {} /\ clicks = 0

(* One more of the things the user does.                                   *)
Click == visible /\ clicks < MaxClicks /\ clicks' = clicks + 1

(* PoeInfoClient::onDisconnected: the requests that are out end with an    *)
(* error, whose handler is Failed.                                         *)
AnswersAreLost(Failed) ==                                       \* mutant
  /\ connected /\ connected' = FALSE
  /\ UNCHANGED <<handlers, ready, visible, dirty, query, asked, shown, overlay, soon, clicks>>
DropLink(Failed) ==
  /\ connected /\ connected' = FALSE
  /\ \/ asked # None /\ Failed
     \/ asked = None /\ UNCHANGED <<dirty, asked, shown, overlay, soon>>
  /\ UNCHANGED <<handlers, ready, visible, query, clicks>>

TypePage(Query, timers) ==
  /\ handlers \in 0 .. 2 /\ clicks \in 0 .. MaxClicks
  /\ {connected, ready, visible, dirty, overlay} \subseteq BOOLEAN
  /\ query \in Query
  /\ asked \in Query \cup {None} /\ shown \in Query \cup {None, Error}
  /\ soon \subseteq timers
  /\ asked # None => handlers > 0 /\ connected
=============================================================================
