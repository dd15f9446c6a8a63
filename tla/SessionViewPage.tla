-------------------------- MODULE SessionViewPage --------------------------
(***************************************************************************)
(* The view of one play session (src/ui/log/SessionViewPage): of the live  *)
(* one, which live events and games that start or stop change, or of an    *)
(* old one, picked from the list of sessions.  An answer that finds the    *)
(* page dirty is followed by the next request at once.                     *)
(*                                                                         *)
(* The list shows a session that has not ended as running, and asks for    *)
(* it by -1, which the service resolves to the newest open session when it *)
(* answers: the header then names a session that the answer need not be    *)
(* of.                                                                     *)
(*                                                                         *)
(* Cards are left out, but for the painting of the area they are added to, *)
(* which is suspended from one step to another.                            *)
(***************************************************************************)
EXTENDS Page

CONSTANTS
  Live,         (* -1: whatever session is the newest open one             *)
  Sessions      (* the sessions of the list, by id or start                *)

VARIABLES
  label,        (* m_sessionLabel: the session of the row whose button was *)
                (* pressed last, by its start; None: no header yet         *)
  front,        (* MainWindow's stack shows this page                      *)
  frozen        (* m_scroll->setUpdatesEnabled(false)                      *)

ownVars == <<label, front, frozen>>
vars == <<pageVars, ownVars>>

Target == Sessions \cup {Live}
Query  == [target : Target, news : 0 .. MaxNews]

Init ==
  /\ InitPage([target |-> Live, news |-> 0])
  /\ ready = TRUE /\ dirty = FALSE /\ overlay = FALSE
  /\ label = None /\ front = visible /\ frozen = FALSE

-----------------------------------------------------------------------------
(* rebuildDbZones, once its guard has let it through.                      *)
rebuildDbZones(q) ==
  /\ dirty' = (asked # None)
  /\ asked' = IF asked = None THEN q ELSE asked

(* The page is dirty, for the query q, and rebuilt when it is visible.     *)
Outdated(q) ==
  /\ query' = q
  /\ IF visible /\ Ready THEN rebuildDbZones(q) ELSE dirty' = TRUE /\ UNCHANGED asked

(* triggerLoadIfNeeded, when the page is visible and has a client.         *)
triggerLoadIfNeeded(isDirty, link) ==
  /\ overlay' = (overlay \/ isDirty)
  /\ soon' = IF isDirty /\ link THEN soon \cup {"load"} ELSE soon

Shown(isDirty) ==
  IF handlers > 0 THEN triggerLoadIfNeeded(isDirty, connected) ELSE UNCHANGED <<overlay, soon>>

(* The window comes back.                                                  *)
Show ==
  /\ front /\ ~visible /\ visible' = TRUE
  /\ Shown(dirty)
  /\ UNCHANGED <<linkVars, dirty, query, asked, shown, clicks, ownVars>>

(* The window is hidden, or another page comes to the front.               *)
Hide ==
  /\ visible /\ visible' = FALSE
  /\ front' \in BOOLEAN
  /\ UNCHANGED <<linkVars, dirty, query, asked, shown, overlay, soon, clicks, label, frozen>>

(* setPoeInfoClient, then the slots of earlier calls.                      *)
setPoeInfoClient ==
  /\ ~connected /\ connected' = TRUE
  /\ handlers' = OneMore /\ UNCHANGED ready
  /\ IF visible THEN triggerLoadIfNeeded(TRUE, TRUE) ELSE UNCHANGED <<overlay, soon>>
  /\ \/ handlers > 0 /\ visible /\ asked' = query /\ dirty' = (handlers = 2)
     \/ ~(handlers > 0 /\ visible) /\ dirty' = TRUE /\ UNCHANGED asked
  /\ UNCHANGED <<visible, query, shown, clicks, ownVars>>

LoadFailed ==
  /\ asked' = None /\ dirty' = TRUE
  /\ soon' = soon \cup {"retry"}
  /\ UNCHANGED <<shown, overlay>>

Disconnect == DropLink(LoadFailed) /\ UNCHANGED ownVars

preload ==
  /\ dirty /\ Ready /\ asked = None
  /\ soon' = soon \cup {"preload"}
  /\ UNCHANGED <<linkVars, visible, dirty, query, asked, shown, overlay, clicks, ownVars>>

(* A timer fires: of triggerLoadIfNeeded, preload or preloadSession, or an *)
(* error.                                                                  *)
Soon(what) ==
  /\ what \in soon /\ soon' = soon \ {what}
  /\ LET calls == CASE what = "load"    -> dirty /\ Ready
                    [] what = "preload" -> dirty /\ Ready /\ ~visible
                    [] what = "retry"   -> dirty /\ Ready /\ visible
     IN IF calls THEN rebuildDbZones(query) ELSE UNCHANGED <<dirty, asked>>
  /\ UNCHANGED <<linkVars, visible, query, shown, overlay, clicks, ownVars>>

-----------------------------------------------------------------------------
(* What the list asks for with the row of s: s, or -1 when the row shows a *)
(* session that is running, or was when the list was loaded.               *)
RowAsksFor(s) == {s, Live}

(* A row of the list of sessions is expanded; its start is not used.       *)
preloadSession(t) ==
  /\ ~front /\ Ready
  /\ t # query.target \/ dirty
  /\ clicks < MaxClicks /\ clicks' = clicks + 1
  /\ query' = [query EXCEPT !.target = t] /\ dirty' = TRUE
  /\ soon' = soon \cup {"preload"}
  /\ UNCHANGED <<linkVars, visible, asked, shown, overlay, ownVars>>

(* The button of the row of s is pressed, which asks for t: viewSession,   *)
(* before MainWindow brings the page to the front.                         *)
KeepsTarget(s, t) ==                                            \* mutant
  /\ ~front /\ clicks < MaxClicks /\ clicks' = clicks + 1
  /\ front' = TRUE /\ visible' = TRUE
  /\ label' = s
  /\ Shown(dirty)
  /\ UNCHANGED <<linkVars, query, dirty, asked, shown, frozen>>
viewSession(s, t) ==
  /\ ~front /\ clicks < MaxClicks /\ clicks' = clicks + 1
  /\ front' = TRUE /\ visible' = TRUE
  /\ label' = s
  /\ query' = [query EXCEPT !.target = t]
  /\ dirty' = (dirty \/ t # query.target)
  /\ frozen' = (frozen /\ ~dirty')
  /\ Shown(dirty')
  /\ UNCHANGED <<linkVars, asked, shown>>

-----------------------------------------------------------------------------
(* onLiveEvent for a large batch or a new session, and setRunningGames: an *)
(* old session has nothing to do with them.                                *)
onLiveEvent ==
  /\ connected /\ query.target = Live /\ query.news < MaxNews
  /\ Outdated([query EXCEPT !.news = @ + 1])
  /\ UNCHANGED <<linkVars, visible, shown, overlay, soon, clicks, ownVars>>

setRunningGames ==
  /\ query.target = Live /\ query.news < MaxNews
  /\ Outdated([query EXCEPT !.news = @ + 1])
  /\ UNCHANGED <<linkVars, visible, shown, overlay, soon, clicks, ownVars>>

(* The service closed sessions of games that are gone, of any session.     *)
markDirty ==
  /\ connected /\ query.news < MaxNews
  /\ Outdated([query EXCEPT !.news = @ + 1])
  /\ UNCHANGED <<linkVars, visible, shown, overlay, soon, clicks, ownVars>>

(* A card is added, for a live event or by addNotification; while a        *)
(* request is in flight the answer is to resume the painting.              *)
appendLiveWidget ==
  /\ frozen' = (asked # None)
  /\ UNCHANGED <<pageVars, label, front>>

-----------------------------------------------------------------------------
(* The service answers log.session: applyCurrentPageData.                  *)
Answer ==
  /\ asked # None
  /\ shown' = asked /\ overlay' = FALSE
  /\ frozen' = FALSE
  /\ asked' = IF dirty THEN query ELSE None
  /\ dirty' = FALSE
  /\ UNCHANGED <<linkVars, visible, query, soon, clicks, label, front>>

AnswerError ==
  /\ asked # None /\ LoadFailed
  /\ UNCHANGED <<linkVars, visible, query, clicks, ownVars>>

-----------------------------------------------------------------------------
Next ==
  \/ Show \/ Hide \/ setPoeInfoClient \/ Disconnect \/ preload
  \/ \E what \in {"load", "preload", "retry"} : Soon(what)
  \/ \E t \in Target : preloadSession(t)
  \/ \E s \in Sessions : \E t \in RowAsksFor(s) : viewSession(s, t)
  \/ onLiveEvent \/ setRunningGames \/ markDirty \/ appendLiveWidget
  \/ Answer \/ AnswerError

Spec == Init /\ [][Next]_vars

-----------------------------------------------------------------------------
TypeOK ==
  /\ TypePage(Query, {"load", "preload", "retry"})
  /\ label \in Sessions \cup {None} /\ shown # Error /\ {front, frozen} \subseteq BOOLEAN
  /\ visible => front

(* The page implements PageLoad: with a client, no request out and none    *)
(* owed, it shows the session chosen last, with all that was heard of.     *)
Load == INSTANCE PageLoad WITH wanted <- query, owed <- dirty \/ handlers = 0

(* A session that the list showed as ended has its own name over its own   *)
(* cards: the header names the session the page is to load, and when no    *)
(* request is out or owed the cards are the answer for it.  Of -1 this     *)
(* cannot be said: see above.                                              *)
HeaderNamesSession ==
  front /\ query.target # Live =>
    /\ label = query.target
    /\ handlers > 0 /\ asked = None /\ ~dirty => shown = query
=============================================================================
