------------------------------ MODULE LogPage ------------------------------
(***************************************************************************)
(* The list of play sessions (src/ui/log/LogPage), in a window of so many  *)
(* sessions that slides back in steps.  "ready" is m_sessionsReady: the    *)
(* service is not replaying the game's log.  An error is never shown: the  *)
(* page tries again.                                                       *)
(***************************************************************************)
EXTENDS Page

CONSTANTS
  InitialLimit, (* kInitialLimit, in steps of kPageStep sessions           *)
  MaxWindow,    (* kMaxWindow, in the same steps                           *)
  MaxOffset     (* bound: how far back the window slides                   *)

VARIABLE
  ignored       (* history: the window was moved, and rebuild returned     *)
                (* because the page was not ready                          *)

vars == <<pageVars, ignored>>

Query ==
  [limit : InitialLimit .. MaxWindow, offset : 0 .. MaxOffset, news : 0 .. MaxNews]

Init ==
  /\ InitPage([limit |-> InitialLimit, offset |-> 0, news |-> 0])
  /\ ready = FALSE /\ dirty = TRUE /\ overlay = FALSE /\ ignored = FALSE

-----------------------------------------------------------------------------
Recent(q) == [q EXCEPT !.limit = InitialLimit, !.offset = 0]

(* rebuild, for the query q: not ready, it leaves no note.                 *)
rebuild(q) ==
  /\ query' = q
  /\ \/ /\ Ready /\ asked = None
        /\ dirty' = FALSE /\ asked' = q /\ ignored' = FALSE
     \/ /\ Ready /\ asked # None
        /\ dirty' = TRUE /\ UNCHANGED <<asked, ignored>>
     \/ /\ ~Ready
        /\ ignored' = (ignored \/ q # query) /\ UNCHANGED <<dirty, asked>>

(* triggerLoadIfNeeded, when the page is visible and has a client.         *)
triggerLoadIfNeeded(link, isDirty) ==
  /\ overlay' = (overlay \/ isDirty)
  /\ soon' = IF isDirty /\ link THEN soon \cup {"load"} ELSE soon

Show ==
  /\ ~visible /\ visible' = TRUE
  /\ IF handlers > 0 THEN triggerLoadIfNeeded(Ready, dirty) ELSE UNCHANGED <<overlay, soon>>
  /\ UNCHANGED <<linkVars, dirty, query, asked, shown, clicks, ignored>>

Hide ==
  /\ visible /\ visible' = FALSE
  /\ UNCHANGED <<linkVars, dirty, query, asked, shown, overlay, soon, clicks, ignored>>

(* setPoeInfoClient, then the slots of earlier calls: the first rebuilds a *)
(* visible page, the next one finds that request in flight.                *)
setPoeInfoClient ==
  /\ ~connected /\ connected' = TRUE
  /\ handlers' = OneMore /\ UNCHANGED ready
  /\ query' = Recent(query)
  /\ IF visible THEN triggerLoadIfNeeded(ready, TRUE) ELSE UNCHANGED <<overlay, soon>>
  /\ \/ handlers > 0 /\ visible /\ ready /\ asked' = query' /\ dirty' = (handlers = 2)
     \/ ~(handlers > 0 /\ visible /\ ready) /\ dirty' = TRUE /\ UNCHANGED asked
  /\ ignored' = FALSE
  /\ UNCHANGED <<visible, shown, clicks>>

(* MainWindow::applyStatusPayload tells of the phases of the service.      *)
NeverReadyAgain(r) ==                                           \* mutant
  /\ connected /\ ready # r /\ ready' = r
  /\ UNCHANGED <<handlers, connected, visible, dirty, query, asked, shown, overlay, soon,
                 clicks, ignored>>
setSessionsReady(r) ==
  /\ connected /\ ready # r /\ ready' = r
  /\ IF r /\ visible THEN triggerLoadIfNeeded(TRUE, dirty) ELSE UNCHANGED <<overlay, soon>>
  /\ UNCHANGED <<handlers, connected, visible, dirty, query, asked, shown, clicks, ignored>>

(* An error: the page is dirty, and tries again in half a second.          *)
LoadFailed ==
  /\ asked' = None /\ dirty' = TRUE
  /\ soon' = soon \cup {"retry"}
  /\ UNCHANGED <<shown, overlay>>

Disconnect == DropLink(LoadFailed) /\ UNCHANGED ignored

preload ==
  /\ dirty /\ Ready /\ asked = None
  /\ soon' = soon \cup {"preload"}
  /\ UNCHANGED <<linkVars, visible, dirty, query, asked, shown, overlay, clicks, ignored>>

(* A timer fires: of triggerLoadIfNeeded, preload, an answer that found    *)
(* the page dirty, or an error.                                            *)
Soon(what) ==
  /\ what \in soon /\ soon' = soon \ {what}
  /\ LET calls == CASE what = "again"   -> TRUE
                    [] what = "load"    -> dirty /\ Ready
                    [] what = "preload" -> dirty /\ Ready /\ ~visible
                    [] what = "retry"   -> dirty /\ connected /\ visible
     IN IF calls THEN rebuild(query) ELSE UNCHANGED <<dirty, query, asked, ignored>>
  /\ UNCHANGED <<linkVars, visible, shown, overlay, clicks>>

-----------------------------------------------------------------------------
(* onLiveEvent (a session started, or a large batch) and markDirty: noted  *)
(* for the next time the page is shown.                                    *)
onLiveEvent ==
  /\ connected /\ query.news < MaxNews
  /\ query' = [query EXCEPT !.news = @ + 1]
  /\ dirty' = TRUE
  /\ UNCHANGED <<linkVars, visible, asked, shown, overlay, soon, clicks, ignored>>

(* Buttons around the sessions.                                            *)
SessionsShown == Click /\ shown # None

LoadPrevious ==
  /\ SessionsShown
  /\ rebuild(IF query.limit < MaxWindow THEN [query EXCEPT !.limit = @ + 1]
             ELSE [query EXCEPT !.offset = @ + 1])
  /\ query'.offset <= MaxOffset
  /\ UNCHANGED <<linkVars, visible, shown, overlay, soon>>

LoadNext ==
  /\ SessionsShown
  /\ rebuild([query EXCEPT !.offset = IF @ = 0 THEN 0 ELSE @ - 1])
  /\ UNCHANGED <<linkVars, visible, shown, overlay, soon>>

jumpToLiveView ==
  /\ SessionsShown /\ query.offset > 0
  /\ rebuild(Recent(query))
  /\ UNCHANGED <<linkVars, visible, shown, overlay, soon>>

-----------------------------------------------------------------------------
(* The service answers log.sessions: applySessions.                        *)
Answer ==
  /\ asked # None /\ asked' = None
  /\ shown' = asked /\ overlay' = FALSE
  /\ soon' = IF dirty THEN soon \cup {"again"} ELSE soon
  /\ UNCHANGED <<linkVars, visible, dirty, query, clicks, ignored>>

AnswerError ==
  /\ asked # None /\ LoadFailed
  /\ UNCHANGED <<linkVars, visible, query, clicks, ignored>>

-----------------------------------------------------------------------------
Next ==
  \/ Show \/ Hide \/ setPoeInfoClient \/ Disconnect \/ preload
  \/ \E r \in BOOLEAN : setSessionsReady(r)
  \/ \E what \in {"load", "preload", "again", "retry"} : Soon(what)
  \/ onLiveEvent
  \/ LoadPrevious \/ LoadNext \/ jumpToLiveView
  \/ Answer \/ AnswerError

Spec == Init /\ [][Next]_vars

-----------------------------------------------------------------------------
TypeOK ==
  /\ TypePage(Query, {"load", "preload", "again", "retry"})
  /\ ignored \in BOOLEAN

(* The page implements PageLoad: with no request out and none owed, it     *)
(* shows the sessions of the window chosen last, with every new session    *)
(* heard of, unless a button was pressed while it was not ready.           *)
Load == INSTANCE PageLoad WITH wanted <- query, owed <- dirty \/ ignored
=============================================================================
