----------------------------- MODULE StashPage -----------------------------
(***************************************************************************)
(* The stash page (src/ui/stash/StashPage): a combo box of leagues, which  *)
(* takes two requests (poe.leagues.list, then poe.league for the current   *)
(* one) and a sign-in; "ready" is m_authorized.  The page has no overlay,  *)
(* and PoeOAuthStore (src/util) tells it of sign-ins and sign-outs.        *)
(***************************************************************************)
EXTENDS Page

VARIABLES
  stage,        (* the request in flight is for the "list" or the "league" *)
  combo         (* the league combo box: "loading", "sign in", "none" or   *)
                (* "leagues" (enabled)                                     *)

ownVars == <<stage, combo>>
vars == <<pageVars, ownVars>>

Query == [news : 0 .. MaxNews]

Init ==
  /\ InitPage([news |-> 0])
  /\ ready = FALSE /\ dirty = TRUE /\ overlay = FALSE
  /\ stage = "list" /\ combo = "loading"

-----------------------------------------------------------------------------
(* rebuild, once its guards have let it through.                           *)
rebuild ==
  /\ dirty' = (asked # None)
  /\ asked' = IF asked = None THEN query ELSE asked
  /\ stage' = IF asked = None THEN "list" ELSE stage

triggerLoadIfNeeded(isDirty, link) ==
  soon' = IF isDirty /\ link THEN soon \cup {"load"} ELSE soon

Show ==
  /\ ~visible /\ visible' = TRUE
  /\ triggerLoadIfNeeded(dirty, Ready)
  /\ UNCHANGED <<linkVars, dirty, query, asked, shown, overlay, clicks, ownVars>>

Hide ==
  /\ visible /\ visible' = FALSE
  /\ UNCHANGED <<linkVars, dirty, query, asked, shown, overlay, soon, clicks, ownVars>>

(* setPoeInfoClient, then the slots of earlier calls.  It also asks the    *)
(* PoeOAuthStore for the state of the sign-in: see setAuthorized.          *)
setPoeInfoClient ==
  /\ ~connected /\ connected' = TRUE
  /\ handlers' = OneMore /\ UNCHANGED ready
  /\ triggerLoadIfNeeded(TRUE, visible /\ ready)
  /\ \/ /\ handlers > 0 /\ visible /\ ready
        /\ asked' = query /\ dirty' = (handlers = 2) /\ stage' = "list"
     \/ /\ ~(handlers > 0 /\ visible /\ ready)
        /\ dirty' = TRUE /\ UNCHANGED <<asked, stage>>
  /\ UNCHANGED <<visible, query, shown, overlay, clicks, combo>>

(* The store's statusChanged: an answer to checkStatus, or an event.  The  *)
(* leagues of whoever signs in are news.                                   *)
setAuthorized(b) ==
  /\ connected
  /\ ready' = b
  /\ combo' = IF b THEN combo ELSE "sign in"
  /\ \/ /\ b /\ ~ready /\ query.news < MaxNews
        /\ query' = [query EXCEPT !.news = @ + 1]
        /\ dirty' = TRUE
        /\ triggerLoadIfNeeded(TRUE, visible)
     \/ (b => ready) /\ UNCHANGED <<query, dirty, soon>>
  /\ UNCHANGED <<handlers, connected, visible, asked, shown, overlay, clicks, stage>>

preload ==
  /\ dirty /\ Ready /\ asked = None
  /\ soon' = soon \cup {"preload"}
  /\ UNCHANGED <<linkVars, visible, dirty, query, asked, shown, overlay, clicks, ownVars>>

(* A timer fires: of triggerLoadIfNeeded, preload, an answer that found    *)
(* the page dirty, or an error.                                            *)
Soon(what) ==
  /\ what \in soon /\ soon' = soon \ {what}
  /\ LET calls == CASE what = "again"   -> Ready
                    [] what = "load"    -> dirty /\ Ready
                    [] what = "preload" -> dirty /\ Ready /\ ~visible
                    [] what = "retry"   -> dirty /\ Ready /\ visible
     IN IF calls THEN rebuild ELSE UNCHANGED <<dirty, asked, stage>>
  /\ UNCHANGED <<linkVars, visible, query, shown, overlay, clicks, combo>>

-----------------------------------------------------------------------------
(* poe.leagues.list: the leagues, and poe.league is asked, or an error.    *)
ListAnswer ==
  /\ asked # None /\ stage = "list"
  /\ stage' = "league"
  /\ UNCHANGED <<pageVars, combo>>

ListFailed ==
  /\ stage = "list"
  /\ asked' = None /\ dirty' = TRUE
  /\ soon' = soon \cup {"retry"}
  /\ UNCHANGED <<shown, overlay, combo>>

ListError ==
  /\ asked # None /\ ListFailed
  /\ UNCHANGED <<linkVars, visible, query, clicks, stage>>

(* applyLeagues; poe.league may also have failed, which leaves the first   *)
(* league selected.                                                        *)
applyLeagues ==
  /\ stage = "league"
  /\ combo' \in {"none", "leagues"}
  /\ shown' = asked /\ asked' = None
  /\ soon' = IF dirty THEN soon \cup {"again"} ELSE soon
  /\ UNCHANGED <<dirty, overlay>>

LeagueAnswer ==
  /\ asked # None /\ applyLeagues
  /\ UNCHANGED <<linkVars, visible, query, clicks, stage>>

Disconnect ==
  /\ DropLink(ListFailed \/ applyLeagues)
  /\ asked = None => UNCHANGED combo
  /\ UNCHANGED stage

-----------------------------------------------------------------------------
Next ==
  \/ Show \/ Hide \/ setPoeInfoClient \/ Disconnect \/ preload
  \/ \E b \in BOOLEAN : setAuthorized(b)
  \/ \E what \in {"load", "preload", "again", "retry"} : Soon(what)
  \/ ListAnswer \/ ListError \/ LeagueAnswer

Spec == Init /\ [][Next]_vars

-----------------------------------------------------------------------------
TypeOK ==
  /\ TypePage(Query, {"load", "preload", "again", "retry"})
  /\ stage \in {"list", "league"}
  /\ combo \in {"loading", "sign in", "none", "leagues"}

(* The page implements PageLoad: signed in, with no request out and none   *)
(* owed, it shows the leagues of whoever signed in last.                   *)
Load == INSTANCE PageLoad WITH wanted <- query, owed <- dirty \/ ~ready

(* "shows an auth banner ... instead of fetching leagues whenever the user *)
(* isn't authenticated" (StashPage.h): signed out, there is no league to   *)
(* choose, currentLeague() is empty.                                       *)
SignedOutHasNoLeague == (handlers > 0 /\ ~ready) => combo # "leagues"
=============================================================================
