------------------------------- MODULE DmPage -------------------------------
(***************************************************************************)
(* The page of whispers (src/ui/chat/DmPage): those of one player or of    *)
(* all, in a window of so many messages that slides back in steps, kept up *)
(* to date by live events.  Bubbles, colours and scroll positions are left *)
(* out; the lines that compute them are not.                               *)
(***************************************************************************)
EXTENDS Page

CONSTANTS
  Partners,     (* players the user has whispered with                     *)
  InitialLimit, (* kInitialLimit, in steps of kPageStep messages           *)
  MaxWindow,    (* kMaxWindow, in the same steps                           *)
  MaxOffset     (* bound: how far back the window slides                   *)

VARIABLES
  liveTimer,    (* m_liveRebuildTimer runs                                 *)
  panel         (* m_view shows the filter panel                           *)

ownVars == <<liveTimer, panel>>
vars == <<pageVars, ownVars>>

Query ==
  [player : Partners \cup {None},
   limit : InitialLimit .. MaxWindow, offset : 0 .. MaxOffset, news : 0 .. MaxNews]

Init ==
  /\ InitPage([player |-> None, limit |-> InitialLimit, offset |-> 0, news |-> 0])
  /\ ready = TRUE /\ dirty = TRUE /\ overlay = visible
  /\ liveTimer = FALSE /\ panel = FALSE

-----------------------------------------------------------------------------
(* rebuild, for the query q: what is asked now, or noted as dirty.         *)
Recent(q) == [q EXCEPT !.limit = InitialLimit, !.offset = 0]

rebuild(q) ==
  /\ query' = q
  /\ IF ~Ready \/ asked # None
       THEN dirty' = TRUE /\ UNCHANGED asked
       ELSE dirty' = FALSE /\ asked' = q

reload == rebuild(Recent(query))

(* triggerLoadIfNeeded, when the page is visible; "link" is Ready by then. *)
triggerLoadIfNeeded(link) ==
  /\ overlay' = (overlay \/ dirty)
  /\ soon' = IF dirty /\ link THEN soon \cup {"load"} ELSE soon

Show ==
  /\ ~visible /\ visible' = TRUE
  /\ triggerLoadIfNeeded(Ready)
  /\ UNCHANGED <<linkVars, dirty, query, asked, shown, clicks, ownVars>>

Hide ==
  /\ visible /\ visible' = FALSE
  /\ UNCHANGED <<linkVars, dirty, query, asked, shown, overlay, soon, clicks, ownVars>>

(* setPoeInfoClient, then the slots of earlier calls: the first reloads a  *)
(* visible page, the next one finds that request in flight.                *)
setPoeInfoClient ==
  /\ ~connected /\ connected' = TRUE
  /\ handlers' = OneMore /\ UNCHANGED ready
  /\ IF visible THEN triggerLoadIfNeeded(TRUE) ELSE UNCHANGED <<overlay, soon>>
  /\ CASE handlers = 0 -> UNCHANGED <<dirty, query, asked>>
       [] handlers > 0 /\ visible ->
            /\ query' = Recent(query) /\ asked' = query'
            /\ dirty' = (handlers = 2)
       [] OTHER -> dirty' = TRUE /\ UNCHANGED <<query, asked>>
  /\ UNCHANGED <<visible, shown, clicks, ownVars>>

showError ==
  /\ asked' = None /\ shown' = Error /\ overlay' = FALSE
  /\ UNCHANGED <<dirty, soon>>

Disconnect == DropLink(showError) /\ UNCHANGED ownVars

(* MainWindow's timers (schedulePreloads) call preload.                    *)
preload ==
  /\ dirty /\ Ready /\ asked = None
  /\ soon' = soon \cup {"preload"}
  /\ UNCHANGED <<linkVars, visible, dirty, query, asked, shown, overlay, clicks, ownVars>>

(* A 0 ms timer fires: of triggerLoadIfNeeded, preload, or an answer that  *)
(* found the page dirty.                                                   *)
Soon(what) ==
  /\ what \in soon /\ soon' = soon \ {what}
  /\ CASE what = "again" -> rebuild(query)
       [] what # "again" /\ dirty /\ Ready /\ (what = "preload" => ~visible) -> reload
       [] OTHER -> UNCHANGED <<dirty, query, asked>>
  /\ UNCHANGED <<linkVars, visible, shown, overlay, clicks, ownVars>>

-----------------------------------------------------------------------------
(* onLiveWhisper.  "bulk" is a large batch of events.                      *)
onLiveWhisper(bulk) ==
  /\ connected /\ query.news < MaxNews
  /\ LET q == [query EXCEPT !.news = @ + 1]
     IN CASE ~visible ->
               query' = q /\ dirty' = TRUE /\ UNCHANGED <<asked, liveTimer>>
          [] visible /\ bulk ->
               liveTimer' = FALSE /\ rebuild(q)
          [] OTHER ->
               query' = q /\ liveTimer' = TRUE /\ UNCHANGED <<dirty, asked>>
  /\ UNCHANGED <<linkVars, visible, shown, overlay, soon, clicks, panel>>

LiveTimer ==
  /\ liveTimer /\ liveTimer' = FALSE
  /\ \/ ~visible /\ dirty' = TRUE /\ UNCHANGED <<query, asked>>
     \/ visible /\ rebuild(query)
  /\ UNCHANGED <<linkVars, visible, shown, overlay, soon, clicks, panel>>

-----------------------------------------------------------------------------
(* What the user does.                                                     *)

(* The combo box, or a row of the filter panel.                            *)
onPlayerSelected(p) ==
  \/ p = query.player /\ UNCHANGED <<dirty, query, asked>>
  \/ p # query.player /\ rebuild([Recent(query) EXCEPT !.player = p])

SelectPlayer(p) ==
  /\ Click /\ onPlayerSelected(p)
  /\ UNCHANGED <<linkVars, visible, shown, overlay, soon, ownVars>>

(* Buttons around the messages, there when the last answer looked full or  *)
(* the window had been moved.                                              *)
MessagesShown == Click /\ ~panel /\ shown \notin {None, Error}

LoadPrevious ==
  /\ MessagesShown
  /\ rebuild(IF query.limit < MaxWindow THEN [query EXCEPT !.limit = @ + 1]
             ELSE [query EXCEPT !.offset = @ + 1])
  /\ query'.offset <= MaxOffset
  /\ UNCHANGED <<linkVars, visible, shown, overlay, soon, ownVars>>

LoadNext ==
  /\ MessagesShown
  /\ rebuild([query EXCEPT !.offset = IF @ = 0 THEN 0 ELSE @ - 1])
  /\ UNCHANGED <<linkVars, visible, shown, overlay, soon, ownVars>>

jumpToLiveView ==
  /\ MessagesShown /\ query.offset > 0
  /\ rebuild(Recent(query))
  /\ UNCHANGED <<linkVars, visible, shown, overlay, soon, ownVars>>

(* The filter button closes the panel, or asks for partners, whose answer *)
(* opens it whatever has happened to the page since.                       *)
openFilterPanel ==
  /\ \/ panel /\ visible /\ panel' = FALSE
     \/ ~panel /\ Ready /\ panel' = TRUE
  /\ UNCHANGED <<pageVars, liveTimer>>

filterLeafSelected(p) ==
  /\ Click /\ panel /\ panel' = FALSE
  /\ onPlayerSelected(p)
  /\ UNCHANGED <<linkVars, visible, shown, overlay, soon, liveTimer>>

(* The setting of guild tags.                                              *)
setShowGuildTags ==
  /\ query.news < MaxNews
  /\ LET q == [query EXCEPT !.news = @ + 1]
     IN \/ visible /\ Ready /\ rebuild(q)
        \/ ~(visible /\ Ready) /\ query' = q /\ dirty' = TRUE /\ UNCHANGED asked
  /\ UNCHANGED <<linkVars, visible, shown, overlay, soon, clicks, ownVars>>

-----------------------------------------------------------------------------
(* The service answers dm.messages: applyWhispers.                         *)
Answer ==
  /\ asked # None /\ asked' = None
  /\ shown' = asked /\ overlay' = FALSE
  /\ soon' = IF dirty THEN soon \cup {"again"} ELSE soon
  /\ UNCHANGED <<linkVars, visible, dirty, query, clicks, ownVars>>

AnswerError ==
  /\ asked # None /\ showError
  /\ UNCHANGED <<linkVars, visible, query, clicks, ownVars>>

-----------------------------------------------------------------------------
Next ==
  \/ Show \/ Hide \/ setPoeInfoClient \/ Disconnect \/ preload
  \/ \E what \in {"load", "preload", "again"} : Soon(what)
  \/ \E bulk \in BOOLEAN : onLiveWhisper(bulk)
  \/ LiveTimer
  \/ LoadPrevious \/ LoadNext \/ jumpToLiveView \/ openFilterPanel
  \/ \E p \in Partners \cup {None} : SelectPlayer(p) \/ filterLeafSelected(p)
  \/ setShowGuildTags
  \/ Answer \/ AnswerError

Spec == Init /\ [][Next]_vars

-----------------------------------------------------------------------------
TypeOK ==
  /\ TypePage(Query, {"load", "preload", "again"})
  /\ {liveTimer, panel} \subseteq BOOLEAN

(* The page implements PageLoad: with no request out and none owed it      *)
(* shows the messages of the filter and window the user chose last, with   *)
(* every live message heard of, or an error.                               *)
Load == INSTANCE PageLoad WITH wanted <- query, owed <- dirty \/ liveTimer
=============================================================================
