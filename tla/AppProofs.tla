----------------------------- MODULE AppProofs -----------------------------
(***************************************************************************)
(* Proofs about the app, for any number of sessions, players, channels and *)
(* tasks, windows of any size, and any number of clicks and events: every  *)
(* page implements PageLoad, by which it shows what is wanted; the header, *)
(* the navigation bar, the panel of tasks and the buttons of the accounts  *)
(* page say what is so; and tasks get the slots of their kind.             *)
(*                                                                         *)
(* Each part has its own inductive invariant, proved from the part's       *)
(* actions alone; that of the app is their conjunction.                    *)
(***************************************************************************)
EXTENDS App, TLAPS

(* What the assumptions say of the constants of the pages.                 *)
LEMMA Bounds ==
  /\ InitialLimit \in Nat /\ MessageWindow \in Nat /\ LogWindow \in Nat /\ MaxOffset \in Nat
  /\ InitialLimit <= MessageWindow /\ InitialLimit <= LogWindow
  /\ MaxNews \in Nat /\ MaxClicks \in Nat /\ SessionClicks \in Nat /\ Channels \in Choices
BY AppAssumption, PageAssumption

LEMMA OneMoreCounts ==
  ASSUME handlers \in 0 .. 2
  PROVE  /\ {Chat!OneMore, Dm!OneMore, Log!OneMore, Stash!OneMore, View!OneMore} \subseteq 0 .. 2
         /\ Chat!OneMore > 0 /\ Dm!OneMore > 0 /\ Log!OneMore > 0 /\ Stash!OneMore > 0 /\ View!OneMore > 0
BY DEF Chat!OneMore, Dm!OneMore, Log!OneMore, Stash!OneMore, View!OneMore

-----------------------------------------------------------------------------
(* ChatPage.  Its types are inductive; among them, a request is out only   *)
(* over a connection: without this a new connection, which asks at once,   *)
(* could ask a second time.                                                *)
LEMMA ChatRecent == ASSUME NEW q \in Chat!Query PROVE Chat!Recent(q) \in Chat!Query
<1> DEFINE r == [q EXCEPT !.limit = InitialLimit]
<1>1. r \in Chat!Query
  BY Bounds DEF Chat!Query
<1> HIDE DEF r
<1>2. [r EXCEPT !.offset = 0] \in Chat!Query
  BY <1>1, Bounds DEF Chat!Query
<1>3. Chat!Recent(q) = [r EXCEPT !.offset = 0]
  BY DEF Chat!Recent, r
<1> QED BY <1>2, <1>3

LEMMA ChatFiltered ==
  ASSUME NEW q \in Chat!Query, NEW ticked \in Choices
  PROVE  [Chat!Recent(q) EXCEPT !.channels = ticked, !.date = None] \in Chat!Query
<1> DEFINE r == [Chat!Recent(q) EXCEPT !.channels = ticked]
<1>1. r \in Chat!Query
  BY ChatRecent DEF Chat!Query
<1> HIDE DEF r
<1>2. [r EXCEPT !.date = None] \in Chat!Query
  BY <1>1 DEF Chat!Query
<1>3. [Chat!Recent(q) EXCEPT !.channels = ticked, !.date = None] = [r EXCEPT !.date = None]
  BY DEF r
<1> QED BY <1>2, <1>3

(* What the page makes of a query is a query.                              *)
LEMMA ChatQueries ==
  ASSUME NEW q \in Chat!Query
  PROVE  /\ Chat!Recent(q) \in Chat!Query
         /\ \A d \in Dates \cup {None} : [Chat!Recent(q) EXCEPT !.date = d] \in Chat!Query
         /\ q.news < MaxNews => [q EXCEPT !.news = @ + 1] \in Chat!Query
         /\ [q EXCEPT !.offset = IF @ = 0 THEN 0 ELSE @ - 1] \in Chat!Query
         /\ q.limit < MessageWindow => [q EXCEPT !.limit = @ + 1] \in Chat!Query
         /\ [q EXCEPT !.offset = @ + 1].offset <= MaxOffset => [q EXCEPT !.offset = @ + 1] \in Chat!Query
<1>1. \A d \in Dates \cup {None}, r \in Chat!Query : [r EXCEPT !.date = d] \in Chat!Query
  BY DEF Chat!Query
<1>2. /\ q.news < MaxNews => [q EXCEPT !.news = @ + 1] \in Chat!Query
      /\ [q EXCEPT !.offset = IF @ = 0 THEN 0 ELSE @ - 1] \in Chat!Query
      /\ q.limit < MessageWindow => [q EXCEPT !.limit = @ + 1] \in Chat!Query
      /\ [q EXCEPT !.offset = @ + 1].offset <= MaxOffset => [q EXCEPT !.offset = @ + 1] \in Chat!Query
  BY Bounds DEF Chat!Query
<1> QED BY <1>1, <1>2, ChatRecent

LEMMA ChatInit == Chat!Init => Chat!TypeOK
<1> SUFFICES ASSUME Chat!Init PROVE Chat!TypeOK
  OBVIOUS
<1>1. query \in Chat!Query
  BY Bounds DEF Chat!Init, Chat!InitPage, Chat!Query
<1>2. clicks \in 0 .. MaxClicks /\ handlers \in 0 .. 2 /\ asked = None /\ shown = None /\ soon = {}
  BY Bounds DEF Chat!Init, Chat!InitPage
<1>3. /\ connected = FALSE /\ ready = TRUE /\ visible \in BOOLEAN /\ dirty = TRUE /\ overlay = visible
      /\ liveTimer = FALSE /\ panel = FALSE
  BY DEF Chat!Init, Chat!InitPage
<1> QED BY <1>1, <1>2, <1>3 DEF Chat!TypeOK, Chat!TypePage

LEMMA ChatTypes == Chat!TypeOK /\ [Chat!Next]_(Chat!vars) => Chat!TypeOK'
<1> SUFFICES ASSUME Chat!TypeOK, [Chat!Next]_(Chat!vars) PROVE Chat!TypeOK'
  OBVIOUS
<1> USE DEF Chat!TypeOK, Chat!TypePage, Chat!linkVars, Chat!ownVars
<1>0. ASSUME NEW q \in Chat!Query, Chat!rebuild(q)
      PROVE  /\ query' \in Chat!Query /\ dirty' \in BOOLEAN
             /\ asked' \in Chat!Query \cup {None} /\ (asked' # None => handlers > 0 /\ connected)
  BY <1>0 DEF Chat!rebuild, Chat!Ready
<1>1. Chat!Click => clicks' \in 0 .. MaxClicks
  BY Bounds DEF Chat!Click
<1>2. CASE Chat!Show \/ Chat!Hide \/ Chat!preload \/ Chat!openFilterPanel
  BY <1>2 DEF Chat!Show, Chat!Hide, Chat!triggerLoadIfNeeded, Chat!preload, Chat!openFilterPanel,
              Chat!pageVars
<1>3. CASE Chat!setPoeInfoClient
  <2>0. handlers \in 0 .. 2 /\ query \in Chat!Query
    OBVIOUS
  <2>1. Chat!OneMore \in 0 .. 2 /\ Chat!OneMore > 0 /\ Chat!Recent(query) \in Chat!Query
    BY <2>0, OneMoreCounts, ChatQueries
  <2>2. /\ query' \in Chat!Query /\ asked' \in Chat!Query \cup {None} /\ dirty' \in BOOLEAN
        /\ handlers' \in 0 .. 2 /\ handlers' > 0 /\ connected'
    BY <1>3, <2>1 DEF Chat!setPoeInfoClient
  <2> QED BY <1>3, <2>2 DEF Chat!setPoeInfoClient, Chat!triggerLoadIfNeeded
<1>4. CASE Chat!Disconnect \/ Chat!Answer \/ Chat!AnswerError
  BY <1>4 DEF Chat!Disconnect, Chat!DropLink, Chat!showError, Chat!Answer, Chat!AnswerError
<1>5. ASSUME NEW what \in {"load", "preload", "again"}, Chat!Soon(what) PROVE Chat!TypeOK'
  BY <1>0, <1>5, ChatQueries DEF Chat!Soon, Chat!reload
<1>6. ASSUME NEW c \in Channels, NEW bulk \in BOOLEAN, Chat!onLiveChat(c, bulk) PROVE Chat!TypeOK'
  <2> DEFINE q == [query EXCEPT !.news = @ + 1]
  <2>1. q \in Chat!Query
    BY <1>6, ChatQueries DEF Chat!onLiveChat
  <2>2. /\ \/ Chat!rebuild(q)
           \/ query' = q /\ dirty' \in BOOLEAN /\ asked' = asked
        /\ liveTimer' \in BOOLEAN
        /\ UNCHANGED <<Chat!linkVars, visible, shown, overlay, soon, clicks, panel>>
    BY <1>6 DEF Chat!onLiveChat
  <2> HIDE DEF q
  <2> QED BY <1>0, <2>1, <2>2
<1>7. CASE Chat!LiveTimer
  BY <1>0, <1>7 DEF Chat!LiveTimer
<1>8. CASE Chat!Filter \/ Chat!LoadPrevious \/ Chat!LoadNext \/ Chat!jumpToLiveView
           \/ \E d \in Dates \cup {None} : Chat!PickDate(d)
  <2>1. \E q \in Chat!Query : Chat!rebuild(q)
    <3>1. CASE Chat!Filter
      <4>1. PICK ticked \in Choices : Chat!applyFilterChange(ticked)
        BY <3>1 DEF Chat!Filter
      <4> QED BY <4>1, ChatFiltered DEF Chat!applyFilterChange
    <3>2. CASE Chat!LoadPrevious
      <4> DEFINE q == IF query.limit < MessageWindow THEN [query EXCEPT !.limit = @ + 1]
                      ELSE [query EXCEPT !.offset = @ + 1]
      <4>1. Chat!rebuild(q) /\ q.offset <= MaxOffset
        BY <3>2 DEF Chat!LoadPrevious, Chat!rebuild
      <4>2. q \in Chat!Query
        BY <4>1, ChatQueries
      <4> HIDE DEF q
      <4> QED BY <4>1, <4>2
    <3>3. CASE Chat!LoadNext
      <4> DEFINE q == [query EXCEPT !.offset = IF @ = 0 THEN 0 ELSE @ - 1]
      <4>1. Chat!rebuild(q) /\ q \in Chat!Query
        BY <3>3, ChatQueries DEF Chat!LoadNext
      <4> HIDE DEF q
      <4> QED BY <4>1
    <3>4. CASE Chat!jumpToLiveView \/ \E d \in Dates \cup {None} : Chat!PickDate(d)
      <4>1. PICK d \in Dates \cup {None} : Chat!rebuild([Chat!Recent(query) EXCEPT !.date = d])
        BY <3>4 DEF Chat!jumpToLiveView, Chat!PickDate
      <4>2. [Chat!Recent(query) EXCEPT !.date = d] \in Chat!Query
        BY ChatQueries
      <4> QED BY <4>1, <4>2
    <3> QED BY <1>8, <3>1, <3>2, <3>3, <3>4
  <2>2. /\ Chat!Click /\ panel' \in BOOLEAN
        /\ UNCHANGED <<Chat!linkVars, visible, shown, overlay, soon, liveTimer>>
    BY <1>8 DEF Chat!Filter, Chat!LoadPrevious, Chat!LoadNext, Chat!jumpToLiveView, Chat!PickDate,
                Chat!MessagesShown
  <2> QED BY <1>0, <1>1, <2>1, <2>2
<1>9. CASE Chat!setShowGuildTags
  <2> DEFINE q == [query EXCEPT !.news = @ + 1]
  <2>1. q \in Chat!Query
    BY <1>9, ChatQueries DEF Chat!setShowGuildTags
  <2>2. /\ \/ Chat!rebuild(q)
           \/ query' = q /\ dirty' \in BOOLEAN /\ asked' = asked
        /\ UNCHANGED <<Chat!linkVars, visible, shown, overlay, soon, clicks, Chat!ownVars>>
    BY <1>9 DEF Chat!setShowGuildTags
  <2> HIDE DEF q
  <2> QED BY <1>0, <2>1, <2>2
<1>10. CASE UNCHANGED Chat!vars
  BY <1>10 DEF Chat!vars, Chat!pageVars
<1> QED BY <1>2, <1>3, <1>4, <1>5, <1>6, <1>7, <1>8, <1>9, <1>10 DEF Chat!Next

(* Every step of the page is one of PageLoad, or leaves it as it is.       *)
LEMMA ChatLoads ==
  ASSUME Chat!TypeOK, Chat!TypeOK', OnChat(Chat!Next)
  PROVE  [Implements!Next]_(Implements!loadVars)
<1>1. part = "chat" /\ part' = "chat" /\ Chat!Next
  BY DEF OnChat, OnPage, NoPage
<1>2. None \notin Chat!Query
  BY QueryAssumption
<1> USE <1>1, <1>2 DEF Chat!TypeOK, Chat!TypePage, Chat!linkVars, Chat!ownVars,
      Implements!Next, Implements!loadVars, Implements!Want, Implements!Ask
<1> HIDE DEF Chat!Query
<1>3. ASSUME NEW q, Chat!rebuild(q), UNCHANGED <<shown, liveTimer>> \/ (liveTimer' = FALSE /\ shown' = shown)
      PROVE  [Implements!Next]_(Implements!loadVars)
  BY <1>3 DEF Chat!rebuild
<1>4. CASE Chat!Show \/ Chat!Hide \/ Chat!preload \/ Chat!openFilterPanel
  BY <1>4 DEF Chat!Show, Chat!Hide, Chat!preload, Chat!openFilterPanel, Chat!pageVars
<1>5. CASE Chat!setPoeInfoClient
  BY <1>5 DEF Chat!setPoeInfoClient
<1>6. CASE Chat!Disconnect \/ Chat!AnswerError
  BY <1>6 DEF Chat!Disconnect, Chat!DropLink, Chat!showError, Chat!AnswerError, Implements!Fail
<1>7. CASE Chat!Answer
  BY <1>7 DEF Chat!Answer, Implements!Answer
<1>8. ASSUME NEW what \in {"load", "preload", "again"}, Chat!Soon(what)
      PROVE  [Implements!Next]_(Implements!loadVars)
  BY <1>3, <1>8 DEF Chat!Soon, Chat!reload
<1>9. ASSUME NEW c \in Channels, NEW bulk \in BOOLEAN, Chat!onLiveChat(c, bulk)
      PROVE  [Implements!Next]_(Implements!loadVars)
  BY <1>3, <1>9 DEF Chat!onLiveChat
<1>10. CASE Chat!LiveTimer
  BY <1>3, <1>10 DEF Chat!LiveTimer
<1>11. CASE Chat!Filter \/ Chat!LoadPrevious \/ Chat!LoadNext \/ Chat!jumpToLiveView
           \/ \E d \in Dates \cup {None} : Chat!PickDate(d)
  BY <1>3, <1>11 DEF Chat!Filter, Chat!applyFilterChange, Chat!LoadPrevious, Chat!LoadNext,
                     Chat!jumpToLiveView, Chat!PickDate
<1>12. CASE Chat!setShowGuildTags
  BY <1>3, <1>12 DEF Chat!setShowGuildTags
<1> QED BY <1>4, <1>5, <1>6, <1>7, <1>8, <1>9, <1>10, <1>11, <1>12 DEF Chat!Next
-----------------------------------------------------------------------------
(* DmPage.                                                                 *)
LEMMA DmRecent == ASSUME NEW q \in Dm!Query PROVE Dm!Recent(q) \in Dm!Query
<1> DEFINE r == [q EXCEPT !.limit = InitialLimit]
<1>1. r \in Dm!Query
  BY Bounds DEF Dm!Query
<1> HIDE DEF r
<1>2. [r EXCEPT !.offset = 0] \in Dm!Query
  BY <1>1, Bounds DEF Dm!Query
<1>3. Dm!Recent(q) = [r EXCEPT !.offset = 0]
  BY DEF Dm!Recent, r
<1> QED BY <1>2, <1>3

(* What the page makes of a query is a query.                              *)
LEMMA DmQueries ==
  ASSUME NEW q \in Dm!Query
  PROVE  /\ Dm!Recent(q) \in Dm!Query
         /\ \A p \in Partners \cup {None} : [Dm!Recent(q) EXCEPT !.player = p] \in Dm!Query
         /\ q.news < MaxNews => [q EXCEPT !.news = @ + 1] \in Dm!Query
         /\ [q EXCEPT !.offset = IF @ = 0 THEN 0 ELSE @ - 1] \in Dm!Query
         /\ q.limit < MessageWindow => [q EXCEPT !.limit = @ + 1] \in Dm!Query
         /\ [q EXCEPT !.offset = @ + 1].offset <= MaxOffset => [q EXCEPT !.offset = @ + 1] \in Dm!Query
<1>1. \A p \in Partners \cup {None}, r \in Dm!Query : [r EXCEPT !.player = p] \in Dm!Query
  BY DEF Dm!Query
<1>2. /\ q.news < MaxNews => [q EXCEPT !.news = @ + 1] \in Dm!Query
      /\ [q EXCEPT !.offset = IF @ = 0 THEN 0 ELSE @ - 1] \in Dm!Query
      /\ q.limit < MessageWindow => [q EXCEPT !.limit = @ + 1] \in Dm!Query
      /\ [q EXCEPT !.offset = @ + 1].offset <= MaxOffset => [q EXCEPT !.offset = @ + 1] \in Dm!Query
  BY Bounds DEF Dm!Query
<1> QED BY <1>1, <1>2, DmRecent

LEMMA DmInit == Dm!Init => Dm!TypeOK
<1> SUFFICES ASSUME Dm!Init PROVE Dm!TypeOK
  OBVIOUS
<1>1. query \in Dm!Query
  BY Bounds DEF Dm!Init, Dm!InitPage, Dm!Query
<1>2. clicks \in 0 .. MaxClicks /\ handlers \in 0 .. 2 /\ asked = None /\ shown = None /\ soon = {}
  BY Bounds DEF Dm!Init, Dm!InitPage
<1>3. /\ connected = FALSE /\ ready = TRUE /\ visible \in BOOLEAN /\ dirty = TRUE /\ overlay = visible
      /\ liveTimer = FALSE /\ panel = FALSE
  BY DEF Dm!Init, Dm!InitPage
<1> QED BY <1>1, <1>2, <1>3 DEF Dm!TypeOK, Dm!TypePage

LEMMA DmTypes == Dm!TypeOK /\ [Dm!Next]_(Dm!vars) => Dm!TypeOK'
<1> SUFFICES ASSUME Dm!TypeOK, [Dm!Next]_(Dm!vars) PROVE Dm!TypeOK'
  OBVIOUS
<1> USE DEF Dm!TypeOK, Dm!TypePage, Dm!linkVars, Dm!ownVars
<1>0. ASSUME NEW q \in Dm!Query, Dm!rebuild(q)
      PROVE  /\ query' \in Dm!Query /\ dirty' \in BOOLEAN
             /\ asked' \in Dm!Query \cup {None} /\ (asked' # None => handlers > 0 /\ connected)
  BY <1>0 DEF Dm!rebuild, Dm!Ready
<1>1. Dm!Click => clicks' \in 0 .. MaxClicks
  BY Bounds DEF Dm!Click
<1>2. CASE Dm!Show \/ Dm!Hide \/ Dm!preload \/ Dm!openFilterPanel
  BY <1>2 DEF Dm!Show, Dm!Hide, Dm!triggerLoadIfNeeded, Dm!preload, Dm!openFilterPanel, Dm!pageVars
<1>3. CASE Dm!setPoeInfoClient
  <2>0. handlers \in 0 .. 2 /\ query \in Dm!Query
    OBVIOUS
  <2>1. Dm!OneMore \in 0 .. 2 /\ Dm!OneMore > 0 /\ Dm!Recent(query) \in Dm!Query
    BY <2>0, OneMoreCounts, DmQueries
  <2>2. /\ query' \in Dm!Query /\ asked' \in Dm!Query \cup {None} /\ dirty' \in BOOLEAN
        /\ handlers' \in 0 .. 2 /\ handlers' > 0 /\ connected'
    BY <1>3, <2>1 DEF Dm!setPoeInfoClient
  <2> QED BY <1>3, <2>2 DEF Dm!setPoeInfoClient, Dm!triggerLoadIfNeeded
<1>4. CASE Dm!Disconnect \/ Dm!Answer \/ Dm!AnswerError
  BY <1>4 DEF Dm!Disconnect, Dm!DropLink, Dm!showError, Dm!Answer, Dm!AnswerError
<1>5. ASSUME NEW what \in {"load", "preload", "again"}, Dm!Soon(what) PROVE Dm!TypeOK'
  BY <1>0, <1>5, DmQueries DEF Dm!Soon, Dm!reload
<1>6. ASSUME NEW bulk \in BOOLEAN, Dm!onLiveWhisper(bulk) PROVE Dm!TypeOK'
  <2> DEFINE q == [query EXCEPT !.news = @ + 1]
  <2>1. q \in Dm!Query
    BY <1>6, DmQueries DEF Dm!onLiveWhisper
  <2>2. /\ \/ Dm!rebuild(q)
           \/ query' = q /\ dirty' \in BOOLEAN /\ asked' = asked
        /\ liveTimer' \in BOOLEAN
        /\ UNCHANGED <<Dm!linkVars, visible, shown, overlay, soon, clicks, panel>>
    BY <1>6 DEF Dm!onLiveWhisper
  <2> HIDE DEF q
  <2> QED BY <1>0, <2>1, <2>2
<1>7. CASE Dm!LiveTimer
  BY <1>0, <1>7 DEF Dm!LiveTimer
<1>8. CASE \/ Dm!LoadPrevious \/ Dm!LoadNext \/ Dm!jumpToLiveView
           \/ \E p \in Partners \cup {None} : Dm!SelectPlayer(p) \/ Dm!filterLeafSelected(p)
  <2>1. (\E q \in Dm!Query : Dm!rebuild(q)) \/ UNCHANGED <<dirty, query, asked>>
    <3>1. CASE Dm!LoadPrevious
      <4> DEFINE q == IF query.limit < MessageWindow THEN [query EXCEPT !.limit = @ + 1]
                      ELSE [query EXCEPT !.offset = @ + 1]
      <4>1. Dm!rebuild(q) /\ q.offset <= MaxOffset
        BY <3>1 DEF Dm!LoadPrevious, Dm!rebuild
      <4>2. q \in Dm!Query
        BY <4>1, DmQueries
      <4> HIDE DEF q
      <4> QED BY <4>1, <4>2
    <3>2. CASE Dm!LoadNext
      <4> DEFINE q == [query EXCEPT !.offset = IF @ = 0 THEN 0 ELSE @ - 1]
      <4>1. Dm!rebuild(q) /\ q \in Dm!Query
        BY <3>2, DmQueries DEF Dm!LoadNext
      <4> HIDE DEF q
      <4> QED BY <4>1
    <3>3. CASE Dm!jumpToLiveView
      BY <3>3, DmQueries DEF Dm!jumpToLiveView
    <3>4. CASE \E p \in Partners \cup {None} : Dm!SelectPlayer(p) \/ Dm!filterLeafSelected(p)
      <4>1. PICK p \in Partners \cup {None} : Dm!onPlayerSelected(p)
        BY <3>4 DEF Dm!SelectPlayer, Dm!filterLeafSelected
      <4>2. [Dm!Recent(query) EXCEPT !.player = p] \in Dm!Query
        BY DmQueries
      <4> QED BY <4>1, <4>2 DEF Dm!onPlayerSelected
    <3> QED BY <1>8, <3>1, <3>2, <3>3, <3>4
  <2>2. /\ Dm!Click /\ panel' \in BOOLEAN
        /\ UNCHANGED <<Dm!linkVars, visible, shown, overlay, soon, liveTimer>>
    BY <1>8 DEF Dm!LoadPrevious, Dm!LoadNext, Dm!jumpToLiveView, Dm!SelectPlayer,
                Dm!filterLeafSelected, Dm!MessagesShown
  <2> QED BY <1>0, <1>1, <2>1, <2>2
<1>9. CASE Dm!setShowGuildTags
  <2> DEFINE q == [query EXCEPT !.news = @ + 1]
  <2>1. q \in Dm!Query
    BY <1>9, DmQueries DEF Dm!setShowGuildTags
  <2>2. /\ \/ Dm!rebuild(q)
           \/ query' = q /\ dirty' \in BOOLEAN /\ asked' = asked
        /\ UNCHANGED <<Dm!linkVars, visible, shown, overlay, soon, clicks, Dm!ownVars>>
    BY <1>9 DEF Dm!setShowGuildTags
  <2> HIDE DEF q
  <2> QED BY <1>0, <2>1, <2>2
<1>10. CASE UNCHANGED Dm!vars
  BY <1>10 DEF Dm!vars, Dm!pageVars
<1> QED BY <1>2, <1>3, <1>4, <1>5, <1>6, <1>7, <1>8, <1>9, <1>10 DEF Dm!Next

(* Every step of the page is one of PageLoad, or leaves it as it is.       *)
LEMMA DmLoads ==
  ASSUME Dm!TypeOK, Dm!TypeOK', OnDm(Dm!Next)
  PROVE  [Implements!Next]_(Implements!loadVars)
<1>1. part = "dm" /\ part' = "dm" /\ Dm!Next
  BY DEF OnDm, OnPage, NoPage
<1>2. None \notin Dm!Query
  BY QueryAssumption
<1> USE <1>1, <1>2 DEF Dm!TypeOK, Dm!TypePage, Dm!linkVars, Dm!ownVars,
      Implements!Next, Implements!loadVars, Implements!Want, Implements!Ask
<1> HIDE DEF Dm!Query
<1>3. ASSUME NEW q, Dm!rebuild(q), UNCHANGED <<shown, liveTimer>> \/ (liveTimer' = FALSE /\ shown' = shown)
      PROVE  [Implements!Next]_(Implements!loadVars)
  BY <1>3 DEF Dm!rebuild
<1>4. CASE Dm!Show \/ Dm!Hide \/ Dm!preload \/ Dm!openFilterPanel
  BY <1>4 DEF Dm!Show, Dm!Hide, Dm!preload, Dm!openFilterPanel, Dm!pageVars
<1>5. CASE Dm!setPoeInfoClient
  BY <1>5 DEF Dm!setPoeInfoClient
<1>6. CASE Dm!Disconnect \/ Dm!AnswerError
  BY <1>6 DEF Dm!Disconnect, Dm!DropLink, Dm!showError, Dm!AnswerError, Implements!Fail
<1>7. CASE Dm!Answer
  BY <1>7 DEF Dm!Answer, Implements!Answer
<1>8. ASSUME NEW what \in {"load", "preload", "again"}, Dm!Soon(what)
      PROVE  [Implements!Next]_(Implements!loadVars)
  BY <1>3, <1>8 DEF Dm!Soon, Dm!reload
<1>9. ASSUME NEW bulk \in BOOLEAN, Dm!onLiveWhisper(bulk) PROVE [Implements!Next]_(Implements!loadVars)
  BY <1>3, <1>9 DEF Dm!onLiveWhisper
<1>10. CASE Dm!LiveTimer
  BY <1>3, <1>10 DEF Dm!LiveTimer
<1>11. CASE \/ Dm!LoadPrevious \/ Dm!LoadNext \/ Dm!jumpToLiveView
            \/ \E p \in Partners \cup {None} : Dm!SelectPlayer(p) \/ Dm!filterLeafSelected(p)
  BY <1>3, <1>11 DEF Dm!LoadPrevious, Dm!LoadNext, Dm!jumpToLiveView, Dm!SelectPlayer,
                     Dm!filterLeafSelected,
                     Dm!onPlayerSelected
<1>12. CASE Dm!setShowGuildTags
  BY <1>3, <1>12 DEF Dm!setShowGuildTags
<1> QED BY <1>4, <1>5, <1>6, <1>7, <1>8, <1>9, <1>10, <1>11, <1>12 DEF Dm!Next
-----------------------------------------------------------------------------
(* LogPage.                                                                *)
(* What the page makes of a query is a query.                              *)
LEMMA LogQueries ==
  ASSUME NEW q \in Log!Query
  PROVE  /\ Log!Recent(q) \in Log!Query
         /\ q.news < MaxNews => [q EXCEPT !.news = @ + 1] \in Log!Query
         /\ [q EXCEPT !.offset = IF @ = 0 THEN 0 ELSE @ - 1] \in Log!Query
         /\ q.limit < LogWindow => [q EXCEPT !.limit = @ + 1] \in Log!Query
         /\ [q EXCEPT !.offset = @ + 1].offset <= MaxOffset => [q EXCEPT !.offset = @ + 1] \in Log!Query
<1>1. Log!Recent(q) \in Log!Query
  <2> DEFINE r == [q EXCEPT !.limit = InitialLimit]
  <2>1. r \in Log!Query
    BY Bounds DEF Log!Query
  <2> HIDE DEF r
  <2>2. [r EXCEPT !.offset = 0] \in Log!Query
    BY <2>1, Bounds DEF Log!Query
  <2>3. Log!Recent(q) = [r EXCEPT !.offset = 0]
    BY DEF Log!Recent, r
  <2> QED BY <2>2, <2>3
<1> QED BY <1>1, Bounds DEF Log!Query

LEMMA LogInit == Log!Init => Log!TypeOK
<1> SUFFICES ASSUME Log!Init PROVE Log!TypeOK
  OBVIOUS
<1>1. query \in Log!Query
  BY Bounds DEF Log!Init, Log!InitPage, Log!Query
<1>2. clicks \in 0 .. SessionClicks /\ handlers \in 0 .. 2 /\ asked = None /\ shown = None /\ soon = {}
  BY Bounds DEF Log!Init, Log!InitPage
<1>3. /\ connected = FALSE /\ ready = FALSE /\ visible \in BOOLEAN /\ dirty = TRUE /\ overlay = FALSE
      /\ ignored = FALSE
  BY DEF Log!Init, Log!InitPage
<1> QED BY <1>1, <1>2, <1>3 DEF Log!TypeOK, Log!TypePage

LEMMA LogTypes == Log!TypeOK /\ [Log!Next]_(Log!vars) => Log!TypeOK'
<1> SUFFICES ASSUME Log!TypeOK, [Log!Next]_(Log!vars) PROVE Log!TypeOK'
  OBVIOUS
<1> USE DEF Log!TypeOK, Log!TypePage, Log!linkVars
<1>0. ASSUME NEW q \in Log!Query, Log!rebuild(q)
      PROVE  /\ query' \in Log!Query /\ {dirty', ignored'} \subseteq BOOLEAN
             /\ asked' \in Log!Query \cup {None} /\ (asked' # None => handlers > 0 /\ connected)
  BY <1>0 DEF Log!rebuild, Log!Ready
<1>1. Log!Click => clicks' \in 0 .. SessionClicks
  BY Bounds DEF Log!Click
<1>2. CASE Log!Show \/ Log!Hide \/ Log!preload
  BY <1>2 DEF Log!Show, Log!Hide, Log!triggerLoadIfNeeded, Log!preload
<1>3. CASE Log!setPoeInfoClient
  <2>0. handlers \in 0 .. 2 /\ query \in Log!Query
    OBVIOUS
  <2>1. Log!OneMore \in 0 .. 2 /\ Log!OneMore > 0 /\ Log!Recent(query) \in Log!Query
    BY <2>0, OneMoreCounts, LogQueries
  <2>2. /\ query' \in Log!Query /\ asked' \in Log!Query \cup {None} /\ {dirty', ignored'} \subseteq BOOLEAN
        /\ handlers' \in 0 .. 2 /\ handlers' > 0 /\ connected'
    BY <1>3, <2>1 DEF Log!setPoeInfoClient
  <2>3. overlay' \in BOOLEAN /\ soon' \in SUBSET {"load", "preload", "again", "retry"}
    BY <1>3 DEF Log!setPoeInfoClient, Log!triggerLoadIfNeeded
  <2>4. UNCHANGED <<ready, visible, shown, clicks>>
    BY <1>3 DEF Log!setPoeInfoClient
  <2> QED BY <2>2, <2>3, <2>4
<1>4. CASE Log!Disconnect \/ Log!Answer \/ Log!AnswerError
  BY <1>4 DEF Log!Disconnect, Log!DropLink, Log!LoadFailed, Log!Answer, Log!AnswerError
<1>5. ASSUME NEW what \in {"load", "preload", "again", "retry"}, Log!Soon(what) PROVE Log!TypeOK'
  BY <1>0, <1>5 DEF Log!Soon
<1>6. ASSUME NEW r \in BOOLEAN, Log!setSessionsReady(r) PROVE Log!TypeOK'
  BY <1>6 DEF Log!setSessionsReady, Log!triggerLoadIfNeeded
<1>7. CASE Log!onLiveEvent
  BY <1>7, LogQueries DEF Log!onLiveEvent
<1>8. CASE Log!LoadPrevious \/ Log!LoadNext \/ Log!jumpToLiveView
  <2>1. \E q \in Log!Query : Log!rebuild(q)
    <3>1. CASE Log!LoadPrevious
      <4> DEFINE q == IF query.limit < LogWindow THEN [query EXCEPT !.limit = @ + 1]
                      ELSE [query EXCEPT !.offset = @ + 1]
      <4>1. Log!rebuild(q) /\ q.offset <= MaxOffset
        BY <3>1 DEF Log!LoadPrevious, Log!rebuild
      <4>2. q \in Log!Query
        BY <4>1, LogQueries
      <4> HIDE DEF q
      <4> QED BY <4>1, <4>2
    <3>2. CASE Log!LoadNext
      <4> DEFINE q == [query EXCEPT !.offset = IF @ = 0 THEN 0 ELSE @ - 1]
      <4>1. Log!rebuild(q) /\ q \in Log!Query
        BY <3>2, LogQueries DEF Log!LoadNext
      <4> HIDE DEF q
      <4> QED BY <4>1
    <3>3. CASE Log!jumpToLiveView
      BY <3>3, LogQueries DEF Log!jumpToLiveView
    <3> QED BY <1>8, <3>1, <3>2, <3>3
  <2>2. Log!Click /\ UNCHANGED <<Log!linkVars, visible, shown, overlay, soon>>
    BY <1>8 DEF Log!LoadPrevious, Log!LoadNext, Log!jumpToLiveView, Log!SessionsShown
  <2> QED BY <1>0, <1>1, <2>1, <2>2
<1>9. CASE UNCHANGED Log!vars
  BY <1>9 DEF Log!vars, Log!pageVars
<1> QED BY <1>2, <1>3, <1>4, <1>5, <1>6, <1>7, <1>8, <1>9 DEF Log!Next

(* Every step of the page is one of PageLoad, or leaves it as it is.       *)
LEMMA LogLoads ==
  ASSUME Log!TypeOK, Log!TypeOK', OnLog(Log!Next)
  PROVE  [Implements!Next]_(Implements!loadVars)
<1>1. part = "log" /\ part' = "log" /\ Log!Next
  BY DEF OnLog, OnPage, NoPage
<1>2. None \notin Log!Query
  BY QueryAssumption
<1> USE <1>1, <1>2 DEF Log!TypeOK, Log!TypePage, Log!linkVars,
      Implements!Next, Implements!loadVars, Implements!Want, Implements!Ask
<1> HIDE DEF Log!Query
<1>3. ASSUME NEW q, Log!rebuild(q), shown' = shown
      PROVE  [Implements!Next]_(Implements!loadVars)
  BY <1>3 DEF Log!rebuild
<1>4. CASE Log!Show \/ Log!Hide \/ Log!preload \/ \E r \in BOOLEAN : Log!setSessionsReady(r)
  BY <1>4 DEF Log!Show, Log!Hide, Log!preload, Log!setSessionsReady
<1>5. CASE Log!setPoeInfoClient
  BY <1>5 DEF Log!setPoeInfoClient
<1>6. CASE Log!Disconnect \/ Log!AnswerError
  BY <1>6 DEF Log!Disconnect, Log!DropLink, Log!LoadFailed, Log!AnswerError, Implements!Fail
<1>7. CASE Log!Answer
  BY <1>7 DEF Log!Answer, Implements!Answer
<1>8. ASSUME NEW what \in {"load", "preload", "again", "retry"}, Log!Soon(what)
      PROVE  [Implements!Next]_(Implements!loadVars)
  BY <1>3, <1>8 DEF Log!Soon
<1>9. CASE Log!onLiveEvent
  BY <1>9 DEF Log!onLiveEvent
<1>10. CASE Log!LoadPrevious \/ Log!LoadNext \/ Log!jumpToLiveView
  BY <1>3, <1>10 DEF Log!LoadPrevious, Log!LoadNext, Log!jumpToLiveView
<1> QED BY <1>4, <1>5, <1>6, <1>7, <1>8, <1>9, <1>10 DEF Log!Next

-----------------------------------------------------------------------------
(* StashPage.                                                              *)
LEMMA StashNews ==
  ASSUME NEW q \in Stash!Query, q.news < MaxNews
  PROVE  [q EXCEPT !.news = @ + 1] \in Stash!Query
BY Bounds DEF Stash!Query

LEMMA StashInit == Stash!Init => Stash!TypeOK
<1> SUFFICES ASSUME Stash!Init PROVE Stash!TypeOK
  OBVIOUS
<1>1. query \in Stash!Query
  BY Bounds DEF Stash!Init, Stash!InitPage, Stash!Query
<1>2. clicks \in 0 .. MaxClicks /\ handlers \in 0 .. 2 /\ asked = None /\ shown = None /\ soon = {}
  BY Bounds DEF Stash!Init, Stash!InitPage
<1>3. /\ connected = FALSE /\ ready = FALSE /\ visible \in BOOLEAN /\ dirty = TRUE /\ overlay = FALSE
      /\ stage = "list" /\ combo = "loading"
  BY DEF Stash!Init, Stash!InitPage
<1> QED BY <1>1, <1>2, <1>3 DEF Stash!TypeOK, Stash!TypePage

LEMMA StashTypes == Stash!TypeOK /\ [Stash!Next]_(Stash!vars) => Stash!TypeOK'
<1> SUFFICES ASSUME Stash!TypeOK, [Stash!Next]_(Stash!vars) PROVE Stash!TypeOK'
  OBVIOUS
<1> USE DEF Stash!TypeOK, Stash!TypePage, Stash!linkVars, Stash!ownVars
<1> HIDE DEF Stash!Query
<1>1. CASE Stash!Show \/ Stash!Hide \/ Stash!preload
  BY <1>1 DEF Stash!Show, Stash!Hide, Stash!triggerLoadIfNeeded, Stash!preload
<1>2. CASE Stash!setPoeInfoClient
  <2>0. handlers \in 0 .. 2
    OBVIOUS
  <2>1. Stash!OneMore \in 0 .. 2 /\ Stash!OneMore > 0
    BY <2>0, OneMoreCounts
  <2>2. /\ asked' \in Stash!Query \cup {None} /\ dirty' \in BOOLEAN /\ stage' \in {"list", "league"}
        /\ handlers' \in 0 .. 2 /\ handlers' > 0 /\ connected'
    BY <1>2, <2>1 DEF Stash!setPoeInfoClient
  <2>3. soon' \in SUBSET {"load", "preload", "again", "retry"}
    BY <1>2 DEF Stash!setPoeInfoClient, Stash!triggerLoadIfNeeded
  <2>4. UNCHANGED <<ready, visible, query, shown, overlay, clicks, combo>>
    BY <1>2 DEF Stash!setPoeInfoClient
  <2> QED BY <2>2, <2>3, <2>4
<1>3. ASSUME NEW b \in BOOLEAN, Stash!setAuthorized(b) PROVE Stash!TypeOK'
  <2>1. query' \in Stash!Query
    BY <1>3, StashNews DEF Stash!setAuthorized
  <2> QED BY <1>3, <2>1 DEF Stash!setAuthorized, Stash!triggerLoadIfNeeded
<1>4. ASSUME NEW what \in {"load", "preload", "again", "retry"}, Stash!Soon(what) PROVE Stash!TypeOK'
  BY <1>4 DEF Stash!Soon, Stash!rebuild, Stash!Ready
<1>5. CASE Stash!Disconnect
  BY <1>5 DEF Stash!Disconnect, Stash!DropLink, Stash!ListFailed, Stash!applyLeagues
<1>6. CASE Stash!ListAnswer \/ Stash!ListError \/ Stash!LeagueAnswer
  BY <1>6 DEF Stash!ListAnswer, Stash!ListError, Stash!ListFailed, Stash!LeagueAnswer,
              Stash!applyLeagues,
              Stash!pageVars
<1>7. CASE UNCHANGED Stash!vars
  BY <1>7 DEF Stash!vars, Stash!pageVars
<1> QED BY <1>1, <1>2, <1>3, <1>4, <1>5, <1>6, <1>7 DEF Stash!Next

(* Every step of the page is one of PageLoad, or leaves it as it is.       *)
LEMMA StashLoads ==
  ASSUME Stash!TypeOK, Stash!TypeOK', OnStash(Stash!Next)
  PROVE  [Implements!Next]_(Implements!loadVars)
<1>1. part = "stash" /\ part' = "stash" /\ Stash!Next
  BY DEF OnStash, OnPage, NoPage
<1>2. None \notin Stash!Query
  BY QueryAssumption
<1> USE <1>1, <1>2 DEF Stash!TypeOK, Stash!TypePage, Stash!linkVars, Stash!ownVars,
      Implements!Next, Implements!loadVars, Implements!Want, Implements!Ask
<1> HIDE DEF Stash!Query
<1>3. CASE Stash!Show \/ Stash!Hide \/ Stash!preload \/ Stash!ListAnswer
  BY <1>3 DEF Stash!Show, Stash!Hide, Stash!preload, Stash!ListAnswer, Stash!pageVars
<1>4. CASE Stash!setPoeInfoClient
  BY <1>4 DEF Stash!setPoeInfoClient
<1>5. ASSUME NEW b \in BOOLEAN, Stash!setAuthorized(b) PROVE [Implements!Next]_(Implements!loadVars)
  BY <1>5 DEF Stash!setAuthorized
<1>6. ASSUME NEW what \in {"load", "preload", "again", "retry"}, Stash!Soon(what)
      PROVE  [Implements!Next]_(Implements!loadVars)
  BY <1>6 DEF Stash!Soon, Stash!rebuild
<1>7. CASE Stash!Disconnect \/ Stash!ListError
  BY <1>7 DEF Stash!Disconnect, Stash!DropLink, Stash!ListFailed, Stash!applyLeagues, Stash!ListError,
              Implements!Fail, Implements!Answer
<1>8. CASE Stash!LeagueAnswer
  BY <1>8 DEF Stash!LeagueAnswer, Stash!applyLeagues, Implements!Answer
<1> QED BY <1>3, <1>4, <1>5, <1>6, <1>7, <1>8 DEF Stash!Next

-----------------------------------------------------------------------------
(* SessionViewPage.  The header needs that the page is visible only at the *)
(* front of the stack, which is among the types: hiding does not bring it  *)
(* there.                                                                  *)

(* What is wanted may change in its news or its session alone.             *)
LEMMA ViewQueries ==
  ASSUME NEW q \in View!Query
  PROVE  /\ q.news < MaxNews => /\ [q EXCEPT !.news = @ + 1] \in View!Query
                                /\ [q EXCEPT !.news = @ + 1].target = q.target
         /\ \A s \in View!Target : /\ [q EXCEPT !.target = s] \in View!Query
                                   /\ [q EXCEPT !.target = s].target = s
                                   /\ s = q.target => [q EXCEPT !.target = s] = q
BY Bounds DEF View!Query

(* The header's name alone: what is under it at rest follows from what     *)
(* every page promises.                                                    *)
NamesTarget == front /\ query.target # Live => label = query.target

ViewInv == View!TypeOK /\ NamesTarget

(* An event, a game that starts or stops, orphans that were closed.        *)
ViewNews == View!onLiveEvent \/ View!setRunningGames \/ View!markDirty

LEMMA ViewNewsOutdates ==
  ASSUME query \in View!Query, ViewNews
  PROVE  \E q \in View!Query :
           /\ q.target = query.target /\ View!Outdated(q)
           /\ UNCHANGED <<View!linkVars, visible, shown, overlay, soon, clicks, View!ownVars>>
<1> DEFINE q == [query EXCEPT !.news = @ + 1]
<1>1. /\ query.news < MaxNews /\ View!Outdated(q)
      /\ UNCHANGED <<View!linkVars, visible, shown, overlay, soon, clicks, View!ownVars>>
  BY DEF ViewNews, View!onLiveEvent, View!setRunningGames, View!markDirty
<1>2. q \in View!Query /\ q.target = query.target
  BY <1>1, ViewQueries
<1> HIDE DEF q
<1> QED BY <1>1, <1>2

LEMMA ViewInit == View!Init => ViewInv
<1> SUFFICES ASSUME View!Init PROVE ViewInv
  OBVIOUS
<1>1. query \in View!Query /\ query.target = Live
  BY Bounds DEF View!Init, View!InitPage, View!Query, View!Target
<1>2. clicks \in 0 .. SessionClicks /\ handlers \in 0 .. 2 /\ asked = None /\ shown = None /\ soon = {}
  BY Bounds DEF View!Init, View!InitPage
<1>3. /\ connected = FALSE /\ ready = TRUE /\ visible \in BOOLEAN /\ dirty = FALSE /\ overlay = FALSE
      /\ label = None /\ front = visible /\ frozen = FALSE
  BY DEF View!Init, View!InitPage
<1>4. shown # Error
  BY <1>2, PageAssumption
<1> QED BY <1>1, <1>2, <1>3, <1>4 DEF ViewInv, NamesTarget, View!TypeOK, View!TypePage

LEMMA ViewTypes == ViewInv /\ [View!Next]_(View!vars) => ViewInv'
<1> SUFFICES ASSUME ViewInv, [View!Next]_(View!vars) PROVE ViewInv'
  OBVIOUS
<1> USE DEF ViewInv, NamesTarget, View!TypeOK, View!TypePage, View!linkVars, View!ownVars
<1> HIDE DEF View!Query, View!Target
<1>0. View!Shown(dirty) \/ View!Shown(dirty') =>
        (dirty' \in BOOLEAN => overlay' \in BOOLEAN /\ soon' \in SUBSET {"load", "preload", "retry"})
  BY DEF View!Shown, View!triggerLoadIfNeeded
<1>1. CASE View!Show \/ View!Hide \/ View!preload \/ View!appendLiveWidget
  <2>1. CASE View!Show
    BY <1>0, <2>1 DEF View!Show
  <2>2. CASE View!Hide
    BY <2>2 DEF View!Hide
  <2>3. CASE View!preload
    BY <2>3 DEF View!preload
  <2>4. CASE View!appendLiveWidget
    <3>1. frozen' \in BOOLEAN /\ UNCHANGED <<View!pageVars, label, front>>
      BY <2>4 DEF View!appendLiveWidget
    <3> QED BY <3>1 DEF View!pageVars
  <2> QED BY <1>1, <2>1, <2>2, <2>3, <2>4
<1>2. CASE View!setPoeInfoClient
  <2>0. handlers \in 0 .. 2
    OBVIOUS
  <2>1. View!OneMore \in 0 .. 2 /\ View!OneMore > 0
    BY <2>0, OneMoreCounts
  <2>2. /\ asked' \in View!Query \cup {None} /\ dirty' \in BOOLEAN
        /\ handlers' \in 0 .. 2 /\ handlers' > 0 /\ connected'
    BY <1>2, <2>1 DEF View!setPoeInfoClient
  <2>3. overlay' \in BOOLEAN /\ soon' \in SUBSET {"load", "preload", "retry"}
    BY <1>2 DEF View!setPoeInfoClient, View!triggerLoadIfNeeded
  <2>4. UNCHANGED <<ready, visible, query, shown, clicks, View!ownVars>>
    BY <1>2 DEF View!setPoeInfoClient
  <2> QED BY <2>2, <2>3, <2>4
<1>3. CASE View!Disconnect \/ View!Answer \/ View!AnswerError
  <2>1. CASE View!Disconnect
    BY <2>1 DEF View!Disconnect, View!DropLink, View!LoadFailed
  <2>2. CASE View!Answer
    BY <2>2, QueryAssumption DEF View!Answer
  <2>3. CASE View!AnswerError
    BY <2>3 DEF View!AnswerError, View!LoadFailed
  <2> QED BY <1>3, <2>1, <2>2, <2>3
<1>4. ASSUME NEW what \in {"load", "preload", "retry"}, View!Soon(what) PROVE ViewInv'
  BY <1>4 DEF View!Soon, View!rebuildDbZones, View!Ready
<1>5. ASSUME NEW t \in View!Target, View!preloadSession(t) PROVE ViewInv'
  <2> DEFINE q == [query EXCEPT !.target = t]
  <2>1. q \in View!Query /\ q.target = t
    BY ViewQueries
  <2>2. clicks' \in 0 .. SessionClicks
    BY <1>5, Bounds DEF View!preloadSession
  <2>3. query' = q
    BY <1>5 DEF View!preloadSession
  <2> HIDE DEF q
  <2> QED BY <1>5, <2>1, <2>2, <2>3 DEF View!preloadSession
<1>8. ASSUME NEW s \in Sessions, NEW t \in View!RowAsksFor(s), View!viewSession(s, t) PROVE ViewInv'
  <2> DEFINE q == [query EXCEPT !.target = t]
  <2>1. t \in View!Target /\ (t # Live => t = s)
    BY DEF View!RowAsksFor, View!Target
  <2>2. q \in View!Query /\ q.target = t
    BY <2>1, ViewQueries
  <2>3. clicks' \in 0 .. SessionClicks
    BY <1>8, Bounds DEF View!viewSession
  <2>4. query' = q /\ UNCHANGED <<View!linkVars, asked, shown>>
    BY <1>8 DEF View!viewSession
  <2> HIDE DEF q
  <2>5. /\ dirty' \in BOOLEAN /\ frozen' \in BOOLEAN /\ View!Shown(dirty')
        /\ front' = TRUE /\ visible' = TRUE /\ label' = s
    BY <1>8 DEF View!viewSession
  <2> QED BY <1>0, <2>1, <2>2, <2>3, <2>4, <2>5
<1>6. CASE ViewNews
  <2>1. PICK q \in View!Query :
          /\ q.target = query.target /\ View!Outdated(q)
          /\ UNCHANGED <<View!linkVars, visible, shown, overlay, soon, clicks, View!ownVars>>
    BY <1>6, ViewNewsOutdates
  <2>2. /\ query' = q /\ dirty' \in BOOLEAN /\ asked' \in View!Query \cup {None}
        /\ asked' # None => handlers > 0 /\ connected
    BY <2>1 DEF View!Outdated, View!rebuildDbZones, View!Ready
  <2> QED BY <2>1, <2>2
<1>7. CASE UNCHANGED View!vars
  BY <1>7 DEF View!vars, View!pageVars
<1> QED BY <1>1, <1>2, <1>3, <1>4, <1>5, <1>6, <1>7, <1>8 DEF View!Next, ViewNews

(* Every step of the page is one of PageLoad, or leaves it as it is.       *)
LEMMA ViewLoads ==
  ASSUME View!TypeOK, View!TypeOK', OnSession(View!Next)
  PROVE  [Implements!Next]_(Implements!loadVars)
<1>1. part = "session" /\ part' = "session" /\ View!Next
  BY DEF OnSession, OnPage, NoPage
<1>2. None \notin View!Query
  BY QueryAssumption
<1> USE <1>1, <1>2 DEF View!TypeOK, View!TypePage, View!linkVars, View!ownVars,
      Implements!Next, Implements!loadVars, Implements!Want, Implements!Ask
<1> HIDE DEF View!Query, View!Target
<1>3. CASE View!Show \/ View!Hide \/ View!preload \/ View!appendLiveWidget
  BY <1>3 DEF View!Show, View!Hide, View!preload, View!appendLiveWidget, View!pageVars
<1>4. CASE View!setPoeInfoClient
  <2>1. handlers' > 0
    BY <1>4, OneMoreCounts DEF View!setPoeInfoClient
  <2> QED BY <1>4, <2>1 DEF View!setPoeInfoClient
<1>5. CASE View!Disconnect \/ View!AnswerError
  BY <1>5 DEF View!Disconnect, View!DropLink, View!LoadFailed, View!AnswerError, Implements!Fail
<1>6. ASSUME NEW what \in {"load", "preload", "retry"}, View!Soon(what)
      PROVE  [Implements!Next]_(Implements!loadVars)
  BY <1>6 DEF View!Soon, View!rebuildDbZones
<1>7. ASSUME NEW t \in View!Target, View!preloadSession(t)
      PROVE  [Implements!Next]_(Implements!loadVars)
  BY <1>7 DEF View!preloadSession
<1>8. ASSUME NEW s \in Sessions, NEW t \in View!RowAsksFor(s), View!viewSession(s, t)
      PROVE  [Implements!Next]_(Implements!loadVars)
  <2>1. t \in View!Target
    BY DEF View!RowAsksFor, View!Target
  <2> QED BY <1>8, <2>1, ViewQueries DEF View!viewSession
<1>9. CASE ViewNews
  <2>1. PICK q \in View!Query :
          /\ q.target = query.target /\ View!Outdated(q)
          /\ UNCHANGED <<View!linkVars, visible, shown, overlay, soon, clicks, View!ownVars>>
    BY <1>9, ViewNewsOutdates
  <2> QED BY <2>1 DEF View!Outdated, View!rebuildDbZones
<1>10. CASE View!Answer
  BY <1>10 DEF View!Answer, Implements!Answer
<1> QED BY <1>3, <1>4, <1>5, <1>6, <1>7, <1>8, <1>9, <1>10 DEF View!Next, ViewNews

-----------------------------------------------------------------------------
(* Shell.                                                                  *)

(* What the bar highlights follows from its three fields; the invariant    *)
(* says of each what it is when.                                           *)
Fields ==
  /\ current \in Shell!NavTab /\ gear \in BOOLEAN /\ search \in BOOLEAN /\ stack \in Shell!Tab
  /\ gear <=> stack = "settings"
  /\ search <=> stack = "search"
  /\ stack \in {"settings", "search"} \/ current = Shell!Parent(stack)

USE DEF Shell!NavTab, Shell!Tab, Shell!Parent

LEMMA FieldsHighlight == Fields => Shell!NavAgrees
BY DEF Fields, Shell!NavAgrees, Shell!Highlighted

(* A tab leads to its own page.                                            *)
LEMMA TabKeepsFields ==
  ASSUME Fields, NEW tab \in Shell!NavTab, Shell!setCurrentIndex(tab), stack' = tab
  PROVE  Fields'
BY DEF Fields, Shell!setCurrentIndex

LEMMA SettingsKeepFields ==
  ASSUME Fields, Shell!showSettings
  PROVE  Fields'
BY DEF Fields, Shell!showSettings, Shell!setGearActive, Shell!Shows

LEMMA LinkKeepsFields ==
  ASSUME Fields, Shell!OpenUnder
  PROVE  Fields'
BY DEF Fields, Shell!OpenUnder, Shell!OpenPage, Shell!Shows, Shell!navVars

LEMMA InitFields == Shell!Init => Fields
BY DEF Shell!Init, Fields

LEMMA StepKeepsFields == Fields /\ [Shell!Next]_(Shell!shellVars) => Fields'
<1> SUFFICES ASSUME Fields, [Shell!Next]_(Shell!shellVars) PROVE Fields'
  OBVIOUS
<1>1. ASSUME NEW tab \in Shell!NavTab, Shell!ClickTab(tab) PROVE Fields'
  <2>1. CASE tab = current /\ ~gear /\ ~search
    BY <1>1, <2>1 DEF Shell!ClickTab, Fields, Shell!navVars
  <2>2. CASE ~(tab = current /\ ~gear /\ ~search)
    BY <1>1, <2>2, TabKeepsFields DEF Shell!ClickTab, Shell!onTabChanged, Shell!Shows
  <2> QED
    BY <2>1, <2>2
<1>2. CASE Shell!onGearClicked
  <2>1. CASE stack = "settings"
    BY <1>2, <2>1, TabKeepsFields DEF Shell!onGearClicked, Shell!onTabChanged, Shell!Shows, Fields
  <2>2. CASE stack # "settings"
    BY <1>2, <2>2, SettingsKeepFields DEF Shell!onGearClicked
  <2> QED
    BY <2>1, <2>2
<1>3. CASE Shell!onSearchClicked
  BY <1>3 DEF Shell!onSearchClicked, Shell!setSearchActive, Fields
<1>4. CASE Shell!OpenUnder
  BY <1>4, LinkKeepsFields
<1>5. CASE Shell!addClicked \/ Shell!loginRequested \/ Shell!TraySettings
  BY <1>5, SettingsKeepFields DEF Shell!addClicked, Shell!loginRequested, Shell!LeadsTo,
                                  Shell!TraySettings
<1>6. CASE Shell!HideWindow \/ Shell!showWindow \/ Shell!onServiceReady
  <2>1. CASE Shell!HideWindow
    BY <2>1 DEF Shell!HideWindow, Fields, Shell!navVars
  <2>2. CASE Shell!showWindow
    BY <2>2 DEF Shell!showWindow, Fields, Shell!navVars
  <2>3. CASE Shell!onServiceReady
    BY <2>3 DEF Shell!onServiceReady, Fields, Shell!navVars
  <2> QED
    BY <1>6, <2>1, <2>2, <2>3
<1>7. CASE \/ (\E page \in Shell!Sub : Shell!ClickCategory(page)) \/ Shell!navigateBack
           \/ Shell!PreloadDue \/ Shell!TimerFires
  BY <1>7 DEF Shell!ClickCategory, Shell!navigateBack, Shell!PreloadDue, Shell!TimerFires,
              Shell!StartLoading,
              Shell!preloadSubPages, Shell!processNextTask, Shell!shellOnly, Shell!navVars, Fields
<1>8. CASE UNCHANGED Shell!shellVars
  BY <1>8 DEF Shell!shellVars, Shell!navVars, Fields
<1> QED
  BY <1>1, <1>2, <1>3, <1>4, <1>5, <1>6, <1>7, <1>8 DEF Shell!Next

HIDE DEF Shell!NavTab, Shell!Tab, Shell!Parent

-----------------------------------------------------------------------------
(* Accounts.  A message about c that was asked, or is an answer to, verb.  *)
Is(m, verb, c) == m.what = verb /\ m.of = c
Holds(q, verb, c) == \E i \in 1 .. Len(q) : Is(q[i], verb, c)

(* Answers about c that are no errors; what a check found is b.            *)
Truthful(q, c, b) ==
  \A i \in 1 .. Len(q) :
    /\ Is(q[i], "store", c) => q[i].ok
    /\ Is(q[i], "check", c) => q[i].ok /\ (q[i].value <=> b)

(* No delete behind a store, and one check at most.                        *)
Ordered(q, c) ==
  \A i, j \in 1 .. Len(q) : i < j /\ Is(q[i], "store", c) => ~Is(q[j], "delete", c)
CheckedOnce(q, c) ==
  \A i, j \in 1 .. Len(q) : Is(q[i], "check", c) /\ Is(q[j], "check", c) => i = j

(* What a queue gains and loses with a message.                            *)
LEMMA AppendTells ==
  ASSUME NEW S, NEW q \in Seq(S), NEW e \in S, NEW c
  PROVE  /\ Append(q, e) \in Seq(S)
         /\ \A verb : Holds(Append(q, e), verb, c) <=> Holds(q, verb, c) \/ Is(e, verb, c)
         /\ Ordered(q, c) /\ ~(Is(e, "delete", c) /\ Holds(q, "store", c)) => Ordered(Append(q, e), c)
         /\ CheckedOnce(q, c) /\ ~(Is(e, "check", c) /\ Holds(q, "check", c)) => CheckedOnce(Append(q, e), c)
<1> DEFINE r == Append(q, e)
<1>1. r \in Seq(S) /\ Len(q) \in Nat /\ Len(r) = Len(q) + 1 /\ r[Len(q) + 1] = e
  OBVIOUS
<1>2. \A i \in 1 .. Len(q) : r[i] = q[i]
  OBVIOUS
<1> HIDE DEF r
<1>3. \A i \in 1 .. Len(r) : i \in 1 .. Len(q) \/ i = Len(q) + 1
  BY <1>1
<1>4. 1 .. Len(q) \subseteq 1 .. Len(r) /\ Len(q) + 1 \in 1 .. Len(r)
  BY <1>1
<1>5. ASSUME NEW verb PROVE Holds(r, verb, c) <=> Holds(q, verb, c) \/ Is(e, verb, c)
  BY <1>1, <1>2, <1>3, <1>4 DEF Holds
<1>6. ASSUME Ordered(q, c), ~(Is(e, "delete", c) /\ Holds(q, "store", c)) PROVE Ordered(r, c)
  <2> SUFFICES ASSUME NEW i \in 1 .. Len(r), NEW j \in 1 .. Len(r), i < j, Is(r[i], "store", c),
                      Is(r[j], "delete", c)
               PROVE  FALSE
    BY DEF Ordered
  <2>1. i \in 1 .. Len(q)
    BY <1>1
  <2>2. CASE j \in 1 .. Len(q)
    BY <1>2, <1>6, <2>1, <2>2 DEF Ordered
  <2>3. CASE j = Len(q) + 1
    BY <1>1, <1>2, <1>6, <2>1, <2>3 DEF Holds
  <2> QED BY <1>3, <2>2, <2>3
<1>7. ASSUME CheckedOnce(q, c), ~(Is(e, "check", c) /\ Holds(q, "check", c)) PROVE CheckedOnce(r, c)
  <2> SUFFICES ASSUME NEW i \in 1 .. Len(r), NEW j \in 1 .. Len(r), Is(r[i], "check", c),
                      Is(r[j], "check", c)
               PROVE  i = j
    BY DEF CheckedOnce
  <2> QED BY <1>1, <1>2, <1>3, <1>7 DEF CheckedOnce, Holds
<1> QED BY <1>1, <1>5, <1>6, <1>7 DEF r

LEMMA TailTells ==
  ASSUME NEW S, NEW q \in Seq(S), q # <<>>, NEW c
  PROVE  /\ Tail(q) \in Seq(S) /\ Head(q) \in S
         /\ \A verb : Holds(q, verb, c) <=> Holds(Tail(q), verb, c) \/ Is(Head(q), verb, c)
         /\ Ordered(q, c) =>
              Ordered(Tail(q), c) /\ ~(Is(Head(q), "store", c) /\ Holds(Tail(q), "delete", c))
         /\ CheckedOnce(q, c) =>
              CheckedOnce(Tail(q), c) /\ ~(Is(Head(q), "check", c) /\ Holds(Tail(q), "check", c))
<1> DEFINE r == Tail(q)
<1>1. r \in Seq(S) /\ Len(q) \in Nat \ {0} /\ Len(r) = Len(q) - 1 /\ Head(q) = q[1] /\ q[1] \in S
  OBVIOUS
<1>2. \A i \in 1 .. Len(r) : r[i] = q[i + 1]
  OBVIOUS
<1> HIDE DEF r
<1>3. \A i \in 1 .. Len(q) : i = 1 \/ (i - 1 \in 1 .. Len(r) /\ (i - 1) + 1 = i)
  BY <1>1
<1>4. \A i \in 1 .. Len(r) : i + 1 \in 1 .. Len(q)
  BY <1>1
<1>5. ASSUME NEW verb PROVE Holds(q, verb, c) <=> Holds(r, verb, c) \/ Is(q[1], verb, c)
  <2>1. ASSUME NEW i \in 1 .. Len(q), Is(q[i], verb, c) PROVE Holds(r, verb, c) \/ Is(q[1], verb, c)
    BY <1>1, <1>2, <1>3, <2>1 DEF Holds
  <2>2. ASSUME NEW i \in 1 .. Len(r), Is(r[i], verb, c) PROVE Holds(q, verb, c)
    BY <1>2, <1>4, <2>2 DEF Holds
  <2>3. 1 \in 1 .. Len(q)
    BY <1>1
  <2> QED BY <2>1, <2>2, <2>3 DEF Holds
<1>6. ASSUME Ordered(q, c) PROVE Ordered(r, c) /\ ~(Is(q[1], "store", c) /\ Holds(r, "delete", c))
  <2>1. \A i, j \in 1 .. Len(r) : i < j => i + 1 < j + 1
    OBVIOUS
  <2>2. 1 \in 1 .. Len(q) /\ \A i \in 1 .. Len(r) : 1 < i + 1
    BY <1>1
  <2>3. Ordered(r, c)
    BY <1>2, <1>4, <1>6, <2>1 DEF Ordered
  <2> QED BY <1>2, <1>4, <1>6, <2>2, <2>3 DEF Ordered, Holds
<1>7. ASSUME CheckedOnce(q, c) PROVE CheckedOnce(r, c) /\ ~(Is(q[1], "check", c) /\ Holds(r, "check", c))
  <2>1. \A i, j \in 1 .. Len(r) : i + 1 = j + 1 => i = j
    OBVIOUS
  <2>2. 1 \in 1 .. Len(q) /\ \A i \in 1 .. Len(r) : 1 # i + 1
    BY <1>1
  <2>3. CheckedOnce(r, c)
    BY <1>2, <1>4, <1>7, <2>1 DEF CheckedOnce
  <2> QED BY <1>2, <1>4, <1>7, <2>2, <2>3 DEF CheckedOnce, Holds
<1> QED BY <1>1, <1>5, <1>6, <1>7 DEF r

LEMMA NoWords ==
  \A verb, c, b :
    ~Holds(<<>>, verb, c) /\ Ordered(<<>>, c) /\ CheckedOnce(<<>>, c) /\ Truthful(<<>>, c, b)
BY DEF Holds, Ordered, CheckedOnce, Truthful

LEMMA AppendTruthful ==
  ASSUME NEW S, NEW q \in Seq(S), NEW e \in S, NEW c, NEW b, Truthful(q, c, b),
         Is(e, "store", c) => e.ok, Is(e, "check", c) => e.ok /\ (e.value <=> b)
  PROVE  Truthful(Append(q, e), c, b)
<1> DEFINE r == Append(q, e)
<1>1. Len(q) \in Nat /\ Len(r) = Len(q) + 1 /\ r[Len(q) + 1] = e
  OBVIOUS
<1>2. \A i \in 1 .. Len(q) : r[i] = q[i]
  OBVIOUS
<1> HIDE DEF r
<1>3. \A i \in 1 .. Len(r) : i \in 1 .. Len(q) \/ i = Len(q) + 1
  BY <1>1
<1>4. Truthful(r, c, b)
  BY <1>1, <1>2, <1>3, Zenon DEF Truthful
<1> QED BY <1>4 DEF r

LEMMA TailTruthful ==
  ASSUME NEW S, NEW q \in Seq(S), q # <<>>, NEW c, NEW b, Truthful(q, c, b)
  PROVE  /\ Truthful(Tail(q), c, b)
         /\ Is(Head(q), "store", c) => Head(q).ok
         /\ Is(Head(q), "check", c) => Head(q).ok /\ (Head(q).value <=> b)
<1> DEFINE r == Tail(q)
<1>1. Len(q) \in Nat \ {0} /\ Len(r) = Len(q) - 1 /\ Head(q) = q[1]
  OBVIOUS
<1>2. \A i \in 1 .. Len(r) : r[i] = q[i + 1]
  OBVIOUS
<1> HIDE DEF r
<1>3. 1 \in 1 .. Len(q) /\ \A i \in 1 .. Len(r) : i + 1 \in 1 .. Len(q)
  BY <1>1
<1>4. Truthful(r, c, b)
  BY <1>2, <1>3, Zenon DEF Truthful
<1>5. /\ Is(q[1], "store", c) => q[1].ok
      /\ Is(q[1], "check", c) => q[1].ok /\ (q[1].value <=> b)
  BY <1>3, Zenon DEF Truthful
<1> QED BY <1>1, <1>4, <1>5, Zenon DEF r

LEMMA Joined ==
  ASSUME NEW S, NEW q \in Seq(S), NEW a \in S, NEW b \in S, NEW d \in S
  PROVE  /\ q \o <<a>> = Append(q, a)
         /\ q \o <<a, b>> = Append(Append(q, a), b)
         /\ q \o <<a, b, d>> = Append(Append(Append(q, a), b), d)
OBVIOUS

(* The messages on their way, and the types of Accounts: before the page   *)
(* is built it has sent nothing, and hears of the sign-in only.            *)
OfCredentials == {"check", "store", "delete"}
OfTheSignIn   == {"status", "login", "logout"}
Requests    == [what : OfCredentials, of : Logins!Credential] \cup [what : OfTheSignIn, of : {None}]
Replies ==
  [what : OfCredentials, of : Logins!Credential, ok : BOOLEAN, value : BOOLEAN]
  \cup [what : OfTheSignIn \cup {"push"}, of : {None}, ok : BOOLEAN,
        value : {None, "out", "login", "in"}]

Pushes ==
  [what : {"push"}, of : {None}, ok : BOOLEAN, value : {None, "out", "login", "in"}]

ButtonTypes ==
  /\ Logins!TypeOK
  /\ unsent \in Seq(Requests) /\ toService \in Seq(Requests) /\ toApp \in Seq(Replies)
  /\ ~built => /\ enabled = {} /\ has = {} /\ window = None
               /\ unsent = <<>> /\ toService = <<>> /\ toApp \in Seq(Pushes)

LEMMA Wider == \A q \in Seq(Requests) : q \in Seq([what : Logins!Verb, of : Logins!Credential \cup {None}])
<1>1. Requests \subseteq [what : Logins!Verb, of : Logins!Credential \cup {None}]
  BY DEF Requests, OfCredentials, OfTheSignIn, Logins!Verb
<1>2. \A A, B : A \subseteq B => Seq(A) \subseteq Seq(B)
  OBVIOUS
<1> QED BY <1>1, <1>2

LEMMA InitButtonTypes == Logins!Init => ButtonTypes
<1> SUFFICES ASSUME Logins!Init PROVE ButtonTypes
  OBVIOUS
<1>1. unsent \in Seq(Requests) /\ toService \in Seq(Requests) /\ toApp \in Seq(Replies)
  BY DEF Logins!Init
<1>2. /\ enabled = {} /\ has = {} /\ window = None
      /\ unsent = <<>> /\ toService = <<>> /\ toApp \in Seq(Pushes)
  BY DEF Logins!Init
<1>3. Logins!TypeOK
  BY <1>1, Wider DEF Logins!Init, Logins!TypeOK
<1> QED BY <1>1, <1>2, <1>3 DEF ButtonTypes

LEMMA SendsTyped ==
  ASSUME ButtonTypes, NEW requests \in Seq(Requests), Logins!Sends(requests)
  PROVE  /\ unsent' \in Seq(Requests) /\ toService' \in Seq(Requests)
         /\ linked' = linked /\ toApp' = toApp
<1>1. unsent \in Seq(Requests) /\ toService \in Seq(Requests)
  BY DEF ButtonTypes
<1>2. unsent \o requests \in Seq(Requests) /\ toService \o requests \in Seq(Requests)
  BY <1>1
<1> QED BY <1>1, <1>2 DEF Logins!Sends

LEMMA RequestsAre ==
  /\ \A c \in Logins!Credential, w \in OfCredentials : <<Logins!Request(w, c)>> \in Seq(Requests)
  /\ \A w \in OfTheSignIn : <<Logins!Request(w, None)>> \in Seq(Requests)
  /\ <<Logins!Request("check", SteamKey), Logins!Request("check", PoeSession),
       Logins!Request("status", None)>> \in Seq(Requests)
<1>1. \A c \in Logins!Credential, w \in OfCredentials : Logins!Request(w, c) \in Requests
  BY DEF Logins!Request, Requests
<1>2. \A w \in OfTheSignIn : Logins!Request(w, None) \in Requests
  BY DEF Logins!Request, Requests
<1>3. {SteamKey, PoeSession} \subseteq Logins!Credential /\ "check" \in OfCredentials /\ "status" \in OfTheSignIn
  BY DEF Logins!Credential, OfCredentials, OfTheSignIn
<1> QED BY <1>1, <1>2, <1>3

LEMMA HandlesTyped ==
  ASSUME ButtonTypes, NEW r \in Requests, Logins!Handles(r)
  PROVE  /\ toApp' \in Seq(Replies) /\ stored' \subseteq Logins!Credential
         /\ signIn' \in {"out", "login", "in"}
<1> USE DEF Logins!Answer, Logins!Pushed, Logins!Request
<1>1. toApp \in Seq(Replies) /\ stored \subseteq Logins!Credential /\ signIn \in {"out", "login", "in"}
  BY DEF ButtonTypes, Logins!TypeOK
<1>2. CASE r.what \in OfCredentials
  <2>1. r.of \in Logins!Credential
    BY <1>2 DEF Requests, OfCredentials, OfTheSignIn
  <2>2. \A ok \in BOOLEAN : Logins!Answer(r, ok, r.of \in stored) \in Replies
    BY <1>2, <2>1 DEF Replies
  <2>3. PICK ok \in BOOLEAN :
          /\ stored' = CASE ~ok \/ r.what = "check" -> stored
                         [] ok /\ r.what = "store" -> stored \cup {r.of}
                         [] ok /\ r.what = "delete" -> stored \ {r.of}
          /\ toApp' = Append(toApp, Logins!Answer(r, ok, r.of \in stored))
          /\ signIn' = signIn
    BY <1>2 DEF Logins!Handles, OfCredentials
  <2>4. stored' \in {stored, stored \cup {r.of}, stored \ {r.of}}
    BY <1>2, <2>3 DEF OfCredentials
  <2>5. toApp' \in Seq(Replies)
    BY <1>1, <2>2, <2>3
  <2> QED BY <1>1, <2>1, <2>3, <2>4, <2>5
<1>3. CASE r.what \in OfTheSignIn
  <2>1. r.of = None
    BY <1>3 DEF Requests, OfCredentials, OfTheSignIn
  <2>2. \A ok \in BOOLEAN, v \in {None, "out", "login", "in"} :
          Logins!Answer(r, ok, v) \in Replies /\ Logins!Pushed(v) \in Replies
    BY <1>3, <2>1 DEF Replies
  <2> HIDE DEF Logins!Answer, Logins!Pushed
  <2>3. /\ Append(toApp, Logins!Answer(r, TRUE, signIn)) \in Seq(Replies)
        /\ toApp \o <<Logins!Answer(r, TRUE, None)>> \in Seq(Replies)
        /\ toApp \o <<Logins!Answer(r, TRUE, None), Logins!Pushed("login")>> \in Seq(Replies)
        /\ toApp \o <<Logins!Pushed("out"), Logins!Answer(r, TRUE, None)>> \in Seq(Replies)
        /\ Append(toApp, Logins!Answer(r, FALSE, None)) \in Seq(Replies)
    <3>1. \A S : \A q \in Seq(S), a \in S, b \in S :
            Append(q, a) \in Seq(S) /\ q \o <<a>> \in Seq(S) /\ q \o <<a, b>> \in Seq(S)
      OBVIOUS
    <3> QED BY <1>1, <2>2, <3>1
  <2> QED BY <1>1, <1>3, <2>3 DEF Logins!Handles, OfTheSignIn, Logins!serviceVars
<1> QED BY <1>2, <1>3 DEF Requests

LEMMA ReceiveTyped ==
  ASSUME ButtonTypes, Logins!Receive
  PROVE  /\ toApp' \in Seq(Replies) /\ has' \subseteq Logins!Credential
         /\ enabled' \subseteq Logins!Credential \cup {"oauth"}
         /\ authorized' \in BOOLEAN /\ inProgress' \in BOOLEAN
<1> DEFINE m == Head(toApp)
<1>1. m \in Replies /\ Tail(toApp) \in Seq(Replies)
  BY DEF ButtonTypes, Logins!Receive
<1>2. m.what \in {"check", "store"} => m.of \in Logins!Credential
  BY <1>1 DEF Replies, OfCredentials, OfTheSignIn
<1>3. /\ has \subseteq Logins!Credential /\ enabled \subseteq Logins!Credential \cup {"oauth"}
      /\ {authorized, inProgress} \subseteq BOOLEAN
  BY DEF ButtonTypes, Logins!TypeOK
<1> HIDE DEF m
<1>4. toApp' = Tail(toApp)
  BY DEF Logins!Receive
<1>5. /\ CASE m.what \in {"status", "push"} ->
                IF built THEN Logins!onStatus(m.value) ELSE Logins!Ignored
           [] m.what = "check" -> Logins!onChecked(m.of, m.ok /\ m.value)
           [] m.what = "store" -> Logins!onStored(m.of, m.ok)
           [] OTHER -> Logins!Ignored
  BY DEF Logins!Receive, m
<1>6. CASE m.what \in {"status", "push"} /\ built
  <2>1. Logins!onStatus(m.value)
    BY <1>5, <1>6
  <2> QED BY <1>1, <1>3, <1>4, <2>1 DEF Logins!onStatus, Logins!OAuthButton
<1>7. CASE m.what = "check" \/ (m.what = "store" /\ m.ok)
  <2>1. \E present : Logins!onChecked(m.of, present)
    BY <1>5, <1>7 DEF Logins!onStored
  <2> QED BY <1>1, <1>4, <1>2, <1>3, <1>7, <2>1 DEF Logins!onChecked
<1>8. CASE ~(m.what \in {"status", "push"} /\ built) /\ m.what # "check" /\ ~(m.what = "store" /\ m.ok)
  <2>1. Logins!Ignored
    BY <1>5, <1>8 DEF Logins!onStored
  <2> QED BY <1>1, <1>3, <1>4, <2>1 DEF Logins!Ignored, Logins!buttonVars
<1> QED BY <1>1, <1>4, <1>6, <1>7, <1>8

LEMMA NoWindow ==
  \A c \in Logins!Credential :
    None # Logins!Request("login", c) /\ None # Logins!Request("browse", c)
BY AppAssumption DEF Logins!Credential, Logins!Request

LEMMA NextButtonTypes == ButtonTypes /\ [Logins!Next]_(Logins!accountVars) => ButtonTypes'
<1> SUFFICES ASSUME ButtonTypes, [Logins!Next]_(Logins!accountVars) PROVE ButtonTypes'
  OBVIOUS
<1> DEFINE Queues  == unsent \in Seq(Requests) /\ toService \in Seq(Requests) /\ toApp \in Seq(Replies)
           Believed   == /\ {built, authorized, inProgress, linked} \subseteq BOOLEAN
                      /\ enabled \subseteq Logins!Credential \cup {"oauth"}
                      /\ has \subseteq Logins!Credential
           Windows == window \in {None, Logins!Request("browse", PoeSession)}
                                 \cup [what : {"login"}, of : Logins!Credential]
           Stored  == stored \subseteq Logins!Credential /\ signIn \in {"out", "login", "in"}
           Unbuilt == ~built => /\ enabled = {} /\ has = {} /\ window = None
                                /\ unsent = <<>> /\ toService = <<>> /\ toApp \in Seq(Pushes)
<1>1. Queues /\ Believed /\ Windows /\ Stored /\ Unbuilt
  BY DEF ButtonTypes, Logins!TypeOK
<1>2. Queues' /\ Believed' /\ Windows' /\ Stored' /\ Unbuilt' => ButtonTypes'
  BY Wider DEF ButtonTypes, Logins!TypeOK
<1> USE DEF Logins!buttonVars, Logins!linkVars, Logins!serviceVars, Logins!boundVars
<1>3. CASE Logins!buildAccountsPage
  <2>1. Queues'
    BY <1>1, <1>3, RequestsAre, SendsTyped DEF Logins!buildAccountsPage
  <2>2. Believed' /\ Windows' /\ Stored' /\ Unbuilt'
    BY <1>1, <1>3 DEF Logins!buildAccountsPage, Logins!Sends
  <2> QED BY <1>2, <2>1, <2>2
<1>4. ASSUME NEW c \in Logins!Credential, Logins!ClickLogin(c) PROVE ButtonTypes'
  <2>1. Windows' /\ built
    BY <1>1, <1>4 DEF Logins!ClickLogin, Logins!Click, Logins!Request
  <2>2. Queues' /\ Believed' /\ Stored' /\ Unbuilt'
    BY <1>1, <1>4, <2>1 DEF Logins!ClickLogin
  <2> QED BY <1>2, <2>1, <2>2
<1>5. CASE Logins!sessionCaptured \/ Logins!keyCaptured
  <2>1. PICK c \in Logins!Credential : Logins!Captured(c)
    BY <1>5 DEF Logins!sessionCaptured, Logins!keyCaptured, Logins!Credential
  <2>2. Queues'
    BY <1>1, <2>1, RequestsAre, SendsTyped DEF Logins!Captured, OfCredentials
  <2>3. built
    BY <1>1, <2>1, NoWindow DEF Logins!Captured
  <2>4. Believed' /\ Windows' /\ Stored' /\ Unbuilt'
    BY <1>1, <2>1, <2>3 DEF Logins!Captured, Logins!Sends
  <2> QED BY <1>2, <2>2, <2>4
<1>6. CASE Logins!GivesUp
  BY <1>1, <1>2, <1>6 DEF Logins!GivesUp
<1>7. CASE Logins!ClickLogoutKey \/ Logins!BrowseClosed
  <2>1. PICK c \in Logins!Credential : Logins!LogsOut(c)
    BY <1>7 DEF Logins!ClickLogoutKey, Logins!BrowseClosed, Logins!Credential
  <2>2. Queues'
    BY <1>1, <2>1, RequestsAre, SendsTyped DEF Logins!LogsOut, OfCredentials
  <2>3. built /\ built' = built /\ window' \in {None, window}
    BY <1>1, <1>7, <2>1, NoWindow
    DEF Logins!ClickLogoutKey, Logins!BrowseClosed, Logins!Click, Logins!LogsOut, Logins!Credential
  <2>4. Believed' /\ Windows' /\ Stored' /\ Unbuilt'
    BY <1>1, <2>1, <2>3 DEF Logins!LogsOut, Logins!Sends
  <2> QED BY <1>2, <2>2, <2>4
<1>8. CASE Logins!ClickLogoutSession
  BY <1>1, <1>2, <1>8 DEF Logins!ClickLogoutSession, Logins!Click
<1>9. CASE Logins!ClickOAuth
  <2>1. Queues' /\ linked' = linked
    <3>1. CASE authorized
      BY <1>1, <1>9, <3>1, RequestsAre, SendsTyped DEF Logins!ClickOAuth, OfTheSignIn
    <3>2. CASE ~authorized
      BY <1>1, <1>9, <3>2, RequestsAre, SendsTyped DEF Logins!ClickOAuth, OfTheSignIn
    <3> QED BY <3>1, <3>2
  <2>2. built /\ built' = built
    BY <1>1, <1>9 DEF Logins!ClickOAuth, Logins!Click
  <2>3. Believed'
    BY <1>1, <1>9, <2>1, <2>2 DEF Logins!ClickOAuth, Logins!OAuthButton
  <2>4. Windows' /\ Stored' /\ Unbuilt'
    BY <1>1, <1>9, <2>2 DEF Logins!ClickOAuth
  <2> QED BY <1>2, <2>1, <2>3, <2>4
<1>10. CASE Logins!Handle
  <2>1. Head(toService) \in Requests /\ toService' \in Seq(Requests) /\ toService # <<>>
    BY <1>1, <1>10 DEF Logins!Handle
  <2>2. toApp' \in Seq(Replies) /\ Stored'
    BY <1>10, <2>1, HandlesTyped DEF Logins!Handle
  <2>3. Queues' /\ Believed' /\ Windows' /\ Unbuilt'
    BY <1>1, <1>10, <2>1, <2>2 DEF Logins!Handle
  <2> QED BY <1>2, <2>2, <2>3
<1>11. CASE Logins!LoginFlowEnds
  <2>1. Logins!Pushed(signIn') \in Replies \cap Pushes /\ Stored'
    BY <1>1, <1>11 DEF Logins!LoginFlowEnds, Logins!Pushed, Logins!Answer, Logins!Request, Replies, Pushes
  <2>2. toApp' \in Seq(Replies)
    BY <1>1, <1>11, <2>1 DEF Logins!LoginFlowEnds
  <2>3. Queues' /\ Believed' /\ Windows' /\ Unbuilt'
    <3>1. toApp \in Seq(Pushes) => toApp' \in Seq(Pushes)
      BY <1>11, <2>1 DEF Logins!LoginFlowEnds
    <3> QED BY <1>1, <1>11, <2>2, <3>1 DEF Logins!LoginFlowEnds
  <2> QED BY <1>2, <2>1, <2>3
<1>12. CASE Logins!Receive
  <2>1. Queues' /\ Believed'
    BY <1>1, <1>12, ReceiveTyped DEF Logins!Receive
  <2>2. Windows' /\ Stored'
    BY <1>1, <1>12 DEF Logins!Receive
  <2>3. Unbuilt'
    <3> SUFFICES ASSUME ~built, built' = built PROVE Unbuilt'
      BY <1>12 DEF Logins!Receive
    <3>1. Head(toApp) \in Pushes /\ toApp' \in Seq(Pushes)
      BY <1>1, <1>12 DEF Logins!Receive
    <3>2. Logins!Ignored
      BY <1>12, <3>1 DEF Logins!Receive, Pushes
    <3> QED BY <1>1, <1>12, <3>1, <3>2 DEF Logins!Receive, Logins!Ignored
  <2> QED BY <1>2, <2>1, <2>2, <2>3
<1>13. CASE Logins!Connected
  BY <1>1, <1>2, <1>13 DEF Logins!Connected
<1>14. CASE Logins!Disconnected
  <2>1. Queues' /\ Believed' /\ Windows' /\ Stored'
    <3>1. PICK checks : /\ checks \subseteq Logins!Credential
                        /\ has' = has \ checks /\ enabled' = enabled \cup checks
      BY <1>14 DEF Logins!Disconnected
    <3>2. /\ unsent' = <<>> /\ toService' = <<>> /\ toApp' = <<>> /\ linked' = FALSE
          /\ signIn' \in {signIn, "login", "out"}
          /\ UNCHANGED <<built, authorized, inProgress, window, stored>>
      BY <1>14 DEF Logins!Disconnected
    <3>3. Queues'
      BY <3>2
    <3>4. Believed'
      BY <1>1, <3>1, <3>2
    <3>5. Windows' /\ Stored'
      BY <1>1, <3>2
    <3> QED BY <3>3, <3>4, <3>5
  <2>2. Unbuilt'
    <3> SUFFICES ASSUME ~built, built' = built PROVE Unbuilt'
      BY <1>14 DEF Logins!Disconnected
    <3>1. \A i \in DOMAIN toApp : toApp[i] \in Pushes
      BY <1>1
    <3>2. \A c : \A i \in DOMAIN toApp :
            Logins!Request("check", c) # Logins!Request(toApp[i].what, toApp[i].of)
      BY <3>1 DEF Pushes, Logins!Request
    <3>3. has' = {} /\ enabled' = {}
      BY <1>1, <1>14, <3>2 DEF Logins!Disconnected
    <3> QED BY <1>1, <1>14, <3>3 DEF Logins!Disconnected
  <2> QED BY <1>2, <2>1, <2>2
<1>15. CASE UNCHANGED Logins!accountVars
  BY <1>1, <1>2, <1>15 DEF Logins!accountVars
<1> QED BY <1>3, <1>4, <1>5, <1>6, <1>7, <1>8, <1>9, <1>10, <1>11, <1>12, <1>13, <1>14, <1>15
        DEF Logins!Next

(* Nothing has disturbed the exchange so far, nor waits for a connection.  *)
Calm == ~failed /\ ~overtaken /\ unsent = <<>>

Unanswered(verb, c) == Holds(toService, verb, c) \/ Holds(toApp, verb, c)

(* What the button of c believes, what the service has and what is under   *)
(* way between them.  A button is enabled by its one check; from then on   *)
(* stores follow deletes, so that a store that was handled was the last    *)
(* word, and a credential nobody has been told of is about to go.          *)
ButtonFacts(c) ==
  /\ built => c \in enabled \/ Unanswered("check", c)
  /\ c \in enabled \/ ~built => ~Unanswered("check", c)
  /\ CheckedOnce(toService, c) /\ CheckedOnce(toApp, c)
  /\ ~(Holds(toService, "check", c) /\ Holds(toApp, "check", c))
  /\ c \notin enabled =>
       /\ c \notin has /\ ~Unanswered("store", c) /\ ~Unanswered("delete", c)
       /\ window # Logins!Request("login", c) /\ window # Logins!Request("browse", c)
  /\ Truthful(toApp, c, c \in stored)
  /\ Ordered(toService, c) /\ Ordered(toApp, c)
  /\ ~(Holds(toApp, "store", c) /\ Holds(toService, "delete", c))
  /\ Unanswered("delete", c) => c \notin has
  /\ Holds(toApp, "store", c) \/ c \in has => c \in stored
  /\ c \in enabled /\ c \in stored =>
       c \in has \/ Holds(toApp, "store", c) \/ Holds(toService, "delete", c)

ButtonInv == ButtonTypes /\ (Calm => \A c \in Logins!Credential : ButtonFacts(c))

(* With no message under way, the button believes what the service has.    *)
LEMMA AtRest == ButtonInv => Logins!ButtonsAgree
<1> SUFFICES ASSUME ButtonInv, Logins!Settled, ~failed, ~overtaken PROVE has = stored
  BY DEF Logins!ButtonsAgree
<1>1. unsent \in Seq(Requests) /\ toService \in Seq(Requests) /\ toApp \in Seq(Replies)
  BY DEF ButtonInv, ButtonTypes
<1>2. unsent \o toService \o toApp = <<>>
  BY DEF Logins!Settled
<1>3. \A S, T : \A q \in Seq(S), r \in Seq(T) : q \o r = <<>> => q = <<>> /\ r = <<>>
  <2> SUFFICES ASSUME NEW S, NEW T, NEW q \in Seq(S), NEW r \in Seq(T), q \o r = <<>>
               PROVE  q = <<>> /\ r = <<>>
    OBVIOUS
  <2>1. Len(q \o r) = 0 /\ Len(q \o r) = Len(q) + Len(r) /\ Len(q) \in Nat /\ Len(r) \in Nat
    OBVIOUS
  <2> QED BY <2>1
<1>4. unsent = <<>> /\ toService = <<>> /\ toApp = <<>>
  <2>1. unsent \o toService \in Seq(Requests)
    BY <1>1
  <2>2. unsent \o toService = <<>> /\ toApp = <<>>
    BY <1>1, <1>2, <1>3, <2>1
  <2> QED BY <1>1, <1>3, <2>2
<1>5. \A c \in Logins!Credential : ButtonFacts(c) /\ \A verb : ~Unanswered(verb, c)
  BY <1>4, NoWords DEF ButtonInv, Calm, Unanswered
<1>6. \A c \in Logins!Credential : c \in has <=> c \in stored
  BY <1>4, <1>5, NoWords DEF ButtonFacts, Logins!Settled
<1>7. has \subseteq Logins!Credential /\ stored \subseteq Logins!Credential
  BY DEF ButtonInv, ButtonTypes, Logins!TypeOK
<1> QED BY <1>6, <1>7

LEMMA InitButtons == Logins!Init => ButtonInv
<1> SUFFICES ASSUME Logins!Init PROVE ButtonInv
  OBVIOUS
<1>1. \A c, verb : ~Unanswered(verb, c)
  BY NoWords DEF Logins!Init, Unanswered
<1>2. \A c \in Logins!Credential : ButtonFacts(c)
  BY <1>1, NoWords, NoWindow DEF Logins!Init, ButtonFacts
<1> QED BY <1>2, InitButtonTypes DEF ButtonInv

(* A request that is made while all is calm is on its way to the service.  *)
LEMMA SendsOn ==
  ASSUME ButtonTypes, NEW requests \in Seq(Requests), Logins!Sends(requests), requests # <<>>, unsent' = <<>>
  PROVE  unsent = <<>> /\ toService' = toService \o requests /\ UNCHANGED toApp
<1>1. unsent \in Seq(Requests)
  BY DEF ButtonTypes
<1>2. unsent \o requests # <<>>
  <2>1. Len(unsent \o requests) = Len(unsent) + Len(requests) /\ Len(unsent) \in Nat
        /\ Len(requests) \in Nat \ {0}
    BY <1>1
  <2> QED BY <2>1
<1> QED BY <1>2 DEF Logins!Sends

(* What a request to the service adds, and what an answer takes away.      *)
LEMMA OneSent ==
  ASSUME ButtonTypes, NEW r \in Requests, toService' = Append(toService, r), UNCHANGED toApp,
         NEW c \in Logins!Credential
  PROVE  /\ \A verb : Unanswered(verb, c)' <=> Unanswered(verb, c) \/ Is(r, verb, c)
         /\ \A verb : Holds(toService, verb, c)' <=> Holds(toService, verb, c) \/ Is(r, verb, c)
         /\ \A verb : Holds(toApp, verb, c)' <=> Holds(toApp, verb, c)
         /\ Ordered(toApp, c)' <=> Ordered(toApp, c)
         /\ CheckedOnce(toApp, c)' <=> CheckedOnce(toApp, c)
         /\ Ordered(toService, c) /\ ~(Is(r, "delete", c) /\ Holds(toService, "store", c))
              => Ordered(toService, c)'
         /\ CheckedOnce(toService, c) /\ ~(Is(r, "check", c) /\ Holds(toService, "check", c))
              => CheckedOnce(toService, c)'
<1>1. toService \in Seq(Requests)
  BY DEF ButtonTypes
<1>2. \A verb : Holds(toService, verb, c)' <=> Holds(toService, verb, c) \/ Is(r, verb, c)
  BY <1>1, AppendTells DEF Holds
<1>3. \A verb : Holds(toApp, verb, c)' <=> Holds(toApp, verb, c)
  BY DEF Holds
<1>4. /\ Ordered(toApp, c)' <=> Ordered(toApp, c)
      /\ CheckedOnce(toApp, c)' <=> CheckedOnce(toApp, c)
  BY DEF Ordered, CheckedOnce
<1>5. Ordered(toService, c) /\ ~(Is(r, "delete", c) /\ Holds(toService, "store", c))
        => Ordered(toService, c)'
  BY <1>1, AppendTells DEF Ordered
<1>6. CheckedOnce(toService, c) /\ ~(Is(r, "check", c) /\ Holds(toService, "check", c))
        => CheckedOnce(toService, c)'
  BY <1>1, AppendTells DEF CheckedOnce
<1> QED BY <1>2, <1>3, <1>4, <1>5, <1>6 DEF Unanswered

(* Steps that leave the messages of c's button alone, or add a request.    *)
LEMMA StaysTruthful ==
  ASSUME NEW c, UNCHANGED toApp, Truthful(toApp, c, c \in stored),
         (c \in stored' <=> c \in stored) \/ ~Holds(toApp, "check", c)
  PROVE  Truthful(toApp, c, c \in stored)'
<1>1. CASE c \in stored' <=> c \in stored
  <2> SUFFICES ASSUME NEW i \in 1 .. Len(toApp)
               PROVE  /\ Is(toApp[i], "store", c) => toApp[i].ok
                      /\ Is(toApp[i], "check", c) => toApp[i].ok /\ (toApp[i].value <=> c \in stored')
    BY Zenon DEF Truthful
  <2>1. /\ Is(toApp[i], "store", c) => toApp[i].ok
        /\ Is(toApp[i], "check", c) => toApp[i].ok /\ (toApp[i].value <=> c \in stored)
    BY Zenon DEF Truthful
  <2> QED BY <1>1, <2>1, Zenon
<1>2. CASE ~Holds(toApp, "check", c)
  <2>1. \A i \in 1 .. Len(toApp) : ~Is(toApp[i], "check", c)
    BY <1>2 DEF Holds
  <2>2. \A i \in 1 .. Len(toApp) : Is(toApp[i], "store", c) => toApp[i].ok
    BY Zenon DEF Truthful
  <2> QED BY <2>1, <2>2, Zenon DEF Truthful
<1> QED BY <1>1, <1>2

LEMMA SameFacts ==
  ASSUME NEW c \in Logins!Credential, ButtonFacts(c), UNCHANGED <<built, enabled, has, toService, toApp, stored>>,
         \/ window' \in {window, None} \/ c \in enabled
         \/ window' \notin {Logins!Request("login", c), Logins!Request("browse", c)}
  PROVE  ButtonFacts(c)'
<1>1. Truthful(toApp, c, c \in stored)'
  BY StaysTruthful, Zenon DEF ButtonFacts
<1>2. /\ \A verb : /\ Holds(toService, verb, c)' <=> Holds(toService, verb, c)
                   /\ Holds(toApp, verb, c)' <=> Holds(toApp, verb, c)
      /\ Ordered(toService, c)' <=> Ordered(toService, c)
      /\ Ordered(toApp, c)' <=> Ordered(toApp, c)
      /\ CheckedOnce(toService, c)' <=> CheckedOnce(toService, c)
      /\ CheckedOnce(toApp, c)' <=> CheckedOnce(toApp, c)
  BY DEF Holds, Ordered, CheckedOnce
<1>3. \/ c \in enabled' \/ window' = window
      \/ (window' # Logins!Request("login", c) /\ window' # Logins!Request("browse", c))
  BY NoWindow
<1> QED BY <1>1, <1>2, <1>3 DEF ButtonFacts, Unanswered

LEMMA SentFacts ==
  ASSUME ButtonTypes, NEW r \in Requests, toService' = Append(toService, r), UNCHANGED toApp,
         NEW c \in Logins!Credential, ButtonFacts(c),
         UNCHANGED <<built, stored>>, built, ~Is(r, "check", c),
         c \in enabled' <=> c \in enabled,
         window' \in {window, None},
         IF Is(r, "delete", c) THEN c \in enabled /\ c \notin has' /\ ~Unanswered("store", c)
                               ELSE c \in has' <=> c \in has,
         Is(r, "store", c) => c \in enabled
  PROVE  ButtonFacts(c)'
<1> DEFINE Del == Is(r, "delete", c)
           Sto == Is(r, "store", c)
<1>1. ~(Del /\ Sto)
  BY DEF Is
<1>2. Truthful(toApp, c, c \in stored)'
  BY StaysTruthful, Zenon DEF ButtonFacts
<1>3. window' # window => window' # Logins!Request("login", c) /\ window' # Logins!Request("browse", c)
  BY NoWindow
<1> HIDE DEF Del, Sto
<1>4. /\ \A verb : Holds(toApp, verb, c)' <=> Holds(toApp, verb, c)
      /\ Holds(toService, "check", c)' <=> Holds(toService, "check", c)
      /\ Holds(toService, "store", c)' <=> Holds(toService, "store", c) \/ Sto
      /\ Holds(toService, "delete", c)' <=> Holds(toService, "delete", c) \/ Del
      /\ Ordered(toApp, c)' <=> Ordered(toApp, c)
      /\ CheckedOnce(toApp, c)' <=> CheckedOnce(toApp, c)
      /\ Ordered(toService, c) /\ ~(Del /\ Holds(toService, "store", c)) => Ordered(toService, c)'
      /\ CheckedOnce(toService, c) => CheckedOnce(toService, c)'
  BY OneSent DEF Del, Sto
<1>5. IF Del THEN c \in enabled /\ c \notin has' /\ ~Unanswered("store", c)
             ELSE c \in has' <=> c \in has
  BY DEF Del
<1>6. Sto => c \in enabled
  BY DEF Sto
<1> QED BY <1>1, <1>2, <1>3, <1>4, <1>5, <1>6 DEF ButtonFacts, Unanswered

(* To the button of c the answers r say what q says.                       *)
SaysTheSame(q, r, c) ==
  /\ \A verb \in OfCredentials : Holds(r, verb, c) <=> Holds(q, verb, c)
  /\ Ordered(q, c) => Ordered(r, c)
  /\ CheckedOnce(q, c) => CheckedOnce(r, c)
  /\ \A b : Truthful(q, c, b) => Truthful(r, c, b)

LEMMA OthersAdded ==
  ASSUME NEW q \in Seq(Replies), NEW e \in Replies, NEW c, \A verb \in OfCredentials : ~Is(e, verb, c)
  PROVE  SaysTheSame(q, Append(q, e), c)
<1>0. ~Is(e, "check", c) /\ ~Is(e, "store", c) /\ ~Is(e, "delete", c)
  BY DEF OfCredentials
<1>1. \A verb \in OfCredentials : Holds(Append(q, e), verb, c) <=> Holds(q, verb, c)
  BY AppendTells
<1>2. /\ Ordered(q, c) => Ordered(Append(q, e), c)
      /\ CheckedOnce(q, c) => CheckedOnce(Append(q, e), c)
  BY <1>0, AppendTells
<1>3. \A b : Truthful(q, c, b) => Truthful(Append(q, e), c, b)
  BY <1>0, AppendTruthful, Zenon
<1> QED BY <1>1, <1>2, <1>3, Zenon DEF SaysTheSame

LEMMA TwoOthersAdded ==
  ASSUME NEW q \in Seq(Replies), NEW e \in Replies, NEW f \in Replies, NEW c,
         \A verb \in OfCredentials : ~Is(e, verb, c) /\ ~Is(f, verb, c)
  PROVE  SaysTheSame(q, q \o <<e, f>>, c)
<1>1. Append(q, e) \in Seq(Replies) /\ q \o <<e, f>> = Append(Append(q, e), f)
  OBVIOUS
<1>2. SaysTheSame(q, Append(q, e), c)
  BY OthersAdded, Zenon
<1>3. SaysTheSame(Append(q, e), Append(Append(q, e), f), c)
  BY <1>1, OthersAdded, Zenon
<1> QED BY <1>1, <1>2, <1>3, Zenon DEF SaysTheSame

LEMMA SaidAfter ==
  ASSUME NEW c, NEW b, SaysTheSame(toApp, toApp', c)
  PROVE  /\ Holds(toApp, "check", c)' <=> Holds(toApp, "check", c)
         /\ Holds(toApp, "store", c)' <=> Holds(toApp, "store", c)
         /\ Holds(toApp, "delete", c)' <=> Holds(toApp, "delete", c)
         /\ Ordered(toApp, c) => Ordered(toApp, c)'
         /\ CheckedOnce(toApp, c) => CheckedOnce(toApp, c)'
         /\ Truthful(toApp, c, b) => Truthful(toApp', c, b)
<1>1. {"check", "store", "delete"} \subseteq OfCredentials
  BY DEF OfCredentials
<1>2. \A verb : Holds(toApp, verb, c)' <=> Holds(toApp', verb, c)
  BY DEF Holds
<1>3. (Ordered(toApp, c)' <=> Ordered(toApp', c)) /\ (CheckedOnce(toApp, c)' <=> CheckedOnce(toApp', c))
  BY DEF Ordered, CheckedOnce
<1> QED BY <1>1, <1>2, <1>3, Zenon DEF SaysTheSame

LEMMA TruthfulAs ==
  ASSUME NEW c, NEW q, NEW a, NEW b, a <=> b, Truthful(q, c, a)
  PROVE  Truthful(q, c, b)
BY Zenon DEF Truthful

(* The service tells something else: the sign-in, or another credential.   *)
LEMMA ToldFacts ==
  ASSUME NEW c \in Logins!Credential, ButtonFacts(c), SaysTheSame(toApp, toApp', c),
         c \in stored' <=> c \in stored,
         UNCHANGED <<built, enabled, has, window, toService>>
  PROVE  ButtonFacts(c)'
<1>1. Truthful(toApp, c, c \in stored)
  BY Zenon DEF ButtonFacts
<1>2. Truthful(toApp', c, c \in stored)
  BY <1>1, SaidAfter, Zenon
<1>3. Truthful(toApp, c, c \in stored)'
  BY <1>2, TruthfulAs, Zenon
<1>4. /\ Holds(toApp, "check", c)' <=> Holds(toApp, "check", c)
      /\ Holds(toApp, "store", c)' <=> Holds(toApp, "store", c)
      /\ Holds(toApp, "delete", c)' <=> Holds(toApp, "delete", c)
      /\ Ordered(toApp, c) => Ordered(toApp, c)'
      /\ CheckedOnce(toApp, c) => CheckedOnce(toApp, c)'
  BY SaidAfter
<1>5. /\ \A verb : Holds(toService, verb, c)' <=> Holds(toService, verb, c)
      /\ Ordered(toService, c)' <=> Ordered(toService, c)
      /\ CheckedOnce(toService, c)' <=> CheckedOnce(toService, c)
  BY DEF Holds, Ordered, CheckedOnce
<1> QED BY <1>3, <1>4, <1>5 DEF ButtonFacts, Unanswered

(* The service takes the next request.                                     *)
LEMMA Taken ==
  ASSUME ButtonTypes, toService # <<>>, toService' = Tail(toService), NEW c
  PROVE  /\ Head(toService) \in Requests
         /\ \A verb : Holds(toService, verb, c) <=> Holds(toService, verb, c)' \/ Is(Head(toService), verb, c)
         /\ Ordered(toService, c) =>
              Ordered(toService, c)' /\ ~(Is(Head(toService), "store", c) /\ Holds(toService, "delete", c)')
         /\ CheckedOnce(toService, c) =>
              CheckedOnce(toService, c)' /\ ~(Is(Head(toService), "check", c) /\ Holds(toService, "check", c)')
<1>1. toService \in Seq(Requests)
  BY DEF ButtonTypes
<1>2. \A verb : Holds(toService, verb, c)' <=> Holds(Tail(toService), verb, c)
  BY DEF Holds
<1>3. /\ Ordered(toService, c)' <=> Ordered(Tail(toService), c)
      /\ CheckedOnce(toService, c)' <=> CheckedOnce(Tail(toService), c)
  BY DEF Ordered, CheckedOnce
<1> QED BY <1>1, <1>2, <1>3, TailTells

(* A request about something else, and one about c.                        *)
LEMMA HandledOther ==
  ASSUME ButtonTypes, NEW c \in Logins!Credential, ButtonFacts(c), Logins!Handle,
         \A verb \in OfCredentials : ~Is(Head(toService), verb, c)
  PROVE  ButtonFacts(c)'
<1> DEFINE r == Head(toService)
<1>1. /\ r \in Requests /\ toService # <<>> /\ toService' = Tail(toService) /\ Logins!Handles(r)
      /\ UNCHANGED <<built, enabled, has, window>>
  BY Taken DEF Logins!Handle, Logins!buttonVars
<1>2. toApp \in Seq(Replies) /\ stored \subseteq Logins!Credential /\ signIn \in {"out", "login", "in"}
  BY DEF ButtonTypes, Logins!TypeOK
<1>3. ~Is(r, "check", c) /\ ~Is(r, "store", c) /\ ~Is(r, "delete", c)
  BY DEF OfCredentials
<1> HIDE DEF r
<1>4. SaysTheSame(toApp, toApp', c) /\ (c \in stored' <=> c \in stored)
  <2>1. CASE r.what \in OfCredentials
    <3>1. r.of \in Logins!Credential /\ r.of # c
      BY <1>1, <1>3, <2>1 DEF Requests, OfCredentials, OfTheSignIn, Is
    <3>2. PICK ok \in BOOLEAN :
            /\ stored' = CASE ~ok \/ r.what = "check" -> stored
                           [] ok /\ r.what = "store" -> stored \cup {r.of}
                           [] ok /\ r.what = "delete" -> stored \ {r.of}
            /\ toApp' = Append(toApp, Logins!Answer(r, ok, r.of \in stored))
      BY <1>1, <2>1 DEF Logins!Handles, OfCredentials
    <3>3. stored' \in {stored, stored \cup {r.of}, stored \ {r.of}}
      BY <2>1, <3>2 DEF OfCredentials
    <3>4. Logins!Answer(r, ok, r.of \in stored) \in Replies
      BY <2>1, <3>1 DEF Logins!Answer, Replies
    <3>5. \A verb : ~Is(Logins!Answer(r, ok, r.of \in stored), verb, c)
      BY <3>1 DEF Logins!Answer, Is
    <3>6. SaysTheSame(toApp, toApp', c)
      BY <1>2, <3>2, <3>4, <3>5, OthersAdded
    <3> QED BY <3>1, <3>3, <3>6
  <2>2. CASE r.what \in OfTheSignIn
    <3>1. r.of = None
      BY <1>1, <2>2 DEF Requests, OfCredentials, OfTheSignIn
    <3>2. \A ok \in BOOLEAN, v \in {None, "out", "login", "in"} :
            Logins!Answer(r, ok, v) \in Replies /\ Logins!Pushed(v) \in Replies
      BY <2>2, <3>1 DEF Replies, Logins!Answer, Logins!Pushed, Logins!Request
    <3>3. \A ok, v : \A verb \in OfCredentials :
            ~Is(Logins!Answer(r, ok, v), verb, c) /\ ~Is(Logins!Pushed(v), verb, c)
      BY <2>2 DEF Is, OfCredentials, OfTheSignIn, Logins!Answer, Logins!Pushed, Logins!Request
    <3>4. /\ SaysTheSame(toApp, Append(toApp, Logins!Answer(r, TRUE, signIn)), c)
          /\ SaysTheSame(toApp, Append(toApp, Logins!Answer(r, FALSE, None)), c)
          /\ SaysTheSame(toApp, Append(toApp, Logins!Answer(r, TRUE, None)), c)
      BY <1>2, <3>2, <3>3, OthersAdded
    <3>5. /\ SaysTheSame(toApp, toApp \o <<Logins!Answer(r, TRUE, None), Logins!Pushed("login")>>, c)
          /\ SaysTheSame(toApp, toApp \o <<Logins!Pushed("out"), Logins!Answer(r, TRUE, None)>>, c)
      BY <1>2, <3>2, <3>3, TwoOthersAdded
    <3>6. toApp \o <<Logins!Answer(r, TRUE, None)>> = Append(toApp, Logins!Answer(r, TRUE, None))
      BY <1>2, <3>2, Joined
    <3> QED BY <1>1, <2>2, <3>4, <3>5, <3>6 DEF Logins!Handles, OfTheSignIn, Logins!serviceVars
  <2> QED BY <1>1, <2>1, <2>2 DEF Requests
<1>5. /\ \A verb \in OfCredentials : Holds(toService, verb, c)' <=> Holds(toService, verb, c)
      /\ Ordered(toService, c) => Ordered(toService, c)'
      /\ CheckedOnce(toService, c) => CheckedOnce(toService, c)'
  BY <1>1, Taken
<1>6. {"check", "store", "delete"} \subseteq OfCredentials
  BY DEF OfCredentials
<1>7. Truthful(toApp, c, c \in stored)
  BY Zenon DEF ButtonFacts
<1>8. Truthful(toApp', c, c \in stored)
  BY <1>4, <1>7, SaidAfter, Zenon
<1>9. Truthful(toApp, c, c \in stored)'
  BY <1>4, <1>8, TruthfulAs, Zenon
<1>10. /\ Holds(toApp, "check", c)' <=> Holds(toApp, "check", c)
       /\ Holds(toApp, "store", c)' <=> Holds(toApp, "store", c)
       /\ Holds(toApp, "delete", c)' <=> Holds(toApp, "delete", c)
       /\ Ordered(toApp, c) => Ordered(toApp, c)'
       /\ CheckedOnce(toApp, c) => CheckedOnce(toApp, c)'
  BY <1>4, SaidAfter
<1> QED BY <1>1, <1>4, <1>5, <1>6, <1>9, <1>10 DEF ButtonFacts, Unanswered

LEMMA HandledOwn ==
  ASSUME ButtonTypes, NEW c \in Logins!Credential, ButtonFacts(c), Logins!Handle, ~failed',
         NEW verb \in OfCredentials, Is(Head(toService), verb, c)
  PROVE  ButtonFacts(c)'
<1> DEFINE r == Head(toService)
           e == Logins!Answer(r, TRUE, r.of \in stored)
<1>1. /\ r \in Requests /\ toService # <<>> /\ toService' = Tail(toService) /\ Logins!Handles(r)
      /\ UNCHANGED <<built, enabled, has, window>>
  BY Taken DEF Logins!Handle, Logins!buttonVars
<1>2. toApp \in Seq(Replies)
  BY DEF ButtonTypes
<1>3. r.of = c /\ r.what = verb
  BY DEF Is
<1> HIDE DEF r
<1>4. /\ stored' = CASE r.what = "check" -> stored
                     [] r.what = "store" -> stored \cup {c}
                     [] r.what = "delete" -> stored \ {c}
      /\ toApp' = Append(toApp, e)
  BY <1>1, <1>3 DEF Logins!Handles, OfCredentials
<1>5. e \in Replies /\ e.what = verb /\ e.of = c /\ e.ok /\ (e.value <=> c \in stored)
  <2>1. e = [what |-> verb, of |-> c, ok |-> TRUE, value |-> c \in stored]
    BY <1>3 DEF Logins!Answer
  <2> HIDE DEF e
  <2>2. e.what = verb /\ e.of = c
    BY <2>1
  <2>5. e.ok
    BY <2>1, Zenon
  <2>3. e.value <=> c \in stored
    BY <2>1, Zenon
  <2>4. e \in Replies
    BY <2>1 DEF Replies
  <2> QED BY <2>2, <2>3, <2>4, <2>5
<1>6. \A v : Is(e, v, c) <=> v = verb
  BY <1>5 DEF Is
<1> HIDE DEF e
<1>7. \A v : Holds(toApp, v, c)' <=> Holds(toApp, v, c) \/ v = verb
  BY <1>2, <1>4, <1>5, <1>6, AppendTells DEF Holds
<1>8. Ordered(toApp, c) /\ ~(verb = "delete" /\ Holds(toApp, "store", c)) => Ordered(toApp, c)'
  BY <1>2, <1>4, <1>5, <1>6, AppendTells DEF Ordered
<1>9. CheckedOnce(toApp, c) /\ ~(verb = "check" /\ Holds(toApp, "check", c)) => CheckedOnce(toApp, c)'
  BY <1>2, <1>4, <1>5, <1>6, AppendTells DEF CheckedOnce
<1>10. /\ \A v : Holds(toService, v, c) <=> Holds(toService, v, c)' \/ v = verb
       /\ Ordered(toService, c) =>
            Ordered(toService, c)' /\ ~(verb = "store" /\ Holds(toService, "delete", c)')
       /\ CheckedOnce(toService, c) =>
            CheckedOnce(toService, c)' /\ ~(verb = "check" /\ Holds(toService, "check", c)')
  <2>1. \A v : Is(r, v, c) <=> v = verb
    BY <1>3 DEF Is
  <2> QED BY <1>1, <2>1, Taken DEF r
<1>11. Truthful(toApp, c, c \in stored)'
  <2>1. CASE verb = "check"
    <3>1. stored' = stored
      BY <1>3, <1>4, <2>1
    <3>2. Truthful(Append(toApp, e), c, c \in stored)
      BY <1>2, <1>5, AppendTruthful, Zenon DEF ButtonFacts
    <3> QED BY <1>4, <3>1, <3>2, Zenon
  <2>2. CASE verb # "check"
    <3>1. ~Holds(toApp, "check", c)'
      BY <1>7, <1>10, <2>2 DEF ButtonFacts, Unanswered, OfCredentials
    <3>2. Truthful(Append(toApp, e), c, c \in stored)
      BY <1>2, <1>5, AppendTruthful, Zenon DEF ButtonFacts
    <3>3. Truthful(toApp', c, c \in stored)
      BY <1>4, <3>2, Zenon
    <3> QED BY <3>1, <3>3, Zenon DEF Truthful, Holds
  <2> QED BY <2>1, <2>2
<1>12. CASE verb = "check"
  <2>1. stored' = stored
    BY <1>3, <1>4, <1>12
  <2> QED BY <1>1, <1>7, <1>8, <1>9, <1>10, <1>11, <1>12, <2>1 DEF ButtonFacts, Unanswered
<1>13. CASE verb = "store"
  <2>1. stored' = stored \cup {c}
    BY <1>3, <1>4, <1>13
  <2> QED BY <1>1, <1>7, <1>8, <1>9, <1>10, <1>11, <1>13, <2>1 DEF ButtonFacts, Unanswered
<1>14. CASE verb = "delete"
  <2>1. stored' = stored \ {c}
    BY <1>3, <1>4, <1>14
  <2> QED BY <1>1, <1>7, <1>8, <1>9, <1>10, <1>11, <1>14, <2>1 DEF ButtonFacts, Unanswered
<1> QED BY <1>12, <1>13, <1>14 DEF OfCredentials

LEMMA NotOAuth == \A c \in Logins!Credential : c # "oauth"
BY AppAssumption DEF Logins!Credential

LEMMA Received ==
  ASSUME ButtonTypes, toApp # <<>>, toApp' = Tail(toApp), NEW c, Truthful(toApp, c, c \in stored)
  PROVE  /\ \A verb : Holds(toApp, verb, c) <=> Holds(toApp, verb, c)' \/ Is(Head(toApp), verb, c)
         /\ Ordered(toApp, c) =>
              Ordered(toApp, c)' /\ ~(Is(Head(toApp), "store", c) /\ Holds(toApp, "delete", c)')
         /\ CheckedOnce(toApp, c) =>
              CheckedOnce(toApp, c)' /\ ~(Is(Head(toApp), "check", c) /\ Holds(toApp, "check", c)')
         /\ Truthful(toApp', c, c \in stored)
         /\ Is(Head(toApp), "store", c) => Head(toApp).ok
         /\ Is(Head(toApp), "check", c) => Head(toApp).ok /\ (Head(toApp).value <=> c \in stored)
<1>1. toApp \in Seq(Replies)
  BY DEF ButtonTypes
<1>2. \A verb : Holds(toApp, verb, c)' <=> Holds(Tail(toApp), verb, c)
  BY DEF Holds
<1>3. /\ Ordered(toApp, c)' <=> Ordered(Tail(toApp), c)
      /\ CheckedOnce(toApp, c)' <=> CheckedOnce(Tail(toApp), c)
  BY DEF Ordered, CheckedOnce
<1>4. /\ \A verb : Holds(toApp, verb, c) <=> Holds(toApp, verb, c)' \/ Is(Head(toApp), verb, c)
      /\ Ordered(toApp, c) =>
           Ordered(toApp, c)' /\ ~(Is(Head(toApp), "store", c) /\ Holds(toApp, "delete", c)')
      /\ CheckedOnce(toApp, c) =>
           CheckedOnce(toApp, c)' /\ ~(Is(Head(toApp), "check", c) /\ Holds(toApp, "check", c)')
  BY <1>1, <1>2, <1>3, TailTells
<1>5. /\ Truthful(Tail(toApp), c, c \in stored)
      /\ Is(Head(toApp), "store", c) => Head(toApp).ok
      /\ Is(Head(toApp), "check", c) => Head(toApp).ok /\ (Head(toApp).value <=> c \in stored)
  <2>1. Truthful(Tail(toApp), c, c \in stored)
    BY <1>1, TailTruthful, Zenon
  <2>2. Is(Head(toApp), "store", c) => Head(toApp).ok
    BY <1>1, TailTruthful, Zenon
  <2>3. Is(Head(toApp), "check", c) => Head(toApp).ok
    BY <1>1, TailTruthful, Zenon
  <2>4. Is(Head(toApp), "check", c) => (Head(toApp).value <=> c \in stored)
    <3>1. 1 \in 1 .. Len(toApp) /\ Head(toApp) = toApp[1]
      BY <1>1
    <3>2. Is(toApp[1], "check", c) => (toApp[1].value <=> c \in stored)
      BY <3>1, Zenon DEF Truthful
    <3> QED BY <3>1, <3>2, Zenon
  <2> QED BY <2>1, <2>2, <2>3, <2>4, Zenon
<1>6. Truthful(toApp', c, c \in stored)
  BY <1>5, Zenon
<1> QED BY <1>4, <1>5, <1>6, Zenon

(* An answer arrives.                                                      *)
LEMMA ReceivedFacts ==
  ASSUME ButtonTypes, NEW c \in Logins!Credential, ButtonFacts(c), Logins!Receive
  PROVE  ButtonFacts(c)'
<1> DEFINE m == Head(toApp)
<1>1. /\ toApp # <<>> /\ toApp' = Tail(toApp)
      /\ UNCHANGED <<built, window, toService, stored>>
  BY DEF Logins!Receive, Logins!serviceVars
<1>2. /\ CASE m.what \in {"status", "push"} ->
                IF built THEN Logins!onStatus(m.value) ELSE Logins!Ignored
           [] m.what = "check" -> Logins!onChecked(m.of, m.ok /\ m.value)
           [] m.what = "store" -> Logins!onStored(m.of, m.ok)
           [] OTHER -> Logins!Ignored
  BY DEF Logins!Receive
<1>3. Truthful(toApp, c, c \in stored)
  BY Zenon DEF ButtonFacts
<1>4. /\ \A verb : Holds(toApp, verb, c) <=> Holds(toApp, verb, c)' \/ Is(m, verb, c)
      /\ Ordered(toApp, c) => Ordered(toApp, c)' /\ ~(Is(m, "store", c) /\ Holds(toApp, "delete", c)')
      /\ CheckedOnce(toApp, c) =>
           CheckedOnce(toApp, c)' /\ ~(Is(m, "check", c) /\ Holds(toApp, "check", c)')
  BY <1>1, <1>3, Received
<1>5. /\ Truthful(toApp', c, c \in stored)
      /\ Is(m, "store", c) => m.ok
      /\ Is(m, "check", c) => m.ok /\ (m.value <=> c \in stored)
  BY <1>1, <1>3, Received, Zenon
<1>6. Truthful(toApp, c, c \in stored)'
  <2>1. c \in stored' <=> c \in stored
    BY <1>1
  <2> QED BY <1>5, <2>1, TruthfulAs, Zenon
<1>7. /\ \A verb : Holds(toService, verb, c)' <=> Holds(toService, verb, c)
      /\ Ordered(toService, c)' <=> Ordered(toService, c)
      /\ CheckedOnce(toService, c)' <=> CheckedOnce(toService, c)
  BY <1>1 DEF Holds, Ordered, CheckedOnce
<1> HIDE DEF m
<1>8. CASE Is(m, "check", c)
  <2>1. Logins!onChecked(c, m.ok /\ m.value) /\ ~Is(m, "store", c) /\ ~Is(m, "delete", c)
    BY <1>2, <1>8 DEF Is
  <2>2. (m.ok /\ m.value) <=> c \in stored
    BY <1>5, <1>8, Zenon
  <2>3. c \in enabled' /\ (c \in has' <=> c \in stored)
    BY <2>1, <2>2 DEF Logins!onChecked
  <2> QED BY <1>1, <1>4, <1>6, <1>7, <1>8, <2>1, <2>3 DEF ButtonFacts, Unanswered
<1>9. CASE Is(m, "store", c)
  <2>1. Logins!onStored(c, m.ok) /\ ~Is(m, "check", c) /\ ~Is(m, "delete", c)
    BY <1>2, <1>9 DEF Is
  <2>2. c \in enabled' /\ c \in has'
    BY <1>5, <1>9, <2>1 DEF Logins!onStored, Logins!onChecked
  <2> QED BY <1>1, <1>4, <1>6, <1>7, <1>9, <2>1, <2>2 DEF ButtonFacts, Unanswered
<1>10. CASE ~Is(m, "check", c) /\ ~Is(m, "store", c)
  <2>1. (c \in enabled' <=> c \in enabled) /\ (c \in has' <=> c \in has)
    <3>1. CASE m.what \in {"status", "push"} /\ built
      <4>1. Logins!onStatus(m.value)
        BY <1>2, <3>1
      <4> QED BY <4>1, NotOAuth DEF Logins!onStatus, Logins!OAuthButton
    <3>2. CASE m.what = "check" \/ (m.what = "store" /\ m.ok)
      <4>1. \E present : Logins!onChecked(m.of, present)
        BY <1>2, <3>2 DEF Logins!onStored
      <4>2. m.of # c
        BY <1>10, <3>2 DEF Is
      <4> QED BY <4>1, <4>2 DEF Logins!onChecked
    <3>3. CASE ~(m.what \in {"status", "push"} /\ built) /\ m.what # "check"
               /\ ~(m.what = "store" /\ m.ok)
      <4>1. Logins!Ignored
        BY <1>2, <3>3 DEF Logins!onStored
      <4> QED BY <4>1 DEF Logins!Ignored, Logins!buttonVars
    <3> QED BY <3>1, <3>2, <3>3
  <2> QED BY <1>1, <1>4, <1>6, <1>7, <1>10, <2>1 DEF ButtonFacts, Unanswered
<1> QED BY <1>8, <1>9, <1>10

(* The page is built: it asks for each credential once.                    *)
LEMMA BuiltFacts ==
  ASSUME ButtonTypes, NEW c \in Logins!Credential, ButtonFacts(c), Logins!buildAccountsPage, unsent' = <<>>
  PROVE  ButtonFacts(c)'
<1> DEFINE k == Logins!Request("check", SteamKey)
           s == Logins!Request("check", PoeSession)
           o == Logins!Request("status", None)
           q == Append(toService, k)
           r == Append(q, s)
<1>1. /\ ~built /\ built' /\ Logins!Sends(<<k, s, o>>)
      /\ UNCHANGED <<enabled, has, window, stored>>
  BY DEF Logins!buildAccountsPage, Logins!buttonVars, Logins!serviceVars
<1>2. toService' = toService \o <<k, s, o>> /\ UNCHANGED toApp
  <2>1. <<k, s, o>> \in Seq(Requests) /\ <<k, s, o>> # <<>>
    BY RequestsAre
  <2> QED BY <1>1, <2>1, SendsOn
<1>3. {k, s, o} \subseteq Requests
  BY DEF Logins!Request, Requests, OfCredentials, OfTheSignIn, Logins!Credential
<1>4. /\ \A verb : Is(k, verb, c) <=> verb = "check" /\ c = SteamKey
      /\ \A verb : Is(s, verb, c) <=> verb = "check" /\ c = PoeSession
      /\ ~Is(o, "check", c) /\ ~Is(o, "store", c) /\ ~Is(o, "delete", c)
  BY DEF Is, Logins!Request
<1>5. (c = SteamKey /\ c # PoeSession) \/ (c = PoeSession /\ c # SteamKey)
  BY AppAssumption DEF Logins!Credential
<1> HIDE DEF k, s, o
<1>6. toService = <<>> /\ toService \in Seq(Requests)
  BY <1>1 DEF ButtonTypes
<1>7. q \in Seq(Requests) /\ r \in Seq(Requests) /\ toService' = Append(r, o)
  BY <1>2, <1>3, <1>6
<1>8. /\ \A verb : Holds(q, verb, c) <=> Is(k, verb, c)
      /\ Ordered(q, c) /\ CheckedOnce(q, c)
  BY <1>3, <1>6, AppendTells, NoWords
<1> HIDE DEF q
<1>9. /\ \A verb : Holds(r, verb, c) <=> Is(k, verb, c) \/ Is(s, verb, c)
      /\ Ordered(r, c) /\ CheckedOnce(r, c)
  BY <1>3, <1>4, <1>5, <1>7, <1>8, AppendTells
<1> HIDE DEF r
<1>10. /\ \A verb : Holds(Append(r, o), verb, c) <=> Holds(r, verb, c) \/ Is(o, verb, c)
       /\ Ordered(Append(r, o), c) /\ CheckedOnce(Append(r, o), c)
  BY <1>3, <1>4, <1>7, <1>9, AppendTells
<1>11. /\ Holds(toService, "check", c)' /\ ~Holds(toService, "store", c)' /\ ~Holds(toService, "delete", c)'
       /\ Ordered(toService, c)' /\ CheckedOnce(toService, c)'
  <2>1. \A verb : Holds(toService, verb, c)' <=> Holds(Append(r, o), verb, c)
    BY <1>7 DEF Holds
  <2>2. /\ Ordered(toService, c)' <=> Ordered(Append(r, o), c)
        /\ CheckedOnce(toService, c)' <=> CheckedOnce(Append(r, o), c)
    BY <1>7 DEF Ordered, CheckedOnce
  <2> QED BY <1>4, <1>5, <1>9, <1>10, <2>1, <2>2
<1>12. Truthful(toApp, c, c \in stored)'
  BY <1>1, <1>2, StaysTruthful, Zenon DEF ButtonFacts
<1>13. /\ \A verb : Holds(toApp, verb, c)' <=> Holds(toApp, verb, c)
       /\ Ordered(toApp, c)' <=> Ordered(toApp, c)
       /\ CheckedOnce(toApp, c)' <=> CheckedOnce(toApp, c)
  BY <1>2 DEF Holds, Ordered, CheckedOnce
<1>14. enabled = {} /\ has = {}
  BY <1>1 DEF ButtonTypes
<1> QED BY <1>1, <1>11, <1>12, <1>13, <1>14 DEF ButtonFacts, Unanswered

(* Only the loss of the connection ends what disturbs it.                  *)
LEMMA CalmBefore ==
  ASSUME ButtonTypes, [Logins!Next]_(Logins!accountVars), Calm'
  PROVE  /\ Calm
         /\ Logins!Disconnected =>
              /\ toService = <<>> /\ toApp = <<>>
              /\ UNCHANGED <<built, enabled, has, window, toService, toApp, stored>>
<1>1. unsent \in Seq(Requests) /\ toService \in Seq(Requests) /\ toApp \in Seq(Replies)
  BY DEF ButtonTypes
<1>2. ASSUME Logins!Disconnected
      PROVE  /\ Calm /\ toService = <<>> /\ toApp = <<>>
             /\ UNCHANGED <<built, enabled, has, window, toService, toApp, stored>>
  <2> DEFINE out == {unsent[i] : i \in DOMAIN unsent} \cup {toService[i] : i \in DOMAIN toService}
                    \cup {Logins!Request(toApp[i].what, toApp[i].of) : i \in DOMAIN toApp}
             checks == {c \in Logins!Credential : Logins!Request("check", c) \in out}
  <2>1. /\ has' = has \ checks /\ enabled' = enabled \cup checks
        /\ failed' = (failed \/ out # {})
        /\ unsent' = <<>> /\ toService' = <<>> /\ toApp' = <<>>
        /\ UNCHANGED <<built, window, stored, overtaken>>
    BY <1>2 DEF Logins!Disconnected
  <2>2. ~failed /\ out = {}
    BY <2>1 DEF Calm
  <2>3. checks = {}
    BY <2>2
  <2>4. DOMAIN unsent = {} /\ DOMAIN toService = {} /\ DOMAIN toApp = {}
    BY <2>2
  <2>5. unsent = <<>> /\ toService = <<>> /\ toApp = <<>>
    BY <1>1, <2>4
  <2> HIDE DEF checks
  <2> QED BY <2>1, <2>2, <2>3, <2>5 DEF Calm
<1>3. ASSUME ~Logins!Disconnected PROVE Calm
  <2>1. \/ unsent' = unsent \/ \E requests \in Seq(Requests) : unsent' = unsent \o requests
    BY <1>3, RequestsAre DEF Logins!Next, Logins!accountVars, Logins!linkVars,
       Logins!buildAccountsPage, Logins!ClickLogin, Logins!sessionCaptured, Logins!keyCaptured,
       Logins!Captured, Logins!GivesUp, Logins!ClickLogoutKey, Logins!ClickLogoutSession,
       Logins!BrowseClosed, Logins!LogsOut, Logins!ClickOAuth, Logins!Handle, Logins!LoginFlowEnds,
       Logins!Receive, Logins!Connected, Logins!Sends, Logins!Credential, OfCredentials, OfTheSignIn
  <2>2. unsent = <<>>
    <3>1. \A requests \in Seq(Requests) :
            Len(unsent \o requests) = Len(unsent) + Len(requests) /\ Len(requests) \in Nat
      BY <1>1
    <3>2. unsent' = <<>> /\ (unsent = <<>> <=> Len(unsent) = 0) /\ Len(unsent) \in Nat /\ Len(<<>>) = 0
      BY <1>1 DEF Calm
    <3>3. CASE unsent' = unsent
      BY <3>2, <3>3
    <3>4. ASSUME NEW requests \in Seq(Requests), unsent' = unsent \o requests PROVE unsent = <<>>
      <4>1. Len(unsent \o requests) = 0
        BY <3>2, <3>4
      <4> QED BY <3>1, <3>2, <4>1
    <3> QED BY <2>1, <3>3, <3>4
  <2>3. ~failed /\ ~overtaken
    <3>1. CASE \/ Logins!buildAccountsPage \/ (\E c \in Logins!Credential : Logins!ClickLogin(c))
               \/ Logins!sessionCaptured \/ Logins!keyCaptured \/ Logins!GivesUp
               \/ Logins!ClickLogoutSession \/ Logins!ClickOAuth
      <4>1. UNCHANGED <<failed, overtaken>>
        BY <3>1 DEF Logins!boundVars, Logins!buildAccountsPage, Logins!ClickLogin,
           Logins!sessionCaptured, Logins!keyCaptured, Logins!Captured, Logins!GivesUp,
           Logins!ClickLogoutSession, Logins!ClickOAuth
      <4> QED BY <4>1 DEF Calm
    <3>2. CASE Logins!ClickLogoutKey \/ Logins!BrowseClosed
      <4>1. PICK c : failed' = failed /\ overtaken' = (overtaken \/ Logins!StillOut(c))
        BY <3>2 DEF Logins!ClickLogoutKey, Logins!BrowseClosed, Logins!LogsOut
      <4> QED BY <4>1, Zenon DEF Calm
    <3>3. CASE Logins!Handle
      <4>1. overtaken' = overtaken /\ (failed' = failed \/ \E ok : failed' = (failed \/ ok))
        BY <3>3 DEF Logins!Handle, Logins!Handles, Logins!serviceVars
      <4>2. ASSUME NEW ok, failed' = (failed \/ ok) PROVE ~failed
        BY <4>2, Zenon DEF Calm
      <4> QED BY <4>1, <4>2 DEF Calm
    <3>4. CASE Logins!LoginFlowEnds \/ Logins!Receive \/ Logins!Connected
               \/ UNCHANGED Logins!accountVars
      BY <3>4 DEF Calm, Logins!LoginFlowEnds, Logins!Receive, Logins!Connected, Logins!boundVars,
                  Logins!accountVars
    <3> QED BY <1>3, <3>1, <3>2, <3>3, <3>4 DEF Logins!Next
  <2> QED BY <2>2, <2>3 DEF Calm
<1> QED BY <1>2, <1>3

(* A logout that overtakes no store.                                       *)
LEMMA NoneOut ==
  ASSUME ButtonTypes, NEW c \in Logins!Credential, ~Logins!StillOut(c)
  PROVE  ~Unanswered("store", c)
<1>1. toService \in Seq(Requests) /\ toApp \in Seq(Replies)
  BY DEF ButtonTypes
<1>2. DOMAIN toService = 1 .. Len(toService) /\ DOMAIN toApp = 1 .. Len(toApp)
  BY <1>1
<1>3. \A i \in 1 .. Len(toService) :
        Is(toService[i], "store", c) => toService[i] = Logins!Request("store", c)
  <2>1. \A i \in 1 .. Len(toService) : toService[i] \in Requests
    BY <1>1
  <2>2. \A r \in Requests : Is(r, "store", c) => r = Logins!Request("store", c)
    BY DEF Requests, Is, Logins!Request
  <2> QED BY <2>1, <2>2
<1> QED BY <1>2, <1>3 DEF Logins!StillOut, Unanswered, Holds, Is

LEMMA LogoutFacts ==
  ASSUME ButtonTypes, NEW d \in Logins!Credential, NEW c \in Logins!Credential,
         ButtonFacts(c), ButtonFacts(d), Logins!LogsOut(d), Calm', built, d \in enabled,
         window' \in {window, None}
  PROVE  ButtonFacts(c)'
<1> DEFINE r == Logins!Request("delete", d)
<1>1. r \in Requests /\ <<r>> \in Seq(Requests) /\ <<r>> # <<>>
  BY DEF Logins!Request, Requests, OfCredentials
<1>2. \A verb : Is(r, verb, c) <=> verb = "delete" /\ c = d
  BY DEF Is, Logins!Request
<1>3. /\ has' = has \ {d} /\ Logins!Sends(<<r>>) /\ overtaken' = (overtaken \/ Logins!StillOut(d))
      /\ UNCHANGED <<built, enabled, stored>>
  BY DEF Logins!LogsOut, Logins!serviceVars
<1> HIDE DEF r
<1>4. toService' = toService \o <<r>> /\ UNCHANGED toApp
  BY <1>1, <1>3, SendsOn DEF Calm
<1>5. toService' = Append(toService, r)
  BY <1>1, <1>4, Joined DEF ButtonTypes
<1>6. ~Unanswered("store", d)
  <2>1. ~Logins!StillOut(d)
    BY <1>3, Zenon DEF Calm
  <2> QED BY <2>1, NoneOut
<1> QED BY <1>1, <1>2, <1>3, <1>4, <1>5, <1>6, SentFacts

LEMMA NextButtons == ButtonInv /\ [Logins!Next]_(Logins!accountVars) => ButtonInv'
<1> SUFFICES ASSUME ButtonInv, [Logins!Next]_(Logins!accountVars) PROVE ButtonInv'
  OBVIOUS
<1>1. ButtonTypes /\ ButtonTypes'
  BY NextButtonTypes DEF ButtonInv
<1> SUFFICES ASSUME Calm', NEW c \in Logins!Credential PROVE ButtonFacts(c)'
  <2>1. (Calm => \A c \in Logins!Credential : ButtonFacts(c))' <=>
        (Calm' => \A c \in Logins!Credential : ButtonFacts(c)')
    OBVIOUS
  <2> QED BY <1>1, <2>1 DEF ButtonInv
<1>2. Calm /\ \A d \in Logins!Credential : ButtonFacts(d)
  BY <1>1, CalmBefore DEF ButtonInv
<1>3. unsent' = <<>> /\ unsent = <<>>
  BY <1>2 DEF Calm
<1>4. CASE Logins!buildAccountsPage
  BY <1>1, <1>2, <1>3, <1>4, BuiltFacts
<1>5. ASSUME NEW d \in Logins!Credential, Logins!ClickLogin(d) PROVE ButtonFacts(c)'
  <2>1. d \in enabled /\ window' = Logins!Request("login", d)
        /\ UNCHANGED <<built, enabled, has, toService, toApp, stored>>
    BY <1>5 DEF Logins!ClickLogin, Logins!Click, Logins!buttonVars, Logins!linkVars, Logins!serviceVars
  <2>2. c \in enabled \/ window' \notin {Logins!Request("login", c), Logins!Request("browse", c)}
    BY <2>1 DEF Logins!Request
  <2> QED BY <1>2, <2>1, <2>2, SameFacts
<1>6. CASE Logins!sessionCaptured \/ Logins!keyCaptured
  <2>1. PICK d \in Logins!Credential : Logins!Captured(d)
    BY <1>6 DEF Logins!sessionCaptured, Logins!keyCaptured, Logins!Credential
  <2> DEFINE r == Logins!Request("store", d)
  <2>2. r \in Requests /\ <<r>> \in Seq(Requests) /\ <<r>> # <<>>
    BY DEF Logins!Request, Requests, OfCredentials
  <2>3. \A verb : Is(r, verb, c) <=> verb = "store" /\ c = d
    BY DEF Is, Logins!Request
  <2>4. /\ window = Logins!Request("login", d) /\ window' = None /\ Logins!Sends(<<r>>)
        /\ UNCHANGED <<built, enabled, has, stored>>
    BY <2>1 DEF Logins!Captured, Logins!buttonVars, Logins!serviceVars
  <2> HIDE DEF r
  <2>5. built
    BY <1>1, <2>4, NoWindow DEF ButtonTypes
  <2>6. d \in enabled
    BY <1>2, <2>4 DEF ButtonFacts
  <2>7. toService' = Append(toService, r) /\ UNCHANGED toApp
    <3>1. toService' = toService \o <<r>> /\ UNCHANGED toApp
      BY <1>1, <1>3, <2>2, <2>4, SendsOn
    <3> QED BY <1>1, <2>2, <3>1, Joined DEF ButtonTypes
  <2> QED BY <1>1, <1>2, <2>2, <2>3, <2>4, <2>5, <2>6, <2>7, SentFacts
<1>7. CASE Logins!GivesUp
  <2>1. window' = None /\ UNCHANGED <<built, enabled, has, toService, toApp, stored>>
    BY <1>7 DEF Logins!GivesUp, Logins!buttonVars, Logins!linkVars, Logins!serviceVars
  <2> QED BY <1>2, <2>1, SameFacts
<1>8. CASE Logins!ClickLogoutKey
  <2>1. SteamKey \in enabled /\ SteamKey \in Logins!Credential /\ Logins!LogsOut(SteamKey)
        /\ window' = window
    BY <1>8 DEF Logins!ClickLogoutKey, Logins!Click, Logins!Credential
  <2>2. built
    BY <1>1, <2>1 DEF ButtonTypes
  <2> QED BY <1>1, <1>2, <2>1, <2>2, LogoutFacts
<1>9. CASE Logins!BrowseClosed
  <2>1. /\ window = Logins!Request("browse", PoeSession) /\ PoeSession \in Logins!Credential
        /\ Logins!LogsOut(PoeSession) /\ window' = None
    BY <1>9 DEF Logins!BrowseClosed, Logins!Credential
  <2>2. PoeSession \in enabled
    BY <1>2, <2>1 DEF ButtonFacts
  <2>3. built
    BY <1>1, <2>2 DEF ButtonTypes
  <2> QED BY <1>1, <1>2, <2>1, <2>2, <2>3, LogoutFacts
<1>10. CASE Logins!ClickLogoutSession
  <2>1. PoeSession \in enabled /\ window' = Logins!Request("browse", PoeSession)
        /\ UNCHANGED <<built, enabled, has, toService, toApp, stored>>
    BY <1>10 DEF Logins!ClickLogoutSession, Logins!Click, Logins!buttonVars, Logins!linkVars,
                 Logins!serviceVars
  <2>2. c \in enabled \/ window' \notin {Logins!Request("login", c), Logins!Request("browse", c)}
    BY <2>1 DEF Logins!Request
  <2> QED BY <1>2, <2>1, <2>2, SameFacts
<1>11. CASE Logins!ClickOAuth
  <2>1. PICK w \in {"login", "logout"} :
          /\ Logins!Sends(<<Logins!Request(w, None)>>)
          /\ enabled' \in {enabled, enabled \cup {"oauth"}, enabled \ {"oauth"}}
          /\ "oauth" \in enabled /\ UNCHANGED <<built, has, window, stored>>
    BY <1>11 DEF Logins!ClickOAuth, Logins!Click, Logins!OAuthButton, Logins!serviceVars
  <2> DEFINE r == Logins!Request(w, None)
  <2>2. r \in Requests /\ <<r>> \in Seq(Requests) /\ <<r>> # <<>>
    BY DEF Logins!Request, Requests, OfTheSignIn
  <2>3. ~Is(r, "check", c) /\ ~Is(r, "store", c) /\ ~Is(r, "delete", c)
    BY DEF Is, Logins!Request
  <2> HIDE DEF r
  <2>4. toService' = Append(toService, r) /\ UNCHANGED toApp
    <3>1. toService' = toService \o <<r>> /\ UNCHANGED toApp
      BY <1>1, <1>3, <2>1, <2>2, SendsOn DEF r
    <3> QED BY <1>1, <2>2, <3>1, Joined DEF ButtonTypes
  <2>5. built
    BY <1>1, <2>1 DEF ButtonTypes
  <2>6. c \in enabled' <=> c \in enabled
    BY <2>1, NotOAuth
  <2> QED BY <1>1, <1>2, <2>1, <2>2, <2>3, <2>4, <2>5, <2>6, SentFacts
<1>12. CASE Logins!Handle
  <2>1. ~failed'
    BY DEF Calm
  <2> QED BY <1>1, <1>2, <1>12, <2>1, HandledOther, HandledOwn
<1>13. CASE Logins!LoginFlowEnds
  <2>1. /\ toApp' = toApp \/ toApp' = Append(toApp, Logins!Pushed(signIn'))
        /\ signIn' \in {"in", "out"}
        /\ UNCHANGED <<built, enabled, has, window, toService, stored>>
    BY <1>13 DEF Logins!LoginFlowEnds, Logins!buttonVars
  <2>2. SaysTheSame(toApp, toApp', c)
    <3>1. CASE toApp' = toApp
      BY <3>1, Zenon DEF SaysTheSame
    <3>2. CASE toApp' = Append(toApp, Logins!Pushed(signIn'))
      <4>1. Logins!Pushed(signIn') \in Replies
        BY <2>1 DEF Logins!Pushed, Logins!Answer, Logins!Request, Replies
      <4>2. \A verb \in OfCredentials : ~Is(Logins!Pushed(signIn'), verb, c)
        BY DEF Is, OfCredentials, Logins!Pushed, Logins!Answer, Logins!Request
      <4> QED BY <1>1, <3>2, <4>1, <4>2, OthersAdded DEF ButtonTypes
    <3> QED BY <2>1, <3>1, <3>2
  <2> QED BY <1>2, <2>1, <2>2, ToldFacts
<1>14. CASE Logins!Receive
  BY <1>1, <1>2, <1>14, ReceivedFacts
<1>15. CASE Logins!Connected
  <2>1. UNCHANGED <<built, enabled, has, window, toService, toApp, stored>>
    BY <1>15 DEF Logins!Connected, Logins!buttonVars, Logins!serviceVars
  <2> QED BY <1>2, <2>1, SameFacts
<1>16. CASE Logins!Disconnected
  <2>1. UNCHANGED <<built, enabled, has, window, toService, toApp, stored>>
    BY <1>1, <1>16, CalmBefore
  <2> QED BY <1>2, <2>1, SameFacts
<1>17. CASE UNCHANGED Logins!accountVars
  <2>1. UNCHANGED <<built, enabled, has, window, toService, toApp, stored>>
    BY <1>17 DEF Logins!accountVars, Logins!buttonVars, Logins!linkVars, Logins!serviceVars
  <2> QED BY <1>2, <2>1, SameFacts
<1> QED BY <1>4, <1>5, <1>6, <1>7, <1>8, <1>9, <1>10, <1>11, <1>12, <1>13, <1>14, <1>15, <1>16,
           <1>17 DEF Logins!Next

-----------------------------------------------------------------------------
(* TaskManager.                                                            *)
T == INSTANCE TaskManagerProofs

(* TaskManager is instantiated twice; its operators mean the same.         *)
LEMMA SameDequeued ==
  ASSUME NEW s, NEW kinds
  PROVE  T!Dequeued(s, kinds) = Tasks!Dequeued(s, kinds)
<1>1. \A S : T!Cardinality(S) = Tasks!Cardinality(S)
  BY DEF T!Cardinality, Tasks!Cardinality
<1>2. \A k : T!runningCount(s, k, kinds) = Tasks!runningCount(s, k, kinds)
  BY <1>1 DEF T!runningCount, Tasks!runningCount, T!Occupying, Tasks!Occupying
<1> QED BY <1>1, <1>2 DEF T!Dequeued, Tasks!Dequeued

LEMMA SameTasks ==
  /\ T!Init <=> Tasks!Init
  /\ [Tasks!Next]_(Tasks!vars) => [T!Next]_(T!vars)
  /\ T!SlotsFilled <=> Tasks!SlotsFilled
  /\ T!RowsMatchTasks <=> Tasks!RowsMatchTasks
  /\ T!TrackerHeld <=> Tasks!TrackerHeld
  /\ T!TypeOK <=> Tasks!TypeOK
<1> USE DEF T!Id, T!Submitted, T!Occupying, T!Active, T!Terminal, T!Hidden, T!taskVars, T!panelVars,
            T!mainVars,
            Tasks!Id, Tasks!Submitted, Tasks!Occupying, Tasks!Active, Tasks!Terminal, Tasks!Hidden,
            Tasks!taskVars, Tasks!panelVars, Tasks!mainVars
<1>1. T!Init <=> Tasks!Init
  BY DEF T!Init, Tasks!Init
<1>2. \A t, s : T!StatusContent(t, s) = Tasks!StatusContent(t, s)
  BY DEF T!StatusContent, Tasks!StatusContent
<1>3. \A k : T!submit(k) <=> Tasks!submit(k)
  BY <1>2, SameDequeued DEF T!submit, Tasks!submit
<1>4. \A t, s : T!Update(t, s) <=> Tasks!Update(t, s)
  BY <1>2 DEF T!Update, Tasks!Update, T!onTaskUpdated, Tasks!onTaskUpdated
<1>5. \A t, v : T!CleanupTask(t, v) <=> Tasks!CleanupTask(t, v)
  BY <1>4, SameDequeued DEF T!CleanupTask, Tasks!CleanupTask
<1>6. \A k : T!Submit(k) <=> Tasks!Submit(k)
  BY <1>3 DEF T!Submit, Tasks!Submit
<1>7. \A t : /\ T!ClickCancel(t) <=> Tasks!ClickCancel(t)
             /\ T!ShowDelayOver(t) <=> Tasks!ShowDelayOver(t)
  BY <1>4 DEF T!ClickCancel, Tasks!ClickCancel, T!cancel, Tasks!cancel, T!ShowDelayOver,
              Tasks!ShowDelayOver
<1>8. \A t, p : /\ T!Progress(t, p) <=> Tasks!Progress(t, p)
                /\ T!Ends(t, p) <=> Tasks!Ends(t, p)
  BY DEF T!Progress, Tasks!Progress, T!Ends, Tasks!Ends, T!CanPost, Tasks!CanPost
<1>9. T!Deliver <=> Tasks!Deliver
  BY <1>4, <1>5 DEF T!Deliver, Tasks!Deliver, T!onWorkerProgress, Tasks!onWorkerProgress,
                    T!onWorkerFinished,
                    Tasks!onWorkerFinished, T!onWorkerFailed, Tasks!onWorkerFailed
<1>10. T!StatusOther <=> Tasks!StatusOther
  BY DEF T!StatusOther, Tasks!StatusOther, T!Report, Tasks!Report
<1>11. \A p : /\ T!StatusIngesting(p) <=> Tasks!StatusIngesting(p)
              /\ T!GraceOver(p) <=> Tasks!GraceOver(p)
  BY <1>3 DEF T!StatusIngesting, Tasks!StatusIngesting, T!GraceOver, Tasks!GraceOver, T!TrackerPosted,
              Tasks!TrackerPosted, T!Report, Tasks!Report, T!StillIngesting, Tasks!StillIngesting
<1>12. [Tasks!Next]_(Tasks!vars) => [T!Next]_(T!vars)
  BY <1>6, <1>7, <1>8, <1>9, <1>10, <1>11 DEF Tasks!Next, T!Next, Tasks!vars, T!vars
<1>13. T!SlotsFilled <=> Tasks!SlotsFilled
  <2>1. \A S : T!Cardinality(S) = Tasks!Cardinality(S)
    BY DEF T!Cardinality, Tasks!Cardinality
  <2> QED BY <2>1 DEF T!SlotsFilled, Tasks!SlotsFilled
<1>14. (T!RowsMatchTasks <=> Tasks!RowsMatchTasks) /\ (T!TrackerHeld <=> Tasks!TrackerHeld)
  BY DEF T!RowsMatchTasks, Tasks!RowsMatchTasks, T!TrackerHeld, Tasks!TrackerHeld
<1>15. T!TypeOK <=> Tasks!TypeOK
  BY DEF T!TypeOK, Tasks!TypeOK
<1> QED BY <1>1, <1>12, <1>13, <1>14, <1>15

-----------------------------------------------------------------------------
(* DeferredTaskQueue, and the sub-pages of the settings that it builds.    *)

(* The function by which Elements is defined exists, and its values are    *)
(* the elements at the positions up to its argument.                       *)
LEMMA ElementsRecursion ==
  ASSUME NEW R, NEW s \in Seq(R), NEW K
  PROVE  \E f : f = [n \in 0 .. Len(s) |->
                       IF n = 0 THEN <<>>
                       ELSE IF n \in K THEN Append(f[n - 1], s[n]) ELSE f[n - 1]]
<1> DEFINE Value(f, n) == IF n = 0 THEN <<>>
                          ELSE IF n \in K THEN Append(f[n - 1], s[n]) ELSE f[n - 1]
           Upto(m) == \E f : f = [n \in 0 .. m |-> Value(f, n)]
           Bad == {m \in 0 .. Len(s) : ~ Upto(m)}
<1>1. Upto(0)
  <2>1. [n \in 0 .. 0 |-> <<>>] = [n \in 0 .. 0 |-> Value([k \in 0 .. 0 |-> <<>>], n)]
    OBVIOUS
  <2> QED BY <2>1
<1>2. ASSUME NEW m \in 1 .. Len(s), Upto(m - 1) PROVE Upto(m)
  <2>1. PICK f : f = [n \in 0 .. m - 1 |-> Value(f, n)]
    BY <1>2
  <2> HIDE DEF Value
  <2>0. \A n \in 0 .. m - 1 : f[n] = Value(f, n)
    BY <2>1, Zenon
  <2> DEFINE g == [n \in 0 .. m |-> IF n = m THEN Value(f, m) ELSE f[n]]
  <2>2. \A n \in 0 .. m : g[n] = Value(g, n)
    <3> TAKE n \in 0 .. m
    <3>1. n # 0 => g[n - 1] = f[n - 1]
      OBVIOUS
    <3>2. Value(g, n) = Value(f, n)
      BY <3>1 DEF Value
    <3>3. n # m => f[n] = Value(f, n)
      BY <2>0
    <3> QED BY <3>2, <3>3
  <2>3. g = [n \in 0 .. m |-> Value(g, n)]
    BY <2>2
  <2> QED BY <2>3
<1> HIDE DEF Upto
<1>3. Bad = {}
  <2> SUFFICES ASSUME Bad # {} PROVE FALSE
    OBVIOUS
  <2>0. Bad \subseteq Nat
    OBVIOUS
  <2>1. PICK m \in Bad : \A n \in Bad : m <= n
    <3> HIDE DEF Bad
    <3> QED BY <2>0, T!Least
  <2>2. m # 0 /\ m \in 1 .. Len(s)
    BY <1>1
  <2>3. m - 1 \notin Bad /\ m - 1 \in 0 .. Len(s)
    BY <2>1, <2>2
  <2> QED BY <1>2, <2>2, <2>3
<1>4. Upto(Len(s))
  BY <1>3
<1> QED BY <1>4 DEF Upto

LEMMA ElementsAre ==
  ASSUME NEW R, NEW s \in Seq(R), NEW K
  PROVE  /\ Shell!Elements(s, K) \in Seq(R)
         /\ \E at \in [1 .. Len(Shell!Elements(s, K)) -> 1 .. Len(s)] :
              /\ \A i \in 1 .. Len(Shell!Elements(s, K)) :
                   at[i] \in K /\ Shell!Elements(s, K)[i] = s[at[i]]
              /\ \A i, j \in 1 .. Len(Shell!Elements(s, K)) : i < j => at[i] < at[j]
<1> DEFINE Steps(f) == f = [n \in 0 .. Len(s) |->
                           IF n = 0 THEN <<>>
                           ELSE IF n \in K THEN Append(f[n - 1], s[n]) ELSE f[n - 1]]
           upTo == CHOOSE f : Steps(f)
<1>1. Steps(upTo)
  <2>1. \E f : Steps(f)
    BY ElementsRecursion
  <2> HIDE DEF Steps
  <2> QED BY <2>1, Zenon
<1>2. Shell!Elements(s, K) = upTo[Len(s)]
  BY DEF Shell!Elements
<1> HIDE DEF upTo
<1>3. /\ upTo[0] = <<>>
      /\ \A n \in 1 .. Len(s) :
           upTo[n] = IF n \in K THEN Append(upTo[n - 1], s[n]) ELSE upTo[n - 1]
  <2> DEFINE Value(n) == IF n = 0 THEN <<>>
                         ELSE IF n \in K THEN Append(upTo[n - 1], s[n]) ELSE upTo[n - 1]
  <2>1. upTo = [n \in 0 .. Len(s) |-> Value(n)]
    BY <1>1
  <2> HIDE DEF Value
  <2>2. \A n \in 0 .. Len(s) : upTo[n] = Value(n)
    BY <2>1, Zenon
  <2>3. 0 \in 0 .. Len(s) /\ 1 .. Len(s) \subseteq 0 .. Len(s) /\ \A n \in 1 .. Len(s) : n # 0
    OBVIOUS
  <2> QED BY <2>2, <2>3, Zenon DEF Value
<1> HIDE DEF Steps
<1> DEFINE Good(n) ==
             /\ upTo[n] \in Seq(R)
             /\ \E at \in [1 .. Len(upTo[n]) -> 1 .. n] :
                  /\ \A i \in 1 .. Len(upTo[n]) : at[i] \in K /\ upTo[n][i] = s[at[i]]
                  /\ \A i, j \in 1 .. Len(upTo[n]) : i < j => at[i] < at[j]
           Bad == {n \in 0 .. Len(s) : ~ Good(n)}
<1>4. Good(0)
  <2>1. upTo[0] = <<>> /\ Len(upTo[0]) = 0
    BY <1>3
  <2>2. upTo[0] \in Seq(R) /\ 1 .. Len(upTo[0]) = {} /\ 1 .. 0 = {}
    BY <2>1
  <2>3. [i \in {} |-> 0] \in [1 .. Len(upTo[0]) -> 1 .. 0]
    BY <2>2
  <2> QED BY <2>2, <2>3
<1>5. ASSUME NEW n \in 1 .. Len(s), Good(n - 1) PROVE Good(n)
  <2> DEFINE r == upTo[n - 1]
  <2>1. PICK at \in [1 .. Len(r) -> 1 .. n - 1] :
          /\ \A i \in 1 .. Len(r) : at[i] \in K /\ r[i] = s[at[i]]
          /\ \A i, j \in 1 .. Len(r) : i < j => at[i] < at[j]
    BY <1>5
  <2>2. r \in Seq(R) /\ Len(r) \in Nat
    BY <1>5
  <2> HIDE DEF r
  <2>3. CASE n \notin K
    <3>1. upTo[n] = r
      BY <1>3, <2>3 DEF r
    <3>2. at \in [1 .. Len(r) -> 1 .. n]
      BY <2>1
    <3> QED BY <2>1, <2>2, <3>1, <3>2
  <2>4. CASE n \in K
    <3> DEFINE more == [i \in 1 .. Len(r) + 1 |-> IF i = Len(r) + 1 THEN n ELSE at[i]]
    <3>1. upTo[n] = Append(r, s[n])
      BY <1>3, <2>4 DEF r
    <3>2. upTo[n] \in Seq(R) /\ Len(upTo[n]) = Len(r) + 1
      BY <2>2, <3>1
    <3>3. more \in [1 .. Len(upTo[n]) -> 1 .. n]
      BY <2>1, <2>2, <3>2
    <3>4. \A i \in 1 .. Len(upTo[n]) : more[i] \in K /\ upTo[n][i] = s[more[i]]
      BY <2>1, <2>2, <2>4, <3>1, <3>2
    <3>5. \A i, j \in 1 .. Len(upTo[n]) : i < j => more[i] < more[j]
      BY <2>1, <2>2, <3>2
    <3> HIDE DEF more
    <3> QED BY <3>2, <3>3, <3>4, <3>5
  <2> QED BY <2>3, <2>4
<1> HIDE DEF Good
<1>6. Bad = {}
  <2> SUFFICES ASSUME Bad # {} PROVE FALSE
    OBVIOUS
  <2>0. Bad \subseteq Nat
    OBVIOUS
  <2>1. PICK m \in Bad : \A n \in Bad : m <= n
    <3> HIDE DEF Bad
    <3> QED BY <2>0, T!Least
  <2>2. m \in 1 .. Len(s)
    BY <1>4
  <2>3. m - 1 \notin Bad /\ m - 1 \in 0 .. Len(s)
    BY <2>1, <2>2
  <2> QED BY <1>5, <2>2, <2>3
<1>7. Good(Len(s))
  BY <1>6
<1> QED BY <1>2, <1>7 DEF Good

(* The tasks of the queue, and whom the wait cursor is for.                *)
Task == [id : Shell!Sub, work : {"build", "show"},
         priority : {Shell!Eventual, Shell!Low, Shell!Immediate},
         requestors : SUBSET (Shell!Tab \X {Shell!Low}), tracked : BOOLEAN]

Queue(q) == q \in Seq(Task) /\ \A i, j \in 1 .. Len(q) : q[i].id = q[j].id => i = j

Urgent(q) ==
  {page \in Shell!Sub : \E i \in 1 .. Len(q) : q[i].id = page /\ q[i].priority >= Shell!Immediate}

USE DEF Shell!Immediate, Shell!Low, Shell!Eventual

LEMMA SettingsAsks == <<"settings", 1>> \in Shell!Tab \X {1}
BY DEF Shell!Tab

LEMMA LowTask ==
  ASSUME NEW t \in Task
  PROVE  /\ Shell!recalcPriority(t) \in Task
         /\ Shell!recalcPriority(t).id = t.id
         /\ Shell!recalcPriority(t).priority < Shell!Immediate
<1> DEFINE S == {Shell!Eventual} \cup {r[2] : r \in t.requestors}
           m == Shell!Max(S)
<1>1. S \subseteq {0, 1} /\ 0 \in S
  BY DEF Task
<1>2. m \in {0, 1}
  <2>1. \E x \in S : \A y \in S : x >= y
    <3>1. CASE 1 \in S
      BY <1>1, <3>1
    <3>2. CASE 1 \notin S
      BY <1>1, <3>2
    <3> QED BY <3>1, <3>2
  <2> HIDE DEF S
  <2>2. m \in S
    BY <2>1 DEF Shell!Max
  <2> QED BY <1>1, <2>2
<1>3. Shell!recalcPriority(t) = [t EXCEPT !.priority = m]
  BY DEF Shell!recalcPriority
<1> HIDE DEF m
<1> QED BY <1>2, <1>3 DEF Task

LEMMA MergedTask ==
  ASSUME NEW t \in Task
  PROVE  /\ Shell!Merged(t, Shell!Immediate, "show", None) \in Task
         /\ Shell!Merged(t, Shell!Immediate, "show", None).id = t.id
         /\ Shell!Merged(t, Shell!Low, "build", "settings") \in Task
         /\ Shell!Merged(t, Shell!Low, "build", "settings").id = t.id
         /\ Shell!Merged(t, Shell!Low, "build", "settings").priority < Shell!Immediate
<1>1. /\ Shell!Merged(t, Shell!Immediate, "show", None) \in Task
      /\ Shell!Merged(t, Shell!Immediate, "show", None).id = t.id
  BY DEF Shell!Merged, Task
<1>2. CASE "settings" = None
  <2> DEFINE u == [t EXCEPT !.work = "build", !.requestors = {}, !.tracked = FALSE, !.priority = 1]
  <2>1. u \in Task /\ u.id = t.id /\ u.priority = 1
    BY DEF Task
  <2>2. Shell!Merged(t, Shell!Low, "build", "settings") = u
    BY <1>2 DEF Shell!Merged
  <2> HIDE DEF u
  <2> QED BY <1>1, <2>1, <2>2
<1>3. CASE "settings" # None
  <2> DEFINE others == Shell!Without(t, "settings") \cup {<<"settings", 1>>}
             u == [t EXCEPT !.work = "build", !.tracked = TRUE, !.requestors = others]
  <2>1. others \in SUBSET (Shell!Tab \X {1})
    <3>1. Shell!Without(t, "settings") \subseteq t.requestors
      BY DEF Shell!Without
    <3>2. t.requestors \subseteq Shell!Tab \X {1}
      BY DEF Task
    <3> QED BY <3>1, <3>2, SettingsAsks
  <2> HIDE DEF others
  <2>2. u \in Task /\ u.id = t.id
    BY <2>1 DEF Task
  <2> HIDE DEF u
  <2>3. Shell!Merged(t, Shell!Low, "build", "settings") = Shell!recalcPriority(u)
    BY <1>3 DEF Shell!Merged, u, others
  <2> QED BY <1>1, <2>2, <2>3, LowTask
<1> QED BY <1>2, <1>3

(* A queue whose tasks are changed in place.                               *)
LEMMA ChangedQueue ==
  ASSUME NEW q, Queue(q), NEW r, r = [i \in 1 .. Len(q) |-> r[i]],
         \A i \in 1 .. Len(q) : r[i] \in Task /\ r[i].id = q[i].id
  PROVE  Queue(r) /\ Len(r) = Len(q)
<1>1. Len(q) \in Nat
  BY DEF Queue
<1>2. r \in [1 .. Len(q) -> Task]
  OBVIOUS
<1>3. r \in Seq(Task) /\ Len(r) = Len(q)
  BY <1>1, <1>2
<1> QED BY <1>3 DEF Queue

LEMMA DemotedQueue ==
  ASSUME NEW q, Queue(q), NEW page
  PROVE  /\ Queue(Shell!setPriority(q, page, Shell!Low))
         /\ Urgent(Shell!setPriority(q, page, Shell!Low)) \subseteq Urgent(q) \ {page}
         /\ q # <<>> => Shell!setPriority(q, page, Shell!Low) # <<>>
<1> DEFINE r == Shell!setPriority(q, page, Shell!Low)
<1>1. r = [i \in 1 .. Len(q) |-> IF q[i].id = page THEN [q[i] EXCEPT !.priority = 1] ELSE q[i]]
  BY DEF Shell!setPriority, Shell!Changed, Queue
<1>2. \A i \in 1 .. Len(q) :
        /\ q[i] \in Task /\ r[i] \in Task /\ r[i].id = q[i].id
        /\ r[i].id = page => r[i].priority = 1
        /\ r[i].id # page => r[i].priority = q[i].priority
  <2> TAKE i \in 1 .. Len(q)
  <2>1. q[i] \in Task
    BY DEF Queue
  <2>2. /\ [q[i] EXCEPT !.priority = 1] \in Task
        /\ [q[i] EXCEPT !.priority = 1].id = q[i].id
        /\ [q[i] EXCEPT !.priority = 1].priority = 1
    BY <2>1 DEF Task
  <2> QED BY <1>1, <2>1, <2>2
<1>3. r = [i \in 1 .. Len(q) |-> r[i]]
  BY <1>1
<1> HIDE DEF r
<1>4. Queue(r) /\ Len(r) = Len(q)
  BY <1>2, <1>3, ChangedQueue
<1>5. Urgent(r) \subseteq Urgent(q) \ {page}
  BY <1>2, <1>4 DEF Urgent
<1>6. q # <<>> => r # <<>>
  BY <1>4 DEF Queue
<1> QED BY <1>4, <1>5, <1>6 DEF r

LEMMA EnqueuedQueue ==
  ASSUME NEW q, Queue(q), NEW page \in Shell!Sub
  PROVE  /\ Queue(Shell!enqueue(q, page, Shell!Immediate, "show", None))
         /\ Urgent(Shell!enqueue(q, page, Shell!Immediate, "show", None)) \subseteq Urgent(q) \cup {page}
         /\ Queue(Shell!enqueue(q, page, Shell!Low, "build", "settings"))
         /\ Urgent(Shell!enqueue(q, page, Shell!Low, "build", "settings")) \subseteq Urgent(q)
<1> DEFINE Step(p, w, o) ==
      /\ Queue(Shell!enqueue(q, page, p, w, o))
      /\ Urgent(Shell!enqueue(q, page, p, w, o)) \subseteq
           Urgent(q) \cup (IF p >= Shell!Immediate THEN {page} ELSE {})
<1>1. ASSUME NEW p \in {1, 10}, NEW w, NEW o,
             \A t \in Task : /\ Shell!Merged(t, p, w, o) \in Task
                             /\ Shell!Merged(t, p, w, o).id = t.id
                             /\ p < 10 => Shell!Merged(t, p, w, o).priority < 10,
             Shell!NewTask(page, p, w, o) \in Task
      PROVE  Step(p, w, o)
  <2> DEFINE r == Shell!enqueue(q, page, p, w, o)
  <2>0. \A i \in 1 .. Len(q) : q[i] \in Task
    BY DEF Queue
  <2>1. CASE Shell!Queued(q, page)
    <3>1. r = [i \in 1 .. Len(q) |-> IF q[i].id = page THEN Shell!Merged(q[i], p, w, o) ELSE q[i]]
      BY <2>1 DEF Shell!enqueue, Shell!Changed, Queue
    <3>2. \A i \in 1 .. Len(q) :
            /\ r[i] \in Task /\ r[i].id = q[i].id
            /\ r[i].id # page => r[i] = q[i]
            /\ r[i].id = page /\ p < 10 => r[i].priority < 10
      BY <1>1, <2>0, <3>1
    <3>3. r = [i \in 1 .. Len(q) |-> r[i]]
      BY <3>1
    <3> HIDE DEF r
    <3>4. Queue(r) /\ Len(r) = Len(q)
      BY <3>2, <3>3, ChangedQueue
    <3>5. Urgent(r) \subseteq Urgent(q) \cup (IF p >= 10 THEN {page} ELSE {})
      <4> SUFFICES ASSUME NEW x \in Urgent(r), x # page \/ p < 10 PROVE x \in Urgent(q)
        OBVIOUS
      <4>1. PICK i \in 1 .. Len(q) : r[i].id = x /\ r[i].priority >= 10
        BY <3>4 DEF Urgent
      <4>2. r[i].priority \in Nat
        BY <3>2 DEF Task
      <4>3. r[i].id # page
        BY <3>2, <4>1, <4>2
      <4> QED BY <3>2, <4>1, <4>3 DEF Urgent
    <3> QED BY <3>4, <3>5 DEF r
  <2>2. CASE ~ Shell!Queued(q, page)
    <3> DEFINE new == Shell!NewTask(page, p, w, o)
    <3>1. r = Append(q, new)
      BY <2>2 DEF Shell!enqueue
    <3>2. new.id = page /\ new.priority = p
      BY DEF Shell!NewTask
    <3>3. \A i \in 1 .. Len(q) : q[i].id # page
      BY <2>2 DEF Shell!Queued, Queue
    <3> HIDE DEF new, r
    <3>4. r \in Seq(Task) /\ Len(r) = Len(q) + 1 /\ r[Len(q) + 1] = new
          /\ \A i \in 1 .. Len(q) : r[i] = q[i]
      BY <1>1, <3>1 DEF Queue, new
    <3>5. Queue(r)
      BY <3>2, <3>3, <3>4 DEF Queue
    <3>6. Urgent(r) \subseteq Urgent(q) \cup (IF p >= 10 THEN {page} ELSE {})
      BY <3>2, <3>4 DEF Urgent, Queue
    <3> QED BY <3>5, <3>6 DEF r
  <2> QED BY <2>1, <2>2
<1>2. Shell!NewTask(page, 10, "show", None) \in Task
  BY DEF Shell!NewTask, Task
<1>3. Shell!NewTask(page, 1, "build", "settings") \in Task
  BY SettingsAsks DEF Shell!NewTask, Task
<1>4. Step(10, "show", None)
  BY <1>1, <1>2, MergedTask
<1>5. Step(1, "build", "settings")
  BY <1>1, <1>3, MergedTask
<1> QED BY <1>4, <1>5

(* Some of the tasks, in their order.                                      *)
LEMMA FewerQueue ==
  ASSUME NEW q, Queue(q), NEW r \in Seq(Task), NEW at \in [1 .. Len(r) -> 1 .. Len(q)],
         \A i \in 1 .. Len(r) : r[i] = q[at[i]],
         \A i, j \in 1 .. Len(r) : i < j => at[i] < at[j]
  PROVE  Queue(r) /\ Urgent(r) \subseteq Urgent(q)
<1>1. \A i, j \in 1 .. Len(r) : r[i].id = r[j].id => at[i] = at[j]
  BY DEF Queue
<1>2. \A i, j \in 1 .. Len(r) : at[i] = at[j] => i = j
  BY DEF Queue
<1>3. Queue(r)
  BY <1>1, <1>2 DEF Queue
<1> QED BY <1>3 DEF Urgent

LEMMA CancelledQueue ==
  ASSUME NEW q, Queue(q), NEW who
  PROVE  /\ Queue(Shell!cancelByRequestor(q, who))
         /\ Urgent(Shell!cancelByRequestor(q, who)) \subseteq Urgent(q)
<1> DEFINE AskedFor(t) == Shell!Without(t, who) # t.requestors
           K == {i \in DOMAIN q : AskedFor(q[i]) => Shell!Without(q[i], who) # {}}
           kept == Shell!Elements(q, K)
           Less(t) == [t EXCEPT !.requestors = Shell!Without(t, who)]
           r == [i \in DOMAIN kept |-> IF AskedFor(kept[i]) THEN Shell!recalcPriority(Less(kept[i]))
                                       ELSE kept[i]]
<1>1. Shell!cancelByRequestor(q, who) = r
  BY DEF Shell!cancelByRequestor
<1>2. Queue(kept) /\ Urgent(kept) \subseteq Urgent(q)
  <2> HIDE DEF K
  <2>1. q \in Seq(Task)
    BY DEF Queue
  <2> QED BY <2>1, ElementsAre, FewerQueue
<1> HIDE DEF kept
<1>3. \A t \in Task : Less(t) \in Task /\ Less(t).id = t.id
  <2> TAKE t \in Task
  <2>1. Shell!Without(t, who) \subseteq t.requestors
    BY DEF Shell!Without
  <2> HIDE DEF Shell!Without
  <2> QED BY <2>1 DEF Task
<1> HIDE DEF Less, AskedFor
<1>4. r = [i \in 1 .. Len(kept) |-> IF AskedFor(kept[i]) THEN Shell!recalcPriority(Less(kept[i]))
                                    ELSE kept[i]]
  BY <1>2 DEF Queue
<1>5. \A i \in 1 .. Len(kept) :
        /\ r[i] \in Task /\ r[i].id = kept[i].id
        /\ r[i] = kept[i] \/ r[i].priority < 10
  <2> TAKE i \in 1 .. Len(kept)
  <2>1. kept[i] \in Task
    BY <1>2 DEF Queue
  <2> QED BY <1>3, <1>4, <2>1, LowTask
<1>6. r = [i \in 1 .. Len(kept) |-> r[i]]
  BY <1>4
<1> HIDE DEF r
<1>7. Queue(r) /\ Len(r) = Len(kept)
  BY <1>2, <1>5, <1>6, ChangedQueue
<1>8. Urgent(r) \subseteq Urgent(kept)
  <2> SUFFICES ASSUME NEW x \in Urgent(r) PROVE x \in Urgent(kept)
    OBVIOUS
  <2>1. PICK i \in 1 .. Len(r) : r[i].id = x /\ r[i].priority >= 10
    BY DEF Urgent
  <2>2. r[i].priority \in Nat /\ i \in 1 .. Len(kept)
    BY <1>5, <1>7 DEF Task
  <2>3. r[i] = kept[i]
    BY <1>5, <2>1, <2>2
  <2> QED BY <2>1, <2>2, <2>3 DEF Urgent
<1> QED BY <1>1, <1>2, <1>7, <1>8

(* The task that processNextTask takes, and those it leaves.               *)
LEMMA MostUrgentIs ==
  ASSUME NEW q, Queue(q), q # <<>>
  PROVE  Shell!MostUrgent(q) \in 1 .. Len(q)
<1>1. DOMAIN q = 1 .. Len(q) /\ Len(q) \in Nat /\ 1 \in 1 .. Len(q)
  BY DEF Queue
<1>2. \A i \in 1 .. Len(q) : q[i].priority \in {0, 1, 10}
  <2>1. \A i \in 1 .. Len(q) : q[i] \in Task
    BY DEF Queue
  <2>2. \A t \in Task : t.priority \in {0, 1, 10}
    BY DEF Task
  <2> QED BY <2>1, <2>2
<1>3. PICK p \in {0, 1, 10} : /\ \E i \in 1 .. Len(q) : q[i].priority = p
                              /\ \A i \in 1 .. Len(q) : q[i].priority <= p
  <2>1. CASE \E i \in 1 .. Len(q) : q[i].priority = 10
    BY <1>2, <2>1
  <2>2. CASE ~ \E i \in 1 .. Len(q) : q[i].priority = 10
    <3>1. CASE \E i \in 1 .. Len(q) : q[i].priority = 1
      BY <1>2, <2>2, <3>1
    <3>2. CASE ~ \E i \in 1 .. Len(q) : q[i].priority = 1
      BY <1>1, <1>2, <2>2, <3>2
    <3> QED BY <3>1, <3>2
  <2> QED BY <2>1, <2>2
<1> DEFINE S == {i \in 1 .. Len(q) : q[i].priority = p}
<1>4. S \subseteq Nat /\ S # {}
  BY <1>3
<1>5. PICK i \in S : \A j \in S : i <= j
  <2> HIDE DEF S
  <2> QED BY <1>4, T!Least
<1>6. i \in DOMAIN q /\ \A j \in DOMAIN q \ {i} : q[j].priority < q[i].priority
                          \/ (q[j].priority = q[i].priority /\ i < j)
  BY <1>1, <1>2, <1>3, <1>5
<1>7. Shell!MostUrgent(q) \in DOMAIN q
  BY <1>6, Zenon DEF Shell!MostUrgent
<1> QED BY <1>1, <1>7

LEMMA RemovedQueue ==
  ASSUME NEW q, Queue(q), NEW n \in 1 .. Len(q)
  PROVE  Queue(Shell!RemoveAt(q, n)) /\ Urgent(Shell!RemoveAt(q, n)) \subseteq Urgent(q)
<1> DEFINE r == Shell!RemoveAt(q, n)
           at == [i \in 1 .. Len(q) - 1 |-> IF i < n THEN i ELSE i + 1]
<1>1. q \in Seq(Task) /\ Len(q) \in Nat
  BY DEF Queue
<1>2. r \in Seq(Task) /\ Len(r) = Len(q) - 1 /\ \A i \in 1 .. Len(r) : r[i] = q[at[i]]
  <2> DEFINE a == SubSeq(q, 1, n - 1)
             b == SubSeq(q, n + 1, Len(q))
  <2>1. a \in Seq(Task) /\ Len(a) = n - 1 /\ \A i \in 1 .. n - 1 : a[i] = q[i]
    BY <1>1
  <2>2. b \in Seq(Task) /\ Len(b) = Len(q) - n /\ \A i \in 1 .. Len(q) - n : b[i] = q[n + i]
    BY <1>1
  <2>3. r = a \o b
    BY DEF Shell!RemoveAt
  <2> HIDE DEF a, b, r
  <2>4. r \in Seq(Task) /\ Len(r) = Len(q) - 1
    BY <1>1, <2>1, <2>2, <2>3
  <2>5. \A i \in 1 .. Len(q) - 1 : r[i] = IF i < n THEN a[i] ELSE b[i - (n - 1)]
    BY <1>1, <2>1, <2>2, <2>3
  <2>6. ASSUME NEW i \in 1 .. Len(q) - 1 PROVE r[i] = q[at[i]]
    <3>1. CASE i < n
      BY <1>1, <2>1, <2>5, <3>1
    <3>2. CASE ~ (i < n)
      <4>1. i - (n - 1) \in 1 .. Len(q) - n /\ n + (i - (n - 1)) = i + 1
        BY <1>1, <3>2
      <4> QED BY <2>2, <2>5, <3>2, <4>1
    <3> QED BY <3>1, <3>2
  <2> QED BY <2>4, <2>6
<1>3. at \in [1 .. Len(q) - 1 -> 1 .. Len(q)]
  BY <1>1
<1>4. \A i, j \in 1 .. Len(q) - 1 : i < j => at[i] < at[j]
  BY <1>1
<1> HIDE DEF r, at
<1>5. Queue(r) /\ Urgent(r) \subseteq Urgent(q)
  BY <1>2, <1>3, <1>4, FewerQueue
<1> QED BY <1>5 DEF r

(* The queue's timer runs only while there is a task.                      *)
DueIn(timers, q) ==
  /\ timers \in Seq(Shell!Sub \cup {"task", "preload"})
  /\ \A i \in 1 .. Len(timers) : timers[i] = "task" => q # <<>>

LEMMA TimersAreDue ==
  ASSUME NEW q, NEW timers \in Seq(Shell!Sub \cup {"task", "preload"})
  PROVE  DueIn(Shell!Timers(q, timers), q)
<1>1. CASE q = <<>>
  <2> DEFINE K == {i \in DOMAIN timers : timers[i] # "task"}
             r == Shell!Elements(timers, K)
  <2>1. Shell!Timers(q, timers) = r
    BY <1>1 DEF Shell!Timers
  <2>2. r \in Seq(Shell!Sub \cup {"task", "preload"}) /\ \A i \in 1 .. Len(r) : r[i] # "task"
    <3>1. \A k \in K : timers[k] # "task"
      OBVIOUS
    <3> HIDE DEF K
    <3> QED BY <3>1, ElementsAre
  <2> QED BY <2>1, <2>2 DEF DueIn
<1>2. CASE q # <<>>
  BY <1>2 DEF Shell!Timers, DueIn
<1> QED BY <1>1, <1>2

(* Preloading asks for what is not built, at a low priority.               *)
LEMMA PreloadRecursion ==
  ASSUME NEW q
  PROVE  \E f : f = [n \in 0 .. Len(SubPages) |->
                       IF n = 0 THEN q
                       ELSE IF SubPages[n] \in loaded THEN f[n - 1]
                            ELSE Shell!enqueue(f[n - 1], SubPages[n], Shell!Low, "build", "settings")]
<1> DEFINE Value(f, n) ==
             IF n = 0 THEN q
             ELSE IF SubPages[n] \in loaded THEN f[n - 1]
                  ELSE Shell!enqueue(f[n - 1], SubPages[n], Shell!Low, "build", "settings")
           Upto(m) == \E f : f = [n \in 0 .. m |-> Value(f, n)]
           Bad == {m \in 0 .. Len(SubPages) : ~ Upto(m)}
<1>0. Len(SubPages) \in Nat
  BY SubPageAssumption
<1>1. Upto(0)
  <2>1. [n \in 0 .. 0 |-> q] = [n \in 0 .. 0 |-> Value([k \in 0 .. 0 |-> q], n)]
    OBVIOUS
  <2> QED BY <2>1
<1>2. ASSUME NEW m \in 1 .. Len(SubPages), Upto(m - 1) PROVE Upto(m)
  <2>1. PICK f : f = [n \in 0 .. m - 1 |-> Value(f, n)]
    BY <1>2
  <2> HIDE DEF Value
  <2>0. \A n \in 0 .. m - 1 : f[n] = Value(f, n)
    BY <2>1, Zenon
  <2> DEFINE g == [n \in 0 .. m |-> IF n = m THEN Value(f, m) ELSE f[n]]
  <2>2. \A n \in 0 .. m : g[n] = Value(g, n)
    <3> TAKE n \in 0 .. m
    <3>1. n # 0 => g[n - 1] = f[n - 1]
      BY <1>0
    <3>2. Value(g, n) = Value(f, n)
      BY <3>1 DEF Value
    <3>3. n # m => f[n] = Value(f, n)
      BY <1>0, <2>0
    <3> QED BY <3>2, <3>3
  <2>3. g = [n \in 0 .. m |-> Value(g, n)]
    BY <2>2
  <2> QED BY <2>3
<1> HIDE DEF Upto
<1>3. Bad = {}
  <2> SUFFICES ASSUME Bad # {} PROVE FALSE
    OBVIOUS
  <2>0. Bad \subseteq Nat
    OBVIOUS
  <2>1. PICK m \in Bad : \A n \in Bad : m <= n
    <3> HIDE DEF Bad
    <3> QED BY <2>0, T!Least
  <2>2. m # 0 /\ m \in 1 .. Len(SubPages)
    BY <1>0, <1>1
  <2>3. m - 1 \notin Bad /\ m - 1 \in 0 .. Len(SubPages)
    BY <1>0, <2>1, <2>2
  <2> QED BY <1>2, <2>2, <2>3
<1>4. Upto(Len(SubPages))
  BY <1>0, <1>3
<1> QED BY <1>4 DEF Upto

LEMMA PreloadedQueue ==
  ASSUME NEW q, Queue(q)
  PROVE  Queue(Shell!PreloadAll(q)) /\ Urgent(Shell!PreloadAll(q)) \subseteq Urgent(q)
<1> DEFINE Steps(f) ==
             f = [n \in 0 .. Len(SubPages) |->
                    IF n = 0 THEN q
                    ELSE IF SubPages[n] \in loaded THEN f[n - 1]
                         ELSE Shell!enqueue(f[n - 1], SubPages[n], Shell!Low, "build", "settings")]
           upTo == CHOOSE f : Steps(f)
<1>0. Len(SubPages) \in Nat /\ \A n \in 1 .. Len(SubPages) : SubPages[n] \in Shell!Sub
  BY SubPageAssumption
<1>1. Steps(upTo)
  <2>1. \E f : Steps(f)
    BY PreloadRecursion
  <2> HIDE DEF Steps
  <2> QED BY <2>1, Zenon
<1>2. Shell!PreloadAll(q) = upTo[Len(SubPages)]
  BY DEF Shell!PreloadAll
<1> HIDE DEF upTo
<1>3. /\ upTo[0] = q
      /\ \A n \in 1 .. Len(SubPages) :
           \/ upTo[n] = upTo[n - 1]
           \/ upTo[n] = Shell!enqueue(upTo[n - 1], SubPages[n], Shell!Low, "build", "settings")
  <2> DEFINE Value(n) ==
               IF n = 0 THEN q
               ELSE IF SubPages[n] \in loaded THEN upTo[n - 1]
                    ELSE Shell!enqueue(upTo[n - 1], SubPages[n], Shell!Low, "build", "settings")
  <2>1. upTo = [n \in 0 .. Len(SubPages) |-> Value(n)]
    BY <1>1
  <2> HIDE DEF Value
  <2>2. \A n \in 0 .. Len(SubPages) : upTo[n] = Value(n)
    BY <2>1, Zenon
  <2>3. /\ 0 \in 0 .. Len(SubPages) /\ 1 .. Len(SubPages) \subseteq 0 .. Len(SubPages)
        /\ \A n \in 1 .. Len(SubPages) : n # 0
    BY <1>0
  <2> QED BY <2>2, <2>3, Zenon DEF Value
<1> HIDE DEF Steps
<1> DEFINE Good(n) == Queue(upTo[n]) /\ Urgent(upTo[n]) \subseteq Urgent(q)
           Bad == {n \in 0 .. Len(SubPages) : ~ Good(n)}
<1>4. Good(0)
  BY <1>3
<1>5. ASSUME NEW n \in 1 .. Len(SubPages), Good(n - 1) PROVE Good(n)
  <2>1. CASE upTo[n] = upTo[n - 1]
    BY <1>5, <2>1
  <2>2. CASE upTo[n] = Shell!enqueue(upTo[n - 1], SubPages[n], Shell!Low, "build", "settings")
    BY <1>0, <1>5, <2>2, EnqueuedQueue
  <2> QED BY <1>3, <2>1, <2>2
<1> HIDE DEF Good
<1>6. Bad = {}
  <2> SUFFICES ASSUME Bad # {} PROVE FALSE
    OBVIOUS
  <2>0. Bad \subseteq Nat
    OBVIOUS
  <2>1. PICK m \in Bad : \A n \in Bad : m <= n
    <3> HIDE DEF Bad
    <3> QED BY <2>0, T!Least
  <2>2. m \in 1 .. Len(SubPages)
    BY <1>0, <1>4
  <2>3. m - 1 \notin Bad /\ m - 1 \in 0 .. Len(SubPages)
    BY <1>0, <2>1, <2>2
  <2> QED BY <1>5, <2>2, <2>3
<1>7. Good(Len(SubPages))
  BY <1>0, <1>6
<1> QED BY <1>2, <1>7 DEF Good

(* The wait cursor is for the sub-page asked for last, or one that is      *)
(* built; without "Loading..." none is asked for that is not built.        *)
Cursor ==
  /\ Queue(tasks) /\ DueIn(due, tasks)
  /\ loaded \subseteq Shell!Sub /\ target \in Shell!Sub \cup {None}
  /\ index \in Shell!Sub \cup {"categories", "loading"}
  /\ Urgent(tasks) \subseteq loaded \cup {target}
  /\ index # "loading" => target \in loaded \cup {None}

LEMMA CursorMeans == Cursor => Shell!CursorMeansWaiting
<1> SUFFICES ASSUME Cursor, NEW i \in DOMAIN tasks, tasks[i].priority >= 10
             PROVE  tasks[i].id \in loaded \cup {target}
  BY DEF Shell!CursorMeansWaiting
<1>1. i \in 1 .. Len(tasks) /\ tasks[i] \in Task
  BY DEF Cursor, Queue
<1>2. tasks[i].id \in Shell!Sub
  BY <1>1 DEF Task
<1> QED BY <1>1, <1>2 DEF Cursor, Urgent

LEMMA InitCursor == Shell!Init => Cursor
<1> SUFFICES ASSUME Shell!Init PROVE Cursor
  OBVIOUS
<1>1. tasks = <<>> /\ due = <<>> /\ index = "categories" /\ target = None /\ loaded = {}
  BY DEF Shell!Init
<1>2. Queue(tasks) /\ Urgent(tasks) = {} /\ DueIn(due, tasks)
  BY <1>1 DEF Queue, Urgent, DueIn
<1> QED BY <1>1, <1>2 DEF Cursor

(* A queue that is no more urgent.                                         *)
Calmer(r, q) == Queue(r) /\ Urgent(r) \subseteq Urgent(q)

(* What leaving the settings, or another page, does to the queue.          *)
LEMMA DeprioritizedCalms ==
  ASSUME Cursor, NEW q, Calmer(q, tasks)
  PROVE  /\ Calmer(Shell!Deprioritized(q), tasks)
         /\ Urgent(Shell!Deprioritized(q)) \subseteq loaded
         /\ q # <<>> => Shell!Deprioritized(q) # <<>>
<1>1. CASE index = "loading"
  BY <1>1, DemotedQueue DEF Shell!Deprioritized, Calmer, Cursor
<1>2. CASE index # "loading"
  <2>1. Urgent(q) \subseteq Shell!Sub /\ None \notin Shell!Sub
    BY SubPageAssumption DEF Urgent
  <2> QED BY <1>2, <2>1 DEF Shell!Deprioritized, Calmer, Cursor
<1> QED BY <1>1, <1>2

LEMMA LeftCalms ==
  ASSUME NEW q, Calmer(q, tasks)
  PROVE  Calmer(Shell!Left(q), tasks)
BY CancelledQueue DEF Shell!Left, Calmer

LEMMA HiddenCalms ==
  ASSUME Cursor, NEW now
  PROVE  Calmer(Shell!Hidden(tasks, now), tasks)
<1>1. Calmer(tasks, tasks)
  BY DEF Cursor, Calmer
<1> QED BY <1>1, DeprioritizedCalms DEF Shell!Hidden

LEMMA TasksKeepCursor ==
  ASSUME Cursor, NEW q, Calmer(q, tasks), Shell!Tasks(q), UNCHANGED Shell!settingsVars
  PROVE  Cursor'
<1>1. tasks' = q /\ due' = Shell!Timers(q, due)
  BY DEF Shell!Tasks
<1>2. due \in Seq(Shell!Sub \cup {"task", "preload"})
  BY DEF Cursor, DueIn
<1>3. Queue(tasks)' /\ DueIn(due, tasks)' /\ Urgent(tasks)' \subseteq Urgent(tasks)
  BY <1>1, <1>2, TimersAreDue DEF Calmer, Queue, DueIn, Urgent
<1> QED BY <1>3 DEF Cursor, Shell!settingsVars

LEMMA LoadKeepsCursor ==
  ASSUME Cursor, NEW page \in Shell!Sub, NEW q, Calmer(q, tasks), Shell!loadPageAsync(page, q)
  PROVE  Cursor'
<1> DEFINE r == Shell!OtherDeprioritized(q, page)
           timers == Shell!Timers(q, due)
<1>1. tasks' = r /\ target' = page /\ loaded' = loaded
  BY DEF Shell!loadPageAsync
<1>2. \/ page \in loaded /\ index' = page /\ due' = timers
      \/ page \notin loaded /\ index' = "loading" /\ due' = Append(timers, page)
  BY DEF Shell!loadPageAsync
<1>3. Queue(r) /\ Urgent(r) \subseteq loaded \cup {page} /\ (q # <<>> => r # <<>>)
  <2>1. CASE target # page
    BY <2>1, DeprioritizedCalms DEF Shell!OtherDeprioritized, Calmer
  <2>2. CASE target = page
    BY <2>2 DEF Shell!OtherDeprioritized, Calmer, Cursor
  <2> QED BY <2>1, <2>2
<1>4. DueIn(timers, q)
  BY TimersAreDue DEF Cursor, DueIn
<1> HIDE DEF r, timers
<1>5. DueIn(timers, r)
  BY <1>3, <1>4 DEF DueIn
<1>6. DueIn(Append(timers, page), r)
  <2>1. page # "task"
    BY SubPageAssumption
  <2> QED BY <1>5, <2>1 DEF DueIn
<1>7. DueIn(due', r)
  BY <1>2, <1>5, <1>6
<1>8. Queue(tasks)' /\ DueIn(due, tasks)' /\ Urgent(tasks)' \subseteq loaded' \cup {target'}
  BY <1>1, <1>3, <1>7 DEF Queue, DueIn, Urgent
<1>9. index' \in Shell!Sub \cup {"categories", "loading"} /\ (index' # "loading" => target' \in loaded')
  BY <1>1, <1>2
<1> QED BY <1>1, <1>8, <1>9 DEF Cursor

LEMMA BackKeepsCursor == Cursor /\ Shell!navigateBack => Cursor'
<1> SUFFICES ASSUME Cursor, Shell!navigateBack PROVE Cursor'
  OBVIOUS
<1> DEFINE q == Shell!Deprioritized(tasks)
<1>1. tasks' = q /\ due' = Shell!Timers(q, due) /\ target' = None /\ index' = "categories" /\ loaded' = loaded
  BY DEF Shell!navigateBack, Shell!Tasks
<1>2. Queue(q) /\ Urgent(q) \subseteq loaded
  BY DeprioritizedCalms DEF Calmer, Cursor
<1>3. DueIn(Shell!Timers(q, due), q)
  BY TimersAreDue DEF Cursor, DueIn
<1> HIDE DEF q
<1>4. Queue(tasks)' /\ DueIn(due, tasks)' /\ Urgent(tasks)' \subseteq loaded
  BY <1>1, <1>2, <1>3 DEF Queue, DueIn, Urgent
<1> QED BY <1>1, <1>4 DEF Cursor

(* A timer that fires, with a queue that hurries for no other sub-page.    *)
LEMMA FiredKeepsCursor ==
  ASSUME Cursor, due # <<>>, NEW q, Queue(q), tasks' = q, due' = Shell!Timers(q, Shell!Others),
         Urgent(q) \subseteq loaded' \cup {target'},
         loaded' \subseteq Shell!Sub, target' \in Shell!Sub \cup {None},
         index' \in Shell!Sub \cup {"categories", "loading"},
         index' # "loading" => target' \in loaded' \cup {None}
  PROVE  Cursor'
<1>1. Shell!Others \in Seq(Shell!Sub \cup {"task", "preload"})
  BY DEF Shell!Others, Cursor, DueIn
<1>2. DueIn(Shell!Timers(q, Shell!Others), q)
  BY <1>1, TimersAreDue
<1>3. Queue(tasks)' /\ DueIn(due, tasks)' /\ Urgent(tasks)' \subseteq loaded' \cup {target'}
  BY <1>2 DEF Queue, DueIn, Urgent
<1> QED BY <1>3 DEF Cursor

LEMMA StartKeepsCursor == ASSUME Cursor, NEW page \in Shell!Sub, Shell!StartLoading(page) PROVE Cursor'
<1> DEFINE q == IF target = page THEN Shell!enqueue(tasks, page, Shell!Immediate, "show", None) ELSE tasks
<1>1. /\ due # <<>> /\ tasks' = q /\ due' = Shell!Timers(q, Shell!Others)
      /\ index' = index /\ target' = target /\ loaded' = loaded
  BY DEF Shell!StartLoading, Shell!Fires, Shell!settingsVars
<1>2. Queue(q) /\ Urgent(q) \subseteq loaded \cup {target}
  BY EnqueuedQueue DEF Cursor
<1> HIDE DEF q
<1> QED BY <1>1, <1>2, FiredKeepsCursor DEF Cursor

LEMMA PreloadKeepsCursor == Cursor /\ Shell!preloadSubPages => Cursor'
<1> SUFFICES ASSUME Cursor, Shell!preloadSubPages PROVE Cursor'
  OBVIOUS
<1> DEFINE q == Shell!PreloadAll(tasks)
<1>1. /\ due # <<>> /\ tasks' = q /\ due' = Shell!Timers(q, Shell!Others)
      /\ index' = index /\ target' = target /\ loaded' = loaded
  BY DEF Shell!preloadSubPages, Shell!Fires, Shell!settingsVars
<1>2. Queue(q) /\ Urgent(q) \subseteq loaded \cup {target}
  BY PreloadedQueue DEF Cursor
<1> HIDE DEF q
<1> QED BY <1>1, <1>2, FiredKeepsCursor DEF Cursor

LEMMA ProcessKeepsCursor == Cursor /\ Shell!processNextTask => Cursor'
<1> SUFFICES ASSUME Cursor, Shell!processNextTask PROVE Cursor'
  OBVIOUS
<1> DEFINE n == Shell!MostUrgent(tasks)
           t == tasks[n]
           q == Shell!RemoveAt(tasks, n)
<1>1. /\ due # <<>> /\ Head(due) = "task"
      /\ tasks' = q /\ due' = Shell!Timers(q, Shell!Others)
      /\ loaded' = IF Shell!Orphaned(t) THEN loaded ELSE loaded \cup {t.id}
      /\ IF ~ Shell!Orphaned(t) /\ t.work = "show" /\ target = t.id
         THEN index' = t.id /\ target' = None
         ELSE index' = index /\ target' = target
  BY DEF Shell!processNextTask, Shell!Fires
<1>2. tasks # <<>>
  BY <1>1 DEF Cursor, DueIn
<1>3. n \in 1 .. Len(tasks)
  BY <1>2, MostUrgentIs DEF Cursor
<1>4. Queue(q) /\ Urgent(q) \subseteq Urgent(tasks)
  BY <1>3, RemovedQueue DEF Cursor
<1>5. t.id \in Shell!Sub
  <2> HIDE DEF n
  <2>1. tasks[n] \in Task
    BY <1>3 DEF Cursor, Queue
  <2> QED BY <2>1 DEF Task
<1> HIDE DEF q, t, n
<1>6. /\ loaded \subseteq loaded' /\ loaded' \subseteq Shell!Sub
      /\ target' \in Shell!Sub \cup {None} /\ target \in loaded' \cup {target'}
      /\ index' \in Shell!Sub \cup {"categories", "loading"}
      /\ index' # "loading" => target' \in loaded' \cup {None}
  BY <1>1, <1>5 DEF Cursor
<1>7. Urgent(q) \subseteq loaded' \cup {target'}
  BY <1>4, <1>6 DEF Cursor
<1> QED BY <1>1, <1>4, <1>6, <1>7, FiredKeepsCursor

LEMMA StepKeepsCursor == Cursor /\ [Shell!Next]_(Shell!shellVars) => Cursor'
<1> SUFFICES ASSUME Cursor, [Shell!Next]_(Shell!shellVars) PROVE Cursor'
  OBVIOUS
<1>0. Calmer(tasks, tasks)
  BY DEF Cursor, Calmer
<1>1. ASSUME NEW tab, Shell!onTabChanged(tab) PROVE Cursor'
  BY <1>1, HiddenCalms, LeftCalms, TasksKeepCursor DEF Shell!onTabChanged
<1>2. ASSUME UNCHANGED <<tasks, due, index, target, loaded>> PROVE Cursor'
  BY <1>2 DEF Cursor, Queue, DueIn, Urgent
<1>3. ASSUME Shell!Tasks(Shell!Left(tasks)), UNCHANGED Shell!settingsVars PROVE Cursor'
  BY <1>0, <1>3, LeftCalms, TasksKeepCursor
<1>4. ASSUME Shell!Tasks(Shell!Hidden(tasks, FALSE)), UNCHANGED Shell!settingsVars PROVE Cursor'
  BY <1>4, HiddenCalms, TasksKeepCursor
<1>5. ASSUME NEW page \in Shell!Sub, Shell!LeadsTo(page) PROVE Cursor'
  BY <1>0, <1>5, LeftCalms, LoadKeepsCursor DEF Shell!LeadsTo
<1>6. CASE \E tab \in Shell!NavTab : Shell!ClickTab(tab)
  BY <1>1, <1>2, <1>6 DEF Shell!ClickTab, Shell!queueVars, Shell!settingsVars
<1>7. CASE Shell!onGearClicked
  BY <1>1, <1>3, <1>7 DEF Shell!onGearClicked, Shell!settingsVars
<1>8. CASE Shell!onSearchClicked \/ Shell!HideWindow
  BY <1>4, <1>8 DEF Shell!onSearchClicked, Shell!HideWindow, Shell!settingsVars
<1>9. CASE Shell!OpenUnder \/ Shell!TraySettings \/ Shell!onServiceReady
  BY <1>3, <1>9 DEF Shell!OpenUnder, Shell!OpenPage, Shell!TraySettings, Shell!onServiceReady,
                    Shell!settingsVars
<1>10. CASE Shell!addClicked \/ Shell!loginRequested
  BY <1>5, <1>10, SubPageAssumption DEF Shell!addClicked, Shell!loginRequested
<1>11. CASE Shell!showWindow
  BY <1>2, <1>11 DEF Shell!showWindow, Shell!queueVars, Shell!settingsVars
<1>12. CASE \E page \in Shell!Sub : Shell!ClickCategory(page)
  BY <1>0, <1>12, LoadKeepsCursor DEF Shell!ClickCategory
<1>13. CASE Shell!PreloadDue
  <2>1. due' = Append(due, "preload") /\ UNCHANGED <<tasks, index, target, loaded>>
    BY <1>13 DEF Shell!PreloadDue, Shell!settingsVars
  <2>2. DueIn(due, tasks)'
    BY <2>1 DEF Cursor, DueIn
  <2> QED BY <2>1, <2>2 DEF Cursor, Queue, Urgent
<1>14. CASE Shell!TimerFires
  BY <1>14, StartKeepsCursor, PreloadKeepsCursor, ProcessKeepsCursor DEF Shell!TimerFires
<1>15. CASE UNCHANGED Shell!shellVars
  BY <1>2, <1>15 DEF Shell!shellVars, Shell!queueVars, Shell!settingsVars
<1> QED
  BY <1>6, <1>7, <1>8, <1>9, <1>10, <1>11, <1>12, <1>13, <1>14, <1>15, BackKeepsCursor DEF Shell!Next

(* What Shell!TypeOK says besides.                                         *)
ShellTypes ==
  /\ opened \in BOOLEAN /\ requestor \in Shell!Tab \cup {None} /\ preloads \in Nat

LEMMA InitShellTypes == Shell!Init => ShellTypes
<1> SUFFICES ASSUME Shell!Init PROVE ShellTypes
  OBVIOUS
<1>1. opened \in BOOLEAN
  BY Zenon DEF Shell!Init
<1>2. requestor \in Shell!Tab \cup {None}
  <2>1. current = Shell!Parent(stack) /\ stack \in Shell!Tab
    BY DEF Shell!Init
  <2>2. current \in Shell!Tab
    BY <2>1 DEF Shell!Parent, Shell!Tab, Shell!NavTab
  <2> QED BY <2>2 DEF Shell!Init
<1> QED BY <1>1, <1>2 DEF ShellTypes, Shell!Init

LEMMA StepKeepsShellTypes ==
  Fields /\ ShellTypes /\ [Shell!Next]_(Shell!shellVars) => ShellTypes'
<1> SUFFICES ASSUME Fields, ShellTypes, [Shell!Next]_(Shell!shellVars) PROVE ShellTypes'
  OBVIOUS
<1>1. Shell!NavTab \subseteq Shell!Tab
  BY DEF Shell!Tab
<1>2. {"settings", "log", "current", "chats", "dms"} \subseteq Shell!Tab
  BY DEF Shell!Tab, Shell!NavTab
<1>3. current \in Shell!NavTab /\ stack \in Shell!Tab
  BY DEF Fields
<1>4. \/ \E tab \in Shell!Tab : Shell!schedulePreloads(tab)
      \/ requestor' = requestor /\ preloads' = preloads
      \/ requestor' = requestor /\ preloads > 0 /\ preloads' = preloads - 1
  BY <1>1, <1>2, <1>3, Zenon
  DEF Shell!Next, Shell!ClickTab, Shell!onTabChanged, Shell!Shows, Shell!onGearClicked, Shell!showSettings,
      Shell!onSearchClicked, Shell!OpenUnder, Shell!OpenPage, Shell!addClicked, Shell!loginRequested,
      Shell!LeadsTo, Shell!TraySettings, Shell!HideWindow, Shell!showWindow, Shell!onServiceReady,
      Shell!ClickCategory, Shell!navigateBack, Shell!PreloadDue, Shell!TimerFires, Shell!StartLoading,
      Shell!preloadSubPages, Shell!processNextTask, Shell!shellOnly, Shell!shellVars
<1>5. opened' = opened \/ opened' = TRUE \/ opened' = FALSE
  BY Zenon
  DEF Shell!Next, Shell!ClickTab, Shell!onTabChanged, Shell!onGearClicked, Shell!showSettings,
      Shell!onSearchClicked, Shell!OpenUnder, Shell!OpenPage, Shell!addClicked, Shell!loginRequested,
      Shell!LeadsTo, Shell!TraySettings, Shell!HideWindow, Shell!showWindow, Shell!onServiceReady,
      Shell!ClickCategory, Shell!navigateBack, Shell!PreloadDue, Shell!TimerFires, Shell!StartLoading,
      Shell!preloadSubPages, Shell!processNextTask, Shell!shellOnly, Shell!shellVars
<1>6. opened' \in BOOLEAN
  BY <1>5, Zenon DEF ShellTypes
<1>7. ASSUME NEW tab \in Shell!Tab, Shell!schedulePreloads(tab)
      PROVE  requestor' \in Shell!Tab \cup {None} /\ preloads' \in Nat
  BY <1>7 DEF Shell!schedulePreloads, Shell!Owner, ShellTypes
<1>8. requestor' \in Shell!Tab \cup {None} /\ preloads' \in Nat
  BY <1>4, <1>7 DEF ShellTypes
<1> QED BY <1>6, <1>8 DEF ShellTypes

LEMMA ShellTyped == Fields /\ Cursor /\ ShellTypes => Shell!TypeOK
<1> SUFFICES ASSUME Fields, Cursor, ShellTypes PROVE Shell!TypeOK
  OBVIOUS
<1>1. {gear, search, opened} \subseteq BOOLEAN
  <2>1. gear \in BOOLEAN /\ search \in BOOLEAN /\ opened \in BOOLEAN
    BY Zenon DEF Fields, ShellTypes
  <2> QED BY <2>1, Zenon
<1>2. \A i \in DOMAIN tasks :
       /\ tasks[i].id \in Shell!Sub /\ tasks[i].work \in {"build", "show"}
       /\ \A j \in DOMAIN tasks : tasks[j].id = tasks[i].id => j = i
  <2>1. \A i \in DOMAIN tasks : tasks[i] \in Task
    BY DEF Cursor, Queue
  <2>2. \A i, j \in DOMAIN tasks : tasks[j].id = tasks[i].id => j = i
    BY DEF Cursor, Queue
  <2> QED BY <2>1, <2>2 DEF Task
<1>3. due \in Seq(Shell!Sub \cup {"task", "preload"})
  BY DEF Cursor, DueIn
<1> QED BY <1>1, <1>2, <1>3 DEF Fields, Cursor, ShellTypes, Shell!TypeOK

-----------------------------------------------------------------------------
(* The parts together: a step of one leaves the others as they are.        *)
PagesInv ==
  /\ part = "chat"    => Chat!TypeOK
  /\ part = "dm"      => Dm!TypeOK
  /\ part = "log"     => Log!TypeOK
  /\ part = "stash"   => Stash!TypeOK
  /\ part = "session" => ViewInv

AppInv == PagesInv /\ T!TaskInv /\ T!Rest /\ Fields /\ Cursor /\ ShellTypes /\ ButtonInv

LEMMA InitApp == Init => AppInv
<1> SUFFICES ASSUME Init PROVE AppInv
  OBVIOUS
<1>1. PagesInv
  BY ChatInit, DmInit, LogInit, StashInit, ViewInit DEF Init, PagesInv
<1>2. Tasks!Init /\ Shell!Init /\ Logins!Init
  BY DEF Init, Idle
<1>3. T!Sized
  BY AppAssumption DEF T!Sized
<1> QED
  BY <1>1, <1>2, <1>3, SameTasks, T!InitTasks, T!InitRest, InitFields, InitCursor, InitShellTypes,
     InitButtons DEF AppInv

(* A step is one of the part in play, and each part steps or stutters.     *)
LEMMA StepOfOnePart ==
  ASSUME [Next]_vars
  PROVE  /\ part' = part
         /\ [Tasks!Next]_(Tasks!vars)
         /\ [Shell!Next]_(Shell!shellVars)
         /\ [Logins!Next]_(Logins!accountVars)
         /\ part = "chat"    => [Chat!Next]_(Chat!vars)
         /\ part = "dm"      => [Dm!Next]_(Dm!vars)
         /\ part = "log"     => [Log!Next]_(Log!vars)
         /\ part = "stash"   => [Stash!Next]_(Stash!vars)
         /\ part = "session" => [View!Next]_(View!vars)
<1> DEFINE NoTaskStep == UNCHANGED Tasks!vars
           NoShellStep == UNCHANGED Shell!shellVars
           NoLoginStep == UNCHANGED Logins!accountVars
<1>1. UNCHANGED taskVars => NoTaskStep
  BY DEF taskVars, Tasks!vars, Tasks!taskVars, Tasks!panelVars, Tasks!mainVars
<1>2. UNCHANGED shellVars => NoShellStep
  BY DEF shellVars, Shell!shellVars, Shell!navVars, Shell!queueVars, Shell!settingsVars
<1>3. UNCHANGED loginVars => NoLoginStep
  BY DEF loginVars, Logins!accountVars, Logins!buttonVars, Logins!linkVars, Logins!serviceVars,
         Logins!boundVars
<1> HIDE DEF NoTaskStep, NoShellStep, NoLoginStep
<1>4. part' = part
  BY DEF Next, OnChat, OnDm, OnLog, OnStash, OnSession, OnPage, NoPage, OnTasks, OnShell, OnLogins,
         NoTask, vars
<1>5. Tasks!Next \/ NoTaskStep
  BY <1>1 DEF Next, OnChat, OnDm, OnLog, OnStash, OnSession, OnPage, NoPage, OnTasks, OnShell,
              OnLogins, vars
<1>6. Shell!Next \/ NoShellStep
  BY <1>2 DEF Next, OnChat, OnDm, OnLog, OnStash, OnSession, OnPage, NoPage, OnTasks, OnShell,
              OnLogins, vars
<1>7. Logins!Next \/ NoLoginStep
  BY <1>3 DEF Next, OnChat, OnDm, OnLog, OnStash, OnSession, OnPage, NoPage, OnTasks, OnShell,
              OnLogins, vars
<1>8. CASE UNCHANGED vars
  <2>1. UNCHANGED <<Chat!vars, Dm!vars, Log!vars, Stash!vars, View!vars>>
    BY <1>8 DEF vars, pageVars, linkVars, messageVars, stashVars, sessionVars,
         Chat!vars, Chat!pageVars, Chat!linkVars, Chat!ownVars,
         Dm!vars, Dm!pageVars, Dm!linkVars, Dm!ownVars,
         Log!vars, Log!pageVars, Log!linkVars, Stash!vars, Stash!pageVars, Stash!linkVars, Stash!ownVars,
         View!vars, View!pageVars, View!linkVars, View!ownVars
  <2> QED BY <1>4, <1>5, <1>6, <1>7, <2>1 DEF NoTaskStep, NoShellStep, NoLoginStep
<1>9. CASE Next
  BY <1>4, <1>5, <1>6, <1>7, <1>9
  DEF NoTaskStep, NoShellStep, NoLoginStep, Next, OnChat, OnDm, OnLog, OnStash, OnSession, OnPage,
      OnTasks, OnShell, OnLogins
<1> QED BY <1>8, <1>9

LEMMA NextApp == AppInv /\ [Next]_vars => AppInv'
<1> SUFFICES ASSUME AppInv, [Next]_vars PROVE AppInv'
  OBVIOUS
<1>1. PagesInv'
  BY StepOfOnePart, ChatTypes, DmTypes, LogTypes, StashTypes, ViewTypes DEF AppInv, PagesInv
<1>2. T!TaskInv'
  BY StepOfOnePart, SameTasks, T!NextTasks DEF AppInv
<1>6. T!Rest'
  BY StepOfOnePart, SameTasks, T!NextRest DEF AppInv
<1>7. ShellTypes'
  BY StepOfOnePart, StepKeepsShellTypes DEF AppInv
<1>3. Fields'
  BY StepOfOnePart, StepKeepsFields DEF AppInv
<1>4. Cursor'
  BY StepOfOnePart, StepKeepsCursor DEF AppInv
<1>5. ButtonInv'
  BY StepOfOnePart, NextButtons DEF AppInv
<1> QED BY <1>1, <1>2, <1>3, <1>4, <1>5, <1>6, <1>7 DEF AppInv

LEMMA Invariant == Spec => []AppInv
BY InitApp, NextApp, PTL DEF Spec

(* Types are kept in every part: among the rest, only a task that has      *)
(* begun was told to stop or has sent its last signal, and the queue of    *)
(* the settings holds a sub-page at most once (TaskManager::cancel,        *)
(* DeferredTaskQueue::enqueue).                                            *)
THEOREM TypesKept == Spec => []TypeOK
<1>1. AppInv => TypeOK
  <2> SUFFICES ASSUME AppInv PROVE TypeOK
    OBVIOUS
  <2>1. Tasks!TypeOK
    BY SameTasks, T!TasksTyped DEF AppInv
  <2>2. Shell!TypeOK
    BY ShellTyped DEF AppInv
  <2>3. Logins!TypeOK
    BY DEF AppInv, ButtonInv, ButtonTypes
  <2> QED BY <2>1, <2>2, <2>3 DEF AppInv, PagesInv, ViewInv, TypeOK
<1> QED BY <1>1, Invariant, PTL

(* However tasks are submitted, catch up, end, fail or are cancelled, no   *)
(* kind runs more of them than it has slots, and none waits while a slot   *)
(* of its kind is free (TaskManager::submit, tryDequeue, cleanupTask).     *)
THEOREM SlotsInUse == Spec => []SlotsFilled
<1>1. AppInv => SlotsFilled
  BY SameTasks DEF AppInv, T!TaskInv, SlotsFilled
<1> QED BY <1>1, Invariant, PTL

(* The panel's rows are those of the tasks that wait or run and are past   *)
(* the show delay, and the status bar calls tasks active exactly while     *)
(* there are any (TaskPanel::onTaskUpdated, MainWindow::onTaskUpdated).    *)
THEOREM PanelTellsTheTasks == Spec => []RowsMatchTasks
<1>1. AppInv => RowsMatchTasks
  BY SameTasks DEF AppInv, T!TaskInv, RowsMatchTasks
<1> QED BY <1>1, Invariant, PTL

(* MainWindow's pointer to the progress tracker is never left dangling, and *)
(* a tracker it has let go of was told to finish                           *)
(* (MainWindow::startProgressTracker, stopProgressTracker).                *)
THEOREM TrackerAlive == Spec => []TrackerHeld
<1>1. AppInv => TrackerHeld
  BY SameTasks DEF AppInv, T!TaskInv, TrackerHeld
<1> QED BY <1>1, Invariant, PTL

(* The navigation bar highlights the page of the stack, or the one it      *)
(* belongs to, and nothing else, after any number of clicks on the bar,    *)
(* the tray, the notice and the pages' links (MainWindow, NavBar).         *)
THEOREM BarTellsThePage == Spec => []NavAgrees
<1>1. AppInv => NavAgrees
  BY FieldsHighlight DEF AppInv, NavAgrees
<1> QED BY <1>1, Invariant, PTL

(* However sub-pages are asked for, preloaded, left and asked for again, a *)
(* task the wait cursor is shown for builds the one asked for last, or one *)
(* that is built by now (SettingsPage::loadPageAsync, navigateBack,        *)
(* hideEvent; DeferredTaskQueue::updateWaitCursor).                        *)
THEOREM CursorIsForTheTarget == Spec => []CursorMeansWaiting
<1>1. AppInv => CursorMeansWaiting
  BY CursorMeans DEF AppInv, CursorMeansWaiting
<1> QED BY <1>1, Invariant, PTL

(* At rest the buttons offer to log out of exactly what the service has,   *)
(* in whatever order windows, answers and clicks came, unless a request    *)
(* has failed or a logout has overtaken the answer to a login              *)
(* (SettingsPage::buildAccountsPage).                                      *)
THEOREM ButtonsTellTheTruth == Spec => []ButtonsAgree
<1>1. AppInv => ButtonsAgree
  BY AtRest DEF AppInv, ButtonsAgree
<1> QED BY <1>1, Invariant, PTL

-----------------------------------------------------------------------------
(* Steps of the pages are steps of PageLoad; the other parts' leave what a  *)
(* page loads as it is.                                                    *)
LEMMA InitLoads == Init => Implements!Init
BY DEF Init, Idle, PageIdle, Implements!Init, Chat!Init, Chat!InitPage, Dm!Init, Dm!InitPage, Log!Init,
       Log!InitPage,
       Stash!Init, Stash!InitPage, View!Init, View!InitPage, PageParts

LEMMA StepLoads == AppInv /\ AppInv' /\ [Next]_vars => [Implements!Next]_(Implements!loadVars)
<1> SUFFICES ASSUME AppInv, AppInv', [Next]_vars PROVE [Implements!Next]_(Implements!loadVars)
  OBVIOUS
<1>0. PagesInv /\ PagesInv' /\ part' = part
  BY StepOfOnePart DEF AppInv
<1>1. CASE OnChat(Chat!Next)
  BY <1>0, <1>1, ChatLoads DEF PagesInv, OnChat, OnPage
<1>2. CASE OnDm(Dm!Next)
  BY <1>0, <1>2, DmLoads DEF PagesInv, OnDm, OnPage
<1>3. CASE OnLog(Log!Next)
  BY <1>0, <1>3, LogLoads DEF PagesInv, OnLog, OnPage
<1>4. CASE OnStash(Stash!Next)
  BY <1>0, <1>4, StashLoads DEF PagesInv, OnStash, OnPage
<1>5. CASE OnSession(View!Next)
  BY <1>0, <1>5, ViewLoads DEF PagesInv, ViewInv, OnSession, OnPage
<1>6. CASE OnTasks(Tasks!Next) \/ OnShell(Shell!Next) \/ OnLogins(Logins!Next) \/ UNCHANGED vars
  <2>1. UNCHANGED <<part, pageVars, messageVars, ignored>>
    BY <1>6 DEF OnTasks, OnShell, OnLogins, NoTask, vars
  <2> QED BY <2>1 DEF pageVars, linkVars, messageVars, Implements!loadVars
<1> QED BY <1>1, <1>2, <1>3, <1>4, <1>5, <1>6 DEF Next

(* The five pages implement PageLoad: one request at a time, and nothing   *)
(* that is wanted is forgotten while it is out (rebuild, setPoeInfoClient  *)
(* and the handlers of answers and errors of each page).                   *)
THEOREM PagesImplementPageLoad == Spec => LoadSpec
BY Invariant, InitLoads, StepLoads, PTL DEF Spec, LoadSpec, Implements!Spec

(* What PageLoad promises: nothing of the pages is used here.              *)
LEMMA LoadShowsWhatIsWanted == LoadSpec => []Implements!ShowsWhatIsWanted
<1> DEFINE Rests == Implements!ShowsWhatIsWanted /\ Implements!AsksWhatIsWanted
<1>1. Implements!Init => Rests
  BY DEF Implements!Init, Implements!ShowsWhatIsWanted, Implements!AsksWhatIsWanted
<1>2. Rests /\ [Implements!Next]_(Implements!loadVars) => Rests'
  <2> SUFFICES ASSUME Rests, [Implements!Next]_(Implements!loadVars) PROVE Rests'
    OBVIOUS
  <2> USE DEF Implements!ShowsWhatIsWanted, Implements!AsksWhatIsWanted
  <2>1. CASE Implements!Want
    BY <2>1 DEF Implements!Want
  <2>2. CASE Implements!Ask
    BY <2>2 DEF Implements!Ask
  <2>3. CASE Implements!Answer
    BY <2>3 DEF Implements!Answer
  <2>4. CASE Implements!Fail
    BY <2>4 DEF Implements!Fail
  <2>5. CASE UNCHANGED Implements!loadVars
    BY <2>5 DEF Implements!loadVars
  <2> QED
    BY <2>1, <2>2, <2>3, <2>4, <2>5 DEF Implements!Next
<1>3. Rests => Implements!ShowsWhatIsWanted
  OBVIOUS
<1> QED
  BY <1>1, <1>2, <1>3, PTL DEF LoadSpec, Implements!Spec

(* With no request out and none owed, a page shows the filter, the window,  *)
(* the player or the session chosen last with all that was heard of it, or *)
(* an error, whatever the order of clicks, events, answers, errors and     *)
(* lost links (ChatPage, DmPage, LogPage, StashPage, SessionViewPage).     *)
THEOREM PagesShowWhatIsWanted == Spec => []Implements!ShowsWhatIsWanted
BY PagesImplementPageLoad, LoadShowsWhatIsWanted, PTL

(* Of a session that the list showed as ended: the header over the cards   *)
(* names the session the page is to load, and when no request is out or    *)
(* owed the cards are the answer for that session, with all that was heard *)
(* of it, whatever was picked, preloaded and lost on the way               *)
(* (SessionViewPage::viewSession, preloadSession, rebuildDbZones).         *)
THEOREM HeaderRight == Spec => []HeaderNamesSession
<1>1. AppInv /\ Implements!ShowsWhatIsWanted => HeaderNamesSession
  <2> SUFFICES ASSUME AppInv, Implements!ShowsWhatIsWanted, part = "session",
                      front, query.target # Live
               PROVE  /\ label = query.target
                      /\ handlers > 0 /\ asked = None /\ ~dirty => shown = query
    BY DEF HeaderNamesSession, View!HeaderNamesSession
  <2>1. ViewInv
    BY DEF AppInv, PagesInv
  <2>2. label = query.target /\ shown # Error /\ handlers \in 0 .. 2
    BY <2>1 DEF ViewInv, NamesTarget, View!TypeOK, View!TypePage
  <2> QED BY <2>2 DEF Implements!ShowsWhatIsWanted
<1> QED BY <1>1, Invariant, PagesShowWhatIsWanted, PTL
=============================================================================
