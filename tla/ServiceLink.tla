----------------------------- MODULE ServiceLink -----------------------------
(***************************************************************************)
(* The WebSocket between l2p-poe and poe-info-service: PoeInfoClient on    *)
(* the app's main thread (services/PoeInfoClient.cpp), the users of it     *)
(* that keep state across an answer (MainWindow's ingest status and orphan *)
(* sweep, SettingsPage's edits), and on the other side handleWS with its   *)
(* reading and its writing goroutine, the hub's topics and the goroutine   *)
(* that publishes the ingest status (internal/server, internal/hub).       *)
(*                                                                         *)
(* A step is one event of the client's event loop, with every callback it  *)
(* runs, or one step of a goroutine.  A publication is one step: whatever  *)
(* the hub does between its snapshot of the subscribers and the send could *)
(* as well be done before the one or after the other, since the client     *)
(* never unsubscribes.  A connection that is lost takes its goroutines,    *)
(* its buffer and its subscriptions along; nothing of it reaches the next. *)
(***************************************************************************)
EXTENDS Naturals, FiniteSets, Sequences

CONSTANTS
  BufSize,      (* capacity of a client's send channel (clientBufSize)     *)
  NetSize,      (* messages the network takes before a write blocks        *)
  MaxEdits,     (* bound: settings the user edits, connected or not        *)
  MaxPolls,     (* bound: orphan sweeps the poll timer asks for            *)
  MaxEvents,    (* bound: changes of the ingest phase, live lines published *)
  MaxLosses     (* bound: connections lost and services stopped            *)

ASSUME LinkAssumption ==
  /\ BufSize \in Nat \ {0} /\ NetSize \in Nat \ {0}
  /\ \A m \in {MaxEdits, MaxPolls, MaxEvents, MaxLosses} : m \in Nat

Topic == {"status", "clientlog"}
Phase == {"waiting", "ingesting", "tailing"}
Unknown == "unknown"
Kind == {"status", "orphans", "set", "list"}

Id == Nat \ {0}
NoId == 0

VARIABLES
  sock,        (* the socket's state as the client knows it                *)
  reconnect,   (* m_reconnectTimer is running                              *)
  pending,     (* m_pending: the requests whose callback is kept           *)
  nextId,      (* m_nextId                                                 *)
  called,      (* requests whose callback has been called                  *)
  again,       (* requests whose callback has been called more than once   *)
  sent,        (* requests that were written to the present connection     *)
  shown,       (* the phase MainWindow shows                               *)
  shownOn,     (* the connection it was learned on                         *)
  sweeping,    (* m_orphanCloseInFlight                                    *)
  alive,       (* the service runs                                         *)
  live,        (* the present connection exists at the service             *)
  conn,        (* number of the present connection                         *)
  up,          (* messages on their way to the service                     *)
  reply,       (* the response the connection's goroutine is about to send *)
  subs,        (* topics the connection is subscribed to                   *)
  buffer,      (* the client's send channel at the service                 *)
  down,        (* messages on their way to the app                         *)
  dropped,     (* history: a message found the channel full on it          *)
  phase,       (* what ingestStatus computes                               *)
  lastPhase,   (* watchIngestStatus: the phase published last              *)
  edits, polls, events, losses

clientVars == <<sock, reconnect, pending, nextId, called, again, sent, shown, shownOn, sweeping>>
connVars == <<live, conn, up, reply, subs, buffer, down, dropped>>
serviceVars == <<alive, phase, lastPhase>>
bounds == <<edits, polls, events, losses>>
vars == <<clientVars, connVars, serviceVars, bounds>>

Subscribe(t) == [type |-> "subscribe", topic |-> t]
Request(p) == [type |-> "request", id |-> p.id, kind |-> p.kind]
Response(i, b) == [type |-> "response", id |-> i, body |-> b]
Event(t, b) == [type |-> "event", topic |-> t, body |-> b]
NoReply == Response(NoId, "none")

Body == Phase \cup {"ok", "error"}
ToService == [type : {"subscribe"}, topic : Topic] \cup [type : {"request"}, id : Id, kind : Kind]
Responses == [type : {"response"}, id : Id \cup {NoId}, body : Body]
ToClient == Responses \cup [type : {"event"}, topic : Topic, body : Phase \cup {"line"}]

Init ==
  /\ sock = "opening" /\ reconnect = FALSE
  /\ pending = {} /\ nextId = 1 /\ called = {} /\ again = {} /\ sent = {}
  /\ shown = Unknown /\ shownOn = 0 /\ sweeping = FALSE
  /\ alive = TRUE /\ live = FALSE /\ conn = 0
  /\ up = <<>> /\ reply = NoReply /\ subs = {} /\ buffer = <<>> /\ down = <<>>
  /\ dropped = FALSE
  /\ phase \in Phase /\ lastPhase = Unknown
  /\ edits = 0 /\ polls = 0 /\ events = 0 /\ losses = 0

-----------------------------------------------------------------------------
(* The client library.                                                     *)

(* sendTextMessage of a socket that is not open drops the message, and one *)
(* that is open but already cut off sends it nowhere.                      *)
Sends(msgs) == up' = IF sock = "open" /\ live THEN up \o msgs ELSE up

Asks(kind) ==
  LET p == [id |-> nextId, kind |-> kind] IN
  /\ pending' = pending \cup {p}
  /\ nextId' = nextId + 1
  /\ sent' = IF sock = "open" THEN sent \cup {p.id} ELSE sent
  /\ Sends(<<Request(p)>>)

OfKind(ps, kind) == {p \in ps : p.kind = kind}
Ids(ps) == {p.id : p \in ps}

Calls(ps) == called' = called \cup Ids(ps) /\ again' = again \cup (called \cap Ids(ps))

(* Callbacks that are told of an error: the sweep may be asked for again,  *)
(* a failed edit asks for the settings as they are.                        *)
SweepsOnError(ps) == sweeping                                   \* mutant
SweepsAfter(ps) == sweeping /\ OfKind(ps, "orphans") = {}
ListsAfter(ps) ==
  {[id |-> i, kind |-> "list"] : i \in nextId .. nextId + Cardinality(OfKind(ps, "set")) - 1}

TryConnect ==
  /\ reconnect
  /\ reconnect' = FALSE /\ sock' = "opening"
  /\ UNCHANGED <<pending, nextId, called, again, sent, shown, shownOn, sweeping>>
  /\ UNCHANGED <<connVars, serviceVars, bounds>>

(* What a new connection is told first: the subscriptions and, from        *)
(* onServiceReady, the request for a first status.                         *)
NoGreeting(p) == <<Request(p)>>                                 \* mutant
Greeting(p) == <<Subscribe("clientlog"), Subscribe("status"), Request(p)>>

OnConnected ==
  LET p == [id |-> nextId, kind |-> "status"] IN
  /\ sock = "opening" /\ alive
  /\ sock' = "open" /\ live' = TRUE /\ conn' = conn + 1
  /\ up' = Greeting(p) /\ sent' = {p.id}
  /\ pending' = pending \cup {p} /\ nextId' = nextId + 1
  /\ reply' = NoReply /\ subs' = {} /\ buffer' = <<>> /\ down' = <<>>
  /\ dropped' = FALSE
  /\ UNCHANGED <<reconnect, called, again, shown, shownOn, sweeping, serviceVars, bounds>>

Undrained(ps) == ps                                             \* mutant
Kept(ps) == {}

AfterUse == sock = "open"                                       \* mutant
Retries == TRUE

(* Every callback kept is told that the connection is lost.                *)
OnDisconnected ==
  /\ sock' = "closed" /\ reconnect' = Retries
  /\ pending' = Kept(pending) \cup ListsAfter(pending)
  /\ nextId' = nextId + Cardinality(OfKind(pending, "set"))
  /\ Calls(pending)
  /\ sweeping' = SweepsAfter(pending)
  /\ sent' = {}
  /\ UNCHANGED <<shown, shownOn>>

ConnectFails ==
  /\ sock = "opening" /\ ~alive
  /\ OnDisconnected
  /\ UNCHANGED <<connVars, serviceVars, bounds>>

NoticeLoss ==
  /\ sock = "open" /\ ~live
  /\ OnDisconnected
  /\ down' = <<>>
  /\ UNCHANGED <<live, conn, up, reply, subs, buffer, dropped, serviceVars, bounds>>

(* A response finds its callback by id; those nobody waits for, like the   *)
(* answers to subscriptions, are ignored.                                  *)
OnResponse(m) ==
  LET ps == {p \in pending : p.id = m.id}
      failed == IF m.body = "error" THEN ps ELSE {}
  IN
  /\ Calls(ps)
  /\ pending' = (pending \ ps) \cup ListsAfter(failed)
  /\ nextId' = nextId + Cardinality(OfKind(failed, "set"))
  /\ sent' = sent \cup Ids(ListsAfter(failed))
  /\ sweeping' = (sweeping /\ OfKind(ps, "orphans") = {})
  /\ Sends(IF OfKind(failed, "set") = {} THEN <<>>
           ELSE <<Request([id |-> nextId, kind |-> "list"])>>)
  /\ IF OfKind(ps, "status") # {} THEN shown' = m.body /\ shownOn' = conn
                                  ELSE UNCHANGED <<shown, shownOn>>

OnEvent(m) ==
  /\ IF m.topic = "status" THEN shown' = m.body /\ shownOn' = conn
                           ELSE UNCHANGED <<shown, shownOn>>
  /\ UNCHANGED <<pending, nextId, called, again, sent, sweeping, up>>

Receive ==
  /\ sock = "open" /\ down # <<>>
  /\ down' = Tail(down)
  /\ IF Head(down).type = "response" THEN OnResponse(Head(down)) ELSE OnEvent(Head(down))
  /\ UNCHANGED <<sock, reconnect, live, conn, reply, subs, buffer, dropped, serviceVars, bounds>>

-----------------------------------------------------------------------------
(* The users of the client library.                                        *)

OnPollTimer ==
  /\ polls < MaxPolls /\ polls' = polls + 1
  /\ sock = "open" /\ ~sweeping
  /\ sweeping' = TRUE
  /\ Asks("orphans")
  /\ UNCHANGED <<sock, reconnect, called, again, shown, shownOn>>
  /\ UNCHANGED <<live, conn, reply, subs, buffer, down, dropped, serviceVars>>
  /\ UNCHANGED <<edits, events, losses>>

EditSetting ==
  /\ edits < MaxEdits /\ edits' = edits + 1
  /\ Asks("set")
  /\ UNCHANGED <<sock, reconnect, called, again, shown, shownOn, sweeping>>
  /\ UNCHANGED <<live, conn, reply, subs, buffer, down, dropped, serviceVars>>
  /\ UNCHANGED <<polls, events, losses>>

-----------------------------------------------------------------------------
(* The connection at the service.                                          *)

SweepUnanswered(m) ==                                           \* mutant
  IF m.type = "request" /\ m.kind = "orphans" THEN {NoReply}
  ELSE IF m.type = "request" /\ m.kind = "status" THEN {Response(m.id, phase)}
  ELSE {Response(IF m.type = "request" THEN m.id ELSE NoId, "ok")}
Answers(m) ==
  IF m.type = "request" /\ m.kind = "status" THEN {Response(m.id, phase)}
  ELSE IF m.type = "request" /\ m.kind = "set" THEN {Response(m.id, b) : b \in {"ok", "error"}}
  ELSE {Response(IF m.type = "request" THEN m.id ELSE NoId, "ok")}

(* handleWS reads a message and routeMessage does what it asks for, up to  *)
(* the point where the response is sent.                                   *)
Route ==
  /\ live /\ up # <<>> /\ reply = NoReply
  /\ up' = Tail(up)
  /\ reply' \in Answers(Head(up))
  /\ subs' = IF Head(up).type = "subscribe" THEN subs \cup {Head(up).topic} ELSE subs
  /\ UNCHANGED <<clientVars, live, conn, buffer, down, dropped, serviceVars, bounds>>

(* A message that finds the send channel full is dropped.                  *)
Queued(msg) == IF Len(buffer) < BufSize THEN Append(buffer, msg) ELSE buffer

(* hub.Client's send, of a response or of an event to a subscriber.        *)
Sent(msg) ==
  /\ buffer' = Queued(msg)
  /\ dropped' = (dropped \/ Len(buffer) = BufSize)

Send ==
  /\ live /\ reply # NoReply
  /\ Sent(reply) /\ reply' = NoReply
  /\ UNCHANGED <<clientVars, live, conn, up, subs, down, serviceVars, bounds>>

(* The writing goroutine.                                                  *)
Write ==
  /\ live /\ buffer # <<>> /\ Len(down) < NetSize
  /\ down' = Append(down, Head(buffer)) /\ buffer' = Tail(buffer)
  /\ UNCHANGED <<clientVars, live, conn, up, reply, subs, dropped, serviceVars, bounds>>

Publishes(t, b) ==
  IF t \in subs THEN Sent(Event(t, b)) ELSE UNCHANGED <<buffer, dropped>>

-----------------------------------------------------------------------------
(* The service.                                                            *)

ChangePhase ==
  /\ alive /\ events < MaxEvents /\ events' = events + 1
  /\ phase' \in Phase \ {phase}
  /\ UNCHANGED <<clientVars, connVars, alive, lastPhase, edits, polls, losses>>

(* watchIngestStatus: one tick.                                            *)
WatchStatus ==
  /\ alive /\ phase # lastPhase
  /\ lastPhase' = phase
  /\ Publishes("status", phase)
  /\ UNCHANGED <<clientVars, live, conn, up, reply, subs, down, alive, phase, bounds>>

PublishLine ==
  /\ alive /\ events < MaxEvents /\ events' = events + 1
  /\ Publishes("clientlog", "line")
  /\ UNCHANGED <<clientVars, live, conn, up, reply, subs, down, serviceVars>>
  /\ UNCHANGED <<edits, polls, losses>>

CutOff ==
  /\ live' = FALSE /\ up' = <<>> /\ reply' = NoReply /\ subs' = {} /\ buffer' = <<>>
  /\ UNCHANGED <<clientVars, conn, down, dropped, edits, polls, events>>

LoseConnection ==
  /\ live /\ losses < MaxLosses /\ losses' = losses + 1
  /\ CutOff
  /\ UNCHANGED serviceVars

StopService ==
  /\ alive /\ losses < MaxLosses /\ losses' = losses + 1
  /\ alive' = FALSE /\ CutOff
  /\ UNCHANGED <<phase, lastPhase>>

(* Another copy of the service is started; its tailers start afresh and    *)
(* have found no file yet.  The first one may have run for a while.        *)
StartService ==
  /\ ~alive /\ alive' = TRUE
  /\ phase' = "waiting" /\ lastPhase' = Unknown
  /\ UNCHANGED <<clientVars, connVars, bounds>>

-----------------------------------------------------------------------------
Connecting == TryConnect \/ OnConnected \/ ConnectFails \/ NoticeLoss
Client == Connecting \/ Receive
Service == Route \/ Send \/ Write \/ WatchStatus

Next ==
  \/ Client \/ OnPollTimer \/ EditSetting
  \/ Service \/ ChangePhase \/ PublishLine
  \/ LoseConnection \/ StopService \/ StartService

(* Qt's event loop delivers the socket's signals and the timer's, of which *)
(* only one can be due before the connection is up again; the Go           *)
(* scheduler runs the connection's goroutines and the ticker.  Nothing     *)
(* makes anybody start the service.                                        *)
Fairness ==
  /\ WF_vars(Connecting) /\ WF_vars(Receive)
  /\ WF_vars(Route) /\ WF_vars(Send) /\ WF_vars(Write) /\ WF_vars(WatchStatus)

Spec == Init /\ [][Next]_vars
FairSpec == Spec /\ Fairness

-----------------------------------------------------------------------------
(* A request's callback is called once, with the response or the loss of   *)
(* the connection, and kept exactly until then, whatever was lost, drained *)
(* or answered late in between (PoeInfoClient::onDisconnected and          *)
(* onTextMessageReceived).                                                 *)
CalledOnce ==
  /\ again = {}
  /\ called \cup Ids(pending) = 1 .. nextId - 1 /\ called \cap Ids(pending) = {}

(* The flag that holds back the next orphan sweep is set exactly while one *)
(* is waiting for its answer: no loss of a connection leaves it behind     *)
(* (MainWindow::onPollTimer).                                              *)
OneSweep ==
  IF sweeping THEN \E p \in pending : OfKind(pending, "orphans") = {p}
              ELSE OfKind(pending, "orphans") = {}

Quiet == live /\ sock = "open" /\ up = <<>> /\ reply = NoReply /\ buffer = <<>> /\ down = <<>>

(* After a reconnect the service knows every subscription again, and what  *)
(* the window shows was learned on the new connection, not the old one,    *)
(* unless the answer was dropped.                                          *)
ResyncedAfterReconnect == Quiet => subs = Topic /\ (shownOn = conn \/ dropped)

(* While the service stays up, the app is connected again and again: each  *)
(* failed attempt leads to the next.                                       *)
Reconnects == <>[]alive => []<>(sock = "open")

(* "always gets exactly one response back" (docs/api.md): a request written *)
(* to a connection is answered, or given up with it, as long as no message *)
(* has found the client's channel full.                                    *)
EverySentRequestEnds ==
  \A i \in 1 .. MaxLosses + 1 + MaxPolls + 2 * MaxEdits :
    i \in sent ~> (i \in called \/ dropped)
=============================================================================
