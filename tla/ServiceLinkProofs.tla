-------------------------- MODULE ServiceLinkProofs --------------------------
(***************************************************************************)
(* Theorems about ServiceLink, for any capacities and any number of        *)
(* requests, losses and restarts: every callback is called exactly once,   *)
(* the flag that holds back the orphan sweep is set exactly while one is   *)
(* out, and a new connection learns everything the old one knew.           *)
(***************************************************************************)
EXTENDS ServiceLink, FiniteSetTheorems, FunctionTheorems, TLAPS

(* m_pending: the ids in use are below the next one, and each is used once.*)
PendingInv ==
  /\ nextId \in Id
  /\ pending \subseteq [id : Id, kind : Kind]
  /\ \A p, q \in pending : p.id = q.id => p = q
  /\ CalledOnce

LEMMA PendingFinite == PendingInv => IsFiniteSet(pending)
<1> SUFFICES ASSUME PendingInv PROVE IsFiniteSet(pending)
  OBVIOUS
<1> DEFINE S == (1 .. nextId - 1) \X Kind
           T == [id : 1 .. nextId - 1, kind : Kind]
           f == [x \in S |-> [id |-> x[1], kind |-> x[2]]]
<1>1. IsFiniteSet(1 .. nextId - 1)
  BY FS_Interval DEF PendingInv, Id
<1>2. IsFiniteSet(Kind)
  <2>1. IsFiniteSet({"status"})
    BY FS_Singleton
  <2>2. IsFiniteSet({"status"} \cup {"orphans"})
    BY <2>1, FS_AddElement
  <2>3. IsFiniteSet(({"status"} \cup {"orphans"}) \cup {"set"})
    BY <2>2, FS_AddElement
  <2>4. IsFiniteSet((({"status"} \cup {"orphans"}) \cup {"set"}) \cup {"list"})
    BY <2>3, FS_AddElement
  <2>5. Kind = (({"status"} \cup {"orphans"}) \cup {"set"}) \cup {"list"}
    BY DEF Kind
  <2> QED BY <2>4, <2>5
<1>3. IsFiniteSet(S)
  BY <1>1, <1>2, FS_Product
<1>4. f \in Surjection(S, T)
  <2>1. f \in [S -> T]
    OBVIOUS
  <2>2. ASSUME NEW t \in T PROVE \E x \in S : f[x] = t
    <3>1. <<t.id, t.kind>> \in S /\ f[<<t.id, t.kind>>] = t
      OBVIOUS
    <3> QED BY <3>1
  <2> QED BY <2>1, <2>2 DEF Surjection
<1>5. IsFiniteSet(T)
  BY <1>3, <1>4, FS_Surjection
<1>6. pending \subseteq T
  BY DEF PendingInv, CalledOnce, Ids, Id
<1> QED BY <1>5, <1>6, FS_Subset

(* The edits among them are counted by a natural number.                   *)
LEMMA EditsCounted ==
  ASSUME PendingInv, NEW ps, ps \subseteq pending
  PROVE  Cardinality(OfKind(ps, "set")) \in Nat
BY PendingFinite, FS_Subset, FS_CardinalityType DEF OfKind

(* The requests that callbacks make when they are told of an error.        *)
LEMMA ListsFresh ==
  ASSUME PendingInv, NEW ps, ps \subseteq pending, NEW n \in Nat,
         n = Cardinality(OfKind(ps, "set"))
  PROVE  /\ ListsAfter(ps) \subseteq [id : nextId .. nextId + n - 1, kind : {"list"}]
         /\ Ids(ListsAfter(ps)) = nextId .. nextId + n - 1
         /\ \A p, q \in ListsAfter(ps) : p.id = q.id => p = q
<1> DEFINE R == nextId .. nextId + n - 1
           L == {[id |-> i, kind |-> "list"] : i \in R}
<1>1. ListsAfter(ps) = L
  BY DEF ListsAfter
<1> HIDE DEF R
<1>2. L \subseteq [id : R, kind : {"list"}]
  OBVIOUS
<1>3. \A p, q \in L : p.id = q.id => p = q
  OBVIOUS
<1>4. Ids(L) = R
  <2>1. \A i \in R : [id |-> i, kind |-> "list"] \in L /\ [id |-> i, kind |-> "list"].id = i
    OBVIOUS
  <2>2. \A i \in R : \E p \in L : p.id = i
    BY <2>1
  <2>3. \A p \in L : p.id \in R
    OBVIOUS
  <2> HIDE DEF L
  <2> QED BY <2>2, <2>3 DEF Ids
<1> QED BY <1>1, <1>2, <1>3, <1>4 DEF R

LEMMA InitPending == Init => PendingInv /\ OneSweep
BY DEF Init, PendingInv, CalledOnce, OneSweep, OfKind, Ids, Id

(* A new request.                                                          *)
LEMMA AskPending ==
  ASSUME PendingInv, NEW k \in Kind,
         pending' = pending \cup {[id |-> nextId, kind |-> k]},
         nextId' = nextId + 1, called' = called, again' = again
  PROVE  PendingInv'
<1> DEFINE p == [id |-> nextId, kind |-> k]
<1>1. nextId \in Id /\ nextId' \in Id /\ p \in [id : Id, kind : Kind] /\ p.id = nextId
  BY DEF PendingInv, Id
<1>2. Ids(pending)' = Ids(pending) \cup {nextId}
  <2>1. pending' = pending \cup {p}
    OBVIOUS
  <2> HIDE DEF p
  <2> QED BY <1>1, <2>1 DEF Ids
<1>3. nextId \notin Ids(pending) /\ nextId \notin called
  BY <1>1 DEF PendingInv, CalledOnce, Id
<1>4. CalledOnce'
  BY <1>1, <1>2, <1>3 DEF PendingInv, CalledOnce, Id
<1>5. \A q \in pending : q.id # nextId
  BY <1>3 DEF Ids
<1> HIDE DEF p
<1>6. pending' = pending \cup {p}
  BY DEF p
<1>7. \A q, r \in pending' : q.id = r.id => q = r
  BY <1>1, <1>5, <1>6 DEF PendingInv
<1>8. pending' \subseteq [id : Id, kind : Kind]
  BY <1>1, <1>6 DEF PendingInv
<1> QED BY <1>1, <1>4, <1>7, <1>8 DEF PendingInv

(* Callbacks are called and dropped, and those told of an error ask anew.  *)
LEMMA CallPending ==
  ASSUME PendingInv, NEW ps, ps \subseteq pending, NEW qs, qs \subseteq ps,
         pending' = (pending \ ps) \cup ListsAfter(qs),
         nextId' = nextId + Cardinality(OfKind(qs, "set")),
         Calls(ps)
  PROVE  PendingInv'
<1> DEFINE n == Cardinality(OfKind(qs, "set"))
<1>1. n \in Nat
  BY EditsCounted
<1> HIDE DEF n
<1>2. /\ ListsAfter(qs) \subseteq [id : nextId .. nextId + n - 1, kind : {"list"}]
      /\ Ids(ListsAfter(qs)) = nextId .. nextId + n - 1
      /\ \A p, q \in ListsAfter(qs) : p.id = q.id => p = q
  BY <1>1, ListsFresh DEF n
<1>3. nextId \in Id /\ nextId' = nextId + n /\ nextId' \in Id
  BY <1>1 DEF PendingInv, Id, n
<1>4. \A p \in pending : p.id \in 1 .. nextId - 1
  BY DEF PendingInv, CalledOnce, Ids
<1>5. \A p, q \in pending' : p.id = q.id => p = q
  BY <1>2, <1>3, <1>4 DEF PendingInv, Id
<1>6. pending' \subseteq [id : Id, kind : Kind]
  <2>1. \A p \in ListsAfter(qs) : p \in [id : Id, kind : Kind]
    BY <1>1, <1>2, <1>3 DEF Id, Kind
  <2> QED BY <2>1 DEF PendingInv
<1>7. Ids(ps) \cap Ids(pending \ ps) = {} /\ Ids(ps) \cup Ids(pending \ ps) = Ids(pending)
  BY DEF Ids, PendingInv
<1>8. Ids(pending)' = Ids(pending \ ps) \cup nextId .. nextId + n - 1
  BY <1>2 DEF Ids
<1>9. CalledOnce'
  <2>1. again' = {} /\ called' = called \cup Ids(ps)
    BY <1>7 DEF CalledOnce, PendingInv, Calls
  <2>2. called' \cup Ids(pending)' = (1 .. nextId - 1) \cup nextId .. nextId + n - 1
    BY <1>7, <1>8, <2>1 DEF CalledOnce, PendingInv
  <2>3. (1 .. nextId - 1) \cup nextId .. nextId + n - 1 = 1 .. nextId' - 1
    BY <1>1, <1>3 DEF Id
  <2>4. (1 .. nextId - 1) \cap nextId .. nextId + n - 1 = {}
    BY <1>1, <1>3 DEF Id
  <2>5. called' \cap Ids(pending)' = {}
    BY <1>7, <1>8, <2>1, <2>4 DEF CalledOnce, PendingInv
  <2> QED BY <2>1, <2>2, <2>3, <2>5 DEF CalledOnce
<1> QED BY <1>3, <1>5, <1>6, <1>9 DEF PendingInv

LEMMA DisconnectPending == PendingInv /\ OnDisconnected => PendingInv'
<1> SUFFICES ASSUME PendingInv, OnDisconnected PROVE PendingInv'
  OBVIOUS
<1>1. pending' = (pending \ pending) \cup ListsAfter(pending)
  BY DEF OnDisconnected, Kept
<1>2. nextId' = nextId + Cardinality(OfKind(pending, "set")) /\ Calls(pending)
  BY DEF OnDisconnected
<1> QED BY <1>1, <1>2, CallPending

LEMMA ResponsePending ==
  ASSUME PendingInv, NEW m, OnResponse(m)
  PROVE  PendingInv'
<1> DEFINE ps == {p \in pending : p.id = m.id}
           failed == IF m.body = "error" THEN ps ELSE {}
<1>1. ps \subseteq pending /\ failed \subseteq ps
  OBVIOUS
<1>2. /\ pending' = (pending \ ps) \cup ListsAfter(failed)
      /\ nextId' = nextId + Cardinality(OfKind(failed, "set")) /\ Calls(ps)
  BY DEF OnResponse
<1> HIDE DEF ps, failed
<1> QED BY <1>1, <1>2, CallPending

LEMMA NextPending == PendingInv /\ [Next]_vars => PendingInv'
<1> SUFFICES ASSUME PendingInv, [Next]_vars PROVE PendingInv'
  OBVIOUS
<1>0. ASSUME UNCHANGED <<pending, nextId, called, again>> PROVE PendingInv'
  BY <1>0 DEF PendingInv, CalledOnce, Ids
<1>1. CASE TryConnect
  BY <1>0, <1>1 DEF TryConnect
<1>2. CASE OnConnected
  BY <1>2, AskPending DEF OnConnected, Kind
<1>3. CASE ConnectFails
  BY <1>3, DisconnectPending DEF ConnectFails
<1>4. CASE NoticeLoss
  BY <1>4, DisconnectPending DEF NoticeLoss
<1>5. CASE Receive
  <2>1. CASE Head(down).type = "response"
    BY <1>5, <2>1, ResponsePending DEF Receive
  <2>2. CASE Head(down).type # "response"
    BY <1>0, <1>5, <2>2 DEF Receive, OnEvent
  <2> QED BY <2>1, <2>2
<1>6. CASE OnPollTimer
  BY <1>6, AskPending DEF OnPollTimer, Asks, Kind
<1>7. CASE EditSetting
  BY <1>7, AskPending DEF EditSetting, Asks, Kind
<1>8. CASE Service
  BY <1>0, <1>8 DEF Service, Route, Send, Write, WatchStatus, clientVars
<1>9. CASE ChangePhase \/ PublishLine \/ LoseConnection \/ StopService \/ StartService
  BY <1>0, <1>9 DEF ChangePhase, PublishLine, LoseConnection, StopService, StartService,
                    CutOff, clientVars
<1>10. CASE UNCHANGED vars
  BY <1>0, <1>10 DEF vars, clientVars
<1> QED BY <1>1, <1>2, <1>3, <1>4, <1>5, <1>6, <1>7, <1>8, <1>9, <1>10 DEF Next, Client, Connecting

(* The callback of every request is called exactly once and kept until     *)
(* then, for any number of requests and losses.                            *)
THEOREM CallbackOnce == Spec => []CalledOnce
<1>1. Init => PendingInv
  BY InitPending
<1>2. PendingInv => CalledOnce
  BY DEF PendingInv
<1> QED BY <1>1, <1>2, NextPending, PTL DEF Spec

-----------------------------------------------------------------------------
(* The orphan sweep.                                                       *)
SweepInv == PendingInv /\ OneSweep /\ sweeping \in BOOLEAN

(* Callbacks called: the sweep's is among them, or it is kept.             *)
LEMMA CallSweep ==
  ASSUME SweepInv, NEW ps, ps \subseteq pending, NEW qs,
         pending' = (pending \ ps) \cup ListsAfter(qs),
         sweeping' = (sweeping /\ OfKind(ps, "orphans") = {})
  PROVE  OneSweep' /\ sweeping' \in BOOLEAN
<1>1. \A p \in ListsAfter(qs) : p.kind = "list"
  BY DEF ListsAfter
<1>2. OfKind(pending', "orphans") = OfKind(pending, "orphans") \ OfKind(ps, "orphans")
  BY <1>1 DEF OfKind
<1>3. OfKind(ps, "orphans") \subseteq OfKind(pending, "orphans")
  BY DEF OfKind
<1>4. CASE sweeping
  <2>1. PICK p \in pending : OfKind(pending, "orphans") = {p}
    BY <1>4 DEF SweepInv, OneSweep
  <2>2. CASE OfKind(ps, "orphans") = {}
    <3>1. OfKind(pending', "orphans") = {p}
      BY <1>2, <2>1, <2>2
    <3>2. p \in pending'
      BY <3>1 DEF OfKind
    <3> QED BY <1>4, <2>2, <3>1, <3>2 DEF OneSweep, OfKind
  <2>3. CASE OfKind(ps, "orphans") # {}
    <3>1. OfKind(pending', "orphans") = {}
      BY <1>2, <1>3, <2>1, <2>3
    <3> QED BY <2>3, <3>1 DEF OneSweep, OfKind
  <2> QED BY <2>2, <2>3
<1>5. CASE ~sweeping
  <2>1. OfKind(pending', "orphans") = {}
    BY <1>2, <1>5 DEF SweepInv, OneSweep
  <2> QED BY <1>5, <2>1 DEF OneSweep, OfKind
<1> QED BY <1>4, <1>5

(* A request that is no sweep is added.                                    *)
LEMMA AskSweep ==
  ASSUME SweepInv, NEW p, p.kind # "orphans",
         pending' = pending \cup {p}, sweeping' = sweeping
  PROVE  OneSweep' /\ sweeping' \in BOOLEAN
<1>1. OfKind(pending', "orphans") = OfKind(pending, "orphans")
  BY DEF OfKind
<1> QED BY <1>1 DEF SweepInv, OneSweep, OfKind

LEMMA NextSweep == SweepInv /\ [Next]_vars => SweepInv'
<1> SUFFICES ASSUME SweepInv, [Next]_vars PROVE OneSweep' /\ sweeping' \in BOOLEAN
  BY NextPending DEF SweepInv
<1>0. ASSUME UNCHANGED <<pending, sweeping>> PROVE OneSweep' /\ sweeping' \in BOOLEAN
  BY <1>0 DEF SweepInv, OneSweep, OfKind
<1>1. CASE TryConnect
  BY <1>0, <1>1 DEF TryConnect
<1>2. CASE OnConnected
  BY <1>2, AskSweep DEF OnConnected
<1>3. CASE OnDisconnected
  <2>1. pending' = (pending \ pending) \cup ListsAfter(pending)
    BY <1>3 DEF OnDisconnected, Kept
  <2>2. sweeping' = (sweeping /\ OfKind(pending, "orphans") = {})
    BY <1>3 DEF OnDisconnected, SweepsAfter
  <2> QED BY <2>1, <2>2, CallSweep
<1>4. CASE Receive
  <2>1. CASE Head(down).type = "response"
    <3> DEFINE m == Head(down)
               ps == {p \in pending : p.id = m.id}
               failed == IF m.body = "error" THEN ps ELSE {}
    <3>1. /\ ps \subseteq pending
          /\ pending' = (pending \ ps) \cup ListsAfter(failed)
          /\ sweeping' = (sweeping /\ OfKind(ps, "orphans") = {})
      BY <1>4, <2>1 DEF Receive, OnResponse
    <3> HIDE DEF ps, failed
    <3> QED BY <3>1, CallSweep
  <2>2. CASE Head(down).type # "response"
    BY <1>0, <1>4, <2>2 DEF Receive, OnEvent
  <2> QED BY <2>1, <2>2
<1>5. CASE OnPollTimer
  <2> DEFINE p == [id |-> nextId, kind |-> "orphans"]
  <2>1. /\ sweeping = FALSE /\ sweeping' = TRUE /\ pending' = pending \cup {p}
    BY <1>5 DEF OnPollTimer, Asks, SweepInv
  <2>2. OfKind(pending, "orphans") = {}
    BY <2>1 DEF SweepInv, OneSweep
  <2>3. p.kind = "orphans"
    OBVIOUS
  <2> HIDE DEF p
  <2>4. OfKind(pending', "orphans") = {p}
    BY <2>1, <2>2, <2>3 DEF OfKind
  <2> QED BY <2>1, <2>4 DEF OneSweep, OfKind
<1>6. CASE EditSetting
  BY <1>6, AskSweep DEF EditSetting, Asks
<1>7. CASE Service
  BY <1>0, <1>7 DEF Service, Route, Send, Write, WatchStatus, clientVars
<1>8. CASE ChangePhase \/ PublishLine \/ LoseConnection \/ StopService \/ StartService
  BY <1>0, <1>8 DEF ChangePhase, PublishLine, LoseConnection, StopService, StartService,
                    CutOff, clientVars
<1>9. CASE UNCHANGED vars
  BY <1>0, <1>9 DEF vars, clientVars
<1> QED BY <1>1, <1>2, <1>3, <1>4, <1>5, <1>6, <1>7, <1>8, <1>9
        DEF Next, Client, Connecting, ConnectFails, NoticeLoss

(* At most one orphan sweep waits for its answer, and the flag that holds  *)
(* back the next one is set exactly then: no answer, error or loss of the  *)
(* connection leaves it set for good.                                      *)
THEOREM SweepFlag == Spec => []OneSweep
<1>1. Init => SweepInv
  BY InitPending DEF Init, SweepInv
<1>2. SweepInv => OneSweep
  BY DEF SweepInv
<1> QED BY <1>1, <1>2, NextSweep, PTL DEF Spec

-----------------------------------------------------------------------------
(* The first status and the subscriptions of a new connection.             *)

(* A message of the set S is under way in the queue s.                     *)
Holds(s, S) == \E i \in 1 .. Len(s) : s[i] \in S

LEMMA HoldsTail ==
  ASSUME NEW T, NEW s \in Seq(T), s # <<>>, NEW S, Holds(s, S)
  PROVE  Head(s) \in S \/ Holds(Tail(s), S)
<1>1. PICK i \in 1 .. Len(s) : s[i] \in S
  BY DEF Holds
<1>2. CASE i = 1
  BY <1>1, <1>2
<1>3. CASE i # 1
  <2>1. Len(Tail(s)) = Len(s) - 1 /\ \A j \in 1 .. Len(s) - 1 : Tail(s)[j] = s[j + 1]
    OBVIOUS
  <2>2. i - 1 \in 1 .. Len(s) - 1 /\ (i - 1) + 1 = i
    BY <1>1, <1>3
  <2>3. Tail(s)[i - 1] = s[i]
    BY <2>1, <2>2
  <2>4. i - 1 \in 1 .. Len(Tail(s)) /\ Tail(s)[i - 1] \in S
    BY <1>1, <2>1, <2>2, <2>3
  <2> QED BY <2>4 DEF Holds
<1> QED BY <1>2, <1>3

LEMMA HoldsAppend ==
  ASSUME NEW T, NEW s \in Seq(T), NEW m \in T, NEW S, Holds(s, S) \/ m \in S
  PROVE  Holds(Append(s, m), S)
<1>1. /\ Len(Append(s, m)) = Len(s) + 1 /\ Append(s, m)[Len(s) + 1] = m
      /\ \A i \in 1 .. Len(s) : Append(s, m)[i] = s[i]
  OBVIOUS
<1>2. Len(s) \in Nat
  OBVIOUS
<1>3. CASE Holds(s, S)
  <2>1. PICK i \in 1 .. Len(s) : s[i] \in S
    BY <1>3 DEF Holds
  <2>2. i \in 1 .. Len(Append(s, m)) /\ Append(s, m)[i] \in S
    BY <1>1, <1>2, <2>1
  <2> QED BY <2>2 DEF Holds
<1>4. CASE m \in S
  <2>1. Len(s) + 1 \in 1 .. Len(Append(s, m))
    BY <1>1, <1>2
  <2> QED BY <1>1, <1>4, <2>1 DEF Holds
<1> QED BY <1>3, <1>4

LEMMA HoldsConcat ==
  ASSUME NEW T, NEW s \in Seq(T), NEW t \in Seq(T), NEW S, Holds(s, S)
  PROVE  Holds(s \o t, S)
<1>1. PICK i \in 1 .. Len(s) : s[i] \in S
  BY DEF Holds
<1>2. Len(s \o t) = Len(s) + Len(t) /\ Len(s) \in Nat /\ Len(t) \in Nat /\ (s \o t)[i] = s[i]
  BY <1>1
<1>3. i \in 1 .. Len(s \o t) /\ (s \o t)[i] \in S
  BY <1>1, <1>2
<1> QED BY <1>3 DEF Holds

(* The messages of a connection.                                           *)
LinkTypes ==
  /\ live \in BOOLEAN /\ conn \in Nat /\ dropped \in BOOLEAN /\ phase \in Phase
  /\ subs \subseteq Topic
  /\ up \in Seq(ToService) /\ reply \in Responses \cup {NoReply}
  /\ buffer \in Seq(ToClient) /\ Len(buffer) <= BufSize
  /\ down \in Seq(ToClient)

LEMMA Messages ==
  /\ \A t \in Topic : Subscribe(t) \in ToService
  /\ \A p \in [id : Id, kind : Kind] : Request(p) \in ToService
  /\ \A i \in Id \cup {NoId}, b \in Body : Response(i, b) \in Responses
  /\ \A t \in Topic, b \in Phase \cup {"line"} : Event(t, b) \in ToClient
BY DEF Subscribe, Request, Response, Event, ToService, Responses, ToClient

LEMMA EmptyQueue == <<>> \in Seq(ToService) /\ <<>> \in Seq(ToClient) /\ Len(<<>>) <= BufSize
BY LinkAssumption

LEMMA InitLink == Init => LinkTypes
<1> SUFFICES ASSUME Init PROVE LinkTypes
  OBVIOUS
<1>1. up = <<>> /\ buffer = <<>> /\ down = <<>>
  BY DEF Init
<1>2. up \in Seq(ToService) /\ buffer \in Seq(ToClient) /\ down \in Seq(ToClient) /\ Len(buffer) <= BufSize
  BY <1>1, EmptyQueue
<1>3. live \in BOOLEAN /\ conn \in Nat /\ dropped \in BOOLEAN /\ phase \in Phase /\ subs \subseteq Topic
  BY DEF Init
<1> QED BY <1>2, <1>3 DEF Init, LinkTypes

LEMMA SentTypes ==
  ASSUME LinkTypes, NEW m \in ToClient, Sent(m)
  PROVE  buffer' \in Seq(ToClient) /\ (Len(buffer) <= BufSize)' /\ dropped' \in BOOLEAN
<1>1. buffer \in Seq(ToClient) /\ Len(buffer) \in Nat /\ Len(buffer) <= BufSize /\ BufSize \in Nat
  BY LinkAssumption DEF LinkTypes
<1>2. dropped' \in BOOLEAN
  BY DEF Sent, LinkTypes
<1>3. CASE Len(buffer) < BufSize
  <2>1. buffer' = Append(buffer, m)
    BY <1>3 DEF Sent, Queued
  <2>2. buffer' \in Seq(ToClient) /\ Len(buffer') = Len(buffer) + 1
    BY <1>1, <2>1
  <2> QED BY <1>1, <1>2, <1>3, <2>2
<1>4. CASE ~(Len(buffer) < BufSize)
  <2>1. buffer' = buffer
    BY <1>4 DEF Sent, Queued
  <2> QED BY <1>1, <1>2, <2>1
<1> QED BY <1>3, <1>4

LEMMA AnswersTyped ==
  ASSUME LinkTypes, NEW m \in ToService PROVE Answers(m) \subseteq Responses
<1>1. CASE m.type = "request"
  <2>1. m.id \in Id
    BY <1>1 DEF ToService
  <2>2. phase \in Body /\ "ok" \in Body /\ "error" \in Body
    BY DEF LinkTypes, Body
  <2> QED BY <1>1, <2>1, <2>2, Messages DEF Answers
<1>2. CASE m.type # "request"
  <2>1. "ok" \in Body /\ NoId \in Id \cup {NoId}
    BY DEF Body
  <2> QED BY <1>2, <2>1, Messages DEF Answers
<1> QED BY <1>1, <1>2

LEMMA NextLinkTypes == PendingInv /\ LinkTypes /\ [Next]_vars => LinkTypes'
<1> SUFFICES ASSUME PendingInv, LinkTypes, [Next]_vars PROVE LinkTypes'
  OBVIOUS
<1>0. ASSUME UNCHANGED connVars, phase' = phase PROVE LinkTypes'
  BY <1>0 DEF LinkTypes, connVars
<1>a. ASSUME NEW k \in Kind, Sends(<<Request([id |-> nextId, kind |-> k])>>)
      PROVE  up' \in Seq(ToService)
  <2>1. [id |-> nextId, kind |-> k] \in [id : Id, kind : Kind]
    BY DEF PendingInv
  <2>2. Request([id |-> nextId, kind |-> k]) \in ToService
    BY <2>1, Messages
  <2> DEFINE r == Request([id |-> nextId, kind |-> k])
  <2> HIDE DEF r
  <2>3. r \in ToService /\ (up' = up \o <<r>> \/ up' = up) /\ up \in Seq(ToService)
    BY <1>a, <2>2 DEF r, Sends, LinkTypes
  <2> QED BY <2>3
<1>1. CASE TryConnect \/ ConnectFails
  BY <1>0, <1>1 DEF TryConnect, ConnectFails, serviceVars
<1>2. CASE OnConnected
  <2> DEFINE p == [id |-> nextId, kind |-> "status"]
  <2>1. p \in [id : Id, kind : Kind]
    BY DEF PendingInv, Kind
  <2>2. Request(p) \in ToService /\ Subscribe("clientlog") \in ToService /\ Subscribe("status") \in ToService
    BY <2>1, Messages DEF Topic
  <2>3. up' = Greeting(p)
    BY <1>2 DEF OnConnected
  <2>4. up' \in Seq(ToService)
    BY <2>2, <2>3 DEF Greeting
  <2>5. /\ live' = TRUE /\ conn' = conn + 1 /\ reply' = NoReply /\ subs' = {} /\ buffer' = <<>>
        /\ down' = <<>> /\ dropped' = FALSE /\ phase' = phase
    BY <1>2 DEF OnConnected, serviceVars
  <2>6. buffer' \in Seq(ToClient) /\ (Len(buffer) <= BufSize)' /\ down' \in Seq(ToClient)
    BY <2>5, EmptyQueue
  <2>7. conn' \in Nat
    BY <2>5 DEF LinkTypes
  <2> QED BY <2>4, <2>5, <2>6, <2>7 DEF LinkTypes
<1>3. CASE NoticeLoss
  BY <1>3 DEF NoticeLoss, LinkTypes, serviceVars
<1>4. CASE Receive
  <2>1. down' \in Seq(ToClient)
    BY <1>4 DEF Receive, LinkTypes
  <2>2. up' \in Seq(ToService)
    <3>1. CASE Head(down).type = "response"
      <4>1. OnResponse(Head(down))
        BY <1>4, <3>1 DEF Receive
      <4>2. Sends(<<>>) \/ Sends(<<Request([id |-> nextId, kind |-> "list"])>>)
        BY <4>1 DEF OnResponse
      <4>3. CASE Sends(<<>>)
        BY <4>3 DEF Sends, LinkTypes
      <4>4. CASE Sends(<<Request([id |-> nextId, kind |-> "list"])>>)
        BY <4>4, <1>a DEF Kind
      <4> QED BY <4>2, <4>3, <4>4
    <3>2. CASE Head(down).type # "response"
      BY <1>4, <3>2 DEF Receive, OnEvent, LinkTypes
    <3> QED BY <3>1, <3>2
  <2> QED BY <1>4, <2>1, <2>2 DEF Receive, LinkTypes, serviceVars
<1>5. CASE OnPollTimer \/ EditSetting
  <2>1. up' \in Seq(ToService)
    BY <1>5, <1>a DEF OnPollTimer, EditSetting, Asks, Kind
  <2> QED BY <1>5, <2>1 DEF OnPollTimer, EditSetting, LinkTypes, serviceVars
<1>6. CASE Route
  <2>1. up \in Seq(ToService) /\ up # <<>>
    BY <1>6 DEF Route, LinkTypes
  <2>2. Head(up) \in ToService /\ Tail(up) \in Seq(ToService)
    BY <2>1
  <2>3. reply' \in Responses
    BY <1>6, <2>2, AnswersTyped DEF Route
  <2>4. Head(up).type = "subscribe" => Head(up).topic \in Topic
    BY <2>2 DEF ToService
  <2>5. subs' \subseteq Topic
    BY <1>6, <2>4 DEF Route, LinkTypes
  <2> QED BY <1>6, <2>2, <2>3, <2>5 DEF Route, LinkTypes, serviceVars
<1>7. CASE Send
  <2>1. reply \in ToClient
    BY <1>7 DEF Send, LinkTypes, ToClient
  <2>2. buffer' \in Seq(ToClient) /\ (Len(buffer) <= BufSize)' /\ dropped' \in BOOLEAN
    BY <1>7, <2>1, SentTypes DEF Send
  <2> QED BY <1>7, <2>2 DEF Send, LinkTypes, serviceVars
<1>8. CASE Write
  <2>1. buffer \in Seq(ToClient) /\ buffer # <<>> /\ Len(buffer) <= BufSize /\ BufSize \in Nat
        /\ down \in Seq(ToClient)
    BY <1>8, LinkAssumption DEF Write, LinkTypes
  <2>2. Head(buffer) \in ToClient /\ Tail(buffer) \in Seq(ToClient) /\ Len(Tail(buffer)) <= BufSize
    BY <2>1
  <2>3. Append(down, Head(buffer)) \in Seq(ToClient)
    BY <2>1, <2>2
  <2> QED BY <1>8, <2>2, <2>3 DEF Write, LinkTypes, serviceVars
<1>9. CASE WatchStatus \/ PublishLine
  <2>1. buffer' \in Seq(ToClient) /\ (Len(buffer) <= BufSize)' /\ dropped' \in BOOLEAN
    <3>1. Event("status", phase) \in ToClient /\ Event("clientlog", "line") \in ToClient
      BY Messages DEF Topic, LinkTypes
    <3>2. Sent(Event("status", phase)) \/ Sent(Event("clientlog", "line")) \/ UNCHANGED <<buffer, dropped>>
      BY <1>9 DEF WatchStatus, PublishLine, Publishes
    <3>3. CASE UNCHANGED <<buffer, dropped>>
      BY <3>3 DEF LinkTypes
    <3> QED BY <3>1, <3>2, <3>3, SentTypes
  <2> QED BY <1>9, <2>1 DEF WatchStatus, PublishLine, LinkTypes, serviceVars
<1>10. CASE ChangePhase
  BY <1>10 DEF ChangePhase, LinkTypes, connVars
<1>11. CASE LoseConnection \/ StopService
  <2>1. buffer' \in Seq(ToClient) /\ (Len(buffer) <= BufSize)' /\ up' \in Seq(ToService)
    BY <1>11, EmptyQueue DEF LoseConnection, StopService, CutOff
  <2> QED BY <1>11, <2>1 DEF LoseConnection, StopService, CutOff, LinkTypes, serviceVars
<1>12. CASE StartService
  BY <1>12 DEF StartService, LinkTypes, connVars, Phase
<1>13. CASE UNCHANGED vars
  BY <1>0, <1>13 DEF vars, serviceVars
<1> QED BY <1>1, <1>2, <1>3, <1>4, <1>5, <1>6, <1>7, <1>8, <1>9, <1>10, <1>11, <1>12, <1>13
        DEF Next, Client, Connecting, Service

(* The answer to the request p.                                            *)
AnswersTo(p) == [type : {"response"}, id : {p.id}, body : Body]

(* The request p or its answer is under way.                               *)
UnderWay(p) ==
  \/ Holds(up, {Request(p)}) \/ reply \in AnswersTo(p)
  \/ Holds(buffer, AnswersTo(p)) \/ Holds(down, AnswersTo(p))

Resyncing ==
  /\ sock # "closed" => reconnect = FALSE
  /\ live =>
       /\ sock = "open"
       /\ \A t \in Topic : t \in subs \/ Holds(up, {Subscribe(t)})
       /\ \/ shownOn = conn \/ dropped
          \/ \E p \in OfKind(pending, "status") : UnderWay(p)

LinkInv == PendingInv /\ LinkTypes /\ Resyncing

(* The queues once everything has arrived.                                 *)
LEMMA HoldsNothing == \A S : ~ Holds(<<>>, S)
BY DEF Holds

LEMMA QuietResynced == LinkInv => ResyncedAfterReconnect
<1> SUFFICES ASSUME LinkInv, Quiet PROVE subs = Topic /\ (shownOn = conn \/ dropped)
  BY DEF ResyncedAfterReconnect
<1>1. live /\ up = <<>> /\ reply = NoReply /\ buffer = <<>> /\ down = <<>>
  BY DEF Quiet
<1>2. \A S : ~ Holds(up, S) /\ ~ Holds(buffer, S) /\ ~ Holds(down, S)
  BY <1>1, HoldsNothing
<1>3. \A p \in pending : reply \notin AnswersTo(p)
  BY <1>1 DEF LinkInv, PendingInv, AnswersTo, NoReply, Response, NoId, Id
<1>4. \A p \in OfKind(pending, "status") : ~ UnderWay(p)
  BY <1>2, <1>3 DEF UnderWay, OfKind
<1>5. subs = Topic
  BY <1>1, <1>2 DEF LinkInv, Resyncing, LinkTypes
<1> QED BY <1>1, <1>4, <1>5 DEF LinkInv, Resyncing

LEMMA InitResyncing == Init => Resyncing
BY DEF Init, Resyncing

(* A message is sent: what was under way still is, or something was lost.  *)
LEMMA SendKeeps ==
  ASSUME LinkTypes, NEW m \in ToClient, Sent(m), NEW S, Holds(buffer, S) \/ m \in S
  PROVE  Holds(buffer, S)' \/ dropped'
<1>1. buffer \in Seq(ToClient) /\ Len(buffer) \in Nat /\ Len(buffer) <= BufSize /\ BufSize \in Nat
  BY LinkAssumption DEF LinkTypes
<1>2. CASE Len(buffer) < BufSize
  <2>1. buffer' = Append(buffer, m)
    BY <1>2 DEF Sent, Queued
  <2>2. Holds(Append(buffer, m), S)
    BY <1>1, HoldsAppend
  <2> QED BY <2>1, <2>2
<1>3. CASE ~(Len(buffer) < BufSize)
  <2>1. Len(buffer) = BufSize
    BY <1>1, <1>3
  <2> QED BY <2>1 DEF Sent
<1> QED BY <1>2, <1>3

(* A message is taken up by the service.                                   *)
LEMMA RouteResyncs == LinkInv /\ Route => Resyncing'
<1> SUFFICES ASSUME LinkInv, Route PROVE Resyncing'
  OBVIOUS
<1>1. /\ up \in Seq(ToService) /\ up # <<>> /\ live /\ reply = NoReply
      /\ up' = Tail(up) /\ reply' \in Answers(Head(up))
      /\ sock' = sock /\ reconnect' = reconnect /\ pending' = pending
      /\ shownOn' = shownOn /\ conn' = conn /\ dropped' = dropped
      /\ buffer' = buffer /\ down' = down
  BY DEF Route, LinkInv, LinkTypes, clientVars
<1>2. \A S : Holds(up, S) => Head(up) \in S \/ Holds(Tail(up), S)
  BY <1>1, HoldsTail
<1>3. ASSUME NEW t \in Topic PROVE t \in subs' \/ Holds(up', {Subscribe(t)})
  <2>1. CASE Head(up) = Subscribe(t)
    BY <2>1 DEF Route, Subscribe
  <2>2. CASE Head(up) # Subscribe(t)
    <3>1. t \in subs \/ Holds(up, {Subscribe(t)})
      BY <1>1 DEF LinkInv, Resyncing
    <3>2. subs \subseteq subs'
      BY DEF Route
    <3> QED BY <1>1, <1>2, <2>2, <3>1, <3>2
  <2> QED BY <2>1, <2>2
<1>4. ASSUME NEW p \in OfKind(pending, "status"), UnderWay(p) PROVE UnderWay(p)'
  <2>1. p \in [id : Id, kind : Kind] /\ p.kind = "status" /\ p.id \in Id
    BY DEF LinkInv, PendingInv, OfKind
  <2>2. CASE Head(up) = Request(p)
    <3>1. Answers(Head(up)) = {Response(p.id, phase)}
      BY <2>1, <2>2 DEF Answers, Request
    <3>2. phase \in Body
      BY DEF LinkInv, LinkTypes, Body
    <3>3. Response(p.id, phase) \in AnswersTo(p)
      BY <3>2 DEF Response, AnswersTo
    <3> QED BY <1>1, <3>1, <3>3 DEF UnderWay, AnswersTo
  <2>3. CASE Head(up) # Request(p)
    <3>1. reply \notin AnswersTo(p)
      BY <1>1, <2>1 DEF AnswersTo, NoReply, Response, NoId, Id
    <3>2. Holds(up, {Request(p)}) => Holds(up', {Request(p)})
      BY <1>1, <1>2, <2>3
    <3> QED BY <1>1, <1>4, <3>1, <3>2 DEF UnderWay, AnswersTo, Request
  <2> QED BY <2>2, <2>3
<1>5. sock' = "open" /\ reconnect' = FALSE
  BY <1>1 DEF LinkInv, Resyncing
<1>6. \/ shownOn' = conn' \/ dropped'
      \/ \E p \in OfKind(pending', "status") : UnderWay(p)'
  BY <1>1, <1>4 DEF LinkInv, Resyncing
<1> QED BY <1>3, <1>5, <1>6 DEF Resyncing

(* A message is sent by the service.                                       *)
LEMMA SendResyncs ==
  ASSUME LinkInv, NEW m \in ToClient, Sent(m),
         UNCHANGED <<clientVars, live, conn, up, subs, down>>,
         reply' = reply \/ m = reply
  PROVE  Resyncing'
<1>1. ASSUME live, NEW p \in OfKind(pending, "status"), UnderWay(p) PROVE UnderWay(p)' \/ dropped'
  <2>1. Holds(buffer, AnswersTo(p)) \/ m \in AnswersTo(p) => Holds(buffer', AnswersTo(p)) \/ dropped'
    BY SendKeeps DEF LinkInv
  <2>2. CASE reply \in AnswersTo(p)
    BY <2>1, <2>2 DEF UnderWay, AnswersTo
  <2>3. CASE reply \notin AnswersTo(p)
    BY <1>1, <2>1, <2>3 DEF UnderWay, AnswersTo, Request
  <2> QED BY <2>2, <2>3
<1>2. dropped => dropped'
  BY DEF Sent
<1>3. OfKind(pending, "status")' = OfKind(pending, "status")
  BY DEF clientVars, OfKind
<1>4. live' = live /\ sock' = sock /\ reconnect' = reconnect /\ shownOn' = shownOn /\ conn' = conn
      /\ subs' = subs /\ up' = up
  BY DEF clientVars
<1>5. live => \/ shownOn' = conn' \/ dropped'
              \/ \E p \in OfKind(pending, "status") : UnderWay(p)'
  BY <1>1, <1>2, <1>4 DEF LinkInv, Resyncing
<1> QED BY <1>3, <1>4, <1>5 DEF LinkInv, Resyncing

(* A message leaves the buffer for the network.                            *)
LEMMA WriteResyncs == LinkInv /\ Write => Resyncing'
<1> SUFFICES ASSUME LinkInv, Write PROVE Resyncing'
  OBVIOUS
<1>1. /\ buffer \in Seq(ToClient) /\ buffer # <<>> /\ down \in Seq(ToClient)
      /\ down' = Append(down, Head(buffer)) /\ buffer' = Tail(buffer)
  BY DEF Write, LinkInv, LinkTypes
<1>2. Head(buffer) \in ToClient
  BY <1>1
<1>3. \A S : Holds(buffer, S) => Head(buffer) \in S \/ Holds(buffer', S)
  BY <1>1, HoldsTail
<1>4. \A S : Holds(down, S) \/ Head(buffer) \in S => Holds(down', S)
  BY <1>1, <1>2, HoldsAppend
<1>5. ASSUME NEW p, UnderWay(p) PROVE UnderWay(p)'
  BY <1>3, <1>4, <1>5 DEF UnderWay, AnswersTo, Request, Write
<1>6. UNCHANGED <<live, sock, reconnect, subs, up, shownOn, conn, dropped, pending>>
  BY DEF Write, clientVars
<1> QED BY <1>5, <1>6 DEF LinkInv, Resyncing, OfKind

(* A message reaches the app.                                              *)
LEMMA ReceiveResyncs == LinkInv /\ Receive => Resyncing'
<1>0. ASSUME ~ live, Receive, LinkInv PROVE Resyncing'
  <2>1. live' = live /\ sock' = sock /\ reconnect' = reconnect
    BY <1>0 DEF Receive
  <2> QED BY <1>0, <2>1 DEF LinkInv, Resyncing
<1> SUFFICES ASSUME LinkInv, Receive, live PROVE Resyncing'
  BY <1>0
<1> DEFINE m == Head(down)
<1>1. /\ down \in Seq(ToClient) /\ down # <<>> /\ m \in ToClient /\ down' = Tail(down)
      /\ up \in Seq(ToService) /\ up' \in Seq(ToService)
      /\ live' /\ sock' = "open" /\ reconnect' = FALSE
      /\ reply' = reply /\ subs' = subs /\ buffer' = buffer /\ conn' = conn /\ dropped' = dropped
  <2>1. LinkTypes'
    BY NextLinkTypes DEF LinkInv, Next, Client
  <2>2. down \in Seq(ToClient) /\ down # <<>>
    BY DEF Receive, LinkInv, LinkTypes
  <2>3. m \in ToClient
    BY <2>2
  <2> QED BY <2>1, <2>2, <2>3 DEF Receive, LinkInv, LinkTypes, Resyncing
<1>2. \A S : Holds(down, S) => m \in S \/ Holds(down', S)
  BY <1>1, HoldsTail
<1>3. \A S : Holds(up, S) => Holds(up', S)
  <2>1. up' = up \/ \E r \in ToService : up' = up \o <<r>>
    <3>1. CASE m.type = "response"
      <4>1. up' = up \o <<>> \/ up' = up \o <<Request([id |-> nextId, kind |-> "list"])>>
        BY <3>1, <1>1 DEF Receive, OnResponse, Sends, LinkInv, Resyncing
      <4>2. [id |-> nextId, kind |-> "list"] \in [id : Id, kind : Kind]
        BY DEF LinkInv, PendingInv, Kind
      <4>3. Request([id |-> nextId, kind |-> "list"]) \in ToService
        BY <4>2, Messages
      <4>4. up \o <<>> = up
        BY <1>1
      <4> QED BY <4>1, <4>3, <4>4
    <3>2. CASE m.type # "response"
      BY <3>2 DEF Receive, OnEvent
    <3> QED BY <3>1, <3>2
  <2>2. \A r \in ToService : <<r>> \in Seq(ToService)
    OBVIOUS
  <2> QED BY <1>1, <2>1, <2>2, HoldsConcat
<1>4. \A t \in Topic : t \in subs' \/ Holds(up', {Subscribe(t)})
  BY <1>1, <1>3 DEF LinkInv, Resyncing
<1>5. \/ shownOn' = conn' \/ dropped'
      \/ \E p \in OfKind(pending', "status") : UnderWay(p)'
  <2>0. CASE dropped
    BY <1>1, <2>0
  <2>1. CASE m.type = "response"
    <3> DEFINE ps == {p \in pending : p.id = m.id}
    <3>1. /\ \A p \in pending : p.id # m.id => p \in pending'
          /\ IF OfKind(ps, "status") # {} THEN shownOn' = conn ELSE shownOn' = shownOn
      BY <2>1 DEF Receive, OnResponse
    <3>2. CASE OfKind(ps, "status") # {}
      BY <1>1, <3>1, <3>2
    <3>3. CASE OfKind(ps, "status") = {} /\ shownOn = conn
      BY <1>1, <3>1, <3>3
    <3>4. CASE OfKind(ps, "status") = {} /\ shownOn # conn /\ ~dropped
      <4>1. PICK p \in OfKind(pending, "status") : UnderWay(p)
        BY <3>4 DEF LinkInv, Resyncing
      <4>2. p \in pending /\ p.kind = "status" /\ p.id # m.id
        BY <3>4, <4>1 DEF OfKind
      <4>3. p \in OfKind(pending', "status")
        BY <3>1, <4>2 DEF OfKind
      <4>4. m \notin AnswersTo(p)
        BY <4>2 DEF AnswersTo
      <4>5. UnderWay(p)'
        BY <1>1, <1>2, <1>3, <4>1, <4>4 DEF UnderWay, AnswersTo, Request
      <4> QED BY <4>3, <4>5
    <3> QED BY <2>0, <3>2, <3>3, <3>4
  <2>2. CASE m.type # "response"
    <3>1. pending' = pending /\ (shownOn' = shownOn \/ shownOn' = conn)
      BY <2>2 DEF Receive, OnEvent
    <3>2. ASSUME NEW p \in OfKind(pending, "status"), UnderWay(p) PROVE UnderWay(p)'
      <4>1. m \notin AnswersTo(p)
        BY <2>2 DEF AnswersTo
      <4> QED BY <1>1, <1>2, <1>3, <3>2, <4>1 DEF UnderWay, AnswersTo, Request
    <3> QED BY <1>1, <3>1, <3>2 DEF LinkInv, Resyncing
  <2> QED BY <2>1, <2>2
<1> QED BY <1>1, <1>4, <1>5 DEF Resyncing

(* A request is added by the app.                                          *)
LEMMA AskResyncs ==
  ASSUME LinkInv, NEW k \in Kind, Asks(k),
         UNCHANGED <<sock, reconnect, shownOn, live, conn, reply, subs, buffer, down, dropped>>
  PROVE  Resyncing'
<1> DEFINE r == Request([id |-> nextId, kind |-> k])
<1>1. [id |-> nextId, kind |-> k] \in [id : Id, kind : Kind]
  BY DEF LinkInv, PendingInv
<1>2. r \in ToService
  BY <1>1, Messages
<1>3. up' = up \/ up' = up \o <<r>>
  BY DEF Asks, Sends
<1> HIDE DEF r
<1>4. up \in Seq(ToService) /\ <<r>> \in Seq(ToService)
  BY <1>2 DEF LinkInv, LinkTypes
<1>5. \A S : Holds(up, S) => Holds(up', S)
  BY <1>3, <1>4, HoldsConcat
<1>6. OfKind(pending, "status") \subseteq OfKind(pending', "status")
  BY DEF Asks, OfKind
<1>7. \A p : UnderWay(p) => UnderWay(p)'
  BY <1>5 DEF UnderWay, AnswersTo, Request
<1>8. live => \A t \in Topic : t \in subs' \/ Holds(up', {Subscribe(t)})
  BY <1>5 DEF LinkInv, Resyncing
<1>9. live => \/ shownOn' = conn' \/ dropped'
              \/ \E p \in OfKind(pending', "status") : UnderWay(p)'
  BY <1>6, <1>7 DEF LinkInv, Resyncing
<1> QED BY <1>8, <1>9 DEF LinkInv, Resyncing

LEMMA NextResyncing == LinkInv /\ [Next]_vars => LinkInv'
<1> SUFFICES ASSUME LinkInv, [Next]_vars PROVE Resyncing'
  BY NextPending, NextLinkTypes DEF LinkInv
<1>0. ASSUME UNCHANGED <<sock, reconnect, pending, shownOn, connVars>> PROVE Resyncing'
  BY <1>0 DEF LinkInv, Resyncing, connVars, OfKind, UnderWay, AnswersTo, Request
<1>1. CASE TryConnect
  <2>1. ~ live' /\ reconnect' = FALSE
    BY <1>1 DEF TryConnect, LinkInv, Resyncing, connVars, LinkTypes
  <2> QED BY <2>1 DEF Resyncing
<1>2. CASE OnConnected
  <2>0. PICK p : p = [id |-> nextId, kind |-> "status"]
    OBVIOUS
  <2>1. up' = <<Subscribe("clientlog"), Subscribe("status"), Request(p)>>
    BY <1>2, <2>0 DEF OnConnected, Greeting
  <2>2. Len(up') = 3 /\ up'[1] = Subscribe("clientlog") /\ up'[2] = Subscribe("status") /\ up'[3] = Request(p)
    BY <2>1
  <2>3. /\ Holds(up', {Subscribe("clientlog")}) /\ Holds(up', {Subscribe("status")})
        /\ Holds(up', {Request(p)})
    <3>1. 1 \in 1 .. Len(up') /\ 2 \in 1 .. Len(up') /\ 3 \in 1 .. Len(up')
      BY <2>2
    <3> QED BY <2>2, <3>1 DEF Holds
  <2>4. \A t \in Topic : Holds(up', {Subscribe(t)})
    BY <2>3 DEF Topic
  <2>5. p \in OfKind(pending', "status")
    BY <1>2, <2>0 DEF OnConnected, OfKind
  <2>6. UnderWay(p)'
    BY <2>3 DEF UnderWay, Request
  <2>7. sock' = "open" /\ reconnect' = FALSE
    BY <1>2 DEF OnConnected, LinkInv, Resyncing
  <2> QED BY <2>4, <2>5, <2>6, <2>7 DEF Resyncing
<1>3. CASE ConnectFails \/ NoticeLoss
  <2>1. ~ live' /\ sock' = "closed"
    BY <1>3 DEF OnDisconnected, ConnectFails, NoticeLoss, LinkInv, Resyncing, connVars, LinkTypes
  <2> QED BY <2>1 DEF Resyncing
<1>4. CASE Receive
  BY <1>4, ReceiveResyncs
<1>5. CASE OnPollTimer
  BY <1>5, AskResyncs DEF OnPollTimer, Kind
<1>6. CASE EditSetting
  BY <1>6, AskResyncs DEF EditSetting, Kind
<1>7. CASE Route
  BY <1>7, RouteResyncs
<1>8. CASE Send
  <2>1. reply \in ToClient
    BY <1>8 DEF Send, LinkInv, LinkTypes, ToClient
  <2> QED BY <1>8, <2>1, SendResyncs DEF Send
<1>9. CASE Write
  BY <1>9, WriteResyncs
<1>10. CASE WatchStatus \/ PublishLine
  <2>1. Event("status", phase) \in ToClient /\ Event("clientlog", "line") \in ToClient
    BY Messages DEF Topic, LinkInv, LinkTypes
  <2>2. UNCHANGED <<clientVars, live, conn, up, reply, subs, down>>
    BY <1>10 DEF WatchStatus, PublishLine
  <2>3. Sent(Event("status", phase)) \/ Sent(Event("clientlog", "line")) \/ UNCHANGED <<buffer, dropped>>
    BY <1>10 DEF WatchStatus, PublishLine, Publishes
  <2>4. CASE UNCHANGED <<buffer, dropped>>
    BY <1>0, <2>2, <2>4 DEF clientVars, connVars
  <2> QED BY <2>1, <2>2, <2>3, <2>4, SendResyncs
<1>11. CASE ChangePhase \/ StartService
  BY <1>0, <1>11 DEF ChangePhase, StartService, clientVars
<1>12. CASE LoseConnection \/ StopService
  BY <1>12 DEF LoseConnection, StopService, CutOff, LinkInv, Resyncing, clientVars
<1>13. CASE UNCHANGED vars
  BY <1>0, <1>13 DEF vars, clientVars
<1> QED BY <1>1, <1>2, <1>3, <1>4, <1>5, <1>6, <1>7, <1>8, <1>9, <1>10, <1>11, <1>12, <1>13
        DEF Next, Client, Connecting, Service

(* After a reconnect every subscription and a first status are under way   *)
(* until they have arrived: once the new connection is quiet the service   *)
(* knows every topic again, and the window shows what was learned on it,   *)
(* unless a message was dropped (PoeInfoClient::onConnected and            *)
(* MainWindow::onServiceReady).                                            *)
THEOREM Resynced == Spec => []ResyncedAfterReconnect
<1>1. Init => LinkInv
  BY InitPending, InitLink, InitResyncing DEF LinkInv
<1> QED BY <1>1, QuietResynced, NextResyncing, PTL DEF Spec
=============================================================================
