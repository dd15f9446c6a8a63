--------------------------- MODULE PoeOAuthProofs ---------------------------
(***************************************************************************)
(* Type correctness of PoeOAuth, at most one login flow, and that a token  *)
(* in memory always has its refresh ahead of it, for any number of         *)
(* accounts, logins, logouts, timers and restarts.                         *)
(***************************************************************************)
EXTENDS PoeOAuth, TLAPS

(* A goroutine that is going to use its local token has one.               *)
HasToken ==
  \A p \in Proc : pc[p] \in {"refreshing", "past", "got", "saved", "recorded"}
                    => tok[p] # None

(* Logins and logouts that have not been requested yet do nothing.         *)
Fresh ==
  /\ \A n \in 1 .. MaxLogins :
       n > used.login => pc[<<"login", n>>] \in {"none", "done"}
  /\ \A n \in 1 .. MaxLogouts :
       n > used.logout => pc[<<"logout", n>>] \in {"none", "done"}

(* Only logins are in a login flow, and each of them sets the flag.        *)
FlowIsLogin == \A p \in Proc : InFlow(p) => p \in Logins

IInv == TypeOK /\ HasToken /\ Fresh /\ FlowIsLogin /\ OneLoginFlow /\ RefreshPending

(* The three kinds of goroutines are told apart by their names.            *)
LEMMA Kinds ==
  /\ \A n \in 1 .. MaxTimers : <<"refresh", n>> \in Refreshes
  /\ \A n \in 1 .. MaxLogins : <<"login", n>> \in Logins
  /\ \A n \in 1 .. MaxLogouts : <<"logout", n>> \in Logouts
  /\ Refreshes \subseteq Proc /\ Logins \subseteq Proc /\ Logouts \subseteq Proc
  /\ Refreshes \cap Logins = {} /\ Refreshes \cap Logouts = {}
  /\ Logins \cap Logouts = {}
  /\ \A p \in Logins : \E n \in 1 .. MaxLogins : p = <<"login", n>>
  /\ \A p \in Logouts : \E n \in 1 .. MaxLogouts : p = <<"logout", n>>
  /\ None \notin Proc
BY OAuthAssumption DEF Refreshes, Logins, Logouts, Proc

(* Arming a timer: only the new one's place changes, and it was free.      *)
LEMMA ArmedTimer ==
  ASSUME TypeOK, NEW others \in [Proc -> Stages], ArmTimer(others)
  PROVE  /\ pc' \in [Proc -> Stages]
         /\ NewTimer \in Refreshes /\ pc'[NewTimer] = "armed"
         /\ \A p \in Proc : p # NewTimer => pc'[p] = others[p]
         /\ refreshTimer' \in Refreshes
         /\ used' \in [refresh : 0 .. MaxTimers, login : 0 .. MaxLogins,
                       logout : 0 .. MaxLogouts]
         /\ used'.login = used.login /\ used'.logout = used.logout
<1>1. used.refresh \in 0 .. MaxTimers /\ used.refresh < MaxTimers
  BY DEF TypeOK, ArmTimer
<1>2. used.refresh + 1 \in 1 .. MaxTimers
  BY <1>1, OAuthAssumption
<1>3. NewTimer \in Refreshes
  BY <1>2, Kinds DEF NewTimer
<1>4. used' = [used EXCEPT !.refresh = used.refresh + 1]
  BY DEF ArmTimer
<1>5. /\ used' \in [refresh : 0 .. MaxTimers, login : 0 .. MaxLogins,
                    logout : 0 .. MaxLogouts]
      /\ used'.login = used.login /\ used'.logout = used.logout
  BY <1>2, <1>4 DEF TypeOK
<1>6. pc' = [others EXCEPT ![NewTimer] = "armed"] /\ refreshTimer' = NewTimer
  BY DEF ArmTimer
<1> QED BY <1>3, <1>5, <1>6, Kinds DEF Stages

(* Stopping a timer touches armed timers only.                             *)
LEMMA StoppedType ==
  ASSUME TypeOK
  PROVE  /\ Stopped \in [Proc -> Stages]
         /\ \A p \in Proc : Stopped[p] = pc[p] \/ (pc[p] = "armed" /\ Stopped[p] = "stopped")
BY DEF TypeOK, Stopped, Stages

(* The initial state.                                                      *)
LEMMA InitIInv == Init => IInv
<1> SUFFICES ASSUME Init PROVE IInv
  OBVIOUS
<1>1. TypeOK
  <2>1. /\ token \in Account \cup {None} /\ cred \in Account \cup {None}
        /\ inProgress \in BOOLEAN /\ loggedOut \in BOOLEAN
        /\ refreshTimer \in Refreshes \cup {None} /\ active \subseteq Account
        /\ shown \in (Account \cup {None}) \X BOOLEAN
    BY DEF Init
  <2>2. pc \in [Proc -> Stages]
    BY DEF Init, Stages
  <2>3. /\ tok \in [Proc -> Account \cup {None}]
        /\ view \in [Proc -> (Account \cup {None}) \X BOOLEAN]
        /\ next \in [Proc -> {"browser", "schedule", "done"}]
    BY DEF Init
  <2>4. /\ used \in [refresh : 0 .. MaxTimers, login : 0 .. MaxLogins,
                      logout : 0 .. MaxLogouts]
        /\ restarts \in 0 .. MaxRestarts
    BY OAuthAssumption DEF Init
  <2> QED BY <2>1, <2>2, <2>3, <2>4 DEF TypeOK
<1>2. HasToken /\ FlowIsLogin /\ RefreshPending
  BY DEF Init, HasToken, FlowIsLogin, InFlow, RefreshPending
<1>3. Fresh
  BY Kinds DEF Init, Fresh
<1>4. OneLoginFlow
  BY Kinds DEF Init, OneLoginFlow, InFlow
<1> QED BY <1>1, <1>2, <1>3, <1>4 DEF IInv

-----------------------------------------------------------------------------
(* Type correctness, one action at a time.                                 *)

(* Steps of a goroutine that only change a few variables.                  *)
LEMMA StepType ==
  ASSUME TypeOK, HasToken, NEW p \in Proc,
         \/ TimerFires(p) \/ DropToken(p) \/ RefreshSucceeds(p)
         \/ LoginFails(p) \/ (\E a \in Account : LoginSucceeds(p, a))
         \/ SaveToken(p) \/ RecordAccount(p) \/ SetToken(p)
         \/ ClearCredential(p) \/ Deactivate(p)
         \/ TakeSnapshot(p) \/ PublishStatus(p)
  PROVE  TypeOK'
<1> USE DEF TypeOK, Stages, Tells
<1>1. CASE TimerFires(p)
  BY <1>1 DEF TimerFires, Afterwards
<1>2. CASE DropToken(p)
  BY <1>2 DEF DropToken
<1>3. CASE RefreshSucceeds(p)
  BY <1>3 DEF RefreshSucceeds
<1>4. CASE LoginFails(p)
  BY <1>4 DEF LoginFails, NotInProgress
<1>5. ASSUME NEW a \in Account, LoginSucceeds(p, a) PROVE TypeOK'
  BY <1>5 DEF LoginSucceeds
<1>6. CASE SaveToken(p)
  <2>1. cred' \in Account \cup {None}
    BY <1>6 DEF SaveToken
  <2> QED BY <1>6, <2>1 DEF SaveToken
<1>7. CASE RecordAccount(p)
  <2>1. tok[p] \in Account
    BY <1>7 DEF RecordAccount, HasToken
  <2> QED BY <1>7, <2>1 DEF RecordAccount
<1>8. CASE SetToken(p)
  BY <1>8 DEF SetToken
<1>9. CASE ClearCredential(p)
  BY <1>9 DEF ClearCredential
<1>10. CASE Deactivate(p)
  BY <1>10 DEF Deactivate
<1>11. CASE TakeSnapshot(p)
  BY <1>11 DEF TakeSnapshot, Status
<1>12. CASE PublishStatus(p)
  BY <1>12 DEF PublishStatus
<1> QED BY <1>1, <1>2, <1>3, <1>4, <1>5, <1>6, <1>7, <1>8, <1>9, <1>10, <1>11, <1>12

(* Steps that arm or stop timers, start goroutines or the process.         *)
LEMMA TimerType ==
  ASSUME TypeOK, \/ \E p \in Proc : RefreshFails(p) \/ Schedule(p)
                 \/ StartLogin \/ Logout \/ Restart
  PROVE  TypeOK'
<1>1. ASSUME NEW p \in Proc, RefreshFails(p) PROVE TypeOK'
  <2>1. ArmTimer([pc EXCEPT ![p] = "telling"])
    BY <1>1 DEF RefreshFails, Retry
  <2>2. [pc EXCEPT ![p] = "telling"] \in [Proc -> Stages]
    BY DEF TypeOK, Stages
  <2> QED BY <1>1, <2>1, <2>2, ArmedTimer DEF RefreshFails, TypeOK
<1>2. ASSUME NEW p \in Proc, Schedule(p) PROVE TypeOK'
  <2>1. ArmTimer([Stopped EXCEPT ![p] = "done"])
    BY <1>2 DEF Schedule
  <2>2. [Stopped EXCEPT ![p] = "done"] \in [Proc -> Stages]
    BY StoppedType DEF Stages
  <2> QED BY <1>2, <2>1, <2>2, ArmedTimer DEF Schedule, TypeOK
<1>3. CASE StartLogin
  <2>1. used.login + 1 \in 1 .. MaxLogins
    BY <1>3, OAuthAssumption DEF StartLogin, TypeOK
  <2>2. <<"login", used.login + 1>> \in Proc
    BY <2>1, Kinds
  <2>3. used' \in [refresh : 0 .. MaxTimers, login : 0 .. MaxLogins,
                   logout : 0 .. MaxLogouts]
    BY <1>3, <2>1 DEF StartLogin, TypeOK
  <2>4. pc' \in [Proc -> Stages] /\ next' \in [Proc -> {"browser", "schedule", "done"}]
    BY <1>3, <2>2 DEF StartLogin, Tells, TypeOK, Stages
  <2> QED BY <1>3, <2>3, <2>4 DEF StartLogin, TypeOK
<1>4. CASE Logout
  <2>1. used.logout + 1 \in 1 .. MaxLogouts
    BY <1>4, OAuthAssumption DEF Logout, TypeOK
  <2>2. <<"logout", used.logout + 1>> \in Proc
    BY <2>1, Kinds
  <2>3. used' \in [refresh : 0 .. MaxTimers, login : 0 .. MaxLogins,
                   logout : 0 .. MaxLogouts]
    BY <1>4, <2>1 DEF Logout, TypeOK
  <2>4. pc' \in [Proc -> Stages]
    BY <1>4, <2>2, StoppedType DEF Logout, Stages
  <2>5. tok' \in [Proc -> Account \cup {None}] /\ loggedOut' \in BOOLEAN
    BY <1>4, <2>2 DEF Logout, TypeOK
  <2> QED BY <1>4, <2>3, <2>4, <2>5 DEF Logout, TypeOK
<1>5. CASE Restart
  <2>1. restarts' \in 0 .. MaxRestarts
    BY <1>5, OAuthAssumption DEF Restart, TypeOK
  <2>2. [p \in Proc |-> "done"] \in [Proc -> Stages]
    BY DEF Stages
  <2>3. /\ pc' \in [Proc -> Stages] /\ refreshTimer' \in Refreshes \cup {None}
        /\ used' \in [refresh : 0 .. MaxTimers, login : 0 .. MaxLogins,
                      logout : 0 .. MaxLogouts]
        /\ token' \in Account \cup {None} /\ cred' \in Account \cup {None}
    <3>1. CASE ArmTimer([p \in Proc |-> "done"]) /\ token' = cred /\ cred' = cred
      BY <2>2, <3>1, ArmedTimer DEF TypeOK
    <3>2. CASE /\ token' = None /\ cred' = None /\ refreshTimer' = None
               /\ pc' = [p \in Proc |-> "done"] /\ used' = used
      BY <2>2, <3>2 DEF TypeOK
    <3> QED BY <1>5, <3>1, <3>2 DEF Restart
  <2>4. shown' \in (Account \cup {None}) \X BOOLEAN
    BY <1>5, <2>3 DEF Restart
  <2> QED BY <1>5, <2>1, <2>3, <2>4 DEF Restart, TypeOK
<1> QED BY <1>1, <1>2, <1>3, <1>4, <1>5

-----------------------------------------------------------------------------
(* The other parts of the invariant.                                       *)

(* The steps of one goroutine without timers, for all the other parts.     *)
LEMMA StepRest ==
  ASSUME IInv, NEW p \in Proc,
         \/ TimerFires(p) \/ DropToken(p) \/ RefreshSucceeds(p)
         \/ LoginFails(p) \/ (\E a \in Account : LoginSucceeds(p, a))
         \/ SaveToken(p) \/ RecordAccount(p) \/ SetToken(p)
         \/ ClearCredential(p) \/ Deactivate(p)
         \/ TakeSnapshot(p) \/ PublishStatus(p)
  PROVE  HasToken' /\ Fresh' /\ FlowIsLogin' /\ OneLoginFlow' /\ RefreshPending'
<1>0. /\ pc \in [Proc -> Stages] /\ next \in [Proc -> {"browser", "schedule", "done"}]
      /\ tok \in [Proc -> Account \cup {None}] /\ used' = used
  BY DEF IInv, TypeOK, TimerFires, DropToken, RefreshSucceeds, LoginFails,
         LoginSucceeds, SaveToken, RecordAccount, SetToken, ClearCredential,
         Deactivate, TakeSnapshot, PublishStatus
<1>1. PICK s \in Stages, n \in {"browser", "schedule", "done"}, t \in Account \cup {None} :
        /\ pc' = [pc EXCEPT ![p] = s]
        /\ next' = [next EXCEPT ![p] = n]
        /\ tok' = [tok EXCEPT ![p] = t]
        \* what each step does, seen from its own goroutine
        /\ pc[p] \notin {"none", "done"}
        /\ s \in {"refreshing", "past", "got", "saved", "recorded"} => t # None
        /\ \/ /\ InFlow(p)                      \* stays in the flow
              /\ s = "browser" \/ (s = "publishing" /\ n = "browser")
              /\ inProgress' = inProgress /\ token' = token
           \/ /\ InFlow(p) /\ inProgress' = FALSE      \* leaves it
              /\ s = "got" \/ (s = "telling" /\ n = "done")
              /\ token' = token /\ pc[p] = "browser"
           \/ /\ ~InFlow(p)
              /\ s # "browser"
              /\ s \in {"telling", "publishing"} => n # "browser"
              /\ inProgress' = inProgress
              /\ \/ token' = None
                 \/ /\ token' = token
                    /\ token # None /\ Refreshing(p) =>
                         \/ s \in {"refreshing", "past", "got", "saved", "recorded",
                                   "schedule"}
                         \/ s = "publishing" /\ n = "schedule"
                 \/ s = "telling" /\ n = "schedule"
  <2> USE <1>0 DEF Stages, InFlow, Refreshing, Tells, IInv, TypeOK, HasToken
  <2>1. CASE TimerFires(p)
    <3>1. PICK s \in Afterwards : pc' = [pc EXCEPT ![p] = s]
      BY <2>1 DEF TimerFires
    <3>2. pc[p] = "armed" /\ s \in {"done", "refreshing", "past"}
      BY <2>1, <3>1 DEF TimerFires, Afterwards
    <3>3. /\ tok' = [tok EXCEPT ![p] = token] /\ next' = [next EXCEPT ![p] = next[p]]
          /\ UNCHANGED <<token, inProgress>> /\ token \in Account \cup {None}
      BY <2>1 DEF TimerFires
    <3>4. CASE token = None
      <4>1. s = "done"
        BY <3>1, <3>4 DEF Afterwards
      <4> QED BY <3>1, <3>2, <3>3, <3>4, <4>1
    <3>5. CASE token # None
      <4>1. s \in {"refreshing", "past"}
        BY <3>1, <3>5 DEF Afterwards
      <4> QED BY <3>1, <3>2, <3>3, <3>5, <4>1
    <3> QED BY <3>4, <3>5
  <2>2. CASE DropToken(p)
    BY <2>2 DEF DropToken
  <2>3. CASE RefreshSucceeds(p)
    BY <2>3 DEF RefreshSucceeds
  <2>4. CASE LoginFails(p)
    BY <2>4 DEF LoginFails, NotInProgress
  <2>5. CASE \E a \in Account : LoginSucceeds(p, a)
    <3>1. PICK a \in Account : LoginSucceeds(p, a)
      BY <2>5
    <3>2. /\ pc[p] = "browser" /\ pc' = [pc EXCEPT ![p] = "got"] /\ a # None
          /\ tok' = [tok EXCEPT ![p] = a] /\ next' = [next EXCEPT ![p] = next[p]]
          /\ inProgress' = FALSE /\ token' = token
      BY <3>1, OAuthAssumption DEF LoginSucceeds
    <3> QED BY <3>2
  <2>6. CASE SaveToken(p)
    BY <2>6 DEF SaveToken
  <2>7. CASE RecordAccount(p)
    BY <2>7 DEF RecordAccount
  <2>8. CASE SetToken(p)
    BY <2>8 DEF SetToken
  <2>9. CASE ClearCredential(p)
    BY <2>9 DEF ClearCredential
  <2>10. CASE Deactivate(p)
    BY <2>10 DEF Deactivate
  <2>11. CASE TakeSnapshot(p)
    BY <2>11 DEF TakeSnapshot
  <2>12. CASE PublishStatus(p)
    <3>1. /\ pc[p] = "publishing" /\ pc' = [pc EXCEPT ![p] = next[p]]
          /\ tok' = [tok EXCEPT ![p] = tok[p]] /\ next' = [next EXCEPT ![p] = next[p]]
          /\ UNCHANGED <<token, inProgress>>
          /\ next[p] \in {"browser", "schedule", "done"}
      BY <2>12 DEF PublishStatus
    <3>2. CASE next[p] = "browser"
      BY <3>1, <3>2
    <3>3. CASE next[p] = "schedule"
      <4>1. ~InFlow(p)
        BY <3>1, <3>3
      <4> QED BY <3>1, <3>3, <4>1
    <3>4. CASE next[p] = "done"
      <4>1. ~InFlow(p) /\ ~Refreshing(p)
        BY <3>1, <3>4
      <4> QED BY <3>1, <3>4, <4>1
    <3> QED BY <3>1, <3>2, <3>3, <3>4
  <2> QED BY <2>1, <2>2, <2>3, <2>4, <2>5, <2>6, <2>7, <2>8, <2>9, <2>10, <2>11, <2>12
<1>2. HasToken'
  BY <1>0, <1>1 DEF IInv, HasToken
<1>3. Fresh'
  BY <1>0, <1>1, Kinds DEF IInv, Fresh
<1>4. \A q \in Proc : q # p => (InFlow(q)' <=> InFlow(q)) /\ (Refreshing(q)' <=> Refreshing(q))
  BY <1>0, <1>1 DEF InFlow, Refreshing
<1>5. /\ InFlow(p)' <=> s = "browser" \/ (s \in {"telling", "publishing"} /\ n = "browser")
      /\ Refreshing(p)' <=>
           \/ s \in {"armed", "refreshing", "past", "got", "saved", "recorded", "schedule"}
           \/ s \in {"telling", "publishing"} /\ n = "schedule"
  BY <1>0, <1>1 DEF InFlow, Refreshing
<1>6. FlowIsLogin'
  BY <1>1, <1>4, <1>5 DEF IInv, FlowIsLogin
<1>7. OneLoginFlow'
  <2>1. \A q \in Proc : InFlow(q)' => InFlow(q)
    BY <1>1, <1>4, <1>5
  <2>2. \A q, r \in Logins : InFlow(q)' /\ InFlow(r)' => q = r
    BY <2>1, Kinds DEF IInv, OneLoginFlow
  <2>3. inProgress' <=> \E q \in Logins : InFlow(q)'
    <3>1. CASE InFlow(p) /\ inProgress' = inProgress
      BY <1>1, <1>4, <1>5, <3>1, <2>1, Kinds DEF IInv, OneLoginFlow
    <3>2. CASE InFlow(p) /\ inProgress' = FALSE /\ ~InFlow(p)'
      BY <1>4, <3>2, <2>1, Kinds DEF IInv, OneLoginFlow, FlowIsLogin
    <3>3. CASE ~InFlow(p) /\ inProgress' = inProgress
      BY <1>1, <1>4, <3>3, <2>1, Kinds DEF IInv, OneLoginFlow
    <3> QED BY <1>1, <1>5, <3>1, <3>2, <3>3
  <2> QED BY <2>2, <2>3 DEF OneLoginFlow
<1>8. RefreshPending'
  <2> SUFFICES ASSUME token' # None PROVE \E q \in Proc : Refreshing(q)'
    BY DEF RefreshPending
  <2>1. CASE s = "telling" /\ n = "schedule"
    BY <1>5, <2>1
  <2>2. CASE token' = token
    <3>1. PICK q \in Proc : Refreshing(q)
      BY <2>2 DEF IInv, RefreshPending
    <3>2. CASE q # p
      BY <1>4, <3>1, <3>2
    <3>3. CASE q = p
      <4>1. ~InFlow(p)
        BY <3>1, <3>3 DEF InFlow, Refreshing
      <4> QED BY <1>1, <1>5, <2>2, <3>1, <3>3, <4>1
    <3> QED BY <3>2, <3>3
  <2> QED BY <1>1, <2>1, <2>2
<1> QED BY <1>2, <1>3, <1>6, <1>7, <1>8

(* Arming a timer on behalf of p keeps the other parts.                    *)
LEMMA ArmRest ==
  ASSUME IInv, NEW p \in Proc, NEW others \in [Proc -> Stages], ArmTimer(others),
         pc[p] \in {"refreshing", "schedule"},
         others[p] = "done" \/ (others[p] = "telling" /\ next'[p] = "done"),
         \A q \in Proc \ {p} : /\ others[q] = pc[q] \/ (others[q] = "stopped" /\ pc[q] = "armed")
                               /\ next'[q] = next[q],
         UNCHANGED <<tok, inProgress, token>>
  PROVE  HasToken' /\ Fresh' /\ FlowIsLogin' /\ OneLoginFlow' /\ RefreshPending'
<1>1. /\ NewTimer \in Refreshes /\ pc'[NewTimer] = "armed"
      /\ \A q \in Proc : q # NewTimer => pc'[q] = others[q]
      /\ used'.login = used.login /\ used'.logout = used.logout
  BY ArmedTimer DEF IInv
<1>2. \A q \in Proc : pc'[q] \in {"armed", "stopped", "telling", "done"} \/ pc'[q] = pc[q]
  BY <1>1
<1>3. HasToken'
  BY <1>2 DEF IInv, HasToken
<1>4. \A q \in Logins \cup Logouts : q # p => pc'[q] = pc[q] \/ pc[q] = "armed"
  BY <1>1, Kinds
<1>5. Fresh'
  BY <1>1, <1>4, Kinds DEF IInv, Fresh
<1>6. ~InFlow(p) /\ ~InFlow(p)'
  BY <1>1 DEF InFlow
<1>7. \A q \in Proc : q # p => (InFlow(q)' => InFlow(q))
  BY <1>1 DEF InFlow
<1>8. \A q \in Logins : InFlow(q) => InFlow(q)'
  BY <1>1, <1>6, Kinds DEF InFlow
<1>9. FlowIsLogin'
  BY <1>6, <1>7 DEF IInv, FlowIsLogin
<1>10. OneLoginFlow'
  BY <1>6, <1>7, <1>8, Kinds DEF IInv, OneLoginFlow
<1>11. RefreshPending'
  BY <1>1, Kinds DEF RefreshPending, Refreshing
<1> QED BY <1>3, <1>5, <1>9, <1>10, <1>11

(* Starting a login, logging out and restarting keep the other parts.      *)
LEMMA LifecycleRest ==
  ASSUME IInv, StartLogin \/ Logout \/ Restart
  PROVE  HasToken' /\ Fresh' /\ FlowIsLogin' /\ OneLoginFlow' /\ RefreshPending'
<1>1. CASE StartLogin
  <2> DEFINE l == <<"login", used.login + 1>>
  <2>1. used.login \in Nat /\ used.login + 1 \in 1 .. MaxLogins
    BY <1>1, OAuthAssumption DEF StartLogin, IInv, TypeOK
  <2>2. l \in Logins /\ l \in Proc
    BY <2>1, Kinds
  <2>3. /\ pc' = [pc EXCEPT ![l] = "telling"] /\ next' = [next EXCEPT ![l] = "browser"]
        /\ ~inProgress /\ inProgress' = TRUE /\ UNCHANGED <<token, tok>>
        /\ used'.login = used.login + 1 /\ used'.logout = used.logout
    BY <1>1 DEF StartLogin, Tells, MayStart, IInv, TypeOK
  <2>4. pc \in [Proc -> Stages] /\ next \in [Proc -> {"browser", "schedule", "done"}]
    BY DEF IInv, TypeOK
  <2>5. pc[l] \in {"none", "done"}
    BY <2>1 DEF IInv, Fresh
  <2> HIDE DEF l
  <2>6. HasToken'
    BY <2>2, <2>3, <2>4 DEF IInv, HasToken
  <2>7. Fresh'
    <3>1. \A n \in 1 .. MaxLogins : n > used.login + 1 => <<"login", n>> # l
      BY <2>1 DEF l
    <3>2. \A n \in 1 .. MaxLogouts : <<"logout", n>> # l
      BY <2>2, Kinds
    <3>3. \A q \in Proc : q # l => pc'[q] = pc[q]
      BY <2>2, <2>3, <2>4
    <3> QED BY <2>1, <2>3, <3>1, <3>2, <3>3, Kinds DEF IInv, Fresh
  <2>8. /\ pc'[l] = "telling" /\ next'[l] = "browser"
        /\ \A q \in Proc : q # l => pc'[q] = pc[q] /\ next'[q] = next[q]
    BY <2>2, <2>3, <2>4
  <2>9. \A q \in Proc : ~InFlow(q)
    BY <2>3 DEF IInv, OneLoginFlow, FlowIsLogin
  <2>10. FlowIsLogin' /\ OneLoginFlow'
    <3>1. \A q \in Proc : q # l => ~InFlow(q)'
      <4> SUFFICES ASSUME NEW q \in Proc, q # l PROVE ~InFlow(q)'
        OBVIOUS
      <4>1. pc'[q] = pc[q] /\ next'[q] = next[q] /\ ~InFlow(q)
        BY <2>8, <2>9
      <4> QED BY <4>1 DEF InFlow
    <3>2. FlowIsLogin'
      <4> SUFFICES ASSUME NEW q \in Proc, InFlow(q)' PROVE q \in Logins'
        BY DEF FlowIsLogin
      <4>1. q = l
        BY <3>1
      <4> QED BY <2>2, <4>1 DEF Logins
    <3>3. \A q \in Logins : q = l => InFlow(q)'
      BY <2>8 DEF InFlow
    <3>4. \A q, r \in Logins : InFlow(q)' /\ InFlow(r)' => q = r
      <4>1. \A q \in Logins : q \in Proc
        BY Kinds
      <4> QED BY <3>1, <4>1
    <3>5. OneLoginFlow'
      <4>1. \E q \in Logins : InFlow(q)'
        BY <2>2, <3>3
      <4> QED BY <2>3, <3>4, <4>1 DEF OneLoginFlow, Logins
    <3> QED BY <3>2, <3>5
  <2>11. RefreshPending'
    BY <2>3, <2>5, <2>8 DEF IInv, RefreshPending, Refreshing
  <2> QED BY <2>6, <2>7, <2>10, <2>11
<1>2. CASE Logout
  <2> DEFINE o == <<"logout", used.logout + 1>>
  <2>1. used.logout \in Nat /\ used.logout + 1 \in 1 .. MaxLogouts
    BY <1>2, OAuthAssumption DEF Logout, IInv, TypeOK
  <2>2. o \in Logouts /\ o \in Proc /\ o \notin Logins
    BY <2>1, Kinds
  <2>3. /\ pc' = [Stopped EXCEPT ![o] = "clearing"] /\ token' = None
        /\ tok' = [tok EXCEPT ![o] = token] /\ UNCHANGED <<inProgress, next>>
        /\ used'.login = used.login /\ used'.logout = used.logout + 1
    BY <1>2 DEF Logout, IInv, TypeOK
  <2>4. /\ Stopped \in [Proc -> Stages] /\ pc \in [Proc -> Stages]
        /\ tok \in [Proc -> Account \cup {None}]
        /\ \A q \in Proc : Stopped[q] = pc[q] \/ (pc[q] = "armed" /\ Stopped[q] = "stopped")
    BY StoppedType DEF IInv, TypeOK
  <2>5. pc[o] \in {"none", "done"}
    BY <2>1 DEF IInv, Fresh
  <2> HIDE DEF o
  <2>6. \A q \in Proc : q # o => \/ pc'[q] = pc[q]
                                 \/ pc[q] = "armed" /\ pc'[q] = "stopped"
    BY <2>2, <2>3, <2>4
  <2>7. pc'[o] = "clearing"
    BY <2>2, <2>3, <2>4
  <2>8. HasToken'
    BY <2>2, <2>3, <2>4, <2>6, <2>7 DEF IInv, HasToken
  <2>9. Fresh'
    <3>1. \A n \in 1 .. MaxLogouts : n > used.logout + 1 => <<"logout", n>> # o
      BY <2>1 DEF o
    <3>2. \A n \in 1 .. MaxLogins : <<"login", n>> # o
      BY <2>2, Kinds
    <3> QED BY <2>1, <2>3, <2>6, <3>1, <3>2, Kinds DEF IInv, Fresh
  <2>10. \A q \in Proc : InFlow(q)' <=> InFlow(q)
    BY <2>3, <2>5, <2>6, <2>7 DEF InFlow
  <2>11. FlowIsLogin' /\ OneLoginFlow'
    BY <2>3, <2>10, Kinds DEF IInv, FlowIsLogin, OneLoginFlow
  <2>12. RefreshPending'
    BY <2>3 DEF RefreshPending
  <2> QED BY <2>8, <2>9, <2>11, <2>12
<1>3. CASE Restart
  <2> DEFINE others == [p \in Proc |-> "done"]
  <2>1. \/ token' # None /\ ArmTimer(others)
        \/ token' = None /\ pc' = others /\ used' = used
    BY <1>3 DEF Restart
  <2>2. others \in [Proc -> Stages]
    BY DEF Stages
  <2> HIDE DEF others
  <2>3. /\ \A q \in Proc : pc'[q] \in {"armed", "done"}
        /\ \A q \in Proc \ Refreshes : pc'[q] = "done"
        /\ token' # None => \E q \in Proc : pc'[q] = "armed"
    <3>1. CASE token' # None /\ ArmTimer(others)
      <4>1. /\ NewTimer \in Refreshes /\ pc'[NewTimer] = "armed"
            /\ \A q \in Proc : q # NewTimer => pc'[q] = others[q]
        BY <2>2, <3>1, ArmedTimer DEF IInv
      <4> QED BY <4>1, Kinds DEF others
    <3>2. CASE token' = None /\ pc' = others
      BY <3>2 DEF others
    <3> QED BY <2>1, <3>1, <3>2
  <2>4. HasToken' /\ FlowIsLogin'
    BY <2>3 DEF HasToken, FlowIsLogin, InFlow
  <2>5. Fresh'
    BY <2>3, Kinds DEF Fresh
  <2>6. OneLoginFlow'
    BY <1>3, <2>3, Kinds DEF Restart, OneLoginFlow, InFlow
  <2>7. RefreshPending'
    BY <2>3 DEF RefreshPending, Refreshing
  <2> QED BY <2>4, <2>5, <2>6, <2>7
<1> QED BY <1>1, <1>2, <1>3

(* Every step preserves the invariant.                                     *)
LEMMA NextIInv == IInv /\ [Next]_vars => IInv'
<1> SUFFICES ASSUME IInv, [Next]_vars PROVE IInv'
  OBVIOUS
<1>1. CASE UNCHANGED vars
  BY <1>1 DEF vars, IInv, TypeOK, HasToken, Fresh, FlowIsLogin, OneLoginFlow,
              RefreshPending, InFlow, Refreshing
<1>2. ASSUME NEW p \in Proc, RefreshFails(p) PROVE IInv'
  <2> DEFINE others == [pc EXCEPT ![p] = "telling"]
  <2>1. ArmTimer(others) /\ UNCHANGED <<tok, inProgress, token>>
        /\ next' = [next EXCEPT ![p] = "done"] /\ pc[p] = "refreshing"
    BY <1>2 DEF RefreshFails, Retry
  <2>2. others \in [Proc -> Stages]
    BY DEF IInv, TypeOK, Stages
  <2>3. HasToken' /\ Fresh' /\ FlowIsLogin' /\ OneLoginFlow' /\ RefreshPending'
    <3>1. /\ others[p] = "telling" /\ next'[p] = "done"
          /\ \A q \in Proc \ {p} : others[q] = pc[q] /\ next'[q] = next[q]
      BY <2>1 DEF IInv, TypeOK
    <3>2. /\ pc[p] \in {"refreshing", "schedule"}
          /\ others[p] = "done" \/ (others[p] = "telling" /\ next'[p] = "done")
          /\ \A q \in Proc \ {p} :
               /\ others[q] = pc[q] \/ (others[q] = "stopped" /\ pc[q] = "armed")
               /\ next'[q] = next[q]
      BY <2>1, <3>1
    <3>3. ArmTimer(others) /\ UNCHANGED <<tok, inProgress, token>>
      BY <2>1
    <3> HIDE DEF others
    <3> QED BY <2>2, <3>2, <3>3, ArmRest
  <2> QED BY <1>2, <2>3, TimerType DEF IInv
<1>3. ASSUME NEW p \in Proc, Schedule(p) PROVE IInv'
  <2> DEFINE others == [Stopped EXCEPT ![p] = "done"]
  <2>1. ArmTimer(others) /\ UNCHANGED <<tok, inProgress, token, next>>
        /\ pc[p] = "schedule"
    BY <1>3 DEF Schedule
  <2>2. Stopped \in [Proc -> Stages] /\ others \in [Proc -> Stages]
    BY StoppedType DEF IInv, Stages
  <2>3. HasToken' /\ Fresh' /\ FlowIsLogin' /\ OneLoginFlow' /\ RefreshPending'
    <3>1. others[p] = "done" /\ \A q \in Proc \ {p} : others[q] = Stopped[q]
      BY <2>2
    <3>2. \A q \in Proc : Stopped[q] = pc[q] \/ (pc[q] = "armed" /\ Stopped[q] = "stopped")
      BY StoppedType DEF IInv
    <3>3. /\ pc[p] \in {"refreshing", "schedule"}
          /\ others[p] = "done" \/ (others[p] = "telling" /\ next'[p] = "done")
          /\ \A q \in Proc \ {p} :
               /\ others[q] = pc[q] \/ (others[q] = "stopped" /\ pc[q] = "armed")
               /\ next'[q] = next[q]
      BY <2>1, <3>1, <3>2
    <3>4. ArmTimer(others) /\ UNCHANGED <<tok, inProgress, token>>
      BY <2>1
    <3> HIDE DEF others
    <3> QED BY <2>2, <3>3, <3>4, ArmRest
  <2> QED BY <1>3, <2>3, TimerType DEF IInv
<1>4. ASSUME NEW p \in Proc,
             \/ TimerFires(p) \/ DropToken(p) \/ RefreshSucceeds(p) \/ LoginNext(p)
             \/ SaveToken(p) \/ RecordAccount(p) \/ SetToken(p)
             \/ ClearCredential(p) \/ Deactivate(p)
             \/ TakeSnapshot(p) \/ PublishStatus(p)
      PROVE IInv'
  BY <1>4, StepType, StepRest DEF IInv, LoginNext
<1>5. CASE StartLogin \/ Logout \/ Restart
  BY <1>5, TimerType, LifecycleRest DEF IInv
<1> QED BY <1>1, <1>2, <1>3, <1>4, <1>5 DEF Next, RefreshNext, LoginNext, Finishes

(* The inductive invariant holds throughout.                               *)
THEOREM Invariant == Spec => []IInv
BY InitIInv, NextIInv, PTL DEF Spec

(* Every variable keeps its type.                                          *)
THEOREM TypeCorrect == Spec => []TypeOK
<1>1. IInv => TypeOK BY DEF IInv
<1> QED BY <1>1, Invariant, PTL

(* There is never more than one login flow, and inProgress tells of it.    *)
THEOREM LoginExclusive == Spec => []OneLoginFlow
<1>1. IInv => OneLoginFlow BY DEF IInv
<1> QED BY <1>1, Invariant, PTL

(* A token in memory always has a refresh scheduled or running.            *)
THEOREM TokenRenewed == Spec => []RefreshPending
<1>1. IInv => RefreshPending BY DEF IInv
<1> QED BY <1>1, Invariant, PTL
=============================================================================
