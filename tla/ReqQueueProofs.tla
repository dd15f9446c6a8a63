--------------------------- MODULE ReqQueueProofs ---------------------------
(***************************************************************************)
(* Theorems about ReqQueue, for every value of its constants: the types,   *)
(* de-duplication, the in-flight gate, and that the queue implements the   *)
(* abstract TaskService.                                                   *)
(***************************************************************************)
EXTENDS ReqQueue, TLAPS, WellFoundedInduction

(* Every non-empty set of naturals has a least element.                    *)
LEMMA LeastElement ==
  ASSUME NEW S, S \subseteq Nat, S # {}
  PROVE  \E m \in S : \A n \in S : m <= n
<1> DEFINE R == OpToRel(<, Nat)
<1>1. IsWellFoundedOn(R, Nat)
  BY NatLessThanWellFounded
<1>2. \A m, n \in Nat : n < m => <<n, m>> \in R
  BY DEF OpToRel
<1> HIDE DEF R
<1>3. PICK m \in S : \A n \in S : ~ (<<n, m>> \in R)
  BY <1>1, WFMin
<1>4. \A n \in S : ~ (n < m)
  BY <1>2, <1>3, Zenon
<1> QED BY <1>4

LEMMA MinOfNaturals ==
  ASSUME NEW S, S \subseteq Nat, S # {}
  PROVE  Min(S) \in S
BY LeastElement DEF Min

(* A non-empty set of naturals with an upper bound has a greatest element: *)
(* the least of its upper bounds, which the predecessor of it is not.      *)
LEMMA MaxOfNaturals ==
  ASSUME NEW S, S # {}, NEW b \in Nat, S \subseteq 0 .. b
  PROVE  Max(S) \in S
<1> DEFINE Bounds == {n \in Nat : \A s \in S : s <= n}
<1>1. PICK m \in Bounds : \A n \in Bounds : m <= n
  <2>1. b \in Bounds /\ Bounds \subseteq Nat
    OBVIOUS
  <2> HIDE DEF Bounds
  <2> QED BY <2>1, LeastElement
<1>2. m \in S
  <2>1. SUFFICES ASSUME m \notin S PROVE FALSE
    OBVIOUS
  <2>2. \A s \in S : s <= m - 1 /\ m - 1 \in Nat
    BY <2>1
  <2>3. m - 1 \in Bounds
    BY <2>2
  <2> QED BY <2>3, <1>1
<1> QED BY <1>1, <1>2 DEF Max

(* computeDelay is a natural number, whatever rules a response carries. *)
LEMMA ComputeDelayType ==
  ASSUME NEW rules \in RuleSet
  PROVE  computeDelay(rules) \in Nat
<1> DEFINE waits == {rule.period : rule \in {r \in rules : Saturated(r)}}
<1>1. waits \subseteq 0 .. MaxPeriod
  BY QueueAssumption
<1>2. CASE waits = {}
  BY <1>2 DEF computeDelay
<1>3. CASE waits # {}
  <2>1. Max(waits) \in waits
    BY <1>1, <1>3, QueueAssumption, MaxOfNaturals
  <2> QED BY <2>1, <1>1, QueueAssumption DEF computeDelay
<1> QED BY <1>2, <1>3

-----------------------------------------------------------------------------
(* Types.                                                                  *)

LEMMA PolicyWaitType ==
  ASSUME TypeOK, NEW h \in Hint \cup {NoHint}
  PROVE  policyWait(h) \in Nat
BY QueueAssumption DEF TypeOK, policyWait, Gate, Name

USE DEF Id, Stage, Dispatching, Known, Cancellable, Mark, Unmark, signal

LEMMA InitTypeOK == Init => TypeOK
<1> SUFFICES ASSUME Init PROVE TypeOK
  OBVIOUS
<1> USE QueueAssumption DEF Init
<1>1. issued \in 0 .. MaxTasks
  OBVIOUS
<1>2. task \in [Id -> [key : Key \cup {None}, hint : Hint \cup {NoHint, None},
                      priority : Nat]]
  OBVIOUS
<1>3. stage \in [Id -> Stage] /\ reply \in [Id -> Report \cup {None}]
  OBVIOUS
<1>4. byKey \in [Key -> Id \cup {None}] /\ pending \in SUBSET Id
  OBVIOUS
<1>5. nextAllowed \in [Name -> Nat]
  OBVIOUS
<1>6. hintPolicy \in [Hint -> Policy \cup {NoPolicy}] /\ inFlight \in SUBSET Hint
  OBVIOUS
<1>7. /\ wake \in BOOLEAN /\ ctxDone \in BOOLEAN
      /\ loop \in {"picking", "sleeping", "stopped"}
      /\ timer \in Nat \cup {Idle}
  OBVIOUS
<1> QED BY <1>1, <1>2, <1>3, <1>4, <1>5, <1>6, <1>7 DEF TypeOK

(* The inductive invariant.  The code keeps one fact in several places: a  *)
(* task is queued in its goroutine-less stage and in pending, unfinished   *)
(* in its stage and in byKey, dispatching in its stage and in inFlight.    *)
(* De-duplication and the in-flight gate are consequences of those places  *)
(* agreeing, so their agreement is what is proved.                         *)
IdsInOrder == \A t \in Id : stage[t] = "absent" <=> t > issued

PendingQueued == pending = {t \in Id : stage[t] = "queued"}

Submitted ==
  \A t \in Id : stage[t] # "absent" =>
    task[t].key \in Key /\ task[t].hint \in Hint \cup {NoHint}

ByKeyUnfinished ==
  /\ \A k \in Key : byKey[k] # None =>
       Unfinished(byKey[k]) /\ task[byKey[k]].key = k
  /\ \A t \in Id : Unfinished(t) => byKey[task[t].key] = t

MarkedInFlight ==
  \A t \in Id :
    stage[t] \in Dispatching /\ task[t].hint # NoHint => task[t].hint \in inFlight

IInv ==
  /\ TypeOK
  /\ IdsInOrder
  /\ PendingQueued
  /\ Submitted
  /\ ByKeyUnfinished
  /\ MarkedInFlight
  /\ SerialPerHint

LEMMA WaitsType == ASSUME IInv PROVE Waits \subseteq Nat
<1>1. \A t \in pending : task[t].hint \in Hint \cup {NoHint}
  BY DEF IInv, PendingQueued, Submitted
<1>2. \A h \in Hint \cup {NoHint} : policyWait(h) \in Nat
  BY PolicyWaitType DEF IInv
<1> QED BY <1>1, <1>2 DEF Waits

(* Changing the priority of a task record leaves it a task record. *)
LEMMA PriorityChangeType ==
  ASSUME NEW K, NEW H, NEW r \in [key : K, hint : H, priority : Nat], NEW p \in Nat
  PROVE  [r EXCEPT !.priority = p] \in [key : K, hint : H, priority : Nat]
OBVIOUS

(* The type invariant is preserved by every step. *)
LEMMA NextTypeOK == ASSUME IInv, [Next]_vars PROVE TypeOK'
<1> USE QueueAssumption DEF TypeOK, IInv
<1>1. ASSUME NEW k \in Key, NEW h \in Hint \cup {NoHint}, NEW p \in Priority, SubmitNew(k, h, p)
      PROVE  TypeOK'
  BY <1>1 DEF SubmitNew
<1>2. ASSUME NEW k \in Key, NEW p \in Priority, SubmitMerge(k, p) \/ SetPriority(k, p)
      PROVE  TypeOK'
  <2>1. PICK e \in Id : byKey[k] = e
    BY <1>2 DEF SubmitMerge, SetPriority
  <2>2. task' = [task EXCEPT ![e] = [task[e] EXCEPT !.priority = p]]
    BY <1>2, <2>1 DEF SubmitMerge, SetPriority
  <2>3. task' \in [Id -> [key : Key \cup {None}, hint : Hint \cup {NoHint, None},
                         priority : Nat]]
    <3> DEFINE Rec == [key : Key \cup {None}, hint : Hint \cup {NoHint, None},
                       priority : Nat]
    <3>1. task \in [Id -> Rec] /\ p \in Nat
      OBVIOUS
    <3>2. [task[e] EXCEPT !.priority = p] \in Rec
      BY <3>1, PriorityChangeType
    <3> HIDE DEF Rec
    <3>3. task' \in [Id -> Rec]
      BY <3>1, <3>2, <2>2
    <3> QED BY <3>3 DEF Rec
  <2>4. wake' \in BOOLEAN
    BY <1>2 DEF SubmitMerge, SetPriority
  <2> QED BY <1>2, <2>3, <2>4 DEF SubmitMerge, SetPriority
<1>3. ASSUME NEW k \in Key, Cancel(k) PROVE TypeOK'
  BY <1>3 DEF Cancel
<1>4. ASSUME NEW t \in Id, PickNext(t) PROVE TypeOK'
  BY <1>4 DEF PickNext, PendingQueued, Submitted
<1>5. ASSUME Sleep PROVE TypeOK'
  <2>1. timer' \in Nat \cup {Idle}
    BY <1>5, WaitsType, MinOfNaturals DEF Sleep
  <2> QED BY <1>5, <2>1 DEF Sleep
<1>6. ASSUME WakeUp \/ TimerFires \/ IdleHourPasses \/ StopLoop \/ CancelContext
      PROVE  TypeOK'
  BY <1>6 DEF WakeUp, TimerFires, IdleHourPasses, StopLoop, CancelContext
<1>7. ASSUME NEW t \in Id, ExecReturns(t) PROVE TypeOK'
  <2>1. task[t].hint \in Hint \cup {NoHint}
    BY <1>7 DEF ExecReturns, Submitted
  <2>2. reply' \in [Id -> Report \cup {None}]
    BY <1>7, <2>1 DEF ExecReturns, Report, ApiPolicies
  <2> QED BY <1>7, <2>2 DEF ExecReturns
<1>8. ASSUME NEW t \in Id, Learn(t) PROVE TypeOK'
  <2>1. reply[t].policy \in Policy /\ reply[t].rules \in RuleSet
    BY <1>8 DEF Learn, Report
  <2>2. computeDelay(reply[t].rules) \in Nat
    BY <2>1, ComputeDelayType
  <2>3. nextAllowed' \in [Name -> Nat] /\ hintPolicy' \in [Hint -> Policy \cup {NoPolicy}]
    BY <1>8, <2>1, <2>2 DEF Learn, Name
  <2> QED BY <1>8, <2>3 DEF Learn
<1>9. ASSUME NEW t \in Id, Release(t) \/ Finish(t) PROVE TypeOK'
  BY <1>9 DEF Release, Finish
<1>10. ASSUME Tick PROVE TypeOK'
  <2>1. nextAllowed' \in [Name -> Nat] /\ timer' \in Nat \cup {Idle}
    BY <1>10 DEF Tick
  <2> QED BY <1>10, <2>1 DEF Tick
<1>11. ASSUME UNCHANGED vars PROVE TypeOK'
  BY <1>11 DEF vars
<1> QED
  BY <1>1, <1>2, <1>3, <1>4, <1>5, <1>6, <1>7, <1>8, <1>9, <1>10, <1>11
  DEF Next, CallerNext, LoopNext, DispatchNext

(* Every step keeps the places in agreement. *)
LEMMA NextIInv == ASSUME IInv, [Next]_vars PROVE IInv'
<1> USE QueueAssumption DEF IInv, IdsInOrder, PendingQueued, Submitted,
        ByKeyUnfinished, MarkedInFlight, SerialPerHint, Unfinished
<1>0. TypeOK'
  BY NextTypeOK
<1>t. TypeOK
  OBVIOUS
<1> USE DEF TypeOK
<1>1. ASSUME NEW k \in Key, NEW h \in Hint \cup {NoHint}, NEW p \in Priority, SubmitNew(k, h, p)
      PROVE  IInv'
  <2> DEFINE t == issued + 1
  <2>1. /\ byKey[k] = None
        /\ t \in Id
        /\ issued' = t
        /\ task' = [task EXCEPT ![t] = [key |-> k, hint |-> h, priority |-> p]]
        /\ stage' = [stage EXCEPT ![t] = "queued"]
        /\ byKey' = [byKey EXCEPT ![k] = t]
        /\ pending' = pending \cup {t}
        /\ UNCHANGED inFlight
    BY <1>1 DEF SubmitNew
  <2>2. IdsInOrder' /\ PendingQueued'
    BY <2>1
  <2>3. Submitted'
    BY <2>1
  <2>4. MarkedInFlight' /\ SerialPerHint'
    BY <2>1
  <2>5. ByKeyUnfinished'
    BY <2>1
  <2> QED BY <1>0, <2>2, <2>3, <2>4, <2>5
<1>2. ASSUME NEW k \in Key, NEW p \in Priority, SubmitMerge(k, p) \/ SetPriority(k, p)
      PROVE  IInv'
  <2>e. PICK e \in Id : byKey[k] = e
    BY <1>2 DEF SubmitMerge, SetPriority
  <2>p. task' = [task EXCEPT ![e] = [task[e] EXCEPT !.priority = p]]
    BY <1>2, <2>e DEF SubmitMerge, SetPriority
  <2>1. \A t \in Id : task'[t].key = task[t].key /\ task'[t].hint = task[t].hint
    BY <2>p
  <2>2. UNCHANGED <<issued, stage, byKey, pending, inFlight>>
    BY <1>2 DEF SubmitMerge, SetPriority
  <2> QED BY <1>0, <2>1, <2>2
<1>3. ASSUME NEW k \in Key, Cancel(k) PROVE IInv'
  <2>1. PICK t \in pending :
          /\ task[t].key = k
          /\ pending' = pending \ {t}
          /\ byKey' = [byKey EXCEPT ![k] = None]
          /\ stage' = [stage EXCEPT ![t] = "cancelled"]
    BY <1>3 DEF Cancel
  <2>2. UNCHANGED <<issued, task, inFlight>>
    BY <1>3 DEF Cancel
  <2>3. IdsInOrder' /\ PendingQueued'
    BY <2>1, <2>2
  <2>4. Submitted' /\ MarkedInFlight' /\ SerialPerHint'
    BY <2>1, <2>2
  <2>5. ByKeyUnfinished'
    BY <2>1, <2>2
  <2> QED BY <1>0, <2>3, <2>4, <2>5
<1>4. ASSUME NEW t \in Id, PickNext(t) PROVE IInv'
  <2>1. /\ t \in pending /\ task[t].hint \notin inFlight
        /\ pending' = pending \ {t}
        /\ inFlight' = Mark(task[t].hint)
        /\ stage' = [stage EXCEPT ![t] = "executing"]
        /\ UNCHANGED <<issued, task, byKey>>
    BY <1>4 DEF PickNext, Ready
  <2>2. IdsInOrder' /\ PendingQueued' /\ Submitted'
    BY <2>1
  <2>3. MarkedInFlight' /\ SerialPerHint'
    BY <2>1
  <2>4. ByKeyUnfinished'
    BY <2>1
  <2> QED BY <1>0, <2>2, <2>3, <2>4
<1>5. ASSUME \/ Sleep \/ WakeUp \/ TimerFires \/ IdleHourPasses \/ StopLoop
             \/ CancelContext \/ Tick \/ UNCHANGED vars
      PROVE  IInv'
  BY <1>0, <1>5 DEF Sleep, WakeUp, TimerFires, IdleHourPasses, StopLoop,
                    CancelContext, Tick, vars
<1>6. ASSUME NEW t \in Id, ExecReturns(t) \/ Learn(t) \/ Finish(t) PROVE IInv'
  <2>1. /\ UNCHANGED <<issued, task, byKey, pending, inFlight>>
        /\ \/ stage[t] = "executing" /\ stage' = [stage EXCEPT ![t] = "replied"]
           \/ stage[t] = "replied" /\ stage' = [stage EXCEPT ![t] = "learned"]
           \/ stage[t] = "released" /\ stage' = [stage EXCEPT ![t] = "done"]
    BY <1>6 DEF ExecReturns, Learn, Finish
  <2>2. IdsInOrder' /\ PendingQueued' /\ Submitted'
    BY <2>1
  <2>m. MarkedInFlight' /\ SerialPerHint'
    <3>1. \A u \in Id : stage'[u] \in Dispatching => stage[u] \in Dispatching
      BY <2>1
    <3>2. UNCHANGED <<task, inFlight>> /\ MarkedInFlight /\ SerialPerHint
      BY <2>1
    <3> QED BY <3>1, <3>2 DEF MarkedInFlight, SerialPerHint
  <2>3. ByKeyUnfinished'
    <3>1. \A u \in Id : Unfinished(u)' <=> Unfinished(u)
      BY <2>1
    <3>2. UNCHANGED <<task, byKey>> /\ ByKeyUnfinished
      BY <2>1
    <3>3. \A k \in Key : byKey[k] # None => byKey[k] \in Id
      OBVIOUS
    <3>4. \A k \in Key : byKey'[k] # None =>
            Unfinished(byKey[k])' /\ task'[byKey'[k]].key = k
      BY <2>1, <3>1, <3>2, <3>3
    <3> QED BY <3>1, <3>2, <3>4
  <2> QED BY <1>0, <2>2, <2>m, <2>3
<1>7. ASSUME NEW t \in Id, Release(t) PROVE IInv'
  <2>1. /\ stage[t] \in Dispatching
        /\ stage' = [stage EXCEPT ![t] = "released"]
        /\ byKey' = [byKey EXCEPT ![task[t].key] = None]
        /\ inFlight' = inFlight \ {task[t].hint}
        /\ UNCHANGED <<issued, task, pending>>
    BY <1>7 DEF Release
  <2>2. IdsInOrder' /\ PendingQueued' /\ Submitted'
    BY <2>1
  <2>s. SerialPerHint'
    BY <2>1
  <2>3. MarkedInFlight'
    BY <2>1
  <2>4. \A u \in Id : Unfinished(u)' => Unfinished(u) /\ u # t
    BY <2>1
  <2>5. task[t].key \in Key /\ byKey[task[t].key] = t
    BY <2>1
  <2>6. ByKeyUnfinished'
    <3>1. \A k \in Key : byKey'[k] # None =>
            Unfinished(byKey[k])' /\ task'[byKey'[k]].key = k
      BY <2>1, <2>5
    <3>2. \A u \in Id : Unfinished(u)' => byKey'[task'[u].key] = u
      BY <2>1, <2>4, <2>5
    <3> QED BY <3>1, <3>2
  <2> QED BY <1>0, <2>2, <2>s, <2>3, <2>6
<1> QED
  BY <1>1, <1>2, <1>3, <1>4, <1>5, <1>6, <1>7
  DEF Next, CallerNext, LoopNext, DispatchNext

(* The inductive invariant holds in every reachable state. *)
THEOREM Invariant == Spec => []IInv
<1>1. Init => IInv
  <2> SUFFICES ASSUME Init PROVE IInv
    OBVIOUS
  <2>1. TypeOK
    BY InitTypeOK
  <2>2. /\ IdsInOrder /\ PendingQueued /\ Submitted /\ ByKeyUnfinished
        /\ MarkedInFlight /\ SerialPerHint
    BY QueueAssumption DEF Init, IdsInOrder, PendingQueued, Submitted,
       ByKeyUnfinished, MarkedInFlight, SerialPerHint, Unfinished
  <2> QED BY <2>1, <2>2 DEF IInv
<1>2. IInv /\ [Next]_vars => IInv'
  BY NextIInv
<1> QED BY <1>1, <1>2, PTL DEF Spec

(* Every variable of the queue keeps its type. *)
THEOREM TypeCorrect == Spec => []TypeOK
<1>1. IInv => TypeOK
  BY DEF IInv
<1> QED BY <1>1, Invariant, PTL

(* Two tasks neither of which has completed never carry the same key, and  *)
(* byKey finds each of them, so a merging Submit always hands back a       *)
(* waiter on the one task that will complete.                              *)
THEOREM Deduplication == Spec => []OneTaskPerKey
<1>1. IInv => OneTaskPerKey
  BY DEF IInv, OneTaskPerKey, ByKeyUnfinished
<1> QED BY <1>1, Invariant, PTL

(* Two dispatches under one non-empty hint never overlap. *)
THEOREM HintSerial == Spec => []SerialPerHint
<1>1. IInv => SerialPerHint
  BY DEF IInv
<1> QED BY <1>1, Invariant, PTL

-----------------------------------------------------------------------------
(* What a step may never do.                                               *)

(* pickNext takes the task that precedes every other ready one, and tasks  *)
(* with one hint are ready together: the later of two is taken first only  *)
(* with a strictly higher priority.                                        *)
THEOREM FifoPerHint == Spec => FifoWithinHint
<1>1. ASSUME IInv, [Next]_vars, NEW t \in Id, NEW u \in Id,
             stage[t] = "queued", stage'[t] = "executing",
             u \in pending, u < t, task[u].hint = task[t].hint
      PROVE  task[t].priority > task[u].priority
  <2>1. PickNext(t)
    <3> USE DEF IInv, TypeOK
    <3>1. ASSUME NEW e \in Id, PickNext(e) PROVE e = t
      BY <1>1, <3>1 DEF PickNext
    <3>2. ASSUME NEW e \in Id, DispatchNext(e) PROVE FALSE
      BY <1>1, <3>2 DEF DispatchNext, ExecReturns, Learn, Release, Finish
    <3>3. ASSUME CallerNext PROVE FALSE
      BY <1>1, <3>3, QueueAssumption
      DEF CallerNext, SubmitNew, SubmitMerge, SetPriority, Cancel, CancelContext
    <3>4. ASSUME Sleep \/ WakeUp \/ TimerFires \/ IdleHourPasses \/ StopLoop \/ Tick \/ UNCHANGED vars
          PROVE  FALSE
      BY <1>1, <3>4 DEF Sleep, WakeUp, TimerFires, IdleHourPasses, StopLoop, Tick, vars
    <3> QED BY <1>1, <3>1, <3>2, <3>3, <3>4 DEF Next, LoopNext
  <2>2. Ready(t) /\ \A e \in pending : Ready(e) => t = e \/ Precedes(t, e)
    BY <2>1 DEF PickNext
  <2>3. Precedes(t, u)
    BY <1>1, <2>2 DEF Ready
  <2> QED BY <1>1, <2>3 DEF Precedes
<1>2. IInv /\ [Next]_vars =>
        [\A t, u \in Id :
           /\ stage[t] = "queued" /\ stage'[t] = "executing"
           /\ u \in pending /\ u < t /\ task[u].hint = task[t].hint
           => task[t].priority > task[u].priority]_vars
  BY <1>1
<1> QED BY <1>2, Invariant, PTL DEF Spec, FifoWithinHint

(* A reply names a policy of the task's hint.  While a policy that one     *)
(* hint has for itself imposes a pause, that hint is gated by it and no    *)
(* request under the hint is out: none can bring a new state of it.        *)
Replies ==
  \A t \in Id : stage[t] = "replied" /\ reply[t] # None =>
    reply[t].policy \in PolicyOf[task[t].hint]

Only(h, p) == \A g \in Hint \cup {NoHint} : p \in PolicyOf[g] => g = h

Paused ==
  \A h \in Hint, p \in Policy : Only(h, p) /\ nextAllowed[p] > 0 =>
    /\ hintPolicy[h] = p
    /\ \A t \in Id : task[t].hint = h => stage[t] \notin {"executing", "replied"}

Pauses == Replies /\ Paused

LEMMA NextReplies == ASSUME IInv, Pauses, [Next]_vars PROVE Replies'
<1> USE QueueAssumption DEF IInv, TypeOK, Pauses, Replies
<1>1. ASSUME NEW k \in Key, NEW h \in Hint \cup {NoHint}, NEW p \in Priority, SubmitNew(k, h, p)
      PROVE  Replies'
  BY <1>1 DEF SubmitNew
<1>2. ASSUME NEW k \in Key, NEW p \in Priority, SubmitMerge(k, p) \/ SetPriority(k, p)
      PROVE  Replies'
  <2>1. PICK e \in Id : byKey[k] = e
    BY <1>2 DEF SubmitMerge, SetPriority
  <2>2. task' = [task EXCEPT ![e] = [task[e] EXCEPT !.priority = p]] /\ UNCHANGED <<stage, reply>>
    BY <1>2, <2>1 DEF SubmitMerge, SetPriority
  <2>3. \A t \in Id : task'[t].hint = task[t].hint
    BY <2>2
  <2> QED BY <2>2, <2>3
<1>3. ASSUME NEW k \in Key, Cancel(k) PROVE Replies'
  BY <1>3 DEF Cancel
<1>4. ASSUME NEW t \in Id, ExecReturns(t) PROVE Replies'
  <2>1. PICK r \in [policy : PolicyOf[task[t].hint], rules : RuleSet] \cup {None} :
          reply' = [reply EXCEPT ![t] = r]
    BY <1>4 DEF ExecReturns, ApiPolicies
  <2> QED BY <1>4, <2>1 DEF ExecReturns
<1>5. ASSUME NEW t \in Id, PickNext(t) \/ Learn(t) \/ Release(t) \/ Finish(t) PROVE Replies'
  BY <1>5 DEF PickNext, Learn, Release, Finish
<1>6. ASSUME \/ Sleep \/ WakeUp \/ TimerFires \/ IdleHourPasses \/ StopLoop
             \/ CancelContext \/ Tick \/ UNCHANGED vars
      PROVE  Replies'
  BY <1>6 DEF Sleep, WakeUp, TimerFires, IdleHourPasses, StopLoop, CancelContext, Tick, vars
<1> QED
  BY <1>1, <1>2, <1>3, <1>4, <1>5, <1>6 DEF Next, CallerNext, LoopNext, DispatchNext

(* A response that changes the pause of such a policy finds it over.       *)
LEMMA LearnsAfterPause ==
  ASSUME IInv, Pauses, NEW t \in Id, Learn(t), NEW h \in Hint, NEW p \in Policy, Only(h, p),
         task[t].hint = h \/ reply[t].policy = p
  PROVE  nextAllowed[p] = 0 /\ task[t].hint = h
<1>1. stage[t] = "replied" /\ reply[t] # None
  BY DEF Learn
<1>2. reply[t].policy \in PolicyOf[task[t].hint] /\ task[t].hint \in Hint \cup {NoHint}
  BY <1>1 DEF IInv, TypeOK, Submitted, Pauses, Replies
<1>3. task[t].hint = h
  BY <1>2 DEF Only
<1>4. ~ (nextAllowed[p] > 0)
  BY <1>1, <1>3 DEF Pauses, Paused
<1>5. nextAllowed[p] \in Nat
  BY DEF IInv, TypeOK, Name
<1> QED BY <1>3, <1>4, <1>5

LEMMA NextPaused == ASSUME IInv, Pauses, [Next]_vars PROVE Paused'
<1> SUFFICES ASSUME NEW h \in Hint, NEW p \in Policy, Only(h, p), nextAllowed'[p] > 0
             PROVE  /\ hintPolicy'[h] = p
                    /\ \A t \in Id : task'[t].hint = h => stage'[t] \notin {"executing", "replied"}
  BY DEF Paused
<1> USE QueueAssumption DEF IInv, TypeOK
<1>0. nextAllowed[p] \in Nat /\ h # NoHint
  BY DEF Name
<1>p. nextAllowed[p] > 0 =>
        /\ hintPolicy[h] = p
        /\ \A t \in Id : task[t].hint = h => stage[t] \notin {"executing", "replied"}
  BY DEF Pauses, Paused
<1> HIDE DEF Only
<1>1. ASSUME NEW k \in Key, NEW g \in Hint \cup {NoHint}, NEW q \in Priority, SubmitNew(k, g, q)
      PROVE  /\ hintPolicy'[h] = p
             /\ \A t \in Id : task'[t].hint = h => stage'[t] \notin {"executing", "replied"}
  BY <1>1, <1>p DEF SubmitNew
<1>2. ASSUME NEW k \in Key, NEW q \in Priority, SubmitMerge(k, q) \/ SetPriority(k, q)
      PROVE  /\ hintPolicy'[h] = p
             /\ \A t \in Id : task'[t].hint = h => stage'[t] \notin {"executing", "replied"}
  <2>1. PICK e \in Id : byKey[k] = e
    BY <1>2 DEF SubmitMerge, SetPriority
  <2>2. task' = [task EXCEPT ![e] = [task[e] EXCEPT !.priority = q]]
        /\ UNCHANGED <<stage, hintPolicy, nextAllowed>>
    BY <1>2, <2>1 DEF SubmitMerge, SetPriority
  <2>3. \A t \in Id : task'[t].hint = task[t].hint
    BY <2>2
  <2> QED BY <1>p, <2>2, <2>3
<1>3. ASSUME NEW k \in Key, Cancel(k)
      PROVE  /\ hintPolicy'[h] = p
             /\ \A t \in Id : task'[t].hint = h => stage'[t] \notin {"executing", "replied"}
  BY <1>3, <1>p DEF Cancel
<1>4. ASSUME NEW t \in Id, PickNext(t)
      PROVE  /\ hintPolicy'[h] = p
             /\ \A u \in Id : task'[u].hint = h => stage'[u] \notin {"executing", "replied"}
  <2>1. /\ UNCHANGED <<task, nextAllowed, hintPolicy>> /\ stage' = [stage EXCEPT ![t] = "executing"]
        /\ policyWait(task[t].hint) = 0
    BY <1>4 DEF PickNext, Ready
  <2>2. task[t].hint # h
    BY <1>0, <1>p, <2>1 DEF policyWait, Gate
  <2> QED BY <1>p, <2>1, <2>2
<1>5. ASSUME NEW t \in Id, ExecReturns(t) \/ Release(t) \/ Finish(t)
      PROVE  /\ hintPolicy'[h] = p
             /\ \A u \in Id : task'[u].hint = h => stage'[u] \notin {"executing", "replied"}
  BY <1>5, <1>p DEF ExecReturns, Release, Finish
<1>6. ASSUME NEW t \in Id, Learn(t)
      PROVE  /\ hintPolicy'[h] = p
             /\ \A u \in Id : task'[u].hint = h => stage'[u] \notin {"executing", "replied"}
  <2>1. /\ stage[t] = "replied" /\ stage' = [stage EXCEPT ![t] = "learned"] /\ UNCHANGED task
        /\ nextAllowed' = [nextAllowed EXCEPT ![reply[t].policy] = computeDelay(reply[t].rules)]
        /\ hintPolicy' = IF task[t].hint = NoHint THEN hintPolicy
                         ELSE [hintPolicy EXCEPT ![task[t].hint] = reply[t].policy]
    BY <1>6 DEF Learn
  <2>2. CASE reply[t].policy = p
    <3>1. task[t].hint = h
      BY <1>6, <2>2, LearnsAfterPause
    <3>2. hintPolicy'[h] = p
      BY <1>0, <2>1, <2>2, <3>1
    <3>3. \A u \in Id \ {t} : task[u].hint = h => stage[u] \notin Dispatching
      BY <1>0, <2>1, <3>1 DEF SerialPerHint
    <3> QED BY <2>1, <3>2, <3>3
  <2>3. CASE reply[t].policy # p
    <3>1. nextAllowed'[p] = nextAllowed[p]
      BY <2>1, <2>3 DEF Name
    <3>2. task[t].hint # h
      BY <1>6, <3>1, LearnsAfterPause
    <3> QED BY <1>p, <2>1, <3>1, <3>2
  <2> QED BY <2>2, <2>3
<1>7. ASSUME Tick
      PROVE  /\ hintPolicy'[h] = p
             /\ \A u \in Id : task'[u].hint = h => stage'[u] \notin {"executing", "replied"}
  <2>1. nextAllowed'[p] = IF nextAllowed[p] = 0 THEN 0 ELSE nextAllowed[p] - 1
    BY <1>7 DEF Tick, Name
  <2>2. nextAllowed[p] > 0
    BY <1>0, <2>1
  <2> QED BY <1>7, <1>p, <2>2 DEF Tick
<1>8. ASSUME \/ Sleep \/ WakeUp \/ TimerFires \/ IdleHourPasses \/ StopLoop
             \/ CancelContext \/ UNCHANGED vars
      PROVE  /\ hintPolicy'[h] = p
             /\ \A u \in Id : task'[u].hint = h => stage'[u] \notin {"executing", "replied"}
  BY <1>8, <1>p DEF Sleep, WakeUp, TimerFires, IdleHourPasses, StopLoop, CancelContext, vars
<1> QED
  BY <1>1, <1>2, <1>3, <1>4, <1>5, <1>6, <1>7, <1>8 DEF Next, CallerNext, LoopNext, DispatchNext

LEMMA PausesInvariant == Spec => []Pauses
<1>1. Init => Pauses
  BY QueueAssumption DEF Init, Pauses, Replies, Paused, Name
<1>2. IInv /\ Pauses /\ [Next]_vars => Pauses'
  BY NextReplies, NextPaused DEF Pauses
<1> QED BY <1>1, <1>2, Invariant, PTL DEF Spec

(* The pause of a policy that one hint has for itself ends with the clock  *)
(* only: no response to a request let through too early cuts it short.     *)
THEOREM PauseKept == Spec => PauseServedInFull
<1>1. ASSUME IInv, Pauses, [Next]_vars, NEW p \in Policy, Exclusive(p),
             nextAllowed'[p] < nextAllowed[p]
      PROVE  UNCHANGED stage
  <2>1. PICK h \in Hint : Only(h, p)
    BY <1>1 DEF Exclusive, Only
  <2>2. nextAllowed[p] \in Nat /\ nextAllowed'[p] \in Nat
    BY <1>1, NextTypeOK DEF IInv, TypeOK, Name
  <2>3. ASSUME NEW t \in Id, Learn(t) PROVE FALSE
    <3>1. reply[t].policy = p
      BY <1>1, <2>3 DEF Learn, IInv, TypeOK, Name
    <3>2. nextAllowed[p] = 0
      BY <1>1, <2>1, <2>3, <3>1, LearnsAfterPause
    <3> QED BY <1>1, <2>2, <3>2
  <2>4. CASE Tick
    BY <2>4 DEF Tick
  <2>5. CASE UNCHANGED nextAllowed
    BY <1>1, <2>2, <2>5
  <2>6. UNCHANGED nextAllowed \/ Tick \/ \E t \in Id : Learn(t)
    BY <1>1
    DEF Next, CallerNext, LoopNext, DispatchNext, SubmitNew, SubmitMerge, SetPriority, Cancel,
        CancelContext, PickNext, Sleep, WakeUp, TimerFires, IdleHourPasses, StopLoop, ExecReturns,
        Release, Finish, vars
  <2> QED BY <2>3, <2>4, <2>5, <2>6
<1>2. IInv /\ Pauses /\ [Next]_vars =>
        [\A p \in Policy :
           Exclusive(p) /\ nextAllowed'[p] < nextAllowed[p] => UNCHANGED stage]_vars
  BY <1>1
<1> QED BY <1>2, Invariant, PausesInvariant, PTL DEF Spec, PauseServedInFull

-----------------------------------------------------------------------------
(* Refinement.                                                             *)

(* The abstract phase of a task, as the function TaskService sees.         *)
phases == [t \in Id |-> Phase(stage[t])]
keys   == [t \in Id |-> task[t].key]
hints  == [t \in Id |-> task[t].hint]

(* A step that leaves stages, keys and hints alone, or moves a task        *)
(* between two stages of the same phase, is a stutter of the service.      *)
LEMMA Stutter ==
  ASSUME TypeOK, \A t \in Id : Phase(stage'[t]) = Phase(stage[t]),
         \A t \in Id : task'[t].key = task[t].key /\ task'[t].hint = task[t].hint
  PROVE  UNCHANGED Service!vars
BY DEF Service!vars

(* Every step of the queue is a step of the service or a stutter. *)
LEMMA StepRefines == ASSUME IInv, IInv', [Next]_vars PROVE [Service!Next]_(Service!vars)
<1> USE QueueAssumption DEF IInv, TypeOK
<1>1. ASSUME NEW k \in Key, NEW h \in Hint \cup {NoHint}, NEW p \in Priority, SubmitNew(k, h, p)
      PROVE  Service!Next
  <2> DEFINE t == issued + 1
  <2>1. t \in Id /\ stage[t] = "absent"
    BY <1>1 DEF SubmitNew, IdsInOrder
  <2>2. \A u \in Id : Unfinished(u) => task[u].key # k
    BY <1>1 DEF SubmitNew, ByKeyUnfinished
  <2>3. Service!Accept(t, k, h)
    <3>1. \A u \in Service!Unfinished : keys[u] # k
      BY <2>2 DEF Service!Unfinished, keys, Phase, Unfinished
    <3>2. phases' = [phases EXCEPT ![t] = "waiting"]
      BY <1>1, <2>1 DEF SubmitNew, phases, Phase
    <3>3. keys' = [keys EXCEPT ![t] = k] /\ hints' = [hints EXCEPT ![t] = h]
      BY <1>1, <2>1 DEF SubmitNew, keys, hints
    <3>4. phases[t] = "absent"
      BY <2>1 DEF phases, Phase
    <3> QED BY <3>1, <3>2, <3>3, <3>4 DEF Service!Accept, phases, keys, hints
  <2> QED BY <2>1, <2>3 DEF Service!Next
<1>2. ASSUME NEW k \in Key, NEW p \in Priority, SubmitMerge(k, p) \/ SetPriority(k, p)
      PROVE  UNCHANGED Service!vars
  <2>1. PICK e \in Id : byKey[k] = e
    BY <1>2 DEF SubmitMerge, SetPriority
  <2>2. task' = [task EXCEPT ![e] = [task[e] EXCEPT !.priority = p]] /\ UNCHANGED stage
    BY <1>2, <2>1 DEF SubmitMerge, SetPriority
  <2>3. \A t \in Id : task'[t].key = task[t].key /\ task'[t].hint = task[t].hint
    BY <2>2
  <2> QED BY <2>2, <2>3, Stutter
<1>3. ASSUME NEW k \in Key, Cancel(k) PROVE Service!Next
  <2>1. PICK t \in Id : stage[t] = "queued" /\ stage' = [stage EXCEPT ![t] = "cancelled"]
                         /\ UNCHANGED task
    BY <1>3 DEF Cancel, PendingQueued
  <2>2. phases[t] = "waiting" /\ phases' = [phases EXCEPT ![t] = "withdrawn"]
    BY <2>1 DEF phases, Phase
  <2>3. Service!Withdraw(t)
    BY <2>1, <2>2 DEF Service!Withdraw, phases, keys, hints
  <2> QED BY <2>3 DEF Service!Next
<1>4. ASSUME NEW t \in Id, PickNext(t) PROVE Service!Next
  <2>1. stage[t] = "queued" /\ stage' = [stage EXCEPT ![t] = "executing"] /\ UNCHANGED task
    BY <1>4 DEF PickNext, PendingQueued
  <2>2. \A u \in Id : stage[u] \in Dispatching => task[u].hint # task[t].hint \/ task[t].hint = NoHint
    BY <1>4 DEF PickNext, Ready, MarkedInFlight
  <2>3. \A u \in Id : phases[u] = "running" => hints[u] # hints[t] \/ hints[t] = NoHint
    BY <2>2 DEF phases, hints, Phase
  <2>4. phases[t] = "waiting" /\ phases' = [phases EXCEPT ![t] = "running"]
    BY <2>1 DEF phases, Phase
  <2>5. Service!Start(t)
    BY <2>1, <2>3, <2>4 DEF Service!Start, phases, keys, hints
  <2> QED BY <2>5 DEF Service!Next
<1>5. ASSUME \/ Sleep \/ WakeUp \/ TimerFires \/ IdleHourPasses \/ StopLoop
             \/ CancelContext \/ Tick \/ UNCHANGED vars
      PROVE  UNCHANGED Service!vars
  <2>1. UNCHANGED <<stage, task>>
    BY <1>5 DEF Sleep, WakeUp, TimerFires, IdleHourPasses, StopLoop, CancelContext, Tick, vars
  <2> QED BY <2>1, Stutter
<1>6. ASSUME NEW t \in Id, ExecReturns(t) \/ Learn(t) \/ Finish(t)
      PROVE  UNCHANGED Service!vars
  <2>1. /\ UNCHANGED task
        /\ \/ stage[t] = "executing" /\ stage' = [stage EXCEPT ![t] = "replied"]
           \/ stage[t] = "replied" /\ stage' = [stage EXCEPT ![t] = "learned"]
           \/ stage[t] = "released" /\ stage' = [stage EXCEPT ![t] = "done"]
    BY <1>6 DEF ExecReturns, Learn, Finish
  <2>2. \A u \in Id : Phase(stage'[u]) = Phase(stage[u])
    BY <2>1 DEF Phase
  <2> QED BY <2>1, <2>2, Stutter
<1>7. ASSUME NEW t \in Id, Release(t) PROVE Service!Next
  <2>1. stage[t] \in Dispatching /\ stage' = [stage EXCEPT ![t] = "released"] /\ UNCHANGED task
    BY <1>7 DEF Release
  <2>2. phases[t] = "running" /\ phases' = [phases EXCEPT ![t] = "finished"]
    BY <2>1 DEF phases, Phase
  <2>3. Service!Finish(t)
    BY <2>1, <2>2 DEF Service!Finish, phases, keys, hints
  <2> QED BY <2>3 DEF Service!Next
<1> QED
  BY <1>1, <1>2, <1>3, <1>4, <1>5, <1>6, <1>7
  DEF Next, CallerNext, LoopNext, DispatchNext

(* The queue implements the abstract task service. *)
THEOREM Refinement == Spec => ImplementsService
<1>1. Init => Service!Init
  BY DEF Init, Service!Init, Phase
<1>2. IInv /\ IInv' /\ [Next]_vars => [Service!Next]_(Service!vars)
  BY StepRefines
<1> QED BY <1>1, <1>2, Invariant, PTL DEF Spec, ImplementsService, Service!Spec
=============================================================================
