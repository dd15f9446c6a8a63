------------------------------ MODULE ReqQueue ------------------------------
(***************************************************************************)
(* poe-info-service/internal/reqqueue: the rate-limit-aware, priority      *)
(* ordered, de-duplicating queue every PoE API request goes through.       *)
(*                                                                         *)
(* Actors: callers (Submit, SetPriority, Cancel), the one dispatch loop    *)
(* (run/pickNext), one goroutine per dispatched task (dispatch), the       *)
(* remote API (Exec's reply) and the clock.  Every critical section of     *)
(* q.mu is one action, and so is every step a goroutine takes between two. *)
(*                                                                         *)
(* Times are kept as time left: nextAllowed[p] is how long it is until     *)
(* policies[p].nextAllowedAt, so that the clock needs no horizon.          *)
(* A task's id is its place in the submission order, which is both the     *)
(* order of queuedAt and the order of q.pending.                           *)
(***************************************************************************)
EXTENDS Naturals, FiniteSetsExt

CONSTANTS
  Key,        (* the de-duplication keys callers use                      *)
  Hint,       (* the non-empty PolicyHints callers use                    *)
  NoHint,     (* the empty PolicyHint                                     *)
  Policy,     (* the policy names the API reports                         *)
  NoPolicy,   (* absence from hintPolicy                                  *)
  Priority,   (* the priorities callers use                               *)
  RuleSet,    (* the sets of rules a response may carry                   *)
  PolicyOf,   (* the policies the API may report for a hint's endpoint    *)
  MaxTasks,   (* bound: how many tasks are ever created                   *)
  MaxPeriod,  (* the longest Period of any rule                           *)
  Buffer,     (* rateLimitBuffer                                          *)
  Idle,       (* the one-hour timer armed when no task has a known wait   *)
  None        (* no task, no key, no reply                                *)

ASSUME QueueAssumption ==
  /\ MaxTasks \in Nat \ {0}
  /\ MaxPeriod \in Nat
  /\ Buffer \in Nat
  /\ Priority \subseteq Nat
  /\ NoHint \notin Hint
  /\ NoPolicy \notin Policy
  /\ Idle \notin Nat
  /\ None \notin Key \cup Hint \cup {NoHint} \cup Nat
  /\ PolicyOf \in [Hint \cup {NoHint} -> SUBSET Policy]
  /\ \A rules \in RuleSet :
       rules \subseteq [hits : Nat, period : 0 .. MaxPeriod, stateHits : Nat]

VARIABLES
  issued,       (* how many tasks have been created                       *)
  task,         (* key, PolicyHint and current priority of each task      *)
  stage,        (* how far each task has come                             *)
  reply,        (* the headers Exec came back with, until learned         *)
  byKey,        (* Key -> the not-yet-completed task under it             *)
  pending,      (* the tasks not yet dispatched                           *)
  nextAllowed,  (* name -> time left until that policy's nextAllowedAt    *)
  hintPolicy,   (* Hint -> the policy a response revealed it maps to      *)
  inFlight,     (* hints with a dispatch running                          *)
  wake,         (* a token is in the wake channel                         *)
  loop,         (* what the run goroutine is doing                        *)
  timer,        (* time left on the loop's time.After                     *)
  ctxDone       (* the queue's context is cancelled                       *)

vars == <<issued, task, stage, reply, byKey, pending, nextAllowed, hintPolicy,
          inFlight, wake, loop, timer, ctxDone>>

Id     == 1 .. MaxTasks
Name   == Hint \cup Policy
Report == [policy : Policy, rules : RuleSet]

Stage == {"absent", "queued", "executing", "replied", "learned", "released",
          "done", "cancelled"}

(* The stages of a dispatch goroutine before it has released its task.     *)
Dispatching == {"executing", "replied", "learned"}

ApiPolicies(h) == PolicyOf[h]

-----------------------------------------------------------------------------
(* Pure parts.                                                             *)

Saturated(rule) ==
  rule.hits > 0 /\ rule.period > 0 /\ rule.stateHits >= rule.hits

(* computeDelay: the longest period among the saturated rules, padded.     *)
computeDelay(rules) ==
  LET waits == {rule.period : rule \in {r \in rules : Saturated(r)}}
  IN  IF waits = {} THEN 0 ELSE Max(waits) + Buffer

(* Mutant: the learned name is not consulted. *)
GateByHint(h) == h

(* The policy name a hint is gated by: the learned one, else the hint.     *)
Gate(h) == IF hintPolicy[h] = NoPolicy THEN h ELSE hintPolicy[h]

policyWait(h) == IF h = NoHint THEN 0 ELSE nextAllowed[Gate(h)]

(* Mutant: the in-flight gate forgotten. *)
ReadyWhileInFlight(t) == policyWait(task[t].hint) = 0

Ready(t) == task[t].hint \notin inFlight /\ policyWait(task[t].hint) = 0

(* Mutant: ties go to the latest. *)
PrecedesLifo(t, u) ==
  \/ task[t].priority > task[u].priority
  \/ task[t].priority = task[u].priority /\ t > u

(* Higher priority first, earlier submission among equals.                 *)
Precedes(t, u) ==
  \/ task[t].priority > task[u].priority
  \/ task[t].priority = task[u].priority /\ t < u

(* pickNext's "soonest": tasks behind an in-flight hint have no fixed ETA. *)
Waits == {policyWait(task[t].hint) : t \in {u \in pending : task[u].hint \notin inFlight}}

(* Mutant: only queued tasks are merged into. *)
KnownWhileQueued(k) == \E t \in pending : task[t].key = k

(* A not-yet-completed task has this key.                                  *)
Known(k) == byKey[k] # None

(* Mutant: in-flight tasks are cancelled too. *)
CancellableAnywhere(k) == {t \in Id : byKey[k] = t}

Cancellable(k) == {t \in pending : task[t].key = k}

(* Mutant: the empty hint is marked like any other. *)
MarkAlways(h) == inFlight \cup {h}

Mark(h) == IF h = NoHint THEN inFlight ELSE inFlight \cup {h}

(* Mutant: the marker of a completed dispatch stays. *)
UnmarkNothing(h) == inFlight

Unmark(h) == inFlight \ {h}

(* A non-blocking send on the one-token wake channel.                      *)
signal == wake' = TRUE

-----------------------------------------------------------------------------
(* Callers.                                                                *)

Init ==
  /\ issued = 0
  /\ task = [t \in Id |-> [key |-> None, hint |-> None, priority |-> 0]]
  /\ stage = [t \in Id |-> "absent"]
  /\ reply = [t \in Id |-> None]
  /\ byKey = [k \in Key |-> None]
  /\ pending = {}
  /\ nextAllowed = [n \in Name |-> 0]
  /\ hintPolicy = [h \in Hint |-> NoPolicy]
  /\ inFlight = {}
  /\ wake = FALSE
  /\ loop = "picking"
  /\ timer = Idle
  /\ ctxDone = FALSE

(* Submit of a key nothing unfinished has: a new entry, and a wake signal. *)
SubmitNew(k, h, p) ==
  LET t == issued + 1 IN
  /\ ~Known(k)
  /\ issued < MaxTasks
  /\ issued' = t
  /\ task' = [task EXCEPT ![t] = [key |-> k, hint |-> h, priority |-> p]]
  /\ stage' = [stage EXCEPT ![t] = "queued"]
  /\ byKey' = [byKey EXCEPT ![k] = t]
  /\ pending' = pending \cup {t}
  /\ signal
  /\ UNCHANGED <<reply, nextAllowed, hintPolicy, inFlight, loop, timer, ctxDone>>

(* Submit of a key already queued or in flight: only the priority rises.   *)
SubmitMerge(k, p) ==
  /\ Known(k)
  /\ p > task[byKey[k]].priority
  /\ task' = [task EXCEPT ![byKey[k]].priority = p]
  /\ UNCHANGED <<issued, stage, reply, byKey, pending, nextAllowed, hintPolicy,
                 inFlight, wake, loop, timer, ctxDone>>

SetPriority(k, p) ==
  /\ Known(k)
  /\ task' = [task EXCEPT ![byKey[k]].priority = p]
  /\ signal
  /\ UNCHANGED <<issued, stage, reply, byKey, pending, nextAllowed, hintPolicy,
                 inFlight, loop, timer, ctxDone>>

Cancel(k) ==
  \E t \in Cancellable(k) :
    /\ pending' = pending \ {t}
    /\ byKey' = [byKey EXCEPT ![k] = None]
    /\ stage' = [stage EXCEPT ![t] = "cancelled"]
    /\ UNCHANGED <<issued, task, reply, nextAllowed, hintPolicy, inFlight, wake,
                   loop, timer, ctxDone>>

(* The service shuts down: the context given to New is cancelled.          *)
CancelContext ==
  /\ ~ctxDone
  /\ ctxDone' = TRUE
  /\ UNCHANGED <<issued, task, stage, reply, byKey, pending, nextAllowed,
                 hintPolicy, inFlight, wake, loop, timer>>

-----------------------------------------------------------------------------
(* The dispatch loop.                                                      *)

(* pickNext returned t: it leaves pending, its hint is marked in flight,   *)
(* its goroutine is spawned and the loop picks again at once.              *)
PickNext(t) ==
  /\ loop = "picking"
  /\ t \in pending
  /\ Ready(t)
  /\ \A u \in pending : Ready(u) => t = u \/ Precedes(t, u)
  /\ pending' = pending \ {t}
  /\ inFlight' = Mark(task[t].hint)
  /\ stage' = [stage EXCEPT ![t] = "executing"]
  /\ UNCHANGED <<issued, task, reply, byKey, nextAllowed, hintPolicy, wake, loop,
                 timer, ctxDone>>

(* pickNext returned nil: block for the soonest policy, or an idle hour.   *)
Sleep ==
  /\ loop = "picking"
  /\ \A t \in pending : ~Ready(t)
  /\ loop' = "sleeping"
  /\ timer' = IF Waits = {} THEN Idle ELSE Min(Waits)
  /\ UNCHANGED <<issued, task, stage, reply, byKey, pending, nextAllowed,
                 hintPolicy, inFlight, wake, ctxDone>>

WakeUp ==
  /\ loop = "sleeping"
  /\ wake
  /\ wake' = FALSE
  /\ loop' = "picking"
  /\ timer' = Idle
  /\ UNCHANGED <<issued, task, stage, reply, byKey, pending, nextAllowed,
                 hintPolicy, inFlight, ctxDone>>

TimerFires ==
  /\ loop = "sleeping"
  /\ timer = 0
  /\ loop' = "picking"
  /\ timer' = Idle
  /\ UNCHANGED <<issued, task, stage, reply, byKey, pending, nextAllowed,
                 hintPolicy, inFlight, wake, ctxDone>>

(* The idle hour ran out.  No fairness is assumed of it: nothing below may *)
(* depend on the queue being rescued an hour later.                        *)
IdleHourPasses ==
  /\ loop = "sleeping"
  /\ timer = Idle
  /\ loop' = "picking"
  /\ UNCHANGED <<issued, task, stage, reply, byKey, pending, nextAllowed,
                 hintPolicy, inFlight, wake, timer, ctxDone>>

StopLoop ==
  /\ loop = "sleeping"
  /\ ctxDone
  /\ loop' = "stopped"
  /\ timer' = Idle
  /\ UNCHANGED <<issued, task, stage, reply, byKey, pending, nextAllowed,
                 hintPolicy, inFlight, wake, ctxDone>>

-----------------------------------------------------------------------------
(* The goroutine of one dispatched task.                                   *)

(* Exec returns, with headers HeaderParser understands or without.         *)
ExecReturns(t) ==
  /\ stage[t] = "executing"
  /\ \E r \in [policy : ApiPolicies(task[t].hint), rules : RuleSet] \cup {None} :
       reply' = [reply EXCEPT ![t] = r]
  /\ stage' = [stage EXCEPT ![t] = "replied"]
  /\ UNCHANGED <<issued, task, byKey, pending, nextAllowed, hintPolicy, inFlight,
                 wake, loop, timer, ctxDone>>

(* dispatch's first critical section: what the response says of its policy *)
(* replaces what was known, and the hint is mapped to that policy.         *)
Learn(t) ==
  LET r == reply[t]
      h == task[t].hint
  IN
  /\ stage[t] = "replied"
  /\ r # None
  /\ nextAllowed' = [nextAllowed EXCEPT ![r.policy] = computeDelay(r.rules)]
  /\ hintPolicy' = IF h = NoHint THEN hintPolicy
                   ELSE [hintPolicy EXCEPT ![h] = r.policy]
  /\ reply' = [reply EXCEPT ![t] = None]
  /\ stage' = [stage EXCEPT ![t] = "learned"]
  /\ UNCHANGED <<issued, task, byKey, pending, inFlight, wake, loop, timer,
                 ctxDone>>

(* dispatch's second critical section: key and hint are free again.        *)
Release(t) ==
  /\ \/ stage[t] = "learned"
     \/ stage[t] = "replied" /\ reply[t] = None
  /\ byKey' = [byKey EXCEPT ![task[t].key] = None]
  /\ inFlight' = Unmark(task[t].hint)
  /\ stage' = [stage EXCEPT ![t] = "released"]
  /\ UNCHANGED <<issued, task, reply, pending, nextAllowed, hintPolicy, wake, loop,
                 timer, ctxDone>>

(* close(e.done), then signal: waiters return, and the loop is woken.      *)
Finish(t) ==
  /\ stage[t] = "released"
  /\ stage' = [stage EXCEPT ![t] = "done"]
  /\ signal
  /\ UNCHANGED <<issued, task, reply, byKey, pending, nextAllowed, hintPolicy,
                 inFlight, loop, timer, ctxDone>>

(* The clock advances by one unit.                                         *)
Tick ==
  /\ (\E n \in Name : nextAllowed[n] > 0) \/ timer \notin {0, Idle}
  /\ nextAllowed' = [n \in Name |-> IF nextAllowed[n] = 0 THEN 0 ELSE nextAllowed[n] - 1]
  /\ timer' = IF timer \in {0, Idle} THEN timer ELSE timer - 1
  /\ UNCHANGED <<issued, task, stage, reply, byKey, pending, hintPolicy, inFlight,
                 wake, loop, ctxDone>>

-----------------------------------------------------------------------------

CallerNext ==
  \/ \E k \in Key, p \in Priority :
       \/ \E h \in Hint \cup {NoHint} : SubmitNew(k, h, p)
       \/ SubmitMerge(k, p)
       \/ SetPriority(k, p)
  \/ \E k \in Key : Cancel(k)
  \/ CancelContext

LoopNext ==
  \/ \E t \in Id : PickNext(t)
  \/ Sleep
  \/ WakeUp
  \/ TimerFires

DispatchNext(t) == ExecReturns(t) \/ Learn(t) \/ Release(t) \/ Finish(t)

Next ==
  \/ CallerNext
  \/ LoopNext
  \/ IdleHourPasses
  \/ StopLoop
  \/ \E t \in Id : DispatchNext(t)
  \/ Tick

(* The runtime schedules every goroutine, Exec returns (the HTTP client    *)
(* has a request timeout) and time passes.  Callers owe nothing.           *)
Fairness ==
  /\ WF_vars(LoopNext)
  /\ \A t \in Id : WF_vars(DispatchNext(t))
  /\ WF_vars(Tick)

Spec == Init /\ [][Next]_vars

FairSpec == Spec /\ Fairness

-----------------------------------------------------------------------------
(* Properties.                                                             *)

(* The type of every variable of the queue. *)
TypeOK ==
  /\ issued \in 0 .. MaxTasks
  /\ task \in [Id -> [key : Key \cup {None}, hint : Hint \cup {NoHint, None},
                      priority : Nat]]
  /\ stage \in [Id -> Stage]
  /\ reply \in [Id -> Report \cup {None}]
  /\ byKey \in [Key -> Id \cup {None}]
  /\ pending \in SUBSET Id
  /\ nextAllowed \in [Name -> Nat]
  /\ hintPolicy \in [Hint -> Policy \cup {NoPolicy}]
  /\ inFlight \in SUBSET Hint
  /\ wake \in BOOLEAN
  /\ loop \in {"picking", "sleeping", "stopped"}
  /\ timer \in Nat \cup {Idle}
  /\ ctxDone \in BOOLEAN

Unfinished(t) == stage[t] \in {"queued"} \cup Dispatching

(* Task.Key de-duplicates: two tasks neither of which has completed never  *)
(* carry the same key, whatever mix of Submit, Cancel and dispatch made    *)
(* them, and byKey finds exactly the unfinished ones.                      *)
OneTaskPerKey ==
  /\ \A t, u \in Id :
       Unfinished(t) /\ Unfinished(u) /\ task[t].key = task[u].key => t = u
  /\ \A t \in Id : Unfinished(t) => byKey[task[t].key] = t

(* pickNext's in-flight gate: two dispatches that carry the same non-empty *)
(* hint are never between pickNext and their release at the same time.     *)
SerialPerHint ==
  \A t, u \in Id :
    /\ stage[t] \in Dispatching
    /\ stage[u] \in Dispatching
    /\ task[t].hint = task[u].hint
    /\ task[t].hint # NoHint
    => t = u

(* The policies that only requests under one non-empty hint are counted    *)
(* against.                                                                *)
Exclusive(p) ==
  \E h \in Hint : \A g \in Hint \cup {NoHint} : p \in PolicyOf[g] => g = h

(* A pause a response imposed on a policy with one hint is served in full: *)
(* it only ever shrinks with the clock, never because the response to a    *)
(* request that was let through too early overwrites it (dispatch replaces *)
(* the policy's state unconditionally).                                    *)
PauseServedInFull ==
  [][\A p \in Policy :
       Exclusive(p) /\ nextAllowed'[p] < nextAllowed[p] => UNCHANGED stage]_vars

(* Among tasks with the same hint, the one submitted later overtakes an    *)
(* earlier one only with a strictly higher priority.                       *)
FifoWithinHint ==
  [][\A t, u \in Id :
       /\ stage[t] = "queued" /\ stage'[t] = "executing"
       /\ u \in pending /\ u < t /\ task[u].hint = task[t].hint
       => task[t].priority > task[u].priority]_vars

(* Every task that is submitted is eventually completed or cancelled (its  *)
(* done channel is closed), unless the queue's context is cancelled.       *)
EveryTaskEnds ==
  \A t \in Id : stage[t] = "queued" ~> stage[t] \in {"done", "cancelled"} \/ ctxDone

-----------------------------------------------------------------------------
(* The abstract service this queue implements.                             *)

Phase(s) ==
  CASE s = "absent"           -> "absent"
    [] s = "queued"           -> "waiting"
    [] s \in Dispatching      -> "running"
    [] s = "cancelled"        -> "withdrawn"
    [] OTHER                  -> "finished"

Service == INSTANCE TaskService WITH
  Task  <- Id,
  NoKey <- None,
  phase <- [t \in Id |-> Phase(stage[t])],
  key   <- [t \in Id |-> task[t].key],
  hint  <- [t \in Id |-> task[t].hint]

(* Every behaviour of the queue is a behaviour of the abstract service. *)
ImplementsService == Service!Spec

=============================================================================
