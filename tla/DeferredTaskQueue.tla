-------------------------- MODULE DeferredTaskQueue --------------------------
(***************************************************************************)
(* core/DeferredTaskQueue.cpp: work that the UI thread puts off, one task  *)
(* an idle moment, the most urgent first.  A task is named by what it is   *)
(* for, and asking for it again merges into the one queued.                *)
(*                                                                         *)
(* The queue is a value here, changed by the calls of the UI thread; its   *)
(* timer runs exactly while a task is queued.  DeferredTaskQueue::cancel   *)
(* has no caller.                                                          *)
(***************************************************************************)
EXTENDS Naturals, Sequences, FiniteSets, SequencesExt

CONSTANT None      (* no requestor: the task is untracked                  *)

Eventual  == 0
Low       == 1
Immediate == 10

(* A task: requestors is the map m_requestors, as pairs.                   *)
NewTask(id, priority, work, requestor) ==
  [id |-> id, work |-> work, priority |-> priority,
   requestors |-> IF requestor = None THEN {} ELSE {<<requestor, priority>>},
   tracked |-> requestor # None]

Queued(q, id) == \E i \in DOMAIN q : q[i].id = id

(* The task with that id, changed.                                         *)
Changed(q, id, New(_)) == [i \in DOMAIN q |-> IF q[i].id = id THEN New(q[i]) ELSE q[i]]

Without(t, requestor) == {r \in t.requestors : r[1] # requestor}

recalcPriority(t) == [t EXCEPT !.priority = Max({Eventual} \cup {r[2] : r \in t.requestors})]

Merged(t, priority, work, requestor) ==
  IF requestor = None
  THEN [t EXCEPT !.work = work, !.requestors = {}, !.tracked = FALSE, !.priority = priority]
  ELSE recalcPriority(
         [t EXCEPT !.work = work, !.tracked = TRUE,
                   !.requestors = Without(t, requestor) \cup {<<requestor, priority>>}])

enqueue(q, id, priority, work, requestor) ==
  IF Queued(q, id)
  THEN Changed(q, id, LAMBDA t : Merged(t, priority, work, requestor))
  ELSE Append(q, NewTask(id, priority, work, requestor))

setPriority(q, id, priority) == Changed(q, id, LAMBDA t : [t EXCEPT !.priority = priority])

(* The elements of s at the positions in S, in their order.                *)
Elements(s, S) ==
  LET upTo[n \in 0 .. Len(s)] ==
        IF n = 0 THEN <<>>
        ELSE IF n \in S THEN Append(upTo[n - 1], s[n]) ELSE upTo[n - 1]
  IN upTo[Len(s)]

(* Tasks that nobody else asked for go; untracked ones stay.               *)
cancelByRequestor(q, requestor) ==
  LET asked(t) == Without(t, requestor) # t.requestors
      kept == Elements(q, {i \in DOMAIN q : asked(q[i]) => Without(q[i], requestor) # {}})
  IN
  [i \in DOMAIN kept |->
     IF asked(kept[i])
     THEN recalcPriority([kept[i] EXCEPT !.requestors = Without(kept[i], requestor)])
     ELSE kept[i]]

(* processNextTask takes the first of the most urgent.                     *)
MostUrgent(q) ==
  CHOOSE i \in DOMAIN q :
    \A j \in DOMAIN q \ {i} : q[j].priority < q[i].priority
                              \/ (q[j].priority = q[i].priority /\ i < j)

(* It is dropped when all who asked for it have gone.                      *)
Orphaned(t) == t.tracked /\ t.requestors = {}

(* updateWaitCursor, which every call ends with.                           *)
WaitCursor(q) == \E i \in DOMAIN q : q[i].priority >= Immediate
=============================================================================
