---------------------------- MODULE TaskManager ----------------------------
(***************************************************************************)
(* The app's background tasks (src/workers): TaskManager runs each worker  *)
(* on a thread of its own, so many at a time per kind; TaskPanel shows a   *)
(* row for a task that lasts; MainWindow drives one such row, the progress *)
(* of the service's log replay, through a worker that does no work itself. *)
(*                                                                         *)
(* Everything but the workers happens on the UI thread.  Workers post      *)
(* signals to its queue; a percentage is "low" or "full" (100).            *)
(***************************************************************************)
EXTENDS Naturals, Sequences, FiniteSets, SequencesExt

CONSTANTS
  Kind,         (* kinds of tasks (TaskKind) that other code submits       *)
  General,      (* the kind of the progress tracker                        *)
  Slots,        (* how many tasks of a kind may run at once                *)
  MaxTasks,     (* bound: tasks ever submitted                             *)
  MaxMail,      (* bound: signals of other workers in the UI thread's queue*)
  MaxTimers,    (* bound: grace timers out at once                         *)
  None

VARIABLES
  kind,          (* TaskRecord.kind of the tasks submitted so far          *)
  status,        (* TaskRecord.status                                      *)
  cancelling,    (* TaskRecord.cancelling, with the worker's cancel flag   *)
  mailbox,       (* worker signals posted to the UI thread                 *)
  over,          (* workers that have sent their last signal               *)
  pendingShow,   (* TaskPanel: tasks younger than the show delay           *)
  rows,          (* TaskPanel: tasks with a row                            *)
  lastStatus,    (* what MainWindow::onTaskUpdated wrote last              *)
  ingesting,     (* MainWindow: the service's phase is "ingesting"         *)
  graceScheduled,
  graceTimers,   (* one second timers out                                  *)
  trackerTask,   (* the task of the progress tracker                       *)
  trackers       (* history: the tasks that were progress trackers         *)

mainVars  == <<ingesting, graceScheduled, graceTimers, trackerTask, trackers>>
panelVars == <<pendingShow, rows, lastStatus>>
taskVars  == <<kind, status, cancelling>>
vars == <<taskVars, mailbox, over, panelVars, mainVars>>

Id == 1 .. MaxTasks
Submitted == 1 .. Len(kind)

Occupying == {"Running", "Monitoring"}
Active    == {"Pending", "Running"}
Terminal  == {"Finished", "Failed", "Cancelled"}
Hidden    == Terminal \cup {"Monitoring"}

Init ==
  /\ kind = <<>> /\ status = <<>> /\ cancelling = {}
  /\ mailbox = <<>> /\ over = {}
  /\ pendingShow = {} /\ rows = {} /\ lastStatus = None
  /\ ingesting = FALSE /\ graceScheduled = FALSE /\ graceTimers = 0
  /\ trackerTask = None /\ trackers = {}

-----------------------------------------------------------------------------
(* TaskManager::tryDequeue.                                                *)

MonitoringIsFree(s, k, kinds) ==                                \* mutant
  Cardinality({t \in DOMAIN s : kinds[t] = k /\ s[t] = "Running"})
runningCount(s, k, kinds) ==
  Cardinality({t \in DOMAIN s : kinds[t] = k /\ s[t] \in Occupying})

(* The oldest waiting tasks of each kind fill its free slots.              *)
Dequeued(s, kinds) ==
  [t \in DOMAIN s |->
     IF /\ s[t] = "Pending"
        /\ runningCount(s, kinds[t], kinds)
             + Cardinality({u \in 1 .. t - 1 : s[u] = "Pending" /\ kinds[u] = kinds[t]})
           < Slots[kinds[t]]
       THEN "Running" ELSE s[t]]

-----------------------------------------------------------------------------
(* What the panel and the status bar do when tasks have changed.           *)

(* A task that changed: gone from the panel, or back after monitoring.     *)
NeverBack(changed, s) ==                                        \* mutant
  /\ pendingShow' = pendingShow \ {t \in changed : s[t] \in Hidden}
  /\ rows' = rows \ {t \in changed : s[t] \in Hidden}
onTaskUpdated(changed, s) ==
  /\ pendingShow' = pendingShow \ {t \in changed : s[t] \in Hidden}
  /\ rows' = (rows \ {t \in changed : s[t] \in Hidden})
               \cup {t \in changed \ pendingShow : s[t] = "Running"}

(* MainWindow::onTaskUpdated, for the last change of the step.             *)
StatusContent(t, s) ==
  IF \E u \in DOMAIN s : s[u] \in Active THEN "active"
  ELSE CASE s[t] \in {"Finished", "Monitoring"} -> "done"
         [] s[t] = "Failed"    -> "failed"
         [] s[t] = "Cancelled" -> "cancelled"
         [] OTHER -> lastStatus

(* The records become s because of t, and everyone is told.                *)
Update(t, s) ==
  /\ status' = s
  /\ onTaskUpdated({t} \cup {u \in DOMAIN s : s[u] # status[u]}, s)
  /\ lastStatus' = StatusContent(t, s)

(* The task of a worker that ended: waiting ones may take its slot.        *)
CleanupTask(t, v) == Update(t, Dequeued([status EXCEPT ![t] = v], kind))

-----------------------------------------------------------------------------
(* TaskManager::submit, with what it sets off in the panel.                *)
submit(k) ==
  LET t == Len(kind) + 1
      s == Dequeued(Append(status, "Pending"), Append(kind, k))
  IN /\ t \in Id
     /\ kind' = Append(kind, k)
     /\ status' = s
     /\ pendingShow' = pendingShow \cup {t}
     /\ lastStatus' = StatusContent(t, s)
     /\ UNCHANGED <<cancelling, over, rows>>

Submit(k) == submit(k) /\ UNCHANGED <<mailbox, mainVars>>

(* TaskManager::cancel: a waiting task is gone, a running one is told.     *)
TellsWaiting(t) ==                                              \* mutant
  /\ status[t] \notin Terminal
  /\ cancelling' = cancelling \cup {t}
  /\ UNCHANGED <<kind, status, mailbox, over, panelVars, mainVars>>
cancel(t) ==
  /\ \/ /\ status[t] = "Pending"
        /\ Update(t, [status EXCEPT ![t] = "Cancelled"])
        /\ UNCHANGED cancelling
     \/ /\ status[t] \in Occupying
        /\ cancelling' = cancelling \cup {t}
        /\ UNCHANGED <<status, pendingShow, rows, lastStatus>>
  /\ UNCHANGED <<kind, mailbox, over, mainVars>>

(* The cross in the row.                                                   *)
ClickCancel(t) == t \in rows /\ cancel(t)

-----------------------------------------------------------------------------
(* Workers: they report progress and end, sooner when told to.             *)

CanPost(t) ==
  /\ t \in Submitted \ (trackers \cup over)
  /\ status[t] \in Occupying
  /\ Len(mailbox) < MaxMail

Progress(t, p) ==
  /\ CanPost(t)
  /\ mailbox' = Append(mailbox, <<t, p>>)
  /\ UNCHANGED <<taskVars, over, panelVars, mainVars>>

Ends(t, outcome) ==
  /\ CanPost(t)
  /\ mailbox' = Append(mailbox, <<t, outcome>>)
  /\ over' = over \cup {t}
  /\ UNCHANGED <<taskVars, panelVars, mainVars>>

(* onWorkerProgress: caught up is not over, and may fall behind again.     *)
onWorkerProgress(t, p) ==
  Update(t, [status EXCEPT ![t] =
               CASE p = "full" /\ @ = "Running"    -> "Monitoring"
                 [] p = "low"  /\ @ = "Monitoring" -> "Running"
                 [] OTHER -> @])

onWorkerFinished(t) == CleanupTask(t, IF t \in cancelling THEN "Cancelled" ELSE "Finished")

onWorkerFailed(t) == CleanupTask(t, "Failed")

(* The UI thread takes up the next signal.                                 *)
Deliver ==
  /\ mailbox # <<>>
  /\ mailbox' = Tail(mailbox)
  /\ LET t == Head(mailbox)[1]  sig == Head(mailbox)[2]
     IN \/ sig \in {"low", "full"} /\ onWorkerProgress(t, sig)
        \/ sig = "finished" /\ onWorkerFinished(t)
        \/ sig = "failed" /\ onWorkerFailed(t)
  /\ UNCHANGED <<kind, cancelling, over, mainVars>>

(* The show delay of a task is over (the timer of a task that is no longer *)
(* in pendingShow does nothing).                                           *)
ShowDelayOver(t) ==
  /\ t \in pendingShow
  /\ pendingShow' = pendingShow \ {t}
  /\ rows' = IF status[t] \in Hidden THEN rows ELSE rows \cup {t}
  /\ UNCHANGED <<taskVars, mailbox, over, lastStatus, mainVars>>

-----------------------------------------------------------------------------
(* MainWindow::applyStatusPayload and the tracker.  Signals of the tracker *)
(* are emitted by the UI thread itself, which delivers what it has posted  *)
(* before it looks at timers.                                              *)

Report(sig) == mailbox' = Append(mailbox, <<trackerTask, sig>>)

TrackerPosted == \E i \in DOMAIN mailbox : mailbox[i][1] \in trackers

StatusIngesting(p) ==
  /\ ingesting' = TRUE
  /\ \/ /\ trackerTask # None /\ ~TrackerPosted
        /\ Report(p)
        /\ UNCHANGED <<graceScheduled, graceTimers>>
     \/ /\ trackerTask = None /\ ~graceScheduled
        /\ graceTimers < MaxTimers
        /\ graceScheduled' = TRUE
        /\ graceTimers' = graceTimers + 1
        /\ UNCHANGED mailbox
     \/ /\ trackerTask = None /\ graceScheduled
        /\ UNCHANGED <<mailbox, graceScheduled, graceTimers>>
  /\ UNCHANGED <<taskVars, over, panelVars, trackerTask, trackers>>

StatusOther ==
  /\ ingesting' = FALSE
  /\ graceScheduled' = FALSE
  /\ \/ /\ trackerTask # None                      \* stopProgressTracker
        /\ Report("finished")
        /\ over' = over \cup {trackerTask}
        /\ trackerTask' = None
     \/ trackerTask = None /\ UNCHANGED <<mailbox, over, trackerTask>>
  /\ UNCHANGED <<taskVars, panelVars, graceTimers, trackers>>

(* startProgressTracker.                                                   *)
TrackAgain == ingesting                                         \* mutant
StillIngesting == ingesting /\ trackerTask = None

GraceOver(p) ==
  /\ graceTimers > 0 /\ ~TrackerPosted
  /\ graceTimers' = graceTimers - 1
  /\ \/ /\ StillIngesting
        /\ submit(General)
        /\ trackerTask' = Len(kind')
        /\ trackers' = trackers \cup {Len(kind')}
        /\ mailbox' = Append(mailbox, <<Len(kind'), p>>)
     \/ /\ ~StillIngesting
        /\ UNCHANGED <<taskVars, mailbox, over, panelVars, trackerTask, trackers>>
  /\ UNCHANGED <<ingesting, graceScheduled>>

-----------------------------------------------------------------------------
Next ==
  \/ \E k \in Kind : Submit(k)
  \/ \E t \in Submitted :
       \/ ClickCancel(t)
       \/ \E p \in {"low", "full"} : Progress(t, p)
       \/ \E outcome \in {"finished", "failed"} : Ends(t, outcome)
       \/ ShowDelayOver(t)
  \/ Deliver
  \/ \E p \in {"low", "full"} : StatusIngesting(p) \/ GraceOver(p)
  \/ StatusOther

(* A worker does not work for ever.                                        *)
WorkEnds == \E t \in Submitted, outcome \in {"finished", "failed"} : Ends(t, outcome)

-----------------------------------------------------------------------------
TypeOK ==
  /\ kind \in Seq(Kind \cup {General}) /\ Len(kind) \in 0 .. MaxTasks
  /\ status \in Seq(Active \cup Hidden) /\ Len(status) = Len(kind)
  /\ cancelling \subseteq {t \in Submitted : status[t] # "Pending"}
  /\ over \subseteq {t \in Submitted : status[t] # "Pending"}
  /\ mailbox \in Seq(Submitted \X {"low", "full", "finished", "failed"})
  /\ pendingShow \subseteq Submitted /\ rows \subseteq Submitted
  /\ lastStatus \in {None, "active", "done", "failed", "cancelled"}
  /\ ingesting \in BOOLEAN /\ graceScheduled \in BOOLEAN
  /\ graceTimers \in 0 .. MaxTimers
  /\ trackerTask \in Submitted \cup {None}
  /\ trackers \subseteq Submitted

(* No kind runs more tasks than it has slots (one for database writes), a  *)
(* task that has caught up still holding its own, and no task waits while  *)
(* its kind has a slot free, whatever ended, failed or was cancelled.      *)
SlotsFilled ==
  \A k \in Kind \cup {General} :
    LET running == Cardinality({t \in Submitted : kind[t] = k /\ status[t] \in Occupying})
    IN /\ running <= Slots[k]
       /\ (\E t \in Submitted : kind[t] = k /\ status[t] = "Pending") => running = Slots[k]

(* The panel has a row for exactly the tasks that wait or run and are past *)
(* the show delay, through caught-up phases and cancellations, and the     *)
(* status bar calls tasks active exactly while there are any.              *)
RowsMatchTasks ==
  /\ rows = {t \in Submitted \ pendingShow : status[t] \in Active}
  /\ (lastStatus = "active") <=> (\E t \in Submitted : status[t] \in Active)

(* The worker MainWindow keeps a bare pointer to has not been deleted and  *)
(* its signals are connected (its task runs); every other tracker has been *)
(* told to finish, so that none is left in the panel.                      *)
TrackerHeld ==
  /\ trackerTask # None => /\ status[trackerTask] \in Occupying
                           /\ trackerTask \notin over
  /\ trackers \ {trackerTask} \subseteq over

(* A task other than the tracker in use has not ended.                     *)
Unfinished == \E t \in Submitted \ {trackerTask} : status[t] \notin Terminal
=============================================================================
