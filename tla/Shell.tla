-------------------------------- MODULE Shell --------------------------------
(***************************************************************************)
(* The app's window: MainWindow's stack of pages (core/MainWindow.cpp),    *)
(* the navigation bar over it (ui/NavBar.cpp), the tray icon, and in the   *)
(* stack SettingsPage with its own stack of sub-pages, which are built     *)
(* only when somebody asks for them or when there is time, by tasks of     *)
(* DeferredTaskQueue.                                                      *)
(*                                                                         *)
(* All of it runs on the UI thread: a step is one click, one timer or one  *)
(* task.  SettingsPage itself is built before it is first shown            *)
(* (ensureSettingsPage) and takes its placeholder's place in the stack.    *)
(* What the data pages load in advance is their modules' business.         *)
(***************************************************************************)
EXTENDS DeferredTaskQueue

CONSTANTS
  Game, Accounts,   (* the sub-pages that other pages lead to              *)
  SubPages,         (* all sub-pages of SettingsPage, in their order       *)
  MaxMoves,         (* bound: clicks                                       *)
  MaxReady          (* bound: connections to the service                   *)

NavTab == {"guide", "chats", "stash", "profile", "log"}
Tab    == NavTab \cup {"settings", "search", "current", "dms"}
Sub    == {SubPages[i] : i \in DOMAIN SubPages}

VARIABLES
  current,    (* NavBar.m_current                                          *)
  gear,       (* m_gearActive                                              *)
  search,     (* m_searchActive                                            *)
  stack,      (* the page of the window's stack                            *)
  shown,      (* the window is shown, not hidden in the tray               *)
  requestor,  (* m_lastPreloadRequestor, by its tab                        *)
  preloads,   (* 200 ms timers out, after which sub-pages are preloaded    *)
  due,        (* timers that fire in the next turns of the event loop: the *)
              (* zero timers as they are started, others when time is up   *)
  tasks,      (* DeferredTaskQueue                                         *)
  index,      (* SettingsPage's stack: the categories, a sub-page or 9     *)
  target,     (* m_targetPageIndex                                         *)
  loaded,     (* m_pageLoaded                                              *)
  moves, readies

navVars == <<current, gear, search>>
queueVars == <<tasks, due>>
settingsVars == <<index, target, loaded>>
shellVars ==
  <<navVars, stack, shown, requestor, preloads, queueVars, settingsVars, moves, readies>>

(* The tab that holds a page with no tab of its own.                       *)
Parent(tab) == CASE tab = "current" -> "log" [] tab = "dms" -> "chats" [] OTHER -> tab

(* The constructor restores the default tab, possibly a page under it.     *)
Init ==
  /\ stack \in Tab \ {"settings", "search"}
  /\ current = Parent(stack) /\ gear = FALSE /\ search = FALSE
  /\ shown \in BOOLEAN
  /\ requestor = IF current = "guide" THEN None ELSE current
  /\ preloads = 0 /\ tasks = <<>> /\ due = <<>>
  /\ index = "categories" /\ target = None /\ loaded = {}
  /\ moves = 0 /\ readies = 0

-----------------------------------------------------------------------------
(* NavBar.                                                                 *)

setGearActive(on) == gear' = on /\ search' = (search /\ ~(on /\ ~gear))
LeavesGearOn(on) == search' = on /\ gear' = gear                \* mutant
setSearchActive(on) == search' = on /\ gear' = (gear /\ ~(on /\ ~search))
setCurrentIndex(tab) == current' = tab /\ gear' = FALSE /\ search' = FALSE

(* What paintEvent draws as active.                                        *)
Highlighted ==
  {tab \in NavTab : tab = current /\ ~gear /\ ~search}
  \cup (IF gear THEN {"settings"} ELSE {}) \cup (IF search THEN {"search"} ELSE {})

-----------------------------------------------------------------------------
(* The queue's timer runs exactly while a task is queued.                  *)
Timers(q, timers) ==
  IF q = <<>> THEN Elements(timers, {i \in DOMAIN timers : timers[i] # "task"})
  ELSE IF \E i \in DOMAIN timers : timers[i] = "task" THEN timers
  ELSE Append(timers, "task")

Tasks(q) == tasks' = q /\ due' = Timers(q, due)

-----------------------------------------------------------------------------
(* SettingsPage: leaving the page that still says "Loading...".            *)

SettingsVisible == shown /\ stack = "settings"

Deprioritized(q) == IF index = "loading" THEN setPriority(q, target, Low) ELSE q

(* hideEvent, when the stack shows another page or the window is hidden.   *)
Hidden(q, now) == IF SettingsVisible /\ ~now THEN Deprioritized(q) ELSE q

ForgetsOther(q, page) == q                                      \* mutant
OtherDeprioritized(q, page) == IF target # page THEN Deprioritized(q) ELSE q

loadPageAsync(page, q) ==
  /\ tasks' = OtherDeprioritized(q, page)
  /\ target' = page
  /\ IF page \in loaded
     THEN index' = page /\ due' = Timers(q, due)
     ELSE index' = "loading" /\ due' = Append(Timers(q, due), page)
  /\ UNCHANGED loaded

-----------------------------------------------------------------------------
(* MainWindow.                                                             *)

(* The preloads of the page that was left are cancelled.                   *)
Left(q) == IF requestor = None THEN q ELSE cancelByRequestor(q, requestor)

Owner(tab) == IF tab \in {"guide", "profile", "search"} THEN None ELSE tab

schedulePreloads(tab) ==
  /\ requestor' = Owner(tab)
  /\ preloads' = IF tab = "settings" THEN preloads + 1 ELSE preloads

Shows(tab) == stack' = tab /\ schedulePreloads(tab)

Move == moves < MaxMoves /\ moves' = moves + 1
Click == shown /\ Move

onTabChanged(tab) ==
  /\ Shows(tab)
  /\ Tasks(Left(Hidden(tasks, FALSE)))
  /\ UNCHANGED <<shown, settingsVars, readies>>

(* The tab that is already current leads back to its own page.             *)
ClickTab(tab) ==
  /\ Click
  /\ IF tab = current /\ ~gear /\ ~search
     THEN stack' = tab
          /\ UNCHANGED <<navVars, shown, requestor, preloads, queueVars, settingsVars, readies>>
     ELSE setCurrentIndex(tab) /\ onTabChanged(tab)

showSettings ==
  /\ shown' = TRUE
  /\ setGearActive(TRUE) /\ UNCHANGED current
  /\ Shows("settings")

TraySettings == Move /\ showSettings /\ Tasks(Left(tasks)) /\ UNCHANGED <<settingsVars, readies>>

onGearClicked ==
  /\ Click
  /\ IF stack = "settings"
     THEN setCurrentIndex(current) /\ onTabChanged(current)
     ELSE showSettings /\ Tasks(Left(tasks)) /\ UNCHANGED <<settingsVars, readies>>

onSearchClicked ==
  /\ Click
  /\ IF stack = "search"
     THEN setSearchActive(FALSE) /\ stack' = current
     ELSE setSearchActive(TRUE) /\ stack' = "search"
  /\ Tasks(Hidden(tasks, FALSE))
  /\ UNCHANGED <<current, shown, requestor, preloads, settingsVars, readies>>

(* From a list to what it lists, and back.                                 *)
OpenPage(from, to) ==
  /\ Click /\ stack = from
  /\ Shows(to)
  /\ Tasks(Left(tasks))
  /\ UNCHANGED <<navVars, shown, settingsVars, readies>>

OpenUnder ==
  \/ OpenPage("log", "current") \/ OpenPage("current", "log")
  \/ OpenPage("chats", "dms")   \/ OpenPage("dms", "chats")

(* The notice over the stack leads to the install directories, the stash   *)
(* page to the sign-in.                                                    *)
LeadsTo(page) ==
  /\ Click
  /\ showSettings /\ loadPageAsync(page, Left(tasks))
  /\ UNCHANGED readies

addClicked     == LeadsTo(Game)
loginRequested == stack = "stash" /\ LeadsTo(Accounts)

onServiceReady ==
  /\ readies < MaxReady /\ readies' = readies + 1
  /\ schedulePreloads(stack) /\ Tasks(Left(tasks))
  /\ UNCHANGED <<navVars, stack, shown, settingsVars, moves>>

(* closeEvent, when the app stays in the tray; showWindow.                 *)
HideWindow ==
  /\ Click
  /\ shown' = FALSE /\ Tasks(Hidden(tasks, FALSE))
  /\ UNCHANGED <<navVars, stack, requestor, preloads, settingsVars, readies>>

showWindow ==
  /\ ~shown /\ Move
  /\ shown' = TRUE
  /\ UNCHANGED <<navVars, stack, requestor, preloads, queueVars, settingsVars, readies>>

-----------------------------------------------------------------------------
(* SettingsPage: clicks.                                                   *)

shellOnly == <<navVars, stack, shown, requestor>>

ClickCategory(page) ==
  /\ Click /\ SettingsVisible /\ index = "categories"
  /\ loadPageAsync(page, tasks)
  /\ UNCHANGED <<shellOnly, preloads, readies>>

navigateBack ==
  /\ Click /\ SettingsVisible /\ index # "categories"
  /\ Tasks(Deprioritized(tasks))
  /\ target' = None /\ index' = "categories"
  /\ UNCHANGED <<shellOnly, preloads, loaded, readies>>

-----------------------------------------------------------------------------
(* Timers and tasks.                                                       *)

(* The 200 ms are over.                                                    *)
PreloadDue ==
  /\ preloads > 0 /\ preloads' = preloads - 1
  /\ due' = Append(due, "preload")
  /\ UNCHANGED <<shellOnly, tasks, settingsVars, moves, readies>>

Fires(timer) == due # <<>> /\ Head(due) = timer
Others == Tail(due)

(* The zero timer of loadPageAsync: the page is to be built at once, if it *)
(* is still the one that is waited for.                                    *)
StartLoading(page) ==
  LET q == IF target = page THEN enqueue(tasks, page, Immediate, "show", None) ELSE tasks IN
  /\ Fires(page)
  /\ tasks' = q /\ due' = Timers(q, Others)
  /\ UNCHANGED <<shellOnly, preloads, settingsVars, moves, readies>>

PreloadAll(q) ==
  LET upTo[n \in 0 .. Len(SubPages)] ==
        IF n = 0 THEN q
        ELSE IF SubPages[n] \in loaded THEN upTo[n - 1]
             ELSE enqueue(upTo[n - 1], SubPages[n], Low, "build", "settings")
  IN upTo[Len(SubPages)]

preloadSubPages ==
  /\ Fires("preload")
  /\ tasks' = PreloadAll(tasks) /\ due' = Timers(PreloadAll(tasks), Others)
  /\ UNCHANGED <<shellOnly, preloads, settingsVars, moves, readies>>

(* A task builds its sub-page; one the user asked for shows it as well, if *)
(* it is still the one waited for.                                         *)
processNextTask ==
  LET n == MostUrgent(tasks)
      t == tasks[n]
      q == RemoveAt(tasks, n) IN
  /\ Fires("task")
  /\ tasks' = q /\ due' = Timers(q, Others)
  /\ loaded' = IF Orphaned(t) THEN loaded ELSE loaded \cup {t.id}
  /\ IF ~Orphaned(t) /\ t.work = "show" /\ target = t.id
     THEN index' = t.id /\ target' = None
     ELSE UNCHANGED <<index, target>>
  /\ UNCHANGED <<shellOnly, preloads, moves, readies>>

TimerFires == (\E page \in Sub : StartLoading(page)) \/ preloadSubPages \/ processNextTask

-----------------------------------------------------------------------------
Next ==
  \/ (\E tab \in NavTab : ClickTab(tab)) \/ onGearClicked \/ onSearchClicked
  \/ OpenUnder \/ addClicked \/ loginRequested
  \/ TraySettings \/ HideWindow \/ showWindow \/ onServiceReady
  \/ (\E page \in Sub : ClickCategory(page)) \/ navigateBack
  \/ PreloadDue \/ TimerFires

Spec == Init /\ [][Next]_shellVars

TypeOK ==
  /\ current \in NavTab /\ {gear, search, shown} \subseteq BOOLEAN
  /\ stack \in Tab /\ requestor \in Tab \cup {None} /\ preloads \in Nat
  /\ index \in Sub \cup {"categories", "loading"} /\ target \in Sub \cup {None}
  /\ loaded \subseteq Sub /\ due \in Seq(Sub \cup {"task", "preload"})
  /\ \A i \in DOMAIN tasks :
       /\ tasks[i].id \in Sub /\ tasks[i].work \in {"build", "show"}
       /\ \A j \in DOMAIN tasks : tasks[j].id = tasks[i].id => j = i

-----------------------------------------------------------------------------
(* The navigation bar highlights the page of the stack or the one it       *)
(* belongs to, and nothing else, whichever way the page was reached: by    *)
(* tab, gear, search, tray, notice, a link of another page or the button   *)
(* back (MainWindow, NavBar).                                              *)
NavAgrees == Highlighted = {Parent(stack)}

(* A task urgent enough for the wait cursor is of the sub-page asked for   *)
(* last, or of one that is built by now: leaving, going back or asking for *)
(* another takes the hurry from the task (SettingsPage::loadPageAsync,     *)
(* navigateBack, hideEvent; DeferredTaskQueue::updateWaitCursor).          *)
CursorMeansWaiting ==
  \A i \in DOMAIN tasks :
    tasks[i].priority >= Immediate => tasks[i].id \in loaded \cup {target}

(* Somebody waits before "Loading..." for a sub-page that is not built.    *)
Loading == SettingsVisible /\ index = "loading" /\ target \notin loaded
=============================================================================
