# A TLA+ verification project for l2p-poe and poe-info-service

l2p-poe is a desktop companion for Path of Exile (C++/Qt, `src/src`). Everything it
knows comes from poe-info-service (Go, `src/poe-info-service`), a local process
that ingests the game's `Client.txt` logs into SQLite, calls the PoE and Steam
web APIs, and serves requests and events over a WebSocket. This directory holds
TLA+ models of the parts of both programs in which order, concurrency and
failure matter, the TLC configurations that check them on small instances, and
machine-checked proofs of their most important invariants for every instance.

`PROJECT.json` maps every definition to the source lines it stands for, lists
the runs with their properties, the mutations of the code each property is known
to notice, the hazards of the code, and the theorems.

## 1. Inventory

### How the parts interact

    Client.txt --> tailer --channel--> broadcastLogEvents --> ingest.Writer --> SQLite
                     |  (saves its offset)     |                                  ^
                     +------------- one write connection -------------------------+
                                               | live events                      |
    PoE API <-- reqqueue <-- profile/leagues   v                                  |
    Steam   <-- limiter  <-- rich presence -> hub (topics) <---- request handlers-+
    browser <-- poe_oauth ------------------>  |  one bounded channel per client
                                               v
    other copies <-- election (port)    WebSocket <--> PoeInfoClient
                                               |
        +-----------------+--------------------+----------------+-----------------+
        v                 v                    v                v                 v
    MainWindow        data pages          settings pages    accounts page    TaskManager
    (navigation)      (log, chat, ...)    (DeferredTaskQueue)  and stores    and TaskPanel

| Component | State it keeps | Operations | What is hard about it | What makes it correct | Module |
|---|---|---|---|---|---|
| `internal/reqqueue` | tasks by key, pending list, per-policy pause, hint-to-policy map, in-flight hints, wake token | Submit (merges), SetPriority, Cancel, the dispatch loop, one goroutine per dispatch | every critical section interleaves with every other; wake-ups; what a response teaches arrives after the next dispatch could start | one unfinished task per key, one request per hint, pauses served, every task ends | ReqQueue, TaskService |
| `internal/tailer` and `broadcastLogEvents` | file offset, chunk, channel, open transaction, caughtUp, context | poll, send, save offset, apply, commit, flush, cancel | two goroutines per install and all request handlers on one database connection, a bounded channel, crashes, truncated logs | order without gaps, no circular wait, bounded loss, connection always returned | Ingest |
| `internal/ingest` Writer and sweep | current session, span, pending away intervals, tables | one handler per event, NewWriter, closeOrphanSession | restart in mid-session, lost batches, repeated lines, one-second timestamps, a sweep under the Writer's hands | spans tile sessions, away time adds up, sessions are disjoint, a second reading adds no row but deaths that were skipped | SessionWriter |
| `internal/server/poe_oauth.go` | token, inProgress, refreshTimer, credential store, accounts table | login, refresh, logout, start-up | goroutines working unlocked between short locked sections; a store that refuses | one login flow, a token always has a refresh ahead, attempts end | PoeOAuth |
| `s.tailers`, `config.set`, auto-detection | map of pipelines, autoDetect, config file, published snapshot | addInstallTarget, removeInstall, reconcile, persist, publish | check-then-act around database work, a goroutine that adds installs on its own, crashes before the save | listed installs are ingested, by one pipeline; what was answered is saved and published | InstallRegistry |
| Run, negotiate, handlePeer, watchIdle; ServiceManager | the bound port, peers, attempts left, who was asked to leave | hello, step-down, bind, open, shut down, kill | several starting copies, incumbents that leave while others yield to them, release slower than the retries | somebody serves in the end | Election |
| PoeInfoClient, hub, handleWS, ingest status | pending callbacks, socket, send channel, subscriptions, shown phase | request, subscribe, connect, lose, reconnect, route, publish | losses with requests out, callbacks that make requests, dropped messages | each callback once, the client resynchronises and reconnects | ServiceLink |
| SessionViewPage, LogPage, ChatPage, DmPage, StashPage | what should be shown, dirty and in-flight flags, the answer on the screen, overlay, timers | filter, slide the window, live event, show, hide, request, answer, retry | late answers for an older state of the page, errors, lost links, hidden pages, a page that is not ready | a page at rest shows what is wanted; no overlay stays for ever | Page, PageLoad, one module per page |
| TaskManager, TaskPanel, MainWindow's progress tracker | slots per kind, queued signals, rows, grace timers | submit, cancel, workers' signals, show delay, ingest status | cancellation against a signal in the queue, two grace timers and one flag | slots are filled and no more, rows match tasks, no dangling tracker | TaskManager |
| MainWindow, NavBar, SettingsPage, DeferredTaskQueue | stack of pages, the bar's fields, tasks by requestor and priority | clicks on tabs, gear, search, tray, links; enqueue with merges, demote, cancel | many ways to one page; a task hurried, demoted and merged with its preload | the bar tells the page, the cursor tells of waiting, what is loading gets built | Shell, DeferredTaskQueue |
| Accounts page, PoeOAuthStore, PoeAccountStore, SteamAccountStore | what each button believes, requests out, windows | check, store, delete, login, logout, pushes | answers and pushes in any order, requests lost with the link | buttons agree with the service at rest | Accounts |
| poe_leagues, poe_profile, store | cached rows with times, fetch keys | ensure, submit, upsert, read | shared table, partial fetches, answers out of order | fresh means complete and one's own | planned: LeagueCache |
| steam.go, throttle | cached presence, fetch mutex, limiter | ensureFresh, watch | setting changed under a fetch | presence belongs to the player set | planned: RichPresence |
| schema migrations | version number | apply one by one | a crash between a statement and its version | a start always succeeds | planned: Migration |
| parser, query, channels, dialog, proto, PoE and Steam HTTP clients, CLI | tables and text | matching, SELECTs, HTTP | data, not control | - | not modelled, see section 8 |
| widgets, overlay, window tracking, styles, scripts | - | presentation | - | - | not modelled |

All 40 parts, with their files, are listed under "components" in `PROJECT.json`.

### Where it is hard

* One SQLite connection (`SetMaxOpenConns(1)`) shared by a saving tailer, an open
  batch and request handlers: who waits for whom.
* Offsets, rows, config file and credential store are persisted separately:
  crashes between two of them.
* State read under a lock, used or published after it (OAuth status, config
  snapshots, the ingest status).
* Answers that arrive after what they answer has changed (refresh after logout,
  response after a lost connection, sweep under the Writer's session, a page
  whose filter has moved on, a sign-out before the list of leagues).
* Copies of the service that send each other away while others yield to them.
* In the app, one thread but many orders: single-shot timers that find the page
  hidden or already asking, signals in the queue of a task that was cancelled,
  deferred tasks that merge.
* A wake-up channel, a reconnect timer and a refresh-timer chain which nothing
  else would restart if they were lost.

## 2. Plan

The most important behaviour came first. Done, in this order: ReqQueue with
TaskService and its proofs; Ingest; SessionWriter; PoeOAuth; InstallRegistry;
ServiceLink; the five data pages over Page and PageLoad; TaskManager;
DeferredTaskQueue with Shell; Accounts; Election; App, which puts the app's parts
together; proofs about all of them (section 7). Left, in this order:

1. **LeagueCache** (`upsertLeagues`, `queryLeaguesRows`, `ensureLeagues`,
   `ensureLeagueDetail`, `ensurePoeProfile`), over TaskService as the queue it
   submits to (its tasks are the queue's, so it composes with the abstract
   service and not with ReqQueue). Properties: freshness against completeness
   and account, order of answers, waiters answered.
2. **Migration** (`internal/schema`): crashes between a statement and its version.
3. **RichPresence**: one small module, if it earns it.

Composition: Ingest hands lines to SessionWriter; the two meet in what a restart
may do to the lines (section 4, Ingest `AheadByOneChannel`; SessionWriter `Restart`
takes any loss of the uncommitted batch and the rereading of recent lines).
InstallRegistry treats a pipeline as one value that lives, dies and ends; Ingest
is that pipeline. The pages and Accounts see the service through ServiceLink's
promise: a request is answered once, or ends with an error when the link is lost
(`CalledOnce`). ServiceLink's service stops and starts; who serves then is
Election's subject. A single composed state space would be far out of TLC's
reach and would tell no new property apart.

## 3. Modules

Each component has a module `M`; the `MC` modules instantiate one of them, or
several that share nothing (MCService), for TLC; **App** is the app, one part at a
time, and MCApp its small instance. Theorems are in `MProofs`; ServiceProofs is
about InstallRegistry, Election and MCService, which puts them together,
SessionWriterProofs about SessionWriter and the specification of MCSessionWriter,
and AppProofs about every part of App.
Comments marked `\* mutant` sit on definitions no specification uses: plausible
wrong versions of the definition that follows, to show that a property notices
them.

**ReqQueue** (`internal/reqqueue/reqqueue.go`). `stage` is how far a task has come
(queued, executing, learned, released, done, cancelled); `byKey`, `pending`,
`hintPolicy`, `inFlight` are the fields of the same names, `nextAllowed` is the
time left until `nextAllowedAt`, `wake` the one-token channel, `loop` and `timer`
the state of `run`. Submit, SetPriority and Cancel are one critical section each;
`pickNext`, falling asleep, the wake-up, the timer and its end are actions of the
loop; `ExecReturns`, `Learn`, `Release` and `Finish` are the steps `dispatch` takes
with the lock given back in between. Headers are sets of rules (hits, period,
state count); texts are left out.

**TaskService** is what a caller may rely on: accepted, started, finished or
withdrawn, one unfinished task per key, no two running tasks of one hint.
`ReqQueue!ImplementsService` maps stages to phases (everything from executing up
to, not including, done is "running").

**Ingest** (`internal/tailer`, `broadcastLogEvents`, `addInstallTarget`'s
goroutines). Lines are numbered over all the lines ever written, a file is the
lines after the last truncation, offsets count lines. `conn` is the holder of the
one connection, `waiting` who asks for it. `tail` follows `Run`/`poll` (idle,
sending, saving, latching), `writer` follows the select loop (idle, apply, full,
publish). One event per line; a line of kind "long" does not fit into a chunk.

**SessionWriter** (`internal/ingest/writer.go`, `sessions.go`, and the parser's
clearing of the alt-tab flag). `db` is the tables as the transaction sees them,
`saved` as last committed, `w` the Writer's fields. Every handler is an operator
on the pair [db, w], composed as the Go functions call each other
(`handleSessionStart` = closeSession, beginSession, openSpan; `closeSpan` = EndAway of
both kinds, ...), and every event kind is an action. `Note` stands for the handlers
that only insert rows under the open session. A death is not one of them: it is
looked up in the table of characters, which level-ups fill, and skipped when the
character is not there yet (`writer.go:835`). `roster` is these two tables,
`savedRoster` as last committed, `LevelUp` and `CharacterDeath` the actions.

**PoeOAuth** (`internal/server/poe_oauth.go`). Each refresh timer, login and logout
is a process with a program counter; every locked section and every write
between them is a step; `Tells`, `TakeSnapshot`, `PublishStatus` are
`publishPoeOAuthStatus`, whose snapshot and publication are two steps.

**InstallRegistry** (`server.go` addInstallTarget, removeInstall, watchAutoDetect;
`config.go` reconcileInstallDirs, persistConfig, publishConfigChanged). `tailers` is
`s.tailers`; `live` and `dying` are the pipelines whose context is not, or is,
cancelled; `act` is what each connection's goroutine and each auto-detect loop has
left to do. A step is one section under `tailersMu`, one atomic access or one write.

**Election** (`server.go` Run, negotiate, handlePeer, serve, watchIdle;
`ServiceManager.cpp`). `pc` is how far each process is: dial, hello (connected to
`peer`), wait (two seconds after its step-down), bind (`tries` left), open (has the
port, opens the database), serve, stop (context cancelled), leave (listener
closed), gone. `asked` are the copies a step-down was sent to; `mishap` records
that one was killed, idle, could not open its database or was too slow to leave.
Versions are numbers, start times seconds that may be equal.

**ServiceLink** (`services/PoeInfoClient.cpp`, `core/MainWindow.cpp`,
`ui/settings/SettingsPage.cpp`; `hub.go`, `handleWS`, `routeMessage`, `send`,
`watchIngestStatus`). `pending`, `nextId`, `reconnect` are the client's members, `sweeping` is
m_orphanCloseInFlight, `shown` MainWindow's phase; `up`, `reply`, `buffer`, `down` are the
stations of a message. A step is one event of Qt's loop with every callback it
runs, or one step of a goroutine.

**Page** holds what the data pages have in common: the link with its number of
`connected` slots, `visible`, `dirty`, `asked` (the query in flight, m_rebuildInFlight),
`shown`, the overlay and the single-shot timers in `soon`. A `query` is a record of
what the page should show: filter, window, and `news`, a count of the events and
settings the answer must be younger than. **ChatPage**, **DmPage**, **LogPage**,
**SessionViewPage** and **StashPage** extend it with their own fields and handlers
under the names of the code.

**PageLoad** is what such a page promises: one request at a time, and whoever
changes what is wanted asks for it or leaves a note that it is owed. Each page's
`Load` instance says which of its flags are that note (`dirty`; a running live
timer; for LogPage also a move that was ignored while the service replays the
log; a page without a client owes everything).

**TaskManager** (`src/workers`, `ui/TaskPanel.cpp`, MainWindow's
tracker). `status` is a task's state, `mailbox` the queue of signals of the UI
thread, `over` the workers that have finished, `rows` and `pendingShow` the panel,
`graceTimers` and `trackerTask` MainWindow's tracker of the log replay.

**DeferredTaskQueue** is a value with the operators enqueue, setPriority,
cancelByRequestor and processNextTask; **Shell** (`MainWindow.cpp`, `NavBar.cpp`,
`SettingsPage.cpp`) drives it: `current`, `gear`, `search` are the bar's fields, `stack` the
page in front, `index`, `target`, `loaded` the settings' own stack. `Highlighted` is
what NavBar paints.

**Accounts** (`SettingsPage::buildAccountsPage` and the three stores). `enabled` and
`has` are what the buttons believe, `unsent`, `toService` and `toApp` the messages on
their way, `stored` and `signIn` what the service has. A login window's web pages
are their outcome.

## 4. Runs, what they show, and their bounds

| Run | Question | Bounds | Distinct states |
|---|---|---|---|
| `reqqueue` | types, de-duplication, one request per hint, pauses served in full, order within a hint, refinement of TaskService, every task ends | 2 tasks, 2 keys, 2 hints and none, 2 policies, 2 priorities, periods of 1 and 2 | 221 thousand |
| `ingest_safety` | order without gaps, offset and live gate ahead by one channel at most, connection never leaked | 1 install, 3 lines (live, noise, too long), chunks of 2, channel of 1, batches of 2, 1 truncation, 2 starts, failures, removal, crashes | 4.9 million |
| `ingest_liveness` | every event is recorded and the tailer reaches the end | 1 install, 3 lines, another user of the connection | 42 thousand |
| `writer` | spans tile, away time adds up and lies in its spans, sessions are disjoint; or a second reading of the log adds nothing but skipped deaths | 5 lines in 3 seconds; AFK, focus, area and start lines, 1 restart (which may lose a batch or reread a line), 1 sweep; or two areas, areas of the same second, notes, queueing, the whole log twice; or starts, level-ups and deaths of 2 characters, the whole log twice | 1.6 million |
| `writer_total` | (violated) total_secs is the session's length | 5 lines, 1 restart | - |
| `poe_oauth` | types, one login flow, a token has a refresh ahead, logins end | 1 account, 2 logins, 1 logout, 2 timers, 1 restart, a store that may refuse | 955 thousand |
| `poe_oauth_logout` | (violated) logout is final | 1 account, 1 login, 1 logout | - |
| `service` | installs: types, listed is ingested, detection that is on has a loop, one pipeline per directory, answered means saved and published; election: somebody serves | 2 connections, 1 directory, 2 requests, failures, games that come and go; or 2 directories, 3 requests one after the other, 1 crash; or 3 copies, 2 versions, 2 attempts to bind | 1.1 million |
| `link` | each callback once, the sweep's flag, resynchronisation, reconnects, sent requests end | 1 edit, 1 sweep, 1 phase change or live line, 1 loss or stop, send channel and network of 1 | 321 thousand |
| `app` | pages implement PageLoad, an ended session's header is right; slots, rows and tracker; navigation bar, wait cursor; account buttons; nothing waits for ever | per page 1 click (2 for the log and the session view), 1 piece of news, links lost and made at any time; 3 tasks in 2 kinds, 1 signal under way; 3 moves, 1 connection, 2 sub-pages; 2 clicks on account buttons, 1 lost link | 346 thousand |
| `stash_signedout` | (violated) a page that is not signed in has no league | 1 page | - |
| `accounts_login` | (violated) a login's outcome arrives | 1 lost link | - |

Why the bounds are enough. What the properties speak of takes few actors: two
tasks to collide on a key or a hint, and one more hintless rule set to tell
policies from hints; two lines fill a chunk, a third begins another one and is
what the channel of one is too small for, so the sender blocks in the middle of
a chunk; two starts are a run and the one after it. Five lines are a start, an
area and three more events, enough for an away interval to be split by an area
change and ended after it, or for a session to be left open by a restart, a
second one begun and the first swept; or a death before its character's first
level-up, another one after it, and a second character. In `poe_oauth` a second timer
lets a failed refresh arm the next one while a login arms its own, or a restart
after it; no step tells two accounts apart, so one suffices. In `link`, a channel of one makes every second
message find it full; the code's 256 behaves the same once it is full. In
`service` requests of two connections are not combined with the properties that
fail for them (section 6); three copies are an incumbent, the one that sends it
away and the one that comes in between, and the second attempt to bind is the
last. A page has one request out; one click and one event, before, during and
after it, with errors and lost links between them, are every order there is; the
window and the session list have a second click because a move may undo another.
Three tasks are the running, the waiting and the tracker; three moves reach a
sub-page, leave it and come back.

The parts of `app` and the kinds of `service` share no variable: a behaviour is of
one of them, chosen in its initial state, and the runs check the union of their
state spaces, not the product.

The other limits are named constants (`MaxLines`, `MaxRestarts`, ...) in the guards.
Runs in which the program may stop for good (nobody writes the log, no more
requests or clicks) say CHECK_DEADLOCK FALSE.

Some properties are conditional, with the condition in the formula:
`InOrderWithoutGap`, `AheadByOneChannel` speak of runs without a failed statement or a
truncation, since a failing commit loses its batch by design;
`ReadOnceAwayAgrees` of a Writer that was not recovered by a restart
(section 6); `ResyncedAfterReconnect` and `EverySentRequestEnds` of connections whose channel
never was full, kept in the history variable `dropped`; `SomebodyServes` of an
election without a mishap; `ButtonsAgree` of buttons whose requests were all
answered, none of them overtaken by a logout (`failed`, `overtaken`).

## 5. Fairness

Every fairness condition is of a goroutine, a timer or a bounded external call:

* ReqQueue: the loop, each dispatch (HTTP requests time out) and the clock. The
  idle one-hour timer is left unfair on purpose: liveness must not rest on it.
* Ingest: both goroutines of a pipeline (the 250 ms ticker, the flush timer), and
  strong fairness of the hand-over of the connection: database/sql picks a
  waiter at random, so one that can be picked again and again is picked. Nobody
  has to write the log or to stop.
* PoeOAuth: refreshes end within 30 s one way or the other, and `poe.Login` at
  the latest after five minutes; nobody has to answer in the browser.
* ServiceLink: Qt delivers signals and timers, the connection's goroutines and the
  status ticker run. Nobody has to start the service, so `Reconnects` assumes
  that it stays up.
* The app: timers fire, the event loop runs, the service answers every request,
  if only with an error. Strongly fair: a page that tries again after each error
  gets a good answer in the end, and a worker that can end does. Nobody has to
  click, to show a window or to connect: `NothingWaitsForEver` is served by a page
  that is hidden or without a link.

SessionWriter, InstallRegistry and Election have safety properties only: that
somebody serves is stated of the states in which every copy has come to rest,
which the attempts, counted down, lead to.

## 6. What the code does not promise

Four runs state what a comment or a document of the repository says and TLC shows
to be otherwise; they are in "findings":

* `writer_total`: NewWriter recovers a session's id, not its start, and the session
  is later closed with the seconds since the epoch (`writer.go:385`).
* `poe_oauth_logout`: a refresh under way at a logout stores its token afterwards
  (`poe_oauth.go:239`).
* `stash_signedout`: the answer to poe.leagues.list fills and enables the combo box
  of a page that was signed out meanwhile (`StashPage.cpp:183`).
* `accounts_login`: a login that ends with an error leaves its button waiting for the
  browser (`PoeOAuthStore.cpp:29`).

The models show more differences of this kind, seen while the properties were
looked for, which explain the conditions of section 4. They are not among the
runs:

* reqqueue: two hints that both map to one policy are dispatched side by side;
  the serial gate is per hint (`reqqueue.go:341`), the comment at 328 speaks of
  policies. `PauseServedInFull` is therefore stated for policies of one hint.
* ingest: up to a channel's worth of backlog passes the live gate
  (`tailer.go:113`), and after a crash or a removal the saved offset is ahead of
  the table by as much (both bounded by `AheadByOneChannel`); a replaced log that
  has grown past the offset is read from its middle (`tailer.go:140`); a line longer
  than a chunk stops the tailer (`tailer.go:167`).
* SessionWriter: a session recovered after a restart is closed without its earlier
  away time; after a restart the first session start closes nothing, so an older
  session stays open until a sweep, and an away interval of a lost session may
  reach into the next; a current away period has no row (`docs/schema.md:124`
  describes an open one); lines reread across a session start are filed under
  the newer session; of two areas in one second the first keeps the span; a
  sweep may end a session the Writer goes on using; and after a sweep that ended the
  session, a restart that reads two lines or more again may begin a session that
  starts before the swept one ended, which is why the run rereads one line at most;
  and an area line that is read again after a restart closes its own span (the
  insert that should open one finds that row), so that the Writer of a second
  restart finds no open span and the session goes on with a gap: the run has one
  restart.
* SessionWriter, a second reading: `docs/schema.md:5` says that "re-ingesting the
  same log file is always safe and idempotent", `docs/architecture.md:20` that
  "re-processing the same line twice is always safe". It is not quite: a death of a
  character that has not leveled up in the log so far is skipped, since the
  character has no row (`writer.go:835`), and the second reading, which finds the
  row, inserts it into character_deaths and events.
  `SecondReadingAddsEarlyDeaths` says that this is all that a second reading
  changes in the modelled tables; a run of it with the deaths forbidden has a log
  of three lines (start, death, level-up) as its counterexample. Outside the model, a
  second reading may also raise characters.played_secs: a level-up takes the
  greatest played time of its span (`writer.go:505`), which the first time had only the
  entries before it.
* SessionViewPage: a row that shows a running session asks for -1, whatever the
  newest open session is when the service answers (`LogPage.cpp:380`), while the
  header gets the row's own start (`SessionViewPage.cpp:217`). When a session starts
  afterwards, whose event makes the page load -1 anew (line 372), or when the row is
  the older one of two open sessions, the header names another session than the
  one whose cards are under it. And whichever session is picked, its header stands
  over the cards of the one before until its answer comes; an answer that was out
  for the one before is still painted under it.
  `HeaderNamesSession` therefore speaks of rows shown as ended, and of the cards
  when no request is out or owed.
* PoeOAuth: a second account's login leaves the first one flagged; a failed
  refresh may overwrite a newer timer's handle; statuses are published outside
  the lock and may go out in the other order (`poe_oauth.go:86`).
* InstallRegistry, with two connections: one directory may get two pipelines, the
  older configuration may be saved or published last; auto-detection switched
  off and on within a tick runs two loops; on Windows the loop looks a directory
  up in a spelling it is not stored under and saves and publishes every tick.
* Election: of two copies that are both better than the incumbent the worse may
  win the port, the better one ends after ten attempts; the new copy binds while
  the old one, its listener closed, still has the database open, which
  `docs/decisions/001:25` excludes ("the sole reader and writer"). The mishaps of
  `SomebodyServes` are what leaves nobody serving: an incumbent that idles out, or
  is killed along with the app that started it (`ServiceManager.cpp:76`), after
  other copies have yielded to it, and one that needs more than the seven
  seconds it is given to release the port (`server.go:173`). No app starts
  the service a second time.
* ServiceLink: a setting edited while disconnected is never sent, its callback
  waits for the next loss; a full channel drops responses without a notice; a
  status snapshot may be overtaken by the event that is newer than it
  (`server.go:1098`).
* Shell: the 200 ms timer of the preloads may expire between a click on a
  sub-page and the turn that is to build it; preload's enqueue then replaces the
  work "show", and the sub-page is built while the settings go on saying
  "Loading..." (`MainWindow.cpp:571`). `NothingWaitsForEver` therefore asks only that
  the sub-page is built. Preloads are not cancelled when the settings are left
  through the search field, nor when the timer fires after they were left,
  against the comment at `MainWindow.cpp:569`.
* Accounts: checks made before the first connection are unanswered until the
  link is lost, and are not made again after a reconnect; a delete that fails
  leaves the credential stored under a button that offers to log in; a failed
  logout publishes nothing.
* Steam (not modelled): a change of steam_id during a fetch stores one player's
  presence under another's name (`steam.go:133`).

## 7. Proofs

TLAPS checks the following for every value of the constants: any number of
tasks, lines, installs, messages, copies, clicks and restarts, channels, chunks
and batches of any size. Each module names what it assumes of its constants in
an ASSUME, which TLC evaluates on every run. Most of it is types and the
distinctness of names; what is more is what the code fixes:

* a query's first limit is no larger than its largest (`AppAssumption`):
  kInitialLimit is 100 and kMaxWindow 300 (`LogPage.h:50`, `ChatPage.h:62`, `DmPage.h:57`);
* a page starts with a choice of channels it offers (all are ticked);
* every kind of task has a slot, and nobody but MainWindow submits the general
  kind, for its tracker (`MainWindow.cpp:974`);
* the sub-pages of the settings differ from what else a timer or the stack
  of the settings may be (`SubPageAssumption`);
* a chunk, a channel and a batch have room for one element or more.

In each module the inductive invariant is an explicit conjunction, the step lemma has
one case per action, and the theorems follow with PTL.

* **ReqQueueProofs**: `TypeCorrect`, `Deduplication` (OneTaskPerKey), `HintSerial`
  (SerialPerHint) from one invariant `IInv`. OneTaskPerKey is not inductive: that a
  Submit finds an unfinished task needs `ByKeyUnfinished` (byKey points to it exactly),
  `PendingQueued` and `Submitted`; SerialPerHint needs `MarkedInFlight`, since what pickNext
  reads is the marker and not the running tasks. `Refinement` proves
  Spec => ImplementsService from the same invariant, one step at a time.
  `MaxOfNaturals` and `MinOfNaturals` are the lemmas on delays they use.
  `FifoPerHint` (FifoWithinHint) follows from pickNext's choice, since tasks under one
  hint are ready together. `PauseKept` (PauseServedInFull) needs `Pauses`: a reply names a
  policy of its task's hint, and while a policy that one hint has for itself
  imposes a pause, the hint is gated by it and no request under the hint is out
  whose answer could lift it.
* **IngestProofs**: `ConnectionReturned` (NoLeakedConnection). The strengthening says that
  who waits does not hold, a full batch holds, and a pipeline without context has
  no goroutine; `UsersDiffer` keeps the users of the connection apart.
  `InOrder` (InOrderWithoutGap) and `Ahead` (AheadByOneChannel) follow from `RunInv`:
  channel and chunk hold consecutive lines (`Contiguous`), and what was taken before
  those is every event of its stretch of the log, once and in order
  (`TakenInOrder`). What a step does to these sequences is said in lemmas on their
  elements. The bounds count lines: those that the saved offset covers and no
  row records (`Missing`), and those of the backlog that were published or may still
  be (`Gate`), which nothing joins once the gate is open.
* **PoeOAuthProofs**: `TypeCorrect`, `LoginExclusive` (OneLoginFlow), `TokenRenewed`
  (RefreshPending). Types alone are not inductive: a goroutine past "got" must have a
  token (`HasToken`), timers beyond the counter must be unborn (`Fresh`), and only
  logins are in a flow (`FlowIsLogin`).
* **ServiceProofs**, of installs: `TypeCorrect` (with Normalize, no other spelling enters
  s.tailers), `ListedIsIngested` (TailedIsLive), `DetectionNeverLost` (DetectionRuns). These need no
  strengthening but each other. `OrderlyOneTailer` and `OrderlyKnown` are of the
  specification MCService checks, in which requests come one after the other and
  none fails. `OInv` says that one request is handled at a time, that every live
  pipeline is the one listed, that with no request under way file and snapshot
  are current (`Answered`), and with one, how far it is (`OnTheWay`).
  Of the election: `ElectionServes` (SomebodyServes) and `ElectionTypes`. SomebodyServes
  speaks of copies at rest and is far from inductive. The invariant is that as
  soon as a copy has been asked to leave, an heir is under way (waiting for the
  port, binding, opening, or serving unasked), that nobody leaves unasked, and
  that as long as there is no heir somebody is still dialling. A copy that
  yields finds one by its peer: it serves unasked, or it was asked by an heir. A
  copy whose last attempt fails finds one in the holder of the port.
* **SessionWriterProofs**, of a log that is read once (`ReadOnce`: the whole log is
  not read again, and a restart reads the last line again at most; section 6
  says what two lines would do). `SessionsFollow` (SessionsDisjoint): the
  invariant `Inv` says that sessions start later and later, that a session's row
  and spans end no later than the next one starts, that the newest session has
  not ended if any has not, that the Writer is in the newest if in any, and that
  what is saved satisfies the same, since a restart goes back to it. `SpansTile` and
  `SpansTileOnce` (ReadOnceSpansTile, of what is model-checked) add `Tiled`: where one
  span ends and the next begins, that only the newest span is open, and that
  the Writer is in it. They assume `Apart`: no two areas are entered within one second, and a
  log of which a line may be read again has one restart; section 6 tells what
  happens otherwise, and the run has these bounds. `SessionsFollow` needs
  neither. The tables are sequences that only grow or change one row, so each
  handler has a lemma that says what becomes of every row (`CloseSpanDoes`,
  `BeginSessionDoes`, ...), and the invariants are proved from those lemmas.
  `AwayAgrees` (AwayAddsUp, AwayWithinSpan) and `AwayAgreesOnce` (ReadOnceAwayAgrees, of
  what is model-checked) need neither assumption of `Apart`: their invariant adds
  `Counted`, which says of every closed span and ended session that its away time
  is the sum of its rows, of the open ones that it is what the Writer has counted,
  and of a pending interval that it began in the Writer's span; it holds until a
  new Writer takes over, which counts from zero. The sums are folds over sets of
  rows; what one more row adds to them, or one that was there already, is a lemma
  shown by the least number of rows at which it would fail.
  `SecondReading` and `SecondReadingAlone` (SecondReadingAddsEarlyDeaths) compare two
  readings of one log, so the invariant, `Recorded`, needs the first one: it says
  that there is a history, one state of tables and Writer for each line, that
  starts empty, steps as the handlers do and ends in the tables the first reading
  left. The history has the roster, too: whoever is in the final roster was enlisted
  by a line of the log. The handlers never take back a row or change its key
  (`Grows`, `KeysIn`).
  Hence, at the same line, the second reading's tables are those of the history,
  the rows it has closed and the away rows, laid over the final tables (`Laid`):
  each insert finds its key taken by the row it would write, each upsert writes
  what the history's did. At the last line the history is the final tables, and
  laying them over themselves changes nothing. As the second reading's Writer is in
  the session the history's was in at that line, a death has its row already when
  its character was enlisted by then, and is an early one otherwise (`Recalls`,
  `AddsEarly`). A restart or a sweep between
  (`restarts = 0 /\ sweeps = 0` in the theorem) may leave the tables short of what
  a reading writes, and a second reading may then mend them.
* **ServiceLinkProofs**: `CallbackOnce` (CalledOnce), `SweepFlag` (OneSweep). The
  strengthening is that ids are positive, below the next one and unique among the
  pending; the drain of a lost connection needs cardinalities of finite sets.
  `Resynced` (ResyncedAfterReconnect) adds `Resyncing`: on a connection
  that is up, each subscription is in force or on its way, and the status is shown,
  or its request or answer is under way, unless a message was dropped.
* **TaskManagerProofs** and **AppProofs** prove about App, whose invariant is the
  conjunction of one for each of its parts; a step of one part leaves what the
  others' speak of as it is.
  * `PagesImplementPageLoad` (LoadSpec): each of the five pages implements PageLoad, step
    by step, under its own mapping of what is owed. The invariant adds that only a
    page in front is visible (hiding does not bring it to the front) and that a
    request is out only over a connection, without which a new connection, which
    asks at once, would ask twice. `PagesShowWhatIsWanted` draws what this is good for: a page
    with no request out and none owed shows what was wanted last, or an error.
    It is proved of PageLoad alone and carried over by the refinement.
  * `HeaderRight` (HeaderNamesSession): that the header is of the page's target is in
    the page's invariant (`NamesTarget`), that the cards are of it too is
    `PagesShowWhatIsWanted`, as this page has no error among its answers.
  * `BarTellsThePage` (NavAgrees), from an invariant that ties the bar's three fields
    to the page of the stack.
  * `SlotsInUse` (SlotsFilled), `PanelTellsTheTasks` (RowsMatchTasks), `TrackerAlive` (TrackerHeld). That
    dequeuing fills the slots of a kind with its oldest waiting tasks is a lemma
    about cardinalities (by the least task that was not started). The strengthening,
    `Told`, says that a worker that is over has put its last signal into the mailbox,
    behind all its others, and that only general tasks are trackers.
  * `ButtonsTellTheTruth` (ButtonsAgree). At rest means that nothing is under way,
    so the invariant says what each message under way will make true: an answer
    says what the service has (`Truthful`), no delete follows a store on the same way
    (`Ordered`), a button is enabled by its one check (`CheckedOnce`), and what it believes
    differs from what is stored only by an answer that is coming or a delete.
  * `CursorIsForTheTarget` (CursorMeansWaiting). The invariant, `Cursor`, says that the queue
    holds a sub-page at most once, that its timer is out only while a task is
    queued (so that processNextTask finds one), and that without "Loading..." no
    sub-page is asked for that is not built: then leaving has nothing to demote.
    What filtering the queue (`ElementsAre`) and preloading (`PreloadedQueue`) leave in
    it is recursive, and shown by the least length at which it would fail.
  * `TypesKept` (TypeOK), from the types in the invariants above and, of the tasks,
    that one that has begun never waits again (`Rest`).

Only model-checked:

* liveness (EveryTaskEnds, EveryEventRecorded, LoginEnds, Reconnects, EverySentRequestEnds,
  NothingWaitsForEver): it rests on fairness and ENABLED, which are out of
  TLAPS's reach. Every safety invariant of the passing runs is stated by a theorem.
  Of `SecondReadingAddsEarlyDeaths`, the theorems are about SessionWriter's own
  specification with any constants; MCSessionWriter's second and third kinds of
  behaviour are two instances of it.

No module with a theorem declares RECURSIVE operators. Nothing is proved by a
library's induction theorem; where an argument is inductive it takes the least
counterexample (`Least`).

## 8. What is abstracted, and what is left out

* ReqQueue: Policies and Waiter.Wait only read; error texts and results are not told apart.
* Ingest: a line is one unit and yields at most one event; errors of a handler and
  blank lines are left out; a crash keeps every committed row (SQLite's own
  durability is taken as given); an install starts again only after both
  goroutines of its former pipeline have returned.
* SessionWriter: failing statements, ids that dangle after a failed commit; what a
  level-up does but to enlist its character (its level, its span's character,
  played_secs); reference tables; the handlers that write whether a session is open
  or not and read nothing a session has (guild joined, guild members, chat channels,
  client screens). A row of `Note` is its line, so that two lines whose key is the
  same have two rows. The sweep is one step between two batches
  (it runs on the same connection, its four statements are not interleaved).
* PoeOAuth: lastError, token times (any refresh may find the token past its window),
  HTTP, PKCE, the loopback listener; a login is its outcome.
* InstallRegistry: debug_logging, executable_names and steam_id, which are single
  stores; the process scan is any subset of the games that may run.
* Election: seconds. Two seconds of waiting and ten attempts half a second apart
  are a number of attempts, and an incumbent that outlasts them is a mishap. A
  service that hangs is one that does not answer in time.
* ServiceLink: connections of other clients, unsubscribe, ping and keepalive (the
  app sends none), percentages. A
  publication is one step: what the hub does between its snapshot of the
  subscribers and the send could as well be done before the one or after the
  other, since the client never unsubscribes.
* Pages: rows, cards, colours, scroll positions and labels, but for the session view's header; a message is its
  channel or its partner; a query's window counts steps. Errors are shown or
  retried as the code does, their texts are left out. SessionViewPage's onLoadMore
  is left out: no path shows its button.
* TaskManager: a worker's percentage is low or full; cancelAll and
  setMaxConcurrent, which only tests call, are a cancel of every task and a constant.
* Shell: SettingsPage is built before it is shown; the contents of the sub-pages
  are Accounts and ServiceLink's settings; quitting ends the program.
* Accounts: the login windows' web pages, texts, the browser.
* Not modelled because there is no control to model: text matching in the parser,
  the SELECTs of `query`, wire structs, the HTTP clients and PKCE, lookup tables,
  start-up flags, widgets, overlay and window tracking, developer scripts.
* Not modelled yet: the modules of section 2, and with them the hazards of
  `PROJECT.json` that name them.

## 9. Running it

    tlc -workers 2 -config Ingest_safety.cfg MCIngest
    tlapm IngestProofs.tla

Each run ends within four minutes on two workers.
