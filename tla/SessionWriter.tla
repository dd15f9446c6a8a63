---------------------------- MODULE SessionWriter ----------------------------
(***************************************************************************)
(* What poe-info-service makes of one Client.txt (internal/ingest): the    *)
(* Writer that turns parsed lines into sessions, area spans, away          *)
(* intervals and the rows attached to a session, the orphan sweep that     *)
(* closes sessions of games that are gone, and restarts, after which a new *)
(* Writer goes on from the tables alone.                                   *)
(*                                                                         *)
(* A timestamp is its number of seconds, and NoTs both the empty string    *)
(* and SQL's NULL (tsToSecs of the empty string is 0, too).  Row ids are   *)
(* positions in a table.  All events that only insert rows, whenever a     *)
(* session is open, are one kind, "note"; a row's content is its line      *)
(* number.  The tables of characters, which a death is looked up in, are   *)
(* kept apart from the others.                                             *)
(***************************************************************************)
EXTENDS Integers, Sequences, FiniteSets, FiniteSetsExt

CONSTANTS
  Area,         (* the areas a player enters                               *)
  Char,         (* the player's characters, by name                        *)
  None,         (* no area: the character select screen; no character      *)
  LineKinds,    (* the kinds of lines this log has                         *)
  SameSecond,   (* an area may be entered in the second of the last one    *)
  Rereads,      (* how many lines a restart may read again                 *)
  WholeAgain,   (* the whole log may be ingested a second time             *)
  MaxLines,     (* bound: lines in the log                                 *)
  MaxTime,      (* bound: seconds                                          *)
  MaxRestarts,  (* bound: restarts                                         *)
  MaxSweeps     (* bound: sessions.closeOrphans requests                   *)

Kind == {"start", "area", "afk_on", "afk_off", "lost", "gained", "note",
         "queue", "unqueue", "level", "death"}

ASSUME WriterAssumption ==
  /\ None \notin Area \cup Char
  /\ LineKinds \subseteq Kind
  /\ SameSecond \in BOOLEAN /\ WholeAgain \in BOOLEAN
  /\ Rereads \subseteq Nat
  /\ MaxLines \in Nat /\ MaxTime \in Nat /\ MaxRestarts \in Nat /\ MaxSweeps \in Nat

VARIABLES
  db,         (* the tables, as the writer's transaction sees them         *)
  saved,      (* the tables as of the last commit                          *)
  roster,     (* more tables: the characters known, and their deaths       *)
  savedRoster,
  w,          (* the Writer's fields                                       *)
  altTab,     (* Parser.altTabOutTs is set                                 *)
  log,        (* the lines of Client.txt                                   *)
  todo,       (* lines a restart has still to read again                   *)
  restarts, sweeps,
  before      (* history: the tables before the whole log was read again   *)

vars == <<db, saved, roster, savedRoster, w, altTab, log, todo, restarts, sweeps, before>>

NoTs == 0
NoId == 0
Away == {"afk", "alt_tab"}

max0(n) == IF n < 0 THEN 0 ELSE n

-----------------------------------------------------------------------------
(* A Writer.  x is a pair of tables and writer fields, [db, w].            *)

NoWriter == [session |-> NoId, start |-> NoTs, afk |-> 0,
             away |-> [k \in Away |-> NoTs],
             span |-> NoId, spanAfk |-> 0, queue |-> <<>>, last |-> NoTs]

Unended(d) == {s \in DOMAIN d.sessions : d.sessions[s].end = NoTs}
Newest(d, S) == CHOOSE s \in S : \A o \in S : d.sessions[o].start <= d.sessions[s].start
OpenSpans(d, s) == {i \in DOMAIN d.spans : d.spans[i].session = s /\ d.spans[i].exited = NoTs}

(* NewWriter takes the ids of the session and the span left open, and      *)
(* nothing else: not when the session started nor its away time.           *)
NewWriterWithoutSpan(d) ==                                      \* mutant
  IF Unended(d) = {} THEN NoWriter
                     ELSE [NoWriter EXCEPT !.session = Newest(d, Unended(d))]
NewWriter(d) ==
  IF Unended(d) = {} THEN NoWriter
  ELSE LET s == Newest(d, Unended(d))
           open == OpenSpans(d, s)
       IN  [NoWriter EXCEPT
              !.session = s,
              !.span = IF open = {} THEN NoId
                       ELSE CHOOSE i \in open :
                              \A j \in open : d.spans[j].entered <= d.spans[i].entered]

(* writeAwayRow, an upsert on (session, kind, afk_on_at).                  *)
writeAwayRow(d, row) ==
  IF row.session = NoId THEN d
  ELSE [d EXCEPT !.away = {row} \cup
          {r \in @ : <<r.session, r.kind, r.on>> # <<row.session, row.kind, row.on>>}]

finalizeAwaySegment(x, kind, end) ==
  LET on  == x.w.away[kind]
      dur == max0(end - on)
  IN  [db |-> writeAwayRow(x.db, [session |-> x.w.session, span |-> x.w.span,
                                  kind |-> kind, on |-> on, off |-> end]),
       w  |-> [x.w EXCEPT !.afk = @ + dur, !.spanAfk = @ + dur]]

(* The away time of one kind up to end, if any, which then goes on or not. *)
Carry(next, end) == IF next THEN end ELSE NoTs

EndAwayUnsplit(x, kind, end, next) ==                           \* mutant
  IF x.w.away[kind] = NoTs \/ next THEN x
  ELSE [finalizeAwaySegment(x, kind, end) EXCEPT !.w.away[kind] = NoTs]
EndAway(x, kind, end, next) ==
  IF x.w.away[kind] = NoTs THEN x
  ELSE LET y == finalizeAwaySegment(x, kind, end)
       IN  [y EXCEPT !.w.away[kind] = Carry(next, end)]

EndBoth(x, end, next) == EndAway(EndAway(x, "afk", end, next), "alt_tab", end, next)

closeSpan(x, end, next) ==
  IF x.w.span = NoId \/ end = NoTs THEN x
  ELSE LET y == EndBoth(x, end, next)
       IN  [db |-> [y.db EXCEPT !.spans[x.w.span].exited = end,
                                !.spans[x.w.span].afk = y.w.spanAfk],
            w  |-> [y.w EXCEPT !.span = NoId, !.spanAfk = 0]]

(* INSERT OR IGNORE on (session_id, entered_at): a second span of the same *)
(* second is the first one again, area and all.                            *)
openSpan(x, ts, area) ==
  IF x.w.session = NoId THEN x
  ELSE LET same == {i \in DOMAIN x.db.spans : /\ x.db.spans[i].session = x.w.session
                                              /\ x.db.spans[i].entered = ts}
           new == [session |-> x.w.session, area |-> area, entered |-> ts,
                   exited |-> NoTs, afk |-> 0]
       IN  IF same = {}
             THEN [db |-> [x.db EXCEPT !.spans = Append(@, new)],
                   w  |-> [x.w EXCEPT !.span = Len(x.db.spans) + 1, !.spanAfk = 0]]
             ELSE [x EXCEPT !.w.span = CHOOSE i \in same : TRUE, !.w.spanAfk = 0]

EndRow(row, end, afk, start) ==
  LET total == max0(end - start)
  IN  [row EXCEPT !.end = end, !.total = total, !.afk = afk, !.active = max0(total - afk)]

closeSession(x, end) ==
  IF x.w.session = NoId \/ end = NoTs THEN x
  ELSE LET y == EndBoth(closeSpan(x, end, FALSE), end, FALSE)
       IN  [db |-> [y.db EXCEPT !.sessions[x.w.session] = EndRow(@, end, y.w.afk, y.w.start)],
            w  |-> [y.w EXCEPT !.session = NoId, !.start = NoTs, !.afk = 0, !.queue = <<>>]]

(* INSERT OR IGNORE on (install_id, started_at), then the row's id.        *)
beginSessionAnew(x, ts) ==                                      \* mutant
  [db |-> [x.db EXCEPT !.sessions =
             Append(@, [start |-> ts, end |-> NoTs, total |-> 0, afk |-> 0, active |-> 0])],
   w  |-> [x.w EXCEPT !.session = Len(x.db.sessions) + 1, !.start = ts, !.afk = 0]]
beginSession(x, ts) ==
  LET same == {s \in DOMAIN x.db.sessions : x.db.sessions[s].start = ts}
      new  == [start |-> ts, end |-> NoTs, total |-> 0, afk |-> 0, active |-> 0]
      d    == IF same = {} THEN [x.db EXCEPT !.sessions = Append(@, new)] ELSE x.db
      id   == IF same = {} THEN Len(d.sessions) ELSE CHOOSE s \in same : TRUE
  IN  [db |-> d, w |-> [x.w EXCEPT !.session = id, !.start = ts, !.afk = 0]]

ensureSession(x, ts) ==
  IF x.w.session # NoId THEN x
  ELSE IF Unended(x.db) # {}
         THEN LET s == Newest(x.db, Unended(x.db))
              IN  [x EXCEPT !.w.session = s, !.w.start = x.db.sessions[s].start]
         ELSE beginSession(x, ts)

handleSessionStart(x, ts) ==
  openSpan(beginSession(closeSession(x, x.w.last), ts), ts, None)

handleAreaEntered(x, ts, area) ==
  openSpan(closeSpan(ensureSession(x, ts), ts, TRUE), ts, area)

handleAway(x, kind, ts) == [x EXCEPT !.w.away[kind] = ts]
handleBack(x, kind, ts) == EndAway(x, kind, ts, FALSE)

(* quest, general, achievement, hideout, played, passive, whisper, chat    *)
(* rows.                                                                   *)
handleNote(x, line) ==
  IF x.w.session = NoId THEN x
  ELSE [x EXCEPT !.db.notes = @ \cup {[session |-> x.w.session, line |-> line]}]

QueueRow(d, key) == {q \in d.queues : <<q.session, q.at>> = key}

handlePvpQueue(x, ts) ==
  LET key == <<x.w.session, ts>> IN
  IF x.w.session = NoId \/ QueueRow(x.db, key) # {} THEN x
  ELSE [db |-> [x.db EXCEPT !.queues = @ \cup {[session |-> x.w.session, at |-> ts,
                                                cancelled |-> NoTs]}],
        w  |-> [x.w EXCEPT !.queue = key]]

handlePvpQueueCancelled(x, ts) ==
  IF x.w.queue = <<>> THEN x
  ELSE LET row == QueueRow(x.db, x.w.queue)
       IN  [db |-> [x.db EXCEPT !.queues =
                      (@ \ row) \cup {[q EXCEPT !.cancelled = ts] : q \in row}],
            w  |-> [x.w EXCEPT !.queue = <<>>]]

(* Nobody else adds a character, and no session need be open for it.       *)
handleLevelUp(r, who) == [chars |-> r.chars \cup {who}, deaths |-> r.deaths]

(* INSERT OR IGNORE on (session_id, char_id, occurred_at).  A character    *)
(* without a row has not been seen to level up so far.                     *)
handleCharacterDeath(r, session, l) ==
  IF session = NoId \/ l.who \notin r.chars THEN r
  ELSE [chars |-> r.chars,
        deaths |-> r.deaths \cup {[session |-> session, who |-> l.who, at |-> l.ts]}]

-----------------------------------------------------------------------------
(* closeOrphanSession: ended at the last activity in the area spans.       *)

Last(S) == Max(S)
Secs(rows) == MapThenSumSet(LAMBDA r : r.off - r.on, rows)
AwayOf(d, s) == {r \in d.away : r.session = s}

LastKnownAnywhere(d, s) ==                                      \* mutant
  Last({d.sessions[s].start} \cup {d.spans[i].entered : i \in DOMAIN d.spans})
LastKnown(d, s) ==
  Last({d.sessions[s].start} \cup
       {IF sp.exited = NoTs THEN sp.entered ELSE sp.exited :
          sp \in {d.spans[i] : i \in {j \in DOMAIN d.spans : d.spans[j].session = s}}})

(* The open span an orphan's query finds is closed with it.  Each session  *)
(* has its rows for itself, so the orphans' order does not matter.         *)
orphanSpan(d, s) ==
  LET open == OpenSpans(d, s)
  IN  CHOOSE i \in open : \A j \in open : d.spans[i].entered <= d.spans[j].entered

closeOrphanSession(d, s) ==
  EndRow(d.sessions[s], LastKnown(d, s), Secs(AwayOf(d, s)), d.sessions[s].start)

closeOrphanSpan(d, i) ==
  LET s == d.spans[i].session
  IN  IF i = orphanSpan(d, s) THEN [d.spans[i] EXCEPT !.exited = LastKnown(d, s)] ELSE d.spans[i]

CloseOrphans(d) ==
  [d EXCEPT
     !.sessions = [s \in DOMAIN d.sessions |->
                     IF s \in Unended(d) THEN closeOrphanSession(d, s) ELSE d.sessions[s]],
     !.spans = [i \in DOMAIN d.spans |->
                  IF d.spans[i].session \in Unended(d) /\ d.spans[i].exited = NoTs
                    THEN closeOrphanSpan(d, i) ELSE d.spans[i]]]

-----------------------------------------------------------------------------
Init ==
  /\ db = [sessions |-> <<>>, spans |-> <<>>, away |-> {}, notes |-> {}, queues |-> {}]
  /\ saved = db
  /\ roster = [chars |-> {}, deaths |-> {}] /\ savedRoster = roster
  /\ w = NoWriter
  /\ altTab = FALSE
  /\ log = <<>> /\ todo = <<>>
  /\ restarts = 0 /\ sweeps = 0
  /\ before = <<>>

Now == IF log = <<>> THEN 1 ELSE log[Len(log)].ts

(* The game's next line.  The log opens with a start, the game takes at    *)
(* least a second to be started again, and to load an area unless          *)
(* SameSecond.                                                             *)
FreshLines ==
  {[kind |-> k, ts |-> t, area |-> a, who |-> c] :
     k \in LineKinds, t \in Now .. MaxTime, a \in Area \cup {None}, c \in Char \cup {None}}

Entry(l) == l.kind \in {"start", "area"}

Possible(l) ==
  /\ (l.kind = "area") <=> (l.area # None)
  /\ (l.kind \in {"level", "death"}) <=> (l.who # None)
  /\ log = <<>> => l.kind = "start"
  /\ l.kind = "start" => \A i \in 1 .. Len(log) : Entry(log[i]) => log[i].ts < l.ts
  /\ l.kind = "area" /\ ~SameSecond => \A i \in 1 .. Len(log) : Entry(log[i]) => log[i].ts < l.ts

(* The next line the tailer forwards: one to be read again, or a new one.  *)
Line == Len(log) - Len(todo) + 1
Reads(l) ==
  IF todo # <<>>
    THEN /\ l = Head(todo) /\ todo' = Tail(todo)
         /\ UNCHANGED log
    ELSE /\ before = <<>>
         /\ Len(log) < MaxLines /\ Possible(l)
         /\ log' = Append(log, l)
         /\ UNCHANGED todo

NextLines == IF todo # <<>> THEN {Head(todo)} ELSE FreshLines

Here == [db |-> db, w |-> w]

(* What reading a line leaves alone.                                       *)
restVars == <<saved, savedRoster, restarts, sweeps, before>>

Becomes(x, l) ==
  /\ db' = x.db
  /\ w' = [x.w EXCEPT !.last = l.ts]
  /\ UNCHANGED <<roster, restVars>>

On(kind, l) == l.kind = kind /\ Reads(l)

SessionStart == \E l \in NextLines :
  /\ On("start", l)
  /\ Becomes(handleSessionStart(Here, l.ts), l)
  /\ altTab' = FALSE

AreaEntered == \E l \in NextLines :
  /\ On("area", l)
  /\ Becomes(handleAreaEntered(Here, l.ts, l.area), l)
  /\ UNCHANGED altTab

AfkOn == \E l \in NextLines :
  /\ On("afk_on", l)
  /\ Becomes(handleAway(Here, "afk", l.ts), l)
  /\ UNCHANGED altTab

AfkOff == \E l \in NextLines :
  /\ On("afk_off", l)
  /\ Becomes(handleBack(Here, "afk", l.ts), l)
  /\ UNCHANGED altTab

(* The parser turns focus lines into events only when they change its mind. *)
FocusLost == \E l \in NextLines :
  /\ On("lost", l)
  /\ IF altTab THEN UNCHANGED <<db, w, roster, restVars>>
               ELSE Becomes(handleAway(Here, "alt_tab", l.ts), l)
  /\ altTab' = TRUE

FocusGained == \E l \in NextLines :
  /\ On("gained", l)
  /\ IF altTab THEN Becomes(handleBack(Here, "alt_tab", l.ts), l)
               ELSE UNCHANGED <<db, w, roster, restVars>>
  /\ altTab' = FALSE

Note == \E l \in NextLines :
  /\ On("note", l)
  /\ Becomes(handleNote(Here, Line), l)
  /\ UNCHANGED altTab

PvpQueue == \E l \in NextLines :
  /\ On("queue", l)
  /\ Becomes(handlePvpQueue(Here, l.ts), l)
  /\ UNCHANGED altTab

PvpQueueCancelled == \E l \in NextLines :
  /\ On("unqueue", l)
  /\ Becomes(handlePvpQueueCancelled(Here, l.ts), l)
  /\ UNCHANGED altTab

RosterBecomes(r, l) ==
  /\ roster' = r
  /\ w' = [w EXCEPT !.last = l.ts]
  /\ UNCHANGED <<db, restVars>>

LevelUp == \E l \in NextLines :
  /\ On("level", l)
  /\ RosterBecomes(handleLevelUp(roster, l.who), l)
  /\ UNCHANGED altTab

CharacterDeath == \E l \in NextLines :
  /\ On("death", l)
  /\ RosterBecomes(handleCharacterDeath(roster, w.session, l), l)
  /\ UNCHANGED altTab

(* The batch is committed: full, or after an idle moment.                  *)
NoBatch == db = saved /\ roster = savedRoster

CommitBatch ==
  /\ ~NoBatch
  /\ saved' = db /\ savedRoster' = roster
  /\ UNCHANGED <<db, roster, w, altTab, log, todo, restarts, sweeps, before>>

(* sessions.closeOrphans without this install among the running ones, on   *)
(* the one connection and thus between two batches.                        *)
Sweep ==
  /\ sweeps < MaxSweeps /\ NoBatch /\ Unended(db) # {}
  /\ sweeps' = sweeps + 1
  /\ db' = CloseOrphans(db) /\ saved' = db'
  /\ UNCHANGED <<roster, savedRoster, w, altTab, log, todo, restarts, before>>

(* A new Writer on the committed tables.                                   *)
Resume(n) ==
  /\ db' = saved /\ roster' = savedRoster
  /\ w' = NewWriter(saved)
  /\ altTab' = FALSE
  /\ todo' = SubSeq(log, Len(log) - n + 1, Len(log))

(* A crash or a stop.  Where the tailer goes on is Ingest's concern: lines *)
(* rolled back with the batch may be skipped, others may be read again.    *)
Restart ==
  /\ restarts < MaxRestarts /\ before = <<>> /\ todo = <<>>
  /\ restarts' = restarts + 1
  /\ \E n \in Rereads : n <= Len(log) /\ Resume(n)
  /\ UNCHANGED <<saved, savedRoster, log, sweeps, before>>

(* The whole log is ingested once more, from its first line.               *)
ReadAgain ==
  /\ WholeAgain /\ before = <<>> /\ todo = <<>> /\ log # <<>> /\ NoBatch
  /\ before' = <<db, roster>>
  /\ Resume(Len(log))
  /\ UNCHANGED <<saved, savedRoster, log, restarts, sweeps>>

Next ==
  \/ SessionStart \/ AreaEntered \/ AfkOn \/ AfkOff \/ FocusLost \/ FocusGained
  \/ Note \/ PvpQueue \/ PvpQueueCancelled \/ LevelUp \/ CharacterDeath
  \/ CommitBatch \/ Sweep \/ Restart \/ ReadAgain

Spec == Init /\ [][Next]_vars

-----------------------------------------------------------------------------
Session == 1 .. Len(db.sessions)
Span == 1 .. Len(db.spans)
SpansOf(s) == {i \in Span : db.spans[i].session = s}
Ended(s) == db.sessions[s].end # NoTs
Closed(i) == db.spans[i].exited # NoTs /\ i # w.span

(* The spans of a session follow each other without a gap or an overlap,   *)
(* from the session's start to its end: no second of play is counted for   *)
(* two areas or for none, whatever was skipped or lost in between          *)
(* (handleAreaEntered, closeSpan, NewWriter).                              *)
SpansTileSession ==
  \A s \in Session :
    /\ \A i \in SpansOf(s) : Closed(i) =>
         \/ \E j \in SpansOf(s) \ {i} : db.spans[j].entered = db.spans[i].exited
         \/ Ended(s) /\ db.spans[i].exited = db.sessions[s].end
    /\ \A i, j \in SpansOf(s) : i < j =>
         /\ db.spans[i].entered < db.spans[j].entered
         /\ Closed(i) /\ db.spans[i].exited <= db.spans[j].entered
    /\ \A i \in SpansOf(s) : db.spans[i].entered >= db.sessions[s].start

(* Until a new Writer takes over, which starts from zero, away time adds up *)
(* from the session_afk rows: the one of each span, and the one of every   *)
(* ended session, also when the sweep ended it under the Writer's hands    *)
(* (the Writer then ends it once more).                                    *)
AwayAddsUp ==
  restarts = 0 =>
    /\ \A i \in Span : Closed(i) => db.spans[i].afk = Secs({r \in db.away : r.span = i})
    /\ \A s \in Session : Ended(s) /\ s # w.session => db.sessions[s].afk = Secs(AwayOf(db, s))

(* An away interval belongs to a span it lies in, however area changes     *)
(* split it; after a restart one may have begun in a session that was lost. *)
AwayWithinSpan ==
  restarts = 0 =>
    \A r \in db.away : r.span # NoId =>
      /\ db.spans[r.span].session = r.session
      /\ db.spans[r.span].entered <= r.on /\ r.on <= r.off
      /\ Closed(r.span) => r.off <= db.spans[r.span].exited

(* A session that ended did so before the next one started.                *)
SessionsDisjoint ==
  \A s, t \in Session : Ended(s) /\ db.sessions[s].start < db.sessions[t].start =>
    db.sessions[s].end <= db.sessions[t].start

(* Reading the whole log once more leaves the tables as they were, as the  *)
(* UNIQUE keys and the upserts make each handler's rows fall on the first  *)
(* ones; but it adds the deaths of characters that had not leveled up yet  *)
(* when they died, and were not known the first time.                      *)
EarlyDeath(r) ==
  \E j \in 1 .. Len(log) :
    /\ log[j].kind = "death" /\ log[j].who = r.who /\ log[j].ts = r.at
    /\ \A i \in 1 .. j : ~(log[i].kind = "level" /\ log[i].who = r.who)

SecondReadingAddsEarlyDeaths ==
  before # <<>> /\ todo = <<>> =>
    /\ db = before[1] /\ roster.chars = before[2].chars
    /\ before[2].deaths \subseteq roster.deaths
    /\ \A r \in roster.deaths \ before[2].deaths : EarlyDeath(r)

-----------------------------------------------------------------------------
(* A statement of the documentation that does not hold.                    *)

(* "Captures the full time range": total_secs is the session's length.     *)
TotalIsLength ==
  \A s \in Session : Ended(s) => db.sessions[s].total = db.sessions[s].end - db.sessions[s].start
=============================================================================
