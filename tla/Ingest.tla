------------------------------- MODULE Ingest -------------------------------
(***************************************************************************)
(* The ingest pipelines of poe-info-service: one tailer (internal/tailer)  *)
(* and one broadcastLogEvents goroutine (internal/server/server.go) per    *)
(* install, joined by a bounded channel, all of them writing through the   *)
(* one database connection openDB allows (SetMaxOpenConns(1)).             *)
(*                                                                         *)
(* A line is named by its place among all the lines ever written to an     *)
(* install's Client.txt; the file itself is the lines after the last       *)
(* truncation.  Offsets count lines.  A line of kind "long" is one that    *)
(* does not fit in pollChunkBytes.  Each line yields at most one event:    *)
(* "live" ones are broadcast, "quiet" ones are only recorded, "noise"      *)
(* parses to nothing.                                                      *)
(***************************************************************************)
EXTENDS Naturals, Sequences, FiniteSets

CONSTANTS
  Install,      (* the configured installs                                *)
  Kind,         (* the kinds of lines the game may write                  *)
  Chunk,        (* pollChunkBytes, in lines                               *)
  Cap,          (* capacity of eventCh                                    *)
  MaxBatch,     (* maxBatchEvents                                         *)
  MayFail,      (* whether the database may refuse a statement            *)
  MaxLines,     (* bound: lines ever written per install                  *)
  MaxTruncates, (* bound: how often a log is truncated or replaced        *)
  MaxStarts,    (* bound: how often a pipeline is started                 *)
  MayStop,      (* whether installs may be removed                        *)
  Free,         (* nobody holds the connection                            *)
  Others        (* the other users of the write connection                *)

ASSUME IngestAssumption ==
  /\ Kind \subseteq {"live", "quiet", "noise", "long"}
  /\ Chunk \in Nat \ {0} /\ Cap \in Nat \ {0} /\ MaxBatch \in Nat \ {0}
  /\ MayFail \in BOOLEAN
  /\ MaxLines \in Nat /\ MaxTruncates \in Nat /\ MaxStarts \in Nat
  /\ MayStop \in BOOLEAN
  /\ Free \notin Others
  /\ (Others \cup {Free}) \cap ({"tailer", "writer"} \X Install) = {}

VARIABLES
  lines,     (* the lines ever written, oldest first                       *)
  base,      (* how many of them are no longer in the file                 *)
  saved,     (* installs.last_byte_offset                                  *)
  table,     (* the lines whose events are committed, in commit order      *)
  conn,      (* who holds the write connection                             *)
  waiting,   (* who is blocked asking for it                               *)
  tail,      (* what the tailer goroutine is doing                         *)
  offset,    (* Run's local offset                                         *)
  chunk,     (* lines of the chunk poll() has not sent yet                 *)
  consumed,  (* poll()'s consumed, also t.offset                           *)
  drained,   (* poll()'s drainedToEnd                                      *)
  caughtUp,  (* t.caughtUp                                                 *)
  eventCh,   (* the channel between the two goroutines                     *)
  writer,    (* what broadcastLogEvents is doing                           *)
  hand,      (* the line it received last                                  *)
  tx,        (* the lines applied in its open transaction                  *)
  ctx,       (* "none", "live" or "done": the install's context            *)
  starts, truncates,                                (* counters for bounds *)
  \* History, for the properties only.
  startId,   (* the last line the saved offset covered when it started     *)
  backlog,   (* lines already written when the pipeline started            *)
  startRows, (* rows committed before it started                           *)
  published, (* lines published to the "clientlog" topic in this run       *)
  failed     (* a statement failed in this run                             *)

logVars  == <<lines, base, truncates>>
dbVars   == <<saved, table>>
tailVars == <<tail, offset, chunk, consumed, drained, caughtUp>>
histVars == <<startId, backlog, startRows, failed>>
vars == <<logVars, dbVars, conn, waiting, tailVars, eventCh, writer, hand, tx,
          ctx, starts, histVars, published>>

Line     == 1 .. MaxLines
Tailer(i) == <<"tailer", i>>
Writer(i) == <<"writer", i>>
Users    == ({"tailer", "writer"} \X Install) \cup Others

IsEvent(i, n) == lines[i][n] \in {"live", "quiet"}
FileLen(i)    == Len(lines[i]) - base[i]

(* The lines from..to, as a sequence of line numbers.                      *)
Lines(from, to) == [k \in 1 .. (IF to < from THEN 0 ELSE to + 1 - from) |->
                      from + k - 1]

(* The last line a read of at most Chunk lines starting after line `from`  *)
(* has whole: it ends at the end of the file, or of the chunk, or before a *)
(* line too long for the chunk.                                            *)
ReadEnd(i, from) ==
  CHOOSE e \in from .. Len(lines[i]) :
    /\ e <= from + Chunk
    /\ \A n \in from + 1 .. e : lines[i][n] # "long"
    /\ \/ e = Len(lines[i])
       \/ e = from + Chunk
       \/ lines[i][e + 1] = "long"

(* Fewer than Chunk lines, none of them longer than a chunk.               *)
ReadDrains(i, from) ==
  /\ Len(lines[i]) - from < Chunk
  /\ \A n \in from + 1 .. Len(lines[i]) : lines[i][n] # "long"

Init ==
  /\ lines = [i \in Install |-> <<>>]
  /\ base = [i \in Install |-> 0]
  /\ saved = [i \in Install |-> 0]
  /\ table = [i \in Install |-> <<>>]
  /\ conn = Free
  /\ waiting = {}
  /\ tail = [i \in Install |-> "exited"]
  /\ offset = [i \in Install |-> 0]
  /\ chunk = [i \in Install |-> <<>>]
  /\ consumed = [i \in Install |-> 0]
  /\ drained = [i \in Install |-> FALSE]
  /\ caughtUp = [i \in Install |-> FALSE]
  /\ eventCh = [i \in Install |-> <<>>]
  /\ writer = [i \in Install |-> "exited"]
  /\ hand = [i \in Install |-> 0]
  /\ tx = [i \in Install |-> <<>>]
  /\ ctx = [i \in Install |-> "none"]
  /\ starts = [i \in Install |-> 0]
  /\ truncates = [i \in Install |-> 0]
  /\ startId = [i \in Install |-> 0]
  /\ backlog = [i \in Install |-> 0]
  /\ startRows = [i \in Install |-> 0]
  /\ published = [i \in Install |-> {}]
  /\ failed = [i \in Install |-> FALSE]

-----------------------------------------------------------------------------
(* The game writes its log, and may replace it by an empty one.            *)

GameWrites(i, kind) ==
  /\ Len(lines[i]) < MaxLines
  /\ lines' = [lines EXCEPT ![i] = Append(@, kind)]
  /\ UNCHANGED <<base, truncates, dbVars, conn, waiting, tailVars, eventCh,
                 writer, hand, tx, ctx, starts, histVars, published>>

GameTruncates(i) ==
  /\ truncates[i] < MaxTruncates
  /\ truncates' = [truncates EXCEPT ![i] = @ + 1]
  /\ base' = [base EXCEPT ![i] = Len(lines[i])]
  /\ UNCHANGED <<lines, dbVars, conn, waiting, tailVars, eventCh, writer,
                 hand, tx, ctx, starts, histVars, published>>

-----------------------------------------------------------------------------
(* The connection pool: a user asks, waits and is handed the connection.   *)
(* database/sql picks any of the waiters when it is put back.              *)

(* Asking for the connection of a transaction or a statement.              *)
Asks(u) == waiting' = waiting \cup {u}

Grant(u) ==
  /\ conn = Free
  /\ u \in waiting
  /\ conn' = u
  /\ waiting' = waiting \ {u}
  /\ UNCHANGED <<logVars, dbVars, tailVars, eventCh, writer, hand, tx, ctx,
                 starts, histVars, published>>

(* Request handlers, other writers: take it for a while and put it back.   *)
OtherAsks(o) ==
  /\ conn # o
  /\ o \notin waiting
  /\ Asks(o)
  /\ UNCHANGED <<logVars, dbVars, conn, tailVars, eventCh, writer, hand, tx,
                 ctx, starts, histVars, published>>

OtherReleases(o) ==
  /\ conn = o
  /\ conn' = Free
  /\ UNCHANGED <<logVars, dbVars, waiting, tailVars, eventCh, writer, hand, tx,
                 ctx, starts, histVars, published>>

-----------------------------------------------------------------------------
(* addInstallTarget, removeInstall and the end of the process.             *)

Start(i) ==
  /\ ctx[i] = "none"
  /\ starts[i] < MaxStarts
  /\ conn = Free                  \* EnsureInstall, NewWriter, loadOffset
  /\ starts' = [starts EXCEPT ![i] = @ + 1]
  /\ ctx' = [ctx EXCEPT ![i] = "live"]
  /\ tail' = [tail EXCEPT ![i] = "idle"]
  /\ offset' = [offset EXCEPT ![i] = saved[i]]
  /\ consumed' = [consumed EXCEPT ![i] = saved[i]]
  /\ caughtUp' = [caughtUp EXCEPT ![i] = FALSE]
  /\ writer' = [writer EXCEPT ![i] = "idle"]
  /\ published' = [published EXCEPT ![i] = {}]
  /\ startId' = [startId EXCEPT ![i] = base[i] + saved[i]]
  /\ backlog' = [backlog EXCEPT ![i] = Len(lines[i])]
  /\ startRows' = [startRows EXCEPT ![i] = Len(table[i])]
  /\ failed' = [failed EXCEPT ![i] = FALSE]
  /\ UNCHANGED <<logVars, dbVars, conn, waiting, chunk, drained, eventCh, hand,
                 tx>>

Cancel(i) ==
  /\ MayStop
  /\ ctx[i] = "live"
  /\ ctx' = [ctx EXCEPT ![i] = "done"]
  /\ UNCHANGED <<logVars, dbVars, conn, waiting, tailVars, eventCh, writer,
                 hand, tx, starts, histVars, published>>

(* Both goroutines have returned; the channel is garbage.                  *)
Collect(i) ==
  /\ ctx[i] = "done" /\ tail[i] = "exited" /\ writer[i] = "exited"
  /\ ctx' = [ctx EXCEPT ![i] = "none"]
  /\ eventCh' = [eventCh EXCEPT ![i] = <<>>]
  /\ UNCHANGED <<logVars, dbVars, conn, waiting, tailVars, writer, hand, tx,
                 starts, histVars, published>>

(* The process ends, by a crash or because main returned: whatever was in  *)
(* memory, open transactions included, is gone.                            *)
Crash ==
  /\ \E i \in Install : ctx[i] # "none" /\ starts[i] < MaxStarts
  /\ conn' = Free
  /\ waiting' = {}
  /\ tail' = [i \in Install |-> "exited"]
  /\ chunk' = [i \in Install |-> <<>>]
  /\ eventCh' = [i \in Install |-> <<>>]
  /\ writer' = [i \in Install |-> "exited"]
  /\ hand' = [i \in Install |-> 0]
  /\ tx' = [i \in Install |-> <<>>]
  /\ ctx' = [i \in Install |-> "none"]
  /\ UNCHANGED <<logVars, dbVars, offset, consumed, drained, caughtUp, starts,
                 histVars, published>>

-----------------------------------------------------------------------------
(* The tailer: Run and poll.                                               *)

(* Where poll() reads from: the start, if the file has shrunk.             *)
ReadFromOrRestart(i) ==
  base[i] + (IF FileLen(i) <= offset[i] THEN 0 ELSE offset[i])  \* mutant
ReadFrom(i) == base[i] + (IF FileLen(i) < offset[i] THEN 0 ELSE offset[i])

RoomAlways(i) == TRUE                                           \* mutant
Room(i) == Len(eventCh[i]) < Cap

Drained(i) == drained[i]

Poll(i) ==
  /\ tail[i] = "idle" /\ ctx[i] # "none"
  /\ LET from == ReadFrom(i) IN
       /\ chunk' = [chunk EXCEPT ![i] = Lines(from + 1, ReadEnd(i, from))]
       /\ consumed' = [consumed EXCEPT ![i] = from - base[i]]
       /\ drained' = [drained EXCEPT ![i] = ReadDrains(i, from)]
  /\ tail' = [tail EXCEPT ![i] = "sending"]
  /\ UNCHANGED <<logVars, dbVars, conn, waiting, offset, caughtUp, eventCh,
                 writer, hand, tx, ctx, starts, histVars, published>>

SendLine(i) ==
  /\ tail[i] = "sending" /\ chunk[i] # <<>> /\ Room(i)
  /\ eventCh' = [eventCh EXCEPT ![i] = Append(@, Head(chunk[i]))]
  /\ chunk' = [chunk EXCEPT ![i] = Tail(@)]
  /\ consumed' = [consumed EXCEPT ![i] = @ + 1]
  /\ UNCHANGED <<logVars, dbVars, conn, waiting, tail, offset, drained,
                 caughtUp, writer, hand, tx, ctx, starts, histVars, published>>

(* ctx.Done wins the select around the send: the line counts as consumed.  *)
GiveUpSending(i) ==
  /\ tail[i] = "sending" /\ chunk[i] # <<>> /\ ctx[i] = "done"
  /\ chunk' = [chunk EXCEPT ![i] = <<>>]
  /\ consumed' = [consumed EXCEPT ![i] = @ + 1]
  /\ drained' = [drained EXCEPT ![i] = FALSE]
  /\ UNCHANGED <<logVars, dbVars, conn, waiting, tail, offset, caughtUp,
                 eventCh, writer, hand, tx, ctx, starts, histVars, published>>

PollReturns(i) ==
  /\ tail[i] = "sending" /\ chunk[i] = <<>>
  /\ offset' = [offset EXCEPT ![i] = consumed[i]]
  /\ IF consumed[i] # offset[i]
       THEN /\ tail' = [tail EXCEPT ![i] = "saving"]
            /\ Asks(Tailer(i))
       ELSE /\ tail' = [tail EXCEPT ![i] = "latching"]
            /\ UNCHANGED waiting
  /\ UNCHANGED <<logVars, dbVars, conn, chunk, consumed, drained, caughtUp,
                 eventCh, writer, hand, tx, ctx, starts, histVars, published>>

SaveOffset(i) ==
  /\ tail[i] = "saving" /\ conn = Tailer(i)
  /\ \/ saved' = [saved EXCEPT ![i] = offset[i]] /\ UNCHANGED failed
     \/ MayFail /\ failed' = [failed EXCEPT ![i] = TRUE] /\ UNCHANGED saved
  /\ conn' = Free
  /\ tail' = [tail EXCEPT ![i] = "latching"]
  /\ UNCHANGED <<logVars, table, waiting, offset, chunk, consumed, drained,
                 caughtUp, eventCh, writer, hand, tx, ctx, starts, startId,
                 backlog, startRows, published>>

LatchCaughtUp(i) ==
  /\ tail[i] = "latching"
  /\ caughtUp' = [caughtUp EXCEPT ![i] = @ \/ Drained(i)]
  /\ drained' = [drained EXCEPT ![i] = FALSE]
  /\ tail' = [tail EXCEPT ![i] = "idle"]
  /\ UNCHANGED <<logVars, dbVars, conn, waiting, offset, chunk, consumed,
                 eventCh, writer, hand, tx, ctx, starts, histVars,
                 published>>

TailerExits(i) ==
  /\ tail[i] = "idle" /\ ctx[i] = "done"
  /\ tail' = [tail EXCEPT ![i] = "exited"]
  /\ UNCHANGED <<logVars, dbVars, conn, waiting, offset, chunk, consumed,
                 drained, caughtUp, eventCh, writer, hand, tx, ctx, starts,
                 histVars, published>>

-----------------------------------------------------------------------------
(* The writer: broadcastLogEvents.  A batch transaction is open exactly    *)
(* while the writer holds the connection.                                  *)

InBatch(i) == conn = Writer(i)

(* The idle flush fires 100 ms after the last line, whether or not another *)
(* line has arrived meanwhile: select picks either.                        *)
FlushDue(i) == writer[i] = "idle" /\ InBatch(i)

(* Ending the transaction puts the connection back.                        *)
KeepsConnection(i) == conn                                      \* mutant
AfterCommit(i) == Free

(* commitBatch: the rows of the batch are committed, or lost.              *)
CommitBatch(i) ==
  /\ \/ table' = [table EXCEPT ![i] = @ \o tx[i]] /\ UNCHANGED failed
     \/ /\ MayFail
        /\ failed' = [failed EXCEPT ![i] = TRUE]
        /\ UNCHANGED table
  /\ tx' = [tx EXCEPT ![i] = <<>>]
  /\ conn' = AfterCommit(i)

Receive(i) ==
  /\ writer[i] = "idle" /\ eventCh[i] # <<>>
  /\ eventCh' = [eventCh EXCEPT ![i] = Tail(@)]
  /\ IF IsEvent(i, Head(eventCh[i]))
       THEN /\ writer' = [writer EXCEPT ![i] = "apply"]
            /\ hand' = [hand EXCEPT ![i] = Head(eventCh[i])]
            /\ IF InBatch(i) THEN UNCHANGED waiting ELSE Asks(Writer(i))
       ELSE UNCHANGED <<writer, hand, waiting>>
  /\ UNCHANGED <<logVars, dbVars, conn, tailVars, tx, ctx, starts, histVars,
                 published>>

(* HandleEvent inside the batch, which db.Begin opened if none was.        *)
Apply(i) ==
  /\ writer[i] = "apply" /\ InBatch(i)
  /\ tx' = [tx EXCEPT ![i] = Append(@, hand[i])]
  /\ writer' = [writer EXCEPT ![i] =
       IF Len(tx[i]) + 1 >= MaxBatch THEN "full" ELSE "publish"]
  /\ UNCHANGED <<logVars, dbVars, conn, waiting, tailVars, eventCh, hand, ctx,
                 starts, histVars, published>>

(* db.Begin fails: the event is logged and forgotten.                      *)
BeginFails(i) ==
  /\ MayFail
  /\ writer[i] = "apply" /\ InBatch(i) /\ tx[i] = <<>>
  /\ conn' = Free
  /\ failed' = [failed EXCEPT ![i] = TRUE]
  /\ writer' = [writer EXCEPT ![i] = "idle"]
  /\ hand' = [hand EXCEPT ![i] = 0]
  /\ UNCHANGED <<logVars, dbVars, waiting, tailVars, eventCh, tx, ctx,
                 starts, startId, backlog, startRows, published>>

CommitFull(i) ==
  /\ writer[i] = "full"
  /\ CommitBatch(i)
  /\ writer' = [writer EXCEPT ![i] = "publish"]
  /\ UNCHANGED <<logVars, saved, waiting, tailVars, eventCh, hand, ctx, starts,
                 startId, backlog, startRows, published>>

Publish(i) ==
  /\ writer[i] = "publish"
  /\ published' = [published EXCEPT ![i] =
       IF lines[i][hand[i]] = "live" /\ caughtUp[i] THEN @ \cup {hand[i]} ELSE @]
  /\ writer' = [writer EXCEPT ![i] = "idle"]
  /\ hand' = [hand EXCEPT ![i] = 0]
  /\ UNCHANGED <<logVars, dbVars, conn, waiting, tailVars, eventCh, tx, ctx,
                 starts, histVars>>

FlushIdle(i) ==
  /\ FlushDue(i)
  /\ CommitBatch(i)
  /\ UNCHANGED <<logVars, saved, waiting, tailVars, eventCh, writer, hand, ctx,
                 starts, startId, backlog, startRows, published>>

(* ctx.Done: commit what is applied and leave the channel as it is.        *)
NoFinalCommit(i) == UNCHANGED <<table, tx, conn, failed>>       \* mutant
FinalCommit(i) ==
  IF InBatch(i) THEN CommitBatch(i) ELSE UNCHANGED <<table, tx, conn, failed>>

WriterExits(i) ==
  /\ writer[i] = "idle" /\ ctx[i] = "done"
  /\ FinalCommit(i)
  /\ writer' = [writer EXCEPT ![i] = "exited"]
  /\ UNCHANGED <<logVars, saved, waiting, tailVars, eventCh, hand, ctx, starts,
                 startId, backlog, startRows, published>>

-----------------------------------------------------------------------------
TailerNext(i) == \/ Poll(i) \/ SendLine(i) \/ GiveUpSending(i)
                 \/ PollReturns(i) \/ SaveOffset(i) \/ LatchCaughtUp(i)
                 \/ TailerExits(i)

WriterNext(i) == \/ Receive(i) \/ Apply(i) \/ BeginFails(i) \/ CommitFull(i)
                 \/ Publish(i) \/ FlushIdle(i) \/ WriterExits(i)

Next ==
  \/ \E i \in Install :
       \/ \E kind \in Kind : GameWrites(i, kind)
       \/ GameTruncates(i)
       \/ Start(i) \/ Cancel(i) \/ Collect(i)
       \/ TailerNext(i)
       \/ WriterNext(i)
  \/ \E u \in Users : Grant(u)
  \/ \E o \in Others : OtherAsks(o) \/ OtherReleases(o)
  \/ Crash

Spec == Init /\ [][Next]_vars

(* Goroutines run, the 250 ms ticker and the flush timer fire, statements  *)
(* end, and a waiter for the connection is picked at random, so that it    *)
(* gets it if it is free again and again.  Nobody has to write the log,    *)
(* start or stop a pipeline, or crash.                                     *)
Fairness ==
  /\ \A i \in Install : WF_vars(TailerNext(i)) /\ WF_vars(WriterNext(i))
  /\ \A u \in Users : SF_vars(Grant(u))
  /\ \A o \in Others : WF_vars(OtherReleases(o))

FairSpec == Spec /\ Fairness

-----------------------------------------------------------------------------
(* The one write connection is never kept by somebody who has no use for   *)
(* it: a tailer holds it only to save its offset, a writer only while its  *)
(* goroutine runs.  A leak would stop every install and every write        *)
(* request of the service.                                                 *)
NoLeakedConnection ==
  \A i \in Install :
    /\ conn = Tailer(i) => tail[i] = "saving"
    /\ conn = Writer(i) => writer[i] # "exited"
    /\ Tailer(i) \in waiting => tail[i] = "saving"
    /\ Writer(i) \in waiting => writer[i] = "apply"
    /\ tx[i] # <<>> => conn = Writer(i)

(* The line broadcastLogEvents has received but not applied yet.           *)
InHand(i) == IF writer[i] = "apply" THEN <<hand[i]>> ELSE <<>>

(* What was taken from the log: rows committed, then applied, then         *)
(* received; and in this run, after those, in the channel, then read.      *)
Taken(i)    == table[i] \o tx[i] \o InHand(i)
Pipeline(i) == Taken(i) \o eventCh[i] \o chunk[i]

(* However the pipeline is cut into chunks and batches, a run takes from   *)
(* the log every event from where it started to where it has read, in      *)
(* order, each once, and records nothing else.                             *)
InOrderWithoutGap ==
  \A i \in Install :
    ctx[i] = "live" /\ ~failed[i] /\ base[i] = 0 =>
      LET run == startRows[i] + 1 .. Len(Pipeline(i))
          read == startId[i] + 1 .. consumed[i] + Len(chunk[i]) IN
      /\ \A k \in run : Pipeline(i)[k] \in read
      /\ \A k, l \in run : k < l => Pipeline(i)[k] < Pipeline(i)[l]
      /\ \A n \in read : IsEvent(i, n) => \E k \in run : Pipeline(i)[k] = n
      /\ \A k \in startRows[i] + 1 .. Len(Taken(i)) : IsEvent(i, Taken(i)[k])

Covered(i)  == {n \in startId[i] + 1 .. saved[i] : IsEvent(i, n)}
Recorded(i) == {table[i][k] : k \in DOMAIN table[i]}

(* saveOffset cannot run while a batch is open, because the batch holds    *)
(* the connection, and caughtUp is set when the last chunk has been sent:  *)
(* what the saved offset of an uncancelled run covers and the table does   *)
(* not have (a crash would lose it), and what of the backlog gets through  *)
(* the gate to the live topic, is at most a full channel and the line in   *)
(* hand, never a batch or a chunk.                                         *)
AheadByOneChannel ==
  \A i \in Install :
    /\ ctx[i] = "live" /\ base[i] = 0 /\ ~failed[i] =>
         Cardinality(Covered(i) \ Recorded(i)) <= Cap + 1
    /\ Cardinality(published[i] \cap 1 .. backlog[i]) <= Cap + 1

(* While a pipeline is left running, every event in the log reaches the    *)
(* table, and the tailer the end of the log, also when that is an exact    *)
(* number of chunks: the tailer's save, the batches of all the installs    *)
(* and the other writers share one connection without ever waiting on each *)
(* other in a circle.                                                      *)
EveryEventRecorded ==
  \A i \in Install :
    /\ \A n \in Line :
         (ctx[i] = "live" /\ n \in DOMAIN lines[i] /\ IsEvent(i, n))
           ~> (n \in Recorded(i) \/ ctx[i] # "live")
    /\ (ctx[i] = "live") ~> (caughtUp[i] \/ ctx[i] # "live")
=============================================================================
