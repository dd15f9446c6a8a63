---------------------------- MODULE IngestProofs ----------------------------
(***************************************************************************)
(* What holds of the ingest pipelines for any number of installs, other    *)
(* users, lines, batches, chunks and channel sizes: the write connection   *)
(* is never leaked; a run takes every event from the log, in order, once;  *)
(* and the saved offset and the live gate run ahead of the table by no     *)
(* more than a channel and a line.                                         *)
(***************************************************************************)
EXTENDS Ingest, FiniteSetTheorems, SequenceTheorems, WellFoundedInduction, TLAPS

(* The goroutines' program counters, and tx as a function of the install.  *)
Shape ==
  /\ tail \in [Install -> {"idle", "sending", "saving", "latching", "exited"}]
  /\ writer \in [Install -> {"idle", "apply", "full", "publish", "exited"}]
  /\ ctx \in [Install -> {"none", "live", "done"}]
  /\ tx = [i \in Install |-> tx[i]]
  /\ waiting \subseteq Users

(* Who asks has not got the connection; a full batch has.                  *)
Handover ==
  /\ conn \notin waiting
  /\ \A i \in Install : writer[i] = "full" => conn = Writer(i)

(* A pipeline without a context has no goroutine left.                     *)
Ended ==
  \A i \in Install : ctx[i] = "none" => tail[i] = "exited" /\ writer[i] = "exited"

IInv == Shape /\ Handover /\ Ended /\ NoLeakedConnection

(* The names of the connection's users are all different.                  *)
LEMMA UsersDiffer ==
  /\ \A i, j \in Install : Tailer(i) # Writer(j)
  /\ \A i, j \in Install : Tailer(i) = Tailer(j) => i = j
  /\ \A i, j \in Install : Writer(i) = Writer(j) => i = j
  /\ \A i \in Install : Tailer(i) # Free /\ Writer(i) # Free
  /\ \A i \in Install : Tailer(i) \notin Others /\ Writer(i) \notin Others
  /\ \A i \in Install : Tailer(i) \in Users /\ Writer(i) \in Users
  /\ Free \notin Users
<1>1. \A i \in Install : /\ Tailer(i) \in {"tailer", "writer"} \X Install
                         /\ Writer(i) \in {"tailer", "writer"} \X Install
  BY DEF Tailer, Writer
<1>2. \A i, j \in Install : Tailer(i) # Writer(j)
  BY DEF Tailer, Writer
<1>3. \A i, j \in Install : /\ Tailer(i) = Tailer(j) => i = j
                            /\ Writer(i) = Writer(j) => i = j
  BY DEF Tailer, Writer
<1>4. (Others \cup {Free}) \cap ({"tailer", "writer"} \X Install) = {} /\ Free \notin Others
  BY IngestAssumption
<1> QED
  BY <1>1, <1>2, <1>3, <1>4 DEF Users

(* The invariant holds before anything is started.                         *)
LEMMA InitIInv == Init => IInv
BY UsersDiffer DEF Init, IInv, Shape, Handover, Ended, NoLeakedConnection

(* Steps which touch no program counter, no transaction and no waiting.    *)
LEMMA UntouchedIInv ==
  ASSUME IInv, UNCHANGED <<conn, waiting, tail, writer, tx, ctx>>
  PROVE  IInv'
BY DEF IInv, Shape, Handover, Ended, NoLeakedConnection, Tailer, Writer

(* Being handed the connection keeps the invariant: whoever waits has a    *)
(* use for it.                                                             *)
LEMMA GrantIInv ==
  ASSUME IInv, NEW u \in Users, Grant(u)
  PROVE  IInv'
<1> USE DEF IInv, Shape, Handover, Ended, NoLeakedConnection
<1>1. conn = Free /\ u \in waiting /\ conn' = u /\ waiting' = waiting \ {u}
      /\ UNCHANGED <<tail, writer, tx, ctx>>
  BY DEF Grant, tailVars
<1>2. \A i \in Install : tx[i] = <<>>
  BY <1>1, UsersDiffer
<1>3. \A i \in Install : writer[i] # "full"
  BY <1>1, UsersDiffer
<1>4. Shape' /\ Ended'
  BY <1>1
<1>5. Handover'
  BY <1>1, <1>3
<1>6. NoLeakedConnection'
  BY <1>1, <1>2 DEF Tailer, Writer
<1> QED BY <1>4, <1>5, <1>6

(* Other users ask and put back without disturbing the pipelines.          *)
LEMMA OtherIInv ==
  ASSUME IInv, NEW o \in Others, OtherAsks(o) \/ OtherReleases(o)
  PROVE  IInv'
<1> USE UsersDiffer DEF IInv, Shape, Handover, Ended, NoLeakedConnection
<1>0. o \in Users /\ UNCHANGED <<tail, writer, tx, ctx>>
  BY DEF OtherAsks, OtherReleases, tailVars, Users
<1>1. CASE OtherAsks(o)
  <2>1. conn # o /\ conn' = conn /\ waiting' = waiting \cup {o}
    BY <1>1 DEF OtherAsks, Asks
  <2> QED BY <1>0, <2>1
<1>2. CASE OtherReleases(o)
  <2>1. conn = o /\ conn' = Free /\ waiting' = waiting
    BY <1>2 DEF OtherReleases
  <2> QED BY <1>0, <2>1
<1> QED BY <1>1, <1>2

(* Starting, cancelling and collecting a pipeline, and the process's end.  *)
LEMMA LifecycleIInv ==
  ASSUME IInv,
         \/ \E i \in Install : Start(i) \/ Cancel(i) \/ Collect(i)
         \/ Crash
  PROVE  IInv'
<1> USE UsersDiffer DEF IInv, Shape, Handover, Ended, NoLeakedConnection
<1>1. ASSUME NEW i \in Install, Start(i) PROVE IInv'
  <2>1. /\ ctx[i] = "none" /\ conn = Free /\ ctx' = [ctx EXCEPT ![i] = "live"]
        /\ tail' = [tail EXCEPT ![i] = "idle"]
        /\ writer' = [writer EXCEPT ![i] = "idle"]
        /\ UNCHANGED <<conn, waiting, tx>>
    BY <1>1 DEF Start
  <2>2. \A j \in Install : writer[j] # "full"
    BY <2>1
  <2>3. Tailer(i) \notin waiting /\ Writer(i) \notin waiting
    BY <2>1
  <2>4. Shape' /\ Handover' /\ Ended'
    BY <2>1, <2>2
  <2>5. NoLeakedConnection'
    BY <2>1, <2>3 DEF Tailer, Writer
  <2> QED BY <2>4, <2>5
<1>2. ASSUME NEW i \in Install, Cancel(i) PROVE IInv'
  <2>1. ctx[i] = "live" /\ ctx' = [ctx EXCEPT ![i] = "done"]
        /\ UNCHANGED <<conn, waiting, tail, writer, tx>>
    BY <1>2 DEF Cancel, tailVars
  <2> QED BY <2>1 DEF Tailer, Writer
<1>3. ASSUME NEW i \in Install, Collect(i) PROVE IInv'
  <2>1. /\ tail[i] = "exited" /\ writer[i] = "exited"
        /\ ctx' = [ctx EXCEPT ![i] = "none"]
        /\ UNCHANGED <<conn, waiting, tail, writer, tx>>
    BY <1>3 DEF Collect, tailVars
  <2> QED BY <2>1 DEF Tailer, Writer
<1>4. ASSUME Crash PROVE IInv'
  BY <1>4 DEF Crash
<1> QED BY <1>1, <1>2, <1>3, <1>4

(* A tailer holds the connection, or waits for it, only while saving.      *)
LEMMA TailerIInv ==
  ASSUME IInv, NEW i \in Install, TailerNext(i)
  PROVE  IInv'
<1> USE UsersDiffer DEF IInv, Shape, Handover, Ended, NoLeakedConnection
<1>1. CASE Poll(i)
  <2>1. tail[i] = "idle" /\ ctx[i] # "none" /\ tail' = [tail EXCEPT ![i] = "sending"]
        /\ UNCHANGED <<conn, waiting, writer, tx, ctx>>
    BY <1>1 DEF Poll
  <2> QED BY <2>1 DEF Tailer, Writer
<1>2. CASE SendLine(i) \/ GiveUpSending(i)
  BY <1>2, UntouchedIInv DEF SendLine, GiveUpSending
<1>3. CASE PollReturns(i)
  <2>1. /\ tail[i] = "sending" /\ UNCHANGED <<conn, writer, tx, ctx>>
        /\ \/ /\ tail' = [tail EXCEPT ![i] = "saving"]
              /\ waiting' = waiting \cup {Tailer(i)}
           \/ tail' = [tail EXCEPT ![i] = "latching"] /\ waiting' = waiting
    BY <1>3 DEF PollReturns, Asks
  <2>2. conn # Tailer(i) /\ Tailer(i) \notin waiting
    BY <2>1
  <2>3. Shape' /\ Handover' /\ Ended'
    BY <2>1, <2>2
  <2>4. NoLeakedConnection'
    BY <2>1, <2>2
  <2> QED BY <2>3, <2>4
<1>4. CASE SaveOffset(i)
  <2>1. /\ tail[i] = "saving" /\ conn = Tailer(i) /\ conn' = Free
        /\ tail' = [tail EXCEPT ![i] = "latching"]
        /\ UNCHANGED <<waiting, writer, tx, ctx>>
    BY <1>4 DEF SaveOffset
  <2>2. Tailer(i) \notin waiting /\ \A j \in Install : tx[j] = <<>>
    BY <2>1
  <2>3. Shape' /\ Ended'
    BY <2>1
  <2>4. Handover'
    BY <2>1
  <2>5. NoLeakedConnection'
    BY <2>1, <2>2
  <2> QED BY <2>3, <2>4, <2>5
<1>5. CASE LatchCaughtUp(i)
  <2>1. /\ tail[i] = "latching" /\ tail' = [tail EXCEPT ![i] = "idle"]
        /\ UNCHANGED <<conn, waiting, writer, tx, ctx>>
    BY <1>5 DEF LatchCaughtUp
  <2> QED BY <2>1 DEF Tailer, Writer
<1>6. CASE TailerExits(i)
  <2>1. /\ tail[i] = "idle" /\ tail' = [tail EXCEPT ![i] = "exited"]
        /\ UNCHANGED <<conn, waiting, writer, tx, ctx>>
    BY <1>6 DEF TailerExits
  <2> QED BY <2>1 DEF Tailer, Writer
<1> QED BY <1>1, <1>2, <1>3, <1>4, <1>5, <1>6 DEF TailerNext

(* A writer that commits gives the connection back and empties its batch.  *)
LEMMA CommitIInv ==
  ASSUME IInv, NEW i \in Install, conn = Writer(i),
         conn' = Free, tx' = [tx EXCEPT ![i] = <<>>],
         NEW w \in {"idle", "publish", "exited"},
         writer[i] # "apply", ctx[i] # "none",
         writer' = [writer EXCEPT ![i] = w],
         UNCHANGED <<waiting, tail, ctx>>
  PROVE  IInv'
<1> USE UsersDiffer DEF IInv, Shape, Handover, Ended, NoLeakedConnection
<1>1. \A j \in Install : j # i => tx[j] = <<>>
  BY DEF Writer
<1>2. Writer(i) \notin waiting
  OBVIOUS
<1>3. \A j \in Install : writer'[j] # "full"
  OBVIOUS
<1>4. Shape' /\ Ended'
  OBVIOUS
<1>5. Handover'
  BY <1>3
<1>6. NoLeakedConnection'
  BY <1>1, <1>2
<1> QED BY <1>4, <1>5, <1>6

(* A writer keeps the connection exactly as long as its batch is open.     *)
LEMMA WriterIInv ==
  ASSUME IInv, NEW i \in Install, WriterNext(i)
  PROVE  IInv'
<1> USE UsersDiffer DEF IInv, Shape, Handover, Ended, NoLeakedConnection
<1>1. CASE Receive(i)
  <2>1. /\ writer[i] = "idle" /\ UNCHANGED <<conn, tail, tx, ctx>>
        /\ \/ /\ writer' = [writer EXCEPT ![i] = "apply"]
              /\ conn = Writer(i) /\ waiting' = waiting
           \/ /\ writer' = [writer EXCEPT ![i] = "apply"]
              /\ conn # Writer(i) /\ waiting' = waiting \cup {Writer(i)}
           \/ writer' = writer /\ waiting' = waiting
    BY <1>1 DEF Receive, InBatch, Asks, tailVars
  <2>2. Shape' /\ Ended'
    BY <2>1
  <2>3. Handover'
    BY <2>1
  <2>4. NoLeakedConnection'
    BY <2>1
  <2> QED BY <2>2, <2>3, <2>4
<1>2. CASE Apply(i)
  <2>1. PICK w \in {"full", "publish"} : writer' = [writer EXCEPT ![i] = w]
    BY <1>2 DEF Apply
  <2>2. PICK s : tx' = [tx EXCEPT ![i] = s]
    BY <1>2 DEF Apply
  <2>3. /\ writer[i] = "apply" /\ conn = Writer(i)
        /\ UNCHANGED <<conn, waiting, tail, ctx>>
    BY <1>2 DEF Apply, InBatch, tailVars
  <2>4. Writer(i) \notin waiting
    BY <2>3
  <2>5. Shape' /\ Ended'
    BY <2>1, <2>2, <2>3
  <2>6. Handover'
    BY <2>1, <2>3
  <2>7. NoLeakedConnection'
    BY <2>1, <2>2, <2>3, <2>4 DEF Tailer, Writer
  <2> QED BY <2>5, <2>6, <2>7
<1>3. CASE BeginFails(i)
  <2>1. /\ writer[i] = "apply" /\ conn = Writer(i) /\ tx[i] = <<>>
        /\ conn' = Free /\ writer' = [writer EXCEPT ![i] = "idle"]
        /\ UNCHANGED <<waiting, tail, tx, ctx>>
    BY <1>3 DEF BeginFails, InBatch, tailVars
  <2>2. Writer(i) \notin waiting /\ \A j \in Install : tx[j] = <<>>
    BY <2>1
  <2>3. Shape' /\ Ended'
    BY <2>1
  <2>4. Handover'
    BY <2>1
  <2>5. NoLeakedConnection'
    BY <2>1, <2>2
  <2> QED BY <2>3, <2>4, <2>5
<1>4. CASE CommitFull(i)
  <2>1. /\ writer[i] = "full" /\ conn' = Free /\ tx' = [tx EXCEPT ![i] = <<>>]
        /\ writer' = [writer EXCEPT ![i] = "publish"]
        /\ UNCHANGED <<waiting, tail, ctx>>
    BY <1>4 DEF CommitFull, CommitBatch, AfterCommit, tailVars
  <2>2. conn = Writer(i) /\ ctx[i] # "none"
    BY <2>1
  <2> QED BY <2>1, <2>2, CommitIInv
<1>5. CASE Publish(i)
  <2>1. /\ writer[i] = "publish" /\ writer' = [writer EXCEPT ![i] = "idle"]
        /\ UNCHANGED <<conn, waiting, tail, tx, ctx>>
    BY <1>5 DEF Publish, tailVars
  <2> QED BY <2>1 DEF Tailer, Writer
<1>6. CASE FlushIdle(i)
  <2>1. /\ writer[i] = "idle" /\ conn = Writer(i) /\ conn' = Free
        /\ tx' = [tx EXCEPT ![i] = <<>>] /\ UNCHANGED <<waiting, tail, ctx, writer>>
    BY <1>6 DEF FlushIdle, FlushDue, InBatch, CommitBatch, AfterCommit, tailVars
  <2>2. writer' = [writer EXCEPT ![i] = "idle"] /\ ctx[i] # "none"
    BY <2>1
  <2> QED BY <2>1, <2>2, CommitIInv
<1>7. CASE WriterExits(i)
  <2>1. /\ writer[i] = "idle" /\ ctx[i] = "done"
        /\ writer' = [writer EXCEPT ![i] = "exited"]
        /\ UNCHANGED <<waiting, tail, ctx>>
    BY <1>7 DEF WriterExits, tailVars
  <2>2. CASE conn = Writer(i)
    <3>1. conn' = Free /\ tx' = [tx EXCEPT ![i] = <<>>]
      BY <1>7, <2>2 DEF WriterExits, FinalCommit, InBatch, CommitBatch, AfterCommit
    <3> QED BY <2>1, <2>2, <3>1, CommitIInv
  <2>3. CASE conn # Writer(i)
    <3>1. UNCHANGED <<conn, tx>>
      BY <1>7, <2>3 DEF WriterExits, FinalCommit, InBatch
    <3> QED BY <2>1, <2>3, <3>1 DEF Tailer, Writer
  <2> QED BY <2>2, <2>3
<1> QED BY <1>1, <1>2, <1>3, <1>4, <1>5, <1>6, <1>7 DEF WriterNext

(* Every step preserves the invariant.                                     *)
LEMMA NextIInv == IInv /\ [Next]_vars => IInv'
<1> SUFFICES ASSUME IInv, [Next]_vars PROVE IInv'
  OBVIOUS
<1>1. CASE UNCHANGED vars
  BY <1>1, UntouchedIInv DEF vars, tailVars
<1>2. CASE \E i \in Install : (\E k \in Kind : GameWrites(i, k)) \/ GameTruncates(i)
  BY <1>2, UntouchedIInv DEF GameWrites, GameTruncates, tailVars
<1>3. CASE \E i \in Install : Start(i) \/ Cancel(i) \/ Collect(i)
  BY <1>3, LifecycleIInv
<1>4. CASE \E i \in Install : TailerNext(i)
  BY <1>4, TailerIInv
<1>5. CASE \E i \in Install : WriterNext(i)
  BY <1>5, WriterIInv
<1>6. CASE \E u \in Users : Grant(u)
  BY <1>6, GrantIInv
<1>7. CASE \E o \in Others : OtherAsks(o) \/ OtherReleases(o)
  BY <1>7, OtherIInv
<1>8. CASE Crash
  BY <1>8, LifecycleIInv
<1> QED BY <1>1, <1>2, <1>3, <1>4, <1>5, <1>6, <1>7, <1>8 DEF Next

(* The one write connection is only ever held, or waited for, by a         *)
(* goroutine that has a use for it, whatever is cancelled, fails or        *)
(* crashes in between.                                                     *)
THEOREM ConnectionReturned == Spec => []NoLeakedConnection
<1>1. Init => IInv
  BY InitIInv
<1>2. IInv /\ [Next]_vars => IInv'
  BY NextIInv
<1>3. IInv => NoLeakedConnection
  BY DEF IInv
<1> QED BY <1>1, <1>2, <1>3, PTL DEF Spec

Event(L, n) == L[n] \in {"live", "quiet"}

(* The channel and the chunk hold the lines up to where the tailer is.     *)
Contiguous(L, ch, ck, at) ==
  /\ at + Len(ck) <= Len(L) /\ Len(ch) <= at
  /\ \A k \in 1 .. Len(ch) : ch[k] = at - Len(ch) + k
  /\ \A k \in 1 .. Len(ck) : ck[k] = at + k

(* After the first `old` lines taken come the events of from+1..to.        *)
TakenInOrder(L, T, old, from, to) ==
  /\ old <= Len(T) /\ from <= to
  /\ \A k \in old + 1 .. Len(T) : T[k] \in from + 1 .. to /\ Event(L, T[k])
  /\ \A k, l \in old + 1 .. Len(T) : k < l => T[k] < T[l]
  /\ \A n \in from + 1 .. to : Event(L, n) => \E k \in old + 1 .. Len(T) : T[k] = n

(* A line written to the log is behind all that was read.                  *)
LEMMA WriteContiguous ==
  ASSUME NEW S, NEW L \in Seq(S), NEW kind \in S, NEW ch \in Seq(Nat), NEW ck \in Seq(Nat), NEW at \in Nat,
         Contiguous(L, ch, ck, at)
  PROVE  Contiguous(Append(L, kind), ch, ck, at)
BY DEF Contiguous

(* Sending a line moves it from the chunk's head to the channel's end.     *)
LEMMA SendContiguous ==
  ASSUME NEW L, Len(L) \in Nat, NEW ch \in Seq(Nat), NEW ck \in Seq(Nat), NEW at \in Nat,
         Contiguous(L, ch, ck, at), ck # <<>>
  PROVE  Contiguous(L, Append(ch, Head(ck)), Tail(ck), at + 1)
<1>1. Head(ck) = at + 1 /\ Len(Tail(ck)) = Len(ck) - 1
      /\ \A k \in 1 .. Len(ck) - 1 : Tail(ck)[k] = at + 1 + k
  BY DEF Contiguous
<1>2. Len(Append(ch, at + 1)) = Len(ch) + 1
      /\ \A k \in 1 .. Len(ch) : Append(ch, at + 1)[k] = at - Len(ch) + k
      /\ Append(ch, at + 1)[Len(ch) + 1] = at + 1
  BY DEF Contiguous
<1> QED BY <1>1, <1>2 DEF Contiguous

(* Receiving takes the line after those taken before.                      *)
LEMMA ReceiveContiguous ==
  ASSUME NEW L, Len(L) \in Nat, NEW ch \in Seq(Nat), NEW ck \in Seq(Nat), NEW at \in Nat,
         Contiguous(L, ch, ck, at), ch # <<>>
  PROVE  /\ Contiguous(L, Tail(ch), ck, at)
         /\ Head(ch) = at - Len(ch) + 1
         /\ at - Len(Tail(ch)) = at - Len(ch) + 1
BY DEF Contiguous

(* Nor does a written line change what was taken.                          *)
LEMMA WriteTaken ==
  ASSUME NEW S, NEW L \in Seq(S), NEW kind \in S, NEW T \in Seq(Nat), NEW old \in Nat,
         NEW from \in Nat, NEW to \in Nat, to <= Len(L),
         TakenInOrder(L, T, old, from, to)
  PROVE  TakenInOrder(Append(L, kind), T, old, from, to)
BY DEF TakenInOrder, Event

(* A received event comes after all that were taken.                       *)
LEMMA ReceiveEventTaken ==
  ASSUME NEW L, NEW T \in Seq(Nat), NEW old \in Nat, NEW from \in Nat, NEW to \in Nat,
         TakenInOrder(L, T, old, from, to), Event(L, to + 1)
  PROVE  TakenInOrder(L, Append(T, to + 1), old, from, to + 1)
<1> DEFINE U == Append(T, to + 1)
<1>1. /\ Len(T) \in Nat /\ Len(U) = Len(T) + 1 /\ U[Len(T) + 1] = to + 1
      /\ \A k \in 1 .. Len(T) : U[k] = T[k]
  OBVIOUS
<1> SUFFICES TakenInOrder(L, U, old, from, to + 1)
  OBVIOUS
<1> HIDE DEF U
<1>2. ASSUME NEW k \in old + 1 .. Len(U) PROVE U[k] \in from + 1 .. to + 1 /\ Event(L, U[k])
  <2>1. CASE k = Len(T) + 1
    BY <1>1, <2>1 DEF TakenInOrder
  <2>2. CASE k # Len(T) + 1
    <3>1. k \in old + 1 .. Len(T) /\ U[k] = T[k]
      BY <1>1, <2>2
    <3> QED BY <3>1 DEF TakenInOrder
  <2> QED BY <2>1, <2>2
<1>3. ASSUME NEW k \in old + 1 .. Len(U), NEW l \in old + 1 .. Len(U), k < l PROVE U[k] < U[l]
  <2>1. k \in old + 1 .. Len(T) /\ U[k] = T[k]
    BY <1>1, <1>3
  <2>2. CASE l = Len(T) + 1
    BY <1>1, <2>1, <2>2 DEF TakenInOrder
  <2>3. CASE l # Len(T) + 1
    <3>1. l \in old + 1 .. Len(T) /\ U[l] = T[l]
      BY <1>1, <2>3
    <3> QED BY <1>3, <2>1, <3>1 DEF TakenInOrder
  <2> QED BY <2>2, <2>3
<1>4. ASSUME NEW n \in from + 1 .. to + 1, Event(L, n) PROVE \E k \in old + 1 .. Len(U) : U[k] = n
  BY <1>1, <1>4 DEF TakenInOrder
<1>5. old <= Len(U) /\ from <= to + 1
  BY <1>1 DEF TakenInOrder
<1> QED BY <1>2, <1>3, <1>4, <1>5 DEF TakenInOrder

(* A line that parses to nothing is passed over.                           *)
LEMMA ReceiveNoiseTaken ==
  ASSUME NEW L, NEW T \in Seq(Nat), NEW old \in Nat, NEW from \in Nat, NEW to \in Nat,
         TakenInOrder(L, T, old, from, to), ~Event(L, to + 1)
  PROVE  TakenInOrder(L, T, old, from, to + 1)
BY DEF TakenInOrder

(* poll() always has a last whole line, and it is the end of the file if   *)
(* the chunk drained it.                                                   *)
LEMMA ReadEndIs ==
  ASSUME NEW i \in Install, lines[i] \in Seq(Kind), NEW from \in Nat, from <= Len(lines[i])
  PROVE  /\ ReadEnd(i, from) \in from .. Len(lines[i])
         /\ ReadDrains(i, from) => ReadEnd(i, from) = Len(lines[i])
<1> DEFINE L == lines[i]
           stops(e) == e = Len(L) \/ e = from + Chunk \/ L[e + 1] = "long"
           S == {e \in from .. Len(L) : stops(e)}
<1>0. Len(L) \in Nat /\ Chunk \in Nat
  BY IngestAssumption
<1>1. S \in SUBSET Nat /\ Len(L) \in S
  BY <1>0
<1>2. PICK e \in S : \A f \in S : <<f, e>> \notin OpToRel(<, Nat)
  BY <1>1, NatLessThanWellFounded, WFMin
<1>3. \A f \in S : ~(f < e)
  BY <1>1, <1>2 DEF OpToRel
<1>4. e <= from + Chunk
  <2>1. CASE from + Chunk <= Len(L)
    <3>1. from + Chunk \in S
      BY <1>0, <2>1
    <3> QED BY <1>0, <1>1, <1>3, <3>1
  <2>2. CASE ~(from + Chunk <= Len(L))
    BY <1>0, <2>2
  <2> QED BY <2>1, <2>2
<1>5. ASSUME NEW n \in from + 1 .. e PROVE L[n] # "long"
  <2>1. n - 1 \in from .. Len(L) /\ n - 1 < e /\ n - 1 # Len(L) /\ (n - 1) + 1 = n
    BY <1>0
  <2>2. n - 1 \notin S
    BY <1>3, <2>1
  <2> QED BY <2>1, <2>2
<1>6. /\ ReadEnd(i, from) \in from .. Len(L)
      /\ stops(ReadEnd(i, from))
  BY <1>4, <1>5 DEF ReadEnd
<1>7. ReadDrains(i, from) => ReadEnd(i, from) = Len(L)
  BY <1>0, <1>6 DEF ReadDrains
<1> QED BY <1>6, <1>7

(* The lines of a chunk.                                                   *)
LEMMA LinesAre ==
  ASSUME NEW from \in Nat, NEW to \in Nat, from <= to
  PROVE  /\ Lines(from + 1, to) \in Seq(Nat)
         /\ Len(Lines(from + 1, to)) = to - from
         /\ \A k \in 1 .. to - from : Lines(from + 1, to)[k] = from + k
<1>1. (IF to < from + 1 THEN 0 ELSE to + 1 - (from + 1)) = to - from
  OBVIOUS
<1>2. Lines(from + 1, to) = [k \in 1 .. to - from |-> from + 1 + k - 1]
  BY <1>1 DEF Lines
<1>3. to - from \in Nat
  OBVIOUS
<1>4. Lines(from + 1, to) \in Seq(Nat)
  BY <1>2, <1>3
<1> QED BY <1>2, <1>3, <1>4

(* As many lines as their last number says.                                *)
LEMMA Counted == ASSUME NEW n \in Nat PROVE IsFiniteSet(1 .. n) /\ Cardinality(1 .. n) = n
<1>1. 1 \in Int /\ n \in Int /\ (IF 1 > n THEN 0 ELSE n - 1 + 1) = n
  OBVIOUS
<1> QED BY <1>1, FS_Interval, Zenon

(* What a channel with a line in hand holds is at most a line more than    *)
(* its capacity.                                                           *)
LEMMA HandAndChannel ==
  ASSUME NEW ch \in Seq(Nat), Len(ch) <= Cap, NEW h, NEW S,
         S \subseteq {ch[k] : k \in 1 .. Len(ch)} \cup {h}
  PROVE  IsFiniteSet(S) /\ Cardinality(S) <= Cap + 1
<1> DEFINE R == {ch[k] : k \in 1 .. Len(ch)}
<1>0. Len(ch) \in Nat /\ Cap \in Nat
  BY IngestAssumption
<1>1. IsFiniteSet(1 .. Len(ch)) /\ Cardinality(1 .. Len(ch)) = Len(ch)
  BY <1>0, Counted
<1>2. [k \in 1 .. Len(ch) |-> ch[k]] \in Surjection(1 .. Len(ch), R)
  BY DEF Surjection
<1>3. IsFiniteSet(R) /\ Cardinality(R) <= Len(ch)
  BY <1>1, <1>2, FS_Surjection
<1>4. IsFiniteSet(R \cup {h}) /\ Cardinality(R \cup {h}) <= Cardinality(R) + 1
  <2>1. /\ IsFiniteSet(R \cup {h})
        /\ Cardinality(R \cup {h}) = IF h \in R THEN Cardinality(R) ELSE Cardinality(R) + 1
    BY <1>3, FS_AddElement
  <2>2. Cardinality(R) \in Nat
    BY <1>3, FS_CardinalityType
  <2> HIDE DEF R
  <2> QED BY <2>1, <2>2
<1>5. IsFiniteSet(S) /\ Cardinality(S) <= Cardinality(R \cup {h})
  BY <1>4, FS_Subset
<1>6. Cardinality(S) \in Nat /\ Cardinality(R) \in Nat /\ Cardinality(R \cup {h}) \in Nat
  BY <1>3, <1>4, <1>5, FS_CardinalityType
<1> QED BY <1>0, <1>3, <1>4, <1>5, <1>6

-----------------------------------------------------------------------------
(* What the variables are.                                                 *)
Types ==
  /\ lines \in [Install -> Seq(Kind)]
  /\ base \in [Install -> Nat] /\ saved \in [Install -> Nat]
  /\ table \in [Install -> Seq(Nat)] /\ tx \in [Install -> Seq(Nat)]
  /\ chunk \in [Install -> Seq(Nat)] /\ eventCh \in [Install -> Seq(Nat)]
  /\ offset \in [Install -> Nat] /\ consumed \in [Install -> Nat] /\ hand \in [Install -> Nat]
  /\ startId \in [Install -> Nat] /\ backlog \in [Install -> Nat] /\ startRows \in [Install -> Nat]
  /\ drained \in [Install -> BOOLEAN] /\ caughtUp \in [Install -> BOOLEAN]
  /\ failed \in [Install -> BOOLEAN]
  /\ published \in [Install -> SUBSET Nat]

(* Where a run is: what it holds when it is between two of its tasks.      *)
Local(i) ==
  /\ base[i] <= Len(lines[i]) /\ backlog[i] <= Len(lines[i])
  /\ ctx[i] = "live" => tail[i] # "exited" /\ writer[i] # "exited"
  /\ ctx[i] = "none" => eventCh[i] = <<>>
  /\ Len(eventCh[i]) <= Cap
  /\ tail[i] # "sending" => chunk[i] = <<>>
  /\ tail[i] \in {"idle", "saving", "latching"} => offset[i] = consumed[i]

(* Nothing past the end of a log that was never replaced is ever consumed. *)
InFile(i) ==
  base[i] = 0 => /\ saved[i] <= Len(lines[i])
                 /\ tail[i] # "exited" => consumed[i] + Len(chunk[i]) <= Len(lines[i])

(* What a crash would lose: covered by the saved offset, and in no row.    *)
Missing(i) == Covered(i) \ Recorded(i)

(* While a run is left running on a log that is not replaced, the channel  *)
(* and the chunk hold consecutive lines, and until a statement fails what  *)
(* it took before those is every event, in order.                          *)
Order(i) ==
  ctx[i] = "live" /\ base[i] = 0 =>
    /\ Contiguous(lines[i], eventCh[i], chunk[i], consumed[i])
    /\ ~failed[i] =>
         /\ TakenInOrder(lines[i], Taken(i), startRows[i], startId[i], consumed[i] - Len(eventCh[i]))
         /\ Cardinality(Missing(i)) <= Cap + 1

(* The lines of the backlog that were published or may still be.           *)
Held(i) == IF writer[i] \in {"apply", "full", "publish"} THEN {hand[i]} ELSE {}
Queue(i) == {eventCh[i][k] : k \in 1 .. Len(eventCh[i])}
Due(i) == (published[i] \cup Held(i) \cup Queue(i)) \cap 1 .. backlog[i]

(* How far poll() has read, counted from the first line ever written.      *)
ReadTo(i) == base[i] + consumed[i] + Len(chunk[i])

(* Nothing passes the live gate before it opens, and it opens only when    *)
(* the chunk that reached the end of the file has been sent.  Of the       *)
(* backlog, what may still pass is in hand or in the channel; a restart    *)
(* from the first line of the file reads none of it again, because the log *)
(* is read from its start only after the whole backlog was replaced.       *)
Gate(i) ==
  /\ ~caughtUp[i] => published[i] = {}
  /\ caughtUp[i] => Cardinality(Due(i)) <= Cap + 1
  /\ caughtUp[i] /\ tail[i] # "exited" =>
       /\ base[i] + consumed[i] >= backlog[i]
       /\ \A k \in 1 .. Len(chunk[i]) : chunk[i][k] > backlog[i]
  /\ tail[i] \in {"sending", "saving", "latching"} /\ drained[i] => ReadTo(i) >= backlog[i]
  /\ \/ tail[i] \in {"sending", "saving", "latching"}
     \/ caughtUp[i] /\ tail[i] # "exited"
     => base[i] >= backlog[i] \/ ReadTo(i) <= Len(lines[i])

(* The inductive invariant.                                                *)
Good(i) == Local(i) /\ InFile(i) /\ Order(i) /\ Gate(i)

RunInv == IInv /\ Types /\ \A i \in Install : Good(i)

(* What sending a line does to the chunk `ck` and the channel `ch`.        *)
LEMMA SendMoves ==
  ASSUME NEW ch \in Seq(Nat), NEW ck \in Seq(Nat), ck # <<>>
  PROVE  /\ Append(ch, Head(ck)) \in Seq(Nat) /\ Tail(ck) \in Seq(Nat)
         /\ Len(Append(ch, Head(ck))) = Len(ch) + 1 /\ Len(ch) \in Nat
         /\ Len(Tail(ck)) = Len(ck) - 1 /\ Len(ck) \in Nat
         /\ \A k \in 1 .. Len(ch) + 1 : Append(ch, Head(ck))[k] =
              IF k = Len(ch) + 1 THEN ck[1] ELSE ch[k]
         /\ \A n \in Nat : (\A k \in 1 .. Len(ck) : ck[k] > n) =>
              ck[1] > n /\ \A k \in 1 .. Len(Tail(ck)) : Tail(ck)[k] > n
<1>1. /\ Len(ck) \in Nat \ {0} /\ Head(ck) = ck[1] /\ Head(ck) \in Nat
      /\ Tail(ck) \in Seq(Nat) /\ Len(Tail(ck)) = Len(ck) - 1
      /\ \A k \in 1 .. Len(ck) - 1 : Tail(ck)[k] = ck[k + 1]
  OBVIOUS
<1> DEFINE ap == Append(ch, Head(ck))
<1>2. /\ Len(ch) \in Nat /\ Len(ap) = Len(ch) + 1 /\ ap \in Seq(Nat)
      /\ \A k \in 1 .. Len(ch) : ap[k] = ch[k]
      /\ ap[Len(ch) + 1] = ck[1]
  BY <1>1
<1> HIDE DEF ap
<1>3. \A k \in 1 .. Len(ap) : k \in 1 .. Len(ch) \/ k = Len(ch) + 1
  BY <1>2
<1>4. \A k \in 1 .. Len(ch) + 1 : ap[k] = IF k = Len(ch) + 1 THEN ck[1] ELSE ch[k]
  BY <1>2, <1>3
<1>5. \A n \in Nat : (\A k \in 1 .. Len(ck) : ck[k] > n) =>
        ck[1] > n /\ \A k \in 1 .. Len(Tail(ck)) : Tail(ck)[k] > n
  BY <1>1
<1> QED BY <1>1, <1>2, <1>4, <1>5 DEF ap

(* The rows of a run whose batch is empty: committed, or in hand.          *)
LEMMA TakenBetweenBatches ==
  ASSUME NEW tb \in Seq(Nat), NEW h \in Nat
  PROVE  /\ \A k \in 1 .. Len(tb \o <<>> \o <<>>) :
              (tb \o <<>> \o <<>>)[k] \in {tb[l] : l \in DOMAIN tb}
         /\ \A k \in 1 .. Len(tb \o <<>> \o <<h>>) :
              (tb \o <<>> \o <<h>>)[k] \in {tb[l] : l \in DOMAIN tb} \cup {h}
<1>1. tb \o <<>> = tb
  OBVIOUS
<1> QED BY <1>1

(* Moving rows from the hand to the batch, and from the batch to the       *)
(* table, changes nothing of what was taken.                               *)
LEMMA RowsMove ==
  ASSUME NEW tb \in Seq(Nat), NEW b \in Seq(Nat), NEW h \in Nat
  PROVE  /\ tb \o b \o <<h>> = Append(tb \o b \o <<>>, h)
         /\ tb \o b \o <<h>> = tb \o Append(b, h) \o <<>>
         /\ tb \o b \o <<>> = (tb \o b) \o <<>> \o <<>>
         /\ tb \o b \o <<>> \in Seq(Nat) /\ tb \o b \in Seq(Nat) /\ Append(b, h) \in Seq(Nat)
<1>1. tb \o b \in Seq(Nat) /\ Append(b, h) \in Seq(Nat)
  OBVIOUS
<1>2. tb \o b \o <<>> = tb \o b /\ (tb \o b) \o <<>> \o <<>> = tb \o b
  OBVIOUS
<1>3. tb \o b \o <<h>> = Append(tb \o b, h)
  OBVIOUS
<1>4. tb \o Append(b, h) \o <<>> = tb \o Append(b, h)
  BY <1>1
<1>5. tb \o Append(b, h) = Append(tb \o b, h)
  OBVIOUS
<1> QED BY <1>1, <1>2, <1>3, <1>4, <1>5

(* A commit keeps the rows the table has.                                  *)
LEMMA RowsKept ==
  ASSUME NEW tb \in Seq(Nat), NEW b \in Seq(Nat)
  PROVE  {tb[k] : k \in DOMAIN tb} \subseteq {(tb \o b)[k] : k \in DOMAIN (tb \o b)}
<1>1. \A k \in DOMAIN tb : k \in DOMAIN (tb \o b) /\ (tb \o b)[k] = tb[k]
  OBVIOUS
<1> QED BY <1>1

(* What receiving a line leaves in the channel.                            *)
LEMMA ReceiveMoves ==
  ASSUME NEW ch \in Seq(Nat), ch # <<>>
  PROVE  /\ Tail(ch) \in Seq(Nat) /\ Len(Tail(ch)) = Len(ch) - 1 /\ Len(ch) \in Nat \ {0}
         /\ Head(ch) \in Nat
         /\ {Tail(ch)[k] : k \in 1 .. Len(Tail(ch))} \cup {Head(ch)}
              \subseteq {ch[k] : k \in 1 .. Len(ch)}
<1>1. Tail(ch) \in Seq(Nat) /\ Len(Tail(ch)) = Len(ch) - 1 /\ Len(ch) \in Nat \ {0}
      /\ Head(ch) = ch[1] /\ Head(ch) \in Nat
      /\ \A k \in 1 .. Len(ch) - 1 : Tail(ch)[k] = ch[k + 1]
  OBVIOUS
<1>2. \A k \in 1 .. Len(Tail(ch)) : k + 1 \in 1 .. Len(ch)
  BY <1>1
<1> QED BY <1>1, <1>2

(* The lines of a pipeline, events or not, follow each other too.          *)
AllInOrder(L, P, old, from, to) ==
  /\ old <= Len(P) /\ from <= to
  /\ \A k \in old + 1 .. Len(P) : P[k] \in from + 1 .. to
  /\ \A k, l \in old + 1 .. Len(P) : k < l => P[k] < P[l]
  /\ \A n \in from + 1 .. to : Event(L, n) => \E k \in old + 1 .. Len(P) : P[k] = n

(* Lines that follow on the last one taken keep the order.                 *)
LEMMA ExtendInOrder ==
  ASSUME NEW L, NEW T \in Seq(Nat), NEW s \in Seq(Nat), NEW old \in Nat, NEW from \in Nat, NEW to \in Nat,
         AllInOrder(L, T, old, from, to), \A k \in 1 .. Len(s) : s[k] = to + k
  PROVE  AllInOrder(L, T \o s, old, from, to + Len(s))
<1> DEFINE P == T \o s
<1>1. /\ Len(T) \in Nat /\ Len(s) \in Nat /\ Len(P) = Len(T) + Len(s) /\ P \in Seq(Nat)
      /\ \A k \in 1 .. Len(T) : P[k] = T[k]
      /\ \A k \in 1 .. Len(s) : P[Len(T) + k] = s[k]
  OBVIOUS
<1> SUFFICES AllInOrder(L, P, old, from, to + Len(s))
  OBVIOUS
<1> HIDE DEF P
<1>2. \A k \in old + 1 .. Len(T) : P[k] = T[k] /\ P[k] \in from + 1 .. to
  BY <1>1 DEF AllInOrder
<1>3. \A k \in Len(T) + 1 .. Len(P) : P[k] = to + (k - Len(T)) /\ k - Len(T) \in 1 .. Len(s)
  <2> TAKE k \in Len(T) + 1 .. Len(P)
  <2>1. k - Len(T) \in 1 .. Len(s) /\ Len(T) + (k - Len(T)) = k
    BY <1>1
  <2> QED BY <1>1, <2>1
<1>4. old <= Len(P) /\ from <= to + Len(s)
  BY <1>1 DEF AllInOrder
<1>5. ASSUME NEW k \in old + 1 .. Len(P) PROVE P[k] \in from + 1 .. to + Len(s)
  <2>1. CASE k <= Len(T)
    BY <1>1, <1>2, <2>1
  <2>2. CASE k > Len(T)
    <3>1. P[k] = to + (k - Len(T)) /\ k - Len(T) \in 1 .. Len(s)
      BY <1>1, <1>3, <2>2
    <3> QED BY <1>1, <3>1 DEF AllInOrder
  <2> QED BY <1>1, <2>1, <2>2
<1>6. ASSUME NEW k \in old + 1 .. Len(P), NEW l \in old + 1 .. Len(P), k < l PROVE P[k] < P[l]
  <2>1. CASE l <= Len(T)
    <3>1. k \in old + 1 .. Len(T) /\ l \in old + 1 .. Len(T)
      BY <1>1, <1>6, <2>1
    <3> QED BY <1>2, <1>6, <3>1 DEF AllInOrder
  <2>2. CASE k <= Len(T) /\ l > Len(T)
    <3>1. P[k] \in from + 1 .. to
      BY <1>1, <1>2, <2>2
    <3>2. P[l] = to + (l - Len(T)) /\ l - Len(T) \in 1 .. Len(s)
      BY <1>1, <1>3, <2>2
    <3>3. Len(s) \in Nat
      BY <1>1
    <3>4. P[k] <= to /\ P[k] \in Nat
      BY <3>1
    <3>5. P[l] > to /\ P[l] \in Nat
      BY <3>2, <3>3
    <3> QED BY <3>4, <3>5
  <2>3. CASE k > Len(T) /\ l > Len(T)
    <3>1. P[k] = to + (k - Len(T)) /\ P[l] = to + (l - Len(T))
      BY <1>1, <1>3, <1>6, <2>3
    <3> QED BY <1>1, <1>6, <3>1
  <2>4. k \in Nat /\ l \in Nat /\ Len(T) \in Nat
    BY <1>1
  <2> QED BY <1>6, <2>1, <2>2, <2>3, <2>4
<1>7. ASSUME NEW n \in from + 1 .. to + Len(s), Event(L, n) PROVE \E k \in old + 1 .. Len(P) : P[k] = n
  <2>1. CASE n <= to
    <3>1. PICK k \in old + 1 .. Len(T) : T[k] = n
      BY <1>1, <1>7, <2>1 DEF AllInOrder
    <3>2. k \in old + 1 .. Len(P)
      BY <1>1
    <3>3. P[k] = n
      BY <1>2, <3>1
    <3> QED BY <3>2, <3>3
  <2>2. CASE n > to
    <3>1. n - to \in 1 .. Len(s) /\ to + (n - to) = n
      BY <1>1, <2>2
    <3>2. P[Len(T) + (n - to)] = n
      BY <1>1, <3>1
    <3>3. Len(T) + (n - to) \in old + 1 .. Len(P)
      BY <1>1, <3>1 DEF AllInOrder
    <3> QED BY <3>2, <3>3
  <2> QED BY <1>1, <2>1, <2>2
<1> QED BY <1>4, <1>5, <1>6, <1>7 DEF AllInOrder

SameAt(j) ==
  UNCHANGED <<lines[j], base[j], saved[j], table[j], tail[j], offset[j], chunk[j],
    consumed[j], drained[j], caughtUp[j], eventCh[j], writer[j], hand[j], tx[j], ctx[j],
    startId[j], backlog[j], startRows[j], published[j], failed[j]>>

(* A run no step touches stays as good as it was.                          *)
LEMMA SameIsGood ==
  ASSUME NEW j \in Install, Good(j), SameAt(j)
  PROVE  Good(j)'
<1> USE DEF SameAt
<1>1. Taken(j)' = Taken(j) /\ Missing(j)' = Missing(j)
  BY DEF Taken, InHand, Missing, Covered, Recorded, IsEvent
<1>2. Order(j)'
  BY <1>1 DEF Good, Order
<1>3. Due(j)' = Due(j) /\ ReadTo(j)' = ReadTo(j)
  BY DEF Due, Held, Queue, ReadTo
<1>4. Gate(j)'
  BY <1>3 DEF Good, Gate
<1>5. Local(j)' /\ InFile(j)'
  BY DEF Good, Local, InFile
<1> QED BY <1>2, <1>4, <1>5 DEF Good

(* A step of one install or of no install leaves the others as they are.   *)
LEMMA ElsewhereSame ==
  ASSUME Types, Shape, NEW i \in Install, NEW j \in Install, i # j,
         \/ (\E kind \in Kind : GameWrites(i, kind)) \/ GameTruncates(i)
         \/ Start(i) \/ Cancel(i) \/ Collect(i) \/ TailerNext(i) \/ WriterNext(i)
  PROVE  SameAt(j)
<1> USE DEF SameAt, Types, Shape, logVars, dbVars, tailVars, histVars
<1>1. CASE (\E kind \in Kind : GameWrites(i, kind)) \/ GameTruncates(i)
  BY <1>1 DEF GameWrites, GameTruncates
<1>2. CASE Start(i)
  BY <1>2 DEF Start
<1>3. CASE Cancel(i) \/ Collect(i)
  BY <1>3 DEF Cancel, Collect
<1>4. CASE TailerNext(i)
  <2>1. CASE Poll(i)
    BY <2>1 DEF Poll
  <2>2. CASE SendLine(i) \/ GiveUpSending(i)
    BY <2>2 DEF SendLine, GiveUpSending
  <2>3. CASE PollReturns(i) \/ SaveOffset(i)
    BY <2>3 DEF PollReturns, SaveOffset
  <2>4. CASE LatchCaughtUp(i) \/ TailerExits(i)
    BY <2>4 DEF LatchCaughtUp, TailerExits
  <2> QED BY <1>4, <2>1, <2>2, <2>3, <2>4 DEF TailerNext
<1>5. CASE WriterNext(i)
  <2>1. CASE Receive(i)
    BY <2>1 DEF Receive
  <2>2. CASE Apply(i) \/ BeginFails(i)
    BY <2>2 DEF Apply, BeginFails
  <2>3. CASE CommitFull(i) \/ FlushIdle(i)
    BY <2>3 DEF CommitFull, FlushIdle, CommitBatch
  <2>4. CASE Publish(i)
    BY <2>4 DEF Publish
  <2>5. CASE WriterExits(i)
    BY <2>5 DEF WriterExits, FinalCommit, CommitBatch
  <2> QED BY <1>5, <2>1, <2>2, <2>3, <2>4, <2>5 DEF WriterNext
<1> QED BY <1>1, <1>2, <1>3, <1>4, <1>5

(* The game's steps: an appended line disturbs nothing that was read, and  *)
(* a replaced log is a new one.                                            *)
LEMMA GameGood ==
  ASSUME Types, Shape, NEW i \in Install, Good(i),
         (\E kind \in Kind : GameWrites(i, kind)) \/ GameTruncates(i)
  PROVE  Types' /\ Good(i)'
<1> USE DEF logVars, dbVars, tailVars, histVars
<1>1. ASSUME NEW kind \in Kind, GameWrites(i, kind) PROVE Types' /\ Good(i)'
  <2>1. /\ lines'[i] = Append(lines[i], kind)
        /\ UNCHANGED <<base, saved, table, tail, offset, chunk, consumed, drained, caughtUp,
             eventCh, writer, hand, tx, ctx, startId, backlog, startRows, published, failed>>
    BY <1>1 DEF GameWrites, Types
  <2>2. /\ lines[i] \in Seq(Kind) /\ Len(lines'[i]) = Len(lines[i]) + 1
        /\ \A n \in 1 .. Len(lines[i]) : lines'[i][n] = lines[i][n]
    BY <2>1 DEF Types
  <2>3. Local(i)' /\ InFile(i)'
    <3>1. Len(lines[i]) \in Nat /\ consumed[i] + Len(chunk[i]) \in Nat /\ saved[i] \in Nat
          /\ base[i] \in Nat /\ backlog[i] \in Nat
      BY DEF Types
    <3> QED BY <2>1, <2>2, <3>1 DEF Good, Local, InFile
  <2>4. Gate(i)'
    <3>1. Due(i)' = Due(i) /\ ReadTo(i)' = ReadTo(i) /\ ReadTo(i) \in Nat
      BY <2>1 DEF Due, Held, Queue, ReadTo, Types
    <3> QED BY <2>1, <2>2, <3>1 DEF Good, Gate
  <2>5. Order(i)'
    <3> SUFFICES ASSUME ctx[i] = "live", base[i] = 0 PROVE Order(i)'
      BY <2>1 DEF Order
    <3>1. Contiguous(lines'[i], eventCh[i], chunk[i], consumed[i])
      BY <2>1, WriteContiguous DEF Good, Order, Types
    <3>2. consumed[i] - Len(eventCh[i]) \in 0 .. Len(lines[i])
      BY DEF Good, Order, Contiguous, Types
    <3>3. Taken(i)' = Taken(i) /\ Taken(i) \in Seq(Nat)
      BY <2>1 DEF Taken, InHand, Types
    <3>4. ~failed[i] => TakenInOrder(lines'[i], Taken(i), startRows[i], startId[i],
                                     consumed[i] - Len(eventCh[i]))
      BY <2>1, <3>2, <3>3, WriteTaken DEF Good, Order, Types
    <3>5. Missing(i)' = Missing(i)
      <4>1. \A n \in startId[i] + 1 .. saved[i] : n \in 1 .. Len(lines[i])
        BY DEF Good, InFile, Types
      <4>2. \A n \in startId[i] + 1 .. saved[i] : IsEvent(i, n)' = IsEvent(i, n)
        BY <2>1, <2>2, <4>1 DEF IsEvent
      <4> QED BY <2>1, <4>2 DEF Missing, Covered, Recorded
    <3> QED BY <2>1, <3>1, <3>3, <3>4, <3>5 DEF Good, Order
  <2>6. Types'
    <3>1. lines' = [lines EXCEPT ![i] = Append(lines[i], kind)]
      BY <1>1 DEF GameWrites
    <3>2. Append(lines[i], kind) \in Seq(Kind)
      BY <2>2
    <3>3. lines' \in [Install -> Seq(Kind)]
      BY <3>1, <3>2 DEF Types
    <3> QED BY <2>1, <3>3 DEF Types
  <2> QED BY <2>3, <2>4, <2>5, <2>6 DEF Good
<1>2. ASSUME GameTruncates(i) PROVE Types' /\ Good(i)'
  <2>1. /\ base' = [base EXCEPT ![i] = Len(lines[i])]
        /\ UNCHANGED <<lines, saved, table, tail, offset, chunk, consumed, drained, caughtUp,
             eventCh, writer, hand, tx, ctx, startId, backlog, startRows, published, failed>>
    BY <1>2 DEF GameTruncates
  <2>2. base'[i] = Len(lines[i]) /\ base[i] <= Len(lines[i]) /\ Len(lines[i]) \in Nat /\ base[i] \in Nat
    BY <2>1 DEF Types, Good, Local
  <2>3. Local(i)' /\ InFile(i)'
    BY <2>1, <2>2 DEF Types, Good, Local, InFile
  <2>4. Gate(i)'
    <3>1. Due(i)' = Due(i) /\ ReadTo(i)' = ReadTo(i) + Len(lines[i]) - base[i] /\ ReadTo(i) \in Nat
      BY <2>1, <2>2 DEF Due, Held, Queue, ReadTo, Types
    <3>2. base'[i] >= backlog[i]
      BY <2>2 DEF Good, Local
    <3>3. backlog[i] \in Nat /\ consumed[i] \in Nat
      BY DEF Types
    <3>4. UNCHANGED <<tail, caughtUp, drained, published, consumed, chunk, backlog, lines>>
      BY <2>1
    <3>5. ReadTo(i)' >= ReadTo(i) /\ ReadTo(i)' \in Nat
      BY <2>2, <3>1
    <3>6. base'[i] + consumed[i] >= backlog[i]
      BY <2>2, <3>2, <3>3
    <3>7. ReadTo(i) >= backlog[i] => ReadTo(i)' >= backlog[i]
      BY <3>1, <3>3, <3>5
    <3> QED BY <3>1, <3>2, <3>4, <3>6, <3>7 DEF Good, Gate
  <2>5. Order(i)'
    <3>1. base'[i] = 0 => base[i] = 0
      BY <2>2
    <3>2. Taken(i)' = Taken(i) /\ Missing(i)' = Missing(i)
      BY <2>1 DEF Taken, InHand, Missing, Covered, Recorded, IsEvent
    <3> QED BY <2>1, <3>1, <3>2 DEF Good, Order
  <2>6. Types'
    <3>1. base' \in [Install -> Nat]
      BY <2>1, <2>2 DEF Types
    <3> QED BY <2>1, <3>1 DEF Types
  <2> QED BY <2>3, <2>4, <2>5, <2>6 DEF Good
<1> QED BY <1>1, <1>2

(* What becomes fewer stays few.                                           *)
LEMMA FewerDue ==
  ASSUME Types, NEW i \in Install, Cardinality(Due(i)) <= Cap + 1, NEW S, S \subseteq Due(i)
  PROVE  Cardinality(S) <= Cap + 1
<1>1. IsFiniteSet(1 .. backlog[i])
  BY Counted DEF Types
<1>2. IsFiniteSet(Due(i))
  BY <1>1, FS_Subset DEF Due
<1>3. IsFiniteSet(S) /\ Cardinality(S) <= Cardinality(Due(i))
  BY <1>2, FS_Subset
<1>4. Cardinality(S) \in Nat /\ Cardinality(Due(i)) \in Nat
  BY <1>2, <1>3, FS_CardinalityType
<1> QED BY <1>3, <1>4, IngestAssumption

(* The same of what a crash would lose.                                    *)
LEMMA FewerMissing ==
  ASSUME Types, NEW i \in Install, Cardinality(Missing(i)) <= Cap + 1, NEW S, S \subseteq Missing(i)
  PROVE  Cardinality(S) <= Cap + 1
<1>1. IsFiniteSet(1 .. saved[i])
  BY Counted DEF Types
<1>2. IsFiniteSet(Missing(i))
  <2>1. Missing(i) \subseteq 1 .. saved[i]
    BY DEF Missing, Covered, Types
  <2> QED BY <1>1, <2>1, FS_Subset
<1>3. IsFiniteSet(S) /\ Cardinality(S) <= Cardinality(Missing(i))
  BY <1>2, FS_Subset
<1>4. Cardinality(S) \in Nat /\ Cardinality(Missing(i)) \in Nat
  BY <1>2, <1>3, FS_CardinalityType
<1> QED BY <1>3, <1>4, IngestAssumption

(* A run starts where the saved offset is, with nothing taken.             *)
LEMMA StartGood ==
  ASSUME IInv, Types, NEW i \in Install, Good(i), Start(i)
  PROVE  Types' /\ Good(i)'
<1> USE DEF logVars, dbVars, tailVars, histVars
<1>1. /\ ctx[i] = "none"
      /\ ctx'[i] = "live" /\ tail'[i] = "idle" /\ writer'[i] = "idle"
      /\ offset'[i] = saved[i] /\ consumed'[i] = saved[i]
      /\ caughtUp'[i] = FALSE /\ published'[i] = {} /\ failed'[i] = FALSE
      /\ startId'[i] = base[i] + saved[i]
      /\ backlog'[i] = Len(lines[i]) /\ startRows'[i] = Len(table[i])
      /\ UNCHANGED <<lines, base, saved, table, chunk, eventCh, tx>>
  BY DEF Start, IInv, Shape, Types
<1>2. tail[i] = "exited" /\ writer[i] = "exited"
  BY <1>1 DEF IInv, Ended
<1>3. chunk[i] = <<>> /\ eventCh[i] = <<>> /\ tx[i] = <<>>
  BY <1>1, <1>2 DEF IInv, NoLeakedConnection, Good, Local
<1>4. lines[i] \in Seq(Kind) /\ table[i] \in Seq(Nat) /\ base[i] \in Nat /\ saved[i] \in Nat
      /\ Len(table[i]) \in Nat /\ Len(lines[i]) \in Nat
  BY DEF Types
<1>5. Local(i)' /\ InFile(i)'
  BY <1>1, <1>3, <1>4, IngestAssumption DEF Good, Local, InFile
<1>6. Gate(i)'
  BY <1>1 DEF Gate
<1>7. Order(i)'
  <2> SUFFICES ASSUME base[i] = 0 PROVE Order(i)'
    BY <1>1 DEF Order
  <2>1. saved[i] <= Len(lines[i])
    BY DEF Good, InFile
  <2>2. Contiguous(lines[i], <<>>, <<>>, saved[i])
    BY <1>4, <2>1 DEF Contiguous
  <2>3. Taken(i)' = table[i]
    BY <1>1, <1>3, <1>4 DEF Taken, InHand
  <2>4. TakenInOrder(lines[i], table[i], Len(table[i]), saved[i], saved[i])
    BY <1>4 DEF TakenInOrder
  <2>5. Missing(i)' = {}
    BY <1>1, <1>4 DEF Missing, Covered
  <2>6. Cardinality(Missing(i)') <= Cap + 1
    BY <2>5, FS_EmptySet, IngestAssumption
  <2>7. startId'[i] = saved[i] /\ consumed'[i] - Len(eventCh'[i]) = saved[i]
    BY <1>1, <1>3, <1>4
  <2> QED BY <1>1, <1>3, <2>2, <2>3, <2>4, <2>6, <2>7 DEF Order
<1>8. Types'
  <2>1. /\ offset' = [offset EXCEPT ![i] = saved[i]]
        /\ consumed' = [consumed EXCEPT ![i] = saved[i]]
        /\ caughtUp' = [caughtUp EXCEPT ![i] = FALSE]
        /\ published' = [published EXCEPT ![i] = {}]
        /\ startId' = [startId EXCEPT ![i] = base[i] + saved[i]]
        /\ backlog' = [backlog EXCEPT ![i] = Len(lines[i])]
        /\ startRows' = [startRows EXCEPT ![i] = Len(table[i])]
        /\ failed' = [failed EXCEPT ![i] = FALSE]
        /\ UNCHANGED <<lines, base, saved, table, chunk, drained, eventCh, hand, tx>>
    BY DEF Start
  <2>2. base[i] + saved[i] \in Nat
    BY <1>4
  <2>3. /\ offset' \in [Install -> Nat] /\ consumed' \in [Install -> Nat]
        /\ startId' \in [Install -> Nat] /\ backlog' \in [Install -> Nat]
        /\ startRows' \in [Install -> Nat]
    BY <1>4, <2>1, <2>2 DEF Types
  <2>4. /\ caughtUp' \in [Install -> BOOLEAN] /\ failed' \in [Install -> BOOLEAN]
        /\ published' \in [Install -> SUBSET Nat]
    BY <2>1 DEF Types
  <2> QED BY <2>1, <2>3, <2>4 DEF Types
<1> QED BY <1>5, <1>6, <1>7, <1>8 DEF Good

(* A cancelled run takes what it has, and a collected one has nothing.     *)
LEMMA EndGood ==
  ASSUME IInv, Types, NEW i \in Install, Good(i), Cancel(i) \/ Collect(i)
  PROVE  Types' /\ Good(i)'
<1> USE DEF logVars, dbVars, tailVars, histVars
<1>1. /\ ctx'[i] \in {"done", "none"}
      /\ ctx'[i] = "none" => eventCh'[i] = <<>>
      /\ eventCh'[i] \in {eventCh[i], <<>>}
      /\ UNCHANGED <<lines, base, saved, table, tail, offset, chunk, consumed, drained, caughtUp,
             writer, hand, tx, startId, backlog, startRows, published, failed>>
  BY DEF Cancel, Collect, Types, IInv, Shape
<1>2. Types'
  <2>1. /\ eventCh' = [eventCh EXCEPT ![i] = <<>>] \/ eventCh' = eventCh
        /\ UNCHANGED <<lines, base, saved, table, tail, offset, chunk, consumed, drained, caughtUp,
             writer, hand, tx, startId, backlog, startRows, published, failed>>
    BY DEF Cancel, Collect
  <2>2. eventCh' \in [Install -> Seq(Nat)]
    <3>1. <<>> \in Seq(Nat)
      OBVIOUS
    <3>2. CASE eventCh' = [eventCh EXCEPT ![i] = <<>>]
      BY <3>1, <3>2 DEF Types
    <3>3. CASE eventCh' = eventCh
      BY <3>3 DEF Types
    <3> QED BY <2>1, <3>2, <3>3
  <2> QED BY <2>1, <2>2 DEF Types
<1>3. Order(i)'
  BY <1>1 DEF Order
<1>4. Local(i)' /\ InFile(i)'
  BY <1>1, IngestAssumption DEF Good, Local, InFile
<1>5. Gate(i)'
  <2>1. Due(i)' \subseteq Due(i)
    BY <1>1, <1>2 DEF Due, Held, Queue
  <2>2. ReadTo(i)' = ReadTo(i)
    BY <1>1 DEF ReadTo
  <2> QED BY <1>1, <2>1, <2>2, FewerDue DEF Good, Gate
<1> QED BY <1>2, <1>3, <1>4, <1>5 DEF Good

(* After the process's end nothing is in hand or in the channel.           *)
LEMMA CrashGood ==
  ASSUME IInv, Types, NEW i \in Install, Good(i), Crash
  PROVE  Good(i)'
<1> USE DEF logVars, dbVars, tailVars, histVars
<1>1. /\ ctx'[i] = "none" /\ tail'[i] = "exited" /\ writer'[i] = "exited"
      /\ chunk'[i] = <<>> /\ eventCh'[i] = <<>>
      /\ UNCHANGED <<lines, base, saved, table, offset, consumed, drained, caughtUp,
             startId, backlog, startRows, published, failed>>
  BY DEF Crash
<1>2. Order(i)'
  BY <1>1 DEF Order
<1>3. Local(i)' /\ InFile(i)'
  BY <1>1, IngestAssumption DEF Good, Local, InFile
<1>4. Gate(i)'
  <2>1. Due(i)' \subseteq Due(i)
    BY <1>1 DEF Due, Held, Queue
  <2> QED BY <1>1, <2>1, FewerDue DEF Good, Gate
<1> QED BY <1>2, <1>3, <1>4 DEF Good

(* poll() reads a chunk, from the start if the file has shrunk.            *)
LEMMA PollGood ==
  ASSUME IInv, Types, NEW i \in Install, Good(i), Poll(i)
  PROVE  Types' /\ Good(i)'
<1> DEFINE from == ReadFrom(i)
           end == ReadEnd(i, from)
<1>1. /\ tail[i] = "idle" /\ tail'[i] = "sending" /\ chunk'[i] = Lines(from + 1, end)
      /\ consumed' = [consumed EXCEPT ![i] = from - base[i]]
      /\ drained' = [drained EXCEPT ![i] = ReadDrains(i, from)]
      /\ chunk' = [chunk EXCEPT ![i] = Lines(from + 1, end)]
      /\ UNCHANGED <<lines, base, saved, table, offset, caughtUp, eventCh,
             writer, hand, tx, ctx, startId, backlog, startRows, published, failed>>
  BY DEF Poll, IInv, Shape, Types, logVars, dbVars, tailVars, histVars
<1>2. /\ lines[i] \in Seq(Kind) /\ Len(lines[i]) \in Nat /\ base[i] \in Nat /\ offset[i] \in Nat
      /\ base[i] <= Len(lines[i]) /\ consumed[i] = offset[i] /\ chunk[i] = <<>>
      /\ backlog[i] \in Nat /\ backlog[i] <= Len(lines[i])
  BY <1>1 DEF Types, Good, Local
<1>3. /\ from \in Nat /\ from <= Len(lines[i]) /\ base[i] <= from
      /\ base[i] + offset[i] <= Len(lines[i]) => from = base[i] + offset[i]
      /\ from = base[i] + offset[i] \/ from = base[i]
  BY <1>2 DEF ReadFrom, FileLen
<1>4. /\ end \in Nat /\ from <= end /\ end <= Len(lines[i])
      /\ ReadDrains(i, from) => end = Len(lines[i])
  BY <1>2, <1>3, ReadEndIs
<1> HIDE DEF from, end
<1>5. /\ chunk'[i] \in Seq(Nat) /\ Len(chunk'[i]) = end - from
      /\ \A k \in 1 .. end - from : chunk'[i][k] = from + k
  <2>1. chunk'[i] = Lines(from + 1, end)
    BY <1>1
  <2> QED BY <1>3, <1>4, <2>1, LinesAre
<1>6. consumed'[i] = from - base[i] /\ drained'[i] = ReadDrains(i, from)
  BY <1>1 DEF Types
<1>7. ReadTo(i)' = end /\ ReadTo(i) = base[i] + offset[i] /\ Due(i)' = Due(i)
  <2>1. Len(chunk'[i]) = end - from /\ base'[i] = base[i]
    BY <1>1, <1>3, <1>4, <1>5
  <2>2. base[i] + (from - base[i]) + (end - from) = end
    BY <1>2, <1>3, <1>4
  <2>3. ReadTo(i)' = end
    BY <1>6, <2>1, <2>2 DEF ReadTo
  <2>4. ReadTo(i) = base[i] + offset[i]
    BY <1>2 DEF ReadTo
  <2>5. Due(i)' = Due(i)
    BY <1>1 DEF Due, Held, Queue
  <2> QED BY <2>3, <2>4, <2>5
<1>8. ReadDrains(i, from) \in BOOLEAN
  BY DEF ReadDrains
<1>9. Types'
  <2>1. chunk' \in [Install -> Seq(Nat)]
    BY <1>1, <1>5 DEF Types
  <2>2. consumed' \in [Install -> Nat]
    <3>1. from - base[i] \in Nat
      BY <1>2, <1>3
    <3> QED BY <1>1, <3>1 DEF Types
  <2>3. drained' \in [Install -> BOOLEAN]
    BY <1>1, <1>8 DEF Types
  <2> QED BY <1>1, <2>1, <2>2, <2>3 DEF Types
<1>10. Local(i)' /\ InFile(i)'
  BY <1>1, <1>2, <1>3, <1>4, <1>5, <1>6 DEF Good, Local, InFile
<1>11. Order(i)'
  <2> SUFFICES ASSUME ctx[i] = "live", base[i] = 0 PROVE Order(i)'
    BY <1>1 DEF Order
  <2>1. Contiguous(lines[i], eventCh[i], chunk[i], consumed[i])
    BY DEF Good, Order
  <2>2. consumed'[i] = consumed[i] /\ from = consumed[i]
    BY <1>2, <1>3, <1>6, <2>1 DEF Contiguous
  <2>3. Contiguous(lines[i], eventCh[i], chunk'[i], consumed[i])
    BY <1>2, <1>3, <1>4, <1>5, <2>1, <2>2 DEF Contiguous
  <2>4. Taken(i)' = Taken(i) /\ Missing(i)' = Missing(i)
    BY <1>1 DEF Taken, InHand, Missing, Covered, Recorded, IsEvent
  <2> QED BY <1>1, <2>2, <2>3, <2>4 DEF Good, Order
<1>12. Gate(i)'
  <2>1. caughtUp[i] => base[i] + offset[i] >= backlog[i] /\ from >= backlog[i]
    BY <1>1, <1>2, <1>3, <1>7 DEF Good, Gate
  <2>2. caughtUp[i] => \A k \in 1 .. Len(chunk'[i]) : chunk'[i][k] > backlog[i]
    BY <1>2, <1>3, <1>4, <1>5, <2>1
  <2> QED BY <1>1, <1>2, <1>3, <1>4, <1>6, <1>7, <2>1, <2>2 DEF Good, Gate
<1> QED BY <1>9, <1>10, <1>11, <1>12 DEF Good

(* A line passes from the chunk to the channel.                            *)
LEMMA SendGood ==
  ASSUME IInv, Types, NEW i \in Install, Good(i), SendLine(i)
  PROVE  Types' /\ Good(i)'
<1>1. /\ tail[i] = "sending" /\ chunk[i] # <<>> /\ Len(eventCh[i]) < Cap
      /\ eventCh'[i] = Append(eventCh[i], Head(chunk[i]))
      /\ chunk'[i] = Tail(chunk[i]) /\ consumed'[i] = consumed[i] + 1
      /\ UNCHANGED <<lines, base, saved, table, tail, offset, drained, caughtUp,
             writer, hand, tx, ctx, startId, backlog, startRows, published, failed>>
  BY DEF SendLine, Room, Types, logVars, dbVars, tailVars, histVars
<1>2. /\ base[i] \in Nat /\ consumed[i] \in Nat /\ backlog[i] \in Nat /\ Len(lines[i]) \in Nat
      /\ eventCh[i] \in Seq(Nat) /\ chunk[i] \in Seq(Nat) /\ Cap \in Nat
  BY IngestAssumption DEF Types
<1>3. /\ eventCh'[i] \in Seq(Nat) /\ chunk'[i] \in Seq(Nat) /\ consumed'[i] \in Nat
      /\ Len(eventCh'[i]) = Len(eventCh[i]) + 1 /\ Len(eventCh[i]) \in Nat
      /\ consumed'[i] + Len(chunk'[i]) = consumed[i] + Len(chunk[i])
      /\ ReadTo(i)' = ReadTo(i) /\ ReadTo(i) \in Nat
      /\ consumed'[i] - Len(eventCh'[i]) = consumed[i] - Len(eventCh[i])
      /\ Queue(i)' \subseteq Queue(i) \cup {chunk[i][1]}
      /\ (\A k \in 1 .. Len(chunk[i]) : chunk[i][k] > backlog[i]) =>
            chunk[i][1] > backlog[i] /\ \A k \in 1 .. Len(chunk'[i]) : chunk'[i][k] > backlog[i]
  <2> DEFINE ch == Append(eventCh[i], Head(chunk[i]))
             ck == Tail(chunk[i])
             at == consumed[i] + 1
  <2>1. /\ ch \in Seq(Nat) /\ ck \in Seq(Nat) /\ at \in Nat
        /\ Len(ch) = Len(eventCh[i]) + 1 /\ Len(eventCh[i]) \in Nat
        /\ at + Len(ck) = consumed[i] + Len(chunk[i])
        /\ base[i] + at + Len(ck) = base[i] + consumed[i] + Len(chunk[i])
        /\ base[i] + consumed[i] + Len(chunk[i]) \in Nat
        /\ at - Len(ch) = consumed[i] - Len(eventCh[i])
    <3>0. /\ eventCh[i] \in Seq(Nat) /\ chunk[i] \in Seq(Nat) /\ chunk[i] # <<>>
          /\ consumed[i] \in Nat /\ base[i] \in Nat
      BY <1>1, <1>2
    <3>1. ch \in Seq(Nat) /\ ck \in Seq(Nat)
      BY <3>0, SendMoves
    <3>2. Len(ch) = Len(eventCh[i]) + 1 /\ Len(eventCh[i]) \in Nat
      BY <3>0, SendMoves
    <3>3. Len(ck) = Len(chunk[i]) - 1 /\ Len(chunk[i]) \in Nat
      BY <3>0, SendMoves
    <3> HIDE DEF ch, ck
    <3>4. consumed[i] \in Nat /\ base[i] \in Nat
      BY <3>0
    <3>5. /\ at \in Nat /\ at + Len(ck) = consumed[i] + Len(chunk[i])
          /\ base[i] + consumed[i] + Len(chunk[i]) \in Nat
      BY <3>3, <3>4
    <3>6. base[i] + at + Len(ck) = base[i] + consumed[i] + Len(chunk[i])
      BY <3>3, <3>4
    <3>7. at - Len(ch) = consumed[i] - Len(eventCh[i])
      BY <3>2, <3>4
    <3> QED BY <3>1, <3>2, <3>5, <3>6, <3>7
  <2>2. (\A k \in 1 .. Len(chunk[i]) : chunk[i][k] > backlog[i]) =>
             chunk[i][1] > backlog[i] /\ \A k \in 1 .. Len(ck) : ck[k] > backlog[i]
    BY <1>1, <1>2, SendMoves
  <2>3. \A k \in 1 .. Len(eventCh[i]) + 1 : ch[k] =
          IF k = Len(eventCh[i]) + 1 THEN chunk[i][1] ELSE eventCh[i][k]
    BY <1>1, <1>2, SendMoves
  <2>4. eventCh'[i] = ch /\ chunk'[i] = ck /\ consumed'[i] = at
    BY <1>1
  <2> HIDE DEF ch, ck, at
  <2>5. \A k \in 1 .. Len(ch) : ch[k] # chunk[i][1] =>
          k \in 1 .. Len(eventCh[i]) /\ ch[k] = eventCh[i][k]
    BY <2>1, <2>3
  <2>6. Queue(i)' \subseteq Queue(i) \cup {chunk[i][1]}
    BY <2>4, <2>5 DEF Queue
  <2>7. ReadTo(i) = base[i] + consumed[i] + Len(chunk[i])
        /\ ReadTo(i)' = base[i] + at + Len(ck)
    BY <1>1, <2>4 DEF ReadTo
  <2> QED BY <2>1, <2>2, <2>4, <2>6, <2>7, Zenon
<1>4. ctx[i] # "none"
  BY <1>1 DEF IInv, Ended
<1>5. Types'
  <2>1. /\ chunk' = [chunk EXCEPT ![i] = chunk'[i]]
        /\ consumed' = [consumed EXCEPT ![i] = consumed'[i]]
        /\ eventCh' = [eventCh EXCEPT ![i] = eventCh'[i]]
        /\ UNCHANGED <<lines, base, saved, table, offset, drained, caughtUp, hand, tx,
               startId, backlog, startRows, published, failed>>
    BY DEF SendLine, Types, logVars, dbVars, tailVars, histVars
  <2> QED BY <1>3, <2>1 DEF Types
<1>6. Local(i)' /\ InFile(i)'
  <2>1. Len(eventCh'[i]) <= Cap
    BY <1>1, <1>2, <1>3
  <2> QED BY <1>1, <1>3, <1>4, <2>1 DEF Good, Local, InFile
<1>7. Order(i)'
  <2> SUFFICES ASSUME ctx[i] = "live", base[i] = 0 PROVE Order(i)'
    BY <1>1 DEF Order
  <2>1. Contiguous(lines[i], eventCh[i], chunk[i], consumed[i])
    BY DEF Good, Order
  <2>2. Contiguous(lines[i], eventCh'[i], chunk'[i], consumed'[i])
    BY <1>1, <1>2, <2>1, SendContiguous
  <2>3. Taken(i)' = Taken(i) /\ Missing(i)' = Missing(i)
    BY <1>1 DEF Taken, InHand, Missing, Covered, Recorded, IsEvent
  <2> QED BY <1>1, <1>3, <2>2, <2>3 DEF Good, Order
<1>8. Gate(i)'
  <2>1. caughtUp[i] => /\ base[i] + consumed[i] >= backlog[i]
                       /\ chunk[i][1] > backlog[i]
                       /\ \A k \in 1 .. Len(chunk'[i]) : chunk'[i][k] > backlog[i]
    BY <1>1, <1>3 DEF Good, Gate
  <2>2. caughtUp[i] => Due(i)' \subseteq Due(i)
    BY <1>1, <1>2, <1>3, <2>1 DEF Due, Held
  <2>3. caughtUp[i] => Cardinality(Due(i)') <= Cap + 1
    BY <2>2, FewerDue DEF Good, Gate
  <2>4. caughtUp[i] => base[i] + consumed'[i] >= backlog[i]
    BY <1>1, <1>2, <2>1
  <2> QED BY <1>1, <1>3, <2>1, <2>3, <2>4 DEF Good, Gate
<1> QED BY <1>5, <1>6, <1>7, <1>8 DEF Good

(* A cancelled run drops the rest of its chunk.                            *)
LEMMA GiveUpGood ==
  ASSUME IInv, Types, NEW i \in Install, Good(i), GiveUpSending(i)
  PROVE  Types' /\ Good(i)'
<1>1. /\ tail[i] = "sending" /\ chunk[i] # <<>> /\ ctx[i] = "done"
      /\ chunk'[i] = <<>> /\ consumed'[i] = consumed[i] + 1 /\ drained'[i] = FALSE
      /\ UNCHANGED <<lines, base, saved, table, tail, offset, caughtUp, eventCh,
             writer, hand, tx, ctx, startId, backlog, startRows, published, failed>>
  BY DEF GiveUpSending, Types, logVars, dbVars, tailVars, histVars
<1>2. /\ Len(lines[i]) \in Nat /\ base[i] \in Nat /\ consumed[i] \in Nat /\ backlog[i] \in Nat
      /\ Len(chunk[i]) \in Nat /\ Len(chunk[i]) > 0 /\ Len(chunk'[i]) = 0
  BY <1>1 DEF Types
<1>3. Types'
  <2>1. /\ chunk' = [chunk EXCEPT ![i] = <<>>]
        /\ consumed' = [consumed EXCEPT ![i] = consumed[i] + 1]
        /\ drained' = [drained EXCEPT ![i] = FALSE]
    BY DEF GiveUpSending
  <2>2. consumed[i] + 1 \in Nat /\ <<>> \in Seq(Nat)
    BY <1>2
  <2>3. UNCHANGED <<lines, base, saved, table, offset, caughtUp, eventCh, hand, tx,
               startId, backlog, startRows, published, failed>>
    BY DEF GiveUpSending, logVars, dbVars, histVars
  <2> QED BY <2>1, <2>2, <2>3 DEF Types
<1>4. Local(i)' /\ InFile(i)'
  BY <1>1, <1>2 DEF Good, Local, InFile
<1>5. Order(i)'
  BY <1>1 DEF Order
<1>6. Gate(i)'
  <2>1. Due(i)' = Due(i) /\ ReadTo(i)' <= ReadTo(i)
    BY <1>1, <1>2 DEF Due, Held, Queue, ReadTo
  <2>2. ReadTo(i) \in Nat /\ ReadTo(i)' \in Nat
    <3>1. consumed'[i] = consumed[i] + 1 /\ Len(chunk'[i]) = 0 /\ base'[i] = base[i]
      BY <1>1, <1>2
    <3> QED BY <1>2, <3>1 DEF ReadTo
  <2> QED BY <1>1, <1>2, <2>1, <2>2 DEF Good, Gate
<1> QED BY <1>3, <1>4, <1>5, <1>6 DEF Good

(* poll() returns, and a cancelled tailer ends between two polls.          *)
LEMMA ReturnGood ==
  ASSUME IInv, Types, NEW i \in Install, Good(i), PollReturns(i) \/ TailerExits(i)
  PROVE  Types' /\ Good(i)'
<1>1. /\ tail[i] \in {"sending", "idle"} /\ chunk[i] = <<>>
      /\ \/ tail[i] = "sending" /\ offset'[i] = consumed[i] /\ tail'[i] \in {"saving", "latching"}
         \/ tail[i] = "idle" /\ ctx[i] = "done" /\ offset' = offset /\ tail'[i] = "exited"
      /\ UNCHANGED <<lines, base, saved, table, chunk, consumed, drained, caughtUp, eventCh,
             writer, hand, tx, ctx, startId, backlog, startRows, published, failed>>
  BY DEF PollReturns, TailerExits, Types, IInv, Shape, Good, Local,
         logVars, dbVars, tailVars, histVars
<1>2. Types'
  BY DEF PollReturns, TailerExits, Types, logVars, dbVars, tailVars, histVars
<1>3. Local(i)' /\ InFile(i)'
  BY <1>1 DEF Good, Local, InFile
<1>4. Order(i)'
  <2>1. Taken(i)' = Taken(i) /\ Missing(i)' = Missing(i)
    BY <1>1 DEF Taken, InHand, Missing, Covered, Recorded, IsEvent
  <2> QED BY <1>1, <2>1 DEF Good, Order
<1>5. Gate(i)'
  <2>1. Due(i)' = Due(i) /\ ReadTo(i)' = ReadTo(i)
    BY <1>1 DEF Due, Held, Queue, ReadTo
  <2> QED BY <1>1, <2>1 DEF Good, Gate
<1> QED BY <1>2, <1>3, <1>4, <1>5 DEF Good

(* What a saved offset covers and no row has is in hand or in the channel. *)
LEMMA SaveGood ==
  ASSUME IInv, Types, NEW i \in Install, Good(i), SaveOffset(i)
  PROVE  Types' /\ Good(i)'
<1>1. /\ tail[i] = "saving" /\ conn = Tailer(i) /\ tail'[i] = "latching"
      /\ \/ saved'[i] = offset[i] /\ failed'[i] = failed[i]
         \/ saved'[i] = saved[i] /\ failed'[i] = TRUE
      /\ UNCHANGED <<lines, base, table, offset, chunk, consumed, drained, caughtUp, eventCh,
             writer, hand, tx, ctx, startId, backlog, startRows, published>>
  BY DEF SaveOffset, IInv, Shape, Types, logVars, dbVars, tailVars, histVars
<1>2. chunk[i] = <<>> /\ offset[i] = consumed[i] /\ offset[i] \in Nat /\ tx[i] = <<>>
  BY <1>1, UsersDiffer DEF Good, Local, IInv, NoLeakedConnection, Types
<1>3. Types'
  BY <1>1 DEF SaveOffset, Types, logVars, dbVars, tailVars, histVars
<1>4. Local(i)' /\ InFile(i)'
  BY <1>1, <1>2 DEF Good, Local, InFile, Types
<1>5. Order(i)'
  <2> SUFFICES ASSUME ctx[i] = "live", base[i] = 0 PROVE Order(i)'
    BY <1>1 DEF Order
  <2>1. CASE failed'[i]
    BY <1>1, <2>1 DEF Good, Order
  <2>2. CASE ~failed'[i]
    <3> DEFINE ch == eventCh[i]
               at == consumed[i] - Len(ch)
    <3>1. saved'[i] = consumed[i] /\ ~failed[i]
      BY <1>1, <1>2, <2>2
    <3>2. TakenInOrder(lines[i], Taken(i), startRows[i], startId[i], at)
          /\ Contiguous(lines[i], ch, chunk[i], consumed[i])
      BY <3>1 DEF Good, Order
    <3>3. ch \in Seq(Nat) /\ Len(ch) \in Nat /\ consumed[i] \in Nat /\ at \in Nat
          /\ startId[i] \in Nat /\ startRows[i] \in Nat /\ hand[i] \in Nat /\ table[i] \in Seq(Nat)
      BY <3>2 DEF Types, Contiguous
    <3>4. \A k \in 1 .. Len(Taken(i)) : Taken(i)[k] \in Recorded(i) \cup {hand[i]}
      <4>1. Taken(i) = table[i] \o <<>> \o InHand(i) /\ InHand(i) \in {<<>>, <<hand[i]>>}
        BY <1>2 DEF Taken, InHand
      <4>2. hand[i] \in Nat /\ table[i] \in Seq(Nat)
        BY <3>3
      <4>3. \A k \in 1 .. Len(Taken(i)) :
               Taken(i)[k] \in {table[i][l] : l \in DOMAIN table[i]} \cup {hand[i]}
        <5>1. CASE InHand(i) = <<>>
          BY <4>1, <4>2, <5>1, TakenBetweenBatches
        <5>2. CASE InHand(i) = <<hand[i]>>
          BY <4>1, <4>2, <5>2, TakenBetweenBatches
        <5> QED BY <4>1, <5>1, <5>2
      <4> QED BY <4>3 DEF Recorded
    <3>5. ASSUME NEW n \in Missing(i)' PROVE n \in Queue(i) \cup {hand[i]}
      <4>1. n \in startId[i] + 1 .. consumed[i] /\ Event(lines[i], n) /\ n \notin Recorded(i)
        BY <1>1, <3>1, <3>5 DEF Missing, Covered, Recorded, IsEvent, Event
      <4>2. CASE n <= at
        <5>1. PICK k \in startRows[i] + 1 .. Len(Taken(i)) : Taken(i)[k] = n
          BY <3>2, <3>3, <4>1, <4>2 DEF TakenInOrder
        <5> QED BY <3>3, <3>4, <4>1, <5>1
      <4>3. CASE n > at
        <5>1. n - at \in 1 .. Len(ch) /\ at + (n - at) = n
          <6>1. /\ Len(ch) \in Nat /\ consumed[i] \in Nat /\ startId[i] \in Nat
                /\ n \in startId[i] + 1 .. consumed[i]
            BY <3>3, <4>1
          <6> HIDE DEF ch
          <6> QED BY <4>3, <6>1
        <5>2. ch[n - at] = n
          BY <3>2, <5>1 DEF Contiguous
        <5> QED BY <5>1, <5>2 DEF Queue
      <4> QED BY <3>3, <4>1, <4>2, <4>3
    <3>6. Cardinality(Missing(i)') <= Cap + 1
      <4>1. Missing(i)' \subseteq {ch[k] : k \in 1 .. Len(ch)} \cup {hand[i]}
        BY <3>5 DEF Queue
      <4>2. Len(ch) <= Cap
        BY DEF Good, Local
      <4> HIDE DEF ch
      <4> QED BY <3>3, <4>1, <4>2, HandAndChannel
    <3>7. Taken(i)' = Taken(i)
      BY <1>1 DEF Taken, InHand
    <3> QED BY <1>1, <3>1, <3>2, <3>6, <3>7 DEF Order
  <2> QED BY <2>1, <2>2
<1>6. Gate(i)'
  <2>1. Due(i)' = Due(i) /\ ReadTo(i)' = ReadTo(i)
    BY <1>1 DEF Due, Held, Queue, ReadTo
  <2> QED BY <1>1, <2>1 DEF Good, Gate
<1> QED BY <1>3, <1>4, <1>5, <1>6 DEF Good

(* When the gate opens, the rest of the backlog is in hand or in the       *)
(* channel.                                                                *)
LEMMA LatchGood ==
  ASSUME IInv, Types, NEW i \in Install, Good(i), LatchCaughtUp(i)
  PROVE  Types' /\ Good(i)'
<1>1. /\ tail[i] = "latching" /\ tail'[i] = "idle"
      /\ caughtUp'[i] = (caughtUp[i] \/ drained[i]) /\ drained'[i] = FALSE
      /\ UNCHANGED <<lines, base, saved, table, offset, chunk, consumed, eventCh, failed,
             writer, hand, tx, ctx, startId, backlog, startRows, published>>
  BY DEF LatchCaughtUp, Drained, IInv, Shape, Types, logVars, dbVars, tailVars, histVars
<1>2. /\ chunk[i] = <<>> /\ offset[i] = consumed[i] /\ offset[i] \in Nat /\ base[i] \in Nat
      /\ caughtUp[i] \in BOOLEAN /\ drained[i] \in BOOLEAN
  BY <1>1 DEF Good, Local, Types
<1>3. Types'
  BY <1>2 DEF LatchCaughtUp, Drained, Types, logVars, dbVars, tailVars, histVars
<1>4. Local(i)' /\ InFile(i)'
  BY <1>1, <1>2 DEF Good, Local, InFile
<1>5. Order(i)'
  <2>1. Taken(i)' = Taken(i) /\ Missing(i)' = Missing(i)
    BY <1>1 DEF Taken, InHand, Missing, Covered, Recorded, IsEvent
  <2> QED BY <1>1, <2>1 DEF Good, Order
<1>6. Gate(i)'
  <2>1. Due(i)' = Due(i) /\ ReadTo(i)' = ReadTo(i)
    BY <1>1 DEF Due, Held, Queue, ReadTo
  <2>2. ReadTo(i) = base[i] + consumed[i]
    BY <1>2 DEF ReadTo
  <2>3. Cardinality(Due(i)) <= Cap + 1 \/ ~caughtUp'[i]
    <3>1. CASE caughtUp[i]
      BY <3>1 DEF Good, Gate
    <3>2. CASE ~caughtUp[i]
      <4>1. published[i] = {}
        BY <3>2 DEF Good, Gate
      <4>2. Due(i) \subseteq {eventCh[i][k] : k \in 1 .. Len(eventCh[i])} \cup {hand[i]}
        BY <4>1 DEF Due, Held, Queue
      <4>3. eventCh[i] \in Seq(Nat) /\ Len(eventCh[i]) <= Cap
        BY DEF Types, Good, Local
      <4> QED BY <4>2, <4>3, HandAndChannel
    <3> QED BY <3>1, <3>2
  <2>4. caughtUp'[i] => base[i] + consumed[i] >= backlog[i]
    BY <1>1, <2>2 DEF Good, Gate
  <2> QED BY <1>1, <1>2, <2>1, <2>2, <2>3, <2>4 DEF Good, Gate
<1> QED BY <1>3, <1>4, <1>5, <1>6 DEF Good

(* The writer receives a line.                                             *)
LEMMA ReceiveGood ==
  ASSUME IInv, Types, NEW i \in Install, Good(i), Receive(i)
  PROVE  Types' /\ Good(i)'
<1> DEFINE ch == eventCh[i]
           to == consumed[i] - Len(ch)
<1>1. /\ writer[i] = "idle" /\ ch # <<>> /\ eventCh'[i] = Tail(ch)
      /\ \/ IsEvent(i, Head(ch)) /\ writer'[i] = "apply" /\ hand'[i] = Head(ch)
         \/ ~IsEvent(i, Head(ch)) /\ writer'[i] = "idle" /\ hand'[i] = hand[i]
      /\ UNCHANGED <<lines, base, saved, table, tail, offset, chunk, consumed, drained, caughtUp,
             tx, ctx, startId, backlog, startRows, published, failed>>
  BY DEF Receive, IInv, Shape, Types, logVars, dbVars, tailVars, histVars
<1>2. ch \in Seq(Nat) /\ consumed[i] \in Nat /\ Cap \in Nat /\ Len(lines[i]) \in Nat
  BY IngestAssumption DEF Types
<1>3. /\ Tail(ch) \in Seq(Nat) /\ Len(Tail(ch)) = Len(ch) - 1 /\ Len(ch) \in Nat \ {0}
      /\ Head(ch) \in Nat
      /\ {Tail(ch)[k] : k \in 1 .. Len(Tail(ch))} \cup {Head(ch)}
           \subseteq {ch[k] : k \in 1 .. Len(ch)}
  BY <1>1, <1>2, ReceiveMoves
<1>4. Types'
  <2>1. /\ eventCh' = [eventCh EXCEPT ![i] = Tail(ch)]
        /\ hand' = [hand EXCEPT ![i] = Head(ch)] \/ hand' = hand
        /\ UNCHANGED <<lines, base, saved, table, tail, offset, chunk, consumed, drained, caughtUp,
             tx, ctx, startId, backlog, startRows, published, failed>>
    BY DEF Receive, Types, logVars, dbVars, tailVars, histVars
  <2> QED BY <1>3, <2>1 DEF Types
<1>5. Local(i)' /\ InFile(i)'
  <2>1. Len(Tail(ch)) <= Cap
    BY <1>2, <1>3 DEF Good, Local
  <2> QED BY <1>1, <2>1 DEF Good, Local, InFile
<1>6. Order(i)'
  <2> SUFFICES ASSUME ctx[i] = "live", base[i] = 0 PROVE Order(i)'
    BY <1>1 DEF Order
  <2>1. Contiguous(lines[i], ch, chunk[i], consumed[i]) /\ chunk[i] \in Seq(Nat)
    BY DEF Good, Order, Types
  <2>2. /\ Contiguous(lines[i], Tail(ch), chunk[i], consumed[i])
        /\ Head(ch) = to + 1 /\ consumed[i] - Len(Tail(ch)) = to + 1
    BY <1>1, <1>2, <2>1, ReceiveContiguous
  <2>3. to \in Nat
    BY <1>2, <1>3, <2>1 DEF Contiguous
  <2>4. Missing(i)' = Missing(i)
    BY <1>1 DEF Missing, Covered, Recorded, IsEvent
  <2>5. ASSUME ~failed[i]
        PROVE  TakenInOrder(lines[i], Taken(i)', startRows[i], startId[i], to + 1)
    <3>1. TakenInOrder(lines[i], Taken(i), startRows[i], startId[i], to)
      BY <2>5 DEF Good, Order
    <3>2. /\ Taken(i) = table[i] \o tx[i] \o <<>> /\ table[i] \in Seq(Nat) /\ tx[i] \in Seq(Nat)
          /\ startRows[i] \in Nat /\ startId[i] \in Nat
      BY <1>1 DEF Taken, InHand, Types
    <3>3. Taken(i) \in Seq(Nat)
      BY <3>2, RowsMove
    <3>4. CASE writer'[i] = "apply"
      <4>1. Taken(i)' = table[i] \o tx[i] \o <<to + 1>>
        BY <1>1, <2>2, <3>4 DEF Taken, InHand
      <4>2. Taken(i)' = Append(Taken(i), to + 1)
        <5>1. to + 1 \in Nat
          BY <2>3
        <5> HIDE DEF to
        <5>2. table[i] \o tx[i] \o <<to + 1>> = Append(table[i] \o tx[i] \o <<>>, to + 1)
          BY <3>2, <5>1, RowsMove
        <5> QED BY <3>2, <4>1, <5>2
      <4>3. Event(lines[i], to + 1)
        BY <1>1, <2>2, <3>4 DEF IsEvent, Event
      <4> HIDE DEF to
      <4> QED BY <2>3, <3>1, <3>2, <3>3, <4>2, <4>3, ReceiveEventTaken
    <3>5. CASE writer'[i] # "apply"
      <4>1. Taken(i)' = Taken(i)
        BY <1>1, <3>5 DEF Taken, InHand
      <4>2. ~Event(lines[i], to + 1)
        BY <1>1, <2>2, <3>5 DEF IsEvent, Event
      <4> HIDE DEF to
      <4> QED BY <2>3, <3>1, <3>2, <3>3, <4>1, <4>2, ReceiveNoiseTaken
    <3> QED BY <3>4, <3>5
  <2>6. consumed'[i] - Len(eventCh'[i]) = to + 1
    BY <1>1, <2>2
  <2> HIDE DEF to
  <2> QED BY <1>1, <2>2, <2>4, <2>5, <2>6 DEF Good, Order
<1>7. Gate(i)'
  <2>1. Held(i)' \cup Queue(i)' \subseteq Queue(i)
    BY <1>1, <1>3 DEF Held, Queue
  <2>2. Due(i)' \subseteq Due(i)
    BY <1>1, <2>1 DEF Due
  <2>3. ReadTo(i)' = ReadTo(i)
    BY <1>1 DEF ReadTo
  <2> QED BY <1>1, <2>2, <2>3, FewerDue DEF Good, Gate
<1> QED BY <1>4, <1>5, <1>6, <1>7 DEF Good

(* The line in hand becomes a row of the batch.                            *)
LEMMA ApplyGood ==
  ASSUME IInv, Types, NEW i \in Install, Good(i), Apply(i)
  PROVE  Types' /\ Good(i)'
<1>1. /\ writer[i] = "apply" /\ writer'[i] \in {"full", "publish"}
      /\ tx'[i] = Append(tx[i], hand[i]) /\ tx' = [tx EXCEPT ![i] = Append(tx[i], hand[i])]
      /\ UNCHANGED <<lines, base, saved, table, tail, offset, chunk, consumed, drained, caughtUp,
             eventCh, hand, ctx, startId, backlog, startRows, published, failed>>
  BY DEF Apply, IInv, Shape, Types, logVars, dbVars, tailVars, histVars
<1>2. table[i] \in Seq(Nat) /\ tx[i] \in Seq(Nat) /\ hand[i] \in Nat
  BY DEF Types
<1>3. Types'
  <2>1. Append(tx[i], hand[i]) \in Seq(Nat)
    BY <1>2
  <2> QED BY <1>1, <2>1 DEF Types
<1>4. Local(i)' /\ InFile(i)'
  BY <1>1 DEF Good, Local, InFile
<1>5. Order(i)'
  <2>1. /\ Taken(i) = table[i] \o tx[i] \o <<hand[i]>>
        /\ Taken(i)' = table[i] \o Append(tx[i], hand[i]) \o <<>>
    BY <1>1 DEF Taken, InHand
  <2>2. Taken(i)' = Taken(i)
    BY <1>2, <2>1, RowsMove
  <2>3. Missing(i)' = Missing(i)
    BY <1>1 DEF Missing, Covered, Recorded, IsEvent
  <2> QED BY <1>1, <2>2, <2>3 DEF Good, Order
<1>6. Gate(i)'
  <2>1. Due(i)' = Due(i) /\ ReadTo(i)' = ReadTo(i)
    BY <1>1 DEF Due, Held, Queue, ReadTo
  <2> QED BY <1>1, <2>1 DEF Good, Gate
<1> QED BY <1>3, <1>4, <1>5, <1>6 DEF Good

(* Publishing moves the line in hand through the gate, or drops it.        *)
LEMMA LetGoGood ==
  ASSUME IInv, Types, NEW i \in Install, Good(i), BeginFails(i) \/ Publish(i)
  PROVE  Types' /\ Good(i)'
<1>1. /\ writer[i] \in {"apply", "publish"} /\ writer'[i] = "idle"
      /\ \/ writer[i] = "apply" /\ failed'[i] = TRUE /\ published'[i] = published[i]
         \/ /\ writer[i] = "publish" /\ failed'[i] = failed[i]
            /\ published'[i] \subseteq published[i] \cup {hand[i]}
            /\ ~caughtUp[i] => published'[i] = published[i]
      /\ UNCHANGED <<lines, base, saved, table, tail, offset, chunk, consumed, drained, caughtUp,
             eventCh, tx, ctx, startId, backlog, startRows>>
  BY DEF BeginFails, Publish, IInv, Shape, Types, logVars, dbVars, tailVars, histVars
<1>2. Types'
  <2>1. CASE BeginFails(i)
    BY <2>1 DEF BeginFails, Types, logVars, dbVars, tailVars, histVars
  <2>2. CASE Publish(i)
    <3>1. /\ hand' = [hand EXCEPT ![i] = 0]
          /\ published' = [published EXCEPT ![i] = published'[i]]
          /\ hand[i] \in Nat /\ published[i] \subseteq Nat
      BY <2>2 DEF Publish, Types
    <3>2. published'[i] \subseteq Nat
      BY <1>1, <3>1
    <3>3. UNCHANGED <<lines, base, saved, table, offset, chunk, consumed, drained, caughtUp,
             eventCh, tx, startId, backlog, startRows, failed>>
      BY <2>2 DEF Publish, logVars, dbVars, tailVars, histVars
    <3> QED BY <3>1, <3>2, <3>3 DEF Types
  <2> QED BY <2>1, <2>2
<1>3. Local(i)' /\ InFile(i)'
  BY <1>1 DEF Good, Local, InFile
<1>4. Order(i)'
  <2>1. CASE failed'[i]
    BY <1>1, <2>1 DEF Good, Order
  <2>2. CASE ~failed'[i]
    <3>1. Taken(i)' = Taken(i) /\ Missing(i)' = Missing(i)
      BY <1>1, <2>2 DEF Taken, InHand, Missing, Covered, Recorded, IsEvent
    <3> QED BY <1>1, <2>2, <3>1 DEF Good, Order
  <2> QED BY <2>1, <2>2
<1>5. Gate(i)'
  <2>1. Due(i)' \subseteq Due(i)
    BY <1>1 DEF Due, Held, Queue
  <2>2. ReadTo(i)' = ReadTo(i)
    BY <1>1 DEF ReadTo
  <2> QED BY <1>1, <2>1, <2>2, FewerDue DEF Good, Gate
<1> QED BY <1>2, <1>3, <1>4, <1>5 DEF Good

(* A commit adds the rows of the batch to the table, or loses them.        *)
LEMMA CommitGood ==
  ASSUME IInv, Types, NEW i \in Install, Good(i),
         CommitFull(i) \/ FlushIdle(i) \/ WriterExits(i)
  PROVE  Types' /\ Good(i)'
<1>1. /\ \/ writer[i] = "full" /\ writer'[i] = "publish"
         \/ writer[i] = "idle" /\ writer'[i] = "idle"
         \/ writer[i] = "idle" /\ writer'[i] = "exited" /\ ctx[i] = "done"
      /\ \/ table'[i] = table[i] \o tx[i] /\ tx'[i] = <<>> /\ failed'[i] = failed[i]
         \/ table'[i] = table[i] /\ tx'[i] = <<>> /\ failed'[i] = TRUE
         \/ table'[i] = table[i] /\ tx'[i] = tx[i] /\ failed'[i] = failed[i]
      /\ UNCHANGED <<lines, base, saved, tail, offset, chunk, consumed, drained, caughtUp,
             eventCh, hand, ctx, startId, backlog, startRows, published>>
  <2> USE DEF IInv, Shape, Types, logVars, dbVars, tailVars, histVars
  <2>1. CASE CommitFull(i)
    BY <2>1 DEF CommitFull, CommitBatch
  <2>2. CASE FlushIdle(i)
    BY <2>2 DEF FlushIdle, FlushDue, CommitBatch
  <2>3. CASE WriterExits(i)
    BY <2>3 DEF WriterExits, FinalCommit, CommitBatch
  <2> QED BY <2>1, <2>2, <2>3
<1>2. /\ table[i] \in Seq(Nat) /\ tx[i] \in Seq(Nat) /\ table[i] \o tx[i] \in Seq(Nat)
      /\ <<>> \in Seq(Nat)
  BY DEF Types
<1>3. Types'
  <2>1. /\ table' = [table EXCEPT ![i] = table[i] \o tx[i]] \/ table' = table
        /\ tx' = [tx EXCEPT ![i] = <<>>] \/ tx' = tx
        /\ failed' = [failed EXCEPT ![i] = TRUE] \/ failed' = failed
    BY DEF CommitFull, FlushIdle, WriterExits, FinalCommit, CommitBatch
  <2> QED BY <1>1, <1>2, <2>1 DEF Types
<1>4. Local(i)' /\ InFile(i)'
  BY <1>1 DEF Good, Local, InFile
<1>5. Order(i)'
  <2>1. CASE failed'[i]
    BY <1>1, <2>1 DEF Good, Order
  <2>2. CASE ~failed'[i]
    <3>1. /\ Taken(i) = table[i] \o tx[i] \o <<>>
          /\ Taken(i)' = table'[i] \o tx'[i] \o <<>>
      BY <1>1 DEF Taken, InHand
    <3>2. Taken(i)' = Taken(i)
      <4>1. CASE table'[i] = table[i] \o tx[i] /\ tx'[i] = <<>>
        BY <1>2, <3>1, <4>1
      <4>2. CASE table'[i] = table[i] /\ tx'[i] = tx[i]
        BY <3>1, <4>2
      <4> QED BY <1>1, <2>2, <4>1, <4>2
    <3>3. Recorded(i) \subseteq Recorded(i)'
      <4>1. /\ Recorded(i) = {table[i][k] : k \in DOMAIN table[i]}
            /\ Recorded(i)' = {table'[i][k] : k \in DOMAIN table'[i]}
        BY DEF Recorded
      <4>2. CASE table'[i] = table[i]
        BY <4>1, <4>2
      <4>3. CASE table'[i] = table[i] \o tx[i]
        <5>1. {table[i][k] : k \in DOMAIN table[i]}
                \subseteq {(table[i] \o tx[i])[k] : k \in DOMAIN (table[i] \o tx[i])}
          BY <1>2, RowsKept
        <5>2. Recorded(i)' = {(table[i] \o tx[i])[k] : k \in DOMAIN (table[i] \o tx[i])}
          BY <4>1, <4>3
        <5> QED BY <4>1, <5>1, <5>2
      <4> QED BY <1>1, <4>2, <4>3
    <3>4. Missing(i)' \subseteq Missing(i)
      BY <1>1, <3>3 DEF Missing, Covered, IsEvent
    <3> QED BY <1>1, <2>2, <3>2, <3>4, FewerMissing DEF Good, Order
  <2> QED BY <2>1, <2>2
<1>6. Gate(i)'
  <2>1. Due(i)' = Due(i) /\ ReadTo(i)' = ReadTo(i)
    BY <1>1 DEF Due, Held, Queue, ReadTo
  <2> QED BY <1>1, <2>1 DEF Good, Gate
<1> QED BY <1>3, <1>4, <1>5, <1>6 DEF Good

(* The process's end forgets what was in memory, at every install.         *)
LEMMA CrashTypes ==
  ASSUME Types, Crash
  PROVE  Types'
<1>1. /\ chunk' = [i \in Install |-> <<>>] /\ eventCh' = [i \in Install |-> <<>>]
      /\ hand' = [i \in Install |-> 0] /\ tx' = [i \in Install |-> <<>>]
      /\ UNCHANGED <<lines, base, saved, table, offset, consumed, drained, caughtUp,
             startId, backlog, startRows, published, failed>>
  BY DEF Crash, logVars, dbVars, histVars
<1>2. <<>> \in Seq(Nat) /\ 0 \in Nat
  OBVIOUS
<1> QED BY <1>1, <1>2 DEF Types

(* The invariant holds before anything is started.                         *)
LEMMA InitRunInv == Init => RunInv
<1> SUFFICES ASSUME Init PROVE RunInv
  OBVIOUS
<1>1. <<>> \in Seq(Nat) /\ <<>> \in Seq(Kind) /\ 0 \in Nat /\ Len(<<>>) = 0
  OBVIOUS
<1>2. Types
  BY <1>1 DEF Init, Types
<1>3. ASSUME NEW i \in Install PROVE Good(i)
  <2>1. /\ ctx[i] = "none" /\ tail[i] = "exited" /\ lines[i] = <<>> /\ base[i] = 0 /\ saved[i] = 0
        /\ backlog[i] = 0 /\ eventCh[i] = <<>> /\ chunk[i] = <<>> /\ caughtUp[i] = FALSE
        /\ published[i] = {}
    BY DEF Init
  <2>2. Local(i) /\ InFile(i)
    BY <1>1, <2>1, IngestAssumption DEF Local, InFile
  <2>3. Order(i) /\ Gate(i)
    BY <2>1 DEF Order, Gate
  <2> QED BY <2>2, <2>3 DEF Good
<1> QED BY <1>2, <1>3, InitIInv DEF RunInv

(* A step of one install keeps its own run good, and touches no other.     *)
LEMMA StepGood ==
  ASSUME IInv, Types, NEW i \in Install, Good(i),
         \/ (\E kind \in Kind : GameWrites(i, kind)) \/ GameTruncates(i)
         \/ Start(i) \/ Cancel(i) \/ Collect(i) \/ TailerNext(i) \/ WriterNext(i)
  PROVE  Types' /\ Good(i)'
<1>1. CASE (\E kind \in Kind : GameWrites(i, kind)) \/ GameTruncates(i)
  BY <1>1, GameGood DEF IInv
<1>2. CASE Start(i)
  BY <1>2, StartGood
<1>3. CASE Cancel(i) \/ Collect(i)
  BY <1>3, EndGood
<1>4. CASE TailerNext(i)
  BY <1>4, PollGood, SendGood, GiveUpGood, ReturnGood, SaveGood, LatchGood DEF TailerNext
<1>5. CASE WriterNext(i)
  BY <1>5, ReceiveGood, ApplyGood, LetGoGood, CommitGood DEF WriterNext
<1> QED BY <1>1, <1>2, <1>3, <1>4, <1>5

(* Every step preserves the invariant.                                     *)
LEMMA NextRunInv == RunInv /\ [Next]_vars => RunInv'
<1> SUFFICES ASSUME RunInv, [Next]_vars PROVE RunInv'
  OBVIOUS
<1>1. IInv'
  BY NextIInv DEF RunInv
<1>2. ASSUME NEW i \in Install,
             \/ (\E kind \in Kind : GameWrites(i, kind)) \/ GameTruncates(i)
             \/ Start(i) \/ Cancel(i) \/ Collect(i) \/ TailerNext(i) \/ WriterNext(i)
      PROVE  Types' /\ \A j \in Install : Good(j)'
  <2>1. Types' /\ Good(i)'
    BY <1>2, StepGood DEF RunInv
  <2>2. ASSUME NEW j \in Install, j # i PROVE Good(j)'
    <3>1. SameAt(j)
      BY <1>2, <2>2, ElsewhereSame DEF RunInv, IInv
    <3> QED BY <3>1, SameIsGood DEF RunInv
  <2> QED BY <2>1, <2>2
<1>3. ASSUME UNCHANGED <<lines, base, saved, table, tail, offset, chunk, consumed, drained,
               caughtUp, eventCh, writer, hand, tx, ctx, startId, backlog, startRows,
               published, failed>>
      PROVE  Types' /\ \A j \in Install : Good(j)'
  <2>1. Types'
    BY <1>3 DEF RunInv, Types
  <2>2. \A j \in Install : SameAt(j)
    BY <1>3 DEF SameAt
  <2> QED BY <2>1, <2>2, SameIsGood DEF RunInv
<1>4. CASE UNCHANGED vars
  BY <1>1, <1>3, <1>4 DEF vars, logVars, dbVars, tailVars, histVars, RunInv
<1>5. CASE \E u \in Users : Grant(u)
  BY <1>1, <1>3, <1>5 DEF Grant, logVars, dbVars, tailVars, histVars, RunInv
<1>6. CASE \E o \in Others : OtherAsks(o) \/ OtherReleases(o)
  BY <1>1, <1>3, <1>6 DEF OtherAsks, OtherReleases, logVars, dbVars, tailVars, histVars, RunInv
<1>7. CASE Crash
  BY <1>1, <1>7, CrashTypes, CrashGood DEF RunInv
<1> QED BY <1>1, <1>2, <1>4, <1>5, <1>6, <1>7 DEF Next, RunInv

(* Events taken, then the channel, then the chunk: the whole pipeline.     *)
LEMMA RunIsInOrder ==
  ASSUME RunInv
  PROVE  InOrderWithoutGap
<1> SUFFICES ASSUME NEW i \in Install, ctx[i] = "live", ~failed[i], base[i] = 0
    PROVE  LET run == startRows[i] + 1 .. Len(Pipeline(i))
               read == startId[i] + 1 .. consumed[i] + Len(chunk[i]) IN
           /\ \A k \in run : Pipeline(i)[k] \in read
           /\ \A k, l \in run : k < l => Pipeline(i)[k] < Pipeline(i)[l]
           /\ \A n \in read : IsEvent(i, n) => \E k \in run : Pipeline(i)[k] = n
           /\ \A k \in startRows[i] + 1 .. Len(Taken(i)) : IsEvent(i, Taken(i)[k])
  BY DEF InOrderWithoutGap
<1> DEFINE L == lines[i]
           T == Taken(i)
           ch == eventCh[i]
           ck == chunk[i]
           at == consumed[i]
           to == at - Len(ch)
<1>1. Contiguous(L, ch, ck, at) /\ TakenInOrder(L, T, startRows[i], startId[i], to)
  BY DEF RunInv, Good, Order
<1>2. /\ ch \in Seq(Nat) /\ ck \in Seq(Nat) /\ at \in Nat /\ T \in Seq(Nat)
      /\ startRows[i] \in Nat /\ startId[i] \in Nat
  BY DEF RunInv, Types, Taken, InHand
<1>3. to \in Nat /\ to + Len(ch) = at /\ \A k \in 1 .. Len(ch) : ch[k] = to + k
  <2>1. Len(ch) \in Nat /\ Len(ch) <= at
    BY <1>1, <1>2 DEF Contiguous
  <2>2. to \in Nat /\ to + Len(ch) = at
    BY <1>2, <2>1
  <2>3. \A k \in 1 .. Len(ch) : ch[k] = at - Len(ch) + k
    BY <1>1 DEF Contiguous
  <2> QED BY <2>2, <2>3
<1>4. AllInOrder(L, T, startRows[i], startId[i], to)
  BY <1>1 DEF TakenInOrder, AllInOrder
<1>5. \A k \in 1 .. Len(ck) : ck[k] = at + k
  BY <1>1 DEF Contiguous
<1>6. \A k \in startRows[i] + 1 .. Len(T) : Event(L, T[k])
  BY <1>1 DEF TakenInOrder
<1> HIDE DEF L, T, ch, ck, at, to
<1>7. AllInOrder(L, T \o ch, startRows[i], startId[i], at)
  BY <1>2, <1>3, <1>4, ExtendInOrder
<1>8. T \o ch \in Seq(Nat)
  BY <1>2
<1>9. AllInOrder(L, T \o ch \o ck, startRows[i], startId[i], at + Len(ck))
  BY <1>2, <1>5, <1>7, <1>8, ExtendInOrder
<1>10. Pipeline(i) = T \o ch \o ck
  BY DEF Pipeline, T, ch, ck
<1>11. AllInOrder(lines[i], Pipeline(i), startRows[i], startId[i], consumed[i] + Len(chunk[i]))
  BY <1>9, <1>10 DEF L, at, ck
<1>12. \A k \in startRows[i] + 1 .. Len(Taken(i)) : IsEvent(i, Taken(i)[k])
  BY <1>6 DEF L, T, Event, IsEvent
<1> QED BY <1>11, <1>12 DEF AllInOrder, Event, IsEvent

(* What is missing or may pass the gate is what the invariant counts.      *)
LEMMA RunIsAhead ==
  ASSUME RunInv
  PROVE  AheadByOneChannel
<1> SUFFICES ASSUME NEW i \in Install
    PROVE  /\ ctx[i] = "live" /\ base[i] = 0 /\ ~failed[i] =>
                Cardinality(Covered(i) \ Recorded(i)) <= Cap + 1
           /\ Cardinality(published[i] \cap 1 .. backlog[i]) <= Cap + 1
  BY DEF AheadByOneChannel
<1>1. ctx[i] = "live" /\ base[i] = 0 /\ ~failed[i] => Cardinality(Covered(i) \ Recorded(i)) <= Cap + 1
  BY DEF RunInv, Good, Order, Missing
<1>2. CASE caughtUp[i]
  <2>1. Cardinality(Due(i)) <= Cap + 1
    BY <1>2 DEF RunInv, Good, Gate
  <2>2. published[i] \cap 1 .. backlog[i] \subseteq Due(i)
    BY DEF Due
  <2> QED BY <1>1, <2>1, <2>2, FewerDue DEF RunInv
<1>3. CASE ~caughtUp[i]
  <2>1. published[i] \cap 1 .. backlog[i] = {}
    BY <1>3 DEF RunInv, Good, Gate
  <2>2. Cardinality(published[i] \cap 1 .. backlog[i]) = 0
    BY <2>1, FS_EmptySet
  <2> QED BY <1>1, <2>2, IngestAssumption
<1> QED BY <1>2, <1>3

(* Whatever the chunks, the batches and the channel's size, a run takes    *)
(* every event from where it started to where it has read, in order, once, *)
(* and records nothing else.                                               *)
THEOREM InOrder == Spec => []InOrderWithoutGap
BY InitRunInv, NextRunInv, RunIsInOrder, PTL DEF Spec

(* The saved offset is ahead of the table, and the backlog ahead of the    *)
(* live gate, by at most a full channel and the line in hand.              *)
THEOREM Ahead == Spec => []AheadByOneChannel
BY InitRunInv, NextRunInv, RunIsAhead, PTL DEF Spec
=============================================================================
