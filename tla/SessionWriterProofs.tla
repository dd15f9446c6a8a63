------------------------- MODULE SessionWriterProofs -------------------------
(***************************************************************************)
(* Theorems about SessionWriter, for logs of any length, any number of     *)
(* areas, restarts and sweeps, as long as a restart reads one line again   *)
(* at most: sessions follow each other, and so do the spans of a session,  *)
(* without a gap or an overlap; the away time of an ended row is the sum   *)
(* of its away rows; and reading a finished log a second time, with the    *)
(* tables kept, adds at most the deaths of characters that were not known  *)
(* yet, and otherwise leaves the tables as the first reading left them.    *)
(*                                                                         *)
(* A handler's lemma says what it does to the rows; the invariant (Inv)    *)
(* says of the tables and the Writer together that sessions start later    *)
(* and later, that a session's row and spans end no later than the next    *)
(* one starts, and that the Writer is in the newest session: whichever     *)
(* session it ends, no other has started since.  Tiled adds where one span *)
(* ends and the next begins, and that the Writer is in the newest span.    *)
(* Counted adds, of every row, what its away time is the sum of: the rows  *)
(* written, and what the Writer has counted and not yet written.           *)
(* Recorded keeps the states of the first reading beside those of the      *)
(* second: line by line, the second one's tables are the first one's ended *)
(* rows and away rows laid over the tables the first reading ended with,   *)
(* and a death that is new there is of a character without a level-up so   *)
(* far, as any other was in the roster already, in the same session.       *)
(***************************************************************************)
EXTENDS MCSessionWriter, SequenceTheorems, NaturalsInduction, WellFoundedInduction, FiniteSetTheorems,
        TLAPS

(* Every non-empty set of naturals has a least element.                    *)
LEMMA LeastElement ==
  ASSUME NEW S, S \subseteq Nat, S # {}
  PROVE  \E m \in S : \A n \in S : m <= n
<1> DEFINE R == OpToRel(<, Nat)
<1>1. IsWellFoundedOn(R, Nat)
  BY NatLessThanWellFounded
<1>2. \A m, n \in Nat : n < m => <<n, m>> \in R
  BY DEF OpToRel
<1> HIDE DEF R
<1>3. PICK m \in S : \A n \in S : ~ (<<n, m>> \in R)
  BY <1>1, WFMin
<1>4. \A n \in S : ~ (n < m)
  BY <1>2, <1>3, Zenon
<1> QED BY <1>4

(* A non-empty set of naturals with an upper bound has a greatest element: *)
(* the least of its upper bounds, which the predecessor of it is not.      *)
LEMMA MaxOfNaturals ==
  ASSUME NEW S, S # {}, NEW b \in Nat, S \subseteq 0 .. b
  PROVE  Max(S) \in S /\ \A n \in S : n <= Max(S)
<1> DEFINE Bounds == {n \in Nat : \A s \in S : s <= n}
<1>1. PICK m \in Bounds : \A n \in Bounds : m <= n
  <2>1. b \in Bounds /\ Bounds \subseteq Nat
    OBVIOUS
  <2> HIDE DEF Bounds
  <2> QED BY <2>1, LeastElement
<1>2. m \in S
  <2>1. SUFFICES ASSUME m \notin S PROVE FALSE
    OBVIOUS
  <2>2. \A s \in S : s <= m - 1 /\ m - 1 \in Nat
    BY <2>1
  <2>3. m - 1 \in Bounds
    BY <2>2
  <2> QED BY <2>3, <1>1
<1> QED BY <1>1, <1>2 DEF Max

(* Sums over finite sets of away rows.                                     *)
Length(r) == r.off - r.on
Some(s) == CHOOSE r \in s : TRUE
Added(f, s) == IF s = {} THEN 0 ELSE Length(Some(s)) + f[s \ {Some(s)}]
Sums(S) == CHOOSE f : f = [s \in SUBSET S |-> Added(f, s)]

LEMMA SecsIs == ASSUME NEW S PROVE Secs(S) = Sums(S)[S]
BY DEF Secs, MapThenSumSet, MapThenFoldSet, Sums, Added, Length, Some

LEMMA SmallestSet ==
  ASSUME NEW S, IsFiniteSet(S), NEW B \in SUBSET (SUBSET S), B # {}
  PROVE  \E s \in B : \A t \in B : Cardinality(s) <= Cardinality(t)
<1> DEFINE C == {Cardinality(s) : s \in B}
<1>1. C \subseteq Nat /\ C # {}
  BY FS_Subset, FS_CardinalityType
<1>2. PICK m \in C : \A n \in C : m <= n
  <2> HIDE DEF C
  <2> QED BY <1>1, LeastElement
<1> QED BY <1>2

LEMMA WithoutOne ==
  ASSUME NEW S, IsFiniteSet(S), NEW s \in SUBSET S, NEW r \in s
  PROVE  /\ IsFiniteSet(s) /\ Cardinality(s) \in Nat /\ s \ {r} \in SUBSET S
         /\ Cardinality(s \ {r}) = Cardinality(s) - 1 /\ Cardinality(s \ {r}) \in Nat
<1>1. IsFiniteSet(s)
  BY FS_Subset
<1> QED BY <1>1, FS_CardinalityType, FS_RemoveElement

LEMMA SumsExist ==
  ASSUME NEW S, IsFiniteSet(S)
  PROVE  \E f : f = [s \in SUBSET S |-> Added(f, s)]
<1> DEFINE Small(n) == {s \in SUBSET S : Cardinality(s) <= n}
           Upto(n) == \E f : f = [s \in Small(n) |-> Added(f, s)]
           Bad == {n \in Nat : ~ Upto(n)}
<1>0. \A s \in SUBSET S : IsFiniteSet(s) /\ Cardinality(s) \in Nat
  BY FS_Subset, FS_CardinalityType
<1>1. Upto(0)
  <2>1. Small(0) = {{}}
    BY <1>0, FS_EmptySet
  <2> HIDE DEF Small
  <2>2. [s \in Small(0) |-> 0] = [s \in Small(0) |-> Added([t \in Small(0) |-> 0], s)]
    BY <2>1 DEF Added
  <2> QED BY <2>2
<1>2. ASSUME NEW n \in Nat, Upto(n) PROVE Upto(n + 1)
  <2>1. PICK f : f = [s \in Small(n) |-> Added(f, s)]
    BY <1>2
  <2>2. \A s \in Small(n + 1) : s # {} => s \ {Some(s)} \in Small(n)
    <3> TAKE s \in Small(n + 1)
    <3>1. s # {} => Some(s) \in s
      BY DEF Some
    <3> QED BY <1>0, <3>1, WithoutOne
  <2>3. Small(n) \subseteq Small(n + 1)
    BY <1>0
  <2> HIDE DEF Small
  <2>4. \A s \in Small(n) : f[s] = Added(f, s)
    BY <2>1, Zenon
  <2> DEFINE g == [s \in Small(n + 1) |-> Added(f, s)]
  <2>5. \A s \in Small(n) : g[s] = f[s]
    BY <2>3, <2>4
  <2>6. \A s \in Small(n + 1) : Added(g, s) = Added(f, s)
    <3> TAKE s \in Small(n + 1)
    <3>1. CASE s = {}
      BY <3>1 DEF Added
    <3>2. CASE s # {}
      <4> HIDE DEF g
      <4> QED BY <2>2, <2>5, <3>2 DEF Added
    <3> QED BY <3>1, <3>2
  <2>7. g = [s \in Small(n + 1) |-> Added(g, s)]
    BY <2>6
  <2> QED BY <2>7
<1> HIDE DEF Upto
<1>3. Bad = {}
  <2> SUFFICES ASSUME Bad # {} PROVE FALSE
    OBVIOUS
  <2>0. Bad \subseteq Nat
    OBVIOUS
  <2>1. PICK m \in Bad : \A n \in Bad : m <= n
    <3> HIDE DEF Bad
    <3> QED BY <2>0, LeastElement
  <2>2. m # 0 /\ m - 1 \in Nat
    BY <1>1
  <2>3. m - 1 \notin Bad
    BY <2>1, <2>2
  <2>4. Upto(m - 1 + 1)
    BY <1>2, <2>2, <2>3
  <2> QED BY <2>2, <2>4
<1>4. Upto(Cardinality(S)) /\ Small(Cardinality(S)) = SUBSET S
  BY <1>0, <1>3, FS_Subset, FS_CardinalityType
<1> HIDE DEF Small
<1> QED BY <1>4 DEF Upto

LEMMA SumsAre ==
  ASSUME NEW S, IsFiniteSet(S), NEW s \in SUBSET S
  PROVE  Sums(S)[s] = Added(Sums(S), s)
<1>1. Sums(S) = [t \in SUBSET S |-> Added(Sums(S), t)]
  BY SumsExist DEF Sums
<1> HIDE DEF Sums
<1> QED BY <1>1, Zenon

Integral(S) == \A r \in S : Length(r) \in Int

LEMMA SumsAnyOrder ==
  ASSUME NEW S, IsFiniteSet(S), Integral(S)
  PROVE  \A s \in SUBSET S : /\ Sums(S)[s] \in Int
                             /\ \A r \in s : Sums(S)[s] = Length(r) + Sums(S)[s \ {r}]
<1> DEFINE Holds(s) == /\ Sums(S)[s] \in Int
                       /\ \A r \in s : Sums(S)[s] = Length(r) + Sums(S)[s \ {r}]
           Bad == {s \in SUBSET S : ~ Holds(s)}
<1> SUFFICES ASSUME Bad # {} PROVE FALSE
  OBVIOUS
<1>1. PICK s \in Bad : \A t \in Bad : Cardinality(s) <= Cardinality(t)
  <2>1. Bad \in SUBSET (SUBSET S)
    OBVIOUS
  <2> HIDE DEF Bad
  <2> QED BY <2>1, SmallestSet
<1>2. s \in SUBSET S
  OBVIOUS
<1>3. \A r \in s : Holds(s \ {r})
  <2> TAKE r \in s
  <2>1. s \ {r} \in SUBSET S /\ ~(Cardinality(s) <= Cardinality(s \ {r}))
    BY <1>2, WithoutOne
  <2>2. s \ {r} \notin Bad
    BY <1>1, <2>1
  <2> QED BY <2>1, <2>2
<1>4. Sums(S)[s] = Added(Sums(S), s)
  BY <1>2, SumsAre
<1>5. CASE s = {}
  BY <1>4, <1>5 DEF Added
<1>6. CASE s # {}
  <2>1. PICK c \in s : c = Some(s)
    BY <1>6 DEF Some
  <2>2. Sums(S)[s] = Length(c) + Sums(S)[s \ {c}]
    BY <1>4, <1>6, <2>1 DEF Added
  <2>3. \A r \in s : Length(r) \in Int /\ Sums(S)[s \ {r}] \in Int
    BY <1>2, <1>3 DEF Integral
  <2>4. ASSUME NEW r \in s PROVE Sums(S)[s] = Length(r) + Sums(S)[s \ {r}]
    <3>1. CASE r = c
      BY <2>2, <3>1
    <3>2. CASE r # c
      <4>1. Sums(S)[s \ {c}] = Length(r) + Sums(S)[(s \ {c}) \ {r}]
        BY <1>3, <3>2
      <4>2. Sums(S)[s \ {r}] = Length(c) + Sums(S)[(s \ {r}) \ {c}]
        BY <1>3, <3>2
      <4>3. (s \ {c}) \ {r} = (s \ {r}) \ {c}
        OBVIOUS
      <4>4. Sums(S)[(s \ {c}) \ {r}] \in Int
        <5>1. s \ {c} \in SUBSET S /\ r \in s \ {c}
          BY <1>2, <3>2
        <5>2. (s \ {c}) \ {r} \in SUBSET S
              /\ Cardinality((s \ {c}) \ {r}) = Cardinality(s \ {c}) - 1
              /\ Cardinality(s \ {c}) \in Nat
          BY <5>1, WithoutOne
        <5>3. Cardinality(s \ {c}) = Cardinality(s) - 1 /\ Cardinality(s) \in Nat
          BY <1>2, WithoutOne
        <5>4. ~(Cardinality(s) <= Cardinality((s \ {c}) \ {r}))
          BY <5>2, <5>3
        <5>5. (s \ {c}) \ {r} \notin Bad
          <6> HIDE DEF Bad
          <6> QED BY <1>1, <5>4
        <5> QED BY <5>2, <5>5
      <4>5. PICK x, y, a, b, p, q :
              /\ x = Length(c) /\ y = Length(r) /\ a = Sums(S)[s] /\ b = Sums(S)[(s \ {c}) \ {r}]
              /\ p = Sums(S)[s \ {c}] /\ q = Sums(S)[s \ {r}]
        OBVIOUS
      <4> HIDE DEF Bad, Holds
      <4>6. x \in Int /\ y \in Int /\ b \in Int
        BY <2>3, <4>4, <4>5
      <4>7. a = x + p /\ p = y + b /\ q = x + b
        BY <2>2, <4>1, <4>2, <4>3, <4>5
      <4>8. a = y + q
        BY <4>6, <4>7
      <4> QED BY <4>5, <4>8
    <3> QED BY <3>1, <3>2
  <2>5. Sums(S)[s] \in Int
    BY <2>2, <2>3
  <2>6. Holds(s)
    BY <2>4, <2>5
  <2> QED BY <2>6
<1> QED BY <1>5, <1>6

LEMMA SumsAgree ==
  ASSUME NEW S, IsFiniteSet(S), NEW T \in SUBSET S
  PROVE  \A s \in SUBSET T : Sums(S)[s] = Sums(T)[s]
<1> DEFINE Bad == {s \in SUBSET T : Sums(S)[s] # Sums(T)[s]}
<1> SUFFICES ASSUME Bad # {} PROVE FALSE
  OBVIOUS
<1>0. IsFiniteSet(T)
  BY FS_Subset
<1>1. PICK s \in Bad : \A t \in Bad : Cardinality(s) <= Cardinality(t)
  <2>1. Bad \in SUBSET (SUBSET T)
    OBVIOUS
  <2> HIDE DEF Bad
  <2> QED BY <1>0, <2>1, SmallestSet
<1>2. s \in SUBSET T /\ s \in SUBSET S
  OBVIOUS
<1>3. Sums(S)[s] = Added(Sums(S), s) /\ Sums(T)[s] = Added(Sums(T), s)
  BY <1>0, <1>2, SumsAre
<1>4. CASE s = {}
  BY <1>3, <1>4 DEF Added
<1>5. CASE s # {}
  <2>1. PICK c \in s : c = Some(s)
    BY <1>5 DEF Some
  <2>2. s \ {c} \in SUBSET T /\ ~(Cardinality(s) <= Cardinality(s \ {c}))
    BY <1>0, <1>2, WithoutOne
  <2>3. s \ {c} \notin Bad
    BY <1>1, <2>2
  <2>4. Sums(S)[s \ {c}] = Sums(T)[s \ {c}]
    BY <2>2, <2>3
  <2> QED BY <1>3, <1>5, <2>1, <2>4 DEF Added
<1> QED BY <1>4, <1>5

(* The seconds of no rows, and of one row more.                            *)
LEMMA SecsOfNone == Secs({}) = 0
<1>1. IsFiniteSet({}) /\ {} \in SUBSET {}
  BY FS_EmptySet
<1> QED BY <1>1, SecsIs, SumsAre DEF Added

LEMMA SecsOfOneMore ==
  ASSUME NEW S, IsFiniteSet(S), NEW r, r \notin S, Integral(S \cup {r})
  PROVE  Secs(S \cup {r}) = Secs(S) + Length(r) /\ Secs(S) \in Int
<1> DEFINE T == S \cup {r}
<1>1. IsFiniteSet(T) /\ S \in SUBSET T /\ T \in SUBSET T /\ T \ {r} = S /\ r \in T
  BY FS_AddElement
<1> HIDE DEF T
<1>2. Sums(T)[T] = Length(r) + Sums(T)[S] /\ Sums(T)[S] \in Int
  BY <1>1, SumsAnyOrder DEF T
<1>3. Sums(T)[S] = Sums(S)[S]
  BY <1>1, SumsAgree
<1>4. Length(r) \in Int
  BY <1>1 DEF Integral, T
<1> QED BY <1>2, <1>3, <1>4, SecsIs DEF T

-----------------------------------------------------------------------------
Pair(x) ==
  /\ x = [db |-> x.db, w |-> x.w]
  /\ x.db = [sessions |-> x.db.sessions, spans |-> x.db.spans, away |-> x.db.away,
             notes |-> x.db.notes, queues |-> x.db.queues]
  /\ x.w = [session |-> x.w.session, start |-> x.w.start, afk |-> x.w.afk, away |-> x.w.away,
            span |-> x.w.span, spanAfk |-> x.w.spanAfk, queue |-> x.w.queue, last |-> x.w.last]

(* The tables' sessions and spans are as they were, and where the Writer is. *)
Keeps(x, y) ==
  /\ y.db.sessions = x.db.sessions /\ y.db.spans = x.db.spans
  /\ y.w.session = x.w.session /\ y.w.span = x.w.span /\ y.w.last = x.w.last

(* Ending away intervals leaves all but them and their sums.               *)
OnlyAway(x, y) ==
  /\ Pair(y) /\ Keeps(x, y)
  /\ y.db.notes = x.db.notes /\ y.db.queues = x.db.queues
  /\ y.w.start = x.w.start /\ y.w.queue = x.w.queue

Row(x, kind, end) ==
  [session |-> x.w.session, span |-> x.w.span, kind |-> kind, on |-> x.w.away[kind], off |-> end]
Upsert(rows, row) ==
  {row} \cup {r \in rows : <<r.session, r.kind, r.on>> # <<row.session, row.kind, row.on>>}

(* From x to y, an away interval of the kind, if any, ends at end.         *)
AwayEnds(x, y, kind, end, next) ==
  LET dur == max0(end - x.w.away[kind])
  IN  /\ y.db = [sessions |-> x.db.sessions, spans |-> x.db.spans,
                 away |-> Upsert(x.db.away, Row(x, kind, end)),
                 notes |-> x.db.notes, queues |-> x.db.queues]
      /\ y.w = [session |-> x.w.session, start |-> x.w.start, afk |-> x.w.afk + dur,
                away |-> [x.w.away EXCEPT ![kind] = Carry(next, end)],
                span |-> x.w.span, spanAfk |-> x.w.spanAfk + dur, queue |-> x.w.queue,
                last |-> x.w.last]

LEMMA EndAwayIs ==
  ASSUME NEW x, Pair(x), x.w.session # NoId, NEW kind, NEW end, NEW next, NEW y,
         y = EndAway(x, kind, end, next)
  PROVE  IF x.w.away[kind] = NoTs THEN y = x ELSE AwayEnds(x, y, kind, end, next)
<1> SUFFICES ASSUME x.w.away[kind] # NoTs PROVE AwayEnds(x, y, kind, end, next)
  BY DEF EndAway
<1>1. PICK carried : carried = Carry(next, end)
  OBVIOUS
<1>2. PICK z : z = finalizeAwaySegment(x, kind, end)
  OBVIOUS
<1>3. y = [z EXCEPT !.w.away[kind] = carried]
  BY <1>1, <1>2 DEF EndAway
<1>4. PICK rows : rows = Upsert(x.db.away, Row(x, kind, end))
  OBVIOUS
<1>5. writeAwayRow(x.db, Row(x, kind, end)) = [x.db EXCEPT !.away = rows]
  BY <1>4 DEF writeAwayRow, Row, Upsert
<1>6. PICK dur : dur = max0(end - x.w.away[kind])
  OBVIOUS
<1>7. z = [db |-> [x.db EXCEPT !.away = rows],
           w |-> [x.w EXCEPT !.afk = @ + dur, !.spanAfk = @ + dur]]
  BY <1>2, <1>5, <1>6 DEF finalizeAwaySegment, Row
<1>8. /\ z = [db |-> z.db, w |-> z.w]
      /\ z.db = [sessions |-> x.db.sessions, spans |-> x.db.spans, away |-> rows,
                 notes |-> x.db.notes, queues |-> x.db.queues]
      /\ z.w = [session |-> x.w.session, start |-> x.w.start, afk |-> x.w.afk + dur,
                away |-> x.w.away, span |-> x.w.span, spanAfk |-> x.w.spanAfk + dur,
                queue |-> x.w.queue, last |-> x.w.last]
  BY <1>7 DEF Pair
<1>9. y = [db |-> z.db, w |-> [z.w EXCEPT !.away[kind] = carried]]
  BY <1>3, <1>8
<1>10. [z.w EXCEPT !.away[kind] = carried]
         = [session |-> x.w.session, start |-> x.w.start, afk |-> x.w.afk + dur,
            away |-> [x.w.away EXCEPT ![kind] = carried], span |-> x.w.span,
            spanAfk |-> x.w.spanAfk + dur, queue |-> x.w.queue, last |-> x.w.last]
  BY <1>8
<1> QED BY <1>1, <1>4, <1>6, <1>8, <1>9, <1>10 DEF AwayEnds

LEMMA EndAwayKeeps ==
  ASSUME NEW x, Pair(x), NEW kind, NEW end, NEW next, NEW z, z = EndAway(x, kind, end, next)
  PROVE  OnlyAway(x, z)
<1> DEFINE y == finalizeAwaySegment(x, kind, end)
           u == [y EXCEPT !.w.away[kind] = Carry(next, end)]
<1>1. OnlyAway(x, y)
  BY DEF OnlyAway, Pair, Keeps, finalizeAwaySegment, writeAwayRow
<1> HIDE DEF y
<1>2. Pair(y)
  BY <1>1 DEF OnlyAway
<1>3. OnlyAway(y, u)
  BY <1>2 DEF OnlyAway, Pair, Keeps
<1>4. OnlyAway(x, x) /\ OnlyAway(x, u)
  BY <1>1, <1>3 DEF OnlyAway, Keeps
<1> QED BY <1>4 DEF EndAway, y

LEMMA EndBothKeeps ==
  ASSUME NEW x, Pair(x), NEW end, NEW next, NEW z, z = EndBoth(x, end, next)
  PROVE  OnlyAway(x, z)
<1>1. PICK y : y = EndAway(x, "afk", end, next)
  OBVIOUS
<1>2. OnlyAway(x, y)
  BY <1>1, EndAwayKeeps
<1>3. z = EndAway(y, "alt_tab", end, next) /\ Pair(y)
  BY <1>1, <1>2 DEF EndBoth, OnlyAway
<1>4. OnlyAway(y, z)
  BY <1>3, EndAwayKeeps
<1> QED BY <1>2, <1>4 DEF OnlyAway, Keeps

LEMMA OthersKeep ==
  ASSUME NEW x, Pair(x), NEW kind, NEW ts, NEW line
  PROVE  /\ Pair(handleAway(x, kind, ts)) /\ Keeps(x, handleAway(x, kind, ts))
         /\ Pair(handleBack(x, kind, ts)) /\ Keeps(x, handleBack(x, kind, ts))
         /\ Pair(handleNote(x, line)) /\ Keeps(x, handleNote(x, line))
         /\ Pair(handlePvpQueue(x, ts)) /\ Keeps(x, handlePvpQueue(x, ts))
         /\ Pair(handlePvpQueueCancelled(x, ts)) /\ Keeps(x, handlePvpQueueCancelled(x, ts))
<1>1. Pair(handleAway(x, kind, ts)) /\ Keeps(x, handleAway(x, kind, ts))
  BY DEF Pair, Keeps, handleAway
<1>2. Pair(handleBack(x, kind, ts)) /\ Keeps(x, handleBack(x, kind, ts))
  BY EndAwayKeeps DEF handleBack, OnlyAway
<1>3. Pair(handleNote(x, line)) /\ Keeps(x, handleNote(x, line))
  BY DEF Pair, Keeps, handleNote
<1>4. Pair(handlePvpQueue(x, ts)) /\ Keeps(x, handlePvpQueue(x, ts))
  BY DEF Pair, Keeps, handlePvpQueue
<1>5. Pair(handlePvpQueueCancelled(x, ts)) /\ Keeps(x, handlePvpQueueCancelled(x, ts))
  BY DEF Pair, Keeps, handlePvpQueueCancelled
<1> QED BY <1>1, <1>2, <1>3, <1>4, <1>5

-----------------------------------------------------------------------------
Table(q) == q \in Seq({q[i] : i \in 1 .. Len(q)})

LEMMA OwnValues == ASSUME NEW S, NEW q \in Seq(S) PROVE Table(q)
<1>1. q = [i \in 1 .. Len(q) |-> q[i]] /\ Len(q) \in Nat
  OBVIOUS
<1> DEFINE V == {q[i] : i \in 1 .. Len(q)}
<1>2. \A i \in 1 .. Len(q) : q[i] \in V
  OBVIOUS
<1> HIDE DEF V
<1>3. [i \in 1 .. Len(q) |-> q[i]] \in Seq(V)
  BY <1>1, <1>2
<1> QED BY <1>1, <1>3 DEF V, Table

LEMMA AppendedTable ==
  ASSUME NEW q, Table(q), NEW e
  PROVE  /\ Table(Append(q, e)) /\ Len(Append(q, e)) = Len(q) + 1 /\ Len(q) \in Nat
         /\ \A i \in 1 .. Len(q) : Append(q, e)[i] = q[i]
         /\ Append(q, e)[Len(q) + 1] = e
<1> DEFINE S == {q[i] : i \in 1 .. Len(q)}
           p == Append(q, e)
<1>1. q \in Seq(S \cup {e}) /\ e \in S \cup {e}
  BY DEF Table
<1> HIDE DEF S
<1>2. /\ Len(p) = Len(q) + 1 /\ Len(q) \in Nat
      /\ \A i \in 1 .. Len(q) : p[i] = q[i]
      /\ p[Len(q) + 1] = e
      /\ p \in Seq(S \cup {e})
  BY <1>1
<1> QED BY <1>2, OwnValues

LEMMA ChangedTable ==
  ASSUME NEW q, Table(q), NEW k \in 1 .. Len(q), NEW e
  PROVE  /\ Table([q EXCEPT ![k] = e]) /\ Len([q EXCEPT ![k] = e]) = Len(q)
         /\ [q EXCEPT ![k] = e][k] = e
         /\ \A i \in 1 .. Len(q) : i # k => [q EXCEPT ![k] = e][i] = q[i]
<1> DEFINE S == {q[i] : i \in 1 .. Len(q)}
           p == [q EXCEPT ![k] = e]
<1>1. q \in Seq(S \cup {e}) /\ e \in S \cup {e}
  BY DEF Table
<1> HIDE DEF S
<1>2. /\ Len(p) = Len(q) /\ p[k] = e
      /\ \A i \in 1 .. Len(q) : i # k => p[i] = q[i]
      /\ p \in Seq(S \cup {e})
  BY <1>1
<1> QED BY <1>2, OwnValues

SessionRow(r) == r = [start |-> r.start, end |-> r.end, total |-> r.total, afk |-> r.afk,
                      active |-> r.active]
SpanRow(r) == r = [session |-> r.session, area |-> r.area, entered |-> r.entered,
                   exited |-> r.exited, afk |-> r.afk]

Rows(d) ==
  /\ Table(d.sessions) /\ \A s \in 1 .. Len(d.sessions) : SessionRow(d.sessions[s])
  /\ Table(d.spans) /\ \A i \in 1 .. Len(d.spans) : SpanRow(d.spans[i])

Formed(x) == Pair(x) /\ Rows(x.db)

LEMMA Lengths ==
  ASSUME NEW d, Rows(d)
  PROVE  /\ Len(d.sessions) \in Nat /\ DOMAIN d.sessions = 1 .. Len(d.sessions)
         /\ Len(d.spans) \in Nat /\ DOMAIN d.spans = 1 .. Len(d.spans)
BY DEF Rows, Table

(* From x to y, the Writer's span is closed at end with the away time of z.           *)
SpanCloses(x, z, y, end) ==
  /\ y.db = [sessions |-> x.db.sessions, spans |-> y.db.spans, away |-> z.db.away,
             notes |-> x.db.notes, queues |-> x.db.queues]
  /\ y.w = [session |-> x.w.session, start |-> x.w.start, afk |-> z.w.afk, away |-> z.w.away,
            span |-> NoId, spanAfk |-> 0, queue |-> x.w.queue, last |-> x.w.last]
  /\ Len(y.db.spans) = Len(x.db.spans)
  /\ \A i \in 1 .. Len(x.db.spans) :
       y.db.spans[i] = IF i = x.w.span
                         THEN [session |-> x.db.spans[i].session, area |-> x.db.spans[i].area,
                               entered |-> x.db.spans[i].entered, exited |-> end, afk |-> z.w.spanAfk]
                         ELSE x.db.spans[i]

LEMMA CloseSpanIs ==
  ASSUME NEW x, Formed(x), x.w.span \in 1 .. Len(x.db.spans),
         NEW end, end # NoTs, NEW next, NEW z, z = EndBoth(x, end, next),
         NEW y, y = closeSpan(x, end, next)
  PROVE  Formed(y) /\ SpanCloses(x, z, y, end)
<1>1. OnlyAway(x, z)
  BY EndBothKeeps DEF Formed
<1>2. Pair(z) /\ Keeps(x, z)
  BY <1>1 DEF OnlyAway
<1>0. PICK k \in 1 .. Len(x.db.spans) : k = x.w.span /\ k # NoId
  BY DEF NoId
<1>3. y = [db |-> [z.db EXCEPT !.spans[k].exited = end, !.spans[k].afk = z.w.spanAfk],
           w  |-> [z.w EXCEPT !.span = NoId, !.spanAfk = 0]]
  BY <1>0 DEF closeSpan
<1>4. PICK row : row = [x.db.spans[k] EXCEPT !.exited = end, !.afk = z.w.spanAfk]
  OBVIOUS
<1>5. [z.db EXCEPT !.spans[k].exited = end, !.spans[k].afk = z.w.spanAfk]
        = [z.db EXCEPT !.spans = [x.db.spans EXCEPT ![k] = row]]
  <2>1. z.db.spans = x.db.spans
    BY <1>2 DEF Keeps
  <2>2. DOMAIN x.db.spans = 1 .. Len(x.db.spans)
    BY Lengths DEF Formed
  <2>3. z.db = [sessions |-> z.db.sessions, spans |-> z.db.spans, away |-> z.db.away,
                notes |-> z.db.notes, queues |-> z.db.queues]
    BY <1>2 DEF Pair
  <2>4. [[x.db.spans EXCEPT ![k].exited = end] EXCEPT ![k].afk = z.w.spanAfk]
          = [x.db.spans EXCEPT ![k] = row]
    BY <1>4, <2>2
  <2> QED BY <1>4, <2>1, <2>2, <2>3, <2>4
<1>6. SpanRow(row) /\ row = [session |-> x.db.spans[k].session, area |-> x.db.spans[k].area,
                      entered |-> x.db.spans[k].entered, exited |-> end, afk |-> z.w.spanAfk]
  <2>1. SpanRow(x.db.spans[k])
    BY DEF Formed, Rows
  <2> QED BY <1>4, <2>1 DEF SpanRow
<1>7. PICK q : q = [x.db.spans EXCEPT ![k] = row]
  OBVIOUS
<1>8. /\ Table(q) /\ Len(q) = Len(x.db.spans) /\ q[k] = row
      /\ \A i \in 1 .. Len(x.db.spans) : i # k => q[i] = x.db.spans[i]
  <2>1. Table(x.db.spans)
    BY DEF Formed, Rows
  <2> QED BY <1>7, <2>1, ChangedTable
<1>9. /\ y = [db |-> y.db, w |-> y.w] /\ y.db = [z.db EXCEPT !.spans = q]
      /\ y.w = [z.w EXCEPT !.span = NoId, !.spanAfk = 0]
  BY <1>3, <1>5, <1>7
<1>10. /\ y.db = [sessions |-> x.db.sessions, spans |-> q, away |-> z.db.away,
                  notes |-> x.db.notes, queues |-> x.db.queues]
       /\ y.w = [session |-> x.w.session, start |-> x.w.start, afk |-> z.w.afk, away |-> z.w.away,
                 span |-> NoId, spanAfk |-> 0, queue |-> x.w.queue, last |-> x.w.last]
  <2>1. /\ y.db = [sessions |-> z.db.sessions, spans |-> q, away |-> z.db.away,
                   notes |-> z.db.notes, queues |-> z.db.queues]
        /\ y.w = [session |-> z.w.session, start |-> z.w.start, afk |-> z.w.afk, away |-> z.w.away,
                  span |-> NoId, spanAfk |-> 0, queue |-> z.w.queue, last |-> z.w.last]
    BY <1>2, <1>9 DEF Pair
  <2>2. /\ z.db.sessions = x.db.sessions /\ z.db.notes = x.db.notes /\ z.db.queues = x.db.queues
        /\ z.w.session = x.w.session /\ z.w.start = x.w.start /\ z.w.queue = x.w.queue
        /\ z.w.last = x.w.last
    BY <1>1 DEF OnlyAway, Keeps
  <2> QED BY <2>1, <2>2
<1>11. Formed(y) /\ y.db.spans = q
  <2>0. y = [db |-> y.db, w |-> y.w]
    BY <1>9
  <2>1. Pair(y) /\ y.db.spans = q /\ y.db.sessions = x.db.sessions
    BY <1>10, <2>0 DEF Pair
  <2> QED BY <1>6, <1>8, <2>1 DEF Formed, Rows
<1> QED BY <1>0, <1>6, <1>8, <1>10, <1>11 DEF SpanCloses

(* From x to y, the Writer's span is closed at end.                       *)
SpanEnds(x, y, end) ==
  /\ y.w.span = NoId /\ Len(y.db.spans) = Len(x.db.spans)
  /\ \A i \in 1 .. Len(x.db.spans) :
       /\ y.db.spans[i].session = x.db.spans[i].session
       /\ y.db.spans[i].entered = x.db.spans[i].entered
       /\ y.db.spans[i].exited = IF i = x.w.span THEN end ELSE x.db.spans[i].exited

LEMMA CloseSpanDoes ==
  ASSUME NEW x, Formed(x), x.w.span \in 0 .. Len(x.db.spans), NEW end, NEW next,
         end # NoTs, NEW y, y = closeSpan(x, end, next)
  PROVE  /\ Formed(y) /\ SpanEnds(x, y, end)
         /\ y.db.sessions = x.db.sessions /\ y.w.session = x.w.session /\ y.w.last = x.w.last
<1>1. CASE x.w.span = NoId
  BY <1>1 DEF closeSpan, SpanEnds, NoId
<1>2. CASE x.w.span # NoId
  <2>1. PICK z : z = EndBoth(x, end, next)
    OBVIOUS
  <2>2. Formed(y) /\ SpanCloses(x, z, y, end)
    BY <1>2, <2>1, CloseSpanIs DEF NoId
  <2>3. /\ y.db.sessions = x.db.sessions /\ y.w.session = x.w.session
        /\ y.w.last = x.w.last /\ y.w.span = NoId
    BY <2>2 DEF SpanCloses
  <2>4. Len(y.db.spans) = Len(x.db.spans)
    BY <2>2 DEF SpanCloses
  <2>5. ASSUME NEW i \in 1 .. Len(x.db.spans)
        PROVE  /\ y.db.spans[i].session = x.db.spans[i].session
               /\ y.db.spans[i].entered = x.db.spans[i].entered
               /\ y.db.spans[i].exited = IF i = x.w.span THEN end ELSE x.db.spans[i].exited
    <3>1. y.db.spans[i] = IF i = x.w.span
                            THEN [session |-> x.db.spans[i].session, area |-> x.db.spans[i].area,
                                  entered |-> x.db.spans[i].entered, exited |-> end,
                                  afk |-> z.w.spanAfk]
                            ELSE x.db.spans[i]
      BY <2>2 DEF SpanCloses
    <3> QED BY <3>1
  <2> QED BY <2>2, <2>3, <2>4, <2>5 DEF SpanEnds
<1> QED BY <1>1, <1>2

(* From x to y, a new span is the Writer's, or one that has been before.   *)
SpanOpens(x, y, ts, area) ==
  /\ y.db = [sessions |-> x.db.sessions, spans |-> y.db.spans, away |-> x.db.away,
             notes |-> x.db.notes, queues |-> x.db.queues]
  /\ y.w = [session |-> x.w.session, start |-> x.w.start, afk |-> x.w.afk, away |-> x.w.away,
            span |-> y.w.span, spanAfk |-> 0, queue |-> x.w.queue, last |-> x.w.last]
  /\ \/ /\ \A i \in 1 .. Len(x.db.spans) :
             ~(x.db.spans[i].session = x.w.session /\ x.db.spans[i].entered = ts)
        /\ y.w.span = Len(x.db.spans) + 1 /\ Len(y.db.spans) = Len(x.db.spans) + 1
        /\ \A i \in 1 .. Len(x.db.spans) : y.db.spans[i] = x.db.spans[i]
        /\ y.db.spans[Len(x.db.spans) + 1] = [session |-> x.w.session, area |-> area, entered |-> ts,
                                   exited |-> NoTs, afk |-> 0]
     \/ /\ y.w.span \in 1 .. Len(x.db.spans) /\ y.db.spans = x.db.spans
        /\ x.db.spans[y.w.span].session = x.w.session /\ x.db.spans[y.w.span].entered = ts

LEMMA OpenSpanIs ==
  ASSUME NEW x, Formed(x), x.w.session # NoId, NEW ts, NEW area, NEW y, y = openSpan(x, ts, area)
  PROVE  Formed(y) /\ SpanOpens(x, y, ts, area)
<1> DEFINE same == {i \in DOMAIN x.db.spans : /\ x.db.spans[i].session = x.w.session
                                              /\ x.db.spans[i].entered = ts}
           new == [session |-> x.w.session, area |-> area, entered |-> ts,
                   exited |-> NoTs, afk |-> 0]
           q == Append(x.db.spans, new)
           n == Len(x.db.spans)
<1>0. DOMAIN x.db.spans = 1 .. n /\ n \in Nat
  BY Lengths DEF Formed
<1>1. CASE same = {}
  <2>1. y = [db |-> [x.db EXCEPT !.spans = q], w |-> [x.w EXCEPT !.span = n + 1, !.spanAfk = 0]]
    BY <1>1 DEF openSpan
  <2>2. /\ Table(q) /\ Len(q) = n + 1 /\ q[n + 1] = new
        /\ \A i \in 1 .. n : q[i] = x.db.spans[i]
    BY AppendedTable DEF Formed, Rows
  <2>3. SpanRow(new)
    BY DEF SpanRow
  <2>4. \A i \in 1 .. n : ~(x.db.spans[i].session = x.w.session /\ x.db.spans[i].entered = ts)
    BY <1>0, <1>1
  <2> HIDE DEF q, n, same
  <2>5. y = [db |-> y.db, w |-> y.w] /\ y.db = [x.db EXCEPT !.spans = q]
        /\ y.w = [x.w EXCEPT !.span = n + 1, !.spanAfk = 0]
    BY <2>1
  <2>6. /\ y.db = [sessions |-> x.db.sessions, spans |-> q, away |-> x.db.away,
                   notes |-> x.db.notes, queues |-> x.db.queues]
        /\ y.w = [session |-> x.w.session, start |-> x.w.start, afk |-> x.w.afk, away |-> x.w.away,
                  span |-> n + 1, spanAfk |-> 0, queue |-> x.w.queue, last |-> x.w.last]
    BY <2>5 DEF Formed, Pair
  <2>7. /\ Pair(y) /\ y.db.sessions = x.db.sessions /\ y.w.span = n + 1 /\ y.db.spans = q
    BY <2>5, <2>6 DEF Pair
  <2> HIDE DEF new
  <2>8. \A i \in 1 .. Len(q) : SpanRow(q[i])
    BY <1>0, <2>2, <2>3 DEF Formed, Rows, n
  <2>9. Formed(y)
    BY <2>2, <2>7, <2>8 DEF Formed, Rows
  <2> QED BY <2>2, <2>4, <2>6, <2>7, <2>9 DEF SpanOpens, n, new
<1>2. CASE same # {}
  <2>1. y = [x EXCEPT !.w.span = CHOOSE i \in same : TRUE, !.w.spanAfk = 0]
    BY <1>2 DEF openSpan
  <2>2. PICK k \in same : k = CHOOSE i \in same : TRUE
    BY <1>2
  <2>3. y = [x EXCEPT !.w.span = k, !.w.spanAfk = 0]
    BY <2>1, <2>2
  <2>4. k \in 1 .. n /\ x.db.spans[k].session = x.w.session /\ x.db.spans[k].entered = ts
    BY <1>0, <2>2
  <2> HIDE DEF n, same
  <2>a. [x EXCEPT !.w.span = k] = [db |-> x.db, w |-> [x.w EXCEPT !.span = k]]
    BY DEF Formed, Pair
  <2>b. y = [db |-> x.db, w |-> [[x.w EXCEPT !.span = k] EXCEPT !.spanAfk = 0]]
    BY <2>3, <2>a
  <2>c. y = [db |-> x.db, w |-> y.w] /\ y.w = [x.w EXCEPT !.span = k, !.spanAfk = 0]
    BY <2>b
  <2>5. /\ y = [db |-> x.db, w |-> y.w]
        /\ y.w = [session |-> x.w.session, start |-> x.w.start, afk |-> x.w.afk, away |-> x.w.away,
                  span |-> k, spanAfk |-> 0, queue |-> x.w.queue, last |-> x.w.last]
    BY <2>c DEF Formed, Pair
  <2>6. Pair(y) /\ y.db = x.db /\ y.w.span = k
    BY <2>5 DEF Formed, Pair
  <2>7. y.db = [sessions |-> x.db.sessions, spans |-> y.db.spans, away |-> x.db.away,
                notes |-> x.db.notes, queues |-> x.db.queues]
    BY <2>6 DEF Formed, Pair
  <2> QED BY <2>4, <2>5, <2>6, <2>7 DEF Formed, SpanOpens, n
<1> QED BY <1>1, <1>2

(* From x to y, a span of the Writer's session is open from ts on.         *)
SpanBegins(x, y, ts) ==
  \/ /\ \A i \in 1 .. Len(x.db.spans) :
          ~(x.db.spans[i].session = x.w.session /\ x.db.spans[i].entered = ts)
     /\ y.w.span = Len(x.db.spans) + 1 /\ Len(y.db.spans) = Len(x.db.spans) + 1
     /\ \A i \in 1 .. Len(x.db.spans) : y.db.spans[i] = x.db.spans[i]
     /\ y.db.spans[y.w.span].session = x.w.session
     /\ y.db.spans[y.w.span].entered = ts /\ y.db.spans[y.w.span].exited = NoTs
  \/ /\ y.w.span \in 1 .. Len(x.db.spans) /\ y.db.spans = x.db.spans
     /\ x.db.spans[y.w.span].session = x.w.session /\ x.db.spans[y.w.span].entered = ts

LEMMA OpenSpanDoes ==
  ASSUME NEW x, Formed(x), x.w.session # NoId, NEW ts, NEW area, NEW y, y = openSpan(x, ts, area)
  PROVE  /\ Formed(y) /\ SpanBegins(x, y, ts)
         /\ y.db.sessions = x.db.sessions /\ y.w.session = x.w.session /\ y.w.last = x.w.last
<1>1. Formed(y) /\ SpanOpens(x, y, ts, area)
  BY OpenSpanIs
<1> QED BY <1>1 DEF SpanOpens, SpanBegins

(* From x to y, a new session is the Writer's, or one that has been before. *)
SessionOpens(x, y, ts) ==
  /\ y.db = [sessions |-> y.db.sessions, spans |-> x.db.spans, away |-> x.db.away,
             notes |-> x.db.notes, queues |-> x.db.queues]
  /\ y.w = [session |-> y.w.session, start |-> ts, afk |-> 0, away |-> x.w.away,
            span |-> x.w.span, spanAfk |-> x.w.spanAfk, queue |-> x.w.queue, last |-> x.w.last]
  /\ \/ /\ \A s \in 1 .. Len(x.db.sessions) : x.db.sessions[s].start # ts
        /\ y.w.session = Len(x.db.sessions) + 1 /\ Len(y.db.sessions) = Len(x.db.sessions) + 1
        /\ \A s \in 1 .. Len(x.db.sessions) : y.db.sessions[s] = x.db.sessions[s]
        /\ y.db.sessions[Len(x.db.sessions) + 1]
             = [start |-> ts, end |-> NoTs, total |-> 0, afk |-> 0, active |-> 0]
     \/ /\ y.w.session \in 1 .. Len(x.db.sessions) /\ y.db.sessions = x.db.sessions
        /\ x.db.sessions[y.w.session].start = ts

LEMMA BeginSessionIs ==
  ASSUME NEW x, Formed(x), NEW ts, NEW y, y = beginSession(x, ts)
  PROVE  Formed(y) /\ SessionOpens(x, y, ts)
<1> DEFINE same == {s \in DOMAIN x.db.sessions : x.db.sessions[s].start = ts}
           new == [start |-> ts, end |-> NoTs, total |-> 0, afk |-> 0, active |-> 0]
           q == Append(x.db.sessions, new)
           n == Len(x.db.sessions)
<1>0. DOMAIN x.db.sessions = 1 .. n /\ n \in Nat
  BY Lengths DEF Formed
<1>1. CASE same = {}
  <2>2. /\ Table(q) /\ Len(q) = n + 1 /\ q[n + 1] = new
        /\ \A s \in 1 .. n : q[s] = x.db.sessions[s]
    BY AppendedTable DEF Formed, Rows
  <2>1. y = [db |-> [x.db EXCEPT !.sessions = q],
             w |-> [x.w EXCEPT !.session = n + 1, !.start = ts, !.afk = 0]]
    <3>1. y = [db |-> [x.db EXCEPT !.sessions = q],
               w |-> [x.w EXCEPT !.session = Len([x.db EXCEPT !.sessions = q].sessions), !.start = ts, !.afk = 0]]
      BY <1>1 DEF beginSession
    <3>2. [x.db EXCEPT !.sessions = q].sessions = q
      BY DEF Formed, Pair
    <3> QED BY <3>1, <3>2, <2>2
  <2>3. SessionRow(new)
    BY DEF SessionRow
  <2>4. \A s \in 1 .. n : x.db.sessions[s].start # ts
    BY <1>0, <1>1
  <2> HIDE DEF q, n, same
  <2>5. y = [db |-> y.db, w |-> y.w] /\ y.db = [x.db EXCEPT !.sessions = q]
        /\ y.w = [x.w EXCEPT !.session = n + 1, !.start = ts, !.afk = 0]
    BY <2>1
  <2>6. /\ y.db = [sessions |-> q, spans |-> x.db.spans, away |-> x.db.away,
                   notes |-> x.db.notes, queues |-> x.db.queues]
        /\ y.w = [session |-> n + 1, start |-> ts, afk |-> 0, away |-> x.w.away,
                  span |-> x.w.span, spanAfk |-> x.w.spanAfk, queue |-> x.w.queue, last |-> x.w.last]
    BY <2>5 DEF Formed, Pair
  <2> HIDE DEF new
  <2>7. /\ Pair(y) /\ y.db.spans = x.db.spans /\ y.w.session = n + 1 /\ y.db.sessions = q
    BY <2>5, <2>6 DEF Pair
  <2>8. \A s \in 1 .. Len(q) : SessionRow(q[s])
    BY <1>0, <2>2, <2>3 DEF Formed, Rows, n
  <2>9. Formed(y)
    BY <2>2, <2>7, <2>8 DEF Formed, Rows
  <2> QED BY <2>2, <2>4, <2>6, <2>7, <2>9 DEF SessionOpens, n, new
<1>2. CASE same # {}
  <2>1. y = [db |-> x.db, w |-> [x.w EXCEPT !.session = CHOOSE s \in same : TRUE, !.start = ts, !.afk = 0]]
    BY <1>2 DEF beginSession
  <2>2. PICK k \in same : k = CHOOSE s \in same : TRUE
    BY <1>2
  <2>3. y = [db |-> x.db, w |-> [x.w EXCEPT !.session = k, !.start = ts, !.afk = 0]]
    BY <2>1, <2>2
  <2>4. k \in 1 .. n /\ x.db.sessions[k].start = ts
    BY <1>0, <2>2
  <2> HIDE DEF n, same
  <2>c. y = [db |-> x.db, w |-> y.w] /\ y.w = [x.w EXCEPT !.session = k, !.start = ts, !.afk = 0]
    BY <2>3
  <2>5. /\ y = [db |-> x.db, w |-> y.w]
        /\ y.w = [session |-> k, start |-> ts, afk |-> 0, away |-> x.w.away,
                  span |-> x.w.span, spanAfk |-> x.w.spanAfk, queue |-> x.w.queue, last |-> x.w.last]
    BY <2>c DEF Formed, Pair
  <2>6. Pair(y) /\ y.db = x.db /\ y.w.session = k
    BY <2>5 DEF Formed, Pair
  <2>7. y.db = [sessions |-> y.db.sessions, spans |-> x.db.spans, away |-> x.db.away,
                notes |-> x.db.notes, queues |-> x.db.queues]
    BY <2>6 DEF Formed, Pair
  <2> QED BY <2>4, <2>5, <2>6, <2>7 DEF Formed, SessionOpens, n
<1> QED BY <1>1, <1>2

(* From x to y, a session that started at ts is the Writer's.              *)
SessionBegins(x, y, ts) ==
  \/ /\ \A s \in 1 .. Len(x.db.sessions) : x.db.sessions[s].start # ts
     /\ y.w.session = Len(x.db.sessions) + 1 /\ Len(y.db.sessions) = Len(x.db.sessions) + 1
     /\ \A s \in 1 .. Len(x.db.sessions) : y.db.sessions[s] = x.db.sessions[s]
     /\ y.db.sessions[y.w.session].start = ts /\ y.db.sessions[y.w.session].end = NoTs
  \/ /\ y.w.session \in 1 .. Len(x.db.sessions) /\ y.db.sessions = x.db.sessions
     /\ x.db.sessions[y.w.session].start = ts

LEMMA BeginSessionDoes ==
  ASSUME NEW x, Formed(x), NEW ts, NEW y, y = beginSession(x, ts)
  PROVE  /\ Formed(y) /\ SessionBegins(x, y, ts)
         /\ y.db.spans = x.db.spans /\ y.w.span = x.w.span /\ y.w.last = x.w.last
<1>1. Formed(y) /\ SessionOpens(x, y, ts)
  BY BeginSessionIs
<1> QED BY <1>1 DEF SessionOpens, SessionBegins

(* From x to y, the Writer's session ends.                                 *)
SessionEnds(x, y, end) ==
  /\ y.w.session = NoId /\ Len(y.db.sessions) = Len(x.db.sessions)
  /\ \A s \in 1 .. Len(x.db.sessions) :
       /\ y.db.sessions[s].start = x.db.sessions[s].start
       /\ y.db.sessions[s].end = IF s = x.w.session THEN end ELSE x.db.sessions[s].end

LEMMA EndRowDoes ==
  ASSUME NEW row, SessionRow(row), NEW end, NEW afk, NEW start
  PROVE  /\ SessionRow(EndRow(row, end, afk, start))
         /\ EndRow(row, end, afk, start).start = row.start
         /\ EndRow(row, end, afk, start).end = end
         /\ EndRow(row, end, afk, start).afk = afk
<1>1. PICK total, active :
        EndRow(row, end, afk, start)
          = [row EXCEPT !.end = end, !.total = total, !.afk = afk, !.active = active]
  BY DEF EndRow
<1> QED BY <1>1 DEF SessionRow

(* From v, in which span and away times have ended, to y, the session ends. *)
SessionCloses(v, y, end) ==
  /\ y.db = [sessions |-> y.db.sessions, spans |-> v.db.spans, away |-> v.db.away,
             notes |-> v.db.notes, queues |-> v.db.queues]
  /\ y.w = [session |-> NoId, start |-> NoTs, afk |-> 0, away |-> v.w.away,
            span |-> v.w.span, spanAfk |-> v.w.spanAfk, queue |-> <<>>, last |-> v.w.last]
  /\ Len(y.db.sessions) = Len(v.db.sessions)
  /\ \A s \in 1 .. Len(v.db.sessions) :
       y.db.sessions[s] = IF s = v.w.session
                            THEN EndRow(v.db.sessions[s], end, v.w.afk, v.w.start)
                            ELSE v.db.sessions[s]

LEMMA CloseSessionIs ==
  ASSUME NEW x, x.w.session # NoId, NEW end, end # NoTs, NEW no, no = FALSE,
         NEW u, u = closeSpan(x, end, no), Formed(u), u.w.session = x.w.session,
         x.w.session \in 1 .. Len(u.db.sessions), NEW v, v = EndBoth(u, end, no),
         NEW y, y = closeSession(x, end)
  PROVE  Formed(v) /\ OnlyAway(u, v) /\ Formed(y) /\ SessionCloses(v, y, end)
<1>1. OnlyAway(u, v)
  BY EndBothKeeps DEF Formed
<1>2. Formed(v) /\ v.w.session = x.w.session /\ v.db.sessions = u.db.sessions
  BY <1>1 DEF OnlyAway, Keeps, Formed, Rows
<1>3. PICK k \in 1 .. Len(v.db.sessions) : k = x.w.session
  BY <1>2
<1>4. y = [db |-> [v.db EXCEPT !.sessions[k] = EndRow(@, end, v.w.afk, v.w.start)],
           w  |-> [v.w EXCEPT !.session = NoId, !.start = NoTs, !.afk = 0, !.queue = <<>>]]
  <2>1. v = EndBoth(closeSpan(x, end, FALSE), end, FALSE)
    BY Zenon
  <2> QED BY <1>3, <2>1 DEF closeSession
<1>5. PICK row : row = EndRow(v.db.sessions[k], end, v.w.afk, v.w.start)
  OBVIOUS
<1>6. [v.db EXCEPT !.sessions[k] = EndRow(@, end, v.w.afk, v.w.start)]
        = [v.db EXCEPT !.sessions = [v.db.sessions EXCEPT ![k] = row]]
  BY <1>2, <1>3, <1>5, Lengths DEF Formed, Pair
<1>7. SessionRow(row)
  <2>1. SessionRow(v.db.sessions[k])
    BY <1>2, <1>3 DEF Formed, Rows
  <2> QED BY <1>5, <2>1, EndRowDoes
<1>8. PICK q : q = [v.db.sessions EXCEPT ![k] = row]
  OBVIOUS
<1>9. /\ Table(q) /\ Len(q) = Len(v.db.sessions) /\ q[k] = row
      /\ \A i \in 1 .. Len(v.db.sessions) : i # k => q[i] = v.db.sessions[i]
  <2>1. Table(v.db.sessions)
    BY <1>2 DEF Formed, Rows
  <2> QED BY <1>8, <2>1, ChangedTable
<1>10. y = [db |-> y.db, w |-> y.w] /\ y.db = [v.db EXCEPT !.sessions = q]
       /\ y.w = [v.w EXCEPT !.session = NoId, !.start = NoTs, !.afk = 0, !.queue = <<>>]
  BY <1>4, <1>6, <1>8
<1>11. /\ y.db = [sessions |-> q, spans |-> v.db.spans, away |-> v.db.away,
                  notes |-> v.db.notes, queues |-> v.db.queues]
       /\ y.w = [session |-> NoId, start |-> NoTs, afk |-> 0, away |-> v.w.away,
                 span |-> v.w.span, spanAfk |-> v.w.spanAfk, queue |-> <<>>, last |-> v.w.last]
  <2>1. Pair(v) /\ y.db = [v.db EXCEPT !.sessions = q]
        /\ y.w = [v.w EXCEPT !.session = NoId, !.start = NoTs, !.afk = 0, !.queue = <<>>]
    BY <1>2, <1>10 DEF Formed
  <2>2. y.db = [sessions |-> q, spans |-> v.db.spans, away |-> v.db.away,
                notes |-> v.db.notes, queues |-> v.db.queues]
    BY <2>1 DEF Pair
  <2>3. y.w = [session |-> NoId, start |-> NoTs, afk |-> 0, away |-> v.w.away,
               span |-> v.w.span, spanAfk |-> v.w.spanAfk, queue |-> <<>>, last |-> v.w.last]
    <3>1. PICK f : f = v.w
      OBVIOUS
    <3>2. f = [session |-> f.session, start |-> f.start, afk |-> f.afk, away |-> f.away,
               span |-> f.span, spanAfk |-> f.spanAfk, queue |-> f.queue, last |-> f.last]
      BY <2>1, <3>1 DEF Pair
    <3>3. y.w = [f EXCEPT !.session = NoId, !.start = NoTs, !.afk = 0, !.queue = <<>>]
      BY <2>1, <3>1
    <3>4. y.w = [session |-> NoId, start |-> NoTs, afk |-> 0, away |-> f.away,
                 span |-> f.span, spanAfk |-> f.spanAfk, queue |-> <<>>, last |-> f.last]
      BY <3>2, <3>3
    <3> QED BY <3>1, <3>4, Zenon
  <2> QED BY <2>2, <2>3
<1>12. Formed(y) /\ y.db.sessions = q
  <2>0. y = [db |-> y.db, w |-> y.w]
    BY <1>10
  <2>1. Pair(y) /\ y.db.sessions = q /\ y.db.spans = v.db.spans
    BY <1>11, <2>0 DEF Pair
  <2> QED BY <1>2, <1>7, <1>9, <2>1 DEF Formed, Rows
<1> QED BY <1>1, <1>2, <1>3, <1>5, <1>9, <1>11, <1>12 DEF SessionCloses

LEMMA CloseSessionDoes ==
  ASSUME NEW x, Formed(x), x.w.span \in 0 .. Len(x.db.spans),
         x.w.session \in 1 .. Len(x.db.sessions), NEW end,
         end # NoTs, NEW y, y = closeSession(x, end)
  PROVE  /\ Formed(y) /\ SpanEnds(x, y, end) /\ SessionEnds(x, y, end)
         /\ y.w.last = x.w.last
<1>1. PICK no : no = FALSE
  OBVIOUS
<1>2. PICK u : u = closeSpan(x, end, no)
  OBVIOUS
<1>3. /\ Formed(u) /\ SpanEnds(x, u, end)
      /\ u.db.sessions = x.db.sessions /\ u.w.session = x.w.session /\ u.w.last = x.w.last
  BY <1>2, CloseSpanDoes
<1>4. PICK v : v = EndBoth(u, end, no)
  OBVIOUS
<1>5. Formed(v) /\ OnlyAway(u, v) /\ Formed(y) /\ SessionCloses(v, y, end)
  <2>1. x.w.session # NoId
    BY DEF NoId
  <2> QED BY <1>1, <1>2, <1>3, <1>4, <2>1, CloseSessionIs
<1>6. /\ v.db.sessions = x.db.sessions /\ v.db.spans = u.db.spans /\ v.w.session = x.w.session
      /\ v.w.span = NoId /\ v.w.last = x.w.last
  BY <1>3, <1>5 DEF OnlyAway, Keeps, SpanEnds
<1>7. /\ y.db.spans = u.db.spans /\ y.w.session = NoId /\ y.w.last = x.w.last /\ y.w.span = NoId
      /\ Len(y.db.sessions) = Len(x.db.sessions)
  BY <1>5, <1>6 DEF SessionCloses
<1>8. SpanEnds(x, y, end)
  BY <1>3, <1>7 DEF SpanEnds
<1>9. ASSUME NEW s \in 1 .. Len(x.db.sessions)
      PROVE  /\ y.db.sessions[s].start = x.db.sessions[s].start
             /\ y.db.sessions[s].end = IF s = x.w.session THEN end ELSE x.db.sessions[s].end
  <2>1. SessionRow(x.db.sessions[s])
    BY DEF Formed, Rows
  <2>2. y.db.sessions[s] = IF s = x.w.session THEN EndRow(x.db.sessions[s], end, v.w.afk, v.w.start)
                                             ELSE x.db.sessions[s]
    BY <1>5, <1>6 DEF SessionCloses
  <2>3. CASE s = x.w.session
    <3>1. y.db.sessions[s] = EndRow(x.db.sessions[s], end, v.w.afk, v.w.start)
      BY <2>2, <2>3
    <3> QED BY <2>1, <2>3, <3>1, EndRowDoes
  <2>4. CASE s # x.w.session
    BY <2>2, <2>4
  <2> QED BY <2>3, <2>4
<1> QED BY <1>5, <1>7, <1>8, <1>9 DEF SessionEnds

-----------------------------------------------------------------------------
(* What is recorded up to second t.                                        *)
Times(d, t) ==
  /\ \A s \in 1 .. Len(d.sessions) :
       d.sessions[s].start \in 1 .. t /\ d.sessions[s].end \in 0 .. t
  /\ \A i \in 1 .. Len(d.spans) :
       /\ d.spans[i].session \in 1 .. Len(d.sessions)
       /\ d.spans[i].entered \in 1 .. t /\ d.spans[i].exited \in 0 .. t

(* The sessions follow each other, and the spans of each end with it.      *)
Succeed(d) ==
  /\ \A s, u \in 1 .. Len(d.sessions) : s < u =>
       /\ d.sessions[s].start < d.sessions[u].start
       /\ d.sessions[s].end <= d.sessions[u].start
  /\ \A i \in 1 .. Len(d.spans), u \in 1 .. Len(d.sessions) : d.spans[i].session < u =>
       /\ d.spans[i].entered <= d.sessions[u].start
       /\ d.spans[i].exited <= d.sessions[u].start

NewestOpen(d) == Unended(d) # {} => Len(d.sessions) \in Unended(d)

(* Where the Writer is: in the newest session, if any.                     *)
Located(x, t) ==
  /\ x.w.session \in {NoId, Len(x.db.sessions)}
  /\ x.w.span \in 0 .. Len(x.db.spans)
  /\ x.w.last \in 0 .. t

InItsSession(x) == x.w.span # NoId => x.db.spans[x.w.span].session = x.w.session

(* Sessions start at one of the seconds in E.                              *)
StartIn(d, E) == \A s \in 1 .. Len(d.sessions) : d.sessions[s].start \in E

Sound(x, t, E) ==
  /\ Formed(x) /\ Times(x.db, t) /\ Succeed(x.db) /\ StartIn(x.db, E)
  /\ Located(x, t)

LEMMA CloseSpanSound ==
  ASSUME NEW t \in Nat, NEW E, NEW x, Sound(x, t, E), NEW end \in 1 .. t, NEW next,
         x.w.session # NoId, InItsSession(x)
  PROVE  Sound(closeSpan(x, end, next), t, E)
<1> DEFINE y == closeSpan(x, end, next)
<1>1. /\ Formed(y) /\ SpanEnds(x, y, end)
      /\ y.db.sessions = x.db.sessions /\ y.w.session = x.w.session /\ y.w.last = x.w.last
  BY CloseSpanDoes DEF Sound, Located, NoTs
<1> HIDE DEF y
<1>2. Len(x.db.sessions) \in Nat /\ Len(x.db.spans) \in Nat
  BY Lengths DEF Sound, Formed
<1>3. Times(y.db, t)
  <2>1. Len(y.db.spans) = Len(x.db.spans) /\ Times(x.db, t)
    BY <1>1 DEF Sound, SpanEnds
  <2>2. ASSUME NEW i \in 1 .. Len(x.db.spans)
        PROVE  /\ y.db.spans[i].session \in 1 .. Len(x.db.sessions)
               /\ y.db.spans[i].entered \in 1 .. t /\ y.db.spans[i].exited \in 0 .. t
    <3>1. /\ x.db.spans[i].session \in 1 .. Len(x.db.sessions)
          /\ x.db.spans[i].entered \in 1 .. t /\ x.db.spans[i].exited \in 0 .. t
      BY <2>1 DEF Times
    <3>2. y.db.spans[i].exited \in {end, x.db.spans[i].exited}
      BY <1>1 DEF SpanEnds
    <3>3. /\ y.db.spans[i].session = x.db.spans[i].session
          /\ y.db.spans[i].entered = x.db.spans[i].entered
      BY <1>1 DEF SpanEnds
    <3>4. 1 .. t \subseteq 0 .. t
      OBVIOUS
    <3> QED BY <3>1, <3>2, <3>3, <3>4
  <2> QED BY <1>1, <2>1, <2>2 DEF Times
<1>4. Succeed(y.db)
  <2>1. ASSUME NEW i \in 1 .. Len(x.db.spans), NEW u \in 1 .. Len(x.db.sessions),
               x.db.spans[i].session < u, i = x.w.span
        PROVE  FALSE
    BY <1>2, <2>1 DEF Sound, Located, InItsSession, NoId
  <2> QED BY <1>1, <2>1 DEF Sound, Succeed, SpanEnds
<1>5. Located(y, t)
  BY <1>1, <1>2 DEF Sound, Located, SpanEnds, NoId
<1> QED BY <1>1, <1>3, <1>4, <1>5 DEF Sound, StartIn, y

LEMMA CloseSessionSound ==
  ASSUME NEW t \in Nat, NEW E, NEW x, Sound(x, t, E), InItsSession(x), NEW end \in 0 .. t
  PROVE  /\ Sound(closeSession(x, end), t, E)
         /\ x.w.session = NoId \/ end = NoTs => closeSession(x, end) = x
         /\ \A s \in 1 .. Len(closeSession(x, end).db.sessions) :
              /\ s \in 1 .. Len(x.db.sessions)
              /\ closeSession(x, end).db.sessions[s].start = x.db.sessions[s].start
<1> DEFINE y == closeSession(x, end)
<1>0. CASE x.w.session = NoId \/ end = NoTs
  BY <1>0 DEF closeSession
<1> SUFFICES ASSUME x.w.session # NoId, end # NoTs
             PROVE  /\ Sound(y, t, E)
                    /\ \A s \in 1 .. Len(y.db.sessions) :
                         /\ s \in 1 .. Len(x.db.sessions)
                         /\ y.db.sessions[s].start = x.db.sessions[s].start
  BY <1>0
<1>2. Len(x.db.sessions) \in Nat /\ Len(x.db.spans) \in Nat
  BY Lengths DEF Sound, Formed
<1>a. x.w.session \in 1 .. Len(x.db.sessions) /\ x.w.session = Len(x.db.sessions)
  BY <1>2 DEF Sound, Located, NoId
<1>1. Formed(y) /\ SpanEnds(x, y, end) /\ SessionEnds(x, y, end) /\ y.w.last = x.w.last
  BY <1>a, CloseSessionDoes DEF Sound, Located
<1> HIDE DEF y
<1>3. Times(y.db, t)
  BY <1>1, <1>2 DEF Sound, Times, SpanEnds, SessionEnds
<1>4. Succeed(y.db)
  <2>1. ASSUME NEW i \in 1 .. Len(x.db.spans), NEW u \in 1 .. Len(x.db.sessions),
               x.db.spans[i].session < u, i = x.w.span
        PROVE  FALSE
    <3>1. x.w.span # NoId
      BY <1>2, <2>1 DEF NoId
    <3>2. x.db.spans[i].session = Len(x.db.sessions)
      BY <1>a, <2>1, <3>1 DEF InItsSession
    <3> QED BY <1>2, <2>1, <3>2
  <2>2. ASSUME NEW s \in 1 .. Len(x.db.sessions), NEW u \in 1 .. Len(x.db.sessions), s < u
        PROVE  s # x.w.session
    BY <1>a, <1>2, <2>2
  <2>3. Succeed(x.db) /\ Len(y.db.spans) = Len(x.db.spans) /\ Len(y.db.sessions) = Len(x.db.sessions)
    BY <1>1 DEF Sound, SpanEnds, SessionEnds
  <2>4. ASSUME NEW s \in 1 .. Len(x.db.sessions), NEW u \in 1 .. Len(x.db.sessions), s < u
        PROVE  /\ y.db.sessions[s].start < y.db.sessions[u].start
               /\ y.db.sessions[s].end <= y.db.sessions[u].start
    BY <1>1, <2>2, <2>3, <2>4 DEF Succeed, SessionEnds
  <2>5. ASSUME NEW i \in 1 .. Len(x.db.spans), NEW u \in 1 .. Len(x.db.sessions),
               y.db.spans[i].session < u
        PROVE  /\ y.db.spans[i].entered <= y.db.sessions[u].start
               /\ y.db.spans[i].exited <= y.db.sessions[u].start
    BY <1>1, <2>1, <2>3, <2>5 DEF Succeed, SpanEnds, SessionEnds
  <2> QED BY <2>3, <2>4, <2>5 DEF Succeed
<1>5. Located(y, t)
  BY <1>1, <1>2 DEF Sound, Located, SpanEnds, SessionEnds, NoId
<1>6. StartIn(y.db, E)
  BY <1>1 DEF Sound, StartIn, SessionEnds
<1>7. Sound(y, t, E)
  BY <1>1, <1>3, <1>4, <1>5, <1>6 DEF Sound
<1> QED BY <1>1, <1>2, <1>7 DEF SessionEnds

LEMMA BeginSessionSound ==
  ASSUME NEW t \in Nat \ {0}, NEW E, t \in E, NEW x, Sound(x, t, E), NEW y, y = beginSession(x, t)
  PROVE  /\ Sound(y, t, E) /\ y.w.session \in 1 .. Len(y.db.sessions)
         /\ y.w.last = x.w.last
         /\ \/ NewestOpen(x.db)
            \/ \A s \in 1 .. Len(x.db.sessions) : x.db.sessions[s].start # t
            => NewestOpen(y.db)
<1>1. /\ Formed(y) /\ SessionBegins(x, y, t)
      /\ y.db.spans = x.db.spans /\ y.w.span = x.w.span /\ y.w.last = x.w.last
  BY BeginSessionDoes DEF Sound
<1>2. /\ Len(x.db.sessions) \in Nat /\ DOMAIN y.db.sessions = 1 .. Len(y.db.sessions)
      /\ DOMAIN x.db.sessions = 1 .. Len(x.db.sessions)
  BY <1>1, Lengths DEF Sound, Formed
<1> DEFINE n == Len(x.db.sessions)
<1>3. CASE /\ \A s \in 1 .. n : x.db.sessions[s].start # t
           /\ y.w.session = n + 1 /\ Len(y.db.sessions) = n + 1
           /\ \A s \in 1 .. n : y.db.sessions[s] = x.db.sessions[s]
           /\ y.db.sessions[y.w.session].start = t /\ y.db.sessions[y.w.session].end = NoTs
  <2>1. \A s \in 1 .. n + 1 : s \in 1 .. n \/ s = n + 1
    BY <1>2
  <2>2. Times(y.db, t)
    <3>1. Times(x.db, t) /\ t \in 1 .. t /\ 0 \in 0 .. t
      BY DEF Sound
    <3>2. ASSUME NEW s \in 1 .. n + 1
          PROVE  y.db.sessions[s].start \in 1 .. t /\ y.db.sessions[s].end \in 0 .. t
      <4>1. CASE s \in 1 .. n
        BY <1>3, <3>1, <4>1 DEF Times
      <4>2. CASE s = n + 1
        <5>1. y.db.sessions[s].start = t /\ y.db.sessions[s].end = 0
          BY <1>3, <4>2 DEF NoTs
        <5> QED BY <3>1, <5>1
      <4> QED BY <2>1, <4>1, <4>2
    <3>3. ASSUME NEW i \in 1 .. Len(x.db.spans)
          PROVE  x.db.spans[i].session \in 1 .. n + 1
      BY <1>2, <3>1 DEF Times
    <3> QED BY <1>1, <1>3, <3>1, <3>2, <3>3 DEF Times
  <2>3. Succeed(y.db)
    <3>1. ASSUME NEW s \in 1 .. n + 1, NEW u \in 1 .. n + 1, s < u
          PROVE  /\ y.db.sessions[s].start < y.db.sessions[u].start
                 /\ y.db.sessions[s].end <= y.db.sessions[u].start
      <4>1. s \in 1 .. n /\ (u \in 1 .. n \/ u = n + 1)
        BY <1>2, <3>1
      <4>2. x.db.sessions[s].start \in 1 .. t /\ x.db.sessions[s].end \in 0 .. t
        BY <4>1 DEF Sound, Times
      <4>3. Succeed(x.db)
        BY DEF Sound
      <4>4. CASE u \in 1 .. n
        BY <1>3, <3>1, <4>1, <4>3, <4>4 DEF Succeed
      <4>5. CASE u = n + 1
        <5>1. y.db.sessions[s] = x.db.sessions[s] /\ y.db.sessions[u].start = t
          BY <1>3, <4>1, <4>5
        <5>2. x.db.sessions[s].start # t
          BY <1>3, <4>1
        <5> QED BY <4>2, <5>1, <5>2
      <4> QED BY <4>1, <4>4, <4>5
    <3>2. ASSUME NEW i \in 1 .. Len(x.db.spans), NEW u \in 1 .. n + 1, x.db.spans[i].session < u
          PROVE  /\ x.db.spans[i].entered <= y.db.sessions[u].start
                 /\ x.db.spans[i].exited <= y.db.sessions[u].start
      <4>1. u \in 1 .. n \/ u = n + 1
        BY <1>2
      <4>2. x.db.spans[i].entered \in 1 .. t /\ x.db.spans[i].exited \in 0 .. t
        BY DEF Sound, Times
      <4>3. Succeed(x.db)
        BY DEF Sound
      <4>4. CASE u \in 1 .. n
        BY <1>3, <3>2, <4>3, <4>4 DEF Succeed
      <4>5. CASE u = n + 1
        <5>1. y.db.sessions[u].start = t
          BY <1>3, <4>5
        <5> QED BY <4>2, <5>1
      <4> QED BY <4>1, <4>4, <4>5
    <3> QED BY <1>1, <1>3, <3>1, <3>2 DEF Succeed
  <2>4. StartIn(y.db, E)
    BY <1>3, <2>1 DEF Sound, StartIn
  <2>5. Located(y, t)
    BY <1>1, <1>2, <1>3 DEF Sound, Located
  <2>6. Len(y.db.sessions) \in Unended(y.db)
    BY <1>2, <1>3 DEF Unended
  <2> QED BY <1>1, <1>2, <1>3, <2>2, <2>3, <2>4, <2>5, <2>6 DEF Sound, NewestOpen
<1>4. CASE /\ y.w.session \in 1 .. n /\ y.db.sessions = x.db.sessions
           /\ x.db.sessions[y.w.session].start = t
  <2>1. y.w.session = n
    <3>1. n \in 1 .. n /\ x.db.sessions[n].start <= t
      BY <1>2, <1>4 DEF Sound, Times
    <3>2. ~(y.w.session < n)
      <4>1. Succeed(x.db)
        BY DEF Sound
      <4>2. y.w.session < n => x.db.sessions[y.w.session].start < x.db.sessions[n].start
        BY <1>4, <3>1, <4>1 DEF Succeed
      <4>3. x.db.sessions[n].start \in Nat
        BY <3>1 DEF Sound, Times
      <4> QED BY <1>4, <3>1, <4>2, <4>3
    <3> QED BY <1>2, <1>4, <3>2
  <2>2. Times(y.db, t) /\ Succeed(y.db) /\ StartIn(y.db, E) /\ Located(y, t)
    BY <1>1, <1>4, <2>1 DEF Sound, Times, Succeed, StartIn, Located
  <2>3. NewestOpen(x.db) => NewestOpen(y.db)
    BY <1>4 DEF NewestOpen, Unended
  <2> QED BY <1>1, <1>4, <2>2, <2>3 DEF Sound
<1> QED BY <1>1, <1>3, <1>4 DEF SessionBegins

LEMMA OpenSpanSound ==
  ASSUME NEW t \in Nat \ {0}, NEW E, NEW x, Sound(x, t, E), x.w.session # NoId, NEW area,
         NEW y, y = openSpan(x, t, area)
  PROVE  Sound(y, t, E) /\ InItsSession(y) /\ y.db.sessions = x.db.sessions /\ y.w.last = x.w.last
<1>1. /\ Formed(y) /\ SpanBegins(x, y, t)
      /\ y.db.sessions = x.db.sessions /\ y.w.session = x.w.session /\ y.w.last = x.w.last
  BY OpenSpanDoes DEF Sound
<1> DEFINE n == Len(x.db.spans)
<1>2. n \in Nat /\ Len(x.db.sessions) \in Nat
  BY Lengths DEF Sound, Formed
<1>a. x.w.session = Len(x.db.sessions) /\ x.w.session \in 1 .. Len(x.db.sessions)
  BY <1>2 DEF Sound, Located, NoId
<1>3. CASE /\ y.w.span = n + 1 /\ Len(y.db.spans) = n + 1
           /\ \A i \in 1 .. n : y.db.spans[i] = x.db.spans[i]
           /\ y.db.spans[y.w.span].session = x.w.session
           /\ y.db.spans[y.w.span].entered = t /\ y.db.spans[y.w.span].exited = NoTs
  <2>1. \A i \in 1 .. n + 1 : i \in 1 .. n \/ i = n + 1
    BY <1>2
  <2>0. Times(x.db, t) /\ Succeed(x.db) /\ t \in 1 .. t /\ 0 \in 0 .. t
    BY DEF Sound
  <2>2. Times(y.db, t)
    <3>1. ASSUME NEW i \in 1 .. n + 1
          PROVE  /\ y.db.spans[i].session \in 1 .. Len(x.db.sessions)
                 /\ y.db.spans[i].entered \in 1 .. t /\ y.db.spans[i].exited \in 0 .. t
      <4>1. CASE i \in 1 .. n
        BY <1>3, <2>0, <4>1 DEF Times
      <4>2. CASE i = n + 1
        BY <1>a, <1>3, <2>0, <4>2 DEF NoTs
      <4> QED BY <2>1, <4>1, <4>2
    <3> QED BY <1>1, <1>3, <2>0, <3>1 DEF Times
  <2>3. Succeed(y.db)
    <3>1. ASSUME NEW i \in 1 .. n + 1, NEW u \in 1 .. Len(x.db.sessions), y.db.spans[i].session < u
          PROVE  /\ y.db.spans[i].entered <= x.db.sessions[u].start
                 /\ y.db.spans[i].exited <= x.db.sessions[u].start
      <4>1. i \in 1 .. n
        <5>1. i = n + 1 => y.db.spans[i].session = Len(x.db.sessions)
          BY <1>a, <1>3
        <5> QED BY <1>2, <2>1, <3>1, <5>1
      <4> QED BY <1>3, <2>0, <3>1, <4>1 DEF Succeed
    <3> QED BY <1>1, <1>3, <2>0, <3>1 DEF Succeed
  <2>4. Located(y, t) /\ InItsSession(y) /\ StartIn(y.db, E)
    BY <1>1, <1>2, <1>3 DEF Sound, Located, InItsSession, StartIn
  <2> QED BY <1>1, <2>2, <2>3, <2>4 DEF Sound
<1>4. CASE /\ y.w.span \in 1 .. n /\ y.db.spans = x.db.spans
           /\ x.db.spans[y.w.span].session = x.w.session /\ x.db.spans[y.w.span].entered = t
  <2>2. Times(y.db, t) /\ Succeed(y.db) /\ StartIn(y.db, E)
    BY <1>1, <1>4 DEF Sound, Times, Succeed, StartIn
  <2>3. Located(y, t) /\ InItsSession(y)
    BY <1>1, <1>2, <1>4 DEF Sound, Located, InItsSession
  <2> QED BY <1>1, <2>2, <2>3 DEF Sound
<1> QED BY <1>1, <1>3, <1>4 DEF SpanBegins

LEMMA NewestIsLast ==
  ASSUME NEW t \in Nat, NEW E, NEW x, Sound(x, t, E), NewestOpen(x.db), Unended(x.db) # {}
  PROVE  /\ Newest(x.db, Unended(x.db)) = Len(x.db.sessions)
         /\ Len(x.db.sessions) \in 1 .. Len(x.db.sessions)
         /\ x.db.sessions[Len(x.db.sessions)].end = NoTs
<1> DEFINE U == Unended(x.db)
           n == Len(x.db.sessions)
           q == x.db.sessions
<1>1. n \in Nat /\ DOMAIN q = 1 .. n /\ Times(x.db, t) /\ Succeed(x.db)
  BY Lengths DEF Sound, Formed
<1>2. n \in U /\ U \subseteq 1 .. n /\ n \in 1 .. n /\ q[n].end = NoTs
  BY <1>1 DEF NewestOpen, Unended
<1>3. \A s \in U : q[s].start \in Nat /\ (s # n => q[s].start < q[n].start)
  <2>1. ASSUME NEW s \in 1 .. n, s # n PROVE q[s].start < q[n].start
    BY <1>1, <1>2, <2>1 DEF Succeed
  <2> QED BY <1>1, <1>2, <2>1 DEF Times
<1>4. \A o \in U : q[o].start <= q[n].start
  BY <1>2, <1>3
<1>5. \A s \in U : (\A o \in U : q[o].start <= q[s].start) => s = n
  BY <1>2, <1>3
<1>6. Newest(x.db, U) = n
  <2> HIDE DEF U, n
  <2> QED BY <1>2, <1>4, <1>5 DEF Newest
<1> QED BY <1>2, <1>6

LEMMA EnsureSessionSound ==
  ASSUME NEW t \in Nat \ {0}, NEW E, t \in E, NEW x, Sound(x, t, E), InItsSession(x),
         NewestOpen(x.db), NEW y, y = ensureSession(x, t)
  PROVE  /\ Sound(y, t, E) /\ InItsSession(y) /\ NewestOpen(y.db)
         /\ y.w.session # NoId /\ y.w.last = x.w.last
<1>0. Len(x.db.sessions) \in Nat
  BY Lengths DEF Sound, Formed
<1>1. CASE x.w.session # NoId
  BY <1>1 DEF ensureSession
<1>a. ASSUME x.w.session = NoId PROVE x.w.span = NoId
  <2>1. SUFFICES ASSUME x.w.span # NoId PROVE FALSE
    OBVIOUS
  <2>2. x.w.span \in 1 .. Len(x.db.spans) /\ x.db.spans[x.w.span].session = NoId
    BY <1>a, <2>1 DEF Sound, Located, InItsSession, NoId
  <2> QED BY <2>2 DEF Sound, Times, NoId
<1>2. CASE x.w.session = NoId /\ Unended(x.db) # {}
  <2>1. PICK k, st : y = [x EXCEPT !.w.session = k, !.w.start = st] /\ k = Len(x.db.sessions)
    BY <1>2, NewestIsLast DEF ensureSession
  <2>2. [x EXCEPT !.w.session = k] = [db |-> x.db, w |-> [x.w EXCEPT !.session = k]]
    BY DEF Sound, Formed, Pair
  <2>3. y = [db |-> x.db, w |-> [[x.w EXCEPT !.session = k] EXCEPT !.start = st]]
    BY <2>1, <2>2
  <2>4. y = [db |-> x.db, w |-> y.w] /\ y.w = [x.w EXCEPT !.session = k, !.start = st]
    BY <2>3
  <2>5. /\ y = [db |-> x.db, w |-> y.w]
        /\ y.w = [session |-> k, start |-> st, afk |-> x.w.afk, away |-> x.w.away,
                  span |-> x.w.span, spanAfk |-> x.w.spanAfk, queue |-> x.w.queue, last |-> x.w.last]
    BY <2>4 DEF Sound, Formed, Pair
  <2>6. Pair(y) /\ y.db = x.db /\ y.w.session = k /\ y.w.last = x.w.last /\ y.w.span = NoId
    BY <1>a, <1>2, <2>5 DEF Sound, Formed, Pair
  <2>7. k \in 1 .. Len(x.db.sessions)
    BY <1>2, <2>1, NewestIsLast
  <2>8. Located(y, t) /\ InItsSession(y)
    BY <2>1, <2>6, <1>0 DEF Sound, Located, InItsSession, NoId
  <2> QED BY <2>6, <2>7, <2>8 DEF Sound, Formed, NoId
<1>3. CASE x.w.session = NoId /\ Unended(x.db) = {}
  <2>1. y = beginSession(x, t)
    BY <1>3 DEF ensureSession
  <2>2. /\ Sound(y, t, E) /\ y.w.session \in 1 .. Len(y.db.sessions)
        /\ y.w.last = x.w.last /\ NewestOpen(y.db)
    BY <2>1, BeginSessionSound
  <2>3. y.w.span = NoId
    BY <1>a, <1>3, <2>1, BeginSessionDoes DEF Sound
  <2> QED BY <2>2, <2>3 DEF InItsSession, NoId
<1> QED BY <1>1, <1>2, <1>3

LEMMA SessionStartSound ==
  ASSUME NEW t \in Nat \ {0}, NEW E, t \in E, NEW x, Sound(x, t, E), InItsSession(x),
         NewestOpen(x.db),
         x.w.last # NoTs => \A s \in 1 .. Len(x.db.sessions) : x.db.sessions[s].start # t,
         NEW y, y = handleSessionStart(x, t)
  PROVE  Sound(y, t, E) /\ InItsSession(y) /\ NewestOpen(y.db)
<1>0. PICK end \in 0 .. t : end = x.w.last
  BY DEF Sound, Located
<1>1. PICK v : v = closeSession(x, end)
  OBVIOUS
<1>2. /\ Sound(v, t, E)
      /\ x.w.last = NoTs => v = x
      /\ \A s \in 1 .. Len(v.db.sessions) :
           s \in 1 .. Len(x.db.sessions) /\ v.db.sessions[s].start = x.db.sessions[s].start
  BY <1>0, <1>1, CloseSessionSound
<1>3. PICK z : z = beginSession(v, t)
  OBVIOUS
<1>4. /\ NewestOpen(v.db)
      \/ \A s \in 1 .. Len(v.db.sessions) : v.db.sessions[s].start # t
  BY <1>2
<1>5. Sound(z, t, E) /\ z.w.session \in 1 .. Len(z.db.sessions) /\ NewestOpen(z.db)
  BY <1>2, <1>3, <1>4, BeginSessionSound
<1>6. y = openSpan(z, t, None) /\ z.w.session # NoId
  BY <1>0, <1>1, <1>3, <1>5 DEF handleSessionStart, NoId
<1>7. Sound(y, t, E) /\ InItsSession(y) /\ y.db.sessions = z.db.sessions
  BY <1>5, <1>6, OpenSpanSound
<1> QED BY <1>5, <1>7 DEF NewestOpen, Unended

LEMMA AreaEnteredSound ==
  ASSUME NEW t \in Nat \ {0}, NEW E, t \in E, NEW x, Sound(x, t, E), InItsSession(x),
         NewestOpen(x.db), NEW area, NEW y, y = handleAreaEntered(x, t, area)
  PROVE  Sound(y, t, E) /\ InItsSession(y) /\ NewestOpen(y.db)
<1>1. PICK v : v = ensureSession(x, t)
  OBVIOUS
<1>2. Sound(v, t, E) /\ InItsSession(v) /\ NewestOpen(v.db) /\ v.w.session # NoId
  BY <1>1, EnsureSessionSound
<1>f. PICK yes : yes = TRUE
  OBVIOUS
<1>3. PICK z : z = closeSpan(v, t, yes)
  OBVIOUS
<1>4. Sound(z, t, E)
  BY <1>2, <1>3, CloseSpanSound
<1>5. z.w.session = v.w.session /\ z.db.sessions = v.db.sessions
  BY <1>2, <1>3, CloseSpanDoes DEF Sound, Located, NoTs
<1>6. y = openSpan(z, t, area)
  <2>1. z = closeSpan(v, t, TRUE)
    BY <1>f, <1>3, Zenon
  <2> QED BY <1>1, <2>1 DEF handleAreaEntered
<1>7. Sound(y, t, E) /\ InItsSession(y) /\ y.db.sessions = z.db.sessions
  BY <1>2, <1>4, <1>5, <1>6, OpenSpanSound
<1> QED BY <1>2, <1>5, <1>7 DEF NewestOpen, Unended

-----------------------------------------------------------------------------
(* The sweep and a new Writer.                                             *)

LEMMA MadeTable ==
  ASSUME NEW n \in Nat, NEW q, q = [i \in 1 .. n |-> q[i]]
  PROVE  Table(q) /\ Len(q) = n
<1> DEFINE V == {q[i] : i \in 1 .. n}
<1>1. \A i \in 1 .. n : q[i] \in V
  OBVIOUS
<1> HIDE DEF V
<1>2. q \in Seq(V) /\ Len(q) = n
  BY <1>1
<1> QED BY <1>2, OwnValues

LEMMA LastKnownSound ==
  ASSUME NEW t \in Nat, NEW E, NEW x, Sound(x, t, E), NEW s \in 1 .. Len(x.db.sessions)
  PROVE  /\ LastKnown(x.db, s) \in 1 .. t
         /\ \A u \in 1 .. Len(x.db.sessions) : s < u => LastKnown(x.db, s) <= x.db.sessions[u].start
<1> DEFINE d == x.db
           J == {j \in DOMAIN d.spans : d.spans[j].session = s}
           R == {d.spans[i] : i \in J}
           S == {d.sessions[s].start} \cup {IF sp.exited = NoTs THEN sp.entered ELSE sp.exited : sp \in R}
           Good(n) == /\ n \in 1 .. t
                      /\ \A u \in 1 .. Len(d.sessions) : s < u => n <= d.sessions[u].start
<1>1. /\ DOMAIN d.spans = 1 .. Len(d.spans) /\ Times(d, t) /\ Succeed(d)
  BY Lengths DEF Sound, Formed
<1>2. Good(d.sessions[s].start)
  <2>1. d.sessions[s].start \in 1 .. t
    BY <1>1 DEF Times
  <2>2. ASSUME NEW u \in 1 .. Len(d.sessions), s < u PROVE d.sessions[s].start <= d.sessions[u].start
    <3>1. d.sessions[s].start < d.sessions[u].start /\ d.sessions[u].start \in 1 .. t
      BY <1>1, <2>2 DEF Succeed, Times
    <3> QED BY <2>1, <3>1
  <2> QED BY <2>1, <2>2
<1>3. ASSUME NEW i \in J
      PROVE  Good(IF d.spans[i].exited = NoTs THEN d.spans[i].entered ELSE d.spans[i].exited)
  <2>1. i \in 1 .. Len(d.spans) /\ d.spans[i].session = s
    BY <1>1
  <2>2. d.spans[i].entered \in 1 .. t /\ d.spans[i].exited \in 0 .. t
    BY <1>1, <2>1 DEF Times
  <2>3. \A u \in 1 .. Len(d.sessions) : s < u =>
          d.spans[i].entered <= d.sessions[u].start /\ d.spans[i].exited <= d.sessions[u].start
    BY <1>1, <2>1 DEF Succeed
  <2>4. Good(d.spans[i].entered) /\ (d.spans[i].exited # NoTs => Good(d.spans[i].exited))
    BY <2>2, <2>3 DEF NoTs
  <2> HIDE DEF Good
  <2> QED BY <2>4
<1> HIDE DEF Good
<1>4. \A n \in S : Good(n)
  BY <1>2, <1>3
<1>5. S # {} /\ S \subseteq 0 .. t
  <2>1. d.sessions[s].start \in S
    OBVIOUS
  <2> HIDE DEF S
  <2>2. \A n \in S : n \in 1 .. t
    BY <1>4 DEF Good
  <2> QED BY <2>1, <2>2
<1>6. Max(S) \in S
  <2> HIDE DEF S
  <2> QED BY <1>5, MaxOfNaturals
<1>7. LastKnown(d, s) = Max(S)
  BY DEF LastKnown, Last
<1> HIDE DEF S
<1>8. Good(LastKnown(d, s))
  BY <1>4, <1>6, <1>7
<1> QED BY <1>8 DEF Good

(* From x to y, the sweep ends the sessions and their open spans.          *)
SweepEnds(x, y) ==
  /\ Len(y.db.sessions) = Len(x.db.sessions) /\ Len(y.db.spans) = Len(x.db.spans)
  /\ \A s \in 1 .. Len(x.db.sessions) :
       /\ y.db.sessions[s].start = x.db.sessions[s].start
       /\ y.db.sessions[s].end = IF s \in Unended(x.db) THEN LastKnown(x.db, s)
                                                       ELSE x.db.sessions[s].end
       /\ y.db.sessions[s].afk = IF s \in Unended(x.db) THEN Secs(AwayOf(x.db, s))
                                                       ELSE x.db.sessions[s].afk
  /\ \A i \in 1 .. Len(x.db.spans) : LET s == x.db.spans[i].session IN
       /\ y.db.spans[i].session = s
       /\ y.db.spans[i].entered = x.db.spans[i].entered
       /\ y.db.spans[i].exited =
            IF s \in Unended(x.db) /\ x.db.spans[i].exited = NoTs /\ i = orphanSpan(x.db, s)
              THEN LastKnown(x.db, s) ELSE x.db.spans[i].exited
       /\ y.db.spans[i].afk = x.db.spans[i].afk
  /\ y.db.away = x.db.away

LEMMA CloseOrphansDoes ==
  ASSUME NEW x, Formed(x), NEW y, y = [db |-> CloseOrphans(x.db), w |-> x.w]
  PROVE  Formed(y) /\ SweepEnds(x, y) /\ y.w = x.w
<1> DEFINE d == x.db
           n == Len(d.sessions)
           m == Len(d.spans)
           U == Unended(d)
<1>0. /\ n \in Nat /\ DOMAIN d.sessions = 1 .. n /\ m \in Nat /\ DOMAIN d.spans = 1 .. m
  BY Lengths DEF Formed
<1>1. PICK p : p = [s \in 1 .. n |-> IF s \in U THEN closeOrphanSession(d, s) ELSE d.sessions[s]]
  OBVIOUS
<1>2. PICK q : q = [i \in 1 .. m |->
                      IF d.spans[i].session \in Unended(d) /\ d.spans[i].exited = NoTs
                        THEN closeOrphanSpan(d, i) ELSE d.spans[i]]
  OBVIOUS
<1>3. CloseOrphans(d) = [d EXCEPT !.sessions = p, !.spans = q]
  BY <1>0, <1>1, <1>2 DEF CloseOrphans
<1>4. /\ Pair(y) /\ y.db.sessions = p /\ y.db.spans = q /\ y.w = x.w /\ y.db.away = d.away
  <2>1. y = [db |-> y.db, w |-> x.w] /\ y.db = [d EXCEPT !.sessions = p, !.spans = q]
    BY <1>3
  <2>2. y.db = [sessions |-> p, spans |-> q, away |-> d.away, notes |-> d.notes, queues |-> d.queues]
    BY <2>1 DEF Formed, Pair
  <2> QED BY <2>1, <2>2 DEF Formed, Pair
<1>5. Table(p) /\ Len(p) = n /\ Table(q) /\ Len(q) = m
  BY <1>0, <1>1, <1>2, MadeTable
<1>6. ASSUME NEW s \in 1 .. n
      PROVE  /\ SessionRow(p[s]) /\ p[s].start = d.sessions[s].start
             /\ p[s].end = IF s \in U THEN LastKnown(d, s) ELSE d.sessions[s].end
             /\ p[s].afk = IF s \in U THEN Secs(AwayOf(d, s)) ELSE d.sessions[s].afk
  <2>1. SessionRow(d.sessions[s])
    BY DEF Formed, Rows
  <2>2. PICK afk, start : /\ closeOrphanSession(d, s) = EndRow(d.sessions[s], LastKnown(d, s), afk, start)
                          /\ afk = Secs(AwayOf(d, s))
    BY DEF closeOrphanSession
  <2>3. CASE s \in U
    BY <1>1, <2>1, <2>2, <2>3, EndRowDoes
  <2>4. CASE s \notin U
    BY <1>1, <2>1, <2>4
  <2> QED BY <2>3, <2>4
<1>7. ASSUME NEW i \in 1 .. m, NEW s, s = d.spans[i].session
      PROVE  /\ SpanRow(q[i]) /\ q[i].session = s /\ q[i].entered = d.spans[i].entered
             /\ q[i].exited = IF s \in U /\ d.spans[i].exited = NoTs /\ i = orphanSpan(d, s)
                                THEN LastKnown(d, s) ELSE d.spans[i].exited
             /\ q[i].afk = d.spans[i].afk
  <2>1. SpanRow(d.spans[i])
    BY DEF Formed, Rows
  <2>2. q[i] = IF s \in U /\ d.spans[i].exited = NoTs /\ i = orphanSpan(d, s)
                 THEN [d.spans[i] EXCEPT !.exited = LastKnown(d, s)] ELSE d.spans[i]
    BY <1>2, <1>7 DEF closeOrphanSpan
  <2>3. PICK r, e : r = d.spans[i] /\ e = LastKnown(d, s)
    OBVIOUS
  <2>4. CASE s \in U /\ d.spans[i].exited = NoTs /\ i = orphanSpan(d, s)
    <3>1. q[i] = [r EXCEPT !.exited = e] /\ SpanRow(r)
      BY <2>1, <2>2, <2>3, <2>4
    <3>2. SpanRow(q[i]) /\ q[i].session = r.session /\ q[i].entered = r.entered /\ q[i].exited = e
          /\ q[i].afk = r.afk
      BY <3>1 DEF SpanRow
    <3> QED BY <1>7, <2>3, <2>4, <3>2
  <2>5. CASE ~(s \in U /\ d.spans[i].exited = NoTs /\ i = orphanSpan(d, s))
    <3>1. q[i] = d.spans[i]
      BY <2>2, <2>5
    <3> QED BY <1>7, <2>1, <2>5, <3>1
  <2> QED BY <2>4, <2>5
<1> HIDE DEF U
<1>8. Formed(y)
  BY <1>4, <1>5, <1>6, <1>7 DEF Formed, Rows
<1>9. SweepEnds(x, y)
  BY <1>4, <1>5, <1>6, <1>7 DEF SweepEnds, U
<1> QED BY <1>4, <1>8, <1>9

LEMMA CloseOrphansSound ==
  ASSUME NEW t \in Nat, NEW E, NEW x, Sound(x, t, E), InItsSession(x),
         NEW y, y = [db |-> CloseOrphans(x.db), w |-> x.w]
  PROVE  Sound(y, t, E) /\ InItsSession(y) /\ Unended(y.db) = {}
<1> DEFINE d == x.db
           n == Len(d.sessions)
           m == Len(d.spans)
           U == Unended(d)
<1>0. /\ n \in Nat /\ DOMAIN d.sessions = 1 .. n /\ m \in Nat
      /\ Times(d, t) /\ Succeed(d)
  BY Lengths DEF Sound, Formed
<1>1. PICK p, q : p = y.db.sessions /\ q = y.db.spans
  OBVIOUS
<1>2. Formed(y) /\ SweepEnds(x, y) /\ y.w = x.w
  BY CloseOrphansDoes DEF Sound
<1>3. DOMAIN p = 1 .. Len(p) /\ Len(p) = n /\ Len(q) = m
  BY <1>1, <1>2, Lengths DEF SweepEnds, Formed
<1>6. ASSUME NEW s \in 1 .. n
      PROVE  /\ p[s].start = d.sessions[s].start
             /\ p[s].end = IF s \in U THEN LastKnown(d, s) ELSE d.sessions[s].end
  BY <1>1, <1>2 DEF SweepEnds
<1>7. ASSUME NEW i \in 1 .. m
      PROVE  /\ q[i].session = d.spans[i].session /\ q[i].entered = d.spans[i].entered
             /\ q[i].exited \in {d.spans[i].exited, LastKnown(d, d.spans[i].session)}
  BY <1>1, <1>2 DEF SweepEnds
<1> HIDE DEF U
<1>9. \A s \in 1 .. n : /\ LastKnown(d, s) \in 1 .. t
                        /\ \A u \in 1 .. n : s < u => LastKnown(d, s) <= d.sessions[u].start
  BY LastKnownSound
<1>10. Times(y.db, t)
  <2>1. ASSUME NEW s \in 1 .. n PROVE p[s].start \in 1 .. t /\ p[s].end \in 0 .. t
    <3>1. d.sessions[s].start \in 1 .. t /\ d.sessions[s].end \in 0 .. t
      BY <1>0 DEF Times
    <3>2. LastKnown(d, s) \in 1 .. t /\ 1 .. t \subseteq 0 .. t
      BY <1>9
    <3>3. p[s].start = d.sessions[s].start /\ p[s].end \in {d.sessions[s].end, LastKnown(d, s)}
      BY <1>6
    <3> QED BY <3>1, <3>2, <3>3
  <2>2. ASSUME NEW i \in 1 .. m
        PROVE  q[i].session \in 1 .. n /\ q[i].entered \in 1 .. t /\ q[i].exited \in 0 .. t
    <3>1. d.spans[i].session \in 1 .. n /\ d.spans[i].entered \in 1 .. t /\ d.spans[i].exited \in 0 .. t
      BY <1>0 DEF Times
    <3>2. LastKnown(d, d.spans[i].session) \in 0 .. t
      BY <1>9, <3>1
    <3>3. q[i].exited \in {d.spans[i].exited, LastKnown(d, d.spans[i].session)}
      BY <1>7
    <3> QED BY <1>7, <3>1, <3>2, <3>3
  <2> QED BY <1>1, <1>3, <2>1, <2>2 DEF Times
<1>11. Succeed(y.db)
  <2>1. ASSUME NEW s \in 1 .. n, NEW u \in 1 .. n, s < u
        PROVE  p[s].start < p[u].start /\ p[s].end <= p[u].start
    <3>1. d.sessions[s].start < d.sessions[u].start /\ d.sessions[s].end <= d.sessions[u].start
      BY <1>0, <2>1 DEF Succeed
    <3> QED BY <1>6, <1>9, <2>1, <3>1
  <2>2. ASSUME NEW i \in 1 .. m, NEW u \in 1 .. n, q[i].session < u
        PROVE  q[i].entered <= p[u].start /\ q[i].exited <= p[u].start
    <3>0. q[i].session = d.spans[i].session /\ d.spans[i].session \in 1 .. n /\ p[u].start = d.sessions[u].start
      BY <1>0, <1>6, <1>7 DEF Times
    <3>1. d.spans[i].entered <= d.sessions[u].start /\ d.spans[i].exited <= d.sessions[u].start
      BY <1>0, <2>2, <3>0 DEF Succeed
    <3>2. LastKnown(d, d.spans[i].session) <= d.sessions[u].start
      BY <1>9, <2>2, <3>0
    <3> QED BY <1>7, <3>0, <3>1, <3>2
  <2> QED BY <1>1, <1>3, <2>1, <2>2 DEF Succeed
<1>12. StartIn(y.db, E) /\ Located(y, t) /\ InItsSession(y)
  <2>1. x.w.span # NoId => x.w.span \in 1 .. m
    BY <1>0 DEF Sound, Located, NoId
  <2> QED BY <1>1, <1>2, <1>3, <1>6, <1>7, <2>1 DEF Sound, StartIn, Located, InItsSession
<1>13. Unended(y.db) = {}
  <2>1. ASSUME NEW s \in 1 .. n PROVE p[s].end # NoTs
    <3>1. s \notin U => d.sessions[s].end # NoTs
      BY <1>0 DEF U, Unended
    <3> QED BY <1>6, <1>9, <3>1 DEF NoTs
  <2> QED BY <1>1, <1>3, <2>1 DEF Unended
<1> QED BY <1>2, <1>10, <1>11, <1>12, <1>13 DEF Sound

(* The writer fields a new Writer leaves behind do not matter to the tables. *)
LEMMA ResumedSound ==
  ASSUME NEW t \in Nat, NEW E, NEW d, Sound([db |-> d, w |-> NoWriter], t, E), NewestOpen(d),
         NEW y, y = [db |-> d, w |-> NewWriter(d)]
  PROVE  Sound(y, t, E) /\ InItsSession(y) /\ y.w.last = NoTs
<1> DEFINE x == [db |-> d, w |-> NoWriter]
           U == Unended(d)
           s == Newest(d, U)
           open == OpenSpans(d, s)
<1>0. /\ Formed(x) /\ x.db = d /\ x.w = NoWriter /\ Times(d, t) /\ Succeed(d) /\ StartIn(d, E)
      /\ Len(d.sessions) \in Nat /\ Len(d.spans) \in Nat /\ DOMAIN d.spans = 1 .. Len(d.spans)
  BY Lengths DEF Sound, Formed
<1>1. CASE U = {}
  <2>1. y = x
    BY <1>1 DEF NewWriter
  <2> QED BY <2>1, <1>0 DEF InItsSession, NoWriter
<1>2. CASE U # {}
  <2>1. s = Len(d.sessions) /\ s \in 1 .. Len(d.sessions)
    BY <1>0, <1>2, NewestIsLast
  <2>a. y.db = d /\ y = [db |-> d, w |-> y.w]
    OBVIOUS
  <2>2. ASSUME NEW i, y.w = [NoWriter EXCEPT !.session = s, !.span = i]
        PROVE  Pair(y) /\ y.w.session = s /\ y.w.span = i /\ y.w.last = NoTs
    <3>1. PICK k : k = s
      OBVIOUS
    <3>2. y.w = [NoWriter EXCEPT !.session = k, !.span = i]
      BY <2>2, <3>1
    <3>3. Pair(y) /\ y.w.session = k /\ y.w.span = i /\ y.w.last = NoTs
      <4> HIDE DEF s
      <4> QED BY <1>0, <2>a, <3>2 DEF Formed, Pair, NoWriter
    <3> QED BY <3>1, <3>3
  <2>3. CASE open = {}
    <3>1. y.w = [NoWriter EXCEPT !.session = s, !.span = NoId]
      BY <1>2, <2>3 DEF NewWriter
    <3>2. Pair(y) /\ y.w.session = s /\ y.w.span = NoId /\ y.w.last = NoTs
      <4> HIDE DEF s
      <4> QED BY <2>2, <3>1
    <3>3. Located(y, t) /\ InItsSession(y)
      <4> HIDE DEF s
      <4> QED BY <1>0, <2>1, <2>a, <3>2 DEF Located, InItsSession, NoTs, NoId
    <3> QED BY <1>0, <2>a, <3>2, <3>3 DEF Sound, Formed
  <2>4. CASE open # {}
    <3>1. open \subseteq 1 .. Len(d.spans) /\ \A i \in open : d.spans[i].session = s
      BY <1>0 DEF OpenSpans
    <3>2. PICK k \in open : \A j \in open : d.spans[j].entered <= d.spans[k].entered
      <4> HIDE DEF open
      <4> DEFINE V == {d.spans[i].entered : i \in open}
      <4>1. V # {} /\ V \subseteq 0 .. t
        <5>1. \A i \in open : d.spans[i].entered \in 1 .. t
          BY <1>0, <3>1 DEF Times
        <5> QED BY <2>4, <5>1
      <4>2. Max(V) \in V /\ \A v \in V : v <= Max(V)
        <5> HIDE DEF V
        <5> QED BY <4>1, MaxOfNaturals
      <4> QED BY <4>2
    <3>3. PICK i \in open : i = CHOOSE o \in open : \A j \in open : d.spans[j].entered <= d.spans[o].entered
      <4> HIDE DEF open
      <4> QED BY <3>2
    <3>4. y.w = [NoWriter EXCEPT !.session = s, !.span = i]
      BY <1>2, <2>4, <3>3 DEF NewWriter
    <3>5. Pair(y) /\ y.w.session = s /\ y.w.span = i /\ y.w.last = NoTs
      <4> HIDE DEF s
      <4> QED BY <2>2, <3>4
    <3>6. Located(y, t) /\ InItsSession(y)
      <4> HIDE DEF s, open
      <4> QED BY <1>0, <2>1, <2>a, <3>1, <3>5 DEF Located, InItsSession, NoTs, NoId
    <3> QED BY <1>0, <2>a, <3>5, <3>6 DEF Sound, Formed
  <2> QED BY <2>3, <2>4
<1> QED BY <1>1, <1>2

LEMMA LaterSound ==
  ASSUME NEW t \in Nat, NEW E, NEW x, Sound(x, t, E), NEW n \in Nat, t <= n, NEW F, E \subseteq F
  PROVE  Sound(x, n, F)
<1>1. 1 .. t \subseteq 1 .. n /\ 0 .. t \subseteq 0 .. n
  OBVIOUS
<1>2. Times(x.db, n)
  BY <1>1 DEF Sound, Times
<1>3. StartIn(x.db, F) /\ Located(x, n)
  BY <1>1 DEF Sound, StartIn, Located
<1> QED BY <1>2, <1>3 DEF Sound

LEMMA KeepsSound ==
  ASSUME NEW t \in Nat, NEW E, NEW x, Sound(x, t, E), InItsSession(x), NewestOpen(x.db),
         NEW y, Pair(y), Keeps(x, y)
  PROVE  Sound(y, t, E) /\ InItsSession(y) /\ NewestOpen(y.db)
<1>1. Formed(y) /\ Times(y.db, t) /\ Succeed(y.db) /\ StartIn(y.db, E)
  BY DEF Sound, Keeps, Formed, Rows, Times, Succeed, StartIn
<1>2. Located(y, t) /\ InItsSession(y) /\ NewestOpen(y.db)
  BY DEF Sound, Keeps, Located, InItsSession, NewestOpen, Unended
<1> QED BY <1>1, <1>2 DEF Sound

LEMMA SettledSound ==
  ASSUME NEW t, NEW E, NEW x, Sound(x, t, E), NEW y, y = [db |-> x.db, w |-> NoWriter], 0 \in 0 .. t
  PROVE  Sound(y, t, E)
<1>1. Formed(y)
  BY DEF Sound, Formed, Pair, NoWriter
<1>2. Located(y, t)
  BY Lengths DEF Sound, Formed, Located, NoWriter, NoTs, NoId
<1> QED BY <1>1, <1>2 DEF Sound

(* The line's second is the Writer's last.                                 *)
LEMMA AfterLine ==
  ASSUME NEW t \in Nat, NEW E, NEW x, Sound(x, t, E), InItsSession(x), NewestOpen(x.db),
         NEW y, y = [db |-> x.db, w |-> [x.w EXCEPT !.last = t]]
  PROVE  Sound(y, t, E) /\ InItsSession(y) /\ NewestOpen(y.db)
<1>1. Pair(y) /\ y.db = x.db /\ y.w.session = x.w.session /\ y.w.span = x.w.span /\ y.w.last = t
  <2>1. y = [db |-> x.db, w |-> y.w] /\ y.w = [x.w EXCEPT !.last = t]
    OBVIOUS
  <2>2. y.w = [session |-> x.w.session, start |-> x.w.start, afk |-> x.w.afk, away |-> x.w.away,
               span |-> x.w.span, spanAfk |-> x.w.spanAfk, queue |-> x.w.queue, last |-> t]
    BY <2>1 DEF Sound, Formed, Pair
  <2> QED BY <2>1, <2>2 DEF Sound, Formed, Pair
<1> QED BY <1>1 DEF Sound, Formed, Located, InItsSession

-----------------------------------------------------------------------------
(* The lines.                                                              *)

EntryTimes == {log[i].ts : i \in {k \in 1 .. Len(log) : Entry(log[k])}}

LogLine == [kind : LineKinds, ts : Nat, area : Area \cup {None}, who : Char \cup {None}]

Logged ==
  /\ log \in Seq(LogLine)
  /\ \A i \in 1 .. Len(log) : log[i].ts \in 1 .. Now
  /\ \/ todo = <<>>
     \/ log # <<>> /\ todo = <<log[Len(log)]>> /\ w.last = NoTs

LEMMA ReadsLine ==
  ASSUME Logged, NEW l \in NextLines, Reads(l)
  PROVE  /\ Now \in Nat \ {0} /\ l.ts \in Nat \ {0} /\ Now <= l.ts /\ Now' = l.ts
         /\ todo' = <<>>
         /\ log' \in Seq(LogLine)
         /\ \A i \in 1 .. Len(log') : log'[i].ts \in 1 .. l.ts
         /\ EntryTimes \subseteq EntryTimes' /\ (Entry(l) => l.ts \in EntryTimes')
         /\ w.last # NoTs => todo = <<>>
         /\ todo = <<>> /\ (l.kind = "start" \/ (l.kind = "area" /\ ~SameSecond))
               => \A e \in EntryTimes : e < l.ts
<1> DEFINE L == LogLine
           n == Len(log)
<1>0. n \in Nat /\ (log # <<>> => n \in 1 .. n /\ Now = log[n].ts) /\ (log = <<>> => Now = 1)
  BY DEF Logged, Now
<1>1. Now \in Nat \ {0}
  <2>1. CASE log = <<>>
    BY <1>0, <2>1
  <2>2. CASE log # <<>>
    BY <1>0, <2>2 DEF Logged
  <2> QED BY <2>1, <2>2
<1>2. CASE todo # <<>>
  <2>1. log # <<>> /\ todo = <<log[n]>> /\ w.last = NoTs /\ log' = log
    BY <1>2 DEF Logged, Reads
  <2>2. l = log[n] /\ todo' = <<>>
    BY <1>2, <2>1 DEF Reads
  <2>3. Now' = Now /\ EntryTimes' = EntryTimes /\ Now = l.ts
    BY <1>0, <2>1, <2>2 DEF Now, EntryTimes
  <2>4. Entry(l) => l.ts \in EntryTimes
    BY <1>0, <2>1, <2>2 DEF EntryTimes
  <2> QED BY <1>1, <1>2, <2>1, <2>2, <2>3, <2>4 DEF Logged
<1>3. CASE todo = <<>>
  <2>1. l \in FreshLines /\ Possible(l) /\ log' = Append(log, l) /\ todo' = <<>>
    BY <1>3 DEF NextLines, Reads
  <2>2. l.kind \in LineKinds /\ l.ts \in Now .. MaxTime /\ l \in L
    BY <1>1, <2>1, WriterAssumption DEF FreshLines, LogLine
  <2>3. l.ts \in Nat \ {0} /\ Now <= l.ts
    BY <1>1, <2>2, WriterAssumption
  <2>4. /\ log' \in Seq(L) /\ Len(log') = n + 1 /\ log'[n + 1] = l
        /\ \A i \in 1 .. n : log'[i] = log[i]
    BY <1>0, <2>1, <2>2 DEF Logged
  <2>5. Now' = l.ts
    BY <1>0, <2>4 DEF Now
  <2>6. \A i \in 1 .. Len(log') : log'[i].ts \in 1 .. l.ts
    <3>1. ASSUME NEW i \in 1 .. n PROVE log'[i].ts \in 1 .. l.ts
      <4>1. log[i].ts \in 1 .. Now /\ log'[i] = log[i]
        BY <2>4 DEF Logged
      <4> QED BY <1>1, <2>3, <4>1
    <3>2. log'[n + 1].ts \in 1 .. l.ts
      BY <2>3, <2>4
    <3> QED BY <1>0, <2>4, <3>1, <3>2
  <2>7. EntryTimes \subseteq EntryTimes' /\ (Entry(l) => l.ts \in EntryTimes')
    BY <1>0, <2>4 DEF EntryTimes
  <2>8. l.kind = "start" \/ (l.kind = "area" /\ ~SameSecond) => \A e \in EntryTimes : e < l.ts
    BY <2>1 DEF Possible, EntryTimes
  <2> QED BY <1>1, <1>3, <2>1, <2>3, <2>4, <2>5, <2>6, <2>7, <2>8
<1> QED BY <1>2, <1>3

-----------------------------------------------------------------------------
(* The invariant, when a restart reads one line again at most.             *)

ReadOnce == ~WholeAgain /\ Rereads \subseteq {0, 1}

Committed == [db |-> saved, w |-> NoWriter]

Inv ==
  /\ Logged
  /\ Sound(Here, Now, EntryTimes) /\ InItsSession(Here) /\ NewestOpen(db)
  /\ Sound(Committed, Now, EntryTimes) /\ NewestOpen(saved)

LEMMA InitInv == ASSUME Init PROVE Inv
<1> USE DEF Init
<1>1. Logged
  <2>1. Len(log) = 0 /\ log \in Seq(LogLine)
    OBVIOUS
  <2> QED BY <2>1 DEF Logged
<1>2. Now = 1 /\ db = [sessions |-> <<>>, spans |-> <<>>, away |-> {}, notes |-> {}, queues |-> {}]
      /\ saved = db
  BY DEF Now
<1>3. Here = Committed /\ InItsSession(Here) /\ NewestOpen(db)
  BY DEF Here, Committed, InItsSession, NoWriter, NewestOpen, Unended
<1>4. Table(<<>>) /\ Len(<<>>) = 0
  <2>1. <<>> \in Seq({})
    OBVIOUS
  <2> QED BY <2>1, OwnValues
<1>5. Formed(Committed)
  BY <1>4 DEF Committed, Formed, Pair, Rows, NoWriter
<1>6. Sound(Committed, Now, EntryTimes)
  <2>1. /\ Committed.db = saved /\ Committed.w = NoWriter
        /\ Len(saved.sessions) = 0 /\ Len(saved.spans) = 0
    BY <1>2, <1>4 DEF Committed
  <2>2. Times(saved, Now) /\ Succeed(saved) /\ StartIn(saved, EntryTimes)
    BY <2>1 DEF Times, Succeed, StartIn
  <2>3. Located(Committed, Now)
    BY <1>2, <2>1 DEF Located, NoWriter, NoTs, NoId
  <2> QED BY <1>5, <2>1, <2>2, <2>3 DEF Sound
<1> QED BY <1>1, <1>3, <1>6 DEF Inv

LEMMA LastLine ==
  ASSUME NEW L, NEW q \in Seq(L), Len(q) >= 1
  PROVE  SubSeq(q, Len(q), Len(q)) = <<q[Len(q)]>>
<1>1. PICK m \in 1 .. Len(q) : m = Len(q)
  OBVIOUS
<1>2. q[m] \in L /\ m \in Nat
  OBVIOUS
<1>3. \A i \in m .. m : q[i] \in L
  BY <1>2
<1>4. /\ SubSeq(q, m, m) \in Seq(L)
      /\ Len(SubSeq(q, m, m)) = IF m <= m THEN m - m + 1 ELSE 0
      /\ \A i \in 1 .. m - m + 1 : SubSeq(q, m, m)[i] = q[m + i - 1]
  BY <1>2, <1>3, SubSeqProperties
<1>5. Len(SubSeq(q, m, m)) = 1
  BY <1>2, <1>4
<1>6. 1 \in 1 .. m - m + 1 /\ m + 1 - 1 = m
  BY <1>2
<1>7. SubSeq(q, m, m)[1] = q[m]
  BY <1>4, <1>6
<1>8. ASSUME NEW r \in Seq(L), Len(r) = 1 PROVE r = <<r[1]>>
  BY <1>8
<1> QED BY <1>1, <1>4, <1>5, <1>7, <1>8

(* A line that makes x of the tables and the Writer, and perhaps something *)
(* of the roster.                                                          *)
Makes(x, l) ==
  db' = x.db /\ w' = [x.w EXCEPT !.last = l.ts] /\ UNCHANGED <<saved, restarts, sweeps, before>>

Enrols(l) == \E r : RosterBecomes(r, l)

LEMMA LineMakes ==
  ASSUME NEW x, NEW l, Becomes(x, l) \/ (Enrols(l) /\ x = Here)
  PROVE  Makes(x, l)
BY DEF Becomes, Enrols, RosterBecomes, restVars, Makes, Here

LEMMA LineInv ==
  ASSUME Inv, NEW l \in NextLines, Reads(l), UNCHANGED saved,
         \/ UNCHANGED <<db, w>>
         \/ \E x : /\ Sound(x, l.ts, EntryTimes') /\ InItsSession(x) /\ NewestOpen(x.db)
                  /\ db' = x.db /\ w' = [x.w EXCEPT !.last = l.ts]
  PROVE  Inv'
<1>1. /\ Now \in Nat \ {0} /\ l.ts \in Nat \ {0} /\ Now <= l.ts /\ Now' = l.ts
      /\ todo' = <<>>
      /\ log' \in Seq(LogLine)
      /\ \A i \in 1 .. Len(log') : log'[i].ts \in 1 .. l.ts
      /\ EntryTimes \subseteq EntryTimes'
  BY ReadsLine DEF Inv
<1>2. Logged'
  <2>1. \A i \in 1 .. Len(log') : log'[i].ts \in 1 .. Now'
    BY <1>1
  <2> QED BY <1>1, <2>1 DEF Logged
<1>3. Sound(Committed', l.ts, EntryTimes') /\ NewestOpen(saved')
  BY <1>1, LaterSound DEF Inv, Committed
<1>4. Sound(Here', l.ts, EntryTimes') /\ InItsSession(Here') /\ NewestOpen(db')
  <2>1. CASE UNCHANGED <<db, w>>
    <3>1. Here' = Here
      BY <2>1 DEF Here
    <3>2. Sound(Here, l.ts, EntryTimes')
      BY <1>1, LaterSound DEF Inv
    <3> QED BY <2>1, <3>1, <3>2 DEF Inv
  <2>2. ASSUME NEW x, Sound(x, l.ts, EntryTimes'), InItsSession(x), NewestOpen(x.db),
               db' = x.db, w' = [x.w EXCEPT !.last = l.ts]
        PROVE  Sound(Here', l.ts, EntryTimes') /\ InItsSession(Here') /\ NewestOpen(db')
    <3>1. Here' = [db |-> x.db, w |-> [x.w EXCEPT !.last = l.ts]] /\ Here'.db = db'
      BY <2>2 DEF Here
    <3> QED BY <1>1, <2>2, <3>1, AfterLine
  <2> QED BY <2>1, <2>2
<1> QED BY <1>1, <1>2, <1>3, <1>4 DEF Inv

LEMMA NextInv == ASSUME ReadOnce, Inv, [Next]_vars PROVE Inv'
<1>0. Pair(Here) /\ Here.db = db
  BY DEF Inv, Sound, Formed, Here
<1>n. Now \in Nat /\ 0 \in 0 .. Now
  <2>1. Now \in Nat
    BY DEF Inv, Logged, Now
  <2> QED BY <2>1
<1>1. ASSUME NEW l \in NextLines, Reads(l)
      PROVE  /\ Sound(Here, l.ts, EntryTimes') /\ InItsSession(Here) /\ NewestOpen(Here.db)
             /\ l.ts \in Nat \ {0} /\ (Entry(l) => l.ts \in EntryTimes')
             /\ w.last # NoTs => todo = <<>>
             /\ todo = <<>> /\ l.kind = "start" => \A e \in EntryTimes : e < l.ts
  <2>1. /\ Now \in Nat \ {0} /\ l.ts \in Nat \ {0} /\ Now <= l.ts
        /\ EntryTimes \subseteq EntryTimes' /\ (Entry(l) => l.ts \in EntryTimes')
        /\ w.last # NoTs => todo = <<>>
        /\ todo = <<>> /\ l.kind = "start" => \A e \in EntryTimes : e < l.ts
    BY <1>1, ReadsLine DEF Inv
  <2>2. Sound(Here, l.ts, EntryTimes')
    BY <2>1, LaterSound DEF Inv
  <2> QED BY <1>0, <2>1, <2>2 DEF Inv
<1>2. ASSUME NEW l \in NextLines, Reads(l), NEW x, Pair(x), Keeps(Here, x),
             Becomes(x, l) \/ (Enrols(l) /\ x = Here)
      PROVE  Inv'
  <2>1. Sound(x, l.ts, EntryTimes') /\ InItsSession(x) /\ NewestOpen(x.db)
    BY <1>1, <1>2, KeepsSound
  <2> QED BY <1>2, <2>1, LineInv, LineMakes DEF Makes
<1>3. ASSUME SessionStart PROVE Inv'
  <2>1. PICK l \in NextLines : On("start", l) /\ Becomes(handleSessionStart(Here, l.ts), l)
    BY <1>3 DEF SessionStart
  <2>2. Reads(l) /\ l.kind = "start" /\ Entry(l)
    BY <2>1 DEF On, Entry
  <2>3. ASSUME w.last # NoTs, NEW s \in 1 .. Len(db.sessions) PROVE db.sessions[s].start # l.ts
    <3>1. \A e \in EntryTimes : e < l.ts
      BY <1>1, <2>2, <2>3
    <3>2. db.sessions[s].start \in EntryTimes
      BY <1>0 DEF Inv, Sound, StartIn
    <3> QED BY <1>1, <2>2, <3>1, <3>2
  <2>4. Here.w = w
    BY DEF Here
  <2>5. PICK x : x = handleSessionStart(Here, l.ts)
    OBVIOUS
  <2>6. Sound(x, l.ts, EntryTimes') /\ InItsSession(x) /\ NewestOpen(x.db)
    BY <1>0, <1>1, <2>2, <2>3, <2>4, <2>5, SessionStartSound
  <2>7. Makes(x, l)
    BY <2>1, <2>5, LineMakes
  <2> QED BY <2>2, <2>6, <2>7, LineInv DEF Makes
<1>4. ASSUME AreaEntered PROVE Inv'
  <2>1. PICK l \in NextLines : On("area", l) /\ Becomes(handleAreaEntered(Here, l.ts, l.area), l)
    BY <1>4 DEF AreaEntered
  <2>2. Reads(l) /\ l.kind = "area" /\ Entry(l)
    BY <2>1 DEF On, Entry
  <2>5. PICK x : x = handleAreaEntered(Here, l.ts, l.area)
    OBVIOUS
  <2>6. Sound(x, l.ts, EntryTimes') /\ InItsSession(x) /\ NewestOpen(x.db)
    BY <1>0, <1>1, <2>2, <2>5, AreaEnteredSound
  <2>7. Makes(x, l)
    BY <2>1, <2>5, LineMakes
  <2> QED BY <2>2, <2>6, <2>7, LineInv DEF Makes
<1>5. ASSUME AfkOn \/ AfkOff PROVE Inv'
  BY <1>0, <1>2, <1>5, OthersKeep DEF AfkOn, AfkOff, On
<1>6. ASSUME FocusLost PROVE Inv'
  <2>1. PICK l \in NextLines : /\ Reads(l)
                              /\ IF altTab THEN UNCHANGED <<db, w, roster, restVars>>
                                           ELSE Becomes(handleAway(Here, "alt_tab", l.ts), l)
    BY <1>6 DEF FocusLost, On
  <2>2. CASE altTab
    BY <2>1, <2>2, LineInv DEF restVars
  <2>3. CASE ~altTab
    BY <1>0, <1>2, <2>1, <2>3, OthersKeep
  <2> QED BY <2>2, <2>3
<1>7. ASSUME FocusGained PROVE Inv'
  <2>1. PICK l \in NextLines : /\ Reads(l)
                              /\ IF altTab THEN Becomes(handleBack(Here, "alt_tab", l.ts), l)
                                           ELSE UNCHANGED <<db, w, roster, restVars>>
    BY <1>7 DEF FocusGained, On
  <2>2. CASE ~altTab
    BY <2>1, <2>2, LineInv DEF restVars
  <2>3. CASE altTab
    BY <1>0, <1>2, <2>1, <2>3, OthersKeep
  <2> QED BY <2>2, <2>3
<1>8. ASSUME Note \/ PvpQueue \/ PvpQueueCancelled PROVE Inv'
  BY <1>0, <1>2, <1>8, OthersKeep DEF Note, PvpQueue, PvpQueueCancelled, On
<1>9. ASSUME CommitBatch PROVE Inv'
  <2>1. Logged' /\ Now' = Now /\ EntryTimes' = EntryTimes /\ Here' = Here /\ UNCHANGED db
    BY <1>9 DEF CommitBatch, Inv, Logged, Now, EntryTimes, Here
  <2>2. Committed' = [db |-> db, w |-> NoWriter]
    BY <1>9 DEF CommitBatch, Committed
  <2>3. Sound(Committed', Now, EntryTimes)
    BY <1>0, <1>n, <2>2, SettledSound DEF Inv
  <2> QED BY <1>9, <2>1, <2>3 DEF Inv, CommitBatch
<1>10. ASSUME Sweep PROVE Inv'
  <2>1. Logged' /\ Now' = Now /\ EntryTimes' = EntryTimes
    BY <1>10 DEF Sweep, Inv, Logged, Now, EntryTimes
  <2>2. Here' = [db |-> CloseOrphans(Here.db), w |-> Here.w] /\ Here'.db = db'
    BY <1>10 DEF Sweep, Here
  <2>3. Sound(Here', Now, EntryTimes) /\ InItsSession(Here') /\ Unended(db') = {}
    <3>1. PICK y : y = Here'
      OBVIOUS
    <3>2. Now \in Nat
      BY DEF Inv, Logged, Now
    <3>3. Sound(y, Now, EntryTimes) /\ InItsSession(y) /\ Unended(y.db) = {}
      BY <2>2, <3>1, <3>2, CloseOrphansSound DEF Inv
    <3> QED BY <2>2, <3>1, <3>3
  <2>4. Committed' = [db |-> db', w |-> NoWriter] /\ saved' = db'
    BY <1>10 DEF Sweep, Committed
  <2>5. Sound(Committed', Now, EntryTimes)
    <3>1. PICK x : x = Here'
      OBVIOUS
    <3> QED BY <1>n, <2>2, <2>3, <2>4, <3>1, SettledSound
  <2>6. NewestOpen(db') /\ NewestOpen(saved')
    BY <2>3, <2>4 DEF NewestOpen
  <2> QED BY <2>1, <2>3, <2>5, <2>6 DEF Inv
<1>11. ASSUME Restart PROVE Inv'
  <2>1. PICK n \in Rereads : n <= Len(log) /\ Resume(n)
    BY <1>11 DEF Restart
  <2>2. UNCHANGED <<log, saved>> /\ n \in {0, 1}
    BY <1>11, <2>1 DEF Restart, ReadOnce
  <2>3. Here' = [db |-> saved, w |-> NewWriter(saved)] /\ db' = saved /\ Here'.w = w'
    BY <2>1 DEF Resume, Here
  <2>4. PICK y : y = Here'
    OBVIOUS
  <2>5. Now \in Nat /\ Now' = Now /\ EntryTimes' = EntryTimes
    BY <2>2 DEF Inv, Logged, Now, EntryTimes
  <2>6. Sound(y, Now, EntryTimes) /\ InItsSession(y) /\ y.w.last = NoTs
    BY <2>3, <2>4, <2>5, ResumedSound DEF Inv, Committed
  <2>7. Logged'
    <3>1. todo' = <<>> \/ (log # <<>> /\ todo' = <<log[Len(log)]>>)
      <4>1. Len(log) \in Nat /\ todo' = SubSeq(log, Len(log) - n + 1, Len(log))
        BY <2>1 DEF Resume, Inv, Logged
      <4>2. CASE n = 0
        <5>1. todo' = SubSeq(log, Len(log) + 1, Len(log))
          BY <4>1, <4>2
        <5> QED BY <4>1, <5>1
      <4>3. CASE n = 1
        <5>1. todo' = SubSeq(log, Len(log), Len(log)) /\ Len(log) >= 1
          BY <2>1, <4>1, <4>3
        <5>2. todo' = <<log[Len(log)]>>
          BY <4>1, <5>1, LastLine DEF Inv, Logged
        <5> QED BY <5>1, <5>2
      <4> QED BY <2>2, <4>2, <4>3
    <3> QED BY <2>2, <2>3, <2>4, <2>5, <2>6, <3>1 DEF Inv, Logged
  <2>8. Committed' = Committed
    BY <2>2 DEF Committed
  <2> QED BY <2>2, <2>3, <2>4, <2>5, <2>6, <2>7, <2>8 DEF Inv
<1>12. ASSUME ReadAgain PROVE Inv'
  BY <1>12 DEF ReadAgain, ReadOnce
<1>13. ASSUME UNCHANGED vars PROVE Inv'
  BY <1>13 DEF vars, Inv, Logged, Now, EntryTimes, Here, Committed
<1>14. ASSUME LevelUp \/ CharacterDeath PROVE Inv'
  <2>1. PICK l \in NextLines : Reads(l) /\ Enrols(l)
    BY <1>14 DEF LevelUp, CharacterDeath, On, Enrols
  <2>2. Keeps(Here, Here)
    BY DEF Keeps
  <2> QED BY <1>0, <1>2, <2>1, <2>2
<1> QED
  BY <1>3, <1>4, <1>5, <1>6, <1>7, <1>8, <1>9, <1>10, <1>11, <1>12, <1>13, <1>14 DEF Next

LEMMA Invariance == ReadOnce /\ Spec => []Inv
<1> SUFFICES ASSUME ReadOnce PROVE Spec => []Inv
  OBVIOUS
<1>1. Inv /\ [Next]_vars => Inv'
  BY NextInv
<1> QED BY <1>1, InitInv, PTL DEF Spec

LEMMA InvDisjoint == Inv => SessionsDisjoint
<1> SUFFICES ASSUME Inv, NEW s \in Session, NEW t \in Session, Ended(s),
                    db.sessions[s].start < db.sessions[t].start
             PROVE  db.sessions[s].end <= db.sessions[t].start
  BY DEF SessionsDisjoint
<1>1. Times(db, Now) /\ Succeed(db) /\ Len(db.sessions) \in Nat
  BY Lengths DEF Inv, Sound, Formed, Here
<1>2. s < t
  <2>1. ~(t < s) /\ s # t
    BY <1>1 DEF Succeed, Session, Times
  <2> QED BY <1>1, <2>1 DEF Session
<1> QED BY <1>1, <1>2 DEF Succeed, Session

(* A session that ended did so before the next one started, however many   *)
(* restarts lose a batch or read the last line again, and however many     *)
(* sweeps end sessions under the Writer's hands (closeSession, NewWriter,  *)
(* closeOrphanSession).                                                    *)
THEOREM SessionsFollow == ReadOnce /\ Spec => []SessionsDisjoint
BY Invariance, InvDisjoint, PTL

-----------------------------------------------------------------------------
(* The spans of each session.                                              *)

Ascending(d) ==
  \A i, j \in 1 .. Len(d.spans) : i < j =>
    /\ d.spans[i].session <= d.spans[j].session
    /\ d.spans[i].session = d.spans[j].session => d.spans[i].entered < d.spans[j].entered

Within(d) ==
  \A i \in 1 .. Len(d.spans) :
    /\ d.spans[i].entered >= d.sessions[d.spans[i].session].start
    /\ d.spans[i].exited = NoTs \/ d.spans[i].exited >= d.spans[i].entered

(* A span ends where the next one of its session begins, or with it, or is *)
(* open.  A restart that reads its line once more may close and reopen the *)
(* current one, which keeps the time of that.                              *)
Joined(d, i) ==
  IF i < Len(d.spans) /\ d.spans[i + 1].session = d.spans[i].session
    THEN d.spans[i].exited = d.spans[i + 1].entered
    ELSE \/ d.spans[i].exited = NoTs
         \/ d.sessions[d.spans[i].session].end = d.spans[i].exited
         \/ /\ i = Len(d.spans) /\ d.sessions[d.spans[i].session].end = NoTs
            /\ d.spans[i].exited = d.spans[i].entered

NewestSpanned(d) ==
  Len(d.sessions) # 0 => Len(d.spans) # 0 /\ d.spans[Len(d.spans)].session = Len(d.sessions)

Spanned(d) ==
  /\ Ascending(d) /\ Within(d) /\ NewestSpanned(d)
  /\ \A i \in 1 .. Len(d.spans) : Joined(d, i)

EnteredIn(d, E) == \A i \in 1 .. Len(d.spans) : d.spans[i].entered \in E

NotReopened(d) ==
  Len(d.spans) # 0 /\ d.sessions[d.spans[Len(d.spans)].session].end = NoTs
    => d.spans[Len(d.spans)].exited = NoTs

(* The Writer is in the newest span; in a new Writer's it is open or ended. *)
Follows(x) ==
  /\ x.w.session # NoId => x.w.span = Len(x.db.spans) /\ x.w.span # NoId
  /\ Unended(x.db) # {} => x.w.session # NoId
  /\ x.w.session # NoId /\ x.w.last = NoTs /\ x.db.spans[Len(x.db.spans)].exited = NoTs
       => x.db.sessions[x.w.session].end = NoTs
  /\ x.w.session # NoId /\ x.w.last # NoTs
       => x.db.spans[Len(x.db.spans)].entered <= x.w.last

(* From the tables d with n spans and k sessions to e, a span of session s *)
(* is added at t, which goes on where the last one ends or begins s.       *)
Appends(d, e, n, k, s, t) ==
  /\ n \in Nat /\ n = Len(d.spans) /\ k \in Nat /\ k = Len(d.sessions)
  /\ s \in {k, k + 1} /\ t \in Nat
  /\ Ascending(d) /\ Within(d) /\ \A i \in 1 .. n : i < n => Joined(d, i)
  /\ \A i \in 1 .. n : /\ d.spans[i].session \in 1 .. k
                       /\ d.spans[i].entered \in Nat /\ d.spans[i].exited \in Nat
  /\ n # 0 => \/ /\ d.spans[n].session = s /\ d.spans[n].exited = t
                 /\ d.spans[n].entered < t
              \/ /\ d.spans[n].session < s
                 /\ \/ d.spans[n].exited = NoTs
                    \/ d.sessions[d.spans[n].session].end = d.spans[n].exited
  /\ Len(e.sessions) = s /\ \A o \in 1 .. k : e.sessions[o] = d.sessions[o]
  /\ e.sessions[s].start <= t
  /\ Len(e.spans) = n + 1 /\ \A i \in 1 .. n : e.spans[i] = d.spans[i]
  /\ e.spans[n + 1].session = s /\ e.spans[n + 1].entered = t /\ e.spans[n + 1].exited = NoTs

LEMMA AppendedSpan ==
  ASSUME NEW d, NEW e, NEW n, NEW k, NEW s, NEW t, Appends(d, e, n, k, s, t)
  PROVE  Spanned(e) /\ NotReopened(e)
<1>a. /\ n \in Nat /\ n = Len(d.spans) /\ k \in Nat /\ k = Len(d.sessions)
      /\ s \in {k, k + 1} /\ t \in Nat
  BY DEF Appends
<1>b. Ascending(d) /\ Within(d) /\ \A i \in 1 .. n : i < n => Joined(d, i)
  BY DEF Appends
<1>c. \A i \in 1 .. n : /\ d.spans[i].session \in 1 .. k
                        /\ d.spans[i].entered \in Nat /\ d.spans[i].exited \in Nat
  BY DEF Appends
<1>d. n # 0 => \/ /\ d.spans[n].session = s /\ d.spans[n].exited = t
                  /\ d.spans[n].entered < t
               \/ /\ d.spans[n].session < s
                  /\ \/ d.spans[n].exited = NoTs
                     \/ d.sessions[d.spans[n].session].end = d.spans[n].exited
  BY DEF Appends
<1>e. /\ Len(e.sessions) = s /\ \A o \in 1 .. k : e.sessions[o] = d.sessions[o]
      /\ e.sessions[s].start <= t
  BY DEF Appends
<1>f. /\ Len(e.spans) = n + 1 /\ \A i \in 1 .. n : e.spans[i] = d.spans[i]
      /\ e.spans[n + 1].session = s /\ e.spans[n + 1].entered = t /\ e.spans[n + 1].exited = NoTs
  BY DEF Appends
<1>0. \A i \in 1 .. n + 1 : i \in 1 .. n \/ i = n + 1
  BY <1>a
<1>1. ASSUME NEW i \in 1 .. n
      PROVE  d.spans[i].session <= s /\ (d.spans[i].session = s => d.spans[i].entered < t)
  <2>1. n \in 1 .. n /\ n # 0
    BY <1>a
  <2>2. /\ d.spans[i].session \in Nat /\ d.spans[n].session \in Nat /\ s \in Nat
        /\ d.spans[i].entered \in Nat /\ d.spans[n].entered \in Nat
    BY <1>a, <1>c, <2>1
  <2>3. d.spans[n].session <= s /\ (d.spans[n].session = s => d.spans[n].entered < t)
    BY <1>d, <2>1, <2>2
  <2>4. CASE i = n
    BY <2>3, <2>4
  <2>5. CASE i < n
    <3>1. /\ d.spans[i].session <= d.spans[n].session
          /\ d.spans[i].session = d.spans[n].session => d.spans[i].entered < d.spans[n].entered
      BY <1>a, <1>b, <2>1, <2>5 DEF Ascending
    <3>2. CASE d.spans[i].session = s
      <4>1. d.spans[n].session = s
        BY <2>2, <2>3, <3>1, <3>2
      <4> QED BY <1>a, <2>2, <2>3, <3>1, <3>2, <4>1
    <3> QED BY <2>2, <2>3, <3>1, <3>2
  <2> QED BY <1>a, <2>4, <2>5
<1>2. Ascending(e)
  <2>1. ASSUME NEW i \in 1 .. n + 1, NEW j \in 1 .. n + 1, i < j
        PROVE  /\ e.spans[i].session <= e.spans[j].session
               /\ e.spans[i].session = e.spans[j].session => e.spans[i].entered < e.spans[j].entered
    <3>1. i \in 1 .. n
      BY <1>a, <2>1
    <3>2. CASE j \in 1 .. n
      <4>1. /\ d.spans[i].session <= d.spans[j].session
            /\ d.spans[i].session = d.spans[j].session => d.spans[i].entered < d.spans[j].entered
        BY <1>a, <1>b, <2>1, <3>1, <3>2 DEF Ascending
      <4> QED BY <1>f, <3>1, <3>2, <4>1
    <3>3. CASE j = n + 1
      BY <1>1, <1>f, <3>1, <3>3
    <3> QED BY <1>0, <3>2, <3>3
  <2> QED BY <1>f, <2>1 DEF Ascending
<1>3. Within(e)
  <2>1. ASSUME NEW i \in 1 .. n
        PROVE  /\ e.spans[i].entered >= e.sessions[e.spans[i].session].start
               /\ e.spans[i].exited = NoTs \/ e.spans[i].exited >= e.spans[i].entered
    <3>1. e.spans[i] = d.spans[i] /\ e.sessions[d.spans[i].session] = d.sessions[d.spans[i].session]
      BY <1>c, <1>e, <1>f
    <3>2. /\ d.spans[i].entered >= d.sessions[d.spans[i].session].start
          /\ d.spans[i].exited = NoTs \/ d.spans[i].exited >= d.spans[i].entered
      BY <1>a, <1>b DEF Within
    <3> QED BY <3>1, <3>2
  <2>2. /\ e.spans[n + 1].entered >= e.sessions[e.spans[n + 1].session].start
        /\ e.spans[n + 1].exited = NoTs
    BY <1>e, <1>f
  <2> QED BY <1>0, <1>f, <2>1, <2>2 DEF Within
<1>4. ASSUME NEW i \in 1 .. n PROVE Joined(e, i)
  <2>a. i + 1 \in 1 .. n + 1 /\ i < n + 1 /\ i # n + 1
    BY <1>a, <1>4
  <2>b. e.spans[i] = d.spans[i]
    BY <1>f, <1>4
  <2>c. d.spans[i].session \in 1 .. k
    BY <1>c, <1>4
  <2>d. e.sessions[d.spans[i].session] = d.sessions[d.spans[i].session]
    BY <1>e, <2>c
  <2>0. /\ i + 1 \in 1 .. n + 1 /\ i < n + 1 /\ i # n + 1
        /\ e.spans[i] = d.spans[i]
        /\ e.sessions[d.spans[i].session] = d.sessions[d.spans[i].session]
    BY <2>a, <2>b, <2>d
  <2>1. CASE i < n
    <3>1. i + 1 \in 1 .. n /\ e.spans[i + 1] = d.spans[i + 1]
      BY <1>a, <1>f, <2>1
    <3>2. IF d.spans[i + 1].session = d.spans[i].session
            THEN d.spans[i].exited = d.spans[i + 1].entered
            ELSE \/ d.spans[i].exited = NoTs
                 \/ d.sessions[d.spans[i].session].end = d.spans[i].exited
      <4>1. Joined(d, i) /\ i # n
        BY <1>a, <1>b, <2>1
      <4> QED BY <1>a, <2>1, <4>1 DEF Joined
    <3> QED BY <1>f, <2>0, <3>1, <3>2 DEF Joined
  <2>2. CASE i = n
    <3>1. /\ e.spans[i + 1].session = s /\ e.spans[i + 1].entered = t
          /\ d.spans[i].session \in Nat /\ s \in Nat
      BY <1>a, <1>c, <1>f, <2>2
    <3>2. CASE d.spans[n].session = s /\ d.spans[n].exited = t
      BY <1>f, <2>0, <2>2, <3>1, <3>2 DEF Joined
    <3>3. CASE /\ d.spans[n].session < s
               /\ \/ d.spans[n].exited = NoTs
                  \/ d.sessions[d.spans[n].session].end = d.spans[n].exited
      <4>1. e.spans[i + 1].session # e.spans[i].session
        BY <2>0, <2>2, <3>1, <3>3
      <4> QED BY <1>f, <2>0, <2>2, <3>3, <4>1 DEF Joined
    <3> QED BY <1>d, <1>a, <2>2, <3>2, <3>3
  <2> QED BY <1>a, <2>1, <2>2
<1>5. Joined(e, n + 1)
  <2>1. ~(n + 1 < n + 1)
    BY <1>a
  <2> QED BY <1>f, <2>1 DEF Joined
<1>6. NewestSpanned(e) /\ NotReopened(e)
  BY <1>a, <1>e, <1>f DEF NewestSpanned, NotReopened
<1> QED BY <1>0, <1>2, <1>3, <1>4, <1>5, <1>6, <1>f DEF Spanned

LEMMA InnerSpans ==
  ASSUME NEW d, Rows(d), NEW t \in Nat, Times(d, t), Spanned(d),
         NEW i \in 1 .. Len(d.spans), NEW j \in 1 .. Len(d.spans), i < j,
         d.spans[i].session = d.spans[j].session
  PROVE  /\ i + 1 \in 1 .. Len(d.spans) /\ d.spans[i + 1].session = d.spans[i].session
         /\ d.spans[i].exited = d.spans[i + 1].entered
         /\ d.spans[i].exited <= d.spans[j].entered /\ d.spans[i].exited # NoTs
<1> DEFINE n == Len(d.spans)
<1>0. n \in Nat
  BY Lengths
<1>1. i + 1 \in 1 .. n /\ i < n /\ i < i + 1
  BY <1>0
<1>2. \A o \in 1 .. n : /\ d.spans[o].session \in Nat
                        /\ d.spans[o].entered \in Nat /\ d.spans[o].entered # NoTs
  <2>1. \A o \in 1 .. n : /\ d.spans[o].session \in 1 .. Len(d.sessions)
                          /\ d.spans[o].entered \in 1 .. t
    BY DEF Times
  <2>2. Len(d.sessions) \in Nat
    BY Lengths
  <2> QED BY <2>1, <2>2 DEF NoTs
<1>3. d.spans[i].session <= d.spans[i + 1].session
  BY <1>1 DEF Spanned, Ascending
<1>4. i + 1 = j \/ i + 1 < j
  BY <1>1
<1>5. /\ d.spans[i + 1].session <= d.spans[j].session
      /\ d.spans[i + 1].session = d.spans[j].session => d.spans[i + 1].entered <= d.spans[j].entered
  <2>1. CASE i + 1 = j
    BY <1>2, <2>1
  <2>2. CASE i + 1 < j
    <3>1. /\ d.spans[i + 1].session <= d.spans[j].session
          /\ d.spans[i + 1].session = d.spans[j].session => d.spans[i + 1].entered < d.spans[j].entered
      BY <1>1, <2>2 DEF Spanned, Ascending
    <3> QED BY <1>1, <1>2, <3>1
  <2> QED BY <1>4, <2>1, <2>2
<1>6. d.spans[i + 1].session = d.spans[i].session
  BY <1>1, <1>2, <1>3, <1>5
<1>7. d.spans[i].exited = d.spans[i + 1].entered
  BY <1>1, <1>6 DEF Spanned, Joined
<1> QED BY <1>1, <1>2, <1>5, <1>6, <1>7

(* Of a session with an open last span, that is the only open one.         *)
LEMMA OpenOfNewest ==
  ASSUME NEW d, Rows(d), NEW t \in Nat, Times(d, t), Spanned(d),
         NEW n \in 1 .. Len(d.spans), n = Len(d.spans), d.spans[n].exited = NoTs
  PROVE  OpenSpans(d, d.spans[n].session) = {n}
<1>1. DOMAIN d.spans = 1 .. n
  BY Lengths
<1>2. ASSUME NEW i \in 1 .. n, d.spans[i].session = d.spans[n].session, d.spans[i].exited = NoTs
      PROVE  i = n
  BY <1>2, InnerSpans
<1> QED BY <1>1, <1>2 DEF OpenSpans

LEMMA OnlyOpen ==
  ASSUME NEW d, Rows(d), NEW t \in Nat, Times(d, t), Spanned(d),
         NEW n \in 1 .. Len(d.spans), n = Len(d.spans), d.spans[n].exited = NoTs,
         NEW s, s = d.spans[n].session
  PROVE  orphanSpan(d, s) = n
<1>1. OpenSpans(d, s) = {n}
  BY OpenOfNewest
<1>2. d.spans[n].entered <= d.spans[n].entered
  BY DEF Times
<1>3. (CHOOSE i \in {n} : \A j \in {n} : d.spans[i].entered <= d.spans[j].entered) = n
  BY <1>2
<1> QED BY <1>1, <1>3 DEF orphanSpan

(* An unended session whose last span is closed was last active then.      *)
LEMMA LastActive ==
  ASSUME NEW t \in Nat, NEW E, NEW x, Sound(x, t, E), Spanned(x.db),
         NEW n \in 1 .. Len(x.db.spans), n = Len(x.db.spans),
         x.db.spans[n].exited = x.db.spans[n].entered
  PROVE  LastKnown(x.db, x.db.spans[n].session) = x.db.spans[n].entered
<1>1. PICK d, s, m : d = x.db /\ s = d.spans[n].session /\ m = d.spans[n].entered
  OBVIOUS
<1>2. /\ Rows(d) /\ Times(d, t) /\ DOMAIN d.spans = 1 .. n /\ Spanned(d)
      /\ s \in 1 .. Len(d.sessions) /\ m \in 1 .. t
  BY <1>1, Lengths DEF Sound, Formed, Times
<1> DEFINE J == {j \in DOMAIN d.spans : d.spans[j].session = s}
           R == {d.spans[i] : i \in J}
           S == {d.sessions[s].start} \cup {IF sp.exited = NoTs THEN sp.entered ELSE sp.exited : sp \in R}
<1>3. d.sessions[s].start \in 0 .. m
  <2>1. d.sessions[s].start \in 1 .. t
    BY <1>2 DEF Times
  <2>2. m >= d.sessions[s].start
    BY <1>1, <1>2 DEF Spanned, Within
  <2> QED BY <1>2, <2>1, <2>2
<1>4. ASSUME NEW i \in J
      PROVE  (IF d.spans[i].exited = NoTs THEN d.spans[i].entered ELSE d.spans[i].exited) \in 0 .. m
  <2>1. i \in 1 .. n /\ d.spans[i].session = d.spans[n].session
    BY <1>1, <1>2
  <2>2. CASE i = n
    BY <1>1, <1>2, <2>2 DEF NoTs
  <2>3. CASE i < n
    <3>1. d.spans[i].exited <= d.spans[n].entered /\ d.spans[i].exited # NoTs
      BY <1>2, <2>1, <2>3, InnerSpans
    <3>2. d.spans[i].exited \in 0 .. t
      BY <1>1, <1>2, <2>1 DEF Times
    <3> QED BY <1>1, <1>2, <3>1, <3>2
  <2> QED BY <2>1, <2>2, <2>3
<1>5. m \in S
  <2>1. n \in J /\ d.spans[n].exited = m /\ m # NoTs
    BY <1>1, <1>2 DEF NoTs
  <2>2. m = IF d.spans[n].exited = NoTs THEN d.spans[n].entered ELSE d.spans[n].exited
    BY <2>1
  <2> HIDE DEF J
  <2> QED BY <2>1, <2>2
<1>6. S # {} /\ S \subseteq 0 .. m
  <2> HIDE DEF J
  <2> QED BY <1>3, <1>4, <1>5
<1>7. Max(S) = m
  <2> HIDE DEF S
  <2>1. m \in Nat
    BY <1>2
  <2>2. Max(S) \in S /\ \A v \in S : v <= Max(S)
    BY <1>6, <2>1, MaxOfNaturals
  <2>3. Max(S) \in 0 .. m /\ m <= Max(S)
    BY <1>5, <1>6, <2>2
  <2> QED BY <2>1, <2>3
<1>8. LastKnown(d, s) = Max(S)
  BY DEF LastKnown, Last
<1> QED BY <1>1, <1>7, <1>8

(* A session begins at t with a span.                                      *)
LEMMA BeginsSpanned ==
  ASSUME NEW t \in Nat \ {0}, NEW E, t \in E, NEW x, Sound(x, t, E),
         Spanned(x.db), NotReopened(x.db), EnteredIn(x.db, E),
         NEW area, NEW z, z = beginSession(x, t), NEW y, y = openSpan(z, t, area)
  PROVE  /\ Spanned(y.db) /\ NotReopened(y.db) /\ EnteredIn(y.db, E)
         /\ y.w.session # NoId /\ y.w.span = Len(y.db.spans) /\ y.w.span # NoId
<1>d. PICK d, e, n, k : d = x.db /\ e = y.db /\ n = Len(d.spans) /\ k = Len(d.sessions)
  OBVIOUS
<1>0. n \in Nat /\ k \in Nat
  BY <1>d, Lengths DEF Sound, Formed
<1>1. SessionBegins(x, z, t) /\ z.db.spans = d.spans
  BY <1>d, BeginSessionDoes DEF Sound
<1>2. Sound(z, t, E) /\ z.w.session \in 1 .. Len(z.db.sessions)
  BY BeginSessionSound
<1>3. Formed(z) /\ z.w.session = Len(z.db.sessions) /\ z.w.session # NoId
  BY <1>2 DEF Sound, Located, NoId
<1>4. SpanBegins(z, y, t) /\ e.sessions = z.db.sessions /\ y.w.session = z.w.session
  BY <1>d, <1>3, OpenSpanDoes
<1>5. \A i \in 1 .. n : /\ d.spans[i].session \in 1 .. k
                        /\ d.spans[i].entered \in 1 .. t /\ d.spans[i].exited \in 0 .. t
  BY <1>d DEF Sound, Times
<1>s. Spanned(d) /\ NotReopened(d) /\ EnteredIn(d, E)
  BY <1>d
<1>6. CASE /\ z.w.session = k + 1 /\ Len(z.db.sessions) = k + 1
           /\ \A s \in 1 .. k : z.db.sessions[s] = d.sessions[s]
           /\ z.db.sessions[z.w.session].start = t
  <2>1. /\ y.w.span = n + 1 /\ Len(e.spans) = n + 1
        /\ \A i \in 1 .. n : e.spans[i] = d.spans[i]
        /\ e.spans[n + 1].session = k + 1
        /\ e.spans[n + 1].entered = t /\ e.spans[n + 1].exited = NoTs
    <3>1. Len(z.db.spans) = n
      BY <1>1, <1>d
    <3>2. ASSUME NEW i \in 1 .. n PROVE z.db.spans[i].session # z.w.session
      <4>1. d.spans[i].session \in 1 .. k /\ k + 1 \notin 1 .. k
        BY <1>0, <1>5
      <4> QED BY <1>1, <1>6, <4>1
    <3>3. ~(/\ y.w.span \in 1 .. n /\ z.db.spans[y.w.span].session = z.w.session)
      BY <3>2
    <3>4. /\ y.w.span = n + 1 /\ Len(y.db.spans) = n + 1
          /\ \A i \in 1 .. n : y.db.spans[i] = z.db.spans[i]
          /\ y.db.spans[y.w.span].session = z.w.session
          /\ y.db.spans[y.w.span].entered = t /\ y.db.spans[y.w.span].exited = NoTs
      BY <1>4, <3>1, <3>3 DEF SpanBegins
    <3> QED BY <1>1, <1>6, <1>d, <3>4
  <2>2. ASSUME n # 0
        PROVE  \/ d.spans[n].exited = NoTs
               \/ d.sessions[d.spans[n].session].end = d.spans[n].exited
    <3>1. n \in 1 .. n /\ ~(n < n)
      BY <1>0, <2>2
    <3>2. Joined(d, n)
      BY <1>d, <1>s, <3>1 DEF Spanned
    <3> QED BY <1>d, <1>s, <2>2, <3>1, <3>2 DEF Joined, NotReopened
  <2>3. Spanned(e) /\ NotReopened(e)
    <3>1. \A i \in 1 .. n : /\ d.spans[i].session \in 1 .. k
                            /\ d.spans[i].entered \in Nat /\ d.spans[i].exited \in Nat
      BY <1>5
    <3>2. n # 0 => d.spans[n].session < k + 1
      BY <1>0, <3>1
    <3>3. Ascending(d) /\ Within(d) /\ \A i \in 1 .. n : i < n => Joined(d, i)
      BY <1>d, <1>s DEF Spanned
    <3>4. n # 0 => /\ d.spans[n].session < k + 1
                   /\ \/ d.spans[n].exited = NoTs
                      \/ d.sessions[d.spans[n].session].end = d.spans[n].exited
      BY <2>2, <3>2
    <3>5. /\ Len(e.sessions) = k + 1 /\ \A o \in 1 .. k : e.sessions[o] = d.sessions[o]
          /\ e.sessions[k + 1].start <= t
      BY <1>4, <1>6
    <3>6. PICK s \in {k, k + 1} : s = k + 1
      OBVIOUS
    <3>7. n # 0 => \/ /\ d.spans[n].session = s /\ d.spans[n].exited = t
                      /\ d.spans[n].entered < t
                   \/ /\ d.spans[n].session < s
                      /\ \/ d.spans[n].exited = NoTs
                         \/ d.sessions[d.spans[n].session].end = d.spans[n].exited
      BY <3>4, <3>6
    <3>8. /\ Len(e.sessions) = s /\ e.sessions[s].start <= t
          /\ Len(e.spans) = n + 1 /\ \A i \in 1 .. n : e.spans[i] = d.spans[i]
          /\ e.spans[n + 1].session = s /\ e.spans[n + 1].entered = t /\ e.spans[n + 1].exited = NoTs
      BY <2>1, <3>5, <3>6
    <3>9. t \in Nat /\ n = Len(d.spans) /\ k = Len(d.sessions)
      BY <1>d
    <3>a. \A o \in 1 .. k : e.sessions[o] = d.sessions[o]
      BY <3>5
    <3>10. Appends(d, e, n, k, s, t)
      BY <1>0, <3>1, <3>3, <3>6, <3>7, <3>8, <3>9, <3>a DEF Appends
    <3> QED BY <3>10, AppendedSpan
  <2>4. EnteredIn(e, E)
    <3>1. \A i \in 1 .. n : e.spans[i].entered \in E
      BY <1>d, <1>s, <2>1 DEF EnteredIn
    <3>2. \A i \in 1 .. n + 1 : i \in 1 .. n \/ i = n + 1
      BY <1>0
    <3> QED BY <2>1, <3>1, <3>2 DEF EnteredIn
  <2>5. y.w.session # NoId /\ y.w.span = Len(e.spans) /\ y.w.span # NoId
    BY <1>0, <1>3, <1>4, <2>1 DEF NoId
  <2> QED BY <1>d, <2>3, <2>4, <2>5
<1>7. CASE /\ z.w.session \in 1 .. k /\ z.db.sessions = d.sessions
           /\ d.sessions[z.w.session].start = t
  <2>1. z.w.session = k /\ k # 0
    BY <1>0, <1>d, <1>3, <1>7
  <2>2. n # 0 /\ n \in 1 .. n /\ d.spans[n].session = k
    <3>1. n # 0 /\ d.spans[n].session = k
      BY <1>d, <1>s, <2>1 DEF Spanned, NewestSpanned
    <3> QED BY <1>0, <3>1
  <2>3. d.spans[n].entered = t
    <3>1. d.spans[n].entered >= t
      BY <1>7, <1>d, <1>s, <2>1, <2>2 DEF Spanned, Within
    <3>2. d.spans[n].entered \in 1 .. t
      BY <1>5, <2>2
    <3> QED BY <3>1, <3>2
  <2>4. /\ y.w.span \in 1 .. n /\ e.spans = d.spans
        /\ d.spans[y.w.span].session = k /\ d.spans[y.w.span].entered = t
    <3>1. z.db.spans = d.spans /\ z.w.session = k /\ y.db = e /\ n = Len(d.spans)
      BY <1>d, <1>1, <2>1
    <3>2. ~(\A i \in 1 .. n : ~(d.spans[i].session = k /\ d.spans[i].entered = t))
      BY <2>2, <2>3
    <3>3. /\ y.w.span \in 1 .. Len(z.db.spans) /\ y.db.spans = z.db.spans
          /\ z.db.spans[y.w.span].session = z.w.session /\ z.db.spans[y.w.span].entered = t
      BY <1>4, <3>1, <3>2 DEF SpanBegins
    <3> QED BY <3>1, <3>3
  <2>5. y.w.span = n
    <3>1. y.w.span < n => d.spans[y.w.span].entered < d.spans[n].entered
      BY <1>d, <1>s, <2>2, <2>4 DEF Spanned, Ascending
    <3> QED BY <1>0, <2>3, <2>4, <3>1
  <2>6. e.sessions = d.sessions
    BY <1>4, <1>7
  <2>7. Spanned(e)
    <3>1. Ascending(e) /\ Within(e) /\ NewestSpanned(e)
      BY <1>s, <2>4, <2>6 DEF Spanned, Ascending, Within, NewestSpanned
    <3>2. \A i \in 1 .. Len(e.spans) : Joined(e, i)
      BY <1>s, <2>4, <2>6 DEF Spanned, Joined
    <3> QED BY <3>1, <3>2 DEF Spanned
  <2>8. NotReopened(e) /\ EnteredIn(e, E)
    BY <1>s, <2>4, <2>6 DEF NotReopened, EnteredIn
  <2>9. y.w.session # NoId /\ y.w.span = Len(e.spans) /\ y.w.span # NoId
    BY <1>d, <1>3, <1>4, <2>2, <2>4, <2>5 DEF NoId
  <2> QED BY <1>d, <2>7, <2>8, <2>9
<1> QED BY <1>1, <1>d, <1>6, <1>7 DEF SessionBegins

(* The Writer has just opened a span, the newest.                          *)
Entered(y, E) ==
  /\ Spanned(y.db) /\ EnteredIn(y.db, E)
  /\ y.w.session # NoId /\ y.w.span = Len(y.db.spans) /\ y.w.span # NoId

Later(t, E) == \A v \in E : v < t

(* x may take an entry at t, later than all in E or the first line after a *)
(* restart; F are the seconds with the entry's.                            *)
Ready(x, t, E, F) ==
  /\ t \in Nat \ {0} /\ t \in F /\ E \subseteq F
  /\ Sound(x, t, F) /\ InItsSession(x)
  /\ Spanned(x.db) /\ EnteredIn(x.db, E) /\ Follows(x)
  /\ Later(t, E) \/ x.w.last = NoTs

(* The Writer's span is closed at t, and one of the same session opened.   *)
LEMMA ContinuesSpanned ==
  ASSUME NEW t, NEW E, NEW F, NEW x, Ready(x, t, E, F), x.w.session # NoId,
         NEW next, NEW z, z = closeSpan(x, t, next), NEW area, NEW y, y = openSpan(z, t, area)
  PROVE  Entered(y, F) /\ (Later(t, E) => NotReopened(y.db))
<1>r. /\ t \in Nat \ {0} /\ t \in F /\ E \subseteq F
      /\ Sound(x, t, F) /\ InItsSession(x)
      /\ Spanned(x.db) /\ EnteredIn(x.db, E) /\ Follows(x)
      /\ Later(t, E) \/ x.w.last = NoTs
  BY DEF Ready
<1> USE <1>r
<1>d. PICK d, c, e, n, k : /\ d = x.db /\ c = z.db /\ e = y.db
                           /\ n = Len(d.spans) /\ k = Len(d.sessions)
  OBVIOUS
<1>0. n \in Nat /\ k \in Nat
  BY <1>d, Lengths DEF Sound, Formed
<1>1. /\ x.w.session = k /\ x.w.span = n /\ n # 0 /\ n \in 1 .. n /\ d.spans[n].session = k
  <2>1. x.w.session = k /\ x.w.span = n /\ n # 0
    BY <1>d DEF Sound, Located, Follows, NoId
  <2> QED BY <1>0, <1>d, <2>1 DEF InItsSession, NoId
<1>2. /\ Formed(z) /\ SpanEnds(x, z, t)
      /\ c.sessions = d.sessions /\ z.w.session = k
  BY <1>1, <1>d, CloseSpanDoes DEF Sound, Located, NoTs
<1>3. /\ Len(c.spans) = n
      /\ \A i \in 1 .. n : /\ c.spans[i].session = d.spans[i].session
                           /\ c.spans[i].entered = d.spans[i].entered
                           /\ c.spans[i].exited = IF i = n THEN t ELSE d.spans[i].exited
  BY <1>1, <1>2, <1>d DEF SpanEnds
<1>4. z.w.session # NoId /\ k \in 1 .. k
  BY <1>0, <1>1, <1>2 DEF NoId
<1>5. SpanBegins(z, y, t) /\ e.sessions = d.sessions /\ y.w.session = k
  BY <1>2, <1>4, <1>d, OpenSpanDoes
<1>6. /\ \A i \in 1 .. n : /\ d.spans[i].session \in 1 .. k
                           /\ d.spans[i].entered \in 1 .. t /\ d.spans[i].exited \in 0 .. t
      /\ d.sessions[k].start \in 1 .. t
  BY <1>d, <1>4 DEF Sound, Times
<1>7. Ascending(c) /\ Within(c) /\ NewestSpanned(c)
  <2>1. Ascending(c)
    <3>1. Ascending(d)
      BY <1>d DEF Spanned
    <3>2. ASSUME NEW i \in 1 .. n, NEW j \in 1 .. n, i < j
          PROVE  /\ c.spans[i].session <= c.spans[j].session
                 /\ c.spans[i].session = c.spans[j].session => c.spans[i].entered < c.spans[j].entered
      <4>1. /\ d.spans[i].session <= d.spans[j].session
            /\ d.spans[i].session = d.spans[j].session => d.spans[i].entered < d.spans[j].entered
        BY <1>d, <3>1, <3>2 DEF Ascending
      <4> QED BY <1>3, <4>1
    <3> QED BY <1>3, <3>2 DEF Ascending
  <2>2. ASSUME NEW i \in 1 .. n
        PROVE  /\ c.spans[i].entered >= c.sessions[c.spans[i].session].start
               /\ c.spans[i].exited = NoTs \/ c.spans[i].exited >= c.spans[i].entered
    <3>1. /\ d.spans[i].entered >= d.sessions[d.spans[i].session].start
          /\ d.spans[i].exited = NoTs \/ d.spans[i].exited >= d.spans[i].entered
      BY <1>d DEF Spanned, Within
    <3>2. t >= d.spans[i].entered
      BY <1>6
    <3> QED BY <1>2, <1>3, <3>1, <3>2
  <2>3. NewestSpanned(c)
    BY <1>1, <1>2, <1>3, <1>d DEF NewestSpanned
  <2> QED BY <1>3, <2>1, <2>2, <2>3 DEF Within
<1>8. ASSUME NEW i \in 1 .. n, i < n PROVE Joined(c, i)
  <2>1. i + 1 \in 1 .. n /\ i # n
    BY <1>0, <1>8
  <2>2. /\ c.spans[i].session = d.spans[i].session /\ c.spans[i].exited = d.spans[i].exited
        /\ c.spans[i + 1].session = d.spans[i + 1].session
        /\ c.spans[i + 1].entered = d.spans[i + 1].entered
    BY <1>3, <2>1
  <2>3. Joined(d, i)
    BY <1>d DEF Spanned
  <2> QED BY <1>2, <1>3, <1>8, <1>d, <2>1, <2>2, <2>3 DEF Joined
<1>e. \A i \in 1 .. n : d.spans[i].entered \in F
  <2>1. \A i \in 1 .. n : d.spans[i].entered \in E
    BY <1>d DEF EnteredIn
  <2> QED BY <2>1
<1>9. CASE /\ \A i \in 1 .. n : ~(c.spans[i].session = k /\ c.spans[i].entered = t)
           /\ y.w.span = n + 1 /\ Len(e.spans) = n + 1
           /\ \A i \in 1 .. n : e.spans[i] = c.spans[i]
           /\ e.spans[y.w.span].session = k
           /\ e.spans[y.w.span].entered = t /\ e.spans[y.w.span].exited = NoTs
  <2>1. Spanned(e) /\ NotReopened(e)
    <3>1. \A i \in 1 .. n : /\ c.spans[i].session \in 1 .. k
                            /\ c.spans[i].entered \in Nat /\ c.spans[i].exited \in Nat
      <4>1. ASSUME NEW i \in 1 .. n
            PROVE  /\ c.spans[i].session \in 1 .. k
                   /\ c.spans[i].entered \in Nat /\ c.spans[i].exited \in Nat
        <5>1. d.spans[i].session \in 1 .. k /\ d.spans[i].entered \in Nat /\ d.spans[i].exited \in Nat
          BY <1>6
        <5> QED BY <1>3, <5>1
      <4> QED BY <4>1
    <3>2. PICK s \in {k, k + 1} : s = k
      OBVIOUS
    <3>3. c.spans[n].session = s /\ c.spans[n].exited = t /\ c.spans[n].entered < t
      <4>1. c.spans[n].entered \in 1 .. t /\ c.spans[n].entered # t
        BY <1>1, <1>3, <1>6, <1>9
      <4> QED BY <1>1, <1>3, <3>2, <4>1
    <3>4. n # 0 => \/ /\ c.spans[n].session = s /\ c.spans[n].exited = t
                      /\ c.spans[n].entered < t
                   \/ /\ c.spans[n].session < s
                      /\ \/ c.spans[n].exited = NoTs
                         \/ c.sessions[c.spans[n].session].end = c.spans[n].exited
      BY <3>3
    <3>5. /\ Len(e.sessions) = s /\ e.sessions[s].start <= t
          /\ Len(e.spans) = n + 1 /\ \A i \in 1 .. n : e.spans[i] = c.spans[i]
          /\ e.spans[n + 1].session = s /\ e.spans[n + 1].entered = t /\ e.spans[n + 1].exited = NoTs
      <4>1. e.sessions[k].start <= t
        BY <1>5, <1>6
      <4> QED BY <1>5, <1>9, <1>d, <3>2, <4>1
    <3>6. \A o \in 1 .. k : e.sessions[o] = c.sessions[o]
      BY <1>2, <1>5
    <3>7. t \in Nat /\ n = Len(c.spans) /\ k = Len(c.sessions)
      BY <1>2, <1>3, <1>d
    <3>8. \A i \in 1 .. n : i < n => Joined(c, i)
      BY <1>8
    <3>9. Ascending(c) /\ Within(c)
      BY <1>7
    <3>10. Appends(c, e, n, k, s, t)
      BY <1>0, <3>1, <3>2, <3>4, <3>5, <3>6, <3>7, <3>8, <3>9 DEF Appends
    <3> QED BY <3>10, AppendedSpan
  <2>2. EnteredIn(e, F)
    <3>1. \A i \in 1 .. n : e.spans[i].entered \in F
      BY <1>3, <1>9, <1>e
    <3>2. \A i \in 1 .. n + 1 : i \in 1 .. n \/ i = n + 1
      BY <1>0
    <3> QED BY <1>9, <3>1, <3>2 DEF EnteredIn
  <2>3. y.w.session # NoId /\ y.w.span = Len(e.spans) /\ y.w.span # NoId
    BY <1>0, <1>2, <1>4, <1>5, <1>9 DEF NoId
  <2> QED BY <1>d, <2>1, <2>2, <2>3 DEF Entered
<1>10. CASE /\ y.w.span \in 1 .. n /\ e.spans = c.spans
            /\ c.spans[y.w.span].session = k /\ c.spans[y.w.span].entered = t
  <2>1. d.spans[y.w.span].session = k /\ d.spans[y.w.span].entered = t
    BY <1>3, <1>10
  <2>2. x.w.last = NoTs /\ ~Later(t, E)
    <3>1. t \in E
      BY <1>10, <1>d, <2>1 DEF EnteredIn
    <3> QED BY <3>1 DEF Later
  <2>3. y.w.span = n
    <3>1. y.w.span < n => d.spans[y.w.span].entered < d.spans[n].entered
      BY <1>1, <1>10, <1>d, <2>1 DEF Spanned, Ascending
    <3>2. d.spans[n].entered <= t /\ d.spans[n].entered \in Nat
      BY <1>1, <1>6
    <3> QED BY <1>0, <1>10, <2>1, <3>1, <3>2
  <2>4. d.spans[n].entered = t /\ c.spans[n].entered = t /\ c.spans[n].exited = t
        /\ c.spans[n].session = k
    BY <1>1, <1>3, <2>1, <2>3
  <2>5. c.sessions[k].end = t \/ c.sessions[k].end = NoTs
    <3>1. CASE d.spans[n].exited = NoTs
      BY <1>1, <1>2, <1>4, <1>d, <2>2, <3>1 DEF Follows
    <3>2. CASE d.spans[n].exited # NoTs
      <4>1. d.spans[n].exited = t
        <5>1. d.spans[n].exited >= d.spans[n].entered
          BY <1>1, <1>d, <3>2 DEF Spanned, Within
        <5>2. d.spans[n].exited \in 0 .. t
          BY <1>1, <1>6
        <5> QED BY <2>4, <5>1, <5>2
      <4>2. Joined(d, n) /\ ~(n < n)
        BY <1>0, <1>1, <1>d DEF Spanned
      <4> QED BY <1>1, <1>2, <1>d, <3>2, <4>1, <4>2 DEF Joined
    <3> QED BY <3>1, <3>2
  <2>6. Joined(c, n)
    <3>1. ~(n < n)
      BY <1>0
    <3> QED BY <1>3, <2>4, <2>5, <3>1 DEF Joined
  <2>7. \A i \in 1 .. n : Joined(c, i)
    <3>1. \A i \in 1 .. n : i = n \/ i < n
      BY <1>0
    <3> QED BY <1>8, <2>6, <3>1
  <2>8. Spanned(c)
    BY <1>3, <1>7, <2>7 DEF Spanned
  <2>9. Spanned(e)
    <3>1. e.spans = c.spans /\ e.sessions = c.sessions
      BY <1>2, <1>5, <1>10
    <3>2. Ascending(e) /\ Within(e) /\ NewestSpanned(e)
      BY <2>8, <3>1 DEF Spanned, Ascending, Within, NewestSpanned
    <3>3. \A i \in 1 .. Len(e.spans) : Joined(e, i)
      BY <2>8, <3>1 DEF Spanned, Joined
    <3> QED BY <3>2, <3>3 DEF Spanned
  <2>10. EnteredIn(e, F)
    BY <1>3, <1>10, <1>e DEF EnteredIn
  <2>11. y.w.session # NoId /\ y.w.span = Len(e.spans) /\ y.w.span # NoId
    BY <1>1, <1>2, <1>3, <1>4, <1>5, <1>10, <2>3 DEF NoId
  <2> QED BY <1>d, <2>2, <2>9, <2>10, <2>11 DEF Entered
<1>11. Len(z.db.spans) = n /\ z.db = c /\ y.db = e
  BY <1>3, <1>d
<1> QED BY <1>2, <1>5, <1>9, <1>10, <1>11 DEF SpanBegins

LEMMA NothingUnended ==
  ASSUME NEW t \in Nat, NEW E, NEW x, Sound(x, t, E), Unended(x.db) = {}
  PROVE  NotReopened(x.db)
<1>0. /\ Len(x.db.spans) \in Nat /\ DOMAIN x.db.sessions = 1 .. Len(x.db.sessions) /\ Times(x.db, t)
  BY Lengths DEF Sound, Formed
<1>1. \A s \in 1 .. Len(x.db.sessions) : x.db.sessions[s].end # NoTs
  BY <1>0 DEF Unended
<1>2. Len(x.db.spans) # 0
        => x.db.spans[Len(x.db.spans)].session \in 1 .. Len(x.db.sessions)
  BY <1>0 DEF Times
<1> QED BY <1>1, <1>2 DEF NotReopened

LEMMA NoSessionNoSpan ==
  ASSUME NEW t \in Nat, NEW E, NEW x, Sound(x, t, E), InItsSession(x), x.w.session = NoId
  PROVE  x.w.span = NoId
<1> SUFFICES ASSUME x.w.span # NoId PROVE FALSE
  OBVIOUS
<1>1. x.w.span \in 1 .. Len(x.db.spans) /\ x.db.spans[x.w.span].session = NoId
  <2>1. x.w.span \in 0 .. Len(x.db.spans) /\ Len(x.db.spans) \in Nat
    BY Lengths DEF Sound, Formed, Located
  <2> QED BY <2>1 DEF InItsSession, NoId
<1>2. x.db.spans[x.w.span].session \in 1 .. Len(x.db.sessions)
  BY <1>1 DEF Sound, Times
<1> QED BY <1>1, <1>2 DEF NoId

LEMMA AreaEnteredTiled ==
  ASSUME NEW t, NEW E, NEW F, NEW x, Ready(x, t, E, F),
         NEW area, NEW y, y = handleAreaEntered(x, t, area)
  PROVE  Entered(y, F) /\ (Later(t, E) => NotReopened(y.db))
<1>r. /\ t \in Nat \ {0} /\ t \in F /\ E \subseteq F
      /\ Sound(x, t, F) /\ InItsSession(x)
      /\ Spanned(x.db) /\ EnteredIn(x.db, E) /\ Follows(x)
  BY DEF Ready
<1>f. PICK yes : yes = TRUE
  OBVIOUS
<1>1. CASE x.w.session # NoId
  <2>1. PICK z : z = closeSpan(x, t, yes)
    OBVIOUS
  <2>2. y = openSpan(z, t, area)
    <3>1. z = closeSpan(x, t, TRUE)
      BY <1>f, <2>1, Zenon
    <3> QED BY <1>1, <3>1 DEF handleAreaEntered, ensureSession
  <2> QED BY <1>1, <2>1, <2>2, ContinuesSpanned
<1>2. CASE x.w.session = NoId
  <2>1. Unended(x.db) = {}
    BY <1>2, <1>r DEF Follows
  <2>2. PICK z : z = beginSession(x, t)
    OBVIOUS
  <2>3. z.w.span = NoId
    BY <1>2, <1>r, <2>2, NoSessionNoSpan, BeginSessionDoes DEF Sound
  <2>4. y = openSpan(z, t, area)
    BY <1>2, <2>1, <2>2, <2>3 DEF handleAreaEntered, ensureSession, closeSpan
  <2>5. NotReopened(x.db) /\ EnteredIn(x.db, F)
    BY <1>r, <2>1, NothingUnended DEF EnteredIn
  <2> QED BY <1>r, <2>2, <2>4, <2>5, BeginsSpanned DEF Entered
<1> QED BY <1>1, <1>2

(* The Writer's session ends with its span.                                *)
LEMMA CloseSessionTiled ==
  ASSUME NEW t \in Nat, NEW E, NEW x, Sound(x, t, E), InItsSession(x), x.w.session # NoId,
         Spanned(x.db), EnteredIn(x.db, E), Follows(x),
         NEW end \in 1 .. t, end = x.w.last, NEW y, y = closeSession(x, end)
  PROVE  Spanned(y.db) /\ NotReopened(y.db) /\ EnteredIn(y.db, E)
<1>d. PICK d, e, n, k : d = x.db /\ e = y.db /\ n = Len(d.spans) /\ k = Len(d.sessions)
  OBVIOUS
<1>0. n \in Nat /\ k \in Nat
  BY <1>d, Lengths DEF Sound, Formed
<1>1. /\ x.w.session = k /\ k \in 1 .. k /\ x.w.span = n /\ n \in 1 .. n
      /\ d.spans[n].session = k /\ end >= d.spans[n].entered
  <2>1. x.w.session = k /\ x.w.span = n /\ n # 0 /\ k # 0
    BY <1>d DEF Sound, Located, Follows, NoId
  <2>2. d.spans[n].session = k
    BY <1>d, <2>1 DEF InItsSession, NoId
  <2>3. d.spans[n].entered <= end
    BY <1>d DEF Follows, NoTs
  <2>4. d.spans[n].entered \in 1 .. t
    BY <1>0, <1>d, <2>1 DEF Sound, Times
  <2> QED BY <1>0, <2>1, <2>2, <2>3, <2>4
<1>2. /\ Len(e.spans) = n
      /\ \A i \in 1 .. n : /\ e.spans[i].session = d.spans[i].session
                           /\ e.spans[i].entered = d.spans[i].entered
                           /\ e.spans[i].exited = IF i = n THEN end ELSE d.spans[i].exited
      /\ Len(e.sessions) = k
      /\ \A s \in 1 .. k : /\ e.sessions[s].start = d.sessions[s].start
                           /\ e.sessions[s].end = IF s = k THEN end ELSE d.sessions[s].end
  <2>1. SpanEnds(x, y, end) /\ SessionEnds(x, y, end)
    BY <1>1, <1>d, CloseSessionDoes DEF Sound, Located, NoTs
  <2>2. /\ Len(e.spans) = n
        /\ \A i \in 1 .. n : /\ e.spans[i].session = d.spans[i].session
                             /\ e.spans[i].entered = d.spans[i].entered
                             /\ e.spans[i].exited = IF i = n THEN end ELSE d.spans[i].exited
    <3>1. x.w.span = n /\ y.db = e /\ x.db = d
      BY <1>1, <1>d
    <3>2. /\ Len(y.db.spans) = Len(x.db.spans)
          /\ \A i \in 1 .. Len(x.db.spans) :
               /\ y.db.spans[i].session = x.db.spans[i].session
               /\ y.db.spans[i].entered = x.db.spans[i].entered
               /\ y.db.spans[i].exited = IF i = x.w.span THEN end ELSE x.db.spans[i].exited
      BY <2>1 DEF SpanEnds
    <3> QED BY <1>d, <3>1, <3>2
  <2>3. /\ Len(e.sessions) = k
        /\ \A s \in 1 .. k : /\ e.sessions[s].start = d.sessions[s].start
                             /\ e.sessions[s].end = IF s = k THEN end ELSE d.sessions[s].end
    BY <1>1, <1>d, <2>1 DEF SessionEnds
  <2> QED BY <2>2, <2>3
<1>3. \A i \in 1 .. n : d.spans[i].session \in 1 .. k
  BY <1>d DEF Sound, Times
<1>4. Ascending(e)
  <2>1. Ascending(d)
    BY <1>d DEF Spanned
  <2>2. ASSUME NEW i \in 1 .. n, NEW j \in 1 .. n, i < j
        PROVE  /\ e.spans[i].session <= e.spans[j].session
               /\ e.spans[i].session = e.spans[j].session => e.spans[i].entered < e.spans[j].entered
    <3>1. /\ d.spans[i].session <= d.spans[j].session
          /\ d.spans[i].session = d.spans[j].session => d.spans[i].entered < d.spans[j].entered
      BY <1>d, <2>1, <2>2 DEF Ascending
    <3> QED BY <1>2, <3>1
  <2> QED BY <1>2, <2>2 DEF Ascending
<1>5. Within(e)
  <2>1. ASSUME NEW i \in 1 .. n
        PROVE  /\ e.spans[i].entered >= e.sessions[e.spans[i].session].start
               /\ e.spans[i].exited = NoTs \/ e.spans[i].exited >= e.spans[i].entered
    <3>1. /\ d.spans[i].entered >= d.sessions[d.spans[i].session].start
          /\ d.spans[i].exited = NoTs \/ d.spans[i].exited >= d.spans[i].entered
      BY <1>d DEF Spanned, Within
    <3>2. e.sessions[e.spans[i].session].start = d.sessions[d.spans[i].session].start
      BY <1>2, <1>3
    <3>3. CASE i = n
      BY <1>1, <1>2, <3>1, <3>2, <3>3
    <3>4. CASE i # n
      BY <1>2, <3>1, <3>2, <3>4
    <3> QED BY <3>3, <3>4
  <2> QED BY <1>2, <2>1 DEF Within
<1>6. NewestSpanned(e)
  BY <1>1, <1>2 DEF NewestSpanned
<1>7. ASSUME NEW i \in 1 .. n PROVE Joined(e, i)
  <2>1. CASE i = n
    <3>1. ~(n < n) /\ e.spans[n].exited = end /\ e.sessions[e.spans[n].session].end = end
      BY <1>0, <1>1, <1>2
    <3> QED BY <1>2, <2>1, <3>1 DEF Joined
  <2>2. CASE i # n
    <3>1. i + 1 \in 1 .. n /\ i < n /\ i < i + 1
      BY <1>0, <2>2
    <3>2. /\ e.spans[i].session = d.spans[i].session /\ e.spans[i].exited = d.spans[i].exited
          /\ e.spans[i + 1].session = d.spans[i + 1].session
          /\ e.spans[i + 1].entered = d.spans[i + 1].entered
      BY <1>2, <2>2, <3>1
    <3>3. IF d.spans[i + 1].session = d.spans[i].session
            THEN d.spans[i].exited = d.spans[i + 1].entered
            ELSE \/ d.spans[i].exited = NoTs
                 \/ d.sessions[d.spans[i].session].end = d.spans[i].exited
      <4>1. Joined(d, i)
        BY <1>d DEF Spanned
      <4> QED BY <1>d, <2>2, <3>1, <4>1 DEF Joined
    <3>4. CASE d.spans[i + 1].session = d.spans[i].session
      BY <1>2, <3>1, <3>2, <3>3, <3>4 DEF Joined
    <3>5. CASE d.spans[i + 1].session # d.spans[i].session
      <4>1. d.spans[i].session <= d.spans[i + 1].session
        BY <1>d, <3>1 DEF Spanned, Ascending
      <4>2. d.spans[i].session \in 1 .. k /\ d.spans[i + 1].session \in 1 .. k
        BY <1>3, <3>1
      <4>3. d.spans[i].session # k
        BY <1>0, <3>5, <4>1, <4>2
      <4>4. e.sessions[d.spans[i].session].end = d.sessions[d.spans[i].session].end
        BY <1>2, <4>2, <4>3
      <4> QED BY <1>2, <3>1, <3>2, <3>3, <3>5, <4>4 DEF Joined
    <3> QED BY <3>4, <3>5
  <2> QED BY <2>1, <2>2
<1>8. Spanned(e)
  BY <1>2, <1>4, <1>5, <1>6, <1>7 DEF Spanned
<1>9. NotReopened(e)
  BY <1>1, <1>2 DEF NotReopened, NoTs
<1>10. EnteredIn(e, E)
  <2>1. EnteredIn(d, E)
    BY <1>d
  <2>2. ASSUME NEW i \in 1 .. n PROVE e.spans[i].entered \in E
    <3>1. d.spans[i].entered \in E
      BY <1>d, <2>1 DEF EnteredIn
    <3> QED BY <1>2, <3>1
  <2> QED BY <1>2, <2>2 DEF EnteredIn
<1> QED BY <1>d, <1>8, <1>9, <1>10

LEMMA SessionStartTiled ==
  ASSUME NEW t \in Nat \ {0}, NEW E, t \in E, NEW x, Sound(x, t, E), InItsSession(x),
         Spanned(x.db), EnteredIn(x.db, E), Follows(x), x.w.last = NoTs => NotReopened(x.db),
         NEW y, y = handleSessionStart(x, t)
  PROVE  Entered(y, E) /\ NotReopened(y.db)
<1>1. PICK end \in 0 .. t : end = x.w.last
  BY DEF Sound, Located
<1>2. PICK v : v = closeSession(x, end)
  OBVIOUS
<1>3. PICK z : z = beginSession(v, t)
  OBVIOUS
<1>4. y = openSpan(z, t, None)
  BY <1>1, <1>2, <1>3 DEF handleSessionStart
<1>5. Sound(v, t, E) /\ (x.w.session = NoId \/ end = NoTs => v = x)
  BY <1>2, CloseSessionSound
<1>6. Spanned(v.db) /\ NotReopened(v.db) /\ EnteredIn(v.db, E)
  <2>1. CASE end = NoTs
    BY <1>1, <1>5, <2>1
  <2>2. CASE x.w.session = NoId
    <3>1. Unended(x.db) = {}
      BY <2>2 DEF Follows
    <3> QED BY <1>5, <2>2, <3>1, NothingUnended
  <2>3. CASE end # NoTs /\ x.w.session # NoId
    <3>1. end \in 1 .. t
      BY <2>3 DEF NoTs
    <3> QED BY <1>1, <1>2, <2>3, <3>1, CloseSessionTiled
  <2> QED BY <2>1, <2>2, <2>3
<1> QED BY <1>3, <1>4, <1>5, <1>6, BeginsSpanned DEF Entered

LEMMA LastKnownLater ==
  ASSUME NEW t \in Nat, NEW E, NEW x, Sound(x, t, E), NEW i \in 1 .. Len(x.db.spans),
         x.db.spans[i].exited = NoTs
  PROVE  x.db.spans[i].entered <= LastKnown(x.db, x.db.spans[i].session)
<1>1. PICK d, s, m : d = x.db /\ s = d.spans[i].session /\ m = d.spans[i].entered
  OBVIOUS
<1>2. /\ Times(d, t) /\ DOMAIN d.spans = 1 .. Len(d.spans) /\ s \in 1 .. Len(d.sessions)
  BY <1>1, Lengths DEF Sound, Formed, Times
<1> DEFINE J == {j \in DOMAIN d.spans : d.spans[j].session = s}
           R == {d.spans[j] : j \in J}
           S == {d.sessions[s].start} \cup {IF sp.exited = NoTs THEN sp.entered ELSE sp.exited : sp \in R}
<1>3. d.sessions[s].start \in 0 .. t
  <2>1. d.sessions[s].start \in 1 .. t
    BY <1>2 DEF Times
  <2> QED BY <2>1
<1>4. ASSUME NEW j \in J
      PROVE  (IF d.spans[j].exited = NoTs THEN d.spans[j].entered ELSE d.spans[j].exited) \in 0 .. t
  <2>1. d.spans[j].entered \in 1 .. t /\ d.spans[j].exited \in 0 .. t
    BY <1>2 DEF Times
  <2>2. d.spans[j].entered \in 0 .. t
    BY <2>1
  <2> QED BY <2>1, <2>2
<1>5. m \in S
  <2>1. i \in J /\ d.spans[i].exited = NoTs
    BY <1>1, <1>2
  <2>2. m = IF d.spans[i].exited = NoTs THEN d.spans[i].entered ELSE d.spans[i].exited
    BY <1>1, <2>1
  <2> HIDE DEF J
  <2> QED BY <2>1, <2>2
<1>6. S # {} /\ S \subseteq 0 .. t
  <2> HIDE DEF J
  <2> QED BY <1>3, <1>4, <1>5
<1>7. m <= Max(S)
  <2> HIDE DEF S
  <2> QED BY <1>5, <1>6, MaxOfNaturals
<1>8. LastKnown(d, s) = Max(S)
  BY DEF LastKnown, Last
<1> QED BY <1>1, <1>7, <1>8

LEMMA CloseOrphansTiled ==
  ASSUME NEW t \in Nat, NEW E, NEW x, Sound(x, t, E), InItsSession(x),
         Spanned(x.db), EnteredIn(x.db, E), Follows(x),
         NEW y, y = [db |-> CloseOrphans(x.db), w |-> x.w]
  PROVE  Spanned(y.db) /\ EnteredIn(y.db, E) /\ Follows(y) /\ NotReopened(y.db)
<1>d. PICK d, e, n, k, U : /\ d = x.db /\ e = y.db /\ n = Len(d.spans) /\ k = Len(d.sessions)
                           /\ U = Unended(d)
  OBVIOUS
<1>0. /\ n \in Nat /\ k \in Nat /\ DOMAIN d.sessions = 1 .. k
      /\ Rows(d) /\ Times(d, t) /\ Spanned(d)
  BY <1>d, Lengths DEF Sound, Formed
<1>1. /\ Len(e.sessions) = k /\ Len(e.spans) = n /\ y.w = x.w
      /\ \A s \in 1 .. k :
           /\ e.sessions[s].start = d.sessions[s].start
           /\ e.sessions[s].end = IF s \in U THEN LastKnown(d, s) ELSE d.sessions[s].end
      /\ \A i \in 1 .. n :
           /\ e.spans[i].session = d.spans[i].session
           /\ e.spans[i].entered = d.spans[i].entered
           /\ e.spans[i].exited =
                IF /\ d.spans[i].session \in U /\ d.spans[i].exited = NoTs
                   /\ i = orphanSpan(d, d.spans[i].session)
                  THEN LastKnown(d, d.spans[i].session) ELSE d.spans[i].exited
  <2>1. SweepEnds(x, y) /\ y.w = x.w
    BY CloseOrphansDoes DEF Sound
  <2> QED BY <1>d, <2>1 DEF SweepEnds
<1>2. Sound(y, t, E) /\ Unended(e) = {} /\ NotReopened(e)
  <2>1. Sound(y, t, E) /\ Unended(y.db) = {}
    BY CloseOrphansSound
  <2> QED BY <1>d, <2>1, NothingUnended
<1>3. /\ \A i \in 1 .. n : /\ d.spans[i].session \in 1 .. k
                           /\ d.spans[i].entered \in 1 .. t /\ d.spans[i].exited \in 0 .. t
      /\ \A s \in U : s \in 1 .. k /\ d.sessions[s].end = NoTs
  BY <1>0, <1>d DEF Times, Unended
<1>4. Ascending(e)
  <2>1. Ascending(d)
    BY <1>0 DEF Spanned
  <2>2. ASSUME NEW i \in 1 .. n, NEW j \in 1 .. n, i < j
        PROVE  /\ e.spans[i].session <= e.spans[j].session
               /\ e.spans[i].session = e.spans[j].session => e.spans[i].entered < e.spans[j].entered
    <3>1. /\ d.spans[i].session <= d.spans[j].session
          /\ d.spans[i].session = d.spans[j].session => d.spans[i].entered < d.spans[j].entered
      BY <1>d, <2>1, <2>2 DEF Ascending
    <3> QED BY <1>1, <3>1
  <2> QED BY <1>1, <2>2 DEF Ascending
<1>5. Within(e)
  <2>1. ASSUME NEW i \in 1 .. n
        PROVE  /\ e.spans[i].entered >= e.sessions[e.spans[i].session].start
               /\ e.spans[i].exited = NoTs \/ e.spans[i].exited >= e.spans[i].entered
    <3>1. /\ d.spans[i].entered >= d.sessions[d.spans[i].session].start
          /\ d.spans[i].exited = NoTs \/ d.spans[i].exited >= d.spans[i].entered
      BY <1>0, <1>d DEF Spanned, Within
    <3>2. e.sessions[e.spans[i].session].start = d.sessions[d.spans[i].session].start
      BY <1>1, <1>3
    <3>3. CASE e.spans[i].exited = d.spans[i].exited
      BY <1>1, <3>1, <3>2, <3>3
    <3>4. CASE d.spans[i].exited = NoTs /\ e.spans[i].exited = LastKnown(d, d.spans[i].session)
      <4>1. d.spans[i].entered <= LastKnown(d, d.spans[i].session)
        BY <1>d, <3>4, LastKnownLater
      <4>2. e.spans[i].entered = d.spans[i].entered /\ e.spans[i].entered <= e.spans[i].exited
        BY <1>1, <3>4, <4>1
      <4>3. e.spans[i].entered \in Nat /\ e.spans[i].exited \in Nat
        <5>1. e.spans[i].exited \in 0 .. t /\ e.spans[i].entered \in 1 .. t
          BY <1>1, <1>2, <1>d DEF Sound, Times
        <5> QED BY <5>1
      <4> QED BY <1>1, <3>1, <3>2, <4>2, <4>3
    <3> QED BY <1>1, <3>3, <3>4
  <2> QED BY <1>1, <2>1 DEF Within
<1>6. NewestSpanned(e)
  <2>1. NewestSpanned(d)
    BY <1>0 DEF Spanned
  <2>2. n # 0 => n \in 1 .. n
    BY <1>0
  <2> QED BY <1>1, <1>d, <2>1, <2>2 DEF NewestSpanned
<1>7. ASSUME NEW i \in 1 .. n PROVE Joined(e, i)
  <2>1. Joined(d, i)
    BY <1>0, <1>d DEF Spanned
  <2>2. CASE i < n /\ d.spans[i + 1].session = d.spans[i].session
    <3>1. i + 1 \in 1 .. n
      BY <1>0, <2>2
    <3>2. d.spans[i].exited = d.spans[i + 1].entered /\ d.spans[i].exited # NoTs
      BY <1>3, <1>d, <2>1, <2>2, <3>1 DEF Joined, NoTs
    <3>3. e.spans[i].exited = d.spans[i].exited
      BY <1>1, <3>2
    <3>4. /\ e.spans[i + 1].session = e.spans[i].session
          /\ e.spans[i].exited = e.spans[i + 1].entered
      BY <1>1, <2>2, <3>1, <3>2, <3>3
    <3> QED BY <1>1, <2>2, <3>4 DEF Joined
  <2>3. CASE ~(i < n /\ d.spans[i + 1].session = d.spans[i].session)
    <3>1. \/ d.spans[i].exited = NoTs
          \/ d.sessions[d.spans[i].session].end = d.spans[i].exited
          \/ /\ i = n /\ d.sessions[d.spans[i].session].end = NoTs
             /\ d.spans[i].exited = d.spans[i].entered
      BY <1>d, <2>1, <2>3 DEF Joined
    <3>2. ~(i < n /\ e.spans[i + 1].session = e.spans[i].session)
      <4>1. i < n => i + 1 \in 1 .. n
        BY <1>0
      <4> QED BY <1>1, <2>3, <4>1
    <3>3. \/ e.spans[i].exited = NoTs
          \/ e.sessions[e.spans[i].session].end = e.spans[i].exited
      <4>1. CASE d.spans[i].exited = NoTs
        BY <1>1, <1>3, <4>1
      <4>2. CASE d.spans[i].exited # NoTs /\ d.sessions[d.spans[i].session].end = d.spans[i].exited
        <5>1. d.spans[i].session \notin U /\ d.spans[i].session \in 1 .. k
          BY <1>3, <4>2
        <5> QED BY <1>1, <4>2, <5>1
      <4>3. CASE /\ d.spans[i].exited # NoTs
                 /\ i = n /\ d.sessions[d.spans[i].session].end = NoTs
                 /\ d.spans[i].exited = d.spans[i].entered
        <5>1. d.spans[i].session \in U /\ d.spans[i].session \in 1 .. k
          BY <1>0, <1>3, <1>d, <4>3 DEF Unended
        <5>2. LastKnown(d, d.spans[i].session) = d.spans[i].exited
          BY <1>d, <4>3, LastActive
        <5> QED BY <1>1, <4>3, <5>1, <5>2
      <4> QED BY <3>1, <4>1, <4>2, <4>3
    <3> QED BY <1>1, <3>2, <3>3 DEF Joined
  <2> QED BY <2>2, <2>3
<1>8. Spanned(e)
  BY <1>1, <1>4, <1>5, <1>6, <1>7 DEF Spanned
<1>9. EnteredIn(e, E)
  <2>1. \A i \in 1 .. n : d.spans[i].entered \in E
    BY <1>d DEF EnteredIn
  <2> QED BY <1>1, <2>1 DEF EnteredIn
<1>10. ASSUME x.w.session # NoId
       PROVE  /\ x.w.span = n /\ n # 0 /\ n \in 1 .. n /\ d.spans[n].session = x.w.session
              /\ x.w.session = k
  BY <1>0, <1>10, <1>d DEF Follows, InItsSession, Sound, Located, NoId
<1>11. ASSUME x.w.session # NoId, x.w.last = NoTs PROVE e.spans[n].exited # NoTs
  <2>1. CASE d.spans[n].exited # NoTs
    BY <1>1, <1>10, <1>11, <2>1
  <2>2. CASE d.spans[n].exited = NoTs
    <3>1. d.sessions[k].end = NoTs /\ k \in 1 .. k
      BY <1>3, <1>10, <1>11, <1>d, <2>2 DEF Follows
    <3>2. d.spans[n].session \in U
      BY <1>0, <1>10, <1>11, <1>d, <3>1 DEF Unended
    <3>3. n = orphanSpan(d, d.spans[n].session)
      BY <1>0, <1>10, <1>11, <1>d, <2>2, OnlyOpen
    <3>4. e.spans[n].exited = LastKnown(d, d.spans[n].session)
      BY <1>1, <1>10, <1>11, <2>2, <3>2, <3>3
    <3>5. LastKnown(d, k) \in 1 .. t
      BY <1>d, <3>1, LastKnownSound
    <3> QED BY <1>10, <1>11, <3>4, <3>5 DEF NoTs
  <2> QED BY <2>1, <2>2
<1>12. Follows(y)
  <2>1. x.w.session # NoId /\ x.w.last # NoTs => e.spans[n].entered <= x.w.last
    <3>1. SUFFICES ASSUME x.w.session # NoId, x.w.last # NoTs
                   PROVE  e.spans[n].entered <= x.w.last
      OBVIOUS
    <3>2. d.spans[n].entered <= x.w.last
      BY <1>d, <3>1 DEF Follows
    <3> QED BY <1>1, <1>10, <3>1, <3>2
  <2> QED BY <1>1, <1>2, <1>10, <1>11, <1>d, <2>1 DEF Follows
<1> QED BY <1>2, <1>8, <1>9, <1>12, <1>d

(* A new Writer goes on in the session and the span that are open.         *)
LEMMA ResumedFollows ==
  ASSUME NEW t \in Nat, NEW E, NEW d, Sound([db |-> d, w |-> NoWriter], t, E), NewestOpen(d),
         Spanned(d), NotReopened(d), NEW y, y = [db |-> d, w |-> NewWriter(d)]
  PROVE  Follows(y)
<1>d. PICK x, n, k, U : /\ x = [db |-> d, w |-> NoWriter] /\ n = Len(d.spans)
                        /\ k = Len(d.sessions) /\ U = Unended(d)
  OBVIOUS
<1>0. /\ n \in Nat /\ Rows(d) /\ Times(d, t) /\ x.db = d /\ Sound(x, t, E)
      /\ y.db = d /\ y.w = NewWriter(d)
  BY <1>d, Lengths DEF Sound, Formed
<1>1. CASE U = {}
  <2>1. y.w.session = NoId
    BY <1>0, <1>1, <1>d DEF NewWriter, NoWriter
  <2> QED BY <1>0, <1>1, <1>d, <2>1 DEF Follows
<1>2. CASE U # {}
  <2>1. Newest(d, U) = k /\ k \in 1 .. k /\ d.sessions[k].end = NoTs
    <3>1. /\ Newest(x.db, Unended(x.db)) = Len(x.db.sessions)
          /\ Len(x.db.sessions) \in 1 .. Len(x.db.sessions)
          /\ x.db.sessions[Len(x.db.sessions)].end = NoTs
      BY <1>0, <1>2, <1>d, NewestIsLast
    <3> QED BY <1>0, <1>d, <3>1
  <2>2. n # 0 /\ n \in 1 .. n /\ d.spans[n].session = k /\ d.spans[n].exited = NoTs
    <3>1. n # 0 /\ d.spans[n].session = k
      BY <1>d, <2>1 DEF Spanned, NewestSpanned
    <3> QED BY <1>0, <1>d, <2>1, <3>1 DEF NotReopened
  <2>3. OpenSpans(d, k) = {n}
    <3>1. OpenSpans(d, d.spans[n].session) = {n}
      BY <1>0, <1>d, <2>2, OpenOfNewest
    <3> QED BY <2>2, <3>1
  <2>4. (CHOOSE i \in {n} : \A j \in {n} : d.spans[j].entered <= d.spans[i].entered) = n
    <3>1. d.spans[n].entered <= d.spans[n].entered
      BY <1>0, <1>d, <2>2 DEF Times
    <3> QED BY <3>1
  <2>5. NewWriter(d) = [NoWriter EXCEPT !.session = k, !.span = n]
    <3>1. {n} # {}
      OBVIOUS
    <3> QED BY <1>2, <1>d, <2>1, <2>3, <2>4, <3>1 DEF NewWriter
  <2>6. y.w.session = k /\ y.w.span = n /\ y.w.last = NoTs
    BY <1>0, <2>5 DEF NoWriter
  <2>7. k # NoId /\ n # NoId
    BY <2>1, <2>2 DEF NoId
  <2> QED BY <1>0, <1>d, <2>1, <2>6, <2>7 DEF Follows
<1> QED BY <1>1, <1>2

-----------------------------------------------------------------------------
(* The invariant of the spans, when loading an area takes a second at      *)
(* least.  A line that is read again may leave a span closed and reopened, *)
(* which a second restart would take for ended: a restart reads a line     *)
(* again at most once.                                                     *)

Apart == ~SameSecond /\ (1 \notin Rereads \/ MaxRestarts <= 1)

Repeats == 1 \in Rereads /\ restarts > 0

Tiled ==
  /\ Spanned(db) /\ EnteredIn(db, EntryTimes) /\ Follows(Here)
  /\ Spanned(saved) /\ EnteredIn(saved, EntryTimes)
  /\ ~Repeats \/ w.last = NoTs => NotReopened(db)
  /\ ~Repeats => NotReopened(saved) /\ todo = <<>>
  /\ restarts \in Nat

LEMMA InitTiled == ASSUME Init PROVE Tiled
<1> USE DEF Init
<1>1. /\ db.sessions = <<>> /\ db.spans = <<>> /\ Len(db.sessions) = 0 /\ Len(db.spans) = 0
      /\ saved = db /\ Here.db = db /\ Here.w = NoWriter
  BY DEF Here
<1>2. Spanned(db) /\ EnteredIn(db, EntryTimes) /\ NotReopened(db)
  BY <1>1 DEF Spanned, Ascending, Within, NewestSpanned, EnteredIn, NotReopened
<1>3. Follows(Here)
  BY <1>1 DEF Follows, Unended, NoWriter
<1> QED BY <1>1, <1>2, <1>3 DEF Tiled

(* Where the Writer is in the tables, whatever its last line.              *)
InNewest(x) ==
  /\ x.w.session # NoId => x.w.span = Len(x.db.spans) /\ x.w.span # NoId
  /\ Unended(x.db) # {} => x.w.session # NoId

LEMMA StaysTiled ==
  ASSUME Inv, Tiled, NEW l \in NextLines, Reads(l), UNCHANGED <<db, w, saved, restarts>>
  PROVE  Tiled'
<1>1. todo' = <<>> /\ EntryTimes \subseteq EntryTimes'
  BY ReadsLine DEF Inv
<1>2. /\ Repeats' = Repeats /\ Here' = Here
      /\ EnteredIn(db', EntryTimes') /\ EnteredIn(saved', EntryTimes')
  BY <1>1 DEF Tiled, Repeats, Here, EnteredIn
<1> QED BY <1>1, <1>2 DEF Tiled

(* A line that makes x of the tables and the Writer.                       *)
LEMMA LineTiled ==
  ASSUME Inv, Inv', Tiled, NEW l \in NextLines, Reads(l), NEW x, Makes(x, l),
         Spanned(x.db), EnteredIn(x.db, EntryTimes'), InNewest(x), ~Repeats => NotReopened(x.db)
  PROVE  Tiled'
<1>1. /\ l.ts \in Nat \ {0} /\ Now' = l.ts /\ todo' = <<>> /\ EntryTimes \subseteq EntryTimes'
      /\ db' = x.db /\ w' = [x.w EXCEPT !.last = l.ts] /\ UNCHANGED <<saved, restarts>>
  BY ReadsLine DEF Inv, Makes
<1>2. /\ Repeats' = Repeats /\ restarts' \in Nat
      /\ Spanned(saved') /\ EnteredIn(saved', EntryTimes')
      /\ ~Repeats' => NotReopened(saved') /\ todo' = <<>>
  BY <1>1 DEF Tiled, Repeats, EnteredIn
<1>3. Here'.db = db' /\ Here'.w = w'
  BY DEF Here
<1>4. w'.last = l.ts /\ w'.session = x.w.session /\ w'.span = x.w.span
  <2>1. w' = [session |-> w'.session, start |-> w'.start, afk |-> w'.afk, away |-> w'.away,
              span |-> w'.span, spanAfk |-> w'.spanAfk, queue |-> w'.queue, last |-> w'.last]
    BY <1>3 DEF Inv, Sound, Formed, Pair
  <2>2. DOMAIN w' = DOMAIN x.w
    BY <1>1
  <2>3. {"last", "session", "span"} \subseteq DOMAIN x.w
    BY <2>1, <2>2
  <2> QED BY <1>1, <2>3
<1>5. w'.last # NoTs
  BY <1>1, <1>4 DEF NoTs
<1>6. Follows(Here')
  <2>1. ASSUME w'.session # NoId PROVE db'.spans[Len(db'.spans)].entered <= w'.last
    <3>1. Len(db'.spans) # 0
      BY <1>1, <1>4, <2>1 DEF InNewest, NoId
    <3>2. Len(db'.spans) \in Nat /\ Times(db', l.ts)
      BY <1>1, <1>3, Lengths DEF Inv, Sound, Formed
    <3>3. db'.spans[Len(db'.spans)].entered \in 1 .. l.ts
      BY <3>1, <3>2 DEF Times
    <3> QED BY <1>1, <1>4, <3>3
  <2>2. /\ w'.session # NoId => w'.span = Len(db'.spans) /\ w'.span # NoId
        /\ Unended(db') # {} => w'.session # NoId
    BY <1>1, <1>4 DEF InNewest
  <2> QED BY <1>3, <1>5, <2>1, <2>2 DEF Follows
<1>7. Spanned(db') /\ EnteredIn(db', EntryTimes') /\ (~Repeats' => NotReopened(db'))
  BY <1>1, <1>2
<1> QED BY <1>2, <1>5, <1>6, <1>7 DEF Tiled

LEMMA EntryLine ==
  ASSUME Inv, NEW l \in NextLines, Reads(l), Entry(l)
  PROVE  /\ Sound(Here, l.ts, EntryTimes') /\ InItsSession(Here) /\ NewestOpen(Here.db)
         /\ l.ts \in Nat \ {0} /\ l.ts \in EntryTimes' /\ EntryTimes \subseteq EntryTimes'
<1>1. /\ Now \in Nat \ {0} /\ l.ts \in Nat \ {0} /\ Now <= l.ts
      /\ EntryTimes \subseteq EntryTimes' /\ l.ts \in EntryTimes'
  BY ReadsLine DEF Inv
<1>2. Sound(Here, l.ts, EntryTimes')
  BY <1>1, LaterSound DEF Inv
<1> QED BY <1>1, <1>2 DEF Inv, Here

LEMMA NextTiled ==
  ASSUME ReadOnce, Apart, Inv, Inv', Tiled, [Next]_vars
  PROVE  Tiled'
<1>0. /\ Pair(Here) /\ Here.db = db /\ Here.w = w
      /\ Spanned(Here.db) /\ Follows(Here) /\ EnteredIn(Here.db, EntryTimes)
  BY DEF Inv, Sound, Formed, Here, Tiled
<1>1. ASSUME NEW l \in NextLines, Reads(l), NEW x, Pair(x), Keeps(Here, x),
             Becomes(x, l) \/ (Enrols(l) /\ x = Here)
      PROVE  Tiled'
  <2>1. EntryTimes \subseteq EntryTimes'
    BY <1>1, ReadsLine DEF Inv
  <2>2. /\ x.db.sessions = db.sessions /\ x.db.spans = db.spans
        /\ x.w.session = w.session /\ x.w.span = w.span
    BY <1>0, <1>1 DEF Keeps
  <2>3. Spanned(x.db)
    <3>1. Ascending(x.db) /\ Within(x.db) /\ NewestSpanned(x.db)
      BY <2>2 DEF Tiled, Spanned, Ascending, Within, NewestSpanned
    <3>2. \A i \in 1 .. Len(x.db.spans) : Joined(x.db, i)
      BY <2>2 DEF Tiled, Spanned, Joined
    <3> QED BY <3>1, <3>2 DEF Spanned
  <2>4. EnteredIn(x.db, EntryTimes') /\ (~Repeats => NotReopened(x.db))
    BY <2>1, <2>2 DEF Tiled, EnteredIn, NotReopened
  <2>5. InNewest(x)
    BY <1>0, <2>2 DEF Follows, InNewest, Unended
  <2> QED BY <1>1, <2>3, <2>4, <2>5, LineTiled, LineMakes
<1>2. ASSUME NEW l \in NextLines, Reads(l), NEW x, Becomes(x, l),
             Entered(x, EntryTimes'), ~Repeats => NotReopened(x.db)
      PROVE  Tiled'
  <2>1. InNewest(x) /\ Spanned(x.db) /\ EnteredIn(x.db, EntryTimes')
    BY <1>2 DEF Entered, InNewest
  <2> QED BY <1>2, <2>1, LineTiled, LineMakes
<1>3. ASSUME SessionStart PROVE Tiled'
  <2>1. PICK l \in NextLines : On("start", l) /\ Becomes(handleSessionStart(Here, l.ts), l)
    BY <1>3 DEF SessionStart
  <2>2. Reads(l) /\ Entry(l)
    BY <2>1 DEF On, Entry
  <2>3. /\ Sound(Here, l.ts, EntryTimes') /\ InItsSession(Here)
        /\ l.ts \in Nat \ {0} /\ l.ts \in EntryTimes' /\ EntryTimes \subseteq EntryTimes'
    BY <2>2, EntryLine
  <2>4. PICK x : x = handleSessionStart(Here, l.ts)
    OBVIOUS
  <2>5. EnteredIn(Here.db, EntryTimes') /\ (Here.w.last = NoTs => NotReopened(Here.db))
    BY <1>0, <2>3 DEF Tiled, EnteredIn
  <2>6. Entered(x, EntryTimes') /\ NotReopened(x.db)
    BY <1>0, <2>3, <2>4, <2>5, SessionStartTiled
  <2> QED BY <1>2, <2>1, <2>2, <2>4, <2>6
<1>4. ASSUME AreaEntered PROVE Tiled'
  <2>1. PICK l \in NextLines : On("area", l) /\ Becomes(handleAreaEntered(Here, l.ts, l.area), l)
    BY <1>4 DEF AreaEntered
  <2>2. Reads(l) /\ Entry(l) /\ l.kind = "area"
    BY <2>1 DEF On, Entry
  <2>3. /\ Sound(Here, l.ts, EntryTimes') /\ InItsSession(Here)
        /\ l.ts \in Nat \ {0} /\ l.ts \in EntryTimes' /\ EntryTimes \subseteq EntryTimes'
    BY <2>2, EntryLine
  <2>4. PICK x : x = handleAreaEntered(Here, l.ts, l.area)
    OBVIOUS
  <2>5. /\ todo = <<>> => Later(l.ts, EntryTimes)
        /\ w.last # NoTs => todo = <<>>
    BY <2>2, ReadsLine DEF Inv, Apart, Later
  <2>6. Ready(Here, l.ts, EntryTimes, EntryTimes')
    BY <1>0, <2>3, <2>5 DEF Ready
  <2>7. Entered(x, EntryTimes') /\ (Later(l.ts, EntryTimes) => NotReopened(x.db))
    BY <2>4, <2>6, AreaEnteredTiled
  <2>8. ~Repeats => NotReopened(x.db)
    BY <2>5, <2>7 DEF Tiled
  <2> QED BY <1>2, <2>1, <2>2, <2>4, <2>7, <2>8
<1>5. ASSUME AfkOn \/ AfkOff PROVE Tiled'
  BY <1>0, <1>1, <1>5, OthersKeep DEF AfkOn, AfkOff, On
<1>6. ASSUME FocusLost PROVE Tiled'
  <2>1. PICK l \in NextLines : /\ Reads(l)
                              /\ IF altTab THEN UNCHANGED <<db, w, roster, restVars>>
                                           ELSE Becomes(handleAway(Here, "alt_tab", l.ts), l)
    BY <1>6 DEF FocusLost, On
  <2>2. CASE altTab
    BY <2>1, <2>2, StaysTiled DEF restVars
  <2>3. CASE ~altTab
    BY <1>0, <1>1, <2>1, <2>3, OthersKeep
  <2> QED BY <2>2, <2>3
<1>7. ASSUME FocusGained PROVE Tiled'
  <2>1. PICK l \in NextLines : /\ Reads(l)
                              /\ IF altTab THEN Becomes(handleBack(Here, "alt_tab", l.ts), l)
                                           ELSE UNCHANGED <<db, w, roster, restVars>>
    BY <1>7 DEF FocusGained, On
  <2>2. CASE ~altTab
    BY <2>1, <2>2, StaysTiled DEF restVars
  <2>3. CASE altTab
    BY <1>0, <1>1, <2>1, <2>3, OthersKeep
  <2> QED BY <2>2, <2>3
<1>8. ASSUME Note \/ PvpQueue \/ PvpQueueCancelled PROVE Tiled'
  BY <1>0, <1>1, <1>8, OthersKeep DEF Note, PvpQueue, PvpQueueCancelled, On
<1>9. ASSUME CommitBatch PROVE Tiled'
  <2>1. /\ EntryTimes' = EntryTimes /\ Here' = Here /\ Repeats' = Repeats
        /\ UNCHANGED <<db, w, todo, restarts>> /\ saved' = db
    BY <1>9 DEF CommitBatch, EntryTimes, Here, Repeats
  <2> QED BY <2>1 DEF Tiled
<1>10. ASSUME Sweep PROVE Tiled'
  <2>1. /\ EntryTimes' = EntryTimes /\ Repeats' = Repeats /\ UNCHANGED <<w, todo, restarts>>
        /\ saved' = db' /\ Here' = [db |-> CloseOrphans(Here.db), w |-> Here.w] /\ Here'.db = db'
    BY <1>10 DEF Sweep, EntryTimes, Here, Repeats
  <2>2. PICK y : y = Here'
    OBVIOUS
  <2>3. Spanned(y.db) /\ EnteredIn(y.db, EntryTimes) /\ Follows(y) /\ NotReopened(y.db)
    <3>1. Now \in Nat
      BY DEF Inv, Logged, Now
    <3> QED BY <1>0, <2>1, <2>2, <3>1, CloseOrphansTiled DEF Inv
  <2> QED BY <2>1, <2>2, <2>3 DEF Tiled
<1>11. ASSUME Restart PROVE Tiled'
  <2>1. PICK n \in Rereads : n <= Len(log) /\ Resume(n)
    BY <1>11 DEF Restart
  <2>2. /\ restarts < MaxRestarts /\ restarts' = restarts + 1
        /\ UNCHANGED <<log, saved>> /\ n \in {0, 1}
    BY <1>11, <2>1 DEF Restart, ReadOnce
  <2>3. ~Repeats /\ (~Repeats' => 1 \notin Rereads)
    BY <2>2, WriterAssumption DEF Apart, Tiled, Repeats
  <2>4. Here' = [db |-> saved, w |-> NewWriter(saved)] /\ db' = saved
    BY <2>1 DEF Resume, Here
  <2>5. PICK y : y = Here'
    OBVIOUS
  <2>6. Follows(y)
    <3>1. Now \in Nat
      BY DEF Inv, Logged, Now
    <3> QED BY <2>3, <2>4, <2>5, <3>1, ResumedFollows DEF Inv, Committed, Tiled
  <2>7. ~Repeats' => todo' = <<>>
    <3>1. SUFFICES ASSUME n = 0 PROVE todo' = <<>>
      BY <2>1, <2>2, <2>3
    <3>2. todo' = SubSeq(log, Len(log) + 1, Len(log))
      <4>1. todo' = SubSeq(log, Len(log) - n + 1, Len(log)) /\ Len(log) \in Nat
        BY <2>1 DEF Resume, Inv, Logged
      <4> QED BY <3>1, <4>1
    <3> QED BY <3>2 DEF Inv, Logged
  <2>8. EntryTimes' = EntryTimes /\ restarts' \in Nat
    BY <2>2 DEF EntryTimes, Tiled
  <2> QED BY <2>2, <2>3, <2>4, <2>5, <2>6, <2>7, <2>8 DEF Tiled
<1>12. ASSUME ReadAgain PROVE Tiled'
  BY <1>12 DEF ReadAgain, ReadOnce
<1>13. ASSUME UNCHANGED vars PROVE Tiled'
  BY <1>13 DEF vars, Tiled, EntryTimes, Here, Repeats
<1>14. ASSUME LevelUp \/ CharacterDeath PROVE Tiled'
  <2>1. PICK l \in NextLines : Reads(l) /\ Enrols(l)
    BY <1>14 DEF LevelUp, CharacterDeath, On, Enrols
  <2>2. Keeps(Here, Here)
    BY DEF Keeps
  <2> QED BY <1>0, <1>1, <2>1, <2>2
<1> QED
  BY <1>3, <1>4, <1>5, <1>6, <1>7, <1>8, <1>9, <1>10, <1>11, <1>12, <1>13, <1>14 DEF Next

LEMMA TiledSpans == Inv /\ Tiled => SpansTileSession
<1> SUFFICES ASSUME Inv, Tiled PROVE SpansTileSession
  OBVIOUS
<1> DEFINE n == Len(db.spans)
           k == Len(db.sessions)
<1>0. /\ Rows(db) /\ Times(db, Now) /\ Spanned(db) /\ Now \in Nat /\ n \in Nat
      /\ Here.db = db /\ Here.w = w /\ DOMAIN db.sessions = 1 .. k
  BY Lengths DEF Inv, Sound, Formed, Here, Tiled, Logged, Now
<1>1. w.span \in {NoId, n}
  <2>1. w.session = NoId => w.span = NoId
    BY <1>0, NoSessionNoSpan DEF Inv
  <2> QED BY <1>0, <2>1 DEF Tiled, Follows
<1>2. ASSUME NEW s \in Session, NEW i \in SpansOf(s), Closed(i)
      PROVE  \/ \E j \in SpansOf(s) \ {i} : db.spans[j].entered = db.spans[i].exited
             \/ Ended(s) /\ db.spans[i].exited = db.sessions[s].end
  <2>1. i \in 1 .. n /\ db.spans[i].session = s /\ db.spans[i].exited # NoTs /\ i # w.span
    BY <1>2 DEF SpansOf, Span, Closed
  <2>2. Joined(db, i)
    BY <1>0, <2>1 DEF Spanned
  <2>3. CASE i < n /\ db.spans[i + 1].session = s
    <3>1. i + 1 \in SpansOf(s) \ {i}
      BY <1>0, <2>1, <2>3 DEF SpansOf, Span
    <3>2. db.spans[i + 1].entered = db.spans[i].exited
      BY <2>1, <2>2, <2>3 DEF Joined
    <3> QED BY <3>1, <3>2
  <2>4. CASE ~(i < n /\ db.spans[i + 1].session = s)
    <3>1. \/ db.sessions[s].end = db.spans[i].exited
          \/ i = n /\ db.sessions[s].end = NoTs
      BY <2>1, <2>2, <2>4 DEF Joined
    <3>2. CASE i = n /\ db.sessions[s].end = NoTs
      <4>1. s \in Unended(db)
        BY <1>0, <3>2 DEF Unended, Session
      <4>2. w.span = n
        BY <1>0, <4>1 DEF Tiled, Follows
      <4> QED BY <2>1, <3>2, <4>2
    <3> QED BY <2>1, <3>1, <3>2 DEF Ended
  <2> QED BY <2>3, <2>4
<1>3. ASSUME NEW s \in Session, NEW i \in SpansOf(s), NEW j \in SpansOf(s), i < j
      PROVE  /\ db.spans[i].entered < db.spans[j].entered
             /\ Closed(i) /\ db.spans[i].exited <= db.spans[j].entered
  <2>1. i \in 1 .. n /\ j \in 1 .. n /\ db.spans[i].session = db.spans[j].session
    BY <1>3 DEF SpansOf, Span
  <2>2. db.spans[i].entered < db.spans[j].entered
    BY <1>0, <1>3, <2>1 DEF Spanned, Ascending
  <2>3. db.spans[i].exited # NoTs /\ db.spans[i].exited <= db.spans[j].entered
    BY <1>0, <1>3, <2>1, InnerSpans
  <2>4. i # w.span
    BY <1>0, <1>1, <1>3, <2>1 DEF NoId
  <2> QED BY <2>2, <2>3, <2>4 DEF Closed
<1>4. ASSUME NEW s \in Session, NEW i \in SpansOf(s)
      PROVE  db.spans[i].entered >= db.sessions[s].start
  BY <1>0, <1>4 DEF SpansOf, Span, Spanned, Within
<1> QED BY <1>2, <1>3, <1>4 DEF SpansTileSession

LEMMA TilingInvariance == ReadOnce /\ Apart /\ Spec => [](Inv /\ Tiled)
<1> SUFFICES ASSUME ReadOnce, Apart PROVE Spec => [](Inv /\ Tiled)
  OBVIOUS
<1>1. Init => Inv /\ Tiled
  BY InitInv, InitTiled
<1>2. Inv /\ Tiled /\ [Next]_vars => (Inv /\ Tiled)'
  BY NextInv, NextTiled
<1> QED BY <1>1, <1>2, PTL DEF Spec

(* The spans of a session follow each other from its start to its end,     *)
(* whatever away times, sweeps, lost batches and restarts come in between: *)
(* whoever goes on, goes on in the newest span (handleAreaEntered,         *)
(* closeSession, NewWriter, closeOrphanSession).                           *)
THEOREM SpansTile == ReadOnce /\ Apart /\ Spec => []SpansTileSession
BY TilingInvariance, TiledSpans, PTL

(* The same of the specification that is model-checked, of its behaviours  *)
(* that read a log once.                                                   *)
THEOREM SpansTileOnce == ReadOnce /\ Apart /\ MCSpec => []ReadOnceSpansTile
<1> SUFFICES ASSUME ReadOnce, Apart PROVE MCSpec => []ReadOnceSpansTile
  OBVIOUS
<1> DEFINE Once == reading = "once" => Inv /\ Tiled
<1>1. MCInit => Once
  BY InitInv, InitTiled DEF MCInit
<1>2. Once /\ [MCNext]_<<vars, reading>> => Once'
  <2> SUFFICES ASSUME Once, [MCNext]_<<vars, reading>>, reading' = "once" PROVE Inv' /\ Tiled'
    OBVIOUS
  <2>1. reading = "once" /\ [Next]_vars
    BY DEF MCNext
  <2>2. Inv /\ Tiled
    BY <2>1
  <2> QED BY <2>1, <2>2, NextInv, NextTiled
<1>3. Once => ReadOnceSpansTile
  BY TiledSpans DEF ReadOnceSpansTile
<1> QED BY <1>1, <1>2, <1>3, PTL DEF MCSpec

-----------------------------------------------------------------------------
(* Away times, until a new Writer takes over.                              *)

(* Rows of no length do not count: were the sum of some set between B and  *)
(* C another than B's, a smallest one of them would have a row more than   *)
(* one that is not.                                                        *)
LEMMA SecsOfZeros ==
  ASSUME NEW C, IsFiniteSet(C), Integral(C), NEW B \in SUBSET C,
         \A r \in C \ B : Length(r) = 0
  PROVE  Secs(C) = Secs(B)
<1> DEFINE Bad == {s \in SUBSET C : B \subseteq s /\ Secs(s) # Secs(B)}
<1> SUFFICES ASSUME Bad # {} PROVE FALSE
  OBVIOUS
<1>1. PICK s \in Bad : \A t \in Bad : Cardinality(s) <= Cardinality(t)
  <2>1. Bad \in SUBSET (SUBSET C)
    OBVIOUS
  <2> HIDE DEF Bad
  <2> QED BY <2>1, SmallestSet
<1>2. s \in SUBSET C /\ B \subseteq s /\ s # B
  OBVIOUS
<1>3. PICK r \in s : r \notin B
  BY <1>2
<1>4. PICK u : u = s \ {r}
  OBVIOUS
<1>5. u \in SUBSET C /\ B \subseteq u /\ ~(Cardinality(s) <= Cardinality(u)) /\ IsFiniteSet(u)
  <2>1. /\ IsFiniteSet(s) /\ Cardinality(s) \in Nat /\ s \ {r} \in SUBSET C
        /\ Cardinality(s \ {r}) = Cardinality(s) - 1
    BY <1>2, <1>3, WithoutOne
  <2>2. IsFiniteSet(u)
    BY <1>4, <2>1, FS_Subset
  <2> QED BY <1>2, <1>3, <1>4, <2>1, <2>2
<1>6. Secs(u) = Secs(B)
  <2>1. u \notin Bad
    <3> HIDE DEF Bad
    <3> QED BY <1>1, <1>5
  <2> QED BY <1>5, <2>1
<1>7. Secs(s) = Secs(u) + Length(r) /\ Secs(u) \in Int
  <2>1. u \cup {r} = s /\ r \notin u
    BY <1>3, <1>4
  <2>2. Integral(u \cup {r})
    BY <1>2, <2>1 DEF Integral
  <2> HIDE DEF Bad
  <2>3. Secs(u \cup {r}) = Secs(u) + Length(r) /\ Secs(u) \in Int
    BY <1>5, <2>1, <2>2, SecsOfOneMore
  <2> QED BY <2>1, <2>3
<1>8. Length(r) = 0
  BY <1>2, <1>3
<1>9. Secs(s) = Secs(B)
  BY <1>6, <1>7, <1>8
<1> QED BY <1>9

(* A row that is written adds its length to the sum of the rows of X, if   *)
(* it is one of X, and if what it replaces has no length.                  *)
LEMMA SecsOfUpsert ==
  ASSUME NEW A, IsFiniteSet(A), Integral(A), NEW row, Length(row) \in Int,
         \A r \in A : <<r.session, r.kind, r.on>> = <<row.session, row.kind, row.on>> => Length(r) = 0,
         NEW X
  PROVE  /\ Secs(Upsert(A, row) \cap X)
              = Secs(A \cap X) + (IF row \in X THEN Length(row) ELSE 0)
         /\ Secs(A \cap X) \in Int
<1> DEFINE B == {r \in A : <<r.session, r.kind, r.on>> # <<row.session, row.kind, row.on>>}
<1>1. B \subseteq A /\ row \notin B /\ \A r \in A \ B : Length(r) = 0
  OBVIOUS
<1>2. Upsert(A, row) = B \cup {row}
  BY DEF Upsert
<1> HIDE DEF B
<1>3. PICK C, D : C = A \cap X /\ D = B \cap X
  OBVIOUS
<1>4. IsFiniteSet(C) /\ IsFiniteSet(D) /\ D \in SUBSET C /\ Integral(C) /\ Integral(D \cup {row})
      /\ \A r \in C \ D : Length(r) = 0
  <2>1. C \subseteq A /\ D \subseteq A
    BY <1>1, <1>3
  <2>2. IsFiniteSet(C) /\ IsFiniteSet(D)
    BY <2>1, FS_Subset
  <2> QED BY <1>1, <1>3, <2>1, <2>2 DEF Integral
<1>5. Secs(C) = Secs(D)
  BY <1>4, SecsOfZeros
<1>6. Secs(D \cup {row}) = Secs(D) + Length(row) /\ Secs(D) \in Int
  <2>1. row \notin D
    BY <1>1, <1>3
  <2> QED BY <1>4, <2>1, SecsOfOneMore
<1>7. Upsert(A, row) \cap X = IF row \in X THEN D \cup {row} ELSE D
  BY <1>2, <1>3
<1>8. CASE row \in X
  BY <1>3, <1>5, <1>6, <1>7, <1>8
<1>9. CASE row \notin X
  <2>1. Secs(Upsert(A, row) \cap X) = Secs(A \cap X)
    BY <1>3, <1>5, <1>7, <1>9
  <2>2. Secs(A \cap X) \in Int
    BY <1>3, <1>5, <1>6
  <2> QED BY <1>9, <2>1, <2>2
<1> QED BY <1>8, <1>9

InSpan(rows, i) == {r \in rows : r.span = i}
InSession(rows, s) == {r \in rows : r.session = s}

(* A row of an away time lies in its span, which is one of its session's.  *)
Fits(d, r) ==
  /\ r.kind \in Away /\ r.on \in Nat /\ r.off \in Nat /\ r.span \in 1 .. Len(d.spans)
  /\ d.spans[r.span].session = r.session /\ d.spans[r.span].entered <= r.on /\ r.on <= r.off

AllFit(x, t) ==
  /\ IsFiniteSet(x.db.away)
  /\ \A r \in x.db.away : Fits(x.db, r) /\ r.off <= t

(* An away time that goes on began after those of its kind have ended, and *)
(* in the Writer's span.                                                   *)
Pending(x, t) ==
  /\ x.w.away \in [Away -> Nat]
  /\ \A k \in Away : x.w.away[k] # NoTs =>
       /\ x.w.away[k] <= t
       /\ \A r \in x.db.away : r.kind = k => r.off <= x.w.away[k]
       /\ x.w.span # NoId => x.db.spans[x.w.span].entered <= x.w.away[k]

SpansCount(x) ==
  \A i \in 1 .. Len(x.db.spans) : i # x.w.span =>
    /\ x.db.spans[i].exited # NoTs /\ x.db.spans[i].afk = Secs(InSpan(x.db.away, i))
    /\ \A r \in x.db.away : r.span = i => r.off <= x.db.spans[i].exited

SessionsCount(x) ==
  \A s \in 1 .. Len(x.db.sessions) : s # x.w.session /\ x.db.sessions[s].end # NoTs =>
    x.db.sessions[s].afk = Secs(InSession(x.db.away, s))

WriterCounts(x) ==
  /\ x.w.span # NoId => x.w.spanAfk = Secs(InSpan(x.db.away, x.w.span))
  /\ x.w.session # NoId => x.w.afk = Secs(InSession(x.db.away, x.w.session))

Counted(x, t) ==
  AllFit(x, t) /\ Pending(x, t) /\ SpansCount(x) /\ SessionsCount(x) /\ WriterCounts(x)

SpanTimes(d) ==
  \A i \in 1 .. Len(d.spans) : /\ d.spans[i].session \in 1 .. Len(d.sessions)
                               /\ d.spans[i].entered \in Nat

(* The Writer is in a span of its session.                                 *)
Playing(x) ==
  /\ Formed(x) /\ SpanTimes(x.db) /\ x.w.span \in 1 .. Len(x.db.spans)
  /\ x.w.session = x.db.spans[x.w.span].session

LEMMA PlayingIn ==
  ASSUME NEW x, Playing(x)
  PROVE  /\ x.w.span # NoId /\ x.w.session # NoId /\ x.w.session \in 1 .. Len(x.db.sessions)
         /\ Len(x.db.spans) \in Nat /\ Len(x.db.sessions) \in Nat
<1>1. Len(x.db.spans) \in Nat /\ Len(x.db.sessions) \in Nat
  BY Lengths DEF Playing, Formed
<1>2. x.w.session \in 1 .. Len(x.db.sessions)
  BY DEF Playing, SpanTimes
<1> QED BY <1>1, <1>2 DEF Playing, NoId

LEMMA FitLengths ==
  ASSUME NEW x, NEW t, AllFit(x, t)
  PROVE  Integral(x.db.away) /\ \A r \in x.db.away : r.on \in Nat /\ r.off \in Nat /\ r.on <= r.off
<1>1. \A r \in x.db.away : r.on \in Nat /\ r.off \in Nat /\ r.on <= r.off
  BY DEF AllFit, Fits
<1> QED BY <1>1 DEF Integral, Length

LEMMA LaterCounted ==
  ASSUME NEW t \in Nat, NEW x, Counted(x, t), NEW n \in Nat, t <= n
  PROVE  Counted(x, n)
<1>1. AllFit(x, n)
  BY DEF Counted, AllFit, Fits
<1>2. Pending(x, n)
  BY DEF Counted, Pending
<1> QED BY <1>1, <1>2 DEF Counted

(* What is counted, is counted whatever else changes.                      *)
LEMMA SameCounted ==
  ASSUME NEW t, NEW x, Counted(x, t), NEW y,
         y.db.away = x.db.away, y.db.spans = x.db.spans, y.db.sessions = x.db.sessions,
         y.w.away = x.w.away, y.w.span = x.w.span, y.w.session = x.w.session,
         y.w.spanAfk = x.w.spanAfk, y.w.afk = x.w.afk
  PROVE  Counted(y, t)
<1>1. AllFit(y, t) /\ Pending(y, t)
  BY DEF Counted, AllFit, Fits, Pending
<1>2. SpansCount(y) /\ SessionsCount(y) /\ WriterCounts(y)
  BY DEF Counted, SpansCount, SessionsCount, WriterCounts
<1> QED BY <1>1, <1>2 DEF Counted

LEMMA EndAwayCounted ==
  ASSUME NEW t \in Nat, NEW x, Playing(x), Counted(x, t), NEW kind \in Away, NEW next,
         NEW y, y = EndAway(x, kind, t, next), Carry(next, t) \in {NoTs, t}
  PROVE  /\ Counted(y, t) /\ Playing(y) /\ OnlyAway(x, y)
         /\ \A k \in Away : y.w.away[k] = IF k = kind /\ x.w.away[k] # NoTs THEN Carry(next, t)
                                                                          ELSE x.w.away[k]
<1>0. Pair(x) /\ OnlyAway(x, y) /\ x.w.session # NoId
  BY EndAwayKeeps, PlayingIn DEF Playing, Formed
<1>1. CASE x.w.away[kind] = NoTs
  <2>1. y = x
    BY <1>0, <1>1, EndAwayIs
  <2> QED BY <1>0, <1>1, <2>1
<1>2. CASE x.w.away[kind] # NoTs
  <2>1. AwayEnds(x, y, kind, t, next)
    BY <1>0, <1>2, EndAwayIs
  <2>2. PICK a, row, c, i, s : /\ a = x.w.away[kind] /\ row = Row(x, kind, t) /\ c = Carry(next, t)
                               /\ i = x.w.span /\ s = x.w.session
    OBVIOUS
  <2>3. /\ a \in Nat /\ a <= t /\ x.db.spans[i].entered <= a /\ i \in 1 .. Len(x.db.spans)
        /\ x.db.spans[i].session = s /\ i # NoId /\ s # NoId /\ i \in Nat
        /\ \A r \in x.db.away : r.kind = kind => r.off <= a
    <3>1. a \in Nat /\ a <= t /\ (x.w.span # NoId => x.db.spans[x.w.span].entered <= a)
          /\ \A r \in x.db.away : r.kind = kind => r.off <= a
      BY <1>2, <2>2 DEF Counted, Pending
    <3>2. i \in 1 .. Len(x.db.spans) /\ i \in Nat /\ x.db.spans[i].session = s /\ i # NoId /\ s # NoId
      <4>1. Len(x.db.spans) \in Nat /\ x.w.span # NoId /\ x.w.session # NoId
        BY PlayingIn
      <4>2. x.w.span \in 1 .. Len(x.db.spans) /\ x.w.session = x.db.spans[x.w.span].session
        BY DEF Playing
      <4>3. x.w.span \in Nat
        BY <4>1, <4>2
      <4> QED BY <2>2, <4>1, <4>2, <4>3, Zenon
    <3> QED BY <2>2, <3>1, <3>2
  <2>4. /\ row = [session |-> s, span |-> i, kind |-> kind, on |-> a, off |-> t]
        /\ Length(row) = t - a
    BY <2>2 DEF Row, Length
  <2>5. max0(t - a) = t - a
    BY <2>3 DEF max0
  <2>6. /\ y.db = [sessions |-> x.db.sessions, spans |-> x.db.spans,
                   away |-> Upsert(x.db.away, row), notes |-> x.db.notes, queues |-> x.db.queues]
        /\ y.w = [session |-> s, start |-> x.w.start, afk |-> x.w.afk + (t - a),
                  away |-> [x.w.away EXCEPT ![kind] = c],
                  span |-> i, spanAfk |-> x.w.spanAfk + (t - a), queue |-> x.w.queue,
                  last |-> x.w.last]
    BY <2>1, <2>2, <2>5 DEF AwayEnds
  <2>7. PICK A, rows : A = x.db.away /\ rows = Upsert(A, row)
    OBVIOUS
  <2>8. /\ IsFiniteSet(A) /\ Integral(A) /\ AllFit(x, t) /\ row \in rows /\ rows \subseteq A \cup {row}
        /\ \A r \in A : r.on \in Nat /\ r.off \in Nat /\ r.on <= r.off
        /\ \A r \in A : r.kind = kind => r.off <= a
    <3>1. AllFit(x, t)
      BY DEF Counted
    <3>2. row \in rows /\ rows \subseteq A \cup {row}
      BY <2>7 DEF Upsert
    <3>3. Integral(A) /\ \A r \in A : r.on \in Nat /\ r.off \in Nat /\ r.on <= r.off
      BY <2>7, <3>1, FitLengths
    <3> QED BY <2>3, <2>7, <3>1, <3>2, <3>3 DEF AllFit
  <2>9. \A r \in A : <<r.session, r.kind, r.on>> = <<row.session, row.kind, row.on>> => Length(r) = 0
    <3>1. ASSUME NEW r \in A, <<r.session, r.kind, r.on>> = <<row.session, row.kind, row.on>>
          PROVE  Length(r) = 0
      <4>1. r.on = a /\ r.kind = kind
        BY <2>4, <3>1
      <4>2. r.off <= a /\ r.on <= r.off /\ r.off \in Nat
        BY <2>8, <4>1
      <4> QED BY <2>3, <4>1, <4>2 DEF Length
    <3> QED BY <3>1
  <2>10. ASSUME NEW X
         PROVE  /\ Secs(rows \cap X) = Secs(A \cap X) + (IF row \in X THEN t - a ELSE 0)
                /\ Secs(A \cap X) \in Int
    <3>1. Length(row) \in Int
      BY <2>3, <2>4
    <3>2. /\ Secs(Upsert(A, row) \cap X) = Secs(A \cap X) + (IF row \in X THEN Length(row) ELSE 0)
          /\ Secs(A \cap X) \in Int
      BY <2>8, <2>9, <3>1, SecsOfUpsert
    <3> QED BY <2>4, <2>7, <3>2, Zenon
  <2>11. ASSUME NEW j
         PROVE  /\ Secs(InSpan(rows, j)) = Secs(InSpan(A, j)) + (IF j = i THEN t - a ELSE 0)
                /\ Secs(InSpan(A, j)) \in Int
    <3>1. PICK X : X = InSpan(A \cup {row}, j)
      OBVIOUS
    <3>2. InSpan(rows, j) = rows \cap X /\ InSpan(A, j) = A \cap X
      BY <2>8, <3>1 DEF InSpan
    <3>3. row \in X <=> j = i
      BY <2>4, <3>1 DEF InSpan
    <3> QED BY <2>10, <3>2, <3>3
  <2>12. ASSUME NEW j
         PROVE  /\ Secs(InSession(rows, j)) = Secs(InSession(A, j)) + (IF j = s THEN t - a ELSE 0)
                /\ Secs(InSession(A, j)) \in Int
    <3>1. PICK X : X = InSession(A \cup {row}, j)
      OBVIOUS
    <3>2. InSession(rows, j) = rows \cap X /\ InSession(A, j) = A \cap X
      BY <2>8, <3>1 DEF InSession
    <3>3. row \in X <=> j = s
      BY <2>4, <3>1 DEF InSession
    <3> QED BY <2>10, <3>2, <3>3
  <2>13. /\ y.db.away = rows /\ y.db.spans = x.db.spans /\ y.db.sessions = x.db.sessions
         /\ y.w.span = i /\ y.w.session = s /\ y.w.away = [x.w.away EXCEPT ![kind] = c]
         /\ y.w.afk = x.w.afk + (t - a) /\ y.w.spanAfk = x.w.spanAfk + (t - a)
    BY <2>6, <2>7
  <2>14. AllFit(y, t)
    <3>1. IsFiniteSet(rows)
      <4>1. IsFiniteSet(A \cup {row})
        BY <2>8, FS_AddElement
      <4> QED BY <2>8, <4>1, FS_Subset
    <3>2. Fits(y.db, row) /\ row.off <= t
      BY <2>3, <2>4, <2>13 DEF Fits
    <3>3. \A r \in A : Fits(y.db, r) /\ r.off <= t
      BY <2>7, <2>8, <2>13 DEF AllFit, Fits
    <3> QED BY <2>8, <2>13, <3>1, <3>2, <3>3 DEF AllFit
  <2>15. x.w.away \in [Away -> Nat] /\ c \in Nat
    BY <2>2 DEF Counted, Pending, NoTs
  <2>16. \A k \in Away : y.w.away[k] = IF k = kind THEN c ELSE x.w.away[k]
    BY <2>13, <2>15
  <2>17. Pending(y, t)
    <3>1. y.w.away \in [Away -> Nat]
      BY <2>13, <2>15
    <3>2. ASSUME NEW k \in Away, y.w.away[k] # NoTs
          PROVE  /\ y.w.away[k] <= t
                 /\ \A r \in y.db.away : r.kind = k => r.off <= y.w.away[k]
                 /\ y.db.spans[y.w.span].entered <= y.w.away[k]
      <4>1. CASE k = kind
        <5>1. y.w.away[k] = t
          BY <2>2, <2>16, <3>2, <4>1
        <5>2. x.db.spans[i].entered \in Nat
          BY <2>3 DEF Playing, SpanTimes
        <5>3. x.db.spans[i].entered <= t
          BY <2>3, <5>2
        <5> QED BY <2>13, <2>14, <5>1, <5>3 DEF AllFit
      <4>2. CASE k # kind
        <5>1. y.w.away[k] = x.w.away[k]
          BY <2>16, <4>2
        <5>2. /\ x.w.away[k] <= t /\ \A r \in A : r.kind = k => r.off <= x.w.away[k]
              /\ x.db.spans[i].entered <= x.w.away[k]
          BY <2>2, <2>3, <2>7, <3>2, <5>1 DEF Counted, Pending
        <5>3. row.kind # k
          BY <2>4, <4>2
        <5> QED BY <2>8, <2>13, <5>1, <5>2, <5>3
      <4> QED BY <4>1, <4>2
    <3> QED BY <3>1, <3>2 DEF Pending
  <2>18. SpansCount(y)
    <3>1. ASSUME NEW j \in 1 .. Len(x.db.spans), j # i
          PROVE  /\ x.db.spans[j].exited # NoTs /\ x.db.spans[j].afk = Secs(InSpan(rows, j))
                 /\ \A r \in rows : r.span = j => r.off <= x.db.spans[j].exited
      <4>1. /\ x.db.spans[j].exited # NoTs /\ x.db.spans[j].afk = Secs(InSpan(A, j))
            /\ \A r \in A : r.span = j => r.off <= x.db.spans[j].exited
        BY <2>2, <2>7, <3>1 DEF Counted, SpansCount
      <4>2. Secs(InSpan(rows, j)) = Secs(InSpan(A, j))
        BY <2>11, <3>1
      <4>3. row.span # j
        BY <2>4, <3>1
      <4> QED BY <2>8, <4>1, <4>2, <4>3
    <3> QED BY <2>13, <3>1 DEF SpansCount
  <2>19. SessionsCount(y)
    <3>1. ASSUME NEW j \in 1 .. Len(x.db.sessions), j # s, x.db.sessions[j].end # NoTs
          PROVE  x.db.sessions[j].afk = Secs(InSession(rows, j))
      <4>1. x.db.sessions[j].afk = Secs(InSession(A, j))
        BY <2>2, <2>7, <3>1 DEF Counted, SessionsCount
      <4> QED BY <2>12, <3>1, <4>1
    <3> QED BY <2>13, <3>1 DEF SessionsCount
  <2>20. WriterCounts(y)
    <3>1. x.w.spanAfk = Secs(InSpan(A, i)) /\ x.w.afk = Secs(InSession(A, s))
      BY <2>2, <2>3, <2>7 DEF Counted, WriterCounts
    <3>2. y.w.spanAfk = Secs(InSpan(rows, i)) /\ y.w.afk = Secs(InSession(rows, s))
      BY <2>11, <2>12, <2>13, <3>1
    <3> QED BY <2>13, <3>2 DEF WriterCounts
  <2>21. Playing(y)
    BY <1>0, <2>2, <2>13 DEF OnlyAway, Playing, Formed, Rows, SpanTimes
  <2> QED BY <1>0, <1>2, <2>2, <2>14, <2>16, <2>17, <2>18, <2>19, <2>20, <2>21 DEF Counted
<1> QED BY <1>1, <1>2

LEMMA EndBothCounted ==
  ASSUME NEW t \in Nat, NEW x, Playing(x), Counted(x, t), NEW next,
         NEW y, y = EndBoth(x, t, next), Carry(next, t) \in {NoTs, t}
  PROVE  /\ Counted(y, t) /\ Playing(y) /\ OnlyAway(x, y)
         /\ \A k \in Away : y.w.away[k] \in {NoTs, Carry(next, t)}
<1>1. PICK u : u = EndAway(x, "afk", t, next)
  OBVIOUS
<1>0. "afk" \in Away /\ "alt_tab" \in Away /\ \A k \in Away : k \in {"afk", "alt_tab"}
  BY DEF Away
<1>2. /\ Counted(u, t) /\ Playing(u) /\ OnlyAway(x, u)
      /\ u.w.away["afk"] \in {NoTs, Carry(next, t)}
  BY <1>0, <1>1, EndAwayCounted
<1>3. y = EndAway(u, "alt_tab", t, next)
  BY <1>1 DEF EndBoth
<1>4. /\ Counted(y, t) /\ Playing(y) /\ OnlyAway(u, y)
      /\ y.w.away["alt_tab"] \in {NoTs, Carry(next, t)} /\ y.w.away["afk"] = u.w.away["afk"]
  BY <1>0, <1>2, <1>3, EndAwayCounted
<1>5. OnlyAway(x, y)
  BY <1>2, <1>4 DEF OnlyAway, Keeps
<1> QED BY <1>0, <1>2, <1>4, <1>5

(* Between two spans, away times go on from t or not at all.               *)
Left(x, t) ==
  /\ Counted(x, t) /\ Formed(x) /\ SpanTimes(x.db) /\ x.w.span = NoId
  /\ \A k \in Away : x.w.away[k] \in {NoTs, t}

LEMMA CloseSpanCounted ==
  ASSUME NEW t \in Nat, t # NoTs, NEW x, Playing(x), Counted(x, t), NEW next,
         Carry(next, t) \in {NoTs, t}, NEW y, y = closeSpan(x, t, next)
  PROVE  /\ Left(y, t) /\ y.w.session = x.w.session /\ y.w.last = x.w.last
         /\ y.db.sessions = x.db.sessions /\ y.w.start = x.w.start
         /\ Len(y.db.spans) = Len(x.db.spans)
         /\ \A i \in 1 .. Len(x.db.spans) : /\ y.db.spans[i].session = x.db.spans[i].session
                                            /\ y.db.spans[i].entered = x.db.spans[i].entered
         /\ \A k \in Away : y.w.away[k] \in {NoTs, Carry(next, t)}
<1>1. PICK z : z = EndBoth(x, t, next)
  OBVIOUS
<1>2. /\ Counted(z, t) /\ OnlyAway(x, z)
      /\ \A k \in Away : z.w.away[k] \in {NoTs, Carry(next, t)}
  BY <1>1, EndBothCounted
<1>3. Formed(y) /\ SpanCloses(x, z, y, t)
  BY <1>1, CloseSpanIs DEF Playing
<1>4. PICK k \in 1 .. Len(x.db.spans) : k = x.w.span /\ k # NoId
  BY PlayingIn DEF Playing
<1>5. /\ z.db.spans = x.db.spans /\ z.db.sessions = x.db.sessions /\ z.w.span = k
      /\ z.w.session = x.w.session
  BY <1>2, <1>4 DEF OnlyAway, Keeps
<1>6. /\ y.db.sessions = x.db.sessions /\ y.db.away = z.db.away /\ y.w.session = x.w.session
      /\ y.w.away = z.w.away /\ y.w.span = NoId /\ y.w.spanAfk = 0 /\ y.w.afk = z.w.afk
      /\ y.w.last = x.w.last /\ y.w.start = x.w.start
      /\ Len(y.db.spans) = Len(x.db.spans)
  BY <1>3 DEF SpanCloses
<1>7. ASSUME NEW i \in 1 .. Len(x.db.spans)
      PROVE  /\ y.db.spans[i].session = x.db.spans[i].session
             /\ y.db.spans[i].entered = x.db.spans[i].entered
             /\ y.db.spans[i].exited = IF i = k THEN t ELSE x.db.spans[i].exited
             /\ y.db.spans[i].afk = IF i = k THEN z.w.spanAfk ELSE x.db.spans[i].afk
  <2>1. y.db.spans[i] = IF i = x.w.span
                          THEN [session |-> x.db.spans[i].session, area |-> x.db.spans[i].area,
                                entered |-> x.db.spans[i].entered, exited |-> t, afk |-> z.w.spanAfk]
                          ELSE x.db.spans[i]
    BY <1>3 DEF SpanCloses
  <2> QED BY <1>4, <2>1
<1>8. SpanTimes(y.db)
  <2>2. ASSUME NEW i \in 1 .. Len(x.db.spans)
        PROVE  /\ y.db.spans[i].session \in 1 .. Len(x.db.sessions)
               /\ y.db.spans[i].entered \in Nat
    <3>1. /\ x.db.spans[i].session \in 1 .. Len(x.db.sessions)
          /\ x.db.spans[i].entered \in Nat
      BY DEF Playing, SpanTimes
    <3> QED BY <1>7, <3>1
  <2> QED BY <1>6, <2>2 DEF Playing, SpanTimes
<1>9. AllFit(y, t)
  BY <1>2, <1>5, <1>6, <1>7 DEF Counted, AllFit, Fits
<1>10. Pending(y, t)
  BY <1>2, <1>6 DEF Counted, Pending
<1>11. SpansCount(y)
  <2>1. ASSUME NEW i \in 1 .. Len(x.db.spans)
        PROVE  /\ y.db.spans[i].exited # NoTs /\ y.db.spans[i].afk = Secs(InSpan(z.db.away, i))
               /\ \A r \in z.db.away : r.span = i => r.off <= y.db.spans[i].exited
    <3>1. CASE i = k
      <4>1. z.w.spanAfk = Secs(InSpan(z.db.away, k))
        BY <1>2, <1>4, <1>5 DEF Counted, WriterCounts
      <4>2. \A r \in z.db.away : r.off <= t
        BY <1>2 DEF Counted, AllFit
      <4> QED BY <1>7, <3>1, <4>1, <4>2
    <3>2. CASE i # k
      <4>1. /\ z.db.spans[i].exited # NoTs /\ z.db.spans[i].afk = Secs(InSpan(z.db.away, i))
            /\ \A r \in z.db.away : r.span = i => r.off <= z.db.spans[i].exited
        BY <1>2, <1>5, <3>2 DEF Counted, SpansCount
      <4> QED BY <1>5, <1>7, <3>2, <4>1
    <3> QED BY <3>1, <3>2
  <2> QED BY <1>6, <2>1 DEF SpansCount
<1>12. SessionsCount(y)
  BY <1>2, <1>5, <1>6 DEF Counted, SessionsCount
<1>13. WriterCounts(y)
  BY <1>2, <1>5, <1>6 DEF Counted, WriterCounts
<1>14. \A j \in Away : y.w.away[j] \in {NoTs, Carry(next, t)} /\ y.w.away[j] \in {NoTs, t}
  BY <1>2, <1>6
<1> QED BY <1>3, <1>6, <1>7, <1>8, <1>9, <1>10, <1>11, <1>12, <1>13, <1>14 DEF Left, Counted

LEMMA CloseSessionCounted ==
  ASSUME NEW t \in Nat, t # NoTs, NEW x, Playing(x), Counted(x, t),
         NEW y, y = closeSession(x, t)
  PROVE  Left(y, t) /\ y.w.session = NoId /\ \A k \in Away : y.w.away[k] = NoTs
<1>1. PICK no : no = FALSE
  OBVIOUS
<1>2. PICK v : v = closeSpan(x, t, no)
  OBVIOUS
<1>3. Carry(no, t) = NoTs
  BY <1>1 DEF Carry
<1>4. /\ Left(v, t) /\ v.w.session = x.w.session /\ v.db.sessions = x.db.sessions
      /\ \A k \in Away : v.w.away[k] = NoTs
  BY <1>2, <1>3, CloseSpanCounted
<1>5. PICK s \in 1 .. Len(v.db.sessions) : s = x.w.session /\ s # NoId
  BY <1>4, PlayingIn
<1>6. Formed(y) /\ SessionCloses(v, y, t)
  <2>1. v.w.away["afk"] = NoTs /\ v.w.away["alt_tab"] = NoTs /\ Formed(v)
    BY <1>4 DEF Away, Left
  <2>2. v = EndBoth(v, t, no)
    BY <2>1 DEF EndBoth, EndAway
  <2> QED BY <1>1, <1>2, <1>4, <1>5, <2>1, <2>2, CloseSessionIs
<1>7. /\ y.db.spans = v.db.spans /\ y.db.away = v.db.away /\ y.w.session = NoId
      /\ y.w.away = v.w.away /\ y.w.span = NoId /\ Len(y.db.sessions) = Len(v.db.sessions)
  <2>1. v.w.span = NoId
    BY <1>4 DEF Left
  <2> QED BY <1>6, <2>1 DEF SessionCloses
<1>8. ASSUME NEW i \in 1 .. Len(v.db.sessions)
      PROVE  /\ y.db.sessions[i].start = v.db.sessions[i].start
             /\ y.db.sessions[i].end = IF i = s THEN t ELSE v.db.sessions[i].end
             /\ y.db.sessions[i].afk = IF i = s THEN v.w.afk ELSE v.db.sessions[i].afk
  <2>1. SessionRow(v.db.sessions[i])
    BY <1>4 DEF Left, Formed, Rows
  <2>2. y.db.sessions[i] = IF i = s THEN EndRow(v.db.sessions[i], t, v.w.afk, v.w.start)
                                    ELSE v.db.sessions[i]
    BY <1>4, <1>5, <1>6 DEF SessionCloses
  <2>3. CASE i = s
    <3>1. y.db.sessions[i] = EndRow(v.db.sessions[i], t, v.w.afk, v.w.start)
      BY <2>2, <2>3
    <3> QED BY <2>1, <2>3, <3>1, EndRowDoes
  <2>4. CASE i # s
    BY <2>2, <2>4
  <2> QED BY <2>3, <2>4
<1>9. SpanTimes(y.db)
  BY <1>4, <1>7 DEF Left, SpanTimes
<1>10. AllFit(y, t) /\ Pending(y, t)
  BY <1>4, <1>7 DEF Left, Counted, AllFit, Fits, Pending
<1>11. SpansCount(y) /\ WriterCounts(y)
  BY <1>4, <1>7 DEF Left, Counted, SpansCount, WriterCounts
<1>12. SessionsCount(y)
  <2>1. ASSUME NEW i \in 1 .. Len(v.db.sessions), y.db.sessions[i].end # NoTs
        PROVE  y.db.sessions[i].afk = Secs(InSession(v.db.away, i))
    <3>1. CASE i = s
      BY <1>4, <1>5, <1>8, <3>1 DEF Left, Counted, WriterCounts
    <3>2. CASE i # s
      BY <1>4, <1>5, <1>8, <2>1, <3>2 DEF Left, Counted, SessionsCount
    <3> QED BY <3>1, <3>2
  <2> QED BY <1>7, <2>1 DEF SessionsCount
<1> QED BY <1>4, <1>6, <1>7, <1>9, <1>10, <1>11, <1>12 DEF Left, Counted

LEMMA BeginSessionCounted ==
  ASSUME NEW t \in Nat, NEW x, Left(x, t), x.w.session = NoId, NEW y, y = beginSession(x, t),
         \A s \in 1 .. Len(x.db.sessions) : x.db.sessions[s].start # t
  PROVE  /\ Left(y, t) /\ y.w.session \in 1 .. Len(y.db.sessions) /\ y.w.session # NoId
<1>1. Formed(x) /\ SpanTimes(x.db) /\ Counted(x, t) /\ x.w.span = NoId
      /\ \A k \in Away : x.w.away[k] \in {NoTs, t}
  BY DEF Left
<1>2. Formed(y) /\ SessionOpens(x, y, t)
  BY <1>1, BeginSessionIs
<1>3. PICK n \in Nat : n = Len(x.db.sessions)
  BY <1>1, Lengths DEF Formed
<1>4. /\ y.db.spans = x.db.spans /\ y.db.away = x.db.away /\ y.w.afk = 0
      /\ y.w.away = x.w.away /\ y.w.span = NoId
  BY <1>1, <1>2 DEF SessionOpens
<1>5. /\ y.w.session = n + 1 /\ Len(y.db.sessions) = n + 1
      /\ \A s \in 1 .. n : y.db.sessions[s] = x.db.sessions[s]
      /\ y.db.sessions[n + 1].end = NoTs
  <2>1. ~(y.w.session \in 1 .. Len(x.db.sessions) /\ x.db.sessions[y.w.session].start = t)
    OBVIOUS
  <2>2. /\ y.w.session = n + 1 /\ Len(y.db.sessions) = n + 1
        /\ \A s \in 1 .. n : y.db.sessions[s] = x.db.sessions[s]
        /\ y.db.sessions[n + 1] = [start |-> t, end |-> NoTs, total |-> 0, afk |-> 0, active |-> 0]
    BY <1>2, <1>3, <2>1 DEF SessionOpens
  <2> QED BY <2>2
<1>6. SpanTimes(y.db)
  BY <1>1, <1>3, <1>4, <1>5 DEF SpanTimes
<1>7. AllFit(y, t) /\ Pending(y, t) /\ SpansCount(y)
  BY <1>1, <1>4 DEF Counted, AllFit, Fits, Pending, SpansCount
<1>8. SessionsCount(y)
  <2>1. ASSUME NEW s \in 1 .. n, x.db.sessions[s].end # NoTs
        PROVE  x.db.sessions[s].afk = Secs(InSession(x.db.away, s))
    <3>1. s # NoId
      BY DEF NoId
    <3> QED BY <1>1, <1>3, <2>1, <3>1 DEF Counted, SessionsCount
  <2>2. ASSUME NEW s \in 1 .. n + 1, s # n + 1, y.db.sessions[s].end # NoTs
        PROVE  y.db.sessions[s].afk = Secs(InSession(y.db.away, s))
    <3>1. s \in 1 .. n
      BY <2>2
    <3> QED BY <1>4, <1>5, <2>1, <2>2, <3>1
  <2> QED BY <1>5, <2>2 DEF SessionsCount
<1>9. WriterCounts(y)
  <2>1. \A r \in x.db.away : r.session \in 1 .. n
    BY <1>1, <1>3 DEF Counted, AllFit, Fits, SpanTimes
  <2>2. InSession(x.db.away, n + 1) = {}
    BY <1>3, <2>1 DEF InSession
  <2> QED BY <1>4, <1>5, <2>2, SecsOfNone DEF WriterCounts
<1>10. n + 1 \in 1 .. n + 1 /\ n + 1 # NoId
  BY DEF NoId
<1> QED BY <1>1, <1>2, <1>4, <1>5, <1>6, <1>7, <1>8, <1>9, <1>10 DEF Left, Counted

LEMMA OpenSpanCounted ==
  ASSUME NEW t \in Nat, NEW x, Left(x, t), x.w.session \in 1 .. Len(x.db.sessions), NEW area,
         NEW y, y = openSpan(x, t, area)
  PROVE  Counted(y, t) /\ y.w.session = x.w.session /\ y.w.span # NoId
<1>1. Formed(x) /\ SpanTimes(x.db) /\ Counted(x, t) /\ x.w.span = NoId
      /\ \A k \in Away : x.w.away[k] \in {NoTs, t}
  BY DEF Left
<1>2. x.w.session # NoId
  BY DEF NoId
<1>3. Formed(y) /\ SpanOpens(x, y, t, area)
  BY <1>1, <1>2, OpenSpanIs
<1>4. PICK n \in Nat : n = Len(x.db.spans)
  BY <1>1, Lengths DEF Formed
<1>5. /\ y.db.sessions = x.db.sessions /\ y.db.away = x.db.away /\ y.w.session = x.w.session
      /\ y.w.afk = x.w.afk /\ y.w.away = x.w.away /\ y.w.spanAfk = 0
  BY <1>3 DEF SpanOpens
<1>6. PICK i : i = y.w.span
  OBVIOUS
<1>7. /\ i \in 1 .. Len(y.db.spans) /\ y.db.spans[i].entered = t /\ Len(y.db.spans) \in {n, n + 1}
      /\ \A j \in 1 .. n : y.db.spans[j] = x.db.spans[j]
      /\ \A j \in 1 .. Len(y.db.spans) : j # i => j \in 1 .. n
      /\ i \in 1 .. n => x.db.spans[i].entered = t
  <2>1. CASE y.w.span = n + 1
    <3>1. /\ Len(y.db.spans) = n + 1 /\ \A j \in 1 .. n : y.db.spans[j] = x.db.spans[j]
          /\ y.db.spans[n + 1] = [session |-> x.w.session, area |-> area, entered |-> t,
                                 exited |-> NoTs, afk |-> 0]
      BY <1>3, <1>4, <2>1 DEF SpanOpens
    <3> QED BY <1>6, <2>1, <3>1
  <2>2. CASE y.w.span # n + 1
    <3>1. /\ y.w.span \in 1 .. n /\ y.db.spans = x.db.spans /\ x.db.spans[y.w.span].entered = t
      BY <1>3, <1>4, <2>2 DEF SpanOpens
    <3> QED BY <1>4, <1>6, <3>1
  <2> QED BY <2>1, <2>2
<1>8. AllFit(y, t)
  <2>1. ASSUME NEW r \in x.db.away PROVE Fits(y.db, r) /\ r.off <= t
    <3>1. Fits(x.db, r) /\ r.off <= t
      BY <1>1 DEF Counted, AllFit
    <3>2. r.span \in 1 .. n /\ r.span \in 1 .. Len(y.db.spans)
      BY <1>4, <1>7, <3>1 DEF Fits
    <3> QED BY <1>7, <3>1, <3>2 DEF Fits
  <2> QED BY <1>1, <1>5, <2>1 DEF Counted, AllFit
<1>9. Pending(y, t)
  <2>1. y.db.spans[y.w.span].entered = t
    BY <1>6, <1>7
  <2>2. \A k \in Away : x.w.away[k] # NoTs => x.w.away[k] = t
    BY <1>1
  <2> QED BY <1>1, <1>5, <2>1, <2>2 DEF Counted, Pending
<1>10. SpansCount(y)
  <2>1. ASSUME NEW j \in 1 .. Len(y.db.spans), j # i
        PROVE  /\ y.db.spans[j].exited # NoTs /\ y.db.spans[j].afk = Secs(InSpan(x.db.away, j))
               /\ \A r \in x.db.away : r.span = j => r.off <= y.db.spans[j].exited
    <3>1. j \in 1 .. n /\ j # x.w.span /\ y.db.spans[j] = x.db.spans[j]
      BY <1>1, <1>7, <2>1 DEF NoId
    <3> QED BY <1>1, <1>4, <3>1 DEF Counted, SpansCount
  <2> QED BY <1>5, <1>6, <2>1 DEF SpansCount
<1>11. SessionsCount(y)
  BY <1>1, <1>5 DEF Counted, SessionsCount
<1>12. WriterCounts(y)
  <2>1. PICK C : C = InSpan(x.db.away, i)
    OBVIOUS
  <2>2. IsFiniteSet(C) /\ Integral(C)
    <3>1. Integral(x.db.away) /\ IsFiniteSet(x.db.away) /\ C \subseteq x.db.away
      BY <1>1, <2>1, FitLengths DEF Counted, AllFit, InSpan
    <3> QED BY <3>1, FS_Subset DEF Integral
  <2>3. ASSUME NEW r \in C PROVE Length(r) = 0
    <3>1. Fits(x.db, r) /\ r.off <= t /\ r.span = i
      BY <1>1, <2>1 DEF Counted, AllFit, InSpan
    <3>2. x.db.spans[i].entered = t
      BY <1>4, <1>7, <3>1 DEF Fits
    <3>3. t <= r.on /\ r.on <= r.off /\ r.on \in Nat /\ r.off \in Nat
      BY <3>1, <3>2 DEF Fits
    <3> QED BY <3>1, <3>3 DEF Length
  <2>4. Secs(C) = 0
    BY <2>2, <2>3, SecsOfZeros, SecsOfNone
  <2> QED BY <1>1, <1>5, <1>6, <2>1, <2>4 DEF Counted, WriterCounts
<1>13. i # NoId
  BY <1>4, <1>7 DEF NoId
<1> QED BY <1>5, <1>6, <1>8, <1>9, <1>10, <1>11, <1>12, <1>13 DEF Counted

(* Before the first line, and from it on, when no new Writer has come.     *)
Idle(x) ==
  /\ x.w.session = NoId /\ x.w.span = NoId /\ x.w.last = NoTs
  /\ Len(x.db.sessions) = 0 /\ Len(x.db.spans) = 0
Going(x) == x.w.session # NoId /\ x.w.span # NoId /\ x.w.last # NoTs

LEMMA GoingPlays ==
  ASSUME NEW n \in Nat, NEW E, NEW x, Sound(x, n, E), InItsSession(x), x.w.span # NoId
  PROVE  Playing(x)
<1>1. Formed(x) /\ Times(x.db, n) /\ x.w.span \in 0 .. Len(x.db.spans)
  BY DEF Sound, Located
<1>2. SpanTimes(x.db)
  BY <1>1 DEF Times, SpanTimes
<1>3. x.w.span \in 1 .. Len(x.db.spans)
  BY <1>1 DEF NoId
<1> QED BY <1>1, <1>2, <1>3 DEF Playing, InItsSession

LEMMA LeftLater ==
  ASSUME NEW t \in Nat, NEW x, Left(x, t), \A k \in Away : x.w.away[k] = NoTs, NEW n \in Nat, t <= n
  PROVE  Left(x, n)
BY LaterCounted DEF Left

LEMMA SessionStartCounted ==
  ASSUME NEW t \in Nat \ {0}, NEW E, NEW x, Sound(x, t, E), InItsSession(x),
         Counted(x, x.w.last), Idle(x) \/ Going(x),
         \A s \in 1 .. Len(x.db.sessions) : x.db.sessions[s].start # t,
         NEW y, y = handleSessionStart(x, t)
  PROVE  Counted(y, t) /\ y.w.session # NoId /\ y.w.span # NoId
<1>1. PICK end \in 0 .. t : end = x.w.last
  BY DEF Sound, Located
<1>2. PICK v : v = closeSession(x, end)
  OBVIOUS
<1>3. Left(v, t) /\ v.w.session = NoId
      /\ \A s \in 1 .. Len(v.db.sessions) : v.db.sessions[s].start # t
  <2>1. CASE Idle(x)
    <3>1. v = x
      BY <1>2, <2>1 DEF closeSession, Idle
    <3>2. \A k \in Away : x.w.away[k] = NoTs
      BY <2>1 DEF Counted, Pending, Idle, NoTs
    <3>3. SpanTimes(x.db) /\ Formed(x)
      BY DEF Sound, Times, SpanTimes
    <3>4. Counted(x, t)
      BY <1>1, LaterCounted
    <3> QED BY <2>1, <3>1, <3>2, <3>3, <3>4 DEF Left, Idle
  <2>2. CASE Going(x)
    <3>1. Playing(x) /\ end # NoTs
      BY <1>1, <2>2, GoingPlays DEF Going
    <3>2. Left(v, end) /\ v.w.session = NoId /\ \A k \in Away : v.w.away[k] = NoTs
      BY <1>1, <1>2, <3>1, CloseSessionCounted
    <3>3. Left(v, t)
      BY <3>2, LeftLater
    <3>4. \A s \in 1 .. Len(v.db.sessions) :
            s \in 1 .. Len(x.db.sessions) /\ v.db.sessions[s].start = x.db.sessions[s].start
      BY <1>1, <1>2, CloseSessionSound
    <3> QED BY <3>2, <3>3, <3>4
  <2> QED BY <2>1, <2>2
<1>4. PICK z : z = beginSession(v, t)
  OBVIOUS
<1>5. Left(z, t) /\ z.w.session \in 1 .. Len(z.db.sessions) /\ z.w.session # NoId
  BY <1>3, <1>4, BeginSessionCounted
<1>6. y = openSpan(z, t, None)
  BY <1>1, <1>2, <1>4 DEF handleSessionStart
<1> QED BY <1>5, <1>6, OpenSpanCounted

LEMMA AreaEnteredCounted ==
  ASSUME NEW t \in Nat \ {0}, NEW E, NEW x, Sound(x, t, E), InItsSession(x),
         Counted(x, x.w.last), Going(x), NEW area, NEW y, y = handleAreaEntered(x, t, area)
  PROVE  Counted(y, t) /\ y.w.session # NoId /\ y.w.span # NoId
<1>1. x.w.last \in 0 .. t /\ Playing(x) /\ ensureSession(x, t) = x
  BY GoingPlays DEF Sound, Located, Going, ensureSession
<1>2. Counted(x, t)
  BY <1>1, LaterCounted
<1>3. PICK yes : yes = TRUE
  OBVIOUS
<1>4. PICK z : z = closeSpan(x, t, yes)
  OBVIOUS
<1>5. Left(z, t) /\ z.w.session = x.w.session /\ z.db.sessions = x.db.sessions
  <2>1. Carry(yes, t) \in {NoTs, t} /\ t # NoTs
    BY <1>3 DEF Carry, NoTs
  <2> QED BY <1>1, <1>2, <1>4, <2>1, CloseSpanCounted
<1>6. y = openSpan(z, t, area)
  <2>1. z = closeSpan(x, t, TRUE)
    BY <1>3, <1>4, Zenon
  <2> QED BY <1>1, <2>1 DEF handleAreaEntered
<1>7. z.w.session \in 1 .. Len(z.db.sessions) /\ z.w.session # NoId
  BY <1>1, <1>5, PlayingIn
<1> QED BY <1>5, <1>6, <1>7, OpenSpanCounted

LEMMA AwayCounted ==
  ASSUME NEW t \in Nat \ {0}, NEW E, NEW x, Sound(x, t, E), InItsSession(x),
         Counted(x, x.w.last), Going(x), NEW kind \in Away, NEW y, y = handleAway(x, kind, t)
  PROVE  Counted(y, t)
<1>1. x.w.last \in 0 .. t /\ Playing(x) /\ Pair(x) /\ Times(x.db, t)
  BY GoingPlays DEF Sound, Located, Going, Formed
<1>2. Counted(x, t)
  BY <1>1, LaterCounted
<1>3. /\ y.db = x.db /\ y.w.away = [x.w.away EXCEPT ![kind] = t] /\ y.w.session = x.w.session
      /\ y.w.span = x.w.span /\ y.w.afk = x.w.afk /\ y.w.spanAfk = x.w.spanAfk
  BY <1>1 DEF handleAway, Pair
<1>4. x.w.away \in [Away -> Nat]
  BY <1>2 DEF Counted, Pending
<1>5. AllFit(y, t) /\ SpansCount(y) /\ SessionsCount(y) /\ WriterCounts(y)
  BY <1>2, <1>3 DEF Counted, AllFit, SpansCount, SessionsCount, WriterCounts
<1>6. Pending(y, t)
  <2>1. y.w.away \in [Away -> Nat] /\ \A k \in Away : y.w.away[k] = IF k = kind THEN t ELSE x.w.away[k]
    BY <1>3, <1>4
  <2>2. ASSUME NEW k \in Away, y.w.away[k] # NoTs
        PROVE  /\ y.w.away[k] <= t
               /\ \A r \in x.db.away : r.kind = k => r.off <= y.w.away[k]
               /\ x.db.spans[x.w.span].entered <= y.w.away[k]
    <3>1. CASE k = kind
      <4>1. x.db.spans[x.w.span].entered \in 1 .. t
        BY <1>1 DEF Times, Playing
      <4>2. y.w.away[k] = t
        BY <2>1, <3>1
      <4> QED BY <1>2, <4>1, <4>2 DEF Counted, AllFit
    <3>2. CASE k # kind
      <4>1. y.w.away[k] = x.w.away[k]
        BY <2>1, <3>2
      <4> QED BY <1>1, <1>2, <2>2, <4>1, PlayingIn DEF Counted, Pending
    <3> QED BY <3>1, <3>2
  <2> QED BY <1>3, <2>1, <2>2 DEF Pending
<1> QED BY <1>5, <1>6 DEF Counted

LEMMA BackCounted ==
  ASSUME NEW t \in Nat \ {0}, NEW E, NEW x, Sound(x, t, E), InItsSession(x),
         Counted(x, x.w.last), Going(x), NEW kind \in Away, NEW y, y = handleBack(x, kind, t)
  PROVE  Counted(y, t)
<1>1. x.w.last \in 0 .. t /\ Playing(x)
  BY GoingPlays DEF Sound, Located, Going
<1>2. Counted(x, t)
  BY <1>1, LaterCounted
<1>3. PICK no : no = FALSE
  OBVIOUS
<1>4. Carry(no, t) \in {NoTs, t}
  BY <1>3 DEF Carry
<1>5. y = EndAway(x, kind, t, no)
  BY <1>3, Zenon DEF handleBack
<1> QED BY <1>1, <1>2, <1>4, <1>5, EndAwayCounted

LEMMA NoteCounted ==
  ASSUME NEW t \in Nat, NEW E, NEW x, Sound(x, t, E), Counted(x, x.w.last), NEW y, NEW line,
         y \in {handleNote(x, line), handlePvpQueue(x, t), handlePvpQueueCancelled(x, t)}
  PROVE  Counted(y, t)
<1>1. x.w.last \in 0 .. t /\ Pair(x)
  BY DEF Sound, Located, Formed
<1>2. Counted(x, t)
  BY <1>1, LaterCounted
<1>3. /\ y.db.away = x.db.away /\ y.db.spans = x.db.spans /\ y.db.sessions = x.db.sessions
      /\ y.w.away = x.w.away /\ y.w.span = x.w.span /\ y.w.session = x.w.session
      /\ y.w.spanAfk = x.w.spanAfk /\ y.w.afk = x.w.afk
  <2>1. CASE y = handleNote(x, line)
    BY <1>1, <2>1 DEF handleNote, Pair
  <2>2. CASE y = handlePvpQueue(x, t)
    BY <1>1, <2>2 DEF handlePvpQueue, Pair
  <2>3. CASE y = handlePvpQueueCancelled(x, t)
    BY <1>1, <2>3 DEF handlePvpQueueCancelled, Pair
  <2> QED BY <2>1, <2>2, <2>3
<1> QED BY <1>2, <1>3, SameCounted

LEMMA SweepCounted ==
  ASSUME NEW t, NEW x, Formed(x), Counted(x, t), x.w.span \in 0 .. Len(x.db.spans),
         NEW y, y = [db |-> CloseOrphans(x.db), w |-> x.w]
  PROVE  Counted(y, t)
<1>1. Formed(y) /\ SweepEnds(x, y) /\ y.w = x.w
  BY CloseOrphansDoes
<1>2. /\ Len(y.db.sessions) = Len(x.db.sessions) /\ Len(y.db.spans) = Len(x.db.spans)
      /\ y.db.away = x.db.away
  BY <1>1 DEF SweepEnds
<1>3. ASSUME NEW i \in 1 .. Len(x.db.spans)
      PROVE  /\ y.db.spans[i].session = x.db.spans[i].session
             /\ y.db.spans[i].entered = x.db.spans[i].entered
             /\ y.db.spans[i].afk = x.db.spans[i].afk
             /\ x.db.spans[i].exited # NoTs => y.db.spans[i].exited = x.db.spans[i].exited
  BY <1>1 DEF SweepEnds
<1>4. ASSUME NEW s \in 1 .. Len(x.db.sessions)
      PROVE  y.db.sessions[s].afk = IF x.db.sessions[s].end = NoTs THEN Secs(InSession(x.db.away, s))
                                                               ELSE x.db.sessions[s].afk
  <2>1. s \in Unended(x.db) <=> x.db.sessions[s].end = NoTs
    BY Lengths DEF Formed, Unended
  <2> QED BY <1>1, <2>1 DEF SweepEnds, AwayOf, InSession
<1>5. AllFit(y, t)
  <2>1. IsFiniteSet(x.db.away) /\ \A r \in x.db.away : Fits(x.db, r) /\ r.off <= t
    BY DEF Counted, AllFit
  <2>2. ASSUME NEW r \in x.db.away
        PROVE  Fits(y.db, r)
    <3>1. Fits(x.db, r)
      BY <2>1
    <3>2. r.span \in 1 .. Len(x.db.spans)
      BY <3>1 DEF Fits
    <3>3. /\ y.db.spans[r.span].session = x.db.spans[r.span].session
          /\ y.db.spans[r.span].entered = x.db.spans[r.span].entered
      BY <1>3, <3>2
    <3> QED BY <1>2, <3>1, <3>3 DEF Fits
  <2> QED BY <1>2, <2>1, <2>2 DEF AllFit
<1>6. Pending(y, t)
  <2>1. ASSUME NEW k \in Away, x.w.away[k] # NoTs, x.w.span # NoId
        PROVE  y.db.spans[x.w.span].entered <= x.w.away[k]
    <3>1. x.w.span \in 1 .. Len(x.db.spans)
      BY <2>1, Lengths DEF Formed, NoId
    <3>2. y.db.spans[x.w.span].entered = x.db.spans[x.w.span].entered
      BY <1>3, <3>1
    <3> QED BY <2>1, <3>2 DEF Counted, Pending
  <2> QED BY <1>1, <1>2, <2>1 DEF Counted, Pending
<1>7. SpansCount(y)
  BY <1>1, <1>2, <1>3 DEF Counted, SpansCount
<1>8. SessionsCount(y)
  BY <1>1, <1>2, <1>4 DEF Counted, SessionsCount
<1>9. WriterCounts(y)
  BY <1>1, <1>2 DEF Counted, WriterCounts
<1> QED BY <1>5, <1>6, <1>7, <1>8, <1>9 DEF Counted

-----------------------------------------------------------------------------
(* Until a new Writer takes over, the away times are counted, and from the *)
(* first line on the Writer is in a span of a session.                     *)
AllCounted ==
  /\ todo = <<>> /\ Counted(Here, w.last)
  /\ \/ log = <<>> /\ Idle(Here)
     \/ log # <<>> /\ Going(Here)

Tallied == restarts \in Nat /\ (restarts = 0 => AllCounted)

LEMMA InitTallied == ASSUME Init PROVE Tallied
<1> USE DEF Init
<1>1. /\ Here.db = db /\ Here.w = NoWriter /\ Len(db.sessions) = 0 /\ Len(db.spans) = 0
      /\ db.away = {}
  BY DEF Here
<1>2. Counted(Here, w.last)
  <2>1. AllFit(Here, w.last)
    BY <1>1, FS_EmptySet DEF AllFit
  <2>2. Pending(Here, w.last)
    BY <1>1 DEF Pending, NoWriter, NoTs
  <2>3. SpansCount(Here) /\ SessionsCount(Here) /\ WriterCounts(Here)
    BY <1>1 DEF SpansCount, SessionsCount, WriterCounts, NoWriter
  <2> QED BY <2>1, <2>2, <2>3 DEF Counted
<1>3. Idle(Here)
  BY <1>1 DEF Idle, NoWriter
<1>4. AllCounted
  BY <1>2, <1>3, Zenon DEF AllCounted
<1> QED BY <1>4 DEF Tallied

(* A line that makes x of the tables and the Writer.                       *)
LEMMA LineTallied ==
  ASSUME Inv, Tallied, NEW l \in NextLines, Reads(l), NEW x, Pair(x), Makes(x, l),
         restarts = 0 => Counted(x, l.ts) /\ x.w.session # NoId /\ x.w.span # NoId
  PROVE  Tallied'
<1>1. l.ts \in Nat \ {0} /\ todo' = <<>> /\ log' \in Seq(LogLine)
  BY ReadsLine DEF Inv
<1>2. restarts' = restarts /\ db' = x.db /\ w' = [x.w EXCEPT !.last = l.ts]
  BY DEF Makes
<1>3. /\ Here'.db = x.db /\ Here'.w = w' /\ w'.last = l.ts
      /\ w'.away = x.w.away /\ w'.span = x.w.span /\ w'.session = x.w.session
      /\ w'.spanAfk = x.w.spanAfk /\ w'.afk = x.w.afk
  BY <1>2 DEF Pair, Here
<1> SUFFICES ASSUME restarts = 0 PROVE AllCounted'
  BY <1>2 DEF Tallied
<1>4. Counted(Here', w'.last)
  BY <1>3, SameCounted
<1>5. log' # <<>>
  <2>1. todo = <<>>
    BY DEF Tallied, AllCounted
  <2>2. log' = Append(log, l) /\ l \in LogLine
        /\ log \in Seq(LogLine)
    <3>1. l \in FreshLines /\ log' = Append(log, l)
      BY <2>1 DEF Reads, NextLines
    <3>2. Now \in Nat
      BY DEF Inv, Logged, Now
    <3> QED BY <3>1, <3>2, WriterAssumption DEF FreshLines, LogLine, Inv, Logged
  <2> QED BY <2>2
<1>6. Going(Here')
  BY <1>1, <1>3 DEF Going, NoTs
<1> QED BY <1>1, <1>4, <1>5, <1>6 DEF AllCounted

(* A line that says the parser nothing new.                                *)
LEMMA StaysTallied ==
  ASSUME Inv, Tallied, NEW l \in NextLines, Reads(l), UNCHANGED <<db, w, restarts>>,
         log # <<>>
  PROVE  Tallied'
<1>1. todo' = <<>>
  BY ReadsLine DEF Inv
<1>2. log' # <<>>
  <2>1. CASE todo # <<>>
    BY <2>1 DEF Reads
  <2>2. CASE todo = <<>>
    <3>1. l \in FreshLines /\ log' = Append(log, l)
      BY <2>2 DEF Reads, NextLines
    <3>2. Now \in Nat
      BY DEF Inv, Logged, Now
    <3>3. l \in LogLine
          /\ log \in Seq(LogLine)
      BY <3>1, <3>2, WriterAssumption DEF FreshLines, LogLine, Inv, Logged
    <3> QED BY <3>1, <3>3
  <2> QED BY <2>1, <2>2
<1>3. Here' = Here
  BY DEF Here
<1> QED BY <1>1, <1>2, <1>3 DEF Tallied, AllCounted

LEMMA NextTallied ==
  ASSUME ReadOnce, Inv, Tallied, [Next]_vars
  PROVE  Tallied'
<1>0. Pair(Here) /\ Here.db = db /\ Here.w = w
  BY DEF Inv, Sound, Formed, Here
<1>1. ASSUME NEW l \in NextLines, Reads(l)
      PROVE  /\ Sound(Here, l.ts, EntryTimes') /\ InItsSession(Here) /\ l.ts \in Nat \ {0}
             /\ todo = <<>> /\ l.kind = "start" => \A e \in EntryTimes : e < l.ts
             /\ todo = <<>> /\ l.kind # "start" => log # <<>>
  <2>1. /\ Now \in Nat \ {0} /\ l.ts \in Nat \ {0} /\ Now <= l.ts /\ EntryTimes \subseteq EntryTimes'
        /\ todo = <<>> /\ l.kind = "start" => \A e \in EntryTimes : e < l.ts
    BY <1>1, ReadsLine DEF Inv
  <2>2. Sound(Here, l.ts, EntryTimes')
    BY <2>1, LaterSound DEF Inv
  <2>3. todo = <<>> /\ l.kind # "start" => log # <<>>
    BY <1>1 DEF Reads, Possible
  <2> QED BY <2>1, <2>2, <2>3 DEF Inv
<1>2. restarts = 0 => /\ todo = <<>> /\ Counted(Here, Here.w.last) /\ (Idle(Here) \/ Going(Here))
                      /\ log # <<>> => Going(Here)
  BY <1>0 DEF Tallied, AllCounted
<1>3. ASSUME NEW l \in NextLines, Reads(l), l.kind # "start", NEW x, Pair(x), Keeps(Here, x),
             Becomes(x, l) \/ (Enrols(l) /\ x = Here), restarts = 0 => Counted(x, l.ts)
      PROVE  Tallied'
  <2>1. restarts = 0 => x.w.session # NoId /\ x.w.span # NoId
    BY <1>1, <1>2, <1>3 DEF Keeps, Going
  <2> QED BY <1>3, <2>1, LineTallied, LineMakes
<1>4. ASSUME SessionStart PROVE Tallied'
  <2>1. PICK l \in NextLines : On("start", l) /\ Becomes(handleSessionStart(Here, l.ts), l)
    BY <1>4 DEF SessionStart
  <2>2. Reads(l) /\ l.kind = "start" /\ Entry(l)
    BY <2>1 DEF On, Entry
  <2>3. PICK x : x = handleSessionStart(Here, l.ts)
    OBVIOUS
  <2>4. ASSUME restarts = 0, NEW s \in 1 .. Len(Here.db.sessions)
        PROVE  Here.db.sessions[s].start # l.ts
    <3>1. \A e \in EntryTimes : e < l.ts
      BY <1>1, <1>2, <2>2, <2>4
    <3>2. Here.db.sessions[s].start \in EntryTimes
      BY <2>4 DEF Inv, Sound, StartIn
    <3> QED BY <1>1, <2>2, <3>1, <3>2
  <2>5. restarts = 0 => Counted(x, l.ts) /\ x.w.session # NoId /\ x.w.span # NoId
    BY <1>1, <1>2, <2>2, <2>3, <2>4, SessionStartCounted
  <2>6. Pair(x)
    <3>1. Here.w.last # NoTs => \A s \in 1 .. Len(Here.db.sessions) : Here.db.sessions[s].start # l.ts
      <4>1. ASSUME Here.w.last # NoTs, NEW s \in 1 .. Len(Here.db.sessions)
            PROVE  Here.db.sessions[s].start # l.ts
        <5>1. w.last # NoTs => todo = <<>>
          BY <2>2, ReadsLine DEF Inv
        <5>2. \A e \in EntryTimes : e < l.ts
          BY <1>0, <1>1, <2>2, <4>1, <5>1
        <5>3. Here.db.sessions[s].start \in EntryTimes
          BY <4>1 DEF Inv, Sound, StartIn
        <5> QED BY <1>1, <2>2, <5>2, <5>3
      <4> QED BY <4>1
    <3>2. l.ts \in EntryTimes'
      BY <2>2, EntryLine
    <3>3. NewestOpen(Here.db)
      BY <1>0 DEF Inv
    <3>4. Sound(x, l.ts, EntryTimes')
      BY <1>1, <2>2, <2>3, <3>1, <3>2, <3>3, SessionStartSound
    <3> QED BY <3>4 DEF Sound, Formed
  <2> QED BY <2>1, <2>2, <2>3, <2>5, <2>6, LineTallied, LineMakes
<1>5. ASSUME AreaEntered PROVE Tallied'
  <2>1. PICK l \in NextLines : On("area", l) /\ Becomes(handleAreaEntered(Here, l.ts, l.area), l)
    BY <1>5 DEF AreaEntered
  <2>2. Reads(l) /\ l.kind = "area" /\ Entry(l)
    BY <2>1 DEF On, Entry
  <2>3. PICK x : x = handleAreaEntered(Here, l.ts, l.area)
    OBVIOUS
  <2>4. restarts = 0 => Counted(x, l.ts) /\ x.w.session # NoId /\ x.w.span # NoId
    BY <1>1, <1>2, <2>2, <2>3, AreaEnteredCounted
  <2>5. Pair(x)
    <3>1. /\ Sound(Here, l.ts, EntryTimes') /\ InItsSession(Here) /\ NewestOpen(Here.db)
          /\ l.ts \in Nat \ {0} /\ l.ts \in EntryTimes'
      BY <2>2, EntryLine
    <3>2. Sound(x, l.ts, EntryTimes')
      BY <2>3, <3>1, AreaEnteredSound
    <3> QED BY <3>2 DEF Sound, Formed
  <2> QED BY <2>1, <2>2, <2>3, <2>4, <2>5, LineTallied, LineMakes
<1>6. ASSUME NEW l \in NextLines, Reads(l), l.kind # "start", NEW k \in Away, NEW x,
             x \in {handleAway(Here, k, l.ts), handleBack(Here, k, l.ts)}, Becomes(x, l)
      PROVE  Tallied'
  <2>1. Pair(x) /\ Keeps(Here, x)
    BY <1>0, <1>6, OthersKeep
  <2>2. restarts = 0 => Counted(x, l.ts)
    BY <1>1, <1>2, <1>6, AwayCounted, BackCounted
  <2> QED BY <1>3, <1>6, <2>1, <2>2
<1>7. "afk" \in Away /\ "alt_tab" \in Away
  BY DEF Away
<1>8. ASSUME AfkOn PROVE Tallied'
  <2>1. PICK l \in NextLines : On("afk_on", l) /\ Becomes(handleAway(Here, "afk", l.ts), l)
    BY <1>8 DEF AfkOn
  <2> QED BY <1>6, <1>7, <2>1 DEF On
<1>9. ASSUME AfkOff PROVE Tallied'
  <2>1. PICK l \in NextLines : On("afk_off", l) /\ Becomes(handleBack(Here, "afk", l.ts), l)
    BY <1>9 DEF AfkOff
  <2> QED BY <1>6, <1>7, <2>1 DEF On
<1>10. ASSUME NEW l \in NextLines, Reads(l), l.kind # "start", UNCHANGED <<db, w, restarts>>
       PROVE  Tallied'
  <2>1. CASE log # <<>>
    BY <1>10, <2>1, StaysTallied
  <2>2. CASE log = <<>>
    <3>1. restarts # 0
      BY <1>1, <1>2, <1>10, <2>2
    <3> QED BY <1>10, <3>1 DEF Tallied
  <2> QED BY <2>1, <2>2
<1>11. ASSUME FocusLost PROVE Tallied'
  <2>1. PICK l \in NextLines : /\ On("lost", l)
                              /\ IF altTab THEN UNCHANGED <<db, w, roster, restVars>>
                                           ELSE Becomes(handleAway(Here, "alt_tab", l.ts), l)
    BY <1>11 DEF FocusLost
  <2>2. Reads(l) /\ l.kind # "start"
    BY <2>1 DEF On
  <2>3. CASE altTab
    BY <1>10, <2>1, <2>2, <2>3 DEF restVars
  <2>4. CASE ~altTab
    BY <1>6, <1>7, <2>1, <2>2, <2>4
  <2> QED BY <2>3, <2>4
<1>12. ASSUME FocusGained PROVE Tallied'
  <2>1. PICK l \in NextLines : /\ On("gained", l)
                              /\ IF altTab THEN Becomes(handleBack(Here, "alt_tab", l.ts), l)
                                           ELSE UNCHANGED <<db, w, roster, restVars>>
    BY <1>12 DEF FocusGained
  <2>2. Reads(l) /\ l.kind # "start"
    BY <2>1 DEF On
  <2>3. CASE altTab
    BY <1>6, <1>7, <2>1, <2>2, <2>3
  <2>4. CASE ~altTab
    BY <1>10, <2>1, <2>2, <2>4 DEF restVars
  <2> QED BY <2>3, <2>4
<1>13. ASSUME Note \/ PvpQueue \/ PvpQueueCancelled PROVE Tallied'
  <2> DEFINE After(l) ==
        {handleNote(Here, Line), handlePvpQueue(Here, l.ts), handlePvpQueueCancelled(Here, l.ts)}
  <2>0. PICK l \in NextLines :
          Reads(l) /\ l.kind # "start" /\ \E x \in After(l) : Becomes(x, l)
    BY <1>13 DEF Note, PvpQueue, PvpQueueCancelled, On
  <2>1. PICK x \in After(l) : Reads(l) /\ l.kind # "start" /\ Becomes(x, l)
    BY <2>0
  <2>2. Pair(x) /\ Keeps(Here, x)
    BY <1>0, <2>1, OthersKeep
  <2>3. ASSUME restarts = 0 PROVE Counted(x, l.ts)
    <3>1. Sound(Here, l.ts, EntryTimes') /\ Counted(Here, Here.w.last) /\ l.ts \in Nat
      BY <1>1, <1>2, <2>1, <2>3
    <3>2. x \in {handleNote(Here, Line), handlePvpQueue(Here, l.ts),
                 handlePvpQueueCancelled(Here, l.ts)}
      OBVIOUS
    <3> HIDE DEF After
    <3> QED BY <3>1, <3>2, NoteCounted
  <2> QED BY <1>3, <2>1, <2>2, <2>3
<1>14. ASSUME CommitBatch \/ UNCHANGED vars PROVE Tallied'
  <2>1. UNCHANGED <<db, w, log, todo, restarts>> /\ Here' = Here
    BY <1>14 DEF CommitBatch, vars, Here
  <2> QED BY <2>1 DEF Tallied, AllCounted
<1>15. ASSUME Sweep PROVE Tallied'
  <2>1. UNCHANGED <<w, log, todo, restarts>> /\ Unended(db) # {}
        /\ Here' = [db |-> CloseOrphans(Here.db), w |-> Here.w]
    BY <1>15 DEF Sweep, Here
  <2> SUFFICES ASSUME restarts = 0 PROVE AllCounted'
    BY <2>1 DEF Tallied
  <2>2. Formed(Here) /\ Here.w.span \in 0 .. Len(Here.db.spans)
    BY DEF Inv, Sound, Located
  <2>3. PICK y : y = Here'
    OBVIOUS
  <2>4. Counted(y, Here.w.last) /\ y.w = Here.w
    BY <1>2, <2>1, <2>2, <2>3, SweepCounted
  <2>5. log # <<>>
    <3>1. SUFFICES ASSUME Idle(Here) PROVE FALSE
      BY DEF Tallied, AllCounted
    <3>2. DOMAIN db.sessions = 1 .. Len(db.sessions) /\ Len(db.sessions) = 0
      BY <1>0, <2>2, <3>1, Lengths DEF Formed, Idle
    <3> QED BY <2>1, <3>2 DEF Unended
  <2>6. Going(Here')
    BY <1>2, <2>3, <2>4, <2>5 DEF Going
  <2> QED BY <1>0, <1>2, <2>1, <2>3, <2>4, <2>5, <2>6 DEF AllCounted
<1>16. ASSUME Restart PROVE Tallied'
  BY <1>16 DEF Restart, Tallied
<1>17. ASSUME ReadAgain PROVE Tallied'
  BY <1>17 DEF ReadAgain, ReadOnce
<1>18. ASSUME LevelUp \/ CharacterDeath PROVE Tallied'
  <2>1. PICK l \in NextLines : Reads(l) /\ l.kind # "start" /\ Enrols(l)
    BY <1>18 DEF LevelUp, CharacterDeath, On, Enrols
  <2>2. Keeps(Here, Here)
    BY DEF Keeps
  <2>3. ASSUME restarts = 0 PROVE Counted(Here, l.ts)
    <3>1. Here.w.last \in 0 .. l.ts /\ l.ts \in Nat
      BY <1>1, <2>1 DEF Sound, Located
    <3> QED BY <1>2, <2>3, <3>1, LaterCounted
  <2> QED BY <1>0, <1>3, <2>1, <2>2, <2>3
<1> QED
  BY <1>4, <1>5, <1>8, <1>9, <1>11, <1>12, <1>13, <1>14, <1>15, <1>16, <1>17, <1>18
  DEF Next

LEMMA TalliedAgrees == Tallied => AwayAddsUp /\ AwayWithinSpan
<1> SUFFICES ASSUME Tallied, restarts = 0
             PROVE  /\ \A i \in Span : Closed(i) => db.spans[i].afk = Secs({r \in db.away : r.span = i})
                    /\ \A s \in Session : Ended(s) /\ s # w.session => db.sessions[s].afk = Secs(AwayOf(db, s))
                    /\ \A r \in db.away : r.span # NoId =>
                         /\ db.spans[r.span].session = r.session
                         /\ db.spans[r.span].entered <= r.on /\ r.on <= r.off
                         /\ Closed(r.span) => r.off <= db.spans[r.span].exited
  BY DEF AwayAddsUp, AwayWithinSpan
<1>1. Counted(Here, w.last) /\ Here.db = db /\ Here.w = w
  BY DEF Tallied, AllCounted, Here
<1>2. ASSUME NEW i \in Span, Closed(i) PROVE db.spans[i].afk = Secs({r \in db.away : r.span = i})
  BY <1>1, <1>2 DEF Counted, SpansCount, Span, Closed, InSpan
<1>3. ASSUME NEW s \in Session, Ended(s), s # w.session PROVE db.sessions[s].afk = Secs(AwayOf(db, s))
  BY <1>1, <1>3 DEF Counted, SessionsCount, Session, Ended, InSession, AwayOf
<1>4. ASSUME NEW r \in db.away
      PROVE  /\ db.spans[r.span].session = r.session
             /\ db.spans[r.span].entered <= r.on /\ r.on <= r.off
             /\ Closed(r.span) => r.off <= db.spans[r.span].exited
  <2>1. Fits(db, r)
    BY <1>1 DEF Counted, AllFit
  <2>2. Closed(r.span) => r.off <= db.spans[r.span].exited
    BY <1>1, <2>1 DEF Counted, SpansCount, Closed, Fits
  <2> QED BY <2>1, <2>2 DEF Fits
<1> QED BY <1>2, <1>3, <1>4

(* Until a new Writer takes over, away time adds up from its rows, and a   *)
(* row lies in the span it belongs to, areas entered within one second and *)
(* sweeps included (finalizeAwaySegment, closeSpan, closeSession).         *)
THEOREM AwayAgrees == ReadOnce /\ Spec => [](AwayAddsUp /\ AwayWithinSpan)
<1> SUFFICES ASSUME ReadOnce PROVE Spec => [](AwayAddsUp /\ AwayWithinSpan)
  OBVIOUS
<1>1. Init => Inv /\ Tallied
  BY InitInv, InitTallied
<1>2. Inv /\ Tallied /\ [Next]_vars => (Inv /\ Tallied)'
  BY NextInv, NextTallied
<1> QED BY <1>1, <1>2, TalliedAgrees, PTL DEF Spec

(* The same of the specification that is model-checked, of its behaviours  *)
(* that read a log once.                                                   *)
THEOREM AwayAgreesOnce == ReadOnce /\ MCSpec => []ReadOnceAwayAgrees
<1> SUFFICES ASSUME ReadOnce PROVE MCSpec => []ReadOnceAwayAgrees
  OBVIOUS
<1> DEFINE Once == reading = "once" => Inv /\ Tallied
<1>1. MCInit => Once
  BY InitInv, InitTallied DEF MCInit
<1>2. Once /\ [MCNext]_<<vars, reading>> => Once'
  <2> SUFFICES ASSUME Once, [MCNext]_<<vars, reading>>, reading' = "once" PROVE Inv' /\ Tallied'
    OBVIOUS
  <2>1. reading = "once" /\ [Next]_vars
    BY DEF MCNext
  <2>2. Inv /\ Tallied
    BY <2>1
  <2> QED BY <2>1, <2>2, NextInv, NextTallied
<1>3. Once => ReadOnceAwayAgrees
  BY TalliedAgrees DEF ReadOnceAwayAgrees
<1> QED BY <1>1, <1>2, <1>3, PTL DEF MCSpec

-----------------------------------------------------------------------------
(* The whole log once more.                                                *)

(* A table's keys are its own: those the schema declares UNIQUE.           *)
Keyed(d) ==
  /\ \A s, u \in 1 .. Len(d.sessions) : d.sessions[s].start = d.sessions[u].start => s = u
  /\ \A i, j \in 1 .. Len(d.spans) :
       d.spans[i].session = d.spans[j].session /\ d.spans[i].entered = d.spans[j].entered => i = j
  /\ \A q \in d.queues : q = [session |-> q.session, at |-> q.at, cancelled |-> q.cancelled]

(* The rows of d are among those of f, in the same places; what is written *)
(* to a row when it ends may be another in f.                              *)
KeysIn(d, f) ==
  /\ Len(d.sessions) <= Len(f.sessions)
  /\ \A s \in 1 .. Len(d.sessions) : d.sessions[s].start = f.sessions[s].start
  /\ Len(d.spans) <= Len(f.spans)
  /\ \A i \in 1 .. Len(d.spans) : /\ d.spans[i].session = f.spans[i].session
                                  /\ d.spans[i].area = f.spans[i].area
                                  /\ d.spans[i].entered = f.spans[i].entered
  /\ d.notes \subseteq f.notes
  /\ \A q \in d.queues : \E p \in f.queues : p.session = q.session /\ p.at = q.at

InSpanNow(x) ==
  x.w.session \in 1 .. Len(x.db.sessions) /\ x.w.span \in 1 .. Len(x.db.spans)

(* After a line, the first one at least.                                   *)
Good(x) == Formed(x) /\ Keyed(x.db) /\ InSpanNow(x)

(* The rows of x laid over those of f: what has ended in x is as it is     *)
(* there, and so are the away times.                                       *)
Key(r) == <<r.session, r.kind, r.on>>
Over(new, old) == new \cup {r \in old : \A o \in new : Key(r) # Key(o)}

LaidRows(x, z, f) ==
  /\ Formed(z)
  /\ Len(z.db.sessions) = Len(f.sessions) /\ Len(z.db.spans) = Len(f.spans)
  /\ \A s \in 1 .. Len(f.sessions) :
       z.db.sessions[s] = IF s \in 1 .. Len(x.db.sessions) /\ x.db.sessions[s].end # NoTs
                            THEN x.db.sessions[s] ELSE f.sessions[s]
  /\ \A i \in 1 .. Len(f.spans) :
       z.db.spans[i] = IF i \in 1 .. Len(x.db.spans) /\ x.db.spans[i].exited # NoTs
                         THEN x.db.spans[i] ELSE f.spans[i]
  /\ z.db.away = Over(x.db.away, f.away)
  /\ z.db.notes = f.notes /\ z.db.queues = f.queues

AwayAlike(x, z) == z.w.away = x.w.away /\ z.w.last = x.w.last /\ z.w.queue = <<>>

InSessionAlike(x, z) ==
  z.w.session = x.w.session /\ z.w.start = x.w.start /\ z.w.afk = x.w.afk

(* z is what the second reading makes of f where the first one made x.     *)
Laid(x, z, f) ==
  /\ LaidRows(x, z, f) /\ AwayAlike(x, z) /\ InSessionAlike(x, z)
  /\ z.w.span = x.w.span /\ z.w.spanAfk = x.w.spanAfk

Stamped(x, t) == [db |-> x.db, w |-> [x.w EXCEPT !.last = t]]

(* The n-th line l makes y of x, and b of what the parser knows of the     *)
(* focus.                                                                  *)
Handles(x, a, l, n, y, b) ==
  \/ l.kind = "start" /\ y = Stamped(handleSessionStart(x, l.ts), l.ts) /\ b = FALSE
  \/ l.kind = "area" /\ y = Stamped(handleAreaEntered(x, l.ts, l.area), l.ts) /\ b = a
  \/ l.kind = "afk_on" /\ y = Stamped(handleAway(x, "afk", l.ts), l.ts) /\ b = a
  \/ l.kind = "afk_off" /\ y = Stamped(handleBack(x, "afk", l.ts), l.ts) /\ b = a
  \/ l.kind = "lost" /\ a /\ y = x /\ b = TRUE
  \/ l.kind = "lost" /\ ~a /\ y = Stamped(handleAway(x, "alt_tab", l.ts), l.ts) /\ b = TRUE
  \/ l.kind = "gained" /\ a /\ y = Stamped(handleBack(x, "alt_tab", l.ts), l.ts) /\ b = FALSE
  \/ l.kind = "gained" /\ ~a /\ y = x /\ b = FALSE
  \/ l.kind = "note" /\ y = Stamped(handleNote(x, n), l.ts) /\ b = a
  \/ l.kind = "queue" /\ y = Stamped(handlePvpQueue(x, l.ts), l.ts) /\ b = a
  \/ l.kind = "unqueue" /\ y = Stamped(handlePvpQueueCancelled(x, l.ts), l.ts) /\ b = a
  \/ l.kind \in {"level", "death"} /\ y = Stamped(x, l.ts) /\ b = a

Unread == [db |-> [sessions |-> <<>>, spans |-> <<>>, away |-> {}, notes |-> {}, queues |-> {}],
           w |-> NoWriter]

(* From x to y, rows are added and ended.                                  *)
Grows(x, y) == Formed(y) /\ Keyed(y.db) /\ KeysIn(x.db, y.db)

LEMMA GrowsOn ==
  ASSUME NEW x, Formed(x), NEW y, Grows(x, y), NEW z, Grows(y, z)
  PROVE  Grows(x, z)
<1>1. /\ Len(x.db.sessions) \in Nat /\ Len(y.db.sessions) \in Nat /\ Len(z.db.sessions) \in Nat
      /\ Len(x.db.spans) \in Nat /\ Len(y.db.spans) \in Nat /\ Len(z.db.spans) \in Nat
  BY Lengths DEF Grows, Formed
<1>2. Len(x.db.sessions) <= Len(y.db.sessions) /\ Len(y.db.sessions) <= Len(z.db.sessions)
      /\ Len(x.db.spans) <= Len(y.db.spans) /\ Len(y.db.spans) <= Len(z.db.spans)
  BY DEF Grows, KeysIn
<1>3. ASSUME NEW s \in 1 .. Len(x.db.sessions)
      PROVE  x.db.sessions[s].start = z.db.sessions[s].start
  <2>1. s \in 1 .. Len(y.db.sessions)
    BY <1>1, <1>2
  <2> QED BY <2>1 DEF Grows, KeysIn
<1>4. ASSUME NEW i \in 1 .. Len(x.db.spans)
      PROVE  /\ x.db.spans[i].session = z.db.spans[i].session
             /\ x.db.spans[i].area = z.db.spans[i].area
             /\ x.db.spans[i].entered = z.db.spans[i].entered
  <2>1. i \in 1 .. Len(y.db.spans)
    BY <1>1, <1>2
  <2> QED BY <2>1 DEF Grows, KeysIn
<1>5. x.db.notes \subseteq z.db.notes
  BY DEF Grows, KeysIn
<1>6. ASSUME NEW q \in x.db.queues
      PROVE  \E p \in z.db.queues : p.session = q.session /\ p.at = q.at
  <2>1. PICK r \in y.db.queues : r.session = q.session /\ r.at = q.at
    BY DEF Grows, KeysIn
  <2>2. PICK p \in z.db.queues : p.session = r.session /\ p.at = r.at
    BY DEF Grows, KeysIn
  <2> QED BY <2>1, <2>2
<1>7. Len(x.db.sessions) <= Len(z.db.sessions) /\ Len(x.db.spans) <= Len(z.db.spans)
  <2>1. ASSUME NEW i \in Nat, NEW j \in Nat, NEW k \in Nat, i <= j, j <= k PROVE i <= k
    BY <2>1
  <2> QED BY <1>1, <1>2, <2>1
<1> QED BY <1>3, <1>4, <1>5, <1>6, <1>7 DEF Grows, KeysIn

(* What ends rows or adds to no table of sessions or spans.                *)
LEMMA GrowsNot ==
  ASSUME NEW x, Formed(x), Keyed(x.db), NEW y, Formed(y),
         Len(y.db.sessions) = Len(x.db.sessions), Len(y.db.spans) = Len(x.db.spans),
         \A s \in 1 .. Len(x.db.sessions) : y.db.sessions[s].start = x.db.sessions[s].start,
         \A i \in 1 .. Len(x.db.spans) : /\ y.db.spans[i].session = x.db.spans[i].session
                                         /\ y.db.spans[i].area = x.db.spans[i].area
                                         /\ y.db.spans[i].entered = x.db.spans[i].entered,
         x.db.notes \subseteq y.db.notes, y.db.queues = x.db.queues
  PROVE  Grows(x, y)
<1>1. Len(x.db.sessions) <= Len(y.db.sessions) /\ Len(x.db.spans) <= Len(y.db.spans)
  BY Lengths DEF Formed
<1>2. KeysIn(x.db, y.db)
  BY <1>1 DEF KeysIn
<1>3. Keyed(y.db)
  BY DEF Keyed
<1> QED BY <1>2, <1>3 DEF Grows

LEMMA OnlyAwayGrows ==
  ASSUME NEW x, Formed(x), Keyed(x.db), NEW y, OnlyAway(x, y)
  PROVE  Grows(x, y)
<1>1. /\ y.db.sessions = x.db.sessions /\ y.db.spans = x.db.spans /\ y.db.notes = x.db.notes
      /\ y.db.queues = x.db.queues
  BY DEF OnlyAway, Keeps
<1>2. Formed(y)
  BY <1>1 DEF OnlyAway, Formed, Rows
<1> QED BY <1>1, <1>2, GrowsNot

LEMMA CloseSpanGrows ==
  ASSUME NEW x, Formed(x), Keyed(x.db), x.w.span \in 1 .. Len(x.db.spans), NEW end, end # NoTs,
         NEW next, NEW y, y = closeSpan(x, end, next)
  PROVE  /\ Grows(x, y) /\ y.w.session = x.w.session /\ y.db.sessions = x.db.sessions
         /\ y.w.last = x.w.last
<1>1. PICK z : z = EndBoth(x, end, next)
  OBVIOUS
<1>2. Formed(y) /\ SpanCloses(x, z, y, end)
  BY <1>1, CloseSpanIs
<1>3. /\ y.db.sessions = x.db.sessions /\ y.db.notes = x.db.notes /\ y.db.queues = x.db.queues
      /\ y.w.session = x.w.session /\ Len(y.db.spans) = Len(x.db.spans) /\ y.w.last = x.w.last
  BY <1>2 DEF SpanCloses
<1>4. ASSUME NEW i \in 1 .. Len(x.db.spans)
      PROVE  /\ y.db.spans[i].session = x.db.spans[i].session
             /\ y.db.spans[i].area = x.db.spans[i].area
             /\ y.db.spans[i].entered = x.db.spans[i].entered
  <2>1. y.db.spans[i] = IF i = x.w.span
                          THEN [session |-> x.db.spans[i].session, area |-> x.db.spans[i].area,
                                entered |-> x.db.spans[i].entered, exited |-> end,
                                afk |-> z.w.spanAfk]
                          ELSE x.db.spans[i]
    BY <1>2 DEF SpanCloses
  <2> QED BY <2>1
<1>5. Grows(x, y)
  BY <1>2, <1>3, <1>4, GrowsNot
<1> QED BY <1>3, <1>5

LEMMA CloseSessionGrows ==
  ASSUME NEW x, Good(x), NEW end, NEW y, y = closeSession(x, end)
  PROVE  Grows(x, y)
<1>0. Formed(x) /\ Keyed(x.db) /\ x.w.session \in 1 .. Len(x.db.sessions)
      /\ x.w.span \in 1 .. Len(x.db.spans)
  BY DEF Good, InSpanNow
<1>1. CASE end = NoTs
  <2>1. y = x
    BY <1>1 DEF closeSession
  <2> QED BY <1>0, <2>1, GrowsNot
<1>2. CASE end # NoTs
  <2>1. PICK no : no = FALSE
    OBVIOUS
  <2>2. PICK u : u = closeSpan(x, end, no)
    OBVIOUS
  <2>3. Grows(x, u) /\ u.w.session = x.w.session /\ u.db.sessions = x.db.sessions
    BY <1>0, <1>2, <2>2, CloseSpanGrows
  <2>4. PICK v : v = EndBoth(u, end, no)
    OBVIOUS
  <2>5. Formed(v) /\ OnlyAway(u, v) /\ Formed(y) /\ SessionCloses(v, y, end)
    <3>1. x.w.session # NoId
      BY <1>0 DEF NoId
    <3> QED BY <1>0, <1>2, <2>1, <2>2, <2>3, <2>4, <3>1, CloseSessionIs DEF Grows
  <2>6. Grows(x, v)
    <3>1. Grows(u, v)
      BY <2>3, <2>5, OnlyAwayGrows DEF Grows
    <3> QED BY <1>0, <2>3, <3>1, GrowsOn
  <2>7. /\ y.db.spans = v.db.spans /\ y.db.notes = v.db.notes /\ y.db.queues = v.db.queues
        /\ Len(y.db.sessions) = Len(v.db.sessions)
    BY <2>5 DEF SessionCloses
  <2>8. ASSUME NEW s \in 1 .. Len(v.db.sessions)
        PROVE  y.db.sessions[s].start = v.db.sessions[s].start
    <3>1. SessionRow(v.db.sessions[s])
      BY <2>5 DEF Formed, Rows
    <3>2. y.db.sessions[s] = IF s = v.w.session THEN EndRow(v.db.sessions[s], end, v.w.afk, v.w.start)
                                               ELSE v.db.sessions[s]
      BY <2>5 DEF SessionCloses
    <3>3. EndRow(v.db.sessions[s], end, v.w.afk, v.w.start).start = v.db.sessions[s].start
      BY <3>1, EndRowDoes
    <3> QED BY <3>2, <3>3
  <2>9. Grows(v, y)
    BY <2>5, <2>6, <2>7, <2>8, GrowsNot DEF Grows
  <2> QED BY <1>0, <2>6, <2>9, GrowsOn
<1> QED BY <1>1, <1>2

LEMMA BeginSessionGrows ==
  ASSUME NEW x, Formed(x), Keyed(x.db), NEW ts, NEW y, y = beginSession(x, ts)
  PROVE  Grows(x, y) /\ y.w.session \in 1 .. Len(y.db.sessions)
<1>1. Formed(y) /\ SessionOpens(x, y, ts)
  BY BeginSessionIs
<1>2. PICK n \in Nat : n = Len(x.db.sessions)
  BY Lengths DEF Formed
<1>3. y.db.spans = x.db.spans /\ y.db.notes = x.db.notes /\ y.db.queues = x.db.queues
  BY <1>1 DEF SessionOpens
<1>4. CASE y.w.session \in 1 .. Len(x.db.sessions) /\ y.db.sessions = x.db.sessions
  <2>1. Grows(x, y)
    BY <1>1, <1>3, <1>4, GrowsNot
  <2> QED BY <1>4, <2>1
<1>5. CASE /\ \A s \in 1 .. n : x.db.sessions[s].start # ts
           /\ y.w.session = n + 1 /\ Len(y.db.sessions) = n + 1
           /\ \A s \in 1 .. n : y.db.sessions[s] = x.db.sessions[s]
           /\ y.db.sessions[n + 1] = [start |-> ts, end |-> NoTs, total |-> 0, afk |-> 0, active |-> 0]
  <2>1. /\ y.db.sessions[n + 1].start = ts
        /\ \A s \in 1 .. n : y.db.sessions[s] = x.db.sessions[s] /\ y.db.sessions[s].start # ts
        /\ Len(y.db.sessions) = n + 1
    BY <1>5
  <2>2. KeysIn(x.db, y.db)
    <3>1. Len(x.db.spans) <= Len(y.db.spans) /\ Len(x.db.sessions) <= Len(y.db.sessions)
      BY <1>2, <1>3, <2>1, Lengths DEF Formed
    <3> QED BY <1>2, <1>3, <2>1, <3>1 DEF KeysIn
  <2>3. Keyed(y.db)
    <3>1. ASSUME NEW s \in 1 .. n + 1, NEW u \in 1 .. n + 1,
                 y.db.sessions[s].start = y.db.sessions[u].start
          PROVE  s = u
      <4>1. CASE s \in 1 .. n /\ u \in 1 .. n
        BY <1>2, <2>1, <3>1, <4>1 DEF Keyed
      <4>2. CASE s = n + 1 \/ u = n + 1
        BY <2>1, <3>1, <4>2
      <4> QED BY <4>1, <4>2
    <3> QED BY <1>3, <2>1, <3>1 DEF Keyed
  <2>4. y.w.session \in 1 .. Len(y.db.sessions)
    BY <1>5
  <2> QED BY <1>1, <2>2, <2>3, <2>4 DEF Grows
<1> QED BY <1>1, <1>2, <1>4, <1>5 DEF SessionOpens

LEMMA OpenSpanGrows ==
  ASSUME NEW x, Formed(x), Keyed(x.db), x.w.session # NoId, NEW ts, NEW area,
         NEW y, y = openSpan(x, ts, area)
  PROVE  /\ Grows(x, y) /\ y.w.span \in 1 .. Len(y.db.spans) /\ y.w.session = x.w.session
         /\ y.db.sessions = x.db.sessions
<1>1. Formed(y) /\ SpanOpens(x, y, ts, area)
  BY OpenSpanIs
<1>2. PICK n \in Nat : n = Len(x.db.spans)
  BY Lengths DEF Formed
<1>3. y.db.sessions = x.db.sessions /\ y.db.notes = x.db.notes /\ y.db.queues = x.db.queues
      /\ y.w.session = x.w.session
  BY <1>1 DEF SpanOpens
<1>4. CASE y.w.span \in 1 .. Len(x.db.spans) /\ y.db.spans = x.db.spans
  <2>1. Grows(x, y)
    BY <1>1, <1>3, <1>4, GrowsNot
  <2> QED BY <1>3, <1>4, <2>1
<1>5. CASE /\ \A i \in 1 .. n :
                ~(x.db.spans[i].session = x.w.session /\ x.db.spans[i].entered = ts)
           /\ y.w.span = n + 1 /\ Len(y.db.spans) = n + 1
           /\ \A i \in 1 .. n : y.db.spans[i] = x.db.spans[i]
           /\ y.db.spans[n + 1] = [session |-> x.w.session, area |-> area, entered |-> ts,
                                   exited |-> NoTs, afk |-> 0]
  <2>1. /\ y.db.spans[n + 1].session = x.w.session /\ y.db.spans[n + 1].entered = ts
        /\ \A i \in 1 .. n : /\ y.db.spans[i] = x.db.spans[i]
                             /\ ~(y.db.spans[i].session = x.w.session /\ y.db.spans[i].entered = ts)
        /\ Len(y.db.spans) = n + 1
    BY <1>5
  <2>2. KeysIn(x.db, y.db)
    <3>1. Len(x.db.spans) <= Len(y.db.spans) /\ Len(x.db.sessions) <= Len(y.db.sessions)
      BY <1>2, <1>3, <2>1, Lengths DEF Formed
    <3> QED BY <1>2, <1>3, <2>1, <3>1 DEF KeysIn
  <2>3. Keyed(y.db)
    <3>1. ASSUME NEW i \in 1 .. n + 1, NEW j \in 1 .. n + 1,
                 y.db.spans[i].session = y.db.spans[j].session,
                 y.db.spans[i].entered = y.db.spans[j].entered
          PROVE  i = j
      <4>1. CASE i \in 1 .. n /\ j \in 1 .. n
        BY <1>2, <2>1, <3>1, <4>1 DEF Keyed
      <4>2. CASE i = n + 1 \/ j = n + 1
        BY <2>1, <3>1, <4>2
      <4> QED BY <4>1, <4>2
    <3> QED BY <1>3, <2>1, <3>1 DEF Keyed
  <2>4. y.w.span \in 1 .. Len(y.db.spans)
    BY <1>5
  <2> QED BY <1>1, <1>3, <2>2, <2>3, <2>4 DEF Grows
<1> QED BY <1>1, <1>2, <1>4, <1>5 DEF SpanOpens

Stamps(x, y, t) ==
  /\ y.db = x.db
  /\ y.w = [session |-> x.w.session, start |-> x.w.start, afk |-> x.w.afk, away |-> x.w.away,
            span |-> x.w.span, spanAfk |-> x.w.spanAfk, queue |-> x.w.queue, last |-> t]

LEMMA StampedIs ==
  ASSUME NEW x, Formed(x), NEW t, NEW y, y = Stamped(x, t)
  PROVE  Formed(y) /\ Stamps(x, y, t)
<1>1. y = [db |-> y.db, w |-> y.w] /\ y.db = x.db
      /\ y.w = [session |-> x.w.session, start |-> x.w.start, afk |-> x.w.afk,
                away |-> x.w.away, span |-> x.w.span, spanAfk |-> x.w.spanAfk,
                queue |-> x.w.queue, last |-> t]
  BY DEF Stamped, Formed, Pair
<1>2. Pair(y)
  BY <1>1 DEF Formed, Pair
<1> QED BY <1>1, <1>2 DEF Formed, Stamps

LEMMA StampedGrows ==
  ASSUME NEW x, NEW y, Grows(x, y), InSpanNow(y), NEW t, NEW z, z = Stamped(y, t)
  PROVE  Grows(x, z) /\ InSpanNow(z)
<1>0. Formed(y)
  BY DEF Grows
<1>1. Formed(z) /\ Stamps(y, z, t)
  BY <1>0, StampedIs
<1>2. z.db = y.db /\ z.w.session = y.w.session /\ z.w.span = y.w.span
  BY <1>1 DEF Stamps
<1> QED BY <1>1, <1>2 DEF Grows, InSpanNow

(* The rows that hang on a session are not in the way.                     *)
LEMMA AsideGrows ==
  ASSUME NEW x, Formed(x), Keyed(x.db), NEW y, Formed(y),
         y.db.sessions = x.db.sessions, y.db.spans = x.db.spans,
         x.db.notes \subseteq y.db.notes,
         \A q \in y.db.queues : q = [session |-> q.session, at |-> q.at, cancelled |-> q.cancelled],
         \A q \in x.db.queues : \E p \in y.db.queues : p.session = q.session /\ p.at = q.at
  PROVE  Grows(x, y)
<1>1. Len(x.db.sessions) <= Len(y.db.sessions) /\ Len(x.db.spans) <= Len(y.db.spans)
  BY Lengths DEF Formed
<1>2. KeysIn(x.db, y.db)
  BY <1>1 DEF KeysIn
<1>3. Keyed(y.db)
  BY DEF Keyed
<1> QED BY <1>2, <1>3 DEF Grows

LEMMA StartGrows ==
  ASSUME NEW x, Formed(x), Keyed(x.db), NEW ts, NEW area,
         NEW y, y = openSpan(beginSession(x, ts), ts, area)
  PROVE  Grows(x, y) /\ InSpanNow(y)
<1>1. PICK u : u = beginSession(x, ts)
  OBVIOUS
<1>2. Grows(x, u) /\ u.w.session \in 1 .. Len(u.db.sessions)
  BY <1>1, BeginSessionGrows
<1>3. u.w.session # NoId
  BY <1>2 DEF NoId
<1>4. /\ Grows(u, y) /\ y.w.span \in 1 .. Len(y.db.spans) /\ y.w.session = u.w.session
      /\ y.db.sessions = u.db.sessions
  BY <1>1, <1>2, <1>3, OpenSpanGrows DEF Grows
<1>5. Grows(x, y)
  BY <1>2, <1>4, GrowsOn
<1> QED BY <1>2, <1>4, <1>5 DEF InSpanNow

LEMMA SessionStartGrows ==
  ASSUME NEW x, Good(x), NEW ts, NEW y, y = handleSessionStart(x, ts)
  PROVE  Grows(x, y) /\ InSpanNow(y)
<1>1. PICK u : u = closeSession(x, x.w.last)
  OBVIOUS
<1>2. Grows(x, u)
  BY <1>1, CloseSessionGrows
<1>3. y = openSpan(beginSession(u, ts), ts, None)
  BY <1>1 DEF handleSessionStart
<1>4. Grows(u, y) /\ InSpanNow(y)
  BY <1>2, <1>3, StartGrows DEF Grows
<1> QED BY <1>2, <1>4, GrowsOn DEF Good

LEMMA AreaEnteredGrows ==
  ASSUME NEW x, Good(x), NEW ts, ts # NoTs, NEW area, NEW y, y = handleAreaEntered(x, ts, area)
  PROVE  Grows(x, y) /\ InSpanNow(y)
<1>1. x.w.session # NoId
  BY DEF Good, InSpanNow, NoId
<1>2. ensureSession(x, ts) = x
  BY <1>1 DEF ensureSession
<1>3. PICK yes : yes = TRUE
  OBVIOUS
<1>4. PICK u : u = closeSpan(x, ts, yes)
  OBVIOUS
<1>5. Grows(x, u) /\ u.w.session = x.w.session /\ u.db.sessions = x.db.sessions
  BY <1>4, CloseSpanGrows DEF Good, InSpanNow
<1>6. y = openSpan(u, ts, area)
  <2>1. y = openSpan(closeSpan(x, ts, TRUE), ts, area)
    BY <1>2 DEF handleAreaEntered
  <2> QED BY <2>1, <1>3, <1>4, Zenon
<1>7. /\ Grows(u, y) /\ y.w.span \in 1 .. Len(y.db.spans) /\ y.w.session = u.w.session
      /\ y.db.sessions = u.db.sessions
  BY <1>1, <1>5, <1>6, OpenSpanGrows DEF Grows
<1>8. Grows(x, y)
  BY <1>5, <1>7, GrowsOn DEF Good
<1>9. y.w.session \in 1 .. Len(y.db.sessions)
  BY <1>5, <1>7 DEF Good, InSpanNow
<1> QED BY <1>7, <1>8, <1>9 DEF InSpanNow

LEMMA AwayGrows ==
  ASSUME NEW x, Good(x), NEW kind, NEW ts, NEW y, y = handleAway(x, kind, ts) \/ y = handleBack(x, kind, ts)
  PROVE  Grows(x, y) /\ InSpanNow(y)
<1>1. CASE y = handleBack(x, kind, ts)
  <2>1. OnlyAway(x, y)
    <3>1. PICK no : no = FALSE
      OBVIOUS
    <3>2. y = EndAway(x, kind, ts, no)
      BY <1>1, <3>1 DEF handleBack
    <3> QED BY <3>2, EndAwayKeeps DEF Good, Formed
  <2>2. Grows(x, y)
    BY <2>1, OnlyAwayGrows DEF Good
  <2> QED BY <2>1, <2>2 DEF OnlyAway, Keeps, Good, InSpanNow
<1>2. CASE y = handleAway(x, kind, ts)
  <2>1. Pair(y) /\ Keeps(x, y) /\ y.db = x.db
    <3>1. Pair(y) /\ Keeps(x, y)
      BY <1>2, OthersKeep DEF Good, Formed
    <3>2. y.db = x.db
      BY <1>2 DEF handleAway, Good, Formed, Pair
    <3> QED BY <3>1, <3>2
  <2>2. Grows(x, y)
    <3>1. OnlyAway(x, y)
      BY <1>2, <2>1 DEF OnlyAway, handleAway, Good, Formed, Pair
    <3> QED BY <3>1, OnlyAwayGrows DEF Good
  <2> QED BY <2>1, <2>2 DEF Keeps, Good, InSpanNow
<1> QED BY <1>1, <1>2

(* Rows are noted, queued for and unqueued under the session.              *)
LEMMA NoteIs ==
  ASSUME NEW x, Formed(x), x.w.session # NoId, NEW line, NEW y, y = handleNote(x, line)
  PROVE  /\ Formed(y) /\ y.w = x.w
         /\ y.db = [sessions |-> x.db.sessions, spans |-> x.db.spans, away |-> x.db.away,
                    notes |-> x.db.notes \cup {[session |-> x.w.session, line |-> line]},
                    queues |-> x.db.queues]
<1>1. PICK notes : notes = x.db.notes \cup {[session |-> x.w.session, line |-> line]}
  OBVIOUS
<1>2. y = [x EXCEPT !.db.notes = notes]
  BY <1>1 DEF handleNote
<1>3. y = [db |-> y.db, w |-> x.w]
      /\ y.db = [sessions |-> x.db.sessions, spans |-> x.db.spans, away |-> x.db.away,
                 notes |-> notes, queues |-> x.db.queues]
  BY <1>2 DEF Formed, Pair
<1>4. y.w = x.w
  BY <1>3
<1>5. Pair(y) /\ y.db.sessions = x.db.sessions /\ y.db.spans = x.db.spans
  <2>1. y = [db |-> y.db, w |-> y.w]
    BY <1>3, <1>4
  <2> QED BY <1>3, <1>4, <2>1 DEF Formed, Pair
<1> QED BY <1>1, <1>3, <1>4, <1>5 DEF Formed, Rows

QueueChanges(x, y, queues, queue) ==
  /\ y.db = [sessions |-> x.db.sessions, spans |-> x.db.spans, away |-> x.db.away,
             notes |-> x.db.notes, queues |-> queues]
  /\ y.w = [session |-> x.w.session, start |-> x.w.start, afk |-> x.w.afk,
            away |-> x.w.away, span |-> x.w.span, spanAfk |-> x.w.spanAfk,
            queue |-> queue, last |-> x.w.last]

LEMMA QueueChangesIs ==
  ASSUME NEW x, Formed(x), NEW queues, NEW queue,
         NEW y, y = [db |-> [x.db EXCEPT !.queues = queues], w |-> [x.w EXCEPT !.queue = queue]]
  PROVE  Formed(y) /\ QueueChanges(x, y, queues, queue)
<1>1. QueueChanges(x, y, queues, queue)
  BY DEF Formed, Pair, QueueChanges
<1>2. y = [db |-> y.db, w |-> y.w]
  OBVIOUS
<1>3. Pair(y) /\ y.db.sessions = x.db.sessions /\ y.db.spans = x.db.spans
  BY <1>1, <1>2 DEF QueueChanges, Pair
<1> QED BY <1>1, <1>3 DEF Formed, Rows

LEMMA QueueIs ==
  ASSUME NEW x, Formed(x), x.w.session # NoId, NEW ts, NEW y, y = handlePvpQueue(x, ts)
  PROVE  \/ y = x /\ \E q \in x.db.queues : q.session = x.w.session /\ q.at = ts
         \/ /\ Formed(y)
            /\ QueueChanges(x, y, x.db.queues \cup {[session |-> x.w.session, at |-> ts,
                                                    cancelled |-> NoTs]}, <<x.w.session, ts>>)
            /\ \A q \in x.db.queues : ~(q.session = x.w.session /\ q.at = ts)
<1>0. PICK key : key = <<x.w.session, ts>>
  OBVIOUS
<1>1. PICK queues : queues = x.db.queues \cup {[session |-> x.w.session, at |-> ts, cancelled |-> NoTs]}
  OBVIOUS
<1>2. CASE QueueRow(x.db, key) # {}
  <2>1. y = x
    BY <1>0, <1>2 DEF handlePvpQueue
  <2>2. PICK q \in x.db.queues : <<q.session, q.at>> = key
    BY <1>2 DEF QueueRow
  <2> QED BY <1>0, <2>1, <2>2
<1>3. CASE QueueRow(x.db, key) = {}
  <2>1. y = [db |-> [x.db EXCEPT !.queues = queues], w |-> [x.w EXCEPT !.queue = key]]
    BY <1>0, <1>1, <1>3 DEF handlePvpQueue
  <2>2. Formed(y) /\ QueueChanges(x, y, queues, key)
    BY <2>1, QueueChangesIs
  <2>3. \A q \in x.db.queues : ~(q.session = x.w.session /\ q.at = ts)
    BY <1>0, <1>3 DEF QueueRow
  <2> QED BY <1>0, <1>1, <2>2, <2>3
<1> QED BY <1>2, <1>3

Unqueued(x, ts) ==
  (x.db.queues \ QueueRow(x.db, x.w.queue))
    \cup {[q EXCEPT !.cancelled = ts] : q \in QueueRow(x.db, x.w.queue)}

LEMMA UnqueueIs ==
  ASSUME NEW x, Formed(x), NEW ts, NEW y, y = handlePvpQueueCancelled(x, ts)
  PROVE  \/ y = x /\ x.w.queue = <<>>
         \/ /\ Formed(y) /\ x.w.queue # <<>>
            /\ QueueChanges(x, y, Unqueued(x, ts), <<>>)
<1>1. CASE x.w.queue = <<>>
  BY <1>1 DEF handlePvpQueueCancelled
<1>2. CASE x.w.queue # <<>>
  <2>1. PICK queues : queues = Unqueued(x, ts)
    OBVIOUS
  <2>2. y = [db |-> [x.db EXCEPT !.queues = queues], w |-> [x.w EXCEPT !.queue = <<>>]]
    BY <1>2, <2>1 DEF handlePvpQueueCancelled, Unqueued
  <2>3. Formed(y) /\ QueueChanges(x, y, queues, <<>>)
    BY <2>2, QueueChangesIs
  <2> QED BY <1>2, <2>1, <2>3
<1> QED BY <1>1, <1>2

LEMMA SelfGrows == ASSUME NEW x, Good(x) PROVE Grows(x, x) /\ InSpanNow(x)
<1>1. \A q \in x.db.queues : q = [session |-> q.session, at |-> q.at, cancelled |-> q.cancelled]
  BY DEF Good, Keyed
<1> QED BY <1>1, AsideGrows DEF Good

LEMMA QueueGrows ==
  ASSUME NEW x, Good(x), NEW queues, NEW queue, NEW y, Formed(y), QueueChanges(x, y, queues, queue),
         \A q \in queues : q = [session |-> q.session, at |-> q.at, cancelled |-> q.cancelled],
         \A q \in x.db.queues : \E p \in queues : p.session = q.session /\ p.at = q.at
  PROVE  Grows(x, y) /\ InSpanNow(y)
<1>1. /\ y.db.sessions = x.db.sessions /\ y.db.spans = x.db.spans /\ y.db.notes = x.db.notes
      /\ y.db.queues = queues /\ y.w.session = x.w.session /\ y.w.span = x.w.span
  BY DEF QueueChanges
<1>2. Grows(x, y)
  BY <1>1, AsideGrows DEF Good
<1> QED BY <1>1, <1>2 DEF Good, InSpanNow

LEMMA HandlesGrows ==
  ASSUME NEW x, Good(x), NEW a, NEW l, l.ts # NoTs, NEW n, NEW z, NEW b, Handles(x, a, l, n, z, b)
  PROVE  Grows(x, z) /\ InSpanNow(z)
<1>0. /\ Formed(x) /\ Keyed(x.db) /\ x.w.session # NoId
      /\ \A q \in x.db.queues : q = [session |-> q.session, at |-> q.at, cancelled |-> q.cancelled]
  BY DEF Good, InSpanNow, Keyed, NoId
<1>1. ASSUME NEW y, y = handleSessionStart(x, l.ts) PROVE Grows(x, y) /\ InSpanNow(y)
  BY <1>1, SessionStartGrows
<1>2. ASSUME NEW y, y = handleAreaEntered(x, l.ts, l.area) PROVE Grows(x, y) /\ InSpanNow(y)
  BY <1>2, AreaEnteredGrows
<1>3. ASSUME NEW y, NEW kind, y = handleAway(x, kind, l.ts) \/ y = handleBack(x, kind, l.ts)
      PROVE  Grows(x, y) /\ InSpanNow(y)
  BY <1>3, AwayGrows
<1>4. ASSUME NEW y, y = handleNote(x, n) PROVE Grows(x, y) /\ InSpanNow(y)
  <2>1. /\ Formed(y) /\ y.w = x.w
        /\ y.db = [sessions |-> x.db.sessions, spans |-> x.db.spans, away |-> x.db.away,
                   notes |-> x.db.notes \cup {[session |-> x.w.session, line |-> n]},
                   queues |-> x.db.queues]
    BY <1>0, <1>4, NoteIs
  <2>2. /\ y.db.sessions = x.db.sessions /\ y.db.spans = x.db.spans /\ y.db.queues = x.db.queues
        /\ x.db.notes \subseteq y.db.notes
    BY <2>1
  <2>3. Grows(x, y)
    BY <1>0, <2>1, <2>2, AsideGrows
  <2> QED BY <2>1, <2>2, <2>3 DEF Good, InSpanNow
<1>5. ASSUME NEW y, y = handlePvpQueue(x, l.ts) PROVE Grows(x, y) /\ InSpanNow(y)
  <2>1. CASE y = x
    BY <2>1, SelfGrows
  <2>2. CASE y # x
    <3>1. PICK queues : queues = x.db.queues \cup {[session |-> x.w.session, at |-> l.ts,
                                                    cancelled |-> NoTs]}
      OBVIOUS
    <3>2. Formed(y) /\ QueueChanges(x, y, queues, <<x.w.session, l.ts>>)
      BY <1>0, <1>5, <2>2, <3>1, QueueIs
    <3>3. \A q \in queues : q = [session |-> q.session, at |-> q.at, cancelled |-> q.cancelled]
      BY <1>0, <3>1
    <3>4. \A q \in x.db.queues : \E p \in queues : p.session = q.session /\ p.at = q.at
      BY <3>1
    <3> QED BY <3>2, <3>3, <3>4, QueueGrows
  <2> QED BY <2>1, <2>2
<1>6. ASSUME NEW y, y = handlePvpQueueCancelled(x, l.ts) PROVE Grows(x, y) /\ InSpanNow(y)
  <2>1. CASE y = x
    BY <2>1, SelfGrows
  <2>2. CASE y # x
    <3>0. PICK row : row = QueueRow(x.db, x.w.queue)
      OBVIOUS
    <3>1. PICK queues : queues = (x.db.queues \ row) \cup {[q EXCEPT !.cancelled = l.ts] : q \in row}
      OBVIOUS
    <3>2. Formed(y) /\ QueueChanges(x, y, queues, <<>>)
      <4>1. Formed(y) /\ QueueChanges(x, y, Unqueued(x, l.ts), <<>>)
        BY <1>0, <1>6, <2>2, UnqueueIs
      <4>2. queues = Unqueued(x, l.ts)
        BY <3>0, <3>1, Zenon DEF Unqueued
      <4> QED BY <4>1, <4>2
    <3>3. row \subseteq x.db.queues
      BY <3>0 DEF QueueRow
    <3>4. ASSUME NEW q \in x.db.queues
          PROVE  /\ [q EXCEPT !.cancelled = l.ts].session = q.session
                 /\ [q EXCEPT !.cancelled = l.ts].at = q.at
                 /\ [q EXCEPT !.cancelled = l.ts]
                      = [session |-> q.session, at |-> q.at, cancelled |-> l.ts]
      BY <1>0
    <3>5. ASSUME NEW q \in queues
          PROVE q = [session |-> q.session, at |-> q.at, cancelled |-> q.cancelled]
      <4>1. CASE q \in x.db.queues
        BY <1>0, <4>1
      <4>2. CASE q \notin x.db.queues
        <5>1. PICK p \in row : q = [p EXCEPT !.cancelled = l.ts]
          BY <3>1, <4>2
        <5>2. q = [session |-> p.session, at |-> p.at, cancelled |-> l.ts]
          BY <3>3, <3>4, <5>1
        <5> QED BY <5>2
      <4> QED BY <4>1, <4>2
    <3>6. ASSUME NEW q \in x.db.queues
          PROVE  \E p \in queues : p.session = q.session /\ p.at = q.at
      <4>1. CASE q \in row
        BY <3>1, <3>4, <4>1
      <4>2. CASE q \notin row
        BY <3>1, <4>2
      <4> QED BY <4>1, <4>2
    <3> QED BY <3>2, <3>5, <3>6, QueueGrows
  <2> QED BY <2>1, <2>2
<1>7. ASSUME NEW y, z = Stamped(y, l.ts), Grows(x, y) /\ InSpanNow(y)
      PROVE  Grows(x, z) /\ InSpanNow(z)
  BY <1>7, StampedGrows
<1>8. CASE z = x
  BY <1>8, SelfGrows
<1>9. CASE z # x
  <2>1. PICK y : /\ z = Stamped(y, l.ts)
                 /\ \/ y = handleSessionStart(x, l.ts) \/ y = handleAreaEntered(x, l.ts, l.area)
                    \/ y = handleAway(x, "afk", l.ts) \/ y = handleBack(x, "afk", l.ts)
                    \/ y = handleAway(x, "alt_tab", l.ts) \/ y = handleBack(x, "alt_tab", l.ts)
                    \/ y = handleNote(x, n)
                    \/ y = handlePvpQueue(x, l.ts) \/ y = handlePvpQueueCancelled(x, l.ts)
                    \/ y = x
    BY <1>9 DEF Handles
  <2>2. Grows(x, y) /\ InSpanNow(y)
    BY <1>1, <1>2, <1>3, <1>4, <1>5, <1>6, <2>1, SelfGrows
  <2> QED BY <1>7, <2>1, <2>2
<1> QED BY <1>8, <1>9

LEMMA FirstStart ==
  ASSUME NEW ts, NEW y, y = Stamped(handleSessionStart(Unread, ts), ts)
  PROVE  Formed(Unread) /\ Keyed(Unread.db) /\ Grows(Unread, y) /\ InSpanNow(y)
<1>1. PICK x : x = Unread
  OBVIOUS
<1>2. /\ x.db = [sessions |-> <<>>, spans |-> <<>>, away |-> {}, notes |-> {}, queues |-> {}]
      /\ x.w = NoWriter /\ x = [db |-> x.db, w |-> x.w]
  BY <1>1 DEF Unread
<1>3. x.w = [session |-> x.w.session, start |-> x.w.start, afk |-> x.w.afk, away |-> x.w.away,
             span |-> x.w.span, spanAfk |-> x.w.spanAfk, queue |-> x.w.queue, last |-> x.w.last]
  BY <1>2 DEF NoWriter
<1>4. x.w.session = NoId
  BY <1>2 DEF NoWriter
<1>5. Pair(x)
  BY <1>2, <1>3 DEF Pair
<1>6. Formed(x) /\ Keyed(x.db)
  <2>1. x.db.sessions = <<>> /\ x.db.spans = <<>> /\ x.db.queues = {}
    BY <1>2
  <2>2. Table(<<>>) /\ Len(<<>>) = 0
    BY DEF Table
  <2> QED BY <1>5, <2>1, <2>2 DEF Formed, Rows, Keyed
<1>7. PICK z : z = openSpan(beginSession(x, ts), ts, None)
  OBVIOUS
<1>8. Grows(x, z) /\ InSpanNow(z)
  BY <1>6, <1>7, StartGrows
<1>9. handleSessionStart(x, ts) = z
  <2>1. closeSession(x, x.w.last) = x
    BY <1>4 DEF closeSession
  <2> QED BY <1>7, <2>1 DEF handleSessionStart
<1>10. y = Stamped(z, ts)
  BY <1>1, <1>9
<1> QED BY <1>1, <1>6, <1>8, <1>10, StampedGrows

LEMMA UpsertOver ==
  ASSUME NEW new, NEW old, NEW row
  PROVE  Upsert(Over(new, old), row) = Over(Upsert(new, row), old)
<1>1. row \in Upsert(new, row)
  BY DEF Upsert
<1>2. \A s, r : r \in Upsert(s, row) <=> r = row \/ (r \in s /\ Key(r) # Key(row))
  BY DEF Upsert, Key
<1>3. \A s, r : r \in Over(s, old) <=> r \in s \/ (r \in old /\ \A o \in s : Key(r) # Key(o))
  BY DEF Over
<1>4. ASSUME NEW r, r \in Over(Upsert(new, row), old)
      PROVE  r \in Upsert(Over(new, old), row)
  <2>1. CASE r \in Upsert(new, row)
    BY <1>2, <1>3, <2>1
  <2>2. CASE r \in old /\ \A o \in Upsert(new, row) : Key(r) # Key(o)
    <3>1. Key(r) # Key(row)
      BY <1>1, <2>2
    <3>2. ASSUME NEW o \in new PROVE Key(r) # Key(o)
      BY <1>2, <2>2, <3>1
    <3> QED BY <1>2, <1>3, <2>2, <3>1, <3>2
  <2> QED BY <1>3, <1>4, <2>1, <2>2
<1>5. ASSUME NEW r, r \in Upsert(Over(new, old), row)
      PROVE  r \in Over(Upsert(new, row), old)
  <2>1. CASE r = row
    BY <1>1, <1>3, <2>1
  <2>2. CASE r \in Over(new, old) /\ Key(r) # Key(row)
    <3>1. CASE r \in new
      BY <1>2, <1>3, <2>2, <3>1
    <3>2. CASE r \in old /\ \A o \in new : Key(r) # Key(o)
      BY <1>2, <1>3, <2>2, <3>2
    <3> QED BY <1>3, <2>2, <3>1, <3>2
  <2> QED BY <1>2, <1>5, <2>1, <2>2
<1> QED BY <1>4, <1>5

LEMMA EndAwayLaid ==
  ASSUME NEW f, NEW x, Formed(x), x.w.session # NoId, NEW z, Laid(x, z, f),
         NEW kind, NEW end, NEW next,
         NEW y, y = EndAway(x, kind, end, next), NEW v, v = EndAway(z, kind, end, next)
  PROVE  Laid(y, v, f) /\ Formed(y) /\ OnlyAway(x, y)
<1>1. OnlyAway(x, y)
  BY EndAwayKeeps DEF Formed
<1>2. Formed(y)
  BY <1>1 DEF OnlyAway, Keeps, Formed, Rows
<1>3. Formed(z) /\ z.w.session = x.w.session /\ z.w.away = x.w.away
  BY DEF Laid, LaidRows, AwayAlike, InSessionAlike
<1>4. CASE x.w.away[kind] = NoTs
  <2>1. y = x /\ v = z
    BY <1>3, <1>4 DEF EndAway
  <2> QED BY <1>1, <1>2, <2>1
<1>5. CASE x.w.away[kind] # NoTs
  <2>1. AwayEnds(x, y, kind, end, next)
    BY <1>5, EndAwayIs DEF Formed
  <2>2. AwayEnds(z, v, kind, end, next)
    BY <1>3, <1>5, EndAwayIs DEF Formed
  <2>3. PICK row : row = Row(x, kind, end)
    OBVIOUS
  <2>4. Row(z, kind, end) = row
    BY <1>3, <2>3 DEF Row, Laid
  <2>5. /\ y.db.sessions = x.db.sessions /\ y.db.spans = x.db.spans
        /\ y.db.away = Upsert(x.db.away, row)
    BY <2>1, <2>3 DEF AwayEnds
  <2>6. /\ v.db.sessions = z.db.sessions /\ v.db.spans = z.db.spans
        /\ v.db.away = Upsert(z.db.away, row)
        /\ v.db.notes = z.db.notes /\ v.db.queues = z.db.queues
    BY <2>2, <2>4 DEF AwayEnds
  <2>7. Formed(v)
    <3>1. OnlyAway(z, v)
      BY <1>3, EndAwayKeeps DEF Formed
    <3> QED BY <1>3, <3>1 DEF OnlyAway, Keeps, Formed, Rows
  <2>8. v.db.away = Over(y.db.away, f.away)
    <3>1. z.db.away = Over(x.db.away, f.away)
      BY DEF Laid, LaidRows
    <3> QED BY <2>5, <2>6, <3>1, UpsertOver
  <2>9. LaidRows(y, v, f)
    BY <2>5, <2>6, <2>7, <2>8 DEF Laid, LaidRows
  <2>10. PICK dur : dur = max0(end - x.w.away[kind])
    OBVIOUS
  <2>11. PICK aways : aways = [x.w.away EXCEPT ![kind] = Carry(next, end)]
    OBVIOUS
  <2>12. y.w = [session |-> x.w.session, start |-> x.w.start, afk |-> x.w.afk + dur,
                away |-> aways, span |-> x.w.span, spanAfk |-> x.w.spanAfk + dur,
                queue |-> x.w.queue, last |-> x.w.last]
    BY <2>1, <2>10, <2>11 DEF AwayEnds
  <2>13. v.w = [session |-> z.w.session, start |-> z.w.start, afk |-> z.w.afk + dur,
                away |-> aways, span |-> z.w.span, spanAfk |-> z.w.spanAfk + dur,
                queue |-> z.w.queue, last |-> z.w.last]
    BY <1>3, <2>2, <2>10, <2>11 DEF AwayEnds
  <2>14. AwayAlike(y, v)
    BY <2>12, <2>13 DEF Laid, AwayAlike
  <2>15. InSessionAlike(y, v) /\ v.w.span = y.w.span /\ v.w.spanAfk = y.w.spanAfk
    BY <2>12, <2>13 DEF Laid, InSessionAlike
  <2> QED BY <1>1, <1>2, <2>9, <2>14, <2>15 DEF Laid
<1> QED BY <1>4, <1>5

LEMMA EndBothLaid ==
  ASSUME NEW f, NEW x, Formed(x), x.w.session # NoId, NEW z, Laid(x, z, f), NEW end, NEW next,
         NEW y, y = EndBoth(x, end, next), NEW v, v = EndBoth(z, end, next)
  PROVE  Laid(y, v, f) /\ Formed(y) /\ OnlyAway(x, y)
<1>1. PICK u : u = EndAway(x, "afk", end, next)
  OBVIOUS
<1>2. PICK t : t = EndAway(z, "afk", end, next)
  OBVIOUS
<1>3. Laid(u, t, f) /\ Formed(u) /\ OnlyAway(x, u)
  BY <1>1, <1>2, EndAwayLaid
<1>4. u.w.session # NoId
  BY <1>3 DEF OnlyAway, Keeps
<1>5. y = EndAway(u, "alt_tab", end, next) /\ v = EndAway(t, "alt_tab", end, next)
  BY <1>1, <1>2 DEF EndBoth
<1>6. Laid(y, v, f) /\ Formed(y)
  BY <1>3, <1>4, <1>5, EndAwayLaid
<1>7. OnlyAway(x, y)
  BY EndBothKeeps DEF Formed
<1> QED BY <1>6, <1>7

LEMMA CloseSpanLaid ==
  ASSUME NEW f, NEW x, Good(x), KeysIn(x.db, f), NEW z, Laid(x, z, f), NEW end, end # NoTs, NEW next,
         NEW y, y = closeSpan(x, end, next), NEW v, v = closeSpan(z, end, next)
  PROVE  Laid(y, v, f) /\ Formed(y) /\ y.w.session = x.w.session /\ y.db.sessions = x.db.sessions
<1>0. Formed(x) /\ x.w.session # NoId /\ x.w.span \in 1 .. Len(x.db.spans)
  BY DEF Good, InSpanNow, NoId
<1>1. PICK p : p = EndBoth(x, end, next)
  OBVIOUS
<1>2. PICK q : q = EndBoth(z, end, next)
  OBVIOUS
<1>3. Laid(p, q, f) /\ OnlyAway(x, p)
  BY <1>0, <1>1, <1>2, EndBothLaid
<1>4. Formed(y) /\ SpanCloses(x, p, y, end)
  BY <1>0, <1>1, CloseSpanIs
<1>5. Formed(z) /\ z.w.span = x.w.span /\ z.w.span \in 1 .. Len(z.db.spans)
      /\ Len(z.db.spans) = Len(f.spans) /\ Len(x.db.spans) <= Len(f.spans)
  <2>1. Formed(z) /\ z.w.span = x.w.span /\ Len(z.db.spans) = Len(f.spans)
    BY DEF Laid, LaidRows
  <2>2. Len(x.db.spans) \in Nat /\ Len(z.db.spans) \in Nat /\ Len(x.db.spans) <= Len(f.spans)
    BY <1>0, <2>1, Lengths DEF Formed, KeysIn
  <2> QED BY <1>0, <2>1, <2>2
<1>6. Formed(v) /\ SpanCloses(z, q, v, end)
  BY <1>2, <1>5, CloseSpanIs
<1>7. ASSUME NEW i \in 1 .. Len(f.spans)
      PROVE  v.db.spans[i] = IF i \in 1 .. Len(y.db.spans) /\ y.db.spans[i].exited # NoTs
                               THEN y.db.spans[i] ELSE f.spans[i]
  <2>1. Len(y.db.spans) = Len(x.db.spans)
    BY <1>4 DEF SpanCloses
  <2>2. z.db.spans[i] = IF i \in 1 .. Len(x.db.spans) /\ x.db.spans[i].exited # NoTs
                          THEN x.db.spans[i] ELSE f.spans[i]
    BY DEF Laid, LaidRows
  <2>3. v.db.spans[i] = IF i = z.w.span
                         THEN [session |-> z.db.spans[i].session, area |-> z.db.spans[i].area,
                               entered |-> z.db.spans[i].entered, exited |-> end, afk |-> q.w.spanAfk]
                         ELSE z.db.spans[i]
    BY <1>5, <1>6 DEF SpanCloses
  <2>4. i \in 1 .. Len(x.db.spans) =>
          y.db.spans[i] = IF i = x.w.span
                           THEN [session |-> x.db.spans[i].session, area |-> x.db.spans[i].area,
                                 entered |-> x.db.spans[i].entered, exited |-> end,
                                 afk |-> p.w.spanAfk]
                           ELSE x.db.spans[i]
    BY <1>4 DEF SpanCloses
  <2>5. CASE i = x.w.span
    <3>1. /\ z.db.spans[i].session = x.db.spans[i].session
          /\ z.db.spans[i].area = x.db.spans[i].area
          /\ z.db.spans[i].entered = x.db.spans[i].entered
      BY <1>0, <2>2, <2>5 DEF KeysIn
    <3>2. q.w.spanAfk = p.w.spanAfk
      BY <1>3 DEF Laid
    <3>3. v.db.spans[i] = y.db.spans[i] /\ y.db.spans[i].exited = end
      BY <1>0, <1>5, <2>3, <2>4, <2>5, <3>1, <3>2
    <3> QED BY <1>0, <2>1, <2>5, <3>3
  <2>6. CASE i # x.w.span
    <3>1. v.db.spans[i] = z.db.spans[i]
      BY <1>5, <2>3, <2>6
    <3>2. i \in 1 .. Len(x.db.spans) => y.db.spans[i] = x.db.spans[i]
      BY <2>4, <2>6
    <3> QED BY <2>1, <2>2, <3>1, <3>2
  <2> QED BY <2>5, <2>6
<1>8. /\ y.db.sessions = x.db.sessions /\ y.db.away = p.db.away /\ y.w.session = x.w.session
      /\ y.w.start = x.w.start /\ y.w.afk = p.w.afk /\ y.w.away = p.w.away /\ y.w.span = NoId
      /\ y.w.spanAfk = 0 /\ y.w.last = x.w.last
  BY <1>4 DEF SpanCloses
<1>9. /\ v.db.sessions = z.db.sessions /\ v.db.away = q.db.away /\ v.w.session = z.w.session
      /\ v.w.start = z.w.start /\ v.w.afk = q.w.afk /\ v.w.away = q.w.away /\ v.w.span = NoId
      /\ v.w.spanAfk = 0 /\ v.w.last = z.w.last /\ v.w.queue = z.w.queue
      /\ v.db.notes = z.db.notes /\ v.db.queues = z.db.queues /\ Len(v.db.spans) = Len(z.db.spans)
  BY <1>6 DEF SpanCloses
<1>10. LaidRows(y, v, f)
  <2>1. v.db.away = Over(y.db.away, f.away)
    BY <1>3, <1>8, <1>9 DEF Laid, LaidRows
  <2> QED BY <1>5, <1>6, <1>7, <1>8, <1>9, <2>1 DEF Laid, LaidRows
<1>11. AwayAlike(y, v)
  BY <1>3, <1>8, <1>9 DEF Laid, AwayAlike
<1>12. InSessionAlike(y, v)
  BY <1>3, <1>8, <1>9 DEF Laid, InSessionAlike
<1> QED BY <1>4, <1>8, <1>9, <1>10, <1>11, <1>12 DEF Laid

(* Ending a row keeps only its key.                                        *)
LEMMA EndRowOf ==
  ASSUME NEW r, SessionRow(r), NEW o, SessionRow(o), r.start = o.start,
         NEW end, NEW afk, NEW start
  PROVE  EndRow(r, end, afk, start) = EndRow(o, end, afk, start)
<1>1. PICK total : total = max0(end - start)
  OBVIOUS
<1>2. PICK active : active = max0(total - afk)
  OBVIOUS
<1>3. EndRow(r, end, afk, start)
        = [r EXCEPT !.end = end, !.total = total, !.afk = afk, !.active = active]
  BY <1>1, <1>2, Zenon DEF EndRow
<1>4. EndRow(o, end, afk, start)
        = [o EXCEPT !.end = end, !.total = total, !.afk = afk, !.active = active]
  BY <1>1, <1>2, Zenon DEF EndRow
<1>5. [r EXCEPT !.end = end, !.total = total, !.afk = afk, !.active = active]
        = [o EXCEPT !.end = end, !.total = total, !.afk = afk, !.active = active]
  BY DEF SessionRow
<1> QED BY <1>3, <1>4, <1>5

LEMMA CloseSessionLaid ==
  ASSUME NEW f, NEW x, Good(x), KeysIn(x.db, f), NEW z, Laid(x, z, f), NEW end,
         NEW y, y = closeSession(x, end), NEW v, v = closeSession(z, end)
  PROVE  Laid(y, v, f)
<1>1. CASE end = NoTs
  BY <1>1 DEF closeSession
<1>2. CASE end # NoTs
  <2>1. PICK no : no = FALSE
    OBVIOUS
  <2>2. PICK g : g = closeSpan(x, end, no)
    OBVIOUS
  <2>3. PICK h : h = closeSpan(z, end, no)
    OBVIOUS
  <2>4. Laid(g, h, f) /\ Formed(g) /\ g.w.session = x.w.session /\ g.db.sessions = x.db.sessions
    BY <1>2, <2>2, <2>3, CloseSpanLaid
  <2>5. PICK p : p = EndBoth(g, end, no)
    OBVIOUS
  <2>6. PICK q : q = EndBoth(h, end, no)
    OBVIOUS
  <2>7. x.w.session \in 1 .. Len(x.db.sessions) /\ x.w.session # NoId
    BY DEF Good, InSpanNow, NoId
  <2>8. Laid(p, q, f) /\ OnlyAway(g, p)
    BY <2>4, <2>5, <2>6, <2>7, EndBothLaid
  <2>9. SessionCloses(p, y, end)
    BY <1>2, <2>1, <2>2, <2>4, <2>5, <2>7, CloseSessionIs
  <2>10. /\ Formed(h) /\ z.w.session = x.w.session /\ h.w.session = x.w.session
         /\ Len(h.db.sessions) = Len(f.sessions)
    BY <2>4 DEF Laid, LaidRows, InSessionAlike
  <2>11. Len(x.db.sessions) \in Nat /\ Len(h.db.sessions) \in Nat
         /\ Len(x.db.sessions) <= Len(f.sessions)
    BY <2>10, Lengths DEF Good, Formed, KeysIn
  <2>12. h.w.session = z.w.session /\ z.w.session \in 1 .. Len(h.db.sessions) /\ z.w.session # NoId
    BY <2>7, <2>10, <2>11
  <2>13. Formed(v) /\ SessionCloses(q, v, end)
    BY <1>2, <2>1, <2>3, <2>6, <2>10, <2>12, CloseSessionIs
  <2>14. /\ p.db.sessions = x.db.sessions /\ p.w.session = x.w.session
         /\ q.w.session = x.w.session /\ q.w.afk = p.w.afk /\ q.w.start = p.w.start
         /\ Formed(q) /\ Len(q.db.sessions) = Len(f.sessions)
    <3>1. p.db.sessions = x.db.sessions /\ p.w.session = x.w.session
      BY <2>4, <2>8 DEF OnlyAway, Keeps
    <3>2. q.w.session = p.w.session /\ q.w.afk = p.w.afk /\ q.w.start = p.w.start
      BY <2>8 DEF Laid, InSessionAlike
    <3>3. Formed(q) /\ Len(q.db.sessions) = Len(f.sessions)
      BY <2>8 DEF Laid, LaidRows
    <3> QED BY <3>1, <3>2, <3>3
  <2>15. ASSUME NEW s \in 1 .. Len(f.sessions)
         PROVE  v.db.sessions[s] = IF s \in 1 .. Len(y.db.sessions) /\ y.db.sessions[s].end # NoTs
                                     THEN y.db.sessions[s] ELSE f.sessions[s]
    <3>1. Len(y.db.sessions) = Len(x.db.sessions)
      BY <2>9, <2>14 DEF SessionCloses
    <3>2. q.db.sessions[s] = IF s \in 1 .. Len(x.db.sessions) /\ x.db.sessions[s].end # NoTs
                               THEN x.db.sessions[s] ELSE f.sessions[s]
      BY <2>8, <2>14 DEF Laid, LaidRows
    <3>3. v.db.sessions[s] = IF s = q.w.session
                               THEN EndRow(q.db.sessions[s], end, q.w.afk, q.w.start)
                               ELSE q.db.sessions[s]
      BY <2>13, <2>14 DEF SessionCloses
    <3>4. s \in 1 .. Len(x.db.sessions) =>
            y.db.sessions[s] = IF s = p.w.session
                                 THEN EndRow(p.db.sessions[s], end, p.w.afk, p.w.start)
                                 ELSE p.db.sessions[s]
      BY <2>9, <2>14 DEF SessionCloses
    <3>5. CASE s = x.w.session
      <4>1. SessionRow(x.db.sessions[s]) /\ SessionRow(q.db.sessions[s])
        BY <2>7, <2>14, <3>5 DEF Good, Formed, Rows
      <4>2. q.db.sessions[s].start = x.db.sessions[s].start
        BY <2>7, <3>2, <3>5 DEF KeysIn
      <4>3. PICK row : row = EndRow(x.db.sessions[s], end, p.w.afk, p.w.start)
        OBVIOUS
      <4>4. EndRow(q.db.sessions[s], end, p.w.afk, p.w.start) = row
        BY <4>1, <4>2, <4>3, EndRowOf
      <4>5. row.end = end
        BY <4>1, <4>3, EndRowDoes
      <4>6. y.db.sessions[s] = row
        BY <2>7, <2>14, <3>4, <3>5, <4>3
      <4>7. v.db.sessions[s] = row
        BY <2>14, <3>3, <3>5, <4>4
      <4> QED BY <1>2, <2>7, <3>1, <3>5, <4>5, <4>6, <4>7
    <3>6. CASE s # x.w.session
      <4>1. v.db.sessions[s] = q.db.sessions[s]
        BY <2>14, <3>3, <3>6
      <4>2. s \in 1 .. Len(x.db.sessions) => y.db.sessions[s] = x.db.sessions[s]
        BY <2>14, <3>4, <3>6
      <4> QED BY <3>1, <3>2, <4>1, <4>2
    <3> QED BY <3>5, <3>6
  <2>16. /\ y.db.spans = p.db.spans /\ y.db.away = p.db.away /\ y.w.session = NoId
         /\ y.w.start = NoTs /\ y.w.afk = 0 /\ y.w.away = p.w.away /\ y.w.span = p.w.span
         /\ y.w.spanAfk = p.w.spanAfk /\ y.w.last = p.w.last
    BY <2>9 DEF SessionCloses
  <2>17. /\ v.db.spans = q.db.spans /\ v.db.away = q.db.away /\ v.w.session = NoId
         /\ v.w.start = NoTs /\ v.w.afk = 0 /\ v.w.away = q.w.away /\ v.w.span = q.w.span
         /\ v.w.spanAfk = q.w.spanAfk /\ v.w.last = q.w.last /\ v.w.queue = <<>>
         /\ v.db.notes = q.db.notes /\ v.db.queues = q.db.queues
         /\ Len(v.db.sessions) = Len(q.db.sessions)
    BY <2>13 DEF SessionCloses
  <2>18. LaidRows(y, v, f)
    <3>1. v.db.away = Over(y.db.away, f.away)
      BY <2>8, <2>16, <2>17 DEF Laid, LaidRows
    <3>2. \A i \in 1 .. Len(f.spans) :
            v.db.spans[i] = IF i \in 1 .. Len(y.db.spans) /\ y.db.spans[i].exited # NoTs
                              THEN y.db.spans[i] ELSE f.spans[i]
      BY <2>8, <2>16, <2>17 DEF Laid, LaidRows
    <3>3. Len(v.db.spans) = Len(f.spans) /\ v.db.notes = f.notes /\ v.db.queues = f.queues
      BY <2>8, <2>17 DEF Laid, LaidRows
    <3> QED BY <2>13, <2>14, <2>15, <2>17, <3>1, <3>2, <3>3 DEF LaidRows
  <2>19. AwayAlike(y, v)
    BY <2>8, <2>16, <2>17 DEF Laid, AwayAlike
  <2>20. InSessionAlike(y, v) /\ v.w.span = y.w.span /\ v.w.spanAfk = y.w.spanAfk
    BY <2>8, <2>16, <2>17 DEF Laid, InSessionAlike
  <2> QED BY <2>18, <2>19, <2>20 DEF Laid
<1> QED BY <1>1, <1>2

(* What the first reading adds, the second one finds.                      *)
LEMMA BeginSessionLaid ==
  ASSUME NEW f, Keyed(f), NEW x, Formed(x), KeysIn(x.db, f),
         NEW z, LaidRows(x, z, f), AwayAlike(x, z), NEW ts,
         NEW y, y = beginSession(x, ts), KeysIn(y.db, f), NEW v, v = beginSession(z, ts)
  PROVE  LaidRows(y, v, f) /\ AwayAlike(y, v) /\ InSessionAlike(y, v)
<1>1. Formed(y) /\ SessionOpens(x, y, ts)
  BY BeginSessionIs
<1>2. Formed(z) /\ Len(z.db.sessions) = Len(f.sessions)
  BY DEF LaidRows
<1>3. Formed(v) /\ SessionOpens(z, v, ts)
  BY <1>2, BeginSessionIs
<1>4. PICK n \in Nat, m \in Nat : n = Len(x.db.sessions) /\ m = Len(f.sessions)
  BY <1>2, Lengths DEF Formed
<1>5. ASSUME NEW s \in 1 .. m
      PROVE  z.db.sessions[s].start = f.sessions[s].start
  <2>1. z.db.sessions[s] = IF s \in 1 .. n /\ x.db.sessions[s].end # NoTs
                             THEN x.db.sessions[s] ELSE f.sessions[s]
    BY <1>4 DEF LaidRows
  <2>2. s \in 1 .. n => x.db.sessions[s].start = f.sessions[s].start
    BY <1>4 DEF KeysIn
  <2> QED BY <2>1, <2>2
<1>6. y.w.session \in 1 .. Len(y.db.sessions) /\ y.db.sessions[y.w.session].start = ts
  <2>1. CASE y.w.session \in 1 .. n /\ y.db.sessions = x.db.sessions
             /\ x.db.sessions[y.w.session].start = ts
    BY <1>4, <2>1
  <2>2. CASE /\ y.w.session = n + 1 /\ Len(y.db.sessions) = n + 1
             /\ y.db.sessions[n + 1] = [start |-> ts, end |-> NoTs, total |-> 0, afk |-> 0, active |-> 0]
    BY <1>4, <2>2
  <2> QED BY <1>1, <1>4, <2>1, <2>2 DEF SessionOpens
<1>7. Len(y.db.sessions) \in Nat /\ Len(y.db.sessions) <= m
  BY <1>1, <1>4, Lengths DEF Formed, KeysIn
<1>8. y.w.session \in 1 .. m /\ f.sessions[y.w.session].start = ts
  BY <1>4, <1>6, <1>7 DEF KeysIn
<1>9. v.db.sessions = z.db.sessions /\ v.w.session = y.w.session
  <2>1. z.db.sessions[y.w.session].start = ts
    BY <1>5, <1>8
  <2>2. v.w.session \in 1 .. m /\ v.db.sessions = z.db.sessions /\ z.db.sessions[v.w.session].start = ts
    BY <1>2, <1>3, <1>4, <1>8, <2>1 DEF SessionOpens
  <2>3. f.sessions[v.w.session].start = ts
    BY <1>5, <2>2
  <2> QED BY <1>4, <1>8, <2>2, <2>3 DEF Keyed
<1>10. ASSUME NEW s \in 1 .. m
       PROVE  v.db.sessions[s] = IF s \in 1 .. Len(y.db.sessions) /\ y.db.sessions[s].end # NoTs
                                   THEN y.db.sessions[s] ELSE f.sessions[s]
  <2>1. z.db.sessions[s] = IF s \in 1 .. n /\ x.db.sessions[s].end # NoTs
                             THEN x.db.sessions[s] ELSE f.sessions[s]
    BY <1>4 DEF LaidRows
  <2>2. CASE y.db.sessions = x.db.sessions
    BY <1>4, <1>9, <2>1, <2>2
  <2>3. CASE /\ Len(y.db.sessions) = n + 1
             /\ \A i \in 1 .. n : y.db.sessions[i] = x.db.sessions[i]
             /\ y.db.sessions[n + 1] = [start |-> ts, end |-> NoTs, total |-> 0, afk |-> 0, active |-> 0]
    <3>1. CASE s \in 1 .. n
      <4>1. s \in 1 .. Len(y.db.sessions) /\ y.db.sessions[s] = x.db.sessions[s]
        BY <2>3, <3>1
      <4> QED BY <1>9, <2>1, <3>1, <4>1
    <3>2. CASE s \notin 1 .. n
      <4>1. s \in 1 .. Len(y.db.sessions) => y.db.sessions[s].end = NoTs
        BY <2>3, <3>2
      <4> QED BY <1>9, <2>1, <3>2, <4>1
    <3> QED BY <3>1, <3>2
  <2> QED BY <1>1, <1>4, <2>2, <2>3 DEF SessionOpens
<1>11. /\ y.db.spans = x.db.spans /\ y.db.away = x.db.away /\ y.w.start = ts
       /\ y.w.afk = 0 /\ y.w.away = x.w.away /\ y.w.last = x.w.last
  BY <1>1 DEF SessionOpens
<1>12. /\ v.db.spans = z.db.spans /\ v.db.away = z.db.away /\ v.w.start = ts
       /\ v.w.afk = 0 /\ v.w.away = z.w.away /\ v.w.last = z.w.last /\ v.w.queue = z.w.queue
       /\ v.db.notes = z.db.notes /\ v.db.queues = z.db.queues
  BY <1>3 DEF SessionOpens
<1>13. LaidRows(y, v, f)
  <2>1. v.db.away = Over(y.db.away, f.away)
    BY <1>11, <1>12 DEF LaidRows
  <2>2. \A i \in 1 .. Len(f.spans) :
          v.db.spans[i] = IF i \in 1 .. Len(y.db.spans) /\ y.db.spans[i].exited # NoTs
                            THEN y.db.spans[i] ELSE f.spans[i]
    BY <1>11, <1>12 DEF LaidRows
  <2>3. Len(v.db.spans) = Len(f.spans) /\ v.db.notes = f.notes /\ v.db.queues = f.queues
    BY <1>12 DEF LaidRows
  <2>4. Len(v.db.sessions) = Len(f.sessions)
    BY <1>2, <1>9
  <2> QED BY <1>3, <1>4, <1>10, <2>1, <2>2, <2>3, <2>4 DEF LaidRows
<1>14. AwayAlike(y, v) /\ InSessionAlike(y, v)
  BY <1>9, <1>11, <1>12 DEF AwayAlike, InSessionAlike
<1> QED BY <1>13, <1>14

LEMMA OpenSpanLaid ==
  ASSUME NEW f, Keyed(f), NEW x, Formed(x), KeysIn(x.db, f), x.w.session # NoId,
         NEW z, LaidRows(x, z, f), AwayAlike(x, z), InSessionAlike(x, z), NEW ts, NEW area,
         NEW y, y = openSpan(x, ts, area), KeysIn(y.db, f), NEW v, v = openSpan(z, ts, area)
  PROVE  Laid(y, v, f)
<1>1. Formed(y) /\ SpanOpens(x, y, ts, area)
  BY OpenSpanIs
<1>2. Formed(z) /\ Len(z.db.spans) = Len(f.spans) /\ z.w.session = x.w.session
  BY DEF LaidRows, InSessionAlike
<1>3. Formed(v) /\ SpanOpens(z, v, ts, area)
  BY <1>2, OpenSpanIs
<1>4. PICK n \in Nat, m \in Nat : n = Len(x.db.spans) /\ m = Len(f.spans)
  BY <1>2, Lengths DEF Formed
<1>5. ASSUME NEW i \in 1 .. m
      PROVE  /\ z.db.spans[i].session = f.spans[i].session
             /\ z.db.spans[i].entered = f.spans[i].entered
  <2>1. z.db.spans[i] = IF i \in 1 .. n /\ x.db.spans[i].exited # NoTs
                          THEN x.db.spans[i] ELSE f.spans[i]
    BY <1>4 DEF LaidRows
  <2>2. i \in 1 .. n => /\ x.db.spans[i].session = f.spans[i].session
                         /\ x.db.spans[i].entered = f.spans[i].entered
    BY <1>4 DEF KeysIn
  <2> QED BY <2>1, <2>2
<1>6. /\ y.w.span \in 1 .. Len(y.db.spans) /\ y.db.spans[y.w.span].session = x.w.session
      /\ y.db.spans[y.w.span].entered = ts
  <2>1. CASE /\ y.w.span \in 1 .. n /\ y.db.spans = x.db.spans
             /\ x.db.spans[y.w.span].session = x.w.session /\ x.db.spans[y.w.span].entered = ts
    BY <1>4, <2>1
  <2>2. CASE /\ y.w.span = n + 1 /\ Len(y.db.spans) = n + 1
             /\ y.db.spans[n + 1] = [session |-> x.w.session, area |-> area, entered |-> ts,
                                     exited |-> NoTs, afk |-> 0]
    BY <1>4, <2>2
  <2> QED BY <1>1, <1>4, <2>1, <2>2 DEF SpanOpens
<1>7. Len(y.db.spans) \in Nat /\ Len(y.db.spans) <= m
  BY <1>1, <1>4, Lengths DEF Formed, KeysIn
<1>8. /\ y.w.span \in 1 .. m /\ f.spans[y.w.span].session = x.w.session
      /\ f.spans[y.w.span].entered = ts
  BY <1>4, <1>6, <1>7 DEF KeysIn
<1>9. v.db.spans = z.db.spans /\ v.w.span = y.w.span
  <2>1. z.db.spans[y.w.span].session = x.w.session /\ z.db.spans[y.w.span].entered = ts
    BY <1>5, <1>8
  <2>2. /\ v.w.span \in 1 .. m /\ v.db.spans = z.db.spans
        /\ z.db.spans[v.w.span].session = x.w.session /\ z.db.spans[v.w.span].entered = ts
    BY <1>2, <1>3, <1>4, <1>8, <2>1 DEF SpanOpens
  <2>3. f.spans[v.w.span].session = x.w.session /\ f.spans[v.w.span].entered = ts
    BY <1>5, <2>2
  <2> QED BY <1>4, <1>8, <2>2, <2>3 DEF Keyed
<1>10. ASSUME NEW i \in 1 .. m
       PROVE  v.db.spans[i] = IF i \in 1 .. Len(y.db.spans) /\ y.db.spans[i].exited # NoTs
                                THEN y.db.spans[i] ELSE f.spans[i]
  <2>1. z.db.spans[i] = IF i \in 1 .. n /\ x.db.spans[i].exited # NoTs
                          THEN x.db.spans[i] ELSE f.spans[i]
    BY <1>4 DEF LaidRows
  <2>2. CASE y.db.spans = x.db.spans
    BY <1>4, <1>9, <2>1, <2>2
  <2>3. CASE /\ Len(y.db.spans) = n + 1
             /\ \A j \in 1 .. n : y.db.spans[j] = x.db.spans[j]
             /\ y.db.spans[n + 1] = [session |-> x.w.session, area |-> area, entered |-> ts,
                                     exited |-> NoTs, afk |-> 0]
    <3>1. CASE i \in 1 .. n
      <4>1. i \in 1 .. Len(y.db.spans) /\ y.db.spans[i] = x.db.spans[i]
        BY <2>3, <3>1
      <4> QED BY <1>9, <2>1, <3>1, <4>1
    <3>2. CASE i \notin 1 .. n
      <4>1. i \in 1 .. Len(y.db.spans) => y.db.spans[i].exited = NoTs
        BY <2>3, <3>2
      <4> QED BY <1>9, <2>1, <3>2, <4>1
    <3> QED BY <3>1, <3>2
  <2> QED BY <1>1, <1>4, <2>2, <2>3 DEF SpanOpens
<1>11. /\ y.db.sessions = x.db.sessions /\ y.db.away = x.db.away /\ y.w.session = x.w.session
       /\ y.w.start = x.w.start /\ y.w.afk = x.w.afk /\ y.w.away = x.w.away
       /\ y.w.spanAfk = 0 /\ y.w.last = x.w.last
  BY <1>1 DEF SpanOpens
<1>12. /\ v.db.sessions = z.db.sessions /\ v.db.away = z.db.away /\ v.w.session = z.w.session
       /\ v.w.start = z.w.start /\ v.w.afk = z.w.afk /\ v.w.away = z.w.away
       /\ v.w.spanAfk = 0 /\ v.w.last = z.w.last /\ v.w.queue = z.w.queue
       /\ v.db.notes = z.db.notes /\ v.db.queues = z.db.queues
  BY <1>3 DEF SpanOpens
<1>13. LaidRows(y, v, f)
  <2>1. v.db.away = Over(y.db.away, f.away)
    BY <1>11, <1>12 DEF LaidRows
  <2>2. \A s \in 1 .. Len(f.sessions) :
          v.db.sessions[s] = IF s \in 1 .. Len(y.db.sessions) /\ y.db.sessions[s].end # NoTs
                               THEN y.db.sessions[s] ELSE f.sessions[s]
    BY <1>11, <1>12 DEF LaidRows
  <2>3. Len(v.db.sessions) = Len(f.sessions) /\ v.db.notes = f.notes /\ v.db.queues = f.queues
    BY <1>12 DEF LaidRows
  <2>4. Len(v.db.spans) = Len(f.spans)
    BY <1>2, <1>9
  <2> QED BY <1>3, <1>4, <1>10, <2>1, <2>2, <2>3, <2>4 DEF LaidRows
<1>14. AwayAlike(y, v) /\ InSessionAlike(y, v)
  BY <1>11, <1>12 DEF AwayAlike, InSessionAlike
<1> QED BY <1>9, <1>11, <1>12, <1>13, <1>14 DEF Laid

(* What y's keys are in, those of the rows y grew from are in.             *)
LEMMA EarlierKeys ==
  ASSUME NEW x, Formed(x), NEW y, Grows(x, y), NEW f, Rows(f), KeysIn(y.db, f)
  PROVE  KeysIn(x.db, f)
<1>0. /\ Len(x.db.sessions) \in Nat /\ Len(y.db.sessions) \in Nat /\ Len(f.sessions) \in Nat
      /\ Len(x.db.spans) \in Nat /\ Len(y.db.spans) \in Nat /\ Len(f.spans) \in Nat
  BY Lengths DEF Grows, Formed
<1>1. /\ Len(x.db.sessions) <= Len(y.db.sessions) /\ Len(y.db.sessions) <= Len(f.sessions)
      /\ Len(x.db.spans) <= Len(y.db.spans) /\ Len(y.db.spans) <= Len(f.spans)
  BY DEF Grows, KeysIn
<1>2. ASSUME NEW s \in 1 .. Len(x.db.sessions) PROVE x.db.sessions[s].start = f.sessions[s].start
  <2>1. s \in 1 .. Len(y.db.sessions)
    BY <1>0, <1>1
  <2> QED BY <2>1 DEF Grows, KeysIn
<1>3. ASSUME NEW i \in 1 .. Len(x.db.spans)
      PROVE  /\ x.db.spans[i].session = f.spans[i].session
             /\ x.db.spans[i].area = f.spans[i].area
             /\ x.db.spans[i].entered = f.spans[i].entered
  <2>1. i \in 1 .. Len(y.db.spans)
    BY <1>0, <1>1
  <2> QED BY <2>1 DEF Grows, KeysIn
<1>4. x.db.notes \subseteq f.notes
  BY DEF Grows, KeysIn
<1>5. ASSUME NEW q \in x.db.queues
      PROVE  \E p \in f.queues : p.session = q.session /\ p.at = q.at
  <2>1. PICK r \in y.db.queues : r.session = q.session /\ r.at = q.at
    BY DEF Grows, KeysIn
  <2>2. PICK p \in f.queues : p.session = r.session /\ p.at = r.at
    BY DEF KeysIn
  <2> QED BY <2>1, <2>2
<1>6. Len(x.db.sessions) <= Len(f.sessions) /\ Len(x.db.spans) <= Len(f.spans)
  <2>1. ASSUME NEW i \in Nat, NEW j \in Nat, NEW k \in Nat, i <= j, j <= k PROVE i <= k
    BY <2>1
  <2> QED BY <1>0, <1>1, <2>1
<1> QED BY <1>2, <1>3, <1>4, <1>5, <1>6 DEF KeysIn

LEMMA StampedLaid ==
  ASSUME NEW f, NEW x, Formed(x), NEW z, Laid(x, z, f), NEW t,
         NEW y, y = Stamped(x, t), NEW v, v = Stamped(z, t)
  PROVE  Laid(y, v, f)
<1>1. Formed(y) /\ Stamps(x, y, t)
  BY StampedIs
<1>2. Formed(z)
  BY DEF Laid, LaidRows
<1>3. Formed(v) /\ Stamps(z, v, t)
  BY <1>2, StampedIs
<1>4. LaidRows(y, v, f)
  BY <1>1, <1>3 DEF Laid, LaidRows, Stamps
<1>5. /\ y.w.session = x.w.session /\ y.w.start = x.w.start /\ y.w.afk = x.w.afk
      /\ y.w.away = x.w.away /\ y.w.span = x.w.span /\ y.w.spanAfk = x.w.spanAfk /\ y.w.last = t
  BY <1>1 DEF Stamps
<1>6. /\ v.w.session = z.w.session /\ v.w.start = z.w.start /\ v.w.afk = z.w.afk
      /\ v.w.away = z.w.away /\ v.w.span = z.w.span /\ v.w.spanAfk = z.w.spanAfk /\ v.w.last = t
      /\ v.w.queue = z.w.queue
  BY <1>3 DEF Stamps
<1>7. AwayAlike(y, v) /\ InSessionAlike(y, v)
  BY <1>5, <1>6 DEF Laid, AwayAlike, InSessionAlike
<1> QED BY <1>4, <1>5, <1>6, <1>7 DEF Laid

(* What the first reading ends with: f, and the keys of all before in it.  *)
Final(f) == Rows(f) /\ Keyed(f)

LEMMA StartLaid ==
  ASSUME NEW f, Final(f), NEW x, Formed(x), Keyed(x.db),
         NEW z, LaidRows(x, z, f), AwayAlike(x, z), NEW ts, NEW area,
         NEW y, y = openSpan(beginSession(x, ts), ts, area), KeysIn(y.db, f),
         NEW v, v = openSpan(beginSession(z, ts), ts, area)
  PROVE  Laid(y, v, f)
<1>1. PICK g : g = beginSession(x, ts)
  OBVIOUS
<1>2. Grows(x, g) /\ g.w.session \in 1 .. Len(g.db.sessions)
  BY <1>1, BeginSessionGrows
<1>3. Formed(g) /\ Keyed(g.db) /\ g.w.session # NoId
  BY <1>2 DEF Grows, NoId
<1>4. Grows(g, y)
  BY <1>1, <1>3, OpenSpanGrows
<1>5. KeysIn(g.db, f)
  BY <1>3, <1>4, EarlierKeys DEF Final
<1>6. KeysIn(x.db, f)
  BY <1>2, <1>5, EarlierKeys DEF Final
<1>7. PICK h : h = beginSession(z, ts)
  OBVIOUS
<1>8. LaidRows(g, h, f) /\ AwayAlike(g, h) /\ InSessionAlike(g, h)
  BY <1>1, <1>5, <1>6, <1>7, BeginSessionLaid DEF Final
<1> QED BY <1>1, <1>3, <1>5, <1>7, <1>8, OpenSpanLaid DEF Final

LEMMA SessionStartLaid ==
  ASSUME NEW f, Final(f), NEW x, Good(x), NEW z, Laid(x, z, f), NEW ts,
         NEW y, y = handleSessionStart(x, ts), KeysIn(y.db, f),
         NEW v, v = handleSessionStart(z, ts)
  PROVE  Laid(y, v, f)
<1>1. PICK u : u = closeSession(x, x.w.last)
  OBVIOUS
<1>2. Grows(x, u)
  BY <1>1, CloseSessionGrows
<1>3. Formed(u) /\ Keyed(u.db) /\ Formed(x)
  BY <1>2 DEF Grows, Good
<1>4. y = openSpan(beginSession(u, ts), ts, None)
  BY <1>1 DEF handleSessionStart
<1>5. Grows(u, y)
  BY <1>3, <1>4, StartGrows
<1>6. KeysIn(u.db, f)
  BY <1>3, <1>5, EarlierKeys DEF Final
<1>7. KeysIn(x.db, f)
  BY <1>2, <1>3, <1>6, EarlierKeys DEF Final
<1>8. PICK t : t = closeSession(z, z.w.last)
  OBVIOUS
<1>9. z.w.last = x.w.last
  BY DEF Laid, AwayAlike
<1>10. Laid(u, t, f)
  <2>1. t = closeSession(z, x.w.last)
    BY <1>8, <1>9
  <2> QED BY <1>1, <1>7, <2>1, CloseSessionLaid
<1>11. v = openSpan(beginSession(t, ts), ts, None)
  BY <1>8 DEF handleSessionStart
<1>12. LaidRows(u, t, f) /\ AwayAlike(u, t)
  BY <1>10 DEF Laid
<1> QED BY <1>3, <1>4, <1>11, <1>12, StartLaid

LEMMA AreaEnteredLaid ==
  ASSUME NEW f, Final(f), NEW x, Good(x), NEW z, Laid(x, z, f), NEW ts, ts # NoTs, NEW area,
         NEW y, y = handleAreaEntered(x, ts, area), KeysIn(y.db, f),
         NEW v, v = handleAreaEntered(z, ts, area)
  PROVE  Laid(y, v, f)
<1>1. x.w.session # NoId /\ z.w.session # NoId
  BY DEF Good, InSpanNow, NoId, Laid, InSessionAlike
<1>2. ensureSession(x, ts) = x /\ ensureSession(z, ts) = z
  BY <1>1 DEF ensureSession
<1>3. PICK yes : yes = TRUE
  OBVIOUS
<1>4. PICK u : u = closeSpan(x, ts, yes)
  OBVIOUS
<1>5. PICK t : t = closeSpan(z, ts, yes)
  OBVIOUS
<1>6. y = openSpan(u, ts, area)
  <2>1. y = openSpan(closeSpan(x, ts, TRUE), ts, area)
    BY <1>2 DEF handleAreaEntered
  <2> QED BY <2>1, <1>3, <1>4, Zenon
<1>7. v = openSpan(t, ts, area)
  <2>1. v = openSpan(closeSpan(z, ts, TRUE), ts, area)
    BY <1>2 DEF handleAreaEntered
  <2> QED BY <2>1, <1>3, <1>5, Zenon
<1>8. Grows(x, u) /\ u.w.session = x.w.session
  BY <1>4, CloseSpanGrows DEF Good, InSpanNow
<1>9. Formed(u) /\ Keyed(u.db) /\ u.w.session # NoId
  BY <1>1, <1>8 DEF Grows
<1>10. Grows(u, y)
  BY <1>6, <1>9, OpenSpanGrows
<1>11. KeysIn(u.db, f)
  BY <1>9, <1>10, EarlierKeys DEF Final
<1>12. KeysIn(x.db, f)
  BY <1>8, <1>11, EarlierKeys DEF Final, Good
<1>13. Laid(u, t, f)
  BY <1>4, <1>5, <1>12, CloseSpanLaid
<1>14. LaidRows(u, t, f) /\ AwayAlike(u, t) /\ InSessionAlike(u, t)
  BY <1>13 DEF Laid
<1> QED BY <1>6, <1>7, <1>9, <1>11, <1>14, OpenSpanLaid DEF Final

LEMMA AwayLaid ==
  ASSUME NEW f, NEW x, Good(x), NEW z, Laid(x, z, f), NEW kind, NEW ts,
         NEW y, y = handleAway(x, kind, ts), NEW v, v = handleAway(z, kind, ts)
  PROVE  Laid(y, v, f)
<1>1. Formed(x) /\ Formed(z) /\ z.w.away = x.w.away
  BY DEF Good, Laid, LaidRows, AwayAlike
<1>2. PICK aways : aways = [x.w.away EXCEPT ![kind] = ts]
  OBVIOUS
<1>3. /\ y.db = x.db
      /\ y.w = [session |-> x.w.session, start |-> x.w.start, afk |-> x.w.afk, away |-> aways,
                span |-> x.w.span, spanAfk |-> x.w.spanAfk, queue |-> x.w.queue,
                last |-> x.w.last]
  BY <1>1, <1>2 DEF handleAway, Formed, Pair
<1>4. /\ v = [db |-> v.db, w |-> v.w] /\ v.db = z.db
      /\ v.w = [session |-> z.w.session, start |-> z.w.start, afk |-> z.w.afk, away |-> aways,
                span |-> z.w.span, spanAfk |-> z.w.spanAfk, queue |-> z.w.queue,
                last |-> z.w.last]
  BY <1>1, <1>2 DEF handleAway, Formed, Pair
<1>5. Formed(v)
  <2>1. Pair(v)
    BY <1>1, <1>4 DEF Formed, Pair
  <2> QED BY <1>1, <1>4, <2>1 DEF Formed, Rows
<1>6. LaidRows(y, v, f)
  BY <1>3, <1>4, <1>5 DEF Laid, LaidRows
<1>7. AwayAlike(y, v)
  BY <1>3, <1>4 DEF Laid, AwayAlike
<1>8. InSessionAlike(y, v) /\ v.w.span = y.w.span /\ v.w.spanAfk = y.w.spanAfk
  BY <1>3, <1>4 DEF Laid, InSessionAlike
<1> QED BY <1>6, <1>7, <1>8 DEF Laid

LEMMA BackLaid ==
  ASSUME NEW f, NEW x, Good(x), NEW z, Laid(x, z, f), NEW kind, NEW ts,
         NEW y, y = handleBack(x, kind, ts), NEW v, v = handleBack(z, kind, ts)
  PROVE  Laid(y, v, f)
<1>1. PICK no : no = FALSE
  OBVIOUS
<1>2. y = EndAway(x, kind, ts, no) /\ v = EndAway(z, kind, ts, no)
  BY <1>1 DEF handleBack
<1>3. Formed(x) /\ x.w.session # NoId
  BY DEF Good, InSpanNow, NoId
<1> QED BY <1>2, <1>3, EndAwayLaid

LEMMA NoteLaid ==
  ASSUME NEW f, NEW x, Good(x), NEW z, Laid(x, z, f), NEW line,
         NEW y, y = handleNote(x, line), KeysIn(y.db, f), NEW v, v = handleNote(z, line)
  PROVE  Laid(y, v, f)
<1>1. /\ Formed(x) /\ Formed(z) /\ x.w.session # NoId /\ z.w.session = x.w.session
      /\ z.db.notes = f.notes
  BY DEF Good, InSpanNow, NoId, Laid, LaidRows, InSessionAlike
<1>2. PICK row : row = [session |-> x.w.session, line |-> line]
  OBVIOUS
<1>3. /\ y.w = x.w
      /\ y.db = [sessions |-> x.db.sessions, spans |-> x.db.spans, away |-> x.db.away,
                 notes |-> x.db.notes \cup {row}, queues |-> x.db.queues]
  BY <1>1, <1>2, NoteIs
<1>4. /\ Formed(v) /\ v.w = z.w
      /\ v.db = [sessions |-> z.db.sessions, spans |-> z.db.spans, away |-> z.db.away,
                 notes |-> z.db.notes \cup {row}, queues |-> z.db.queues]
  BY <1>1, <1>2, NoteIs
<1>5. row \in f.notes
  BY <1>3 DEF KeysIn
<1>6. v.db.notes = f.notes
  BY <1>1, <1>4, <1>5
<1>7. /\ v.db.sessions = z.db.sessions /\ v.db.spans = z.db.spans /\ v.db.away = z.db.away
      /\ v.db.queues = z.db.queues
      /\ y.db.sessions = x.db.sessions /\ y.db.spans = x.db.spans /\ y.db.away = x.db.away
  BY <1>3, <1>4
<1>8. LaidRows(y, v, f)
  BY <1>4, <1>6, <1>7 DEF Laid, LaidRows
<1> QED BY <1>3, <1>4, <1>8 DEF Laid, AwayAlike, InSessionAlike

(* The second reading queues nothing: the row is there.                    *)
LEMMA QueueLaid ==
  ASSUME NEW f, NEW x, Good(x), NEW z, Laid(x, z, f), NEW ts,
         NEW y, y = handlePvpQueue(x, ts), KeysIn(y.db, f), NEW v, v = handlePvpQueue(z, ts)
  PROVE  Laid(y, v, f)
<1>1. /\ Formed(x) /\ Formed(z) /\ x.w.session # NoId /\ z.w.session = x.w.session
      /\ z.db.queues = f.queues
  BY DEF Good, InSpanNow, NoId, Laid, LaidRows, InSessionAlike
<1>2. PICK queues : queues = x.db.queues \cup {[session |-> x.w.session, at |-> ts,
                                                cancelled |-> NoTs]}
  OBVIOUS
<1>3. \/ y = x /\ \E q \in x.db.queues : q.session = x.w.session /\ q.at = ts
      \/ QueueChanges(x, y, queues, <<x.w.session, ts>>)
  BY <1>1, <1>2, QueueIs
<1>4. \E q \in f.queues : q.session = x.w.session /\ q.at = ts
  <2>1. \E q \in y.db.queues : q.session = x.w.session /\ q.at = ts
    <3>1. CASE QueueChanges(x, y, queues, <<x.w.session, ts>>)
      <4>1. y.db.queues = queues
        BY <3>1 DEF QueueChanges
      <4>2. PICK row : row = [session |-> x.w.session, at |-> ts, cancelled |-> NoTs]
        OBVIOUS
      <4>3. row.session = x.w.session /\ row.at = ts /\ row \in queues
        BY <1>2, <4>2
      <4> QED BY <4>1, <4>3
    <3> QED BY <1>3, <3>1
  <2>2. PICK q \in y.db.queues : q.session = x.w.session /\ q.at = ts
    BY <2>1
  <2>3. PICK p \in f.queues : p.session = q.session /\ p.at = q.at
    BY DEF KeysIn
  <2> QED BY <2>2, <2>3
<1>5. v = z
  <2>1. z.w.session # NoId /\ \E q \in z.db.queues : q.session = z.w.session /\ q.at = ts
    BY <1>1, <1>4
  <2> QED BY <1>1, <2>1, QueueIs
<1>6. CASE QueueChanges(x, y, queues, <<x.w.session, ts>>)
  <2>1. /\ y.db.sessions = x.db.sessions /\ y.db.spans = x.db.spans /\ y.db.away = x.db.away
        /\ y.w.session = x.w.session /\ y.w.start = x.w.start /\ y.w.afk = x.w.afk
        /\ y.w.away = x.w.away /\ y.w.span = x.w.span /\ y.w.spanAfk = x.w.spanAfk
        /\ y.w.last = x.w.last
    BY <1>6 DEF QueueChanges
  <2>2. LaidRows(y, v, f)
    BY <1>5, <2>1 DEF Laid, LaidRows
  <2> QED BY <1>5, <2>1, <2>2 DEF Laid, AwayAlike, InSessionAlike
<1> QED BY <1>3, <1>5, <1>6

LEMMA UnqueueLaid ==
  ASSUME NEW f, NEW x, Good(x), NEW z, Laid(x, z, f), NEW ts,
         NEW y, y = handlePvpQueueCancelled(x, ts), NEW v, v = handlePvpQueueCancelled(z, ts)
  PROVE  Laid(y, v, f)
<1>1. v = z
  BY DEF handlePvpQueueCancelled, Laid, AwayAlike
<1>2. y = x \/ QueueChanges(x, y, Unqueued(x, ts), <<>>)
  BY UnqueueIs DEF Good
<1>3. CASE QueueChanges(x, y, Unqueued(x, ts), <<>>)
  <2>1. /\ y.db.sessions = x.db.sessions /\ y.db.spans = x.db.spans /\ y.db.away = x.db.away
        /\ y.w.session = x.w.session /\ y.w.start = x.w.start /\ y.w.afk = x.w.afk
        /\ y.w.away = x.w.away /\ y.w.span = x.w.span /\ y.w.spanAfk = x.w.spanAfk
        /\ y.w.last = x.w.last
    BY <1>3 DEF QueueChanges
  <2>2. LaidRows(y, v, f)
    BY <1>1, <2>1 DEF Laid, LaidRows
  <2> QED BY <1>1, <2>1, <2>2 DEF Laid, AwayAlike, InSessionAlike
<1> QED BY <1>1, <1>2, <1>3

(* A line handled in both readings leaves the second laid over the first.  *)
LEMMA HandledLaid ==
  ASSUME NEW f, Final(f), NEW x, Good(x), NEW z, Laid(x, z, f),
         NEW a, NEW l, l.ts # NoTs, NEW n,
         NEW y, NEW b, Handles(x, a, l, n, y, b), KeysIn(y.db, f),
         NEW v, NEW c, Handles(z, a, l, n, v, c)
  PROVE  Laid(y, v, f) /\ b = c
<1>s. Formed(x) /\ x.w.session # NoId
  BY DEF Good, InSpanNow, NoId
<1>0. ASSUME NEW p, Formed(p), y = Stamped(p, l.ts), NEW q, v = Stamped(q, l.ts), Laid(p, q, f)
      PROVE  Laid(y, v, f)
  BY <1>0, StampedLaid
<1>1. ASSUME NEW p, y = Stamped(p, l.ts) PROVE KeysIn(p.db, f)
  <2>1. y.db = p.db
    BY <1>1 DEF Stamped
  <2> QED BY <2>1
<1>2. CASE l.kind = "start"
  <2>1. PICK p : p = handleSessionStart(x, l.ts) /\ y = Stamped(p, l.ts) /\ b = FALSE
    BY <1>2 DEF Handles
  <2>2. PICK q : q = handleSessionStart(z, l.ts) /\ v = Stamped(q, l.ts) /\ c = FALSE
    BY <1>2 DEF Handles
  <2>3. Formed(p)
    BY <2>1, SessionStartGrows DEF Grows
  <2>4. KeysIn(p.db, f)
    BY <1>1, <2>1
  <2>5. Laid(p, q, f)
    BY <2>1, <2>2, <2>4, SessionStartLaid
  <2>6. Laid(y, v, f)
    BY <1>0, <2>1, <2>2, <2>3, <2>5
  <2> QED BY <2>1, <2>2, <2>6
<1>3. CASE l.kind = "area"
  <2>1. PICK p : p = handleAreaEntered(x, l.ts, l.area) /\ y = Stamped(p, l.ts) /\ b = a
    BY <1>3 DEF Handles
  <2>2. PICK q : q = handleAreaEntered(z, l.ts, l.area) /\ v = Stamped(q, l.ts) /\ c = a
    BY <1>3 DEF Handles
  <2>3. Formed(p)
    BY <2>1, AreaEnteredGrows DEF Grows
  <2>4. KeysIn(p.db, f)
    BY <1>1, <2>1
  <2>5. Laid(p, q, f)
    BY <2>1, <2>2, <2>4, AreaEnteredLaid
  <2>6. Laid(y, v, f)
    BY <1>0, <2>1, <2>2, <2>3, <2>5
  <2> QED BY <2>1, <2>2, <2>6
<1>4. ASSUME NEW kind, NEW p, p = handleAway(x, kind, l.ts), y = Stamped(p, l.ts),
             NEW q, q = handleAway(z, kind, l.ts), v = Stamped(q, l.ts)
      PROVE  Laid(y, v, f)
  <2>1. Formed(p)
    BY <1>4, AwayGrows DEF Grows
  <2>2. Laid(p, q, f)
    BY <1>4, AwayLaid
  <2> QED BY <1>0, <1>4, <2>1, <2>2
<1>5. ASSUME NEW kind, NEW p, p = handleBack(x, kind, l.ts), y = Stamped(p, l.ts),
             NEW q, q = handleBack(z, kind, l.ts), v = Stamped(q, l.ts)
      PROVE  Laid(y, v, f)
  <2>1. Formed(p)
    BY <1>5, AwayGrows DEF Grows
  <2>2. Laid(p, q, f)
    BY <1>5, BackLaid
  <2> QED BY <1>0, <1>5, <2>1, <2>2
<1>6. CASE l.kind = "afk_on"
  <2>1. PICK p : p = handleAway(x, "afk", l.ts) /\ y = Stamped(p, l.ts) /\ b = a
    BY <1>6 DEF Handles
  <2>2. PICK q : q = handleAway(z, "afk", l.ts) /\ v = Stamped(q, l.ts) /\ c = a
    BY <1>6 DEF Handles
  <2> QED BY <1>4, <2>1, <2>2
<1>7. CASE l.kind = "afk_off"
  <2>1. PICK p : p = handleBack(x, "afk", l.ts) /\ y = Stamped(p, l.ts) /\ b = a
    BY <1>7 DEF Handles
  <2>2. PICK q : q = handleBack(z, "afk", l.ts) /\ v = Stamped(q, l.ts) /\ c = a
    BY <1>7 DEF Handles
  <2> QED BY <1>5, <2>1, <2>2
<1>8. CASE l.kind = "lost"
  <2>1. CASE a
    <3>1. y = x /\ v = z /\ b = TRUE /\ c = TRUE
      BY <1>8, <2>1 DEF Handles
    <3> QED BY <3>1
  <2>2. CASE ~a
    <3>1. PICK p : p = handleAway(x, "alt_tab", l.ts) /\ y = Stamped(p, l.ts) /\ b = TRUE
      BY <1>8, <2>2 DEF Handles
    <3>2. PICK q : q = handleAway(z, "alt_tab", l.ts) /\ v = Stamped(q, l.ts) /\ c = TRUE
      BY <1>8, <2>2 DEF Handles
    <3> QED BY <1>4, <3>1, <3>2
  <2> QED BY <2>1, <2>2
<1>9. CASE l.kind = "gained"
  <2>1. CASE a
    <3>1. PICK p : p = handleBack(x, "alt_tab", l.ts) /\ y = Stamped(p, l.ts) /\ b = FALSE
      BY <1>9, <2>1 DEF Handles
    <3>2. PICK q : q = handleBack(z, "alt_tab", l.ts) /\ v = Stamped(q, l.ts) /\ c = FALSE
      BY <1>9, <2>1 DEF Handles
    <3> QED BY <1>5, <3>1, <3>2
  <2>2. CASE ~a
    <3>1. y = x /\ v = z /\ b = FALSE /\ c = FALSE
      BY <1>9, <2>2 DEF Handles
    <3> QED BY <3>1
  <2> QED BY <2>1, <2>2
<1>10. CASE l.kind = "note"
  <2>1. PICK p : p = handleNote(x, n) /\ y = Stamped(p, l.ts) /\ b = a
    BY <1>10 DEF Handles
  <2>2. PICK q : q = handleNote(z, n) /\ v = Stamped(q, l.ts) /\ c = a
    BY <1>10 DEF Handles
  <2>3. Formed(p)
    BY <1>s, <2>1, NoteIs
  <2>4. KeysIn(p.db, f)
    BY <1>1, <2>1
  <2>5. Laid(p, q, f)
    BY <2>1, <2>2, <2>4, NoteLaid
  <2>6. Laid(y, v, f)
    BY <1>0, <2>1, <2>2, <2>3, <2>5
  <2> QED BY <2>1, <2>2, <2>6
<1>11. CASE l.kind = "queue"
  <2>1. PICK p : p = handlePvpQueue(x, l.ts) /\ y = Stamped(p, l.ts) /\ b = a
    BY <1>11 DEF Handles
  <2>2. PICK q : q = handlePvpQueue(z, l.ts) /\ v = Stamped(q, l.ts) /\ c = a
    BY <1>11 DEF Handles
  <2>3. Formed(p)
    <3>1. p = x \/ Formed(p)
      BY <1>s, <2>1, QueueIs
    <3> QED BY <1>s, <3>1
  <2>4. KeysIn(p.db, f)
    BY <1>1, <2>1
  <2>5. Laid(p, q, f)
    BY <2>1, <2>2, <2>4, QueueLaid
  <2>6. Laid(y, v, f)
    BY <1>0, <2>1, <2>2, <2>3, <2>5
  <2> QED BY <2>1, <2>2, <2>6
<1>12. CASE l.kind = "unqueue"
  <2>1. PICK p : p = handlePvpQueueCancelled(x, l.ts) /\ y = Stamped(p, l.ts) /\ b = a
    BY <1>12 DEF Handles
  <2>2. PICK q : q = handlePvpQueueCancelled(z, l.ts) /\ v = Stamped(q, l.ts) /\ c = a
    BY <1>12 DEF Handles
  <2>3. Formed(p)
    BY <2>1, UnqueueIs DEF Good
  <2>4. Laid(p, q, f)
    BY <2>1, <2>2, UnqueueLaid
  <2>5. Laid(y, v, f)
    BY <1>0, <2>1, <2>2, <2>3, <2>4
  <2> QED BY <2>1, <2>2, <2>5
<1>13. CASE l.kind \in {"level", "death"}
  <2>1. y = Stamped(x, l.ts) /\ v = Stamped(z, l.ts) /\ b = a /\ c = a
    BY <1>13 DEF Handles
  <2>2. Laid(y, v, f)
    BY <1>s, <1>0, <2>1
  <2> QED BY <2>1, <2>2
<1>14. \/ l.kind \in {"start", "area", "afk_on", "afk_off", "lost", "gained", "note", "queue", "unqueue"}
       \/ l.kind \in {"level", "death"}
  BY DEF Handles
<1> QED BY <1>2, <1>3, <1>6, <1>7, <1>8, <1>9, <1>10, <1>11, <1>12, <1>13, <1>14

(* A new Writer has nothing of a session's away time.                      *)
LEMMA NewWriterIs ==
  ASSUME NEW d
  PROVE  \E s, i : NewWriter(d) = [session |-> s, start |-> NoTs, afk |-> 0,
                                   away |-> [k \in Away |-> NoTs], span |-> i, spanAfk |-> 0,
                                   queue |-> <<>>, last |-> NoTs]
<1>1. CASE Unended(d) = {}
  BY <1>1 DEF NewWriter, NoWriter
<1>2. CASE Unended(d) # {}
  <2> DEFINE s == Newest(d, Unended(d))
             open == OpenSpans(d, s)
             i == CHOOSE j \in open : \A k \in open : d.spans[k].entered <= d.spans[j].entered
  <2>1. ASSUME NEW t, NEW j, NewWriter(d) = [NoWriter EXCEPT !.session = t, !.span = j]
        PROVE  \E q, p : NewWriter(d) = [session |-> q, start |-> NoTs, afk |-> 0,
                                         away |-> [k \in Away |-> NoTs], span |-> p, spanAfk |-> 0,
                                         queue |-> <<>>, last |-> NoTs]
    <3>1. NewWriter(d) = [session |-> t, start |-> NoTs, afk |-> 0,
                          away |-> [k \in Away |-> NoTs], span |-> j, spanAfk |-> 0,
                          queue |-> <<>>, last |-> NoTs]
      BY <2>1 DEF NoWriter
    <3> QED BY <3>1
  <2>2. CASE open = {}
    <3>1. NewWriter(d) = [NoWriter EXCEPT !.session = s, !.span = NoId]
      BY <1>2, <2>2 DEF NewWriter
    <3> HIDE DEF s
    <3> QED BY <2>1, <3>1
  <2>3. CASE open # {}
    <3>1. NewWriter(d) = [NoWriter EXCEPT !.session = s, !.span = i]
      BY <1>2, <2>3 DEF NewWriter
    <3> HIDE DEF s, i
    <3> QED BY <2>1, <3>1
  <2> QED BY <2>2, <2>3
<1> QED BY <1>1, <1>2

LEMMA FirstLaid ==
  ASSUME NEW f, Final(f),
         f = [sessions |-> f.sessions, spans |-> f.spans, away |-> f.away, notes |-> f.notes,
              queues |-> f.queues],
         NEW z, z = [db |-> f, w |-> NewWriter(f)], NEW ts,
         NEW y, y = Stamped(handleSessionStart(Unread, ts), ts), KeysIn(y.db, f),
         NEW v, v = Stamped(handleSessionStart(z, ts), ts)
  PROVE  Laid(y, v, f)
<1>1. PICK x : x = Unread
  OBVIOUS
<1>2. Formed(x) /\ Keyed(x.db)
  BY <1>1, FirstStart
<1>3. /\ x.db = [sessions |-> <<>>, spans |-> <<>>, away |-> {}, notes |-> {}, queues |-> {}]
      /\ x.w = NoWriter
  BY <1>1 DEF Unread
<1>4. PICK s, i : z.w = [session |-> s, start |-> NoTs, afk |-> 0, away |-> [k \in Away |-> NoTs],
                         span |-> i, spanAfk |-> 0, queue |-> <<>>, last |-> NoTs]
  BY NewWriterIs
<1>5. z.db = f /\ z = [db |-> z.db, w |-> z.w]
  OBVIOUS
<1>6. Formed(z)
  <2>1. z.w = [session |-> z.w.session, start |-> z.w.start, afk |-> z.w.afk, away |-> z.w.away,
               span |-> z.w.span, spanAfk |-> z.w.spanAfk, queue |-> z.w.queue,
               last |-> z.w.last]
    BY <1>4
  <2> QED BY <1>5, <2>1 DEF Formed, Pair, Final
<1>7. /\ x.w.away = [k \in Away |-> NoTs] /\ x.w.last = NoTs /\ x.w.session = NoId
      /\ z.w.away = [k \in Away |-> NoTs] /\ z.w.last = NoTs /\ z.w.queue = <<>>
  BY <1>3, <1>4 DEF NoWriter
<1>8. LaidRows(x, z, f)
  <2>1. x.db.sessions = <<>> /\ x.db.spans = <<>> /\ x.db.away = {}
    BY <1>3
  <2>2. Len(x.db.sessions) = 0 /\ Len(x.db.spans) = 0
    BY <2>1
  <2>3. f.away = Over(x.db.away, f.away)
    BY <2>1 DEF Over
  <2> QED BY <1>5, <1>6, <2>2, <2>3 DEF LaidRows
<1>9. AwayAlike(x, z)
  BY <1>7 DEF AwayAlike
<1>10. PICK p : p = openSpan(beginSession(x, ts), ts, None)
  OBVIOUS
<1>11. PICK q : q = openSpan(beginSession(z, ts), ts, None)
  OBVIOUS
<1>12. y = Stamped(p, ts)
  <2>1. closeSession(x, x.w.last) = x
    BY <1>7 DEF closeSession
  <2>2. handleSessionStart(x, ts) = p
    BY <1>10, <2>1 DEF handleSessionStart
  <2> QED BY <1>1, <2>2
<1>13. v = Stamped(q, ts)
  <2>1. closeSession(z, z.w.last) = z
    BY <1>7 DEF closeSession
  <2>2. handleSessionStart(z, ts) = q
    BY <1>11, <2>1 DEF handleSessionStart
  <2> QED BY <2>2
<1>14. y.db = p.db
  BY <1>12 DEF Stamped
<1>15. Laid(p, q, f)
  BY <1>2, <1>8, <1>9, <1>10, <1>11, <1>14, StartLaid
<1>16. Formed(p)
  BY <1>2, <1>10, StartGrows DEF Grows
<1> QED BY <1>12, <1>13, <1>15, <1>16, StampedLaid

LEMMA SameTable ==
  ASSUME NEW p, Table(p), NEW q, Table(q), Len(p) = Len(q), \A i \in 1 .. Len(q) : p[i] = q[i]
  PROVE  p = q
<1>1. p = [i \in 1 .. Len(p) |-> p[i]]
  BY DEF Table
<1>2. q = [i \in 1 .. Len(q) |-> q[i]]
  BY DEF Table
<1> QED BY <1>1, <1>2

LEMMA TailTable ==
  ASSUME NEW q, Table(q), q # <<>>
  PROVE  /\ Table(Tail(q)) /\ Len(q) \in Nat \ {0} /\ Len(Tail(q)) = Len(q) - 1 /\ Head(q) = q[1]
         /\ \A i \in 1 .. Len(q) - 1 : Tail(q)[i] = q[i + 1]
<1> DEFINE S == {q[i] : i \in 1 .. Len(q)}
<1>1. q \in Seq(S)
  BY DEF Table
<1> HIDE DEF S
<1>2. /\ Tail(q) \in Seq(S) /\ Len(q) \in Nat \ {0} /\ Len(Tail(q)) = Len(q) - 1 /\ Head(q) = q[1]
      /\ \A i \in 1 .. Len(q) - 1 : Tail(q)[i] = q[i + 1]
  BY <1>1
<1> QED BY <1>2, OwnValues

LEMMA WholeTable ==
  ASSUME NEW q, Table(q), q # <<>>, NEW p, p = SubSeq(q, Len(q) - Len(q) + 1, Len(q))
  PROVE  Table(p) /\ Len(p) = Len(q) /\ \A i \in 1 .. Len(q) : p[i] = q[i]
<1> DEFINE S == {q[i] : i \in 1 .. Len(q)}
<1>1. q \in Seq(S) /\ Len(q) \in Nat \ {0}
  BY TailTable DEF Table
<1>2. PICK n \in Nat \ {0} : n = Len(q)
  BY <1>1
<1>3. p = SubSeq(q, 1, n)
  BY <1>2
<1>4. \A i \in 1 .. n : q[i] \in S
  BY <1>2
<1> HIDE DEF S
<1>5. /\ p \in Seq(S)
      /\ Len(p) = IF 1 <= n THEN n - 1 + 1 ELSE 0
      /\ \A i \in 1 .. n - 1 + 1 : p[i] = q[1 + i - 1]
  BY <1>2, <1>3, <1>4, SubSeqProperties
<1>6. Len(p) = n /\ \A i \in 1 .. n : p[i] = q[i]
  BY <1>2, <1>5
<1> QED BY <1>2, <1>5, <1>6, OwnValues

-----------------------------------------------------------------------------
(* What the first reading made of the lines, one after the other.          *)
History(q, g, a) ==
  /\ g[0] = Unread /\ a[0] = FALSE
  /\ \A k \in 1 .. Len(q) :
       /\ Handles(g[k - 1], a[k - 1], q[k], k, g[k], a[k])
       /\ Good(g[k]) /\ KeysIn(g[k].db, g[Len(q)].db)

(* What a line makes of the roster, in session s.                          *)
Enrolled(r, s, l) ==
  IF l.kind = "level" THEN handleLevelUp(r, l.who)
  ELSE IF l.kind = "death" THEN handleCharacterDeath(r, s, l)
  ELSE r

DeathOf(s, l) == [session |-> s, who |-> l.who, at |-> l.ts]

(* Whoever dies in the k-th line has leveled up before.                    *)
Seen(q, k) == \E j \in 1 .. k : q[j].kind = "level" /\ q[j].who = q[k].who

(* r has the characters of the lines q, and those deaths that came after a *)
(* level-up.                                                               *)
Recalls(q, g, n, r) ==
  \A k \in 1 .. n :
    /\ q[k].kind = "level" => q[k].who \in r.chars
    /\ q[k].kind = "death" /\ Seen(q, k) => DeathOf(g[k - 1].w.session, q[k]) \in r.deaths

(* It ends with x and the roster r, and b is what the parser knows of the  *)
(* focus.                                                                  *)
EndsWith(q, x, b, r) ==
  \E g, a : /\ History(q, g, a) /\ g[Len(q)] = x /\ a[Len(q)] = b
            /\ Recalls(q, g, Len(q), r)

Enlists(r, s, l, p) ==
  /\ p.chars = IF l.kind = "level" THEN r.chars \cup {l.who} ELSE r.chars
  /\ p.deaths = IF l.kind = "death" /\ l.who \in r.chars THEN r.deaths \cup {DeathOf(s, l)}
                 ELSE r.deaths

LEMMA EnrolledIs ==
  ASSUME NEW r, NEW s, s # NoId, NEW l, NEW p, p = Enrolled(r, s, l)
  PROVE  Enlists(r, s, l, p)
<1>1. CASE l.kind = "level"
  <2>1. p.chars = r.chars \cup {l.who} /\ p.deaths = r.deaths
    BY <1>1 DEF Enrolled, handleLevelUp
  <2> QED BY <1>1, <2>1 DEF Enlists
<1>2. CASE l.kind = "death" /\ l.who \in r.chars
  <2>1. p.chars = r.chars /\ p.deaths = r.deaths \cup {DeathOf(s, l)}
    BY <1>2 DEF Enrolled, handleCharacterDeath, DeathOf
  <2> QED BY <1>2, <2>1 DEF Enlists
<1>3. CASE l.kind # "level" /\ ~(l.kind = "death" /\ l.who \in r.chars)
  <2>1. p = r
    BY <1>3 DEF Enrolled, handleCharacterDeath
  <2> QED BY <1>3, <2>1 DEF Enlists
<1> QED BY <1>1, <1>2, <1>3

LEMMA RecallsMore ==
  ASSUME NEW q, NEW n \in Nat, NEW g, NEW r, Recalls(q, g, n, r),
         NEW p, \A k \in 1 .. n : p[k] = q[k], NEW h, \A k \in 0 .. n : h[k] = g[k],
         n # 0 => g[n].w.session # NoId, n = 0 => p[n + 1].kind = "start",
         NEW t, t = Enrolled(r, g[n].w.session, p[n + 1])
  PROVE  Recalls(p, h, n + 1, t)
<1>1. PICK s, l : s = g[n].w.session /\ l = p[n + 1]
  OBVIOUS
<1>2. CASE n = 0
  BY <1>2 DEF Recalls
<1>3. CASE n # 0
  <2>1. /\ r.chars \subseteq t.chars /\ r.deaths \subseteq t.deaths
        /\ l.kind = "level" => t.chars = r.chars \cup {l.who}
        /\ l.kind = "death" /\ l.who \in r.chars => DeathOf(s, l) \in t.deaths
    <3>1. s # NoId /\ t = Enrolled(r, s, l)
      BY <1>1, <1>3
    <3>2. Enlists(r, s, l, t)
      BY <3>1, EnrolledIs
    <3> QED BY <3>2 DEF Enlists
  <2>2. ASSUME NEW k \in 1 .. n
        PROVE  /\ p[k].kind = "level" => p[k].who \in t.chars
               /\ p[k].kind = "death" /\ Seen(p, k)
                    => DeathOf(h[k - 1].w.session, p[k]) \in t.deaths
    <3>1. p[k] = q[k] /\ h[k - 1] = g[k - 1]
      OBVIOUS
    <3>2. Seen(p, k) => Seen(q, k)
      BY DEF Seen
    <3>3. /\ q[k].kind = "level" => q[k].who \in r.chars
          /\ q[k].kind = "death" /\ Seen(q, k) => DeathOf(g[k - 1].w.session, q[k]) \in r.deaths
      BY DEF Recalls
    <3> QED BY <2>1, <3>1, <3>2, <3>3
  <2>3. l.kind = "death" /\ Seen(p, n + 1) => l.who \in r.chars
    <3> SUFFICES ASSUME l.kind = "death", Seen(p, n + 1) PROVE l.who \in r.chars
      OBVIOUS
    <3>1. PICK j \in 1 .. n + 1 : p[j].kind = "level" /\ p[j].who = l.who
      BY <1>1 DEF Seen
    <3>2. j \in 1 .. n
      BY <1>1, <3>1
    <3>3. q[j].kind = "level" /\ q[j].who = l.who
      BY <3>1, <3>2
    <3> QED BY <3>2, <3>3 DEF Recalls
  <2>4. h[n + 1 - 1].w.session = s
    BY <1>1
  <2>5. /\ p[n + 1].kind = "level" => p[n + 1].who \in t.chars
        /\ p[n + 1].kind = "death" /\ Seen(p, n + 1)
             => DeathOf(h[n + 1 - 1].w.session, p[n + 1]) \in t.deaths
    BY <1>1, <2>1, <2>3, <2>4
  <2>6. ASSUME NEW k \in 1 .. n + 1
        PROVE  /\ p[k].kind = "level" => p[k].who \in t.chars
               /\ p[k].kind = "death" /\ Seen(p, k)
                    => DeathOf(h[k - 1].w.session, p[k]) \in t.deaths
    <3>1. CASE k \in 1 .. n
      BY <2>2, <3>1
    <3>2. CASE k = n + 1
      BY <2>5, <3>2
    <3> QED BY <3>1, <3>2
  <2> QED BY <2>6 DEF Recalls
<1> QED BY <1>2, <1>3

LEMMA HistoryGoesOn ==
  ASSUME NEW q, Table(q), NEW x, NEW e, NEW r, EndsWith(q, x, e, r),
         NEW l, l.ts # NoTs, q = <<>> => l.kind = "start",
         NEW y, NEW b, Handles(x, e, l, Len(q) + 1, y, b)
  PROVE  EndsWith(Append(q, l), y, b, Enrolled(r, x.w.session, l))
<1>n. PICK n \in Nat : n = Len(q)
  BY DEF Table
<1>g. PICK g, a : History(q, g, a) /\ g[n] = x /\ a[n] = e /\ Recalls(q, g, n, r)
  BY <1>n DEF EndsWith
<1>0. Handles(g[n], a[n], l, n + 1, y, b)
  BY <1>g, <1>n
<1> DEFINE h == [k \in 0 .. n + 1 |-> IF k = n + 1 THEN y ELSE g[k]]
           c == [k \in 0 .. n + 1 |-> IF k = n + 1 THEN b ELSE a[k]]
<1>1. PICK p : p = Append(q, l)
  OBVIOUS
<1>2. Len(p) = n + 1 /\ p[n + 1] = l /\ \A k \in 1 .. n : p[k] = q[k]
  BY <1>1, <1>n, AppendedTable
<1>3. /\ \A k \in 0 .. n : h[k] = g[k] /\ c[k] = a[k]
      /\ h[n + 1] = y /\ c[n + 1] = b
  OBVIOUS
<1>4. Good(y) /\ \A k \in 1 .. n : KeysIn(g[k].db, y.db)
  <2>1. CASE n = 0
    <3>1. q = <<>>
      BY <1>n, <2>1 DEF Table
    <3>2. y = Stamped(handleSessionStart(Unread, l.ts), l.ts)
      BY <1>0, <1>g, <2>1, <3>1 DEF History, Handles
    <3>3. Grows(Unread, y) /\ InSpanNow(y)
      BY <3>2, FirstStart
    <3> QED BY <2>1, <3>3 DEF Good, Grows
  <2>2. CASE n # 0
    <3>1. n \in 1 .. n
      BY <2>2
    <3>2. Good(g[n])
      BY <1>g, <1>n, <3>1 DEF History
    <3>3. Grows(g[n], y) /\ InSpanNow(y)
      BY <1>0, <3>2, HandlesGrows
    <3>4. ASSUME NEW k \in 1 .. n PROVE KeysIn(g[k].db, y.db)
      <4>1. PICK u : u = g[k]
        OBVIOUS
      <4>2. Good(u) /\ KeysIn(u.db, g[n].db)
        BY <1>g, <1>n, <4>1 DEF History
      <4>3. Grows(u, g[n])
        BY <3>2, <4>2 DEF Good, Grows
      <4>4. Grows(u, y)
        BY <3>3, <4>2, <4>3, GrowsOn DEF Good
      <4> QED BY <4>1, <4>4 DEF Grows
    <3> QED BY <3>3, <3>4 DEF Good, Grows
  <2> QED BY <2>1, <2>2
<1>5. KeysIn(y.db, y.db)
  BY <1>4, SelfGrows DEF Grows
<1> HIDE DEF h, c
<1>6. ASSUME NEW k \in 1 .. n + 1
      PROVE  /\ Handles(h[k - 1], c[k - 1], p[k], k, h[k], c[k])
             /\ Good(h[k]) /\ KeysIn(h[k].db, h[n + 1].db)
  <2>1. CASE k = n + 1
    <3>1. h[n] = g[n] /\ c[n] = a[n] /\ k - 1 = n
      BY <1>3, <2>1
    <3>2. h[k - 1] = g[n] /\ c[k - 1] = a[n] /\ p[k] = l /\ h[k] = y /\ c[k] = b
      BY <1>2, <1>3, <2>1, <3>1
    <3> QED BY <1>0, <1>3, <1>4, <1>5, <2>1, <3>2
  <2>2. CASE k # n + 1
    <3>1. k \in 1 .. n /\ k - 1 \in 0 .. n /\ k \in 0 .. n
      BY <2>2
    <3>2. h[k - 1] = g[k - 1] /\ c[k - 1] = a[k - 1] /\ p[k] = q[k] /\ h[k] = g[k] /\ c[k] = a[k]
      BY <1>2, <1>3, <3>1
    <3>3. Handles(g[k - 1], a[k - 1], q[k], k, g[k], a[k]) /\ Good(g[k])
      BY <1>g, <1>n, <3>1 DEF History
    <3> QED BY <1>3, <1>4, <3>1, <3>2, <3>3
  <2> QED BY <2>1, <2>2
<1>7. h[0] = Unread /\ c[0] = FALSE
  <2>1. h[0] = g[0] /\ c[0] = a[0]
    BY <1>3
  <2> QED BY <1>g, <2>1 DEF History
<1>8. History(p, h, c)
  BY <1>2, <1>6, <1>7 DEF History
<1>9. h[Len(p)] = y /\ c[Len(p)] = b
  BY <1>2, <1>3
<1>10. PICK t : t = Enrolled(r, x.w.session, l)
  OBVIOUS
<1>11. Recalls(p, h, Len(p), t)
  <2>1. n # 0 => g[n].w.session # NoId
    <3>1. n # 0 => Good(g[n])
      BY <1>g, <1>n DEF History
    <3> QED BY <3>1 DEF Good, InSpanNow, NoId
  <2>2. n = 0 => p[n + 1].kind = "start"
    <3>1. n = 0 => q = <<>>
      BY <1>n DEF Table
    <3> QED BY <1>2, <3>1
  <2>3. t = Enrolled(r, g[n].w.session, p[n + 1])
    BY <1>2, <1>10, <1>g
  <2>4. Recalls(p, h, n + 1, t)
    BY <1>2, <1>3, <1>g, <2>1, <2>2, <2>3, RecallsMore
  <2> QED BY <1>2, <2>4
<1> QED BY <1>1, <1>8, <1>9, <1>10, <1>11 DEF EndsWith

LEMMA FirstTwice ==
  ASSUME NEW f, Final(f),
         f = [sessions |-> f.sessions, spans |-> f.spans, away |-> f.away, notes |-> f.notes,
              queues |-> f.queues],
         NEW x, x = Unread, NEW z, z = [db |-> f, w |-> NewWriter(f)],
         NEW l, l.kind = "start", NEW n, NEW a, NEW e,
         NEW y, NEW b, Handles(x, a, l, n, y, b), KeysIn(y.db, f),
         NEW v, NEW c, Handles(z, e, l, n, v, c)
  PROVE  Laid(y, v, f) /\ c = b
<1>1. y = Stamped(handleSessionStart(x, l.ts), l.ts) /\ b = FALSE
  BY DEF Handles
<1>2. v = Stamped(handleSessionStart(z, l.ts), l.ts) /\ c = FALSE
  BY DEF Handles
<1>3. y = Stamped(handleSessionStart(Unread, l.ts), l.ts)
  BY <1>1
<1> QED BY <1>1, <1>2, <1>3, FirstLaid

(* The second reading has come as far as the k-th line.                    *)
Reread(g, a, n, k, z, b) ==
  /\ b = a[k]
  /\ k = 0 => z = [db |-> g[n].db, w |-> NewWriter(g[n].db)]
  /\ k # 0 => Laid(g[k], z, g[n].db)

LEMMA RereadGoesOn ==
  ASSUME NEW q, NEW g, NEW a, History(q, g, a), NEW n \in Nat, n = Len(q), q[1].kind = "start",
         \A i \in 1 .. n : q[i].ts # NoTs,
         NEW k \in 0 .. n - 1, NEW z, NEW b, Reread(g, a, n, k, z, b),
         NEW v, NEW c, Handles(z, b, q[k + 1], k + 1, v, c)
  PROVE  Reread(g, a, n, k + 1, v, c)
<1>1. k + 1 \in 1 .. n /\ n \in 1 .. n /\ k + 1 - 1 = k
  OBVIOUS
<1>2. PICK m : m = k + 1
  OBVIOUS
<1>3. PICK f : f = g[n].db
  OBVIOUS
<1>4. PICK l : l = q[m]
  OBVIOUS
<1>5. Final(f) /\ f = [sessions |-> f.sessions, spans |-> f.spans, away |-> f.away,
                      notes |-> f.notes, queues |-> f.queues]
  <2>1. Good(g[n])
    BY <1>1 DEF History
  <2> QED BY <1>3, <2>1 DEF Good, Final, Formed, Pair
<1>6. PICK y, d : y = g[m] /\ d = a[m]
  OBVIOUS
<1>7. Handles(g[k], a[k], l, m, y, d) /\ KeysIn(y.db, f)
  BY <1>1, <1>2, <1>3, <1>4, <1>6 DEF History
<1>8. Handles(z, b, l, m, v, c) /\ b = a[k] /\ l.ts # NoTs
  BY <1>1, <1>2, <1>4 DEF Reread
<1>9. Laid(y, v, f) /\ c = d
  <2>1. CASE k = 0
    <3>1. g[0] = Unread /\ l.kind = "start" /\ z = [db |-> f, w |-> NewWriter(f)]
      BY <1>2, <1>3, <1>4, <2>1 DEF History, Reread
    <3>2. PICK u, e : u = Unread /\ e = a[k]
      OBVIOUS
    <3>3. Handles(u, e, l, m, y, d)
      BY <1>7, <2>1, <3>1, <3>2
    <3> QED BY <1>5, <1>7, <1>8, <3>1, <3>2, <3>3, FirstTwice
  <2>2. CASE k # 0
    <3>1. PICK x : x = g[k]
      OBVIOUS
    <3>2. PICK e : e = a[k]
      OBVIOUS
    <3>3. Good(x) /\ Laid(x, z, f)
      BY <1>3, <2>2, <3>1 DEF History, Reread
    <3>4. Handles(x, e, l, m, y, d) /\ Handles(z, e, l, m, v, c)
      BY <1>7, <1>8, <3>1, <3>2
    <3>5. Laid(y, v, f) /\ d = c
      BY <1>5, <1>7, <1>8, <3>3, <3>4, HandledLaid
    <3> QED BY <3>5
  <2> QED BY <2>1, <2>2
<1> QED BY <1>1, <1>2, <1>3, <1>6, <1>9 DEF Reread

(* From the roster r to t, deaths are added that came too early.           *)
AddsEarly(r, t) ==
  /\ t.chars = r.chars /\ r.deaths \subseteq t.deaths
  /\ \A d \in t.deaths \ r.deaths : EarlyDeath(d)

(* A death that is new in the second reading has its row in the first one, *)
(* as the session is the same, unless it came too early.                   *)
LEMMA RereadAddsEarly ==
  ASSUME NEW q, NEW g, NEW a, NEW n \in Nat, NEW k \in 0 .. n - 1, History(q, g, a), n = Len(q), q = log,
         k = 0 => q[k + 1].kind = "start",
         NEW z, NEW b, Reread(g, a, n, k, z, b),
         NEW r, Recalls(q, g, n, r), NEW t, AddsEarly(r, t),
         NEW o, o = Enrolled(t, z.w.session, q[k + 1])
  PROVE  AddsEarly(r, o)
<1>1. PICK s, l : s = z.w.session /\ l = q[k + 1]
  OBVIOUS
<1>2. k + 1 \in 1 .. n
  OBVIOUS
<1>3. CASE k = 0
  BY <1>1, <1>3 DEF Enrolled
<1>4. CASE k # 0
  <2>1. s = g[k].w.session /\ s # NoId
    <3>1. Laid(g[k], z, g[n].db) /\ Good(g[k])
      BY <1>4 DEF Reread, History
    <3> QED BY <1>1, <3>1 DEF Laid, InSessionAlike, Good, InSpanNow, NoId
  <2>2. /\ t.deaths \subseteq o.deaths
        /\ l.kind = "level" => o.chars = t.chars \cup {l.who}
        /\ l.kind # "level" => o.chars = t.chars
        /\ IF l.kind = "death" /\ l.who \in t.chars
             THEN o.deaths = t.deaths \cup {DeathOf(s, l)} ELSE o.deaths = t.deaths
    <3>1. Enlists(t, s, l, o)
      BY <1>1, <2>1, EnrolledIs
    <3> QED BY <3>1 DEF Enlists
  <2>3. /\ l.kind = "level" => l.who \in r.chars
        /\ l.kind = "death" /\ Seen(q, k + 1) => DeathOf(s, l) \in r.deaths
    <3>1. g[k + 1 - 1] = g[k]
      OBVIOUS
    <3> QED BY <1>1, <1>2, <2>1, <3>1 DEF Recalls
  <2>4. o.chars = r.chars /\ r.deaths \subseteq o.deaths
    BY <2>2, <2>3 DEF AddsEarly
  <2>5. ASSUME NEW d \in o.deaths, d \notin r.deaths PROVE EarlyDeath(d)
    <3>1. CASE d \in t.deaths
      BY <2>5, <3>1 DEF AddsEarly
    <3>2. CASE d \notin t.deaths
      <4>1. l.kind = "death" /\ d = DeathOf(s, l) /\ ~Seen(q, k + 1)
        BY <2>2, <2>3, <2>5, <3>2
      <4>2. d.who = l.who /\ d.at = l.ts
        BY <4>1 DEF DeathOf
      <4>3. \A i \in 1 .. k + 1 : ~(q[i].kind = "level" /\ q[i].who = d.who)
        BY <1>1, <4>1, <4>2 DEF Seen
      <4> QED BY <1>1, <1>2, <4>1, <4>2, <4>3 DEF EarlyDeath
    <3> QED BY <3>1, <3>2
  <2> QED BY <2>4, <2>5 DEF AddsEarly
<1> QED BY <1>3, <1>4

LEMMA RereadSame ==
  ASSUME NEW x, Formed(x), NEW z, Laid(x, z, x.db)
  PROVE  z.db = x.db
<1>1. /\ Formed(z) /\ Len(z.db.sessions) = Len(x.db.sessions) /\ Len(z.db.spans) = Len(x.db.spans)
      /\ \A s \in 1 .. Len(x.db.sessions) : z.db.sessions[s] = x.db.sessions[s]
      /\ \A i \in 1 .. Len(x.db.spans) : z.db.spans[i] = x.db.spans[i]
      /\ z.db.notes = x.db.notes /\ z.db.queues = x.db.queues
  BY DEF Laid, LaidRows
<1>2. z.db.away = x.db.away
  BY DEF Laid, LaidRows, Over
<1>3. z.db.sessions = x.db.sessions
  BY <1>1, SameTable DEF Formed, Rows
<1>4. z.db.spans = x.db.spans
  BY <1>1, SameTable DEF Formed, Rows
<1> QED BY <1>1, <1>2, <1>3, <1>4 DEF Formed, Pair

(* What the tables and the Writer owe to the log, which is then read again. *)
Rereading(n) ==
  \E g, a : /\ History(log, g, a) /\ n # 0 /\ before[1] = g[n].db
            /\ Recalls(log, g, n, before[2]) /\ AddsEarly(before[2], roster)
            /\ Reread(g, a, n, n - Len(todo), Here, altTab)

Lines ==
  /\ Table(log) /\ \A i \in 1 .. Len(log) : log[i].ts \in Nat \ {0}
  /\ log # <<>> => log[1].kind = "start"
  /\ Table(todo) /\ Len(todo) <= Len(log)
  /\ \A j \in 1 .. Len(todo) : todo[j] = log[Len(log) - Len(todo) + j]

Recorded ==
  /\ restarts = 0 /\ sweeps = 0 /\ Lines
  /\ IF before = <<>> THEN todo = <<>> /\ EndsWith(log, Here, altTab, roster)
                     ELSE Rereading(Len(log))

LEMMA InitRecorded == ASSUME Init PROVE Recorded
<1>1. Table(<<>>) /\ Len(<<>>) = 0
  BY DEF Table
<1>2. Lines
  BY <1>1 DEF Init, Lines
<1> DEFINE g == [k \in {0} |-> Unread]
           a == [k \in {0} |-> FALSE]
<1>3. g[0] = Unread /\ a[0] = FALSE
  OBVIOUS
<1>4. Here = Unread
  BY DEF Init, Here, Unread
<1> HIDE DEF g, a
<1>5. History(log, g, a)
  BY <1>1, <1>3 DEF History, Init
<1>6. EndsWith(log, Here, altTab, roster)
  <2>1. Len(log) = 0 /\ Recalls(log, g, 0, roster)
    BY <1>1 DEF Init, Recalls
  <2> QED BY <1>3, <1>4, <1>5, <2>1 DEF EndsWith, Init
<1> QED BY <1>2, <1>6 DEF Recorded, Init

LEMMA FreshRecorded ==
  ASSUME Recorded, todo = <<>>, NEW l \in NextLines, Reads(l), UNCHANGED <<restarts, sweeps, before>>,
         Handles(Here, altTab, l, Line, Here', altTab'), roster' = Enrolled(roster, w.session, l)
  PROVE  Recorded'
<1>1. /\ before = <<>> /\ l \in FreshLines /\ Possible(l) /\ log' = Append(log, l) /\ todo' = <<>>
  BY DEF NextLines, Reads
<1>2. PICK n \in Nat : n = Len(log)
  BY DEF Recorded, Lines, Table
<1>3. log # <<>> => n \in 1 .. n
  BY <1>2 DEF Recorded, Lines, Table
<1>4. Now \in Nat \ {0}
  BY <1>2, <1>3 DEF Now, Recorded, Lines
<1>5. l.ts \in Nat \ {0}
  BY <1>1, <1>4, WriterAssumption DEF FreshLines
<1>6. EndsWith(log, Here, altTab, roster)
  BY <1>1 DEF Recorded
<1>7. Table(todo) /\ Len(todo) = 0 /\ Line = n + 1
  BY <1>2 DEF Recorded, Lines, Line
<1>10. Table(log)
  BY DEF Recorded, Lines
<1>11. l.ts # NoTs /\ (log = <<>> => l.kind = "start")
  BY <1>1, <1>5 DEF NoTs, Possible
<1>12. EndsWith(log', Here', altTab', roster')
  <2>1. PICK q, x, e, y, b, r : /\ q = log /\ x = Here /\ e = altTab /\ y = Here' /\ b = altTab'
                               /\ r = roster
    OBVIOUS
  <2>2. /\ Table(q) /\ EndsWith(q, x, e, r) /\ (q = <<>> => l.kind = "start")
        /\ Handles(x, e, l, Len(q) + 1, y, b)
    BY <1>2, <1>6, <1>7, <1>10, <1>11, <2>1
  <2>3. EndsWith(Append(q, l), y, b, Enrolled(r, x.w.session, l))
    BY <1>11, <2>2, HistoryGoesOn
  <2>4. roster' = Enrolled(r, x.w.session, l)
    BY <2>1 DEF Here
  <2> QED BY <1>1, <2>1, <2>3, <2>4
<1>13. /\ Table(log') /\ Len(log') = n + 1 /\ log'[n + 1] = l
       /\ \A i \in 1 .. n : log'[i] = log[i]
  BY <1>1, <1>2, <1>10, AppendedTable
<1>14. Lines'
  <2>1. \A i \in 1 .. n + 1 : log'[i].ts \in Nat \ {0}
    <3>1. ASSUME NEW i \in 1 .. n + 1 PROVE log'[i].ts \in Nat \ {0}
      <4>1. CASE i \in 1 .. n
        BY <1>2, <1>13, <4>1 DEF Recorded, Lines
      <4>2. CASE i = n + 1
        BY <1>5, <1>13, <4>2
      <4> QED BY <4>1, <4>2
    <3> QED BY <3>1
  <2>2. log'[1].kind = "start"
    <3>1. CASE log = <<>>
      <4>1. n = 0
        BY <1>2, <3>1
      <4> QED BY <1>11, <1>13, <3>1, <4>1
    <3>2. CASE log # <<>>
      <4>1. 1 \in 1 .. n
        BY <1>2, <1>3, <3>2
      <4> QED BY <1>13, <3>2, <4>1 DEF Recorded, Lines
    <3> QED BY <3>1, <3>2
  <2>3. Table(todo') /\ Len(todo') = 0
    BY <1>1, <1>7
  <2> QED BY <1>13, <2>1, <2>2, <2>3 DEF Lines
<1>15. restarts' = 0 /\ sweeps' = 0 /\ before' = <<>>
  BY <1>1 DEF Recorded
<1> QED BY <1>1, <1>12, <1>14, <1>15 DEF Recorded

LEMMA AgainRecorded ==
  ASSUME Recorded, todo # <<>>, NEW l \in NextLines, Reads(l), UNCHANGED <<restarts, sweeps, before>>,
         Handles(Here, altTab, l, Line, Here', altTab'), roster' = Enrolled(roster, w.session, l)
  PROVE  Recorded'
<1>1. l = Head(todo) /\ todo' = Tail(todo) /\ log' = log /\ before # <<>>
  BY DEF Reads, Recorded
<1>2. Table(log) /\ Table(todo) /\ Len(todo) <= Len(log)
  BY DEF Recorded, Lines
<1>3. PICK n \in Nat, m \in Nat \ {0} : n = Len(log) /\ m = Len(todo)
  <2>1. Len(log) \in Nat
    BY <1>2 DEF Table
  <2>2. Len(todo) \in Nat \ {0}
    BY <1>2, TailTable
  <2> QED BY <2>1, <2>2
<1>4. /\ Table(todo') /\ Len(todo') = m - 1 /\ l = todo[1]
      /\ \A i \in 1 .. m - 1 : todo'[i] = todo[i + 1]
  BY <1>1, <1>2, <1>3, TailTable
<1>5. PICK k \in 0 .. n - 1 : k = n - m
  BY <1>2, <1>3
<1>6. l = log[k + 1] /\ \A i \in 1 .. m - 1 : todo'[i] = log[n - (m - 1) + i]
  <2>1. \A j \in 1 .. m : todo[j] = log[k + j]
    BY <1>3, <1>5 DEF Recorded, Lines
  <2>2. ASSUME NEW i \in 1 .. m - 1 PROVE todo'[i] = log[n - (m - 1) + i]
    <3>1. i + 1 \in 1 .. m /\ k + (i + 1) = n - (m - 1) + i
      BY <1>3, <1>5
    <3>2. todo[i + 1] = log[k + (i + 1)]
      BY <2>1, <3>1
    <3> QED BY <1>4, <3>1, <3>2
  <2>3. 1 \in 1 .. m
    BY <1>3
  <2> QED BY <1>4, <2>1, <2>2, <2>3
<1>7. Lines'
  <2>1. Len(todo') <= Len(log')
    BY <1>1, <1>2, <1>3, <1>4
  <2>2. \A j \in 1 .. Len(todo') : todo'[j] = log'[Len(log') - Len(todo') + j]
    BY <1>1, <1>3, <1>4, <1>6
  <2> QED BY <1>1, <1>4, <2>1, <2>2 DEF Recorded, Lines
<1>8. PICK g, a : /\ History(log, g, a) /\ before[1] = g[n].db
                  /\ Recalls(log, g, n, before[2]) /\ AddsEarly(before[2], roster)
                  /\ Reread(g, a, n, k, Here, altTab)
  BY <1>1, <1>3, <1>5 DEF Recorded, Rereading
<1>9. Reread(g, a, n, k + 1, Here', altTab')
  <2>1. PICK q, z, b, v, c : q = log /\ z = Here /\ b = altTab /\ v = Here' /\ c = altTab'
    OBVIOUS
  <2>2. History(q, g, a) /\ n = Len(q) /\ Reread(g, a, n, k, z, b)
    BY <1>3, <1>8, <2>1
  <2>3. q[1].kind = "start" /\ \A i \in 1 .. n : q[i].ts # NoTs
    <3>1. \A i \in 1 .. n : q[i].ts \in Nat \ {0}
      BY <1>3, <2>1 DEF Recorded, Lines
    <3>2. q # <<>>
      <4>1. Len(<<>>) = 0
        OBVIOUS
      <4> QED BY <1>3, <1>5, <2>1, <4>1
    <3> QED BY <2>1, <3>1, <3>2 DEF Recorded, Lines, NoTs
  <2>4. Handles(z, b, q[k + 1], k + 1, v, c)
    <3>1. Line = k + 1
      BY <1>3, <1>5 DEF Line
    <3> QED BY <1>6, <2>1, <3>1
  <2>5. Reread(g, a, n, k + 1, v, c)
    BY <1>3, <1>5, <2>2, <2>3, <2>4, RereadGoesOn
  <2> QED BY <2>1, <2>5
<1>10. Rereading(Len(log))'
  <2>1. Len(log') = n /\ n - Len(todo') = k + 1 /\ n # 0
    BY <1>1, <1>3, <1>4, <1>5
  <2>2. before'[1] = g[n].db /\ History(log', g, a) /\ Recalls(log', g, n, before'[2])
    BY <1>1, <1>8
  <2>3. AddsEarly(before[2], roster)'
    <3>1. PICK q, z, b, r, t, o : /\ q = log /\ z = Here /\ b = altTab /\ r = before[2] /\ t = roster
                                 /\ o = roster'
      OBVIOUS
    <3>2. AddsEarly(r, o)
      <4>1. /\ History(q, g, a) /\ Recalls(q, g, n, r) /\ AddsEarly(r, t) /\ q = log
            /\ Reread(g, a, n, k, z, b) /\ o = Enrolled(t, z.w.session, q[k + 1])
        BY <1>6, <1>8, <3>1 DEF Here
      <4>2. k = 0 => q[k + 1].kind = "start"
        BY <1>1, <1>3, <1>5, <1>7, <3>1 DEF Recorded, Lines
      <4> QED BY <1>3, <1>5, <4>1, <4>2, RereadAddsEarly
    <3> QED BY <1>1, <3>1, <3>2 DEF AddsEarly, EarlyDeath
  <2> QED BY <1>9, <2>1, <2>2, <2>3 DEF Rereading
<1>11. restarts' = 0 /\ sweeps' = 0 /\ before' # <<>>
  BY <1>1 DEF Recorded
<1> QED BY <1>7, <1>10, <1>11 DEF Recorded

LEMMA NextRecorded ==
  ASSUME Recorded, [Next]_vars, restarts' = 0, sweeps' = 0
  PROVE  Recorded'
<1>1. ASSUME NEW l \in NextLines, Reads(l), UNCHANGED <<restarts, sweeps, before>>,
             Handles(Here, altTab, l, Line, Here', altTab'), roster' = Enrolled(roster, w.session, l)
      PROVE  Recorded'
  BY <1>1, FreshRecorded, AgainRecorded
<1>2. ASSUME NEW x, NEW l, Becomes(x, l)
      PROVE  /\ Here' = Stamped(x, l.ts) /\ UNCHANGED <<restarts, sweeps, before>>
             /\ l.kind \notin {"level", "death"} => roster' = Enrolled(roster, w.session, l)
  BY <1>2 DEF Becomes, restVars, Here, Stamped, Enrolled
<1>r. ASSUME NEW l, l.kind \notin {"level", "death"}, roster' = roster
      PROVE  roster' = Enrolled(roster, w.session, l)
  BY <1>r DEF Enrolled
<1>3. ASSUME SessionStart PROVE Recorded'
  <2>1. PICK l \in NextLines : /\ l.kind = "start" /\ Reads(l) /\ altTab' = FALSE
                              /\ Becomes(handleSessionStart(Here, l.ts), l)
    BY <1>3 DEF SessionStart, On
  <2>2. /\ Here' = Stamped(handleSessionStart(Here, l.ts), l.ts) /\ UNCHANGED <<restarts, sweeps, before>>
        /\ roster' = Enrolled(roster, w.session, l)
    BY <1>2, <2>1
  <2>3. Handles(Here, altTab, l, Line, Here', altTab')
    BY <2>1, <2>2 DEF Handles
  <2> QED BY <1>1, <2>1, <2>2, <2>3
<1>4. ASSUME AreaEntered PROVE Recorded'
  <2>1. PICK l \in NextLines : /\ l.kind = "area" /\ Reads(l) /\ altTab' = altTab
                              /\ Becomes(handleAreaEntered(Here, l.ts, l.area), l)
    BY <1>4 DEF AreaEntered, On
  <2>2. /\ Here' = Stamped(handleAreaEntered(Here, l.ts, l.area), l.ts)
        /\ UNCHANGED <<restarts, sweeps, before>>
        /\ roster' = Enrolled(roster, w.session, l)
    BY <1>2, <2>1
  <2>3. Handles(Here, altTab, l, Line, Here', altTab')
    BY <2>1, <2>2 DEF Handles
  <2> QED BY <1>1, <2>1, <2>2, <2>3
<1>5. ASSUME AfkOn PROVE Recorded'
  <2>1. PICK l \in NextLines : /\ l.kind = "afk_on" /\ Reads(l) /\ altTab' = altTab
                              /\ Becomes(handleAway(Here, "afk", l.ts), l)
    BY <1>5 DEF AfkOn, On
  <2>2. /\ Here' = Stamped(handleAway(Here, "afk", l.ts), l.ts) /\ UNCHANGED <<restarts, sweeps, before>>
        /\ roster' = Enrolled(roster, w.session, l)
    BY <1>2, <2>1
  <2>3. Handles(Here, altTab, l, Line, Here', altTab')
    BY <2>1, <2>2 DEF Handles
  <2> QED BY <1>1, <2>1, <2>2, <2>3
<1>6. ASSUME AfkOff PROVE Recorded'
  <2>1. PICK l \in NextLines : /\ l.kind = "afk_off" /\ Reads(l) /\ altTab' = altTab
                              /\ Becomes(handleBack(Here, "afk", l.ts), l)
    BY <1>6 DEF AfkOff, On
  <2>2. /\ Here' = Stamped(handleBack(Here, "afk", l.ts), l.ts) /\ UNCHANGED <<restarts, sweeps, before>>
        /\ roster' = Enrolled(roster, w.session, l)
    BY <1>2, <2>1
  <2>3. Handles(Here, altTab, l, Line, Here', altTab')
    BY <2>1, <2>2 DEF Handles
  <2> QED BY <1>1, <2>1, <2>2, <2>3
<1>7. ASSUME FocusLost PROVE Recorded'
  <2>1. PICK l \in NextLines : /\ l.kind = "lost" /\ Reads(l) /\ altTab' = TRUE
                              /\ IF altTab THEN UNCHANGED <<db, w, roster, restVars>>
                                           ELSE Becomes(handleAway(Here, "alt_tab", l.ts), l)
    BY <1>7 DEF FocusLost, On
  <2>2. CASE altTab
    <3>1. /\ Here' = Here /\ UNCHANGED <<restarts, sweeps, before>>
          /\ roster' = Enrolled(roster, w.session, l)
      BY <1>r, <2>1, <2>2 DEF Here, restVars
    <3>2. Handles(Here, altTab, l, Line, Here', altTab')
      BY <2>1, <2>2, <3>1 DEF Handles
    <3> QED BY <1>1, <2>1, <3>1, <3>2
  <2>3. CASE ~altTab
    <3>1. /\ Here' = Stamped(handleAway(Here, "alt_tab", l.ts), l.ts)
          /\ UNCHANGED <<restarts, sweeps, before>>
          /\ roster' = Enrolled(roster, w.session, l)
      BY <1>2, <2>1, <2>3
    <3>2. Handles(Here, altTab, l, Line, Here', altTab')
      BY <2>1, <2>3, <3>1 DEF Handles
    <3> QED BY <1>1, <2>1, <3>1, <3>2
  <2> QED BY <2>2, <2>3
<1>8. ASSUME FocusGained PROVE Recorded'
  <2>1. PICK l \in NextLines : /\ l.kind = "gained" /\ Reads(l) /\ altTab' = FALSE
                              /\ IF altTab THEN Becomes(handleBack(Here, "alt_tab", l.ts), l)
                                           ELSE UNCHANGED <<db, w, roster, restVars>>
    BY <1>8 DEF FocusGained, On
  <2>2. CASE altTab
    <3>1. /\ Here' = Stamped(handleBack(Here, "alt_tab", l.ts), l.ts)
          /\ UNCHANGED <<restarts, sweeps, before>>
          /\ roster' = Enrolled(roster, w.session, l)
      BY <1>2, <2>1, <2>2
    <3>2. Handles(Here, altTab, l, Line, Here', altTab')
      BY <2>1, <2>2, <3>1 DEF Handles
    <3> QED BY <1>1, <2>1, <3>1, <3>2
  <2>3. CASE ~altTab
    <3>1. /\ Here' = Here /\ UNCHANGED <<restarts, sweeps, before>>
          /\ roster' = Enrolled(roster, w.session, l)
      BY <1>r, <2>1, <2>3 DEF Here, restVars
    <3>2. Handles(Here, altTab, l, Line, Here', altTab')
      BY <2>1, <2>3, <3>1 DEF Handles
    <3> QED BY <1>1, <2>1, <3>1, <3>2
  <2> QED BY <2>2, <2>3
<1>9. ASSUME Note PROVE Recorded'
  <2>1. PICK l \in NextLines : /\ l.kind = "note" /\ Reads(l) /\ altTab' = altTab
                              /\ Becomes(handleNote(Here, Line), l)
    BY <1>9 DEF Note, On
  <2>2. /\ Here' = Stamped(handleNote(Here, Line), l.ts) /\ UNCHANGED <<restarts, sweeps, before>>
        /\ roster' = Enrolled(roster, w.session, l)
    BY <1>2, <2>1
  <2>3. Handles(Here, altTab, l, Line, Here', altTab')
    BY <2>1, <2>2 DEF Handles
  <2> QED BY <1>1, <2>1, <2>2, <2>3
<1>10. ASSUME PvpQueue PROVE Recorded'
  <2>1. PICK l \in NextLines : /\ l.kind = "queue" /\ Reads(l) /\ altTab' = altTab
                              /\ Becomes(handlePvpQueue(Here, l.ts), l)
    BY <1>10 DEF PvpQueue, On
  <2>2. /\ Here' = Stamped(handlePvpQueue(Here, l.ts), l.ts) /\ UNCHANGED <<restarts, sweeps, before>>
        /\ roster' = Enrolled(roster, w.session, l)
    BY <1>2, <2>1
  <2>3. Handles(Here, altTab, l, Line, Here', altTab')
    BY <2>1, <2>2 DEF Handles
  <2> QED BY <1>1, <2>1, <2>2, <2>3
<1>11. ASSUME PvpQueueCancelled PROVE Recorded'
  <2>1. PICK l \in NextLines : /\ l.kind = "unqueue" /\ Reads(l) /\ altTab' = altTab
                              /\ Becomes(handlePvpQueueCancelled(Here, l.ts), l)
    BY <1>11 DEF PvpQueueCancelled, On
  <2>2. /\ Here' = Stamped(handlePvpQueueCancelled(Here, l.ts), l.ts)
        /\ UNCHANGED <<restarts, sweeps, before>>
        /\ roster' = Enrolled(roster, w.session, l)
    BY <1>2, <2>1
  <2>3. Handles(Here, altTab, l, Line, Here', altTab')
    BY <2>1, <2>2 DEF Handles
  <2> QED BY <1>1, <2>1, <2>2, <2>3
<1>12. ASSUME CommitBatch \/ UNCHANGED vars PROVE Recorded'
  <2>1. UNCHANGED <<Here, altTab, log, todo, roster, restarts, sweeps, before>>
    BY <1>12 DEF CommitBatch, vars, Here
  <2>2. Rereading(Len(log)) => Rereading(Len(log))'
    BY <2>1 DEF Rereading, AddsEarly, EarlyDeath
  <2>3. Lines'
    BY <2>1 DEF Recorded, Lines
  <2> QED BY <2>1, <2>2, <2>3 DEF Recorded
<1>13. ~Sweep /\ ~Restart
  BY DEF Sweep, Restart, Recorded
<1>14. ASSUME ReadAgain PROVE Recorded'
  <2>1. /\ before = <<>> /\ todo = <<>> /\ log # <<>> /\ db = saved
        /\ roster' = roster /\ before' = <<db, roster>>
        /\ db' = saved /\ w' = NewWriter(saved) /\ altTab' = FALSE
        /\ todo' = SubSeq(log, Len(log) - Len(log) + 1, Len(log))
        /\ UNCHANGED <<log, restarts, sweeps>>
    BY <1>14 DEF ReadAgain, Resume, NoBatch
  <2>2. Table(log)
    BY DEF Recorded, Lines
  <2>3. PICK n \in Nat \ {0} : n = Len(log)
    BY <2>1, <2>2, TailTable
  <2>4. Table(todo') /\ Len(todo') = n /\ \A i \in 1 .. n : todo'[i] = log[i]
    BY <2>1, <2>2, <2>3, WholeTable
  <2>5. Lines'
    <3>1. \A j \in 1 .. Len(todo') : todo'[j] = log'[Len(log') - Len(todo') + j]
      <4>1. ASSUME NEW j \in 1 .. n PROVE n - n + j = j
        OBVIOUS
      <4> QED BY <2>1, <2>3, <2>4, <4>1
    <3>2. Len(todo') <= Len(log')
      BY <2>1, <2>3, <2>4
    <3> QED BY <2>1, <2>4, <3>1, <3>2 DEF Recorded, Lines
  <2>6. PICK g, a : History(log, g, a) /\ g[n] = Here /\ a[n] = altTab /\ Recalls(log, g, n, roster)
    BY <2>1, <2>3 DEF Recorded, EndsWith
  <2>7. g[n].db = db /\ a[0] = FALSE
    BY <2>6 DEF Here, History
  <2>8. Here' = [db |-> g[n].db, w |-> NewWriter(g[n].db)]
    BY <2>1, <2>7 DEF Here
  <2>9. Reread(g, a, n, 0, Here', altTab')
    BY <2>1, <2>7, <2>8 DEF Reread
  <2>10. Rereading(Len(log))'
    <3>1. /\ Len(log') = n /\ n - Len(todo') = 0 /\ before'[1] = g[n].db /\ before'[2] = roster
          /\ History(log', g, a) /\ Recalls(log', g, n, before'[2])
      BY <2>1, <2>3, <2>4, <2>6, <2>7
    <3>2. AddsEarly(before[2], roster)'
      BY <2>1, <3>1 DEF AddsEarly
    <3> QED BY <2>3, <2>9, <3>1, <3>2 DEF Rereading
  <2> QED BY <2>1, <2>5, <2>10 DEF Recorded
<1>15. ASSUME LevelUp \/ CharacterDeath PROVE Recorded'
  <2>1. PICK l \in NextLines :
          /\ l.kind \in {"level", "death"} /\ Reads(l) /\ altTab' = altTab
          /\ RosterBecomes(Enrolled(roster, w.session, l), l)
    BY <1>15 DEF LevelUp, CharacterDeath, On, Enrolled
  <2>2. /\ Here' = Stamped(Here, l.ts) /\ UNCHANGED <<restarts, sweeps, before>>
        /\ roster' = Enrolled(roster, w.session, l)
    BY <2>1 DEF RosterBecomes, restVars, Here, Stamped
  <2>3. Handles(Here, altTab, l, Line, Here', altTab')
    BY <2>1, <2>2 DEF Handles
  <2> QED BY <1>1, <2>1, <2>2, <2>3
<1> QED
  BY <1>3, <1>4, <1>5, <1>6, <1>7, <1>8, <1>9, <1>10, <1>11, <1>12, <1>13, <1>14, <1>15
  DEF Next

LEMMA RecordedSame == Recorded => SecondReadingAddsEarlyDeaths
<1> SUFFICES ASSUME Recorded, before # <<>>, todo = <<>>
             PROVE  db = before[1] /\ AddsEarly(before[2], roster)
  BY DEF SecondReadingAddsEarlyDeaths, AddsEarly
<1>1. PICK n \in Nat : n = Len(log)
  BY DEF Recorded, Lines, Table
<1>2. PICK g, a : /\ History(log, g, a) /\ n # 0 /\ before[1] = g[n].db
                  /\ AddsEarly(before[2], roster)
                  /\ Reread(g, a, n, n - Len(todo), Here, altTab)
  BY <1>1 DEF Recorded, Rereading
<1>3. n - Len(todo) = n
  BY <1>1
<1>4. Laid(g[n], Here, g[n].db)
  BY <1>2, <1>3 DEF Reread
<1>5. Formed(g[n])
  BY <1>1, <1>2 DEF History, Good
<1>6. Here.db = g[n].db
  BY <1>4, <1>5, RereadSame
<1> QED BY <1>2, <1>6 DEF Here

Counters == restarts \in 0 .. MaxRestarts /\ sweeps \in 0 .. MaxSweeps
Undisturbed == Counters /\ (restarts = 0 /\ sweeps = 0 => Recorded)

LEMMA NextUndisturbed == ASSUME Undisturbed, [Next]_vars PROVE Undisturbed'
<1>1. CASE UNCHANGED <<restarts, sweeps>>
  BY <1>1, NextRecorded DEF Undisturbed, Counters
<1>2. CASE Sweep
  <2>1. sweeps < MaxSweeps /\ sweeps' = sweeps + 1 /\ restarts' = restarts
    BY <1>2 DEF Sweep
  <2> QED BY <2>1, WriterAssumption DEF Undisturbed, Counters
<1>3. CASE Restart
  <2>1. restarts < MaxRestarts /\ restarts' = restarts + 1 /\ sweeps' = sweeps
    BY <1>3 DEF Restart
  <2> QED BY <2>1, WriterAssumption DEF Undisturbed, Counters
<1>4. ASSUME NEW l \in NextLines, NEW x, Becomes(x, l) \/ UNCHANGED <<db, w, roster, restVars>>
      PROVE  UNCHANGED <<restarts, sweeps>>
  BY <1>4 DEF Becomes, restVars
<1>5. SessionStart \/ AreaEntered \/ AfkOn \/ AfkOff => UNCHANGED <<restarts, sweeps>>
  BY <1>4 DEF SessionStart, AreaEntered, AfkOn, AfkOff
<1>6. FocusLost \/ FocusGained => UNCHANGED <<restarts, sweeps>>
  BY <1>4 DEF FocusLost, FocusGained
<1>7. Note \/ PvpQueue \/ PvpQueueCancelled => UNCHANGED <<restarts, sweeps>>
  BY <1>4 DEF Note, PvpQueue, PvpQueueCancelled
<1>9. LevelUp \/ CharacterDeath => UNCHANGED <<restarts, sweeps>>
  BY DEF LevelUp, CharacterDeath, RosterBecomes, restVars
<1>8. CommitBatch \/ ReadAgain \/ UNCHANGED vars => UNCHANGED <<restarts, sweeps>>
  BY DEF CommitBatch, ReadAgain, vars
<1> QED BY <1>1, <1>2, <1>3, <1>5, <1>6, <1>7, <1>8, <1>9 DEF Next

LEMMA UndisturbedInvariance == Spec => []Undisturbed
<1>1. Init => Undisturbed
  <2>1. Init => Counters
    BY WriterAssumption DEF Init, Counters
  <2> QED BY <2>1, InitRecorded DEF Undisturbed
<1>2. Undisturbed /\ [Next]_vars => Undisturbed'
  BY NextUndisturbed
<1> QED BY <1>1, <1>2, PTL DEF Spec

(* The whole log once more adds early deaths and leaves every other row as *)
(* it was, whatever lines it has, areas entered within one second          *)
(* included, unless a restart or a sweep has come between: the UNIQUE keys *)
(* and the upserts make each handler's rows fall on the first ones         *)
(* (beginSession, openSpan, writeAwayRow, handlePvpQueue), and a death     *)
(* that is new was of a character nobody knew (handleCharacterDeath).      *)
THEOREM SecondReading == Spec => [](restarts = 0 /\ sweeps = 0 => SecondReadingAddsEarlyDeaths)
<1>1. Undisturbed => (restarts = 0 /\ sweeps = 0 => SecondReadingAddsEarlyDeaths)
  BY RecordedSame DEF Undisturbed
<1> QED BY <1>1, UndisturbedInvariance, PTL

(* The same where neither happens, as in the instance that is checked.     *)
THEOREM SecondReadingAlone ==
  MaxRestarts = 0 /\ MaxSweeps = 0 /\ Spec => []SecondReadingAddsEarlyDeaths
<1> SUFFICES ASSUME MaxRestarts = 0 /\ MaxSweeps = 0 PROVE Spec => []SecondReadingAddsEarlyDeaths
  OBVIOUS
<1>1. Undisturbed => SecondReadingAddsEarlyDeaths
  BY RecordedSame DEF Undisturbed, Counters
<1> QED BY <1>1, UndisturbedInvariance, PTL
=============================================================================
