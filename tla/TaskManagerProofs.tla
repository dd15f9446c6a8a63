------------------------- MODULE TaskManagerProofs -------------------------
(***************************************************************************)
(* Proofs about TaskManager, for any kinds of tasks, any number of slots   *)
(* for each and any number of tasks: Dequeued fills the slots of a kind    *)
(* with its oldest waiting tasks, and every action keeps TaskInv, the      *)
(* conjunction of what the module promises and of what that rests on.      *)
(***************************************************************************)
EXTENDS TaskManager, FiniteSetTheorems, NaturalsInduction, WellFoundedInduction, TLAPS

(* What the code gives the constants: every kind has a slot, and only      *)
(* MainWindow submits tasks of the general one.                            *)
Sized ==
  /\ Slots \in [Kind \cup {General} -> Nat \ {0}]
  /\ General \notin Kind
  /\ {MaxTasks, MaxTimers} \subseteq Nat /\ None \notin Nat \cup {"active"}

(* What the messages on their way and the trackers' records say of them.   *)
Signal == {"low", "full", "finished", "failed"}
Ending == {"finished", "failed"}

(* Who has sent its last signal is over; a tracker that is over has ended, *)
(* or its signal is on its way; the trackers are the general tasks.        *)
Mail(m) == {m[i] : i \in 1 .. Len(m)}

Told ==
  /\ \A m \in Mail(mailbox) : m[2] \in Ending => m[1] \in over
  /\ \A t \in trackers \cap over : status[t] \in Terminal \/ <<t, "finished">> \in Mail(mailbox)
  /\ \A t \in Submitted : kind[t] = General => t \in trackers
  /\ trackerTask \in trackers \cup {None}

TaskTypes ==
  /\ Sized
  /\ kind \in Seq(Kind \cup {General}) /\ status \in Seq(Active \cup Hidden)
  /\ Len(kind) <= MaxTasks /\ Len(status) = Len(kind)
  /\ mailbox \in Seq(Submitted \X Signal)
  /\ pendingShow \subseteq Submitted /\ rows \subseteq Submitted
  /\ trackers \subseteq Submitted /\ over \subseteq Submitted

TaskInv == TaskTypes /\ Told /\ SlotsFilled /\ RowsMatchTasks /\ TrackerHeld

-----------------------------------------------------------------------------
(* A non-empty set of naturals has a least element, and a greatest one if  *)
(* it is bounded.                                                          *)
LEMMA Least ==
  ASSUME NEW S, S \subseteq Nat, S # {}
  PROVE  \E m \in S : \A n \in S : m <= n
<1> DEFINE R == OpToRel(<, Nat)
<1>1. IsWellFoundedOn(R, Nat)
  BY NatLessThanWellFounded
<1>2. \A m, n \in Nat : n < m => <<n, m>> \in R
  BY DEF OpToRel
<1> HIDE DEF R
<1>3. PICK m \in S : \A n \in S : ~ (<<n, m>> \in R)
  BY <1>1, WFMin
<1>4. \A n \in S : ~ (n < m)
  BY <1>2, <1>3, Zenon
<1> QED BY <1>4

LEMMA Greatest ==
  ASSUME NEW n \in Nat, NEW S, S \subseteq 1 .. n, S # {}
  PROVE  \E m \in S : \A i \in S : i <= m
<1> DEFINE U == {u \in Nat : \A i \in S : i <= u}
<1>1. n \in U /\ U \subseteq Nat
  OBVIOUS
<1>2. PICK u \in U : \A v \in U : u <= v
  BY <1>1, Least
<1>3. u \in S
  <2> SUFFICES ASSUME u \notin S PROVE FALSE
    OBVIOUS
  <2>1. PICK i \in S : TRUE
    OBVIOUS
  <2>2. \A j \in S : j < u
    BY <1>2
  <2>3. u \in Nat /\ u - 1 \in Nat
    BY <2>1, <2>2
  <2>4. u - 1 \in U
    BY <2>2, <2>3
  <2> QED BY <1>2, <2>3, <2>4
<1> QED BY <1>2, <1>3

(* Of the waiting tasks P those that fewer than m are older than: they are *)
(* m, or all.                                                              *)
LEMMA OldestFill ==
  ASSUME NEW n \in Nat, NEW P, P \subseteq 1 .. n, NEW m \in Nat,
         NEW Q, Q \subseteq P, \A t \in P : t \in Q <=> Cardinality({u \in P : u < t}) < m
  PROVE  IsFiniteSet(Q) /\ Cardinality(Q) <= m /\ (Q # P => Cardinality(Q) = m)
<1> DEFINE Older(t) == {u \in P : u < t}
<1>0. P \subseteq Nat
  OBVIOUS
<1>1. IsFiniteSet(P)
  <2>1. IsFiniteSet(1 .. n)
    BY FS_Interval
  <2> QED BY <2>1, FS_Subset
<1>2. Q \subseteq P /\ IsFiniteSet(Q) /\ Cardinality(Q) \in Nat
  BY <1>1, FS_Subset, FS_CardinalityType
<1>3. \A t \in P : IsFiniteSet(Older(t)) /\ Cardinality(Older(t)) \in Nat
  BY <1>1, FS_Subset, FS_CardinalityType
<1>4. \A t, u \in P : u < t => Cardinality(Older(u)) <= Cardinality(Older(t))
  <2> SUFFICES ASSUME NEW t \in P, NEW u \in P, u < t
               PROVE  Cardinality(Older(u)) <= Cardinality(Older(t))
    OBVIOUS
  <2>1. \A x \in P : x < u => x < t
    BY <1>0
  <2>2. Older(u) \subseteq Older(t)
    BY <2>1
  <2> QED BY <1>3, <2>2, FS_Subset
<1>5. \A t \in P : t \in Q <=> Cardinality(Older(t)) < m
  OBVIOUS
<1> HIDE DEF Older
<1>6. \A t \in Q, u \in P : u < t => u \in Q
  BY <1>2, <1>3, <1>4, <1>5
<1>7. Cardinality(Q) <= m
  <2>1. CASE Q = {}
    <3>1. Cardinality(Q) = 0
      BY <2>1, FS_EmptySet
    <3> QED BY <3>1
  <2>2. CASE Q # {}
    <3>1. PICK q \in Q : \A i \in Q : i <= q
      BY <1>2, <2>2, Greatest
    <3>2. Q = Older(q) \cup {q} /\ q \notin Older(q)
      <4>1. q \in Nat /\ q \in P /\ ~(q < q)
        BY <1>0, <1>2
      <4>2. \A x \in Q : x = q \/ x < q
        BY <1>0, <1>2, <3>1
      <4>3. \A x : x \in Older(q) <=> x \in P /\ x < q
        BY DEF Older
      <4> QED BY <1>2, <1>6, <4>1, <4>2, <4>3
    <3>3. Cardinality(Q) = Cardinality(Older(q)) + 1
      BY <1>2, <1>3, <3>2, FS_AddElement
    <3> QED BY <1>2, <1>3, <1>5, <3>3
  <2> QED BY <2>1, <2>2
<1>8. ASSUME Q # P PROVE m <= Cardinality(Q)
  <2>1. PICK p \in P \ Q : \A i \in P \ Q : p <= i
    <3>1. P \ Q \subseteq Nat /\ P \ Q # {}
      BY <1>0, <1>2, <1>8
    <3> QED BY <3>1, Least
  <2>2. Older(p) = Q
    <3>1. \A i \in P : i < p => i \in Q
      BY <2>1
    <3>2. \A i \in Q : i < p
      BY <1>0, <1>2, <1>6, <2>1
    <3> QED BY <1>2, <3>1, <3>2 DEF Older
  <2> QED BY <1>2, <1>5, <2>1, <2>2
<1> QED BY <1>2, <1>7, <1>8

(* The running and the waiting tasks of a kind.                            *)
RunningOf(s, kinds, k) == {t \in DOMAIN s : kinds[t] = k /\ s[t] \in Occupying}
WaitingOf(s, kinds, k) == {t \in DOMAIN s : kinds[t] = k /\ s[t] = "Pending"}

Fits(s, kinds, k) == Cardinality(RunningOf(s, kinds, k)) <= Slots[k]
Filled(s, kinds, k) ==
  Fits(s, kinds, k)
  /\ (WaitingOf(s, kinds, k) # {} => Cardinality(RunningOf(s, kinds, k)) = Slots[k])

States == Active \cup Hidden

LEMMA DequeuedStates ==
  ASSUME NEW s \in Seq(States), NEW kinds
  PROVE  /\ Dequeued(s, kinds) \in Seq(States) /\ Len(Dequeued(s, kinds)) = Len(s)
         /\ DOMAIN Dequeued(s, kinds) = 1 .. Len(s)
         /\ \A t \in 1 .. Len(s) :
              Dequeued(s, kinds)[t] = s[t]
              \/ (s[t] = "Pending" /\ Dequeued(s, kinds)[t] = "Running")
<1> DEFINE d == Dequeued(s, kinds)
<1>1. DOMAIN s = 1 .. Len(s) /\ \A t \in 1 .. Len(s) : s[t] \in States
  OBVIOUS
<1>2. /\ d = [t \in 1 .. Len(s) |-> d[t]]
      /\ \A t \in 1 .. Len(s) : d[t] = s[t] \/ (s[t] = "Pending" /\ d[t] = "Running")
  BY <1>1 DEF Dequeued
<1>3. \A t \in 1 .. Len(s) : d[t] \in States
  BY <1>1, <1>2 DEF States, Active
<1> HIDE DEF d
<1>4. Len(s) \in Nat
  OBVIOUS
<1>5. d \in Seq(States) /\ Len(d) = Len(s)
  BY <1>2, <1>3, <1>4
<1> QED BY <1>2, <1>5 DEF d

LEMMA DequeuedFills ==
  ASSUME Sized, NEW s \in Seq(States), NEW kinds, NEW k \in Kind \cup {General}, Fits(s, kinds, k)
  PROVE  Filled(Dequeued(s, kinds), kinds, k)
<1> DEFINE d == Dequeued(s, kinds)
           R == RunningOf(s, kinds, k)
           P == WaitingOf(s, kinds, k)
           m == Slots[k] - Cardinality(R)
           Q == {t \in P : Cardinality({u \in P : u < t}) < m}
<1>1. Len(s) \in Nat /\ DOMAIN s = 1 .. Len(s) /\ DOMAIN d = 1 .. Len(s)
  BY DequeuedStates
<1>2. P \subseteq 1 .. Len(s) /\ R \subseteq 1 .. Len(s) /\ R \cap P = {}
  BY <1>1 DEF WaitingOf, RunningOf, Occupying
<1>0. IsFiniteSet(1 .. Len(s))
  BY <1>1, FS_Interval
<1>3. IsFiniteSet(R) /\ Cardinality(R) \in Nat
  BY <1>0, <1>2, FS_Subset, FS_CardinalityType
<1>4. Slots[k] \in Nat /\ m \in Nat
  BY <1>3 DEF Fits, Sized
<1>5. IsFiniteSet(Q) /\ Cardinality(Q) <= m /\ (Q # P => Cardinality(Q) = m) /\ Q \subseteq P
  <2>1. Q \subseteq P /\ \A t \in P : t \in Q <=> Cardinality({u \in P : u < t}) < m
    OBVIOUS
  <2> HIDE DEF P, Q, m
  <2> QED BY <1>1, <1>2, <1>4, <2>1, OldestFill
<1>6. \A t \in P : d[t] = IF t \in Q THEN "Running" ELSE "Pending"
  <2> SUFFICES ASSUME NEW t \in P PROVE d[t] = IF t \in Q THEN "Running" ELSE "Pending"
    OBVIOUS
  <2>1. t \in 1 .. Len(s) /\ s[t] = "Pending" /\ kinds[t] = k
    BY <1>1 DEF WaitingOf
  <2>2. {u \in 1 .. t - 1 : s[u] = "Pending" /\ kinds[u] = kinds[t]} = {u \in P : u < t}
    BY <1>1, <2>1 DEF WaitingOf
  <2>3. runningCount(s, kinds[t], kinds) = Cardinality(R)
    BY <2>1 DEF runningCount, RunningOf
  <2>4. d[t] = IF Cardinality(R) + Cardinality({u \in P : u < t}) < Slots[k] THEN "Running" ELSE "Pending"
    BY <1>1, <2>1, <2>2, <2>3 DEF Dequeued
  <2>5. Cardinality({u \in P : u < t}) \in Nat
    <3> HIDE DEF P
    <3>1. {u \in P : u < t} \subseteq 1 .. Len(s)
      BY <1>2
    <3> QED BY <1>0, <3>1, FS_Subset, FS_CardinalityType
  <2> QED BY <1>3, <1>4, <2>4, <2>5
<1>7. \A t \in 1 .. Len(s) : kinds[t] = k /\ t \notin P => d[t] = s[t]
  BY <1>1, DequeuedStates DEF WaitingOf
<1>8. RunningOf(d, kinds, k) = R \cup Q /\ WaitingOf(d, kinds, k) = P \ Q
  BY <1>1, <1>2, <1>5, <1>6, <1>7 DEF RunningOf, WaitingOf, Occupying
<1>9. Cardinality(R \cup Q) = Cardinality(R) + Cardinality(Q)
  <2>1. R \cap Q = {}
    BY <1>2, <1>5
  <2>2. Cardinality(R \cap Q) = 0
    BY <2>1, FS_EmptySet
  <2>3. Cardinality(Q) \in Nat
    BY <1>5, FS_CardinalityType
  <2>4. IsFiniteSet(R) /\ IsFiniteSet(Q)
    BY <1>3, <1>5
  <2> HIDE DEF Q, R
  <2>5. Cardinality(R \cup Q) = Cardinality(R) + Cardinality(Q) - Cardinality(R \cap Q)
    BY <2>4, FS_Union
  <2> QED BY <1>3, <2>2, <2>3, <2>5
<1>10. Cardinality(Q) \in Nat
  BY <1>5, FS_CardinalityType
<1> HIDE DEF d, R, P, Q
<1>11. Fits(d, kinds, k)
  BY <1>3, <1>4, <1>5, <1>8, <1>9, <1>10 DEF m, Fits
<1>12. WaitingOf(d, kinds, k) # {} => Cardinality(RunningOf(d, kinds, k)) = Slots[k]
  BY <1>3, <1>4, <1>5, <1>8, <1>9, <1>10 DEF m
<1> QED BY <1>11, <1>12 DEF Filled, d

LEMMA StatesAre == States = {"Pending", "Running", "Finished", "Failed", "Cancelled", "Monitoring"}
BY DEF States, Active, Hidden, Terminal

LEMMA FilledMeans ==
  ASSUME NEW kinds, NEW s \in Seq(States), Len(s) = Len(kinds), NEW k
  PROVE  Filled(s, kinds, k) <=>
           LET running == Cardinality({t \in 1 .. Len(kinds) : kinds[t] = k /\ s[t] \in Occupying})
           IN /\ running <= Slots[k]
              /\ (\E t \in 1 .. Len(kinds) : kinds[t] = k /\ s[t] = "Pending") => running = Slots[k]
<1>1. DOMAIN s = 1 .. Len(kinds)
  OBVIOUS
<1>2. /\ RunningOf(s, kinds, k) = {t \in 1 .. Len(kinds) : kinds[t] = k /\ s[t] \in Occupying}
      /\ WaitingOf(s, kinds, k) = {t \in 1 .. Len(kinds) : kinds[t] = k /\ s[t] = "Pending"}
  BY <1>1 DEF RunningOf, WaitingOf
<1>3. WaitingOf(s, kinds, k) # {} <=> (\E t \in 1 .. Len(kinds) : kinds[t] = k /\ s[t] = "Pending")
  BY <1>2
<1> QED BY <1>2, <1>3 DEF Filled, Fits

(* Fewer tasks run: they still fit.                                        *)
LEMMA FitsLess ==
  ASSUME Sized, NEW s \in Seq(States), NEW r \in Seq(States), Len(r) = Len(s), NEW kinds,
         NEW k \in Kind \cup {General}, Fits(s, kinds, k),
         \A t \in 1 .. Len(s) : r[t] \in Occupying => s[t] \in Occupying
  PROVE  Fits(r, kinds, k)
<1>1. DOMAIN s = 1 .. Len(s) /\ DOMAIN r = 1 .. Len(s) /\ Len(s) \in Nat
  OBVIOUS
<1>2. RunningOf(r, kinds, k) \subseteq RunningOf(s, kinds, k) /\ RunningOf(s, kinds, k) \subseteq 1 .. Len(s)
  BY <1>1 DEF RunningOf
<1>3. IsFiniteSet(1 .. Len(s))
  BY <1>1, FS_Interval
<1>4. IsFiniteSet(RunningOf(s, kinds, k)) /\ IsFiniteSet(RunningOf(r, kinds, k))
  BY <1>2, <1>3, FS_Subset
<1>5. Cardinality(RunningOf(r, kinds, k)) <= Cardinality(RunningOf(s, kinds, k))
      /\ Cardinality(RunningOf(r, kinds, k)) \in Nat /\ Cardinality(RunningOf(s, kinds, k)) \in Nat
  BY <1>2, <1>4, FS_Subset, FS_CardinalityType
<1>6. Slots[k] \in Nat
  BY DEF Sized
<1> QED BY <1>5, <1>6 DEF Fits

(* The same tasks run, and none waits that did not.                        *)
LEMMA FilledKept ==
  ASSUME NEW s \in Seq(States), NEW r \in Seq(States), Len(r) = Len(s), NEW kinds, NEW k,
         Filled(s, kinds, k),
         \A t \in 1 .. Len(s) : r[t] \in Occupying <=> s[t] \in Occupying,
         \A t \in 1 .. Len(s) : r[t] = "Pending" => s[t] = "Pending"
  PROVE  Filled(r, kinds, k)
<1>1. DOMAIN s = 1 .. Len(s) /\ DOMAIN r = 1 .. Len(s)
  OBVIOUS
<1>2. RunningOf(r, kinds, k) = RunningOf(s, kinds, k) /\ WaitingOf(r, kinds, k) \subseteq WaitingOf(s, kinds, k)
  BY <1>1 DEF RunningOf, WaitingOf
<1> QED BY <1>2 DEF Filled, Fits

-----------------------------------------------------------------------------
(* The records change, and the panel and the status bar are told.          *)

LEMMA UpdateRows ==
  ASSUME TaskTypes, RowsMatchTasks, NEW t \in Submitted, NEW s \in Seq(States),
         Len(s) = Len(status), kind' = kind, Update(t, s),
         \A u \in Submitted : s[u] = "Pending" => status[u] = "Pending"
  PROVE  /\ status' = s /\ RowsMatchTasks'
         /\ pendingShow' \subseteq Submitted /\ rows' \subseteq Submitted
<1> DEFINE changed == {t} \cup {u \in DOMAIN s : s[u] # status[u]}
<1>1. /\ status' = s
      /\ pendingShow' = pendingShow \ {u \in changed : s[u] \in Hidden}
      /\ rows' = (rows \ {u \in changed : s[u] \in Hidden})
                   \cup {u \in changed \ pendingShow : s[u] = "Running"}
      /\ lastStatus' = StatusContent(t, s)
  BY DEF Update, onTaskUpdated
<1>2. /\ DOMAIN s = Submitted /\ Submitted' = Submitted /\ \A u \in Submitted : s[u] \in States
      /\ \A u \in Submitted : status[u] \in States
      /\ pendingShow \subseteq Submitted /\ rows = {u \in Submitted \ pendingShow : status[u] \in Active}
  <2>1. status \in Seq(States) /\ Len(s) = Len(kind)
    BY DEF TaskTypes, States
  <2>2. DOMAIN s = Submitted /\ DOMAIN status = Submitted
    BY <2>1 DEF TaskTypes, Submitted
  <2>3. Submitted' = Submitted
    BY DEF Submitted
  <2>4. (\A u \in Submitted : s[u] \in States) /\ (\A u \in Submitted : status[u] \in States)
    BY <2>1, <2>2
  <2> QED BY <2>2, <2>3, <2>4 DEF TaskTypes, RowsMatchTasks
<1>3. changed \subseteq Submitted /\ \A u \in Submitted \ changed : s[u] = status[u]
  BY <1>2
<1> HIDE DEF changed
<1>4. \A u \in Submitted : s[u] \in Hidden <=> s[u] \notin Active
  BY <1>2, StatesAre DEF Active, Hidden, Terminal
<1>5. pendingShow' \subseteq Submitted /\ rows' \subseteq Submitted
  BY <1>1, <1>2, <1>3
<1>6. ASSUME NEW u \in Submitted PROVE u \in rows' <=> u \notin pendingShow' /\ s[u] \in Active
  <2>1. CASE u \notin changed
    BY <1>1, <1>2, <1>3, <2>1
  <2>2. CASE u \in changed /\ s[u] \in Hidden
    <3>1. u \notin rows'
      BY <1>1, <2>2 DEF Hidden, Terminal
    <3> QED BY <1>4, <2>2, <3>1
  <2>3. CASE u \in changed /\ s[u] = "Running"
    <3>1. s[u] \in Active
      BY <2>3 DEF Active
    <3>2. u \in pendingShow' <=> u \in pendingShow
      BY <1>1, <1>4, <2>3, <3>1
    <3>3. u \in rows' <=> u \in rows \/ u \notin pendingShow
      BY <1>1, <1>4, <2>3, <3>1
    <3> QED BY <1>2, <3>1, <3>2, <3>3
  <2>4. CASE u \in changed /\ s[u] = "Pending"
    <3>1. s[u] \in Active /\ status[u] \in Active
      BY <2>4 DEF Active
    <3>2. u \in pendingShow' <=> u \in pendingShow
      BY <1>1, <1>4, <2>4, <3>1
    <3>3. u \in rows' <=> u \in rows
      BY <1>1, <1>4, <2>4, <3>1
    <3> QED BY <1>2, <3>1, <3>2, <3>3
  <2> QED BY <1>2, <2>1, <2>2, <2>3, <2>4, StatesAre DEF Hidden, Terminal
<1>7. rows' = {u \in Submitted \ pendingShow' : s[u] \in Active}
  BY <1>5, <1>6
<1>8. lastStatus' = "active" <=> \E u \in Submitted : s[u] \in Active
  <2>1. CASE \E u \in Submitted : s[u] \in Active
    BY <1>1, <1>2, <2>1 DEF StatusContent
  <2>2. CASE ~(\E u \in Submitted : s[u] \in Active)
    <3>1. s[t] \in {"Finished", "Monitoring", "Failed", "Cancelled"}
      BY <1>4, <2>2 DEF Hidden, Terminal
    <3> QED BY <1>1, <1>2, <2>2, <3>1 DEF StatusContent
  <2> QED BY <2>1, <2>2
<1> QED BY <1>1, <1>2, <1>5, <1>7, <1>8 DEF RowsMatchTasks

(* A task is submitted.                                                    *)
LEMMA SubmitAdds ==
  ASSUME TaskTypes, SlotsFilled, RowsMatchTasks, NEW k \in Kind \cup {General}, submit(k),
         NEW n, n = Len(kind) + 1
  PROVE  /\ kind' \in Seq(Kind \cup {General}) /\ status' \in Seq(States)
         /\ Len(kind') = n /\ Len(status') = n /\ n <= MaxTasks
         /\ Submitted' = Submitted \cup {n} /\ n \notin Submitted
         /\ kind'[n] = k /\ \A u \in Submitted : kind'[u] = kind[u]
         /\ status'[n] \in {"Pending", "Running"}
         /\ \A u \in Submitted :
              status'[u] = status[u] \/ (status[u] = "Pending" /\ status'[u] = "Running")
         /\ pendingShow' \subseteq Submitted' /\ rows' = rows
         /\ SlotsFilled' /\ RowsMatchTasks'
<1> DEFINE s == Append(status, "Pending")
           ks == Append(kind, k)
<1>1. /\ kind \in Seq(Kind \cup {General}) /\ status \in Seq(States) /\ Len(status) = Len(kind)
      /\ Len(kind) \in Nat
      /\ DOMAIN status = Submitted
  BY DEF TaskTypes, States, Submitted
<1>2. s \in Seq(States) /\ Len(s) = n /\ s[n] = "Pending" /\ \A u \in Submitted : s[u] = status[u]
  BY <1>1 DEF States, Active, Submitted
<1>3. ks \in Seq(Kind \cup {General}) /\ Len(ks) = n /\ ks[n] = k /\ \A u \in Submitted : ks[u] = kind[u]
  BY <1>1 DEF Submitted
<1>4. /\ n \in 1 .. MaxTasks /\ kind' = ks /\ status' = Dequeued(s, ks)
      /\ pendingShow' = pendingShow \cup {n} /\ rows' = rows
      /\ lastStatus' = StatusContent(n, Dequeued(s, ks))
  BY DEF submit, Id
<1>5. Submitted = 1 .. Len(kind) /\ Submitted' = 1 .. n
  BY <1>3, <1>4 DEF Submitted
<1>6. Submitted' = Submitted \cup {n} /\ n \notin Submitted /\ n \in Nat
  BY <1>1, <1>5
<1>7. ASSUME NEW j \in Kind \cup {General} PROVE Fits(s, ks, j)
  <2>1. Filled(status, kind, j)
    BY <1>1, FilledMeans DEF SlotsFilled, Submitted
  <2>2. DOMAIN s = Submitted \cup {n}
    BY <1>2, <1>5, <1>6
  <2>3. RunningOf(s, ks, j) = RunningOf(status, kind, j)
    BY <1>1, <1>2, <1>3, <2>2 DEF RunningOf, Occupying
  <2> QED BY <2>1, <2>3 DEF Filled, Fits
<1> DEFINE d == Dequeued(s, ks)
<1>8. /\ d \in Seq(States) /\ Len(d) = n /\ DOMAIN d = 1 .. n
      /\ \A u \in 1 .. n : d[u] = s[u] \/ (s[u] = "Pending" /\ d[u] = "Running")
  <2> HIDE DEF s, ks
  <2> QED BY <1>2, DequeuedStates
<1>9. \A j \in Kind \cup {General} : Filled(d, ks, j)
  BY <1>2, <1>7, DequeuedFills DEF TaskTypes
<1> HIDE DEF s, ks, d
<1>10. SlotsFilled'
  <2>1. kind' \in Seq(Kind \cup {General}) /\ status' \in Seq(States) /\ Len(status') = Len(kind')
        /\ \A j \in Kind \cup {General} : Filled(status', kind', j)
    BY <1>3, <1>4, <1>8, <1>9 DEF d
  <2> QED BY <2>1, FilledMeans DEF SlotsFilled, Submitted
<1>11. \A u \in Submitted : d[u] = status[u] \/ (status[u] = "Pending" /\ d[u] = "Running")
  BY <1>2, <1>5, <1>6, <1>8
<1>12. d[n] \in {"Pending", "Running"}
  BY <1>2, <1>5, <1>6, <1>8
<1>13. RowsMatchTasks'
  <2>1. pendingShow \subseteq Submitted /\ rows = {u \in Submitted \ pendingShow : status[u] \in Active}
    BY DEF TaskTypes, RowsMatchTasks
  <2>2. \A u \in Submitted : d[u] \in Active <=> status[u] \in Active
    BY <1>11 DEF Active
  <2>3. rows' = {u \in Submitted' \ pendingShow' : d[u] \in Active}
    BY <1>4, <1>6, <2>1, <2>2
  <2>4. d[n] \in Active
    BY <1>12 DEF Active
  <2>5. lastStatus' = "active"
    BY <1>4, <1>5, <1>6, <1>8, <2>4 DEF StatusContent, d
  <2> QED BY <1>4, <1>6, <2>3, <2>4, <2>5 DEF RowsMatchTasks, d
<1> QED BY <1>3, <1>4, <1>6, <1>8, <1>10, <1>11, <1>12, <1>13 DEF TaskTypes, d

(* A worker has ended.                                                     *)
LEMMA CleanupFills ==
  ASSUME TaskTypes, SlotsFilled, RowsMatchTasks,
         NEW t \in Submitted, NEW v \in Terminal, CleanupTask(t, v), kind' = kind
  PROVE  /\ status' \in Seq(States) /\ Len(status') = Len(status) /\ status'[t] = v
         /\ \A u \in Submitted \ {t} :
              status'[u] = status[u] \/ (status[u] = "Pending" /\ status'[u] = "Running")
         /\ pendingShow' \subseteq Submitted /\ rows' \subseteq Submitted
         /\ SlotsFilled' /\ RowsMatchTasks'
<1> DEFINE s == [status EXCEPT ![t] = v]
           d == Dequeued(s, kind)
<1>1. status \in Seq(States) /\ Len(status) = Len(kind) /\ DOMAIN status = Submitted
      /\ Submitted = 1 .. Len(status) /\ kind \in Seq(Kind \cup {General})
  BY DEF TaskTypes, States, Submitted
<1>2. v \in States /\ v # "Pending" /\ v \notin Occupying
  BY DEF States, Hidden, Terminal, Occupying
<1>3. s \in Seq(States) /\ Len(s) = Len(status) /\ s[t] = v /\ \A u \in Submitted \ {t} : s[u] = status[u]
  BY <1>1, <1>2
<1> HIDE DEF s
<1>4. /\ d \in Seq(States) /\ Len(d) = Len(s) /\ DOMAIN d = 1 .. Len(s)
      /\ \A u \in 1 .. Len(s) : d[u] = s[u] \/ (s[u] = "Pending" /\ d[u] = "Running")
  BY <1>3, DequeuedStates
<1>5. \A k \in Kind \cup {General} : Filled(d, kind, k)
  <2> SUFFICES ASSUME NEW k \in Kind \cup {General} PROVE Filled(d, kind, k)
    OBVIOUS
  <2>1. Fits(status, kind, k)
    BY <1>1, FilledMeans DEF SlotsFilled, Submitted, Filled
  <2>2. \A u \in 1 .. Len(status) : s[u] \in Occupying => status[u] \in Occupying
    BY <1>1, <1>2, <1>3
  <2>3. Fits(s, kind, k)
    BY <1>1, <1>3, <2>1, <2>2, FitsLess DEF TaskTypes
  <2> QED BY <1>3, <2>3, DequeuedFills DEF TaskTypes
<1>6. Update(t, d)
  BY DEF CleanupTask, s
<1> HIDE DEF d
<1>7. /\ d[t] = v
      /\ \A u \in Submitted \ {t} : d[u] = status[u] \/ (status[u] = "Pending" /\ d[u] = "Running")
  BY <1>1, <1>2, <1>3, <1>4
<1>8. \A u \in Submitted : d[u] = "Pending" => status[u] = "Pending"
  BY <1>2, <1>7
<1>9. /\ status' = d /\ RowsMatchTasks'
      /\ pendingShow' \subseteq Submitted /\ rows' \subseteq Submitted
  BY <1>1, <1>3, <1>4, <1>6, <1>8, UpdateRows
<1>10. SlotsFilled'
  <2>1. Len(d) = Len(kind)
    BY <1>1, <1>3, <1>4
  <2>2. \A k \in Kind \cup {General} : Filled(status', kind', k)
    BY <1>5, <1>9
  <2>3. status' \in Seq(States) /\ Len(status') = Len(kind')
    BY <1>4, <1>9, <2>1
  <2> QED BY <2>2, <2>3, FilledMeans DEF SlotsFilled, Submitted
<1> QED BY <1>3, <1>4, <1>7, <1>9, <1>10

(* A record changes, and no slot is freed.                                 *)
LEMMA UpdateKeeps ==
  ASSUME TaskTypes, SlotsFilled, RowsMatchTasks, NEW t \in Submitted, NEW v \in States,
         Update(t, [status EXCEPT ![t] = v]), kind' = kind,
         v \in Occupying <=> status[t] \in Occupying, v = "Pending" => status[t] = "Pending"
  PROVE  /\ status' \in Seq(States) /\ Len(status') = Len(status) /\ status'[t] = v
         /\ \A u \in Submitted \ {t} : status'[u] = status[u]
         /\ pendingShow' \subseteq Submitted /\ rows' \subseteq Submitted
         /\ SlotsFilled' /\ RowsMatchTasks'
<1> DEFINE s == [status EXCEPT ![t] = v]
<1>1. status \in Seq(States) /\ Len(status) = Len(kind) /\ DOMAIN status = Submitted
      /\ Submitted = 1 .. Len(status) /\ kind \in Seq(Kind \cup {General})
  BY DEF TaskTypes, States, Submitted
<1>2. s \in Seq(States) /\ Len(s) = Len(status) /\ s[t] = v /\ \A u \in Submitted \ {t} : s[u] = status[u]
  BY <1>1
<1>3. Update(t, s)
  OBVIOUS
<1> HIDE DEF s
<1>4. \A u \in Submitted : s[u] = "Pending" => status[u] = "Pending"
  BY <1>2
<1>5. /\ status' = s /\ RowsMatchTasks'
      /\ pendingShow' \subseteq Submitted /\ rows' \subseteq Submitted
  BY <1>2, <1>3, <1>4, UpdateRows
<1>6. SlotsFilled'
  <2>1. \A u \in Submitted : s[u] \in Occupying <=> status[u] \in Occupying
    BY <1>2
  <2>2. ASSUME NEW k \in Kind \cup {General} PROVE Filled(s, kind, k)
    <3>1. Filled(status, kind, k)
      BY <1>1, FilledMeans DEF SlotsFilled, Submitted
    <3> QED BY <1>1, <1>2, <1>4, <2>1, <3>1, FilledKept
  <2>3. \A k \in Kind \cup {General} : Filled(status', kind', k)
    BY <1>5, <2>2
  <2>4. status' \in Seq(States) /\ Len(status') = Len(kind')
    BY <1>1, <1>2, <1>5
  <2>5. ASSUME NEW k \in Kind \cup {General}
        PROVE  LET running == Cardinality({u \in Submitted' : kind'[u] = k /\ status'[u] \in Occupying})
               IN /\ running <= Slots[k]
                  /\ (\E u \in Submitted' : kind'[u] = k /\ status'[u] = "Pending") => running = Slots[k]
    <3>1. Filled(status', kind', k)
      BY <2>3
    <3> QED BY <2>4, <3>1, FilledMeans DEF Submitted
  <2> QED BY <2>5 DEF SlotsFilled
<1> QED BY <1>2, <1>5, <1>6

-----------------------------------------------------------------------------
(* The queue of signals.                                                   *)

LEMMA MailAppended ==
  ASSUME NEW S, NEW m \in Seq(S), NEW x \in S
  PROVE  Append(m, x) \in Seq(S) /\ Mail(Append(m, x)) = Mail(m) \cup {x}
<1> DEFINE a == Append(m, x)
<1>1. /\ a \in Seq(S) /\ Len(a) = Len(m) + 1 /\ Len(m) \in Nat /\ a[Len(m) + 1] = x
      /\ \A i \in 1 .. Len(m) : a[i] = m[i]
  OBVIOUS
<1> HIDE DEF a
<1>2. 1 .. Len(a) = 1 .. Len(m) \cup {Len(m) + 1}
  BY <1>1
<1>3. Mail(a) = Mail(m) \cup {x}
  BY <1>1, <1>2 DEF Mail
<1> QED BY <1>1, <1>3 DEF a

LEMMA MailTaken ==
  ASSUME NEW S, NEW m \in Seq(S), m # <<>>
  PROVE  Head(m) \in S /\ Tail(m) \in Seq(S) /\ Mail(m) = {Head(m)} \cup Mail(Tail(m))
<1> DEFINE r == Tail(m)
<1>1. /\ Head(m) \in S /\ r \in Seq(S) /\ Len(r) = Len(m) - 1 /\ Len(m) \in Nat \ {0} /\ Head(m) = m[1]
      /\ \A i \in 1 .. Len(m) - 1 : r[i] = m[i + 1]
  OBVIOUS
<1> HIDE DEF r
<1>2. \A i \in 1 .. Len(m) : i = 1 \/ (i - 1 \in 1 .. Len(r) /\ m[i] = r[i - 1])
  <2> SUFFICES ASSUME NEW i \in 1 .. Len(m), i # 1 PROVE i - 1 \in 1 .. Len(r) /\ m[i] = r[i - 1]
    OBVIOUS
  <2>1. i - 1 \in 1 .. Len(m) - 1 /\ (i - 1) + 1 = i
    BY <1>1
  <2> QED BY <1>1, <2>1
<1>3. \A i \in 1 .. Len(r) : i + 1 \in 1 .. Len(m) /\ m[i + 1] = r[i]
  BY <1>1
<1>4. 1 \in 1 .. Len(m)
  BY <1>1
<1>5. \A x \in Mail(m) : x \in {Head(m)} \cup Mail(r)
  BY <1>1, <1>2 DEF Mail
<1>6. \A x \in Mail(r) : x \in Mail(m)
  BY <1>3 DEF Mail
<1>7. Head(m) \in Mail(m)
  BY <1>1, <1>4 DEF Mail
<1> QED BY <1>1, <1>5, <1>6, <1>7 DEF r

LEMMA MailWider ==
  ASSUME NEW S, NEW T, S \subseteq T, NEW m \in Seq(S)
  PROVE  m \in Seq(T)
OBVIOUS

LEMMA MailTyped == ASSUME NEW S, NEW m \in Seq(S) PROVE Mail(m) \subseteq S
BY DEF Mail

-----------------------------------------------------------------------------
LEMMA InitTasks == Sized /\ Init => TaskInv
<1> SUFFICES ASSUME Sized, Init PROVE TaskInv
  OBVIOUS
<1>1. /\ kind = <<>> /\ status = <<>> /\ mailbox = <<>> /\ over = {} /\ pendingShow = {} /\ rows = {}
      /\ lastStatus = None /\ trackerTask = None /\ trackers = {}
  BY DEF Init
<1>2. Submitted = {}
  BY <1>1 DEF Submitted
<1>3. TaskTypes
  BY <1>1 DEF TaskTypes, Sized
<1>4. Mail(mailbox) = {}
  BY <1>1 DEF Mail
<1>5. Told
  BY <1>1, <1>2, <1>4 DEF Told
<1>6. SlotsFilled
  <2>1. \A k : {t \in Submitted : kind[t] = k /\ status[t] \in Occupying} = {}
    BY <1>2
  <2>2. Cardinality({}) = 0
    BY FS_EmptySet
  <2>3. \A k \in Kind \cup {General} : 0 <= Slots[k]
    BY DEF Sized
  <2> QED BY <1>2, <2>1, <2>2, <2>3 DEF SlotsFilled
<1>7. RowsMatchTasks
  <2>1. None # "active"
    BY DEF Sized
  <2> QED BY <1>1, <1>2, <2>1 DEF RowsMatchTasks
<1>8. TrackerHeld
  BY <1>1 DEF TrackerHeld
<1> QED BY <1>3, <1>5, <1>6, <1>7, <1>8 DEF TaskInv

(* What the records are and who is who.                                    *)
LEMMA Who ==
  ASSUME TaskInv
  PROVE  /\ kind \in Seq(Kind \cup {General}) /\ status \in Seq(States) /\ Len(status) = Len(kind)
         /\ \A u \in Submitted : kind[u] \in Kind \cup {General} /\ status[u] \in States
         /\ Submitted \subseteq Nat /\ None \notin Submitted /\ General \notin Kind
         /\ trackers \subseteq Submitted /\ over \subseteq Submitted
         /\ mailbox \in Seq(Submitted \X Signal) /\ Mail(mailbox) \subseteq Submitted \X Signal
         /\ trackerTask # None => trackerTask \in trackers /\ trackerTask \in Submitted
<1>1. kind \in Seq(Kind \cup {General}) /\ status \in Seq(States) /\ Len(status) = Len(kind)
  BY DEF TaskInv, TaskTypes, States
<1>2. DOMAIN kind = Submitted /\ DOMAIN status = Submitted /\ Submitted \subseteq Nat
  BY <1>1 DEF Submitted
<1>3. \A u \in Submitted : kind[u] \in Kind \cup {General} /\ status[u] \in States
  BY <1>1, <1>2
<1>4. mailbox \in Seq(Submitted \X Signal) /\ trackers \subseteq Submitted /\ over \subseteq Submitted
  BY DEF TaskInv, TaskTypes
<1>5. Mail(mailbox) \subseteq Submitted \X Signal
  BY <1>4, MailTyped
<1>6. trackerTask # None => trackerTask \in trackers /\ trackerTask \in Submitted
  BY <1>4 DEF TaskInv, Told
<1> QED BY <1>1, <1>2, <1>3, <1>4, <1>5, <1>6 DEF TaskInv, TaskTypes, Sized

LEMMA SubmitKeeps ==
  ASSUME TaskInv, NEW k \in Kind, Submit(k)
  PROVE  TaskInv'
<1> DEFINE n == Len(kind) + 1
<1>1. /\ submit(k) /\ over' = over /\ mailbox' = mailbox /\ trackerTask' = trackerTask /\ trackers' = trackers
  BY DEF Submit, submit, mainVars
<1>2. /\ kind' \in Seq(Kind \cup {General}) /\ status' \in Seq(States)
      /\ Len(kind') = n /\ Len(status') = n /\ n <= MaxTasks
      /\ Submitted' = Submitted \cup {n} /\ n \notin Submitted
      /\ kind'[n] = k /\ \A u \in Submitted : kind'[u] = kind[u]
      /\ status'[n] \in {"Pending", "Running"}
      /\ \A u \in Submitted :
           status'[u] = status[u] \/ (status[u] = "Pending" /\ status'[u] = "Running")
      /\ pendingShow' \subseteq Submitted' /\ rows' = rows
      /\ SlotsFilled' /\ RowsMatchTasks'
  BY <1>1, SubmitAdds DEF TaskInv
<1> HIDE DEF n
<1>3. mailbox' \in Seq((Submitted \X Signal)')
  <2>1. Submitted \X Signal \subseteq (Submitted \X Signal)'
    BY <1>2
  <2> QED BY <1>1, <2>1, Who, MailWider
<1>4. TaskTypes'
  BY <1>1, <1>2, <1>3 DEF TaskInv, TaskTypes, States
<1>5. Told'
  <2>1. \A t \in trackers' \cap over' : status'[t] \in Terminal \/ <<t, "finished">> \in Mail(mailbox)'
    <3>1. \A t \in trackers \cap over : status[t] \in Terminal => status'[t] = status[t]
      BY <1>2, Who DEF Terminal
    <3> QED BY <1>1, <3>1 DEF TaskInv, Told
  <2>2. \A t \in Submitted' : kind'[t] = General => t \in trackers'
    BY <1>1, <1>2, Who DEF TaskInv, Told
  <2> QED BY <1>1, <2>1, <2>2 DEF TaskInv, Told
<1>6. TrackerHeld'
  <2>1. trackerTask # None => status'[trackerTask] = status[trackerTask]
    BY <1>2, Who DEF TaskInv, TrackerHeld, Occupying
  <2> QED BY <1>1, <2>1 DEF TaskInv, TrackerHeld
<1> QED BY <1>2, <1>4, <1>5, <1>6 DEF TaskInv

(* Records change in place: nobody who has ended comes back, and the       *)
(* tracker still runs.                                                     *)
LEMMA RecordsKeep ==
  ASSUME TaskInv, kind' = kind, over' = over, trackers' = trackers, trackerTask' = trackerTask,
         status' \in Seq(States), Len(status') = Len(status),
         pendingShow' \subseteq Submitted, rows' \subseteq Submitted,
         SlotsFilled', RowsMatchTasks',
         mailbox' \in Seq(Submitted \X Signal),
         \A m \in Mail(mailbox') : m[2] \in Ending => m[1] \in over,
         \A t \in trackers \cap over : status[t] \in Terminal => status'[t] \in Terminal,
         \A t \in trackers \cap over : <<t, "finished">> \in Mail(mailbox) =>
            status'[t] \in Terminal \/ <<t, "finished">> \in Mail(mailbox'),
         trackerTask # None => status'[trackerTask] \in Occupying
  PROVE  TaskInv'
<1>1. Submitted' = Submitted
  BY DEF Submitted
<1>2. TaskTypes'
  BY <1>1 DEF TaskInv, TaskTypes, States
<1>3. Told'
  BY <1>1 DEF TaskInv, Told
<1>4. TrackerHeld'
  BY DEF TaskInv, TrackerHeld
<1> QED BY <1>2, <1>3, <1>4 DEF TaskInv

LEMMA CancelKeeps ==
  ASSUME TaskInv, NEW t \in Submitted, ClickCancel(t)
  PROVE  TaskInv'
<1>0. /\ kind' = kind /\ over' = over /\ trackers' = trackers /\ trackerTask' = trackerTask
      /\ mailbox' = mailbox
  BY DEF ClickCancel, cancel, mainVars
<1>1. CASE status[t] = "Pending" /\ Update(t, [status EXCEPT ![t] = "Cancelled"])
  <2>1. "Cancelled" \in States /\ "Cancelled" \notin Occupying /\ "Pending" \notin Occupying
        /\ "Cancelled" \in Terminal /\ "Pending" \notin Terminal
    BY DEF States, Hidden, Terminal, Occupying
  <2>2. /\ status' \in Seq(States) /\ Len(status') = Len(status) /\ status'[t] = "Cancelled"
        /\ \A u \in Submitted \ {t} : status'[u] = status[u]
        /\ pendingShow' \subseteq Submitted /\ rows' \subseteq Submitted
        /\ SlotsFilled' /\ RowsMatchTasks'
    BY <1>0, <1>1, <2>1, UpdateKeeps DEF TaskInv
  <2>3. \A u \in trackers \cap over : status[u] \in Terminal => status'[u] \in Terminal
    BY <1>1, <2>1, <2>2, Who
  <2>4. trackerTask # None => status'[trackerTask] \in Occupying
    BY <1>1, <2>1, <2>2, Who DEF TaskInv, TrackerHeld
  <2>5. \A m \in Mail(mailbox') : m[2] \in Ending => m[1] \in over
    BY <1>0 DEF TaskInv, Told
  <2> QED BY <1>0, <2>2, <2>3, <2>4, <2>5, Who, RecordsKeep
<1>2. CASE UNCHANGED <<status, pendingShow, rows, lastStatus>>
  BY <1>0, <1>2 DEF TaskInv, TaskTypes, Told, SlotsFilled, RowsMatchTasks, TrackerHeld, Submitted
<1> QED BY <1>1, <1>2 DEF ClickCancel, cancel

(* Nothing but the mail changes, and who has sent its last.                *)
LEMMA MailKeeps ==
  ASSUME TaskInv, UNCHANGED <<kind, status, panelVars, trackers>>,
         mailbox' \in Seq(Submitted \X Signal), over' \subseteq Submitted, over \subseteq over',
         Mail(mailbox) \subseteq Mail(mailbox'),
         \A m \in Mail(mailbox') : m[2] \in Ending => m[1] \in over',
         \A t \in trackers \cap over' : t \in over \/ <<t, "finished">> \in Mail(mailbox'),
         trackers \ {trackerTask'} \subseteq over',
         trackerTask' = None \/ (trackerTask' = trackerTask /\ trackerTask \notin over')
  PROVE  TaskInv'
<1>1. Submitted' = Submitted
  BY DEF Submitted
<1>2. TaskTypes'
  BY <1>1 DEF TaskInv, TaskTypes, panelVars
<1>3. Told'
  BY <1>1 DEF TaskInv, Told
<1>4. TrackerHeld'
  BY DEF TaskInv, TrackerHeld
<1>5. SlotsFilled' /\ RowsMatchTasks'
  BY <1>1 DEF TaskInv, SlotsFilled, RowsMatchTasks, panelVars
<1> QED BY <1>2, <1>3, <1>4, <1>5 DEF TaskInv

LEMMA PostKeeps ==
  ASSUME TaskInv, NEW t \in Submitted, NEW sig \in Signal,
         UNCHANGED <<kind, status, panelVars, trackers, trackerTask>>,
         mailbox' = Append(mailbox, <<t, sig>>),
         \/ sig \notin Ending /\ over' = over
         \/ over' = over \cup {t} /\ t \notin trackers
  PROVE  TaskInv'
<1>1. mailbox' \in Seq(Submitted \X Signal) /\ Mail(mailbox') = Mail(mailbox) \cup {<<t, sig>>}
  <2>1. <<t, sig>> \in Submitted \X Signal /\ mailbox \in Seq(Submitted \X Signal)
    BY Who
  <2> HIDE DEF Signal
  <2> QED BY <2>1, MailAppended
<1>2. \A m \in Mail(mailbox') : m[2] \in Ending => m[1] \in over'
  <2>1. \A m \in Mail(mailbox) : m[2] \in Ending => m[1] \in over
    BY DEF TaskInv, Told
  <2>2. <<t, sig>>[1] = t /\ <<t, sig>>[2] = sig
    OBVIOUS
  <2> QED BY <1>1, <2>1, <2>2
<1>3. \A u \in trackers \cap over' : u \in over
  OBVIOUS
<1>4. trackers \ {trackerTask'} \subseteq over' /\ over' \subseteq Submitted
  BY Who DEF TaskInv, TrackerHeld
<1>5. trackerTask' = None \/ (trackerTask' = trackerTask /\ trackerTask \notin over')
  BY Who DEF TaskInv, TrackerHeld
<1> QED BY <1>1, <1>2, <1>3, <1>4, <1>5, MailKeeps

LEMMA WorkerKeeps ==
  ASSUME TaskInv, NEW t \in Submitted,
         \/ \E p \in {"low", "full"} : Progress(t, p)
         \/ \E outcome \in {"finished", "failed"} : Ends(t, outcome)
  PROVE  TaskInv'
<1>1. CASE \E p \in {"low", "full"} : Progress(t, p)
  <2>1. PICK p \in {"low", "full"} : Progress(t, p)
    BY <1>1
  <2>2. p \in Signal /\ p \notin Ending
    BY DEF Signal, Ending
  <2> QED BY <2>1, <2>2, PostKeeps DEF Progress, taskVars, mainVars
<1>2. CASE \E outcome \in {"finished", "failed"} : Ends(t, outcome)
  <2>1. PICK o \in {"finished", "failed"} : Ends(t, o)
    BY <1>2
  <2>2. o \in Signal /\ t \notin trackers
    BY <2>1 DEF Signal, Ends, CanPost
  <2> QED BY <2>1, <2>2, PostKeeps DEF Ends, taskVars, mainVars
<1> QED BY <1>1, <1>2

(* The UI thread takes up a signal.                                        *)
LEMMA DeliverKeeps == TaskInv /\ Deliver => TaskInv'
<1> SUFFICES ASSUME TaskInv, Deliver PROVE TaskInv'
  OBVIOUS
<1> DEFINE t == Head(mailbox)[1]
           sig == Head(mailbox)[2]
<1>1. mailbox \in Seq(Submitted \X Signal) /\ mailbox # <<>> /\ mailbox' = Tail(mailbox)
  BY Who DEF Deliver
<1>2. /\ Head(mailbox) \in Submitted \X Signal /\ mailbox' \in Seq(Submitted \X Signal)
      /\ Mail(mailbox) = {Head(mailbox)} \cup Mail(mailbox')
  BY <1>1, MailTaken
<1>3. t \in Submitted /\ sig \in Signal /\ Head(mailbox) = <<t, sig>>
  BY <1>2
<1>4. /\ kind' = kind /\ over' = over /\ trackers' = trackers /\ trackerTask' = trackerTask
  BY DEF Deliver, mainVars
<1>5. \A m \in Mail(mailbox') : m[2] \in Ending => m[1] \in over
  BY <1>2 DEF TaskInv, Told
<1>6. sig \in Ending => t \in over
  BY <1>2 DEF TaskInv, Told
<1>7. \/ sig \in {"low", "full"} /\ onWorkerProgress(t, sig)
      \/ sig = "finished" /\ onWorkerFinished(t)
      \/ sig = "failed" /\ onWorkerFailed(t)
  BY DEF Deliver
<1> HIDE DEF t, sig
<1>8. CASE sig \in {"low", "full"} /\ onWorkerProgress(t, sig)
  <2> DEFINE v == CASE sig = "full" /\ status[t] = "Running"    -> "Monitoring"
                    [] sig = "low"  /\ status[t] = "Monitoring" -> "Running"
                    [] OTHER -> status[t]
  <2>0. status[t] \in States
    BY <1>3, Who
  <2>1. /\ v \in States /\ (v \in Occupying <=> status[t] \in Occupying)
        /\ (v = "Pending" => status[t] = "Pending") /\ (status[t] \in Terminal => v = status[t])
    BY <2>0, StatesAre DEF Occupying, Terminal
  <2>2. Update(t, [status EXCEPT ![t] = v])
    <3>1. [status EXCEPT ![t] = v] =
            [status EXCEPT ![t] =
               CASE sig = "full" /\ @ = "Running"    -> "Monitoring"
                 [] sig = "low"  /\ @ = "Monitoring" -> "Running"
                 [] OTHER -> @]
      OBVIOUS
    <3> QED BY <1>8, <3>1 DEF onWorkerProgress
  <2> HIDE DEF v
  <2>3. /\ status' \in Seq(States) /\ Len(status') = Len(status) /\ status'[t] = v
        /\ \A u \in Submitted \ {t} : status'[u] = status[u]
        /\ pendingShow' \subseteq Submitted /\ rows' \subseteq Submitted
        /\ SlotsFilled' /\ RowsMatchTasks'
    BY <1>3, <1>4, <2>1, <2>2, UpdateKeeps DEF TaskInv
  <2>4. \A u \in trackers \cap over : status[u] \in Terminal => status'[u] \in Terminal
    BY <2>1, <2>3, Who
  <2>5. \A u \in trackers \cap over : <<u, "finished">> \in Mail(mailbox) => <<u, "finished">> \in Mail(mailbox')
    BY <1>2, <1>3, <1>8
  <2>6. trackerTask # None => status'[trackerTask] \in Occupying
    BY <2>1, <2>3, Who DEF TaskInv, TrackerHeld
  <2> QED BY <1>2, <1>4, <1>5, <2>3, <2>4, <2>5, <2>6, RecordsKeep
<1>9. CASE (sig = "finished" /\ onWorkerFinished(t)) \/ (sig = "failed" /\ onWorkerFailed(t))
  <2>1. PICK v \in Terminal : CleanupTask(t, v)
    BY <1>9 DEF onWorkerFinished, onWorkerFailed, Terminal
  <2>2. /\ status' \in Seq(States) /\ Len(status') = Len(status) /\ status'[t] = v
        /\ \A u \in Submitted \ {t} :
             status'[u] = status[u] \/ (status[u] = "Pending" /\ status'[u] = "Running")
        /\ pendingShow' \subseteq Submitted /\ rows' \subseteq Submitted
        /\ SlotsFilled' /\ RowsMatchTasks'
    BY <1>3, <1>4, <2>1, CleanupFills DEF TaskInv
  <2>3. t \in over
    BY <1>6, <1>9 DEF Ending
  <2>4. \A u \in trackers \cap over : status[u] \in Terminal => status'[u] \in Terminal
    BY <2>2, Who DEF Terminal
  <2>5. \A u \in trackers \cap over : <<u, "finished">> \in Mail(mailbox) =>
          status'[u] \in Terminal \/ <<u, "finished">> \in Mail(mailbox')
    BY <1>2, <1>3, <2>2
  <2>6. trackerTask # None => status'[trackerTask] \in Occupying
    BY <2>2, <2>3, Who DEF TaskInv, TrackerHeld, Occupying
  <2> QED BY <1>2, <1>4, <1>5, <2>2, <2>4, <2>5, <2>6, RecordsKeep
<1> QED BY <1>7, <1>8, <1>9

LEMMA DelayKeeps ==
  ASSUME TaskInv, NEW t \in Submitted, ShowDelayOver(t)
  PROVE  TaskInv'
<1>1. /\ t \in pendingShow /\ pendingShow' = pendingShow \ {t}
      /\ rows' = IF status[t] \in Hidden THEN rows ELSE rows \cup {t}
      /\ UNCHANGED <<kind, status, mailbox, over, lastStatus, trackerTask, trackers>>
  BY DEF ShowDelayOver, taskVars, mainVars
<1>2. Submitted' = Submitted
  BY <1>1 DEF Submitted
<1>3. RowsMatchTasks'
  <2>1. status[t] \in Hidden <=> status[t] \notin Active
    <3>1. status[t] \in States
      BY Who
    <3> QED BY <3>1, StatesAre DEF Active, Hidden, Terminal
  <2>2. rows = {u \in Submitted \ pendingShow : status[u] \in Active}
    BY DEF TaskInv, RowsMatchTasks
  <2>3. rows' = {u \in Submitted \ pendingShow' : status[u] \in Active}
    BY <1>1, <2>1, <2>2
  <2> QED BY <1>1, <1>2, <2>3 DEF TaskInv, RowsMatchTasks
<1>4. TaskTypes'
  BY <1>1, <1>2 DEF TaskInv, TaskTypes
<1>5. Told' /\ TrackerHeld' /\ SlotsFilled'
  BY <1>1, <1>2 DEF TaskInv, Told, TrackerHeld, SlotsFilled
<1> QED BY <1>3, <1>4, <1>5 DEF TaskInv

LEMMA StatusKeeps ==
  ASSUME TaskInv, NEW p \in {"low", "full"}, StatusIngesting(p) \/ StatusOther
  PROVE  TaskInv'
<1>1. CASE StatusIngesting(p)
  <2>1. UNCHANGED <<kind, status, over, panelVars, trackers, trackerTask>>
    BY <1>1 DEF StatusIngesting, taskVars
  <2>2. CASE mailbox' = mailbox
    <3>1. over \subseteq Submitted /\ mailbox \in Seq(Submitted \X Signal)
      BY Who
    <3>2. \A m \in Mail(mailbox') : m[2] \in Ending => m[1] \in over'
      BY <2>1, <2>2 DEF TaskInv, Told
    <3>3. trackers \ {trackerTask'} \subseteq over'
      BY <2>1 DEF TaskInv, TrackerHeld
    <3>4. trackerTask' = None \/ (trackerTask' = trackerTask /\ trackerTask \notin over')
      BY <2>1 DEF TaskInv, TrackerHeld
    <3> QED BY <2>1, <2>2, <3>1, <3>2, <3>3, <3>4, MailKeeps
  <2>3. CASE mailbox' # mailbox
    <3>1. trackerTask # None /\ mailbox' = Append(mailbox, <<trackerTask, p>>)
      BY <1>1, <2>3 DEF StatusIngesting, Report
    <3>2. p \in Signal /\ p \notin Ending /\ trackerTask \in Submitted
      BY <3>1, Who DEF Signal, Ending
    <3> QED BY <2>1, <3>1, <3>2, PostKeeps
  <2> QED BY <2>2, <2>3
<1>2. CASE StatusOther
  <2>1. UNCHANGED <<kind, status, panelVars, trackers>> /\ trackerTask' = None
    BY <1>2 DEF StatusOther, taskVars
  <2>2. CASE trackerTask = None
    <3>1. mailbox' = mailbox /\ over' = over
      BY <1>2, <2>2 DEF StatusOther
    <3>2. over \subseteq Submitted /\ mailbox \in Seq(Submitted \X Signal) /\ trackers \subseteq over
      BY <2>2, Who DEF TaskInv, TrackerHeld
    <3>3. \A m \in Mail(mailbox') : m[2] \in Ending => m[1] \in over'
      BY <3>1 DEF TaskInv, Told
    <3> QED BY <2>1, <3>1, <3>2, <3>3, MailKeeps
  <2>3. CASE trackerTask # None
    <3>1. mailbox' = Append(mailbox, <<trackerTask, "finished">>) /\ over' = over \cup {trackerTask}
      BY <1>2, <2>3 DEF StatusOther, Report
    <3>2. /\ <<trackerTask, "finished">> \in Submitted \X Signal /\ mailbox \in Seq(Submitted \X Signal)
          /\ over' \subseteq Submitted
      BY <2>3, <3>1, Who DEF Signal
    <3>3. mailbox' \in Seq(Submitted \X Signal) /\ Mail(mailbox') = Mail(mailbox) \cup {<<trackerTask, "finished">>}
      <4>1. PICK S : S = Submitted \X Signal
        OBVIOUS
      <4>2. <<trackerTask, "finished">> \in S /\ mailbox \in Seq(S)
        BY <3>2, <4>1
      <4>3. /\ Append(mailbox, <<trackerTask, "finished">>) \in Seq(S)
            /\ Mail(Append(mailbox, <<trackerTask, "finished">>))
                 = Mail(mailbox) \cup {<<trackerTask, "finished">>}
        BY <4>2, MailAppended
      <4>4. mailbox' \in Seq(S)
        BY <3>1, <4>3
      <4>5. Mail(mailbox') = Mail(mailbox) \cup {<<trackerTask, "finished">>}
        BY <3>1, <4>3
      <4> QED BY <4>1, <4>4, <4>5
    <3>4. \A m \in Mail(mailbox') : m[2] \in Ending => m[1] \in over'
      <4>1. \A m \in Mail(mailbox) : m[2] \in Ending => m[1] \in over
        BY DEF TaskInv, Told
      <4>2. <<trackerTask, "finished">>[1] = trackerTask
        OBVIOUS
      <4> QED BY <3>1, <3>3, <4>1, <4>2
    <3>5. \A t \in trackers \cap over' : t \in over \/ <<t, "finished">> \in Mail(mailbox')
      BY <3>1, <3>3
    <3>6. trackers \ {trackerTask'} \subseteq over'
      BY <2>3, <3>1 DEF TaskInv, TrackerHeld
    <3> QED BY <2>1, <3>1, <3>2, <3>3, <3>4, <3>5, <3>6, MailKeeps
  <2> QED BY <2>2, <2>3
<1> QED BY <1>1, <1>2

(* A new progress tracker is submitted when every other one has ended: it  *)
(* gets a slot at once.                                                    *)
LEMMA GraceKeeps ==
  ASSUME TaskInv, NEW p \in {"low", "full"}, GraceOver(p)
  PROVE  TaskInv'
<1>1. CASE StillIngesting
  <2> DEFINE n == Len(kind) + 1
  <2>1. /\ trackerTask = None /\ ~ TrackerPosted /\ submit(General)
        /\ over' = over /\ mailbox' = Append(mailbox, <<Len(kind'), p>>)
        /\ trackerTask' = Len(kind') /\ trackers' = trackers \cup {Len(kind')}
    BY <1>1 DEF GraceOver, StillIngesting, submit
  <2>2. /\ kind' \in Seq(Kind \cup {General}) /\ status' \in Seq(States)
        /\ Len(kind') = n /\ Len(status') = n /\ n <= MaxTasks
        /\ Submitted' = Submitted \cup {n} /\ n \notin Submitted
        /\ kind'[n] = General /\ \A u \in Submitted : kind'[u] = kind[u]
        /\ status'[n] \in {"Pending", "Running"}
        /\ \A u \in Submitted :
             status'[u] = status[u] \/ (status[u] = "Pending" /\ status'[u] = "Running")
        /\ pendingShow' \subseteq Submitted' /\ rows' = rows
        /\ SlotsFilled' /\ RowsMatchTasks'
    BY <2>1, SubmitAdds DEF TaskInv
  <2> HIDE DEF n
  <2>3. /\ mailbox' \in Seq((Submitted \X Signal)')
        /\ Mail(mailbox') = Mail(mailbox) \cup {<<n, p>>}
    <3>1. Submitted \X Signal \subseteq (Submitted \X Signal)'
      BY <2>2
    <3>2. mailbox \in Seq((Submitted \X Signal)')
      BY <3>1, Who, MailWider
    <3>3. <<n, p>> \in (Submitted \X Signal)'
      BY <2>2 DEF Signal
    <3>4. PICK S : S = (Submitted \X Signal)'
      OBVIOUS
    <3>5. <<n, p>> \in S /\ mailbox \in Seq(S)
      BY <3>2, <3>3, <3>4
    <3>6. Append(mailbox, <<n, p>>) \in Seq(S) /\ Mail(Append(mailbox, <<n, p>>)) = Mail(mailbox) \cup {<<n, p>>}
      BY <3>5, MailAppended
    <3>7. mailbox' = Append(mailbox, <<n, p>>)
      BY <2>1, <2>2
    <3>8. mailbox' \in Seq(S)
      BY <3>6, <3>7
    <3>9. Mail(mailbox') = Mail(mailbox) \cup {<<n, p>>}
      BY <3>6, <3>7
    <3> QED BY <3>4, <3>8, <3>9
  <2>4. TaskTypes'
    <3>1. over' \subseteq Submitted' /\ trackers' \subseteq Submitted'
      BY <2>1, <2>2, Who
    <3>2. rows' \subseteq Submitted'
      BY <2>2 DEF TaskInv, TaskTypes
    <3>3. kind' \in Seq(Kind \cup {General}) /\ Len(kind') <= MaxTasks /\ Len(status') = Len(kind')
      BY <2>2
    <3>4. status' \in Seq(Active \cup Hidden)
      BY <2>2 DEF States
    <3>5. (mailbox \in Seq(Submitted \X Signal))'
      BY <2>3
    <3>6. Sized
      BY DEF TaskInv, TaskTypes
    <3> QED BY <2>2, <3>1, <3>2, <3>3, <3>4, <3>5, <3>6 DEF TaskTypes
  <2>5. \A t \in Submitted : kind[t] = General => status[t] \in Terminal
    <3> SUFFICES ASSUME NEW t \in Submitted, kind[t] = General PROVE status[t] \in Terminal
      OBVIOUS
    <3>1. t \in trackers /\ t \in over
      BY <2>1, Who DEF TaskInv, Told, TrackerHeld
    <3>2. <<t, "finished">> \notin Mail(mailbox)
      <4>1. \A i \in DOMAIN mailbox : mailbox[i][1] \notin trackers
        BY <2>1 DEF TrackerPosted
      <4>2. DOMAIN mailbox = 1 .. Len(mailbox)
        BY Who
      <4>3. <<t, "finished">>[1] = t
        OBVIOUS
      <4> QED BY <3>1, <4>1, <4>2, <4>3 DEF Mail
    <3> QED BY <3>1, <3>2 DEF TaskInv, Told
  <2>6. status'[n] = "Running"
    <3> SUFFICES ASSUME status'[n] = "Pending" PROVE FALSE
      BY <2>2
    <3>1. \A t \in Submitted' : kind'[t] = General => status'[t] \notin Occupying
      BY <2>2, <2>5 DEF Terminal, Occupying
    <3>2. {t \in Submitted' : kind'[t] = General /\ status'[t] \in Occupying} = {}
      BY <3>1
    <3>3. Cardinality({}) = 0
      BY FS_EmptySet
    <3>4. \E t \in Submitted' : kind'[t] = General /\ status'[t] = "Pending"
      BY <2>2
    <3>5. 0 = Slots[General]
      BY <2>2, <3>2, <3>3, <3>4 DEF SlotsFilled
    <3> QED BY <3>5 DEF TaskInv, TaskTypes, Sized
  <2>7. Told'
    <3>1. \A m \in Mail(mailbox') : m[2] \in Ending => m[1] \in over'
      <4>1. <<n, p>>[2] = p /\ p \notin Ending
        BY DEF Ending
      <4> QED BY <2>1, <2>3, <4>1 DEF TaskInv, Told
    <3>2. \A t \in trackers' \cap over' : status'[t] \in Terminal \/ <<t, "finished">> \in Mail(mailbox)'
      <4>1. n \notin over
        BY <2>2, Who
      <4>2. \A t \in trackers \cap over : status[t] \in Terminal => status'[t] = status[t]
        BY <2>2, Who DEF Terminal
      <4> QED BY <2>1, <2>2, <2>3, <4>1, <4>2 DEF TaskInv, Told
    <3>3. \A t \in Submitted' : kind'[t] = General => t \in trackers'
      BY <2>1, <2>2, Who DEF TaskInv, Told
    <3> QED BY <2>1, <3>1, <3>2, <3>3 DEF Told
  <2>8. TrackerHeld'
    <3>1. n \notin over /\ trackers \subseteq over
      BY <2>1, <2>2, Who DEF TaskInv, TrackerHeld
    <3> QED BY <2>1, <2>2, <2>6, <3>1 DEF TrackerHeld, Occupying
  <2> QED BY <2>2, <2>4, <2>7, <2>8 DEF TaskInv
<1>2. CASE ~ StillIngesting
  BY <1>2 DEF GraceOver, taskVars, panelVars, TaskInv, TaskTypes, Told, SlotsFilled, RowsMatchTasks,
              TrackerHeld, Submitted
<1> QED BY <1>1, <1>2

LEMMA NextTasks == TaskInv /\ [Next]_vars => TaskInv'
<1> SUFFICES ASSUME TaskInv, [Next]_vars PROVE TaskInv'
  OBVIOUS
<1>1. CASE UNCHANGED vars
  BY <1>1 DEF vars, taskVars, panelVars, mainVars, TaskInv, TaskTypes, Told, SlotsFilled,
              RowsMatchTasks,
              TrackerHeld, Submitted
<1> QED BY <1>1, SubmitKeeps, CancelKeeps, WorkerKeeps, DelayKeeps, DeliverKeeps, StatusKeeps, GraceKeeps
        DEF Next
-----------------------------------------------------------------------------
(* What TypeOK says besides.  A task that has begun never waits again, and *)
(* only such a one is told to stop or sends its last signal.               *)

Begun == {t \in Submitted : status[t] # "Pending"}
Contents == {None, "active", "done", "failed", "cancelled"}

Rest ==
  /\ cancelling \subseteq Begun /\ over \subseteq Begun
  /\ lastStatus \in Contents
  /\ ingesting \in BOOLEAN /\ graceScheduled \in BOOLEAN /\ graceTimers \in 0 .. MaxTimers

LEMMA ContentKept ==
  ASSUME lastStatus \in Contents, NEW t, NEW s
  PROVE  StatusContent(t, s) \in Contents
BY DEF StatusContent, Contents

LEMMA SubmitBegins ==
  ASSUME TaskInv, Rest, NEW k \in Kind \cup {General}, submit(k)
  PROVE  Begun \subseteq Begun' /\ lastStatus' \in Contents /\ UNCHANGED <<cancelling, over>>
<1>1. \A u \in Submitted : u \in Submitted' /\
        (status'[u] = status[u] \/ (status[u] = "Pending" /\ status'[u] = "Running"))
  BY SubmitAdds DEF TaskInv
<1>2. lastStatus' \in Contents /\ UNCHANGED <<cancelling, over>>
  BY ContentKept DEF submit, Rest
<1> QED BY <1>1, <1>2 DEF Begun

LEMMA CancelBegins ==
  ASSUME TaskInv, Rest, NEW t \in Submitted, ClickCancel(t)
  PROVE  Rest'
<1>1. kind' = kind /\ over' = over /\ UNCHANGED mainVars /\ Submitted' = Submitted
  BY DEF ClickCancel, cancel, Submitted
<1>2. CASE status[t] = "Pending" /\ Update(t, [status EXCEPT ![t] = "Cancelled"]) /\ cancelling' = cancelling
  <2>1. lastStatus' \in Contents /\ status' = [status EXCEPT ![t] = "Cancelled"]
    BY <1>2, ContentKept DEF Update, Rest
  <2>2. DOMAIN status = Submitted
    BY Who DEF Submitted
  <2>3. Begun \subseteq Begun'
    BY <1>1, <2>1, <2>2 DEF Begun
  <2> QED BY <1>1, <1>2, <2>1, <2>3 DEF Rest, mainVars
<1>3. CASE status[t] \in Occupying /\ cancelling' = cancelling \cup {t} /\ UNCHANGED <<status, lastStatus>>
  <2>1. t \in Begun /\ Begun' = Begun
    BY <1>1, <1>3 DEF Begun, Occupying
  <2> QED BY <1>1, <1>3, <2>1 DEF Rest, mainVars
<1> QED BY <1>2, <1>3 DEF ClickCancel, cancel

LEMMA WorkerBegins ==
  ASSUME TaskInv, Rest, NEW t \in Submitted,
         \/ \E p \in {"low", "full"} : Progress(t, p)
         \/ \E outcome \in {"finished", "failed"} : Ends(t, outcome)
  PROVE  Rest'
<1>1. /\ UNCHANGED <<kind, status, cancelling, lastStatus, mainVars>>
      /\ over' = over \/ over' = over \cup {t}
      /\ status[t] \in Occupying
  BY DEF Progress, Ends, CanPost, taskVars, panelVars
<1>2. Begun' = Begun /\ t \in Begun
  BY <1>1 DEF Begun, Submitted, Occupying
<1> QED BY <1>1, <1>2 DEF Rest, mainVars

LEMMA DeliverBegins == TaskInv /\ Rest /\ Deliver => Rest'
<1> SUFFICES ASSUME TaskInv, Rest, Deliver PROVE Rest'
  OBVIOUS
<1> DEFINE t == Head(mailbox)[1]
           sig == Head(mailbox)[2]
<1>1. UNCHANGED <<kind, cancelling, over, mainVars>> /\ Submitted' = Submitted
  BY DEF Deliver, Submitted
<1>2. t \in Submitted
  <2>1. mailbox \in Seq(Submitted \X Signal) /\ mailbox # <<>>
    BY Who DEF Deliver
  <2>2. Head(mailbox) \in Submitted \X Signal
    BY <2>1, MailTaken
  <2> QED BY <2>2
<1>3. \/ sig \in {"low", "full"} /\ onWorkerProgress(t, sig)
      \/ \E v \in Terminal : CleanupTask(t, v)
  BY DEF Deliver, onWorkerFinished, onWorkerFailed, Terminal
<1> HIDE DEF t, sig
<1>4. lastStatus' \in Contents
  <2>1. \E s : lastStatus' = StatusContent(t, s)
    BY <1>3, Zenon DEF onWorkerProgress, CleanupTask, Update
  <2> QED BY <2>1, ContentKept DEF Rest
<1>5. CASE sig \in {"low", "full"} /\ onWorkerProgress(t, sig)
  <2>1. status' = [status EXCEPT ![t] =
               CASE sig = "full" /\ @ = "Running"    -> "Monitoring"
                 [] sig = "low"  /\ @ = "Monitoring" -> "Running"
                 [] OTHER -> @]
    BY <1>5 DEF onWorkerProgress, Update
  <2>2. DOMAIN status = Submitted
    BY Who DEF Submitted
  <2>3. \A u \in Submitted : status[u] # "Pending" => status'[u] # "Pending"
    BY <2>1, <2>2
  <2> QED BY <1>1, <1>4, <2>3 DEF Rest, Begun, mainVars
<1>6. CASE \E v \in Terminal : CleanupTask(t, v)
  <2>1. PICK v \in Terminal : CleanupTask(t, v)
    BY <1>6
  <2>2. /\ status'[t] = v
        /\ \A u \in Submitted \ {t} :
             status'[u] = status[u] \/ (status[u] = "Pending" /\ status'[u] = "Running")
    BY <1>1, <1>2, <2>1, CleanupFills DEF TaskInv
  <2>3. \A u \in Submitted : status[u] # "Pending" => status'[u] # "Pending"
    BY <2>2 DEF Terminal
  <2> QED BY <1>1, <1>4, <2>3 DEF Rest, Begun, mainVars
<1> QED BY <1>3, <1>5, <1>6

LEMMA StatusBegins ==
  ASSUME TaskInv, Rest, NEW p \in {"low", "full"}, StatusIngesting(p) \/ StatusOther
  PROVE  Rest'
<1>1. UNCHANGED <<kind, status, cancelling, lastStatus>>
  BY DEF StatusIngesting, StatusOther, taskVars, panelVars
<1>2. Begun' = Begun
  BY <1>1 DEF Begun, Submitted
<1>3. over' \subseteq Begun
  <2>1. over' = over \/ (trackerTask # None /\ over' = over \cup {trackerTask})
    BY DEF StatusIngesting, StatusOther
  <2>2. trackerTask # None => trackerTask \in Begun
    BY Who DEF TaskInv, TrackerHeld, Begun, Occupying
  <2> QED BY <2>1, <2>2 DEF Rest
<1>4. ingesting' \in BOOLEAN /\ graceScheduled' \in BOOLEAN
  BY Zenon DEF Rest, StatusIngesting, StatusOther
<1>5. graceTimers' \in 0 .. MaxTimers
  <2>1. graceTimers' = graceTimers \/ (graceTimers < MaxTimers /\ graceTimers' = graceTimers + 1)
    BY DEF StatusIngesting, StatusOther
  <2>2. graceTimers \in 0 .. MaxTimers /\ MaxTimers \in Nat
    BY DEF Rest, TaskInv, TaskTypes, Sized
  <2> QED BY <2>1, <2>2
<1> QED BY <1>1, <1>2, <1>3, <1>4, <1>5 DEF Rest

LEMMA GraceBegins ==
  ASSUME TaskInv, Rest, NEW p \in {"low", "full"}, GraceOver(p)
  PROVE  Rest'
<1>1. graceTimers' \in 0 .. MaxTimers
  <2>1. graceTimers \in 0 .. MaxTimers /\ MaxTimers \in Nat
    BY DEF Rest, TaskInv, TaskTypes, Sized
  <2>2. graceTimers > 0 /\ graceTimers' = graceTimers - 1
    BY DEF GraceOver
  <2> QED BY <2>1, <2>2
<1>2. Begun \subseteq Begun' /\ lastStatus' \in Contents /\ UNCHANGED <<cancelling, over>>
  <2>1. CASE StillIngesting
    BY <2>1, SubmitBegins DEF GraceOver
  <2>2. CASE ~StillIngesting
    BY <2>2 DEF GraceOver, taskVars, panelVars, Rest, Begun, Submitted
  <2> QED BY <2>1, <2>2
<1>3. UNCHANGED <<ingesting, graceScheduled>>
  BY DEF GraceOver
<1> QED BY <1>1, <1>2, <1>3 DEF Rest

LEMMA NextRest == TaskInv /\ Rest /\ [Next]_vars => Rest'
<1> SUFFICES ASSUME TaskInv, Rest, [Next]_vars PROVE Rest'
  OBVIOUS
<1>1. CASE UNCHANGED vars
  BY <1>1 DEF vars, taskVars, panelVars, mainVars, Rest, Begun, Submitted
<1>2. ASSUME NEW k \in Kind, Submit(k) PROVE Rest'
  <2>1. submit(k) /\ UNCHANGED <<ingesting, graceScheduled, graceTimers>>
    BY <1>2 DEF Submit, mainVars
  <2>2. Begun \subseteq Begun' /\ lastStatus' \in Contents /\ UNCHANGED <<cancelling, over>>
    BY <2>1, SubmitBegins
  <2> QED BY <2>1, <2>2 DEF Rest
<1>3. ASSUME NEW t \in Submitted, ShowDelayOver(t) PROVE Rest'
  BY <1>3 DEF ShowDelayOver, taskVars, mainVars, Rest, Begun, Submitted
<1> QED BY <1>1, <1>2, <1>3, CancelBegins, WorkerBegins, DeliverBegins, StatusBegins, GraceBegins
        DEF Next

LEMMA InitRest == Sized /\ Init => Rest
<1> SUFFICES ASSUME Sized, Init PROVE Rest
  OBVIOUS
<1>1. ingesting \in BOOLEAN /\ graceScheduled \in BOOLEAN
  BY Zenon DEF Init
<1>2. graceTimers \in 0 .. MaxTimers
  BY DEF Init, Sized
<1>3. cancelling = {} /\ over = {} /\ lastStatus = None
  BY DEF Init
<1> QED BY <1>1, <1>2, <1>3 DEF Rest, Contents

LEMMA TasksTyped == TaskInv /\ Rest => TypeOK
<1> SUFFICES ASSUME TaskInv, Rest PROVE TypeOK
  OBVIOUS
<1>1. Len(kind) \in 0 .. MaxTasks
  BY DEF TaskInv, TaskTypes, Sized
<1>2. trackerTask \in Submitted \cup {None}
  BY Who DEF TaskInv, Told
<1>3. mailbox \in Seq(Submitted \X {"low", "full", "finished", "failed"})
  BY DEF TaskInv, TaskTypes, Signal
<1> QED BY <1>1, <1>2, <1>3 DEF TypeOK, TaskInv, TaskTypes, Rest, Begun, Contents
=============================================================================
