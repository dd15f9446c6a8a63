---------------------------- MODULE ServiceProofs ----------------------------
(***************************************************************************)
(* Theorems about what MCService checks, for any number of connections,    *)
(* directories, requests and copies of the service.  InstallRegistry:      *)
(* s.tailers lists only pipelines that run, and auto-detection that is on  *)
(* always has a loop, whatever the goroutines interleave; and requests     *)
(* that are handled one after the other keep one pipeline per directory,   *)
(* the file and the clients up to date.  Election: types, and that         *)
(* somebody serves in the end.                                             *)
(***************************************************************************)
EXTENDS MCService, FiniteSetTheorems, TLAPS

(* A goroutine that goes on is neither gone nor about to start a loop.     *)
GoesOn == {"idle", "remove", "add", "scan", "persist"}

LEMMA ProceedType ==
  ASSUME NEW a \in Actor, NEW r \in Work
  PROVE  Proceed(a, r) \in Work /\ (a \in Loop => Proceed(a, r).pc \in GoesOn)
<1> DEFINE next == IF r.remove # {} THEN "remove"
                   ELSE IF r.add # {} THEN "add"
                   ELSE IF r.scan # {} THEN "scan"
                   ELSE AfterAdding(a, r)
<1>1. next \in GoesOn
  BY DEF AfterAdding, GoesOn
<1>2. Idle \in Work /\ Idle.pc = "idle"
  BY DEF Idle, Work, PC, Setting
<1>3. next \in PC
  BY <1>1 DEF GoesOn, PC
<1> HIDE DEF next
<1>4. [r EXCEPT !.pc = next] \in Work /\ [r EXCEPT !.pc = next].pc = next
  BY <1>3 DEF Work
<1>5. Proceed(a, r) = IF next = "idle" THEN Idle ELSE [r EXCEPT !.pc = next]
  BY DEF Proceed, next
<1> QED BY <1>1, <1>2, <1>4, <1>5 DEF GoesOn

LEMMA Disjoint == Conn \cap Loop = {}
BY RegistryAssumption DEF Loop

(* What a step of goroutine a does to the invariants: it becomes r.        *)
LEMMA DoesType ==
  ASSUME act \in [Actor -> Work], NEW a \in Actor, NEW r \in Work, Does(a, r)
  PROVE  act' \in [Actor -> Work] /\ act'[a] = r /\ \A b \in Actor \ {a} : act'[b] = act[b]
BY DEF Does

(* Loops keep running, and connections about to start one are unchanged.   *)
LEMMA Detecting ==
  ASSUME act \in [Actor -> Work], DetectionRuns, autoDetect' = autoDetect,
         NEW a \in Actor, NEW r \in Work, Does(a, r),
         a \in Loop => r.pc # "none",
         a \in Conn => act[a].pc # "spawn"
  PROVE  DetectionRuns'
<1>1. act'[a] = r /\ \A b \in Actor \ {a} : act'[b] = act[b]
  BY DoesType
<1>2. SUFFICES ASSUME autoDetect
               PROVE  (\E l \in Loop : act'[l].pc # "none") \/ (\E c \in Conn : act'[c].pc = "spawn")
  BY DEF DetectionRuns, Running
<1>3. CASE \E l \in Loop : act[l].pc # "none"
  BY <1>1, <1>3 DEF Actor
<1>4. CASE \E c \in Conn : act[c].pc = "spawn"
  BY <1>1, <1>4 DEF Actor
<1> QED BY <1>2, <1>3, <1>4 DEF DetectionRuns, Running

IInv == TypeOK /\ TailedIsLive /\ DetectionRuns

LEMMA InitIInv == Init => IInv
<1> SUFFICES ASSUME Init PROVE IInv
  OBVIOUS
<1> USE RegistryAssumption
<1>0. Idle \in Work /\ NotRunning \in Work /\ Idle.pc = "idle"
  BY DEF Idle, NotRunning, Work, PC, Setting
<1>1. PICK dirs \in SUBSET Dir, on \in BOOLEAN :
        /\ tailers = [d \in Dir |-> IF d \in dirs THEN <<d, 0>> ELSE NoTailer]
        /\ live = {<<d, 0>> : d \in dirs} /\ dying = {} /\ started = 0
        /\ autoDetect = on
        /\ act = [a \in Actor |-> IF a \in Conn \/ (a = 0 /\ on) THEN Idle ELSE NotRunning]
        /\ file = [dirs |-> dirs, auto |-> on]
        /\ told = file
        /\ sets = 0 /\ crashes = 0
  BY DEF Init
<1>2. TypeOK
  <2>1. tailers \in [Dir -> Pipeline \cup {NoTailer}] /\ live \subseteq Pipeline
    BY <1>1 DEF Pipeline
  <2>2. act \in [Actor -> Work]
    BY <1>0, <1>1
  <2> QED BY <1>1, <2>1, <2>2 DEF TypeOK, Config
<1>3. TailedIsLive
  BY <1>1 DEF TailedIsLive
<1>4. DetectionRuns
  <2>1. 0 \in Loop
    BY DEF Loop
  <2>2. on => act[0].pc = "idle"
    BY <1>0, <1>1, <2>1 DEF Actor
  <2> QED BY <1>1, <2>1, <2>2 DEF DetectionRuns, Running
<1> QED BY <1>2, <1>3, <1>4 DEF IInv

(* A step of one goroutine that only reads.                                *)
LEMMA ReadingStep ==
  ASSUME IInv, NEW a \in Actor, NEW r \in Work, Does(a, r),
         a \in Loop => r.pc # "none", a \in Conn => act[a].pc # "spawn",
         UNCHANGED <<registry, autoDetect, outside>>
  PROVE  IInv'
<1>1. act' \in [Actor -> Work]
  BY DoesType DEF IInv, TypeOK
<1>2. TypeOK'
  BY <1>1 DEF IInv, TypeOK, registry, outside
<1>3. TailedIsLive'
  BY DEF IInv, TailedIsLive, registry
<1>4. DetectionRuns'
  BY Detecting DEF IInv, TypeOK
<1> QED BY <1>2, <1>3, <1>4 DEF IInv

LEMMA NextIInv == IInv /\ [Next]_vars => IInv'
<1> SUFFICES ASSUME IInv, [Next]_vars PROVE IInv'
  OBVIOUS
<1> USE RegistryAssumption, Disjoint
<1>0. act \in [Actor -> Work] /\ Idle \in Work /\ NotRunning \in Work /\ Idle.pc = "idle"
  BY DEF IInv, TypeOK, Idle, NotRunning, Work, PC, Setting
<1>t. TypeOK /\ TailedIsLive /\ DetectionRuns
  BY DEF IInv
<1>a. Conn \subseteq Actor /\ Loop \subseteq Actor
  BY DEF Actor
<1>1. ASSUME NEW c \in Conn, NEW want \in SUBSET Dir, SetInstallDirs(c, want)
      PROVE  IInv'
  <2> DEFINE r == [Idle EXCEPT !.pc = "list", !.add = want]
  <2>1. r \in Work /\ Does(c, r) /\ act[c].pc = "idle"
    BY <1>1, <1>0 DEF SetInstallDirs, Work, PC
  <2> HIDE DEF r
  <2>2. act' \in [Actor -> Work]
    BY <2>1, <1>0, <1>a, DoesType
  <2>3. TypeOK'
    BY <1>1, <1>t, <2>2 DEF SetInstallDirs, TypeOK, registry
  <2>4. TailedIsLive'
    BY <1>1, <1>t DEF SetInstallDirs, TailedIsLive, registry
  <2>5. DetectionRuns'
    BY <1>1, <1>t, <1>0, <1>a, <2>1, Detecting DEF SetInstallDirs
  <2> QED BY <2>3, <2>4, <2>5 DEF IInv
<1>2. ASSUME NEW c \in Conn, NEW v \in BOOLEAN, SetAutoDetect(c, v)
      PROVE  IInv'
  <2> DEFINE r == [Idle EXCEPT !.pc = IF StartsLoop(v) THEN "spawn" ELSE "persist"]
  <2>1. r \in Work /\ Does(c, r) /\ act[c].pc = "idle" /\ (StartsLoop(v) => r.pc = "spawn")
    BY <1>2, <1>0 DEF SetAutoDetect, Work, PC
  <2> HIDE DEF r
  <2>2. act' \in [Actor -> Work] /\ act'[c] = r /\ \A b \in Actor \ {c} : act'[b] = act[b]
    BY <2>1, <1>0, <1>a, DoesType
  <2>3. TypeOK'
    BY <1>2, <1>t, <2>2 DEF SetAutoDetect, TypeOK, registry
  <2>4. TailedIsLive'
    BY <1>2, <1>t DEF SetAutoDetect, TailedIsLive, registry
  <2>5. DetectionRuns'
    <3>1. autoDetect' = v
      BY <1>2 DEF SetAutoDetect
    <3>2. CASE StartsLoop(v)
      BY <3>2, <2>1, <2>2 DEF DetectionRuns
    <3>3. CASE v /\ autoDetect
      <4>1. CASE \E l \in Loop : act[l].pc # "none"
        BY <4>1, <2>2, <1>a DEF DetectionRuns, Running
      <4>2. CASE \E k \in Conn : act[k].pc = "spawn"
        <5>1. PICK k \in Conn : act[k].pc = "spawn"
          BY <4>2
        <5>2. act'[k] = act[k]
          BY <5>1, <2>1, <2>2, <1>a
        <5> QED BY <5>1, <5>2 DEF DetectionRuns
      <4> QED BY <4>1, <4>2, <3>3, <1>t DEF DetectionRuns, Running
    <3>4. CASE ~v
      BY <3>1, <3>4 DEF DetectionRuns
    <3> QED BY <3>2, <3>3, <3>4 DEF StartsLoop
  <2> QED BY <2>3, <2>4, <2>5 DEF IInv
<1>3. ASSUME NEW c \in Conn, ListTailed(c)
      PROVE  IInv'
  <2> DEFINE q == [act[c] EXCEPT !.remove = Tailed \ act[c].add]
  <2>1. q \in Work
    BY <1>0, <1>a DEF Work, Tailed
  <2>2. Proceed(c, q) \in Work /\ Does(c, Proceed(c, q)) /\ act[c].pc # "spawn"
    BY <1>3, <2>1, <1>a, ProceedType DEF ListTailed
  <2> QED BY <1>3, <2>2, <1>a, ReadingStep DEF ListTailed
<1>4. ASSUME NEW c \in Conn, Remove(c)
      PROVE  IInv'
  <2>1. PICK d \in act[c].remove :
          /\ IF tailers[d] = NoTailer
               THEN UNCHANGED <<tailers, live, dying>>
               ELSE /\ live' = live \ {tailers[d]}
                    /\ dying' = dying \cup ({tailers[d]} \cap live)
                    /\ tailers' = Removed(d)
          /\ Does(c, Proceed(c, [act[c] EXCEPT !.remove = @ \ {d}]))
    BY <1>4 DEF Remove
  <2> DEFINE q == [act[c] EXCEPT !.remove = @ \ {d}]
  <2>2. q \in Work /\ d \in Dir
    BY <1>0, <1>a DEF Work
  <2>3. Proceed(c, q) \in Work /\ Does(c, Proceed(c, q)) /\ act[c].pc # "spawn"
    BY <1>4, <2>1, <2>2, <1>a, ProceedType DEF Remove
  <2>4. act' \in [Actor -> Work]
    BY <2>3, <1>0, <1>a, DoesType
  <2>5. TypeOK'
    <3>1. live' \subseteq Pipeline /\ dying' \subseteq Pipeline
          /\ tailers' \in [Dir -> Pipeline \cup {NoTailer}]
      BY <2>1, <2>2, <1>t DEF TypeOK, Removed
    <3> QED BY <1>4, <1>t, <2>4, <3>1 DEF Remove, TypeOK, outside
  <2>6. TailedIsLive'
    BY <2>1, <2>2, <1>t DEF TailedIsLive, TypeOK, Removed
  <2>7. DetectionRuns'
    BY <1>4, <1>t, <1>0, <1>a, <2>3, Detecting DEF Remove
  <2> QED BY <2>5, <2>6, <2>7 DEF IInv
<1>5. ASSUME NEW c \in Conn, Spawn(c)
      PROVE  IInv'
  <2>1. PICK l \in Loop \ {0} : act' = [act EXCEPT ![c].pc = "persist", ![l] = Idle]
    BY <1>5 DEF Spawn
  <2>2. c # l /\ c \in Actor /\ l \in Actor
    BY <1>a
  <2>3. act' \in [Actor -> Work]
    <3>1. [act[c] EXCEPT !.pc = "persist"] \in Work
      BY <1>0, <1>a DEF Work, PC
    <3>2. act' = [[act EXCEPT ![c] = [act[c] EXCEPT !.pc = "persist"]] EXCEPT ![l] = Idle]
      BY <2>1, <2>2, <1>0
    <3> QED BY <3>1, <3>2, <1>0
  <2>4. act'[l] = Idle
    BY <2>1, <2>2, <1>0
  <2>5. TypeOK' /\ TailedIsLive'
    BY <1>5, <1>t, <2>3 DEF Spawn, TypeOK, TailedIsLive, registry, outside
  <2>6. DetectionRuns'
    BY <2>4, <1>0 DEF DetectionRuns, Running
  <2> QED BY <2>5, <2>6 DEF IInv
<1>6. ASSUME NEW l \in Loop, Tick(l)
      PROVE  IInv'
  <2>1. CASE Ends
    <3>1. Does(l, NotRunning) /\ ~autoDetect
      BY <1>6, <2>1 DEF Tick, Ends
    <3>2. act' \in [Actor -> Work]
      BY <3>1, <1>0, <1>a, DoesType
    <3>3. TypeOK' /\ TailedIsLive'
      BY <1>6, <1>t, <3>2 DEF Tick, TypeOK, TailedIsLive, registry, outside
    <3>4. DetectionRuns'
      BY <1>6, <3>1 DEF Tick, DetectionRuns
    <3> QED BY <3>3, <3>4 DEF IInv
  <2>2. CASE ~Ends
    <3>1. PICK games \in SUBSET Playing :
            Does(l, Proceed(l, [Idle EXCEPT !.scan = {Spelled(d) : d \in games}]))
      BY <1>6, <2>2 DEF Tick
    <3> DEFINE q == [Idle EXCEPT !.scan = {Spelled(d) : d \in games}]
    <3>2. q \in Work
      BY <1>0 DEF Work
    <3>3. Proceed(l, q) \in Work /\ Does(l, Proceed(l, q)) /\ Proceed(l, q).pc # "none"
      BY <3>1, <3>2, <1>a, ProceedType DEF GoesOn
    <3> QED BY <1>6, <3>3, <1>a, ReadingStep DEF Tick
  <2> QED BY <2>1, <2>2
<1>7. ASSUME NEW l \in Loop, LookUp(l)
      PROVE  IInv'
  <2>1. PICK p \in act[l].scan :
          Does(l, Proceed(l, IF p \in Tailed THEN [act[l] EXCEPT !.scan = @ \ {p}]
                             ELSE [[act[l] EXCEPT !.scan = @ \ {p}] EXCEPT !.add = {Normalize(p)}]))
    BY <1>7 DEF LookUp
  <2> DEFINE r == [act[l] EXCEPT !.scan = @ \ {p}]
             q == IF p \in Tailed THEN r ELSE [r EXCEPT !.add = {Normalize(p)}]
  <2>2. PICK d \in Dir : p = Spelled(d)
    BY <1>0, <1>a DEF Work
  <2>3. Normalize(p) \in Dir
    BY <2>2 DEF Normalize, Spelled
  <2>4. r \in Work
    BY <1>0, <1>a DEF Work
  <2>5. q \in Work
    BY <2>3, <2>4 DEF Work
  <2>6. Proceed(l, q) \in Work /\ Does(l, Proceed(l, q)) /\ Proceed(l, q).pc # "none"
    BY <2>1, <2>5, <1>a, ProceedType DEF GoesOn
  <2> QED BY <1>7, <2>6, <1>a, ReadingStep DEF LookUp
<1>8. ASSUME NEW a \in Actor, CheckTailed(a)
      PROVE  IInv'
  <2>1. PICK d \in act[a].add :
          Does(a, IF IsTailed(d) THEN Proceed(a, [act[a] EXCEPT !.add = @ \ {d}, !.found = TRUE])
                  ELSE [act[a] EXCEPT !.pc = "start", !.dirs = {d}])
    BY <1>8 DEF CheckTailed
  <2> DEFINE q == [act[a] EXCEPT !.add = @ \ {d}, !.found = TRUE]
             s == [act[a] EXCEPT !.pc = "start", !.dirs = {d}]
             r == IF IsTailed(d) THEN Proceed(a, q) ELSE s
  <2>2. q \in Work /\ s \in Work /\ s.pc = "start"
    BY <1>0 DEF Work, PC
  <2>3. Proceed(a, q) \in Work /\ (a \in Loop => Proceed(a, q).pc \in GoesOn)
    BY <2>2, ProceedType
  <2> HIDE DEF q, s
  <2>4. r \in Work /\ Does(a, r) /\ (a \in Loop => r.pc # "none") /\ act[a].pc # "spawn"
    BY <1>8, <2>1, <2>2, <2>3 DEF CheckTailed, GoesOn, q, s
  <2> HIDE DEF r
  <2> QED BY <1>8, <2>4, ReadingStep DEF CheckTailed
<1>9. ASSUME NEW a \in Actor, StartTailing(a)
      PROVE  IInv'
  <2>1. PICK d \in act[a].dirs :
          /\ started' = started + 1
          /\ live' = live \cup {<<d, started + 1>>}
          /\ tailers' = [tailers EXCEPT ![d] = <<d, started + 1>>]
          /\ Does(a, Proceed(a, [Added(a, d) EXCEPT !.found = TRUE]))
    BY <1>9 DEF StartTailing
  <2> DEFINE q == [Added(a, d) EXCEPT !.found = TRUE]
  <2>2. q \in Work /\ d \in Dir
    BY <1>0 DEF Work, Added
  <2>3. Proceed(a, q) \in Work /\ Does(a, Proceed(a, q)) /\ act[a].pc # "spawn"
        /\ (a \in Loop => Proceed(a, q).pc # "none")
    BY <1>9, <2>1, <2>2, ProceedType DEF StartTailing, GoesOn
  <2>4. act' \in [Actor -> Work]
    BY <2>3, <1>0, DoesType
  <2>5. TypeOK'
    <3>1. live' \subseteq Pipeline /\ tailers' \in [Dir -> Pipeline \cup {NoTailer}] /\ started' \in Nat
      BY <2>1, <2>2, <1>t DEF TypeOK, Pipeline
    <3> QED BY <1>9, <1>t, <2>4, <3>1 DEF StartTailing, TypeOK, outside
  <2>6. TailedIsLive'
    BY <2>1, <2>2, <1>t DEF TailedIsLive, TypeOK
  <2>7. DetectionRuns'
    BY <1>9, <1>t, <1>0, <2>3, Detecting DEF StartTailing
  <2> QED BY <2>5, <2>6, <2>7 DEF IInv
<1>10. ASSUME NEW a \in Actor, StartFails(a)
       PROVE  IInv'
  <2>1. PICK d \in act[a].dirs : Does(a, Proceed(a, [Added(a, d) EXCEPT !.failed = TRUE]))
    BY <1>10 DEF StartFails
  <2> DEFINE q == [Added(a, d) EXCEPT !.failed = TRUE]
  <2>2. q \in Work
    BY <1>0 DEF Work, Added
  <2>3. Proceed(a, q) \in Work /\ Does(a, Proceed(a, q)) /\ act[a].pc # "spawn"
        /\ (a \in Loop => Proceed(a, q).pc # "none")
    BY <1>10, <2>1, <2>2, ProceedType DEF StartFails, GoesOn
  <2> QED BY <1>10, <2>3, ReadingStep DEF StartFails
<1>11. ASSUME NEW a \in Actor, PersistDirs(a) \/ PersistAuto(a) \/ SaveFails(a) \/ ReadSetting(a)
       PROVE  IInv'
  <2>1. PICK r \in Work : Does(a, r) /\ r.pc # "none"
    <3>1. ASSUME PersistDirs(a) PROVE [act[a] EXCEPT !.pc = "auto", !.dirs = Tailed] \in Work
      BY <1>0 DEF Work, PC, Tailed
    <3>2. ASSUME PersistAuto(a) PROVE [act[a] EXCEPT !.pc = "save", !.auto = autoDetect] \in Work
      BY <1>0, <1>t DEF Work, PC, TypeOK
    <3>3. [act[a] EXCEPT !.pc = "publish", !.unread = Setting] \in Work
      BY <1>0 DEF Work, PC
    <3>4. ASSUME NEW k \in act[a].unread
          PROVE  /\ [act[a] EXCEPT !.unread = @ \ {k}, !.dirs = Tailed] \in Work
                 /\ [act[a] EXCEPT !.unread = @ \ {k}, !.auto = autoDetect] \in Work
      BY <1>0, <1>t DEF Work, Tailed, TypeOK
    <3>5. CASE PersistDirs(a)
      BY <3>1, <3>5, <1>0 DEF PersistDirs, Work
    <3>6. CASE PersistAuto(a)
      BY <3>2, <3>6, <1>0 DEF PersistAuto, Work
    <3>7. CASE SaveFails(a)
      BY <3>3, <3>7, <1>0 DEF SaveFails, Work
    <3>8. CASE ReadSetting(a)
      <4>1. PICK k \in act[a].unread :
              Does(a, IF k = "install_dirs"
                        THEN [act[a] EXCEPT !.unread = @ \ {k}, !.dirs = Tailed]
                        ELSE [act[a] EXCEPT !.unread = @ \ {k}, !.auto = autoDetect])
        BY <3>8 DEF ReadSetting
      <4> DEFINE q == [act[a] EXCEPT !.unread = @ \ {k}, !.dirs = Tailed]
                 s == [act[a] EXCEPT !.unread = @ \ {k}, !.auto = autoDetect]
      <4>2. q \in Work /\ s \in Work /\ q.pc = act[a].pc /\ s.pc = act[a].pc
        BY <3>4, <1>0 DEF Work
      <4>3. act[a].pc = "publish"
        BY <3>8 DEF ReadSetting
      <4> HIDE DEF q, s
      <4>4. CASE k = "install_dirs"
        BY <4>1, <4>2, <4>3, <4>4 DEF q, s
      <4>5. CASE k # "install_dirs"
        BY <4>1, <4>2, <4>3, <4>5 DEF q, s
      <4> QED BY <4>4, <4>5
    <3> QED BY <1>11, <3>5, <3>6, <3>7, <3>8
  <2>2. act[a].pc # "spawn" /\ UNCHANGED <<registry, autoDetect, outside>>
    BY <1>11 DEF PersistDirs, PersistAuto, SaveFails, ReadSetting
  <2> QED BY <2>1, <2>2, ReadingStep
<1>12. ASSUME NEW a \in Actor, Save(a)
       PROVE  IInv'
  <2> DEFINE r == [act[a] EXCEPT !.pc = "publish", !.unread = Setting]
  <2>1. r \in Work /\ Does(a, r) /\ r.pc # "none" /\ act[a].pc # "spawn"
    BY <1>12, <1>0 DEF Save, Work, PC
  <2>2. act' \in [Actor -> Work]
    BY <2>1, <1>0, DoesType
  <2>3. file' \in Config
    BY <1>12, <1>0 DEF Save, FileDirs, Work, Config
  <2>4. TypeOK' /\ TailedIsLive'
    BY <1>12, <1>t, <2>2, <2>3 DEF Save, TypeOK, TailedIsLive, registry
  <2>5. DetectionRuns'
    BY <1>12, <1>t, <1>0, <2>1, Detecting DEF Save
  <2> QED BY <2>4, <2>5 DEF IInv
<1>13. ASSUME NEW a \in Actor, Publish(a)
       PROVE  IInv'
  <2>1. Does(a, Idle) /\ act[a].pc # "spawn"
    BY <1>13 DEF Publish
  <2>2. act' \in [Actor -> Work]
    BY <2>1, <1>0, DoesType
  <2>3. told' \in Config
    BY <1>13, <1>0 DEF Publish, Snapshot, Work, Config
  <2>4. TypeOK' /\ TailedIsLive'
    BY <1>13, <1>t, <2>2, <2>3 DEF Publish, TypeOK, TailedIsLive, registry
  <2>5. DetectionRuns'
    BY <1>13, <1>t, <1>0, <2>1, Detecting DEF Publish
  <2> QED BY <2>4, <2>5 DEF IInv
<1>14. CASE PipelineEnds
  <2>1. TypeOK' /\ TailedIsLive'
    BY <1>14, <1>t DEF PipelineEnds, TypeOK, TailedIsLive, outside
  <2>2. DetectionRuns'
    BY <1>14, <1>t DEF PipelineEnds, DetectionRuns, Running
  <2> QED BY <2>1, <2>2 DEF IInv
<1>15. CASE Crash
  <2>1. file.dirs \subseteq Dir /\ file.auto \in BOOLEAN /\ file \in Config /\ file' = file
    BY <1>15, <1>t DEF Crash, TypeOK, Config
  <2>2. /\ tailers' \in [Dir -> Pipeline \cup {NoTailer}]
        /\ live' \subseteq Pipeline /\ dying' = {} /\ started' \in Nat
    BY <1>15, <1>t, <2>1 DEF Crash, TypeOK, Pipeline
  <2>3. act' \in [Actor -> Work]
    BY <1>15, <1>0 DEF Crash
  <2>4. autoDetect' \in BOOLEAN /\ told' \in Config /\ sets' \in Nat /\ crashes' \in Nat
    BY <1>15, <1>t, <2>1 DEF Crash, TypeOK
  <2>5. TypeOK'
    BY <2>1, <2>2, <2>3, <2>4 DEF TypeOK
  <2>6. TailedIsLive'
    BY <1>15, <2>1 DEF Crash, TailedIsLive
  <2>7. DetectionRuns'
    <3>1. 0 \in Loop
      BY DEF Loop
    <3>2. file.auto => act'[0] = Idle
      BY <1>15, <1>a, <3>1 DEF Crash
    <3> QED BY <1>15, <1>0, <3>1, <3>2 DEF Crash, DetectionRuns, Running
  <2> QED BY <2>5, <2>6, <2>7 DEF IInv
<1>16. CASE UNCHANGED vars
  BY <1>16, <1>t DEF vars, IInv, TypeOK, TailedIsLive, DetectionRuns, Running
<1> QED BY <1>1, <1>2, <1>3, <1>4, <1>5, <1>6, <1>7, <1>8, <1>9, <1>10, <1>11, <1>12,
           <1>13, <1>14, <1>15, <1>16 DEF Next, ConnStep, LoopStep, Step

LEMMA Invariance == Spec => []IInv
BY InitIInv, NextIInv, PTL DEF Spec

(* Every variable stays in its type: in particular, a directory found by   *)
(* the process scan enters s.tailers in its normalized spelling only.      *)
THEOREM TypeCorrect == Spec => []TypeOK
BY Invariance, PTL DEF IInv

(* What s.tailers lists is being ingested (addInstallTarget, removeInstall). *)
THEOREM ListedIsIngested == Spec => []TailedIsLive
BY Invariance, PTL DEF IInv

(* Auto-detection that is on has a loop, or one about to be started, however *)
(* config.set requests race the loops' decisions to end (watchAutoDetect).   *)
THEOREM DetectionNeverLost == Spec => []DetectionRuns
BY Invariance, PTL DEF IInv

-----------------------------------------------------------------------------
(* Orderly behaviours: requests one after the other, none of which fails.  *)

(* How far the request of a connection is.                                 *)
OnTheWay(r) ==
  /\ r.failed = FALSE /\ r.pc # "none"
  /\ r.pc = "start" => \A d \in r.dirs : tailers[d] = NoTailer
  /\ r.pc \in {"auto", "save"} => r.dirs = Tailed
  /\ r.pc = "save" => r.auto = autoDetect
  /\ r.pc = "publish" =>
       /\ file = Current
       /\ "install_dirs" \notin r.unread => r.dirs = Tailed
       /\ "auto_detect_install_dir" \notin r.unread => r.auto = autoDetect

(* At most one request is being handled, every pipeline is the one listed, *)
(* and when no request is, the file and the clients are up to date.        *)
LoopsScanNothing == \A l \in Loop : act[l].pc \in {"idle", "none"}
OneRequest == \A b, c \in Conn : act[b].pc # "idle" /\ act[c].pc # "idle" => b = c
ListedPipeline == \A p \in live : tailers[p[1]] = p
Answered == (\A c \in Conn : act[c].pc = "idle") => file = Current /\ told = Current

OInv == /\ LoopsScanNothing /\ OneRequest /\ ListedPipeline /\ Answered
        /\ \A c \in Conn : OnTheWay(act[c])

ServiceInv == IInv /\ (kind = "orderly" => OInv)

(* A scan of no game leaves a loop as it was.                              *)
QuietTick(l) ==
  /\ act[l].pc = "idle"
  /\ Does(l, IF Ends THEN NotRunning ELSE Idle)
  /\ UNCHANGED <<registry, autoDetect, outside>>

ConnWorks(c) ==
  \/ (\E want \in SUBSET Dir : SetInstallDirs(c, want)) \/ (\E v \in BOOLEAN : SetAutoDetect(c, v))
  \/ ConnStep(c)

ActorWorks(a) == \/ CheckTailed(a) \/ StartTailing(a) \/ PersistDirs(a) \/ PersistAuto(a)
                 \/ Save(a) \/ ReadSetting(a) \/ Publish(a)

QuietNext == \/ \E c \in Conn : ConnWorks(c)
             \/ \E l \in Loop : QuietTick(l) \/ LookUp(l)
             \/ \E a \in Actor : ActorWorks(a)
             \/ PipelineEnds \/ Crash

(* No game is seen running, so a loop's tick only ever ends it.            *)
LEMMA QuietScan ==
  ASSUME NEW l \in Loop, Orderly!Tick(l)
  PROVE  Tick(l) /\ QuietTick(l)
<1>1. Orderly!Idle = Idle /\ Orderly!NotRunning = NotRunning /\ Orderly!Ends = Ends
      /\ (\A r : Orderly!Does(l, r) = Does(l, r))
      /\ (\A r : Orderly!Proceed(l, r) = Proceed(l, r))
  BY DEF Orderly!Idle, Idle, Orderly!NotRunning, NotRunning, Orderly!Ends, Ends, Orderly!Does, Does,
         Orderly!Proceed, Proceed, Orderly!AfterAdding, AfterAdding
<1>2. Orderly!registry = registry /\ Orderly!outside = outside
  BY DEF Orderly!registry, registry, Orderly!outside, outside
<1>3. [Idle EXCEPT !.scan = {}] = Idle
  BY DEF Idle
<1>4. Proceed(l, Idle) = Idle
  BY Disjoint DEF Proceed, AfterAdding, Idle
<1>5. act[l].pc = "idle" /\ UNCHANGED <<registry, autoDetect, outside>>
  BY DEF Orderly!Tick, Orderly!registry, registry, Orderly!outside, outside
<1>6. CASE Ends
  <2>1. Does(l, NotRunning)
    BY <1>1, <1>6 DEF Orderly!Tick
  <2> QED BY <1>5, <1>6, <2>1 DEF Tick, QuietTick
<1>7. CASE ~Ends
  <2>1. \A games \in SUBSET {} : {Orderly!Spelled(d) : d \in games} = {}
    OBVIOUS
  <2>2. \E games \in SUBSET {} :
          Orderly!Does(l, Orderly!Proceed(l, [Orderly!Idle EXCEPT !.scan = {Orderly!Spelled(d) : d \in games}]))
    BY <1>1, <1>7 DEF Orderly!Tick
  <2>3. Does(l, Proceed(l, [Idle EXCEPT !.scan = {}]))
    BY <1>1, <2>1, <2>2
  <2>4. Does(l, Idle)
    BY <1>3, <1>4, <2>3
  <2>5. \E games \in SUBSET Playing : Does(l, Proceed(l, [Idle EXCEPT !.scan = {Spelled(d) : d \in games}]))
    <3>1. {} \in SUBSET Playing /\ {Spelled(d) : d \in {}} = {}
      OBVIOUS
    <3> QED BY <2>3, <3>1
  <2> QED BY <1>5, <1>7, <2>4, <2>5 DEF Tick, QuietTick
<1> QED BY <1>6, <1>7

(* The other actions do not depend on the games or on failures.            *)
LEMMA SameActions ==
  /\ \A c \in Conn, w \in SUBSET Dir : Orderly!SetInstallDirs(c, w) => SetInstallDirs(c, w)
  /\ \A c \in Conn, v \in BOOLEAN : Orderly!SetAutoDetect(c, v) => SetAutoDetect(c, v)
  /\ \A c \in Conn : Orderly!ListTailed(c) => ListTailed(c)
  /\ \A c \in Conn : Orderly!Remove(c) => Remove(c)
  /\ \A c \in Conn : Orderly!Spawn(c) => Spawn(c)
  /\ \A l \in Loop : Orderly!LookUp(l) => LookUp(l)
  /\ \A a \in Actor : Orderly!CheckTailed(a) => CheckTailed(a)
  /\ \A a \in Actor : Orderly!StartTailing(a) => StartTailing(a)
  /\ \A a \in Actor : ~Orderly!StartFails(a) /\ ~Orderly!SaveFails(a)
  /\ \A a \in Actor : Orderly!PersistDirs(a) => PersistDirs(a)
  /\ \A a \in Actor : Orderly!PersistAuto(a) => PersistAuto(a)
  /\ \A a \in Actor : Orderly!Save(a) => Save(a)
  /\ \A a \in Actor : Orderly!ReadSetting(a) => ReadSetting(a)
  /\ \A a \in Actor : Orderly!Publish(a) => Publish(a)
  /\ Orderly!PipelineEnds => PipelineEnds
  /\ Orderly!Crash => Crash
<1> USE DEF Orderly!registry, registry, Orderly!outside, outside, Orderly!Does, Does,
            Orderly!Idle, Idle, Orderly!NotRunning, NotRunning
<1>1. \A a, r : Orderly!Proceed(a, r) = Proceed(a, r)
  BY DEF Orderly!Proceed, Proceed, Orderly!AfterAdding, AfterAdding
<1>2. Orderly!Tailed = Tailed
  BY DEF Orderly!Tailed, Tailed
<1>3. \A c \in Conn, w \in SUBSET Dir : Orderly!SetInstallDirs(c, w) => SetInstallDirs(c, w)
  BY DEF Orderly!SetInstallDirs, SetInstallDirs
<1>4. \A c \in Conn, v \in BOOLEAN : Orderly!SetAutoDetect(c, v) => SetAutoDetect(c, v)
  BY DEF Orderly!SetAutoDetect, SetAutoDetect, Orderly!StartsLoop, StartsLoop
<1>5. \A c \in Conn : Orderly!ListTailed(c) => ListTailed(c)
  BY <1>1, <1>2 DEF Orderly!ListTailed, ListTailed
<1>6. \A c \in Conn : Orderly!Remove(c) => Remove(c)
  BY <1>1 DEF Orderly!Remove, Remove, Orderly!Removed, Removed
<1>7. \A c \in Conn : Orderly!Spawn(c) => Spawn(c)
  BY DEF Orderly!Spawn, Spawn, Orderly!Loop, Loop, Orderly!Running, Running
<1>8. \A l \in Loop : Orderly!LookUp(l) => LookUp(l)
  BY <1>1, <1>2 DEF Orderly!LookUp, LookUp, Orderly!Normalize, Normalize
<1>9. \A a \in Actor : Orderly!CheckTailed(a) => CheckTailed(a)
  BY <1>1 DEF Orderly!CheckTailed, CheckTailed, Orderly!IsTailed, IsTailed
<1>10. \A a \in Actor : Orderly!StartTailing(a) => StartTailing(a)
  BY <1>1 DEF Orderly!StartTailing, StartTailing, Orderly!Added, Added
<1>11. \A a \in Actor : ~Orderly!StartFails(a) /\ ~Orderly!SaveFails(a)
  BY DEF Orderly!StartFails, Orderly!SaveFails
<1>12. \A a \in Actor : Orderly!PersistDirs(a) => PersistDirs(a)
  BY <1>2 DEF Orderly!PersistDirs, PersistDirs
<1>13. \A a \in Actor : Orderly!PersistAuto(a) => PersistAuto(a)
  BY DEF Orderly!PersistAuto, PersistAuto
<1>14. \A a \in Actor : Orderly!Save(a) => Save(a)
  BY DEF Orderly!Save, Save, Orderly!FileDirs, FileDirs, Orderly!Setting, Setting
<1>15. \A a \in Actor : Orderly!ReadSetting(a) => ReadSetting(a)
  BY <1>2 DEF Orderly!ReadSetting, ReadSetting
<1>16. \A a \in Actor : Orderly!Publish(a) => Publish(a)
  BY DEF Orderly!Publish, Publish, Orderly!Snapshot, Snapshot
<1>17. Orderly!PipelineEnds => PipelineEnds
  BY DEF Orderly!PipelineEnds, PipelineEnds
<1>18. Orderly!Crash => Crash
  BY DEF Orderly!Crash, Crash, Orderly!Actor, Actor, Orderly!Loop, Loop
<1> QED BY <1>3, <1>4, <1>5, <1>6, <1>7, <1>8, <1>9, <1>10, <1>11, <1>12, <1>13, <1>14, <1>15,
           <1>16, <1>17, <1>18

(* What a step of an orderly behaviour can be.                             *)
LEMMA OrderlyIsQuiet == Orderly!Next => Next /\ QuietNext
<1> SUFFICES ASSUME Orderly!Next PROVE Next /\ QuietNext
  OBVIOUS
<1>1. Orderly!Loop = Loop /\ Orderly!Actor = Actor
  BY DEF Orderly!Loop, Loop, Orderly!Actor, Actor
<1>2. ASSUME NEW c \in Conn,
             (\E w \in SUBSET Dir : Orderly!SetInstallDirs(c, w))
               \/ (\E v \in BOOLEAN : Orderly!SetAutoDetect(c, v)) \/ Orderly!ConnStep(c)
      PROVE  Next /\ QuietNext
  BY <1>2, SameActions DEF Next, QuietNext, ConnWorks, ConnStep, Orderly!ConnStep
<1>3. ASSUME NEW l \in Loop, Orderly!LoopStep(l)
      PROVE  Next /\ QuietNext
  BY <1>3, QuietScan, SameActions DEF Next, QuietNext, LoopStep, Orderly!LoopStep
<1>4. ASSUME NEW a \in Actor, Orderly!Step(a)
      PROVE  Next /\ QuietNext
  BY <1>4, SameActions DEF Next, QuietNext, ActorWorks, Step, Orderly!Step
<1>5. ASSUME Orderly!PipelineEnds \/ Orderly!Crash
      PROVE  Next /\ QuietNext
  BY <1>5, SameActions DEF Next, QuietNext
<1> QED BY <1>1, <1>2, <1>3, <1>4, <1>5 DEF Orderly!Next

(* Of at most one element there are no two.                                *)
LEMMA OneElement ==
  ASSUME NEW S, IsFiniteSet(S), Cardinality(S) <= 1, NEW x \in S, NEW y \in S
  PROVE  x = y
<1> SUFFICES ASSUME x # y PROVE FALSE
  OBVIOUS
<1>1. IsFiniteSet(S \ {x}) /\ Cardinality(S \ {x}) = Cardinality(S) - 1
  BY FS_RemoveElement
<1>2. Cardinality(S) \in Nat /\ Cardinality(S \ {x}) \in Nat
  BY <1>1, FS_CardinalityType
<1>3. Cardinality(S \ {x}) = 0
  BY <1>1, <1>2
<1>4. S \ {x} = {}
  BY <1>1, <1>3, FS_EmptySet
<1> QED BY <1>4

(* A step of goroutine c leaves the other goroutines as they are.          *)
LEMMA OneAtATimeAfter ==
  ASSUME IInv, OInv, NEW c \in Conn, NEW r \in Work, Does(c, r),
         Cardinality({b \in Conn : act'[b].pc # "idle"}) <= 1
  PROVE  /\ OneRequest' /\ act'[c] = r
         /\ \A b \in Conn \ {c} : act'[b] = act[b]
         /\ r.pc # "idle" => \A b \in Conn \ {c} : act'[b].pc = "idle"
         /\ act[c].pc # "idle" => \A b \in Conn \ {c} : act'[b].pc = "idle"
         /\ LoopsScanNothing'
<1> DEFINE S == {b \in Conn : act'[b].pc # "idle"}
<1>1. /\ act'[c] = r /\ \A b \in Actor \ {c} : act'[b] = act[b]
      /\ c \notin Loop /\ Conn \subseteq Actor /\ Loop \subseteq Actor
  BY DoesType, Disjoint DEF IInv, TypeOK, Actor
<1>2. IsFiniteSet(S)
  <2>1. \A b, d \in S \ {c} : b = d
    BY <1>1 DEF OInv, OneRequest
  <2>2. PICK b : S \subseteq {b, c}
    BY <2>1
  <2>3. IsFiniteSet({b, c})
    <3>1. IsFiniteSet({b}) /\ {b} \cup {c} = {b, c}
      BY FS_Singleton
    <3> QED BY <3>1, FS_AddElement
  <2> QED BY <2>2, <2>3, FS_Subset
<1>3. \A b, d \in S : b = d
  BY <1>2, OneElement
<1>4. OneRequest'
  BY <1>3 DEF OneRequest
<1>5. r.pc # "idle" => \A b \in Conn \ {c} : act'[b].pc = "idle"
  BY <1>1, <1>3
<1>6. act[c].pc # "idle" => \A b \in Conn \ {c} : act'[b].pc = "idle"
  BY <1>1 DEF OInv, OneRequest
<1>7. LoopsScanNothing'
  BY <1>1 DEF OInv, LoopsScanNothing
<1> QED BY <1>1, <1>4, <1>5, <1>6, <1>7

(* What is left of a request that does not fail.                           *)
LEMMA ProceedOn ==
  ASSUME NEW c \in Conn, NEW r \in Work, r.failed = FALSE
  PROVE  /\ Proceed(c, r) \in Work /\ Proceed(c, r).failed = FALSE
         /\ Proceed(c, r).pc \in {"remove", "add", "scan", "persist"}
<1> DEFINE next == IF r.remove # {} THEN "remove"
                   ELSE IF r.add # {} THEN "add"
                   ELSE IF r.scan # {} THEN "scan"
                   ELSE AfterAdding(c, r)
<1>1. next \in {"remove", "add", "scan", "persist"}
  BY DEF AfterAdding
<1>2. Proceed(c, r) = [r EXCEPT !.pc = next]
  BY <1>1 DEF Proceed
<1> HIDE DEF next
<1>3. [r EXCEPT !.pc = next].pc = next /\ [r EXCEPT !.pc = next].failed = r.failed
      /\ [r EXCEPT !.pc = next] \in Work
  BY <1>1 DEF Work, PC
<1> QED BY <1>1, <1>2, <1>3

(* Steps of a request before it reads the settings: they may change what   *)
(* is in effect.                                                           *)
LEMMA EarlyStep ==
  ASSUME IInv, OInv, NEW c \in Conn, NEW r \in Work, Does(c, r),
         Cardinality({b \in Conn : act'[b].pc # "idle"}) <= 1,
         r.failed = FALSE, r.pc \in {"list", "remove", "add", "scan", "start", "spawn", "persist"},
         r.pc = "start" => \A d \in r.dirs : tailers'[d] = NoTailer,
         ListedPipeline'
  PROVE  OInv'
<1>1. /\ OneRequest' /\ LoopsScanNothing' /\ act'[c] = r
      /\ \A b \in Conn \ {c} : act'[b] = act[b] /\ act'[b].pc = "idle"
  BY OneAtATimeAfter
<1>2. Answered'
  BY <1>1 DEF Answered
<1>3. OnTheWay(act[c])'
  BY <1>1 DEF OnTheWay
<1>4. ASSUME NEW b \in Conn \ {c} PROVE OnTheWay(act[b])'
  BY <1>1 DEF OnTheWay, OInv
<1> QED BY <1>1, <1>2, <1>3, <1>4 DEF OInv

(* Steps that read the settings, write the file and tell the clients.      *)
LEMMA LateStep ==
  ASSUME IInv, OInv, NEW c \in Conn, NEW r \in Work, Does(c, r),
         Cardinality({b \in Conn : act'[b].pc # "idle"}) <= 1,
         act[c].pc # "idle", UNCHANGED <<tailers, live, autoDetect>>,
         r.failed = FALSE, r.pc \in {"auto", "save", "publish", "idle"},
         r.pc \in {"auto", "save"} => r.dirs = Tailed,
         r.pc = "save" => r.auto = autoDetect,
         r.pc = "publish" =>
           /\ file' = Current
           /\ "install_dirs" \notin r.unread => r.dirs = Tailed
           /\ "auto_detect_install_dir" \notin r.unread => r.auto = autoDetect,
         r.pc = "idle" => file' = Current /\ told' = Current
  PROVE  OInv'
<1>1. /\ OneRequest' /\ LoopsScanNothing' /\ act'[c] = r
      /\ \A b \in Conn \ {c} : act'[b] = act[b] /\ act'[b].pc = "idle"
  BY OneAtATimeAfter
<1>2. Tailed' = Tailed /\ Current' = Current
  BY DEF Tailed, Current
<1>3. Answered'
  BY <1>1, <1>2 DEF Answered
<1>4. OnTheWay(act[c])'
  BY <1>1, <1>2 DEF OnTheWay
<1>5. ASSUME NEW b \in Conn \ {c} PROVE OnTheWay(act[b])'
  BY <1>1 DEF OnTheWay, OInv
<1>6. ListedPipeline'
  BY DEF OInv, ListedPipeline
<1> QED BY <1>1, <1>3, <1>4, <1>5, <1>6 DEF OInv

(* Each step of a request keeps the invariant.                             *)
LEMMA ConnOInv ==
  ASSUME IInv, OInv, NEW c \in Conn, ConnWorks(c) \/ ActorWorks(c),
         Cardinality({b \in Conn : act'[b].pc # "idle"}) <= 1
  PROVE  OInv'
<1> USE DEF Work, PC
<1>0. /\ act[c] \in Work /\ c \in Actor /\ Idle \in Work /\ Idle.failed = FALSE /\ Idle.pc = "idle"
      /\ ListedPipeline /\ OnTheWay(act[c]) /\ autoDetect \in BOOLEAN /\ Tailed \in SUBSET Dir
      /\ tailers \in [Dir -> Pipeline \cup {NoTailer}] /\ live \subseteq Pipeline
  BY DEF IInv, TypeOK, OInv, Actor, Idle, Setting, Tailed
<1>1. ASSUME NEW want \in SUBSET Dir, SetInstallDirs(c, want) PROVE OInv'
  <2> DEFINE r == [Idle EXCEPT !.pc = "list", !.add = want]
  <2>1. r \in Work /\ Does(c, r) /\ r.pc = "list" /\ r.failed = FALSE
    BY <1>0, <1>1 DEF SetInstallDirs
  <2>2. ListedPipeline'
    BY <1>0, <1>1 DEF SetInstallDirs, ListedPipeline, registry
  <2> HIDE DEF r
  <2> QED BY <2>1, <2>2, EarlyStep
<1>2. ASSUME NEW v \in BOOLEAN, SetAutoDetect(c, v) PROVE OInv'
  <2> DEFINE r == [Idle EXCEPT !.pc = IF StartsLoop(v) THEN "spawn" ELSE "persist"]
  <2>1. r \in Work /\ Does(c, r) /\ r.pc \in {"spawn", "persist"} /\ r.failed = FALSE
    BY <1>0, <1>2 DEF SetAutoDetect
  <2>2. ListedPipeline'
    BY <1>0, <1>2 DEF SetAutoDetect, ListedPipeline, registry
  <2> HIDE DEF r
  <2> QED BY <2>1, <2>2, EarlyStep
<1>3. ASSUME ListTailed(c) PROVE OInv'
  <2> DEFINE q == [act[c] EXCEPT !.remove = Tailed \ act[c].add]
             r == Proceed(c, q)
  <2>1. q \in Work /\ q.failed = FALSE
    BY <1>0 DEF OnTheWay
  <2>2. Does(c, r)
    BY <1>3 DEF ListTailed
  <2> HIDE DEF q
  <2>3. r \in Work /\ r.failed = FALSE /\ r.pc \in {"remove", "add", "scan", "persist"}
    BY <2>1, ProceedOn
  <2>4. ListedPipeline'
    BY <1>0, <1>3 DEF ListTailed, ListedPipeline, registry
  <2> HIDE DEF r
  <2> QED BY <2>2, <2>3, <2>4, EarlyStep
<1>4. ASSUME Remove(c) PROVE OInv'
  <2>1. PICK d \in act[c].remove :
          /\ IF tailers[d] = NoTailer
               THEN UNCHANGED <<tailers, live, dying>>
               ELSE /\ live' = live \ {tailers[d]}
                    /\ dying' = dying \cup ({tailers[d]} \cap live)
                    /\ tailers' = Removed(d)
          /\ Does(c, Proceed(c, [act[c] EXCEPT !.remove = @ \ {d}]))
    BY <1>4 DEF Remove
  <2> DEFINE q == [act[c] EXCEPT !.remove = @ \ {d}]
             r == Proceed(c, q)
  <2>2. q \in Work /\ q.failed = FALSE /\ d \in Dir
    BY <1>0 DEF OnTheWay
  <2>3. Does(c, r)
    BY <2>1
  <2> HIDE DEF q
  <2>4. r \in Work /\ r.failed = FALSE /\ r.pc \in {"remove", "add", "scan", "persist"}
    BY <2>2, ProceedOn
  <2>5. ListedPipeline'
    <3>1. CASE tailers[d] = NoTailer
      BY <1>0, <2>1, <3>1 DEF ListedPipeline
    <3>2. CASE tailers[d] # NoTailer
      <4>1. live' = live \ {tailers[d]} /\ tailers' = [tailers EXCEPT ![d] = NoTailer]
        BY <2>1, <3>2 DEF Removed
      <4>2. \A p \in live' : p \in live /\ p[1] # d /\ p[1] \in Dir
        BY <1>0, <4>1 DEF ListedPipeline, Pipeline
      <4> QED BY <1>0, <4>1, <4>2 DEF ListedPipeline
    <3> QED BY <3>1, <3>2
  <2> HIDE DEF r
  <2> QED BY <2>3, <2>4, <2>5, EarlyStep
<1>5. ASSUME Spawn(c) PROVE OInv'
  <2>1. PICK l \in Loop \ {0} : act' = [act EXCEPT ![c].pc = "persist", ![l] = Idle]
    BY <1>5 DEF Spawn
  <2>2. /\ act[c].pc = "spawn" /\ UNCHANGED <<tailers, live, autoDetect, file, told>>
    BY <1>5 DEF Spawn, registry, outside
  <2>3. /\ act'[c] = [act[c] EXCEPT !.pc = "persist"]
        /\ \A b \in Conn \ {c} : act'[b] = act[b] /\ act[b].pc = "idle"
        /\ \A k \in Loop : act'[k] \in {act[k], Idle}
    BY <2>1, <2>2, Disjoint DEF IInv, TypeOK, OInv, OneRequest, Actor
  <2>4. act'[c].pc = "persist" /\ act'[c].failed = FALSE
    BY <1>0, <2>3 DEF OnTheWay
  <2>5. OneRequest' /\ LoopsScanNothing' /\ Answered'
    BY <1>0, <2>3, <2>4 DEF OneRequest, LoopsScanNothing, Answered, OInv
  <2>6. \A b \in Conn : OnTheWay(act[b])'
    BY <2>3, <2>4 DEF OInv, OnTheWay
  <2>7. ListedPipeline'
    BY <1>0, <2>2 DEF ListedPipeline
  <2> QED BY <2>5, <2>6, <2>7 DEF OInv
<1>6. ASSUME CheckTailed(c) PROVE OInv'
  <2>1. PICK d \in act[c].add :
          Does(c, IF IsTailed(d) THEN Proceed(c, [act[c] EXCEPT !.add = @ \ {d}, !.found = TRUE])
                  ELSE [act[c] EXCEPT !.pc = "start", !.dirs = {d}])
    BY <1>6 DEF CheckTailed
  <2> DEFINE q == [act[c] EXCEPT !.add = @ \ {d}, !.found = TRUE]
             s == [act[c] EXCEPT !.pc = "start", !.dirs = {d}]
  <2>2. /\ q \in Work /\ q.failed = FALSE
        /\ s \in Work /\ s.failed = FALSE /\ s.pc = "start" /\ s.dirs = {d}
    BY <1>0 DEF OnTheWay
  <2>3. UNCHANGED <<tailers, live>> /\ ListedPipeline'
    BY <1>0, <1>6 DEF CheckTailed, ListedPipeline, registry
  <2>4. CASE IsTailed(d)
    <3>1. Does(c, Proceed(c, q))
      BY <2>1, <2>4
    <3> HIDE DEF q
    <3>2. /\ Proceed(c, q) \in Work /\ Proceed(c, q).failed = FALSE
          /\ Proceed(c, q).pc \in {"remove", "add", "scan", "persist"}
      BY <2>2, ProceedOn
    <3> QED BY <2>3, <3>1, <3>2, EarlyStep
  <2>5. CASE ~IsTailed(d)
    <3>1. Does(c, s) /\ tailers[d] = NoTailer
      BY <2>1, <2>5 DEF IsTailed
    <3> HIDE DEF s
    <3> QED BY <2>2, <2>3, <3>1, EarlyStep
  <2> QED BY <2>4, <2>5
<1>7. ASSUME StartTailing(c) PROVE OInv'
  <2>1. PICK d \in act[c].dirs :
          /\ live' = live \cup {<<d, started + 1>>}
          /\ tailers' = [tailers EXCEPT ![d] = <<d, started + 1>>]
          /\ Does(c, Proceed(c, [Added(c, d) EXCEPT !.found = TRUE]))
    BY <1>7 DEF StartTailing
  <2> DEFINE q == [Added(c, d) EXCEPT !.found = TRUE]
             r == Proceed(c, q)
  <2>2. q \in Work /\ q.failed = FALSE /\ d \in Dir
    BY <1>0 DEF OnTheWay, Added
  <2>3. Does(c, r)
    BY <2>1
  <2> HIDE DEF q
  <2>4. r \in Work /\ r.failed = FALSE /\ r.pc \in {"remove", "add", "scan", "persist"}
    BY <2>2, ProceedOn
  <2>5. ListedPipeline'
    <3>1. tailers[d] = NoTailer
      BY <1>0, <1>7, <2>1 DEF OnTheWay, StartTailing
    <3>2. \A p \in live : p[1] \in Dir /\ p[1] # d
      BY <1>0, <3>1, RegistryAssumption DEF ListedPipeline, Pipeline
    <3> QED BY <1>0, <2>1, <2>2, <3>2 DEF ListedPipeline
  <2> HIDE DEF r
  <2> QED BY <2>3, <2>4, <2>5, EarlyStep
<1>8. ASSUME PersistDirs(c) PROVE OInv'
  <2> DEFINE r == [act[c] EXCEPT !.pc = "auto", !.dirs = Tailed]
  <2>1. /\ r \in Work /\ r.failed = FALSE /\ r.pc = "auto" /\ r.dirs = Tailed
    BY <1>0 DEF OnTheWay
  <2>2. Does(c, r) /\ act[c].pc # "idle" /\ UNCHANGED <<tailers, live, autoDetect>>
    BY <1>8 DEF PersistDirs, registry
  <2> HIDE DEF r
  <2> QED BY <2>1, <2>2, LateStep
<1>9. ASSUME PersistAuto(c) PROVE OInv'
  <2> DEFINE r == [act[c] EXCEPT !.pc = "save", !.auto = autoDetect]
  <2>1. /\ act[c].pc = "auto" /\ r \in Work /\ r.failed = FALSE /\ r.pc = "save"
        /\ r.dirs = Tailed /\ r.auto = autoDetect
    BY <1>0, <1>9 DEF OnTheWay, PersistAuto
  <2>2. Does(c, r) /\ UNCHANGED <<tailers, live, autoDetect>>
    BY <1>9 DEF PersistAuto, registry
  <2> HIDE DEF r
  <2> QED BY <2>1, <2>2, LateStep
<1>10. ASSUME Save(c) PROVE OInv'
  <2> DEFINE r == [act[c] EXCEPT !.pc = "publish", !.unread = Setting]
  <2>1. /\ act[c].pc = "save" /\ r \in Work /\ r.failed = FALSE /\ r.pc = "publish"
        /\ r.unread = Setting
    BY <1>0, <1>10 DEF OnTheWay, Save
  <2>2. file' = Current
    BY <1>0, <1>10 DEF Save, FileDirs, Current, OnTheWay
  <2>3. Does(c, r) /\ UNCHANGED <<tailers, live, autoDetect>>
    BY <1>10 DEF Save, registry
  <2> HIDE DEF r
  <2> QED BY <2>1, <2>2, <2>3, LateStep DEF Setting
<1>11. ASSUME ReadSetting(c) PROVE OInv'
  <2>1. PICK k \in act[c].unread :
          Does(c, IF k = "install_dirs"
                    THEN [act[c] EXCEPT !.unread = @ \ {k}, !.dirs = Tailed]
                    ELSE [act[c] EXCEPT !.unread = @ \ {k}, !.auto = autoDetect])
    BY <1>11 DEF ReadSetting
  <2> DEFINE q == [act[c] EXCEPT !.unread = @ \ {k}, !.dirs = Tailed]
             s == [act[c] EXCEPT !.unread = @ \ {k}, !.auto = autoDetect]
  <2>2. /\ q \in Work /\ q.failed = FALSE /\ q.pc = act[c].pc /\ q.dirs = Tailed
        /\ q.unread = act[c].unread \ {k} /\ q.auto = act[c].auto
        /\ s \in Work /\ s.failed = FALSE /\ s.pc = act[c].pc /\ s.auto = autoDetect
        /\ s.unread = act[c].unread \ {k} /\ s.dirs = act[c].dirs
    BY <1>0 DEF OnTheWay
  <2>3. /\ act[c].pc = "publish" /\ UNCHANGED <<tailers, live, autoDetect, file, told>>
        /\ k \in {"install_dirs", "auto_detect_install_dir"}
    BY <1>0, <1>11 DEF ReadSetting, registry, outside, Setting
  <2>4. /\ file' = Current
        /\ "install_dirs" \notin act[c].unread => act[c].dirs = Tailed
        /\ "auto_detect_install_dir" \notin act[c].unread => act[c].auto = autoDetect
    BY <1>0, <2>3 DEF OnTheWay
  <2>5. CASE k = "install_dirs"
    <3>1. Does(c, q)
      BY <2>1, <2>5
    <3> HIDE DEF q, s
    <3>2. "auto_detect_install_dir" \notin q.unread => q.auto = autoDetect
      BY <2>2, <2>4, <2>5
    <3> QED BY <2>2, <2>3, <2>4, <3>1, <3>2, LateStep
  <2>6. CASE k = "auto_detect_install_dir"
    <3>1. Does(c, s)
      BY <2>1, <2>6
    <3> HIDE DEF q, s
    <3>2. "install_dirs" \notin s.unread => s.dirs = Tailed
      BY <2>2, <2>4, <2>6
    <3> QED BY <2>2, <2>3, <2>4, <3>1, <3>2, LateStep
  <2> QED BY <2>3, <2>5, <2>6
<1>12. ASSUME Publish(c) PROVE OInv'
  <2>1. /\ act[c].pc = "publish" /\ Does(c, Idle) /\ UNCHANGED <<tailers, live, autoDetect, file>>
        /\ act[c].unread = {} /\ told' = [dirs |-> act[c].dirs, auto |-> act[c].auto]
    BY <1>12 DEF Publish, registry, Snapshot
  <2>2. file' = Current /\ told' = Current
    BY <1>0, <2>1 DEF OnTheWay, Current
  <2> QED BY <1>0, <2>1, <2>2, LateStep
<1> QED BY <1>1, <1>2, <1>3, <1>4, <1>5, <1>6, <1>7, <1>8, <1>9, <1>10, <1>11, <1>12
        DEF ConnWorks, ConnStep, ActorWorks

(* So do the loops, the pipelines' ends and a restart.                     *)
LEMMA QuietOInv ==
  ASSUME IInv, OInv, QuietNext, Cardinality({b \in Conn : act'[b].pc # "idle"}) <= 1
  PROVE  OInv'
<1>0. act \in [Actor -> Work] /\ Conn \subseteq Actor /\ Loop \subseteq Actor /\ Idle.pc = "idle"
      /\ NotRunning.pc = "none" /\ Idle \in Work /\ NotRunning \in Work
  BY DEF IInv, TypeOK, Actor, Idle, NotRunning, Work, PC, Setting
<1>1. ASSUME NEW c \in Conn, ConnWorks(c) PROVE OInv'
  BY <1>1, ConnOInv
<1>2. ASSUME NEW l \in Loop, QuietTick(l) \/ LookUp(l) PROVE OInv'
  <2>1. QuietTick(l)
    BY <1>2 DEF OInv, LoopsScanNothing, LookUp
  <2>2. /\ act'[l].pc \in {"idle", "none"} /\ \A b \in Actor \ {l} : act'[b] = act[b]
        /\ UNCHANGED <<tailers, live, autoDetect, file, told>>
    BY <1>0, <2>1 DEF QuietTick, Does, registry, outside
  <2>3. \A c \in Conn : act'[c] = act[c]
    BY <1>0, <2>2, Disjoint
  <2>4. LoopsScanNothing'
    BY <1>0, <2>2 DEF OInv, LoopsScanNothing
  <2>5. OneRequest' /\ Answered' /\ ListedPipeline'
    BY <2>2, <2>3 DEF OInv, OneRequest, Answered, ListedPipeline, Current, Tailed
  <2>6. \A c \in Conn : OnTheWay(act[c])'
    BY <2>2, <2>3 DEF OInv, OnTheWay, Current, Tailed
  <2> QED BY <2>4, <2>5, <2>6 DEF OInv
<1>3. ASSUME NEW a \in Actor, ActorWorks(a) PROVE OInv'
  <2>1. a \notin Loop
    BY <1>3 DEF OInv, LoopsScanNothing, ActorWorks, CheckTailed, StartTailing, PersistDirs, PersistAuto,
                Save, ReadSetting, Publish
  <2> QED BY <1>3, <2>1, ConnOInv DEF Actor
<1>4. ASSUME PipelineEnds PROVE OInv'
  BY <1>4 DEF PipelineEnds, outside, OInv, LoopsScanNothing, OneRequest, ListedPipeline, Answered, OnTheWay,
              Current, Tailed
<1>5. ASSUME Crash PROVE OInv'
  <2>1. /\ file.dirs \subseteq Dir /\ file.auto \in BOOLEAN /\ file \in Config /\ file' = file
        /\ file = [dirs |-> file.dirs, auto |-> file.auto]
    BY <1>5 DEF IInv, Crash, TypeOK, Config
  <2>2. /\ tailers' = [d \in Dir |-> IF d \in file.dirs THEN <<d, started + 1>> ELSE NoTailer]
        /\ live' = {<<d, started + 1>> : d \in file.dirs}
        /\ autoDetect' = file.auto /\ told' = file
        /\ act' = [a \in Actor |-> IF a \in Conn \/ (a = 0 /\ file.auto) THEN Idle ELSE NotRunning]
    BY <1>5 DEF Crash
  <2>3. \A c \in Conn : act'[c] = Idle
    BY <1>0, <2>2
  <2>4. \A l \in Loop : act'[l] \in {Idle, NotRunning}
    BY <1>0, <2>2
  <2>5. \A d \in Dir : <<d, started + 1>> # NoTailer
    BY RegistryAssumption DEF IInv, TypeOK
  <2>6. Tailed' = file.dirs
    BY <2>1, <2>2, <2>5 DEF Tailed
  <2>7. Current' = file
    BY <2>1, <2>2, <2>6 DEF Current
  <2>8. ListedPipeline'
    BY <2>1, <2>2 DEF ListedPipeline
  <2>9. LoopsScanNothing' /\ OneRequest' /\ Answered'
    BY <1>0, <2>1, <2>2, <2>3, <2>4, <2>7 DEF LoopsScanNothing, OneRequest, Answered
  <2>10. \A c \in Conn : OnTheWay(act[c])'
    BY <2>3 DEF OnTheWay, Idle
  <2> QED BY <2>8, <2>9, <2>10 DEF OInv
<1> QED BY <1>1, <1>2, <1>3, <1>4, <1>5 DEF QuietNext

(* The service starts with what its file says.                             *)
LEMMA InitOInv ==
  ASSUME Init
  PROVE  OInv
<1>1. PICK dirs \in SUBSET Dir, on \in BOOLEAN :
        /\ tailers = [d \in Dir |-> IF d \in dirs THEN <<d, 0>> ELSE NoTailer]
        /\ live = {<<d, 0>> : d \in dirs}
        /\ autoDetect = on
        /\ act = [a \in Actor |-> IF a \in Conn \/ (a = 0 /\ on) THEN Idle ELSE NotRunning]
        /\ file = [dirs |-> dirs, auto |-> on]
        /\ told = file
  BY DEF Init
<1>2. \A c \in Conn : act[c] = Idle
  BY <1>1 DEF Actor
<1>3. \A l \in Loop : act[l] \in {Idle, NotRunning}
  BY <1>1 DEF Actor
<1>4. Idle.pc = "idle" /\ NotRunning.pc = "none" /\ Idle.failed = FALSE
  BY DEF Idle, NotRunning
<1>5. \A d \in Dir : <<d, 0>> # NoTailer
  BY RegistryAssumption
<1>6. Current = file
  BY <1>1, <1>5 DEF Current, Tailed
<1>7. ListedPipeline
  BY <1>1 DEF ListedPipeline
<1>8. LoopsScanNothing /\ OneRequest /\ Answered
  BY <1>1, <1>2, <1>3, <1>4, <1>6 DEF LoopsScanNothing, OneRequest, Answered
<1>9. \A c \in Conn : OnTheWay(act[c])
  BY <1>2, <1>4 DEF OnTheWay
<1> QED BY <1>7, <1>8, <1>9 DEF OInv

(* All three kinds of behaviour keep their invariant.                      *)
LEMMA ServiceInvariance == MCSpec => []ServiceInv
<1>1. MCInit => ServiceInv
  BY InitIInv, InitOInv DEF MCInit, ServiceInv
<1>2. ServiceInv /\ [MCNext]_<<vars, electionVars, kind>> => ServiceInv'
  <2> SUFFICES ASSUME ServiceInv, [MCNext]_<<vars, electionVars, kind>> PROVE ServiceInv'
    OBVIOUS
  <2>1. kind' = kind
    BY DEF MCNext
  <2>2. CASE kind = "orderly" /\ OneAtATime
    <3>1. Next /\ QuietNext
      BY <2>2, OrderlyIsQuiet DEF OneAtATime
    <3>2. Cardinality({c \in Conn : act'[c].pc # "idle"}) <= 1
      BY <2>2 DEF OneAtATime
    <3>3. IInv'
      BY <3>1, NextIInv DEF ServiceInv
    <3> QED BY <2>1, <2>2, <3>1, <3>2, <3>3, QuietOInv DEF ServiceInv
  <2>3. CASE UNCHANGED vars
    <3>1. IInv'
      BY <2>3, NextIInv DEF ServiceInv
    <3>2. OInv => OInv'
      BY <2>3 DEF vars, OInv, LoopsScanNothing, OneRequest, ListedPipeline, Answered, OnTheWay,
                  Current, Tailed
    <3> QED BY <2>1, <3>1, <3>2 DEF ServiceInv
  <2>4. CASE kind = "concurrent" /\ OneDirectory
    <3>1. IInv'
      BY <2>4, NextIInv DEF OneDirectory, ServiceInv
    <3> QED BY <2>1, <2>4, <3>1 DEF ServiceInv
  <2> QED BY <2>2, <2>3, <2>4 DEF MCNext
<1> QED BY <1>1, <1>2, PTL DEF MCSpec

(* Requests handled one after the other, none of which fails, never leave  *)
(* a directory with two pipelines, nor with one removeInstall cannot find, *)
(* for any number of connections, directories, requests and restarts.      *)
THEOREM OrderlyOneTailer == MCSpec => []OrderlyOneTailerPerDir
<1>1. ServiceInv => OrderlyOneTailerPerDir
  BY DEF ServiceInv, OInv, ListedPipeline, OrderlyOneTailerPerDir, OneTailerPerDir
<1> QED BY <1>1, ServiceInvariance, PTL

(* And once they are answered, the file and the last snapshot the clients  *)
(* got are what is in effect (persistConfig, publishConfig).               *)
THEOREM OrderlyKnown == MCSpec => []OrderlySettledIsKnown
<1>1. ServiceInv => OrderlySettledIsKnown
  <2> SUFFICES ASSUME ServiceInv, kind = "orderly", Settled PROVE file = Current /\ told = Current
    BY DEF OrderlySettledIsKnown, SettledIsSaved, SettledIsTold
  <2>1. \A c \in Conn : act[c].pc = "idle" \/ act[c].pc = "none"
    BY DEF Settled, Actor
  <2>2. \A c \in Conn : act[c].pc # "none"
    BY DEF ServiceInv, OInv, OnTheWay
  <2> QED BY <2>1, <2>2 DEF ServiceInv, OInv, Answered
<1> QED BY <1>1, ServiceInvariance, PTL

(***************************************************************************)
(* The election of the process that serves, for any number of copies,      *)
(* versions and attempts to bind the port: without a mishap somebody       *)
(* serves in the end.                                                      *)
(*                                                                         *)
(* What makes it inductive: as soon as a copy has been asked to leave, an  *)
(* heir is under way that will have the port, or has it and may keep it.   *)
(***************************************************************************)

(* The part of TypeElection the argument needs.                            *)
Fields ==
  /\ pc \in [Copy -> Stage]
  /\ peer \in [Copy -> Copy \cup {NoCopy}]
  /\ port \in Copy \cup {NoCopy}
  /\ asked \subseteq Copy
  /\ mishap \in BOOLEAN

Heir(c) ==
  \/ pc[c] \in {"wait", "bind", "open"}
  \/ pc[c] = "serve" /\ c \notin asked

(* Who listens, and whom a copy talks to.                                  *)
PortHeld == \A c \in Copy : pc[c] \in {"open", "serve", "stop"} <=> port = c
PeerIsCopy == \A c \in Copy : pc[c] = "hello" => peer[c] \in Copy

(* Only copies that have served are asked to leave.                        *)
AskedServed == \A c \in asked : pc[c] \in {"serve", "stop", "leave", "gone"}

(* Nobody leaves unasked, and nobody is asked but by an heir.              *)
LeavesAsked == \A c \in Copy : pc[c] \in {"stop", "leave"} => c \in asked
Succession == asked # {} => \E c \in Copy : Heir(c)
SomeoneTries ==
  (\E c \in Copy : pc[c] # "off")
    => \E c \in Copy : Heir(c) \/ pc[c] \in {"dial", "hello"}

Inv ==
  /\ Fields /\ PortHeld /\ PeerIsCopy /\ AskedServed
  /\ ~mishap => LeavesAsked /\ Succession /\ SomeoneTries

LEMMA InitInv == InitElection => Inv
BY ElectionAssumption DEF InitElection, Inv, Fields, Stage, PortHeld, PeerIsCopy, AskedServed,
   LeavesAsked, Succession, SomeoneTries

-----------------------------------------------------------------------------
(* A copy that goes from one stage to another changes its own only.        *)
LEMMA GoesOne ==
  ASSUME Fields, NEW c \in Copy, NEW from, NEW to \in Stage, Goes(c, from, to)
  PROVE  /\ pc[c] = from /\ pc'[c] = to /\ pc' \in [Copy -> Stage]
         /\ \A d \in Copy : d # c => pc'[d] = pc[d]
BY DEF Goes, Fields

(* A step of a copy that has not got the port, and that leaves the port    *)
(* and what was asked as they are.                                         *)
LEMMA Approaches ==
  ASSUME Inv, NEW c \in Copy, NEW from, NEW to, Goes(c, from, to),
         from \in {"off", "dial", "hello", "wait"},
         to \in {"dial", "hello", "wait", "bind"},
         from = "wait" => to = "bind",
         peer' \in [Copy -> Copy \cup {NoCopy}],
         \A d \in Copy : d # c => peer'[d] = peer[d],
         to = "hello" => peer'[c] \in Copy,
         port' = port, asked' = asked, mishap' = mishap
  PROVE  Inv'
<1>1. /\ pc[c] = from /\ pc'[c] = to /\ pc' \in [Copy -> Stage]
      /\ \A d \in Copy : d # c => pc'[d] = pc[d]
  BY GoesOne DEF Inv, Stage
<1>2. Fields'
  BY <1>1 DEF Inv, Fields
<1>3. PortHeld' /\ PeerIsCopy' /\ AskedServed'
  BY <1>1 DEF Inv, Fields, PortHeld, PeerIsCopy, AskedServed
<1>4. ASSUME ~mishap PROVE LeavesAsked' /\ Succession' /\ SomeoneTries'
  <2>1. LeavesAsked'
    BY <1>1, <1>4 DEF Inv, LeavesAsked
  <2>2. ASSUME NEW d \in Copy, Heir(d) PROVE Heir(d)'
    BY <1>1, <2>2 DEF Heir
  <2>3. Succession'
    BY <1>4, <2>2 DEF Inv, Succession
  <2>4. Heir(c)' \/ pc'[c] \in {"dial", "hello"}
    BY <1>1 DEF Heir
  <2> QED
    BY <2>1, <2>3, <2>4 DEF SomeoneTries
<1> QED
  BY <1>2, <1>3, <1>4 DEF Inv

(* A copy that gives way has a better one, or its heir, before it.         *)
LEMMA Negotiates == ASSUME Inv, NEW c \in Copy, negotiate(c) PROVE Inv'
<1>1. CASE Better(c, peer[c]) /\ Goes(c, "hello", "wait") /\ asked' = asked \cup {peer[c]}
  <2>1. /\ pc[c] = "hello" /\ pc'[c] = "wait" /\ pc' \in [Copy -> Stage]
        /\ \A d \in Copy : d # c => pc'[d] = pc[d]
    BY <1>1, GoesOne DEF Inv, Stage
  <2>2. peer[c] \in Copy /\ pc[peer[c]] \in Alive
    BY <2>1 DEF negotiate, Inv, PeerIsCopy
  <2>3. Fields' /\ PortHeld' /\ PeerIsCopy'
    BY <1>1, <2>1, <2>2 DEF negotiate, Inv, Fields, PortHeld, PeerIsCopy
  <2>4. AskedServed'
    BY <1>1, <2>1, <2>2 DEF Inv, Fields, AskedServed, Alive
  <2>5. Heir(c)'
    BY <2>1 DEF Heir
  <2>6. ~mishap => LeavesAsked'
    BY <1>1, <2>1 DEF Inv, LeavesAsked
  <2> QED
    BY <2>3, <2>4, <2>5, <2>6 DEF negotiate, Inv, Succession, SomeoneTries
<1>2. CASE ~Better(c, peer[c]) /\ Goes(c, "hello", "gone") /\ UNCHANGED asked
  <2>1. /\ pc[c] = "hello" /\ pc'[c] = "gone" /\ pc' \in [Copy -> Stage]
        /\ \A d \in Copy : d # c => pc'[d] = pc[d]
    BY <1>2, GoesOne DEF Inv, Stage
  <2>2. Fields' /\ PortHeld' /\ PeerIsCopy' /\ AskedServed'
    BY <1>2, <2>1 DEF negotiate, Inv, Fields, PortHeld, PeerIsCopy, AskedServed
  <2>3. ASSUME ~mishap PROVE LeavesAsked' /\ Succession' /\ SomeoneTries'
    <3>1. LeavesAsked'
      BY <1>2, <2>1, <2>3 DEF Inv, LeavesAsked
    <3>2. ASSUME NEW d \in Copy, Heir(d) PROVE Heir(d)'
      BY <1>2, <2>1, <3>2 DEF Heir
    <3>3. Succession'
      BY <1>2, <2>3, <3>2 DEF Inv, Succession
    <3>4. PICK d \in Copy : pc[d] \in Alive
      BY <2>1 DEF negotiate, Inv, PeerIsCopy
    <3>5. \E e \in Copy : Heir(e)
      BY <2>3, <3>4 DEF Alive, Heir, Inv, LeavesAsked, Succession
    <3>6. \E e \in Copy : Heir(e)'
      BY <3>2, <3>5
    <3> QED
      BY <3>1, <3>3, <3>6 DEF SomeoneTries
  <2> QED
    BY <2>2, <2>3 DEF negotiate, Inv
<1> QED
  BY <1>1, <1>2 DEF negotiate

(* The port is taken, or the last attempt fails: then its holder, which    *)
(* nobody has asked to leave, serves or is about to.                       *)
LEMMA Binds == ASSUME Inv, NEW c \in Copy, Bind(c) PROVE Inv'
<1>1. /\ pc[c] = "bind" /\ pc'[c] = "open" /\ pc' \in [Copy -> Stage]
      /\ \A d \in Copy : d # c => pc'[d] = pc[d]
  BY GoesOne DEF Inv, Stage, Bind
<1>2. Fields' /\ PeerIsCopy' /\ AskedServed'
  BY <1>1 DEF Bind, Inv, Fields, PeerIsCopy, AskedServed
<1>3. PortHeld'
  BY <1>1, ElectionAssumption DEF Bind, Inv, PortHeld
<1>4. Heir(c)'
  BY <1>1 DEF Heir
<1>5. ~mishap => LeavesAsked'
  BY <1>1 DEF Bind, Inv, LeavesAsked
<1> QED
  BY <1>2, <1>3, <1>4, <1>5 DEF Bind, Inv, Succession, SomeoneTries

LEMMA FailsToBind == ASSUME Inv, NEW c \in Copy, BindFails(c) PROVE Inv'
<1>1. PICK to \in {"gone", "bind"} :
        /\ Goes(c, "bind", to)
        /\ to = "gone" => tries[c] = 1
  <2>1. CASE tries[c] = 1
    BY <2>1 DEF BindFails
  <2>2. CASE tries[c] # 1
    BY <2>2 DEF BindFails
  <2> QED
    BY <2>1, <2>2
<1>2. /\ pc[c] = "bind" /\ pc'[c] = to /\ pc' \in [Copy -> Stage]
      /\ \A d \in Copy : d # c => pc'[d] = pc[d]
  BY <1>1, GoesOne DEF Inv, Stage
<1>3. Fields' /\ PortHeld' /\ PeerIsCopy' /\ AskedServed'
  BY <1>1, <1>2 DEF BindFails, Inv, Fields, PortHeld, PeerIsCopy, AskedServed
<1>4. ASSUME ~mishap' PROVE LeavesAsked' /\ Succession' /\ SomeoneTries'
  <2>1. ~mishap /\ (to = "gone" => pc[port] # "stop" /\ port \notin asked)
    BY <1>1, <1>4 DEF BindFails, Inv, Fields
  <2>2. LeavesAsked'
    BY <1>2, <2>1 DEF BindFails, Inv, LeavesAsked
  <2>3. ASSUME NEW d \in Copy, Heir(d), d # c PROVE Heir(d)'
    BY <1>2, <2>3 DEF BindFails, Heir
  <2>4. \E d \in Copy : Heir(d)'
    <3>1. CASE to = "bind"
      BY <1>2, <3>1 DEF Heir
    <3>2. CASE to = "gone"
      <4>1. port \in Copy /\ port # c /\ Heir(port)
        BY <1>2, <2>1, <3>2 DEF BindFails, Inv, Fields, PortHeld, Heir
      <4> QED
        BY <2>3, <4>1
    <3> QED
      BY <3>1, <3>2
  <2> QED
    BY <2>2, <2>4 DEF Succession, SomeoneTries
<1> QED
  BY <1>3, <1>4 DEF Inv

-----------------------------------------------------------------------------
(* Once a copy has the port: it serves, is asked to leave, releases the    *)
(* port and ends.                                                          *)
LEMMA Serves ==
  ASSUME Inv, NEW c \in Copy, Goes(c, "open", "serve"),
         UNCHANGED <<peer, tries, port, asked, mishap>>
  PROVE  Inv'
<1>1. /\ pc[c] = "open" /\ pc'[c] = "serve" /\ pc' \in [Copy -> Stage]
      /\ \A d \in Copy : d # c => pc'[d] = pc[d]
  BY GoesOne DEF Inv, Stage
<1>2. Fields' /\ PortHeld' /\ PeerIsCopy' /\ AskedServed'
  BY <1>1 DEF Inv, Fields, PortHeld, PeerIsCopy, AskedServed
<1>3. Heir(c)'
  BY <1>1 DEF Inv, AskedServed, Heir
<1>4. ~mishap => LeavesAsked'
  BY <1>1 DEF Inv, LeavesAsked
<1> QED
  BY <1>2, <1>3, <1>4 DEF Inv, Succession, SomeoneTries

LEMMA Leaves ==
  ASSUME Inv, NEW c \in Copy, StepDown(c) \/ Release(c) \/ Exit(c)
  PROVE  Inv'
<1>1. PICK from \in {"serve", "stop", "leave"}, to \in {"stop", "leave", "gone"} :
        /\ Goes(c, from, to)
        /\ from = "serve" => to = "stop" /\ c \in asked /\ port' = port
        /\ from = "stop" => to = "leave" /\ port' = NoCopy
        /\ from = "leave" => to = "gone" /\ port' = port
        /\ UNCHANGED <<peer, asked, mishap>>
  BY DEF StepDown, Release, Exit
<1>2. /\ pc[c] = from /\ pc'[c] = to /\ pc' \in [Copy -> Stage]
      /\ \A d \in Copy : d # c => pc'[d] = pc[d]
  BY <1>1, GoesOne DEF Inv, Stage
<1>3. Fields' /\ PeerIsCopy' /\ AskedServed'
  BY <1>1, <1>2 DEF Inv, Fields, PeerIsCopy, AskedServed
<1>4. PortHeld'
  BY <1>1, <1>2, ElectionAssumption DEF Inv, PortHeld
<1>5. ASSUME ~mishap PROVE LeavesAsked' /\ Succession' /\ SomeoneTries'
  <2>1. c \in asked
    BY <1>1, <1>2, <1>5 DEF Inv, LeavesAsked
  <2>2. LeavesAsked'
    BY <1>1, <1>2, <1>5, <2>1 DEF Inv, LeavesAsked
  <2>3. PICK d \in Copy : Heir(d)
    BY <1>5, <2>1 DEF Inv, Succession
  <2>4. Heir(d)'
    BY <1>1, <1>2, <2>1, <2>3 DEF Heir
  <2> QED
    BY <2>2, <2>4 DEF Succession, SomeoneTries
<1> QED
  BY <1>1, <1>3, <1>4, <1>5 DEF Inv

(* A mishap excuses what follows.                                          *)
LEMMA Excused ==
  ASSUME Inv, NEW c \in Copy, NEW to \in {"stop", "gone"}, mishap' = TRUE,
         pc' = [pc EXCEPT ![c] = to], UNCHANGED <<peer, asked>>,
         \/ to = "stop" /\ pc[c] = "serve" /\ port' = port
         \/ to = "gone" /\ port' = IF port = c THEN NoCopy ELSE port
  PROVE  Inv'
<1>1. /\ pc'[c] = to /\ pc' \in [Copy -> Stage]
      /\ \A d \in Copy : d # c => pc'[d] = pc[d]
  BY DEF Inv, Fields, Stage
<1>2. Fields' /\ PeerIsCopy' /\ AskedServed'
  BY <1>1 DEF Inv, Fields, PeerIsCopy, AskedServed
<1>3. PortHeld'
  BY <1>1, ElectionAssumption DEF Inv, PortHeld
<1> QED
  BY <1>2, <1>3 DEF Inv

-----------------------------------------------------------------------------
LEMMA StepInv == Inv /\ [ElectionNext]_electionVars => Inv'
<1> SUFFICES ASSUME Inv, [ElectionNext]_electionVars PROVE Inv'
  OBVIOUS
<1>1. CASE UNCHANGED electionVars
  BY <1>1 DEF electionVars, Inv, Fields, PortHeld, PeerIsCopy, AskedServed,
              LeavesAsked, Succession, SomeoneTries, Heir
<1>2. ASSUME NEW c \in Copy, Start(c) \/ NoIncumbent(c) \/ Waited(c) PROVE Inv'
  BY <1>2, Approaches DEF Start, NoIncumbent, Waited, Inv, Fields
<1>3. ASSUME NEW c \in Copy, Dial(c) PROVE Inv'
  <2>1. /\ Goes(c, "dial", "hello") /\ peer' = [peer EXCEPT ![c] = port]
        /\ port \in Copy /\ port' = port /\ asked' = asked /\ mishap' = mishap
    BY <1>3 DEF Dial, Answering
  <2>2. peer' \in [Copy -> Copy \cup {NoCopy}] /\ peer'[c] \in Copy
        /\ \A d \in Copy : d # c => peer'[d] = peer[d]
    BY <2>1 DEF Inv, Fields
  <2> QED
    BY <2>1, <2>2, Approaches
<1>4. ASSUME NEW c \in Copy, NoAnswer(c) PROVE Inv'
  BY <1>4, Approaches DEF NoAnswer, Inv, Fields
<1>5. ASSUME NEW c \in Copy, Open(c) PROVE Inv'
  <2>1. CASE Goes(c, "open", "serve") /\ UNCHANGED <<peer, tries, port, asked, mishap>>
    BY <2>1, Serves
  <2>2. CASE /\ Goes(c, "open", "gone") /\ port' = NoCopy /\ mishap' = TRUE
             /\ UNCHANGED <<peer, asked>>
    <3>1. port = c
      BY <2>2 DEF Goes, Inv, PortHeld
    <3> QED
      BY <2>2, <3>1, Excused DEF Goes
  <2> QED
    BY <1>5, <2>1, <2>2 DEF Open
<1>6. ASSUME NEW c \in Copy, watchIdle(c) PROVE Inv'
  BY <1>6, Excused DEF watchIdle, Goes
<1>7. ASSUME NEW c \in Copy, Killed(c) PROVE Inv'
  BY <1>7, Excused DEF Killed
<1> QED
  BY <1>1, <1>2, <1>3, <1>4, <1>5, <1>6, <1>7, Negotiates, Binds, FailsToBind, Leaves
     DEF ElectionNext

(* When every copy has come to rest, the heir can only be one that serves. *)
LEMMA RestsOnHeir == Inv => SomebodyServes
<1> SUFFICES ASSUME Inv, AtRest, ~mishap, \E c \in Copy : pc[c] # "off"
             PROVE  \E c \in Copy : pc[c] = "serve" /\ c \notin asked
  BY DEF SomebodyServes
<1>1. PICK c \in Copy : Heir(c) \/ pc[c] \in {"dial", "hello"}
  BY DEF Inv, SomeoneTries
<1> QED
  BY <1>1 DEF AtRest, Heir

(* Unless a copy is killed, idle, slow to release the port or cannot open  *)
(* its database, the election leaves a copy serving that nobody has asked  *)
(* to leave, however many start at the same time (Run, negotiate,          *)
(* handlePeer).                                                            *)
THEOREM ElectionServes == ElectionSpec => []SomebodyServes
<1>1. ElectionSpec => []Inv
  BY InitInv, StepInv, PTL DEF ElectionSpec
<1> QED
  BY <1>1, RestsOnHeir, PTL

-----------------------------------------------------------------------------
(* Every variable of the election keeps its type, and only copies are      *)
(* asked to step down: whoever waits for an answer has a peer (negotiate). *)
THEOREM ElectionTypes == ElectionSpec => []TypeElection
<1> DEFINE Types == TypeElection /\ PeerIsCopy
<1> USE ElectionAssumption DEF TypeElection, PeerIsCopy, Stage, identity
<1>1. InitElection => Types
  <2> SUFFICES ASSUME InitElection PROVE Types
    OBVIOUS
  <2> USE DEF InitElection
  <2>1. startTime \in [Copy -> Nat] /\ now \in Nat
    OBVIOUS
  <2>2. pc \in [Copy -> Stage] /\ PeerIsCopy
    OBVIOUS
  <2>3. MaxTries \in 0 .. MaxTries
    OBVIOUS
  <2>4. tries \in [Copy -> 0 .. MaxTries]
    BY <2>3
  <2> QED
    BY <2>1, <2>2, <2>4
<1>2. Types /\ [ElectionNext]_electionVars => Types'
  <2> SUFFICES ASSUME Types, [ElectionNext]_electionVars PROVE Types'
    OBVIOUS
  <2>1. CASE UNCHANGED electionVars
    BY <2>1 DEF electionVars
  <2>2. ASSUME NEW c \in Copy, Start(c) PROVE Types'
    BY <2>2 DEF Start, Goes
  <2>3. ASSUME NEW c \in Copy, NoIncumbent(c) \/ NoAnswer(c) \/ Waited(c) PROVE Types'
    BY <2>3 DEF NoIncumbent, NoAnswer, Waited, Goes
  <2>4. ASSUME NEW c \in Copy, Dial(c) PROVE Types'
    BY <2>4 DEF Dial, Answering, Goes
  <2>5. ASSUME NEW c \in Copy, negotiate(c) PROVE Types'
    <3>1. peer[c] \in Copy
      BY <2>5 DEF negotiate
    <3> QED
      BY <2>5, <3>1 DEF negotiate, Goes
  <2>6. ASSUME NEW c \in Copy, Bind(c) PROVE Types'
    BY <2>6 DEF Bind, Goes
  <2>7. ASSUME NEW c \in Copy, BindFails(c) PROVE Types'
    BY <2>7 DEF BindFails, Goes
  <2>8. ASSUME NEW c \in Copy, Open(c) PROVE Types'
    BY <2>8 DEF Open, Goes
  <2>9. ASSUME NEW c \in Copy, StepDown(c) \/ watchIdle(c) \/ Release(c) \/ Exit(c)
        PROVE  Types'
    BY <2>9 DEF StepDown, watchIdle, Release, Exit, Goes
  <2>10. ASSUME NEW c \in Copy, Killed(c) PROVE Types'
    BY <2>10 DEF Killed
  <2> QED
    BY <2>1, <2>2, <2>3, <2>4, <2>5, <2>6, <2>7, <2>8, <2>9, <2>10 DEF ElectionNext
<1>3. Types => TypeElection
  OBVIOUS
<1> HIDE DEF Types
<1> QED
  BY <1>1, <1>2, <1>3, PTL DEF ElectionSpec
=============================================================================
