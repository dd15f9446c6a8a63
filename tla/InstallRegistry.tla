--------------------------- MODULE InstallRegistry ---------------------------
(***************************************************************************)
(* The installs poe-info-service ingests (internal/server): the map        *)
(* s.tailers and the pipelines it stands for, config.set of install_dirs   *)
(* and auto_detect_install_dir from several connections, the auto-detect   *)
(* goroutine that adds the directories of running games on its own, the    *)
(* config file every change is written to, and the snapshot published to   *)
(* the clients.                                                            *)
(*                                                                         *)
(* Each step is a section under tailersMu, one atomic load or swap, or one *)
(* write.  The other settings are single values stored by one assignment   *)
(* and are left out.                                                       *)
(***************************************************************************)
EXTENDS Naturals, FiniteSets

CONSTANTS
  Conn,        (* connections: the requests of one are handled in order    *)
  Dir,         (* install directories, normalized                          *)
  NoTailer,    (* not a pipeline                                           *)
  Playing,     (* directories whose game may be seen running               *)
  MayFail,     (* starting a pipeline and saving the file may fail         *)
  MaxSets,     (* bound: config.set requests                               *)
  MaxCrashes   (* bound: restarts of the service                           *)

ASSUME RegistryAssumption ==
  /\ Playing \subseteq Dir
  /\ MayFail \in BOOLEAN
  /\ MaxSets \in Nat /\ MaxCrashes \in Nat
  /\ Conn \cap (0 .. MaxSets) = {}
  /\ NoTailer \notin Dir \X Nat

VARIABLES
  tailers,     (* s.tailers: the pipeline of a directory, <<dir, n>>       *)
  live,        (* pipelines whose context is not cancelled                 *)
  dying,       (* cancelled pipelines whose goroutines still run           *)
  started,     (* pipelines started so far                                 *)
  autoDetect,  (* s.autoDetect                                             *)
  act,         (* what each connection's goroutine and each loop is doing  *)
  file,        (* poe-info-service.toml                                    *)
  told,        (* the snapshot published last                              *)
  sets, crashes

vars == <<tailers, live, dying, started, autoDetect, act, file, told, sets, crashes>>

Loop == 0 .. MaxSets
Actor == Conn \cup Loop

(* What a goroutine still has to do: directories to remove, to look at as  *)
(* the process scan spelled them, to add; what it has read so far.         *)
Idle == [pc |-> "idle", remove |-> {}, scan |-> {}, add |-> {}, found |-> FALSE,
         failed |-> FALSE, dirs |-> {}, auto |-> FALSE, unread |-> {}]
NotRunning == [Idle EXCEPT !.pc = "none"]

Setting == {"install_dirs", "auto_detect_install_dir"}
Tailed == {d \in Dir : tailers[d] # NoTailer}
Running(l) == act[l].pc # "none"

(* A directory comes from the scan with the platform's separators, which   *)
(* is not how it is spelled as a key of s.tailers.                         *)
Spelled(d) == <<d>>
AsSpelled(p) == p                                               \* mutant
Normalize(p) == p[1]

Init ==
  \E dirs \in SUBSET Dir, on \in BOOLEAN :
    /\ tailers = [d \in Dir |-> IF d \in dirs THEN <<d, 0>> ELSE NoTailer]
    /\ live = {<<d, 0>> : d \in dirs} /\ dying = {} /\ started = 0
    /\ autoDetect = on
    /\ act = [a \in Actor |-> IF a \in Conn \/ (a = 0 /\ on) THEN Idle ELSE NotRunning]
    /\ file = [dirs |-> dirs, auto |-> on]
    /\ told = file
    /\ sets = 0 /\ crashes = 0

-----------------------------------------------------------------------------
(* How a goroutine goes on when it has done r.                             *)
AfterAdding(a, r) ==
  IF a \in Conn THEN IF r.failed THEN "idle" ELSE "persist"
                ELSE IF r.found THEN "persist" ELSE "idle"

Proceed(a, r) ==
  LET pc == IF r.remove # {} THEN "remove"
            ELSE IF r.add # {} THEN "add"
            ELSE IF r.scan # {} THEN "scan"
            ELSE AfterAdding(a, r)
  IN  IF pc = "idle" THEN Idle ELSE [r EXCEPT !.pc = pc]

Does(a, r) == act' = [act EXCEPT ![a] = r]

registry == <<tailers, live, dying, started>>
outside == <<file, told, sets, crashes>>

(* config.set install_dirs: the whole list is replaced.                    *)
SetInstallDirs(c, want) ==
  /\ act[c].pc = "idle" /\ sets < MaxSets
  /\ sets' = sets + 1
  /\ Does(c, [Idle EXCEPT !.pc = "list", !.add = want])
  /\ UNCHANGED <<registry, autoDetect, file, told, crashes>>

ListTailed(c) ==
  /\ act[c].pc = "list"
  /\ Does(c, Proceed(c, [act[c] EXCEPT !.remove = Tailed \ act[c].add]))
  /\ UNCHANGED <<registry, autoDetect, outside>>

(* removeInstall *)
Kept(d) == tailers                                              \* mutant
Removed(d) == [tailers EXCEPT ![d] = NoTailer]
Remove(c) ==
  /\ act[c].pc = "remove"
  /\ \E d \in act[c].remove :
       /\ IF tailers[d] = NoTailer
            THEN UNCHANGED <<tailers, live, dying>>
            ELSE /\ live' = live \ {tailers[d]}
                 /\ dying' = dying \cup ({tailers[d]} \cap live)
                 /\ tailers' = Removed(d)
       /\ Does(c, Proceed(c, [act[c] EXCEPT !.remove = @ \ {d}]))
  /\ UNCHANGED <<started, autoDetect, outside>>

(* addInstallTarget looks whether the directory is tailed, ...             *)
NeverTailed(d) == FALSE                                         \* mutant
IsTailed(d) == tailers[d] # NoTailer
CheckTailed(a) ==
  /\ act[a].pc = "add"
  /\ \E d \in act[a].add :
       Does(a, IF IsTailed(d)
                 THEN Proceed(a, [act[a] EXCEPT !.add = @ \ {d}, !.found = TRUE])
                 ELSE [act[a] EXCEPT !.pc = "start", !.dirs = {d}])
  /\ UNCHANGED <<registry, autoDetect, outside>>

Added(a, d) == [act[a] EXCEPT !.add = @ \ {d}, !.dirs = {}]

(* ... and after the database work enters it and starts its goroutines.    *)
StartTailing(a) ==
  /\ act[a].pc = "start"
  /\ \E d \in act[a].dirs :
       /\ started' = started + 1
       /\ live' = live \cup {<<d, started + 1>>}
       /\ tailers' = [tailers EXCEPT ![d] = <<d, started + 1>>]
       /\ Does(a, Proceed(a, [Added(a, d) EXCEPT !.found = TRUE]))
  /\ UNCHANGED <<dying, autoDetect, outside>>

StartFails(a) ==
  /\ MayFail /\ act[a].pc = "start"
  /\ \E d \in act[a].dirs : Does(a, Proceed(a, [Added(a, d) EXCEPT !.failed = TRUE]))
  /\ UNCHANGED <<registry, autoDetect, outside>>

(* config.set auto_detect_install_dir swaps the flag, and starts a loop    *)
(* when it was off.                                                        *)
StartsNoLoop(v) == FALSE                                        \* mutant
StartsLoop(v) == v /\ ~autoDetect
SetAutoDetect(c, v) ==
  /\ act[c].pc = "idle" /\ sets < MaxSets
  /\ sets' = sets + 1
  /\ autoDetect' = v
  /\ Does(c, [Idle EXCEPT !.pc = IF StartsLoop(v) THEN "spawn" ELSE "persist"])
  /\ UNCHANGED <<registry, file, told, crashes>>

Spawn(c) ==
  /\ act[c].pc = "spawn"
  /\ \E l \in Loop \ {0} :
       /\ ~Running(l)
       /\ \A k \in Loop \ {0} : k < l => Running(k)
       /\ act' = [act EXCEPT ![c].pc = "persist", ![l] = Idle]
  /\ UNCHANGED <<registry, autoDetect, outside>>

(* watchAutoDetect, on its ticker: it ends, or scans the processes.        *)
Ends == ~autoDetect
Tick(l) ==
  /\ act[l].pc = "idle"
  /\ IF Ends THEN Does(l, NotRunning)
     ELSE \E games \in SUBSET Playing :
            Does(l, Proceed(l, [Idle EXCEPT !.scan = {Spelled(d) : d \in games}]))
  /\ UNCHANGED <<registry, autoDetect, outside>>

LookUp(l) ==
  /\ act[l].pc = "scan"
  /\ \E p \in act[l].scan :
       LET r == [act[l] EXCEPT !.scan = @ \ {p}]
       IN  Does(l, Proceed(l, IF p \in Tailed THEN r ELSE [r EXCEPT !.add = {Normalize(p)}]))
  /\ UNCHANGED <<registry, autoDetect, outside>>

(* persistConfig reads the settings one by one and replaces the file.      *)
PersistDirs(a) ==
  /\ act[a].pc = "persist"
  /\ Does(a, [act[a] EXCEPT !.pc = "auto", !.dirs = Tailed])
  /\ UNCHANGED <<registry, autoDetect, outside>>

PersistAuto(a) ==
  /\ act[a].pc = "auto"
  /\ Does(a, [act[a] EXCEPT !.pc = "save", !.auto = autoDetect])
  /\ UNCHANGED <<registry, autoDetect, outside>>

FileDirs(r) == r.dirs
Save(a) ==
  /\ act[a].pc = "save"
  /\ file' = [dirs |-> FileDirs(act[a]), auto |-> act[a].auto]
  /\ Does(a, [act[a] EXCEPT !.pc = "publish", !.unread = Setting])
  /\ UNCHANGED <<registry, autoDetect, told, sets, crashes>>

(* The auto-detect loop only logs it; a client gets an error.              *)
SaveFails(a) ==
  /\ MayFail /\ act[a].pc = "save"
  /\ Does(a, IF a \in Conn THEN Idle
             ELSE [act[a] EXCEPT !.pc = "publish", !.unread = Setting])
  /\ UNCHANGED <<registry, autoDetect, outside>>

(* configSnapshot goes through a map, in any order.                        *)
ReadSetting(a) ==
  /\ act[a].pc = "publish"
  /\ \E k \in act[a].unread :
       Does(a, IF k = "install_dirs"
                 THEN [act[a] EXCEPT !.unread = @ \ {k}, !.dirs = Tailed]
                 ELSE [act[a] EXCEPT !.unread = @ \ {k}, !.auto = autoDetect])
  /\ UNCHANGED <<registry, autoDetect, outside>>

SnapshotBefore(r) == told                                       \* mutant
Snapshot(r) == [dirs |-> r.dirs, auto |-> r.auto]
Publish(a) ==
  /\ act[a].pc = "publish" /\ act[a].unread = {}
  /\ told' = Snapshot(act[a])
  /\ Does(a, Idle)
  /\ UNCHANGED <<registry, autoDetect, file, sets, crashes>>

(* The two goroutines of a cancelled pipeline return.                      *)
PipelineEnds ==
  /\ \E p \in dying : dying' = dying \ {p}
  /\ UNCHANGED <<tailers, live, started, autoDetect, act, outside>>

(* The process dies; serve() starts again from the file.                   *)
Crash ==
  /\ crashes < MaxCrashes
  /\ crashes' = crashes + 1
  /\ tailers' = [d \in Dir |-> IF d \in file.dirs THEN <<d, started + 1>> ELSE NoTailer]
  /\ live' = {<<d, started + 1>> : d \in file.dirs} /\ dying' = {}
  /\ started' = started + 1
  /\ autoDetect' = file.auto
  /\ act' = [a \in Actor |-> IF a \in Conn \/ (a = 0 /\ file.auto) THEN Idle ELSE NotRunning]
  /\ told' = file
  /\ UNCHANGED <<file, sets>>

-----------------------------------------------------------------------------
ConnStep(c) == ListTailed(c) \/ Remove(c) \/ Spawn(c)
LoopStep(l) == Tick(l) \/ LookUp(l)
Step(a) ==
  \/ CheckTailed(a) \/ StartTailing(a) \/ StartFails(a)
  \/ PersistDirs(a) \/ PersistAuto(a) \/ Save(a) \/ SaveFails(a)
  \/ ReadSetting(a) \/ Publish(a)

Next ==
  \/ \E c \in Conn : \/ \E want \in SUBSET Dir : SetInstallDirs(c, want)
                     \/ \E v \in BOOLEAN : SetAutoDetect(c, v)
                     \/ ConnStep(c)
  \/ \E l \in Loop : LoopStep(l)
  \/ \E a \in Actor : Step(a)
  \/ PipelineEnds \/ Crash

Spec == Init /\ [][Next]_vars

-----------------------------------------------------------------------------
Pipeline == Dir \X Nat
PC == {"idle", "none", "list", "remove", "scan", "add", "start", "spawn",
       "persist", "auto", "save", "publish"}
Work == [pc : PC, remove : SUBSET Dir, scan : SUBSET {Spelled(d) : d \in Dir},
         add : SUBSET Dir, found : BOOLEAN, failed : BOOLEAN,
         dirs : SUBSET Dir, auto : BOOLEAN, unread : SUBSET Setting]
Config == [dirs : SUBSET Dir, auto : BOOLEAN]

TypeOK ==
  /\ tailers \in [Dir -> Pipeline \cup {NoTailer}]
  /\ live \subseteq Pipeline /\ dying \subseteq Pipeline
  /\ started \in Nat
  /\ autoDetect \in BOOLEAN
  /\ act \in [Actor -> Work]
  /\ file \in Config /\ told \in Config
  /\ sets \in Nat /\ crashes \in Nat

(* What s.tailers lists is being ingested, whoever adds and removes at the *)
(* same time.                                                              *)
TailedIsLive == \A d \in Dir : tailers[d] # NoTailer =>
  tailers[d] \in live /\ tailers[d][1] = d

(* While auto-detection is on a loop runs or is about to be started.       *)
DetectionRuns ==
  autoDetect => (\E l \in Loop : Running(l)) \/ (\E c \in Conn : act[c].pc = "spawn")

(* No directory is ingested by two pipelines, nor by one that removeInstall *)
(* cannot find any more: that would duplicate every session.               *)
OneTailerPerDir == \A d \in Dir : {p \in live : p[1] = d} \subseteq {tailers[d]}

Current == [dirs |-> Tailed, auto |-> autoDetect]
Settled == \A a \in Actor : act[a].pc \in {"idle", "none"}

(* When every request has been answered, the file holds what is in effect: *)
(* a restart then changes nothing.                                         *)
SettledIsSaved == Settled => file = Current

(* And the clients have been told what is in effect.                       *)
SettledIsTold == Settled => told = Current

=============================================================================
