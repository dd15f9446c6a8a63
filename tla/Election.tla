------------------------------ MODULE Election ------------------------------
(***************************************************************************)
(* Which copy of poe-info-service serves (internal/server: Run, negotiate, *)
(* handlePeer, serve, watchIdle).  Every app starts its own copy, which    *)
(* asks the one that listens on the port, if any, who of them is better.   *)
(* The better one serves: a newcomer tells the incumbent to step down and  *)
(* tries to bind the port until it is free, or else ends at once.          *)
(*                                                                         *)
(* A copy may be killed with the app that started it, and an idle one      *)
(* stops by itself.                                                        *)
(***************************************************************************)
EXTENDS Naturals

CONSTANTS
  Copy,         (* processes                                               *)
  NoCopy,       (* nobody                                                  *)
  Version,      (* versions of the program                                 *)
  MaxTries      (* attempts to bind the port: 10                           *)

ASSUME ElectionAssumption ==
  /\ NoCopy \notin Copy
  /\ Version \subseteq Nat
  /\ MaxTries \in Nat \ {0}

VARIABLES
  version,      (* cfg.Version of each copy                                *)
  startTime,    (* cfg.StartTime, in seconds                               *)
  now,          (* the current second                                      *)
  pc,           (* how far each copy is                                    *)
  peer,         (* the incumbent it talks to                               *)
  tries,        (* attempts to bind it has left                            *)
  port,         (* who listens on the port                                 *)
  asked,        (* copies that were sent a step-down                       *)
  mishap        (* some copy was killed, idle, too slow to release the     *)
                (* port, or could not open its database                    *)

electionVars == <<version, startTime, now, pc, peer, tries, port, asked, mishap>>

InitElection ==
  /\ version \in [Copy -> Version]
  /\ startTime = [c \in Copy |-> 0] /\ now = 0
  /\ pc = [c \in Copy |-> "off"]
  /\ peer = [c \in Copy |-> NoCopy]
  /\ tries = [c \in Copy |-> MaxTries]
  /\ port = NoCopy /\ asked = {} /\ mishap = FALSE

-----------------------------------------------------------------------------
Goes(c, from, to) == pc[c] = from /\ pc' = [pc EXCEPT ![c] = to]

identity == <<version, startTime, now>>

(* An app starts its copy, which reads the clock.                          *)
Start(c) ==
  /\ Goes(c, "off", "dial")
  /\ now' \in {now, now + 1}
  /\ startTime' = [startTime EXCEPT ![c] = now']
  /\ UNCHANGED <<version, peer, tries, port, asked, mishap>>

(* A copy answers until its Shutdown, even when it has been cancelled; one *)
(* that only opens its database yet does not answer within two seconds.    *)
Answering == {c \in Copy : pc[c] \in {"serve", "stop"}}
NoIncumbent(c) ==
  /\ port \notin Answering
  /\ Goes(c, "dial", "bind")
  /\ UNCHANGED <<identity, peer, tries, port, asked, mishap>>

Dial(c) ==
  /\ port \in Answering
  /\ Goes(c, "dial", "hello")
  /\ peer' = [peer EXCEPT ![c] = port]
  /\ UNCHANGED <<identity, tries, port, asked, mishap>>

(* isBetter: the newer version, of two equal ones the earlier start.       *)
Better(c, d) ==
  \/ version[c] > version[d]
  \/ version[c] = version[d] /\ startTime[c] < startTime[d]

(* The connection to a peer outlives the listener.                         *)
Alive == {"serve", "stop", "leave"}

(* handlePeer's answer to the hello, and negotiate.                        *)
AsksAnyway(c) ==                                                \* mutant
  /\ pc[c] = "hello" /\ pc[peer[c]] \in Alive
  /\ asked' = asked \cup {peer[c]}
  /\ Goes(c, "hello", IF Better(c, peer[c]) THEN "wait" ELSE "gone")
  /\ UNCHANGED <<identity, peer, tries, port, mishap>>
negotiate(c) ==
  /\ pc[c] = "hello" /\ pc[peer[c]] \in Alive
  /\ \/ /\ Better(c, peer[c]) /\ Goes(c, "hello", "wait")
        /\ asked' = asked \cup {peer[c]}
     \/ /\ ~Better(c, peer[c]) /\ Goes(c, "hello", "gone")
        /\ UNCHANGED asked
  /\ UNCHANGED <<identity, peer, tries, port, mishap>>

(* The connection ends, or five seconds pass: "assuming no healthy         *)
(* incumbent".                                                             *)
NoAnswer(c) ==
  /\ Goes(c, "hello", "bind")
  /\ UNCHANGED <<identity, peer, tries, port, asked, mishap>>

Waited(c) ==
  /\ Goes(c, "wait", "bind")
  /\ UNCHANGED <<identity, peer, tries, port, asked, mishap>>

Bind(c) ==
  /\ port = NoCopy
  /\ Goes(c, "bind", "open")
  /\ port' = c
  /\ UNCHANGED <<identity, peer, tries, asked, mishap>>

(* The port is in use.  The last attempt is one too few if its holder was  *)
(* about to leave.                                                         *)
BindFails(c) ==
  /\ port # NoCopy /\ tries[c] > 0
  /\ tries' = [tries EXCEPT ![c] = @ - 1]
  /\ Goes(c, "bind", IF tries[c] = 1 THEN "gone" ELSE "bind")
  /\ mishap' = (mishap \/ (tries[c] = 1 /\ (pc[port] = "stop" \/ port \in asked)))
  /\ UNCHANGED <<identity, peer, port, asked>>

-----------------------------------------------------------------------------
(* serve opens the database, or fails.                                     *)
Open(c) ==
  \/ /\ Goes(c, "open", "serve")
     /\ UNCHANGED <<identity, peer, tries, port, asked, mishap>>
  \/ /\ Goes(c, "open", "gone")
     /\ port' = NoCopy /\ mishap' = TRUE
     /\ UNCHANGED <<identity, peer, tries, asked>>

(* handlePeer reads the decision.                                          *)
StepDown(c) ==
  /\ c \in asked /\ Goes(c, "serve", "stop")
  /\ UNCHANGED <<identity, peer, tries, port, asked, mishap>>

(* A hello does not count as activity.                                     *)
watchIdle(c) ==
  /\ Goes(c, "serve", "stop") /\ mishap' = TRUE
  /\ UNCHANGED <<identity, peer, tries, port, asked>>

(* Checkpoint is done, Shutdown closes the listener; main returns later.   *)
Release(c) ==
  /\ Goes(c, "stop", "leave")
  /\ port' = NoCopy
  /\ UNCHANGED <<identity, peer, tries, asked, mishap>>

Exit(c) ==
  /\ Goes(c, "leave", "gone")
  /\ UNCHANGED <<identity, peer, tries, port, asked, mishap>>

(* ServiceManager::stop, or the app's end, which takes its child along.    *)
Killed(c) ==
  /\ pc[c] \notin {"off", "gone"}
  /\ pc' = [pc EXCEPT ![c] = "gone"]
  /\ port' = IF port = c THEN NoCopy ELSE port
  /\ mishap' = TRUE
  /\ UNCHANGED <<identity, peer, tries, asked>>

-----------------------------------------------------------------------------
ElectionNext ==
  \E c \in Copy :
    \/ Start(c) \/ NoIncumbent(c) \/ Dial(c) \/ negotiate(c) \/ NoAnswer(c)
    \/ Waited(c) \/ Bind(c) \/ BindFails(c)
    \/ Open(c) \/ StepDown(c) \/ watchIdle(c) \/ Release(c) \/ Exit(c) \/ Killed(c)

ElectionSpec == InitElection /\ [][ElectionNext]_electionVars

-----------------------------------------------------------------------------
Stage == {"off", "dial", "hello", "wait", "bind", "open", "serve", "stop", "leave", "gone"}

TypeElection ==
  /\ version \in [Copy -> Version] /\ startTime \in [Copy -> Nat] /\ now \in Nat
  /\ pc \in [Copy -> Stage]
  /\ peer \in [Copy -> Copy \cup {NoCopy}]
  /\ tries \in [Copy -> 0 .. MaxTries]
  /\ port \in Copy \cup {NoCopy}
  /\ asked \subseteq Copy
  /\ mishap \in BOOLEAN

(* When every copy that was started has come to rest, one serves and is    *)
(* not about to stop, unless there was a mishap: nobody yields to a copy   *)
(* that leaves without a successor, and whoever sends another one away     *)
(* gets the port or leaves it to a third.                                  *)
AtRest == \A c \in Copy : pc[c] \in {"off", "serve", "gone"}
SomebodyServes ==
  AtRest /\ ~mishap /\ (\E c \in Copy : pc[c] # "off")
    => \E c \in Copy : pc[c] = "serve" /\ c \notin asked
=============================================================================
