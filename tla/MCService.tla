------------------------------ MODULE MCService ------------------------------
(***************************************************************************)
(* Small instances of InstallRegistry and Election for TLC.  A behaviour   *)
(* is of one of three kinds, chosen in the initial state: requests,        *)
(* auto-detection and failures at the same time, for one directory;        *)
(* requests one after the other, none failing, with a restart of the       *)
(* service in between; or the election between several copies of it.       *)
(***************************************************************************)
EXTENDS InstallRegistry, Election, TLC

CONSTANT d1           \* the directory of the first kind

VARIABLE kind         \* of the behaviour

Symmetric == Permutations(Conn) \cup Permutations(Copy)

Orderly == INSTANCE InstallRegistry WITH Playing <- {}, MayFail <- FALSE

(* What the others are like meanwhile.                                     *)
NoRegistry == Tailed = {} /\ ~autoDetect
NoElection == \E v \in Version : version = [c \in Copy |-> v]
                                /\ \A w \in Version : v <= w

MCInit ==
  /\ Init /\ InitElection
  /\ \/ kind = "concurrent" /\ Tailed \subseteq {d1} /\ NoElection
     \/ kind = "orderly" /\ NoElection
     \/ kind = "election" /\ NoRegistry

OneDirectory ==
  /\ Next
  /\ crashes' = 0 /\ sets' < MaxSets
  /\ \A a \in Actor : act'[a].add \cap Dir \subseteq {d1}

OneAtATime ==
  /\ Orderly!Next
  /\ Cardinality({c \in Conn : act'[c].pc # "idle"}) <= 1

MCNext ==
  /\ UNCHANGED kind
  /\ \/ kind = "concurrent" /\ OneDirectory /\ UNCHANGED electionVars
     \/ kind = "orderly" /\ OneAtATime /\ UNCHANGED electionVars
     \/ kind = "election" /\ ElectionNext /\ UNCHANGED vars

MCSpec == MCInit /\ [][MCNext]_<<vars, electionVars, kind>>

(* Requests one after the other leave no directory ingested twice, nor by  *)
(* a pipeline that removeInstall cannot find any more.                     *)
OrderlyOneTailerPerDir == kind = "orderly" => OneTailerPerDir

(* Requests one after the other, once answered, are in the file (a restart *)
(* changes nothing) and have been published to the clients.                *)
OrderlySettledIsKnown == kind = "orderly" => SettledIsSaved /\ SettledIsTold
=============================================================================
