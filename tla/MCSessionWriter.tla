--------------------------- MODULE MCSessionWriter ---------------------------
(***************************************************************************)
(* Small instances of SessionWriter for TLC.  A behaviour is of one of     *)
(* three kinds, chosen in the initial state: a log that is read once, with *)
(* a sweep and a restart; a log that is read to its end and then again     *)
(* from its first line, areas entered within one second included; or such  *)
(* a log of two characters that level up and die.                          *)
(***************************************************************************)
EXTENDS SessionWriter

CONSTANT a1, a2, c1, c2    \* areas, characters

VARIABLE reading           \* the kind of the behaviour

Again == INSTANCE SessionWriter WITH
  Area <- {a1, a2}, LineKinds <- {"start", "area", "afk_on", "afk_off", "note", "queue", "unqueue"},
  SameSecond <- TRUE, WholeAgain <- TRUE, Rereads <- {0},
  MaxTime <- 3, MaxRestarts <- 0, MaxSweeps <- 0

Deaths == INSTANCE SessionWriter WITH
  Area <- {}, Char <- {c1, c2}, LineKinds <- {"start", "level", "death"},
  SameSecond <- TRUE, WholeAgain <- TRUE, Rereads <- {0},
  MaxTime <- 3, MaxRestarts <- 0, MaxSweeps <- 0

MCInit == Init /\ reading \in {"once", "again", "deaths"}

MCNext ==
  /\ UNCHANGED reading
  /\ \/ reading = "once" /\ Next
     \/ reading = "again" /\ Again!Next
     \/ reading = "deaths" /\ Deaths!Next

MCSpec == MCInit /\ [][MCNext]_<<vars, reading>>

(* Read once, the spans of a session follow each other from its start to   *)
(* its end (handleAreaEntered, closeSpan, NewWriter).                      *)
ReadOnceSpansTile == reading = "once" => SpansTileSession

(* Read once, until a new Writer takes over, away time adds up from its    *)
(* rows, and a row lies in the span it belongs to.                         *)
ReadOnceAwayAgrees == reading = "once" => AwayAddsUp /\ AwayWithinSpan
=============================================================================
