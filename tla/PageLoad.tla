------------------------------ MODULE PageLoad ------------------------------
(***************************************************************************)
(* What a page of the app that shows data of the service promises          *)
(* (LogPage, SessionViewPage, ChatPage, DmPage, StashPage under src/ui):   *)
(* one request is out at a time, and whoever changes what is wanted asks   *)
(* for it, or leaves a note that it is still owed.  The pages' modules     *)
(* implement this one.                                                     *)
(***************************************************************************)
CONSTANTS
  None,        (* no request out; nothing shown                            *)
  Error        (* an error message in the place of the data                *)

VARIABLES
  wanted,      (* what the page should show: filter, window, news, ...     *)
  asked,       (* what the request that is out asks for                    *)
  owed,        (* a request is still to be made                            *)
  shown        (* what the data on the screen was asked as                 *)

loadVars == <<wanted, asked, owed, shown>>

Init == asked = None /\ shown = None /\ owed = TRUE

(* What is wanted changes, or the news on the screen may be old.           *)
Want == owed' = TRUE /\ UNCHANGED <<asked, shown>>

(* A request for what is wanted now, which may be owed again at once.      *)
Ask ==
  /\ asked = None
  /\ asked' = wanted' /\ wanted' # None
  /\ owed' \in BOOLEAN
  /\ UNCHANGED shown

Answer ==
  /\ asked # None
  /\ shown' = asked
  /\ \/ asked' = None /\ UNCHANGED <<wanted, owed>>
     \/ owed /\ asked' = wanted /\ wanted # None /\ owed' = FALSE /\ UNCHANGED wanted

(* An error is shown, or the request is owed again.                        *)
Fail ==
  /\ asked # None
  /\ asked' = None
  /\ \/ owed' = TRUE /\ UNCHANGED shown
     \/ shown' = Error /\ UNCHANGED owed
  /\ UNCHANGED wanted

Next == Want \/ Ask \/ Answer \/ Fail

Spec == Init /\ [][Next]_loadVars

-----------------------------------------------------------------------------
(* With no request out and none owed, the page shows what is wanted, or an *)
(* error.                                                                  *)
ShowsWhatIsWanted == (asked = None /\ ~owed) => shown \in {wanted, Error}

(* The strengthening: a request that is out, with none owed, asks for what *)
(* is wanted now.                                                          *)
AsksWhatIsWanted == (asked # None /\ ~owed) => asked = wanted
=============================================================================
