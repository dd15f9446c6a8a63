---------------------------- MODULE TaskService ----------------------------
(***************************************************************************)
(* What a rate-limited request queue promises its callers, with nothing    *)
(* said of rates, priorities or goroutines: a submitted task runs at most  *)
(* once, two unfinished tasks never share a key, tasks carrying the same   *)
(* policy hint never run side by side, and a task is withdrawn only before *)
(* it runs.                                                                *)
(***************************************************************************)
EXTENDS Naturals

CONSTANTS
  Key,      (* the de-duplication keys of tasks                           *)
  Hint,     (* the policy hints tasks carry                               *)
  NoHint,   (* the empty hint, which serialises nothing                   *)
  NoKey,    (* the key and hint of a task that was never submitted        *)
  Task      (* the identities of tasks                                    *)

VARIABLES
  phase,    (* where each task is in its life                             *)
  key,      (* the key each task was submitted under                      *)
  hint      (* the hint each task was submitted with                      *)

vars == <<phase, key, hint>>

Phase == {"absent", "waiting", "running", "finished", "withdrawn"}

Unfinished == {t \in Task : phase[t] \in {"waiting", "running"}}

Init ==
  /\ phase = [t \in Task |-> "absent"]
  /\ key   = [t \in Task |-> NoKey]
  /\ hint  = [t \in Task |-> NoKey]

Accept(t, k, h) ==
  /\ phase[t] = "absent"
  /\ \A u \in Unfinished : key[u] # k
  /\ phase' = [phase EXCEPT ![t] = "waiting"]
  /\ key'   = [key EXCEPT ![t] = k]
  /\ hint'  = [hint EXCEPT ![t] = h]

Start(t) ==
  /\ phase[t] = "waiting"
  /\ \A u \in Task : phase[u] = "running" => hint[u] # hint[t] \/ hint[t] = NoHint
  /\ phase' = [phase EXCEPT ![t] = "running"]
  /\ UNCHANGED <<key, hint>>

Finish(t) ==
  /\ phase[t] = "running"
  /\ phase' = [phase EXCEPT ![t] = "finished"]
  /\ UNCHANGED <<key, hint>>

Withdraw(t) ==
  /\ phase[t] = "waiting"
  /\ phase' = [phase EXCEPT ![t] = "withdrawn"]
  /\ UNCHANGED <<key, hint>>

Next ==
  \E t \in Task :
    \/ \E k \in Key, h \in Hint \cup {NoHint} : Accept(t, k, h)
    \/ Start(t)
    \/ Finish(t)
    \/ Withdraw(t)

Spec == Init /\ [][Next]_vars

=============================================================================
