---------------------------- MODULE JobLifecycle ----------------------------
(***************************************************************************)
(* What a caller of the bank-job API may rely on, one session at a time:   *)
(* a run is started only when none is in flight, it ends exactly once and  *)
(* carries one outcome, and what the last run said stays readable until    *)
(* the next one starts.  JobSession, the model of the code, is shown to    *)
(* implement this module.                                                  *)
(***************************************************************************)
EXTENDS Naturals

CONSTANT Sessions    (* the job sessions: one per signed-in user, one for the desktop *)

Outcomes == {"success", "failed"}
None == "none"

VARIABLES
  inFlight,   (* inFlight[s]: a run of session s has started and not ended *)
  outcome,    (* outcome[s]: what the last ended run of s said, None before that *)
  count       (* count[s]: how many runs of s have started *)

lifecycleVars == <<inFlight, outcome, count>>

LifecycleTypeOK ==
  /\ inFlight \in [Sessions -> BOOLEAN]
  /\ outcome \in [Sessions -> Outcomes \cup {None}]
  /\ count \in [Sessions -> Nat]

Init ==
  /\ inFlight = [s \in Sessions |-> FALSE]
  /\ outcome = [s \in Sessions |-> None]
  /\ count = [s \in Sessions |-> 0]

Start(s) ==
  /\ ~inFlight[s]
  /\ inFlight' = [inFlight EXCEPT ![s] = TRUE]
  /\ outcome' = [outcome EXCEPT ![s] = None]
  /\ count' = [count EXCEPT ![s] = @ + 1]

(* The outcome is announced while the run is still in flight ... *)
Announce(s) ==
  /\ inFlight[s]
  /\ outcome[s] = None
  /\ \E o \in Outcomes : outcome' = [outcome EXCEPT ![s] = o]
  /\ UNCHANGED <<inFlight, count>>

(* ... and a run that has announced nothing has not ended. *)
End(s) ==
  /\ inFlight[s]
  /\ outcome[s] # None
  /\ inFlight' = [inFlight EXCEPT ![s] = FALSE]
  /\ UNCHANGED <<outcome, count>>

Next == \E s \in Sessions : Start(s) \/ Announce(s) \/ End(s)

Spec == Init /\ [][Next]_lifecycleVars

=============================================================================
