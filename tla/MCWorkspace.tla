---------------------------- MODULE MCWorkspace ----------------------------
(* Workspace for TLC: a few requests of each user, or more of one alone. *)
EXTENDS Workspace

CONSTANTS First, Shared, Others

Few ==
  \A u \in Users \ {First} :
    \/ calls[u] = 0
    \/ calls[u] <= Others /\ calls[First] <= Shared

MCSpec == Init /\ [][Next /\ Few']_vars /\ Fairness

=============================================================================
