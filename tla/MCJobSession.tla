---------------------------- MODULE MCJobSession ----------------------------
(* JobSession for TLC. *)
EXTENDS JobSession, TLC

(* Threads and users are interchangeable; only used without liveness. *)
Symmetry == Permutations(Users) \cup Permutations(Threads) \cup Permutations(Handlers)

=============================================================================
