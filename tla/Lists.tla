-------------------------------- MODULE Lists --------------------------------
(***************************************************************************)
(* Lists the program cuts down with a list comprehension, and adds up.     *)
(* What is kept is said by the places it stood at, in their order.         *)
(***************************************************************************)
EXTENDS Naturals, Sequences, FiniteSets

IsSequence(s) == Len(s) \in Nat /\ s = [i \in 1..Len(s) |-> s[i]]

(* The numbers of a finite set, the smallest first. *)
InOrder(P) ==
  CHOOSE at \in [1..Cardinality(P) -> P] : \A i, j \in DOMAIN at : i < j => at[i] < at[j]

PlacesOf(s, K) == {i \in DOMAIN s : s[i] \in K}

(* [x for x in s if x in K] *)
Kept(s, K) == LET at == InOrder(PlacesOf(s, K)) IN [i \in DOMAIN at |-> s[at[i]]]

(* sum(s) *)
Added(s) ==
  LET sum[n \in 0..Len(s)] == IF n = 0 THEN 0 ELSE sum[n - 1] + s[n]
  IN sum[Len(s)]

(* The sum of what stands at some of a list's places. *)
AddedAt(s, P) == Added([i \in DOMAIN s |-> IF i \in P THEN s[i] ELSE 0])

(* The numbers up to N in a strict order of them, each where as many are up  *)
(* to it.                                                                    *)
InThisOrder(N, R) ==
  [n \in 1..N |-> CHOOSE i \in 1..N : Cardinality({j \in 1..N : j = i \/ <<j, i>> \in R}) = n]

(* One stands before the other in a list. *)
Follows(s, p, q) == \E a, b \in DOMAIN s : a < b /\ s[a] = p /\ s[b] = q

=============================================================================
