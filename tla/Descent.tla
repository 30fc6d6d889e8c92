------------------------------- MODULE Descent -------------------------------
(***************************************************************************)
(* Measures of what is left to do, for the loops that are to end: tuples   *)
(* of natural numbers, compared at the first place where they differ.      *)
(***************************************************************************)
EXTENDS Naturals

\* What is left of a budget.
Left(used, budget) == IF used < budget THEN budget - used ELSE 0

Tuples(n) == [1 .. n -> Nat]

Below(a, b) ==
    \E i \in DOMAIN b :
        /\ a[i] < b[i]
        /\ \A j \in 1 .. i - 1 : a[j] = b[j]
=============================================================================
