---------------------------- MODULE DescentProofs ----------------------------
(***************************************************************************)
(* Measures do not fall forever.                                           *)
(***************************************************************************)
EXTENDS Descent, WellFoundedInduction, TLAPS

NatOrder == {p \in Nat \X Nat : p[1] < p[2]}

BelowOrder(n) == {p \in Tuples(n) \X Tuples(n) : Below(p[1], p[2])}

LEMMA NatOrderWellFounded == IsWellFoundedOn(NatOrder, Nat)
<1>1. OpToRel(<, Nat) = NatOrder
  BY DEF OpToRel, NatOrder
<1> QED
  BY <1>1, NatLessThanWellFounded

\* There is no infinite sequence of measures, each below the one before: a loop each
\* of whose steps lowers its measure takes finitely many.
THEOREM MeasuresEnd ==
    ASSUME NEW n \in Nat
    PROVE  IsWellFoundedOn(BelowOrder(n), Tuples(n))
<1>1. BelowOrder(n) = LexProductOrdering(NatOrder, Nat, n)
  <2>1. ASSUME NEW a \in Tuples(n), NEW b \in Tuples(n)
        PROVE  Below(a, b) <=> \E j \in 1 .. n : /\ \A i \in 1 .. j - 1 : a[i] = b[i]
                                                 /\ <<a[j], b[j]>> \in NatOrder
    BY DEF Below, NatOrder, Tuples
  <2> QED
    BY <2>1, Zenon DEF BelowOrder, LexProductOrdering, Tuples
<1>2. IsWellFoundedOn(LexProductOrdering(NatOrder, Nat, n), [1 .. n -> Nat])
  BY NatOrderWellFounded, WFLexProductOrdering
<1> QED
  BY <1>1, <1>2 DEF Tuples
=============================================================================
