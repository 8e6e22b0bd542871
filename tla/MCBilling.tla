------------------------------ MODULE MCBilling ------------------------------
EXTENDS Billing, TLC
CONSTANTS OpeningCents
MCOpening == [u \in User |-> OpeningCents]
Symmetry == Permutations(Worker) \cup Permutations(OrderId)
=============================================================================
