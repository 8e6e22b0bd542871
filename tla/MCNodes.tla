------------------------------- MODULE MCNodes -------------------------------
EXTENDS Nodes, TLC
MCSymmetry == Permutations(Worker) \cup Permutations(Protocol) \cup Permutations(Node)
=============================================================================
