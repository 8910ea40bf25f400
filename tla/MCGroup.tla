------------------------------ MODULE MCGroup -------------------------------
EXTENDS Group, TLC

CONSTANTS m1, m2, p1, p2

Symmetric == Permutations({m1, m2}) \cup Permutations({p1, p2})
=============================================================================
