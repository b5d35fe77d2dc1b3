----------------------------- MODULE MCSessions -----------------------------
EXTENDS SessionProperties, TLC

Symmetry == Permutations(Requests) \cup Permutations(Browsers)
=============================================================================
