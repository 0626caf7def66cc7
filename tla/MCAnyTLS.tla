------------------------------ MODULE MCAnyTLS ------------------------------
EXTENDS AnyTLS, TLC

Symmetry == Permutations(Callers)
=============================================================================
