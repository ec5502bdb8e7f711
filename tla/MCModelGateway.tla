--------------------------- MODULE MCModelGateway ---------------------------
\* Small instances of ModelGateway: two callers, two targets.
EXTENDS ModelGateway, TLC

CONSTANTS c1, c2, a, b

Chain == {<<a, b>>}
Direct == {<<a>>}

Symmetry == Permutations(Callers)
=============================================================================
