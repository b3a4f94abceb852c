--------------------------- MODULE MCEsmeSession ---------------------------
EXTENDS EsmeSession, TLC

Symmetric == Permutations(Workers)
=============================================================================
