------------------------------ MODULE MCKeySet ------------------------------
EXTENDS KeySet, TLC

CONSTANTS old, new

Symmetric == Permutations({old, new})
=============================================================================
