------------------------- MODULE MCCallbackRegistry -------------------------
\* Small instances of CallbackRegistry.
EXTENDS CallbackRegistry, TLC

CONSTANTS c1, c2, c3  \* calls

\* The calls are alike.
Symmetry == Permutations(Call)
=============================================================================
