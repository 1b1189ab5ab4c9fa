--------------------------- MODULE MCHolderAgent ----------------------------
\* A small instance of HolderAgent: two credentials of one schema, of which one can
\* be revoked.
EXTENDS HolderAgent, TLC

CONSTANTS a1, a2, p1, plain, revocable, schema, definition1, definition2

AllFit   == [i \in {a1, a2, p1} |-> {plain, revocable}]
SourceOf == plain :> {schema, definition1} @@ revocable :> {schema, definition2}
=============================================================================
