-------------------------- MODULE MCNestedOwnership --------------------------
(* NestedOwnership for model checking: small trees of transactions.        *)
EXTENDS NestedOwnership

CONSTANTS a, b, c

\* a starts b, and after or next to it c.
ParentDeep == [t \in Nested |-> IF t = a THEN Root ELSE a]
\* The root starts all of them.
ParentFlat == [t \in Nested |-> Root]

=============================================================================
