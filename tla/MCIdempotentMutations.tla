------------------------ MODULE MCIdempotentMutations ------------------------
(* IdempotentMutations for model checking: two calls, a mutation and its   *)
(* retry, of a writer.                                                     *)
EXTENDS IdempotentMutations, TLC

MCMutationOf == [c \in Caller |-> [scope |-> "plain", key |-> "k"]]
==============================================================================
