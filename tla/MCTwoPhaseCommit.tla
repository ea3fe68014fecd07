-------------------------- MODULE MCTwoPhaseCommit --------------------------
(* TwoPhaseCommit for model checking: every participant has its own server *)
(* or only the coordinator, w1 or r1, does.                                *)
EXTENDS TwoPhaseCommit, TLC

CONSTANTS w1, w2, r1, m1, s1, s2, s3

HomeApart == [p \in Participant |->
                 CASE p = w1 -> s1 [] p = w2 -> s2 [] OTHER -> s3]
HomeOfWriter == [p \in Participant |-> IF p = w1 THEN s1 ELSE s2]
HomeOfReader == [p \in Participant |-> IF p = r1 THEN s1 ELSE s2]

=============================================================================
