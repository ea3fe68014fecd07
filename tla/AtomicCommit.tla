---------------------------- MODULE AtomicCommit ----------------------------
(***************************************************************************)
(* What two phase commit promises, seen from the client and from the       *)
(* states that have effects: there is one verdict, it is never revised,    *)
(* every state ends by it, and the client is told nothing else.            *)
(***************************************************************************)
CONSTANT Participant        \* the participants with effects

VARIABLES
    verdict,    \* of the transaction
    fate,       \* of each participant's writes
    told        \* what the client was told, if anything

vars == <<verdict, fate, told>>

Verdict == {"commit", "abort"}

TypeOK ==
    /\ verdict \in Verdict \cup {"none"}
    /\ fate \in [Participant -> {"none", "committed", "aborted"}]
    /\ told \in {"none", "ok", "failed"}

Init ==
    /\ verdict = "none"
    /\ fate = [p \in Participant |-> "none"]
    /\ told = "none"

FateOf(v) == IF v = "commit" THEN "committed" ELSE "aborted"
AnswerOf(v) == IF v = "commit" THEN "ok" ELSE "failed"

Decide(v) ==
    /\ verdict \in {"none", v}
    /\ verdict' = v

\* A participant ends, the client is told, or the verdict is just reached;
\* the first to end or to be told is the moment of the verdict.
End(p, v) ==
    /\ Decide(v)
    /\ fate[p] = "none"
    /\ fate' = [fate EXCEPT ![p] = FateOf(v)]
    /\ UNCHANGED told

Tell(v) ==
    /\ Decide(v)
    /\ told = "none"
    /\ told' = AnswerOf(v)
    /\ UNCHANGED fate

Agree(v) ==
    /\ Decide(v)
    /\ UNCHANGED <<fate, told>>

Next ==
    \E v \in Verdict :
        \/ Agree(v)
        \/ Tell(v)
        \/ \E p \in Participant : End(p, v)

Spec == Init /\ [][Next]_vars

=============================================================================
