--------------------------- MODULE ParticipantLock ---------------------------
(***************************************************************************)
(* The lock as a transaction participant uses it when the outcome of its   *)
(* transaction arrives while a writer of the same transaction is suspended *)
(* in `upgrade`.  `writer` upgrades before it takes `transaction.lock`, so *)
(* an Abort RPC, or the watch task that an earlier method of the           *)
(* transaction started, can run `transaction_participant_abort` meanwhile. *)
(* `_complete_participant_transaction` then releases the hold in           *)
(* `transaction.mode`, which is SHARED until `upgrade` returns.            *)
(***************************************************************************)
EXTENDS StateLock

AbortDuringUpgrade(c) ==
    /\ c \in Transaction
    /\ mode[c] = "shared" /\ wait[c] = "upgrade"
    /\ mode' = [mode EXCEPT ![c] = "none"]
    /\ UNCHANGED wait
    /\  \* the upgrade is granted: `assert self._shared > 0` raises at once
        \/ /\ shared = 0
           /\ UNCHANGED <<lockVars, granted>>
        \* the slot is still ours and one other shared hold is left: the
        \* upgrade is granted, and `_remove_shared_holder` raises half way
        \/ /\ shared = 2
           /\ shared' = 0
           /\ exclusive' = TRUE
           /\ upgrader' = None
           /\ shared_holders' = shared_holders \ {c}
           /\ UNCHANGED <<exclusive_holder, waiters, granted>>
        \/ /\ shared > 2
           /\ GrantNone(shared - 1, shared_holders \ {c}, granted)

NextWithAbort == Next \/ \E c \in Client : AbortDuringUpgrade(c)

SpecWithAbort == Init /\ [][NextWithAbort]_vars

=============================================================================
