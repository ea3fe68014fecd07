-------------------------- MODULE RestartDetection --------------------------
(***************************************************************************)
(* Restart detection: what a participant did for a transaction before it   *)
(* prepared is only in its server's memory, so a server that restarted     *)
(* must not take part again in a transaction that began before.  It        *)
(* compares the millisecond in the transaction's UUIDv7, stamped by the    *)
(* coordinator's server with the latest database timestamp it has seen,    *)
(* with the millisecond of its own recovery, a strict reading of the same  *)
(* clock.  Timestamps here are milliseconds of MonotonicClock.             *)
(***************************************************************************)
EXTENDS Integers

CONSTANTS
    Server,         \* servers of the application
    Txn,            \* transactions, each retried until it commits
    HomeServer,     \* [Txn -> Server]: where the coordinator lives
    MaxClock,       \* bound: the last millisecond
    MaxRestarts     \* bound: restarts of servers

ASSUME RestartAssumption ==
    /\ HomeServer \in [Txn -> Server]
    /\ MaxClock \in Nat /\ MaxRestarts \in Nat

VARIABLES
    clock,          \* the last reading the database gave
    recovery,       \* _recovery_timestamp_ms of each server
    latest,         \* _latest_timestamp_ms of each server
    memory,         \* transactions each server has a participant of
    stamp,          \* the millisecond in each transaction's id
    attempt,        \* "idle", "body", "refused" or "done"
    touched,        \* servers an attempt has joined
    restarts

restartVars == <<clock, recovery, latest, memory, stamp, attempt, touched,
                 restarts>>

RestartTypeOK ==
    /\ clock \in 0..MaxClock
    /\ recovery \in [Server -> 0..MaxClock]
    /\ latest \in [Server -> 0..MaxClock]
    /\ memory \in [Server -> SUBSET Txn]
    /\ stamp \in [Txn -> 0..MaxClock]
    /\ attempt \in [Txn -> {"idle", "body", "refused", "done"}]
    /\ touched \in [Txn -> SUBSET Server]
    /\ restarts \in 0..MaxRestarts

\* All servers have recovered for the first time.
RestartInit ==
    /\ clock = 0
    /\ recovery = [s \in Server |-> 0]
    /\ latest = [s \in Server |-> 0]
    /\ memory = [s \in Server |-> {}]
    /\ stamp = [t \in Txn |-> 0]
    /\ attempt = [t \in Txn |-> "idle"]
    /\ touched = [t \in Txn |-> {}]
    /\ restarts = 0

\* Now(): any reading not below the last.
Readings == {r \in clock..MaxClock : r <= clock + 1}

\* Mutant: a recovery timestamp that is not a strict reading.
MutStrictReadings == Readings

\* Now(strict=true): a later millisecond.
StrictReadings == {r \in clock..MaxClock : r = clock + 1}

\* Mutant: the latest timestamp is never advanced.
MutUpdateLatest(s, r) == latest[s]

update_latest_timestamp(s, r) == IF r > latest[s] THEN r ELSE latest[s]

\* A response with a timestamp, or the refresh loop.
Refresh(s) ==
    /\ \E r \in Readings :
          /\ clock' = r
          /\ latest' = [latest EXCEPT ![s] = update_latest_timestamp(s, r)]
    /\ UNCHANGED <<recovery, memory, stamp, attempt, touched, restarts>>

\* TransactionContext: uuid7(timestamp_ms=latest_timestamp_ms).
BeginAttempt(t) ==
    /\ attempt[t] = "idle"
    /\ stamp' = [stamp EXCEPT ![t] = latest[HomeServer[t]]]
    /\ attempt' = [attempt EXCEPT ![t] = "body"]
    /\ UNCHANGED <<clock, recovery, latest, memory, touched, restarts>>

RestartedSince(s, t) == recovery[s] > stamp[t]

JoinServer(t, s) ==
    /\ attempt[t] = "body" /\ t \notin memory[s]
    /\ ~RestartedSince(s, t)
    /\ memory' = [memory EXCEPT ![s] = @ \cup {t}]
    /\ touched' = [touched EXCEPT ![t] = @ \cup {s}]
    /\ UNCHANGED <<clock, recovery, latest, stamp, attempt, restarts>>

\* TransactionShouldRetry(RESTART_DETECTED), of a call or of a Prepare.
RestartDetected(t, s) ==
    /\ attempt[t] = "body" /\ t \notin memory[s]
    /\ RestartedSince(s, t)
    /\ attempt' = [attempt EXCEPT ![t] = "refused"]
    /\ UNCHANGED <<clock, recovery, latest, memory, stamp, touched, restarts>>

\* The coordinator refreshes its timestamp, if it can, aborts the
\* participants, and the caller tries again.
AbortAndRetry(t) ==
    /\ attempt[t] = "refused"
    /\ \/ \E r \in Readings :
             /\ clock' = r
             /\ latest' = [latest EXCEPT ![HomeServer[t]] =
                               update_latest_timestamp(HomeServer[t], r)]
       \/ UNCHANGED <<clock, latest>>
    /\ memory' = [s \in Server |-> memory[s] \ {t}]
    /\ touched' = [touched EXCEPT ![t] = {}]
    /\ attempt' = [attempt EXCEPT ![t] = "idle"]
    /\ UNCHANGED <<recovery, stamp, restarts>>

\* Every server the attempt joined still knows it: it prepares and commits.
CommitAttempt(t) ==
    /\ attempt[t] = "body"
    /\ touched[t] = Server
    /\ \A s \in touched[t] : t \in memory[s]
    /\ memory' = [s \in Server |-> memory[s] \ {t}]
    /\ attempt' = [attempt EXCEPT ![t] = "done"]
    /\ UNCHANGED <<clock, recovery, latest, stamp, touched, restarts>>

\* A server dies and recovers.  The attempts it coordinated die with it.
RestartServer(s) ==
    LET lost == {t \in Txn : HomeServer[t] = s /\ attempt[t] # "done"}
    IN  /\ restarts < MaxRestarts
        /\ restarts' = restarts + 1
        /\ \E r \in StrictReadings :
              /\ clock' = r
              /\ recovery' = [recovery EXCEPT ![s] = r]
              /\ latest' = [latest EXCEPT ![s] = r]
        /\ memory' = [x \in Server |-> IF x = s THEN {} ELSE memory[x] \ lost]
        /\ attempt' = [t \in Txn |-> IF t \in lost THEN "idle" ELSE attempt[t]]
        /\ touched' = [t \in Txn |-> IF t \in lost THEN {} ELSE touched[t]]
        /\ UNCHANGED stamp

RestartNext ==
    \/ \E s \in Server : Refresh(s) \/ RestartServer(s)
    \/ \E t \in Txn :
          \/ BeginAttempt(t) \/ AbortAndRetry(t) \/ CommitAttempt(t)
          \/ \E s \in Server : JoinServer(t, s) \/ RestartDetected(t, s)

RestartSpec == RestartInit /\ [][RestartNext]_restartVars

\* Callers retry, method bodies go on, the refresh loop goes on.
RestartProgress(t) ==
    BeginAttempt(t) \/ AbortAndRetry(t) \/ CommitAttempt(t)
        \/ \E s \in Server : JoinServer(t, s) \/ RestartDetected(t, s)

-----------------------------------------------------------------------------
(* Properties.                                                             *)

\* A server that restarted and forgot an attempt never joins it again, so
\* no transaction prepares without what it did there before the restart:
\* restarts and stamps of different servers in the same millisecond included.
ForgottenStaysOut ==
    [][\A t \in Txn, s \in Server : JoinServer(t, s) => s \notin touched[t]
      ]_restartVars

\* "The retry is stamped with a newer timestamp, which is what lets that
\* participant accept the retry": once servers stay up everyone commits.
RetriesAccepted ==
    \A t \in Txn : attempt[t] # "idle" ~> attempt[t] = "done"

=============================================================================
