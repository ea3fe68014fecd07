--------------------------- MODULE TwoPhaseCommit ---------------------------
(***************************************************************************)
(* Two phase commit of one root transaction, as the state managers of      *)
(* reboot/aio/state_managers.py and the database of                        *)
(* reboot/server/database.cc run it.                                       *)
(*                                                                         *)
(* The states that a transaction touches are its participants; each lives  *)
(* on a server.  The state whose transaction method runs is a participant  *)
(* too, and its server is the coordinator.  All servers of an application  *)
(* share one database, which outlives them.  A server crashes and restarts *)
(* in one step: what it does not do while it is down is a step not taken.  *)
(*                                                                         *)
(* RPCs between servers are sent, delayed, delivered more than once (the   *)
(* caller retries) or lost; a request that has been sent stays in `sent`.  *)
(***************************************************************************)
EXTENDS Naturals, FiniteSets

CONSTANTS
    Writer,         \* participants with effects (hold their lock exclusive)
    Reader,         \* read-only participants (hold their lock shared)
    SortedMap,      \* writers of the type that cannot use restart detection
    Server,
    Home,           \* the server of each participant
    Coordinator,    \* the participant that is the transaction's coordinator
    MaxCrashes      \* bound on the number of crashes

Participant == Writer \cup Reader \cup SortedMap

ASSUME KindAssumption ==
    /\ Writer \cap Reader = {}
    /\ Writer \cap SortedMap = {}
    /\ Reader \cap SortedMap = {}
ASSUME HomeAssumption == Home \in [Participant -> Server]
\* `SortedMap` has no transaction methods, so it never coordinates.
ASSUME CoordinatorAssumption == Coordinator \in Writer \cup Reader
ASSUME MaxCrashesAssumption == MaxCrashes \in Nat

VARIABLES
    \* coordinator's memory
    phase,          \* how far `transaction` / the control loop has come
    future,         \* _coordinator_participants[transaction_id]
    participants,   \* context.participants
    answered,       \* the definitive answer to `Prepare`, per participant
    acked,          \* participants that acknowledged `Commit`
    recording,      \* the database write that runs next to the `Prepare`s
    \* participants' memory
    txn,            \* _participant_transactions: absent, joined or prepared
    task,           \* transaction.prepare_task
    watch,          \* an answer to `Watch` on its way to the participant
    \* the database
    record,         \* coordinator's record: none, preparing or prepared
    db,             \* participant's transaction: none, open or prepared
    written,        \* participants whose database transaction has the writes
    \* the network, and what the client of the transaction was told
    sent,
    client,
    \* history
    outcome,        \* how each participant's transaction ended
    applied,        \* participants whose writes a commit made visible
    restarted,      \* servers that recovered since the transaction started
    lost,           \* participants whose lock a crash released while the
                    \* body was still reading
    mixed,          \* a method ran after an earlier one's lock was lost
    crashes,
    windowCrash     \* the coordinator crashed having published an outcome
                    \* that its record in the database did not say yet

coordVars == <<phase, future, participants, answered, acked, recording>>
partVars == <<txn, task, watch>>
dbVars == <<record, db, written>>
histVars == <<outcome, applied, restarted, lost, mixed, crashes, windowCrash>>
vars == <<coordVars, partVars, dbVars, sent, client, histVars>>

Message == [type : {"Prepare", "Commit", "Abort"}, to : Participant]
Messages(t, S) == {[type |-> t, to |-> p] : p \in S}

using_restart_detection(p) == p \notin SortedMap

\* `Participants.should_commit`: those not read-only.
should_commit == participants \ Reader

TypeOK ==
    /\ phase \in {"body", "prepare", "readonly", "reprepare", "published",
                  "committing", "cleanup", "abort", "done"}
    /\ future \in {"absent", "pending", "commit"}
    /\ participants \subseteq Participant
    /\ answered \in [Participant -> {"none", "ok", "abort"}]
    /\ acked \subseteq Participant
    /\ recording \in {"none", "inflight", "landed"}
    /\ txn \in [Participant -> {"absent", "joined", "prepared"}]
    /\ task \in [Participant -> {"none", "inflight", "failed", "done"}]
    /\ watch \in [Participant -> {"none", "commit", "abort"}]
    /\ record \in {"none", "preparing", "prepared"}
    /\ db \in [Participant -> {"none", "open", "prepared"}]
    /\ written \subseteq Participant
    /\ sent \subseteq Message
    /\ client \in {"waiting", "gone", "ok", "failed"}
    /\ outcome \in [Participant -> {"none", "committed", "aborted", "elided"}]
    /\ applied \subseteq Participant
    /\ restarted \subseteq Server
    /\ lost \subseteq Participant
    /\ mixed \in BOOLEAN
    /\ crashes \in 0..MaxCrashes
    /\ windowCrash \in BOOLEAN

\* `_transaction_coordinator_start`: the coordinator has joined its own
\* transaction and registered the future that `Watch` waits on.
Init ==
    /\ phase = "body"
    /\ future = "pending"
    /\ participants = {Coordinator}
    /\ answered = [p \in Participant |-> "none"]
    /\ acked = {}
    /\ recording = "none"
    /\ txn = [p \in Participant |->
                 IF p = Coordinator THEN "joined" ELSE "absent"]
    /\ task = [p \in Participant |-> "none"]
    /\ watch = [p \in Participant |-> "none"]
    /\ record = "none"
    /\ db = [p \in Participant |-> "none"]
    /\ written = {}
    /\ sent = {}
    /\ client = "waiting"
    /\ outcome = [p \in Participant |-> "none"]
    /\ applied = {}
    /\ restarted = {}
    /\ lost = {}
    /\ mixed = FALSE
    /\ crashes = 0
    /\ windowCrash = FALSE

-----------------------------------------------------------------------------
(* The requests that the database handles.                                 *)

TransactionCoordinatorPrepare == record' = "preparing"
TransactionCoordinatorPrepared == record' = "prepared"
TransactionCoordinatorCleanup == record' = "none"

\* The first store of a state that does not keep its writes in memory.
LookupOrBeginTransaction(p) ==
    /\ db' = [db EXCEPT ![p] = "open"]
    /\ written' = written \cup {p}

\* The writes kept in memory come with the request.
TransactionParticipantPrepare(p) ==
    /\ db' = [db EXCEPT ![p] = "prepared"]
    /\ written' = IF using_restart_detection(p) THEN written \cup {p}
                  ELSE written

TransactionParticipantCommit(p) ==
    /\ db' = [db EXCEPT ![p] = "none"]
    /\ applied' = IF p \in written THEN applied \cup {p} ELSE applied
    /\ written' = written \ {p}

TransactionParticipantAbort(p) ==
    /\ db' = [db EXCEPT ![p] = "none"]
    /\ written' = written \ {p}

-----------------------------------------------------------------------------
(* The body of the transaction: calls of methods of other states.          *)

\* Mutant: a call after a restart joins as if nothing had been lost.
MutJoin(p) ==
    /\ phase = "body"
    /\ txn[p] = "absent"
    /\ txn' = [txn EXCEPT ![p] = "joined"]
    /\ IF using_restart_detection(p)
       THEN UNCHANGED <<db, written>>
       ELSE LookupOrBeginTransaction(p)

\* A method of p runs and p joins.  A sorted map begins its transaction in
\* the database at once; everyone else keeps the writes in memory.
join(p) ==
    /\ phase = "body"
    /\ txn[p] = "absent"
    /\ using_restart_detection(p) => Home[p] \notin restarted
    /\ txn' = [txn EXCEPT ![p] = "joined"]
    /\ IF using_restart_detection(p)
       THEN UNCHANGED <<db, written>>
       ELSE LookupOrBeginTransaction(p)

Call(p) ==
    /\ join(p)
    /\ participants' = participants \cup {p}
    /\ mixed' = (mixed \/ lost \cap participants # {})
    /\ UNCHANGED <<phase, future, answered, acked, recording, task, watch,
                   record, sent, client, outcome, applied, restarted, lost,
                   crashes, windowCrash>>

\* A later call of a state that has joined.
CallAgain(p) ==
    /\ phase = "body"
    /\ txn[p] = "joined"
    /\ mixed' = (mixed \/ lost \cap participants # {})
    /\ UNCHANGED <<coordVars, partVars, dbVars, sent, client, outcome, applied,
                   restarted, lost, crashes, windowCrash>>

\* Mutant: the future is resolved to None but its entry is kept.
MutStartAbort ==
    /\ phase' = "abort"
    /\ future' = "aborted"

\* The exception path of `transaction`, up to the first `await` of
\* `_transaction_coordinator_abort`: the future is resolved to None and its
\* entry deleted, so from here on every `Watch` is answered "aborted".
StartAbort ==
    /\ phase' = "abort"
    /\ future' = "absent"

\* The answer of the method is lost: the caller aborts, not knowing p.
CallLost(p) ==
    /\ join(p)
    /\ StartAbort
    /\ UNCHANGED <<participants, answered, acked, recording, task, watch,
                   record, sent, client, histVars>>

\* p's server recovered after the transaction started: p may have lost what
\* it did in it, so the call is refused and the transaction aborts.
CallRefused(p) ==
    /\ phase = "body"
    /\ txn[p] = "absent"
    /\ using_restart_detection(p)
    /\ Home[p] \in restarted
    /\ StartAbort
    /\ UNCHANGED <<participants, answered, acked, recording, partVars, dbVars,
                   sent, client, histVars>>

\* The method raises.
BodyFails ==
    /\ phase = "body"
    /\ StartAbort
    /\ UNCHANGED <<participants, answered, acked, recording, partVars, dbVars,
                   sent, client, histVars>>

\* The client cancels its call, also while the coordinator prepares.
Cancel ==
    /\ phase \in {"body", "prepare"}
    /\ client' = "gone"
    /\ StartAbort
    /\ UNCHANGED <<participants, answered, acked, recording, partVars, dbVars,
                   sent, histVars>>

-----------------------------------------------------------------------------
(* Coordinator.                                                            *)

\* `_transaction_coordinator_complete`, nothing to commit: the client is
\* answered at once and the `Prepare`s run in the background.
CompleteReadOnly ==
    /\ phase = "body"
    /\ should_commit = {}
    /\ phase' = "readonly"
    /\ client' = "ok"
    /\ sent' = sent \cup Messages("Prepare", participants)
    /\ UNCHANGED <<future, participants, answered, acked, recording, partVars,
                   dbVars, histVars>>

\* The background task ends when everyone prepared or somebody aborted.
FinishReadOnly ==
    /\ phase = "readonly"
    /\ \/ \A p \in participants : answered[p] = "ok"
       \/ \E p \in participants : answered[p] = "abort"
    /\ phase' = "done"
    /\ future' = "absent"
    /\ UNCHANGED <<participants, answered, acked, recording, partVars, dbVars,
                   sent, client, histVars>>

\* Otherwise the participants are recorded and prepared concurrently.
Complete ==
    /\ phase = "body"
    /\ should_commit # {}
    /\ phase' = "prepare"
    /\ recording' = "inflight"
    /\ sent' = sent \cup Messages("Prepare", participants)
    /\ UNCHANGED <<future, participants, answered, acked, partVars, dbVars,
                   client, histVars>>

\* The database handles the record.  If an abort has overtaken it, it still
\* does so, after the cleanup.
RecordLands ==
    /\ recording = "inflight"
    /\ recording' = "landed"
    /\ TransactionCoordinatorPrepare
    /\ UNCHANGED <<phase, future, participants, answered, acked, partVars, db,
                   written, sent, client, histVars>>

\* Mutant: publish once the record is durable, not awaiting the `Prepare`s.
MutPublishUnprepared ==
    /\ phase = "prepare"
    /\ recording = "landed"
    /\ phase' = "published"
    /\ future' = "commit"
    /\ client' = "ok"
    /\ UNCHANGED <<participants, answered, acked, recording, partVars, dbVars,
                   sent, histVars>>

\* Mutant: publish once everyone prepared, not awaiting the record.
MutPublishUnrecorded ==
    /\ phase = "prepare"
    /\ \A p \in participants : answered[p] = "ok"
    /\ phase' = "published"
    /\ future' = "commit"
    /\ client' = "ok"
    /\ UNCHANGED <<participants, answered, acked, recording, partVars, dbVars,
                   sent, histVars>>

\* Both halves of the gather are done: the outcome is published to `Watch`
\* and the client is answered.
Publish ==
    /\ phase = "prepare"
    /\ recording = "landed"
    /\ \A p \in participants : answered[p] = "ok"
    /\ phase' = "published"
    /\ future' = "commit"
    /\ client' = "ok"
    /\ UNCHANGED <<participants, answered, acked, recording, partVars, dbVars,
                   sent, histVars>>

\* Mutant: a recovered coordinator commits without preparing again.
MutPublishRecovered ==
    /\ phase = "reprepare"
    /\ phase' = "published"
    /\ future' = "commit"
    /\ UNCHANGED <<participants, answered, acked, recording, partVars, dbVars,
                   sent, client, histVars>>

\* `_transaction_coordinator_reprepare` succeeds.
PublishRecovered ==
    /\ phase = "reprepare"
    /\ \A p \in should_commit : answered[p] = "ok"
    /\ phase' = "published"
    /\ future' = "commit"
    /\ UNCHANGED <<participants, answered, acked, recording, partVars, dbVars,
                   sent, client, histVars>>

\* A definitive "abort" of a participant.
PrepareAborts ==
    /\ phase \in {"prepare", "reprepare"}
    /\ \E p \in participants : answered[p] = "abort"
    /\ StartAbort
    /\ UNCHANGED <<participants, answered, acked, recording, partVars, dbVars,
                   sent, client, histVars>>

\* The commit control loop: `preparing=False` is made durable, then `Commit`
\* is sent until everyone acknowledged, then the record is removed.
MarkPrepared ==
    /\ phase = "published"
    /\ phase' = "committing"
    /\ TransactionCoordinatorPrepared
    /\ sent' = sent \cup Messages("Commit", should_commit)
    /\ UNCHANGED <<future, participants, answered, acked, recording, partVars,
                   db, written, client, histVars>>

AllCommitted ==
    /\ phase = "committing"
    /\ should_commit \subseteq acked
    /\ phase' = "cleanup"
    /\ future' = "absent"
    /\ UNCHANGED <<participants, answered, acked, recording, partVars, dbVars,
                   sent, client, histVars>>

Cleanup ==
    /\ phase = "cleanup"
    /\ phase' = "done"
    /\ TransactionCoordinatorCleanup
    /\ UNCHANGED <<future, participants, answered, acked, recording, partVars,
                   db, written, sent, client, histVars>>

\* The rest of `_transaction_coordinator_abort`: the record is removed, the
\* participants are told, and the client gets the error.
FinishAbort ==
    /\ phase = "abort"
    /\ phase' = "done"
    /\ TransactionCoordinatorCleanup
    /\ sent' = sent \cup Messages("Abort", participants)
    /\ client' = IF client = "waiting" THEN "failed" ELSE client
    /\ UNCHANGED <<future, participants, answered, acked, recording, partVars,
                   db, written, histVars>>

-----------------------------------------------------------------------------
(* Participant.                                                            *)

\* The response to `Prepare` reaches the coordinator if it still waits for
\* it, or is lost; the coordinator then retries.  Preparing again skips the
\* read-only participants.
Answer(p, a) ==
    \/ /\ \/ phase \in {"prepare", "readonly"}
          \/ phase = "reprepare" /\ p \in should_commit
       /\ answered[p] = "none"
       /\ answered' = [answered EXCEPT ![p] = a]
    \/ UNCHANGED answered

\* `_complete_participant_transaction`: the entry is dropped and the lock
\* released.
Finish(p, how) ==
    /\ txn' = [txn EXCEPT ![p] = "absent"]
    /\ task' = [task EXCEPT ![p] = "none"]
    /\ watch' = [watch EXCEPT ![p] = "none"]
    /\ outcome' = [outcome EXCEPT ![p] = how]

unchangedByPrepare == <<phase, future, participants, acked, recording, dbVars,
                        sent, client, applied, restarted, lost, mixed,
                        crashes, windowCrash>>

\* Mutant: the `read_only` flag alone is taken to mean "prepared earlier".
MutPrepareUnknown(p) ==
    /\ [type |-> "Prepare", to |-> p] \in sent
    /\ txn[p] = "absent"
    /\ Answer(p, IF p \in Reader THEN "ok" ELSE "abort")
    /\ UNCHANGED <<unchangedByPrepare, partVars, outcome>>

\* `Prepare` of a transaction this server does not have.
PrepareUnknown(p) ==
    /\ [type |-> "Prepare", to |-> p] \in sent
    /\ txn[p] = "absent"
    /\ Answer(p, IF /\ using_restart_detection(p)
                    /\ Home[p] \notin restarted
                    /\ p \in Reader
                 THEN "ok" ELSE "abort")
    /\ UNCHANGED <<unchangedByPrepare, partVars, outcome>>

PreparePrepared(p) ==
    /\ [type |-> "Prepare", to |-> p] \in sent
    /\ txn[p] = "prepared"
    /\ Answer(p, "ok")
    /\ UNCHANGED <<unchangedByPrepare, partVars, outcome>>

\* A read-only participant is prepared and committed in memory.
PrepareElided(p) ==
    /\ [type |-> "Prepare", to |-> p] \in sent
    /\ txn[p] = "joined"
    /\ p \in Reader
    /\ Answer(p, "ok")
    /\ Finish(p, "elided")
    /\ UNCHANGED unchangedByPrepare

\* Everyone else starts the task that prepares in the database, unless one
\* is in flight; a failed one is replaced.  (Left out is one with an
\* `unrecoverable_abort`, of which a failed call has told the body: it answers
\* `abort`, as a Prepare that finds no transaction does.)
PrepareStarts(p) ==
    /\ [type |-> "Prepare", to |-> p] \in sent
    /\ txn[p] = "joined"
    /\ p \notin Reader
    /\ task[p] \in {"none", "failed"}
    /\ task' = [task EXCEPT ![p] = "inflight"]
    /\ UNCHANGED <<unchangedByPrepare, answered, txn, watch, outcome>>

PrepareLands(p) ==
    /\ task[p] = "inflight"
    /\ TransactionParticipantPrepare(p)
    /\ task' = [task EXCEPT ![p] = "done"]
    /\ txn' = [txn EXCEPT ![p] = IF @ = "joined" THEN "prepared" ELSE @]
    /\ UNCHANGED <<coordVars, watch, record, sent, client, histVars>>

\* The database call raises, having been handled or not.
PrepareFails(p) ==
    /\ task[p] = "inflight"
    /\ task' = [task EXCEPT ![p] = "failed"]
    /\ \/ TransactionParticipantPrepare(p)
       \/ UNCHANGED <<db, written>>
    /\ UNCHANGED <<coordVars, txn, watch, record, sent, client, histVars>>

\* `transaction_participant_commit`, under `transaction.lock`.  The call of
\* the database and what follows it are one step: a crash between the two
\* leaves what a crash after both leaves.
participant_commit(p) ==
    /\ TransactionParticipantCommit(p)
    /\ Finish(p, "committed")

\* Mutant: an abort does not wait for the prepare in flight.
MutParticipantAbort(p) ==
    /\ TransactionParticipantAbort(p)
    /\ txn' = [txn EXCEPT ![p] = "absent"]
    /\ watch' = [watch EXCEPT ![p] = "none"]
    /\ outcome' = [outcome EXCEPT ![p] = "aborted"]
    /\ UNCHANGED <<applied, task>>

\* `transaction_participant_abort`: waits for a prepare in flight.
participant_abort(p) ==
    /\ task[p] # "inflight"
    /\ TransactionParticipantAbort(p)
    /\ Finish(p, "aborted")
    /\ UNCHANGED applied

unchangedByOutcome == <<phase, future, participants, answered, recording,
                        record, sent, client, restarted, lost, mixed,
                        crashes, windowCrash>>

\* `Commit`, answered at once when the transaction is already gone.
Commit(p) ==
    /\ [type |-> "Commit", to |-> p] \in sent
    /\ \/ phase = "committing" /\ acked' = acked \cup {p}
       \/ UNCHANGED acked
    /\ \/ /\ txn[p] = "absent"
          /\ UNCHANGED <<partVars, db, written, outcome, applied>>
       \/ /\ txn[p] = "prepared"
          /\ participant_commit(p)
    /\ UNCHANGED unchangedByOutcome

Abort(p) ==
    /\ [type |-> "Abort", to |-> p] \in sent
    /\ txn[p] # "absent"
    /\ participant_abort(p)
    /\ UNCHANGED <<unchangedByOutcome, acked>>

\* Mutant: `Watch` of an unknown transaction is not answered.
MutWatch(p) ==
    /\ txn[p] # "absent"
    /\ watch[p] = "none"
    /\ future = "commit"
    /\ watch' = [watch EXCEPT ![p] =
                    IF p \in participants THEN "commit" ELSE "abort"]
    /\ UNCHANGED <<coordVars, txn, task, dbVars, sent, client, histVars>>

\* `Watch`, on the coordinator: answered once the transaction is decided, or
\* not known (any more).
Watch(p) ==
    /\ txn[p] # "absent"
    /\ watch[p] = "none"
    /\ future # "pending"
    /\ watch' = [watch EXCEPT ![p] =
                    IF future = "commit" /\ p \in participants
                    THEN "commit" ELSE "abort"]
    /\ UNCHANGED <<coordVars, txn, task, dbVars, sent, client, histVars>>

\* `_transaction_participant_watch`, once it is answered.
Watched(p) ==
    /\ watch[p] # "none"
    /\ IF watch[p] = "commit" /\ txn[p] = "prepared"
       THEN participant_commit(p)
       ELSE participant_abort(p)
    /\ UNCHANGED <<unchangedByOutcome, acked>>

-----------------------------------------------------------------------------
(* Crash and recovery.                                                     *)

On(S) == {p \in Participant : Home[p] \in S}

\* The transaction as it is made from what the database has of it.
from_sidecar(p) ==
    CASE db[p] = "none" -> "absent"
      [] db[p] = "open" -> "joined"
      [] db[p] = "prepared" -> "prepared"

\* `recover`, as far as it concerns the participants on S.
recover_participants(S) ==
    /\ txn' = [p \in Participant |->
                  IF p \in On(S) THEN from_sidecar(p) ELSE txn[p]]
    /\ task' = [p \in Participant |-> IF p \in On(S) THEN "none" ELSE task[p]]
    /\ watch' = [p \in Participant |-> IF p \in On(S) THEN "none" ELSE watch[p]]

\* The outcome is published, yet a crash now would start over: either the
\* decision to commit is not durable, or the record outlives the abort.
inWindow == future # "pending" /\ record = "preparing"

\* The coordinator starts over from its record; its client's call is broken.
recover_coordinator ==
    /\ answered' = [p \in Participant |-> "none"]
    /\ acked' = {}
    /\ recording' = "none"
    /\ \/ /\ record = "none"
          /\ phase' = "done"
          /\ future' = "absent"
          /\ UNCHANGED sent
       \/ /\ record = "preparing"
          /\ phase' = "reprepare"
          /\ future' = "pending"
          /\ sent' = sent \cup Messages("Prepare", should_commit)
       \/ /\ record = "prepared"
          /\ phase' = "committing"
          /\ future' = "commit"
          /\ sent' = sent \cup Messages("Commit", should_commit)
    /\ client' = IF client = "waiting" THEN "gone" ELSE client
    /\ windowCrash' = (windowCrash \/ inWindow)

\* The servers S crash and restart.
CrashServers(S) ==
    /\ crashes < MaxCrashes
    /\ crashes' = crashes + 1
    /\ recover_participants(S)
    /\ restarted' = restarted \cup S
    /\ lost' = IF phase = "body"
               THEN lost \cup {p \in On(S) : txn[p] = "joined" /\ db[p] = "none"}
               ELSE lost
    /\ IF Home[Coordinator] \in S
       THEN recover_coordinator
       ELSE UNCHANGED <<phase, future, answered, acked, recording, sent,
                        client, windowCrash>>
    /\ UNCHANGED <<participants, record, db, outcome, applied, mixed>>

Crash(s) ==
    /\ CrashServers({s})
    /\ UNCHANGED written

\* The database crashes, and all servers with it.  RocksDB only persists
\* prepared transactions: an open one is begun again, empty.
CrashAll ==
    /\ CrashServers(Server)
    /\ written' = {p \in written : db[p] = "prepared"}

-----------------------------------------------------------------------------

CoordinatorNext ==
    \/ BodyFails \/ Cancel
    \/ CompleteReadOnly \/ FinishReadOnly
    \/ Complete \/ RecordLands \/ Publish \/ PublishRecovered \/ PrepareAborts
    \/ MarkPrepared \/ AllCommitted \/ Cleanup
    \/ FinishAbort

ParticipantNext(p) ==
    \/ Call(p) \/ CallAgain(p) \/ CallLost(p) \/ CallRefused(p)
    \/ PrepareUnknown(p) \/ PreparePrepared(p) \/ PrepareElided(p)
    \/ PrepareStarts(p) \/ PrepareLands(p) \/ PrepareFails(p)
    \/ Commit(p) \/ Abort(p)
    \/ Watch(p) \/ Watched(p)

Next ==
    \/ CoordinatorNext
    \/ \E p \in Participant : ParticipantNext(p)
    \/ \E s \in Server : Crash(s)
    \/ CrashAll

Spec == Init /\ [][Next]_vars

\* RPCs are retried until they are answered, the loops back off and go on,
\* the database in the end handles a prepare, and a method body ends.
PrepareAnswered(p) ==
    /\ PrepareUnknown(p) \/ PreparePrepared(p) \/ PrepareElided(p)
    /\ answered'[p] # "none"
CommitAcked(p) == Commit(p) /\ p \in acked'

Fairness ==
    /\ WF_vars(CompleteReadOnly \/ Complete \/ BodyFails)
    /\ WF_vars(FinishReadOnly)
    /\ WF_vars(RecordLands)
    /\ WF_vars(Publish \/ PublishRecovered \/ PrepareAborts)
    /\ WF_vars(MarkPrepared)
    /\ WF_vars(AllCommitted)
    /\ WF_vars(Cleanup)
    /\ WF_vars(FinishAbort)
    /\ \A p \in Participant :
        /\ WF_vars(PrepareAnswered(p))
        /\ WF_vars(PrepareStarts(p))
        /\ SF_vars(PrepareLands(p))
        /\ WF_vars(CommitAcked(p))
        /\ WF_vars(Watch(p))
        /\ WF_vars(Watched(p))

FairSpec == Spec /\ Fairness

-----------------------------------------------------------------------------
(* Properties.                                                             *)

\* No participant's writes are committed while another's are rolled back,
\* whatever crashes and whatever arrives late or twice.
Atomicity ==
    \A p, q \in Participant \ Reader :
        ~(outcome[p] = "committed" /\ outcome[q] = "aborted")

\* The same, unless the coordinator crashed after a `Watch` could see its
\* outcome and before the database said the same.
AtomicUnlessWindow == windowCrash \/ Atomicity

\* A success the client was told of stands: no participant that should
\* commit aborts afterwards ("This MUST complete _before_ committing").
SuccessStands ==
    client = "ok" => \A p \in should_commit : outcome[p] # "aborted"

\* A failure the client was told of stands, so that it may retry: "we cannot
\* report the transaction as aborted" if a recovery could still commit it.
FailureStands ==
    client = "failed" => \A p \in Participant : outcome[p] # "committed"

\* Both, with the same exception as atomicity.
AnswerStandsUnlessWindow == windowCrash \/ (SuccessStands /\ FailureStands)

\* One verdict, and the answer the client got agrees with it.
DecisionStands == AtomicUnlessWindow /\ AnswerStandsUnlessWindow

\* A commit makes all the writes of the transaction visible: restart
\* detection never lets a participant prepare that has lost some of them.
WritesApplied ==
    \A p \in Writer : outcome[p] = "committed" => p \in applied \ lost

\* The same of the participants that do not use restart detection; "any
\* recovered transactions that are not prepared get aborted".
SortedMapWritesApplied ==
    \A p \in SortedMap : outcome[p] = "committed" => p \in applied

\* A transaction with effects that succeeds has had a consistent view: no
\* method ran after a crash had released the lock of an earlier one.  The
\* `Prepare`s find that out, so it is not claimed of transactions without
\* effects, whose client is answered before them, nor of what a recovered
\* coordinator, which does not prepare the readers again, commits.
ReadsProtected == client = "ok" /\ should_commit # {} => ~mixed

\* A transaction the database holds for a state is known to the state's
\* server, which will commit it or roll it back: a prepare that an abort
\* overtook would refuse every later write to the state.
DatabaseTransactionOwned ==
    \A p \in Participant : db[p] # "none" => txn[p] # "absent"

\* "A commit is only asked for once this participant has answered a
\* `Prepare`": the assertion of `transaction_participant_commit` holds for
\* every `Commit` that may still be delivered.
CommitFindsPrepared ==
    \A p \in Participant :
        [type |-> "Commit", to |-> p] \in sent => txn[p] # "joined"

\* Servers and database agree on which transactions there are, and in which
\* state a Commit finds them.
ParticipantsTracked == TypeOK /\ DatabaseTransactionOwned /\ CommitFindsPrepared

\* Every participant's transaction ends and with it the lock on its state,
\* and the coordinator stops: nobody waits for somebody who forgot.
EveryoneFinishes ==
    <>[](phase = "done" /\ \A p \in Participant : txn[p] = "absent")

-----------------------------------------------------------------------------
(* The refinement: what the client and the states with effects see of the  *)
(* protocol is `AtomicCommit`.                                             *)

\* The transaction is committed once that is published or durable, and
\* aborted once somebody with effects, or the client, has heard so.
verdict ==
    CASE \/ future = "commit" \/ record = "prepared"
         \/ client = "ok"
         \/ \E p \in Participant : outcome[p] = "committed" -> "commit"
      [] \/ client = "failed"
         \/ \E p \in Participant \ Reader : outcome[p] = "aborted" -> "abort"
      [] OTHER -> "none"

fate == [p \in Participant \ Reader |-> outcome[p]]

told == IF client \in {"ok", "failed"} THEN client ELSE "none"

\* The protocol implements `AtomicCommit` (Commitment!Spec) until the
\* coordinator crashes in the window: every step up to there is a step of
\* `AtomicCommit` or invisible.
Commitment == INSTANCE AtomicCommit WITH Participant <- Participant \ Reader
CommitmentSpec ==
    /\ Commitment!Init
    /\ [][Commitment!Next \/ windowCrash']_<<verdict, fate, told>>

=============================================================================
