------------------------ MODULE TwoPhaseCommitProofs ------------------------
(***************************************************************************)
(* Proofs about two phase commit, for any participants, servers, placement *)
(* and number of crashes.                                                  *)
(*                                                                         *)
(* The inductive invariant comes in layers, each kept by a step that keeps *)
(* the ones before it: the coordinator's memory and record follow its      *)
(* phase, each participant's memory follows the database, votes stand,     *)
(* what a crash took is never voted for, and, up to a crash of the         *)
(* coordinator in its window, there is one decision.                       *)
(***************************************************************************)
EXTENDS TwoPhaseCommit, TLAPS

\* The phases before a commit can be published, and those after it.
Undecided == {"body", "prepare", "reprepare"}
Decided == {"published", "committing", "cleanup"}

Request(t, p) == [type |-> t, to |-> p]

\* What the phase says about the future that `Watch` waits on, the record
\* in the database and the write of it that may still be in flight.
CoordinatorOK ==
    /\ phase = "body" =>
          /\ future = "pending" /\ record = "none" /\ recording = "none"
          /\ sent = {} /\ client = "waiting"
          /\ \A p \in Participant : /\ answered[p] = "none"
                                    /\ outcome[p] = "none"
                                    /\ watch[p] = "none"
    /\ phase = "prepare" =>
          /\ future = "pending" /\ client = "waiting" /\ should_commit # {}
          /\ \/ recording = "inflight" /\ record = "none"
             \/ recording = "landed" /\ record = "preparing"
    /\ phase = "readonly" =>
          /\ future = "pending" /\ record = "none" /\ recording = "none"
          /\ client = "ok" /\ should_commit = {}
    /\ phase = "reprepare" =>
          future = "pending" /\ record = "preparing" /\ recording = "none"
    /\ phase = "published" =>
          future = "commit" /\ record = "preparing" /\ recording # "inflight"
    /\ phase = "committing" =>
          future = "commit" /\ record = "prepared" /\ recording # "inflight"
    /\ phase = "cleanup" =>
          /\ future = "absent" /\ record = "prepared"
          /\ recording # "inflight" /\ should_commit \subseteq acked
    /\ phase \in {"abort", "done"} => future = "absent" /\ record # "prepared"
    /\ record # "none" \/ recording = "inflight" => should_commit # {}
    /\ phase \in Undecided \cup {"published"} => acked = {}

\* What a participant's entry in memory says about its prepare task and
\* about its transaction in the database, which a recovery starts from.
ParticipantsOK ==
    \A p \in Participant :
        /\ task[p] \in {"inflight", "failed"} => txn[p] = "joined"
        /\ task[p] = "done" => txn[p] = "prepared"
        /\ txn[p] = "absent" => db[p] = "none" /\ watch[p] = "none"
        /\ txn[p] = "prepared" => db[p] = "prepared"
        /\ txn[p] # "absent" => outcome[p] = "none"
        /\ p \in Reader => /\ db[p] = "none" /\ task[p] = "none"
                           /\ outcome[p] # "committed"
        /\ p \in SortedMap /\ txn[p] = "joined" => db[p] # "none"
        /\ p \in Writer /\ db[p] = "prepared" => p \in written
        /\ p \in Writer /\ outcome[p] = "committed" => p \in applied

\* Whoever has voted, and whoever may be asked to commit, has prepared.
VotesOK ==
    \A p \in Participant :
        /\ answered[p] = "ok" /\ p \notin Reader => txn[p] # "joined"
        /\ phase \in Decided /\ p \in should_commit => txn[p] # "joined"
        /\ Request("Commit", p) \in sent => txn[p] # "joined" /\ p \notin Reader

\* A participant that lost its lock to a crash is gone, and its server
\* remembers that it recovered, so that it does not vote for what it lost.
LossesOK ==
    /\ \A p \in lost : /\ p \notin SortedMap
                       /\ txn[p] = "absent"
                       /\ Home[p] \in restarted
                       /\ answered[p] # "ok"
                       /\ outcome[p] # "committed"
    /\ mixed => lost \cap participants # {}
    /\ ReadsProtected

\* Nobody has heard of a commit; nobody with effects has heard of an abort;
\* everybody with effects has committed.
NoCommit ==
    /\ client # "ok"
    /\ \A p \in Participant : /\ outcome[p] # "committed"
                              /\ watch[p] # "commit"
                              /\ Request("Commit", p) \notin sent
NoAbort ==
    /\ client # "failed"
    /\ \A p \in Participant \ Reader : /\ outcome[p] # "aborted"
                                       /\ watch[p] # "abort"
                                       /\ Request("Abort", p) \notin sent
AllCommit ==
    /\ client # "failed"
    /\ should_commit = {} => client = "ok"
    /\ \A p \in Participant \ Reader :
          /\ txn[p] = "absent"
          /\ outcome[p] = IF p \in participants THEN "committed" ELSE "none"

\* What has been heard in which phase: nothing before the decision, only a
\* commit after it, and at the end not both.
DecisionOK ==
    /\ phase \in Undecided =>
          /\ NoCommit /\ NoAbort
          /\ \A p \in Participant \ Reader : outcome[p] = "none"
    /\ phase = "readonly" => NoAbort /\ AllCommit
    /\ phase \in Decided => NoAbort
    /\ phase \in Undecided \cup Decided =>
          \A p \in Participant \ Reader :
              IF p \in participants
              THEN phase \in Decided \/ answered[p] = "ok" =>
                      txn[p] = "prepared" \/ outcome[p] = "committed"
              ELSE txn[p] = "absent" /\ outcome[p] = "none"
    /\ phase \in Decided => \A p \in acked : txn[p] = "absent"
    /\ phase = "abort" => NoCommit
    /\ phase = "done" => NoCommit \/ AllCommit

IndInv ==
    /\ TypeOK
    /\ CoordinatorOK
    /\ ParticipantsOK
    /\ VotesOK
    /\ LossesOK
    /\ windowCrash \/ DecisionOK

-----------------------------------------------------------------------------
(* What the actions have in common.                                        *)

\* A recovering server has of each of its participants what the database
\* has of it, and nothing else.
LEMMA Recovery ==
    ASSUME TypeOK, NEW S \in SUBSET Server, recover_participants(S),
           NEW q \in Participant
    PROVE  /\ q \in On(S) =>
                 /\ task'[q] = "none" /\ watch'[q] = "none"
                 /\ txn'[q] = IF db[q] = "none" THEN "absent"
                              ELSE IF db[q] = "open" THEN "joined"
                              ELSE "prepared"
           /\ q \notin On(S) => /\ task'[q] = task[q] /\ watch'[q] = watch[q]
                                /\ txn'[q] = txn[q]
<1>1. from_sidecar(q) = IF db[q] = "none" THEN "absent"
                        ELSE IF db[q] = "open" THEN "joined"
                        ELSE "prepared"
  BY DEF TypeOK, from_sidecar
<1> QED
  BY <1>1 DEF recover_participants

\* A broadcast to S of one type sends nothing else to anybody.
LEMMA InMessages ==
    ASSUME NEW t, NEW u, NEW S, NEW p
    PROVE  Request(t, p) \in Messages(u, S) <=> t = u /\ p \in S
BY DEF Request, Messages

-----------------------------------------------------------------------------
(* The layers of the invariant, one step each.                             *)

\* Every step keeps the types.
LEMMA TypeStep ==
    ASSUME TypeOK, [Next]_vars
    PROVE  TypeOK'
<1> USE DEF TypeOK, coordVars, partVars, dbVars, histVars, unchangedByPrepare,
            unchangedByOutcome
<1>1. CASE BodyFails
  BY <1>1 DEF BodyFails, StartAbort
<1>2. CASE Cancel
  BY <1>2 DEF Cancel, StartAbort
<1>3. CASE CompleteReadOnly
  BY <1>3 DEF CompleteReadOnly, Messages, Message
<1>4. CASE FinishReadOnly
  BY <1>4 DEF FinishReadOnly
<1>5. CASE Complete
  BY <1>5 DEF Complete, Messages, Message
<1>6. CASE RecordLands
  BY <1>6 DEF RecordLands, TransactionCoordinatorPrepare
<1>7. CASE Publish
  BY <1>7 DEF Publish
<1>8. CASE PublishRecovered
  BY <1>8 DEF PublishRecovered
<1>9. CASE PrepareAborts
  BY <1>9 DEF PrepareAborts, StartAbort
<1>10. CASE MarkPrepared
  BY <1>10
  DEF MarkPrepared, TransactionCoordinatorPrepared, Messages, Message,
      should_commit
<1>11. CASE AllCommitted
  BY <1>11 DEF AllCommitted
<1>12. CASE Cleanup
  BY <1>12 DEF Cleanup, TransactionCoordinatorCleanup
<1>13. CASE FinishAbort
  BY <1>13
  DEF FinishAbort, TransactionCoordinatorCleanup, Messages, Message
<1>14. ASSUME NEW p \in Participant, Call(p)
       PROVE  TypeOK'
  BY <1>14 DEF Call, join, LookupOrBeginTransaction
<1>15. ASSUME NEW p \in Participant, CallAgain(p)
       PROVE  TypeOK'
  BY <1>15 DEF CallAgain
<1>16. ASSUME NEW p \in Participant, CallLost(p)
       PROVE  TypeOK'
  BY <1>16 DEF CallLost, join, LookupOrBeginTransaction, StartAbort
<1>17. ASSUME NEW p \in Participant, CallRefused(p)
       PROVE  TypeOK'
  BY <1>17 DEF CallRefused, StartAbort
<1>18. ASSUME NEW p \in Participant, PrepareUnknown(p)
       PROVE  TypeOK'
  BY <1>18 DEF PrepareUnknown, Answer
<1>19. ASSUME NEW p \in Participant, PreparePrepared(p)
       PROVE  TypeOK'
  BY <1>19 DEF PreparePrepared, Answer
<1>20. ASSUME NEW p \in Participant, PrepareElided(p)
       PROVE  TypeOK'
  BY <1>20 DEF PrepareElided, Answer, Finish
<1>21. ASSUME NEW p \in Participant, PrepareStarts(p)
       PROVE  TypeOK'
  BY <1>21 DEF PrepareStarts
<1>22. ASSUME NEW p \in Participant, PrepareLands(p)
       PROVE  TypeOK'
  BY <1>22 DEF PrepareLands, TransactionParticipantPrepare
<1>23. ASSUME NEW p \in Participant, PrepareFails(p)
       PROVE  TypeOK'
  BY <1>23 DEF PrepareFails, TransactionParticipantPrepare
<1>24. ASSUME NEW p \in Participant, Commit(p)
       PROVE  TypeOK'
  BY <1>24
  DEF Commit, participant_commit, TransactionParticipantCommit, Finish
<1>25. ASSUME NEW p \in Participant, Abort(p)
       PROVE  TypeOK'
  BY <1>25
  DEF Abort, participant_abort, TransactionParticipantAbort, Finish
<1>26. ASSUME NEW p \in Participant, Watch(p)
       PROVE  TypeOK'
  BY <1>26 DEF Watch
<1>27. ASSUME NEW p \in Participant, Watched(p)
       PROVE  TypeOK'
  BY <1>27
  DEF Watched, participant_commit, participant_abort, Finish,
      TransactionParticipantCommit, TransactionParticipantAbort
<1>28. ASSUME NEW S \in SUBSET Server, CrashServers(S),
              written' \in {written, {p \in written : db[p] = "prepared"}}
       PROVE  TypeOK'
  <2>1. ASSUME NEW q \in Participant
        PROVE  from_sidecar(q) \in {"absent", "joined", "prepared"}
    BY DEF from_sidecar
  <2>2. /\ txn' \in [Participant -> {"absent", "joined", "prepared"}]
        /\ task' \in [Participant -> {"none", "inflight", "failed", "done"}]
        /\ watch' \in [Participant -> {"none", "commit", "abort"}]
    BY <1>28, <2>1 DEF CrashServers, recover_participants
  <2>3. crashes' \in 0..MaxCrashes
    BY <1>28, MaxCrashesAssumption DEF CrashServers
  <2>4. CASE Home[Coordinator] \in S
    <3>1. sent' \subseteq Message
      BY <1>28, <2>4 DEF CrashServers, recover_coordinator, Messages, Message,
                         should_commit
    <3>2. windowCrash' \in BOOLEAN
      BY <1>28, <2>4 DEF CrashServers, recover_coordinator, inWindow
    <3> QED
      BY <1>28, <2>2, <2>3, <2>4, <3>1, <3>2
      DEF CrashServers, recover_coordinator, On
  <2>5. CASE Home[Coordinator] \notin S
    BY <1>28, <2>2, <2>3, <2>5 DEF CrashServers, On
  <2> QED
    BY <2>4, <2>5
<1>29. CASE UNCHANGED vars
  BY <1>29 DEF vars
<1> HIDE DEF TypeOK
<1> QED
  BY <1>1, <1>2, <1>3, <1>4, <1>5, <1>6, <1>7, <1>8, <1>9, <1>10, <1>11,
     <1>12, <1>13, <1>14, <1>15, <1>16, <1>17, <1>18, <1>19, <1>20, <1>21,
     <1>22, <1>23, <1>24, <1>25, <1>26, <1>27, <1>28, <1>29
  DEF Next, CoordinatorNext, ParticipantNext, Crash, CrashAll, vars, dbVars

\* Every step keeps the coordinator's future, its record and the write in
\* flight in line with its phase.
LEMMA CoordinatorStep ==
    ASSUME TypeOK, TypeOK', CoordinatorOK, [Next]_vars
    PROVE  CoordinatorOK'
<1> USE DEF TypeOK, CoordinatorOK, Undecided, should_commit, coordVars,
            partVars, dbVars, histVars, unchangedByPrepare, unchangedByOutcome
<1>1. CASE BodyFails
  BY <1>1 DEF BodyFails, StartAbort
<1>2. CASE Cancel
  BY <1>2 DEF Cancel, StartAbort
<1>3. CASE CompleteReadOnly
  BY <1>3 DEF CompleteReadOnly
<1>4. CASE FinishReadOnly
  BY <1>4 DEF FinishReadOnly
<1>5. CASE Complete
  BY <1>5 DEF Complete
<1>6. CASE RecordLands
  BY <1>6 DEF RecordLands, TransactionCoordinatorPrepare
<1>7. CASE Publish
  BY <1>7 DEF Publish
<1>8. CASE PublishRecovered
  BY <1>8 DEF PublishRecovered
<1>9. CASE PrepareAborts
  BY <1>9 DEF PrepareAborts, StartAbort
<1>10. CASE MarkPrepared
  BY <1>10 DEF MarkPrepared, TransactionCoordinatorPrepared
<1>11. CASE AllCommitted
  BY <1>11 DEF AllCommitted
<1>12. CASE Cleanup
  BY <1>12 DEF Cleanup, TransactionCoordinatorCleanup
<1>13. CASE FinishAbort
  BY <1>13 DEF FinishAbort, TransactionCoordinatorCleanup
<1>14. ASSUME NEW p \in Participant, Call(p)
       PROVE  CoordinatorOK'
  BY <1>14 DEF Call, join, LookupOrBeginTransaction
<1>15. ASSUME NEW p \in Participant, CallAgain(p)
       PROVE  CoordinatorOK'
  BY <1>15 DEF CallAgain
<1>16. ASSUME NEW p \in Participant, CallLost(p)
       PROVE  CoordinatorOK'
  BY <1>16 DEF CallLost, join, LookupOrBeginTransaction, StartAbort
<1>17. ASSUME NEW p \in Participant, CallRefused(p)
       PROVE  CoordinatorOK'
  BY <1>17 DEF CallRefused, StartAbort
<1>18. ASSUME NEW p \in Participant, PrepareUnknown(p)
       PROVE  CoordinatorOK'
  BY <1>18 DEF PrepareUnknown, Answer
<1>19. ASSUME NEW p \in Participant, PreparePrepared(p)
       PROVE  CoordinatorOK'
  BY <1>19 DEF PreparePrepared, Answer
<1>20. ASSUME NEW p \in Participant, PrepareElided(p)
       PROVE  CoordinatorOK'
  BY <1>20 DEF PrepareElided, Answer, Finish
<1>21. ASSUME NEW p \in Participant, PrepareStarts(p)
       PROVE  CoordinatorOK'
  BY <1>21 DEF PrepareStarts
<1>22. ASSUME NEW p \in Participant, PrepareLands(p)
       PROVE  CoordinatorOK'
  BY <1>22 DEF PrepareLands, TransactionParticipantPrepare
<1>23. ASSUME NEW p \in Participant, PrepareFails(p)
       PROVE  CoordinatorOK'
  BY <1>23 DEF PrepareFails, TransactionParticipantPrepare
<1>24. ASSUME NEW p \in Participant, Commit(p)
       PROVE  CoordinatorOK'
  BY <1>24
  DEF Commit, participant_commit, TransactionParticipantCommit, Finish
<1>25. ASSUME NEW p \in Participant, Abort(p)
       PROVE  CoordinatorOK'
  BY <1>25
  DEF Abort, participant_abort, TransactionParticipantAbort, Finish
<1>26. ASSUME NEW p \in Participant, Watch(p)
       PROVE  CoordinatorOK'
  BY <1>26 DEF Watch
<1>27. ASSUME NEW p \in Participant, Watched(p)
       PROVE  CoordinatorOK'
  BY <1>27
  DEF Watched, participant_commit, participant_abort, Finish,
      TransactionParticipantCommit, TransactionParticipantAbort
<1>28. ASSUME NEW S \in SUBSET Server, CrashServers(S),
              written' \in {written, {p \in written : db[p] = "prepared"}}
       PROVE  CoordinatorOK'
  BY Recovery, <1>28 DEF CrashServers, recover_coordinator
<1>29. CASE UNCHANGED vars
  BY <1>29 DEF vars
<1> HIDE DEF TypeOK, CoordinatorOK, Undecided, should_commit
<1> QED
  BY <1>1, <1>2, <1>3, <1>4, <1>5, <1>6, <1>7, <1>8, <1>9, <1>10, <1>11,
     <1>12, <1>13, <1>14, <1>15, <1>16, <1>17, <1>18, <1>19, <1>20, <1>21,
     <1>22, <1>23, <1>24, <1>25, <1>26, <1>27, <1>28, <1>29
  DEF Next, CoordinatorNext, ParticipantNext, Crash, CrashAll, vars, dbVars

\* Every step keeps each participant's memory in line with the database.
LEMMA ParticipantsStep ==
    ASSUME TypeOK, TypeOK', CoordinatorOK, ParticipantsOK, [Next]_vars
    PROVE  ParticipantsOK'
<1> USE DEF TypeOK, CoordinatorOK, ParticipantsOK, using_restart_detection,
            coordVars, partVars, dbVars, histVars, unchangedByPrepare,
            unchangedByOutcome
<1>1. CASE BodyFails
  BY <1>1 DEF BodyFails, StartAbort
<1>2. CASE Cancel
  BY <1>2 DEF Cancel, StartAbort
<1>3. CASE CompleteReadOnly
  BY <1>3 DEF CompleteReadOnly
<1>4. CASE FinishReadOnly
  BY <1>4 DEF FinishReadOnly
<1>5. CASE Complete
  BY <1>5 DEF Complete
<1>6. CASE RecordLands
  BY <1>6 DEF RecordLands, TransactionCoordinatorPrepare
<1>7. CASE Publish
  BY <1>7 DEF Publish
<1>8. CASE PublishRecovered
  BY <1>8 DEF PublishRecovered
<1>9. CASE PrepareAborts
  BY <1>9 DEF PrepareAborts, StartAbort
<1>10. CASE MarkPrepared
  BY <1>10 DEF MarkPrepared, TransactionCoordinatorPrepared
<1>11. CASE AllCommitted
  BY <1>11 DEF AllCommitted
<1>12. CASE Cleanup
  BY <1>12 DEF Cleanup, TransactionCoordinatorCleanup
<1>13. CASE FinishAbort
  BY <1>13 DEF FinishAbort, TransactionCoordinatorCleanup
<1>14. ASSUME NEW p \in Participant, Call(p)
       PROVE  ParticipantsOK'
  BY KindAssumption, <1>14 DEF Call, join, LookupOrBeginTransaction
<1>15. ASSUME NEW p \in Participant, CallAgain(p)
       PROVE  ParticipantsOK'
  BY <1>15 DEF CallAgain
<1>16. ASSUME NEW p \in Participant, CallLost(p)
       PROVE  ParticipantsOK'
  BY KindAssumption, <1>16
  DEF CallLost, join, LookupOrBeginTransaction, StartAbort
<1>17. ASSUME NEW p \in Participant, CallRefused(p)
       PROVE  ParticipantsOK'
  BY <1>17 DEF CallRefused, StartAbort
<1>18. ASSUME NEW p \in Participant, PrepareUnknown(p)
       PROVE  ParticipantsOK'
  BY <1>18 DEF PrepareUnknown, Answer
<1>19. ASSUME NEW p \in Participant, PreparePrepared(p)
       PROVE  ParticipantsOK'
  BY <1>19 DEF PreparePrepared, Answer
<1>20. ASSUME NEW p \in Participant, PrepareElided(p)
       PROVE  ParticipantsOK'
  BY <1>20 DEF PrepareElided, Answer, Finish
<1>21. ASSUME NEW p \in Participant, PrepareStarts(p)
       PROVE  ParticipantsOK'
  BY <1>21 DEF PrepareStarts
<1>22. ASSUME NEW p \in Participant, PrepareLands(p)
       PROVE  ParticipantsOK'
  BY KindAssumption, <1>22
  DEF PrepareLands, TransactionParticipantPrepare
<1>23. ASSUME NEW p \in Participant, PrepareFails(p)
       PROVE  ParticipantsOK'
  BY KindAssumption, <1>23
  DEF PrepareFails, TransactionParticipantPrepare
<1>24. ASSUME NEW p \in Participant, Commit(p)
       PROVE  ParticipantsOK'
  BY <1>24
  DEF Commit, participant_commit, TransactionParticipantCommit, Finish
<1>25. ASSUME NEW p \in Participant, Abort(p)
       PROVE  ParticipantsOK'
  BY <1>25
  DEF Abort, participant_abort, TransactionParticipantAbort, Finish
<1>26. ASSUME NEW p \in Participant, Watch(p)
       PROVE  ParticipantsOK'
  BY <1>26 DEF Watch
<1>27. ASSUME NEW p \in Participant, Watched(p)
       PROVE  ParticipantsOK'
  BY <1>27
  DEF Watched, participant_commit, participant_abort, Finish,
      TransactionParticipantCommit, TransactionParticipantAbort
<1>28. ASSUME NEW S \in SUBSET Server, CrashServers(S),
              written' \in {written, {p \in written : db[p] = "prepared"}}
       PROVE  ParticipantsOK'
  BY Recovery, <1>28 DEF CrashServers, recover_coordinator
<1>29. CASE UNCHANGED vars
  BY <1>29 DEF vars
<1> HIDE DEF TypeOK, CoordinatorOK, ParticipantsOK, using_restart_detection
<1> QED
  BY <1>1, <1>2, <1>3, <1>4, <1>5, <1>6, <1>7, <1>8, <1>9, <1>10, <1>11,
     <1>12, <1>13, <1>14, <1>15, <1>16, <1>17, <1>18, <1>19, <1>20, <1>21,
     <1>22, <1>23, <1>24, <1>25, <1>26, <1>27, <1>28, <1>29
  DEF Next, CoordinatorNext, ParticipantNext, Crash, CrashAll, vars, dbVars

\* A vote stands: whoever has voted, or is asked to commit, is not merely
\* joined, through every crash and late delivery.
LEMMA VotesStep ==
    ASSUME TypeOK, TypeOK', CoordinatorOK, ParticipantsOK, VotesOK,
           [Next]_vars
    PROVE  VotesOK'
<1> USE DEF TypeOK, CoordinatorOK, ParticipantsOK, VotesOK, should_commit,
            Decided, using_restart_detection, coordVars, partVars, dbVars,
            histVars, unchangedByPrepare, unchangedByOutcome
<1>1. CASE BodyFails
  BY <1>1 DEF BodyFails, StartAbort
<1>2. CASE Cancel
  BY <1>2 DEF Cancel, StartAbort
<1>3. CASE CompleteReadOnly
  BY InMessages, <1>3 DEF CompleteReadOnly
<1>4. CASE FinishReadOnly
  BY <1>4 DEF FinishReadOnly
<1>5. CASE Complete
  BY InMessages, <1>5 DEF Complete
<1>6. CASE RecordLands
  BY <1>6 DEF RecordLands, TransactionCoordinatorPrepare
<1>7. CASE Publish
  BY <1>7 DEF Publish
<1>8. CASE PublishRecovered
  BY <1>8 DEF PublishRecovered
<1>9. CASE PrepareAborts
  BY <1>9 DEF PrepareAborts, StartAbort
<1>10. CASE MarkPrepared
  BY InMessages, <1>10 DEF MarkPrepared, TransactionCoordinatorPrepared
<1>11. CASE AllCommitted
  BY <1>11 DEF AllCommitted
<1>12. CASE Cleanup
  BY <1>12 DEF Cleanup, TransactionCoordinatorCleanup
<1>13. CASE FinishAbort
  BY InMessages, <1>13 DEF FinishAbort, TransactionCoordinatorCleanup
<1>14. ASSUME NEW p \in Participant, Call(p)
       PROVE  VotesOK'
  BY <1>14 DEF Call, join, LookupOrBeginTransaction
<1>15. ASSUME NEW p \in Participant, CallAgain(p)
       PROVE  VotesOK'
  BY <1>15 DEF CallAgain
<1>16. ASSUME NEW p \in Participant, CallLost(p)
       PROVE  VotesOK'
  BY <1>16 DEF CallLost, join, LookupOrBeginTransaction, StartAbort
<1>17. ASSUME NEW p \in Participant, CallRefused(p)
       PROVE  VotesOK'
  BY <1>17 DEF CallRefused, StartAbort
<1>18. ASSUME NEW p \in Participant, PrepareUnknown(p)
       PROVE  VotesOK'
  BY <1>18 DEF PrepareUnknown, Answer
<1>19. ASSUME NEW p \in Participant, PreparePrepared(p)
       PROVE  VotesOK'
  BY <1>19 DEF PreparePrepared, Answer
<1>20. ASSUME NEW p \in Participant, PrepareElided(p)
       PROVE  VotesOK'
  BY <1>20 DEF PrepareElided, Answer, Finish
<1>21. ASSUME NEW p \in Participant, PrepareStarts(p)
       PROVE  VotesOK'
  BY <1>21 DEF PrepareStarts
<1>22. ASSUME NEW p \in Participant, PrepareLands(p)
       PROVE  VotesOK'
  BY <1>22 DEF PrepareLands, TransactionParticipantPrepare
<1>23. ASSUME NEW p \in Participant, PrepareFails(p)
       PROVE  VotesOK'
  BY <1>23 DEF PrepareFails, TransactionParticipantPrepare
<1>24. ASSUME NEW p \in Participant, Commit(p)
       PROVE  VotesOK'
  BY <1>24
  DEF Commit, participant_commit, TransactionParticipantCommit, Finish
<1>25. ASSUME NEW p \in Participant, Abort(p)
       PROVE  VotesOK'
  BY <1>25
  DEF Abort, participant_abort, TransactionParticipantAbort, Finish
<1>26. ASSUME NEW p \in Participant, Watch(p)
       PROVE  VotesOK'
  BY <1>26 DEF Watch
<1>27. ASSUME NEW p \in Participant, Watched(p)
       PROVE  VotesOK'
  BY <1>27
  DEF Watched, participant_commit, participant_abort, Finish,
      TransactionParticipantCommit, TransactionParticipantAbort
<1>28. ASSUME NEW S \in SUBSET Server, CrashServers(S),
              written' \in {written, {p \in written : db[p] = "prepared"}}
       PROVE  VotesOK'
  BY InMessages, Recovery, <1>28 DEF CrashServers, recover_coordinator
<1>29. CASE UNCHANGED vars
  BY <1>29 DEF vars
<1> HIDE DEF TypeOK, CoordinatorOK, ParticipantsOK, VotesOK, should_commit,
             Decided, using_restart_detection
<1> QED
  BY <1>1, <1>2, <1>3, <1>4, <1>5, <1>6, <1>7, <1>8, <1>9, <1>10, <1>11,
     <1>12, <1>13, <1>14, <1>15, <1>16, <1>17, <1>18, <1>19, <1>20, <1>21,
     <1>22, <1>23, <1>24, <1>25, <1>26, <1>27, <1>28, <1>29
  DEF Next, CoordinatorNext, ParticipantNext, Crash, CrashAll, vars, dbVars

\* What a crash took from a participant, that participant never votes for.
LEMMA LossesStep ==
    ASSUME TypeOK, TypeOK', CoordinatorOK, ParticipantsOK, LossesOK,
           [Next]_vars
    PROVE  LossesOK'
<1> USE DEF TypeOK, CoordinatorOK, ParticipantsOK, LossesOK, ReadsProtected,
            should_commit, using_restart_detection, coordVars, partVars,
            dbVars, histVars, unchangedByPrepare, unchangedByOutcome
<1>1. CASE BodyFails
  BY <1>1 DEF BodyFails, StartAbort
<1>2. CASE Cancel
  BY <1>2 DEF Cancel, StartAbort
<1>3. CASE CompleteReadOnly
  BY <1>3 DEF CompleteReadOnly
<1>4. CASE FinishReadOnly
  BY <1>4 DEF FinishReadOnly
<1>5. CASE Complete
  BY <1>5 DEF Complete
<1>6. CASE RecordLands
  BY <1>6 DEF RecordLands, TransactionCoordinatorPrepare
<1>7. CASE Publish
  BY <1>7 DEF Publish
<1>8. CASE PublishRecovered
  BY <1>8 DEF PublishRecovered
<1>9. CASE PrepareAborts
  BY <1>9 DEF PrepareAborts, StartAbort
<1>10. CASE MarkPrepared
  BY <1>10 DEF MarkPrepared, TransactionCoordinatorPrepared
<1>11. CASE AllCommitted
  BY <1>11 DEF AllCommitted
<1>12. CASE Cleanup
  BY <1>12 DEF Cleanup, TransactionCoordinatorCleanup
<1>13. CASE FinishAbort
  BY <1>13 DEF FinishAbort, TransactionCoordinatorCleanup
<1>14. ASSUME NEW p \in Participant, Call(p)
       PROVE  LossesOK'
  BY <1>14 DEF Call, join, LookupOrBeginTransaction
<1>15. ASSUME NEW p \in Participant, CallAgain(p)
       PROVE  LossesOK'
  BY <1>15 DEF CallAgain
<1>16. ASSUME NEW p \in Participant, CallLost(p)
       PROVE  LossesOK'
  BY <1>16 DEF CallLost, join, LookupOrBeginTransaction, StartAbort
<1>17. ASSUME NEW p \in Participant, CallRefused(p)
       PROVE  LossesOK'
  BY <1>17 DEF CallRefused, StartAbort
<1>18. ASSUME NEW p \in Participant, PrepareUnknown(p)
       PROVE  LossesOK'
  BY <1>18 DEF PrepareUnknown, Answer
<1>19. ASSUME NEW p \in Participant, PreparePrepared(p)
       PROVE  LossesOK'
  BY <1>19 DEF PreparePrepared, Answer
<1>20. ASSUME NEW p \in Participant, PrepareElided(p)
       PROVE  LossesOK'
  BY <1>20 DEF PrepareElided, Answer, Finish
<1>21. ASSUME NEW p \in Participant, PrepareStarts(p)
       PROVE  LossesOK'
  BY <1>21 DEF PrepareStarts
<1>22. ASSUME NEW p \in Participant, PrepareLands(p)
       PROVE  LossesOK'
  BY <1>22 DEF PrepareLands, TransactionParticipantPrepare
<1>23. ASSUME NEW p \in Participant, PrepareFails(p)
       PROVE  LossesOK'
  BY <1>23 DEF PrepareFails, TransactionParticipantPrepare
<1>24. ASSUME NEW p \in Participant, Commit(p)
       PROVE  LossesOK'
  BY <1>24
  DEF Commit, participant_commit, TransactionParticipantCommit, Finish
<1>25. ASSUME NEW p \in Participant, Abort(p)
       PROVE  LossesOK'
  BY <1>25
  DEF Abort, participant_abort, TransactionParticipantAbort, Finish
<1>26. ASSUME NEW p \in Participant, Watch(p)
       PROVE  LossesOK'
  BY <1>26 DEF Watch
<1>27. ASSUME NEW p \in Participant, Watched(p)
       PROVE  LossesOK'
  BY <1>27
  DEF Watched, participant_commit, participant_abort, Finish,
      TransactionParticipantCommit, TransactionParticipantAbort
<1>28. ASSUME NEW S \in SUBSET Server, CrashServers(S),
              written' \in {written, {p \in written : db[p] = "prepared"}}
       PROVE  LossesOK'
  BY Recovery, <1>28 DEF CrashServers, recover_coordinator, On
<1>29. CASE UNCHANGED vars
  BY <1>29 DEF vars
<1> HIDE DEF TypeOK, CoordinatorOK, ParticipantsOK, LossesOK, ReadsProtected,
             should_commit, using_restart_detection
<1> QED
  BY <1>1, <1>2, <1>3, <1>4, <1>5, <1>6, <1>7, <1>8, <1>9, <1>10, <1>11,
     <1>12, <1>13, <1>14, <1>15, <1>16, <1>17, <1>18, <1>19, <1>20, <1>21,
     <1>22, <1>23, <1>24, <1>25, <1>26, <1>27, <1>28, <1>29
  DEF Next, CoordinatorNext, ParticipantNext, Crash, CrashAll, vars, dbVars

\* Up to a crash in the window every step keeps to the decision.
LEMMA DecisionStep ==
    ASSUME TypeOK, TypeOK', CoordinatorOK, ParticipantsOK, VotesOK, LossesOK,
           windowCrash \/ DecisionOK, ~windowCrash', [Next]_vars
    PROVE  DecisionOK'
<1> USE DEF TypeOK, CoordinatorOK, ParticipantsOK, VotesOK, LossesOK,
            DecisionOK, NoCommit, NoAbort, AllCommit, Decided, Undecided,
            should_commit, coordVars, partVars, dbVars, histVars,
            unchangedByPrepare, unchangedByOutcome
<1>1. CASE BodyFails
  BY <1>1 DEF BodyFails, StartAbort
<1>2. CASE Cancel
  BY <1>2 DEF Cancel, StartAbort
<1>3. CASE CompleteReadOnly
  BY InMessages, <1>3 DEF CompleteReadOnly
<1>4. CASE FinishReadOnly
  BY <1>4 DEF FinishReadOnly
<1>5. CASE Complete
  BY InMessages, <1>5 DEF Complete
<1>6. CASE RecordLands
  BY <1>6 DEF RecordLands, TransactionCoordinatorPrepare
<1>7. CASE Publish
  BY <1>7 DEF Publish
<1>8. CASE PublishRecovered
  BY <1>8 DEF PublishRecovered
<1>9. CASE PrepareAborts
  BY <1>9 DEF PrepareAborts, StartAbort
<1>10. CASE MarkPrepared
  BY InMessages, <1>10 DEF MarkPrepared, TransactionCoordinatorPrepared
<1>11. CASE AllCommitted
  BY <1>11 DEF AllCommitted
<1>12. CASE Cleanup
  BY <1>12 DEF Cleanup, TransactionCoordinatorCleanup
<1>13. CASE FinishAbort
  BY InMessages, <1>13 DEF FinishAbort, TransactionCoordinatorCleanup
<1>14. ASSUME NEW p \in Participant, Call(p)
       PROVE  DecisionOK'
  BY <1>14 DEF Call, join, LookupOrBeginTransaction
<1>15. ASSUME NEW p \in Participant, CallAgain(p)
       PROVE  DecisionOK'
  BY <1>15 DEF CallAgain
<1>16. ASSUME NEW p \in Participant, CallLost(p)
       PROVE  DecisionOK'
  BY <1>16 DEF CallLost, join, LookupOrBeginTransaction, StartAbort
<1>17. ASSUME NEW p \in Participant, CallRefused(p)
       PROVE  DecisionOK'
  BY <1>17 DEF CallRefused, StartAbort
<1>18. ASSUME NEW p \in Participant, PrepareUnknown(p)
       PROVE  DecisionOK'
  BY <1>18 DEF PrepareUnknown, Answer
<1>19. ASSUME NEW p \in Participant, PreparePrepared(p)
       PROVE  DecisionOK'
  BY <1>19 DEF PreparePrepared, Answer
<1>20. ASSUME NEW p \in Participant, PrepareElided(p)
       PROVE  DecisionOK'
  BY <1>20 DEF PrepareElided, Answer, Finish
<1>21. ASSUME NEW p \in Participant, PrepareStarts(p)
       PROVE  DecisionOK'
  BY <1>21 DEF PrepareStarts
<1>22. ASSUME NEW p \in Participant, PrepareLands(p)
       PROVE  DecisionOK'
  BY <1>22 DEF PrepareLands, TransactionParticipantPrepare
<1>23. ASSUME NEW p \in Participant, PrepareFails(p)
       PROVE  DecisionOK'
  BY <1>23 DEF PrepareFails, TransactionParticipantPrepare
<1>24. ASSUME NEW p \in Participant, Commit(p)
       PROVE  DecisionOK'
  BY <1>24
  DEF Commit, participant_commit, TransactionParticipantCommit, Finish,
      Request
<1>25. ASSUME NEW p \in Participant, Abort(p)
       PROVE  DecisionOK'
  BY <1>25
  DEF Abort, participant_abort, TransactionParticipantAbort, Finish, Request
<1>26. ASSUME NEW p \in Participant, Watch(p)
       PROVE  DecisionOK'
  BY <1>26 DEF Watch
<1>27. ASSUME NEW p \in Participant, Watched(p)
       PROVE  DecisionOK'
  BY <1>27
  DEF Watched, participant_commit, participant_abort, Finish,
      TransactionParticipantCommit, TransactionParticipantAbort
<1>28. ASSUME NEW S \in SUBSET Server, CrashServers(S),
              written' \in {written, {p \in written : db[p] = "prepared"}}
       PROVE  DecisionOK'
  BY InMessages, Recovery, <1>28
  DEF CrashServers, recover_coordinator, inWindow
<1>29. CASE UNCHANGED vars
  BY <1>29 DEF vars
<1> HIDE DEF TypeOK, CoordinatorOK, ParticipantsOK, VotesOK, LossesOK,
             DecisionOK, NoCommit, NoAbort, AllCommit, Decided, Undecided,
             should_commit
<1> QED
  BY <1>1, <1>2, <1>3, <1>4, <1>5, <1>6, <1>7, <1>8, <1>9, <1>10, <1>11,
     <1>12, <1>13, <1>14, <1>15, <1>16, <1>17, <1>18, <1>19, <1>20, <1>21,
     <1>22, <1>23, <1>24, <1>25, <1>26, <1>27, <1>28, <1>29
  DEF Next, CoordinatorNext, ParticipantNext, Crash, CrashAll, vars, dbVars

-----------------------------------------------------------------------------
(* The invariant and what it implies.                                      *)

\* The invariant holds when the transaction starts.
LEMMA InitInv == Init => IndInv
<1> SUFFICES ASSUME Init
             PROVE  IndInv
  OBVIOUS
<1>1. TypeOK
  <2>1. Coordinator \in Participant
    BY CoordinatorAssumption DEF Participant
  <2>2. 0 \in 0..MaxCrashes
    BY MaxCrashesAssumption
  <2> QED
    BY <2>1, <2>2 DEF Init, TypeOK
<1>2. CoordinatorOK
  BY DEF Init, CoordinatorOK, Undecided
<1>3. ParticipantsOK
  BY CoordinatorAssumption, KindAssumption DEF Init, ParticipantsOK
<1>4. VotesOK
  BY DEF Init, VotesOK, Decided
<1>5. LossesOK
  BY DEF Init, LossesOK, ReadsProtected
<1>6. DecisionOK
  BY DEF Init, DecisionOK, NoCommit, NoAbort, Undecided, Decided
<1> QED
  BY <1>1, <1>2, <1>3, <1>4, <1>5, <1>6 DEF IndInv

\* Every step keeps it.
LEMMA StepInv == IndInv /\ [Next]_vars => IndInv'
<1> SUFFICES ASSUME IndInv, [Next]_vars
             PROVE  IndInv'
  OBVIOUS
<1>1. /\ TypeOK /\ CoordinatorOK /\ ParticipantsOK /\ VotesOK /\ LossesOK
      /\ windowCrash \/ DecisionOK
  BY DEF IndInv
<1>2. TypeOK'
  BY <1>1, TypeStep
<1>3. CoordinatorOK'
  BY <1>1, <1>2, CoordinatorStep
<1>4. ParticipantsOK'
  BY <1>1, <1>2, ParticipantsStep
<1>5. VotesOK'
  BY <1>1, <1>2, VotesStep
<1>6. LossesOK'
  BY <1>1, <1>2, LossesStep
<1>7. windowCrash' \/ DecisionOK'
  BY <1>1, <1>2, DecisionStep
<1> QED
  BY <1>2, <1>3, <1>4, <1>5, <1>6, <1>7 DEF IndInv

\* The inductive invariant holds in every reachable state.
THEOREM Invariance == Spec => []IndInv
BY InitInv, StepInv, PTL DEF Spec

\* The types of all that the servers, the database and the network hold.
THEOREM Typing == Spec => []TypeOK
<1>1. IndInv => TypeOK
  BY DEF IndInv
<1> QED
  BY <1>1, Invariance, PTL

\* Servers and database agree on which transactions there are: what the
\* database holds for a state its server knows of, and a `Commit`, however
\* late, finds the transaction prepared or gone.
THEOREM Tracking == Spec => []ParticipantsTracked
<1>1. IndInv => ParticipantsTracked
  <2> SUFFICES ASSUME IndInv
               PROVE  ParticipantsTracked
    OBVIOUS
  <2>1. DatabaseTransactionOwned
    BY DEF IndInv, ParticipantsOK, DatabaseTransactionOwned
  <2>2. CommitFindsPrepared
    BY DEF IndInv, VotesOK, Request, CommitFindsPrepared
  <2> QED
    BY <2>1, <2>2 DEF IndInv, ParticipantsTracked
<1> QED
  BY <1>1, Invariance, PTL

\* A committed writer's writes are all applied: no commit of a participant
\* that restart detection should have refused.
THEOREM Durability == Spec => []WritesApplied
<1>1. IndInv => WritesApplied
  BY DEF IndInv, ParticipantsOK, LossesOK, WritesApplied, Participant
<1> QED
  BY <1>1, Invariance, PTL

\* A transaction with effects that succeeds has had a consistent view.
THEOREM Isolation == Spec => []ReadsProtected
<1>1. IndInv => ReadsProtected
  BY DEF IndInv, LossesOK
<1> QED
  BY <1>1, Invariance, PTL

\* One verdict, which the participants and the client agree with, unless
\* the coordinator crashed having published what its record did not say.
THEOREM Agreement == Spec => []DecisionStands
<1>1. IndInv => DecisionStands
  <2> SUFFICES ASSUME IndInv, ~windowCrash
               PROVE  Atomicity /\ SuccessStands /\ FailureStands
    BY DEF DecisionStands, AtomicUnlessWindow, AnswerStandsUnlessWindow
  <2>1. TypeOK /\ CoordinatorOK /\ ParticipantsOK /\ DecisionOK
    BY DEF IndInv
  <2>2. NoCommit \/ NoAbort \/ AllCommit
    BY <2>1 DEF TypeOK, DecisionOK, Undecided, Decided
  <2>3. CASE NoCommit
    BY <2>1, <2>3
    DEF NoCommit, Atomicity, SuccessStands, FailureStands
  <2>4. CASE NoAbort
    BY <2>1, <2>4
    DEF NoAbort, Atomicity, SuccessStands, FailureStands, TypeOK, should_commit
  <2>5. CASE AllCommit
    BY <2>1, <2>5
    DEF AllCommit, Atomicity, SuccessStands, FailureStands, TypeOK,
        should_commit
  <2> QED
    BY <2>2, <2>3, <2>4, <2>5
<1> QED
  BY <1>1, Invariance, PTL

-----------------------------------------------------------------------------
(* The refinement.                                                         *)

\* The two guards of `verdict`.
Committed ==
    \/ future = "commit" \/ record = "prepared" \/ client = "ok"
    \/ \E p \in Participant : outcome[p] = "committed"
Aborted ==
    \/ client = "failed"
    \/ \E p \in Participant \ Reader : outcome[p] = "aborted"
VerdictStands == (Committed => Committed') /\ (Aborted => Aborted')

\* What a step can change of what the client and the participants see.
TellsClient == fate' = fate /\ told = "none" /\ told' \in {"ok", "failed"}
EndsParticipant ==
    /\ told' = told
    /\ \E p \in Participant \ Reader, how \in {"committed", "aborted"} :
          fate[p] = "none" /\ fate' = [fate EXCEPT ![p] = how]
Silent == fate' = fate /\ told' = told
Visible == TellsClient \/ EndsParticipant \/ Silent

\* A participant that ends is seen to, unless it has no effects.
LEMMA EndStep ==
    ASSUME TypeOK, NEW p \in Participant, NEW how \in {"committed", "aborted"},
           Finish(p, how), outcome[p] = "none", client' = client
    PROVE  EndsParticipant \/ Silent
<1>1. told' = told
  BY DEF told
<1>2. CASE p \in Reader
  BY <1>1, <1>2 DEF TypeOK, Finish, Silent, fate
<1>3. CASE p \notin Reader
  <2>1. fate[p] = "none" /\ fate' = [fate EXCEPT ![p] = how]
    BY <1>3 DEF TypeOK, Finish, fate
  <2> QED
    BY <1>1, <1>3, <2>1 DEF EndsParticipant
<1> QED
  BY <1>2, <1>3

\* Up to a crash in the window no step takes a verdict back.
LEMMA VerdictKept ==
    ASSUME TypeOK, TypeOK', CoordinatorOK, ParticipantsOK, VotesOK,
           DecisionOK, ~windowCrash', [Next]_vars
    PROVE  VerdictStands
<1> USE DEF VerdictStands, TypeOK, CoordinatorOK, ParticipantsOK, VotesOK,
            DecisionOK, Committed, Aborted, should_commit, Decided, Undecided,
            coordVars, partVars, dbVars, histVars, unchangedByPrepare,
            unchangedByOutcome
<1>1. CASE BodyFails
  BY <1>1 DEF BodyFails, StartAbort
<1>2. CASE Cancel
  BY <1>2 DEF Cancel, StartAbort
<1>3. CASE CompleteReadOnly
  BY <1>3 DEF CompleteReadOnly
<1>4. CASE FinishReadOnly
  BY <1>4 DEF FinishReadOnly
<1>5. CASE Complete
  BY <1>5 DEF Complete
<1>6. CASE RecordLands
  BY <1>6 DEF RecordLands, TransactionCoordinatorPrepare
<1>7. CASE Publish
  BY <1>7 DEF Publish
<1>8. CASE PublishRecovered
  BY <1>8 DEF PublishRecovered
<1>9. CASE PrepareAborts
  BY <1>9 DEF PrepareAborts, StartAbort
<1>10. CASE MarkPrepared
  BY <1>10 DEF MarkPrepared, TransactionCoordinatorPrepared
<1>11. CASE AllCommitted
  BY <1>11 DEF AllCommitted
<1>12. CASE Cleanup
  BY <1>12 DEF Cleanup, TransactionCoordinatorCleanup
<1>13. CASE FinishAbort
  BY <1>13 DEF FinishAbort, TransactionCoordinatorCleanup
<1>14. ASSUME NEW p \in Participant, Call(p)
       PROVE  VerdictStands
  BY <1>14 DEF Call, join, LookupOrBeginTransaction
<1>15. ASSUME NEW p \in Participant, CallAgain(p)
       PROVE  VerdictStands
  BY <1>15 DEF CallAgain
<1>16. ASSUME NEW p \in Participant, CallLost(p)
       PROVE  VerdictStands
  BY <1>16 DEF CallLost, join, LookupOrBeginTransaction, StartAbort
<1>17. ASSUME NEW p \in Participant, CallRefused(p)
       PROVE  VerdictStands
  BY <1>17 DEF CallRefused, StartAbort
<1>18. ASSUME NEW p \in Participant, PrepareUnknown(p)
       PROVE  VerdictStands
  BY <1>18 DEF PrepareUnknown, Answer
<1>19. ASSUME NEW p \in Participant, PreparePrepared(p)
       PROVE  VerdictStands
  BY <1>19 DEF PreparePrepared, Answer
<1>20. ASSUME NEW p \in Participant, PrepareElided(p)
       PROVE  VerdictStands
  BY <1>20 DEF PrepareElided, Answer, Finish
<1>21. ASSUME NEW p \in Participant, PrepareStarts(p)
       PROVE  VerdictStands
  BY <1>21 DEF PrepareStarts
<1>22. ASSUME NEW p \in Participant, PrepareLands(p)
       PROVE  VerdictStands
  BY <1>22 DEF PrepareLands, TransactionParticipantPrepare
<1>23. ASSUME NEW p \in Participant, PrepareFails(p)
       PROVE  VerdictStands
  BY <1>23 DEF PrepareFails, TransactionParticipantPrepare
<1>24. ASSUME NEW p \in Participant, Commit(p)
       PROVE  VerdictStands
  BY <1>24
  DEF Commit, participant_commit, TransactionParticipantCommit, Finish
<1>25. ASSUME NEW p \in Participant, Abort(p)
       PROVE  VerdictStands
  BY <1>25
  DEF Abort, participant_abort, TransactionParticipantAbort, Finish
<1>26. ASSUME NEW p \in Participant, Watch(p)
       PROVE  VerdictStands
  BY <1>26 DEF Watch
<1>27. ASSUME NEW p \in Participant, Watched(p)
       PROVE  VerdictStands
  BY <1>27
  DEF Watched, participant_commit, participant_abort, Finish,
      TransactionParticipantCommit, TransactionParticipantAbort
<1>28. ASSUME NEW S \in SUBSET Server, CrashServers(S),
              written' \in {written, {p \in written : db[p] = "prepared"}}
       PROVE  VerdictStands
  BY <1>28 DEF CrashServers, recover_coordinator, inWindow
<1>29. CASE UNCHANGED vars
  BY <1>29 DEF vars
<1> HIDE DEF VerdictStands, TypeOK, CoordinatorOK, ParticipantsOK, VotesOK,
             DecisionOK, Committed, Aborted, should_commit, Decided, Undecided
<1> QED
  BY <1>1, <1>2, <1>3, <1>4, <1>5, <1>6, <1>7, <1>8, <1>9, <1>10, <1>11,
     <1>12, <1>13, <1>14, <1>15, <1>16, <1>17, <1>18, <1>19, <1>20, <1>21,
     <1>22, <1>23, <1>24, <1>25, <1>26, <1>27, <1>28, <1>29
  DEF Next, CoordinatorNext, ParticipantNext, Crash, CrashAll, vars, dbVars

\* A step tells the client, or ends one participant with effects, or does
\* neither.
LEMMA VisibleStep ==
    ASSUME TypeOK, TypeOK', CoordinatorOK, ParticipantsOK, [Next]_vars
    PROVE  Visible
<1> USE DEF Visible, TypeOK, CoordinatorOK, ParticipantsOK, TellsClient,
            Silent, fate, told, coordVars, partVars, dbVars, histVars,
            unchangedByPrepare, unchangedByOutcome
<1>1. CASE BodyFails
  BY <1>1 DEF BodyFails, StartAbort
<1>2. CASE Cancel
  BY <1>2 DEF Cancel, StartAbort
<1>3. CASE CompleteReadOnly
  BY <1>3 DEF CompleteReadOnly
<1>4. CASE FinishReadOnly
  BY <1>4 DEF FinishReadOnly
<1>5. CASE Complete
  BY <1>5 DEF Complete
<1>6. CASE RecordLands
  BY <1>6 DEF RecordLands, TransactionCoordinatorPrepare
<1>7. CASE Publish
  BY <1>7 DEF Publish
<1>8. CASE PublishRecovered
  BY <1>8 DEF PublishRecovered
<1>9. CASE PrepareAborts
  BY <1>9 DEF PrepareAborts, StartAbort
<1>10. CASE MarkPrepared
  BY <1>10 DEF MarkPrepared, TransactionCoordinatorPrepared
<1>11. CASE AllCommitted
  BY <1>11 DEF AllCommitted
<1>12. CASE Cleanup
  BY <1>12 DEF Cleanup, TransactionCoordinatorCleanup
<1>13. CASE FinishAbort
  BY <1>13 DEF FinishAbort, TransactionCoordinatorCleanup
<1>14. ASSUME NEW p \in Participant, Call(p)
       PROVE  Visible
  BY <1>14 DEF Call, join, LookupOrBeginTransaction
<1>15. ASSUME NEW p \in Participant, CallAgain(p)
       PROVE  Visible
  BY <1>15 DEF CallAgain
<1>16. ASSUME NEW p \in Participant, CallLost(p)
       PROVE  Visible
  BY <1>16 DEF CallLost, join, LookupOrBeginTransaction, StartAbort
<1>17. ASSUME NEW p \in Participant, CallRefused(p)
       PROVE  Visible
  BY <1>17 DEF CallRefused, StartAbort
<1>18. ASSUME NEW p \in Participant, PrepareUnknown(p)
       PROVE  Visible
  BY <1>18 DEF PrepareUnknown, Answer
<1>19. ASSUME NEW p \in Participant, PreparePrepared(p)
       PROVE  Visible
  BY <1>19 DEF PreparePrepared, Answer
<1>20. ASSUME NEW p \in Participant, PrepareElided(p)
       PROVE  Visible
  BY <1>20 DEF PrepareElided, Answer, Finish
<1>21. ASSUME NEW p \in Participant, PrepareStarts(p)
       PROVE  Visible
  BY <1>21 DEF PrepareStarts
<1>22. ASSUME NEW p \in Participant, PrepareLands(p)
       PROVE  Visible
  BY <1>22 DEF PrepareLands, TransactionParticipantPrepare
<1>23. ASSUME NEW p \in Participant, PrepareFails(p)
       PROVE  Visible
  BY <1>23 DEF PrepareFails, TransactionParticipantPrepare
<1>24. ASSUME NEW p \in Participant, Commit(p)
       PROVE  Visible
  BY EndStep, <1>24
  DEF Commit, participant_commit, TransactionParticipantCommit, Finish
<1>25. ASSUME NEW p \in Participant, Abort(p)
       PROVE  Visible
  BY EndStep, <1>25
  DEF Abort, participant_abort, TransactionParticipantAbort, Finish
<1>26. ASSUME NEW p \in Participant, Watch(p)
       PROVE  Visible
  BY <1>26 DEF Watch
<1>27. ASSUME NEW p \in Participant, Watched(p)
       PROVE  Visible
  BY EndStep, <1>27
  DEF Watched, participant_commit, participant_abort, Finish,
      TransactionParticipantCommit, TransactionParticipantAbort
<1>28. ASSUME NEW S \in SUBSET Server, CrashServers(S),
              written' \in {written, {p \in written : db[p] = "prepared"}}
       PROVE  Visible
  BY <1>28 DEF CrashServers, recover_coordinator
<1>29. CASE UNCHANGED vars
  BY <1>29 DEF vars
<1> HIDE DEF Visible, TypeOK, CoordinatorOK, ParticipantsOK, TellsClient,
             Silent, fate, told
<1> QED
  BY <1>1, <1>2, <1>3, <1>4, <1>5, <1>6, <1>7, <1>8, <1>9, <1>10, <1>11,
     <1>12, <1>13, <1>14, <1>15, <1>16, <1>17, <1>18, <1>19, <1>20, <1>21,
     <1>22, <1>23, <1>24, <1>25, <1>26, <1>27, <1>28, <1>29
  DEF Next, CoordinatorNext, ParticipantNext, Crash, CrashAll, vars, dbVars

\* That the coordinator crashed in its window is never forgotten.
LEMMA WindowKept ==
    ASSUME [Next]_vars, windowCrash
    PROVE  windowCrash'
<1> USE DEF coordVars, partVars, dbVars, histVars, unchangedByPrepare,
            unchangedByOutcome
<1>1. CASE CoordinatorNext
  BY <1>1
  DEF CoordinatorNext, BodyFails, Cancel, CompleteReadOnly, FinishReadOnly,
      Complete, RecordLands, Publish, PublishRecovered, PrepareAborts,
      MarkPrepared, AllCommitted, Cleanup, FinishAbort
<1>2. ASSUME NEW p \in Participant, ParticipantNext(p)
      PROVE  windowCrash'
  BY <1>2
  DEF ParticipantNext, Call, CallAgain, CallLost, CallRefused, PrepareUnknown,
      PreparePrepared, PrepareElided, PrepareStarts, PrepareLands,
      PrepareFails, Commit, Abort, Watch, Watched
<1>3. ASSUME NEW S, CrashServers(S)
      PROVE  windowCrash'
  BY <1>3 DEF CrashServers, recover_coordinator
<1>4. CASE UNCHANGED vars
  BY <1>4 DEF vars
<1> QED
  BY <1>1, <1>2, <1>3, <1>4 DEF Next, Crash, CrashAll

\* The guards of `verdict` exclude each other, so that it is one value.
VerdictIsOne ==
    /\ ~(Committed /\ Aborted)
    /\ verdict = IF Committed THEN "commit"
                 ELSE IF Aborted THEN "abort" ELSE "none"

\* Up to a crash in the window, the invariant leaves one verdict.
LEMMA OneVerdict == IndInv /\ ~windowCrash => VerdictIsOne
<1> SUFFICES ASSUME IndInv, ~windowCrash
             PROVE  VerdictIsOne
  OBVIOUS
<1>1. TypeOK /\ CoordinatorOK /\ DecisionOK
  BY DEF IndInv
<1>2. ~(Committed /\ Aborted)
  <2>1. CASE phase \in Undecided \cup Decided \cup {"readonly"}
    <3>1. NoAbort
      BY <1>1, <2>1 DEF DecisionOK
    <3> QED
      BY <3>1 DEF NoAbort, Aborted
  <2>2. CASE phase = "abort"
    <3>1. NoCommit /\ future = "absent" /\ record # "prepared"
      BY <1>1, <2>2 DEF DecisionOK, CoordinatorOK
    <3> QED
      BY <3>1 DEF NoCommit, Committed
  <2>3. CASE phase = "done"
    <3>1. (NoCommit \/ AllCommit) /\ future = "absent" /\ record # "prepared"
      BY <1>1, <2>3 DEF DecisionOK, CoordinatorOK
    <3> QED
      BY <3>1 DEF NoCommit, AllCommit, Committed, Aborted
  <2> QED
    BY <1>1, <2>1, <2>2, <2>3 DEF TypeOK, Undecided, Decided
<1>3. verdict = IF Committed THEN "commit"
                ELSE IF Aborted THEN "abort" ELSE "none"
  BY <1>2 DEF verdict, Committed, Aborted
<1> QED
  BY <1>2, <1>3 DEF VerdictIsOne

\* Up to a crash in the window, every step is one of `AtomicCommit`.
LEMMA CommitmentStep ==
    ASSUME IndInv, IndInv', [Next]_vars, ~windowCrash, ~windowCrash'
    PROVE  Commitment!Next \/ UNCHANGED <<verdict, fate, told>>
<1>1. TypeOK /\ CoordinatorOK /\ ParticipantsOK /\ VotesOK /\ DecisionOK
  BY DEF IndInv
<1>2. TypeOK'
  BY DEF IndInv
<1>3. VerdictStands
  BY <1>1, <1>2, VerdictKept
<1>4. Visible
  BY <1>1, <1>2, VisibleStep
<1>5. /\ ~(Committed /\ Aborted)
      /\ verdict = IF Committed THEN "commit"
                   ELSE IF Aborted THEN "abort" ELSE "none"
  BY OneVerdict DEF VerdictIsOne
<1>6. /\ ~(Committed' /\ Aborted')
      /\ verdict' = IF Committed' THEN "commit"
                    ELSE IF Aborted' THEN "abort" ELSE "none"
  <2>1. VerdictIsOne'
    BY OneVerdict, PTL
  <2> QED
    BY <2>1 DEF VerdictIsOne
<1>7. ASSUME NEW v \in {"commit", "abort"}, verdict' = v
      PROVE  Commitment!Decide(v)
  BY <1>3, <1>5, <1>6, <1>7 DEF VerdictStands, Commitment!Decide
<1>8. CASE Silent
  <2>1. CASE verdict' = "none"
    BY <1>3, <1>5, <1>6, <1>8, <2>1 DEF VerdictStands, Silent
  <2>2. CASE verdict' \in {"commit", "abort"}
    BY <1>7, <1>8, <2>2
    DEF Silent, Commitment!Next, Commitment!Agree, Commitment!Verdict
  <2> QED
    BY <1>6, <2>1, <2>2
<1>9. CASE TellsClient
  <2>1. \/ told' = "ok" /\ client' = "ok"
        \/ told' = "failed" /\ client' = "failed"
    BY <1>9 DEF TellsClient, told
  <2>2. told' = Commitment!AnswerOf(verdict') /\ verdict' \in {"commit", "abort"}
    BY <1>6, <2>1 DEF Committed, Aborted, Commitment!AnswerOf
  <2> QED
    BY <1>7, <1>9, <2>2
    DEF TellsClient, Commitment!Next, Commitment!Tell, Commitment!Verdict
<1>10. CASE EndsParticipant
  <2>1. PICK p \in Participant \ Reader, how \in {"committed", "aborted"} :
           fate[p] = "none" /\ fate' = [fate EXCEPT ![p] = how]
    BY <1>10 DEF EndsParticipant
  <2>2. outcome'[p] = how
    <3>1. fate'[p] = how
      BY <2>1 DEF fate
    <3> QED
      BY <3>1 DEF fate
  <2>3. how = Commitment!FateOf(verdict') /\ verdict' \in {"commit", "abort"}
    BY <1>6, <2>2 DEF Committed, Aborted, Commitment!FateOf
  <2>4. Commitment!End(p, verdict')
    BY <1>7, <1>10, <2>1, <2>3 DEF EndsParticipant, Commitment!End
  <2> QED
    BY <2>3, <2>4 DEF Commitment!Next, Commitment!Verdict
<1> QED
  BY <1>4, <1>8, <1>9, <1>10 DEF Visible

\* The protocol implements `AtomicCommit` up to a crash of the coordinator
\* in its window: one verdict, never revised, followed by everybody with
\* effects and by what the client is told.
THEOREM Refinement == Spec => CommitmentSpec
<1>1. Init => Commitment!Init
  <2> SUFFICES ASSUME Init
               PROVE  Commitment!Init
    OBVIOUS
  <2>1. ~Committed /\ ~Aborted
    BY DEF Init, Committed, Aborted
  <2>2. verdict = "none"
    BY <2>1 DEF verdict, Committed, Aborted
  <2> QED
    BY <2>2 DEF Init, fate, told, Commitment!Init
<1>2. IndInv /\ IndInv' /\ [Next]_vars
         => [Commitment!Next \/ windowCrash']_<<verdict, fate, told>>
  <2> SUFFICES ASSUME IndInv, IndInv', [Next]_vars, ~windowCrash'
               PROVE  Commitment!Next \/ UNCHANGED <<verdict, fate, told>>
    OBVIOUS
  <2>1. ~windowCrash
    BY WindowKept
  <2> QED
    BY <2>1, CommitmentStep
<1> QED
  BY <1>1, <1>2, Invariance, PTL DEF Spec, CommitmentSpec

=============================================================================
