--------------------------- MODULE ExecutionProofs ---------------------------
(***************************************************************************)
(* Proofs about the execution of workflows and of reactive queries: what a *)
(* memoized block returned stands, over crashes and new attempts of the    *)
(* workflow, and what a client is shown never goes back.  The invariant of *)
(* the first relates the attempt under way to what the memoizing actors    *)
(* store, to the mutations that they have seen, and to the calls of        *)
(* crashed attempts that may still arrive; that of the second orders what  *)
(* the client, the execution, the querier, the sessions and their queues   *)
(* have of an actor.                                                       *)
(***************************************************************************)
EXTENDS Workflow, Reactive, FiniteSetTheorems, SequenceTheorems, TLAPS

-----------------------------------------------------------------------------
(* Workflows.                                                              *)

\* The phases in which an attempt runs the callable or stores its result.
Running == {"call", "first", "recall", "running", "store"}

\* A call of a crashed attempt is still under way; an attempt is in a phase.
Late(i, what) == \E c \in late : c.at = i /\ c.what = what
Here(i, phases) == i = iteration /\ phase \in phases

\* An attempt runs the callable only after the Status of its block, which has
\* not returned and, unless a late Store has overtaken it, has no result.
AttemptOK ==
    /\ phase \in {"start", "again", "fail"} => style = "at_most_once"
    /\ phase \in {"first", "recall"} => style = "at_least_once"
    /\ phase \in {"first", "recall", "running"} => runs[iteration] >= 1
    /\ phase = "store" => result \in Value
    /\ phase \notin {"down", "reset", "ended"} => <<iteration, "reset">> \in mutations
    /\ phase \in Running => returned[iteration] = {}
    /\ ~overtaken /\ phase \in Running => ~memo[iteration].stored

\* An actor is written only after its first Reset, keeps its first result,
\* and knows the Store of it.
MemoOK ==
    \A i \in Iteration :
        /\ memo[i].stored <=> <<i, "store">> \in mutations
        /\ memo[i].stored => memo[i].data \in Value
        /\ returned[i] # {} => memo[i].stored
        /\ style = "at_most_once" \/ ~overtaken => returned[i] \subseteq {memo[i].data}
        /\ memo[i] # Blank => <<i, "reset">> \in mutations

LateOK ==
    \A c \in late :
        /\ c.what \in {"start", "again", "fail"} => style = "at_most_once"
        /\ c.what # "reset" => <<c.at, "reset">> \in mutations
        /\ c.what = "store" => c.data \in Value

\* A run is known as started, or it ended with a retryable exception whose
\* Reset is under way and nobody starts before that.
OnceAt(i) ==
    /\ runs[i] <= 1 /\ (runs[i] = 1 => memo[i].started)
    /\ Here(i, {"start", "call", "again"}) => runs[i] = 0
    /\ Here(i, {"running", "store", "fail"}) => runs[i] = 1
    /\ Here(i, {"call", "again"}) => memo[i].started
    /\ Here(i, {"start", "call", "running", "store", "again", "fail"}) =>
          ~memo[i].stored /\ ~Late(i, "store") /\ ~Late(i, "again")
    /\ Late(i, "store") => runs[i] = 1
    /\ Late(i, "again") => runs[i] = 0 /\ memo[i].started /\ ~memo[i].stored
    /\ \A c, d \in late : c.at = i /\ d.at = i /\ c.what = "again" /\ d.what = "again"
                          => c = d

OnceOK == style = "at_most_once" => \A i \in Iteration : OnceAt(i)

\* The result of an iteration, stored or about to be, is not the previous one.
ChangeOK ==
    style = "until_changes" =>
        \A i \in Iteration \ {0} :
            /\ memo[i].stored => memo[i - 1].stored /\ memo[i].data # memo[i - 1].data
            /\ \A c \in late : c.at = i /\ c.what = "store" =>
                  memo[i - 1].stored /\ c.data # memo[i - 1].data
            /\ Here(i, Running) => memo[i - 1].stored
            /\ Here(i, {"store"}) => result # memo[i - 1].data

WorkflowInv ==
    /\ WorkflowTypeOK /\ AttemptOK /\ MemoOK /\ LateOK /\ OnceOK /\ ChangeOK
    /\ style \in {"at_most_once", "at_least_once", "until_changes"}

-----------------------------------------------------------------------------
Memo == [started : BOOLEAN, stored : BOOLEAN, failed : BOOLEAN, data : Value \cup {NoValue}]
Call == {"reset", "start", "store", "fail", "again"}

\* What has not been used is blank.
LEMMA BlankMemo ==
    /\ Blank \in Memo /\ Blank.started = FALSE /\ Blank.stored = FALSE
    /\ Blank.data = NoValue
BY DEF Blank, Memo

\* What a call that the actor accepts makes of its state.
Becomes(m, what, data, w) ==
    /\ w \in Memo
    /\ what \in {"reset", "again"} => w = Blank
    /\ what = "start" => w.started = TRUE /\ w.stored = m.stored /\ w.data = m.data
    /\ what = "store" => w.stored = TRUE /\ w.started = m.started /\ w.data = data
    /\ what = "fail" => w.started = m.started /\ w.stored = m.stored /\ w.data = m.data

\* What a call to the memoizing actor makes of its record.
LEMMA WrittenFields ==
    ASSUME NEW m \in Memo, NEW what \in Call, NEW data \in Value \cup {NoValue}
    PROVE  Becomes(m, what, data, Written(m, what, data))
<1> DEFINE w == Written(m, what, data)
<1> SUFFICES Becomes(m, what, data, w)
  OBVIOUS
<1>1. CASE what \in {"reset", "again"}
  BY <1>1, BlankMemo DEF Written, Becomes
<1>2. CASE what = "start"
  <2>1. w = [m EXCEPT !.started = TRUE]
    BY <1>2 DEF Written
  <2> QED
    BY <1>2, <2>1 DEF Memo, Becomes
<1>3. CASE what = "store"
  <2>1. w = [m EXCEPT !.stored = TRUE, !.data = data]
    BY <1>3 DEF Written
  <2> QED
    BY <1>3, <2>1 DEF Memo, Becomes
<1>4. CASE what = "fail"
  <2>1. w = [m EXCEPT !.failed = TRUE]
    BY <1>4 DEF Written
  <2> QED
    BY <1>4, <2>1 DEF Memo, Becomes
<1> QED
  BY <1>1, <1>2, <1>3, <1>4 DEF Call

\* What a call may be that arrives at the actor of iteration i.
Legal(i, what, data) ==
    /\ what # "reset" => <<i, "reset">> \in mutations
    /\ what = "store" => data \in Value
    /\ what = "again" => ~memo[i].stored

\* What its arrival does: the actor keeps its first result, and only a Reset
\* after a retryable exception makes it forget that it was started.
Effect(i, what, data) ==
    /\ memo' \in [Iteration -> Memo]
    /\ mutations' \subseteq Iteration \X {"reset", "store", "fail"}
    /\ mutations \subseteq mutations'
    /\ \A j \in Iteration \ {i} : memo'[j] = memo[j]
    /\ \A j \in Iteration :
          /\ memo'[j].stored <=> <<j, "store">> \in mutations'
          /\ memo'[j] # Blank => <<j, "reset">> \in mutations'
    /\ what = "reset" => <<i, "reset">> \in mutations'
    /\ memo[i].stored => memo'[i].stored /\ memo'[i].data = memo[i].data
    /\ memo'[i].stored /\ ~memo[i].stored => what = "store" /\ memo'[i].data = data
    /\ what = "store" => memo'[i].stored
    /\ what # "again" /\ memo[i].started => memo'[i].started
    /\ what = "start" /\ Succeeds(i, what) => ~memo[i].started /\ memo'[i].started
    /\ what = "store" => Succeeds(i, what)

\* What a call does when it arrives, late or not.
LEMMA Arrival ==
    ASSUME WorkflowTypeOK, MemoOK, NEW i \in Iteration, NEW what \in Call,
           NEW data \in Value \cup {NoValue}, Arrives(i, what, data), Legal(i, what, data)
    PROVE  Effect(i, what, data)
<1>0. /\ memo \in [Iteration -> Memo] /\ memo[i] \in Memo
      /\ mutations \subseteq Iteration \X {"reset", "store", "fail"}
      /\ memo[i].stored \in BOOLEAN /\ memo[i].started \in BOOLEAN
  BY DEF WorkflowTypeOK, Memo
<1>1. /\ memo[i].stored <=> <<i, "store">> \in mutations
      /\ memo[i] # Blank => <<i, "reset">> \in mutations
      /\ \A j \in Iteration : /\ memo[j].stored <=> <<j, "store">> \in mutations
                              /\ memo[j] # Blank => <<j, "reset">> \in mutations
  BY DEF MemoOK
<1>2. what = "store" => Succeeds(i, what)
  BY <1>1 DEF Succeeds, Answered, Keyed, Accepts
<1>3. CASE ~Answered(i, what) /\ Accepts(memo[i], what)
  <2>0. PICK m \in Memo : m = memo[i]
    BY <1>0
  <2>1. PICK w : m = memo[i] /\ w = Written(m, what, data)
    BY <2>0
  <2>2. /\ memo' = [memo EXCEPT ![i] = w]
        /\ mutations' = IF what \in Keyed THEN mutations \cup {<<i, what>>} ELSE mutations
    BY <1>3, <2>1 DEF Arrives
  <2>3. /\ w \in Memo
        /\ what \in {"reset", "again"} => w = Blank
        /\ what = "start" => w.started = TRUE /\ w.stored = memo[i].stored
                             /\ w.data = memo[i].data
        /\ what = "store" => w.stored = TRUE /\ w.started = memo[i].started /\ w.data = data
        /\ what = "fail" => /\ w.started = memo[i].started /\ w.stored = memo[i].stored
                            /\ w.data = memo[i].data
    <3>1. Becomes(m, what, data, w)
      BY <2>1, WrittenFields
    <3> QED
      BY <2>1, <3>1 DEF Becomes
  <2>4. /\ memo' \in [Iteration -> Memo] /\ memo'[i] = w
        /\ \A j \in Iteration \ {i} : memo'[j] = memo[j]
    BY <1>0, <2>2, <2>3
  <2>5. /\ mutations \subseteq mutations'
        /\ mutations' \subseteq Iteration \X {"reset", "store", "fail"}
        /\ \A j \in Iteration, k \in {"reset", "store"} :
              <<j, k>> \in mutations' <=> <<j, k>> \in mutations \/ (j = i /\ k = what)
    BY <1>0, <2>2 DEF Keyed
  <2>6. what = "reset" => memo[i] = Blank
    BY <1>1, <1>3 DEF Answered, Keyed
  <2>7. \A j \in Iteration :
          /\ memo'[j].stored <=> <<j, "store">> \in mutations'
          /\ memo'[j] # Blank => <<j, "reset">> \in mutations'
    <3> SUFFICES ASSUME NEW j \in Iteration
                 PROVE  /\ memo'[j].stored <=> <<j, "store">> \in mutations'
                        /\ memo'[j] # Blank => <<j, "reset">> \in mutations'
      OBVIOUS
    <3>1. CASE j # i
      BY <1>1, <2>4, <2>5, <3>1
    <3>2. CASE j = i
      BY <1>0, <1>1, <2>3, <2>4, <2>5, <2>6, <3>2, BlankMemo DEF Legal, Call
    <3> QED
      BY <3>1, <3>2
  <2>8. what = "store" => ~memo[i].stored
    BY <1>3 DEF Accepts
  <2>9. what = "start" => ~memo[i].started
    BY <1>3 DEF Accepts
  <2>10. memo[i].stored => memo'[i].stored /\ memo'[i].data = memo[i].data
    BY <1>0, <2>3, <2>4, <2>6, <2>8, BlankMemo DEF Legal, Call
  <2>11. memo'[i].stored /\ ~memo[i].stored => what = "store" /\ memo'[i].data = data
    BY <1>0, <2>3, <2>4, BlankMemo DEF Call
  <2>12. what # "again" /\ memo[i].started => memo'[i].started
    BY <1>0, <2>3, <2>4, <2>6, BlankMemo DEF Call
  <2> QED
    BY <1>2, <2>3, <2>4, <2>5, <2>7, <2>9, <2>10, <2>11, <2>12 DEF Effect
<1>4. CASE ~(~Answered(i, what) /\ Accepts(memo[i], what))
  <2>1. memo' = memo /\ mutations' = mutations
    BY <1>4 DEF Arrives, actorVars
  <2>2. what = "reset" => <<i, "reset">> \in mutations
    BY <1>0, <1>1, <1>4, BlankMemo DEF Answered, Accepts, Keyed
  <2>3. what = "store" => memo[i].stored
    BY <1>1, <1>4 DEF Answered, Accepts, Keyed
  <2>4. ~(what = "start" /\ Succeeds(i, what))
    BY <1>4 DEF Succeeds, Answered, Keyed
  <2> QED
    BY <1>0, <1>1, <1>2, <2>1, <2>2, <2>3, <2>4 DEF Effect
<1> QED
  BY <1>3, <1>4

-----------------------------------------------------------------------------
\* The invariant holds initially.
LEMMA WorkflowStart == WorkflowInit => WorkflowInv
<1> SUFFICES ASSUME WorkflowInit PROVE WorkflowInv
  OBVIOUS
<1>1. /\ 0 \in Iteration /\ memo \in [Iteration -> Memo]
      /\ \A i \in Iteration : memo[i] = Blank
  BY WorkflowAssumption, BlankMemo DEF WorkflowInit, Iteration
<1>2. WorkflowTypeOK
  BY <1>1 DEF WorkflowInit, WorkflowTypeOK, Memo
<1>3. AttemptOK
  BY DEF WorkflowInit, AttemptOK, Running
<1>4. MemoOK
  BY <1>1, BlankMemo DEF WorkflowInit, MemoOK
<1>5. LateOK
  BY DEF WorkflowInit, LateOK
<1>6. OnceOK
  BY <1>1 DEF WorkflowInit, OnceOK, OnceAt, Late, Here
<1>7. ChangeOK
  BY <1>1, BlankMemo DEF WorkflowInit, ChangeOK, Here, Running
<1> QED
  BY <1>2, <1>3, <1>4, <1>5, <1>6, <1>7 DEF WorkflowInv, WorkflowInit

\* A step that leaves the actors, their calls and the history alone, and
\* after which no attempt is in a block.
LEMMA OutOfBlock ==
    ASSUME WorkflowInv, WorkflowTypeOK', phase' \in {"down", "reset", "ended"},
           UNCHANGED <<style, memo, mutations, late, runs, returned, overtaken>>
    PROVE  WorkflowInv'
<1>1. AttemptOK'
  BY DEF AttemptOK, Running
<1>2. MemoOK' /\ LateOK'
  BY DEF WorkflowInv, MemoOK, LateOK
<1>3. OnceOK'
  BY DEF WorkflowInv, OnceOK, OnceAt, Here, Late
<1>4. ChangeOK'
  BY DEF WorkflowInv, ChangeOK, Here, Running
<1> QED
  BY <1>1, <1>2, <1>3, <1>4 DEF WorkflowInv

\* The steps of the control loop around the block keep the invariant.
LEMMA OutsideSteps ==
    ASSUME WorkflowInv,
           Attempt \/ Break \/ NextIteration \/ \E n \in {0, 1} : IterateRaises(n)
    PROVE  WorkflowInv'
<1>1. /\ phase' \in {"down", "reset", "ended"}
      /\ UNCHANGED <<style, memo, mutations, late, runs, returned, overtaken>>
  BY DEF Attempt, Break, NextIteration, IterateRaises, Moves, actorVars, workflowHistory
<1>2. WorkflowTypeOK
  BY DEF WorkflowInv
<1>3. result' \in Value \cup {NoValue} /\ validating' \in BOOLEAN
  BY <1>2 DEF Attempt, Break, NextIteration, IterateRaises, Moves, WorkflowTypeOK
<1>4. iteration' \in Iteration /\ recorded' \in Iteration
  BY <1>2, WorkflowAssumption
     DEF Attempt, Break, NextIteration, IterateRaises, Moves, WorkflowTypeOK, Iteration
<1>5. WorkflowTypeOK'
  BY <1>1, <1>2, <1>3, <1>4 DEF WorkflowTypeOK
<1> QED
  BY <1>1, <1>5, OutOfBlock

\* The answer to `Status` keeps the invariant.
LEMMA StatusKeeps ==
    ASSUME WorkflowInv, Status
    PROVE  WorkflowInv'
<1>0. /\ WorkflowTypeOK /\ AttemptOK /\ MemoOK /\ LateOK /\ OnceOK /\ ChangeOK
      /\ iteration \in Iteration
  BY DEF WorkflowInv, WorkflowTypeOK
<1>1. PICK m \in Memo : m = memo[iteration]
  BY <1>0 DEF WorkflowTypeOK, Memo
<1> DEFINE missing == style = "until_changes" /\ iteration > 0 /\ ~memo[iteration - 1].stored
           raises == missing \/ (style = "at_most_once" /\ m.started /\ ~m.stored)
<1>2. /\ phase = "status" /\ <<iteration, "reset">> \in mutations
      /\ UNCHANGED <<style, iteration, recorded, validating, late, result, memo, mutations,
                     runs, overtaken>>
  BY <1>0 DEF Status, Moves, actorVars, AttemptOK
<1>3. /\ phase' = IF raises THEN "down" ELSE IF m.stored THEN "body"
                  ELSE IF style = "at_most_once" THEN "start" ELSE "call"
      /\ returned' = IF ~raises /\ m.stored
                     THEN [returned EXCEPT ![iteration] = @ \cup {m.data}] ELSE returned
  BY <1>1 DEF Status, Moves
<1> HIDE DEF missing, raises
<1>4. CASE raises
  <2>1. WorkflowTypeOK'
    BY <1>0, <1>2, <1>3, <1>4 DEF WorkflowTypeOK
  <2> QED
    BY <1>2, <1>3, <1>4, <2>1, OutOfBlock
<1>5. CASE ~raises /\ m.stored
  <2>1. phase' = "body" /\ returned' = [returned EXCEPT ![iteration] = @ \cup {m.data}]
    BY <1>3, <1>5
  <2>2. m.data \in Value
    BY <1>0, <1>1, <1>5 DEF MemoOK
  <2>3. /\ returned' \in [Iteration -> SUBSET Value]
        /\ returned'[iteration] = returned[iteration] \cup {m.data}
        /\ \A i \in Iteration \ {iteration} : returned'[i] = returned[i]
    BY <1>0, <2>1, <2>2 DEF WorkflowTypeOK
  <2>4. WorkflowTypeOK'
    BY <1>0, <1>2, <2>1, <2>3 DEF WorkflowTypeOK
  <2>5. AttemptOK'
    BY <1>2, <2>1 DEF AttemptOK, Running
  <2>6. MemoOK'
    BY <1>0, <1>1, <1>2, <1>5, <2>3 DEF MemoOK
  <2>7. LateOK'
    BY <1>0, <1>2 DEF LateOK
  <2>8. OnceOK'
    BY <1>0, <1>2, <2>1 DEF OnceOK, OnceAt, Here, Late
  <2>9. ChangeOK'
    BY <1>0, <1>2, <2>1 DEF ChangeOK, Here, Running
  <2> QED
    BY <1>2, <2>4, <2>5, <2>6, <2>7, <2>8, <2>9 DEF WorkflowInv
<1>6. CASE ~raises /\ ~m.stored
  <2>1. /\ phase' = IF style = "at_most_once" THEN "start" ELSE "call"
        /\ returned' = returned
    BY <1>3, <1>6
  <2>2. returned[iteration] = {}
    BY <1>0, <1>1, <1>6 DEF MemoOK
  <2>3. WorkflowTypeOK'
    BY <1>0, <1>2, <2>1 DEF WorkflowTypeOK
  <2>4. AttemptOK'
    BY <1>1, <1>2, <1>6, <2>1, <2>2 DEF AttemptOK, Running
  <2>5. MemoOK' /\ LateOK'
    BY <1>0, <1>2, <2>1 DEF MemoOK, LateOK
  <2>6. OnceOK'
    <3>1. style = "at_most_once" => ~m.started
      BY <1>6 DEF raises
    <3>2. style = "at_most_once" => runs[iteration] = 0
      <4>1. runs[iteration] \in Nat
        BY <1>0 DEF WorkflowTypeOK
      <4> QED
        BY <1>0, <1>1, <3>1, <4>1 DEF OnceOK, OnceAt
    <3>3. style = "at_most_once" => ~Late(iteration, "store") /\ ~Late(iteration, "again")
      BY <1>0, <1>1, <3>1, <3>2 DEF OnceOK, OnceAt
    <3> QED
      BY <1>0, <1>1, <1>2, <1>6, <2>1, <3>1, <3>2, <3>3 DEF OnceOK, OnceAt, Here, Late
  <2>7. ChangeOK'
    <3>1. style = "until_changes" /\ iteration > 0 => memo[iteration - 1].stored
      BY <1>6 DEF raises, missing
    <3>2. iteration # 0 => iteration > 0
      BY <1>0 DEF Iteration
    <3> QED
      BY <1>0, <1>2, <2>1, <3>1, <3>2 DEF ChangeOK, Here, Running
  <2> QED
    BY <1>2, <2>3, <2>4, <2>5, <2>6, <2>7 DEF WorkflowInv
<1> QED
  BY <1>4, <1>5, <1>6

\* Calling the block keeps the invariant.
LEMMA CallKeeps ==
    ASSUME WorkflowInv, CallCallable
    PROVE  WorkflowInv'
<1>0. /\ WorkflowTypeOK /\ AttemptOK /\ MemoOK /\ LateOK /\ OnceOK /\ ChangeOK
      /\ iteration \in Iteration /\ runs \in [Iteration -> Nat]
  BY DEF WorkflowInv, WorkflowTypeOK
<1>1. /\ phase \in {"call", "recall"}
      /\ phase' = IF phase = "recall" \/ style # "at_least_once" THEN "running" ELSE "first"
      /\ UNCHANGED <<style, iteration, recorded, validating, late, result, memo, mutations,
                     returned, overtaken>>
  BY DEF CallCallable, Moves, actorVars
<1>2. /\ runs' \in [Iteration -> Nat] /\ runs'[iteration] = runs[iteration] + 1
      /\ \A i \in Iteration \ {iteration} : runs'[i] = runs[i]
  BY <1>0 DEF CallCallable
<1>3. WorkflowTypeOK'
  BY <1>0, <1>1, <1>2 DEF WorkflowTypeOK
<1>4. AttemptOK'
  BY <1>0, <1>1, <1>2 DEF AttemptOK, Running
<1>5. MemoOK' /\ LateOK'
  BY <1>0, <1>1 DEF MemoOK, LateOK
<1>6. OnceOK'
  <2>1. style = "at_most_once" => phase = "call" /\ phase' = "running"
    BY <1>0, <1>1 DEF AttemptOK
  <2>2. style = "at_most_once" => /\ runs[iteration] = 0 /\ memo[iteration].started
                                  /\ ~memo[iteration].stored /\ ~Late(iteration, "store")
                                  /\ ~Late(iteration, "again")
    BY <1>0, <2>1 DEF OnceOK, OnceAt, Here
  <2> QED
    BY <1>0, <1>1, <1>2, <2>1, <2>2 DEF OnceOK, OnceAt, Here, Late
<1>7. ChangeOK'
  BY <1>0, <1>1 DEF ChangeOK, Here, Running
<1> QED
  BY <1>1, <1>3, <1>4, <1>5, <1>6, <1>7 DEF WorkflowInv

\* A block that returns keeps the invariant.
LEMMA ReturnsKeeps ==
    ASSUME WorkflowInv, NEW v \in Value, CallableReturns(v)
    PROVE  WorkflowInv'
<1>0. /\ WorkflowTypeOK /\ AttemptOK /\ MemoOK /\ LateOK /\ OnceOK /\ ChangeOK
      /\ iteration \in Iteration
  BY DEF WorkflowInv, WorkflowTypeOK
<1>1. /\ phase \in {"first", "running"} /\ Acceptable(v) /\ result' = v
      /\ phase' = IF phase = "first" THEN "recall" ELSE "store"
      /\ UNCHANGED <<style, iteration, recorded, validating, late, memo, mutations, runs,
                     returned, overtaken>>
  BY DEF CallableReturns, Moves, actorVars, workflowHistory
<1>2. WorkflowTypeOK'
  BY <1>0, <1>1 DEF WorkflowTypeOK
<1>3. AttemptOK'
  BY <1>0, <1>1 DEF AttemptOK, Running
<1>4. MemoOK' /\ LateOK'
  BY <1>0, <1>1 DEF MemoOK, LateOK
<1>5. OnceOK'
  <2>1. style = "at_most_once" => phase = "running"
    BY <1>0, <1>1 DEF AttemptOK
  <2> QED
    BY <1>0, <1>1, <2>1 DEF OnceOK, OnceAt, Here, Late
<1>6. ChangeOK'
  <2>1. iteration # 0 => iteration > 0
    BY <1>0 DEF Iteration
  <2> QED
    BY <1>0, <1>1, <2>1 DEF ChangeOK, Here, Running, Acceptable
<1> QED
  BY <1>1, <1>2, <1>3, <1>4, <1>5, <1>6 DEF WorkflowInv

\* A block that raises keeps the invariant.
LEMMA RaisesKeeps ==
    ASSUME WorkflowInv, NEW retryable \in BOOLEAN, CallableRaises(retryable)
    PROVE  WorkflowInv'
<1>0. /\ WorkflowTypeOK /\ AttemptOK /\ MemoOK /\ LateOK /\ OnceOK /\ ChangeOK
      /\ iteration \in Iteration /\ runs \in [Iteration -> Nat] /\ runs[iteration] \in Nat
  BY DEF WorkflowInv, WorkflowTypeOK
<1>1. /\ phase \in {"first", "running"}
      /\ phase' = IF style # "at_most_once" THEN "down"
                  ELSE IF retryable THEN "again" ELSE "fail"
      /\ UNCHANGED <<style, iteration, recorded, validating, late, result, memo, mutations,
                     returned, overtaken>>
  BY DEF CallableRaises, Moves, actorVars
<1>2. runs[iteration] >= 1
  BY <1>0, <1>1 DEF AttemptOK
<1>3. /\ runs' \in [Iteration -> Nat]
      /\ runs'[iteration] = IF retryable THEN runs[iteration] - 1 ELSE runs[iteration]
      /\ \A i \in Iteration \ {iteration} : runs'[i] = runs[i]
  <2>1. runs[iteration] - 1 \in Nat
    BY <1>0, <1>2
  <2> QED
    BY <1>0, <2>1 DEF CallableRaises
<1>4. WorkflowTypeOK'
  BY <1>0, <1>1, <1>3 DEF WorkflowTypeOK
<1>5. AttemptOK'
  BY <1>0, <1>1 DEF AttemptOK, Running
<1>6. MemoOK' /\ LateOK'
  BY <1>0, <1>1 DEF MemoOK, LateOK
<1>7. OnceOK'
  <2>1. style = "at_most_once" =>
            /\ phase = "running" /\ runs[iteration] = 1 /\ memo[iteration].started
            /\ ~memo[iteration].stored /\ ~Late(iteration, "store")
            /\ ~Late(iteration, "again")
    BY <1>0, <1>1 DEF AttemptOK, OnceOK, OnceAt, Here
  <2> QED
    BY <1>0, <1>1, <1>3, <2>1 DEF OnceOK, OnceAt, Here, Late
<1>8. ChangeOK'
  BY <1>0, <1>1 DEF ChangeOK, Here, Running
<1> QED
  BY <1>1, <1>4, <1>5, <1>6, <1>7, <1>8 DEF WorkflowInv

\* A crash of the server: the call that is under way may arrive later.
LEMMA CrashKeeps ==
    ASSUME WorkflowInv, Crash
    PROVE  WorkflowInv'
<1>0. /\ WorkflowTypeOK /\ AttemptOK /\ MemoOK /\ LateOK /\ OnceOK /\ ChangeOK
      /\ iteration \in Iteration
  BY DEF WorkflowInv, WorkflowTypeOK
<1>1. /\ phase' = "down" /\ iteration' = recorded /\ validating' = FALSE
      /\ UNCHANGED <<style, recorded, result, memo, mutations, runs, returned, overtaken>>
  BY DEF Crash, actorVars
<1>2. CASE late' = late
  <2>1. WorkflowTypeOK'
    BY <1>0, <1>1, <1>2 DEF WorkflowTypeOK
  <2> QED
    BY <1>1, <1>2, <2>1, OutOfBlock
<1>3. CASE late' # late
  <2>1. PICK x : /\ x = [at |-> iteration, what |-> phase, data |-> result]
                 /\ phase \in Call /\ late' = late \cup {x}
    BY <1>3 DEF Crash, Call
  <2>2. /\ x.at = iteration /\ x.what = phase /\ x.data = result
        /\ x \in [at : Iteration, what : Call, data : Value \cup {NoValue}]
    BY <1>0, <2>1 DEF WorkflowTypeOK
  <2>3. WorkflowTypeOK'
    BY <1>0, <1>1, <2>1, <2>2 DEF WorkflowTypeOK, Call
  <2>4. AttemptOK'
    BY <1>1 DEF AttemptOK, Running
  <2>5. MemoOK'
    BY <1>0, <1>1 DEF MemoOK
  <2>6. LateOK'
    <3>1. /\ phase \in {"start", "again", "fail"} => style = "at_most_once"
          /\ phase # "reset" => <<iteration, "reset">> \in mutations
          /\ phase = "store" => result \in Value
      BY <1>0, <2>1 DEF AttemptOK, Call
    <3> QED
      BY <1>0, <1>1, <2>1, <2>2, <3>1 DEF LateOK
  <2>7. OnceOK'
    <3> SUFFICES ASSUME style = "at_most_once", NEW i \in Iteration
                 PROVE  /\ runs[i] <= 1 /\ (runs[i] = 1 => memo[i].started)
                        /\ Late(i, "store")' => runs[i] = 1
                        /\ Late(i, "again")' =>
                              runs[i] = 0 /\ memo[i].started /\ ~memo[i].stored
                        /\ \A c, d \in late' : /\ c.at = i /\ d.at = i
                                               /\ c.what = "again" /\ d.what = "again"
                                               => c = d
      BY <1>1 DEF OnceOK, OnceAt, Here
    <3>1. /\ Late(i, "store")' <=> Late(i, "store") \/ Here(i, {"store"})
          /\ Late(i, "again")' <=> Late(i, "again") \/ Here(i, {"again"})
      BY <2>1, <2>2 DEF Late, Here
    <3>2. /\ runs[i] <= 1 /\ (runs[i] = 1 => memo[i].started)
          /\ Here(i, {"again"}) => /\ runs[i] = 0 /\ memo[i].started /\ ~memo[i].stored
                                   /\ ~Late(i, "again")
          /\ Here(i, {"store"}) => runs[i] = 1
          /\ Late(i, "store") => runs[i] = 1
          /\ Late(i, "again") => runs[i] = 0 /\ memo[i].started /\ ~memo[i].stored
      BY <1>0 DEF OnceOK, OnceAt, Here
    <3>3. \A c, d \in late' : c.at = i /\ d.at = i /\ c.what = "again" /\ d.what = "again"
                              => c = d
      <4>1. CASE Here(i, {"again"})
        BY <2>1, <3>2, <4>1 DEF Late
      <4>2. CASE ~Here(i, {"again"})
        <5>1. ~(x.at = i /\ x.what = "again")
          BY <2>2, <4>2 DEF Here
        <5>2. \A c, d \in late : c.at = i /\ d.at = i /\ c.what = "again" /\ d.what = "again"
                                 => c = d
          BY <1>0 DEF OnceOK, OnceAt
        <5> QED
          BY <2>1, <5>1, <5>2
      <4> QED
        BY <4>1, <4>2
    <3> QED
      BY <3>1, <3>2, <3>3
  <2>8. ChangeOK'
    BY <1>0, <1>1, <2>1, <2>2 DEF ChangeOK, Here, Running
  <2> QED
    BY <1>1, <2>3, <2>4, <2>5, <2>6, <2>7, <2>8 DEF WorkflowInv
<1> QED
  BY <1>2, <1>3

\* What an arrival keeps of the actors, whoever made the call.
Kept(i, what) ==
    /\ \A j \in Iteration :
          /\ memo[j].stored => memo'[j].stored /\ memo'[j].data = memo[j].data
          /\ memo'[j].stored => memo'[j].data \in Value
          /\ memo'[j].stored <=> <<j, "store">> \in mutations'
          /\ memo'[j] # Blank => <<j, "reset">> \in mutations'
          /\ j # i \/ what # "store" => (memo'[j].stored => memo[j].stored)
          /\ (j # i \/ what # "again") /\ memo[j].started => memo'[j].started
    /\ style = "until_changes" =>
          \A j \in Iteration \ {0} : memo'[j].stored =>
              memo'[j - 1].stored /\ memo'[j].data # memo'[j - 1].data
    /\ mutations \subseteq mutations'

\* A call that arrives keeps what the invariant says of the memoizing actor.
LEMMA ArrivalKeeps ==
    ASSUME WorkflowInv, NEW i \in Iteration, NEW what \in Call,
           NEW data \in Value \cup {NoValue}, Effect(i, what, data),
           what = "store" => data \in Value,
           style = "until_changes" /\ i # 0 /\ what = "store" =>
               memo[i - 1].stored /\ data # memo[i - 1].data
    PROVE  Kept(i, what)
<1>0. MemoOK /\ ChangeOK
  BY DEF WorkflowInv
<1>1. \A j \in Iteration \ {i} : memo'[j] = memo[j]
  BY DEF Effect
<1>2. /\ memo[i].stored => memo'[i].stored /\ memo'[i].data = memo[i].data
      /\ memo'[i].stored /\ ~memo[i].stored => what = "store" /\ memo'[i].data = data
      /\ what # "again" /\ memo[i].started => memo'[i].started
      /\ mutations \subseteq mutations'
      /\ \A j \in Iteration : /\ memo'[j].stored <=> <<j, "store">> \in mutations'
                              /\ memo'[j] # Blank => <<j, "reset">> \in mutations'
  BY DEF Effect
<1>3. \A j \in Iteration : memo[j].stored => memo[j].data \in Value
  BY <1>0 DEF MemoOK
<1>4. \A j \in Iteration :
          /\ memo[j].stored => memo'[j].stored /\ memo'[j].data = memo[j].data
          /\ memo'[j].stored => memo'[j].data \in Value
  BY <1>1, <1>2, <1>3
<1>5. ASSUME style = "until_changes", NEW j \in Iteration \ {0}, memo'[j].stored
      PROVE  memo'[j - 1].stored /\ memo'[j].data # memo'[j - 1].data
  <2>1. j - 1 \in Iteration /\ j - 1 # j
    BY WorkflowAssumption DEF Iteration
  <2>2. CASE memo[j].stored
    <3>1. memo[j - 1].stored /\ memo[j].data # memo[j - 1].data
      BY <1>0, <1>5, <2>2 DEF ChangeOK
    <3> QED
      BY <1>4, <2>1, <2>2, <3>1
  <2>3. CASE ~memo[j].stored
    <3>1. j = i /\ what = "store" /\ memo'[j].data = data
      BY <1>1, <1>2, <1>5, <2>3
    <3>2. memo[j - 1].stored /\ data # memo[j - 1].data
      BY <1>5, <3>1
    <3> QED
      BY <1>4, <2>1, <3>1, <3>2
  <2> QED
    BY <2>2, <2>3
<1> QED
  BY <1>1, <1>2, <1>4, <1>5 DEF Kept

\* What was late of the parts that no arrival concerns.
LEMMA LateStays ==
    ASSUME WorkflowInv, NEW i, NEW what, Kept(i, what), late' \subseteq late, style' = style
    PROVE  LateOK'
BY DEF WorkflowInv, LateOK, Kept

\* A call that is answered outside a block leaves a run known as started.
LEMMA OnceStays ==
    ASSUME WorkflowInv, style = "at_most_once", NEW j \in Iteration,
           UNCHANGED <<late, runs>>, phase' \in {"status", "down", "body"},
           (memo[j].started => memo'[j].started) \/ (runs[j] = 0 /\ ~Late(j, "again")),
           (memo'[j].stored => memo[j].stored) \/ ~Late(j, "again")
    PROVE  OnceAt(j)'
<1>1. OnceAt(j)
  BY DEF WorkflowInv, OnceOK
<1>2. Late(j, "store")' = Late(j, "store") /\ Late(j, "again")' = Late(j, "again")
  BY DEF Late
<1>3. \A phases \in SUBSET {"start", "call", "running", "store", "again", "fail"} :
          ~Here(j, phases)'
  BY DEF Here
<1>4. /\ runs[j] <= 1 /\ (runs[j] = 1 => memo'[j].started)
      /\ Late(j, "store") => runs[j] = 1
      /\ Late(j, "again") => runs[j] = 0 /\ memo'[j].started /\ ~memo'[j].stored
  BY <1>1 DEF OnceAt
<1>5. \A c, d \in late' : c.at = j /\ d.at = j /\ c.what = "again" /\ d.what = "again"
                          => c = d
  BY <1>1 DEF OnceAt
<1>6. /\ ~Here(j, {"start", "call", "again"})' /\ ~Here(j, {"running", "store", "fail"})'
      /\ ~Here(j, {"call", "again"})'
      /\ ~Here(j, {"start", "call", "running", "store", "again", "fail"})'
  BY <1>3
<1> QED
  BY <1>2, <1>4, <1>5, <1>6 DEF OnceAt

\* A call that arrives while no block runs keeps ChangeOK.
LEMMA ChangeStays ==
    ASSUME WorkflowInv, NEW i, NEW what, Kept(i, what), UNCHANGED <<style, late>>,
           phase' \notin Running
    PROVE  ChangeOK'
<1> SUFFICES ASSUME style = "until_changes", NEW j \in Iteration \ {0}
             PROVE  /\ memo'[j].stored =>
                           memo'[j - 1].stored /\ memo'[j].data # memo'[j - 1].data
                    /\ \A c \in late : c.at = j /\ c.what = "store" =>
                          memo'[j - 1].stored /\ c.data # memo'[j - 1].data
  BY DEF ChangeOK, Here, Running
<1>1. j - 1 \in Iteration
  BY WorkflowAssumption DEF Iteration
<1>2. memo[j - 1].stored => memo'[j - 1].stored /\ memo'[j - 1].data = memo[j - 1].data
  BY <1>1 DEF Kept
<1>3. memo'[j].stored => memo'[j - 1].stored /\ memo'[j].data # memo'[j - 1].data
  BY DEF Kept
<1>4. \A c \in late : c.at = j /\ c.what = "store" =>
          memo[j - 1].stored /\ c.data # memo[j - 1].data
  BY DEF WorkflowInv, ChangeOK
<1> QED
  BY <1>2, <1>3, <1>4

\* The typing of an arrival.
LEMMA ArrivalTyped ==
    ASSUME WorkflowTypeOK, NEW i, NEW what, NEW data, Effect(i, what, data)
    PROVE  /\ memo' \in [Iteration -> [started : BOOLEAN, stored : BOOLEAN,
                                       failed : BOOLEAN, data : Value \cup {NoValue}]]
           /\ mutations' \subseteq Iteration \X {"reset", "store", "fail"}
BY DEF Effect, Memo

\* The reset that a memoized block begins with keeps the invariant.
LEMMA InitialResetKeeps ==
    ASSUME WorkflowInv, InitialReset
    PROVE  WorkflowInv'
<1>0. /\ WorkflowTypeOK /\ AttemptOK /\ MemoOK /\ LateOK /\ OnceOK /\ ChangeOK
      /\ iteration \in Iteration /\ result \in Value \cup {NoValue}
  BY DEF WorkflowInv, WorkflowTypeOK
<1>1. /\ phase = "reset" /\ phase' \in {"status", "down"}
      /\ UNCHANGED <<style, iteration, recorded, validating, late, result, runs, returned,
                     overtaken>>
      /\ Arrives(iteration, "reset", result)
  BY DEF InitialReset, CallTo, Moves, workflowHistory
<1>2. Effect(iteration, "reset", result)
  <2>1. Legal(iteration, "reset", result) /\ "reset" \in Call
    BY DEF Legal, Call
  <2> QED
    BY <1>0, <1>1, <2>1, Arrival
<1>3. Kept(iteration, "reset")
  <2>1. "reset" \in Call
    BY DEF Call
  <2> QED
    BY <1>0, <1>2, <2>1, ArrivalKeeps
<1>4. WorkflowTypeOK'
  BY <1>0, <1>1, <1>2, ArrivalTyped DEF WorkflowTypeOK
<1>5. AttemptOK'
  BY <1>1, <1>2 DEF AttemptOK, Running, Effect
<1>6. MemoOK'
  BY <1>0, <1>1, <1>3 DEF MemoOK, Kept
<1>7. LateOK'
  BY <1>1, <1>3, LateStays
<1>8. OnceOK'
  <2>1. ASSUME style = "at_most_once", NEW j \in Iteration PROVE OnceAt(j)'
    <3>1. (memo[j].started => memo'[j].started) /\ (memo'[j].stored => memo[j].stored)
      BY <1>3 DEF Kept
    <3> QED
      BY <1>1, <2>1, <3>1, OnceStays
  <2> QED
    BY <1>1, <2>1 DEF OnceOK
<1>9. ChangeOK'
  BY <1>1, <1>3, ChangeStays DEF Running
<1> QED
  BY <1>1, <1>4, <1>5, <1>6, <1>7, <1>8, <1>9 DEF WorkflowInv

\* `Start` keeps the invariant.
LEMMA StartKeeps ==
    ASSUME WorkflowInv, StartBlock
    PROVE  WorkflowInv'
<1>0. /\ WorkflowTypeOK /\ AttemptOK /\ MemoOK /\ LateOK /\ OnceOK /\ ChangeOK
      /\ iteration \in Iteration /\ result \in Value \cup {NoValue}
  BY DEF WorkflowInv, WorkflowTypeOK
<1>1. /\ phase = "start"
      /\ phase' = IF Succeeds(iteration, "start") THEN "call" ELSE "down"
      /\ UNCHANGED <<style, iteration, recorded, validating, late, result, runs, returned,
                     overtaken>>
      /\ Arrives(iteration, "start", result)
  BY DEF StartBlock, CallTo, Moves, workflowHistory
<1>2. /\ style = "at_most_once" /\ <<iteration, "reset">> \in mutations
      /\ runs[iteration] = 0 /\ ~memo[iteration].stored
      /\ ~Late(iteration, "store") /\ ~Late(iteration, "again")
  BY <1>0, <1>1 DEF AttemptOK, OnceOK, OnceAt, Here
<1>3. Effect(iteration, "start", result)
  <2>1. Legal(iteration, "start", result) /\ "start" \in Call
    BY <1>2 DEF Legal, Call
  <2> QED
    BY <1>0, <1>1, <2>1, Arrival
<1>4. Kept(iteration, "start")
  <2>1. "start" \in Call
    BY DEF Call
  <2> QED
    BY <1>0, <1>3, <2>1, ArrivalKeeps
<1>5. phase' = "call" => memo'[iteration].started
  BY <1>1, <1>3 DEF Effect
<1>6. ~memo'[iteration].stored
  BY <1>0, <1>2, <1>4 DEF Kept
<1>7. WorkflowTypeOK'
  BY <1>0, <1>1, <1>3, ArrivalTyped DEF WorkflowTypeOK
<1>8. AttemptOK'
  <2>1. returned[iteration] = {}
    BY <1>0, <1>2 DEF MemoOK
  <2> QED
    BY <1>1, <1>2, <1>4, <1>6, <2>1 DEF AttemptOK, Running, Kept
<1>9. MemoOK'
  BY <1>0, <1>1, <1>4 DEF MemoOK, Kept
<1>10. LateOK'
  BY <1>1, <1>4, LateStays
<1>11. OnceOK'
  <2>1. ASSUME NEW j \in Iteration PROVE OnceAt(j)'
    <3>0. (memo[j].started => memo'[j].started) /\ (memo'[j].stored => memo[j].stored)
      BY <1>4 DEF Kept
    <3>1. CASE phase' = "down"
      BY <1>1, <1>2, <3>0, <3>1, OnceStays
    <3>2. CASE phase' = "call"
      <4>1. OnceAt(j)
        BY <1>0, <1>2 DEF OnceOK
      <4>2. Late(j, "store")' = Late(j, "store") /\ Late(j, "again")' = Late(j, "again")
        BY <1>1 DEF Late
      <4>3. CASE j = iteration
        BY <1>1, <1>2, <1>5, <1>6, <3>0, <3>2, <4>1, <4>2, <4>3 DEF OnceAt, Here
      <4>4. CASE j # iteration
        BY <1>1, <3>0, <4>1, <4>2, <4>4 DEF OnceAt, Here
      <4> QED
        BY <4>3, <4>4
    <3> QED
      BY <1>1, <3>1, <3>2
  <2> QED
    BY <2>1 DEF OnceOK
<1>12. ChangeOK'
  BY <1>1, <1>2 DEF ChangeOK
<1> QED
  BY <1>1, <1>2, <1>7, <1>8, <1>9, <1>10, <1>11, <1>12 DEF WorkflowInv

\* The reset or failure after a block raised keeps the invariant.
LEMMA ResetOrFailKeeps ==
    ASSUME WorkflowInv, ResetOrFail
    PROVE  WorkflowInv'
<1>0. /\ WorkflowTypeOK /\ AttemptOK /\ MemoOK /\ LateOK /\ OnceOK /\ ChangeOK
      /\ iteration \in Iteration /\ result \in Value \cup {NoValue}
  BY DEF WorkflowInv, WorkflowTypeOK
<1>1. PICK what \in {"again", "fail"} : what = phase
  BY DEF ResetOrFail
<1>2. /\ phase' = "down"
      /\ UNCHANGED <<style, iteration, recorded, validating, late, result, runs, returned,
                     overtaken>>
      /\ Arrives(iteration, what, result)
  BY <1>1 DEF ResetOrFail, CallTo, Moves, workflowHistory
<1>3. /\ style = "at_most_once" /\ <<iteration, "reset">> \in mutations
      /\ what = "again" => runs[iteration] = 0
      /\ ~memo[iteration].stored /\ ~Late(iteration, "again")
  BY <1>0, <1>1 DEF AttemptOK, OnceOK, OnceAt, Here
<1>4. Effect(iteration, what, result)
  <2>1. Legal(iteration, what, result) /\ what \in Call
    BY <1>3 DEF Legal, Call
  <2> QED
    BY <1>0, <1>2, <2>1, Arrival
<1>5. Kept(iteration, what)
  <2>1. what \in Call
    BY DEF Call
  <2> QED
    BY <1>0, <1>4, <2>1, ArrivalKeeps
<1>6. WorkflowTypeOK'
  BY <1>0, <1>2, <1>4, ArrivalTyped DEF WorkflowTypeOK
<1>7. AttemptOK'
  BY <1>2 DEF AttemptOK, Running
<1>8. MemoOK'
  BY <1>0, <1>2, <1>5 DEF MemoOK, Kept
<1>9. LateOK'
  BY <1>2, <1>5, LateStays
<1>10. OnceOK'
  <2>1. ASSUME NEW j \in Iteration PROVE OnceAt(j)'
    <3>1. /\ j # iteration \/ what # "again" => (memo[j].started => memo'[j].started)
          /\ memo'[j].stored => memo[j].stored
      BY <1>5 DEF Kept
    <3> QED
      BY <1>2, <1>3, <3>1, OnceStays
  <2> QED
    BY <2>1 DEF OnceOK
<1>11. ChangeOK'
  BY <1>2, <1>3 DEF ChangeOK
<1> QED
  BY <1>2, <1>3, <1>6, <1>7, <1>8, <1>9, <1>10, <1>11 DEF WorkflowInv

\* `Store` keeps the invariant.
LEMMA StoreKeeps ==
    ASSUME WorkflowInv, Store
    PROVE  WorkflowInv'
<1>0. /\ WorkflowTypeOK /\ AttemptOK /\ MemoOK /\ LateOK /\ OnceOK /\ ChangeOK
      /\ iteration \in Iteration /\ result \in Value \cup {NoValue}
  BY DEF WorkflowInv, WorkflowTypeOK
<1>1. /\ phase = "store"
      /\ phase' = IF Succeeds(iteration, "store") THEN "body" ELSE "down"
      /\ UNCHANGED <<style, iteration, recorded, validating, late, result, runs, overtaken>>
      /\ Arrives(iteration, "store", result)
  BY DEF Store, CallTo, Moves
<1>2. /\ <<iteration, "reset">> \in mutations /\ result \in Value
      /\ returned[iteration] = {}
      /\ style = "at_most_once" \/ ~overtaken => ~memo[iteration].stored
      /\ style = "at_most_once" => runs[iteration] = 1 /\ ~Late(iteration, "again")
      /\ style = "until_changes" /\ iteration # 0 =>
            memo[iteration - 1].stored /\ result # memo[iteration - 1].data
  BY <1>0, <1>1 DEF AttemptOK, Running, OnceOK, OnceAt, ChangeOK, Here
<1>3. Effect(iteration, "store", result)
  <2>1. Legal(iteration, "store", result) /\ "store" \in Call
    BY <1>2 DEF Legal, Call
  <2> QED
    BY <1>0, <1>1, <2>1, Arrival
<1>4. Kept(iteration, "store")
  <2>1. "store" \in Call
    BY DEF Call
  <2> QED
    BY <1>0, <1>2, <1>3, <2>1, ArrivalKeeps
<1>5. /\ phase' = "body" /\ memo'[iteration].stored
      /\ ~memo[iteration].stored => memo'[iteration].data = result
      /\ returned' = [returned EXCEPT ![iteration] = @ \cup {result}]
  BY <1>1, <1>3 DEF Effect, Store
<1>6. /\ returned' \in [Iteration -> SUBSET Value] /\ returned'[iteration] = {result}
      /\ \A i \in Iteration \ {iteration} : returned'[i] = returned[i]
  BY <1>0, <1>2, <1>5 DEF WorkflowTypeOK
<1>7. WorkflowTypeOK'
  BY <1>0, <1>1, <1>3, <1>5, <1>6, ArrivalTyped DEF WorkflowTypeOK
<1>8. AttemptOK'
  BY <1>1, <1>2, <1>4, <1>5 DEF AttemptOK, Running, Kept
<1>9. MemoOK'
  BY <1>0, <1>1, <1>2, <1>4, <1>5, <1>6 DEF MemoOK, Kept
<1>10. LateOK'
  BY <1>1, <1>4, LateStays
<1>11. OnceOK'
  <2>1. ASSUME style = "at_most_once", NEW j \in Iteration PROVE OnceAt(j)'
    <3>1. /\ memo[j].started => memo'[j].started
          /\ j # iteration => (memo'[j].stored => memo[j].stored)
      BY <1>4 DEF Kept
    <3> QED
      BY <1>1, <1>2, <1>5, <2>1, <3>1, OnceStays
  <2> QED
    BY <1>1, <2>1 DEF OnceOK
<1>12. ChangeOK'
  BY <1>1, <1>4, <1>5, ChangeStays DEF Running
<1> QED
  BY <1>1, <1>7, <1>8, <1>9, <1>10, <1>11, <1>12 DEF WorkflowInv

\* A call of a crashed attempt that arrives late keeps the invariant, unless
\* it overtakes.
LEMMA LateCallKeeps ==
    ASSUME WorkflowInv, NEW c \in late, LateCall(c)
    PROVE  WorkflowInv'
<1>0. /\ WorkflowTypeOK /\ AttemptOK /\ MemoOK /\ LateOK /\ OnceOK /\ ChangeOK
      /\ iteration \in Iteration
  BY DEF WorkflowInv, WorkflowTypeOK
<1>1. PICK i \in Iteration, what \in Call, data \in Value \cup {NoValue} :
          i = c.at /\ what = c.what /\ data = c.data
  BY <1>0 DEF WorkflowTypeOK, Call
<1>2. /\ late' = late \ {c} /\ Arrives(i, what, data)
      /\ UNCHANGED <<style, phase, iteration, recorded, result, validating, runs, returned>>
      /\ overtaken' = (overtaken \/ ( /\ what = "store" /\ Succeeds(i, "store")
                                      /\ i = iteration /\ phase \in Running))
  BY <1>1 DEF LateCall, attemptVars, Running
<1>3. /\ what # "reset" => <<i, "reset">> \in mutations
      /\ what = "store" => data \in Value
      /\ what = "again" => style = "at_most_once"
      /\ Late(i, what)
      /\ style = "until_changes" /\ i # 0 /\ what = "store" =>
            memo[i - 1].stored /\ data # memo[i - 1].data
  BY <1>0, <1>1 DEF LateOK, Late, ChangeOK
<1>4. what = "again" => runs[i] = 0 /\ ~memo[i].stored
  BY <1>0, <1>3 DEF OnceOK, OnceAt
<1>5. Effect(i, what, data)
  <2>1. Legal(i, what, data)
    BY <1>3, <1>4 DEF Legal
  <2> QED
    BY <1>0, <1>2, <2>1, Arrival
<1>6. Kept(i, what)
  BY <1>0, <1>3, <1>5, ArrivalKeeps
<1>7. WorkflowTypeOK'
  BY <1>0, <1>2, <1>5, ArrivalTyped DEF WorkflowTypeOK
<1>8. AttemptOK'
  <2>1. ~overtaken' => ~overtaken /\ ~(what = "store" /\ i = iteration /\ phase \in Running)
    BY <1>2, <1>5 DEF Effect
  <2>2. ~overtaken' /\ phase \in Running => ~memo'[iteration].stored
    BY <1>0, <1>6, <2>1 DEF AttemptOK, Kept
  <2> QED
    BY <1>0, <1>2, <1>6, <2>2 DEF AttemptOK, Kept
<1>9. MemoOK'
  <2>1. ~overtaken' => ~overtaken
    BY <1>2
  <2> QED
    BY <1>0, <1>2, <1>6, <2>1 DEF MemoOK, Kept
<1>10. LateOK'
  BY <1>2, <1>6, LateStays
<1>11. OnceOK'
  <2> SUFFICES ASSUME style = "at_most_once", NEW j \in Iteration
               PROVE  /\ runs[j] <= 1 /\ (runs[j] = 1 => memo'[j].started)
                      /\ Here(j, {"start", "call", "again"}) => runs[j] = 0
                      /\ Here(j, {"running", "store", "fail"}) => runs[j] = 1
                      /\ Here(j, {"call", "again"}) => memo'[j].started
                      /\ Here(j, {"start", "call", "running", "store", "again", "fail"}) =>
                            ~memo'[j].stored /\ ~Late(j, "store")' /\ ~Late(j, "again")'
                      /\ Late(j, "store")' => runs[j] = 1
                      /\ Late(j, "again")' =>
                            runs[j] = 0 /\ memo'[j].started /\ ~memo'[j].stored
                      /\ \A x, y \in late' : /\ x.at = j /\ y.at = j
                                             /\ x.what = "again" /\ y.what = "again"
                                             => x = y
    BY <1>2 DEF OnceOK, OnceAt, Here
  <2>1. /\ runs[j] <= 1 /\ (runs[j] = 1 => memo[j].started)
        /\ Here(j, {"start", "call", "again"}) => runs[j] = 0
        /\ Here(j, {"running", "store", "fail"}) => runs[j] = 1
        /\ Here(j, {"call", "again"}) => memo[j].started
        /\ Here(j, {"start", "call", "running", "store", "again", "fail"}) =>
              ~memo[j].stored /\ ~Late(j, "store") /\ ~Late(j, "again")
        /\ Late(j, "store") => runs[j] = 1
        /\ Late(j, "again") => runs[j] = 0 /\ memo[j].started /\ ~memo[j].stored
        /\ \A x, y \in late : x.at = j /\ y.at = j /\ x.what = "again" /\ y.what = "again"
                              => x = y
    BY <1>0 DEF OnceOK, OnceAt
  <2>2. /\ Late(j, "store")' => Late(j, "store")
        /\ Late(j, "again")' => Late(j, "again")
        /\ j = i /\ what = "again" => Late(j, "again") /\ ~Late(j, "again")'
        /\ j = i /\ what = "store" => Late(j, "store")
    BY <1>1, <1>2, <1>3, <2>1 DEF Late
  <2>3. /\ j # i \/ what # "again" => (memo[j].started => memo'[j].started)
        /\ j # i \/ what # "store" => (memo'[j].stored => memo[j].stored)
    BY <1>6 DEF Kept
  <2>4. Here(j, {"call", "again"}) => Here(j, {"start", "call", "running", "store", "again", "fail"})
    BY DEF Here
  <2>5. \A x, y \in late' : x.at = j /\ y.at = j /\ x.what = "again" /\ y.what = "again"
                            => x = y
    BY <1>2, <2>1
  <2> QED
    BY <2>1, <2>2, <2>3, <2>4, <2>5
<1>12. ChangeOK'
  <2>1. \A j \in Iteration \ {0} : j - 1 \in Iteration
    BY WorkflowAssumption DEF Iteration
  <2> SUFFICES ASSUME style = "until_changes", NEW j \in Iteration \ {0}
               PROVE  /\ memo'[j].stored => memo'[j - 1].stored /\ memo'[j].data # memo'[j - 1].data
                      /\ \A d \in late' : d.at = j /\ d.what = "store" =>
                            memo'[j - 1].stored /\ d.data # memo'[j - 1].data
                      /\ Here(j, Running) => memo'[j - 1].stored
                      /\ Here(j, {"store"}) => result # memo'[j - 1].data
    BY <1>2 DEF ChangeOK, Here
  <2>2. memo[j - 1].stored => memo'[j - 1].stored /\ memo'[j - 1].data = memo[j - 1].data
    BY <1>6, <2>1 DEF Kept
  <2>3. memo'[j].stored => memo'[j - 1].stored /\ memo'[j].data # memo'[j - 1].data
    BY <1>6 DEF Kept
  <2>4. /\ \A d \in late : d.at = j /\ d.what = "store" =>
              memo[j - 1].stored /\ d.data # memo[j - 1].data
        /\ Here(j, Running) => memo[j - 1].stored
        /\ Here(j, {"store"}) => result # memo[j - 1].data
        /\ Here(j, {"store"}) => Here(j, Running)
    BY <1>0 DEF ChangeOK, Here, Running
  <2>5. late' \subseteq late BY <1>2
  <2> QED
    BY <2>2, <2>3, <2>4, <2>5
<1> QED
  BY <1>2, <1>7, <1>8, <1>9, <1>10, <1>11, <1>12 DEF WorkflowInv

\* The invariant of workflows.
THEOREM WorkflowInvariance == WorkflowSpec => []WorkflowInv
<1>1. WorkflowInv /\ [WorkflowNext]_workflowVars => WorkflowInv'
  <2> SUFFICES ASSUME WorkflowInv, [WorkflowNext]_workflowVars PROVE WorkflowInv'
    OBVIOUS
  <2>1. CASE UNCHANGED workflowVars
    BY <2>1 DEF workflowVars, attemptVars, actorVars, workflowHistory, WorkflowInv,
                WorkflowTypeOK, AttemptOK, MemoOK, LateOK, OnceOK, OnceAt, ChangeOK, Here,
                Late
  <2> QED
    BY <2>1, OutsideSteps, StatusKeeps, CallKeeps, ReturnsKeeps, RaisesKeeps, CrashKeeps,
       InitialResetKeeps, StartKeeps, ResetOrFailKeeps, StoreKeeps, LateCallKeeps
       DEF WorkflowNext, WorkflowStep
<1> QED
  BY <1>1, WorkflowStart, PTL DEF WorkflowSpec

\* Whatever attempts crash and whichever of their calls arrive later: the
\* callable of at_most_once runs once unless it ended with a retryable
\* exception, all attempts get one result from a block, until_changes never
\* the previous one, and a block that has returned does not call its callable
\* again (memoize, Memoize, until_changes, task_workflow).
THEOREM BlocksKept == WorkflowSpec => BlocksMemoized
<1>1. ASSUME WorkflowInv PROVE AtMostOnce /\ ResultsStable /\ ChangesObserved
  <2>1. AtMostOnce
    BY <1>1 DEF WorkflowInv, OnceOK, OnceAt, AtMostOnce
  <2>2. ResultsStable
    <3> SUFFICES ASSUME style = "at_most_once" \/ ~overtaken, NEW i \in Iteration
                 PROVE  Cardinality(returned[i]) <= 1
      BY DEF ResultsStable
    <3>1. returned[i] \subseteq {memo[i].data}
      BY <1>1 DEF WorkflowInv, MemoOK
    <3>2. CASE returned[i] = {}
      BY <3>2, FS_EmptySet
    <3>3. CASE returned[i] = {memo[i].data}
      <4>1. PICK d : d = memo[i].data
        OBVIOUS
      <4>2. Cardinality({d}) = 1
        BY FS_Singleton
      <4> QED
        BY <3>3, <4>1, <4>2
    <3> QED
      BY <3>1, <3>2, <3>3
  <2>3. ChangesObserved
    <3> SUFFICES ASSUME style = "until_changes", ~overtaken, NEW i \in Iteration \ {0}
                 PROVE  returned[i] \cap returned[i - 1] = {}
      BY DEF ChangesObserved
    <3>1. i - 1 \in Iteration
      BY WorkflowAssumption DEF Iteration
    <3>2. /\ returned[i] \subseteq {memo[i].data} /\ returned[i - 1] \subseteq {memo[i - 1].data}
          /\ returned[i] # {} => memo[i].stored
      BY <1>1, <3>1 DEF WorkflowInv, MemoOK
    <3>3. memo[i].stored => memo[i].data # memo[i - 1].data
      BY <1>1 DEF WorkflowInv, ChangeOK
    <3> QED
      BY <3>2, <3>3
  <2> QED
    BY <2>1, <2>2, <2>3
<1>2. ASSUME WorkflowInv, [WorkflowNext]_workflowVars PROVE [CompletedNotRerun]_workflowVars
  <2>0. runs \in [Iteration -> Nat] /\ iteration \in Iteration
    BY <1>2 DEF WorkflowInv, WorkflowTypeOK
  <2>1. CASE CallCallable
    <3>1. returned[iteration] = {}
      BY <1>2, <2>1 DEF WorkflowInv, AttemptOK, Running, CallCallable
    <3>2. \A i \in Iteration \ {iteration} : runs'[i] = runs[i] /\ runs[i] \in Nat
      BY <2>0, <2>1 DEF CallCallable
    <3> QED
      BY <3>1, <3>2 DEF CompletedNotRerun
  <2>2. ASSUME NEW retryable \in BOOLEAN, CallableRaises(retryable) PROVE CompletedNotRerun
    <3>1. \A i \in Iteration : runs'[i] <= runs[i]
      BY <2>0, <2>2 DEF CallableRaises
    <3> QED
      BY <3>1 DEF CompletedNotRerun
  <2>3. ASSUME UNCHANGED runs PROVE CompletedNotRerun
    BY <2>0, <2>3 DEF CompletedNotRerun
  <2> QED
    BY <1>2, <2>1, <2>2, <2>3
       DEF WorkflowNext, WorkflowStep, Attempt, InitialReset, Status, StartBlock,
           CallableReturns, ResetOrFail, Store, Break, NextIteration, IterateRaises, Crash,
           LateCall, workflowHistory
<1> QED
  BY <1>1, <1>2, WorkflowInvariance, PTL DEF WorkflowSpec, BlocksMemoized

-----------------------------------------------------------------------------
(* Reactive readers.                                                       *)

\* What is known of an actor: nothing yet, or some of its mutations.
Seen == {Unset} \cup SUBSET Key
QueueItem == [state : SUBSET Key, key : Key]
Session == [at : {"off", "queued", "loaded", "on"}, queue : Seq(QueueItem), loaded : Seen,
            latest : Seen, keys : SUBSET Key, event : BOOLEAN, last : Seen]
Execution == [at : {"no", "call", "read"}, state : Seen, read : Seen, keys : SUBSET Key]
QuerierOf == [on : BOOLEAN, first : BOOLEAN, response : Seen, used : BOOLEAN]
ClientOf == [shown : Response, keys : SUBSET Key]

ReactiveShapes ==
    /\ actor \in [Actor -> SUBSET Key]
    /\ session \in [Actor -> Session]
    /\ execution \in Execution /\ querier \in QuerierOf
    /\ wire \in Seq(SUBSET Key) /\ client \in ClientOf
    /\ breaks \in 0..MaxBreaks

\* What was seen, if anything was, is contained in what is seen later.
Within(x, y) == IsSet(x) => x \subseteq y

\* The states that wait in a queue are each contained in the next, have the
\* mutation they are sent for, and are between what was seen and the actor's.
QueueOK(q, seen, floor, now) ==
    /\ \A i \in 1..Len(q) : /\ q[i].key \in q[i].state /\ q[i].state \subseteq now
                            /\ Within(seen, q[i].state) /\ Within(floor, q[i].state)
    /\ \A i, j \in 1..Len(q) : i <= j => q[i].state \subseteq q[j].state

\* A session has nothing older than the floor, and of the keys that wait for
\* an execution the latest state has the mutations.
SessionOK(r, floor, now) ==
    /\ r.at # "on" => r.latest = Unset /\ r.keys = {} /\ r.event = FALSE
    /\ r.at = "loaded" => /\ r.loaded \in SUBSET Key /\ r.loaded \subseteq now
                          /\ Within(floor, r.loaded)
    /\ r.event => IsSet(r.latest)
    /\ IsSet(r.latest) => r.latest \subseteq now /\ Within(floor, r.latest)
    /\ r.keys \subseteq r.latest
    /\ QueueOK(r.queue, r.latest, floor, now)

\* So do the responses on the wire: each has the one before it and is
\* contained in the latest state of B's session.
WireOK(w, floor, latest) ==
    /\ \A i \in 1..Len(w) : Within(floor, w[i]) /\ w[i] \subseteq latest /\ IsSet(latest)
    /\ \A i, j \in 1..Len(w) : i <= j => w[i] \subseteq w[j]

\* What the client will at least be shown of each actor from now on.
FloorA == IF execution.at = "no" THEN client.shown.a ELSE execution.state
FloorB == IF querier.first THEN querier.response ELSE client.shown.b

ExecutionOK ==
    /\ execution.at # "no" => /\ IsSet(session["A"].latest) /\ IsSet(execution.state)
                              /\ execution.keys \subseteq execution.state
                              /\ Within(client.shown.a, execution.state)
    /\ execution.at = "read" => /\ querier.first /\ IsSet(execution.read)
                                /\ execution.read \subseteq querier.response
                                /\ Within(client.shown.b, execution.read)

QuerierOK ==
    /\ querier.on => IsSet(session["A"].latest)
    /\ querier.first => querier.on /\ IsSet(querier.response)
                        /\ Within(client.shown.b, querier.response)

FloorsOK == Within(FloorA, actor["A"]) /\ Within(FloorB, actor["B"])

ReactiveInv ==
    /\ ReactiveShapes /\ FloorsOK /\ ExecutionOK /\ QuerierOK
    /\ SessionOK(session["A"], FloorA, actor["A"])
    /\ SessionOK(session["B"], FloorB, actor["B"])
    /\ WireOK(wire, FloorB, session["B"].latest)
    /\ KeysReflected

\* What was seen is a set of mutations; nothing of it is a mutation before.
LEMMA SeenSets ==
    /\ Unset \in Seen /\ Unset \notin SUBSET Key
    /\ \A x \in Seen : IsSet(x) <=> x \in SUBSET Key
BY ReactiveAssumption DEF Seen, Unset, IsSet

\* What is known stays within a state that grows.
LEMMA WithinLarger ==
    ASSUME NEW x \in Seen, NEW y \in SUBSET Key, NEW z \in SUBSET Key,
           Within(x, y), y \subseteq z
    PROVE  Within(x, z)
BY DEF Within

\* A state that is stored goes to the end of the queue.
LEMMA QueueGrows ==
    ASSUME NEW q \in Seq(QueueItem), NEW seen \in Seen, NEW floor \in Seen,
           NEW now \in SUBSET Key, NEW later \in SUBSET Key, NEW k \in later,
           now \subseteq later, Within(seen, now), Within(floor, now),
           QueueOK(q, seen, floor, now)
    PROVE  LET p == Append(q, [state |-> later, key |-> k])
           IN  p \in Seq(QueueItem) /\ QueueOK(p, seen, floor, later)
<1>0. k \in Key /\ [state |-> later, key |-> k] \in QueueItem
  BY DEF QueueItem
<1>1. PICK x \in QueueItem : x = [state |-> later, key |-> k] /\ x.state = later /\ x.key = k
  BY <1>0
<1>2. PICK p \in Seq(QueueItem) : p = Append(q, x)
  BY AppendProperties
<1>3. /\ Len(p) = Len(q) + 1 /\ p[Len(q) + 1] = x /\ Len(q) \in Nat
      /\ \A i \in 1..Len(q) : p[i] = q[i]
  BY <1>2
<1>4. \A i \in 1..Len(p) : i \in 1..Len(q) \/ i = Len(q) + 1
  BY <1>3
<1>5. ASSUME NEW i \in 1..Len(p)
      PROVE  /\ p[i].key \in p[i].state /\ p[i].state \subseteq later
             /\ Within(seen, p[i].state) /\ Within(floor, p[i].state)
  <2>1. CASE i \in 1..Len(q)
    BY <1>3, <2>1 DEF QueueOK
  <2>2. CASE i = Len(q) + 1
    BY <1>1, <1>3, <2>2 DEF Within
  <2> QED
    BY <1>4, <2>1, <2>2
<1>6. ASSUME NEW i \in 1..Len(p), NEW j \in 1..Len(p), i <= j
      PROVE  p[i].state \subseteq p[j].state
  <2>1. CASE j \in 1..Len(q)
    <3>1. i \in 1..Len(q)
      BY <1>3, <1>6, <2>1
    <3> QED
      BY <1>3, <1>6, <2>1, <3>1 DEF QueueOK
  <2>2. CASE j = Len(q) + 1
    BY <1>1, <1>3, <1>5, <2>2
  <2> QED
    BY <1>4, <2>1, <2>2
<1>7. QueueOK(p, seen, floor, later)
  BY <1>5, <1>6 DEF QueueOK
<1> QED
  BY <1>1, <1>2, <1>7

\* The head of the queue becomes the latest state.
LEMMA QueueShrinks ==
    ASSUME NEW q \in Seq(QueueItem), q # <<>>, NEW seen \in Seen, NEW floor \in Seen,
           NEW now \in SUBSET Key, QueueOK(q, seen, floor, now)
    PROVE  /\ Head(q) \in QueueItem /\ Tail(q) \in Seq(QueueItem)
           /\ Head(q).key \in Head(q).state /\ Head(q).state \subseteq now
           /\ Within(seen, Head(q).state) /\ Within(floor, Head(q).state)
           /\ QueueOK(Tail(q), Head(q).state, floor, now)
<1>1. /\ Tail(q) \in Seq(QueueItem) /\ Head(q) = q[1] /\ Head(q) \in QueueItem
      /\ Len(q) \in Nat /\ 1 \in 1..Len(q)
      /\ Len(Tail(q)) = Len(q) - 1
      /\ \A i \in 1..Len(Tail(q)) : Tail(q)[i] = q[i + 1]
  OBVIOUS
<1>2. \A i \in 1..Len(Tail(q)) : i + 1 \in 1..Len(q) /\ 1 <= i + 1
  BY <1>1
<1>3. \A i \in 1..Len(Tail(q)) : Within(Head(q).state, Tail(q)[i].state)
  BY <1>1, <1>2 DEF QueueOK, Within
<1>4. \A i, j \in 1..Len(Tail(q)) : i <= j => Tail(q)[i].state \subseteq Tail(q)[j].state
  BY <1>1, <1>2 DEF QueueOK
<1>5. QueueOK(Tail(q), Head(q).state, floor, now)
  BY <1>1, <1>2, <1>3, <1>4 DEF QueueOK
<1> QED
  BY <1>1, <1>5 DEF QueueOK

\* Of an empty queue there is nothing to say; the floor may rise to what was
\* seen, and the actor may get more mutations.
LEMMA QueueStays ==
    /\ \A seen, floor, now : QueueOK(<<>>, seen, floor, now)
    /\ \A q, seen, floor, now, higher :
          QueueOK(q, seen, floor, now) /\ Within(higher, seen) /\ IsSet(seen)
              => QueueOK(q, seen, higher, now)
    /\ \A q, seen, floor, now, later :
          QueueOK(q, seen, floor, now) /\ now \subseteq later
              => QueueOK(q, seen, floor, later)
    /\ \A q, seen, floor, now : QueueOK(q, seen, floor, now) => QueueOK(q, Unset, floor, now)
<1>1. \A i : i \notin 1..Len(<<>>)
  OBVIOUS
<1> QED
  BY <1>1 DEF QueueOK, Within, IsSet

\* The same of responses on the wire.
LEMMA WireGrows ==
    ASSUME NEW w \in Seq(SUBSET Key), NEW floor \in Seen, NEW latest \in SUBSET Key,
           IsSet(latest), Within(floor, latest), WireOK(w, floor, latest)
    PROVE  Append(w, latest) \in Seq(SUBSET Key) /\ WireOK(Append(w, latest), floor, latest)
<1>1. PICK p \in Seq(SUBSET Key) : p = Append(w, latest)
  BY AppendProperties
<1>2. /\ Len(p) = Len(w) + 1 /\ p[Len(w) + 1] = latest /\ Len(w) \in Nat
      /\ \A i \in 1..Len(w) : p[i] = w[i]
  BY <1>1
<1>3. \A i \in 1..Len(p) : i \in 1..Len(w) \/ i = Len(w) + 1
  BY <1>2
<1>4. \A i \in 1..Len(p) : Within(floor, p[i]) /\ p[i] \subseteq latest
  BY <1>2, <1>3 DEF WireOK
<1>5. ASSUME NEW i \in 1..Len(p), NEW j \in 1..Len(p), i <= j
      PROVE  p[i] \subseteq p[j]
  <2>1. CASE j \in 1..Len(w)
    <3>1. i \in 1..Len(w)
      BY <1>2, <1>5, <2>1
    <3> QED
      BY <1>2, <1>5, <2>1, <3>1 DEF WireOK
  <2>2. CASE j = Len(w) + 1
    BY <1>2, <1>4, <2>2
  <2> QED
    BY <1>3, <2>1, <2>2
<1> QED
  BY <1>1, <1>4, <1>5 DEF WireOK

\* The next response on the wire is above the floor, and the others above
\* it.
LEMMA WireShrinks ==
    ASSUME NEW w \in Seq(SUBSET Key), w # <<>>, NEW floor \in Seen, NEW latest \in Seen,
           WireOK(w, floor, latest)
    PROVE  /\ Head(w) \in SUBSET Key /\ Tail(w) \in Seq(SUBSET Key)
           /\ Within(floor, Head(w)) /\ Head(w) \subseteq latest /\ IsSet(latest)
           /\ WireOK(Tail(w), Head(w), latest)
<1>1. /\ Tail(w) \in Seq(SUBSET Key) /\ Head(w) = w[1] /\ Head(w) \in SUBSET Key
      /\ Len(w) \in Nat /\ 1 \in 1..Len(w)
      /\ Len(Tail(w)) = Len(w) - 1
      /\ \A i \in 1..Len(Tail(w)) : Tail(w)[i] = w[i + 1]
  OBVIOUS
<1>2. \A i \in 1..Len(Tail(w)) : i + 1 \in 1..Len(w) /\ 1 <= i + 1
  BY <1>1
<1>3. \A i \in 1..Len(Tail(w)) : Within(Head(w), Tail(w)[i])
  BY <1>1, <1>2 DEF WireOK, Within
<1>4. \A i, j \in 1..Len(Tail(w)) : i <= j => Tail(w)[i] \subseteq Tail(w)[j]
  BY <1>1, <1>2 DEF WireOK
<1>5. WireOK(Tail(w), Head(w), latest)
  BY <1>1, <1>2, <1>3, <1>4 DEF WireOK
<1> QED
  BY <1>1, <1>5 DEF WireOK

\* The wire stays in order while what is behind it grows.
LEMMA WireStays ==
    /\ \A floor, latest : WireOK(<<>>, floor, latest)
    /\ \A w, floor, latest, later :
          WireOK(w, floor, latest) /\ Within(latest, later) /\ IsSet(later)
              => WireOK(w, floor, later)
    /\ \A floor, later : \A w \in Seq(SUBSET Key) : WireOK(w, floor, Unset) => w = <<>>
<1>1. \A i : i \notin 1..Len(<<>>)
  OBVIOUS
<1>2. \A w \in Seq(SUBSET Key) : w # <<>> => 1 \in 1..Len(w)
  OBVIOUS
<1>3. ~IsSet(Unset)
  BY DEF IsSet
<1>4. \A floor, latest : WireOK(<<>>, floor, latest)
  BY <1>1 DEF WireOK
<1>5. \A w, floor, latest, later :
          WireOK(w, floor, latest) /\ Within(latest, later) /\ IsSet(later)
              => WireOK(w, floor, later)
  BY DEF WireOK, Within
<1>6. \A floor : \A w \in Seq(SUBSET Key) : WireOK(w, floor, Unset) => w = <<>>
  BY <1>2, <1>3 DEF WireOK
<1> QED
  BY <1>4, <1>5, <1>6

\* What a session becomes in each of its steps.
Stored(r, later, k) == [r EXCEPT !.queue = Append(@, [state |-> later, key |-> k])]
Fresh == [QuietSession EXCEPT !.at = "queued"]
Loads(r, now) == [r EXCEPT !.at = "loaded", !.loaded = now]
Starts(r, first) == [r EXCEPT !.at = "on", !.loaded = Unset, !.latest = first,
                              !.event = IsSet(first)]
Watches(r) == [r EXCEPT !.queue = Tail(@), !.latest = Head(r.queue).state,
                        !.keys = @ \cup {Head(r.queue).key}, !.event = TRUE]
Iterates(r) == [r EXCEPT !.event = FALSE, !.keys = {}]
IteratesB(r) == [r EXCEPT !.event = FALSE, !.keys = {}, !.last = r.latest]
Wakes(r, e) == [r EXCEPT !.event = @ \/ e]

\* The actor may get more mutations, and the floor rise to the latest state.
LEMMA SessionStays ==
    /\ \A r, floor, now, later :
          SessionOK(r, floor, now) /\ now \subseteq later => SessionOK(r, floor, later)
    /\ \A r, floor, now, higher :
          /\ SessionOK(r, floor, now) /\ IsSet(r.latest)
          /\ Within(higher, r.latest) /\ r.at = "on"
          => SessionOK(r, higher, now)
<1>1. ASSUME NEW r, NEW floor, NEW now, NEW later,
             SessionOK(r, floor, now), now \subseteq later
      PROVE  SessionOK(r, floor, later)
  <2>1. QueueOK(r.queue, r.latest, floor, later)
    BY <1>1, QueueStays DEF SessionOK
  <2> QED
    BY <1>1, <2>1 DEF SessionOK
<1>2. ASSUME NEW r, NEW floor, NEW now, NEW higher,
             SessionOK(r, floor, now), IsSet(r.latest),
             Within(higher, r.latest), r.at = "on"
      PROVE  SessionOK(r, higher, now)
  <2>1. QueueOK(r.queue, r.latest, higher, now)
    BY <1>2, QueueStays DEF SessionOK
  <2> QED
    BY <1>2, <2>1 DEF SessionOK
<1> QED
  BY <1>1, <1>2

\* A mutation keeps what is true of a session.
LEMMA StoredOK ==
    ASSUME NEW r \in Session, NEW floor \in Seen, NEW now \in SUBSET Key,
           NEW later \in SUBSET Key, NEW k \in later, now \subseteq later,
           Within(floor, now), SessionOK(r, floor, now)
    PROVE  LET p == Stored(r, later, k)
           IN  /\ p \in Session /\ SessionOK(p, floor, later)
               /\ p.latest = r.latest /\ p.at = r.at
<1>1. r.queue \in Seq(QueueItem) /\ r.latest \in Seen
  BY DEF Session
<1>2. Within(r.latest, now) /\ QueueOK(r.queue, r.latest, floor, now)
  BY DEF SessionOK, Within
<1>3. PICK q : q = Append(r.queue, [state |-> later, key |-> k])
  OBVIOUS
<1>4. q \in Seq(QueueItem) /\ QueueOK(q, r.latest, floor, later)
  BY <1>1, <1>2, <1>3, QueueGrows
<1>5. PICK p : p = Stored(r, later, k)
  OBVIOUS
<1>6. /\ p \in Session /\ p.at = r.at /\ p.queue = q /\ p.loaded = r.loaded
      /\ p.latest = r.latest /\ p.keys = r.keys /\ p.event = r.event
  BY <1>3, <1>4, <1>5 DEF Stored, Session
<1>7. SessionOK(p, floor, later)
  BY <1>4, <1>6 DEF SessionOK
<1> QED
  BY <1>5, <1>6, <1>7

\* What is true of a session that is over or new.
LEMMA QuietOK ==
    /\ QuietSession \in Session /\ Fresh \in Session
    /\ QuietSession.latest = Unset /\ Fresh.latest = Unset
    /\ \A floor, now : SessionOK(QuietSession, floor, now) /\ SessionOK(Fresh, floor, now)
<1>1. <<>> \in Seq(QueueItem) /\ Unset \in Seen /\ {} \in SUBSET Key /\ ~IsSet(Unset)
  BY DEF Seen, IsSet
<1>2. QuietSession \in Session /\ Fresh \in Session
  BY <1>1 DEF QuietSession, Fresh, Session
<1>3. /\ \A p \in {QuietSession, Fresh} : /\ p.at \in {"off", "queued"} /\ p.queue = <<>>
                                          /\ p.latest = Unset /\ p.keys = {}
                                          /\ p.event = FALSE
  BY DEF QuietSession, Fresh
<1>4. \A p \in {QuietSession, Fresh} : \A floor, now : SessionOK(p, floor, now)
  BY <1>1, <1>3, QueueStays DEF SessionOK
<1> QED
  BY <1>2, <1>3, <1>4

\* Loading the state keeps what is true of a session.
LEMMA LoadsOK ==
    ASSUME NEW r \in Session, NEW floor \in Seen, NEW now \in SUBSET Key,
           Within(floor, now), SessionOK(r, floor, now), r.at = "queued"
    PROVE  LET p == Loads(r, now)
           IN  p \in Session /\ SessionOK(p, floor, now) /\ p.latest = r.latest
<1>1. PICK p : p = Loads(r, now)
  OBVIOUS
<1>2. /\ p \in Session /\ p.at = "loaded" /\ p.queue = r.queue /\ p.loaded = now
      /\ p.latest = r.latest /\ p.keys = r.keys /\ p.event = r.event
  BY <1>1 DEF Loads, Session, Seen
<1>3. SessionOK(p, floor, now)
  BY <1>2 DEF SessionOK
<1> QED
  BY <1>1, <1>2, <1>3

\* Starting its iterator keeps what is true of a session.
LEMMA StartsOK ==
    ASSUME NEW r \in Session, NEW floor \in Seen, NEW now \in SUBSET Key,
           SessionOK(r, floor, now), r.at = "loaded"
    PROVE  LET p == Starts(r, IF r.queue = <<>> THEN r.loaded ELSE Unset)
           IN  p \in Session /\ SessionOK(p, floor, now) /\ r.latest = Unset
<1>1. PICK f \in Seen : f = IF r.queue = <<>> THEN r.loaded ELSE Unset
  BY SeenSets DEF Session
<1>2. PICK p : p = Starts(r, f)
  OBVIOUS
<1>3. /\ p \in Session /\ p.at = "on" /\ p.queue = r.queue
      /\ p.latest = f /\ p.keys = r.keys /\ p.event = IsSet(f)
  BY <1>1, <1>2, SeenSets DEF Starts, Session, IsSet
<1>4. IsSet(f) => f \subseteq now /\ Within(floor, f)
  BY <1>1 DEF SessionOK, IsSet
<1>5. QueueOK(r.queue, f, floor, now)
  BY <1>1, QueueStays DEF SessionOK
<1>6. SessionOK(p, floor, now)
  BY <1>3, <1>4, <1>5 DEF SessionOK
<1> QED
  BY <1>1, <1>2, <1>3, <1>6 DEF SessionOK

\* The next state of its queue keeps what is true of a session.
LEMMA WatchesOK ==
    ASSUME NEW r \in Session, NEW floor \in Seen, NEW now \in SUBSET Key,
           SessionOK(r, floor, now), r.at = "on", r.queue # <<>>
    PROVE  LET p == Watches(r)
           IN  /\ p \in Session /\ SessionOK(p, floor, now)
               /\ IsSet(p.latest) /\ Within(r.latest, p.latest) /\ p.at = r.at
<1>1. r.queue \in Seq(QueueItem) /\ r.latest \in Seen
  BY DEF Session
<1>2. PICK h, q : h = Head(r.queue) /\ q = Tail(r.queue)
  OBVIOUS
<1>3. /\ h \in QueueItem /\ q \in Seq(QueueItem)
      /\ h.key \in h.state /\ h.state \subseteq now
      /\ Within(r.latest, h.state) /\ Within(floor, h.state)
      /\ QueueOK(q, h.state, floor, now)
  BY <1>1, <1>2, QueueShrinks DEF SessionOK
<1>4. h.state \in SUBSET Key /\ h.key \in Key /\ h.state \in Seen /\ IsSet(h.state)
  BY <1>3, SeenSets DEF QueueItem, Seen
<1>5. PICK p : p = Watches(r)
  OBVIOUS
<1>6. /\ p \in Session /\ p.at = "on" /\ p.queue = q
      /\ p.latest = h.state /\ p.keys = r.keys \cup {h.key} /\ p.event = TRUE
  BY <1>2, <1>3, <1>4, <1>5 DEF Watches, Session
<1>7. r.keys \subseteq h.state
  <2>1. CASE IsSet(r.latest)
    BY <1>3, <2>1 DEF SessionOK, Within
  <2>2. CASE ~IsSet(r.latest)
    <3>1. r.keys \in SUBSET Key /\ r.keys \subseteq {"unset"}
      BY <2>2 DEF SessionOK, IsSet, Unset, Session
    <3> QED
      BY <3>1, ReactiveAssumption
  <2> QED
    BY <2>1, <2>2
<1>8. SessionOK(p, floor, now)
  BY <1>3, <1>4, <1>6, <1>7 DEF SessionOK
<1> QED
  BY <1>3, <1>4, <1>5, <1>6, <1>8

\* An iteration keeps what is true of a session.
LEMMA IteratesOK ==
    ASSUME NEW r \in Session, NEW floor \in Seen, NEW now \in SUBSET Key,
           SessionOK(r, floor, now)
    PROVE  /\ Iterates(r) \in Session /\ IteratesB(r) \in Session
           /\ Iterates(r).latest = r.latest /\ IteratesB(r).latest = r.latest
           /\ Iterates(r).at = r.at /\ IteratesB(r).at = r.at
           /\ SessionOK(Iterates(r), floor, now) /\ SessionOK(IteratesB(r), floor, now)
<1>1. \A p \in {Iterates(r), IteratesB(r)} :
          /\ p \in Session /\ p.at = r.at /\ p.queue = r.queue /\ p.loaded = r.loaded
          /\ p.latest = r.latest /\ p.keys = {} /\ p.event = FALSE
  BY DEF Iterates, IteratesB, Session
<1>2. \A p \in {Iterates(r), IteratesB(r)} : SessionOK(p, floor, now)
  BY <1>1 DEF SessionOK
<1> QED
  BY <1>1, <1>2

\* Waking an execution that has a state keeps what is true of a session.
LEMMA WakesOK ==
    ASSUME NEW r \in Session, NEW floor \in Seen, NEW now \in SUBSET Key,
           SessionOK(r, floor, now), NEW e \in BOOLEAN, IsSet(r.latest)
    PROVE  LET p == Wakes(r, e)
           IN  p \in Session /\ SessionOK(p, floor, now) /\ p.latest = r.latest
<1>1. PICK p : p = Wakes(r, e)
  OBVIOUS
<1>2. /\ p \in Session /\ p.at = r.at /\ p.queue = r.queue /\ p.loaded = r.loaded
      /\ p.latest = r.latest /\ p.keys = r.keys
  BY <1>1 DEF Wakes, Session
<1>3. r.at = "on" /\ p.event \in BOOLEAN
  BY <1>2 DEF SessionOK, IsSet, Session
<1>4. SessionOK(p, floor, now)
  BY <1>2, <1>3 DEF SessionOK
<1> QED
  BY <1>1, <1>2, <1>4

Floor(s) == IF s = "A" THEN FloorA ELSE FloorB

\* What the parts of the state are, and that floors are above what is shown.
LEMMA Shapes ==
    ASSUME ReactiveInv
    PROVE  /\ session["A"] \in Session /\ session["B"] \in Session
           /\ actor["A"] \in SUBSET Key /\ actor["B"] \in SUBSET Key
           /\ client.shown.a \in Seen /\ client.shown.b \in Seen /\ client.keys \in SUBSET Key
           /\ FloorA \in Seen /\ FloorB \in Seen
           /\ session["A"].latest \in Seen /\ session["B"].latest \in Seen
           /\ Within(client.shown.a, actor["A"]) /\ Within(client.shown.b, actor["B"])
<1>1. /\ actor \in [Actor -> SUBSET Key] /\ session \in [Actor -> Session]
      /\ execution \in Execution /\ querier \in QuerierOf /\ client \in ClientOf
  BY DEF ReactiveInv, ReactiveShapes
<1>2. session["A"] \in Session /\ session["B"] \in Session
  BY <1>1 DEF Actor
<1>3. actor["A"] \in SUBSET Key /\ actor["B"] \in SUBSET Key
  BY <1>1 DEF Actor
<1>4. client.shown.a \in Seen /\ client.shown.b \in Seen /\ client.keys \in SUBSET Key
  BY <1>1 DEF ClientOf, Response, Seen
<1>5. execution.state \in Seen /\ querier.response \in Seen
  BY <1>1 DEF Execution, QuerierOf
<1>6. FloorA \in Seen /\ FloorB \in Seen
  BY <1>4, <1>5 DEF FloorA, FloorB
<1>7. session["A"].latest \in Seen /\ session["B"].latest \in Seen
  BY <1>2 DEF Session
<1>8. Within(client.shown.a, actor["A"]) /\ Within(client.shown.b, actor["B"])
  BY DEF ReactiveInv, FloorsOK, FloorA, FloorB, ExecutionOK, QuerierOK, Within
<1> QED
  BY <1>2, <1>3, <1>4, <1>6, <1>7, <1>8

\* What of the invariant does not depend on the sessions.
LEMMA RestStays ==
    ASSUME ReactiveInv, UNCHANGED <<execution, querier, client>>
    PROVE  /\ FloorA' = FloorA /\ FloorB' = FloorB /\ KeysReflected'
           /\ execution' \in Execution /\ querier' \in QuerierOf /\ client' \in ClientOf
BY DEF ReactiveInv, ReactiveShapes, FloorA, FloorB, KeysReflected

\* A step of one session that does not go back.
LEMMA SessionMoves ==
    ASSUME ReactiveInv, NEW s \in Actor, NEW p \in Session,
           SessionOK(p, Floor(s), actor[s]),
           IsSet(session[s].latest) => IsSet(p.latest) /\ session[s].latest \subseteq p.latest,
           session' = [session EXCEPT ![s] = p],
           UNCHANGED <<actor, execution, querier, wire, client, breaks>>
    PROVE  ReactiveInv'
<1>1. /\ FloorA' = FloorA /\ FloorB' = FloorB /\ KeysReflected'
      /\ execution' \in Execution /\ querier' \in QuerierOf /\ client' \in ClientOf
  BY RestStays
<1>2. /\ session' \in [Actor -> Session] /\ session'[s] = p
      /\ \A u \in Actor \ {s} : session'[u] = session[u]
  BY DEF ReactiveInv, ReactiveShapes
<1>3. ReactiveShapes'
  BY <1>1, <1>2 DEF ReactiveInv, ReactiveShapes
<1>4. FloorsOK'
  BY <1>1 DEF ReactiveInv, FloorsOK
<1>5. IsSet(session["A"].latest) => IsSet(session'["A"].latest)
  BY <1>2 DEF Actor
<1>6. ExecutionOK' /\ QuerierOK'
  BY <1>5 DEF ReactiveInv, ExecutionOK, QuerierOK
<1>7. SessionOK(session'["A"], FloorA, actor["A"]) /\ SessionOK(session'["B"], FloorB, actor["B"])
  BY <1>2 DEF ReactiveInv, Floor, Actor
<1>8. WireOK(wire, FloorB, session'["B"].latest)
  <2>1. wire \in Seq(SUBSET Key) /\ WireOK(wire, FloorB, session["B"].latest)
    BY DEF ReactiveInv, ReactiveShapes
  <2>2. CASE s = "A"
    BY <1>2, <2>1, <2>2 DEF Actor
  <2>3. CASE s = "B" /\ IsSet(session["B"].latest)
    BY <1>2, <2>1, <2>3, WireStays DEF Within
  <2>4. CASE s = "B" /\ ~IsSet(session["B"].latest)
    <3>1. wire = <<>>
      BY <2>1, <2>4, WireStays DEF IsSet
    <3> QED
      BY <3>1, WireStays
  <2> QED
    BY <2>2, <2>3, <2>4 DEF Actor
<1> QED
  BY <1>1, <1>3, <1>4, <1>6, <1>7, <1>8 DEF ReactiveInv

\* What SessionMoves needs to know of a session.
LEMMA OfSession ==
    ASSUME ReactiveInv, NEW s \in Actor
    PROVE  /\ session[s] \in Session /\ actor[s] \in SUBSET Key /\ Floor(s) \in Seen
           /\ SessionOK(session[s], Floor(s), actor[s]) /\ Within(Floor(s), actor[s])
BY Shapes DEF ReactiveInv, FloorsOK, Floor, Actor

\* A session that adds its queue keeps the invariant.
LEMMA AddQueueKeeps ==
    ASSUME ReactiveInv, NEW s \in Actor, AddQueue(s)
    PROVE  ReactiveInv'
<1>1. session' = [session EXCEPT ![s] = Fresh]
  BY DEF AddQueue, Fresh
<1>2. session[s].latest = Unset
  BY OfSession DEF AddQueue, SessionOK
<1> QED
  BY <1>1, <1>2, QuietOK, SessionMoves DEF AddQueue, IsSet

\* A session that loads the state keeps the invariant.
LEMMA LoadStateKeeps ==
    ASSUME ReactiveInv, NEW s \in Actor, LoadState(s)
    PROVE  ReactiveInv'
<1>1. session' = [session EXCEPT ![s] = Loads(session[s], actor[s])]
  BY DEF LoadState, Loads, ReactiveInv, ReactiveShapes, Session
<1>2. PICK p : p = Loads(session[s], actor[s])
  OBVIOUS
<1>3. p \in Session /\ SessionOK(p, Floor(s), actor[s]) /\ p.latest = session[s].latest
  BY <1>2, OfSession, LoadsOK DEF LoadState
<1> QED
  BY <1>1, <1>2, <1>3, SessionMoves DEF LoadState

\* A session that starts its iterator keeps the invariant.
LEMMA StartIteratorKeeps ==
    ASSUME ReactiveInv, NEW s \in Actor, StartIterator(s)
    PROVE  ReactiveInv'
<1>1. session' = [session EXCEPT ![s] = Starts(session[s], First(s))]
  BY DEF StartIterator, Starts, ReactiveInv, ReactiveShapes, Session
<1>2. PICK p : p = Starts(session[s], First(s))
  OBVIOUS
<1>3. p \in Session /\ SessionOK(p, Floor(s), actor[s]) /\ session[s].latest = Unset
  BY <1>2, OfSession, StartsOK DEF StartIterator, First
<1> QED
  BY <1>1, <1>2, <1>3, SessionMoves DEF StartIterator, IsSet

\* A session that takes a state off its queue keeps the invariant.
LEMMA WatchStateKeeps ==
    ASSUME ReactiveInv, NEW s \in Actor, WatchState(s)
    PROVE  ReactiveInv'
<1>1. session' = [session EXCEPT ![s] = Watches(session[s])]
  BY DEF WatchState, Watches, ReactiveInv, ReactiveShapes, Session
<1>2. PICK p : p = Watches(session[s])
  OBVIOUS
<1>3. /\ p \in Session /\ SessionOK(p, Floor(s), actor[s])
      /\ IsSet(p.latest) /\ Within(session[s].latest, p.latest)
  BY <1>2, OfSession, WatchesOK DEF WatchState
<1> QED
  BY <1>1, <1>2, <1>3, SessionMoves DEF WatchState, Within

\* A mutation that is repeated keeps the invariant.
LEMMA MutateAgainKeeps ==
    ASSUME ReactiveInv, NEW k \in Key, MutateAgain(k)
    PROVE  ReactiveInv'
<1>1. session' = [session EXCEPT !["A"] = Stored(session["A"], actor["A"], k)]
  BY DEF MutateAgain, Stored, ReactiveInv, ReactiveShapes, Session
<1>2. PICK p : p = Stored(session["A"], actor["A"], k)
  OBVIOUS
<1>3. "A" \in Actor /\ k \in actor["A"]
  BY DEF Actor, MutateAgain
<1>4. p \in Session /\ SessionOK(p, Floor("A"), actor["A"]) /\ p.latest = session["A"].latest
  BY <1>2, <1>3, OfSession, StoredOK
<1> QED
  BY <1>1, <1>2, <1>3, <1>4, SessionMoves DEF MutateAgain

\* A mutation keeps the invariant.
LEMMA MutateKeeps ==
    ASSUME ReactiveInv, NEW k \in Key, Mutate(k)
    PROVE  ReactiveInv'
<1>1. PICK s \in Actor : s = Of(k)
  BY DEF Of, Actor
<1>2. PICK later \in SUBSET Key : later = actor[s] \cup {k}
  BY OfSession
<1>3. /\ actor' = [actor EXCEPT ![s] = later]
      /\ \/ session' = session
         \/ session' = [session EXCEPT ![s] = Stored(session[s], later, k)]
      /\ UNCHANGED <<execution, querier, wire, client, breaks>>
  BY <1>1, <1>2 DEF Mutate, Stored, ReactiveInv, ReactiveShapes, Session
<1>4. /\ FloorA' = FloorA /\ FloorB' = FloorB /\ KeysReflected'
      /\ execution' \in Execution /\ querier' \in QuerierOf /\ client' \in ClientOf
  BY <1>3, RestStays
<1>5. /\ actor' \in [Actor -> SUBSET Key] /\ actor'[s] = later
      /\ \A u \in Actor \ {s} : actor'[u] = actor[u]
      /\ \A u \in Actor : actor[u] \in SUBSET Key /\ actor[u] \subseteq actor'[u]
  BY <1>2, <1>3 DEF ReactiveInv, ReactiveShapes
<1>6. PICK p \in Session : /\ \/ p = session[s]
                              \/ p = Stored(session[s], later, k)
                           /\ session' = [session EXCEPT ![s] = p]
                           /\ SessionOK(p, Floor(s), later) /\ p.latest = session[s].latest
  <2>1. /\ session[s] \in Session /\ SessionOK(session[s], Floor(s), later)
        /\ [session EXCEPT ![s] = session[s]] = session
    BY <1>2, OfSession, SessionStays DEF ReactiveInv, ReactiveShapes
  <2>2. PICK p : p = Stored(session[s], later, k)
    OBVIOUS
  <2>3. p \in Session /\ SessionOK(p, Floor(s), later) /\ p.latest = session[s].latest
    BY <1>2, <2>2, OfSession, StoredOK
  <2> QED
    BY <1>3, <2>1, <2>2, <2>3
<1>7. /\ session' \in [Actor -> Session] /\ session'[s] = p
      /\ \A u \in Actor \ {s} : session'[u] = session[u]
  BY <1>6 DEF ReactiveInv, ReactiveShapes
<1>8. ReactiveShapes'
  BY <1>3, <1>4, <1>5, <1>7 DEF ReactiveInv, ReactiveShapes
<1>9. FloorsOK'
  <2>1. "A" \in Actor /\ "B" \in Actor
    BY DEF Actor
  <2> QED
    BY <1>4, <1>5, <2>1, Shapes, WithinLarger DEF ReactiveInv, FloorsOK
<1>10. \A u \in Actor : /\ session'[u].latest = session[u].latest
                        /\ SessionOK(session'[u], Floor(u), actor'[u])
  BY <1>5, <1>6, <1>7, OfSession
<1>11. ExecutionOK' /\ QuerierOK'
  BY <1>3, <1>10 DEF ReactiveInv, ExecutionOK, QuerierOK, Actor
<1>12. SessionOK(session'["A"], FloorA, actor'["A"]) /\ SessionOK(session'["B"], FloorB, actor'["B"])
  BY <1>10 DEF Floor, Actor
<1>13. WireOK(wire, FloorB, session'["B"].latest)
  BY <1>10 DEF ReactiveInv, Actor
<1> QED
  BY <1>3, <1>4, <1>8, <1>9, <1>11, <1>12, <1>13 DEF ReactiveInv

\* An execution starts with the latest state and the keys it contains.
LEMMA IterateKeeps ==
    ASSUME ReactiveInv, Iterate
    PROVE  ReactiveInv'
<1>1. PICK p : p = Iterates(session["A"])
  OBVIOUS
<1>2. session' = [session EXCEPT !["A"] = p]
  BY <1>1 DEF Iterate, Iterates, ReactiveInv, ReactiveShapes, Session
<1>3. SessionOK(session["A"], FloorA, actor["A"])
  BY DEF ReactiveInv
<1>4. /\ IsSet(session["A"].latest) /\ session["A"].keys \subseteq session["A"].latest
      /\ session["A"].at = "on" /\ Within(FloorA, session["A"].latest)
      /\ session["A"].latest \subseteq actor["A"] /\ FloorA = client.shown.a
      /\ session["A"].keys \in SUBSET Key
  BY <1>3, Shapes DEF Iterate, SessionOK, FloorA, Session
<1>5. p \in Session /\ p.latest = session["A"].latest /\ p.at = "on" /\ SessionOK(p, FloorA, actor["A"])
  BY <1>1, <1>3, <1>4, Shapes, IteratesOK
<1>6. PICK l \in Seen : l = session["A"].latest
  BY Shapes
<1>7. /\ execution'.at = "call" /\ execution'.state = l /\ execution'.keys = session["A"].keys
      /\ execution' \in Execution
  BY <1>4, <1>6, SeenSets DEF Iterate, Execution
<1>8. FloorA' = l /\ FloorB' = FloorB
  BY <1>7 DEF FloorA, FloorB, Iterate
<1>9. SessionOK(p, l, actor["A"])
  BY <1>4, <1>5, <1>6, SessionStays DEF Within
<1>10. session' \in [Actor -> Session] /\ session'["A"] = p /\ session'["B"] = session["B"]
  BY <1>2, <1>5 DEF ReactiveInv, ReactiveShapes, Actor
<1>11. UNCHANGED <<actor, querier, wire, client, breaks>>
  BY DEF Iterate
<1>12. ReactiveShapes'
  BY <1>7, <1>10, <1>11 DEF ReactiveInv, ReactiveShapes
<1>13. FloorsOK'
  BY <1>4, <1>6, <1>8, <1>11 DEF ReactiveInv, FloorsOK, Within
<1>14. ExecutionOK' /\ QuerierOK'
  BY <1>4, <1>5, <1>6, <1>7, <1>10, <1>11 DEF ReactiveInv, ExecutionOK, QuerierOK
<1>15. KeysReflected'
  BY <1>11 DEF ReactiveInv, KeysReflected
<1> QED
  BY <1>8, <1>9, <1>10, <1>11, <1>12, <1>13, <1>14, <1>15 DEF ReactiveInv

\* An execution that starts its query of the other actor keeps the
\* invariant.
LEMMA CallStartsKeeps ==
    ASSUME ReactiveInv, CallStarts
    PROVE  ReactiveInv'
<1>1. /\ querier' \in QuerierOf /\ querier'.on = TRUE /\ querier'.first = FALSE
  BY SeenSets DEF CallStarts, NoQuerier, QuerierOf
<1>2. querier.first = FALSE
  BY DEF CallStarts, ReactiveInv, QuerierOK, ReactiveShapes, QuerierOf
<1>3. UNCHANGED <<actor, session, execution, wire, client, breaks>>
  BY DEF CallStarts
<1>4. FloorA' = FloorA /\ FloorB' = FloorB
  BY <1>1, <1>2, <1>3 DEF FloorA, FloorB
<1>5. ReactiveShapes'
  BY <1>1, <1>3 DEF ReactiveInv, ReactiveShapes
<1>6. ExecutionOK' /\ QuerierOK'
  BY <1>1, <1>3 DEF ReactiveInv, ExecutionOK, QuerierOK, CallStarts
<1> QED
  BY <1>3, <1>4, <1>5, <1>6 DEF ReactiveInv, FloorsOK, KeysReflected

\* An execution that is given the querier's response keeps the invariant.
LEMMA CallReturnsKeeps ==
    ASSUME ReactiveInv, CallReturns
    PROVE  ReactiveInv'
<1>0. execution \in Execution /\ querier \in QuerierOf
  BY DEF ReactiveInv, ReactiveShapes
<1>1. /\ querier' \in QuerierOf /\ querier'.on = querier.on
      /\ querier'.first = querier.first /\ querier'.response = querier.response
  BY <1>0 DEF CallReturns, QuerierOf
<1>2. /\ execution' \in Execution /\ execution'.at = "read"
      /\ execution'.state = execution.state /\ execution'.keys = execution.keys
      /\ execution'.read = querier.response
  BY <1>0 DEF CallReturns, Execution, QuerierOf
<1>3. UNCHANGED <<actor, session, wire, client, breaks>> /\ execution.at = "call" /\ querier.first
  BY DEF CallReturns
<1>4. FloorA' = FloorA /\ FloorB' = FloorB
  BY <1>1, <1>2, <1>3 DEF FloorA, FloorB
<1>5. ReactiveShapes'
  BY <1>1, <1>2, <1>3 DEF ReactiveInv, ReactiveShapes
<1>6. ExecutionOK' /\ QuerierOK'
  BY <1>1, <1>2, <1>3 DEF ReactiveInv, ExecutionOK, QuerierOK
<1> QED
  BY <1>3, <1>4, <1>5, <1>6 DEF ReactiveInv, FloorsOK, KeysReflected

\* The client is shown what was executed, with the keys it contains.
LEMMA MethodReturnsKeeps ==
    ASSUME ReactiveInv, MethodReturns
    PROVE  /\ ReactiveInv'
           /\ Within(client.shown.a, client'.shown.a) /\ Within(client.shown.b, client'.shown.b)
<1>0. /\ execution \in Execution /\ client \in ClientOf /\ execution.at = "read"
      /\ UNCHANGED <<actor, session, querier, wire, breaks>>
  BY DEF ReactiveInv, ReactiveShapes, MethodReturns
<1>1. PICK a \in Seen, b \in Seen, ks \in SUBSET Key :
         a = execution.state /\ b = execution.read /\ ks = execution.keys
  BY <1>0 DEF Execution
<1>2. client' = [shown |-> [a |-> a, b |-> b], keys |-> client.keys \cup ks]
  BY <1>1 DEF MethodReturns
<1>3. /\ client'.shown.a = a /\ client'.shown.b = b /\ client'.keys = client.keys \cup ks
      /\ client' \in ClientOf
  BY <1>0, <1>1, <1>2 DEF ClientOf, Response, Seen
<1>4. execution' \in Execution /\ execution'.at = "no"
  BY SeenSets DEF MethodReturns, NotRunning, Execution
<1>5. /\ IsSet(a) /\ ks \subseteq a /\ Within(client.shown.a, a)
      /\ IsSet(b) /\ b \subseteq querier.response /\ Within(client.shown.b, b) /\ querier.first
  BY <1>0, <1>1 DEF ReactiveInv, ExecutionOK
<1>6. FloorA' = FloorA /\ FloorB' = FloorB
  BY <1>0, <1>1, <1>3, <1>4, <1>5 DEF FloorA, FloorB
<1>7. ReactiveShapes'
  BY <1>0, <1>3, <1>4 DEF ReactiveInv, ReactiveShapes
<1>8. ExecutionOK' /\ QuerierOK'
  BY <1>0, <1>3, <1>4, <1>5 DEF ReactiveInv, ExecutionOK, QuerierOK, Within
<1>9. client.keys \subseteq a
  <2>1. client.keys \subseteq client.shown.a
    BY DEF ReactiveInv, KeysReflected
  <2>2. CASE IsSet(client.shown.a)
    BY <1>5, <2>1, <2>2 DEF Within
  <2>3. CASE ~IsSet(client.shown.a)
    <3>1. client.keys \in SUBSET Key /\ client.keys \subseteq {"unset"}
      BY <2>1, <2>3, Shapes DEF IsSet, Unset
    <3> QED
      BY <3>1, ReactiveAssumption
  <2> QED
    BY <2>2, <2>3
<1>10. KeysReflected'
  BY <1>3, <1>5, <1>9 DEF KeysReflected
<1>11. ReactiveInv'
  BY <1>0, <1>6, <1>7, <1>8, <1>10 DEF ReactiveInv, FloorsOK
<1> QED
  BY <1>3, <1>5, <1>11

\* An iteration of the other actor's session keeps the invariant.
LEMMA IterateBKeeps ==
    ASSUME ReactiveInv, IterateB
    PROVE  ReactiveInv'
<1>1. PICK p : p = IteratesB(session["B"])
  OBVIOUS
<1>2. session' = [session EXCEPT !["B"] = p]
  BY <1>1 DEF IterateB, IteratesB, ReactiveInv, ReactiveShapes, Session
<1>3. SessionOK(session["B"], FloorB, actor["B"])
  BY DEF ReactiveInv
<1>4. PICK l \in SUBSET Key : l = session["B"].latest /\ IsSet(l) /\ Within(FloorB, l)
  BY <1>3, Shapes, SeenSets DEF IterateB, SessionOK
<1>5. p \in Session /\ p.latest = l /\ SessionOK(p, FloorB, actor["B"])
  BY <1>1, <1>3, <1>4, Shapes, IteratesOK
<1>6. UNCHANGED <<actor, execution, querier, client, breaks>>
  BY DEF IterateB
<1>7. /\ FloorA' = FloorA /\ FloorB' = FloorB /\ KeysReflected'
      /\ execution' \in Execution /\ querier' \in QuerierOf /\ client' \in ClientOf
  BY <1>6, RestStays
<1>8. session' \in [Actor -> Session] /\ session'["B"] = p /\ session'["A"] = session["A"]
  BY <1>2, <1>5 DEF ReactiveInv, ReactiveShapes, Actor
<1>9. wire' \in Seq(SUBSET Key) /\ WireOK(wire', FloorB, l)
  <2>1. wire \in Seq(SUBSET Key) /\ WireOK(wire, FloorB, l) /\ FloorB \in Seen
    BY <1>4, Shapes DEF ReactiveInv, ReactiveShapes
  <2>2. wire' = wire \/ wire' = Append(wire, l)
    BY <1>4 DEF IterateB
  <2> QED
    BY <1>4, <2>1, <2>2, WireGrows
<1>10. ReactiveShapes'
  BY <1>6, <1>7, <1>8, <1>9 DEF ReactiveInv, ReactiveShapes
<1>11. FloorsOK' /\ ExecutionOK' /\ QuerierOK'
  BY <1>6, <1>7, <1>8 DEF ReactiveInv, FloorsOK, ExecutionOK, QuerierOK
<1> QED
  BY <1>5, <1>6, <1>7, <1>8, <1>9, <1>10, <1>11 DEF ReactiveInv

\* The querier's response is replaced by one that contains it.
LEMMA ReceiveKeeps ==
    ASSUME ReactiveInv, Receive
    PROVE  ReactiveInv'
<1>1. PICK h, t : h = Head(wire) /\ t = Tail(wire)
  OBVIOUS
<1>2. /\ h \in SUBSET Key /\ t \in Seq(SUBSET Key) /\ Within(FloorB, h)
      /\ h \subseteq session["B"].latest /\ IsSet(session["B"].latest)
      /\ WireOK(t, h, session["B"].latest)
  <2>1. /\ wire \in Seq(SUBSET Key) /\ wire # <<>>
        /\ WireOK(wire, FloorB, session["B"].latest)
    BY DEF Receive, ReactiveInv, ReactiveShapes
  <2> QED
    BY <1>1, <2>1, Shapes, WireShrinks
<1>3. h \in Seen /\ IsSet(h)
  BY <1>2, SeenSets DEF Seen
<1>4. querier \in QuerierOf /\ querier.on /\ querier.first \in BOOLEAN
  BY DEF Receive, ReactiveInv, ReactiveShapes, QuerierOf
<1>5. /\ querier' \in QuerierOf /\ querier'.on /\ querier'.first /\ querier'.response = h
  BY <1>1, <1>3, <1>4 DEF Receive, QuerierOf
<1>6. PICK p : p = Wakes(session["A"], querier.first)
  OBVIOUS
<1>7. session' = [session EXCEPT !["A"] = p] /\ wire' = t
  BY <1>1, <1>6 DEF Receive, Wakes, ReactiveInv, ReactiveShapes, Session
<1>8. /\ p \in Session /\ SessionOK(p, FloorA, actor["A"])
      /\ p.latest = session["A"].latest /\ IsSet(p.latest)
  BY <1>4, <1>6, Shapes, WakesOK DEF ReactiveInv, QuerierOK
<1>9. session' \in [Actor -> Session] /\ session'["A"] = p /\ session'["B"] = session["B"]
  BY <1>7, <1>8 DEF ReactiveInv, ReactiveShapes, Actor
<1>10. UNCHANGED <<actor, execution, client, breaks>>
  BY DEF Receive
<1>11. FloorA' = FloorA /\ FloorB' = h
  BY <1>5, <1>10 DEF FloorA, FloorB
<1>12. Within(client.shown.b, h) /\ (querier.first => querier.response \subseteq h)
  BY <1>2 DEF FloorB, ReactiveInv, QuerierOK, Within
<1>13. SessionOK(session["B"], h, actor["B"]) /\ h \subseteq actor["B"]
  <2>1. SessionOK(session["B"], FloorB, actor["B"])
    BY DEF ReactiveInv
  <2>2. session["B"].at = "on" /\ session["B"].latest \subseteq actor["B"]
    BY <1>2, <2>1 DEF SessionOK, IsSet
  <2>3. Within(h, session["B"].latest)
    BY <1>2 DEF Within
  <2> QED
    BY <1>2, <2>1, <2>2, <2>3, SessionStays
<1>14. ReactiveShapes'
  BY <1>2, <1>5, <1>7, <1>9, <1>10 DEF ReactiveInv, ReactiveShapes
<1>15. FloorsOK'
  BY <1>10, <1>11, <1>13 DEF ReactiveInv, FloorsOK, Within
<1>16. ExecutionOK'
  BY <1>5, <1>8, <1>9, <1>10, <1>12 DEF ReactiveInv, ExecutionOK
<1>17. QuerierOK'
  BY <1>3, <1>5, <1>8, <1>9, <1>10, <1>12 DEF QuerierOK
<1>18. KeysReflected'
  BY <1>10 DEF ReactiveInv, KeysReflected
<1> QED
  BY <1>2, <1>7, <1>8, <1>9, <1>10, <1>11, <1>13, <1>14, <1>15, <1>16, <1>17, <1>18 DEF ReactiveInv

\* A query that is broken starts anew, from no less than the client was shown.
LEMMA BreakQueryKeeps ==
    ASSUME ReactiveInv, BreakQuery
    PROVE  ReactiveInv'
<1>1. UNCHANGED <<actor, execution, querier, client>> /\ wire' = <<>> /\ breaks' \in 0..MaxBreaks
  BY ReactiveAssumption DEF BreakQuery, ReactiveInv, ReactiveShapes
<1>2. /\ FloorA' = FloorA /\ FloorB' = FloorB /\ KeysReflected'
      /\ execution' \in Execution /\ querier' \in QuerierOf /\ client' \in ClientOf
  BY <1>1, RestStays
<1>3. /\ session' \in [Actor -> Session] /\ session'["B"] = QuietSession
      /\ session'["A"] = session["A"]
  BY QuietOK DEF BreakQuery, ReactiveInv, ReactiveShapes, Actor
<1>4. <<>> \in Seq(SUBSET Key)
  OBVIOUS
<1>5. ReactiveShapes'
  BY <1>1, <1>2, <1>3, <1>4 DEF ReactiveInv, ReactiveShapes
<1>6. FloorsOK' /\ ExecutionOK' /\ QuerierOK'
  BY <1>1, <1>2, <1>3 DEF ReactiveInv, FloorsOK, ExecutionOK, QuerierOK
<1> QED
  BY <1>1, <1>2, <1>3, <1>5, <1>6, QuietOK, WireStays DEF ReactiveInv

\* The end of a query keeps the invariant.
LEMMA EndQueryKeeps ==
    ASSUME ReactiveInv, EndQuery
    PROVE  ReactiveInv'
<1>1. UNCHANGED <<actor, client>> /\ wire' = <<>> /\ breaks' \in 0..MaxBreaks
  BY ReactiveAssumption DEF EndQuery, ReactiveInv, ReactiveShapes
<1>2. /\ execution' \in Execution /\ execution'.at = "no"
      /\ querier' \in QuerierOf /\ querier'.on = FALSE /\ querier'.first = FALSE
  BY SeenSets DEF EndQuery, NotRunning, NoQuerier, Execution, QuerierOf
<1>3. FloorA' = client.shown.a /\ FloorB' = client.shown.b
  BY <1>1, <1>2 DEF FloorA, FloorB
<1>4. /\ session' \in [Actor -> Session] /\ session'["B"] = QuietSession
      /\ session'["A"] = QuietSession
  BY QuietOK DEF EndQuery, Actor
<1>5. <<>> \in Seq(SUBSET Key)
  OBVIOUS
<1>6. ReactiveShapes'
  BY <1>1, <1>2, <1>4, <1>5 DEF ReactiveInv, ReactiveShapes
<1>7. FloorsOK'
  BY <1>1, <1>3, Shapes DEF FloorsOK
<1>8. ExecutionOK' /\ QuerierOK' /\ KeysReflected'
  BY <1>1, <1>2 DEF ReactiveInv, ExecutionOK, QuerierOK, KeysReflected
<1> QED
  BY <1>1, <1>3, <1>4, <1>6, <1>7, <1>8, QuietOK, WireStays DEF ReactiveInv

\* The invariant holds initially.
LEMMA ReactiveStart == ReactiveInit => ReactiveInv
<1> SUFFICES ASSUME ReactiveInit PROVE ReactiveInv
  OBVIOUS
<1>1. /\ execution \in Execution /\ execution.at = "no"
      /\ querier \in QuerierOf /\ querier.on = FALSE /\ querier.first = FALSE
  BY SeenSets DEF ReactiveInit, NotRunning, NoQuerier, Execution, QuerierOf
<1>2. client \in ClientOf /\ client.shown.a = Unset /\ client.shown.b = Unset /\ client.keys = {}
  BY DEF ReactiveInit, ClientOf, Response
<1>3. FloorA = Unset /\ FloorB = Unset /\ ~IsSet(Unset)
  BY <1>1, <1>2 DEF FloorA, FloorB, IsSet
<1>4. /\ session \in [Actor -> Session] /\ session["B"] = QuietSession
      /\ session["A"] = QuietSession /\ wire \in Seq(SUBSET Key) /\ wire = <<>>
  BY QuietOK DEF ReactiveInit, Actor
<1>5. ReactiveShapes
  BY <1>1, <1>2, <1>4, ReactiveAssumption DEF ReactiveInit, ReactiveShapes
<1>6. FloorsOK /\ ExecutionOK /\ QuerierOK /\ KeysReflected
  BY <1>1, <1>2, <1>3 DEF FloorsOK, ExecutionOK, QuerierOK, KeysReflected, Within
<1> QED
  BY <1>4, <1>5, <1>6, QuietOK, WireStays DEF ReactiveInv

\* What a client was shown, an execution, a querier and a session have of an
\* actor is ordered, whatever breaks (React, reactively).
THEOREM ReactiveInvariance == ReactiveSpec => []ReactiveInv
<1>1. ReactiveInv /\ [ReactiveNext]_reactiveVars => ReactiveInv'
  <2> SUFFICES ASSUME ReactiveInv, [ReactiveNext]_reactiveVars PROVE ReactiveInv'
    OBVIOUS
  <2>1. CASE \E s \in Actor : AddQueue(s) \/ LoadState(s) \/ StartIterator(s) \/ WatchState(s)
    BY <2>1, AddQueueKeeps, LoadStateKeeps, StartIteratorKeeps, WatchStateKeeps
  <2>2. CASE Iterate \/ CallStarts \/ CallReturns \/ MethodReturns \/ IterateB \/ Receive
    BY <2>2, IterateKeeps, CallStartsKeeps, CallReturnsKeeps, MethodReturnsKeeps, IterateBKeeps,
       ReceiveKeeps
  <2>3. CASE BreakQuery \/ EndQuery
    BY <2>3, BreakQueryKeeps, EndQueryKeeps
  <2>4. CASE \E k \in Key : Mutate(k) \/ MutateAgain(k)
    BY <2>4, MutateKeeps, MutateAgainKeeps
  <2>5. CASE UNCHANGED reactiveVars
    BY <2>5 DEF reactiveVars, ReactiveInv, ReactiveShapes, FloorsOK, FloorA, FloorB,
                ExecutionOK, QuerierOK, KeysReflected
  <2> QED
    BY <2>1, <2>2, <2>3, <2>4, <2>5 DEF ReactiveNext, ReactiveStep
<1> QED
  BY <1>1, ReactiveStart, PTL DEF ReactiveSpec

Forward ==
    /\ IsSet(client.shown.a) => client.shown.a \subseteq client'.shown.a
    /\ IsSet(client.shown.b) => client.shown.b \subseteq client'.shown.b

\* What a client is shown has the mutations whose keys it was sent and never
\* goes back, for any mutations, broken queries and restarted sessions.
THEOREM NothingGoesBack == ReactiveSpec => NothingMissed
<1>1. ReactiveInv /\ [ReactiveNext]_reactiveVars => [Forward]_client
  <2> SUFFICES ASSUME ReactiveInv, [ReactiveNext]_reactiveVars PROVE [Forward]_client
    OBVIOUS
  <2>1. MethodReturns \/ client' = client
    BY DEF ReactiveNext, ReactiveStep, reactiveVars, AddQueue, LoadState, StartIterator,
           WatchState, Iterate, CallStarts, CallReturns, IterateB, Receive, BreakQuery, EndQuery,
           Mutate, MutateAgain
  <2>2. CASE MethodReturns
    BY <2>2, MethodReturnsKeeps DEF Forward, Within
  <2> QED
    BY <2>1, <2>2
<1>2. ReactiveInv /\ [ReactiveNext]_reactiveVars =>
        [/\ IsSet(client.shown.a) => client.shown.a \subseteq client'.shown.a
         /\ IsSet(client.shown.b) => client.shown.b \subseteq client'.shown.b
        ]_client
  BY <1>1 DEF Forward
<1>3. ReactiveInv => KeysReflected
  BY DEF ReactiveInv
<1> QED
  BY <1>2, <1>3, ReactiveInvariance, PTL DEF ReactiveSpec, NothingMissed, NeverBack

=============================================================================
