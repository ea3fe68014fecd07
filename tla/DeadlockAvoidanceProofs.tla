---------------------- MODULE DeadlockAvoidanceProofs ----------------------
(***************************************************************************)
(* Proofs about deadlock avoidance by transaction age: for any number of   *)
(* transactions, states and demands, a deadlock is always broken, and      *)
(* always at the expense of the same transaction.  And about the nested    *)
(* transactions of one root: whatever the tree of calls and their claims,  *)
(* they never stand still together, and the oldest sibling never yields.   *)
(***************************************************************************)
EXTENDS DeadlockAvoidance, SiblingDeadlock, FiniteSetTheorems, SequenceTheorems,
        WellFoundedInduction, TLAPS

Holds == [Tx -> {"none", "shared", "exclusive"}]
Waiter == [tx : Tx, mode : {"shared", "exclusive"}]

\* The lock of one state with holds h, upgrade slot u and queue q: an upgrader
\* holds it shared, a waiter does not hold it and waits once.
Proper(h, u, q) ==
    /\ \A x \in u : h[x] = "shared"
    /\ \A x, y \in u : x = y
    /\ \A i \in 1..Len(q) : h[q[i].tx] = "none"
    /\ \A i, j \in 1..Len(q) : q[i].tx = q[j].tx => i = j

\* Nobody waits for nobody: whoever is queued or upgrades is held up by a
\* holder other than itself.
Settled(h, u, q) ==
    /\ q # <<>> => \E t \in Tx : h[t] # "none"
    /\ \A x \in u : \E t \in Tx : t # x /\ h[t] # "none"

LocksOK ==
    \A s \in Resource :
        /\ Proper(held[s], upgrading[s], queue[s])
        /\ Settled(held[s], upgrading[s], queue[s])

Busy(t) == progress[t] \in {"running", "aborting", "committing"}

\* Only a transaction that is under way holds or waits, and it has an age.
BusyOK ==
    /\ \A s \in Resource, t \in Tx :
          held[s][t] # "none" \/ Queued(s, t) => Busy(t)
    /\ \A t \in Tx : Busy(t) => age[t] # 0

\* Ages are root ids that were handed out, each to one transaction.
AgesOK ==
    /\ \A t \in Tx : age[t] <= ids /\ retry_age[t] <= ids
    /\ \A t, u \in Tx : t # u =>
          /\ age[t] # 0 => age[t] # age[u] /\ age[t] # retry_age[u]
          /\ retry_age[t] # 0 => retry_age[t] # retry_age[u]

\* One that was presumed deadlocked keeps its age for ever, and is younger than
\* those it gave way to for as long as they are the transactions they were.
LastingOK ==
    /\ \A t \in Tx : retry_age[t] # 0 => retry_age[t] = age[t]
    /\ \A t, u \in Tx : <<t, u>> \in gaveway =>
          retry_age[t] # 0 /\ age[u] # 0 /\ age[u] < age[t]

DeadlockInv == DeadlockTypeOK /\ LocksOK /\ BusyOK /\ AgesOK /\ LastingOK

-----------------------------------------------------------------------------
(* Naturals and sequences.                                                  *)

\* A set of naturals has a least element.
LEMMA Least ==
    ASSUME NEW S \in SUBSET Nat, S # {}
    PROVE  \E x \in S : \A y \in S : x <= y
<1>1. PICK R : IsWellFoundedOn(R, Nat) /\ \A a, b \in Nat : a < b => <<a, b>> \in R
  <2>1. PICK R : R = OpToRel(<, Nat)
    OBVIOUS
  <2>2. IsWellFoundedOn(R, Nat)
    BY <2>1, NatLessThanWellFounded
  <2>3. R = {ss \in Nat \X Nat : ss[1] < ss[2]}
    BY <2>1, Zenon DEF OpToRel
  <2>4. \A a, b \in Nat : a < b => <<a, b>> \in R
    BY <2>3
  <2> QED
    BY <2>2, <2>4, Zenon
<1>2. IsWellFoundedOn(R, Nat) /\ S \subseteq Nat
  BY <1>1
<1>3. PICK x \in S : \A y \in S : <<y, x>> \notin R
  BY <1>2, WFMin
<1>4. \A y \in S : ~(y < x)
  BY <1>1, <1>3
<1> QED
  BY <1>4

\* What is left of a queue when one place is taken out.
LEMMA RemoveOne ==
    ASSUME NEW q \in Seq(Waiter), NEW i \in 1..Len(q)
    PROVE  /\ RemoveAt(q, i) \in Seq(Waiter)
           /\ Len(RemoveAt(q, i)) = Len(q) - 1
           /\ \A j \in 1..Len(q) - 1 :
                 RemoveAt(q, i)[j] = IF j < i THEN q[j] ELSE q[j + 1]
<1> DEFINE a == SubSeq(q, 1, i - 1)
           b == SubSeq(q, i + 1, Len(q))
<1>0. Len(q) \in Nat /\ i \in Nat /\ 1 <= i /\ i <= Len(q)
  OBVIOUS
<1>1. /\ a \in Seq(Waiter) /\ Len(a) = i - 1
      /\ \A j \in 1..(i - 1) : a[j] = q[j]
  BY <1>0
<1>2. /\ b \in Seq(Waiter) /\ Len(b) = Len(q) - i
      /\ \A j \in 1..(Len(q) - i) : b[j] = q[i + j]
  BY <1>0
<1>3. RemoveAt(q, i) = a \o b
  BY DEF RemoveAt
<1> HIDE DEF a, b
<1>4. /\ a \o b \in Seq(Waiter)
      /\ Len(a \o b) = Len(a) + Len(b)
      /\ \A j \in 1..(Len(a) + Len(b)) :
            (a \o b)[j] = IF j <= Len(a) THEN a[j] ELSE b[j - Len(a)]
  BY <1>1, <1>2, ConcatProperties
<1>5. ASSUME NEW j \in 1..Len(q) - 1
      PROVE  (a \o b)[j] = IF j < i THEN q[j] ELSE q[j + 1]
  <2>1. CASE j < i
    BY <1>0, <1>1, <1>2, <1>4, <2>1
  <2>2. CASE ~(j < i)
    <3>1. (a \o b)[j] = b[j - (i - 1)] /\ j - (i - 1) \in 1..(Len(q) - i)
      BY <1>0, <1>1, <1>2, <1>4, <2>2
    <3>2. b[j - (i - 1)] = q[i + (j - (i - 1))] /\ i + (j - (i - 1)) = j + 1
      BY <1>0, <1>2, <3>1
    <3> QED
      BY <2>2, <3>1, <3>2
  <2> QED
    BY <2>1, <2>2
<1>6. Len(a \o b) = Len(q) - 1
  BY <1>0, <1>1, <1>2, <1>4
<1> QED
  BY <1>3, <1>4, <1>5, <1>6

\* A transaction that takes itself off the queue leaves the others in line.
LEMMA WaiterRemoved ==
    ASSUME NEW q \in Seq(Waiter), NEW t \in Tx,
           \A i, j \in 1..Len(q) : q[i].tx = q[j].tx => i = j
    PROVE  /\ remove_waiter(q, t) \in Seq(Waiter)
           /\ \A j \in 1..Len(remove_waiter(q, t)) :
                 \E i \in 1..Len(q) : remove_waiter(q, t)[j] = q[i]
           /\ \A i, j \in 1..Len(remove_waiter(q, t)) :
                 remove_waiter(q, t)[i].tx = remove_waiter(q, t)[j].tx => i = j
           /\ remove_waiter(q, t) # <<>> => q # <<>>
<1> DEFINE places == {i \in 1..Len(q) : q[i].tx = t}
<1>1. CASE places = {}
  BY <1>1 DEF remove_waiter
<1>2. CASE places # {}
  <2>1. PICK i \in 1..Len(q) : remove_waiter(q, t) = RemoveAt(q, i)
    <3>1. (CHOOSE i \in places : TRUE) \in places
      BY <1>2
    <3> QED
      BY <1>2, <3>1 DEF remove_waiter
  <2>2. PICK r : r = remove_waiter(q, t)
    OBVIOUS
  <2>3. /\ r \in Seq(Waiter) /\ Len(r) = Len(q) - 1 /\ Len(q) \in Nat
        /\ \A j \in 1..Len(q) - 1 : r[j] = IF j < i THEN q[j] ELSE q[j + 1]
    <3>1. r = RemoveAt(q, i)
      BY <2>1, <2>2
    <3>2. Len(q) \in Nat
      BY LenProperties
    <3> QED
      BY <3>1, <3>2, RemoveOne, Zenon
  <2>4. \A j \in 1..Len(r) : \E k \in 1..Len(q) : r[j] = q[k]
    BY <2>3
  <2>5. ASSUME NEW j \in 1..Len(r), NEW k \in 1..Len(r), r[j].tx = r[k].tx
        PROVE  j = k
    <3> DEFINE up(n) == IF n < i THEN n ELSE n + 1
    <3>1. r[j] = q[up(j)] /\ r[k] = q[up(k)]
      BY <2>3
    <3>2. up(j) \in 1..Len(q) /\ up(k) \in 1..Len(q)
      BY <2>3
    <3>3. up(j) = up(k)
      BY <2>5, <3>1, <3>2
    <3> QED
      BY <3>3
  <2> QED
    BY <2>2, <2>3, <2>4, <2>5
<1> QED
  BY <1>1, <1>2

\* A queue starts with some number of shared waiters.
LEMMA CohortExists ==
    ASSUME NEW q \in Seq(Waiter)
    PROVE  \E k \in 0..Len(q) :
              /\ \A i \in 1..k : q[i].mode = "shared"
              /\ k < Len(q) => q[k + 1].mode = "exclusive"
<1>a. Len(q) \in Nat /\ \A i \in 1..Len(q) : q[i] \in Waiter
  OBVIOUS
<1>0. Len(q) \in Nat /\ \A i \in 1..Len(q) : q[i].mode \in {"shared", "exclusive"}
  BY <1>a DEF Waiter
<1> DEFINE E == {i \in 1..Len(q) : q[i].mode = "exclusive"}
<1>1. CASE E = {}
  <2>1. /\ \A i \in 1..Len(q) : q[i].mode = "shared"
        /\ Len(q) \in 0..Len(q)
    BY <1>0, <1>1
  <2> QED
    BY <2>1
<1>2. CASE E # {}
  <2>0. E \in SUBSET Nat
    BY <1>0
  <2>1. PICK x \in E : \A y \in E : x <= y
    <3> HIDE DEF E
    <3> QED
      BY <1>2, <2>0, Least
  <2>2. x - 1 \in 0..Len(q) /\ q[(x - 1) + 1].mode = "exclusive"
    BY <1>0, <2>1
  <2>3. \A i \in 1..(x - 1) : q[i].mode = "shared"
    <3> TAKE i \in 1..(x - 1)
    <3>1. i \in 1..Len(q) /\ ~(x <= i)
      BY <1>0, <2>1
    <3> QED
      BY <1>0, <2>1, <3>1
  <2> QED
    BY <2>2, <2>3
<1> QED
  BY <1>1, <1>2

-----------------------------------------------------------------------------
(* The lock.                                                               *)

\* What becomes of a lock with holds h, upgrade slot u and queue q: nobody but
\* a holder or a waiter holds it, and nobody joins the line.
Outcome(h, u, q, g) ==
    /\ g.h \in Holds /\ g.u \in SUBSET Tx /\ g.q \in Seq(Waiter)
    /\ Proper(g.h, g.u, g.q) /\ Settled(g.h, g.u, g.q)
    /\ \A x \in Tx : g.h[x] # "none" =>
          h[x] # "none" \/ \E i \in 1..Len(q) : q[i].tx = x
    /\ \A j \in 1..Len(g.q) : \E i \in 1..Len(q) : g.q[j] = q[i]

\* What grants have to be shown for: a proper lock in which nobody waits for
\* nobody, with no new holders or waiters.
LEMMA OutcomeIs ==
    ASSUME NEW h, NEW u, NEW q,
           NEW h2 \in Holds, NEW u2 \in SUBSET Tx, NEW q2 \in Seq(Waiter),
           Proper(h2, u2, q2), Settled(h2, u2, q2),
           \A x \in Tx : h2[x] # "none" =>
              h[x] # "none" \/ \E i \in 1..Len(q) : q[i].tx = x,
           \A j \in 1..Len(q2) : \E i \in 1..Len(q) : q2[j] = q[i]
    PROVE  Outcome(h, u, q, [h |-> h2, u |-> u2, q |-> q2])
<1>1. PICK g : g = [h |-> h2, u |-> u2, q |-> q2]
  OBVIOUS
<1>2. g.h = h2 /\ g.u = u2 /\ g.q = q2
  BY <1>1
<1>3. Outcome(h, u, q, g)
  BY <1>2, Zenon DEF Outcome
<1> QED
  BY <1>1, <1>3

\* The elements of a queue.
LEMMA Elements ==
    ASSUME NEW q \in Seq(Waiter)
    PROVE  /\ Len(q) \in Nat
           /\ \A i \in 1..Len(q) : /\ q[i] \in Waiter /\ q[i].tx \in Tx
                                   /\ q[i].mode \in {"shared", "exclusive"}
           /\ q # <<>> => Len(q) # 0 /\ 1 \in 1..Len(q) /\ Head(q) = q[1]
<1>1. Len(q) \in Nat /\ \A i \in 1..Len(q) : q[i] \in Waiter
  OBVIOUS
<1>2. q # <<>> => Len(q) # 0 /\ 1 \in 1..Len(q) /\ Head(q) = q[1]
  OBVIOUS
<1> QED
  BY <1>1, <1>2 DEF Waiter

\* An upgrader alone with its hold is granted the lock.
LEMMA GrantedUpgrade ==
    ASSUME NEW h \in Holds, NEW u \in SUBSET Tx, NEW q \in Seq(Waiter),
           Proper(h, u, q), u # {}, {t \in Tx : h[t] # "none"} = u
    PROVE  Outcome(h, u, q, Granted(h, u, q))
<1> DEFINE h2 == [t \in Tx |-> IF t \in u THEN "exclusive" ELSE h[t]]
<1>1. Granted(h, u, q) = [h |-> h2, u |-> {}, q |-> q]
  BY DEF Granted
<1>2. h2 \in Holds /\ \A t \in Tx : h2[t] = IF t \in u THEN "exclusive" ELSE h[t]
  BY DEF Holds
<1> HIDE DEF h2
<1>3. PICK x \in u : TRUE
  OBVIOUS
<1>4. \A i \in 1..Len(q) : q[i].tx \in Tx
  BY Elements
<1>5. \A i \in 1..Len(q) : h2[q[i].tx] = "none"
  <2> TAKE i \in 1..Len(q)
  <2>1. h[q[i].tx] = "none" /\ q[i].tx \in Tx
    BY <1>4 DEF Proper
  <2>2. q[i].tx \notin u
    BY <2>1
  <2> QED
    BY <1>2, <2>1, <2>2
<1>6. Proper(h2, {}, q)
  BY <1>5 DEF Proper
<1>7. Settled(h2, {}, q)
  BY <1>2, <1>3 DEF Settled
<1>8. \A t \in Tx : h2[t] # "none" => h[t] # "none"
  BY <1>2
<1> QED
  BY <1>1, <1>2, <1>6, <1>7, <1>8 DEF Outcome

\* A holder keeps the lock from whoever waits.
LEMMA GrantedNobody ==
    ASSUME NEW h \in Holds, NEW u \in SUBSET Tx, NEW q \in Seq(Waiter),
           Proper(h, u, q),
           \/ u # {} /\ {t \in Tx : h[t] # "none"} # u
           \/ u = {} /\ ({t \in Tx : h[t] # "none"} # {} \/ q = <<>>)
    PROVE  Outcome(h, u, q, Granted(h, u, q))
<1>1. Granted(h, u, q) = [h |-> h, u |-> u, q |-> q]
  BY DEF Granted
<1>2. \A x \in u : x \in {t \in Tx : h[t] # "none"} /\ \A y \in u : x = y
  BY DEF Proper
<1>3. Settled(h, u, q)
  <2>1. CASE u # {}
    <3>1. PICK x \in u : TRUE
      BY <2>1
    <3>2. u = {x}
      BY <1>2, <3>1
    <3>3. \E t \in Tx : t # x /\ h[t] # "none"
      BY <1>2, <2>1, <3>2
    <3> QED
      BY <1>2, <3>2, <3>3 DEF Settled
  <2>2. CASE u = {}
    BY <2>2 DEF Settled
  <2> QED
    BY <2>1, <2>2
<1> QED
  BY <1>1, <1>3 DEF Outcome

\* An exclusive waiter at the head is granted a free lock.
LEMMA GrantedHead ==
    ASSUME NEW h \in Holds, NEW q \in Seq(Waiter), Proper(h, {}, q),
           {t \in Tx : h[t] # "none"} = {}, q # <<>>,
           Head(q).mode = "exclusive"
    PROVE  Outcome(h, {}, q, Granted(h, {}, q))
<1> DEFINE h2 == [h EXCEPT ![Head(q).tx] = "exclusive"]
           q2 == Tail(q)
<1>1. Granted(h, {}, q) = [h |-> h2, u |-> {}, q |-> q2]
  BY DEF Granted
<1>2. /\ Len(q) \in Nat /\ Len(q) # 0 /\ Head(q) = q[1] /\ 1 \in 1..Len(q)
      /\ \A i \in 1..Len(q) : q[i].tx \in Tx
  BY Elements
<1>3. PICK x \in Tx : x = q[1].tx
  BY <1>2
<1>4. h2 \in Holds /\ \A t \in Tx : h2[t] = IF t = x THEN "exclusive" ELSE h[t]
  BY <1>2, <1>3 DEF Holds
<1>5. /\ q2 \in Seq(Waiter) /\ Len(q2) = Len(q) - 1
      /\ \A i \in 1..Len(q2) : q2[i] = q[i + 1]
  BY HeadTailProperties
<1> HIDE DEF h2, q2
<1>6. \A i \in 1..Len(q2) : i + 1 \in 1..Len(q) /\ i + 1 # 1
  BY <1>2, <1>5
<1>7. Proper(h2, {}, q2)
  <2>1. ASSUME NEW i \in 1..Len(q2) PROVE h2[q2[i].tx] = "none"
    <3>1. q2[i] = q[i + 1] /\ i + 1 \in 1..Len(q) /\ i + 1 # 1
      BY <1>5, <1>6
    <3>2. q[i + 1].tx # x /\ q[i + 1].tx \in Tx /\ h[q[i + 1].tx] = "none"
      BY <1>2, <1>3, <3>1 DEF Proper
    <3> QED
      BY <1>4, <3>1, <3>2
  <2>2. ASSUME NEW i \in 1..Len(q2), NEW j \in 1..Len(q2), q2[i].tx = q2[j].tx
        PROVE  i = j
    <3>1. q2[i] = q[i + 1] /\ i + 1 \in 1..Len(q)
      BY <1>5, <1>6
    <3>2. q2[j] = q[j + 1] /\ j + 1 \in 1..Len(q)
      BY <1>5, <1>6
    <3>3. i + 1 = j + 1
      BY <2>2, <3>1, <3>2 DEF Proper
    <3> QED
      BY <3>3
  <2> QED
    BY <2>1, <2>2 DEF Proper
<1>8. Settled(h2, {}, q2)
  BY <1>4 DEF Settled
<1>9. \A t \in Tx : h2[t] # "none" =>
          h[t] # "none" \/ \E i \in 1..Len(q) : q[i].tx = t
  BY <1>2, <1>3, <1>4
<1>10. \A j \in 1..Len(q2) : \E i \in 1..Len(q) : q2[j] = q[i]
  BY <1>5, <1>6
<1>11. {} \in SUBSET Tx
  OBVIOUS
<1>12. Outcome(h, {}, q, [h |-> h2, u |-> {}, q |-> q2])
  BY <1>4, <1>5, <1>7, <1>8, <1>9, <1>10, <1>11, OutcomeIs, Zenon
<1> QED
  BY <1>1, <1>12

\* The shared waiters at the head are granted a free lock together.
LEMMA GrantedCohort ==
    ASSUME NEW h \in Holds, NEW q \in Seq(Waiter), Proper(h, {}, q),
           {t \in Tx : h[t] # "none"} = {}, q # <<>>,
           Head(q).mode # "exclusive"
    PROVE  Outcome(h, {}, q, Granted(h, {}, q))
<1> DEFINE cohort == CHOOSE k \in 0..Len(q) :
                        /\ \A i \in 1..k : q[i].mode = "shared"
                        /\ k < Len(q) => q[k + 1].mode = "exclusive"
           first(n) == {q[i].tx : i \in 1..n}
           hold(n) == [t \in Tx |-> IF t \in first(n) THEN "shared" ELSE h[t]]
           rest(n) == SubSeq(q, n + 1, Len(q))
<1>1. Granted(h, {}, q) = [h |-> hold(cohort), u |-> {}, q |-> rest(cohort)]
  BY DEF Granted
<1>2. /\ Len(q) \in Nat /\ Len(q) # 0 /\ Head(q) = q[1] /\ 1 \in 1..Len(q)
      /\ \A i \in 1..Len(q) : q[i].tx \in Tx
  BY Elements
<1>3. /\ cohort \in 0..Len(q)
      /\ cohort < Len(q) => q[cohort + 1].mode = "exclusive"
  BY CohortExists
<1> HIDE DEF cohort
<1>4. PICK k \in 1..Len(q) : k = cohort
  <2>1. cohort # 0
    BY <1>2, <1>3
  <2> QED
    BY <1>2, <1>3, <2>1
<1>5. PICK h2 \in Holds :
          /\ h2 = hold(k)
          /\ \A t \in Tx : h2[t] = IF t \in first(k) THEN "shared" ELSE h[t]
  <2> HIDE DEF first
  <2>1. hold(k) \in Holds
    BY DEF Holds
  <2> QED
    BY <2>1
<1>6. PICK q2 \in Seq(Waiter) :
          /\ q2 = rest(k) /\ Len(q2) = Len(q) - k
          /\ \A i \in 1..Len(q2) : q2[i] = q[k + i]
  <2>1. rest(k) \in Seq(Waiter) /\ Len(rest(k)) = Len(q) - k
    BY <1>2
  <2>2. \A i \in 1..(Len(q) - k) : rest(k)[i] = q[k + i]
    BY <1>2
  <2> QED
    BY <2>1, <2>2
<1>7. \A i \in 1..Len(q2) : k + i \in 1..Len(q) /\ k + i \notin 1..k
  BY <1>2, <1>6
<1>8. Proper(h2, {}, q2)
  <2>1. ASSUME NEW i \in 1..Len(q2) PROVE h2[q2[i].tx] = "none"
    <3>1. q2[i] = q[k + i] /\ k + i \in 1..Len(q) /\ k + i \notin 1..k
      BY <1>6, <1>7
    <3>2. q[k + i].tx \in Tx /\ h[q[k + i].tx] = "none"
      BY <1>2, <3>1 DEF Proper
    <3>3. q[k + i].tx \notin first(k)
      <4> SUFFICES ASSUME NEW j \in 1..k, q[k + i].tx = q[j].tx PROVE FALSE
        OBVIOUS
      <4>1. j \in 1..Len(q) /\ j # k + i
        BY <1>2, <3>1
      <4> QED
        BY <3>1, <4>1 DEF Proper
    <3> QED
      BY <1>5, <3>1, <3>2, <3>3
  <2>2. ASSUME NEW i \in 1..Len(q2), NEW j \in 1..Len(q2), q2[i].tx = q2[j].tx
        PROVE  i = j
    <3>1. q2[i] = q[k + i] /\ k + i \in 1..Len(q)
      BY <1>6, <1>7
    <3>2. q2[j] = q[k + j] /\ k + j \in 1..Len(q)
      BY <1>6, <1>7
    <3>3. k + i = k + j
      BY <2>2, <3>1, <3>2 DEF Proper
    <3> QED
      BY <3>3
  <2> QED
    BY <2>1, <2>2 DEF Proper
<1>9. Settled(h2, {}, q2)
  <2>1. q[1].tx \in Tx /\ q[1].tx \in first(k)
    BY <1>2
  <2> QED
    BY <1>5, <2>1 DEF Settled
<1>10. \A t \in Tx : h2[t] # "none" =>
          h[t] # "none" \/ \E i \in 1..Len(q) : q[i].tx = t
  <2> SUFFICES ASSUME NEW t \in Tx, h2[t] # "none", h[t] = "none"
               PROVE  \E i \in 1..Len(q) : q[i].tx = t
    OBVIOUS
  <2>1. PICK i \in 1..k : q[i].tx = t
    BY <1>5
  <2> QED
    BY <1>2, <2>1
<1>11. \A j \in 1..Len(q2) : \E i \in 1..Len(q) : q2[j] = q[i]
  BY <1>6, <1>7
<1>12. Granted(h, {}, q) = [h |-> h2, u |-> {}, q |-> q2]
  BY <1>1, <1>4, <1>5, <1>6
<1>13. {} \in SUBSET Tx
  OBVIOUS
<1>14. Outcome(h, {}, q, [h |-> h2, u |-> {}, q |-> q2])
  BY <1>8, <1>9, <1>10, <1>11, <1>13, OutcomeIs, Zenon
<1> QED
  BY <1>12, <1>14

\* Granting from a proper lock leaves a lock in which nobody waits for
\* nobody.
LEMMA GrantedOK ==
    ASSUME NEW h \in Holds, NEW u \in SUBSET Tx, NEW q \in Seq(Waiter),
           Proper(h, u, q)
    PROVE  Outcome(h, u, q, Granted(h, u, q))
BY GrantedUpgrade, GrantedNobody, GrantedHead, GrantedCohort

\* A transaction leaves a lock, whether it holds it or waits for it.
LEMMA WithoutOK ==
    ASSUME NEW s \in Resource, NEW t \in Tx, DeadlockTypeOK, LocksOK
    PROVE  Outcome(held[s], upgrading[s], queue[s], Without(s, t))
<1>0. PICK h \in Holds, u \in SUBSET Tx, q \in Seq(Waiter) :
          h = held[s] /\ u = upgrading[s] /\ q = queue[s]
  BY DEF DeadlockTypeOK, Holds, Waiter
<1>1. Proper(h, u, q) /\ Settled(h, u, q)
  BY <1>0 DEF LocksOK
<1> DEFINE h2 == [h EXCEPT ![t] = "none"]
           u2 == u \ {t}
           q2 == remove_waiter(q, t)
<1>2. h2 \in Holds /\ u2 \in SUBSET Tx /\ \A x \in u2 : x \in u /\ x # t
  BY DEF Holds
<1>3. \A x \in Tx : h2[x] = IF x = t THEN "none" ELSE h[x]
  BY DEF Holds
<1>4. \A i, j \in 1..Len(q) : q[i].tx = q[j].tx => i = j
  BY <1>1 DEF Proper
<1>5. /\ q2 \in Seq(Waiter) /\ (q2 # <<>> => q # <<>>)
      /\ \A j \in 1..Len(q2) : \E i \in 1..Len(q) : q2[j] = q[i]
      /\ \A i, j \in 1..Len(q2) : q2[i].tx = q2[j].tx => i = j
  BY <1>4, WaiterRemoved
<1>6. Without(s, t) = IF h[t] = "none" THEN [h |-> h2, u |-> u2, q |-> q2]
                                       ELSE Granted(h2, u2, q2)
  BY <1>0 DEF Without
<1> HIDE DEF h2, u2, q2
<1>7. \A j \in 1..Len(q2) : h2[q2[j].tx] = "none"
  <2> TAKE j \in 1..Len(q2)
  <2>1. PICK i \in 1..Len(q) : q2[j] = q[i]
    BY <1>5
  <2>2. q[i].tx \in Tx /\ h[q[i].tx] = "none"
    BY <1>1, Elements DEF Proper
  <2> QED
    BY <1>3, <2>1, <2>2
<1>8. Proper(h2, u2, q2)
  <2>1. \A x \in u2 : h2[x] = "shared" /\ \A y \in u2 : x = y
    BY <1>1, <1>2, <1>3 DEF Proper
  <2> QED
    BY <1>5, <1>7, <2>1 DEF Proper
<1>9. \A x \in Tx : h2[x] # "none" => h[x] # "none"
  BY <1>3
<1>10. CASE h[t] = "none"
  <2>1. \A x \in Tx : h2[x] = h[x]
    BY <1>3, <1>10
  <2>2. Settled(h2, u2, q2)
    BY <1>1, <1>2, <1>5, <2>1 DEF Settled
  <2>3. Outcome(h, u, q, [h |-> h2, u |-> u2, q |-> q2])
    BY <1>2, <1>5, <1>8, <1>9, <2>2, OutcomeIs, Zenon
  <2> QED
    BY <1>0, <1>6, <1>10, <2>3
<1>11. CASE h[t] # "none"
  <2>1. PICK g : g = Granted(h2, u2, q2)
    OBVIOUS
  <2>2. Outcome(h2, u2, q2, g)
    BY <1>2, <1>5, <1>8, <2>1, GrantedOK
  <2>3. \A x \in Tx : g.h[x] # "none" =>
            h[x] # "none" \/ \E i \in 1..Len(q) : q[i].tx = x
    <3> SUFFICES ASSUME NEW x \in Tx, g.h[x] # "none", h[x] = "none"
                 PROVE  \E i \in 1..Len(q) : q[i].tx = x
      OBVIOUS
    <3>1. PICK j \in 1..Len(q2) : q2[j].tx = x
      BY <1>9, <2>2 DEF Outcome
    <3> QED
      BY <1>5, <3>1
  <2>4. \A j \in 1..Len(g.q) : \E i \in 1..Len(q) : g.q[j] = q[i]
    <3> TAKE j \in 1..Len(g.q)
    <3>1. PICK k \in 1..Len(q2) : g.q[j] = q2[k]
      BY <2>2 DEF Outcome
    <3> QED
      BY <1>5, <3>1
  <2>5. Outcome(h, u, q, g)
    BY <2>2, <2>3, <2>4, Zenon DEF Outcome
  <2> QED
    BY <1>0, <1>6, <1>11, <2>1, <2>5
<1> QED
  BY <1>10, <1>11

-----------------------------------------------------------------------------
(* Steps.                                                                  *)

\* The lock of state s becomes h, u, q.
LockBecomes(s, h, u, q) ==
    /\ held' = [held EXCEPT ![s] = h]
    /\ upgrading' = [upgrading EXCEPT ![s] = u]
    /\ queue' = [queue EXCEPT ![s] = q]

LocksTyped ==
    /\ held \in [Resource -> Holds]
    /\ upgrading \in [Resource -> SUBSET Tx]
    /\ queue \in [Resource -> Seq(Waiter)]

RestTyped ==
    /\ age \in [Tx -> 0..MaxAge] /\ retry_age \in [Tx -> 0..MaxAge]
    /\ progress \in [Tx -> Progress]
    /\ ids \in 0..MaxAge
    /\ gaveway \subseteq Tx \X Tx

\* The types of the locks and those of the rest.
LEMMA TypesSplit == DeadlockTypeOK <=> LocksTyped /\ RestTyped
BY DEF DeadlockTypeOK, LocksTyped, RestTyped, Holds, Waiter

\* A step that changes one lock to a proper one keeps all the locks so.
LEMMA LockStep ==
    ASSUME NEW s \in Resource, NEW h \in Holds, NEW u \in SUBSET Tx,
           NEW q \in Seq(Waiter), Proper(h, u, q), Settled(h, u, q),
           LocksTyped, LocksOK, LockBecomes(s, h, u, q)
    PROVE  /\ LocksTyped' /\ LocksOK'
           /\ held'[s] = h /\ queue'[s] = q
           /\ \A r \in Resource \ {s} : held'[r] = held[r] /\ queue'[r] = queue[r]
<1>1. LocksTyped'
  BY DEF LocksTyped, LockBecomes
<1>2. held'[s] = h /\ queue'[s] = q /\ upgrading'[s] = u
  BY DEF LocksTyped, LockBecomes
<1>3. \A r \in Resource \ {s} : /\ held'[r] = held[r] /\ queue'[r] = queue[r]
                                /\ upgrading'[r] = upgrading[r]
  BY DEF LocksTyped, LockBecomes
<1>4. ASSUME NEW r \in Resource
      PROVE  /\ Proper(held'[r], upgrading'[r], queue'[r])
             /\ Settled(held'[r], upgrading'[r], queue'[r])
  <2>1. CASE r = s
    BY <1>2, <2>1
  <2>2. CASE r # s
    <3>1. Proper(held[r], upgrading[r], queue[r])
          /\ Settled(held[r], upgrading[r], queue[r])
      BY DEF LocksOK
    <3> QED
      BY <1>3, <2>2, <3>1
  <2> QED
    BY <2>1, <2>2
<1>5. LocksOK'
  BY <1>4 DEF LocksOK
<1> QED
  BY <1>1, <1>2, <1>3, <1>5

\* A step that leaves the locks alone.
LEMMA LocksStay ==
    ASSUME LocksTyped, LocksOK, UNCHANGED <<held, upgrading, queue>>
    PROVE  LocksTyped' /\ LocksOK'
BY DEF LocksTyped, LocksOK

\* A step that leaves the ages alone.
LEMMA AgesStay ==
    ASSUME AgesOK, LastingOK, BusyOK, RestTyped,
           UNCHANGED <<age, retry_age, progress, ids, gaveway>>
    PROVE  AgesOK' /\ LastingOK' /\ RestTyped' /\ (\A t \in Tx : Busy(t)' = Busy(t))
           /\ (\A t \in Tx : Busy(t)' => age'[t] # 0)
BY DEF AgesOK, LastingOK, BusyOK, RestTyped, Busy

\* A call that acquires a lock, or queues for it, keeps the invariant.
LEMMA AcquireStep ==
    ASSUME DeadlockInv, NEW t \in Tx, NEW d \in Demands[t], Acquire(t, d)
    PROVE  DeadlockInv'
<1> DEFINE s == d.state
<1>0. LocksTyped /\ RestTyped /\ LocksOK /\ BusyOK /\ AgesOK /\ LastingOK
  BY TypesSplit DEF DeadlockInv
<1>1. s \in Resource /\ d.mode \in {"shared", "exclusive"}
  BY DeadlockAssumption
<1>2. PICK h \in Holds, u \in SUBSET Tx, q \in Seq(Waiter) :
          h = held[s] /\ u = upgrading[s] /\ q = queue[s]
  BY <1>0, <1>1 DEF LocksTyped
<1>3. Proper(h, u, q) /\ Settled(h, u, q)
  BY <1>0, <1>1, <1>2 DEF LocksOK
<1>4. /\ h[t] = "none" /\ t \notin u
      /\ \A i \in 1..Len(q) : q[i].tx # t
  BY <1>2 DEF Acquire, Waiting, Queued
<1>5. /\ AgesOK' /\ LastingOK' /\ RestTyped' /\ \A x \in Tx : Busy(x)' = Busy(x)
      /\ \A x \in Tx : Busy(x)' => age'[x] # 0
  <2>1. UNCHANGED <<age, retry_age, progress, ids, gaveway>>
    BY DEF Acquire
  <2> QED
    BY <1>0, <2>1, AgesStay
<1>6. Busy(t)'
  <2>1. Busy(t)
    BY DEF Acquire, Busy
  <2> QED
    BY <1>5, <2>1
<1>7. CASE CanTake(s, d.mode)
  <2> DEFINE h2 == [h EXCEPT ![t] = d.mode]
  <2>1. h2 \in Holds /\ \A x \in Tx : h2[x] = IF x = t THEN d.mode ELSE h[x]
    BY <1>1 DEF Holds
  <2>2. LockBecomes(s, h2, u, q)
    BY <1>0, <1>1, <1>2, <1>7 DEF Acquire, LockBecomes, LocksTyped
  <2> HIDE DEF h2
  <2>3. u = {}
    BY <1>2, <1>7 DEF CanTake
  <2>4. Proper(h2, u, q)
    BY <1>3, <1>4, <2>1, <2>3, Elements DEF Proper
  <2>5. Settled(h2, u, q)
    BY <1>1, <2>1, <2>3 DEF Settled
  <2>6. /\ LocksTyped' /\ LocksOK' /\ held'[s] = h2 /\ queue'[s] = q
        /\ \A r \in Resource \ {s} : held'[r] = held[r] /\ queue'[r] = queue[r]
    BY <1>0, <1>1, <2>1, <2>2, <2>4, <2>5, LockStep
  <2>7. ASSUME NEW r \in Resource, NEW x \in Tx,
               held'[r][x] # "none" \/ Queued(r, x)'
        PROVE  Busy(x)'
    <3>1. CASE r = s /\ x = t
      BY <1>6, <3>1
    <3>2. CASE ~(r = s /\ x = t)
      <4>1. held[r][x] # "none" \/ Queued(r, x)
        BY <1>2, <2>1, <2>6, <2>7, <3>2 DEF Queued
      <4> QED
        BY <1>0, <1>5, <4>1 DEF BusyOK
    <3> QED
      BY <3>1, <3>2
  <2>8. BusyOK'
    BY <1>5, <2>7 DEF BusyOK
  <2>9. DeadlockTypeOK'
    BY <1>5, <2>6, TypesSplit, PTL
  <2> QED
    BY <1>5, <2>6, <2>8, <2>9 DEF DeadlockInv
<1>8. CASE ~CanTake(s, d.mode)
  <2> DEFINE w == [tx |-> t, mode |-> d.mode]
             q2 == Append(q, w)
  <2>0. w \in Waiter /\ w.tx = t
    BY <1>1 DEF Waiter
  <2> HIDE DEF w
  <2>1. /\ q2 \in Seq(Waiter) /\ Len(q2) = Len(q) + 1 /\ Len(q) \in Nat
        /\ \A i \in 1..Len(q2) : q2[i] = IF i = Len(q) + 1 THEN w ELSE q[i]
    BY <2>0
  <2>2. LockBecomes(s, h, u, q2)
    BY <1>0, <1>1, <1>2, <1>8 DEF Acquire, LockBecomes, LocksTyped, w
  <2> HIDE DEF q2
  <2>3. \E x \in Tx : h[x] # "none"
    <3>1. \/ \E x \in Tx : h[x] = "exclusive"
          \/ u # {}
          \/ {x \in Tx : h[x] # "none"} # {}
          \/ \E i \in 1..Len(q) : q[i].mode = "exclusive"
      BY <1>1, <1>2, <1>8 DEF CanTake, holders
    <3>2. \A x \in u : x \in Tx /\ h[x] # "none"
      BY <1>3 DEF Proper
    <3>3. q # <<>> => \E x \in Tx : h[x] # "none"
      BY <1>3 DEF Settled
    <3>4. (\E i \in 1..Len(q) : q[i].mode = "exclusive") => q # <<>>
      OBVIOUS
    <3> QED
      BY <3>1, <3>2, <3>3, <3>4
  <2>4. Proper(h, u, q2)
    <3>1. \A i \in 1..Len(q2) : i # Len(q) + 1 => i \in 1..Len(q)
      BY <2>1
    <3>2. \A i \in 1..Len(q2) : h[q2[i].tx] = "none"
      BY <1>3, <1>4, <2>0, <2>1, <3>1 DEF Proper
    <3>3. ASSUME NEW i \in 1..Len(q2), NEW j \in 1..Len(q2), q2[i].tx = q2[j].tx
          PROVE  i = j
      BY <1>3, <1>4, <2>0, <2>1, <3>1, <3>3 DEF Proper
    <3> QED
      BY <1>3, <3>2, <3>3 DEF Proper
  <2>5. Settled(h, u, q2)
    BY <1>3, <2>3 DEF Settled
  <2>6. /\ LocksTyped' /\ LocksOK' /\ held'[s] = h /\ queue'[s] = q2
        /\ \A r \in Resource \ {s} : held'[r] = held[r] /\ queue'[r] = queue[r]
    BY <1>0, <1>1, <2>1, <2>2, <2>4, <2>5, LockStep
  <2>7. ASSUME NEW r \in Resource, NEW x \in Tx,
               held'[r][x] # "none" \/ Queued(r, x)'
        PROVE  Busy(x)'
    <3>1. CASE r = s /\ x = t
      BY <1>6, <3>1
    <3>2. CASE r = s /\ x # t
      <4>1. h[x] # "none" \/ \E i \in 1..Len(q2) : q2[i].tx = x
        BY <2>6, <2>7, <3>2 DEF Queued
      <4>2. h[x] # "none" \/ \E i \in 1..Len(q) : q[i].tx = x
        BY <2>0, <2>1, <3>2, <4>1
      <4>3. held[r][x] # "none" \/ Queued(r, x)
        BY <1>2, <3>2, <4>2 DEF Queued
      <4> QED
        BY <1>0, <1>5, <4>3 DEF BusyOK
    <3>3. CASE r # s
      <4>1. held[r][x] # "none" \/ Queued(r, x)
        BY <2>6, <2>7, <3>3 DEF Queued
      <4> QED
        BY <1>0, <1>5, <4>1 DEF BusyOK
    <3> QED
      BY <3>1, <3>2, <3>3
  <2>8. BusyOK'
    BY <1>5, <2>7 DEF BusyOK
  <2>9. DeadlockTypeOK'
    BY <1>5, <2>6, TypesSplit, PTL
  <2> QED
    BY <1>5, <2>6, <2>8, <2>9 DEF DeadlockInv
<1> QED
  BY <1>7, <1>8

\* A transaction that stays under way, in a step that leaves the queues alone
\* and lets it hold what it held, or more.
LEMMA BusyStay ==
    ASSUME BusyOK, NEW t \in Tx, Busy(t)', UNCHANGED queue,
           \A r \in Resource, x \in Tx \ {t} : held'[r][x] = held[r][x],
           \A x \in Tx \ {t} : Busy(x)' = Busy(x),
           \A x \in Tx : Busy(x)' => age'[x] # 0
    PROVE  BusyOK'
BY DEF BusyOK, Queued

\* An upgrade, granted or not, keeps the invariant.
LEMMA UpgradeStep ==
    ASSUME DeadlockInv, NEW t \in Tx, NEW s \in Resource, Upgrade(t, s)
    PROVE  DeadlockInv'
<1>0. LocksTyped /\ RestTyped /\ LocksOK /\ BusyOK /\ AgesOK /\ LastingOK
  BY TypesSplit DEF DeadlockInv
<1>1. PICK h \in Holds, u \in SUBSET Tx, q \in Seq(Waiter) :
          h = held[s] /\ u = upgrading[s] /\ q = queue[s]
  BY <1>0 DEF LocksTyped
<1>2. Proper(h, u, q) /\ Settled(h, u, q)
  BY <1>0, <1>1 DEF LocksOK
<1>3. /\ h[t] = "shared" /\ t \notin u
      /\ \A i \in 1..Len(q) : q[i].tx # t
  BY <1>1 DEF Upgrade, Waiting, Queued
<1>4. CASE /\ holders(s) = {t}
           /\ held' = [held EXCEPT ![s][t] = "exclusive"]
           /\ UNCHANGED <<upgrading, progress>>
  <2> DEFINE h2 == [h EXCEPT ![t] = "exclusive"]
  <2>1. h2 \in Holds /\ \A x \in Tx : h2[x] = IF x = t THEN "exclusive" ELSE h[x]
    BY DEF Holds
  <2>2. LockBecomes(s, h2, u, q)
    BY <1>0, <1>1, <1>4 DEF Upgrade, LockBecomes, LocksTyped
  <2> HIDE DEF h2
  <2>3. u = {}
    <3>1. \A x \in u : x \in Tx /\ h[x] # "none"
      BY <1>2 DEF Proper
    <3>2. \A x \in u : x = t
      BY <1>1, <1>4, <3>1 DEF holders
    <3> QED
      BY <1>3, <3>2
  <2>4. Proper(h2, u, q)
    BY <1>2, <1>3, <2>1, <2>3, Elements DEF Proper
  <2>5. Settled(h2, u, q)
    BY <2>1, <2>3 DEF Settled
  <2>6. /\ LocksTyped' /\ LocksOK' /\ held'[s] = h2 /\ queue'[s] = q
        /\ \A r \in Resource \ {s} : held'[r] = held[r] /\ queue'[r] = queue[r]
    BY <1>0, <2>1, <2>2, <2>4, <2>5, LockStep
  <2>7. UNCHANGED <<age, retry_age, progress, ids, gaveway>>
    BY <1>4 DEF Upgrade
  <2>8. /\ AgesOK' /\ LastingOK' /\ RestTyped' /\ \A x \in Tx : Busy(x)' = Busy(x)
        /\ \A x \in Tx : Busy(x)' => age'[x] # 0
    BY <1>0, <2>7, AgesStay
  <2>9. BusyOK'
    <3>1. Busy(t)'
      <4>1. Busy(t)
        BY DEF Upgrade, Busy
      <4> QED
        BY <2>8, <4>1
    <3>2. \A r \in Resource, x \in Tx \ {t} : held'[r][x] = held[r][x]
      BY <1>1, <2>1, <2>6
    <3>3. UNCHANGED queue
      BY DEF Upgrade
    <3> QED
      BY <1>0, <2>8, <3>1, <3>2, <3>3, BusyStay
  <2>10. DeadlockTypeOK'
    BY <2>6, <2>8, TypesSplit, PTL
  <2> QED
    BY <2>6, <2>8, <2>9, <2>10 DEF DeadlockInv
<1>5. CASE /\ holders(s) # {t} /\ upgrading[s] = {}
           /\ upgrading' = [upgrading EXCEPT ![s] = {t}]
           /\ UNCHANGED <<held, progress>>
  <2>1. LockBecomes(s, h, {t}, q)
    BY <1>0, <1>1, <1>5 DEF Upgrade, LockBecomes, LocksTyped
  <2>2. Proper(h, {t}, q)
    BY <1>2, <1>3 DEF Proper
  <2>3. \E x \in Tx : x # t /\ h[x] # "none"
    <3>1. t \in holders(s)
      BY <1>1, <1>3 DEF holders
    <3> QED
      BY <1>1, <1>5, <3>1 DEF holders
  <2>4. Settled(h, {t}, q)
    BY <2>3 DEF Settled
  <2>5. LocksTyped' /\ LocksOK'
    BY <1>0, <2>1, <2>2, <2>4, LockStep
  <2>6. UNCHANGED <<age, retry_age, progress, ids, gaveway>>
    BY <1>5 DEF Upgrade
  <2>7. /\ AgesOK' /\ LastingOK' /\ RestTyped' /\ \A x \in Tx : Busy(x)' = Busy(x)
        /\ \A x \in Tx : Busy(x)' => age'[x] # 0
    BY <1>0, <2>6, AgesStay
  <2>8. BusyOK'
    <3>1. UNCHANGED <<held, queue>>
      BY <1>5 DEF Upgrade
    <3> QED
      BY <1>0, <2>7, <3>1 DEF BusyOK, Queued
  <2>9. DeadlockTypeOK'
    BY <2>5, <2>7, TypesSplit, PTL
  <2> QED
    BY <2>5, <2>7, <2>8, <2>9 DEF DeadlockInv
<1>6. CASE /\ upgrading[s] # {}
           /\ progress' = [progress EXCEPT ![t] = "aborting"]
           /\ UNCHANGED <<held, upgrading>>
  <2>0. UNCHANGED <<held, upgrading, queue, age, retry_age, ids, gaveway>>
    BY <1>6 DEF Upgrade
  <2>1. LocksTyped' /\ LocksOK'
    BY <1>0, <2>0, LocksStay
  <2>2. RestTyped'
    BY <1>0, <1>6, <2>0 DEF RestTyped, Progress
  <2>3. progress[t] = "running" /\ \A x \in Tx :
            progress'[x] = IF x = t THEN "aborting" ELSE progress[x]
    BY <1>0, <1>6 DEF RestTyped, Upgrade
  <2>4. \A x \in Tx : Busy(x)' = Busy(x)
    BY <2>3 DEF Busy
  <2>5. BusyOK'
    BY <1>0, <2>0, <2>4 DEF BusyOK, Queued
  <2>6. AgesOK'
    BY <1>0, <2>0 DEF AgesOK
  <2>8. LastingOK'
    BY <1>0, <2>0 DEF LastingOK
  <2>9. DeadlockTypeOK'
    BY <2>1, <2>2, TypesSplit, PTL
  <2> QED
    BY <2>1, <2>5, <2>6, <2>8, <2>9 DEF DeadlockInv
<1> QED
  BY <1>4, <1>5, <1>6 DEF Upgrade

\* A release, with the grants it leads to, keeps the invariant.
LEMMA ReleaseAtStep ==
    ASSUME DeadlockInv, NEW t \in Tx, NEW s \in Resource, ReleaseAt(t, s)
    PROVE  DeadlockInv'
<1>0. /\ LocksTyped /\ RestTyped /\ LocksOK /\ BusyOK /\ AgesOK /\ LastingOK
      /\ DeadlockTypeOK
  BY TypesSplit DEF DeadlockInv
<1>1. PICK g : g = Without(s, t)
  OBVIOUS
<1>2. Outcome(held[s], upgrading[s], queue[s], g)
  BY <1>0, <1>1, WithoutOK
<1>3. LockBecomes(s, g.h, g.u, g.q)
  BY <1>1 DEF ReleaseAt, LockBecomes
<1>4. /\ LocksTyped' /\ LocksOK' /\ held'[s] = g.h /\ queue'[s] = g.q
      /\ \A r \in Resource \ {s} : held'[r] = held[r] /\ queue'[r] = queue[r]
  <2>1. /\ g.h \in Holds /\ g.u \in SUBSET Tx /\ g.q \in Seq(Waiter)
        /\ Proper(g.h, g.u, g.q) /\ Settled(g.h, g.u, g.q)
    BY <1>2 DEF Outcome
  <2> QED
    BY <1>0, <1>3, <2>1, LockStep
<1>5. UNCHANGED <<age, retry_age, progress, ids, gaveway>>
  BY DEF ReleaseAt
<1>6. /\ AgesOK' /\ LastingOK' /\ RestTyped' /\ \A x \in Tx : Busy(x)' = Busy(x)
      /\ \A x \in Tx : Busy(x)' => age'[x] # 0
  BY <1>0, <1>5, AgesStay
<1>7. ASSUME NEW r \in Resource, NEW x \in Tx,
             held'[r][x] # "none" \/ Queued(r, x)'
      PROVE  held[r][x] # "none" \/ Queued(r, x)
  <2>1. CASE r = s
    <3>1. g.h[x] # "none" \/ \E j \in 1..Len(g.q) : g.q[j].tx = x
      BY <1>4, <1>7, <2>1 DEF Queued
    <3>2. /\ g.h[x] # "none" => held[s][x] # "none"
                \/ \E i \in 1..Len(queue[s]) : queue[s][i].tx = x
          /\ \A j \in 1..Len(g.q) : \E i \in 1..Len(queue[s]) :
                g.q[j] = queue[s][i]
      BY <1>2 DEF Outcome
    <3>3. held[s][x] # "none" \/ \E i \in 1..Len(queue[s]) : queue[s][i].tx = x
      BY <3>1, <3>2
    <3> QED
      BY <2>1, <3>3 DEF Queued
  <2>2. CASE r # s
    BY <1>4, <1>7, <2>2 DEF Queued
  <2> QED
    BY <2>1, <2>2
<1>8. BusyOK'
  BY <1>0, <1>6, <1>7 DEF BusyOK
<1>9. DeadlockTypeOK'
  BY <1>4, <1>6, TypesSplit, PTL
<1> QED
  BY <1>4, <1>6, <1>8, <1>9 DEF DeadlockInv

\* A transaction that begins, with the age of its first attempt, keeps the
\* invariant.
LEMMA BeginTxStep ==
    ASSUME DeadlockInv, NEW t \in Tx, BeginTx(t)
    PROVE  DeadlockInv'
<1>0. LocksTyped /\ RestTyped /\ LocksOK /\ BusyOK /\ AgesOK /\ LastingOK
  BY TypesSplit DEF DeadlockInv
<1>1. /\ UNCHANGED <<held, upgrading, queue, retry_age>>
      /\ ids' = ids + 1 /\ ids < MaxAge /\ gaveway' \subseteq gaveway
  BY DEF BeginTx
<1>2. LocksTyped' /\ LocksOK'
  BY <1>0, <1>1, LocksStay
<1>3. /\ MaxAge \in Nat /\ ids \in 0..MaxAge
      /\ \A x \in Tx : age[x] \in 0..MaxAge /\ retry_age[x] \in 0..MaxAge
  BY <1>0, DeadlockAssumption DEF RestTyped
<1>4. PICK a \in 1..MaxAge :
          a = Age(t) /\ a = (IF retry_age[t] # 0 THEN retry_age[t] ELSE ids + 1)
  BY <1>1, <1>3 DEF Age
<1>5. /\ RestTyped'
      /\ \A x \in Tx : age'[x] = IF x = t THEN a ELSE age[x]
      /\ \A x \in Tx : progress'[x] = IF x = t THEN "running" ELSE progress[x]
  <2>1. age' = [age EXCEPT ![t] = a]
    BY <1>4 DEF BeginTx
  <2>2. progress' = [progress EXCEPT ![t] = "running"]
    BY DEF BeginTx
  <2>3. /\ age' \in [Tx -> 0..MaxAge]
        /\ \A x \in Tx : age'[x] = IF x = t THEN a ELSE age[x]
    BY <1>0, <1>3, <2>1 DEF RestTyped
  <2>4. /\ progress' \in [Tx -> Progress]
        /\ \A x \in Tx : progress'[x] = IF x = t THEN "running" ELSE progress[x]
    BY <1>0, <2>2 DEF RestTyped, Progress
  <2>5. ids' \in 0..MaxAge
    BY <1>1, <1>3
  <2> QED
    BY <1>0, <1>1, <2>3, <2>4, <2>5 DEF RestTyped
<1>6. BusyOK'
  BY <1>0, <1>1, <1>4, <1>5 DEF BusyOK, Busy, Queued
<1>7. AgesOK'
  <2>1. \A x \in Tx : age'[x] <= ids' /\ retry_age'[x] <= ids'
    BY <1>0, <1>1, <1>3, <1>4, <1>5 DEF AgesOK
  <2>2. \A x \in Tx \ {t} : a # age[x] /\ a # retry_age[x]
    BY <1>0, <1>3, <1>4 DEF AgesOK
  <2>3. \A x, y \in Tx : x # y =>
            /\ age'[x] # 0 => age'[x] # age'[y] /\ age'[x] # retry_age'[y]
            /\ retry_age'[x] # 0 => retry_age'[x] # retry_age'[y]
    <3> TAKE x \in Tx, y \in Tx
    <3> HAVE x # y
    <3>1. CASE x = t
      BY <1>0, <1>1, <1>5, <2>2, <3>1 DEF AgesOK
    <3>2. CASE y = t
      BY <1>0, <1>1, <1>5, <2>2, <3>2 DEF AgesOK
    <3>3. CASE x # t /\ y # t
      BY <1>0, <1>1, <1>5, <3>3 DEF AgesOK
    <3> QED
      BY <3>1, <3>2, <3>3
  <2> QED
    BY <2>1, <2>3 DEF AgesOK
<1>9. LastingOK'
  <2>1. \A x \in Tx : retry_age'[x] # 0 => retry_age'[x] = age'[x]
    BY <1>0, <1>1, <1>4, <1>5 DEF LastingOK
  <2>2. ASSUME NEW x \in Tx, NEW y \in Tx, <<x, y>> \in gaveway'
        PROVE  retry_age'[x] # 0 /\ age'[y] # 0 /\ age'[y] < age'[x]
    <3>1. retry_age[x] # 0 /\ age[y] # 0 /\ age[y] < age[x]
      BY <1>0, <1>1, <2>2 DEF LastingOK
    <3>2. age'[x] = age[x]
      BY <1>0, <1>4, <1>5, <3>1 DEF LastingOK
    <3>3. y = t => retry_age[t] # 0
      BY <2>2 DEF BeginTx
    <3>4. age'[y] = age[y]
      BY <1>0, <1>4, <1>5, <3>3 DEF LastingOK
    <3> QED
      BY <1>1, <3>1, <3>2, <3>4
  <2> QED
    BY <2>1, <2>2 DEF LastingOK
<1>10. DeadlockTypeOK'
  BY <1>2, <1>5, TypesSplit, PTL
<1> QED
  BY <1>2, <1>6, <1>7, <1>9, <1>10 DEF DeadlockInv

\* A waiter that leaves a lock's line keeps the locks proper, and is under way
\* until the abort is through.
LEMMA GiveUpStep ==
    ASSUME DeadlockInv, NEW t \in Tx, NEW s \in Resource, GiveUp(t, s)
    PROVE  /\ LocksTyped' /\ LocksOK' /\ BusyOK'
           /\ progress' \in [Tx -> Progress]
           /\ progress[t] = "running" /\ age[t] # 0
<1>0. LocksTyped /\ RestTyped /\ LocksOK /\ BusyOK
  BY TypesSplit DEF DeadlockInv
<1>1. PICK h \in Holds, u \in SUBSET Tx, q \in Seq(Waiter) :
          h = held[s] /\ u = upgrading[s] /\ q = queue[s]
  BY <1>0 DEF LocksTyped
<1>2. Proper(h, u, q) /\ Settled(h, u, q)
  BY <1>0, <1>1 DEF LocksOK
<1> DEFINE u2 == u \ {t}
           q2 == remove_waiter(q, t)
<1>3. u2 \in SUBSET Tx /\ \A x \in u2 : x \in u
  OBVIOUS
<1>4. \A i, j \in 1..Len(q) : q[i].tx = q[j].tx => i = j
  BY <1>2 DEF Proper
<1>5. /\ q2 \in Seq(Waiter) /\ (q2 # <<>> => q # <<>>)
      /\ \A j \in 1..Len(q2) : \E i \in 1..Len(q) : q2[j] = q[i]
      /\ \A i, j \in 1..Len(q2) : q2[i].tx = q2[j].tx => i = j
  BY <1>4, WaiterRemoved
<1>6. LockBecomes(s, h, u2, q2)
  BY <1>0, <1>1 DEF GiveUp, LockBecomes, LocksTyped
<1> HIDE DEF u2, q2
<1>7. \A j \in 1..Len(q2) : h[q2[j].tx] = "none"
  BY <1>2, <1>5 DEF Proper
<1>8. Proper(h, u2, q2)
  BY <1>2, <1>3, <1>5, <1>7 DEF Proper
<1>9. Settled(h, u2, q2)
  BY <1>2, <1>3, <1>5 DEF Settled
<1>10. /\ LocksTyped' /\ LocksOK' /\ held'[s] = h /\ queue'[s] = q2
       /\ \A r \in Resource \ {s} : held'[r] = held[r] /\ queue'[r] = queue[r]
  BY <1>0, <1>3, <1>5, <1>6, <1>8, <1>9, LockStep
<1>11. /\ progress[t] = "running" /\ progress' \in [Tx -> Progress]
       /\ \A x \in Tx : progress'[x] = IF x = t THEN "aborting" ELSE progress[x]
  BY <1>0 DEF GiveUp, RestTyped, Progress
<1>12. \A x \in Tx : Busy(x)' = Busy(x)
  BY <1>11 DEF Busy
<1>13. ASSUME NEW r \in Resource, NEW x \in Tx,
              held'[r][x] # "none" \/ Queued(r, x)'
       PROVE  held[r][x] # "none" \/ Queued(r, x)
  <2>1. CASE r = s
    <3>1. h[x] # "none" \/ \E j \in 1..Len(q2) : q2[j].tx = x
      BY <1>10, <1>13, <2>1 DEF Queued
    <3>2. h[x] # "none" \/ \E i \in 1..Len(q) : q[i].tx = x
      BY <1>5, <3>1
    <3> QED
      BY <1>1, <2>1, <3>2 DEF Queued
  <2>2. CASE r # s
    BY <1>10, <1>13, <2>2 DEF Queued
  <2> QED
    BY <2>1, <2>2
<1>14. UNCHANGED age
  BY DEF GiveUp
<1>15. BusyOK'
  BY <1>0, <1>12, <1>13, <1>14 DEF BusyOK
<1>16. age[t] # 0
  BY <1>0, <1>11 DEF BusyOK, Busy
<1> QED
  BY <1>10, <1>11, <1>15, <1>16

\* The deadline of a wait, from which the caller learns no age, keeps the
\* invariant.
LEMMA DeadlineElapsedStep ==
    ASSUME DeadlockInv, NEW t \in Tx, NEW s \in Resource, DeadlineElapsed(t, s)
    PROVE  DeadlockInv'
<1>0. LocksTyped /\ RestTyped /\ LocksOK /\ BusyOK /\ AgesOK /\ LastingOK
  BY TypesSplit DEF DeadlockInv
<1>1. LocksTyped' /\ LocksOK' /\ BusyOK' /\ progress' \in [Tx -> Progress]
  BY GiveUpStep DEF DeadlineElapsed
<1>2. UNCHANGED <<age, retry_age, ids, gaveway>>
  BY DEF DeadlineElapsed, GiveUp
<1>3. RestTyped'
  BY <1>0, <1>1, <1>2 DEF RestTyped
<1>4. AgesOK' /\ LastingOK'
  BY <1>0, <1>2 DEF AgesOK, LastingOK
<1>5. DeadlockTypeOK'
  BY <1>1, <1>3, TypesSplit, PTL
<1> QED
  BY <1>1, <1>4, <1>5 DEF DeadlockInv

\* The end of a grace period, at which one may give up, keeps the invariant.
LEMMA GraceElapsedStep ==
    ASSUME DeadlockInv, NEW t \in Tx, NEW s \in Resource, GraceElapsed(t, s)
    PROVE  DeadlockInv'
<1>0. LocksTyped /\ RestTyped /\ LocksOK /\ BusyOK /\ AgesOK /\ LastingOK
  BY TypesSplit DEF DeadlockInv
<1>1. UNCHANGED <<held, age, ids>>
  BY DEF GraceElapsed, GiveUp
<1>2. /\ LocksTyped' /\ LocksOK' /\ BusyOK' /\ progress' \in [Tx -> Progress]
      /\ progress[t] = "running" /\ age[t] # 0
  BY GiveUpStep DEF GraceElapsed
<1>3. /\ MaxAge \in Nat /\ ids \in 0..MaxAge
      /\ \A x \in Tx : age[x] \in 0..MaxAge /\ retry_age[x] \in 0..MaxAge
  BY <1>0, DeadlockAssumption DEF RestTyped
<1>5. /\ retry_age' \in [Tx -> 0..MaxAge]
      /\ \A x \in Tx : retry_age'[x] =
            IF x = t /\ retry_age[t] = 0 THEN age[t] ELSE retry_age[x]
  BY <1>0, <1>3 DEF GraceElapsed, RestTyped
<1>6. /\ gaveway' \subseteq Tx \X Tx
      /\ \A x, y \in Tx : <<x, y>> \in gaveway' =>
            \/ <<x, y>> \in gaveway
            \/ x = t /\ held[s][y] # "none" /\ age[y] < age[x]
  BY <1>0 DEF GraceElapsed, RestTyped, holders
<1>7. RestTyped'
  BY <1>0, <1>1, <1>2, <1>5, <1>6 DEF RestTyped
<1>10. AgesOK'
  <2>1. \A x \in Tx : age'[x] <= ids' /\ retry_age'[x] <= ids'
    BY <1>0, <1>1, <1>5 DEF AgesOK
  <2>2. \A x \in Tx \ {t} : age[t] # age[x] /\ age[t] # retry_age[x]
    BY <1>0, <1>2 DEF AgesOK
  <2>3. \A x, y \in Tx : x # y =>
            /\ age[x] # 0 => age[x] # age[y] /\ age[x] # retry_age'[y]
            /\ retry_age'[x] # 0 => retry_age'[x] # retry_age'[y]
    <3> TAKE x \in Tx, y \in Tx
    <3> HAVE x # y
    <3>1. CASE x = t
      BY <1>0, <1>5, <2>2, <3>1 DEF AgesOK
    <3>2. CASE y = t
      BY <1>0, <1>5, <2>2, <3>2 DEF AgesOK
    <3>3. CASE x # t /\ y # t
      BY <1>0, <1>5, <3>3 DEF AgesOK
    <3> QED
      BY <3>1, <3>2, <3>3
  <2> QED
    BY <1>1, <2>1, <2>3 DEF AgesOK
<1>11. LastingOK'
  <2>1. \A x \in Tx : retry_age'[x] # 0 => retry_age'[x] = age[x]
    BY <1>0, <1>5 DEF LastingOK
  <2>2. ASSUME NEW x \in Tx, NEW y \in Tx, <<x, y>> \in gaveway'
        PROVE  retry_age'[x] # 0 /\ age[y] # 0 /\ age[y] < age[x]
    <3>1. CASE <<x, y>> \in gaveway
      BY <1>0, <1>2, <1>5, <3>1 DEF LastingOK
    <3>2. CASE x = t /\ held[s][y] # "none" /\ age[y] < age[x]
      BY <1>0, <1>2, <1>5, <3>2 DEF BusyOK
    <3> QED
      BY <1>6, <2>2, <3>1, <3>2
  <2> QED
    BY <1>1, <2>1, <2>2 DEF LastingOK
<1>12. DeadlockTypeOK'
  BY <1>2, <1>7, TypesSplit, PTL
<1> QED
  BY <1>2, <1>10, <1>11, <1>12 DEF DeadlockInv

\* A commit keeps the invariant.
LEMMA CommitTxStep ==
    ASSUME DeadlockInv, NEW t \in Tx, CommitTx(t)
    PROVE  DeadlockInv'
<1>0. LocksTyped /\ RestTyped /\ LocksOK /\ BusyOK /\ AgesOK /\ LastingOK
  BY TypesSplit DEF DeadlockInv
<1>1. UNCHANGED <<held, upgrading, queue, age, retry_age, ids, gaveway>>
  BY DEF CommitTx
<1>2. LocksTyped' /\ LocksOK'
  BY <1>0, <1>1, LocksStay
<1>3. /\ progress[t] = "running" /\ progress' \in [Tx -> Progress]
      /\ \A x \in Tx : progress'[x] = IF x = t THEN "committing" ELSE progress[x]
  BY <1>0 DEF CommitTx, RestTyped, Progress
<1>4. RestTyped' /\ \A x \in Tx : Busy(x)' = Busy(x)
  BY <1>0, <1>1, <1>3 DEF RestTyped, Busy
<1>5. BusyOK'
  BY <1>0, <1>1, <1>4 DEF BusyOK, Queued
<1>6. AgesOK'
  BY <1>0, <1>1 DEF AgesOK
<1>7. LastingOK'
  BY <1>0, <1>1, <1>3 DEF LastingOK
<1>8. DeadlockTypeOK'
  BY <1>2, <1>4, TypesSplit, PTL
<1> QED
  BY <1>2, <1>5, <1>6, <1>7, <1>8 DEF DeadlockInv

\* The end of a transaction keeps the invariant.
LEMMA EndTxStep ==
    ASSUME DeadlockInv, NEW t \in Tx, EndTx(t)
    PROVE  DeadlockInv'
<1>0. LocksTyped /\ RestTyped /\ LocksOK /\ BusyOK /\ AgesOK /\ LastingOK
  BY TypesSplit DEF DeadlockInv
<1>1. UNCHANGED <<held, upgrading, queue, age, retry_age, ids, gaveway>>
  BY DEF EndTx
<1>2. LocksTyped' /\ LocksOK'
  BY <1>0, <1>1, LocksStay
<1>3. /\ progress[t] \in {"aborting", "committing"}
      /\ progress' \in [Tx -> Progress]
      /\ \A x \in Tx : progress'[x] =
            IF x = t THEN (IF progress[t] = "aborting" THEN "idle" ELSE "committed")
                     ELSE progress[x]
  BY <1>0 DEF EndTx, RestTyped, Progress
<1>4. RestTyped' /\ \A x \in Tx \ {t} : Busy(x)' = Busy(x)
  BY <1>0, <1>1, <1>3 DEF RestTyped, Busy
<1>5. \A r \in Resource : held[r][t] = "none" /\ ~Queued(r, t)
  BY DEF EndTx, Waiting
<1>6. ~Busy(t)'
  BY <1>3 DEF Busy
<1>7. BusyOK'
  <2>1. \A r \in Resource, x \in Tx :
            held'[r][x] # "none" \/ Queued(r, x)' => Busy(x)'
    BY <1>0, <1>1, <1>4, <1>5 DEF BusyOK, Queued
  <2>2. \A x \in Tx : Busy(x)' => age'[x] # 0
    BY <1>0, <1>1, <1>4, <1>6 DEF BusyOK
  <2> QED
    BY <2>1, <2>2 DEF BusyOK
<1>8. AgesOK'
  BY <1>0, <1>1 DEF AgesOK
<1>9. LastingOK'
  BY <1>0, <1>1, <1>3 DEF LastingOK
<1>10. DeadlockTypeOK'
  BY <1>2, <1>4, TypesSplit, PTL
<1> QED
  BY <1>2, <1>7, <1>8, <1>9, <1>10 DEF DeadlockInv

-----------------------------------------------------------------------------
(* Theorems.                                                               *)

\* The invariant holds at the start and every step keeps it.
THEOREM DeadlockInvariance == DeadlockSpec => []DeadlockInv
<1>1. DeadlockInit => DeadlockInv
  <2> SUFFICES ASSUME DeadlockInit PROVE DeadlockInv
    OBVIOUS
  <2>1. DeadlockTypeOK
    BY DeadlockAssumption DEF DeadlockInit, DeadlockTypeOK, Progress
  <2>2. LocksOK
    BY DEF DeadlockInit, LocksOK, Proper, Settled
  <2>3. BusyOK
    BY DEF DeadlockInit, BusyOK, Busy, Queued
  <2>4. AgesOK /\ LastingOK
    BY DEF DeadlockInit, AgesOK, LastingOK
  <2> QED
    BY <2>1, <2>2, <2>3, <2>4 DEF DeadlockInv
<1>2. DeadlockInv /\ [DeadlockNext]_deadlockVars => DeadlockInv'
  <2> SUFFICES ASSUME DeadlockInv, [DeadlockNext]_deadlockVars
               PROVE  DeadlockInv'
    OBVIOUS
  <2>1. CASE DeadlockNext
    <3>1. PICK t \in Tx : TxStep(t)
      BY <2>1 DEF DeadlockNext
    <3> QED
      BY <3>1, BeginTxStep, CommitTxStep, EndTxStep, AcquireStep, UpgradeStep,
         GraceElapsedStep, DeadlineElapsedStep, ReleaseAtStep DEF TxStep
  <2>2. CASE UNCHANGED deadlockVars
    BY <2>2 DEF deadlockVars, DeadlockInv, DeadlockTypeOK, LocksOK, BusyOK,
                Busy, Queued, AgesOK, LastingOK
  <2> QED
    BY <2>1, <2>2
<1> QED
  BY <1>1, <1>2, PTL DEF DeadlockSpec

\* Of the transactions under way the youngest waits for an older holder: whoever
\* holds it up holds a lock, so it is under way, and no two are of one age.
LEMMA YoungestGivesWay == DeadlockInv => CycleBroken
<1> SUFFICES ASSUME DeadlockInv,
                    NEW busy, busy = {t \in Tx : progress[t] \notin {"idle", "committed"}},
                    busy # {}, \A t \in busy : Stuck(t)
             PROVE  \E t \in busy, s \in Resource :
                        Waiting(s, t) /\ PresumedDeadlock(s, t)
  BY DEF CycleBroken
<1>0. LocksTyped /\ RestTyped /\ LocksOK /\ BusyOK /\ AgesOK
  BY TypesSplit DEF DeadlockInv
<1>1. /\ MaxAge \in Nat
      /\ \A t \in Tx : age[t] \in 0..MaxAge
  BY <1>0, DeadlockAssumption DEF RestTyped
<1>2. \A t \in Tx : t \in busy <=> Busy(t)
  BY <1>0 DEF RestTyped, Busy, Progress
<1>3. PICK y \in busy : \A t \in busy : age[t] <= age[y]
  <2> DEFINE S == {MaxAge - age[t] : t \in busy}
  <2>1. S \in SUBSET Nat /\ S # {}
    BY <1>1
  <2>2. PICK x \in S : \A z \in S : x <= z
    <3> HIDE DEF S
    <3> QED
      BY <2>1, Least
  <2>3. PICK y \in busy : x = MaxAge - age[y]
    BY <2>2
  <2>4. \A t \in busy : MaxAge - age[y] <= MaxAge - age[t]
    BY <2>2, <2>3
  <2> QED
    BY <1>1, <2>4
<1>4. PICK s \in Resource : Waiting(s, y)
  BY DEF Stuck
<1>5. Proper(held[s], upgrading[s], queue[s])
      /\ Settled(held[s], upgrading[s], queue[s])
  BY <1>0 DEF LocksOK
<1>6. PICK h \in Tx : h # y /\ held[s][h] # "none"
  <2>1. CASE y \in upgrading[s]
    BY <1>5, <2>1 DEF Settled
  <2>2. CASE Queued(s, y)
    <3>1. PICK i \in 1..Len(queue[s]) : queue[s][i].tx = y
      BY <2>2 DEF Queued
    <3>2. held[s][y] = "none"
      BY <1>5, <3>1 DEF Proper
    <3>3. queue[s] # <<>>
      BY <3>1
    <3>4. \E h \in Tx : held[s][h] # "none"
      BY <1>5, <3>3 DEF Settled
    <3> QED
      BY <3>2, <3>4
  <2> QED
    BY <1>4, <2>1, <2>2 DEF Waiting
<1>7. h \in busy /\ age[h] # 0
  BY <1>0, <1>2, <1>6 DEF BusyOK
<1>8. age[h] < age[y]
  <2>1. age[h] # age[y] /\ age[h] <= age[y]
    BY <1>0, <1>3, <1>6, <1>7 DEF AgesOK
  <2> QED
    BY <1>1, <1>6, <2>1
<1> QED
  BY <1>4, <1>6, <1>8 DEF PresumedDeadlock, holders

\* For any transactions, states and demands: when all that is under way waits,
\* someone waits for an older holder and gives way, and of two transactions it
\* is always the same one (_abort_if_presumed_deadlock, transaction.age).
THEOREM Resolution == DeadlockSpec => []DeadlockResolved
<1>1. DeadlockInv => DeadlockResolved
  <2> SUFFICES ASSUME DeadlockInv PROVE DeadlockResolved
    OBVIOUS
  <2>1. CycleBroken
    BY YoungestGivesWay
  <2>2. NoMutualGivingWay
    <3> SUFFICES ASSUME NEW t \in Tx, NEW u \in Tx,
                        <<t, u>> \in gaveway, <<u, t>> \in gaveway
                 PROVE  FALSE
      BY Zenon DEF NoMutualGivingWay
    <3>1. age[u] < age[t] /\ age[t] < age[u]
      BY DEF DeadlockInv, LastingOK
    <3>2. age[t] \in 0..MaxAge /\ age[u] \in 0..MaxAge
      BY DEF DeadlockInv, DeadlockTypeOK
    <3> QED
      BY <3>1, <3>2, DeadlockAssumption
  <2> QED
    BY <2>1, <2>2 DEF DeadlockInv, DeadlockResolved
<1> QED
  BY <1>1, DeadlockInvariance, PTL

-----------------------------------------------------------------------------
(* The invariant of nested transactions that wait for each other's states. *)

Ids == 0..MaxIds
Snapshot == [ids : Seq(Ids), owner : Seq(Ids)]

SiblingTyped ==
    /\ id \in [Node -> Ids] /\ last_id \in Ids /\ finished \in SUBSET Node
    /\ claimed \in [Node -> SUBSET State] /\ participants \in [Node -> SUBSET State]
    /\ owner_of \in [State -> Seq(Ids)] /\ snaps \in [State -> Seq(Snapshot)]
    /\ mail \in SUBSET [id : 1..MaxIds, state : State, aborted : BOOLEAN]

\* Ids are handed out once.  A call has one only while its caller has, and
\* the caller does not return before it.
CallsOK ==
    /\ \A n \in Node : id[n] <= last_id
    /\ \A m, n \in Node : id[m] = id[n] /\ id[n] # 0 => m = n
    /\ \A n \in finished : id[n] # 0
    /\ \A n \in Node : id[n] # 0 /\ Up[n] # Top => id[Up[n]] # 0
    /\ \A n \in Node : Up[n] \in finished => n \in finished

\* One chain begins the other.
Begins(a, b) == Len(a) <= Len(b) /\ \A k \in 1..Len(a) : a[k] = b[k]

\* The ids that are known so far; a nested one has one chain that leads to it.
ChainLike(a, last) ==
    /\ a \in Seq(Ids)
    /\ Len(a) >= 1 => a[1] = RootId
    /\ \A k \in 2..Len(a) : a[k] \in 1..last
Agree(a, b) ==
    \A i \in 2..Len(a), j \in 2..Len(b) :
        a[i] = b[j] => i = j /\ \A k \in 1..i : a[k] = b[k]

Known ==
    {transaction_ids_of(n) : n \in {m \in Node : id[m] # 0}}
    \cup {owner_of[s] : s \in State}
    \cup UNION {{snaps[s][i].ids : i \in 1..Len(snaps[s])} : s \in State}
ChainsOK ==
    /\ \A a \in Known : ChainLike(a, last_id)
    /\ \A a, b \in Known : Agree(a, b)

\* Whoever owns a state, or owned it when a snapshot was taken, has a
\* snapshot of its own, or of a call within it, further down.
Backed(owners, taken, i) ==
    \A k \in 2..Len(owners) : \E j \in 1..(i - 1) : Has(taken[j].ids, owners[k])
SnapsOK ==
    \A s \in State :
        /\ Backed(owner_of[s], snaps[s], Len(snaps[s]) + 1)
        /\ \A i \in 1..Len(snaps[s]) :
              /\ Begins(snaps[s][i].owner, snaps[s][i].ids)
              /\ Backed(snaps[s][i].owner, snaps[s], i)

\* Owners of a state, now or in a snapshot.
Owners(s) == {owner_of[s]} \cup {snaps[s][i].owner : i \in 1..Len(snaps[s])}
Returns(x, s) == \E r \in mail : r.id = x /\ r.state = s
Accounted(x, s) == (\E n \in Node : Running(n) /\ id[n] = x) \/ Returns(x, s)

\* An owner that runs will relinquish the state; one that does not has a
\* request on its way, for as long as it owns the state.
OwnersOK ==
    \A s \in State : \A o \in Owners(s) : Len(o) > 1 =>
        /\ \A n \in Node : Running(n) /\ id[n] = o[Len(o)] => s \in participants[n]
        /\ Begins(o, owner_of[s]) => Accounted(o[Len(o)], s)

\* What is on its way is of calls that ended; the caller of one, if it runs,
\* will relinquish the state as well, and if one that returned is the owner,
\* the caller is accounted for.
MailRow(r) ==
    /\ r.id <= last_id /\ \A n \in Node : Running(n) => id[n] # r.id
    /\ \A k \in 3..Len(owner_of[r.state]) : owner_of[r.state][k] = r.id =>
          /\ \A n \in Node : Running(n) /\ id[n] = owner_of[r.state][k - 1]
                => r.state \in participants[n]
          /\ ~r.aborted => Accounted(owner_of[r.state][k - 1], r.state)
MailOK == \A r \in mail : MailRow(r)

SiblingInv ==
    /\ SiblingTyped /\ CallsOK /\ ChainsOK /\ SnapsOK /\ OwnersOK /\ MailOK
    /\ OldestProceeds

\* Nobody claims what it does not want.
ClaimsOK == \A n \in Node : claimed[n] \subseteq Wants[n]
-----------------------------------------------------------------------------
(* The tree of calls.                                                      *)

\* The defining equation of chain, for the calls in T.
ChainEq(f, T) == f = [n \in T |-> IF n = Top THEN <<RootId>> ELSE Append(f[Up[n]], n)]

\* The equation has a solution, for no call is made within itself.
LEMMA ChainExists == \E f : ChainEq(f, Node \cup {Top})
<1>1. PICK depth \in [Node \cup {Top} -> 0..Cardinality(Node)] :
        \A n \in Node : depth[Up[n]] < depth[n]
  BY CallTreeAssumption
<1>2. Cardinality(Node) \in Nat BY CallTreeAssumption, FS_CardinalityType
<1> DEFINE Upto(d) == {n \in Node \cup {Top} : n = Top \/ depth[n] < d}
           Bad == {d \in Nat : ~\E f : ChainEq(f, Upto(d))}
<1>3. Bad = {}
  <2> SUFFICES ASSUME Bad # {} PROVE FALSE OBVIOUS
  <2>1. PICK d \in Bad : \A k \in Bad : d <= k
    <3>1. Bad \in SUBSET Nat OBVIOUS
    <3> HIDE DEF Bad
    <3> QED BY <3>1, Least
  <2>2. d \in Nat /\ ~\E f : ChainEq(f, Upto(d)) OBVIOUS
  <2>3. CASE d = 0
    <3>1. Upto(0) = {Top} BY <1>1, <1>2
    <3>2. ChainEq([n \in {Top} |-> <<RootId>>], {Top}) BY DEF ChainEq
    <3> QED BY <2>2, <2>3, <3>1, <3>2
  <2>4. CASE d # 0
    <3>1. PICK k \in Nat : d = k + 1 BY <2>2, <2>4
    <3>2. k \notin Bad
      <4> HIDE DEF Bad
      <4> QED BY <2>1, <3>1
    <3>3. PICK f : ChainEq(f, Upto(k)) BY <3>2
    <3> DEFINE g == [n \in Upto(d) |->
                        IF n = Top THEN <<RootId>> ELSE Append(f[Up[n]], n)]
    <3>4. ASSUME NEW n \in Upto(d), n # Top PROVE Up[n] \in Upto(k)
      BY <1>1, <1>2, <3>1, <3>4, SiblingAssumption
    <3>5. ASSUME NEW n \in Upto(k) PROVE n \in Upto(d) /\ g[n] = f[n]
      <4>1. n \in Upto(d) BY <1>1, <1>2, <3>1
      <4>2. f[n] = IF n = Top THEN <<RootId>> ELSE Append(f[Up[n]], n)
        <5> HIDE DEF Upto
        <5> QED BY <3>3 DEF ChainEq
      <4> QED BY <4>1, <4>2
    <3>6. \A n \in Upto(d) : n # Top => g[Up[n]] = f[Up[n]]
      <4> HIDE DEF Upto, g
      <4> QED BY <3>4, <3>5
    <3>7. g = [n \in Upto(d) |-> IF n = Top THEN <<RootId>> ELSE Append(g[Up[n]], n)]
      <4> SUFFICES \A n \in Upto(d) :
             (IF n = Top THEN <<RootId>> ELSE Append(f[Up[n]], n))
              = (IF n = Top THEN <<RootId>> ELSE Append(g[Up[n]], n))
        <5> HIDE DEF Upto
        <5> QED OBVIOUS
      <4> HIDE DEF Upto, g
      <4> QED BY <3>6
    <3>8. ChainEq(g, Upto(d))
      <4> HIDE DEF g, Upto
      <4> QED BY <3>7 DEF ChainEq
    <3> HIDE DEF g, Upto
    <3> QED BY <2>2, <3>8
  <2> QED BY <2>3, <2>4
<1>4. Cardinality(Node) + 1 \in Nat /\ Cardinality(Node) + 1 \notin Bad
  <2> HIDE DEF Bad
  <2> QED BY <1>2, <1>3
<1>5. \E f : ChainEq(f, Upto(Cardinality(Node) + 1))
  <2> HIDE DEF Upto
  <2> QED BY <1>4
<1>6. Upto(Cardinality(Node) + 1) = Node \cup {Top} BY <1>1, <1>2
<1> HIDE DEF Upto, Bad
<1> QED BY <1>5, <1>6

\* So it holds of chain.
LEMMA ChainIs ==
    \A n \in Node \cup {Top} :
        chain[n] = IF n = Top THEN <<RootId>> ELSE Append(chain[Up[n]], n)
<1>1. chain = CHOOSE f : ChainEq(f, Node \cup {Top})
  BY Zenon DEF chain, ChainEq
<1>2. ChainEq(chain, Node \cup {Top}) BY <1>1, ChainExists, Zenon
<1> HIDE DEF chain
<1>3. PICK f : f = chain OBVIOUS
<1>4. f = [n \in Node \cup {Top} |-> IF n = Top THEN <<RootId>> ELSE Append(f[Up[n]], n)]
  BY <1>2, <1>3 DEF ChainEq
<1>5. ASSUME NEW n \in Node \cup {Top}
      PROVE  f[n] = IF n = Top THEN <<RootId>> ELSE Append(f[Up[n]], n)
  BY <1>4
<1> QED BY <1>3, <1>5

Level(n) == Len(chain[n])

\* What precedes a call in its chain are the calls around it, the outermost
\* at level 2, each with a chain of its own.
Placed(n) ==
    /\ chain[n] \in Seq(Node \cup {RootId}) /\ Level(n) >= 2 /\ chain[n][Level(n)] = n
    /\ Up[n] = Top => Level(n) = 2
    /\ Up[n] # Top =>
          /\ Level(n) = Level(Up[n]) + 1
          /\ \A k \in 1..Level(Up[n]) : chain[n][k] = chain[Up[n]][k]
    /\ \A k \in 2..Level(n) :
          /\ chain[n][k] \in Node /\ Level(chain[n][k]) = k
          /\ \A j \in 1..k : chain[chain[n][k]][j] = chain[n][j]

\* The place of a call follows from that of its caller.
LEMMA PlacedBelow ==
    ASSUME NEW n \in Node, Up[n] # Top => Placed(Up[n])
    PROVE  Placed(n)
<1>1. Up[n] \in Node \cup {Top} /\ n # Top BY SiblingAssumption
<1>2. chain[n] = Append(chain[Up[n]], n) /\ chain[Top] = <<RootId>> BY <1>1, ChainIs
<1> HIDE DEF chain
<1>3. PICK c : c = chain[n] OBVIOUS
<1>4. PICK q \in Seq(Node \cup {RootId}) : q = chain[Up[n]]
  <2>1. <<RootId>> \in Seq(Node \cup {RootId}) OBVIOUS
  <2> QED BY <1>1, <1>2, <2>1 DEF Placed
<1>5. /\ c \in Seq(Node \cup {RootId}) /\ Len(c) = Len(q) + 1
      /\ \A i \in 1..Len(q) : c[i] = q[i]
      /\ c[Len(q) + 1] = n
  BY <1>2, <1>3, <1>4, AppendProperties
<1>6. Len(q) \in Nat BY <1>4, LenProperties
<1>7. CASE Up[n] = Top
  <2>1. Len(q) = 1 BY <1>2, <1>4, <1>7
  <2>2. Len(c) = 2 /\ c[2] = n BY <1>5, <2>1
  <2>3. \A k \in 2..2 : k = 2 OBVIOUS
  <2> QED BY <1>3, <1>5, <1>7, <2>2, <2>3 DEF Placed, Level
<1>8. CASE Up[n] # Top
  <2>1. Placed(Up[n]) /\ Len(q) >= 2 BY <1>4, <1>8 DEF Placed, Level
  <2>2. ASSUME NEW k \in 2..Len(c)
        PROVE  /\ c[k] \in Node /\ Level(c[k]) = k
               /\ \A j \in 1..k : chain[c[k]][j] = c[j]
    <3>1. CASE k = Len(c)
      <4>1. c[k] = n BY <1>5, <3>1
      <4> QED BY <1>3, <3>1, <4>1 DEF Level
    <3>2. CASE k # Len(c)
      <4>1. k \in 2..Len(q) /\ k \in 1..Len(q) BY <1>5, <1>6, <3>2
      <4>2. c[k] = q[k] BY <1>5, <4>1
      <4>3. /\ q[k] \in Node /\ Level(q[k]) = k
            /\ \A j \in 1..k : chain[q[k]][j] = q[j]
        BY <1>4, <2>1, <4>1 DEF Placed, Level
      <4>4. \A j \in 1..k : c[j] = q[j] BY <1>5, <1>6, <4>1
      <4> QED BY <4>2, <4>3, <4>4
    <3> QED BY <3>1, <3>2
  <2>3. Len(c) >= 2 /\ c[Len(c)] = n /\ Len(c) = Level(Up[n]) + 1
        /\ \A k \in 1..Level(Up[n]) : c[k] = chain[Up[n]][k]
    BY <1>4, <1>5, <1>6, <2>1 DEF Level
  <2> QED BY <1>3, <1>5, <1>8, <2>2, <2>3 DEF Placed, Level
<1> QED BY <1>7, <1>8

\* Every call has a place in the tree.
LEMMA Places == \A n \in Node : Placed(n)
<1>1. PICK depth \in [Node \cup {Top} -> 0..Cardinality(Node)] :
        \A n \in Node : depth[Up[n]] < depth[n]
  BY CallTreeAssumption
<1>2. Cardinality(Node) \in Nat BY CallTreeAssumption, FS_CardinalityType
<1> SUFFICES ASSUME NEW u \in Node, ~Placed(u) PROVE FALSE OBVIOUS
<1> DEFINE Bad == {d \in Nat : \E n \in Node : ~Placed(n) /\ depth[n] = d}
<1>3. depth[u] \in Bad BY <1>1, <1>2
<1>4. PICK d \in Bad : \A k \in Bad : d <= k
  <2>1. Bad \in SUBSET Nat /\ Bad # {} BY <1>3
  <2> HIDE DEF Bad
  <2> QED BY <2>1, Least
<1>5. PICK n \in Node : ~Placed(n) /\ depth[n] = d OBVIOUS
<1>6. Up[n] # Top /\ ~Placed(Up[n]) BY <1>5, PlacedBelow
<1>7. Up[n] \in Node /\ depth[Up[n]] < d BY <1>1, <1>5, <1>6, SiblingAssumption
<1>8. depth[Up[n]] \in Bad BY <1>1, <1>2, <1>6, <1>7
<1> HIDE DEF Bad
<1>9. d <= depth[Up[n]] BY <1>4, <1>8
<1>10. depth[Up[n]] \in Nat /\ d \in Nat BY <1>1, <1>2, <1>5, <1>7
<1> QED BY <1>7, <1>9, <1>10

\* A set of calls that holds the callers of its calls holds all that is
\* around them.
LEMMA Upwards ==
    ASSUME NEW S \in SUBSET Node, \A n \in S : Up[n] # Top => Up[n] \in S
    PROVE  \A n \in S : \A k \in 2..Level(n) : chain[n][k] \in S
<1> HIDE DEF chain
<1> SUFFICES ASSUME NEW u \in S, NEW v \in 2..Level(u), chain[u][v] \notin S PROVE FALSE
  OBVIOUS
<1>0. \A n \in Node : Level(n) \in Nat BY Places, LenProperties DEF Placed, Level
<1> DEFINE Bad == {d \in Nat : \E n \in S : Level(n) = d /\
                       \E k \in 2..Level(n) : chain[n][k] \notin S}
<1>1. Level(u) \in Bad BY <1>0
<1>2. PICK d \in Bad : \A k \in Bad : d <= k
  <2>1. Bad \in SUBSET Nat /\ Bad # {} BY <1>1
  <2> HIDE DEF Bad
  <2> QED BY <2>1, Least
<1>3. PICK n \in S : Level(n) = d /\ \E k \in 2..Level(n) : chain[n][k] \notin S OBVIOUS
<1>4. PICK k \in 2..Level(n) : chain[n][k] \notin S BY <1>3
<1>5. Placed(n) /\ Level(n) \in Nat BY <1>0, Places
<1>6. k # Level(n) BY <1>4, <1>5 DEF Placed
<1>7. Up[n] # Top BY <1>4, <1>5, <1>6 DEF Placed
<1>8. Up[n] \in S BY <1>7
<1>9. Level(Up[n]) \in Nat /\ Level(n) = Level(Up[n]) + 1
      /\ \A j \in 1..Level(Up[n]) : chain[n][j] = chain[Up[n]][j]
  BY <1>0, <1>5, <1>7, <1>8 DEF Placed
<1>10. k \in 2..Level(Up[n]) /\ k \in 1..Level(Up[n]) BY <1>4, <1>6, <1>9
<1>11. chain[Up[n]][k] \notin S BY <1>4, <1>9, <1>10
<1>12. Level(Up[n]) \in Bad BY <1>8, <1>9, <1>10, <1>11
<1> HIDE DEF Bad
<1> QED BY <1>2, <1>3, <1>9, <1>12

\* Where a call is made, seen from the one around it.
LEMMA CallerPlace ==
    ASSUME NEW n \in Node, NEW k \in 2..Level(n)
    PROVE  /\ chain[n][k] \in Node /\ Level(chain[n][k]) = k
           /\ k = 2 => Up[chain[n][k]] = Top
           /\ k > 2 => Up[chain[n][k]] = chain[n][k - 1]
<1> HIDE DEF chain
<1>1. PICK a : a = chain[n][k] OBVIOUS
<1>2. a \in Node /\ Level(a) = k /\ \A j \in 1..k : chain[a][j] = chain[n][j]
  BY <1>1, Places DEF Placed
<1>3. Placed(a) BY <1>2, Places
<1>4. ASSUME Up[a] # Top PROVE k > 2 /\ Up[a] = chain[n][k - 1]
  <2>1. Up[a] \in Node BY <1>2, <1>4, SiblingAssumption
  <2>2. Placed(Up[a]) /\ Level(Up[a]) \in Nat BY <2>1, Places, LenProperties DEF Placed, Level
  <2>3. /\ k = Level(Up[a]) + 1 /\ Level(Up[a]) >= 2
        /\ chain[Up[a]][Level(Up[a])] = Up[a]
        /\ \A j \in 1..Level(Up[a]) : chain[a][j] = chain[Up[a]][j]
    BY <1>2, <1>3, <1>4, <2>2 DEF Placed
  <2>4. k - 1 = Level(Up[a]) /\ k - 1 \in 1..Level(Up[a]) /\ k - 1 \in 1..k BY <2>2, <2>3
  <2> QED BY <1>2, <2>2, <2>3, <2>4
<1>5. Up[a] = Top => k = 2 BY <1>2, <1>3 DEF Placed
<1> QED BY <1>1, <1>2, <1>4, <1>5

-----------------------------------------------------------------------------
(* The ids of a call and of those around it.                               *)

IdsOf(f, n) == [i \in DOMAIN chain[n] |-> IF i = 1 THEN RootId ELSE f[chain[n][i]]]

\* The ids of a chain: the root's, then those of the calls around, then its
\* own.
LEMMA IdsAre ==
    ASSUME NEW f \in [Node -> Ids], NEW n \in Node
    PROVE  /\ IdsOf(f, n) \in Seq(Ids) /\ Len(IdsOf(f, n)) = Level(n)
           /\ Level(n) \in Nat /\ Level(n) >= 2
           /\ IdsOf(f, n)[1] = RootId
           /\ \A k \in 2..Level(n) : chain[n][k] \in Node /\ IdsOf(f, n)[k] = f[chain[n][k]]
           /\ IdsOf(f, n)[Level(n)] = f[n]
<1> HIDE DEF chain
<1>1. Placed(n) BY Places
<1>2. Level(n) \in Nat /\ DOMAIN chain[n] = 1..Level(n) /\ Level(n) >= 2
  BY <1>1, LenProperties DEF Placed, Level
<1>3. \A k \in 2..Level(n) : chain[n][k] \in Node BY <1>1 DEF Placed
<1>4. ASSUME NEW i \in 1..Level(n)
      PROVE  (IF i = 1 THEN RootId ELSE f[chain[n][i]]) \in Ids
  BY <1>3, SiblingAssumption DEF Ids, RootId
<1>5. IdsOf(f, n) = [i \in 1..Level(n) |-> IF i = 1 THEN RootId ELSE f[chain[n][i]]]
  BY <1>2 DEF IdsOf
<1>6. IdsOf(f, n) \in Seq(Ids) /\ Len(IdsOf(f, n)) = Level(n) BY <1>2, <1>4, <1>5
<1>7. chain[n][Level(n)] = n BY <1>1 DEF Placed
<1>8. IdsOf(f, n)[1] = RootId /\ \A k \in 2..Level(n) : IdsOf(f, n)[k] = f[chain[n][k]]
  BY <1>2, <1>5
<1> QED BY <1>2, <1>3, <1>6, <1>7, <1>8

\* The ids of a call around another begin the other's.
LEMMA IdsAbove ==
    ASSUME NEW f \in [Node -> Ids], NEW n \in Node, NEW k \in 2..Level(n)
    PROVE  /\ chain[n][k] \in Node /\ Level(chain[n][k]) = k
           /\ Begins(IdsOf(f, chain[n][k]), IdsOf(f, n))
           /\ IdsOf(f, n)[k] = f[chain[n][k]]
<1> HIDE DEF chain
<1>1. PICK a : a = chain[n][k] OBVIOUS
<1>2. a \in Node /\ Level(a) = k /\ \A j \in 1..k : chain[a][j] = chain[n][j]
  BY <1>1, Places DEF Placed
<1>3. Len(IdsOf(f, a)) = k /\ Len(IdsOf(f, n)) = Level(n) /\ Level(n) \in Nat BY <1>2, IdsAre
<1>4. ASSUME NEW j \in 1..k PROVE IdsOf(f, a)[j] = IdsOf(f, n)[j]
  <2>1. CASE j = 1 BY <1>2, <2>1, IdsAre
  <2>2. CASE j # 1
    <3>1. j \in 2..k /\ j \in 2..Level(n) BY <1>3, <2>2
    <3>2. IdsOf(f, a)[j] = f[chain[a][j]] BY <1>2, <3>1, IdsAre
    <3>3. IdsOf(f, n)[j] = f[chain[n][j]] BY <3>1, IdsAre
    <3> QED BY <1>2, <3>2, <3>3
  <2> QED BY <2>1, <2>2
<1>5. Begins(IdsOf(f, a), IdsOf(f, n)) BY <1>3, <1>4 DEF Begins
<1> QED BY <1>1, <1>2, <1>5, IdsAre

\* The ids of a call are its caller's and one more.
LEMMA IdsUp ==
    ASSUME NEW f \in [Node -> Ids], NEW n \in Node, Up[n] # Top
    PROVE  /\ Up[n] \in Node /\ Level(n) = Level(Up[n]) + 1
           /\ Begins(IdsOf(f, Up[n]), IdsOf(f, n))
           /\ IdsOf(f, n)[Level(n) - 1] = f[Up[n]]
<1> HIDE DEF chain
<1>1. Up[n] \in Node /\ Placed(n) BY Places, SiblingAssumption
<1>2. Level(n) \in Nat /\ Level(Up[n]) \in Nat /\ Level(Up[n]) >= 2
      /\ Level(n) = Level(Up[n]) + 1
  BY <1>1, IdsAre DEF Placed
<1>3. Level(n) - 1 \in 2..Level(n) /\ Level(n) - 1 \in 1..Level(Up[n])
      /\ Level(n) - 1 = Level(Up[n])
  BY <1>2
<1>4. chain[n][Level(n) - 1] = chain[Up[n]][Level(Up[n])] BY <1>1, <1>3 DEF Placed
<1>5. chain[n][Level(n) - 1] = Up[n] BY <1>1, <1>4, Places DEF Placed
<1> QED BY <1>1, <1>2, <1>3, <1>5, IdsAbove

\* The ids of a call change only with those of a call around it.
LEMMA IdsSame ==
    ASSUME NEW f \in [Node -> Ids], NEW g \in [Node -> Ids], NEW S \in SUBSET Node,
           \A n \in S : Up[n] # Top => Up[n] \in S,
           \A n \in S : f[n] = g[n], NEW n \in S
    PROVE  IdsOf(f, n) = IdsOf(g, n)
<1> HIDE DEF chain
<1>1. \A k \in 2..Level(n) : chain[n][k] \in S BY Upwards
<1>2. DOMAIN chain[n] = 1..Level(n) /\ Level(n) \in Nat
  BY Places, LenProperties DEF Placed, Level
<1>3. \A i \in DOMAIN chain[n] :
        (IF i = 1 THEN RootId ELSE f[chain[n][i]]) = IF i = 1 THEN RootId ELSE g[chain[n][i]]
  BY <1>1, <1>2
<1> QED BY <1>3 DEF IdsOf

\* What the code passes along is the chain of the current ids.
LEMMA TransactionIds == \A n : transaction_ids_of(n) = IdsOf(id, n)
BY DEF transaction_ids_of, IdsOf

-----------------------------------------------------------------------------
(* Chains that begin one another.                                          *)

\* The shape of a sequence of ids.
LEMMA SeqFacts ==
    ASSUME NEW a \in Seq(Ids)
    PROVE  Len(a) \in Nat /\ DOMAIN a = 1..Len(a) /\ \A k \in 1..Len(a) : a[k] \in Ids
BY LenProperties, ElementOfSeq

\* Membership, by position.
LEMMA HasIs == ASSUME NEW a \in Seq(Ids), NEW x PROVE Has(a, x) <=> \E k \in 1..Len(a) : a[k] = x
BY SeqFacts DEF Has

\* What begins a sequence of ids.
LEMMA Cut ==
    ASSUME NEW a \in Seq(Ids), NEW m \in 0..Len(a)
    PROVE  /\ SubSeq(a, 1, m) \in Seq(Ids) /\ Len(SubSeq(a, 1, m)) = m
           /\ \A k \in 1..m : SubSeq(a, 1, m)[k] = a[k]
           /\ Begins(SubSeq(a, 1, m), a)
<1>1. Len(a) \in Nat /\ \A k \in 1..Len(a) : a[k] \in Ids BY SeqFacts
<1>2. /\ SubSeq(a, 1, m) \in Seq(Ids) /\ Len(SubSeq(a, 1, m)) = m
      /\ \A k \in 1..m : SubSeq(a, 1, m)[k] = a[k]
  BY <1>1
<1> QED BY <1>1, <1>2 DEF Begins

\* Beginning another chain is transitive.
LEMMA BeginsTrans ==
    ASSUME NEW a \in Seq(Ids), NEW b \in Seq(Ids), NEW c \in Seq(Ids), Begins(a, b), Begins(b, c)
    PROVE  Begins(a, c)
<1>1. Len(a) \in Nat /\ Len(b) \in Nat /\ Len(c) \in Nat BY SeqFacts
<1> QED BY <1>1 DEF Begins

\* What begins a chain is a chain.
LEMMA LikeBegins ==
    ASSUME NEW last, NEW a \in Seq(Ids), NEW c \in Seq(Ids), ChainLike(a, last), Begins(c, a)
    PROVE  ChainLike(c, last)
<1>1. Len(a) \in Nat /\ Len(c) \in Nat BY SeqFacts
<1>2. \A k \in 2..Len(c) : k \in 2..Len(a) /\ k \in 1..Len(c) BY <1>1 DEF Begins
<1>3. Len(c) >= 1 => 1 \in 1..Len(c) /\ Len(a) >= 1 BY <1>1 DEF Begins
<1> QED BY <1>2, <1>3 DEF Begins, ChainLike

\* What begins a chain agrees with whatever the chain agrees with.
LEMMA AgreeBegins ==
    ASSUME NEW a \in Seq(Ids), NEW b \in Seq(Ids), NEW c \in Seq(Ids), Agree(a, b), Begins(c, a)
    PROVE  Agree(c, b)
<1>1. Len(a) \in Nat /\ Len(c) \in Nat /\ Len(c) <= Len(a) BY SeqFacts DEF Begins
<1>2. ASSUME NEW i \in 2..Len(c), NEW j \in 2..Len(b), c[i] = b[j]
      PROVE  i = j /\ \A k \in 1..i : c[k] = b[k]
  <2>1. i \in 2..Len(a) /\ \A k \in 1..i : c[k] = a[k] BY <1>1 DEF Begins
  <2>2. i \in 1..i BY <1>1
  <2>3. a[i] = b[j] BY <1>2, <2>1, <2>2
  <2>4. i = j /\ \A k \in 1..i : a[k] = b[k] BY <2>1, <2>3 DEF Agree
  <2> QED BY <2>1, <2>4
<1> QED BY <1>2 DEF Agree

\* Agreement is symmetric.
LEMMA AgreeSym ==
    ASSUME NEW a \in Seq(Ids), NEW b \in Seq(Ids), Agree(a, b)
    PROVE  Agree(b, a)
<1>1. ASSUME NEW i \in 2..Len(b), NEW j \in 2..Len(a), b[i] = a[j]
      PROVE  i = j /\ \A k \in 1..i : b[k] = a[k]
  BY <1>1 DEF Agree
<1> QED BY <1>1 DEF Agree

\* Of two chains to the same nested call each begins with the other's part.
LEMMA AgreeAt ==
    ASSUME NEW a \in Seq(Ids), NEW b \in Seq(Ids), Agree(a, b),
           NEW i \in 2..Len(a), NEW j \in 2..Len(b), a[i] = b[j]
    PROVE  i = j /\ \A k \in 1..i : a[k] = b[k]
BY DEF Agree

\* A state can be claimed by those within its owner.
LEMMA ClaimableIs ==
    ASSUME NEW s \in State, NEW n \in Node, SiblingTyped
    PROVE  is_claimable_by(s, n) <=> Begins(owner_of[s], IdsOf(id, n))
<1>1. owner_of[s] \in Seq(Ids) /\ id \in [Node -> Ids] BY DEF SiblingTyped
<1>2. IdsOf(id, n) \in Seq(Ids) BY <1>1, IdsAre
<1>3. PICK o \in Seq(Ids) : o = owner_of[s] BY <1>1
<1>4. PICK c \in Seq(Ids) : c = IdsOf(id, n) BY <1>2
<1>5. Len(o) \in Nat /\ Len(c) \in Nat BY SeqFacts
<1>6. is_claimable_by(s, n) <=> Len(o) <= Len(c) /\ SubSeq(c, 1, Len(o)) = o
  BY <1>3, <1>4, TransactionIds DEF is_claimable_by
<1>7. ASSUME Len(o) <= Len(c)
      PROVE  SubSeq(c, 1, Len(o)) = o <=> \A k \in 1..Len(o) : o[k] = c[k]
  <2>1. Len(o) \in 0..Len(c) BY <1>5, <1>7
  <2>2. /\ SubSeq(c, 1, Len(o)) \in Seq(Ids) /\ Len(SubSeq(c, 1, Len(o))) = Len(o)
        /\ \A k \in 1..Len(o) : SubSeq(c, 1, Len(o))[k] = c[k]
    BY <2>1, Cut
  <2>3. PICK d \in Seq(Ids) : d = SubSeq(c, 1, Len(o)) BY <2>2
  <2>4. (\A k \in 1..Len(o) : d[k] = o[k]) => d = o BY <2>2, <2>3, SeqEqual
  <2> QED BY <2>2, <2>3, <2>4
<1> QED BY <1>3, <1>4, <1>6, <1>7 DEF Begins

-----------------------------------------------------------------------------
(* What a RelinquishOwnership takes back.                                  *)

\* Snapshots of a state with owners o that an invariant of the chains and of
\* the snapshots describes.
Stacked(o, taken, last) ==
    /\ o \in Seq(Ids) /\ taken \in Seq(Snapshot) /\ ChainLike(o, last)
    /\ Backed(o, taken, Len(taken) + 1)
    /\ \A i \in 1..Len(taken) :
          /\ ChainLike(taken[i].ids, last) /\ Agree(taken[i].ids, o)
          /\ Begins(taken[i].owner, taken[i].ids)
          /\ Backed(taken[i].owner, taken, i)

\* The shape of a stack of snapshots.
LEMMA TakenFacts ==
    ASSUME NEW taken \in Seq(Snapshot)
    PROVE  /\ Len(taken) \in Nat /\ DOMAIN taken = 1..Len(taken)
           /\ \A i \in 1..Len(taken) :
                 taken[i].ids \in Seq(Ids) /\ taken[i].owner \in Seq(Ids)
<1>1. Len(taken) \in Nat /\ DOMAIN taken = 1..Len(taken)
      /\ \A i \in 1..Len(taken) : taken[i] \in Snapshot
  BY LenProperties, ElementOfSeq
<1> QED BY <1>1 DEF Snapshot

\* The oldest snapshot within a call is of an owner around it.
LEMMA OldestIs ==
    ASSUME NEW o, NEW taken, NEW last \in Ids, NEW x \in 1..MaxIds,
           Stacked(o, taken, last), Has(o, x)
    PROVE  /\ Oldest(x, taken) \in 1..Len(taken)
           /\ Index(o, x) \in 2..Len(o) /\ o[Index(o, x)] = x
           /\ Begins(taken[Oldest(x, taken)].owner, o)
           /\ Len(taken[Oldest(x, taken)].owner) < Index(o, x)
           /\ NotNeeded(x, taken, Oldest(x, taken)) =>
                 Backed(SubSeq(o, 1, Index(o, x) - 1), taken, Oldest(x, taken))
<1>1. o \in Seq(Ids) /\ taken \in Seq(Snapshot) BY DEF Stacked
<1>2. Len(o) \in Nat /\ DOMAIN o = 1..Len(o) BY <1>1, SeqFacts
<1>3. PICK p \in 1..Len(o) : p = Index(o, x) /\ o[p] = x
  BY <1>2 DEF Has, Index
<1>4. p \in 2..Len(o)
  <2>1. p # 1 BY <1>2, <1>3 DEF Stacked, ChainLike, RootId
  <2> QED BY <1>2, <2>1
<1>5. Len(taken) \in Nat /\ DOMAIN taken = 1..Len(taken)
      /\ \A i \in 1..Len(taken) : taken[i].ids \in Seq(Ids) /\ taken[i].owner \in Seq(Ids)
  BY <1>1, TakenFacts
<1>6. PICK j \in 1..Len(taken) : Has(taken[j].ids, x)
  <2>1. \E j \in 1..(Len(taken) + 1 - 1) : Has(taken[j].ids, x)
    BY <1>3, <1>4 DEF Stacked, Backed
  <2>2. Len(taken) + 1 - 1 = Len(taken) BY <1>5
  <2> QED BY <2>1, <2>2
<1>7. \E i \in DOMAIN taken : Has(taken[i].ids, x) /\ \A k \in 1..(i - 1) : ~Has(taken[k].ids, x)
  <2> DEFINE S == {k \in 1..Len(taken) : Has(taken[k].ids, x)}
  <2>0. S \subseteq 1..Len(taken) /\ j \in S BY <1>6, Zenon
  <2>1. S \in SUBSET Nat /\ S # {}
    <3> HIDE DEF S
    <3> QED BY <2>0
  <2>2. PICK i \in S : \A k \in S : i <= k
    <3> HIDE DEF S
    <3> QED BY <2>1, Least
  <2>3. i \in 1..Len(taken) /\ Has(taken[i].ids, x) OBVIOUS
  <2>4. \A k \in 1..(i - 1) : k \in 1..Len(taken) /\ ~(i <= k) BY <1>5, <2>3
  <2>5. \A k \in 1..(i - 1) : ~Has(taken[k].ids, x) BY <2>2, <2>4
  <2> QED BY <1>5, <2>3, <2>5
<1>8. PICK i \in 1..Len(taken) : /\ i = Oldest(x, taken) /\ Has(taken[i].ids, x)
                                 /\ \A k \in 1..(i - 1) : ~Has(taken[k].ids, x)
  BY <1>5, <1>7 DEF Oldest
<1>9. PICK c \in Seq(Ids), w \in Seq(Ids) : c = taken[i].ids /\ w = taken[i].owner BY <1>5
<1>10. Len(c) \in Nat /\ DOMAIN c = 1..Len(c) /\ Len(w) \in Nat BY SeqFacts
<1>11. PICK d \in 1..Len(c) : d = Index(c, x) /\ c[d] = x
  BY <1>8, <1>9, <1>10 DEF Has, Index
<1>12. ChainLike(c, last) /\ Agree(c, o) /\ Begins(w, c) /\ Backed(w, taken, i)
  BY <1>9 DEF Stacked
<1>13. d \in 2..Len(c)
  <2>1. d # 1 BY <1>10, <1>11, <1>12 DEF ChainLike, RootId
  <2> QED BY <1>10, <2>1
<1>14. d = p /\ \A k \in 1..p : c[k] = o[k]
  BY <1>1, <1>3, <1>4, <1>11, <1>12, <1>13, AgreeAt
<1>15. Len(w) < p
  <2> SUFFICES ASSUME Len(w) >= p PROVE FALSE BY <1>4, <1>10
  <2>1. p \in 1..Len(w) /\ p \in 2..Len(w) BY <1>4, <1>10
  <2>2. w[p] = x BY <1>11, <1>12, <1>14, <2>1 DEF Begins
  <2>3. \E k \in 1..(i - 1) : Has(taken[k].ids, x) BY <1>12, <2>1, <2>2 DEF Backed
  <2> QED BY <1>8, <2>3
<1>16. Begins(w, o)
  <2>1. \A k \in 1..Len(w) : k \in 1..p BY <1>4, <1>10, <1>15
  <2>2. Len(w) <= Len(o) BY <1>2, <1>4, <1>10, <1>15
  <2> QED BY <1>12, <1>14, <2>1, <2>2 DEF Begins
<1>17. ASSUME NotNeeded(x, taken, i) PROVE Backed(SubSeq(o, 1, p - 1), taken, i)
  <2>1. p - 1 \in 0..Len(o) BY <1>2, <1>4
  <2>2. Len(SubSeq(o, 1, p - 1)) = p - 1 /\ \A k \in 1..(p - 1) : SubSeq(o, 1, p - 1)[k] = o[k]
    BY <1>1, <2>1, Cut
  <2>3. CASE p = 2
    <3>1. 2..(p - 1) = {} BY <2>3
    <3> QED BY <2>2, <3>1 DEF Backed
  <2>4. CASE p # 2
    <3>1. PICK j1 \in 1..(i - 1) : Has(taken[j1].ids, c[d - 1])
      BY <1>9, <1>11, <1>14, <1>17, <2>4 DEF NotNeeded
    <3>2. p - 1 \in 2..Len(o) /\ p - 1 \in 1..p BY <1>2, <1>4, <2>4
    <3>3. c[d - 1] = o[p - 1] BY <1>14, <3>2
    <3>4. j1 \in 1..Len(taken) BY <1>5, <3>1
    <3>5. PICK b \in Seq(Ids) : b = taken[j1].ids BY <1>5, <3>4
    <3>6. ChainLike(b, last) /\ Agree(b, o) BY <3>4, <3>5 DEF Stacked
    <3>7. Len(b) \in Nat /\ DOMAIN b = 1..Len(b) BY SeqFacts
    <3>8. PICK e \in 1..Len(b) : b[e] = o[p - 1] BY <3>1, <3>3, <3>5, <3>7 DEF Has
    <3>9. e # 1
      <4>1. o[p - 1] \in 1..last BY <3>2 DEF Stacked, ChainLike
      <4> QED BY <3>6, <3>7, <3>8, <4>1 DEF ChainLike, RootId
    <3>10. e \in 2..Len(b) BY <3>7, <3>8, <3>9
    <3>11. e = p - 1 /\ \A k \in 1..e : b[k] = o[k]
      <4>1. PICK g \in 2..Len(o) : g = p - 1 BY <3>2
      <4>2. b[e] = o[g] BY <3>8, <4>1
      <4>3. o \in Seq(Ids) /\ Agree(b, o) BY <1>1, <3>6
      <4>4. e = g /\ \A k \in 1..e : b[k] = o[k]
        BY <3>10, <4>2, <4>3, Zenon DEF Agree
      <4> QED BY <4>1, <4>4
    <3>12. ASSUME NEW k \in 2..(p - 1) PROVE Has(b, o[k])
      <4>1. k \in 1..e /\ k \in 1..Len(b) BY <1>4, <3>7, <3>8, <3>11
      <4> QED BY <3>7, <3>11, <4>1 DEF Has
    <3>13. \A k \in 2..(p - 1) : k \in 1..(p - 1) BY <1>4
    <3> QED BY <2>2, <3>1, <3>5, <3>12, <3>13 DEF Backed
  <2> QED BY <2>3, <2>4
<1> QED BY <1>3, <1>4, <1>8, <1>9, <1>15, <1>16, <1>17

\* A shorter stack backs what it backed.
LEMMA CutTaken ==
    ASSUME NEW taken \in Seq(Snapshot), NEW i \in 1..Len(taken)
    PROVE  /\ SubSeq(taken, 1, i - 1) \in Seq(Snapshot)
           /\ Len(SubSeq(taken, 1, i - 1)) = i - 1
           /\ \A k \in 1..(i - 1) : SubSeq(taken, 1, i - 1)[k] = taken[k]
<1>1. Len(taken) \in Nat /\ \A k \in 1..Len(taken) : taken[k] \in Snapshot
  BY LenProperties, ElementOfSeq
<1>2. i - 1 \in 0..Len(taken) BY <1>1
<1> QED BY <1>1, <1>2

\* Being backed depends on the snapshots further down only.
LEMMA BackedSame ==
    ASSUME NEW o, NEW taken, NEW t, NEW i, \A k \in 1..(i - 1) : t[k] = taken[k],
           Backed(o, taken, i)
    PROVE  Backed(o, t, i)
BY DEF Backed

\* Who is backed below a snapshot is backed below a later one.
LEMMA BackedMore ==
    ASSUME NEW o, NEW taken, NEW i \in Nat, NEW j \in Nat, i <= j, Backed(o, taken, i)
    PROVE  Backed(o, taken, j)
<1>1. \A k \in 1..(i - 1) : k \in 1..(j - 1) OBVIOUS
<1> QED BY <1>1 DEF Backed

-----------------------------------------------------------------------------
(* Consequences of the invariant.                                          *)

\* All the calls around one that runs do.
LEMMA RunningUp ==
    ASSUME SiblingTyped, CallsOK, NEW n \in Node, Running(n)
    PROVE  /\ Up[n] # Top => Up[n] \in Node /\ Running(Up[n])
           /\ \A k \in 2..Level(n) :
                 /\ chain[n][k] \in Node /\ Running(chain[n][k])
                 /\ IdsOf(id, n)[k] = id[chain[n][k]]
<1> HIDE DEF chain
<1> DEFINE S == {m \in Node : Running(m)}
<1>1. \A m \in S : Up[m] # Top => Up[m] \in S
  BY SiblingAssumption DEF CallsOK, Running
<1>2. S \in SUBSET Node /\ n \in S OBVIOUS
<1>3. \A k \in 2..Level(n) : chain[n][k] \in S
  <2> HIDE DEF S
  <2> QED BY <1>1, <1>2, Upwards
<1>4. id \in [Node -> Ids] BY DEF SiblingTyped
<1> QED BY <1>1, <1>3, <1>4, IdsAre

\* Where a chain that is known comes from.
LEMMA KnownIs ==
    /\ \A n \in Node : id[n] # 0 => IdsOf(id, n) \in Known
    /\ \A s \in State : owner_of[s] \in Known
    /\ \A s \in State : \A i \in 1..Len(snaps[s]) : snaps[s][i].ids \in Known
    /\ \A a \in Known :
          \/ \E n \in Node : id[n] # 0 /\ a = IdsOf(id, n)
          \/ \E s \in State : a = owner_of[s]
          \/ \E s \in State : \E i \in 1..Len(snaps[s]) : a = snaps[s][i].ids
BY TransactionIds DEF Known

\* What the invariant says of one state.
LEMMA StackIs ==
    ASSUME SiblingTyped, ChainsOK, SnapsOK, NEW s \in State
    PROVE  Stacked(owner_of[s], snaps[s], last_id)
<1>1. owner_of[s] \in Seq(Ids) /\ snaps[s] \in Seq(Snapshot) BY DEF SiblingTyped
<1>2. owner_of[s] \in Known /\ \A i \in 1..Len(snaps[s]) : snaps[s][i].ids \in Known BY KnownIs
<1> QED BY <1>1, <1>2 DEF Stacked, ChainsOK, SnapsOK

\* A chain that names a call begins with the ids of that call.
LEMMA AtId ==
    ASSUME SiblingTyped, ChainsOK, NEW a \in Known, NEW k \in 2..Len(a),
           NEW n \in Node, id[n] # 0, a[k] = id[n]
    PROVE  k = Level(n) /\ \A j \in 1..k : a[j] = IdsOf(id, n)[j]
<1>1. id \in [Node -> Ids] BY DEF SiblingTyped
<1>2. PICK b \in Seq(Ids) : b = IdsOf(id, n) BY <1>1, IdsAre
<1>3. Len(b) = Level(n) /\ Level(n) \in Nat /\ Level(n) >= 2 /\ b[Level(n)] = id[n]
  BY <1>1, <1>2, IdsAre
<1>4. Level(n) \in 2..Len(b) BY <1>3
<1>5. b \in Known BY <1>2, KnownIs
<1>6. Agree(a, b) /\ a \in Seq(Ids) BY <1>5 DEF ChainsOK, ChainLike
<1>7. a[k] = b[Level(n)] BY <1>3
<1> QED BY <1>2, <1>4, <1>6, <1>7, AgreeAt

\* The owners of a state, past ones too, are chains.
LEMMA OwnersLike ==
    ASSUME SiblingTyped, ChainsOK, SnapsOK, NEW s \in State, NEW o \in Owners(s)
    PROVE  o \in Seq(Ids) /\ ChainLike(o, last_id)
<1>1. Stacked(owner_of[s], snaps[s], last_id) BY StackIs
<1>2. CASE o = owner_of[s] BY <1>1, <1>2 DEF Stacked
<1>3. CASE o # owner_of[s]
  <2>1. PICK i \in 1..Len(snaps[s]) : o = snaps[s][i].owner BY <1>3 DEF Owners
  <2>2. snaps[s][i].ids \in Seq(Ids) /\ o \in Seq(Ids) BY <1>1, <2>1, TakenFacts DEF Stacked
  <2>3. ChainLike(snaps[s][i].ids, last_id) /\ Begins(o, snaps[s][i].ids)
    BY <1>1, <2>1 DEF Stacked
  <2> QED BY <2>2, <2>3, LikeBegins
<1> QED BY <1>2, <1>3

\* The last of the owners of a state, if it is nested.
LEMMA LastOwner ==
    ASSUME SiblingTyped, ChainsOK, SnapsOK, NEW s \in State, NEW o \in Owners(s), Len(o) > 1
    PROVE  o \in Seq(Ids) /\ Len(o) \in 2..Len(o) /\ o[Len(o)] \in 1..last_id
<1>1. o \in Seq(Ids) /\ ChainLike(o, last_id) BY OwnersLike
<1>2. Len(o) \in Nat BY <1>1, SeqFacts
<1>3. Len(o) \in 2..Len(o) BY <1>2
<1> QED BY <1>1, <1>3 DEF ChainLike

-----------------------------------------------------------------------------
(* Chains that stay, and one more.                                         *)

\* A chain stays one when further ids are handed out.
LEMMA LikeMore ==
    ASSUME NEW a, NEW x \in Ids, NEW y \in Ids, x <= y, ChainLike(a, x)
    PROVE  ChainLike(a, y)
<1>1. \A k \in 1..x : k \in 1..y BY DEF Ids
<1> QED BY <1>1 DEF ChainLike

\* A step that adds no chain but beginnings of known ones keeps ChainsOK.
LEMMA ChainsStay ==
    ASSUME ChainsOK, last_id \in Ids, last_id' = last_id,
           \A a \in Known' : a \in Seq(Ids) /\ \E b \in Known : Begins(a, b)
    PROVE  ChainsOK'
<1>1. ASSUME NEW a \in Known' PROVE ChainLike(a, last_id')
  <2>1. PICK b \in Known : Begins(a, b) OBVIOUS
  <2>2. ChainLike(b, last_id) BY DEF ChainsOK
  <2>3. a \in Seq(Ids) /\ b \in Seq(Ids) BY <2>2 DEF ChainLike
  <2> QED BY <2>1, <2>2, <2>3, LikeBegins
<1>2. ASSUME NEW a \in Known', NEW b \in Known' PROVE Agree(a, b)
  <2>1. PICK c \in Known : Begins(a, c) OBVIOUS
  <2>2. PICK d \in Known : Begins(b, d) OBVIOUS
  <2>3. a \in Seq(Ids) /\ b \in Seq(Ids) /\ c \in Seq(Ids) /\ d \in Seq(Ids) /\ Agree(c, d)
    BY DEF ChainsOK, ChainLike
  <2>4. Agree(d, a) BY <2>1, <2>3, AgreeBegins, AgreeSym
  <2>5. Agree(b, a) BY <2>2, <2>3, <2>4, AgreeBegins
  <2> QED BY <2>3, <2>5, AgreeSym
<1> QED BY <1>1, <1>2 DEF ChainsOK

\* A chain with a fresh id at its end agrees with what the rest agrees with.
LEMMA AgreeFresh ==
    ASSUME NEW u \in Seq(Ids), NEW c \in Seq(Ids), NEW b \in Seq(Ids),
           Len(c) = Len(u) + 1, Begins(u, c), Agree(u, b),
           \A j \in 2..Len(b) : b[j] # c[Len(c)]
    PROVE  Agree(c, b)
<1>1. Len(u) \in Nat /\ Len(b) \in Nat BY SeqFacts
<1>2. ASSUME NEW i \in 2..Len(c), NEW j \in 2..Len(b), c[i] = b[j]
      PROVE  i = j /\ \A k \in 1..i : c[k] = b[k]
  <2>1. i # Len(c) BY <1>2
  <2>2. i \in 2..Len(u) /\ i \in 1..i /\ \A k \in 1..i : k \in 1..Len(u) BY <1>1, <2>1
  <2>3. \A k \in 1..i : u[k] = c[k] BY <2>2 DEF Begins
  <2>4. u[i] = b[j] BY <1>2, <2>2, <2>3
  <2>5. i = j /\ \A k \in 1..i : u[k] = b[k] BY <2>2, <2>4 DEF Agree
  <2> QED BY <2>3, <2>5
<1> QED BY <1>2 DEF Agree

\* A chain with a new id at its end agrees with itself.
LEMMA AgreeSelf ==
    ASSUME NEW u \in Seq(Ids), NEW c \in Seq(Ids),
           Len(c) = Len(u) + 1, Begins(u, c), Agree(u, u),
           \A j \in 2..Len(u) : u[j] # c[Len(c)]
    PROVE  Agree(c, c)
<1>1. Len(u) \in Nat BY SeqFacts
<1>2. ASSUME NEW i \in 2..Len(c), NEW j \in 2..Len(c), c[i] = c[j] PROVE i = j
  <2>1. \A k \in 2..Len(c) : k = Len(c) \/ (k \in 2..Len(u) /\ k \in 1..Len(u)) BY <1>1
  <2>2. \A k \in 1..Len(u) : u[k] = c[k] BY DEF Begins
  <2>3. CASE i = Len(c) BY <1>2, <2>1, <2>2, <2>3
  <2>4. CASE j = Len(c) BY <1>2, <2>1, <2>2, <2>4
  <2>5. CASE i # Len(c) /\ j # Len(c)
    <3>1. i \in 2..Len(u) /\ j \in 2..Len(u) /\ u[i] = u[j] BY <1>2, <2>1, <2>2, <2>5
    <3> QED BY <3>1 DEF Agree
  <2> QED BY <2>3, <2>4, <2>5
<1> QED BY <1>2 DEF Agree

-----------------------------------------------------------------------------
(* Steps that start and end calls.                                         *)

\* Calls that start, or end and send what their participants must hear.
LEMMA LifeStep ==
    ASSUME SiblingTyped, ChainsOK, SnapsOK, OwnersOK, MailOK,
           owner_of' = owner_of, snaps' = snaps, mail \subseteq mail',
           last_id' \in Ids, last_id <= last_id',
           \A m \in Node : Running(m)' /\ id'[m] <= last_id =>
              Running(m) /\ id'[m] = id[m] /\ participants[m] \subseteq participants'[m],
           \A m \in Node : Running(m) =>
              \/ Running(m)' /\ id'[m] = id[m]
              \/ \A s \in participants[m] : \E r \in mail' : r.id = id[m] /\ r.state = s
    PROVE  OwnersOK' /\ \A r \in mail : MailRow(r)'
<1>0. last_id \in Nat /\ last_id' \in Nat BY SiblingAssumption DEF SiblingTyped, Ids
<1>1. ASSUME NEW x \in Nat, x <= last_id, NEW s \in State,
             \A m \in Node : Running(m) /\ id[m] = x => s \in participants[m]
      PROVE  \A m \in Node : Running(m)' /\ id'[m] = x => s \in participants'[m]
  BY <1>1
<1>2. ASSUME NEW x, NEW s \in State, Accounted(x, s),
             \A m \in Node : Running(m) /\ id[m] = x => s \in participants[m]
      PROVE  Accounted(x, s)'
  <2>1. CASE Returns(x, s)
    <3>1. Returns(x, s)' BY <2>1 DEF Returns
    <3> QED BY <3>1 DEF Accounted
  <2>2. CASE ~Returns(x, s)
    <3>1. PICK m \in Node : Running(m) /\ id[m] = x BY <1>2, <2>2 DEF Accounted
    <3>2. s \in participants[m] BY <1>2, <3>1
    <3>3. CASE Running(m)' /\ id'[m] = id[m] BY <3>1, <3>3 DEF Accounted
    <3>4. CASE \A t \in participants[m] : \E r \in mail' : r.id = id[m] /\ r.state = t
      <4>1. Returns(x, s)' BY <3>1, <3>2, <3>4 DEF Returns
      <4> QED BY <4>1 DEF Accounted
    <3> QED BY <3>1, <3>3, <3>4
  <2> QED BY <2>1, <2>2
<1>3. OwnersOK'
  <2>1. ASSUME NEW s \in State, NEW o \in Owners(s)', Len(o) > 1
        PROVE  /\ \A m \in Node : Running(m)' /\ id'[m] = o[Len(o)] => s \in participants'[m]
               /\ Begins(o, owner_of'[s]) => Accounted(o[Len(o)], s)'
    <3>1. o \in Owners(s) BY DEF Owners
    <3>2. PICK x : x = o[Len(o)] OBVIOUS
    <3>3. x \in Nat /\ x <= last_id BY <1>0, <2>1, <3>1, <3>2, LastOwner
    <3>4. /\ \A m \in Node : Running(m) /\ id[m] = x => s \in participants[m]
          /\ Begins(o, owner_of[s]) => Accounted(x, s)
      BY <2>1, <3>1, <3>2 DEF OwnersOK
    <3>5. \A m \in Node : Running(m)' /\ id'[m] = x => s \in participants'[m]
      BY <1>1, <3>3, <3>4
    <3>6. Begins(o, owner_of'[s]) => Accounted(x, s)' BY <1>2, <3>4
    <3> QED BY <3>2, <3>5, <3>6
  <2> QED BY <2>1 DEF OwnersOK
<1>4. ASSUME NEW r \in mail PROVE MailRow(r)'
  <2>1. MailRow(r) /\ r.state \in State /\ r.id \in 1..MaxIds BY DEF MailOK, SiblingTyped
  <2>2. r.id <= last_id BY <2>1 DEF MailRow
  <2>3. r.id <= last_id' BY <1>0, <2>1, <2>2
  <2>4. \A m \in Node : Running(m)' => id'[m] # r.id BY <2>1, <2>2 DEF MailRow
  <2>5. ASSUME NEW k \in 3..Len(owner_of[r.state]), owner_of[r.state][k] = r.id
        PROVE  /\ \A m \in Node : Running(m)' /\ id'[m] = owner_of[r.state][k - 1]
                     => r.state \in participants'[m]
               /\ ~r.aborted => Accounted(owner_of[r.state][k - 1], r.state)'
    <3>1. PICK x : x = owner_of[r.state][k - 1] OBVIOUS
    <3>2. owner_of[r.state] \in Known BY <2>1, KnownIs
    <3>3. ChainLike(owner_of[r.state], last_id) BY <3>2 DEF ChainsOK
    <3>4. Len(owner_of[r.state]) \in Nat BY <3>3, SeqFacts DEF ChainLike
    <3>5. k - 1 \in 2..Len(owner_of[r.state]) BY <3>4
    <3>6. x \in Nat /\ x <= last_id BY <1>0, <3>1, <3>3, <3>5 DEF ChainLike
    <3>7. /\ \A m \in Node : Running(m) /\ id[m] = x => r.state \in participants[m]
          /\ ~r.aborted => Accounted(x, r.state)
      BY <2>1, <2>5, <3>1 DEF MailRow
    <3>8. \A m \in Node : Running(m)' /\ id'[m] = x => r.state \in participants'[m]
      BY <1>1, <2>1, <3>6, <3>7
    <3>9. ~r.aborted => Accounted(x, r.state)' BY <1>2, <2>1, <3>7
    <3> QED BY <3>1, <3>8, <3>9
  <2> QED BY <2>3, <2>4, <2>5 DEF MailRow
<1> QED BY <1>3, <1>4

\* SnapsOK is about owners and snapshots only.
LEMMA SnapsStay ==
    ASSUME SnapsOK, owner_of' = owner_of, snaps' = snaps PROVE SnapsOK'
BY DEF SnapsOK

\* A nested call that starts, with an id of its own, keeps the invariant.
LEMMA StartNestedStep ==
    ASSUME SiblingInv, NEW n \in Node, StartNested(n)
    PROVE  SiblingInv'
<1> HIDE DEF chain
<1>1. SiblingTyped /\ CallsOK /\ ChainsOK /\ SnapsOK /\ OwnersOK /\ MailOK
  BY DEF SiblingInv
<1>2. /\ id \in [Node -> Ids] /\ last_id \in Nat /\ last_id + 1 \in Ids
      /\ id' = [id EXCEPT ![n] = last_id + 1] /\ last_id' = last_id + 1 /\ id[n] = 0
      /\ UNCHANGED <<finished, claimed, participants, owner_of, snaps, mail, gave_way>>
      /\ Up[n] # Top => Up[n] \in Node /\ Running(Up[n])
  BY <1>1, SiblingAssumption DEF SiblingTyped, StartNested, CallerRuns, Ids
<1>3. id' \in [Node -> Ids] /\ id'[n] = last_id + 1 /\ \A m \in Node : m # n => id'[m] = id[m]
  BY <1>2
<1>4. SiblingTyped' BY <1>1, <1>2, <1>3 DEF SiblingTyped
<1>5. CallsOK'
  <2>1. \A m \in Node : id[m] \in Nat /\ id[m] <= last_id
    BY <1>1, <1>2, SiblingAssumption DEF CallsOK, Ids
  <2>2. \A m \in Node : id'[m] <= last_id' BY <1>2, <1>3, <2>1
  <2>3. \A l, m \in Node : id'[l] = id'[m] /\ id'[m] # 0 => l = m
    BY <1>1, <1>2, <1>3, <2>1 DEF CallsOK
  <2>4. \A m \in finished' : id'[m] # 0 BY <1>1, <1>2, <1>3 DEF CallsOK, SiblingTyped
  <2>5. \A m \in Node : id'[m] # 0 /\ Up[m] # Top => id'[Up[m]] # 0
    BY <1>1, <1>2, <1>3, SiblingAssumption DEF CallsOK, Running
  <2> QED BY <1>1, <1>2, <2>2, <2>3, <2>4, <2>5 DEF CallsOK
<1>6. \A m \in Node : id[m] # 0 => IdsOf(id', m) = IdsOf(id, m)
  <2> DEFINE S == {m \in Node : id[m] # 0}
  <2>1. \A m \in S : Up[m] # Top => Up[m] \in S BY <1>1, SiblingAssumption DEF CallsOK
  <2>2. \A m \in S : id[m] = id'[m] BY <1>2, <1>3
  <2>3. S \in SUBSET Node OBVIOUS
  <2>4. ASSUME NEW m \in S PROVE IdsOf(id, m) = IdsOf(id', m)
    <3>1. PICK f \in [Node -> Ids], g \in [Node -> Ids] : f = id /\ g = id' BY <1>2, <1>3
    <3>2. \A l \in S : f[l] = g[l] BY <2>2, <3>1
    <3> HIDE DEF S
    <3>3. IdsOf(f, m) = IdsOf(g, m) BY <2>1, <2>3, <3>2, IdsSame
    <3> QED BY <3>1, <3>3
  <2> QED BY <2>4
<1>7. PICK c \in Seq(Ids) : c = IdsOf(id', n) BY <1>3, IdsAre
<1>8. \A a \in Known' : a = c \/ a \in Known
  <2>1. ASSUME NEW a \in Known' PROVE a = c \/ a \in Known
    <3>1. CASE \E m \in Node : id'[m] # 0 /\ a = IdsOf(id', m)
      BY <1>2, <1>3, <1>6, <1>7, <3>1, KnownIs
    <3>2. CASE \E s \in State : a = owner_of[s] BY <3>2, KnownIs
    <3>3. CASE \E s \in State : \E i \in 1..Len(snaps[s]) : a = snaps[s][i].ids
      BY <3>3, KnownIs
    <3>4. \/ \E m \in Node : id'[m] # 0 /\ a = IdsOf(id', m)
          \/ \E s \in State : a = owner_of[s]
          \/ \E s \in State : \E i \in 1..Len(snaps[s]) : a = snaps[s][i].ids
      <4>1. \A m : transaction_ids_of(m)' = IdsOf(id', m) BY DEF transaction_ids_of, IdsOf
      <4> QED BY <1>2, <4>1 DEF Known
    <3> QED BY <3>1, <3>2, <3>3, <3>4
  <2> QED BY <2>1
<1>9. PICK u \in Seq(Ids) : /\ Len(c) = Len(u) + 1 /\ Begins(u, c)
                            /\ ChainLike(u, last_id) /\ \A b \in Known \cup {u} : Agree(u, b)
                            /\ Len(u) >= 1
  <2>1. Len(c) = Level(n) /\ Level(n) \in Nat /\ Level(n) >= 2 /\ c[1] = RootId
    BY <1>3, <1>7, IdsAre
  <2>2. CASE Up[n] = Top
    <3>1. Level(n) = 2 BY <2>2, Places DEF Placed
    <3>2. <<RootId>> \in Seq(Ids) /\ Len(<<RootId>>) = 1 /\ <<RootId>>[1] = RootId
      BY SiblingAssumption DEF Ids, RootId
    <3>3. Begins(<<RootId>>, c) BY <2>1, <3>1, <3>2 DEF Begins
    <3>4. \A b : Agree(<<RootId>>, b) BY <3>2 DEF Agree
    <3>5. ChainLike(<<RootId>>, last_id) BY <3>2 DEF ChainLike
    <3>6. PICK u \in Seq(Ids) : u = <<RootId>> BY <3>2, Zenon
    <3>7. Len(c) = Len(u) + 1 /\ Len(u) >= 1 BY <2>1, <3>1, <3>2, <3>6
    <3>8. /\ Begins(u, c) /\ ChainLike(u, last_id)
          /\ \A b \in Known \cup {u} : Agree(u, b)
      BY <3>3, <3>4, <3>5, <3>6, Zenon
    <3> QED BY <3>7, <3>8, Zenon
  <2>3. CASE Up[n] # Top
    <3>1. Up[n] \in Node /\ id[Up[n]] # 0 BY <1>2, <2>3 DEF Running
    <3>2. PICK u \in Seq(Ids) : u = IdsOf(id, Up[n]) BY <1>2, <3>1, IdsAre
    <3>3. u \in Known /\ u = IdsOf(id', Up[n]) BY <1>6, <3>1, <3>2, KnownIs
    <3>4. Level(n) = Level(Up[n]) + 1 /\ Begins(u, c) BY <1>3, <1>7, <2>3, <3>3, IdsUp
    <3>5. Len(u) = Level(Up[n]) /\ Level(Up[n]) >= 2 BY <1>2, <3>1, <3>2, IdsAre
    <3>6. ChainLike(u, last_id) /\ \A b \in Known \cup {u} : Agree(u, b)
      BY <1>1, <3>3 DEF ChainsOK
    <3> QED BY <2>1, <3>4, <3>5, <3>6
  <2> QED BY <2>2, <2>3
<1>10. Len(u) \in Nat /\ c[Len(c)] = last_id + 1 /\ c[1] = RootId
  BY <1>3, <1>7, SeqFacts, IdsAre
<1>11. ChainsOK'
  <2>1. \A a \in Known : ChainLike(a, last_id) /\ a \in Seq(Ids)
        /\ \A j \in 2..Len(a) : a[j] # last_id + 1
    BY <1>1, <1>2 DEF ChainsOK, ChainLike
  <2>2. ChainLike(c, last_id + 1)
    <3>1. ASSUME NEW k \in 2..Len(c) PROVE c[k] \in 1..(last_id + 1)
      <4>1. CASE k = Len(c) BY <1>2, <1>10, <4>1
      <4>2. CASE k # Len(c)
        <5>1. k \in 2..Len(u) /\ k \in 1..Len(u) BY <1>9, <1>10, <4>2
        <5>2. c[k] = u[k] BY <1>9, <5>1 DEF Begins
        <5>3. u[k] \in 1..last_id BY <1>9, <5>1 DEF ChainLike
        <5> QED BY <1>2, <5>2, <5>3
      <4> QED BY <4>1, <4>2
    <3> QED BY <1>7, <1>10, <3>1 DEF ChainLike
  <2>3. \A a \in Known : ChainLike(a, last_id + 1)
    <3>1. last_id \in Ids /\ last_id <= last_id + 1 BY <1>1, <1>2 DEF SiblingTyped
    <3> QED BY <1>2, <2>1, <3>1, LikeMore
  <2>4. \A a \in Known : Agree(c, a) /\ Agree(a, c)
    <3>1. ASSUME NEW a \in Known PROVE Agree(c, a)
      <4>1. a \in Seq(Ids) /\ Agree(u, a) /\ \A j \in 2..Len(a) : a[j] # c[Len(c)]
        BY <1>9, <1>10, <2>1
      <4> QED BY <1>7, <1>9, <4>1, AgreeFresh
    <3> QED BY <1>7, <2>1, <3>1, AgreeSym
  <2>5. Agree(c, c)
    <3>1. \A j \in 2..Len(u) : u[j] # c[Len(c)] BY <1>2, <1>9, <1>10 DEF ChainLike
    <3>2. Agree(u, u) BY <1>9
    <3> QED BY <1>7, <1>9, <3>1, <3>2, AgreeSelf
  <2>6. \A a \in Known' : ChainLike(a, last_id') BY <1>2, <1>8, <2>2, <2>3
  <2>7. \A a, b \in Known : Agree(a, b) BY <1>1 DEF ChainsOK
  <2>8. \A a, b \in Known' : Agree(a, b)
    <3> HIDE DEF Known, Agree
    <3> QED BY <1>8, <2>4, <2>5, <2>7
  <2> QED BY <2>6, <2>8 DEF ChainsOK
<1>12. SnapsOK' BY <1>1, <1>2, SnapsStay
<1>13. OwnersOK' /\ \A r \in mail : MailRow(r)'
  <2>1. \A m \in Node : Running(m)' /\ id'[m] <= last_id =>
           Running(m) /\ id'[m] = id[m] /\ participants[m] \subseteq participants'[m]
    BY <1>2, <1>3 DEF Running
  <2>2. \A m \in Node : Running(m) => Running(m)' /\ id'[m] = id[m]
    BY <1>2, <1>3 DEF Running
  <2>3. last_id' \in Ids /\ last_id <= last_id' /\ mail \subseteq mail' BY <1>2
  <2> QED BY <1>1, <1>2, <2>1, <2>2, <2>3, LifeStep
<1>14. MailOK' BY <1>2, <1>13 DEF MailOK
<1>15. OldestProceeds' BY <1>2 DEF SiblingInv, OldestProceeds
<1> QED BY <1>4, <1>5, <1>11, <1>12, <1>13, <1>14, <1>15 DEF SiblingInv

\* A call that returns tells its participants, and its caller of them.
LEMMA FinishNestedStep ==
    ASSUME SiblingInv, NEW n \in Node, FinishNested(n)
    PROVE  SiblingInv'
<1> HIDE DEF chain
<1>1. SiblingTyped /\ CallsOK /\ ChainsOK /\ SnapsOK /\ OwnersOK /\ MailOK
  BY DEF SiblingInv
<1>2. /\ id \in [Node -> Ids] /\ last_id \in Nat /\ Running(n) /\ Children(n) \subseteq finished
      /\ finished' = finished \cup {n} /\ finished \in SUBSET Node
      /\ UNCHANGED <<id, claimed, owner_of, snaps, last_id, gave_way>>
      /\ participants \in [Node -> SUBSET State]
  BY <1>1, SiblingAssumption DEF SiblingTyped, FinishNested, Ids
<1>3. mail' = mail \cup {r \in Relinquished({n}, FALSE) : r.state \in participants[n]}
  BY DEF FinishNested
<1>4. Relinquished({n}, FALSE) = {[id |-> id[n], state |-> s, aborted |-> FALSE] : s \in State}
  BY DEF Relinquished
<1>5. /\ mail \subseteq mail'
      /\ \A s \in participants[n] : [id |-> id[n], state |-> s, aborted |-> FALSE] \in mail'
      /\ \A r \in mail' : r \in mail \/
            (r.id = id[n] /\ r.state \in participants[n] /\ r.state \in State /\ ~r.aborted
             /\ r \in [id : {id[n]}, state : State, aborted : BOOLEAN])
  <2>1. ASSUME NEW s \in participants[n]
        PROVE  [id |-> id[n], state |-> s, aborted |-> FALSE] \in mail'
    <3>1. s \in State BY <1>2
    <3> QED BY <1>3, <1>4, <3>1
  <2>2. ASSUME NEW r \in mail', r \notin mail
        PROVE  /\ r.id = id[n] /\ r.state \in participants[n] /\ r.state \in State /\ ~r.aborted
               /\ r \in [id : {id[n]}, state : State, aborted : BOOLEAN]
    <3>1. r.state \in participants[n] /\ r \in Relinquished({n}, FALSE) BY <1>3, <2>2
    <3>2. PICK s \in State : r = [id |-> id[n], state |-> s, aborted |-> FALSE] BY <1>4, <3>1
    <3> QED BY <3>1, <3>2
  <2> QED BY <1>3, <2>1, <2>2
<1>6. /\ participants' \in [Node -> SUBSET State]
      /\ \A m \in Node : participants[m] \subseteq participants'[m]
      /\ Up[n] # Top => participants[n] \subseteq participants'[Up[n]]
  <2>1. Up[n] \in Node \cup {Top} BY SiblingAssumption
  <2>2. participants' = IF Up[n] = Top THEN participants
                        ELSE [participants EXCEPT ![Up[n]] = @ \cup participants[n]]
    BY DEF FinishNested
  <2> QED BY <1>2, <2>1, <2>2
<1>7. id[n] # 0 /\ id[n] \in 1..MaxIds /\ n \notin finished
  BY <1>2, SiblingAssumption DEF Running, Ids
<1>8. SiblingTyped'
  <2>1. mail' \in SUBSET [id : 1..MaxIds, state : State, aborted : BOOLEAN]
    BY <1>1, <1>5, <1>7 DEF SiblingTyped
  <2> QED BY <1>1, <1>2, <1>6, <2>1 DEF SiblingTyped
<1>9. CallsOK'
  <2>1. \A m \in Node : Up[m] \in finished' => m \in finished'
    BY <1>1, <1>2 DEF CallsOK, Children
  <2> QED BY <1>1, <1>2, <1>7, <2>1 DEF CallsOK
<1>10. ChainsOK'
  <2>1. Known' = Known BY <1>2 DEF Known, transaction_ids_of
  <2> QED BY <1>1, <1>2, <2>1 DEF ChainsOK
<1>11. SnapsOK' BY <1>1, <1>2, SnapsStay
<1>12. \A m \in Node : Running(m)' <=> Running(m) /\ m # n BY <1>2 DEF Running
<1>13. OwnersOK' /\ \A r \in mail : MailRow(r)'
  <2>1. \A m \in Node : Running(m)' /\ id'[m] <= last_id =>
           Running(m) /\ id'[m] = id[m] /\ participants[m] \subseteq participants'[m]
    BY <1>2, <1>6, <1>12
  <2>2. ASSUME NEW m \in Node, Running(m)
        PROVE  \/ Running(m)' /\ id'[m] = id[m]
               \/ \A s \in participants[m] : \E r \in mail' : r.id = id[m] /\ r.state = s
    <3>1. CASE m # n BY <1>2, <1>12, <2>2, <3>1
    <3>2. CASE m = n
      <4>1. ASSUME NEW s \in participants[n] PROVE \E r \in mail' : r.id = id[n] /\ r.state = s
        <5> DEFINE r == [id |-> id[n], state |-> s, aborted |-> FALSE]
        <5>1. r \in mail' /\ r.id = id[n] /\ r.state = s BY <1>5
        <5> QED BY <5>1
      <4> QED BY <3>2, <4>1
    <3> QED BY <3>1, <3>2
  <2>3. last_id' \in Ids /\ last_id <= last_id' BY <1>1, <1>2 DEF SiblingTyped
  <2> QED BY <1>1, <1>2, <1>5, <2>1, <2>2, <2>3, LifeStep
<1>14. ASSUME NEW r \in mail', r \notin mail PROVE MailRow(r)'
  <2>1. r.id = id[n] /\ r.state \in participants[n] /\ r.state \in State /\ ~r.aborted
    BY <1>5, <1>14
  <2>2. r.id <= last_id' BY <1>1, <1>2, <2>1 DEF CallsOK
  <2>3. \A m \in Node : Running(m)' => id'[m] # r.id BY <1>1, <1>2, <1>7, <1>12, <2>1 DEF CallsOK
  <2>4. ASSUME NEW k \in 3..Len(owner_of[r.state]), owner_of[r.state][k] = r.id
        PROVE  /\ \A m \in Node : Running(m)' /\ id'[m] = owner_of[r.state][k - 1]
                     => r.state \in participants'[m]
               /\ Accounted(owner_of[r.state][k - 1], r.state)'
    <3>1. owner_of[r.state] \in Known BY <2>1, KnownIs
    <3>2. k \in 2..Len(owner_of[r.state]) /\ k \in Nat /\ k >= 3 /\ k - 1 \in 1..k
      BY <1>1, <2>1, SeqFacts DEF SiblingTyped
    <3>3. k = Level(n) /\ owner_of[r.state][k - 1] = IdsOf(id, n)[k - 1]
      BY <1>1, <1>7, <2>1, <2>4, <3>1, <3>2, AtId
    <3>4. Up[n] # Top BY <3>2, <3>3, Places DEF Placed
    <3>5. Up[n] \in Node /\ IdsOf(id, n)[k - 1] = id[Up[n]] /\ Level(n) = Level(Up[n]) + 1
      BY <1>2, <3>3, <3>4, IdsUp
    <3>6. Running(Up[n]) BY <1>1, <1>2, <3>4, RunningUp
    <3>7. Level(n) # Level(Up[n]) BY <1>2, <3>5, IdsAre
    <3>8. Up[n] # n BY <3>7
    <3>9. Running(Up[n])' /\ id'[Up[n]] = owner_of[r.state][k - 1]
      BY <1>2, <1>12, <3>3, <3>5, <3>6, <3>8
    <3>10. ASSUME NEW m \in Node, Running(m)', id'[m] = owner_of[r.state][k - 1]
           PROVE  r.state \in participants'[m]
      <4>1. m = Up[n] BY <1>1, <1>2, <1>12, <3>5, <3>9, <3>10 DEF CallsOK, Running
      <4> QED BY <1>6, <2>1, <3>4, <4>1
    <3> QED BY <1>2, <3>5, <3>9, <3>10 DEF Accounted
  <2> QED BY <1>2, <2>1, <2>2, <2>3, <2>4 DEF MailRow
<1>15. MailOK' BY <1>13, <1>14 DEF MailOK
<1>16. OldestProceeds' BY <1>2 DEF SiblingInv, OldestProceeds
<1> QED BY <1>8, <1>9, <1>10, <1>11, <1>13, <1>15, <1>16 DEF SiblingInv

-----------------------------------------------------------------------------
(* Steps that claim and relinquish a state.                                *)

\* The owners and the snapshots of one state change, the chains named are
\* beginnings of those that were.
LEMMA StackStep ==
    ASSUME SiblingTyped, ChainsOK, NEW s \in State, NEW o \in Seq(Ids), NEW t \in Seq(Snapshot),
           owner_of' = [owner_of EXCEPT ![s] = o], snaps' = [snaps EXCEPT ![s] = t],
           UNCHANGED <<id, last_id>>,
           \E b \in Known : Begins(o, b),
           \A i \in 1..Len(t) : t[i].ids \in Known
    PROVE  /\ ChainsOK'
           /\ owner_of' \in [State -> Seq(Ids)] /\ snaps' \in [State -> Seq(Snapshot)]
           /\ owner_of'[s] = o /\ snaps'[s] = t
           /\ \A z \in State : z # s =>
                 owner_of'[z] = owner_of[z] /\ snaps'[z] = snaps[z] /\ Owners(z)' = Owners(z)
<1>1. owner_of \in [State -> Seq(Ids)] /\ snaps \in [State -> Seq(Snapshot)] /\ last_id \in Ids
  BY DEF SiblingTyped
<1>2. /\ owner_of' \in [State -> Seq(Ids)] /\ snaps' \in [State -> Seq(Snapshot)]
      /\ owner_of'[s] = o /\ snaps'[s] = t
      /\ \A z \in State : z # s => owner_of'[z] = owner_of[z] /\ snaps'[z] = snaps[z]
  BY <1>1
<1>3. \A z \in State : z # s => Owners(z)' = Owners(z) BY <1>2 DEF Owners
<1>4. \A a \in Known : a \in Seq(Ids) /\ Begins(a, a)
  <2>1. \A a \in Known : a \in Seq(Ids) BY DEF ChainsOK, ChainLike
  <2>2. \A a \in Known : Len(a) \in Nat BY <2>1, SeqFacts
  <2> QED BY <2>1, <2>2 DEF Begins
<1>5. ASSUME NEW a \in Known' PROVE a \in Seq(Ids) /\ \E b \in Known : Begins(a, b)
  <2>1. \/ \E n \in Node : id[n] # 0 /\ a = IdsOf(id, n)
        \/ \E z \in State : a = owner_of'[z]
        \/ \E z \in State : \E i \in 1..Len(snaps'[z]) : a = snaps'[z][i].ids
    <3>1. \A m : transaction_ids_of(m)' = IdsOf(id, m) BY DEF transaction_ids_of, IdsOf
    <3> QED BY <3>1 DEF Known
  <2>2. CASE \E n \in Node : id[n] # 0 /\ a = IdsOf(id, n) BY <1>4, <2>2, KnownIs
  <2>3. CASE \E z \in State : a = owner_of'[z]
    <3>1. PICK z \in State : a = owner_of'[z] BY <2>3
    <3>2. CASE z = s BY <1>2, <3>1, <3>2
    <3>3. CASE z # s BY <1>2, <1>4, <3>1, <3>3, KnownIs
    <3> QED BY <3>2, <3>3
  <2>4. CASE \E z \in State : \E i \in 1..Len(snaps'[z]) : a = snaps'[z][i].ids
    <3>1. PICK z \in State : \E i \in 1..Len(snaps'[z]) : a = snaps'[z][i].ids BY <2>4
    <3>2. CASE z = s BY <1>2, <1>4, <3>1, <3>2
    <3>3. CASE z # s BY <1>2, <1>4, <3>1, <3>3, KnownIs
    <3> QED BY <3>2, <3>3
  <2> QED BY <2>1, <2>2, <2>3, <2>4
<1>6. ChainsOK' BY <1>1, <1>5, ChainsStay
<1> QED BY <1>2, <1>3, <1>6

\* A step that changes one state keeps SnapsOK if the state's new stack has
\* it.
LEMMA SnapsStep ==
    ASSUME SnapsOK, NEW s \in State,
           \A z \in State : z # s => owner_of'[z] = owner_of[z] /\ snaps'[z] = snaps[z],
           Backed(owner_of'[s], snaps'[s], Len(snaps'[s]) + 1),
           \A i \in 1..Len(snaps'[s]) :
              /\ Begins(snaps'[s][i].owner, snaps'[s][i].ids)
              /\ Backed(snaps'[s][i].owner, snaps'[s], i)
    PROVE  SnapsOK'
<1>1. ASSUME NEW z \in State
      PROVE  /\ Backed(owner_of'[z], snaps'[z], Len(snaps'[z]) + 1)
             /\ \A i \in 1..Len(snaps'[z]) :
                   /\ Begins(snaps'[z][i].owner, snaps'[z][i].ids)
                   /\ Backed(snaps'[z][i].owner, snaps'[z], i)
  <2>1. CASE z = s BY <2>1
  <2>2. CASE z # s
    <3>1. /\ Backed(owner_of[z], snaps[z], Len(snaps[z]) + 1)
          /\ \A i \in 1..Len(snaps[z]) :
                /\ Begins(snaps[z][i].owner, snaps[z][i].ids)
                /\ Backed(snaps[z][i].owner, snaps[z], i)
      BY DEF SnapsOK
    <3>2. owner_of'[z] = owner_of[z] /\ snaps'[z] = snaps[z] BY <2>2
    <3> QED BY <3>1, <3>2
  <2> QED BY <2>1, <2>2
<1> QED BY <1>1 DEF SnapsOK

\* A claim keeps the invariant.
LEMMA ClaimStep ==
    ASSUME SiblingInv, NEW n \in Node, NEW s \in State, claim_ownership(n, s)
    PROVE  SiblingInv'
<1> HIDE DEF chain
<1>1. SiblingTyped /\ CallsOK /\ ChainsOK /\ SnapsOK /\ OwnersOK /\ MailOK
  BY DEF SiblingInv
<1>2. id \in [Node -> Ids] BY <1>1 DEF SiblingTyped
<1>3. PICK c \in Seq(Ids) : c = IdsOf(id, n) BY <1>2, IdsAre
<1>4. PICK o \in Seq(Ids) : o = owner_of[s] BY <1>1 DEF SiblingTyped
<1>5. PICK taken \in Seq(Snapshot) : taken = snaps[s] BY <1>1 DEF SiblingTyped
<1>6. /\ Running(n) /\ Begins(o, c)
      /\ claimed' = [claimed EXCEPT ![n] = @ \cup {s}]
      /\ participants' = [participants EXCEPT ![n] = @ \cup {s}]
      /\ snaps' = [snaps EXCEPT ![s] = Append(taken, [ids |-> c, owner |-> o])]
      /\ owner_of' = [owner_of EXCEPT ![s] = c]
      /\ UNCHANGED <<id, finished, mail, last_id, gave_way>>
  <2>1. is_claimable_by(s, n) /\ Awaits(n, s) BY DEF claim_ownership
  <2>2. Running(n) /\ Begins(o, c) BY <1>1, <1>3, <1>4, <2>1, ClaimableIs DEF Awaits
  <2> QED BY <1>3, <1>4, <1>5, <2>2, TransactionIds DEF claim_ownership
<1>7. PICK t \in Seq(Snapshot) :
        /\ t = Append(taken, [ids |-> c, owner |-> o]) /\ Len(t) = Len(taken) + 1
        /\ \A i \in 1..Len(taken) : t[i] = taken[i]
        /\ t[Len(taken) + 1] = [ids |-> c, owner |-> o]
  <2>1. PICK e \in Snapshot : e = [ids |-> c, owner |-> o] BY DEF Snapshot
  <2>2. /\ Append(taken, e) \in Seq(Snapshot) /\ Len(Append(taken, e)) = Len(taken) + 1
        /\ \A i \in 1..Len(taken) : Append(taken, e)[i] = taken[i]
        /\ Append(taken, e)[Len(taken) + 1] = e
    BY AppendProperties
  <2> QED BY <2>1, <2>2
<1>8. Len(taken) \in Nat /\ Len(t) \in Nat BY TakenFacts
<1>9. c \in Known /\ Begins(c, c) /\ \A i \in 1..Len(t) : t[i].ids \in Known
  <2>1. c \in Known BY <1>3, <1>6, KnownIs DEF Running
  <2>2. Begins(c, c)
    <3>1. Len(c) \in Nat BY SeqFacts
    <3> QED BY <3>1 DEF Begins
  <2>3. ASSUME NEW i \in 1..Len(t) PROVE t[i].ids \in Known
    <3>1. CASE i = Len(taken) + 1 BY <1>7, <2>1, <3>1
    <3>2. CASE i # Len(taken) + 1
      <4>1. i \in 1..Len(taken) BY <1>7, <1>8, <3>2
      <4> QED BY <1>5, <1>7, <4>1, KnownIs
    <3> QED BY <3>1, <3>2
  <2> QED BY <2>1, <2>2, <2>3
<1>10. /\ ChainsOK'
       /\ owner_of' \in [State -> Seq(Ids)] /\ snaps' \in [State -> Seq(Snapshot)]
       /\ owner_of'[s] = c /\ snaps'[s] = t
       /\ \A z \in State : z # s =>
             owner_of'[z] = owner_of[z] /\ snaps'[z] = snaps[z] /\ Owners(z)' = Owners(z)
  BY <1>1, <1>6, <1>7, <1>9, StackStep
<1>11. SiblingTyped' /\ \A m \in Node : participants[m] \subseteq participants'[m]
  BY <1>1, <1>6, <1>10 DEF SiblingTyped
<1>12. CallsOK' BY <1>1, <1>6 DEF CallsOK
<1>13. SnapsOK'
  <2>1. Backed(c, t, Len(t) + 1)
    <3>1. DOMAIN c = 1..Len(c) BY SeqFacts
    <3>2. \A k \in 2..Len(c) : k \in DOMAIN c BY <3>1, SeqFacts
    <3>3. \A k \in 2..Len(c) : Has(t[Len(t)].ids, c[k]) BY <1>7, <3>2 DEF Has
    <3>4. Len(t) \in 1..(Len(t) + 1 - 1) BY <1>7, <1>8
    <3> QED BY <3>3, <3>4 DEF Backed
  <2>2. ASSUME NEW i \in 1..Len(t)
        PROVE  Begins(t[i].owner, t[i].ids) /\ Backed(t[i].owner, t, i)
    <3>1. CASE i = Len(taken) + 1
      <4>1. Backed(o, taken, i) BY <1>1, <1>4, <1>5, <3>1 DEF SnapsOK
      <4>2. \A k \in 1..(i - 1) : t[k] = taken[k] BY <1>7, <1>8, <3>1
      <4>3. Backed(o, t, i) BY <4>1, <4>2, BackedSame
      <4> QED BY <1>6, <1>7, <3>1, <4>3
    <3>2. CASE i # Len(taken) + 1
      <4>1. i \in 1..Len(taken) BY <1>7, <1>8, <3>2
      <4>2. Begins(taken[i].owner, taken[i].ids) /\ Backed(taken[i].owner, taken, i)
        BY <1>1, <1>5, <4>1 DEF SnapsOK
      <4>3. \A k \in 1..(i - 1) : t[k] = taken[k] BY <1>7, <1>8, <4>1
      <4>4. Backed(taken[i].owner, t, i) BY <4>2, <4>3, BackedSame
      <4> QED BY <1>7, <4>1, <4>2, <4>4
    <3> QED BY <3>1, <3>2
  <2> QED BY <1>1, <1>10, <2>1, <2>2, SnapsStep
<1>14. \A m \in Node : Running(m)' <=> Running(m) BY <1>6 DEF Running
<1>15. \A x, z : Accounted(x, z)' <=> Accounted(x, z)
  BY <1>6, <1>14 DEF Accounted, Returns
<1>16. Len(c) \in Nat /\ Len(c) = Level(n) /\ c[Len(c)] = id[n]
       /\ \A k \in 2..Len(c) : \E m \in Node : Running(m) /\ id[m] = c[k]
  <2>0. /\ Level(n) \in Nat /\ Len(IdsOf(id, n)) = Level(n)
        /\ IdsOf(id, n)[Level(n)] = id[n]
    BY <1>2, IdsAre, Zenon
  <2>1. Len(c) \in Nat /\ Len(c) = Level(n) /\ c[Len(c)] = id[n] BY <1>3, <2>0, Zenon
  <2>2. \A k \in 2..Level(n) : /\ chain[n][k] \in Node /\ Running(chain[n][k])
                               /\ IdsOf(id, n)[k] = id[chain[n][k]]
    BY <1>1, <1>6, RunningUp
  <2> QED BY <1>3, <2>1, <2>2
<1>17. OwnersOK'
  <2>1. ASSUME NEW z \in State, NEW w \in Owners(z)', Len(w) > 1
        PROVE  /\ \A m \in Node : Running(m)' /\ id'[m] = w[Len(w)] => z \in participants'[m]
               /\ Begins(w, owner_of'[z]) => Accounted(w[Len(w)], z)
    <3>1. CASE z # s
      <4>1. w \in Owners(z) /\ owner_of'[z] = owner_of[z] BY <1>10, <3>1
      <4>2. /\ \A m \in Node : Running(m) /\ id[m] = w[Len(w)] => z \in participants[m]
            /\ Begins(w, owner_of[z]) => Accounted(w[Len(w)], z)
        BY <1>1, <2>1, <4>1 DEF OwnersOK
      <4> QED BY <1>6, <1>11, <1>14, <4>1, <4>2
    <3>2. CASE z = s /\ w = c
      <4>1. \A m \in Node : Running(m) /\ id[m] = c[Len(c)] => m = n
        BY <1>1, <1>16 DEF CallsOK, Running
      <4>2. s \in participants'[n] BY <1>1, <1>6 DEF SiblingTyped
      <4>3. Accounted(c[Len(c)], s) BY <1>6, <1>16 DEF Accounted
      <4> QED BY <1>6, <1>14, <3>2, <4>1, <4>2, <4>3
    <3>3. CASE z = s /\ w # c
      <4>1. w \in Owners(s)
        <5>1. PICK i \in 1..Len(t) : w = t[i].owner BY <1>10, <3>3 DEF Owners
        <5>2. CASE i = Len(taken) + 1 BY <1>4, <1>7, <5>1, <5>2 DEF Owners
        <5>3. CASE i # Len(taken) + 1
          <6>1. i \in 1..Len(taken) BY <1>7, <1>8, <5>3
          <6> QED BY <1>5, <1>7, <5>1, <6>1 DEF Owners
        <5> QED BY <5>2, <5>3
      <4>2. \A m \in Node : Running(m) /\ id[m] = w[Len(w)] => s \in participants[m]
        BY <1>1, <2>1, <4>1 DEF OwnersOK
      <4>3. Len(w) \in 2..Len(w) /\ Len(w) \in Nat BY <1>1, <2>1, <4>1, LastOwner, SeqFacts
      <4>4. ASSUME Begins(w, c) PROVE Accounted(w[Len(w)], s)
        <5>1. Len(w) \in 2..Len(c) /\ w[Len(w)] = c[Len(w)] BY <1>16, <4>3, <4>4 DEF Begins
        <5> QED BY <1>16, <5>1 DEF Accounted
      <4> QED BY <1>6, <1>10, <1>11, <1>14, <3>3, <4>2, <4>4
    <3> QED BY <3>1, <3>2, <3>3
  <2>2. ASSUME NEW z \in State, NEW w \in Owners(z)', Len(w) > 1
        PROVE  /\ \A m \in Node : Running(m)' /\ id'[m] = w[Len(w)] => z \in participants'[m]
               /\ Begins(w, owner_of'[z]) => Accounted(w[Len(w)], z)'
    BY <1>15, <2>1, <2>2
  <2> QED BY <2>2 DEF OwnersOK
<1>18. MailOK'
  <2>1. ASSUME NEW r \in mail PROVE MailRow(r)'
    <3>1. MailRow(r) /\ r.state \in State BY <1>1 DEF MailOK, SiblingTyped
    <3>2. r.id <= last_id' /\ \A m \in Node : Running(m)' => id'[m] # r.id
      BY <1>6, <1>14, <3>1 DEF MailRow
    <3>3. ASSUME NEW k \in 3..Len(owner_of'[r.state]), owner_of'[r.state][k] = r.id
          PROVE  /\ \A m \in Node : Running(m)' /\ id'[m] = owner_of'[r.state][k - 1]
                       => r.state \in participants'[m]
                 /\ ~r.aborted => Accounted(owner_of'[r.state][k - 1], r.state)
      <4>1. CASE r.state = s
        <5>1. k \in 2..Len(c) /\ c[k] = r.id BY <1>10, <1>16, <3>3, <4>1
        <5> QED BY <1>16, <3>1, <5>1 DEF MailRow
      <4>2. CASE r.state # s
        <5>1. owner_of'[r.state] = owner_of[r.state] BY <1>10, <3>1, <4>2
        <5> QED BY <1>6, <1>11, <1>14, <3>1, <3>3, <5>1 DEF MailRow
      <4> QED BY <4>1, <4>2
    <3>4. ASSUME NEW k \in 3..Len(owner_of'[r.state]), owner_of'[r.state][k] = r.id
          PROVE  ~r.aborted => Accounted(owner_of[r.state][k - 1], r.state)'
      BY <1>15, <3>3, <3>4
    <3> QED BY <3>2, <3>3, <3>4 DEF MailRow
  <2> QED BY <1>6, <2>1 DEF MailOK
<1>19. OldestProceeds' BY <1>6 DEF SiblingInv, OldestProceeds
<1> QED BY <1>10, <1>11, <1>12, <1>13, <1>17, <1>18, <1>19 DEF SiblingInv

\* What a request does to the owners and the snapshots of its state.
LEMMA RelinquishIs ==
    ASSUME SiblingInv, NEW r \in mail, relinquish_ownership(r), Has(owner_of[r.state], r.id)
    PROVE  \E o \in Seq(Ids), t \in Seq(Snapshot) : \E p \in 2..Len(owner_of[r.state]) :
              /\ owner_of' = [owner_of EXCEPT ![r.state] = o]
              /\ snaps' = [snaps EXCEPT ![r.state] = t]
              /\ owner_of[r.state][p] = r.id /\ Len(o) < p /\ Begins(o, owner_of[r.state])
              /\ Len(t) <= Len(snaps[r.state])
              /\ \A i \in 1..Len(t) : t[i] = snaps[r.state][i]
              /\ Backed(o, t, Len(t) + 1)
              /\ o \in Owners(r.state) \/ (~r.aborted /\ Len(o) = p - 1)
<1>1. SiblingTyped /\ ChainsOK /\ SnapsOK BY DEF SiblingInv
<1>2. r.state \in State /\ r.id \in 1..MaxIds /\ r.aborted \in BOOLEAN /\ last_id \in Ids
  BY <1>1 DEF SiblingTyped
<1>3. PICK o \in Seq(Ids), taken \in Seq(Snapshot) :
        o = owner_of[r.state] /\ taken = snaps[r.state]
  BY <1>1, <1>2 DEF SiblingTyped
<1>4. Stacked(o, taken, last_id) BY <1>1, <1>2, <1>3, StackIs
<1>5. PICK i, p : i = Oldest(r.id, taken) /\ p = Index(o, r.id) OBVIOUS
<1>6. /\ i \in 1..Len(taken) /\ p \in 2..Len(o) /\ o[p] = r.id
      /\ Begins(taken[i].owner, o) /\ Len(taken[i].owner) < p
      /\ NotNeeded(r.id, taken, i) => Backed(SubSeq(o, 1, p - 1), taken, i)
  BY <1>2, <1>3, <1>4, <1>5, OldestIs
<1>7. Len(taken) \in Nat /\ Len(o) \in Nat /\ taken[i].owner \in Seq(Ids)
  BY <1>6, TakenFacts, SeqFacts
<1>8. PICK t \in Seq(Snapshot) :
        t = SubSeq(taken, 1, i - 1) /\ Len(t) = i - 1 /\ \A k \in 1..(i - 1) : t[k] = taken[k]
  BY <1>6, CutTaken
<1>9. Len(t) + 1 = i /\ Len(t) <= Len(taken) /\ \A k \in 1..Len(t) : t[k] = taken[k]
  BY <1>6, <1>7, <1>8
<1>10. CASE r.aborted
  <2>1. snaps' = [snaps EXCEPT ![r.state] = t]
        /\ owner_of' = [owner_of EXCEPT ![r.state] = taken[i].owner]
    BY <1>3, <1>5, <1>8, <1>10 DEF relinquish_ownership
  <2>2. Backed(taken[i].owner, taken, i) BY <1>4, <1>6 DEF Stacked
  <2>3. Backed(taken[i].owner, t, Len(t) + 1)
    <3>1. Backed(taken[i].owner, t, i) BY <1>8, <2>2, BackedSame
    <3> QED BY <1>9, <3>1
  <2>4. taken[i].owner \in Owners(r.state) BY <1>3, <1>6 DEF Owners
  <2> QED BY <1>3, <1>6, <1>7, <1>9, <2>1, <2>3, <2>4
<1>11. CASE ~r.aborted
  <2>1. p - 1 \in 0..Len(o) BY <1>6, <1>7
  <2>2. PICK w \in Seq(Ids) : w = SubSeq(o, 1, p - 1) /\ Len(w) = p - 1 /\ Begins(w, o)
    BY <2>1, Cut
  <2>3. Len(w) < p BY <1>6, <1>7, <2>2
  <2>4. owner_of' = [owner_of EXCEPT ![r.state] = w]
    BY <1>3, <1>5, <1>11, <2>2 DEF relinquish_ownership
  <2>5. CASE NotNeeded(r.id, taken, i)
    <3>1. snaps' = [snaps EXCEPT ![r.state] = t]
      BY <1>3, <1>5, <1>8, <2>5 DEF relinquish_ownership
    <3>2. Backed(w, t, i) BY <1>6, <1>8, <2>2, <2>5, BackedSame
    <3>3. Backed(w, t, Len(t) + 1) BY <1>9, <3>2
    <3> QED BY <1>3, <1>6, <1>9, <1>11, <2>2, <2>3, <2>4, <3>1, <3>3
  <2>6. CASE ~NotNeeded(r.id, taken, i)
    <3>1. snaps' = snaps BY <1>3, <1>5, <1>11, <2>6 DEF relinquish_ownership
    <3>2. snaps' = [snaps EXCEPT ![r.state] = taken] BY <1>1, <1>2, <1>3, <3>1 DEF SiblingTyped
    <3>3. Backed(w, taken, Len(taken) + 1)
      <4>1. \A k \in 2..Len(w) : k \in 2..Len(o) /\ k \in 1..Len(w) BY <1>6, <1>7, <2>2
      <4>2. \A k \in 2..Len(w) : w[k] = o[k] BY <2>2, <4>1 DEF Begins
      <4> QED BY <1>4, <4>1, <4>2 DEF Stacked, Backed
    <3>4. Len(taken) <= Len(taken) BY <1>7
    <3> QED BY <1>3, <1>6, <1>11, <2>2, <2>3, <2>4, <3>2, <3>3, <3>4
  <2> QED BY <2>5, <2>6
<1> QED BY <1>2, <1>10, <1>11

\* A RelinquishOwnership that arrives, in whatever order, keeps the
\* invariant.
LEMMA RelinquishStep ==
    ASSUME SiblingInv, NEW r \in mail, relinquish_ownership(r)
    PROVE  SiblingInv'
<1>1. SiblingTyped /\ CallsOK /\ ChainsOK /\ SnapsOK /\ OwnersOK /\ MailOK
  BY DEF SiblingInv
<1>2. /\ mail' = mail \ {r}
      /\ UNCHANGED <<id, finished, claimed, participants, last_id, gave_way>>
      /\ r.state \in State /\ r.id \in 1..MaxIds
  BY <1>1 DEF relinquish_ownership, SiblingTyped
<1>3. CallsOK' BY <1>1, <1>2 DEF CallsOK
<1>4. OldestProceeds' BY <1>2 DEF SiblingInv, OldestProceeds
<1>5. \A m \in Node : Running(m)' <=> Running(m) BY <1>2 DEF Running
\* The request is not missed by a state it is not for, or for another owner.
<1>6. ASSUME NEW x, NEW z, x # r.id \/ z # r.state, Accounted(x, z)
      PROVE  Accounted(x, z)'
  <2>1. Returns(x, z) => Returns(x, z)' BY <1>2, <1>6 DEF Returns
  <2> QED BY <1>2, <1>5, <1>6, <2>1 DEF Accounted
<1>7. CASE ~Has(owner_of[r.state], r.id)
  <2>1. owner_of' = owner_of /\ snaps' = snaps BY <1>7 DEF relinquish_ownership
  <2>2. SiblingTyped' BY <1>1, <1>2, <2>1 DEF SiblingTyped
  <2>3. ChainsOK'
    <3>1. Known' = Known BY <1>2, <2>1 DEF Known, transaction_ids_of
    <3> QED BY <1>1, <1>2, <3>1 DEF ChainsOK
  <2>4. SnapsOK' BY <1>1, <2>1, SnapsStay
  <2>5. PICK own \in Seq(Ids) : own = owner_of[r.state] BY <1>1, <1>2 DEF SiblingTyped
  <2>6. \A k \in 1..Len(own) : own[k] # r.id BY <1>7, <2>5, HasIs
  <2>7. OwnersOK'
    <3>1. ASSUME NEW z \in State, NEW w \in Owners(z), Len(w) > 1
          PROVE  /\ \A m \in Node : Running(m)' /\ id'[m] = w[Len(w)] => z \in participants'[m]
                 /\ Begins(w, owner_of'[z]) => Accounted(w[Len(w)], z)'
      <4>1. /\ \A m \in Node : Running(m) /\ id[m] = w[Len(w)] => z \in participants[m]
            /\ Begins(w, owner_of[z]) => Accounted(w[Len(w)], z)
        BY <1>1, <3>1 DEF OwnersOK
      <4>2. Len(w) \in 1..Len(w) BY <1>1, <3>1, LastOwner
      <4>3. Begins(w, owner_of[z]) => w[Len(w)] # r.id \/ z # r.state
        <5> SUFFICES ASSUME Begins(w, own), z = r.state PROVE w[Len(w)] # r.id BY <2>5
        <5>1. Len(w) \in 1..Len(own) BY <4>2, SeqFacts DEF Begins
        <5> QED BY <2>6, <4>2, <5>1 DEF Begins
      <4>4. PICK x : x = w[Len(w)] OBVIOUS
      <4>5. Begins(w, owner_of[z]) => Accounted(x, z)' BY <1>6, <4>1, <4>3, <4>4
      <4> QED BY <1>2, <1>5, <2>1, <4>1, <4>4, <4>5
    <3>2. \A z \in State : Owners(z)' = Owners(z) BY <2>1 DEF Owners
    <3> QED BY <3>1, <3>2 DEF OwnersOK
  <2>8. MailOK'
    <3>1. ASSUME NEW q \in mail' PROVE MailRow(q)'
      <4>1. q \in mail /\ MailRow(q) /\ q.state \in State BY <1>1, <1>2 DEF MailOK, SiblingTyped
      <4>2. ASSUME NEW k \in 3..Len(owner_of[q.state]), owner_of[q.state][k] = q.id, ~q.aborted,
                   NEW x, x = owner_of[q.state][k - 1]
            PROVE  Accounted(x, q.state)'
        <5>1. Accounted(x, q.state) BY <4>1, <4>2 DEF MailRow
        <5>2. x # r.id \/ q.state # r.state
          <6> SUFFICES ASSUME q.state = r.state PROVE x # r.id OBVIOUS
          <6>1. Len(own) \in Nat BY SeqFacts
          <6>2. k - 1 \in 1..Len(own) BY <2>5, <4>2, <6>1
          <6> QED BY <2>5, <2>6, <4>2, <6>2
        <5> QED BY <1>6, <5>1, <5>2
      <4>3. ASSUME NEW k \in 3..Len(owner_of[q.state]), owner_of[q.state][k] = q.id, ~q.aborted
            PROVE  Accounted(owner_of[q.state][k - 1], q.state)'
        <5>1. PICK x : x = owner_of[q.state][k - 1] OBVIOUS
        <5>2. Accounted(x, q.state)' BY <4>2, <4>3, <5>1
        <5> QED BY <2>1, <5>1, <5>2
      <4>4. q.id <= last_id' /\ \A m \in Node : Running(m)' => id'[m] # q.id
        BY <1>2, <1>5, <4>1 DEF MailRow
      <4>5. ASSUME NEW k \in 3..Len(owner_of[q.state]), owner_of[q.state][k] = q.id
            PROVE  \A m \in Node : Running(m)' /\ id'[m] = owner_of[q.state][k - 1]
                      => q.state \in participants'[m]
        BY <1>2, <1>5, <4>1, <4>5 DEF MailRow
      <4> QED BY <2>1, <4>3, <4>4, <4>5 DEF MailRow
    <3> QED BY <3>1 DEF MailOK
  <2> QED BY <1>3, <1>4, <2>2, <2>3, <2>4, <2>7, <2>8 DEF SiblingInv
<1>8. CASE Has(owner_of[r.state], r.id)
  <2>1. PICK o \in Seq(Ids), t \in Seq(Snapshot), p \in 2..Len(owner_of[r.state]) :
          /\ owner_of' = [owner_of EXCEPT ![r.state] = o]
          /\ snaps' = [snaps EXCEPT ![r.state] = t]
          /\ owner_of[r.state][p] = r.id /\ Len(o) < p /\ Begins(o, owner_of[r.state])
          /\ Len(t) <= Len(snaps[r.state])
          /\ \A i \in 1..Len(t) : t[i] = snaps[r.state][i]
          /\ Backed(o, t, Len(t) + 1)
          /\ o \in Owners(r.state) \/ (~r.aborted /\ Len(o) = p - 1)
    BY <1>8, RelinquishIs
  <2>2. PICK own \in Seq(Ids) : own = owner_of[r.state] BY <1>1, <1>2 DEF SiblingTyped
  <2>3. PICK taken \in Seq(Snapshot) : taken = snaps[r.state] BY <1>1, <1>2 DEF SiblingTyped
  <2>4. Len(own) \in Nat /\ Len(o) \in Nat /\ Len(t) \in Nat /\ Len(taken) \in Nat
        /\ p \in 2..Len(own) /\ own[p] = r.id /\ Len(o) < p /\ Begins(o, own)
    BY <2>1, <2>2, SeqFacts, TakenFacts
  <2>5. own \in Known BY <1>2, <2>2, KnownIs
  <2>6. \A k \in 2..Len(own) : k # p => own[k] # r.id
    <3>1. Agree(own, own) BY <1>1, <2>5 DEF ChainsOK
    <3> QED BY <2>4, <3>1 DEF Agree
  <2>7. \A i \in 1..Len(t) : i \in 1..Len(taken) /\ t[i] = taken[i]
    <3>1. Len(t) <= Len(taken) /\ \A i \in 1..Len(t) : t[i] = taken[i] BY <2>1, <2>3
    <3> QED BY <2>4, <3>1
  <2>8. /\ ChainsOK'
        /\ owner_of' \in [State -> Seq(Ids)] /\ snaps' \in [State -> Seq(Snapshot)]
        /\ owner_of'[r.state] = o /\ snaps'[r.state] = t
        /\ \A z \in State : z # r.state =>
              owner_of'[z] = owner_of[z] /\ snaps'[z] = snaps[z] /\ Owners(z)' = Owners(z)
    <3>1. \A i \in 1..Len(t) : t[i].ids \in Known BY <1>2, <2>3, <2>7, KnownIs
    <3>2. \E b \in Known : Begins(o, b) BY <2>4, <2>5
    <3> QED BY <1>1, <1>2, <2>1, <3>1, <3>2, StackStep
  <2>9. SiblingTyped' BY <1>1, <1>2, <2>8 DEF SiblingTyped
  <2>10. SnapsOK'
    <3>1. ASSUME NEW i \in 1..Len(t)
          PROVE  Begins(t[i].owner, t[i].ids) /\ Backed(t[i].owner, t, i)
      <4>1. Begins(taken[i].owner, taken[i].ids) /\ Backed(taken[i].owner, taken, i)
        BY <1>1, <1>2, <2>3, <2>7 DEF SnapsOK
      <4>2. ASSUME NEW k \in 1..(i - 1) PROVE t[k] = taken[k]
        <5>1. i \in Nat /\ i <= Len(t) /\ Len(t) \in Nat BY <2>4
        <5>2. k \in 1..Len(t) BY <5>1
        <5> QED BY <2>7, <5>2
      <4>3. Backed(taken[i].owner, t, i) BY <4>1, <4>2, BackedSame
      <4> QED BY <2>7, <4>1, <4>3
    <3> QED BY <1>1, <1>2, <2>1, <2>8, <3>1, SnapsStep
  <2>11. MailRow(r) BY <1>1 DEF MailOK
  <2>12. OwnersOK'
    <3>1. ASSUME NEW z \in State, NEW w \in Owners(z)', Len(w) > 1, NEW x, x = w[Len(w)]
          PROVE  /\ \A m \in Node : Running(m) /\ id[m] = x => z \in participants[m]
                 /\ Begins(w, owner_of'[z]) => Accounted(x, z)'
      <4>1. CASE z # r.state
        <5>1. w \in Owners(z) /\ owner_of'[z] = owner_of[z] BY <2>8, <4>1
        <5>2. /\ \A m \in Node : Running(m) /\ id[m] = x => z \in participants[m]
              /\ Begins(w, owner_of[z]) => Accounted(x, z)
          BY <1>1, <3>1, <5>1 DEF OwnersOK
        <5>3. Accounted(x, z) => Accounted(x, z)' BY <1>6, <4>1
        <5> QED BY <5>1, <5>2, <5>3
      <4>2. CASE z = r.state /\ w \in Owners(z)
        <5>1. /\ \A m \in Node : Running(m) /\ id[m] = x => z \in participants[m]
              /\ Begins(w, own) => Accounted(x, z)
          BY <1>1, <2>2, <3>1, <4>2 DEF OwnersOK
        <5>2. w \in Seq(Ids) /\ Len(w) \in 2..Len(w) BY <1>1, <3>1, <4>2, LastOwner
        <5>3. ASSUME Begins(w, o) PROVE Accounted(x, z)'
          <6>1. Begins(w, own) BY <2>4, <5>2, <5>3, BeginsTrans
          <6>2. Len(w) \in 2..Len(own) /\ Len(w) # p /\ Len(w) \in 1..Len(w)
            BY <2>4, <5>2, <5>3, <6>1, SeqFacts DEF Begins
          <6>3. x # r.id BY <2>6, <3>1, <6>1, <6>2 DEF Begins
          <6> QED BY <1>6, <5>1, <6>1, <6>3
        <5> QED BY <2>8, <4>2, <5>1, <5>3
      <4>3. CASE z = r.state /\ w \notin Owners(z)
        <5>1. w = o
          <6>1. w = o \/ \E i \in 1..Len(t) : w = t[i].owner BY <2>8, <4>3 DEF Owners
          <6>2. ASSUME NEW i \in 1..Len(t) PROVE t[i].owner \in Owners(r.state)
            BY <2>3, <2>7 DEF Owners
          <6> QED BY <4>3, <6>1, <6>2
        <5>2. ~r.aborted /\ Len(o) = p - 1 BY <2>1, <4>3, <5>1
        <5>3. p \in 3..Len(own) /\ p - 1 \in 1..Len(o) /\ p - 1 \in 2..Len(own) /\ p - 1 # p
          BY <2>4, <3>1, <5>1, <5>2
        <5>4. x = own[p - 1] BY <2>4, <3>1, <5>1, <5>2, <5>3 DEF Begins
        <5>5. /\ \A m \in Node : Running(m) /\ id[m] = x => r.state \in participants[m]
              /\ Accounted(x, r.state)
          BY <2>2, <2>4, <2>11, <5>2, <5>3, <5>4 DEF MailRow
        <5>6. x # r.id BY <2>6, <5>3, <5>4
        <5> QED BY <1>6, <4>3, <5>5, <5>6
      <4> QED BY <4>1, <4>2, <4>3
    <3>2. ASSUME NEW z \in State, NEW w \in Owners(z)', Len(w) > 1
          PROVE  /\ \A m \in Node : Running(m)' /\ id'[m] = w[Len(w)] => z \in participants'[m]
                 /\ Begins(w, owner_of'[z]) => Accounted(w[Len(w)], z)'
      <4>1. PICK x : x = w[Len(w)] OBVIOUS
      <4>2. /\ \A m \in Node : Running(m) /\ id[m] = x => z \in participants[m]
            /\ Begins(w, owner_of'[z]) => Accounted(x, z)'
        BY <3>1, <3>2, <4>1
      <4> QED BY <1>2, <1>5, <4>1, <4>2
    <3> QED BY <3>2 DEF OwnersOK
  <2>13. MailOK'
    <3>1. ASSUME NEW q \in mail' PROVE MailRow(q)'
      <4>1. q \in mail /\ MailRow(q) /\ q.state \in State BY <1>1, <1>2 DEF MailOK, SiblingTyped
      <4>2. ASSUME NEW k \in 3..Len(owner_of'[q.state]), owner_of'[q.state][k] = q.id,
                   NEW x, x = owner_of'[q.state][k - 1]
            PROVE  /\ \A m \in Node : Running(m) /\ id[m] = x => q.state \in participants[m]
                   /\ ~q.aborted => Accounted(x, q.state)'
        <5>1. CASE q.state # r.state
          <6>1. owner_of'[q.state] = owner_of[q.state] BY <2>8, <4>1, <5>1
          <6>2. /\ \A m \in Node : Running(m) /\ id[m] = x => q.state \in participants[m]
                /\ ~q.aborted => Accounted(x, q.state)
            BY <4>1, <4>2, <6>1 DEF MailRow
          <6> QED BY <1>6, <5>1, <6>2
        <5>2. CASE q.state = r.state
          <6>1. k \in 3..Len(o) /\ o[k] = q.id /\ x = o[k - 1] BY <2>8, <4>2, <5>2
          <6>2. k \in 3..Len(own) /\ k \in 1..Len(o) /\ k - 1 \in 1..Len(o)
                /\ k - 1 \in 2..Len(own) /\ k - 1 # p
            BY <2>4, <6>1 DEF Begins
          <6>3. own[k] = q.id /\ x = own[k - 1] BY <2>4, <6>1, <6>2 DEF Begins
          <6>4. /\ \A m \in Node : Running(m) /\ id[m] = x => q.state \in participants[m]
                /\ ~q.aborted => Accounted(x, q.state)
            BY <2>2, <4>1, <5>2, <6>2, <6>3 DEF MailRow
          <6>5. x # r.id BY <2>6, <6>2, <6>3
          <6> QED BY <1>6, <6>4, <6>5
        <5> QED BY <5>1, <5>2
      <4>3. ASSUME NEW k \in 3..Len(owner_of'[q.state]), owner_of'[q.state][k] = q.id
            PROVE  /\ \A m \in Node : Running(m)' /\ id'[m] = owner_of'[q.state][k - 1]
                         => q.state \in participants'[m]
                   /\ ~q.aborted => Accounted(owner_of[q.state][k - 1], q.state)'
        <5>1. PICK x : x = owner_of'[q.state][k - 1] OBVIOUS
        <5>2. /\ \A m \in Node : Running(m) /\ id[m] = x => q.state \in participants[m]
              /\ ~q.aborted => Accounted(x, q.state)'
          BY <4>2, <4>3, <5>1
        <5> QED BY <1>2, <1>5, <5>1, <5>2
      <4>4. q.id <= last_id' /\ \A m \in Node : Running(m)' => id'[m] # q.id
        BY <1>2, <1>5, <4>1 DEF MailRow
      <4> QED BY <4>3, <4>4 DEF MailRow
    <3> QED BY <3>1 DEF MailOK
  <2> QED BY <1>3, <1>4, <2>8, <2>9, <2>10, <2>12, <2>13 DEF SiblingInv
<1> QED BY <1>7, <1>8

-----------------------------------------------------------------------------
(* Who is presumed deadlocked.                                             *)

\* The chains of who waits and of the owner part at a level below the root's,
\* where the victim is the younger.
LEMMA PresumedIs ==
    ASSUME SiblingTyped, CallsOK, ChainsOK, NEW n \in Node, NEW s \in State, Running(n),
           presumed_deadlocked_nested_transaction(IdsOf(id, n), owner_of[s]) # RootId
    PROVE  \E i \in 2..Level(n) :
              /\ i <= Len(owner_of[s])
              /\ \A k \in 1..(i - 1) : owner_of[s][k] = IdsOf(id, n)[k]
              /\ owner_of[s][i] < IdsOf(id, n)[i]
              /\ presumed_deadlocked_nested_transaction(IdsOf(id, n), owner_of[s])
                    = IdsOf(id, n)[i]
<1>1. id \in [Node -> Ids] BY DEF SiblingTyped
<1>2. PICK c \in Seq(Ids), o \in Seq(Ids) : c = IdsOf(id, n) /\ o = owner_of[s]
  BY <1>1, IdsAre DEF SiblingTyped
<1>3. /\ Len(c) \in Nat /\ DOMAIN c = 1..Len(c) /\ Len(o) \in Nat /\ DOMAIN o = 1..Len(o)
      /\ Len(c) = Level(n) /\ c[1] = RootId
  BY <1>1, <1>2, SeqFacts, IdsAre
<1>4. ChainLike(o, last_id) BY <1>2, KnownIs DEF ChainsOK
<1> DEFINE Part == {i \in DOMAIN c : i \in DOMAIN o /\ c[i] # o[i]}
           j == CHOOSE i \in Part : \A k \in Part : i <= k
<1>5. /\ Part # {} /\ c[j] > o[j]
      /\ presumed_deadlocked_nested_transaction(c, o) = c[j]
  BY <1>2 DEF presumed_deadlocked_nested_transaction
<1>6. Part \in SUBSET Nat BY <1>3
<1>7. \E i \in Part : \A k \in Part : i <= k
  <2> HIDE DEF Part
  <2> QED BY <1>5, <1>6, Least
<1>8. j \in Part /\ \A k \in Part : j <= k
  <2> HIDE DEF Part
  <2> QED BY <1>7
<1>9. PICK i : i = j OBVIOUS
<1>10. i \in 1..Len(c) /\ i \in 1..Len(o) /\ c[i] # o[i] BY <1>3, <1>8, <1>9
<1>11. i # 1 BY <1>3, <1>4, <1>10 DEF ChainLike
<1>12. i \in 2..Level(n) /\ i <= Len(o) BY <1>3, <1>10, <1>11
<1>13. ASSUME NEW k \in 1..(i - 1) PROVE o[k] = c[k]
  <2>1. k \in 1..Len(c) /\ k \in 1..Len(o) /\ ~(i <= k) BY <1>3, <1>10
  <2>2. k \notin Part BY <1>8, <1>9, <2>1
  <2> QED BY <1>3, <2>1, <2>2
<1>14. c[i] \in Nat /\ o[i] \in Nat BY <1>10, SeqFacts, SiblingAssumption DEF Ids
<1>15. o[i] < c[i] BY <1>5, <1>9, <1>14
<1> HIDE DEF j, Part
<1> QED BY <1>2, <1>5, <1>9, <1>12, <1>13, <1>15

\* Where two chains part, the calls have the same caller.
LEMMA PartedSiblings ==
    ASSUME SiblingTyped, CallsOK, NEW n \in Node, NEW m \in Node, Running(n), Running(m),
           NEW i \in 2..Level(n), i \in 2..Level(m),
           \A k \in 1..(i - 1) : IdsOf(id, m)[k] = IdsOf(id, n)[k]
    PROVE  Up[chain[m][i]] = Up[chain[n][i]]
<1> HIDE DEF chain
<1>1. id \in [Node -> Ids] BY DEF SiblingTyped
<1>2. Level(n) \in Nat /\ Level(m) \in Nat BY <1>1, IdsAre
<1>3. CASE i = 2 BY <1>3, CallerPlace
<1>4. CASE i # 2
  <2>1. i > 2 /\ i - 1 \in 2..Level(n) /\ i - 1 \in 2..Level(m) /\ i - 1 \in 1..(i - 1)
    BY <1>2, <1>4
  <2>2. PICK a, b : a = chain[m][i - 1] /\ b = chain[n][i - 1] OBVIOUS
  <2>3. Up[chain[m][i]] = a /\ Up[chain[n][i]] = b BY <2>1, <2>2, CallerPlace
  <2>4. a \in Node /\ Running(a) /\ IdsOf(id, m)[i - 1] = id[a] BY <2>1, <2>2, RunningUp
  <2>5. b \in Node /\ Running(b) /\ IdsOf(id, n)[i - 1] = id[b] BY <2>1, <2>2, RunningUp
  <2>6. id[a] = id[b] /\ id[b] # 0 BY <2>1, <2>4, <2>5 DEF Running
  <2> QED BY <2>3, <2>4, <2>5, <2>6 DEF CallsOK
<1> QED BY <1>3, <1>4

\* The victim is around who waits, and an older sibling of it owns the state.
LEMMA VictimIs ==
    ASSUME SiblingInv, NEW n \in Node, NEW s \in State, Running(n), NEW x, x # RootId,
           x = presumed_deadlocked_nested_transaction(IdsOf(id, n), owner_of[s])
    PROVE  \E v \in Node :
              /\ Running(v) /\ id[v] = x /\ v = CHOOSE m \in Node : id[m] = x
              /\ \E y \in Siblings(v) : y < x
<1> HIDE DEF chain
<1>1. SiblingTyped /\ CallsOK /\ ChainsOK /\ SnapsOK /\ OwnersOK BY DEF SiblingInv
<1>2. id \in [Node -> Ids] BY <1>1 DEF SiblingTyped
<1>3. PICK c \in Seq(Ids), o \in Seq(Ids) : c = IdsOf(id, n) /\ o = owner_of[s]
  BY <1>1, <1>2, IdsAre DEF SiblingTyped
<1>4. PICK i \in 2..Level(n) : /\ i <= Len(o) /\ \A k \in 1..(i - 1) : o[k] = c[k]
                               /\ o[i] < c[i] /\ x = c[i]
  BY <1>1, <1>3, PresumedIs
<1>5. PICK v \in Node : v = chain[n][i] /\ Running(v) /\ id[v] = x
  BY <1>1, <1>3, <1>4, RunningUp
<1>6. v = CHOOSE m \in Node : id[m] = x
  BY <1>1, <1>5 DEF CallsOK, Running
<1>7. Level(v) = i /\ Begins(IdsOf(id, v), c) BY <1>2, <1>3, <1>5, IdsAbove
<1>8. PICK d \in Seq(Ids) : d = IdsOf(id, v) BY <1>2, IdsAre
<1>9. Len(d) = i /\ i \in Nat /\ i >= 2 /\ Len(o) \in Nat /\ Level(n) \in Nat
  BY <1>2, <1>4, <1>7, <1>8, IdsAre, SeqFacts
<1>10. \A k \in 1..(i - 1) : o[k] = d[k]
  BY <1>4, <1>7, <1>8, <1>9 DEF Begins
<1>11. Len(o) > 1 /\ o \in Owners(s) /\ Begins(o, owner_of[s]) /\ o \in Known
  BY <1>3, <1>4, <1>9, KnownIs DEF Owners, Begins
<1>12. Accounted(o[Len(o)], s) BY <1>1, <1>11 DEF OwnersOK
<1>13. o[i] \in Siblings(v)
  <2>1. CASE Returns(o[Len(o)], s)
    <3>1. PICK r \in mail : r.id = o[Len(o)] /\ r.state = s BY <2>1 DEF Returns
    <3>2. Has(o, r.id)
      <4>1. Len(o) \in 1..Len(o) BY <1>9, <1>11
      <4> QED BY <3>1, <4>1, HasIs
    <3>3. o \in {owner_of[q.state] : q \in {q \in mail : Has(owner_of[q.state], q.id)}}
      BY <1>3, <3>1, <3>2
    <3>4. Len(o) >= Len(d) /\ \A k \in 1..(Len(d) - 1) : o[k] = d[k]
      BY <1>4, <1>9, <1>10
    <3>5. Siblings(v) =
            {id[m] : m \in {k \in Node : Up[k] = Up[v] /\ Running(k)}} \cup
            {w[Len(d)] : w \in {w \in {owner_of[q.state] : q \in
                                         {q \in mail : Has(owner_of[q.state], q.id)}} :
                Len(w) >= Len(d) /\ \A k \in 1..(Len(d) - 1) : w[k] = d[k]}}
      BY <1>8, TransactionIds, Zenon DEF Siblings
    <3>6. o[Len(d)] \in Siblings(v) BY <3>3, <3>4, <3>5, Zenon
    <3> QED BY <1>9, <3>6
  <2>2. CASE ~Returns(o[Len(o)], s)
    <3>1. PICK m \in Node : Running(m) /\ id[m] = o[Len(o)] BY <1>12, <2>2 DEF Accounted
    <3>2. Len(o) \in 2..Len(o) /\ id[m] # 0 BY <1>9, <1>11, <3>1 DEF Running
    <3>3. Len(o) = Level(m) /\ \A k \in 1..Len(o) : o[k] = IdsOf(id, m)[k]
      BY <1>1, <1>11, <3>1, <3>2, AtId
    <3>4. i \in 2..Level(m) /\ i \in 1..Len(o) BY <1>4, <1>9, <3>3
    <3>5. PICK a \in Node : a = chain[m][i] /\ Running(a) /\ id[a] = o[i]
      BY <1>1, <3>1, <3>3, <3>4, RunningUp
    <3>6. Up[a] = Up[v]
      <4>1. \A k \in 1..(i - 1) : IdsOf(id, m)[k] = IdsOf(id, n)[k]
        BY <1>3, <1>4, <1>9, <3>3
      <4> QED BY <1>1, <1>5, <3>1, <3>4, <3>5, <4>1, PartedSiblings
    <3>7. id[a] \in Siblings(v) BY <3>5, <3>6 DEF Siblings
    <3> QED BY <3>5, <3>7
  <2> QED BY <2>1, <2>2
<1> QED BY <1>4, <1>5, <1>6, <1>13

\* What rolls back with a call: it, and all that is within it.
LEMMA GoneIs ==
    ASSUME SiblingTyped, CallsOK, NEW v \in Node, id[v] # 0, NEW gone,
           gone = {m \in Within(v) : id[m] # 0}
    PROVE  /\ gone \in SUBSET Node /\ v \in gone /\ \A m \in gone : id[m] # 0
           /\ \A m \in Node : m \notin gone /\ id[m] # 0 /\ Up[m] # Top => Up[m] \notin gone
           /\ \A m \in gone : m # v => Up[m] # Top /\ Up[m] \in gone
<1> HIDE DEF chain
<1>1. id \in [Node -> Ids] BY DEF SiblingTyped
<1>2. \A m \in Node : m \in gone <=> id[m] # 0 /\ \E k \in 1..Level(m) : IdsOf(id, m)[k] = id[v]
  <2>1. ASSUME NEW m \in Node
        PROVE  Has(transaction_ids_of(m), id[v]) <=> \E k \in 1..Level(m) : IdsOf(id, m)[k] = id[v]
    <3>1. PICK c \in Seq(Ids) : c = IdsOf(id, m) /\ Len(c) = Level(m) BY <1>1, IdsAre
    <3>2. transaction_ids_of(m) = c BY <3>1, TransactionIds
    <3> QED BY <3>1, <3>2, HasIs
  <2> QED BY <2>1 DEF Within
<1>3. gone \in SUBSET Node /\ \A m \in gone : id[m] # 0 BY DEF Within
<1>4. v \in gone
  <2>1. Level(v) \in 1..Level(v) /\ IdsOf(id, v)[Level(v)] = id[v] BY <1>1, IdsAre
  <2> QED BY <1>2, <2>1
<1>5. ASSUME NEW m \in Node, m \notin gone, id[m] # 0, Up[m] # Top PROVE Up[m] \notin gone
  <2> SUFFICES ASSUME Up[m] \in gone PROVE FALSE OBVIOUS
  <2>1. Up[m] \in Node BY <1>3
  <2>2. PICK k \in 1..Level(Up[m]) : IdsOf(id, Up[m])[k] = id[v] BY <1>2, <2>1
  <2>3. Len(IdsOf(id, Up[m])) = Level(Up[m]) /\ Len(IdsOf(id, m)) = Level(m)
        /\ Level(m) \in Nat /\ Level(Up[m]) \in Nat
    BY <1>1, <2>1, IdsAre
  <2>4. Begins(IdsOf(id, Up[m]), IdsOf(id, m)) BY <1>1, <1>5, IdsUp
  <2>5. k \in 1..Level(m) /\ IdsOf(id, m)[k] = id[v] BY <2>2, <2>3, <2>4 DEF Begins
  <2> QED BY <1>2, <1>5, <2>5
<1>6. ASSUME NEW m \in gone, m # v PROVE Up[m] # Top /\ Up[m] \in gone
  <2>1. m \in Node /\ id[m] # 0 BY <1>3
  <2>2. PICK k \in 1..Level(m) : IdsOf(id, m)[k] = id[v] BY <1>2, <2>1
  <2>3. Level(m) \in Nat /\ IdsOf(id, m)[1] = RootId /\ IdsOf(id, m)[Level(m)] = id[m]
    BY <1>1, <2>1, IdsAre
  <2>4. k # 1 BY <2>2, <2>3 DEF RootId
  <2>5. k # Level(m) BY <1>6, <2>1, <2>2, <2>3 DEF CallsOK
  <2>6. Up[m] # Top BY <2>1, <2>2, <2>3, <2>4, <2>5, Places DEF Placed
  <2>7. Up[m] \in Node /\ Level(m) = Level(Up[m]) + 1 /\ Begins(IdsOf(id, Up[m]), IdsOf(id, m))
    BY <1>1, <2>1, <2>6, IdsUp
  <2>8. Len(IdsOf(id, Up[m])) = Level(Up[m]) /\ Level(Up[m]) \in Nat BY <1>1, <2>7, IdsAre
  <2>9. k \in 1..Level(Up[m]) BY <2>2, <2>3, <2>5, <2>7, <2>8
  <2>10. IdsOf(id, Up[m])[k] = id[v] BY <2>2, <2>7, <2>8, <2>9 DEF Begins
  <2>11. id[Up[m]] # 0 BY <2>1, <2>6 DEF CallsOK
  <2> QED BY <1>2, <2>6, <2>7, <2>9, <2>10, <2>11
<1> QED BY <1>3, <1>4, <1>5, <1>6

\* The victim and what is within it go; its caller will relinquish for it.
LEMMA OnGraceStep ==
    ASSUME SiblingInv, NEW n \in Node, NEW s \in State, OnGrace(n, s)
    PROVE  SiblingInv'
<1> HIDE DEF chain
<1>1. SiblingTyped /\ CallsOK /\ ChainsOK /\ SnapsOK /\ OwnersOK /\ MailOK /\ OldestProceeds
  BY DEF SiblingInv
<1>2. /\ id \in [Node -> Ids] /\ last_id \in Nat /\ finished \in SUBSET Node
      /\ participants \in [Node -> SUBSET State] /\ claimed \in [Node -> SUBSET State]
  BY <1>1, SiblingAssumption DEF SiblingTyped, Ids
<1>3. PICK x : x = presumed_deadlocked_nested_transaction(IdsOf(id, n), owner_of[s]) OBVIOUS
<1>4. Running(n) /\ x # RootId BY <1>3, TransactionIds DEF OnGrace, Awaits
<1>5. PICK v \in Node : /\ Running(v) /\ id[v] = x /\ v = CHOOSE m \in Node : id[m] = x
                        /\ \E y \in Siblings(v) : y < x
  BY <1>3, <1>4, VictimIs
<1>6. PICK gone : gone = {m \in Within(v) : id[m] # 0} OBVIOUS
<1>7. /\ mail' = mail \cup
            {r \in Relinquished(gone \ finished, TRUE) :
               \E m \in gone : id[m] = r.id /\ r.state \in participants[m]}
      /\ gave_way' = gave_way \cup {<<x, Siblings(v)>>}
      /\ id' = [m \in Node |-> IF m \in gone THEN 0 ELSE id[m]]
      /\ finished' = finished \ gone
      /\ claimed' = [m \in Node |-> IF m \in gone THEN {} ELSE claimed[m]]
      /\ participants' = [m \in Node |->
            IF m \in gone THEN {}
            ELSE IF m = Up[v] THEN participants[m] \cup participants[v]
            ELSE participants[m]]
      /\ UNCHANGED <<owner_of, snaps, last_id>>
  <2>1. PICK vs, gs : vs = (CHOOSE m \in Node : id[m] = x) /\ gs = {m \in Within(vs) : id[m] # 0}
    OBVIOUS
  <2>2. vs = v /\ gs = gone BY <1>5, <1>6, <2>1
  <2> QED BY <1>3, <2>1, <2>2, TransactionIds, Zenon DEF OnGrace
<1>8. /\ gone \in SUBSET Node /\ v \in gone /\ \A m \in gone : id[m] # 0
      /\ \A m \in Node : m \notin gone /\ id[m] # 0 /\ Up[m] # Top => Up[m] \notin gone
      /\ \A m \in gone : m # v => Up[m] # Top /\ Up[m] \in gone
  <2>1. id[v] # 0 BY <1>5 DEF Running
  <2> QED BY <1>1, <1>6, <2>1, GoneIs
<1>9. /\ \A r \in mail' : r \in mail \/ \E m \in gone \ finished :
            /\ r = [id |-> id[m], state |-> r.state, aborted |-> TRUE]
            /\ r.id = id[m] /\ r.aborted /\ r.state \in State /\ r.state \in participants[m]
      /\ \A m \in gone \ finished : \A z \in participants[m] :
            [id |-> id[m], state |-> z, aborted |-> TRUE] \in mail'
  <2>1. ASSUME NEW r \in mail', r \notin mail
        PROVE  \E m \in gone \ finished :
                  /\ r = [id |-> id[m], state |-> r.state, aborted |-> TRUE]
                  /\ r.id = id[m] /\ r.aborted /\ r.state \in State
                  /\ r.state \in participants[m]
    <3>1. r \in Relinquished(gone \ finished, TRUE)
          /\ \E m \in gone : id[m] = r.id /\ r.state \in participants[m]
      BY <1>7, <2>1
    <3>2. PICK l \in gone : id[l] = r.id /\ r.state \in participants[l] BY <3>1
    <3>3. PICK m \in gone \ finished, z \in State :
            r = [id |-> id[m], state |-> z, aborted |-> TRUE]
      BY <3>1 DEF Relinquished
    <3>4. r.id = id[m] /\ r.state = z /\ r.aborted BY <3>3
    <3>5. l = m BY <1>1, <1>8, <3>2, <3>4 DEF CallsOK
    <3> QED BY <3>2, <3>3, <3>4, <3>5
  <2>2. ASSUME NEW m \in gone \ finished, NEW z \in participants[m]
        PROVE  [id |-> id[m], state |-> z, aborted |-> TRUE] \in mail'
    <3>1. z \in State BY <1>2, <1>8
    <3>2. PICK r : r = [id |-> id[m], state |-> z, aborted |-> TRUE] OBVIOUS
    <3>3. r \in Relinquished(gone \ finished, TRUE)
      <4>1. PICK S : S = gone \ finished OBVIOUS
      <4>2. m \in S BY <4>1
      <4> DEFINE Request(l, y) == [id |-> id[l], state |-> y, aborted |-> TRUE]
      <4>3. r = Request(m, z) BY <3>2
      <4>4. r \in {Request(l, y) : l \in S, y \in State}
        <5> HIDE DEF Request
        <5> QED BY <3>1, <4>2, <4>3
      <4> QED BY <4>1, <4>4 DEF Relinquished
    <3>4. r.id = id[m] /\ r.state = z BY <3>2
    <3>5. r \in mail' BY <1>7, <3>3, <3>4
    <3> QED BY <3>2, <3>5
  <2> QED BY <2>1, <2>2
<1>10. id' \in [Node -> Ids] /\ (\A m \in gone : id'[m] = 0)
       /\ \A m \in Node : m \notin gone => id'[m] = id[m]
  BY <1>2, <1>7, <1>8, SiblingAssumption DEF Ids
<1>11. SiblingTyped'
  <2>1. mail' \in SUBSET [id : 1..MaxIds, state : State, aborted : BOOLEAN]
    <3>1. ASSUME NEW r \in mail', r \notin mail
          PROVE  r \in [id : 1..MaxIds, state : State, aborted : BOOLEAN]
      <4>1. PICK m \in gone \ finished :
              /\ r = [id |-> id[m], state |-> r.state, aborted |-> TRUE] /\ r.state \in State
        BY <1>9, <3>1
      <4>2. id[m] \in 1..MaxIds BY <1>2, <1>8, SiblingAssumption DEF Ids
      <4>3. PICK z \in State : r = [id |-> id[m], state |-> z, aborted |-> TRUE] BY <4>1
      <4> QED BY <4>2, <4>3
    <3> QED BY <1>1, <3>1 DEF SiblingTyped
  <2>2. participants' \in [Node -> SUBSET State] BY <1>2, <1>7
  <2>3. claimed' \in [Node -> SUBSET State] BY <1>2, <1>7
  <2> QED BY <1>1, <1>2, <1>7, <1>10, <2>1, <2>2, <2>3 DEF SiblingTyped
<1>12. v \notin finished BY <1>5 DEF Running
<1>13. CallsOK'
  <2>1. \A m \in Node : id'[m] <= last_id' BY <1>1, <1>2, <1>7, <1>10 DEF CallsOK
  <2>2. \A l, m \in Node : id'[l] = id'[m] /\ id'[m] # 0 => l = m BY <1>1, <1>10 DEF CallsOK
  <2>3. \A m \in finished' : id'[m] # 0 BY <1>1, <1>2, <1>7, <1>10 DEF CallsOK
  <2>4. \A m \in Node : id'[m] # 0 /\ Up[m] # Top => id'[Up[m]] # 0
    BY <1>1, <1>8, <1>10, SiblingAssumption DEF CallsOK
  <2>5. ASSUME NEW m \in Node, Up[m] \in finished' PROVE m \in finished'
    <3>1. Up[m] \in finished /\ Up[m] \notin gone BY <1>7, <2>5
    <3>2. m \in finished BY <1>1, <3>1 DEF CallsOK
    <3>3. m # v BY <1>12, <3>2
    <3> QED BY <1>7, <1>8, <3>1, <3>2, <3>3
  <2> QED BY <2>1, <2>2, <2>3, <2>4, <2>5 DEF CallsOK
<1>14. ChainsOK'
  <2>1. \A m \in Node : id'[m] # 0 => id[m] # 0 /\ IdsOf(id', m) = IdsOf(id, m)
    <3> DEFINE S == {m \in Node : m \notin gone /\ id[m] # 0}
    <3>1. \A m \in S : Up[m] # Top => Up[m] \in S BY <1>1, <1>8, SiblingAssumption DEF CallsOK
    <3>2. PICK f \in [Node -> Ids], g \in [Node -> Ids] : f = id /\ g = id' BY <1>2, <1>10
    <3>3. \A m \in S : f[m] = g[m] BY <1>10, <3>2
    <3>4. S \in SUBSET Node OBVIOUS
    <3>5. ASSUME NEW m \in S PROVE IdsOf(f, m) = IdsOf(g, m)
      <4> HIDE DEF S
      <4> QED BY <3>1, <3>3, <3>4, IdsSame
    <3>6. \A m \in Node : id'[m] # 0 => m \in S BY <1>10
    <3> QED BY <3>2, <3>5, <3>6
  <2>2. \A a \in Known : a \in Seq(Ids) /\ Begins(a, a)
    <3>1. \A a \in Known : a \in Seq(Ids) BY <1>1 DEF ChainsOK, ChainLike
    <3>2. \A a \in Known : Len(a) \in Nat BY <3>1, SeqFacts
    <3> QED BY <3>1, <3>2 DEF Begins
  <2>3. ASSUME NEW a \in Known' PROVE a \in Known
    <3>1. \/ \E m \in Node : id'[m] # 0 /\ a = IdsOf(id', m)
          \/ \E z \in State : a = owner_of[z]
          \/ \E z \in State : \E i \in 1..Len(snaps[z]) : a = snaps[z][i].ids
      <4>1. \A m : transaction_ids_of(m)' = IdsOf(id', m) BY DEF transaction_ids_of, IdsOf
      <4> QED BY <1>7, <4>1 DEF Known
    <3>2. CASE \E m \in Node : id'[m] # 0 /\ a = IdsOf(id', m) BY <2>1, <3>2, KnownIs
    <3>3. CASE \E z \in State : a = owner_of[z] BY <3>3, KnownIs
    <3>4. CASE \E z \in State : \E i \in 1..Len(snaps[z]) : a = snaps[z][i].ids
      BY <3>4, KnownIs
    <3> QED BY <3>1, <3>2, <3>3, <3>4
  <2>4. last_id \in Ids /\ last_id' = last_id BY <1>1, <1>7 DEF SiblingTyped
  <2>5. \A a \in Known' : a \in Seq(Ids) /\ \E b \in Known : Begins(a, b) BY <2>2, <2>3
  <2> QED BY <1>1, <2>4, <2>5, ChainsStay
<1>15. SnapsOK' BY <1>1, <1>7, SnapsStay
<1>16. \A m \in Node : Running(m)' <=> Running(m) /\ m \notin gone
  BY <1>7, <1>8, <1>10 DEF Running
<1>17. \A m \in Node : m \notin gone => participants[m] \subseteq participants'[m] BY <1>7
<1>18. OwnersOK' /\ \A r \in mail : MailRow(r)'
  <2>1. \A m \in Node : Running(m)' /\ id'[m] <= last_id =>
           Running(m) /\ id'[m] = id[m] /\ participants[m] \subseteq participants'[m]
    BY <1>10, <1>16, <1>17
  <2>2. ASSUME NEW m \in Node, Running(m)
        PROVE  \/ Running(m)' /\ id'[m] = id[m]
               \/ \A z \in participants[m] : \E r \in mail' : r.id = id[m] /\ r.state = z
    <3>1. CASE m \notin gone BY <1>10, <1>16, <2>2, <3>1
    <3>2. CASE m \in gone
      <4>1. m \in gone \ finished BY <2>2, <3>2 DEF Running
      <4>2. ASSUME NEW z \in participants[m] PROVE \E r \in mail' : r.id = id[m] /\ r.state = z
        <5>1. PICK r : r = [id |-> id[m], state |-> z, aborted |-> TRUE] OBVIOUS
        <5>2. r \in mail' /\ r.id = id[m] /\ r.state = z BY <1>9, <4>1, <5>1
        <5> QED BY <5>2
      <4> QED BY <4>2
    <3> QED BY <3>1, <3>2
  <2>3. last_id' \in Ids /\ last_id <= last_id' /\ mail \subseteq mail'
    <3>1. mail \subseteq mail' BY <1>7
    <3>2. last_id' = last_id BY <1>7
    <3> QED BY <1>1, <1>2, <3>1, <3>2 DEF SiblingTyped
  <2> QED BY <1>1, <1>7, <2>1, <2>2, <2>3, LifeStep
<1>19. ASSUME NEW r \in mail', r \notin mail PROVE MailRow(r)'
  <2>1. PICK l \in gone \ finished :
          r.id = id[l] /\ r.aborted /\ r.state \in State /\ r.state \in participants[l]
    BY <1>9, <1>19
  <2>2. l \in Node /\ id[l] # 0 /\ l \in gone BY <1>8
  <2>3. r.id <= last_id' BY <1>1, <1>7, <2>1, <2>2 DEF CallsOK
  <2>4. \A m \in Node : Running(m)' => id'[m] # r.id
    BY <1>1, <1>10, <1>16, <2>1, <2>2 DEF CallsOK
  <2>5. ASSUME NEW k \in 3..Len(owner_of[r.state]), owner_of[r.state][k] = r.id,
               NEW m \in Node, Running(m)', id'[m] = owner_of[r.state][k - 1]
        PROVE  r.state \in participants'[m]
    <3>1. owner_of[r.state] \in Known BY <2>1, KnownIs
    <3>2. k \in 2..Len(owner_of[r.state]) /\ k \in Nat /\ k >= 3 /\ k - 1 \in 1..k
      BY <1>1, <2>1, SeqFacts DEF SiblingTyped
    <3>3. k = Level(l) /\ owner_of[r.state][k - 1] = IdsOf(id, l)[k - 1]
      BY <1>1, <2>1, <2>2, <2>5, <3>1, <3>2, AtId
    <3>4. Up[l] # Top BY <2>2, <3>2, <3>3, Places DEF Placed
    <3>5. Up[l] \in Node /\ IdsOf(id, l)[k - 1] = id[Up[l]] BY <1>2, <2>2, <3>3, <3>4, IdsUp
    <3>6. id[m] = id[Up[l]] /\ id[m] # 0 /\ m \notin gone
      BY <1>10, <1>16, <2>5, <3>3, <3>5 DEF Running
    <3>7. m = Up[l] BY <1>1, <3>5, <3>6 DEF CallsOK
    <3>8. l = v BY <1>8, <2>2, <3>6, <3>7
    <3> QED BY <1>7, <2>1, <3>6, <3>7, <3>8
  <2> QED BY <1>7, <2>1, <2>3, <2>4, <2>5 DEF MailRow
<1>20. MailOK' BY <1>18, <1>19 DEF MailOK
<1>21. OldestProceeds'
  <2>1. ASSUME NEW p \in gave_way' PROVE \E y \in p[2] : y < p[1]
    <3>1. CASE p \in gave_way BY <1>1, <3>1 DEF OldestProceeds
    <3>2. CASE p = <<x, Siblings(v)>> BY <1>5, <3>2
    <3> QED BY <1>7, <3>1, <3>2
  <2> QED BY <2>1 DEF OldestProceeds
<1> QED BY <1>11, <1>13, <1>14, <1>15, <1>18, <1>20, <1>21 DEF SiblingInv

\* The invariant holds initially.
LEMMA SiblingInitial == ASSUME SiblingInit PROVE SiblingInv
<1>1. /\ id = [n \in Node |-> 0] /\ finished = {} /\ mail = {} /\ last_id = 0 /\ gave_way = {}
      /\ claimed = [n \in Node |-> {}] /\ participants = [n \in Node |-> {}]
      /\ owner_of = [s \in State |-> <<>>] /\ snaps = [s \in State |-> <<>>]
  BY DEF SiblingInit
<1>2. <<>> \in Seq(Ids) /\ <<>> \in Seq(Snapshot) /\ Len(<<>>) = 0 OBVIOUS
<1>3. SiblingTyped BY <1>1, <1>2, SiblingAssumption DEF SiblingTyped, Ids
<1>4. CallsOK BY <1>1, SiblingAssumption DEF CallsOK
<1>5. \A a \in Known : a = <<>> BY <1>1, <1>2, KnownIs
<1>6. ChainsOK
  <2>1. ChainLike(<<>>, last_id) BY <1>2 DEF ChainLike
  <2>2. Agree(<<>>, <<>>) BY <1>2 DEF Agree
  <2> QED BY <1>5, <2>1, <2>2 DEF ChainsOK
<1>7. SnapsOK BY <1>1, <1>2 DEF SnapsOK, Backed
<1>8. OwnersOK BY <1>1, <1>2 DEF OwnersOK, Owners
<1> QED BY <1>1, <1>3, <1>4, <1>6, <1>7, <1>8 DEF SiblingInv, MailOK, OldestProceeds

\* Every step keeps the invariant.
LEMMA SiblingStep == ASSUME SiblingInv, [SiblingNext]_siblingVars PROVE SiblingInv'
<1>1. CASE UNCHANGED siblingVars
  <2>1. UNCHANGED <<id, finished, claimed, participants, owner_of, snaps, mail, last_id, gave_way>>
    BY <1>1 DEF siblingVars
  <2>2. SiblingTyped' /\ CallsOK' /\ OldestProceeds' /\ SnapsOK'
    BY <2>1 DEF SiblingInv, SiblingTyped, CallsOK, OldestProceeds, SnapsOK
  <2>3. Known' = Known BY <2>1 DEF Known, transaction_ids_of
  <2>4. ChainsOK' BY <2>1, <2>3 DEF SiblingInv, ChainsOK
  <2>5. OwnersOK' BY <2>1 DEF SiblingInv, OwnersOK, Owners, Running, Accounted, Returns
  <2>6. MailOK' BY <2>1 DEF SiblingInv, MailOK, MailRow, Running, Accounted, Returns
  <2> QED BY <2>2, <2>4, <2>5, <2>6 DEF SiblingInv
<1>2. CASE SiblingNext
  <2>1. \A n \in Node : StartNested(n) => SiblingInv' BY StartNestedStep
  <2>2. \A n \in Node : FinishNested(n) => SiblingInv' BY FinishNestedStep
  <2>3. \A n \in Node, s \in State : claim_ownership(n, s) => SiblingInv' BY ClaimStep
  <2>4. \A n \in Node, s \in State : OnGrace(n, s) => SiblingInv' BY OnGraceStep
  <2>5. \A r \in mail : relinquish_ownership(r) => SiblingInv' BY RelinquishStep
  <2> QED BY <1>2, <2>1, <2>2, <2>3, <2>4, <2>5, Zenon DEF SiblingNext
<1> QED BY <1>1, <1>2

\* Every step keeps ClaimsOK.
LEMMA ClaimsStep ==
    ASSUME SiblingTyped, ClaimsOK, [SiblingNext]_siblingVars
    PROVE  ClaimsOK'
<1>1. claimed \in [Node -> SUBSET State] BY DEF SiblingTyped
<1>2. CASE UNCHANGED claimed BY <1>2 DEF ClaimsOK
<1>3. ASSUME NEW n \in Node, NEW s \in State, claim_ownership(n, s) PROVE ClaimsOK'
  <2>1. s \in Wants[n] /\ claimed' = [claimed EXCEPT ![n] = @ \cup {s}]
    BY <1>3 DEF claim_ownership, Awaits
  <2> QED BY <1>1, <2>1 DEF ClaimsOK
<1>4. ASSUME NEW n \in Node, NEW s \in State, OnGrace(n, s) PROVE ClaimsOK'
  <2>1. \E gone : claimed' = [m \in Node |-> IF m \in gone THEN {} ELSE claimed[m]]
    BY <1>4, Zenon DEF OnGrace
  <2> QED BY <2>1 DEF ClaimsOK
<1>5. \A n \in Node : StartNested(n) \/ FinishNested(n) => UNCHANGED claimed
  BY DEF StartNested, FinishNested
<1>6. \A r \in mail : relinquish_ownership(r) => UNCHANGED claimed
  BY DEF relinquish_ownership
<1>7. UNCHANGED siblingVars => UNCHANGED claimed BY DEF siblingVars
<1> QED BY <1>2, <1>3, <1>4, <1>5, <1>6, <1>7 DEF SiblingNext

\* The nested transaction that owns a state is accounted for.
LEMMA AccountedFor == ASSUME SiblingInv PROVE OwnersAccounted
<1>1. SiblingTyped /\ OwnersOK BY DEF SiblingInv
<1>2. ASSUME NEW s \in State, Len(owner_of[s]) > 1
      PROVE  \/ \E n \in Node : Running(n) /\ id[n] = owner_of[s][Len(owner_of[s])]
             \/ \E r \in mail : r.state = s /\ r.id = owner_of[s][Len(owner_of[s])]
  <2>1. Len(owner_of[s]) \in Nat BY <1>1, SeqFacts DEF SiblingTyped
  <2>2. Begins(owner_of[s], owner_of[s]) BY <2>1 DEF Begins
  <2>3. owner_of[s] \in Owners(s) BY DEF Owners
  <2>4. Accounted(owner_of[s][Len(owner_of[s])], s) BY <1>1, <1>2, <2>2, <2>3 DEF OwnersOK
  <2> QED BY <2>4 DEF Accounted, Returns
<1> QED BY <1>2 DEF OwnersAccounted

-----------------------------------------------------------------------------
(* Somebody can move on.                                                   *)

\* No sibling that runs is younger.
Youngest(a) == \A b \in Node : Up[b] = Up[a] /\ Running(b) => id[b] <= id[a]

\* Of siblings that run one is the youngest.
LEMMA YoungestExists ==
    ASSUME SiblingTyped, NEW u, NEW m \in Node, Running(m), Up[m] = u
    PROVE  \E a \in Node : Up[a] = u /\ Running(a) /\ Youngest(a)
<1>1. \A n \in Node : id[n] \in Nat /\ id[n] <= MaxIds /\ MaxIds - id[n] \in Nat
  BY SiblingAssumption DEF SiblingTyped, Ids
<1> DEFINE S == {d \in Nat : \E n \in Node : Up[n] = u /\ Running(n) /\ d = MaxIds - id[n]}
<1>2. S \in SUBSET Nat /\ S # {}
  <2>1. MaxIds - id[m] \in S BY <1>1
  <2> QED BY <2>1
<1>3. PICK d \in S : \A e \in S : d <= e
  <2> HIDE DEF S
  <2> QED BY <1>2, Least
<1>4. PICK a \in Node : Up[a] = u /\ Running(a) /\ d = MaxIds - id[a] OBVIOUS
<1>5. ASSUME NEW b \in Node, Up[b] = u, Running(b) PROVE id[b] <= id[a]
  <2>1. MaxIds - id[b] \in S BY <1>1, <1>5
  <2>2. MaxIds - id[a] <= MaxIds - id[b]
    <3> HIDE DEF S
    <3> QED BY <1>3, <1>4, <2>1
  <2> QED BY <1>1, <2>2, SiblingAssumption
<1> QED BY <1>4, <1>5 DEF Youngest

\* Of the calls that run, one that is the youngest among its siblings, as are
\* all those around it, and within which none runs.
LEMMA YoungestLeaf ==
    ASSUME SiblingTyped, CallsOK, NEW top \in Node, Running(top), Up[top] = Top
    PROVE  \E n \in Node : /\ Running(n) /\ \A k \in 2..Level(n) : Youngest(chain[n][k])
                           /\ \A b \in Node : Up[b] = n => ~Running(b)
<1> HIDE DEF chain
<1>1. PICK depth \in [Node \cup {Top} -> 0..Cardinality(Node)] :
        \A n \in Node : depth[Up[n]] < depth[n]
  BY CallTreeAssumption
<1>2. Cardinality(Node) \in Nat BY CallTreeAssumption, FS_CardinalityType
<1>3. PICK bound \in Nat : bound = Cardinality(Node) BY <1>2
<1>4. \A n \in Node : depth[n] \in Nat /\ bound - depth[n] \in Nat BY <1>1, <1>3
<1> DEFINE Y == {n \in Node : Running(n) /\ \A k \in 2..Level(n) : Youngest(chain[n][k])}
           S == {d \in Nat : \E n \in Y : d = bound - depth[n]}
<1>5. Y # {}
  <2>1. PICK a \in Node : Up[a] = Top /\ Running(a) /\ Youngest(a) BY YoungestExists
  <2>2. Level(a) = 2 /\ chain[a][2] = a BY <2>1, Places DEF Placed
  <2>3. \A k \in 2..Level(a) : k = 2 BY <2>2
  <2>4. a \in Y BY <2>1, <2>2, <2>3
  <2> QED BY <2>4
<1>6. S \in SUBSET Nat /\ S # {}
  <2>1. PICK a \in Y : TRUE BY <1>5
  <2>2. a \in Node OBVIOUS
  <2>3. bound - depth[a] \in S
    <3> HIDE DEF Y
    <3> QED BY <1>4, <2>2
  <2> QED BY <2>3
<1>7. PICK d \in S : \A e \in S : d <= e
  <2> HIDE DEF S
  <2> QED BY <1>6, Least
<1>8. PICK n \in Y : d = bound - depth[n]
  <2> HIDE DEF Y
  <2> QED BY <1>7
<1>9. n \in Node /\ Running(n) /\ \A k \in 2..Level(n) : Youngest(chain[n][k]) OBVIOUS
<1>10. ASSUME NEW b \in Node, Up[b] = n, Running(b) PROVE FALSE
  <2>1. PICK a \in Node : Up[a] = n /\ Running(a) /\ Youngest(a) BY <1>10, YoungestExists
  <2>2. Up[a] # Top BY <1>9, <2>1, SiblingAssumption
  <2>3. /\ Placed(a) /\ Level(a) = Level(n) + 1 /\ chain[a][Level(a)] = a
        /\ \A k \in 1..Level(n) : chain[a][k] = chain[n][k]
    BY <2>1, <2>2, Places DEF Placed
  <2>4. Level(n) \in Nat BY <1>9, Places, LenProperties DEF Placed, Level
  <2>5. ASSUME NEW k \in 2..Level(a) PROVE Youngest(chain[a][k])
    <3>1. CASE k = Level(a) BY <2>1, <2>3, <3>1
    <3>2. CASE k # Level(a)
      <4>1. k \in 2..Level(n) /\ k \in 1..Level(n) BY <2>3, <2>4, <3>2
      <4> QED BY <1>9, <2>3, <4>1
    <3> QED BY <3>1, <3>2
  <2>6. a \in Y BY <2>1, <2>5
  <2>7. bound - depth[a] \in S
    <3> HIDE DEF Y
    <3> QED BY <1>4, <2>1, <2>6
  <2>8. d <= bound - depth[a]
    <3> HIDE DEF S, Y
    <3> QED BY <1>7, <2>7
  <2>9. depth[n] < depth[a] BY <1>1, <2>1
  <2>10. depth[n] \in Nat /\ depth[a] \in Nat BY <1>4, <1>9
  <2> HIDE DEF S, Y
  <2> QED BY <1>8, <2>8, <2>9, <2>10
<1> QED BY <1>9, <1>10

\* A call that waits and gives nobody away waits for a call within it, or
\* for one that is within a younger sibling where the chains part.
LEMMA WaitsForYounger ==
    ASSUME SiblingTyped, CallsOK, ChainsOK, NEW n \in Node, NEW s \in State, Running(n),
           ~is_claimable_by(s, n),
           presumed_deadlocked_nested_transaction(IdsOf(id, n), owner_of[s]) = RootId
    PROVE  \/ Len(owner_of[s]) > Level(n) /\ Begins(IdsOf(id, n), owner_of[s])
           \/ \E i \in 2..Level(n) :
                 /\ i <= Len(owner_of[s])
                 /\ \A k \in 1..(i - 1) : owner_of[s][k] = IdsOf(id, n)[k]
                 /\ IdsOf(id, n)[i] < owner_of[s][i]
<1>1. id \in [Node -> Ids] BY DEF SiblingTyped
<1>2. PICK c \in Seq(Ids), o \in Seq(Ids) : c = IdsOf(id, n) /\ o = owner_of[s]
  BY <1>1, IdsAre DEF SiblingTyped
<1>3. /\ Len(c) \in Nat /\ DOMAIN c = 1..Len(c) /\ Len(o) \in Nat /\ DOMAIN o = 1..Len(o)
      /\ Len(c) = Level(n) /\ c[1] = RootId
  BY <1>1, <1>2, SeqFacts, IdsAre
<1>4. ChainLike(o, last_id) BY <1>2, KnownIs DEF ChainsOK
<1>5. ~Begins(o, c) BY <1>2, ClaimableIs
<1> DEFINE Part == {i \in DOMAIN c : i \in DOMAIN o /\ c[i] # o[i]}
           j == CHOOSE i \in Part : \A k \in Part : i <= k
<1>6. CASE Part = {}
  <2>1. \A k \in 1..Len(c) : k <= Len(o) => c[k] = o[k] BY <1>3, <1>6
  <2>2. Len(o) > Len(c) BY <1>3, <1>5, <2>1 DEF Begins
  <2>3. Begins(c, o) BY <1>3, <2>1, <2>2 DEF Begins
  <2> QED BY <1>2, <1>3, <2>2, <2>3
<1>7. CASE Part # {}
  <2>1. Part \in SUBSET Nat BY <1>3
  <2>2. \E i \in Part : \A k \in Part : i <= k
    <3> HIDE DEF Part
    <3> QED BY <1>7, <2>1, Least
  <2>3. j \in Part /\ \A k \in Part : j <= k
    <3> HIDE DEF Part
    <3> QED BY <2>2
  <2>4. PICK i : i = j OBVIOUS
  <2>5. i \in 1..Len(c) /\ i \in 1..Len(o) /\ c[i] # o[i] BY <1>3, <2>3, <2>4
  <2>6. i # 1 BY <1>3, <1>4, <2>5 DEF ChainLike
  <2>7. i \in 2..Level(n) /\ i <= Len(o) BY <1>3, <2>5, <2>6
  <2>8. ASSUME NEW k \in 1..(i - 1) PROVE o[k] = c[k]
    <3>1. k \in 1..Len(c) /\ k \in 1..Len(o) /\ ~(i <= k) BY <1>3, <2>5
    <3>2. k \notin Part BY <2>3, <2>4, <3>1
    <3> QED BY <1>3, <3>1, <3>2
  <2>9. c[i] \in Nat /\ o[i] \in Nat BY <2>5, SeqFacts, SiblingAssumption DEF Ids
  <2>10. RootId = IF c[j] > o[j] THEN c[j] ELSE RootId
    BY <1>2, <1>7 DEF presumed_deadlocked_nested_transaction
  <2>11. c[i] > o[i] => c[i] = 0
    <3> HIDE DEF j, Part
    <3> QED BY <2>4, <2>10 DEF RootId
  <2>12. c[i] < o[i] BY <2>5, <2>9, <2>11
  <2> HIDE DEF j, Part
  <2> QED BY <1>2, <2>7, <2>8, <2>12
<1> QED BY <1>6, <1>7

\* The call that is the youngest at every level waits for nobody: it can
\* claim, or gives way, or has a call within it that runs.
LEMMA YoungestMoves ==
    ASSUME SiblingInv, mail = {}, NEW n \in Node, Running(n),
           \A k \in 2..Level(n) : Youngest(chain[n][k]),
           \A b \in Node : Up[b] = n => ~Running(b),
           NEW s \in State, ~is_claimable_by(s, n)
    PROVE  presumed_deadlocked_nested_transaction(IdsOf(id, n), owner_of[s]) # RootId
<1> HIDE DEF chain
<1> SUFFICES ASSUME presumed_deadlocked_nested_transaction(IdsOf(id, n), owner_of[s]) = RootId
             PROVE  FALSE
  OBVIOUS
<1>1. SiblingTyped /\ CallsOK /\ ChainsOK /\ OwnersOK BY DEF SiblingInv
<1>2. id \in [Node -> Ids] BY <1>1 DEF SiblingTyped
<1>3. PICK c \in Seq(Ids), o \in Seq(Ids) : c = IdsOf(id, n) /\ o = owner_of[s]
  BY <1>1, <1>2, IdsAre DEF SiblingTyped
<1>4. \/ Len(o) > Level(n) /\ Begins(c, o)
      \/ \E i \in 2..Level(n) : /\ i <= Len(o) /\ \A k \in 1..(i - 1) : o[k] = c[k]
                                /\ c[i] < o[i]
  BY <1>1, <1>3, WaitsForYounger
<1>5. Len(o) \in Nat /\ Len(c) = Level(n) /\ Level(n) \in Nat /\ Level(n) >= 2 /\ c[Level(n)] = id[n]
  BY <1>2, <1>3, SeqFacts, IdsAre
<1>6. Len(o) > 1 /\ Len(o) \in 2..Len(o) BY <1>4, <1>5
<1>7. o \in Owners(s) /\ Begins(o, owner_of[s]) /\ o \in Known
  BY <1>3, <1>5, KnownIs DEF Owners, Begins
<1>8. Accounted(o[Len(o)], s) BY <1>1, <1>6, <1>7 DEF OwnersOK
<1>9. PICK m \in Node : Running(m) /\ id[m] = o[Len(o)] BY <1>8 DEF Accounted, Returns
<1>10. Len(o) = Level(m) /\ \A k \in 1..Len(o) : o[k] = IdsOf(id, m)[k]
  <2>1. id[m] # 0 BY <1>9 DEF Running
  <2> QED BY <1>1, <1>6, <1>7, <1>9, <2>1, AtId
<1>11. CASE Len(o) > Level(n) /\ Begins(c, o)
  <2>1. PICK k : k = Level(n) OBVIOUS
  <2>2. k \in 2..Level(m) /\ k + 1 \in 2..Level(m) /\ k \in 1..Len(o) /\ k + 1 > 2
        /\ (k + 1) - 1 = k
    BY <1>5, <1>10, <1>11, <2>1
  <2>3. chain[m][k] \in Node /\ Running(chain[m][k]) /\ IdsOf(id, m)[k] = id[chain[m][k]]
    BY <1>1, <1>9, <2>2, RunningUp
  <2>4. o[k] = id[n] BY <1>5, <1>11, <2>1, <2>2 DEF Begins
  <2>5. id[chain[m][k]] = id[n] /\ id[n] # 0 BY <1>10, <2>2, <2>3, <2>4 DEF Running
  <2>6. chain[m][k] = n BY <1>1, <2>3, <2>5 DEF CallsOK
  <2>7. chain[m][k + 1] \in Node /\ Running(chain[m][k + 1]) BY <1>1, <1>9, <2>2, RunningUp
  <2>8. Up[chain[m][k + 1]] = n BY <2>2, <2>6, CallerPlace
  <2> QED BY <2>7, <2>8
<1>12. CASE \E i \in 2..Level(n) : /\ i <= Len(o) /\ \A k \in 1..(i - 1) : o[k] = c[k]
                                   /\ c[i] < o[i]
  <2>1. PICK i \in 2..Level(n) : /\ i <= Len(o) /\ \A k \in 1..(i - 1) : o[k] = c[k]
                                 /\ c[i] < o[i]
    BY <1>12
  <2>2. i \in 2..Level(m) /\ i \in 1..Len(o) BY <1>5, <1>10, <2>1
  <2>3. PICK a \in Node : a = chain[m][i] /\ Running(a) /\ id[a] = o[i]
    BY <1>1, <1>9, <1>10, <2>2, RunningUp
  <2>4. PICK b \in Node : b = chain[n][i] /\ id[b] = c[i] BY <1>1, <1>3, <2>1, RunningUp
  <2>5. Up[a] = Up[b]
    <3>1. \A k \in 1..(i - 1) : IdsOf(id, m)[k] = IdsOf(id, n)[k]
      BY <1>3, <1>5, <1>10, <2>1
    <3> QED BY <1>1, <1>9, <2>2, <2>3, <2>4, <3>1, PartedSiblings
  <2>6. id[a] <= id[b] BY <2>3, <2>4, <2>5 DEF Youngest
  <2>7. id[a] \in Nat /\ id[b] \in Nat BY <1>2, SiblingAssumption DEF Ids
  <2> QED BY <2>1, <2>3, <2>4, <2>6, <2>7
<1> QED BY <1>4, <1>11, <1>12

\* Somebody can move on or is presumed deadlocked: the youngest call of the
\* youngest calls, if it waits, waits for somebody older.
LEMMA MovesOn == ASSUME SiblingInv, ClaimsOK PROVE SiblingsMoveOn
<1> HIDE DEF chain
<1> SUFFICES ASSUME ~(Node \subseteq finished), mail = {},
                    \A n \in Node : ~(id[n] = 0 /\ CallerRuns(n))
             PROVE  \E n \in Node :
                       \/ Running(n) /\ claimed[n] = Wants[n] /\ Children(n) \subseteq finished
                       \/ \E s \in State : Awaits(n, s) /\
                             \/ is_claimable_by(s, n)
                             \/ presumed_deadlocked_nested_transaction(
                                   transaction_ids_of(n), owner_of[s]) # RootId
  BY Zenon DEF SiblingsMoveOn
<1>1. SiblingTyped /\ CallsOK BY DEF SiblingInv
<1>2. PICK top \in Node : Running(top) /\ Up[top] = Top
  <2>1. PICK m \in Node : m \notin finished OBVIOUS
  <2> DEFINE S == {n \in Node : n \notin finished}
  <2>2. \A n \in S : Up[n] # Top => Up[n] \in S BY <1>1, SiblingAssumption DEF CallsOK
  <2>3. PICK top : top = chain[m][2] OBVIOUS
  <2>4. 2 \in 2..Level(m)
    <3>1. id \in [Node -> Ids] BY <1>1 DEF SiblingTyped
    <3>2. Level(m) \in Nat /\ Level(m) >= 2 BY <3>1, IdsAre
    <3> QED BY <3>2
  <2>5. top \in S
    <3>1. S \in SUBSET Node /\ m \in S BY <2>1
    <3> HIDE DEF S
    <3> QED BY <2>2, <2>3, <2>4, <3>1, Upwards
  <2>6. top \in Node /\ Up[top] = Top BY <2>3, <2>4, CallerPlace
  <2>7. id[top] # 0 BY <2>6 DEF CallerRuns
  <2> QED BY <2>5, <2>6, <2>7 DEF Running
<1>3. PICK n \in Node : /\ Running(n) /\ \A k \in 2..Level(n) : Youngest(chain[n][k])
                        /\ \A b \in Node : Up[b] = n => ~Running(b)
  BY <1>1, <1>2, YoungestLeaf
<1>4. ASSUME NEW b \in Children(n) PROVE b \in finished
  <2>1. b \in Node /\ Up[b] = n BY DEF Children
  <2>2. CallerRuns(b) BY <1>3, <2>1 DEF CallerRuns
  <2> QED BY <1>3, <2>1, <2>2 DEF Running
<1>5. CASE claimed[n] = Wants[n] BY <1>3, <1>4, <1>5
<1>6. CASE claimed[n] # Wants[n]
  <2>1. claimed[n] \subseteq Wants[n] /\ Wants[n] \subseteq State
    BY SiblingAssumption DEF ClaimsOK
  <2>2. PICK s \in State : s \in Wants[n] \ claimed[n] BY <1>6, <2>1
  <2>3. Awaits(n, s) BY <1>3, <2>2 DEF Awaits
  <2>4. is_claimable_by(s, n) \/
          presumed_deadlocked_nested_transaction(transaction_ids_of(n), owner_of[s]) # RootId
    BY <1>3, TransactionIds, YoungestMoves
  <2> QED BY <2>3, <2>4
<1> QED BY <1>5, <1>6

\* For every tree of calls and whatever they claim: the calls, the chains of
\* ids that lead to them, the owners of the states with their snapshots, and
\* the requests to relinquish them stay in step.
THEOREM SiblingInvariance == SiblingSpec => [](SiblingInv /\ ClaimsOK)
<1>1. SiblingInit => SiblingInv /\ ClaimsOK
  <2>1. SiblingInit => ClaimsOK BY DEF SiblingInit, ClaimsOK
  <2> QED BY <2>1, SiblingInitial
<1>2. SiblingInv /\ ClaimsOK /\ [SiblingNext]_siblingVars => (SiblingInv /\ ClaimsOK)'
  <2> SUFFICES ASSUME SiblingInv, ClaimsOK, [SiblingNext]_siblingVars
               PROVE  SiblingInv' /\ ClaimsOK'
    OBVIOUS
  <2>1. SiblingTyped BY DEF SiblingInv
  <2> QED BY <2>1, SiblingStep, ClaimsStep
<1> QED BY <1>1, <1>2, PTL DEF SiblingSpec

\* Nested transactions that wait for each other's states, whatever the tree
\* of calls: unless ids ran out, somebody can start, claim, return or is
\* presumed deadlocked; whoever gives way has an older sibling; and the owner
\* of a state runs or is about to relinquish it.
THEOREM SiblingsResolve == SiblingSpec => []SiblingsResolved
<1>1. SiblingInv /\ ClaimsOK => SiblingsResolved
  <2>1. SiblingInv => OldestProceeds BY DEF SiblingInv
  <2> QED BY <2>1, MovesOn, AccountedFor DEF SiblingsResolved
<1> QED BY <1>1, SiblingInvariance, PTL

=============================================================================
