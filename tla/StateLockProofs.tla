-------------------------- MODULE StateLockProofs --------------------------
(***************************************************************************)
(* Proofs about the state lock, for any set of callers.                    *)
(*                                                                         *)
(* The lock's own fields say nothing about who believes what; the          *)
(* inductive invariant ties the two together.  HS and HX are the callers   *)
(* with a shared and with an exclusive hold, as functions of what the      *)
(* callers believe (md), what they wait for (wt) and which futures are     *)
(* resolved (G): a release changes those first and then grants, so the     *)
(* lemma about `_maybe_grant_next` is about the values in between.         *)
(***************************************************************************)
EXTENDS StateLock, FiniteSetTheorems, SequenceTheorems, TLAPS

HX(md, wt, G) ==
    {c \in Client : \/ md[c] = "exclusive"
                    \/ wt[c] \in {"exclusive", "upgrade"} /\ c \in G}
HS(md, wt, G) ==
    {c \in Client : \/ wt[c] = "shared" /\ c \in G
                    \/ /\ md[c] = "shared"
                       /\ ~(wt[c] = "upgrade" /\ c \in G)}

\* What a caller can be suspended in, given what it holds.
CallersOK(md, wt, G) ==
    \A c \in Client :
        /\ wt[c] \in Mode => md[c] = "none"
        /\ wt[c] = "upgrade" => md[c] = "shared" /\ c \in Transaction
        /\ c \in G => wt[c] # "none"

\* A queued caller is suspended in its mode, is not granted, and is queued
\* only once.
QueueOK(ws, wt, G) ==
    /\ \A i \in 1..Len(ws) :
          wt[ws[i].client] = ws[i].mode /\ ws[i].client \notin G
    /\ \A i, j \in 1..Len(ws) : ws[i].client = ws[j].client => i = j

\* The upgrade slot is taken by a caller whose upgrade is not granted.
UpgraderOK(u, wt, G) == u # None => wt[u] = "upgrade" /\ u \notin G

\* The fields of the lock account for the holds S and X.
LockOK(s, x, sh, eh, S, X) ==
    /\ s = Cardinality(S)
    /\ x <=> X # {}
    /\ sh = S \cap Transaction
    /\ {eh} \ {None} = X \cap Transaction

Exclusion(S, X) == X # {} => S = {} /\ \E c \in X : X = {c}

IndInv ==
    /\ TypeOK
    /\ CallersOK(mode, wait, granted)
    /\ QueueOK(waiters, wait, granted)
    /\ UpgraderOK(upgrader, wait, granted)
    /\ LockOK(shared, exclusive, shared_holders, exclusive_holder,
              HS(mode, wait, granted), HX(mode, wait, granted))
    /\ Exclusion(HS(mode, wait, granted), HX(mode, wait, granted))
    /\ NoLostWakeup

-----------------------------------------------------------------------------
(* Holds and queues.                                                       *)

QueueType == Seq([client : Client, mode : Mode])
CallersType(md, wt, G) ==
    /\ md \in [Client -> Mode \cup {"none"}]
    /\ wt \in [Client -> Mode \cup {"none", "upgrade"}]
    /\ G \in SUBSET Client

\* The sets of holders are finite, so that their sizes are numbers.
LEMMA HoldsFinite ==
    ASSUME NEW md, NEW wt, NEW G
    PROVE  /\ HS(md, wt, G) \subseteq Client
           /\ IsFiniteSet(HS(md, wt, G))
           /\ Cardinality(HS(md, wt, G)) \in Nat
<1>1. HS(md, wt, G) \subseteq Client
  BY DEF HS
<1>2. IsFiniteSet(HS(md, wt, G))
  BY <1>1, ClientAssumption, FS_Subset
<1> QED
  BY <1>1, <1>2, FS_CardinalityType

\* The elements of a queue are waiters.
LEMMA QueueElements ==
    ASSUME NEW ws \in QueueType
    PROVE  /\ Len(ws) \in Nat
           /\ \A i \in 1..Len(ws) : /\ ws[i] \in [client : Client, mode : Mode]
                                    /\ ws[i].client \in Client
                                    /\ ws[i].mode \in Mode
<1>1. Len(ws) \in Nat
  BY LenProperties DEF QueueType
<1>2. ASSUME NEW i \in 1..Len(ws)
      PROVE  /\ ws[i] \in [client : Client, mode : Mode]
             /\ ws[i].client \in Client
             /\ ws[i].mode \in Mode
  <2>1. ws[i] \in [client : Client, mode : Mode]
    BY ElementOfSeq DEF QueueType
  <2> QED
    BY <2>1
<1> QED
  BY <1>1, <1>2

\* The first k callers of a queue without duplicates are k callers.
LEMMA CohortSize ==
    ASSUME NEW ws \in QueueType, NEW k \in 1..Len(ws),
           \A i, j \in 1..Len(ws) : ws[i].client = ws[j].client => i = j
    PROVE  LET C == {ws[i].client : i \in 1..k}
           IN  /\ C \subseteq Client
               /\ IsFiniteSet(C)
               /\ Cardinality(C) = k
<1> DEFINE C == {ws[i].client : i \in 1..k}
           f == [i \in 1..k |-> ws[i].client]
<1>1. /\ Len(ws) \in Nat
      /\ \A i \in 1..Len(ws) : ws[i].client \in Client
  BY QueueElements
<1>2. f \in [1..k -> C]
  OBVIOUS
<1>3. f \in Injection(1..k, C)
  <2>1. ASSUME NEW i \in 1..k, NEW j \in 1..k, f[i] = f[j]
        PROVE  i = j
    <3>1. i \in 1..Len(ws) /\ j \in 1..Len(ws)
      BY <1>1
    <3>2. ws[i].client = ws[j].client
      BY <2>1
    <3> QED
      BY <3>1, <3>2
  <2>2. \A i, j \in 1..k : f[i] = f[j] => i = j
    BY <2>1
  <2>3. DOMAIN f = 1..k
    OBVIOUS
  <2> HIDE DEF f, C
  <2> QED
    BY <1>2, <2>2, <2>3 DEF Injection, IsInjective
<1>4. f \in Surjection(1..k, C)
  BY <1>2 DEF Surjection
<1>5. ExistsBijection(1..k, C)
  BY <1>3, <1>4 DEF ExistsBijection, Bijection
<1>6. IsFiniteSet(1..k) /\ Cardinality(1..k) = k
  BY FS_Interval
<1>7. IsFiniteSet(C) /\ Cardinality(C) = k
  BY <1>5, <1>6, FS_Bijection
<1> QED
  BY <1>1, <1>7

-----------------------------------------------------------------------------
(* `_maybe_grant_next`.                                                    *)

\* Called with no exclusive hold and with the shared holds accounted for, it
\* leaves a good lock: an upgrade is granted only to a sole shared holder, an
\* exclusive waiter only when nobody holds, and a cohort joins shared holds.
LEMMA Granting ==
    ASSUME NEW md, NEW wt, NEW G, NEW released,
           CallersType(md, wt, G),
           waiters \in QueueType, upgrader \in Client \cup {None},
           CallersOK(md, wt, G), QueueOK(waiters, wt, G),
           UpgraderOK(upgrader, wt, G),
           HX(md, wt, G) = {},
           maybe_grant_next(released, Cardinality(HS(md, wt, G)),
                            HS(md, wt, G) \cap Transaction, G),
           mode' = md, wait' = wt
    PROVE  IndInv'
<1> DEFINE S == HS(md, wt, G)
           n == Cardinality(S)
           H == S \cap Transaction
           S1 == HS(md, wt, granted')
           X1 == HX(md, wt, granted')
<1> USE DEF CallersType
<1>a. S \subseteq Client /\ IsFiniteSet(S) /\ n \in Nat
  BY HoldsFinite
<1>b. \A i \in 1..Len(waiters) :
          /\ waiters[i] \in [client : Client, mode : Mode]
          /\ waiters[i].client \in Client
          /\ waiters[i].mode \in Mode
  BY QueueElements
<1>l. Len(waiters) \in Nat
  BY QueueElements
<1>c. upgrader # None => upgrader \in S /\ upgrader \in Transaction
  BY DEF UpgraderOK, CallersOK, HS
<1>d. SUFFICES /\ TypeOK'
               /\ CallersOK(md, wt, granted')
               /\ QueueOK(waiters', wt, granted')
               /\ UpgraderOK(upgrader', wt, granted')
               /\ LockOK(shared', exclusive', shared_holders',
                         exclusive_holder', S1, X1)
               /\ Exclusion(S1, X1)
               /\ NoLostWakeup'
  BY DEF IndInv
<1>1. CASE upgrader # None /\ GrantUpgrade(n, H, G)
  <2> USE <1>1 DEF GrantUpgrade
  <2>1. S = {upgrader}
    <3>1. PICK x : S = {x}
      BY <1>a, FS_Singleton
    <3> QED
      BY <3>1, <1>c
  <2>2. S1 = {} /\ X1 = {upgrader}
    <3>1. S1 = {}
      BY <2>1, <1>c DEF HS, UpgraderOK, CallersOK
    <3>2. X1 = {upgrader}
      BY <1>c, TransactionAssumption DEF HX, UpgraderOK
    <3> QED BY <3>1, <3>2
  <2>3. TypeOK'
    BY <1>c, TransactionAssumption DEF TypeOK, Named, QueueType
  <2>4. CallersOK(md, wt, granted')
    BY DEF CallersOK, UpgraderOK
  <2>5. QueueOK(waiters', wt, granted')
    BY <1>b, <1>c DEF QueueOK, UpgraderOK, Mode
  <2>6. UpgraderOK(upgrader', wt, granted')
    BY DEF UpgraderOK
  <2>7. LockOK(shared', exclusive', shared_holders', exclusive_holder', S1, X1)
    BY <2>1, <2>2, <1>c, FS_EmptySet DEF LockOK, Named
  <2>8. Exclusion(S1, X1) /\ NoLostWakeup'
    BY <2>2 DEF Exclusion, NoLostWakeup
  <2> QED
    BY <2>3, <2>4, <2>5, <2>6, <2>7, <2>8
<1>2. CASE /\ n > 0 \/ (waiters = <<>> /\ upgrader = None)
           /\ GrantNone(n, H, G)
  <2> USE <1>2 DEF GrantNone
  <2>1. granted' = G /\ S1 = S /\ X1 = {}
    OBVIOUS
  <2>2. TypeOK'
    BY <1>a, TransactionAssumption DEF TypeOK, QueueType
  <2>3. LockOK(shared', exclusive', shared_holders', exclusive_holder', S1, X1)
    BY <2>1 DEF LockOK
  <2> QED
    BY <1>a, <2>1, <2>2, <2>3 DEF Exclusion, NoLostWakeup
<1>3. CASE /\ upgrader = None /\ waiters # <<>>
           /\ Head(waiters).mode = "exclusive"
           /\ GrantExclusive(n, H, G)
  <2> DEFINE h == waiters[1].client
  <2>1. /\ Head(waiters) = waiters[1] /\ 1 \in 1..Len(waiters)
        /\ h \in Client /\ waiters[1].mode = "exclusive"
        /\ wt[h] = "exclusive" /\ h \notin G
    BY <1>b, <1>l, <1>3, EmptySeq DEF QueueType, QueueOK
  <2>2. /\ shared' = 0 /\ exclusive' = TRUE /\ shared_holders' = H
        /\ exclusive_holder' = Named(h) /\ granted' = G \cup {h}
        /\ waiters' = Tail(waiters) /\ upgrader' = None /\ n = 0
    BY <1>3, <2>1 DEF GrantExclusive
  <2>3. /\ waiters' \in QueueType /\ Len(waiters') = Len(waiters) - 1
        /\ \A i \in 1..Len(waiters') : waiters'[i] = waiters[i + 1]
    BY <1>3, <2>2, HeadTailProperties DEF QueueType
  <2>4. S = {} /\ S1 = {} /\ X1 = {h}
    <3>1. S = {}
      BY <1>a, <2>2, FS_EmptySet
    <3>2. S1 = {}
      BY <3>1, <2>1, <2>2 DEF HS, CallersOK, Mode
    <3>3. X1 = {h}
      BY <2>1, <2>2 DEF HX
    <3> QED BY <3>1, <3>2, <3>3
  <2>5. TypeOK'
    BY <2>1, <2>2, <2>3, <1>a DEF TypeOK, Named, QueueType
  <2>6. CallersOK(md, wt, granted')
    BY <2>1, <2>2 DEF CallersOK
  <2>7. QueueOK(waiters', wt, granted')
    BY <1>l, <2>1, <2>2, <2>3 DEF QueueOK
  <2>8. UpgraderOK(upgrader', wt, granted')
    BY <2>2 DEF UpgraderOK
  <2>9. LockOK(shared', exclusive', shared_holders', exclusive_holder', S1, X1)
    <3>1. shared' = Cardinality(S1) /\ (exclusive' <=> X1 # {})
      BY <2>2, <2>4, FS_EmptySet
    <3>2. shared_holders' = S1 \cap Transaction
      BY <2>2, <2>4
    <3>3. {exclusive_holder'} \ {None} = X1 \cap Transaction
      <4>1. h # None /\ X1 = {h}
        BY <2>1, <2>4, ClientAssumption
      <4>2. CASE h \in Transaction
        <5>1. exclusive_holder' = h
          BY <4>2, <2>2 DEF Named
        <5> QED
          BY <4>1, <4>2, <5>1
      <4>3. CASE h \notin Transaction
        <5>1. exclusive_holder' = None
          BY <4>3, <2>2 DEF Named
        <5> QED
          BY <4>1, <4>3, <5>1
      <4> QED
        BY <4>2, <4>3
    <3> QED
      BY <3>1, <3>2, <3>3 DEF LockOK
  <2> QED
    BY <2>2, <2>4, <2>5, <2>6, <2>7, <2>8, <2>9 DEF Exclusion, NoLostWakeup
<1>4. CASE upgrader = None /\ GrantCohort(n, H, G)
  <2>1. PICK k \in 1..Len(waiters) :
          /\ IsCohort(k)
          /\ shared' = n + k
          /\ exclusive' = FALSE
          /\ shared_holders' = H \cup (Cohort(k) \cap Transaction)
          /\ exclusive_holder' = None
          /\ granted' = G \cup Cohort(k)
          /\ waiters' = SubSeq(waiters, k + 1, Len(waiters))
          /\ upgrader' = None
    BY <1>4 DEF GrantCohort
  <2> DEFINE C == Cohort(k)
  <2>2. C \subseteq Client /\ IsFiniteSet(C) /\ Cardinality(C) = k
    BY CohortSize DEF Cohort, QueueOK
  <2>3. \A c \in C : wt[c] = "shared" /\ c \notin G /\ md[c] = "none"
    BY <1>l, <1>b, <2>1, <2>2 DEF Cohort, IsCohort, QueueOK, CallersOK, Mode
  <2>4. S1 = S \cup C /\ X1 = {}
    <3>1. S1 = S \cup C
      BY <2>1, <2>2, <2>3 DEF HS
    <3>2. X1 = {}
      BY <2>1, <2>3 DEF HX
    <3> QED BY <3>1, <3>2
  <2>5. Cardinality(S1) = n + k
    <3>1. S \cap C = {}
      BY <2>3 DEF HS
    <3>2. QED
      <4>1. Cardinality(S \cup C) =
                Cardinality(S) + Cardinality(C) - Cardinality(S \cap C)
        BY <1>a, <2>2, FS_Union
      <4>2. Cardinality(S \cap C) = 0
        BY <3>1, FS_EmptySet
      <4> HIDE DEF C
      <4> QED
        BY <1>a, <2>2, <2>4, <4>1, <4>2
  <2>6. /\ waiters' \in QueueType /\ Len(waiters') = Len(waiters) - k
        /\ \A i \in 1..Len(waiters') : waiters'[i] = waiters[k + i]
    <3>1. \A i \in k + 1..Len(waiters) :
              waiters[i] \in [client : Client, mode : Mode]
      BY <1>b, <1>l
    <3>2. k \in Int /\ k + 1 \in Int /\ k <= Len(waiters)
      BY <1>l
    <3> QED
      BY <1>l, <2>1, <3>1, <3>2, SubSeqProperties DEF QueueType
  <2>7. TypeOK'
    <3>1. shared' \in Nat
      BY <1>a, <1>l, <2>1
    <3>2. /\ shared_holders' \in SUBSET Transaction
          /\ granted' \in SUBSET Client
      BY <2>1, <2>2
    <3> QED
      BY <2>1, <2>6, <3>1, <3>2 DEF TypeOK, QueueType
  <2>8. CallersOK(md, wt, granted')
    BY <2>1, <2>3 DEF CallersOK
  <2>9. QueueOK(waiters', wt, granted')
    <3>1. k \in Nat
      BY <1>l
    <3>2. ASSUME NEW i \in 1..Len(waiters')
          PROVE  /\ k + i \in 1..Len(waiters)
                 /\ waiters'[i] = waiters[k + i]
                 /\ waiters[k + i].client \notin C
      <4>1. k + i \in 1..Len(waiters) /\ k + i \notin 1..k
        BY <1>l, <2>6, <3>1
      <4>2. \A j \in 1..k : j \in 1..Len(waiters)
        BY <1>l
      <4> QED
        BY <2>6, <4>1, <4>2 DEF QueueOK, Cohort
    <3>3. \A i, j \in 1..Len(waiters') : k + i = k + j => i = j
      BY <1>l, <2>6, <3>1
    <3>4. granted' = G \cup C
      BY <2>1
    <3> HIDE DEF C
    <3>5. \A i \in 1..Len(waiters') :
              /\ wt[waiters'[i].client] = waiters'[i].mode
              /\ waiters'[i].client \notin granted'
      BY <3>2, <3>4 DEF QueueOK
    <3>6. ASSUME NEW i \in 1..Len(waiters'), NEW j \in 1..Len(waiters'),
                 waiters'[i].client = waiters'[j].client
          PROVE  i = j
      <4>1. waiters[k + i].client = waiters[k + j].client
        BY <3>2, <3>6
      <4>2. k + i = k + j
        BY <3>2, <4>1 DEF QueueOK
      <4> QED
        BY <3>3, <4>2
    <3> QED
      BY <3>5, <3>6 DEF QueueOK
  <2>10. UpgraderOK(upgrader', wt, granted')
    BY <2>1 DEF UpgraderOK
  <2>11. LockOK(shared', exclusive', shared_holders', exclusive_holder', S1, X1)
    BY <2>1, <2>4, <2>5 DEF LockOK
  <2> QED
    <3>1. Exclusion(S1, X1)
      BY <2>4 DEF Exclusion
    <3>2. NoLostWakeup'
      BY <1>a, <1>l, <2>1 DEF NoLostWakeup
    <3> QED
      BY <2>7, <2>8, <2>9, <2>10, <2>11, <3>1, <3>2
<1>5. \/ upgrader # None /\ GrantUpgrade(n, H, G)
      \/ /\ n > 0 \/ (waiters = <<>> /\ upgrader = None)
         /\ GrantNone(n, H, G)
      \/ /\ upgrader = None /\ waiters # <<>>
         /\ Head(waiters).mode = "exclusive"
         /\ GrantExclusive(n, H, G)
      \/ upgrader = None /\ GrantCohort(n, H, G)
  <2>1. upgrader # None => n # 0
    BY <1>a, <1>c, FS_EmptySet
  <2> QED
    BY <1>a, <2>1 DEF maybe_grant_next
<1> QED
  BY <1>1, <1>2, <1>3, <1>4, <1>5

-----------------------------------------------------------------------------
(* The steps.  A release, a downgrade and a hand-back change one caller    *)
(* and then grant; the others are small.                                   *)

\* A new lock is free and nobody waits for it.
LEMMA InitGood == Init => IndInv
<1> SUFFICES ASSUME Init PROVE IndInv
  OBVIOUS
<1> USE DEF Init
<1>1. HS(mode, wait, granted) = {} /\ HX(mode, wait, granted) = {}
  BY DEF HS, HX
<1>2. TypeOK
  BY EmptySeq DEF TypeOK, Mode
<1>3. LockOK(shared, exclusive, shared_holders, exclusive_holder, {}, {})
  BY FS_EmptySet DEF LockOK
<1>4. /\ CallersOK(mode, wait, granted)
      /\ QueueOK(waiters, wait, granted)
      /\ UpgraderOK(upgrader, wait, granted)
  BY DEF CallersOK, QueueOK, UpgraderOK, Mode
<1>5. NoLostWakeup
  BY DEF NoLostWakeup
<1> QED
  BY <1>1, <1>2, <1>3, <1>4, <1>5 DEF IndInv, Exclusion

\* The invariant as facts about its parts.
LEMMA IndParts ==
    ASSUME IndInv
    PROVE  /\ CallersType(mode, wait, granted)
           /\ waiters \in QueueType
           /\ upgrader \in Client \cup {None}
           /\ shared \in Nat
           /\ shared = Cardinality(HS(mode, wait, granted))
           /\ exclusive <=> HX(mode, wait, granted) # {}
           /\ shared_holders = HS(mode, wait, granted) \cap Transaction
           /\ \A c \in HX(mode, wait, granted) :
                  /\ HX(mode, wait, granted) = {c}
                  /\ HS(mode, wait, granted) = {}
BY DEF IndInv, TypeOK, CallersType, QueueType, LockOK, Exclusion

\* release_shared, and a granted shared hold handed back.
LEMMA ReleaseSharedGood ==
    ASSUME IndInv, NEW c \in Client,
           c \in HS(mode, wait, granted),
           NEW md, NEW wt, NEW G,
           \/ md = [mode EXCEPT ![c] = "none"] /\ wait[c] = "none" /\ wt = wait
              /\ G = granted
           \/ md = mode /\ wait[c] = "shared" /\ c \in granted
              /\ wt = [wait EXCEPT ![c] = "none"] /\ G = granted \ {c},
           do_release_shared(c, G), mode' = md, wait' = wt
    PROVE  IndInv'
<1> DEFINE S == HS(mode, wait, granted)
<1> USE IndParts DEF CallersType
<1>0. HX(mode, wait, granted) = {}
  OBVIOUS
<1>1. HS(md, wt, G) = S \ {c} /\ HX(md, wt, G) = {}
  <2>1. HS(md, wt, G) = S \ {c}
    BY DEF HS, IndInv, CallersOK, Mode
  <2>2. HX(md, wt, G) = {}
    BY <1>0 DEF HX, IndInv, CallersOK, Mode
  <2> QED BY <2>1, <2>2
<1>2. Cardinality(S \ {c}) = shared - 1
  <2>1. IsFiniteSet(S)
    BY HoldsFinite
  <2>2. c \in S
    OBVIOUS
  <2>3. Cardinality(S \ {c}) = Cardinality(S) - 1
    <3> HIDE IndParts DEF S
    <3> QED
      BY <2>1, <2>2, FS_RemoveElement
  <2> QED
    BY <2>3
<1>3. (S \ {c}) \cap Transaction = shared_holders \ {c}
  OBVIOUS
<1>4. CallersType(md, wt, G) /\ CallersOK(md, wt, G)
  BY DEF IndInv, CallersOK, Mode
<1>5. QueueOK(waiters, wt, G)
  <2>1. \A i \in 1..Len(waiters) :
            waiters[i].client \in Client /\ waiters[i].mode \in Mode
    BY QueueElements
  <2> QED
    BY <2>1 DEF IndInv, QueueOK, Mode
<1>6. UpgraderOK(upgrader, wt, G)
  BY DEF IndInv, UpgraderOK
<1>7. maybe_grant_next("shared", Cardinality(HS(md, wt, G)),
                       HS(md, wt, G) \cap Transaction, G)
  BY <1>1, <1>2, <1>3 DEF do_release_shared
<1> QED
  BY <1>1, <1>4, <1>5, <1>6, <1>7, Granting

\* release_exclusive, and a granted exclusive hold handed back.
LEMMA ReleaseExclusiveGood ==
    ASSUME IndInv, NEW c \in Client,
           c \in HX(mode, wait, granted),
           NEW md, NEW wt, NEW G,
           \/ md = [mode EXCEPT ![c] = "none"] /\ wait[c] = "none" /\ wt = wait
              /\ G = granted
           \/ md = mode /\ wait[c] = "exclusive" /\ c \in granted
              /\ wt = [wait EXCEPT ![c] = "none"] /\ G = granted \ {c},
           do_release_exclusive(c, G), mode' = md, wait' = wt
    PROVE  IndInv'
<1> USE IndParts DEF CallersType
<1>0. HX(mode, wait, granted) = {c} /\ HS(mode, wait, granted) = {}
  OBVIOUS
<1>1. HS(md, wt, G) = {} /\ HX(md, wt, G) = {}
  <2>1. HS(md, wt, G) = {}
    BY <1>0 DEF HS, IndInv, CallersOK, Mode
  <2>2. HX(md, wt, G) = {}
    BY <1>0 DEF HX, IndInv, CallersOK, Mode
  <2> QED BY <2>1, <2>2
<1>2. shared = 0 /\ shared_holders = {} /\ Cardinality({}) = 0
  BY <1>0, FS_EmptySet
<1>4. CallersType(md, wt, G) /\ CallersOK(md, wt, G)
  BY DEF IndInv, CallersOK, Mode
<1>5. QueueOK(waiters, wt, G)
  <2>1. \A i \in 1..Len(waiters) :
            waiters[i].client \in Client /\ waiters[i].mode \in Mode
    BY QueueElements
  <2> QED
    BY <2>1 DEF IndInv, QueueOK, Mode
<1>6. UpgraderOK(upgrader, wt, G)
  BY DEF IndInv, UpgraderOK
<1>7. maybe_grant_next("exclusive", Cardinality(HS(md, wt, G)),
                       HS(md, wt, G) \cap Transaction, G)
  BY <1>1, <1>2 DEF do_release_exclusive
<1> QED
  BY <1>1, <1>4, <1>5, <1>6, <1>7, Granting

\* downgrade, and a granted upgrade handed back.
LEMMA DowngradeGood ==
    ASSUME IndInv, NEW c \in Transaction,
           c \in HX(mode, wait, granted),
           NEW md, NEW wt, NEW G,
           \/ md = [mode EXCEPT ![c] = "shared"] /\ wait[c] = "none"
              /\ wt = wait /\ G = granted
           \/ md = mode /\ wait[c] = "upgrade" /\ c \in granted
              /\ wt = [wait EXCEPT ![c] = "none"] /\ G = granted \ {c},
           do_downgrade(c, G), mode' = md, wait' = wt
    PROVE  IndInv'
<1> USE IndParts, TransactionAssumption DEF CallersType
<1>0. HX(mode, wait, granted) = {c} /\ HS(mode, wait, granted) = {}
  OBVIOUS
<1>1. HS(md, wt, G) = {c} /\ HX(md, wt, G) = {}
  <2>1. HS(md, wt, G) = {c}
    BY <1>0 DEF HS, IndInv, CallersOK, Mode
  <2>2. HX(md, wt, G) = {}
    BY <1>0 DEF HX, IndInv, CallersOK, Mode
  <2> QED BY <2>1, <2>2
<1>2. shared_holders = {} /\ Cardinality({c}) = 1
  BY <1>0, FS_Singleton
<1>3. {c} \cap Transaction = shared_holders \cup NamedSet(c)
  BY <1>2 DEF NamedSet
<1>4. CallersType(md, wt, G) /\ CallersOK(md, wt, G)
  BY DEF IndInv, CallersOK, Mode
<1>5. QueueOK(waiters, wt, G)
  <2>1. \A i \in 1..Len(waiters) :
            waiters[i].client \in Client /\ waiters[i].mode \in Mode
    BY QueueElements
  <2> QED
    BY <2>1 DEF IndInv, QueueOK, Mode
<1>6. UpgraderOK(upgrader, wt, G)
  BY DEF IndInv, UpgraderOK
<1>7. maybe_grant_next("exclusive", Cardinality(HS(md, wt, G)),
                       HS(md, wt, G) \cap Transaction, G)
  BY <1>1, <1>2, <1>3 DEF do_downgrade
<1> QED
  BY <1>1, <1>4, <1>5, <1>6, <1>7, Granting

\* try_acquire_shared: one more shared hold next to shared holds.
LEMMA AcquireSharedGood ==
    ASSUME IndInv, NEW c \in Client, try_acquire_shared(c)
    PROVE  IndInv'
<1> DEFINE S == HS(mode, wait, granted)
           X == HX(mode, wait, granted)
<1> USE IndParts DEF CallersType, try_acquire_shared, Idle, can_acquire_shared
<1>1. X = {}
  OBVIOUS
<1>2. c \notin S /\ c \notin granted
  BY DEF HS, IndInv, CallersOK
<1>3. HS(mode, wait, granted)' = S \cup {c} /\ HX(mode, wait, granted)' = {}
  <2>1. HS(mode, wait, granted)' = S \cup {c}
    BY DEF HS
  <2>2. HX(mode, wait, granted)' = {}
    BY <1>1 DEF HX
  <2> QED BY <2>1, <2>2
<1>4. Cardinality(S \cup {c}) = shared + 1
  <2>1. IsFiniteSet(S)
    BY HoldsFinite
  <2> QED
    BY <1>2, <2>1, FS_AddElement
<1>5. TypeOK'
  BY TransactionAssumption DEF IndInv, TypeOK, NamedSet, Mode
<1>6. /\ CallersOK(mode, wait, granted)'
      /\ QueueOK(waiters, wait, granted)'
      /\ UpgraderOK(upgrader, wait, granted)'
  BY DEF IndInv, CallersOK, QueueOK, UpgraderOK, Mode
<1>7. LockOK(shared', exclusive', shared_holders', exclusive_holder',
             S \cup {c}, {})
  BY <1>1, <1>4 DEF IndInv, LockOK, NamedSet
<1>8. NoLostWakeup'
  BY DEF NoLostWakeup
<1> QED
  BY <1>3, <1>5, <1>6, <1>7, <1>8 DEF IndInv, Exclusion

\* try_acquire_exclusive: the first hold of a free lock.
LEMMA AcquireExclusiveGood ==
    ASSUME IndInv, NEW c \in Client, try_acquire_exclusive(c)
    PROVE  IndInv'
<1> DEFINE S == HS(mode, wait, granted)
           X == HX(mode, wait, granted)
<1> USE IndParts
    DEF CallersType, try_acquire_exclusive, Idle, can_acquire_exclusive
<1>1. X = {} /\ S = {}
  BY HoldsFinite, FS_EmptySet
<1>2. HS(mode, wait, granted)' = {} /\ HX(mode, wait, granted)' = {c}
  <2>1. HS(mode, wait, granted)' = {}
    BY <1>1 DEF HS
  <2>2. HX(mode, wait, granted)' = {c}
    BY <1>1 DEF HX
  <2> QED BY <2>1, <2>2
<1>3. TypeOK'
  BY DEF IndInv, TypeOK, Named, Mode
<1>4. /\ CallersOK(mode, wait, granted)'
      /\ QueueOK(waiters, wait, granted)'
      /\ UpgraderOK(upgrader, wait, granted)'
  BY DEF IndInv, CallersOK, QueueOK, UpgraderOK, Mode
<1>5. {exclusive_holder'} \ {None} = {c} \cap Transaction
  BY ClientAssumption DEF Named
<1>6. LockOK(shared', exclusive', shared_holders', exclusive_holder',
             {}, {c})
  BY <1>1, <1>5 DEF LockOK
<1>7. NoLostWakeup'
  BY DEF NoLostWakeup
<1> QED
  BY <1>2, <1>3, <1>4, <1>6, <1>7 DEF IndInv, Exclusion

\* `_wait` appends a waiter only while somebody has a hold, so that there is
\* a release to come that grants it.
LEMMA EnqueueGood ==
    ASSUME IndInv, NEW c \in Client, NEW m \in Mode, Enqueue(c, m),
           shared > 0 \/ exclusive
    PROVE  IndInv'
<1> USE IndParts DEF CallersType, Enqueue, Idle
<1>0. c \notin granted
  BY DEF IndInv, CallersOK
<1>1. /\ HS(mode, wait, granted)' = HS(mode, wait, granted)
      /\ HX(mode, wait, granted)' = HX(mode, wait, granted)
  <2>1. HS(mode, wait, granted)' = HS(mode, wait, granted)
    BY <1>0 DEF HS, Mode
  <2>2. HX(mode, wait, granted)' = HX(mode, wait, granted)
    BY <1>0 DEF HX, Mode
  <2> QED BY <2>1, <2>2
<1>2. /\ waiters' \in QueueType
      /\ Len(waiters') = Len(waiters) + 1
      /\ \A i \in 1..Len(waiters) : waiters'[i] = waiters[i]
      /\ waiters'[Len(waiters) + 1] = Waiter(c, m)
  BY AppendProperties DEF QueueType, Waiter
<1>3. TypeOK'
  BY <1>2 DEF IndInv, TypeOK, QueueType, Mode
<1>4. CallersOK(mode, wait, granted)' /\ UpgraderOK(upgrader, wait, granted)'
  BY <1>0 DEF IndInv, CallersOK, UpgraderOK, Mode
<1>5. QueueOK(waiters, wait, granted)'
  <2>0. Len(waiters) \in Nat
    BY QueueElements
  <2>1. \A i \in 1..Len(waiters) :
            /\ waiters[i].client \in Client
            /\ waiters[i].client # c
            /\ wait[waiters[i].client] = waiters[i].mode
            /\ waiters[i].client \notin granted
    BY QueueElements DEF IndInv, QueueOK, Mode
  <2>2. Waiter(c, m).client = c /\ Waiter(c, m).mode = m
    BY DEF Waiter
  <2>3. \A i \in 1..Len(waiters') : i \in 1..Len(waiters) \/ i = Len(waiters) + 1
    BY <1>2, <2>0
  <2>4. \A i \in 1..Len(waiters') :
            /\ wait'[waiters'[i].client] = waiters'[i].mode
            /\ waiters'[i].client \notin granted'
    BY <1>0, <1>2, <2>1, <2>2, <2>3
  <2>5. ASSUME NEW i \in 1..Len(waiters'), NEW j \in 1..Len(waiters'),
               waiters'[i].client = waiters'[j].client
        PROVE  i = j
    BY <1>2, <2>1, <2>2, <2>3, <2>5 DEF IndInv, QueueOK
  <2> QED
    BY <2>4, <2>5 DEF QueueOK
<1>6. NoLostWakeup'
  BY DEF NoLostWakeup
<1> QED
  BY <1>1, <1>3, <1>4, <1>5, <1>6 DEF IndInv, LockOK, Exclusion

\* upgrade: the sole shared holder becomes the exclusive one; otherwise the
\* caller keeps its shared hold and takes the upgrade slot.
LEMMA UpgradeGood ==
    ASSUME IndInv, NEW c \in Client, upgrade(c)
    PROVE  IndInv'
<1> DEFINE S == HS(mode, wait, granted)
           X == HX(mode, wait, granted)
<1> USE IndParts DEF CallersType
<1>0. /\ c \in Transaction /\ mode[c] = "shared" /\ wait[c] = "none"
      /\ c \in S /\ X = {} /\ c \notin granted
  BY DEF upgrade, HS, IndInv, CallersOK
<1>1. CASE /\ shared = 1 /\ ~exclusive
           /\ shared' = 0
           /\ exclusive' = TRUE
           /\ shared_holders' = shared_holders \ {c}
           /\ exclusive_holder' = Named(c)
           /\ mode' = [mode EXCEPT ![c] = "exclusive"]
           /\ UNCHANGED <<upgrader, waiters, wait, granted>>
  <2>1. S = {c}
    <3>1. PICK x : S = {x}
      BY <1>1, HoldsFinite, FS_Singleton
    <3> QED
      BY <1>0, <3>1
  <2>2. HS(mode, wait, granted)' = {} /\ HX(mode, wait, granted)' = {c}
    <3>1. HS(mode, wait, granted)' = {}
      BY <1>0, <1>1, <2>1 DEF HS
    <3>2. HX(mode, wait, granted)' = {c}
      BY <1>0, <1>1 DEF HX
    <3> QED BY <3>1, <3>2
  <2>3. TypeOK'
    BY <1>0, <1>1 DEF IndInv, TypeOK, Named, Mode
  <2>4. /\ QueueOK(waiters, wait, granted)'
        /\ UpgraderOK(upgrader, wait, granted)'
    BY <1>1 DEF IndInv, QueueOK, UpgraderOK
  <2>5. CallersOK(mode, wait, granted)'
    BY <1>0, <1>1 DEF IndInv, CallersOK, Mode
  <2>6. LockOK(shared', exclusive', shared_holders', exclusive_holder',
               {}, {c})
    BY <1>0, <1>1, <2>1, FS_EmptySet, ClientAssumption DEF LockOK, Named
  <2> QED
    BY <1>1, <2>2, <2>3, <2>4, <2>5, <2>6 DEF IndInv, Exclusion, NoLostWakeup
<1>2. CASE /\ upgrader' = c
           /\ wait' = [wait EXCEPT ![c] = "upgrade"]
           /\ UNCHANGED <<shared, exclusive, exclusive_holder, shared_holders,
                          waiters, mode, granted>>
  <2>1. /\ HS(mode, wait, granted)' = S
        /\ HX(mode, wait, granted)' = X
    <3>1. HS(mode, wait, granted)' = S
      BY <1>0, <1>2 DEF HS
    <3>2. HX(mode, wait, granted)' = X
      BY <1>0, <1>2 DEF HX
    <3> QED BY <3>1, <3>2
  <2>2. TypeOK'
    BY <1>2 DEF IndInv, TypeOK
  <2>3. CallersOK(mode, wait, granted)' /\ UpgraderOK(upgrader, wait, granted)'
    BY <1>0, <1>2 DEF IndInv, CallersOK, UpgraderOK, Mode
  <2>4. QueueOK(waiters, wait, granted)'
    <3>1. \A i \in 1..Len(waiters) : waiters[i].mode # "none"
      BY QueueElements DEF Mode
    <3> QED
      BY <1>0, <1>2, <3>1 DEF IndInv, QueueOK
  <2>5. shared > 0
    BY <1>0, HoldsFinite, FS_EmptySet
  <2> QED
    BY <1>2, <2>1, <2>2, <2>3, <2>4, <2>5
       DEF IndInv, LockOK, Exclusion, NoLostWakeup
<1> QED
  BY <1>1, <1>2 DEF upgrade

\* A granted caller resumes: it now believes in the hold it already had.
LEMMA ResumeGood ==
    ASSUME IndInv, NEW c \in Client, Resume(c)
    PROVE  IndInv'
<1> USE IndParts DEF CallersType, Resume, lockVars
<1>1. /\ HS(mode, wait, granted)' = HS(mode, wait, granted)
      /\ HX(mode, wait, granted)' = HX(mode, wait, granted)
  <2>1. HS(mode, wait, granted)' = HS(mode, wait, granted)
    BY DEF HS, IndInv, CallersOK, Mode
  <2>2. HX(mode, wait, granted)' = HX(mode, wait, granted)
    BY DEF HX, IndInv, CallersOK, Mode
  <2> QED BY <2>1, <2>2
<1>2. TypeOK'
  BY DEF IndInv, TypeOK, Mode
<1>3. CallersOK(mode, wait, granted)' /\ UpgraderOK(upgrader, wait, granted)'
  BY DEF IndInv, CallersOK, UpgraderOK, Mode
<1>4. QueueOK(waiters, wait, granted)'
  <2>1. \A i \in 1..Len(waiters) : waiters[i].client \in Client
    BY QueueElements
  <2> QED
    BY <2>1 DEF IndInv, QueueOK
<1> QED
  BY <1>1, <1>2, <1>3, <1>4 DEF IndInv, LockOK, Exclusion, NoLostWakeup

\* A queue without its i-th waiter.
LEMMA QueueWithout ==
    ASSUME NEW ws \in QueueType, NEW i \in 1..Len(ws), NEW wt, NEW G,
           QueueOK(ws, wt, G)
    PROVE  LET rs == SubSeq(ws, 1, i - 1) \o SubSeq(ws, i + 1, Len(ws))
           IN  /\ rs \in QueueType
               /\ QueueOK(rs, wt, G)
               /\ \A j \in 1..Len(rs) : rs[j].client # ws[i].client
               /\ rs # <<>> => ws # <<>>
<1> DEFINE T == [client : Client, mode : Mode]
           p == SubSeq(ws, 1, i - 1)
           q == SubSeq(ws, i + 1, Len(ws))
           rs == p \o q
           n(j) == IF j <= i - 1 THEN j ELSE j + 1
<1>0. /\ Len(ws) \in Nat /\ i \in Nat
      /\ \A j \in 1..Len(ws) : ws[j] \in T
  BY QueueElements
<1>1. /\ p \in Seq(T) /\ Len(p) = i - 1
      /\ \A j \in 1..i - 1 : p[j] = ws[j]
  <2>1. \A j \in 1..i - 1 : ws[j] \in T
    BY <1>0
  <2> QED
    BY <1>0, <2>1, SubSeqProperties
<1>2. /\ q \in Seq(T) /\ Len(q) = Len(ws) - i
      /\ \A j \in 1..Len(ws) - i : q[j] = ws[i + j]
  <2>1. \A j \in i + 1..Len(ws) : ws[j] \in T
    BY <1>0
  <2> QED
    BY <1>0, <2>1, SubSeqProperties
<1> HIDE DEF T, p, q
<1>3. /\ rs \in Seq(T) /\ Len(rs) = Len(ws) - 1
      /\ \A j \in 1..Len(rs) : rs[j] =
             IF j <= Len(p) THEN p[j] ELSE q[j - Len(p)]
  <2>1. /\ rs \in Seq(T) /\ Len(rs) = Len(p) + Len(q)
        /\ \A j \in 1..Len(p) + Len(q) : rs[j] =
               IF j <= Len(p) THEN p[j] ELSE q[j - Len(p)]
    BY <1>1, <1>2, ConcatProperties
  <2>2. Len(p) + Len(q) = Len(ws) - 1
    BY <1>0, <1>1, <1>2
  <2> QED
    BY <2>1, <2>2
<1> HIDE DEF rs
<1>4. ASSUME NEW j \in 1..Len(rs)
      PROVE  n(j) \in 1..Len(ws) /\ n(j) # i /\ rs[j] = ws[n(j)]
  <2>1. n(j) \in 1..Len(ws) /\ n(j) # i
    BY <1>0, <1>3
  <2>2. rs[j] = IF j <= Len(p) THEN p[j] ELSE q[j - Len(p)]
    BY <1>3
  <2>3. CASE j <= i - 1
    BY <1>0, <1>1, <2>1, <2>2, <2>3
  <2>4. CASE ~(j <= i - 1)
    <3>1. j - Len(p) \in 1..Len(ws) - i /\ i + (j - Len(p)) = j + 1
      BY <1>0, <1>1, <1>3, <2>4
    <3> QED
      BY <1>0, <1>1, <1>2, <2>1, <2>2, <2>4, <3>1
  <2> QED
    BY <2>3, <2>4
<1>5. \A j, k \in 1..Len(rs) : n(j) = n(k) => j = k
  BY <1>0, <1>3
<1> HIDE DEF n
<1>6. QueueOK(rs, wt, G)
  <2>1. \A j \in 1..Len(rs) :
            wt[rs[j].client] = rs[j].mode /\ rs[j].client \notin G
    BY <1>4 DEF QueueOK
  <2>2. ASSUME NEW j \in 1..Len(rs), NEW k \in 1..Len(rs),
               rs[j].client = rs[k].client
        PROVE  j = k
    <3>1. /\ n(j) \in 1..Len(ws) /\ rs[j] = ws[n(j)]
          /\ n(k) \in 1..Len(ws) /\ rs[k] = ws[n(k)]
      BY <1>4
    <3>2. n(j) = n(k)
      BY <2>2, <3>1 DEF QueueOK
    <3> QED
      BY <1>5, <3>2
  <2> QED
    BY <2>1, <2>2 DEF QueueOK
<1>7. \A j \in 1..Len(rs) : rs[j].client # ws[i].client
  BY <1>4 DEF QueueOK
<1>8. ws # <<>>
  BY <1>0
<1> QED
  BY <1>3, <1>6, <1>7, <1>8 DEF QueueType, rs, T, p, q

\* A caller gives up before it is granted: it had no hold from its wait.
LEMMA GiveUpGood ==
    ASSUME IndInv, NEW c \in Client, GiveUp(c)
    PROVE  IndInv'
<1> USE IndParts DEF CallersType
<1>0. /\ wait[c] # "none" /\ c \notin granted
      /\ wait' = [wait EXCEPT ![c] = "none"]
      /\ UNCHANGED <<shared, exclusive, exclusive_holder, shared_holders,
                     mode, granted>>
  BY DEF GiveUp
<1>1. /\ HS(mode, wait, granted)' = HS(mode, wait, granted)
      /\ HX(mode, wait, granted)' = HX(mode, wait, granted)
  <2>1. HS(mode, wait, granted)' = HS(mode, wait, granted)
    BY <1>0 DEF HS
  <2>2. HX(mode, wait, granted)' = HX(mode, wait, granted)
    BY <1>0 DEF HX
  <2> QED BY <2>1, <2>2
<1>2. CallersOK(mode, wait, granted)'
  BY <1>0 DEF IndInv, CallersOK, Mode
<1>3. /\ waiters' \in QueueType
      /\ QueueOK(waiters', wait, granted)
      /\ \A j \in 1..Len(waiters') : waiters'[j].client # c
      /\ waiters' # <<>> => waiters # <<>>
      /\ upgrader' \in {upgrader, None} /\ upgrader' # c
  <2>1. CASE wait[c] = "upgrade" /\ upgrader' = None /\ UNCHANGED waiters
    <3>1. \A j \in 1..Len(waiters) : waiters[j].mode \in Mode
      BY QueueElements
    <3> QED
      BY <2>1, <3>1, ClientAssumption DEF IndInv, QueueOK, Mode
  <2>2. CASE wait[c] # "upgrade" /\ remove_waiter(c) /\ UNCHANGED upgrader
    <3>1. PICK i \in 1..Len(waiters) :
              /\ waiters[i].client = c
              /\ waiters' = SubSeq(waiters, 1, i - 1)
                                \o SubSeq(waiters, i + 1, Len(waiters))
      BY <2>2 DEF remove_waiter
    <3>2. QueueOK(waiters, wait, granted)
      BY DEF IndInv
    <3>3. /\ waiters' \in QueueType
          /\ QueueOK(waiters', wait, granted)
          /\ \A j \in 1..Len(waiters') : waiters'[j].client # c
          /\ waiters' # <<>> => waiters # <<>>
      BY <3>1, <3>2, QueueWithout
    <3>4. upgrader' = upgrader /\ upgrader # c
      BY <2>2, ClientAssumption DEF IndInv, UpgraderOK
    <3> QED
      BY <3>3, <3>4
  <2> QED
    BY <2>1, <2>2 DEF GiveUp
<1>4. TypeOK'
  BY <1>0, <1>3 DEF IndInv, TypeOK, QueueType
<1>5. QueueOK(waiters, wait, granted)'
  <2>1. \A j \in 1..Len(waiters') : waiters'[j].client \in Client
    BY <1>3, QueueElements
  <2> QED
    BY <1>0, <1>3, <2>1 DEF QueueOK
<1>6. UpgraderOK(upgrader, wait, granted)'
  BY <1>0, <1>3 DEF IndInv, UpgraderOK
<1>7. NoLostWakeup'
  BY <1>0, <1>3 DEF IndInv, NoLostWakeup
<1> QED
  BY <1>0, <1>1, <1>2, <1>4, <1>5, <1>6, <1>7 DEF IndInv, LockOK, Exclusion

\* Every step of the lock, or of no one, keeps the invariant.
LEMMA NextGood == IndInv /\ [Next]_vars => IndInv'
<1> SUFFICES ASSUME IndInv, [Next]_vars PROVE IndInv'
  OBVIOUS
<1> USE IndParts DEF CallersType
<1>1. CASE UNCHANGED vars
  BY <1>1 DEF vars, IndInv, TypeOK, CallersOK, QueueOK, UpgraderOK, LockOK,
              Exclusion, NoLostWakeup, HS, HX
<1>2. ASSUME NEW c \in Client, acquire_shared(c) PROVE IndInv'
  <2>1. CASE try_acquire_shared(c)
    BY <2>1, AcquireSharedGood
  <2>2. CASE ~can_acquire_shared /\ Enqueue(c, "shared")
    <3>1. shared > 0 \/ exclusive
      BY <2>2 DEF can_acquire_shared, IndInv, NoLostWakeup
    <3> QED
      BY <2>2, <3>1, EnqueueGood DEF Mode
  <2> QED
    BY <1>2, <2>1, <2>2 DEF acquire_shared
<1>3. ASSUME NEW c \in Client, acquire_exclusive(c) PROVE IndInv'
  <2>1. CASE try_acquire_exclusive(c)
    BY <2>1, AcquireExclusiveGood
  <2>2. CASE ~can_acquire_exclusive /\ Enqueue(c, "exclusive")
    <3>1. shared > 0 \/ exclusive
      BY <2>2 DEF can_acquire_exclusive, IndInv, NoLostWakeup
    <3> QED
      BY <2>2, <3>1, EnqueueGood DEF Mode
  <2> QED
    BY <1>3, <2>1, <2>2 DEF acquire_exclusive
<1>4. ASSUME NEW c \in Client, release_shared(c) PROVE IndInv'
  <2>1. c \in HS(mode, wait, granted)
    BY <1>4 DEF release_shared, HS
  <2> QED
    BY <1>4, <2>1, ReleaseSharedGood DEF release_shared
<1>5. ASSUME NEW c \in Client, release_exclusive(c) PROVE IndInv'
  <2>1. c \in HX(mode, wait, granted)
    BY <1>5 DEF release_exclusive, HX
  <2> QED
    BY <1>5, <2>1, ReleaseExclusiveGood DEF release_exclusive
<1>6. ASSUME NEW c \in Client, downgrade(c) PROVE IndInv'
  <2>1. c \in HX(mode, wait, granted)
    BY <1>6 DEF downgrade, HX
  <2> QED
    BY <1>6, <2>1, DowngradeGood DEF downgrade
<1>7. ASSUME NEW c \in Client, HandBack(c) PROVE IndInv'
  <2>0. /\ c \in granted /\ wait' = [wait EXCEPT ![c] = "none"]
        /\ mode' = mode
    BY <1>7 DEF HandBack
  <2>1. CASE wait[c] = "upgrade" /\ do_downgrade(c, granted \ {c})
    <3>1. c \in HX(mode, wait, granted) /\ c \in Transaction
      BY <2>0, <2>1 DEF HX, IndInv, CallersOK
    <3> QED
      BY <2>0, <2>1, <3>1, DowngradeGood
  <2>2. CASE wait[c] = "shared" /\ do_release_shared(c, granted \ {c})
    <3>1. c \in HS(mode, wait, granted)
      BY <2>0, <2>2 DEF HS
    <3> QED
      BY <2>0, <2>2, <3>1, ReleaseSharedGood
  <2>3. CASE wait[c] = "exclusive" /\ do_release_exclusive(c, granted \ {c})
    <3>1. c \in HX(mode, wait, granted)
      BY <2>0, <2>3 DEF HX
    <3> QED
      BY <2>0, <2>3, <3>1, ReleaseExclusiveGood
  <2> QED
    BY <1>7, <2>1, <2>2, <2>3 DEF HandBack
<1> QED
  BY <1>1, <1>2, <1>3, <1>4, <1>5, <1>6, <1>7, UpgradeGood, ResumeGood,
     GiveUpGood DEF Next

\* IndInv is an invariant of the lock.
THEOREM Invariance == Spec => []IndInv
BY InitGood, NextGood, PTL DEF Spec

-----------------------------------------------------------------------------
(* What the invariant says in the terms of StateLock.                      *)

\* The type invariant: the counters never go negative, the queue and the
\* named holders are of the kinds the code assumes.
THEOREM TypeCorrect == Spec => []TypeOK
<1>1. IndInv => TypeOK
  BY DEF IndInv
<1> QED
  BY <1>1, Invariance, PTL

\* An exclusive hold excludes every other hold, for any number of callers.
THEOREM ExclusionHolds == Spec => []MutualExclusion
<1>1. IndInv => MutualExclusion
  BY DEF IndInv, Exclusion, HX, HS, MutualExclusion, HeldExclusive, HeldShared
<1> QED
  BY <1>1, Invariance, PTL

\* No hold is leaked and none is released twice: `_shared` and `_exclusive`
\* count exactly the holds of the callers, resumed or not.
THEOREM HoldsHold == Spec => []HoldsAccounted
<1>1. IndInv => HoldsAccounted
  BY DEF IndInv, LockOK, HX, HS, HoldsAccounted, HeldExclusive, HeldShared
<1> QED
  BY <1>1, Invariance, PTL

\* `holders` is exact: deadlock avoidance never blames a transaction that
\* has no hold and never misses one that has.
THEOREM HoldersHold == Spec => []HoldersExact
<1>1. IndInv => HoldersExact
  <2> SUFFICES ASSUME IndInv PROVE HoldersExact
    OBVIOUS
  <2>1. HeldShared = HS(mode, wait, granted)
    BY DEF HeldShared, HS
  <2>2. HeldExclusive = HX(mode, wait, granted)
    BY DEF HeldExclusive, HX
  <2> QED
    BY <2>1, <2>2 DEF IndInv, LockOK, HoldersExact
<1> QED
  BY <1>1, Invariance, PTL

\* Nobody is left waiting for a lock that nobody holds.
THEOREM NoWakeupLost == Spec => []NoLostWakeup
<1>1. IndInv => NoLostWakeup
  BY DEF IndInv
<1> QED
  BY <1>1, Invariance, PTL

-----------------------------------------------------------------------------
(* The order of the queue.                                                 *)

\* A step that grants waiter j leaves no waiter i ahead of it queued.
InOrder ==
    \A i, j \in 1..Len(waiters) :
        /\ i < j
        /\ waiters[j].client \in granted' \ granted
        => \A k \in 1..Len(waiters') : waiters'[k] # waiters[i]

\* Whatever `_maybe_grant_next` grants is the upgrader, who is not queued, or
\* a beginning of the queue, all of which it takes off.
LEMMA GrantsInOrder ==
    ASSUME IndInv, NEW released, NEW n, NEW H, NEW G \in SUBSET granted,
           maybe_grant_next(released, n, H, G)
    PROVE  InOrder
<1>0. /\ waiters \in QueueType /\ Len(waiters) \in Nat
      /\ \A i \in 1..Len(waiters) : waiters[i].client \in Client /\ waiters[i].mode \in Mode
      /\ QueueOK(waiters, wait, granted) /\ UpgraderOK(upgrader, wait, granted)
  BY QueueElements DEF IndInv, TypeOK, QueueType
<1>1. CASE upgrader # None /\ GrantUpgrade(n, H, G)
  <2>1. granted' \ granted \subseteq {upgrader} /\ wait[upgrader] = "upgrade"
    BY <1>0, <1>1 DEF GrantUpgrade, UpgraderOK
  <2>2. \A j \in 1..Len(waiters) : waiters[j].client # upgrader
    BY <1>0, <2>1 DEF QueueOK, Mode
  <2> QED
    BY <2>1, <2>2 DEF InOrder
<1>2. CASE GrantNone(n, H, G)
  BY <1>2 DEF GrantNone, InOrder
<1>3. CASE waiters # <<>> /\ GrantExclusive(n, H, G)
  <2>1. Head(waiters) = waiters[1] /\ 1 \in 1..Len(waiters)
    BY <1>0, <1>3, EmptySeq DEF QueueType
  <2>2. granted' \ granted \subseteq {waiters[1].client}
    BY <1>3, <2>1 DEF GrantExclusive
  <2>3. \A j \in 1..Len(waiters) : waiters[j].client \in granted' \ granted => j = 1
    BY <1>0, <2>1, <2>2 DEF QueueOK
  <2> QED
    BY <1>0, <2>3 DEF InOrder
<1>4. CASE GrantCohort(n, H, G)
  <2>1. PICK m \in 1..Len(waiters) :
            /\ granted' = G \cup Cohort(m)
            /\ waiters' = SubSeq(waiters, m + 1, Len(waiters))
    BY <1>4 DEF GrantCohort
  <2>2. /\ Len(waiters') = Len(waiters) - m
        /\ \A k \in 1..Len(waiters') : waiters'[k] = waiters[m + k]
    <3>1. \A i \in m + 1..Len(waiters) :
              waiters[i] \in [client : Client, mode : Mode]
      BY <1>0, QueueElements
    <3>2. m \in Int /\ m + 1 \in Int /\ m <= Len(waiters)
      BY <1>0
    <3> QED
      BY <1>0, <2>1, <3>1, <3>2, SubSeqProperties
  <2>3. \A j \in 1..Len(waiters) : waiters[j].client \in granted' \ granted => j <= m
    <3> SUFFICES ASSUME NEW j \in 1..Len(waiters), waiters[j].client \in granted' \ granted
                 PROVE  j <= m
      OBVIOUS
    <3>1. PICK l \in 1..m : waiters[j].client = waiters[l].client
      BY <2>1 DEF Cohort
    <3>2. l \in 1..Len(waiters)
      BY <1>0
    <3>3. j = l
      BY <1>0, <3>1, <3>2 DEF QueueOK
    <3> QED
      BY <1>0, <3>3
  <2>4. ASSUME NEW i \in 1..Len(waiters), NEW k \in 1..Len(waiters'), i < m
        PROVE  waiters'[k] # waiters[i]
    <3>1. m + k \in 1..Len(waiters) /\ m + k # i
      BY <1>0, <2>2, <2>4
    <3>2. waiters[m + k].client # waiters[i].client
      BY <1>0, <3>1 DEF QueueOK
    <3> QED
      BY <2>2, <3>2
  <2> QED
    BY <1>0, <2>3, <2>4 DEF InOrder
<1> QED
  BY <1>1, <1>2, <1>3, <1>4 DEF maybe_grant_next

\* "Waiters are FIFO among themselves" (`_maybe_grant_next`), for any number
\* of callers.
THEOREM GrantedInOrder == Spec => QueueFIFO
<1>1. ASSUME IndInv, [Next]_vars PROVE [InOrder]_vars
  <2>1. ASSUME granted' \subseteq granted PROVE InOrder
    BY <2>1 DEF InOrder
  <2>2. ASSUME NEW c \in Client, acquire_shared(c) \/ acquire_exclusive(c) PROVE InOrder
    BY <2>1, <2>2 DEF acquire_shared, acquire_exclusive, try_acquire_shared,
                      try_acquire_exclusive, Enqueue
  <2>3. ASSUME NEW c \in Client, upgrade(c) PROVE InOrder
    BY <2>1, <2>3 DEF upgrade
  <2>4. ASSUME NEW c \in Client, release_shared(c) PROVE InOrder
    BY <1>1, <2>4, GrantsInOrder DEF release_shared, do_release_shared
  <2>5. ASSUME NEW c \in Client, release_exclusive(c) PROVE InOrder
    BY <1>1, <2>5, GrantsInOrder DEF release_exclusive, do_release_exclusive
  <2>6. ASSUME NEW c \in Client, downgrade(c) PROVE InOrder
    BY <1>1, <2>6, GrantsInOrder DEF downgrade, do_downgrade
  <2>7. ASSUME NEW c \in Client, Resume(c) PROVE InOrder
    BY <2>1, <2>7 DEF Resume
  <2>8. ASSUME NEW c \in Client, HandBack(c) PROVE InOrder
    BY <1>1, <2>8, GrantsInOrder
       DEF HandBack, do_downgrade, do_release_shared, do_release_exclusive
  <2>9. ASSUME NEW c \in Client, GiveUp(c) PROVE InOrder
    BY <2>1, <2>9 DEF GiveUp
  <2> QED
    BY <1>1, <2>2, <2>3, <2>4, <2>5, <2>6, <2>7, <2>8, <2>9 DEF Next
<1> QED
  BY <1>1, Invariance, PTL DEF Spec, QueueFIFO, InOrder

=============================================================================
