------------------------ MODULE NestedOwnershipProofs ------------------------
(***************************************************************************)
(* Proofs about the ownership of a state among nested transactions: for    *)
(* any tree of transactions, any of them methods of this state, and any    *)
(* order in which requests arrive.                                         *)
(***************************************************************************)
EXTENDS NestedOwnership, FiniteSetTheorems, SequenceTheorems, WellFoundedInduction, TLAPS

-----------------------------------------------------------------------------
(* Chains of ids.                                                          *)

\* A set of naturals has a least element.
LEMMA LeastNatural ==
    ASSUME NEW S \in SUBSET Nat, S # {}
    PROVE  \E x \in S : \A y \in S : x <= y
<1>1. PICK R : R = OpToRel(<, Nat) OBVIOUS
<1>2. IsWellFoundedOn(R, Nat) BY <1>1, NatLessThanWellFounded
<1>3. R = {ss \in Nat \X Nat : ss[1] < ss[2]} BY <1>1, Zenon DEF OpToRel
<1>4. \A y, x \in Nat : y < x => <<y, x>> \in R BY <1>3
<1>5. PICK x \in S : \A y \in S : <<y, x>> \notin R BY <1>2, WFMin
<1>6. \A y \in S : ~(y < x) BY <1>4, <1>5
<1> QED BY <1>6

\* The defining equation of transaction_ids, for the transactions in T.
Extends(f, T) ==
    f = [t \in T |-> IF t = Root THEN <<Root>> ELSE Append(f[Parent[t]], t)]

\* The equation has a solution, for no transaction is within itself.
LEMMA ChainsExist == \E f : Extends(f, Transaction)
<1>1. PICK depth \in [Transaction -> 0..Cardinality(Nested)] :
        \A t \in Nested : depth[Parent[t]] < depth[t]
  BY AcyclicAssumption
<1>2. Cardinality(Nested) \in Nat BY AcyclicAssumption, FS_CardinalityType
<1> DEFINE Upto(n) == {t \in Transaction : t = Root \/ depth[t] < n}
           Bad == {n \in Nat : ~\E f : Extends(f, Upto(n))}
<1>3. Bad = {}
  <2> SUFFICES ASSUME Bad # {} PROVE FALSE OBVIOUS
  <2>1. PICK n \in Bad : \A k \in Bad : n <= k
    <3>1. Bad \in SUBSET Nat OBVIOUS
    <3> HIDE DEF Bad
    <3> QED BY <3>1, LeastNatural
  <2>2. n \in Nat /\ ~\E f : Extends(f, Upto(n)) OBVIOUS
  <2>3. CASE n = 0
    <3>1. Upto(0) = {Root} BY <1>1, <1>2 DEF Transaction
    <3>2. Extends([t \in {Root} |-> <<Root>>], {Root}) BY DEF Extends
    <3> QED BY <2>2, <2>3, <3>1, <3>2
  <2>4. CASE n # 0
    <3>1. PICK k \in Nat : n = k + 1 BY <2>2, <2>4
    <3>2. k \notin Bad
      <4> HIDE DEF Bad
      <4> QED BY <2>1, <3>1
    <3>3. PICK f : Extends(f, Upto(k)) BY <3>2
    <3> DEFINE g == [t \in Upto(n) |->
                        IF t = Root THEN <<Root>> ELSE Append(f[Parent[t]], t)]
    <3>4. ASSUME NEW t \in Upto(n), t # Root PROVE Parent[t] \in Upto(k)
      BY <1>1, <1>2, <3>1, <3>4, ParentAssumption DEF Transaction
    <3>5. ASSUME NEW t \in Upto(k) PROVE t \in Upto(n) /\ g[t] = f[t]
      <4>1. t \in Upto(n) BY <1>1, <1>2, <3>1
      <4>2. f[t] = IF t = Root THEN <<Root>> ELSE Append(f[Parent[t]], t)
        <5> HIDE DEF Upto
        <5> QED BY <3>3 DEF Extends
      <4> QED BY <4>1, <4>2
    <3>6. \A t \in Upto(n) : t # Root => g[Parent[t]] = f[Parent[t]]
      <4> HIDE DEF Upto, g
      <4> QED BY <3>4, <3>5
    <3>7. g = [t \in Upto(n) |-> IF t = Root THEN <<Root>> ELSE Append(g[Parent[t]], t)]
      <4> SUFFICES \A t \in Upto(n) :
             (IF t = Root THEN <<Root>> ELSE Append(f[Parent[t]], t))
              = (IF t = Root THEN <<Root>> ELSE Append(g[Parent[t]], t))
        <5> HIDE DEF Upto
        <5> QED OBVIOUS
      <4> HIDE DEF Upto, g
      <4> QED BY <3>6
    <3>8. Extends(g, Upto(n))
      <4> HIDE DEF g, Upto
      <4> QED BY <3>7 DEF Extends
    <3> HIDE DEF g, Upto
    <3> QED BY <2>2, <3>8
  <2> QED BY <2>3, <2>4
<1>4. Cardinality(Nested) + 1 \notin Bad BY <1>3
<1>5. Upto(Cardinality(Nested) + 1) = Transaction BY <1>1, <1>2
<1> HIDE DEF Upto
<1> QED BY <1>2, <1>4, <1>5

\* So it holds of transaction_ids.
LEMMA ChainEquation ==
    \A t \in Transaction : transaction_ids[t] =
        IF t = Root THEN <<Root>> ELSE Append(transaction_ids[Parent[t]], t)
<1>1. transaction_ids = CHOOSE f : Extends(f, Transaction)
  BY Zenon DEF transaction_ids, Extends
<1>2. Extends(transaction_ids, Transaction) BY <1>1, ChainsExist, Zenon
<1> HIDE DEF transaction_ids
<1>3. PICK f : f = transaction_ids OBVIOUS
<1>4. f = [t \in Transaction |-> IF t = Root THEN <<Root>> ELSE Append(f[Parent[t]], t)]
  BY <1>2, <1>3 DEF Extends
<1>5. ASSUME NEW t \in Transaction
      PROVE  f[t] = IF t = Root THEN <<Root>> ELSE Append(f[Parent[t]], t)
  BY <1>4
<1> QED BY <1>3, <1>5

\* A chain starts with the root and ends with its transaction, and what it
\* begins with are the chains of those it names.
ChainOK(t) ==
    /\ transaction_ids[t] \in Seq(Transaction)
    /\ Len(transaction_ids[t]) >= 1
    /\ transaction_ids[t][1] = Root
    /\ transaction_ids[t][Len(transaction_ids[t])] = t
    /\ \A k \in 1..Len(transaction_ids[t]) :
          /\ Len(transaction_ids[transaction_ids[t][k]]) = k
          /\ \A j \in 1..k : transaction_ids[transaction_ids[t][k]][j] = transaction_ids[t][j]

\* The chain of the root.
LEMMA RootChain == ChainOK(Root) /\ Len(transaction_ids[Root]) = 1
<1>1. Root \in Transaction BY DEF Transaction
<1>2. transaction_ids[Root] = <<Root>> BY <1>1, ChainEquation
<1> HIDE DEF transaction_ids
<1>3. /\ transaction_ids[Root] \in Seq(Transaction)
      /\ Len(transaction_ids[Root]) = 1 /\ transaction_ids[Root][1] = Root
  BY <1>1, <1>2
<1> QED BY <1>3 DEF ChainOK

\* The chain of a nested transaction is its parent's and itself.
LEMMA NestedChain ==
    ASSUME NEW t \in Nested, ChainOK(Parent[t])
    PROVE  ChainOK(t) /\ Len(transaction_ids[t]) = Len(transaction_ids[Parent[t]]) + 1
<1>1. t \in Transaction /\ Parent[t] \in Transaction /\ t # Root
  BY ParentAssumption, RootAssumption DEF Transaction
<1>2. transaction_ids[t] = Append(transaction_ids[Parent[t]], t) BY <1>1, ChainEquation
<1> HIDE DEF transaction_ids
<1>3. PICK q \in Seq(Transaction) : q = transaction_ids[Parent[t]] BY DEF ChainOK
<1>4. PICK c : c = transaction_ids[t] OBVIOUS
<1>5. /\ c \in Seq(Transaction) /\ Len(c) = Len(q) + 1
      /\ \A i \in 1..Len(q) : c[i] = q[i]
      /\ c[Len(q) + 1] = t
  BY <1>1, <1>2, <1>3, <1>4, AppendProperties
<1>6. Len(q) \in Nat /\ Len(q) >= 1 /\ q[1] = Root BY <1>3, LenProperties DEF ChainOK
<1>7. ASSUME NEW k \in 1..Len(c)
      PROVE  Len(transaction_ids[c[k]]) = k /\ \A j \in 1..k : transaction_ids[c[k]][j] = c[j]
  <2>1. CASE k = Len(c) BY <1>4, <1>5, <1>6, <2>1
  <2>2. CASE k # Len(c)
    <3>1. k \in 1..Len(q) BY <1>5, <1>6, <2>2
    <3>2. c[k] = q[k] BY <1>5, <3>1
    <3>3. Len(transaction_ids[q[k]]) = k /\ \A j \in 1..k : transaction_ids[q[k]][j] = q[j]
      BY <1>3, <3>1 DEF ChainOK
    <3>4. \A j \in 1..k : c[j] = q[j] BY <1>5, <1>6, <3>1
    <3> QED BY <3>2, <3>3, <3>4
  <2> QED BY <2>1, <2>2
<1>8. ChainOK(t) BY <1>4, <1>5, <1>6, <1>7 DEF ChainOK
<1> QED BY <1>3, <1>4, <1>5, <1>8

\* Every transaction has a chain.
LEMMA Chains == \A t \in Transaction : ChainOK(t)
<1>1. PICK depth \in [Transaction -> 0..Cardinality(Nested)] :
        \A t \in Nested : depth[Parent[t]] < depth[t]
  BY AcyclicAssumption
<1>2. Cardinality(Nested) \in Nat BY AcyclicAssumption, FS_CardinalityType
<1> SUFFICES ASSUME NEW u \in Transaction, ~ChainOK(u) PROVE FALSE OBVIOUS
<1> DEFINE Bad == {n \in Nat : \E t \in Transaction : ~ChainOK(t) /\ depth[t] = n}
<1>3. depth[u] \in Bad BY <1>1, <1>2
<1>4. PICK n \in Bad : \A k \in Bad : n <= k
  <2>1. Bad \in SUBSET Nat /\ Bad # {} BY <1>3
  <2> HIDE DEF Bad
  <2> QED BY <2>1, LeastNatural
<1>5. PICK t \in Transaction : ~ChainOK(t) /\ depth[t] = n OBVIOUS
<1>6. t \in Nested BY <1>5, RootChain DEF Transaction
<1>7. ~ChainOK(Parent[t]) BY <1>5, <1>6, NestedChain
<1>8. Parent[t] \in Transaction /\ depth[Parent[t]] < n
  BY <1>1, <1>5, <1>6, ParentAssumption
<1>9. depth[Parent[t]] \in Bad BY <1>1, <1>2, <1>7, <1>8
<1> HIDE DEF Bad
<1>10. n <= depth[Parent[t]] BY <1>4, <1>9
<1>11. depth[Parent[t]] \in Nat /\ n \in Nat BY <1>1, <1>2, <1>5, <1>8
<1> QED BY <1>8, <1>10, <1>11

-----------------------------------------------------------------------------
(* The transactions that one is nested in.                                 *)

\* A transaction and those it is nested in; the ids of a chain.
Anc(t) == {transaction_ids[t][k] : k \in DOMAIN transaction_ids[t]}
Ids(ids) == {ids[k] : k \in DOMAIN ids}

\* Membership in a chain.
LEMMA ContainsIds == \A ids, t : Contains(ids, t) <=> t \in Ids(ids)
BY DEF Contains, Ids

\* Where in a chain an ancestor is: at the end of its own chain.
LEMMA AncPlace ==
    ASSUME NEW t \in Transaction, NEW x \in Anc(t)
    PROVE  /\ x \in Transaction
           /\ Len(transaction_ids[x]) \in 1..Len(transaction_ids[t])
           /\ transaction_ids[t][Len(transaction_ids[x])] = x
           /\ \A j \in 1..Len(transaction_ids[x]) :
                 transaction_ids[x][j] = transaction_ids[t][j]
<1> HIDE DEF transaction_ids
<1>1. ChainOK(t) BY Chains
<1>2. DOMAIN transaction_ids[t] = 1..Len(transaction_ids[t]) /\ Len(transaction_ids[t]) \in Nat
  BY <1>1, LenProperties DEF ChainOK
<1>3. PICK k \in 1..Len(transaction_ids[t]) : x = transaction_ids[t][k] BY <1>2 DEF Anc
<1>4. x \in Transaction BY <1>1, <1>3, ElementOfSeq DEF ChainOK
<1>5. Len(transaction_ids[x]) = k /\ \A j \in 1..k : transaction_ids[x][j] = transaction_ids[t][j]
  BY <1>1, <1>3 DEF ChainOK
<1> QED BY <1>3, <1>4, <1>5

\* What is at each place of a chain is an ancestor.
LEMMA PlaceAnc ==
    ASSUME NEW t \in Transaction
    PROVE  /\ Len(transaction_ids[t]) \in Nat /\ Len(transaction_ids[t]) >= 1
           /\ DOMAIN transaction_ids[t] = 1..Len(transaction_ids[t])
           /\ \A k \in 1..Len(transaction_ids[t]) :
                 /\ transaction_ids[t][k] \in Anc(t)
                 /\ Len(transaction_ids[transaction_ids[t][k]]) = k
           /\ transaction_ids[t][Len(transaction_ids[t])] = t
           /\ transaction_ids[t][1] = Root
<1> HIDE DEF transaction_ids
<1>1. ChainOK(t) BY Chains
<1>2. DOMAIN transaction_ids[t] = 1..Len(transaction_ids[t]) /\ Len(transaction_ids[t]) \in Nat
  BY <1>1, LenProperties DEF ChainOK
<1> QED BY <1>1, <1>2 DEF ChainOK, Anc

\* Being nested in is a partial order, and linear above each transaction.
LEMMA AncSelf == ASSUME NEW t \in Transaction PROVE t \in Anc(t) /\ Root \in Anc(t)
<1> HIDE DEF transaction_ids
<1> QED BY PlaceAnc

\* The ancestors of a transaction are transactions.
LEMMA AncType == ASSUME NEW t \in Transaction PROVE Anc(t) \subseteq Transaction
BY AncPlace

\* An ancestor's ancestor is one.
LEMMA AncTrans ==
    ASSUME NEW t \in Transaction, NEW x \in Anc(t), NEW y \in Anc(x) PROVE y \in Anc(t)
<1> HIDE DEF transaction_ids
<1>1. x \in Transaction BY AncPlace
<1>2. Len(transaction_ids[y]) \in 1..Len(transaction_ids[x])
      /\ transaction_ids[x][Len(transaction_ids[y])] = y
  BY <1>1, AncPlace
<1>3. Len(transaction_ids[x]) \in 1..Len(transaction_ids[t])
      /\ transaction_ids[x][Len(transaction_ids[y])] = transaction_ids[t][Len(transaction_ids[y])]
  BY <1>2, AncPlace
<1>4. Len(transaction_ids[y]) \in 1..Len(transaction_ids[t]) BY <1>2, <1>3, PlaceAnc
<1> QED BY <1>2, <1>3, <1>4, PlaceAnc

\* Of two ancestors one is the other's.
LEMMA AncLinear ==
    ASSUME NEW t \in Transaction, NEW x \in Anc(t), NEW y \in Anc(t)
    PROVE  x \in Anc(y) \/ y \in Anc(x)
<1> HIDE DEF transaction_ids
<1> DEFINE a == Len(transaction_ids[x])
           b == Len(transaction_ids[y])
<1>1. /\ x \in Transaction /\ a \in Nat /\ a >= 1 /\ transaction_ids[t][a] = x
      /\ \A j \in 1..a : transaction_ids[x][j] = transaction_ids[t][j]
  BY AncPlace, PlaceAnc
<1>2. /\ y \in Transaction /\ b \in Nat /\ b >= 1 /\ transaction_ids[t][b] = y
      /\ \A j \in 1..b : transaction_ids[y][j] = transaction_ids[t][j]
  BY AncPlace, PlaceAnc
<1>3. (\A k \in 1..a : transaction_ids[x][k] \in Anc(x))
      /\ \A k \in 1..b : transaction_ids[y][k] \in Anc(y)
  BY <1>1, <1>2, PlaceAnc
<1> HIDE DEF a, b
<1>4. CASE a <= b
  <2>1. a \in 1..b BY <1>1, <1>2, <1>4
  <2> QED BY <1>1, <1>2, <1>3, <2>1
<1>5. CASE b <= a
  <2>1. b \in 1..a BY <1>1, <1>2, <1>5
  <2> QED BY <1>1, <1>2, <1>3, <2>1
<1> QED BY <1>1, <1>2, <1>4, <1>5

\* No two transactions are within each other.
LEMMA AncAntisym ==
    ASSUME NEW x \in Transaction, NEW y \in Anc(x), x \in Anc(y) PROVE x = y
<1> HIDE DEF transaction_ids
<1>1. y \in Transaction /\ Len(transaction_ids[y]) <= Len(transaction_ids[x])
      /\ transaction_ids[x][Len(transaction_ids[y])] = y
  BY AncPlace, PlaceAnc
<1>2. Len(transaction_ids[x]) <= Len(transaction_ids[y]) BY <1>1, AncPlace, PlaceAnc
<1>3. Len(transaction_ids[x]) = Len(transaction_ids[y]) BY <1>1, <1>2, PlaceAnc
<1> QED BY <1>1, <1>3, PlaceAnc

\* The root is within nobody.
LEMMA AncRoot == Anc(Root) = {Root}
<1> HIDE DEF transaction_ids
<1>1. Root \in Transaction BY DEF Transaction
<1>2. DOMAIN transaction_ids[Root] = 1..1 /\ transaction_ids[Root][1] = Root
  BY <1>1, RootChain, PlaceAnc
<1> QED BY <1>2 DEF Anc

\* The ancestors of a nested transaction are its parent's and itself.
LEMMA AncParent ==
    ASSUME NEW t \in Nested
    PROVE  /\ t \in Transaction /\ Parent[t] \in Transaction /\ t # Root
           /\ Anc(t) = Anc(Parent[t]) \cup {t} /\ t \notin Anc(Parent[t])
<1>1. t \in Transaction /\ Parent[t] \in Transaction /\ t # Root
  BY ParentAssumption, RootAssumption DEF Transaction
<1>2. transaction_ids[t] = Append(transaction_ids[Parent[t]], t) BY <1>1, ChainEquation
<1> HIDE DEF transaction_ids
<1>3. ChainOK(Parent[t]) BY <1>1, Chains
<1>4. PICK q \in Seq(Transaction) : q = transaction_ids[Parent[t]] BY <1>3 DEF ChainOK
<1>5. PICK c : c = transaction_ids[t] OBVIOUS
<1>6. /\ c \in Seq(Transaction) /\ Len(c) = Len(q) + 1
      /\ \A i \in 1..Len(q) : c[i] = q[i]
      /\ c[Len(q) + 1] = t
  BY <1>1, <1>2, <1>4, <1>5, AppendProperties
<1>7. Len(q) \in Nat /\ DOMAIN q = 1..Len(q) /\ DOMAIN c = 1..(Len(q) + 1)
  BY <1>4, <1>6, LenProperties
<1>8. Anc(t) = {c[k] : k \in DOMAIN c} /\ Anc(Parent[t]) = {q[k] : k \in DOMAIN q}
  BY <1>4, <1>5 DEF Anc
<1>9. Anc(t) = Anc(Parent[t]) \cup {t} BY <1>6, <1>7, <1>8
<1>10. t \notin Anc(Parent[t])
  <2> SUFFICES ASSUME t \in Anc(Parent[t]) PROVE FALSE OBVIOUS
  <2>1. Len(c) <= Len(q) BY <1>1, <1>4, <1>5, AncPlace, PlaceAnc
  <2> QED BY <1>6, <1>7, <2>1
<1> QED BY <1>1, <1>9, <1>10

\* The child towards a transaction within.
LEMMA ChildTowards ==
    ASSUME NEW d \in Transaction, NEW x \in Anc(d), x # d
    PROVE  \E c \in Nested : Parent[c] = x /\ c \in Anc(d)
<1> HIDE DEF transaction_ids
<1> DEFINE n == Len(transaction_ids[x])
<1>1. x \in Transaction /\ n \in Nat /\ n >= 1 /\ n <= Len(transaction_ids[d])
      /\ transaction_ids[d][n] = x
  BY AncPlace, PlaceAnc
<1>2. n # Len(transaction_ids[d]) BY <1>1, PlaceAnc
<1>3. n + 1 \in 1..Len(transaction_ids[d]) BY <1>1, <1>2, PlaceAnc
<1>4. PICK c : c = transaction_ids[d][n + 1] OBVIOUS
<1>5. c \in Anc(d) /\ Len(transaction_ids[c]) = n + 1 BY <1>3, <1>4, PlaceAnc
<1>6. c \in Transaction /\ \A j \in 1..(n + 1) : transaction_ids[c][j] = transaction_ids[d][j]
  BY <1>5, AncPlace
<1>7. c # Root
  <2> HIDE DEF n
  <2>1. Len(transaction_ids[Root]) = 1 BY RootChain
  <2>2. n + 1 # 1 BY <1>1
  <2> QED BY <1>5, <2>1, <2>2
<1>8. c \in Nested BY <1>6, <1>7 DEF Transaction
<1>9. Parent[c] \in Transaction /\ Len(transaction_ids[c]) = Len(transaction_ids[Parent[c]]) + 1
  BY <1>8, NestedChain, Chains, AncParent
<1>10. Parent[c] \in Anc(c) BY <1>8, AncParent, AncSelf
<1>11. transaction_ids[c][Len(transaction_ids[Parent[c]])] = Parent[c] BY <1>6, <1>10, AncPlace
<1>12. Len(transaction_ids[Parent[c]]) = n
  <2> HIDE DEF n
  <2> QED BY <1>1, <1>5, <1>9, PlaceAnc
<1>13. Parent[c] = x
  <2> HIDE DEF n
  <2> QED BY <1>1, <1>6, <1>11, <1>12
<1> QED BY <1>5, <1>8, <1>13

-----------------------------------------------------------------------------
(* What the operations on chains compute.                                  *)

\* The ids of a chain are the ancestors.
LEMMA IdsOfChain ==
    /\ Ids(<<>>) = {}
    /\ \A t \in Transaction : Ids(transaction_ids[t]) = Anc(t)
BY DEF Ids, Anc

\* The type of a chain.
LEMMA ChainType ==
    ASSUME NEW t \in Transaction
    PROVE  transaction_ids[t] \in Seq(Transaction) /\ transaction_ids[t] # <<>>
<1> HIDE DEF transaction_ids
<1>1. transaction_ids[t] \in Seq(Transaction) /\ Len(transaction_ids[t]) >= 1
  BY Chains DEF ChainOK
<1>2. Len(<<>>) = 0 BY EmptySeq
<1>3. transaction_ids[t] # <<>>
  <2> SUFFICES ASSUME transaction_ids[t] = <<>> PROVE FALSE OBVIOUS
  <2>1. Len(transaction_ids[t]) = 0 BY <1>2
  <2> QED BY <1>1, <2>1
<1> QED BY <1>1, <1>3

\* The last id tells whose chain it is.
LEMMA ChainInjective ==
    ASSUME NEW s \in Transaction, NEW t \in Transaction, transaction_ids[s] = transaction_ids[t]
    PROVE  s = t
<1> HIDE DEF transaction_ids
<1> QED BY PlaceAnc

\* A chain that begins with another is within it.
LEMMA ChainPrefix ==
    ASSUME NEW o \in Transaction, NEW t \in Transaction,
           Len(transaction_ids[o]) <= Len(transaction_ids[t]),
           SubSeq(transaction_ids[t], 1, Len(transaction_ids[o])) = transaction_ids[o]
    PROVE  o \in Anc(t)
<1> HIDE DEF transaction_ids
<1>1. PICK n : n = Len(transaction_ids[o]) OBVIOUS
<1>2. PICK c \in Seq(Transaction) : c = transaction_ids[t] BY ChainType
<1>3. n \in Nat /\ n >= 1 /\ n <= Len(c) /\ transaction_ids[o][n] = o
  BY <1>1, <1>2, PlaceAnc
<1>4. \A i \in 1..n : c[i] \in Transaction
  BY <1>3, <1>2, ElementOfSeq, LenProperties
<1>5. \A i \in 1..n : SubSeq(c, 1, n)[i] = c[i]
  BY <1>3, <1>4, SubSeqProperties
<1>6. SubSeq(c, 1, n)[n] = c[n] BY <1>3, <1>5
<1>7. c[n] = o BY <1>1, <1>2, <1>3, <1>6
<1>8. n \in 1..Len(transaction_ids[t]) BY <1>2, <1>3, PlaceAnc
<1> QED BY <1>2, <1>7, <1>8, PlaceAnc

\* The place of an id in a chain is its depth.
LEMMA IndexInChain ==
    ASSUME NEW o \in Transaction, NEW t \in Anc(o)
    PROVE  IndexOf(transaction_ids[o], t) = Len(transaction_ids[t])
<1> HIDE DEF transaction_ids
<1>1. Len(transaction_ids[t]) \in DOMAIN transaction_ids[o]
      /\ transaction_ids[o][Len(transaction_ids[t])] = t
  BY AncPlace, PlaceAnc
<1>2. PICK i : i = IndexOf(transaction_ids[o], t) OBVIOUS
<1>3. i \in DOMAIN transaction_ids[o] /\ transaction_ids[o][i] = t
  BY <1>1, <1>2 DEF IndexOf
<1>4. Len(transaction_ids[t]) = i BY <1>3, PlaceAnc
<1> QED BY <1>2, <1>4

\* So the chain up to it is the chain of its parent.
LEMMA CutChain ==
    ASSUME NEW o \in Transaction, NEW t \in Nested \cap Anc(o)
    PROVE  SubSeq(transaction_ids[o], 1, IndexOf(transaction_ids[o], t) - 1)
             = transaction_ids[Parent[t]]
<1> HIDE DEF transaction_ids
<1>1. Parent[t] \in Transaction /\ t \in Transaction BY AncParent
<1>2. Parent[t] \in Anc(o) BY <1>1, AncParent, AncSelf, AncTrans
<1>3. Len(transaction_ids[t]) = Len(transaction_ids[Parent[t]]) + 1
  BY <1>1, NestedChain, Chains
<1>4. PICK n : n = Len(transaction_ids[Parent[t]]) OBVIOUS
<1>5. PICK c \in Seq(Transaction) : c = transaction_ids[o] BY ChainType
<1>6. PICK q \in Seq(Transaction) : q = transaction_ids[Parent[t]] BY <1>1, ChainType
<1>7. n \in Nat /\ n >= 1 /\ n <= Len(c) /\ Len(q) = n /\ \A j \in 1..n : q[j] = c[j]
  BY <1>1, <1>2, <1>4, <1>5, <1>6, AncPlace, PlaceAnc
<1>8. IndexOf(c, t) - 1 = n BY <1>3, <1>4, <1>5, <1>7, IndexInChain
<1>9. \A i \in 1..n : c[i] \in Transaction
  BY <1>7, <1>5, ElementOfSeq, LenProperties
<1>10. SubSeq(c, 1, n) \in Seq(Transaction) /\ Len(SubSeq(c, 1, n)) = n
       /\ \A i \in 1..n : SubSeq(c, 1, n)[i] = c[i]
  BY <1>7, <1>9, SubSeqProperties
<1>11. \A i \in 1..n : SubSeq(c, 1, n)[i] = q[i] BY <1>7, <1>10
<1>12. SubSeq(c, 1, n) = q BY <1>6, <1>7, <1>10, <1>11, SeqEqual
<1> QED BY <1>5, <1>6, <1>8, <1>12

\* At the second place of a chain is a child of the root.
LEMMA SecondInChain ==
    ASSUME NEW o \in Transaction, NEW t \in Nested \cap Anc(o),
           IndexOf(transaction_ids[o], t) = 2
    PROVE  Parent[t] = Root
<1> HIDE DEF transaction_ids
<1>1. Parent[t] \in Transaction BY AncParent
<1>2. Len(transaction_ids[t]) = Len(transaction_ids[Parent[t]]) + 1
  BY <1>1, NestedChain, Chains
<1>3. Len(transaction_ids[t]) = 2 BY IndexInChain
<1>5. PICK n : n = Len(transaction_ids[Parent[t]]) OBVIOUS
<1>6. n \in Nat BY <1>1, <1>5, PlaceAnc
<1>7. n + 1 = 2 BY <1>2, <1>3, <1>5
<1>4. n = 1
  <2> SUFFICES ASSUME n + 1 = 2, n \in Nat PROVE n = 1 BY <1>6, <1>7
  <2> QED OBVIOUS
<1> QED BY <1>1, <1>4, <1>5, PlaceAnc

-----------------------------------------------------------------------------
(* The invariant: how transactions, owners and snapshots are nested.       *)

Busy(s) == s \in {"draining", "running"}

\* Transactions run within running ones, and nothing starts within one that
\* has not been started or drains the calls in flight.
TreeOK ==
    /\ \A d \in Transaction : Busy(status[d]) => \A x \in Anc(d) : x # d => status[x] = "running"
    /\ \A d \in Transaction : status[d] # "idle" => \A x \in Anc(d) : status[x] # "idle"
    /\ \A d \in Transaction : \A x \in Anc(d) :
          x # d /\ status[x] = "draining" => status[d] = "idle"
    /\ status[Root] \in {"running", "committed"}

\* Calls are made by those who run, requests are sent by those who ended.
CallsOK ==
    /\ \A d \in Transaction : call[d] # "none" => status[d] = "running" /\ made[d] > 0
    /\ \A d \in Transaction : made[d] > 0 => status[d] # "idle"
    /\ \A r \in sent : status[r.id] = IF r.aborted THEN "aborted" ELSE "committed"

\* The chain of ids with which a transaction that was started claimed it.
IsClaim(ids) ==
    ids = <<>> \/ \E o \in Transaction : ids = transaction_ids[o] /\ status[o] # "idle"

\* Whom a snapshot was taken within, and who owned the state before.
Within(i) == Ids(snapshots[i].transaction_ids)
Before(i) == Ids(snapshots[i].owner_ids)

\* A snapshot has the chain it was taken with and, before it, the owner's.
\* For each nested owner in it there is an older snapshot, and whoever is under
\* way and in an older snapshot was an owner; so was a method of this state
\* that is under way before anybody within it.
SnapshotOK(i) ==
    /\ \E t \in Nested :
        /\ snapshots[i].transaction_ids = transaction_ids[t] /\ status[t] # "idle"
        /\ \A x \in Here \cap Anc(t) : x # t /\ Busy(status[x]) => x \in Before(i)
        /\ \/ snapshots[i].owner_ids = <<>> /\ snapshots[i].mode = "shared"
           \/ \E p \in Anc(t) : snapshots[i].owner_ids = transaction_ids[p]
    /\ \A x \in Nested \cap Before(i) : \E j \in 1..i - 1 : x \in Within(j)
    /\ \A j \in 1..i - 1 : \A x \in Within(j) : Busy(status[x]) => x \in Before(i)

OwnerOK ==
    /\ IsClaim(owner_ids)
    /\ \A x \in Nested \cap Ids(owner_ids) : \E j \in DOMAIN snapshots : x \in Within(j)
    /\ \A j \in DOMAIN snapshots : \A x \in Within(j) : Busy(status[x]) => x \in Ids(owner_ids)
    /\ \A x \in Here : Busy(status[x]) => x \in Ids(owner_ids)
    /\ owner_ids = <<>> => mode # "exclusive"
    /\ mode = "none" => owner_ids = <<>>
    /\ prepared => status[Root] = "committed" /\ Ids(owner_ids) \cap Nested = {}

SnapshotsOK == \A i \in DOMAIN snapshots : SnapshotOK(i)

Structure == TypeOK /\ TreeOK /\ CallsOK /\ OwnerOK /\ SnapshotsOK /\ MethodsAlone

-----------------------------------------------------------------------------
(* Transactions start and end.                                             *)

\* Nothing starts again, and whoever is under way was or had not been started.
Onward ==
    \A x \in Transaction :
        /\ status[x] # "idle" => status'[x] # "idle"
        /\ Busy(status'[x]) => Busy(status[x]) \/ status[x] = "idle"

StatusType == status \in [Transaction -> {"idle", "draining", "running", "committed", "aborted"}]

\* A transaction that starts within a running one keeps the tree.
LEMMA TreeStart ==
    ASSUME StatusType, TreeOK, NEW t \in Nested, NEW s \in {"draining", "running"},
           status[t] = "idle", status[Parent[t]] = "running",
           status' = [status EXCEPT ![t] = s]
    PROVE  TreeOK' /\ Onward
<1>1. /\ t \in Transaction /\ Parent[t] \in Transaction /\ t # Root
      /\ Anc(t) = Anc(Parent[t]) \cup {t} /\ t \notin Anc(Parent[t])
  BY AncParent
<1>2. status'[t] = s /\ \A x \in Transaction : x # t => status'[x] = status[x]
  BY <1>1 DEF StatusType
<1>3. \A d \in Transaction : t \in Anc(d) => status[d] = "idle" BY <1>1 DEF TreeOK
<1>4. \A x \in Anc(Parent[t]) : status[x] = "running"
  BY <1>1 DEF TreeOK, Busy
<1>5. \A d \in Transaction : Anc(d) \subseteq Transaction BY AncType
<1>6. ASSUME NEW d \in Transaction, NEW x \in Anc(d), Busy(status'[d]), x # d
      PROVE  status'[x] = "running"
  <2>1. CASE d = t BY <1>1, <1>2, <1>4, <1>5, <1>6, <2>1
  <2>2. CASE d # t
    <3>1. Busy(status[d]) BY <1>2, <1>6, <2>2
    <3>2. x # t BY <1>3, <1>6, <3>1 DEF Busy
    <3> QED BY <1>2, <1>5, <1>6, <3>1, <3>2 DEF TreeOK
  <2> QED BY <2>1, <2>2
<1>7. ASSUME NEW d \in Transaction, NEW x \in Anc(d), status'[d] # "idle"
      PROVE  status'[x] # "idle"
  <2>1. CASE d = t BY <1>1, <1>2, <1>4, <1>5, <1>7, <2>1
  <2>2. CASE d # t
    <3>1. status[x] # "idle" BY <1>2, <1>7, <2>2 DEF TreeOK
    <3> QED BY <1>2, <1>5, <1>7, <3>1
  <2> QED BY <2>1, <2>2
<1>8. ASSUME NEW d \in Transaction, NEW x \in Anc(d), x # d, status'[x] = "draining"
      PROVE  status'[d] = "idle"
  <2>1. CASE x = t BY <1>2, <1>3, <1>8, <2>1
  <2>2. CASE x # t
    <3>1. status[x] = "draining" BY <1>2, <1>5, <1>8, <2>2
    <3>2. status[d] = "idle" BY <1>8, <3>1 DEF TreeOK
    <3>3. d # t BY <1>1, <1>4, <1>8, <3>1
    <3> QED BY <1>2, <3>2, <3>3
  <2> QED BY <2>1, <2>2
<1>9. status'[Root] = status[Root] BY <1>1, <1>2 DEF Transaction
<1>10. TreeOK' BY <1>6, <1>7, <1>8, <1>9 DEF TreeOK
<1>11. Onward BY <1>2 DEF Onward
<1> QED BY <1>10, <1>11

\* Whoever ends has nobody under way within.
LEMMA NobodyWithin ==
    ASSUME TreeOK, NEW t \in Transaction, NoChildActive(t),
           NEW d \in Transaction, t \in Anc(d), d # t
    PROVE  ~Busy(status[d])
<1>1. PICK c \in Nested : Parent[c] = t /\ c \in Anc(d) BY ChildTowards
<1>2. ~Busy(status[c]) BY <1>1 DEF NoChildActive, Children, Active, Busy
<1>3. CASE c = d BY <1>2, <1>3
<1>4. CASE c # d BY <1>1, <1>2, <1>4 DEF TreeOK, Busy
<1> QED BY <1>3, <1>4

\* One that ends with nothing under way within it keeps the tree.
LEMMA TreeEnd ==
    ASSUME StatusType, TreeOK, NEW t \in Transaction, NEW s \in {"committed", "aborted"},
           t = Root => s = "committed",
           NoChildActive(t), status[t] = "running", status' = [status EXCEPT ![t] = s]
    PROVE  TreeOK' /\ Onward
<1>1. Root \in Transaction BY DEF Transaction
<1>2. status'[t] = s /\ \A x \in Transaction : x # t => status'[x] = status[x]
  BY DEF StatusType
<1>5. \A d \in Transaction : Anc(d) \subseteq Transaction BY AncType
<1>6. ASSUME NEW d \in Transaction, NEW x \in Anc(d), Busy(status'[d]), x # d
      PROVE  status'[x] = "running"
  <2>1. d # t BY <1>2, <1>6 DEF Busy
  <2>2. Busy(status[d]) BY <1>2, <1>6, <2>1
  <2>3. x # t BY <1>6, <2>2, NobodyWithin
  <2> QED BY <1>2, <1>5, <1>6, <2>2, <2>3 DEF TreeOK
<1>7. ASSUME NEW d \in Transaction, NEW x \in Anc(d), status'[d] # "idle"
      PROVE  status'[x] # "idle"
  <2>1. status[d] # "idle" BY <1>2, <1>7
  <2>2. status[x] # "idle" BY <1>7, <2>1 DEF TreeOK
  <2> QED BY <1>2, <1>5, <2>2
<1>8. ASSUME NEW d \in Transaction, NEW x \in Anc(d), x # d, status'[x] = "draining"
      PROVE  status'[d] = "idle"
  <2>1. status[x] = "draining" BY <1>2, <1>5, <1>8
  <2>2. status[d] = "idle" BY <1>8, <2>1 DEF TreeOK
  <2> QED BY <1>2, <2>2
<1>9. status'[Root] \in {"running", "committed"} BY <1>1, <1>2 DEF TreeOK
<1>10. TreeOK' BY <1>6, <1>7, <1>8, <1>9 DEF TreeOK
<1>11. Onward BY <1>2 DEF Onward, Busy
<1> QED BY <1>10, <1>11

\* One that has drained the calls in flight keeps the tree.
LEMMA TreeDrained ==
    ASSUME StatusType, TreeOK, NEW t \in Nested, status[t] = "draining",
           status' = [status EXCEPT ![t] = "running"]
    PROVE  TreeOK' /\ Onward
<1>1. t \in Transaction /\ t # Root /\ Root \in Transaction BY AncParent DEF Transaction
<1>2. status'[t] = "running" /\ \A x \in Transaction : x # t => status'[x] = status[x]
  BY <1>1 DEF StatusType
<1>3. \A d \in Transaction : Anc(d) \subseteq Transaction BY AncType
<1>4. \A d \in Transaction : /\ Busy(status'[d]) <=> Busy(status[d])
                             /\ status'[d] # "idle" <=> status[d] # "idle"
                             /\ status'[d] = "draining" => status[d] = "draining"
                             /\ status[d] = "running" => status'[d] = "running"
  BY <1>2 DEF Busy
<1>5. TreeOK' BY <1>1, <1>2, <1>3, <1>4 DEF TreeOK
<1> QED BY <1>4, <1>5 DEF Onward

\* A running transaction is within a running root.
LEMMA RootRuns ==
    ASSUME TreeOK, NEW t \in Transaction, Busy(status[t]) PROVE status[Root] = "running"
BY AncSelf DEF TreeOK, Busy

-----------------------------------------------------------------------------
(* Owners and snapshots.                                                   *)

\* Nobody in a snapshot has not been started, and whom a claim names is an owner.
LEMMA SnapshotIds ==
    ASSUME TreeOK, NEW i \in DOMAIN snapshots, SnapshotOK(i)
    PROVE  /\ \E t \in Nested : Within(i) = Anc(t)
           /\ \A x \in Within(i) : x \in Transaction /\ status[x] # "idle"
           /\ \A x \in Before(i) : x \in Transaction
<1> HIDE DEF transaction_ids
<1>1. PICK t \in Nested :
        /\ snapshots[i].transaction_ids = transaction_ids[t] /\ status[t] # "idle"
        /\ \/ snapshots[i].owner_ids = <<>>
           \/ \E p \in Anc(t) : snapshots[i].owner_ids = transaction_ids[p]
  BY DEF SnapshotOK
<1>2. t \in Transaction /\ Anc(t) \subseteq Transaction BY AncParent, AncType
<1>3. Within(i) = Anc(t) BY <1>1, <1>2, IdsOfChain DEF Within
<1>4. \A x \in Before(i) : x \in Transaction
  <2>1. CASE snapshots[i].owner_ids = <<>> BY <2>1, IdsOfChain DEF Before
  <2>2. ASSUME NEW p \in Anc(t), snapshots[i].owner_ids = transaction_ids[p]
        PROVE  \A x \in Before(i) : x \in Transaction
    <3>1. p \in Transaction BY <1>2
    <3> QED BY <3>1, <2>2, IdsOfChain, AncType DEF Before
  <2> QED BY <1>1, <2>1, <2>2
<1> QED BY <1>1, <1>2, <1>3, <1>4 DEF TreeOK

\* A snapshot stays sound while it and the older ones stay.
LEMMA SnapshotStays ==
    ASSUME TreeOK, Onward, SnapshotsOK, NEW i \in Nat \ {0},
           1..i \subseteq DOMAIN snapshots, \A j \in 1..i : snapshots'[j] = snapshots[j]
    PROVE  SnapshotOK(i)'
<1> HIDE DEF transaction_ids
<1>1. i \in 1..i /\ \A j \in 1..i - 1 : j \in 1..i OBVIOUS
<1>2. SnapshotOK(i) /\ snapshots'[i] = snapshots[i] BY <1>1 DEF SnapshotsOK
<1>3. \A j \in 1..i : Within(j)' = Within(j) BY DEF Within
<1>4. Before(i)' = Before(i) BY <1>2 DEF Before
<1>5. \A j \in 1..i : \A x \in Within(j) : x \in Transaction /\ status[x] # "idle"
  BY SnapshotIds DEF SnapshotsOK
<1>6. PICK t \in Nested :
        /\ snapshots[i].transaction_ids = transaction_ids[t] /\ status[t] # "idle"
        /\ \A x \in Here \cap Anc(t) : x # t /\ Busy(status[x]) => x \in Before(i)
        /\ \/ snapshots[i].owner_ids = <<>> /\ snapshots[i].mode = "shared"
           \/ \E p \in Anc(t) : snapshots[i].owner_ids = transaction_ids[p]
  BY <1>2 DEF SnapshotOK
<1>7. t \in Transaction /\ Anc(t) \subseteq Transaction BY AncParent, AncType
<1>8. \A x \in Anc(t) : status[x] # "idle" BY <1>6, <1>7 DEF TreeOK
<1>9. \A x \in Here \cap Anc(t) : x # t /\ Busy(status'[x]) => x \in Before(i)
  BY <1>6, <1>7, <1>8 DEF Onward
<1>10. status'[t] # "idle" BY <1>6, <1>7 DEF Onward
<1>11. \E u \in Nested :
        /\ snapshots'[i].transaction_ids = transaction_ids[u] /\ status'[u] # "idle"
        /\ \A x \in Here \cap Anc(u) : x # u /\ Busy(status'[x]) => x \in Before(i)'
        /\ \/ snapshots'[i].owner_ids = <<>> /\ snapshots'[i].mode = "shared"
           \/ \E p \in Anc(u) : snapshots'[i].owner_ids = transaction_ids[p]
  BY <1>2, <1>4, <1>6, <1>9, <1>10
<1>12. \A x \in Nested \cap Before(i)' : \E j \in 1..i - 1 : x \in Within(j)'
  <2>1. \A x \in Nested \cap Before(i) : \E j \in 1..i - 1 : x \in Within(j)
    BY <1>2 DEF SnapshotOK
  <2> QED BY <1>1, <1>3, <1>4, <2>1
<1>13. \A j \in 1..i - 1 : \A x \in Within(j)' : Busy(status'[x]) => x \in Before(i)'
  <2>1. \A j \in 1..i - 1 : \A x \in Within(j) : Busy(status[x]) => x \in Before(i)
    BY <1>2 DEF SnapshotOK
  <2> QED BY <1>1, <1>3, <1>4, <1>5, <2>1 DEF Onward
<1> QED BY <1>11, <1>12, <1>13 DEF SnapshotOK

\* So snapshots stay sound if some are dropped from the end, or none.
LEMMA SnapshotsStay ==
    ASSUME TreeOK, Onward, SnapshotsOK, NEW n \in Nat, 1..n \subseteq DOMAIN snapshots,
           \A j \in 1..n : snapshots'[j] = snapshots[j]
    PROVE  \A i \in 1..n : SnapshotOK(i)'
<1> SUFFICES ASSUME NEW i \in 1..n PROVE SnapshotOK(i)' OBVIOUS
<1>1. i \in Nat \ {0} /\ 1..i \subseteq 1..n OBVIOUS
<1> QED BY <1>1, SnapshotStays

\* The shape of the stack.
LEMMA SnapshotsType ==
    ASSUME snapshots \in Seq(Snapshot)
    PROVE  /\ Len(snapshots) \in Nat /\ DOMAIN snapshots = 1..Len(snapshots)
           /\ \A i \in DOMAIN snapshots : snapshots[i] \in Snapshot
BY LenProperties, ElementOfSeq

\* The owner's ids are transactions that have been started.
LEMMA OwnerIds ==
    ASSUME TreeOK, IsClaim(owner_ids)
    PROVE  /\ \A x \in Ids(owner_ids) : x \in Transaction /\ status[x] # "idle"
           /\ \A x, y \in Ids(owner_ids) : x \in Anc(y) \/ y \in Anc(x)
           /\ \A x \in Ids(owner_ids) : Anc(x) \subseteq Ids(owner_ids)
<1> HIDE DEF transaction_ids
<1>1. CASE owner_ids = <<>> BY <1>1, IdsOfChain
<1>2. ASSUME NEW o \in Transaction, owner_ids = transaction_ids[o], status[o] # "idle"
      PROVE  /\ \A x \in Ids(owner_ids) : x \in Transaction /\ status[x] # "idle"
             /\ \A x, y \in Ids(owner_ids) : x \in Anc(y) \/ y \in Anc(x)
             /\ \A x \in Ids(owner_ids) : Anc(x) \subseteq Ids(owner_ids)
  <2>1. Ids(owner_ids) = Anc(o) BY <1>2, IdsOfChain
  <2>2. \A x \in Anc(o) : x \in Transaction /\ status[x] # "idle"
    BY <1>2, AncType DEF TreeOK
  <2>3. \A x, y \in Anc(o) : x \in Anc(y) \/ y \in Anc(x) BY AncLinear
  <2>4. \A x \in Anc(o) : Anc(x) \subseteq Anc(o) BY AncTrans
  <2> QED BY <2>1, <2>2, <2>3, <2>4
<1> QED BY <1>1, <1>2 DEF IsClaim

\* What of OwnerOK is kept by a step that leaves the owner and the snapshots.
LEMMA OwnerStays ==
    ASSUME TreeOK, Onward, OwnerOK, SnapshotsOK, UNCHANGED <<owner_ids, snapshots>>,
           \A x \in Here : Busy(status'[x]) => Busy(status[x]),
           mode' = mode \/ (owner_ids # <<>> /\ mode' # "none"),
           prepared' => status'[Root] = "committed" /\ Ids(owner_ids) \cap Nested = {}
    PROVE  OwnerOK'
<1> HIDE DEF transaction_ids
<1>1. Ids(owner_ids)' = Ids(owner_ids) /\ \A j : Within(j)' = Within(j) BY DEF Within
<1>2. \A j \in DOMAIN snapshots : \A x \in Within(j) : x \in Transaction /\ status[x] # "idle"
  BY SnapshotIds DEF SnapshotsOK
<1>3. IsClaim(owner_ids)'
  <2>1. CASE owner_ids = <<>> BY <2>1 DEF IsClaim
  <2>2. ASSUME NEW o \in Transaction, owner_ids = transaction_ids[o], status[o] # "idle"
        PROVE  IsClaim(owner_ids)'
    <3>1. status'[o] # "idle" BY <2>2 DEF Onward
    <3> QED BY <2>2, <3>1 DEF IsClaim
  <2> QED BY <2>1, <2>2 DEF OwnerOK, IsClaim
<1>4. \A x \in Nested \cap Ids(owner_ids)' : \E j \in DOMAIN snapshots' : x \in Within(j)'
  BY <1>1 DEF OwnerOK
<1>5. \A j \in DOMAIN snapshots' : \A x \in Within(j)' :
          Busy(status'[x]) => x \in Ids(owner_ids)'
  BY <1>1, <1>2 DEF OwnerOK, Onward
<1>6. \A x \in Here : Busy(status'[x]) => x \in Ids(owner_ids)' BY <1>1 DEF OwnerOK
<1>7. (owner_ids' = <<>> => mode' # "exclusive") /\ (mode' = "none" => owner_ids' = <<>>)
  BY DEF OwnerOK
<1>8. prepared' => status'[Root] = "committed" /\ Ids(owner_ids)' \cap Nested = {}
  BY <1>1
<1> QED BY <1>3, <1>4, <1>5, <1>6, <1>7, <1>8 DEF OwnerOK

-----------------------------------------------------------------------------
(* Claims.                                                                 *)

\* A claim by t leaves the snapshots, ...
Kept(t) ==
    /\ t = Root \/ owner_ids = transaction_ids[t]
    /\ UNCHANGED <<snapshots, races>>

\* ... or pushes one of the state as it is, for t was not the owner.
Pushed(t, m) ==
    /\ t \in Nested /\ t \notin Ids(owner_ids)
    /\ snapshots' \in Seq(Snapshot) /\ Len(snapshots') = Len(snapshots) + 1
    /\ \A i \in 1..Len(snapshots) : snapshots'[i] = snapshots[i]
    /\ \E s \in Snapshot :
        /\ snapshots'[Len(snapshots) + 1] = s
        /\ s.transaction_ids = transaction_ids[t] /\ s.owner_ids = owner_ids
        /\ s.mode = IF owner_ids # <<>> THEN m ELSE "shared"
        /\ s.value = value /\ s.keys = keys
    /\ races' = {} => \A d \in Transaction : call[d] = "none"

\* What a claim does.
LEMMA ClaimFacts ==
    ASSUME TypeOK, IsClaim(owner_ids), NEW t \in Transaction, NEW m \in Mode,
           claim_ownership(t, m)
    PROVE  /\ owner_ids' = transaction_ids[t]
           /\ Ids(owner_ids)' = Anc(t) /\ Ids(owner_ids) \subseteq Anc(t)
           /\ Kept(t) \/ Pushed(t, m)
<1> HIDE DEF transaction_ids
<1>1. owner_ids' = transaction_ids[t] BY DEF claim_ownership
<1>2. Ids(owner_ids)' = Anc(t) BY <1>1, IdsOfChain
<1>3. owner_ids = <<>> \/ \E o \in Anc(t) : owner_ids = transaction_ids[o]
  <2> SUFFICES ASSUME NEW o \in Transaction, owner_ids = transaction_ids[o]
               PROVE  o \in Anc(t)
    BY DEF IsClaim
  <2>1. Len(owner_ids) <= Len(transaction_ids[t])
        /\ SubSeq(transaction_ids[t], 1, Len(owner_ids)) = owner_ids
    BY DEF claim_ownership, is_claimable_by
  <2> QED BY <2>1, ChainPrefix
<1>4. Anc(t) \subseteq Transaction BY AncType
<1>5. Ids(owner_ids) \subseteq Anc(t) /\ (owner_ids # transaction_ids[t] => t \notin Ids(owner_ids))
  <2>1. CASE owner_ids = <<>> BY <2>1, IdsOfChain
  <2>2. ASSUME NEW o \in Anc(t), owner_ids = transaction_ids[o]
        PROVE  /\ Ids(owner_ids) \subseteq Anc(t)
               /\ owner_ids # transaction_ids[t] => t \notin Ids(owner_ids)
    <3>1. Ids(owner_ids) = Anc(o) BY <1>4, <2>2, IdsOfChain
    <3>2. Anc(o) \subseteq Anc(t) BY AncTrans
    <3>3. t \in Anc(o) => o = t BY AncAntisym
    <3> QED BY <2>2, <3>1, <3>2, <3>3
  <2> QED BY <1>3, <2>1, <2>2
<1>6. CASE t = Root \/ owner_ids = transaction_ids[t]
  BY <1>1, <1>2, <1>5, <1>6 DEF claim_ownership, Kept
<1>7. CASE ~(t = Root \/ owner_ids = transaction_ids[t])
  <2>1. t \in Nested /\ t \notin Ids(owner_ids) BY <1>5, <1>7 DEF Transaction
  <2>2. PICK s : s = [transaction_ids |-> transaction_ids[t], owner_ids |-> owner_ids,
                      mode |-> IF owner_ids # <<>> THEN m ELSE "shared",
                      value |-> value, keys |-> keys]
    OBVIOUS
  <2>3. snapshots' = Append(snapshots, s)
    BY <1>7, <2>2 DEF claim_ownership, push_snapshot
  <2>4. s \in Snapshot
    <3>1. transaction_ids[t] \in Seq(Transaction) BY ChainType
    <3>2. (IF owner_ids # <<>> THEN m ELSE "shared") \in Mode BY DEF Mode
    <3> QED BY <2>2, <3>1, <3>2 DEF TypeOK, Snapshot
  <2>5. /\ s.transaction_ids = transaction_ids[t] /\ s.owner_ids = owner_ids
        /\ s.mode = IF owner_ids # <<>> THEN m ELSE "shared"
        /\ s.value = value /\ s.keys = keys
    BY <2>2
  <2>6. PICK q \in Seq(Snapshot) : q = snapshots BY DEF TypeOK
  <2>7. /\ snapshots' \in Seq(Snapshot) /\ Len(snapshots') = Len(q) + 1
        /\ \A i \in 1..Len(q) : snapshots'[i] = q[i]
        /\ snapshots'[Len(q) + 1] = s
    BY <2>3, <2>4, <2>6, AppendProperties
  <2>8. races' = {} => \A d \in Transaction : call[d] = "none"
    BY <1>7 DEF claim_ownership, Race
  <2>9. Pushed(t, m) BY <2>1, <2>4, <2>5, <2>6, <2>7, <2>8 DEF Pushed
  <2> QED BY <1>1, <1>2, <1>5, <2>9
<1> QED BY <1>6, <1>7

\* The owner of a state that t claimed, and the snapshot pushed for it.
LEMMA ClaimKeeps ==
    ASSUME TypeOK, TreeOK, TreeOK', Onward, OwnerOK, SnapshotsOK,
           NEW t \in Transaction, NEW m \in Mode, claim_ownership(t, m),
           Busy(status'[t]), \A x \in Here : Busy(status'[x]) => Busy(status[x]) \/ x = t,
           mode' # "none", ~prepared'
    PROVE  OwnerOK' /\ SnapshotsOK'
<1> HIDE DEF transaction_ids
<1>1. IsClaim(owner_ids) BY DEF OwnerOK
<1>2. /\ owner_ids' = transaction_ids[t]
      /\ Ids(owner_ids)' = Anc(t) /\ Ids(owner_ids) \subseteq Anc(t)
      /\ Kept(t) \/ Pushed(t, m)
  BY <1>1, ClaimFacts
<1>3. Len(snapshots) \in Nat /\ DOMAIN snapshots = 1..Len(snapshots)
  BY SnapshotsType DEF TypeOK
<1>4. PICK n \in Nat : n = Len(snapshots) BY <1>3
<1>5. \A j \in 1..n : \A x \in Within(j) : x \in Transaction /\ status[x] # "idle"
  BY <1>3, <1>4, SnapshotIds DEF SnapshotsOK
<1>6. IsClaim(owner_ids)' /\ owner_ids' # <<>>
  BY <1>2, ChainType DEF IsClaim, Busy
<1>7. \A x \in Here : Busy(status'[x]) => x \in Ids(owner_ids)'
  BY <1>2, AncSelf DEF OwnerOK
<1>8. ASSUME NEW j \in 1..n, snapshots'[j] = snapshots[j], NEW x \in Within(j)', Busy(status'[x])
      PROVE  x \in Ids(owner_ids)'
  <2>1. x \in Within(j) BY <1>8 DEF Within
  <2>2. Busy(status[x]) BY <1>5, <1>8, <2>1 DEF Onward
  <2> QED BY <1>2, <1>3, <1>4, <2>1, <2>2 DEF OwnerOK
<1>9. CASE Kept(t)
  <2>1. \A j \in 1..n : snapshots'[j] = snapshots[j] BY <1>9 DEF Kept
  <2>2. SnapshotsOK' BY <1>3, <1>4, <1>9, SnapshotsStay DEF SnapshotsOK, Kept
  <2>3. \A x \in Nested \cap Ids(owner_ids)' : \E j \in DOMAIN snapshots' : x \in Within(j)'
    <3>1. \A j : Within(j)' = Within(j) BY <1>9 DEF Within, Kept
    <3>2. CASE t = Root BY <1>2, <3>2, AncRoot, RootAssumption
    <3>3. CASE owner_ids = transaction_ids[t]
      <4>1. Ids(owner_ids) = Anc(t) BY <3>3, IdsOfChain
      <4> QED BY <1>2, <1>9, <3>1, <4>1 DEF OwnerOK, Kept
    <3> QED BY <1>9, <3>2, <3>3 DEF Kept
  <2>4. \A j \in DOMAIN snapshots' : \A x \in Within(j)' :
          Busy(status'[x]) => x \in Ids(owner_ids)'
    BY <1>3, <1>4, <1>8, <1>9, <2>1 DEF Kept
  <2> QED BY <1>6, <1>7, <2>2, <2>3, <2>4 DEF OwnerOK
<1>10. CASE Pushed(t, m)
  <2>1. PICK s \in Snapshot :
        /\ snapshots'[n + 1] = s
        /\ s.transaction_ids = transaction_ids[t] /\ s.owner_ids = owner_ids
        /\ s.mode = IF owner_ids # <<>> THEN m ELSE "shared"
    BY <1>4, <1>10 DEF Pushed
  <2>2. /\ t \in Nested /\ \A j \in 1..n : snapshots'[j] = snapshots[j]
        /\ DOMAIN snapshots' = 1..(n + 1)
    BY <1>4, <1>10, LenProperties DEF Pushed
  <2>3. Within(n + 1)' = Anc(t) /\ Before(n + 1)' = Ids(owner_ids)
    BY <2>1, IdsOfChain DEF Within, Before
  <2>4. \A j \in 1..n : Within(j)' = Within(j) BY <2>2 DEF Within
  <2>5. \A x \in Nested \cap Ids(owner_ids)' : \E j \in DOMAIN snapshots' : x \in Within(j)'
    BY <1>2, <2>2, <2>3
  <2>6. \A j \in DOMAIN snapshots' : \A x \in Within(j)' :
          Busy(status'[x]) => x \in Ids(owner_ids)'
    <3> SUFFICES ASSUME NEW j \in DOMAIN snapshots', NEW x \in Within(j)', Busy(status'[x])
                 PROVE  x \in Ids(owner_ids)'
      OBVIOUS
    <3>1. CASE j = n + 1 BY <1>2, <2>3, <3>1
    <3>2. CASE j # n + 1
      <4>1. j \in 1..n BY <2>2, <3>2
      <4> QED BY <1>8, <2>2, <4>1
    <3> QED BY <3>1, <3>2
  <2>7. SnapshotOK(n + 1)'
    <3>1. \A x \in Here \cap Anc(t) : x # t /\ Busy(status'[x]) => x \in Before(n + 1)'
      BY <2>3 DEF OwnerOK
    <3>2. \/ s.owner_ids = <<>> /\ s.mode = "shared"
          \/ \E p \in Anc(t) : s.owner_ids = transaction_ids[p]
      <4>1. CASE owner_ids = <<>> BY <2>1, <4>1
      <4>2. ASSUME NEW o \in Transaction, owner_ids = transaction_ids[o]
            PROVE  \E p \in Anc(t) : s.owner_ids = transaction_ids[p]
        <5>1. o \in Ids(owner_ids) BY <4>2, IdsOfChain, AncSelf
        <5> QED BY <1>2, <2>1, <4>2, <5>1
      <4> QED BY <1>1, <4>1, <4>2 DEF IsClaim
    <3>3. status'[t] # "idle" BY DEF Busy
    <3>4. \E u \in Nested :
        /\ snapshots'[n + 1].transaction_ids = transaction_ids[u] /\ status'[u] # "idle"
        /\ \A x \in Here \cap Anc(u) : x # u /\ Busy(status'[x]) => x \in Before(n + 1)'
        /\ \/ snapshots'[n + 1].owner_ids = <<>> /\ snapshots'[n + 1].mode = "shared"
           \/ \E p \in Anc(u) : snapshots'[n + 1].owner_ids = transaction_ids[p]
      BY <2>1, <2>2, <3>1, <3>2, <3>3
    <3>5. 1..(n + 1) - 1 = 1..n OBVIOUS
    <3>6. \A x \in Nested \cap Before(n + 1)' : \E j \in 1..n : x \in Within(j)'
      BY <1>3, <1>4, <2>3, <2>4 DEF OwnerOK
    <3>7. \A j \in 1..n : \A x \in Within(j)' : Busy(status'[x]) => x \in Before(n + 1)'
      BY <1>3, <1>4, <1>5, <2>3, <2>4 DEF OwnerOK, Onward
    <3> QED BY <3>4, <3>5, <3>6, <3>7 DEF SnapshotOK
  <2>8. \A j \in 1..n : SnapshotOK(j)' BY <1>3, <1>4, <2>2, SnapshotsStay
  <2>9. SnapshotsOK'
    <3> SUFFICES ASSUME NEW j \in 1..(n + 1) PROVE SnapshotOK(j)' BY <2>2 DEF SnapshotsOK
    <3>1. j \in 1..n \/ j = n + 1 OBVIOUS
    <3> QED BY <2>7, <2>8, <3>1
  <2> QED BY <1>6, <1>7, <2>5, <2>6, <2>9 DEF OwnerOK
<1> QED BY <1>2, <1>9, <1>10

-----------------------------------------------------------------------------
(* Relinquishments.                                                        *)

\* The first n snapshots are left.
FirstLeft(n) ==
    /\ snapshots' \in Seq(Snapshot) /\ Len(snapshots') = n
    /\ \A j \in 1..n : snapshots'[j] = snapshots[j]

\* A relinquishment by who is not the owner changes nothing, ...
Ignored(t, m) ==
    /\ t \notin Ids(owner_ids) /\ mode' = m
    /\ UNCHANGED <<owner_ids, snapshots, value, keys, races>>

\* ... after a commit the parent is the owner, and the snapshot is dropped if
\* the parent has an older one or cannot be rolled back by itself, ...
Returned(t, i, m) ==
    /\ owner_ids' = transaction_ids[Parent[t]] /\ mode' = m
    /\ value' = value /\ keys' = keys
    /\ \/ snapshots' = snapshots
       \/ /\ FirstLeft(i - 1)
          /\ Parent[t] = Root \/ \E j \in 1..i - 1 : Parent[t] \in Within(j)
    /\ races' = {} => \A d \in Nested : d # t /\ d \in Ids(owner_ids) => status[d] # "aborted"

\* ... and after an abort everything is as in the oldest snapshot within t.
RolledBack(i) ==
    /\ owner_ids' = snapshots[i].owner_ids /\ mode' = snapshots[i].mode
    /\ value' = snapshots[i].value /\ keys' = keys \cap snapshots[i].keys
    /\ FirstLeft(i - 1)

\* What a relinquishment does.
LEMMA RelinquishFacts ==
    ASSUME TypeOK, TreeOK, OwnerOK, SnapshotsOK, NEW t \in Nested, NEW aborted \in BOOLEAN,
           NEW m, relinquish_ownership(t, aborted, m)
    PROVE  \/ Ignored(t, m)
           \/ \E i \in DOMAIN snapshots :
                /\ t \in Ids(owner_ids) /\ IsOldest(i, t)
                /\ ~aborted => Returned(t, i, m)
                /\ aborted => RolledBack(i)
                /\ (races' = {} => races = {})
<1> HIDE DEF transaction_ids
<1>1. CASE ~Contains(owner_ids, t)
  BY <1>1, ContainsIds DEF relinquish_ownership, Ignored
<1>2. CASE Contains(owner_ids, t)
  <2>1. t \in Ids(owner_ids) BY <1>2, ContainsIds
  <2>2. PICK i \in DOMAIN snapshots :
            /\ IsOldest(i, t)
            /\ IF pop(i, t, aborted)
               THEN snapshots' = SubSeq(snapshots, 1, i - 1)
               ELSE UNCHANGED snapshots
            /\ IF aborted
               THEN rollback(snapshots[i])
               ELSE /\ owner_ids' =
                         SubSeq(owner_ids, 1, IndexOf(owner_ids, t) - 1)
                    /\ mode' = m
                    /\ UNCHANGED <<value, keys>>
    BY <1>2 DEF relinquish_ownership
  <2>3. Race(/\ ~aborted
             /\ \E d \in Nested \ {t} :
                    Contains(owner_ids, d) /\ status[d] = "aborted", "overtaken")
    BY <1>2 DEF relinquish_ownership
  <2>4. /\ races' = {} => races = {}
        /\ races' = {} /\ ~aborted =>
             \A d \in Nested : d # t /\ d \in Ids(owner_ids) => status[d] # "aborted"
    BY <2>3, ContainsIds DEF Race
  <2>5. PICK q \in Seq(Snapshot) : q = snapshots BY DEF TypeOK
  <2>6. Len(q) \in Nat /\ i \in 1..Len(q) BY <2>5, SnapshotsType
  <2>7. snapshots' = SubSeq(snapshots, 1, i - 1) => FirstLeft(i - 1)
    <3> SUFFICES ASSUME snapshots' = SubSeq(q, 1, i - 1) PROVE FirstLeft(i - 1) BY <2>5
    <3>1. i - 1 \in Nat /\ i - 1 <= Len(q) BY <2>6
    <3>2. \A j \in 1..i - 1 : q[j] \in Snapshot BY <2>6, <3>1, ElementOfSeq
    <3>3. /\ SubSeq(q, 1, i - 1) \in Seq(Snapshot) /\ Len(SubSeq(q, 1, i - 1)) = i - 1
          /\ \A j \in 1..i - 1 : SubSeq(q, 1, i - 1)[j] = q[j]
      BY <3>1, <3>2, SubSeqProperties
    <3> QED BY <2>5, <3>3 DEF FirstLeft
  <2>8. CASE aborted
    <3>1. snapshots' = SubSeq(snapshots, 1, i - 1) /\ rollback(snapshots[i])
      BY <2>2, <2>8 DEF pop
    <3>2. RolledBack(i) BY <2>7, <3>1 DEF RolledBack, rollback
    <3> QED BY <2>1, <2>2, <2>4, <2>8, <3>2
  <2>9. CASE ~aborted
    <3>1. /\ owner_ids' = SubSeq(owner_ids, 1, IndexOf(owner_ids, t) - 1)
          /\ mode' = m /\ value' = value /\ keys' = keys
      BY <2>2, <2>9
    <3>2. PICK o \in Transaction : owner_ids = transaction_ids[o]
      BY <2>1, IdsOfChain DEF OwnerOK, IsClaim
    <3>3. t \in Anc(o) BY <2>1, <3>2, IdsOfChain
    <3>4. owner_ids' = transaction_ids[Parent[t]] BY <3>1, <3>2, <3>3, CutChain
    <3>5. pop(i, t, aborted) =>
            Parent[t] = Root \/ \E j \in 1..i - 1 : Parent[t] \in Within(j)
      <4>1. PICK u \in Nested : snapshots[i].transaction_ids = transaction_ids[u]
        BY DEF SnapshotsOK, SnapshotOK
      <4>2. u \in Transaction /\ t \in Anc(u)
        BY <2>2, <4>1, AncParent, ContainsIds, IdsOfChain DEF IsOldest
      <4>3. IndexOf(snapshots[i].transaction_ids, t) = 2 => Parent[t] = Root
        BY <4>1, <4>2, SecondInChain
      <4>4. \A j : Contains(snapshots[j].transaction_ids, Parent[t]) => Parent[t] \in Within(j)
        BY ContainsIds DEF Within
      <4> QED BY <2>9, <4>3, <4>4 DEF pop
    <3>6. Returned(t, i, m)
      <4>1. CASE pop(i, t, aborted)
        BY <2>2, <2>4, <2>7, <2>9, <3>1, <3>4, <3>5, <4>1 DEF Returned
      <4>2. CASE ~pop(i, t, aborted)
        BY <2>2, <2>4, <2>9, <3>1, <3>4, <4>2 DEF Returned
      <4> QED BY <4>1, <4>2
    <3> QED BY <2>1, <2>2, <2>4, <2>9, <3>6
  <2> QED BY <2>8, <2>9
<1> QED BY <1>1, <1>2

\* Owners that are under way are above one that has ended.
LEMMA AboveEnded ==
    ASSUME TreeOK, TreeOK', Onward, OwnerOK, NEW t \in Nested \cap Ids(owner_ids),
           ~Busy(status'[t]), NEW x \in Ids(owner_ids), Busy(status'[x])
    PROVE  x \in Anc(t) /\ x # t
<1>1. /\ t \in Transaction /\ x \in Transaction
      /\ x \in Anc(t) \/ t \in Anc(x)
  BY OwnerIds DEF OwnerOK
<1>2. x # t OBVIOUS
<1>3. t \notin Anc(x) BY <1>1, <1>2 DEF TreeOK, Busy
<1> QED BY <1>1, <1>2, <1>3

\* The owner of a snapshot that is the oldest within x is above x.
LEMMA BeforeAbove ==
    ASSUME TreeOK, SnapshotsOK, NEW i \in DOMAIN snapshots, NEW x \in Nested, IsOldest(i, x)
    PROVE  x \notin Before(i) /\ Before(i) \subseteq Anc(x)
<1> HIDE DEF transaction_ids
<1>1. PICK u \in Nested :
        /\ snapshots[i].transaction_ids = transaction_ids[u]
        /\ \/ snapshots[i].owner_ids = <<>>
           \/ \E p \in Anc(u) : snapshots[i].owner_ids = transaction_ids[p]
  BY DEF SnapshotsOK, SnapshotOK
<1>2. u \in Transaction /\ x \in Anc(u) /\ x \in Transaction
  BY <1>1, AncParent, ContainsIds, IdsOfChain DEF IsOldest
<1>3. x \notin Before(i)
  <2> SUFFICES ASSUME x \in Before(i) PROVE FALSE OBVIOUS
  <2>1. PICK j \in 1..i - 1 : x \in Within(j) BY DEF SnapshotsOK, SnapshotOK
  <2> QED BY <2>1, ContainsIds DEF IsOldest, Within
<1>4. CASE snapshots[i].owner_ids = <<>> BY <1>3, <1>4, IdsOfChain DEF Before
<1>5. ASSUME NEW p \in Anc(u), snapshots[i].owner_ids = transaction_ids[p]
      PROVE  Before(i) \subseteq Anc(x)
  <2>1. p \in Transaction BY <1>2, AncType
  <2>2. Before(i) = Anc(p) BY <1>5, <2>1, IdsOfChain DEF Before
  <2>3. p \in Anc(x) BY <1>2, <1>3, <2>2, AncLinear
  <2> QED BY <1>2, <2>2, <2>3, AncTrans
<1> QED BY <1>1, <1>3, <1>4, <1>5

\* A relinquishment keeps the structure of owner and snapshots.
LEMMA RelinquishKeeps ==
    ASSUME TypeOK, TreeOK, TreeOK', Onward, OwnerOK, SnapshotsOK,
           NEW t \in Nested, NEW aborted \in BOOLEAN, NEW m,
           relinquish_ownership(t, aborted, m), ~Busy(status'[t]),
           \A x \in Transaction : Busy(status'[x]) => Busy(status[x]),
           m = mode \/ (t \in Ids(owner_ids) /\ m # "none"),
           prepared' = prepared, status'[Root] = status[Root]
    PROVE  OwnerOK' /\ SnapshotsOK'
<1> HIDE DEF transaction_ids
<1>0. \A x \in Here : Busy(status'[x]) => Busy(status[x]) BY HereAssumption
<1>1. CASE Ignored(t, m)
  <2>1. mode' = mode BY <1>1 DEF Ignored
  <2>2. SnapshotsOK'
    BY <1>1, SnapshotsType, SnapshotsStay DEF Ignored, SnapshotsOK, TypeOK
  <2>3. prepared' => status'[Root] = "committed" /\ Ids(owner_ids) \cap Nested = {}
    BY DEF OwnerOK
  <2>4. OwnerOK' BY <1>0, <1>1, <2>1, <2>3, OwnerStays DEF Ignored
  <2> QED BY <2>2, <2>4
<1>2. ASSUME NEW i \in DOMAIN snapshots, t \in Ids(owner_ids), IsOldest(i, t),
             ~aborted => Returned(t, i, m), aborted => RolledBack(i)
      PROVE  OwnerOK' /\ SnapshotsOK'
  <2>1. Len(snapshots) \in Nat /\ DOMAIN snapshots = 1..Len(snapshots) /\ i \in Nat /\ i >= 1
        /\ snapshots[i] \in Snapshot
    BY SnapshotsType DEF TypeOK
  <2>2. PICK n \in Nat : n = Len(snapshots) BY <2>1
  <2>3. PICK k \in Nat : k = i - 1 BY <2>1
  <2>4. k <= n /\ 1..k \subseteq DOMAIN snapshots /\ i \in 1..n /\ DOMAIN snapshots = 1..n
    BY <2>1, <2>2, <2>3
  <2>5. ~prepared' BY <1>2 DEF OwnerOK
  <2>6. mode # "none"
    <3>1. owner_ids # <<>> BY <1>2, IdsOfChain
    <3> QED BY <3>1 DEF OwnerOK
  <2>7. \A j \in 1..n : \A x \in Within(j) : x \in Transaction /\ status[x] # "idle"
    BY <2>4, SnapshotIds DEF SnapshotsOK
  <2>8. \A j \in 1..n : \A x \in Within(j) : Busy(status'[x]) => Busy(status[x])
    BY <2>7
  <2>9. CASE ~aborted
    <3>1. Returned(t, i, m) BY <1>2, <2>9
    <3>2. PICK l \in Nat : /\ l <= n /\ 1..l \subseteq DOMAIN snapshots
                           /\ snapshots' \in Seq(Snapshot) /\ Len(snapshots') = l
                           /\ \A j \in 1..l : snapshots'[j] = snapshots[j]
                           /\ l = n \/ (l = k /\ (Parent[t] = Root \/ \E j \in 1..l : Parent[t] \in Within(j)))
      <4>1. CASE snapshots' = snapshots BY <2>2, <2>4, <4>1 DEF TypeOK
      <4>2. CASE FirstLeft(i - 1) /\ (Parent[t] = Root \/ \E j \in 1..i - 1 : Parent[t] \in Within(j))
        BY <2>3, <2>4, <4>2 DEF FirstLeft
      <4> QED BY <3>1, <4>1, <4>2 DEF Returned
    <3>3. DOMAIN snapshots' = 1..l BY <3>2, LenProperties
    <3>4. SnapshotsOK' BY <3>2, <3>3, SnapshotsStay DEF SnapshotsOK
    <3>5. \A j \in 1..l : Within(j)' = Within(j) BY <3>2 DEF Within
    <3>6. /\ Parent[t] \in Transaction /\ t \in Transaction
          /\ Anc(t) = Anc(Parent[t]) \cup {t} /\ t \notin Anc(Parent[t])
      BY AncParent
    <3>7. owner_ids' = transaction_ids[Parent[t]] /\ Ids(owner_ids)' = Anc(Parent[t])
      BY <3>1, <3>6, IdsOfChain DEF Returned
    <3>8. Anc(t) \subseteq Ids(owner_ids) BY <1>2, OwnerIds DEF OwnerOK
    <3>9. status'[Parent[t]] # "idle"
      <4>1. status[t] # "idle" BY <1>2, OwnerIds DEF OwnerOK
      <4>2. status[Parent[t]] # "idle" BY <3>6, <4>1, AncSelf DEF TreeOK
      <4> QED BY <3>6, <4>2 DEF Onward
    <3>10. IsClaim(owner_ids)' /\ owner_ids' # <<>>
      BY <3>6, <3>7, <3>9, ChainType DEF IsClaim
    <3>11. \A x \in Ids(owner_ids) : Busy(status'[x]) => x \in Ids(owner_ids)'
      BY <1>2, <3>6, <3>7, AboveEnded
    <3>12. \A x \in Nested \cap Ids(owner_ids)' : \E j \in DOMAIN snapshots' : x \in Within(j)'
      <4> SUFFICES ASSUME NEW x \in Nested \cap Anc(Parent[t])
                   PROVE  \E j \in 1..l : x \in Within(j)
        BY <3>3, <3>5, <3>7
      <4>1. CASE l = n BY <2>4, <3>6, <3>8, <4>1 DEF OwnerOK
      <4>2. CASE Parent[t] = Root BY <4>2, AncRoot, RootAssumption
      <4>3. ASSUME NEW j \in 1..l, Parent[t] \in Within(j) PROVE x \in Within(j)
        <5>1. j \in DOMAIN snapshots BY <3>2
        <5>2. PICK u \in Nested : Within(j) = Anc(u) BY <5>1, SnapshotIds DEF SnapshotsOK
        <5> QED BY <4>3, <5>2, AncParent, AncTrans
      <4> QED BY <3>2, <4>1, <4>2, <4>3
    <3>13. \A j \in DOMAIN snapshots' : \A x \in Within(j)' :
             Busy(status'[x]) => x \in Ids(owner_ids)'
      BY <2>4, <2>8, <3>2, <3>3, <3>5, <3>11 DEF OwnerOK
    <3>14. \A x \in Here : Busy(status'[x]) => x \in Ids(owner_ids)'
      BY <1>0, <3>11 DEF OwnerOK
    <3>15. mode' # "none" BY <2>6, <3>1 DEF Returned
    <3> QED BY <2>5, <3>4, <3>10, <3>12, <3>13, <3>14, <3>15 DEF OwnerOK
  <2>10. CASE aborted
    <3>1. RolledBack(i) BY <1>2, <2>10
    <3>2. /\ snapshots' \in Seq(Snapshot) /\ Len(snapshots') = k
          /\ \A j \in 1..k : snapshots'[j] = snapshots[j]
      BY <2>3, <3>1 DEF RolledBack, FirstLeft
    <3>3. DOMAIN snapshots' = 1..k BY <3>2, LenProperties
    <3>4. SnapshotsOK' BY <2>4, <3>2, <3>3, SnapshotsStay DEF SnapshotsOK
    <3>5. \A j \in 1..k : Within(j)' = Within(j) BY <3>2 DEF Within
    <3>6. owner_ids' = snapshots[i].owner_ids /\ mode' = snapshots[i].mode
          /\ Ids(owner_ids)' = Before(i)
      BY <3>1 DEF RolledBack, Before
    <3>7. PICK u \in Nested :
        /\ snapshots[i].transaction_ids = transaction_ids[u] /\ status[u] # "idle"
        /\ \A x \in Here \cap Anc(u) : x # u /\ Busy(status[x]) => x \in Before(i)
        /\ \/ snapshots[i].owner_ids = <<>> /\ snapshots[i].mode = "shared"
           \/ \E p \in Anc(u) : snapshots[i].owner_ids = transaction_ids[p]
      BY DEF SnapshotsOK, SnapshotOK
    <3>8. u \in Transaction /\ t \in Anc(u) /\ t \in Transaction
      BY <1>2, <3>7, AncParent, ContainsIds, IdsOfChain DEF IsOldest
    <3>9. IsClaim(owner_ids)' /\ (owner_ids' = <<>> => mode' # "exclusive")
      <4>1. CASE snapshots[i].owner_ids = <<>> /\ snapshots[i].mode = "shared"
        BY <3>6, <4>1 DEF IsClaim
      <4>2. ASSUME NEW p \in Anc(u), snapshots[i].owner_ids = transaction_ids[p]
            PROVE  IsClaim(owner_ids)' /\ owner_ids' # <<>>
        <5>1. p \in Transaction BY <3>8, AncType
        <5>2. status[p] # "idle" BY <3>7, <3>8 DEF TreeOK
        <5>3. status'[p] # "idle" BY <5>1, <5>2 DEF Onward
        <5> QED BY <3>6, <4>2, <5>1, <5>3, ChainType DEF IsClaim
      <4> QED BY <3>7, <4>1, <4>2
    <3>10. \A x \in Nested \cap Ids(owner_ids)' : \E j \in DOMAIN snapshots' : x \in Within(j)'
      <4>1. \A x \in Nested \cap Before(i) : \E j \in 1..i - 1 : x \in Within(j)
        BY DEF SnapshotsOK, SnapshotOK
      <4> QED BY <2>3, <3>3, <3>5, <3>6, <4>1
    <3>11. \A j \in DOMAIN snapshots' : \A x \in Within(j)' :
             Busy(status'[x]) => x \in Ids(owner_ids)'
      <4>1. \A j \in 1..i - 1 : \A x \in Within(j) : Busy(status[x]) => x \in Before(i)
        BY DEF SnapshotsOK, SnapshotOK
      <4> QED BY <2>3, <2>4, <2>8, <3>3, <3>5, <3>6, <4>1
    <3>12. \A x \in Here : Busy(status'[x]) => x \in Ids(owner_ids)'
      <4> SUFFICES ASSUME NEW x \in Here, Busy(status'[x]) PROVE x \in Before(i) BY <3>6
      <4>1. Busy(status[x]) /\ x \in Ids(owner_ids) BY <1>0 DEF OwnerOK
      <4>2. x \in Anc(t) /\ x # t BY <1>2, <4>1, AboveEnded
      <4>3. x \in Anc(u) BY <3>8, <4>2, AncTrans
      <4>4. x # u BY <3>8, <4>2, AncAntisym
      <4> QED BY <3>7, <4>1, <4>3, <4>4
    <3>13. mode' # "none" BY <2>1, <3>6 DEF Snapshot, Mode
    <3> QED BY <2>5, <3>4, <3>9, <3>10, <3>11, <3>12, <3>13 DEF OwnerOK
  <2> QED BY <2>9, <2>10
<1> QED BY <1>1, <1>2, RelinquishFacts

-----------------------------------------------------------------------------
(* Every step keeps the structure.                                         *)

\* What the code finds within a transaction is.
LEMMA WithinAnc == \A t \in Transaction : \A x : IsWithin(t, x) <=> x \in Anc(t)
BY ContainsIds, IdsOfChain DEF IsWithin

\* A call joins with a lock.
LEMMA JoinedMode == ASSUME TypeOK, NEW kind PROVE Joined(kind) \in Mode
BY DEF TypeOK, Mode, Joined, JoinMode

\* A step that neither claims nor relinquishes the state.
LEMMA StructureStays ==
    ASSUME Structure, TypeOK', TreeOK', CallsOK', Onward, UNCHANGED <<owner_ids, snapshots>>,
           \A x \in Here : Busy(status'[x]) => Busy(status[x]),
           mode' = mode \/ (owner_ids # <<>> /\ mode' # "none"),
           prepared' => status'[Root] = "committed" /\ Ids(owner_ids) \cap Nested = {},
           MethodsAlone'
    PROVE  Structure'
<1>1. OwnerOK' BY OwnerStays DEF Structure
<1>2. SnapshotsOK' BY SnapshotsType, SnapshotsStay DEF Structure, SnapshotsOK, TypeOK
<1> QED BY <1>1, <1>2 DEF Structure

\* One that starts no call, no request and no method of this state.
LEMMA AloneStays ==
    ASSUME MethodsAlone,
           \A t \in Nested \cap Here : status'[t] = "running" => status[t] = "running",
           \A d \in Transaction : call'[d] # "none" => call[d] # "none"
    PROVE  MethodsAlone'
BY DEF MethodsAlone

\* A step that starts and ends nobody keeps the tree.
LEMMA SameStatus == ASSUME status' = status PROVE Onward /\ (TreeOK => TreeOK')
BY DEF Onward, TreeOK

\* A step of a body that only changes what it has loaded and the state.
LEMMA BodyKeeps ==
    ASSUME Structure, TypeOK', CallsOK', UNCHANGED <<owner_ids, snapshots, mode, prepared, status>>,
           \A d \in Transaction : call'[d] # "none" => call[d] # "none"
    PROVE  Structure'
<1>1. TreeOK' /\ Onward BY SameStatus DEF Structure
<1>2. MethodsAlone' BY AloneStays DEF Structure
<1>3. prepared' => status'[Root] = "committed" /\ Ids(owner_ids) \cap Nested = {}
  BY DEF Structure, OwnerOK
<1> QED BY <1>1, <1>2, <1>3, StructureStays

\* A writer that loads the state keeps the structure.
LEMMA LoadStructure == ASSUME Structure, NEW t \in Transaction, Load(t) PROVE Structure'
<1> USE DEF Load, participantVars
<1>1. TypeOK'
  <2>1. call' \in [Transaction -> {"none", "reader", "writer", "loaded"}]
    BY DEF Structure, TypeOK
  <2>2. loaded' \in [Transaction -> SUBSET Mutation] BY DEF Structure, TypeOK
  <2> QED BY <2>1, <2>2 DEF Structure, TypeOK
<1>2. \A d \in Transaction : call'[d] # "none" => call[d] # "none" BY DEF Structure, TypeOK
<1>3. CallsOK' BY <1>2 DEF Structure, CallsOK
<1> QED BY <1>1, <1>2, <1>3, BodyKeeps

\* The end of a call keeps the structure.
LEMMA EndCallStructure == ASSUME Structure, NEW t \in Transaction, EndCall(t) PROVE Structure'
<1> USE DEF EndCall, participantVars
<1>1. TypeOK'
  <2>1. call' \in [Transaction -> {"none", "reader", "writer", "loaded"}]
    BY DEF Structure, TypeOK
  <2>2. loaded' \in [Transaction -> SUBSET Mutation] BY DEF Structure, TypeOK
  <2> QED BY <2>1, <2>2 DEF Structure, TypeOK
<1>2. \A d \in Transaction : call'[d] # "none" => call[d] # "none" BY DEF Structure, TypeOK
<1>3. CallsOK' BY <1>2 DEF Structure, CallsOK
<1> QED BY <1>1, <1>2, <1>3, BodyKeeps

\* A writer that stores its effects keeps the structure.
LEMMA StoreStructure == ASSUME Structure, NEW t \in Transaction, Store(t) PROVE Structure'
<1> USE DEF Store
<1>1. made[t] \in 1..MaxCalls
  <2>1. made[t] > 0 BY DEF Structure, CallsOK
  <2> QED BY <2>1, BoundAssumption DEF Structure, TypeOK
<1>2. <<t, made[t]>> \in Mutation BY <1>1 DEF Mutation
<1>3. PICK m \in Mutation : m = <<t, made[t]>> BY <1>2
<1>4. value' = loaded[t] \cup {m} /\ keys' = keys \cup {m} /\ done' = done \cup {m}
  BY <1>3 DEF store
<1>5. loaded[t] \subseteq Mutation BY DEF Structure, TypeOK
<1>6. TypeOK'
  <2>1. call' \in [Transaction -> {"none", "reader", "writer", "loaded"}]
    BY DEF Structure, TypeOK
  <2>2. loaded' \in [Transaction -> SUBSET Mutation] BY DEF Structure, TypeOK
  <2>3. value' \subseteq Mutation /\ keys' \subseteq Mutation /\ done' \subseteq Mutation
    BY <1>4, <1>5 DEF Structure, TypeOK
  <2> QED BY <2>1, <2>2, <2>3 DEF Structure, TypeOK
<1>7. \A d \in Transaction : call'[d] # "none" => call[d] # "none" BY DEF Structure, TypeOK
<1>8. CallsOK' BY <1>7 DEF Structure, CallsOK
<1> QED BY <1>6, <1>7, <1>8, BodyKeeps

\* A mutation through a live reference keeps the structure.
LEMMA MutateStructure == ASSUME Structure, NEW t \in Transaction, Mutate(t) PROVE Structure'
<1> USE DEF Mutate
<1>1. made' \in [Transaction -> 0..MaxCalls] /\ made'[t] = made[t] + 1 /\ made'[t] \in 1..MaxCalls
  BY BoundAssumption DEF Structure, TypeOK
<1>2. \A d \in Transaction : d # t => made'[d] = made[d] BY DEF Structure, TypeOK
<1>3. PICK m : m = <<t, made'[t]>> OBVIOUS
<1>4. m \in Mutation BY <1>1, <1>3 DEF Mutation
<1>5. value' = value \cup {m} /\ done' = done \cup {m} BY <1>3
<1>6. races' \subseteq {"overtaken", "interleaved", "live"} BY DEF Structure, TypeOK, Race
<1>7. TypeOK' BY <1>1, <1>4, <1>5, <1>6 DEF Structure, TypeOK
<1>8. CallsOK'
  <2>1. \A d \in Transaction : made'[d] > 0 => status[d] # "idle"
    BY <1>2 DEF Structure, CallsOK
  <2>2. \A d \in Transaction : call[d] # "none" => made'[d] > 0
    BY <1>2 DEF Structure, CallsOK
  <2> QED BY <2>1, <2>2 DEF Structure, CallsOK
<1> QED BY <1>7, <1>8, BodyKeeps

\* Prepare keeps the structure.
LEMMA PrepareStructure == ASSUME Structure, Prepare PROVE Structure'
<1> USE DEF Prepare, participantVars, bodyVars
<1> HIDE DEF transaction_ids
<1>1. TypeOK' BY DEF Structure, TypeOK
<1>2. TreeOK' /\ Onward BY SameStatus DEF Structure
<1>3. CallsOK' BY DEF Structure, CallsOK
<1>4. MethodsAlone' BY AloneStays DEF Structure
<1>5. Root \in Transaction /\ transaction_ids[Root] = <<Root>>
  BY ChainEquation DEF Transaction
<1>6. Ids(owner_ids) \subseteq {Root}
  <2>1. CASE owner_ids = <<>> BY <2>1, IdsOfChain
  <2>2. ASSUME NEW o \in Transaction, owner_ids = transaction_ids[o]
        PROVE  Ids(owner_ids) \subseteq {Root}
    <3>1. /\ Len(transaction_ids[o]) <= Len(transaction_ids[Root])
          /\ SubSeq(transaction_ids[Root], 1, Len(transaction_ids[o])) = transaction_ids[o]
      BY <1>5, <2>2 DEF is_claimable_by
    <3>2. o \in Anc(Root) BY <1>5, <3>1, ChainPrefix
    <3> QED BY <1>5, <2>2, <3>2, AncRoot, IdsOfChain
  <2> QED BY <2>1, <2>2 DEF Structure, OwnerOK, IsClaim
<1>7. Ids(owner_ids) \cap Nested = {} BY <1>6, RootAssumption
<1> QED BY <1>1, <1>2, <1>3, <1>4, <1>7, StructureStays

\* A transaction started elsewhere keeps the structure.
LEMMA StartStructure == ASSUME Structure, NEW t \in Nested, Start(t) PROVE Structure'
<1> USE DEF Start, participantVars
<1>1. t \in Transaction /\ t # Root BY AncParent
<1>2. StatusType BY DEF Structure, TypeOK, StatusType
<1>3. TreeOK' /\ Onward BY <1>2, TreeStart DEF Structure, CanCall
<1>4. TypeOK'
  <2>1. status' \in [Transaction -> {"idle", "draining", "running", "committed", "aborted"}]
    BY DEF Structure, TypeOK
  <2> QED BY <2>1 DEF Structure, TypeOK
<1>5. status'[t] = "running" /\ \A x \in Transaction : x # t => status'[x] = status[x]
  BY <1>1, <1>2 DEF StatusType
<1>6. CallsOK'
  <2>1. \A d \in Transaction : call[d] # "none" => status'[d] = "running" /\ made[d] > 0
    BY <1>5 DEF Structure, CallsOK
  <2>2. \A d \in Transaction : made[d] > 0 => status'[d] # "idle"
    BY <1>5 DEF Structure, CallsOK
  <2>3. \A r \in sent : r.id # t /\ r.id \in Transaction
    BY DEF Structure, CallsOK, TypeOK, Request, Transaction
  <2>4. \A r \in sent : status'[r.id] = IF r.aborted THEN "aborted" ELSE "committed"
    BY <1>5, <2>3 DEF Structure, CallsOK
  <2> QED BY <2>1, <2>2, <2>4 DEF CallsOK
<1>7. \A x \in Here : status'[x] = status[x] BY <1>5, HereAssumption
<1>8. MethodsAlone' BY <1>7, AloneStays DEF Structure
<1>9. prepared' => status'[Root] = "committed" /\ Ids(owner_ids) \cap Nested = {}
  BY <1>1, <1>5 DEF Structure, OwnerOK, Transaction
<1> QED BY <1>3, <1>4, <1>6, <1>7, <1>8, <1>9, StructureStays

\* A root that has been prepared has nobody running.
LEMMA NotPrepared ==
    ASSUME Structure, NEW t \in Transaction, Busy(status[t]) PROVE ~prepared
BY RootRuns DEF Structure, OwnerOK

\* The types after a claim.
LEMMA ClaimType ==
    ASSUME TypeOK, IsClaim(owner_ids), NEW t \in Transaction, NEW m \in Mode,
           claim_ownership(t, m)
    PROVE  /\ owner_ids' \in Seq(Transaction) /\ snapshots' \in Seq(Snapshot)
           /\ races' \subseteq {"overtaken", "interleaved", "live"}
<1> HIDE DEF transaction_ids
<1>1. owner_ids' \in Seq(Transaction) BY ClaimFacts, ChainType
<1>2. snapshots' \in Seq(Snapshot) BY ClaimFacts DEF Kept, Pushed, TypeOK
<1>3. races' \subseteq {"overtaken", "interleaved", "live"}
  BY DEF claim_ownership, Race, TypeOK
<1> QED BY <1>1, <1>2, <1>3

\* A method of this state that starts keeps the structure.
LEMMA StartHereStructure == ASSUME Structure, NEW t \in Nested, StartHere(t) PROVE Structure'
<1> USE DEF StartHere
<1>1. t \in Transaction /\ t # Root /\ Parent[t] \in Transaction BY AncParent
<1>2. StatusType BY DEF Structure, TypeOK, StatusType
<1>3. TreeOK' /\ Onward BY <1>2, TreeStart DEF Structure, CanCall
<1>4. Joined("transaction") \in Mode /\ IsClaim(owner_ids)
  BY JoinedMode DEF Structure, OwnerOK
<1>5. TypeOK'
  <2>1. status' \in [Transaction -> {"idle", "draining", "running", "committed", "aborted"}]
    BY DEF Structure, TypeOK
  <2>2. /\ owner_ids' \in Seq(Transaction) /\ snapshots' \in Seq(Snapshot)
        /\ races' \subseteq {"overtaken", "interleaved", "live"}
    BY <1>1, <1>4, ClaimType DEF Structure
  <2>3. mode' \in Mode BY <1>4
  <2> QED BY <2>1, <2>2, <2>3 DEF Structure, TypeOK
<1>6. status'[t] = "draining" /\ \A x \in Transaction : x # t => status'[x] = status[x]
  BY <1>1, <1>2 DEF StatusType
<1>7. CallsOK'
  <2>1. \A d \in Transaction : call[d] # "none" => status'[d] = "running" /\ made[d] > 0
    BY <1>6 DEF Structure, CallsOK
  <2>2. \A d \in Transaction : made[d] > 0 => status'[d] # "idle"
    BY <1>6 DEF Structure, CallsOK
  <2>3. \A r \in sent : r.id # t /\ r.id \in Transaction
    BY DEF Structure, CallsOK, TypeOK, Request, Transaction
  <2>4. \A r \in sent : status'[r.id] = IF r.aborted THEN "aborted" ELSE "committed"
    BY <1>6, <2>3 DEF Structure, CallsOK
  <2> QED BY <2>1, <2>2, <2>4 DEF CallsOK
<1>8. MethodsAlone'
  <2>1. \A x \in Nested \cap Here : status'[x] = "running" => status[x] = "running"
    BY <1>6, HereAssumption
  <2> QED BY <2>1, AloneStays DEF Structure
<1>9. ~prepared'
  <2>1. Busy(status[Parent[t]]) BY DEF CanCall, Busy
  <2> QED BY <1>1, <2>1, NotPrepared
<1>10. Busy(status'[t]) /\ \A x \in Here : Busy(status'[x]) => Busy(status[x]) \/ x = t
  BY <1>6, HereAssumption DEF Busy
<1>11. mode' # "none" BY <1>4 DEF Mode
<1>12. OwnerOK' /\ SnapshotsOK'
  BY <1>1, <1>3, <1>4, <1>9, <1>10, <1>11, ClaimKeeps DEF Structure
<1> QED BY <1>3, <1>5, <1>7, <1>8, <1>12 DEF Structure

\* A call keeps the structure.
LEMMA StartCallStructure ==
    ASSUME Structure, NEW t \in Transaction, NEW kind \in {"reader", "writer"}, StartCall(t, kind)
    PROVE  Structure'
<1> USE DEF StartCall
<1>1. status' = status /\ status[t] = "running" BY DEF CanCall
<1>2. TreeOK' /\ Onward BY <1>1, SameStatus DEF Structure
<1>3. Joined(kind) \in Mode /\ IsClaim(owner_ids)
  BY JoinedMode DEF Structure, OwnerOK
<1>4. mode' \in Mode BY <1>3 DEF Mode
<1>5. made' \in [Transaction -> 0..MaxCalls] /\ made'[t] = made[t] + 1 /\ made'[t] \in 1..MaxCalls
  BY BoundAssumption DEF Structure, TypeOK
<1>6. \A d \in Transaction : d # t => made'[d] = made[d] /\ call'[d] = call[d]
  BY DEF Structure, TypeOK
<1>7. TypeOK'
  <2>1. call' \in [Transaction -> {"none", "reader", "writer", "loaded"}]
    BY DEF Structure, TypeOK
  <2>2. /\ owner_ids' \in Seq(Transaction) /\ snapshots' \in Seq(Snapshot)
        /\ races' \subseteq {"overtaken", "interleaved", "live"}
    BY <1>3, ClaimType DEF Structure
  <2> QED BY <1>1, <1>4, <1>5, <2>1, <2>2 DEF Structure, TypeOK
<1>8. CallsOK'
  <2>1. \A d \in Transaction : call'[d] # "none" => status[d] = "running" /\ made'[d] > 0
    BY <1>1, <1>5, <1>6 DEF Structure, CallsOK
  <2>2. \A d \in Transaction : made'[d] > 0 => status[d] # "idle"
    BY <1>1, <1>6 DEF Structure, CallsOK
  <2> QED BY <1>1, <2>1, <2>2 DEF Structure, CallsOK
<1>9. ~prepared' BY <1>1, NotPrepared DEF Busy
<1>10. Busy(status'[t]) BY <1>1 DEF Busy
<1>11. mode' # "none" BY <1>4 DEF Mode
<1>12. OwnerOK' /\ SnapshotsOK'
  BY <1>1, <1>2, <1>3, <1>9, <1>10, <1>11, ClaimKeeps DEF Structure
<1>13. MethodsAlone'
  <2> SUFFICES ASSUME NEW x \in Nested \cap Here, status[x] = "running",
                      NEW d \in Transaction, call'[d] # "none"
               PROVE  IsWithin(d, x)
    BY <1>1 DEF MethodsAlone
  <2>1. CASE d # t BY <1>6, <2>1 DEF Structure, MethodsAlone
  <2>2. CASE d = t
    <3>1. x \in Ids(owner_ids) BY DEF Structure, OwnerOK, Busy
    <3>2. x \in Anc(t) BY <1>3, <3>1, ClaimFacts DEF Structure
    <3> QED BY <2>2, <3>2, WithinAnc
  <2> QED BY <2>1, <2>2
<1> QED BY <1>2, <1>7, <1>8, <1>12, <1>13 DEF Structure

\* A method of this state that has drained the calls in flight keeps the
\* structure.
LEMMA DrainedStructure == ASSUME Structure, NEW t \in Nested, Drained(t) PROVE Structure'
<1> USE DEF Drained, participantVars
<1>1. t \in Transaction /\ t # Root BY AncParent
<1>2. StatusType BY DEF Structure, TypeOK, StatusType
<1>3. TreeOK' /\ Onward BY <1>2, TreeDrained DEF Structure
<1>4. TypeOK'
  <2>1. status' \in [Transaction -> {"idle", "draining", "running", "committed", "aborted"}]
    BY DEF Structure, TypeOK
  <2>2. loaded' \in [Transaction -> SUBSET Mutation] BY DEF Structure, TypeOK
  <2> QED BY <2>1, <2>2 DEF Structure, TypeOK
<1>5. status'[t] = "running" /\ \A x \in Transaction : x # t => status'[x] = status[x]
  BY <1>1, <1>2 DEF StatusType
<1>6. CallsOK'
  <2>2. \A d \in Transaction : made[d] > 0 => status'[d] # "idle"
    BY <1>5 DEF Structure, CallsOK
  <2>3. \A r \in sent : r.id # t /\ r.id \in Transaction
    BY DEF Structure, CallsOK, TypeOK, Request, Transaction
  <2>4. \A r \in sent : status'[r.id] = IF r.aborted THEN "aborted" ELSE "committed"
    BY <1>5, <2>3 DEF Structure, CallsOK
  <2> QED BY <2>2, <2>4 DEF CallsOK
<1>7. \A x \in Here : Busy(status'[x]) => Busy(status[x]) BY <1>5, HereAssumption DEF Busy
<1>8. MethodsAlone' BY DEF MethodsAlone
<1>9. prepared' => status'[Root] = "committed" /\ Ids(owner_ids) \cap Nested = {}
  BY <1>1, <1>5 DEF Structure, OwnerOK, Transaction
<1> QED BY <1>3, <1>4, <1>6, <1>7, <1>8, <1>9, StructureStays

\* What the end of a transaction does.
LEMMA EndFacts ==
    ASSUME Structure, NEW t \in Transaction, NEW aborted \in BOOLEAN, End(t, aborted),
           t = Root => ~aborted, UNCHANGED <<call, made>>
    PROVE  /\ TreeOK' /\ Onward /\ MethodsAlone'
           /\ status' \in [Transaction -> {"idle", "draining", "running", "committed", "aborted"}]
           /\ status[t] = "running" /\ call[t] = "none"
           /\ status'[t] = IF aborted THEN "aborted" ELSE "committed"
           /\ \A x \in Transaction : x # t => status'[x] = status[x]
           /\ \A d \in Transaction : call[d] # "none" => status'[d] = "running" /\ made[d] > 0
           /\ \A d \in Transaction : made[d] > 0 => status'[d] # "idle"
           /\ \A r \in sent : status'[r.id] = IF r.aborted THEN "aborted" ELSE "committed"
           /\ \A x \in Transaction : Busy(status'[x]) => Busy(status[x]) /\ x # t
<1>1. PICK s \in {"committed", "aborted"} : s = IF aborted THEN "aborted" ELSE "committed"
  OBVIOUS
<1>2. /\ status' = [status EXCEPT ![t] = s] /\ status[t] = "running" /\ call[t] = "none"
      /\ NoChildActive(t)
  BY <1>1 DEF End
<1>3. StatusType BY DEF Structure, TypeOK, StatusType
<1>4. t = Root => s = "committed" BY <1>1
<1>5. TreeOK' /\ Onward BY <1>2, <1>3, <1>4, TreeEnd DEF Structure
<1>6. status'[t] = s /\ \A x \in Transaction : x # t => status'[x] = status[x]
  BY <1>2, <1>3 DEF StatusType
<1>7. status' \in [Transaction -> {"idle", "draining", "running", "committed", "aborted"}]
  BY <1>2, <1>3 DEF StatusType
<1>8. MethodsAlone'
  <2>1. \A x \in Nested \cap Here : status'[x] = "running" => status[x] = "running"
    BY <1>2, <1>6, HereAssumption
  <2> QED BY <2>1, AloneStays DEF Structure
<1>9. \A d \in Transaction : call[d] # "none" => status'[d] = "running" /\ made[d] > 0
  BY <1>2, <1>6 DEF Structure, CallsOK
<1>10. \A d \in Transaction : made[d] > 0 => status'[d] # "idle"
  BY <1>6 DEF Structure, CallsOK
<1>11. \A r \in sent : status'[r.id] = IF r.aborted THEN "aborted" ELSE "committed"
  <2>1. \A r \in sent : r.id # t /\ r.id \in Transaction
    BY <1>2 DEF Structure, CallsOK, TypeOK, Request, Transaction
  <2> QED BY <1>6, <2>1 DEF Structure, CallsOK
<1>12. \A x \in Transaction : Busy(status'[x]) => Busy(status[x]) /\ x # t
  BY <1>6 DEF Busy
<1> QED BY <1>1, <1>2, <1>5, <1>6, <1>7, <1>8, <1>9, <1>10, <1>11, <1>12

\* The end of a transaction elsewhere, which sends its request, keeps the
\* structure.
LEMMA EndElsewhereStructure ==
    ASSUME Structure, NEW t \in Nested, NEW aborted \in BOOLEAN, EndElsewhere(t, aborted)
    PROVE  Structure'
<1> USE DEF EndElsewhere, participantVars
<1>1. t \in Transaction /\ t # Root BY AncParent
<1>2. PICK r : r = [id |-> t, aborted |-> aborted] OBVIOUS
<1>3. r \in Request /\ r.id = t /\ r.aborted = aborted BY <1>2 DEF Request
<1>4. sent' \subseteq sent \cup {r} BY <1>2
<1>5. TypeOK'
  <2>1. sent' \subseteq Request BY <1>3, <1>4 DEF Structure, TypeOK
  <2>2. status' \in [Transaction -> {"idle", "draining", "running", "committed", "aborted"}]
    BY <1>1, EndFacts
  <2> QED BY <2>1, <2>2 DEF Structure, TypeOK
<1>6. CallsOK'
  <2>1. status'[r.id] = IF r.aborted THEN "aborted" ELSE "committed"
    BY <1>1, <1>3, EndFacts
  <2>2. \A q \in sent' : status'[q.id] = IF q.aborted THEN "aborted" ELSE "committed"
    BY <1>1, <1>4, <2>1, EndFacts
  <2>3. /\ \A d \in Transaction : call[d] # "none" => status'[d] = "running" /\ made[d] > 0
        /\ \A d \in Transaction : made[d] > 0 => status'[d] # "idle"
    BY <1>1, EndFacts
  <2> QED BY <2>2, <2>3 DEF CallsOK
<1>7. TreeOK' /\ Onward /\ MethodsAlone' BY <1>1, EndFacts
<1>8. \A x \in Here : Busy(status'[x]) => Busy(status[x]) BY <1>1, EndFacts, HereAssumption
<1>9. prepared' => status'[Root] = "committed" /\ Ids(owner_ids) \cap Nested = {}
  <2>1. Root \in Transaction /\ status'[Root] = status[Root] BY <1>1, EndFacts DEF Transaction
  <2> QED BY <2>1 DEF Structure, OwnerOK
<1> QED BY <1>5, <1>6, <1>7, <1>8, <1>9, StructureStays

\* The types after a relinquishment.
LEMMA RelinquishType ==
    ASSUME Structure, NEW t \in Nested, NEW aborted \in BOOLEAN, NEW m \in Mode \cup {"none"},
           relinquish_ownership(t, aborted, m)
    PROVE  /\ owner_ids' \in Seq(Transaction) /\ snapshots' \in Seq(Snapshot)
           /\ mode' \in Mode \cup {"none"} /\ value' \subseteq Mutation /\ keys' \subseteq Mutation
           /\ races' \subseteq {"overtaken", "interleaved", "live"}
<1> HIDE DEF transaction_ids
<1>1. races' \subseteq {"overtaken", "interleaved", "live"}
  BY DEF relinquish_ownership, Race, Structure, TypeOK
<1>2. CASE Ignored(t, m) BY <1>1, <1>2 DEF Ignored, Structure, TypeOK
<1>3. ASSUME NEW i \in DOMAIN snapshots, ~aborted, Returned(t, i, m)
      PROVE  /\ owner_ids' \in Seq(Transaction) /\ snapshots' \in Seq(Snapshot)
             /\ mode' \in Mode \cup {"none"} /\ value' \subseteq Mutation /\ keys' \subseteq Mutation
  <2>1. owner_ids' \in Seq(Transaction) BY <1>3, AncParent, ChainType DEF Returned
  <2>2. snapshots' \in Seq(Snapshot) BY <1>3 DEF Returned, FirstLeft, Structure, TypeOK
  <2> QED BY <1>3, <2>1, <2>2 DEF Returned, Structure, TypeOK
<1>4. ASSUME NEW i \in DOMAIN snapshots, RolledBack(i)
      PROVE  /\ owner_ids' \in Seq(Transaction) /\ snapshots' \in Seq(Snapshot)
             /\ mode' \in Mode \cup {"none"} /\ value' \subseteq Mutation /\ keys' \subseteq Mutation
  <2>1. PICK s \in Snapshot : s = snapshots[i] BY SnapshotsType DEF Structure, TypeOK
  <2>2. s.owner_ids \in Seq(Transaction) /\ s.mode \in Mode /\ s.value \subseteq Mutation
    BY DEF Snapshot
  <2> QED BY <1>4, <2>1, <2>2 DEF RolledBack, FirstLeft, Structure, TypeOK
<1> QED BY <1>1, <1>2, <1>3, <1>4, RelinquishFacts DEF Structure

\* The mode that a method leaves is one.
LEMMA CompletedMode ==
    ASSUME Structure, NEW t \in Transaction PROVE Completed(t) \in Mode \cup {"none"}
BY DEF Completed, Structure, TypeOK, Mode

\* The end of a method of this state keeps the structure.
LEMMA EndHereStructure ==
    ASSUME Structure, NEW t \in Nested, NEW aborted \in BOOLEAN, EndHere(t, aborted)
    PROVE  Structure'
<1> USE DEF EndHere
<1>1. t \in Transaction /\ t # Root BY AncParent
<1>2. PICK m \in Mode \cup {"none"} : m = Completed(t) BY <1>1, CompletedMode
<1>3. relinquish_ownership(t, aborted, m) BY <1>2
<1>4. /\ TreeOK' /\ Onward /\ MethodsAlone'
      /\ status' \in [Transaction -> {"idle", "draining", "running", "committed", "aborted"}]
      /\ status[t] = "running"
      /\ \A x \in Transaction : x # t => status'[x] = status[x]
      /\ \A x \in Transaction : Busy(status'[x]) => Busy(status[x]) /\ x # t
  BY <1>1, EndFacts
<1>5. TypeOK'
  <2>1. loaded' \in [Transaction -> SUBSET Mutation] BY DEF Structure, TypeOK
  <2>2. /\ owner_ids' \in Seq(Transaction) /\ snapshots' \in Seq(Snapshot)
        /\ mode' \in Mode \cup {"none"} /\ value' \subseteq Mutation /\ keys' \subseteq Mutation
        /\ races' \subseteq {"overtaken", "interleaved", "live"}
    BY <1>3, RelinquishType
  <2> QED BY <1>4, <2>1, <2>2 DEF Structure, TypeOK
<1>6. CallsOK'
  <2>1. /\ \A d \in Transaction : call[d] # "none" => status'[d] = "running" /\ made[d] > 0
        /\ \A d \in Transaction : made[d] > 0 => status'[d] # "idle"
        /\ \A r \in sent : status'[r.id] = IF r.aborted THEN "aborted" ELSE "committed"
    BY <1>1, EndFacts
  <2> QED BY <2>1 DEF CallsOK
<1>7. t \in Ids(owner_ids) BY <1>4 DEF Structure, OwnerOK, Busy
<1>8. m # "none"
  <2>1. mode # "none" BY <1>7, IdsOfChain DEF Structure, OwnerOK
  <2> QED BY <1>2, <2>1 DEF Completed
<1>9. status'[Root] = status[Root] BY <1>1, <1>4 DEF Transaction
<1>10. OwnerOK' /\ SnapshotsOK'
  BY <1>1, <1>3, <1>4, <1>7, <1>8, <1>9, RelinquishKeeps DEF Structure
<1> QED BY <1>4, <1>5, <1>6, <1>10 DEF Structure

\* A request that arrives late, or again, keeps the structure.
LEMMA RelinquishOwnershipStructure ==
    ASSUME Structure, NEW r \in Request, RelinquishOwnership(r) PROVE Structure'
<1> USE DEF RelinquishOwnership, bodyVars
<1>1. r.id \in Nested /\ r.aborted \in BOOLEAN BY DEF Request
<1>2. PICK t \in Nested : t = r.id BY <1>1
<1>3. PICK aborted \in BOOLEAN : aborted = r.aborted BY <1>1
<1>4. PICK m \in Mode \cup {"none"} : m = mode BY DEF Structure, TypeOK
<1>5. relinquish_ownership(t, aborted, m) BY <1>2, <1>3, <1>4
<1>6. TreeOK' /\ Onward BY SameStatus DEF Structure
<1>7. TypeOK'
  <2>1. /\ owner_ids' \in Seq(Transaction) /\ snapshots' \in Seq(Snapshot)
        /\ mode' \in Mode \cup {"none"} /\ value' \subseteq Mutation /\ keys' \subseteq Mutation
        /\ races' \subseteq {"overtaken", "interleaved", "live"}
    BY <1>5, RelinquishType
  <2> QED BY <2>1 DEF Structure, TypeOK
<1>8. CallsOK' BY DEF Structure, CallsOK
<1>9. MethodsAlone' BY AloneStays DEF Structure
<1>10. ~Busy(status'[t])
  <2>1. status[r.id] = IF r.aborted THEN "aborted" ELSE "committed"
    BY DEF Structure, CallsOK
  <2> QED BY <1>2, <2>1 DEF Busy
<1>11. OwnerOK' /\ SnapshotsOK'
  BY <1>4, <1>5, <1>6, <1>10, RelinquishKeeps DEF Structure
<1> QED BY <1>6, <1>7, <1>8, <1>9, <1>11 DEF Structure

\* The end of the root keeps the structure.
LEMMA EndRootStructure == ASSUME Structure, EndRoot PROVE Structure'
<1> USE DEF EndRoot
<1>1. Root \in Transaction BY DEF Transaction
<1>2. TypeOK'
  <2>1. status' \in [Transaction -> {"idle", "draining", "running", "committed", "aborted"}]
    BY <1>1, EndFacts
  <2>2. mode' \in Mode \cup {"none"} BY <1>1, CompletedMode DEF Structure, TypeOK
  <2>3. races' \subseteq {"overtaken", "interleaved", "live"} BY DEF Race, Structure, TypeOK
  <2> QED BY <2>1, <2>2, <2>3 DEF Structure, TypeOK
<1>3. CallsOK'
  <2>1. /\ \A d \in Transaction : call[d] # "none" => status'[d] = "running" /\ made[d] > 0
        /\ \A d \in Transaction : made[d] > 0 => status'[d] # "idle"
        /\ \A r \in sent : status'[r.id] = IF r.aborted THEN "aborted" ELSE "committed"
    BY <1>1, EndFacts
  <2> QED BY <2>1 DEF CallsOK
<1>4. TreeOK' /\ Onward /\ MethodsAlone' /\ status[Root] = "running" BY <1>1, EndFacts
<1>5. \A x \in Here : Busy(status'[x]) => Busy(status[x]) BY <1>1, EndFacts, HereAssumption
<1>6. ~prepared' BY <1>4 DEF Structure, OwnerOK
<1>7. mode' = mode \/ (owner_ids # <<>> /\ mode' # "none")
  <2>1. CASE Root \notin Here BY <2>1
  <2>2. CASE Root \in Here
    <3>1. Root \in Ids(owner_ids) BY <1>4, <2>2 DEF Structure, OwnerOK, Busy
    <3>2. owner_ids # <<>> BY <3>1, IdsOfChain
    <3> QED BY <2>2, <3>2 DEF Completed, Structure, OwnerOK
  <2> QED BY <2>1, <2>2
<1> QED BY <1>2, <1>3, <1>4, <1>5, <1>6, <1>7, StructureStays

\* The structure holds initially.
LEMMA InitStructure == Init => Structure
<1> SUFFICES ASSUME Init PROVE Structure OBVIOUS
<1> HIDE DEF transaction_ids
<1> USE DEF Init
<1>1. Root \in Transaction /\ \A t \in Nested : t \in Transaction /\ t # Root
  BY RootAssumption DEF Transaction
<1>2. transaction_ids[Root] = <<Root>> BY <1>1, ChainEquation
<1>3. \A x \in Transaction : status[x] = IF x = Root THEN "running" ELSE "idle" OBVIOUS
<1>4. DOMAIN snapshots = {} BY EmptySeq, SnapshotsType
<1>5. TypeOK
  <2>1. owner_ids \in Seq(Transaction) BY <1>1, <1>2, ChainType, EmptySeq
  <2>2. snapshots \in Seq(Snapshot) BY EmptySeq
  <2>3. status \in [Transaction -> {"idle", "draining", "running", "committed", "aborted"}]
    OBVIOUS
  <2>4. MaxCalls \in Nat BY BoundAssumption
  <2>5. made \in [Transaction -> 0..MaxCalls] BY <2>4
  <2>6. mode \in Mode \cup {"none"} BY DEF Mode
  <2>7. call \in [Transaction -> {"none", "reader", "writer", "loaded"}] OBVIOUS
  <2>8. loaded \in [Transaction -> SUBSET Mutation] OBVIOUS
  <2> QED BY <2>1, <2>2, <2>3, <2>5, <2>6, <2>7, <2>8 DEF TypeOK
<1>6. TreeOK
  <2>1. \A d \in Transaction : Anc(d) \subseteq Transaction BY AncType
  <2>2. \A x \in Anc(Root) : x = Root BY AncRoot
  <2> QED BY <1>1, <1>3, <2>1, <2>2 DEF TreeOK, Busy
<1>7. CallsOK
  <2>1. \A d \in Transaction : call[d] = "none" /\ made[d] = 0 OBVIOUS
  <2> QED BY <2>1 DEF CallsOK
<1>8. Ids(owner_ids) = IF Root \in Here THEN {Root} ELSE {}
  BY <1>1, <1>2, IdsOfChain, AncRoot
<1>9. OwnerOK
  <2>1. IsClaim(owner_ids) BY <1>1, <1>2, <1>3 DEF IsClaim
  <2>2. \A x \in Nested : x \notin Ids(owner_ids) BY <1>1, <1>8
  <2>3. \A x \in Here : Busy(status[x]) => x \in Ids(owner_ids)
    BY <1>3, <1>8, HereAssumption DEF Busy
  <2>4. (owner_ids = <<>> => mode # "exclusive") /\ (mode = "none" => owner_ids = <<>>)
    OBVIOUS
  <2> QED BY <1>4, <2>1, <2>2, <2>3, <2>4 DEF OwnerOK
<1>10. SnapshotsOK BY <1>4 DEF SnapshotsOK
<1>11. MethodsAlone BY DEF MethodsAlone
<1> QED BY <1>5, <1>6, <1>7, <1>9, <1>10, <1>11 DEF Structure

\* Every step keeps the structure, after a race too.
LEMMA NextStructure == Structure /\ [Next]_vars => Structure'
<1> SUFFICES ASSUME Structure, [Next]_vars PROVE Structure' OBVIOUS
<1>1. ASSUME NEW t \in Transaction, Body(t) PROVE Structure'
  BY <1>1, StartCallStructure, LoadStructure, StoreStructure, EndCallStructure, MutateStructure
  DEF Body
<1>2. ASSUME NEW t \in Nested, NestedBody(t) PROVE Structure'
  BY <1>2, StartStructure, StartHereStructure, DrainedStructure, EndElsewhereStructure,
     EndHereStructure
  DEF NestedBody
<1>3. CASE UNCHANGED vars
  <2>1. TypeOK' BY <1>3 DEF vars, participantVars, bodyVars, Structure, TypeOK
  <2>2. CallsOK' BY <1>3 DEF vars, participantVars, bodyVars, Structure, CallsOK
  <2> QED BY <1>3, <2>1, <2>2, BodyKeeps DEF vars, participantVars, bodyVars
<1> QED BY <1>1, <1>2, <1>3, EndRootStructure, PrepareStructure, RelinquishOwnershipStructure
  DEF Next

-----------------------------------------------------------------------------
(* The invariant: what the state and the snapshots contain.                *)

\* Whether the effects of d are there if `own` owns the state and those within
\* `hidden` have been undone: every aborted one d is in is still owner.
Visible(st, own, hidden, d) ==
    /\ \A x \in Anc(d) : st[x] = "aborted" => x \in own
    /\ \A x \in hidden : x \notin Anc(d)

\* What a state has to be, if `own` owns it: it has the visible mutations; a
\* transaction under way that has used it is its owner; a method loaded no
\* more than there is; the lock is held exclusive for effects that no method
\* under way will upgrade it for, and not without a call that counts.
Consistent(st, mk, dn, ld, own, hidden, val, md) ==
    /\ val \subseteq dn
    /\ \A m \in dn : m \in val <=> Visible(st, own, hidden, m[1])
    /\ \A d \in Transaction : mk[d] > 0 /\ Visible(st, own, hidden, d) =>
          \A x \in Anc(d) : Busy(st[x]) => x \in own
    /\ \A x \in Here \cap own : st[x] = "running" => ld[x] \subseteq val
    /\ md # "exclusive" => \A m \in val : \E x \in Here \cap Anc(m[1]) :
          st[x] = "running" /\ m \notin ld[x]
    /\ md = "exclusive" => \E d \in Transaction : mk[d] > 0 /\ Visible(st, own, hidden, d)

\* The calls of writers left keys, and nobody else did.
KeysMatch(val, ks) == ks \subseteq val /\ \A m \in val : m[1] \notin Here => m \in ks

\* Where the rollback of x, an owner, goes.
RollsTo(x, i) == x \in Nested \cap Ids(owner_ids) /\ IsOldest(i, x)

\* Calls in flight are the owner's: no snapshot was taken meanwhile.
InFlightOK ==
    /\ \A d \in Transaction : call[d] # "none" => owner_ids = transaction_ids[d]
    /\ \A d \in Transaction : call[d] = "loaded" => loaded[d] = value
    /\ \A d \in Transaction : call[d] \in {"writer", "loaded"} => mode = "exclusive"

KeysOK ==
    /\ KeysMatch(value, keys)
    /\ \A i \in DOMAIN snapshots : KeysMatch(snapshots[i].value, snapshots[i].keys)

Numbered == \A m \in done : m[2] <= made[m[1]]

Now == Consistent(status, made, done, loaded, Ids(owner_ids), {}, value, mode)

Later ==
    \A x \in Nested, i \in DOMAIN snapshots : RollsTo(x, i) =>
        Consistent(status, made, done, loaded, Before(i), {x}, snapshots[i].value,
                   snapshots[i].mode)

Data == InFlightOK /\ KeysOK /\ Numbered /\ Now /\ Later

OwnershipInv == Structure /\ (races = {} => Data)

-----------------------------------------------------------------------------
(* What keeps a state consistent with its owner.                           *)

\* Mutations were made by calls.
DoneBy(dn, mk) == \A m \in dn : m[1] \in Transaction /\ mk[m[1]] > 0

\* Only t's entry differs.
Off(t, f, g) == \A x \in Transaction : x # t => f[x] = g[x]

\* What is visible depends on who aborted.
LEMMA SameVisible ==
    ASSUME NEW st, NEW st2, NEW own, NEW hidden, NEW d \in Transaction,
           \A x \in Transaction : st2[x] = "aborted" <=> st[x] = "aborted"
    PROVE  Visible(st2, own, hidden, d) <=> Visible(st, own, hidden, d)
BY AncType DEF Visible

\* A transaction starts that nobody within has used the state in.
LEMMA ConsistentStart ==
    ASSUME NEW st, NEW st2, NEW mk, NEW dn, NEW ld, NEW own, NEW hidden, NEW val, NEW md,
           NEW t \in Transaction,
           Consistent(st, mk, dn, ld, own, hidden, val, md), DoneBy(dn, mk), Off(t, st2, st),
           st[t] = "idle", Busy(st2[t]), st2[t] = "running" => t \notin Here,
           \A d \in Transaction : t \in Anc(d) => ~(mk[d] > 0)
    PROVE  Consistent(st2, mk, dn, ld, own, hidden, val, md)
<1>1. \A d \in Transaction : Visible(st2, own, hidden, d) <=> Visible(st, own, hidden, d)
  BY SameVisible DEF Off, Busy
<1>2. \A d \in Transaction : Anc(d) \subseteq Transaction BY AncType
<1>3. \A m \in dn : m \in val <=> Visible(st2, own, hidden, m[1])
  BY <1>1 DEF Consistent, DoneBy
<1>4. ASSUME NEW d \in Transaction, mk[d] > 0, Visible(st2, own, hidden, d),
             NEW x \in Anc(d), Busy(st2[x])
      PROVE  x \in own
  <2>1. x # t BY <1>4
  <2>2. Busy(st[x]) BY <1>2, <1>4, <2>1 DEF Off
  <2> QED BY <1>1, <1>4, <2>2 DEF Consistent
<1>5. \A x \in Here \cap own : st2[x] = "running" => ld[x] \subseteq val
  BY HereAssumption DEF Consistent, Off
<1>6. ASSUME md # "exclusive", NEW m \in val
      PROVE  \E x \in Here \cap Anc(m[1]) : st2[x] = "running" /\ m \notin ld[x]
  <2>1. PICK x \in Here \cap Anc(m[1]) : st[x] = "running" /\ m \notin ld[x]
    BY <1>6 DEF Consistent
  <2> QED BY <2>1, HereAssumption DEF Off
<1>7. md = "exclusive" => \E d \in Transaction : mk[d] > 0 /\ Visible(st2, own, hidden, d)
  BY <1>1 DEF Consistent
<1>8. val \subseteq dn BY DEF Consistent
<1> QED BY <1>3, <1>4, <1>5, <1>6, <1>7, <1>8 DEF Consistent

\* What t works on is replaced by nothing, or by part of what is there.
LEMMA ConsistentLoad ==
    ASSUME NEW st, NEW mk, NEW dn, NEW ld, NEW ld2, NEW own, NEW hidden, NEW val, NEW md,
           NEW t \in Transaction,
           Consistent(st, mk, dn, ld, own, hidden, val, md), Off(t, ld2, ld),
           st[t] = "running" =>
              /\ t \in Here \cap own => ld2[t] \subseteq val
              /\ md = "exclusive" \/ ld2[t] \subseteq ld[t] \/ \A m \in val : t \notin Anc(m[1])
    PROVE  Consistent(st, mk, dn, ld2, own, hidden, val, md)
<1>1. \A x \in Here \cap own : st[x] = "running" => ld2[x] \subseteq val
  BY HereAssumption DEF Consistent, Off
<1>2. ASSUME md # "exclusive", NEW m \in val
      PROVE  \E x \in Here \cap Anc(m[1]) : st[x] = "running" /\ m \notin ld2[x]
  <2>1. PICK x \in Here \cap Anc(m[1]) : st[x] = "running" /\ m \notin ld[x]
    BY <1>2 DEF Consistent
  <2>2. m \notin ld2[x] BY <1>2, <2>1, HereAssumption DEF Off
  <2> QED BY <2>1, <2>2
<1> QED BY <1>1, <1>2 DEF Consistent

\* A method of this state has drained the calls and loaded it.
LEMMA ConsistentDrain ==
    ASSUME NEW st, NEW st2, NEW mk, NEW dn, NEW ld, NEW own, NEW hidden, NEW val, NEW md,
           NEW t \in Transaction,
           Consistent(st, mk, dn, ld, own, hidden, val, md), DoneBy(dn, mk), Off(t, st2, st),
           st[t] = "draining", st2[t] = "running", t \in Here \cap own => ld[t] \subseteq val
    PROVE  Consistent(st2, mk, dn, ld, own, hidden, val, md)
<1>1. \A d \in Transaction : Visible(st2, own, hidden, d) <=> Visible(st, own, hidden, d)
  BY SameVisible DEF Off
<1>2. \A d \in Transaction : Anc(d) \subseteq Transaction BY AncType
<1>3. \A m \in dn : m \in val <=> Visible(st2, own, hidden, m[1])
  BY <1>1 DEF Consistent, DoneBy
<1>4. \A x \in Transaction : Busy(st2[x]) => Busy(st[x]) BY DEF Off, Busy
<1>5. \A d \in Transaction : mk[d] > 0 /\ Visible(st2, own, hidden, d) =>
          \A x \in Anc(d) : Busy(st2[x]) => x \in own
  BY <1>1, <1>2, <1>4 DEF Consistent
<1>6. \A x \in Here \cap own : st2[x] = "running" => ld[x] \subseteq val
  BY HereAssumption DEF Consistent, Off
<1>7. ASSUME md # "exclusive", NEW m \in val
      PROVE  \E x \in Here \cap Anc(m[1]) : st2[x] = "running" /\ m \notin ld[x]
  <2>1. PICK x \in Here \cap Anc(m[1]) : st[x] = "running" /\ m \notin ld[x]
    BY <1>7 DEF Consistent
  <2> QED BY <2>1, HereAssumption DEF Off
<1>8. md = "exclusive" => \E d \in Transaction : mk[d] > 0 /\ Visible(st2, own, hidden, d)
  BY <1>1 DEF Consistent
<1>9. val \subseteq dn BY DEF Consistent
<1> QED BY <1>3, <1>5, <1>6, <1>7, <1>8, <1>9 DEF Consistent

\* A transaction ends.  If it aborts and has used the state then it is owner,
\* so what is visible stays.
LEMMA ConsistentEnd ==
    ASSUME NEW st, NEW st2, NEW mk, NEW dn, NEW ld, NEW ld2, NEW own, NEW hidden, NEW val,
           NEW md, NEW md2, NEW t \in Transaction,
           Consistent(st, mk, dn, ld, own, hidden, val, md), DoneBy(dn, mk),
           Off(t, st2, st), Off(t, ld2, ld),
           st[t] = "running" \/ st[t] = st2[t], st2[t] \in {"committed", "aborted"},
           md2 # "exclusive" => /\ md # "exclusive"
                                /\ st[t] = "running" /\ t \in Here =>
                                     \A m \in val : t \in Anc(m[1]) => m \in ld[t],
           md2 = "exclusive" => md = "exclusive" \/ val # {}
    PROVE  Consistent(st2, mk, dn, ld2, own, hidden, val, md2)
<1>1. \A d \in Transaction : Anc(d) \subseteq Transaction BY AncType
<1>2. ASSUME NEW d \in Transaction, mk[d] > 0
      PROVE  Visible(st2, own, hidden, d) <=> Visible(st, own, hidden, d)
  <2>1. CASE Visible(st2, own, hidden, d)
    BY <1>1, <2>1 DEF Visible, Off
  <2>2. CASE Visible(st, own, hidden, d)
    <3>1. t \in Anc(d) /\ st2[t] = "aborted" => t \in own
      BY <1>2, <2>2 DEF Consistent, Visible, Busy
    <3> QED BY <1>1, <2>2, <3>1 DEF Visible, Off
  <2> QED BY <2>1, <2>2
<1>3. \A m \in dn : m \in val <=> Visible(st2, own, hidden, m[1])
  BY <1>2 DEF Consistent, DoneBy
<1>4. \A x \in Transaction : Busy(st2[x]) => Busy(st[x]) BY DEF Off, Busy
<1>5. \A d \in Transaction : mk[d] > 0 /\ Visible(st2, own, hidden, d) =>
          \A x \in Anc(d) : Busy(st2[x]) => x \in own
  BY <1>1, <1>2, <1>4 DEF Consistent
<1>6. \A x \in Here \cap own : st2[x] = "running" => ld2[x] \subseteq val
  BY HereAssumption DEF Consistent, Off
<1>7. ASSUME md2 # "exclusive", NEW m \in val
      PROVE  \E x \in Here \cap Anc(m[1]) : st2[x] = "running" /\ m \notin ld2[x]
  <2>1. PICK x \in Here \cap Anc(m[1]) : st[x] = "running" /\ m \notin ld[x]
    BY <1>7 DEF Consistent
  <2>2. x # t BY <1>7, <2>1
  <2> QED BY <2>1, <2>2, HereAssumption DEF Off
<1>8. val \subseteq dn BY DEF Consistent
<1>9. md2 = "exclusive" => \E d \in Transaction : mk[d] > 0 /\ Visible(st2, own, hidden, d)
  <2>1. CASE md = "exclusive" BY <1>2, <2>1 DEF Consistent
  <2>2. ASSUME NEW m \in val
        PROVE  \E d \in Transaction : mk[d] > 0 /\ Visible(st2, own, hidden, d)
    BY <1>3, <1>8 DEF DoneBy
  <2> QED BY <2>1, <2>2
<1> QED BY <1>3, <1>5, <1>6, <1>7, <1>8, <1>9 DEF Consistent

\* The owner changes to one above it, with everybody who is under way: nothing
\* was hidden by the owner, nor is now.
LEMMA ConsistentNarrow ==
    ASSUME NEW st, NEW mk, NEW dn, NEW ld, NEW own, NEW own2, NEW hidden, NEW val, NEW md,
           Consistent(st, mk, dn, ld, own, hidden, val, md), DoneBy(dn, mk),
           own2 \subseteq own, \A x \in own : st[x] # "aborted",
           \A x \in own : Busy(st[x]) => x \in own2
    PROVE  Consistent(st, mk, dn, ld, own2, hidden, val, md)
<1>1. \A d : Visible(st, own2, hidden, d) <=> Visible(st, own, hidden, d) BY DEF Visible
<1> QED BY <1>1 DEF Consistent

\* A rollback: who aborted is not an owner any more.
LEMMA ConsistentRollback ==
    ASSUME NEW st, NEW st2, NEW mk, NEW dn, NEW ld, NEW ld2, NEW own, NEW val, NEW md,
           NEW t \in Transaction,
           Consistent(st, mk, dn, ld, own, {t}, val, md), DoneBy(dn, mk),
           Off(t, st2, st), Off(t, ld2, ld), st2[t] = "aborted", t \notin own
    PROVE  Consistent(st2, mk, dn, ld2, own, {}, val, md)
<1>1. \A d \in Transaction : Anc(d) \subseteq Transaction BY AncType
<1>2. \A d \in Transaction : Visible(st2, own, {}, d) <=> Visible(st, own, {t}, d)
  BY <1>1 DEF Visible, Off
<1>3. \A m \in dn : m \in val <=> Visible(st2, own, {}, m[1])
  BY <1>2 DEF Consistent, DoneBy
<1>4. \A x \in Transaction : Busy(st2[x]) => Busy(st[x]) BY DEF Off, Busy
<1>5. \A d \in Transaction : mk[d] > 0 /\ Visible(st2, own, {}, d) =>
          \A x \in Anc(d) : Busy(st2[x]) => x \in own
  BY <1>1, <1>2, <1>4 DEF Consistent
<1>6. \A x \in Here \cap own : st2[x] = "running" => ld2[x] \subseteq val
  BY HereAssumption DEF Consistent, Off
<1>7. ASSUME md # "exclusive", NEW m \in val
      PROVE  \E x \in Here \cap Anc(m[1]) : st2[x] = "running" /\ m \notin ld2[x]
  <2>1. PICK x \in Here \cap Anc(m[1]) : st[x] = "running" /\ m \notin ld[x]
    BY <1>7 DEF Consistent
  <2>2. t \notin Anc(m[1]) BY DEF Consistent, Visible
  <2> QED BY <2>1, <2>2, HereAssumption DEF Off
<1>8. md = "exclusive" => \E d \in Transaction : mk[d] > 0 /\ Visible(st2, own, {}, d)
  BY <1>2 DEF Consistent
<1>9. val \subseteq dn BY DEF Consistent
<1> QED BY <1>3, <1>5, <1>6, <1>7, <1>8, <1>9 DEF Consistent

\* t, under way, claims the state, and perhaps makes a call.
LEMMA ConsistentClaim ==
    ASSUME NEW st, NEW mk, NEW mk2, NEW dn, NEW ld, NEW own, NEW val, NEW md, NEW md2,
           NEW t \in Transaction,
           Consistent(st, mk, dn, ld, own, {}, val, md), DoneBy(dn, mk), Off(t, mk2, mk),
           mk2[t] > 0 \/ mk2[t] = mk[t],
           own \subseteq Anc(t), \A x \in Anc(t) : Busy(st[x]),
           \A x \in Here : Busy(st[x]) => st[x] = "draining" \/ x \in own,
           md2 # "exclusive" => md # "exclusive",
           md2 = "exclusive" => md = "exclusive" \/ mk2[t] > 0
    PROVE  Consistent(st, mk2, dn, ld, Anc(t), {}, val, md2)
<1>1. \A d : Visible(st, Anc(t), {}, d) <=> Visible(st, own, {}, d) BY DEF Visible, Busy
<1>2. \A m \in dn : m \in val <=> Visible(st, Anc(t), {}, m[1]) BY <1>1 DEF Consistent
<1>3. ASSUME NEW d \in Transaction, mk2[d] > 0, Visible(st, Anc(t), {}, d),
             NEW x \in Anc(d), Busy(st[x])
      PROVE  x \in Anc(t)
  <2>1. CASE d = t BY <1>3, <2>1
  <2>2. CASE d # t
    <3>1. mk[d] > 0 BY <1>3, <2>2 DEF Off
    <3> QED BY <1>1, <1>3, <3>1 DEF Consistent
  <2> QED BY <2>1, <2>2
<1>4. \A x \in Here \cap Anc(t) : st[x] = "running" => ld[x] \subseteq val
  BY DEF Consistent, Busy
<1>5. md2 = "exclusive" => \E d \in Transaction : mk2[d] > 0 /\ Visible(st, Anc(t), {}, d)
  <2>1. CASE mk2[t] > 0
    <3>1. Visible(st, Anc(t), {}, t) BY DEF Visible
    <3> QED BY <2>1, <3>1
  <2>2. ASSUME md = "exclusive"
        PROVE  \E d \in Transaction : mk2[d] > 0 /\ Visible(st, Anc(t), {}, d)
    <3>1. PICK d \in Transaction : mk[d] > 0 /\ Visible(st, own, {}, d)
      BY <2>2 DEF Consistent
    <3>2. mk2[d] > 0 BY <3>1 DEF Off
    <3> QED BY <1>1, <3>1, <3>2
  <2> QED BY <2>1, <2>2
<1>6. val \subseteq dn BY DEF Consistent
<1>7. md2 # "exclusive" => \A m \in val : \E x \in Here \cap Anc(m[1]) :
          st[x] = "running" /\ m \notin ld[x]
  BY DEF Consistent
<1> QED BY <1>2, <1>3, <1>4, <1>5, <1>6, <1>7 DEF Consistent

\* Within x, whose effects are hidden, t makes a call or a mutation.
LEMMA ConsistentHidden ==
    ASSUME NEW st, NEW mk, NEW mk2, NEW dn, NEW dn2, NEW ld, NEW own, NEW val, NEW md,
           NEW t \in Transaction, NEW x \in Anc(t),
           Consistent(st, mk, dn, ld, own, {x}, val, md), Off(t, mk2, mk),
           mk2[t] > 0 \/ mk2[t] = mk[t], dn \subseteq dn2, \A m \in dn2 : m \in dn \/ m[1] = t
    PROVE  Consistent(st, mk2, dn2, ld, own, {x}, val, md)
<1>1. ~Visible(st, own, {x}, t) BY DEF Visible
<1>2. \A m \in dn2 : m \in val <=> Visible(st, own, {x}, m[1]) BY <1>1 DEF Consistent
<1>3. \A d \in Transaction : mk2[d] > 0 /\ Visible(st, own, {x}, d) =>
          \A y \in Anc(d) : Busy(st[y]) => y \in own
  BY <1>1 DEF Consistent, Off
<1>4. md = "exclusive" => \E d \in Transaction : mk2[d] > 0 /\ Visible(st, own, {x}, d)
  BY <1>1 DEF Consistent, Off
<1>5. val \subseteq dn2 BY DEF Consistent
<1> QED BY <1>2, <1>3, <1>4, <1>5 DEF Consistent

\* A snapshot: nobody has used the state within x, under way and not an owner.
LEMMA ConsistentPush ==
    ASSUME NEW st, NEW mk, NEW dn, NEW ld, NEW own, NEW val, NEW md, NEW md2,
           NEW x \in Transaction,
           Consistent(st, mk, dn, ld, own, {}, val, md), DoneBy(dn, mk),
           Busy(st[x]), x \notin own, md2 # "exclusive" <=> md # "exclusive"
    PROVE  Consistent(st, mk, dn, ld, own, {x}, val, md2)
<1>1. \A d \in Transaction : mk[d] > 0 =>
        (Visible(st, own, {}, d) <=> Visible(st, own, {x}, d))
  BY DEF Visible, Consistent
<1>2. \A m \in dn : m \in val <=> Visible(st, own, {x}, m[1])
  BY <1>1 DEF Consistent, DoneBy
<1>3. \A d \in Transaction : mk[d] > 0 /\ Visible(st, own, {x}, d) =>
          \A y \in Anc(d) : Busy(st[y]) => y \in own
  BY <1>1 DEF Consistent
<1>4. md2 = "exclusive" => \E d \in Transaction : mk[d] > 0 /\ Visible(st, own, {x}, d)
  BY <1>1 DEF Consistent
<1> QED BY <1>2, <1>3, <1>4 DEF Consistent

\* The owner mutates the state.
LEMMA ConsistentMutation ==
    ASSUME NEW st, NEW mk, NEW mk2, NEW dn, NEW ld, NEW val, NEW md,
           NEW t \in Transaction, NEW m,
           Consistent(st, mk, dn, ld, Anc(t), {}, val, md), Off(t, mk2, mk),
           mk2[t] > 0, m[1] = t,
           md # "exclusive" => t \in Here /\ st[t] = "running" /\ m \notin ld[t]
    PROVE  Consistent(st, mk2, dn \cup {m}, ld, Anc(t), {}, val \cup {m}, md)
<1>1. Visible(st, Anc(t), {}, t) BY DEF Visible
<1>2. \A k \in dn \cup {m} : k \in val \cup {m} <=> Visible(st, Anc(t), {}, k[1])
  BY <1>1 DEF Consistent
<1>3. \A d \in Transaction : mk2[d] > 0 /\ Visible(st, Anc(t), {}, d) =>
          \A y \in Anc(d) : Busy(st[y]) => y \in Anc(t)
  BY DEF Consistent, Off
<1>4. md = "exclusive" => \E d \in Transaction : mk2[d] > 0 /\ Visible(st, Anc(t), {}, d)
  BY <1>1
<1>5. val \cup {m} \subseteq dn \cup {m} BY DEF Consistent
<1>6. \A x \in Here \cap Anc(t) : st[x] = "running" => ld[x] \subseteq val \cup {m}
  BY DEF Consistent
<1>7. md # "exclusive" => \A k \in val \cup {m} : \E x \in Here \cap Anc(k[1]) :
          st[x] = "running" /\ k \notin ld[x]
  BY AncSelf DEF Consistent
<1> QED BY <1>2, <1>3, <1>4, <1>5, <1>6, <1>7 DEF Consistent

\* What a snapshot above x has, the state has too.
LEMMA ConsistentPart ==
    ASSUME NEW st, NEW mk, NEW dn, NEW ld, NEW own, NEW own2, NEW val, NEW val2, NEW md, NEW md2,
           NEW hidden, Consistent(st, mk, dn, ld, own, {}, val, md),
           Consistent(st, mk, dn, ld, own2, hidden, val2, md2), own2 \subseteq own
    PROVE  val2 \subseteq val
<1>1. \A d : Visible(st, own2, hidden, d) => Visible(st, own, {}, d) BY DEF Visible
<1> QED BY <1>1 DEF Consistent

-----------------------------------------------------------------------------
(* Every step that is no race keeps what the state and snapshots contain.  *)

\* Mutations were made by calls.
LEMMA DoneMade == ASSUME Structure, Data PROVE DoneBy(done, made)
<1> SUFFICES ASSUME NEW m \in done PROVE m[1] \in Transaction /\ made[m[1]] > 0
  BY DEF DoneBy
<1>1. m[1] \in Transaction /\ m[2] \in 1..MaxCalls BY DEF Structure, TypeOK, Mutation
<1>2. m[2] <= made[m[1]] BY DEF Data, Numbered
<1>3. MaxCalls \in Nat /\ made[m[1]] \in 0..MaxCalls
  BY <1>1, BoundAssumption DEF Structure, TypeOK
<1> QED BY <1>1, <1>2, <1>3

\* A snapshot that an owner would be rolled back to is one of its ancestors'.
LEMMA RollbackAbove ==
    ASSUME Structure, NEW x \in Nested, NEW i \in DOMAIN snapshots, RollsTo(x, i)
    PROVE  /\ x \in Transaction /\ x \in Ids(owner_ids) /\ Anc(x) \subseteq Ids(owner_ids)
           /\ x \notin Before(i) /\ Before(i) \subseteq Anc(x)
<1>1. x \in Ids(owner_ids) /\ IsOldest(i, x) BY DEF RollsTo
<1>2. x \in Transaction /\ Anc(x) \subseteq Ids(owner_ids)
  BY <1>1, OwnerIds DEF Structure, OwnerOK
<1>3. x \notin Before(i) /\ Before(i) \subseteq Anc(x) BY <1>1, BeforeAbove DEF Structure
<1> QED BY <1>1, <1>2, <1>3

\* What a rollback installs is consistent with the owner it leaves.
LEMMA RollbackFits ==
    ASSUME Data, NEW x \in Nested, NEW i \in DOMAIN snapshots, RollsTo(x, i)
    PROVE  Consistent(status, made, done, loaded, Before(i), {x}, snapshots[i].value,
                      snapshots[i].mode)
BY DEF Data, Later

\* A step that leaves owner and snapshots has to be consistent with each
\* snapshot in reach.
LEMMA LaterStays ==
    ASSUME UNCHANGED <<owner_ids, snapshots>>,
           \A x \in Nested, i \in DOMAIN snapshots : RollsTo(x, i) =>
              Consistent(status', made', done', loaded', Before(i), {x}, snapshots[i].value,
                         snapshots[i].mode)
    PROVE  Later'
<1> SUFFICES ASSUME NEW x \in Nested, NEW i \in DOMAIN snapshots', RollsTo(x, i)'
             PROVE  Consistent(status', made', done', loaded', Before(i)', {x},
                               snapshots'[i].value, snapshots'[i].mode)
  BY DEF Later
<1>1. RollsTo(x, i) BY DEF RollsTo, IsOldest
<1>2. Before(i)' = Before(i) BY DEF Before
<1> QED BY <1>1, <1>2

\* A call in flight is one of the owner, who is under way.
LEMMA InFlightOwner ==
    ASSUME Structure, Data, NEW t \in Transaction, call[t] # "none"
    PROVE  /\ owner_ids = transaction_ids[t] /\ Ids(owner_ids) = Anc(t)
           /\ status[t] = "running" /\ \A d \in Transaction : call[d] # "none" => d = t
<1> HIDE DEF transaction_ids
<1>1. owner_ids = transaction_ids[t] BY DEF Data, InFlightOK
<1>2. Ids(owner_ids) = Anc(t) BY <1>1, IdsOfChain
<1>3. \A d \in Transaction : call[d] # "none" => d = t
  BY <1>1, ChainInjective DEF Data, InFlightOK
<1>4. status[t] = "running" BY DEF Structure, CallsOK
<1> QED BY <1>1, <1>2, <1>3, <1>4

\* What an owner is rolled back to has nothing of those within, and they did
\* not own it.
LEMMA RollbackWithin ==
    ASSUME Structure, Data, NEW x \in Nested, NEW i \in DOMAIN snapshots, RollsTo(x, i),
           NEW t \in Transaction, x \in Anc(t)
    PROVE  t \notin Before(i) /\ \A m \in snapshots[i].value : t \notin Anc(m[1])
<1>1. x \in Transaction /\ x \notin Before(i) /\ Before(i) \subseteq Anc(x) BY RollbackAbove
<1>2. t \notin Before(i) BY <1>1, AncAntisym
<1>3. ASSUME NEW m \in snapshots[i].value, t \in Anc(m[1]) PROVE FALSE
  <2>1. m \in done /\ Visible(status, Before(i), {x}, m[1])
    BY <1>3, RollbackFits DEF Consistent
  <2>2. m[1] \in Transaction BY <2>1, DoneMade DEF DoneBy
  <2>3. x \in Anc(m[1]) BY <1>3, <2>2, AncTrans
  <2> QED BY <2>1, <2>3 DEF Visible
<1> QED BY <1>2, <1>3

\* A writer that loads the state keeps the data.
LEMMA LoadData == ASSUME Structure, Data, NEW t \in Transaction, Load(t) PROVE Data'
<1> USE DEF Load, participantVars
<1> HIDE DEF transaction_ids
<1>1. Ids(owner_ids) = Anc(t) /\ status[t] = "running" BY InFlightOwner
<1>2. mode = "exclusive" BY DEF Data, InFlightOK
<1>3. Off(t, loaded', loaded) /\ loaded'[t] = value BY DEF Off, Structure, TypeOK
<1>4. Off(t, call', call) /\ call'[t] = "loaded" BY DEF Off, Structure, TypeOK
<1>5. InFlightOK'
  <2>1. \A d \in Transaction : call'[d] # "none" => call[d] # "none" BY <1>4 DEF Off
  <2>2. \A d \in Transaction : call'[d] = "loaded" => d = t BY <1>4 DEF Off
  <2> QED BY <1>2, <1>3, <2>1, <2>2 DEF Data, InFlightOK
<1>6. KeysOK' /\ Numbered' BY DEF Data, KeysOK, Numbered
<1>7. Now'
  <2>1. Consistent(status, made, done, loaded, Ids(owner_ids), {}, value, mode)
    BY DEF Data, Now
  <2>2. Consistent(status, made, done, loaded', Ids(owner_ids), {}, value, mode)
    BY <1>2, <1>3, <2>1, ConsistentLoad
  <2> QED BY <2>2 DEF Now
<1>8. Later'
  <2> SUFFICES ASSUME NEW x \in Nested, NEW i \in DOMAIN snapshots, RollsTo(x, i)
               PROVE  Consistent(status, made, done, loaded', Before(i), {x},
                                 snapshots[i].value, snapshots[i].mode)
    BY LaterStays
  <2>1. Consistent(status, made, done, loaded, Before(i), {x}, snapshots[i].value,
                   snapshots[i].mode)
    BY RollbackFits
  <2>2. x \in Anc(t) BY <1>1 DEF RollsTo
  <2>3. t \notin Before(i) /\ \A m \in snapshots[i].value : t \notin Anc(m[1])
    BY <2>2, RollbackWithin
  <2> QED BY <1>3, <2>1, <2>3, ConsistentLoad
<1> QED BY <1>5, <1>6, <1>7, <1>8 DEF Data

\* The end of a call keeps the data.
LEMMA EndCallData == ASSUME Structure, Data, NEW t \in Transaction, EndCall(t) PROVE Data'
<1> USE DEF EndCall, participantVars
<1> HIDE DEF transaction_ids
<1>1. Off(t, loaded', loaded) /\ loaded'[t] = {} BY DEF Off, Structure, TypeOK
<1>2. Off(t, call', call) /\ call'[t] = "none" BY DEF Off, Structure, TypeOK
<1>3. InFlightOK' BY <1>1, <1>2 DEF Data, InFlightOK, Off
<1>4. KeysOK' /\ Numbered' BY DEF Data, KeysOK, Numbered
<1>5. Now'
  <2>1. Consistent(status, made, done, loaded, Ids(owner_ids), {}, value, mode)
    BY DEF Data, Now
  <2>2. Consistent(status, made, done, loaded', Ids(owner_ids), {}, value, mode)
    BY <1>1, <2>1, ConsistentLoad
  <2> QED BY <2>2 DEF Now
<1>6. Later'
  <2> SUFFICES ASSUME NEW x \in Nested, NEW i \in DOMAIN snapshots, RollsTo(x, i)
               PROVE  Consistent(status, made, done, loaded', Before(i), {x},
                                 snapshots[i].value, snapshots[i].mode)
    BY LaterStays
  <2>1. Consistent(status, made, done, loaded, Before(i), {x}, snapshots[i].value,
                   snapshots[i].mode)
    BY RollbackFits
  <2> QED BY <1>1, <2>1, ConsistentLoad
<1> QED BY <1>3, <1>4, <1>5, <1>6 DEF Data

\* A writer that stores its effects keeps the data.
LEMMA StoreData == ASSUME Structure, Data, NEW t \in Transaction, Store(t) PROVE Data'
<1> USE DEF Store
<1> HIDE DEF transaction_ids
<1>1. /\ Ids(owner_ids) = Anc(t) /\ status[t] = "running"
      /\ \A d \in Transaction : call[d] # "none" => d = t
  BY InFlightOwner
<1>2. mode = "exclusive" /\ loaded[t] = value BY DEF Data, InFlightOK
<1>3. Off(t, loaded', loaded) /\ loaded'[t] = {} BY DEF Off, Structure, TypeOK
<1>4. Off(t, call', call) /\ call'[t] = "none" BY DEF Off, Structure, TypeOK
<1>5. PICK m : m = <<t, made[t]>> OBVIOUS
<1>6. /\ value' = value \cup {m} /\ keys' = keys \cup {m} /\ done' = done \cup {m}
      /\ m[1] = t /\ m[2] = made[t]
  BY <1>2, <1>5 DEF store
<1>7. made[t] > 0 /\ made[t] <= made[t] BY DEF Structure, CallsOK, TypeOK
<1>8. InFlightOK'
  <2>1. \A d \in Transaction : call'[d] = "none" BY <1>1, <1>4 DEF Off
  <2> QED BY <2>1 DEF InFlightOK
<1>9. KeysOK'
  <2>1. KeysMatch(value \cup {m}, keys \cup {m}) BY DEF Data, KeysOK, KeysMatch
  <2> QED BY <1>6, <2>1 DEF Data, KeysOK
<1>10. Numbered' BY <1>6, <1>7 DEF Data, Numbered
<1>11. Now'
  <2>1. Consistent(status, made, done, loaded, Anc(t), {}, value, mode)
    BY <1>1 DEF Data, Now
  <2>2. Consistent(status, made, done, loaded', Anc(t), {}, value, mode)
    BY <1>3, <2>1, ConsistentLoad
  <2>3. Off(t, made, made) BY DEF Off
  <2>4. Consistent(status, made, done \cup {m}, loaded', Anc(t), {}, value \cup {m}, mode)
    BY <1>2, <1>6, <1>7, <2>2, <2>3, ConsistentMutation
  <2> QED BY <1>1, <1>6, <2>4 DEF Now
<1>12. Later'
  <2> SUFFICES ASSUME NEW x \in Nested, NEW i \in DOMAIN snapshots, RollsTo(x, i)
               PROVE  Consistent(status, made, done', loaded', Before(i), {x},
                                 snapshots[i].value, snapshots[i].mode)
    BY LaterStays
  <2>1. Consistent(status, made, done, loaded, Before(i), {x}, snapshots[i].value,
                   snapshots[i].mode)
    BY RollbackFits
  <2>2. x \in Anc(t) BY <1>1 DEF RollsTo
  <2>3. Consistent(status, made, done, loaded', Before(i), {x}, snapshots[i].value,
                   snapshots[i].mode)
    BY <1>3, <2>1, ConsistentLoad
  <2>4. Off(t, made, made) BY DEF Off
  <2>5. done \subseteq done' /\ \A k \in done' : k \in done \/ k[1] = t BY <1>6
  <2> QED BY <2>2, <2>3, <2>4, <2>5, ConsistentHidden
<1> QED BY <1>8, <1>9, <1>10, <1>11, <1>12 DEF Data

\* A mutation through a live reference keeps the data, unless a rollback is
\* due.
LEMMA MutateData ==
    ASSUME Structure, Data, NEW t \in Transaction, Mutate(t), races' = {} PROVE Data'
<1> USE DEF Mutate
<1> HIDE DEF transaction_ids
<1>1. owner_ids = transaction_ids[t] BY DEF Race
<1>2. Ids(owner_ids) = Anc(t) BY <1>1, IdsOfChain
<1>3. \A d \in Transaction : call[d] = "none" BY <1>1, ChainInjective DEF Data, InFlightOK
<1>4. /\ made'[t] = made[t] + 1 /\ made[t] \in Nat /\ made'[t] > 0 /\ Off(t, made', made)
  BY BoundAssumption DEF Off, Structure, TypeOK
<1>5. PICK m : m = <<t, made'[t]>> OBVIOUS
<1>6. /\ value' = value \cup {m} /\ done' = done \cup {m}
      /\ m[1] = t /\ m[2] = made'[t]
  BY <1>5
<1>7. Consistent(status, made, done, loaded, Anc(t), {}, value, mode)
  BY <1>2 DEF Data, Now
<1>8. m \notin loaded[t]
  <2>1. m \notin done
    <3> SUFFICES ASSUME m \in done PROVE FALSE OBVIOUS
    <3>1. made'[t] <= made[t] BY <1>6 DEF Data, Numbered
    <3> QED BY <1>4, <3>1
  <2>2. loaded[t] \subseteq value /\ value \subseteq done BY <1>7, AncSelf DEF Consistent
  <2> QED BY <2>1, <2>2
<1>9. InFlightOK' BY <1>3 DEF InFlightOK
<1>10. KeysOK'
  <2>1. KeysMatch(value \cup {m}, keys) BY <1>6 DEF Data, KeysOK, KeysMatch
  <2> QED BY <1>6, <2>1 DEF Data, KeysOK
<1>11. Numbered'
  <2> SUFFICES ASSUME NEW k \in done' PROVE k[2] <= made'[k[1]] BY DEF Numbered
  <2>1. CASE k = m BY <1>4, <1>6, <2>1
  <2>2. CASE k \in done
    <3>1. k[1] \in Transaction /\ k[2] \in Nat /\ k[2] <= made[k[1]]
      BY <2>2, BoundAssumption DEF Data, Numbered, Structure, TypeOK, Mutation
    <3>2. CASE k[1] = t
      <4>1. k[2] <= made[t] BY <3>1, <3>2
      <4>2. k[2] <= made'[t] BY <1>4, <3>1, <4>1
      <4> QED BY <3>2, <4>2
    <3>3. CASE k[1] # t BY <1>4, <3>1, <3>3 DEF Off
    <3> QED BY <3>2, <3>3
  <2> QED BY <1>6, <2>1, <2>2
<1>12. Now'
  <2>1. Consistent(status, made', done \cup {m}, loaded, Anc(t), {}, value \cup {m}, mode)
    BY <1>4, <1>6, <1>7, <1>8, ConsistentMutation
  <2> QED BY <1>2, <1>6, <2>1 DEF Now
<1>13. Later'
  <2> SUFFICES ASSUME NEW x \in Nested, NEW i \in DOMAIN snapshots, RollsTo(x, i)
               PROVE  Consistent(status, made', done', loaded, Before(i), {x},
                                 snapshots[i].value, snapshots[i].mode)
    BY LaterStays
  <2>1. Consistent(status, made, done, loaded, Before(i), {x}, snapshots[i].value,
                   snapshots[i].mode)
    BY RollbackFits
  <2>2. x \in Anc(t) BY <1>2 DEF RollsTo
  <2>3. done \subseteq done' /\ \A k \in done' : k \in done \/ k[1] = t BY <1>6
  <2> QED BY <1>4, <2>1, <2>2, <2>3, ConsistentHidden
<1> QED BY <1>9, <1>10, <1>11, <1>12, <1>13 DEF Data

\* A transaction started elsewhere keeps the data.
LEMMA StartData == ASSUME Structure, Data, NEW t \in Nested, Start(t) PROVE Data'
<1> USE DEF Start, participantVars
<1>1. t \in Transaction /\ DoneBy(done, made) BY AncParent, DoneMade
<1>2. Off(t, status', status) /\ status'[t] = "running" BY <1>1 DEF Off, Structure, TypeOK
<1>3. \A d \in Transaction : t \in Anc(d) => ~(made[d] > 0)
  BY DEF Structure, CallsOK, TreeOK
<1>4. InFlightOK' BY DEF Data, InFlightOK
<1>5. KeysOK' /\ Numbered' BY DEF Data, KeysOK, Numbered
<1>6. Now'
  <2>1. Consistent(status, made, done, loaded, Ids(owner_ids), {}, value, mode)
    BY DEF Data, Now
  <2>2. Consistent(status', made, done, loaded, Ids(owner_ids), {}, value, mode)
    BY <1>1, <1>2, <1>3, <2>1, ConsistentStart DEF Busy
  <2> QED BY <2>2 DEF Now
<1>7. Later'
  <2> SUFFICES ASSUME NEW x \in Nested, NEW i \in DOMAIN snapshots, RollsTo(x, i)
               PROVE  Consistent(status', made, done, loaded, Before(i), {x},
                                 snapshots[i].value, snapshots[i].mode)
    BY LaterStays
  <2>1. Consistent(status, made, done, loaded, Before(i), {x}, snapshots[i].value,
                   snapshots[i].mode)
    BY RollbackFits
  <2> QED BY <1>1, <1>2, <1>3, <2>1, ConsistentStart DEF Busy
<1> QED BY <1>4, <1>5, <1>6, <1>7 DEF Data

\* A method that has drained the calls in flight keeps the data.
LEMMA DrainedData == ASSUME Structure, Data, NEW t \in Nested, Drained(t) PROVE Data'
<1> USE DEF Drained, participantVars
<1> HIDE DEF transaction_ids
<1>1. t \in Transaction /\ DoneBy(done, made) BY AncParent, DoneMade
<1>2. Off(t, status', status) /\ status'[t] = "running" BY <1>1 DEF Off, Structure, TypeOK
<1>3. Off(t, loaded', loaded) /\ loaded'[t] = value BY <1>1 DEF Off, Structure, TypeOK
<1>4. InFlightOK' BY DEF InFlightOK
<1>5. KeysOK' /\ Numbered' BY DEF Data, KeysOK, Numbered
<1>6. Now'
  <2>1. Consistent(status, made, done, loaded, Ids(owner_ids), {}, value, mode)
    BY DEF Data, Now
  <2>2. Consistent(status, made, done, loaded', Ids(owner_ids), {}, value, mode)
    BY <1>1, <1>3, <2>1, ConsistentLoad
  <2>3. Consistent(status', made, done, loaded', Ids(owner_ids), {}, value, mode)
    BY <1>1, <1>2, <1>3, <2>2, ConsistentDrain
  <2> QED BY <2>3 DEF Now
<1>7. Later'
  <2> SUFFICES ASSUME NEW x \in Nested, NEW i \in DOMAIN snapshots, RollsTo(x, i)
               PROVE  Consistent(status', made, done, loaded', Before(i), {x},
                                 snapshots[i].value, snapshots[i].mode)
    BY LaterStays
  <2>1. Consistent(status, made, done, loaded, Before(i), {x}, snapshots[i].value,
                   snapshots[i].mode)
    BY RollbackFits
  <2>2. Consistent(status, made, done, loaded', Before(i), {x}, snapshots[i].value,
                   snapshots[i].mode)
    BY <1>1, <1>3, <2>1, ConsistentLoad
  <2>3. t \in Here => t \notin Before(i)
    <3> SUFFICES ASSUME t \in Here PROVE t \notin Before(i) OBVIOUS
    <3>1. t \in Ids(owner_ids) BY DEF Structure, OwnerOK, Busy
    <3>2. x \in Transaction /\ x \in Ids(owner_ids) /\ status[x] # "idle"
      BY RollbackAbove, OwnerIds DEF Structure, OwnerOK
    <3>3. x = t \/ t \notin Anc(x) BY <3>2 DEF Structure, TreeOK
    <3>4. x \in Anc(t) BY <3>1, <3>2, <3>3, AncSelf, OwnerIds DEF Structure, OwnerOK
    <3> QED BY <1>1, <3>4, RollbackWithin
  <2> QED BY <1>1, <1>2, <2>2, <2>3, ConsistentDrain
<1> QED BY <1>4, <1>5, <1>6, <1>7 DEF Data

\* The end of a transaction elsewhere keeps the data: its effects stay
\* visible until its request arrives.
LEMMA EndElsewhereData ==
    ASSUME Structure, Data, NEW t \in Nested, NEW aborted \in BOOLEAN, EndElsewhere(t, aborted)
    PROVE  Data'
<1> USE DEF EndElsewhere, participantVars
<1>1. t \in Transaction /\ t # Root /\ DoneBy(done, made) BY AncParent, DoneMade
<1>2. status[t] = "running" /\ Off(t, status', status) /\ status'[t] \in {"committed", "aborted"}
  BY <1>1, EndFacts DEF Off
<1>3. Off(t, loaded, loaded) BY DEF Off
<1>4. InFlightOK' BY DEF Data, InFlightOK
<1>5. KeysOK' /\ Numbered' BY DEF Data, KeysOK, Numbered
<1>6. Now'
  <2>1. Consistent(status, made, done, loaded, Ids(owner_ids), {}, value, mode)
    BY DEF Data, Now
  <2>2. Consistent(status', made, done, loaded, Ids(owner_ids), {}, value, mode)
    BY <1>1, <1>2, <1>3, <2>1, ConsistentEnd
  <2> QED BY <2>2 DEF Now
<1>7. Later'
  <2> SUFFICES ASSUME NEW x \in Nested, NEW i \in DOMAIN snapshots, RollsTo(x, i)
               PROVE  Consistent(status', made, done, loaded, Before(i), {x},
                                 snapshots[i].value, snapshots[i].mode)
    BY LaterStays
  <2>1. Consistent(status, made, done, loaded, Before(i), {x}, snapshots[i].value,
                   snapshots[i].mode)
    BY RollbackFits
  <2> QED BY <1>1, <1>2, <1>3, <2>1, ConsistentEnd
<1> QED BY <1>4, <1>5, <1>6, <1>7 DEF Data

\* The end of the root keeps the data.
LEMMA EndRootData == ASSUME Structure, Data, EndRoot, races' = {} PROVE Data'
<1> USE DEF EndRoot
<1> HIDE DEF transaction_ids
<1>1. Root \in Transaction /\ DoneBy(done, made) BY DoneMade DEF Transaction
<1>2. status[Root] = "running" /\ Off(Root, status', status) /\ status'[Root] = "committed"
  BY <1>1, EndFacts DEF Off
<1>3. Off(Root, loaded, loaded) BY DEF Off
<1>4. mode' = mode \/ mode' = "exclusive" BY DEF Completed
<1>5. InFlightOK' BY <1>4 DEF Data, InFlightOK
<1>6. KeysOK' /\ Numbered' BY DEF Data, KeysOK, Numbered
<1>7. Consistent(status, made, done, loaded, Ids(owner_ids), {}, value, mode)
  BY DEF Data, Now
<1>8. Root \in Here => loaded[Root] \subseteq value
  BY <1>2, <1>7 DEF Consistent, Structure, OwnerOK, Busy
<1>9. Now'
  <2>1. mode' # "exclusive" => mode # "exclusive" /\ (Root \in Here => value = loaded[Root])
    BY <1>4 DEF Completed, requires_exclusive
  <2>2. mode' = "exclusive" => mode = "exclusive" \/ value # {}
    BY <1>8 DEF Completed, requires_exclusive
  <2>3. Consistent(status', made, done, loaded, Ids(owner_ids), {}, value, mode')
    BY <1>1, <1>2, <1>3, <1>7, <2>1, <2>2, ConsistentEnd
  <2> QED BY <2>3 DEF Now
<1>10. Later'
  <2> SUFFICES ASSUME NEW x \in Nested, NEW i \in DOMAIN snapshots, RollsTo(x, i)
               PROVE  Consistent(status', made, done, loaded, Before(i), {x},
                                 snapshots[i].value, snapshots[i].mode)
    BY LaterStays
  <2>1. Consistent(status, made, done, loaded, Before(i), {x}, snapshots[i].value,
                   snapshots[i].mode)
    BY RollbackFits
  <2>2. x \in Ids(owner_ids) /\ Before(i) \subseteq Ids(owner_ids) BY RollbackAbove
  <2>3. snapshots[i].value \subseteq value BY <1>7, <2>1, <2>2, ConsistentPart
  <2>4. owner_ids # transaction_ids[Root]
    BY <1>1, <2>2, AncRoot, IdsOfChain, RootAssumption
  <2>5. Root \in Here => value = loaded[Root] BY <2>4 DEF Race, requires_exclusive
  <2> QED BY <1>1, <1>2, <1>3, <2>1, <2>3, <2>5, ConsistentEnd
<1> QED BY <1>5, <1>6, <1>9, <1>10 DEF Data

\* A claim by t, under way: the state and the snapshots fit the new owner.
LEMMA ClaimData ==
    ASSUME Structure, NEW t \in Transaction, NEW m \in Mode, claim_ownership(t, m), Onward,
           UNCHANGED <<value, keys, loaded, done>>, DoneBy(done, made), KeysOK,
           Consistent(status', made, done, loaded, Ids(owner_ids), {}, value, mode),
           \A x \in Nested, i \in DOMAIN snapshots : RollsTo(x, i) =>
              Consistent(status', made, done, loaded, Before(i), {x}, snapshots[i].value,
                         snapshots[i].mode),
           Off(t, made', made), made'[t] > 0 \/ made'[t] = made[t],
           \A x \in Anc(t) : Busy(status'[x]),
           \A x \in Here : Busy(status'[x]) => status'[x] = "draining" \/ x \in Ids(owner_ids),
           mode' # "exclusive" => mode # "exclusive",
           mode' = "exclusive" => mode = "exclusive" \/ made'[t] > 0,
           owner_ids # <<>> => m = mode
    PROVE  Now' /\ Later' /\ KeysOK'
<1> HIDE DEF transaction_ids
<1>1. TypeOK /\ TreeOK /\ OwnerOK /\ SnapshotsOK /\ IsClaim(owner_ids)
  BY DEF Structure, OwnerOK
<1>2. /\ owner_ids' = transaction_ids[t]
      /\ Ids(owner_ids)' = Anc(t) /\ Ids(owner_ids) \subseteq Anc(t)
      /\ Kept(t) \/ Pushed(t, m)
  BY <1>1, ClaimFacts
<1>3. Len(snapshots) \in Nat /\ DOMAIN snapshots = 1..Len(snapshots)
  BY <1>1, SnapshotsType DEF TypeOK
<1>4. PICK n \in Nat : n = Len(snapshots) BY <1>3
<1>5. Now'
  <2>1. Consistent(status', made', done, loaded, Anc(t), {}, value, mode')
    BY <1>2, ConsistentClaim
  <2> QED BY <1>2, <2>1 DEF Now
<1>6. done \subseteq done /\ \A k \in done : k \in done \/ k[1] = t OBVIOUS
<1>7. CASE Kept(t)
  <2>1. Later'
    <3> SUFFICES ASSUME NEW x \in Nested, NEW i \in DOMAIN snapshots', RollsTo(x, i)'
                 PROVE  Consistent(status', made', done, loaded, Before(i)', {x},
                                   snapshots'[i].value, snapshots'[i].mode)
      BY DEF Later
    <3>1. snapshots' = snapshots BY <1>7 DEF Kept
    <3>2. x \in Anc(t) /\ IsOldest(i, x) /\ Before(i)' = Before(i)
      BY <1>2, <3>1 DEF RollsTo, IsOldest, Before
    <3>3. t # Root BY <3>2, AncRoot, RootAssumption
    <3>4. Ids(owner_ids) = Anc(t) BY <1>7, <3>3, IdsOfChain DEF Kept
    <3>5. RollsTo(x, i) BY <3>2, <3>4 DEF RollsTo
    <3>6. Consistent(status', made, done, loaded, Before(i), {x}, snapshots[i].value,
                     snapshots[i].mode)
      BY <3>1, <3>5
    <3>7. Consistent(status', made', done, loaded, Before(i), {x}, snapshots[i].value,
                     snapshots[i].mode)
      BY <1>6, <3>2, <3>6, ConsistentHidden
    <3> QED BY <3>1, <3>2, <3>7
  <2>2. KeysOK' BY <1>7 DEF Kept, KeysOK
  <2> QED BY <1>5, <2>1, <2>2
<1>8. CASE Pushed(t, m)
  <2>1. PICK s \in Snapshot :
        /\ snapshots'[n + 1] = s /\ s.owner_ids = owner_ids
        /\ s.mode = IF owner_ids # <<>> THEN m ELSE "shared"
        /\ s.value = value /\ s.keys = keys
    BY <1>4, <1>8 DEF Pushed
  <2>2. /\ \A j \in 1..n : snapshots'[j] = snapshots[j]
        /\ DOMAIN snapshots' = 1..(n + 1)
    BY <1>4, <1>8, LenProperties DEF Pushed
  <2>3. KeysOK'
    <3> SUFFICES ASSUME NEW j \in 1..(n + 1)
                 PROVE  KeysMatch(snapshots'[j].value, snapshots'[j].keys)
      BY <2>2 DEF KeysOK
    <3>1. CASE j = n + 1 BY <2>1, <3>1 DEF KeysOK
    <3>2. CASE j # n + 1
      <4>1. j \in 1..n BY <3>2
      <4> QED BY <1>3, <1>4, <2>2, <4>1 DEF KeysOK
    <3> QED BY <3>1, <3>2
  <2>4. Later'
    <3> SUFFICES ASSUME NEW x \in Nested, NEW i \in 1..(n + 1), RollsTo(x, i)'
                 PROVE  Consistent(status', made', done, loaded, Before(i)', {x},
                                   snapshots'[i].value, snapshots'[i].mode)
      BY <2>2 DEF Later
    <3>1. x \in Anc(t) /\ IsOldest(i, x)' /\ Busy(status'[x]) /\ x \in Transaction
      BY <1>2, AncType DEF RollsTo
    <3>2. CASE i = n + 1
      <4>1. \A j \in 1..n : x \notin Within(j)
        <5>1. \A j \in 1..i - 1 : ~Contains(snapshots'[j].transaction_ids, x)
          BY <3>1 DEF IsOldest
        <5>2. 1..i - 1 = 1..n BY <3>2
        <5> QED BY <2>2, <5>1, <5>2, ContainsIds DEF Within
      <4>2. x \notin Ids(owner_ids) BY <1>1, <1>3, <1>4, <4>1 DEF OwnerOK
      <4>3. s.mode # "exclusive" <=> mode # "exclusive" BY <1>1, <2>1 DEF OwnerOK
      <4>4. Consistent(status', made, done, loaded, Ids(owner_ids), {x}, value, s.mode)
        BY <3>1, <4>2, <4>3, ConsistentPush
      <4>5. Consistent(status', made', done, loaded, Ids(owner_ids), {x}, value, s.mode)
        BY <1>6, <3>1, <4>4, ConsistentHidden
      <4>6. Before(i)' = Ids(owner_ids) BY <2>1, <3>2 DEF Before
      <4> QED BY <2>1, <3>2, <4>5, <4>6
    <3>3. CASE i # n + 1
      <4>1. i \in 1..n /\ i \in DOMAIN snapshots BY <1>3, <1>4, <3>3
      <4>2. snapshots'[i] = snapshots[i] /\ \A j \in 1..i - 1 : snapshots'[j] = snapshots[j]
        BY <2>2, <4>1
      <4>3. IsOldest(i, x) BY <3>1, <4>2 DEF IsOldest
      <4>4. x \in Within(i) BY <4>3, ContainsIds DEF IsOldest, Within
      <4>5. status[x] # "idle" BY <1>1, <4>1, <4>4, SnapshotIds DEF SnapshotsOK
      <4>6. x \in Ids(owner_ids) BY <1>1, <3>1, <4>1, <4>4, <4>5 DEF OwnerOK, Onward
      <4>7. RollsTo(x, i) BY <4>3, <4>6 DEF RollsTo
      <4>8. Consistent(status', made, done, loaded, Before(i), {x}, snapshots[i].value,
                       snapshots[i].mode)
        BY <4>1, <4>7
      <4>9. Consistent(status', made', done, loaded, Before(i), {x}, snapshots[i].value,
                       snapshots[i].mode)
        BY <1>6, <3>1, <4>8, ConsistentHidden
      <4>10. Before(i)' = Before(i) BY <4>2 DEF Before
      <4> QED BY <4>2, <4>9, <4>10
    <3> QED BY <3>2, <3>3
  <2> QED BY <1>5, <2>3, <2>4
<1> QED BY <1>2, <1>7, <1>8

\* A call, with the claim and the snapshot it leads to, keeps the data.
LEMMA StartCallData ==
    ASSUME Structure, Data, NEW t \in Transaction, NEW kind \in {"reader", "writer"},
           StartCall(t, kind), races' = {}
    PROVE  Data'
<1> USE DEF StartCall
<1> HIDE DEF transaction_ids
<1>1. status' = status /\ status[t] = "running" /\ call[t] = "none" BY DEF CanCall
<1>2. PICK m \in Mode : m = Joined(kind) BY JoinedMode DEF Structure
<1>3. claim_ownership(t, m) BY <1>2
<1>4. IsClaim(owner_ids) /\ TypeOK BY DEF Structure, OwnerOK
<1>5. /\ owner_ids' = transaction_ids[t] /\ Ids(owner_ids) \subseteq Anc(t)
      /\ Kept(t) \/ Pushed(t, m)
  BY <1>3, <1>4, ClaimFacts
<1>6. \A d \in Transaction : call[d] = "none"
  <2>1. CASE Pushed(t, m) BY <2>1 DEF Pushed
  <2>2. ASSUME Kept(t), NEW d \in Transaction, call[d] # "none" PROVE FALSE
    <3>1. owner_ids = transaction_ids[d] /\ Ids(owner_ids) = Anc(d) BY <2>2, InFlightOwner
    <3>2. CASE t = Root
      <4>1. d = Root BY <1>5, <3>1, <3>2, AncRoot, AncSelf
      <4> QED BY <1>1, <2>2, <3>2, <4>1
    <3>3. CASE owner_ids = transaction_ids[t] BY <1>1, <2>2, <3>1, <3>3, ChainInjective
    <3> QED BY <2>2, <3>2, <3>3 DEF Kept
  <2> QED BY <1>5, <2>1, <2>2
<1>7. Off(t, call', call) /\ call'[t] = kind BY DEF Off, Structure, TypeOK
<1>8. Off(t, made', made) /\ made[t] \in Nat /\ made'[t] = made[t] + 1 /\ made'[t] > 0
  BY BoundAssumption DEF Off, Structure, TypeOK
<1>9. InFlightOK'
  <2>1. \A d \in Transaction : call'[d] # "none" => d = t BY <1>6, <1>7 DEF Off
  <2> QED BY <1>5, <1>7, <2>1 DEF InFlightOK
<1>10. Numbered'
  <2> SUFFICES ASSUME NEW k \in done PROVE k[2] <= made'[k[1]] BY DEF Numbered
  <2>1. k[1] \in Transaction /\ k[2] \in Nat /\ k[2] <= made[k[1]]
    BY BoundAssumption DEF Data, Numbered, Structure, TypeOK, Mutation
  <2>2. CASE k[1] = t
    <3>1. k[2] <= made[t] BY <2>1, <2>2
    <3>2. k[2] <= made'[t] BY <1>8, <2>1, <3>1
    <3> QED BY <2>2, <3>2
  <2>3. CASE k[1] # t BY <1>8, <2>1, <2>3 DEF Off
  <2> QED BY <2>2, <2>3
<1>11. Onward BY <1>1, SameStatus
<1>12. Consistent(status', made, done, loaded, Ids(owner_ids), {}, value, mode)
  BY <1>1 DEF Data, Now
<1>13. \A x \in Nested, i \in DOMAIN snapshots : RollsTo(x, i) =>
              Consistent(status', made, done, loaded, Before(i), {x}, snapshots[i].value,
                         snapshots[i].mode)
  BY <1>1, RollbackFits
<1>14. \A x \in Anc(t) : Busy(status'[x]) BY <1>1 DEF Structure, TreeOK, Busy
<1>15. \A x \in Here : Busy(status'[x]) => status'[x] = "draining" \/ x \in Ids(owner_ids)
  BY <1>1 DEF Structure, OwnerOK
<1>16. /\ mode' # "exclusive" => mode # "exclusive"
       /\ mode' = "exclusive" => mode = "exclusive" \/ made'[t] > 0
       /\ owner_ids # <<>> => m = mode
  BY <1>2, <1>8 DEF Joined, JoinMode, Structure, OwnerOK
<1>17. DoneBy(done, made) /\ KeysOK BY DoneMade DEF Data
<1>18. Now' /\ Later' /\ KeysOK'
  BY <1>3, <1>8, <1>11, <1>12, <1>13, <1>14, <1>15, <1>16, <1>17, ClaimData
<1> QED BY <1>9, <1>10, <1>18 DEF Data

\* A method of this state that starts keeps the data.
LEMMA StartHereData ==
    ASSUME Structure, Data, NEW t \in Nested, StartHere(t), races' = {} PROVE Data'
<1> USE DEF StartHere
<1> HIDE DEF transaction_ids
<1>1. t \in Transaction /\ t # Root /\ DoneBy(done, made) BY AncParent, DoneMade
<1>2. Off(t, status', status) /\ status'[t] = "draining" BY <1>1 DEF Off, Structure, TypeOK
<1>3. PICK m \in Mode : m = Joined("transaction") BY JoinedMode DEF Structure
<1>4. claim_ownership(t, m) BY <1>3
<1>5. IsClaim(owner_ids) /\ TypeOK BY DEF Structure, OwnerOK
<1>6. Kept(t) \/ Pushed(t, m) BY <1>1, <1>4, <1>5, ClaimFacts
<1>7. \A d \in Transaction : call[d] = "none"
  <2>1. CASE Pushed(t, m) BY <2>1 DEF Pushed
  <2>2. ~Kept(t)
    <3> SUFFICES ASSUME owner_ids = transaction_ids[t] PROVE FALSE BY <1>1 DEF Kept
    <3>1. t \in Ids(owner_ids) BY <1>1, IdsOfChain, AncSelf
    <3> QED BY <3>1, OwnerIds DEF Structure, OwnerOK
  <2> QED BY <1>6, <2>1, <2>2
<1>8. InFlightOK' BY <1>7 DEF InFlightOK
<1>9. Numbered' BY DEF Data, Numbered
<1>10. StatusType /\ TreeOK BY DEF Structure, TypeOK, StatusType
<1>11. TreeOK' /\ Onward BY <1>10, TreeStart DEF CanCall
<1>12. \A d \in Transaction : t \in Anc(d) => ~(made[d] > 0)
  BY DEF Structure, CallsOK, TreeOK
<1>13. Consistent(status', made, done, loaded, Ids(owner_ids), {}, value, mode)
  <2>1. Consistent(status, made, done, loaded, Ids(owner_ids), {}, value, mode)
    BY DEF Data, Now
  <2> QED BY <1>1, <1>2, <1>12, <2>1, ConsistentStart DEF Busy
<1>14. ASSUME NEW x \in Nested, NEW i \in DOMAIN snapshots, RollsTo(x, i)
       PROVE  Consistent(status', made, done, loaded, Before(i), {x}, snapshots[i].value,
                         snapshots[i].mode)
  <2>1. Consistent(status, made, done, loaded, Before(i), {x}, snapshots[i].value,
                   snapshots[i].mode)
    BY <1>14, RollbackFits
  <2> QED BY <1>1, <1>2, <1>12, <2>1, ConsistentStart DEF Busy
<1>15. \A x \in Anc(t) : Busy(status'[x])
  BY <1>1, <1>2, <1>11 DEF TreeOK, Busy
<1>16. \A x \in Here : Busy(status'[x]) => status'[x] = "draining" \/ x \in Ids(owner_ids)
  BY <1>2, HereAssumption DEF Structure, OwnerOK, Off
<1>17. /\ mode' # "exclusive" <=> mode # "exclusive"
       /\ owner_ids # <<>> => m = mode
  BY <1>3 DEF Joined, JoinMode, Structure, OwnerOK
<1>18. Off(t, made', made) /\ made'[t] = made[t] /\ KeysOK BY DEF Off, Data
<1>19. Now' /\ Later' /\ KeysOK'
  BY <1>1, <1>4, <1>11, <1>13, <1>14, <1>15, <1>16, <1>17, <1>18, ClaimData
<1> QED BY <1>8, <1>9, <1>19 DEF Data

\* The snapshots that are left after t, which has ended, relinquished the state.
LEMMA LaterLeft ==
    ASSUME Structure, Data, NEW t \in Nested, NEW l \in Nat, 1..l \subseteq DOMAIN snapshots,
           DOMAIN snapshots' = 1..l, \A j \in 1..l : snapshots'[j] = snapshots[j],
           UNCHANGED <<made, done>>, Off(t, status', status), Off(t, loaded', loaded),
           status[t] = "running" \/ status[t] = status'[t],
           status'[t] \in {"committed", "aborted"},
           t \in Ids(owner_ids), \A x \in Ids(owner_ids)' : x \in Anc(t)
    PROVE  Later' /\ \A j \in DOMAIN snapshots' : KeysMatch(snapshots'[j].value, snapshots'[j].keys)
<1>1. t \in Transaction /\ DoneBy(done, made) BY AncParent, DoneMade
<1>2. \A j \in DOMAIN snapshots' : KeysMatch(snapshots'[j].value, snapshots'[j].keys)
  BY DEF Data, KeysOK
<1>3. Later'
  <2> SUFFICES ASSUME NEW x \in Nested, NEW j \in 1..l, RollsTo(x, j)'
               PROVE  Consistent(status', made, done, loaded', Before(j)', {x},
                                 snapshots'[j].value, snapshots'[j].mode)
    BY DEF Later
  <2>1. snapshots'[j] = snapshots[j] /\ \A k \in 1..j - 1 : snapshots'[k] = snapshots[k]
    OBVIOUS
  <2>2. x \in Anc(t) /\ IsOldest(j, x) BY <2>1 DEF RollsTo, IsOldest
  <2>3. Anc(t) \subseteq Ids(owner_ids) BY OwnerIds DEF Structure, OwnerOK
  <2>4. RollsTo(x, j) BY <2>2, <2>3 DEF RollsTo
  <2>5. Consistent(status, made, done, loaded, Before(j), {x}, snapshots[j].value,
                   snapshots[j].mode)
    BY <2>4, RollbackFits
  <2>6. \A m \in snapshots[j].value : t \notin Anc(m[1])
    BY <1>1, <2>2, <2>4, RollbackWithin
  <2>7. Consistent(status', made, done, loaded', Before(j), {x}, snapshots[j].value,
                   snapshots[j].mode)
    BY <1>1, <2>5, <2>6, ConsistentEnd
  <2>8. Before(j)' = Before(j) BY <2>1 DEF Before
  <2> QED BY <2>1, <2>7, <2>8
<1> QED BY <1>2, <1>3

\* A relinquishment that overtakes none keeps the data: whatever snapshot is
\* next to be rolled back to is consistent with its owner.
LEMMA RelinquishData ==
    ASSUME Structure, Structure', Data, NEW t \in Nested, NEW aborted \in BOOLEAN, NEW m,
           relinquish_ownership(t, aborted, m), races' = {}, Onward,
           UNCHANGED <<call, made, done>>, Off(t, status', status), Off(t, loaded', loaded),
           status[t] = "running" \/ status[t] = status'[t],
           status'[t] = IF aborted THEN "aborted" ELSE "committed",
           t \notin Ids(owner_ids) => status' = status /\ loaded' = loaded /\ m = mode,
           m # "exclusive" => /\ mode # "exclusive"
                              /\ status[t] = "running" /\ t \in Here => value = loaded[t],
           m = "exclusive" => mode = "exclusive" \/ value # {}
    PROVE  Data'
<1> HIDE DEF transaction_ids
<1>1. TypeOK /\ TreeOK /\ OwnerOK /\ SnapshotsOK /\ TreeOK' /\ IsClaim(owner_ids)
  BY DEF Structure, OwnerOK
<1>2. t \in Transaction /\ DoneBy(done, made) BY AncParent, DoneMade
<1>3. CASE Ignored(t, m)
  <2>1. UNCHANGED <<status, loaded, mode, owner_ids, snapshots, value, keys>>
    BY <1>3 DEF Ignored
  <2>2. InFlightOK' /\ KeysOK' /\ Numbered' BY <2>1 DEF Data, InFlightOK, KeysOK, Numbered
  <2>3. Now' BY <2>1 DEF Data, Now
  <2>4. Later' BY <2>1, LaterStays, RollbackFits
  <2> QED BY <2>2, <2>3, <2>4 DEF Data
<1>4. ASSUME NEW i \in DOMAIN snapshots, t \in Ids(owner_ids), IsOldest(i, t),
             ~aborted => Returned(t, i, m), aborted => RolledBack(i)
      PROVE  Data'
  <2>1. /\ Len(snapshots) \in Nat /\ DOMAIN snapshots = 1..Len(snapshots)
        /\ i \in Nat /\ i >= 1
    BY <1>1, SnapshotsType DEF TypeOK
  <2>2. PICK n \in Nat : n = Len(snapshots) BY <2>1
  <2>3. PICK k \in Nat : k = i - 1 BY <2>1
  <2>4. 1..k \subseteq DOMAIN snapshots /\ 1..n = DOMAIN snapshots BY <2>1, <2>2, <2>3
  <2>5. ~Busy(status'[t]) /\ status'[t] \in {"committed", "aborted"} BY DEF Busy
  <2>6. \A d \in Transaction : call[d] = "none"
    <3> SUFFICES ASSUME NEW d \in Transaction, call[d] # "none" PROVE FALSE OBVIOUS
    <3>1. t \in Anc(d) BY <1>4, InFlightOwner
    <3>2. status'[d] = "running" BY DEF Structure, CallsOK
    <3>3. d # t BY <2>5, <3>2 DEF Busy
    <3> QED BY <1>1, <2>5, <3>1, <3>2, <3>3 DEF TreeOK, Busy
  <2>7. InFlightOK' BY <2>6 DEF InFlightOK
  <2>8. Numbered' BY DEF Data, Numbered
  <2>9. Consistent(status, made, done, loaded, Ids(owner_ids), {}, value, mode)
    BY DEF Data, Now
  <2>10. RollsTo(t, i) BY <1>4 DEF RollsTo
  <2>11. CASE ~aborted
    <3>1. Returned(t, i, m) BY <1>4, <2>11
    <3>2. /\ Parent[t] \in Transaction
          /\ Anc(t) = Anc(Parent[t]) \cup {t} /\ t \notin Anc(Parent[t])
      BY AncParent
    <3>3. Ids(owner_ids)' = Anc(Parent[t]) /\ mode' = m /\ value' = value /\ keys' = keys
      BY <3>1, <3>2, IdsOfChain DEF Returned
    <3>4. Now'
      <4>1. Consistent(status', made, done, loaded', Ids(owner_ids), {}, value, m)
        BY <1>2, <2>5, <2>9, ConsistentEnd
      <4>2. Anc(Parent[t]) \subseteq Ids(owner_ids) BY <1>1, <1>4, <3>2, OwnerIds
      <4>3. \A x \in Ids(owner_ids) : status'[x] # "aborted"
        <5> SUFFICES ASSUME NEW x \in Ids(owner_ids), x # t, x # Root
                     PROVE  status'[x] # "aborted"
          BY <1>1, <2>11 DEF TreeOK
        <5>1. x \in Transaction /\ x \in Nested BY <1>1, OwnerIds DEF Transaction
        <5>2. status[x] # "aborted" BY <3>1, <5>1 DEF Returned
        <5> QED BY <5>1, <5>2 DEF Off
      <4>4. \A x \in Ids(owner_ids) : Busy(status'[x]) => x \in Anc(Parent[t])
        BY <1>1, <1>4, <2>5, <3>2, AboveEnded
      <4>5. Consistent(status', made, done, loaded', Anc(Parent[t]), {}, value, m)
        BY <1>2, <4>1, <4>2, <4>3, <4>4, ConsistentNarrow
      <4> QED BY <3>3, <4>5 DEF Now
    <3>5. PICK l \in Nat : /\ 1..l \subseteq DOMAIN snapshots /\ DOMAIN snapshots' = 1..l
                           /\ \A j \in 1..l : snapshots'[j] = snapshots[j]
      <4>1. CASE snapshots' = snapshots BY <2>4, <4>1
      <4>2. CASE FirstLeft(i - 1) BY <2>3, <2>4, <4>2, LenProperties DEF FirstLeft
      <4> QED BY <3>1, <4>1, <4>2 DEF Returned
    <3>6. \A x \in Ids(owner_ids)' : x \in Anc(t) BY <3>2, <3>3
    <3>7. Later' /\ \A j \in DOMAIN snapshots' : KeysMatch(snapshots'[j].value, snapshots'[j].keys)
      BY <1>4, <2>5, <3>5, <3>6, LaterLeft
    <3>8. KeysOK' BY <3>3, <3>7 DEF Data, KeysOK
    <3> QED BY <2>7, <2>8, <3>4, <3>7, <3>8 DEF Data
  <2>12. CASE aborted
    <3>1. RolledBack(i) BY <1>4, <2>12
    <3>2. /\ Ids(owner_ids)' = Before(i) /\ mode' = snapshots[i].mode
          /\ value' = snapshots[i].value /\ keys' = keys \cap snapshots[i].keys
      BY <3>1 DEF RolledBack, Before
    <3>3. t \notin Before(i) /\ Before(i) \subseteq Anc(t) /\ Anc(t) \subseteq Ids(owner_ids)
      BY <2>10, RollbackAbove
    <3>4. Consistent(status, made, done, loaded, Before(i), {t}, snapshots[i].value,
                     snapshots[i].mode)
      BY <2>10, RollbackFits
    <3>5. Now'
      <4>1. Consistent(status', made, done, loaded', Before(i), {}, snapshots[i].value,
                       snapshots[i].mode)
        BY <1>2, <2>12, <3>3, <3>4, ConsistentRollback
      <4> QED BY <3>2, <4>1 DEF Now
    <3>6. DOMAIN snapshots' = 1..k /\ \A j \in 1..k : snapshots'[j] = snapshots[j]
      BY <2>3, <3>1, LenProperties DEF RolledBack, FirstLeft
    <3>7. \A x \in Ids(owner_ids)' : x \in Anc(t) BY <3>2, <3>3
    <3>8. Later' /\ \A j \in DOMAIN snapshots' : KeysMatch(snapshots'[j].value, snapshots'[j].keys)
      BY <1>4, <2>4, <2>5, <3>6, <3>7, LaterLeft
    <3>9. snapshots[i].value \subseteq value
      BY <2>9, <3>3, <3>4, ConsistentPart
    <3>10. KeysMatch(snapshots[i].value, keys \cap snapshots[i].keys)
      BY <3>9 DEF Data, KeysOK, KeysMatch
    <3>11. KeysOK' BY <3>2, <3>8, <3>10 DEF KeysOK
    <3> QED BY <2>7, <2>8, <3>5, <3>8, <3>11 DEF Data
  <2> QED BY <2>11, <2>12
<1> QED BY <1>1, <1>3, <1>4, RelinquishFacts

\* The end of a method of this state keeps the data.
LEMMA EndHereData ==
    ASSUME Structure, Structure', Data, NEW t \in Nested, NEW aborted \in BOOLEAN,
           EndHere(t, aborted), races' = {}
    PROVE  Data'
<1> USE DEF EndHere
<1>1. t \in Transaction /\ t # Root BY AncParent
<1>2. /\ Onward /\ status[t] = "running" /\ Off(t, status', status)
      /\ status'[t] = IF aborted THEN "aborted" ELSE "committed"
  BY <1>1, EndFacts DEF Off
<1>3. Off(t, loaded', loaded) BY <1>1 DEF Off, Structure, TypeOK
<1>4. PICK m : m = Completed(t) OBVIOUS
<1>5. relinquish_ownership(t, aborted, m) BY <1>4
<1>6. t \in Ids(owner_ids) BY <1>2 DEF Structure, OwnerOK, Busy
<1>7. m # "exclusive" => mode # "exclusive" /\ value = loaded[t]
  BY <1>4 DEF Completed, requires_exclusive
<1>8. m = "exclusive" => mode = "exclusive" \/ value # {}
  <2>1. loaded[t] \subseteq value BY <1>2, <1>6 DEF Data, Now, Consistent
  <2> QED BY <1>4, <2>1 DEF Completed, requires_exclusive
<1> QED BY <1>2, <1>3, <1>5, <1>6, <1>7, <1>8, RelinquishData

\* A request that arrives late, or again, keeps the data.
LEMMA RelinquishOwnershipData ==
    ASSUME Structure, Structure', Data, NEW r \in Request, RelinquishOwnership(r), races' = {}
    PROVE  Data'
<1> USE DEF RelinquishOwnership, bodyVars
<1>1. r.id \in Nested /\ r.aborted \in BOOLEAN BY DEF Request
<1>2. PICK t \in Nested : t = r.id BY <1>1
<1>3. PICK aborted \in BOOLEAN : aborted = r.aborted BY <1>1
<1>4. PICK m : m = mode OBVIOUS
<1>5. relinquish_ownership(t, aborted, m) BY <1>2, <1>3, <1>4
<1>6. status[t] = IF aborted THEN "aborted" ELSE "committed"
  BY <1>2, <1>3 DEF Structure, CallsOK
<1>7. Onward /\ Off(t, status', status) /\ Off(t, loaded', loaded) BY SameStatus DEF Off
<1> QED BY <1>4, <1>5, <1>6, <1>7, RelinquishData

-----------------------------------------------------------------------------
(* The invariant and what it implies.                                      *)

\* The data are right initially.
LEMMA InitData == Init => Data
<1> SUFFICES ASSUME Init PROVE Data OBVIOUS
<1> USE DEF Init
<1>1. \A d \in Transaction : call[d] = "none" /\ made[d] = 0 /\ loaded[d] = {} OBVIOUS
<1>2. DOMAIN snapshots = {} OBVIOUS
<1>3. InFlightOK BY <1>1 DEF InFlightOK
<1>4. KeysOK BY <1>2 DEF KeysOK, KeysMatch
<1>5. Numbered BY DEF Numbered
<1>6. mode # "exclusive" OBVIOUS
<1>7. Now BY <1>1, <1>6, HereAssumption DEF Now, Consistent
<1>8. Later BY <1>2 DEF Later
<1> QED BY <1>3, <1>4, <1>5, <1>7, <1>8 DEF Data

\* A race is never forgotten.
LEMMA RacesStay == ASSUME Structure, [Next]_vars PROVE races \subseteq races'
<1>1. ASSUME NEW t \in Transaction, Body(t) PROVE races \subseteq races'
  BY <1>1 DEF Body, StartCall, claim_ownership, Load, Store, EndCall, Mutate, Race
<1>2. ASSUME NEW t \in Nested, NestedBody(t) PROVE races \subseteq races'
  BY <1>2 DEF NestedBody, Start, StartHere, claim_ownership, Drained, EndElsewhere, EndHere,
     relinquish_ownership, Race
<1>3. ASSUME EndRoot PROVE races \subseteq races' BY <1>3 DEF EndRoot, Race
<1>4. ASSUME Prepare PROVE races \subseteq races' BY <1>4 DEF Prepare
<1>5. ASSUME NEW r \in Request, RelinquishOwnership(r) PROVE races \subseteq races'
  BY <1>5 DEF RelinquishOwnership, relinquish_ownership, Race
<1>6. CASE UNCHANGED vars BY <1>6 DEF vars
<1> QED BY <1>1, <1>2, <1>3, <1>4, <1>5, <1>6 DEF Next

\* Every step without a race keeps the data.
LEMMA NextData ==
    ASSUME Structure, Structure', Data, [Next]_vars, races' = {} PROVE Data'
<1>1. ASSUME NEW t \in Transaction, Body(t) PROVE Data'
  BY <1>1, StartCallData, LoadData, StoreData, EndCallData, MutateData DEF Body
<1>2. ASSUME NEW t \in Nested, NestedBody(t) PROVE Data'
  BY <1>2, StartData, StartHereData, DrainedData, EndElsewhereData, EndHereData
  DEF NestedBody
<1>3. ASSUME UNCHANGED <<owner_ids, snapshots, mode, value, keys, status, call, loaded, made, done>>
      PROVE  Data'
  <2>1. InFlightOK' /\ KeysOK' /\ Numbered' BY <1>3 DEF Data, InFlightOK, KeysOK, Numbered
  <2>2. Now' BY <1>3 DEF Data, Now
  <2>3. Later' BY <1>3, LaterStays, RollbackFits
  <2> QED BY <2>1, <2>2, <2>3 DEF Data
<1>4. ASSUME Prepare PROVE Data' BY <1>3, <1>4 DEF Prepare, participantVars, bodyVars
<1>5. CASE UNCHANGED vars BY <1>3, <1>5 DEF vars, participantVars, bodyVars
<1> QED BY <1>1, <1>2, <1>4, <1>5, EndRootData, RelinquishOwnershipData DEF Next

\* The invariant holds of every behaviour.
THEOREM OwnershipInductive == Spec => []OwnershipInv
<1>1. Init => OwnershipInv BY InitStructure, InitData DEF OwnershipInv
<1>2. OwnershipInv /\ [Next]_vars => OwnershipInv'
  <2> SUFFICES ASSUME OwnershipInv, [Next]_vars PROVE OwnershipInv' OBVIOUS
  <2>1. Structure /\ Structure' BY NextStructure DEF OwnershipInv
  <2>2. races' = {} => races = {} BY <2>1, RacesStay
  <2>3. races' = {} => Data' BY <2>1, <2>2, NextData DEF OwnershipInv
  <2> QED BY <2>1, <2>3 DEF OwnershipInv
<1> QED BY <1>1, <1>2, PTL DEF Spec

\* A state that nobody nested in an aborted transaction owns has what stands.
LEMMA StandingVisible ==
    ASSUME Structure, Data, \A x \in Ids(owner_ids) : status[x] # "aborted"
    PROVE  value = Standing /\ \A d \in Transaction :
              Visible(status, Ids(owner_ids), {}, d) <=> ~IsAborted(d)
<1> HIDE DEF transaction_ids
<1>1. \A d \in Transaction : IsAborted(d) <=> \E x \in Anc(d) : status[x] = "aborted"
  BY DEF IsAborted, Anc
<1>2. \A d \in Transaction : Visible(status, Ids(owner_ids), {}, d) <=> ~IsAborted(d)
  BY <1>1 DEF Visible
<1>3. \A m \in done : m[1] \in Transaction BY DoneMade DEF DoneBy
<1>4. value \subseteq done
      /\ \A m \in done : m \in value <=> Visible(status, Ids(owner_ids), {}, m[1])
  BY DEF Data, Now, Consistent
<1> QED BY <1>2, <1>3, <1>4 DEF Standing

\* What is prepared is owned by no nested transaction, and nobody runs.
LEMMA PreparedOwner ==
    ASSUME Structure, prepared
    PROVE  /\ \A x \in Ids(owner_ids) : status[x] # "aborted"
           /\ \A x \in Transaction : ~Busy(status[x])
<1>1. status[Root] = "committed" /\ Ids(owner_ids) \cap Nested = {} BY DEF Structure, OwnerOK
<1>2. \A x \in Ids(owner_ids) : x \in Transaction BY OwnerIds DEF Structure, OwnerOK
<1>3. \A x \in Ids(owner_ids) : x = Root BY <1>1, <1>2 DEF Transaction
<1>4. \A x \in Transaction : ~Busy(status[x]) BY <1>1, RootRuns DEF Structure
<1> QED BY <1>1, <1>3, <1>4

\* Whatever the order in which requests arrive, and however often: the
\* snapshot that a rollback needs is there, and unless a race has happened the
\* mode of what is prepared tells whether there are effects.
THEOREM SnapshotsAreExact == Spec => []SnapshotsExact
<1>1. OwnershipInv => SnapshotsExact
  <2> SUFFICES ASSUME OwnershipInv PROVE SnapshotsExact OBVIOUS
  <2>1. Structure BY DEF OwnershipInv
  <2>2. SnapshotPresent
    <3> SUFFICES ASSUME NEW t \in Nested, Contains(owner_ids, t)
                 PROVE  \E i \in DOMAIN snapshots : Contains(snapshots[i].transaction_ids, t)
      BY DEF SnapshotPresent
    <3>1. PICK j \in DOMAIN snapshots : t \in Within(j)
      BY <2>1, ContainsIds DEF Structure, OwnerOK
    <3> QED BY <3>1, ContainsIds DEF Within
  <2>3. ModeMatchesEffects
    <3> SUFFICES ASSUME prepared, races = {}
                 PROVE  /\ NothingElided
                        /\ mode = "exclusive" =>
                             \E t \in Transaction : made[t] > 0 /\ ~IsAborted(t)
      BY DEF ModeMatchesEffects
    <3>1. Data /\ Now BY DEF OwnershipInv, Data
    <3>2. \A x \in Transaction : ~Busy(status[x]) BY <2>1, PreparedOwner
    <3>3. value # {} => mode = "exclusive"
      BY <3>1, <3>2, HereAssumption DEF Now, Consistent, Busy
    <3>4. mode = "exclusive" => \E d \in Transaction : made[d] > 0
                                   /\ Visible(status, Ids(owner_ids), {}, d)
      BY <3>1 DEF Now, Consistent
    <3>5. \A d \in Transaction : Visible(status, Ids(owner_ids), {}, d) <=> ~IsAborted(d)
      BY <2>1, <3>1, PreparedOwner, StandingVisible
    <3> QED BY <3>3, <3>4, <3>5 DEF NothingElided
  <2> QED BY <2>1, <2>2, <2>3 DEF SnapshotsExact, Structure
<1> QED BY <1>1, OwnershipInductive, PTL

\* Unless a race has happened, what is prepared has every effect, key and task
\* of the transactions that did not abort and none of those that did.
THEOREM EffectsAreExact == Spec => []EffectsExact
<1>1. OwnershipInv => EffectsExact
  <2> SUFFICES ASSUME OwnershipInv, prepared, races = {}
               PROVE  /\ AbortedUndone /\ OthersKept /\ keys \subseteq Standing
                      /\ {m \in Standing : m[1] \notin Here} \subseteq keys
    BY DEF EffectsExact
  <2>1. Structure /\ Data BY DEF OwnershipInv
  <2>2. value = Standing BY <2>1, PreparedOwner, StandingVisible
  <2>3. KeysMatch(value, keys) BY <2>1 DEF Data, KeysOK
  <2> QED BY <2>2, <2>3 DEF AbortedUndone, OthersKept, KeysMatch
<1> QED BY <1>1, OwnershipInductive, PTL

\* Nor does a writer work on a copy with the effects of an aborted transaction,
\* or without those of one that did not abort.
THEOREM LoadsAreExact == Spec => []LoadsExact
<1>1. OwnershipInv => LoadsExact
  <2> SUFFICES ASSUME OwnershipInv, races = {}, NEW t \in Transaction, call[t] = "loaded"
               PROVE  loaded[t] = Standing
    BY DEF LoadsExact
  <2>1. Structure /\ Data BY DEF OwnershipInv
  <2>2. Ids(owner_ids) = Anc(t) /\ status[t] = "running" BY <2>1, InFlightOwner
  <2>3. \A x \in Anc(t) : status[x] # "aborted" BY <2>1, <2>2 DEF Structure, TreeOK, Busy
  <2>4. value = Standing BY <2>1, <2>2, <2>3, StandingVisible
  <2> QED BY <2>1, <2>4 DEF Data, InFlightOK
<1> QED BY <1>1, OwnershipInductive, PTL

\* While a method of this state runs nobody outside it has a call in flight.
THEOREM MethodsRunAlone == Spec => []MethodsAlone
<1>1. OwnershipInv => MethodsAlone BY DEF OwnershipInv, Structure
<1> QED BY <1>1, OwnershipInductive, PTL

=============================================================================
