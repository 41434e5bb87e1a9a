------------------------- MODULE PromptQueueProofs -------------------------
(***************************************************************************)
(* Theorems about PromptQueue, for any number of inputs, edits and         *)
(* notifications: the running turn is the front of the queue and runs the  *)
(* text it was started with, the pin names it, no prompt is lost or run    *)
(* twice, a queue that is not empty is driven, and no interjection is      *)
(* stranded.                                                               *)
(***************************************************************************)
EXTENDS PromptQueue, SequenceTheorems, FiniteSetTheorems, FunctionTheorems, TLAPS

-----------------------------------------------------------------------------
(* The kept positions of a queue, in order.                                *)

\* The positions of a finite sequence are finitely many.
LEMMA PositionsFinite ==
  ASSUME NEW n \in Nat, NEW K \in SUBSET (1..n)
  PROVE  IsFiniteSet(K) /\ Cardinality(K) \in Nat
<1>1. IsFiniteSet(1..n)
  BY FS_Interval
<1>2. IsFiniteSet(K)
  BY <1>1, FS_Subset
<1> QED BY <1>2, FS_CardinalityType

\* Any set of positions can be listed in increasing order: a position's place
\* is the number of positions up to it.
LEMMA Enumeration ==
  ASSUME NEW n \in Nat, NEW K \in SUBSET (1..n)
  PROVE  \E f \in [1..Cardinality(K) -> K] :
           \A j, k \in 1..Cardinality(K) : j < k => f[j] < f[k]
<1> DEFINE c == Cardinality(K)
           Up(x) == {y \in K : y <= x}
<1>0. \A x \in K : x \in Nat /\ x >= 1
  OBVIOUS
<1>1. IsFiniteSet(K) /\ c \in Nat
  BY PositionsFinite
<1>2. \A x \in K : IsFiniteSet(Up(x)) /\ Cardinality(Up(x)) \in 1..c
  <2>1. SUFFICES ASSUME NEW x \in K
                 PROVE  IsFiniteSet(Up(x)) /\ Cardinality(Up(x)) \in 1..c
    OBVIOUS
  <2>2. Up(x) \in SUBSET K /\ x \in Up(x)
    OBVIOUS
  <2>3. IsFiniteSet(Up(x)) /\ Cardinality(Up(x)) <= c
    BY <1>1, <2>2, FS_Subset
  <2>4. Cardinality(Up(x)) \in Nat /\ Cardinality(Up(x)) # 0
    BY <2>2, <2>3, FS_CardinalityType, FS_EmptySet
  <2> QED BY <1>1, <2>3, <2>4
<1>3. \A x, z \in K : x < z => Cardinality(Up(x)) < Cardinality(Up(z))
  <2>1. SUFFICES ASSUME NEW x \in K, NEW z \in K, x < z
                 PROVE  Cardinality(Up(x)) < Cardinality(Up(z))
    OBVIOUS
  <2>2. Up(x) \in SUBSET Up(z) /\ z \in Up(z) /\ z \notin Up(x)
    <3>1. x \in Nat /\ z \in Nat /\ \A y \in K : y <= x => y <= z
      BY <1>0, <2>1
    <3>2. z <= z /\ ~(z <= x)
      BY <2>1, <3>1
    <3> QED BY <3>1, <3>2
  <2>3. /\ Cardinality(Up(x)) <= Cardinality(Up(z))
        /\ Cardinality(Up(z)) = Cardinality(Up(x)) => Up(z) = Up(x)
    BY <1>2, <2>2, FS_Subset
  <2>4. Cardinality(Up(x)) # Cardinality(Up(z))
    BY <2>2, <2>3
  <2> QED BY <1>2, <2>3, <2>4
<1> DEFINE rank == [x \in K |-> Cardinality(Up(x))]
<1>4. rank \in [K -> 1..c] /\ \A x, z \in K : x < z => rank[x] < rank[z]
  BY <1>2, <1>3
<1> HIDE DEF rank, Up
<1>5. rank \in Injection(K, 1..c)
  <2>1. \A x, z \in K : rank[x] = rank[z] => x = z
    BY <1>1, <1>4
  <2> QED BY <1>4, <2>1, Fun_IsInj
<1>6. rank \in Surjection(K, 1..c)
  <2>1. IsFiniteSet(1..c) /\ Cardinality(1..c) = c
    BY <1>1, FS_Interval
  <2> QED BY <1>1, <1>5, <2>1, FS_Injection
<1>7. \A j \in 1..c : \E x \in K : rank[x] = j
  BY <1>6 DEF Surjection
<1> DEFINE f == [j \in 1..c |-> CHOOSE x \in K : rank[x] = j]
<1>8. f \in [1..c -> K] /\ \A j \in 1..c : rank[f[j]] = j
  BY <1>7
<1> HIDE DEF f
<1>9. ASSUME NEW j \in 1..c, NEW k \in 1..c, j < k
      PROVE  f[j] < f[k]
  <2>1. f[j] \in K /\ f[k] \in K /\ rank[f[j]] = j /\ rank[f[k]] = k
    BY <1>8
  <2>2. ~(f[k] < f[j]) /\ f[k] # f[j]
    <3>1. f[k] < f[j] => k < j
      BY <1>4, <2>1
    <3>2. j \in Nat /\ k \in Nat
      OBVIOUS
    <3> QED BY <1>9, <2>1, <3>1, <3>2
  <2>3. f[j] \in Nat /\ f[k] \in Nat
    BY <1>0, <2>1
  <2> QED BY <2>2, <2>3
<1> QED BY <1>8, <1>9

\* Such a list has every position exactly once.
LEMMA EnumerationOnto ==
  ASSUME NEW n \in Nat, NEW K \in SUBSET (1..n), NEW f \in [1..Cardinality(K) -> K],
         \A j, k \in 1..Cardinality(K) : j < k => f[j] < f[k]
  PROVE  /\ \A j, k \in 1..Cardinality(K) : f[j] = f[k] => j = k
         /\ \A x \in K : \E j \in 1..Cardinality(K) : f[j] = x
         /\ 1 \in K => Cardinality(K) >= 1 /\ f[1] = 1
<1> DEFINE c == Cardinality(K)
<1>0. \A x \in K : x \in Nat /\ x >= 1
  OBVIOUS
<1>1. IsFiniteSet(K) /\ c \in Nat
  BY PositionsFinite
<1> HIDE DEF c
<1>2. \A j, k \in 1..c : f[j] = f[k] => j = k
  <2>1. SUFFICES ASSUME NEW j \in 1..c, NEW k \in 1..c, f[j] = f[k], j # k
                 PROVE  FALSE
    OBVIOUS
  <2>2. f[j] \in Nat /\ f[k] \in Nat
    BY <1>0 DEF c
  <2>3. j < k \/ k < j
    BY <1>1, <2>1
  <2> QED BY <2>1, <2>2, <2>3 DEF c
<1>3. f \in Surjection(1..c, K)
  <2>1. f \in Injection(1..c, K)
    BY <1>2, Fun_IsInj DEF c
  <2>2. Cardinality(1..c) = Cardinality(K)
    BY <1>1, FS_Interval DEF c
  <2> QED BY <1>1, <2>1, <2>2, FS_Injection
<1>4. \A x \in K : \E j \in 1..c : f[j] = x
  BY <1>3 DEF Surjection
<1>5. ASSUME 1 \in K
      PROVE  c >= 1 /\ f[1] = 1
  <2>1. PICK j \in 1..c : f[j] = 1
    BY <1>4, <1>5
  <2>2. c >= 1 /\ 1 \in 1..c
    BY <1>1
  <2>3. f[1] \in Nat /\ f[1] >= 1
    BY <1>0, <2>2 DEF c
  <2>4. j = 1 \/ 1 < j
    OBVIOUS
  <2> QED BY <2>1, <2>2, <2>3, <2>4 DEF c
<1> QED BY <1>2, <1>4, <1>5 DEF c

-----------------------------------------------------------------------------
(* What the operations on a queue do to it.                                *)

Items == [id : Ids, kind : {"prompt", "fallback", "wake", "inner"}, now : BOOLEAN,
          ver : 0..MaxEdits]

\* No two items have the same id.
Distinct(q) == \A m, n \in DOMAIN q : q[m].id = q[n].id => m = n

\* The same for a sequence of ids.
Apart(s) == \A m, n \in DOMAIN s : s[m] = s[n] => m = n

\* The queue without S: its items are queue items, the ones that are not in S
\* all there, in places of their own, and the front stays if it is kept.
LEMMA WithoutFacts ==
  ASSUME NEW S, queue \in Seq(Items)
  PROVE  /\ Without(S) \in Seq(Items)
         /\ ToSet(Without(S)) = {i \in ToSet(queue) : i.id \notin S}
         /\ Distinct(queue) => Distinct(Without(S))
         /\ queue # <<>> /\ queue[1].id \notin S =>
              Without(S) # <<>> /\ Without(S)[1] = queue[1]
<1>1. PICK K : K = {n \in DOMAIN queue : queue[n].id \notin S}
  OBVIOUS
<1>2. PICK c : c = Cardinality(K)
  OBVIOUS
<1>3. Len(queue) \in Nat /\ DOMAIN queue = 1..Len(queue) /\ K \in SUBSET (1..Len(queue))
      /\ queue \in [1..Len(queue) -> Items]
  BY <1>1, LenProperties
<1>4. c \in Nat
  BY <1>2, <1>3, PositionsFinite
<1>5. PICK f : f = CHOOSE g \in [1..c -> K] : \A j, k \in 1..c : j < k => g[j] < g[k]
  OBVIOUS
<1>6. f \in [1..c -> K] /\ \A j, k \in 1..c : j < k => f[j] < f[k]
  BY <1>2, <1>3, <1>5, Enumeration
<1>7. /\ \A j, k \in 1..c : f[j] = f[k] => j = k
      /\ \A x \in K : \E j \in 1..c : f[j] = x
      /\ 1 \in K => c >= 1 /\ f[1] = 1
  <2>1. /\ f \in [1..Cardinality(K) -> K]
        /\ \A j, k \in 1..Cardinality(K) : j < k => f[j] < f[k]
    BY <1>2, <1>6
  <2>2. /\ \A j, k \in 1..Cardinality(K) : f[j] = f[k] => j = k
        /\ \A x \in K : \E j \in 1..Cardinality(K) : f[j] = x
        /\ 1 \in K => Cardinality(K) >= 1 /\ f[1] = 1
    BY ONLY <1>3, <2>1, EnumerationOnto
  <2> QED BY <1>2, <2>2
<1>8. PICK w : w = [j \in 1..c |-> queue[f[j]]]
  OBVIOUS
<1>9. Without(S) = w
  BY <1>1, <1>2, <1>5, <1>8 DEF Without
<1>10. w \in [1..c -> Items] /\ \A j \in 1..c : w[j] = queue[f[j]] /\ f[j] \in K
  BY <1>3, <1>6, <1>8
<1>11. w \in Seq(Items) /\ DOMAIN w = 1..c
  BY <1>4, <1>10, SeqDef
<1>12. ToSet(w) = {i \in ToSet(queue) : i.id \notin S}
  <2>1. \A i \in ToSet(w) : i \in ToSet(queue) /\ i.id \notin S
    BY <1>1, <1>3, <1>10, <1>11 DEF ToSet
  <2>2. \A i \in ToSet(queue) : i.id \notin S => i \in ToSet(w)
    <3>1. SUFFICES ASSUME NEW n \in DOMAIN queue, queue[n].id \notin S
                   PROVE  queue[n] \in ToSet(w)
      BY DEF ToSet
    <3>2. PICK j \in 1..c : f[j] = n
      BY <1>1, <1>7, <3>1
    <3> QED BY <1>10, <1>11, <3>2 DEF ToSet
  <2> QED BY <2>1, <2>2
<1>13. Distinct(queue) => Distinct(w)
  BY <1>1, <1>3, <1>7, <1>10, <1>11 DEF Distinct
<1>14. ASSUME queue # <<>>, queue[1].id \notin S
       PROVE  w # <<>> /\ w[1] = queue[1]
  <2>1. 1 \in DOMAIN queue
    BY <1>3, <1>14, EmptySeq
  <2>2. c >= 1 /\ f[1] = 1
    BY <1>1, <1>7, <1>14, <2>1
  <2>3. 1 \in DOMAIN w /\ w[1] = queue[1]
    BY <1>4, <1>10, <1>11, <2>2
  <2>4. w # <<>>
    <3>1. DOMAIN w = 1..Len(w)
      BY <1>11, LenProperties
    <3>2. Len(<<>>) = 0
      BY EmptySeq
    <3> QED BY <2>3, <3>1, <3>2
  <2> QED BY <2>3, <2>4
<1> QED BY <1>9, <1>11, <1>12, <1>13, <1>14

\* Inserting an item at slot n.
LEMMA InsertAtFacts ==
  ASSUME NEW q \in Seq(Items), NEW n \in 1..(Len(q) + 1), NEW e \in Items
  PROVE  /\ InsertAt(q, n, e) \in Seq(Items)
         /\ ToSet(InsertAt(q, n, e)) = ToSet(q) \cup {e}
         /\ Distinct(q) /\ e.id \notin IdsOf(q) => Distinct(InsertAt(q, n, e))
         /\ InsertAt(q, n, e) # <<>>
         /\ n # 1 => q # <<>> /\ InsertAt(q, n, e)[1] = q[1]
<1>1. PICK a : a = SubSeq(q, 1, n - 1)
  OBVIOUS
<1>2. PICK b : b = SubSeq(q, n, Len(q))
  OBVIOUS
<1>3. PICK r : r = InsertAt(q, n, e)
  OBVIOUS
<1>4. Len(q) \in Nat /\ n \in Nat /\ n >= 1 /\ n <= Len(q) + 1 /\ DOMAIN q = 1..Len(q)
      /\ q \in [1..Len(q) -> Items]
  BY LenProperties
<1>5. /\ a \in Seq(Items) /\ Len(a) = n - 1 /\ \A i \in 1..(n - 1) : a[i] = q[i]
  <2>1. \A i \in 1..(n - 1) : q[i] \in Items
    BY <1>4
  <2>2. n - 1 \in Int /\ 1 \in Int
    BY <1>4
  <2>3. /\ a \in Seq(Items) /\ Len(a) = IF 1 <= n - 1 THEN (n - 1) - 1 + 1 ELSE 0
        /\ \A i \in 1..((n - 1) - 1 + 1) : a[i] = q[1 + i - 1]
    BY <1>1, <2>1, <2>2, SubSeqProperties
  <2> QED BY <1>4, <2>3
<1>6. /\ b \in Seq(Items) /\ Len(b) = Len(q) - n + 1
      /\ \A i \in 1..(Len(q) - n + 1) : b[i] = q[n + i - 1]
  <2>1. \A i \in n..Len(q) : q[i] \in Items
    BY <1>4
  <2>2. /\ b \in Seq(Items) /\ Len(b) = IF n <= Len(q) THEN Len(q) - n + 1 ELSE 0
        /\ \A i \in 1..(Len(q) - n + 1) : b[i] = q[n + i - 1]
    BY <1>2, <1>4, <2>1, SubSeqProperties
  <2> QED BY <1>4, <2>2
<1>7. PICK d : d = a \o <<e>>
  OBVIOUS
<1>8. r = d \o b
  BY <1>1, <1>2, <1>3, <1>7 DEF InsertAt
<1>9. /\ d \in Seq(Items) /\ Len(d) = n /\ \A i \in 1..(n - 1) : d[i] = q[i]
      /\ d[n] = e
  <2>1. d = Append(a, e)
    BY <1>5, <1>7, AppendIsConcat
  <2>2. /\ d \in Seq(Items) /\ Len(d) = Len(a) + 1 /\ \A i \in 1..Len(a) : d[i] = a[i]
        /\ d[Len(a) + 1] = e
    BY <1>5, <2>1, AppendProperties
  <2> QED BY <1>4, <1>5, <2>2
<1>10. /\ r \in Seq(Items) /\ Len(r) = Len(d) + Len(b)
       /\ \A i \in 1..(Len(d) + Len(b)) : r[i] = IF i <= Len(d) THEN d[i] ELSE b[i - Len(d)]
  BY ONLY <1>6, <1>8, <1>9, ConcatProperties
<1>11. /\ Len(r) = Len(q) + 1
       /\ \A i \in 1..(Len(q) + 1) : /\ i < n => r[i] = q[i]
                                     /\ i = n => r[i] = e
                                     /\ i > n => r[i] = q[i - 1]
  <2>1. Len(r) = Len(q) + 1
    BY <1>4, <1>6, <1>9, <1>10
  <2>2. SUFFICES ASSUME NEW i \in 1..(Len(q) + 1)
                 PROVE  /\ i < n => r[i] = q[i]
                        /\ i = n => r[i] = e
                        /\ i > n => r[i] = q[i - 1]
    BY <2>1
  <2>3. i \in 1..(Len(d) + Len(b)) /\ Len(d) = n /\ i \in Nat /\ i >= 1
    BY <1>4, <1>6, <1>9
  <2>4. ASSUME i < n
        PROVE  r[i] = q[i]
    <3>1. i <= Len(d) /\ i \in 1..(n - 1)
      BY <1>4, <2>3, <2>4
    <3> QED BY <1>9, <1>10, <2>3, <3>1
  <2>5. ASSUME i = n
        PROVE  r[i] = e
    BY <1>4, <1>9, <1>10, <2>3, <2>5
  <2>6. ASSUME i > n
        PROVE  r[i] = q[i - 1]
    <3>1. ~(i <= Len(d)) /\ i - n \in 1..(Len(q) - n + 1) /\ n + (i - n) - 1 = i - 1
      BY <1>4, <2>3, <2>6
    <3>2. r[i] = b[i - n]
      BY <1>10, <2>3, <3>1
    <3>3. b[i - n] = q[n + (i - n) - 1]
      BY <1>6, <3>1
    <3> QED BY <3>1, <3>2, <3>3
  <2> QED BY <2>4, <2>5, <2>6
<1>12. DOMAIN r = 1..(Len(q) + 1)
  BY <1>10, <1>11, LenProperties
<1>13. ToSet(r) = ToSet(q) \cup {e}
  <2>1. \A i \in DOMAIN r : r[i] \in ToSet(q) \cup {e}
    <3>1. SUFFICES ASSUME NEW i \in 1..(Len(q) + 1)
                   PROVE  r[i] \in ToSet(q) \cup {e}
      BY <1>12
    <3>2. CASE i < n
      <4>1. i \in DOMAIN q
        BY <1>4, <3>2
      <4> QED BY <1>11, <3>2, <4>1 DEF ToSet
    <3>3. CASE i = n
      BY <1>11, <3>3
    <3>4. CASE i > n
      <4>1. i - 1 \in DOMAIN q
        BY <1>4, <3>4
      <4> QED BY <1>11, <3>4, <4>1 DEF ToSet
    <3> QED BY <1>4, <3>2, <3>3, <3>4
  <2>2. \A i \in DOMAIN q : q[i] \in ToSet(r)
    <3>1. SUFFICES ASSUME NEW i \in 1..Len(q)
                   PROVE  q[i] \in ToSet(r)
      BY <1>4
    <3>2. CASE i < n
      <4>1. i \in DOMAIN r /\ r[i] = q[i]
        BY <1>4, <1>11, <1>12, <3>2
      <4> QED BY <4>1 DEF ToSet
    <3>3. CASE i >= n
      <4>1. i + 1 \in DOMAIN r /\ r[i + 1] = q[i]
        BY <1>4, <1>11, <1>12, <3>3
      <4> QED BY <4>1 DEF ToSet
    <3> QED BY <1>4, <3>2, <3>3
  <2>3. n \in DOMAIN r /\ r[n] = e
    BY <1>4, <1>11, <1>12
  <2> QED BY <2>1, <2>2, <2>3 DEF ToSet
<1>14. ASSUME Distinct(q), e.id \notin IdsOf(q)
       PROVE  Distinct(r)
  <2>1. \A i \in 1..Len(q) : q[i].id # e.id
    BY <1>4, <1>14 DEF IdsOf
  <2>2. \A i, j \in 1..Len(q) : q[i].id = q[j].id => i = j
    BY <1>4, <1>14 DEF Distinct
  <2> QED BY <1>4, <1>11, <1>12, <2>1, <2>2 DEF Distinct
<1>15. r # <<>>
  BY <1>4, <1>10, <1>11, EmptySeq
<1>16. ASSUME n # 1
       PROVE  q # <<>> /\ r[1] = q[1]
  <2>1. Len(q) >= 1 /\ 1 < n
    BY <1>4, <1>16
  <2> QED BY <1>4, <1>11, <2>1, EmptySeq
<1> QED BY <1>3, <1>10, <1>13, <1>14, <1>15, <1>16

\* Adding an item at the end.
LEMMA AppendFacts ==
  ASSUME NEW q \in Seq(Items), NEW e \in Items
  PROVE  /\ Append(q, e) \in Seq(Items)
         /\ ToSet(Append(q, e)) = ToSet(q) \cup {e}
         /\ Distinct(q) /\ e.id \notin IdsOf(q) => Distinct(Append(q, e))
         /\ Append(q, e) # <<>>
         /\ q # <<>> => Append(q, e)[1] = q[1]
<1>1. PICK r : r = Append(q, e)
  OBVIOUS
<1>2. /\ r \in Seq(Items) /\ r # <<>> /\ Len(r) = Len(q) + 1
      /\ \A i \in 1..Len(q) : r[i] = q[i]
      /\ r[Len(q) + 1] = e
  BY <1>1, AppendProperties
<1>3. Len(q) \in Nat /\ DOMAIN q = 1..Len(q) /\ DOMAIN r = 1..(Len(q) + 1)
  BY <1>2, LenProperties
<1>4. \A i \in 1..(Len(q) + 1) : i \in 1..Len(q) \/ i = Len(q) + 1
  BY <1>3
<1>5. ToSet(r) = ToSet(q) \cup {e}
  <2>1. \A i \in DOMAIN r : r[i] \in ToSet(q) \cup {e}
    BY <1>2, <1>3, <1>4 DEF ToSet
  <2>2. 1..Len(q) \subseteq DOMAIN r /\ Len(q) + 1 \in DOMAIN r
    BY <1>3
  <2> QED BY <1>2, <1>3, <2>1, <2>2 DEF ToSet
<1>6. ASSUME Distinct(q), e.id \notin IdsOf(q)
      PROVE  Distinct(r)
  <2>1. \A i \in 1..Len(q) : q[i].id # e.id
    BY <1>3, <1>6 DEF IdsOf
  <2>2. \A i, j \in 1..Len(q) : q[i].id = q[j].id => i = j
    BY <1>3, <1>6 DEF Distinct
  <2> QED BY <1>2, <1>3, <1>4, <2>1, <2>2 DEF Distinct
<1>7. ASSUME q # <<>>
      PROVE  r[1] = q[1]
  BY <1>2, <1>3, <1>7, EmptySeq
<1> QED BY <1>1, <1>2, <1>5, <1>6, <1>7

\* Dropping the first k items.
LEMMA DropFacts ==
  ASSUME NEW q \in Seq(Items), NEW k \in 0..Len(q)
  PROVE  /\ SubSeq(q, k + 1, Len(q)) \in Seq(Items)
         /\ ToSet(SubSeq(q, k + 1, Len(q))) \subseteq ToSet(q)
         /\ \A n \in DOMAIN q : n <= k \/ q[n] \in ToSet(SubSeq(q, k + 1, Len(q)))
         /\ Distinct(q) => /\ Distinct(SubSeq(q, k + 1, Len(q)))
                           /\ k >= 1 => q[1].id \notin IdsOf(SubSeq(q, k + 1, Len(q)))
<1>1. PICK r : r = SubSeq(q, k + 1, Len(q))
  OBVIOUS
<1>2. Len(q) \in Nat /\ DOMAIN q = 1..Len(q) /\ q \in [1..Len(q) -> Items]
      /\ k \in Nat /\ k <= Len(q)
  BY LenProperties
<1>3. /\ r \in Seq(Items) /\ DOMAIN r = 1..(Len(q) - k)
      /\ \A i \in 1..(Len(q) - k) : r[i] = q[k + i] /\ k + i \in DOMAIN q
  <2>1. \A i \in (k + 1)..Len(q) : q[i] \in Items
    BY <1>2
  <2>2. k + 1 \in Int /\ Len(q) \in Int
    BY <1>2
  <2>3. /\ r \in Seq(Items) /\ Len(r) = IF k + 1 <= Len(q) THEN Len(q) - (k + 1) + 1 ELSE 0
        /\ \A i \in 1..(Len(q) - (k + 1) + 1) : r[i] = q[(k + 1) + i - 1]
    BY <1>1, <2>1, <2>2, SubSeqProperties
  <2>4. Len(r) = Len(q) - k /\ Len(q) - (k + 1) + 1 = Len(q) - k
    <3>1. Len(q) - (k + 1) + 1 = Len(q) - k
      BY <1>2
    <3>2. CASE k + 1 <= Len(q)
      BY <2>3, <3>1, <3>2
    <3>3. CASE ~(k + 1 <= Len(q))
      <4>1. Len(q) \in Int /\ k \in Int /\ k <= Len(q) /\ ~(k + 1 <= Len(q))
        BY <1>2, <3>3
      <4>2. Len(q) = k
        BY ONLY <4>1
      <4> QED BY <1>2, <2>3, <3>1, <3>3, <4>2
    <3> QED BY <3>2, <3>3
  <2>5. DOMAIN r = 1..(Len(q) - k)
    BY <2>3, <2>4, LenProperties
  <2>6. \A i \in 1..(Len(q) - k) : (k + 1) + i - 1 = k + i /\ k + i \in 1..Len(q)
    BY <1>2
  <2> QED BY <1>2, <2>3, <2>4, <2>5, <2>6
<1>4. ToSet(r) \subseteq ToSet(q)
  BY <1>3 DEF ToSet
<1>5. ASSUME NEW n \in DOMAIN q, ~(n <= k)
      PROVE  q[n] \in ToSet(r)
  <2>1. n - k \in 1..(Len(q) - k) /\ k + (n - k) = n
    BY <1>2, <1>5
  <2>2. r[n - k] = q[n]
    BY <1>3, <2>1
  <2> QED BY <1>3, <2>1, <2>2 DEF ToSet
<1>6. ASSUME Distinct(q)
      PROVE  Distinct(r) /\ (k >= 1 => q[1].id \notin IdsOf(r))
  <2>1. \A i, j \in 1..Len(q) : q[i].id = q[j].id => i = j
    BY <1>2, <1>6 DEF Distinct
  <2>2. Distinct(r)
    <3>1. SUFFICES ASSUME NEW i \in 1..(Len(q) - k), NEW j \in 1..(Len(q) - k), r[i].id = r[j].id
                   PROVE  i = j
      BY <1>3 DEF Distinct
    <3>2. k + i = k + j
      BY <1>2, <1>3, <2>1, <3>1
    <3> QED BY <1>2, <3>2
  <2>3. ASSUME k >= 1, NEW i \in 1..(Len(q) - k)
        PROVE  q[1].id # r[i].id
    <3>1. k + i # 1 /\ 1 \in 1..Len(q)
      BY <1>2, <2>3
    <3> QED BY <1>2, <1>3, <2>1, <3>1
  <2> QED BY <1>3, <2>2, <2>3 DEF IdsOf
<1> QED BY <1>1, <1>3, <1>4, <1>5, <1>6

\* Taking item n out.
LEMMA RemoveAtFacts ==
  ASSUME NEW q \in Seq(Items), NEW n \in DOMAIN q
  PROVE  /\ RemoveAt(q, n) \in Seq(Items)
         /\ ToSet(RemoveAt(q, n)) \cup {q[n]} = ToSet(q)
         /\ Distinct(q) => Distinct(RemoveAt(q, n)) /\ q[n].id \notin IdsOf(RemoveAt(q, n))
         /\ n # 1 => RemoveAt(q, n) # <<>> /\ RemoveAt(q, n)[1] = q[1]
<1>1. PICK a : a = SubSeq(q, 1, n - 1)
  OBVIOUS
<1>2. PICK b : b = SubSeq(q, n + 1, Len(q))
  OBVIOUS
<1>3. PICK r : r = RemoveAt(q, n)
  OBVIOUS
<1>4. Len(q) \in Nat /\ n \in Nat /\ n >= 1 /\ n <= Len(q) /\ DOMAIN q = 1..Len(q)
      /\ q \in [1..Len(q) -> Items]
  BY LenProperties
<1>5. /\ a \in Seq(Items) /\ Len(a) = n - 1 /\ \A i \in 1..(n - 1) : a[i] = q[i]
  <2>1. \A i \in 1..(n - 1) : q[i] \in Items
    BY <1>4
  <2>2. n - 1 \in Int /\ 1 \in Int
    BY <1>4
  <2>3. /\ a \in Seq(Items) /\ Len(a) = IF 1 <= n - 1 THEN (n - 1) - 1 + 1 ELSE 0
        /\ \A i \in 1..((n - 1) - 1 + 1) : a[i] = q[1 + i - 1]
    BY <1>1, <2>1, <2>2, SubSeqProperties
  <2> QED BY <1>4, <2>3
<1>6. /\ b \in Seq(Items) /\ Len(b) = Len(q) - n
      /\ \A i \in 1..(Len(q) - n) : b[i] = q[n + i]
  <2>1. \A i \in (n + 1)..Len(q) : q[i] \in Items
    BY <1>4
  <2>2. n + 1 \in Int /\ Len(q) \in Int
    BY <1>4
  <2>3. /\ b \in Seq(Items) /\ Len(b) = IF n + 1 <= Len(q) THEN Len(q) - (n + 1) + 1 ELSE 0
        /\ \A i \in 1..(Len(q) - (n + 1) + 1) : b[i] = q[(n + 1) + i - 1]
    BY <1>2, <2>1, <2>2, SubSeqProperties
  <2>4. Len(q) - (n + 1) + 1 = Len(q) - n /\ \A i \in 1..(Len(q) - n) : (n + 1) + i - 1 = n + i
    BY <1>4
  <2> QED BY <1>4, <2>3, <2>4
<1>7. r = a \o b
  BY <1>1, <1>2, <1>3 DEF RemoveAt
<1>8. /\ r \in Seq(Items) /\ Len(r) = Len(a) + Len(b)
      /\ \A i \in 1..(Len(a) + Len(b)) : r[i] = IF i <= Len(a) THEN a[i] ELSE b[i - Len(a)]
  BY ONLY <1>5, <1>6, <1>7, ConcatProperties
<1>9. DOMAIN r = 1..(Len(q) - 1)
  <2>1. Len(r) = Len(q) - 1
    BY <1>4, <1>5, <1>6, <1>8
  <2> QED BY <1>8, <2>1, LenProperties
<1>10. \A i \in 1..(Len(q) - 1) : /\ i < n => r[i] = q[i]
                                  /\ i >= n => r[i] = q[i + 1]
  <2>1. SUFFICES ASSUME NEW i \in 1..(Len(q) - 1)
                 PROVE  /\ i < n => r[i] = q[i]
                        /\ i >= n => r[i] = q[i + 1]
    OBVIOUS
  <2>2. i \in 1..(Len(a) + Len(b)) /\ i \in Nat /\ i >= 1 /\ Len(a) = n - 1
    BY <1>4, <1>5, <1>6
  <2>3. ASSUME i < n
        PROVE  r[i] = q[i]
    <3>1. i <= Len(a) /\ i \in 1..(n - 1)
      BY <1>4, <2>2, <2>3
    <3> QED BY <1>5, <1>8, <2>2, <3>1
  <2>4. ASSUME i >= n
        PROVE  r[i] = q[i + 1]
    <3>1. ~(i <= Len(a)) /\ i - Len(a) \in 1..(Len(q) - n) /\ n + (i - Len(a)) = i + 1
      BY <1>4, <2>2, <2>4
    <3>2. r[i] = b[i - Len(a)]
      BY <1>8, <2>2, <3>1
    <3>3. b[i - Len(a)] = q[n + (i - Len(a))]
      BY <1>6, <3>1
    <3> QED BY <3>1, <3>2, <3>3
  <2> QED BY <2>3, <2>4
<1>11. ToSet(r) \cup {q[n]} = ToSet(q)
  <2>1. \A i \in DOMAIN r : r[i] \in ToSet(q)
    <3>1. SUFFICES ASSUME NEW i \in 1..(Len(q) - 1)
                   PROVE  r[i] \in ToSet(q)
      BY <1>9
    <3>2. i \in DOMAIN q /\ i + 1 \in DOMAIN q
      BY <1>4
    <3> QED BY <1>4, <1>10, <3>2 DEF ToSet
  <2>2. \A i \in DOMAIN q : q[i] \in ToSet(r) \cup {q[n]}
    <3>1. SUFFICES ASSUME NEW i \in 1..Len(q)
                   PROVE  q[i] \in ToSet(r) \cup {q[n]}
      BY <1>4
    <3>2. CASE i < n
      <4>1. i \in DOMAIN r /\ r[i] = q[i]
        BY <1>4, <1>9, <1>10, <3>2
      <4> QED BY <4>1 DEF ToSet
    <3>3. CASE i > n
      <4>1. i - 1 \in 1..(Len(q) - 1) /\ i - 1 >= n /\ (i - 1) + 1 = i
        BY <1>4, <3>3
      <4>2. r[i - 1] = q[i]
        BY <1>10, <4>1
      <4> QED BY <1>9, <4>1, <4>2 DEF ToSet
    <3> QED BY <1>4, <3>2, <3>3
  <2> QED BY <2>1, <2>2 DEF ToSet
<1>12. ASSUME Distinct(q)
       PROVE  Distinct(r) /\ q[n].id \notin IdsOf(r)
  <2>1. \A i, j \in 1..Len(q) : q[i].id = q[j].id => i = j
    BY <1>4, <1>12 DEF Distinct
  <2>2. \A i \in 1..(Len(q) - 1) : i \in 1..Len(q) /\ i + 1 \in 1..Len(q)
    BY <1>4
  <2>3. Distinct(r)
    <3>1. SUFFICES ASSUME NEW i \in 1..(Len(q) - 1), NEW j \in 1..(Len(q) - 1), r[i].id = r[j].id
                   PROVE  i = j
      BY <1>9 DEF Distinct
    <3>2. PICK x \in 1..Len(q) : x = IF i < n THEN i ELSE i + 1
      BY <2>2
    <3>3. PICK y \in 1..Len(q) : y = IF j < n THEN j ELSE j + 1
      BY <2>2
    <3>4. r[i] = q[x] /\ r[j] = q[y]
      BY <1>4, <1>10, <3>2, <3>3
    <3>5. x = y
      BY <2>1, <3>1, <3>4
    <3> QED BY <1>4, <3>2, <3>3, <3>5
  <2>4. ASSUME NEW i \in 1..(Len(q) - 1)
        PROVE  r[i].id # q[n].id
    <3>1. PICK x \in 1..Len(q) : x = IF i < n THEN i ELSE i + 1
      BY <2>2
    <3>2. r[i] = q[x] /\ x # n
      BY <1>4, <1>10, <3>1
    <3> QED BY <1>4, <2>1, <3>2
  <2> QED BY <1>9, <2>3, <2>4 DEF IdsOf
<1>13. ASSUME n # 1
       PROVE  r # <<>> /\ r[1] = q[1]
  <2>1. 1 \in 1..(Len(q) - 1) /\ 1 < n
    BY <1>4, <1>13
  <2>2. r[1] = q[1] /\ DOMAIN r = 1..Len(r) /\ Len(<<>>) = 0
    BY <1>8, <1>10, <2>1, LenProperties, EmptySeq
  <2> QED BY <1>9, <2>1, <2>2
<1> QED BY <1>3, <1>8, <1>11, <1>12, <1>13

\* Both slots are slots of the queue, and behind the running front.
LEMMA FrontSlotFacts ==
  ASSUME queue \in Seq(Items)
  PROVE  /\ FrontSlot \in 1..(Len(queue) + 1)
         /\ queue # <<>> /\ queue[1].id = task => FrontSlot # 1
<1>1. Len(queue) \in Nat /\ (queue # <<>> => Len(queue) >= 1)
  BY LenProperties, EmptySeq
<1> QED BY <1>1 DEF FrontSlot

LEMMA NowSlotFacts ==
  ASSUME NEW q \in Seq(Items)
  PROVE  /\ NowSlot(q) \in 1..(Len(q) + 1)
         /\ q # <<>> /\ q[1].id = task => NowSlot(q) # 1
<1>1. PICK s : s = IF q # <<>> /\ q[1].id = task THEN 2 ELSE 1
  OBVIOUS
<1>2. Len(q) \in Nat /\ (q # <<>> => Len(q) >= 1)
  BY LenProperties, EmptySeq
<1>3. s \in {1, 2} /\ s <= Len(q) + 1
  BY <1>1, <1>2
<1>4. PICK X : X = {n \in s..(Len(q) + 1) : n > Len(q) \/ ~q[n].now}
  OBVIOUS
<1>5. X \subseteq Nat /\ X # {}
  <2>1. Len(q) + 1 \in X
    BY <1>2, <1>3, <1>4
  <2> QED BY <1>2, <1>3, <1>4, <2>1
<1>6. PICK n \in X : \A m \in X : ~(<<m, n>> \in OpToRel(<, Nat))
  BY <1>5, NatLessThanWellFounded, WFMin
<1>7. \A m \in X : ~(m < n)
  BY <1>5, <1>6 DEF OpToRel
<1>8. n \in s..(Len(q) + 1) /\ (n > Len(q) \/ ~q[n].now)
  BY <1>4
<1>9. \A k \in s..(n - 1) : q[k].now
  <2>1. SUFFICES ASSUME NEW k \in s..(n - 1), ~q[k].now
                 PROVE  FALSE
    OBVIOUS
  <2>2. k \in s..(Len(q) + 1) /\ k < n
    BY <1>2, <1>3, <1>8
  <2> QED BY <1>4, <1>7, <2>1, <2>2
<1>10. NowSlot(q) \in s..(Len(q) + 1)
  <2>1. \E m \in s..(Len(q) + 1) : /\ m > Len(q) \/ ~q[m].now
                                  /\ \A k \in s..(m - 1) : q[k].now
    BY <1>8, <1>9
  <2>2. NowSlot(q) = CHOOSE m \in s..(Len(q) + 1) : /\ m > Len(q) \/ ~q[m].now
                                                 /\ \A k \in s..(m - 1) : q[k].now
    BY <1>1 DEF NowSlot
  <2> QED BY <2>1, <2>2
<1>11. q # <<>> /\ q[1].id = task => s = 2
  BY <1>1
<1> QED BY <1>2, <1>3, <1>10, <1>11

\* The ids of a queue are those of its items.
LEMMA IdsOfToSet ==
  ASSUME NEW q
  PROVE  IdsOf(q) = {i.id : i \in ToSet(q)}
BY DEF IdsOf, ToSet

\* handle_reorder_queue: the rows a client may edit, in any order, behind
\* everything else.
LEMMA ReorderFacts ==
  ASSUME queue \in Seq(Items), Distinct(queue), NEW order \in SetToSeqs(Rows),
         NEW r, r = Without(Rows) \o
                    [n \in DOMAIN order |-> CHOOSE i \in ToSet(queue) : i.id = order[n]],
         task # None => queue # <<>> /\ queue[1].id = task
  PROVE  /\ r \in Seq(Items)
         /\ ToSet(r) = ToSet(queue)
         /\ Distinct(r)
         /\ task # None => r # <<>> /\ r[1] = queue[1]
<1>1. PICK w : w = Without(Rows)
  OBVIOUS
<1>2. /\ w \in Seq(Items) /\ ToSet(w) = {i \in ToSet(queue) : i.id \notin Rows} /\ Distinct(w)
      /\ task # None => w # <<>> /\ w[1] = queue[1]
  <2>1. task # None => queue[1].id \notin Rows
    BY DEF Rows
  <2> QED BY <1>1, <2>1, WithoutFacts
<1>3. Len(queue) \in Nat /\ DOMAIN queue = 1..Len(queue) /\ queue \in [1..Len(queue) -> Items]
  BY LenProperties
<1>4. \A id \in Rows : \E i \in ToSet(queue) : i.id = id
  BY DEF Rows
<1>5. IsFiniteSet(Rows)
  <2>1. Rows \in SUBSET (1..MaxItems) /\ MaxItems \in Nat
    BY <1>3, QueueAssumption DEF Rows, ToSet, Items, Ids
  <2> QED BY <2>1, PositionsFinite
<1>6. PICK c \in Nat : c = Cardinality(Rows)
  BY <1>5, FS_CardinalityType
<1>7. order \in [1..c -> Rows] /\ \A i, j \in 1..c : order[i] = order[j] => i = j
  BY <1>6 DEF SetToSeqs
<1>8. \A id \in Rows : \E n \in 1..c : order[n] = id
  <2>1. order \in Injection(1..c, Rows)
    BY <1>7, Fun_IsInj
  <2>2. Cardinality(1..c) = Cardinality(Rows)
    BY <1>6, FS_Interval
  <2>3. order \in Surjection(1..c, Rows)
    BY <1>5, <2>1, <2>2, FS_Injection
  <2> QED BY <2>3 DEF Surjection
<1>9. PICK o : o = [n \in DOMAIN order |-> CHOOSE i \in ToSet(queue) : i.id = order[n]]
  OBVIOUS
<1>10. \A n \in 1..c : o[n] \in ToSet(queue) /\ o[n].id = order[n] /\ order[n] \in Rows
  BY <1>4, <1>7, <1>9
<1>11. o \in Seq(Items) /\ DOMAIN o = 1..c /\ Len(o) = c
  <2>1. o \in [1..c -> Items]
    <3>1. \A n \in 1..c : o[n] \in Items
      BY <1>3, <1>10 DEF ToSet
    <3>2. o = [n \in 1..c |-> o[n]]
      BY <1>7, <1>9
    <3> QED BY <3>1, <3>2
  <2>2. o \in Seq(Items)
    BY <2>1, SeqDef
  <2>3. DOMAIN o = 1..c /\ DOMAIN o = 1..Len(o) /\ Len(o) \in Nat
    BY <2>1, <2>2, LenProperties
  <2> QED BY <2>2, <2>3
<1>12. \A i \in ToSet(queue) : \A j \in ToSet(queue) : i.id = j.id => i = j
  BY DEF Distinct, ToSet
<1>13. /\ r \in Seq(Items) /\ Len(r) = Len(w) + c
       /\ \A n \in 1..(Len(w) + c) : r[n] = IF n <= Len(w) THEN w[n] ELSE o[n - Len(w)]
  BY <1>1, <1>2, <1>9, <1>11, ConcatProperties
<1>14. Len(w) \in Nat /\ DOMAIN w = 1..Len(w) /\ DOMAIN r = 1..(Len(w) + c)
  BY <1>2, <1>13, LenProperties
<1>15. /\ \A n \in 1..Len(w) : n \in DOMAIN r /\ r[n] = w[n]
       /\ \A n \in 1..c : n + Len(w) \in DOMAIN r /\ r[n + Len(w)] = o[n]
       /\ \A m \in DOMAIN r : m \in 1..Len(w) \/ \E n \in 1..c : m = n + Len(w)
  <2>1. \A n \in 1..Len(w) : n \in DOMAIN r /\ r[n] = w[n]
    <3>1. SUFFICES ASSUME NEW n \in 1..Len(w)
                   PROVE  n \in DOMAIN r /\ r[n] = w[n]
      OBVIOUS
    <3>2. n \in 1..(Len(w) + c) /\ n <= Len(w)
      BY <1>6, <1>14
    <3> QED BY <1>13, <1>14, <3>2
  <2>2. \A n \in 1..c : n + Len(w) \in DOMAIN r /\ r[n + Len(w)] = o[n]
    <3>1. SUFFICES ASSUME NEW n \in 1..c
                   PROVE  n + Len(w) \in DOMAIN r /\ r[n + Len(w)] = o[n]
      OBVIOUS
    <3>2. n + Len(w) \in 1..(Len(w) + c) /\ ~(n + Len(w) <= Len(w)) /\ (n + Len(w)) - Len(w) = n
      BY <1>6, <1>14
    <3> QED BY <1>13, <1>14, <3>2
  <2>3. ASSUME NEW m \in DOMAIN r, m \notin 1..Len(w)
        PROVE  \E n \in 1..c : m = n + Len(w)
    <3>1. m - Len(w) \in 1..c /\ m = (m - Len(w)) + Len(w)
      BY <1>6, <1>14, <2>3
    <3> QED BY <3>1
  <2> QED BY <2>1, <2>2, <2>3
<1>16. ToSet(r) = ToSet(queue)
  <2>1. \A m \in DOMAIN r : r[m] \in ToSet(queue)
    <3>1. SUFFICES ASSUME NEW m \in DOMAIN r
                   PROVE  r[m] \in ToSet(queue)
      OBVIOUS
    <3>2. CASE m \in 1..Len(w)
      <4>1. r[m] \in ToSet(w)
        BY <1>14, <1>15, <3>2 DEF ToSet
      <4> QED BY <1>2, <4>1
    <3>3. CASE m \notin 1..Len(w)
      BY <1>10, <1>15, <3>3
    <3> QED BY <3>2, <3>3
  <2>2. \A i \in ToSet(queue) : i \in ToSet(r)
    <3>1. SUFFICES ASSUME NEW i \in ToSet(queue)
                   PROVE  i \in ToSet(r)
      OBVIOUS
    <3>2. CASE i.id \in Rows
      <4>1. PICK n \in 1..c : order[n] = i.id
        BY <1>8, <3>2
      <4>2. o[n] = i
        BY <1>10, <1>12, <4>1
      <4> QED BY <1>15, <4>2 DEF ToSet
    <3>3. CASE i.id \notin Rows
      <4>1. i \in ToSet(w)
        BY <1>2, <3>3
      <4> QED BY <1>14, <1>15, <4>1 DEF ToSet
    <3> QED BY <3>2, <3>3
  <2> QED BY <2>1, <2>2 DEF ToSet
<1>17. Distinct(r)
  <2>1. \A m, n \in 1..Len(w) : w[m].id = w[n].id => m = n
    BY <1>2, <1>14 DEF Distinct
  <2>2. \A m \in 1..Len(w) : w[m].id \notin Rows
    BY <1>2, <1>14 DEF ToSet
  <2>3. SUFFICES ASSUME NEW x \in DOMAIN r, NEW y \in DOMAIN r, r[x].id = r[y].id
                 PROVE  x = y
    BY DEF Distinct
  <2>4. CASE x \in 1..Len(w) /\ y \in 1..Len(w)
    BY <1>15, <2>1, <2>3, <2>4
  <2> DEFINE Back(z) == \E n \in 1..c : z = n + Len(w) /\ r[z].id = order[n] /\ r[z].id \in Rows
  <2>a. \A z \in DOMAIN r : z \notin 1..Len(w) => Back(z)
    <3>1. SUFFICES ASSUME NEW z \in DOMAIN r, z \notin 1..Len(w)
                   PROVE  Back(z)
      OBVIOUS
    <3>2. PICK n \in 1..c : z = n + Len(w)
      BY <1>15, <3>1
    <3>3. r[z] = o[n] /\ o[n].id = order[n] /\ order[n] \in Rows
      BY <1>10, <1>15, <3>2
    <3> QED BY <3>2, <3>3
  <2>b. \A z \in 1..Len(w) : r[z].id \notin Rows
    BY <1>15, <2>2
  <2>5. CASE x \notin 1..Len(w) /\ y \notin 1..Len(w)
    <3>1. PICK m \in 1..c : x = m + Len(w) /\ r[x].id = order[m]
      BY <2>a, <2>5
    <3>2. PICK n \in 1..c : y = n + Len(w) /\ r[y].id = order[n]
      BY <2>a, <2>5
    <3> QED BY <1>7, <2>3, <3>1, <3>2
  <2>6. CASE x \in 1..Len(w) /\ y \notin 1..Len(w)
    BY <2>a, <2>b, <2>3, <2>6
  <2>7. CASE x \notin 1..Len(w) /\ y \in 1..Len(w)
    BY <2>a, <2>b, <2>3, <2>7
  <2> QED BY <2>4, <2>5, <2>6, <2>7
<1>18. ASSUME task # None
       PROVE  r # <<>> /\ r[1] = queue[1]
  <2>1. Len(w) >= 1
    BY <1>2, <1>14, <1>18, EmptySeq
  <2>2. 1 \in 1..Len(w)
    BY <1>14, <2>1
  <2>3. r[1] = w[1] /\ Len(r) >= 1
    BY <1>6, <1>13, <1>14, <1>15, <2>1, <2>2
  <2>4. Len(<<>>) = 0
    BY EmptySeq
  <2> QED BY <1>2, <1>18, <2>3, <2>4
<1> QED BY <1>13, <1>16, <1>17, <1>18

-----------------------------------------------------------------------------
(* The inductive invariant.                                                *)

Jobs == [pc : {"idle", "start", "startDrain", "drain", "cancel", "cancelled", "complete",
               "flush", "strand"},
         ids : Seq(Ids), taken : Ids \cup {None},
         why : {"none", "send_now", "esc", "rewind", "hard"}]

\* Types, with the one bound the notifications and the monitor events share.
SchedInv ==
  /\ queue \in Seq(Items)
  /\ task \in Ids \cup {None} /\ pin \in Ids \cup {None}
  /\ DOMAIN live \subseteq Ids /\ \A t \in DOMAIN live : live[t] \in {"run", "tail"}
  /\ done \in Seq(Ids) /\ inter \in Seq(Ids)
  /\ job \in Jobs
  /\ starters \subseteq {"mcp", "plan", "planStart"}
  /\ minted \in 0..MaxItems /\ ran \in 0..MaxEdits

NoteInv == notes \in Nat /\ events \in Nat /\ notes + events <= MaxNotes

FlagInv == suppressed \in BOOLEAN /\ rewindable \in BOOLEAN /\ gate \in BOOLEAN /\ waits \in BOOLEAN

TypeInv == SchedInv /\ NoteInv /\ FlagInv

\* The running turn is the front with the text it was started with, the pin
\* names it, and nothing else in the queue was started.
TurnInv ==
  /\ task # None => queue # <<>> /\ queue[1].id = task /\ queue[1].ver = ran
  /\ pin # None /\ task # None => pin = task
  /\ IdsOf(queue) \cap started \subseteq {task}
  /\ task # None => task \in started

\* An id is in the queue once, and every id anybody knows has arrived.
IdInv ==
  /\ Distinct(queue)
  /\ IdsOf(queue) \cup ToSet(inter) \cup ToSet(job.ids) \subseteq 1..minted
  /\ started \cup asked \cup replies \cup told \cup delivered \cup reported \subseteq 1..minted

\* A buffered interjection is not queued and was not started, neither while
\* it waits nor while it is being flushed.
StrandInv ==
  /\ Apart(inter)
  /\ ToSet(inter) \cap (IdsOf(queue) \cup started) = {}
  /\ job.pc = "strand" => Apart(job.ids) /\ ToSet(job.ids) \cap (IdsOf(queue) \cup started) = {}

\* What is swept was not asked by a client, and an asked prompt is answered,
\* queued or in the hands of a cancel.
AskInv ==
  /\ \A i \in ToSet(queue) : Synthetic(i) => i.id \notin asked
  /\ (delivered \cup reported) \cap asked = {}
  /\ PromptKept

\* What a handler of the loop holds between two of its steps.
JobInv ==
  /\ job.pc \notin {"cancelled", "strand"} => job.ids = <<>>
  /\ job.pc \in {"cancel", "cancelled", "strand"} => inter = <<>>
  /\ job.pc = "cancelled" => /\ job.taken \in started \cup {None}
                             /\ job.taken # None => job.taken # task

\* Who drives the queue, the pin and the interjections.
DriveInv ==
  /\ QueueIsDriven
  /\ pin # None => pin \in DOMAIN live \cup ToSet(done) \/ job.pc = "cancelled"
  /\ InterjectionsLand

IInv == TypeInv /\ TurnInv /\ IdInv /\ StrandInv /\ AskInv /\ JobInv /\ DriveInv

LEMMA NoneIsNoId == None \notin Ids /\ MaxItems \in Nat /\ MaxEdits \in Nat /\ MaxNotes \in Nat
BY QueueAssumption DEF Ids

\* The records of the loop.
LEMMA AtFacts ==
  ASSUME NEW x \in {"idle", "start", "startDrain", "drain", "cancel", "cancelled", "complete",
                    "flush", "strand"}
  PROVE  /\ At(x) \in Jobs /\ At(x).pc = x /\ At(x).ids = <<>> /\ At(x).taken = None
         /\ At(x).why = "none"
<1>1. <<>> \in Seq(Ids)
  BY EmptySeq
<1> QED BY <1>1 DEF At, Idle, Jobs

LEMMA IdleFacts ==
  Idle \in Jobs /\ Idle.pc = "idle" /\ Idle.ids = <<>> /\ Idle.taken = None
<1>1. <<>> \in Seq(Ids)
  BY EmptySeq
<1> QED BY <1>1 DEF Idle, Jobs

\* The handler a cancel starts with.
LEMMA CancelJobFacts ==
  ASSUME NEW w \in {"send_now", "esc", "rewind", "hard"}
  PROVE  /\ [At("cancel") EXCEPT !.why = w] \in Jobs
         /\ [At("cancel") EXCEPT !.why = w].pc = "cancel"
         /\ [At("cancel") EXCEPT !.why = w].ids = <<>>
<1>1. <<>> \in Seq(Ids)
  BY EmptySeq
<1> QED BY <1>1 DEF At, Idle, Jobs

LEMMA ItemFacts ==
  ASSUME NEW n \in Ids, NEW k \in {"prompt", "fallback", "wake", "inner"}, NEW b \in BOOLEAN
  PROVE  Item(n, k, b) \in Items /\ Item(n, k, b).id = n /\ Item(n, k, b).kind = k
BY NoneIsNoId DEF Item, Items

LEMMA EmptyToSet == ToSet(<<>>) = {} /\ IdsOf(<<>>) = {} /\ Apart(<<>>) /\ Distinct(<<>>)
BY DEF ToSet, IdsOf, Apart, Distinct

\* The promised type is part of the invariant.
LEMMA InvTypes == IInv => TypeOK
<1> SUFFICES ASSUME IInv
             PROVE  TypeOK
  OBVIOUS
<1>1. SchedInv /\ NoteInv /\ FlagInv /\ IdInv
  BY DEF IInv, TypeInv
<1>2. 1..minted \subseteq Ids
  BY <1>1, NoneIsNoId DEF SchedInv, Ids
<1>3. notes \in 0..MaxNotes /\ events \in 0..MaxNotes
  BY <1>1, NoneIsNoId DEF NoteInv
<1>4. {suppressed, rewindable, gate, waits} \subseteq BOOLEAN
  BY <1>1, Zenon DEF FlagInv
<1>5. job.taken \in Ids \cup {None} /\ job.ids \in Seq(Ids)
  BY <1>1 DEF SchedInv, Jobs
<1>6. delivered \cup reported \cup told \cup asked \cup replies \cup started \subseteq Ids
  BY <1>1, <1>2 DEF IdInv
<1> QED BY <1>1, <1>3, <1>4, <1>5, <1>6 DEF TypeOK, SchedInv, Items

\* A change of the queue that brings in N, takes nothing from the front of a
\* running turn and starts nothing.
LEMMA QueueKeepsTurn ==
  ASSUME TurnInv, NEW N, N \cap started = {},
         IdsOf(queue') \subseteq IdsOf(queue) \cup N,
         task # None => queue' # <<>> /\ queue'[1] = queue[1],
         UNCHANGED <<task, pin, started, ran>>
  PROVE  TurnInv'
BY DEF TurnInv

LEMMA TurnSame ==
  ASSUME TurnInv, UNCHANGED <<queue, task, pin, started, ran>>
  PROVE  TurnInv'
BY DEF TurnInv, IdsOf

-----------------------------------------------------------------------------
(* Promotion.                                                              *)

\* maybe_start_running_task, called by the loop or by a starter.
LEMMA MaybeStartKeeps ==
  ASSUME IInv, MaybeStart,
         \/ job' = job
         \/ job.pc \in {"start", "startDrain"} /\ job' \in {Idle, At("drain")},
         starters' \subseteq starters,
         UNCHANGED <<done, inter, events, clients, turnFlags, minted>>
  PROVE  IInv'
<1>1. SchedInv /\ NoteInv /\ FlagInv /\ TurnInv /\ IdInv /\ StrandInv /\ AskInv /\ JobInv /\ DriveInv
  BY DEF IInv, TypeInv
<1>2. done' = done /\ inter' = inter /\ events' = events /\ asked' = asked /\ replies' = replies
      /\ gate' = gate /\ waits' = waits /\ minted' = minted
  BY DEF clients, turnFlags
<1>3. /\ queue' = queue /\ suppressed' = suppressed /\ notes' = notes
      /\ delivered' = delivered /\ reported' = reported
  BY DEF MaybeStart, Promote, state, wakes
<1>4. /\ job' \in Jobs
      /\ job' = job \/ (job'.pc \in {"idle", "drain"} /\ job'.ids = <<>>)
  BY <1>1, IdleFacts, AtFacts DEF SchedInv
<1>5. CASE CanStart
  <2>1. PICK f \in Items : f = queue[1]
    <3>1. queue \in Seq(Items) /\ queue # <<>>
      BY <1>1, <1>5 DEF SchedInv, CanStart
    <3>2. 1 \in 1..Len(queue)
      BY <3>1, EmptySeq
    <3> QED BY <3>1, <3>2, ElementOfSeq
  <2>2. f.id \in Ids /\ f.id # None /\ f.id \in IdsOf(queue) /\ task = None /\ queue # <<>>
        /\ f.ver \in 0..MaxEdits /\ f.kind \in {"prompt", "fallback", "wake", "inner"}
    <3>1. queue \in Seq(Items) /\ queue # <<>>
      BY <1>1, <1>5 DEF SchedInv, CanStart
    <3>2. 1 \in DOMAIN queue
      BY <3>1, EmptySeq, LenProperties
    <3> QED BY <1>5, <2>1, <3>1, <3>2, NoneIsNoId DEF IdsOf, CanStart, Items
  <2>3. /\ task' = f.id /\ pin' = f.id /\ rewindable' = TRUE
        /\ live' = [t \in DOMAIN live \cup {f.id} |-> IF t = f.id THEN "run" ELSE live[t]]
        /\ started' = started \cup {f.id} /\ ran' = f.ver
        /\ told' \in {told, told \cup {f.id}}
    BY <1>5, <2>1 DEF MaybeStart, Promote
  <2>4. f.id \notin started
    BY <1>1, <2>2 DEF TurnInv
  <2>5. TypeInv'
    <3>1. SchedInv'
      BY <1>1, <1>2, <1>3, <1>4, <2>2, <2>3 DEF SchedInv
    <3>2. NoteInv'
      BY <1>1, <1>2, <1>3 DEF NoteInv
    <3>3. FlagInv'
      BY <1>1, <1>2, <1>3, <2>3 DEF FlagInv
    <3> QED BY <3>1, <3>2, <3>3 DEF TypeInv
  <2>6. TurnInv'
    <3>1. IdsOf(queue)' = IdsOf(queue) /\ None \notin IdsOf(queue)
      BY <1>1, <1>3, QueueAssumption DEF IdInv, IdsOf
    <3>2. IdsOf(queue) \cap started = {}
      BY <1>1, <2>2, <3>1 DEF TurnInv
    <3> QED BY <1>3, <2>1, <2>2, <2>3, <3>1, <3>2 DEF TurnInv
  <2>7. IdInv'
    BY <1>1, <1>2, <1>3, <1>4, <2>2, <2>3, EmptyToSet DEF IdInv, IdsOf, Distinct, ToSet
  <2>8. StrandInv'
    <3>1. f.id \notin ToSet(inter) /\ (job.pc = "strand" => f.id \notin ToSet(job.ids))
      BY <1>1, <2>2 DEF StrandInv
    <3>2. IdsOf(queue)' = IdsOf(queue) /\ ToSet(inter)' = ToSet(inter) /\ Apart(inter)' = Apart(inter)
      BY <1>2, <1>3 DEF IdsOf, ToSet, Apart
    <3>3. job'.pc = "strand" => job' = job
      BY <1>4
    <3> QED BY <1>1, <2>3, <3>1, <3>2, <3>3 DEF StrandInv, Apart, ToSet
  <2>9. AskInv'
    <3>1. job' # job => job.ids = <<>>
      BY <1>1 DEF JobInv
    <3>2. ToSet(job'.ids) = ToSet(job.ids)
      BY <1>4, <3>1
    <3> QED BY <1>1, <1>2, <1>3, <3>2 DEF AskInv, PromptKept, IdsOf, ToSet, Synthetic
  <2>10. JobInv'
    BY <1>1, <1>2, <1>4, <2>3, <2>4 DEF JobInv
  <2>11. DriveInv'
    <3>1. task' \in DOMAIN live' /\ pin' \in DOMAIN live' /\ DOMAIN live' # {} /\ task' # None
      BY <2>2, <2>3
    <3> QED BY <3>1 DEF DriveInv, QueueIsDriven, InterjectionsLand
  <2> QED BY <2>5, <2>6, <2>7, <2>8, <2>9, <2>10, <2>11 DEF IInv
<1>6. CASE ~CanStart
  <2>1. /\ UNCHANGED <<task, rewindable, told, pin, live, started, ran>>
    BY <1>6 DEF MaybeStart, state, wakes, promoted
  <2>2. TypeInv'
    <3>1. SchedInv'
      BY <1>1, <1>2, <1>3, <1>4, <2>1 DEF SchedInv
    <3>2. NoteInv'
      BY <1>1, <1>2, <1>3 DEF NoteInv
    <3>3. FlagInv'
      BY <1>1, <1>2, <1>3, <2>1 DEF FlagInv
    <3> QED BY <3>1, <3>2, <3>3 DEF TypeInv
  <2>3. TurnInv'
    BY <1>1, <1>3, <2>1, TurnSame
  <2>4. IdInv'
    BY <1>1, <1>2, <1>3, <1>4, <2>1, EmptyToSet DEF IdInv, IdsOf, Distinct, ToSet
  <2>5. StrandInv'
    <3>1. IdsOf(queue)' = IdsOf(queue) /\ ToSet(inter)' = ToSet(inter) /\ Apart(inter)' = Apart(inter)
      BY <1>2, <1>3 DEF IdsOf, ToSet, Apart
    <3>2. job'.pc = "strand" => job' = job
      BY <1>4
    <3> QED BY <1>1, <2>1, <3>1, <3>2 DEF StrandInv, Apart, ToSet
  <2>6. AskInv'
    <3>1. job' # job => job.ids = <<>>
      BY <1>1 DEF JobInv
    <3>2. ToSet(job'.ids) = ToSet(job.ids)
      BY <1>4, <3>1
    <3> QED BY <1>1, <1>2, <1>3, <3>2 DEF AskInv, PromptKept, IdsOf, ToSet, Synthetic
  <2>7. JobInv'
    BY <1>1, <1>2, <1>4, <2>1 DEF JobInv
  <2>8. DriveInv'
    <3>1. task = None => queue = <<>>
      BY <1>6 DEF CanStart
    <3>2. ToSet(done') = ToSet(done)
      BY <1>2
    <3>3. job.pc \in {"start", "startDrain"} \/ job' = job
      OBVIOUS
    <3> QED BY <1>1, <1>2, <1>3, <2>1, <3>1, <3>2, <3>3 DEF DriveInv, QueueIsDriven, InterjectionsLand
  <2> QED BY <2>2, <2>3, <2>4, <2>5, <2>6, <2>7, <2>8 DEF IInv
<1> QED BY <1>5, <1>6

LEMMA StartStep ==
  ASSUME IInv, Start \/ \E s \in {"mcp", "planStart"} : StarterStart(s)
  PROVE  IInv'
<1>1. CASE Start
  <2>1. starters' \subseteq starters
    BY <1>1 DEF Start
  <2> QED BY <1>1, <2>1, MaybeStartKeeps DEF Start
<1>2. CASE \E s \in {"mcp", "planStart"} : StarterStart(s)
  BY <1>2, MaybeStartKeeps DEF StarterStart
<1> QED BY <1>1, <1>2

-----------------------------------------------------------------------------
(* Arrivals.                                                               *)

\* The id of the next input is new to everybody.
LEMMA FreshId ==
  ASSUME IInv, minted < MaxItems, NEW n, n = minted + 1
  PROVE  /\ n \in Ids /\ n # None /\ n \in 0..MaxItems /\ 1..minted \subseteq 1..n /\ n \in 1..n
         /\ n \notin 1..minted
<1>1. minted \in Nat /\ MaxItems \in Nat
  BY NoneIsNoId DEF IInv, TypeInv, SchedInv
<1>2. n \in Nat /\ n >= 1 /\ n <= MaxItems
  BY <1>1
<1>3. n \in Ids /\ n \in 0..MaxItems /\ n \in 1..n /\ n \notin 1..minted
  BY <1>1, <1>2 DEF Ids
<1>4. 1..minted \subseteq 1..n
  BY <1>1
<1> QED BY <1>3, <1>4, NoneIsNoId

\* An input arrives and its item e is queued; synthetic items may give way.
LEMMA ArrivalKeeps ==
  ASSUME IInv, minted < MaxItems, NEW n, n = minted + 1, minted' = n,
         NEW e \in Items, e.id = n,
         queue' \in Seq(Items), Distinct(queue'), queue' # <<>>,
         ToSet(queue') \subseteq ToSet(queue) \cup {e}, e \in ToSet(queue'),
         \A i \in ToSet(queue) : i \in ToSet(queue') \/ Synthetic(i),
         task # None => queue'[1] = queue[1],
         UNCHANGED <<task, done, told, replies, promoted>>,
         NoteInv', FlagInv', job' \in Jobs,
         asked' = asked \/ (asked' = asked \cup {n} /\ e.kind = "prompt"),
         delivered' \subseteq delivered \cup {n}, reported' \subseteq reported \cup {n},
         asked' = asked \/ n \notin delivered' \cup reported',
         inter' \in {inter, <<>>},
         starters' \subseteq {"mcp", "plan", "planStart"},
         \/ job' = job /\ "planStart" \in starters'
         \/ /\ job.pc \in {"idle", "drain"} /\ job'.pc \in {"start", "cancel"} /\ job'.ids = <<>>
            /\ job'.pc = "cancel" => inter' = <<>>
  PROVE  IInv'
<1>1. SchedInv /\ TurnInv /\ IdInv /\ StrandInv /\ AskInv /\ JobInv /\ DriveInv
  BY DEF IInv, TypeInv
<1>2. pin' = pin /\ live' = live /\ started' = started /\ ran' = ran
  BY DEF promoted
<1>3. /\ n \in Ids /\ n # None /\ n \in 0..MaxItems /\ 1..minted \subseteq 1..n /\ n \in 1..n
      /\ n \notin 1..minted
  BY FreshId
<1>4. IdsOf(queue)' \subseteq IdsOf(queue) \cup {n}
  BY IdsOfToSet
<1>5. n \notin started /\ n \notin IdsOf(queue) /\ n \notin ToSet(inter) /\ n \notin ToSet(job.ids)
      /\ n \notin asked /\ n \notin delivered /\ n \notin reported
  BY <1>1, <1>3 DEF IdInv
<1>6. /\ job' = job \/ (job.ids = <<>> /\ job'.ids = <<>> /\ job'.pc \in {"start", "cancel"})
      /\ ToSet(job'.ids) = ToSet(job.ids)
  BY <1>1 DEF JobInv
<1>7. inter' \in Seq(Ids) /\ ToSet(inter') \subseteq ToSet(inter) /\ Apart(inter')
  <2>1. CASE inter' = inter
    BY <1>1, <2>1 DEF SchedInv, StrandInv
  <2>2. CASE inter' = <<>>
    <3>1. <<>> \in Seq(Ids)
      BY EmptySeq
    <3>2. Apart(<<>>) /\ ToSet(<<>>) = {}
      BY EmptyToSet
    <3> QED BY <2>2, <3>1, <3>2
  <2> QED BY <2>1, <2>2
<1>8. TypeInv'
  BY <1>1, <1>2, <1>3, <1>7 DEF TypeInv, SchedInv
<1>9. TurnInv'
  <2>1. {n} \cap started = {} /\ IdsOf(queue') \subseteq IdsOf(queue) \cup {n}
    BY <1>4, <1>5
  <2> QED BY <1>1, <1>2, <2>1, QueueKeepsTurn
<1>10. IdInv'
  <2>1. IdsOf(queue') \subseteq 1..n
    BY <1>1, <1>3, <1>4 DEF IdInv
  <2>2. ToSet(inter') \cup ToSet(job'.ids) \subseteq 1..n
    BY <1>1, <1>3, <1>6, <1>7 DEF IdInv
  <2>3. started' \cup asked' \cup replies' \cup told' \cup delivered' \cup reported' \subseteq 1..n
    BY <1>1, <1>2, <1>3 DEF IdInv
  <2> QED BY <2>1, <2>2, <2>3 DEF IdInv
<1>11. StrandInv'
  <2>1. ToSet(inter') \cap (IdsOf(queue') \cup started') = {}
    BY <1>1, <1>2, <1>4, <1>5, <1>7 DEF StrandInv
  <2>2. job'.pc = "strand" => Apart(job'.ids) /\ ToSet(job'.ids) \cap (IdsOf(queue') \cup started') = {}
    BY <1>1, <1>2, <1>4, <1>5, <1>6 DEF StrandInv
  <2> QED BY <1>7, <2>1, <2>2 DEF StrandInv
<1>12. AskInv'
  <2>1. \A i \in ToSet(queue') : Synthetic(i) => i.id \notin asked'
    <3>1. SUFFICES ASSUME NEW i \in ToSet(queue'), Synthetic(i)
                   PROVE  i.id \notin asked'
      OBVIOUS
    <3>2. CASE i = e
      BY <1>5, <3>1, <3>2 DEF Synthetic
    <3>3. CASE i \in ToSet(queue)
      <4>1. i.id \notin asked /\ i.id # n
        BY <1>1, <1>5, <3>1, <3>3, IdsOfToSet DEF AskInv
      <4> QED BY <4>1
    <3> QED BY <3>2, <3>3
  <2>2. (delivered' \cup reported') \cap asked' = {}
    BY <1>1, <1>5 DEF AskInv
  <2>3. asked' \subseteq replies' \cup IdsOf(queue') \cup ToSet(job'.ids)
    <3>1. \A id \in asked : id \in replies' \cup IdsOf(queue') \cup ToSet(job'.ids)
      <4>1. SUFFICES ASSUME NEW id \in asked, id \in IdsOf(queue)
                     PROVE  id \in IdsOf(queue')
        BY <1>1, <1>6 DEF AskInv, PromptKept
      <4>2. PICK i \in ToSet(queue) : i.id = id
        BY <4>1, IdsOfToSet
      <4>3. i \in ToSet(queue')
        BY <1>1, <4>1, <4>2 DEF AskInv
      <4> QED BY <4>2, <4>3, IdsOfToSet
    <3>2. n \in IdsOf(queue')
      BY IdsOfToSet
    <3> QED BY <3>1, <3>2
  <2> QED BY <2>1, <2>2, <2>3 DEF AskInv, PromptKept, IdsOf, ToSet, Synthetic
<1>13. JobInv'
  BY <1>1, <1>2, <1>6 DEF JobInv
<1>14. DriveInv'
  <2>1. QueueIsDriven'
    BY <1>1, <1>2 DEF DriveInv, QueueIsDriven, ToSet
  <2>2. (pin # None => pin \in DOMAIN live \cup ToSet(done) \/ job.pc = "cancelled")'
    BY <1>1, <1>2 DEF DriveInv, ToSet
  <2>3. InterjectionsLand'
    BY <1>1, <1>2 DEF DriveInv, InterjectionsLand
  <2> QED BY <2>1, <2>2, <2>3 DEF DriveInv
<1> QED BY <1>8, <1>9, <1>10, <1>11, <1>12, <1>13, <1>14 DEF IInv

\* What an appended, and what an inserted, new item makes of the queue.
QueueGains(e) ==
  /\ queue' \in Seq(Items) /\ Distinct(queue') /\ queue' # <<>>
  /\ ToSet(queue') = ToSet(queue) \cup {e}
  /\ task # None => queue'[1] = queue[1]

LEMMA AppendGains ==
  ASSUME IInv, NEW e \in Items, e.id \notin IdsOf(queue), queue' = Append(queue, e)
  PROVE  QueueGains(e)
<1>1. queue \in Seq(Items) /\ Distinct(queue) /\ (task # None => queue # <<>>)
  BY DEF IInv, TypeInv, SchedInv, IdInv, TurnInv
<1> QED BY <1>1, AppendFacts DEF QueueGains

LEMMA InsertGains ==
  ASSUME IInv, NEW e \in Items, e.id \notin IdsOf(queue), queue' = InsertAt(queue, FrontSlot, e)
  PROVE  QueueGains(e)
<1>1. queue \in Seq(Items) /\ Distinct(queue) /\ (task # None => queue # <<>> /\ queue[1].id = task)
  BY DEF IInv, TypeInv, SchedInv, IdInv, TurnInv
<1>2. FrontSlot \in 1..(Len(queue) + 1) /\ (task # None => FrontSlot # 1)
  BY <1>1, FrontSlotFacts
<1> QED BY <1>1, <1>2, InsertAtFacts DEF QueueGains

LEMMA StarterQueueStep ==
  ASSUME IInv, StarterQueue
  PROVE  IInv'
<1>1. PICK n : n = minted + 1
  OBVIOUS
<1>2. n \in Ids /\ n \notin IdsOf(queue)
  BY <1>1, FreshId DEF IInv, IdInv, StarterQueue
<1>3. PICK e \in Items : e = Item(n, "inner", FALSE) /\ e.id = n
  BY <1>2, ItemFacts
<1>4. QueueGains(e)
  BY <1>1, <1>2, <1>3, AppendGains DEF StarterQueue
<1>5. /\ UNCHANGED <<task, done, told, replies, promoted>>
      /\ UNCHANGED <<asked, delivered, reported, inter, job, notes, events>>
      /\ UNCHANGED <<suppressed, rewindable, gate, waits>>
  BY DEF StarterQueue, wakes, clients, turnFlags
<1>6. NoteInv' /\ FlagInv' /\ job' \in Jobs
  BY <1>5 DEF IInv, TypeInv, NoteInv, FlagInv, SchedInv
<1>7. starters' \subseteq {"mcp", "plan", "planStart"} /\ "planStart" \in starters'
  BY DEF IInv, TypeInv, SchedInv, StarterQueue
<1> QED BY <1>1, <1>3, <1>4, <1>5, <1>6, <1>7, ArrivalKeeps DEF StarterQueue, QueueGains

LEMMA SummaryStep ==
  ASSUME IInv, Summary
  PROVE  IInv'
<1>1. PICK n \in Ids : /\ Arrives(n) /\ queue' = Append(queue, Item(n, "inner", FALSE))
                       /\ job' = At("start")
                       /\ UNCHANGED <<task, suppressed, rewindable, notes, done, starters, inter,
                                      events, wakes, clients, turnFlags, promoted>>
  BY DEF Summary
<1>2. minted < MaxItems /\ n = minted + 1 /\ minted' = n /\ job.pc = "idle"
  BY <1>1 DEF Arrives, Receives
<1>3. n \notin IdsOf(queue)
  BY <1>2, FreshId DEF IInv, IdInv
<1>4. PICK e \in Items : e = Item(n, "inner", FALSE) /\ e.id = n
  BY ItemFacts
<1>5. QueueGains(e)
  BY <1>1, <1>3, <1>4, AppendGains
<1>6. /\ UNCHANGED <<task, done, told, replies, promoted>>
      /\ UNCHANGED <<asked, delivered, reported, inter, notes, events, starters>>
      /\ UNCHANGED <<suppressed, rewindable, gate, waits>>
  BY <1>1 DEF wakes, clients, turnFlags
<1>7. NoteInv' /\ FlagInv' /\ starters' \subseteq {"mcp", "plan", "planStart"}
  BY <1>6 DEF IInv, TypeInv, NoteInv, FlagInv, SchedInv
<1>8. job' \in Jobs /\ job'.pc = "start" /\ job'.ids = <<>>
  BY <1>1, AtFacts
<1> QED BY <1>2, <1>4, <1>5, <1>6, <1>7, <1>8, ArrivalKeeps DEF QueueGains

LEMMA WakeStep ==
  ASSUME IInv, Wake
  PROVE  IInv'
<1>1. PICK n \in Ids : /\ Arrives(n) /\ queue' = Append(queue, Item(n, "wake", FALSE))
                       /\ job' = At("start")
                       /\ delivered' = delivered \cup {n}
                       /\ reported' = reported \cup {n}
                       /\ UNCHANGED <<task, suppressed, rewindable, notes, done, starters, inter,
                                      events, told, clients, turnFlags, promoted>>
  BY DEF Wake
<1>2. minted < MaxItems /\ n = minted + 1 /\ minted' = n /\ job.pc = "idle"
  BY <1>1 DEF Arrives, Receives
<1>3. n \notin IdsOf(queue)
  BY <1>2, FreshId DEF IInv, IdInv
<1>4. PICK e \in Items : e = Item(n, "wake", FALSE) /\ e.id = n
  BY ItemFacts
<1>5. QueueGains(e)
  BY <1>1, <1>3, <1>4, AppendGains
<1>6. /\ UNCHANGED <<task, done, told, replies, promoted>>
      /\ UNCHANGED <<asked, inter, notes, events, starters>>
      /\ UNCHANGED <<suppressed, rewindable, gate, waits>>
  BY <1>1 DEF clients, turnFlags
<1>7. NoteInv' /\ FlagInv' /\ starters' \subseteq {"mcp", "plan", "planStart"}
  BY <1>6 DEF IInv, TypeInv, NoteInv, FlagInv, SchedInv
<1>8. job' \in Jobs /\ job'.pc = "start" /\ job'.ids = <<>>
  BY <1>1, AtFacts
<1> QED BY <1>1, <1>2, <1>4, <1>5, <1>6, <1>7, <1>8, ArrivalKeeps DEF QueueGains

\* maybe_drain_notifications.
LEMMA DrainStep ==
  ASSUME IInv, Drain
  PROVE  IInv'
<1>1. SchedInv /\ NoteInv /\ FlagInv /\ TurnInv /\ IdInv /\ StrandInv /\ AskInv /\ JobInv /\ DriveInv
  BY DEF IInv, TypeInv
<1>2. /\ UNCHANGED <<task, done, told, replies, promoted>>
      /\ UNCHANGED <<asked, delivered, reported, inter, starters>>
      /\ UNCHANGED <<suppressed, rewindable, gate, waits>>
      /\ job.pc = "drain"
  BY DEF Drain, wakes, clients, turnFlags
<1>3. NoteInv' /\ FlagInv'
  <2>1. (notes' = 0 /\ events' = 0) \/ (notes' = notes /\ events' = events)
    BY DEF Drain
  <2>2. NoteInv'
    BY <1>1, <2>1, NoneIsNoId DEF NoteInv
  <2>3. FlagInv'
    BY <1>1, <1>2 DEF FlagInv
  <2> QED BY <2>2, <2>3
<1>4. ASSUME task = None, queue = <<>>, minted < MaxItems, minted' = minted + 1,
             queue' = <<Item(minted + 1, "inner", FALSE)>>, job' = At("start")
      PROVE  IInv'
  <2>1. PICK n : n = minted + 1
    OBVIOUS
  <2>2. n \in Ids
    BY <1>4, <2>1, FreshId
  <2>3. PICK e \in Items : e = Item(n, "inner", FALSE) /\ e.id = n
    BY <2>2, ItemFacts
  <2>4. queue' = <<e>>
    BY <1>4, <2>1, <2>3
  <2>5. queue' \in Seq(Items) /\ queue' # <<>> /\ Distinct(queue') /\ ToSet(queue') = {e}
    BY <2>4 DEF Distinct, ToSet
  <2>6. ToSet(queue) = {}
    BY <1>4, EmptyToSet
  <2>7. job' \in Jobs /\ job'.pc = "start" /\ job'.ids = <<>> /\ starters' \subseteq {"mcp", "plan", "planStart"}
    BY <1>1, <1>2, <1>4, AtFacts DEF SchedInv
  <2> QED BY <1>2, <1>3, <1>4, <2>1, <2>3, <2>5, <2>6, <2>7, ArrivalKeeps
<1>5. ASSUME UNCHANGED <<queue, minted>>, job' = Idle
      PROVE  IInv'
  <2>1. pin' = pin /\ live' = live /\ started' = started /\ ran' = ran
    BY <1>2 DEF promoted
  <2>2. job.ids = <<>> /\ job'.ids = <<>> /\ job' \in Jobs /\ job'.pc = "idle"
    BY <1>1, <1>2, <1>5, IdleFacts DEF JobInv
  <2>3. TypeInv'
    BY <1>1, <1>2, <1>3, <1>5, <2>1, <2>2 DEF TypeInv, SchedInv
  <2>4. TurnInv'
    BY <1>1, <1>2, <1>5, <2>1, TurnSame
  <2>5. IdInv'
    BY <1>1, <1>2, <1>5, <2>1, <2>2 DEF IdInv, IdsOf, ToSet, Distinct
  <2>6. StrandInv'
    BY <1>1, <1>2, <1>5, <2>1, <2>2 DEF StrandInv, IdsOf, ToSet, Apart
  <2>7. AskInv'
    BY <1>1, <1>2, <1>5, <2>1, <2>2 DEF AskInv, PromptKept, IdsOf, ToSet, Synthetic
  <2>8. JobInv'
    BY <1>1, <1>2, <2>2 DEF JobInv
  <2>9. DriveInv'
    BY <1>1, <1>2, <1>5, <2>1, <2>2 DEF DriveInv, QueueIsDriven, InterjectionsLand, ToSet
  <2> QED BY <2>3, <2>4, <2>5, <2>6, <2>7, <2>8, <2>9 DEF IInv
<1> QED BY <1>4, <1>5 DEF Drain

-----------------------------------------------------------------------------
(* Commands that bring something in.                                       *)

LEMMA InterjectStep ==
  ASSUME IInv, Interject
  PROVE  IInv'
<1>1. PICK n \in Ids :
        /\ Arrives(n)
        /\ IF pin # None
           THEN inter' = Append(inter, n) /\ queue' = queue /\ job' = job
           ELSE /\ queue' = InsertAt(queue, FrontSlot, Item(n, "fallback", TRUE))
                /\ inter' = inter /\ job' = At("start")
        /\ UNCHANGED <<task, suppressed, rewindable, notes, done, starters, events,
                       wakes, clients, turnFlags, promoted>>
  BY DEF Interject
<1>2. minted < MaxItems /\ n = minted + 1 /\ minted' = n /\ job.pc = "idle" /\ done = <<>>
  BY <1>1 DEF Arrives, Receives
<1>3. /\ n \in 0..MaxItems /\ 1..minted \subseteq 1..n /\ n \in 1..n /\ n \notin 1..minted
  BY <1>2, FreshId
<1>4. SchedInv /\ NoteInv /\ FlagInv /\ TurnInv /\ IdInv /\ StrandInv /\ AskInv /\ JobInv /\ DriveInv
  BY DEF IInv, TypeInv
<1>5. /\ UNCHANGED <<task, done, told, replies, promoted>>
      /\ UNCHANGED <<asked, delivered, reported, notes, events, starters>>
      /\ UNCHANGED <<suppressed, rewindable, gate, waits>>
  BY <1>1 DEF wakes, clients, turnFlags
<1>6. NoteInv' /\ FlagInv' /\ starters' \subseteq {"mcp", "plan", "planStart"}
  BY <1>4, <1>5 DEF NoteInv, FlagInv, SchedInv
<1>7. n \notin IdsOf(queue) /\ n \notin started /\ n \notin ToSet(inter)
  BY <1>3, <1>4 DEF IdInv
<1>8. CASE pin # None
  <2>1. inter' = Append(inter, n) /\ queue' = queue /\ job' = job
    BY <1>1, <1>8
  <2>2. pin' = pin /\ live' = live /\ started' = started /\ ran' = ran
    BY <1>5 DEF promoted
  <2>3. /\ inter' \in Seq(Ids) /\ Len(inter') = Len(inter) + 1 /\ Len(inter) \in Nat
        /\ \A i \in 1..Len(inter) : inter'[i] = inter[i]
        /\ inter'[Len(inter) + 1] = n
        /\ DOMAIN inter = 1..Len(inter) /\ DOMAIN inter' = 1..(Len(inter) + 1)
    <3>1. inter \in Seq(Ids)
      BY <1>4 DEF SchedInv
    <3>2. /\ inter' \in Seq(Ids) /\ Len(inter') = Len(inter) + 1
          /\ \A i \in 1..Len(inter) : inter'[i] = inter[i]
          /\ inter'[Len(inter) + 1] = n
      BY <2>1, <3>1, AppendProperties
    <3> QED BY <3>1, <3>2, LenProperties
  <2>4. ToSet(inter') \subseteq ToSet(inter) \cup {n}
    <3>1. \A i \in 1..(Len(inter) + 1) : i \in 1..Len(inter) \/ i = Len(inter) + 1
      BY <2>3
    <3> QED BY <2>3, <3>1 DEF ToSet
  <2>5. Apart(inter')
    <3>1. \A i \in 1..(Len(inter) + 1) : i \in 1..Len(inter) \/ i = Len(inter) + 1
      BY <2>3
    <3>2. \A i, j \in 1..Len(inter) : inter[i] # n /\ (inter[i] = inter[j] => i = j)
      BY <1>4, <1>7, <2>3 DEF StrandInv, Apart, ToSet
    <3> QED BY <2>3, <3>1, <3>2 DEF Apart
  <2>6. TypeInv'
    BY <1>2, <1>3, <1>4, <1>5, <1>6, <2>1, <2>2, <2>3 DEF TypeInv, SchedInv
  <2>7. TurnInv'
    BY <1>4, <1>5, <2>1, <2>2, TurnSame
  <2>8. IdInv'
    <3>1. ToSet(inter') \subseteq 1..n
      BY <1>3, <1>4, <2>4 DEF IdInv
    <3>2. IdsOf(queue') \cup ToSet(job'.ids) \subseteq 1..n
      BY <1>3, <1>4, <2>1 DEF IdInv
    <3>3. started' \cup asked' \cup replies' \cup told' \cup delivered' \cup reported' \subseteq 1..n
      BY <1>3, <1>4, <1>5, <2>2 DEF IdInv
    <3>4. Distinct(queue')
      BY <1>4, <2>1 DEF IdInv
    <3> QED BY <1>2, <3>1, <3>2, <3>3, <3>4 DEF IdInv
  <2>9. StrandInv'
    <3>1. ToSet(inter') \cap (IdsOf(queue') \cup started') = {}
      BY <1>4, <1>7, <2>1, <2>2, <2>4 DEF StrandInv
    <3>2. job'.pc # "strand"
      BY <1>2, <2>1
    <3> QED BY <2>5, <3>1, <3>2 DEF StrandInv
  <2>10. AskInv'
    BY <1>4, <1>5, <2>1 DEF AskInv, PromptKept, IdsOf, ToSet, Synthetic
  <2>11. JobInv'
    BY <1>2, <1>4, <2>1 DEF JobInv
  <2>12. DriveInv'
    <3>1. ToSet(done) = {}
      BY <1>2, EmptyToSet
    <3>2. pin \in DOMAIN live
      BY <1>2, <1>4, <1>8, <3>1 DEF DriveInv
    <3>3. InterjectionsLand'
      BY <2>2, <3>2 DEF InterjectionsLand
    <3> QED BY <1>4, <1>5, <2>1, <2>2, <3>3 DEF DriveInv, QueueIsDriven, ToSet
  <2> QED BY <2>6, <2>7, <2>8, <2>9, <2>10, <2>11, <2>12 DEF IInv
<1>9. CASE pin = None
  <2>1. queue' = InsertAt(queue, FrontSlot, Item(n, "fallback", TRUE)) /\ inter' = inter
        /\ job' = At("start")
    BY <1>1, <1>9
  <2>2. PICK e \in Items : e = Item(n, "fallback", TRUE) /\ e.id = n
    BY ItemFacts
  <2>3. QueueGains(e)
    BY <1>7, <2>1, <2>2, InsertGains
  <2>4. job' \in Jobs /\ job'.pc = "start" /\ job'.ids = <<>>
    BY <2>1, AtFacts
  <2> QED BY <1>2, <1>5, <1>6, <2>1, <2>2, <2>3, <2>4, ArrivalKeeps DEF QueueGains
<1> QED BY <1>8, <1>9

\* Two items of the queue with one id are one item.
LEMMA DistinctItems ==
  ASSUME NEW q, Distinct(q), NEW i \in ToSet(q), NEW j \in ToSet(q), i.id = j.id
  PROVE  i = j
BY DEF Distinct, ToSet

\* The synthetic prompts that wait give way, and nothing else.
LEMMA PreemptedFacts ==
  ASSUME IInv
  PROVE  /\ Preempted \in Seq(Items) /\ Distinct(Preempted)
         /\ ToSet(Preempted) \subseteq ToSet(queue)
         /\ \A i \in ToSet(queue) : i \in ToSet(Preempted) \/ Synthetic(i)
         /\ task # None => Preempted # <<>> /\ Preempted[1] = queue[1] /\ queue[1].id = task
<1>1. queue \in Seq(Items) /\ Distinct(queue) /\ (task # None => queue # <<>> /\ queue[1].id = task)
  BY DEF IInv, TypeInv, SchedInv, IdInv, TurnInv
<1>2. PICK S : S = {i.id : i \in {j \in ToSet(queue) : Synthetic(j)}}
  OBVIOUS
<1>3. CASE Preempted = queue
  BY <1>1, <1>3
<1>4. CASE Preempted = Without(S \ {task})
  <2>1. /\ Without(S \ {task}) \in Seq(Items)
        /\ ToSet(Without(S \ {task})) = {i \in ToSet(queue) : i.id \notin S \ {task}}
        /\ Distinct(Without(S \ {task}))
        /\ queue # <<>> /\ queue[1].id \notin S \ {task} =>
             Without(S \ {task}) # <<>> /\ Without(S \ {task})[1] = queue[1]
    BY <1>1, WithoutFacts
  <2>2. \A i \in ToSet(queue) : i.id \in S => Synthetic(i)
    BY <1>1, <1>2, DistinctItems
  <2> QED BY <1>1, <1>4, <2>1, <2>2
<1> QED BY <1>2, <1>3, <1>4 DEF Preempted, Sweep

LEMMA PromptStep ==
  ASSUME IInv, NEW sendNow \in BOOLEAN, Prompt(sendNow)
  PROVE  IInv'
<1>1. PICK q : q = Preempted
  OBVIOUS
<1>2. PICK n \in Ids, now \in BOOLEAN :
        /\ Arrives(n)
        /\ suppressed' = FALSE
        /\ queue' = IF now THEN InsertAt(q, NowSlot(q), Item(n, "prompt", TRUE))
                           ELSE Append(q, Item(n, "prompt", FALSE))
        /\ delivered' = delivered \ (IdsOf(queue) \ IdsOf(q))
        /\ asked' = asked \cup {n}
        /\ IF now /\ task # None /\ ~gate
           THEN inter' = <<>> /\ job' = [At("cancel") EXCEPT !.why = "send_now"]
           ELSE inter' = inter /\ job' = At("start")
        /\ UNCHANGED <<task, rewindable, notes, done, starters, events, reported,
                       told, replies, turnFlags, promoted>>
  BY <1>1, Zenon DEF Prompt, AutoSendNow
<1>3. minted < MaxItems /\ n = minted + 1 /\ minted' = n /\ job.pc = "idle"
  BY <1>2 DEF Arrives, Receives
<1>4. n \notin 1..minted
  BY <1>3, FreshId
<1>5. n \notin IdsOf(queue) /\ n \notin delivered /\ n \notin reported
  BY <1>4 DEF IInv, IdInv
<1>6. /\ q \in Seq(Items) /\ Distinct(q) /\ ToSet(q) \subseteq ToSet(queue)
      /\ \A i \in ToSet(queue) : i \in ToSet(q) \/ Synthetic(i)
      /\ task # None => q # <<>> /\ q[1] = queue[1] /\ queue[1].id = task
  BY <1>1, PreemptedFacts
<1>7. n \notin IdsOf(q)
  BY <1>5, <1>6, IdsOfToSet
<1>8. PICK e \in Items : e.id = n /\ e.kind = "prompt" /\ e = Item(n, "prompt", now)
  BY ItemFacts
<1>9. /\ queue' \in Seq(Items) /\ Distinct(queue') /\ queue' # <<>>
      /\ ToSet(queue') = ToSet(q) \cup {e}
      /\ task # None => queue'[1] = q[1]
  <2>1. CASE now
    <3>1. now = TRUE
      BY <2>1
    <3>2. queue' = InsertAt(q, NowSlot(q), e)
      BY <1>2, <1>8, <3>1
    <3>3. NowSlot(q) \in 1..(Len(q) + 1) /\ (task # None => NowSlot(q) # 1)
      BY <1>6, NowSlotFacts
    <3>4. PICK m \in 1..(Len(q) + 1) : m = NowSlot(q) /\ (task # None => m # 1)
      BY <3>3
    <3>5. /\ InsertAt(q, m, e) \in Seq(Items)
          /\ ToSet(InsertAt(q, m, e)) = ToSet(q) \cup {e}
          /\ Distinct(q) /\ e.id \notin IdsOf(q) => Distinct(InsertAt(q, m, e))
          /\ InsertAt(q, m, e) # <<>>
          /\ m # 1 => InsertAt(q, m, e)[1] = q[1]
      BY <1>6, <3>4, InsertAtFacts
    <3> QED BY <1>6, <1>7, <1>8, <3>2, <3>4, <3>5
  <2>2. CASE ~now
    <3>1. now = FALSE
      BY <2>2
    <3>2. queue' = Append(q, e)
      BY <1>2, <1>8, <3>1
    <3> QED BY <1>6, <1>7, <1>8, <3>2, AppendFacts
  <2> QED BY <2>1, <2>2
<1>10. /\ ToSet(queue') \subseteq ToSet(queue) \cup {e} /\ e \in ToSet(queue')
       /\ \A i \in ToSet(queue) : i \in ToSet(queue') \/ Synthetic(i)
       /\ task # None => queue'[1] = queue[1]
  BY <1>6, <1>9
<1>11. /\ UNCHANGED <<task, done, told, replies, promoted>>
       /\ UNCHANGED <<reported, notes, events, starters>>
       /\ UNCHANGED <<rewindable, gate, waits>> /\ suppressed' = FALSE
  BY <1>2 DEF turnFlags
<1>12. NoteInv' /\ starters' \subseteq {"mcp", "plan", "planStart"}
  BY <1>11 DEF IInv, TypeInv, NoteInv, SchedInv
<1>13. FlagInv'
  BY <1>11 DEF IInv, TypeInv, FlagInv
<1>14. /\ job' \in Jobs /\ job'.pc \in {"start", "cancel"} /\ job'.ids = <<>>
       /\ (job'.pc = "cancel" => inter' = <<>>) /\ inter' \in {inter, <<>>}
  BY <1>2, AtFacts, CancelJobFacts
<1>15. /\ delivered' \subseteq delivered \cup {n} /\ reported' \subseteq reported \cup {n}
       /\ n \notin delivered' \cup reported' /\ asked' = asked \cup {n}
  BY <1>2, <1>5, <1>11
<1> QED BY <1>3, <1>8, <1>9, <1>10, <1>11, <1>12, <1>13, <1>14, <1>15, ArrivalKeeps

LEMMA InjectStep ==
  ASSUME IInv, Inject
  PROVE  IInv'
<1>1. SchedInv /\ NoteInv /\ FlagInv /\ TurnInv /\ IdInv /\ StrandInv /\ AskInv /\ JobInv /\ DriveInv
  BY DEF IInv, TypeInv
<1>2. /\ UNCHANGED <<queue, task, done, starters, inter, minted, asked, replies>>
      /\ UNCHANGED <<delivered, reported, told, pin, live, started, ran>>
      /\ UNCHANGED <<suppressed, rewindable, gate, waits>>
  BY DEF Inject, wakes, clients, turnFlags, promoted
<1>3. job.pc = "idle" /\ done = <<>> /\ notes + events < MaxNotes
  BY DEF Inject, Receives
<1>4. (events' = events + 1 /\ notes' = notes) \/ (events' = events /\ notes' = notes + 1)
  BY DEF Inject
<1>5. NoteInv'
  <2>1. notes \in Nat /\ events \in Nat /\ MaxNotes \in Nat
    BY <1>1, NoneIsNoId DEF NoteInv
  <2> QED BY <1>3, <1>4, <2>1 DEF NoteInv
<1>6. job' = job \/ job' = At("drain")
  BY DEF Inject
<1>7. job' \in Jobs /\ job'.ids = <<>> /\ job.ids = <<>> /\ job'.pc \in {"idle", "drain"}
  BY <1>1, <1>3, <1>6, AtFacts DEF SchedInv, JobInv
<1>8. TypeInv'
  <2>1. SchedInv'
    BY <1>1, <1>2, <1>7 DEF SchedInv
  <2>2. FlagInv'
    BY <1>1, <1>2 DEF FlagInv
  <2> QED BY <1>5, <2>1, <2>2 DEF TypeInv
<1>9. TurnInv'
  BY <1>1, <1>2, TurnSame
<1>10. IdInv'
  BY <1>1, <1>2, <1>7 DEF IdInv, IdsOf, ToSet, Distinct
<1>11. StrandInv'
  BY <1>1, <1>2, <1>7 DEF StrandInv, IdsOf, ToSet, Apart
<1>12. AskInv'
  BY <1>1, <1>2, <1>7 DEF AskInv, PromptKept, IdsOf, ToSet, Synthetic
<1>13. JobInv'
  BY <1>1, <1>2, <1>7 DEF JobInv
<1>14. DriveInv'
  BY <1>1, <1>2, <1>3, <1>7 DEF DriveInv, QueueIsDriven, InterjectionsLand, ToSet
<1> QED BY <1>8, <1>9, <1>10, <1>11, <1>12, <1>13, <1>14 DEF IInv

-----------------------------------------------------------------------------
(* Edits of the shared queue.                                              *)

\* The queue is reordered, edited or thinned out: no id is new, the running
\* front stays, and a row that goes and was asked for is answered.
LEMMA EditKeeps ==
  ASSUME IInv,
         queue' \in Seq(Items), Distinct(queue'), IdsOf(queue') \subseteq IdsOf(queue),
         \A i \in ToSet(queue') : Synthetic(i) => i.id \notin asked,
         task # None => queue' # <<>> /\ queue'[1] = queue[1],
         queue = <<>> => queue' = <<>>,
         asked \cap IdsOf(queue) \subseteq IdsOf(queue') \cup replies',
         replies \subseteq replies', replies' \subseteq 1..minted,
         told' \subseteq 1..minted, delivered' \cup reported' \subseteq delivered \cup reported,
         UNCHANGED <<task, done, pin, live, started, ran, minted, asked, starters>>,
         NoteInv', FlagInv',
         \/ job' = job /\ inter' = inter
         \/ /\ job.pc = "idle" /\ job' \in Jobs /\ job'.ids = <<>>
            /\ \/ job'.pc = "start" /\ inter' = inter
               \/ job'.pc = "cancel" /\ inter' = <<>>
  PROVE  IInv'
<1>1. SchedInv /\ TurnInv /\ IdInv /\ StrandInv /\ AskInv /\ JobInv /\ DriveInv
  BY DEF IInv, TypeInv
<1>2. /\ job' \in Jobs
      /\ job' = job \/ (job.ids = <<>> /\ job'.ids = <<>> /\ job'.pc \in {"start", "cancel"})
      /\ ToSet(job'.ids) = ToSet(job.ids)
  BY <1>1 DEF JobInv, SchedInv
<1>3. inter' \in Seq(Ids) /\ ToSet(inter') \subseteq ToSet(inter) /\ Apart(inter')
  <2>1. CASE inter' = inter
    BY <1>1, <2>1 DEF SchedInv, StrandInv
  <2>2. CASE inter' = <<>>
    <3>1. <<>> \in Seq(Ids)
      BY EmptySeq
    <3>2. Apart(<<>>) /\ ToSet(<<>>) = {}
      BY EmptyToSet
    <3> QED BY <2>2, <3>1, <3>2
  <2> QED BY <2>1, <2>2
<1>4. TypeInv'
  BY <1>1, <1>2, <1>3 DEF TypeInv, SchedInv
<1>5. TurnInv'
  <2>1. {} \cap started = {} /\ IdsOf(queue') \subseteq IdsOf(queue) \cup {}
    OBVIOUS
  <2> QED BY <1>1, <2>1, QueueKeepsTurn
<1>6. IdInv'
  <2>1. IdsOf(queue') \cup ToSet(inter') \cup ToSet(job'.ids) \subseteq 1..minted
    BY <1>1, <1>2, <1>3 DEF IdInv
  <2>2. started' \cup asked' \cup replies' \cup told' \cup delivered' \cup reported' \subseteq 1..minted
    BY <1>1 DEF IdInv
  <2> QED BY <2>1, <2>2 DEF IdInv
<1>7. StrandInv'
  <2>1. ToSet(inter') \cap (IdsOf(queue') \cup started') = {}
    BY <1>1, <1>3 DEF StrandInv
  <2>2. job'.pc = "strand" => Apart(job'.ids) /\ ToSet(job'.ids) \cap (IdsOf(queue') \cup started') = {}
    BY <1>1, <1>2 DEF StrandInv
  <2> QED BY <1>3, <2>1, <2>2 DEF StrandInv
<1>8. AskInv'
  <2>1. (delivered' \cup reported') \cap asked' = {}
    BY <1>1 DEF AskInv
  <2>2. asked' \subseteq replies' \cup IdsOf(queue') \cup ToSet(job'.ids)
    BY <1>1, <1>2 DEF AskInv, PromptKept
  <2>3. \A i \in ToSet(queue') : Synthetic(i) => i.id \notin asked'
    OBVIOUS
  <2> QED BY <2>1, <2>2, <2>3 DEF AskInv, PromptKept, IdsOf, ToSet, Synthetic
<1>9. JobInv'
  BY <1>1, <1>2 DEF JobInv
<1>10. DriveInv'
  <2>1. QueueIsDriven'
    BY <1>1 DEF DriveInv, QueueIsDriven, ToSet
  <2>2. (pin # None => pin \in DOMAIN live \cup ToSet(done) \/ job.pc = "cancelled")'
    BY <1>1 DEF DriveInv, ToSet
  <2>3. InterjectionsLand'
    BY <1>1 DEF DriveInv, InterjectionsLand
  <2> QED BY <2>1, <2>2, <2>3 DEF DriveInv
<1> QED BY <1>4, <1>5, <1>6, <1>7, <1>8, <1>9, <1>10 DEF IInv

\* The rows are ids of the queue, of user prompts, and never the running one.
LEMMA RowsFacts ==
  /\ Rows \subseteq IdsOf(queue) /\ task \notin Rows
  /\ \A id \in Rows : \E i \in ToSet(queue) : i.id = id /\ i.kind = "prompt"
BY IdsOfToSet DEF Rows

LEMMA EmptyWithout ==
  ASSUME NEW S, queue = <<>>
  PROVE  Without(S) = <<>>
<1>1. queue \in Seq(Items) /\ ToSet(queue) = {}
  BY EmptySeq, EmptyToSet
<1>2. Without(S) \in Seq(Items) /\ ToSet(Without(S)) = {}
  BY <1>1, WithoutFacts
<1>3. PICK w \in Seq(Items) : w = Without(S) /\ ToSet(w) = {}
  BY <1>2
<1>4. DOMAIN w = {} /\ DOMAIN w = 1..Len(w) /\ Len(w) \in Nat
  BY <1>3, LenProperties DEF ToSet
<1>5. Len(w) = 0
  BY <1>4
<1> QED BY <1>3, <1>5, EmptySeq

\* What the edits leave alone, spelled out.
LEMMA EditsSame ==
  ASSUME IInv, Receives, UNCHANGED Edits
  PROVE  /\ UNCHANGED <<task, done, pin, live, started, ran, minted, asked, starters>>
         /\ UNCHANGED <<told, delivered, reported>>
         /\ told' \subseteq 1..minted /\ delivered' \cup reported' \subseteq delivered \cup reported
         /\ NoteInv' /\ FlagInv'
         /\ job.pc = "idle"
<1>1. /\ UNCHANGED <<task, done, pin, live, started, ran, minted, asked, starters>>
      /\ UNCHANGED <<told, delivered, reported, notes, events>>
      /\ UNCHANGED <<suppressed, rewindable, gate, waits>>
  BY DEF Edits, wakes, turnFlags, promoted
<1>2. NoteInv /\ FlagInv /\ told \subseteq 1..minted
  BY DEF IInv, TypeInv, IdInv
<1>3. NoteInv'
  BY <1>1, <1>2 DEF NoteInv
<1>4. FlagInv'
  BY <1>1, <1>2 DEF FlagInv
<1> QED BY <1>1, <1>2, <1>3, <1>4 DEF Receives

LEMMA RemoveRowsStep ==
  ASSUME IInv, RemoveRows
  PROVE  IInv'
<1>1. PICK S : /\ S \subseteq Rows /\ Receives /\ queue' = Without(S) /\ replies' = replies \cup S
               /\ UNCHANGED <<job, inter>> /\ UNCHANGED Edits
  BY DEF RemoveRows
<1>2. /\ queue \in Seq(Items) /\ Distinct(queue) /\ IdsOf(queue) \subseteq 1..minted
      /\ replies \subseteq 1..minted
      /\ (task # None => queue # <<>> /\ queue[1].id = task)
      /\ \A i \in ToSet(queue) : Synthetic(i) => i.id \notin asked
  BY DEF IInv, TypeInv, SchedInv, IdInv, TurnInv, AskInv
<1>3. S \subseteq IdsOf(queue) /\ task \notin S
  BY <1>1, RowsFacts
<1>4. /\ queue' \in Seq(Items) /\ Distinct(queue')
      /\ ToSet(queue') = {i \in ToSet(queue) : i.id \notin S}
      /\ queue # <<>> /\ queue[1].id \notin S => queue' # <<>> /\ queue'[1] = queue[1]
  BY <1>1, <1>2, WithoutFacts
<1>5. queue = <<>> => queue' = <<>>
  BY <1>1, EmptyWithout
<1>6. IdsOf(queue') \subseteq IdsOf(queue) /\ IdsOf(queue) \subseteq IdsOf(queue') \cup S
  BY <1>4, IdsOfToSet
<1>7. replies' \subseteq 1..minted
  BY <1>1, <1>2, <1>3
<1> QED BY <1>1, <1>2, <1>3, <1>4, <1>5, <1>6, <1>7, EditsSame, EditKeeps

LEMMA ReorderStep ==
  ASSUME IInv, Reorder
  PROVE  IInv'
<1>1. PICK order \in SetToSeqs(Rows) :
        /\ Receives
        /\ queue' = Without(Rows) \o
                    [n \in DOMAIN order |-> CHOOSE i \in ToSet(queue) : i.id = order[n]]
        /\ UNCHANGED <<job, inter, replies>> /\ UNCHANGED Edits
  BY DEF Reorder
<1>2. /\ queue \in Seq(Items) /\ Distinct(queue) /\ replies \subseteq 1..minted
      /\ (task # None => queue # <<>> /\ queue[1].id = task)
      /\ \A i \in ToSet(queue) : Synthetic(i) => i.id \notin asked
  BY DEF IInv, TypeInv, SchedInv, IdInv, TurnInv, AskInv
<1>3. /\ queue' \in Seq(Items) /\ ToSet(queue') = ToSet(queue) /\ Distinct(queue')
      /\ task # None => queue' # <<>> /\ queue'[1] = queue[1]
  BY ONLY <1>1, <1>2, ReorderFacts
<1>4. IdsOf(queue') = IdsOf(queue)
  BY <1>3, IdsOfToSet
<1>5. queue = <<>> => queue' = <<>>
  <2>1. SUFFICES ASSUME queue = <<>>
                 PROVE  queue' = <<>>
    OBVIOUS
  <2>2. PICK w \in Seq(Items) : w = queue' /\ ToSet(w) = {}
    BY <1>3, <2>1, EmptyToSet
  <2>3. DOMAIN w = {} /\ DOMAIN w = 1..Len(w) /\ Len(w) \in Nat
    BY <2>2, LenProperties DEF ToSet
  <2>4. Len(w) = 0
    BY <2>3
  <2> QED BY <2>2, <2>4, EmptySeq
<1> QED BY <1>1, <1>2, <1>3, <1>4, <1>5, EditsSame, EditKeeps

LEMMA EditStep ==
  ASSUME IInv, Edit
  PROVE  IInv'
<1>1. PICK n \in DOMAIN queue :
        /\ Receives /\ queue[n].id \in Rows /\ queue[n].ver < MaxEdits
        /\ queue' = [queue EXCEPT ![n].ver = @ + 1]
        /\ UNCHANGED <<job, inter, replies>> /\ UNCHANGED Edits
  BY DEF Edit
<1>2. /\ queue \in Seq(Items) /\ Distinct(queue) /\ replies \subseteq 1..minted
      /\ (task # None => queue # <<>> /\ queue[1].id = task)
      /\ \A i \in ToSet(queue) : Synthetic(i) => i.id \notin asked
  BY DEF IInv, TypeInv, SchedInv, IdInv, TurnInv, AskInv
<1>3. Len(queue) \in Nat /\ DOMAIN queue = 1..Len(queue) /\ queue \in [1..Len(queue) -> Items]
  BY <1>2, LenProperties
<1>4. PICK e : e = [queue[n] EXCEPT !.ver = @ + 1]
  OBVIOUS
<1>5. e \in Items /\ e.id = queue[n].id /\ e.kind = queue[n].kind
  <2>1. queue[n] \in Items
    BY <1>3
  <2>2. queue[n].ver + 1 \in 0..MaxEdits
    BY <1>1, <2>1, NoneIsNoId DEF Items
  <2> QED BY <1>4, <2>1, <2>2 DEF Items
<1>6. queue' = [queue EXCEPT ![n] = e]
  BY <1>1, <1>4
<1>7. queue' \in Seq(Items) /\ DOMAIN queue' = DOMAIN queue
  BY <1>2, <1>3, <1>5, <1>6, ExceptSeq
<1>8. \A m \in DOMAIN queue : /\ queue'[m].id = queue[m].id /\ queue'[m].kind = queue[m].kind
                              /\ m # n => queue'[m] = queue[m]
  BY <1>5, <1>6
<1>9. Distinct(queue')
  BY <1>2, <1>7, <1>8 DEF Distinct
<1>10. IdsOf(queue') = IdsOf(queue)
  BY <1>7, <1>8 DEF IdsOf
<1>11. \A i \in ToSet(queue') : Synthetic(i) => i.id \notin asked
  BY <1>2, <1>7, <1>8 DEF ToSet, Synthetic
<1>12. ASSUME task # None
       PROVE  queue' # <<>> /\ queue'[1] = queue[1]
  <2>1. n # 1
    BY <1>1, <1>2, <1>12, RowsFacts
  <2>2. 1 \in DOMAIN queue
    BY <1>2, <1>3, <1>12, EmptySeq
  <2>3. queue' # <<>>
    <3>1. DOMAIN queue' # {}
      BY <1>7
    <3>2. DOMAIN <<>> = {}
      OBVIOUS
    <3> QED BY <3>1, <3>2
  <2> QED BY <1>8, <2>1, <2>2, <2>3
<1>13. queue # <<>>
  <2>1. DOMAIN <<>> = {}
    OBVIOUS
  <2> QED BY <2>1
<1> QED BY <1>1, <1>2, <1>7, <1>9, <1>10, <1>11, <1>12, <1>13, EditsSame, EditKeeps

LEMMA SendNowRowStep ==
  ASSUME IInv, SendNowRow
  PROVE  IInv'
<1>0. PICK n \in DOMAIN queue, edit \in {0, 1} :
        /\ Receives
        /\ queue[n].id \in Rows /\ queue[n].ver + edit <= MaxEdits
        /\ queue' = InsertAt(RemoveAt(queue, n), NowSlot(RemoveAt(queue, n)),
                             [queue[n] EXCEPT !.now = TRUE, !.ver = @ + edit])
        /\ IF task # None /\ ~gate
           THEN inter' = <<>> /\ job' = [At("cancel") EXCEPT !.why = "send_now"]
           ELSE inter' = inter /\ job' = At("start")
        /\ UNCHANGED replies /\ UNCHANGED Edits
  BY DEF SendNowRow
<1>1. PICK q, e :
        /\ q = RemoveAt(queue, n)
        /\ e = [queue[n] EXCEPT !.now = TRUE, !.ver = @ + edit]
        /\ Receives
        /\ queue[n].id \in Rows /\ queue[n].ver + edit <= MaxEdits
        /\ queue' = InsertAt(q, NowSlot(q), e)
        /\ IF task # None /\ ~gate
           THEN inter' = <<>> /\ job' = [At("cancel") EXCEPT !.why = "send_now"]
           ELSE inter' = inter /\ job' = At("start")
        /\ UNCHANGED replies /\ UNCHANGED Edits
  BY <1>0
<1>2. /\ queue \in Seq(Items) /\ Distinct(queue) /\ replies \subseteq 1..minted
      /\ (task # None => queue # <<>> /\ queue[1].id = task)
      /\ \A i \in ToSet(queue) : Synthetic(i) => i.id \notin asked
  BY DEF IInv, TypeInv, SchedInv, IdInv, TurnInv, AskInv
<1>3. Len(queue) \in Nat /\ DOMAIN queue = 1..Len(queue) /\ queue \in [1..Len(queue) -> Items]
  BY <1>2, LenProperties
<1>4. e \in Items /\ e.id = queue[n].id /\ e.kind = queue[n].kind
  <2>1. queue[n] \in Items
    BY <1>3
  <2>2. queue[n].ver + edit \in 0..MaxEdits
    BY <1>1, <2>1, NoneIsNoId DEF Items
  <2> QED BY <1>1, <2>1, <2>2 DEF Items
<1>5. queue[n].kind = "prompt"
  <2>1. PICK i \in ToSet(queue) : i.id = queue[n].id /\ i.kind = "prompt"
    BY <1>1, RowsFacts
  <2>2. queue[n] \in ToSet(queue)
    BY DEF ToSet
  <2> QED BY <1>2, <2>1, <2>2, DistinctItems
<1>6. task # None => n # 1
  BY <1>1, <1>2, RowsFacts
<1>7. /\ q \in Seq(Items) /\ ToSet(q) \cup {queue[n]} = ToSet(queue)
      /\ Distinct(q) /\ queue[n].id \notin IdsOf(q)
      /\ task # None => q # <<>> /\ q[1] = queue[1]
  BY <1>1, <1>2, <1>6, RemoveAtFacts
<1>8. PICK m \in 1..(Len(q) + 1) : m = NowSlot(q) /\ (task # None => m # 1)
  BY <1>2, <1>7, NowSlotFacts
<1>9. /\ InsertAt(q, m, e) \in Seq(Items)
      /\ ToSet(InsertAt(q, m, e)) = ToSet(q) \cup {e}
      /\ Distinct(q) /\ e.id \notin IdsOf(q) => Distinct(InsertAt(q, m, e))
      /\ InsertAt(q, m, e) # <<>>
      /\ m # 1 => InsertAt(q, m, e)[1] = q[1]
  BY <1>4, <1>7, InsertAtFacts
<1>10. /\ queue' \in Seq(Items) /\ Distinct(queue') /\ ToSet(queue') = ToSet(q) \cup {e}
       /\ task # None => queue' # <<>> /\ queue'[1] = queue[1]
  BY <1>1, <1>4, <1>7, <1>8, <1>9
<1>11. IdsOf(queue') = IdsOf(queue)
  BY <1>4, <1>7, <1>10, IdsOfToSet
<1>12. \A i \in ToSet(queue') : Synthetic(i) => i.id \notin asked
  BY <1>2, <1>4, <1>5, <1>7, <1>10 DEF Synthetic
<1>13. queue # <<>>
  <2>1. DOMAIN <<>> = {}
    OBVIOUS
  <2> QED BY <2>1
<1>14. /\ job' \in Jobs /\ job'.ids = <<>>
       /\ \/ job'.pc = "start" /\ inter' = inter
          \/ job'.pc = "cancel" /\ inter' = <<>>
  BY <1>1, AtFacts, CancelJobFacts
<1> QED BY <1>1, <1>2, <1>10, <1>11, <1>12, <1>13, <1>14, EditsSame, EditKeeps

\* A tool result sweeps the wakes it consumed; none of them was asked for.
LEMMA TurnToolStep ==
  ASSUME IInv, NEW t, TurnTool(t)
  PROVE  IInv'
<1>1. PICK polled : /\ polled \subseteq delivered \cup reported
                    /\ queue' = Without(polled \ {task}) /\ notes' \in 0..notes
                    /\ told' = told \cup polled
                    /\ reported' = delivered \cup reported /\ delivered' = {}
                    /\ UNCHANGED <<job, starters, task, suppressed, started, ran, clients,
                                   minted, pin, live, done, inter, events, turnFlags, rewindable>>
  BY DEF TurnTool, Sweep
<1>2. /\ queue \in Seq(Items) /\ Distinct(queue) /\ replies \subseteq 1..minted
      /\ (task # None => queue # <<>> /\ queue[1].id = task)
      /\ \A i \in ToSet(queue) : Synthetic(i) => i.id \notin asked
      /\ (delivered \cup reported) \cap asked = {}
      /\ told \cup delivered \cup reported \subseteq 1..minted
      /\ NoteInv /\ FlagInv
  BY DEF IInv, TypeInv, SchedInv, IdInv, TurnInv, AskInv
<1>3. /\ UNCHANGED <<task, done, pin, live, started, ran, minted, asked, starters>>
      /\ UNCHANGED <<job, inter, replies, events>>
      /\ UNCHANGED <<suppressed, rewindable, gate, waits>>
  BY <1>1 DEF clients, turnFlags
<1>4. PICK S : S = polled \ {task}
  OBVIOUS
<1>5. /\ queue' \in Seq(Items) /\ Distinct(queue')
      /\ ToSet(queue') = {i \in ToSet(queue) : i.id \notin S}
      /\ queue # <<>> /\ queue[1].id \notin S => queue' # <<>> /\ queue'[1] = queue[1]
  BY <1>1, <1>2, <1>4, WithoutFacts
<1>6. queue = <<>> => queue' = <<>>
  BY <1>1, EmptyWithout
<1>7. IdsOf(queue') \subseteq IdsOf(queue) /\ IdsOf(queue) \subseteq IdsOf(queue') \cup S
  BY <1>5, IdsOfToSet
<1>8. asked \cap IdsOf(queue) \subseteq IdsOf(queue') \cup replies'
  BY <1>1, <1>2, <1>4, <1>7
<1>9. NoteInv'
  <2>1. notes \in Nat /\ events \in Nat /\ notes + events <= MaxNotes /\ MaxNotes \in Nat
    BY <1>2, NoneIsNoId DEF NoteInv
  <2>2. notes' \in 0..notes /\ events' = events
    BY <1>1, <1>3
  <2>3. notes' \in Nat /\ notes' + events <= MaxNotes
    <3>1. PICK m : m = notes'
      OBVIOUS
    <3>2. m \in Int /\ 0 <= m /\ m <= notes
      BY <2>1, <2>2, <3>1
    <3>3. m \in Nat /\ m + events <= MaxNotes
      BY ONLY <2>1, <3>2
    <3> QED BY <3>1, <3>3
  <2> QED BY <2>1, <2>2, <2>3 DEF NoteInv
<1>10. FlagInv'
  BY <1>2, <1>3 DEF FlagInv
<1>11. told' \subseteq 1..minted /\ delivered' \cup reported' \subseteq delivered \cup reported
  BY <1>1, <1>2
<1>12. \A i \in ToSet(queue') : Synthetic(i) => i.id \notin asked
  BY <1>2, <1>5
<1>13. task # None => queue' # <<>> /\ queue'[1] = queue[1]
  BY <1>2, <1>4, <1>5
<1> QED BY <1>2, <1>3, <1>5, <1>6, <1>7, <1>8, <1>9, <1>10, <1>11, <1>12, <1>13, EditKeeps

-----------------------------------------------------------------------------
(* Cancelling.                                                             *)

LEMMA CancelStep ==
  ASSUME IInv, NEW why \in {"esc", "rewind", "hard"}, Cancel(why)
  PROVE  IInv'
<1>1. Receives /\ inter' = <<>> /\ job' = [At("cancel") EXCEPT !.why = why]
  BY DEF Cancel
<1>2. /\ UNCHANGED <<queue, task, done, pin, live, started, ran, minted, asked, starters, replies>>
      /\ UNCHANGED <<told, delivered, reported, notes, events>>
      /\ UNCHANGED <<suppressed, rewindable, gate, waits>>
  BY DEF Cancel, state, wakes, clients, turnFlags, promoted
<1>3. /\ queue \in Seq(Items) /\ Distinct(queue) /\ replies \subseteq 1..minted
      /\ (task # None => queue # <<>> /\ queue[1].id = task)
      /\ \A i \in ToSet(queue) : Synthetic(i) => i.id \notin asked
      /\ told \subseteq 1..minted /\ NoteInv /\ FlagInv
  BY DEF IInv, TypeInv, SchedInv, IdInv, TurnInv, AskInv
<1>4. NoteInv'
  BY <1>2, <1>3 DEF NoteInv
<1>5. FlagInv'
  BY <1>2, <1>3 DEF FlagInv
<1>6. job.pc = "idle" /\ job' \in Jobs /\ job'.ids = <<>> /\ job'.pc = "cancel"
  BY <1>1, CancelJobFacts DEF Receives
<1>7. IdsOf(queue') = IdsOf(queue) /\ ToSet(queue') = ToSet(queue) /\ Distinct(queue')
  BY <1>2, <1>3
<1> QED BY <1>1, <1>2, <1>3, <1>4, <1>5, <1>6, <1>7, EditKeeps

\* The monitor buffer moves to the notifications, or both are dropped.
LEMMA SweepNotes ==
  ASSUME NoteInv, (notes' = 0 /\ events' = 0) \/ SweepMonitorBuffer
  PROVE  NoteInv'
<1>1. notes \in Nat /\ events \in Nat /\ notes + events <= MaxNotes /\ MaxNotes \in Nat
  BY NoneIsNoId DEF NoteInv
<1>2. (notes' = 0 \/ notes' = notes + events) /\ events' = 0
  BY DEF SweepMonitorBuffer
<1> QED BY <1>1, <1>2 DEF NoteInv

\* cancel_running_task takes the task and the front under the lock.
LEMMA CancelTakeStep ==
  ASSUME IInv, CancelTake
  PROVE  IInv'
<1>1. SchedInv /\ NoteInv /\ FlagInv /\ TurnInv /\ IdInv /\ StrandInv /\ AskInv /\ JobInv /\ DriveInv
  BY DEF IInv, TypeInv
<1>2. job.pc = "cancel" /\ job.ids = <<>> /\ inter = <<>> /\ job \in Jobs
  BY <1>1 DEF CancelTake, JobInv, SchedInv
<1>a. PICK n : n = IF job.why = "hard" \/ queue = <<>> THEN Len(queue) ELSE 1
  OBVIOUS
<1>b. PICK rewinds \in BOOLEAN : rewinds = (job.why = "rewind" /\ rewindable /\ queue # <<>>)
  OBVIOUS
<1>3. /\ queue' = SubSeq(queue, n + 1, Len(queue))
      /\ task' = None
      /\ suppressed' = ~rewinds
      /\ rewindable' = IF job.why = "rewind" THEN FALSE ELSE rewindable
      /\ live' = IF rewinds THEN Stopped(task) ELSE live
      /\ job' = [pc |-> "cancelled", ids |-> [k \in 1..n |-> queue[k].id],
                 taken |-> IF rewinds THEN None ELSE task,
                 why |-> IF rewinds \/ job.why # "rewind" THEN job.why ELSE "esc"]
  BY <1>a, <1>b, Zenon DEF CancelTake
<1>4. /\ UNCHANGED <<pin, started, ran, done, starters, inter, minted, asked, replies>>
      /\ UNCHANGED <<told, delivered, reported, gate, waits>>
  BY DEF CancelTake, wakes, clients, turnFlags
<1>5. NoteInv'
  BY <1>1, SweepNotes DEF CancelTake
<1>6. queue \in Seq(Items) /\ Len(queue) \in Nat /\ DOMAIN queue = 1..Len(queue)
      /\ queue \in [1..Len(queue) -> Items]
  BY <1>1, LenProperties DEF SchedInv
<1>7. n \in 0..Len(queue) /\ (queue # <<>> => n >= 1)
  <2>1. queue # <<>> => Len(queue) >= 1
    BY <1>6, EmptySeq
  <2>2. n = Len(queue) \/ (queue # <<>> /\ n = 1)
    BY <1>a
  <2> QED BY <1>6, <2>1, <2>2
<1>8. /\ queue' \in Seq(Items) /\ ToSet(queue') \subseteq ToSet(queue)
      /\ \A m \in DOMAIN queue : m <= n \/ queue[m] \in ToSet(queue')
      /\ Distinct(queue') /\ (n >= 1 => queue[1].id \notin IdsOf(queue'))
  <2>1. PICK k \in 0..Len(queue) : k = n
    BY <1>7
  <2>2. Distinct(queue)
    BY <1>1 DEF IdInv
  <2> QED BY <1>3, <1>6, <2>1, <2>2, DropFacts
<1>9. PICK ids : ids = [k \in 1..n |-> queue[k].id]
  OBVIOUS
<1>10. ids \in Seq(Ids) /\ DOMAIN ids = 1..n /\ \A k \in 1..n : k \in DOMAIN queue /\ ids[k] = queue[k].id
  <2>1. n \in Nat /\ 1..n \subseteq 1..Len(queue)
    BY <1>6, <1>7
  <2>2. \A k \in 1..n : queue[k].id \in Ids
    BY <1>6, <2>1 DEF Items
  <2>3. ids \in [1..n -> Ids]
    BY <1>9, <2>2
  <2> QED BY <1>6, <1>9, <2>1, <2>3, SeqDef
<1>11. /\ job'.pc = "cancelled" /\ job'.ids = ids /\ job'.taken \in {None, task}
       /\ job' \in Jobs
  <2>1. job.why \in {"none", "send_now", "esc", "rewind", "hard"} /\ task \in Ids \cup {None}
    BY <1>1, <1>2 DEF Jobs, SchedInv
  <2> QED BY <1>3, <1>9, <1>10, <2>1 DEF Jobs
<1>12. IdsOf(queue') \subseteq IdsOf(queue) /\ ToSet(ids) \subseteq IdsOf(queue)
  BY <1>8, <1>10, IdsOfToSet DEF IdsOf, ToSet
<1>13. IdsOf(queue) \subseteq IdsOf(queue') \cup ToSet(ids)
  <2>1. SUFFICES ASSUME NEW m \in DOMAIN queue
                 PROVE  queue[m].id \in IdsOf(queue') \cup ToSet(ids)
    BY DEF IdsOf
  <2>2. CASE m <= n
    <3>1. m \in 1..n
      BY <1>6, <1>7, <2>2
    <3> QED BY <1>10, <3>1 DEF ToSet
  <2>3. CASE ~(m <= n)
    BY <1>8, <2>3, IdsOfToSet
  <2> QED BY <2>2, <2>3
<1>14. DOMAIN live' \subseteq DOMAIN live /\ \A t \in DOMAIN live' : live'[t] = live[t]
  BY <1>3 DEF Stopped
<1>15. TypeInv'
  <2>1. SchedInv'
    BY <1>1, <1>3, <1>4, <1>8, <1>11, <1>14 DEF SchedInv
  <2>2. FlagInv'
    <3>1. suppressed' \in BOOLEAN
      BY <1>3
    <3>2. rewindable' \in BOOLEAN
      BY <1>1, <1>3 DEF FlagInv
    <3> QED BY <1>1, <1>4, <3>1, <3>2 DEF FlagInv
  <2> QED BY <1>5, <2>1, <2>2 DEF TypeInv
<1>16. TurnInv'
  <2>1. IdsOf(queue') \cap started = {}
    <3>1. None \notin IdsOf(queue)
      BY <1>1, QueueAssumption DEF IdInv
    <3>2. task # None => task \notin IdsOf(queue')
      BY <1>1, <1>7, <1>8 DEF TurnInv
    <3> QED BY <1>1, <1>12, <3>1, <3>2 DEF TurnInv
  <2> QED BY <1>3, <1>4, <2>1 DEF TurnInv
<1>17. IdInv'
  <2>1. IdsOf(queue') \cup ToSet(inter') \cup ToSet(job'.ids) \subseteq 1..minted
    BY <1>1, <1>4, <1>11, <1>12 DEF IdInv
  <2>2. started' \cup asked' \cup replies' \cup told' \cup delivered' \cup reported' \subseteq 1..minted
    BY <1>1, <1>4 DEF IdInv
  <2> QED BY <1>4, <1>8, <2>1, <2>2 DEF IdInv
<1>18. StrandInv'
  BY <1>2, <1>4, <1>11, EmptyToSet DEF StrandInv
<1>19. AskInv'
  <2>1. asked \subseteq replies \cup IdsOf(queue)
    BY <1>1, <1>2, EmptyToSet DEF AskInv, PromptKept
  <2>2. asked' \subseteq replies' \cup IdsOf(queue') \cup ToSet(job'.ids)
    BY <1>4, <1>11, <1>13, <2>1
  <2>3. \A i \in ToSet(queue') : Synthetic(i) => i.id \notin asked'
    BY <1>1, <1>4, <1>8 DEF AskInv
  <2>4. (delivered' \cup reported') \cap asked' = {}
    BY <1>1, <1>4 DEF AskInv
  <2> QED BY <2>2, <2>3, <2>4 DEF AskInv, PromptKept, IdsOf, ToSet, Synthetic
<1>20. JobInv'
  BY <1>1, <1>2, <1>3, <1>4, <1>11 DEF JobInv, TurnInv
<1>21. DriveInv'
  BY <1>2, <1>3, <1>4, <1>11 DEF DriveInv, QueueIsDriven, InterjectionsLand
<1> QED BY <1>15, <1>16, <1>17, <1>18, <1>19, <1>20, <1>21 DEF IInv

\* The turn is aborted and unpinned and its prompt answered.
LEMMA CancelFinishStep ==
  ASSUME IInv, CancelFinish
  PROVE  IInv'
<1>1. SchedInv /\ NoteInv /\ FlagInv /\ TurnInv /\ IdInv /\ StrandInv /\ AskInv /\ JobInv /\ DriveInv
  BY DEF IInv, TypeInv
<1>2. /\ job.pc = "cancelled" /\ live' = Stopped(job.taken) /\ pin' = None
      /\ gate' = FALSE /\ waits' = FALSE
      /\ rewindable' = (rewindable /\ job.taken = None)
      /\ suppressed' = (suppressed /\ job.why # "send_now")
      /\ delivered' \subseteq delivered
      /\ replies' = replies \cup (asked \cap ToSet(job.ids))
      /\ job' = At("start")
      /\ UNCHANGED <<queue, task, notes, started, ran, done, starters, inter, events,
                     reported, told, asked, minted>>
  BY DEF CancelFinish
<1>3. job' \in Jobs /\ job'.pc = "start" /\ job'.ids = <<>> /\ inter = <<>>
  BY <1>1, <1>2, AtFacts DEF JobInv
<1>4. DOMAIN live' = DOMAIN live \ {job.taken} /\ \A t \in DOMAIN live' : live'[t] = live[t]
  BY <1>2 DEF Stopped
<1>5. TypeInv'
  <2>1. SchedInv'
    BY <1>1, <1>2, <1>3, <1>4 DEF SchedInv
  <2>2. FlagInv'
    BY <1>2, Zenon DEF FlagInv
  <2>3. NoteInv'
    BY <1>1, <1>2 DEF NoteInv
  <2> QED BY <2>1, <2>2, <2>3 DEF TypeInv
<1>6. TurnInv'
  BY <1>1, <1>2 DEF TurnInv, IdsOf
<1>7. IdInv'
  <2>1. IdsOf(queue') \cup ToSet(inter') \cup ToSet(job'.ids) \subseteq 1..minted
    BY <1>1, <1>2, <1>3, EmptyToSet DEF IdInv
  <2>2. started' \cup asked' \cup replies' \cup told' \cup delivered' \cup reported' \subseteq 1..minted
    BY <1>1, <1>2 DEF IdInv
  <2>3. Distinct(queue')
    BY <1>1, <1>2 DEF IdInv
  <2> QED BY <1>2, <2>1, <2>2, <2>3 DEF IdInv
<1>8. StrandInv'
  BY <1>2, <1>3, EmptyToSet DEF StrandInv
<1>9. AskInv'
  <2>1. asked' \subseteq replies' \cup IdsOf(queue')
    BY <1>1, <1>2 DEF AskInv, PromptKept
  <2>2. \A i \in ToSet(queue') : Synthetic(i) => i.id \notin asked'
    BY <1>1, <1>2 DEF AskInv
  <2>3. (delivered' \cup reported') \cap asked' = {}
    BY <1>1, <1>2 DEF AskInv
  <2> QED BY <2>1, <2>2, <2>3 DEF AskInv, PromptKept, IdsOf, ToSet, Synthetic
<1>10. JobInv'
  BY <1>3 DEF JobInv
<1>11. DriveInv'
  <2>1. task # None => task \in DOMAIN live' \cup ToSet(done)
    BY <1>1, <1>2, <1>4 DEF DriveInv, QueueIsDriven, JobInv
  <2> QED BY <1>2, <1>3, <2>1 DEF DriveInv, QueueIsDriven, InterjectionsLand, ToSet
<1> QED BY <1>5, <1>6, <1>7, <1>8, <1>9, <1>10, <1>11 DEF IInv

-----------------------------------------------------------------------------
(* Completions and the flush of stranded interjections.                    *)

\* The first of a sequence of ids and the rest are all of it.
LEMMA HeadTailIds ==
  ASSUME NEW s \in Seq(Ids), s # <<>>
  PROVE  /\ Head(s) \in Ids /\ Tail(s) \in Seq(Ids)
         /\ ToSet(s) = ToSet(Tail(s)) \cup {Head(s)}
<1>1. /\ Head(s) \in Ids /\ Tail(s) \in Seq(Ids) /\ Len(Tail(s)) = Len(s) - 1
      /\ \A i \in 1..Len(Tail(s)) : Tail(s)[i] = s[i + 1]
  BY HeadTailProperties
<1>2. PICK r \in Seq(Ids) : r = Tail(s)
  BY <1>1
<1>3. Len(s) \in Nat /\ Len(s) >= 1 /\ DOMAIN s = 1..Len(s) /\ DOMAIN r = 1..(Len(s) - 1)
  BY <1>1, <1>2, LenProperties, EmptySeq
<1>4. Head(s) = s[1]
  OBVIOUS
<1>5. \A i \in 1..Len(s) : s[i] \in ToSet(r) \cup {s[1]}
  <2>1. SUFFICES ASSUME NEW i \in 1..Len(s), i # 1
                 PROVE  s[i] \in ToSet(r)
    OBVIOUS
  <2>2. i - 1 \in 1..(Len(s) - 1) /\ (i - 1) + 1 = i
    BY <1>3, <2>1
  <2>3. r[i - 1] = s[i]
    BY <1>1, <1>2, <2>2
  <2> QED BY <1>3, <2>2, <2>3 DEF ToSet
<1>6. \A i \in DOMAIN r : r[i] \in ToSet(s)
  <2>1. SUFFICES ASSUME NEW i \in 1..(Len(s) - 1)
                 PROVE  r[i] \in ToSet(s)
    BY <1>3
  <2>2. i + 1 \in 1..Len(s) /\ r[i] = s[i + 1]
    BY <1>1, <1>2, <1>3
  <2> QED BY <1>3, <2>2 DEF ToSet
<1>7. s[1] \in ToSet(s)
  BY <1>3 DEF ToSet
<1>8. ToSet(s) = ToSet(r) \cup {s[1]}
  BY <1>3, <1>5, <1>6, <1>7 DEF ToSet
<1> QED BY <1>1, <1>2, <1>4, <1>8

\* The last one and the ones before it.
LEMMA FrontLastIds ==
  ASSUME NEW s \in Seq(Ids), s # <<>>, Apart(s)
  PROVE  /\ Last(s) \in Ids /\ Front(s) \in Seq(Ids) /\ Apart(Front(s))
         /\ ToSet(s) = ToSet(Front(s)) \cup {Last(s)} /\ Last(s) \notin ToSet(Front(s))
<1>0. PICK c : c = Len(s)
  OBVIOUS
<1>1. c \in Nat /\ c >= 1 /\ DOMAIN s = 1..c /\ s \in [1..c -> Ids]
  BY <1>0, LenProperties, EmptySeq
<1>2. PICK f : f = SubSeq(s, 1, c - 1) /\ f = Front(s)
  BY <1>0 DEF Front
<1>3. /\ f \in Seq(Ids) /\ Len(f) = c - 1 /\ \A i \in 1..(c - 1) : f[i] = s[i]
  <2>1. \A i \in 1..(c - 1) : s[i] \in Ids
    BY <1>1
  <2>2. c - 1 \in Int /\ 1 \in Int
    BY <1>1
  <2>3. /\ f \in Seq(Ids) /\ Len(f) = IF 1 <= c - 1 THEN (c - 1) - 1 + 1 ELSE 0
        /\ \A i \in 1..((c - 1) - 1 + 1) : f[i] = s[1 + i - 1]
    BY <1>2, <2>1, <2>2, SubSeqProperties
  <2> QED BY <1>1, <2>3
<1>4. DOMAIN f = 1..(c - 1)
  BY <1>3, LenProperties
<1>5. PICK l : l = s[c] /\ l = Last(s) /\ l \in Ids
  BY <1>0, <1>1 DEF Last
<1>6. \A i \in 1..c : i \in 1..(c - 1) \/ i = c
  BY <1>1
<1>7. \A i \in 1..(c - 1) : i \in 1..c /\ i # c
  BY <1>1
<1>8. c \in 1..c
  BY <1>1
<1>9. ToSet(s) = ToSet(f) \cup {l}
  BY <1>1, <1>3, <1>4, <1>5, <1>6, <1>7, <1>8 DEF ToSet
<1>10. l \notin ToSet(f) /\ Apart(f)
  BY <1>1, <1>3, <1>4, <1>5, <1>7, <1>8 DEF ToSet, Apart
<1> QED BY <1>2, <1>3, <1>5, <1>9, <1>10

LEMMA CompletionUnpinStep ==
  ASSUME IInv, CompletionUnpin
  PROVE  IInv'
<1>1. SchedInv /\ NoteInv /\ FlagInv /\ TurnInv /\ IdInv /\ StrandInv /\ AskInv /\ JobInv /\ DriveInv
  BY DEF IInv, TypeInv
<1>2. /\ job.pc = "idle" /\ done # <<>> /\ done' = Tail(done)
      /\ pin' = (IF pin = Head(done) THEN None ELSE pin)
      /\ gate' = (gate /\ pin' # None)
      /\ job' = [At("complete") EXCEPT !.taken = Head(done)]
      /\ UNCHANGED <<queue, task, suppressed, rewindable, notes, live, started, ran, starters, inter>>
      /\ UNCHANGED <<events, delivered, reported, told, asked, replies, waits, minted>>
  BY DEF CompletionUnpin, state, wakes, clients
<1>3. /\ Head(done) \in Ids /\ Tail(done) \in Seq(Ids)
      /\ ToSet(done) = ToSet(Tail(done)) \cup {Head(done)}
  BY <1>1, <1>2, HeadTailIds DEF SchedInv
<1>4. job' \in Jobs /\ job'.pc = "complete" /\ job'.ids = <<>> /\ job'.taken = Head(done)
  <2>1. <<>> \in Seq(Ids)
    BY EmptySeq
  <2> QED BY <1>2, <1>3, <2>1 DEF At, Idle, Jobs
<1>5. job.ids = <<>>
  BY <1>1, <1>2 DEF JobInv
<1>6. TypeInv'
  <2>1. SchedInv'
    BY <1>1, <1>2, <1>3, <1>4 DEF SchedInv
  <2>2. FlagInv'
    BY <1>1, <1>2, Zenon DEF FlagInv
  <2>3. NoteInv'
    BY <1>1, <1>2 DEF NoteInv
  <2> QED BY <2>1, <2>2, <2>3 DEF TypeInv
<1>7. TurnInv'
  BY <1>1, <1>2 DEF TurnInv, IdsOf
<1>8. IdInv'
  BY <1>1, <1>2, <1>4, <1>5 DEF IdInv, IdsOf, ToSet, Distinct
<1>9. StrandInv'
  BY <1>1, <1>2, <1>4 DEF StrandInv, IdsOf, ToSet, Apart
<1>10. AskInv'
  BY <1>1, <1>2, <1>4, <1>5 DEF AskInv, PromptKept, IdsOf, ToSet, Synthetic
<1>11. JobInv'
  BY <1>4 DEF JobInv
<1>12. DriveInv'
  <2>1. ToSet(done)' = ToSet(Tail(done))
    BY <1>2
  <2>2. task # None => task \in DOMAIN live \cup ToSet(done)
    BY <1>1, <1>2 DEF DriveInv, QueueIsDriven
  <2>3. pin # None => pin \in DOMAIN live \cup ToSet(done)
    BY <1>1, <1>2 DEF DriveInv
  <2> QED BY <1>2, <1>3, <1>4, <2>1, <2>2, <2>3 DEF DriveInv, QueueIsDriven, InterjectionsLand
<1> QED BY <1>6, <1>7, <1>8, <1>9, <1>10, <1>11, <1>12 DEF IInv

LEMMA CompletionPopStep ==
  ASSUME IInv, CompletionPop
  PROVE  IInv'
<1>1. SchedInv /\ NoteInv /\ FlagInv /\ TurnInv /\ IdInv /\ StrandInv /\ AskInv /\ JobInv /\ DriveInv
  BY DEF IInv, TypeInv
<1>a. PICK id : id = job.taken
  OBVIOUS
<1>b. PICK owned \in BOOLEAN : owned = (queue # <<>> /\ queue[1].id = id)
  OBVIOUS
<1>2. /\ job.pc = "complete" /\ owned = (queue # <<>> /\ queue[1].id = id) /\ id = job.taken
      /\ queue' = IF owned THEN Tail(queue) ELSE queue
      /\ replies' = IF owned THEN replies \cup (asked \cap {id}) ELSE replies
      /\ task' = IF owned \/ task = id THEN None ELSE task
      /\ rewindable' = (rewindable /\ ~owned)
      /\ SweepMonitorBuffer
      /\ job' = At("flush")
      /\ UNCHANGED <<suppressed, done, starters, inter, minted, asked, gate, waits>>
      /\ UNCHANGED <<pin, live, started, ran, delivered, reported, told>>
  BY <1>a, <1>b, Zenon DEF CompletionPop, wakes, turnFlags, promoted
<1>3. job' \in Jobs /\ job'.pc = "flush" /\ job'.ids = <<>> /\ job.ids = <<>>
  BY <1>1, <1>2, AtFacts DEF JobInv
<1>4. NoteInv'
  BY <1>1, <1>2, SweepNotes
<1>5. FlagInv'
  <2>1. rewindable' \in BOOLEAN
    BY <1>2, Zenon
  <2> QED BY <1>1, <1>2, <2>1 DEF FlagInv
<1>6. queue \in Seq(Items) /\ Distinct(queue) /\ Len(queue) \in Nat /\ DOMAIN queue = 1..Len(queue)
  BY <1>1, LenProperties DEF SchedInv, IdInv
<1>7. /\ queue' \in Seq(Items) /\ Distinct(queue') /\ ToSet(queue') \subseteq ToSet(queue)
      /\ owned => id \notin IdsOf(queue') /\ IdsOf(queue) \subseteq IdsOf(queue') \cup {id}
      /\ ~owned => queue' = queue
  <2>1. CASE owned
    <3>1. queue # <<>> /\ queue[1].id = id /\ queue' = Tail(queue)
      BY <1>2, <2>1
    <3>2. Tail(queue) = SubSeq(queue, 2, Len(queue)) /\ Len(queue) >= 1
      BY <1>6, <3>1, TailIsSubSeq, EmptySeq
    <3>3. PICK k \in 0..Len(queue) : k = 1 /\ k + 1 = 2
      BY <1>6, <3>2
    <3>4. queue' = SubSeq(queue, k + 1, Len(queue))
      BY <3>1, <3>2, <3>3
    <3>5. /\ queue' \in Seq(Items) /\ ToSet(queue') \subseteq ToSet(queue)
          /\ \A n \in DOMAIN queue : n <= k \/ queue[n] \in ToSet(queue')
          /\ Distinct(queue') /\ queue[1].id \notin IdsOf(queue')
      BY <1>6, <3>3, <3>4, DropFacts
    <3>6. \A n \in DOMAIN queue : n <= k => n = 1
      BY <1>6, <3>3
    <3>7. IdsOf(queue) \subseteq IdsOf(queue') \cup {id}
      <4>1. SUFFICES ASSUME NEW n \in DOMAIN queue
                     PROVE  queue[n].id \in IdsOf(queue') \cup {id}
        BY DEF IdsOf
      <4> QED BY <3>1, <3>5, <3>6, IdsOfToSet
    <3> QED BY <2>1, <3>1, <3>5, <3>7
  <2>2. CASE ~owned
    BY <1>2, <1>6, <2>2
  <2> QED BY <2>1, <2>2
<1>8. IdsOf(queue') \subseteq IdsOf(queue)
  BY <1>7, IdsOfToSet
<1>9. owned => task' = None /\ (task # None => task = id)
  BY <1>1, <1>2 DEF TurnInv
<1>10. ~owned => task' = task
  BY <1>1, <1>2 DEF TurnInv
<1>11. TypeInv'
  BY <1>1, <1>2, <1>3, <1>4, <1>5, <1>7, <1>9, <1>10 DEF TypeInv, SchedInv
<1>12. TurnInv'
  <2>1. CASE owned
    <3>1. None \notin IdsOf(queue)
      BY <1>1, QueueAssumption DEF IdInv
    <3>2. IdsOf(queue') \cap started = {}
      BY <1>1, <1>7, <1>8, <1>9, <2>1, <3>1 DEF TurnInv
    <3> QED BY <1>2, <1>9, <2>1, <3>2 DEF TurnInv
  <2>2. CASE ~owned
    BY <1>1, <1>2, <1>7, <1>10, <2>2, TurnSame
  <2> QED BY <2>1, <2>2
<1>13. IdInv'
  <2>1. IdsOf(queue') \cup ToSet(inter') \cup ToSet(job'.ids) \subseteq 1..minted
    BY <1>1, <1>2, <1>3, <1>8 DEF IdInv
  <2>2. started' \cup asked' \cup replies' \cup told' \cup delivered' \cup reported' \subseteq 1..minted
    BY <1>1, <1>2 DEF IdInv
  <2> QED BY <1>2, <1>7, <2>1, <2>2 DEF IdInv
<1>14. StrandInv'
  <2>1. ToSet(inter') \cap (IdsOf(queue') \cup started') = {} /\ Apart(inter')
    BY <1>1, <1>2, <1>8 DEF StrandInv
  <2> QED BY <1>3, <2>1 DEF StrandInv
<1>15. AskInv'
  <2>1. asked' \subseteq replies' \cup IdsOf(queue') \cup ToSet(job'.ids)
    BY <1>1, <1>2, <1>3, <1>7, EmptyToSet DEF AskInv, PromptKept
  <2>2. \A i \in ToSet(queue') : Synthetic(i) => i.id \notin asked'
    BY <1>1, <1>2, <1>7 DEF AskInv
  <2>3. (delivered' \cup reported') \cap asked' = {}
    BY <1>1, <1>2 DEF AskInv
  <2> QED BY <2>1, <2>2, <2>3 DEF AskInv, PromptKept, IdsOf, ToSet, Synthetic
<1>16. JobInv'
  BY <1>3 DEF JobInv
<1>17. DriveInv'
  <2>1. task' # None => task' \in DOMAIN live \cup ToSet(done)
    BY <1>1, <1>2, <1>9, <1>10 DEF DriveInv, QueueIsDriven, TurnInv
  <2>2. pin # None => pin \in DOMAIN live \cup ToSet(done)
    BY <1>1, <1>2 DEF DriveInv
  <2> QED BY <1>2, <1>3, <2>1, <2>2 DEF DriveInv, QueueIsDriven, InterjectionsLand, ToSet
<1> QED BY <1>11, <1>12, <1>13, <1>14, <1>15, <1>16, <1>17 DEF IInv

LEMMA FlushTakeStep ==
  ASSUME IInv, FlushTake
  PROVE  IInv'
<1>1. SchedInv /\ NoteInv /\ FlagInv /\ TurnInv /\ IdInv /\ StrandInv /\ AskInv /\ JobInv /\ DriveInv
  BY DEF IInv, TypeInv
<1>2. /\ job.pc = "flush" /\ job' = [At("strand") EXCEPT !.ids = inter] /\ inter' = <<>>
      /\ UNCHANGED <<queue, task, suppressed, rewindable, notes, done, starters, events, minted>>
      /\ UNCHANGED <<delivered, reported, told, asked, replies, gate, waits, pin, live, started, ran>>
  BY DEF FlushTake, state, wakes, clients, turnFlags, promoted
<1>3. job' \in Jobs /\ job'.pc = "strand" /\ job'.ids = inter /\ job.ids = <<>>
  BY <1>1, <1>2 DEF At, Idle, Jobs, SchedInv, JobInv
<1>4. TypeInv'
  <2>1. <<>> \in Seq(Ids)
    BY EmptySeq
  <2>2. SchedInv'
    BY <1>1, <1>2, <1>3, <2>1 DEF SchedInv
  <2>3. FlagInv'
    BY <1>1, <1>2 DEF FlagInv
  <2>4. NoteInv'
    BY <1>1, <1>2 DEF NoteInv
  <2> QED BY <2>2, <2>3, <2>4 DEF TypeInv
<1>5. TurnInv'
  BY <1>1, <1>2, TurnSame
<1>6. IdInv'
  <2>1. IdsOf(queue') \cup ToSet(inter') \cup ToSet(job'.ids) \subseteq 1..minted
    BY <1>1, <1>2, <1>3, EmptyToSet DEF IdInv
  <2>2. started' \cup asked' \cup replies' \cup told' \cup delivered' \cup reported' \subseteq 1..minted
    BY <1>1, <1>2 DEF IdInv
  <2>3. Distinct(queue')
    BY <1>1, <1>2 DEF IdInv
  <2> QED BY <1>2, <2>1, <2>2, <2>3 DEF IdInv
<1>7. StrandInv'
  <2>1. Apart(job'.ids) /\ ToSet(job'.ids) \cap (IdsOf(queue') \cup started') = {}
    BY <1>1, <1>2, <1>3 DEF StrandInv
  <2> QED BY <1>2, <2>1, EmptyToSet DEF StrandInv
<1>8. AskInv'
  <2>1. asked' \subseteq replies' \cup IdsOf(queue') \cup ToSet(job'.ids)
    BY <1>1, <1>2, <1>3, EmptyToSet DEF AskInv, PromptKept
  <2>2. \A i \in ToSet(queue') : Synthetic(i) => i.id \notin asked'
    BY <1>1, <1>2 DEF AskInv
  <2>3. (delivered' \cup reported') \cap asked' = {}
    BY <1>1, <1>2 DEF AskInv
  <2> QED BY <2>1, <2>2, <2>3 DEF AskInv, PromptKept, IdsOf, ToSet, Synthetic
<1>9. JobInv'
  BY <1>2, <1>3 DEF JobInv
<1>10. DriveInv'
  BY <1>1, <1>2, <1>3 DEF DriveInv, QueueIsDriven, InterjectionsLand, ToSet
<1> QED BY <1>4, <1>5, <1>6, <1>7, <1>8, <1>9, <1>10 DEF IInv

LEMMA FlushOneStep ==
  ASSUME IInv, FlushOne
  PROVE  IInv'
<1>1. SchedInv /\ NoteInv /\ FlagInv /\ TurnInv /\ IdInv /\ StrandInv /\ AskInv /\ JobInv /\ DriveInv
  BY DEF IInv, TypeInv
<1>2. /\ job.pc = "strand"
      /\ UNCHANGED <<task, suppressed, rewindable, notes, done, starters, inter, events, minted>>
      /\ UNCHANGED <<delivered, reported, told, asked, replies, gate, waits, pin, live, started, ran>>
  BY DEF FlushOne, wakes, clients, turnFlags, promoted
<1>3. job \in Jobs /\ inter = <<>> /\ job.ids \in Seq(Ids) /\ Apart(job.ids)
      /\ ToSet(job.ids) \cap (IdsOf(queue) \cup started) = {}
  BY <1>1, <1>2 DEF SchedInv, JobInv, Jobs, StrandInv
<1>4. PICK N : /\ job' \in Jobs /\ job'.pc \in {"startDrain", "strand"}
               /\ job'.pc # "strand" => job'.ids = <<>>
               /\ Apart(job'.ids) /\ ToSet(job.ids) = ToSet(job'.ids) \cup N
               /\ ToSet(job'.ids) \cap N = {}
               /\ queue' \in Seq(Items) /\ Distinct(queue') /\ IdsOf(queue') = IdsOf(queue) \cup N
               /\ \A i \in ToSet(queue') : i \in ToSet(queue) \/ ~Synthetic(i)
               /\ task # None => queue' # <<>> /\ queue'[1] = queue[1]
  <2>1. CASE job.ids = <<>>
    <3>1. queue' = queue /\ job' = At("startDrain")
      BY <2>1 DEF FlushOne
    <3>2. job' \in Jobs /\ job'.pc = "startDrain" /\ job'.ids = <<>>
      BY <3>1, AtFacts
    <3> QED BY <1>1, <2>1, <3>1, <3>2, EmptyToSet DEF SchedInv, IdInv, TurnInv
  <2>2. CASE job.ids # <<>>
    <3>1. PICK l, f : l = Last(job.ids) /\ f = Front(job.ids)
      OBVIOUS
    <3>2. /\ l \in Ids /\ f \in Seq(Ids) /\ Apart(f)
          /\ ToSet(job.ids) = ToSet(f) \cup {l} /\ l \notin ToSet(f)
      BY <1>3, <2>2, <3>1, FrontLastIds
    <3>3. PICK e \in Items : e = Item(l, "fallback", TRUE) /\ e.id = l /\ e.kind = "fallback"
      BY <3>2, ItemFacts
    <3>4. queue' = InsertAt(queue, FrontSlot, e) /\ job' = [job EXCEPT !.ids = f]
      BY <2>2, <3>1, <3>3 DEF FlushOne
    <3>5. l \notin IdsOf(queue)
      BY <1>3, <3>2
    <3>6. QueueGains(e)
      BY <3>3, <3>4, <3>5, InsertGains
    <3>7. IdsOf(queue') = IdsOf(queue) \cup {l}
      BY <3>3, <3>6, IdsOfToSet DEF QueueGains
    <3>8. job' \in Jobs /\ job'.pc = "strand" /\ job'.ids = f
      BY <1>2, <1>3, <3>2, <3>4 DEF Jobs
    <3> QED BY <3>2, <3>3, <3>6, <3>7, <3>8 DEF QueueGains, Synthetic
  <2> QED BY <2>1, <2>2
<1>5. N \cap (IdsOf(queue) \cup started) = {} /\ N \subseteq 1..minted
  BY <1>1, <1>3, <1>4 DEF IdInv
<1>6. TypeInv'
  <2>1. SchedInv'
    BY <1>1, <1>2, <1>4 DEF SchedInv
  <2>2. FlagInv'
    BY <1>1, <1>2 DEF FlagInv
  <2>3. NoteInv'
    BY <1>1, <1>2 DEF NoteInv
  <2> QED BY <2>1, <2>2, <2>3 DEF TypeInv
<1>7. TurnInv'
  <2>1. N \cap started = {} /\ IdsOf(queue') \subseteq IdsOf(queue) \cup N
    BY <1>4, <1>5
  <2> QED BY <1>1, <1>2, <1>4, <2>1, QueueKeepsTurn
<1>8. IdInv'
  <2>1. IdsOf(queue') \cup ToSet(inter') \cup ToSet(job'.ids) \subseteq 1..minted
    BY <1>1, <1>2, <1>4, <1>5 DEF IdInv
  <2>2. started' \cup asked' \cup replies' \cup told' \cup delivered' \cup reported' \subseteq 1..minted
    BY <1>1, <1>2 DEF IdInv
  <2> QED BY <1>2, <1>4, <2>1, <2>2 DEF IdInv
<1>9. StrandInv'
  <2>1. ToSet(job'.ids) \cap (IdsOf(queue') \cup started') = {}
    BY <1>2, <1>3, <1>4
  <2> QED BY <1>2, <1>3, <1>4, <2>1, EmptyToSet DEF StrandInv
<1>10. AskInv'
  <2>1. asked' \subseteq replies' \cup IdsOf(queue') \cup ToSet(job'.ids)
    BY <1>1, <1>2, <1>4 DEF AskInv, PromptKept
  <2>2. \A i \in ToSet(queue') : Synthetic(i) => i.id \notin asked'
    BY <1>1, <1>2, <1>4 DEF AskInv
  <2>3. (delivered' \cup reported') \cap asked' = {}
    BY <1>1, <1>2 DEF AskInv
  <2> QED BY <2>1, <2>2, <2>3 DEF AskInv, PromptKept, IdsOf, ToSet, Synthetic
<1>11. JobInv'
  BY <1>2, <1>3, <1>4 DEF JobInv
<1>12. DriveInv'
  BY <1>1, <1>2, <1>3, <1>4 DEF DriveInv, QueueIsDriven, InterjectionsLand, ToSet
<1> QED BY <1>6, <1>7, <1>8, <1>9, <1>10, <1>11, <1>12 DEF IInv

-----------------------------------------------------------------------------
(* Turns.                                                                  *)

\* A turn leaves the queue and the loop alone; when it stops, its completion
\* is in the channel.
LEMMA TurnKeeps ==
  ASSUME IInv,
         UNCHANGED <<job, starters, queue, task, started, ran, asked, replies, minted,
                     delivered, reported, told>>,
         inter' \in {inter, <<>>}, pin' \in {pin, None},
         DOMAIN live' \subseteq Ids, \A t \in DOMAIN live' : live'[t] \in {"run", "tail"},
         done' \in Seq(Ids),
         DOMAIN live \cup ToSet(done) \subseteq DOMAIN live' \cup ToSet(done'),
         done # <<>> => done' # <<>>,
         DOMAIN live # {} => DOMAIN live' # {} \/ done' # <<>>,
         NoteInv', FlagInv'
  PROVE  IInv'
<1>1. SchedInv /\ TurnInv /\ IdInv /\ StrandInv /\ AskInv /\ JobInv /\ DriveInv
  BY DEF IInv, TypeInv
<1>2. inter' \in Seq(Ids) /\ ToSet(inter') \subseteq ToSet(inter) /\ Apart(inter')
  <2>1. CASE inter' = inter
    BY <1>1, <2>1 DEF SchedInv, StrandInv
  <2>2. CASE inter' = <<>>
    <3>1. <<>> \in Seq(Ids)
      BY EmptySeq
    <3>2. Apart(<<>>) /\ ToSet(<<>>) = {}
      BY EmptyToSet
    <3> QED BY <2>2, <3>1, <3>2
  <2> QED BY <2>1, <2>2
<1>3. TypeInv'
  BY <1>1, <1>2 DEF TypeInv, SchedInv
<1>4. TurnInv'
  BY <1>1 DEF TurnInv, IdsOf
<1>5. IdInv'
  <2>1. IdsOf(queue') \cup ToSet(inter') \cup ToSet(job'.ids) \subseteq 1..minted
    BY <1>1, <1>2 DEF IdInv
  <2>2. started' \cup asked' \cup replies' \cup told' \cup delivered' \cup reported' \subseteq 1..minted
    BY <1>1 DEF IdInv
  <2>3. Distinct(queue')
    BY <1>1 DEF IdInv
  <2> QED BY <2>1, <2>2, <2>3 DEF IdInv
<1>6. StrandInv'
  <2>1. ToSet(inter') \cap (IdsOf(queue') \cup started') = {}
    BY <1>1, <1>2 DEF StrandInv
  <2>2. job'.pc = "strand" => Apart(job'.ids) /\ ToSet(job'.ids) \cap (IdsOf(queue') \cup started') = {}
    BY <1>1 DEF StrandInv
  <2> QED BY <1>2, <2>1, <2>2 DEF StrandInv
<1>7. AskInv'
  BY <1>1 DEF AskInv, PromptKept, IdsOf, ToSet, Synthetic
<1>8. JobInv'
  BY <1>1 DEF JobInv
<1>9. DriveInv'
  <2>1. QueueIsDriven'
    BY <1>1 DEF DriveInv, QueueIsDriven
  <2>2. (pin # None => pin \in DOMAIN live \cup ToSet(done) \/ job.pc = "cancelled")'
    BY <1>1 DEF DriveInv
  <2>3. InterjectionsLand'
    BY <1>1 DEF DriveInv, InterjectionsLand
  <2> QED BY <2>1, <2>2, <2>3 DEF DriveInv
<1> QED BY <1>3, <1>4, <1>5, <1>6, <1>7, <1>8, <1>9 DEF IInv

\* A turn emits, sets its flags or reaches a safe point.
LEMMA TurnQuietStep ==
  ASSUME IInv, NEW t, TurnEmits(t) \/ TurnFlags(t) \/ TurnDrains(t)
  PROVE  IInv'
<1>1. SchedInv /\ NoteInv /\ FlagInv
  BY DEF IInv, TypeInv
<1>2. /\ UNCHANGED <<job, starters, queue, task, suppressed, started, ran, asked, replies, minted>>
      /\ UNCHANGED <<delivered, reported, told, pin, live, done, notes>>
  BY DEF TurnEmits, TurnFlags, TurnDrains, Others, clients, wakes
<1>3. inter' \in {inter, <<>>} /\ events' \in {events, 0}
  BY DEF TurnEmits, TurnFlags, TurnDrains
<1>4. rewindable' \in BOOLEAN /\ gate' \in BOOLEAN /\ waits' \in BOOLEAN
  <2>1. CASE TurnEmits(t)
    BY <1>1, <2>1 DEF TurnEmits, turnFlags, FlagInv
  <2>2. CASE TurnFlags(t)
    BY <1>1, <2>2 DEF TurnFlags, FlagInv
  <2>3. CASE TurnDrains(t)
    BY <1>1, <2>3 DEF TurnDrains, turnFlags, FlagInv
  <2> QED BY <2>1, <2>2, <2>3
<1>5. FlagInv'
  BY <1>1, <1>2, <1>4 DEF FlagInv
<1>6. NoteInv'
  <2>1. notes \in Nat /\ events \in Nat /\ notes + events <= MaxNotes /\ MaxNotes \in Nat
    BY <1>1, NoneIsNoId DEF NoteInv
  <2>2. CASE events' = events
    BY <1>2, <2>1, <2>2 DEF NoteInv
  <2>3. CASE events' = 0
    <3>1. notes + 0 <= MaxNotes
      BY <2>1
    <3> QED BY <1>2, <2>1, <2>3, <3>1 DEF NoteInv
  <2> QED BY <1>3, <2>2, <2>3
<1>7. /\ DOMAIN live' \subseteq Ids /\ \A u \in DOMAIN live' : live'[u] \in {"run", "tail"}
      /\ done' \in Seq(Ids) /\ pin' \in {pin, None}
      /\ DOMAIN live \cup ToSet(done) \subseteq DOMAIN live' \cup ToSet(done')
      /\ done # <<>> => done' # <<>>
      /\ DOMAIN live # {} => DOMAIN live' # {}
  BY <1>1, <1>2 DEF SchedInv
<1> QED BY <1>2, <1>3, <1>5, <1>6, <1>7, TurnKeeps

LEMMA TurnUnpinsStep ==
  ASSUME IInv, NEW t, TurnUnpins(t)
  PROVE  IInv'
<1>1. SchedInv /\ NoteInv /\ FlagInv
  BY DEF IInv, TypeInv
<1>2. /\ UNCHANGED <<job, starters, queue, task, suppressed, started, ran, asked, replies, minted>>
      /\ UNCHANGED <<delivered, reported, told, done, inter, notes, events, gate, rewindable>>
      /\ t \in DOMAIN live /\ live' = [live EXCEPT ![t] = "tail"]
      /\ pin' \in {pin, None} /\ waits' = FALSE
  BY DEF TurnUnpins, Others, clients, wakes
<1>3. NoteInv'
  BY <1>1, <1>2 DEF NoteInv
<1>4. FlagInv'
  BY <1>1, <1>2 DEF FlagInv
<1>5. DOMAIN live' = DOMAIN live /\ \A u \in DOMAIN live' : live'[u] \in {"run", "tail"}
  BY <1>1, <1>2 DEF SchedInv
<1>6. /\ DOMAIN live' \subseteq Ids /\ done' \in Seq(Ids) /\ inter' \in {inter, <<>>}
      /\ DOMAIN live \cup ToSet(done) \subseteq DOMAIN live' \cup ToSet(done')
      /\ done # <<>> => done' # <<>>
      /\ DOMAIN live # {} => DOMAIN live' # {}
  BY <1>1, <1>2, <1>5 DEF SchedInv
<1> QED BY <1>2, <1>3, <1>4, <1>5, <1>6, TurnKeeps

LEMMA TurnCompletesStep ==
  ASSUME IInv, NEW t, TurnCompletes(t)
  PROVE  IInv'
<1>1. SchedInv /\ NoteInv /\ FlagInv
  BY DEF IInv, TypeInv
<1>2. /\ UNCHANGED <<job, starters, queue, task, suppressed, started, ran, asked, replies, minted>>
      /\ UNCHANGED <<delivered, reported, told, pin, inter, notes, events, gate, rewindable>>
      /\ t \in DOMAIN live /\ live' = Stopped(t) /\ done' = Append(done, t) /\ waits' = FALSE
  BY DEF TurnCompletes, Others, clients, wakes
<1>3. NoteInv'
  BY <1>1, <1>2 DEF NoteInv
<1>4. FlagInv'
  BY <1>1, <1>2 DEF FlagInv
<1>5. DOMAIN live' = DOMAIN live \ {t} /\ \A u \in DOMAIN live' : live'[u] = live[u]
  BY <1>2 DEF Stopped
<1>6. done \in Seq(Ids) /\ t \in Ids
  BY <1>1, <1>2 DEF SchedInv
<1>7. done' \in Seq(Ids) /\ done' # <<>> /\ ToSet(done) \cup {t} \subseteq ToSet(done')
  <2>1. /\ done' \in Seq(Ids) /\ done' # <<>> /\ Len(done') = Len(done) + 1
        /\ \A i \in 1..Len(done) : done'[i] = done[i]
        /\ done'[Len(done) + 1] = t
    BY <1>2, <1>6, AppendProperties
  <2>2. /\ Len(done) \in Nat /\ DOMAIN done = 1..Len(done) /\ DOMAIN done' = 1..(Len(done) + 1)
    BY <1>6, <2>1, LenProperties
  <2>3. 1..Len(done) \subseteq DOMAIN done' /\ Len(done) + 1 \in DOMAIN done'
    BY <2>2
  <2> QED BY <2>1, <2>2, <2>3 DEF ToSet
<1>8. /\ DOMAIN live' \subseteq Ids /\ inter' \in {inter, <<>>} /\ pin' \in {pin, None}
      /\ \A u \in DOMAIN live' : live'[u] \in {"run", "tail"}
      /\ DOMAIN live \cup ToSet(done) \subseteq DOMAIN live' \cup ToSet(done')
  BY <1>1, <1>2, <1>5, <1>7 DEF SchedInv
<1> QED BY <1>2, <1>3, <1>4, <1>7, <1>8, TurnKeeps

-----------------------------------------------------------------------------
(* The invariant holds in every reachable state.                           *)

LEMMA InitInv == Init => IInv
<1> SUFFICES ASSUME Init
             PROVE  IInv
  OBVIOUS
<1>1. /\ queue = <<>> /\ task = None /\ pin = None /\ live = <<>> /\ done = <<>> /\ job = Idle
      /\ starters = {"mcp", "plan"} /\ inter = <<>> /\ notes = 0 /\ events = 0
      /\ delivered = {} /\ reported = {} /\ told = {}
      /\ minted = 0 /\ asked = {} /\ replies = {} /\ started = {} /\ ran = 0
  BY DEF Init
<1>2. DOMAIN live = {} /\ MaxItems \in Nat /\ MaxEdits \in Nat /\ MaxNotes \in Nat
  BY <1>1, NoneIsNoId
<1>3. TypeInv
  <2>1. SchedInv
    BY <1>1, <1>2, IdleFacts, EmptySeq DEF SchedInv
  <2>2. NoteInv
    BY <1>1, <1>2 DEF NoteInv
  <2>3. FlagInv
    BY DEF Init, FlagInv
  <2> QED BY <2>1, <2>2, <2>3 DEF TypeInv
<1>4. TurnInv
  BY <1>1, EmptyToSet DEF TurnInv
<1>5. IdInv
  BY <1>1, IdleFacts, EmptyToSet DEF IdInv
<1>6. StrandInv
  BY <1>1, IdleFacts, EmptyToSet DEF StrandInv
<1>7. AskInv
  BY <1>1, EmptyToSet DEF AskInv, PromptKept
<1>8. JobInv
  BY <1>1, IdleFacts DEF JobInv
<1>9. DriveInv
  BY <1>1 DEF DriveInv, QueueIsDriven, InterjectionsLand
<1> QED BY <1>3, <1>4, <1>5, <1>6, <1>7, <1>8, <1>9 DEF IInv

LEMMA StutterInv ==
  ASSUME IInv, UNCHANGED vars
  PROVE  IInv'
<1>1. SchedInv /\ NoteInv /\ FlagInv
  BY DEF IInv, TypeInv
<1>2. /\ UNCHANGED <<job, starters, queue, task, suppressed, started, ran, asked, replies, minted>>
      /\ UNCHANGED <<delivered, reported, told, pin, live, done, inter, notes, events>>
      /\ UNCHANGED <<gate, waits, rewindable>>
  BY DEF vars, state, wakes, clients, turnFlags, promoted
<1>3. NoteInv'
  BY <1>1, <1>2 DEF NoteInv
<1>4. FlagInv'
  BY <1>1, <1>2 DEF FlagInv
<1>5. /\ DOMAIN live' \subseteq Ids /\ \A u \in DOMAIN live' : live'[u] \in {"run", "tail"}
      /\ done' \in Seq(Ids) /\ pin' \in {pin, None} /\ inter' \in {inter, <<>>}
      /\ DOMAIN live \cup ToSet(done) \subseteq DOMAIN live' \cup ToSet(done')
      /\ done # <<>> => done' # <<>>
      /\ DOMAIN live # {} => DOMAIN live' # {}
  BY <1>1, <1>2 DEF SchedInv
<1> QED BY <1>2, <1>3, <1>4, <1>5, TurnKeeps

LEMMA NextInv ==
  ASSUME IInv, [Next]_vars
  PROVE  IInv'
<1>1. CASE LoopStep
  BY <1>1, StartStep, CancelTakeStep, CancelFinishStep, CompletionUnpinStep, CompletionPopStep,
     FlushTakeStep, FlushOneStep, DrainStep DEF LoopStep
<1>2. CASE Command
  <2>1. CASE \E now \in BOOLEAN : Prompt(now)
    BY <2>1, PromptStep
  <2>2. CASE \E why \in {"esc", "rewind", "hard"} : Cancel(why)
    BY <2>2, CancelStep
  <2>3. CASE Wake \/ Summary \/ Interject \/ Inject
    BY <2>3, WakeStep, SummaryStep, InterjectStep, InjectStep
  <2>4. CASE RemoveRows \/ Reorder \/ Edit \/ SendNowRow
    BY <2>4, RemoveRowsStep, ReorderStep, EditStep, SendNowRowStep
  <2> QED BY <1>2, <2>1, <2>2, <2>3, <2>4 DEF Command
<1>3. CASE \E s \in {"mcp", "planStart"} : StarterStart(s)
  BY <1>3, StartStep
<1>4. CASE StarterQueue
  BY <1>4, StarterQueueStep
<1>5. CASE \E t \in Ids : Turn(t)
  BY <1>5, TurnQuietStep, TurnToolStep, TurnUnpinsStep, TurnCompletesStep DEF Turn
<1>6. CASE UNCHANGED vars
  BY <1>6, StutterInv
<1> QED BY <1>1, <1>2, <1>3, <1>4, <1>5, <1>6 DEF Next

\* The invariant is inductive, for any number of inputs, edits and
\* notifications.
THEOREM QueueInductive == Spec => []IInv
<1>1. Init => IInv
  BY InitInv
<1>2. IInv /\ [Next]_vars => IInv'
  BY NextInv
<1> QED BY <1>1, <1>2, PTL DEF Spec

\* Type correctness of the scheduling state.
THEOREM QueueTypeCorrect == Spec => []TypeOK
<1>1. IInv => TypeOK
  BY InvTypes
<1> QED BY <1>1, QueueInductive, PTL

\* The running turn is the front of pending_inputs: the cancel that answers
\* and drops index 0, and the completion that pops it, take the turn that ran.
THEOREM QueueRunningFront == Spec => []RunningIsFront
<1>1. IInv => RunningIsFront
  BY DEF IInv, TurnInv, RunningIsFront
<1> QED BY <1>1, QueueInductive, PTL

\* current_prompt_id never names another turn than running_task: the
\* debug_assert of cancel_running_task cannot fail.
THEOREM QueuePin == Spec => []PinIsRunning
<1>1. IInv => PinIsRunning
  BY DEF IInv, TurnInv, PinIsRunning
<1> QED BY <1>1, QueueInductive, PTL

\* No edit of handle_edit_queued_prompt is lost in the promotion.
THEOREM QueueEditRuns == Spec => []EditRuns
<1>1. IInv => EditRuns
  BY DEF IInv, TurnInv, EditRuns
<1> QED BY <1>1, QueueInductive, PTL

\* No respond_to is dropped: whatever sweeps, edits, cancels or completes, a
\* prompt whose client waits is answered, queued or held by a cancel.
THEOREM QueueKeepsPrompts == Spec => []PromptKept
<1>1. IInv => PromptKept
  BY DEF IInv, AskInv
<1> QED BY <1>1, QueueInductive, PTL

\* A queue that is not empty has a turn, a completion, a handler of the loop
\* or a starter to move it on.
THEOREM QueueDriven == Spec => []QueueIsDriven
<1>1. IInv => QueueIsDriven
  BY DEF IInv, DriveInv
<1> QED BY <1>1, QueueInductive, PTL

\* pending_interjections never strands: a turn drains it or a completion
\* flushes it.
THEOREM QueueInterjections == Spec => []InterjectionsLand
<1>1. IInv => InterjectionsLand
  BY DEF IInv, DriveInv
<1> QED BY <1>1, QueueInductive, PTL

\* Only a promotion sets running_task, and it promotes the front.
LEMMA OnlyPromotionStarts ==
  ASSUME IInv, Next, task' # task, task' # None
  PROVE  CanStart /\ task' = queue[1].id
<1>1. CASE LoopStep
  <2>1. CASE Start
    BY <2>1 DEF Start, MaybeStart, Promote, state
  <2>2. CASE CancelTake \/ CompletionPop
    BY <2>2 DEF CancelTake, CompletionPop
  <2>3. CASE CancelFinish \/ CompletionUnpin \/ FlushTake \/ FlushOne \/ Drain
    BY <2>3 DEF CancelFinish, CompletionUnpin, FlushTake, FlushOne, Drain, state
  <2> QED BY <1>1, <2>1, <2>2, <2>3 DEF LoopStep
<1>2. CASE Command
  BY <1>2 DEF Command, Prompt, Cancel, Wake, Summary, Interject, Inject, RemoveRows, Reorder,
              Edit, SendNowRow, Edits, state
<1>3. CASE \E s \in {"mcp", "planStart"} : StarterStart(s)
  BY <1>3 DEF StarterStart, MaybeStart, Promote, state
<1>4. CASE StarterQueue
  BY <1>4 DEF StarterQueue
<1>5. CASE \E t \in Ids : Turn(t)
  BY <1>5 DEF Turn, TurnEmits, TurnFlags, TurnDrains, TurnTool, TurnUnpins, TurnCompletes, Others
<1> QED BY <1>1, <1>2, <1>3, <1>4, <1>5 DEF Next

\* No prompt is spawned twice: what is promoted was never started before.
THEOREM QueueRunsOnce == Spec => RunsOnce
<1>1. IInv /\ [Next]_vars => [task' # task /\ task' # None => task' \notin started]_vars
  <2>1. SUFFICES ASSUME IInv, Next, task' # task, task' # None
                 PROVE  task' \notin started
    OBVIOUS
  <2>2. task = None /\ queue # <<>> /\ task' = queue[1].id
    BY <2>1, OnlyPromotionStarts DEF CanStart
  <2>3. queue \in Seq(Items) /\ IdsOf(queue) \cap started \subseteq {None}
    BY <2>1, <2>2 DEF IInv, TypeInv, SchedInv, TurnInv
  <2>4. 1 \in DOMAIN queue
    BY <2>2, <2>3, EmptySeq, LenProperties
  <2> QED BY <2>1, <2>2, <2>3, <2>4 DEF IdsOf
<1> QED BY <1>1, QueueInductive, PTL DEF Spec, RunsOnce
=============================================================================
