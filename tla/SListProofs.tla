---------------------------- MODULE SListProofs ----------------------------
(***************************************************************************)
(* What the sorted insertions of slist.c do, for lists of any length: the  *)
(* result is a list with the new element and all the old ones in their     *)
(* order, and it is sorted if the list was.                                *)
(***************************************************************************)
EXTENDS SList, SequenceTheorems, WellFoundedInduction, TLAPS

\* A set of natural numbers has a least element: < is well-founded.
LEMMA LeastElement ==
  ASSUME NEW T \in SUBSET Nat, T # {}
  PROVE  \E m \in T : \A n \in T : m <= n
<1> DEFINE R == OpToRel(<, Nat)
<1>1. PICK m \in T : \A y \in T : ~ (<<y, m>> \in R)
  <2>1. IsWellFoundedOn(R, Nat)
    BY NatLessThanWellFounded
  <2> HIDE DEF R
  <2> QED BY <2>1, WFMin
<1>2. \A n \in T : ~ (n < m)
  BY <1>1 DEF OpToRel
<1> QED BY <1>2

\* The search comes to rest at a position of the list or one past its end; all
\* before it was walked past, and what stands there was not.
LEMMA RestProperties ==
  ASSUME NEW S, NEW s \in Seq(S), NEW walked
  PROVE  /\ Rest(s, walked) \in 1..(Len(s) + 1)
         /\ \A i \in 1..(Rest(s, walked) - 1) : s[i] \in walked
         /\ Rest(s, walked) <= Len(s) => s[Rest(s, walked)] \notin walked
<1> DEFINE stops == {i \in 1..Len(s) : s[i] \notin walked}
<1>1. Len(s) \in Nat
  BY LenProperties
<1>2. CASE stops = {}
  BY <1>1, <1>2 DEF Rest
<1>3. CASE stops # {}
  <2>0. stops \in SUBSET Nat
    BY <1>1
  <2>1. PICK m \in stops : \A n \in stops : m <= n
    <3> HIDE DEF stops
    <3> QED BY <1>3, <2>0, LeastElement
  <2>2. Min(stops) \in stops /\ \A n \in stops : Min(stops) <= n
    BY <2>1 DEF Min
  <2>3. Rest(s, walked) = Min(stops)
    BY <1>3 DEF Rest
  <2>4. Rest(s, walked) \in 1..Len(s) /\ s[Rest(s, walked)] \notin walked
    BY <2>2, <2>3
  <2>5. ASSUME NEW i \in 1..(Rest(s, walked) - 1), s[i] \notin walked PROVE FALSE
    <3>1. i \in stops BY <1>1, <2>4, <2>5
    <3> QED BY <1>1, <2>2, <2>3, <2>4, <2>5, <3>1
  <2> QED BY <1>1, <2>4, <2>5
<1> QED BY <1>2, <1>3

\* Insertion at a position: one longer, the elements before it stay, those from it
\* on move by one.
LEMMA InsertBeforeProperties ==
  ASSUME NEW S, NEW s \in Seq(S), NEW e \in S, NEW i \in 1..(Len(s) + 1)
  PROVE  /\ InsertBefore(s, i, e) \in Seq(S)
         /\ Len(InsertBefore(s, i, e)) = Len(s) + 1
         /\ \A j \in 1..(Len(s) + 1) :
              InsertBefore(s, i, e)[j] =
                IF j < i THEN s[j] ELSE IF j = i THEN e ELSE s[j - 1]
<1> DEFINE a == SubSeq(s, 1, i - 1)
           b == SubSeq(s, i, Len(s))
           ae == a \o <<e>>
           n == Len(s)
<1>1. n \in Nat /\ i \in 1..(n + 1) /\ \A j \in 1..n : s[j] \in S
  BY LenProperties, ElementOfSeq
<1>2. /\ a \in Seq(S) /\ Len(a) = i - 1
      /\ \A j \in 1..(i - 1) : a[j] = s[j]
  <2>1. \A j \in 1..(i - 1) : s[j] \in S
    BY <1>1
  <2> QED BY <1>1, <2>1, SubSeqProperties
<1>3. /\ b \in Seq(S) /\ Len(b) = n - i + 1
      /\ \A j \in 1..(n - i + 1) : b[j] = s[i + j - 1]
  <2>1. \A j \in i..n : s[j] \in S
    BY <1>1
  <2> QED BY <1>1, <2>1, SubSeqProperties
<1>4. <<e>> \in Seq(S) /\ Len(<<e>>) = 1 /\ <<e>>[1] = e
  OBVIOUS
<1>5. /\ ae \in Seq(S) /\ Len(ae) = i
      /\ \A j \in 1..i : ae[j] = IF j < i THEN s[j] ELSE e
  <2> HIDE DEF a, n
  <2> QED BY <1>1, <1>2, <1>4, ConcatProperties
<1>6. InsertBefore(s, i, e) = ae \o b
  BY DEF InsertBefore, InsertAt
<1> HIDE DEF ae, b, n
<1>7. /\ ae \o b \in Seq(S)
      /\ Len(ae \o b) = n + 1
      /\ \A j \in 1..(n + 1) : (ae \o b)[j] = IF j <= i THEN ae[j] ELSE b[j - i]
  <2>1. Len(ae) + Len(b) = n + 1
    BY <1>1, <1>3, <1>5
  <2>2. /\ ae \o b \in Seq(S)
        /\ Len(ae \o b) = Len(ae) + Len(b)
        /\ \A j \in 1..(Len(ae) + Len(b)) :
             (ae \o b)[j] = IF j <= Len(ae) THEN ae[j] ELSE b[j - Len(ae)]
    BY <1>3, <1>5, ConcatProperties
  <2> QED BY <1>5, <2>1, <2>2
<1>8. ASSUME NEW j \in 1..(n + 1)
      PROVE  (ae \o b)[j] = IF j < i THEN s[j] ELSE IF j = i THEN e ELSE s[j - 1]
  <2>1. CASE j <= i
    BY <1>1, <1>5, <1>7, <2>1
  <2>2. CASE j > i
    <3>1. j - i \in 1..(n - i + 1)
      BY <1>1, <2>2
    <3>2. b[j - i] = s[i + (j - i) - 1]
      BY <1>3, <3>1
    <3>3. i + (j - i) - 1 = j - 1 /\ ~ (j <= i)
      BY <1>1, <2>2
    <3>4. (ae \o b)[j] = b[j - i]
      BY <1>7, <3>3
    <3> QED BY <1>1, <2>2, <3>2, <3>3, <3>4
  <2>3. j <= i \/ j > i
    BY <1>1
  <2> QED BY <2>1, <2>2, <2>3
<1> QED BY <1>6, <1>7, <1>8 DEF n

\* Both sorted insertions yield a list of tasks, one longer.
LEMMA SortedInsertType ==
  ASSUME NEW S, NEW s \in Seq(S), NEW e \in S, NEW ascending, NEW key
  PROVE  /\ SortedInsert(s, e, ascending, key) \in Seq(S)
         /\ SortedInsertFront(s, e, ascending, key) \in Seq(S)
         /\ Len(SortedInsert(s, e, ascending, key)) = Len(s) + 1
         /\ Len(SortedInsertFront(s, e, ascending, key)) = Len(s) + 1
<1>1. \A walked : Rest(s, walked) \in 1..(Len(s) + 1)
  BY RestProperties
<1> QED BY <1>1, InsertBeforeProperties DEF SortedInsert, SortedInsertFront

\* The lists of the simulator are sorted by the field their callback compares.
Sorted(s, key) ==
    \A i, j \in 1..Len(s) : i < j => key[s[i]] <= key[s[j]]

\* An element put behind nothing greater and before nothing smaller.
LEMMA InsertedInOrder ==
  ASSUME NEW S, NEW key \in [S -> Int], NEW s \in Seq(S), NEW e \in S, Sorted(s, key),
         NEW r \in 1..(Len(s) + 1),
         \A i \in 1..(r - 1) : key[s[i]] <= key[e],
         \A i \in r..Len(s) : key[e] <= key[s[i]]
  PROVE  Sorted(InsertBefore(s, r, e), key)
<1> DEFINE t == InsertBefore(s, r, e)
<1>1. Len(s) \in Nat /\ \A i \in 1..Len(s) : s[i] \in S
  BY LenProperties, ElementOfSeq
<1>2. /\ t \in Seq(S) /\ Len(t) = Len(s) + 1
      /\ \A j \in 1..(Len(s) + 1) :
           t[j] = IF j < r THEN s[j] ELSE IF j = r THEN e ELSE s[j - 1]
  BY InsertBeforeProperties
<1> HIDE DEF t
<1>3. SUFFICES ASSUME NEW i \in 1..(Len(s) + 1), NEW j \in 1..(Len(s) + 1), i < j
               PROVE  key[t[i]] <= key[t[j]]
  BY <1>2 DEF Sorted, t
<1>4. CASE j < r
  <2>1. t[i] = s[i] /\ t[j] = s[j] /\ i \in 1..Len(s) /\ j \in 1..Len(s)
    BY SMTT(20), <1>1, <1>2, <1>3, <1>4
  <2> QED BY <1>3, <2>1 DEF Sorted
<1>5. CASE j = r
  <2>1. t[i] = s[i] /\ t[j] = e /\ i \in 1..(r - 1)
    BY <1>1, <1>2, <1>3, <1>5
  <2> QED BY <2>1
<1>6. CASE j > r
  <2>1. t[j] = s[j - 1] /\ j - 1 \in r..Len(s) /\ j - 1 \in 1..Len(s)
    BY <1>1, <1>2, <1>3, <1>6
  <2>2. CASE i = r
    BY SMTT(20), <1>2, <2>1, <2>2
  <2>3. CASE i < r
    <3>1. t[i] = s[i] /\ i \in 1..Len(s) /\ i < j - 1
      BY <1>1, <1>2, <1>3, <1>6, <2>3
    <3> QED BY <2>1, <3>1 DEF Sorted
  <2>4. CASE i > r
    <3>1. t[i] = s[i - 1] /\ i - 1 \in 1..Len(s) /\ i - 1 < j - 1
      BY <1>1, <1>2, <1>3, <2>4
    <3> QED BY <2>1, <3>1 DEF Sorted
  <2> QED BY <1>3, <2>2, <2>3, <2>4
<1> QED BY <1>3, <1>4, <1>5, <1>6

\* sorted_insert_slist keeps an ascending list ascending, with elements inserted in
\* front of their equals as well: this is why the first event of a CPU is the
\* earliest, and why its first waiting task is the best one.
THEOREM SortedInsertSorted ==
  ASSUME NEW S, NEW key \in [S -> Int], NEW s \in Seq(S), NEW e \in S, Sorted(s, key)
  PROVE  /\ Sorted(SortedInsert(s, e, TRUE, key), key)
         /\ Sorted(SortedInsertFront(s, e, TRUE, key), key)
<1>1. Len(s) \in Nat /\ \A i \in 1..Len(s) : s[i] \in S /\ s[i] \in ToSet(s) /\ key[s[i]] \in Int
  BY LenProperties, ElementOfSeq DEF ToSet
<1>2. ASSUME NEW w,
             \A x \in ToSet(s) : x \in w => key[x] <= key[e],
             \A x \in ToSet(s) : x \notin w => key[e] <= key[x]
      PROVE  Sorted(InsertBefore(s, Rest(s, w), e), key)
  <2>1. PICK r : r = Rest(s, w)
    OBVIOUS
  <2>2. /\ r \in 1..(Len(s) + 1)
        /\ \A i \in 1..(r - 1) : s[i] \in w
        /\ r <= Len(s) => s[r] \notin w
    BY <2>1, RestProperties
  <2>3. \A i \in 1..(r - 1) : key[s[i]] <= key[e]
    BY <1>1, <1>2, <2>2
  <2>4. ASSUME NEW i \in r..Len(s) PROVE key[e] <= key[s[i]]
    <3>1. r \in 1..Len(s) /\ i \in 1..Len(s) /\ r <= i
      BY <1>1, <2>2, <2>4
    <3>2. key[e] <= key[s[r]]
      BY <1>1, <1>2, <2>2, <3>1
    <3>3. key[s[r]] <= key[s[i]]
      BY <1>1, <3>1 DEF Sorted
    <3>4. key[e] \in Int /\ key[s[r]] \in Int /\ key[s[i]] \in Int
      BY <1>1, <3>1
    <3> QED BY <3>2, <3>3, <3>4
  <2>5. Sorted(InsertBefore(s, r, e), key)
    BY <2>2, <2>3, <2>4, InsertedInOrder
  <2> QED BY <2>1, <2>5
<1>3. \A x \in ToSet(s) : key[x] \in Int /\ key[e] \in Int
  BY ElementOfSeq, LenProperties DEF ToSet
<1>4. Sorted(SortedInsert(s, e, TRUE, key), key)
  <2>1. PICK w : w = {x \in ToSet(s) : Walked(TRUE, key, x, e)}
    OBVIOUS
  <2>2. \A x \in ToSet(s) : (x \in w => key[x] <= key[e]) /\ (x \notin w => key[e] <= key[x])
    BY <1>3, <2>1 DEF Walked
  <2>3. Sorted(InsertBefore(s, Rest(s, w), e), key)
    BY <1>2, <2>2
  <2> QED BY <2>1, <2>3 DEF SortedInsert
<1>5. Sorted(SortedInsertFront(s, e, TRUE, key), key)
  <2>1. PICK w : w = {x \in ToSet(s) : WalkedFront(TRUE, key, x, e)}
    OBVIOUS
  <2>2. \A x \in ToSet(s) : (x \in w => key[x] <= key[e]) /\ (x \notin w => key[e] <= key[x])
    BY <1>3, <2>1 DEF WalkedFront
  <2>3. Sorted(InsertBefore(s, Rest(s, w), e), key)
    BY <1>2, <2>2
  <2> QED BY <2>1, <2>3 DEF SortedInsertFront
<1> QED BY <1>4, <1>5

-----------------------------------------------------------------------------
(* Lists in which no element is twice, and their elements *)

NoRepeat(s) == \A i, j \in 1..Len(s) : s[i] = s[j] => i = j

\* The elements of a list are what it has at its positions.
LEMMA ElementsAt ==
  ASSUME NEW S, NEW s \in Seq(S)
  PROVE  /\ ToSet(s) \subseteq S
         /\ \A x : x \in ToSet(s) <=> \E i \in 1..Len(s) : s[i] = x
         /\ s = <<>> <=> ToSet(s) = {}
         /\ Len(s) \in Nat
<1>1. Len(s) \in Nat /\ DOMAIN s = 1..Len(s) /\ \A i \in 1..Len(s) : s[i] \in S
  BY LenProperties, ElementOfSeq
<1>2. s = <<>> <=> Len(s) = 0
  BY EmptySeq
<1>3. \A x : x \in ToSet(s) <=> \E i \in 1..Len(s) : s[i] = x
  BY <1>1 DEF ToSet
<1>4. s = <<>> => ToSet(s) = {}
  <2>1. s = <<>> => 1..Len(s) = {}
    BY <1>2
  <2> QED BY <1>3, <2>1
<1>5. s # <<>> => ToSet(s) # {}
  <2>1. s # <<>> => 1 \in 1..Len(s)
    BY <1>1, <1>2
  <2> QED BY <1>3, <2>1
<1> QED BY <1>1, <1>3, <1>4, <1>5

\* insert_before_slist of a new element adds it, wherever it goes.
LEMMA InsertBeforeElements ==
  ASSUME NEW S, NEW s \in Seq(S), NEW e \in S, NEW i \in 1..(Len(s) + 1),
         NoRepeat(s), e \notin ToSet(s)
  PROVE  /\ NoRepeat(InsertBefore(s, i, e))
         /\ ToSet(InsertBefore(s, i, e)) = ToSet(s) \cup {e}
<1> DEFINE t == InsertBefore(s, i, e)
           n == Len(s)
<1>0. n \in Nat /\ i \in 1..(n + 1)
  BY LenProperties
<1>1. /\ t \in Seq(S) /\ Len(t) = n + 1 /\ n \in Nat
      /\ \A j \in 1..(n + 1) : t[j] = IF j < i THEN s[j] ELSE IF j = i THEN e ELSE s[j - 1]
  <2>1. /\ InsertBefore(s, i, e) \in Seq(S)
        /\ Len(InsertBefore(s, i, e)) = Len(s) + 1
        /\ \A j \in 1..(Len(s) + 1) :
             InsertBefore(s, i, e)[j] =
               IF j < i THEN s[j] ELSE IF j = i THEN e ELSE s[j - 1]
    BY InsertBeforeProperties
  <2> QED BY <1>0, <2>1
<1>2. i \in 1..(n + 1) /\ \A j \in 1..n : s[j] # e /\ s[j] \in ToSet(s)
  BY ElementsAt
<1>3. \A j, k \in 1..n : s[j] = s[k] => j = k
  BY DEF NoRepeat
<1> HIDE DEF t, n
<1>4. ASSUME NEW j \in 1..(n + 1), NEW k \in 1..(n + 1), t[j] = t[k] PROVE j = k
  <2>1. CASE j = i
    <3>1. SUFFICES ASSUME k # i PROVE FALSE
      BY <2>1
    <3>2. CASE k < i
      BY <1>1, <1>2, <1>4, <2>1, <3>2
    <3>3. CASE k > i
      BY SMTT(20), <1>1, <1>2, <1>4, <2>1, <3>3
    <3> QED BY <1>1, <1>2, <3>1, <3>2, <3>3
  <2>2. CASE j < i
    <3>1. t[j] = s[j] /\ j \in 1..n
      BY <1>1, <1>2, <2>2
    <3>2. CASE k < i
      <4>1. t[k] = s[k] /\ k \in 1..n
        BY <1>0, <1>1, <3>2
      <4> QED BY <1>3, <1>4, <3>1, <4>1
    <3>3. CASE k = i
      <4>1. t[k] = e
        BY <1>0, <1>1, <3>3
      <4> QED BY <1>2, <1>4, <3>1, <4>1
    <3>4. CASE k > i
      <4>1. t[k] = s[k - 1] /\ k - 1 \in 1..n
        BY <1>1, <1>2, <3>4
      <4>2. j = k - 1
        BY <1>3, <1>4, <3>1, <4>1
      <4> QED BY <1>0, <2>2, <3>4, <4>2
    <3> QED BY <1>0, <3>2, <3>3, <3>4
  <2>3. CASE j > i
    <3>1. t[j] = s[j - 1] /\ j - 1 \in 1..n
      BY <1>1, <1>2, <2>3
    <3>2. CASE k < i
      <4>1. t[k] = s[k] /\ k \in 1..n
        BY <1>1, <1>2, <3>2
      <4>2. j - 1 = k
        BY <1>3, <1>4, <3>1, <4>1
      <4> QED BY <1>0, <2>3, <3>2, <4>2
    <3>3. CASE k = i
      <4>1. t[k] = e
        BY <1>0, <1>1, <3>3
      <4> QED BY <1>2, <1>4, <3>1, <4>1
    <3>4. CASE k > i
      <4>1. t[k] = s[k - 1] /\ k - 1 \in 1..n
        BY <1>1, <1>2, <3>4
      <4>2. j - 1 = k - 1
        BY <1>3, <1>4, <3>1, <4>1
      <4> QED BY <4>2
    <3> QED BY <1>0, <3>2, <3>3, <3>4
  <2> QED BY <1>0, <2>1, <2>2, <2>3
<1>5. \A x : x \in ToSet(t) <=> x \in ToSet(s) \/ x = e
  <2>1. /\ \A x : x \in ToSet(t) <=> \E j \in 1..(n + 1) : t[j] = x
        /\ \A x : x \in ToSet(s) <=> \E j \in 1..n : s[j] = x
    BY <1>1, ElementsAt DEF n
  <2>2. t[i] = e
    BY <1>1, <1>2
  <2>3. ASSUME NEW j \in 1..(n + 1) PROVE t[j] = e \/ \E k \in 1..n : s[k] = t[j]
    <3>1. CASE j < i
      <4>1. j \in 1..n /\ s[j] = t[j]
        BY <1>1, <1>2, <3>1
      <4> QED BY <4>1
    <3>2. CASE j > i
      <4>1. j - 1 \in 1..n /\ s[j - 1] = t[j]
        BY <1>1, <1>2, <3>2
      <4> QED BY <4>1
    <3> QED BY <1>1, <1>2, <2>2, <3>1, <3>2
  <2>4. ASSUME NEW k \in 1..n PROVE \E j \in 1..(n + 1) : t[j] = s[k]
    <3>1. CASE k < i
      <4>1. k \in 1..(n + 1) /\ t[k] = s[k]
        BY <1>1, <1>2, <3>1
      <4> QED BY <4>1
    <3>2. CASE k >= i
      <4>1. k + 1 \in 1..(n + 1) /\ t[k + 1] = s[k]
        BY <1>1, <1>2, <3>2
      <4> QED BY <4>1
    <3> QED BY <1>1, <1>2, <3>1, <3>2
  <2> QED BY <1>2, <2>1, <2>2, <2>3, <2>4
<1> QED BY <1>1, <1>4, <1>5 DEF NoRepeat, t

\* The same for the three insertions the queues use.
LEMMA InsertedElements ==
  ASSUME NEW S, NEW s \in Seq(S), NEW e \in S, NEW ascending, NEW key,
         NoRepeat(s), e \notin ToSet(s)
  PROVE  \A t \in {InsertSList(s, e), SortedInsert(s, e, ascending, key),
                   SortedInsertFront(s, e, ascending, key)} :
           NoRepeat(t) /\ ToSet(t) = ToSet(s) \cup {e} /\ Len(t) = Len(s) + 1
<1>1. \A i \in 1..(Len(s) + 1) :
        /\ NoRepeat(InsertBefore(s, i, e))
        /\ ToSet(InsertBefore(s, i, e)) = ToSet(s) \cup {e}
        /\ Len(InsertBefore(s, i, e)) = Len(s) + 1
  BY InsertBeforeElements, InsertBeforeProperties
<1>2. \A walked : Rest(s, walked) \in 1..(Len(s) + 1)
  BY RestProperties
<1>3. InsertSList(s, e) = InsertBefore(s, Len(s) + 1, e)
  <2> DEFINE a == Append(s, e)
             b == InsertBefore(s, Len(s) + 1, e)
             n == Len(s)
  <2>1. n \in Nat /\ n + 1 \in 1..(n + 1)
    BY LenProperties
  <2>2. /\ a \in Seq(S) /\ Len(a) = n + 1 /\ a[n + 1] = e
        /\ \A i \in 1..n : a[i] = s[i]
    BY AppendProperties
  <2>3. /\ b \in Seq(S) /\ Len(b) = n + 1
        /\ \A j \in 1..(n + 1) :
             b[j] = IF j < n + 1 THEN s[j] ELSE IF j = n + 1 THEN e ELSE s[j - 1]
    BY <2>1, InsertBeforeProperties
  <2> HIDE DEF a, b, n
  <2>4. \A j \in 1..(n + 1) : a[j] = b[j]
    BY <2>1, <2>2, <2>3
  <2>5. a = b
    BY <2>2, <2>3, <2>4, SeqEqual
  <2> QED BY <2>5 DEF a, b, InsertSList
<1>4. Len(s) + 1 \in 1..(Len(s) + 1)
  BY LenProperties
<1> QED BY <1>1, <1>2, <1>3, <1>4 DEF SortedInsert, SortedInsertFront

\* Taking the head of a list.
LEMMA HeadTaken ==
  ASSUME NEW S, NEW s \in Seq(S), NoRepeat(s), s # <<>>
  PROVE  /\ Head(s) = s[1] /\ Head(s) \in ToSet(s) /\ Head(s) \in S
         /\ NoRepeat(Tail(s)) /\ ToSet(Tail(s)) = ToSet(s) \ {Head(s)}
         /\ Tail(s) \in Seq(S) /\ Len(Tail(s)) = Len(s) - 1 /\ Len(s) \in Nat \ {0}
         /\ \A i \in 1..(Len(s) - 1) : Tail(s)[i] = s[i + 1]
<1> DEFINE n == Len(s)
           t == Tail(s)
<1>1. n \in Nat /\ n # 0
  BY LenProperties, EmptySeq
<1>2. Head(s) = s[1]
  OBVIOUS
<1>3. t \in Seq(S) /\ Len(t) = n - 1 /\ \A i \in 1..(n - 1) : t[i] = s[i + 1]
  BY HeadTailProperties
<1>4. \A i, j \in 1..n : s[i] = s[j] => i = j
  BY DEF NoRepeat
<1>5. /\ \A x : x \in ToSet(t) <=> \E j \in 1..(n - 1) : t[j] = x
      /\ \A x : x \in ToSet(s) <=> \E j \in 1..n : s[j] = x
      /\ ToSet(s) \subseteq S
  BY <1>3, ElementsAt
<1> HIDE DEF n, t
<1>6. \A i, j \in 1..(n - 1) : t[i] = t[j] => i = j
  <2>1. SUFFICES ASSUME NEW i \in 1..(n - 1), NEW j \in 1..(n - 1), t[i] = t[j] PROVE i = j
    OBVIOUS
  <2>2. i + 1 \in 1..n /\ j + 1 \in 1..n /\ s[i + 1] = s[j + 1]
    BY <1>1, <1>3, <2>1
  <2>3. i + 1 = j + 1
    BY <1>4, <2>2
  <2> QED BY <2>3
<1>7. \A x : x \in ToSet(t) <=> x \in ToSet(s) /\ x # s[1]
  <2>1. ASSUME NEW j \in 1..(n - 1) PROVE t[j] # s[1] /\ \E k \in 1..n : s[k] = t[j]
    <3>1. j + 1 \in 1..n /\ 1 \in 1..n /\ t[j] = s[j + 1] /\ j + 1 # 1
      BY <1>1, <1>3
    <3> QED BY <1>4, <3>1
  <2>2. ASSUME NEW k \in 1..n, s[k] # s[1] PROVE \E j \in 1..(n - 1) : t[j] = s[k]
    <3>1. k - 1 \in 1..(n - 1) /\ t[k - 1] = s[k]
      BY <1>1, <1>3, <2>2
    <3> QED BY <3>1
  <2> QED BY <1>5, <2>1, <2>2
<1>8. s[1] \in ToSet(s)
  <2>1. 1 \in 1..n
    BY <1>1
  <2> QED BY <1>5, <2>1
<1> QED BY <1>1, <1>2, <1>3, <1>5, <1>6, <1>7, <1>8 DEF NoRepeat, n, t

\* remove_slist of the tail of a list.
LEMMA TailRemoved ==
  ASSUME NEW S, NEW s \in Seq(S), NoRepeat(s), s # <<>>
  PROVE  /\ Last(s) \in ToSet(s) /\ Last(s) \in S
         /\ NoRepeat(RemoveTail(s)) /\ ToSet(RemoveTail(s)) = ToSet(s) \ {Last(s)}
         /\ RemoveTail(s) \in Seq(S) /\ Len(RemoveTail(s)) = Len(s) - 1 /\ Len(s) \in Nat \ {0}
         /\ \A i \in 1..(Len(s) - 1) : RemoveTail(s)[i] = s[i]
<1> DEFINE n == Len(s)
           m == n - 1
           t == RemoveTail(s)
<1>1. n \in Nat /\ n # 0 /\ \A i \in 1..n : s[i] \in S
  BY LenProperties, EmptySeq, ElementOfSeq
<1>2. Last(s) = s[n] /\ t = SubSeq(s, 1, m)
  BY DEF Last, RemoveTail, Front
<1>3. t \in Seq(S) /\ Len(t) = n - 1 /\ \A i \in 1..(n - 1) : t[i] = s[i]
  <2>1. 1 \in Int /\ m \in Nat /\ n = m + 1 /\ \A i \in 1..m : s[i] \in S
    BY <1>1
  <2> HIDE DEF n, m, t
  <2>2. /\ SubSeq(s, 1, m) \in Seq(S) /\ Len(SubSeq(s, 1, m)) = IF 1 <= m THEN m - 1 + 1 ELSE 0
        /\ \A i \in 1..(m - 1 + 1) : SubSeq(s, 1, m)[i] = s[1 + i - 1]
    BY <2>1, SubSeqProperties
  <2>3. Len(t) = m /\ \A i \in 1..m : t[i] = s[i]
    BY <1>2, <2>1, <2>2
  <2> QED BY <1>2, <2>1, <2>2, <2>3
<1>4. \A i, j \in 1..n : s[i] = s[j] => i = j
  BY DEF NoRepeat
<1>5. /\ \A x : x \in ToSet(t) <=> \E j \in 1..(n - 1) : t[j] = x
      /\ \A x : x \in ToSet(s) <=> \E j \in 1..n : s[j] = x
      /\ ToSet(s) \subseteq S
  BY <1>3, ElementsAt
<1> HIDE DEF n, m, t
<1>6. \A i, j \in 1..(n - 1) : t[i] = t[j] => i = j
  BY <1>1, <1>3, <1>4
<1>7. \A x : x \in ToSet(t) <=> x \in ToSet(s) /\ x # s[n]
  <2>1. ASSUME NEW j \in 1..(n - 1) PROVE t[j] # s[n] /\ \E k \in 1..n : s[k] = t[j]
    <3>1. j \in 1..n /\ n \in 1..n /\ t[j] = s[j] /\ j # n
      BY <1>1, <1>3
    <3> QED BY <1>4, <3>1
  <2>2. ASSUME NEW k \in 1..n, s[k] # s[n] PROVE \E j \in 1..(n - 1) : t[j] = s[k]
    <3>1. k \in 1..(n - 1) /\ t[k] = s[k]
      BY <1>1, <1>3, <2>2
    <3> QED BY <3>1
  <2> QED BY <1>5, <2>1, <2>2
<1>8. s[n] \in ToSet(s)
  <2>1. n \in 1..n
    BY <1>1
  <2> QED BY <1>5, <2>1
<1> QED BY <1>1, <1>2, <1>3, <1>5, <1>6, <1>7, <1>8 DEF NoRepeat, n, t

\* What is left of a sorted list is sorted, and its head is the least element.
LEMMA SortedRest ==
  ASSUME NEW S, NEW s \in Seq(S), NEW key, Sorted(s, key), s # <<>>
  PROVE  Sorted(Tail(s), key) /\ \A x \in ToSet(s) : x = Head(s) \/ key[Head(s)] <= key[x]
<1> DEFINE n == Len(s)
           t == Tail(s)
<1>1. n \in Nat /\ n # 0 /\ Head(s) = s[1]
  BY LenProperties, EmptySeq
<1>2. Len(t) = n - 1 /\ \A i \in 1..(n - 1) : t[i] = s[i + 1]
  BY HeadTailProperties
<1>3. \A i, j \in 1..n : i < j => key[s[i]] <= key[s[j]]
  BY DEF Sorted
<1>4. \A x : x \in ToSet(s) <=> \E j \in 1..n : s[j] = x
  BY ElementsAt
<1> HIDE DEF n, t
<1>5. ASSUME NEW i \in 1..(n - 1), NEW j \in 1..(n - 1), i < j PROVE key[t[i]] <= key[t[j]]
  <2>1. i + 1 \in 1..n /\ j + 1 \in 1..n /\ i + 1 < j + 1 /\ t[i] = s[i + 1] /\ t[j] = s[j + 1]
    BY <1>1, <1>2, <1>5
  <2> QED BY <1>3, <2>1
<1>6. ASSUME NEW x \in ToSet(s), x # s[1] PROVE key[s[1]] <= key[x]
  <2>1. PICK j \in 1..n : s[j] = x
    BY <1>4, <1>6
  <2>2. 1 \in 1..n /\ 1 < j
    BY <1>1, <1>6, <2>1
  <2> QED BY <1>3, <2>1, <2>2
<1> QED BY <1>1, <1>2, <1>5, <1>6 DEF Sorted, t

\* A list is as sorted as before when only the keys of other elements change.
LEMMA SortedElsewhere ==
  ASSUME NEW S, NEW s \in Seq(S), NEW key, NEW other, Sorted(s, key),
         \A x \in ToSet(s) : other[x] = key[x]
  PROVE  Sorted(s, other)
<1>1. \A i \in 1..Len(s) : s[i] \in ToSet(s)
  BY ElementsAt
<1> QED BY <1>1 DEF Sorted

\* Without its tail.
LEMMA SortedFront ==
  ASSUME NEW S, NEW s \in Seq(S), NEW key, Sorted(s, key), NoRepeat(s), s # <<>>
  PROVE  Sorted(RemoveTail(s), key)
<1>1. /\ Len(s) \in Nat \ {0} /\ Len(RemoveTail(s)) = Len(s) - 1
      /\ \A i \in 1..(Len(s) - 1) : RemoveTail(s)[i] = s[i]
  BY TailRemoved
<1> QED BY <1>1 DEF Sorted

=============================================================================
