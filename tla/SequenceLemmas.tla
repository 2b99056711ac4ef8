--------------------------- MODULE SequenceLemmas ---------------------------
(***************************************************************************)
(* What the proofs need to know of queues: an element or another queue     *)
(* appended, the head taken, an element removed from the middle.           *)
(***************************************************************************)
EXTENDS Naturals, Sequences, SequencesExt, SequenceTheorems,
        WellFoundedInduction, TLAPS

\* Every set of numbers that is not empty has a smallest one.
LEMMA MinProperties ==
    ASSUME NEW I \in SUBSET Nat, I # {}
    PROVE  Min(I) \in I /\ \A y \in I : Min(I) <= y
  <1> DEFINE R == OpToRel(<, Nat)
  <1>1. IsWellFoundedOn(R, Nat)
    BY NatLessThanWellFounded
  <1>2. \A x, y \in Nat : x < y => <<x, y>> \in R
    BY DEF OpToRel
  <1> HIDE DEF R
  <1>3. PICK x \in I : \A y \in I : ~(<<y, x>> \in R)
    BY <1>1, WFMin
  <1>4. ASSUME NEW y \in I PROVE x <= y
    <2>1. x \in Nat /\ y \in Nat /\ ~(<<y, x>> \in R)
      BY <1>3
    <2>2. ~(y < x)
      BY <1>2, <2>1
    <2> QED BY <2>1, <2>2
  <1> QED BY <1>4 DEF Min

\* Induction over the natural numbers, for a set instead of a predicate.
LEMMA InductiveSet ==
    ASSUME NEW T \in SUBSET Nat, 0 \in T, \A n \in T : n + 1 \in T
    PROVE  T = Nat
  <1> SUFFICES ASSUME Nat \ T # {} PROVE FALSE
    OBVIOUS
  <1>1. PICK m \in Nat \ T : \A y \in Nat \ T : m <= y
    BY MinProperties
  <1>2. m - 1 \in Nat /\ m - 1 \notin Nat \ T
    BY <1>1
  <1> QED BY <1>1, <1>2

\* The elements of a sequence with one more at its end.
LEMMA RangeAppend ==
    ASSUME NEW S, NEW q \in Seq(S), NEW x \in S
    PROVE  Range(Append(q, x)) = Range(q) \cup {x}
  <1>1. /\ Len(Append(q, x)) = Len(q) + 1 /\ Append(q, x)[Len(q) + 1] = x
        /\ \A i \in 1..Len(q) : Append(q, x)[i] = q[i]
        /\ DOMAIN Append(q, x) = 1..(Len(q) + 1) /\ DOMAIN q = 1..Len(q) /\ Len(q) \in Nat
    OBVIOUS
  <1>2. ASSUME NEW y \in Range(Append(q, x)) PROVE y \in Range(q) \cup {x}
    BY <1>1 DEF Range
  <1>3. ASSUME NEW y \in Range(q) \cup {x} PROVE y \in Range(Append(q, x))
    <2>1. CASE y = x
      BY <1>1, <2>1, Len(q) + 1 \in 1..(Len(q) + 1) DEF Range
    <2>2. CASE y \in Range(q)
      <3>1. PICK i \in 1..Len(q) : y = q[i]
        BY <1>1, <2>2 DEF Range
      <3> QED BY <1>1, <3>1, i \in 1..(Len(q) + 1) DEF Range
    <2> QED BY <1>3, <2>1, <2>2
  <1> QED BY <1>2, <1>3

\* The elements of two sequences, one after the other.
LEMMA RangeConcat ==
    ASSUME NEW S, NEW p \in Seq(S), NEW q \in Seq(S)
    PROVE  p \o q \in Seq(S) /\ Range(p \o q) = Range(p) \cup Range(q)
  <1>1. PICK m \in Nat : m = Len(p) /\ DOMAIN p = 1..m
    OBVIOUS
  <1>2. PICK n \in Nat : n = Len(q) /\ DOMAIN q = 1..n
    OBVIOUS
  <1>3. PICK r \in Seq(S) : r = p \o q
    BY ConcatProperties
  <1>4. /\ DOMAIN r = 1..(m + n)
        /\ \A i \in 1..(m + n) : r[i] = IF i <= m THEN p[i] ELSE q[i - m]
    BY <1>1, <1>2, <1>3, ConcatProperties
  <1>5. ASSUME NEW y \in Range(r) PROVE y \in Range(p) \cup Range(q)
    <2>1. PICK i \in 1..(m + n) : y = r[i]
      BY <1>4 DEF Range
    <2>2. CASE i <= m
      BY <1>1, <1>4, <2>1, <2>2, i \in 1..m DEF Range
    <2>3. CASE ~(i <= m)
      BY <1>2, <1>4, <2>1, <2>3, i - m \in 1..n DEF Range
    <2> QED BY <2>2, <2>3
  <1>6. ASSUME NEW y \in Range(p) PROVE y \in Range(r)
    <2>1. PICK i \in 1..m : y = p[i]
      BY <1>1, <1>6 DEF Range
    <2> QED BY <1>4, <2>1, i \in 1..(m + n), i <= m DEF Range
  <1>7. ASSUME NEW y \in Range(q) PROVE y \in Range(r)
    <2>1. PICK i \in 1..n : y = q[i]
      BY <1>2, <1>7 DEF Range
    <2>2. i + m \in 1..(m + n) /\ ~(i + m <= m) /\ (i + m) - m = i
      OBVIOUS
    <2> QED BY <1>4, <2>1, <2>2 DEF Range
  <1> QED BY <1>3, <1>5, <1>6, <1>7

\* A sequence without its first element.
LEMMA RangeTail ==
    ASSUME NEW S, NEW q \in Seq(S), q # <<>>
    PROVE  /\ q[1] \in S /\ Tail(q) \in Seq(S)
           /\ Range(q) = Range(Tail(q)) \cup {q[1]}
           /\ Len(Tail(q)) = Len(q) - 1 /\ Len(q) \in Nat \ {0}
           /\ \A i \in 1..Len(Tail(q)) : Tail(q)[i] = q[i + 1]
  <1>1. /\ Tail(q) \in Seq(S) /\ Len(Tail(q)) = Len(q) - 1 /\ Len(q) \in Nat \ {0}
        /\ \A i \in 1..Len(Tail(q)) : Tail(q)[i] = q[i + 1]
        /\ DOMAIN Tail(q) = 1..(Len(q) - 1) /\ DOMAIN q = 1..Len(q) /\ q[1] \in S
    OBVIOUS
  <1>2. ASSUME NEW y \in Range(Tail(q)) \cup {q[1]} PROVE y \in Range(q)
    BY <1>1 DEF Range
  <1>3. ASSUME NEW y \in Range(q) PROVE y \in Range(Tail(q)) \cup {q[1]}
    <2>1. PICK i \in 1..Len(q) : y = q[i]
      BY <1>1 DEF Range
    <2>2. CASE i # 1
      <3>1. i - 1 \in 1..(Len(q) - 1) /\ Tail(q)[i - 1] = q[(i - 1) + 1] /\ (i - 1) + 1 = i
        BY <1>1, <2>2
      <3> QED BY <1>1, <2>1, <3>1 DEF Range
    <2> QED BY <2>1, <2>2
  <1> QED BY <1>1, <1>2, <1>3

\* A sequence with another element in one place.
LEMMA ReplaceProperties ==
    ASSUME NEW S, NEW q \in Seq(S), NEW i \in DOMAIN q, NEW x \in S
    PROVE  /\ [q EXCEPT ![i] = x] \in Seq(S)
           /\ DOMAIN [q EXCEPT ![i] = x] = DOMAIN q /\ Len([q EXCEPT ![i] = x]) = Len(q)
           /\ [q EXCEPT ![i] = x][i] = x
           /\ \A j \in DOMAIN q \ {i} : [q EXCEPT ![i] = x][j] = q[j]
  OBVIOUS

\* Appending to a queue that is not empty leaves its head.
LEMMA AppendKeepsHead ==
    ASSUME NEW S, NEW q \in Seq(S), q # <<>>, NEW x \in S
    PROVE  Append(q, x)[1] = q[1]
  <1>1. 1 \in 1..Len(q)
    BY EmptySeq
  <1> QED BY <1>1, AppendProperties

\* A sequence without its i-th element.
LEMMA RemoveAtProperties ==
    ASSUME NEW S, NEW q \in Seq(S), NEW i \in 1..Len(q)
    PROVE  /\ RemoveAt(q, i) \in Seq(S) /\ Len(RemoveAt(q, i)) = Len(q) - 1
           /\ \A j \in 1..(Len(q) - 1) : RemoveAt(q, i)[j] = q[IF j < i THEN j ELSE j + 1]
  <1> DEFINE a == SubSeq(q, 1, i - 1)
             b == SubSeq(q, i + 1, Len(q))
  <1>1. a \in Seq(S) /\ Len(a) = i - 1 /\ \A j \in 1..(i - 1) : a[j] = q[j]
    OBVIOUS
  <1>2. b \in Seq(S) /\ Len(b) = Len(q) - i /\ \A j \in 1..(Len(q) - i) : b[j] = q[j + i]
    OBVIOUS
  <1>3. RemoveAt(q, i) = a \o b
    BY DEF RemoveAt
  <1> HIDE DEF a, b
  <1>4. /\ a \o b \in Seq(S) /\ Len(a \o b) = Len(q) - 1
        /\ \A j \in 1..(Len(q) - 1) : (a \o b)[j] = IF j <= i - 1 THEN a[j] ELSE b[j - (i - 1)]
    <2>1. /\ a \o b \in Seq(S) /\ Len(a \o b) = Len(a) + Len(b)
          /\ \A j \in 1..(Len(a) + Len(b)) : (a \o b)[j] = IF j <= Len(a) THEN a[j] ELSE b[j - Len(a)]
      BY <1>1, <1>2, ConcatProperties
    <2>2. Len(a) + Len(b) = Len(q) - 1
      BY <1>1, <1>2
    <2> QED BY <1>1, <2>1, <2>2
  <1>5. ASSUME NEW j \in 1..(Len(q) - 1) PROVE (a \o b)[j] = q[IF j < i THEN j ELSE j + 1]
    <2>1. CASE j < i
      BY <1>1, <1>4, <2>1
    <2>2. CASE ~(j < i)
      <3>1. j - (i - 1) \in 1..(Len(q) - i) /\ (j - (i - 1)) + i = j + 1
        BY <2>2
      <3> QED BY <1>2, <1>4, <2>2, <3>1
    <2> QED BY <2>1, <2>2
  <1> QED BY <1>3, <1>4, <1>5

\* Removing an element leaves the others.
LEMMA RemoveFirstProperties ==
    ASSUME NEW S, NEW q \in Seq(S), NEW x
    PROVE  /\ RemoveFirst(q, x) \in Seq(S)
           /\ \A y \in Range(q) : y # x => y \in Range(RemoveFirst(q, x))
           /\ Range(RemoveFirst(q, x)) \subseteq Range(q)
  <1>0. Len(q) \in Nat /\ DOMAIN q = 1..Len(q)
    OBVIOUS
  <1>1. CASE \E i \in 1..Len(q) : q[i] = x
    <2> DEFINE I == {j \in 1..Len(q) : q[j] = x}
    <2>1. I \in SUBSET Nat /\ I # {}
      BY <1>1
    <2>2. PICK i \in 1..Len(q) : i = Min(I) /\ q[i] = x
      BY <2>1, MinProperties
    <2>3. RemoveFirst(q, x) = RemoveAt(q, i)
      BY <1>1, <2>1, <2>2 DEF RemoveFirst, SelectInSeq
    <2>4. PICK r \in Seq(S) : r = RemoveAt(q, i)
      BY RemoveAtProperties
    <2>5. /\ Len(r) = Len(q) - 1 /\ DOMAIN r = 1..(Len(q) - 1)
          /\ \A j \in 1..(Len(q) - 1) : r[j] = q[IF j < i THEN j ELSE j + 1]
      BY <2>4, RemoveAtProperties
    <2>6. ASSUME NEW y \in Range(q), y # x PROVE y \in Range(r)
      <3>1. PICK l \in 1..Len(q) : y = q[l] /\ l # i
        BY <1>0, <2>2, <2>6 DEF Range
      <3>2. CASE l < i
        <4>1. l \in 1..(Len(q) - 1) /\ r[l] = q[l]
          BY <1>0, <2>5, <3>2
        <4> QED BY <2>5, <3>1, <4>1 DEF Range
      <3>3. CASE l > i
        <4>1. l - 1 \in 1..(Len(q) - 1) /\ r[l - 1] = q[(l - 1) + 1] /\ (l - 1) + 1 = l
          BY <1>0, <2>5, <3>3
        <4> QED BY <2>5, <3>1, <4>1 DEF Range
      <3> QED BY <3>1, <3>2, <3>3
    <2>7. Range(r) \subseteq Range(q)
      BY <1>0, <2>5, SMTT(30) DEF Range
    <2> QED BY <2>3, <2>4, <2>6, <2>7
  <1>2. CASE ~\E i \in 1..Len(q) : q[i] = x
    BY <1>2 DEF RemoveFirst
  <1> QED BY <1>1, <1>2

\* Where the elements come from that are left when one is removed.
LEMMA RemoveFirstIndices ==
    ASSUME NEW S, NEW q \in Seq(S), NEW x
    PROVE  \E f \in [DOMAIN RemoveFirst(q, x) -> DOMAIN q] :
             /\ \A j \in DOMAIN RemoveFirst(q, x) : RemoveFirst(q, x)[j] = q[f[j]]
             /\ \A j, k \in DOMAIN RemoveFirst(q, x) : f[j] = f[k] => j = k
             /\ x \in Range(q) => \E i \in DOMAIN q :
                  q[i] = x /\ \A j \in DOMAIN RemoveFirst(q, x) : f[j] # i
  <1>0. Len(q) \in Nat /\ DOMAIN q = 1..Len(q)
    OBVIOUS
  <1>1. CASE \E i \in 1..Len(q) : q[i] = x
    <2> DEFINE I == {j \in 1..Len(q) : q[j] = x}
    <2>1. I \in SUBSET Nat /\ I # {}
      BY <1>1
    <2>2. PICK i \in 1..Len(q) : i = Min(I) /\ q[i] = x
      BY <2>1, MinProperties
    <2>3. RemoveFirst(q, x) = RemoveAt(q, i)
      BY <1>1, <2>1, <2>2 DEF RemoveFirst, SelectInSeq
    <2>4. PICK r \in Seq(S) : r = RemoveFirst(q, x)
      BY <2>3, RemoveAtProperties
    <2>5. PICK n \in Nat : n = Len(q)
      BY <1>0
    <2>6. /\ DOMAIN r = 1..(n - 1)
          /\ \A j \in 1..(n - 1) : r[j] = q[IF j < i THEN j ELSE j + 1]
      <3>1. Len(r) = n - 1 /\ \A j \in 1..(n - 1) : r[j] = q[IF j < i THEN j ELSE j + 1]
        BY <2>3, <2>4, <2>5, RemoveAtProperties
      <3>2. DOMAIN r = 1..Len(r)
        OBVIOUS
      <3> QED BY <3>1, <3>2
    <2> DEFINE f == [j \in 1..(n - 1) |-> IF j < i THEN j ELSE j + 1]
    <2>7. \A j \in 1..(n - 1) : f[j] \in 1..n /\ f[j] # i /\ r[j] = q[f[j]]
      BY <2>5, <2>6
    <2>8. \A j, k \in 1..(n - 1) : f[j] = f[k] => j = k
      BY <2>5
    <2>9. f \in [1..(n - 1) -> 1..n]
      BY <2>7
    <2> HIDE DEF f
    <2>10. \E j \in DOMAIN q : q[j] = x /\ \A k \in DOMAIN r : f[k] # j
      BY <1>0, <2>2, <2>6, <2>7
    <2>11. DOMAIN r = 1..(n - 1) /\ DOMAIN q = 1..n
      BY <1>0, <2>5, <2>6
    <2>12. f \in [DOMAIN r -> DOMAIN q]
      BY <2>9, <2>11
    <2>13. /\ \A j \in DOMAIN r : r[j] = q[f[j]]
           /\ \A j, k \in DOMAIN r : f[j] = f[k] => j = k
      BY <2>7, <2>8, <2>11
    <2> QED BY <2>4, <2>10, <2>12, <2>13
  <1>2. CASE ~\E i \in 1..Len(q) : q[i] = x
    <2>1. RemoveFirst(q, x) = q /\ x \notin Range(q)
      BY <1>0, <1>2 DEF RemoveFirst, Range
    <2> DEFINE f == [j \in DOMAIN q |-> j]
    <2>2. f \in [DOMAIN q -> DOMAIN q] /\ \A j \in DOMAIN q : f[j] = j
      OBVIOUS
    <2> HIDE DEF f
    <2> QED BY <2>1, <2>2
  <1> QED BY <1>1, <1>2

\* Elements with different keys still have them when one is removed.
LEMMA RemoveFirstKeys ==
    ASSUME NEW S, NEW q \in Seq(S), NEW x, NEW K,
           \A i, j \in DOMAIN q : K[q[i]] = K[q[j]] => i = j
    PROVE  /\ \A i, j \in DOMAIN RemoveFirst(q, x) :
                K[RemoveFirst(q, x)[i]] = K[RemoveFirst(q, x)[j]] => i = j
           /\ x \in Range(q) => \A y \in Range(RemoveFirst(q, x)) : K[y] # K[x]
  <1>1. PICK f \in [DOMAIN RemoveFirst(q, x) -> DOMAIN q] :
          /\ \A j \in DOMAIN RemoveFirst(q, x) : RemoveFirst(q, x)[j] = q[f[j]]
          /\ \A j, k \in DOMAIN RemoveFirst(q, x) : f[j] = f[k] => j = k
          /\ x \in Range(q) => \E i \in DOMAIN q :
               q[i] = x /\ \A j \in DOMAIN RemoveFirst(q, x) : f[j] # i
    BY RemoveFirstIndices
  <1>2. PICK r : r = RemoveFirst(q, x)
    OBVIOUS
  <1>3. ASSUME NEW i \in DOMAIN r, NEW j \in DOMAIN r, K[r[i]] = K[r[j]] PROVE i = j
    <2>1. f[i] \in DOMAIN q /\ f[j] \in DOMAIN q /\ K[q[f[i]]] = K[q[f[j]]]
      BY <1>1, <1>2, <1>3
    <2> QED BY <1>1, <1>2, <2>1
  <1>4. ASSUME x \in Range(q), NEW y \in Range(r) PROVE K[y] # K[x]
    <2>1. PICK i \in DOMAIN q : q[i] = x /\ \A j \in DOMAIN r : f[j] # i
      BY <1>1, <1>2, <1>4
    <2>2. PICK j \in DOMAIN r : y = r[j]
      BY <1>4 DEF Range
    <2>3. f[j] \in DOMAIN q /\ y = q[f[j]] /\ f[j] # i
      BY <1>1, <1>2, <2>1, <2>2
    <2> QED BY <2>1, <2>3
  <1> QED BY <1>2, <1>3, <1>4
=============================================================================
