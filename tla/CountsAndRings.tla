--------------------------- MODULE CountsAndRings ---------------------------
(* Facts about data that the proofs of several components rest on: how the   *)
(* number of threads in a set changes when one thread moves, and what a ring *)
(* buffer, written at one end and read at the other, holds as a queue.       *)
EXTENDS Integers, Sequences, FiniteSetTheorems, SequenceTheorems, TLAPS

One(p) == IF p THEN 1 ELSE 0

(* Two sets of threads that agree on everybody but t: the sizes differ by    *)
(* what t does.                                                              *)
LEMMA CountChange ==
  ASSUME NEW T, IsFiniteSet(T), NEW A \in SUBSET T, NEW B \in SUBSET T, NEW t \in T,
         \A u \in T \ {t} : u \in B <=> u \in A
  PROVE  /\ Cardinality(A) \in Nat /\ Cardinality(B) \in Nat
         /\ Cardinality(B) = Cardinality(A) + One(t \in B) - One(t \in A)
         /\ t \in A => Cardinality(A) > 0
<1>1. IsFiniteSet(A) /\ IsFiniteSet(B)
  BY FS_Subset
<1>2. Cardinality(A) \in Nat /\ Cardinality(B) \in Nat
  BY <1>1, FS_CardinalityType
<1>3. CASE t \in B /\ t \notin A
  <2>1. B = A \cup {t}
    BY <1>3
  <2>2. Cardinality(B) = Cardinality(A) + 1
    BY <1>1, <1>3, <2>1, FS_AddElement
  <2>3. QED BY <1>2, <1>3, <2>2 DEF One
<1>4. CASE t \notin B /\ t \in A
  <2>1. A = B \cup {t}
    BY <1>4
  <2>2. Cardinality(A) = Cardinality(B) + 1
    BY <1>1, <1>4, <2>1, FS_AddElement
  <2>3. QED BY <1>2, <1>4, <2>2 DEF One
<1>5. CASE t \in B <=> t \in A
  <2>1. A = B
    BY <1>5
  <2>2. t \in A => Cardinality(A) # 0
    BY <1>1, FS_EmptySet
  <2>3. QED BY <1>2, <1>5, <2>1, <2>2 DEF One
<1>6. QED BY <1>3, <1>4, <1>5

(* A finite set with no elements counted is empty. *)
LEMMA NoneCounted ==
  ASSUME NEW T, IsFiniteSet(T), NEW A \in SUBSET T
  PROVE  Cardinality(A) = 0 <=> A = {}
  BY FS_Subset, FS_EmptySet
-----------------------------------------------------------------------------
(* Rings of any size: k is the number of cells, r the position of the first  *)
(* value, n the number of values.                                            *)

(* A position of a ring of k cells, past the last one back at the first. *)
Wrap(p, k) == p % k

LEMMA WrapOnce ==
  ASSUME NEW k \in Nat \ {0}, NEW p \in Nat, p < 2 * k
  PROVE  Wrap(p, k) = IF p < k THEN p ELSE p - k
<1>1. CASE p < k
  BY <1>1 DEF Wrap
<1>2. CASE p >= k
  BY <1>2 DEF Wrap
<1>3. QED BY <1>1, <1>2

LEMMA WrapPlus ==
  ASSUME NEW k \in Nat \ {0}, NEW r \in 0 .. k - 1, NEW i \in 0 .. k
  PROVE  /\ Wrap(r + i, k) = IF r + i < k THEN r + i ELSE r + i - k
         /\ Wrap(r + i, k) \in 0 .. k - 1
<1>1. r + i \in Nat /\ r + i < 2 * k
  OBVIOUS
<1>2. Wrap(r + i, k) = IF r + i < k THEN r + i ELSE r + i - k
  BY <1>1, WrapOnce
<1>3. QED BY <1>1, <1>2

(* The i-th cell from r on, and the n values from there.                     *)
Cell(r, i, k) == Wrap(r + i - 1, k)
Ring(b, r, n, k) == [i \in 1 .. n |-> b[Cell(r, i, k)]]
IsRing(S, b, r, n, k) ==
  k \in Nat \ {0} /\ r \in 0 .. k - 1 /\ n \in 0 .. k /\ \A p \in 0 .. k - 1 : b[p] \in S

(* A cell of the ring is a cell of the buffer. *)
LEMMA CellValue ==
  ASSUME NEW k \in Nat \ {0}, NEW r \in 0 .. k - 1, NEW i \in 1 .. k + 1
  PROVE  /\ Cell(r, i, k) = IF r + i <= k THEN r + i - 1 ELSE r + i - 1 - k
         /\ Cell(r, i, k) \in 0 .. k - 1
<1>1. i - 1 \in 0 .. k
  OBVIOUS
<1>2. /\ Wrap(r + (i - 1), k) = IF r + (i - 1) < k THEN r + (i - 1) ELSE r + (i - 1) - k
      /\ Wrap(r + (i - 1), k) \in 0 .. k - 1
  BY <1>1, WrapPlus
<1>3. r + (i - 1) = r + i - 1
  OBVIOUS
<1>4. QED BY <1>2, <1>3 DEF Cell

LEMMA LenOfFunction ==
  ASSUME NEW S, NEW n \in Nat, NEW f \in [1 .. n -> S]
  PROVE  f \in Seq(S) /\ Len(f) = n
  OBVIOUS

(* A ring is a sequence, as long as the number of its values. *)
LEMMA RingIsSeq ==
  ASSUME NEW S, NEW b, NEW r, NEW n, NEW k, IsRing(S, b, r, n, k)
  PROVE  /\ Ring(b, r, n, k) \in Seq(S) /\ Len(Ring(b, r, n, k)) = n
<1>1. \A i \in 1 .. n : b[Cell(r, i, k)] \in S
  <2> TAKE i \in 1 .. n
  <2>1. Cell(r, i, k) \in 0 .. k - 1
    <3>1. k \in Nat \ {0} /\ r \in 0 .. k - 1 /\ i \in 1 .. k + 1
      BY DEF IsRing
    <3>2. QED BY <3>1, CellValue
  <2>2. QED BY <2>1, Zenon DEF IsRing
<1>2. Ring(b, r, n, k) \in [1 .. n -> S]
  BY <1>1, Zenon DEF Ring
<1>3. n \in Nat
  BY DEF IsRing
<1>4. QED BY <1>2, <1>3, LenOfFunction

(* b2 is b with the value v in cell e, as far as the ring goes. *)
Written(b, b2, e, v, k) == b2[e] = v /\ \A p \in (0 .. k - 1) \ {e} : b2[p] = b[p]

(* Writing behind the last value appends to the queue. *)
LEMMA RingPut ==
  ASSUME NEW S, NEW b, NEW r, NEW n, NEW k, IsRing(S, b, r, n, k), n < k,
         NEW v \in S, NEW b2, Written(b, b2, Cell(r, n + 1, k), v, k)
  PROVE  Ring(b2, r, n + 1, k) = Append(Ring(b, r, n, k), v)
<1> DEFINE s == Ring(b, r, n, k)
           s2 == Ring(b2, r, n + 1, k)
           e == Cell(r, n + 1, k)
<1>1. b2[e] = v /\ \A p \in (0 .. k - 1) \ {e} : b2[p] = b[p]
  BY DEF Written
<1>2. /\ k \in Nat \ {0} /\ r \in 0 .. k - 1 /\ n \in 0 .. k - 1
      /\ \A p \in 0 .. k - 1 : b[p] \in S
  BY DEF IsRing
<1>3. IsRing(S, b2, r, n + 1, k)
  <2>1. \A p \in 0 .. k - 1 : b2[p] \in S
    BY <1>2, <1>1
  <2>2. QED BY <1>2, <2>1 DEF IsRing
<1>4. /\ \A i \in 1 .. n : s[i] = b[Cell(r, i, k)]
      /\ \A i \in 1 .. n + 1 : s2[i] = b2[Cell(r, i, k)]
  BY Zenon DEF Ring
<1>5. s \in Seq(S) /\ Len(s) = n /\ s2 \in Seq(S) /\ Len(s2) = n + 1
  BY <1>3, RingIsSeq
<1>6. \A i \in 1 .. n : Cell(r, i, k) \in (0 .. k - 1) \ {e}
  <2> TAKE i \in 1 .. n
  <2>1. e = IF r + (n + 1) <= k THEN r + (n + 1) - 1 ELSE r + (n + 1) - 1 - k
    <3>1. n + 1 \in 1 .. k + 1
      BY <1>2
    <3>2. QED BY <1>2, <3>1, CellValue
  <2>2. /\ Cell(r, i, k) = IF r + i <= k THEN r + i - 1 ELSE r + i - 1 - k
        /\ Cell(r, i, k) \in 0 .. k - 1
    <3>1. i \in 1 .. k + 1
      BY <1>2
    <3>2. QED BY <1>2, <3>1, CellValue
  <2> HIDE DEF e
  <2>3. QED BY <1>2, <2>1, <2>2
<1>7. \A i \in 1 .. n : s2[i] = s[i]
  <2> TAKE i \in 1 .. n
  <2>1. i \in 1 .. n + 1
    BY <1>2
  <2>2. b2[Cell(r, i, k)] = b[Cell(r, i, k)]
    BY <1>6, <1>1, Zenon
  <2>3. QED BY <1>4, <2>1, <2>2, Zenon
<1>8. s2[n + 1] = v
  <2>1. n + 1 \in 1 .. n + 1
    BY <1>2
  <2>2. QED BY <1>4, <1>1, <2>1, Zenon
<1>9. n \in Nat
  BY <1>2
<1> HIDE DEF s, s2, e
<1>10. /\ Append(s, v) \in Seq(S) /\ Len(Append(s, v)) = n + 1
      /\ \A i \in 1 .. n : Append(s, v)[i] = s[i]
      /\ Append(s, v)[n + 1] = v
  BY <1>5, <1>9, AppendProperties
<1>11. \A i \in 1 .. n + 1 : s2[i] = Append(s, v)[i]
  BY <1>7, <1>8, <1>9, <1>10
<1>12. s2 = Append(s, v)
  BY <1>5, <1>9, <1>10, <1>11, SeqEqual
<1>13. QED BY <1>12 DEF s, s2

(* Moving the read position on takes the first value away. *)
LEMMA RingGet ==
  ASSUME NEW S, NEW b, NEW r, NEW n, NEW k, IsRing(S, b, r, n, k), n > 0
  PROVE  /\ Ring(b, r, n, k) # <<>> /\ Head(Ring(b, r, n, k)) = b[r]
         /\ Ring(b, Wrap(r + 1, k), n - 1, k) = Tail(Ring(b, r, n, k))
<1> DEFINE q == Wrap(r + 1, k)
           s == Ring(b, r, n, k)
           s2 == Ring(b, q, n - 1, k)
<1>1. /\ k \in Nat \ {0} /\ r \in 0 .. k - 1 /\ n \in 1 .. k
      /\ \A p \in 0 .. k - 1 : b[p] \in S
  BY DEF IsRing
<1>2. q \in 0 .. k - 1 /\ q = IF r + 1 < k THEN r + 1 ELSE r + 1 - k
  <2>1. 1 \in 0 .. k
    BY <1>1
  <2>2. QED BY <1>1, <2>1, WrapPlus
<1> HIDE DEF q
<1>3. /\ \A i \in 1 .. n : s[i] = b[Cell(r, i, k)]
      /\ \A i \in 1 .. n - 1 : s2[i] = b[Cell(q, i, k)]
  BY Zenon DEF Ring
<1>4. s \in Seq(S) /\ Len(s) = n /\ s2 \in Seq(S) /\ Len(s2) = n - 1
  <2>1. IsRing(S, b, q, n - 1, k)
    BY <1>1, <1>2 DEF IsRing
  <2>2. QED BY <2>1, RingIsSeq
<1>5. \A i \in 1 .. n - 1 : Cell(q, i, k) = Cell(r, i + 1, k)
  <2> TAKE i \in 1 .. n - 1
  <2>1. Cell(q, i, k) = IF q + i <= k THEN q + i - 1 ELSE q + i - 1 - k
    <3>1. i \in 1 .. k + 1
      BY <1>1
    <3>2. QED BY <1>1, <1>2, <3>1, CellValue
  <2>2. Cell(r, i + 1, k) = IF r + (i + 1) <= k THEN r + (i + 1) - 1 ELSE r + (i + 1) - 1 - k
    <3>1. i + 1 \in 1 .. k + 1
      BY <1>1
    <3>2. QED BY <1>1, <3>1, CellValue
  <2>3. QED BY <1>1, <1>2, <2>1, <2>2
<1>6. s[1] = b[r]
  <2>1. 1 \in 1 .. k + 1 /\ 1 \in 1 .. n /\ r + 1 <= k /\ r + 1 - 1 = r
    BY <1>1
  <2>2. Cell(r, 1, k) = r
    BY <1>1, <2>1, CellValue
  <2>3. QED BY <1>3, <2>1, <2>2, Zenon
<1>7. \A i \in 1 .. n - 1 : s2[i] = s[i + 1]
  <2> TAKE i \in 1 .. n - 1
  <2>1. i + 1 \in 1 .. n
    BY <1>1
  <2>2. QED BY <1>3, <1>5, <2>1, Zenon
<1>8. n \in Nat /\ n > 0
  BY <1>1
<1> HIDE DEF s, s2
<1>9. s # <<>> /\ Head(s) = b[r]
  BY <1>4, <1>6, <1>8
<1>10. /\ Tail(s) \in Seq(S) /\ Len(Tail(s)) = n - 1
      /\ \A i \in 1 .. n - 1 : Tail(s)[i] = s[i + 1]
  BY <1>4, <1>8, <1>9, HeadTailProperties
<1>11. \A i \in 1 .. n - 1 : s2[i] = Tail(s)[i]
  BY <1>7, <1>10
<1>12. s2 = Tail(s)
  BY <1>4, <1>8, <1>10, <1>11, SeqEqual
<1>13. QED BY <1>9, <1>12 DEF s, s2, q

(* Advancing the write position, and the read position, keeps them aligned. *)
LEMMA WrapNext ==
  ASSUME NEW k \in Nat \ {0}, NEW r \in 0 .. k - 1, NEW n \in 0 .. k - 1
  PROVE  /\ Wrap(Wrap(r + n, k) + 1, k) = Wrap(r + (n + 1), k)
         /\ Wrap(Wrap(r + 1, k) + n, k) = Wrap(r + (n + 1), k)
<1> DEFINE p == Wrap(r + n, k)
           q == Wrap(r + 1, k)
<1>1. n \in 0 .. k /\ n + 1 \in 0 .. k /\ 1 \in 0 .. k
  OBVIOUS
<1>2. /\ p \in 0 .. k - 1 /\ p = IF r + n < k THEN r + n ELSE r + n - k
      /\ q \in 0 .. k - 1 /\ q = IF r + 1 < k THEN r + 1 ELSE r + 1 - k
  BY <1>1, WrapPlus
<1>3. Wrap(r + (n + 1), k) = IF r + (n + 1) < k THEN r + (n + 1) ELSE r + (n + 1) - k
  BY <1>1, WrapPlus
<1> HIDE DEF p, q
<1>4. /\ Wrap(p + 1, k) = IF p + 1 < k THEN p + 1 ELSE p + 1 - k
      /\ Wrap(q + n, k) = IF q + n < k THEN q + n ELSE q + n - k
  BY <1>1, <1>2, WrapPlus
<1>5. /\ Wrap(p + 1, k) = Wrap(r + (n + 1), k)
      /\ Wrap(q + n, k) = Wrap(r + (n + 1), k)
  BY <1>2, <1>3, <1>4
<1>6. QED BY <1>5 DEF p, q

LEMMA WrapAtZero == ASSUME NEW k \in Nat \ {0} PROVE Wrap(0, k) = 0
  BY WrapOnce
=============================================================================
