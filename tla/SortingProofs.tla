---------------------------- MODULE SortingProofs ----------------------------
(* The sorts, the shuffle and the searches for arrays of any length and of   *)
(* any longs: the invariant of every loop, and what they give the results.   *)
EXTENDS Sorting, TLAPS

(* The invariants of the loops.  Bubble sort: the last i cells are in order  *)
(* and no cell is greater than a later one of them; cell j is the greatest   *)
(* so far.                                                                   *)
Bubbled ==
  /\ count >= 2 /\ op = "sort"
  /\ i \in 0 .. count - 1 /\ j \in 0 .. count - 1 - i
  /\ \A p \in 0 .. j : arr[p] <= arr[j]
  /\ \A p, q \in Index : p <= q /\ q >= count - i => arr[p] <= arr[q]

(* Selection sort: the first i cells are in order and no later cell is       *)
(* smaller; min_idx is the smallest cell from i to before j.                 *)
Selected ==
  /\ count >= 2 /\ op = "sort"
  /\ i \in 0 .. count - 1
  /\ \A p, q \in Index : p <= q /\ p < i => arr[p] <= arr[q]

Scanned ==
  /\ i < count - 1
  /\ j \in i + 1 .. count /\ min_idx \in i .. j - 1
  /\ \A p \in i .. j - 1 : arr[min_idx] <= arr[p]

(* Insertion sort: the first i cells are in order, and while the key has no  *)
(* place yet so are the first i + 1 without the hole at j + 1, those behind  *)
(* the hole greater than the key.                                            *)
Inserted ==
  /\ count >= 2 /\ op = "sort"
  /\ i \in 1 .. count
  /\ \A p, q \in 0 .. i - 1 : p <= q => arr[p] <= arr[q]

Shifted ==
  /\ count >= 2 /\ op = "sort"
  /\ i \in 1 .. count - 1 /\ j \in -1 .. i - 1 /\ key \in Longs
  /\ \A p, q \in (0 .. i) \ {j + 1} : p <= q => arr[p] <= arr[q]
  /\ \A p \in j + 2 .. i : key < arr[p]

Shuffled == op = "shuffle" /\ i \in 0 .. count - 1

(* The searches: where the value can be, and where it is not.                *)
Halved ==
  /\ op = "bsearch" /\ left <= right + 1 /\ right \in -1 .. count - 1
  /\ Sorted(arr) => \A p \in Index : arr[p] = value => left <= p /\ p <= right

Searched == op = "search" /\ \A p \in 0 .. i - 1 : arr[p] # value

Found ==
  /\ op = pc /\ i \in 1 .. count /\ min_idx \in 0 .. i - 1
  /\ \A p \in 0 .. i - 1 : ~Beats(op, arr[p], arr[min_idx])
  /\ \A p \in 0 .. min_idx - 1 : arr[p] # arr[min_idx]

Loops ==
  /\ pc = "idle" => j = 0 /\ min_idx = 0
  /\ pc = "bubble" => Bubbled
  /\ pc = "select_for" => Selected
  /\ pc = "select_scan" => Selected /\ Scanned
  /\ pc = "insert_for" => Inserted
  /\ pc = "insert_while" => Shifted
  /\ pc = "shuffle" => Shuffled
  /\ pc = "bsearch" => Halved
  /\ pc = "search" => Searched
  /\ pc \in {"find_min", "find_max"} => Found

(* The array, its hole filled with the key, is a rearrangement of what it    *)
(* was when the call began.                                                  *)
Filled == IF pc = "insert_while" THEN [arr EXCEPT ![j + 1] = key] ELSE arr
Kept == Permuted(Filled, given)

(* What the return r of a call says of the array. *)
Answered(r) ==
  /\ op = "sort" => Sorted(arr)
  /\ op = "bsearch" /\ r # -1 => r \in Index /\ arr[r] = value
  /\ op = "bsearch" /\ r = -1 /\ Sorted(arr) => \A p \in Index : arr[p] # value
  /\ op = "search" /\ r # -1 =>
       r \in Index /\ arr[r] = value /\ \A p \in 0 .. r - 1 : arr[p] # value
  /\ op = "search" /\ r = -1 => \A p \in Index : arr[p] # value
  /\ op \in {"find_min", "find_max"} =>
       IF count = 0 THEN r = -1
       ELSE /\ r \in Index
            /\ \A p \in Index : ~Beats(op, arr[p], arr[r])
            /\ \A p \in 0 .. r - 1 : arr[p] # arr[r]

Inv == TypeOK /\ Loops /\ Kept /\ (pc = "idle" => Answered(ret))

LEMMA AnswersAre ==
  (pc = "idle" => Answered(ret)) => SortsSort /\ SearchesFind
  BY DEF Answered, SortsSort, SearchesFind

-----------------------------------------------------------------------------
(* Cells and rearrangements.                                                 *)

LEMMA Cells ==
  ASSUME TypeOK
  PROVE  /\ count \in Nat
         /\ \A p : p \in Index <=> p \in Int /\ 0 <= p /\ p < count
         /\ \A p \in Index : arr[p] \in Longs /\ arr[p] \in Int
         /\ \A v \in Longs : v \in Int
         /\ key \in Int /\ value \in Int
<1>1. count \in Nat /\ \A v \in Longs : v \in Int
  BY LongsAssumption, CountAssumption DEF TypeOK
<1>2. \A p : p \in Index <=> p \in Int /\ 0 <= p /\ p < count
  BY <1>1 DEF Index
<1>3. \A p \in Index : arr[p] \in Longs /\ arr[p] \in Int
  BY <1>1 DEF TypeOK
<1>4. key \in Int /\ value \in Int
  BY <1>1 DEF TypeOK
<1>5. QED BY <1>1, <1>2, <1>3, <1>4

LEMMA SwapIs ==
  ASSUME NEW a, DOMAIN a = Index, NEW p \in Index, NEW q \in Index
  PROVE  /\ Swap(a, p, q)[p] = a[q] /\ Swap(a, p, q)[q] = a[p]
         /\ \A r \in Index \ {p, q} : Swap(a, p, q)[r] = a[r]
  BY DEF Swap

LEMMA SwapTyped ==
  ASSUME NEW S, NEW a \in [Index -> S], NEW p \in Index, NEW q \in Index
  PROVE  Swap(a, p, q) \in [Index -> S]
  BY DEF Swap

LEMMA KeepsAll ==
  ASSUME NEW a
  PROVE  Permuted(a, a)
<1> DEFINE id == [p \in Index |-> p]
<1>1. id \in Rearrangements
  BY DEF Rearrangements
<1>2. \A p \in Index : a[p] = a[id[p]]
  OBVIOUS
<1>3. QED BY <1>1, <1>2 DEF Permuted

LEMMA SwapKeeps ==
  ASSUME NEW S, NEW a \in [Index -> S], NEW b, Permuted(a, b), NEW p \in Index, NEW q \in Index
  PROVE  Permuted(Swap(a, p, q), b)
<1>1. PICK f \in Rearrangements : \A r \in Index : a[r] = b[f[r]]
  BY DEF Permuted
<1>2. f \in [Index -> Index] /\ \A r, s \in Index : f[r] = f[s] => r = s
  BY <1>1 DEF Rearrangements
<1> DEFINE g == Swap(f, p, q)
<1>3. /\ g \in [Index -> Index] /\ g[p] = f[q] /\ g[q] = f[p]
      /\ \A r \in Index \ {p, q} : g[r] = f[r]
  <2>1. DOMAIN f = Index
    BY <1>2
  <2>2. g \in [Index -> Index]
    BY <1>2, SwapTyped
  <2>3. QED BY <2>1, <2>2, SwapIs
<1>4. \A r, s \in Index : g[r] = g[s] => r = s
  BY <1>2, <1>3
<1>5. g \in Rearrangements
  BY <1>3, <1>4 DEF Rearrangements
<1>6. \A r \in Index : Swap(a, p, q)[r] = b[g[r]]
  <2>1. /\ Swap(a, p, q)[p] = a[q] /\ Swap(a, p, q)[q] = a[p]
        /\ \A r \in Index \ {p, q} : Swap(a, p, q)[r] = a[r]
    <3>1. DOMAIN a = Index
      OBVIOUS
    <3>2. QED BY <3>1, SwapIs
  <2>2. QED BY <1>1, <1>3, <2>1
<1>7. QED BY <1>5, <1>6 DEF Permuted

-----------------------------------------------------------------------------
(* A turn of a loop after which a loop goes on, and a return: what is left   *)
(* to show of them.                                                          *)
LEMMA GoesOn ==
  ASSUME Inv, UNCHANGED <<count, op, given, value, ret>>, pc' \in Labels \ {"idle"},
         arr' \in [Index -> Longs], i' \in 0 .. count, j' \in -1 .. count,
         min_idx' \in 0 .. count, left' \in 0 .. count,
         right' \in (-1 .. count - 1) \cup {0}, key' \in Longs \cup {0},
         Permuted(Filled', given), Loops'
  PROVE  Inv'
<1>1. Index' = Index
  BY DEF Index
<1>2. TypeOK'
  BY <1>1 DEF Inv, TypeOK
<1>3. Kept'
  BY <1>1 DEF Kept, Permuted, Rearrangements
<1>4. QED BY <1>2, <1>3 DEF Inv

LEMMA ReturnKeeps ==
  ASSUME Inv, pc # "insert_while", NEW r \in -1 .. count, Return(r), Answered(r)
  PROVE  Inv'
<1>1. /\ pc' = "idle" /\ ret' = r /\ UNCHANGED <<arr, count, op, given, value>>
      /\ i' = 0 /\ j' = 0 /\ key' = 0 /\ min_idx' = 0 /\ left' = 0 /\ right' = 0
  BY DEF Return, asked
<1>2. Index' = Index
  BY <1>1 DEF Index
<1>3. TypeOK'
  <2>1. count \in Nat
    BY Cells DEF Inv
  <2>2. 0 \in 0 .. count /\ 0 \in -1 .. count
    BY <2>1
  <2>3. QED BY <1>1, <1>2, <2>2 DEF Inv, TypeOK, Labels
<1>4. Kept'
  BY <1>1, <1>2 DEF Inv, Kept, Filled, Permuted, Rearrangements
<1>5. Answered(ret)'
  BY <1>1, <1>2 DEF Answered, Sorted
<1>6. Loops'
  BY <1>1 DEF Loops
<1>7. QED BY <1>3, <1>4, <1>5, <1>6 DEF Inv

-----------------------------------------------------------------------------
(* Bubble sort. *)
LEMMA BubbleKeeps ==
  ASSUME Inv, BubbleStep \/ BubblePass \/ BubbleEnd
  PROVE  Inv'
<1> USE DEF Inv
<1>1. pc = "bubble" /\ Bubbled
  BY DEF BubbleStep, BubblePass, BubbleEnd, Loops
<1>2. /\ count \in Nat /\ i \in Int /\ j \in Int
      /\ \A p : p \in Index <=> p \in Int /\ 0 <= p /\ p < count
      /\ \A p \in Index : arr[p] \in Int
  BY <1>1, Cells DEF Bubbled
<1>3. Permuted(arr, given) /\ arr \in [Index -> Longs]
  BY <1>1 DEF Kept, Filled, TypeOK
<1>4. CASE BubbleStep
  <2>1. /\ i < count - 1 /\ j < count - 1 - i
        /\ arr' = IF arr[j] > arr[j + 1] THEN Swap(arr, j, j + 1) ELSE arr
        /\ j' = j + 1 /\ pc' = "bubble"
        /\ UNCHANGED <<i, key, min_idx, left, right, count, op, given, value, ret>>
    BY <1>4 DEF BubbleStep, Goto, asked
  <2>2. j \in Index /\ j + 1 \in Index
    BY <1>1, <1>2, <2>1 DEF Bubbled
  <2>3. arr' \in [Index -> Longs] /\ Permuted(arr', given)
    BY <1>3, <2>1, <2>2, SwapTyped, SwapKeeps
  <2>4. /\ arr'[j + 1] = IF arr[j] > arr[j + 1] THEN arr[j] ELSE arr[j + 1]
        /\ arr'[j] = IF arr[j] > arr[j + 1] THEN arr[j + 1] ELSE arr[j]
        /\ \A r \in Index \ {j, j + 1} : arr'[r] = arr[r]
    <3>1. /\ Swap(arr, j, j + 1)[j] = arr[j + 1] /\ Swap(arr, j, j + 1)[j + 1] = arr[j]
          /\ \A r \in Index \ {j, j + 1} : Swap(arr, j, j + 1)[r] = arr[r]
      <4>1. DOMAIN arr = Index
        BY <1>3
      <4>2. QED BY <2>2, <4>1, SwapIs
    <3>2. QED BY <2>1, <3>1
  <2>5. \A p \in 0 .. j' : arr'[p] <= arr'[j']
    <3>1. ASSUME NEW p \in 0 .. j + 1
          PROVE  arr'[p] <= arr'[j + 1]
      <4>1. p \in Index /\ (p <= j => arr[p] <= arr[j])
        BY <1>1, <1>2, <2>2, <3>1 DEF Bubbled
      <4>2. CASE p \in {j, j + 1}
        BY <1>2, <2>2, <2>4, <4>2
      <4>3. CASE p \notin {j, j + 1}
        <5>1. p <= j /\ arr'[p] = arr[p]
          BY <1>2, <2>4, <4>1, <4>3
        <5>2. QED BY <1>2, <2>2, <2>4, <4>1, <5>1
      <4>4. QED BY <4>2, <4>3
    <3>2. QED BY <2>1, <3>1
  <2>6. \A p, q \in Index : p <= q /\ q >= count - i => arr'[p] <= arr'[q]
    <3>1. ASSUME NEW p \in Index, NEW q \in Index, p <= q, q >= count - i
          PROVE  arr'[p] <= arr'[q]
      <4>1. q # j /\ q # j + 1 /\ arr'[q] = arr[q]
        BY <1>2, <2>1, <2>4, <3>1
      <4>2. j <= q /\ j + 1 <= q
        BY <1>2, <2>1, <3>1
      <4>3. arr[p] <= arr[q] /\ arr[j] <= arr[q] /\ arr[j + 1] <= arr[q]
        BY <1>1, <2>2, <3>1, <4>2 DEF Bubbled
      <4>4. arr'[p] \in {arr[p], arr[j], arr[j + 1]}
        BY <2>4
      <4>5. QED BY <4>1, <4>3, <4>4
    <3>2. QED BY <3>1
  <2>7. Bubbled'
    <3>1. Index' = Index
      BY <2>1 DEF Index
    <3>2. i' \in 0 .. count' - 1 /\ j' \in 0 .. count' - 1 - i'
      BY <1>1, <1>2, <2>1 DEF Bubbled
    <3>3. count' >= 2 /\ op' = "sort"
      BY <1>1, <2>1 DEF Bubbled
    <3>4. QED BY <2>1, <2>5, <2>6, <3>1, <3>2, <3>3 DEF Bubbled
  <2>8. Filled' = arr' /\ Loops'
    BY <2>1, <2>7 DEF Filled, Loops
  <2>9. j' \in -1 .. count /\ pc' \in Labels \ {"idle"}
    BY <1>2, <2>1, <2>2 DEF Labels
  <2>10. QED BY <2>1, <2>3, <2>8, <2>9, GoesOn DEF TypeOK
<1>5. CASE BubblePass
  <2>1. /\ i < count - 1 /\ j >= count - 1 - i /\ i' = i + 1 /\ j' = 0 /\ pc' = "bubble"
        /\ UNCHANGED <<arr, key, min_idx, left, right, count, op, given, value, ret>>
    BY <1>5 DEF BubblePass, Goto, asked
  <2>2. j = count - 1 - i /\ j \in Index /\ i \in 0 .. count - 1
    BY <1>1, <1>2, <2>1 DEF Bubbled
  <2>3. \A p, q \in Index : p <= q /\ q >= count - (i + 1) => arr[p] <= arr[q]
    <3>1. ASSUME NEW p \in Index, NEW q \in Index, p <= q, q >= count - (i + 1)
          PROVE  arr[p] <= arr[q]
      <4>1. CASE q >= count - i
        BY <1>1, <3>1, <4>1 DEF Bubbled
      <4>2. CASE q < count - i
        <5>1. q = j /\ p \in 0 .. j
          BY <1>2, <2>2, <3>1, <4>2
        <5>2. QED BY <1>1, <5>1 DEF Bubbled
      <4>3. QED BY <1>2, <4>1, <4>2
    <3>2. QED BY <3>1
  <2>4. Bubbled'
    <3>1. Index' = Index
      BY <2>1 DEF Index
    <3>2. i' \in 0 .. count' - 1 /\ j' \in 0 .. count' - 1 - i'
      BY <1>2, <2>1, <2>2
    <3>3. \A p \in 0 .. j' : arr'[p] <= arr'[j']
      <4>1. 0 \in Index /\ arr[0] <= arr[0]
        BY <1>2, <2>2
      <4>2. QED BY <2>1, <4>1
    <3>4. count' >= 2 /\ op' = "sort"
      BY <1>1, <2>1 DEF Bubbled
    <3>5. QED BY <2>1, <2>3, <3>1, <3>2, <3>3, <3>4 DEF Bubbled
  <2>5. Filled' = arr /\ Loops'
    BY <2>1, <2>4 DEF Filled, Loops
  <2>6. i' \in 0 .. count /\ j' \in -1 .. count /\ pc' \in Labels \ {"idle"}
    BY <1>2, <2>1, <2>2 DEF Labels
  <2>7. QED BY <1>3, <2>1, <2>5, <2>6, GoesOn DEF TypeOK
<1>6. CASE BubbleEnd
  <2>1. i >= count - 1 /\ Return(0)
    BY <1>6 DEF BubbleEnd
  <2>2. i = count - 1
    BY <1>1, <1>2, <2>1 DEF Bubbled
  <2>3. ASSUME NEW p \in Index, NEW q \in Index, p <= q
        PROVE  arr[p] <= arr[q]
    <3>1. CASE q >= 1
      BY <1>1, <1>2, <2>2, <2>3, <3>1 DEF Bubbled
    <3>2. CASE q < 1
      <4>1. p = q
        BY <1>2, <2>3, <3>2
      <4>2. QED BY <1>2, <4>1
    <3>3. QED BY <1>2, <3>1, <3>2
  <2>4. Answered(0)
    BY <1>1, <2>3 DEF Answered, Sorted, Bubbled
  <2>5. 0 \in -1 .. count
    BY <1>2
  <2>6. QED BY <1>1, <2>1, <2>4, <2>5, ReturnKeeps
<1>7. QED BY <1>4, <1>5, <1>6

(* Selection sort. *)
LEMMA SelectKeeps ==
  ASSUME Inv, SelectFor \/ SelectScan \/ SelectSwap \/ SelectEnd
  PROVE  Inv'
<1> USE DEF Inv
<1>1. pc \in {"select_for", "select_scan"} /\ Selected /\ (pc = "select_scan" => Scanned)
  BY DEF SelectFor, SelectScan, SelectSwap, SelectEnd, Loops
<1>2. /\ count \in Nat /\ i \in Int /\ i \in Index /\ count >= 2 /\ op = "sort"
      /\ \A p : p \in Index <=> p \in Int /\ 0 <= p /\ p < count
      /\ \A p \in Index : arr[p] \in Int
  <2>1. /\ count \in Nat /\ \A p : p \in Index <=> p \in Int /\ 0 <= p /\ p < count
        /\ \A p \in Index : arr[p] \in Int
    BY Cells
  <2>2. QED BY <1>1, <2>1 DEF Selected
<1>3. Permuted(arr, given) /\ arr \in [Index -> Longs]
  BY <1>1 DEF Kept, Filled, TypeOK
<1>4. CASE SelectFor
  <2>1. /\ i < count - 1 /\ min_idx' = i /\ j' = i + 1 /\ pc' = "select_scan"
        /\ UNCHANGED <<arr, i, key, left, right, count, op, given, value, ret>>
    BY <1>4 DEF SelectFor, Goto, asked
  <2>2. Selected'
    BY <1>1, <2>1 DEF Selected, Index
  <2>3. j' \in i' + 1 .. count' /\ min_idx' \in i' .. j' - 1
    BY <1>2, <2>1
  <2>4. \A p \in i' .. j' - 1 : arr'[min_idx'] <= arr'[p]
    <3>1. ASSUME NEW p \in i .. i + 1 - 1 PROVE arr[i] <= arr[p]
      <4>1. p = i
        BY <1>2
      <4>2. QED BY <1>2, <4>1
    <3>2. i' .. j' - 1 = i .. i + 1 - 1
      BY <1>2, <2>1
    <3>3. QED BY <2>1, <3>1, <3>2
  <2>5. Scanned'
    BY <2>1, <2>3, <2>4 DEF Scanned
  <2>6. Filled' = arr /\ Loops'
    BY <2>1, <2>2, <2>5 DEF Filled, Loops
  <2>7. j' \in -1 .. count /\ min_idx' \in 0 .. count /\ pc' \in Labels \ {"idle"}
    BY <1>2, <2>1 DEF Labels
  <2>8. QED BY <1>3, <2>1, <2>6, <2>7, GoesOn DEF TypeOK
<1>5. CASE SelectScan
  <2>1. /\ j < count /\ min_idx' = IF arr[j] < arr[min_idx] THEN j ELSE min_idx
        /\ j' = j + 1 /\ pc = "select_scan" /\ pc' = "select_scan"
        /\ UNCHANGED <<arr, i, key, left, right, count, op, given, value, ret>>
    BY <1>5 DEF SelectScan, Goto, asked
  <2>2. /\ i < count - 1 /\ j \in i + 1 .. count /\ min_idx \in i .. j - 1
        /\ \A p \in i .. j - 1 : arr[min_idx] <= arr[p]
    BY <1>1, <2>1 DEF Scanned
  <2>3. j \in Index /\ min_idx \in Index
    BY <1>2, <2>1, <2>2
  <2>4. Selected'
    BY <1>1, <2>1 DEF Selected, Index
  <2>5. j' \in i' + 1 .. count' /\ min_idx' \in i' .. j' - 1
    BY <1>2, <2>1, <2>2
  <2>6. ASSUME NEW p \in i .. j PROVE arr[min_idx'] <= arr[p]
    <3>1. p \in Index /\ (p # j => p \in i .. j - 1)
      BY <1>2, <2>2, <2>3
    <3>2. arr[min_idx'] <= arr[min_idx] /\ arr[min_idx'] <= arr[j] /\ min_idx' \in Index
      BY <1>2, <2>1, <2>3
    <3>3. CASE p = j
      BY <3>2, <3>3
    <3>4. CASE p # j
      BY <1>2, <2>2, <2>3, <3>1, <3>2, <3>4
    <3>5. QED BY <3>3, <3>4
  <2>7. Scanned'
    <3>1. i' .. j' - 1 = i .. j
      BY <1>2, <2>1, <2>2
    <3>2. QED BY <2>1, <2>2, <2>5, <2>6, <3>1 DEF Scanned
  <2>8. Filled' = arr /\ Loops'
    BY <2>1, <2>4, <2>7 DEF Filled, Loops
  <2>9. j' \in -1 .. count /\ min_idx' \in 0 .. count /\ pc' \in Labels \ {"idle"}
    BY <1>2, <2>1, <2>2, <2>3 DEF Labels
  <2>10. QED BY <1>3, <2>1, <2>8, <2>9, GoesOn DEF TypeOK
<1>6. CASE SelectSwap
  <2>1. /\ j >= count /\ arr' = Swap(arr, i, min_idx) /\ i' = i + 1
        /\ pc = "select_scan" /\ pc' = "select_for"
        /\ UNCHANGED <<j, key, min_idx, left, right, count, op, given, value, ret>>
    BY <1>6 DEF SelectSwap, Goto, asked
  <2>2. i < count - 1 /\ j = count /\ min_idx \in Index /\ min_idx >= i
    BY <1>1, <1>2, <2>1 DEF Scanned
  <2>3. \A p \in Index : p >= i => arr[min_idx] <= arr[p]
    BY <1>1, <1>2, <2>1, <2>2 DEF Scanned
  <2>4. arr' \in [Index -> Longs] /\ Permuted(arr', given)
    BY <1>2, <1>3, <2>1, <2>2, SwapTyped, SwapKeeps
  <2>5. /\ arr'[i] = arr[min_idx] /\ arr'[min_idx] = arr[i]
        /\ \A r \in Index \ {i, min_idx} : arr'[r] = arr[r]
    <3>1. DOMAIN arr = Index
      BY <1>3
    <3>2. QED BY <1>2, <2>1, <2>2, <3>1, SwapIs
  <2>6. ASSUME NEW p \in Index, NEW q \in Index, p <= q, p < i + 1
        PROVE  arr'[p] <= arr'[q]
    <3>1. CASE p < i
      <4>1. arr'[p] = arr[p]
        BY <1>2, <2>2, <2>5, <3>1
      <4>2. PICK r \in Index : p <= r /\ arr'[q] = arr[r]
        BY <1>2, <2>2, <2>5, <2>6, <3>1
      <4>3. arr[p] <= arr[r]
        BY <1>1, <3>1, <4>2 DEF Selected
      <4>4. QED BY <4>1, <4>2, <4>3
    <3>2. CASE p = i
      <4>1. PICK r \in Index : r >= i /\ arr'[q] = arr[r]
        BY <1>2, <2>2, <2>5, <2>6, <3>2
      <4>2. QED BY <2>3, <2>5, <3>2, <4>1
    <3>3. QED BY <1>2, <2>6, <3>1, <3>2
  <2>7. Selected'
    <3>1. Index' = Index
      BY <2>1 DEF Index
    <3>2. i' \in 0 .. count' - 1
      BY <1>2, <2>1, <2>2
    <3>3. QED BY <1>2, <2>1, <2>6, <3>1, <3>2 DEF Selected
  <2>8. Filled' = arr' /\ Loops'
    BY <2>1, <2>7 DEF Filled, Loops
  <2>9. i' \in 0 .. count /\ pc' \in Labels \ {"idle"}
    BY <1>2, <2>1, <2>2 DEF Labels
  <2>10. QED BY <2>1, <2>4, <2>8, <2>9, GoesOn DEF TypeOK
<1>7. CASE SelectEnd
  <2>1. i >= count - 1 /\ Return(0)
    BY <1>7 DEF SelectEnd
  <2>2. ASSUME NEW p \in Index, NEW q \in Index, p <= q
        PROVE  arr[p] <= arr[q]
    <3>1. CASE p < i
      BY <1>1, <2>2, <3>1 DEF Selected
    <3>2. CASE p >= i
      <4>1. p = q
        BY <1>2, <2>1, <2>2, <3>2
      <4>2. QED BY <1>2, <4>1
    <3>3. QED BY <1>2, <3>1, <3>2
  <2>3. Answered(0)
    BY <1>2, <2>2 DEF Answered, Sorted
  <2>4. 0 \in -1 .. count /\ pc # "insert_while"
    BY <1>1, <1>2
  <2>5. QED BY <2>1, <2>3, <2>4, ReturnKeeps
<1>8. QED BY <1>4, <1>5, <1>6, <1>7

(* Insertion sort. *)
LEMMA InsertKeeps ==
  ASSUME Inv, InsertFor \/ InsertEnd
  PROVE  Inv'
<1> USE DEF Inv
<1>1. pc = "insert_for" /\ Inserted
  BY DEF InsertFor, InsertEnd, Loops
<1>2. /\ count \in Nat /\ i \in Int /\ i \in 1 .. count /\ count >= 2 /\ op = "sort"
      /\ \A p : p \in Index <=> p \in Int /\ 0 <= p /\ p < count
      /\ \A p \in Index : arr[p] \in Int /\ arr[p] \in Longs
  <2>1. /\ count \in Nat /\ \A p : p \in Index <=> p \in Int /\ 0 <= p /\ p < count
        /\ \A p \in Index : arr[p] \in Int /\ arr[p] \in Longs
    BY Cells
  <2>2. QED BY <1>1, <2>1 DEF Inserted
<1>3. Permuted(arr, given) /\ arr \in [Index -> Longs]
  BY <1>1 DEF Kept, Filled, TypeOK
<1>4. CASE InsertFor
  <2>1. /\ i < count /\ key' = arr[i] /\ j' = i - 1 /\ pc' = "insert_while"
        /\ UNCHANGED <<arr, i, min_idx, left, right, count, op, given, value, ret>>
    BY <1>4 DEF InsertFor, Goto, asked
  <2>2. i \in Index
    BY <1>2, <2>1
  <2>3. Shifted'
    <3>1. i' \in 1 .. count' - 1 /\ j' \in -1 .. i' - 1 /\ key' \in Longs
      BY <1>2, <2>1, <2>2
    <3>2. \A p, q \in (0 .. i') \ {j' + 1} : p <= q => arr'[p] <= arr'[q]
      <4>1. (0 .. i') \ {j' + 1} = 0 .. i - 1
        BY <1>2, <2>1
      <4>2. QED BY <1>1, <2>1, <4>1 DEF Inserted
    <3>3. \A p \in j' + 2 .. i' : key' < arr'[p]
      BY <1>2, <2>1
    <3>4. QED BY <1>2, <2>1, <3>1, <3>2, <3>3 DEF Shifted
  <2>4. Filled' = arr
    <3>1. Filled' = [arr EXCEPT ![i - 1 + 1] = arr[i]]
      BY <2>1 DEF Filled
    <3>2. i - 1 + 1 = i
      BY <1>2
    <3>3. QED BY <1>3, <3>1, <3>2
  <2>5. Loops'
    BY <2>1, <2>3 DEF Loops
  <2>6. j' \in -1 .. count /\ key' \in Longs \cup {0} /\ pc' \in Labels \ {"idle"}
    BY <1>2, <2>1, <2>2 DEF Labels
  <2>7. QED BY <1>3, <2>1, <2>4, <2>5, <2>6, GoesOn DEF TypeOK
<1>5. CASE InsertEnd
  <2>1. i >= count /\ Return(0)
    BY <1>5 DEF InsertEnd
  <2>2. \A p, q \in Index : p <= q => arr[p] <= arr[q]
    BY <1>1, <1>2, <2>1 DEF Inserted
  <2>3. Answered(0)
    BY <1>2, <2>2 DEF Answered, Sorted
  <2>4. 0 \in -1 .. count
    BY <1>2
  <2>5. QED BY <1>1, <2>1, <2>3, <2>4, ReturnKeeps
<1>6. QED BY <1>4, <1>5

LEMMA ShiftKeeps ==
  ASSUME Inv, InsertShift \/ InsertPlace
  PROVE  Inv'
<1> USE DEF Inv
<1>1. pc = "insert_while" /\ Shifted
  BY DEF InsertShift, InsertPlace, Loops
<1>2. /\ count \in Nat /\ i \in Int /\ i \in 1 .. count - 1 /\ j \in -1 .. i - 1
      /\ count >= 2 /\ op = "sort" /\ key \in Longs /\ key \in Int
      /\ \A p : p \in Index <=> p \in Int /\ 0 <= p /\ p < count
      /\ \A p \in Index : arr[p] \in Int /\ arr[p] \in Longs
  <2>1. /\ count \in Nat /\ \A p : p \in Index <=> p \in Int /\ 0 <= p /\ p < count
        /\ \A p \in Index : arr[p] \in Int /\ arr[p] \in Longs
        /\ key \in Int
    BY Cells
  <2>2. QED BY <1>1, <2>1 DEF Shifted
<1>3. /\ Permuted(Filled, given) /\ Filled = [arr EXCEPT ![j + 1] = key]
      /\ arr \in [Index -> Longs] /\ Filled \in [Index -> Longs]
  BY <1>1, <1>2 DEF Kept, Filled, TypeOK
<1>4. i \in Index /\ j + 1 \in Index /\ \A p \in 0 .. i : p \in Index
  BY <1>2
<1>5. CASE InsertShift
  <2>1. /\ j >= 0 /\ arr[j] > key /\ arr' = [arr EXCEPT ![j + 1] = arr[j]] /\ j' = j - 1
        /\ pc' = "insert_while"
        /\ UNCHANGED <<i, key, min_idx, left, right, count, op, given, value, ret>>
    BY <1>5 DEF InsertShift, Shifting, Goto, asked
  <2>2. j \in Index
    BY <1>2, <2>1
  <2>3. /\ arr' \in [Index -> Longs] /\ arr'[j + 1] = arr[j]
        /\ \A r \in Index \ {j + 1} : arr'[r] = arr[r]
    BY <1>2, <1>3, <1>4, <2>1, <2>2
  <2>4. ASSUME NEW p \in (0 .. i) \ {j}, NEW q \in (0 .. i) \ {j}, p <= q
        PROVE  arr'[p] <= arr'[q]
    <3> DEFINE was(r) == IF r = j + 1 THEN j ELSE r
    <3>1. \A r \in (0 .. i) \ {j} : was(r) \in (0 .. i) \ {j + 1} /\ arr'[r] = arr[was(r)]
      <4>1. ASSUME NEW r \in (0 .. i) \ {j}, r = j + 1
            PROVE  was(r) \in (0 .. i) \ {j + 1} /\ arr'[r] = arr[was(r)]
        <5>1. j \in (0 .. i) \ {j + 1}
          BY <1>2, <2>1
        <5>2. QED BY <2>3, <4>1, <5>1
      <4>2. ASSUME NEW r \in (0 .. i) \ {j}, r # j + 1
            PROVE  was(r) \in (0 .. i) \ {j + 1} /\ arr'[r] = arr[was(r)]
        <5>1. r \in Index
          BY <1>4
        <5>2. QED BY <2>3, <4>2, <5>1
      <4>3. QED BY <4>1, <4>2
    <3>2. was(p) <= was(q)
      BY <1>2, <2>4
    <3>3. arr[was(p)] <= arr[was(q)]
      <4>1. was(p) \in (0 .. i) \ {j + 1} /\ was(q) \in (0 .. i) \ {j + 1}
        BY <2>4, <3>1
      <4> HIDE DEF was
      <4>2. QED BY <1>1, <3>2, <4>1 DEF Shifted
    <3>4. QED BY <2>4, <3>1, <3>3
  <2>5. ASSUME NEW p \in j + 1 .. i PROVE key < arr'[p]
    <3>1. CASE p = j + 1
      BY <2>1, <2>3, <3>1
    <3>2. CASE p # j + 1
      <4>1. p \in j + 2 .. i /\ p \in Index
        BY <1>2, <1>4, <2>1, <3>2
      <4>2. QED BY <1>1, <2>3, <3>2, <4>1 DEF Shifted
    <3>3. QED BY <3>1, <3>2
  <2>6. Shifted'
    <3>1. j' + 1 = j /\ j' + 2 = j + 1 /\ j' \in -1 .. i - 1
      BY <1>2, <2>1
    <3>2. QED BY <1>2, <2>1, <2>4, <2>5, <3>1 DEF Shifted
  <2>7. Filled' = Swap(Filled, j, j + 1)
    <3>1. Filled' = [arr' EXCEPT ![j] = key]
      <4>1. j - 1 + 1 = j
        BY <1>2
      <4>2. Filled' = [arr' EXCEPT ![j - 1 + 1] = key]
        BY <2>1 DEF Filled
      <4>3. QED BY <4>1, <4>2
    <3>2. /\ Swap(Filled, j, j + 1)[j] = key /\ Swap(Filled, j, j + 1)[j + 1] = arr[j]
          /\ \A r \in Index \ {j, j + 1} : Swap(Filled, j, j + 1)[r] = arr[r]
      <4>1. DOMAIN Filled = Index
        BY <1>3
      <4>2. /\ Filled[j + 1] = key /\ Filled[j] = arr[j]
            /\ \A r \in Index \ {j, j + 1} : Filled[r] = arr[r]
        BY <1>2, <1>3, <1>4, <2>2
      <4>3. QED BY <1>4, <2>2, <4>1, <4>2, SwapIs
    <3>3. \A r \in Index : [arr' EXCEPT ![j] = key][r] = Swap(Filled, j, j + 1)[r]
      BY <1>2, <2>2, <2>3, <3>2
    <3>4. /\ Swap(Filled, j, j + 1) \in [Index -> Longs]
          /\ [arr' EXCEPT ![j] = key] \in [Index -> Longs]
      BY <1>2, <1>3, <1>4, <2>2, <2>3, SwapTyped
    <3>5. QED BY <3>1, <3>3, <3>4
  <2>8. Permuted(Filled', given)
    BY <1>3, <1>4, <2>2, <2>7, SwapKeeps
  <2>9. Loops'
    BY <2>1, <2>6 DEF Loops
  <2>10. j' \in -1 .. count /\ pc' \in Labels \ {"idle"}
    BY <1>2, <2>1, <2>2 DEF Labels
  <2>11. QED BY <2>1, <2>3, <2>8, <2>9, <2>10, GoesOn DEF TypeOK
<1>6. CASE InsertPlace
  <2>1. /\ ~(j >= 0 /\ arr[j] > key) /\ arr' = [arr EXCEPT ![j + 1] = key] /\ i' = i + 1
        /\ pc' = "insert_for"
        /\ UNCHANGED <<j, key, min_idx, left, right, count, op, given, value, ret>>
    BY <1>6 DEF InsertPlace, Shifting, Goto, asked
  <2>2. /\ arr' \in [Index -> Longs] /\ arr'[j + 1] = key
        /\ \A r \in Index \ {j + 1} : arr'[r] = arr[r]
    BY <1>2, <1>3, <1>4, <2>1
  <2>3. \A p \in (0 .. i) \ {j + 1} : IF p <= j THEN arr[p] <= key ELSE key < arr[p]
    <3>1. ASSUME NEW p \in (0 .. i) \ {j + 1}, p <= j PROVE arr[p] <= key
      <4>1. j \in (0 .. i) \ {j + 1} /\ j \in Index /\ p \in Index
        BY <1>2, <3>1
      <4>2. arr[p] <= arr[j]
        BY <1>1, <3>1, <4>1 DEF Shifted
      <4>3. arr[j] <= key
        BY <1>2, <2>1, <4>1
      <4>4. QED BY <1>2, <4>1, <4>2, <4>3
    <3>2. ASSUME NEW p \in (0 .. i) \ {j + 1}, ~(p <= j) PROVE key < arr[p]
      <4>1. p \in j + 2 .. i
        BY <1>2, <3>2
      <4>2. QED BY <1>1, <4>1 DEF Shifted
    <3>3. QED BY <3>1, <3>2
  <2>4. ASSUME NEW p \in 0 .. i, NEW q \in 0 .. i, p <= q
        PROVE  arr'[p] <= arr'[q]
    <3>1. p \in Index /\ q \in Index
      BY <1>4
    <3>2. CASE p # j + 1 /\ q # j + 1
      BY <1>1, <2>2, <2>4, <3>1, <3>2 DEF Shifted
    <3>3. CASE p = j + 1 /\ q # j + 1
      BY <1>2, <2>2, <2>3, <2>4, <3>1, <3>3
    <3>4. CASE p # j + 1 /\ q = j + 1
      BY <1>2, <2>2, <2>3, <2>4, <3>1, <3>4
    <3>5. CASE p = j + 1 /\ q = j + 1
      BY <1>2, <2>2, <3>5
    <3>6. QED BY <3>2, <3>3, <3>4, <3>5
  <2>5. Inserted'
    <3>1. 0 .. i' - 1 = 0 .. i /\ i' \in 1 .. count
      BY <1>2, <2>1
    <3>2. QED BY <1>2, <2>1, <2>4, <3>1 DEF Inserted
  <2>6. Filled' = Filled /\ Loops'
    BY <1>1, <2>1, <2>5 DEF Filled, Loops
  <2>7. i' \in 0 .. count /\ pc' \in Labels \ {"idle"}
    BY <1>2, <2>1 DEF Labels
  <2>8. QED BY <1>3, <2>1, <2>2, <2>6, <2>7, GoesOn DEF TypeOK
<1>7. QED BY <1>5, <1>6

(* The shuffle. *)
LEMMA ShuffleKeeps ==
  ASSUME Inv, ShuffleStep \/ ShuffleEnd
  PROVE  Inv'
<1> USE DEF Inv
<1>1. pc = "shuffle" /\ op = "shuffle" /\ i \in 0 .. count - 1
  BY DEF ShuffleStep, ShuffleEnd, Loops, Shuffled
<1>2. /\ count \in Nat /\ \A p : p \in Index <=> p \in Int /\ 0 <= p /\ p < count
  BY Cells
<1>3. Permuted(arr, given) /\ arr \in [Index -> Longs]
  BY <1>1 DEF Kept, Filled, TypeOK
<1>4. CASE ShuffleStep
  <2>1. PICK r \in 0 .. i : arr' = Swap(arr, i, r)
    BY <1>4 DEF ShuffleStep
  <2>2. /\ i > 0 /\ i' = i - 1 /\ pc' = "shuffle"
        /\ UNCHANGED <<j, key, min_idx, left, right, count, op, given, value, ret>>
    BY <1>4 DEF ShuffleStep, Goto, asked
  <2>3. i \in Index /\ r \in Index
    BY <1>1, <1>2
  <2>4. arr' \in [Index -> Longs] /\ Permuted(arr', given)
    BY <1>3, <2>1, <2>3, SwapTyped, SwapKeeps
  <2>5. i' \in 0 .. count - 1 /\ i' \in 0 .. count /\ pc' \in Labels \ {"idle"}
    BY <1>1, <1>2, <2>2 DEF Labels
  <2>6. Filled' = arr' /\ Loops'
    BY <1>1, <2>2, <2>5 DEF Filled, Loops, Shuffled
  <2>7. QED BY <2>2, <2>4, <2>5, <2>6, GoesOn DEF TypeOK
<1>5. CASE ShuffleEnd
  <2>1. Return(0) /\ 0 \in -1 .. count /\ Answered(0)
    BY <1>1, <1>2, <1>5 DEF ShuffleEnd, Answered
  <2>2. QED BY <1>1, <2>1, ReturnKeeps
<1>6. QED BY <1>4, <1>5

-----------------------------------------------------------------------------
(* The searches. *)
LEMMA BSearchKeeps ==
  ASSUME Inv, BSearchStep \/ BSearchEnd
  PROVE  Inv'
<1> USE DEF Inv
<1>1. pc = "bsearch" /\ Halved
  BY DEF BSearchStep, BSearchEnd, Loops
<1>2. /\ count \in Nat /\ left \in 0 .. count /\ left \in Int
      /\ right \in -1 .. count - 1 /\ right \in Int /\ value \in Int
      /\ \A p : p \in Index <=> p \in Int /\ 0 <= p /\ p < count
      /\ \A p \in Index : arr[p] \in Int
  <2>1. /\ count \in Nat /\ value \in Int
        /\ \A p : p \in Index <=> p \in Int /\ 0 <= p /\ p < count
        /\ \A p \in Index : arr[p] \in Int
    BY Cells
  <2>2. left \in 0 .. count /\ right \in -1 .. count - 1
    BY <1>1 DEF Halved, TypeOK
  <2>3. QED BY <2>1, <2>2
<1>3. Permuted(arr, given) /\ arr \in [Index -> Longs]
  BY <1>1 DEF Kept, Filled, TypeOK
<1>4. CASE BSearchStep
  <2>1. left <= right
    BY <1>4 DEF BSearchStep
  <2>2. mid \in Int /\ left <= mid /\ mid <= right /\ mid \in Index
    BY <1>2, <2>1 DEF mid
  <2>3. CASE arr[mid] = value /\ Return(mid)
    <3>1. Answered(mid)
      BY <1>1, <1>2, <2>2, <2>3 DEF Answered, Halved
    <3>2. mid \in -1 .. count
      BY <1>2, <2>2
    <3>3. QED BY <1>1, <2>3, <3>1, <3>2, ReturnKeeps
  <2>4. CASE /\ arr[mid] < value /\ left' = mid + 1
             /\ UNCHANGED <<arr, i, j, key, min_idx, right>> /\ Goto("bsearch")
    <3>1. /\ pc' = "bsearch" /\ left' = mid + 1 /\ arr[mid] < value
          /\ UNCHANGED <<arr, i, j, key, min_idx, right, count, op, given, value, ret>>
      BY <2>4 DEF Goto, asked
    <3>2. ASSUME Sorted(arr), NEW p \in Index, arr[p] = value
          PROVE  mid + 1 <= p /\ p <= right
      <4>1. p <= right
        BY <1>1, <3>2 DEF Halved
      <4>2. ~(p <= mid)
        <5>1. p <= mid => arr[p] <= arr[mid]
          BY <2>2, <3>2 DEF Sorted
        <5>2. QED BY <1>2, <2>2, <3>1, <3>2, <5>1
      <4>3. QED BY <1>2, <2>2, <4>1, <4>2
    <3>3. Halved'
      <4>1. Index' = Index /\ (Sorted(arr)' <=> Sorted(arr))
        BY <3>1 DEF Index, Sorted
      <4>2. left' <= right' + 1
        BY <1>2, <2>2, <3>1
      <4>3. QED BY <1>1, <1>2, <3>1, <3>2, <4>1, <4>2 DEF Halved
    <3>4. Filled' = arr /\ Loops'
      BY <3>1, <3>3 DEF Filled, Loops
    <3>5. left' \in 0 .. count /\ pc' \in Labels \ {"idle"}
      BY <1>2, <2>2, <3>1 DEF Labels
    <3>6. QED BY <1>3, <3>1, <3>4, <3>5, GoesOn DEF TypeOK
  <2>5. CASE /\ arr[mid] > value /\ right' = mid - 1
             /\ UNCHANGED <<arr, i, j, key, min_idx, left>> /\ Goto("bsearch")
    <3>1. /\ pc' = "bsearch" /\ right' = mid - 1 /\ arr[mid] > value
          /\ UNCHANGED <<arr, i, j, key, min_idx, left, count, op, given, value, ret>>
      BY <2>5 DEF Goto, asked
    <3>2. ASSUME Sorted(arr), NEW p \in Index, arr[p] = value
          PROVE  left <= p /\ p <= mid - 1
      <4>1. left <= p
        BY <1>1, <3>2 DEF Halved
      <4>2. ~(mid <= p)
        <5>1. mid <= p => arr[mid] <= arr[p]
          BY <2>2, <3>2 DEF Sorted
        <5>2. QED BY <1>2, <2>2, <3>1, <3>2, <5>1
      <4>3. QED BY <1>2, <2>2, <4>1, <4>2
    <3>3. Halved'
      <4>1. Index' = Index /\ (Sorted(arr)' <=> Sorted(arr))
        BY <3>1 DEF Index, Sorted
      <4>2. left' <= right' + 1 /\ right' \in -1 .. count' - 1
        BY <1>2, <2>2, <3>1
      <4>3. QED BY <1>1, <3>1, <3>2, <4>1, <4>2 DEF Halved
    <3>4. Filled' = arr /\ Loops'
      BY <3>1, <3>3 DEF Filled, Loops
    <3>5. right' \in (-1 .. count - 1) \cup {0} /\ pc' \in Labels \ {"idle"}
      BY <1>2, <2>2, <3>1 DEF Labels
    <3>6. QED BY <1>3, <3>1, <3>4, <3>5, GoesOn DEF TypeOK
  <2>6. QED BY <1>4, <2>3, <2>4, <2>5 DEF BSearchStep
<1>5. CASE BSearchEnd
  <2>1. left > right /\ Return(-1)
    BY <1>5 DEF BSearchEnd
  <2>2. Sorted(arr) => \A p \in Index : arr[p] # value
    BY <1>1, <1>2, <2>1 DEF Halved
  <2>3. Answered(-1)
    BY <1>1, <2>2 DEF Answered, Halved
  <2>4. -1 \in -1 .. count
    BY <1>2
  <2>5. QED BY <1>1, <2>1, <2>3, <2>4, ReturnKeeps
<1>6. QED BY <1>4, <1>5

LEMMA SearchKeeps ==
  ASSUME Inv, SearchStep \/ SearchEnd
  PROVE  Inv'
<1> USE DEF Inv
<1>1. pc = "search" /\ Searched
  BY DEF SearchStep, SearchEnd, Loops
<1>2. /\ count \in Nat /\ i \in 0 .. count /\ i \in Int
      /\ \A p : p \in Index <=> p \in Int /\ 0 <= p /\ p < count
  <2>1. /\ count \in Nat /\ \A p : p \in Index <=> p \in Int /\ 0 <= p /\ p < count
    BY Cells
  <2>2. QED BY <2>1 DEF TypeOK
<1>3. Permuted(arr, given) /\ arr \in [Index -> Longs]
  BY <1>1 DEF Kept, Filled, TypeOK
<1>4. CASE SearchStep
  <2>1. i < count /\ i \in Index
    BY <1>2, <1>4 DEF SearchStep
  <2>2. CASE arr[i] = value /\ Return(i)
    <3>1. Answered(i)
      BY <1>1, <1>2, <2>1, <2>2 DEF Answered, Searched
    <3>2. i \in -1 .. count
      BY <1>2
    <3>3. QED BY <1>1, <2>2, <3>1, <3>2, ReturnKeeps
  <2>3. CASE /\ arr[i] # value /\ i' = i + 1
             /\ UNCHANGED <<arr, j, key, min_idx, left, right>> /\ Goto("search")
    <3>1. /\ pc' = "search" /\ i' = i + 1 /\ arr[i] # value
          /\ UNCHANGED <<arr, j, key, min_idx, left, right, count, op, given, value, ret>>
      BY <2>3 DEF Goto, asked
    <3>2. ASSUME NEW p \in 0 .. i PROVE arr[p] # value
      <4>1. p = i \/ p \in 0 .. i - 1
        BY <1>2
      <4>2. QED BY <1>1, <3>1, <4>1 DEF Searched
    <3>3. Searched'
      <4>1. 0 .. i' - 1 = 0 .. i
        BY <1>2, <3>1
      <4>2. QED BY <1>1, <3>1, <3>2, <4>1 DEF Searched
    <3>4. Filled' = arr /\ Loops'
      BY <3>1, <3>3 DEF Filled, Loops
    <3>5. i' \in 0 .. count /\ pc' \in Labels \ {"idle"}
      BY <1>2, <2>1, <3>1 DEF Labels
    <3>6. QED BY <1>3, <3>1, <3>4, <3>5, GoesOn DEF TypeOK
  <2>4. QED BY <1>4, <2>2, <2>3 DEF SearchStep
<1>5. CASE SearchEnd
  <2>1. i >= count /\ Return(-1)
    BY <1>5 DEF SearchEnd
  <2>2. \A p \in Index : arr[p] # value
    BY <1>1, <1>2, <2>1 DEF Searched
  <2>3. Answered(-1)
    BY <1>1, <2>2 DEF Answered, Searched
  <2>4. -1 \in -1 .. count
    BY <1>2
  <2>5. QED BY <1>1, <2>1, <2>3, <2>4, ReturnKeeps
<1>6. QED BY <1>4, <1>5

(* The scans for the smallest and the greatest cell. *)
LEMMA FindKeeps ==
  ASSUME Inv, NEW label \in {"find_min", "find_max"}, FindStep(label) \/ FindEnd(label)
  PROVE  Inv'
<1> USE DEF Inv
<1>1. pc = label /\ op = label /\ Found
  BY DEF FindStep, FindEnd, Loops, Found
<1>2. /\ count \in Nat /\ i \in 1 .. count /\ i \in Int
      /\ min_idx \in 0 .. i - 1 /\ min_idx \in Int /\ min_idx \in Index
      /\ \A p : p \in Index <=> p \in Int /\ 0 <= p /\ p < count
      /\ \A p \in Index : arr[p] \in Int
  <2>1. /\ count \in Nat /\ \A p : p \in Index <=> p \in Int /\ 0 <= p /\ p < count
        /\ \A p \in Index : arr[p] \in Int
    BY Cells
  <2>2. i \in 1 .. count /\ min_idx \in 0 .. i - 1
    BY <1>1 DEF Found
  <2>3. QED BY <2>1, <2>2
<1>3. Permuted(arr, given) /\ arr \in [Index -> Longs]
  BY <1>1 DEF Kept, Filled, TypeOK
<1>4. /\ \A p \in 0 .. i - 1 : ~Beats(label, arr[p], arr[min_idx])
      /\ \A p \in 0 .. min_idx - 1 : arr[p] # arr[min_idx]
  BY <1>1 DEF Found
<1>5. CASE FindStep(label)
  <2>1. /\ i < count /\ i' = i + 1 /\ pc' = label
        /\ min_idx' = IF Beats(label, arr[i], arr[min_idx]) THEN i ELSE min_idx
        /\ UNCHANGED <<arr, j, key, left, right, count, op, given, value, ret>>
    BY <1>5 DEF FindStep, Goto, asked
  <2>2. i \in Index
    BY <1>2, <2>1
  <2>3. i' \in 1 .. count' /\ min_idx' \in 0 .. i' - 1
    BY <1>2, <2>1
  <2>4. ASSUME NEW p \in 0 .. i PROVE ~Beats(label, arr[p], arr[min_idx'])
    <3>1. p \in Index /\ (p = i \/ p \in 0 .. i - 1)
      BY <1>2, <2>2
    <3>2. arr[p] \in Int /\ arr[i] \in Int /\ arr[min_idx] \in Int
      BY <1>2, <2>2, <3>1
    <3>3. p = i \/ ~Beats(label, arr[p], arr[min_idx])
      BY <1>4, <3>1
    <3>4. QED BY <2>1, <3>2, <3>3 DEF Beats
  <2>5. ASSUME NEW p \in 0 .. min_idx' - 1 PROVE arr[p] # arr[min_idx']
    <3>1. CASE Beats(label, arr[i], arr[min_idx])
      <4>1. p \in 0 .. i - 1 /\ p \in Index /\ min_idx' = i
        BY <1>2, <2>1, <2>2, <3>1
      <4>2. arr[p] \in Int /\ arr[i] \in Int /\ arr[min_idx] \in Int
        BY <1>2, <2>2, <4>1
      <4>3. ~Beats(label, arr[p], arr[min_idx])
        BY <1>4, <4>1
      <4>4. QED BY <3>1, <4>1, <4>2, <4>3 DEF Beats
    <3>2. CASE ~Beats(label, arr[i], arr[min_idx])
      BY <1>4, <2>1, <3>2
    <3>3. QED BY <3>1, <3>2
  <2>6. Found'
    <3>1. 0 .. i' - 1 = 0 .. i
      BY <1>2, <2>1
    <3>2. QED BY <1>1, <2>1, <2>3, <2>4, <2>5, <3>1 DEF Found
  <2>7. Filled' = arr
    BY <2>1 DEF Filled
  <2>8. Loops'
    BY <2>1, <2>6 DEF Loops
  <2>9. i' \in 0 .. count /\ min_idx' \in 0 .. count /\ pc' \in Labels \ {"idle"}
    BY <1>2, <2>1 DEF Labels
  <2>10. QED BY <1>3, <2>1, <2>7, <2>8, <2>9, GoesOn DEF TypeOK
<1>6. CASE FindEnd(label)
  <2>1. i >= count /\ Return(min_idx)
    BY <1>6 DEF FindEnd
  <2>2. i = count
    BY <1>2, <2>1
  <2>3. \A p \in Index : ~Beats(op, arr[p], arr[min_idx])
    BY <1>1, <1>2, <1>4, <2>2
  <2>4. count # 0
    BY <1>2
  <2>5. Answered(min_idx)
    BY <1>1, <1>2, <1>4, <2>3, <2>4 DEF Answered
  <2>6. min_idx \in -1 .. count
    BY <1>2
  <2>7. QED BY <1>1, <2>1, <2>5, <2>6, ReturnKeeps
<1>7. QED BY <1>5, <1>6

-----------------------------------------------------------------------------
(* The calls.  Those that start a loop or return at once, the array being    *)
(* too short, leave the array alone.                                         *)
LEMMA CallBegins ==
  ASSUME Inv, pc = "idle", UNCHANGED <<arr, count, j, key, min_idx>>, given' = arr,
         pc' \in Labels \ {"insert_while"}, i' \in 0 .. count, left' \in 0 .. count,
         right' \in (-1 .. count - 1) \cup {0}, value' \in Longs \cup {0},
         op' \in {"sort", "shuffle", "bsearch", "search", "find_min", "find_max"},
         ret' \in -1 .. count, Loops', pc' = "idle" => Answered(ret)'
  PROVE  Inv'
<1> USE DEF Inv
<1>1. Index' = Index
  BY DEF Index
<1>2. TypeOK'
  BY <1>1 DEF TypeOK
<1>3. Kept'
  <2>1. Filled' = arr
    BY DEF Filled
  <2>2. Permuted(arr, arr)
    BY KeepsAll
  <2>3. QED BY <1>1, <2>1, <2>2 DEF Kept, Permuted, Rearrangements
<1>4. QED BY <1>2, <1>3

LEMMA QsortKeeps ==
  ASSUME Inv, Qsort
  PROVE  Inv'
<1> USE DEF Inv
<1>1. /\ pc = "idle" /\ op' = "sort" /\ given' = arr
      /\ arr' \in [Index -> Longs] /\ Sorted(arr') /\ Permuted(arr', arr)
      /\ UNCHANGED <<count, pc, i, j, key, min_idx, left, right, value, ret>>
  BY DEF Qsort, locals
<1>2. Index' = Index
  BY <1>1 DEF Index
<1>3. TypeOK'
  BY <1>1, <1>2 DEF TypeOK
<1>4. Kept'
  BY <1>1, <1>2 DEF Kept, Filled, Permuted, Rearrangements
<1>5. Loops'
  BY <1>1 DEF Loops
<1>6. Answered(ret)'
  BY <1>1, <1>2 DEF Answered, Sorted
<1>7. QED BY <1>1, <1>3, <1>4, <1>5, <1>6

LEMMA CallKeeps ==
  ASSUME Inv, Calls
  PROVE  Inv'
<1> USE DEF Inv
<1>1. pc = "idle" /\ j = 0 /\ min_idx = 0
  BY DEF Calls, Qsort, BubbleCall, SelectCall, InsertCall, ShuffleCall, BSearchCall,
         SearchCall, FindCall, Call, Loops
<1>2. /\ count \in Nat /\ \A p : p \in Index <=> p \in Int /\ 0 <= p /\ p < count
      /\ \A p \in Index : arr[p] \in Int
  BY Cells
<1>3. /\ i \in 0 .. count /\ left \in 0 .. count /\ right \in (-1 .. count - 1) \cup {0}
      /\ value \in Longs \cup {0} /\ ret \in -1 .. count
  BY DEF TypeOK
<1>4. -1 \in -1 .. count /\ 0 \in 0 .. count
  BY <1>2
<1>5. ASSUME NEW name \in {"sort", "shuffle", "search", "find_min", "find_max"},
             NEW label \in Labels \ {"idle", "insert_while"}, NEW shortest \in {1, 2},
             NEW k \in Int, count >= shortest => k \in 0 .. count,
             value' \in Longs \cup {0}, Call(name, label, shortest, k),
             count >= shortest => Loops',
             count < shortest => Answered(-1)'
      PROVE  Inv'
  <2>1. /\ op' = name /\ given' = arr
        /\ UNCHANGED <<arr, count, j, key, min_idx, left, right>>
    BY <1>5 DEF Call
  <2>2. CASE count < shortest
    <3>1. ret' = -1 /\ UNCHANGED <<pc, i>>
      BY <1>5, <2>2 DEF Call
    <3>2. Loops'
      BY <1>1, <2>1, <3>1 DEF Loops
    <3>3. Answered(ret)'
      BY <1>5, <2>1, <2>2, <3>1 DEF Answered
    <3>4. QED BY <1>1, <1>3, <1>4, <1>5, <2>1, <3>1, <3>2, <3>3, CallBegins DEF Labels
  <2>3. CASE ~(count < shortest)
    <3>1. pc' = label /\ i' = k /\ UNCHANGED ret /\ count >= shortest
      BY <1>2, <1>5, <2>3 DEF Call
    <3>2. QED BY <1>1, <1>3, <1>5, <2>1, <3>1, CallBegins DEF Labels
  <2>4. QED BY <2>2, <2>3
<1>6. CASE BubbleCall \/ SelectCall
  <2>1. PICK label \in {"bubble", "select_for"} : Call("sort", label, 2, 0) /\ UNCHANGED value
    BY <1>6 DEF BubbleCall, SelectCall
  <2>2. op' = "sort" /\ UNCHANGED <<arr, count, j>>
    BY <2>1 DEF Call
  <2>3. ASSUME count >= 2 PROVE Loops'
    <3>1. pc' = label /\ i' = 0
      BY <1>2, <2>1, <2>3 DEF Call
    <3>2. Index' = Index /\ 0 \in Index /\ 0 .. 0 = {0}
      BY <1>2, <2>2, <2>3 DEF Index
    <3>3. \A p \in {0} : arr[p] <= arr[0]
      BY <1>2, <3>2
    <3>4. \A p, q \in Index : p <= q /\ q >= count - 0 => arr[p] <= arr[q]
      BY <1>2
    <3>5. \A p, q \in Index : p <= q /\ p < 0 => arr[p] <= arr[q]
      BY <1>2
    <3>6. count' >= 2 /\ i' \in 0 .. count' - 1 /\ j' \in 0 .. count' - 1 - i'
      BY <1>1, <1>2, <2>2, <2>3, <3>1
    <3>7. Bubbled'
      BY <1>1, <2>2, <3>1, <3>2, <3>3, <3>4, <3>6 DEF Bubbled
    <3>8. Selected'
      BY <2>2, <3>1, <3>2, <3>5, <3>6 DEF Selected
    <3>9. QED BY <3>1, <3>7, <3>8 DEF Loops
  <2>4. ASSUME count < 2 PROVE Answered(-1)'
    <3>1. ASSUME NEW p \in Index, NEW q \in Index, p <= q PROVE arr[p] <= arr[q]
      <4>1. p = q
        BY <1>2, <2>4, <3>1
      <4>2. QED BY <1>2, <4>1
    <3>2. Sorted(arr)'
      BY <2>2, <3>1 DEF Sorted, Index
    <3>3. QED BY <2>2, <3>2 DEF Answered
  <2>5. value' \in Longs \cup {0} /\ 0 \in Int
    BY <1>3, <2>1
  <2>6. QED BY <1>4, <1>5, <2>1, <2>3, <2>4, <2>5 DEF Labels
<1>7. CASE InsertCall
  <2>1. Call("sort", "insert_for", 2, 1) /\ UNCHANGED value
    BY <1>7 DEF InsertCall
  <2>2. op' = "sort" /\ UNCHANGED <<arr, count>>
    BY <2>1 DEF Call
  <2>3. ASSUME count >= 2 PROVE Loops'
    <3>1. pc' = "insert_for" /\ i' = 1
      BY <1>2, <2>1, <2>3 DEF Call
    <3>2. 0 \in Index /\ 0 .. 1 - 1 = {0}
      BY <1>2, <2>3
    <3>3. \A p, q \in 0 .. 1 - 1 : p <= q => arr[p] <= arr[q]
      BY <1>2, <3>2
    <3>4. count' >= 2 /\ i' \in 1 .. count'
      BY <1>2, <2>2, <2>3, <3>1
    <3>5. Inserted'
      BY <2>2, <3>1, <3>3, <3>4 DEF Inserted
    <3>6. QED BY <3>1, <3>5 DEF Loops
  <2>4. ASSUME count < 2 PROVE Answered(-1)'
    <3>1. ASSUME NEW p \in Index, NEW q \in Index, p <= q PROVE arr[p] <= arr[q]
      <4>1. p = q
        BY <1>2, <2>4, <3>1
      <4>2. QED BY <1>2, <4>1
    <3>2. Sorted(arr)'
      BY <2>2, <3>1 DEF Sorted, Index
    <3>3. QED BY <2>2, <3>2 DEF Answered
  <2>5. value' \in Longs \cup {0} /\ (count >= 2 => 1 \in 0 .. count)
    BY <1>2, <1>3, <2>1
  <2>6. QED BY <1>5, <2>1, <2>3, <2>4, <2>5 DEF Labels
<1>8. CASE ShuffleCall
  <2>1. Call("shuffle", "shuffle", 2, count - 1) /\ UNCHANGED value
    BY <1>8 DEF ShuffleCall
  <2>2. op' = "shuffle" /\ UNCHANGED <<arr, count>>
    BY <2>1 DEF Call
  <2>3. ASSUME count >= 2 PROVE Loops'
    <3>1. pc' = "shuffle" /\ i' = count - 1
      BY <1>2, <2>1, <2>3 DEF Call
    <3>2. Shuffled'
      BY <1>2, <2>2, <2>3, <3>1 DEF Shuffled
    <3>3. QED BY <3>1, <3>2 DEF Loops
  <2>4. Answered(-1)'
    BY <2>2 DEF Answered
  <2>5. value' \in Longs \cup {0} /\ count - 1 \in Int /\ (count >= 2 => count - 1 \in 0 .. count)
    BY <1>2, <1>3, <2>1
  <2>6. QED BY <1>5, <2>1, <2>3, <2>4, <2>5 DEF Labels
<1>9. ASSUME NEW v \in Longs, BSearchCall(v)
      PROVE  Inv'
  <2>1. /\ op' = "bsearch" /\ given' = arr /\ value' = v
        /\ UNCHANGED <<arr, count, i, j, key, min_idx>>
    BY <1>9 DEF BSearchCall
  <2>2. CASE count <= 0
    <3>1. ret' = -1 /\ UNCHANGED <<pc, left, right>>
      BY <1>9, <2>2 DEF BSearchCall
    <3>2. \A p \in Index : FALSE
      BY <1>2, <2>2
    <3>3. Answered(ret)'
      BY <2>1, <3>1, <3>2 DEF Answered, Index
    <3>4. Loops'
      BY <1>1, <2>1, <3>1 DEF Loops
    <3>5. QED BY <1>1, <1>3, <1>4, <2>1, <3>1, <3>3, <3>4, CallBegins DEF Labels
  <2>3. CASE ~(count <= 0)
    <3>1. pc' = "bsearch" /\ left' = 0 /\ right' = count - 1 /\ UNCHANGED ret
      BY <1>9, <2>3 DEF BSearchCall
    <3>2. \A p \in Index : 0 <= p /\ p <= count - 1
      BY <1>2
    <3>3. left' <= right' + 1 /\ right' \in -1 .. count - 1
      BY <1>2, <2>3, <3>1
    <3>4. Halved'
      BY <2>1, <3>1, <3>2, <3>3 DEF Halved, Index
    <3>5. Loops'
      BY <3>1, <3>4 DEF Loops
    <3>6. QED BY <1>1, <1>3, <1>4, <2>1, <3>1, <3>3, <3>5, CallBegins DEF Labels
  <2>4. QED BY <2>2, <2>3
<1>10. ASSUME NEW v \in Longs, SearchCall(v)
       PROVE  Inv'
  <2>1. Call("search", "search", 1, 0) /\ value' = v
    BY <1>10 DEF SearchCall
  <2>2. op' = "search" /\ UNCHANGED <<arr, count>>
    BY <2>1 DEF Call
  <2>3. ASSUME count >= 1 PROVE Loops'
    <3>1. pc' = "search" /\ i' = 0
      BY <1>2, <2>1, <2>3 DEF Call
    <3>2. Searched'
      BY <2>2, <3>1 DEF Searched
    <3>3. QED BY <3>1, <3>2 DEF Loops
  <2>4. ASSUME count < 1 PROVE Answered(-1)'
    <3>1. \A p \in Index : FALSE
      BY <1>2, <2>4
    <3>2. QED BY <2>2, <3>1 DEF Answered, Index
  <2>5. 0 \in Int
    OBVIOUS
  <2>6. QED BY <1>4, <1>5, <2>1, <2>3, <2>4, <2>5 DEF Labels
<1>11. ASSUME NEW label \in {"find_min", "find_max"}, FindCall(label)
       PROVE  Inv'
  <2>1. Call(label, label, 1, 1) /\ UNCHANGED value
    BY <1>11 DEF FindCall
  <2>2. op' = label /\ UNCHANGED <<arr, count, min_idx>>
    BY <2>1 DEF Call
  <2>3. ASSUME count >= 1 PROVE Loops'
    <3>1. pc' = label /\ i' = 1
      BY <1>2, <2>1, <2>3 DEF Call
    <3>2. 0 .. 1 - 1 = {0} /\ 0 .. 0 - 1 = {} /\ 0 \in Index
      BY <1>2, <2>3
    <3>3. ~Beats(label, arr[0], arr[0])
      BY <1>2, <3>2 DEF Beats
    <3>4. i' \in 1 .. count' /\ min_idx' \in 0 .. i' - 1
      BY <1>1, <1>2, <2>2, <2>3, <3>1
    <3>5. Found'
      BY <1>1, <2>2, <3>1, <3>2, <3>3, <3>4 DEF Found
    <3>6. QED BY <3>1, <3>5 DEF Loops
  <2>4. ASSUME count < 1 PROVE Answered(-1)'
    <3>1. count = 0
      BY <1>2, <2>4
    <3>2. QED BY <2>2, <3>1 DEF Answered
  <2>5. value' \in Longs \cup {0} /\ (count >= 1 => 1 \in 0 .. count)
    BY <1>2, <1>3, <2>1
  <2>6. QED BY <1>5, <2>1, <2>3, <2>4, <2>5 DEF Labels
<1>12. CASE Qsort
  BY <1>12, QsortKeeps
<1>13. QED BY <1>6, <1>7, <1>8, <1>9, <1>10, <1>11, <1>12 DEF Calls

-----------------------------------------------------------------------------
(* The invariant, and what it says of the results.                           *)
LEMMA InitInv == Init => Inv
<1> SUFFICES ASSUME Init PROVE Inv
  OBVIOUS
<1>1. count \in Nat /\ -1 \in -1 .. count /\ 0 \in 0 .. count /\ 0 \in -1 .. count
  BY CountAssumption DEF Init
<1>2. TypeOK
  BY <1>1 DEF Init, TypeOK, Labels
<1>3. Loops /\ Answered(ret)
  BY DEF Init, Loops, Answered
<1>4. Kept
  BY KeepsAll DEF Init, Kept, Filled
<1>5. QED BY <1>2, <1>3, <1>4 DEF Inv

LEMMA NextKeeps == Inv /\ [Next]_vars => Inv'
<1> SUFFICES ASSUME Inv, [Next]_vars PROVE Inv'
  OBVIOUS
<1>1. CASE Calls
  BY <1>1, CallKeeps
<1>2. CASE Steps
  BY <1>2, BubbleKeeps, SelectKeeps, InsertKeeps, ShiftKeeps, ShuffleKeeps, BSearchKeeps,
     SearchKeeps, FindKeeps DEF Steps
<1>3. CASE UNCHANGED vars
  <2>1. UNCHANGED <<arr, count, pc, i, j, key, min_idx, left, right, op, given, value, ret>>
    BY <1>3 DEF vars, locals, asked
  <2>2. Index' = Index
    BY <2>1 DEF Index
  <2>3. TypeOK'
    BY <2>1, <2>2 DEF Inv, TypeOK
  <2>4. Loops'
    BY <2>1, <2>2 DEF Inv, Loops, Bubbled, Selected, Scanned, Inserted, Shifted, Shuffled,
       Halved, Searched, Found, Sorted
  <2>5. Kept'
    BY <2>1, <2>2 DEF Inv, Kept, Filled, Permuted, Rearrangements
  <2>6. (pc = "idle" => Answered(ret))'
    BY <2>1, <2>2 DEF Inv, Answered, Sorted
  <2>7. QED BY <2>3, <2>4, <2>5, <2>6 DEF Inv
<1>4. QED BY <1>1, <1>2, <1>3 DEF Next

LEMMA InvHolds == Spec => []Inv
  BY InitInv, NextKeeps, PTL DEF Spec

(* Every index and every local of every routine stays in its range, for an   *)
(* array of any length: insertion sort's j goes down to -1 and no further,   *)
(* the halves of the binary search never leave the array (sorting.c:30-42,   *)
(* :136-143).                                                                *)
THEOREM LocalsStayInRange == Spec => []TypeOK
<1>1. Inv => TypeOK
  BY DEF Inv
<1>2. QED BY <1>1, InvHolds, PTL

(* Every sort leaves the array in order, whatever its length and its values  *)
(* (sorting.c:86-147).                                                       *)
THEOREM EverySortSorts == Spec => []SortsSort
<1>1. Inv => SortsSort
  BY AnswersAre DEF Inv
<1>2. QED BY <1>1, InvHolds, PTL

(* No sort and no shuffle loses or doubles a value of any array              *)
(* (sorting.c:66-147).                                                       *)
THEOREM NothingIsLost == Spec => []ValuesKept
<1>1. Inv => ValuesKept
  BY DEF Inv, Kept, Filled, ValuesKept
<1>2. QED BY <1>1, InvHolds, PTL

(* The searches answer right in every array: the halving leaves no cell of   *)
(* an array in order out (sorting.c:33-47), and the scans stop at the first  *)
(* cell that fits (:51-62, :185-215).                                        *)
THEOREM SearchesMissNothing == Spec => []SearchesFind
<1>1. Inv => SearchesFind
  BY AnswersAre DEF Inv
<1>2. QED BY <1>1, InvHolds, PTL
=============================================================================
