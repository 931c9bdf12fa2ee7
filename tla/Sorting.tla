------------------------------- MODULE Sorting -------------------------------
(* The routines of src/runtime/sorting.c that a program calls, one after     *)
(* another, on one array of longs: the sorts, the shuffle and the searches.  *)
(* One action is one turn of a loop.  The array is the cells that its caller *)
(* gives with count, of eight bytes each; a null pointer is answered like an *)
(* empty array.  The sorts and the shuffle return the array itself: ret has  *)
(* no meaning after them.  Sum, average and count_val, which keep a running  *)
(* total and no more, are left out.                                          *)
EXTENDS Integers

CONSTANTS
  Longs,      \* the values of cells
  MAX_COUNT   \* bound on the number of cells

ASSUME LongsAssumption == Longs \subseteq Int
ASSUME CountAssumption == MAX_COUNT \in Nat

VARIABLES
  arr, count,               \* the array
  pc,                       \* the loop that runs, or "idle"
  i, j, key, min_idx,       \* the locals of the sorts and scans
  left, right,              \*   and of the binary search
  value,                    \* the value last searched for
  op, given, ret            \* the last call: what it is, its array, its return

locals == <<i, j, key, min_idx, left, right>>
asked == <<op, given, value>>
vars == <<arr, count, pc, locals, asked, ret>>

Index == 0 .. count - 1

Init ==
  /\ count \in 0 .. MAX_COUNT
  /\ arr \in [Index -> Longs]
  /\ pc = "idle"
  /\ i = 0 /\ j = 0 /\ key = 0 /\ min_idx = 0 /\ left = 0 /\ right = 0
  /\ value = 0
  /\ op = "none" /\ given = arr /\ ret = -1

-----------------------------------------------------------------------------
Swap(a, p, q) == [a EXCEPT ![p] = a[q], ![q] = a[p]]

Goto(label) == pc' = label /\ UNCHANGED <<count, asked, ret>>

(* A return: the locals are gone. *)
Return(r) ==
  /\ pc' = "idle" /\ ret' = r
  /\ i' = 0 /\ j' = 0 /\ key' = 0 /\ min_idx' = 0 /\ left' = 0 /\ right' = 0
  /\ UNCHANGED <<arr, count, asked>>

(* A call whose loop starts at k, unless the array is too short for it.      *)
Call(name, label, shortest, k) ==
  /\ pc = "idle"
  /\ op' = name /\ given' = arr
  /\ IF count < shortest THEN ret' = -1 /\ UNCHANGED <<pc, i>>
                         ELSE pc' = label /\ i' = k /\ UNCHANGED ret
  /\ UNCHANGED <<arr, count, j, key, min_idx, left, right>>

-----------------------------------------------------------------------------
(* What sorted and rearranged mean.                                          *)

Sorted(a) == \A p, q \in Index : p <= q => a[p] <= a[q]

Rearrangements == {f \in [Index -> Index] : \A p, q \in Index : f[p] = f[q] => p = q}
Permuted(a, b) == \E f \in Rearrangements : \A p \in Index : a[p] = b[f[p]]

-----------------------------------------------------------------------------
(* sc_qsort: that of the C library, with compare_longs as the order.         *)
Qsort ==
  /\ pc = "idle"
  /\ op' = "sort" /\ given' = arr
  /\ arr' \in [Index -> Longs]
  /\ Sorted(arr') /\ Permuted(arr', arr)
  /\ UNCHANGED <<count, pc, locals, value, ret>>

(* sc_bubble_sort *)
BubbleCall == Call("sort", "bubble", 2, 0) /\ UNCHANGED value

(* Mutant: the last pair of a pass is left out. *)
BubbleStep_Short ==
  /\ pc = "bubble" /\ i < count - 1 /\ j < count - 1 - i
  /\ arr' = IF arr[j] > arr[j + 1] /\ j < count - 2 THEN Swap(arr, j, j + 1) ELSE arr
  /\ j' = j + 1
  /\ UNCHANGED <<i, key, min_idx, left, right>> /\ Goto("bubble")

BubbleStep ==
  /\ pc = "bubble" /\ i < count - 1 /\ j < count - 1 - i
  /\ arr' = IF arr[j] > arr[j + 1] THEN Swap(arr, j, j + 1) ELSE arr
  /\ j' = j + 1
  /\ UNCHANGED <<i, key, min_idx, left, right>> /\ Goto("bubble")

BubblePass ==
  /\ pc = "bubble" /\ i < count - 1 /\ j >= count - 1 - i
  /\ i' = i + 1 /\ j' = 0
  /\ UNCHANGED <<arr, key, min_idx, left, right>> /\ Goto("bubble")

BubbleEnd == pc = "bubble" /\ i >= count - 1 /\ Return(0)

(* sc_selection_sort *)
SelectCall == Call("sort", "select_for", 2, 0) /\ UNCHANGED value

SelectFor ==
  /\ pc = "select_for" /\ i < count - 1
  /\ min_idx' = i /\ j' = i + 1
  /\ UNCHANGED <<arr, i, key, left, right>> /\ Goto("select_scan")

SelectScan ==
  /\ pc = "select_scan" /\ j < count
  /\ min_idx' = IF arr[j] < arr[min_idx] THEN j ELSE min_idx
  /\ j' = j + 1
  /\ UNCHANGED <<arr, i, key, left, right>> /\ Goto("select_scan")

SelectSwap ==
  /\ pc = "select_scan" /\ j >= count
  /\ arr' = Swap(arr, i, min_idx)
  /\ i' = i + 1
  /\ UNCHANGED <<j, key, min_idx, left, right>> /\ Goto("select_for")

SelectEnd == pc = "select_for" /\ i >= count - 1 /\ Return(0)

(* sc_insertion_sort *)
InsertCall == Call("sort", "insert_for", 2, 1) /\ UNCHANGED value

InsertFor ==
  /\ pc = "insert_for" /\ i < count
  /\ key' = arr[i] /\ j' = i - 1
  /\ UNCHANGED <<arr, i, min_idx, left, right>> /\ Goto("insert_while")

Shifting == j >= 0 /\ arr[j] > key

InsertShift ==
  /\ pc = "insert_while" /\ Shifting
  /\ arr' = [arr EXCEPT ![j + 1] = arr[j]]
  /\ j' = j - 1
  /\ UNCHANGED <<i, key, min_idx, left, right>> /\ Goto("insert_while")

(* Mutant: the key goes where the search for its place stopped. *)
InsertPlace_OneEarly ==
  /\ pc = "insert_while" /\ ~Shifting
  /\ arr' = IF j >= 0 THEN [arr EXCEPT ![j] = key] ELSE [arr EXCEPT ![0] = key]
  /\ i' = i + 1
  /\ UNCHANGED <<j, key, min_idx, left, right>> /\ Goto("insert_for")

InsertPlace ==
  /\ pc = "insert_while" /\ ~Shifting
  /\ arr' = [arr EXCEPT ![j + 1] = key]
  /\ i' = i + 1
  /\ UNCHANGED <<j, key, min_idx, left, right>> /\ Goto("insert_for")

InsertEnd == pc = "insert_for" /\ i >= count /\ Return(0)

(* sc_shuffle: rand() % (i + 1) is any position up to i. *)
ShuffleCall == Call("shuffle", "shuffle", 2, count - 1) /\ UNCHANGED value

ShuffleStep ==
  /\ pc = "shuffle" /\ i > 0
  /\ \E r \in 0 .. i : arr' = Swap(arr, i, r)
  /\ i' = i - 1
  /\ UNCHANGED <<j, key, min_idx, left, right>> /\ Goto("shuffle")

ShuffleEnd == pc = "shuffle" /\ i <= 0 /\ Return(0)

-----------------------------------------------------------------------------
(* sc_bsearch *)
BSearchCall(v) ==
  /\ pc = "idle"
  /\ op' = "bsearch" /\ given' = arr /\ value' = v
  /\ IF count <= 0 THEN ret' = -1 /\ UNCHANGED <<pc, left, right>>
                   ELSE /\ pc' = "bsearch" /\ left' = 0 /\ right' = count - 1
                        /\ UNCHANGED ret
  /\ UNCHANGED <<arr, count, i, j, key, min_idx>>

mid == (left + right) \div 2

(* Mutant: the middle stays inside the half that is searched next. *)
BSearchStep_KeepsMiddle ==
  /\ pc = "bsearch" /\ left <= right
  /\ \/ arr[mid] = value /\ Return(mid)
     \/ /\ arr[mid] < value /\ left' = mid
        /\ UNCHANGED <<arr, i, j, key, min_idx, right>> /\ Goto("bsearch")
     \/ /\ arr[mid] > value /\ right' = mid - 1
        /\ UNCHANGED <<arr, i, j, key, min_idx, left>> /\ Goto("bsearch")

BSearchStep ==
  /\ pc = "bsearch" /\ left <= right
  /\ \/ arr[mid] = value /\ Return(mid)
     \/ /\ arr[mid] < value /\ left' = mid + 1
        /\ UNCHANGED <<arr, i, j, key, min_idx, right>> /\ Goto("bsearch")
     \/ /\ arr[mid] > value /\ right' = mid - 1
        /\ UNCHANGED <<arr, i, j, key, min_idx, left>> /\ Goto("bsearch")

(* Mutant: the search ends when one cell is left. *)
BSearchEnd_OneLeft == pc = "bsearch" /\ left >= right /\ Return(-1)

BSearchEnd == pc = "bsearch" /\ left > right /\ Return(-1)

(* sc_search *)
SearchCall(v) == Call("search", "search", 1, 0) /\ value' = v

SearchStep ==
  /\ pc = "search" /\ i < count
  /\ \/ arr[i] = value /\ Return(i)
     \/ /\ arr[i] # value /\ i' = i + 1
        /\ UNCHANGED <<arr, j, key, min_idx, left, right>> /\ Goto("search")

SearchEnd == pc = "search" /\ i >= count /\ Return(-1)

(* sc_find_min_idx and sc_find_max_idx, which find_min and find_max repeat   *)
(* with the value of the cell in place of its index.                         *)
FindCall(label) == Call(label, label, 1, 1) /\ UNCHANGED value

Beats(label, x, y) == IF label = "find_min" THEN x < y ELSE x > y

FindStep(label) ==
  /\ pc = label /\ i < count
  /\ min_idx' = IF Beats(label, arr[i], arr[min_idx]) THEN i ELSE min_idx
  /\ i' = i + 1
  /\ UNCHANGED <<arr, j, key, left, right>> /\ Goto(label)

FindEnd(label) == pc = label /\ i >= count /\ Return(min_idx)

-----------------------------------------------------------------------------
Calls ==
  \/ Qsort \/ BubbleCall \/ SelectCall \/ InsertCall \/ ShuffleCall
  \/ \E v \in Longs : BSearchCall(v) \/ SearchCall(v)
  \/ \E label \in {"find_min", "find_max"} : FindCall(label)

Steps ==
  \/ BubbleStep \/ BubblePass \/ BubbleEnd
  \/ SelectFor \/ SelectScan \/ SelectSwap \/ SelectEnd
  \/ InsertFor \/ InsertShift \/ InsertPlace \/ InsertEnd
  \/ ShuffleStep \/ ShuffleEnd
  \/ BSearchStep \/ BSearchEnd
  \/ SearchStep \/ SearchEnd
  \/ \E label \in {"find_min", "find_max"} : FindStep(label) \/ FindEnd(label)

Next == Calls \/ Steps

Spec == Init /\ [][Next]_vars

(* A call that was made goes on. *)
FairSpec == Spec /\ WF_vars(Steps)

-----------------------------------------------------------------------------
(* Properties *)

Labels == {"idle", "bubble", "select_for", "select_scan", "insert_for", "insert_while",
           "shuffle", "bsearch", "search", "find_min", "find_max"}

(* The type invariant: the locals stay within one of the array.              *)
TypeOK ==
  /\ count \in 0 .. MAX_COUNT
  /\ arr \in [Index -> Longs] /\ given \in [Index -> Longs]
  /\ pc \in Labels
  /\ i \in 0 .. count /\ j \in -1 .. count /\ min_idx \in 0 .. count
  /\ left \in 0 .. count /\ right \in -1 .. count - 1 \cup {0}
  /\ key \in Longs \cup {0} /\ value \in Longs \cup {0}
  /\ op \in {"none", "sort", "shuffle", "bsearch", "search", "find_min", "find_max"}
  /\ ret \in -1 .. count

(* After each of the four sorts the array is in order (sorting.c:17-21,      *)
(* :91-101, :111-124, :134-146).                                             *)
SortsSort == pc = "idle" /\ op = "sort" => Sorted(arr)

(* Whatever a call did, the array holds the values it was given, each as     *)
(* often: no swap and no shift loses or doubles one (sorting.c:76-78,        *)
(* :94-96, :119-121, :135-143).                                              *)
ValuesKept == pc = "idle" => Permuted(arr, given)

(* The searches answer right.  The binary search says where the value is, or *)
(* -1 and then, in an array that is in order, it is nowhere (sorting.c:      *)
(* 33-47).  The scans answer with the first of several cells: search with    *)
(* the first that holds the value, or -1 for none, find_min_idx and          *)
(* find_max_idx with the first that no other beats (:55-61, :191-197,        *)
(* :208-214).                                                                *)
SearchesFind ==
  pc = "idle" =>
    /\ op = "bsearch" /\ ret # -1 => ret \in Index /\ arr[ret] = value
    /\ op = "bsearch" /\ ret = -1 /\ Sorted(arr) => \A p \in Index : arr[p] # value
    /\ op = "search" /\ ret # -1 =>
         ret \in Index /\ arr[ret] = value /\ \A p \in 0 .. ret - 1 : arr[p] # value
    /\ op = "search" /\ ret = -1 => \A p \in Index : arr[p] # value
    /\ op \in {"find_min", "find_max"} =>
         IF count = 0 THEN ret = -1
         ELSE /\ ret \in Index
              /\ \A p \in Index : ~Beats(op, arr[p], arr[ret])
              /\ \A p \in 0 .. ret - 1 : arr[p] # arr[ret]

(* Every call returns (the loops of sorting.c end).                          *)
CallsReturn == pc # "idle" ~> pc = "idle"
=============================================================================
