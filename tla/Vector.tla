------------------------------- MODULE Vector -------------------------------
(***************************************************************************)
(* The growable array of src/util/src/vector.c.  values has a word for     *)
(* every place of the capacity; those past the size keep what was stored   *)
(* in them last.  items is not in the code: it is the sequence that the    *)
(* calls describe.                                                         *)
(***************************************************************************)
EXTENDS Integers, SequencesExt

CONSTANTS
  MaxVector,    \* the bound on the size
  VectorValues  \* the values stored, numbers

VARIABLES
  vec,          \* size, values; the capacity is Len(values)
  items         \* the sequence it should be

vectorVars == <<vec, items>>

VectorNew(capacity) == [size |-> 0, values |-> [k \in 1 .. capacity |-> 0]]

VectorInit ==
  /\ \E capacity \in {0, 2} : vec = VectorNew(capacity)
  /\ items = << >>

Kept(values, n) == [k \in 1 .. n |-> IF k <= Len(values) THEN values[k] ELSE 0]

(* vector_resize allocates zeroed words only past the capacity. *)
ResizeShort(v, n) ==
  [size |-> n, values |-> IF n - 1 > Len(v.values) THEN Kept(SubSeq(v.values, 1, v.size), n) ELSE v.values]

Resize(v, n) ==
  [size |-> n, values |-> IF n > Len(v.values) THEN Kept(SubSeq(v.values, 1, v.size), n) ELSE v.values]

GetUnchecked(v, idx) == IF idx >= v.size THEN 0 ELSE v.values[idx + 1]
SetAt(v, idx, x) == IF idx >= v.size THEN v ELSE [v EXCEPT !.values[idx + 1] = x]

(* vector_insert: the words from idx on move up, the last one first. *)
InsertUpwards(v, idx, x) ==
  LET v1 == Resize(v, v.size + 1)
      up(u, i) == SetAt(u, i, GetUnchecked(u, i - 1))
  IN  SetAt(FoldLeft(up, v1, [k \in 1 .. (v.size - idx) |-> idx + k]), idx, x)

Insert(v, idx, x) ==
  LET v1 == Resize(v, v.size + 1)
      up(u, i) == SetAt(u, i, GetUnchecked(u, i - 1))
  IN  SetAt(FoldLeft(up, v1, [k \in 1 .. (v.size - idx) |-> v.size - k + 1]), idx, x)

RemoveIdx(v, idx) ==
  LET down(u, i) == [u EXCEPT !.values[i + 1] = u.values[i + 2]]
  IN  FoldLeft(down, [v EXCEPT !.size = @ - 1], [k \in 1 .. (v.size - 1 - idx) |-> idx + k - 1])

Find(v, x) == LET hits == {k \in 1 .. v.size : v.values[k] = x}
              IN  IF hits = {} THEN -1 ELSE (CHOOSE k \in hits : \A j \in hits : k <= j) - 1

(* vector_reserve also shrinks, and cuts the size. *)
Reserve(v, n) ==
  IF n = Len(v.values) \/ n = 0 THEN v
  ELSE LET size == IF n < v.size THEN n ELSE v.size
       IN  [size |-> size, values |-> Kept(SubSeq(v.values, 1, size), n)]

(* vector_insertion_sort and vector_selection_sort, with the comparators   *)
(* for rising and for falling order.                                       *)
InOrderOf(up, x, y) == IF up THEN x <= y ELSE x >= y

RECURSIVE Sink(_, _, _)
Sink(up, v, j) ==
  IF j = 0 \/ InOrderOf(up, GetUnchecked(v, j - 1), GetUnchecked(v, j)) THEN v
  ELSE Sink(up, SetAt(SetAt(v, j, GetUnchecked(v, j - 1)), j - 1, GetUnchecked(v, j)), j - 1)

InsertionSort(up, v) ==
  FoldLeft(LAMBDA u, j : Sink(up, u, j), v, [k \in 1 .. (v.size - 1) |-> k])

SelectMin(up, v, i) ==
  FoldLeft(LAMBDA best, j : IF InOrderOf(up, GetUnchecked(v, best), GetUnchecked(v, j)) THEN best ELSE j,
           i, [k \in 1 .. (v.size - 1 - i) |-> i + k])

SelectionSort(up, v) ==
  FoldLeft(LAMBDA u, i : SetAt(SetAt(u, i, GetUnchecked(u, SelectMin(up, u, i))),
                               SelectMin(up, u, i), GetUnchecked(u, i)),
           v, [k \in 1 .. v.size |-> k - 1])

RECURSIVE SearchDescending(_, _, _, _)
SearchDescending(v, key, low, high) ==
  LET mid == (low + high) \div 2
  IN  IF low > high THEN -1
      ELSE IF GetUnchecked(v, mid) < key THEN SearchDescending(v, key, low, mid - 1)
      ELSE IF GetUnchecked(v, mid) > key THEN SearchDescending(v, key, mid + 1, high)
      ELSE mid

(* The ascending search starts with high one past the end, stops when low  *)
(* meets high, and still steps high below mid: it can miss what is there.  *)
RECURSIVE SearchAscending(_, _, _, _)
SearchAscending(v, key, low, high) ==
  LET mid == (low + high) \div 2
  IN  IF low >= high THEN -1
      ELSE IF GetUnchecked(v, mid) > key THEN SearchAscending(v, key, low, mid - 1)
      ELSE IF GetUnchecked(v, mid) < key THEN SearchAscending(v, key, mid + 1, high)
      ELSE mid

-----------------------------------------------------------------------------
(* A caller inserts at most one past the end: beyond it the value is lost. *)
VectorInsert(idx, x) ==
  /\ vec.size < MaxVector
  /\ idx <= vec.size
  /\ vec' = Insert(vec, idx, x)
  /\ items' = InsertAt(items, idx + 1, x)

VectorSet(idx, x) ==
  /\ idx < vec.size
  /\ vec' = SetAt(vec, idx, x)
  /\ items' = [items EXCEPT ![idx + 1] = x]

VectorRemove(idx) ==
  /\ idx < vec.size
  /\ vec' = RemoveIdx(vec, idx)
  /\ items' = RemoveAt(items, idx + 1)

VectorRemoveValue(x) ==
  /\ Find(vec, x) # -1
  /\ vec' = RemoveIdx(vec, Find(vec, x))
  /\ items' = RemoveFirst(items, x)

VectorResizeWithDefault(n, x) ==
  LET fill(u, i) == SetAt(u, i, x)
  IN  /\ vec' = FoldLeft(fill, Resize(vec, n), [k \in 1 .. (n - vec.size) |-> vec.size + k - 1])
      /\ items' = [k \in 1 .. n |-> IF k <= Len(items) THEN items[k] ELSE x]

(* vector_clear; the words stay. *)
VectorClear ==
  /\ vec' = Resize(vec, 0)
  /\ items' = << >>

(* vector_free, and the vector that is made next. *)
VectorFree ==
  /\ \E capacity \in {0, 2} : vec' = VectorNew(capacity)
  /\ items' = << >>

VectorReserve(n) ==
  /\ vec' = Reserve(vec, n)
  /\ items' = IF n # 0 /\ n < Len(items) THEN SubSeq(items, 1, n) ELSE items

VectorSort(up) ==
  /\ \/ vec' = InsertionSort(up, vec)
     \/ vec' = SelectionSort(up, vec)
  /\ items' = SortSeq(items, LAMBDA x, y : InOrderOf(up, x, y))

VectorNext ==
  \/ \E idx \in 0 .. MaxVector, x \in VectorValues : VectorInsert(idx, x) \/ VectorSet(idx, x)
  \/ \E idx \in 0 .. MaxVector : VectorRemove(idx)
  \/ \E x \in VectorValues : VectorRemoveValue(x)
  \/ \E n \in 0 .. MaxVector, x \in VectorValues : VectorResizeWithDefault(n, x)
  \/ \E n \in 0 .. MaxVector : VectorReserve(n)
  \/ VectorClear \/ VectorFree
  \/ \E up \in BOOLEAN : VectorSort(up)

-----------------------------------------------------------------------------
(* Whatever was pushed past the end, cut off and grown again over old      *)
(* words, the vector's first size words are the sequence the calls         *)
(* describe; a descending vector is searched right, and what an ascending  *)
(* search finds is there.                                                  *)
VectorIsItsSequence ==
  /\ vec.size <= Len(vec.values)
  /\ SubSeq(vec.values, 1, vec.size) = items
  /\ \A x \in VectorValues :
       LET down == SearchDescending(vec, x, 0, vec.size - 1)
           up   == SearchAscending(vec, x, 0, vec.size)
       IN  /\ (\A j, k \in DOMAIN items : j < k => items[j] >= items[k])
                => (down = -1 <=> x \notin ToSet(items))
           /\ down # -1 => items[down + 1] = x
           /\ up # -1 => items[up + 1] = x
=============================================================================
