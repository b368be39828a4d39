------------------------------- MODULE Lists -------------------------------
(***************************************************************************)
(* The circular doubly linked list of src/util/src/list.c and the hash map *)
(* of src/util/src/map.c, whose slots are such lists.                      *)
(*                                                                         *)
(* node holds every list element and every list's head.  list_add puts an  *)
(* element next to the head; the iteration that the macros call ascending  *)
(* starts at head.prev, the oldest.  Freeing an element leaves its words   *)
(* as they are, and the loops of map_clear read them after the free.       *)
(*                                                                         *)
(* seq and dict are not in the code: they are the sequence, oldest first,  *)
(* and the map that the calls describe.                                    *)
(***************************************************************************)
EXTENDS Integers, SequencesExt

CONSTANTS
  Elems,      \* the bound on list elements, 1 .. Elems
  ListValues, \* the values of the plain list
  MapKeys, MapValues,
  MapSlots,   \* map->slots
  HashOf      \* fnv1a_digest_64(key) % slots, for each key

Slots == {-s : s \in 1 .. MapSlots}
PlainList == 0
Heads == Slots \cup {PlainList}
ListNodes == Heads \cup 1 .. Elems

VARIABLES
  node,       \* next, prev and value of each element and head
  used,       \* the elements that are allocated
  size,       \* map->size
  seq,        \* the plain list as a sequence
  dict        \* the map as a function

listVars == <<node, used, size, seq, dict>>

EmptyHead(head) == [next |-> head, prev |-> head, value |-> 0]

(* map_init_values makes a list for each slot. *)
MapInitValues(n) == [e \in ListNodes |-> IF e \in Slots THEN EmptyHead(e) ELSE n[e]]

ListsInit ==
  /\ node = MapInitValues([e \in ListNodes |-> EmptyHead(PlainList)])
  /\ used = {}
  /\ size = 0
  /\ seq = << >>
  /\ dict = << >>

-----------------------------------------------------------------------------
(* src/util/src/list.c *)

NewElem == CHOOSE e \in (1 .. Elems) \ used : \A f \in (1 .. Elems) \ used : e <= f
Room == (1 .. Elems) \ used # {}

ListAddHalf(n, head, e, value) ==
  [n EXCEPT ![e] = [next |-> n[head].next, prev |-> head, value |-> value],
            ![head].next = e]

ListAdd(n, head, e, value) ==
  LET first == n[head].next
      n1    == [n EXCEPT ![e] = [next |-> first, prev |-> head, value |-> value],
                         ![first].prev = e]
  IN  [n1 EXCEPT ![head].next = e]

(* list_remove_elem, without the free *)
Unlink(n, e) ==
  LET n1 == [n EXCEPT ![n[e].next].prev = n[e].prev]
  IN  [n1 EXCEPT ![n[e].prev].next = n[e].next]

(* list_for_each: the elements from head.prev on. *)
RECURSIVE Ascending(_, _, _)
Ascending(n, head, e) == IF e = head THEN << >> ELSE <<e>> \o Ascending(n, head, n[e].prev)
ForEach(n, head) == Ascending(n, head, n[head].prev)

RECURSIVE Descending(_, _, _)
Descending(n, head, e) == IF e = head THEN << >> ELSE <<e>> \o Descending(n, head, n[e].next)
ForEachDescending(n, head) == Descending(n, head, n[head].next)

(* list_find_elem: the oldest of the elements looked for, or the head. *)
FindElem(n, head, wanted) ==
  LET hits == SelectSeq(ForEach(n, head), LAMBDA e : e \in wanted)
  IN  IF hits = << >> THEN head ELSE Head(hits)

Elements(n, head) == ToSet(ForEach(n, head))
Holding(n, head, v) == {e \in Elements(n, head) : n[e].value = v}

(* list_contains and list_size *)
ListContains(n, head, v) == FindElem(n, head, Holding(n, head, v)) # head
ListSize(n, head) == Len(ForEach(n, head))

(* One pass of list_sort, and the passes until one swaps nothing, with the *)
(* comparators for rising and for falling order.                           *)
Comparator(up, x, y) == IF up THEN x <= y ELSE x >= y

RECURSIVE SortPass(_, _, _, _)
SortPass(up, n, head, e) ==
  LET p == n[e].prev
  IN  IF p = head THEN n
      ELSE SortPass(up, IF Comparator(up, n[e].value, n[p].value) THEN n
                        ELSE [n EXCEPT ![e].value = n[p].value, ![p].value = n[e].value], head, p)

RECURSIVE SortPasses(_, _, _)
SortPasses(up, n, head) ==
  LET n1 == SortPass(up, n, head, n[head].prev)
  IN  IF n1 = n THEN n ELSE SortPasses(up, n1, head)

AddValue(v) ==
  /\ Room
  /\ node' = ListAdd(node, PlainList, NewElem, v)
  /\ used' = used \cup {NewElem}
  /\ seq' = Append(seq, v)
  /\ UNCHANGED <<size, dict>>

Drop(e, rest) ==
  /\ node' = Unlink(node, e)
  /\ used' = used \ {e}
  /\ seq' = rest
  /\ UNCHANGED <<size, dict>>

ListRemove(v) ==
  LET e == FindElem(node, PlainList, Holding(node, PlainList, v))
  IN  /\ e # PlainList
      /\ Drop(e, RemoveFirst(seq, v))

ListPop ==
  /\ node[PlainList].prev # PlainList
  /\ Drop(node[PlainList].prev, Tail(seq))

ListPopBack ==
  /\ node[PlainList].next # PlainList
  /\ Drop(node[PlainList].next, Front(seq))

(* The loop tests the prev of its first element, which on an empty list is *)
(* the head itself.                                                        *)
ListSort(up) ==
  /\ node' = SortPasses(up, node, PlainList)
  /\ seq' = SortSeq(seq, LAMBDA x, y : Comparator(up, x, y))
  /\ UNCHANGED <<used, size, dict>>

ListClear ==
  /\ node' = FoldLeft(Unlink, node, ForEachDescending(node, PlainList))
  /\ used' = used \ ToSet(ForEachDescending(node, PlainList))
  /\ seq' = << >>
  /\ UNCHANGED <<size, dict>>

(* list_free gives the elements back without unlinking them; the list that *)
(* list_new makes next starts empty.                                       *)
ListFree ==
  /\ node' = [node EXCEPT ![PlainList] = EmptyHead(PlainList)]
  /\ used' = used \ ToSet(ForEachDescending(node, PlainList))
  /\ seq' = << >>
  /\ UNCHANGED <<size, dict>>

ListNext ==
  \/ \E v \in ListValues : AddValue(v) \/ ListRemove(v)
  \/ ListPop \/ ListPopBack \/ ListClear \/ ListFree
  \/ \E up \in BOOLEAN : ListSort(up)

-----------------------------------------------------------------------------
(* src/util/src/map.c.  An element's value is its key and value; the calls *)
(* that take an integer key use its text, MapIntToStr of module Strings.   *)

SlotOf(key) == -HashOf[key] - 1

MapGetElem(key) ==
  LET slot == SlotOf(key)
  IN  FindElem(node, slot, {e \in Elements(node, slot) : node[e].value.key = key})

MapGet(key) ==
  LET me == MapGetElem(key)
  IN  IF me \in Heads THEN [found |-> FALSE, val |-> 0]
      ELSE [found |-> TRUE, val |-> node[me].value.val]

MapElemNewVal(key, v) ==
  /\ Room
  /\ node' = ListAdd(node, SlotOf(key), NewElem, [key |-> key, val |-> v])
  /\ used' = used \cup {NewElem}
  /\ size' = size + 1

MapSetAlwaysNew(key, v) ==
  /\ MapElemNewVal(key, v)
  /\ dict' = (key :> v) @@ dict
  /\ UNCHANGED seq

MapSet(key, v) ==
  LET me == MapGetElem(key)
  IN  /\ IF me \in Heads
         THEN MapElemNewVal(key, v)
         ELSE /\ node' = [node EXCEPT ![me].value.val = v]
              /\ UNCHANGED <<used, size>>
      /\ dict' = (key :> v) @@ dict
      /\ UNCHANGED seq

MapRemove(key) ==
  LET me == MapGetElem(key)
  IN  /\ me \notin Heads
      /\ node' = Unlink(node, me)
      /\ used' = used \ {me}
      /\ size' = size - 1
      /\ dict' = [k \in DOMAIN dict \ {key} |-> dict[k]]
      /\ UNCHANGED seq

(* The loop of map_clear unlinks and frees the element and then follows    *)
(* its prev.                                                               *)
RECURSIVE ClearFrom(_, _, _)
ClearFrom(n, head, e) == IF e = head THEN n ELSE ClearFrom(Unlink(n, e), head, Unlink(n, e)[e].prev)

ClearSlots(n) ==
  FoldLeft(LAMBDA m, s : ClearFrom(m, -s, m[-s].prev), n, [s \in 1 .. MapSlots |-> s])

MapClear ==
  /\ node' = ClearSlots(node)
  /\ used' = used \ UNION {ToSet(ForEach(node, s)) : s \in Slots}
  /\ size' = 0
  /\ dict' = << >>
  /\ UNCHANGED seq

(* map_free clears the slots and frees their lists; map_new makes new ones. *)
MapFree ==
  LET n == ClearSlots(node)
  IN  /\ node' = MapInitValues(n)
      /\ used' = used \ UNION {ToSet(ForEach(node, s)) : s \in Slots}
      /\ size' = 0
      /\ dict' = << >>
      /\ UNCHANGED seq

MapNext ==
  \/ \E key \in MapKeys : MapRemove(key) \/ \E v \in MapValues : MapSet(key, v)
  \/ MapClear \/ MapFree

MapGetKeys ==
  FlattenSeq([s \in 1 .. MapSlots |->
                [k \in DOMAIN ForEach(node, -s) |-> node[ForEach(node, -s)[k]].value.key]])

-----------------------------------------------------------------------------
(* Following prev from the head gives the values in the order they were    *)
(* added, or sorted, less those removed; following next gives the same     *)
(* elements backwards; and every element that is allocated is on one list. *)
ListIsItsSequence ==
  LET elems == ForEach(node, PlainList)
  IN  /\ [k \in DOMAIN elems |-> node[elems[k]].value] = seq
      /\ ListSize(node, PlainList) = Len(seq)
      /\ \A v \in ListValues : ListContains(node, PlainList, v) <=> v \in ToSet(seq)
      /\ \A head \in Heads : ForEachDescending(node, head) = Reverse(ForEach(node, head))
      /\ used = UNION {ToSet(ForEach(node, head)) : head \in Heads}

(* map_get answers with the value last set and for no other key, whatever  *)
(* keys collide; map_size is the number of keys and map_get_keys lists     *)
(* each of them once; also after a clear that reads freed elements.        *)
MapIsItsFunction ==
  /\ \A key \in MapKeys :
       MapGet(key) = IF key \in DOMAIN dict THEN [found |-> TRUE, val |-> dict[key]]
                     ELSE [found |-> FALSE, val |-> 0]
  /\ size = Cardinality(DOMAIN dict)
  /\ ToSet(MapGetKeys) = DOMAIN dict /\ Len(MapGetKeys) = size
=============================================================================
