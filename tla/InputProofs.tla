---------------------------- MODULE InputProofs ----------------------------
(***************************************************************************)
(* Proofs about the input devices of Virtio, for every size of the queue,  *)
(* the ring and the events: each event comes out once, whole and in order. *)
(*                                                                         *)
(* The ring holds bytes and the driver moves them one by one, so the       *)
(* argument is that at every step the ring is a sequence of whole events.  *)
(* That is so because the ring's capacity is a multiple of an event's      *)
(* size: ring_push takes all the bytes of an event or none.  The other     *)
(* half is that the device is never given a buffer that the driver has yet *)
(* to read.                                                                *)
(***************************************************************************)
EXTENDS Virtio, SequenceLemmas

Places == 0 .. (QSize - 1)
Event == Nat \X {"syn", "key", "x", "y"}

InputState ==
  [idx : Nat, used : Nat, device_idx : Nat, buf : [Places -> Event],
   rb : Seq(Event \X Nat), lock : BOOLEAN, sent : Seq(Event), got : Seq(Event),
   lost : SUBSET Event]

(* The ring holds the events ev, each with its bytes in a row. *)
Holds(rb, ev) ==
  /\ Len(rb) = Len(ev) * EventBytes
  /\ \A j \in 1 .. Len(ev), i \in 1 .. EventBytes :
       rb[(j - 1) * EventBytes + i] = <<ev[j], i>>

(* The event that the bytes p make up. *)
EventOf(p) == IF \A i \in DOMAIN p : p[i] = <<p[1][1], i>> THEN p[1][1] ELSE NoEvent

(* A device's state after a turn of input_handle. *)
AfterHandling(r) ==
  LET e == r.buf[r.device_idx % QSize]
      pushed == IF NotSyn(e) THEN PushEvent(r.rb, e) ELSE r.rb
  IN [r EXCEPT !.device_idx = r.device_idx + 1, !.idx = r.idx + 1, !.rb = pushed,
               !.lost = IF NotSyn(e) /\ pushed = r.rb THEN r.lost \cup {e} ELSE r.lost]

(* t is what came of the events handled so far. *)
Handled(r) == {r.sent[k] : k \in 1 .. r.device_idx}
Kept(r) == {e \in Handled(r) : NotSyn(e) /\ e \notin r.lost}
Rising(t) == \A j, k \in 1 .. Len(t) : j < k => t[j][1] < t[k][1]
InOrder(r, t) == {t[k] : k \in 1 .. Len(t)} = Kept(r) /\ Rising(t)

(* The indexes of the driver and the device.  The driver gives a buffer    *)
(* back only when it has read it.                                          *)
IndexOK(r) ==
  /\ r.device_idx <= r.used /\ r.used <= r.idx
  /\ r.idx = r.device_idx + QSize \/ (r.idx = 0 /\ r.device_idx = 0)
  /\ Len(r.sent) = r.used

(* The events are numbered, and those not yet handled are in the buffers. *)
SentOK(r) ==
  /\ \A k \in 1 .. r.used : r.sent[k][1] = k
  /\ \A k \in (r.device_idx + 1) .. r.used : r.buf[(k - 1) % QSize] = r.sent[k]
  /\ \A e \in r.lost : e[1] <= r.device_idx

RingOK(r) ==
  /\ Len(r.rb) <= RingBytes
  /\ \E ev \in Seq(Event) : Holds(r.rb, ev) /\ InOrder(r, r.got \o ev)

InputOK(r) == r \in InputState /\ IndexOK(r) /\ SentOK(r) /\ RingOK(r)

InputInv ==
  /\ DOMAIN input = Inputs
  /\ \A d \in Inputs : InputOK(input[d]) /\ (d \notin ready => input[d].idx = 0)

-----------------------------------------------------------------------------
(* Arithmetic. *)

(* The bytes of the first m events are the first m * b bytes. *)
LEMMA EventPlaces ==
  ASSUME NEW b \in Nat \ {0}, NEW m \in Nat, NEW j \in 1 .. m, NEW i \in 1 .. b
  PROVE  (j - 1) * b + i \in 1 .. (m * b)
<1>1. (m - j) * b >= 0 /\ (j - 1) * b >= 0
  OBVIOUS
<1>2. m * b = (m - j) * b + j * b /\ (j - 1) * b = j * b - b
  OBVIOUS
<1>a. m * b \in Nat /\ (j - 1) * b \in Int /\ j * b \in Int /\ (m - j) * b \in Int
  OBVIOUS
<1>3. QED
  BY <1>1, <1>2, <1>a
(* One more event. *)
LEMMA OneMore ==
  ASSUME NEW b \in Nat \ {0}, NEW m \in Nat
  PROVE  (m + 1) * b = m * b + b /\ m * b \in Nat
  OBVIOUS
(* A ring that holds whole events is full or has room for another one. *)
LEMMA RoomOrFull ==
  ASSUME NEW b \in Nat \ {0}, NEW m \in Nat, NEW c \in Nat, c % b = 0, m * b <= c
  PROVE  m * b = c \/ m * b + b <= c
<1>1. PICK k \in Nat : c = k * b
  OBVIOUS
<1>2. m <= k
 <2>1. ASSUME m >= k + 1 PROVE FALSE
  <3>1. (m - k - 1) * b >= 0 
    BY <2>1
  <3>2. m * b = (m - k - 1) * b + k * b + b
    OBVIOUS
  <3>3. QED BY <3>1, <3>2, <1>1
 <2> QED BY <2>1
<1>3. CASE m = k
  BY <1>1, <1>3
<1>4. CASE m < k
  <2>1. (k - m - 1) * b >= 0 
    BY <1>4
  <2>2. k * b = (k - m - 1) * b + m * b + b
    OBVIOUS
  <2>3. QED BY <2>1, <2>2, <1>1
<1>5. QED BY <1>2, <1>3, <1>4
(* The number of whole events. *)
LEMMA WholeEvents ==
  ASSUME NEW b \in Nat \ {0}, NEW m \in Nat
  PROVE  (m * b) \div b = m
  OBVIOUS
(* Two indexes that are less than a turn apart have different places. *)
LEMMA PlacesDiffer ==
  ASSUME NEW q \in Nat \ {0}, NEW i \in Nat, NEW j \in Nat, i < j, j < i + q
  PROVE  i % q # j % q
<1> SUFFICES ASSUME i % q = j % q PROVE FALSE
  OBVIOUS
<1>1. PICK a \in Nat, c \in Nat, r \in Nat : i = a * q + r /\ j = c * q + r
  <2>1. i = (i \div q) * q + (i % q) /\ j = (j \div q) * q + (j % q)
    OBVIOUS
  <2>2. i \div q \in Nat /\ j \div q \in Nat /\ i % q \in Nat
    OBVIOUS
  <2>3. QED
    BY <2>1, <2>2
<1>2. CASE c <= a
  <2>1. (a - c) * q >= 0 /\ a * q = (a - c) * q + c * q
    BY <1>2
  <2>2. QED
    BY <1>1, <2>1
<1>3. CASE c > a
  <2>1. (c - a - 1) * q >= 0 /\ c * q = (c - a - 1) * q + a * q + q
    BY <1>3
  <2>2. QED
    BY <1>1, <2>1
<1>4. QED
  BY <1>2, <1>3

-----------------------------------------------------------------------------
(* The ring. *)

(* The assumptions on the constants, as the proofs use them. *)
LEMMA Constants ==
  /\ QSize \in Nat \ {0} /\ RingBytes \in Nat /\ EventBytes \in Nat \ {0}
  /\ RingBytes % EventBytes = 0
  BY VirtioAssumption

(* The recursive function in PushEvent exists and is what it is defined    *)
(* as.                                                                     *)
LEMMA PushRecursion ==
  ASSUME NEW rb, NEW e
  PROVE  \E m : /\ m = [i \in 0 .. EventBytes |-> IF i = 0 THEN rb ELSE RingPush(m[i - 1], <<e, i>>)]
                /\ PushEvent(rb, e) = m[EventBytes]
<1> DEFINE Def(m, n) == [i \in 0 .. n |-> IF i = 0 THEN rb ELSE RingPush(m[i - 1], <<e, i>>)]
           T == {n \in 0 .. EventBytes : \E m : m = Def(m, n)}
<1>0. EventBytes \in Nat
  BY Constants
<1>1. 0 \in T
  <2> DEFINE m == [k \in 0 .. 0 |-> rb]
  <2>1. m = Def(m, 0)
    OBVIOUS
  <2>2. 0 \in 0 .. EventBytes
    BY <1>0
  <2> HIDE DEF m, Def
  <2>3. QED
    BY <2>1, <2>2
<1>2. ASSUME NEW n \in 1 .. EventBytes, n - 1 \in T PROVE n \in T
  <2>1. PICK m : m = Def(m, n - 1)
    BY <1>2
  <2> DEFINE mm == [k \in 0 .. n |-> IF k < n THEN m[k] ELSE RingPush(m[n - 1], <<e, n>>)]
  <2>2. ASSUME NEW k \in 0 .. n
        PROVE  mm[k] = IF k = 0 THEN rb ELSE RingPush(mm[k - 1], <<e, k>>)
    <3>1. n \in Nat /\ n >= 1 /\ k \in Nat /\ k <= n
      BY <1>0
    <3>2. CASE k = 0
      <4>1. 0 \in 0 .. (n - 1) /\ mm[0] = m[0]
        BY <3>1
      <4>2. QED
        BY <2>1, <3>2, <4>1
    <3>3. CASE k # 0 /\ k < n
      <4>1. k \in 0 .. (n - 1) /\ k - 1 \in 0 .. n /\ k - 1 < n
        BY <3>1, <3>3
      <4>2. mm[k] = m[k] /\ mm[k - 1] = m[k - 1]
        BY <3>3, <4>1
      <4>3. m[k] = RingPush(m[k - 1], <<e, k>>)
        BY <2>1, <3>3, <4>1
      <4>4. QED
        BY <3>3, <4>2, <4>3
    <3>4. CASE k = n
      <4>1. n - 1 \in 0 .. n /\ n - 1 < n
        BY <3>1
      <4>2. mm[n - 1] = m[n - 1] /\ mm[n] = RingPush(m[n - 1], <<e, n>>)
        BY <3>1, <4>1
      <4>3. QED
        BY <3>1, <3>4, <4>2
    <3>5. QED
      BY <3>1, <3>2, <3>3, <3>4
  <2>3. mm = Def(mm, n)
    <3>1. Def(mm, n) = [k \in 0 .. n |-> mm[k]]
      BY <2>2
    <3>2. QED
      BY <3>1
  <2>4. n \in 0 .. EventBytes
    BY <1>0
  <2> HIDE DEF mm, Def
  <2>5. QED
    BY <2>3, <2>4
<1>3. EventBytes \in T
  <2> HIDE DEF T
  <2>1. \A k \in 0 .. EventBytes : k \in T
    BY <1>0, <1>1, <1>2, IntervalInduction
  <2>2. QED
    BY <1>0, <2>1
<1>4. \E m : m = Def(m, EventBytes)
  BY <1>3
<1> DEFINE pushed == CHOOSE m : m = Def(m, EventBytes)
<1>5. pushed = Def(pushed, EventBytes)
  BY <1>4
<1>6. PushEvent(rb, e) = pushed[EventBytes]
  BY DEF PushEvent
<1>7. QED
  BY <1>5, <1>6

(* ring_push of the bytes of an event: with room for all of them they go   *)
(* to the end of the ring in their order; a full ring stays as it is.      *)
LEMMA PushBytes ==
  ASSUME NEW rb \in Seq(Event \X Nat), NEW e \in Event
  PROVE  /\ Len(rb) >= RingBytes => PushEvent(rb, e) = rb
         /\ Len(rb) + EventBytes <= RingBytes =>
              /\ PushEvent(rb, e) \in Seq(Event \X Nat)
              /\ Len(PushEvent(rb, e)) = Len(rb) + EventBytes
              /\ \A i \in 1 .. Len(rb) : PushEvent(rb, e)[i] = rb[i]
              /\ \A i \in 1 .. EventBytes : PushEvent(rb, e)[Len(rb) + i] = <<e, i>>
<1>0. PICK n \in Nat : n = Len(rb)
  OBVIOUS
<1>1. PICK m : /\ m = [i \in 0 .. EventBytes |-> IF i = 0 THEN rb ELSE RingPush(m[i - 1], <<e, i>>)]
               /\ PushEvent(rb, e) = m[EventBytes]
  BY PushRecursion
<1>2. EventBytes \in Nat /\ RingBytes \in Nat /\ EventBytes \in 0 .. EventBytes
  BY Constants
<1>3. m[0] = rb /\ \A k \in 1 .. EventBytes : m[k] = RingPush(m[k - 1], <<e, k>>)
  BY <1>1, <1>2
<1>4. ASSUME n >= RingBytes PROVE m[EventBytes] = rb
  <2> DEFINE T == {k \in 0 .. EventBytes : m[k] = rb}
  <2>1. 0 \in T
    BY <1>2, <1>3
  <2>2. ASSUME NEW k \in 1 .. EventBytes, k - 1 \in T PROVE k \in T
    <3>1. m[k - 1] = rb /\ Len(rb) >= RingBytes /\ k \in 0 .. EventBytes
      BY <1>0, <1>2, <1>4, <2>2
    <3>2. m[k] = RingPush(rb, <<e, k>>)
      BY <1>3, <3>1
    <3>3. QED
      BY <3>1, <3>2 DEF RingPush
  <2>3. \A k \in 0 .. EventBytes : k \in T
    <3> HIDE DEF T
    <3>1. QED
      BY <1>2, <2>1, <2>2, IntervalInduction
  <2>4. QED
    BY <1>2, <2>3
<1>5. ASSUME n + EventBytes <= RingBytes
      PROVE  /\ m[EventBytes] \in Seq(Event \X Nat)
             /\ Len(m[EventBytes]) = n + EventBytes
             /\ \A i \in 1 .. n : m[EventBytes][i] = rb[i]
             /\ \A i \in 1 .. EventBytes : m[EventBytes][n + i] = <<e, i>>
  <2> DEFINE Good(k) == /\ m[k] \in Seq(Event \X Nat)
                        /\ Len(m[k]) = n + k
                        /\ \A i \in 1 .. n : m[k][i] = rb[i]
                        /\ \A i \in 1 .. k : m[k][n + i] = <<e, i>>
             T == {k \in 0 .. EventBytes : Good(k)}
  <2>1. 0 \in T
    <3>1. Good(0)
      BY <1>0, <1>3
    <3>2. QED
      BY <1>2, <3>1
  <2>2. ASSUME NEW k \in 1 .. EventBytes, k - 1 \in T PROVE k \in T
    <3>0. k \in Nat /\ k >= 1 /\ k <= EventBytes /\ k \in 0 .. EventBytes
      BY <1>2
    <3>a. Good(k - 1)
      BY <2>2
    <3>1. Good(k - 1) /\ <<e, k>> \in Event \X Nat
      BY <3>0, <3>a
    <3>2. PICK s : s = m[k - 1]
      OBVIOUS
    <3>3. /\ s \in Seq(Event \X Nat) /\ Len(s) = n + (k - 1)
          /\ \A i \in 1 .. n : s[i] = rb[i]
          /\ \A i \in 1 .. (k - 1) : s[n + i] = <<e, i>>
      BY <3>1, <3>2
    <3>4. m[k] = Append(s, <<e, k>>)
      <4>1. ~(Len(s) >= RingBytes)
        BY <1>2, <1>5, <3>0, <3>3
      <4>2. QED
        BY <1>3, <3>0, <3>2, <4>1 DEF RingPush
    <3>5. /\ m[k] \in Seq(Event \X Nat) /\ Len(m[k]) = n + k
          /\ \A i \in 1 .. (n + k - 1) : m[k][i] = s[i]
          /\ m[k][n + k] = <<e, k>>
      <4>1. /\ Append(s, <<e, k>>) \in Seq(Event \X Nat)
            /\ Len(Append(s, <<e, k>>)) = Len(s) + 1
            /\ \A i \in 1 .. Len(s) : Append(s, <<e, k>>)[i] = s[i]
            /\ Append(s, <<e, k>>)[Len(s) + 1] = <<e, k>>
        BY <3>1, <3>3, AppendProperties
      <4>2. Len(s) + 1 = n + k /\ Len(s) = n + k - 1
        BY <3>0, <3>3
      <4>3. QED
        BY <3>4, <4>1, <4>2
    <3> HIDE DEF T
    <3>6. \A i \in 1 .. n : m[k][i] = rb[i]
      BY <3>0, <3>3, <3>5
    <3>7. ASSUME NEW i \in 1 .. k PROVE m[k][n + i] = <<e, i>>
      <4>1. CASE i = k
        BY <3>5, <4>1
      <4>2. CASE i # k
        <5>1. i \in 1 .. (k - 1) /\ n + i \in 1 .. (n + k - 1)
          BY <3>0, <4>2
        <5>2. QED
          BY <3>3, <3>5, <5>1
      <4>3. QED
        BY <4>1, <4>2
    <3>8. Good(k)
      BY <3>5, <3>6, <3>7
    <3>9. QED
      BY <3>0, <3>8 DEF T
  <2>3. \A k \in 0 .. EventBytes : k \in T
    <3> HIDE DEF T
    <3>1. QED
      BY <1>2, <2>1, <2>2, IntervalInduction
  <2>4. QED
    BY <1>2, <2>3
<1>6. QED
  BY <1>0, <1>1, <1>4, <1>5

(* An event is pushed whole or not at all. *)
LEMMA PushWhole ==
  ASSUME NEW rb \in Seq(Event \X Nat), NEW ev \in Seq(Event), NEW e \in Event,
         Holds(rb, ev), Len(rb) <= RingBytes
  PROVE  \/ PushEvent(rb, e) = rb
         \/ /\ PushEvent(rb, e) # rb
            /\ PushEvent(rb, e) \in Seq(Event \X Nat)
            /\ Len(PushEvent(rb, e)) <= RingBytes
            /\ Holds(PushEvent(rb, e), Append(ev, e))
<1> DEFINE new == PushEvent(rb, e)
           m == Len(ev)
           one == Append(ev, e)
<1>0. m \in Nat /\ EventBytes \in Nat \ {0} /\ RingBytes \in Nat /\ Len(rb) = m * EventBytes
  BY Constants DEF Holds
<1>1. Len(rb) \in Nat /\ (Len(rb) >= RingBytes \/ Len(rb) + EventBytes <= RingBytes)
  <2>1. m * EventBytes = RingBytes \/ m * EventBytes + EventBytes <= RingBytes
    <3> HIDE DEF m
    <3>1. QED
      BY <1>0, Constants, RoomOrFull
  <2>2. QED
    BY <1>0, <2>1
<1>2. CASE Len(rb) >= RingBytes
  BY <1>2, PushBytes
<1>3. CASE Len(rb) + EventBytes <= RingBytes
  <2>1. /\ new \in Seq(Event \X Nat) /\ Len(new) = Len(rb) + EventBytes
        /\ \A i \in 1 .. Len(rb) : new[i] = rb[i]
        /\ \A i \in 1 .. EventBytes : new[Len(rb) + i] = <<e, i>>
    BY <1>3, PushBytes
  <2>2. one \in Seq(Event) /\ Len(one) = m + 1 /\ (\A j \in 1 .. m : one[j] = ev[j]) /\ one[m + 1] = e
    BY AppendProperties
  <2> HIDE DEF new, m, one
  <2>3. Len(new) = (m + 1) * EventBytes
    BY <1>0, <2>1, OneMore
  <2>4. ASSUME NEW j \in 1 .. (m + 1), NEW i \in 1 .. EventBytes
        PROVE  new[(j - 1) * EventBytes + i] = <<one[j], i>>
    <3>1. CASE j <= m
      <4>1. j \in 1 .. m
        BY <1>0, <3>1
      <4>2. (j - 1) * EventBytes + i \in 1 .. (m * EventBytes)
        BY <1>0, <4>1, EventPlaces
      <4>3. new[(j - 1) * EventBytes + i] = rb[(j - 1) * EventBytes + i]
        BY <1>0, <2>1, <4>2
      <4>4. rb[(j - 1) * EventBytes + i] = <<ev[j], i>>
        BY <4>1 DEF Holds, m
      <4>5. QED
        BY <2>2, <4>1, <4>3, <4>4
    <3>2. CASE j = m + 1
      <4>1. (j - 1) * EventBytes + i = Len(rb) + i
        BY <1>0, <3>2
      <4>2. QED
        BY <2>1, <2>2, <3>2, <4>1
    <3>3. QED
      BY <1>0, <3>1, <3>2
  <2>5. new # rb
    BY <1>0, <2>1
  <2>6. Holds(new, one)
    BY <2>2, <2>3, <2>4 DEF Holds
  <2>7. Len(new) <= RingBytes
    BY <1>3, <2>1
  <2>8. QED
    BY <2>1, <2>5, <2>6, <2>7 DEF new, one
<1>4. QED
  BY <1>1, <1>2, <1>3

(* ring_pop takes the first event whole and leaves the others. *)
LEMMA PopWhole ==
  ASSUME NEW rb \in Seq(Event \X Nat), NEW ev \in Seq(Event),
         Holds(rb, ev), rb # << >>
  PROVE  /\ ev # << >>
         /\ DOMAIN Popped(rb) = 1 .. EventBytes
         /\ \A i \in 1 .. EventBytes : Popped(rb)[i] = <<ev[1], i>>
         /\ PopBytes(rb) \in Seq(Event \X Nat)
         /\ Len(PopBytes(rb)) <= Len(rb)
         /\ Holds(PopBytes(rb), Tail(ev))
<1> DEFINE m == Len(ev)
           new == PopBytes(rb)
           p == Popped(rb)
           rest == Tail(ev)
<1>0. /\ m \in Nat /\ EventBytes \in Nat \ {0} /\ Len(rb) = m * EventBytes
      /\ Len(rb) \in Nat /\ Len(rb) # 0
  BY Constants, EmptySeq DEF Holds
<1>1. m >= 1 /\ ev # << >>
  <2>1. m # 0
    <3> HIDE DEF m
    <3>1. QED
      BY <1>0
  <2>2. QED
    BY <1>0, <2>1
<1>2. rest \in Seq(Event) /\ Len(rest) = m - 1 /\ \A j \in 1 .. (m - 1) : rest[j] = ev[j + 1]
  BY <1>1, HeadTailProperties
<1>3. PICK len \in Nat : len = Len(rb)
  OBVIOUS
<1>4. \A i \in 1 .. len : rb[i] \in Event \X Nat
  BY <1>3, ElementOfSeq
<1>5. PICK k \in Nat : k = m - 1
  <2> HIDE DEF m
  <2>1. m - 1 \in Nat
    BY <1>0, <1>1
  <2>2. QED
    BY <2>1
<1>6. k * EventBytes \in Nat /\ len = k * EventBytes + EventBytes
  <2> HIDE DEF m
  <2>1. m = k + 1
    BY <1>0, <1>5
  <2>2. QED
    BY <1>0, <1>3, <2>1, OneMore
<1>7. /\ new \in Seq(Event \X Nat) /\ Len(new) = k * EventBytes
      /\ \A i \in 1 .. (k * EventBytes) : new[i] = rb[EventBytes + i]
  <2>1. PICK a \in Nat : a = k * EventBytes
    BY <1>6
  <2>2. len = a + EventBytes /\ new = SubSeq(rb, EventBytes + 1, len)
    BY <1>3, <1>6, <2>1 DEF PopBytes
  <2>3. \A i \in (EventBytes + 1) .. len : rb[i] \in Event \X Nat
    BY <1>0, <1>4
  <2>4. /\ SubSeq(rb, EventBytes + 1, len) \in Seq(Event \X Nat)
        /\ Len(SubSeq(rb, EventBytes + 1, len)) = IF EventBytes + 1 <= len THEN len - (EventBytes + 1) + 1 ELSE 0
        /\ \A i \in 1 .. (len - (EventBytes + 1) + 1) : SubSeq(rb, EventBytes + 1, len)[i] = rb[(EventBytes + 1) + i - 1]
    BY <1>0, <2>3, SubSeqProperties
  <2> HIDE DEF new
  <2>5. len - (EventBytes + 1) + 1 = a /\ \A i \in 1 .. a : (EventBytes + 1) + i - 1 = EventBytes + i
    BY <1>0, <2>2
  <2>6. QED
    BY <1>0, <2>1, <2>2, <2>4, <2>5
<1>8. /\ DOMAIN p = 1 .. EventBytes
      /\ \A i \in 1 .. EventBytes : p[i] = rb[i]
  <2>1. \A i \in 1 .. EventBytes : rb[i] \in Event \X Nat
    <3>1. EventBytes <= len
      BY <1>0, <1>6
    <3>2. QED
      BY <1>0, <1>4, <3>1
  <2>2. /\ SubSeq(rb, 1, EventBytes) \in Seq(Event \X Nat)
        /\ Len(SubSeq(rb, 1, EventBytes)) = IF 1 <= EventBytes THEN EventBytes - 1 + 1 ELSE 0
        /\ \A i \in 1 .. (EventBytes - 1 + 1) : SubSeq(rb, 1, EventBytes)[i] = rb[1 + i - 1]
    BY <1>0, <2>1, SubSeqProperties
  <2>3. p \in Seq(Event \X Nat) /\ Len(p) = EventBytes
    BY <1>0, <2>2 DEF Popped
  <2>4. DOMAIN p = 1 .. EventBytes
    BY <2>3, LenProperties
  <2>5. QED
    BY <1>0, <2>2, <2>4 DEF Popped
<1>9. ASSUME NEW i \in 1 .. EventBytes PROVE p[i] = <<ev[1], i>>
  <2>1. (1 - 1) * EventBytes + i = i /\ 1 \in 1 .. Len(ev)
    BY <1>0, <1>1
  <2>2. QED
    BY <1>8, <2>1 DEF Holds
<1> HIDE DEF new, p, rest, m
<1>10. ASSUME NEW j \in 1 .. k, NEW i \in 1 .. EventBytes
       PROVE  new[(j - 1) * EventBytes + i] = <<rest[j], i>>
  <2>1. (j - 1) * EventBytes + i \in 1 .. (k * EventBytes)
    BY <1>0, EventPlaces
  <2>2. EventBytes + ((j - 1) * EventBytes + i) = ((j + 1) - 1) * EventBytes + i
    BY <1>0
  <2>3. j + 1 \in 1 .. Len(ev) /\ j \in 1 .. (m - 1)
    BY <1>0, <1>5 DEF m
  <2>4. rb[((j + 1) - 1) * EventBytes + i] = <<ev[j + 1], i>>
    BY <2>3 DEF Holds
  <2>5. QED
    BY <1>2, <1>7, <2>1, <2>2, <2>3, <2>4
<1>11. Holds(new, rest)
  <2>1. Len(rest) = k
    BY <1>2, <1>5
  <2>2. QED
    BY <1>7, <1>10, <2>1 DEF Holds
<1>12. Len(new) <= Len(rb)
  <2>1. k * EventBytes <= len
    BY <1>0, <1>6
  <2>2. QED
    BY <1>3, <1>7, <2>1
<1>13. QED
  BY <1>1, <1>7, <1>8, <1>9, <1>11, <1>12 DEF new, p, rest

-----------------------------------------------------------------------------
(* One input device. *)

(* A later event goes to the end. *)
LEMMA LaterEvent ==
  ASSUME NEW t \in Seq(Event), NEW e \in Event, Rising(t),
         \A k \in 1 .. Len(t) : t[k][1] < e[1]
  PROVE  /\ {Append(t, e)[k] : k \in 1 .. Len(Append(t, e))} = {t[k] : k \in 1 .. Len(t)} \cup {e}
         /\ Rising(Append(t, e))
<1>1. PICK n \in Nat : n = Len(t)
  OBVIOUS
<1>2. PICK u : u = Append(t, e)
  OBVIOUS
<1>3. Len(u) = n + 1 /\ (\A i \in 1 .. n : u[i] = t[i]) /\ u[n + 1] = e
  BY <1>1, <1>2, AppendProperties
<1>4. 1 .. (n + 1) = 1 .. n \cup {n + 1}
  OBVIOUS
<1>5. {u[k] : k \in 1 .. (n + 1)} = {t[k] : k \in 1 .. n} \cup {e}
  BY <1>3, <1>4
<1>6. ASSUME NEW j \in 1 .. (n + 1), NEW k \in 1 .. (n + 1), j < k PROVE u[j][1] < u[k][1]
  <2>1. j \in 1 .. n
    BY <1>6
  <2>2. CASE k \in 1 .. n
    BY <1>1, <1>3, <1>6, <2>1, <2>2 DEF Rising
  <2>3. CASE k = n + 1
    BY <1>1, <1>3, <2>1, <2>3
  <2>4. QED
    BY <1>4, <2>2, <2>3
<1>7. QED
  BY <1>1, <1>2, <1>3, <1>5, <1>6 DEF Rising

(* What a state of a device consists of. *)
LEMMA InputFields ==
  ASSUME NEW r \in InputState
  PROVE  /\ r.idx \in Nat /\ r.used \in Nat /\ r.device_idx \in Nat
         /\ r.buf \in [Places -> Event] /\ r.rb \in Seq(Event \X Nat)
         /\ r.sent \in Seq(Event) /\ r.got \in Seq(Event) /\ r.lost \in SUBSET Event
  BY DEF InputState

(* The lock does not matter. *)
LEMMA SameInput ==
  ASSUME NEW r, InputOK(r), NEW r2 \in InputState,
         r2.idx = r.idx, r2.used = r.used, r2.device_idx = r.device_idx, r2.buf = r.buf,
         r2.rb = r.rb, r2.sent = r.sent, r2.got = r.got, r2.lost = r.lost
  PROVE  InputOK(r2)
<1>1. Kept(r2) = Kept(r)
  BY DEF Kept, Handled
<1>2. \A t : InOrder(r2, t) = InOrder(r, t)
  BY <1>1 DEF InOrder
<1>3. RingOK(r2)
  BY <1>2 DEF InputOK, RingOK
<1>4. IndexOK(r2) /\ SentOK(r2)
  BY DEF InputOK, IndexOK, SentOK
<1>5. QED
  BY <1>3, <1>4 DEF InputOK

(* input_init gives the device all the buffers. *)
LEMMA FirstBuffers ==
  ASSUME NEW r, InputOK(r), r.idx = 0
  PROVE  InputOK([r EXCEPT !.idx = QSize])
<1> DEFINE r2 == [r EXCEPT !.idx = QSize]
<1>1. QSize \in Nat /\ r \in InputState
  BY Constants DEF InputOK
<1>2. /\ r2 \in InputState /\ r2.idx = QSize /\ r2.used = r.used /\ r2.device_idx = r.device_idx
      /\ r2.buf = r.buf /\ r2.rb = r.rb /\ r2.sent = r.sent /\ r2.got = r.got /\ r2.lost = r.lost
  BY <1>1 DEF InputState
<1> HIDE DEF r2
<1>3. Kept(r2) = Kept(r)
  BY <1>2 DEF Kept, Handled
<1>4. \A t : InOrder(r2, t) = InOrder(r, t)
  BY <1>3 DEF InOrder
<1>5. RingOK(r2)
  BY <1>2, <1>4 DEF InputOK, RingOK
<1>6. IndexOK(r2)
  BY <1>1, <1>2, InputFields DEF InputOK, IndexOK
<1>7. SentOK(r2)
  BY <1>2 DEF InputOK, SentOK
<1>8. QED
  BY <1>2, <1>5, <1>6, <1>7 DEF InputOK, r2

(* The device fills a buffer whose event, if any, the driver has read. *)
LEMMA DeviceFills ==
  ASSUME NEW r, InputOK(r), r.used < r.idx, NEW e \in Event, e[1] = Len(r.sent) + 1
  PROVE  InputOK([r EXCEPT !.buf = [r.buf EXCEPT ![r.used % QSize] = e],
                           !.used = r.used + 1, !.sent = Append(r.sent, e)])
<1> DEFINE buf == [r.buf EXCEPT ![r.used % QSize] = e]
           sent == Append(r.sent, e)
           r2 == [r EXCEPT !.buf = buf, !.used = r.used + 1, !.sent = sent]
<1>1. QSize \in Nat \ {0} /\ r \in InputState
  BY Constants DEF InputOK
<1>2. PICK q \in Nat \ {0} : q = QSize
  BY <1>1
<1>3. PICK a, u, x \in Nat : a = r.device_idx /\ u = r.used /\ x = r.idx
  BY <1>1, InputFields
<1>4. a <= u /\ u < x /\ x = a + q /\ Len(r.sent) = u
  BY <1>2, <1>3 DEF InputOK, IndexOK
<1>5. /\ sent \in Seq(Event) /\ Len(sent) = u + 1
      /\ \A k \in 1 .. u : sent[k] = r.sent[k]
      /\ sent[u + 1] = e
  BY <1>1, <1>4, InputFields, AppendProperties
<1>6. u % q \in 0 .. (q - 1)
  OBVIOUS
<1>7. buf \in [Places -> Event]
  BY <1>1, <1>2, <1>3, <1>6, InputFields DEF Places
<1>8. buf[u % q] = e /\ \A k \in Places : k # u % q => buf[k] = r.buf[k]
  BY <1>1, <1>2, <1>3, <1>6, InputFields DEF Places
<1> HIDE DEF buf, sent
<1>9. r.used + 1 \in Nat
  BY <1>3
<1>10. /\ r2 \in InputState /\ r2.idx = r.idx /\ r2.used = r.used + 1
       /\ r2.device_idx = r.device_idx /\ r2.buf = buf /\ r2.rb = r.rb /\ r2.sent = sent
       /\ r2.got = r.got /\ r2.lost = r.lost
  BY <1>1, <1>5, <1>7, <1>9 DEF InputState
<1> HIDE DEF r2
<1>11. Kept(r2) = Kept(r)
  <2>1. \A k \in 1 .. a : k \in 1 .. u
    BY <1>4
  <2>2. Handled(r2) = Handled(r)
    BY <1>3, <1>5, <1>10, <2>1 DEF Handled
  <2>3. QED
    BY <1>10, <2>2 DEF Kept
<1>12. RingOK(r2)
  <2>1. \A t : InOrder(r2, t) = InOrder(r, t)
    BY <1>11 DEF InOrder
  <2>2. QED
    BY <1>10, <2>1 DEF InputOK, RingOK
<1>13. IndexOK(r2)
  <2>1. r2.device_idx = a /\ r2.used = u + 1 /\ r2.idx = x /\ Len(r2.sent) = u + 1
    BY <1>3, <1>5, <1>10
  <2>2. a <= u + 1 /\ u + 1 <= x
    BY <1>4
  <2>3. QED
    BY <1>2, <1>4, <2>1, <2>2 DEF IndexOK
<1>14. SentOK(r2)
  <2>1. ASSUME NEW k \in 1 .. (u + 1) PROVE sent[k][1] = k
    <3>1. CASE k = u + 1
      BY <1>4, <1>5, <3>1
    <3>2. CASE k # u + 1
      <4>1. k \in 1 .. u
        BY <3>2
      <4>2. QED
        BY <1>3, <1>5, <4>1 DEF InputOK, SentOK
    <3>3. QED
      BY <3>1, <3>2
  <2>2. ASSUME NEW k \in (a + 1) .. (u + 1) PROVE buf[(k - 1) % q] = sent[k]
    <3>1. CASE k = u + 1
      BY <1>5, <1>8, <3>1
    <3>2. CASE k # u + 1
      <4>1. k \in (a + 1) .. u /\ k \in 1 .. u /\ k - 1 \in Nat /\ k - 1 < u /\ u < (k - 1) + q
        BY <1>4, <3>2
      <4>2. PICK j \in Nat : j = k - 1
        BY <4>1
      <4>3. j % q # u % q
        BY <4>1, <4>2, PlacesDiffer
      <4>4. j % q \in 0 .. (q - 1)
        OBVIOUS
      <4>5. buf[j % q] = r.buf[j % q]
        BY <1>2, <1>8, <4>3, <4>4 DEF Places
      <4>6. r.buf[(k - 1) % q] = r.sent[k]
        BY <1>2, <1>3, <4>1 DEF InputOK, SentOK
      <4>7. QED
        BY <1>5, <4>1, <4>2, <4>5, <4>6
    <3>3. QED
      BY <3>1, <3>2
  <2>3. \A l \in r.lost : l[1] <= a
    BY <1>3 DEF InputOK, SentOK
  <2>4. QED
    BY <1>2, <1>3, <1>10, <2>1, <2>2, <2>3 DEF SentOK
<1>15. QED
  BY <1>10, <1>12, <1>13, <1>14 DEF InputOK, r2, buf, sent

(* input_handle moves the event of the next buffer into the ring, drops it *)
(* if it is a sync and loses it if the ring is full.                       *)
LEMMA DriverHandles ==
  ASSUME NEW r, InputOK(r), r.device_idx # r.used
  PROVE  InputOK(AfterHandling(r))
<1>e. PICK e : e = r.buf[r.device_idx % QSize]
  OBVIOUS
<1>p. PICK pushed : pushed = IF NotSyn(e) THEN PushEvent(r.rb, e) ELSE r.rb
  OBVIOUS
<1> DEFINE lost == IF NotSyn(e) /\ pushed = r.rb THEN r.lost \cup {e} ELSE r.lost
           r2 == [r EXCEPT !.device_idx = r.device_idx + 1, !.idx = r.idx + 1, !.rb = pushed,
                           !.lost = lost]
<1>0. AfterHandling(r) = r2
  BY <1>e, <1>p DEF AfterHandling
<1>1. QSize \in Nat \ {0} /\ r \in InputState
  BY Constants DEF InputOK
<1>2. PICK q \in Nat \ {0} : q = QSize
  BY <1>1
<1>3. PICK a, u, x \in Nat : a = r.device_idx /\ u = r.used /\ x = r.idx
  BY <1>1, InputFields
<1>4. a < u /\ u <= x /\ x = a + q /\ Len(r.sent) = u
  BY <1>2, <1>3 DEF InputOK, IndexOK
<1>5. e = r.sent[a + 1] /\ e \in Event /\ e[1] = a + 1
  <2>1. a + 1 \in (a + 1) .. u /\ a + 1 \in 1 .. u /\ (a + 1) - 1 = a
    BY <1>4
  <2>2. r.buf[((a + 1) - 1) % q] = r.sent[a + 1]
    BY <1>2, <1>3, <2>1 DEF InputOK, SentOK
  <2>3. e = r.sent[a + 1]
    BY <1>e, <1>2, <1>3, <2>1, <2>2
  <2>4. r.sent[a + 1] \in Event
    BY <1>1, <1>4, <2>1, InputFields, ElementOfSeq
  <2>5. r.sent[a + 1][1] = a + 1
    BY <1>3, <2>1 DEF InputOK, SentOK
  <2>6. QED
    BY <2>3, <2>4, <2>5
<1>6. PICK ev \in Seq(Event) : Holds(r.rb, ev) /\ InOrder(r, r.got \o ev)
  BY DEF InputOK, RingOK
<1>7. Len(r.rb) <= RingBytes
  BY DEF InputOK, RingOK
<1>8. \/ PushEvent(r.rb, e) = r.rb
      \/ /\ PushEvent(r.rb, e) # r.rb
         /\ PushEvent(r.rb, e) \in Seq(Event \X Nat)
         /\ Len(PushEvent(r.rb, e)) <= RingBytes
         /\ Holds(PushEvent(r.rb, e), Append(ev, e))
  BY <1>1, <1>5, <1>6, <1>7, InputFields, PushWhole
<1>9. /\ pushed \in Seq(Event \X Nat) /\ Len(pushed) <= RingBytes
      /\ \/ NotSyn(e) /\ pushed # r.rb /\ Holds(pushed, Append(ev, e))
         \/ ~NotSyn(e) /\ pushed = r.rb
         \/ NotSyn(e) /\ pushed = r.rb
  BY <1>p, <1>1, <1>7, <1>8, InputFields
<1>10. lost \in SUBSET Event
  BY <1>1, <1>5, InputFields
<1> HIDE DEF lost
<1>11. r.device_idx + 1 \in Nat /\ r.idx + 1 \in Nat
  BY <1>3
<1>12. /\ r2 \in InputState /\ r2.idx = r.idx + 1 /\ r2.used = r.used
       /\ r2.device_idx = r.device_idx + 1 /\ r2.buf = r.buf /\ r2.rb = pushed
       /\ r2.sent = r.sent /\ r2.got = r.got /\ r2.lost = lost
  BY <1>1, <1>9, <1>10, <1>11 DEF InputState
<1> HIDE DEF r2
<1>13. IndexOK(r2)
  <2>1. r2.device_idx = a + 1 /\ r2.used = u /\ r2.idx = x + 1 /\ Len(r2.sent) = u
    BY <1>3, <1>4, <1>12
  <2>2. a + 1 <= u /\ u <= x + 1 /\ x + 1 = (a + 1) + q
    BY <1>4
  <2>3. QED
    BY <1>2, <2>1, <2>2 DEF IndexOK
<1>14. SentOK(r2)
  <2>1. \A k \in 1 .. u : r.sent[k][1] = k
    BY <1>3 DEF InputOK, SentOK
  <2>2. \A k \in ((a + 1) + 1) .. u : r.buf[(k - 1) % q] = r.sent[k]
    <3>1. \A k \in ((a + 1) + 1) .. u : k \in (a + 1) .. u
      OBVIOUS
    <3>2. QED
      BY <1>2, <1>3, <3>1 DEF InputOK, SentOK
  <2>3. ASSUME NEW l \in lost PROVE l[1] <= a + 1
    <3>1. CASE l \in r.lost
      <4>1. l[1] <= a /\ l \in Event
        BY <1>1, <1>3, <3>1, InputFields DEF InputOK, SentOK
      <4>2. l[1] \in Nat
        BY <4>1 DEF Event
      <4>3. QED
        BY <4>1, <4>2
    <3>2. CASE l = e
      BY <1>5, <3>2
    <3>3. QED
      BY <3>1, <3>2 DEF lost
  <2>4. QED
    BY <1>2, <1>3, <1>12, <2>1, <2>2, <2>3 DEF SentOK
<1>15. Handled(r2) = Handled(r) \cup {e}
  <2>1. 1 .. (a + 1) = 1 .. a \cup {a + 1}
    OBVIOUS
  <2>2. QED
    BY <1>3, <1>5, <1>12, <2>1 DEF Handled
<1>16. ASSUME NEW y \in Handled(r) PROVE y[1] \in Nat /\ y[1] <= a
  <2>1. PICK k \in 1 .. a : y = r.sent[k]
    BY <1>3 DEF Handled
  <2>2. k \in 1 .. u
    BY <1>4
  <2>3. QED
    BY <1>3, <2>1, <2>2 DEF InputOK, SentOK
<1>17. e \notin Handled(r)
  BY <1>5, <1>16
<1>18. e \notin r.lost
  BY <1>3, <1>5 DEF InputOK, SentOK
<1>19. RingOK(r2)
  <2>1. CASE NotSyn(e) /\ pushed # r.rb /\ Holds(pushed, Append(ev, e))
    <3>1. Kept(r2) = Kept(r) \cup {e}
      BY <1>12, <1>15, <1>18, <2>1 DEF Kept, lost
    <3>2. PICK t : t = r.got \o ev
      OBVIOUS
    <3>3. t \in Seq(Event) /\ r.got \o Append(ev, e) = Append(t, e)
      <4>1. r.got \in Seq(Event) /\ <<e>> \in Seq(Event)
        BY <1>1, <1>5, InputFields
      <4>2. Append(ev, e) = ev \o <<e>>
        BY <1>5, AppendIsConcat
      <4>3. t \in Seq(Event)
        BY <3>2, <4>1, ConcatProperties
      <4>4. Append(t, e) = t \o <<e>>
        BY <1>5, <4>3, AppendIsConcat
      <4>5. (r.got \o ev) \o <<e>> = r.got \o (ev \o <<e>>)
        <5>1. PICK s1, s2 \in Seq(Event) : s1 = r.got /\ s2 = <<e>>
          BY <4>1
        <5>2. (s1 \o ev) \o s2 = s1 \o (ev \o s2)
          BY ConcatAssociative
        <5>3. QED
          BY <5>1, <5>2
      <4>6. QED
        BY <3>2, <4>2, <4>3, <4>4, <4>5
    <3>4. {t[k] : k \in 1 .. Len(t)} = Kept(r) /\ Rising(t)
      BY <1>6, <3>2 DEF InOrder
    <3>5. \A k \in 1 .. Len(t) : t[k][1] < e[1]
      <4>1. ASSUME NEW k \in 1 .. Len(t) PROVE t[k][1] < e[1]
        <5>1. t[k] \in Handled(r)
          BY <3>4 DEF Kept
        <5>2. QED
          BY <1>5, <1>16, <5>1
      <4>2. QED
        BY <4>1
    <3>6. InOrder(r2, Append(t, e))
      BY <1>5, <3>1, <3>3, <3>4, <3>5, LaterEvent DEF InOrder
    <3>7. Append(ev, e) \in Seq(Event)
      BY <1>5, AppendProperties
    <3>8. QED
      BY <1>9, <1>12, <2>1, <3>3, <3>6, <3>7 DEF RingOK
  <2>2. CASE ~NotSyn(e) /\ pushed = r.rb
    <3>1. Kept(r2) = Kept(r)
      BY <1>12, <1>15, <2>2 DEF Kept, lost
    <3>2. QED
      BY <1>6, <1>9, <1>12, <2>2, <3>1 DEF RingOK, InOrder
  <2>3. CASE NotSyn(e) /\ pushed = r.rb
    <3>1. Kept(r2) = Kept(r)
      BY <1>12, <1>15, <1>17, <2>3 DEF Kept, lost
    <3>2. QED
      BY <1>6, <1>9, <1>12, <2>3, <3>1 DEF RingOK, InOrder
  <2>4. QED
    BY <1>9, <2>1, <2>2, <2>3
<1>20. QED
  BY <1>0, <1>12, <1>13, <1>14, <1>19 DEF InputOK

(* get_keyboard and get_cursor take the oldest event, and it is whole. *)
LEMMA DriverPops ==
  ASSUME NEW r, InputOK(r), r.rb # << >>, NEW p, p = Popped(r.rb),
         NEW e, e = EventOf(p)
  PROVE  InputOK([r EXCEPT !.rb = PopBytes(r.rb), !.got = Append(r.got, e)])
<1> DEFINE r2 == [r EXCEPT !.rb = PopBytes(r.rb), !.got = Append(r.got, e)]
<1>1. r \in InputState /\ EventBytes \in Nat \ {0}
  BY Constants DEF InputOK
<1>2. PICK ev \in Seq(Event) : Holds(r.rb, ev) /\ InOrder(r, r.got \o ev)
  BY DEF InputOK, RingOK
<1>3. /\ ev # << >>
      /\ DOMAIN p = 1 .. EventBytes
      /\ \A i \in 1 .. EventBytes : p[i] = <<ev[1], i>>
      /\ PopBytes(r.rb) \in Seq(Event \X Nat)
      /\ Len(PopBytes(r.rb)) <= Len(r.rb)
      /\ Holds(PopBytes(r.rb), Tail(ev))
  <2>1. PICK rb \in Seq(Event \X Nat) : rb = r.rb
    BY <1>1, InputFields
  <2>2. /\ ev # << >>
        /\ DOMAIN Popped(rb) = 1 .. EventBytes
        /\ \A i \in 1 .. EventBytes : Popped(rb)[i] = <<ev[1], i>>
        /\ PopBytes(rb) \in Seq(Event \X Nat)
        /\ Len(PopBytes(rb)) <= Len(rb)
        /\ Holds(PopBytes(rb), Tail(ev))
    BY <1>2, <2>1, PopWhole
  <2>3. QED
    BY <2>1, <2>2
<1>4. e = ev[1]
  <2>1. 1 \in 1 .. EventBytes
    BY <1>1
  <2>2. p[1][1] = ev[1]
    BY <1>3, <2>1
  <2>3. QED
    BY <1>3, <2>2 DEF EventOf
<1>5. PICK n \in Nat \ {0} : n = Len(ev)
  BY <1>3, EmptySeq
<1>6. e \in Event
  BY <1>4, <1>5, ElementOfSeq
<1>7. PICK g, rest : g = Append(r.got, e) /\ rest = Tail(ev)
  OBVIOUS
<1>8. PICK m \in Nat : m = Len(r.got)
  BY <1>1, InputFields
<1>9. /\ g \in Seq(Event) /\ Len(g) = m + 1
      /\ (\A i \in 1 .. m : g[i] = r.got[i]) /\ g[m + 1] = e
  BY <1>1, <1>6, <1>7, <1>8, InputFields, AppendProperties
<1>10. /\ rest \in Seq(Event) /\ Len(rest) = n - 1
       /\ \A i \in 1 .. (n - 1) : rest[i] = ev[i + 1]
  BY <1>3, <1>5, <1>7, HeadTailProperties
<1>11. g \o rest = r.got \o ev
  <2>1. /\ g \o rest \in Seq(Event) /\ Len(g \o rest) = (m + 1) + (n - 1)
        /\ \A i \in 1 .. ((m + 1) + (n - 1)) :
             (g \o rest)[i] = IF i <= m + 1 THEN g[i] ELSE rest[i - (m + 1)]
    <3>1. /\ g \o rest \in Seq(Event) /\ Len(g \o rest) = Len(g) + Len(rest)
          /\ \A i \in 1 .. (Len(g) + Len(rest)) :
               (g \o rest)[i] = IF i <= Len(g) THEN g[i] ELSE rest[i - Len(g)]
      BY <1>9, <1>10, ConcatProperties
    <3>2. QED
      BY <1>9, <1>10, <3>1
  <2>2. /\ r.got \o ev \in Seq(Event) /\ Len(r.got \o ev) = m + n
        /\ \A i \in 1 .. (m + n) : (r.got \o ev)[i] = IF i <= m THEN r.got[i] ELSE ev[i - m]
    BY <1>1, <1>5, <1>8, InputFields, ConcatProperties
  <2>3. ASSUME NEW i \in 1 .. (m + n) PROVE (g \o rest)[i] = (r.got \o ev)[i]
    <3>1. CASE i <= m
      BY <1>9, <2>1, <2>2, <3>1
    <3>2. CASE i = m + 1
      <4>1. i - m = 1 /\ ~(i <= m) /\ i <= m + 1 /\ i \in 1 .. ((m + 1) + (n - 1))
        BY <3>2
      <4>2. QED
        BY <1>4, <1>9, <2>1, <2>2, <3>2, <4>1
    <3>3. CASE i > m + 1
      <4>1. /\ i - (m + 1) \in 1 .. (n - 1) /\ (i - (m + 1)) + 1 = i - m
            /\ ~(i <= m) /\ ~(i <= m + 1) /\ i \in 1 .. ((m + 1) + (n - 1))
        BY <3>3
      <4>2. rest[i - (m + 1)] = ev[i - m]
        BY <1>10, <4>1
      <4>3. QED
        BY <2>1, <2>2, <4>1, <4>2
    <3>4. i \in Nat /\ (i <= m \/ i = m + 1 \/ i > m + 1)
      OBVIOUS
    <3>5. QED
      BY <3>1, <3>2, <3>3, <3>4
  <2>4. (m + 1) + (n - 1) = m + n
    OBVIOUS
  <2>5. QED
    <3>1. PICK s1, s2 : s1 = g \o rest /\ s2 = r.got \o ev
      OBVIOUS
    <3>2. /\ s1 \in Seq(Event) /\ s2 \in Seq(Event) /\ Len(s1) = Len(s2)
          /\ \A i \in 1 .. Len(s1) : s1[i] = s2[i]
      BY <2>1, <2>2, <2>3, <2>4, <3>1
    <3>3. s1 = s2
      BY <3>2, SeqEqual
    <3>4. QED
      BY <3>1, <3>3
<1>12. /\ r2 \in InputState /\ r2.idx = r.idx /\ r2.used = r.used
       /\ r2.device_idx = r.device_idx /\ r2.buf = r.buf /\ r2.rb = PopBytes(r.rb)
       /\ r2.sent = r.sent /\ r2.got = g /\ r2.lost = r.lost
  BY <1>1, <1>3, <1>7, <1>9 DEF InputState
<1> HIDE DEF r2
<1>13. Kept(r2) = Kept(r)
  BY <1>12 DEF Kept, Handled
<1>14. InOrder(r2, r2.got \o rest)
  BY <1>2, <1>11, <1>12, <1>13 DEF InOrder
<1>15. Len(r2.rb) <= RingBytes
  <2>1. Len(r.rb) \in Nat /\ Len(r2.rb) \in Nat /\ RingBytes \in Nat
    BY <1>1, <1>3, <1>12, InputFields, Constants, LenProperties
  <2>2. Len(r.rb) <= RingBytes
    BY DEF InputOK, RingOK
  <2>3. QED
    BY <1>3, <1>12, <2>1, <2>2
<1>16. RingOK(r2)
  BY <1>3, <1>7, <1>10, <1>12, <1>14, <1>15 DEF RingOK
<1>17. IndexOK(r2) /\ SentOK(r2)
  BY <1>12 DEF InputOK, IndexOK, SentOK
<1>18. QED
  BY <1>12, <1>16, <1>17 DEF InputOK, r2

-----------------------------------------------------------------------------
(* All of them. *)

(* A device that nothing has happened to. *)
LEMMA InitInput == Init => InputInv
<1> SUFFICES ASSUME Init PROVE InputInv
  OBVIOUS
<1>0. QSize \in Nat \ {0} /\ RingBytes \in Nat /\ EventBytes \in Nat \ {0}
  BY Constants
<1>1. input = [d \in Inputs |-> EmptyInput] /\ ready = {}
  BY DEF Init
<1>2. NoEvent \in Event
  BY DEF NoEvent, Event
<1>3. EmptyInput \in InputState
  <2>1. [i \in 0 .. (QSize - 1) |-> NoEvent] \in [Places -> Event]
    BY <1>2 DEF Places
  <2>2. << >> \in Seq(Event) /\ << >> \in Seq(Event \X Nat)
    OBVIOUS
  <2>3. QED
    BY <2>1, <2>2 DEF EmptyInput, InputState, RingNew
<1>4. PICK r : r = EmptyInput
  OBVIOUS
<1>5. /\ r \in InputState /\ r.idx = 0 /\ r.used = 0 /\ r.device_idx = 0
      /\ r.sent = << >> /\ r.got = << >> /\ r.rb = << >> /\ r.lost = {}
  BY <1>3, <1>4 DEF EmptyInput, RingNew
<1>6. IndexOK(r) /\ SentOK(r)
  BY <1>0, <1>5 DEF IndexOK, SentOK
<1>7. RingOK(r)
  <2>1. << >> \in Seq(Event) /\ Len(<< >>) = 0 /\ 0 * EventBytes = 0 /\ 0 <= RingBytes
    BY <1>0, EmptySeq
  <2>2. Holds(r.rb, << >>)
    BY <1>5, <2>1 DEF Holds
  <2>3. r.got \o << >> = << >>
    BY <1>5, <2>1, ConcatEmptySeq
  <2>4. InOrder(r, << >>)
    BY <1>5, <2>1 DEF InOrder, Rising, Kept, Handled
  <2>5. QED
    BY <1>5, <2>1, <2>2, <2>3, <2>4 DEF RingOK
<1>8. QED
  BY <1>1, <1>4, <1>5, <1>6, <1>7 DEF InputInv, InputOK

(* A step on one device. *)
LEMMA OneDevice ==
  ASSUME InputInv, NEW d \in Inputs, NEW r2, InputOK(r2),
         input' = [input EXCEPT ![d] = r2], ready \subseteq ready',
         d \in ready' \/ r2.idx = input[d].idx
  PROVE  InputInv'
<1>1. DOMAIN input' = Inputs /\ input'[d] = r2
  BY DEF InputInv
<1>2. \A k \in Inputs : k # d => input'[k] = input[k]
  BY DEF InputInv
<1>3. ASSUME NEW k \in Inputs
      PROVE  InputOK(input'[k]) /\ (k \notin ready' => input'[k].idx = 0)
  <2>1. InputOK(input[k]) /\ (k \notin ready => input[k].idx = 0)
    BY DEF InputInv
  <2>2. CASE k = d
    BY <1>1, <2>1, <2>2
  <2>3. CASE k # d
    BY <1>2, <2>1, <2>3
  <2>4. QED
    BY <2>2, <2>3
<1>4. Inputs' = Inputs
  BY DEF Inputs, Kind
<1>5. QED
  BY <1>1, <1>3, <1>4 DEF InputInv

(* The steps that leave the input devices alone. *)
LEMMA OtherDevices ==
  ASSUME InputInv, UNCHANGED input, ready \subseteq ready'
  PROVE  InputInv'
<1>1. Inputs' = Inputs
  BY DEF Inputs, Kind
<1>2. QED
  BY <1>1 DEF InputInv

(* Locking and unlocking. *)
LEMMA LockInput ==
  ASSUME InputInv, NEW d \in Inputs, NEW b \in BOOLEAN,
         input' = [input EXCEPT ![d].lock = b], UNCHANGED ready
  PROVE  InputInv'
<1>1. PICK r : r = input[d]
  OBVIOUS
<1>2. InputOK(r) /\ r \in InputState
  BY <1>1 DEF InputInv, InputOK
<1>3. PICK r2 : r2 = [r EXCEPT !.lock = b]
  OBVIOUS
<1>4. /\ r2 \in InputState /\ r2.idx = r.idx /\ r2.used = r.used /\ r2.device_idx = r.device_idx
      /\ r2.buf = r.buf /\ r2.rb = r.rb /\ r2.sent = r.sent /\ r2.got = r.got /\ r2.lost = r.lost
  BY <1>2, <1>3 DEF InputState
<1>5. InputOK(r2)
  BY <1>2, <1>4, SameInput
<1>6. input' = [input EXCEPT ![d] = r2]
  BY <1>1, <1>3
<1>7. QED
  BY <1>1, <1>4, <1>5, <1>6, OneDevice

(* virtio_init. *)
LEMMA DeviceInitInput == ASSUME InputInv, VirtioDeviceInit PROVE InputInv'
<1>1. PICK i \in DOMAIN devices :
        /\ devices[i] \notin ready
        /\ ready' = ready \cup {devices[i]}
        /\ \/ BlockInit(devices[i]) \/ RngInit(devices[i]) \/ GpuInit(devices[i])
           \/ InputInit(devices[i])
  BY DEF VirtioDeviceInit
<1>2. PICK d : d = devices[i]
  OBVIOUS
<1>3. ready \subseteq ready' /\ d \in ready' /\ d \notin ready
  BY <1>1, <1>2
<1>4. CASE BlockInit(d) \/ RngInit(d) \/ GpuInit(d)
  BY <1>3, <1>4, OtherDevices DEF BlockInit, RngInit, GpuInit
<1>5. CASE InputInit(d)
  <2>1. d \in Inputs /\ input' = [input EXCEPT ![d].idx = QSize]
    BY <1>5 DEF InputInit
  <2>2. PICK r : r = input[d]
    OBVIOUS
  <2>3. InputOK(r) /\ r.idx = 0
    BY <1>3, <2>1, <2>2 DEF InputInv
  <2>4. InputOK([r EXCEPT !.idx = QSize])
    BY <2>3, FirstBuffers
  <2>5. input' = [input EXCEPT ![d] = [r EXCEPT !.idx = QSize]]
    BY <2>1, <2>2
  <2>6. QED
    BY <1>3, <2>1, <2>4, <2>5, OneDevice
<1>6. QED
  BY <1>1, <1>2, <1>4, <1>5

(* The device reports an event. *)
LEMMA DeviceEventInput ==
  ASSUME InputInv, NEW d \in Inputs, NEW t \in Types(d), DeviceEvent(d, t)
  PROVE  InputInv'
<1>1. PICK r, e, r2 :
        /\ r = input[d] /\ e = <<Len(r.sent) + 1, t>>
        /\ r2 = [r EXCEPT !.buf = [r.buf EXCEPT ![r.used % QSize] = e],
                          !.used = r.used + 1, !.sent = Append(r.sent, e)]
  OBVIOUS
<1>2. InputOK(r) /\ r \in InputState /\ (d \notin ready => r.idx = 0)
  BY <1>1 DEF InputInv, InputOK
<1>3. r.used < r.idx /\ UNCHANGED ready
  BY <1>1 DEF DeviceEvent
<1>4. e \in Event /\ e[1] = Len(r.sent) + 1
  <2>1. Len(r.sent) + 1 \in Nat
    BY <1>2, InputFields, LenProperties
  <2>2. t \in {"syn", "key", "x", "y"}
    BY DEF Types
  <2>3. QED
    BY <1>1, <2>1, <2>2 DEF Event
<1>5. InputOK(r2)
  BY <1>1, <1>2, <1>3, <1>4, DeviceFills
<1>6. d \in ready
  BY <1>2, <1>3, InputFields
<1>7. input' = [input EXCEPT ![d] = r2]
  BY <1>1 DEF DeviceEvent
<1>8. QED
  BY <1>3, <1>5, <1>6, <1>7, OneDevice

(* input_handle. *)
LEMMA HandleEventInput ==
  ASSUME InputInv, NEW d \in Inputs, HandleEvent(d)
  PROVE  InputInv'
<1>1. PICK r : r = input[d]
  OBVIOUS
<1>2. InputOK(r) /\ r \in InputState /\ (d \notin ready => r.idx = 0)
  BY <1>1 DEF InputInv, InputOK
<1>3. r.device_idx # r.used /\ UNCHANGED ready
  BY <1>1 DEF HandleEvent
<1>4. InputOK(AfterHandling(r))
  BY <1>2, <1>3, DriverHandles
<1>5. d \in ready
  <2>1. r.idx # 0
    BY <1>2, <1>3, InputFields DEF InputOK, IndexOK
  <2>2. QED
    BY <1>2, <2>1
<1>6. input' = [input EXCEPT ![d] = AfterHandling(r)]
  BY <1>1 DEF HandleEvent, AfterHandling
<1>7. QED
  BY <1>3, <1>4, <1>5, <1>6, OneDevice

(* get_keyboard and get_cursor. *)
LEMMA PopEventInput ==
  ASSUME InputInv, NEW d \in Inputs, PopEvent(d)
  PROVE  InputInv'
<1>1. PICK r, p : r = input[d] /\ p = Popped(r.rb)
  OBVIOUS
<1>2. PICK e : e = EventOf(p)
  OBVIOUS
<1>3. PICK r2 : r2 = [r EXCEPT !.rb = PopBytes(r.rb), !.got = Append(r.got, e)]
  OBVIOUS
<1>4. InputOK(r) /\ r \in InputState
  BY <1>1 DEF InputInv, InputOK
<1>5. r.rb # << >> /\ UNCHANGED ready
  BY <1>1 DEF PopEvent
<1>6. InputOK(r2)
  BY <1>1, <1>2, <1>3, <1>4, <1>5, DriverPops
<1>7. input' = [input EXCEPT ![d] = r2]
  BY <1>1, <1>2, <1>3 DEF PopEvent, EventOf
<1>8. r2.idx = r.idx
  BY <1>3, <1>4 DEF InputState
<1>9. QED
  BY <1>1, <1>5, <1>6, <1>7, <1>8, OneDevice

(* InputInv is inductive. *)
LEMMA NextInput == InputInv /\ [Next]_vars => InputInv'
<1> SUFFICES ASSUME InputInv, [Next]_vars PROVE InputInv'
  OBVIOUS
<1>1. CASE UNCHANGED vars
  BY <1>1, OtherDevices DEF vars, devVars
<1>2. CASE PciSlot /\ UNCHANGED devVars
  BY <1>2, OtherDevices DEF devVars
<1>3. CASE VirtioDeviceInit
  BY <1>3, DeviceInitInput
<1>4. ASSUME NEW h \in Harts, HartStep(h) PROVE InputInv'
  BY <1>4, OtherDevices DEF HartStep, Submit, Lock, Fill, Publish, Notify, Wait, Return
<1>5. ASSUME NEW d \in Queued, DeviceStep(d) PROVE InputInv'
  BY <1>5, OtherDevices DEF DeviceStep, ServeBlock, ServeRng, ServeGpu
<1>6. ASSUME NEW h \in Harts, NEW d \in Queued,
             \/ BlockFlush(h, d) \/ RngFill(h, d) \/ GpuRedraw(h, d)
             \/ \E r \in Ranges : BlockReadWrapper(h, d, r) \/ BlockWriteWrapper(h, d, r)
      PROVE  InputInv'
  <2>1. UNCHANGED <<input, ready>>
    BY <1>6 DEF BlockFlush, RngFill, GpuRedraw, BlockReadWrapper, BlockWriteWrapper, Counted
  <2>2. QED
    BY <2>1, OtherDevices
<1>7. CASE Paint
  BY <1>7, OtherDevices DEF Paint
<1>8. ASSUME NEW d \in Inputs, GetInput(d) \/ PopNone(d) PROVE InputInv'
  BY <1>8, OtherDevices DEF GetInput, PopNone, Counted
<1>9. ASSUME NEW d \in Inputs, InputLock(d) \/ InputUnlock(d) PROVE InputInv'
  <2>1. UNCHANGED ready /\ \E b \in BOOLEAN : input' = [input EXCEPT ![d].lock = b]
    BY <1>9 DEF InputLock, InputUnlock
  <2>2. QED
    BY <2>1, LockInput
<1>10. ASSUME NEW d \in Inputs, HandleEvent(d) PROVE InputInv'
  BY <1>10, HandleEventInput
<1>11. ASSUME NEW d \in Inputs, PopEvent(d) PROVE InputInv'
  BY <1>11, PopEventInput
<1>12. ASSUME NEW d \in Inputs, NEW t \in Types(d), DeviceEvent(d, t) PROVE InputInv'
  BY <1>12, DeviceEventInput
<1>13. QED
  BY <1>1, <1>2, <1>3, <1>4, <1>5, <1>6, <1>7, <1>8, <1>9, <1>10, <1>11, <1>12 DEF Next, InputStep

(* The events that the ring holds are those that the property reads off    *)
(* the first byte of each.                                                 *)
LEMMA RingEvents ==
  ASSUME NEW r, InputOK(r), NEW n, n = Len(r.rb) \div EventBytes,
         NEW ring, ring = [k \in 1 .. n |-> r.rb[(k - 1) * EventBytes + 1][1]]
  PROVE  /\ Len(r.rb) = n * EventBytes
         /\ ring \in Seq(Event) /\ InOrder(r, r.got \o ring)
<1>1. PICK ev \in Seq(Event) : Holds(r.rb, ev) /\ InOrder(r, r.got \o ev)
  BY DEF InputOK, RingOK
<1>2. PICK b \in Nat \ {0} : b = EventBytes
  BY Constants
<1>3. PICK m \in Nat : m = Len(ev)
  OBVIOUS
<1>4. Len(r.rb) = m * b
  BY <1>1, <1>2, <1>3 DEF Holds
<1>5. n = m
  <2>1. (m * b) \div b = m
    BY WholeEvents
  <2>2. QED
    BY <1>2, <1>4, <2>1
<1>6. \A k \in 1 .. m : r.rb[(k - 1) * b + 1] = <<ev[k], 1>>
  <2>1. 1 \in 1 .. b
    OBVIOUS
  <2>2. QED
    BY <1>1, <1>2, <1>3, <2>1 DEF Holds
<1>7. ASSUME NEW k \in 1 .. m PROVE r.rb[(k - 1) * b + 1][1] = ev[k]
  <2>1. PICK x : x = r.rb[(k - 1) * b + 1]
    OBVIOUS
  <2>2. x = <<ev[k], 1>>
    BY <1>6, <2>1
  <2>3. x[1] = ev[k]
    BY <2>2
  <2>4. QED
    BY <2>1, <2>3
<1>8. ring = ev
  <2>1. ring = [k \in 1 .. m |-> ev[k]]
    BY <1>2, <1>5, <1>7
  <2>2. ev = [k \in 1 .. m |-> ev[k]]
    BY <1>3, LenProperties
  <2>3. QED
    BY <2>1, <2>2
<1>9. QED
  BY <1>1, <1>2, <1>4, <1>5, <1>8

(* The invariant implies the property. *)
LEMMA InputInvImplies == InputInv => EventsOnceInOrder
<1> SUFFICES ASSUME InputInv, NEW d \in Inputs
             PROVE  LET i == input[d]
                        n == Len(i.rb) \div EventBytes
                        ring == [k \in 1 .. n |-> i.rb[(k - 1) * EventBytes + 1][1]]
                        taken == i.got \o ring
                        handled == {i.sent[k] : k \in 1 .. i.device_idx}
                    IN /\ Len(i.rb) = n * EventBytes
                       /\ Range(taken) = {e \in handled : NotSyn(e) /\ e \notin i.lost}
                       /\ \A j, k \in DOMAIN taken : j < k => taken[j][1] < taken[k][1]
                       /\ i.used = Len(i.sent)
                       /\ \A k \in (i.device_idx + 1) .. i.used :
                            i.buf[(k - 1) % QSize] = i.sent[k]
  BY DEF EventsOnceInOrder
<1> DEFINE r == input[d]
           n == Len(r.rb) \div EventBytes
           ring == [k \in 1 .. n |-> r.rb[(k - 1) * EventBytes + 1][1]]
           taken == r.got \o ring
           handled == {r.sent[k] : k \in 1 .. r.device_idx}
<1>1. InputOK(r) /\ r \in InputState
  BY DEF InputInv, InputOK
<1>2. Len(r.rb) = n * EventBytes /\ ring \in Seq(Event) /\ InOrder(r, taken)
  <2>1. PICK c, m : c = r /\ m = Len(c.rb) \div EventBytes
    OBVIOUS
  <2>2. PICK s : s = [k \in 1 .. m |-> c.rb[(k - 1) * EventBytes + 1][1]]
    OBVIOUS
  <2>3. ring = s
    BY <2>1, <2>2
  <2> HIDE DEF ring, r
  <2>4. Len(c.rb) = m * EventBytes /\ s \in Seq(Event) /\ InOrder(c, c.got \o s)
    BY <1>1, <2>1, <2>2, RingEvents
  <2>5. QED
    BY <2>1, <2>3, <2>4
<1>3. Kept(r) = {e \in handled : NotSyn(e) /\ e \notin r.lost}
  BY DEF Kept, Handled
<1> HIDE DEF r, ring, handled
<1>4. taken \in Seq(Event) /\ DOMAIN taken = 1 .. Len(taken)
  BY <1>1, <1>2, InputFields, ConcatProperties, LenProperties
<1> HIDE DEF n, taken
<1>5. Range(taken) = Kept(r)
  BY <1>2, <1>4 DEF Range, InOrder
<1>6. \A j, k \in DOMAIN taken : j < k => taken[j][1] < taken[k][1]
  BY <1>2, <1>4 DEF InOrder, Rising
<1>7. /\ r.used = Len(r.sent)
      /\ \A k \in (r.device_idx + 1) .. r.used : r.buf[(k - 1) % QSize] = r.sent[k]
  BY <1>1 DEF InputOK, IndexOK, SentOK
<1>8. Range(taken) = {e \in handled : NotSyn(e) /\ e \notin r.lost}
  BY <1>3, <1>5
<1>9. Len(r.rb) = n * EventBytes
  BY <1>2
<1>10. QED
  BY <1>6, <1>7, <1>8, <1>9 DEF r, n, ring, taken, handled

(* input.c and ring.c, for every size of the queue, any ring whose size is *)
(* a multiple of an event's, any devices and any number of events: what a  *)
(* program gets are the events that were handled, but for syncs and those  *)
(* that met a full ring, each once, whole and in the order they came, and  *)
(* no event is overwritten before it was handled.                          *)
THEOREM EventsComeOutInOrder == Spec => []EventsOnceInOrder
<1>1. Init => InputInv
  BY InitInput
<1>2. InputInv /\ [Next]_vars => InputInv'
  BY NextInput
<1>3. InputInv => EventsOnceInOrder
  BY InputInvImplies
<1>4. QED
  BY <1>1, <1>2, <1>3, PTL DEF Spec
=============================================================================
