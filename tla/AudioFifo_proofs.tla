--------------------------- MODULE AudioFifo_proofs ---------------------------
(***************************************************************************)
(* Proofs about AudioFifo, for a ring of any capacity, frames and packets  *)
(* of any length and any number of samples.                                *)
(***************************************************************************)
EXTENDS AudioFifo, TLAPS

-----------------------------------------------------------------------------
(* Samples less than a ring apart have different places in it.             *)

LEMMA SlotIs ==
  ASSUME NEW c \in Nat \ {0}, NEW i \in Int
  PROVE  (i % c) \in 0..c - 1 /\ \E q \in Int : i = c * q + (i % c)
<1>1. i \div c \in Int /\ (i % c) \in 0..c - 1 /\ i = c * (i \div c) + (i % c)
  OBVIOUS
<1>2. QED BY <1>1

LEMMA SlotsDiffer ==
  ASSUME NEW c \in Nat \ {0}, NEW i \in Int, NEW j \in Int, i < j, j - i < c
  PROVE  (i % c) # (j % c)
<1> SUFFICES ASSUME (i % c) = (j % c) PROVE FALSE
  OBVIOUS
<1>1. PICK p \in Int : i = c * p + (i % c)
  BY SlotIs
<1>2. PICK q \in Int : j = c * q + (j % c)
  BY SlotIs
<1>3. (i % c) \in Int /\ (j % c) \in Int
  BY SlotIs
<1>4. j - i = c * q - c * p /\ c * q \in Int /\ c * p \in Int
  BY <1>1, <1>2, <1>3
<1>5. j - i = c * (q - p)
  BY <1>4
<1>6. q - p >= 1 => c * (q - p) >= c
  OBVIOUS
<1>7. q - p <= 0 => c * (q - p) <= 0
  OBVIOUS
<1>8. QED BY <1>5, <1>6, <1>7

-----------------------------------------------------------------------------
(* The invariant of the ring.                                              *)

RingType ==
  /\ wr \in Nat /\ rd \in Nat /\ rd <= wr /\ next \in 0..wr
  /\ data \in [0..Capacity - 1 -> -Capacity..MaxItems - 1]
  /\ prod \in [at : {"idle", "drop", "copy"}, r : 0..MaxItems, count : 0..Capacity,
               k : 0..Capacity, alone : BOOLEAN]
  /\ cons \in [at : {"idle", "copy"}, r : 0..MaxItems, n : 0..Capacity, k : 0..Capacity]
  /\ overrun \in BOOLEAN /\ torn \in BOOLEAN /\ garbled \in BOOLEAN

(* What a write and a read in progress have in hand.                       *)
IndexInv ==
  /\ wr + prod.count + pending <= MaxItems
  /\ prod.k <= prod.count
  /\ prod.at = "idle" => prod.count = 0
  /\ prod.at # "copy" => prod.k = 0
  /\ prod.at = "drop" => overflow(prod.r, prod.count) > 0
  /\ cons.k <= cons.n /\ cons.r + cons.n <= wr
  /\ cons.at = "idle" => cons.n = 0

(* The ring always holds the last samples written, whatever happened to    *)
(* the indices.                                                            *)
ContentsInv ==
  \A i \in (wr + prod.k) - Capacity..(wr + prod.k) - 1 : data[slot(i)] = i

(* Unless a drop came in between, there is room for what is being written, *)
(* and the read in progress is where the read index is.                    *)
RoomInv ==
  ~torn => /\ wr - rd <= Capacity
           /\ prod.at = "copy" => wr + prod.count - rd <= Capacity
           /\ cons.at = "copy" => cons.r = rd

(* A write that no read overlaps has made room for itself in any case.     *)
AloneInv ==
  prod.at # "idle" /\ prod.alone =>
    /\ cons.at = "idle"
    /\ prod.at = "drop" => prod.r = rd
    /\ prod.at = "copy" => wr + prod.count - rd <= Capacity

OverrunInv == ~overrun => ~torn

RingInv == /\ RingType /\ pending \in Nat /\ IndexInv
           /\ ContentsInv /\ RoomInv /\ AloneInv /\ OverrunInv /\ InOrderUntilOverrun

LEMMA RingInit == Init => RingInv
<1> SUFFICES ASSUME Init PROVE RingInv
  OBVIOUS
<1>1. /\ wr = 0 /\ rd = 0 /\ data = [s \in 0..Capacity - 1 |-> s - Capacity]
      /\ next = 0 /\ pending = 0
      /\ prod.at = "idle" /\ prod.r = 0 /\ prod.count = 0 /\ prod.k = 0
      /\ cons.at = "idle" /\ cons.r = 0 /\ cons.n = 0 /\ cons.k = 0
  BY DEF Init, noWrite, noRead
<1>2. overrun = FALSE /\ torn = FALSE /\ garbled = FALSE
  BY DEF Init
<1>3. Capacity \in Nat \ {0} /\ MaxItems \in Nat
  BY FifoAssumption DEF FifoAssumption
<1>4. RingType
  <2>1. data \in [0..Capacity - 1 -> -Capacity..MaxItems - 1]
    BY <1>1, <1>3
  <2>2. /\ prod \in [at : {"idle", "drop", "copy"}, r : 0..MaxItems, count : 0..Capacity,
                     k : 0..Capacity, alone : BOOLEAN]
        /\ cons \in [at : {"idle", "copy"}, r : 0..MaxItems, n : 0..Capacity,
                     k : 0..Capacity]
    BY <1>3 DEF Init, noWrite, noRead
  <2>3. overrun \in BOOLEAN /\ torn \in BOOLEAN /\ garbled \in BOOLEAN
    BY <1>2
  <2>4. QED BY <1>1, <2>1, <2>2, <2>3 DEF RingType
<1>5. IndexInv
  BY <1>1, <1>3 DEF IndexInv
<1>6. ContentsInv
  <2> SUFFICES ASSUME NEW i \in Int, -Capacity <= i, i <= -1
               PROVE  data[(i % Capacity)] = i
    <3>1. (wr + prod.k) - Capacity = -Capacity /\ (wr + prod.k) - 1 = -1
      <4>1. wr = 0 /\ prod.k = 0
        BY <1>1
      <4>2. QED BY <1>3, <4>1
    <3>2. \A i \in -Capacity..-1 : i \in Int /\ -Capacity <= i /\ i <= -1
      BY <1>3
    <3>3. QED BY <3>1, <3>2 DEF ContentsInv, slot
  <2>1. (i % Capacity) = i + Capacity
    <3>1. (i % Capacity) \in 0..Capacity - 1
      BY <1>3, SlotIs
    <3>2. PICK q \in Int : i = Capacity * q + (i % Capacity)
      BY <1>3, SlotIs
    <3>3. q >= 0 => Capacity * q >= 0
      BY <1>3
    <3>4. q <= -2 => Capacity * q <= -2 * Capacity
      BY <1>3
    <3>5. q = -1 => Capacity * q = -Capacity
      BY <1>3
    <3>6. Capacity * q \in Int
      BY <1>3
    <3>7. QED BY <1>3, <3>1, <3>2, <3>3, <3>4, <3>5, <3>6
  <2>2. QED BY <1>1, <1>3, <2>1
<1>7. RoomInv
  BY <1>1, <1>3 DEF RoomInv
<1>8. AloneInv /\ OverrunInv /\ InOrderUntilOverrun
  BY <1>1, <1>2 DEF AloneInv, OverrunInv, InOrderUntilOverrun
<1>9. QED BY <1>1, <1>4, <1>5, <1>6, <1>7, <1>8 DEF RingInv
LEMMA RingFields ==
  ASSUME RingType
  PROVE  /\ Capacity \in Nat \ {0} /\ MaxItems \in Nat
         /\ wr \in Nat /\ rd \in Nat /\ rd <= wr /\ next \in Nat /\ next <= wr
         /\ prod.at \in {"idle", "drop", "copy"} /\ prod.r \in Nat
         /\ prod.count \in Nat /\ prod.count <= Capacity /\ prod.k \in Nat
         /\ cons.at \in {"idle", "copy"} /\ cons.r \in Nat /\ cons.n \in Nat
         /\ cons.n <= Capacity /\ cons.k \in Nat
         /\ prod.r <= MaxItems /\ cons.r <= MaxItems
BY FifoAssumption DEF FifoAssumption, RingType

(* write() begins, with room for the samples in the bounds.                *)
LEMMA WriteBeginSafe ==
  ASSUME RingInv, NEW count \in 1..Capacity, writeBegin(count), pending' \in Nat,
         wr + count + pending' <= MaxItems
  PROVE  RingInv'
<1>1. RingType /\ IndexInv /\ prod.at = "idle"
  BY DEF RingInv, writeBegin
<1>2. /\ prod' = [at |-> IF overflow(rd, count) > 0 THEN "drop" ELSE "copy", r |-> rd,
                  count |-> count, k |-> 0, alone |-> cons.at = "idle"]
      /\ wr' = wr /\ rd' = rd /\ data' = data /\ cons' = cons /\ next' = next
      /\ overrun' = overrun /\ torn' = torn /\ garbled' = garbled
  BY DEF writeBegin
<1>3. /\ prod'.at = (IF overflow(rd, count) > 0 THEN "drop" ELSE "copy")
      /\ prod'.r = rd /\ prod'.count = count /\ prod'.k = 0 /\ prod.k = 0
      /\ prod'.alone = (cons.at = "idle")
  BY <1>1, <1>2 DEF IndexInv
<1>4. /\ overflow(rd, count) = wr - rd + count - Capacity
      /\ overflow(rd, count) \in Int
  BY <1>1, RingFields DEF overflow
<1>5. rd \in 0..MaxItems
  BY <1>1, RingFields DEF IndexInv, RingInv
<1>6. RingType'
  <2>1. prod' \in [at : {"idle", "drop", "copy"}, r : 0..MaxItems, count : 0..Capacity,
                   k : 0..Capacity, alone : BOOLEAN]
    <3>1. 0 \in 0..Capacity /\ count \in 0..Capacity
      BY <1>1, RingFields
    <3>2. (cons.at = "idle") \in BOOLEAN
      OBVIOUS
    <3>3. (IF overflow(rd, count) > 0 THEN "drop" ELSE "copy") \in {"idle", "drop", "copy"}
      OBVIOUS
    <3> HIDE DEF overflow
    <3>4. QED BY <1>2, <1>5, <3>1, <3>2, <3>3
  <2>2. QED BY <1>1, <1>2, <2>1 DEF RingType
<1>7. IndexInv'
  BY <1>1, <1>2, <1>3, <1>4, RingFields DEF IndexInv, overflow
<1>8. ContentsInv'
  BY <1>2, <1>3 DEF RingInv, ContentsInv, slot
<1>9. RoomInv'
  BY <1>1, <1>2, <1>3, <1>4, RingFields DEF RingInv, RoomInv
<1>10. AloneInv'
  <2>1. prod'.alone => cons'.at = "idle"
    BY <1>2, <1>3
  <2>2. prod'.r = rd'
    BY <1>2, <1>3
  <2>3. prod'.at = "copy" => wr' + prod'.count - rd' <= Capacity
    BY <1>1, <1>2, <1>3, <1>4, RingFields
  <2>4. QED BY <2>1, <2>2, <2>3 DEF AloneInv
<1>11. OverrunInv' /\ InOrderUntilOverrun'
  BY <1>2 DEF RingInv, OverrunInv, InOrderUntilOverrun
<1>12. QED BY <1>6, <1>7, <1>8, <1>9, <1>10, <1>11 DEF RingInv

LEMMA ReadBeginSafe ==
  ASSUME RingInv, NEW count \in 1..Capacity, readBegin(count), UNCHANGED pending
  PROVE  RingInv'
<1>1. RingType /\ IndexInv /\ cons.at = "idle"
  BY DEF RingInv, readBegin
<1> DEFINE n == IF wr - rd < count THEN wr - rd ELSE count
<1>2. /\ cons' = [at |-> "copy", r |-> rd, k |-> 0, n |-> n]
      /\ prod' = [prod EXCEPT !.alone = FALSE]
      /\ wr' = wr /\ rd' = rd /\ data' = data /\ next' = next
      /\ overrun' = overrun /\ torn' = torn /\ garbled' = garbled
  BY DEF readBegin
<1>3. n \in 0..Capacity /\ rd + n <= wr
  BY <1>1, RingFields
<1> HIDE DEF n
<1>4. /\ cons'.at = "copy" /\ cons'.r = rd /\ cons'.k = 0 /\ cons'.n = n /\ cons.k = 0
      /\ prod'.at = prod.at /\ prod'.r = prod.r /\ prod'.count = prod.count
      /\ prod'.k = prod.k
  BY <1>1, <1>2, RingFields DEF RingType, IndexInv
<1>5. prod'.alone = FALSE
  BY <1>1, <1>2 DEF RingType
<1>6. RingType'
  <2>1. prod' \in [at : {"idle", "drop", "copy"}, r : 0..MaxItems, count : 0..Capacity,
                   k : 0..Capacity, alone : BOOLEAN]
    BY <1>1, <1>2 DEF RingType
  <2>2. rd \in 0..MaxItems /\ 0 \in 0..Capacity
    BY <1>1, RingFields DEF IndexInv, RingInv
  <2>3. cons' \in [at : {"idle", "copy"}, r : 0..MaxItems, n : 0..Capacity, k : 0..Capacity]
    BY <1>2, <1>3, <2>2
  <2>4. QED BY <1>1, <1>2, <2>1, <2>3 DEF RingType
<1>7. IndexInv'
  BY <1>1, <1>2, <1>3, <1>4 DEF IndexInv, overflow
<1>8. ContentsInv'
  BY <1>2, <1>4 DEF RingInv, ContentsInv, slot
<1>9. RoomInv'
  BY <1>2, <1>4 DEF RingInv, RoomInv
<1>10. AloneInv'
  BY <1>5 DEF AloneInv
<1>11. OverrunInv'
  BY <1>2 DEF RingInv, OverrunInv
<1>12. InOrderUntilOverrun'
  BY <1>1, <1>2, <1>4 DEF RingInv, InOrderUntilOverrun
<1>13. QED BY <1>6, <1>7, <1>8, <1>9, <1>10, <1>11, <1>12 DEF RingInv

(* A drop makes room for its write, and is the only step that tears.       *)
LEMMA WriteDropSafe == ASSUME RingInv, writeDrop PROVE RingInv'
<1>1. RingType /\ IndexInv /\ prod.at = "drop"
  BY DEF RingInv, writeDrop
<1>2. /\ prod' = [prod EXCEPT !.at = "copy"]
      /\ rd' = prod.r + overflow(prod.r, prod.count)
      /\ wr' = wr /\ data' = data /\ cons' = cons /\ next' = next
      /\ garbled' = garbled /\ pending' = pending
  BY DEF writeDrop, deviceVars
<1>3. overrun' = TRUE /\ torn' = (torn \/ cons.at # "idle" \/ rd # prod.r)
  BY DEF writeDrop
<1>4. /\ prod'.at = "copy" /\ prod'.r = prod.r /\ prod'.count = prod.count
      /\ prod'.k = prod.k /\ prod.k = 0 /\ prod'.alone = prod.alone
  BY <1>1, <1>2 DEF RingType, IndexInv
<1>5. rd' = wr + prod.count - Capacity /\ rd' > prod.r
  BY <1>1, <1>2, RingFields DEF IndexInv, overflow
<1>6. RingType'
  <2>1. prod' \in [at : {"idle", "drop", "copy"}, r : 0..MaxItems, count : 0..Capacity,
                   k : 0..Capacity, alone : BOOLEAN]
    BY <1>1, <1>2 DEF RingType
  <2>2. rd' \in Nat /\ rd' <= wr
    BY <1>1, <1>5, RingFields
  <2>3. overrun' \in BOOLEAN /\ torn' \in BOOLEAN
    BY <1>1, <1>3 DEF RingType
  <2>4. QED BY <1>1, <1>2, <2>1, <2>2, <2>3 DEF RingType
<1>7. IndexInv'
  BY <1>1, <1>2, <1>4 DEF IndexInv
<1>8. ContentsInv'
  BY <1>2, <1>4 DEF RingInv, ContentsInv, slot
<1>9. RoomInv'
  <2>1. ~torn' => cons'.at = "idle"
    BY <1>2, <1>3, <1>1, RingFields
  <2>2. wr' - rd' <= Capacity /\ wr' + prod'.count - rd' <= Capacity
    BY <1>1, <1>2, <1>4, <1>5, RingFields
  <2>3. QED BY <2>1, <2>2 DEF RoomInv
<1>10. AloneInv'
  <2>1. wr' + prod'.count - rd' <= Capacity
    BY <1>1, <1>2, <1>4, <1>5, RingFields
  <2>2. QED BY <1>1, <1>2, <1>4, <2>1 DEF RingInv, AloneInv
<1>11. OverrunInv' /\ InOrderUntilOverrun'
  BY <1>3 DEF OverrunInv, InOrderUntilOverrun
<1>12. pending' \in Nat
  BY <1>2 DEF RingInv
<1>13. QED BY <1>6, <1>7, <1>8, <1>9, <1>10, <1>11, <1>12 DEF RingInv
LEMMA WriteCopySafe == ASSUME RingInv, writeCopy PROVE RingInv'
<1>1. RingType /\ IndexInv /\ prod.at = "copy" /\ prod.k < prod.count
  BY DEF RingInv, writeCopy
<1>2. /\ prod' = [prod EXCEPT !.k = @ + 1]
      /\ data' = [data EXCEPT ![slot(wr + prod.k)] = wr + prod.k]
      /\ rd' = rd /\ wr' = wr /\ cons' = cons /\ next' = next /\ pending' = pending
      /\ overrun' = overrun /\ torn' = torn /\ garbled' = garbled
  BY DEF writeCopy, deviceVars
<1>3. /\ prod'.at = prod.at /\ prod'.r = prod.r /\ prod'.count = prod.count
      /\ prod'.k = prod.k + 1 /\ prod'.alone = prod.alone
  BY <1>1, <1>2, RingFields DEF RingType
<1>4. /\ wr + prod.k \in Nat /\ wr + prod.k <= MaxItems - 1
      /\ prod.k + 1 \in 0..Capacity
  BY <1>1, RingFields DEF IndexInv, RingInv
<1>5. \A i \in Int : slot(i) \in 0..Capacity - 1
  BY RingFields, <1>1, SlotIs DEF slot
<1>6. RingType'
  <2>1. prod' \in [at : {"idle", "drop", "copy"}, r : 0..MaxItems, count : 0..Capacity,
                   k : 0..Capacity, alone : BOOLEAN]
    BY <1>1, <1>2, <1>4 DEF RingType
  <2>2. wr + prod.k \in -Capacity..MaxItems - 1
    BY <1>1, <1>4, RingFields
  <2>3. data' \in [0..Capacity - 1 -> -Capacity..MaxItems - 1]
    BY <1>1, <1>2, <2>2 DEF RingType
  <2>4. QED BY <1>1, <1>2, <2>1, <2>3 DEF RingType
<1>7. IndexInv'
  BY <1>1, <1>2, <1>3, RingFields DEF IndexInv
<1>8. ContentsInv'
  <2> SUFFICES ASSUME NEW i \in Int, (wr + (prod.k + 1)) - Capacity <= i,
                      i <= (wr + (prod.k + 1)) - 1
               PROVE  data'[slot(i)] = i
    <3>1. wr' + prod'.k = wr + (prod.k + 1) /\ wr + (prod.k + 1) \in Int
      BY <1>1, <1>2, <1>3, RingFields
    <3>2. Capacity \in Int
      BY <1>1, RingFields
    <3>3. (wr' + prod'.k) - Capacity..(wr' + prod'.k) - 1
          = (wr + (prod.k + 1)) - Capacity..(wr + (prod.k + 1)) - 1
      BY <3>1
    <3> DEFINE b == wr + (prod.k + 1)
    <3>4. b \in Int
      BY <3>1
    <3> HIDE DEF b
    <3>5. \A i \in b - Capacity..b - 1 : i \in Int /\ b - Capacity <= i /\ i <= b - 1
      BY <3>2, <3>4
    <3>6. QED BY <3>3, <3>5 DEF ContentsInv, slot, b
  <2>1. slot(wr + prod.k) \in 0..Capacity - 1 /\ slot(i) \in 0..Capacity - 1
    BY <1>4, <1>5
  <2>2. DOMAIN data = 0..Capacity - 1
    BY <1>1 DEF RingType
  <2>3. CASE i = wr + prod.k
    BY <1>2, <2>1, <2>2, <2>3
  <2>4. CASE i # wr + prod.k
    <3>1. i < wr + prod.k /\ (wr + prod.k) - i < Capacity
      <4>1. wr \in Int /\ prod.k \in Int /\ Capacity \in Int
        BY <1>1, RingFields
      <4>2. QED BY <2>4, <4>1
    <3>2. slot(i) # slot(wr + prod.k)
      BY <1>1, <1>4, <3>1, SlotsDiffer, RingFields DEF slot
    <3>3. i \in (wr + prod.k) - Capacity..(wr + prod.k) - 1
      BY <1>1, <1>4, <3>1, RingFields
    <3>4. data[slot(i)] = i
      BY <3>3 DEF RingInv, ContentsInv
    <3>5. QED BY <1>2, <2>1, <2>2, <3>2, <3>4
  <2>5. QED BY <2>3, <2>4
<1>9. RoomInv' /\ AloneInv' /\ OverrunInv' /\ InOrderUntilOverrun'
  BY <1>2, <1>3 DEF RingInv, RoomInv, AloneInv, OverrunInv, InOrderUntilOverrun
<1>10. pending' \in Nat
  BY <1>2 DEF RingInv
<1>11. QED BY <1>6, <1>7, <1>8, <1>9, <1>10 DEF RingInv

(* A write nobody read into has repaired the ring when it is published.    *)
LEMMA WritePublishSafe == ASSUME RingInv, writePublish PROVE RingInv'
<1>1. RingType /\ IndexInv /\ prod.at = "copy" /\ prod.k = prod.count
  BY DEF RingInv, writePublish
<1>2. /\ wr' = wr + prod.count /\ prod' = noWrite
      /\ rd' = rd /\ data' = data /\ cons' = cons /\ next' = next /\ pending' = pending
      /\ overrun' = overrun /\ garbled' = garbled
  BY DEF writePublish, deviceVars
<1>3. torn' = (torn /\ ~prod.alone)
  BY DEF writePublish
<1>4. /\ prod'.at = "idle" /\ prod'.count = 0 /\ prod'.k = 0
  BY <1>2 DEF noWrite
<1>5. RingType'
  <2>1. prod' \in [at : {"idle", "drop", "copy"}, r : 0..MaxItems, count : 0..Capacity,
                   k : 0..Capacity, alone : BOOLEAN]
    <3>1. 0 \in 0..MaxItems /\ 0 \in 0..Capacity
      BY <1>1, RingFields
    <3>2. QED BY <1>2, <3>1 DEF noWrite
  <2>2. wr' \in Nat /\ rd' <= wr' /\ next' \in 0..wr'
    BY <1>1, <1>2, RingFields
  <2>3. torn' \in BOOLEAN
    BY <1>1, <1>3 DEF RingType
  <2>4. QED BY <1>1, <1>2, <2>1, <2>2, <2>3 DEF RingType
<1>6. IndexInv'
  BY <1>1, <1>2, <1>4, RingFields DEF IndexInv, RingInv
<1>7. ContentsInv'
  <2>1. wr' + prod'.k = wr + prod.k
    BY <1>1, <1>2, <1>4, RingFields
  <2>2. (wr' + prod'.k) - Capacity..(wr' + prod'.k) - 1 = (wr + prod.k) - Capacity..(wr + prod.k) - 1
    BY <2>1
  <2>3. QED BY <1>2, <2>2 DEF RingInv, ContentsInv, slot
<1>8. RoomInv'
  <2> SUFFICES ASSUME ~torn' PROVE wr + prod.count - rd <= Capacity
                                   /\ (cons.at = "copy" => cons.r = rd)
    BY <1>1, <1>2, <1>4, RingFields DEF RoomInv
  <2>1. CASE ~torn
    BY <1>1, <2>1 DEF RingInv, RoomInv
  <2>2. CASE torn /\ prod.alone
    BY <1>1, <2>2 DEF RingInv, AloneInv
  <2>3. QED BY <1>3, <2>1, <2>2
<1>9. AloneInv'
  BY <1>4 DEF AloneInv
<1>10. OverrunInv' /\ InOrderUntilOverrun'
  BY <1>2, <1>3 DEF RingInv, OverrunInv, InOrderUntilOverrun
<1>11. pending' \in Nat
  BY <1>2 DEF RingInv
<1>12. QED BY <1>5, <1>6, <1>7, <1>8, <1>9, <1>10, <1>11 DEF RingInv

(* While no drop came in between, what a read copies is what was written.  *)
LEMMA ReadsWhatWasWritten ==
  ASSUME RingInv, readCopy, ~torn
  PROVE  data[slot(cons.r + cons.k)] = cons.r + cons.k
<1>1. /\ RingType /\ IndexInv /\ RoomInv /\ ContentsInv
      /\ cons.at = "copy" /\ cons.k < cons.n
  BY DEF RingInv, readCopy
<1>2. cons.r = rd
  BY <1>1 DEF RoomInv
<1>3. (wr + prod.k) - Capacity <= rd
  <2>1. CASE prod.at = "copy"
    BY <1>1, <2>1, RingFields DEF RoomInv, IndexInv
  <2>2. CASE prod.at # "copy"
    BY <1>1, <2>2, RingFields DEF RoomInv, IndexInv
  <2>3. QED BY <2>1, <2>2
<1>4. cons.r + cons.k \in (wr + prod.k) - Capacity..(wr + prod.k) - 1
  BY <1>1, <1>2, <1>3, RingFields DEF IndexInv
<1>5. QED BY <1>1, <1>4 DEF ContentsInv

LEMMA ReadCopySafe == ASSUME RingInv, readCopy PROVE RingInv'
<1>1. RingType /\ IndexInv /\ cons.at = "copy" /\ cons.k < cons.n
  BY DEF RingInv, readCopy
<1>2. /\ cons' = [cons EXCEPT !.k = @ + 1] /\ next' = cons.r + cons.k + 1
      /\ wr' = wr /\ rd' = rd /\ data' = data /\ prod' = prod /\ pending' = pending
      /\ overrun' = overrun /\ torn' = torn
  BY DEF readCopy, deviceVars
<1>3. garbled' = (garbled \/ data[slot(cons.r + cons.k)] # cons.r + cons.k)
  BY DEF readCopy
<1>4. /\ cons'.at = cons.at /\ cons'.r = cons.r /\ cons'.n = cons.n
      /\ cons'.k = cons.k + 1
  BY <1>1, <1>2, RingFields DEF RingType
<1>5. RingType'
  <2>1. cons.k + 1 \in 0..Capacity
    BY <1>1, RingFields
  <2>2. cons' \in [at : {"idle", "copy"}, r : 0..MaxItems, n : 0..Capacity, k : 0..Capacity]
    BY <1>1, <1>2, <2>1 DEF RingType
  <2>3. next' \in 0..wr
    BY <1>1, <1>2, RingFields DEF IndexInv
  <2>4. garbled' \in BOOLEAN
    BY <1>1, <1>3 DEF RingType
  <2>5. QED BY <1>1, <1>2, <2>2, <2>3, <2>4 DEF RingType
<1>6. IndexInv'
  BY <1>1, <1>2, <1>4, RingFields DEF IndexInv, overflow
<1>7. ContentsInv' /\ RoomInv' /\ AloneInv' /\ OverrunInv'
  BY <1>2, <1>4 DEF RingInv, ContentsInv, slot, RoomInv, AloneInv, OverrunInv
<1>8. InOrderUntilOverrun'
  <2> SUFFICES ASSUME ~overrun PROVE ~garbled' /\ next' = rd' + cons'.k
    BY <1>2 DEF InOrderUntilOverrun
  <2>1. ~torn /\ ~garbled /\ cons.r = rd
    BY <1>1 DEF RingInv, OverrunInv, InOrderUntilOverrun, RoomInv
  <2>2. data[slot(cons.r + cons.k)] = cons.r + cons.k
    BY <2>1, ReadsWhatWasWritten
  <2>3. next' = rd' + cons'.k
    BY <1>1, <1>2, <1>4, <2>1, RingFields
  <2>4. QED BY <1>3, <2>1, <2>2, <2>3
<1>9. pending' \in Nat
  BY <1>2 DEF RingInv
<1>10. QED BY <1>5, <1>6, <1>7, <1>8, <1>9 DEF RingInv

LEMMA ReadStoreSafe == ASSUME RingInv, readStore PROVE RingInv'
<1>1. RingType /\ IndexInv /\ cons.at = "copy" /\ cons.k = cons.n
  BY DEF RingInv, readStore
<1>2. /\ rd' = cons.r + cons.n /\ cons' = noRead
      /\ wr' = wr /\ data' = data /\ prod' = prod /\ next' = next /\ pending' = pending
      /\ overrun' = overrun /\ torn' = torn /\ garbled' = garbled
  BY DEF readStore, deviceVars
<1>3. cons'.at = "idle" /\ cons'.r = 0 /\ cons'.n = 0 /\ cons'.k = 0
  BY <1>2 DEF noRead
<1>4. RingType'
  <2>1. rd' \in Nat /\ rd' <= wr' /\ 0 \in 0..MaxItems /\ 0 \in 0..Capacity
    BY <1>1, <1>2, RingFields DEF IndexInv
  <2>2. cons' \in [at : {"idle", "copy"}, r : 0..MaxItems, n : 0..Capacity, k : 0..Capacity]
    BY <1>2, <2>1 DEF noRead
  <2>3. QED BY <1>1, <1>2, <2>1, <2>2 DEF RingType
<1>5. IndexInv'
  BY <1>1, <1>2, <1>3, RingFields DEF IndexInv, overflow
<1>6. ContentsInv' /\ OverrunInv'
  BY <1>2 DEF RingInv, ContentsInv, slot, OverrunInv
<1>7. ~torn => rd' >= rd
  BY <1>1, <1>2, RingFields DEF RingInv, RoomInv
<1>8. RoomInv'
  <2> SUFFICES ASSUME ~torn
               PROVE  /\ wr - rd' <= Capacity
                      /\ prod.at = "copy" => wr + prod.count - rd' <= Capacity
    BY <1>2, <1>3 DEF RoomInv
  <2>1. /\ wr - rd <= Capacity
        /\ prod.at = "copy" => wr + prod.count - rd <= Capacity
    BY DEF RingInv, RoomInv
  <2>2. rd' \in Nat
    BY <1>1, <1>2, RingFields
  <2>3. QED BY <1>1, <1>7, <2>1, <2>2, RingFields
<1>9. AloneInv'
  <2>1. ~(prod.at # "idle" /\ prod.alone)
    BY <1>1 DEF RingInv, AloneInv
  <2>2. QED BY <1>2, <2>1 DEF AloneInv
<1>10. InOrderUntilOverrun'
  <2> SUFFICES ASSUME ~overrun PROVE ~garbled /\ next = rd' + 0
    BY <1>2, <1>3 DEF InOrderUntilOverrun
  <2>1. ~garbled /\ next = rd + cons.k /\ cons.r = rd
    BY <1>1 DEF RingInv, InOrderUntilOverrun, OverrunInv, RoomInv
  <2>2. QED BY <1>1, <1>2, <2>1, RingFields
<1>11. pending' \in Nat
  BY <1>2 DEF RingInv
<1>12. QED BY <1>4, <1>5, <1>6, <1>8, <1>9, <1>10, <1>11 DEF RingInv

LEMMA RingStays ==
  ASSUME RingInv, UNCHANGED ringVars, pending' \in Nat,
         wr + prod.count + pending' <= MaxItems
  PROVE  RingInv'
BY DEF RingInv, RingType, IndexInv, ContentsInv, slot, RoomInv, AloneInv, OverrunInv,
       InOrderUntilOverrun, ringVars, overflow
-----------------------------------------------------------------------------
(* The device's thread and the life of what it uses.                       *)

DeviceType ==
  /\ side \in {"capture", "mic", "render"}
  /\ main \in {"off", "on", "stopping", "stopped"}
  /\ running \in BOOLEAN /\ failed \in BOOLEAN /\ client \in BOOLEAN
  /\ dev \in {"none", "top", "wait", "busy", "reading", "exited"} /\ signalled \in BOOLEAN
  /\ pending \in 0..FrameLen - 1 + MaxPacket
  /\ dev # "busy" => pending < FrameLen
  /\ side # "mic" => pending = 0

(* The device's objects exist from start() until the thread was joined.    *)
LifeInv ==
  /\ main = "off" => dev = "none"
  /\ main \in {"on", "stopping"} => client
  /\ main = "stopped" => dev \in {"none", "exited"}

FifoInv == RingInv /\ DeviceType /\ LifeInv

LEMMA FifoInit == Init => FifoInv
<1> SUFFICES ASSUME Init PROVE FifoInv
  OBVIOUS
<1>1. FrameLen \in Nat \ {0} /\ MaxPacket \in Nat
  BY FifoAssumption DEF FifoAssumption
<1>2. running \in BOOLEAN /\ failed \in BOOLEAN /\ client \in BOOLEAN /\ signalled \in BOOLEAN
  BY DEF Init
<1>3. pending = 0 /\ 0 \in 0..FrameLen - 1 + MaxPacket
  BY <1>1 DEF Init
<1>4. DeviceType /\ LifeInv
  BY <1>1, <1>2, <1>3 DEF Init, DeviceType, LifeInv
<1>5. QED BY <1>4, RingInit DEF FifoInv

(* Steps of the ring alone.                                                *)
LEMMA DeviceStays ==
  ASSUME DeviceType, LifeInv, UNCHANGED deviceVars PROVE DeviceType' /\ LifeInv'
BY DEF DeviceType, LifeInv, deviceVars

LEMMA RingStepSafe == ASSUME FifoInv, Ring PROVE FifoInv'
<1>1. UNCHANGED deviceVars
  BY DEF Ring, writeDrop, writeCopy, writePublish, readCopy, readStore
<1>2. RingInv'
  BY WriteDropSafe, WriteCopySafe, WritePublishSafe, ReadCopySafe, ReadStoreSafe
  DEF FifoInv, Ring
<1>3. QED BY <1>1, <1>2, DeviceStays DEF FifoInv

(* Steps that begin a read or a write.                                     *)
LEMMA UseStepSafe == ASSUME FifoInv, Use PROVE FifoInv'
<1>1. /\ FrameLen \in 1..Capacity /\ MaxPacket \in 1..Capacity /\ Capacity \in Nat \ {0}
      /\ FrameLen \in Nat \ {0} /\ MaxPacket \in Nat
  BY FifoAssumption DEF FifoAssumption
<1>2. RingInv /\ DeviceType /\ LifeInv
  BY DEF FifoInv
<1>3. /\ wr \in Nat /\ prod.count \in Nat /\ pending \in Nat /\ MaxItems \in Nat
      /\ wr + prod.count + pending <= MaxItems
      /\ prod.at = "idle" => prod.count = 0
  BY <1>2, RingFields DEF RingInv, IndexInv
<1>4. \A n \in 1..MaxPacket : n \in 1..Capacity
  BY <1>1
<1>5. CASE sourceRead
  <2>1. RingInv'
    BY <1>1, <1>2, <1>5, ReadBeginSafe DEF sourceRead, deviceVars
  <2>2. QED BY <1>2, <1>5, <2>1, DeviceStays DEF sourceRead, FifoInv
<1>6. CASE sinkWrite
  <2>1. prod.at = "idle" /\ wr + FrameLen + pending' <= MaxItems /\ pending' = pending
    BY <1>1, <1>3, <1>6 DEF sinkWrite, fits, writeBegin, deviceVars
  <2>2. RingInv'
    BY <1>1, <1>2, <1>3, <1>6, <2>1, WriteBeginSafe DEF sinkWrite
  <2>3. QED BY <1>2, <1>6, <2>2, DeviceStays DEF sinkWrite, FifoInv
<1>7. CASE capturePacket
  <2>1. PICK n \in 1..MaxPacket : fits(n) /\ writeBegin(n)
    BY <1>7 DEF capturePacket
  <2>2. prod.at = "idle" /\ wr + n + pending' <= MaxItems /\ pending' = pending
    BY <1>1, <1>3, <1>7, <2>1 DEF capturePacket, fits, writeBegin, deviceVars
  <2>3. RingInv'
    BY <1>2, <1>3, <1>4, <2>1, <2>2, WriteBeginSafe
  <2>4. QED BY <1>2, <1>7, <2>3, DeviceStays DEF capturePacket, FifoInv
<1>8. CASE renderPacket
  <2>1. RingInv'
    BY <1>2, <1>4, <1>8, ReadBeginSafe DEF renderPacket
  <2>2. DeviceType'
    BY <1>1, <1>2, <1>8 DEF renderPacket, DeviceType
  <2>3. LifeInv'
    BY <1>2, <1>8 DEF renderPacket, LifeInv
  <2>4. QED BY <2>1, <2>2, <2>3 DEF FifoInv
<1>9. CASE onData
  <2>1. PICK n \in 1..MaxPacket : fits(n) /\ pending' = pending + n
    BY <1>9 DEF onData
  <2>2. pending' \in Nat /\ wr + prod.count + pending' <= MaxItems
    BY <1>1, <1>3, <2>1 DEF fits
  <2>3. RingInv'
    BY <1>2, <1>9, <2>2, RingStays DEF onData
  <2>4. pending' \in 0..FrameLen - 1 + MaxPacket
    BY <1>1, <1>2, <1>9, <2>1 DEF onData, DeviceType
  <2>5. DeviceType'
    BY <1>2, <1>9, <2>4 DEF onData, DeviceType
  <2>6. LifeInv'
    BY <1>2, <1>9 DEF onData, LifeInv
  <2>7. QED BY <2>3, <2>5, <2>6 DEF FifoInv
<1>10. CASE handler
  <2>1. /\ pending' = pending - FrameLen /\ pending >= FrameLen /\ prod.at = "idle"
        /\ side' = side /\ main' = main /\ running' = running /\ failed' = failed
        /\ client' = client /\ dev' = dev /\ signalled' = signalled
        /\ dev = "busy" /\ side = "mic" /\ writeBegin(FrameLen)
    BY <1>10 DEF handler, writeBegin
  <2>2. pending' \in Nat /\ wr + FrameLen + pending' <= MaxItems
    BY <1>1, <1>3, <2>1
  <2>3. RingInv'
    BY <1>1, <1>2, <2>1, <2>2, WriteBeginSafe
  <2>4. pending' \in 0..FrameLen - 1 + MaxPacket
    BY <1>1, <1>2, <2>1 DEF DeviceType
  <2>5. DeviceType' /\ LifeInv'
    BY <1>2, <2>1, <2>4 DEF DeviceType, LifeInv
  <2>6. QED BY <2>3, <2>5 DEF FifoInv
<1>11. QED BY <1>5, <1>6, <1>7, <1>8, <1>9, <1>10 DEF Use

(* Steps of the two threads beside the ring.                               *)
LEMMA LifeStepSafe == ASSUME FifoInv, Device \/ Life \/ join PROVE FifoInv'
<1>1. UNCHANGED ringVars /\ pending' = pending
  BY DEF Device, Life, join, loopTop, wakes, waitTimesOut, deviceDone, streamClosed, start,
         startFails, stop, onError
<1>2. RingInv'
  <2>1. pending' \in Nat /\ wr + prod.count + pending' <= MaxItems
    BY <1>1 DEF FifoInv, RingInv, IndexInv
  <2>2. QED BY <1>1, <2>1, RingStays DEF FifoInv
<1>3. DeviceType /\ LifeInv
  BY DEF FifoInv
<1>4. CASE Device
  <2>1. failed' \in BOOLEAN /\ signalled' \in BOOLEAN
    BY <1>3, <1>4 DEF Device, loopTop, wakes, waitTimesOut, deviceDone, streamClosed,
                      DeviceType
  <2>2. /\ side' = side /\ main' = main /\ running' = running /\ client' = client
        /\ dev' \in {"top", "wait", "busy", "exited"} /\ dev \in {"top", "wait", "busy", "reading"}
    BY <1>4 DEF Device, loopTop, wakes, waitTimesOut, deviceDone, streamClosed
  <2>3. pending' < FrameLen \/ dev' = "busy"
    BY <1>3, <1>4, FifoAssumption
    DEF Device, loopTop, wakes, waitTimesOut, deviceDone, streamClosed, DeviceType,
        FifoAssumption
  <2>4. QED BY <1>1, <1>2, <1>3, <2>1, <2>2, <2>3 DEF FifoInv, DeviceType, LifeInv
<1>5. CASE Life
  <2>1. /\ running' \in BOOLEAN /\ failed' \in BOOLEAN /\ signalled' \in BOOLEAN
        /\ client' \in BOOLEAN
    BY <1>3, <1>5 DEF Life, start, startFails, stop, onError, DeviceType
  <2>2. LifeInv'
    BY <1>3, <1>5 DEF Life, start, startFails, stop, onError, LifeInv
  <2>3. /\ side' = side /\ main' \in {"off", "on", "stopping", "stopped"}
        /\ dev' \in {"none", "top", "wait", "busy", "reading", "exited"}
        /\ dev' = dev \/ dev = "none"
    BY <1>3, <1>5 DEF Life, start, startFails, stop, onError, DeviceType, LifeInv
  <2>4. QED BY <1>1, <1>2, <1>3, <2>1, <2>2, <2>3 DEF FifoInv, DeviceType
<1>6. CASE join
  <2>1. signalled' \in BOOLEAN /\ client' \in BOOLEAN
    BY <1>6 DEF join
  <2>2. QED BY <1>1, <1>2, <1>3, <1>6, <2>1 DEF join, FifoInv, DeviceType, LifeInv
<1>7. QED BY <1>4, <1>5, <1>6

(* Both threads keep the invariant, step by step.                          *)
THEOREM FifoInvariant == Spec => []FifoInv
<1>1. ASSUME FifoInv, [Next]_vars PROVE FifoInv'
  <2>1. CASE UNCHANGED vars
    <3>1. UNCHANGED deviceVars /\ UNCHANGED ringVars /\ pending' = pending
      BY <2>1 DEF vars, deviceVars, ringVars
    <3>2. pending' \in Nat /\ wr + prod.count + pending' <= MaxItems
      BY <1>1, <3>1 DEF FifoInv, RingInv, IndexInv
    <3>3. QED BY <1>1, <3>1, <3>2, RingStays, DeviceStays DEF FifoInv
  <2>2. QED BY <1>1, <2>1, RingStepSafe, UseStepSafe, LifeStepSafe DEF Next
<1>2. QED BY <1>1, FifoInit, PTL DEF Spec

-----------------------------------------------------------------------------
(* The state stays well formed; no whole frame is held back between two    *)
(* callbacks of the phone's capture.                                       *)
THEOREM FifoTypeSafety == Spec => []FifoTypeOK
<1>1. ASSUME FifoInv PROVE FifoTypeOK
  <2>1. wr \in 0..MaxItems /\ rd \in 0..MaxItems /\ next \in 0..MaxItems
    BY <1>1, RingFields DEF FifoInv, RingInv, IndexInv
  <2>2. QED BY <1>1, <2>1 DEF FifoInv, RingInv, RingType, DeviceType, FifoTypeOK
<1>2. QED BY <1>1, FifoInvariant, PTL

(* Until samples are first dropped, the reader is given every sample once, *)
(* in order, as it was written.  (ring_buffer.h, write and read)           *)
THEOREM OrderSafety == Spec => []InOrderUntilOverrun
<1>1. FifoInv => InOrderUntilOverrun
  BY DEF FifoInv, RingInv
<1>2. QED BY <1>1, FifoInvariant, PTL

(* A drop in the middle of a read is undone by the next write that no read *)
(* overlaps.  (ring_buffer.h, write)                                       *)
THEOREM RepairSafety == Spec => []HarmIsRepaired
<1>1. ASSUME FifoInv, ~torn PROVE wr - rd <= Capacity /\ \A i \in rd..wr - 1 : data[slot(i)] = i
  <2>1. RingType /\ IndexInv /\ RoomInv /\ ContentsInv
    BY <1>1 DEF FifoInv, RingInv
  <2>2. /\ wr \in Int /\ rd \in Int /\ prod.k \in Nat /\ prod.count \in Nat /\ Capacity \in Nat
        /\ wr - rd <= Capacity /\ prod.k <= prod.count
        /\ prod.at = "copy" => wr + prod.count - rd <= Capacity
        /\ prod.at # "copy" => prod.k = 0
    BY <1>1, <2>1, RingFields DEF RoomInv, IndexInv
  <2>3. (wr + prod.k) - Capacity <= rd
    BY <2>2
  <2>4. \A i \in rd..wr - 1 : i \in (wr + prod.k) - Capacity..(wr + prod.k) - 1
    BY <2>2, <2>3
  <2>5. QED BY <2>1, <2>2, <2>4 DEF ContentsInv
<1>2. FifoInv => HarmIsRepaired
  BY <1>1 DEF HarmIsRepaired
<1>3. QED BY <1>2, FifoInvariant, PTL

(* A sample that is not the one written at its index is delivered by a     *)
(* read under whose feet an overrun has dropped samples, and by no other:  *)
(* neither by the reads that merely overlap a write, nor by those after    *)
(* the repair.  (ring_buffer.h, read)                                      *)
WrongOnlyWhileTorn == [][garbled' # garbled => torn]_vars

(* The same for every capacity, frame and packet.  (ring_buffer.h, read)   *)
THEOREM DeliverySafety == Spec => WrongOnlyWhileTorn
<1> DEFINE Step == garbled' # garbled => torn
<1>1. ASSUME FifoInv, [Next]_vars PROVE [Step]_vars
  <2>1. CASE readCopy
    <3>1. torn \/ data[slot(cons.r + cons.k)] = cons.r + cons.k
      BY <1>1, <2>1, ReadsWhatWasWritten DEF FifoInv, RingInv, RingType
    <3>2. garbled \in BOOLEAN
      BY <1>1 DEF FifoInv, RingInv, RingType
    <3>3. QED BY <2>1, <3>1, <3>2 DEF readCopy
  <2>2. CASE ~readCopy
    <3>1. garbled' = garbled
      BY <1>1, <2>2 DEF Next, Ring, Device, Use, Life, join, writeDrop, writeCopy,
         writePublish, readStore, loopTop, wakes, waitTimesOut, deviceDone, streamClosed,
         sourceRead, sinkWrite, capturePacket, renderPacket, onData, handler, start,
         startFails, stop, onError, readBegin, writeBegin, vars, ringVars
    <3>2. QED BY <3>1
  <2>3. QED BY <2>1, <2>2
<1>2. QED BY <1>1, FifoInvariant, PTL DEF Spec, WrongOnlyWhileTorn

(* The device's thread never works with a client that was given back.      *)
(* (wasapi_capture_source.cpp and wasapi_render_sink.cpp, stop)            *)
THEOREM StopSafety == Spec => []NoUseAfterStop
<1>1. FifoInv => NoUseAfterStop
  BY DEF FifoInv, DeviceType, LifeInv, NoUseAfterStop
<1>2. QED BY <1>1, FifoInvariant, PTL
=============================================================================
