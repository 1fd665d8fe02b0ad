-------------------------- MODULE JitterBuffer_proofs --------------------------
(***************************************************************************)
(* Proofs about JitterBuffer, for a queue of any length, any prefill and a *)
(* network that delays and reorders as many packets as it likes.           *)
(***************************************************************************)
EXTENDS JitterBuffer, WellFoundedInduction, FunctionTheorems, FiniteSetTheorems, TLAPS

-----------------------------------------------------------------------------
(* The operators on sets of packets.                                       *)

Moved(k, n) == [k EXCEPT !.off = @ - n]

LEMMA ShiftIs ==
  ASSUME NEW S \in SUBSET Packet, NEW n \in Int
  PROVE  /\ Shift(S, n) \in SUBSET Packet
         /\ \A m \in Shift(S, n) : \E k \in S :
              /\ m = Moved(k, n)
              /\ m.off = k.off - n /\ m.old = k.old /\ m.marker = k.marker
         /\ \A k \in S : \E m \in Shift(S, n) : m.off = k.off - n
         /\ Offs(Shift(S, n)) = {k.off - n : k \in S}
<1>1. ASSUME NEW k \in S
      PROVE  /\ Moved(k, n) \in Packet /\ Moved(k, n).off = k.off - n
             /\ Moved(k, n).old = k.old /\ Moved(k, n).marker = k.marker
  BY DEF Packet, Moved
<1>2. \A m : m \in Shift(S, n) <=> \E k \in S : m = Moved(k, n)
  BY DEF Shift, Moved
<1>3. \A m \in Shift(S, n) : \E k \in S : m = Moved(k, n)
  BY <1>2
<1>4. Shift(S, n) \in SUBSET Packet
  BY <1>1, <1>2
<1>5. \A m \in Shift(S, n) : \E k \in S :
        m = Moved(k, n) /\ m.off = k.off - n /\ m.old = k.old /\ m.marker = k.marker
  BY <1>1, <1>3
<1>6. \A k \in S : \E m \in Shift(S, n) : m.off = k.off - n
  BY <1>1, <1>2
<1>7. Offs(Shift(S, n)) = {k.off - n : k \in S}
  BY <1>5, <1>6 DEF Offs
<1>8. QED BY <1>4, <1>5, <1>6, <1>7

(* One packet further.                                                     *)
LEMMA ShiftByOne ==
  ASSUME NEW S \in SUBSET Packet
  PROVE  /\ Shift(S, 1) \in SUBSET Packet
         /\ \A m \in Shift(S, 1) : \E k \in S :
              m = Moved(k, 1) /\ m.off = k.off - 1 /\ m.old = k.old /\ m.marker = k.marker
         /\ \A k \in S : \E m \in Shift(S, 1) : m.off = k.off - 1
         /\ Offs(Shift(S, 1)) = {k.off - 1 : k \in S}
<1>1. 1 \in Int
  OBVIOUS
<1>2. Shift(S, 1) \in SUBSET Packet
  BY <1>1, ShiftIs
<1>3. ASSUME NEW m \in Shift(S, 1)
      PROVE  \E k \in S : m = Moved(k, 1) /\ m.off = k.off - 1 /\ m.old = k.old
                          /\ m.marker = k.marker
  BY <1>1, ShiftIs
<1>4. ASSUME NEW k \in S PROVE \E m \in Shift(S, 1) : m.off = k.off - 1
  BY <1>1, ShiftIs
<1>5. Offs(Shift(S, 1)) = {k.off - 1 : k \in S}
  <2>1. S \in SUBSET Packet /\ 1 \in Int
    OBVIOUS
  <2>2. QED BY ONLY <2>1, ShiftIs
<1>6. QED BY <1>2, <1>3, <1>4, <1>5

LEMMA AgedIs ==
  ASSUME NEW S \in SUBSET Packet
  PROVE  /\ Aged(S) \in SUBSET Packet
         /\ \A m \in Aged(S) : \E k \in S :
              m = [k EXCEPT !.old = TRUE] /\ m.off = k.off /\ m.old /\ m.marker = k.marker
         /\ \A k \in S : \E m \in Aged(S) : m.off = k.off
<1> DEFINE aged(k) == [k EXCEPT !.old = TRUE]
<1>1. ASSUME NEW k \in S
      PROVE  aged(k) \in Packet /\ aged(k).off = k.off /\ aged(k).old = TRUE
             /\ aged(k).marker = k.marker
  BY DEF Packet
<1>2. \A m : m \in Aged(S) <=> \E k \in S : m = aged(k)
  BY DEF Aged
<1> HIDE DEF aged
<1>3. Aged(S) \in SUBSET Packet
  BY <1>1, <1>2
<1>4. \A m \in Aged(S) : \E k \in S :
        m = aged(k) /\ m.off = k.off /\ m.old /\ m.marker = k.marker
  <2> SUFFICES ASSUME NEW m \in Aged(S)
               PROVE  \E k \in S : m = aged(k) /\ m.off = k.off /\ m.old
                                  /\ m.marker = k.marker
    OBVIOUS
  <2>1. PICK k \in S : m = aged(k)
    BY <1>2
  <2>2. m.off = k.off /\ m.old = TRUE /\ m.marker = k.marker
    BY <1>1, <2>1
  <2>3. QED BY <2>1, <2>2
<1>5. \A k \in S : \E m \in Aged(S) : m.off = k.off
  <2> TAKE k \in S
  <2>1. aged(k) \in Aged(S)
    BY <1>2
  <2>2. aged(k).off = k.off
    BY <1>1
  <2>3. QED BY <2>1, <2>2
<1>6. QED BY <1>3, <1>4, <1>5 DEF aged

(* Neither makes packets.                                                  *)
LEMMA MappedCardinality ==
  ASSUME NEW S \in SUBSET Packet, IsFiniteSet(S), NEW n \in Int
  PROVE  /\ IsFiniteSet(Shift(S, n)) /\ Cardinality(Shift(S, n)) <= Cardinality(S)
         /\ IsFiniteSet(Aged(S)) /\ Cardinality(Aged(S)) <= Cardinality(S)
<1> DEFINE f == [m \in S |-> [m EXCEPT !.off = @ - n]]
           g == [m \in S |-> [m EXCEPT !.old = TRUE]]
<1>1. f \in Surjection(S, Shift(S, n))
  BY DEF Surjection, Shift
<1>2. g \in Surjection(S, Aged(S))
  BY DEF Surjection, Aged
<1> HIDE DEF f, g
<1>3. QED BY <1>1, <1>2, FS_Surjection

LEMMA LeastOf ==
  ASSUME NEW D \in SUBSET Nat, D # {}
  PROVE  \E d \in D : \A e \in D : d <= e
<1> DEFINE R == OpToRel(<, Nat)
<1>1. IsWellFoundedOn(R, Nat)
  BY NatLessThanWellFounded
<1>2. \A x, y \in Nat : x < y => <<x, y>> \in R
  BY DEF OpToRel
<1> HIDE DEF R
<1>3. PICK d \in D : \A e \in D : <<e, d>> \notin R
  BY <1>1, WFMin
<1>4. ASSUME NEW e \in D PROVE d <= e
  <2>1. ~(e < d)
    BY <1>2, <1>3
  <2>2. QED BY <2>1
<1>5. QED BY <1>4

(* What may be queued: packets that can still be played, once each, and no *)
(* more than the queue holds.                                              *)
Queueable(q) ==
  /\ q \in SUBSET Packet /\ IsFiniteSet(q) /\ Cardinality(q) <= MaxEntries
  /\ \A m \in q : m.off >= 0
  /\ \A m, n \in q : m.off = n.off => m = n

(* A full queue makes room by giving up one packet, its first.             *)
LEMMA EvictedFits ==
  ASSUME NEW q, Queueable(q)
  PROVE  /\ evicted(q) \in SUBSET q /\ IsFiniteSet(evicted(q))
         /\ Cardinality(evicted(q)) < MaxEntries
         /\ ~full(q) => evicted(q) = q
<1>1. Cardinality(q) \in Nat /\ MaxEntries \in Nat \ {0}
  BY FS_CardinalityType, JitterAssumption DEF Queueable, JitterAssumption
<1>2. CASE ~full(q)
  BY <1>1, <1>2 DEF evicted, full, Queueable
<1>3. CASE full(q)
  <2>1. q # {}
    BY <1>1, <1>3, FS_EmptySet DEF full
  <2>2. Offs(q) \in SUBSET Nat /\ Offs(q) # {}
    BY <2>1 DEF Queueable, Offs, Packet
  <2>3. Min(Offs(q)) \in Offs(q)
    <3>1. \E x \in Offs(q) : \A y \in Offs(q) : x <= y
      BY <2>2, LeastOf
    <3>2. QED BY <3>1 DEF Min
  <2>4. PICK k \in q : k.off = Min(Offs(q))
    BY <2>3 DEF Offs
  <2>5. evicted(q) = q \ {k}
    BY <1>3, <2>4 DEF evicted, Queueable
  <2>6. Cardinality(evicted(q)) = Cardinality(q) - 1 /\ IsFiniteSet(evicted(q))
    BY <2>4, <2>5, FS_RemoveElement DEF Queueable
  <2>7. QED BY <1>1, <1>3, <2>5, <2>6 DEF Queueable
<1>4. QED BY <1>2, <1>3

(* push() keeps the queue fit to be played, and drops nothing but a packet *)
(* that is late or known, unless the queue is full.                        *)
LEMMA PushFits ==
  ASSUME NEW q, Queueable(q), NEW m \in Packet
  PROVE  /\ Queueable(push(q, m)) /\ push(q, m) \subseteq q \union {m}
         /\ m \in push(q, m) => m.off >= 0 \/ m \in q
         /\ ~full(q) /\ m.off >= 0 => Offs(push(q, m)) = Offs(q) \union {m.off}
<1>1. CASE m.off < 0 \/ m.off \in Offs(q)
  BY <1>1 DEF push, Offs, Packet
<1>2. CASE ~(m.off < 0 \/ m.off \in Offs(q))
  <2>1. push(q, m) = evicted(q) \union {m} /\ m.off \in Int
    BY <1>2 DEF push, Packet
  <2>2. /\ evicted(q) \in SUBSET q /\ IsFiniteSet(evicted(q))
        /\ Cardinality(evicted(q)) < MaxEntries
        /\ ~full(q) => evicted(q) = q
    BY EvictedFits
  <2>3. Cardinality(evicted(q)) \in Nat /\ MaxEntries \in Nat
    BY <2>2, FS_CardinalityType, JitterAssumption DEF JitterAssumption
  <2>4. /\ IsFiniteSet(evicted(q) \union {m})
        /\ Cardinality(evicted(q) \union {m}) <= MaxEntries
    <3>1. Cardinality(evicted(q) \union {m}) \in {Cardinality(evicted(q)),
                                                Cardinality(evicted(q)) + 1}
      BY <2>2, FS_AddElement
    <3>2. QED BY <2>2, <2>3, <3>1, FS_AddElement
  <2>5. Queueable(push(q, m))
    BY <1>2, <2>1, <2>2, <2>4 DEF Queueable, Offs
  <2>6. QED BY <1>2, <2>1, <2>2, <2>5 DEF Offs
<1>3. QED BY <1>1, <1>2-----------------------------------------------------------------------------
(* The invariant.  Packets are told apart by their offsets, old ones come  *)
(* before new ones, and nothing is ahead of the phone.                     *)
All == flight \union queue

PacketInv ==
  /\ ahead \in Nat /\ flight \in SUBSET Packet /\ Queueable(queue)
  /\ flight \intersect queue = {}
  /\ \A m \in All : m.off < ahead
  /\ \A m, n \in All : m.off = n.off => m = n
  /\ ~started => queue = {}

OrderInv == \A m, n \in All : m.old /\ ~n.old => m.off < n.off

(* Once this press's marker is neither with the phone nor on its way, and  *)
(* was sent, it has a place p that no packet takes any more and that every *)
(* old packet is before.  It was lost there, or the stream began there;    *)
(* and if the stream is intact, the play position has reached it.          *)
MarkerAt(p) ==
  /\ p < ahead
  /\ \A m \in flight : m.off # p
  /\ \A m \in All : m.old => m.off < p
  /\ intact => p <= 0

MarkerGone ==
  /\ pressed = "down" /\ ~marker /\ ~lostMark
  /\ \A m \in packing : m.marker => m.old
  /\ \A m \in flight : m.marker => m.old
MarkInv == MarkerGone => \E p \in Int : MarkerAt(p)

(* What is being packed will be the next packet.  If a press has come in   *)
(* between, all there is comes from before it, and its marker is not sent. *)
PackingInv ==
  /\ packing \in SUBSET Packet
  /\ packing # {} => turn = "capture"
  /\ \A m, n \in packing : m = n
  /\ \A m \in packing :
       /\ m.off = ahead
       /\ m.old => (pressed = "down" => marker) /\ \A n \in All : n.old

JitterInv ==
  /\ PacketInv /\ OrderInv /\ MarkInv /\ NothingVanishes /\ PackingInv
  /\ marker \in BOOLEAN /\ lostMark \in BOOLEAN

LEMMA JitterInit == Init => JitterInv
<1> SUFFICES ASSUME Init PROVE JitterInv
  OBVIOUS
<1>1. Queueable({})
  BY FS_EmptySet, JitterAssumption DEF Queueable, JitterAssumption
<1>2. PacketInv
  BY <1>1 DEF Init, PacketInv, All
<1>3. OrderInv /\ MarkInv /\ PackingInv /\ marker \in BOOLEAN /\ lostMark \in BOOLEAN
  BY DEF Init, OrderInv, MarkInv, MarkerGone, PackingInv, All
<1>4. NothingVanishes
  BY DEF Init, NothingVanishes, Offs
<1>5. QED BY <1>2, <1>3, <1>4 DEF JitterInv

(* Steps that touch neither packets nor the play position.                 *)
LEMMA StaysAsItIs ==
  ASSUME JitterInv, UNCHANGED <<packing, ahead, flight, started, queue, intact>>,
         marker' \in BOOLEAN, lostMark' \in BOOLEAN,
         packing = {} \/ turn' = turn,
         pressed' # "down" \/ marker' \/ UNCHANGED <<pressed, marker, lostMark>>
  PROVE  JitterInv'
<1>1. PacketInv' /\ OrderInv' /\ NothingVanishes'
  BY DEF JitterInv, PacketInv, OrderInv, NothingVanishes, All, Offs, Queueable
<1>2. MarkInv'
  <2>1. CASE pressed' # "down" \/ marker'
    BY <2>1 DEF MarkInv, MarkerGone
  <2>2. CASE UNCHANGED <<pressed, marker, lostMark>>
    BY <2>2 DEF JitterInv, MarkInv, MarkerGone, MarkerAt, All
  <2>3. QED BY <2>1, <2>2
<1>3. PackingInv'
  <2>1. /\ packing' = packing /\ packing \in SUBSET Packet /\ ahead' = ahead /\ All' = All
        /\ packing' # {} => turn' = "capture"
        /\ \A m, n \in packing : m = n
    BY DEF JitterInv, PackingInv, All
  <2>2. ASSUME NEW m \in packing
        PROVE  /\ m.off = ahead
               /\ m.old => (pressed = "down" => marker) /\ \A n \in All : n.old
    BY DEF JitterInv, PackingInv
  <2>3. (pressed = "down" => marker) => (pressed' = "down" => marker')
    OBVIOUS
  <2>4. QED BY <2>1, <2>2, <2>3 DEF PackingInv
<1>4. QED BY <1>1, <1>2, <1>3 DEF JitterInv

(* A press: what there is becomes old.                                     *)
LEMMA PressSafe == ASSUME JitterInv, press PROVE JitterInv'
<1> USE DEF JitterInv
<1>1. /\ flight' = Aged(flight) /\ queue' = Aged(queue)
      /\ ahead' = ahead /\ started' = started /\ intact' = intact
      /\ marker' = marker /\ lostMark' = lostMark /\ pressed' = "pressing"
      /\ packing' = Aged(packing) /\ turn' = turn
  BY DEF press
<1>2. /\ flight \in SUBSET Packet /\ queue \in SUBSET Packet /\ ahead \in Nat
      /\ IsFiniteSet(queue) /\ Cardinality(queue) <= MaxEntries
  BY DEF PacketInv, Queueable
<1>3. /\ Aged(flight) \in SUBSET Packet
      /\ \A m \in Aged(flight) : \E k \in flight : m = [k EXCEPT !.old = TRUE] /\ m.off = k.off /\ m.old
      /\ \A k \in flight : \E m \in Aged(flight) : m.off = k.off
  BY <1>2, AgedIs
<1>4. /\ Aged(queue) \in SUBSET Packet
      /\ \A m \in Aged(queue) : \E k \in queue : m = [k EXCEPT !.old = TRUE] /\ m.off = k.off /\ m.old
      /\ \A k \in queue : \E m \in Aged(queue) : m.off = k.off
  BY <1>2, AgedIs
<1>5. \A m \in All' : \E k \in All : m = [k EXCEPT !.old = TRUE] /\ m.off = k.off /\ m.old
  BY <1>1, <1>3, <1>4 DEF All
<1>6. \A m, n \in All' : m.off = n.off => m = n
  <2> SUFFICES ASSUME NEW m \in All', NEW n \in All', m.off = n.off PROVE m = n
    OBVIOUS
  <2>1. PICK k \in All : m = [k EXCEPT !.old = TRUE] /\ m.off = k.off
    BY <1>5
  <2>2. PICK l \in All : n = [l EXCEPT !.old = TRUE] /\ n.off = l.off
    BY <1>5
  <2>3. k = l
    BY <2>1, <2>2 DEF PacketInv
  <2>4. QED BY <2>1, <2>2, <2>3
<1>7. \A m \in All' : m.off < ahead'
  BY <1>1, <1>5 DEF PacketInv
<1>8. flight' \intersect queue' = {}
  <2> SUFFICES ASSUME NEW m, m \in flight', m \in queue' PROVE FALSE
    OBVIOUS
  <2>1. PICK k \in flight : m.off = k.off
    BY <1>1, <1>3
  <2>2. PICK l \in queue : m.off = l.off
    BY <1>1, <1>4
  <2>3. QED BY <2>1, <2>2 DEF PacketInv, All
<1>9. Queueable(queue')
  <2>1. IsFiniteSet(queue') /\ Cardinality(queue') <= Cardinality(queue)
    BY <1>1, <1>2, MappedCardinality, 0 \in Int
  <2>2. Cardinality(queue') <= MaxEntries
    <3>1. Cardinality(queue) \in Nat /\ Cardinality(queue') \in Nat /\ MaxEntries \in Nat
      BY <1>2, <2>1, FS_CardinalityType, JitterAssumption DEF JitterAssumption
    <3>2. QED BY <1>2, <2>1, <3>1
  <2>3. \A m \in queue' : m.off >= 0
    BY <1>1, <1>4 DEF PacketInv, Queueable
  <2>4. QED BY <1>1, <1>4, <1>6, <2>1, <2>2, <2>3 DEF Queueable, All
<1>10. ~started' => queue' = {}
  BY <1>1, <1>4 DEF PacketInv
<1>11. PacketInv'
  BY <1>1, <1>2, <1>3, <1>6, <1>7, <1>8, <1>9, <1>10 DEF PacketInv, Queueable
<1>12. OrderInv'
  BY <1>5 DEF OrderInv
<1>13. MarkInv'
  BY <1>1 DEF MarkInv, MarkerGone
<1>14. NothingVanishes'
  <2>1. Offs(flight') = Offs(flight)
    BY <1>1, <1>3 DEF Offs
  <2>2. Offs(queue') = Offs(queue)
    BY <1>1, <1>4 DEF Offs
  <2>3. QED BY <1>1, <2>1, <2>2 DEF NothingVanishes
<1>15. PackingInv'
  <2>1. /\ packing \in SUBSET Packet /\ (packing # {} => turn = "capture")
        /\ (\A m, n \in packing : m = n) /\ \A m \in packing : m.off = ahead
    BY DEF PackingInv
  <2>2. /\ Aged(packing) \in SUBSET Packet
        /\ \A m \in Aged(packing) : \E k \in packing : m = [k EXCEPT !.old = TRUE] /\ m.off = k.off
    BY <2>1, AgedIs
  <2>3. \A m, n \in Aged(packing) : m = n
    BY <2>1, <2>2
  <2>4. \A m \in Aged(packing) : m.off = ahead /\ packing # {}
    BY <2>1, <2>2
  <2>5. \A n \in All' : n.old
    BY <1>5
  <2>6. QED BY <1>1, <2>1, <2>2, <2>3, <2>4, <2>5 DEF PackingInv
<1>16. QED BY <1>1, <1>11, <1>12, <1>13, <1>14, <1>15
(* A packet is begun: with this press's marker, if it is with the phone.   *)
LEMMA CaptureSafe == ASSUME JitterInv, onCaptureFrame PROVE JitterInv'
<1> DEFINE p == [off |-> ahead, marker |-> marker, old |-> FALSE]
<1>1. /\ turn = "capture" /\ packing = {} /\ packing' = {p}
      /\ UNCHANGED <<pressed, marker, lostMark, ahead, flight, started, queue, turn, intact>>
  BY DEF onCaptureFrame
<1>2. p \in Packet /\ p.off = ahead /\ p.old = FALSE
  BY DEF JitterInv, PacketInv, Packet
<1> HIDE DEF p
<1>3. PacketInv' /\ OrderInv' /\ NothingVanishes'
  BY <1>1 DEF JitterInv, PacketInv, OrderInv, NothingVanishes, All, Offs, Queueable
<1>4. MarkInv'
  <2>1. MarkerGone' => MarkerGone
    BY <1>1 DEF MarkerGone
  <2>2. QED BY <1>1, <2>1 DEF JitterInv, MarkInv, MarkerAt, All
<1>5. PackingInv'
  BY <1>1, <1>2 DEF PackingInv
<1>6. QED BY <1>1, <1>3, <1>4, <1>5 DEF JitterInv

(* A packet leaves the phone ahead of everything.                          *)
LEMMA PackSafe == ASSUME JitterInv, packFrame PROVE JitterInv'
<1>1. /\ packing # {} /\ flight' = flight \union packing /\ ahead' = ahead + 1
      /\ marker' = FALSE /\ packing' = {}
      /\ pressed' = pressed /\ queue' = queue /\ started' = started /\ intact' = intact
      /\ lostMark' = (lostMark \/ (pressed = "down" /\ marker /\ ~marksThisPress))
  BY DEF packFrame
<1>2. marker \in BOOLEAN /\ lostMark \in BOOLEAN /\ lostMark' \in BOOLEAN
  BY <1>1 DEF JitterInv
<1>3. /\ ahead \in Nat /\ flight \in SUBSET Packet /\ queue \in SUBSET Packet
      /\ Queueable(queue)
  BY DEF JitterInv, PacketInv, Queueable
<1>4. PICK p \in packing : packing = {p}
  <2>1. \A m, n \in packing : m = n
    BY DEF JitterInv, PackingInv
  <2>2. QED BY <1>1, <2>1
<1>5. /\ p \in Packet /\ p.off = ahead
      /\ p.old => (pressed = "down" => marker) /\ \A n \in All : n.old
  BY DEF JitterInv, PackingInv
<1>6. All' = All \union {p} /\ All \in SUBSET Packet
  BY <1>1, <1>3, <1>4 DEF All
<1>7. \A m \in All : m.off \in Int /\ m.off < ahead
  BY <1>6 DEF JitterInv, PacketInv, Packet
<1>8. PacketInv'
  <2>1. flight' \intersect queue' = {}
    <3>1. p \notin queue
      BY <1>3, <1>5, <1>7 DEF All
    <3>2. flight \intersect queue = {}
      BY DEF JitterInv, PacketInv
    <3>3. QED BY <1>1, <1>4, <3>1, <3>2
  <2>2. \A m \in All' : m.off < ahead'
    BY <1>1, <1>3, <1>5, <1>6, <1>7
  <2>3. \A m, n \in All' : m.off = n.off => m = n
    BY <1>3, <1>5, <1>6, <1>7 DEF JitterInv, PacketInv
  <2>4. (~started => queue = {})'
    BY <1>1 DEF JitterInv, PacketInv
  <2>5. Queueable(queue)'
    BY <1>1, <1>3 DEF Queueable
  <2>6. ahead' \in Nat /\ flight' \in SUBSET Packet
    BY <1>1, <1>3, <1>4, <1>5
  <2>7. QED BY <2>1, <2>2, <2>3, <2>4, <2>5, <2>6 DEF PacketInv
<1>9. OrderInv'
  <2> SUFFICES ASSUME NEW m \in All', NEW n \in All', m.old, ~n.old PROVE m.off < n.off
    BY DEF OrderInv
  <2>1. CASE m \in All /\ n \in All
    BY <2>1 DEF JitterInv, OrderInv
  <2>2. CASE m \in All /\ n = p
    BY <1>5, <1>7, <2>2
  <2>3. CASE m = p
    BY <1>5, <1>6, <2>3
  <2>4. QED BY <1>6, <2>1, <2>2, <2>3
<1>10. MarkInv'
  <2> SUFFICES ASSUME MarkerGone' PROVE \E q \in Int : MarkerAt(q)'
    BY DEF MarkInv
  <2>1. pressed = "down" /\ ~lostMark' /\ \A m \in flight' : m.marker => m.old
    BY <1>1 DEF MarkerGone
  <2>2. ~marksThisPress
    BY <1>1, <2>1 DEF marksThisPress
  <2>3. ~lostMark /\ ~marker
    BY <1>1, <2>1, <2>2
  <2>4. MarkerGone
    BY <1>1, <2>1, <2>3 DEF MarkerGone
  <2>5. PICK q \in Int : MarkerAt(q)
    BY <2>4 DEF JitterInv, MarkInv
  <2>6. ~p.old
    BY <1>5, <2>1, <2>3
  <2>7. q < ahead'
    BY <1>1, <1>3, <2>5 DEF MarkerAt
  <2>8. \A m \in flight' : m.off # q
    BY <1>1, <1>3, <1>4, <1>5, <2>5 DEF MarkerAt
  <2>9. \A m \in All' : m.old => m.off < q
    BY <1>6, <2>5, <2>6 DEF MarkerAt
  <2>10. QED BY <1>1, <2>5, <2>7, <2>8, <2>9 DEF MarkerAt
<1>11. NothingVanishes'
  <2>1. Offs(flight') = Offs(flight) \union {ahead} /\ Offs(queue') = Offs(queue)
    BY <1>1, <1>4, <1>5 DEF Offs
  <2>2. 0..ahead' - 1 = (0..ahead - 1) \union {ahead}
    BY <1>1, <1>3
  <2>3. QED BY <1>1, <2>1, <2>2 DEF JitterInv, NothingVanishes
<1>12. PackingInv'
  BY <1>1 DEF PackingInv
<1>13. QED BY <1>1, <1>2, <1>8, <1>9, <1>10, <1>11, <1>12 DEF JitterInv

(* A lost marker leaves its place empty, and the stream is not intact.     *)
LEMMA LoseSafe == ASSUME JitterInv, NEW m \in flight, lose(m) PROVE JitterInv'
<1>0. packing = {} /\ packing' = {} /\ lostMark' = lostMark
  BY DEF lose, phoneVars, JitterInv, PackingInv
<1>1. /\ flight' = flight \ {m} /\ ~intact' /\ ahead' = ahead
      /\ marker' = marker /\ pressed' = pressed /\ queue' = queue /\ started' = started
  <2>1. intact' = FALSE
    BY DEF lose
  <2>2. /\ flight' = flight \ {m} /\ ahead' = ahead /\ marker' = marker
        /\ pressed' = pressed /\ queue' = queue /\ started' = started
    BY DEF lose, phoneVars
  <2>3. QED BY <2>1, <2>2
<1>2. All' \in SUBSET All /\ m \in All /\ flight \in SUBSET All
  BY <1>1 DEF All
<1>3. PacketInv'
  BY <1>1, <1>2 DEF JitterInv, PacketInv, Queueable
<1>4. OrderInv'
  BY <1>2 DEF JitterInv, OrderInv
<1>5. MarkInv'
  <2> SUFFICES ASSUME pressed' = "down", ~marker', ~lostMark',
                      \A n \in flight' : n.marker => n.old
               PROVE  \E q \in Int : MarkerAt(q)'
    BY <1>0 DEF MarkInv, MarkerGone
  <2>1. CASE \A n \in flight : n.marker => n.old
    <3>1. PICK q \in Int : MarkerAt(q)
      BY <1>0, <1>1, <2>1 DEF JitterInv, MarkInv, MarkerGone
    <3>2. QED BY <1>1, <1>2, <3>1 DEF MarkerAt
  <2>2. CASE m.marker /\ ~m.old
    <3>1. m.off \in Int /\ m.off < ahead
      BY <1>2 DEF JitterInv, PacketInv, Packet
    <3>2. \A n \in flight' : n.off # m.off
      BY <1>1, <1>2 DEF JitterInv, PacketInv
    <3>3. \A n \in All' : n.old => n.off < m.off
      BY <1>2, <2>2 DEF JitterInv, OrderInv
    <3>4. QED BY <1>1, <3>1, <3>2, <3>3 DEF MarkerAt
  <2>3. QED BY <1>1, <2>1, <2>2
<1>6. NothingVanishes' /\ PackingInv' /\ marker' \in BOOLEAN /\ lostMark' \in BOOLEAN
  BY <1>0, <1>1 DEF JitterInv, NothingVanishes, PackingInv
<1>7. QED BY <1>3, <1>4, <1>5, <1>6 DEF JitterInv

(* The play position moves on by one packet.                               *)
LEMMA PopSafe ==
  ASSUME JitterInv, pop, turn = "loop", UNCHANGED <<pressed, marker, packing, lostMark, started>>
  PROVE  JitterInv'
<1>0. packing = {}
  BY DEF JitterInv, PackingInv
<1>1. CASE ~(started /\ advances)
  <2>1. UNCHANGED <<ahead, flight, started, queue, intact>>
    BY <1>1 DEF pop
  <2>2. QED BY <1>0, <2>1, StaysAsItIs DEF JitterInv
<1>2. CASE started /\ advances
  <2>0. packing = {} /\ packing' = {} /\ lostMark' = lostMark
    BY <1>0
  <2>1. /\ queue' = Shift(queue \ found, 1) /\ flight' = Shift(flight, 1)
        /\ ahead' = ahead - 1 /\ queue # {}
        /\ intact' = (intact /\ (found # {} \/ queue = {}))
    BY <1>2 DEF pop, advances
  <2>2. /\ ahead \in Nat /\ flight \in SUBSET Packet /\ queue \in SUBSET Packet
        /\ IsFiniteSet(queue) /\ Cardinality(queue) <= MaxEntries
        /\ found \in SUBSET queue /\ queue \ found \in SUBSET Packet
    BY DEF JitterInv, PacketInv, Queueable, found
  <2>3. /\ Shift(flight, 1) \in SUBSET Packet
        /\ \A m \in Shift(flight, 1) : \E k \in flight :
             m = Moved(k, 1) /\ m.off = k.off - 1 /\ m.old = k.old /\ m.marker = k.marker
        /\ \A k \in flight : \E m \in Shift(flight, 1) : m.off = k.off - 1
    BY <2>2, ShiftByOne
  <2>4. /\ Shift(queue \ found, 1) \in SUBSET Packet
        /\ \A m \in Shift(queue \ found, 1) : \E k \in queue \ found :
             m = Moved(k, 1) /\ m.off = k.off - 1 /\ m.old = k.old /\ m.marker = k.marker
        /\ \A k \in queue \ found : \E m \in Shift(queue \ found, 1) : m.off = k.off - 1
    BY <2>2, ShiftByOne
  <2>5. \A m \in All' : \E k \in All :
          m = Moved(k, 1) /\ m.off = k.off - 1 /\ m.old = k.old
    BY <2>1, <2>3, <2>4 DEF All
  <2>6. \A k \in All : k.off \in Int /\ k.off < ahead
    BY <2>2 DEF JitterInv, PacketInv, All, Packet
  <2>7. ahead' \in Nat
    BY <2>1, <2>2, <2>6 DEF JitterInv, PacketInv, Queueable, All
  <2>8. \A m, n \in All' : m.off = n.off => m = n
    <3> SUFFICES ASSUME NEW m \in All', NEW n \in All', m.off = n.off PROVE m = n
      OBVIOUS
    <3>1. PICK k \in All : m = Moved(k, 1) /\ m.off = k.off - 1
      BY <2>5
    <3>2. PICK l \in All : n = Moved(l, 1) /\ n.off = l.off - 1
      BY <2>5
    <3>3. k.off = l.off
      BY <2>6, <3>1, <3>2
    <3>4. k = l
      BY <3>3 DEF JitterInv, PacketInv
    <3>5. QED BY <3>1, <3>2, <3>4
  <2>9. flight' \intersect queue' = {}
    <3> SUFFICES ASSUME NEW m, m \in flight', m \in queue' PROVE FALSE
      OBVIOUS
    <3>1. PICK k \in flight : m.off = k.off - 1
      BY <2>1, <2>3
    <3>2. PICK l \in queue : m.off = l.off - 1
      BY <2>1, <2>4
    <3>3. k.off = l.off
      BY <2>6, <3>1, <3>2 DEF All
    <3>4. QED BY <3>3 DEF JitterInv, PacketInv, All
  <2>10. Queueable(queue')
    <3>1. IsFiniteSet(queue \ found) /\ Cardinality(queue \ found) <= Cardinality(queue)
      BY <2>2, FS_Subset
    <3>2. IsFiniteSet(queue') /\ Cardinality(queue') <= Cardinality(queue \ found)
      BY <2>1, <2>2, <3>1, MappedCardinality, 1 \in Int
    <3>3. /\ Cardinality(queue) \in Nat /\ Cardinality(queue') \in Nat /\ MaxEntries \in Nat
          /\ Cardinality(queue \ found) \in Nat
      BY <2>2, <3>1, <3>2, FS_CardinalityType, JitterAssumption DEF JitterAssumption
    <3>4. Cardinality(queue') <= MaxEntries
      BY <2>2, <3>1, <3>2, <3>3
    <3>5. \A m \in queue' : m.off >= 0
      BY <2>1, <2>2, <2>4 DEF JitterInv, PacketInv, Queueable, found, Packet
    <3>6. QED BY <2>1, <2>4, <2>8, <3>2, <3>4, <3>5 DEF Queueable, All
  <2>11. PacketInv'
    <3>1. \A m \in All' : m.off < ahead'
      BY <2>1, <2>2, <2>5, <2>6
    <3>2. QED BY <1>2, <2>1, <2>3, <2>7, <2>8, <2>9, <2>10, <3>1 DEF PacketInv
  <2>12. OrderInv'
    <3> SUFFICES ASSUME NEW m \in All', NEW n \in All', m.old, ~n.old PROVE m.off < n.off
      BY DEF OrderInv
    <3>1. PICK k \in All : m.off = k.off - 1 /\ m.old = k.old
      BY <2>5
    <3>2. PICK l \in All : n.off = l.off - 1 /\ n.old = l.old
      BY <2>5
    <3>3. k.off < l.off
      BY <3>1, <3>2 DEF JitterInv, OrderInv
    <3>4. QED BY <2>6, <3>1, <3>2, <3>3
  <2>13. MarkInv'
    <3> SUFFICES ASSUME pressed' = "down", ~marker', ~lostMark',
                        \A m \in flight' : m.marker => m.old
                 PROVE  \E q \in Int : MarkerAt(q)'
      BY <2>0 DEF MarkInv, MarkerGone
    <3>1. \A k \in flight : k.marker => k.old
      <4> SUFFICES ASSUME NEW k \in flight, k.marker PROVE k.old
        OBVIOUS
      <4>1. PICK m \in flight' : m.off = k.off - 1
        BY <2>1, <2>3
      <4>2. PICK l \in flight : m.off = l.off - 1 /\ m.old = l.old /\ m.marker = l.marker
        BY <2>1, <2>3
      <4>3. k = l
        BY <2>6, <4>1, <4>2 DEF JitterInv, PacketInv, All
      <4>4. QED BY <4>2, <4>3
    <3>2. PICK q \in Int : MarkerAt(q)
      BY <2>0, <3>1 DEF JitterInv, MarkInv, MarkerGone
    <3>3. q - 1 < ahead' /\ (intact' => q - 1 <= 0)
      <4>1. intact' => intact
        BY <2>1
      <4>2. q - 1 < ahead'
        BY <2>1, <2>2, <3>2 DEF MarkerAt
      <4>3. intact => q - 1 <= 0
        BY <3>2 DEF MarkerAt
      <4>4. QED BY <4>1, <4>2, <4>3
    <3>4. \A m \in flight' : m.off # q - 1
      BY <2>1, <2>3, <2>6, <3>2 DEF MarkerAt, All
    <3>5. \A m \in All' : m.old => m.off < q - 1
      BY <2>5, <2>6, <3>2 DEF MarkerAt
    <3>6. QED BY <3>3, <3>4, <3>5 DEF MarkerAt
  <2>14. NothingVanishes'
    <3> SUFFICES ASSUME intact' PROVE 0..ahead' - 1 = Offs(queue') \union Offs(flight')
      BY DEF NothingVanishes
    <3>1. intact /\ found # {}
      BY <2>1
    <3>2. PICK d \in queue : d.off = 0
      BY <3>1 DEF found
    <3>3. Offs(queue') = {k.off - 1 : k \in queue \ found}
      <4>1. queue' = Shift(queue \ found, 1)
        BY <2>1
      <4>2. Offs(Shift(queue \ found, 1)) = {k.off - 1 : k \in queue \ found}
        BY <2>2, ShiftByOne
      <4>3. QED BY <4>1, <4>2
    <3>4. Offs(flight') = {k.off - 1 : k \in flight}
      <4>1. flight' = Shift(flight, 1)
        BY <2>1
      <4>2. Offs(Shift(flight, 1)) = {k.off - 1 : k \in flight}
        BY <2>2, ShiftByOne
      <4>3. QED BY <4>1, <4>2
    <3>5. \A i : i \in 0..ahead - 1 <=> \E k \in All : i = k.off
      BY <3>1 DEF JitterInv, NothingVanishes, Offs, All
    <3>6. \A k \in All : k.off = 0 <=> k \in found
      BY <3>2 DEF JitterInv, PacketInv, All, found
    <3>7. ASSUME NEW i \in 0..ahead' - 1 PROVE i \in Offs(queue') \union Offs(flight')
      <4>1. i + 1 \in 0..ahead - 1 /\ i \in Int /\ i + 1 # 0
        BY <2>1, <2>2
      <4>2. PICK k \in All : i + 1 = k.off
        BY <3>5, <4>1
      <4>3. k \notin found /\ i = k.off - 1
        BY <3>6, <4>1, <4>2
      <4>4. QED BY <3>3, <3>4, <4>3 DEF All
    <3>8. ASSUME NEW i \in Offs(queue') \union Offs(flight') PROVE i \in 0..ahead' - 1
      <4>1. PICK k \in All \ found : i = k.off - 1
        BY <3>2, <3>3, <3>4, <2>2, <3>6 DEF All, JitterInv, PacketInv, found
      <4>2. k.off \in 0..ahead - 1 /\ k.off # 0
        BY <3>5, <3>6, <4>1
      <4>3. QED BY <2>1, <2>2, <4>1, <4>2
    <3>9. QED BY <3>7, <3>8
  <2>15. PackingInv'
    BY <2>0 DEF PackingInv
  <2>16. QED BY <2>0, <2>11, <2>12, <2>13, <2>14, <2>15 DEF JitterInv
<1>3. QED BY <1>1, <1>2
(* A packet that is pushed; all that may be lost is one that comes late.   *)
LEMMA PushSafe ==
  ASSUME JitterInv, NEW m \in flight, onMedia(m), ~newStream(m)
  PROVE  JitterInv'
<1>0. packing = {} /\ packing' = {} /\ lostMark' = lostMark
  BY DEF onMedia, phoneVars, JitterInv, PackingInv
<1>1. /\ queue' = push(queue, m) /\ flight' = flight \ {m} /\ ahead' = ahead
      /\ started' = TRUE /\ intact' = (intact /\ ~full(queue))
      /\ pressed' = pressed /\ marker' = marker
  BY DEF onMedia, phoneVars
<1>2. /\ m \in Packet /\ m.off \in Int /\ ~m.marker /\ Queueable(queue)
      /\ flight \in SUBSET Packet /\ m \in All /\ m \notin queue
  BY DEF JitterInv, PacketInv, newStream, Packet, All
<1>3. /\ Queueable(queue') /\ queue' \subseteq queue \union {m}
      /\ m \in queue' => m.off >= 0
      /\ ~full(queue) /\ m.off >= 0 => Offs(queue') = Offs(queue) \union {m.off}
  BY <1>1, <1>2, PushFits
<1>4. All' \in SUBSET All
  BY <1>1, <1>2, <1>3 DEF All
<1>5. PacketInv'
  <2>1. flight' \intersect queue' = {}
    BY <1>1, <1>3 DEF JitterInv, PacketInv
  <2>2. /\ \A k \in All' : k.off < ahead'
        /\ \A k, n \in All' : k.off = n.off => k = n
    BY <1>1, <1>4 DEF JitterInv, PacketInv
  <2>3. ahead' \in Nat /\ flight' \in SUBSET Packet
    BY <1>1 DEF JitterInv, PacketInv
  <2>4. QED BY <1>1, <1>3, <2>1, <2>2, <2>3 DEF PacketInv
<1>6. OrderInv'
  BY <1>4 DEF JitterInv, OrderInv
<1>7. MarkInv'
  <2> SUFFICES ASSUME pressed' = "down", ~marker', ~lostMark',
                      \A n \in flight' : n.marker => n.old
               PROVE  \E q \in Int : MarkerAt(q)'
    BY <1>0 DEF MarkInv, MarkerGone
  <2>1. \A n \in flight : n.marker => n.old
    BY <1>1, <1>2
  <2>2. PICK q \in Int : MarkerAt(q)
    BY <1>0, <1>1, <2>1 DEF JitterInv, MarkInv, MarkerGone
  <2>3. intact' => intact
    BY <1>1
  <2>4. q < ahead' /\ (intact' => q <= 0)
    BY <1>1, <2>2, <2>3 DEF MarkerAt
  <2>5. \A n \in flight' : n.off # q
    BY <1>1, <2>2 DEF MarkerAt
  <2>6. \A n \in All' : n.old => n.off < q
    BY <1>4, <2>2 DEF MarkerAt
  <2>7. QED BY <2>2, <2>4, <2>5, <2>6 DEF MarkerAt
<1>8. NothingVanishes'
  <2> SUFFICES ASSUME intact' PROVE 0..ahead' - 1 = Offs(queue') \union Offs(flight')
    BY DEF NothingVanishes
  <2>1. intact /\ ~full(queue)
    BY <1>1
  <2>2. 0..ahead - 1 = Offs(queue) \union Offs(flight)
    BY <2>1 DEF JitterInv, NothingVanishes
  <2>3. Offs(flight) = Offs(flight') \union {m.off}
    BY <1>1 DEF Offs
  <2>4. m.off >= 0
    BY <2>2, <2>3
  <2>5. Offs(queue') = Offs(queue) \union {m.off}
    BY <1>3, <2>1, <2>4
  <2>6. QED BY <1>1, <2>2, <2>3, <2>5
<1>9. PackingInv' /\ marker' \in BOOLEAN /\ lostMark' \in BOOLEAN
  BY <1>0, <1>1 DEF JitterInv, PackingInv
<1>10. QED BY <1>5, <1>6, <1>7, <1>8, <1>9 DEF JitterInv

(* A stream that begins: its first packet is all there is in the queue.    *)
LEMMA NewStreamSafe ==
  ASSUME JitterInv, NEW m \in flight, onMedia(m), newStream(m)
  PROVE  JitterInv'
<1>0. packing = {} /\ packing' = {} /\ lostMark' = lostMark
  BY DEF onMedia, phoneVars, JitterInv, PackingInv
<1> DEFINE rest == flight \ {m}
           z == Moved(m, m.off)
<1>1. /\ queue' = push({}, [m EXCEPT !.off = 0]) /\ flight' = Shift(rest, m.off)
      /\ ahead' = ahead - m.off /\ started' = TRUE
      /\ intact' = (m.off..ahead - 1 = {m.off} \union Offs(rest))
      /\ pressed' = pressed /\ marker' = marker
  BY DEF onMedia, phoneVars
<1>2. /\ m \in Packet /\ m.off \in Int /\ m \in All /\ rest \in SUBSET Packet
      /\ rest \in SUBSET All /\ m.off < ahead /\ ahead \in Nat
      /\ \A k \in All : k.off \in Int /\ k.off < ahead
      /\ \A k \in rest : k.off # m.off
  BY DEF JitterInv, PacketInv, Queueable, All, Packet
<1>3. /\ z = [m EXCEPT !.off = 0] /\ z \in Packet /\ z.off = 0
      /\ z.old = m.old /\ z.marker = m.marker
  BY <1>2 DEF Packet, Moved
<1>4. /\ Shift(rest, m.off) \in SUBSET Packet
      /\ \A k \in Shift(rest, m.off) : \E l \in rest :
           /\ k = Moved(l, m.off)
           /\ k.off = l.off - m.off /\ k.old = l.old /\ k.marker = l.marker
      /\ \A l \in rest : \E k \in Shift(rest, m.off) : k.off = l.off - m.off
      /\ Offs(Shift(rest, m.off)) = {l.off - m.off : l \in rest}
  BY <1>2, ShiftIs
<1> HIDE DEF z
<1>5. queue' = {z} /\ Queueable(queue')
  <2>1. /\ Cardinality({}) = 0 /\ Cardinality({z}) = 1 /\ IsFiniteSet({z})
        /\ MaxEntries \in Nat \ {0}
    BY FS_EmptySet, FS_Singleton, JitterAssumption DEF JitterAssumption
  <2>2. queue' = {z}
    BY <1>1, <1>3, <2>1 DEF push, evicted, full, Offs
  <2>3. Queueable({z})
    BY <1>3, <2>1 DEF Queueable
  <2>4. QED BY <2>2, <2>3
<1>6. flight' = Shift(rest, m.off)
  BY <1>1
<1> HIDE DEF rest
<1>7. \A k \in All' : \E l \in rest \union {m} :
        /\ k.off = l.off - m.off /\ k.old = l.old /\ k.marker = l.marker
        /\ k = Moved(l, m.off)
  <2> SUFFICES ASSUME NEW k \in All'
               PROVE  \E l \in rest \union {m} :
                        /\ k.off = l.off - m.off /\ k.old = l.old /\ k.marker = l.marker
                        /\ k = Moved(l, m.off)
    OBVIOUS
  <2>1. CASE k \in flight'
    BY <1>4, <1>6, <2>1
  <2>2. CASE k = z
    <3>1. z = Moved(m, m.off)
      BY DEF z
    <3>2. z.off = m.off - m.off /\ z.old = m.old /\ z.marker = m.marker
      <4>1. m.off - m.off = 0
        BY <1>2
      <4>2. QED BY <1>3, <4>1
    <3>3. QED BY <2>2, <3>1, <3>2
  <2>3. QED BY <1>5, <2>1, <2>2 DEF All
<1>8. rest \union {m} \in SUBSET All
  BY <1>2
<1>9. PacketInv'
  <2>1. ahead' \in Nat
    BY <1>1, <1>2
  <2>2. \A k \in All' : k.off < ahead'
    BY <1>1, <1>2, <1>7, <1>8
  <2>3. \A k, n \in All' : k.off = n.off => k = n
    <3> SUFFICES ASSUME NEW k \in All', NEW n \in All', k.off = n.off PROVE k = n
      OBVIOUS
    <3>1. PICK i \in rest \union {m} : k.off = i.off - m.off /\ k = Moved(i, m.off)
      BY <1>7
    <3>2. PICK j \in rest \union {m} : n.off = j.off - m.off /\ n = Moved(j, m.off)
      BY <1>7
    <3>3. i.off = j.off
      <4>1. i.off \in Int /\ j.off \in Int /\ m.off \in Int
        BY <1>2, <1>8
      <4>2. i.off - m.off = j.off - m.off
        BY <3>1, <3>2
      <4>3. QED BY <4>1, <4>2
    <3>4. i = j
      BY <1>8, <3>3 DEF JitterInv, PacketInv
    <3>5. QED BY <3>1, <3>2, <3>4
  <2>4. flight' \intersect queue' = {}
    <3>1. \A k \in flight' : k.off # 0
      BY <1>2, <1>4, <1>6
    <3>2. z.off = 0
      BY <1>3
    <3>3. QED BY <1>5, <3>1, <3>2
  <2>5. QED BY <1>1, <1>4, <1>5, <1>6, <2>1, <2>2, <2>3, <2>4 DEF PacketInv
<1>10. OrderInv'
  <2> SUFFICES ASSUME NEW k \in All', NEW n \in All', k.old, ~n.old PROVE k.off < n.off
    BY DEF OrderInv
  <2>1. PICK i \in rest \union {m} : k.off = i.off - m.off /\ k.old = i.old
    BY <1>7
  <2>2. PICK j \in rest \union {m} : n.off = j.off - m.off /\ n.old = j.old
    BY <1>7
  <2>3. i.off < j.off
    BY <1>8, <2>1, <2>2 DEF JitterInv, OrderInv
  <2>4. QED BY <1>2, <1>8, <2>1, <2>2, <2>3
<1>11. MarkInv'
  <2> SUFFICES ASSUME pressed' = "down", ~marker', ~lostMark',
                      \A k \in flight' : k.marker => k.old
               PROVE  \E q \in Int : MarkerAt(q)'
    BY <1>0 DEF MarkInv, MarkerGone
  <2>1. \A l \in rest : l.marker => l.old
    <3> SUFFICES ASSUME NEW l \in rest, l.marker PROVE l.old
      OBVIOUS
    <3>1. PICK k \in flight' : k.off = l.off - m.off
      BY <1>4, <1>6
    <3>2. PICK i \in rest : k.off = i.off - m.off /\ k.old = i.old /\ k.marker = i.marker
      BY <1>4, <1>6
    <3>3. i.off = l.off
      BY <1>2, <3>1, <3>2
    <3>4. i = l
      BY <1>2, <3>3 DEF JitterInv, PacketInv
    <3>5. QED BY <3>2, <3>4
  <2>2. CASE m.marker /\ ~m.old
    <3>1. 0 < ahead'
      BY <1>1, <1>2
    <3>2. \A k \in flight' : k.off # 0
      BY <1>2, <1>4, <1>6
    <3>3. \A k \in All' : k.old => k.off < 0
      <4> SUFFICES ASSUME NEW k \in All', k.old PROVE k.off < 0
        OBVIOUS
      <4>1. PICK l \in rest \union {m} : k.off = l.off - m.off /\ k.old = l.old
        BY <1>7
      <4>2. l.off < m.off
        BY <1>2, <1>8, <2>2, <4>1 DEF JitterInv, OrderInv
      <4>3. QED BY <1>2, <1>8, <4>1, <4>2
    <3>4. MarkerAt(0)'
      BY <3>1, <3>2, <3>3 DEF MarkerAt
    <3>5. QED BY <3>4, 0 \in Int
  <2>3. CASE m.marker => m.old
    <3>1. \A l \in flight : l.marker => l.old
      BY <2>1, <2>3 DEF rest
    <3>2. PICK p \in Int : MarkerAt(p)
      BY <1>0, <1>1, <3>1 DEF JitterInv, MarkInv, MarkerGone
    <3>3. p - m.off \in Int /\ p - m.off < ahead'
      BY <1>1, <1>2, <3>2 DEF MarkerAt
    <3>4. \A l \in rest \union {m} : l.off # p /\ (l.old => l.off < p)
      BY <1>8, <3>2 DEF MarkerAt, rest
    <3>5. \A k \in flight' : k.off # p - m.off
      BY <1>2, <1>4, <1>6, <3>4
    <3>6. \A k \in All' : k.old => k.off < p - m.off
      <4> SUFFICES ASSUME NEW k \in All', k.old PROVE k.off < p - m.off
        OBVIOUS
      <4>1. PICK l \in rest \union {m} : k.off = l.off - m.off /\ k.old = l.old
        BY <1>7
      <4>2. l.off < p
        BY <3>4, <4>1
      <4>3. QED BY <1>2, <1>8, <4>1, <4>2
    <3>7. intact' => p - m.off <= 0
      <4> SUFFICES ASSUME intact' PROVE ~(p > m.off)
        BY <1>2
      <4>1. m.off..ahead - 1 = {m.off} \union Offs(rest)
        BY <1>1 DEF rest
      <4>2. p \notin {m.off} \union Offs(rest)
        BY <3>4 DEF Offs
      <4>3. p > m.off => p \in m.off..ahead - 1
        BY <1>2, <3>2 DEF MarkerAt
      <4>4. QED BY <4>1, <4>2, <4>3
    <3>8. MarkerAt(p - m.off)'
      BY <3>3, <3>5, <3>6, <3>7 DEF MarkerAt
    <3>9. QED BY <3>3, <3>8
  <2>4. QED BY <2>2, <2>3
<1>12. NothingVanishes'
  <2> SUFFICES ASSUME intact' PROVE 0..ahead' - 1 = Offs(queue') \union Offs(flight')
    BY DEF NothingVanishes
  <2>1. m.off..ahead - 1 = {m.off} \union Offs(rest)
    BY <1>1 DEF rest
  <2>2. Offs(queue') = {0} /\ Offs(flight') = {l.off - m.off : l \in rest}
    BY <1>3, <1>4, <1>5, <1>6 DEF Offs
  <2>3. ASSUME NEW i \in 0..ahead' - 1 PROVE i \in {0} \union Offs(flight')
    <3>1. i \in Int /\ i + m.off \in m.off..ahead - 1
      BY <1>1, <1>2
    <3>2. i # 0 => \E l \in rest : i + m.off = l.off
      BY <1>2, <2>1, <3>1 DEF Offs
    <3>3. ASSUME NEW l \in rest, i + m.off = l.off PROVE i = l.off - m.off
      BY <1>2, <3>1, <3>3
    <3>4. QED BY <2>2, <3>2, <3>3
  <2>4. ASSUME NEW i \in {0} \union Offs(flight') PROVE i \in 0..ahead' - 1
    <3>1. CASE i = 0
      BY <1>1, <1>2, <3>1
    <3>2. ASSUME NEW l \in rest, i = l.off - m.off PROVE i \in 0..ahead' - 1
      <4>1. l.off \in m.off..ahead - 1
        BY <2>1 DEF Offs
      <4>2. QED BY <1>1, <1>2, <3>2, <4>1
    <3>3. QED BY <2>2, <3>1, <3>2
  <2>5. QED BY <2>2, <2>3, <2>4
<1>13. PackingInv' /\ marker' \in BOOLEAN /\ lostMark' \in BOOLEAN
  BY <1>0, <1>1 DEF JitterInv, PackingInv
<1>14. QED BY <1>9, <1>10, <1>11, <1>12, <1>13 DEF JitterInv
LEMMA JitterNext == ASSUME JitterInv, [Next]_vars PROVE JitterInv'
<1>1. marker \in BOOLEAN /\ lostMark \in BOOLEAN /\ (packing # {} => turn = "capture")
  BY DEF JitterInv, PackingInv
<1>2. CASE pressed_resetStream
  BY <1>1, <1>2, StaysAsItIs DEF pressed_resetStream
<1>3. CASE release
  BY <1>1, <1>3, StaysAsItIs DEF release
<1>4. CASE captureNothing \/ onControl \/ loseControl \/ networkDone \/ calmDown
           \/ UNCHANGED vars
  <2>1. UNCHANGED <<pressed, marker, packing, lostMark, ahead, flight, started, queue, intact>>
    BY <1>4 DEF captureNothing, onControl, loseControl, networkDone, calmDown, vars,
                phoneVars
  <2>2. packing = {} \/ turn' = turn
    BY <1>1, <1>4 DEF captureNothing, onControl, loseControl, networkDone, calmDown, vars
  <2>3. QED BY <1>1, <2>1, <2>2, StaysAsItIs
<1>5. CASE audioLoop
  <2>1. turn = "loop" /\ UNCHANGED <<pressed, marker, packing, lostMark, started>>
    BY <1>5 DEF audioLoop, phoneVars
  <2>2. pop \/ UNCHANGED <<queue, flight, ahead, intact>>
    BY <1>5 DEF audioLoop
  <2>3. CASE pop
    BY <2>1, <2>3, PopSafe
  <2>4. CASE UNCHANGED <<queue, flight, ahead, intact>>
    BY <1>1, <2>1, <2>4, StaysAsItIs
  <2>5. QED BY <2>2, <2>3, <2>4
<1>6. ASSUME NEW m \in flight, onMedia(m) PROVE JitterInv'
  BY <1>6, PushSafe, NewStreamSafe
<1>7. ASSUME NEW m \in flight, lose(m) PROVE JitterInv'
  BY <1>7, LoseSafe
<1>8. QED
  BY <1>2, <1>3, <1>4, <1>5, <1>6, <1>7, PressSafe, CaptureSafe, PackSafe
  DEF Next, User, Frame, Network

(* Every step of phone, network and service keeps the invariant.           *)
THEOREM JitterInvariant == Spec => []JitterInv
<1>1. JitterInv /\ [Next]_vars => JitterInv'
  BY JitterNext
<1>2. QED BY <1>1, JitterInit, PTL DEF Spec

-----------------------------------------------------------------------------
(* The queue holds what can still be played, each packet once, and never   *)
(* more than maxEntries.  (jitter_buffer.cpp, push and pop)                *)
THEOREM QueueSafety == Spec => []QueueIsAhead
<1>1. ASSUME JitterInv PROVE QueueIsAhead
  <2>1. /\ queue \in SUBSET Packet /\ IsFiniteSet(queue) /\ Cardinality(queue) <= MaxEntries
        /\ ahead \in Nat
    BY <1>1 DEF JitterInv, PacketInv, Queueable
  <2>2. Offs(queue) \subseteq 0..ahead - 1
    BY <1>1, <2>1 DEF JitterInv, PacketInv, Queueable, Offs, All, Packet
  <2>3. Cardinality(Offs(queue)) = Cardinality(queue)
    <3> DEFINE f == [m \in queue |-> m.off]
    <3>1. f \in Bijection(queue, Offs(queue))
      BY <1>1 DEF JitterInv, PacketInv, Queueable, Bijection, Surjection, Injection,
                  IsInjective, Offs
    <3> HIDE DEF f
    <3>2. ExistsBijection(queue, Offs(queue))
      BY <3>1 DEF ExistsBijection
    <3>3. QED BY <2>1, <3>2, FS_Bijection
  <2>4. QED BY <2>1, <2>2, <2>3 DEF QueueIsAhead
<1>2. QED BY <1>1, JitterInvariant, PTL

(* While nothing of the stream was lost, overtaken or evicted, each packet *)
(* that was sent and not played is queued or under way: the buffer itself  *)
(* loses nothing.  (jitter_buffer.cpp, pop)                                *)
THEOREM NothingIsLost == Spec => []NothingVanishes
<1>1. JitterInv => NothingVanishes
  BY DEF JitterInv
<1>2. QED BY <1>1, JitterInvariant, PTL

(* Once a press's marker was sent and is past, no packet of an earlier     *)
(* press is played any more while the stream is intact.                    *)
(* (phone_media_source.cpp, packFrame, onMediaPayload)                     *)
THEOREM MarkerSafety == Spec => []MarkerEndsOldStream
<1>1. ASSUME JitterInv PROVE MarkerEndsOldStream
  <2> SUFFICES ASSUME pressed = "down", MarkerIsPast, intact, NEW m \in queue, m.old
               PROVE  FALSE
    BY DEF MarkerEndsOldStream
  <2>1. PICK p \in Int : MarkerAt(p)
    BY <1>1 DEF JitterInv, MarkInv, MarkerGone, MarkerIsPast
  <2>2. m.off \in Int /\ m.off >= 0
    BY <1>1 DEF JitterInv, PacketInv, Queueable, Packet
  <2>3. m.off < p /\ p <= 0
    BY <2>1 DEF MarkerAt, All
  <2>4. QED BY <2>2, <2>3
<1>2. QED BY <1>1, JitterInvariant, PTL
-----------------------------------------------------------------------------
(* Type correctness: the rest of the state, beside the packets.            *)
LEMMA StateAfterType ==
  ASSUME NEW s \in SourceState, NEW e \in Event \ ModeEvent
  PROVE  StateAfter("Auto", s, e) \in SourceState
<1>1. restingStateFor("Auto") = "LocalActive"
  BY DEF restingStateFor
<1>2. QED BY <1>1 DEF StateAfter, SourceState

FrameInv ==
  /\ pressed \in {"up", "pressing", "down"} /\ ctl \in {"none", "start", "stop"}
  /\ started \in BOOLEAN /\ calm \in BOOLEAN /\ intact \in BOOLEAN
  /\ state \in SourceState
  /\ quiet \in 0..LostFrames + 1
  /\ turn \in {"capture", "network", "loop"}
  /\ heard \in {"none", "concealed", "old", "new"}

LEMMA FrameInit == Init => FrameInv
<1>1. 0 \in 0..LostFrames + 1
  BY JitterAssumption DEF JitterAssumption
<1>2. Init => started \in BOOLEAN /\ calm \in BOOLEAN /\ intact \in BOOLEAN
  BY DEF Init
<1>3. QED BY <1>1, <1>2 DEF Init, FrameInv, SourceState

LEMMA FrameNext == ASSUME FrameInv, [Next]_vars PROVE FrameInv'
<1> USE DEF FrameInv
<1>1. CASE User \/ onCaptureFrame \/ packFrame \/ captureNothing \/ loseControl \/ networkDone \/ calmDown
           \/ UNCHANGED vars \/ \E m \in flight : lose(m)
  BY <1>1 DEF User, press, pressed_resetStream, release, onCaptureFrame, packFrame,
              captureNothing, loseControl, networkDone, calmDown, vars, phoneVars, lose
<1>2. CASE onControl
  <2>1. state' \in SourceState
    BY <1>2, StateAfterType DEF onControl, Event, ModeEvent
  <2>2. quiet' \in 0..LostFrames + 1
    BY <1>2, JitterAssumption DEF onControl, JitterAssumption
  <2>3. QED BY <1>2, <2>1, <2>2 DEF onControl, phoneVars
<1>3. ASSUME NEW m \in flight, onMedia(m) PROVE FrameInv'
  <2>1. intact' \in BOOLEAN /\ started' \in BOOLEAN
    BY <1>3 DEF onMedia
  <2>2. quiet' \in 0..LostFrames + 1
    BY <1>3, JitterAssumption DEF onMedia, JitterAssumption
  <2>3. QED BY <1>3, <2>1, <2>2 DEF onMedia, phoneVars
<1>4. CASE audioLoop
  <2>1. \A e \in Event \ ModeEvent : StateAfter("Auto", state, e) \in SourceState
    BY StateAfterType
  <2>2. nextState \subseteq SourceState
    BY <2>1 DEF nextState, Event, ModeEvent
  <2>3. state' \in SourceState
    <3>1. PICK s \in nextState : state' = IF s = "ReturningToLocal"
                                          THEN StateAfter("Auto", s, "FadeComplete") ELSE s
      BY <1>4 DEF audioLoop
    <3>2. s \in SourceState
      BY <2>2
    <3>3. StateAfter("Auto", s, "FadeComplete") \in SourceState
      BY <3>2, StateAfterType DEF Event, ModeEvent
    <3>4. QED BY <3>1, <3>2, <3>3
  <2>4. quiet' \in 0..LostFrames + 1
    BY <1>4, JitterAssumption DEF audioLoop, JitterAssumption
  <2>5. heard' \in {"none", "concealed", "old", "new"} /\ intact' \in BOOLEAN
    BY <1>4 DEF audioLoop, pop
  <2>6. QED BY <1>4, <2>3, <2>4, <2>5 DEF audioLoop, phoneVars
<1>5. QED BY <1>1, <1>2, <1>3, <1>4 DEF Next, Frame, Network

(* The state is well formed; the phone is never counted behind the play    *)
(* position.                                                               *)
THEOREM JitterTypeOK == Spec => []TypeOK
<1>1. FrameInv /\ [Next]_vars => FrameInv'
  BY FrameNext
<1>2. JitterInv /\ FrameInv => TypeOK
  BY DEF JitterInv, PacketInv, PackingInv, Queueable, FrameInv, TypeOK
<1>3. QED BY <1>1, <1>2, FrameInit, JitterInvariant, PTL DEF Spec
-----------------------------------------------------------------------------
(* What HiccupAbsorbed rests on beside fairness.                           *)

Live == pressed = "down" /\ state = "PhoneActive" /\ calm

(* The backlog fits the queue: what the phone is ahead of the play         *)
(* position when it captures leaves place for one packet more, and that    *)
(* one is then on its way or queued.                                       *)
Room ==
  /\ turn = "capture" => flight = {} /\ ahead < MaxEntries
  /\ turn = "network" => /\ ahead \in 1..MaxEntries
                         /\ \A m \in flight : m.off = ahead - 1
                         /\ flight = {} => queue # {}
  /\ turn = "loop" => flight = {} /\ ahead \in 1..MaxEntries /\ queue # {}

(* Once the backlog fits, it goes on fitting while the phone is live and   *)
(* the network calm: nothing queued is ever evicted (only a new stream     *)
(* empties the queue, and then its first packet is due), and each frame    *)
(* plays a packet or brings every queued one nearer to being played.       *)
(* (jitter_buffer.cpp, push: the oldest makes room; pop: a missing packet  *)
(* is given up while later ones wait)                                      *)
BacklogShrinks ==
  [][Room /\ Live /\ Live' =>
       /\ Room'
       /\ turn # "loop" => queue \subseteq queue' \/ found' # {}
       /\ turn = "loop" => found # {} \/ queue' = Shift(queue, 1)]_vars

(* A queue whose packets all lie before n holds at most n of them.         *)
LEMMA QueueWithin ==
  ASSUME PacketInv, NEW n \in Nat, \A m \in queue : m.off < n
  PROVE  Cardinality(queue) \in Nat /\ Cardinality(queue) <= n
<1> DEFINE f == [m \in queue |-> m.off + 1]
<1>1. queue \in SUBSET Packet /\ IsFiniteSet(queue)
      /\ (\A m \in queue : m.off >= 0)
      /\ \A m, k \in queue : m.off = k.off => m = k
  BY DEF PacketInv, Queueable
<1>2. \A m \in queue : m.off \in Int /\ m.off + 1 \in 1..n
  BY <1>1 DEF Packet
<1>3. f \in [queue -> 1..n]
  BY <1>2
<1>4. ASSUME NEW m \in queue, NEW k \in queue, f[m] = f[k] PROVE m = k
  <2>1. m.off = k.off
    BY <1>2, <1>4
  <2>2. QED BY <1>1, <2>1
<1>5. f \in Injection(queue, 1..n)
  <2> HIDE DEF f
  <2>1. QED BY <1>3, <1>4 DEF Injection, IsInjective
<1>6. IsFiniteSet(1..n) /\ Cardinality(1..n) = n
  <2>1. 1 \in Int /\ n \in Int
    OBVIOUS
  <2>2. IsFiniteSet(1..n) /\ Cardinality(1..n) = IF 1 > n THEN 0 ELSE n - 1 + 1
    BY <2>1, FS_Interval
  <2>3. QED BY <2>2
<1>7. Cardinality(queue) <= Cardinality(1..n)
  <2> HIDE DEF f
  <2>1. QED BY <1>5, <1>6, FS_Injection
<1>8. QED BY <1>1, <1>6, <1>7, FS_CardinalityType

(* The packet under way is alone, and the queue still has a place for it.  *)
LEMMA OneUnderWay ==
  ASSUME JitterInv, Room, turn = "network", NEW m \in flight
  PROVE  /\ flight = {m} /\ m \in Packet /\ m.off = ahead - 1 /\ ahead \in 1..MaxEntries
         /\ ~full(queue) /\ m.off \notin Offs(queue)
<1>1. /\ ahead \in 1..MaxEntries /\ \A k \in flight : k.off = ahead - 1
  BY DEF Room
<1>2. /\ flight \in SUBSET Packet /\ queue \in SUBSET Packet
      /\ flight \intersect queue = {} /\ (\A k \in All : k.off < ahead)
      /\ \A k, l \in All : k.off = l.off => k = l
  BY DEF JitterInv, PacketInv, Queueable
<1>3. flight = {m}
  <2>1. \A k \in flight : k = m
    BY <1>1, <1>2 DEF All
  <2>2. QED BY <2>1
<1>4. \A k \in queue : k.off # m.off
  BY <1>2 DEF All
<1>5. MaxEntries \in Nat
  BY JitterAssumption DEF JitterAssumption
<1>6. ahead - 1 \in Nat /\ ahead - 1 < MaxEntries /\ ahead \in Nat
  BY <1>1, <1>5
<1>7. \A k \in queue : k.off < ahead - 1
  <2>1. \A k \in queue : k.off \in Int /\ k.off < ahead /\ k.off # ahead - 1
    BY <1>1, <1>2, <1>4 DEF All, Packet
  <2>2. QED BY <1>6, <2>1
<1>8. Cardinality(queue) \in Nat /\ Cardinality(queue) <= ahead - 1
  <2>1. PacketInv
    BY DEF JitterInv
  <2>2. QED BY <1>6, <1>7, <2>1, QueueWithin
<1>9. ~full(queue)
  BY <1>5, <1>6, <1>8 DEF full
<1>10. m.off \notin Offs(queue)
  BY <1>4 DEF Offs
<1>11. QED BY <1>1, <1>2, <1>3, <1>9, <1>10
(* A packet that arrives is queued beside the others, or begins a stream.  *)
LEMMA ArrivalFits ==
  ASSUME JitterInv, Room, NEW m \in flight, onMedia(m)
  PROVE  Room' /\ turn = "network" /\ (queue \subseteq queue' \/ found' # {})
<1>1. turn = "network" /\ turn' = turn
  BY DEF onMedia
<1>2. /\ flight = {m} /\ m \in Packet /\ m.off = ahead - 1 /\ ahead \in 1..MaxEntries
      /\ ~full(queue) /\ m.off \notin Offs(queue)
  BY <1>1, OneUnderWay
<1>3. MaxEntries \in Nat \ {0}
  BY JitterAssumption DEF JitterAssumption
<1>4. CASE newStream(m)
  <2> DEFINE z == [m EXCEPT !.off = 0]
  <2>1. queue' = push({}, z) /\ flight' = Shift({}, m.off) /\ ahead' = ahead - m.off
    BY <1>2, <1>4 DEF onMedia
  <2>2. z.off = 0
    BY <1>2 DEF Packet
  <2> HIDE DEF z
  <2>3. push({}, z) = {z}
    <3>1. Offs({}) = {}
      BY DEF Offs
    <3>2. evicted({}) = {}
      BY DEF evicted
    <3>3. QED BY <2>2, <3>1, <3>2 DEF push
  <2>4. flight' = {}
    BY <2>1 DEF Shift
  <2>5. ahead' \in 1..MaxEntries
    <3>1. ahead' = 1
      BY <1>2, <1>3, <2>1
    <3>2. QED BY <1>3, <3>1
  <2>6. found' # {}
    BY <2>1, <2>2, <2>3 DEF found
  <2>7. queue' # {}
    BY <2>1, <2>3
  <2>8. QED BY <1>1, <2>4, <2>5, <2>6, <2>7 DEF Room
<1>5. CASE ~newStream(m)
  <2>1. queue' = push(queue, m) /\ flight' = {} /\ ahead' = ahead
    BY <1>2, <1>5 DEF onMedia
  <2>2. ~(m.off < 0)
    BY <1>2, <1>3
  <2>3. queue' = queue \union {m}
    BY <1>2, <2>1, <2>2 DEF push, evicted
  <2>4. QED BY <1>1, <1>2, <2>1, <2>3 DEF Room
<1>6. QED BY <1>4, <1>5

(* A frame that reads the phone moves the play position by one.            *)
LEMMA PopShrinks ==
  ASSUME JitterInv, Room, Live, Live', audioLoop
  PROVE  Room' /\ turn = "loop" /\ (found # {} \/ queue' = Shift(queue, 1))
<1>1. /\ turn = "loop" /\ turn' = "capture" /\ flight = {} /\ ahead \in 1..MaxEntries
      /\ queue # {}
  BY DEF audioLoop, Room
<1>2. started
  BY <1>1 DEF JitterInv, PacketInv
<1>3. pop
  <2>1. state = "PhoneActive" /\ state' = "PhoneActive"
    BY DEF Live
  <2>2. PICK s \in nextState :
          /\ IF wantsPhone(s) \/ s = "ErrorRecovery" \/ state = "ErrorRecovery"
             THEN pop
             ELSE heard' = "none" /\ UNCHANGED <<queue, flight, ahead, intact>>
          /\ state' = IF s = "ReturningToLocal"
                      THEN StateAfter("Auto", s, "FadeComplete") ELSE s
    BY DEF audioLoop
  <2>3. StateAfter("Auto", "ReturningToLocal", "FadeComplete") = "LocalActive"
    BY DEF StateAfter, ModeEvent
  <2>4. s = "PhoneActive"
    BY <2>1, <2>2, <2>3
  <2>5. QED BY <2>2, <2>4 DEF wantsPhone
<1>4. queue' = Shift(queue \ found, 1) /\ flight' = Shift(flight, 1) /\ ahead' = ahead - 1
  BY <1>1, <1>2, <1>3 DEF pop, advances
<1>5. flight' = {}
  BY <1>1, <1>4 DEF Shift
<1>6. ahead' < MaxEntries
  <2>1. MaxEntries \in Nat
    BY JitterAssumption DEF JitterAssumption
  <2>2. QED BY <1>1, <1>4, <2>1
<1>7. Room'
  BY <1>1, <1>5, <1>6 DEF Room
<1>8. found = {} => queue' = Shift(queue, 1)
  <2>1. found = {} => queue \ found = queue
    OBVIOUS
  <2>2. QED BY <1>4, <2>1
<1>9. QED BY <1>1, <1>7, <1>8

(* A hiccup that fits the queue costs the missing packets and no others:   *)
(* while the phone is live and the network calm nothing is evicted, and    *)
(* each frame plays a packet or moves all of them one nearer.              *)
(* (jitter_buffer.cpp, push and pop)                                       *)
THEOREM BacklogSafety == Spec => BacklogShrinks
<1> DEFINE Step == Room /\ Live /\ Live' =>
                     /\ Room'
                     /\ turn # "loop" => queue \subseteq queue' \/ found' # {}
                     /\ turn = "loop" => found # {} \/ queue' = Shift(queue, 1)
<1>1. ASSUME JitterInv, [Next]_vars PROVE Step \/ UNCHANGED vars
  <2> SUFFICES ASSUME Room, Live, Live', Next
               PROVE  /\ Room'
                      /\ turn # "loop" => queue \subseteq queue' \/ found' # {}
                      /\ turn = "loop" => found # {} \/ queue' = Shift(queue, 1)
    BY <1>1
  <2>1. pressed = "down" /\ pressed' = "down" /\ calm
    BY DEF Live
  <2>2. ~User /\ ~calmDown /\ ~captureNothing /\ ~loseControl
        /\ \A m \in flight : ~lose(m)
    BY <2>1 DEF User, press, pressed_resetStream, release, calmDown, captureNothing,
                loseControl, lose
  <2>3. CASE packFrame
    <3>1. /\ turn = "capture" /\ turn' = "network" /\ queue' = queue /\ packing # {}
          /\ flight' = flight \union packing /\ ahead' = ahead + 1
          /\ \A p \in packing : p.off = ahead
      BY <1>1, <2>3 DEF packFrame, JitterInv, PackingInv
    <3>2. ahead \in Nat /\ MaxEntries \in Nat
      BY <1>1, JitterAssumption DEF JitterInv, PacketInv, JitterAssumption
    <3>3. flight' = packing /\ ahead < MaxEntries
      BY <3>1 DEF Room
    <3>4. ahead' \in 1..MaxEntries /\ ahead = ahead' - 1
      BY <3>1, <3>2, <3>3
    <3>5. QED BY <3>1, <3>3, <3>4 DEF Room
  <2>4. CASE \E m \in flight : onMedia(m)
    BY <1>1, <2>4, ArrivalFits
  <2>5. CASE onControl
    <3>1. UNCHANGED <<turn, queue, flight, ahead>> /\ turn = "network"
      BY <2>5 DEF onControl
    <3>2. QED BY <3>1 DEF Room
  <2>6. CASE networkDone
    <3>1. /\ turn = "network" /\ turn' = "loop" /\ UNCHANGED <<queue, flight, ahead>>
          /\ flight = {}
      BY <2>1, <2>6 DEF networkDone
    <3>2. QED BY <3>1 DEF Room
  <2>7. CASE audioLoop
    BY <1>1, <2>7, PopShrinks
  <2>8. CASE onCaptureFrame
    <3>1. UNCHANGED <<turn, queue, flight, ahead>> /\ turn = "capture"
      BY <2>8 DEF onCaptureFrame
    <3>2. QED BY <3>1 DEF Room
  <2>9. QED BY <2>2, <2>3, <2>4, <2>5, <2>6, <2>7, <2>8 DEF Next, Frame, Network
<1>2. JitterInv /\ [Next]_vars => [Step]_vars
  BY <1>1
<1>3. QED BY <1>2, JitterInvariant, PTL DEF Spec, BacklogShrinks
=============================================================================
