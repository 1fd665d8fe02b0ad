------------------------- MODULE DriverRing_proofs -------------------------
(***************************************************************************)
(* DriverRing for every ring size, write size and timeout: what may be     *)
(* read, what an outage leaves, and why its silence may not end.           *)
(***************************************************************************)
EXTENDS DriverRing, TLAPS

(* What the two properties rest on: while a copy is in progress there is   *)
(* still room for it, whatever readIndex did since the link looked.        *)
RoomWhileCopying == svc = "copying" => lead + WriteSize <= Capacity

(* A write in progress is one that was owed.                               *)
OwedWhileWriting == svc \in {"copying", "published"} => due > 0

RingInv == TypeOK /\ PublishedIsIntact /\ RoomWhileCopying /\ OwedWhileWriting

(* A number below the modulus is its own residue: the slots of a write     *)
(* that fits, and the link's arithmetic where nothing wraps.               *)
LEMMA SmallMod ==
  ASSUME NEW c \in Nat \ {0}, NEW n \in 0..c - 1
  PROVE  n % c = n
  OBVIOUS

(* A residue is a slot.                                                    *)
LEMMA ModRange ==
  ASSUME NEW c \in Nat \ {0}, NEW n \in Int
  PROVE  n % c \in 0..c - 1
  OBVIOUS

(* Less of one summand is less of the sum.                                 *)
LEMMA SumMonotone ==
  ASSUME NEW a \in Int, NEW b \in Int, NEW n \in Int, NEW c \in Int,
         a <= b, b + n <= c
  PROVE  a + n <= c
  OBVIOUS

(* Where the link sees room there is room, unsigned wrap-around included.  *)
LEMMA NotFullMeansRoom ==
  ASSUME TypeOK, ~linkFull
  PROVE  lead + WriteSize <= Capacity
<1>1. CASE lead < 0
  BY <1>1, RingAssumption DEF TypeOK
<1>2. CASE lead >= 0
  <2>1. lead % Wrap = lead
    BY <1>2, RingAssumption, SmallMod DEF TypeOK
  <2>2. (lead + WriteSize) % Wrap = lead + WriteSize
    BY <1>2, RingAssumption, SmallMod DEF TypeOK
  <2>. QED  BY <2>1, <2>2, RingAssumption DEF linkFull, TypeOK
<1>. QED  BY <1>1, <1>2, RingAssumption DEF TypeOK

LEMMA RingInitInv == Init => RingInv
<1> SUFFICES ASSUME Init PROVE RingInv
  OBVIOUS
<1>1. TypeOK
  <2>1. lead \in -MaxGap..Capacity /\ beatAge \in 0..Timeout
    BY RingAssumption DEF Init
  <2>2. due \in 0..MaxLag /\ phase \in 0..WriteSize - 1
    BY RingAssumption DEF Init
  <2>. QED  BY <2>1, <2>2 DEF Init, TypeOK
<1>2. PublishedIsIntact
  BY DEF Init, PublishedIsIntact, Slot
<1>3. RoomWhileCopying
  BY DEF Init, RoomWhileCopying
<1>4. OwedWhileWriting
  BY DEF Init, OwedWhileWriting
<1>. QED  BY <1>1, <1>2, <1>3, <1>4 DEF RingInv

(* Read keeps the ring typed and intact: it moves readIndex over one slot  *)
(* and the slots behind it are left for the next lap.                      *)
LEMMA ReadInv ==
  ASSUME RingInv, Read
  PROVE  /\ lead' \in -MaxGap..Capacity /\ lead' <= lead
         /\ content' \in [Slot -> {"ok", "prev", "busy", "old"}]
         /\ PublishedIsIntact'
         /\ got' \in SUBSET {"ok", "prev", "busy", "old"}
<1>1. CASE ~ProducerAlive
  BY <1>1, RingAssumption DEF Read, RingInv, TypeOK, PublishedIsIntact
<1>2. CASE ProducerAlive
  <2>1. skipped = 0
    BY RingAssumption DEF RingInv, TypeOK, skipped
  <2>2. skipped % Capacity = 0
    BY <2>1, SmallMod, RingAssumption
  <2>3. content' = passed(1)
    BY <1>2, <2>1 DEF Read
  <2>4. \A k \in Slot : (k + 1) % Capacity \in Slot
    BY ModRange, RingAssumption DEF Slot
  <2>5. \A k \in Slot : k + 1 < Capacity => k + 1 \in Slot
    BY RingAssumption DEF Slot
  <2>6. content' \in [Slot -> {"ok", "prev", "busy", "old"}]
    BY <2>3, <2>4, <2>5 DEF passed, RingInv, TypeOK
  <2>7. lead' = (IF lead > -MaxGap THEN lead - 1 ELSE lead)
    BY <1>2, <2>1, RingAssumption DEF Read, RingInv, TypeOK
  <2>8. lead' \in -MaxGap..Capacity /\ lead' <= lead
    BY <2>7, RingAssumption DEF RingInv, TypeOK
  <2>9. PublishedIsIntact'
    <3> SUFFICES ASSUME NEW k \in Slot, k < lead'
                 PROVE  content'[k] \in {"ok", "prev"}
      BY DEF PublishedIsIntact, Slot
    <3>1. k + 1 < lead /\ k + 1 < Capacity
      BY <2>7, RingAssumption DEF RingInv, TypeOK, Slot
    <3>2. content'[k] = content[k + 1]
      BY <2>3, <3>1 DEF passed
    <3>. QED  BY <3>1, <3>2, <2>5 DEF RingInv, PublishedIsIntact
  <2>10. got' \in SUBSET {"ok", "prev", "busy", "old"}
    BY <1>2, <2>2, RingAssumption DEF Read, RingInv, TypeOK, Slot
  <2>. QED  BY <2>6, <2>8, <2>9, <2>10
<1>. QED  BY <1>1, <1>2

(* Every step keeps the inductive invariant.                               *)
LEMMA RingNextInv == RingInv /\ [Next]_vars => RingInv'
<1> SUFFICES ASSUME RingInv, [Next]_vars PROVE RingInv'
  OBVIOUS
<1> USE RingAssumption
<1> USE DEF RingInv
<1>1. CASE writeDropped
  BY <1>1 DEF writeDropped, TypeOK, PublishedIsIntact, RoomWhileCopying,
              OwedWhileWriting
<1>2. CASE writeCopy
  <2>1. lead + WriteSize <= Capacity
    BY <1>2, NotFullMeansRoom DEF writeCopy
  <2>2. \A k \in Slot : k < lead => k \notin Target
    <3> SUFFICES ASSUME NEW k \in Slot, k < lead, NEW i \in 0..WriteSize - 1
                 PROVE  k # (lead + i) % Capacity
      BY DEF Target
    <3>1. lead + i \in 0..Capacity - 1
      BY <2>1 DEF TypeOK, Slot
    <3>2. (lead + i) % Capacity = lead + i
      BY <3>1, SmallMod
    <3>. QED  BY <3>2 DEF TypeOK, Slot
  <2>3. PublishedIsIntact'
    BY <1>2, <2>2 DEF writeCopy, PublishedIsIntact
  <2>4. TypeOK'
    BY <1>2 DEF writeCopy, TypeOK
  <2>. QED  BY <1>2, <2>1, <2>3, <2>4 
         DEF writeCopy, RoomWhileCopying, OwedWhileWriting
<1>3. CASE writePublish
  <2>1. lead' = lead + WriteSize /\ lead' \in -MaxGap..Capacity
    BY <1>3 DEF writePublish, RoomWhileCopying, TypeOK
  <2>2. TypeOK'
    BY <1>3, <2>1 DEF writePublish, TypeOK
  <2>3. PublishedIsIntact'
    BY <1>3, <2>1 DEF writePublish, PublishedIsIntact, TypeOK, Slot
  <2>. QED  BY <1>3, <2>2, <2>3 
         DEF writePublish, RoomWhileCopying, OwedWhileWriting
<1>4. CASE beat
  <2>1. due \in Nat /\ due > 0
    BY <1>4 DEF beat, TypeOK, OwedWhileWriting
  <2>2. due' \in 0..MaxLag
    BY <1>4, <2>1 DEF beat, TypeOK
  <2>3. TypeOK'
    BY <1>4, <2>2 DEF beat, TypeOK
  <2>4. PublishedIsIntact' /\ svc' = "idle"
    BY <1>4 DEF beat, PublishedIsIntact
  <2>. QED  BY <2>3, <2>4 DEF RoomWhileCopying, OwedWhileWriting
<1>5. CASE start
  <2>1. content' \in [Slot -> {"ok", "prev", "busy", "old"}]
    BY <1>5 DEF start, TypeOK
  <2>2. outage' \in BOOLEAN
    BY <1>5 DEF start
  <2>3. TypeOK'
    BY <1>5, <2>1, <2>2 DEF start, TypeOK
  <2>4. PublishedIsIntact'
    BY <1>5 DEF start, PublishedIsIntact
  <2>. QED  BY <1>5, <2>3, <2>4 
         DEF start, RoomWhileCopying, OwedWhileWriting
<1>6. CASE Crash
  <2>1. svc' \in {"down", "cut"}
    BY <1>6 DEF Crash
  <2>2. due' \in 0..MaxLag /\ phase' \in 0..WriteSize - 1
    BY <1>6 DEF Crash
  <2>3. TypeOK'
    BY <1>6, <2>1, <2>2 DEF Crash, TypeOK
  <2>4. PublishedIsIntact'
    BY <1>6 DEF Crash, PublishedIsIntact
  <2>. QED  BY <2>1, <2>3, <2>4 DEF RoomWhileCopying, OwedWhileWriting
<1>7. CASE NewStream
  <2>1. lead' = 0 /\ content' = repositioned
    BY <1>7 DEF NewStream, SetStreamOpen
  <2>2. content' \in [Slot -> {"ok", "prev", "busy", "old"}]
    BY <2>1 DEF repositioned
  <2>3. TypeOK'
    BY <1>7, <2>1, <2>2 DEF NewStream, TypeOK
  <2>4. PublishedIsIntact'
    BY <2>1 DEF PublishedIsIntact, Slot
  <2>5. RoomWhileCopying'
    BY <2>1 DEF RoomWhileCopying
  <2>6. OwedWhileWriting'
    BY <1>7 DEF NewStream, OwedWhileWriting
  <2>. QED  BY <2>3, <2>4, <2>5, <2>6
<1>8. CASE SetStateRun
  <2>1. lead' = 0 /\ content' = repositioned
    BY <1>8 DEF SetStateRun, SetStreamOpen
  <2>2. content' \in [Slot -> {"ok", "prev", "busy", "old"}]
    BY <2>1 DEF repositioned
  <2>3. TypeOK'
    BY <1>8, <2>1, <2>2 DEF SetStateRun, TypeOK
  <2>4. PublishedIsIntact'
    BY <2>1 DEF PublishedIsIntact, Slot
  <2>5. RoomWhileCopying'
    BY <2>1 DEF RoomWhileCopying
  <2>6. OwedWhileWriting'
    BY <1>8 DEF SetStateRun, OwedWhileWriting
  <2>. QED  BY <2>3, <2>4, <2>5, <2>6
<1>9. CASE SetStatePause
  BY <1>9 DEF SetStatePause, TypeOK, PublishedIsIntact, RoomWhileCopying,
              OwedWhileWriting
<1>10. CASE StreamClosed
  BY <1>10 DEF StreamClosed, TypeOK, PublishedIsIntact, RoomWhileCopying,
              OwedWhileWriting
<1>11. CASE Tick
  <2>1. /\ lead' \in -MaxGap..Capacity /\ lead' <= lead
        /\ content' \in [Slot -> {"ok", "prev", "busy", "old"}]
        /\ PublishedIsIntact'
        /\ got' \in SUBSET {"ok", "prev", "busy", "old"}
    <3>1. CASE stream = "run"
      BY <1>11, <3>1, ReadInv DEF Tick
    <3>2. CASE stream # "run"
      <4>1. lead' = lead /\ content' = content /\ got' = got
        BY <1>11, <3>2 DEF Tick
      <4>. QED  BY <4>1 DEF TypeOK, PublishedIsIntact
    <3>. QED  BY <3>1, <3>2
  <2>2. beatAge' \in 0..Timeout
    BY <1>11 DEF Tick, TypeOK, Stale
  <2>3. due' \in 0..MaxLag /\ phase' \in 0..WriteSize - 1
    <3>1. (phase + 1) % WriteSize \in 0..WriteSize - 1
      BY ModRange DEF TypeOK
    <3>. QED  BY <1>11, <3>1 DEF Tick, TypeOK
  <2>4. stream' = stream /\ svc' = svc /\ outage' = outage
    BY <1>11 DEF Tick
  <2>5. TypeOK'
    BY <2>1, <2>2, <2>3, <2>4 DEF TypeOK
  <2>6. RoomWhileCopying'
    <3> SUFFICES ASSUME svc = "copying" PROVE lead' + WriteSize <= Capacity
      BY <2>4 DEF RoomWhileCopying
    <3>1. lead + WriteSize <= Capacity
      BY DEF RoomWhileCopying
    <3>2. lead \in Int /\ lead' \in Int /\ lead' <= lead
      BY <2>1 DEF TypeOK
    <3>3. WriteSize \in Int /\ Capacity \in Int
      OBVIOUS
    <3>. QED  BY <3>1, <3>2, <3>3, SumMonotone
  <2>7. OwedWhileWriting'
    BY <1>11, <2>4 DEF Tick, Down, OwedWhileWriting, TypeOK
  <2>. QED  BY <2>1, <2>5, <2>6, <2>7
<1>12. CASE UNCHANGED vars
  BY <1>12 DEF vars, TypeOK, PublishedIsIntact, RoomWhileCopying,
               OwedWhileWriting
<1>. QED
  BY <1>1, <1>2, <1>3, <1>4, <1>5, <1>6, <1>7, <1>8, <1>9, <1>10, <1>11,
     <1>12 DEF Next, Service

(* The ring's invariant holds in every reachable state, for every ring     *)
(* size, write size and timeout.                                           *)
THEOREM RingInvariant == Spec => []RingInv
<1>. QED  BY RingInitInv, RingNextInv, PTL DEF Spec

(* Types, and writeIndex never more than one ring ahead of readIndex.      *)
(* (smartmic_driver_link.cpp, write)                                       *)
THEOREM RingTypeOK == Spec => []TypeOK
<1>1. RingInv => TypeOK
  BY DEF RingInv
<1>. QED  BY <1>1, RingInvariant, PTL

(* What lies between the indices is always published audio, whenever the   *)
(* timer, a stream re-open or a crash cuts into a write.                   *)
(* (smartmic_driver_link.cpp, write; ring.cpp, Read and SetStreamOpen)     *)
THEOREM RingIntegrity == Spec => []PublishedIsIntact
<1>1. RingInv => PublishedIsIntact
  BY DEF RingInv
<1>. QED  BY <1>1, RingInvariant, PTL
-----------------------------------------------------------------------------
(* Outages.                                                                *)

(* A running stream drains the ring at the pace at which the heartbeat     *)
(* ages, except for a write that was published without its heartbeat.      *)
DrainInv ==
  stream = "run" /\ svc \notin {"published", "cut"}
    => lead <= 0 \/ lead + beatAge <= Capacity

(* A stream that does not run delivers nothing.                            *)
QuietInv == stream # "run" => got = {}

OutageInv == DrainInv /\ QuietInv /\ NoReplayAfterOutage

LEMMA OutageInitInv == Init => OutageInv
BY DEF Init, OutageInv, DrainInv, QuietInv, NoReplayAfterOutage

(* The service's steps: a publication puts audio of its own into the slots *)
(* it adds, and a restart that is late finds a running stream's ring empty.*)
LEMMA OutageService ==
  ASSUME RingInv, OutageInv, Service \/ start \/ Crash
  PROVE  OutageInv'
<1> USE RingAssumption
<1> USE DEF RingInv, OutageInv, TypeOK
<1>1. UNCHANGED <<stream, got>>
  BY DEF Service, writeDropped, writeCopy, writePublish, beat, start, Crash
<1>2. QuietInv'
  BY <1>1 DEF QuietInv
<1>3. DrainInv'
  BY <1>1 DEF DrainInv, Service, writeDropped, writeCopy, writePublish, beat, start, Crash, Down
<1>4. NoReplayAfterOutage'
  <2> SUFFICES ASSUME stream = "run", NEW k \in Slot, k < lead' PROVE content'[k] # "prev"
    BY <1>1 DEF NoReplayAfterOutage
  <2> USE DEF NoReplayAfterOutage
  <2>1. CASE writeDropped \/ beat \/ Crash
    BY <2>1 DEF writeDropped, beat, Crash
  <2>2. CASE writeCopy
    BY <2>2 DEF writeCopy
  <2>3. CASE writePublish
    BY <2>3 DEF writePublish, Slot
  <2>4. CASE start
    <3>1. CASE Stale /\ svc = "down"
      <4>1. lead <= 0
        BY <3>1 DEF DrainInv, Stale
      <4>2. QED BY <2>4, <4>1 DEF start, Slot
    <3>2. CASE ~(Stale /\ svc = "down")
      BY <2>4, <3>2 DEF start
    <3>3. QED BY <3>1, <3>2
  <2>5. QED BY <2>1, <2>2, <2>3, <2>4 DEF Service
<1>5. QED BY <1>2, <1>3, <1>4

LEMMA OutageRead ==
  ASSUME RingInv, OutageInv, stream = "run", Tick
  PROVE  OutageInv'
<1> USE RingAssumption
<1> USE DEF RingInv, OutageInv, TypeOK
<1>1. /\ Read /\ UNCHANGED <<stream, svc>>
      /\ beatAge' = IF Stale THEN beatAge ELSE beatAge + 1
  BY DEF Tick
<1>2. CASE ~ProducerAlive
  BY <1>1, <1>2 DEF Read, ProducerAlive, DrainInv, QuietInv, NoReplayAfterOutage
<1>3. CASE ProducerAlive
  <2>1. skipped = 0
    BY DEF skipped
  <2>2. content' = passed(1) /\ lead' = (IF lead > -MaxGap THEN lead - 1 ELSE lead)
    BY <1>1, <1>3, <2>1 DEF Read
  <2>3. DrainInv' /\ QuietInv'
    BY <1>1, <1>3, <2>2 DEF ProducerAlive, DrainInv, QuietInv
  <2>4. NoReplayAfterOutage'
    <3> SUFFICES ASSUME NEW k \in Slot, k < lead' PROVE content'[k] # "prev"
      BY DEF NoReplayAfterOutage
    <3>1. k + 1 < lead /\ k + 1 \in Slot
      BY <2>2 DEF Slot
    <3>2. content'[k] = content[k + 1]
      BY <2>2, <3>1 DEF passed, Slot
    <3>3. QED BY <3>1, <3>2 DEF NoReplayAfterOutage
  <2>5. QED BY <2>3, <2>4
<1>4. QED BY <1>2, <1>3

LEMMA OutageNextInv == RingInv /\ OutageInv /\ [Next]_vars => OutageInv'
<1> SUFFICES ASSUME RingInv, OutageInv, [Next]_vars PROVE OutageInv'
  OBVIOUS
<1> USE DEF OutageInv, DrainInv, QuietInv, NoReplayAfterOutage
<1>1. CASE Service \/ start \/ Crash
  BY <1>1, OutageService
<1>2. CASE NewStream
  BY <1>2 DEF NewStream
<1>3. CASE SetStateRun
  BY <1>3 DEF SetStateRun, SetStreamOpen, Slot
<1>4. CASE SetStatePause \/ StreamClosed
  BY <1>4 DEF SetStatePause, StreamClosed
<1>5. CASE Tick /\ stream = "run"
  BY <1>5, OutageRead
<1>6. CASE Tick /\ stream # "run"
  BY <1>6 DEF Tick
<1>7. CASE UNCHANGED vars
  BY <1>7 DEF vars
<1>8. QED BY <1>1, <1>2, <1>3, <1>4, <1>5, <1>6, <1>7 DEF Next

LEMMA OutageInvariant == Spec => []OutageInv
BY RingInvariant, OutageInitInv, OutageNextInv, PTL DEF Spec

(* Audio from before an outage longer than the heartbeat timeout is never  *)
(* replayed to a running stream, for every ring shorter than the timeout:  *)
(* by the time the heartbeat is stale the ring is drained.                 *)
(* (ring.cpp, Read and SetStreamOpen)                                      *)
THEOREM NoReplay == Spec => []NoReplayAfterOutage
<1>1. OutageInv => NoReplayAfterOutage
  BY DEF OutageInv
<1>2. QED BY <1>1, OutageInvariant, PTL

-----------------------------------------------------------------------------
(* Why SilenceEnds fails, for rings and writes of any size.                *)

(* The unsigned comparison takes two rings for full: one without room for  *)
(* a write, and an empty one whose reader is more than a write ahead.      *)
LEMMA FullIsFullOrOvertaken ==
  ASSUME TypeOK
  PROVE  linkFull <=> lead + WriteSize > Capacity \/ lead < -WriteSize
<1>1. /\ lead \in Int /\ -MaxGap <= lead /\ lead <= Capacity
      /\ Capacity \in Nat \ {0} /\ WriteSize \in Nat \ {0} /\ WriteSize <= Capacity
      /\ MaxGap \in Nat /\ Wrap \in Nat /\ Wrap > MaxGap + Capacity + WriteSize
  BY RingAssumption DEF TypeOK, RingAssumption
<1>2. CASE lead >= 0
  <2>1. lead % Wrap = lead
    BY <1>1, <1>2, SmallMod
  <2>2. (lead + WriteSize) % Wrap = lead + WriteSize
    BY <1>1, <1>2, SmallMod
  <2>3. QED BY <1>1, <1>2, <2>1, <2>2 DEF linkFull
<1>3. CASE lead < 0
  <2>1. lead % Wrap = lead + Wrap
    BY <1>1, <1>3
  <2>2. CASE lead + WriteSize >= 0
    <3>1. ((lead + Wrap) + WriteSize) % Wrap = lead + WriteSize
      BY <1>1, <1>3, <2>2
    <3>2. QED BY <1>1, <1>3, <2>1, <2>2, <3>1 DEF linkFull
  <2>3. CASE lead + WriteSize < 0
    <3>1. ((lead + Wrap) + WriteSize) % Wrap = (lead + Wrap) + WriteSize
      BY <1>1, <2>3, SmallMod
    <3>2. QED BY <1>1, <2>1, <2>3, <3>1 DEF linkFull
  <2>4. QED BY <1>1, <2>2, <2>3
<1>4. QED BY <1>1, <1>2, <1>3

(* Once the reader is more than a write ahead and no copy is in progress,  *)
(* only a stream that is opened changes it: the service may crash, start   *)
(* and write as it likes, each write is dropped and each period silent.    *)
(* (smartmic_driver_link.cpp, write: "The driver is not draining")         *)
Overtaken == lead < -WriteSize /\ svc # "copying"
OvertakenIsForGood ==
  [][Overtaken /\ ~NewStream /\ ~SetStateRun =>
       Overtaken' /\ ~writeCopy /\ (Tick => got' = {})]_vars

(* The same for every ring, write and timeout.  (smartmic_driver_link.cpp, *)
(* write; ring.cpp, Read)                                                  *)
THEOREM NoWayBack == Spec => OvertakenIsForGood
<1> DEFINE Step == Overtaken /\ ~NewStream /\ ~SetStateRun =>
                     Overtaken' /\ ~writeCopy /\ (Tick => got' = {})
<1>1. ASSUME RingInv, OutageInv, Next PROVE Step
  <2> SUFFICES ASSUME Overtaken, ~NewStream, ~SetStateRun
               PROVE  Overtaken' /\ ~writeCopy /\ (Tick => got' = {})
    OBVIOUS
  <2>1. /\ lead \in Int /\ lead < -WriteSize /\ svc # "copying"
        /\ WriteSize \in Nat \ {0} /\ Capacity \in Nat
    BY <1>1, RingAssumption DEF RingInv, TypeOK, Overtaken, RingAssumption
  <2>2. ~writeCopy
    <3>1. linkFull
      BY <1>1, <2>1, FullIsFullOrOvertaken DEF RingInv
    <3>2. QED BY <3>1 DEF writeCopy
  <2>3. CASE Tick
    <3>1. svc' = svc
      BY <2>3 DEF Tick
    <3>2. CASE stream = "run"
      <4>1. Read
        BY <2>3, <3>2 DEF Tick
      <4>2. ~(lead > 0) /\ skipped = 0
        BY <2>1 DEF skipped
      <4>3. got' = {}
        BY <4>1, <4>2 DEF Read
      <4>4. lead' \in {lead, lead - 1}
        BY <2>1, <4>1, <4>2 DEF Read
      <4>5. lead' < -WriteSize
        BY <2>1, <4>4
      <4>6. QED BY <2>1, <2>2, <3>1, <4>3, <4>5 DEF Overtaken
    <3>3. CASE stream # "run"
      <4>1. lead' = lead /\ got' = got
        BY <2>3, <3>3 DEF Tick
      <4>2. got = {}
        BY <1>1, <3>3 DEF OutageInv, QuietInv
      <4>3. QED BY <2>1, <2>2, <3>1, <4>1, <4>2 DEF Overtaken
    <3>4. QED BY <3>2, <3>3
  <2>4. CASE ~Tick
    <3>1. lead' = lead /\ svc' # "copying"
      BY <1>1, <2>1, <2>2, <2>4 DEF Next, Service, writeDropped, writePublish, beat, start,
         Crash, SetStatePause, StreamClosed
    <3>2. QED BY <2>1, <2>2, <2>4, <3>1 DEF Overtaken
  <2>5. QED BY <2>3, <2>4
<1>2. RingInv /\ OutageInv /\ [Next]_vars => [Step]_vars
  BY <1>1
<1>3. QED BY <1>2, RingInvariant, OutageInvariant, PTL DEF Spec, OvertakenIsForGood
=============================================================================
