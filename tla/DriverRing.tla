----------------------------- MODULE DriverRing -----------------------------
(***************************************************************************)
(* The PCM ring shared by the user-mode service and the kernel driver:     *)
(* SmartMicDriverLink (start, write, beat) fills it, CSmartMicRing::Read   *)
(* drains it from the WaveRT timer, SetStreamOpen repositions it.          *)
(*                                                                         *)
(* Only the distance between the two 64-bit indices matters, so the state  *)
(* keeps lead = writeIndex - readIndex as a signed number, in units of one *)
(* notification period.  The link's own arithmetic is unsigned: its used   *)
(* and used + samples wrap at 2^64, here at Wrap.  content[k] is what the  *)
(* slot of index readIndex + k holds:                                      *)
(*   "ok"    the audio published, or about to be, for that index           *)
(*   "prev"  the same, but written before the service's last long outage   *)
(*   "busy"  a copy is in progress, or was when the service died           *)
(*   "old"   something else (audio of an earlier lap, silence)             *)
(*                                                                         *)
(* Time advances by Tick, one notification period; while the stream runs   *)
(* each tick is one Read.  The service owes one write every WriteSize      *)
(* ticks and may be late by at most MaxLag writes.                         *)
(***************************************************************************)
EXTENDS Integers

CONSTANTS
  Capacity,   \* SMARTMIC_RING_FRAMES, in units
  WriteSize,  \* one write of the router, in units
  Timeout,    \* SMARTMIC_PRODUCER_TIMEOUT_100NS, in ticks
  Wrap,       \* the modulus of the link's unsigned arithmetic
  MaxGap,     \* bound: how far readIndex is counted past writeIndex
  MaxLag      \* bound: writes the service may owe

ASSUME RingAssumption ==
  /\ Capacity \in Nat \ {0} /\ WriteSize \in Nat \ {0} /\ WriteSize <= Capacity
  /\ Timeout \in Nat /\ Timeout > Capacity
  /\ MaxGap \in Nat /\ MaxGap > 2 * WriteSize
  /\ Wrap \in Nat /\ Wrap > MaxGap + Capacity + WriteSize
  /\ MaxLag \in Nat \ {0}

VARIABLES
  lead,     \* writeIndex - readIndex
  content,  \* the slots, from readIndex on
  beatAge,  \* ticks since producerHeartbeat was written
  stream,   \* "closed", "idle" (open, timer stopped) or "run"
  svc,      \* "idle", in write: "copying", "published"; "down", "cut"
  due,      \* writes the service owes
  phase,    \* ticks since the last write fell due
  outage,   \* history: the service came back to a running stream
  got       \* what the last Read delivered; {} is silence

vars == <<lead, content, beatAge, stream, svc, due, phase, outage, got>>

Slot == 0..Capacity - 1

Stale == beatAge >= Timeout
ProducerAlive == ~Stale

-----------------------------------------------------------------------------
(* The service.                                                            *)

(* write(): used + samples > SMARTMIC_RING_FRAMES, computed unsigned.      *)
linkFull_IgnoresSamples == lead % Wrap > Capacity
linkFull == ((lead % Wrap) + WriteSize) % Wrap > Capacity

(* The slots a write started now would fill.                               *)
Target == {(lead + i) % Capacity : i \in 0..WriteSize - 1}

(* write(), when the link believes the ring is full: the audio is dropped  *)
(* and only the heartbeat moves.                                           *)
writeDropped ==
  /\ svc = "idle" /\ due > 0 /\ linkFull
  /\ beatAge' = 0
  /\ due' = due - 1
  /\ UNCHANGED <<lead, content, stream, svc, phase, outage, got>>

(* write(), otherwise: the payload is copied ...                           *)
writeCopy_NoCheck ==
  /\ svc = "idle" /\ due > 0
  /\ content' = [k \in Slot |-> IF k \in Target THEN "busy" ELSE content[k]]
  /\ svc' = "copying"
  /\ UNCHANGED <<lead, beatAge, stream, due, phase, outage, got>>
writeCopy ==
  /\ svc = "idle" /\ due > 0 /\ ~linkFull
  /\ content' = [k \in Slot |-> IF k \in Target THEN "busy" ELSE content[k]]
  /\ svc' = "copying"
  /\ UNCHANGED <<lead, beatAge, stream, due, phase, outage, got>>

(* ... then the index is published: where readIndex has already gone past, *)
(* the audio lands behind it ...                                           *)
writePublish ==
  /\ svc = "copying"
  /\ content' = [k \in Slot |->
                   IF k \in lead..lead + WriteSize - 1 THEN "ok"
                   ELSE IF content[k] = "busy" THEN "old" ELSE content[k]]
  /\ lead' = lead + WriteSize
  /\ svc' = "published"
  /\ UNCHANGED <<beatAge, stream, due, phase, outage, got>>

(* ... and last the heartbeat is written.                                  *)
beat ==
  /\ svc = "published"
  /\ beatAge' = 0
  /\ due' = due - 1
  /\ svc' = "idle"
  /\ UNCHANGED <<lead, content, stream, phase, outage, got>>

(* "cut" is down as well: dead between publishing and the heartbeat.       *)
Down == svc \in {"down", "cut"}

(* start(): the ring is mapped as it is and the heartbeat written.  That   *)
(* at most one client has it mapped is taken for granted here.             *)
start ==
  /\ Down
  /\ svc' = "idle"
  /\ beatAge' = 0
  /\ due' = 0 /\ phase' = 0
  /\ content' = [k \in Slot |->
                   IF Stale /\ svc = "down" /\ content[k] = "ok" THEN "prev"
                   ELSE content[k]]
  /\ outage' = (Stale /\ stream = "run")
  /\ UNCHANGED <<lead, stream, got>>

(* The service stops or crashes, between or within writes.                 *)
Crash ==
  /\ ~Down
  /\ svc' = IF svc = "published" THEN "cut" ELSE "down"
  /\ due' = 0 /\ phase' = 0
  /\ outage' = FALSE
  /\ UNCHANGED <<lead, content, beatAge, stream, got>>

-----------------------------------------------------------------------------
(* The driver.                                                             *)

(* Read(), one period: a dead producer is silence and readIndex stays;     *)
(* otherwise a reader that was lapped skips forward, what is there is      *)
(* delivered, the rest is silence, and readIndex advances past the whole   *)
(* request.  The slots left behind are the ones of the next lap.           *)
skipped == IF lead > Capacity THEN lead - Capacity ELSE 0
passed(n) == [k \in Slot |->
                IF k + n < Capacity THEN content[k + n]
                ELSE IF content[(k + n) % Capacity] = "busy" THEN "busy"
                ELSE "old"]
Read ==
  IF ~ProducerAlive
  THEN got' = {} /\ UNCHANGED <<lead, content>>
  ELSE /\ got' = IF lead > 0 THEN {content[skipped % Capacity]} ELSE {}
       /\ lead' = IF lead > -MaxGap THEN lead - skipped - 1 ELSE lead
       /\ content' = passed(skipped + 1)

(* SetStreamOpen(TRUE): readIndex = writeIndex.                            *)
repositioned == [k \in Slot |-> IF content[k] = "busy" THEN "busy" ELSE "old"]
SetStreamOpen_KeepsIndex == UNCHANGED <<lead, content>>
SetStreamOpen == lead' = 0 /\ content' = repositioned

(* NewStream and the stream's Init.                                        *)
NewStream ==
  /\ stream = "closed"
  /\ stream' = "idle"
  /\ SetStreamOpen
  /\ UNCHANGED <<beatAge, svc, due, phase, outage, got>>

SetStateRun ==
  /\ stream = "idle"
  /\ stream' = "run"
  /\ SetStreamOpen
  /\ UNCHANGED <<beatAge, svc, due, phase, outage, got>>

(* SetState(PAUSE), (ACQUIRE) or (STOP): the timer stops.                  *)
SetStatePause ==
  /\ stream = "run"
  /\ stream' = "idle"
  /\ outage' = FALSE
  /\ got' = {}
  /\ UNCHANGED <<lead, content, beatAge, svc, due, phase>>

(* The stream's destructor.                                                *)
StreamClosed ==
  /\ stream \in {"idle", "run"}
  /\ stream' = "closed"
  /\ outage' = FALSE
  /\ got' = {}
  /\ UNCHANGED <<lead, content, beatAge, svc, due, phase>>

-----------------------------------------------------------------------------
(* One notification period passes.                                         *)
Tick ==
  /\ (~Down /\ phase + 1 = WriteSize) => due < MaxLag
  /\ beatAge' = IF Stale THEN beatAge ELSE beatAge + 1
  /\ IF Down THEN UNCHANGED <<phase, due>>
     ELSE /\ phase' = (phase + 1) % WriteSize
          /\ due' = IF phase + 1 = WriteSize THEN due + 1 ELSE due
  /\ IF stream = "run" THEN Read ELSE UNCHANGED <<lead, content, got>>
  /\ UNCHANGED <<stream, svc, outage>>

Init ==
  /\ lead = 0 /\ content = [k \in Slot |-> "old"]
  /\ beatAge = Timeout        \* producerHeartbeat is 0: never alive
  /\ stream = "closed" /\ svc = "down"
  /\ due = 0 /\ phase = 0 /\ outage = FALSE /\ got = {}

Service == writeDropped \/ writeCopy \/ writePublish \/ beat
Next ==
  \/ Service \/ start \/ Crash
  \/ NewStream \/ SetStateRun \/ SetStatePause \/ StreamClosed
  \/ Tick

Spec == Init /\ [][Next]_vars

(* Time passes, and a service that is up performs the writes it owes.      *)
FairSpec == Spec /\ WF_vars(Tick) /\ WF_vars(Service)

-----------------------------------------------------------------------------
(* Types; the link's check keeps writeIndex within one ring of readIndex,  *)
(* so the lapped branch of Read is never taken.                            *)
(* (smartmic_driver_link.cpp, write)                                       *)
TypeOK ==
  /\ lead \in -MaxGap..Capacity
  /\ content \in [Slot -> {"ok", "prev", "busy", "old"}]
  /\ beatAge \in 0..Timeout
  /\ stream \in {"closed", "idle", "run"}
  /\ svc \in {"idle", "copying", "published", "down", "cut"}
  /\ due \in 0..MaxLag /\ phase \in 0..WriteSize - 1
  /\ outage \in BOOLEAN
  /\ got \in SUBSET {"ok", "prev", "busy", "old"}

(* Everything between the indices is audio published for exactly those     *)
(* indices, never a copy in progress or a leftover of an earlier lap:      *)
(* although the link decides from a readIndex that the timer and a stream  *)
(* re-open move meanwhile, and although it may die half way.               *)
(* (smartmic_driver_link.cpp, write; ring.cpp, Read and SetStreamOpen)     *)
PublishedIsIntact == \A k \in Slot : k < lead => content[k] \in {"ok", "prev"}

(* A running stream never replays audio from before an outage longer than  *)
(* the heartbeat timeout: a restarted service finds it drained or skipped, *)
(* unless it had died between publishing a write and its heartbeat.        *)
(* (ring.cpp, Read drains for Timeout ticks after the last write, which is *)
(* more than the ring holds; SetStreamOpen)                                *)
NoReplayAfterOutage ==
  stream = "run" => \A k \in Slot : k < lead => content[k] # "prev"

(* After an outage the silence ends once the heartbeat moves again: a      *)
(* stream that stays open hears audio, if the service stays up.            *)
(* (docs/architecture/05-driver-interface.md, staleness rule: "emits pure  *)
(* silence until it moves again")                                          *)
SilenceEnds == outage ~> (got # {} \/ ~outage)
=============================================================================
