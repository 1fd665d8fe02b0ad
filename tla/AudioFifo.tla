------------------------------ MODULE AudioFifo ------------------------------
(***************************************************************************)
(* A device and the audio thread, with a RingBuffer<float> between them:   *)
(* the WASAPI capture source and the host's live microphone, whose device  *)
(* side writes and whose audio thread reads, and the WASAPI render sink,   *)
(* where it is the other way round.  The audio thread is the service's     *)
(* main thread: it starts the device, uses it frame by frame and stops it. *)
(*                                                                         *)
(* A sample is the index it is written at.  The two indices only meet in   *)
(* loads and stores, and samples are copied one by one: memcpy has no      *)
(* order with the other side.                                              *)
(***************************************************************************)
EXTENDS Integers

CONSTANTS
  Capacity,   \* capacity_, a power of two
  FrameLen,   \* kFrameSamples
  MaxPacket,  \* bound: samples the device brings or takes at once
  MaxItems    \* bound: samples written

ASSUME FifoAssumption ==
  /\ Capacity \in Nat \ {0} /\ FrameLen \in 1..Capacity
  /\ MaxPacket \in 1..Capacity /\ MaxItems \in Nat

VARIABLES
  side,      \* "capture", "mic" or "render"
  main,      \* the audio thread: "off", "on", "stopping", "stopped"
  running, failed,   \* running_, failed_
  client,    \* the device's objects exist
  dev,       \* the device's thread: "none", "top", "wait", "busy", "reading", "exited"
  signalled, \* event_ was set by stop()
  pending,   \* pending_: samples short of a frame (live microphone)
  wr, rd, data,      \* write_, read_, data_
  prod, cons,        \* the write and the read in progress
  next,      \* history: the sample after the last one delivered
  overrun,   \* history: samples were dropped
  torn,      \* history: they were dropped under a read's feet
  garbled    \* history: a read delivered another sample than its index says

deviceVars == <<side, main, running, failed, client, dev, signalled, pending>>
ringVars   == <<wr, rd, data, prod, cons, next, overrun, torn, garbled>>
vars       == <<deviceVars, ringVars>>

noWrite == [at |-> "idle", r |-> 0, count |-> 0, k |-> 0, alone |-> FALSE]
noRead  == [at |-> "idle", r |-> 0, n |-> 0, k |-> 0]
slot(i) == i % Capacity
fits(n) == wr + prod.count + pending + n <= MaxItems
-----------------------------------------------------------------------------
(* RingBuffer::write(count).                                               *)
overflow(r, count) == wr - r + count - Capacity

writeBegin(count) ==
  /\ prod.at = "idle"
  /\ prod' = [at |-> IF overflow(rd, count) > 0 THEN "drop" ELSE "copy", r |-> rd,
              count |-> count, k |-> 0, alone |-> cons.at = "idle"]
  /\ UNCHANGED <<wr, rd, data, cons, next, overrun, torn, garbled>>

writeDrop_Forgotten ==
  /\ prod.at = "drop" /\ prod' = [prod EXCEPT !.at = "copy"]
  /\ overrun' = TRUE
  /\ UNCHANGED <<deviceVars, wr, rd, data, cons, next, torn, garbled>>
writeDrop ==
  /\ prod.at = "drop" /\ prod' = [prod EXCEPT !.at = "copy"]
  /\ rd' = prod.r + overflow(prod.r, prod.count)
  /\ overrun' = TRUE
  /\ torn' = (torn \/ cons.at # "idle" \/ rd # prod.r)
  /\ UNCHANGED <<deviceVars, wr, data, cons, next, garbled>>

writeCopy_PublishesFirst ==
  /\ prod.at = "copy" /\ prod.k < prod.count
  /\ wr' = IF prod.k = 0 THEN wr + prod.count ELSE wr
  /\ data' = [data EXCEPT ![slot(wr + prod.k)] = wr + prod.k]
  /\ prod' = [prod EXCEPT !.k = @ + 1]
  /\ UNCHANGED <<deviceVars, rd, cons, next, overrun, torn, garbled>>
writeCopy ==
  /\ prod.at = "copy" /\ prod.k < prod.count
  /\ data' = [data EXCEPT ![slot(wr + prod.k)] = wr + prod.k]
  /\ prod' = [prod EXCEPT !.k = @ + 1]
  /\ UNCHANGED <<deviceVars, wr, rd, cons, next, overrun, torn, garbled>>

writePublish ==
  /\ prod.at = "copy" /\ prod.k = prod.count
  /\ wr' = wr + prod.count /\ prod' = noWrite
  /\ torn' = (torn /\ ~prod.alone)
  /\ UNCHANGED <<deviceVars, rd, data, cons, next, overrun, garbled>>

(* RingBuffer::read(count); the caller fills up with silence.  Its loads   *)
(* of the two indices are one step: between them the producer could but    *)
(* publish more, which the next read takes, or drop, which torn records.   *)
readBegin(count) ==
  /\ cons.at = "idle"
  /\ cons' = [at |-> "copy", r |-> rd, k |-> 0,
              n |-> IF wr - rd < count THEN wr - rd ELSE count]
  /\ prod' = [prod EXCEPT !.alone = FALSE]
  /\ UNCHANGED <<wr, rd, data, next, overrun, torn, garbled>>

readCopy ==
  /\ cons.at = "copy" /\ cons.k < cons.n
  /\ cons' = [cons EXCEPT !.k = @ + 1]
  /\ garbled' = (garbled \/ data[slot(cons.r + cons.k)] # cons.r + cons.k)
  /\ next' = cons.r + cons.k + 1
  /\ UNCHANGED <<deviceVars, wr, rd, data, prod, overrun, torn>>

readStore ==
  /\ cons.at = "copy" /\ cons.k = cons.n
  /\ rd' = cons.r + cons.n /\ cons' = noRead
  /\ UNCHANGED <<deviceVars, wr, data, prod, next, overrun, torn, garbled>>
-----------------------------------------------------------------------------
(* start(): every step may fail, and then the service gives up.            *)
start ==
  /\ main = "off" /\ main' = "on"
  /\ running' = TRUE /\ failed' = FALSE /\ client' = TRUE /\ dev' = "top"
  /\ UNCHANGED <<side, signalled, pending, ringVars>>

startFails ==
  /\ main = "off" /\ main' = "stopped"
  /\ UNCHANGED <<side, running, failed, client, dev, signalled, pending, ringVars>>

(* The audio thread's frame: read() of a source, write() of a sink.        *)
sourceRead ==
  /\ main = "on" /\ side # "render" /\ ~failed
  /\ readBegin(FrameLen)
  /\ UNCHANGED deviceVars

sinkWrite ==
  /\ main = "on" /\ side = "render" /\ running /\ fits(FrameLen)
  /\ writeBegin(FrameLen)
  /\ UNCHANGED deviceVars

(* stop(): between frames; wakes the thread, waits for it, and only then   *)
(* gives the device back.                                                  *)
betweenFrames == IF side = "render" THEN prod.at = "idle" ELSE cons.at = "idle"

stop ==
  /\ main = "on" /\ betweenFrames /\ main' = "stopping"
  /\ running' = FALSE /\ signalled' = TRUE
  /\ UNCHANGED <<side, failed, client, dev, pending, ringVars>>

join_NotWaiting ==
  /\ main = "stopping"
  /\ main' = "stopped" /\ client' = FALSE /\ signalled' = FALSE
  /\ UNCHANGED <<side, running, failed, dev, pending, ringVars>>
join ==
  /\ main = "stopping" /\ dev = "exited"
  /\ main' = "stopped" /\ client' = FALSE /\ signalled' = FALSE
  /\ UNCHANGED <<side, running, failed, dev, pending, ringVars>>
-----------------------------------------------------------------------------
(* captureLoop, renderLoop: the top of the loop and the wait.              *)
loopTop_ForEver ==
  /\ dev = "top" /\ dev' = "wait"
  /\ UNCHANGED <<side, main, running, failed, client, signalled, pending, ringVars>>
loopTop ==
  /\ dev = "top"
  /\ dev' = IF running \/ side = "mic" THEN "wait" ELSE "exited"
  /\ UNCHANGED <<side, main, running, failed, client, signalled, pending, ringVars>>

wakes ==
  /\ dev = "wait" /\ side # "mic"
  /\ dev' = "busy" /\ signalled' = FALSE
  /\ UNCHANGED <<side, main, running, failed, client, pending, ringVars>>

waitTimesOut ==
  /\ dev = "wait" /\ side # "mic" /\ ~signalled
  /\ dev' = "top"
  /\ failed' = (failed \/ (running /\ side = "capture"))
  /\ UNCHANGED <<side, main, running, client, signalled, pending, ringVars>>

(* A packet of the microphone; none left, and back to the wait.            *)
capturePacket ==
  /\ dev = "busy" /\ side = "capture"
  /\ \E n \in 1..MaxPacket : fits(n) /\ writeBegin(n)
  /\ UNCHANGED deviceVars

deviceDone ==
  /\ dev \in {"busy", "reading"} /\ dev' = "top"
  /\ side = "render" => cons.at = "idle"
  /\ side # "render" => prod.at = "idle"
  /\ side = "mic" => pending < FrameLen
  /\ UNCHANGED <<side, main, running, failed, client, signalled, pending, ringVars>>

(* What fits into the speaker's buffer, taken from the ring.               *)
renderPacket ==
  /\ dev = "busy" /\ side = "render" /\ dev' = "reading"
  /\ \E n \in 1..MaxPacket : readBegin(n)
  /\ UNCHANGED <<side, main, running, failed, client, signalled, pending>>

(* The phone's capture backends, here behind the live microphone: a        *)
(* callback of any size, cut into frames for the handler.                  *)
onData ==
  /\ dev = "wait" /\ side = "mic" /\ running
  /\ \E n \in 1..MaxPacket : fits(n) /\ pending' = pending + n
  /\ dev' = "busy"
  /\ UNCHANGED <<side, main, running, failed, client, signalled, ringVars>>

handler ==
  /\ dev = "busy" /\ side = "mic" /\ pending >= FrameLen
  /\ pending' = pending - FrameLen
  /\ writeBegin(FrameLen)
  /\ UNCHANGED <<side, main, running, failed, client, dev, signalled>>

(* The platform reports an error: callbacks bring nothing any more.        *)
onError ==
  /\ side = "mic" /\ running /\ running' = FALSE
  /\ UNCHANGED <<side, main, failed, client, dev, signalled, pending, ringVars>>

(* Closing the stream waits for the callback in progress.                  *)
streamClosed ==
  /\ side = "mic" /\ main = "stopping" /\ dev = "wait" /\ dev' = "exited"
  /\ UNCHANGED <<side, main, running, failed, client, signalled, pending, ringVars>>
-----------------------------------------------------------------------------
Init ==
  /\ side \in {"capture", "mic", "render"}
  /\ main = "off" /\ running = FALSE /\ failed = FALSE /\ client = FALSE
  /\ dev = "none" /\ signalled = FALSE /\ pending = 0
  /\ wr = 0 /\ rd = 0 /\ data = [s \in 0..Capacity - 1 |-> s - Capacity]
  /\ prod = noWrite /\ cons = noRead
  /\ next = 0 /\ overrun = FALSE /\ torn = FALSE /\ garbled = FALSE

Ring   == writeDrop \/ writeCopy \/ writePublish \/ readCopy \/ readStore
Device == loopTop \/ wakes \/ waitTimesOut \/ deviceDone \/ streamClosed
Use    == sourceRead \/ sinkWrite \/ capturePacket \/ renderPacket \/ onData \/ handler
Life   == start \/ startFails \/ stop \/ onError

Next == Ring \/ Device \/ Use \/ Life \/ join

(* Both threads run; a wait ends after two seconds at the latest.          *)
Fairness == WF_vars(Ring) /\ WF_vars(Device) /\ WF_vars(handler) /\ WF_vars(join)

Spec == Init /\ [][Next]_vars /\ Fairness
-----------------------------------------------------------------------------
(* The state stays well formed; in particular the framing of the phone's   *)
(* capture never holds back a whole frame between callbacks.               *)
FifoTypeOK ==
  /\ side \in {"capture", "mic", "render"}
  /\ main \in {"off", "on", "stopping", "stopped"}
  /\ running \in BOOLEAN /\ failed \in BOOLEAN /\ client \in BOOLEAN
  /\ dev \in {"none", "top", "wait", "busy", "reading", "exited"} /\ signalled \in BOOLEAN
  /\ pending \in 0..FrameLen - 1 + MaxPacket
  /\ dev # "busy" => pending < FrameLen
  /\ wr \in 0..MaxItems /\ rd \in 0..MaxItems /\ next \in 0..MaxItems /\ rd <= wr
  /\ data \in [0..Capacity - 1 -> -Capacity..MaxItems - 1]
  /\ prod \in [at : {"idle", "drop", "copy"}, r : 0..MaxItems, count : 0..Capacity,
               k : 0..Capacity, alone : BOOLEAN]
  /\ cons \in [at : {"idle", "copy"}, r : 0..MaxItems, n : 0..Capacity, k : 0..Capacity]
  /\ overrun \in BOOLEAN /\ torn \in BOOLEAN /\ garbled \in BOOLEAN

(* Until samples are first dropped, the reader is given every sample once, *)
(* in order, as it was written.  (ring_buffer.h, write and read)           *)
InOrderUntilOverrun == ~overrun => ~garbled /\ next = rd + cons.k

(* Only an overrun in the middle of a read does harm, and the next write   *)
(* that no read overlaps repairs it: the ring is then within its capacity  *)
(* again, and holds what was written.  (ring_buffer.h, write)              *)
HarmIsRepaired ==
  ~torn => /\ wr - rd <= Capacity
           /\ \A i \in rd..wr - 1 : data[slot(i)] = i

(* The device's thread never works with a client that was given back.      *)
(* (wasapi_capture_source.cpp and wasapi_render_sink.cpp, stop)            *)
NoUseAfterStop == dev \in {"wait", "busy", "reading"} => client

(* stop() returns.  (the same)                                             *)
StopReturns == main = "stopping" ~> main = "stopped"
=============================================================================
