------------------------------ MODULE WaveStream ------------------------------
(***************************************************************************)
(* The WaveRT capture stream: calls of the port driver, one at a time,     *)
(* against the timer DPC that copies one notification period per tick out  *)
(* of the ring into the buffer the audio engine reads.                     *)
(***************************************************************************)
EXTENDS Naturals, FiniteSets

CONSTANTS
  BytesPerFrame,       \* SMARTMIC_BYTES_PER_FRAME
  Sizes, Counts,       \* RequestedSize and NotificationCount of the engine
  Events, MaxEvents,   \* events of the engine, kMaxNotificationEvents
  FrameWrap            \* bound: m_framesWritten is counted modulo this

ASSUME StreamAssumption ==
  /\ BytesPerFrame \in Nat \ {0} /\ FrameWrap \in Nat \ {0}
  /\ Sizes \subseteq Nat /\ Counts \subseteq Nat
  /\ IsFiniteSet(Events) /\ MaxEvents \in Nat

VARIABLES
  stream,       \* m_stream of the miniport: "none", "open", "closing"
  streamOpen,   \* the ring header's flag
  state,        \* m_state
  bufferBytes,  \* m_bufferBytes, 0 without a buffer
  bytesPerNotification, writeOffset, framesWritten,
  pulled,       \* history: the buffer was freed under a running timer
  timerRunning, armed,   \* m_timerRunning, and the kernel's timer
  events,       \* m_notificationEvents
  call,         \* the call that waits in StopTimer, or "none"
  flushing,     \* it has to wait for queued DPCs
  dpc,          \* "idle", "queued", "copying", "signalling"
  dst,          \* where the DPC copies to: offset and length
  toSignal      \* the events the DPC has copied

bufferVars == <<bufferBytes, bytesPerNotification, writeOffset, framesWritten, pulled>>
timerVars  == <<timerRunning, armed>>
dpcVars    == <<dpc, dst, toSignal>>
streamVars == <<stream, streamOpen, state, bufferVars, timerVars, events, call,
                flushing, dpcVars>>

KsState == {"STOP", "ACQUIRE", "PAUSE", "RUN"}
Calls   == {"none", "STOP", "ACQUIRE", "PAUSE", "free", "destroy"}
NoDst   == [at |-> 0, len |-> 0]

idle == stream = "open" /\ call = "none"
hasBuffer == bufferBytes > 0
-----------------------------------------------------------------------------
(* The miniport and the port driver.                                       *)

(* Init of a new stream object.                                            *)
InitStream ==
  /\ state' = "STOP"
  /\ bufferBytes' = 0 /\ bytesPerNotification' = 0
  /\ writeOffset' = 0 /\ framesWritten' = 0 /\ pulled' = FALSE
  /\ timerRunning' = FALSE
  /\ events' = {}

(* A second stream is refused; an object that refuses the format is        *)
(* destroyed again, with its flag.                                         *)
NewStream ==
  /\ stream = "none"
  /\ InitStream
  /\ \/ stream' = "open" /\ streamOpen' = TRUE
     \/ stream' = "none" /\ streamOpen' = FALSE
  /\ UNCHANGED <<armed, call, flushing, dpcVars>>

(* What is left of a request: whole frames, the same for each notification.*)
rounded(size, count) == size - (size % (BytesPerFrame * count))

(* The bound on the frames counted is a multiple of every buffer.          *)
ASSUME WrapAssumption ==
  \A size \in Sizes, count \in Counts :
    count # 0 /\ rounded(size, count) # 0
      => (FrameWrap * BytesPerFrame) % rounded(size, count) = 0

(* The port driver allocates while the stream does not run.                *)
AllocateBufferWithNotification ==
  /\ idle /\ ~hasBuffer /\ state # "RUN"
  /\ \E size \in Sizes, count \in Counts :
       /\ size # 0 /\ count # 0 /\ rounded(size, count) # 0
       /\ bufferBytes' = rounded(size, count)
       /\ bytesPerNotification' = rounded(size, count) \div count
  /\ writeOffset' = 0 /\ framesWritten' = 0 /\ pulled' = FALSE
  /\ UNCHANGED <<stream, streamOpen, state, timerVars, events, call, flushing,
                 dpcVars>>

FreeBufferInternal ==
  /\ bufferBytes' = 0
  /\ UNCHANGED <<bytesPerNotification, writeOffset, framesWritten>>

(* Frees in whatever state the stream is, and does not stop the timer.     *)
FreeAudioBuffer ==
  /\ idle
  /\ FreeBufferInternal
  /\ pulled' = (pulled \/ timerRunning)
  /\ UNCHANGED <<stream, streamOpen, state, timerVars, events, call, flushing,
                 dpcVars>>

(* StopTimer up to KeFlushQueuedDpcs, in which call c waits.               *)
StopTimer_NotFlushed(c) ==
  /\ idle /\ call' = c
  /\ flushing' = FALSE
  /\ timerRunning' = FALSE /\ armed' = FALSE
  /\ UNCHANGED <<stream, streamOpen, state, bufferVars, events, dpcVars>>
StopTimer_StillRunning(c) ==
  /\ idle /\ call' = c
  /\ flushing' = timerRunning
  /\ armed' = FALSE
  /\ UNCHANGED <<stream, streamOpen, state, bufferVars, events, timerRunning,
                 dpcVars>>
StopTimer(c) ==
  /\ idle /\ call' = c
  /\ flushing' = timerRunning
  /\ timerRunning' = FALSE /\ armed' = FALSE
  /\ UNCHANGED <<stream, streamOpen, state, bufferVars, events, dpcVars>>

stopped(c) == call = c /\ (flushing => dpc = "idle")

FreeBufferWithNotification ==
  /\ stopped("free")
  /\ FreeBufferInternal
  /\ call' = "none"
  /\ UNCHANGED <<stream, streamOpen, state, pulled, timerVars, events, flushing,
                 dpcVars>>

SetStateStop_KeepsOffset ==
  /\ stopped("STOP")
  /\ state' = "STOP" /\ call' = "none"
  /\ framesWritten' = 0
  /\ UNCHANGED <<stream, streamOpen, bufferBytes, bytesPerNotification, writeOffset,
                 pulled, timerVars, events, flushing, dpcVars>>
SetStateStop ==
  /\ stopped("STOP")
  /\ state' = "STOP" /\ call' = "none"
  /\ writeOffset' = 0 /\ framesWritten' = 0
  /\ UNCHANGED <<stream, streamOpen, bufferBytes, bytesPerNotification, pulled,
                 timerVars, events, flushing, dpcVars>>

SetStatePause ==
  /\ \E s \in {"ACQUIRE", "PAUSE"} : stopped(s) /\ state' = s
  /\ call' = "none"
  /\ UNCHANGED <<stream, streamOpen, bufferVars, timerVars, events, flushing,
                 dpcVars>>

StartTimer ==
  /\ timerRunning' = TRUE
  /\ armed' = (armed \/ ~timerRunning)

(* SetState(RUN); without a buffer it is refused.                          *)
SetStateRun ==
  /\ idle /\ hasBuffer
  /\ streamOpen' = TRUE
  /\ StartTimer
  /\ state' = "RUN"
  /\ UNCHANGED <<stream, bufferVars, events, call, flushing, dpcVars>>

RegisterNotificationEvent ==
  /\ idle
  /\ \E e \in Events \ events :
       /\ Cardinality(events) < MaxEvents
       /\ events' = events \union {e}
  /\ UNCHANGED <<stream, streamOpen, state, bufferVars, timerVars, call, flushing,
                 dpcVars>>

UnregisterNotificationEvent ==
  /\ idle
  /\ \E e \in events : events' = events \ {e}
  /\ UNCHANGED <<stream, streamOpen, state, bufferVars, timerVars, call, flushing,
                 dpcVars>>

(* The destructor, once the timer is stopped ...                           *)
Destroy ==
  /\ stopped("destroy")
  /\ FreeBufferInternal
  /\ streamOpen' = FALSE
  /\ stream' = "closing" /\ call' = "none"
  /\ UNCHANGED <<state, pulled, timerVars, events, flushing, dpcVars>>

(* ... tells the miniport, which may then open another stream.             *)
StreamClosed ==
  /\ stream = "closing"
  /\ stream' = "none"
  /\ UNCHANGED <<streamOpen, state, bufferVars, timerVars, events, call, flushing,
                 dpcVars>>
-----------------------------------------------------------------------------
(* The kernel's timer and its DPC.                                         *)
TimerExpires ==
  /\ armed /\ dpc = "idle"
  /\ dpc' = "queued"
  /\ UNCHANGED <<stream, streamOpen, state, bufferVars, timerVars, events, call,
                 flushing, dst, toSignal>>

(* OnTimerTick decides under the lock ...                                  *)
TickEnter ==
  /\ dpc = "queued"
  /\ IF timerRunning /\ hasBuffer /\ bytesPerNotification # 0
     THEN dpc' = "copying" /\ dst' = [at |-> writeOffset, len |-> bytesPerNotification]
     ELSE dpc' = "idle" /\ dst' = NoDst
  /\ UNCHANGED <<stream, streamOpen, state, bufferVars, timerVars, events, call,
                 flushing, toSignal>>

(* ... copies a period and moves the position ...                          *)
advanced(offset, len) == IF offset + len >= bufferBytes THEN 0 ELSE offset + len
TickCopy ==
  /\ dpc = "copying"
  /\ writeOffset' = advanced(writeOffset, dst.len)
  /\ framesWritten' = (framesWritten + dst.len \div BytesPerFrame) % FrameWrap
  /\ toSignal' = events
  /\ dpc' = "signalling" /\ dst' = NoDst
  /\ UNCHANGED <<stream, streamOpen, state, bufferBytes, bytesPerNotification,
                 pulled, timerVars, events, call, flushing>>

(* ... and signals what it has copied, outside the lock.                   *)
TickSignal ==
  /\ dpc = "signalling"
  /\ dpc' = "idle" /\ toSignal' = {}
  /\ UNCHANGED <<stream, streamOpen, state, bufferVars, timerVars, events, call,
                 flushing, dst>>
-----------------------------------------------------------------------------
StreamInit ==
  /\ stream = "none" /\ streamOpen = FALSE /\ state = "STOP"
  /\ bufferBytes = 0 /\ bytesPerNotification = 0
  /\ writeOffset = 0 /\ framesWritten = 0 /\ pulled = FALSE
  /\ timerRunning = FALSE /\ armed = FALSE /\ events = {}
  /\ call = "none" /\ flushing = FALSE
  /\ dpc = "idle" /\ dst = NoDst /\ toSignal = {}

(* The steps that use the ring, and those that do not.                     *)
Returning == FreeBufferWithNotification \/ SetStateStop \/ SetStatePause \/ StreamClosed
RingStep  == NewStream \/ SetStateRun \/ TickCopy \/ Destroy
LocalStep ==
  \/ AllocateBufferWithNotification \/ FreeAudioBuffer
  \/ \E c \in Calls \ {"none"} : StopTimer(c)
  \/ RegisterNotificationEvent \/ UnregisterNotificationEvent
  \/ Returning \/ TimerExpires \/ TickEnter \/ TickSignal

(* The kernel's timer fires, its DPC runs, and a stopped timer lets the    *)
(* call that waits for it return.                                          *)
Dpc == TickEnter \/ TickCopy \/ TickSignal
StreamSpec ==
  /\ StreamInit /\ [][RingStep \/ LocalStep]_streamVars
  /\ WF_streamVars(TimerExpires) /\ WF_streamVars(Dpc)
  /\ WF_streamVars(Returning \/ Destroy)
-----------------------------------------------------------------------------
StreamTypeOK ==
  /\ stream \in {"none", "open", "closing"} /\ streamOpen \in BOOLEAN
  /\ state \in KsState /\ call \in Calls /\ flushing \in BOOLEAN
  /\ bufferBytes \in Nat /\ bytesPerNotification \in Nat
  /\ writeOffset \in Nat /\ framesWritten \in 0..FrameWrap - 1
  /\ pulled \in BOOLEAN
  /\ timerRunning \in BOOLEAN /\ armed \in BOOLEAN
  /\ events \subseteq Events /\ Cardinality(events) <= MaxEvents
  /\ dpc \in {"idle", "queued", "copying", "signalling"}
  /\ dst \in [at : Nat, len : Nat] /\ toSignal \subseteq Events

(* The DPC copies into the buffer it has looked at, and within its bounds: *)
(* every call that stops, frees or destroys waits for it, but for one,     *)
(* FreeAudioBuffer on a stream that runs; and the rounding of the sizes    *)
(* leaves no ragged last period.  (minwavestream.cpp, StopTimer,           *)
(* FreeAudioBuffer and OnTimerTick)                                        *)
CopyStaysInBuffer ==
  dpc = "copying" =>
    IF hasBuffer THEN dst.at + dst.len <= bufferBytes ELSE pulled

(* What GetPosition reports is where the next period will be copied, after *)
(* any sequence of pauses, stops and reallocations.                        *)
(* (minwavestream.cpp, GetPosition, SetState, OnTimerTick)                 *)
GetPosition == framesWritten * BytesPerFrame
PositionIsOffset ==
  hasBuffer => GetPosition % bufferBytes = writeOffset

(* A stream that stays in RUN keeps waking its client: no path through     *)
(* stop, pause and run loses the timer, and no call waits for ever for a   *)
(* DPC.  (minwavestream.cpp, StartTimer, StopTimer, OnTimerTick)           *)
RunningWakesClient ==
  \A e \in Events :
    <>[](stream = "open" /\ state = "RUN" /\ hasBuffer /\ e \in events)
      => []<>(e \in toSignal)
=============================================================================
