-------------------------- MODULE DriverDevice_proofs --------------------------
(***************************************************************************)
(* Proofs about WaveStream and DriverDevice, for buffers of any size with  *)
(* any number of notifications, any number of services and of devices.     *)
(***************************************************************************)
EXTENDS DriverDevice, Integers, FiniteSetTheorems, TLAPS

-----------------------------------------------------------------------------
(* Division with remainder.                                                *)

LEMMA DivMod ==
  ASSUME NEW a \in Nat, NEW m \in Nat \ {0}
  PROVE  /\ a \div m \in Nat /\ a % m \in 0..m - 1
         /\ a = m * (a \div m) + (a % m)
OBVIOUS

LEMMA DivisionIsUnique ==
  ASSUME NEW m \in Nat \ {0}, NEW q \in Int, NEW p \in Int,
         NEW r \in 0..m - 1, NEW s \in 0..m - 1, m * q + r = m * p + s
  PROVE  q = p /\ r = s
<1>1. ~(q < p)
  <2>1. q < p => m * (p - q) >= m
    OBVIOUS
  <2>2. m * (p - q) = m * p - m * q
    OBVIOUS
  <2>3. QED BY <2>1, <2>2
<1>2. ~(p < q)
  <2>1. p < q => m * (q - p) >= m
    OBVIOUS
  <2>2. m * (q - p) = m * q - m * p
    OBVIOUS
  <2>3. QED BY <2>1, <2>2
<1>3. QED BY <1>1, <1>2

LEMMA DivOf ==
  ASSUME NEW m \in Nat \ {0}, NEW q \in Nat, NEW r \in 0..m - 1
  PROVE  (q * m + r) % m = r /\ (q * m + r) \div m = q
<1> DEFINE a == q * m + r
<1>1. a \in Nat /\ a = m * q + r
  OBVIOUS
<1>2. /\ a \div m \in Nat /\ a % m \in 0..m - 1
      /\ a = m * (a \div m) + (a % m)
  BY <1>1, DivMod
<1> HIDE DEF a
<1>3. QED BY <1>1, <1>2, DivisionIsUnique

(* A rounded request is a number of notifications of whole frames each.    *)
LEMMA RoundedIsWhole ==
  ASSUME StreamAssumption, NEW size \in Nat, NEW count \in Nat \ {0}, rounded(size, count) # 0
  PROVE  \E p \in Nat \ {0} :
           /\ rounded(size, count) = count * (p * BytesPerFrame)
           /\ rounded(size, count) \div count = p * BytesPerFrame
           /\ count * (p * BytesPerFrame) \in Nat \ {0} /\ p * BytesPerFrame \in Nat \ {0}
<1> DEFINE frame == BytesPerFrame * count
           p == size \div frame
<1>1. BytesPerFrame \in Nat \ {0} /\ frame \in Nat \ {0}
  BY DEF StreamAssumption
<1> HIDE DEF frame
<1>2. p \in Nat /\ size % frame \in 0..frame - 1 /\ size = frame * p + (size % frame)
  BY <1>1, DivMod
<1> HIDE DEF p
<1>3. rounded(size, count) = frame * p
  BY <1>1, <1>2 DEF rounded, frame
<1>4. frame * p = count * (p * BytesPerFrame)
  BY <1>1, <1>2 DEF frame
<1>5. p # 0
  BY <1>1, <1>2, <1>3
<1>6. p * BytesPerFrame \in Nat \ {0} /\ count * (p * BytesPerFrame) \in Nat \ {0}
  <2>1. p * BytesPerFrame \in Nat \ {0}
    BY <1>1, <1>2, <1>5
  <2>2. \A m \in Nat \ {0} : count * m \in Nat \ {0}
    OBVIOUS
  <2>3. QED BY <2>1, <2>2
<1>7. ASSUME NEW n \in Nat PROVE (count * n) \div count = n
  <2>1. 0 \in 0..count - 1 /\ n * count + 0 = count * n
    OBVIOUS
  <2>2. (n * count + 0) \div count = n
    BY <2>1, DivOf
  <2>3. QED BY <2>1, <2>2
<1>8. QED BY <1>2, <1>3, <1>4, <1>5, <1>6, <1>7
-----------------------------------------------------------------------------
(* The stream's inductive invariant.                                       *)

(* A buffer is whole periods of whole frames, and the writer is at the     *)
(* start of one of them.                                                   *)
BufferInv ==
  hasBuffer =>
    /\ \E p \in Nat \ {0} : bytesPerNotification = p * BytesPerFrame
    /\ \E k \in Nat : bufferBytes = k * bytesPerNotification
    /\ \E z \in Nat \ {0} : FrameWrap * BytesPerFrame = z * bufferBytes
    /\ writeOffset < bufferBytes
    /\ \E j \in Nat : writeOffset = j * bytesPerNotification

(* The position is a number of rounds through the buffer ahead of it.      *)
PositionInv ==
  hasBuffer => \E q \in Nat : GetPosition = q * bufferBytes + writeOffset

(* A timer runs only for an open stream in RUN with no call in progress,   *)
(* and with its buffer unless that was freed under it.                     *)
TimerInv ==
  /\ armed = timerRunning
  /\ timerRunning => stream = "open" /\ call = "none" /\ state = "RUN"
  /\ timerRunning => hasBuffer \/ pulled
  /\ call # "none" => stream = "open"

(* A DPC runs while the timer does, or while a call waits for it; it       *)
(* copies to where the stream stands, or into a buffer freed under it.     *)
DpcInv ==
  /\ dpc # "idle" => timerRunning \/ (call # "none" /\ flushing)
  /\ dpc = "copying" => IF hasBuffer
                        THEN dst = [at |-> writeOffset, len |-> bytesPerNotification]
                        ELSE pulled

StreamInv == StreamTypeOK /\ BufferInv /\ PositionInv /\ TimerInv /\ DpcInv

LEMMA InitStreamInv == StreamInit => StreamInv
<1> SUFFICES ASSUME StreamInit PROVE StreamInv
  OBVIOUS
<1> USE DEF StreamInit
<1>1. Cardinality(events) <= MaxEvents
  BY FS_EmptySet, StreamAssumption DEF StreamAssumption
<1>2. framesWritten \in 0..FrameWrap - 1 /\ bufferBytes \in Nat
      /\ bytesPerNotification \in Nat /\ writeOffset \in Nat
      /\ dst \in [at : Nat, len : Nat]
  BY StreamAssumption DEF StreamAssumption, NoDst
<1>3. StreamTypeOK
  <2>1. streamOpen \in BOOLEAN /\ flushing \in BOOLEAN /\ timerRunning \in BOOLEAN
        /\ armed \in BOOLEAN
    OBVIOUS
  <2>2. QED BY <1>1, <1>2, <2>1 DEF StreamTypeOK, KsState, Calls
<1>4. BufferInv /\ PositionInv
  BY DEF BufferInv, PositionInv, hasBuffer
<1>5. TimerInv /\ DpcInv
  BY DEF TimerInv, DpcInv
<1>6. QED BY <1>3, <1>4, <1>5 DEF StreamInv

(* The steps of the kernel's timer and DPC, but for the copy.              *)
LEMMA TimerSteps ==
  ASSUME StreamInv, TimerExpires \/ TickEnter \/ TickSignal
  PROVE  StreamInv'
<1> USE DEF StreamInv
<1>1. UNCHANGED <<stream, streamOpen, state, bufferVars, timerVars, events, call, flushing>>
  BY DEF TimerExpires, TickEnter, TickSignal
<1>2. BufferInv' /\ PositionInv' /\ TimerInv'
  BY <1>1 DEF BufferInv, PositionInv, TimerInv, hasBuffer, GetPosition, bufferVars, timerVars
<1>3. /\ dpc' \in {"idle", "queued", "copying", "signalling"}
      /\ dst' \in [at : Nat, len : Nat] /\ toSignal' \subseteq Events
  BY DEF TimerExpires, TickEnter, TickSignal, StreamTypeOK, NoDst
<1>4. DpcInv'
  BY <1>1 DEF TimerExpires, TickEnter, TickSignal, DpcInv, TimerInv, hasBuffer, bufferVars,
              timerVars
<1>5. QED BY <1>1, <1>2, <1>3, <1>4 DEF StreamTypeOK, bufferVars, timerVars

(* The calls that touch neither buffer nor timer.                          *)
LEMMA EventSteps ==
  ASSUME StreamInv, RegisterNotificationEvent \/ UnregisterNotificationEvent
  PROVE  StreamInv'
<1> USE DEF StreamInv
<1>1. UNCHANGED <<stream, streamOpen, state, bufferVars, timerVars, call, flushing, dpcVars>>
  BY DEF RegisterNotificationEvent, UnregisterNotificationEvent
<1>2. BufferInv' /\ PositionInv' /\ TimerInv' /\ DpcInv'
  BY <1>1 DEF BufferInv, PositionInv, TimerInv, DpcInv, hasBuffer, GetPosition, bufferVars,
              timerVars, dpcVars
<1>3. IsFiniteSet(events) /\ Cardinality(events) \in Nat
  BY StreamAssumption, FS_Subset, FS_CardinalityType DEF StreamAssumption, StreamTypeOK
<1>4. events' \subseteq Events /\ Cardinality(events') <= MaxEvents
  <2>1. CASE RegisterNotificationEvent
    <3>1. PICK e \in Events \ events :
            Cardinality(events) < MaxEvents /\ events' = events \union {e}
      BY <2>1 DEF RegisterNotificationEvent
    <3>2. Cardinality(events') = Cardinality(events) + 1
      BY <1>3, <3>1, FS_AddElement
    <3>3. QED BY <1>3, <3>1, <3>2, StreamAssumption DEF StreamAssumption, StreamTypeOK
  <2>2. CASE UnregisterNotificationEvent
    <3>1. PICK e \in events : events' = events \ {e}
      BY <2>2 DEF UnregisterNotificationEvent
    <3>2. Cardinality(events') = Cardinality(events) - 1
      BY <1>3, <3>1, FS_RemoveElement
    <3>3. QED BY <1>3, <3>1, <3>2, StreamAssumption DEF StreamAssumption, StreamTypeOK
  <2>3. QED BY <2>1, <2>2
<1>5. QED BY <1>1, <1>2, <1>4 DEF StreamTypeOK, bufferVars, timerVars, dpcVars
(* A new buffer, for a stream whose timer does not run.                    *)
LEMMA AllocateStep ==
  ASSUME StreamInv, AllocateBufferWithNotification
  PROVE  StreamInv'
<1> USE DEF StreamInv
<1>1. PICK size \in Sizes, count \in Counts :
        /\ size # 0 /\ count # 0 /\ rounded(size, count) # 0
        /\ bufferBytes' = rounded(size, count)
        /\ bytesPerNotification' = rounded(size, count) \div count
  BY DEF AllocateBufferWithNotification
<1>2. /\ idle /\ ~hasBuffer /\ state # "RUN"
      /\ writeOffset' = 0 /\ framesWritten' = 0 /\ pulled' = FALSE
      /\ UNCHANGED <<stream, streamOpen, state, timerVars, events, call, flushing, dpcVars>>
  BY DEF AllocateBufferWithNotification
<1>3. size \in Nat /\ count \in Nat \ {0} /\ BytesPerFrame \in Nat \ {0}
      /\ FrameWrap \in Nat \ {0}
  BY <1>1, StreamAssumption DEF StreamAssumption
<1>4. PICK p \in Nat \ {0} :
        /\ rounded(size, count) = count * (p * BytesPerFrame)
        /\ rounded(size, count) \div count = p * BytesPerFrame
        /\ count * (p * BytesPerFrame) \in Nat \ {0} /\ p * BytesPerFrame \in Nat \ {0}
  BY <1>1, <1>3, RoundedIsWhole, StreamAssumption
<1>5. /\ bufferBytes' \in Nat \ {0} /\ bytesPerNotification' \in Nat \ {0}
      /\ bytesPerNotification' = p * BytesPerFrame
      /\ bufferBytes' = count * bytesPerNotification'
  BY <1>1, <1>4
<1>6. \E z \in Nat \ {0} : FrameWrap * BytesPerFrame = z * bufferBytes'
  <2> DEFINE wrap == FrameWrap * BytesPerFrame
  <2>1. wrap \in Nat \ {0}
    BY <1>3
  <2>2. wrap % bufferBytes' = 0
    BY <1>1, WrapAssumption
  <2> HIDE DEF wrap
  <2>3. ASSUME NEW m \in Nat \ {0}, wrap % m = 0
        PROVE  \E z \in Nat \ {0} : wrap = z * m
    <3>1. wrap \div m \in Nat /\ wrap = m * (wrap \div m) + (wrap % m)
      BY <2>1, DivMod
    <3>2. PICK z \in Nat : wrap = m * z + 0
      BY <2>3, <3>1
    <3>3. z # 0 /\ wrap = z * m
      BY <2>1, <3>2
    <3>4. QED BY <3>3
  <2>4. \E z \in Nat \ {0} : wrap = z * bufferBytes'
    BY <1>5, <2>2, <2>3
  <2>5. QED BY <2>4 DEF wrap
<1>7. BufferInv'
  <2>1. writeOffset' = 0 * bytesPerNotification' /\ writeOffset' < bufferBytes'
    BY <1>2, <1>5
  <2>2. QED BY <1>3, <1>5, <1>6, <2>1 DEF BufferInv
<1>8. PositionInv'
  <2>1. GetPosition' = 0 * bufferBytes' + writeOffset'
    BY <1>2, <1>3, <1>5 DEF GetPosition
  <2>2. QED BY <2>1 DEF PositionInv
<1>9. ~timerRunning /\ call = "none" /\ dpc = "idle"
  BY <1>2 DEF TimerInv, DpcInv, idle
<1>10. TimerInv' /\ DpcInv'
  BY <1>2, <1>9 DEF TimerInv, DpcInv, timerVars, dpcVars
<1>11. StreamTypeOK'
  <2>1. pulled' \in BOOLEAN
    BY <1>2
  <2>2. framesWritten' \in 0..FrameWrap - 1 /\ writeOffset' \in Nat
    BY <1>2, <1>3
  <2>3. QED BY <1>2, <1>5, <2>1, <2>2 DEF StreamTypeOK, timerVars, dpcVars
<1>12. QED BY <1>7, <1>8, <1>10, <1>11

(* FreeAudioBuffer, the one call that leaves the timer and its DPC alone.  *)
LEMMA FreeStep ==
  ASSUME StreamInv, FreeAudioBuffer
  PROVE  StreamInv'
<1> USE DEF StreamInv
<1>1. /\ idle /\ bufferBytes' = 0 /\ pulled' = (pulled \/ timerRunning)
      /\ UNCHANGED <<bytesPerNotification, writeOffset, framesWritten>>
      /\ UNCHANGED <<stream, streamOpen, state, timerVars, events, call, flushing, dpcVars>>
  BY DEF FreeAudioBuffer, FreeBufferInternal
<1>2. BufferInv' /\ PositionInv'
  BY <1>1 DEF BufferInv, PositionInv, hasBuffer
<1>3. TimerInv'
  BY <1>1 DEF TimerInv, timerVars, StreamTypeOK
<1>4. DpcInv'
  <2>1. dpc = "copying" => timerRunning
    BY <1>1 DEF DpcInv, idle
  <2>2. dpc' = "copying" => pulled' /\ ~hasBuffer'
    <3>1. ~hasBuffer'
      BY <1>1 DEF hasBuffer
    <3>2. timerRunning => pulled' = TRUE
      BY <1>1 DEF StreamTypeOK
    <3>3. QED BY <1>1, <2>1, <3>1, <3>2 DEF dpcVars
  <2>3. dpc' # "idle" => timerRunning' \/ (call' # "none" /\ flushing')
    BY <1>1 DEF DpcInv, timerVars, dpcVars
  <2>4. QED BY <2>2, <2>3 DEF DpcInv
<1>5. StreamTypeOK'
  BY <1>1 DEF StreamTypeOK, timerVars, dpcVars
<1>6. QED BY <1>2, <1>3, <1>4, <1>5

(* Whatever else a call does while the timer does not run, it frees the    *)
(* buffer, goes back to its start, or leaves it alone.                     *)
LEMMA StoppedSteps ==
  ASSUME StreamInv,
         \/ FreeBufferWithNotification \/ Destroy
         \/ SetStateStop \/ SetStatePause \/ StreamClosed \/ NewStream
  PROVE  StreamInv'
<1> USE DEF StreamInv
<1> DEFINE Freed == bufferBytes' = 0 /\ UNCHANGED <<bytesPerNotification, writeOffset, framesWritten>>
           Emptied == /\ bufferBytes' = 0 /\ bytesPerNotification' = 0
                      /\ writeOffset' = 0 /\ framesWritten' = 0
           Rewound == /\ UNCHANGED <<bufferBytes, bytesPerNotification>>
                      /\ writeOffset' = 0 /\ framesWritten' = 0
<1>1. dpc = "idle" /\ ~timerRunning
  BY DEF FreeBufferWithNotification, Destroy, SetStateStop, SetStatePause,
         StreamClosed, NewStream, stopped, idle, TimerInv, DpcInv
<1>2. Freed \/ Emptied \/ Rewound \/ UNCHANGED bufferVars
  BY DEF FreeBufferWithNotification, Destroy, SetStateStop, SetStatePause,
         StreamClosed, NewStream, FreeBufferInternal, InitStream, bufferVars
<1>3. BufferInv' /\ PositionInv'
  <2>1. CASE Freed \/ Emptied
    BY <2>1 DEF BufferInv, PositionInv, hasBuffer
  <2>2. CASE Rewound
    <3>1. writeOffset' = 0 * bytesPerNotification
      BY <2>2 DEF StreamTypeOK
    <3>2. GetPosition' = 0 * bufferBytes + writeOffset'
      BY <2>2, StreamAssumption DEF GetPosition, StreamTypeOK, StreamAssumption
    <3>3. hasBuffer => writeOffset' < bufferBytes
      BY <2>2 DEF StreamTypeOK, hasBuffer
    <3>4. BufferInv'
      BY <2>2, <3>1, <3>3 DEF BufferInv, hasBuffer
    <3>5. PositionInv'
      BY <2>2, <3>2 DEF PositionInv, hasBuffer
    <3>6. QED BY <3>4, <3>5
  <2>3. CASE UNCHANGED bufferVars
    BY <2>3 DEF BufferInv, PositionInv, hasBuffer, GetPosition, bufferVars
  <2>4. QED BY <1>2, <2>1, <2>2, <2>3
<1>4. UNCHANGED <<armed, dpcVars>> /\ timerRunning' = FALSE
  BY <1>1 DEF FreeBufferWithNotification, Destroy, SetStateStop,
         SetStatePause, StreamClosed, NewStream, InitStream, timerVars, StreamTypeOK
<1>5. call' # "none" => stream' = "open"
  BY DEF FreeBufferWithNotification, Destroy, SetStateStop, SetStatePause,
         StreamClosed, NewStream, TimerInv, idle
<1>6. TimerInv' /\ DpcInv'
  <2>1. armed' = FALSE
    BY <1>1, <1>4 DEF TimerInv, StreamTypeOK
  <2>2. TimerInv'
    BY <1>4, <1>5, <2>1 DEF TimerInv, hasBuffer
  <2>3. DpcInv'
    BY <1>1, <1>4 DEF DpcInv, dpcVars
  <2>4. QED BY <2>2, <2>3
<1>7. StreamTypeOK'
  <2>1. /\ stream' \in {"none", "open", "closing"} /\ state' \in KsState /\ call' \in Calls
        /\ UNCHANGED flushing /\ streamOpen' \in BOOLEAN
    BY DEF FreeBufferWithNotification, Destroy, SetStateStop, SetStatePause,
           StreamClosed, NewStream, InitStream, StreamTypeOK, KsState, Calls
  <2>2. events' \subseteq Events /\ Cardinality(events') <= MaxEvents
    <3>1. Cardinality({}) = 0
      BY FS_EmptySet
    <3>2. events' = events \/ events' = {}
      BY DEF FreeBufferWithNotification, Destroy, SetStateStop,
             SetStatePause, StreamClosed, NewStream, InitStream
    <3>3. QED BY <3>1, <3>2, StreamAssumption DEF StreamTypeOK, StreamAssumption
  <2>3. /\ bufferBytes' \in Nat /\ bytesPerNotification' \in Nat
        /\ writeOffset' \in Nat /\ framesWritten' \in 0..FrameWrap - 1
    BY <1>2, StreamAssumption DEF StreamTypeOK, StreamAssumption, bufferVars
  <2>4. pulled' \in BOOLEAN
    BY DEF FreeBufferWithNotification, Destroy, SetStateStop, SetStatePause, StreamClosed,
           NewStream, InitStream, StreamTypeOK, bufferVars
  <2>5. QED BY <1>4, <2>1, <2>2, <2>3, <2>4 DEF StreamTypeOK, dpcVars
<1>8. QED BY <1>3, <1>6, <1>7

(* Starting and stopping the timer.                                        *)
LEMMA StartAndStop ==
  ASSUME StreamInv, SetStateRun \/ \E c \in Calls \ {"none"} : StopTimer(c)
  PROVE  StreamInv'
<1> USE DEF StreamInv
<1>1. UNCHANGED <<stream, bufferVars, events, dpcVars>>
  BY DEF SetStateRun, StopTimer
<1>2. BufferInv' /\ PositionInv'
  BY <1>1 DEF BufferInv, PositionInv, hasBuffer, GetPosition, bufferVars
<1>3. /\ state' \in KsState /\ call' \in Calls /\ flushing' \in BOOLEAN
      /\ timerRunning' \in BOOLEAN /\ armed' \in BOOLEAN /\ streamOpen' \in BOOLEAN
  BY DEF SetStateRun, StopTimer, StartTimer, StreamTypeOK, KsState
<1>4. TimerInv'
  <2>1. CASE SetStateRun
    <3>1. /\ timerRunning' = TRUE /\ armed' = (armed \/ ~timerRunning)
          /\ stream' = "open" /\ call' = "none" /\ state' = "RUN" /\ hasBuffer'
      BY <1>1, <2>1 DEF SetStateRun, StartTimer, idle, hasBuffer, bufferVars
    <3>2. armed' = TRUE
      BY <3>1 DEF TimerInv, StreamTypeOK
    <3>3. QED BY <3>1, <3>2 DEF TimerInv
  <2>2. CASE \E c \in Calls \ {"none"} : StopTimer(c)
    BY <1>1, <2>2 DEF StopTimer, TimerInv, idle
  <2>3. QED BY <2>1, <2>2
<1>5. DpcInv'
  BY <1>1 DEF SetStateRun, StopTimer, StartTimer, DpcInv, TimerInv, hasBuffer, bufferVars,
              dpcVars, idle, StreamTypeOK
<1>6. QED BY <1>1, <1>2, <1>3, <1>4, <1>5 DEF StreamTypeOK, bufferVars, dpcVars
(* The copy: the arithmetic of a period more.                              *)
LEMMA NextPeriod ==
  ASSUME NEW n \in Nat \ {0}, NEW B \in Nat, NEW k \in Nat, B = k * n,
         NEW w \in Nat, NEW j \in Nat, w = j * n, w < B
  PROVE  /\ w + n <= B /\ w + n = (j + 1) * n
         /\ w + n >= B => w + n = B
<1>1. j < k
  <2>1. j >= k => j * n >= k * n
    OBVIOUS
  <2>2. QED BY <2>1
<1>2. (j + 1) * n <= k * n
  BY <1>1
<1>3. (j + 1) * n = j * n + n
  OBVIOUS
<1>4. QED BY <1>2, <1>3

(* Counting modulo the wrap loses whole rounds through the buffer only.    *)
LEMMA WrapKeepsOffset ==
  ASSUME StreamAssumption, bufferBytes \in Nat \ {0},
         \E z \in Nat \ {0} : FrameWrap * BytesPerFrame = z * bufferBytes,
         NEW a \in Nat, NEW v \in 0..bufferBytes - 1,
         \E c \in Nat : a * BytesPerFrame = c * bufferBytes + v
  PROVE  \E r \in Nat : (a % FrameWrap) * BytesPerFrame = r * bufferBytes + v
<1> DEFINE F == BytesPerFrame
           W == FrameWrap
           B == bufferBytes
           g == a % W
           d == a \div W
<1>1. F \in Nat \ {0} /\ W \in Nat \ {0} /\ B \in Nat \ {0}
  BY DEF StreamAssumption
<1>2. PICK z \in Nat \ {0} : W * F = z * B
  OBVIOUS
<1>3. PICK c \in Nat : a * F = c * B + v
  OBVIOUS
<1>4. v \in 0..B - 1
  OBVIOUS
<1> HIDE DEF F, W, B
<1>5. d \in Nat /\ g \in Nat /\ a = W * d + g
  BY <1>1, DivMod
<1> HIDE DEF g, d
<1>6. (W * d + g) * F = d * (W * F) + g * F
  BY <1>1, <1>5
<1>7. d * (z * B) = (d * z) * B /\ d * z \in Nat /\ g * F \in Nat
  BY <1>1, <1>5
<1>8. c * B + v = (d * z) * B + g * F
  BY <1>2, <1>3, <1>5, <1>6, <1>7
<1>9. ASSUME NEW e \in Nat, NEW x \in Nat, c * B + v = e * B + x
      PROVE  \E r \in Nat : x = r * B + v
  <2>1. (c - e) * B = c * B - e * B
    BY <1>1
  <2>2. x = (c - e) * B + v
    BY <1>1, <1>4, <1>9, <2>1
  <2>3. c - e >= 0
    <3>1. SUFFICES ASSUME c - e <= -1 PROVE FALSE
      OBVIOUS
    <3>2. (c - e) * B <= -B
      BY <1>1, <3>1
    <3>3. QED BY <1>1, <1>4, <2>2, <3>2
  <2>4. c - e \in Nat
    BY <2>3
  <2>5. QED BY <2>2, <2>4
<1>10. \E r \in Nat : g * F = r * B + v
  BY <1>7, <1>8, <1>9
<1>11. QED BY <1>10 DEF g, F, W, B

(* The copy of a period into the buffer ...                                *)
LEMMA CopyStep ==
  ASSUME StreamInv, TickCopy, hasBuffer
  PROVE  StreamInv'
<1> USE DEF StreamInv
<1>1. /\ dpc = "copying" /\ writeOffset' = advanced(writeOffset, dst.len)
      /\ framesWritten' = (framesWritten + dst.len \div BytesPerFrame) % FrameWrap
      /\ toSignal' = events /\ dpc' = "signalling" /\ dst' = NoDst
      /\ UNCHANGED <<stream, streamOpen, state, bufferBytes, bytesPerNotification,
                     pulled, timerVars, events, call, flushing>>
  BY DEF TickCopy
<1>2. hasBuffer /\ dst.len = bytesPerNotification
  BY <1>1 DEF DpcInv
<1>3. /\ BytesPerFrame \in Nat \ {0} /\ FrameWrap \in Nat \ {0}
      /\ bufferBytes \in Nat \ {0} /\ bytesPerNotification \in Nat
      /\ writeOffset \in Nat /\ framesWritten \in Nat
  BY <1>2, StreamAssumption DEF StreamTypeOK, StreamAssumption, hasBuffer
<1>4. PICK p \in Nat \ {0} : bytesPerNotification = p * BytesPerFrame
  BY <1>2 DEF BufferInv
<1>5. PICK k \in Nat : bufferBytes = k * bytesPerNotification
  BY <1>2 DEF BufferInv
<1>6. PICK z \in Nat \ {0} : FrameWrap * BytesPerFrame = z * bufferBytes
  BY <1>2 DEF BufferInv
<1>7. PICK j \in Nat : writeOffset = j * bytesPerNotification
  BY <1>2 DEF BufferInv
<1>8. writeOffset < bufferBytes
  BY <1>2 DEF BufferInv
<1>9. PICK q \in Nat : framesWritten * BytesPerFrame = q * bufferBytes + writeOffset
  BY <1>2 DEF PositionInv, GetPosition
<1>10. bytesPerNotification # 0
  BY <1>3, <1>5
<1>11. /\ writeOffset + bytesPerNotification <= bufferBytes
       /\ writeOffset + bytesPerNotification = (j + 1) * bytesPerNotification
  BY <1>3, <1>5, <1>7, <1>8, <1>10, NextPeriod
<1>12. dst.len \div BytesPerFrame = p
  <2>1. 0 \in 0..BytesPerFrame - 1 /\ p \in Nat
    BY <1>3
  <2>2. (p * BytesPerFrame + 0) \div BytesPerFrame = p
    BY <1>3, <2>1, DivOf
  <2>3. p * BytesPerFrame + 0 = dst.len
    BY <1>2, <1>3, <1>4
  <2>4. QED BY <2>2, <2>3
<1>13. /\ writeOffset' = IF writeOffset + bytesPerNotification >= bufferBytes THEN 0
                         ELSE writeOffset + bytesPerNotification
       /\ framesWritten' = (framesWritten + p) % FrameWrap
  BY <1>1, <1>2, <1>12 DEF advanced
<1>14. BufferInv'
  <2>1. \E i \in Nat : writeOffset' = i * bytesPerNotification
    <3>1. CASE writeOffset' = 0
      <4>1. 0 = 0 * bytesPerNotification
        BY <1>3
      <4>2. QED BY <3>1, <4>1
    <3>2. CASE writeOffset' = writeOffset + bytesPerNotification
      BY <1>11, <3>2
    <3>3. QED BY <1>13, <3>1, <3>2
  <2>2. writeOffset' < bufferBytes
    BY <1>3, <1>11, <1>13
  <2>3. QED BY <1>1, <1>2, <2>1, <2>2 DEF BufferInv, hasBuffer
<1>15. PositionInv'
  <2>1. (framesWritten + p) * BytesPerFrame
          = framesWritten * BytesPerFrame + bytesPerNotification
    BY <1>3, <1>4
  <2>2. writeOffset' \in 0..bufferBytes - 1
    BY <1>3, <1>11, <1>13
  <2>3. \E c \in Nat : (framesWritten + p) * BytesPerFrame = c * bufferBytes + writeOffset'
    <3>1. CASE writeOffset + bytesPerNotification >= bufferBytes
      <4>1. (q + 1) * bufferBytes = q * bufferBytes + bufferBytes /\ q + 1 \in Nat
        BY <1>3
      <4>2. (framesWritten + p) * BytesPerFrame = (q + 1) * bufferBytes + writeOffset'
        BY <1>3, <1>9, <1>11, <1>13, <2>1, <3>1, <4>1
      <4>3. QED BY <4>1, <4>2
    <3>2. CASE writeOffset + bytesPerNotification < bufferBytes
      BY <1>3, <1>9, <1>13, <2>1, <3>2
    <3>3. QED BY <1>3, <3>1, <3>2
  <2>4. framesWritten + p \in Nat /\ bufferBytes \in Nat \ {0}
    BY <1>3
  <2>5. \E r \in Nat :
          ((framesWritten + p) % FrameWrap) * BytesPerFrame = r * bufferBytes + writeOffset'
    BY <1>6, <2>2, <2>3, <2>4, StreamAssumption, WrapKeepsOffset
  <2>6. QED BY <1>1, <1>13, <2>5 DEF PositionInv, GetPosition, hasBuffer
<1>16. framesWritten' \in 0..FrameWrap - 1 /\ writeOffset' \in Nat
  BY <1>3, <1>13, DivMod
<1>17. TimerInv' /\ DpcInv'
  <2>1. TimerInv'
    BY <1>1, <1>2 DEF TimerInv, timerVars, hasBuffer
  <2>2. DpcInv'
    BY <1>1 DEF TimerInv, DpcInv, timerVars
  <2>3. QED BY <2>1, <2>2
<1>18. StreamTypeOK'
  BY <1>1, <1>16 DEF StreamTypeOK, timerVars, NoDst
<1>19. QED BY <1>14, <1>15, <1>17, <1>18

(* ... and into a buffer that is gone: the position starts afresh with the *)
(* next one.                                                               *)
LEMMA LostCopyStep ==
  ASSUME StreamInv, TickCopy, ~hasBuffer
  PROVE  StreamInv'
<1> USE DEF StreamInv
<1>1. /\ dpc = "copying" /\ writeOffset' = advanced(writeOffset, dst.len)
      /\ framesWritten' = (framesWritten + dst.len \div BytesPerFrame) % FrameWrap
      /\ toSignal' = events /\ dpc' = "signalling" /\ dst' = NoDst
      /\ UNCHANGED <<stream, streamOpen, state, bufferBytes, bytesPerNotification,
                     pulled, timerVars, events, call, flushing>>
  BY DEF TickCopy
<1>2. ~hasBuffer' /\ pulled /\ (timerRunning \/ (call # "none" /\ flushing))
  BY <1>1 DEF hasBuffer, DpcInv
<1>3. BufferInv' /\ PositionInv'
  BY <1>2 DEF BufferInv, PositionInv
<1>4. TimerInv' /\ DpcInv'
  <2>1. TimerInv'
    BY <1>1, <1>2 DEF TimerInv, timerVars
  <2>2. DpcInv'
    BY <1>1, <1>2 DEF DpcInv, timerVars
  <2>3. QED BY <2>1, <2>2
<1>5. /\ dst.len \in Nat /\ framesWritten \in Nat /\ writeOffset \in Nat
      /\ BytesPerFrame \in Nat \ {0} /\ FrameWrap \in Nat \ {0}
  BY StreamAssumption DEF StreamTypeOK, StreamAssumption
<1>6. writeOffset' \in Nat
  BY <1>1, <1>5 DEF advanced
<1>7. framesWritten' \in 0..FrameWrap - 1
  <2>1. framesWritten + (dst.len \div BytesPerFrame) \in Nat
    BY <1>5, DivMod
  <2>2. QED BY <1>1, <1>5, <2>1, DivMod
<1>8. StreamTypeOK'
  BY <1>1, <1>6, <1>7 DEF StreamTypeOK, timerVars, NoDst
<1>9. QED BY <1>3, <1>4, <1>8

LEMMA StreamStep ==
  ASSUME StreamInv, [RingStep \/ LocalStep]_streamVars
  PROVE  StreamInv'
<1>1. CASE AllocateBufferWithNotification
  BY <1>1, AllocateStep
<1>2. CASE RegisterNotificationEvent \/ UnregisterNotificationEvent
  BY <1>2, EventSteps
<1>3. CASE SetStateRun \/ \E c \in Calls \ {"none"} : StopTimer(c)
  BY <1>3, StartAndStop
<1>4. CASE TimerExpires \/ TickEnter \/ TickSignal
  BY <1>4, TimerSteps
<1>5. CASE TickCopy
  BY <1>5, CopyStep, LostCopyStep
<1>6. CASE NewStream \/ Destroy \/ Returning
  BY <1>6, StoppedSteps DEF Returning
<1>9. CASE FreeAudioBuffer
  BY <1>9, FreeStep
<1>7. CASE UNCHANGED streamVars
  BY <1>7 DEF streamVars, bufferVars, timerVars, dpcVars, StreamInv, StreamTypeOK, BufferInv,
              PositionInv, TimerInv, DpcInv, hasBuffer, GetPosition
<1>8. QED BY <1>1, <1>2, <1>3, <1>4, <1>5, <1>6, <1>7, <1>9 DEF RingStep, LocalStep

LEMMA StreamInvariant == StreamSpec => []StreamInv
BY InitStreamInv, StreamStep, PTL DEF StreamSpec

LEMMA CopyFits == StreamInv => CopyStaysInBuffer
<1> SUFFICES ASSUME StreamInv, dpc = "copying", hasBuffer
             PROVE  dst.at + dst.len <= bufferBytes
  BY DEF CopyStaysInBuffer, StreamInv, DpcInv
<1>1. /\ hasBuffer /\ dst.at = writeOffset /\ dst.len = bytesPerNotification
      /\ bytesPerNotification \in Nat /\ writeOffset \in Nat
      /\ writeOffset < bufferBytes /\ bufferBytes \in Nat
  BY DEF StreamInv, DpcInv, BufferInv, StreamTypeOK
<1>2. PICK k \in Nat : bufferBytes = k * bytesPerNotification
  BY <1>1 DEF StreamInv, BufferInv
<1>3. PICK j \in Nat : writeOffset = j * bytesPerNotification
  BY <1>1 DEF StreamInv, BufferInv
<1>4. bytesPerNotification # 0
  BY <1>1, <1>2
<1>5. QED BY <1>1, <1>2, <1>3, <1>4, NextPeriod

-----------------------------------------------------------------------------
(* Whatever stops, frees or destroys the stream waits for the DPC, but for *)
(* FreeAudioBuffer while it runs, and the rounding of the requested sizes  *)
(* leaves whole periods: but for that call, the copy is never outside a    *)
(* live buffer.  (minwavestream.cpp, StopTimer, OnTimerTick)               *)
THEOREM CopySafety == StreamSpec => []CopyStaysInBuffer
BY CopyFits, StreamInvariant, PTL

(* The position the engine is told is where the next period will be        *)
(* copied, after any sequence of pauses, stops and reallocations, for      *)
(* every size and number of notifications it may ask for.                  *)
(* (minwavestream.cpp, GetPosition)                                        *)
THEOREM PositionSafety == StreamSpec => []PositionIsOffset
<1>1. StreamInv => PositionIsOffset
  <2> SUFFICES ASSUME StreamInv, hasBuffer PROVE GetPosition % bufferBytes = writeOffset
    BY DEF PositionIsOffset
  <2>1. PICK q \in Nat : GetPosition = q * bufferBytes + writeOffset
    BY DEF StreamInv, PositionInv
  <2>2. writeOffset \in 0..bufferBytes - 1 /\ bufferBytes \in Nat \ {0}
    BY DEF StreamInv, BufferInv, StreamTypeOK, hasBuffer
  <2>3. QED BY <2>1, <2>2, DivOf
<1>2. QED BY <1>1, StreamInvariant, PTL
-----------------------------------------------------------------------------
(* The device's inductive invariant.                                       *)

(* A ring lives from AddDevice to a removal, and the miniport of a started *)
(* device has the live one.                                                *)
PlugInv ==
  /\ ring = IF pnp \in {"added", "started", "failed"} THEN made ELSE 0
  /\ pnp # "absent" => made > 0
  /\ pnp \in {"absent", "added"} => miniRing = 0
  /\ pnp = "started" => miniRing = ring
  /\ pnp = "surprised" => surprised
  /\ interface = "enabled" => pnp = "started"
  /\ stream # "none" => pnp \in {"started", "surprised"}

(* Handles are open on a started or a surprise-removed device only, so a   *)
(* call in the driver works on the last ring made.                         *)
PlaceInv ==
  \A p \in Procs :
    /\ pc[p] # "closed" => pnp \in {"started", "surprised"}
    /\ using[p] = IF pc[p] \in InDriver \ {"close"} THEN made ELSE 0
    /\ dead[p] => pc[p] \in {"close", "drop", "dropped", "closed"}

(* The claim on a live ring is held by one call in the driver, or by the   *)
(* client; and whoever is alive and has the ring mapped is the client.     *)
Holds(p)      == pc[p] \in {"mapping", "unmapped", "dropped"}
MayBeClient(p) ==
  \/ pc[p] \in {"mapped", "stats", "stopping", "unmap"}
  \/ dead[p] /\ pc[p] \in {"close", "drop"}
OwnerInv ==
  ring # 0 =>
    /\ \A p \in Procs : Holds(p) => claimed /\ client = NoProc
    /\ \A p, q \in Procs : Holds(p) /\ Holds(q) => p = q
    /\ client # NoProc => claimed /\ MayBeClient(client)
    /\ \A p \in Procs : ~dead[p] /\ ring \in mapped[p] => client = p

(* Without a ring there is no claim, until a call uses the freed one.      *)
GoneInv ==
  /\ bugcheck => ring = 0 /\ surprised
  /\ ring = 0 /\ ~bugcheck => ~claimed /\ client = NoProc

MappedInv == ~surprised => \A p \in Procs : ~dead[p] => mapped[p] \subseteq {ring}

DeviceInv == /\ StreamInv /\ TypeOK /\ PlugInv /\ PlaceInv /\ OwnerInv /\ GoneInv
             /\ MappedInv /\ ClaimHasOwner

LEMMA InitDevice == Init => DeviceInv
<1> SUFFICES ASSUME Init PROVE DeviceInv
  OBVIOUS
<1> USE DEF Init
<1>1. StreamInv /\ StreamTypeOK
  BY InitStreamInv DEF StreamInv
<1>2. TypeOK
  <2>1. /\ claimed \in BOOLEAN /\ surprised \in BOOLEAN /\ bugcheck \in BOOLEAN
        /\ dead \in [Procs -> BOOLEAN]
    OBVIOUS
  <2>2. /\ made \in 0..MaxRings /\ ring \in {0, made} /\ miniRing \in {0, made}
        /\ using \in [Procs -> 0..made] /\ mapped \in [Procs -> SUBSET (1..made)]
    BY DeviceAssumption DEF DeviceAssumption
  <2>3. QED BY <1>1, <2>1, <2>2 DEF TypeOK, UserCode
<1>3. PlugInv /\ PlaceInv
  BY DEF PlugInv, PlaceInv, StreamInit, InDriver
<1>4. OwnerInv /\ GoneInv /\ MappedInv /\ ClaimHasOwner
  BY DEF OwnerInv, GoneInv, MappedInv, ClaimHasOwner
<1>5. QED BY <1>1, <1>2, <1>3, <1>4 DEF DeviceInv

(* The stream does not touch the device; it uses the miniport's ring.      *)
LEMMA StreamKeepsDevice ==
  ASSUME DeviceInv, ~bugcheck, Stream
  PROVE  DeviceInv'
<1>1. /\ UNCHANGED <<plugVars, claimVars, procVars>> /\ pnp \in {"started", "surprised"}
      /\ (LocalStep /\ UNCHANGED bugcheck) \/ (RingStep /\ uses(miniRing))
  BY DEF Stream
<1>2. StreamInv' /\ StreamTypeOK'
  BY <1>1, StreamStep DEF DeviceInv, StreamInv
<1>3. TypeOK'
  BY <1>1, <1>2 DEF DeviceInv, TypeOK, plugVars, claimVars, procVars, uses
<1>4. PlugInv' /\ PlaceInv' /\ OwnerInv' /\ MappedInv' /\ ClaimHasOwner'
  BY <1>1 DEF DeviceInv, PlugInv, PlaceInv, OwnerInv, MappedInv, ClaimHasOwner, Holds,
              MayBeClient, plugVars, claimVars, procVars
<1>5. GoneInv'
  BY <1>1 DEF DeviceInv, GoneInv, PlugInv, TypeOK, uses, plugVars, claimVars
<1>6. QED BY <1>2, <1>3, <1>4, <1>5 DEF DeviceInv

LEMMA PlugAndPlayKeepsDevice ==
  ASSUME DeviceInv, ~bugcheck, PlugAndPlay
  PROVE  DeviceInv'
<1>1. UNCHANGED <<streamVars, procVars, bugcheck>>
  BY DEF PlugAndPlay, AddDevice, StartDevice, Remove, SurpriseRemoval
<1>2. StreamInv' /\ StreamTypeOK'
  <2>1. UNCHANGED streamVars
    BY <1>1
  <2>2. QED BY <2>1, StreamStep DEF DeviceInv, StreamInv
<1>3. CASE AddDevice
  <2>1. /\ pnp = "absent" /\ ring = 0 /\ made < MaxRings /\ pnp' = "added"
        /\ made' = made + 1 /\ ring' = made + 1 /\ interface' \in {"none", "registered"}
        /\ claimed' = FALSE /\ client' = NoProc /\ UNCHANGED <<miniRing, surprised>>
    BY <1>3 DEF AddDevice, Initialize
  <2>2. stream = "none" /\ miniRing = 0 /\ \A p \in Procs : pc[p] = "closed"
    BY <2>1 DEF DeviceInv, PlugInv, PlaceInv
  <2>3. made \in 0..MaxRings /\ \A p \in Procs : mapped[p] \subseteq 1..made
    BY DEF DeviceInv, TypeOK
  <2>4. TypeOK'
    <3>1. made' \in 0..MaxRings /\ 0..made \subseteq 0..made' /\ 1..made \subseteq 1..made'
      BY <2>1, <2>3, DeviceAssumption DEF DeviceAssumption
    <3>2. QED BY <1>1, <1>2, <2>1, <2>2, <3>1 DEF DeviceInv, TypeOK, procVars
  <2>5. PlugInv'
    BY <1>1, <2>1, <2>2, <2>3 DEF PlugInv, streamVars
  <2>6. PlaceInv'
    BY <1>1, <2>2 DEF DeviceInv, PlaceInv, procVars, InDriver
  <2>7. OwnerInv'
    BY <1>1, <2>1, <2>2, <2>3 DEF OwnerInv, Holds, procVars
  <2>8. GoneInv'
    BY <1>1, <2>1, <2>3 DEF DeviceInv, GoneInv
  <2>9. MappedInv'
    <3>1. ASSUME NEW p \in Procs, ~surprised, ~dead[p] PROVE mapped[p] \subseteq {made + 1}
      BY <2>1, <2>3, <3>1 DEF DeviceInv, MappedInv
    <3>2. QED BY <1>1, <2>1, <3>1 DEF MappedInv, procVars
  <2>10. ClaimHasOwner'
    BY <2>1 DEF ClaimHasOwner
  <2>11. QED BY <1>2, <2>4, <2>5, <2>6, <2>7, <2>8, <2>9, <2>10 DEF DeviceInv
<1>4. CASE StartDevice
  <2>1. /\ pnp = "added" /\ pnp' \in {"started", "failed"}
        /\ miniRing' \in {0, ring} /\ (pnp' = "started" => miniRing' = ring)
        /\ interface' \in {"none", "registered", "enabled"}
        /\ interface' = "enabled" => pnp' = "started" \/ interface = "enabled"
        /\ UNCHANGED <<ring, made, surprised, claimVars>>
    BY <1>4 DEF StartDevice, InstallSubdevices, DeviceInv, TypeOK
  <2>2. ring = made /\ made > 0 /\ \A p \in Procs : pc[p] = "closed"
    BY <2>1 DEF DeviceInv, PlugInv, PlaceInv
  <2>3. TypeOK'
    BY <1>1, <1>2, <2>1, <2>2 DEF DeviceInv, TypeOK, procVars, claimVars
  <2>4. PlugInv'
    BY <1>1, <2>1, <2>2 DEF DeviceInv, PlugInv, streamVars
  <2>5. PlaceInv' /\ OwnerInv' /\ GoneInv' /\ MappedInv' /\ ClaimHasOwner'
    BY <1>1, <2>1, <2>2 DEF DeviceInv, PlaceInv, OwnerInv, GoneInv, MappedInv, ClaimHasOwner,
                            Holds, MayBeClient, procVars, claimVars
  <2>6. QED BY <1>2, <2>3, <2>4, <2>5 DEF DeviceInv
<1>5. CASE Remove
  <2>1. /\ pnp # "absent" /\ stream = "none" /\ \A p \in Procs : pc[p] = "closed"
        /\ interface' = "none" /\ ring' = 0 /\ claimed' = FALSE /\ client' = NoProc
        /\ pnp' = "absent" /\ miniRing' = 0 /\ UNCHANGED <<made, surprised>>
    BY <1>5 DEF Remove, FreeContext, Cleanup
  <2>2. TypeOK'
    BY <1>1, <1>2, <2>1 DEF DeviceInv, TypeOK, procVars
  <2>3. PlugInv' /\ PlaceInv'
    BY <1>1, <2>1 DEF DeviceInv, PlugInv, PlaceInv, procVars, streamVars, InDriver
  <2>4. OwnerInv' /\ GoneInv' /\ ClaimHasOwner'
    BY <1>1, <2>1 DEF OwnerInv, GoneInv, ClaimHasOwner
  <2>5. MappedInv'
    <3>1. SUFFICES ASSUME ~surprised, NEW p \in Procs, ~dead[p] PROVE mapped[p] \subseteq {0}
      BY <1>1, <2>1 DEF MappedInv, procVars
    <3>2. ring # 0
      BY <2>1, <3>1 DEF DeviceInv, PlugInv, TypeOK
    <3>3. client # p
      BY <2>1, <3>1, <3>2, DeviceAssumption
      DEF DeviceInv, OwnerInv, MayBeClient, DeviceAssumption
    <3>4. ring \notin mapped[p]
      BY <3>1, <3>2, <3>3 DEF DeviceInv, OwnerInv
    <3>5. QED BY <3>1, <3>4 DEF DeviceInv, MappedInv
  <2>6. QED BY <1>2, <2>2, <2>3, <2>4, <2>5 DEF DeviceInv
<1>6. CASE SurpriseRemoval
  <2>1. /\ pnp = "started" /\ interface' = "none" /\ ring' = 0
        /\ claimed' = FALSE /\ client' = NoProc
        /\ pnp' = "surprised" /\ surprised' = TRUE /\ UNCHANGED <<made, miniRing>>
    BY <1>6 DEF SurpriseRemoval, FreeContext, Cleanup
  <2>2. TypeOK'
    BY <1>1, <1>2, <2>1 DEF DeviceInv, TypeOK, procVars
  <2>3. PlugInv' /\ PlaceInv'
    BY <1>1, <2>1 DEF DeviceInv, PlugInv, PlaceInv, procVars, streamVars
  <2>4. OwnerInv' /\ GoneInv' /\ ClaimHasOwner' /\ MappedInv'
    BY <1>1, <2>1 DEF OwnerInv, GoneInv, ClaimHasOwner, MappedInv
  <2>5. QED BY <1>2, <2>2, <2>3, <2>4 DEF DeviceInv
<1>7. QED BY <1>3, <1>4, <1>5, <1>6 DEF PlugAndPlay
(* What a process does leaves the stream and the device alone.             *)
LEMMA SteadyFrame ==
  ASSUME DeviceInv, UNCHANGED <<streamVars, plugVars>>
  PROVE  StreamInv' /\ StreamTypeOK' /\ PlugInv'
<1>1. UNCHANGED streamVars
  OBVIOUS
<1>2. StreamInv' /\ StreamTypeOK'
  BY <1>1, StreamStep DEF DeviceInv, StreamInv
<1>3. PlugInv'
  BY DEF DeviceInv, PlugInv, streamVars, plugVars
<1>4. QED BY <1>2, <1>3

(* One case per action of a process, one step per part of the invariant.   *)
(* A call on a ring that is gone ends the system, and only after a         *)
(* surprise removal: there was no claim then, so none is left behind.      *)
LEMMA ProcessKeepsDevice ==
  ASSUME DeviceInv, ~bugcheck, NEW p \in Procs, Process(p)
  PROVE  DeviceInv'
<1> USE DEF plugVars, claimVars, InDriver, move, leave, on, uses
<1>1. CASE openDevice(p)
  <2> USE <1>1 DEF openDevice, SmartMicCreate
  <2>1. UNCHANGED <<streamVars, plugVars>>
    OBVIOUS
  <2>2. StreamInv' /\ StreamTypeOK' /\ PlugInv'
    BY <2>1, SteadyFrame
  <2>3. TypeOK'
    BY <2>2 DEF DeviceInv, TypeOK, UserCode
  <2>4. PlaceInv'
    BY DEF DeviceInv, TypeOK, PlaceInv, PlugInv, UserCode
  <2>5. OwnerInv'
    BY DeviceAssumption DEF DeviceInv, TypeOK, OwnerInv, PlaceInv, PlugInv, GoneInv,
       Holds, MayBeClient, UserCode, DeviceAssumption
  <2>6. GoneInv'
    BY DeviceAssumption DEF DeviceInv, OwnerInv, PlaceInv, PlugInv, GoneInv, TypeOK,
       DeviceAssumption
  <2>7. MappedInv'
    BY DEF DeviceInv, TypeOK, PlaceInv, PlugInv, GoneInv, MappedInv
  <2>8. ClaimHasOwner'
    BY DeviceAssumption DEF DeviceInv, TypeOK, OwnerInv, PlaceInv, PlugInv, GoneInv,
       ClaimHasOwner, Holds, DeviceAssumption
  <2>9. QED BY <2>2, <2>3, <2>4, <2>5, <2>6, <2>7, <2>8 DEF DeviceInv
<1>2. CASE GetVersion(p)
  <2> USE <1>2 DEF GetVersion
  <2>1. UNCHANGED <<streamVars, plugVars>>
    OBVIOUS
  <2>2. StreamInv' /\ StreamTypeOK' /\ PlugInv'
    BY <2>1, SteadyFrame
  <2>3. TypeOK'
    BY <2>2 DEF DeviceInv, TypeOK, UserCode
  <2>4. PlaceInv'
    BY DEF DeviceInv, TypeOK, PlaceInv, PlugInv, UserCode
  <2>5. OwnerInv'
    BY DeviceAssumption DEF DeviceInv, TypeOK, OwnerInv, PlaceInv, PlugInv, GoneInv,
       Holds, MayBeClient, UserCode, DeviceAssumption
  <2>6. GoneInv'
    BY DeviceAssumption DEF DeviceInv, OwnerInv, PlaceInv, PlugInv, GoneInv, TypeOK,
       DeviceAssumption
  <2>7. MappedInv'
    BY DEF DeviceInv, TypeOK, PlaceInv, PlugInv, GoneInv, MappedInv
  <2>8. ClaimHasOwner'
    BY DeviceAssumption DEF DeviceInv, TypeOK, OwnerInv, PlaceInv, PlugInv, GoneInv,
       ClaimHasOwner, Holds, DeviceAssumption
  <2>9. QED BY <2>2, <2>3, <2>4, <2>5, <2>6, <2>7, <2>8 DEF DeviceInv
<1>3. CASE MapRing(p) \/ UnmapRing(p) \/ GetStats(p) \/ Close(p)
  <2> USE <1>3 DEF MapRing, UnmapRing, GetStats, Close, ioctl
  <2>1. UNCHANGED <<streamVars, plugVars>>
    OBVIOUS
  <2>2. StreamInv' /\ StreamTypeOK' /\ PlugInv'
    BY <2>1, SteadyFrame
  <2>3. TypeOK'
    BY <2>2 DEF DeviceInv, TypeOK, UserCode
  <2>4. PlaceInv'
    BY DEF DeviceInv, TypeOK, PlaceInv, PlugInv, UserCode
  <2>5. OwnerInv'
    BY DeviceAssumption DEF DeviceInv, TypeOK, OwnerInv, PlaceInv, PlugInv, GoneInv,
       Holds, MayBeClient, UserCode, DeviceAssumption
  <2>6. GoneInv'
    BY DeviceAssumption DEF DeviceInv, OwnerInv, PlaceInv, PlugInv, GoneInv, TypeOK,
       DeviceAssumption
  <2>7. MappedInv'
    BY DEF DeviceInv, TypeOK, PlaceInv, PlugInv, GoneInv, MappedInv
  <2>8. ClaimHasOwner'
    <3>1. claimed => ring # 0
      BY DEF DeviceInv, GoneInv
    <3>2. claimed /\ client # NoProc /\ pc[client] # "closed" => pc'[client] # "closed"
      BY <3>1 DEF DeviceInv, TypeOK, OwnerInv, MayBeClient
    <3>3. \A q \in Procs : Holds(q) => pc'[q] = pc[q]
      BY DEF DeviceInv, TypeOK, Holds
    <3>4. UNCHANGED <<claimed, client>>
      OBVIOUS
    <3>5. QED BY <3>2, <3>3, <3>4 DEF DeviceInv, ClaimHasOwner, Holds
  <2>9. QED BY <2>2, <2>3, <2>4, <2>5, <2>6, <2>7, <2>8 DEF DeviceInv
<1>4. CASE closeDevice(p)
  <2> USE <1>4 DEF closeDevice
  <2>1. UNCHANGED <<streamVars, plugVars>>
    OBVIOUS
  <2>2. StreamInv' /\ StreamTypeOK' /\ PlugInv'
    BY <2>1, SteadyFrame
  <2>3. TypeOK'
    BY <2>2 DEF DeviceInv, TypeOK, UserCode
  <2>4. PlaceInv'
    BY DEF DeviceInv, TypeOK, PlaceInv, PlugInv, UserCode
  <2>5. OwnerInv'
    BY DeviceAssumption DEF DeviceInv, TypeOK, OwnerInv, PlaceInv, PlugInv, GoneInv,
       Holds, MayBeClient, UserCode, DeviceAssumption
  <2>6. GoneInv'
    BY DeviceAssumption DEF DeviceInv, OwnerInv, PlaceInv, PlugInv, GoneInv, TypeOK,
       DeviceAssumption
  <2>7. MappedInv'
    BY DEF DeviceInv, TypeOK, PlaceInv, PlugInv, GoneInv, MappedInv
  <2>8. ClaimHasOwner'
    BY DeviceAssumption DEF DeviceInv, TypeOK, OwnerInv, PlaceInv, PlugInv, GoneInv,
       ClaimHasOwner, Holds, DeviceAssumption
  <2>9. QED BY <2>2, <2>3, <2>4, <2>5, <2>6, <2>7, <2>8 DEF DeviceInv
<1>5. CASE Claim(p)
  <2> USE <1>5 DEF Claim
  <2>1. UNCHANGED <<streamVars, plugVars>>
    OBVIOUS
  <2>2. StreamInv' /\ StreamTypeOK' /\ PlugInv'
    BY <2>1, SteadyFrame
  <2>3. TypeOK'
    BY <2>2 DEF DeviceInv, TypeOK, UserCode
  <2>4. PlaceInv'
    BY DEF DeviceInv, TypeOK, PlaceInv, PlugInv, UserCode
  <2>5. OwnerInv'
    BY DeviceAssumption DEF DeviceInv, TypeOK, OwnerInv, PlaceInv, PlugInv, GoneInv,
       Holds, MayBeClient, UserCode, DeviceAssumption
  <2>6. GoneInv'
    BY DeviceAssumption DEF DeviceInv, OwnerInv, PlaceInv, PlugInv, GoneInv, TypeOK,
       DeviceAssumption
  <2>7. MappedInv'
    BY DEF DeviceInv, TypeOK, PlaceInv, PlugInv, GoneInv, MappedInv
  <2>8. ClaimHasOwner'
    BY DeviceAssumption DEF DeviceInv, TypeOK, OwnerInv, PlaceInv, PlugInv, GoneInv,
       ClaimHasOwner, Holds, DeviceAssumption
  <2>9. QED BY <2>2, <2>3, <2>4, <2>5, <2>6, <2>7, <2>8 DEF DeviceInv
<1>6. CASE MapPages(p)
  <2> USE <1>6 DEF MapPages
  <2>1. UNCHANGED <<streamVars, plugVars>>
    OBVIOUS
  <2>2. StreamInv' /\ StreamTypeOK' /\ PlugInv'
    BY <2>1, SteadyFrame
  <2>3. TypeOK'
    <3>1. claimed' \in BOOLEAN /\ bugcheck' \in BOOLEAN
      BY DEF DeviceInv, TypeOK
    <3>2. using[p] \in 1..made
      BY DEF DeviceInv, TypeOK, PlugInv, PlaceInv
    <3>3. /\ pc' \in [Procs -> UserCode \union InDriver] /\ using' \in [Procs -> 0..made]
          /\ mapped' \in [Procs -> SUBSET (1..made)] /\ client' \in Procs \union {NoProc}
          /\ UNCHANGED <<streamVars, plugVars, dead>>
      BY <3>2 DEF DeviceInv, TypeOK, UserCode
    <3>4. QED BY <3>1, <3>3, <2>2 DEF DeviceInv, TypeOK
  <2>4. PlaceInv'
    BY DEF DeviceInv, TypeOK, PlaceInv, PlugInv, UserCode
  <2>5. OwnerInv'
    BY DeviceAssumption DEF DeviceInv, TypeOK, OwnerInv, PlaceInv, PlugInv, GoneInv,
       Holds, MayBeClient, UserCode, DeviceAssumption
  <2>6. GoneInv'
    BY DeviceAssumption DEF DeviceInv, OwnerInv, PlaceInv, PlugInv, GoneInv, TypeOK,
       DeviceAssumption
  <2>7. MappedInv'
    BY DEF DeviceInv, TypeOK, PlaceInv, PlugInv, GoneInv, MappedInv
  <2>8. ClaimHasOwner'
    BY DeviceAssumption DEF DeviceInv, TypeOK, OwnerInv, PlaceInv, PlugInv, GoneInv,
       ClaimHasOwner, Holds, DeviceAssumption
  <2>9. QED BY <2>2, <2>3, <2>4, <2>5, <2>6, <2>7, <2>8 DEF DeviceInv
<1>7. CASE ReadStats(p)
  <2> USE <1>7 DEF ReadStats
  <2>1. UNCHANGED <<streamVars, plugVars>>
    OBVIOUS
  <2>2. StreamInv' /\ StreamTypeOK' /\ PlugInv'
    BY <2>1, SteadyFrame
  <2>3. TypeOK'
    BY <2>2 DEF DeviceInv, TypeOK, UserCode
  <2>4. PlaceInv'
    BY DEF DeviceInv, TypeOK, PlaceInv, PlugInv, UserCode
  <2>5. OwnerInv'
    BY DeviceAssumption DEF DeviceInv, TypeOK, OwnerInv, PlaceInv, PlugInv, GoneInv,
       Holds, MayBeClient, UserCode, DeviceAssumption
  <2>6. GoneInv'
    BY DeviceAssumption DEF DeviceInv, OwnerInv, PlaceInv, PlugInv, GoneInv, TypeOK,
       DeviceAssumption
  <2>7. MappedInv'
    BY DEF DeviceInv, TypeOK, PlaceInv, PlugInv, GoneInv, MappedInv
  <2>8. ClaimHasOwner'
    BY DeviceAssumption DEF DeviceInv, TypeOK, OwnerInv, PlaceInv, PlugInv, GoneInv,
       ClaimHasOwner, Holds, DeviceAssumption
  <2>9. QED BY <2>2, <2>3, <2>4, <2>5, <2>6, <2>7, <2>8 DEF DeviceInv
<1>8. CASE Unmap(p)
  <2> USE <1>8 DEF Unmap
  <2>1. UNCHANGED <<streamVars, plugVars>>
    OBVIOUS
  <2>2. StreamInv' /\ StreamTypeOK' /\ PlugInv'
    BY <2>1, SteadyFrame
  <2>3. TypeOK'
    BY <2>2 DEF DeviceInv, TypeOK, UserCode
  <2>4. PlaceInv'
    BY DEF DeviceInv, TypeOK, PlaceInv, PlugInv, UserCode
  <2>5. OwnerInv'
    BY DeviceAssumption DEF DeviceInv, TypeOK, OwnerInv, PlaceInv, PlugInv, GoneInv,
       Holds, MayBeClient, UserCode, DeviceAssumption
  <2>6. GoneInv'
    BY DeviceAssumption DEF DeviceInv, OwnerInv, PlaceInv, PlugInv, GoneInv, TypeOK,
       DeviceAssumption
  <2>7. MappedInv'
    BY DEF DeviceInv, TypeOK, PlaceInv, PlugInv, GoneInv, MappedInv
  <2>8. ClaimHasOwner'
    BY DeviceAssumption DEF DeviceInv, TypeOK, OwnerInv, PlaceInv, PlugInv, GoneInv,
       ClaimHasOwner, Holds, DeviceAssumption
  <2>9. QED BY <2>2, <2>3, <2>4, <2>5, <2>6, <2>7, <2>8 DEF DeviceInv
<1>9. CASE Unclaim(p, "unmapped", "close") \/ Unclaim(p, "dropped", "closed")
  <2> USE <1>9 DEF Unclaim
  <2>1. UNCHANGED <<streamVars, plugVars>>
    OBVIOUS
  <2>2. StreamInv' /\ StreamTypeOK' /\ PlugInv'
    BY <2>1, SteadyFrame
  <2>3. TypeOK'
    <3>1. claimed' \in BOOLEAN /\ bugcheck' \in BOOLEAN
      OBVIOUS
    <3>2. /\ pc' \in [Procs -> UserCode \union InDriver] /\ using' \in [Procs -> 0..made]
          /\ UNCHANGED <<streamVars, plugVars, client, mapped, dead>>
      BY DEF DeviceInv, TypeOK, UserCode
    <3>3. QED BY <3>1, <3>2, <2>2 DEF DeviceInv, TypeOK
  <2>4. PlaceInv'
    BY DEF DeviceInv, TypeOK, PlaceInv, PlugInv, UserCode
  <2>5. OwnerInv'
    BY DeviceAssumption DEF DeviceInv, TypeOK, OwnerInv, PlaceInv, PlugInv, GoneInv,
       Holds, MayBeClient, UserCode, DeviceAssumption
  <2>6. GoneInv'
    BY DeviceAssumption DEF DeviceInv, OwnerInv, PlaceInv, PlugInv, GoneInv, TypeOK,
       DeviceAssumption
  <2>7. MappedInv'
    BY DEF DeviceInv, TypeOK, PlaceInv, PlugInv, GoneInv, MappedInv
  <2>8. ClaimHasOwner'
    BY DeviceAssumption DEF DeviceInv, TypeOK, OwnerInv, PlaceInv, PlugInv, GoneInv,
       ClaimHasOwner, Holds, DeviceAssumption
  <2>9. QED BY <2>2, <2>3, <2>4, <2>5, <2>6, <2>7, <2>8 DEF DeviceInv
<1>10. CASE ReleaseClaimIfOwner(p)
  <2> USE <1>10 DEF ReleaseClaimIfOwner
  <2>1. UNCHANGED <<streamVars, plugVars>>
    OBVIOUS
  <2>2. StreamInv' /\ StreamTypeOK' /\ PlugInv'
    BY <2>1, SteadyFrame
  <2>3. TypeOK'
    BY <2>2 DEF DeviceInv, TypeOK, UserCode
  <2>4. PlaceInv'
    BY DEF DeviceInv, TypeOK, PlaceInv, PlugInv, UserCode
  <2>5. OwnerInv'
    BY DeviceAssumption DEF DeviceInv, TypeOK, OwnerInv, PlaceInv, PlugInv, GoneInv,
       Holds, MayBeClient, UserCode, DeviceAssumption
  <2>6. GoneInv'
    BY DeviceAssumption DEF DeviceInv, OwnerInv, PlaceInv, PlugInv, GoneInv, TypeOK,
       DeviceAssumption
  <2>7. MappedInv'
    BY DEF DeviceInv, TypeOK, PlaceInv, PlugInv, GoneInv, MappedInv
  <2>8. ClaimHasOwner'
    BY DeviceAssumption DEF DeviceInv, TypeOK, OwnerInv, PlaceInv, PlugInv, GoneInv,
       ClaimHasOwner, Holds, DeviceAssumption
  <2>9. QED BY <2>2, <2>3, <2>4, <2>5, <2>6, <2>7, <2>8 DEF DeviceInv
<1>11. CASE Crash(p)
  <2> USE <1>11 DEF Crash
  <2>1. UNCHANGED <<streamVars, plugVars>>
    OBVIOUS
  <2>2. StreamInv' /\ StreamTypeOK' /\ PlugInv'
    BY <2>1, SteadyFrame
  <2>3. TypeOK'
    BY <2>2 DEF DeviceInv, TypeOK, UserCode
  <2>4. PlaceInv'
    BY DEF DeviceInv, TypeOK, PlaceInv, PlugInv, UserCode
  <2>5. OwnerInv'
    BY DeviceAssumption DEF DeviceInv, TypeOK, OwnerInv, PlaceInv, PlugInv, GoneInv,
       Holds, MayBeClient, UserCode, DeviceAssumption
  <2>6. GoneInv'
    BY DeviceAssumption DEF DeviceInv, OwnerInv, PlaceInv, PlugInv, GoneInv, TypeOK,
       DeviceAssumption
  <2>7. MappedInv'
    BY DEF DeviceInv, TypeOK, PlaceInv, PlugInv, GoneInv, MappedInv
  <2>8. ClaimHasOwner'
    <3>1. pc'[p] = "close" /\ ~Holds(p) /\ \A q \in Procs \ {p} : pc'[q] = pc[q]
      BY DEF DeviceInv, TypeOK, Holds, UserCode
    <3>2. UNCHANGED <<claimed, client>>
      OBVIOUS
    <3>3. client # NoProc => client \in Procs
      BY DEF DeviceInv, TypeOK
    <3>4. QED BY <3>1, <3>2, <3>3 DEF DeviceInv, ClaimHasOwner, Holds
  <2>9. QED BY <2>2, <2>3, <2>4, <2>5, <2>6, <2>7, <2>8 DEF DeviceInv
<1>12. CASE Restart(p)
  <2> USE <1>12 DEF Restart
  <2>1. UNCHANGED <<streamVars, plugVars>>
    OBVIOUS
  <2>2. StreamInv' /\ StreamTypeOK' /\ PlugInv'
    BY <2>1, SteadyFrame
  <2>3. TypeOK'
    BY <2>2 DEF DeviceInv, TypeOK, UserCode
  <2>4. PlaceInv'
    BY DEF DeviceInv, TypeOK, PlaceInv, PlugInv, UserCode
  <2>5. OwnerInv'
    BY DeviceAssumption DEF DeviceInv, TypeOK, OwnerInv, PlaceInv, PlugInv, GoneInv,
       Holds, MayBeClient, UserCode, DeviceAssumption
  <2>6. GoneInv'
    BY DeviceAssumption DEF DeviceInv, OwnerInv, PlaceInv, PlugInv, GoneInv, TypeOK,
       DeviceAssumption
  <2>7. MappedInv'
    BY DEF DeviceInv, TypeOK, PlaceInv, PlugInv, GoneInv, MappedInv
  <2>8. ClaimHasOwner'
    BY DeviceAssumption DEF DeviceInv, TypeOK, OwnerInv, PlaceInv, PlugInv, GoneInv,
       ClaimHasOwner, Holds, DeviceAssumption
  <2>9. QED BY <2>2, <2>3, <2>4, <2>5, <2>6, <2>7, <2>8 DEF DeviceInv
<1>13. QED BY <1>1, <1>2, <1>3, <1>4, <1>5, <1>6, <1>7, <1>8, <1>9, <1>10, <1>11, <1>12
        DEF Process, DriverCall

LEMMA DeviceInvariant == Spec => []DeviceInv
<1>1. Init => DeviceInv
  BY InitDevice
<1>2. DeviceInv /\ [Next]_vars => DeviceInv'
  <2> SUFFICES ASSUME DeviceInv, [Next]_vars PROVE DeviceInv'
    OBVIOUS
  <2>1. CASE ~bugcheck /\ PlugAndPlay
    BY <2>1, PlugAndPlayKeepsDevice
  <2>2. CASE ~bugcheck /\ \E p \in Procs : Process(p)
    BY <2>2, ProcessKeepsDevice
  <2>3. CASE ~bugcheck /\ Stream
    BY <2>3, StreamKeepsDevice
  <2>4. CASE UNCHANGED vars
    <3>1. UNCHANGED <<streamVars, plugVars, claimVars, procVars, bugcheck>>
      BY <2>4 DEF vars
    <3>2. StreamInv' /\ StreamTypeOK' /\ PlugInv'
      BY <3>1, SteadyFrame
    <3>3. QED BY <3>1, <3>2 DEF DeviceInv, TypeOK, PlaceInv, OwnerInv, GoneInv, MappedInv,
                              ClaimHasOwner, Holds, MayBeClient, plugVars, claimVars, procVars
  <2>5. QED BY <2>1, <2>2, <2>3, <2>4 DEF Next, Halted
<1>3. QED BY <1>1, <1>2, PTL DEF Spec

-----------------------------------------------------------------------------
(* The device's state stays typed; the stream keeps its own invariant      *)
(* beside plug and play and the services.                                  *)
THEOREM DeviceTypeOK == Spec => []TypeOK
<1>1. DeviceInv => TypeOK
  BY DEF DeviceInv
<1>2. QED BY <1>1, DeviceInvariant, PTL

(* Two services never write the ring at the same time, for any number of   *)
(* services that start, stop and die in any order: whoever is alive and    *)
(* has the live ring mapped is the client, and there is one client.        *)
(* (ring.cpp, MapForCurrentProcess)                                        *)
THEOREM OneProducer == Spec => []SingleProducer
<1>1. DeviceInv => SingleProducer
  <2> SUFFICES ASSUME DeviceInv, NEW p \in Procs, NEW q \in Procs,
                      p # q, ~dead[p], ~dead[q], ring \in mapped[p], ring \in mapped[q]
               PROVE  FALSE
    BY DEF SingleProducer
  <2>1. ring # 0
    BY DEF DeviceInv, TypeOK
  <2>2. client = p /\ client = q
    BY <2>1 DEF DeviceInv, OwnerInv
  <2>3. QED BY <2>2
<1>2. QED BY <1>1, DeviceInvariant, PTL

(* Behind every claim is a process whose next steps in the driver settle   *)
(* it, whoever died: the ring is never left claimed by nobody.             *)
(* (driver.cpp, SmartMicClose; ring.cpp, ReleaseClaimIfOwner)              *)
THEOREM ClaimSafety == Spec => []ClaimHasOwner
<1>1. DeviceInv => ClaimHasOwner
  BY DEF DeviceInv
<1>2. QED BY <1>1, DeviceInvariant, PTL

(* Without a surprise removal nothing uses a ring that is gone: neither a  *)
(* call in the driver, nor the stream, nor a service through a mapping.    *)
(* (driver.cpp, SmartMicPnpHandler)                                        *)
THEOREM RemovalSafety == Spec => []OrderlyRemovalIsSafe
<1>1. DeviceInv => OrderlyRemovalIsSafe
  BY DEF DeviceInv, GoneInv, MappedInv, OrderlyRemovalIsSafe
<1>2. QED BY <1>1, DeviceInvariant, PTL

(* The timer DPC stays inside a live buffer in the whole driver too.       *)
(* (minwavestream.cpp, OnTimerTick)                                        *)
THEOREM CopySafetyInDriver == Spec => []CopyStaysInBuffer
<1>1. DeviceInv => CopyStaysInBuffer
  BY CopyFits DEF DeviceInv
<1>2. QED BY <1>1, DeviceInvariant, PTL
-----------------------------------------------------------------------------
(* The refinement of RingLease.                                            *)

(* The producer is the client of the live ring.                            *)
LEMMA ProducersAre ==
  ASSUME DeviceInv
  PROVE  /\ ring = 0 => Producers = {}
         /\ Producers \subseteq {client} \ {NoProc}
<1>1. \A p \in Producers : p \in Procs /\ ~dead[p] /\ ring \in mapped[p]
  BY DEF Producers
<1>2. \A p \in Producers : ring # 0
  BY <1>1 DEF DeviceInv, TypeOK
<1>3. \A p \in Producers : client = p /\ p # NoProc
  BY <1>1, <1>2, DeviceAssumption DEF DeviceInv, OwnerInv, DeviceAssumption
<1>4. QED BY <1>2, <1>3

(* Plug and play makes the ring that nobody uses yet, or withdraws it.     *)
LEMMA PlugIsPromised ==
  ASSUME DeviceInv, PlugAndPlay
  PROVE  Lease!Next \/ UNCHANGED Lease!leaseVars
<1>1. UNCHANGED <<mapped, dead>>
  BY DEF PlugAndPlay, AddDevice, StartDevice, Remove, SurpriseRemoval, procVars
<1>2. \A p \in Procs : 0 \notin mapped[p] /\ made + 1 \notin mapped[p]
  BY DEF DeviceInv, TypeOK
<1>3. CASE AddDevice
  <2>1. ring = 0 /\ ring' = made + 1 /\ ring' # 0
    BY <1>3 DEF AddDevice, DeviceInv, TypeOK
  <2>2. Producers = {} /\ Producers' = {}
    BY <1>1, <1>2, <2>1 DEF Producers
  <2>3. Lease!Make
    BY <2>1, <2>2 DEF Lease!Make
  <2>4. QED BY <2>3 DEF Lease!Next
<1>4. CASE StartDevice
  <2>1. ring' = ring /\ Producers' = Producers
    BY <1>1, <1>4 DEF StartDevice, Producers
  <2>2. QED BY <2>1 DEF Lease!leaseVars
<1>5. CASE Remove \/ SurpriseRemoval
  <2>1. ring' = 0
    BY <1>5 DEF Remove, SurpriseRemoval, FreeContext
  <2>2. Producers' = {}
    BY <1>1, <1>2, <2>1 DEF Producers
  <2>3. CASE ring = 0
    BY <2>1, <2>2, <2>3, ProducersAre DEF Lease!leaseVars
  <2>4. CASE ring # 0
    <3>1. Lease!Withdraw
      BY <2>1, <2>2, <2>4 DEF Lease!Withdraw
    <3>2. QED BY <3>1 DEF Lease!Next
  <2>5. QED BY <2>3, <2>4
<1>6. QED BY <1>3, <1>4, <1>5 DEF PlugAndPlay

(* A mapping of the live ring is made while nobody else has one.           *)
LEMMA MappingIsPromised ==
  ASSUME DeviceInv, NEW p \in Procs, MapPages(p)
  PROVE  Lease!Next \/ UNCHANGED Lease!leaseVars
<1>1. pc[p] = "mapping" /\ UNCHANGED <<ring, dead>>
  BY DEF MapPages, plugVars
<1>2. CASE mapped' = mapped
  BY <1>1, <1>2 DEF Producers, Lease!leaseVars
<1>3. CASE mapped' = [mapped EXCEPT ![p] = @ \union {using[p]}]
  <2>1. using[p] = made /\ ~dead[p] /\ made # 0
    BY <1>1 DEF DeviceInv, PlaceInv, PlugInv, TypeOK, InDriver
  <2>2. CASE ring = 0
    <3>1. \A q \in Procs : 0 \notin mapped'[q]
      BY <1>3, <2>1 DEF DeviceInv, TypeOK
    <3>2. Producers' = {} /\ Producers = {}
      BY <1>1, <2>2, <3>1, ProducersAre DEF Producers
    <3>3. QED BY <1>1, <3>2 DEF Lease!leaseVars
  <2>3. CASE ring # 0
    <3>1. ring = made /\ client = NoProc
      BY <1>1, <2>3 DEF DeviceInv, TypeOK, OwnerInv, Holds
    <3>2. Producers = {}
      BY <3>1, ProducersAre
    <3>3. \A q \in Procs : ring' \in mapped'[q] <=> q = p \/ ring \in mapped[q]
      BY <1>1, <1>3, <2>1, <3>1 DEF DeviceInv, TypeOK
    <3>4. Producers' = {p}
      BY <1>1, <2>1, <3>2, <3>3 DEF Producers
    <3>5. Lease!Lend(p)
      BY <1>1, <2>3, <3>2, <3>4 DEF Lease!Lend
    <3>6. QED BY <3>5 DEF Lease!Next
  <2>4. QED BY <2>2, <2>3
<1>4. QED BY <1>2, <1>3 DEF MapPages

(* Everything else a process does takes the ring from nobody but itself.   *)
LEMMA ProcessIsPromised ==
  ASSUME DeviceInv, NEW p \in Procs, Process(p)
  PROVE  Lease!Next \/ UNCHANGED Lease!leaseVars
<1>1. CASE MapPages(p)
  BY <1>1, MappingIsPromised
<1>2. CASE ~MapPages(p)
  <2>1. ring' = ring
    BY <1>2 DEF Process, DriverCall, openDevice, GetVersion, MapRing, GetStats, closeDevice,
       UnmapRing, ioctl, Claim, ReadStats, Unmap, Unclaim, Close, ReleaseClaimIfOwner,
       Crash, Restart, plugVars
  <2>2. \/ UNCHANGED <<mapped, dead>>
        \/ UNCHANGED dead /\ mapped' = [mapped EXCEPT ![p] = @ \ {using[p]}]
        \/ UNCHANGED mapped /\ dead' = [dead EXCEPT ![p] = TRUE]
        \/ /\ dead[p] /\ dead' = [dead EXCEPT ![p] = FALSE]
           /\ mapped' = [mapped EXCEPT ![p] = {}]
    BY <1>2 DEF Process, DriverCall, openDevice, GetVersion, MapRing, GetStats, closeDevice,
       UnmapRing, ioctl, Claim, ReadStats, Unmap, Unclaim, Close, ReleaseClaimIfOwner,
       Crash, Restart
  <2>3. \A q \in Procs \ {p} : mapped'[q] = mapped[q] /\ dead'[q] = dead[q]
    BY <2>2 DEF DeviceInv, TypeOK
  <2>4. ~dead'[p] /\ ring \in mapped'[p] => ~dead[p] /\ ring \in mapped[p]
    BY <2>2 DEF DeviceInv, TypeOK
  <2>5. Producers' = Producers \/ (p \in Producers /\ Producers' = Producers \ {p})
    BY <2>1, <2>3, <2>4 DEF Producers
  <2>6. CASE Producers' = Producers
    BY <2>1, <2>6 DEF Lease!leaseVars
  <2>7. CASE p \in Producers /\ Producers' = Producers \ {p}
    <3>1. Producers = {p} /\ Producers' = {}
      BY <2>7, ProducersAre
    <3>2. Lease!Return(p)
      BY <2>1, <3>1 DEF Lease!Return
    <3>3. QED BY <3>2 DEF Lease!Next
  <2>8. QED BY <2>5, <2>6, <2>7
<1>3. QED BY <1>1, <1>2

(* The driver lends its ring to one living service at a time and takes it  *)
(* back in between, for any services, devices, failures, crashes and       *)
(* removals.  (ring.cpp, MapForCurrentProcess to ReleaseClaimIfOwner)      *)
THEOREM DriverLendsOneAtATime == Spec => LendsOneAtATime
<1>1. Init => Lease!Init
  BY DEF Init, Lease!Init, Producers
<1>2. DeviceInv /\ [Next]_vars => [Lease!Next]_(Lease!leaseVars)
  <2> SUFFICES ASSUME DeviceInv, [Next]_vars
               PROVE  Lease!Next \/ UNCHANGED Lease!leaseVars
    OBVIOUS
  <2>1. CASE PlugAndPlay
    BY <2>1, PlugIsPromised
  <2>2. CASE \E p \in Procs : Process(p)
    BY <2>2, ProcessIsPromised
  <2>3. CASE Stream \/ UNCHANGED vars
    <3>1. UNCHANGED <<ring, mapped, dead>>
      BY <2>3 DEF Stream, vars, plugVars, procVars
    <3>2. QED BY <3>1 DEF Producers, Lease!leaseVars
  <2>4. QED BY <2>1, <2>2, <2>3 DEF Next, Halted
<1>3. QED BY <1>1, <1>2, DeviceInvariant, PTL DEF Spec, LendsOneAtATime, Lease!Spec
=============================================================================
