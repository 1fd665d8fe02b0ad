---------------------------- MODULE JitterBuffer ----------------------------
(***************************************************************************)
(* The phone's audio on its way to the router: MediaSender numbers packets *)
(* on the phone, UDP loses, delays and reorders them, PhoneMediaSource     *)
(* pushes them into the JitterBuffer, the service's loop announces         *)
(* PTT_READY once it is ready() and the router pops one packet per frame   *)
(* while it wants the phone.                                               *)
(*                                                                         *)
(* Sequence numbers are kept relative to nextSeq_, the one to be played    *)
(* next: a packet's off is seq - nextSeq_, ahead is that of the packet the *)
(* phone will send next.  (2^32 packets are 2.7 years of talking, so the   *)
(* wrap of the 32-bit counter is left out.)  Both ends run at 20 ms; one   *)
(* frame is capture, network, audio loop.  The adaptive target is left     *)
(* out: pop() reads it in "overdue" only, and a queue that is overdue is   *)
(* not empty, which decides the same.                                      *)
(***************************************************************************)
EXTENDS Integers, FiniteSets, FiniteSetsExt, SourceStateMachine

CONSTANTS
  MaxEntries,  \* maxEntries(): what the queue holds
  Prefill,     \* prefillMs in frames
  LostFrames,  \* the router's phoneLostTimeoutMs in frames
  MaxAhead,    \* bound: how far the phone is counted ahead of nextSeq_
  MaxFlight,   \* bound: packets delayed past their frame
  MaxLate      \* bound: how late a packet may still arrive

ASSUME JitterAssumption ==
  /\ MaxEntries \in Nat \ {0} /\ Prefill \in 1..MaxEntries
  /\ LostFrames \in Nat /\ MaxAhead \in Nat \ {0} /\ MaxFlight \in Nat
  /\ MaxLate \in Nat

VARIABLES
  pressed,  \* the phone's button: "up", "pressing" (inside press()), "down"
  marker,   \* marker_ of the sender
  packing,  \* the packet the capture thread is packing, if any
  lostMark, \* history: the marker of the press under way was cleared unsent
  ctl,      \* the control message under way: "none", "start", "stop"
  ahead,    \* the phone's seq_ - nextSeq_
  flight,   \* packets in the network
  started, queue,  \* the jitter buffer
  state,    \* the router's, in Auto
  quiet,    \* frames since media last arrived
  turn,     \* "capture", "network", "loop"
  calm,     \* from now on the network delivers each packet in its frame
  intact,   \* history: no packet of this stream was lost or given up
  heard     \* what the last frame took from the phone

phoneVars == <<pressed, marker, packing, lostMark>>
vars == <<phoneVars, ctl, ahead, flight, started, queue, state, quiet, turn,
          calm, intact, heard>>

(* old: captured before the current press.                                 *)
Packet == [off : Int, marker : BOOLEAN, old : BOOLEAN]

Offs(S) == {m.off : m \in S}
Shift(S, n) == {[m EXCEPT !.off = @ - n] : m \in S}
Aged(S) == {[m EXCEPT !.old = TRUE] : m \in S}

-----------------------------------------------------------------------------
(* The phone.                                                              *)

(* sm_phone_press: pressed is set, and media flows from here on ...        *)
press ==
  /\ turn = "capture" /\ pressed = "up"
  /\ pressed' = "pressing"
  /\ queue' = Aged(queue) /\ flight' = Aged(flight) /\ packing' = Aged(packing)
  /\ UNCHANGED <<marker, lostMark, ctl, ahead, started, state, quiet, turn, calm, intact,
                 heard>>

(* ... then the stream is marked as new and START_PTT is sent.             *)
pressed_resetStream ==
  /\ turn = "capture" /\ pressed = "pressing"
  /\ pressed' = "down"
  /\ marker' = TRUE /\ lostMark' = FALSE
  /\ ctl' = "start"
  /\ UNCHANGED <<packing, ahead, flight, started, queue, state, quiet, turn, calm, intact,
                 heard>>

release ==
  /\ turn = "capture" /\ pressed = "down"
  /\ pressed' = "up" /\ lostMark' = FALSE
  /\ ctl' = "stop"
  /\ UNCHANGED <<marker, packing, ahead, flight, started, queue, state,
                 quiet, turn, calm, intact, heard>>

(* onCaptureFrame: one packet per frame while pressed.  packFrame takes its *)
(* flags from marker_ ...                                                  *)
onCaptureFrame ==
  /\ turn = "capture" /\ pressed # "up" /\ packing = {} /\ ahead < MaxAhead
  /\ packing' = {[off |-> ahead, marker |-> marker, old |-> FALSE]}
  /\ UNCHANGED <<pressed, marker, lostMark, ctl, ahead, flight, started, queue, state,
                 quiet, turn, calm, intact, heard>>

(* ... and clears it afterwards, whatever the user has done meanwhile; the *)
(* packet is sent.                                                         *)
marksThisPress == \E m \in packing : m.marker /\ ~m.old
packFrame ==
  /\ packing # {}
  /\ flight' = flight \union packing
  /\ ahead' = ahead + 1
  /\ marker' = FALSE
  /\ lostMark' = (lostMark \/ (pressed = "down" /\ marker /\ ~marksThisPress))
  /\ packing' = {}
  /\ turn' = "network"
  /\ UNCHANGED <<pressed, ctl, started, queue, state, quiet, calm, intact, heard>>

captureNothing ==
  /\ turn = "capture" /\ pressed = "up" /\ packing = {}
  /\ turn' = "network"
  /\ UNCHANGED <<phoneVars, ctl, ahead, flight, started, queue, state, quiet,
                 calm, intact, heard>>

-----------------------------------------------------------------------------
(* The network.                                                            *)
lose(m) ==
  /\ turn = "network" /\ ~calm /\ m \in flight
  /\ flight' = flight \ {m}
  /\ intact' = FALSE
  /\ UNCHANGED <<phoneVars, ctl, ahead, started, queue, state, quiet, turn, calm,
                 heard>>

loseControl ==
  /\ turn = "network" /\ ~calm /\ ctl # "none"
  /\ ctl' = "none"
  /\ UNCHANGED <<phoneVars, ahead, flight, started, queue, state, quiet, turn,
                 calm, intact, heard>>

calmDown ==
  /\ ~calm
  /\ calm' = TRUE
  /\ UNCHANGED <<phoneVars, ctl, ahead, flight, started, queue, state, quiet,
                 turn, intact, heard>>

(* What is not delivered by now is delayed into the next frame.            *)
networkDone ==
  /\ turn = "network"
  /\ IF calm THEN flight = {} /\ ctl = "none"
     ELSE Cardinality(flight) <= MaxFlight /\ \A m \in flight : m.off >= -MaxLate
  /\ turn' = "loop"
  /\ UNCHANGED <<phoneVars, ctl, ahead, flight, started, queue, state, quiet,
                 calm, intact, heard>>

-----------------------------------------------------------------------------
(* The service's network thread.                                           *)

(* onControl: the router's machine follows at its next tick.               *)
onControl ==
  /\ turn = "network" /\ ctl # "none"
  /\ state' = StateAfter("Auto", state, IF ctl = "start" THEN "StartPtt"
                                                         ELSE "StopPtt")
  /\ quiet' = IF ctl = "start" THEN 0 ELSE quiet
  /\ ctl' = "none"
  /\ UNCHANGED <<phoneVars, ahead, flight, started, queue, turn, calm, intact,
                 heard>>

(* push(): late and known packets are dropped; when full, the queue's      *)
(* first packet makes room.                                                *)
full(q) == Cardinality(q) >= MaxEntries
evicted(q) == IF full(q) THEN {m \in q : m.off # Min(Offs(q))} ELSE q
push_NoLateCheck(q, m) ==
  IF m.off \in Offs(q) THEN q ELSE evicted(q) \union {m}
push(q, m) ==
  IF m.off < 0 \/ m.off \in Offs(q) THEN q ELSE evicted(q) \union {m}

(* onMediaPayload: a marked packet, like the first one, starts a stream,   *)
(* whose first sequence number is its own.                                 *)
newStream_FirstOnly(m) == ~started
newStream(m) == m.marker \/ ~started
onMedia(m) ==
  /\ turn = "network" /\ m \in flight
  /\ quiet' = 0
  /\ started' = TRUE
  /\ LET rest == flight \ {m} IN
     IF newStream(m)
     THEN /\ queue' = push({}, [m EXCEPT !.off = 0])
          /\ flight' = Shift(rest, m.off)
          /\ ahead' = ahead - m.off
          /\ intact' = (m.off..ahead - 1 = {m.off} \union Offs(rest))
     ELSE /\ queue' = push(queue, m)
          /\ flight' = rest
          /\ UNCHANGED ahead
          /\ intact' = (intact /\ ~full(queue))
  /\ UNCHANGED <<phoneVars, ctl, state, turn, calm, heard>>

-----------------------------------------------------------------------------
(* The service's audio loop.                                               *)
ready == started /\ Cardinality(queue) >= Prefill

(* pop(): the packet that is due, or concealment; a packet that is missing *)
(* is given up once later ones are there.                                  *)
found == {m \in queue : m.off = 0}
advances_Always == TRUE
advances_NeverPast == found # {}
advances == queue # {}
pop ==
  /\ heard' = IF found = {} THEN "concealed"
              ELSE IF \E m \in found : m.old THEN "old" ELSE "new"
  /\ IF started /\ advances
     THEN /\ queue' = Shift(queue \ found, 1)
          /\ flight' = Shift(flight, 1)
          /\ ahead' = ahead - 1
          /\ intact' = (intact /\ (found # {} \/ queue = {}))
     ELSE UNCHANGED <<queue, flight, ahead, intact>>

(* What the loop and tick() make of the state before sources are read: the *)
(* announcement, the two timeouts, recovery.  (pttRequested and not yet    *)
(* announcedReady is what PhoneArming means here, where a message and its  *)
(* event are one step; PttProtocol has them apart.)                        *)
announce == state = "PhoneArming" /\ ready
nextState ==
  IF announce THEN {StateAfter("Auto", state, "PhoneReady")}
  ELSE IF state = "PhoneArming" THEN {state, StateAfter("Auto", state, "ArmTimeout")}
  ELSE IF state = "PhoneActive" /\ quiet > LostFrames
       THEN {StateAfter("Auto", state, "PhoneLost")}
  ELSE IF state = "ErrorRecovery" THEN {StateAfter("Auto", state, "Recovered")}
  ELSE {state}

(* One turn.  The phone is also read while the gate closes and re-opens    *)
(* around ErrorRecovery; a fade home is over within the frame.             *)
audioLoop ==
  /\ turn = "loop"
  /\ \E s \in nextState :
       /\ IF wantsPhone(s) \/ s = "ErrorRecovery" \/ state = "ErrorRecovery"
          THEN pop
          ELSE heard' = "none" /\ UNCHANGED <<queue, flight, ahead, intact>>
       /\ state' = IF s = "ReturningToLocal"
                   THEN StateAfter("Auto", s, "FadeComplete") ELSE s
  /\ quiet' = IF quiet > LostFrames THEN quiet ELSE quiet + 1
  /\ turn' = "capture"
  /\ UNCHANGED <<phoneVars, ctl, started, calm>>

-----------------------------------------------------------------------------
Init ==
  /\ pressed = "up" /\ marker = TRUE /\ packing = {} /\ lostMark = FALSE
  /\ ctl = "none"
  /\ ahead = 0 /\ flight = {} /\ started = FALSE /\ queue = {}
  /\ state = "LocalActive" /\ quiet = 0
  /\ turn = "capture" /\ calm = FALSE /\ intact = TRUE /\ heard = "none"

User == press \/ pressed_resetStream \/ release
Network == \/ \E m \in flight : onMedia(m) \/ lose(m)
           \/ onControl \/ loseControl \/ networkDone
Frame == onCaptureFrame \/ packFrame \/ captureNothing \/ Network \/ audioLoop
Next == User \/ Frame \/ calmDown

Spec == Init /\ [][Next]_vars

(* Frames go on, at both ends; users and networks owe nothing.             *)
FairSpec == Spec /\ WF_vars(Frame)
-----------------------------------------------------------------------------
TypeOK ==
  /\ pressed \in {"up", "pressing", "down"}
  /\ marker \in BOOLEAN /\ packing \subseteq Packet /\ lostMark \in BOOLEAN
  /\ ctl \in {"none", "start", "stop"}
  /\ ahead \in Int /\ ahead >= 0
  /\ flight \subseteq Packet /\ queue \subseteq Packet
  /\ started \in BOOLEAN /\ state \in SourceState
  /\ quiet \in 0..LostFrames + 1
  /\ turn \in {"capture", "network", "loop"}
  /\ calm \in BOOLEAN /\ intact \in BOOLEAN
  /\ heard \in {"none", "concealed", "old", "new"}

(* What is queued can still be played: it lies between the play position   *)
(* and the phone, once each, and is no more than the queue may hold, also  *)
(* when packets come late, or a delayed marker moves the position back.    *)
(* (jitter_buffer.cpp, push and pop)                                       *)
QueueIsAhead ==
  /\ Cardinality(queue) <= MaxEntries
  /\ Cardinality(Offs(queue)) = Cardinality(queue)
  /\ Offs(queue) \subseteq 0..ahead - 1

(* The buffer itself loses nothing: as long as no packet of the stream was *)
(* lost, overtaken by the play position or evicted, each one that was sent *)
(* and not played is queued or under way.  A pause in the arrivals costs   *)
(* delay, not audio.  (jitter_buffer.cpp, pop holds nextSeq_ when the      *)
(* queue is empty)                                                         *)
NothingVanishes ==
  intact => 0..ahead - 1 = Offs(queue) \union Offs(flight)

(* A hiccup the queue has room for is absorbed: when the network is calm   *)
(* again and the phone is fewer packets ahead than the queue holds, a live *)
(* phone is heard, although packets before the queued ones are missing.    *)
(* (jitter_buffer.cpp, pop: "the packet is genuinely lost and we skip it") *)
HiccupAbsorbed ==
  []( /\ turn = "capture" /\ flight = {} /\ ahead < MaxEntries
      /\ [](pressed = "down" /\ state = "PhoneActive" /\ calm)
      => <>(heard = "new"))

(* This press's marker was sent, and is on no packet still to arrive.      *)
MarkerIsPast ==
  ~marker /\ ~lostMark /\ \A m \in flight \union packing : ~m.marker

(* Once a press's marker is past, nothing of an earlier press is left to   *)
(* be played, however late its packets or their markers come: provided the *)
(* stream is intact, and the marker was not cleared unsent, as happens to  *)
(* a press that falls into the packing of a frame.                         *)
(* (phone_media_source.cpp, packFrame, and onMediaPayload: a marked packet *)
(* resets the buffer; jitter_buffer.cpp, push)                             *)
MarkerEndsOldStream ==
  pressed = "down" /\ MarkerIsPast /\ intact => \A m \in queue : ~m.old
=============================================================================
