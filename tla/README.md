# SmartMic in TLA+

SmartMic turns a phone into a push-to-talk microphone for a Windows PC. A user
mode service receives the phone's audio, decides frame by frame whether the PC's
own microphone or the phone is heard, and feeds a virtual capture device. This
directory models the parts of that system that decide something, checks them
with TLC and proves the safety results with TLAPS. Paths below are relative
to the repository.

## 1. Inventory

| Component | State it keeps | Operations | Talks to |
|---|---|---|---|
| Source state machine (`windows/audio-service/src/source_state_machine.cpp`) | state, mode | `apply(event)` | used by the router only |
| Audio router (`router.cpp`, `crossfade.cpp`) | state machine, crossfade, gate, event ring, arming and liveness clocks | `startPtt`, `stopPtt`, `setMode`, `notifyPhone*` (network thread, audio loop), `tick` (audio loop) | sources, sink, service |
| Event ring (`ring_buffer.h`) | two atomic indices, slots | `write`, `read` | router; also audio FIFOs |
| Service loop (`apps/service/main.cpp`) | `pttRequested`, `announcedReady`, `lastMediaMs` | session callbacks (network thread), 20 ms loop (audio thread) | router, session, jitter buffer |
| Driver link (`platform/windows/smartmic_driver_link.cpp`) | mapping, counters | `start`, `write`, `beat`, `stop` | shared PCM ring |
| Driver PCM ring (`windows/driver/ring.cpp`) | two 64-bit indices, heartbeat, claim | `Read`, `SetStreamOpen`, `Map/Unmap/Release` | link (shared memory), WaveRT stream |
| WaveRT stream, miniport (`minwavestream.cpp`, `minwave.cpp`) | KS state, timer, buffer, offset and position, events, DPC in progress | `NewStream`, `SetState`, buffer allocation and release, event registration, `OnTimerTick`, destructor | ring, port driver |
| Driver dispatch, PnP (`driver.cpp`, `adapter.cpp`) | global context, control interface, ring claim and client | add, start, remove, surprise removal, create, close, four IOCTLs | ring, miniport, services |
| Pairing and session (`shared/session`, `shared/security`) | session state, exchange, offer book, peer key | `PAIR1`..`PAIR4`, `PAIRERR`, `establish`, sealed sends | transport, service, phone |
| UDP transport (`shared/media/src/udp_transport.cpp`) | socket, first peer address | `send`, `receiveLoop` | session |
| Secure channel, replay window (`secure_channel.cpp`, `replay_window.h`) | sealing counter, window | `seal`, `open`, `accept` | session |
| Jitter buffer, phone source (`jitter_buffer.cpp`, `phone_media_source.cpp`) | packets by sequence number, target, prefill | `push`, `pop`, `ready` | network thread and audio thread |
| Phone runtime (`apps/phone-core/phone_runtime.cpp`) | atomics for button, PTT state, connection | `press`, `release`, `set_mode`, worker, capture callback | session, mobile UI |
| Device registry and enumerator (`device_registry.cpp`, `wasapi_device_enumerator.cpp`) | devices, default, preference, callback | `setDevices`, `resolveEffectiveInput`, hot-plug notifications | Windows, the two programs |
| Audio devices (`wasapi_capture_source.cpp`, `wasapi_render_sink.cpp`, `live_mic_source.cpp` with `apps/phone-core/capture_*.cpp`) | device thread, event, `running_`, `failed_`, sample FIFO | `start`, `stop`, device loop, `read`/`write` of a frame | audio thread, Windows, Android |
| Identity, messages, Opus, resampler, mobile UI | none that matters | conversion, cryptography, display | |

What makes the system hard, and where:

* **Two threads post to a single-producer ring.** The network thread's control
  calls and the audio loop's `notifyPhoneReady` may overlap; one event is then
  lost. Whatever is lost, the mode must still confine the routing and a dead
  phone must still be left.
* **Clocks written by one thread and compared by another.** A liveness frame
  number may be several frames old when it is stored.
* **Gains that move slower than decisions.** State changes in one step, audio
  gains over several frames; sources are read according to the first.
* **A shared-memory ring between a process that may die anywhere and a kernel
  timer that never stops**, with unsigned index arithmetic.
* **A handshake over UDP** with retries that the peer cannot tell from new
  attempts, several handles of one phone, and a socket that answers the first
  peer it heard from.
* **A play position that moves once per frame** while packets come late, twice,
  out of order or not at all, and a full queue that makes room at the same end
  as the position.
* **A button on one machine and a light on another**: five threads and two
  networks between a finger and a gain; every wait must end and the release must
  win, whichever message is lost.
* **A kernel device that may be unplugged** under a process that has its memory
  mapped, and processes that die with the one claim on it.
* **Counters that several threads increment without a lock**, on which the replay
  protection of the receiving end rests, and an `establish()` that a late datagram
  can repeat.
* **Device threads that must be stopped before what they use is freed**, and that
  wait up to two seconds for Windows.
* **Hot-plug**: a device list that is read call by call while it changes, where any
  call may fail, and an own endpoint that is known by its name only.

What makes each component correct is stated by the properties of section 4; the
list `hazards` in `PROJECT.json` gives the line at which each one bites.

## 2. Modules

| Module | Models | Composes |
|---|---|---|
| `SourceStateMachine` | `SourceStateMachine::apply`, `wantsPhone`, `wantsLocal` as operators | |
| `MicSwitch` | abstract: what whoever listens is promised | |
| `AudioRouter` | the router with the two threads that use it | extends `SourceStateMachine`, implements `MicSwitch` |
| `AudioRouter_proofs` | theorems about `AudioRouter` | extends `AudioRouter` |
| `PttProtocol` | push to talk from the finger to the state machine | extends `SourceStateMachine` |
| `JitterBuffer` | the phone's media from the button to the router's read | extends `SourceStateMachine` |
| `JitterBuffer_proofs` | theorems about `JitterBuffer` | extends `JitterBuffer` |
| `DriverRing` | the PCM ring between the driver link and the driver | |
| `DriverRing_proofs` | theorems about `DriverRing` | extends `DriverRing` |
| `WaveStream` | the WaveRT stream against its timer | |
| `RingLease` | abstract: one ring, lent to one process at a time | |
| `DriverDevice` | plug and play, the control channel and the claim on the ring | extends `WaveStream`, implements `RingLease` |
| `DriverDevice_proofs` | theorems about `WaveStream` and `DriverDevice` | extends `DriverDevice` |
| `PairingSession` | pairing between one PC and several phone handles over UDP | |
| `PairingSession_proofs` | theorems about `PairingSession` | extends `PairingSession` |
| `MCPairingSession` | the phones, codes and keys of the instances | extends `PairingSession` |
| `ReplayWindow` | `ReplayWindow::accept` as operators | |
| `SecureChannel` | numbering, sealing and opening in an authenticated session | extends `ReplayWindow` |
| `SecureChannel_proofs` | theorems about `ReplayWindow` and `SecureChannel` | extends `SecureChannel` |
| `AudioFifo` | a device's thread and the audio thread around a `RingBuffer` | |
| `AudioFifo_proofs` | theorems about `AudioFifo` | extends `AudioFifo` |
| `LocalInput` | device registry, hot-plug, and start-up of the two programs | |
| `Service_proofs` | theorems about `LocalInput` and `PttProtocol` | extends both |

### AudioRouter

`state`, `mode` are `sm_`; `fadePos`/`fadeTarget` and `gatePos`/`gateTarget` are
the crossfade and the gate, counted in equal parts of a full fade; `events` is
`events_`; `armAge` and `beatAge` are `frameIndex_ - armStartedFrame_` and
`frameIndex_ - lastHeartbeatFrame_`, saturated one past the timeout they are
compared with. `pc` walks the audio thread through one turn of the service's
loop: `AnnounceReady`/`PostReady` (the PTT_READY check before `tick`), then
`drainEvents` one event at a time, `updateTimers`, `readSources`,
`mixAndWrite`, and the closing `FadeComplete`. `net` is the network thread's
call in progress: `Call` enters a control method and loads the frame counter,
`StoreHeartbeat` stores it, `Post` finishes the ring write.

The event ring is single-producer: a post loads the write index and later stores
slot and index + 1. The overlap of the two producers is modelled by `slot` and
`net.overtaken`: the later store overwrites the other event, moves the index
back over events queued meanwhile, or stores into a slot that was drained.
The branch that drops the oldest of 256 events is not reached, as a frame's
worth of datagrams is far below it.

`failing` is the environment's choice of sources whose `read` returns `Failed`.
`fed` (sources read for the frame being mixed) and `quiet` (frames since anybody
reported the phone alive) are history used by properties only. Samples, the
limiter, statistics and the sink's result are left out: none feeds back.

### MicSwitch

The promise behind the router: the user's mode, a `choice` the program has settled
on, and what is `heard`, which is the choice or something `between` two sources.
`SetMode`, `Talk`, `Fail` and `Recover` say when the choice may change, `Frame`
that what is heard moves toward the choice and to nothing else, `Settles` that it
gets there. `AudioRouter` implements it with `mode` for itself, `choice` read off
`state` (`Choice`) and `heard` read off the gains (`Heard`): threads, events,
timers, arming, returning and fades are steps of the router that the listener
cannot tell apart from nothing happening. The run `router` checks the refinement
(`SwitchesAsPromised`), liveness included.

### DriverRing

Only the distance of the two indices matters, so `lead` is
`writeIndex - readIndex` as a signed number in units of a notification period;
the link's `used + samples > capacity` is computed modulo `Wrap`, which stands
for 2^64. `content[k]` says what the slot of index `readIndex + k` holds. The
service's `write` is four steps another party can come between: the check,
the copy, the publication of the index, the heartbeat. `Crash` may happen
at each. `Tick` is a notification period: it ages the heartbeat, makes writes
fall due and, while a stream runs, performs one `Read`. `NewStream`,
`SetStateRun`, `SetStatePause` and `StreamClosed` are the stream's life cycle.

### PairingSession

`phone[p]` and `derived[p]` are a handle's session state and the share its
exchange consumed; `pc`, `with`, `share` the PC's session, exchange and its own
share; `attempts`, `consumed`, `expired` the offer book; `peerAddr` the address
the PC's socket replies to; `net` the datagrams under way. A session key is the
triple it is derived from (both shares and the code), and a signature covers
exactly that. The cryptography is libsodium's and is taken to be ideal: no
datagram is forged, and a signature verifies iff both ends hold the same key and
transcript. Malformed datagrams and those of another session id only count a
rejection and are left out.

### JitterBuffer

Sequence numbers are kept relative to `nextSeq_`: a packet's `off` is
`seq - nextSeq_`, and `ahead` is that of the next packet the phone will send.
`push`, `pop` and `ready` are the methods of `JitterBuffer`; `onMedia` is
`onMediaPayload` with the marker's `reset`. A frame is one capture (`packFrame`
or `captureNothing`), a network phase in which packets are delivered, lost or
kept for a later frame, and one turn of the service's loop (`audioLoop`: the
PTT_READY check, the router's timers, one `pop` if the router reads the phone).
`sm_phone_press` is two steps, since the capture thread may come between
`pressed` and the marker; `onCaptureFrame` reads the marker and `packFrame`, which
sends the packet, clears it, since a press may come between those (`packing`;
`lostMark` records a press whose marker was cleared unsent). One control message is under way at a time; a newer
one replaces it, which stands for the older one's loss. The router is reduced to
its state machine in Auto, taken from `SourceStateMachine`; its timers are those
of `AudioRouter`. `old` marks packets captured before the current press and,
with `intact` (no packet of the stream was lost, given up or evicted), `heard`
and `calm`, serves the properties only. The adaptive target is left out, as
`pop` advances whenever the queue is not empty, overdue or not.

### PttProtocol

`ui` is the finger with the phone's UI thread (`onPointerDown`, `sm_phone_press`,
`onTouchLost`, `sm_phone_release`: flag first, then clock, state and message),
`net` the phone's network thread between the check of `pressed` and the store of
`LIVE`, `worker` the four steps of `workerMain`'s look at the two timeouts. `age`
and `tAge` are the ticks since the press or release was stored and since the
worker read its `t`; the product subtracts them unsigned, hence `passed`.
`toPc`, `toPhone` and `media` are datagrams under way, numbered by their press so
that two copies differ; no code sees the number. The service's callbacks are
`onStartPtt`, `onStopPtt` and `onMedia`; its loop is `checkReady`, `announce`,
`announced` (between which a callback may come), `tick`. Both ends are
authenticated and the mode is Auto. Datagrams may be lost and overtaken;
`lost` records that a STOP_PTT or PTT_STOPPED was. `LeftOver` is what an earlier
press, number 0, may have left under way. An event for the router is applied when
it is posted, not at the next tick. A touch loss without a touch, on which the
application sends one more STOP_PTT, is left out: the model with it is too large
for liveness.

### WaveStream

One call of the port driver is under way at a time, as PortCls serialises them
per stream; the timer and its DPC run beside it. `timerRunning` is the driver's
flag and `armed` the kernel's timer. A call that stops the timer is two steps:
`StopTimer(c)`, which clears the flag and cancels, and the rest of the call, which
waits for `KeFlushQueuedDpcs` (`flushing`). The DPC is three: `TickEnter` decides
under the lock where to copy to, `TickCopy` copies and moves the position, and
`TickSignal` signals the copied events after the lock is given back. `FreeAudioBuffer`
asks nobody and stops nothing, as in the code; `pulled` records that it was called
under a running timer, which the driver trusts the port driver not to do. `Returning`,
`RingStep` and `LocalStep` group the actions so that `DriverDevice` can say which
of them touch the ring.

### DriverDevice

Rings are numbered as they are made; using a number other than the live one is
using freed memory, which ends the system (`bugcheck`). `pc[p]` walks service `p`
through `start()`, its calls and `closeDevice()`, and each IOCTL through the reads
and writes of `MapForCurrentProcess`, `UnmapForCurrentProcess`,
`ReleaseClaimIfOwner`; `using[p]` is the context the call has read. `Crash` may
come wherever user code runs: Windows then closes the handle, in the dead
process's context, and only afterwards frees its memory. `Remove` waits for
handles and streams as the PnP manager does, `SurpriseRemoval` does not. The
stream is `WaveStream` with every `RingStep` checked against `miniRing`.

### RingLease

The promise behind the claim: a ring is `live` or not, and has `users`. `Make` and
`Withdraw` follow plug and play; `Lend` needs a ring nobody uses, and only its user
can `Return` it. `DriverDevice` implements it with the processes that are alive and
have the live ring mapped for `users` (`Producers`): claims, IOCTLs in progress,
handles, failures and the rest of a crash are invisible there. The run `driver`
checks the refinement (`LendsOneAtATime`).

### ReplayWindow and SecureChannel

`ReplayWindow` is the class's arithmetic, the bit set as the set of its one bits.
`SecureChannel` is one direction of a session (`dir` says which): `sendControl`
takes a message number by a load and a store (`sendControl`, `nextSeq`), both
kinds take a counter in the same way (`sealLoad`, `sealStore`), and `onDatagram`
passes what opens through one window and a control message through the second.
Datagrams stay on the `wire`, so that each is lost, delayed or repeated at will.
`onPair3` and `onPair4` are `establish()` run once more by a late copy, which the
handlers accept. `got`, `gotSeq`, `handed`, `reopened` and `wronged` are history; `handed`
outlives `establish()`, and `reopened` holds the handed messages that have not been
handed again since the windows were last emptied. Encryption
is ideal: only what was sealed opens.

### AudioFifo

The same `RingBuffer<float>` lies between a WASAPI microphone and the audio thread
(`side` = "capture"), the phone's live microphone and the audio thread ("mic"),
and the audio thread and a WASAPI speaker ("render"). `prod` and `cons` are a
`write` and a `read` in progress, one step per load, store and copied sample,
including the branch that drops the oldest samples by moving the consumer's index;
a sample is the index it is written at. `dev` is the device's thread: top of the
loop, waiting, busy, exited; `main` the audio thread's start, use, `stop()` and
`join`. For "mic" the thread is the platform's callback, which cuts packets of any
size into frames (`pending`).

### LocalInput

`devices`, `marked`, `defaultKnown`, `preferred`, `autoPrefer` are the registry's;
`resolveEffectiveInput` is its three guards in order, `first` the order in which
Windows lists devices. The code knows its own endpoint by its name, so `marked`, the
devices it holds for its own, is not `Own`, those that are: a device in `Named` is
marked if its name could be read, and a device in `Own` need not be in `Named`.
`misjudged` records an enumeration that took one of `Own` for another device. (An id
that contains "smartmic" marks a device as well; Windows' ids are GUIDs.)

`Change` is Windows; a notification is `fire`, then on its thread `enumerate` (the
list), `askDefault`, and `rememberAll` (the devices one by one, their names, and all of
it into the registry); the main thread's first list takes the same steps. Each call may
fail: the list is then empty, the default unknown, a device skipped, a name empty.
`whole` says that nothing has failed yet, `faulty` that the registry holds the outcome
of an enumeration in which something did. `phase` walks either program (`app`) through
its start: the list, the choice of input, the choice of output (`option` is `--sink`),
opening both. The setters of the registry may come at any time, though today only
`--in` calls one. The enumerator only says *that* something changed; it is `runLive`'s
callback that enumerates again inside the notification. Whether the registration with
Windows succeeded the code does not ask, so `listening` may lack it.

## 3. Bounds and why they are enough

* `AudioRouter`: timeouts of one frame (75 and 30 in the product) show before, at
  and past the limit; `FadeLen`/`FrameLen` of 3/2 gives a fade longer than a frame,
  the harder case (15 ms against 20 ms in the product: a fade shorter than a
  frame, which skips the intermediate values). One control message is posted per
  frame (`MaxPosts`, counted from one mix to the next); since a message posted
  after the drain waits for the next one, a release and a press may still be
  drained together. All modes, both sources failing. The theorems hold for all
  values.
* `PttProtocol`: one press, after an earlier one that may have left its START_PTT or
  the answer to either message in the network (`LeftOver`); timeouts of zero
  ticks and frames, which end at the first one, and a worker late by one tick,
  so that its clock may be read before the press it is compared with. This has
  every race between a press, its release, the two timeouts, their answers and
  those of the press before. Longer timeouts add delay and no new order; two
  complete presses are 3.3 million states, too many for liveness.
* `JitterBuffer`: a queue of three packets (14 in the product) and a watchdog longer
  than the queue (30 frames in the product), so that the queue can overflow and
  run dry while the phone is live. One packet at a time is late (`MaxFlight`,
  `MaxLate`): enough to overtake, to miss its slot and to carry the marker late.
  `MaxAhead` caps how far the phone is counted ahead.
* `DriverRing`: a ring of four periods, writes of two, a timeout longer than the
  ring (8192 frames, 960, 250 ms in the product). `MaxLag` = 2 lets the service
  be more than one write late, where the reader first runs ahead by more than a
  write. `MaxGap` caps how far a runaway reader is counted; past two writes
  nothing depends on how far it is.
* `WaveStream`: sizes of nothing, of a ragged three bytes and of four frames; zero,
  one and two notifications: all outcomes of the rounding. Two events for one
  slot reach the limit. `FrameWrap` stands for the 64-bit frame count and is a
  multiple of every buffer, as 2^64 need not be: the product would have to run
  for millions of years to tell.
* `DriverDevice`: two services (the claim is contested, lost and given back while the
  other tries) and two devices one after the other (a stale context, miniport or
mapping differs from the live one). A service opens one handle, as
  `SmartMicDriverLink` does; a second one of the same process, whose closing would give
  the claim back, is not there. The buffer is one period: its arithmetic is
  `WaveStream`'s run. There are no events, for the same reason.
* `PairingSession`: two handles of one device and one of another, the last with
  a wrong code: every branch of `PAIR1` (refused, repeated, replaced) and both
  outcomes of `PAIR3` occur. Two attempts instead of five. `MaxExchanges` caps
  the PC's shares. These runs turn deadlock checking off: once all handles have
  finished, nothing needs to happen any more.
* `SecureChannel`: windows of two (in the product 1024 for datagrams,
  `secure_channel.h:49`, and 512 for control messages, `peer_session.h:107`) and four messages, so
  numbers leave both windows; two threads share the counters; two late
  establishments. The channel may go quiet: deadlock checking is off.
* `AudioFifo`: a ring of four samples, frames of two, packets of up to three: packets
  that fit, that overrun by one and by several, and indices that wrap (eleven
  samples go round more than twice). `MaxItems` ends the run, so deadlock checking
  is off.
* `LocalInput`: three devices, one of them SmartMic's own and named so, and two changes:
  one to start an enumeration and one to fall into it. The devices there are at the
  start are any, so the own endpoint may be last, default or alone. A program that has left
  stops: deadlock checking is off.

## 4. Runs

| Run | Property | What it shows |
|---|---|---|
| `router` | `ModeConfinesState` | outside Auto only the mode's own state or ErrorRecovery, with lost and reordered events |
| | `MixFollowsState` | gate and crossfade targets follow the state although they are set only on a change |
| | `ModeHonouredInGains` | the applied gains: the gate never opens under Mute, the phone's gain never grows under LocalOnly |
| | `FadesAreFed` | on the air, on the way back and under mute, what is still audible has been read |
| | `WatchdogBound` | no frame in PHONE_ACTIVE after the liveness timeout, with stale stores |
| | `ArmingEnds`, `FailsBack` | arming ends even if START_PTT repeats; a dead phone is always left |
| | `SwitchesAsPromised` | the router implements `MicSwitch` |
| `ptt` | `AnswerSettles` | the last release, once answered, leaves the microphone off and the button on READY or FAILED, whatever late answers and the worker do |
| | `TouchDecides` | media and CONNECTING only while the finger is on the button, RELEASING only while it is not |
| | `WaitsEnd` | neither CONNECTING nor RELEASING lasts, whatever is lost |
| | `PcLetsGo` | finger up for good: the PC is back on its own microphone, STOP_PTT lost or not |
| | `FingerUpEnds` | ... and the phone does not stay LIVE, unless STOP_PTT or its answer is lost |
| `jitter_buffer` | `QueueIsAhead` | what is queued can still be played, once each, whatever arrives late or out of order |
| | `NothingVanishes` | the buffer itself loses nothing: a pause costs delay, not audio |
| | `MarkerEndsOldStream` | once the marker of a press was sent and is not under way, nothing of an earlier press is left to play; the press whose marker was cleared unsent is the exception |
| | `HiccupAbsorbed` | after a hiccup the queue has room for, a live phone is heard again |
| `ring_safety` | `TypeOK`, `PublishedIsIntact` | what lies between the indices was published for exactly those indices |
| | `NoReplayAfterOutage` | a running stream never replays audio from before an outage |
| `ring_restart` | `SilenceEnds` | violated: a restarted service may stay inaudible for ever, its writes dropped into an empty ring |
| `wave_stream` | `CopyStaysInBuffer` | the DPC never copies past the buffer's end, nor into a freed buffer unless it was freed under a running timer |
| | `PositionIsOffset` | the position reported is the offset written, after any pauses, stops and reallocations |
| | `RunningWakesClient` | a running stream keeps signalling; no call deadlocks with the DPC |
| `driver` | `SingleProducer` | two services never have the live ring mapped together |
| | `ClaimHasOwner`, `DeadGivesBack` | the claim is never left behind, by a failure or by a crash |
| | `OrderlyRemovalIsSafe` | before any surprise removal nobody uses a ring that is gone |
| | `LendsOneAtATime` | the driver implements `RingLease` |
| `pairing_keys` | `SameKey` | whoever is authenticated shares one key derived from the right code |
| `pairing_failure` | `FailureMeansCode` | violated: a delayed PAIR2 plus a retry fails a phone with the right code |
| `channel` | `WindowsAreExact` | each window answers as if it remembered all it has accepted |
| | `AgainMeansReopened` | a message is handed over again only if `establish()` has emptied the windows since, and once for each time |
| | `RefusedMeansShared` | a new message in time is refused only because two messages were given one number |
| `fifo` | `InOrderUntilOverrun` | every sample once, in order, until the first overrun |
| | `HarmIsRepaired` | an overrun under a read's feet is repaired by the next undisturbed write |
| | `NoUseAfterStop`, `StopReturns` | `stop()` returns, and only when the device's thread is done |
| `input` | `OwnOnlyIfMisjudged` | the own endpoint is taken only if an enumeration could not tell it by its name; a usable one is taken whenever one is known |
| | `RunsAsAsked` | only `--sink auto` may fall back to a file |
| | `InventoryIsCurrent` | once devices settle, the registry knows them, unless one came before the program listened or a call of the last enumeration failed |

A violated property quotes a comment, test or document of the repository;
`findings` in `PROJECT.json` gives the line.

### Where the code does less than its comments and documents say

The models show these too. The properties of the passing runs state what is left, with
the exception named in the property itself.

* *A message can be accepted twice.* `replay_window.h:4-7` and T5 of
  `docs/security/threat-model.md:33` say it never is, and `peer_session.cpp:254` that the
  window stops an authenticated peer's own old messages. A copy of PAIR3
  (`peer_session.cpp:181-200`) or PAIR4 (`:202-213`) runs `establish()` once more, which
  empties both windows under the same key: an old START_PTT that comes after it is
  handed over again. `AgainMeansReopened` says that there is no other way.
* *Nothing stands behind the name of the own endpoint.* `wasapi_common.cpp:98-99` calls a
  missed name "not fatal" because of "the router's own refusal to capture its sink";
  `docs/architecture/01-components.md:61-63`, `12-risks.md:16` and acceptance test A12
  rely on it as well. `AudioRouter::setLocalSource` (`router.cpp:28`) refuses nothing, and
  the name is empty whenever the property store cannot be read
  (`wasapi_device_enumerator.cpp:119-127`). `OwnOnlyIfMisjudged` says when the endpoint
  is taken.
* *The default does select a source.* `wasapi_device_enumerator.cpp:94-95` says that
  "nothing in the routing path" does, and `wasapi_device_enumerator.h:14-18` the same at
  length. `resolveEffectiveInput` takes the default whenever the preferred device is
  missing, if it is not marked as SmartMic's.
* *The inventory may stay wrong.* `app/main.cpp:168-170` keeps it "current". An enumeration
  in which a call failed (`wasapi_device_enumerator.cpp:92`, `:98`, `:110`) replaces the
  inventory by an empty or partial one, and nothing tries again before the next change;
  `RegisterEndpointNotificationCallback` (`:69`) may fail unnoticed. A device that was
  skipped once counts as newly arrived the next time, and auto-prefer may choose it.

### Behaviours worth knowing that no run asserts

The models show them; no promise of the repository in so many words is broken.

* A press while the capture thread is between reading the marker and clearing it
  (`phone_media_source.cpp:103`, `:108`) loses its marker: the PC goes on with the old
  stream's numbers, and what was left of the old press is played before the new one.
* A stream that has gone silent because its reader is more than a write ahead stays
  silent without any outage as well: one late write of a service that is alive is enough,
  and every write after it is dropped until the stream is opened again.
* `FreeAudioBuffer` does not stop the timer. Called under a running one it would free the
  buffer a DPC is about to write to; the driver relies on the port driver's order.
* Changing the mode, or pressing again during a return, stops the reading of a
  source that is still audible: it is zero-filled while the crossfade moves.
  `FadesAreFed` is therefore stated of the phone on the air, the return to
  the local microphone, and mute.
* In PhoneOnly a local microphone that has failed for good is read whenever the
  gate re-opens, although the mode does not use it, and sends the router back to
  ErrorRecovery, again and again.
* A PAIR1 that arrives after the session is established makes the PC leave
  Authenticated; one lost PAIR4 does the same through the phone's retry.
* `PTT_READY` may be announced on packets the previous press has left in the queue,
  and the phone goes LIVE on the `PTT_READY` of an earlier press.
* After an outage longer than the queue the jitter buffer may conceal for ever
  while packets arrive: every push evicts the packet that would be played next.
  `HiccupAbsorbed` draws the line at what the queue has room for.
* A device that is plugged in between `runLive`'s first enumeration and its
  registration is not noticed until the next change.
* A surprise removal frees the ring under the calls, the stream and the mappings
  that still use it.
* A capture device that stalls for two seconds has failed until the program is
  restarted.

## 5. Fairness

* `AudioRouter!FairSpec`: weak fairness of the audio thread, which is paced by
  the clock (`sleep_until`) and waits for nobody, and of a control call that was
  entered, which contains no loop and no lock. Nothing is assumed of the phone or
  of the sources. `FailsBack` additionally supposes that sources stop failing.
* `PttProtocol`: the phone's UI, network and worker threads finish what they have
  begun and its clock advances; the service's loop runs; a datagram that is not
  lost arrives, since there are finitely many. Nothing obliges anybody to touch
  the button, to lift the finger, to capture, or a network to lose nothing.
* `JitterBuffer!FairSpec`: frames go on at both ends, which are paced by their
  clocks. The network owes nothing; the liveness properties suppose that it is
  calm from some time on, i.e. delivers each packet within its frame.
* `DriverRing!FairSpec`: time passes (the kernel timer), and a service that is
  up performs the writes it owes. It may still crash at any time.
* `WaveStream!StreamSpec`: an armed timer expires, a queued DPC runs, and a call
  returns once it need not wait. The port driver need not call.
* `DriverDevice!Spec`: a call that has entered the driver is executed. Services need
  not call, stop or survive; nothing is assumed of plug and play.
* `AudioFifo`: both threads run, a wait ends after two seconds at the latest, and
  `join` returns when the thread has exited. Devices need not deliver.
* `LocalInput`: the program goes on with its start, and Windows delivers the
  notifications it has queued.
* `PairingSession` and `SecureChannel` need none: only safety is stated of them.

## 6. Proofs

`AudioRouter_proofs` proves, for every timeout, fade length, set of modes and
set of failing sources, `TypeOK`, `ModeConfinesState`, `MixFollowsState`,
`WatchdogBound` and `ModeHonouredInGains`. The inductive invariant `Inv` adds
what these leave open: in LocalOnly and Mute the crossfade heads home even
behind the closed gate of ErrorRecovery (`HomeInv`, without which leaving
ErrorRecovery would show an old target); the network thread posts only events
and stores liveness only for the calls that do (`NetInv`); nothing is drained
while PhoneReady is posted, so its slot lies within the queue (`SlotInv`); and a
stored heartbeat is at least as old as the last report (`AgeInv`), which is what
ties the watchdog, comparing `beatAge`, to real silence, `quiet`.
`ApplyStaysInRegion` and `ApplyEventInv` carry the argument for all actions that
apply an event. `ModeHonouredInGains` follows from `Inv` as gains move in
`mixAndWrite` only, and `FadesAreFed` as `readSources` reads what the gains of the
frame make audible. `RouterImplementsSwitch` is the safety half of the refinement:
`ChoiceFollowsState`, `EventIsPromised`, `MoveApproaches` and `FrameIsPromised` map
an event, a gain's move and a frame to the promise's actions, `StepIsPromised`
every step to one of them or to a stutter. Of `ArmingEnds` the safety half is proved:
no frame is mixed in PHONE_ARMING past the timeout (`ArmingSafety`), and its clock
counts every frame and is turned back by no event (`ArmingIsCounted`), so a phone
that repeats START_PTT cannot put it off; that frames go on is fairness.

`DriverRing_proofs` proves `TypeOK` (in particular that `writeIndex` never runs
more than one ring ahead, so the lapped branch of `Read` is dead code) and
`PublishedIsIntact`, for every ring, write size and timeout. The strengthening
is `RoomWhileCopying`: the room the link saw is still there when it publishes,
whatever the reader did meanwhile, because `Read` and `SetStreamOpen` only ever
make room. `NotFullMeansRoom` shows that the unsigned comparison errs on the
safe side only. `NoReplayAfterOutage` rests on `DrainInv`: while a stream runs, what
is left in the ring and the age of the heartbeat together fit the ring, so the
ring is empty before a heartbeat is stale; the exceptions are the moments between
a write's index and its heartbeat. `NoWayBack` says
what is behind the violated `SilenceEnds`, for all sizes: the unsigned comparison takes
a ring for full exactly if a write does not fit or the reader is more than a write
ahead (`FullIsFullOrOvertaken`), and from the latter only the opening of a stream leads
back, whatever the service does.

`PairingSession_proofs` proves `TypeOK` and `SameKey` for any number of phones,
codes and exchanges, with or without duplication. The strengthening says what
datagrams under way mean: a PAIR3 carries the key of a phone that has derived it
(`Pair3Inv`), a PAIR4 a key the PC has established (`Pair4Inv`), every
established key was derived by its phone from the right code (`KeysInv`), and an
authenticated PC has consumed its offer, so no exchange replaces the one
it authenticated (`PcInv`).

`DriverDevice_proofs` proves of the stream `CopyStaysInBuffer` and `PositionIsOffset`,
for every size, count and order of the calls, and of the driver `TypeOK`,
`SingleProducer`, `ClaimHasOwner` and `OrderlyRemovalIsSafe`, for any number of
services, with one handle each, and devices. The stream's invariant says that a buffer is whole periods
of whole frames with the writer at the start of one (`BufferInv`), that the
position is rounds of the buffer ahead of the writer (`PositionInv`), and that a
timer or a DPC is at work only where a buffer cannot go away (`TimerInv`,
`DpcInv`); the arithmetic is `RoundedIsWhole`, `NextPeriod` and `WrapKeepsOffset`.
That the count of frames wraps at a multiple of the buffer is the model's
assumption `WrapAssumption`, see section 3. The driver's says who may hold the
claim: on a live ring one call in the driver or the client, and nobody alive has
the ring mapped but the client (`OwnerInv`); where a ring lives (`PlugInv`), that
a call works on the last one made (`PlaceInv`), and what is true once it is gone
(`GoneInv`, `MappedInv`). On these rests the refinement, `DriverLendsOneAtATime`: plug
and play makes and withdraws (`PlugIsPromised`), a successful mapping lends to the
only user there can be (`MappingIsPromised`), unmapping and death return
(`ProcessIsPromised`), and every other step leaves ring and users alone. `RingLease`
states no fairness, so this is the whole refinement.

`SecureChannel_proofs` first proves that `accept` answers and remembers what the set
of accepted numbers says (`AcceptsIsExact`, `AcceptRepresents`), for any width, and
from it `WindowsAreExact`, `AgainMeansReopened` and `RefusedMeansShared` for any windows,
threads and messages. `IdInv` (a message becomes one datagram) and `ReceiptInv`
(an accepted counter belongs to a datagram that was handed over, refused by the
second window or late) tie the numbers to the messages. `ChannelTypeSafety` bounds
every number by the messages sent (the code never checks for a wrap): unlocked increments can only lose counts, and each message is one
datagram, so that there are fewer on the wire than were sent while one is still
being sealed (`CountInv`, `WireFits`).

`JitterBuffer_proofs` proves `TypeOK`, `QueueIsAhead`, `NothingVanishes` and
`MarkerEndsOldStream` for any queue, delay and reordering. No two packets have one
offset and none is ahead of the phone (`PacketInv`), old packets come before
new ones (`OrderInv`), and once a press's marker has left the phone and is not
under way, it has a place that no packet takes, that every old packet is before
and that the play position has reached if the stream is intact (`MarkInv`).
`ShiftIs`, `AgedIs`, `EvictedFits` and `PushFits` say what the operators on sets
of packets return. `BacklogSafety` is the safety half of `HiccupAbsorbed`: while the
phone is live and the network calm, a backlog that fits the queue (`Room`) goes on
fitting it, nothing queued is evicted, and each frame plays a packet or brings all of
them one nearer. The packet under way is always the newest and alone, so the queue
lies below it and has a place left (`QueueWithin`, `OneUnderWay`).

`AudioFifo_proofs` proves `FifoTypeOK`, `InOrderUntilOverrun`, `HarmIsRepaired` and
`NoUseAfterStop` for any capacity, frame and packet length. The ring always
holds the last `Capacity` samples written, whatever happened to the indices
(`ContentsInv`; different places by `SlotsDiffer`). Unless a drop came in between,
there is room for what is being written (`RoomInv`), and a write that no read
overlaps has made room in any case (`AloneInv`), which is the repair. `DeliverySafety`
says the same of every single sample: one that is not what was written at its index
is delivered only while such a drop is unrepaired.

`Service_proofs` proves, for any devices and names, `TypeOK`, `OwnOnlyIfMisjudged` and
`RunsAsAsked` of `LocalInput`: `first` finds one if there is one (`FirstIsOneOf`),
`resolveEffectiveInput` returns only usable ones (`ResolvesToUsable`), a new list changes
the preference to one usable in it or not at all (`SetDevicesStep`), and what was
chosen stays so (`ChosenInv`). `InventorySafety` is the safety half of
`InventoryIsCurrent`: what the registry does not know yet is still to be told, or the
list and the default were taken with no change since (`ToldInv`), so a program with
nothing left to handle knows what there is unless a call failed. Of `PttProtocol` it proves the type invariant,
`AnswerSettles` and `TouchDecides`, for any timeouts, lag and number of presses. The
first needs to know whose answers are under way: a STOP_PTT and its PTT_STOPPED are of
a press that has ended (`StopInv`), so none of the last press is answered before its
release. After that the worker stores nothing but FAILED and READY, and the network
thread turns the button LIVE only for a press it has seen (`WorkerSafe`,
`ControlSafe`).

Every invariant and every action property of a passing run is thus a theorem, and so
is the refinement of `RingLease`. Left to TLC: everything under fairness
(`ArmingEnds`, `FailsBack`, `WaitsEnd`, `PcLetsGo`, `FingerUpEnds`,
`HiccupAbsorbed`, `SilenceEnds`, `RunningWakesClient`, `DeadGivesBack`,
`StopReturns`, `InventoryIsCurrent`, and the liveness half of
`SwitchesAsPromised`), which is out of the prover's reach.

## 7. Not modelled

Opus, resampling, limiter and PCM conversion (signal processing), JSON and
base64 (formats), libsodium and the identity's key file (assumed ideal), the
socket calls, the topology filter's tables and property handlers (constants), the
WASAPI and AAudio objects themselves, the mobile user interface beyond its button,
printing and options of the programs, the scripted demo and the phone simulator,
the installer. `components` in `PROJECT.json` lists them one by one.

Abstracted inside the modelled parts: sample values, statistics counters, logging
and error texts; the adaptive target of the jitter buffer, which decides
nothing; the 32-bit wrap of media sequence numbers (2.7 years of talking); the
binary layout of datagrams.

## 8. Plan

Done of the earlier plan: the safety of `PttProtocol`, the safety halves of
`ArmingEnds`, `HiccupAbsorbed` and `InventoryIsCurrent`, and the reason why
`SilenceEnds` fails. What is left:

1. The safety half of `PcLetsGo`: that nothing but media, START_PTT and PTT_READY puts
   off the end of a talk.
2. An abstract promise for the device's FIFO and the jitter buffer (a lossy queue in
   order), with both shown to implement it.
3. A second handle of one process in `DriverDevice`, and a second release of one press
   in `PttProtocol`, within the reach of liveness checking.
4. The rest of the service's loop and of the demo's, which only print and count today.
