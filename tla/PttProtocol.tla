----------------------------- MODULE PttProtocol -----------------------------
(***************************************************************************)
(* Push to talk from the finger to the router: the phone's UI thread,      *)
(* network thread, worker and capture (phone_runtime.cpp, under the app's  *)
(* button and engine), the network, and the service's network thread and   *)
(* audio loop (apps/service/main.cpp), which drive the source state        *)
(* machine in mode Auto.  Both ends are authenticated.                     *)
(*                                                                         *)
(* Datagrams may be lost, delayed and reordered; the replay windows let    *)
(* each one in once and do not mind the order.  Messages are numbered by   *)
(* the press they belong to only to tell copies in flight apart: no code   *)
(* sees the number.  The phone counts time in ticks of its own clock, the  *)
(* service in frames.                                                      *)
(***************************************************************************)
EXTENDS Integers, SourceStateMachine

CONSTANTS
  ArmTimeout, ReleaseTimeout,  \* kArmTimeoutMs, kReleaseTimeoutMs, in ticks
  ArmFrames, LostFrames,       \* armTimeoutMs, phoneLostTimeoutMs, in frames
  WorkerLag,    \* bound: ticks one pass of the worker may take
  MaxPresses    \* bound: presses

ASSUME PttAssumption ==
  /\ ArmTimeout \in Nat /\ ReleaseTimeout \in Nat
  /\ ArmFrames \in Nat /\ LostFrames \in Nat
  /\ WorkerLag \in Nat /\ MaxPresses \in Nat \ {0}

VARIABLES
  ui,        \* finger and UI thread: "up", "pressing", "down", "lifting"
  presses,   \* touches so far
  pressed, pttState,       \* of sm_phone
  age,       \* ticks since pressedAtMs or releasedAtMs, whichever was stored last
  worker,    \* where the worker's pass is
  tAge,      \* ticks since it read its t; 0 between passes
  net,       \* the network thread: "idle", or "ready" past the check of pressed
  toPc, toPhone,           \* control datagrams in flight
  media,     \* media in flight
  lost,      \* history: a STOP_PTT or PTT_STOPPED was lost
  state,     \* of the router's state machine
  armAge, silence,         \* frames since arming began, in PHONE_ACTIVE since
                           \* liveness
  buffered,  \* phoneSource->ready()
  pttRequested, announcedReady,
  last,      \* history: the latest press whose START_PTT was taken
  loop       \* where the audio loop's pass is

phoneVars  == <<ui, presses, pressed, pttState, age, worker, tAge, net>>
netVars    == <<toPc, toPhone, media, lost>>
routerVars == <<state, armAge, silence, buffered>>
pcVars     == <<routerVars, pttRequested, announcedReady, last, loop>>
pttVars    == <<phoneVars, netVars, pcVars>>

PttState == {"READY", "CONNECTING", "LIVE", "RELEASING", "FAILED"}
Press    == 0..MaxPresses   \* 0 is one before the first that is modelled
Msg(t)   == [type : {t}, press : Press]
msg(t, n) == [type |-> t, press |-> n]

AgeCap     == (IF ArmTimeout > ReleaseTimeout THEN ArmTimeout ELSE ReleaseTimeout)
              + WorkerLag + 1
later(a, cap) == IF a < cap THEN a + 1 ELSE cap
-----------------------------------------------------------------------------
(* The phone's UI thread, behind the button's raw pointer events.          *)

(* sm_phone_press: the flag is set first ...                               *)
onPointerDown ==
  /\ ui = "up" /\ presses < MaxPresses
  /\ ui' = "pressing" /\ presses' = presses + 1
  /\ pressed' = TRUE
  /\ UNCHANGED <<pttState, age, worker, tAge, net, netVars, pcVars>>

(* ... then clock and state, and START_PTT is sent.                        *)
sm_phone_press ==
  /\ ui = "pressing" /\ ui' = "down"
  /\ age' = 0 /\ pttState' = "CONNECTING"
  /\ toPc' = toPc \union {msg("START", presses)}
  /\ UNCHANGED <<presses, pressed, worker, tAge, net, toPhone, media,
                 lost, pcVars>>

(* Finger up, pointer cancelled, app in the background, or disconnect():   *)
(* every touch-loss path is sm_phone_release.  A touch loss without a      *)
(* touch, which releases once more, is left out.                           *)
onTouchLost ==
  /\ ui = "down" /\ ui' = "lifting"
  /\ pressed' = FALSE
  /\ UNCHANGED <<presses, pttState, age, worker, tAge, net, netVars,
                 pcVars>>

sm_phone_release_OnlyLive ==
  /\ ui = "lifting" /\ ui' = "up"
  /\ age' = 0
  /\ pttState' = IF pttState = "LIVE" THEN "RELEASING" ELSE pttState
  /\ toPc' = toPc \union {msg("STOP", presses)}
  /\ UNCHANGED <<presses, pressed, worker, tAge, net, toPhone, media, lost,
                 pcVars>>
sm_phone_release ==
  /\ ui = "lifting" /\ ui' = "up"
  /\ age' = 0
  /\ pttState' = IF pttState # "READY" THEN "RELEASING" ELSE pttState
  /\ toPc' = toPc \union {msg("STOP", presses)}
  /\ UNCHANGED <<presses, pressed, worker, tAge, net, toPhone, media, lost,
                 pcVars>>
-----------------------------------------------------------------------------
(* The phone's network thread: onControl.                                  *)
onPttReady ==
  /\ net = "idle"
  /\ \E m \in toPhone \intersect Msg("READY") : toPhone' = toPhone \ {m}
  /\ net' = IF pressed THEN "ready" ELSE "idle"
  /\ UNCHANGED <<ui, presses, pressed, pttState, age, worker, tAge,
                 toPc, media, lost, pcVars>>

goLive ==
  /\ net = "ready" /\ net' = "idle"
  /\ pttState' = "LIVE"
  /\ UNCHANGED <<ui, presses, pressed, age, worker, tAge, netVars,
                 pcVars>>

onPttStopped_OnlyReleasing ==
  /\ net = "idle"
  /\ \E m \in toPhone \intersect Msg("STOPPED") : toPhone' = toPhone \ {m}
  /\ pttState' = IF pttState = "RELEASING" THEN "READY" ELSE pttState
  /\ UNCHANGED <<ui, presses, pressed, age, worker, tAge, net, toPc,
                 media, lost, pcVars>>
onPttStopped ==
  /\ net = "idle"
  /\ \E m \in toPhone \intersect Msg("STOPPED") : toPhone' = toPhone \ {m}
  /\ pttState' = "READY"
  /\ UNCHANGED <<ui, presses, pressed, age, worker, tAge, net, toPc,
                 media, lost, pcVars>>
-----------------------------------------------------------------------------
(* The worker: reads the clock, then looks at the two timeouts.  The age   *)
(* is an unsigned difference: what happened after t was read is ages ago.  *)
passed(limit) == age - tAge > limit \/ age < tAge

workerPass ==
  /\ worker = "top" /\ worker' = "arm"
  /\ UNCHANGED <<ui, presses, pressed, pttState, age, tAge, net, netVars,
                 pcVars>>

checkArm ==
  /\ worker = "arm"
  /\ worker' = IF pttState = "CONNECTING" /\ passed(ArmTimeout)
               THEN "fail" ELSE "release"
  /\ UNCHANGED <<ui, presses, pressed, pttState, age, tAge, net,
                 netVars, pcVars>>

fail ==
  /\ worker = "fail" /\ worker' = "drop"
  /\ pttState' = "FAILED"
  /\ UNCHANGED <<ui, presses, pressed, age, tAge, net, netVars, pcVars>>

dropPress ==
  /\ worker = "drop" /\ worker' = "release"
  /\ pressed' = FALSE
  /\ UNCHANGED <<ui, presses, pttState, age, tAge, net, netVars, pcVars>>

checkRelease_Never ==
  /\ worker = "release" /\ worker' = "top" /\ tAge' = 0
  /\ UNCHANGED <<ui, presses, pressed, pttState, age, net, netVars, pcVars>>
checkRelease ==
  /\ worker = "release"
  /\ IF pttState = "RELEASING" /\ passed(ReleaseTimeout)
     THEN worker' = "unpin" /\ UNCHANGED tAge
     ELSE worker' = "top" /\ tAge' = 0
  /\ UNCHANGED <<ui, presses, pressed, pttState, age, net, netVars, pcVars>>

unpin ==
  /\ worker = "unpin" /\ worker' = "top" /\ tAge' = 0
  /\ pttState' = "READY"
  /\ UNCHANGED <<ui, presses, pressed, age, net, netVars, pcVars>>

Tick ==
  /\ worker = "top" \/ tAge < WorkerLag
  /\ tAge' = IF worker = "top" THEN tAge ELSE tAge + 1
  /\ age' = IF pttState \in {"CONNECTING", "RELEASING"} THEN later(age, AgeCap) ELSE age
  /\ UNCHANGED <<ui, presses, pressed, pttState, worker, net, netVars, pcVars>>

(* onCaptureFrame: media is sent while the flag is set.                    *)
onCaptureFrame ==
  /\ pressed /\ ~media
  /\ media' = TRUE
  /\ UNCHANGED <<phoneVars, toPc, toPhone, lost, pcVars>>
-----------------------------------------------------------------------------
(* The network.                                                            *)
Lose ==
  /\ \/ media /\ media' = FALSE /\ UNCHANGED <<toPc, toPhone, lost>>
     \/ \E m \in toPc : toPc' = toPc \ {m} /\ lost' = (lost \/ m.type = "STOP")
                        /\ UNCHANGED <<toPhone, media>>
     \/ \E m \in toPhone : toPhone' = toPhone \ {m} /\ lost' = (lost \/ m.type = "STOPPED")
                           /\ UNCHANGED <<toPc, media>>
  /\ UNCHANGED <<phoneVars, pcVars>>
-----------------------------------------------------------------------------
(* The service's network thread.                                           *)
apply(e) ==
  /\ state' = StateAfter("Auto", state, e)
  /\ armAge' = IF state' = "PhoneArming" /\ state # state' THEN 0 ELSE armAge

onMedia ==
  /\ media /\ media' = FALSE
  /\ silence' = 0 /\ buffered' = TRUE
  /\ UNCHANGED <<phoneVars, toPc, toPhone, lost, state, armAge, pttRequested,
                 announcedReady, last, loop>>

(* The router's event is posted, and applied by the loop's next tick before*)
(* anything else; here at once, so that checkReady may find the phone      *)
(* arming a frame sooner.                                                  *)
onStartPtt ==
  /\ \E m \in toPc \intersect Msg("START") :
       toPc' = toPc \ {m} /\ last' = m.press
  /\ pttRequested' = TRUE /\ announcedReady' = FALSE
  /\ apply("StartPtt") /\ silence' = 0
  /\ UNCHANGED <<phoneVars, toPhone, media, lost, buffered, loop>>

onStopPtt ==
  /\ \E m \in toPc \intersect Msg("STOP") :
       toPc' = toPc \ {m} /\ toPhone' = toPhone \union {msg("STOPPED", m.press)}
  /\ pttRequested' = FALSE
  /\ apply("StopPtt")
  /\ UNCHANGED <<phoneVars, media, lost, silence, buffered, announcedReady, last, loop>>
-----------------------------------------------------------------------------
(* The audio loop: announce PTT_READY when phone audio is there ...        *)
checkReady ==
  /\ loop = "check"
  /\ loop' = IF pttRequested /\ ~announcedReady /\ state = "PhoneArming" /\ buffered
             THEN "announce" ELSE "tick"
  /\ UNCHANGED <<phoneVars, netVars, routerVars, pttRequested, announcedReady, last>>

announce ==
  /\ loop = "announce" /\ loop' = "announced"
  /\ apply("PhoneReady") /\ silence' = 0
  /\ toPhone' = toPhone \union {msg("READY", last)}
  /\ UNCHANGED <<phoneVars, toPc, media, lost, buffered, pttRequested, announcedReady,
                 last>>

announced ==
  /\ loop = "announced" /\ loop' = "tick"
  /\ announcedReady' = TRUE
  /\ UNCHANGED <<phoneVars, netVars, routerVars, pttRequested, last>>

(* ... then one frame of the router: timers, and what is played.           *)
timer_NoWatchdog ==
  CASE state = "ErrorRecovery" -> "Recovered"
    [] state = "PhoneArming" /\ armAge > ArmFrames -> "ArmTimeout"
    [] state = "ReturningToLocal" -> "FadeComplete"
    [] OTHER -> "none"
timer ==
  CASE state = "ErrorRecovery" -> "Recovered"
    [] state = "PhoneArming" /\ armAge > ArmFrames -> "ArmTimeout"
    [] state = "PhoneActive" /\ silence > LostFrames -> "PhoneLost"
    [] state = "ReturningToLocal" -> "FadeComplete"
    [] OTHER -> "none"

tick ==
  /\ loop = "tick" /\ loop' = "check"
  /\ state' = StateAfter("Auto", state, timer)
  /\ armAge' = IF state' = "PhoneArming" THEN armAge + 1 ELSE 0
  /\ silence' = IF state' = "PhoneActive" THEN later(silence, LostFrames + 1) ELSE 0
  /\ buffered' = (buffered /\ state # "PhoneActive")
  /\ UNCHANGED <<phoneVars, netVars, pttRequested, announcedReady, last>>
-----------------------------------------------------------------------------
(* What an earlier press may have left in the network: its START_PTT, late *)
(* by more than its STOP_PTT; the answer to it; or the answer to its       *)
(* STOP_PTT, for which the phone has stopped waiting.                      *)
LeftOver ==
  /\ \/ toPc = {} /\ toPhone = {}
     \/ toPc = {msg("START", 0)} /\ toPhone = {}
     \/ toPc = {} /\ \E t \in {"READY", "STOPPED"} : toPhone = {msg(t, 0)}
  /\ announcedReady = (msg("READY", 0) \in toPhone)

PttInit ==
  /\ ui = "up" /\ presses = 0 /\ pressed = FALSE /\ pttState = "READY"
  /\ age = AgeCap
  /\ worker = "top" /\ tAge = 0 /\ net = "idle"
  /\ LeftOver /\ media = FALSE /\ lost = FALSE
  /\ state = "LocalActive" /\ armAge = 0 /\ silence = 0 /\ buffered = FALSE
  /\ pttRequested = FALSE /\ last = 0 /\ loop = "check"

Touch   == onPointerDown \/ onTouchLost
UiStep  == sm_phone_press \/ sm_phone_release
Control == onPttReady \/ goLive \/ onPttStopped
Worker  == workerPass \/ checkArm \/ fail \/ dropPress \/ checkRelease \/ unpin
Service == onMedia \/ onStartPtt \/ onStopPtt
Loop    == checkReady \/ announce \/ announced \/ tick

PttNext == Touch \/ UiStep \/ Control \/ Worker \/ Tick \/ onCaptureFrame \/ Lose
        \/ Service \/ Loop

(* The threads run, and so does the clock; a datagram that is not lost     *)
(* arrives, and there are only so many of them.                            *)
Fairness ==
  /\ WF_pttVars(UiStep) /\ WF_pttVars(Worker) /\ WF_pttVars(Tick) /\ WF_pttVars(Loop)
  /\ WF_pttVars(Control) /\ WF_pttVars(Service)

PttSpec == PttInit /\ [][PttNext]_pttVars /\ Fairness
-----------------------------------------------------------------------------
(* The state stays well formed; in particular the PC's arming clock never  *)
(* runs past its timeout.  (router.cpp, updateTimers)                      *)
PttTypeOK ==
  /\ ui \in {"up", "pressing", "down", "lifting"} /\ presses \in 0..MaxPresses
  /\ pressed \in BOOLEAN /\ pttState \in PttState
  /\ age \in 0..AgeCap
  /\ worker \in {"top", "arm", "fail", "drop", "release", "unpin"} /\ tAge \in 0..WorkerLag
  /\ net \in {"idle", "ready"}
  /\ toPc \subseteq Msg("START") \union Msg("STOP")
  /\ toPhone \subseteq Msg("READY") \union Msg("STOPPED")
  /\ media \in BOOLEAN /\ lost \in BOOLEAN
  /\ state \in SourceState /\ armAge \in 0..ArmFrames + 1
  /\ silence \in 0..LostFrames + 1 /\ buffered \in BOOLEAN
  /\ pttRequested \in BOOLEAN /\ announcedReady \in BOOLEAN
  /\ last \in 0..MaxPresses /\ loop \in {"check", "announce", "announced", "tick"}

(* The last release settles the phone: unless its STOP_PTT or the answer   *)
(* is still under way, or one was lost, the microphone is off and the      *)
(* button stays on READY or FAILED, whatever the worker and late answers   *)
(* do.  (phone_runtime.cpp, onControl against workerMain)                  *)
Answered ==
  /\ presses > 0 /\ ui = "up" /\ ~lost
  /\ msg("STOP", presses) \notin toPc /\ msg("STOPPED", presses) \notin toPhone
AnswerSettles ==
  Answered => ~pressed /\ net = "idle" /\ pttState \in {"READY", "FAILED"}

(* No other thread speaks for the finger: media is sent and CONNECTING is  *)
(* shown only while it is on the button, RELEASING only while it is not.   *)
(* (phone_runtime.cpp, sm_phone_release: "must never be a no-op that       *)
(* leaves the microphone open")                                            *)
TouchDecides ==
  /\ pressed => ui \in {"pressing", "down"}
  /\ pttState = "CONNECTING" => ui \in {"down", "lifting"}
  /\ pttState = "RELEASING" => ui \in {"up", "pressing"}

(* Whatever is lost, the button does not stay on CONNECTING, and a lost    *)
(* PTT_STOPPED does not pin it on RELEASING.  (phone_runtime.cpp,          *)
(* workerMain)                                                             *)
Waiting  == pttState \in {"CONNECTING", "RELEASING"}
WaitsEnd == Waiting ~> ~Waiting

(* Once the finger is gone for good the PC stops using the phone, though   *)
(* STOP_PTT be lost, and START_PTT late.  (ADR-008, router watchdog)       *)
PcLetsGo == <>[](ui = "up") => <>[](state = "LocalActive")

(* The same moment ends LIVE on the phone, unless STOP_PTT or its answer   *)
(* is lost: whatever races with the release, PTT_STOPPED has the last      *)
(* word.  (phone_runtime.cpp, onControl)                                   *)
FingerUpEnds == <>[](ui = "up") /\ []~lost => <>[](pttState \in {"READY", "FAILED"})
=============================================================================
