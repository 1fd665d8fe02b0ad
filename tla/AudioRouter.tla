----------------------------- MODULE AudioRouter -----------------------------
(***************************************************************************)
(* The PC's audio router (windows/audio-service, router.cpp, crossfade.cpp)*)
(* with the two threads that use it in apps/service/main.cpp:              *)
(*                                                                         *)
(*   the audio thread   announces PhoneReady between two frames, then runs *)
(*                      tick(): drainEvents, updateTimers, readSources,    *)
(*                      mixAndWrite, and the closing FadeComplete;         *)
(*   the network thread calls startPtt, stopPtt, setMode, notifyPhoneGone  *)
(*                      and notifyPhoneHeartbeat as datagrams arrive.      *)
(*                                                                         *)
(* Both post to the same event ring.  The ring is a single-producer one:   *)
(* a post loads the write index, then stores the event and index + 1, so   *)
(* two overlapping posts use the same slot and one event is lost.          *)
(*                                                                         *)
(* Clocks are ages in frames of 20 ms (framesFor), saturated just past the *)
(* timeout they are compared with.  Gains are counted in equal parts of a  *)
(* full fade: FadeLen parts from one end to the other, FrameLen parts per  *)
(* frame.  What the samples are is left out.                               *)
(***************************************************************************)
EXTENDS Integers, Sequences, SourceStateMachine

CONSTANTS
  ArmFrames,   \* armTimeoutMs in frames
  LostFrames,  \* phoneLostTimeoutMs in frames
  FadeLen,     \* crossfadeMs, in parts
  FrameLen,    \* one frame, in the same parts
  Modes,       \* the mode events the phone may send
  MayFail,     \* the sources that may fail
  MaxPosts     \* bound: control messages handled during one frame

ASSUME RouterAssumption ==
  /\ ArmFrames \in Nat \ {0}
  /\ LostFrames \in Nat \ {0}
  /\ FadeLen \in Nat \ {0}
  /\ FrameLen \in Nat \ {0}
  /\ Modes \subseteq ModeEvent
  /\ MayFail \subseteq {"local", "phone"}
  /\ MaxPosts \in Nat

VARIABLES
  state, mode,            \* sm_
  fadePos, fadeTarget,    \* fade_: 0 is all local, FadeLen all phone
  gatePos, gateTarget,    \* gate_: 0 is silent, FadeLen open
  events,                 \* events_, oldest first
  pc,                     \* where the audio thread is in its loop
  slot,                   \* PhoneReady's post: events queued when it loaded
  armAge,                 \* frameIndex_ - armStartedFrame_ in PhoneArming, else 0
  beatAge,                \* frameIndex_ - lastHeartbeatFrame_
  net,                    \* the network thread's call in progress
  posted,                 \* posts since the last frame (for MaxPosts)
  failing,                \* sources whose read() returns Failed
  fed,                    \* sources read successfully for this frame
  quiet                   \* history: frames since liveness was last stored

smVars   == <<state, mode, fadeTarget, gateTarget, armAge>>
gainVars == <<fadePos, gatePos>>
netVars  == <<net, posted>>
vars == <<smVars, gainVars, netVars, events, pc, slot, beatAge, failing,
          fed, quiet>>

-----------------------------------------------------------------------------
Older(age, timeout) == IF age > timeout THEN age ELSE age + 1

(* Crossfade::next and GainRamp::next over one frame: a constant rate      *)
(* toward the target, landing on it exactly.                               *)
Move_StopsShort(pos, target) ==
  CASE pos < target -> IF pos + FrameLen < target THEN pos + FrameLen ELSE pos
    [] pos > target -> IF pos - FrameLen > target THEN pos - FrameLen ELSE pos
    [] OTHER        -> pos
Move(pos, target) ==
  CASE pos < target -> IF pos + FrameLen < target THEN pos + FrameLen ELSE target
    [] pos > target -> IF pos - FrameLen > target THEN pos - FrameLen ELSE target
    [] OTHER        -> pos

fadeActive == fadePos # fadeTarget
gateActive == gatePos # gateTarget

Silent == {"Muted", "ErrorRecovery"}
OnPhone == {"PhoneActive", "PhoneOnly"}

(* applyEvent(), after a change of state: the gate and the crossfade are   *)
(* retargeted and an arming clock starts.  ErrorRecovery leaves the        *)
(* crossfade as it is.                                                     *)
retarget_NoMuteGate(to) ==
  /\ gateTarget' = IF to = "ErrorRecovery" THEN 0 ELSE FadeLen
  /\ fadeTarget' = IF to \in OnPhone THEN FadeLen ELSE 0
  /\ armAge' = 0
retarget_NoErrorGate(to) ==
  /\ gateTarget' = IF to = "Muted" THEN 0 ELSE FadeLen
  /\ fadeTarget' = IF to \in OnPhone THEN FadeLen ELSE 0
  /\ armAge' = 0
retarget(to) ==
  /\ gateTarget' = IF to \in Silent THEN 0 ELSE FadeLen
  /\ fadeTarget' = CASE to \in OnPhone -> FadeLen
                     [] to = "ErrorRecovery" -> fadeTarget
                     [] OTHER -> 0
  /\ armAge' = 0

(* applyEvent(): nothing but the mode moves unless the state changes.      *)
applyEvent_ModeNotStored(e) ==
  LET to == StateAfter(mode, state, e) IN
  /\ UNCHANGED mode
  /\ state' = to
  /\ IF to = state THEN UNCHANGED <<fadeTarget, gateTarget, armAge>>
                   ELSE retarget(to)
applyEvent_NoEarlyReturn(e) ==
  /\ mode' = ModeAfter(mode, e)
  /\ state' = StateAfter(mode, state, e)
  /\ retarget(StateAfter(mode, state, e))
applyEvent(e) ==
  LET to == StateAfter(mode, state, e) IN
  /\ mode' = ModeAfter(mode, e)
  /\ state' = to
  /\ IF to = state THEN UNCHANGED <<fadeTarget, gateTarget, armAge>>
                   ELSE retarget(to)

-----------------------------------------------------------------------------
(* The network thread.                                                     *)
Enter(op, at) == [op |-> op, at |-> at, age |-> 0, overtaken |-> FALSE]
NoCall == Enter("none", "idle")
NetCall == [op : Event \union {"none", "Heartbeat"},
            at : {"idle", "store", "post", "gone"},
            age : 0..LostFrames + 1, overtaken : BOOLEAN]
PostedByNet == {"StartPtt", "StopPtt", "PhoneLost"} \union Modes
Beats == {"StartPtt", "Heartbeat"}   \* the calls that store liveness first

(* A control method is entered.  startPtt and notifyPhoneHeartbeat first   *)
(* load framesProduced_; the others go straight to their post.             *)
Call(op) ==
  /\ net.at = "idle"
  /\ op \in PostedByNet => posted < MaxPosts
  /\ net' = Enter(op, IF op \in Beats THEN "store" ELSE "post")
  /\ UNCHANGED <<smVars, gainVars, failing, posted, events, pc, slot, beatAge,
                 fed, quiet>>

(* lastHeartbeatFrame_ gets the frame number that was loaded, which may be *)
(* several frames old by now.                                              *)
StoreHeartbeat ==
  /\ net.at = "store"
  /\ beatAge' = net.age
  /\ quiet' = 0
  /\ net' = IF net.op = "StartPtt" THEN Enter("StartPtt", "post")
                                   ELSE NoCall
  /\ UNCHANGED <<smVars, gainVars, failing, posted, events, pc, slot, fed>>

(* post() finishes.  If the audio thread posted PhoneReady after this post *)
(* loaded the write index, both used one slot: PhoneReady is overwritten   *)
(* if it is still queued, and if it was already drained the index does not *)
(* move and this event is never seen.                                      *)
Post ==
  /\ net.at = "post"
  /\ events' = IF ~net.overtaken THEN Append(events, net.op)
               ELSE [i \in DOMAIN events |->
                       IF i = Len(events) THEN net.op ELSE events[i]]
  /\ posted' = posted + 1
  /\ net' = NoCall
  /\ UNCHANGED <<smVars, gainVars, failing, pc, slot, beatAge, fed, quiet>>

-----------------------------------------------------------------------------
(* The audio thread.                                                       *)

(* The service's check before tick(): while arming, once the jitter buffer *)
(* is ready, notifyPhoneReady() stores liveness and starts its post.  The  *)
(* service's own flags pttRequested and announcedReady, and the jitter     *)
(* buffer, are the nondeterminism of this action; announcedReady is        *)
(* cleared by the network thread only, hence at most one announcement      *)
(* during one of its calls.                                                *)
AnnounceReady ==
  /\ pc = "idle" /\ state = "PhoneArming" /\ ~net.overtaken
  /\ beatAge' = 0
  /\ quiet' = 0
  /\ slot' = Len(events)
  /\ pc' = "ready"
  /\ UNCHANGED <<smVars, gainVars, failing, netVars, events, fed>>

(* The post of PhoneReady finishes: what the network thread queued since   *)
(* the write index was loaded is overwritten or cut off.                   *)
PostReady ==
  /\ pc = "ready"
  /\ events' = Append(SubSeq(events, 1, slot), "PhoneReady")
  /\ net' = [net EXCEPT !.overtaken = (net.at = "post")]
  /\ slot' = 0
  /\ pc' = "drain"
  /\ UNCHANGED <<smVars, gainVars, failing, posted, beatAge, fed, quiet>>

BeginTick ==
  /\ pc = "idle"
  /\ pc' = "drain"
  /\ UNCHANGED <<smVars, gainVars, failing, netVars, events, slot, beatAge,
                 fed, quiet>>

(* drainEvents(): one turn of the loop, and its end.                       *)
DrainEvent ==
  /\ pc = "drain" /\ events # <<>>
  /\ applyEvent(Head(events))
  /\ events' = Tail(events)
  /\ UNCHANGED <<gainVars, failing, netVars, pc, slot, beatAge, fed, quiet>>

DrainDone ==
  /\ pc = "drain" /\ events = <<>>
  /\ pc' = "timers"
  /\ UNCHANGED <<smVars, gainVars, failing, netVars, events, slot, beatAge,
                 fed, quiet>>

armExpired  == state = "PhoneArming" /\ armAge > ArmFrames
phoneSilent_OneFrameLate == state = "PhoneActive" /\ beatAge > LostFrames + 1
phoneSilent == state = "PhoneActive" /\ beatAge > LostFrames

updateTimers ==
  /\ pc = "timers"
  /\ \/ state = "ErrorRecovery" /\ applyEvent("Recovered")
     \/ armExpired /\ applyEvent("ArmTimeout")
     \/ phoneSilent /\ applyEvent("PhoneLost")
     \/ /\ state # "ErrorRecovery" /\ ~armExpired /\ ~phoneSilent
        /\ UNCHANGED smVars
  /\ pc' = "sources"
  /\ UNCHANGED <<gainVars, failing, netVars, events, slot, beatAge, fed, quiet>>

(* readSources(): each wanted source is read, both while the gate moves.   *)
(* A failing local source puts the router in ErrorRecovery before the      *)
(* phone is considered.                                                    *)
localRead == wantsLocal(state) \/ gateActive
localFails == localRead /\ "local" \in failing
phoneRead_NotHeld == wantsPhone(state) /\ ~localFails
phoneRead == (wantsPhone(state) /\ ~localFails) \/ gateActive
phoneFails == phoneRead /\ "phone" \in failing

readSources ==
  /\ pc = "sources"
  /\ IF localFails \/ phoneFails THEN applyEvent("SourceFailure")
                                 ELSE UNCHANGED smVars
  /\ fed' = {s \in {"local", "phone"} \ failing :
              IF s = "local" THEN localRead ELSE phoneRead}
  /\ pc' = "mix"
  /\ UNCHANGED <<gainVars, failing, netVars, events, slot, beatAge, quiet>>

(* mixAndWrite(), the frame counters, and the sink write, whose failure    *)
(* changes nothing but a counter.                                          *)
mixAndWrite ==
  /\ pc = "mix"
  /\ fadePos' = Move(fadePos, fadeTarget)
  /\ gatePos' = Move(gatePos, gateTarget)
  /\ armAge' = IF state = "PhoneArming" THEN Older(armAge, ArmFrames) ELSE armAge
  /\ beatAge' = Older(beatAge, LostFrames)
  /\ quiet' = Older(quiet, LostFrames)
  /\ net' = IF net.at = "store" THEN [net EXCEPT !.age = Older(@, LostFrames)]
                                ELSE net
  /\ posted' = 0
  /\ fed' = {}
  /\ pc' = "close"
  /\ UNCHANGED <<state, mode, fadeTarget, gateTarget, failing, events, slot>>

closeFade_Forgotten ==
  /\ pc = "close"
  /\ pc' = "idle"
  /\ UNCHANGED <<smVars, gainVars, failing, netVars, events, slot, beatAge, fed, quiet>>
closeFade ==
  /\ pc = "close"
  /\ IF state = "ReturningToLocal" /\ ~fadeActive
     THEN applyEvent("FadeComplete") ELSE UNCHANGED smVars
  /\ pc' = "idle"
  /\ UNCHANGED <<gainVars, failing, netVars, events, slot, beatAge, fed, quiet>>

-----------------------------------------------------------------------------
(* The environment.  read() is called in readSources only, so a source's   *)
(* health may as well change between two ticks.                            *)
SourceFails(s) ==
  /\ pc = "idle" /\ s \notin failing
  /\ failing' = failing \union {s}
  /\ UNCHANGED <<smVars, gainVars, netVars, events, pc, slot, beatAge,
                 fed, quiet>>

SourceRestored(s) ==
  /\ pc = "idle" /\ s \in failing
  /\ failing' = failing \ {s}
  /\ UNCHANGED <<smVars, gainVars, netVars, events, pc, slot, beatAge,
                 fed, quiet>>

(* The phone is switched off: no datagram arrives any more.               *)
PhoneDies ==
  /\ net.at = "idle"
  /\ net' = Enter("none", "gone")
  /\ UNCHANGED <<smVars, gainVars, failing, posted, events, pc, slot, beatAge,
                 fed, quiet>>

-----------------------------------------------------------------------------
Init ==
  /\ state = "LocalActive" /\ mode = "Auto"
  /\ fadePos = 0 /\ fadeTarget = 0
  /\ gatePos = FadeLen /\ gateTarget = FadeLen
  /\ events = <<>>
  /\ pc = "idle" /\ slot = 0
  /\ armAge = 0 /\ beatAge = 0 /\ quiet = 0
  /\ net = NoCall /\ posted = 0
  /\ failing = {} /\ fed = {}

Network ==
  \/ \E op \in PostedByNet \union Beats : Call(op)
  \/ StoreHeartbeat
  \/ Post

AudioThread ==
  \/ AnnounceReady
  \/ PostReady
  \/ BeginTick
  \/ DrainEvent
  \/ DrainDone
  \/ updateTimers
  \/ readSources
  \/ mixAndWrite
  \/ closeFade

Environment ==
  \/ \E s \in MayFail : SourceFails(s) \/ SourceRestored(s)
  \/ PhoneDies

Next == Network \/ AudioThread \/ Environment

Spec == Init /\ [][Next]_vars

(* The audio thread is paced by the clock and waits for nobody; a control  *)
(* call that was entered returns.  The phone and the sources owe nothing.  *)
FairSpec ==
  Spec /\ WF_vars(AudioThread) /\ WF_vars(StoreHeartbeat \/ Post)

-----------------------------------------------------------------------------
TypeOK ==
  /\ state \in SourceState /\ mode \in RoutingMode
  /\ fadePos \in 0..FadeLen /\ fadeTarget \in {0, FadeLen}
  /\ gatePos \in 0..FadeLen /\ gateTarget \in {0, FadeLen}
  /\ events \in Seq(Event)
  /\ pc \in {"idle", "ready", "drain", "timers", "sources", "mix", "close"}
  /\ slot \in Nat
  /\ armAge \in 0..ArmFrames + 1
  /\ beatAge \in 0..LostFrames + 1
  /\ quiet \in 0..LostFrames + 1
  /\ net \in NetCall
  /\ posted \in Nat
  /\ failing \subseteq MayFail /\ fed \subseteq {"local", "phone"}

(* The user's routing mode bounds what the machine may do: outside Auto    *)
(* it is in the mode's resting state or in ErrorRecovery, whatever PTT,    *)
(* liveness or failure events arrive late or out of order, and in Auto it  *)
(* is never in another mode's state.  (source_state_machine.cpp, apply)    *)
ModeConfinesState ==
  IF mode = "Auto"
  THEN state \notin {"PhoneOnly", "LocalOnly", "Muted"}
  ELSE state \in {restingStateFor(mode), "ErrorRecovery"}

(* What is heard follows the state although applyEvent retargets the gains *)
(* only when the state changes: the gate is closing or closed exactly in   *)
(* the silent states, and the crossfade heads for the phone only in a      *)
(* state that puts the phone on the air (ErrorRecovery may keep an older   *)
(* target behind its closed gate).  (router.cpp, applyEvent)               *)
MixFollowsState ==
  /\ gateTarget = 0 <=> state \in Silent
  /\ state \in OnPhone => fadeTarget = FadeLen
  /\ fadeTarget = FadeLen => state \in OnPhone \union {"ErrorRecovery"}

(* The watchdog: no frame is rendered in PHONE_ACTIVE once phoneLostTimeout*)
(* has passed since anybody last reported the phone alive, even if a       *)
(* wedged network thread stores an old frame number meanwhile.             *)
(* (router.cpp, updateTimers; ADR-008)                                     *)
WatchdogBound ==
  pc \in {"sources", "mix"} /\ state = "PhoneActive" => quiet <= LostFrames

(* A mode is honoured in the gains that are actually applied: while Mute   *)
(* lasts the gate never opens, and while LocalOnly lasts the phone's gain  *)
(* never grows, through failures, recoveries and stray PTT events.         *)
(* (router.cpp, applyEvent and mixAndWrite; test A15b)                     *)
ModeHonouredInGains ==
  [][/\ mode = "Mute" /\ mode' = "Mute" => gatePos' <= gatePos
     /\ mode = "LocalOnly" /\ mode' = "LocalOnly" => fadePos' <= fadePos]_vars

(* Arming cannot last: PHONE_ARMING is left by PhoneReady, StopPtt or the  *)
(* arming timeout even if START_PTT keeps arriving.  (router.cpp,          *)
(* updateTimers; applyEvent starts the clock only on entry)                *)
ArmingEnds == state = "PhoneArming" ~> state # "PhoneArming"

(* Never stuck on a dead phone: once the phone stops sending, the router   *)
(* reaches its mode's resting state, if sources do not keep failing.       *)
(* (README "The router can never remain stuck on a dead phone"; ADR-008)   *)
FailsBack ==
  <>[](failing = {}) => (net.at = "gone" ~> state = restingStateFor(mode))

(* What the listener is promised, and the gains that deliver it: the       *)
(* router implements MicSwitch.  The choice is where the gains head, what  *)
(* is heard is where they are.                                             *)
Choice == CASE gateTarget = 0 -> "nothing"
            [] gateTarget # 0 /\ fadeTarget = 0 -> "local"
            [] OTHER -> "phone"
Heard  == CASE gatePos = 0 -> "nothing"
            [] gatePos = FadeLen /\ fadePos = 0 -> "local"
            [] gatePos = FadeLen /\ fadePos = FadeLen -> "phone"
            [] OTHER -> "between"

Listener == INSTANCE MicSwitch WITH choice <- Choice, heard <- Heard

(* Through lost and reordered events, stale clocks, failures and mode      *)
(* changes in the middle of a fade, the listener hears what the mode       *)
(* allows, moves between sources only through a fade or within one frame,  *)
(* and in the end hears the choice.  (router.cpp, applyEvent and           *)
(* mixAndWrite)                                                            *)
SwitchesAsPromised == Listener!Spec

(* A fade is a fade: while the phone talks or the user mutes, a source     *)
(* that is audible in the frame about to be mixed has been read for it,    *)
(* unless it failed; else its gain would ramp over zeros, which is a hard  *)
(* cut.  (router.cpp:187-190; test A6 "source switching introduces no      *)
(* discontinuity in the output")                                           *)
Audible == {s \in {"local", "phone"} :
             gatePos > 0 /\ IF s = "local" THEN fadePos < FadeLen ELSE fadePos > 0}
FadesAreFed ==
  pc = "mix" /\ state \in {"PhoneActive", "ReturningToLocal", "Muted"}
    => Audible \subseteq fed \union failing
=============================================================================
