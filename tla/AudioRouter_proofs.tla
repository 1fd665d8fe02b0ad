------------------------- MODULE AudioRouter_proofs -------------------------
(***************************************************************************)
(* Proofs about AudioRouter, for every value of its constants.             *)
(***************************************************************************)
EXTENDS AudioRouter, TLAPS

-----------------------------------------------------------------------------
(* What the state machine's operators return.                              *)

(* apply() yields states and modes.                                        *)
LEMMA ApplyType ==
  ASSUME NEW m \in RoutingMode, NEW s \in SourceState, NEW e \in Event
  PROVE  /\ ModeAfter(m, e) \in RoutingMode
         /\ restingStateFor(m) \in SourceState
         /\ StateAfter(m, s, e) \in SourceState
<1>1. \A n \in RoutingMode : restingStateFor(n) \in SourceState
  BY DEF RoutingMode, SourceState, restingStateFor
<1>2. ModeAfter(m, e) \in RoutingMode
  BY DEF RoutingMode, ModeAfter
<1>3. StateAfter(m, s, e) \in SourceState
  <2>1. CASE e \in ModeEvent
    BY <1>1, <1>2, <2>1 DEF StateAfter, ModeEvent
  <2>2. CASE e \notin ModeEvent
    BY <1>1, <2>2 DEF StateAfter, SourceState
  <2>3. QED BY <2>1, <2>2
<1>4. QED BY <1>1, <1>2, <1>3

(* The region of a mode.                                                   *)
InRegion(m, s) ==
  IF m = "Auto" THEN s \notin {"PhoneOnly", "LocalOnly", "Muted"}
                ELSE s \in {restingStateFor(m), "ErrorRecovery"}

(* apply() keeps the state within the region of the mode.                  *)
LEMMA ApplyStaysInRegion ==
  ASSUME NEW m \in RoutingMode, NEW s \in SourceState, NEW e \in Event,
         InRegion(m, s)
  PROVE  InRegion(ModeAfter(m, e), StateAfter(m, s, e))
<1>1. CASE e \in ModeEvent
  BY <1>1 DEF InRegion, StateAfter, ModeAfter, ModeEvent, restingStateFor
<1>2. CASE e \notin ModeEvent
  <2>1. ModeAfter(m, e) = m
    BY <1>2 DEF ModeAfter, ModeEvent
  <2>2. CASE m = "Auto"
    BY <1>2, <2>1, <2>2 DEF InRegion, StateAfter, restingStateFor
  <2>3. CASE m # "Auto"
    BY <1>2, <2>1, <2>3 DEF InRegion, StateAfter, restingStateFor, RoutingMode
  <2>4. QED BY <2>2, <2>3
<1>3. QED BY <1>1, <1>2

-----------------------------------------------------------------------------
(* The inductive invariant.                                                *)

(* Without the phone in play the crossfade heads home, even behind the     *)
(* closed gate of ErrorRecovery, where MixFollowsState says nothing.       *)
HomeInv == mode \in {"LocalOnly", "Mute"} => fadeTarget = 0

(* What applyEvent reads and writes.                                       *)
SmInv ==
  /\ state \in SourceState /\ mode \in RoutingMode
  /\ fadeTarget \in {0, FadeLen} /\ gateTarget \in {0, FadeLen}
  /\ armAge \in 0..ArmFrames + 1
  /\ ModeConfinesState
  /\ MixFollowsState
  /\ HomeInv

(* The network thread only ever posts events, and stores liveness only for *)
(* the two calls that do.                                                  *)
NetInv ==
  /\ net.at = "post" => net.op \in PostedByNet
  /\ net.at = "store" => net.op \in Beats

(* While PhoneReady is being posted nothing is drained.                    *)
SlotInv == pc = "ready" => slot <= Len(events)

(* A stored heartbeat is at least as old as the last report of liveness.   *)
AgeInv == quiet <= beatAge

Inv == TypeOK /\ SmInv /\ NetInv /\ SlotInv /\ AgeInv /\ WatchdogBound

(* applyEvent keeps the state in its mode and the gains with the state.    *)
LEMMA ApplyEventInv ==
  ASSUME SmInv, NEW e \in Event, applyEvent(e)
  PROVE  SmInv'
<1> DEFINE to == StateAfter(mode, state, e)
<1>1. /\ mode' = ModeAfter(mode, e) /\ state' = to
      /\ mode' \in RoutingMode /\ state' \in SourceState
  BY ApplyType DEF applyEvent, SmInv
<1>2. ModeConfinesState'
  <2>1. InRegion(mode, state)
    BY DEF SmInv, ModeConfinesState, InRegion
  <2>2. InRegion(mode', state')
    BY <1>1, <2>1, ApplyStaysInRegion DEF SmInv
  <2>3. QED BY <2>2 DEF ModeConfinesState, InRegion
<1>3. CASE to = state
  <2>1. UNCHANGED <<fadeTarget, gateTarget, armAge>>
    BY <1>3 DEF applyEvent
  <2>2. HomeInv'
    <3>1. CASE e \in ModeEvent
      <4>1. mode' \in {"LocalOnly", "Mute"} => state \notin OnPhone \union {"ErrorRecovery"}
        BY <1>1, <1>3, <3>1 DEF StateAfter, restingStateFor, OnPhone, ModeEvent
      <4>2. QED BY <2>1, <4>1 DEF HomeInv, SmInv, MixFollowsState
    <3>2. CASE e \notin ModeEvent
      BY <1>1, <2>1, <3>2 DEF ModeAfter, ModeEvent, HomeInv, SmInv
    <3>3. QED BY <3>1, <3>2
  <2>3. QED BY <1>1, <1>2, <1>3, <2>1, <2>2 DEF SmInv, MixFollowsState
<1>4. CASE to # state
  <2>1. retarget(to)
    BY <1>4 DEF applyEvent
  <2>2. gateTarget' = (IF to \in Silent THEN 0 ELSE FadeLen) /\ armAge' = 0
    BY <2>1 DEF retarget
  <2>3. CASE to \in OnPhone
    <3>1. fadeTarget' = FadeLen
      BY <2>1, <2>3 DEF retarget, OnPhone
    <3>2. to \notin Silent
      BY <2>3 DEF Silent, OnPhone
    <3>3. HomeInv'
      BY <1>1, <1>2, <2>3 DEF HomeInv, ModeConfinesState, OnPhone, restingStateFor
    <3>4. QED BY <1>1, <1>2, <2>2, <2>3, <3>1, <3>2, <3>3, RouterAssumption
              DEF SmInv, MixFollowsState
  <2>4. CASE to = "ErrorRecovery"
    <3>1. fadeTarget' = fadeTarget
      BY <2>1, <2>4 DEF retarget, OnPhone
    <3>2. to \in Silent /\ to \notin OnPhone
      BY <2>4 DEF Silent, OnPhone
    <3>3. e \notin ModeEvent
      BY <2>4 DEF StateAfter, ModeAfter, ModeEvent, restingStateFor
    <3>4. HomeInv'
      BY <1>1, <3>1, <3>3 DEF ModeAfter, ModeEvent, HomeInv, SmInv
    <3>5. QED BY <1>1, <1>2, <2>2, <2>4, <3>1, <3>2, <3>4, RouterAssumption
              DEF SmInv, MixFollowsState
  <2>5. CASE to \notin OnPhone /\ to # "ErrorRecovery"
    <3>1. fadeTarget' = 0
      BY <2>1, <2>5 DEF retarget
    <3>2. QED BY <1>1, <1>2, <2>2, <2>5, <3>1, RouterAssumption
              DEF SmInv, MixFollowsState, HomeInv
  <2>6. QED BY <2>3, <2>4, <2>5
<1>5. QED BY <1>3, <1>4

(* Move stays between the two ends of a fade.                              *)
LEMMA MoveType ==
  ASSUME NEW pos \in 0..FadeLen, NEW target \in {0, FadeLen}
  PROVE  /\ Move(pos, target) \in 0..FadeLen
         /\ target = 0 => Move(pos, target) <= pos
  BY RouterAssumption DEF Move

LEMMA OlderType ==
  ASSUME NEW t \in Nat, NEW a \in 0..t + 1, NEW b \in 0..t + 1, a <= b
  PROVE  Older(a, t) \in 0..t + 1 /\ Older(a, t) <= Older(b, t)
  BY DEF Older

(* Posted events are events.                                               *)
LEMMA PostedAreEvents ==
  /\ PostedByNet \subseteq Event
  /\ {"PhoneReady", "PhoneLost", "ArmTimeout", "FadeComplete",
      "SourceFailure", "Recovered"} \subseteq Event
  BY RouterAssumption DEF PostedByNet, Event

LEMMA InitInv == Init => Inv
  BY RouterAssumption
  DEF Init, Inv, TypeOK, SmInv, NetInv, SlotInv, AgeInv, WatchdogBound,
      ModeConfinesState, MixFollowsState, HomeInv, SourceState, RoutingMode, NoCall, Enter,
      NetCall, Silent, OnPhone

(* Every step of either thread and of the environment keeps Inv.           *)
LEMMA NextInv == Inv /\ [Next]_vars => Inv'
<1> SUFFICES ASSUME Inv, [Next]_vars PROVE Inv'
  OBVIOUS
<1> USE RouterAssumption
<1>1. ASSUME NEW op \in PostedByNet \union Beats, Call(op) PROVE Inv'
  <2>1. op \in Event \union {"none", "Heartbeat"}
    BY PostedAreEvents DEF Beats, Event
  <2>2. NetInv' /\ net' \in NetCall
    BY <1>1, <2>1 DEF Call, Enter, NetInv, Beats, NetCall
  <2>3. QED BY <1>1, <2>2 DEF Call, Inv, TypeOK, SmInv, SlotInv, AgeInv,
               WatchdogBound, smVars, gainVars, ModeConfinesState, MixFollowsState, HomeInv
<1>2. CASE StoreHeartbeat
  <2>1. NetInv' /\ net' \in NetCall
    <3>1. CASE net.op = "StartPtt"
      BY <1>2, <3>1 DEF StoreHeartbeat, NetInv, PostedByNet, Enter, NetCall, Event
    <3>2. CASE net.op # "StartPtt"
      BY <1>2, <3>2 DEF StoreHeartbeat, NetInv, NoCall, Enter, NetCall
    <3>3. QED BY <3>1, <3>2
  <2>2. beatAge' \in 0..LostFrames + 1 /\ quiet' = 0
    BY <1>2 DEF StoreHeartbeat, Inv, TypeOK, NetCall
  <2>3. QED BY <1>2, <2>1, <2>2 DEF StoreHeartbeat, Inv, TypeOK, SmInv, SlotInv,
               AgeInv, WatchdogBound, smVars, gainVars, ModeConfinesState,
               MixFollowsState, HomeInv
<1>3. CASE Post
  <2>1. net.op \in Event
    BY <1>3, PostedAreEvents DEF Post, Inv, NetInv
  <2>2. events' \in Seq(Event) /\ Len(events') >= Len(events)
    <3>1. CASE ~net.overtaken
      <4>1. events' = Append(events, net.op) /\ events \in Seq(Event)
        BY <1>3, <3>1 DEF Post, Inv, TypeOK
      <4>2. QED BY <2>1, <4>1
    <3>2. CASE net.overtaken
      <4>1. events' = [i \in 1..Len(events) |->
                         IF i = Len(events) THEN net.op ELSE events[i]]
        BY <1>3, <3>2 DEF Post, Inv, TypeOK
      <4>2. \A i \in 1..Len(events) : events[i] \in Event
        BY DEF Inv, TypeOK
      <4>3. QED BY <2>1, <4>1, <4>2 DEF Inv, TypeOK
    <3>3. QED BY <3>1, <3>2
  <2>3. NetInv' /\ net' \in NetCall
    BY <1>3 DEF Post, NetInv, NoCall, Enter, NetCall
  <2>4. SlotInv'
    BY <1>3, <2>2 DEF Post, Inv, SlotInv, TypeOK
  <2>5. QED BY <1>3, <2>2, <2>3, <2>4 DEF Post, Inv, TypeOK, SmInv,
               AgeInv, WatchdogBound, smVars, gainVars, ModeConfinesState,
               MixFollowsState, HomeInv
<1>4. CASE AnnounceReady
  BY <1>4 DEF AnnounceReady, Inv, TypeOK, SmInv, NetInv, SlotInv, AgeInv,
     WatchdogBound, smVars, gainVars, netVars, ModeConfinesState, MixFollowsState, HomeInv
<1>5. CASE PostReady
  <2>1. SubSeq(events, 1, slot) \in Seq(Event)
    BY <1>5 DEF PostReady, Inv, TypeOK, SlotInv
  <2>2. events' \in Seq(Event)
    BY <1>5, <2>1, PostedAreEvents DEF PostReady
  <2>3. NetInv' /\ net' \in NetCall
    BY <1>5 DEF PostReady, Inv, NetInv, TypeOK, NetCall
  <2>4. QED BY <1>5, <2>2, <2>3 DEF PostReady, Inv, TypeOK, SmInv, SlotInv,
               AgeInv, WatchdogBound, smVars, gainVars, ModeConfinesState,
               MixFollowsState, HomeInv
<1>6. CASE BeginTick
  BY <1>6 DEF BeginTick, Inv, TypeOK, SmInv, NetInv, SlotInv, AgeInv,
     WatchdogBound, smVars, gainVars, netVars, ModeConfinesState, MixFollowsState, HomeInv
<1>7. CASE DrainEvent
  <2>1. Head(events) \in Event /\ Tail(events) \in Seq(Event)
    BY <1>7 DEF DrainEvent, Inv, TypeOK
  <2>2. SmInv'
    BY <1>7, <2>1, ApplyEventInv DEF DrainEvent, Inv
  <2>3. QED BY <1>7, <2>1, <2>2 DEF DrainEvent, Inv, TypeOK, SmInv, NetInv,
               SlotInv, AgeInv, WatchdogBound, gainVars, netVars
<1>8. CASE DrainDone
  BY <1>8 DEF DrainDone, Inv, TypeOK, SmInv, NetInv, SlotInv, AgeInv,
     WatchdogBound, smVars, gainVars, netVars, ModeConfinesState, MixFollowsState, HomeInv
<1>9. CASE updateTimers
  <2>1. SmInv'
    <3>1. CASE UNCHANGED smVars
      BY <3>1 DEF smVars, Inv, SmInv, ModeConfinesState, MixFollowsState, HomeInv
    <3>2. QED BY <1>9, <3>1, ApplyEventInv, PostedAreEvents DEF updateTimers, Inv
  <2>2. state' = "PhoneActive" => quiet <= LostFrames
    <3>1. CASE state = "ErrorRecovery" /\ applyEvent("Recovered")
      BY <3>1 DEF applyEvent, StateAfter, ModeEvent, restingStateFor, Inv, TypeOK,
                  RoutingMode
    <3>2. CASE armExpired /\ applyEvent("ArmTimeout")
      BY <3>2 DEF armExpired, applyEvent, StateAfter, ModeEvent
    <3>3. CASE phoneSilent /\ applyEvent("PhoneLost")
      BY <3>3 DEF phoneSilent, applyEvent, StateAfter, ModeEvent
    <3>4. CASE ~phoneSilent /\ UNCHANGED smVars
      BY <3>4 DEF phoneSilent, smVars, Inv, TypeOK, AgeInv
    <3>5. QED BY <1>9, <3>1, <3>2, <3>3, <3>4 DEF updateTimers
  <2>3. QED BY <1>9, <2>1, <2>2 DEF updateTimers, Inv, TypeOK, SmInv, NetInv,
               SlotInv, AgeInv, WatchdogBound, gainVars, netVars
<1>10. CASE readSources
  <2>1. SmInv'
    <3>1. CASE UNCHANGED smVars
      BY <3>1 DEF smVars, Inv, SmInv, ModeConfinesState, MixFollowsState, HomeInv
    <3>2. QED BY <1>10, <3>1, ApplyEventInv, PostedAreEvents DEF readSources, Inv
  <2>2. state' = "PhoneActive" => state = "PhoneActive"
    BY <1>10 DEF readSources, applyEvent, StateAfter, ModeEvent, smVars
  <2>3. QED BY <1>10, <2>1, <2>2 DEF readSources, Inv, TypeOK, SmInv, NetInv,
               SlotInv, AgeInv, WatchdogBound, gainVars, netVars
<1>11. CASE mixAndWrite
  <2>1. fadePos' \in 0..FadeLen /\ gatePos' \in 0..FadeLen
    BY <1>11, MoveType DEF mixAndWrite, Inv, TypeOK
  <2>2. armAge' \in 0..ArmFrames + 1
    BY <1>11, OlderType DEF mixAndWrite, Inv, TypeOK
  <2>3. beatAge' \in 0..LostFrames + 1 /\ quiet' \in 0..LostFrames + 1 /\ AgeInv'
    BY <1>11, OlderType DEF mixAndWrite, Inv, TypeOK, AgeInv
  <2>4. NetInv' /\ net' \in NetCall
    <3>1. Older(net.age, LostFrames) \in 0..LostFrames + 1
      <4>1. net.age \in 0..LostFrames + 1
        BY DEF Inv, TypeOK, NetCall
      <4>2. QED BY <4>1, OlderType
    <3>2. QED BY <1>11, <3>1 DEF mixAndWrite, Inv, NetInv, TypeOK, NetCall
  <2>5. QED BY <1>11, <2>1, <2>2, <2>3, <2>4 DEF mixAndWrite, Inv, TypeOK, SmInv,
               SlotInv, WatchdogBound, ModeConfinesState, MixFollowsState, HomeInv
<1>12. CASE closeFade
  <2>1. SmInv'
    <3>1. CASE UNCHANGED smVars
      BY <3>1 DEF smVars, Inv, SmInv, ModeConfinesState, MixFollowsState, HomeInv
    <3>2. QED BY <1>12, <3>1, ApplyEventInv, PostedAreEvents DEF closeFade, Inv
  <2>2. QED BY <1>12, <2>1 DEF closeFade, Inv, TypeOK, SmInv, NetInv, SlotInv,
               AgeInv, WatchdogBound, gainVars, netVars
<1>13. ASSUME NEW s \in MayFail, SourceFails(s) \/ SourceRestored(s) PROVE Inv'
  BY <1>13 DEF SourceFails, SourceRestored, Inv, TypeOK, SmInv, NetInv, SlotInv,
     AgeInv, WatchdogBound, smVars, gainVars, netVars, ModeConfinesState,
     MixFollowsState, HomeInv
<1>14. CASE PhoneDies
  <2>1. net' = [op |-> "none", at |-> "gone", age |-> 0, overtaken |-> FALSE]
    BY <1>14 DEF PhoneDies, NoCall, Enter
  <2>2. NetInv' /\ net' \in NetCall
    BY <2>1 DEF NetInv, NetCall
  <2>3. QED BY <1>14, <2>2 DEF PhoneDies, Inv, TypeOK, SmInv, SlotInv, AgeInv,
     WatchdogBound, smVars, gainVars, ModeConfinesState, MixFollowsState, HomeInv
<1>15. CASE UNCHANGED vars
  BY <1>15 DEF vars, Inv, TypeOK, SmInv, NetInv, SlotInv, AgeInv, WatchdogBound,
     smVars, gainVars, netVars, ModeConfinesState, MixFollowsState, HomeInv
<1>16. QED
  BY <1>1, <1>2, <1>3, <1>4, <1>5, <1>6, <1>7, <1>8, <1>9, <1>10, <1>11, <1>12,
     <1>13, <1>14, <1>15 DEF Next, Network, AudioThread, Environment

(* Inv is an invariant of the router.                                      *)
THEOREM RouterInvariant == Spec => []Inv
  BY InitInv, NextInv, PTL DEF Spec

(* Types, for any timeouts, fade length and sets of modes and sources.     *)
THEOREM RouterTypeOK == Spec => []TypeOK
<1>1. Inv => TypeOK
  BY DEF Inv
<1>2. QED BY <1>1, RouterInvariant, PTL

(* A mode confines the state, whatever events arrive and are lost.         *)
THEOREM ModeSafety == Spec => []ModeConfinesState
<1>1. Inv => ModeConfinesState
  BY DEF Inv, SmInv
<1>2. QED BY <1>1, RouterInvariant, PTL

(* The gains head where the state says.                                    *)
THEOREM MixSafety == Spec => []MixFollowsState
<1>1. Inv => MixFollowsState
  BY DEF Inv, SmInv
<1>2. QED BY <1>1, RouterInvariant, PTL

(* No PHONE_ACTIVE frame beyond the liveness timeout.                      *)
THEOREM WatchdogSafety == Spec => []WatchdogBound
<1>1. Inv => WatchdogBound
  BY DEF Inv
<1>2. QED BY <1>1, RouterInvariant, PTL

(* Only mixAndWrite moves the gains.                                       *)
LEMMA GainsMoveInMix ==
  ASSUME Inv, [Next]_vars
  PROVE  UNCHANGED gainVars \/ mixAndWrite
  BY DEF Next, Network, AudioThread, Environment, vars, Call, StoreHeartbeat, Post,
     AnnounceReady, PostReady, BeginTick, DrainEvent, DrainDone, updateTimers,
     readSources, closeFade, SourceFails, SourceRestored, PhoneDies

(* Mute never opens the gate and LocalOnly never raises the phone.         *)
THEOREM ModeGains == Spec => ModeHonouredInGains
<1> DEFINE Step == /\ mode = "Mute" /\ mode' = "Mute" => gatePos' <= gatePos
                   /\ mode = "LocalOnly" /\ mode' = "LocalOnly" => fadePos' <= fadePos
<1>1. Inv /\ [Next]_vars => [Step]_vars
  <2> SUFFICES ASSUME Inv, [Next]_vars PROVE Step
    OBVIOUS
  <2>1. CASE UNCHANGED gainVars
    BY <2>1 DEF gainVars, Inv, TypeOK
  <2>2. CASE mixAndWrite
    <3>1. mode = "Mute" => gateTarget = 0
      BY DEF Inv, SmInv, ModeConfinesState, MixFollowsState, restingStateFor, Silent
    <3>2. mode = "LocalOnly" => fadeTarget = 0
      BY DEF Inv, SmInv, HomeInv
    <3>3. gateTarget = 0 => gatePos' <= gatePos
      BY <2>2, MoveType DEF mixAndWrite, Inv, TypeOK
    <3>4. fadeTarget = 0 => fadePos' <= fadePos
      BY <2>2, MoveType DEF mixAndWrite, Inv, TypeOK
    <3>5. QED BY <3>1, <3>2, <3>3, <3>4
  <2>3. QED BY <2>1, <2>2, GainsMoveInMix
<1>2. QED BY <1>1, RouterInvariant, PTL DEF Spec, ModeHonouredInGains

-----------------------------------------------------------------------------
(* What ArmingEnds rests on beside fairness.                               *)

(* No frame is mixed in PHONE_ARMING once the arming timeout has passed.   *)
(* (router.cpp, updateTimers)                                              *)
ArmingBound ==
  pc \in {"sources", "mix"} /\ state = "PhoneArming" => armAge <= ArmFrames

(* While arming lasts its clock counts every frame and goes back for no    *)
(* event: a phone that keeps sending START_PTT, a mode event that changes  *)
(* nothing, a failure that has been left.  (router.cpp, applyEvent)        *)
ArmingClock ==
  [][state = "PhoneArming" /\ state' = "PhoneArming" =>
       armAge' = IF mixAndWrite THEN armAge + 1 ELSE armAge]_vars

(* An event that leaves the state alone leaves the arming clock alone.     *)
LEMMA ClockKept ==
  ASSUME NEW e, applyEvent(e), state' = state PROVE armAge' = armAge
  BY DEF applyEvent

(* Whatever ends the timers' step in PHONE_ARMING has found the timeout    *)
(* not yet passed, and a failure never leads there.                        *)
LEMMA ArmingBoundStep == Inv /\ ArmingBound /\ [Next]_vars => ArmingBound'
<1> SUFFICES ASSUME Inv, ArmingBound, [Next]_vars, pc' \in {"sources", "mix"},
                    state' = "PhoneArming"
             PROVE  armAge' <= ArmFrames
  BY DEF ArmingBound
<1>1. CASE updateTimers
  <2>1. state = "PhoneArming" /\ ~armExpired /\ UNCHANGED smVars
    <3>1. ~(state = "ErrorRecovery" /\ applyEvent("Recovered"))
      BY DEF applyEvent, StateAfter, ModeEvent, restingStateFor, Inv, TypeOK, RoutingMode
    <3>2. ~(armExpired /\ applyEvent("ArmTimeout"))
      BY DEF applyEvent, StateAfter, ModeEvent, armExpired
    <3>3. ~(phoneSilent /\ applyEvent("PhoneLost"))
      BY DEF applyEvent, StateAfter, ModeEvent, phoneSilent
    <3>4. ~armExpired /\ UNCHANGED smVars
      BY <1>1, <3>1, <3>2, <3>3 DEF updateTimers
    <3>5. QED BY <3>4 DEF smVars
  <2>2. armAge' = armAge /\ armAge \in Int /\ ~(armAge > ArmFrames)
    BY <2>1 DEF smVars, armExpired, Inv, TypeOK
  <2>3. QED BY <2>2, RouterAssumption
<1>2. CASE readSources
  <2>1. ~(localFails \/ phoneFails)
    BY <1>2 DEF readSources, applyEvent, StateAfter, ModeEvent
  <2>2. UNCHANGED <<state, armAge>> /\ pc = "sources"
    BY <1>2, <2>1 DEF readSources, smVars
  <2>3. QED BY <2>2 DEF ArmingBound
<1>3. CASE ~updateTimers /\ ~readSources
  <2>1. UNCHANGED <<pc, state, armAge>>
    BY <1>3 DEF Next, Network, AudioThread, Environment, vars, Call, StoreHeartbeat,
       Post, AnnounceReady, PostReady, BeginTick, DrainEvent, DrainDone, mixAndWrite,
       closeFade, SourceFails, SourceRestored, PhoneDies, smVars, gainVars
  <2>2. QED BY <2>1 DEF ArmingBound
<1>4. QED BY <1>1, <1>2, <1>3

(* No frame is mixed in PHONE_ARMING after the timeout, for any timeout.   *)
(* (router.cpp, updateTimers)                                              *)
THEOREM ArmingSafety == Spec => []ArmingBound
<1>1. Init => ArmingBound
  BY DEF Init, ArmingBound
<1>2. QED BY <1>1, ArmingBoundStep, RouterInvariant, PTL DEF Spec

(* PHONE_ARMING lasts at most the timeout in frames: its clock counts each *)
(* of them and no event turns it back.  (router.cpp, applyEvent)           *)
THEOREM ArmingIsCounted == Spec => ArmingClock
<1> DEFINE Step == state = "PhoneArming" /\ state' = "PhoneArming" =>
                     armAge' = IF mixAndWrite THEN armAge + 1 ELSE armAge
<1>1. Inv /\ ArmingBound /\ [Next]_vars => [Step]_vars
  <2> SUFFICES ASSUME Inv, ArmingBound, [Next]_vars, state = "PhoneArming",
                      state' = "PhoneArming"
               PROVE  armAge' = IF mixAndWrite THEN armAge + 1 ELSE armAge
    OBVIOUS
  <2>1. CASE mixAndWrite
    <3>1. armAge' = Older(armAge, ArmFrames) /\ armAge <= ArmFrames
      BY <2>1 DEF mixAndWrite, ArmingBound
    <3>2. armAge \in Int /\ ArmFrames \in Int
      BY RouterAssumption DEF Inv, TypeOK
    <3>3. armAge' = armAge + 1
      BY <3>1, <3>2 DEF Older
    <3>4. QED BY <2>1, <3>3
  <2>2. CASE ~mixAndWrite
    <3>1. armAge' = armAge \/ \E e \in Event : applyEvent(e)
      BY <2>2, PostedAreEvents
      DEF Next, Network, AudioThread, Environment, vars, Call, StoreHeartbeat, Post,
          AnnounceReady, PostReady, BeginTick, DrainDone, updateTimers, readSources,
          closeFade, SourceFails, SourceRestored, PhoneDies, smVars, DrainEvent, Inv, TypeOK
    <3>2. QED BY <2>2, <3>1, ClockKept
  <2>3. QED BY <2>1, <2>2
<1>2. QED BY <1>1, ArmingSafety, RouterInvariant, PTL DEF Spec, ArmingClock

-----------------------------------------------------------------------------
(* What is audible has been read: the step that reads decides on the state *)
(* in which the frame is then mixed, unless a failure has changed it.      *)
LEMMA FadesStep == Inv /\ FadesAreFed /\ [Next]_vars => FadesAreFed'
<1> SUFFICES ASSUME Inv, FadesAreFed, [Next]_vars, pc' = "mix",
                    state' \in {"PhoneActive", "ReturningToLocal", "Muted"}
             PROVE  Audible' \subseteq fed' \union failing'
  BY DEF FadesAreFed
<1>1. CASE readSources
  <2>1. UNCHANGED <<state, gatePos, fadePos, gateTarget, failing>>
    <3>1. ~(localFails \/ phoneFails)
      BY <1>1 DEF readSources, applyEvent, StateAfter, ModeEvent
    <3>2. QED BY <1>1, <3>1 DEF readSources, smVars, gainVars
  <2>2. CASE state = "Muted"
    <3>1. gateTarget = 0
      BY <2>2 DEF Inv, SmInv, MixFollowsState, Silent
    <3>2. CASE gatePos = 0
      BY <2>1, <3>2 DEF Audible
    <3>3. CASE gatePos # 0
      BY <1>1, <2>1, <3>1, <3>3 DEF readSources, Audible, localRead, phoneRead, gateActive
    <3>4. QED BY <3>2, <3>3
  <2>3. CASE state \in {"PhoneActive", "ReturningToLocal"}
    <3>1. localRead /\ wantsPhone(state)
      BY <2>3 DEF localRead, wantsLocal, wantsPhone
    <3>2. ~localFails
      BY <1>1, <2>1, <2>3 DEF readSources, applyEvent, StateAfter, ModeEvent
    <3>3. QED BY <1>1, <2>1, <3>1, <3>2 DEF readSources, Audible, phoneRead
  <2>4. QED BY <2>1, <2>2, <2>3
<1>2. CASE ~readSources
  <2>1. UNCHANGED <<pc, state, gatePos, fadePos, fed, failing>>
    BY <1>2 DEF Next, Network, AudioThread, Environment, vars, Call, StoreHeartbeat,
       Post, AnnounceReady, PostReady, BeginTick, DrainEvent, DrainDone, updateTimers,
       mixAndWrite, closeFade, SourceFails, SourceRestored, PhoneDies, smVars, gainVars
  <2>2. QED BY <2>1 DEF FadesAreFed, Audible
<1>3. QED BY <1>1, <1>2

(* A source that is audible on the air, on the way back or under mute has  *)
(* been read for the frame, or has failed; for any fade and frame length.  *)
(* (router.cpp, readSources)                                               *)
THEOREM FadesSafety == Spec => []FadesAreFed
<1>1. Init => FadesAreFed
  BY DEF Init, FadesAreFed
<1>2. QED BY <1>1, FadesStep, RouterInvariant, PTL DEF Spec

-----------------------------------------------------------------------------
(* The refinement.                                                         *)

(* The choice as the state machine sees it.                                *)
ChoiceIn(s) == CASE s \in Silent  -> "nothing"
                 [] s \in OnPhone -> "phone"
                 [] OTHER         -> "local"

LEMMA ChoiceFollowsState == SmInv => Choice = ChoiceIn(state)
<1> SUFFICES ASSUME SmInv PROVE Choice = ChoiceIn(state)
  OBVIOUS
<1> USE RouterAssumption
<1>1. CASE state \in Silent
  BY <1>1 DEF SmInv, MixFollowsState, Choice, ChoiceIn, Silent, OnPhone
<1>2. CASE state \in OnPhone
  <2>1. gateTarget # 0 /\ fadeTarget = FadeLen /\ state \notin Silent
    BY <1>2 DEF SmInv, MixFollowsState, OnPhone, Silent
  <2>2. QED BY <1>2, <2>1 DEF Choice, ChoiceIn
<1>3. CASE state \notin Silent \union OnPhone
  <2>1. gateTarget # 0 /\ fadeTarget = 0
    BY <1>3 DEF SmInv, MixFollowsState, OnPhone, Silent
  <2>2. QED BY <1>3, <2>1 DEF Choice, ChoiceIn
<1>4. QED BY <1>1, <1>2, <1>3

(* Every event is a change of mode, of choice, or nothing to the listener. *)
LEMMA EventIsPromised ==
  ASSUME SmInv, NEW e \in Event, applyEvent(e), UNCHANGED gainVars
  PROVE  Listener!Next \/ UNCHANGED Listener!vars
<1>1. /\ mode' = ModeAfter(mode, e) /\ state' = StateAfter(mode, state, e)
      /\ Choice = ChoiceIn(state) /\ Choice' = ChoiceIn(state') /\ Heard' = Heard
  <2>1. SmInv'
    BY ApplyEventInv
  <2>2. (SmInv => Choice = ChoiceIn(state))'
    BY ChoiceFollowsState, PTL
  <2>3. QED BY <2>1, <2>2, ChoiceFollowsState DEF applyEvent, gainVars, Heard
<1>2. CASE e \in ModeEvent
  <2>1. mode' \in Listener!Mode /\ state' = restingStateFor(mode')
    BY <1>1, <1>2 DEF StateAfter, ModeAfter, ModeEvent, Listener!Mode
  <2>2. Choice' \in Listener!Allowed(mode') \ (IF mode' = "Auto" THEN {"phone"} ELSE {})
    BY <1>1, <2>1 DEF Listener!Mode, Listener!Allowed, restingStateFor, ChoiceIn, Silent,
       OnPhone
  <2>3. Listener!SetMode
    BY <1>1, <2>1, <2>2 DEF Listener!SetMode
  <2>4. QED BY <2>3 DEF Listener!Next
<1>3. CASE e \notin ModeEvent
  <2>1. mode' = mode
    BY <1>1, <1>3 DEF ModeAfter, ModeEvent
  <2>2. CASE ChoiceIn(state') = ChoiceIn(state)
    BY <1>1, <2>1, <2>2 DEF Listener!vars
  <2>3. CASE state' = "ErrorRecovery"
    <3>1. Listener!Fail
      BY <1>1, <2>1, <2>3 DEF Listener!Fail, ChoiceIn, Silent, OnPhone
    <3>2. QED BY <3>1 DEF Listener!Next
  <2>4. CASE state = "ErrorRecovery" /\ state' # state
    <3>1. state' = restingStateFor(mode)
      BY <1>1, <1>3, <2>4 DEF StateAfter
    <3>2. Listener!Recover
      BY <1>1, <2>1, <2>4, <3>1
      DEF Listener!Recover, Listener!Allowed, ChoiceIn, Silent, OnPhone, restingStateFor,
          SmInv, RoutingMode
    <3>3. QED BY <3>2 DEF Listener!Next
  <2>5. CASE state # "ErrorRecovery" /\ state' # "ErrorRecovery"
             /\ ChoiceIn(state') # ChoiceIn(state)
    <3>1. \/ state = "PhoneArming" /\ state' = "PhoneActive"
          \/ state = "PhoneActive" /\ state' = "ReturningToLocal"
      BY <1>1, <1>3, <2>5 DEF StateAfter, ChoiceIn, Silent, OnPhone
    <3>2. mode = "Auto"
      BY <3>1 DEF SmInv, ModeConfinesState, RoutingMode, restingStateFor
    <3>3. Listener!Talk
      BY <1>1, <2>1, <3>1, <3>2 DEF Listener!Talk, ChoiceIn, Silent, OnPhone
    <3>4. QED BY <3>3 DEF Listener!Next
  <2>6. QED BY <2>2, <2>3, <2>4, <2>5
<1>4. QED BY <1>2, <1>3

(* Move strictly approaches a target it has not reached.                   *)
LEMMA MoveApproaches ==
  ASSUME NEW pos \in 0..FadeLen
  PROVE  /\ Move(pos, 0) \in 0..FadeLen /\ (pos # 0 => Move(pos, 0) < pos)
         /\ pos = 0 => Move(pos, 0) = 0
         /\ Move(pos, FadeLen) \in 0..FadeLen
         /\ pos # FadeLen => Move(pos, FadeLen) > pos
         /\ pos = FadeLen => Move(pos, FadeLen) = FadeLen
  BY RouterAssumption DEF Move

(* A mixed frame takes what is heard toward the choice, or leaves it.      *)
LEMMA FrameIsPromised ==
  ASSUME Inv, mixAndWrite
  PROVE  Listener!Frame \/ UNCHANGED Listener!vars
<1> USE RouterAssumption
<1>1. /\ mode' = mode /\ Choice' = Choice
      /\ fadePos \in 0..FadeLen /\ gatePos \in 0..FadeLen
      /\ fadeTarget \in {0, FadeLen} /\ gateTarget \in {0, FadeLen}
      /\ fadePos' = Move(fadePos, fadeTarget) /\ gatePos' = Move(gatePos, gateTarget)
  BY DEF mixAndWrite, Choice, Inv, TypeOK
<1>2. CASE Heard = Choice
  <2>1. CASE gateTarget = 0
    <3>1. gatePos = 0
      BY <1>1, <1>2, <2>1 DEF Heard, Choice
    <3>2. gatePos' = 0
      BY <1>1, <2>1, <3>1, MoveApproaches
    <3>3. QED BY <1>1, <3>1, <3>2 DEF Heard, Listener!vars
  <2>2. CASE gateTarget # 0
    <3>1. gatePos = FadeLen /\ fadePos = fadeTarget
      BY <1>1, <1>2, <2>2 DEF Heard, Choice
    <3>2. gatePos' = gatePos /\ fadePos' = fadePos
      BY <1>1, <2>2, <3>1, MoveApproaches
    <3>3. QED BY <1>1, <3>2 DEF Heard, Listener!vars
  <2>3. QED BY <2>1, <2>2
<1>3. CASE Heard # Choice
  <2>1. CASE gateTarget = 0
    <3>1. gatePos # 0
      BY <1>1, <1>3, <2>1 DEF Heard, Choice
    <3>2. gatePos' < FadeLen
      BY <1>1, <2>1, <3>1, MoveApproaches
    <3>3. QED BY <1>1, <1>3, <2>1, <3>2 DEF Heard, Choice, Listener!Frame
  <2>2. CASE gateTarget = FadeLen /\ fadeTarget = 0
    <3>1. gatePos' # 0 /\ fadePos' < FadeLen
      BY <1>1, <2>2, MoveApproaches
    <3>2. Choice = "local" /\ Heard' \in {"between", "local"}
      BY <2>2, <3>1 DEF Heard, Choice
    <3>3. QED BY <1>1, <1>3, <3>2 DEF Listener!Frame
  <2>3. CASE gateTarget = FadeLen /\ fadeTarget = FadeLen
    <3>1. gatePos' # 0 /\ fadePos' # 0
      BY <1>1, <2>3, MoveApproaches
    <3>2. Choice = "phone" /\ Heard' \in {"between", "phone"}
      BY <2>3, <3>1 DEF Heard, Choice
    <3>3. QED BY <1>1, <1>3, <3>2 DEF Listener!Frame
  <2>4. QED BY <1>1, <2>1, <2>2, <2>3
<1>4. QED BY <1>2, <1>3

(* Every step of the router is a step of MicSwitch, or none.               *)
LEMMA StepIsPromised == Inv /\ [Next]_vars => [Listener!Next]_(Listener!vars)
<1> SUFFICES ASSUME Inv, [Next]_vars PROVE Listener!Next \/ UNCHANGED Listener!vars
  OBVIOUS
<1>1. CASE mixAndWrite
  BY <1>1, FrameIsPromised DEF Listener!Next
<1>2. CASE \E e \in Event : applyEvent(e) /\ UNCHANGED gainVars
  BY <1>2, EventIsPromised DEF Inv
<1>3. CASE UNCHANGED <<smVars, gainVars>>
  BY <1>3 DEF smVars, gainVars, Listener!vars, Choice, Heard
<1>4. mixAndWrite \/ (\E e \in Event : applyEvent(e) /\ UNCHANGED gainVars)
      \/ UNCHANGED <<smVars, gainVars>>
  <2>1. CASE DrainEvent
    <3>1. Head(events) \in Event
      BY <2>1 DEF DrainEvent, Inv, TypeOK
    <3>2. QED BY <2>1, <3>1 DEF DrainEvent
  <2>2. CASE updateTimers \/ readSources \/ closeFade
    BY <2>2, PostedAreEvents DEF updateTimers, readSources, closeFade
  <2>3. CASE Network \/ Environment \/ AnnounceReady \/ PostReady \/ BeginTick \/ DrainDone
             \/ UNCHANGED vars
    BY <2>3 DEF Network, Environment, vars, Call, StoreHeartbeat, Post, AnnounceReady,
       PostReady, BeginTick, DrainDone, SourceFails, SourceRestored, PhoneDies
  <2>4. QED BY <2>1, <2>2, <2>3 DEF Next, AudioThread
<1>5. QED BY <1>1, <1>2, <1>3, <1>4

(* The router implements what MicSwitch promises the listener, as far as   *)
(* safety goes: threads, lost events, clocks and fades are nothing else    *)
(* than its five steps.  (router.cpp, applyEvent and mixAndWrite)          *)
THEOREM RouterImplementsSwitch == Spec => Listener!Safety
<1>1. Init => Listener!Init
  BY RouterAssumption DEF Init, Listener!Init, Choice, Heard
<1>2. QED BY <1>1, StepIsPromised, RouterInvariant, PTL DEF Spec, Listener!Safety
=============================================================================
