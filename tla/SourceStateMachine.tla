------------------------- MODULE SourceStateMachine -------------------------
(***************************************************************************)
(* The PC's source state machine (windows/audio-service,                   *)
(* source_state_machine.cpp): which source the router wants to be heard.   *)
(* The class is a pure transition function over (mode_, state_), so it is  *)
(* a set of operators here; AudioRouter owns the two variables.            *)
(***************************************************************************)

SourceState == {"LocalActive", "PhoneArming", "PhoneActive",
                "ReturningToLocal", "PhoneOnly", "LocalOnly", "Muted",
                "ErrorRecovery"}

RoutingMode == {"Auto", "PhoneOnly", "LocalOnly", "Mute"}

ModeEvent == {"ModeAuto", "ModePhoneOnly", "ModeLocalOnly", "ModeMute"}

Event == ModeEvent \union
         {"StartPtt", "StopPtt", "PhoneReady", "PhoneLost", "ArmTimeout",
          "FadeComplete", "SourceFailure", "Recovered"}

restingStateFor(m) ==
  CASE m = "Auto"      -> "LocalActive"
    [] m = "PhoneOnly" -> "PhoneOnly"
    [] m = "LocalOnly" -> "LocalOnly"
    [] m = "Mute"      -> "Muted"

(* apply(): the mode after event e.  Only a mode event changes it.         *)
ModeAfter(m, e) ==
  CASE e = "ModeAuto"      -> "Auto"
    [] e = "ModePhoneOnly" -> "PhoneOnly"
    [] e = "ModeLocalOnly" -> "LocalOnly"
    [] e = "ModeMute"      -> "Mute"
    [] OTHER               -> m

(* apply(): the state after event e.  A rejected event and an accepted     *)
(* no-op both leave the state alone; the difference is only logged.        *)
StateAfter(m, s, e) ==
  CASE e \in ModeEvent -> restingStateFor(ModeAfter(m, e))
    [] e = "StartPtt" /\ m = "Auto" /\ s \in {"LocalActive", "ReturningToLocal"}
         -> "PhoneArming"
    [] e = "StopPtt" /\ m = "Auto" /\ s = "PhoneActive" -> "ReturningToLocal"
    [] e = "StopPtt" /\ m = "Auto" /\ s = "PhoneArming" -> "LocalActive"
    [] e = "PhoneReady" /\ s = "PhoneArming" -> "PhoneActive"
    [] e = "PhoneLost" /\ s = "PhoneActive" -> "ReturningToLocal"
    [] e \in {"PhoneLost", "ArmTimeout"} /\ s = "PhoneArming" -> "ErrorRecovery"
    [] e = "FadeComplete" /\ s = "ReturningToLocal" -> "LocalActive"
    [] e = "SourceFailure" -> "ErrorRecovery"
    [] e = "Recovered" /\ s = "ErrorRecovery" -> restingStateFor(m)
    [] OTHER -> s

wantsPhone(s) == s \in {"PhoneActive", "ReturningToLocal", "PhoneOnly"}

wantsLocal(s) == s \in {"LocalActive", "LocalOnly", "PhoneArming",
                        "PhoneActive", "ReturningToLocal"}
=============================================================================
