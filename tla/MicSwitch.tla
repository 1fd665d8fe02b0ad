------------------------------ MODULE MicSwitch ------------------------------
(***************************************************************************)
(* What SmartMic promises whoever listens to its microphone, without       *)
(* threads, events, timers or gains: the user's routing mode, the source   *)
(* the program has settled on, and what is heard.  AudioRouter implements  *)
(* it.                                                                     *)
(***************************************************************************)
VARIABLES
  mode,    \* the routing mode
  choice,  \* "local", "phone" or "nothing"
  heard    \* the same, or "between" while one fades into another

vars == <<mode, choice, heard>>

Mode == {"Auto", "PhoneOnly", "LocalOnly", "Mute"}

(* What each mode lets the listener hear; a failure may silence any of     *)
(* them.                                                                   *)
Allowed(m) ==
  CASE m = "Auto"      -> {"local", "phone"}
    [] m = "PhoneOnly" -> {"phone"}
    [] m = "LocalOnly" -> {"local"}
    [] m = "Mute"      -> {"nothing"}

Init == mode = "Auto" /\ choice = "local" /\ heard = "local"

(* The user changes the mode: the phone is not on the air at once unless   *)
(* it is all there may be.                                                 *)
SetMode ==
  /\ mode' \in Mode
  /\ choice' \in Allowed(mode') \ (IF mode' = "Auto" THEN {"phone"} ELSE {})
  /\ UNCHANGED heard

(* Push to talk: the phone takes over from the local microphone, and hands *)
(* back to it.                                                             *)
Talk ==
  /\ mode = "Auto" /\ {choice, choice'} = {"local", "phone"}
  /\ UNCHANGED <<mode, heard>>

(* A source fails: silence, and then what the mode rests on.               *)
Fail == choice' = "nothing" /\ UNCHANGED <<mode, heard>>

Recover ==
  /\ choice = "nothing"
  /\ choice' \in Allowed(mode) \ (IF mode = "Auto" THEN {"phone"} ELSE {})
  /\ UNCHANGED <<mode, heard>>

(* A frame: what is heard moves toward the choice and never to anything    *)
(* else.                                                                   *)
Frame ==
  /\ heard # choice /\ heard' \in {"between", choice}
  /\ UNCHANGED <<mode, choice>>

Next == SetMode \/ Talk \/ Fail \/ Recover \/ Frame

(* Once a choice is kept for good, it is what is heard.                    *)
Settles == <>[][UNCHANGED choice]_vars => <>[](heard = choice)

Safety == Init /\ [][Next]_vars
Spec   == Safety /\ Settles
=============================================================================
