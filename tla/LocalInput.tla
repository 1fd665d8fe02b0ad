----------------------------- MODULE LocalInput -----------------------------
(***************************************************************************)
(* Which microphone and which output the PC uses: the device registry, the *)
(* WASAPI enumerator that fills it, and the start-up of the two programs   *)
(* around them.  "service" (apps/service/main.cpp) resolves an input once; *)
(* "live" (audio-service/app/main.cpp) is told one and follows hot-plug:   *)
(* Windows calls back on a thread of its own, one notification at a time.  *)
(* Devices are numbered in the order Windows lists them; one whose id      *)
(* cannot be read counts as skipped.                                       *)
(***************************************************************************)
EXTENDS Integers

CONSTANTS
  Devices,     \* number of capture devices there may be
  Own,         \* those that are SmartMic's own endpoint
  Named,       \* those with a name like SmartMic's, if it can be read
  MaxChanges   \* bound: changes of the devices

ASSUME InputAssumption ==
  Devices \in Nat /\ Own \subseteq 1..Devices /\ Named \subseteq 1..Devices /\ MaxChanges \in Nat

None    == 0
Device  == 1..Devices
SinkOption == {"auto", "driver", "wav", "cable"}

VARIABLES
  present, default,   \* what Windows has, and calls the default
  changes,            \* changes so far
  notices,            \* notifications Windows has still to deliver
  devices, marked, defaultKnown,   \* of the registry: the devices, which of
                      \* them it holds for SmartMic's own, and the default
  preferred, autoPrefer,
  app, option,        \* which program, and its --sink
  phase,              \* of its main thread
  opened, sink,       \* what it captures from and plays to
  listening,          \* enumerator made; notifications registered; onChanged_ set
  notif,              \* the enumeration in progress, of either thread
  list, seen, whole,  \* its devices and default; nothing has failed in it
  missed,             \* history: a change that no notification told of
  faulty,             \* history: the registry's list is of a failed enumeration
  misjudged           \* history: one took SmartMic's endpoint for another

osVars   == <<present, default, changes, notices>>
regVars  == <<devices, marked, defaultKnown, preferred, autoPrefer>>
appVars  == <<app, option, phase, opened, sink, listening>>
enumVars == <<notif, list, seen, whole, faulty, misjudged>>
vars     == <<osVars, regVars, appVars, enumVars, missed>>
-----------------------------------------------------------------------------
(* The registry.                                                           *)
usable == devices \ marked
first(D) == CHOOSE d \in D : \A e \in D : d <= e

resolveEffectiveInput_DefaultUnchecked ==
  CASE preferred \in usable -> preferred
    [] preferred \notin usable /\ defaultKnown \in devices -> defaultKnown
    [] OTHER -> IF usable # {} THEN first(usable) ELSE None
resolveEffectiveInput ==
  CASE preferred \in usable -> preferred
    [] preferred \notin usable /\ defaultKnown \in usable -> defaultKnown
    [] OTHER -> IF usable # {} THEN first(usable) ELSE None

setDevices(D, M, d) ==
  /\ devices' = D /\ marked' = M /\ defaultKnown' = d
  /\ preferred' = IF autoPrefer /\ devices # {} /\ (D \ M) \ devices # {}
                  THEN first((D \ M) \ devices) ELSE preferred
  /\ UNCHANGED autoPrefer

(* The setters, at any time: runLive passes --in to the first; a desktop   *)
(* application is meant to call both.                                      *)
setPreferredInput ==
  /\ phase # "gone" /\ \E d \in usable : preferred' = d
  /\ UNCHANGED <<osVars, devices, marked, defaultKnown, autoPrefer, appVars, enumVars, missed>>

setAutoPreferNewDevices ==
  /\ phase # "gone" /\ autoPrefer' = ~autoPrefer
  /\ UNCHANGED <<osVars, devices, marked, defaultKnown, preferred, appVars, enumVars, missed>>
-----------------------------------------------------------------------------
(* Windows: a device comes or goes, or another one becomes the default;    *)
(* whoever is registered is notified.                                      *)
Change ==
  /\ changes < MaxChanges /\ changes' = changes + 1
  /\ \E d \in Device :
       \/ d \notin present /\ present' = present \union {d} /\ default' \in {default, d}
       \/ d \in present /\ present' = present \ {d}
          /\ default' = IF d = default THEN (IF present' = {} THEN None ELSE first(present'))
                        ELSE default
       \/ d \in present \ {default} /\ default' = d /\ UNCHANGED present
  /\ notices' = IF "registered" \in listening THEN notices + 1 ELSE notices
  /\ missed' = (missed \/ (phase # "boot" /\ "registered" \notin listening))
  /\ UNCHANGED <<regVars, appVars, enumVars>>

(* A notification runs the enumerator's callback; without one it is gone.  *)
fire ==
  /\ notices > 0 /\ notices' = notices - 1
  /\ IF "callback" \in listening THEN notif = "idle" /\ notif' = "called"
                                 ELSE UNCHANGED notif
  /\ missed' = (missed \/ (/\ "callback" \notin listening
                           /\ phase # "initialised" /\ notif # "called"))
  /\ UNCHANGED <<present, default, changes, regVars, appVars, list, seen, whole, faulty,
                 misjudged>>

(* enumerate(): EnumAudioEndpoints lists the devices, and where it fails   *)
(* the list is empty ...                                                   *)
enumerate ==
  /\ notif = "called"
  /\ \/ "enumerator" \in listening /\ notif' = "listed" /\ list' = present /\ whole' = TRUE
     \/ notif' = "known" /\ list' = {} /\ whole' = FALSE
  /\ seen' = None
  /\ UNCHANGED <<osVars, regVars, appVars, faulty, misjudged, missed>>

(* ... GetDefaultAudioEndpoint or its GetId may fail as well ...           *)
askDefault ==
  /\ notif = "listed" /\ notif' = "known"
  /\ seen' \in {default, None} /\ whole' = (whole /\ seen' = default)
  /\ UNCHANGED <<osVars, regVars, appVars, list, faulty, misjudged, missed>>

(* ... and Item, which skips the device, and the reading of a name, without*)
(* which no device looks like SmartMic's.  All there is left goes into the *)
(* registry, the main thread's first list in the same way; what enumerate()*)
(* kept of its own is gone.                                                *)
looksLikeSmartMicEndpoint(D) == D \intersect Named
forgetList == list' = {} /\ seen' = None /\ whole' = TRUE
rememberAll_DropsLater ==
  /\ notif = "known" /\ notif' = "idle"
  /\ \E D \in SUBSET list : \E M \in SUBSET looksLikeSmartMicEndpoint(D) :
       /\ setDevices(D, M, IF seen \in D THEN seen ELSE None)
       /\ faulty' = (~whole \/ D # list)
       /\ misjudged' = (misjudged \/ (D \ M) \intersect Own # {})
  /\ phase' = IF phase = "enumerating" THEN "choosing" ELSE phase
  /\ notices' = 0
  /\ forgetList
  /\ UNCHANGED <<present, default, changes, app, option, opened, sink, listening, missed>>
rememberAll ==
  /\ notif = "known" /\ notif' = "idle"
  /\ \E D \in SUBSET list : \E M \in SUBSET looksLikeSmartMicEndpoint(D) :
       /\ setDevices(D, M, IF seen \in D THEN seen ELSE None)
       /\ faulty' = (~whole \/ D # list)
       /\ misjudged' = (misjudged \/ (D \ M) \intersect Own # {})
  /\ phase' = IF phase = "enumerating" THEN "choosing" ELSE phase
  /\ forgetList
  /\ UNCHANGED <<osVars, app, option, opened, sink, listening, missed>>
-----------------------------------------------------------------------------
(* The programs.                                                           *)
(* Where the enumerator cannot be made, runLive gives up and the service   *)
(* goes on with an empty list; whether the registration of notifications   *)
(* succeeds nobody asks.                                                   *)
initialise ==
  /\ phase = "boot"
  /\ \/ /\ phase' = "initialised"
        /\ listening' \in {{"enumerator"}, {"enumerator", "registered"}}
     \/ UNCHANGED listening
        /\ phase' = IF app = "live" THEN "leaving" ELSE "initialised"
  /\ UNCHANGED <<osVars, regVars, app, option, opened, sink, enumVars, missed>>

firstDevices ==
  /\ phase = "initialised" /\ phase' = "enumerating" /\ notif' = "called"
  /\ UNCHANGED <<osVars, regVars, app, option, opened, sink, listening, list, seen, whole,
                 faulty, misjudged, missed>>

(* The service takes what the registry resolves to.                        *)
chooseService ==
  /\ phase = "choosing" /\ app = "service"
  /\ opened' = resolveEffectiveInput
  /\ phase' = IF opened' = None THEN "leaving" ELSE "sink"
  /\ UNCHANGED <<osVars, regVars, app, option, sink, listening, enumVars, missed>>

(* runLive takes --in, if the registry takes it.                           *)
chooseLive ==
  /\ phase = "choosing" /\ app = "live"
  /\ \E in \in Device :
       IF in \in usable
       THEN preferred' = in /\ opened' = in /\ phase' = "sink"
       ELSE UNCHANGED <<preferred, opened>> /\ phase' = "leaving"
  /\ UNCHANGED <<osVars, devices, marked, defaultKnown, autoPrefer, app, option, sink,
                 listening, enumVars, missed>>

(* --sink: only "auto" may fall back to a file.                            *)
chooseSink_AlwaysFallsBack ==
  /\ phase = "sink" /\ phase' = "start"
  /\ \/ option \in {"wav", "cable"} /\ sink' = option
     \/ option \in {"auto", "driver"} /\ sink' \in {"driver", "wav"}
  /\ UNCHANGED <<osVars, regVars, app, option, opened, listening, enumVars, missed>>
chooseSink ==
  /\ phase = "sink"
  /\ \/ option \in {"wav", "cable"} /\ sink' = option /\ phase' = "start"
     \/ option \in {"auto", "driver"} /\ sink' = "driver" /\ phase' = "start"
     \/ option = "auto" /\ sink' = "wav" /\ phase' = "start"
     \/ option = "driver" /\ sink' = sink /\ phase' = "leaving"
  /\ UNCHANGED <<osVars, regVars, app, option, opened, listening, enumVars, missed>>

(* Opening either end may fail; so it must if the device is gone.          *)
startBoth ==
  /\ phase = "start"
  /\ \/ opened \in present /\ phase' = "running"
     \/ phase' = "leaving"
  /\ UNCHANGED <<osVars, regVars, app, option, opened, sink, listening, enumVars, missed>>

onDevicesChanged ==
  /\ phase = "running" /\ app = "live" /\ "callback" \notin listening
  /\ listening' = listening \union {"callback"}
  /\ UNCHANGED <<osVars, regVars, app, option, phase, opened, sink, enumVars, missed>>

quit ==
  /\ phase = "running" /\ phase' = "leaving"
  /\ app = "live" => "callback" \in listening
  /\ UNCHANGED <<osVars, regVars, app, option, opened, sink, listening, enumVars, missed>>

(* shutdown(): unregistering waits for the notification in progress.       *)
shutdown ==
  /\ phase = "leaving" /\ notif = "idle" /\ phase' = "gone"
  /\ listening' = {} /\ notices' = 0
  /\ UNCHANGED <<present, default, changes, regVars, app, option, opened, sink,
                 enumVars, missed>>
-----------------------------------------------------------------------------
Init ==
  /\ present \in SUBSET Device /\ default \in present \union {None} /\ changes = 0
  /\ present # {} => default # None
  /\ notices = 0
  /\ devices = {} /\ marked = {} /\ defaultKnown = None
  /\ preferred = None /\ autoPrefer = FALSE
  /\ app \in {"service", "live"} /\ option \in SinkOption
  /\ app = "live" => option = "cable"
  /\ phase = "boot" /\ opened = None /\ sink = "none" /\ listening = {}
  /\ notif = "idle" /\ list = {} /\ seen = None /\ whole = TRUE
  /\ faulty = FALSE /\ misjudged = FALSE /\ missed = FALSE

Notification == fire \/ enumerate \/ askDefault \/ rememberAll
Start == initialise \/ firstDevices \/ chooseService \/ chooseLive \/ chooseSink
         \/ startBoth \/ onDevicesChanged

Next == setPreferredInput \/ setAutoPreferNewDevices \/ Change \/ Notification
        \/ Start \/ quit \/ shutdown

(* The program starts, and Windows delivers its notifications.             *)
Spec == Init /\ [][Next]_vars /\ WF_vars(Start) /\ WF_vars(Notification)
-----------------------------------------------------------------------------
(* The state stays well formed; in particular the default is one of the    *)
(* devices listed with it.  (wasapi_device_enumerator.cpp, enumerate)      *)
TypeOK ==
  /\ present \subseteq Device /\ default \in present \union {None}
  /\ changes \in 0..MaxChanges /\ notices \in 0..MaxChanges
  /\ devices \subseteq Device /\ marked \subseteq devices
  /\ defaultKnown \in devices \union {None}
  /\ preferred \in Device \union {None} /\ autoPrefer \in BOOLEAN
  /\ app \in {"service", "live"} /\ option \in SinkOption
  /\ phase \in {"boot", "initialised", "enumerating", "choosing", "sink", "start", "running",
                "leaving", "gone"}
  /\ opened \in Device \union {None} /\ sink \in {"none", "driver", "wav", "cable"}
  /\ listening \subseteq {"enumerator", "registered", "callback"}
  /\ notif \in {"idle", "called", "listed", "known"}
  /\ list \subseteq Device /\ seen \in Device \union {None}
  /\ whole \in BOOLEAN /\ faulty \in BOOLEAN /\ misjudged \in BOOLEAN /\ missed \in BOOLEAN

(* However devices are plugged, unplugged, preferred, half enumerated or   *)
(* made the default, SmartMic takes its own endpoint for an input only if  *)
(* an enumeration took it for another's: its name unread, or renamed.      *)
(* Nothing stands behind the name then: the router, whose refusal the code *)
(* counts on, accepts any source (router.cpp, setLocalSource).  And some   *)
(* input is taken as long as the registry knows a usable one.              *)
(* (device_registry.cpp, guards #1 and #2)                                 *)
OwnOnlyIfMisjudged ==
  /\ resolveEffectiveInput \in Own \/ opened \in Own \/ preferred \in Own => misjudged
  /\ usable # {} => resolveEffectiveInput \in usable

(* A program that runs has an input, and the output it was asked for: only *)
(* "auto" may be a file instead of the driver.  (service main.cpp, --sink) *)
RunsAsAsked ==
  phase = "running" => /\ opened \in Device
                       /\ option # "auto" => sink = option
                       /\ option = "auto" => sink \in {"driver", "wav"}

(* Devices may come and go while others are being listed: when they have   *)
(* settled the registry knows what there is, unless one came or went       *)
(* before the program listened, or the last enumeration failed somewhere:  *)
(* its list stays, and nobody tries again before the next change.          *)
(* (audio-service main.cpp, runLive; wasapi_device_enumerator.cpp)         *)
InventoryIsCurrent ==
  <>[](phase = "running" /\ app = "live") /\ []~missed
    => <>[](faulty \/ (devices = present /\ defaultKnown = default))
=============================================================================
