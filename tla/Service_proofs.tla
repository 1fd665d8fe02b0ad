---------------------------- MODULE Service_proofs ----------------------------
(***************************************************************************)
(* Proofs about what the service's main program brings together: the input *)
(* it captures from (LocalInput), for any number of devices, any of which  *)
(* may be SmartMic's own, and push to talk with the phone (PttProtocol),   *)
(* for any timeouts, lag of the worker and number of presses.              *)
(***************************************************************************)
EXTENDS LocalInput, PttProtocol, WellFoundedInduction, TLAPS

-----------------------------------------------------------------------------
(* The registry's operators.                                               *)

LEMMA LeastOf ==
  ASSUME NEW D \in SUBSET Nat, D # {}
  PROVE  \E d \in D : \A e \in D : d <= e
<1> DEFINE R == OpToRel(<, Nat)
<1>1. IsWellFoundedOn(R, Nat)
  BY NatLessThanWellFounded
<1>2. \A x, y \in Nat : x < y => <<x, y>> \in R
  BY DEF OpToRel
<1> HIDE DEF R
<1>3. PICK d \in D : \A e \in D : <<e, d>> \notin R
  BY <1>1, WFMin
<1>4. ASSUME NEW e \in D PROVE d <= e
  <2>1. ~(e < d)
    BY <1>2, <1>3
  <2>2. QED BY <2>1
<1>5. QED BY <1>4

LEMMA FirstIsOneOf ==
  ASSUME NEW D \in SUBSET Device, D # {}
  PROVE  first(D) \in D
<1>1. D \in SUBSET Nat
  BY InputAssumption DEF InputAssumption, Device
<1>2. \E d \in D : \A e \in D : d <= e
  BY <1>1, LeastOf
<1>3. QED BY <1>2 DEF first

(* What the registry resolves to is usable, if anything is.                *)
LEMMA ResolvesToUsable ==
  ASSUME devices \in SUBSET Device
  PROVE  /\ usable # {} => resolveEffectiveInput \in usable
         /\ usable = {} => resolveEffectiveInput = None
<1>1. usable # {} => first(usable) \in usable
  BY FirstIsOneOf DEF usable
<1>2. QED BY <1>1 DEF resolveEffectiveInput

-----------------------------------------------------------------------------
(* The inductive invariant.                                                *)

(* What may be chosen is SmartMic's own only after a misjudgement.  Once an*)
(* input is chosen it stays; what it is played to is chosen next.          *)
ChosenInv ==
  /\ preferred \in Own \/ opened \in Own \/ usable \intersect Own # {} => misjudged
  /\ phase \in {"sink", "start", "running"} => opened \in Device
  /\ phase \in {"start", "running"} => /\ option # "auto" => sink = option
                                       /\ option = "auto" => sink \in {"driver", "wav"}

InputInv == TypeOK /\ notices <= changes /\ ChosenInv

LEMMA InitInput == Init => InputInv
<1> SUFFICES ASSUME Init PROVE InputInv
  OBVIOUS
<1>1. None \notin Own /\ MaxChanges \in Nat
  BY InputAssumption DEF InputAssumption, None
<1>2. TypeOK
  <2>1. /\ present \subseteq Device /\ default \in present \union {None}
        /\ changes \in 0..MaxChanges /\ notices \in 0..MaxChanges
        /\ devices \subseteq Device /\ marked \subseteq devices
        /\ defaultKnown \in devices \union {None} /\ preferred \in Device \union {None}
    BY <1>1 DEF Init
  <2>2. /\ app \in {"service", "live"} /\ option \in SinkOption
        /\ phase = "boot" /\ opened \in Device \union {None} /\ sink = "none"
        /\ listening = {} /\ notif = "idle" /\ list \subseteq Device
        /\ seen \in Device \union {None}
    BY DEF Init
  <2>3. /\ missed \in BOOLEAN /\ autoPrefer \in BOOLEAN /\ whole \in BOOLEAN
        /\ faulty \in BOOLEAN /\ misjudged \in BOOLEAN
    BY DEF Init
  <2>4. QED BY <2>1, <2>2, <2>3 DEF TypeOK
<1>3. ChosenInv /\ notices <= changes
  BY <1>1 DEF Init, ChosenInv, usable
<1>4. QED BY <1>2, <1>3 DEF InputInv

(* The registry's own step: what is preferred from now on was preferred or *)
(* is usable in the new list.                                              *)
LEMMA SetDevicesStep ==
  ASSUME TypeOK, NEW D \in SUBSET Device, NEW M \in SUBSET D, NEW d \in D \union {None},
         setDevices(D, M, d)
  PROVE  /\ devices' \subseteq Device /\ marked' \subseteq devices'
         /\ defaultKnown' \in devices' \union {None} /\ usable' = D \ M
         /\ preferred' \in {preferred} \union (D \ M)
         /\ preferred' \in Device \union {None} /\ autoPrefer' \in BOOLEAN
<1> DEFINE appeared == (D \ M) \ devices
<1>1. appeared # {} => first(appeared) \in appeared
  BY FirstIsOneOf
<1>2. devices' = D /\ marked' = M /\ defaultKnown' = d /\ autoPrefer' = autoPrefer
  BY DEF setDevices
<1>3. usable' = D \ M
  BY <1>2 DEF usable
<1>4. preferred' \in {preferred} \union (D \ M)
  BY <1>1 DEF setDevices
<1>5. autoPrefer' \in BOOLEAN /\ preferred' \in Device \union {None}
  BY <1>2, <1>4 DEF TypeOK
<1>6. QED BY <1>2, <1>3, <1>4, <1>5

LEMMA ChangeStep ==
  ASSUME InputInv, Change
  PROVE  InputInv'
<1>1. UNCHANGED <<regVars, appVars, enumVars>>
  BY DEF Change
<1>2. changes' \in 0..MaxChanges /\ notices' \in 0..MaxChanges /\ notices' <= changes'
  BY InputAssumption DEF Change, InputInv, TypeOK, InputAssumption
<1>3. present' \subseteq Device /\ default' \in present' \union {None}
  <2>1. PICK d \in Device :
          \/ d \notin present /\ present' = present \union {d} /\ default' \in {default, d}
          \/ d \in present /\ present' = present \ {d}
             /\ default' = IF d = default
                           THEN (IF present' = {} THEN None ELSE first(present'))
                           ELSE default
          \/ d \in present \ {default} /\ default' = d /\ UNCHANGED present
    BY DEF Change
  <2>2. present' \in SUBSET Device
    BY <2>1 DEF InputInv, TypeOK
  <2>3. present' # {} => first(present') \in present'
    BY <2>2, FirstIsOneOf
  <2>4. QED BY <2>1, <2>2, <2>3 DEF InputInv, TypeOK
<1>4. missed' \in BOOLEAN
  BY DEF Change, InputInv, TypeOK
<1>5. TypeOK'
  BY <1>1, <1>2, <1>3, <1>4 DEF InputInv, TypeOK, regVars, appVars, enumVars
<1>6. ChosenInv'
  BY <1>1 DEF InputInv, ChosenInv, usable, regVars, appVars, enumVars
<1>7. QED BY <1>2, <1>5, <1>6 DEF InputInv

LEMMA NotificationStep ==
  ASSUME InputInv, Notification
  PROVE  InputInv'
<1>1. CASE fire \/ enumerate \/ askDefault
  <2>1. /\ UNCHANGED <<present, default, changes, regVars, appVars, faulty, misjudged>>
        /\ notices' \in {notices, notices - 1} /\ (notices' # notices => notices > 0)
    BY <1>1 DEF fire, enumerate, askDefault, osVars
  <2>2. notices' \in 0..MaxChanges /\ notices' <= changes'
    BY <2>1, InputAssumption DEF InputInv, TypeOK, InputAssumption
  <2>3. /\ notif' \in {notif, "called", "listed", "known"}
        /\ list' \in {list, present, {}} /\ seen' \in {seen, default, None}
    BY <1>1 DEF fire, enumerate, askDefault
  <2>4. whole' \in BOOLEAN /\ missed' \in BOOLEAN
    BY <1>1 DEF fire, enumerate, askDefault, InputInv, TypeOK
  <2>5. TypeOK'
    <3>1. /\ notif' \in {"idle", "called", "listed", "known"}
          /\ list' \subseteq Device /\ seen' \in Device \union {None}
      BY <2>3 DEF InputInv, TypeOK
    <3>2. QED BY <2>1, <2>2, <2>4, <3>1 DEF InputInv, TypeOK, regVars, appVars
  <2>6. ChosenInv'
    BY <2>1 DEF InputInv, ChosenInv, usable, regVars, appVars
  <2>7. QED BY <2>2, <2>5, <2>6 DEF InputInv
<1>2. CASE rememberAll
  <2>1. /\ UNCHANGED <<osVars, app, option, opened, sink, listening, missed>>
        /\ notif' = "idle" /\ forgetList
        /\ phase' = IF phase = "enumerating" THEN "choosing" ELSE phase
    BY <1>2 DEF rememberAll
  <2>2. PICK D \in SUBSET list : \E M \in SUBSET looksLikeSmartMicEndpoint(D) :
          /\ setDevices(D, M, IF seen \in D THEN seen ELSE None)
          /\ faulty' = (~whole \/ D # list)
          /\ misjudged' = (misjudged \/ (D \ M) \intersect Own # {})
    BY <1>2 DEF rememberAll
  <2>3. PICK M \in SUBSET looksLikeSmartMicEndpoint(D) :
          /\ setDevices(D, M, IF seen \in D THEN seen ELSE None)
          /\ faulty' = (~whole \/ D # list)
          /\ misjudged' = (misjudged \/ (D \ M) \intersect Own # {})
    BY <2>2
  <2>4. D \in SUBSET Device /\ M \in SUBSET D /\ TypeOK
    BY DEF InputInv, TypeOK, looksLikeSmartMicEndpoint
  <2>5. (IF seen \in D THEN seen ELSE None) \in D \union {None}
    OBVIOUS
  <2>6. /\ devices' \subseteq Device /\ marked' \subseteq devices'
        /\ defaultKnown' \in devices' \union {None} /\ usable' = D \ M
        /\ preferred' \in {preferred} \union (D \ M)
        /\ preferred' \in Device \union {None} /\ autoPrefer' \in BOOLEAN
    BY <2>3, <2>4, <2>5, SetDevicesStep
  <2>7. faulty' \in BOOLEAN /\ misjudged' \in BOOLEAN /\ whole' \in BOOLEAN
    BY <2>1, <2>3 DEF forgetList
  <2>8. TypeOK'
    <3>1. /\ list' \subseteq Device /\ seen' \in Device \union {None}
          /\ phase' \in {"choosing", phase}
      BY <2>1 DEF forgetList
    <3>2. QED BY <2>1, <2>6, <2>7, <3>1 DEF InputInv, TypeOK, osVars
  <2>9. ChosenInv'
    <3>1. misjudged => misjudged'
      BY <2>3
    <3>2. (D \ M) \intersect Own # {} => misjudged'
      BY <2>3
    <3>3. preferred' \in Own \/ opened' \in Own \/ usable' \intersect Own # {} => misjudged'
      BY <2>1, <2>6, <3>1, <3>2 DEF InputInv, ChosenInv
    <3>4. QED BY <2>1, <3>3 DEF InputInv, ChosenInv
  <2>10. notices' <= changes'
    BY <2>1 DEF InputInv, osVars
  <2>11. QED BY <2>8, <2>9, <2>10 DEF InputInv
<1>3. QED BY <1>1, <1>2 DEF Notification

LEMMA StartStep ==
  ASSUME InputInv, Start
  PROVE  InputInv'
<1> USE DEF InputInv, TypeOK, ChosenInv, osVars, regVars, appVars, enumVars, usable
<1>1. CASE initialise
  <2>1. /\ phase' \in {"leaving", "initialised"}
        /\ listening' \in {listening, {"enumerator"}, {"enumerator", "registered"}}
        /\ UNCHANGED <<osVars, regVars, app, option, opened, sink, enumVars, missed>>
    BY <1>1 DEF initialise
  <2>2. QED BY <2>1
<1>2. CASE firstDevices
  BY <1>2 DEF firstDevices
<1>3. CASE chooseService
  <2>1. resolveEffectiveInput # None => resolveEffectiveInput \in usable
    BY ResolvesToUsable
  <2>2. None \notin Own
    BY InputAssumption DEF InputAssumption, None
  <2>3. /\ opened' = resolveEffectiveInput
        /\ phase' = IF opened' = None THEN "leaving" ELSE "sink"
        /\ UNCHANGED <<osVars, regVars, app, option, sink, listening, enumVars, missed>>
    BY <1>3 DEF chooseService
  <2>4. opened' \in Own => misjudged
    BY <2>1, <2>2, <2>3
  <2>5. opened' \in Device \union {None}
    BY <2>1, <2>3
  <2>6. QED BY <2>3, <2>4, <2>5
<1>4. CASE chooseLive
  BY <1>4 DEF chooseLive
<1>5. CASE chooseSink
  BY <1>5 DEF chooseSink, SinkOption
<1>6. CASE startBoth
  BY <1>6 DEF startBoth
<1>7. CASE onDevicesChanged
  BY <1>7 DEF onDevicesChanged
<1>8. QED BY <1>1, <1>2, <1>3, <1>4, <1>5, <1>6, <1>7 DEF Start

LEMMA InputInvariant == Spec => []InputInv
<1>1. Init => InputInv
  BY InitInput
<1>2. InputInv /\ [Next]_vars => InputInv'
  <2> SUFFICES ASSUME InputInv, [Next]_vars PROVE InputInv'
    OBVIOUS
  <2>1. CASE setPreferredInput \/ setAutoPreferNewDevices
    <3>1. preferred' \in {preferred} \union usable /\ autoPrefer' \in BOOLEAN
      BY <2>1 DEF setPreferredInput, setAutoPreferNewDevices, InputInv, TypeOK
    <3>2. UNCHANGED <<osVars, devices, marked, defaultKnown, appVars, enumVars, missed>>
      BY <2>1 DEF setPreferredInput, setAutoPreferNewDevices
    <3>3. QED BY <3>1, <3>2 DEF InputInv, TypeOK, ChosenInv, osVars, appVars, enumVars,
                                usable
  <2>2. CASE Change
    BY <2>2, ChangeStep
  <2>3. CASE Notification
    BY <2>3, NotificationStep
  <2>4. CASE Start
    BY <2>4, StartStep
  <2>5. CASE quit \/ shutdown
    <3>1. /\ phase' \in {"leaving", "gone"} /\ listening' \in {listening, {}}
          /\ notices' \in {notices, 0}
          /\ UNCHANGED <<present, default, changes, regVars, app, option, opened, sink,
                         enumVars, missed>>
      BY <2>5 DEF quit, shutdown, osVars
    <3>2. changes \in 0..MaxChanges /\ notices' \in 0..MaxChanges /\ notices' <= changes
      BY <3>1, InputAssumption DEF InputInv, TypeOK, InputAssumption
    <3>3. QED BY <3>1, <3>2 DEF InputInv, TypeOK, ChosenInv, regVars, enumVars, usable
  <2>6. CASE UNCHANGED vars
    BY <2>6 DEF vars, osVars, regVars, appVars, enumVars, InputInv, TypeOK, ChosenInv, usable
  <2>7. QED BY <2>1, <2>2, <2>3, <2>4, <2>5, <2>6 DEF Next
<1>3. QED BY <1>1, <1>2, PTL DEF Spec

-----------------------------------------------------------------------------
(* Registry, notifications and both programs stay well formed under        *)
(* hot-plug and failing enumerations; a default is always a device of the  *)
(* list it came with.  (device_registry.cpp, setDevices)                   *)
THEOREM InputTypeOK == Spec => []TypeOK
<1>1. InputInv => TypeOK
  BY DEF InputInv
<1>2. QED BY <1>1, InputInvariant, PTL

(* Neither the registry nor a program takes SmartMic's own endpoint for an *)
(* input unless an enumeration took it for another's, whichever names      *)
(* cannot be read and however devices come and go while they are listed;   *)
(* and the registry resolves to a usable device as long as it knows one.   *)
(* (device_registry.cpp, setDevices and resolveEffectiveInput)             *)
THEOREM OwnTakenOnlyIfMisjudged == Spec => []OwnOnlyIfMisjudged
<1>1. InputInv => OwnOnlyIfMisjudged
  <2> SUFFICES ASSUME InputInv PROVE OwnOnlyIfMisjudged
    OBVIOUS
  <2>1. None \notin Own
    BY InputAssumption DEF InputAssumption, None
  <2>2. devices \in SUBSET Device
    BY DEF InputInv, TypeOK
  <2>3. resolveEffectiveInput \in Own => usable \intersect Own # {}
    BY <2>1, <2>2, ResolvesToUsable
  <2>4. QED BY <2>2, <2>3, ResolvesToUsable DEF InputInv, ChosenInv, OwnOnlyIfMisjudged
<1>2. QED BY <1>1, InputInvariant, PTL

(* A program that runs captures from a device and plays to what --sink     *)
(* asked for; "auto" alone may settle for a file.                          *)
(* (apps/service/main.cpp, the choice of the sink)                         *)
THEOREM RunSafety == Spec => []RunsAsAsked
<1>1. InputInv => RunsAsAsked
  BY DEF InputInv, ChosenInv, RunsAsAsked
<1>2. QED BY <1>1, InputInvariant, PTL

-----------------------------------------------------------------------------
(* What InventoryIsCurrent rests on beside fairness.                       *)

(* Nothing that was told is forgotten: a program that runs and has no      *)
(* notification left to handle knows the devices there are and their       *)
(* default, unless one changed before it listened or the last enumeration  *)
(* failed.  (audio-service main.cpp, runLive)                              *)
NothingForgotten ==
  /\ phase = "running" /\ "registered" \in listening /\ ~missed
  /\ notices = 0 /\ notif = "idle" /\ ~faulty
  => devices = present /\ defaultKnown = default

(* A list is taken by the main thread once, and by the callback, which is  *)
(* set last.                                                               *)
NotifInv ==
  /\ "callback" \in listening => phase \in {"running", "leaving"}
  /\ notif # "idle" => "callback" \in listening \/ phase = "enumerating"
  /\ phase = "enumerating" => notif # "idle"

(* What the registry does not know yet it is about to be told: the list    *)
(* has still to be taken, or was taken with no change since.               *)
Started == /\ "registered" \in listening
           /\ phase \in {"enumerating", "choosing", "sink", "start", "running"}
Told ==
  \/ notices > 0 \/ notif = "called"
  \/ notif = "listed" /\ (whole => list = present)
  \/ notif = "known" /\ (whole => list = present /\ seen = default)
  \/ notif = "idle" /\ (faulty \/ (devices = present /\ defaultKnown = default))
ToldInv == Started /\ ~missed => Told

LEMMA NotifStep == InputInv /\ NotifInv /\ [Next]_vars => NotifInv'
<1> SUFFICES ASSUME InputInv, NotifInv, [Next]_vars PROVE NotifInv'
  OBVIOUS
<1> USE DEF NotifInv
<1>1. CASE fire
  BY <1>1 DEF fire, appVars
<1>2. CASE enumerate \/ askDefault
  BY <1>2 DEF enumerate, askDefault, appVars
<1>3. CASE rememberAll
  <2>1. /\ notif' = "idle" /\ listening' = listening
        /\ phase' = IF phase = "enumerating" THEN "choosing" ELSE phase
    BY <1>3 DEF rememberAll
  <2>2. QED BY <2>1
<1>4. CASE initialise
  BY <1>4 DEF initialise, enumVars
<1>5. CASE firstDevices
  BY <1>5 DEF firstDevices
<1>6. CASE chooseService \/ chooseLive \/ chooseSink \/ startBoth \/ onDevicesChanged
  BY <1>6 DEF chooseService, chooseLive, chooseSink, startBoth, onDevicesChanged, enumVars
<1>7. CASE quit \/ shutdown
  BY <1>7 DEF quit, shutdown, enumVars
<1>8. CASE setPreferredInput \/ setAutoPreferNewDevices \/ Change \/ UNCHANGED vars
  BY <1>8 DEF setPreferredInput, setAutoPreferNewDevices, Change, vars, appVars, enumVars
<1>9. QED BY <1>1, <1>2, <1>3, <1>4, <1>5, <1>6, <1>7, <1>8 DEF Next, Notification, Start

LEMMA ToldStep == InputInv /\ NotifInv /\ ToldInv /\ [Next]_vars => ToldInv'
<1> SUFFICES ASSUME InputInv, NotifInv, ToldInv, [Next]_vars, Started', ~missed'
             PROVE  Told'
  BY DEF ToldInv
<1>1. /\ notices \in Nat /\ notif \in {"idle", "called", "listed", "known"}
      /\ default \in present \union {None} /\ None \notin present
  BY InputAssumption DEF InputInv, TypeOK, InputAssumption, Device, None
(* A change of the devices is told.                                        *)
<1>2. CASE Change
  BY <1>1, <1>2 DEF Change, Started, Told, appVars
(* Before the callback is set a notification is missed, unless the first   *)
(* list has still to be taken.                                             *)
<1>3. CASE fire
  <2>1. CASE "callback" \in listening
    BY <1>3, <2>1 DEF fire, Told
  <2>2. CASE "callback" \notin listening
    <3>1. phase' = phase /\ notif' = notif
      BY <1>3, <2>2 DEF fire, appVars
    <3>2. phase = "initialised" \/ notif = "called"
      BY <1>3, <2>2 DEF fire
    <3>3. notif = "called"
      BY <3>1, <3>2 DEF Started
    <3>4. QED BY <3>1, <3>3 DEF Told
  <2>3. QED BY <2>1, <2>2
<1>4. CASE enumerate
  BY <1>4 DEF enumerate, Told, osVars
(* The list is still what there is, or another notification is due.        *)
<1>5. CASE askDefault
  <2>1. Started /\ ~missed /\ notif = "listed" /\ UNCHANGED <<osVars, list>>
    BY <1>5 DEF askDefault, Started, appVars
  <2>2. notices > 0 \/ (whole => list = present)
    BY <2>1 DEF ToldInv, Told
  <2>3. notif' = "known" /\ whole' = (whole /\ seen' = default)
    BY <1>5 DEF askDefault
  <2>4. QED BY <2>1, <2>2, <2>3 DEF Told, osVars
<1>6. CASE rememberAll
  <2>1. /\ missed' = missed /\ listening' = listening /\ notif = "known" /\ notif' = "idle"
        /\ phase' = IF phase = "enumerating" THEN "choosing" ELSE phase
        /\ UNCHANGED <<present, default, notices>>
    BY <1>6 DEF rememberAll, osVars
  <2>2. Started
    BY <2>1 DEF Started, NotifInv
  <2>3. notices > 0 \/ (whole => list = present /\ seen = default)
    BY <2>1, <2>2 DEF ToldInv, Told
  <2>4. PICK D \in SUBSET list : \E M \in SUBSET looksLikeSmartMicEndpoint(D) :
          /\ setDevices(D, M, IF seen \in D THEN seen ELSE None)
          /\ faulty' = (~whole \/ D # list)
          /\ misjudged' = (misjudged \/ (D \ M) \intersect Own # {})
    BY <1>6 DEF rememberAll
  <2>5. /\ devices' = D /\ defaultKnown' = IF seen \in D THEN seen ELSE None
        /\ faulty' = (~whole \/ D # list)
    BY <2>4 DEF setDevices
  <2>6. CASE notices > 0
    BY <2>1, <2>6 DEF Told
  <2>7. CASE whole => list = present /\ seen = default
    <3>1. CASE ~whole \/ D # list
      BY <2>1, <2>5, <3>1 DEF Told
    <3>2. CASE whole /\ D = list
      <4>1. D = present /\ seen = default
        BY <2>7, <3>2
      <4>2. devices' = present' /\ defaultKnown' = default'
        BY <1>1, <2>1, <2>5, <4>1
      <4>3. QED BY <2>1, <4>2 DEF Told
    <3>3. QED BY <3>1, <3>2
  <2>8. QED BY <2>3, <2>6, <2>7
<1>7. CASE firstDevices
  BY <1>7 DEF firstDevices, Told
<1>8. CASE chooseService \/ chooseLive \/ chooseSink \/ startBoth \/ onDevicesChanged
  <2>1. UNCHANGED <<osVars, devices, defaultKnown, notif, list, seen, whole, faulty, missed>>
    BY <1>8 DEF chooseService, chooseLive, chooseSink, startBoth, onDevicesChanged, regVars,
                enumVars
  <2>2. Started
    BY <1>8 DEF chooseService, chooseLive, chooseSink, startBoth, onDevicesChanged, Started
  <2>3. QED BY <2>1, <2>2 DEF ToldInv, Told, osVars
<1>9. CASE setPreferredInput \/ setAutoPreferNewDevices \/ UNCHANGED vars
  <2>1. /\ UNCHANGED <<osVars, devices, defaultKnown, notif, list, seen, whole, faulty>>
        /\ UNCHANGED <<missed, appVars>>
    BY <1>9 DEF setPreferredInput, setAutoPreferNewDevices, vars, regVars, enumVars
  <2>2. QED BY <2>1 DEF ToldInv, Told, Started, osVars, appVars
<1>10. CASE initialise \/ quit \/ shutdown
  BY <1>10 DEF initialise, quit, shutdown, Started
<1>11. QED BY <1>2, <1>3, <1>4, <1>5, <1>6, <1>7, <1>8, <1>9, <1>10
           DEF Next, Notification, Start

(* The inventory goes stale in no interleaving of hot-plug with the        *)
(* enumeration's separate calls: what has been told and handled is known,  *)
(* unless one of those calls failed in the last enumeration.               *)
(* (wasapi_device_enumerator.cpp, enumerate)                               *)
THEOREM InventorySafety == Spec => []NothingForgotten
<1>1. Init => NotifInv /\ ToldInv
  BY DEF Init, NotifInv, ToldInv, Started
<1>2. InputInv /\ ToldInv => NothingForgotten
  <2>1. InputInv => notices \in Nat
    BY InputAssumption DEF InputInv, TypeOK, InputAssumption
  <2>2. QED BY <2>1 DEF ToldInv, Told, NothingForgotten, Started
<1>3. QED BY <1>1, <1>2, NotifStep, ToldStep, InputInvariant, PTL DEF Spec

-----------------------------------------------------------------------------
(* Push to talk.  First the clocks, which saturate.                        *)

LEMMA LaterStays ==
  ASSUME NEW cap \in Nat, NEW a \in 0..cap
  PROVE  later(a, cap) \in 0..cap
BY DEF later

LEMMA PttConstants ==
  /\ ArmFrames \in Nat /\ LostFrames \in Nat /\ WorkerLag \in Nat
  /\ MaxPresses \in Nat \ {0} /\ AgeCap \in Nat
BY PttAssumption DEF PttAssumption, AgeCap

(* In mode Auto the router's machine stays in its states, and only         *)
(* START_PTT starts to arm it.                                             *)
LEMMA AutoStates ==
  ASSUME NEW s \in SourceState, NEW e \in {"StartPtt", "StopPtt", "PhoneReady",
           "ArmTimeout", "PhoneLost", "FadeComplete", "Recovered", "none"}
  PROVE  /\ StateAfter("Auto", s, e) \in SourceState
         /\ e # "StartPtt" /\ StateAfter("Auto", s, e) = "PhoneArming" => s = "PhoneArming"
         /\ e = "ArmTimeout" => StateAfter("Auto", s, e) # "PhoneArming"
BY DEF StateAfter, SourceState, ModeEvent, restingStateFor

(* The variables by their keeper, each part of the type invariant.         *)
PhoneType ==
  /\ ui \in {"up", "pressing", "down", "lifting"} /\ presses \in 0..MaxPresses
  /\ pressed \in BOOLEAN /\ pttState \in PttState
  /\ age \in 0..AgeCap
  /\ worker \in {"top", "arm", "fail", "drop", "release", "unpin"} /\ tAge \in 0..WorkerLag
  /\ net \in {"idle", "ready"}

NetType ==
  /\ toPc \subseteq Msg("START") \union Msg("STOP")
  /\ toPhone \subseteq Msg("READY") \union Msg("STOPPED")
  /\ media \in BOOLEAN /\ lost \in BOOLEAN

PcType ==
  /\ state \in SourceState /\ armAge \in 0..ArmFrames + 1
  /\ silence \in 0..LostFrames + 1 /\ buffered \in BOOLEAN
  /\ pttRequested \in BOOLEAN /\ announcedReady \in BOOLEAN
  /\ last \in 0..MaxPresses /\ loop \in {"check", "announce", "announced", "tick"}

(* A STOP_PTT and its answer are of a press that has ended.                *)
StopInv ==
  /\ \A m \in toPc \intersect Msg("STOP") :
       m.press <= presses /\ (ui # "up" => m.press < presses)
  /\ \A m \in toPhone \intersect Msg("STOPPED") :
       m.press <= presses /\ (ui # "up" => m.press < presses)

PttInv == PhoneType /\ NetType /\ PcType /\ StopInv /\ TouchDecides /\ AnswerSettles

LEMMA MsgIs ==
  /\ \A t, n : n \in Press => msg(t, n) \in Msg(t)
  /\ \A t, n : msg(t, n).type = t /\ msg(t, n).press = n
  /\ \A t : \A m \in Msg(t) : m = msg(t, m.press) /\ m.press \in Press /\ m.type = t
BY DEF msg, Msg

LEMMA PttInitInv == PttInit => PttInv
<1> SUFFICES ASSUME PttInit PROVE PttInv
  OBVIOUS
<1>1. PhoneType
  <2>1. pressed \in BOOLEAN
    BY DEF PttInit
  <2>2. presses \in 0..MaxPresses /\ age \in 0..AgeCap /\ tAge \in 0..WorkerLag
    BY PttConstants DEF PttInit
  <2>3. /\ ui = "up" /\ pttState \in PttState /\ worker = "top" /\ net = "idle"
    BY DEF PttInit, PttState
  <2>4. QED BY <2>1, <2>2, <2>3 DEF PhoneType
<1>2. 0 \in Press
  BY PttConstants DEF Press
<1>3. NetType
  <2>1. /\ toPc \subseteq {msg("START", 0)}
        /\ toPhone \subseteq {msg("READY", 0), msg("STOPPED", 0)}
    <3>1. LeftOver
      BY DEF PttInit
    <3>2. QED BY <3>1 DEF LeftOver
  <2>2. msg("START", 0) \in Msg("START") /\ msg("READY", 0) \in Msg("READY")
        /\ msg("STOPPED", 0) \in Msg("STOPPED")
    BY <1>2, MsgIs
  <2>3. media \in BOOLEAN /\ lost \in BOOLEAN
    BY DEF PttInit
  <2>4. QED BY <2>1, <2>2, <2>3 DEF NetType
<1>4. PcType
  <2>1. announcedReady \in BOOLEAN
    <3>1. announcedReady = (msg("READY", 0) \in toPhone)
      BY DEF PttInit, LeftOver
    <3>2. QED BY <3>1
  <2>2. buffered \in BOOLEAN /\ pttRequested \in BOOLEAN
    BY DEF PttInit
  <2>3. QED BY <2>1, <2>2, PttConstants DEF PttInit, PcType, SourceState
<1>5. StopInv
  <2>1. \A m \in toPc \union toPhone : m.press = 0
    <3>1. LeftOver
      BY DEF PttInit
    <3>2. QED BY <3>1, MsgIs DEF LeftOver
  <2>2. ui = "up" /\ presses = 0
    BY DEF PttInit
  <2>3. QED BY <2>1, <2>2 DEF StopInv
<1>6. TouchDecides /\ AnswerSettles
  BY DEF PttInit, TouchDecides, AnswerSettles, Answered
<1>7. QED BY <1>1, <1>3, <1>4, <1>5, <1>6 DEF PttInv
(* What a step leaves alone.                                               *)
LEMMA PcStays ==
  ASSUME PcType, UNCHANGED pcVars
  PROVE  PcType'
BY DEF PcType, pcVars, routerVars

LEMMA NetStays ==
  ASSUME NetType, StopInv, UNCHANGED <<toPc, toPhone, media, lost, ui, presses>>
  PROVE  NetType' /\ StopInv' /\ (Answered' <=> Answered)
BY DEF NetType, StopInv, Answered

(* The phone's UI thread: a touch makes what is under way an earlier       *)
(* press's, and only a release asks for an answer.                         *)
LEMMA TouchSafe == ASSUME PttInv, Touch \/ UiStep PROVE PttInv'
<1>1. PhoneType /\ NetType /\ PcType /\ StopInv /\ TouchDecides
  BY DEF PttInv
<1>2. PcType'
  BY <1>1, PcStays DEF Touch, UiStep, onPointerDown, sm_phone_press, onTouchLost,
                       sm_phone_release
<1>3. presses \in Nat /\ presses <= MaxPresses
  BY <1>1, PttConstants DEF PhoneType
<1>4. toPhone' = toPhone /\ media' = media /\ lost' = lost /\ worker' = worker
      /\ tAge' = tAge /\ net' = net
  BY DEF Touch, UiStep, onPointerDown, sm_phone_press, onTouchLost, sm_phone_release, netVars
<1>5. CASE onPointerDown
  <2>1. /\ ui = "up" /\ presses < MaxPresses /\ ui' = "pressing" /\ presses' = presses + 1
        /\ pressed' = TRUE /\ pttState' = pttState /\ age' = age /\ toPc' = toPc
    BY <1>5 DEF onPointerDown, netVars
  <2>2. PhoneType'
    <3>1. pressed' \in BOOLEAN
      BY <2>1
    <3>2. presses' \in 0..MaxPresses
      BY <1>3, <2>1, PttConstants
    <3>3. QED BY <1>1, <1>4, <2>1, <3>1, <3>2 DEF PhoneType
  <2>3. NetType'
    BY <1>1, <1>4, <2>1 DEF NetType
  <2>4. StopInv'
    <3>1. \A m \in (toPc \intersect Msg("STOP")) \union (toPhone \intersect Msg("STOPPED")) :
            m.press \in Int
      BY MsgIs, PttConstants DEF Press
    <3>2. QED BY <1>1, <1>3, <1>4, <2>1, <3>1 DEF StopInv
  <2>5. TouchDecides'
    BY <1>1, <2>1 DEF TouchDecides
  <2>6. AnswerSettles'
    BY <2>1 DEF AnswerSettles, Answered
  <2>7. QED BY <1>2, <2>2, <2>3, <2>4, <2>5, <2>6 DEF PttInv
<1>6. CASE sm_phone_press
  <2>1. /\ ui = "pressing" /\ ui' = "down" /\ age' = 0 /\ pttState' = "CONNECTING"
        /\ toPc' = toPc \union {msg("START", presses)}
        /\ presses' = presses /\ pressed' = pressed
    BY <1>6 DEF sm_phone_press
  <2>2. PhoneType'
    BY <1>1, <1>4, <2>1, PttConstants DEF PhoneType, PttState
  <2>3. msg("START", presses) \in Msg("START") /\ msg("START", presses) \notin Msg("STOP")
    BY <1>1, MsgIs DEF PhoneType, Press
  <2>4. NetType'
    BY <1>1, <1>4, <2>1, <2>3 DEF NetType
  <2>5. StopInv'
    BY <1>1, <1>4, <2>1, <2>3 DEF StopInv
  <2>6. TouchDecides'
    BY <1>1, <2>1 DEF TouchDecides
  <2>7. AnswerSettles'
    BY <2>1 DEF AnswerSettles, Answered
  <2>8. QED BY <1>2, <2>2, <2>4, <2>5, <2>6, <2>7 DEF PttInv
<1>7. CASE onTouchLost
  <2>1. /\ ui = "down" /\ ui' = "lifting" /\ pressed' = FALSE
        /\ presses' = presses /\ pttState' = pttState /\ age' = age /\ toPc' = toPc
    BY <1>7 DEF onTouchLost, netVars
  <2>2. PhoneType'
    <3>1. pressed' \in BOOLEAN
      BY <2>1
    <3>2. QED BY <1>1, <1>4, <2>1, <3>1 DEF PhoneType
  <2>3. NetType' /\ StopInv'
    BY <1>1, <1>4, <2>1 DEF NetType, StopInv
  <2>4. TouchDecides'
    BY <1>1, <2>1 DEF TouchDecides
  <2>5. AnswerSettles'
    BY <2>1 DEF AnswerSettles, Answered
  <2>6. QED BY <1>2, <2>2, <2>3, <2>4, <2>5 DEF PttInv
<1>8. CASE sm_phone_release
  <2>1. /\ ui = "lifting" /\ ui' = "up" /\ age' = 0
        /\ pttState' = (IF pttState # "READY" THEN "RELEASING" ELSE pttState)
        /\ toPc' = toPc \union {msg("STOP", presses)}
        /\ presses' = presses /\ pressed' = pressed
    BY <1>8 DEF sm_phone_release
  <2>2. PhoneType'
    BY <1>1, <1>4, <2>1, PttConstants DEF PhoneType, PttState
  <2>3. msg("STOP", presses) \in Msg("STOP") /\ msg("STOP", presses).press = presses
    BY <1>1, MsgIs DEF PhoneType, Press
  <2>4. NetType'
    BY <1>1, <1>4, <2>1, <2>3 DEF NetType
  <2>5. StopInv'
    BY <1>1, <1>3, <1>4, <2>1, <2>3 DEF StopInv
  <2>6. TouchDecides'
    BY <1>1, <2>1 DEF TouchDecides
  <2>7. AnswerSettles'
    BY <2>1 DEF AnswerSettles, Answered
  <2>8. QED BY <1>2, <2>2, <2>4, <2>5, <2>6, <2>7 DEF PttInv
<1>9. QED BY <1>5, <1>6, <1>7, <1>8 DEF Touch, UiStep

(* The phone's network thread.  Only an answer of a release before this    *)
(* one leaves Answered as it is.                                           *)
LEMMA ControlSafe == ASSUME PttInv, Control PROVE PttInv'
<1>1. PhoneType /\ NetType /\ PcType /\ StopInv /\ TouchDecides /\ AnswerSettles
  BY DEF PttInv
<1>2. PcType'
  BY <1>1, PcStays DEF Control, onPttReady, goLive, onPttStopped
<1>3. CASE onPttReady
  <2>1. PICK m \in toPhone \intersect Msg("READY") : toPhone' = toPhone \ {m}
    BY <1>3 DEF onPttReady
  <2>2. /\ net = "idle" /\ net' = (IF pressed THEN "ready" ELSE "idle")
        /\ UNCHANGED <<ui, presses, pressed, pttState, age, worker, tAge, toPc, media, lost>>
    BY <1>3 DEF onPttReady
  <2>3. PhoneType' /\ NetType' /\ StopInv' /\ TouchDecides'
    <3>1. PhoneType'
      BY <1>1, <2>2 DEF PhoneType
    <3>2. NetType' /\ StopInv'
      BY <1>1, <2>1, <2>2 DEF NetType, StopInv
    <3>3. TouchDecides'
      BY <1>1, <2>2 DEF TouchDecides
    <3>4. QED BY <3>1, <3>2, <3>3
  <2>4. Answered' => Answered
    <3>1. m # msg("STOPPED", presses)
      BY <2>1, MsgIs DEF Msg
    <3>2. QED BY <2>1, <2>2, <3>1 DEF Answered
  <2>5. AnswerSettles'
    BY <1>1, <2>2, <2>4 DEF AnswerSettles
  <2>6. QED BY <1>2, <2>3, <2>5 DEF PttInv
<1>4. CASE goLive
  <2>1. /\ net = "ready" /\ net' = "idle" /\ pttState' = "LIVE"
        /\ UNCHANGED <<ui, presses, pressed, age, worker, tAge, toPc, toPhone, media, lost>>
    BY <1>4 DEF goLive, netVars
  <2>2. PhoneType' /\ TouchDecides'
    BY <1>1, <2>1 DEF PhoneType, TouchDecides, PttState
  <2>3. NetType' /\ StopInv' /\ (Answered' <=> Answered)
    BY <1>1, <2>1, NetStays
  <2>4. AnswerSettles'
    BY <1>1, <2>1, <2>3 DEF AnswerSettles
  <2>5. QED BY <1>2, <2>2, <2>3, <2>4 DEF PttInv
<1>5. CASE onPttStopped
  <2>1. PICK m \in toPhone \intersect Msg("STOPPED") : toPhone' = toPhone \ {m}
    BY <1>5 DEF onPttStopped
  <2>2. /\ net = "idle" /\ pttState' = "READY"
        /\ UNCHANGED <<ui, presses, pressed, age, worker, tAge, net, toPc, media, lost>>
    BY <1>5 DEF onPttStopped
  <2>3. PhoneType' /\ TouchDecides'
    BY <1>1, <2>2 DEF PhoneType, TouchDecides, PttState
  <2>4. NetType' /\ StopInv'
    BY <1>1, <2>1, <2>2 DEF NetType, StopInv
  <2>5. AnswerSettles'
    BY <1>1, <2>2 DEF AnswerSettles, Answered, TouchDecides
  <2>6. QED BY <1>2, <2>3, <2>4, <2>5 DEF PttInv
<1>6. QED BY <1>3, <1>4, <1>5 DEF Control
(* The worker and the clock: what the worker stores is no state a finger   *)
(* would show, and FAILED and READY are what an answer leaves.             *)
LEMMA WorkerSafe == ASSUME PttInv, Worker \/ Tick PROVE PttInv'
<1>1. PhoneType /\ NetType /\ PcType /\ StopInv /\ TouchDecides /\ AnswerSettles
  BY DEF PttInv
<1>2. PcType'
  BY <1>1, PcStays DEF Worker, Tick, workerPass, checkArm, fail, dropPress, checkRelease, unpin
<1>3. UNCHANGED <<ui, presses, net, toPc, toPhone, media, lost>>
  BY DEF Worker, Tick, workerPass, checkArm, fail, dropPress, checkRelease, unpin, netVars
<1>4. NetType' /\ StopInv' /\ (Answered' <=> Answered)
  BY <1>1, <1>3, NetStays
<1>5. /\ pttState' \in {pttState, "FAILED", "READY"}
      /\ pressed' = pressed \/ pressed' = FALSE
  BY DEF Worker, Tick, workerPass, checkArm, fail, dropPress, checkRelease, unpin
<1>6. TouchDecides' /\ AnswerSettles'
  BY <1>1, <1>3, <1>4, <1>5 DEF TouchDecides, AnswerSettles
<1>7. PhoneType'
  <2>1. pttState' \in PttState /\ pressed' \in BOOLEAN
    BY <1>1, <1>5 DEF PhoneType, PttState
  <2>2. worker' \in {"top", "arm", "fail", "drop", "release", "unpin"}
    BY <1>1 DEF Worker, Tick, workerPass, checkArm, fail, dropPress, checkRelease, unpin,
                PhoneType
  <2>3. age' \in 0..AgeCap /\ tAge' \in 0..WorkerLag
    <3>1. CASE Worker
      <4>1. age' = age /\ tAge' \in {tAge, 0}
        BY <3>1 DEF Worker, workerPass, checkArm, fail, dropPress, checkRelease, unpin
      <4>2. QED BY <1>1, <4>1, PttConstants DEF PhoneType
    <3>2. CASE Tick
      <4>1. /\ age' \in {age, later(age, AgeCap)}
            /\ \/ tAge' = tAge
               \/ tAge < WorkerLag /\ tAge' = tAge + 1
        BY <3>2 DEF Tick
      <4>2. later(age, AgeCap) \in 0..AgeCap
        BY <1>1, LaterStays, PttConstants DEF PhoneType
      <4>3. QED BY <1>1, <4>1, <4>2, PttConstants DEF PhoneType
    <3>3. QED BY <3>1, <3>2
  <2>4. QED BY <1>1, <1>3, <2>1, <2>2, <2>3 DEF PhoneType
<1>8. QED BY <1>2, <1>4, <1>6, <1>7 DEF PttInv

LEMMA PhoneStays ==
  ASSUME PhoneType, TouchDecides, UNCHANGED phoneVars
  PROVE  PhoneType' /\ TouchDecides'
BY DEF PhoneType, TouchDecides, phoneVars

(* What is lost was counted, if it was a STOP_PTT or its answer.           *)
LEMMA LossSafe == ASSUME PttInv, onCaptureFrame \/ Lose PROVE PttInv'
<1>1. PhoneType /\ NetType /\ PcType /\ StopInv /\ TouchDecides /\ AnswerSettles
  BY DEF PttInv
<1>2. UNCHANGED phoneVars /\ UNCHANGED pcVars
  BY DEF onCaptureFrame, Lose
<1>3. PcType' /\ PhoneType' /\ TouchDecides'
  BY <1>1, <1>2, PcStays, PhoneStays
<1>4. UNCHANGED <<ui, presses, pressed, pttState, net>>
  BY <1>2 DEF phoneVars
<1>5. NetType' /\ StopInv' /\ (Answered' => Answered)
  <2>1. CASE toPc' = toPc /\ toPhone' = toPhone /\ lost' = lost /\ media' \in BOOLEAN
    BY <1>1, <1>4, <2>1 DEF NetType, StopInv, Answered
  <2>2. ASSUME NEW m \in toPc, toPc' = toPc \ {m}, lost' = (lost \/ m.type = "STOP"),
               UNCHANGED <<toPhone, media>>
        PROVE  NetType' /\ StopInv' /\ (Answered' => Answered)
    <3>1. lost' \in BOOLEAN
      BY <1>1, <2>2 DEF NetType
    <3>2. ~lost' => ~lost /\ m # msg("STOP", presses)
      BY <2>2, MsgIs
    <3>3. NetType' /\ StopInv'
      BY <1>1, <1>4, <2>2, <3>1 DEF NetType, StopInv
    <3>4. QED BY <1>4, <2>2, <3>2, <3>3 DEF Answered
  <2>3. ASSUME NEW m \in toPhone, toPhone' = toPhone \ {m},
               lost' = (lost \/ m.type = "STOPPED"), UNCHANGED <<toPc, media>>
        PROVE  NetType' /\ StopInv' /\ (Answered' => Answered)
    <3>1. lost' \in BOOLEAN
      BY <1>1, <2>3 DEF NetType
    <3>2. ~lost' => ~lost /\ m # msg("STOPPED", presses)
      BY <2>3, MsgIs
    <3>3. NetType' /\ StopInv'
      BY <1>1, <1>4, <2>3, <3>1 DEF NetType, StopInv
    <3>4. QED BY <1>4, <2>3, <3>2, <3>3 DEF Answered
  <2>4. CASE onCaptureFrame
    BY <2>1, <2>4 DEF onCaptureFrame
  <2>5. CASE Lose
    BY <2>1, <2>2, <2>3, <2>5 DEF Lose
  <2>6. QED BY <2>4, <2>5
<1>6. AnswerSettles'
  BY <1>1, <1>4, <1>5 DEF AnswerSettles
<1>7. QED BY <1>3, <1>5, <1>6 DEF PttInv

(* The service's network thread: a STOP_PTT that is taken is answered.     *)
LEMMA ServiceSafe == ASSUME PttInv, Service PROVE PttInv'
<1>1. PhoneType /\ NetType /\ PcType /\ StopInv /\ TouchDecides /\ AnswerSettles
  BY DEF PttInv
<1>2. UNCHANGED phoneVars
  BY DEF Service, onMedia, onStartPtt, onStopPtt
<1>3. PhoneType' /\ TouchDecides'
  BY <1>1, <1>2, PhoneStays
<1>4. UNCHANGED <<ui, presses, pressed, pttState, net>>
  BY <1>2 DEF phoneVars
<1>5. ASSUME NEW e \in {"StartPtt", "StopPtt"}, apply(e)
      PROVE  state' \in SourceState /\ armAge' \in 0..ArmFrames + 1
  <2>1. state \in SourceState /\ armAge \in 0..ArmFrames + 1
    BY <1>1 DEF PcType
  <2>2. state' = StateAfter("Auto", state, e) /\ armAge' \in {0, armAge}
    BY <1>5 DEF apply
  <2>3. StateAfter("Auto", state, e) \in SourceState
    BY <2>1, AutoStates
  <2>4. QED BY <2>1, <2>2, <2>3, PttConstants
<1>6. CASE onMedia
  <2>1. /\ media' = FALSE /\ silence' = 0 /\ buffered' = TRUE
        /\ UNCHANGED <<toPc, toPhone, lost, state, armAge, pttRequested, announcedReady,
                       last, loop>>
    BY <1>6 DEF onMedia
  <2>2. media' \in BOOLEAN /\ buffered' \in BOOLEAN
    BY <2>1
  <2>3. NetType' /\ StopInv' /\ (Answered' <=> Answered)
    BY <1>1, <1>4, <2>1, <2>2 DEF NetType, StopInv, Answered
  <2>4. PcType'
    BY <1>1, <2>1, <2>2, PttConstants DEF PcType
  <2>5. AnswerSettles'
    BY <1>1, <1>4, <2>3 DEF AnswerSettles
  <2>6. QED BY <1>3, <2>3, <2>4, <2>5 DEF PttInv
<1>7. CASE onStartPtt
  <2>1. PICK m \in toPc \intersect Msg("START") : toPc' = toPc \ {m} /\ last' = m.press
    BY <1>7 DEF onStartPtt
  <2>2. /\ pttRequested' = TRUE /\ announcedReady' = FALSE /\ apply("StartPtt")
        /\ silence' = 0 /\ UNCHANGED <<toPhone, media, lost, buffered, loop>>
    BY <1>7 DEF onStartPtt
  <2>3. m # msg("STOP", presses) /\ last' \in 0..MaxPresses
    BY <2>1, MsgIs DEF Msg, Press
  <2>4. NetType' /\ StopInv' /\ (Answered' => Answered)
    <3>1. NetType' /\ StopInv'
      BY <1>1, <1>4, <2>1, <2>2 DEF NetType, StopInv
    <3>2. QED BY <1>4, <2>1, <2>2, <2>3, <3>1 DEF Answered
  <2>5. PcType'
    <3>1. pttRequested' \in BOOLEAN /\ announcedReady' \in BOOLEAN
      BY <2>2
    <3>2. state' \in SourceState /\ armAge' \in 0..ArmFrames + 1
      BY <1>5, <2>2
    <3>3. QED BY <1>1, <2>2, <2>3, <3>1, <3>2, PttConstants DEF PcType
  <2>6. AnswerSettles'
    BY <1>1, <1>4, <2>4 DEF AnswerSettles
  <2>7. QED BY <1>3, <2>4, <2>5, <2>6 DEF PttInv
<1>8. CASE onStopPtt
  <2>1. PICK m \in toPc \intersect Msg("STOP") :
          toPc' = toPc \ {m} /\ toPhone' = toPhone \union {msg("STOPPED", m.press)}
    BY <1>8 DEF onStopPtt
  <2>2. /\ pttRequested' = FALSE /\ apply("StopPtt")
        /\ UNCHANGED <<media, lost, silence, buffered, announcedReady, last, loop>>
    BY <1>8 DEF onStopPtt
  <2>3. /\ m = msg("STOP", m.press) /\ msg("STOPPED", m.press) \in Msg("STOPPED")
        /\ msg("STOPPED", m.press).press = m.press
    BY <2>1, MsgIs
  <2>4. NetType' /\ StopInv'
    <3>1. NetType'
      BY <1>1, <2>1, <2>2, <2>3 DEF NetType
    <3>2. StopInv'
      BY <1>1, <1>4, <2>1, <2>3 DEF StopInv
    <3>3. QED BY <3>1, <3>2
  <2>5. Answered' => Answered
    <3>1. CASE m.press = presses
      BY <1>4, <2>1, <3>1 DEF Answered
    <3>2. CASE m.press # presses
      <4>1. m # msg("STOP", presses)
        BY <3>2, MsgIs
      <4>2. QED BY <1>4, <2>1, <2>2, <4>1 DEF Answered
    <3>3. QED BY <3>1, <3>2
  <2>6. PcType'
    <3>1. pttRequested' \in BOOLEAN
      BY <2>2
    <3>2. state' \in SourceState /\ armAge' \in 0..ArmFrames + 1
      BY <1>5, <2>2
    <3>3. QED BY <1>1, <2>2, <3>1, <3>2 DEF PcType
  <2>7. AnswerSettles'
    BY <1>1, <1>4, <2>5 DEF AnswerSettles
  <2>8. QED BY <1>3, <2>4, <2>6, <2>7 DEF PttInv
<1>9. QED BY <1>6, <1>7, <1>8 DEF Service
(* The audio loop: the arming clock is stopped by its timeout.             *)
LEMMA LoopSafe == ASSUME PttInv, Loop PROVE PttInv'
<1>1. PhoneType /\ NetType /\ PcType /\ StopInv /\ TouchDecides /\ AnswerSettles
  BY DEF PttInv
<1>2. UNCHANGED phoneVars
  BY DEF Loop, checkReady, announce, announced, tick
<1>3. PhoneType' /\ TouchDecides'
  BY <1>1, <1>2, PhoneStays
<1>4. UNCHANGED <<ui, presses, pressed, pttState, net>>
  BY <1>2 DEF phoneVars
<1>5. NetType' /\ StopInv' /\ (Answered' => Answered)
  <2>1. CASE announce
    <3>1. toPhone' = toPhone \union {msg("READY", last)}
          /\ UNCHANGED <<toPc, media, lost>>
      BY <2>1 DEF announce
    <3>2. msg("READY", last) \in Msg("READY") /\ msg("READY", last) \notin Msg("STOPPED")
      BY <1>1, MsgIs DEF PcType, Press
    <3>3. NetType' /\ StopInv'
      BY <1>1, <1>4, <3>1, <3>2 DEF NetType, StopInv
    <3>4. QED BY <1>4, <3>1, <3>3 DEF Answered
  <2>2. CASE checkReady \/ announced \/ tick
    <3>1. UNCHANGED <<toPc, toPhone, media, lost>>
      BY <2>2 DEF checkReady, announced, tick, netVars
    <3>2. QED BY <1>1, <1>4, <3>1, NetStays
  <2>3. QED BY <2>1, <2>2 DEF Loop
<1>6. AnswerSettles'
  BY <1>1, <1>4, <1>5 DEF AnswerSettles
<1>7. PcType'
  <2>1. CASE checkReady \/ announced
    BY <1>1, <2>1 DEF checkReady, announced, PcType, routerVars
  <2>2. CASE announce
    <3>1. state' \in SourceState /\ armAge' \in {0, armAge}
      BY <1>1, <2>2, AutoStates DEF announce, apply, PcType
    <3>2. silence' = 0 /\ UNCHANGED <<buffered, pttRequested, announcedReady, last>>
          /\ loop' = "announced"
      BY <2>2 DEF announce
    <3>3. QED BY <1>1, <3>1, <3>2, PttConstants DEF PcType
  <2>3. CASE tick
    <3>1. timer \in {"Recovered", "ArmTimeout", "PhoneLost", "FadeComplete", "none"}
          /\ (state = "PhoneArming" /\ timer # "ArmTimeout" => ~(armAge > ArmFrames))
      BY DEF timer
    <3>2. state' = StateAfter("Auto", state, timer)
      BY <2>3 DEF tick
    <3>3. state' \in SourceState
      BY <1>1, <3>1, <3>2, AutoStates DEF PcType
    <3>4. state' = "PhoneArming" => ~(armAge > ArmFrames)
      BY <1>1, <3>1, <3>2, AutoStates DEF PcType
    <3>5. armAge' \in 0..ArmFrames + 1
      <4>1. armAge' = IF state' = "PhoneArming" THEN armAge + 1 ELSE 0
        BY <2>3 DEF tick
      <4>2. QED BY <1>1, <3>4, <4>1, PttConstants DEF PcType
    <3>6. silence' \in 0..LostFrames + 1
      <4>1. later(silence, LostFrames + 1) \in 0..LostFrames + 1
        BY <1>1, LaterStays, PttConstants DEF PcType
      <4>2. silence' \in {later(silence, LostFrames + 1), 0}
        BY <2>3 DEF tick
      <4>3. QED BY <4>1, <4>2, PttConstants
    <3>7. buffered' \in BOOLEAN
      <4>1. buffered' = (buffered /\ state # "PhoneActive")
        BY <2>3 DEF tick
      <4>2. QED BY <4>1
    <3>8. UNCHANGED <<pttRequested, announcedReady, last>> /\ loop' = "check"
      BY <2>3 DEF tick
    <3>9. QED BY <1>1, <3>3, <3>5, <3>6, <3>7, <3>8 DEF PcType
  <2>4. QED BY <2>1, <2>2, <2>3 DEF Loop
<1>8. QED BY <1>3, <1>5, <1>6, <1>7 DEF PttInv

(* Whatever the network loses and the threads interleave, the invariant    *)
(* of push to talk holds.                                                  *)
THEOREM PttInvariant == PttSpec => []PttInv
<1>1. ASSUME PttInv, [PttNext]_pttVars PROVE PttInv'
  <2>1. CASE UNCHANGED pttVars
    <3>1. UNCHANGED phoneVars /\ UNCHANGED pcVars
          /\ UNCHANGED <<toPc, toPhone, media, lost, ui, presses, pressed, pttState, net>>
      BY <2>1 DEF pttVars, phoneVars, pcVars, netVars
    <3>2. PhoneType' /\ TouchDecides' /\ PcType'
      BY <1>1, <3>1, PhoneStays, PcStays DEF PttInv
    <3>3. NetType' /\ StopInv' /\ (Answered' <=> Answered)
      BY <1>1, <3>1, NetStays DEF PttInv
    <3>4. AnswerSettles'
      BY <1>1, <3>1, <3>3 DEF PttInv, AnswerSettles
    <3>5. QED BY <3>2, <3>3, <3>4 DEF PttInv
  <2>2. CASE PttNext
    BY <1>1, <2>2, TouchSafe, ControlSafe, WorkerSafe, LossSafe, ServiceSafe, LoopSafe
    DEF PttNext
  <2>3. QED BY <1>1, <2>1, <2>2
<1>2. QED BY <1>1, PttInitInv, PTL DEF PttSpec

-----------------------------------------------------------------------------
(* The state stays well formed; the PC's arming clock never runs past its  *)
(* timeout.  (router.cpp, updateTimers)                                    *)
THEOREM PttTypeSafety == PttSpec => []PttTypeOK
<1>1. PttInv => PttTypeOK
  BY DEF PttInv, PhoneType, NetType, PcType, PttTypeOK
<1>2. QED BY <1>1, PttInvariant, PTL

(* Once the answer to the last release has been taken, the microphone is   *)
(* off and the button on READY or FAILED for good, whatever PTT_READY,     *)
(* worker and earlier answers come late.  (phone_runtime.cpp, onControl    *)
(* against workerMain)                                                     *)
THEOREM AnswerSafety == PttSpec => []AnswerSettles
<1>1. PttInv => AnswerSettles
  BY DEF PttInv
<1>2. QED BY <1>1, PttInvariant, PTL

(* Media is sent and CONNECTING is shown only while the finger is on the   *)
(* button, RELEASING only while it is not, whatever the other threads of   *)
(* the phone store.  (phone_runtime.cpp, sm_phone_press and release)       *)
THEOREM TouchSafety == PttSpec => []TouchDecides
<1>1. PttInv => TouchDecides
  BY DEF PttInv
<1>2. QED BY <1>1, PttInvariant, PTL
=============================================================================
