----------------------------- MODULE DriverDevice -----------------------------
(***************************************************************************)
(* The driver's device: plug and play makes and removes the one ring, the  *)
(* private IOCTLs hand it to one service at a time, and the WaveRT stream  *)
(* drains it.  Every process of Procs runs SmartMicDriverLink: start()     *)
(* opens a handle and maps the ring, closeDevice() unmaps it and closes    *)
(* the handle, and the process may die wherever it is not in the kernel.   *)
(*                                                                         *)
(* Rings are numbered as they are made; number `ring` is the live one and  *)
(* using any other is using freed memory, which ends the system: bugcheck. *)
(***************************************************************************)
EXTENDS WaveStream

CONSTANTS Procs, NoProc,
          MaxRings     \* bound: devices added

ASSUME DeviceAssumption == NoProc \notin Procs /\ MaxRings \in Nat \ {0}

VARIABLES
  pnp,        \* "absent", "added", "started", "failed", "surprised"
  interface,  \* of the control channel: "none", "registered", "enabled"
  ring,       \* ring of g_SmartMicContext, 0 without a context
  made,       \* rings made so far
  miniRing,   \* m_ring of the miniport and of its stream
  claimed,    \* m_claimed
  client,     \* m_clientProcess; m_userVa is set exactly when it is
  pc,         \* where each process is, see below
  using,      \* the ring its call in the kernel works on
  mapped,     \* the rings mapped into its address space
  dead,       \* its user code has ended
  surprised,  \* history: a surprise removal has happened
  bugcheck    \* a freed ring was used

plugVars  == <<pnp, interface, ring, made, miniRing, surprised>>
claimVars == <<claimed, client>>
procVars  == <<pc, using, mapped, dead>>
vars      == <<streamVars, plugVars, claimVars, procVars, bugcheck>>

(* Where user code runs, and the stages of one call into the driver.       *)
UserCode == {"closed", "opened", "checked", "mapped", "stopping"}
InDriver == {"map", "mapping", "stats", "unmap", "unmapped", "close", "drop", "dropped"}

move(p, to, r) == pc' = [pc EXCEPT ![p] = to] /\ using' = [using EXCEPT ![p] = r]
leave(p, to)   == move(p, to, 0)
on(p, to)      == move(p, to, using[p])
uses(r) == bugcheck' = (r # ring)
-----------------------------------------------------------------------------
(* Plug and play.                                                          *)

(* SmartMicAddDevice; on every failure it frees what it has made.  Without *)
(* the interface the endpoint works and no service can find the ring.      *)
Initialize == claimed' = FALSE /\ client' = NoProc
AddDevice ==
  /\ pnp = "absent" /\ ring = 0 /\ made < MaxRings
  /\ pnp' = "added"
  /\ made' = made + 1 /\ ring' = made + 1
  /\ interface' \in {"none", "registered"}
  /\ Initialize
  /\ UNCHANGED <<streamVars, miniRing, surprised, procVars, bugcheck>>

(* Topology, wave and their connection are installed in this order, and    *)
(* any may fail: the connection after the wave miniport has the ring.      *)
InstallSubdevices(ok) == miniRing' \in (IF ok THEN {ring} ELSE {0, ring})

(* SmartMicStartDevice                                                     *)
StartDevice ==
  /\ pnp = "added"
  /\ \/ /\ InstallSubdevices(TRUE) /\ pnp' = "started"
        /\ interface' = IF interface = "registered" THEN "enabled" ELSE interface
     \/ InstallSubdevices(FALSE) /\ pnp' = "failed" /\ UNCHANGED interface
  /\ UNCHANGED <<streamVars, ring, made, surprised, claimVars, procVars, bugcheck>>

(* What the PnP handler does with the context, first or second time.       *)
Cleanup == claimed' = FALSE /\ client' = NoProc
FreeContext == interface' = "none" /\ ring' = 0 /\ Cleanup

(* IRP_MN_REMOVE_DEVICE comes when every handle and stream is closed.      *)
Remove ==
  /\ pnp # "absent"
  /\ stream = "none" /\ \A p \in Procs : pc[p] = "closed"
  /\ FreeContext
  /\ pnp' = "absent" /\ miniRing' = 0
  /\ UNCHANGED <<streamVars, made, surprised, procVars, bugcheck>>

(* IRP_MN_SURPRISE_REMOVAL does not wait.                                  *)
SurpriseRemoval ==
  /\ pnp = "started"
  /\ FreeContext
  /\ pnp' = "surprised" /\ surprised' = TRUE
  /\ UNCHANGED <<streamVars, made, miniRing, procVars, bugcheck>>
-----------------------------------------------------------------------------
(* The control channel.  A call reads g_SmartMicContext once, and works on *)
(* that ring to its end.                                                   *)

(* start(): openDevice finds the interface, SmartMicCreate tags the handle.*)
SmartMicCreate(p) == leave(p, "opened")
openDevice(p) ==
  /\ pc[p] = "closed" /\ ~dead[p] /\ interface = "enabled"
  /\ SmartMicCreate(p)
  /\ UNCHANGED <<streamVars, plugVars, claimVars, mapped, dead, bugcheck>>

(* SmartMicHandlePrivateIoctl: the context must be there.                  *)
ioctl(p, from, ok, notReady) ==
  /\ pc[p] = from
  /\ IF ring # 0 THEN move(p, ok, ring) ELSE leave(p, notReady)
  /\ UNCHANGED <<streamVars, plugVars, claimVars, mapped, dead, bugcheck>>

(* start() goes on when both halves agree on the ring.                     *)
GetVersion(p) ==
  /\ pc[p] = "opened"
  /\ \/ ring # 0 /\ leave(p, "checked")
     \/ leave(p, "stopping")
  /\ UNCHANGED <<streamVars, plugVars, claimVars, mapped, dead, bugcheck>>
MapRing(p)   == ioctl(p, "checked", "map", "stopping")
UnmapRing(p) == ioctl(p, "stopping", "unmap", "close")
GetStats(p)  == ioctl(p, "mapped", "stats", "mapped")

(* MapForCurrentProcess: the claim is taken first ...                      *)
Claim_Unchecked(p) ==
  /\ pc[p] = "map"
  /\ claimed' = TRUE /\ on(p, "mapping")
  /\ uses(using[p])
  /\ UNCHANGED <<streamVars, plugVars, client, mapped, dead>>
Claim(p) ==
  /\ pc[p] = "map"
  /\ IF claimed THEN leave(p, "stopping") ELSE on(p, "mapping")
  /\ claimed' = TRUE
  /\ uses(using[p])
  /\ UNCHANGED <<streamVars, plugVars, client, mapped, dead>>

(* ... then the pages are mapped and the client recorded, or the claim is  *)
(* given back.                                                             *)
MapPages_KeepsClaim(p) ==
  /\ pc[p] = "mapping"
  /\ \/ /\ client' = p
        /\ mapped' = [mapped EXCEPT ![p] = @ \union {using[p]}]
        /\ leave(p, "mapped")
     \/ leave(p, "stopping") /\ UNCHANGED <<client, mapped>>
  /\ uses(using[p])
  /\ UNCHANGED <<streamVars, plugVars, claimed, dead>>
MapPages(p) ==
  /\ pc[p] = "mapping"
  /\ \/ /\ client' = p
        /\ mapped' = [mapped EXCEPT ![p] = @ \union {using[p]}]
        /\ leave(p, "mapped") /\ UNCHANGED claimed
     \/ claimed' = FALSE /\ leave(p, "stopping") /\ UNCHANGED <<client, mapped>>
  /\ uses(using[p])
  /\ UNCHANGED <<streamVars, plugVars, dead>>

ReadStats(p) ==
  /\ pc[p] = "stats" /\ leave(p, "mapped")
  /\ uses(using[p])
  /\ UNCHANGED <<streamVars, plugVars, claimVars, mapped, dead>>

(* stop(), or start() on a wrong magic: closeDevice() unmaps and closes.   *)
closeDevice(p) ==
  /\ pc[p] = "mapped" /\ leave(p, "stopping")
  /\ UNCHANGED <<streamVars, plugVars, claimVars, mapped, dead, bugcheck>>

(* UnmapForCurrentProcess: only the client's call does anything, and the   *)
(* claim goes last.                                                        *)
Unmap_ForAnyone(p) ==
  /\ pc[p] = "unmap"
  /\ IF client # NoProc
     THEN /\ mapped' = [mapped EXCEPT ![p] = @ \ {using[p]}]
          /\ client' = NoProc /\ on(p, "unmapped")
     ELSE leave(p, "close") /\ UNCHANGED <<client, mapped>>
  /\ uses(using[p])
  /\ UNCHANGED <<streamVars, plugVars, claimed, dead>>
Unmap(p) ==
  /\ pc[p] = "unmap"
  /\ IF client = p
     THEN /\ mapped' = [mapped EXCEPT ![p] = @ \ {using[p]}]
          /\ client' = NoProc /\ on(p, "unmapped")
     ELSE leave(p, "close") /\ UNCHANGED <<client, mapped>>
  /\ uses(using[p])
  /\ UNCHANGED <<streamVars, plugVars, claimed, dead>>

Unclaim(p, from, to) ==
  /\ pc[p] = from /\ leave(p, to)
  /\ claimed' = FALSE
  /\ uses(using[p])
  /\ UNCHANGED <<streamVars, plugVars, client, mapped, dead>>

(* SmartMicClose, in the context of the process that closes: a dead        *)
(* service's claim is dropped here, its mapping goes with its memory.  The *)
(* driver does so for any handle of the process, mapped or not; this link  *)
(* opens one, so its mapping has gone before unless it died.               *)
Close(p) == ioctl(p, "close", "drop", "closed")
ReleaseClaimIfOwner_Forgotten(p) ==
  /\ pc[p] = "drop"
  /\ leave(p, "closed") /\ UNCHANGED client
  /\ uses(using[p])
  /\ UNCHANGED <<streamVars, plugVars, claimed, mapped, dead>>
ReleaseClaimIfOwner_ForAnyone(p) ==
  /\ pc[p] = "drop"
  /\ IF client # NoProc THEN client' = NoProc /\ on(p, "dropped")
                        ELSE leave(p, "closed") /\ UNCHANGED client
  /\ uses(using[p])
  /\ UNCHANGED <<streamVars, plugVars, claimed, mapped, dead>>
ReleaseClaimIfOwner(p) ==
  /\ pc[p] = "drop"
  /\ IF client = p THEN client' = NoProc /\ on(p, "dropped")
                   ELSE leave(p, "closed") /\ UNCHANGED client
  /\ uses(using[p])
  /\ UNCHANGED <<streamVars, plugVars, claimed, mapped, dead>>

(* The process dies; Windows closes its handle, then frees its memory, and *)
(* the service is started again.                                           *)
Crash(p) ==
  /\ pc[p] \in UserCode \ {"closed"}
  /\ leave(p, "close") /\ dead' = [dead EXCEPT ![p] = TRUE]
  /\ UNCHANGED <<streamVars, plugVars, claimVars, mapped, bugcheck>>
Restart(p) ==
  /\ dead[p] /\ pc[p] = "closed"
  /\ dead' = [dead EXCEPT ![p] = FALSE] /\ mapped' = [mapped EXCEPT ![p] = {}]
  /\ UNCHANGED <<streamVars, plugVars, claimVars, pc, using, bugcheck>>
-----------------------------------------------------------------------------
Init ==
  /\ StreamInit
  /\ pnp = "absent" /\ interface = "none" /\ ring = 0 /\ made = 0 /\ miniRing = 0
  /\ surprised = FALSE /\ bugcheck = FALSE
  /\ claimed = FALSE /\ client = NoProc
  /\ pc = [p \in Procs |-> "closed"] /\ using = [p \in Procs |-> 0]
  /\ mapped = [p \in Procs |-> {}] /\ dead = [p \in Procs |-> FALSE]

PlugAndPlay == AddDevice \/ StartDevice \/ Remove \/ SurpriseRemoval

(* What a call of p does once it is in the driver.                         *)
DriverCall(p) ==
  \/ Claim(p) \/ MapPages(p) \/ ReadStats(p) \/ Unmap(p)
  \/ Unclaim(p, "unmapped", "close")
  \/ Close(p) \/ ReleaseClaimIfOwner(p) \/ Unclaim(p, "dropped", "closed")

Process(p) ==
  \/ openDevice(p) \/ GetVersion(p) \/ MapRing(p) \/ GetStats(p)
  \/ closeDevice(p) \/ UnmapRing(p) \/ DriverCall(p)
  \/ Crash(p) \/ Restart(p)

(* The stream of a started device, and what is left of it on a gone one.   *)
Stream ==
  /\ pnp \in {"started", "surprised"}
  /\ \/ LocalStep /\ UNCHANGED bugcheck
     \/ RingStep /\ (stream = "none" => pnp = "started") /\ uses(miniRing)
  /\ UNCHANGED <<plugVars, claimVars, procVars>>

(* The system has crashed, or the bound on devices is reached.             *)
Halted == (bugcheck \/ (pnp = "absent" /\ made = MaxRings)) /\ UNCHANGED vars

Next ==
  \/ ~bugcheck /\ (PlugAndPlay \/ (\E p \in Procs : Process(p)) \/ Stream)
  \/ Halted

(* A call in the driver runs to its end.                                   *)
Spec == Init /\ [][Next]_vars /\ \A p \in Procs : WF_vars(~bugcheck /\ DriverCall(p))
-----------------------------------------------------------------------------
TypeOK ==
  /\ StreamTypeOK
  /\ pnp \in {"absent", "added", "started", "failed", "surprised"}
  /\ interface \in {"none", "registered", "enabled"}
  /\ made \in 0..MaxRings /\ ring \in {0, made} /\ miniRing \in {0, made}
  /\ claimed \in BOOLEAN /\ client \in Procs \union {NoProc}
  /\ pc \in [Procs -> UserCode \union InDriver] /\ using \in [Procs -> 0..made]
  /\ mapped \in [Procs -> SUBSET (1..made)] /\ dead \in [Procs -> BOOLEAN]
  /\ surprised \in BOOLEAN /\ bugcheck \in BOOLEAN

(* Two services never write the ring at the same time, however their       *)
(* starts, stops and crashes interleave.  (ring.cpp:95, "two racing        *)
(* services cannot both believe they own the ring")                        *)
SingleProducer ==
  \A p, q \in Procs :
    p # q /\ ~dead[p] /\ ~dead[q] => ring \notin mapped[p] \intersect mapped[q]

(* Who can write the live ring.                                            *)
Producers == {p \in Procs : ~dead[p] /\ ring \in mapped[p]}
Lease == INSTANCE RingLease WITH live <- ring # 0, users <- Producers

(* The ring is lent to one living service at a time, and taken back before *)
(* it is lent again, whatever claims, failures, crashes and removals go on *)
(* behind it: the driver implements RingLease.  (ring.cpp,                 *)
(* MapForCurrentProcess to ReleaseClaimIfOwner)                            *)
LendsOneAtATime == Lease!Spec

(* A ring is never left claimed by nobody: behind every claim is a process *)
(* that still has its handle, whose close gives the claim back.            *)
(* (driver.cpp:201, "must not leave the ring claimed forever")             *)
ClaimHasOwner ==
  claimed => \/ client # NoProc /\ pc[client] # "closed"
             \/ \E p \in Procs : pc[p] \in {"mapping", "unmapped", "dropped"}

(* As long as the device is only removed in good order, nobody uses a ring *)
(* that is gone: not the stream, no call in the driver, and no service     *)
(* through a mapping it has kept.  (driver.cpp, SmartMicPnpHandler)        *)
OrderlyRemovalIsSafe ==
  ~surprised => /\ ~bugcheck
                /\ \A p \in Procs : ~dead[p] => mapped[p] \subseteq {ring}

(* A service that dies with the ring gives it back.  (driver.cpp:201)      *)
DeadGivesBack ==
  \A p \in Procs : (client = p /\ dead[p]) ~> (bugcheck \/ client # p)
=============================================================================
