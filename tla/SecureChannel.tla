---------------------------- MODULE SecureChannel ----------------------------
(***************************************************************************)
(* One direction of an authenticated session: threads of one end number,   *)
(* seal and send messages, the network loses, delays, reorders and         *)
(* duplicates the datagrams, and the other end opens them.  Two numbers    *)
(* guard a control message: the channel's counter and the message's seq.   *)
(* Both are plain integers that several threads increment: a load and a    *)
(* store.  A late copy of PAIR3 or PAIR4 makes an end establish the same   *)
(* session again, which restarts its counter and empties its windows.      *)
(* Datagrams stay on the wire, so each may arrive never, once or again.    *)
(***************************************************************************)
EXTENDS Integers, ReplayWindow

CONSTANTS
  Thread,                \* threads of the sending end
  Width, ControlWidth,   \* of the two windows
  MaxSends,              \* bound: messages
  MaxEstablish           \* bound: runs of establish()

ASSUME ChannelAssumption ==
  /\ Width \in Nat \ {0} /\ ControlWidth \in Nat \ {0}
  /\ MaxSends \in Nat /\ MaxEstablish \in Nat \ {0}

VARIABLES
  dir,        \* which end sends: "phone" or "pc"
  authed,     \* the phone is Authenticated (the PC is, from the start)
  established,   \* runs of establish() so far
  counter, seq,  \* of the sending end
  thr,        \* where each thread of it is
  sends,      \* messages sent or being sent
  wire,       \* datagrams
  replay, controlReplay,   \* windows of the receiving end
  got, gotSeq,   \* history: numbers they accepted since establish()
  handed,     \* history: messages ever handed to the callbacks
  reopened,   \* history: those not handed again since the windows were emptied
  wronged     \* history: new messages refused although in time

sender   == <<counter, seq, thr, sends, wire>>
receiver == <<replay, controlReplay, got, gotSeq, handed, reopened, wronged>>
vars     == <<dir, authed, established, sender, receiver>>

Datagram == [ctr : 0..MaxSends, id : 1..MaxSends, seq : 0..MaxSends]   \* seq 0: media
idle     == [at |-> "idle", id |-> 0, n |-> 0, seq |-> 0]
-----------------------------------------------------------------------------
(* sendControl, sendMedia: nothing is sent before Authenticated.           *)
sendMedia(t) ==
  /\ thr[t].at = "idle" /\ sends < MaxSends
  /\ dir = "phone" /\ authed
  /\ sends' = sends + 1
  /\ thr' = [thr EXCEPT ![t] = [idle EXCEPT !.at = "sealing", !.id = sends + 1]]
  /\ UNCHANGED <<dir, authed, established, counter, seq, wire, receiver>>

sendControl(t) ==
  /\ thr[t].at = "idle" /\ sends < MaxSends
  /\ dir = "phone" => authed
  /\ sends' = sends + 1
  /\ thr' = [thr EXCEPT ![t] = [idle EXCEPT !.at = "numbering", !.id = sends + 1, !.n = seq]]
  /\ UNCHANGED <<dir, authed, established, counter, seq, wire, receiver>>

nextSeq(t) ==
  /\ thr[t].at = "numbering"
  /\ seq' = thr[t].n + 1
  /\ thr' = [thr EXCEPT ![t].at = "sealing", ![t].seq = thr[t].n + 1]
  /\ UNCHANGED <<dir, authed, established, counter, sends, wire, receiver>>

(* seal(): counter_++, a load and a store, then out with the datagram.     *)
sealLoad(t) ==
  /\ thr[t].at = "sealing"
  /\ thr' = [thr EXCEPT ![t].at = "sealed", ![t].n = counter]
  /\ UNCHANGED <<dir, authed, established, counter, seq, sends, wire, receiver>>

sealStore(t) ==
  /\ thr[t].at = "sealed"
  /\ counter' = thr[t].n + 1
  /\ wire' = wire \union {[ctr |-> thr[t].n, id |-> thr[t].id, seq |-> thr[t].seq]}
  /\ thr' = [thr EXCEPT ![t] = idle]
  /\ UNCHANGED <<dir, authed, established, seq, sends, receiver>>
-----------------------------------------------------------------------------
(* Nothing on the wire is so far ahead of d that a window must drop it.    *)
InTime(d) ==
  \A e \in wire : e.ctr - d.ctr < Width /\ (d.seq # 0 => e.seq - d.seq < ControlWidth)

(* onDatagram: open, and for a control message the second window.          *)
opens(d) == accepts(replay, Width, d.ctr)
passes(d) == opens(d) /\ (d.seq # 0 => accepts(controlReplay, ControlWidth, d.seq))

onDatagram ==
  /\ dir = "pc" => authed
  /\ \E d \in wire :
       /\ replay' = accept(replay, Width, d.ctr)
       /\ got' = IF opens(d) THEN got \union {d.ctr} ELSE got
       /\ IF opens(d) /\ d.seq # 0
          THEN /\ controlReplay' = accept(controlReplay, ControlWidth, d.seq)
               /\ gotSeq' = IF passes(d) THEN gotSeq \union {d.seq} ELSE gotSeq
          ELSE UNCHANGED <<controlReplay, gotSeq>>
       /\ IF passes(d)
          THEN handed' = handed \union {d.id} /\ reopened' = reopened \ {d.id}
          ELSE UNCHANGED <<handed, reopened>>
       /\ wronged' = IF ~passes(d) /\ d.id \notin handed /\ InTime(d)
                     THEN wronged \union {d} ELSE wronged
  /\ UNCHANGED <<dir, authed, established, sender>>
-----------------------------------------------------------------------------
(* establish(), at the end that sends and at the end that receives.        *)
sealAfresh == counter' = 0 /\ UNCHANGED <<seq, thr, sends, wire, receiver>>

openAfresh ==
  /\ replay' = reset /\ controlReplay' = reset
  /\ got' = {} /\ gotSeq' = {} /\ reopened' = handed
  /\ UNCHANGED <<sender, handed, wronged>>

(* A late copy of PAIR3: the PC answers with PAIR4 and establishes again.  *)
onPair3 ==
  /\ established < MaxEstablish /\ established' = established + 1
  /\ IF dir = "pc" THEN sealAfresh ELSE openAfresh
  /\ UNCHANGED <<dir, authed>>

(* PAIR4, the first or another.                                            *)
onPair4 ==
  /\ established < MaxEstablish /\ established' = established + 1
  /\ authed' = TRUE
  /\ IF dir = "phone" THEN sealAfresh ELSE openAfresh
  /\ UNCHANGED dir
-----------------------------------------------------------------------------
(* The PC has established; PAIR4 is on its way.                            *)
Init ==
  /\ dir \in {"phone", "pc"} /\ authed = FALSE /\ established = 1
  /\ counter = 0 /\ seq = 0 /\ thr = [t \in Thread |-> idle] /\ sends = 0
  /\ wire = {} /\ replay = reset /\ controlReplay = reset
  /\ got = {} /\ gotSeq = {} /\ handed = {} /\ reopened = {} /\ wronged = {}

Send(t) == sendMedia(t) \/ sendControl(t) \/ nextSeq(t) \/ sealLoad(t) \/ sealStore(t)

Next == (\E t \in Thread : Send(t)) \/ onDatagram \/ onPair3 \/ onPair4

Spec == Init /\ [][Next]_vars
-----------------------------------------------------------------------------
(* The channel's state stays well formed; in particular no number outgrows *)
(* the messages it counts.  (secure_channel.cpp, peer_session.cpp)         *)
ChannelTypeOK ==
  /\ dir \in {"phone", "pc"} /\ authed \in BOOLEAN /\ established \in 1..MaxEstablish
  /\ counter \in 0..MaxSends /\ seq \in 0..MaxSends /\ sends \in 0..MaxSends
  /\ thr \in [Thread -> [at : {"idle", "numbering", "sealing", "sealed"}, id : 0..MaxSends,
                         n : 0..MaxSends, seq : 0..MaxSends]]
  /\ wire \subseteq Datagram
  /\ replay \in Window(Width) /\ controlReplay \in Window(ControlWidth)
  /\ got \subseteq 0..MaxSends /\ gotSeq \subseteq 1..MaxSends
  /\ handed \subseteq 1..MaxSends /\ reopened \subseteq handed /\ wronged \subseteq Datagram

(* Each window answers as if it remembered every number it has accepted    *)
(* since it was emptied, at and around both of its ends.  (replay_window.h,*)
(* accept)                                                                 *)
WindowsAreExact ==
  /\ Represents(replay, Width, got) /\ Represents(controlReplay, ControlWidth, gotSeq)
  /\ \A s \in 0..MaxSends + 1 :
       /\ accepts(replay, Width, s) <=> IsNew(got, Width, s)
       /\ accepts(controlReplay, ControlWidth, s) <=> IsNew(gotSeq, ControlWidth, s)

(* However often its datagram arrives and whatever overtakes it, a message *)
(* that was handed to the application passes again only if the receiving   *)
(* end has emptied its windows since, and then once: establish() runs for  *)
(* every copy of PAIR3 or PAIR4, under the same key.  (replay_window.h:    *)
(* "must never be accepted twice"; peer_session.cpp, handlePairing)        *)
AgainMeansReopened ==
  \A d \in wire : passes(d) /\ d.id \in handed => d.id \in reopened

(* A new message that arrives in time is refused only because a number of  *)
(* it was given out twice: to two threads at once, or again after          *)
(* establish().  (secure_channel.cpp, seal; peer_session.h, nextSeq)       *)
RefusedMeansShared ==
  \A d \in wronged : \E e \in wire :
     e.id # d.id /\ (e.ctr = d.ctr \/ (d.seq # 0 /\ e.seq = d.seq))
=============================================================================
