------------------------- MODULE SecureChannel_proofs -------------------------
(***************************************************************************)
(* Proofs about ReplayWindow and SecureChannel, for any number of threads, *)
(* messages and establishments and windows of any width.                   *)
(***************************************************************************)
EXTENDS SecureChannel, FiniteSets, FiniteSetTheorems, TLAPS

-----------------------------------------------------------------------------
(* The window.                                                             *)

(* A window that represents a set of numbers answers exactly.              *)
LEMMA AcceptsIsExact ==
  ASSUME NEW W \in Nat \ {0}, NEW w \in Window(W), NEW A \in SUBSET Nat,
         Represents(w, W, A), NEW s \in Nat
  PROVE  accepts(w, W, s) <=> IsNew(A, W, s)
<1>1. CASE ~w.initialised
  BY <1>1 DEF Represents, accepts, IsNew
<1>2. CASE w.initialised
  <2>1. /\ w.highest \in A /\ w.highest \in Nat
        /\ \A a \in A : a <= w.highest
        /\ w.seen = {i \in 0..W - 1 : w.highest - i \in A}
    BY <1>2 DEF Represents
  <2>2. CASE s > w.highest
    BY <2>1, <2>2 DEF accepts, IsNew
  <2>3. CASE s <= w.highest /\ w.highest - s >= W
    BY <1>2, <2>1, <2>3 DEF accepts, IsNew
  <2>4. CASE s <= w.highest /\ w.highest - s < W
    <3>1. w.highest - s \in 0..W - 1 /\ w.highest - (w.highest - s) = s
      BY <2>1, <2>4
    <3>2. w.highest - s \in w.seen <=> s \in A
      BY <2>1, <3>1
    <3>3. \A a \in A : a - s < W
      BY <2>1, <2>4
    <3>4. accepts(w, W, s) <=> w.highest - s \notin w.seen
      BY <1>2, <2>1, <2>4 DEF accepts
    <3>5. QED BY <3>2, <3>3, <3>4 DEF IsNew
  <2>5. QED BY <2>1, <2>2, <2>3, <2>4
<1>3. QED BY <1>1, <1>2

(* accept() goes on representing what it has accepted.                     *)
LEMMA AcceptRepresents ==
  ASSUME NEW W \in Nat \ {0}, NEW w \in Window(W), NEW A \in SUBSET Nat,
         Represents(w, W, A), NEW s \in Nat
  PROVE  /\ accept(w, W, s) \in Window(W)
         /\ Represents(accept(w, W, s), W, IF accepts(w, W, s) THEN A \union {s} ELSE A)
<1> DEFINE v == accept(w, W, s)
<1>1. CASE ~accepts(w, W, s)
  BY <1>1 DEF accept, accepts
<1>2. CASE accepts(w, W, s) /\ ~w.initialised
  <2>1. v = [initialised |-> TRUE, highest |-> s, seen |-> {0}] /\ A = {}
    BY <1>2 DEF accept, accepts, Represents
  <2>2. {0} = {i \in 0..W - 1 : s - i \in {s}}
    OBVIOUS
  <2>3. QED BY <1>2, <2>1, <2>2 DEF Represents, Window
<1>3. CASE accepts(w, W, s) /\ w.initialised /\ s > w.highest
  <2>1. /\ v.initialised /\ v.highest = s
        /\ v.seen = {0} \union shifted(w, W, s - w.highest)
        /\ v \in Window(W)
    <3>1. v = [w EXCEPT !.highest = s,
                        !.seen = {0} \union shifted(w, W, s - w.highest)]
      BY <1>3 DEF accept, accepts
    <3>2. {0} \union shifted(w, W, s - w.highest) \in SUBSET (0..W - 1)
      BY DEF shifted
    <3>3. QED BY <1>3, <3>1, <3>2 DEF Window
  <2>2. /\ w.highest \in A /\ w.highest \in Nat
        /\ \A a \in A : a <= w.highest
        /\ w.seen = {i \in 0..W - 1 : w.highest - i \in A}
    BY <1>3 DEF Represents, Window
  <2>3. v.seen = {i \in 0..W - 1 : s - i \in A \union {s}}
    <3>1. ASSUME NEW i \in 0..W - 1
          PROVE  i \in {0} \union shifted(w, W, s - w.highest) <=> s - i \in A \union {s}
      <4>1. CASE i = 0
        BY <4>1
      <4>2. CASE i # 0 /\ i - (s - w.highest) >= 0
        <5>1. i - (s - w.highest) \in 0..W - 1
          BY <1>3, <2>2, <4>2
        <5>2. w.highest - (i - (s - w.highest)) = s - i
          BY <2>2
        <5>3. i - (s - w.highest) \in w.seen <=> s - i \in A
          BY <2>2, <5>1, <5>2
        <5>4. QED BY <4>2, <5>3 DEF shifted
      <4>3. CASE i # 0 /\ i - (s - w.highest) < 0
        <5>1. s - i \notin A /\ s - i # s
          BY <2>2, <4>3
        <5>2. i - (s - w.highest) \notin w.seen
          BY <2>2, <4>3
        <5>3. QED BY <4>3, <5>1, <5>2 DEF shifted
      <4>4. QED BY <2>2, <4>1, <4>2, <4>3
    <3>2. v.seen \subseteq 0..W - 1
      BY <2>1 DEF Window
    <3>3. QED BY <2>1, <3>1, <3>2
  <2>4. \A a \in A \union {s} : a <= s
    BY <1>3, <2>2
  <2>5. QED BY <1>3, <2>1, <2>3, <2>4 DEF Represents
<1>4. CASE accepts(w, W, s) /\ w.initialised /\ s <= w.highest
  <2>1. /\ w.highest - s \in 0..W - 1
        /\ v = [w EXCEPT !.seen = @ \union {w.highest - s}]
    BY <1>4 DEF accept, accepts, Window
  <2>2. v.initialised /\ v.highest = w.highest /\ v \in Window(W)
        /\ v.seen = w.seen \union {w.highest - s}
    BY <1>4, <2>1 DEF Window
  <2>3. /\ w.highest \in A /\ w.highest \in Nat
        /\ \A a \in A : a <= w.highest
        /\ w.seen = {i \in 0..W - 1 : w.highest - i \in A}
    BY <1>4 DEF Represents, Window
  <2>4. v.seen = {i \in 0..W - 1 : w.highest - i \in A \union {s}}
    BY <2>1, <2>2, <2>3
  <2>5. QED BY <1>4, <2>2, <2>3, <2>4 DEF Represents
<1>5. QED BY <1>1, <1>2, <1>3, <1>4 DEF Window

-----------------------------------------------------------------------------
(* The inductive invariant.                                                *)

(* Numbers are numbers; how large they grow does not matter.               *)
NumberInv ==
  /\ counter \in Nat /\ seq \in Nat /\ sends \in Nat
  /\ thr \in [Thread -> [at : {"idle", "numbering", "sealing", "sealed"},
                         id : Nat, n : Nat, seq : Nat]]
  /\ wire \subseteq [ctr : Nat, id : Nat, seq : Nat]

(* A message has one sender and becomes one datagram.                      *)
IdInv ==
  /\ \A d \in wire : d.id <= sends
  /\ \A d, e \in wire : d.id = e.id => d = e
  /\ \A t \in Thread : thr[t].at # "idle" =>
       thr[t].id <= sends /\ \A d \in wire : d.id # thr[t].id
  /\ \A t, u \in Thread :
       t # u /\ thr[t].at # "idle" /\ thr[u].at # "idle" => thr[t].id # thr[u].id

(* Each window stands for the numbers it has accepted.                     *)
WindowInv ==
  /\ replay \in Window(Width) /\ got \in SUBSET Nat
  /\ controlReplay \in Window(ControlWidth) /\ gotSeq \in SUBSET Nat
  /\ Represents(replay, Width, got)
  /\ Represents(controlReplay, ControlWidth, gotSeq)

(* What became of a datagram whose counter was accepted: it was handed     *)
(* over, or refused by the second window, late or not.                     *)
Settled(e) == e.id \in handed \/ e \in wronged \/ ~InTime(e)
ReceiptInv ==
  /\ wronged \subseteq wire
  /\ reopened \subseteq handed
  /\ \A i \in handed : \E d \in wire : d.id = i /\ (i \notin reopened => d.ctr \in got)
  /\ \A c \in got : \E e \in wire : e.ctr = c /\ Settled(e)
  /\ \A s \in gotSeq : \E e \in wire : e.seq = s /\ e.id \in handed

ChannelInv == NumberInv /\ IdInv /\ WindowInv /\ ReceiptInv /\ RefusedMeansShared

LEMMA InitChannel == Init => ChannelInv
<1> SUFFICES ASSUME Init PROVE ChannelInv
  OBVIOUS
<1> USE DEF Init
<1>1. NumberInv
  BY DEF NumberInv, idle
<1>2. IdInv
  BY DEF IdInv, idle
<1>3. WindowInv
  BY DEF WindowInv, Window, Represents, reset
<1>4. ReceiptInv /\ RefusedMeansShared
  BY DEF ReceiptInv, RefusedMeansShared
<1>5. QED BY <1>1, <1>2, <1>3, <1>4 DEF ChannelInv

(* A message begins: it takes the next place in the count of messages.     *)
LEMMA SendBegins ==
  ASSUME NumberInv, NEW t \in Thread, sendMedia(t) \/ sendControl(t)
  PROVE  /\ sends' = sends + 1 /\ sends < MaxSends /\ UNCHANGED <<counter, seq, wire>>
         /\ \A u \in Thread \ {t} : thr'[u] = thr[u]
         /\ thr'[t].id = sends + 1 /\ thr'[t].seq = 0 /\ thr'[t].n \in {0, seq}
         /\ thr'[t].at \in {"sealing", "numbering"}
<1>1. /\ sends' = sends + 1 /\ sends < MaxSends /\ UNCHANGED <<counter, seq, wire>>
      /\ \A u \in Thread \ {t} : thr'[u] = thr[u]
  BY DEF sendMedia, sendControl, NumberInv
<1>2. CASE sendMedia(t)
  <2>1. thr'[t] = [idle EXCEPT !.at = "sealing", !.id = sends + 1]
    BY <1>2 DEF sendMedia, NumberInv
  <2>2. QED BY <1>1, <2>1 DEF idle
<1>3. CASE sendControl(t)
  <2>1. thr'[t] = [idle EXCEPT !.at = "numbering", !.id = sends + 1, !.n = seq]
    BY <1>3 DEF sendControl, NumberInv
  <2>2. QED BY <1>1, <2>1 DEF idle
<1>4. QED BY <1>2, <1>3

(* The sender's steps leave the receiver alone; only a store adds to the   *)
(* wire, and a datagram more leaves late what was late.                    *)
LEMMA SenderSteps ==
  ASSUME ChannelInv, NEW t \in Thread, Send(t)
  PROVE  ChannelInv'
<1> USE DEF sender, receiver
<1>1. UNCHANGED receiver /\ wire \subseteq wire'
  BY DEF Send, sendMedia, sendControl, nextSeq, sealLoad, sealStore
<1>2. NumberInv'
  <2> SUFFICES ASSUME NumberInv PROVE NumberInv'
    BY DEF ChannelInv
  <2> USE DEF NumberInv
  <2>1. CASE sendMedia(t) \/ sendControl(t)
    <3> DEFINE Place == [at : {"idle", "numbering", "sealing", "sealed"},
                         id : Nat, n : Nat, seq : Nat]
    <3>1. PICK r \in Place : thr' = [thr EXCEPT ![t] = r]
      <4>1. idle \in Place /\ sends + 1 \in Nat
        BY DEF idle
      <4>2. CASE sendMedia(t)
        <5>1. [idle EXCEPT !.at = "sealing", !.id = sends + 1] \in Place
          BY <4>1
        <5>2. QED BY <4>2, <5>1 DEF sendMedia
      <4>3. CASE sendControl(t)
        <5>1. [idle EXCEPT !.at = "numbering", !.id = sends + 1, !.n = seq] \in Place
          BY <4>1
        <5>2. QED BY <4>3, <5>1 DEF sendControl
      <4>4. QED BY <2>1, <4>2, <4>3
    <3>2. sends' = sends + 1 /\ UNCHANGED <<counter, seq, wire>>
      BY <2>1 DEF sendMedia, sendControl
    <3>3. QED BY <3>1, <3>2
  <2>2. CASE nextSeq(t) \/ sealLoad(t)
    BY <2>2 DEF nextSeq, sealLoad
  <2>3. CASE sealStore(t)
    <3>1. /\ thr[t].n \in Nat /\ thr[t].id \in Nat /\ thr[t].seq \in Nat
          /\ idle \in [at : {"idle", "numbering", "sealing", "sealed"},
                      id : Nat, n : Nat, seq : Nat]
      BY DEF idle
    <3>2. /\ counter' = thr[t].n + 1 /\ thr' = [thr EXCEPT ![t] = idle]
          /\ wire' = wire \union {[ctr |-> thr[t].n, id |-> thr[t].id, seq |-> thr[t].seq]}
          /\ UNCHANGED <<seq, sends>>
      BY <2>3 DEF sealStore
    <3>3. QED BY <3>1, <3>2
  <2>4. QED BY <2>1, <2>2, <2>3 DEF Send
<1>3. IdInv'
  <2> SUFFICES ASSUME NumberInv, IdInv PROVE IdInv'
    BY DEF ChannelInv
  <2> USE DEF NumberInv, IdInv
  <2>1. CASE sendMedia(t) \/ sendControl(t)
    <3>1. /\ sends' = sends + 1 /\ wire' = wire
          /\ thr'[t].id = sends + 1
          /\ \A u \in Thread \ {t} : thr'[u] = thr[u]
      BY <2>1, SendBegins
    <3>2. \A d \in wire : d.id \in Nat
      OBVIOUS
    <3>3. \A u \in Thread : thr[u].id \in Nat
      OBVIOUS
    <3>4. QED BY <3>1, <3>2, <3>3
  <2>2. CASE nextSeq(t) \/ sealLoad(t)
    BY <2>2 DEF nextSeq, sealLoad
  <2>3. CASE sealStore(t)
    BY <2>3 DEF sealStore, idle
  <2>4. QED BY <2>1, <2>2, <2>3 DEF Send
<1>4. WindowInv'
  BY <1>1 DEF ChannelInv, WindowInv
<1>5. \A e \in wire : Settled(e) => Settled(e)'
  BY <1>1 DEF Settled, InTime
<1>6. ReceiptInv'
  BY <1>1, <1>5 DEF ChannelInv, ReceiptInv
<1>7. RefusedMeansShared'
  BY <1>1 DEF ChannelInv, RefusedMeansShared, ReceiptInv
<1>8. QED BY <1>2, <1>3, <1>4, <1>6, <1>7 DEF ChannelInv

(* What a refusal by the window of the counter says ...                    *)
LEMMA NotOpened ==
  ASSUME ChannelAssumption, ChannelInv, NEW d \in wire, ~opens(d), InTime(d)
  PROVE  d.ctr \in got
<1>1. d.ctr \in Nat /\ Width \in Nat \ {0} /\ replay \in Window(Width) /\ got \in SUBSET Nat
  BY DEF ChannelAssumption, ChannelInv, NumberInv, WindowInv
<1>2. ~IsNew(got, Width, d.ctr)
  BY <1>1, AcceptsIsExact DEF opens, ChannelInv, WindowInv
<1>3. \A a \in got : a - d.ctr < Width
  BY DEF ChannelInv, ReceiptInv, InTime
<1>4. QED BY <1>2, <1>3 DEF IsNew

(* ... and one by the window of the sequence number.                       *)
LEMMA NotPassed ==
  ASSUME ChannelAssumption, ChannelInv, NEW d \in wire, opens(d), ~passes(d), InTime(d)
  PROVE  d.seq # 0 /\ d.seq \in gotSeq
<1>1. /\ d.seq \in Nat /\ d.seq # 0 /\ ControlWidth \in Nat \ {0}
      /\ controlReplay \in Window(ControlWidth) /\ gotSeq \in SUBSET Nat
  BY DEF ChannelAssumption, ChannelInv, NumberInv, WindowInv, passes
<1>2. ~IsNew(gotSeq, ControlWidth, d.seq)
  BY <1>1, AcceptsIsExact DEF passes, ChannelInv, WindowInv
<1>3. \A a \in gotSeq : a - d.seq < ControlWidth
  BY <1>1 DEF ChannelInv, ReceiptInv, InTime
<1>4. QED BY <1>1, <1>2, <1>3 DEF IsNew

LEMMA ReceiverStep ==
  ASSUME ChannelAssumption, ChannelInv, onDatagram
  PROVE  ChannelInv'
<1> USE DEF sender
<1>1. PICK d \in wire :
       /\ replay' = accept(replay, Width, d.ctr)
       /\ got' = IF opens(d) THEN got \union {d.ctr} ELSE got
       /\ IF opens(d) /\ d.seq # 0
          THEN /\ controlReplay' = accept(controlReplay, ControlWidth, d.seq)
               /\ gotSeq' = IF passes(d) THEN gotSeq \union {d.seq} ELSE gotSeq
          ELSE UNCHANGED <<controlReplay, gotSeq>>
       /\ IF passes(d)
          THEN handed' = handed \union {d.id} /\ reopened' = reopened \ {d.id}
          ELSE UNCHANGED <<handed, reopened>>
       /\ wronged' = IF ~passes(d) /\ d.id \notin handed /\ InTime(d)
                     THEN wronged \union {d} ELSE wronged
  BY DEF onDatagram
<1>2. UNCHANGED sender
  BY DEF onDatagram
<1>3. d.ctr \in Nat /\ d.seq \in Nat /\ d.id \in Nat
  BY DEF ChannelInv, NumberInv
<1>4. NumberInv' /\ IdInv'
  BY <1>2 DEF ChannelInv, NumberInv, IdInv
<1>5. WindowInv'
  <2>1. WindowInv /\ Width \in Nat \ {0} /\ ControlWidth \in Nat \ {0}
    BY DEF ChannelInv, ChannelAssumption
  <2>2. replay' \in Window(Width) /\ Represents(replay', Width, got') /\ got' \in SUBSET Nat
    BY <1>1, <1>3, <2>1, AcceptRepresents DEF WindowInv, opens
  <2>3. /\ controlReplay' \in Window(ControlWidth)
        /\ Represents(controlReplay', ControlWidth, gotSeq') /\ gotSeq' \in SUBSET Nat
    BY <1>1, <1>3, <2>1, AcceptRepresents DEF WindowInv, passes
  <2>4. QED BY <2>2, <2>3 DEF WindowInv
<1>6. handed \subseteq handed' /\ wronged \subseteq wronged' /\ wire' = wire
  BY <1>1, <1>2
<1>7. \A e \in wire : Settled(e) => Settled(e)'
  BY <1>6 DEF Settled, InTime
<1>8. ReceiptInv'
  <2>1. wronged' \subseteq wire'
    BY <1>1, <1>6 DEF ChannelInv, ReceiptInv
  <2>2. /\ reopened' \subseteq handed'
        /\ \A i \in handed' : \E e \in wire' :
             e.id = i /\ (i \notin reopened' => e.ctr \in got')
    <3>1. CASE passes(d)
      BY <1>1, <1>6, <3>1 DEF ChannelInv, ReceiptInv, passes
    <3>2. CASE ~passes(d)
      BY <1>1, <1>6, <3>2 DEF ChannelInv, ReceiptInv
    <3>3. QED BY <3>1, <3>2
  <2>3. Settled(d)'
    BY <1>1, <1>6 DEF Settled, InTime
  <2>4. \A c \in got' : \E e \in wire' : e.ctr = c /\ Settled(e)'
    BY <1>1, <1>6, <1>7, <2>3 DEF ChannelInv, ReceiptInv
  <2>5. \A s \in gotSeq' : \E e \in wire' : e.seq = s /\ e.id \in handed'
    BY <1>1, <1>6 DEF ChannelInv, ReceiptInv
  <2>6. QED BY <2>1, <2>2, <2>4, <2>5 DEF ReceiptInv
<1>9. RefusedMeansShared'
  <2>1. SUFFICES ASSUME ~passes(d), d.id \notin handed, InTime(d), d \notin wronged
                 PROVE  \E e \in wire : /\ e.id # d.id
                                        /\ e.ctr = d.ctr \/ (d.seq # 0 /\ e.seq = d.seq)
    BY <1>1, <1>6 DEF ChannelInv, RefusedMeansShared
  <2>2. CASE opens(d)
    BY <2>1, <2>2, NotPassed DEF ChannelInv, ReceiptInv
  <2>3. CASE ~opens(d)
    <3>1. PICK e \in wire : e.ctr = d.ctr /\ Settled(e)
      BY <2>1, <2>3, NotOpened DEF ChannelInv, ReceiptInv
    <3>2. e # d
      BY <2>1, <3>1 DEF Settled
    <3>3. QED BY <3>1, <3>2 DEF ChannelInv, IdInv
  <2>4. QED BY <2>2, <2>3
<1>10. QED BY <1>4, <1>5, <1>8, <1>9 DEF ChannelInv

(* Establishing again, at either end.                                      *)
LEMMA EstablishStep ==
  ASSUME ChannelInv, sealAfresh \/ openAfresh
  PROVE  ChannelInv'
<1> USE DEF sender, receiver
<1>1. CASE sealAfresh
  <2>1. UNCHANGED <<seq, thr, sends, wire, receiver>> /\ counter' = 0
    BY <1>1 DEF sealAfresh
  <2>2. NumberInv' /\ IdInv' /\ WindowInv'
    BY <2>1 DEF ChannelInv, NumberInv, IdInv, WindowInv
  <2>3. ReceiptInv' /\ RefusedMeansShared'
    BY <2>1 DEF ChannelInv, ReceiptInv, RefusedMeansShared, Settled, InTime
  <2>4. QED BY <2>2, <2>3 DEF ChannelInv
<1>2. CASE openAfresh
  <2>1. /\ UNCHANGED <<sender, handed, wronged>> /\ got' = {} /\ gotSeq' = {}
        /\ reopened' = handed
        /\ replay' = reset /\ controlReplay' = reset
    BY <1>2 DEF openAfresh
  <2>2. NumberInv' /\ IdInv'
    BY <2>1 DEF ChannelInv, NumberInv, IdInv
  <2>3. WindowInv'
    BY <2>1 DEF WindowInv, Window, Represents, reset
  <2>4. ReceiptInv' /\ RefusedMeansShared'
    BY <2>1 DEF ChannelInv, ReceiptInv, RefusedMeansShared
  <2>5. QED BY <2>2, <2>3, <2>4 DEF ChannelInv
<1>3. QED BY <1>1, <1>2

LEMMA ChannelInvariant == Spec => []ChannelInv
<1> USE ChannelAssumption
<1>1. Init => ChannelInv
  BY InitChannel
<1>2. ChannelInv /\ [Next]_vars => ChannelInv'
  <2> SUFFICES ASSUME ChannelInv, [Next]_vars PROVE ChannelInv'
    OBVIOUS
  <2>1. ASSUME NEW t \in Thread, Send(t) PROVE ChannelInv'
    BY <2>1, SenderSteps
  <2>2. CASE onDatagram
    BY <2>2, ReceiverStep
  <2>3. CASE onPair3 \/ onPair4
    BY <2>3, EstablishStep DEF onPair3, onPair4
  <2>4. CASE UNCHANGED vars
    BY <2>4 DEF vars, sender, receiver, ChannelInv, NumberInv, IdInv, WindowInv,
                ReceiptInv, RefusedMeansShared, Settled, InTime
  <2>5. QED BY <2>1, <2>2, <2>3, <2>4 DEF Next
<1>3. QED BY <1>1, <1>2, PTL DEF Spec

-----------------------------------------------------------------------------
(* Each window answers as if it remembered every number it has accepted    *)
(* since it was emptied, whatever its width: the shift by the distance and *)
(* the bit of the distance lose nothing that is still in reach.            *)
(* (replay_window.h, accept)                                               *)
THEOREM WindowSafety == Spec => []WindowsAreExact
<1>1. ChannelInv => WindowsAreExact
  <2> SUFFICES ASSUME ChannelInv PROVE WindowsAreExact
    OBVIOUS
  <2>1. WindowInv /\ Width \in Nat \ {0} /\ ControlWidth \in Nat \ {0} /\ MaxSends \in Nat
    BY ChannelAssumption DEF ChannelInv, ChannelAssumption
  <2>2. ASSUME NEW s \in 0..MaxSends + 1
        PROVE  /\ accepts(replay, Width, s) <=> IsNew(got, Width, s)
               /\ accepts(controlReplay, ControlWidth, s) <=> IsNew(gotSeq, ControlWidth, s)
    <3>1. s \in Nat
      BY <2>1
    <3>2. QED BY <2>1, <3>1, AcceptsIsExact DEF WindowInv
  <2>3. QED BY <2>1, <2>2 DEF WindowInv, WindowsAreExact
<1>2. QED BY <1>1, ChannelInvariant, PTL

(* However its datagram is delayed, repeated and overtaken, a message that *)
(* has reached the callbacks reaches them again only if the windows were   *)
(* emptied since: until then they hold its counter, and a window refuses   *)
(* what it has accepted.  (peer_session.cpp, onDatagram and establish)     *)
THEOREM ReplaySafety == Spec => []AgainMeansReopened
<1>1. ChannelInv => AgainMeansReopened
  <2> SUFFICES ASSUME ChannelInv, NEW d \in wire, d.id \in handed, d.id \notin reopened
               PROVE  ~passes(d)
    BY DEF AgainMeansReopened
  <2>1. d.ctr \in got /\ d.ctr \in Nat
    BY DEF ChannelInv, ReceiptInv, IdInv, NumberInv
  <2>2. ~IsNew(got, Width, d.ctr)
    BY <2>1 DEF IsNew
  <2>3. ~opens(d)
    BY <2>1, <2>2, AcceptsIsExact, ChannelAssumption
    DEF ChannelAssumption, ChannelInv, WindowInv, opens
  <2>4. QED BY <2>3 DEF passes
<1>2. QED BY <1>1, ChannelInvariant, PTL

(* A new message in time is refused only because its counter or sequence   *)
(* number was given out twice: by two threads in the unlocked increments,  *)
(* or again after a late PAIR3 or PAIR4.  (secure_channel.cpp, seal)       *)
THEOREM RefusalSafety == Spec => []RefusedMeansShared
<1>1. ChannelInv => RefusedMeansShared
  BY DEF ChannelInv
<1>2. QED BY <1>1, ChannelInvariant, PTL
-----------------------------------------------------------------------------
(* How large the numbers grow.                                             *)

(* A number is loaded before the datagram that uses it is on the wire, so  *)
(* the counter is at most the datagrams there are, and a message number at *)
(* most the messages there are, although threads may use one value twice.  *)
CountInv ==
  /\ sends <= MaxSends /\ seq <= sends /\ counter <= Cardinality(wire)
  /\ \A d \in wire : 0 < d.id /\ d.ctr < sends /\ d.seq <= sends
  /\ \A t \in Thread :
       /\ thr[t].n <= sends /\ thr[t].seq <= sends
       /\ (thr[t].at = "idle" <=> thr[t].id = 0)
       /\ thr[t].at = "numbering" => thr[t].n < thr[t].id
       /\ thr[t].at = "sealed" => thr[t].n <= Cardinality(wire)

SessionType ==
  /\ dir \in {"phone", "pc"} /\ authed \in BOOLEAN /\ established \in 1..MaxEstablish
  /\ 0 \notin gotSeq

(* Messages become one datagram each: there are no more on the wire than   *)
(* were sent, and one less while a message is still being sealed.          *)
LEMMA WireFits ==
  ASSUME NumberInv, IdInv, \A d \in wire : 0 < d.id,
         \A t \in Thread : thr[t].at # "idle" => thr[t].id # 0
  PROVE  /\ IsFiniteSet(wire) /\ Cardinality(wire) \in Nat
         /\ Cardinality(wire) <= sends
         /\ \A t \in Thread : thr[t].at # "idle" => Cardinality(wire) + 1 <= sends
<1> DEFINE name == [d \in wire |-> d.id]
<1>1. sends \in Nat /\ \A d \in wire : d.id \in 1..sends
  BY DEF NumberInv, IdInv
<1>2. \A d, e \in wire : name[d] = name[e] => d = e
  BY DEF IdInv
<1>3. IsFiniteSet(1..sends) /\ Cardinality(1..sends) = sends
  BY <1>1, FS_Interval
<1>4. IsFiniteSet(wire) /\ Cardinality(wire) <= sends
  <2>1. name \in Injection(wire, 1..sends)
    BY <1>1, <1>2 DEF Injection, IsInjective
  <2>2. QED BY <2>1, <1>3, FS_Injection
<1>5. ASSUME NEW t \in Thread, thr[t].at # "idle"
      PROVE  Cardinality(wire) + 1 <= sends
  <2> DEFINE Others == (1..sends) \ {thr[t].id}
  <2>1. thr[t].id \in 1..sends /\ \A d \in wire : d.id # thr[t].id
    BY <1>1, <1>5 DEF NumberInv, IdInv
  <2>2. IsFiniteSet(Others) /\ Cardinality(Others) = sends - 1
    BY <1>3, <2>1, FS_RemoveElement
  <2>3. name \in [wire -> Others]
    BY <1>1, <2>1
  <2>4. name \in Injection(wire, Others)
    BY <1>2, <2>3 DEF Injection, IsInjective
  <2>5. Cardinality(wire) <= sends - 1
    BY <2>2, <2>4, FS_Injection
  <2>6. Cardinality(wire) \in Nat
    BY <1>4, FS_CardinalityType
  <2>7. QED BY <1>1, <2>5, <2>6
<1>6. QED BY <1>4, <1>5, FS_CardinalityType

(* The sender's steps keep its numbers in bounds.                          *)
LEMMA SenderCounts ==
  ASSUME ChannelInv, CountInv, NEW t \in Thread, Send(t)
  PROVE  CountInv'
<1>1. NumberInv /\ IdInv /\ MaxSends \in Nat
  BY ChannelAssumption DEF ChannelInv, ChannelAssumption
<1>2. /\ IsFiniteSet(wire) /\ Cardinality(wire) \in Nat /\ Cardinality(wire) <= sends
      /\ thr[t].at # "idle" => Cardinality(wire) + 1 <= sends
  BY <1>1, WireFits DEF CountInv
<1>3. /\ sends \in Nat /\ seq \in Nat /\ counter \in Nat
      /\ \A u \in Thread : thr[u].n \in Nat /\ thr[u].seq \in Nat /\ thr[u].id \in Nat
      /\ \A d \in wire : d.id \in Nat /\ d.ctr \in Nat /\ d.seq \in Nat
  BY <1>1 DEF NumberInv
<1>4. CASE sendMedia(t) \/ sendControl(t)
  <2>1. /\ sends' = sends + 1 /\ sends < MaxSends /\ UNCHANGED <<counter, seq, wire>>
        /\ \A u \in Thread \ {t} : thr'[u] = thr[u]
    BY <1>1, <1>4, SendBegins
  <2>2. /\ thr'[t].id = sends + 1 /\ thr'[t].seq = 0 /\ thr'[t].n \in {0, seq}
        /\ thr'[t].at \in {"sealing", "numbering"}
    BY <1>1, <1>4, SendBegins
  <2>3. sends' <= MaxSends /\ seq' <= sends' /\ counter' <= Cardinality(wire')
    BY <1>1, <1>3, <2>1 DEF CountInv
  <2>4. \A d \in wire' : 0 < d.id /\ d.ctr < sends' /\ d.seq <= sends'
    BY <1>3, <2>1 DEF CountInv
  <2>5. \A u \in Thread \ {t} :
          /\ thr'[u].n <= sends' /\ thr'[u].seq <= sends'
          /\ (thr'[u].at = "idle" <=> thr'[u].id = 0)
          /\ thr'[u].at = "numbering" => thr'[u].n < thr'[u].id
          /\ thr'[u].at = "sealed" => thr'[u].n <= Cardinality(wire')
    BY <1>3, <2>1 DEF CountInv
  <2>6. thr'[t].n <= sends /\ thr'[t].id # 0 /\ thr'[t].n < thr'[t].id
    BY <1>3, <2>2 DEF CountInv
  <2>7. thr'[t].n <= sends' /\ thr'[t].seq <= sends'
    BY <1>3, <2>1, <2>2, <2>6
  <2>8. thr'[t].at # "sealed" /\ thr'[t].at # "idle"
    BY <2>2
  <2>9. QED BY <2>3, <2>4, <2>5, <2>6, <2>7, <2>8 DEF CountInv
<1>5. CASE nextSeq(t) \/ sealLoad(t)
  <2>1. /\ UNCHANGED <<counter, sends, wire>> /\ thr[t].at # "idle"
        /\ \A u \in Thread \ {t} : thr'[u] = thr[u]
        /\ thr'[t].id = thr[t].id /\ thr[t].at \in {"numbering", "sealing"}
        /\ thr'[t].at \in {"sealing", "sealed"}
    BY <1>1, <1>5 DEF nextSeq, sealLoad, NumberInv
  <2>2. /\ thr'[t].at = "sealing" => /\ thr[t].at = "numbering" /\ seq' = thr[t].n + 1
                                    /\ thr'[t].seq = thr[t].n + 1 /\ thr'[t].n = thr[t].n
        /\ thr'[t].at = "sealed" => /\ seq' = seq /\ thr'[t].seq = thr[t].seq
                                    /\ thr'[t].n = counter
    BY <1>1, <1>5 DEF nextSeq, sealLoad, NumberInv
  <2>3. thr[t].id <= sends /\ thr[t].id # 0
    BY <1>1, <2>1 DEF IdInv, CountInv
  <2>4. thr[t].at = "numbering" => thr[t].n < thr[t].id
    BY DEF CountInv
  <2>5. seq' <= sends /\ thr'[t].seq <= sends /\ thr'[t].n <= sends
    <3>1. CASE thr'[t].at = "sealing"
      BY <1>3, <2>2, <2>3, <2>4, <3>1
    <3>2. CASE thr'[t].at = "sealed"
      BY <1>2, <1>3, <2>2, <3>2 DEF CountInv
    <3>3. QED BY <2>1, <3>1, <3>2
  <2>6. thr'[t].at = "sealed" => thr'[t].n <= Cardinality(wire)
    BY <2>2 DEF CountInv
  <2>7. QED BY <2>1, <2>3, <2>5, <2>6 DEF CountInv
<1>6. CASE sealStore(t)
  <2> DEFINE d == [ctr |-> thr[t].n, id |-> thr[t].id, seq |-> thr[t].seq]
  <2>1. /\ counter' = thr[t].n + 1 /\ wire' = wire \union {d} /\ thr[t].at = "sealed"
        /\ thr' = [thr EXCEPT ![t] = idle] /\ UNCHANGED <<seq, sends>>
    BY <1>6 DEF sealStore
  <2>2. /\ d \notin wire /\ d.ctr = thr[t].n /\ d.id = thr[t].id /\ d.seq = thr[t].seq
    BY <1>1, <2>1 DEF IdInv
  <2>3. Cardinality(wire') = Cardinality(wire) + 1
    BY <1>2, <2>1, <2>2, FS_AddElement
  <2>4. thr[t].n <= Cardinality(wire) /\ 0 < thr[t].id /\ thr[t].seq <= sends
    BY <1>3, <2>1 DEF CountInv
  <2>5. counter' <= Cardinality(wire') /\ thr[t].n < sends
    BY <1>2, <1>3, <2>1, <2>3, <2>4
  <2>6. \A e \in wire' : 0 < e.id /\ e.ctr < sends /\ e.seq <= sends
    BY <2>1, <2>2, <2>4, <2>5 DEF CountInv
  <2>7. thr'[t].n = 0 /\ thr'[t].seq = 0 /\ thr'[t].at = "idle" /\ thr'[t].id = 0
    BY <1>1, <2>1 DEF idle, NumberInv
  <2>8. \A u \in Thread \ {t} : thr'[u] = thr[u]
    BY <1>1, <2>1 DEF NumberInv
  <2>9. \A u \in Thread \ {t} : thr[u].at = "sealed" => thr[u].n <= Cardinality(wire')
    BY <1>2, <1>3, <2>3 DEF CountInv
  <2>10. \A u \in Thread :
          /\ thr'[u].n <= sends' /\ thr'[u].seq <= sends'
          /\ (thr'[u].at = "idle" <=> thr'[u].id = 0)
          /\ thr'[u].at = "numbering" => thr'[u].n < thr'[u].id
          /\ thr'[u].at = "sealed" => thr'[u].n <= Cardinality(wire')
    <3>1. ASSUME NEW u \in Thread, u # t
          PROVE  /\ thr'[u].n <= sends' /\ thr'[u].seq <= sends'
                 /\ (thr'[u].at = "idle" <=> thr'[u].id = 0)
                 /\ thr'[u].at = "numbering" => thr'[u].n < thr'[u].id
                 /\ thr'[u].at = "sealed" => thr'[u].n <= Cardinality(wire')
      <4>1. thr'[u] = thr[u] /\ sends' = sends
        BY <2>1, <2>8, <3>1
      <4>2. QED BY <2>9, <3>1, <4>1 DEF CountInv
    <3>2. sends' = sends /\ 0 <= sends
      BY <1>3, <2>1
    <3>3. QED BY <2>7, <3>1, <3>2
  <2>11. sends' <= MaxSends /\ seq' <= sends'
    BY <2>1 DEF CountInv
  <2>12. \A e \in wire' : 0 < e.id /\ e.ctr < sends' /\ e.seq <= sends'
    BY <2>1, <2>6
  <2>13. QED BY <2>5, <2>10, <2>11, <2>12 DEF CountInv
<1>7. QED BY <1>4, <1>5, <1>6 DEF Send

(* The channel's state stays well formed: however often the two unlocked   *)
(* increments lose an update or establish() starts the counter again, no   *)
(* number outgrows the messages it counts.  (secure_channel.cpp, seal;     *)
(* peer_session.h, nextSeq)                                                *)
THEOREM ChannelTypeSafety == Spec => []ChannelTypeOK
<1>1. Init => CountInv /\ SessionType
  <2> SUFFICES ASSUME Init PROVE CountInv /\ SessionType
    OBVIOUS
  <2>1. \A t \in Thread : thr[t] = idle
    BY DEF Init
  <2>2. \A t \in Thread : thr[t].n = 0 /\ thr[t].seq = 0 /\ thr[t].id = 0 /\ thr[t].at = "idle"
    BY <2>1 DEF idle
  <2>3. CountInv
    BY <2>2, ChannelAssumption, FS_EmptySet DEF ChannelAssumption, Init, CountInv
  <2>4. SessionType
    <3>1. dir \in {"phone", "pc"} /\ authed \in BOOLEAN /\ 0 \notin gotSeq
      BY DEF Init
    <3>2. established \in 1..MaxEstablish
      BY ChannelAssumption DEF ChannelAssumption, Init
    <3>3. QED BY <3>1, <3>2 DEF SessionType
  <2>5. QED BY <2>3, <2>4
<1>2. ChannelInv /\ CountInv /\ SessionType /\ [Next]_vars => CountInv' /\ SessionType'
  <2> SUFFICES ASSUME ChannelInv, CountInv, SessionType, [Next]_vars
               PROVE  CountInv' /\ SessionType'
    OBVIOUS
  <2>1. CASE \E t \in Thread : Send(t)
    <3>1. PICK t \in Thread : Send(t)
      BY <2>1
    <3>2. UNCHANGED <<dir, authed, established, gotSeq>>
      BY <3>1 DEF Send, sendMedia, sendControl, nextSeq, sealLoad, sealStore, receiver
    <3>3. QED BY <3>1, <3>2, SenderCounts DEF SessionType
  <2>2. CASE onDatagram
    <3>1. UNCHANGED <<dir, authed, established, sender>> /\ 0 \notin gotSeq'
      BY <2>2 DEF onDatagram, SessionType
    <3>2. QED BY <3>1 DEF sender, CountInv, SessionType
  <2>3. CASE onPair3 \/ onPair4
    <3>1. /\ dir' = dir /\ authed' \in BOOLEAN
          /\ established < MaxEstablish /\ established' = established + 1
          /\ counter' \in {0, counter} /\ UNCHANGED <<seq, thr, sends, wire>>
          /\ gotSeq' \in {{}, gotSeq}
      BY <2>3 DEF onPair3, onPair4, sealAfresh, openAfresh, sender, receiver, SessionType
    <3>2. Cardinality(wire) \in Nat
      BY WireFits DEF ChannelInv, CountInv
    <3>3. CountInv'
      BY <3>1, <3>2 DEF CountInv
    <3>4. established' \in 1..MaxEstablish
      BY <3>1, ChannelAssumption DEF SessionType, ChannelAssumption
    <3>5. QED BY <3>1, <3>3, <3>4 DEF SessionType
  <2>4. CASE UNCHANGED vars
    BY <2>4 DEF vars, sender, receiver, CountInv, SessionType
  <2>5. QED BY <2>1, <2>2, <2>3, <2>4 DEF Next
<1>3. ChannelInv /\ CountInv /\ SessionType => ChannelTypeOK
  <2> SUFFICES ASSUME ChannelInv, CountInv, SessionType PROVE ChannelTypeOK
    OBVIOUS
  <2>1. /\ NumberInv /\ IdInv /\ WindowInv /\ ReceiptInv /\ MaxSends \in Nat
        /\ sends \in 0..MaxSends
    BY ChannelAssumption DEF ChannelInv, ChannelAssumption, CountInv, NumberInv
  <2>2. Cardinality(wire) \in Nat /\ Cardinality(wire) <= sends
    BY <2>1, WireFits DEF CountInv
  <2>3. counter \in 0..MaxSends /\ seq \in 0..MaxSends
    BY <2>1, <2>2 DEF NumberInv, CountInv
  <2>4. \A t \in Thread : thr[t].id \in 0..MaxSends
    <3>1. \A t \in Thread : thr[t].at = "idle" => thr[t].id = 0
      BY DEF CountInv
    <3>2. QED BY <2>1, <3>1 DEF NumberInv, IdInv
  <2>5. \A t \in Thread : thr[t].n \in 0..MaxSends /\ thr[t].seq \in 0..MaxSends
    BY <2>1 DEF NumberInv, CountInv
  <2>6. thr \in [Thread -> [at : {"idle", "numbering", "sealing", "sealed"},
                            id : 0..MaxSends, n : 0..MaxSends, seq : 0..MaxSends]]
    BY <2>1, <2>4, <2>5 DEF NumberInv
  <2>7. \A d \in wire : d \in Datagram
    <3>1. \A d \in wire : d.ctr \in 0..MaxSends /\ d.id \in 1..MaxSends /\ d.seq \in 0..MaxSends
      BY <2>1 DEF NumberInv, IdInv, CountInv
    <3>2. QED BY <2>1, <3>1 DEF NumberInv, Datagram
  <2>8. got \subseteq 0..MaxSends /\ gotSeq \subseteq 1..MaxSends /\ handed \subseteq 1..MaxSends
    <3>1. \A d \in wire : d.ctr \in 0..MaxSends /\ d.id \in 1..MaxSends /\ d.seq \in 0..MaxSends
      BY <2>7 DEF Datagram
    <3>2. \A s \in gotSeq : s # 0
      BY DEF SessionType
    <3>3. QED BY <2>1, <3>1, <3>2 DEF ReceiptInv
  <2>9. QED BY <2>1, <2>3, <2>6, <2>7, <2>8 DEF ChannelTypeOK, SessionType, WindowInv, ReceiptInv
<1>4. QED BY <1>1, <1>2, <1>3, ChannelInvariant, PTL DEF Spec
=============================================================================
