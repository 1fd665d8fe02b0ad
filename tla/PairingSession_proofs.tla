----------------------- MODULE PairingSession_proofs -----------------------
(***************************************************************************)
(* PairingSession: types and agreement on the session key, for any number  *)
(* of phones, any codes and keys, and with or without duplication.         *)
(***************************************************************************)
EXTENDS PairingSession, TLAPS

(* A PAIR3 under way carries the key its sender's exchange derived.        *)
Pair3Inv ==
  \A m \in net : m.t = "PAIR3" => derived[m.from] # 0 /\ m.sig = phoneKey(m.from)

(* A PAIR4 under way carries a key the PC established.                     *)
Pair4Inv == \A m \in net : m.t = "PAIR4" => m.sig \in keys

(* An established key was derived by its phone, from the right code; the   *)
(* offer is spent from then on.                                            *)
KeysInv ==
  \A k \in keys : consumed /\ k.code = "right" /\ k = phoneKey(k.phone)

(* An authenticated phone holds an established key, and so does an         *)
(* authenticated PC: it has replaced neither its exchange nor its share.   *)
PhoneInv == \A p \in Phones : phone[p] = "Authenticated" => phoneKey(p) \in keys
PcInv == pc = "Authenticated" => with # "none" /\ pcKey \in keys

PairingInv == TypeOK /\ Pair3Inv /\ Pair4Inv /\ KeysInv /\ PhoneInv /\ PcInv

-----------------------------------------------------------------------------
(* What may be in the network, by kind.                                    *)
LEMMA MessageKinds ==
  ASSUME NEW m \in ToPc \union ToPhone
  PROVE  /\ m.t = "PAIR1" => m \in [t : {"PAIR1"}, from : Phones]
         /\ m.t = "PAIR2" => m \in [t : {"PAIR2"}, to : Phones,
                                    share : 1..MaxExchanges]
         /\ m.t = "PAIR3" => m \in [t : {"PAIR3"}, from : Phones, sig : Key]
         /\ m.t = "PAIR4" => m \in [t : {"PAIR4"}, to : Phones, sig : Key]
  BY DEF ToPc, ToPhone

(* Taking a datagram and sending answers keeps the network to its kinds.   *)
LEMMA ReceiveType ==
  ASSUME net \subseteq (ToPc \union ToPhone), NEW m, NEW answers,
         answers \subseteq (ToPc \union ToPhone), receive(m, answers)
  PROVE  /\ net' \subseteq (ToPc \union ToPhone)
         /\ \A x \in net' : x \in net \/ x \in answers
  BY DEF receive

(* The initial state satisfies the invariant.                              *)
LEMMA PairingInitInv == Init => PairingInv
<1> SUFFICES ASSUME Init PROVE PairingInv
  OBVIOUS
<1>1. TypeOK
  <2>1. 0 \in 0..MaxExchanges /\ 0 \in 0..MaxAttempts
    BY PairingAssumption
  <2>2. derived \in [Phones -> 0..MaxExchanges] /\ share \in 0..MaxExchanges
        /\ attempts \in 0..MaxAttempts
    BY <2>1 DEF Init
  <2>3. consumed \in BOOLEAN /\ expired \in BOOLEAN
    BY DEF Init
  <2>4. (share = 0 <=> with = "none") /\ phone \in [Phones -> SessionState]
    BY DEF Init, SessionState
  <2>. QED  BY <2>2, <2>3, <2>4 DEF Init, TypeOK, SessionState
<1>2. Pair3Inv /\ Pair4Inv /\ KeysInv /\ PhoneInv /\ PcInv
  BY DEF Init, Pair3Inv, Pair4Inv, KeysInv, PhoneInv, PcInv
<1>. QED  BY <1>1, <1>2 DEF PairingInv

(* Every step keeps it.                                                    *)
LEMMA PairingNextInv == PairingInv /\ [Next]_vars => PairingInv'
<1> SUFFICES ASSUME PairingInv, [Next]_vars PROVE PairingInv'
  OBVIOUS
<1> USE PairingAssumption
<1>a. TypeOK /\ Pair3Inv /\ Pair4Inv /\ KeysInv /\ PhoneInv /\ PcInv
  BY DEF PairingInv
<1>1. ASSUME NEW p \in Phones, beginPairing(p) PROVE PairingInv'
  <2>0. [t |-> "PAIR1", from |-> p] \in ToPc
    BY DEF ToPc
  <2>1. TypeOK'
    BY <1>1, <1>a, <2>0 DEF beginPairing, bookVars, TypeOK, SessionState
  <2>2. Pair3Inv' /\ Pair4Inv' /\ KeysInv'
    BY <1>1, <1>a DEF beginPairing, bookVars, Pair3Inv, Pair4Inv, KeysInv, phoneKey
  <2>3. PhoneInv' /\ PcInv'
    BY <1>1, <1>a DEF beginPairing, bookVars, PhoneInv, PcInv, phoneKey, pcKey, TypeOK
  <2>. QED  BY <2>1, <2>2, <2>3 DEF PairingInv
<1>2. ASSUME NEW p \in Phones, resendPairingHello(p) PROVE PairingInv'
  <2>0. [t |-> "PAIR1", from |-> p] \in ToPc
    BY DEF ToPc
  <2>1. TypeOK'
    BY <1>2, <1>a, <2>0 DEF resendPairingHello, bookVars, phoneVars, TypeOK
  <2>2. Pair3Inv' /\ Pair4Inv' /\ KeysInv'
    BY <1>2, <1>a DEF resendPairingHello, bookVars, phoneVars, Pair3Inv, Pair4Inv, KeysInv, phoneKey
  <2>3. PhoneInv' /\ PcInv'
    BY <1>2, <1>a DEF resendPairingHello, bookVars, phoneVars, PhoneInv, PcInv, phoneKey, pcKey
  <2>. QED  BY <2>1, <2>2, <2>3 DEF PairingInv
<1>3. ASSUME NEW p \in Phones, handlePair2(p) PROVE PairingInv'
  <2> PICK m \in net :
        /\ m.t = "PAIR2" /\ m.to = p
        /\ IF derived[p] # 0
           THEN /\ phone' = [phone EXCEPT ![p] = "Failed"]
                /\ receive(m, {})
                /\ UNCHANGED derived
           ELSE /\ derived' = [derived EXCEPT ![p] = m.share]
                /\ receive(m, {[t |-> "PAIR3", from |-> p,
                                sig |-> [phone |-> p, share |-> m.share,
                                         code |-> Code[p]]]})
                /\ UNCHANGED phone
        /\ UNCHANGED <<pc, with, share, peerAddr, bookVars, keys>>
    BY <1>3 DEF handlePair2
  <2>u. UNCHANGED <<pc, with, share, peerAddr, attempts, consumed, expired, keys>>
    BY DEF bookVars
  <2>1. CASE derived[p] # 0
    <3>1. net' \subseteq (ToPc \union ToPhone) /\ \A x \in net' : x \in net
      BY <1>a, <2>1, ReceiveType DEF TypeOK
    <3>2. TypeOK'
      BY <1>a, <2>u, <2>1, <3>1 DEF TypeOK, SessionState
    <3>3. Pair3Inv' /\ Pair4Inv' /\ KeysInv'
      BY <1>a, <2>u, <2>1, <3>1 DEF Pair3Inv, Pair4Inv, KeysInv, phoneKey
    <3>4. PhoneInv' /\ PcInv'
      BY <1>a, <2>u, <2>1 DEF PhoneInv, PcInv, phoneKey, pcKey, TypeOK
    <3>. QED  BY <3>2, <3>3, <3>4 DEF PairingInv
  <2>2. CASE derived[p] = 0
    <3> DEFINE a == [t |-> "PAIR3", from |-> p,
                     sig |-> [phone |-> p, share |-> m.share, code |-> Code[p]]]
    <3>0. m.share \in 1..MaxExchanges /\ Code[p] \in {"right", "wrong"}
      BY <1>a, MessageKinds DEF TypeOK
    <3>1. a \in ToPc
      BY <3>0 DEF ToPc, Key
    <3>2. receive(m, {a}) /\ derived' = [derived EXCEPT ![p] = m.share]
          /\ phone' = phone
      BY <2>2
    <3> HIDE DEF a
    <3>3. net' \subseteq (ToPc \union ToPhone) /\ \A x \in net' : x \in net \/ x = a
      BY <1>a, <3>1, <3>2, ReceiveType DEF TypeOK
    <3>4. TypeOK'
      BY <1>a, <2>u, <3>0, <3>2, <3>3 DEF TypeOK
    <3>5. \A q \in Phones : q # p => derived'[q] = derived[q] /\ phoneKey(q)' = phoneKey(q)
      BY <1>a, <3>2 DEF TypeOK, phoneKey
    <3>6. derived'[p] = m.share /\ phoneKey(p)' = a.sig /\ a.from = p
      BY <1>a, <3>2 DEF TypeOK, phoneKey, a
    <3>7. Pair3Inv'
      <4> SUFFICES ASSUME NEW x \in net', x.t = "PAIR3"
                   PROVE derived'[x.from] # 0 /\ x.sig = phoneKey(x.from)'
        BY DEF Pair3Inv
      <4>1. CASE x = a
        BY <4>1, <3>0, <3>6
      <4>2. CASE x \in net
        <5>1. x.from \in Phones /\ derived[x.from] # 0 /\ x.sig = phoneKey(x.from)
          BY <1>a, <4>2, MessageKinds DEF TypeOK, Pair3Inv
        <5>. QED  BY <2>2, <3>5, <5>1
      <4>. QED  BY <3>3, <4>1, <4>2
    <3>8. Pair4Inv'
      BY <1>a, <2>u, <3>3 DEF Pair4Inv, a
    <3>9. \A k \in keys : k.phone \in Phones /\ k.phone # p
      BY <1>a, <2>2 DEF TypeOK, KeysInv, Key, phoneKey
    <3>10. KeysInv'
      BY <1>a, <2>u, <3>5, <3>9 DEF KeysInv
    <3>11. PhoneInv'
      <4>1. phoneKey(p) \notin keys
        BY <3>9 DEF phoneKey
      <4>. QED  BY <1>a, <2>u, <3>2, <3>5, <4>1 DEF PhoneInv
    <3>12. PcInv'
      BY <1>a, <2>u DEF PcInv, pcKey
    <3>. QED  BY <3>4, <3>7, <3>8, <3>10, <3>11, <3>12 DEF PairingInv
  <2>. QED  BY <2>1, <2>2
<1>4. ASSUME NEW p \in Phones, handlePair4(p) PROVE PairingInv'
  <2> PICK m \in net :
        /\ m.t = "PAIR4" /\ m.to = p
        /\ phone' = [phone EXCEPT ![p] =
                       IF derived[p] # 0 /\ m.sig = phoneKey(p)
                       THEN "Authenticated" ELSE "Failed"]
        /\ receive(m, {})
        /\ UNCHANGED <<derived, pc, with, share, peerAddr, bookVars, keys>>
    BY <1>4 DEF handlePair4
  <2>u. UNCHANGED <<derived, pc, with, share, peerAddr, attempts, consumed, expired, keys>>
    BY DEF bookVars
  <2>1. net' \subseteq (ToPc \union ToPhone) /\ \A x \in net' : x \in net
    BY <1>a, ReceiveType DEF TypeOK
  <2>2. TypeOK'
    BY <1>a, <2>u, <2>1 DEF TypeOK, SessionState
  <2>3. Pair3Inv' /\ Pair4Inv' /\ KeysInv'
    BY <1>a, <2>u, <2>1 DEF Pair3Inv, Pair4Inv, KeysInv, phoneKey
  <2>4. PhoneInv' /\ PcInv'
    BY <1>a, <2>u DEF PhoneInv, PcInv, phoneKey, pcKey, TypeOK, Pair4Inv
  <2>. QED  BY <2>2, <2>3, <2>4 DEF PairingInv
<1>5. ASSUME NEW p \in Phones, handlePairErr(p) PROVE PairingInv'
  <2> PICK m \in net :
        /\ m.t = "PAIRERR" /\ m.to = p
        /\ phone' = [phone EXCEPT ![p] = "Failed"]
        /\ receive(m, {})
        /\ UNCHANGED <<derived, pc, with, share, peerAddr, bookVars, keys>>
    BY <1>5 DEF handlePairErr
  <2>u. UNCHANGED <<derived, pc, with, share, peerAddr, attempts, consumed, expired, keys>>
    BY DEF bookVars
  <2>1. net' \subseteq (ToPc \union ToPhone) /\ \A x \in net' : x \in net
    BY <1>a, ReceiveType DEF TypeOK
  <2>2. TypeOK'
    BY <1>a, <2>u, <2>1 DEF TypeOK, SessionState
  <2>3. Pair3Inv' /\ Pair4Inv' /\ KeysInv'
    BY <1>a, <2>u, <2>1 DEF Pair3Inv, Pair4Inv, KeysInv, phoneKey
  <2>4. PhoneInv' /\ PcInv'
    BY <1>a, <2>u DEF PhoneInv, PcInv, phoneKey, pcKey, TypeOK
  <2>. QED  BY <2>2, <2>3, <2>4 DEF PairingInv
<1>6. CASE refusePair1
  <2> PICK m \in net :
        /\ m.t = "PAIR1" /\ ~offerValid
        /\ peerAddr' = Learnt(m.from)
        /\ receive(m, {Refuse(m.from)})
        /\ pc' = "Failed"
        /\ UNCHANGED <<phoneVars, with, share, bookVars, keys>>
    BY <1>6 DEF refusePair1
  <2>u. UNCHANGED <<phone, derived, with, share, attempts, consumed, expired, keys>>
    BY DEF bookVars, phoneVars
  <2>0. m.from \in Phones /\ Learnt(m.from) \in Phones
    BY <1>a, MessageKinds DEF TypeOK, Learnt
  <2>1. Refuse(m.from) \in ToPhone /\ Refuse(m.from).t = "PAIRERR"
    BY <2>0 DEF Refuse, ToPhone
  <2>2. net' \subseteq (ToPc \union ToPhone)
        /\ \A x \in net' : x \in net \/ x = Refuse(m.from)
    BY <1>a, <2>1, ReceiveType DEF TypeOK
  <2>3. TypeOK'
    BY <1>a, <2>u, <2>0, <2>2 DEF TypeOK, SessionState
  <2>4. Pair3Inv' /\ Pair4Inv' /\ KeysInv'
    BY <1>a, <2>u, <2>1, <2>2 DEF Pair3Inv, Pair4Inv, KeysInv, phoneKey
  <2>5. PhoneInv' /\ PcInv'
    BY <1>a, <2>u DEF PhoneInv, PcInv, phoneKey
  <2>. QED  BY <2>3, <2>4, <2>5 DEF PairingInv
<1>7. CASE repeatPair2
  <2> PICK m \in net :
        /\ m.t = "PAIR1" /\ offerValid /\ SameDevice(m.from)
        /\ peerAddr' = Learnt(m.from)
        /\ receive(m, {Answer(m.from, share)})
        /\ UNCHANGED <<phoneVars, pc, with, share, bookVars, keys>>
    BY <1>7 DEF repeatPair2
  <2>u. UNCHANGED <<phone, derived, pc, with, share, attempts, consumed, expired, keys>>
    BY DEF bookVars, phoneVars
  <2>0. m.from \in Phones /\ Learnt(m.from) \in Phones /\ share \in 1..MaxExchanges
    BY <1>a, MessageKinds DEF TypeOK, Learnt, SameDevice
  <2>1. Answer(m.from, share) \in ToPhone /\ Answer(m.from, share).t = "PAIR2"
    BY <2>0 DEF Answer, ToPhone
  <2>2. net' \subseteq (ToPc \union ToPhone)
        /\ \A x \in net' : x \in net \/ x = Answer(m.from, share)
    BY <1>a, <2>1, ReceiveType DEF TypeOK
  <2>3. TypeOK'
    BY <1>a, <2>u, <2>0, <2>2 DEF TypeOK
  <2>4. Pair3Inv' /\ Pair4Inv' /\ KeysInv'
    BY <1>a, <2>u, <2>1, <2>2 DEF Pair3Inv, Pair4Inv, KeysInv, phoneKey
  <2>5. PhoneInv' /\ PcInv'
    BY <1>a, <2>u DEF PhoneInv, PcInv, phoneKey, pcKey
  <2>. QED  BY <2>3, <2>4, <2>5 DEF PairingInv
<1>8. CASE acceptPair1
  <2> PICK m \in net :
        /\ m.t = "PAIR1" /\ offerValid /\ ~SameDevice(m.from)
        /\ share < MaxExchanges
        /\ peerAddr' = Learnt(m.from)
        /\ with' = m.from
        /\ share' = share + 1
        /\ receive(m, {Answer(m.from, share + 1)})
        /\ UNCHANGED <<phoneVars, pc, bookVars, keys>>
    BY <1>8 DEF acceptPair1
  <2>u. UNCHANGED <<phone, derived, pc, attempts, consumed, expired, keys>>
    BY DEF bookVars, phoneVars
  <2>0. m.from \in Phones /\ Learnt(m.from) \in Phones /\ share + 1 \in 1..MaxExchanges
    BY <1>a, MessageKinds DEF TypeOK, Learnt
  <2>1. Answer(m.from, share + 1) \in ToPhone /\ Answer(m.from, share + 1).t = "PAIR2"
    BY <2>0 DEF Answer, ToPhone
  <2>2. net' \subseteq (ToPc \union ToPhone)
        /\ \A x \in net' : x \in net \/ x = Answer(m.from, share + 1)
    BY <1>a, <2>1, ReceiveType DEF TypeOK
  <2>3. TypeOK'
    BY <1>a, <2>u, <2>0, <2>2 DEF TypeOK
  <2>4. Pair3Inv' /\ Pair4Inv' /\ KeysInv'
    BY <1>a, <2>u, <2>1, <2>2 DEF Pair3Inv, Pair4Inv, KeysInv, phoneKey
  <2>5. pc # "Authenticated"    \* else the offer would be spent
    BY <1>a DEF PcInv, KeysInv, offerValid
  <2>6. PhoneInv' /\ PcInv'
    BY <1>a, <2>u, <2>5 DEF PhoneInv, PcInv, phoneKey
  <2>. QED  BY <2>3, <2>4, <2>6 DEF PairingInv
<1>9. CASE acceptPair3
  <2> PICK m \in net :
        /\ m.t = "PAIR3" /\ verifyPeerAuth(m.sig)
        /\ peerAddr' = Learnt(m.from)
        /\ receive(m, {[t |-> "PAIR4", to |-> Learnt(m.from), sig |-> pcKey]})
        /\ consumed' = TRUE
        /\ keys' = keys \union {pcKey}
        /\ pc' = "Authenticated"
        /\ UNCHANGED <<phoneVars, with, share, attempts, expired>>
    BY <1>9 DEF acceptPair3, establish
  <2> DEFINE a == [t |-> "PAIR4", to |-> Learnt(m.from), sig |-> pcKey]
  <2>u. UNCHANGED <<phone, derived, with, share, attempts, expired>>
    BY DEF phoneVars
  <2>0. m.from \in Phones /\ m.sig \in Key /\ Learnt(m.from) \in Phones
    BY <1>a, MessageKinds DEF TypeOK, Learnt
  <2>1. with # "none" /\ pcKey \in Key /\ pcKey = phoneKey(m.from)
    BY <1>a, <2>0 DEF verifyPeerAuth, Pair3Inv
  <2>2. with = m.from /\ pcKey.phone = with /\ pcKey.code = "right"
    BY <2>1 DEF pcKey, phoneKey
  <2>3. a \in ToPhone /\ receive(m, {a}) /\ a.t = "PAIR4" /\ a.sig = pcKey
    BY <2>0, <2>1 DEF ToPhone
  <2> HIDE DEF a
  <2>4. net' \subseteq (ToPc \union ToPhone) /\ \A x \in net' : x \in net \/ x = a
    BY <1>a, <2>3, ReceiveType DEF TypeOK
  <2>5. TypeOK'
    BY <1>a, <2>u, <2>0, <2>1, <2>4 DEF TypeOK, SessionState
  <2>6. Pair3Inv' /\ Pair4Inv'
    BY <1>a, <2>u, <2>3, <2>4 DEF Pair3Inv, Pair4Inv, phoneKey
  <2>7. KeysInv'
    BY <1>a, <2>u, <2>1, <2>2 DEF KeysInv, phoneKey
  <2>8. PhoneInv' /\ PcInv'
    BY <1>a, <2>u, <2>1 DEF PhoneInv, PcInv, phoneKey, pcKey
  <2>. QED  BY <2>5, <2>6, <2>7, <2>8 DEF PairingInv
<1>10. CASE rejectPair3
  <2> PICK m \in net :
        /\ m.t = "PAIR3" /\ with # "none" /\ ~verifyPeerAuth(m.sig)
        /\ peerAddr' = Learnt(m.from)
        /\ receive(m, {Refuse(m.from)})
        /\ attempts' = IF attempts < MaxAttempts THEN attempts + 1 ELSE attempts
        /\ pc' = "Failed"
        /\ UNCHANGED <<phoneVars, with, share, consumed, expired, keys>>
    BY <1>10 DEF rejectPair3
  <2>u. UNCHANGED <<phone, derived, with, share, consumed, expired, keys>>
    BY DEF phoneVars
  <2>0. m.from \in Phones /\ Learnt(m.from) \in Phones
    BY <1>a, MessageKinds DEF TypeOK, Learnt
  <2>1. Refuse(m.from) \in ToPhone /\ Refuse(m.from).t = "PAIRERR"
    BY <2>0 DEF Refuse, ToPhone
  <2>2. net' \subseteq (ToPc \union ToPhone)
        /\ \A x \in net' : x \in net \/ x = Refuse(m.from)
    BY <1>a, <2>1, ReceiveType DEF TypeOK
  <2>3. TypeOK'
    BY <1>a, <2>u, <2>0, <2>2 DEF TypeOK, SessionState
  <2>4. Pair3Inv' /\ Pair4Inv' /\ KeysInv'
    BY <1>a, <2>u, <2>1, <2>2 DEF Pair3Inv, Pair4Inv, KeysInv, phoneKey
  <2>5. PhoneInv' /\ PcInv'
    BY <1>a, <2>u DEF PhoneInv, PcInv, phoneKey
  <2>. QED  BY <2>3, <2>4, <2>5 DEF PairingInv
<1>11. CASE Expire
  <2>1. TypeOK'
    BY <1>11, <1>a DEF Expire, phoneVars, TypeOK
  <2>2. Pair3Inv' /\ Pair4Inv' /\ KeysInv' /\ PhoneInv' /\ PcInv'
    BY <1>11, <1>a DEF Expire, phoneVars, Pair3Inv, Pair4Inv, KeysInv, PhoneInv,
                       PcInv, phoneKey, pcKey
  <2>. QED  BY <2>1, <2>2 DEF PairingInv
<1>12. CASE UNCHANGED vars
  <2>1. TypeOK'
    BY <1>12, <1>a DEF vars, phoneVars, bookVars, TypeOK
  <2>2. Pair3Inv' /\ Pair4Inv' /\ KeysInv' /\ PhoneInv' /\ PcInv'
    BY <1>12, <1>a DEF vars, phoneVars, bookVars, Pair3Inv, Pair4Inv, KeysInv,
                       PhoneInv, PcInv, phoneKey, pcKey
  <2>. QED  BY <2>1, <2>2 DEF PairingInv
<1>. QED
  BY <1>1, <1>2, <1>3, <1>4, <1>5, <1>6, <1>7, <1>8, <1>9, <1>10, <1>11, <1>12
     DEF Next, Phone, Pc

-----------------------------------------------------------------------------
(* The inductive invariant holds in every reachable state.                 *)
THEOREM PairingInvariant == Spec => []PairingInv
  BY PairingInitInv, PairingNextInv, PTL DEF Spec

(* peer_session.cpp: whatever is delivered, in whatever order and how      *)
(* often, sessions, shares, offers and datagrams stay well formed; the PC  *)
(* has a share iff it has a peer.                                          *)
THEOREM PairingTypeOK == Spec => []TypeOK
<1>1. PairingInv => TypeOK
  BY DEF PairingInv
<1>. QED  BY PairingInvariant, <1>1, PTL

(* handlePairing and establish: both ends that are authenticated hold one  *)
(* key, established by the PC and derived from the right code.             *)
THEOREM KeyAgreement == Spec => []SameKey
<1>1. PairingInv => SameKey
  <2> SUFFICES ASSUME PairingInv PROVE SameKey
    OBVIOUS
  <2>1. pc = "Authenticated" => pcKey \in keys /\ pcKey = phoneKey(with)
    BY DEF PairingInv, PcInv, KeysInv, pcKey
  <2>. QED  BY <2>1 DEF PairingInv, PhoneInv, SameKey
<1>. QED  BY PairingInvariant, <1>1, PTL
=============================================================================
