--------------------------- MODULE PairingSession ---------------------------
(***************************************************************************)
(* Pairing: PeerSession as Responder on the PC and as Initiator in every   *)
(* phone handle, with the PairingExchange (CPace) and PairingOfferBook     *)
(* behind them, over UDP.                                                  *)
(*                                                                         *)
(* A phone is one sm_phone handle: a socket, a CPace share and the code    *)
(* the user typed.  Two handles of one device (the app was restarted)      *)
(* share a long-term key, Pub.  Shares are named by their owner on the     *)
(* phones' side and numbered on the PC's, and the session key is what it   *)
(* is derived from: both shares and the code.  The provers' signature      *)
(* covers exactly that, so it verifies iff both ends hold the same key.    *)
(*                                                                         *)
(* The network holds what was sent.  A datagram that is never delivered is *)
(* a lost one; with Duplicates it may be delivered again.                  *)
(***************************************************************************)
EXTENDS Naturals, FiniteSets

CONSTANTS
  Phones, Code, Pub,   \* handles, the code each was given, its public key
  MaxAttempts,         \* PairingPolicy::maxAttempts
  Duplicates,          \* may the network duplicate datagrams?
  MaxExchanges         \* bound: exchanges the PC starts

ASSUME PairingAssumption ==
  /\ Code \in [Phones -> {"right", "wrong"}]
  /\ Pub \in [Phones -> Phones]
  /\ MaxAttempts \in Nat \ {0} /\ MaxExchanges \in Nat
  /\ Duplicates \in BOOLEAN
  /\ "none" \notin Phones

VARIABLES
  phone,     \* phone[p]: SessionState of handle p ("Idle" before it exists)
  derived,   \* derived[p]: the PC share p's exchange consumed, 0 if none
  pc,        \* SessionState of the PC
  with,      \* the phone share the PC's exchange consumed, "none" if none
  share,     \* the PC's current share (0: no exchange yet)
  peerAddr,  \* where the PC's socket replies to: whoever came first
  attempts, consumed, expired,  \* the offer book
  net,       \* datagrams
  keys       \* history: keys the PC established

phoneVars == <<phone, derived>>
bookVars == <<attempts, consumed, expired>>
vars == <<phoneVars, pc, with, share, peerAddr, bookVars, net, keys>>

Key == [phone : Phones, share : 1..MaxExchanges, code : {"right", "wrong"}]

ToPc    == [t : {"PAIR1"}, from : Phones] \union
           [t : {"PAIR3"}, from : Phones, sig : Key]
ToPhone == [t : {"PAIR2"}, to : Phones, share : 1..MaxExchanges] \union
           [t : {"PAIR4"}, to : Phones, sig : Key] \union
           [t : {"PAIRERR"}, to : Phones]
SessionState == {"Idle", "Pairing", "Authenticated", "Failed"}

-----------------------------------------------------------------------------
(* onPeer() and sessionKey() on either side.                               *)
phoneKey(p) == [phone |-> p, share |-> derived[p], code |-> Code[p]]
pcKey == [phone |-> with, share |-> share, code |-> "right"]

(* verifyPeerAuth() of the PC: the exchange must exist, and the signature  *)
(* be the expected device's over the PC's own transcript and key.          *)
verifyPeerAuth_NoKey(sig) == with # "none" /\ sig.phone = with
verifyPeerAuth(sig) == with # "none" /\ sig = pcKey

(* PairingOfferBook::check.                                                *)
offerValid == ~consumed /\ ~expired /\ attempts < MaxAttempts

(* One datagram is taken from the network and the answers are sent.        *)
receive(m, answers) ==
  net' = (IF Duplicates THEN net ELSE net \ {m}) \union answers

-----------------------------------------------------------------------------
(* The phones.                                                             *)

(* sm_phone_create: a new handle, beginPairing sends PAIR1.                *)
beginPairing(p) ==
  /\ phone[p] = "Idle"
  /\ phone' = [phone EXCEPT ![p] = "Pairing"]
  /\ net' = net \union {[t |-> "PAIR1", from |-> p]}
  /\ UNCHANGED <<derived, pc, with, share, peerAddr, bookVars, keys>>

(* The worker's retry, every 400 ms while pairing.                         *)
resendPairingHello(p) ==
  /\ phone[p] = "Pairing"
  /\ net' = net \union {[t |-> "PAIR1", from |-> p]}
  /\ UNCHANGED <<phoneVars, pc, with, share, peerAddr, bookVars, keys>>

(* PAIR2: the exchange consumes a share once; a second one is WrongState   *)
(* and fails the session.                                                  *)
handlePair2(p) ==
  \E m \in net :
    /\ m.t = "PAIR2" /\ m.to = p
    /\ IF derived[p] # 0
       THEN /\ phone' = [phone EXCEPT ![p] = "Failed"]
            /\ receive(m, {})
            /\ UNCHANGED derived
       ELSE /\ derived' = [derived EXCEPT ![p] = m.share]
            /\ receive(m, {[t |-> "PAIR3", from |-> p,
                            sig |-> [phone |-> p, share |-> m.share,
                                     code |-> Code[p]]]})
            /\ UNCHANGED phone
    /\ UNCHANGED <<pc, with, share, peerAddr, bookVars, keys>>

(* PAIR4: establish() or fail, from whatever state.                        *)
handlePair4(p) ==
  \E m \in net :
    /\ m.t = "PAIR4" /\ m.to = p
    /\ phone' = [phone EXCEPT ![p] =
                   IF derived[p] # 0 /\ m.sig = phoneKey(p)
                   THEN "Authenticated" ELSE "Failed"]
    /\ receive(m, {})
    /\ UNCHANGED <<derived, pc, with, share, peerAddr, bookVars, keys>>

handlePairErr(p) ==
  \E m \in net :
    /\ m.t = "PAIRERR" /\ m.to = p
    /\ phone' = [phone EXCEPT ![p] = "Failed"]
    /\ receive(m, {})
    /\ UNCHANGED <<derived, pc, with, share, peerAddr, bookVars, keys>>

-----------------------------------------------------------------------------
(* The PC.  The socket answers the first peer that ever contacted it.      *)
Learnt(p) == IF peerAddr = "none" THEN p ELSE peerAddr
SameDevice(p) == with # "none" /\ Pub[with] = Pub[p]
Refuse(p) == [t |-> "PAIRERR", to |-> Learnt(p)]
Answer(p, n) == [t |-> "PAIR2", to |-> Learnt(p), share |-> n]

(* A PAIR1 the offer book refuses.                                         *)
refusePair1 ==
  \E m \in net :
    /\ m.t = "PAIR1" /\ ~offerValid
    /\ peerAddr' = Learnt(m.from)
    /\ receive(m, {Refuse(m.from)})
    /\ pc' = "Failed"
    /\ UNCHANGED <<phoneVars, with, share, bookVars, keys>>

(* A PAIR1 of the device the exchange is already with: PAIR2 again.        *)
repeatPair2 ==
  \E m \in net :
    /\ m.t = "PAIR1" /\ offerValid /\ SameDevice(m.from)
    /\ peerAddr' = Learnt(m.from)
    /\ receive(m, {Answer(m.from, share)})
    /\ UNCHANGED <<phoneVars, pc, with, share, bookVars, keys>>

(* A PAIR1 of another device replaces the exchange.                        *)
acceptPair1 ==
  \E m \in net :
    /\ m.t = "PAIR1" /\ offerValid /\ ~SameDevice(m.from)
    /\ share < MaxExchanges
    /\ peerAddr' = Learnt(m.from)
    /\ with' = m.from
    /\ share' = share + 1
    /\ receive(m, {Answer(m.from, share + 1)})
    /\ UNCHANGED <<phoneVars, pc, bookVars, keys>>

(* establish() on the PC: the exchange's key becomes the session's, the    *)
(* offer is consumed, and the session is authenticated from any state.     *)
establish ==
  /\ keys' = keys \union {pcKey}
  /\ consumed' = TRUE
  /\ pc' = "Authenticated"

(* A PAIR3 whose signature verifies: PAIR4, then establish().              *)
acceptPair3 ==
  \E m \in net :
    /\ m.t = "PAIR3" /\ verifyPeerAuth(m.sig)
    /\ peerAddr' = Learnt(m.from)
    /\ receive(m, {[t |-> "PAIR4", to |-> Learnt(m.from), sig |-> pcKey]})
    /\ establish
    /\ UNCHANGED <<phoneVars, with, share, attempts, expired>>

(* A PAIR3 whose signature does not: it costs an attempt.                  *)
rejectPair3 ==
  \E m \in net :
    /\ m.t = "PAIR3" /\ with # "none" /\ ~verifyPeerAuth(m.sig)
    /\ peerAddr' = Learnt(m.from)
    /\ receive(m, {Refuse(m.from)})
    /\ attempts' = IF attempts < MaxAttempts THEN attempts + 1 ELSE attempts
    /\ pc' = "Failed"
    /\ UNCHANGED <<phoneVars, with, share, consumed, expired, keys>>

(* The offer's five minutes pass.                                          *)
Expire ==
  /\ ~expired
  /\ expired' = TRUE
  /\ UNCHANGED <<phoneVars, pc, with, share, peerAddr, attempts, consumed, net,
                 keys>>

(* armPairing with a fresh offer.                                          *)
Init ==
  /\ phone = [p \in Phones |-> "Idle"]
  /\ derived = [p \in Phones |-> 0]
  /\ pc = "Pairing" /\ with = "none" /\ share = 0 /\ peerAddr = "none"
  /\ attempts = 0 /\ consumed = FALSE /\ expired = FALSE
  /\ net = {} /\ keys = {}

Phone == \E p \in Phones : \/ beginPairing(p) \/ resendPairingHello(p)
                           \/ handlePair2(p) \/ handlePair4(p)
                           \/ handlePairErr(p)
Pc == refusePair1 \/ repeatPair2 \/ acceptPair1 \/ acceptPair3 \/ rejectPair3
Next == Phone \/ Pc \/ Expire

Spec == Init /\ [][Next]_vars

-----------------------------------------------------------------------------
TypeOK ==
  /\ phone \in [Phones -> SessionState]
  /\ derived \in [Phones -> 0..MaxExchanges]
  /\ pc \in SessionState
  /\ with \in Phones \union {"none"} /\ peerAddr \in Phones \union {"none"}
  /\ share \in 0..MaxExchanges /\ (share = 0 <=> with = "none")
  /\ attempts \in 0..MaxAttempts
  /\ consumed \in BOOLEAN /\ expired \in BOOLEAN
  /\ net \subseteq (ToPc \union ToPhone)
  /\ keys \subseteq Key

(* A phone that is authenticated typed the right code and holds a key the  *)
(* PC established; a PC that is authenticated holds a key its peer derived *)
(* with the right code: through lost, repeated and late datagrams, and     *)
(* although answers go to the first peer whoever asked.                    *)
(* (peer_session.cpp, handlePairing; test S3 "one shared session key and   *)
(* mutual authentication")                                                 *)
SameKey ==
  /\ \A p \in Phones : phone[p] = "Authenticated" => phoneKey(p) \in keys
  /\ pc = "Authenticated" => pcKey \in keys /\ pcKey = phoneKey(with)

(* What the phone tells its user about a failure is what happened.         *)
(* (phone_runtime.cpp, onStateChanged: "pairing failed -- wrong code, or   *)
(* the code expired")                                                      *)
FailureMeansCode ==
  \A p \in Phones : phone[p] = "Failed" => Code[p] = "wrong" \/ expired
=============================================================================
