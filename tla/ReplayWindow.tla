---------------------------- MODULE ReplayWindow ----------------------------
(***************************************************************************)
(* protocol::ReplayWindow<Width>: which numbers of an unordered stream are *)
(* new.  A window remembers the highest number accepted and a bit set in   *)
(* which bit i stands for highest - i; here the bit set is the set of its  *)
(* one bits.  The class has no other state, so it is operators; the        *)
(* sealed channel and the session's control path each own one.             *)
(***************************************************************************)
EXTENDS Integers

Window(Width) == [initialised : BOOLEAN, highest : Nat, seen : SUBSET (0..Width - 1)]

reset == [initialised |-> FALSE, highest |-> 0, seen |-> {}]

(* accept(): its answer ...                                                *)
accepts_OneTooFar(w, Width, s) ==
  \/ ~w.initialised
  \/ s > w.highest
  \/ w.highest - s <= Width /\ w.highest - s \notin w.seen
accepts_OneTooNear(w, Width, s) ==
  \/ ~w.initialised
  \/ s > w.highest
  \/ w.highest - s < Width - 1 /\ w.highest - s \notin w.seen
accepts(w, Width, s) ==
  \/ ~w.initialised
  \/ s > w.highest
  \/ w.highest - s < Width /\ w.highest - s \notin w.seen

(* ... and the window it leaves behind.                                    *)
shifted(w, Width, n) == {i \in 0..Width - 1 : i - n \in w.seen}

accept_NotMarked(w, Width, s) ==
  CASE ~accepts(w, Width, s)  -> w
    [] ~w.initialised -> [initialised |-> TRUE, highest |-> s, seen |-> {0}]
    [] w.initialised /\ s > w.highest ->
         [w EXCEPT !.highest = s,
                   !.seen = {0} \union shifted(w, Width, s - w.highest)]
    [] OTHER -> w
accept(w, Width, s) ==
  CASE ~accepts(w, Width, s)  -> w
    [] ~w.initialised -> [initialised |-> TRUE, highest |-> s, seen |-> {0}]
    [] w.initialised /\ s > w.highest ->
         [w EXCEPT !.highest = s,
                   !.seen = {0} \union shifted(w, Width, s - w.highest)]
    [] OTHER -> [w EXCEPT !.seen = @ \union {w.highest - s}]
-----------------------------------------------------------------------------
(* What the window stands for, given the numbers accepted so far: a number *)
(* is new when it was not accepted and no accepted one is Width ahead.     *)
IsNew(accepted, Width, s) == s \notin accepted /\ \A a \in accepted : a - s < Width

Represents(w, Width, accepted) ==
  /\ w.initialised <=> accepted # {}
  /\ w.initialised => /\ w.highest \in accepted
                      /\ \A a \in accepted : a <= w.highest
                      /\ w.seen = {i \in 0..Width - 1 : w.highest - i \in accepted}
=============================================================================
