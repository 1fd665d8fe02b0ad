------------------------------- MODULE RingLease -------------------------------
(***************************************************************************)
(* What the driver promises of its one ring, in a line per step: it exists *)
(* or not, and while it exists it is lent to one process at a time.  Who   *)
(* asks, who owns the claim, which call is where in the driver and which   *)
(* of them dies is not visible here.                                       *)
(***************************************************************************)
CONSTANT Procs

VARIABLES
  live,    \* there is a ring
  users    \* the processes that can write it

leaseVars == <<live, users>>

Init == live = FALSE /\ users = {}

Make == ~live /\ live' = TRUE /\ UNCHANGED users

(* A ring is lent to a process only when nobody else has it ...            *)
Lend(p) ==
  /\ live /\ users = {}
  /\ users' = {p}
  /\ UNCHANGED live

(* ... which keeps it until it gives it back or dies ...                   *)
Return(p) ==
  /\ users = {p}
  /\ users' = {}
  /\ UNCHANGED live

(* ... or there is no ring any more.                                       *)
Withdraw == live /\ live' = FALSE /\ users' = {}

Next == Make \/ Withdraw \/ \E p \in Procs : Lend(p) \/ Return(p)

Spec == Init /\ [][Next]_leaseVars
=============================================================================
