------------------------- MODULE DurableReservation -------------------------
(***************************************************************************)
(* What the durable side of a reservation promises, whatever crashes and   *)
(* store failures happen: it opens once, its fills only grow, and it ends  *)
(* either complete, when the fills reach its quantity, or released; from   *)
(* there nothing changes.  ReservationLifecycle implements this on the     *)
(* gateway path.                                                           *)
(***************************************************************************)
EXTENDS Naturals

CONSTANTS Rid, Dedupe, Qty, OrderQty

VARIABLES state, filled

vars == <<state, filled>>

Init ==
    /\ state = [r \in Rid |-> "none"]
    /\ filled = [r \in Rid |-> 0]

\* no other reservation of the same decision is open or was released
Open(r) ==
    /\ state[r] = "none"
    /\ \A q \in Rid : Dedupe[q] = Dedupe[r] => state[q] \notin {"open", "released"}
    /\ state' = [state EXCEPT ![r] = "open"]
    /\ UNCHANGED filled

Fill(r, n) ==
    /\ state[r] = "open" /\ n > filled[r]
    /\ filled' = [filled EXCEPT ![r] = n]
    /\ state' = [state EXCEPT ![r] = IF n >= Qty THEN "complete" ELSE "open"]

Release(r) ==
    /\ state[r] = "open"
    /\ state' = [state EXCEPT ![r] = "released"]
    /\ UNCHANGED filled

Next == \E r \in Rid : \/ Open(r) \/ Release(r)
                       \/ \E n \in 1..OrderQty : Fill(r, n)

Spec == Init /\ [][Next]_vars
=============================================================================
