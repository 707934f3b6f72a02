---------------------- MODULE MCReservationLifecycle ----------------------
(* Constant values with which TLC checks ReservationLifecycle.             *)
EXTENDS ReservationLifecycle

CONSTANTS r1, r2, w1, w2, k1

OneRid == {r1}
TwoRids == {r1, r2}
OneWorker == {w1}
TwoWorkers == {w1, w2}

\* two orders that share an explicit reservation_dedupe_key
SharedKey == [r \in Rid |-> k1]
=============================================================================
