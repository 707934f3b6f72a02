-------------------------- MODULE ReservationStore --------------------------
(***************************************************************************)
(* The reservation tables of app/state/state_store.py (StateStore): the    *)
(* reservation ledger, the fill progress journal and the release           *)
(* tombstones.  Every write method opens a BEGIN IMMEDIATE transaction,    *)
(* re-reads the tables, and either commits or answers False, so each is    *)
(* one atomic step here.  The callers are in ReservationLifecycle.         *)
(*                                                                         *)
(* Quantities are whole units.  A reservation's open_qty is not a field:   *)
(* it is original - filled - cancelled (PendingReservation.open_qty).      *)
(***************************************************************************)
EXTENDS Naturals, FiniteSets

CONSTANTS
    Rid,       \* reservation ids (the client order ids)
    Dedupe,    \* [Rid -> dedupe key], not necessarily injective
    Qty,       \* the quantity a reservation holds (original_qty)
    OrderQty   \* the quantity the venue may fill: reserve_intent quantizes down

ASSUME RidAssumption == Rid # {} /\ IsFiniteSet(Rid)
ASSUME DedupeAssumption == DOMAIN Dedupe = Rid
ASSUME QtyAssumption == Qty \in Nat \ {0} /\ OrderQty \in Nat /\ Qty <= OrderQty

VARIABLES
    ledger,    \* reservation_ledger: one row per reservation
    progress,  \* reservation_fill_progress: the rows of each reservation
    tomb       \* reservation_release_tombstones: the release key, by reservation

store == <<ledger, progress, tomb>>

(* is_active and is_terminal are complementary in every row that the      *)
(* exposure manager writes; "cancelled" stands for the three non-fill      *)
(* terminal statuses, which every reader treats alike.                     *)
Terminal == {"filled", "cancelled"}
Row == [status: {"absent", "open"} \union Terminal, filled: 0..Qty, cancelled: 0..Qty]
NoRow == [status |-> "absent", filled |-> 0, cancelled |-> 0]

(* The fill key names the kind of report and the event it reports; the     *)
(* release key of an order differs only by its terminal status.            *)
FillKey == [kind: {"partial", "closing"}, event: 1..OrderQty]
Progress == [key: FillKey, cum: 1..OrderQty]
NoTomb == "none"

StoreTypeOK ==
    /\ ledger \in [Rid -> Row]
    /\ progress \in [Rid -> SUBSET Progress]
    /\ tomb \in [Rid -> Terminal \union {NoTomb}]

StoreInit ==
    /\ ledger = [r \in Rid |-> NoRow]
    /\ progress = [r \in Rid |-> {}]
    /\ tomb = [r \in Rid |-> NoTomb]

IsOpen(r) == ledger[r].status = "open"
SameDedupe(r) == {q \in Rid : Dedupe[q] = Dedupe[r]}

(* A fault of the store that its properties must exclude.                  *)
UpsertAccepted_AnyDedupe(r, row) ==
    /\ ledger[r].status \in Terminal => row.status \in Terminal
    /\ row.status = "open" => \A q \in SameDedupe(r) : tomb[q] = NoTomb

(* upsert_reservation_ledger: a terminal row is never made open again, an  *)
(* open row needs a dedupe key no tombstone carries and no other open row  *)
(* holds.                                                                  *)
UpsertAccepted(r, row) ==
    /\ ledger[r].status \in Terminal => row.status \in Terminal
    /\ row.status = "open" =>
         \A q \in SameDedupe(r) : tomb[q] = NoTomb /\ (q # r => ~IsOpen(q))

Upsert(r, row) ==
    /\ UpsertAccepted(r, row)
    /\ ledger' = [ledger EXCEPT ![r] = row]
    /\ UNCHANGED <<progress, tomb>>

(* record_reservation_fill_progress: a known key is accepted without being *)
(* inserted; a new one must advance the cumulative quantity.               *)
KeyKnown(r, key) == \E p \in progress[r] : p.key = key
Advances(rows, cum) == \A p \in rows : p.cum < cum

\* a fault: the cumulative quantity is not compared
RecordAccepted(r, p) == KeyKnown(r, p.key) \/ Advances(progress[r], p.cum)

RecordProgress(r, p) ==
    /\ RecordAccepted(r, p)
    /\ progress' = IF KeyKnown(r, p.key) THEN progress
                   ELSE [progress EXCEPT ![r] = @ \union {p}]
    /\ UNCHANGED <<ledger, tomb>>

(* record_reservation_release_tombstone: the key already there is accepted *)
(* again, a second key for the same reservation is refused.                *)
TombstoneAccepted(r, key) == tomb[r] \in {NoTomb, key}

RecordTombstone(r, key) ==
    /\ TombstoneAccepted(r, key)
    /\ tomb' = [tomb EXCEPT ![r] = key]
    /\ UNCHANGED <<ledger, progress>>

(* The highest cumulative quantity in the journal, 0 when it is empty.     *)
MaxCum(r) ==
    CHOOSE m \in 0..OrderQty : /\ m = 0 \/ \E p \in progress[r] : p.cum = m
                               /\ \A p \in progress[r] : p.cum <= m
=============================================================================
