--------------------------- MODULE GatewayOrders ---------------------------
(***************************************************************************)
(* Orders at the external paper venue as app/execution/order_router.py     *)
(* sees them: submission, the reads that follow the acknowledgement, the   *)
(* cancel and the status poll of the other threads, the shutdown and the   *)
(* startup reconciliation, and the admission gate that a complete broker   *)
(* inventory opens (ExposureManager._broker_inventory_reconciled).         *)
(*                                                                         *)
(* One submission is in flight at a time (the engine's executor thread);   *)
(* cancels and polls come from other threads without a lock.  The calls of *)
(* ReservationLifecycle are single steps here, with the outcomes that      *)
(* module gives them; a crash inside one leaves what a failure of its last *)
(* writes leaves.  Every order has a symbol of its own, so the position of *)
(* a symbol is what its order filled.                                      *)
(***************************************************************************)
EXTENDS Naturals, FiniteSets

CONSTANTS
    Order,        \* client order ids
    Qty,          \* the quantity of an order
    LostReplies,  \* TRUE: the reply to a submission may be lost
    FaultyReads,  \* TRUE: a read of the venue may fail
    FaultyStore,  \* TRUE: a durable write may fail
    MaxCrashes,   \* bound on crashes
    MaxStops      \* bound on orderly shutdowns

ASSUME OrderAssumption == IsFiniteSet(Order) /\ "none" \notin Order /\ Qty \in Nat \ {0}
ASSUME ModeAssumption ==
    {LostReplies, FaultyReads, FaultyStore} \subseteq BOOLEAN /\ {MaxCrashes, MaxStops} \subseteq Nat

VARIABLES
    venue,       \* the venue: the order's status and cumulative fill
    durable,     \* order_id_mappings: the order's mapping
    row,         \* reservation_ledger: the order's reservation
    tomb,        \* reservation_release_tombstones: it was released
    journal,     \* reservation_fill_progress: its highest recorded fill
    booked,      \* broker inventory events: the fill attributed to the order
    active,      \* _active_order_id_mappings
    held,        \* ExposureManager._reservations
    gate,        \* _broker_inventory_reconciled
    authorized,  \* _durable_mapping_hydration_authorized
    admitted,    \* orders admitted and queued for the executor
    phase,       \* the life of the process
    task,        \* the reconciling thread: its step, its order, those to come
    seen,        \* what it read from the venue
    poll,        \* another thread: its step and its order
    crashes, stops,
    settled      \* history: every order had ended when the process started

books == <<durable, row, tomb, journal, booked>>
router == <<active, held, gate, authorized, admitted>>
life == <<phase, crashes, stops, settled>>
vars == <<venue, books, router, task, seen, poll, life>>

Ended == {"filled", "canceled"}
Mapping == {"none", "active", "conflict"} \union Ended
Venue == [status: {"none", "refused", "live"} \union Ended, filled: 0..Qty]
Reservation == [status: {"none", "open", "closed"}, filled: 0..Qty]
Holding == [held: BOOLEAN, filled: 0..Qty]
Reads == [status: {"live", "conflict"} \union Ended, filled: 0..Qty, readable: BOOLEAN,
          open: UNION {[S -> 0..Qty] : S \in SUBSET Order}, pos: [Order -> 0..Qty]]
Steps == {"idle", "register", "reserve", "status", "orders", "positions", "book", "fill",
          "release", "mark", "inventory", "confirm", "next", "s_positions", "s_orders",
          "s_inventory", "f_orders", "f_book", "f_resolve"}

Free == [held |-> FALSE, filled |-> 0]
NoReads == [status |-> "live", filled |-> 0, readable |-> TRUE,
            open |-> [o \in {} |-> 0], pos |-> [o \in Order |-> 0]]
NoTask == [at |-> "idle", order |-> "none", todo |-> {}]
NoPoll == [at |-> "idle", order |-> "none"]

TypeOK ==
    /\ venue \in [Order -> Venue]
    /\ durable \in [Order -> Mapping] /\ active \in [Order -> Mapping]
    /\ row \in [Order -> Reservation] /\ tomb \in [Order -> BOOLEAN]
    /\ journal \in [Order -> 0..Qty] /\ booked \in [Order -> 0..Qty]
    /\ held \in [Order -> Holding]
    /\ {gate, authorized, settled} \subseteq BOOLEAN
    /\ admitted \subseteq Order
    /\ phase \in {"down", "startup", "running", "shutdown"}
    /\ task \in [at: Steps, order: Order \union {"none"}, todo: SUBSET Order]
    /\ seen \in Reads
    /\ poll \in [at: {"idle", "cancel", "poll"}, order: Order \union {"none"}]
    /\ crashes \in 0..MaxCrashes /\ stops \in 0..MaxStops

\* nothing submitted yet, the process about to start
Init ==
    /\ venue = [o \in Order |-> [status |-> "none", filled |-> 0]]
    /\ durable = [o \in Order |-> "none"] /\ active = [o \in Order |-> "none"]
    /\ row = [o \in Order |-> [status |-> "none", filled |-> 0]]
    /\ tomb = [o \in Order |-> FALSE]
    /\ journal = [o \in Order |-> 0] /\ booked = [o \in Order |-> 0]
    /\ held = [o \in Order |-> Free]
    /\ gate = FALSE /\ authorized = TRUE /\ admitted = {}
    /\ phase = "down" /\ task = NoTask /\ seen = NoReads /\ poll = NoPoll
    /\ crashes = 0 /\ stops = 0 /\ settled = FALSE

-----------------------------------------------------------------------------
(* The venue.                                                              *)

VenueFill(o) ==
    /\ venue[o].status = "live"
    /\ venue' = [venue EXCEPT ![o].filled = @ + 1,
                              ![o].status = IF venue[o].filled + 1 = Qty THEN "filled" ELSE "live"]
    /\ UNCHANGED <<books, router, task, seen, poll, life>>

\* canceled, expired or rejected after the acknowledgement
VenueClose(o) ==
    /\ venue[o].status = "live"
    /\ venue' = [venue EXCEPT ![o].status = "canceled"]
    /\ UNCHANGED <<books, router, task, seen, poll, life>>

-----------------------------------------------------------------------------
(* Helpers.                                                                *)

At(step) == task.at = step
Cur == task.order
Goto(step) == task' = [task EXCEPT !.at = step]
OpenAtVenue == {o \in Order : venue[o].status = "live"}
Mapped(m) == {o \in Order : m[o] = "active"}
RowActive(o) == row[o].status = "open"

(* A submission is over, or the next mapping of a startup or a shutdown is *)
(* reconciled.                                                             *)
Done == IF phase = "running" THEN task' = NoTask ELSE Goto("next")

(* Durable writes answer FALSE when they fail.                             *)
WriteMapping(o, how) ==
    \/ durable' = [durable EXCEPT ![o] = how]
    \/ FaultyStore /\ UNCHANGED durable

\* _mark_active_order_mapping_terminal_for_broker
MarkTerminal(o, how) ==
    /\ active' = [active EXCEPT ![o] = how]
    /\ WriteMapping(o, how)

-----------------------------------------------------------------------------
(* Submission.                                                             *)

(* The portfolio risk gate admits a candidate only on an authorised        *)
(* inventory; the signal then waits in the engine's queue.                 *)
Admit(o) ==
    /\ phase = "running" /\ gate
    /\ venue[o].status = "none" /\ o \notin admitted
    /\ task.order # o
    /\ admitted' = admitted \union {o}
    /\ UNCHANGED <<venue, books, active, held, gate, authorized, task, seen, poll, life>>

(* _submit_order_gateway.  A network error is answered like a refusal,     *)
(* whatever the venue did with the order.                                  *)
Post(o) ==
    /\ phase = "running" /\ At("idle") /\ o \in admitted
    /\ admitted' = admitted \ {o}
    /\ \/ /\ venue' = [venue EXCEPT ![o].status = "live"]
          /\ task' = [NoTask EXCEPT !.at = "register", !.order = o]
       \/ /\ venue' = [venue EXCEPT ![o].status = "refused"]
          /\ UNCHANGED task
       \/ /\ LostReplies
          /\ venue' = [venue EXCEPT ![o].status = "live"]
          /\ UNCHANGED task
    /\ UNCHANGED <<books, active, held, gate, authorized, seen, poll, life>>

\* _register_active_order_id_mapping
Register ==
    /\ At("register") /\ Goto("reserve")
    /\ active' = [active EXCEPT ![Cur] = "active"]
    /\ WriteMapping(Cur, "active")
    /\ UNCHANGED <<venue, row, tomb, journal, booked, held, gate, authorized, admitted, seen,
                   poll, life>>

\* _record_reservation_ack_open: refused or failed, it leaves nothing behind
Reserve ==
    /\ At("reserve") /\ Goto("status")
    /\ \/ /\ row' = [row EXCEPT ![Cur].status = "open"]
          /\ held' = [held EXCEPT ![Cur] = [held |-> TRUE, filled |-> 0]]
       \/ UNCHANGED <<row, held>>
    /\ UNCHANGED <<venue, durable, tomb, journal, booked, active, gate, authorized, admitted,
                   seen, poll, life>>

-----------------------------------------------------------------------------
(* The reads of _post_ack_gateway_reconciliation and of                    *)
(* _reconcile_gateway_mapping.                                             *)

Reading == UNCHANGED <<venue, books, router, poll, life>>

ReadStatus ==
    /\ At("status") /\ Goto("orders")
    /\ \/ seen' = [NoReads EXCEPT !.status = venue[Cur].status, !.filled = venue[Cur].filled]
       \/ FaultyReads /\ seen' = [NoReads EXCEPT !.status = "conflict"]
    /\ Reading

\* an answer that is not ok makes the inventory incomplete
ReadOrders ==
    /\ At("orders") /\ Goto("positions")
    /\ \/ seen' = [seen EXCEPT !.open = [o \in OpenAtVenue |-> venue[o].filled]]
       \/ FaultyReads /\ seen' = [seen EXCEPT !.readable = FALSE]
    /\ Reading

ReadPositions ==
    /\ At("positions") /\ Goto("book")
    /\ \/ seen' = [seen EXCEPT !.pos = [o \in Order |-> venue[o].filled]]
       \/ FaultyReads /\ seen' = [seen EXCEPT !.readable = FALSE]
    /\ Reading

(* Any of the reads raises BrokerGatewayError: admission is revoked, and   *)
(* after an acknowledgement the mapping ends as a conflict.                *)
ReadRaises ==
    /\ FaultyReads /\ task.at \in {"status", "orders", "positions"}
    /\ gate' = FALSE /\ seen' = NoReads /\ Done
    /\ IF phase = "running" THEN MarkTerminal(Cur, "conflict") ELSE UNCHANGED <<active, durable>>
    /\ UNCHANGED <<venue, row, tomb, journal, booked, held, authorized, admitted, poll, life>>

(* The adapter fails otherwise, or answers outside its contract: admission *)
(* is revoked and the mapping kept; at startup the first of these also     *)
(* withdraws the hydration's authority.                                    *)
ReadFails ==
    /\ FaultyReads /\ task.at \in {"status", "orders", "positions"}
    /\ gate' = FALSE /\ seen' = NoReads /\ Done
    /\ \/ phase = "startup" /\ authorized' = FALSE
       \/ UNCHANGED authorized
    /\ UNCHANGED <<venue, books, active, held, admitted, poll, life>>

-----------------------------------------------------------------------------
(* What is done with the reads.                                            *)

(* What _hydrate_fill_ledger_from_broker_payload attributes to an order    *)
(* when it reads a cumulative fill of n: the part not attributed yet.      *)
Booked_Again(o, n) ==  \* a fault: the cumulative fill is taken for a new one
    booked[o] + n
Booked(o, n) == IF n > booked[o] THEN n ELSE booked[o]

BookFill ==
    /\ At("book")
    /\ \/ booked' = [booked EXCEPT ![Cur] = Booked(Cur, seen.filled)]
       \/ FaultyStore /\ UNCHANGED booked
    /\ Goto(CASE seen.filled > 0 /\ seen.status \in {"live", "canceled"} -> "fill"
              [] seen.status = "filled" -> "release"
              [] seen.status = "canceled" /\ seen.filled = 0 -> "release"
              [] OTHER -> "mark")
    /\ UNCHANGED <<venue, durable, row, tomb, journal, router, seen, poll, life>>

(* _apply_gateway_reservation_lifecycle: the cumulative fill, then the     *)
(* release of an order that ended.  The journal is written ahead of the    *)
(* memory and of the row.                                                  *)
Advances == RowActive(Cur) /\ held[Cur].held /\ seen.filled > held[Cur].filled

ApplyFill ==
    /\ At("fill") /\ Goto(IF seen.status = "canceled" THEN "release" ELSE "mark")
    /\ \/ /\ Advances
          /\ journal' = [journal EXCEPT ![Cur] = seen.filled]
          /\ held' = [held EXCEPT ![Cur].filled = seen.filled]
          /\ \/ row' = [row EXCEPT ![Cur].filled = seen.filled]
             \/ FaultyStore /\ UNCHANGED row
       \/ (FaultyStore \/ ~Advances) /\ UNCHANGED <<journal, held, row>>
    /\ UNCHANGED <<venue, durable, tomb, booked, active, gate, authorized, admitted, seen, poll,
                   life>>

Releasable == RowActive(Cur) /\ held[Cur].held /\ ~tomb[Cur]

ApplyRelease_WithoutTombstone ==  \* a fault: the row is closed and nothing else is written
    /\ At("release") /\ Goto("mark")
    /\ \/ /\ Releasable
          /\ held' = [held EXCEPT ![Cur] = Free]
          /\ row' = [row EXCEPT ![Cur].status = "closed"]
       \/ UNCHANGED <<held, row>>
    /\ UNCHANGED <<venue, durable, journal, booked, tomb, active, gate, authorized, admitted, seen,
                   poll, life>>
ApplyRelease ==
    /\ At("release") /\ Goto("mark")
    /\ \/ /\ Releasable
          /\ tomb' = [tomb EXCEPT ![Cur] = TRUE]
          /\ held' = [held EXCEPT ![Cur] = Free]
          /\ \/ row' = [row EXCEPT ![Cur].status = "closed"]
             \/ FaultyStore /\ UNCHANGED row
       \/ (FaultyStore \/ ~Releasable) /\ UNCHANGED <<tomb, held, row>>
    /\ UNCHANGED <<venue, durable, journal, booked, active, gate, authorized, admitted, seen,
                   poll, life>>

MarkEnded ==
    /\ At("mark") /\ Goto("inventory")
    /\ IF seen.status = "live" THEN UNCHANGED <<active, durable>> ELSE MarkTerminal(Cur, seen.status)
    /\ UNCHANGED <<venue, row, tomb, journal, booked, held, gate, authorized, admitted, seen,
                   poll, life>>

(* reconcile_broker_inventory and ingest_reconciled_broker_inventory: the  *)
(* open orders at the venue, the active mappings, the active reservations  *)
(* and those in memory must be the same, each with the same fill, and      *)
(* every position must be attributed.                                      *)
Matches_AnyOpenOrder ==  \* a fault: an open order needs no reservation of its own
    /\ seen.readable
    /\ \A o \in Order : RowActive(o) =>
         o \in DOMAIN seen.open /\ durable[o] = "active" /\ row[o].filled = seen.open[o]
    /\ \A o \in Order : seen.pos[o] = booked[o]
Matches_NoMapping ==     \* a fault: reservations are matched without their mappings
    /\ seen.readable
    /\ \A o \in Order :
         /\ RowActive(o) <=> o \in DOMAIN seen.open
         /\ RowActive(o) => row[o].filled = seen.open[o]
         /\ seen.pos[o] = booked[o]
         /\ RowActive(o) <=> held[o].held
Matches ==
    /\ seen.readable
    /\ \A o \in Order :
         /\ RowActive(o) <=> o \in DOMAIN seen.open
         /\ durable[o] = "active" <=> o \in DOMAIN seen.open
         /\ RowActive(o) => row[o].filled = seen.open[o]
         /\ seen.pos[o] = booked[o]
         /\ RowActive(o) <=> held[o].held
         /\ held[o].held => held[o].filled = row[o].filled

(* The account, its cash or the durable snapshot may refuse for reasons    *)
(* of their own.                                                           *)
Reconcile ==
    \/ Matches /\ gate' = TRUE
    \/ (FaultyStore \/ FaultyReads \/ ~Matches) /\ gate' = FALSE

ReconcileInventory ==
    /\ At("inventory") /\ Goto("confirm") /\ Reconcile
    /\ UNCHANGED <<venue, books, active, held, authorized, admitted, seen, poll, life>>

(* The end of the submission, or of the mapping's reconciliation: a        *)
(* terminal mark is written again, a live mapping is written as it stands  *)
(* in memory.                                                              *)
Confirm ==
    /\ At("confirm") /\ Done /\ seen' = NoReads
    /\ CASE seen.status # "live" -> MarkTerminal(Cur, seen.status)
         [] seen.status = "live" /\ phase = "running" -> UNCHANGED <<active, durable>>
         [] OTHER -> UNCHANGED active /\ WriteMapping(Cur, active[Cur])
    /\ UNCHANGED <<venue, row, tomb, journal, booked, held, gate, authorized, admitted, poll, life>>

-----------------------------------------------------------------------------
(* Cancels and status polls, from the sweeper and the risk callbacks.      *)

\* the DELETE is answered before the order ends, and it may still fill
SendCancel(o) ==
    /\ phase = "running" /\ poll.at = "idle"
    /\ active[o] = "active" /\ venue[o].status = "live"
    /\ poll' = [at |-> "cancel", order |-> o]
    /\ UNCHANGED <<venue, books, router, task, seen, life>>

PollStatus(o) ==
    /\ phase = "running" /\ poll.at = "idle"
    /\ active[o] = "active" /\ venue[o].status \in Ended
    /\ poll' = [at |-> "poll", order |-> o]
    /\ UNCHANGED <<venue, books, router, task, seen, life>>

Outcome == IF poll.at = "cancel" THEN "canceled" ELSE venue[poll.order].status

\* a fault: the cancel's answer also releases the reservation
MarkPolled_Releases ==
    /\ poll.at # "idle" /\ poll' = NoPoll
    /\ MarkTerminal(poll.order, Outcome)
    /\ tomb' = [tomb EXCEPT ![poll.order] = TRUE]
    /\ held' = [held EXCEPT ![poll.order] = Free]
    /\ row' = [row EXCEPT ![poll.order].status = "closed"]
    /\ UNCHANGED <<venue, journal, booked, gate, authorized, admitted, task, seen, life>>
(* The mapping becomes terminal; the reservation waits for a report that   *)
(* only an active mapping gets.                                            *)
MarkPolled ==
    /\ poll.at # "idle" /\ poll' = NoPoll
    /\ MarkTerminal(poll.order, Outcome)
    /\ UNCHANGED <<venue, row, tomb, journal, booked, held, gate, authorized, admitted, task,
                   seen, life>>

-----------------------------------------------------------------------------
(* Startup, shutdown, crash.                                               *)

Recoverable(o) == RowActive(o) /\ ~tomb[o] /\ journal[o] < Qty

(* Reservations are hydrated, then the mappings; either read may fail.     *)
Start ==
    /\ phase = "down" /\ phase' = "startup"
    /\ \/ held' = [o \in Order |-> IF Recoverable(o) THEN [held |-> TRUE, filled |-> journal[o]]
                                   ELSE Free]
       \/ FaultyStore /\ UNCHANGED held
    /\ \/ /\ active' = [o \in Order |-> IF durable[o] = "active" THEN "active" ELSE "none"]
          /\ task' = [NoTask EXCEPT !.at = "next", !.todo = Mapped(durable)]
          /\ authorized' = TRUE
       \/ /\ FaultyStore /\ task' = [NoTask EXCEPT !.at = "next"]
          /\ authorized' = FALSE /\ UNCHANGED active
    /\ settled' = \A o \in Order : venue[o].status \in Ended
    /\ UNCHANGED <<venue, books, gate, admitted, seen, poll, crashes, stops>>

\* the next active mapping is reconciled, in any order
NextMapping ==
    /\ At("next")
    /\ IF task.todo # {}
       THEN \E o \in task.todo :
              task' = [at |-> "status", order |-> o, todo |-> task.todo \ {o}]
       ELSE Goto(IF phase = "startup" THEN "s_positions" ELSE "f_orders")
    /\ UNCHANGED <<venue, books, router, seen, poll, life>>

Serve == task' = NoTask /\ phase' = "running" /\ seen' = NoReads

(* reconcile_startup_broker_inventory.                                     *)
StartupPositions ==
    /\ At("s_positions")
    /\ \/ /\ authorized /\ Goto("s_orders") /\ UNCHANGED <<gate, phase>>
          /\ \/ seen' = [seen EXCEPT !.pos = [o \in Order |-> venue[o].filled]]
             \/ FaultyReads /\ seen' = [seen EXCEPT !.readable = FALSE]
       \/ (~authorized \/ FaultyReads) /\ gate' = FALSE /\ Serve
    /\ UNCHANGED <<venue, books, active, held, authorized, admitted, poll, crashes, stops, settled>>

StartupOrders ==
    /\ At("s_orders")
    /\ \/ /\ Goto("s_inventory") /\ UNCHANGED <<gate, phase>>
          /\ \/ seen' = [seen EXCEPT !.open = [o \in OpenAtVenue |-> venue[o].filled]]
             \/ FaultyReads /\ seen' = [seen EXCEPT !.readable = FALSE]
       \/ FaultyReads /\ gate' = FALSE /\ Serve
    /\ UNCHANGED <<venue, books, active, held, authorized, admitted, poll, crashes, stops, settled>>

StartupInventory ==
    /\ At("s_inventory") /\ Reconcile /\ Serve
    /\ UNCHANGED <<venue, books, active, held, authorized, admitted, poll, crashes, stops, settled>>

(* finalize_oms_shutdown_reconciliation, once no submission or cancel is   *)
(* running (ReservationLifecycle has the case where one still is).         *)
Shutdown ==
    /\ phase = "running" /\ At("idle") /\ poll.at = "idle" /\ stops < MaxStops
    /\ phase' = "shutdown" /\ stops' = stops + 1
    /\ task' = [NoTask EXCEPT !.at = "next", !.todo = Mapped(active)]
    /\ admitted' = {}
    /\ UNCHANGED <<venue, books, active, held, gate, authorized, seen, poll, crashes, settled>>

Exit == /\ phase' = "down" /\ task' = NoTask /\ seen' = NoReads /\ poll' = NoPoll
        /\ active' = [o \in Order |-> "none"] /\ held' = [o \in Order |-> Free]
        /\ gate' = FALSE /\ authorized' = TRUE /\ admitted' = {}

\* an answer that is not ok reads as no open order at all
FinalOrders ==
    /\ At("f_orders")
    /\ \/ /\ Goto("f_book") /\ UNCHANGED <<router, phase, poll>>
          /\ \/ seen' = [seen EXCEPT !.open = [o \in OpenAtVenue |-> venue[o].filled]]
             \/ FaultyReads /\ seen' = NoReads
       \/ FaultyReads /\ Exit
    /\ UNCHANGED <<venue, books, crashes, stops, settled>>

(* A mapping that ended without any booked fill gets its fill booked; the  *)
(* mappings still active in the store are resolved next.                   *)
FinalBook ==
    /\ At("f_book")
    /\ task' = [task EXCEPT !.at = "f_resolve", !.todo = Mapped(durable)]
    /\ \/ booked' = [o \in Order |-> IF durable[o] \in Ended /\ booked[o] = 0
                                     THEN venue[o].filled ELSE booked[o]]
       \/ (FaultyReads \/ FaultyStore) /\ UNCHANGED booked
    /\ UNCHANGED <<venue, durable, row, tomb, journal, router, seen, poll, life>>

(* _resolve_nonterminal_mapping_against_final_broker_truth: an order that  *)
(* the venue does not list as open ends as its status says, or as a        *)
(* conflict; its reservation is not touched.                               *)
FinalResolve ==
    /\ At("f_resolve") /\ task.todo # {}
    /\ \E o \in task.todo :
         LET v == venue[o]
         IN  /\ task' = [task EXCEPT !.todo = @ \ {o}]
             /\ IF o \in DOMAIN seen.open THEN UNCHANGED <<durable, active, booked>>
                ELSE \/ /\ MarkTerminal(o, IF v.status \in Ended THEN v.status ELSE "conflict")
                        /\ \/ booked' = [booked EXCEPT ![o] = Booked(o, v.filled)]
                           \/ FaultyStore /\ UNCHANGED booked
                     \/ /\ FaultyReads /\ MarkTerminal(o, "conflict")
                        /\ UNCHANGED booked
    /\ UNCHANGED <<venue, row, tomb, journal, held, gate, authorized, admitted, seen, poll, life>>

Stop ==
    /\ At("f_resolve") /\ task.todo = {} /\ Exit
    /\ UNCHANGED <<venue, books, crashes, stops, settled>>

Crash ==
    /\ phase # "down" /\ crashes < MaxCrashes
    /\ crashes' = crashes + 1 /\ Exit
    /\ UNCHANGED <<venue, books, stops, settled>>

-----------------------------------------------------------------------------
Submission == \/ Register \/ Reserve \/ ReadStatus \/ ReadOrders \/ ReadPositions \/ ReadRaises
              \/ ReadFails \/ BookFill \/ ApplyFill \/ ApplyRelease \/ MarkEnded
              \/ ReconcileInventory \/ Confirm
Boundary == \/ Start \/ NextMapping \/ StartupPositions \/ StartupOrders \/ StartupInventory
            \/ Shutdown \/ FinalOrders \/ FinalBook \/ FinalResolve \/ Stop \/ Crash

Next ==
    \/ \E o \in Order : \/ VenueFill(o) \/ VenueClose(o) \/ Admit(o) \/ Post(o)
                        \/ SendCancel(o) \/ PollStatus(o)
    \/ MarkPolled \/ Submission \/ Boundary

Spec == Init /\ [][Next]_vars

-----------------------------------------------------------------------------
(* Properties.                                                             *)

Resting == phase = "running" /\ task.at = "idle"

\* While admission is open and no submission is in flight, every order live at
\* the venue is reserved in memory, for no less than its open quantity: a new
\* candidate is always weighed against all the exposure there is ("Complete
\* fresh broker inventory is required before external PAPER admission").
AdmissionCovered ==
    gate /\ Resting =>
      \A o \in OpenAtVenue : held[o].held /\ held[o].filled <= venue[o].filled

\* A reservation is released only when its order has ended at the venue, not
\* when a cancel was merely acknowledged: exposure is never freed while the
\* order can still fill.
ReleasedOnlyAfterEnd ==
    \A o \in Order : tomb[o] \/ row[o].status = "closed" => venue[o].status \in Ended

\* An order whose reconciliation ended in conflict while its reservation is
\* still active keeps admission closed, whatever other orders reconcile later.
ConflictRevokes ==
    gate /\ Resting => \A o \in Order : ~(durable[o] = "conflict" /\ RowActive(o))

\* The reservation tables live the life DurableReservation describes, with the
\* calls of ReservationLifecycle as single steps.
Durable == INSTANCE DurableReservation WITH
             Rid <- Order, Dedupe <- [o \in Order |-> o], OrderQty <- Qty,
             state <- [o \in Order |-> CASE tomb[o] -> "released"
                                         [] ~tomb[o] /\ RowActive(o) -> "open"
                                         [] OTHER -> "none"],
             filled <- journal
ImplementsDurable == Durable!Spec

-----------------------------------------------------------------------------
(* What the repository says and the code does not do; see the findings.    *)

\* A restart recovers: when every order had ended before the process started,
\* and nothing failed, the startup reconciliation opens admission.
RestartRecovers == Resting /\ settled => gate
=============================================================================
