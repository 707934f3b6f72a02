----------------------- MODULE ReservationLifecycle -----------------------
(***************************************************************************)
(* The life of an order's reservation: opened when the venue acknowledges  *)
(* the order, reduced by each reported fill, released when the order ends. *)
(* The order router calls ReservationLifecycleCoordinator, which calls the *)
(* guarded helpers of ExposureManager; these keep the in-memory            *)
(* reservation (mem) and the durable tables of ReservationStore in step    *)
(* without any transaction over both: every access below is a step of its  *)
(* own, at which another thread may run, the process may die, or the store *)
(* may fail.                                                               *)
(*                                                                         *)
(* The venue is the external paper gateway.  While the engine runs, its    *)
(* events are delivered by the thread that submitted the order (Worker a   *)
(* singleton).  ExecutionEngine.stop does not join the executor thread,    *)
(* and the shutdown reconciliation then delivers events of the same orders *)
(* from the main thread while a submission is still being reconciled       *)
(* (several workers): no lock is held around either.                       *)
(***************************************************************************)
EXTENDS ReservationStore

CONSTANTS
    Worker,        \* threads that deliver lifecycle events
    FaultyStore,   \* TRUE: a store call may fail with an exception
    MaxCrashes     \* bound on the number of process crashes

ASSUME ModeAssumption == FaultyStore \in BOOLEAN /\ MaxCrashes \in Nat

VARIABLES
    mem,       \* ExposureManager._reservations: held, and filled_qty
    venue,     \* the order at the venue: status and cumulative filled
    up,        \* the process is running
    hydrated,  \* its hydration did not fail
    crashes,
    pc,        \* where each worker is in its call
    call       \* the locals of that call

vars == <<store, mem, venue, up, hydrated, crashes, pc, call>>

Free == [held |-> FALSE, filled |-> 0]
Held(n) == [held |-> TRUE, filled |-> n]

NoCall == [rid |-> CHOOSE r \in Rid : TRUE, target |-> CHOOSE r \in Rid : TRUE,
           kind |-> "partial", event |-> 1, cum |-> 0, delta |-> 0, snap |-> 0,
           release |-> "none", row |-> NoRow]

Call == [rid: Rid, target: Rid, kind: {"partial", "closing"}, event: 1..OrderQty,
         cum: 0..OrderQty, delta: 0..OrderQty, snap: 0..Qty,
         release: {"none"} \union Terminal, row: Row]

PC == {"idle", "o_tomb", "o_dedupe", "o_memory", "o_reserve", "o_upsert", "o_rollback",
       "f_resolve", "f_memory", "f_progress", "f_record", "f_apply", "f_upsert",
       "r_key", "r_resolve", "r_tomb", "r_memory", "r_record", "r_remove", "r_upsert"}

TypeOK ==
    /\ StoreTypeOK
    /\ mem \in [Rid -> [held: BOOLEAN, filled: 0..Qty]]
    /\ venue \in [Rid -> [status: {"none", "live"} \union Terminal, filled: 0..OrderQty]]
    /\ up \in BOOLEAN /\ hydrated \in BOOLEAN
    /\ crashes \in 0..MaxCrashes
    /\ pc \in [Worker -> PC]
    /\ call \in [Worker -> Call]

Init ==
    /\ StoreInit
    /\ mem = [r \in Rid |-> Free]
    /\ venue = [r \in Rid |-> [status |-> "none", filled |-> 0]]
    /\ up = TRUE /\ hydrated = TRUE /\ crashes = 0
    /\ pc = [w \in Worker |-> "idle"]
    /\ call = [w \in Worker |-> NoCall]

-----------------------------------------------------------------------------
(* Helpers.                                                                *)

Lower(a, b) == IF a <= b THEN a ELSE b

(* A read that is not strict answers "nothing there" when it fails.        *)
ReadFails == FaultyStore

\* worker w, at step here of its call, runs
At(w, here) == up /\ pc[w] = here
Goto(w, there) == pc' = [pc EXCEPT ![w] = there] /\ UNCHANGED call
Return(w) == pc' = [pc EXCEPT ![w] = "idle"] /\ call' = [call EXCEPT ![w] = NoCall]
Set(w, there, c) == pc' = [pc EXCEPT ![w] = there] /\ call' = [call EXCEPT ![w] = c]

\* what a step that only reads leaves alone, and what a memory step does
Reading == UNCHANGED <<store, mem, venue, up, hydrated, crashes>>
Remembering == UNCHANGED <<store, venue, up, hydrated, crashes>>
Storing == UNCHANGED <<mem, venue, up, hydrated, crashes>>
Environment == UNCHANGED <<store, mem, up, hydrated, crashes, pc, call>>

(* After the fill part of a call: an order that ended unfilled is released *)
(* whether or not its last fill was applied; on_full_fill releases only    *)
(* when its pre-release fill was applied or was already recorded.          *)
AfterFill(w, done) ==
    CASE call[w].release = "none"      -> Return(w)
      [] call[w].release = "cancelled" -> Goto(w, "r_key")
      [] OTHER -> IF done THEN Goto(w, "r_tomb") ELSE Return(w)

-----------------------------------------------------------------------------
(* The venue.                                                              *)

VenueFill(r) ==
    /\ venue[r].status = "live" /\ venue[r].filled < OrderQty
    /\ venue' = [venue EXCEPT ![r].filled = @ + 1,
                              ![r].status = IF venue[r].filled + 1 = OrderQty
                                            THEN "filled" ELSE "live"]
    /\ Environment

(* A cancel, an expiry or a reject after the acknowledgement; the venue    *)
(* may also close as filled an order it filled for less than was asked.    *)
VenueClose(r) ==
    /\ venue[r].status = "live"
    /\ \E s \in Terminal :
         /\ s = "filled" => venue[r].filled > 0
         /\ venue' = [venue EXCEPT ![r].status = s]
    /\ Environment

-----------------------------------------------------------------------------
(* Where calls come from.                                                  *)

Start(w, there, c) == Set(w, there, c) /\ UNCHANGED <<store, mem, up, hydrated, crashes>>
CallFor(r) == [NoCall EXCEPT !.rid = r, !.target = r]

(* _submit_order_gateway: the venue acknowledges, and the reservation is    *)
(* opened in the same call.                                                *)
Submit(w, r) ==
    /\ At(w, "idle") /\ venue[r].status = "none"
    /\ venue' = [venue EXCEPT ![r].status = "live"]
    /\ Start(w, "o_tomb", CallFor(r))

(* A partial fill found by querying the venue is reported with the order's *)
(* cumulative quantity as both the cumulative and the delta.               *)
ReportPartialFill(w, r) ==
    LET n == venue[r].filled
    IN  /\ At(w, "idle") /\ venue[r].status = "live" /\ n > 0
        /\ Start(w, "f_resolve", [CallFor(r) EXCEPT !.event = n, !.cum = n, !.delta = n])
        /\ UNCHANGED venue

(* The cumulative fill of an order that ended unfilled is applied first,   *)
(* then the reservation is released.                                       *)
ReportTerminal(w, r) ==
    LET n == venue[r].filled
        c == [CallFor(r) EXCEPT !.kind = "closing", !.release = venue[r].status,
                                !.event = IF n = 0 THEN 1 ELSE n, !.cum = n, !.delta = n]
    IN  /\ At(w, "idle") /\ venue[r].status \in Terminal
        /\ Start(w, IF venue[r].status = "cancelled" /\ n > 0 THEN "f_resolve" ELSE "r_key", c)
        /\ UNCHANGED venue

-----------------------------------------------------------------------------
(* guarded_open_reservation.                                               *)

OpenRow(n) == [status |-> "open", filled |-> n, cancelled |-> 0]

OpenReadTombstone(w) ==
    /\ At(w, "o_tomb")
    /\ \/ tomb[call[w].rid] # NoTomb /\ Return(w)
       \/ (tomb[call[w].rid] = NoTomb \/ ReadFails) /\ Goto(w, "o_dedupe")
    /\ Reading

OpenReadDedupe(w) ==
    LET active == {q \in SameDedupe(call[w].rid) : IsOpen(q)}
    IN  /\ At(w, "o_dedupe")
        /\ \/ active # {} /\ Return(w)
           \/ (active = {} \/ ReadFails) /\ Goto(w, "o_memory")
        /\ Reading

OpenReadMemory(w) ==
    /\ At(w, "o_memory")
    /\ IF mem[call[w].rid].held THEN Return(w) ELSE Goto(w, "o_reserve")
    /\ Reading

(* reserve_intent, under ExposureManager._lock: it may refuse the intent,  *)
(* and it answers with a reservation already held under the id or under    *)
(* the dedupe key, whoever's it is.                                        *)
OpenReserve(w) ==
    LET r == call[w].rid
        held == {q \in SameDedupe(r) : mem[q].held}
        opened(q, n) == [call[w] EXCEPT !.target = q, !.row = OpenRow(n)]
    IN  /\ At(w, "o_reserve")
        /\ \/ held = {} /\ Return(w) /\ UNCHANGED mem
           \/ /\ held = {}
              /\ mem' = [mem EXCEPT ![r] = Held(0)]
              /\ Set(w, "o_upsert", opened(r, 0))
           \/ \E q \in held :
                /\ r \in held => q = r
                /\ Set(w, "o_upsert", opened(q, mem[q].filled))
                /\ UNCHANGED mem
        /\ Remembering

OpenUpsert(w) ==
    LET c == call[w]
    IN  /\ At(w, "o_upsert")
        /\ \/ Upsert(c.target, c.row) /\ Return(w)
           \/ /\ FaultyStore \/ ~UpsertAccepted(c.target, c.row)
              /\ Goto(w, "o_rollback") /\ UNCHANGED store
        /\ Storing

\* a fault: a reservation whose row was refused stays in memory
OpenRollback_Skipped(w) == At(w, "o_rollback") /\ Return(w) /\ Reading
\* _rollback_open_reservation: only the caller's own id is taken back
OpenRollback(w) ==
    /\ At(w, "o_rollback")
    /\ mem' = [mem EXCEPT ![call[w].rid] = Free]
    /\ Return(w)
    /\ Remembering

-----------------------------------------------------------------------------
(* on_partial_fill and guarded_apply_fill_to_reservation.                  *)

FillResolve(w) ==
    /\ At(w, "f_resolve")
    /\ \/ IsOpen(call[w].rid) /\ Goto(w, "f_memory")
       \/ (~IsOpen(call[w].rid) \/ ReadFails) /\ AfterFill(w, FALSE)
    /\ Reading

FillReadMemory(w) ==
    LET m == mem[call[w].rid]
    IN  /\ At(w, "f_memory")
        /\ IF m.held THEN Set(w, "f_progress", [call[w] EXCEPT !.snap = m.filled])
           ELSE AfterFill(w, FALSE)
        /\ Reading

(* The ledger row is read here too; it exists, rows are never deleted, but *)
(* that read may fail and end the call.                                    *)
FillReadProgress(w) ==
    LET c == call[w]
        key == [kind |-> c.kind, event |-> c.event]
        decide(seen) ==
            IF \E p \in seen : p.key = key THEN AfterFill(w, TRUE)
            ELSE IF c.cum > c.snap /\ Advances(seen, c.cum)
            THEN Set(w, "f_record", [c EXCEPT !.delta = Lower(c.cum - c.snap, c.delta)])
            ELSE AfterFill(w, FALSE)
    IN  /\ At(w, "f_progress")
        /\ \/ decide(progress[c.rid])
           \/ ReadFails /\ (decide({}) \/ AfterFill(w, FALSE))
        /\ Reading

\* a fault: the answer of the journal write is ignored
FillRecord_Unchecked(w) ==
    LET c == call[w]
        p == [key |-> [kind |-> c.kind, event |-> c.event], cum |-> c.cum]
    IN  /\ At(w, "f_record")
        /\ RecordProgress(c.rid, p) \/ (FaultyStore /\ UNCHANGED store)
        /\ Goto(w, "f_apply")
        /\ Storing

FillRecord(w) ==
    LET c == call[w]
        p == [key |-> [kind |-> c.kind, event |-> c.event], cum |-> c.cum]
    IN  /\ At(w, "f_record")
        /\ \/ RecordProgress(c.rid, p) /\ Goto(w, "f_apply")
           \/ /\ FaultyStore \/ ~RecordAccepted(c.rid, p)
              /\ AfterFill(w, FALSE) /\ UNCHANGED store
        /\ Storing

\* a fault: the quantity filled beyond the reservation's own is kept
CompletedRow_Uncapped(cum) == [status |-> "filled", filled |-> cum, cancelled |-> 0]
CompletedRow(cum) == [status |-> "filled", filled |-> Lower(Qty, cum), cancelled |-> 0]

(* apply_fill_to_reservation answers None both when the fill completes the *)
(* reservation and when the reservation is no longer there; the caller     *)
(* then writes a filled row (_terminal_or_active_row_after_fill).          *)
FillApply(w) ==
    LET c == call[w]
        m == mem[c.rid]
        after == Lower(Qty, m.filled + c.delta)
        stays == m.held /\ after < Qty
    IN  /\ At(w, "f_apply")
        /\ mem' = [mem EXCEPT ![c.rid] = IF stays THEN Held(after) ELSE Free]
        /\ Set(w, "f_upsert",
               [c EXCEPT !.row = IF stays THEN OpenRow(after) ELSE CompletedRow(c.cum)])
        /\ Remembering

FillUpsert(w) ==
    LET c == call[w]
    IN  /\ At(w, "f_upsert")
        /\ \/ Upsert(c.rid, c.row) /\ AfterFill(w, TRUE)
           \/ /\ FaultyStore \/ ~UpsertAccepted(c.rid, c.row)
              /\ AfterFill(w, FALSE) /\ UNCHANGED store
        /\ Storing

-----------------------------------------------------------------------------
(* on_full_fill, on_terminal_non_fill and guarded_release_reservation.     *)

ReleaseReadKey(w) ==
    LET known == tomb[call[w].rid] = call[w].release
    IN  /\ At(w, "r_key")
        /\ \/ known /\ Return(w)
           \/ (~known \/ ReadFails) /\ Goto(w, "r_resolve")
        /\ Reading

(* The router resolves the active row; a full fill whose cumulative is     *)
(* ahead of the row but short of the whole quantity is applied first.      *)
ReleaseResolve(w) ==
    LET c == call[w]
        fillFirst == /\ c.release = "filled"
                     /\ ledger[c.rid].filled < c.cum /\ c.cum < Qty
    IN  /\ At(w, "r_resolve")
        /\ \/ IsOpen(c.rid) /\ Goto(w, IF fillFirst THEN "f_resolve" ELSE "r_tomb")
           \/ (~IsOpen(c.rid) \/ ReadFails) /\ Return(w)
        /\ Reading

\* both reads of the guard: by release key, then by reservation
ReleaseReadTombstone(w) ==
    LET released == tomb[call[w].rid] # NoTomb
    IN  /\ At(w, "r_tomb")
        /\ \/ released /\ Return(w)
           \/ (~released \/ ReadFails) /\ Goto(w, "r_memory")
        /\ Reading

ReleaseReadMemory(w) ==
    LET m == mem[call[w].rid]
    IN  /\ At(w, "r_memory")
        /\ IF m.held THEN Set(w, "r_record", [call[w] EXCEPT !.snap = m.filled])
           ELSE Return(w)
        /\ Reading

\* a fault: the answer of the tombstone write is ignored
ReleaseRecord_Unchecked(w) ==
    LET c == call[w]
    IN  /\ At(w, "r_record")
        /\ RecordTombstone(c.rid, c.release) \/ (FaultyStore /\ UNCHANGED store)
        /\ Goto(w, "r_remove")
        /\ Storing

ReleaseRecord(w) ==
    LET c == call[w]
    IN  /\ At(w, "r_record")
        /\ \/ RecordTombstone(c.rid, c.release) /\ Goto(w, "r_remove")
           \/ /\ FaultyStore \/ ~TombstoneAccepted(c.rid, c.release)
              /\ Return(w) /\ UNCHANGED store
        /\ Storing

(* _terminal_ledger_row_for_release, from the reservation read before.     *)
ReleasedRow_ForgetsFills(status, snap) ==
    [status |-> status, filled |-> 0, cancelled |-> Qty]  \* a fault
ReleasedRow(status, snap) ==
    IF status = "filled" THEN [status |-> status, filled |-> Qty, cancelled |-> 0]
    ELSE [status |-> status, filled |-> snap, cancelled |-> Qty - snap]

\* _remove_reservation does nothing when the reservation is already gone
ReleaseRemove(w) ==
    LET c == call[w]
    IN  /\ At(w, "r_remove")
        /\ mem' = [mem EXCEPT ![c.rid] = Free]
        /\ Set(w, "r_upsert", [c EXCEPT !.row = ReleasedRow(c.release, c.snap)])
        /\ Remembering

ReleaseUpsert(w) ==
    LET c == call[w]
    IN  /\ At(w, "r_upsert")
        /\ \/ Upsert(c.rid, c.row)
           \/ /\ FaultyStore \/ ~UpsertAccepted(c.rid, c.row)
              /\ UNCHANGED store
        /\ Return(w)
        /\ Storing

-----------------------------------------------------------------------------
(* The process dies and comes back.                                        *)

(* Memory goes, wherever each call is.                                     *)
Crash ==
    /\ up /\ crashes < MaxCrashes
    /\ up' = FALSE /\ crashes' = crashes + 1
    /\ mem' = [r \in Rid |-> Free]
    /\ pc' = [w \in Worker |-> "idle"] /\ call' = [w \in Worker |-> NoCall]
    /\ UNCHANGED <<store, venue, hydrated>>

(* hydrate_reservations_from_ledger.  The dedupe conflict it also skips on *)
(* needs two open rows with one key, which OneActivePerDedupe excludes.    *)
Recovered_LedgerOnly(r) == ledger[r].filled  \* a fault: the journal is not consulted
Recovered(r) == IF MaxCum(r) > ledger[r].filled THEN MaxCum(r) ELSE ledger[r].filled
Recoverable(r) == /\ IsOpen(r)
                  /\ \A q \in SameDedupe(r) : tomb[q] # NoTomb => ~IsOpen(q)
                  /\ MaxCum(r) <= Qty
                  /\ Recovered(r) + ledger[r].cancelled < Qty

(* _bootstrap_reservation_lifecycle_disabled: a strict read that fails     *)
(* leaves memory empty, and the lifecycle enabled all the same.            *)
Restart ==
    /\ ~up /\ up' = TRUE
    /\ \/ /\ mem' = [r \in Rid |-> IF Recoverable(r) THEN Held(Recovered(r)) ELSE Free]
          /\ hydrated' = TRUE
       \/ FaultyStore /\ hydrated' = FALSE /\ UNCHANGED mem
    /\ UNCHANGED <<store, venue, crashes, pc, call>>

-----------------------------------------------------------------------------
OpenStep(w) == \/ OpenReadTombstone(w) \/ OpenReadDedupe(w) \/ OpenReadMemory(w)
               \/ OpenReserve(w) \/ OpenUpsert(w) \/ OpenRollback(w)
FillStep(w) == \/ FillResolve(w) \/ FillReadMemory(w) \/ FillReadProgress(w)
               \/ FillRecord(w) \/ FillApply(w) \/ FillUpsert(w)
ReleaseStep(w) == \/ ReleaseReadKey(w) \/ ReleaseResolve(w) \/ ReleaseReadTombstone(w)
                  \/ ReleaseReadMemory(w) \/ ReleaseRecord(w) \/ ReleaseRemove(w)
                  \/ ReleaseUpsert(w)
Report(w, r) == \/ Submit(w, r) \/ ReportPartialFill(w, r) \/ ReportTerminal(w, r)

Next ==
    \/ \E r \in Rid : VenueFill(r) \/ VenueClose(r)
    \/ \E w \in Worker, r \in Rid : Report(w, r)
    \/ \E w \in Worker : OpenStep(w) \/ FillStep(w) \/ ReleaseStep(w)
    \/ Crash \/ Restart

Spec == Init /\ [][Next]_vars

-----------------------------------------------------------------------------
(* Properties of every interleaving.                                       *)

\* At most one open ledger row carries a dedupe key: a retried or duplicated
\* acknowledgement can never put one decision's exposure on the books twice
\* (the promise of upsert_reservation_ledger, whichever threads race).
OneActivePerDedupe ==
    \A r \in Rid : \A q \in SameDedupe(r) : IsOpen(r) /\ IsOpen(q) => q = r

\* Two rows of the fill journal never record the same cumulative quantity of
\* a reservation: however reports are duplicated or raced, the journal counts
\* each level of the order once (record_reservation_fill_progress).
JournalAdvances ==
    \A r \in Rid : \A p, q \in progress[r] : p.cum = q.cum => p = q

-----------------------------------------------------------------------------
(* Properties of calls that come one after the other, with crashes at any  *)
(* step and any store call failing.                                        *)

Quiet(r) == \A w \in Worker : pc[w] = "idle" \/ (call[w].rid # r /\ call[w].target # r)

\* The journal is written ahead: neither memory nor an open ledger row ever
\* shows a fill that the journal lacks, so a crash between any two steps
\* cannot lose a fill that was already applied.
WriteAhead ==
    \A r \in Rid :
      /\ mem[r].held => mem[r].filled <= MaxCum(r)
      /\ IsOpen(r) => ledger[r].filled <= MaxCum(r)

\* Between calls the memory shows exactly the fills of the journal, so the
\* exposure counted for a resting order is its true open quantity, also after
\* failed writes and restarts.
MemoryCaughtUp ==
    \A r \in Rid : Quiet(r) /\ mem[r].held => mem[r].filled = MaxCum(r)

\* Between calls a reservation in memory is backed by an open row without a
\* tombstone: no failure leaves memory holding exposure that a restart would
\* drop or that was already released.
MemoryBacked ==
    \A r \in Rid : Quiet(r) /\ mem[r].held => IsOpen(r) /\ tomb[r] = NoTomb

\* Between calls of a process that hydrated, an open row that memory does not
\* hold is one the journal shows filled or a tombstone shows released: no live
\* order's exposure is forgotten.
NoForgottenExposure ==
    up /\ hydrated =>
      \A r \in Rid : Quiet(r) /\ IsOpen(r) /\ ~mem[r].held =>
                       tomb[r] # NoTomb \/ MaxCum(r) >= Qty

\* A terminal row accounts for the whole quantity, and a cancelled one frees
\* exactly what the journal shows unfilled.
TerminalRowAccounts ==
    \A r \in Rid : ledger[r].status \in Terminal =>
      /\ ledger[r].filled + ledger[r].cancelled = Qty
      /\ ledger[r].status = "cancelled" => ledger[r].filled = MaxCum(r)

\* The durable tables go through the life DurableReservation describes.
DurableState(r) == CASE tomb[r] # NoTomb -> "released"
                     [] tomb[r] = NoTomb /\ MaxCum(r) >= Qty -> "complete"
                     [] tomb[r] = NoTomb /\ MaxCum(r) < Qty ->
                          IF IsOpen(r) THEN "open" ELSE "none"
Durable == INSTANCE DurableReservation WITH
             state <- [r \in Rid |-> DurableState(r)],
             filled <- [r \in Rid |-> MaxCum(r)]

\* Whatever fails and whenever the process dies, a reservation opens once,
\* its durable fills only grow, and it closes for good.
ImplementsDurable == Durable!Spec

-----------------------------------------------------------------------------
(* What the repository says and the code does not do; see the findings.    *)

\* A fill report delivered twice is applied once: memory never shows more
\* filled than the venue filled
\* (test_guarded_fill_duplicate_key_is_idempotent_noop).
FillsAppliedOnce == \A r \in Rid : mem[r].filled <= venue[r].filled
=============================================================================
