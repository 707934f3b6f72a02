-------------------------- MODULE ExecutionEngine --------------------------
(***************************************************************************)
(* The threads of app/execution/engine.py and the lock of                  *)
(* app/risk/guard.py: the main loop admits signals and assesses the risk,  *)
(* with the guard's callbacks running under the guard's lock; the executor *)
(* sends queued signals; the sweeper cancels aged orders; pool workers     *)
(* cancel in an emergency.  The monitor only closes and opens admission    *)
(* (safe mode, lag), which any signal here may be refused anyway.          *)
(*                                                                         *)
(* A section under the engine's own lock calls nothing, so it is one step. *)
(* The router is what GatewayOrders shows of it: an order has a mapping,   *)
(* and an acknowledged cancel makes the mapping terminal at once.          *)
(***************************************************************************)
EXTENDS Naturals, FiniteSets

CONSTANTS
    Order,         \* signals, each with the order it becomes
    FaultyCalls,   \* TRUE: a call of the venue may fail
    OperatorStops  \* TRUE: the operator may stop the engine

ASSUME OrderAssumption == IsFiniteSet(Order) /\ "none" \notin Order
ASSUME ModeAssumption == {FaultyCalls, OperatorStops} \subseteq BOOLEAN

Thread == {"main", "sweeper"}  \* the threads that cancel with verification

VARIABLES
    running,     \* _state.is_running
    recal,       \* _state.is_in_recalibration
    queued,      \* _execution_queue
    pending,     \* _state.pending_orders
    age,         \* the age of an order against the two limits of the sweeper
    attempted,   \* _cancel_attempted_order_ids
    sweeping,    \* _zombie_sweep_in_progress
    rerun,       \* _zombie_sweep_rerun_pending
    fuse,        \* the guard's physical_fuse_triggered
    floor,       \* the guard's adaptive_floor_breached
    owner,       \* who holds the guard's lock from one step to the next
    venue,       \* the order at the venue
    mapping,     \* the router's mapping of the order
    main,        \* the main loop: its step, the equity it assesses, its snapshot
    exec,        \* the executor: its step and its order
    sweep,       \* the sweeper: its step, its snapshot, whether it is the second pass
    pcv,         \* _cancel_pending_order_with_pcv as each thread runs it
    workers,     \* orders handed to the emergency pool
    sends,       \* history: cancels sent by _cancel_pending_order_with_pcv
    late,        \* history: orders sent after the engine stopped
    liquidated   \* history: an emergency cleared the pending orders

flags == <<running, recal>>
books == <<queued, pending, age, attempted>>
sweeper == <<sweeping, rerun, sweep>>
risk == <<fuse, floor, owner>>
router == <<venue, mapping>>
threads == <<main, exec, pcv, workers>>
history == <<sends, late, liquidated>>
vars == <<flags, books, sweeper, risk, router, threads, history>>

NoOrder == "none"
Idle == [at |-> "idle", order |-> NoOrder]
MainSteps == {"idle", "floor", "cancel", "fuse", "outage", "act", "clear", "stop"}
SweepSteps == {"idle", "begin", "prune", "each", "update", "rerun"}
PcvSteps == {"idle", "check", "recheck", "terminal", "claim", "send", "verify"}

TypeOK ==
    /\ {running, recal, sweeping, rerun, fuse, floor, liquidated} \subseteq BOOLEAN
    /\ {queued, pending, attempted, workers} \subseteq SUBSET Order
    /\ age \in [Order -> {"young", "old", "expired"}]
    /\ owner \in {"none", "main"}
    /\ venue \in [Order -> {"none", "live", "ended"}]
    /\ mapping \in [Order -> {"none", "active", "terminal"}]
    /\ main \in [at: MainSteps, todo: SUBSET Order, equity: {"high", "floor", "fuse"},
                 next: {"idle", "outage", "act"}]
    /\ exec \in [at: {"idle", "get", "send", "file"}, order: Order \union {NoOrder}]
    /\ sweep \in [at: SweepSteps, todo: SUBSET Order, second: BOOLEAN]
    /\ pcv \in [Thread -> [at: PcvSteps, order: Order \union {NoOrder}]]
    /\ sends \in [Order -> Nat] /\ late \in Nat

MainIdle == [at |-> "idle", todo |-> {}, equity |-> "high", next |-> "idle"]
SweepIdle == [at |-> "idle", todo |-> {}, second |-> FALSE]

(* start has just run; the fuse may be on, as the guard keeps it on disk.  *)
Init ==
    /\ running = TRUE /\ recal = FALSE
    /\ queued = {} /\ pending = {} /\ attempted = {}
    /\ age = [o \in Order |-> "young"]
    /\ sweeping = FALSE /\ rerun = FALSE /\ sweep = SweepIdle
    /\ fuse \in BOOLEAN /\ floor = FALSE /\ owner = "none"
    /\ venue = [o \in Order |-> "none"] /\ mapping = [o \in Order |-> "none"]
    /\ main = MainIdle /\ exec = Idle
    /\ pcv = [t \in Thread |-> Idle] /\ workers = {}
    /\ sends = [o \in Order |-> 0] /\ late = 0 /\ liquidated = FALSE

-----------------------------------------------------------------------------
(* The venue, time and the router.                                         *)

VenueEnd(o) ==
    /\ venue[o] = "live"
    /\ venue' = [venue EXCEPT ![o] = "ended"]
    /\ UNCHANGED <<flags, books, sweeper, risk, mapping, threads, history>>

(* An order grows older than max_pending_age_sec, and then than the hard   *)
(* limit for orders of unknown status.                                     *)
Ages(o) ==
    /\ o \in pending /\ age[o] # "expired"
    /\ age' = [age EXCEPT ![o] = IF age[o] = "young" THEN "old" ELSE "expired"]
    /\ UNCHANGED <<flags, queued, pending, attempted, sweeper, risk, router, threads, history>>

(* What the router may answer for the status of o.  A terminal mapping     *)
(* answers for itself, whatever the venue does.                            *)
Status(o) ==
    CASE mapping[o] = "terminal" -> {"ended"}
      [] mapping[o] = "none" -> {"unknown"}
      [] OTHER -> {IF venue[o] = "live" THEN "working" ELSE "ended"}
                    \union (IF FaultyCalls THEN {"unknown"} ELSE {})

\* the router ends the mapping of an order it finds ended
Learn(o, status) ==
    mapping' = IF status = "ended" THEN [mapping EXCEPT ![o] = "terminal"] ELSE mapping
Without(o, dropped) == pending' = IF dropped THEN pending \ {o} ELSE pending

(* The router's cancel_order: refused for a terminal mapping and by a      *)
(* venue where the order has ended.                                        *)
CancelAcked(o) == mapping[o] = "active" /\ venue[o] = "live" /\ Learn(o, "ended")
CancelFails(o) ==
    (mapping[o] # "active" \/ venue[o] # "live" \/ FaultyCalls) /\ UNCHANGED mapping

-----------------------------------------------------------------------------
(* The main loop: admission.                                               *)

Fresh(o) == venue[o] = "none" /\ o \notin queued /\ exec.order # o

\* submit_signal finds the pause over, whatever its later checks say
PauseEnds ==
    /\ main.at = "idle" /\ running /\ recal
    /\ recal' = FALSE
    /\ UNCHANGED <<running, books, sweeper, risk, router, threads, history>>

(* submit_signal.  The other gates (safe mode, lag, data health, edge,     *)
(* guardrail) refuse a signal and change nothing.                          *)
Admit(o) ==
    /\ main.at = "idle" /\ Fresh(o)
    /\ running /\ ~recal /\ ~fuse
    /\ queued' = queued \union {o}
    /\ UNCHANGED <<flags, pending, age, attempted, sweeper, risk, router, threads, history>>

-----------------------------------------------------------------------------
(* The main loop: assess_state holds the guard's lock through the          *)
(* callbacks, and the recalibration state machine acts on its verdict.     *)

Assess(equity) ==
    /\ main.at = "idle" /\ owner = "none"
    /\ owner' = "main"
    /\ main' = [main EXCEPT !.at = "floor", !.equity = equity]
    /\ UNCHANGED <<flags, books, sweeper, fuse, floor, router, exec, pcv, workers, history>>

(* check_adaptive_floor.  A breach recalibrates unless the structure is    *)
(* coherent; _on_recalibration pauses admission and cancels what is        *)
(* pending.                                                                *)
CheckFloor ==
    /\ main.at = "floor"
    /\ \/ /\ main.equity # "high" /\ ~floor
          /\ floor' = TRUE
          /\ recal' = TRUE
          /\ main' = [main EXCEPT !.at = "cancel", !.todo = pending]
       \/ /\ main' = [main EXCEPT !.at = "fuse"]
          /\ floor' = (main.equity # "high" /\ floor)
          /\ UNCHANGED recal
    /\ UNCHANGED <<running, books, sweeper, fuse, owner, router, exec, pcv, workers, history>>

\* _normal_cancel_all_orders
CancelNext ==
    /\ main.at = "cancel" /\ pcv["main"].at = "idle"
    /\ IF main.todo = {}
       THEN main' = [main EXCEPT !.at = "fuse"] /\ UNCHANGED pcv
       ELSE \E o \in main.todo :
              /\ main' = [main EXCEPT !.todo = @ \ {o}]
              /\ pcv' = [pcv EXCEPT !["main"] = [at |-> "check", order |-> o]]
    /\ UNCHANGED <<flags, books, sweeper, risk, router, exec, workers, history>>

\* check_physical_fuse
CheckFuse_Silent ==  \* a fault: the callbacks of the fuse are not made
    /\ main.at = "fuse"
    /\ fuse' = (fuse \/ main.equity = "fuse")
    /\ main' = [main EXCEPT !.at = "outage", !.equity = "high"]
    /\ UNCHANGED <<flags, books, sweeper, floor, owner, router, exec, pcv, workers, history>>
CheckFuse ==
    /\ main.at = "fuse"
    /\ fuse' = (fuse \/ main.equity = "fuse")
    /\ main' = IF main.equity = "fuse" /\ ~fuse
               THEN [main EXCEPT !.at = "clear", !.next = "outage", !.equity = "high"]
               ELSE [main EXCEPT !.at = "outage", !.equity = "high"]
    /\ UNCHANGED <<flags, books, sweeper, floor, owner, router, exec, pcv, workers, history>>

(* check_websocket_health: no heartbeat for too long is an emergency.  The *)
(* velocity fuse would be one too, but nothing in the program evaluates it.*)
CheckOutage ==
    /\ main.at = "outage"
    /\ \/ main' = [main EXCEPT !.at = "clear", !.next = "act"]
       \/ main' = [main EXCEPT !.at = "act"]
    /\ UNCHANGED <<flags, books, sweeper, risk, router, exec, pcv, workers, history>>

(* _advance_recalibration, after the lock: a halt or a crisis liquidates   *)
(* again unless a recalibration is on.                                     *)
Act ==
    /\ main.at = "act" /\ owner' = "none"
    /\ \/ main' = MainIdle
       \/ main' = [main EXCEPT !.at = "clear", !.next = "idle"]
    /\ UNCHANGED <<flags, books, sweeper, fuse, floor, router, exec, pcv, workers, history>>

(* _emergency_liquidate_all.  Only this thread calls it.  Closing the      *)
(* positions touches nothing modelled here.                                *)
EmergencyClear ==
    /\ main.at = "clear"
    /\ workers' = workers \union pending
    /\ pending' = {}
    /\ liquidated' = TRUE
    /\ main' = [main EXCEPT !.at = "stop"]
    /\ UNCHANGED <<flags, queued, age, attempted, sweeper, risk, router, exec, pcv,
                   sends, late>>

EmergencyStop ==
    /\ main.at = "stop"
    /\ running' = FALSE
    /\ main' = IF main.next = "idle" THEN MainIdle ELSE [main EXCEPT !.at = main.next]
    /\ UNCHANGED <<recal, books, sweeper, risk, router, exec, pcv, workers,
                   history>>

\* _emergency_cancel_order: sent once and not verified
EmergencyCancel(o) ==
    /\ o \in workers
    /\ workers' = workers \ {o}
    /\ CancelAcked(o) \/ CancelFails(o)
    /\ UNCHANGED <<flags, books, sweeper, risk, venue, main, exec, pcv, history>>

\* stop, called by the operator's thread
OperatorStop ==
    /\ OperatorStops /\ running
    /\ running' = FALSE
    /\ UNCHANGED <<recal, books, sweeper, risk, router, threads, history>>
-----------------------------------------------------------------------------
(* The executor.  It looks at the engine's state once for each wait on the *)
(* queue and never after.                                                  *)

ExecutorLoop ==
    /\ exec.at = "idle" /\ running
    /\ exec' = [Idle EXCEPT !.at = "get"]
    /\ UNCHANGED <<flags, books, sweeper, risk, router, main, pcv, workers, history>>

Get_Nothing ==  \* a fault: the end of the wait is taken for a signal
    /\ exec.at = "get"
    /\ \/ \E o \in queued : queued' = queued \ {o} /\ exec' = [at |-> "send", order |-> o]
       \/ queued = {} /\ exec' = [Idle EXCEPT !.at = "send"] /\ UNCHANGED queued
    /\ UNCHANGED <<flags, pending, age, attempted, sweeper, risk, router, main, pcv,
                   workers, history>>
\* the wait ends with a signal or after a tenth of a second
Get ==
    /\ exec.at = "get"
    /\ \/ \E o \in queued : queued' = queued \ {o} /\ exec' = [at |-> "send", order |-> o]
       \/ queued = {} /\ exec' = Idle /\ UNCHANGED queued
    /\ UNCHANGED <<flags, pending, age, attempted, sweeper, risk, router, main, pcv,
                   workers, history>>

(* _execute_signal: rejected by the validation of the signal, which reads  *)
(* no state of the engine or the guard; acknowledged; filled or refused by *)
(* the venue; or sent with its reply lost.                                 *)
Send ==
    /\ exec.at = "send"
    /\ \/ exec' = Idle /\ UNCHANGED <<router, late>>
       \/ /\ late' = IF running THEN late ELSE late + 1
          /\ \/ /\ venue' = [venue EXCEPT ![exec.order] = "live"]
                /\ mapping' = [mapping EXCEPT ![exec.order] = "active"]
                /\ exec' = [exec EXCEPT !.at = "file"]
             \/ /\ venue' = [venue EXCEPT ![exec.order] = "ended"]
                /\ exec' = Idle /\ UNCHANGED mapping
             \/ /\ FaultyCalls
                /\ venue' = [venue EXCEPT ![exec.order] = "live"]
                /\ exec' = Idle /\ UNCHANGED mapping
    /\ UNCHANGED <<flags, books, sweeper, risk, main, pcv, workers, sends, liquidated>>

File ==
    /\ exec.at = "file" /\ exec' = Idle
    /\ pending' = pending \union {exec.order}
    /\ UNCHANGED <<flags, queued, age, attempted, sweeper, risk, router, main, pcv,
                   workers, history>>

-----------------------------------------------------------------------------
(* _cancel_pending_order_with_pcv, run by thread t.                        *)

PcvAt(t, step) == pcv[t].at = step
PcvGoto(t, step) == pcv' = [pcv EXCEPT ![t].at = step]
PcvReturn(t) == pcv' = [pcv EXCEPT ![t] = Idle]
PcvKeeps == UNCHANGED <<flags, queued, age, sweeper, risk, venue, main, exec, workers,
                        late, liquidated>>

PcvCheck(t) ==
    /\ PcvAt(t, "check")
    /\ CASE pcv[t].order \notin pending -> PcvReturn(t)
         [] pcv[t].order \in pending /\ pcv[t].order \in attempted -> PcvGoto(t, "recheck")
         [] OTHER -> PcvGoto(t, "terminal")
    /\ UNCHANGED <<pending, attempted, mapping, sends>> /\ PcvKeeps

PcvTerminal(t) ==
    /\ pcv[t].at \in {"recheck", "terminal"}
    /\ \E status \in Status(pcv[t].order) :
         /\ Learn(pcv[t].order, status)
         /\ Without(pcv[t].order, status = "ended")
         /\ IF status = "ended" \/ PcvAt(t, "recheck") THEN PcvReturn(t)
                                                      ELSE PcvGoto(t, "claim")
    /\ UNCHANGED <<attempted, sends>> /\ PcvKeeps

PcvClaim_Unchecked(t) ==  \* a fault: the set is not consulted again
    /\ PcvAt(t, "claim")
    /\ IF pcv[t].order \in pending
       THEN attempted' = attempted \union {pcv[t].order} /\ PcvGoto(t, "send")
       ELSE UNCHANGED attempted /\ PcvReturn(t)
    /\ UNCHANGED <<pending, mapping, sends>> /\ PcvKeeps
PcvClaim(t) ==
    /\ PcvAt(t, "claim")
    /\ IF pcv[t].order \in pending \ attempted
       THEN attempted' = attempted \union {pcv[t].order} /\ PcvGoto(t, "send")
       ELSE UNCHANGED attempted /\ PcvReturn(t)
    /\ UNCHANGED <<pending, mapping, sends>> /\ PcvKeeps

PcvSend(t) ==
    /\ PcvAt(t, "send")
    /\ sends' = [sends EXCEPT ![pcv[t].order] = @ + 1]
    /\ \/ CancelAcked(pcv[t].order) /\ PcvGoto(t, "verify")
       \/ CancelFails(pcv[t].order) /\ PcvReturn(t)
    /\ UNCHANGED <<pending, attempted>> /\ PcvKeeps

\* five status polls: terminal at one of them, or at none
PcvVerify(t) ==
    /\ PcvAt(t, "verify") /\ PcvReturn(t)
    /\ \E status \in Status(pcv[t].order) :
         Learn(pcv[t].order, status) /\ Without(pcv[t].order, status = "ended")
    /\ UNCHANGED <<attempted, sends>> /\ PcvKeeps

-----------------------------------------------------------------------------
(* The sweeper.                                                            *)

SweepGoto(step) == sweep' = [sweep EXCEPT !.at = step]
SweepKeeps == UNCHANGED <<flags, queued, age, attempted, risk, venue, main, exec, workers,
                          history>>

\* _zombie_sweeper_loop
Wake ==
    /\ sweep.at = "idle" /\ running
    /\ SweepGoto("begin")
    /\ UNCHANGED <<pending, sweeping, rerun, mapping, pcv>> /\ SweepKeeps

\* _sweep_zombie_orders: one sweep at a time
Begin ==
    /\ sweep.at = "begin"
    /\ IF sweeping
       THEN rerun' = TRUE /\ sweep' = SweepIdle /\ UNCHANGED sweeping
       ELSE /\ sweeping' = TRUE /\ rerun' = FALSE
            /\ sweep' = [at |-> "prune", todo |-> pending, second |-> FALSE]
    /\ UNCHANGED <<pending, mapping, pcv>> /\ SweepKeeps

\* _prune_terminal_pending_orders
Prune(o) ==
    /\ sweep.at = "prune" /\ o \in sweep.todo
    /\ sweep' = [sweep EXCEPT !.todo = @ \ {o}]
    /\ \E status \in Status(o) : Learn(o, status) /\ Without(o, status = "ended")
    /\ UNCHANGED <<sweeping, rerun, pcv>> /\ SweepKeeps

Select ==
    /\ sweep.at = "prune" /\ sweep.todo = {}
    /\ sweep' = [sweep EXCEPT !.at = "each",
                              !.todo = {o \in pending \ attempted : age[o] # "young"}]
    /\ UNCHANGED <<pending, sweeping, rerun, mapping, pcv>> /\ SweepKeeps

(* _zombie_sweep_action_for_order: an order the venue still works is left  *)
(* alone, and one of unknown status until the hard limit.                  *)
Forgettable_Unknown(status) ==  \* a fault: an unknown order is taken for an ended one
    status \in {"ended", "unknown"}
Forgettable(status) == status = "ended"

SweepOne(o) ==
    /\ sweep.at = "each" /\ pcv["sweeper"].at = "idle" /\ o \in sweep.todo
    /\ sweep' = [sweep EXCEPT !.todo = @ \ {o}]
    /\ \/ o \notin pending /\ UNCHANGED <<mapping, pending, pcv>>
       \/ /\ o \in pending
          /\ \E status \in Status(o) :
               /\ Learn(o, status)
               /\ Without(o, Forgettable(status))
               /\ pcv' = IF status = "unknown" /\ age[o] = "expired" /\ ~Forgettable(status)
                         THEN [pcv EXCEPT !["sweeper"] = [at |-> "check", order |-> o]]
                         ELSE pcv
    /\ UNCHANGED <<sweeping, rerun>> /\ SweepKeeps

Total ==
    /\ sweep.at = "each" /\ pcv["sweeper"].at = "idle" /\ sweep.todo = {}
    /\ sweep' = [sweep EXCEPT !.at = "update", !.todo = pending]
    /\ UNCHANGED <<pending, sweeping, rerun, mapping, pcv>> /\ SweepKeeps

(* update_pending_orders: the guard finds the oldest order too old and     *)
(* calls back into _sweep_zombie_orders, which notes that it is asked for. *)
Update ==
    /\ sweep.at = "update" /\ owner = "none"
    /\ SweepGoto("rerun")
    /\ rerun' = (rerun \/ \E o \in sweep.todo : age[o] # "young")
    /\ UNCHANGED <<pending, sweeping, mapping, pcv>> /\ SweepKeeps

SecondPass_EachTime == rerun  \* a fault: as many passes as are asked for
SecondPass == rerun /\ ~sweep.second

Rerun ==
    /\ sweep.at = "rerun" /\ SecondPass
    /\ rerun' = FALSE
    /\ sweep' = [at |-> "prune", todo |-> pending, second |-> TRUE]
    /\ UNCHANGED <<pending, sweeping, mapping, pcv>> /\ SweepKeeps

Finish_KeepsFlag ==  \* a fault: the sweep leaves its flag behind
    /\ sweep.at = "rerun" /\ ~SecondPass
    /\ sweep' = SweepIdle /\ rerun' = FALSE
    /\ UNCHANGED <<pending, sweeping, mapping, pcv>> /\ SweepKeeps
Finish ==
    /\ sweep.at = "rerun" /\ ~SecondPass
    /\ sweep' = SweepIdle
    /\ sweeping' = FALSE /\ rerun' = FALSE
    /\ UNCHANGED <<pending, mapping, pcv>> /\ SweepKeeps

\* get_oms_shutdown_accounting prunes once more
ShutdownPrune(o) ==
    /\ ~running /\ o \in pending /\ "ended" \in Status(o)
    /\ Learn(o, "ended") /\ Without(o, TRUE)
    /\ UNCHANGED <<flags, queued, age, attempted, sweeper, risk, venue, threads, history>>

-----------------------------------------------------------------------------
Environment == \E o \in Order : VenueEnd(o) \/ Ages(o)
Admission == PauseEnds \/ \E o \in Order : Admit(o)
Assessment ==
    \/ CheckFloor \/ CancelNext \/ CheckFuse \/ CheckOutage \/ Act
    \/ EmergencyClear \/ EmergencyStop
Executor == ExecutorLoop \/ Get \/ Send \/ File
Cancellation(t) ==
    PcvCheck(t) \/ PcvTerminal(t) \/ PcvClaim(t) \/ PcvSend(t) \/ PcvVerify(t)
Sweeper ==
    \/ Wake \/ Begin \/ Select \/ Total \/ Update \/ Rerun \/ Finish
    \/ \E o \in Order : Prune(o) \/ SweepOne(o)

Next ==
    \/ Environment \/ Admission \/ Assessment \/ Executor \/ Sweeper
    \/ \E equity \in {"high", "floor", "fuse"} : Assess(equity)
    \/ \E t \in Thread : Cancellation(t)
    \/ OperatorStop \/ \E o \in Order : EmergencyCancel(o) \/ ShutdownPrune(o)

(* The threads run.  The sweeper gets the guard's lock at last, because an *)
(* assessment holds it once in a candle and the monitor once in a second;  *)
(* and a status that is asked again and again is answered at last.         *)
Answered(o) == Prune(o) /\ o \notin pending'
Fairness ==
    /\ WF_vars(Assessment) /\ WF_vars(Sweeper)
    /\ \A t \in Thread : WF_vars(Cancellation(t))
    /\ SF_vars(Update)
    /\ \A o \in Order : SF_vars(Answered(o))

Spec == Init /\ [][Next]_vars
FairSpec == Spec /\ Fairness

-----------------------------------------------------------------------------
(* Properties.                                                             *)

\* _cancel_pending_order_with_pcv sends at most one cancel for an order, though
\* the recalibration of the main loop and the sweeper may run it at once.
CancelOnce == \A o \in Order : sends[o] <= 1

\* Until an emergency hands them to the pool, the pending orders are all the
\* acknowledged orders that live at the venue: none is dropped on a status that
\* says less than that it ended.
PendingComplete ==
    ~liquidated =>
      \A o \in Order : venue[o] = "live" /\ mapping[o] = "active" =>
                         o \in pending \/ exec = [at |-> "file", order |-> o]

\* After the engine stopped, by an emergency or by the operator, the signals that
\* still wait stay unsent, but for the one the executor was already waiting for.
OneLateOrder == late <= 1

\* Between two assessments a triggered fuse has stopped the engine, or was on
\* when the engine started and has let no signal in.
FuseStops ==
    main.at = "idle" /\ fuse =>
      ~running \/ (queued = {} /\ exec.order = NoOrder /\ \A o \in Order : venue[o] = "none")

\* A sweep ends, although each pass makes the guard ask for another.
SweepEnds == sweeping ~> ~sweeping

\* While the engine runs, a pending order that ended at the venue is forgotten.
EndedForgotten ==
    \A o \in Order : (o \in pending /\ venue[o] = "ended") ~> (o \notin pending \/ ~running)

-----------------------------------------------------------------------------
(* What the repository says and the code does not do; see the findings.    *)

\* The fuse is an absolute kill: once it has stopped the engine, nothing is sent.
FuseIsAbsolute ==
    [][fuse /\ ~running => \A o \in Order : venue[o] = "none" => venue'[o] = "none"]_vars
=============================================================================
