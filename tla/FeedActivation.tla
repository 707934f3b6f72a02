---------------------------- MODULE FeedActivation ----------------------------
(***************************************************************************)
(* MarketFeeds (app/data/market_feeds.py): which transport delivers the    *)
(* market data an execution may rely on, how it is activated, lost and     *)
(* replaced, and how the feeds stop (main.py owns their event loop).       *)
(*                                                                         *)
(* Everything runs on one event loop, so a step ends where the code waits: *)
(* for a client to start or to stop, for a cancelled task, for the next    *)
(* second.  The registered callbacks are plain functions and never wait.   *)
(* The tasks are main (_feeds_run: start, the wait, stop) and the failover *)
(* tasks; the clients run on tasks of their own and call back at any time, *)
(* also while they are being stopped.                                      *)
(*                                                                         *)
(* An activation has one stream client and a REST client that only polls   *)
(* the breadth, or one REST client that polls everything.  The protected   *)
(* symbols' books and candles are the Items; the other symbols are observe *)
(* only and are left out, as are the ranking of the universe and the       *)
(* switch lock: SoleActivator shows that nobody ever waits for it.         *)
(***************************************************************************)
EXTENDS Integers, Sequences

CONSTANTS
    Configured,   \* the provider ids in their configured order
    Item,         \* the books and candles of the protected symbols
    Failover      \* failover tasks

Provider == {"stream", "rest"}

ASSUME ConfiguredAssumption == Configured \in Seq(Provider)
ASSUME FailoverAssumption == "main" \notin Failover /\ "none" \notin Failover

VARIABLES
    phase,      \* _transport_state
    started,    \* _started
    running,    \* _running of the process that owns the feeds
    gen,        \* _active_transport_generation
    active,     \* _active_provider_id
    truth,      \* _execution_truth_active
    seeded,     \* _execution_consumer_seeded
    aborted,    \* _activation_failure is set
    failed,     \* the providers whose runtime status is FAILED
    source,     \* the generation that delivered an item, 0 for none
    fresh,      \* the items that are stored and not stale
    held,       \* websocket_client and polling_client
    up,         \* the clients whose tasks run
    owes,       \* clients whose value was refused and that will report it
    task,       \* a task: its step, the provider, what it is stopping, and what follows
    failover,   \* _failover_task
    cancelled   \* the owner cancelled main

data == <<source, fresh>>
clients == <<held, up, owes>>
tasks == <<task, failover, cancelled>>
vars == <<phase, started, running, gen, active, truth, seeded, aborted, failed,
          data, clients, tasks>>

Task == Failover \union {"main"}
Client == [kind : {"stream", "breadth", "rest"}, gen : Nat]
Quiet == [pc |-> "done", provider |-> "none", halting |-> {}, after |-> "none"]

TypeOK ==
    /\ phase \in {"NOT_STARTED", "ACTIVATING", "ACTIVE", "FAILING_OVER", "FAILED_CLOSED",
                  "STOPPING", "STOPPED"}
    /\ started \in BOOLEAN /\ running \in BOOLEAN /\ truth \in BOOLEAN
    /\ seeded \in BOOLEAN /\ aborted \in BOOLEAN /\ cancelled \in BOOLEAN
    /\ gen \in Nat
    /\ active \in Provider \union {"none"}
    /\ failed \subseteq Provider
    /\ source \in [Item -> Nat] /\ fresh \subseteq Item
    /\ held \subseteq Client /\ up \subseteq Client /\ owes \subseteq Client
    /\ task \in [Task -> [pc : {"begin", "starting", "halt", "serve", "gather", "done"},
                          provider : Provider \union {"none"}, halting : SUBSET Client,
                          after : {"none", "select", "stopped"}]]
    /\ failover \in Failover \union {"none"}

\* select_provider: the first configured provider that did not fail.
Selects(p, lost) ==
    \E i \in DOMAIN Configured :
        /\ Configured[i] = p /\ p \notin lost
        /\ \A j \in 1..(i - 1) : Configured[j] \in lost
SelectsNone(lost) == \A i \in DOMAIN Configured : Configured[i] \in lost

\* The provider id that a client's callbacks are bound to.
BoundTo(c) == IF c.kind = "stream" THEN "stream" ELSE "rest"
Current_Any(c) == c \in up
Current(c) == c.gen = gen /\ BoundTo(c) = active
Ready(items) == Item \subseteq items        \* _protected_truth_blockers is empty

Init ==
    /\ phase = "NOT_STARTED" /\ started = FALSE /\ running = TRUE
    /\ gen = 0 /\ active = "none"
    /\ truth = FALSE /\ seeded = FALSE /\ aborted = FALSE /\ failed = {}
    /\ source = [i \in Item |-> 0] /\ fresh = {}
    /\ held = {} /\ up = {} /\ owes = {}
    /\ task = [t \in Task |-> IF t = "main" THEN [Quiet EXCEPT !.pc = "begin"] ELSE Quiet]
    /\ failover = "none" /\ cancelled = FALSE

-----------------------------------------------------------------------------
\* _activate_selection up to the wait for its clients.  Nothing is held by
\* then, so its own _stop_active_clients does no more than take a generation.
Clients(g, p) ==
    IF p = "stream" THEN {[kind |-> "stream", gen |-> g], [kind |-> "breadth", gen |-> g]}
    ELSE {[kind |-> "rest", gen |-> g]}

Activate(t, p) ==
    /\ phase' = "ACTIVATING"
    /\ gen' = gen + 2 /\ active' = p
    /\ truth' = FALSE /\ seeded' = FALSE /\ aborted' = FALSE
    /\ held' = Clients(gen + 2, p)
    /\ up' = up \union Clients(gen + 2, p)
    /\ task' = [task EXCEPT ![t] = [Quiet EXCEPT !.pc = "starting", !.provider = p]]
    /\ UNCHANGED <<running, data, owes>>

\* _stop_active_clients up to the wait for its first client.
Forget_Nothing == UNCHANGED data
Forget == source' = [i \in Item |-> 0] /\ fresh' = {}

Release(t, after) ==
    /\ truth' = FALSE /\ seeded' = FALSE /\ aborted' = FALSE
    /\ gen' = gen + 1 /\ active' = "none"
    /\ held' = {}
    /\ Forget
    /\ task' = [task EXCEPT ![t].pc = "halt", ![t].halting = held, ![t].after = after]
    /\ UNCHANGED <<running, up, owes>>

\* Nobody is left to select: the owner is told and ends the run.
FailClosed(t, pc) ==
    /\ phase' = "FAILED_CLOSED" /\ truth' = FALSE /\ running' = FALSE
    /\ task' = [task EXCEPT ![t] = [Quiet EXCEPT !.pc = pc]]
    /\ UNCHANGED <<gen, active, seeded, aborted, data, clients>>

Reselect(t, lost, pc) ==
    \/ \E p \in Provider : Selects(p, lost) /\ Activate(t, p)
    \/ SelectsNone(lost) /\ FailClosed(t, pc)

\* _revoke_execution_consumer_truth: the owner is told and ends the run.
Revoke == truth' = FALSE /\ seeded' = FALSE /\ running' = FALSE

-----------------------------------------------------------------------------
\* The event loop lives as long as main.
Alive == task["main"].pc # "done"

\* start with the selection made at construction
Start ==
    /\ task["main"].pc = "begin"
    /\ started' = TRUE
    /\ Reselect("main", failed, "serve")
    /\ UNCHANGED <<failed, failover, cancelled>>

\* The clients are up and no failure was reported meanwhile: the transport is
\* ACTIVE, and the consumers are seeded when the probe brought everything.
Succeeds_Resurrects(t) ==
    /\ task[t].pc = "starting"
    /\ truth' = TRUE /\ phase' = "ACTIVE"
    /\ seeded' = Ready(fresh)
    /\ task' = [task EXCEPT ![t] = [Quiet EXCEPT !.pc = IF t = "main" THEN "serve" ELSE "done"]]
    /\ UNCHANGED <<started, running, gen, active, aborted, failed, data, clients,
                   failover, cancelled>>

Succeeds(t) ==
    /\ task[t].pc = "starting"
    /\ ~aborted /\ \A c \in held : c \notin owes
    /\ truth' = TRUE /\ phase' = "ACTIVE"
    /\ seeded' = Ready(fresh)
    /\ task' = [task EXCEPT ![t] = [Quiet EXCEPT !.pc = IF t = "main" THEN "serve" ELSE "done"]]
    /\ UNCHANGED <<started, running, gen, active, aborted, failed, data, clients,
                   failover, cancelled>>

\* A client did not start, a failure was reported meanwhile, or a consumer
\* refused the seed.  start stops the clients and then marks the provider; a
\* failover marks it and fails over once more.
Raises_Once(t) ==
    /\ t # "main" /\ task[t].pc = "starting"
    /\ failed' = failed \union {task[t].provider}
    /\ task' = [task EXCEPT ![t] = Quiet]
    /\ UNCHANGED <<phase, started, running, gen, active, truth, seeded, aborted, data, clients,
                   failover, cancelled>>

Raises(t) ==
    /\ task[t].pc = "starting"
    /\ IF t = "main" THEN UNCHANGED <<phase, failed>>
       ELSE phase' = "FAILING_OVER" /\ failed' = failed \union {task[t].provider}
    /\ Release(t, "select")
    /\ UNCHANGED <<started, failover, cancelled>>

SeedRefused(t) ==
    /\ Ready(fresh)
    /\ task[t].pc = "starting" /\ ~aborted
    /\ IF t = "main" THEN phase' = "ACTIVE" /\ UNCHANGED failed
       ELSE phase' = "FAILING_OVER" /\ failed' = failed \union {task[t].provider}
    /\ truth' = FALSE /\ seeded' = FALSE /\ aborted' = FALSE /\ running' = FALSE
    /\ gen' = gen + 1 /\ active' = "none" /\ held' = {}
    /\ Forget
    /\ task' = [task EXCEPT ![t].pc = "halt", ![t].halting = held, ![t].after = "select"]
    /\ UNCHANGED <<started, up, owes, failover, cancelled>>

\* The next client is down: the stream first, then the one that polls.
Halts(t) ==
    /\ task[t].pc = "halt"
    /\ \E c \in task[t].halting :
          /\ c.kind = "stream" \/ \A d \in task[t].halting : d.kind # "stream"
          /\ task' = [task EXCEPT ![t].halting = @ \ {c}]
          /\ up' = up \ {c} /\ owes' = owes \ {c}
    /\ UNCHANGED <<phase, started, running, gen, active, truth, seeded, aborted, failed,
                   data, held, failover, cancelled>>

Goes_Early(t) ==
    /\ task[t].pc = "halt" /\ task[t].after = "select"
    /\ failed' = IF t = "main" THEN failed \union {task[t].provider} ELSE failed
    /\ Reselect(t, failed', IF t = "main" THEN "serve" ELSE "done")
    /\ UNCHANGED <<started, failover, cancelled>>

Goes(t) ==
    /\ task[t].pc = "halt" /\ task[t].after = "select" /\ task[t].halting = {}
    /\ failed' = IF t = "main" THEN failed \union {task[t].provider} ELSE failed
    /\ Reselect(t, failed', IF t = "main" THEN "serve" ELSE "done")
    /\ UNCHANGED <<started, failover, cancelled>>

\* _perform_failover, when its task first runs.
FailsOver(t) ==
    /\ t # "main" /\ task[t].pc = "begin"
    /\ phase' = "FAILING_OVER"
    /\ Release(t, "select")
    /\ UNCHANGED <<started, failed, failover, cancelled>>

-----------------------------------------------------------------------------
\* _on_transport_truth with the failure of a client or of the protected data:
\* the provider is lost for the rest of the run.
Spawns_Again == started /\ phase = "ACTIVE"
Spawns == started /\ phase = "ACTIVE" /\ (failover = "none" \/ task[failover].pc = "done")
Lost ==
    /\ failed' = failed \union {active}
    /\ truth' = FALSE
    /\ aborted' = (aborted \/ phase = "ACTIVATING")
    /\ IF Spawns
         THEN \E t \in Failover :
                 /\ task[t].pc = "done"
                 /\ failover' = t
                 /\ task' = [task EXCEPT ![t].pc = "begin", ![t].provider = active]
         ELSE UNCHANGED <<task, failover>>
    /\ UNCHANGED <<phase, started, running, gen, active, seeded, data, held, up, cancelled>>

Reports(c) ==
    /\ Alive
    /\ c \in up
    /\ owes' = owes \ {c}
    /\ IF Current(c) THEN Lost
       ELSE UNCHANGED <<phase, started, running, gen, active, truth, seeded, aborted, failed,
                        data, held, up, tasks>>

\* _check_transport_health_once: a book or a candle is too old.
FindsStale ==
    /\ Alive
    /\ started /\ phase = "ACTIVE" /\ truth /\ active # "none"
    /\ ~Ready(fresh)
    /\ Lost
    /\ UNCHANGED owes

Lapses(i) ==
    /\ i \in fresh
    /\ fresh' = fresh \ {i}
    /\ UNCHANGED <<phase, started, running, gen, active, truth, seeded, aborted, failed,
                   source, clients, tasks>>

\* _on_transport_candle and _on_transport_order_book of a protected symbol.
\* The consumers see the value once they were seeded, and are seeded by the
\* value that completes the data; the validator may refuse the value and a
\* consumer what it sees, and the client then reports it.
Accepts(c, i) ==
    /\ Current(c)
    /\ source' = [source EXCEPT ![i] = gen] /\ fresh' = fresh \union {i}
    /\ seeded' = (seeded \/ (truth /\ ~Ready(fresh) /\ Ready(fresh')))
    /\ UNCHANGED <<running, truth, owes>>

Refuses(c, i) ==
    /\ Current(c)
    /\ \/ UNCHANGED data
       \/ /\ truth
          /\ source' = [source EXCEPT ![i] = gen] /\ fresh' = fresh \union {i}
          /\ seeded \/ (~Ready(fresh) /\ Ready(fresh'))
    /\ Revoke
    /\ owes' = owes \union {c}

Delivers(c, i) ==
    /\ Alive
    /\ c \in up /\ c.kind # "breadth"
    /\ Accepts(c, i) \/ Refuses(c, i)
    /\ UNCHANGED <<phase, started, gen, active, aborted, failed, held, up, tasks>>

\* _on_transport_trade and _on_transport_quote: only a refusal has an effect.
RefusesTrade(c) ==
    /\ Alive
    /\ c \in up /\ c.kind = "stream" /\ Current(c)
    /\ truth /\ seeded
    /\ Revoke
    /\ owes' = owes \union {c}
    /\ UNCHANGED <<phase, started, gen, active, aborted, failed, data, held, up, tasks>>

-----------------------------------------------------------------------------
\* The operator, a limit or another part of the program ends the run.
EndsRun ==
    /\ running
    /\ running' = FALSE
    /\ UNCHANGED <<phase, started, gen, active, truth, seeded, aborted, failed, data, clients, tasks>>

\* A cancellation that arrives while stop waits for the poll task of a polling
\* client is taken by that stop for its own and is lost.  Halts takes a client
\* out of halting once its poll task has ended: a cancellation that meets the
\* closing of its session, after that, is raised and not lost.
Swallows(t) ==
    /\ task[t].pc = "halt" /\ task[t].halting # {}
    /\ \A c \in task[t].halting : c.kind # "stream"

\* stop, up to the wait for the failover it cancels
Stops ==
    /\ started' = FALSE /\ truth' = FALSE /\ phase' = "STOPPING"
    /\ task' = [t \in Task |->
                   IF t = "main" THEN [Quiet EXCEPT !.pc = "gather"]
                   ELSE IF t = failover /\ ~Swallows(t) THEN Quiet ELSE task[t]]
    /\ UNCHANGED <<running, gen, active, seeded, aborted, failed, data, held, failover>>

\* main leaves its wait and stops the feeds
Leaves ==
    /\ task["main"].pc = "serve" /\ ~running
    /\ Stops
    /\ UNCHANGED <<up, owes, cancelled>>

\* main ends; the event loop closes and takes every other task with it.
Closes ==
    /\ task' = [t \in Task |-> Quiet]
    /\ up' = {} /\ owes' = {}
    /\ UNCHANGED <<started, running, gen, active, truth, seeded, aborted, failed, data, failover>>

\* The owner cancels main, once.  In start, and in the wait, main goes on to
\* stop; in stop it gives up, and the event loop closes.
Cancels ==
    /\ Alive /\ ~running /\ ~cancelled /\ task["main"].pc # "begin"
    /\ cancelled' = TRUE
    /\ \/ Swallows("main") /\ UNCHANGED <<phase, started, running, gen, active, truth, seeded,
                                          aborted, failed, data, clients, task, failover>>
       \/ /\ ~Swallows("main")
          /\ task["main"].pc \in {"starting", "serve"} \/ task["main"].after = "select"
          /\ Stops
          /\ up' = {c \in up : c \notin task["main"].halting \/ c.kind # "stream"}
          /\ owes' = owes \intersect up'
       \/ /\ ~Swallows("main")
          /\ task["main"].pc = "gather" \/ task["main"].after = "stopped"
          /\ Closes
          /\ UNCHANGED <<phase, held>>

\* stop goes on once the failover it cancelled has ended
Gathers_None ==
    /\ task["main"].pc = "gather"
    /\ failover = "none"
    /\ Release("main", "stopped")
    /\ UNCHANGED <<phase, started, failed, failover, cancelled>>

Gathers ==
    /\ task["main"].pc = "gather"
    /\ failover # "none" => task[failover].pc = "done"
    /\ Release("main", "stopped")
    /\ UNCHANGED <<phase, started, failed, failover, cancelled>>

Stopped ==
    /\ task["main"].pc = "halt" /\ task["main"].after = "stopped" /\ task["main"].halting = {}
    /\ phase' = "STOPPED"
    /\ Closes
    /\ UNCHANGED <<held, cancelled>>

Steps(t) ==
    \/ Succeeds(t) \/ Raises(t) \/ SeedRefused(t)
    \/ Halts(t) \/ Goes(t) \/ FailsOver(t)
Main == Start \/ Leaves \/ Gathers \/ Stopped
Next ==
    \/ Main
    \/ \E t \in Task : Steps(t)
    \/ \E c \in up : Reports(c) \/ RefusesTrade(c) \/ \E i \in Item : Delivers(c, i)
    \/ \E i \in Item : Lapses(i)
    \/ FindsStale \/ EndsRun \/ Cancels

Spec == Init /\ [][Next]_vars

\* The event loop runs every task that is ready: a client starts or does not,
\* stops, and reports the value that was refused; the health check comes back
\* every second.
FairSpec ==
    /\ Spec
    /\ WF_vars(Main) /\ WF_vars(FindsStale)
    /\ \A t \in Task : WF_vars(Steps(t))
    /\ WF_vars(\E c \in owes : Reports(c))

-----------------------------------------------------------------------------
\* Every stored item was delivered by the active transport: a switch leaves
\* nothing of the old one, and a callback of an old client stores nothing.
CurrentData == \A i \in Item : source[i] \in {0, gen}

\* Executable truth has a transport behind it: the active provider did not
\* fail and its clients run.
TruthIsBacked ==
    truth /\ Alive => /\ phase = "ACTIVE" /\ active \in Provider \ failed
                      /\ held = Clients(gen, active) /\ held \subseteq up

\* Only one task activates, stops clients or selects at a time, and none does
\* while the transport is executable.
Busy == {t \in Task : task[t].pc \in {"begin", "starting", "halt"}}
SoleActivator == (\A t, u \in Busy : t = u) /\ (truth => Busy = {})

\* No client of an older activation runs when a client starts.
NoOverlap == [][\A c \in up' \ up, d \in up : d.gen = c.gen]_vars

\* A transport that was lost is replaced, or the run ends.
LossIsResolved == (phase = "ACTIVE" /\ ~truth) ~> (truth \/ ~Alive)

\* When the run ends, so do the feeds: stop waits for nothing that does not come.
RunEnds == ~running ~> ~Alive
=============================================================================
