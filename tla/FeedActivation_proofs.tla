------------------------- MODULE FeedActivation_proofs -------------------------
(***************************************************************************)
(* What FeedActivation guarantees for every list of configured providers,  *)
(* every set of protected items and every number of failover tasks.        *)
(***************************************************************************)
EXTENDS FeedActivation, TLAPS

-----------------------------------------------------------------------------
(* The inductive invariant: what ties a client that runs to the task that  *)
(* is to stop it, and a task to the state of the transport.                *)

Pc(t) == task[t].pc

\* what is held is what the active transport started, and nothing is stored
\* while none is active
HeldOfActive ==
    /\ active = "none" => held = {} /\ \A i \in Item : source[i] = 0
    /\ active # "none" => held = Clients(gen, active)

\* no client of the active transport is stopped while the event loop runs
HeldRuns == Alive => held \subseteq up

\* a task stops clients of an older generation, nothing is active then, and a
\* task that activates or is about to has a provider to give up
TaskShape ==
    \A t \in Task :
        /\ Pc(t) # "halt" => task[t].halting = {} /\ task[t].after = "none"
        /\ Pc(t) = "halt" => task[t].after \in {"select", "stopped"} /\ active = "none"
        /\ \A c \in task[t].halting : c.gen < gen
        /\ (\/ Pc(t) = "starting" \/ task[t].after = "select"
            \/ t # "main" /\ Pc(t) = "begin") => task[t].provider \in Provider

\* only the task in _failover_task is under way
FailoverKnown ==
    \A t \in Failover :
        /\ Pc(t) \in {"begin", "starting", "halt", "done"} /\ task[t].after # "stopped"
        /\ Pc(t) # "done" => t = failover

\* the way of main through start, the wait and stop
MainKnows ==
    /\ Pc("main") = "begin" => active = "none" /\ up = {}
    /\ Pc("main") = "starting" \/ task["main"].after = "select" => started
    /\ Pc("main") \in {"begin", "gather"} \/ task["main"].after = "stopped" => ~started
    /\ ~Alive => \A t \in Task : Pc(t) = "done"

\* an activation whose provider was lost meanwhile is marked
StartingKnows ==
    \A t \in Task : Pc(t) = "starting" =>
        phase = "ACTIVATING" /\ active # "none" /\ (active \in failed => aborted)

TruthKnows == truth => phase = "ACTIVE" /\ active \in Provider \ failed

\* a loss is reported while nobody is busy, or but for the failover it started
LossAlone ==
    started /\ phase = "ACTIVE" /\ active # "none" =>
        \A t \in Busy : t = failover /\ Pc(t) = "begin"

\* as long as a transport may be started, every client that runs is held or
\* about to be stopped
NoneLeaks ==
    started \/ (\E t \in Failover : Pc(t) # "done") =>
        \A c \in up : c \in held \/ \E t \in Task : c \in task[t].halting

IInv ==
    /\ TypeOK /\ HeldOfActive /\ HeldRuns /\ TaskShape /\ FailoverKnown /\ MainKnows
    /\ StartingKnows /\ TruthKnows /\ SoleActivator /\ LossAlone /\ NoneLeaks

-----------------------------------------------------------------------------
(* Facts about the operators of the model.                                 *)

TaskState == [pc : {"begin", "starting", "halt", "serve", "gather", "done"},
              provider : Provider \union {"none"}, halting : SUBSET Client,
              after : {"none", "select", "stopped"}]

LEMMA ClientsFacts ==
    ASSUME NEW g \in Nat, NEW p \in Provider
    PROVE  /\ Clients(g, p) \subseteq Client
           /\ \A c \in Clients(g, p) : c.gen = g
BY DEF Clients, Client, Provider

\* A selected provider is configured and did not fail.
LEMMA SelectsFacts ==
    ASSUME NEW p \in Provider, NEW lost, Selects(p, lost)
    PROVE  p \notin lost
BY DEF Selects

\* The task that holds the transport up is the only one.
LEMMA OthersIdle ==
    ASSUME SoleActivator, NEW t \in Task, t \in Busy
    PROVE  /\ \A u \in Task : u # t => Pc(u) \notin {"begin", "starting", "halt"}
           /\ ~truth
BY DEF SoleActivator, Busy, Pc

\* A client whose callback counts is one of the active transport.
LEMMA CurrentHeld ==
    ASSUME IInv, NEW c \in up, Current(c)
    PROVE  active \in Provider
BY DEF IInv, TypeOK, Current, BoundTo, Provider, Client

-----------------------------------------------------------------------------
(* Taking a new selection, and letting the old clients go.                 *)

LEMMA ReselectKeeps ==
    ASSUME IInv, NEW t \in Task, t \in Busy, active = "none", up = {},
           \A u \in Task : task[u].halting = {},
           failed' \in SUBSET Provider, started' \in BOOLEAN,
           IF t = "main" THEN started' = TRUE ELSE started' = started,
           UNCHANGED <<failover, cancelled>>,
           Reselect(t, failed', IF t = "main" THEN "serve" ELSE "done")
    PROVE  IInv'
<1> DEFINE pc == IF t = "main" THEN "serve" ELSE "done"
<1> USE DEF Pc
<1>0. /\ TypeOK /\ task \in [Task -> TaskState] /\ task[t] \in TaskState
      /\ \A u \in Task : u # t => Pc(u) \notin {"begin", "starting", "halt"}
      /\ t # "main" => t = failover
      /\ \A u \in Failover : u # t => Pc(u) = "done"
  BY OthersIdle DEF IInv, TypeOK, TaskState, FailoverKnown, Busy, Task
<1>1. ASSUME NEW p \in Provider, Selects(p, failed'), Activate(t, p)
      PROVE  IInv'
  <2> DEFINE r == [Quiet EXCEPT !.pc = "starting", !.provider = p]
  <2>1. /\ task' = [task EXCEPT ![t] = r] /\ r \in TaskState
        /\ r.pc = "starting" /\ r.halting = {} /\ r.after = "none" /\ r.provider = p
    BY <1>1 DEF Activate, Quiet, TaskState
  <2> HIDE DEF r
  <2>2. \A u \in Task : task'[u] = IF u = t THEN r ELSE task[u]  BY <2>1, <1>0
  <2>3. gen + 2 \in Nat /\ gen' = gen + 2 /\ held' = Clients(gen', p)
    BY <1>0, <1>1 DEF Activate, TypeOK
  <2>4. TypeOK'
    <3>1. task' \in [Task -> TaskState]  BY <1>0, <2>1
    <3>2. held' \subseteq Client /\ up' \subseteq Client
      BY <1>0, <1>1, <2>3, ClientsFacts DEF Activate, TypeOK
    <3> QED  BY <1>0, <1>1, <2>3, <3>1, <3>2 DEF TypeOK, Activate, data, TaskState
  <2>5. HeldOfActive' /\ HeldRuns'
    BY <1>1, <2>3 DEF Activate, HeldOfActive, HeldRuns, Provider
  <2>6. TaskShape'
    BY <1>0, <2>1, <2>2 DEF TaskShape, IInv
  <2>7. FailoverKnown'
    BY <1>0, <2>1, <2>2, FailoverAssumption DEF FailoverKnown, IInv, Task
  <2>8. MainKnows'
    BY <1>0, <2>1, <2>2 DEF MainKnows, IInv, Alive, Task, Busy
  <2>9. StartingKnows' /\ TruthKnows' /\ SoleActivator' /\ LossAlone'
    BY <1>0, <1>1, <2>1, <2>2, SelectsFacts
       DEF Activate, StartingKnows, TruthKnows, SoleActivator, LossAlone, Busy, Provider
  <2>10. NoneLeaks'
    BY <1>1 DEF Activate, NoneLeaks
  <2> QED  BY <2>4, <2>5, <2>6, <2>7, <2>8, <2>9, <2>10 DEF IInv
<1>2. ASSUME FailClosed(t, pc)
      PROVE  IInv'
  <2> DEFINE r == [Quiet EXCEPT !.pc = pc]
  <2>1. /\ task' = [task EXCEPT ![t] = r] /\ r \in TaskState
        /\ r.pc = pc /\ r.halting = {} /\ r.after = "none"
    BY <1>2 DEF FailClosed, Quiet, TaskState
  <2> HIDE DEF r
  <2>2. \A u \in Task : task'[u] = IF u = t THEN r ELSE task[u]  BY <2>1, <1>0
  <2>3. TypeOK'
    <3>1. task' \in [Task -> TaskState]  BY <1>0, <2>1
    <3> QED  BY <1>0, <1>2, <3>1 DEF TypeOK, FailClosed, data, clients, TaskState
  <2>4. HeldOfActive' /\ HeldRuns'
    BY <1>2 DEF FailClosed, data, clients, HeldOfActive, HeldRuns, IInv, Provider
  <2>5. TaskShape' /\ FailoverKnown'
    <3>1. TaskShape'  BY <1>0, <1>2, <2>1, <2>2 DEF FailClosed, TaskShape, IInv
    <3>2. FailoverKnown'
      BY <1>0, <2>1, <2>2, FailoverAssumption DEF FailoverKnown, IInv, Task
    <3> QED  BY <3>1, <3>2
  <2>6. MainKnows'
    BY <1>0, <1>2, <2>1, <2>2 DEF FailClosed, clients, MainKnows, IInv, Alive, Task, Busy
  <2>7. StartingKnows' /\ TruthKnows' /\ SoleActivator' /\ LossAlone' /\ NoneLeaks'
    BY <1>0, <1>2, <2>1, <2>2
       DEF FailClosed, clients, StartingKnows, TruthKnows, SoleActivator, LossAlone, Busy, NoneLeaks
  <2> QED  BY <2>3, <2>4, <2>5, <2>6, <2>7 DEF IInv
<1> QED  BY <1>1, <1>2 DEF Reselect

\* What Release and a refused seed have in common.
LetsGo(t, after) ==
    /\ truth' = FALSE /\ seeded' = FALSE /\ aborted' = FALSE
    /\ gen' = gen + 1 /\ active' = "none" /\ held' = {}
    /\ Forget
    /\ task' = [task EXCEPT ![t].pc = "halt", ![t].halting = held, ![t].after = after]
    /\ UNCHANGED <<started, up, owes, failover, cancelled>>

LEMMA LetsGoKeeps ==
    ASSUME IInv, NEW t \in Task, NEW after \in {"select", "stopped"}, LetsGo(t, after),
           IF after = "stopped" THEN t = "main" /\ Pc(t) = "gather"
           ELSE Pc(t) = "starting" \/ (t # "main" /\ Pc(t) = "begin"),
           \A u \in Task : u # t => Pc(u) \notin {"begin", "starting", "halt"},
           phase' \in {"ACTIVATING", "ACTIVE", "FAILING_OVER", "STOPPING", phase},
           failed' \in SUBSET Provider, running' \in BOOLEAN
    PROVE  IInv'
<1> USE DEF Pc
<1> DEFINE r == [task[t] EXCEPT !.pc = "halt", !.halting = held, !.after = after]
<1>0. TypeOK /\ task \in [Task -> TaskState] /\ task[t] \in TaskState /\ held \subseteq Client
  BY DEF IInv, TypeOK, TaskState
<1>1. /\ task' = [task EXCEPT ![t] = r] /\ r \in TaskState
      /\ r.pc = "halt" /\ r.halting = held /\ r.after = after /\ r.provider = task[t].provider
  BY <1>0 DEF LetsGo, TaskState
<1> HIDE DEF r
<1>2. \A u \in Task : task'[u] = IF u = t THEN r ELSE task[u]  BY <1>0, <1>1
<1>3. gen \in Nat /\ \A c \in held : c.gen = gen
  BY <1>0, ClientsFacts DEF IInv, HeldOfActive, TypeOK
<1>4. TypeOK'
  <2>1. task' \in [Task -> TaskState]  BY <1>0, <1>1
  <2>2. source' \in [Item -> Nat] /\ fresh' \subseteq Item  BY DEF LetsGo, Forget
  <2>3. gen' \in Nat /\ active' = "none" /\ held' = {}  BY <1>3 DEF LetsGo
  <2>4. /\ truth' = FALSE /\ seeded' = FALSE /\ aborted' = FALSE
        /\ UNCHANGED <<started, up, owes, failover, cancelled>>
    BY DEF LetsGo
  <2> QED  BY <1>0, <2>1, <2>2, <2>3, <2>4 DEF TypeOK, TaskState
<1>5. HeldOfActive' /\ HeldRuns'
  BY DEF LetsGo, Forget, HeldOfActive, HeldRuns
<1>6. TaskShape'
  BY <1>0, <1>1, <1>2, <1>3 DEF LetsGo, TaskShape, IInv, TaskState
<1>7. FailoverKnown'
  BY <1>0, <1>1, <1>2 DEF LetsGo, FailoverKnown, IInv, Task
<1>8. MainKnows'
  BY <1>0, <1>1, <1>2 DEF LetsGo, MainKnows, IInv, Alive, Task
<1>9. StartingKnows' /\ TruthKnows' /\ SoleActivator' /\ LossAlone'
  BY <1>1, <1>2 DEF LetsGo, StartingKnows, TruthKnows, SoleActivator, LossAlone, Busy
<1>10. NoneLeaks'
  BY <1>1, <1>2 DEF LetsGo, NoneLeaks, TaskShape, IInv, Task
<1> QED  BY <1>4, <1>5, <1>6, <1>7, <1>8, <1>9, <1>10 DEF IInv

-----------------------------------------------------------------------------
(* One lemma for each action of a task.                                    *)

\* A task that halts, begins or has its clients up holds the transport alone.
LEMMA BusyAlone ==
    ASSUME IInv, NEW t \in Task, Pc(t) \in {"begin", "starting", "halt"}
    PROVE  /\ t \in Busy /\ ~truth
           /\ \A u \in Task : u # t => Pc(u) \notin {"begin", "starting", "halt"}
<1>1. t \in Busy  BY DEF Busy, Pc
<1> QED  BY <1>1, OthersIdle DEF IInv

LEMMA StartKeeps ==
    ASSUME IInv, Start
    PROVE  IInv'
<1>1. "main" \in Task /\ Pc("main") = "begin"  BY DEF Start, Task, Pc
<1>2. active = "none" /\ up = {}  BY <1>1 DEF IInv, MainKnows
<1>3. "main" \in Busy /\ \A u \in Task : task[u].halting = {}
  BY <1>1, BusyAlone DEF IInv, TaskShape
<1>4. failed' \in SUBSET Provider  BY DEF Start, IInv, TypeOK
<1>5. Reselect("main", failed', "serve")  BY DEF Start
<1>6. started' = TRUE /\ UNCHANGED <<failover, cancelled>>  BY DEF Start
<1> QED  BY <1>1, <1>2, <1>3, <1>4, <1>5, <1>6, ReselectKeeps

LEMMA GoesKeeps ==
    ASSUME IInv, NEW t \in Task, Goes(t)
    PROVE  IInv'
<1>1. Pc(t) = "halt" /\ task[t].after = "select" /\ task[t].halting = {}  BY DEF Goes, Pc
<1>2. t \in Busy /\ \A u \in Task : u # t => Pc(u) \notin {"begin", "starting", "halt"}
  BY <1>1, BusyAlone
<1>3. \A u \in Task : task[u].halting = {}  BY <1>1, <1>2 DEF IInv, TaskShape
<1>4. active = "none" /\ held = {}  BY <1>1 DEF IInv, TaskShape, HeldOfActive
<1>5. started \/ \E u \in Failover : Pc(u) # "done"
  BY <1>1 DEF IInv, MainKnows, Task
<1>6. up = {}  BY <1>3, <1>4, <1>5 DEF IInv, NoneLeaks
<1>7. failed' \in SUBSET Provider  BY <1>1 DEF Goes, IInv, TypeOK, TaskShape
<1>8. IF t = "main" THEN started' = TRUE ELSE started' = started
  BY <1>1 DEF Goes, IInv, MainKnows, TypeOK
<1>9. Reselect(t, failed', IF t = "main" THEN "serve" ELSE "done")  BY DEF Goes
<1>10. UNCHANGED <<failover, cancelled>> /\ started' \in BOOLEAN
  BY DEF Goes, IInv, TypeOK
<1> QED  BY <1>2, <1>3, <1>4, <1>6, <1>7, <1>8, <1>9, <1>10, ReselectKeeps

LEMMA FailsOverKeeps ==
    ASSUME IInv, NEW t \in Task, FailsOver(t)
    PROVE  IInv'
<1>1. t # "main" /\ Pc(t) = "begin"  BY DEF FailsOver, Pc
<1>2. \A u \in Task : u # t => Pc(u) \notin {"begin", "starting", "halt"}  BY <1>1, BusyAlone
<1>3. LetsGo(t, "select") /\ phase' = "FAILING_OVER" /\ failed' = failed /\ running' = running
  BY DEF FailsOver, Release, LetsGo
<1>4. failed' \in SUBSET Provider /\ running' \in BOOLEAN  BY <1>3 DEF IInv, TypeOK
<1> QED  BY <1>1, <1>2, <1>3, <1>4, LetsGoKeeps

LEMMA RaisesKeeps ==
    ASSUME IInv, NEW t \in Task, Raises(t) \/ SeedRefused(t)
    PROVE  IInv'
<1>1. Pc(t) = "starting"  BY DEF Raises, SeedRefused, Pc
<1>2. \A u \in Task : u # t => Pc(u) \notin {"begin", "starting", "halt"}  BY <1>1, BusyAlone
<1>3. LetsGo(t, "select")  BY DEF Raises, SeedRefused, Release, LetsGo
<1>4. phase' \in {"ACTIVE", "FAILING_OVER", phase}  BY DEF Raises, SeedRefused
<1>5. failed' \in SUBSET Provider
  <2>1. task[t].provider \in Provider  BY <1>1 DEF IInv, TaskShape
  <2>2. failed' = failed \/ failed' = failed \union {task[t].provider}
    BY DEF Raises, SeedRefused
  <2> QED  BY <2>1, <2>2 DEF IInv, TypeOK
<1>6. running' \in BOOLEAN  BY DEF Raises, SeedRefused, Release, IInv, TypeOK
<1> QED  BY <1>1, <1>2, <1>3, <1>4, <1>5, <1>6, LetsGoKeeps

LEMMA GathersKeeps ==
    ASSUME IInv, Gathers
    PROVE  IInv'
<1>1. "main" \in Task /\ Pc("main") = "gather"  BY DEF Gathers, Task, Pc
<1>2. \A u \in Task : u # "main" => Pc(u) = "done"
  BY FailoverAssumption DEF Gathers, Pc, IInv, FailoverKnown, Task
<1>3. LetsGo("main", "stopped") /\ UNCHANGED <<phase, failed, running>>
  BY DEF Gathers, Release, LetsGo
<1>4. failed' \in SUBSET Provider /\ running' \in BOOLEAN  BY <1>3 DEF IInv, TypeOK
<1> QED  BY <1>1, <1>2, <1>3, <1>4, LetsGoKeeps

LEMMA SucceedsKeeps ==
    ASSUME IInv, NEW t \in Task, Succeeds(t)
    PROVE  IInv'
<1> USE DEF Pc
<1> DEFINE r == [Quiet EXCEPT !.pc = IF t = "main" THEN "serve" ELSE "done"]
<1>0. /\ TypeOK /\ task \in [Task -> TaskState] /\ Pc(t) = "starting"
      /\ \A u \in Task : u # t => Pc(u) \notin {"begin", "starting", "halt"}
  BY BusyAlone DEF IInv, TypeOK, TaskState, Succeeds
<1>1. /\ task' = [task EXCEPT ![t] = r] /\ r \in TaskState
      /\ r.pc = IF t = "main" THEN "serve" ELSE "done"
      /\ r.halting = {} /\ r.after = "none"
  BY DEF Succeeds, Quiet, TaskState
<1> HIDE DEF r
<1>2. \A u \in Task : task'[u] = IF u = t THEN r ELSE task[u]  BY <1>0, <1>1
<1>3. /\ truth' = TRUE /\ phase' = "ACTIVE" /\ seeded' \in BOOLEAN /\ ~aborted
      /\ UNCHANGED <<started, running, gen, active, aborted, failed, data, clients,
                     failover, cancelled>>
  BY DEF Succeeds, Ready
<1>4. TypeOK'
  <2>1. task' \in [Task -> TaskState]  BY <1>0, <1>1
  <2> QED  BY <1>0, <1>3, <2>1 DEF TypeOK, TaskState, data, clients
<1>5. HeldOfActive' /\ HeldRuns'
  BY <1>0, <1>1, <1>2, <1>3 DEF HeldOfActive, HeldRuns, IInv, data, clients, Alive, Task
<1>6. TaskShape'
  BY <1>0, <1>1, <1>2, <1>3 DEF TaskShape, IInv
<1>7. FailoverKnown'
  BY <1>0, <1>1, <1>2, <1>3, FailoverAssumption DEF FailoverKnown, IInv, Task
<1>8. MainKnows'
  BY <1>0, <1>1, <1>2, <1>3 DEF MainKnows, IInv, Alive, Task
<1>9. TruthKnows'
  BY <1>0, <1>3 DEF TruthKnows, StartingKnows, IInv, TypeOK
<1>10. StartingKnows' /\ SoleActivator' /\ LossAlone'
  BY <1>0, <1>1, <1>2 DEF StartingKnows, SoleActivator, LossAlone, Busy
<1>11. NoneLeaks'
  BY <1>0, <1>1, <1>2, <1>3 DEF NoneLeaks, TaskShape, IInv, Task, clients
<1> QED  BY <1>4, <1>5, <1>6, <1>7, <1>8, <1>9, <1>10, <1>11 DEF IInv

LEMMA HaltsKeeps ==
    ASSUME IInv, NEW t \in Task, Halts(t)
    PROVE  IInv'
<1> USE DEF Pc
<1>1. PICK c \in task[t].halting :
         /\ task' = [task EXCEPT ![t].halting = @ \ {c}]
         /\ up' = up \ {c} /\ owes' = owes \ {c}
  BY DEF Halts
<1>0. /\ TypeOK /\ task \in [Task -> TaskState] /\ Pc(t) = "halt" /\ active = "none"
      /\ held = {} /\ ~truth
      /\ \A u \in Task : u # t => Pc(u) \notin {"begin", "starting", "halt"}
  BY BusyAlone DEF IInv, TypeOK, TaskState, Halts, TaskShape, HeldOfActive
<1>2. \A u \in Task : /\ task'[u].pc = task[u].pc /\ task'[u].after = task[u].after
                      /\ task'[u].provider = task[u].provider
                      /\ task'[u].halting = IF u = t THEN task[t].halting \ {c}
                                            ELSE task[u].halting
  BY <1>0, <1>1 DEF TaskState
<1>3. UNCHANGED <<phase, started, running, gen, active, truth, seeded, aborted, failed,
                  data, held, failover, cancelled>>
  BY DEF Halts
<1>4. TypeOK'
  <2>1. task' \in [Task -> TaskState]  BY <1>0, <1>1 DEF TaskState
  <2> QED  BY <1>0, <1>1, <1>3, <2>1 DEF TypeOK, TaskState, data
<1>5. HeldOfActive' /\ HeldRuns'
  BY <1>0, <1>3 DEF HeldOfActive, HeldRuns, IInv, data
<1>6. TaskShape'
  BY <1>0, <1>2, <1>3 DEF TaskShape, IInv
<1>7. FailoverKnown'
  BY <1>2, <1>3 DEF FailoverKnown, IInv, Task
<1>8. MainKnows'
  BY <1>1, <1>2, <1>3 DEF MainKnows, IInv, Alive, Task
<1>9. StartingKnows' /\ TruthKnows' /\ SoleActivator' /\ LossAlone'
  BY <1>0, <1>2, <1>3 DEF StartingKnows, TruthKnows, SoleActivator, LossAlone, Busy, IInv
<1>10. NoneLeaks'
  BY <1>0, <1>1, <1>2, <1>3 DEF NoneLeaks, IInv, Task
<1> QED  BY <1>4, <1>5, <1>6, <1>7, <1>8, <1>9, <1>10 DEF IInv

-----------------------------------------------------------------------------
(* What the clients and the health check bring.                            *)

LEMMA LostKeeps ==
    ASSUME IInv, Alive, active \in Provider, Lost, owes' \in SUBSET Client
    PROVE  IInv'
<1> USE DEF Pc
<1>1. /\ failed' = failed \union {active} /\ truth' = FALSE
      /\ aborted' = (aborted \/ phase = "ACTIVATING")
      /\ UNCHANGED <<phase, started, running, gen, active, seeded, data, held, up, cancelled>>
  BY DEF Lost
<1>2. TypeOK /\ task \in [Task -> TaskState]  BY DEF IInv, TypeOK, TaskState
<1>3. CASE UNCHANGED <<task, failover>>
  <2>1. TypeOK'
    BY <1>1, <1>2, <1>3 DEF TypeOK, data
  <2>2. HeldOfActive' /\ HeldRuns' /\ TaskShape' /\ FailoverKnown' /\ MainKnows'
    BY <1>1, <1>3
       DEF IInv, HeldOfActive, HeldRuns, TaskShape, FailoverKnown, MainKnows, Alive, data
  <2>3. StartingKnows' /\ TruthKnows' /\ SoleActivator' /\ LossAlone' /\ NoneLeaks'
    BY <1>1, <1>3
       DEF IInv, StartingKnows, TruthKnows, SoleActivator, LossAlone, NoneLeaks, Busy
  <2> QED  BY <2>1, <2>2, <2>3 DEF IInv
<1>4. ASSUME Spawns, NEW t \in Failover, task[t].pc = "done", failover' = t,
             task' = [task EXCEPT ![t].pc = "begin", ![t].provider = active]
      PROVE  IInv'
  <2>1. /\ t \in Task /\ t # "main" /\ active # "none"
        /\ started /\ phase = "ACTIVE" /\ (failover = "none" \/ Pc(failover) = "done")
    BY <1>4, FailoverAssumption DEF Task, Spawns, Provider
  <2>2. \A u \in Task : Pc(u) \notin {"begin", "starting", "halt"}
    BY <2>1, FailoverAssumption DEF IInv, LossAlone, Busy, Task
  <2>3. \A u \in Failover : Pc(u) = "done"
    BY <2>1, FailoverAssumption DEF IInv, FailoverKnown
  <2>4. \A u \in Task :
            /\ task'[u].pc = IF u = t THEN "begin" ELSE task[u].pc
            /\ task'[u].provider = IF u = t THEN active ELSE task[u].provider
            /\ task'[u].halting = task[u].halting /\ task'[u].after = task[u].after
    BY <1>2, <1>4 DEF TaskState
  <2>5. TypeOK'
    <3>1. task' \in [Task -> TaskState]  BY <1>2, <1>4, <2>1 DEF TaskState
    <3> QED  BY <1>1, <1>2, <1>4, <3>1 DEF TypeOK, TaskState, data
  <2>6. HeldOfActive' /\ HeldRuns' /\ TaskShape'
    BY <1>1, <2>1, <2>2, <2>3, <2>4 DEF IInv, HeldOfActive, HeldRuns, TaskShape, Alive, data
  <2>7. FailoverKnown' /\ MainKnows'
    BY <1>1, <1>4, <2>1, <2>2, <2>3, <2>4 DEF IInv, FailoverKnown, MainKnows, Alive, Task
  <2>8. StartingKnows' /\ TruthKnows' /\ SoleActivator' /\ LossAlone'
    <3>1. \A u \in Busy' : u = t /\ task'[u].pc = "begin"  BY <2>2, <2>4 DEF Busy
    <3>2. StartingKnows' /\ TruthKnows'  BY <1>1, <2>2, <2>4 DEF StartingKnows, TruthKnows
    <3>3. SoleActivator' /\ LossAlone'  BY <1>1, <1>4, <3>1 DEF SoleActivator, LossAlone
    <3> QED  BY <3>2, <3>3
  <2>9. NoneLeaks'
    BY <1>1, <2>1, <2>4 DEF IInv, NoneLeaks
  <2> QED  BY <2>5, <2>6, <2>7, <2>8, <2>9 DEF IInv
<1> QED  BY <1>3, <1>4 DEF Lost

LEMMA UnchangedKeeps ==
    ASSUME IInv, TypeOK', UNCHANGED <<phase, started, gen, active, aborted, failed, held, up, tasks>>,
           truth' => truth, active = "none" => source' = source
    PROVE  IInv'
<1> USE DEF Pc, tasks
<1>1. HeldOfActive' /\ HeldRuns' /\ TaskShape' /\ FailoverKnown' /\ MainKnows'
  BY DEF IInv, HeldOfActive, HeldRuns, TaskShape, FailoverKnown, MainKnows, Alive
<1>2. StartingKnows' /\ TruthKnows' /\ SoleActivator' /\ LossAlone' /\ NoneLeaks'
  BY DEF IInv, StartingKnows, TruthKnows, SoleActivator, LossAlone, NoneLeaks, Busy
<1> QED  BY <1>1, <1>2 DEF IInv

LEMMA ReportsKeeps ==
    ASSUME IInv, NEW c \in up, Reports(c)
    PROVE  IInv'
<1>1. owes' \in SUBSET Client  BY DEF Reports, IInv, TypeOK
<1>2. CASE Current(c)
  <2>1. active \in Provider  BY <1>2, CurrentHeld
  <2> QED  BY <1>1, <1>2, <2>1, LostKeeps DEF Reports
<1>3. CASE ~Current(c)
  <2>1. UNCHANGED <<phase, started, running, gen, active, truth, seeded, aborted, failed,
                    data, held, up, tasks>>
    BY <1>3 DEF Reports
  <2>2. TypeOK'  BY <1>1, <2>1 DEF IInv, TypeOK, data, tasks
  <2> QED  BY <2>1, <2>2, UnchangedKeeps DEF data
<1> QED  BY <1>2, <1>3

LEMMA FindsStaleKeeps ==
    ASSUME IInv, FindsStale
    PROVE  IInv'
<1>1. owes' \in SUBSET Client  BY DEF FindsStale, IInv, TypeOK
<1>2. active \in Provider  BY DEF FindsStale, IInv, TypeOK
<1> QED  BY <1>1, <1>2, LostKeeps DEF FindsStale

LEMMA DeliversKeeps ==
    ASSUME IInv, NEW c \in up, NEW i \in Item, Delivers(c, i)
    PROVE  IInv'
<1>1. Current(c)  BY DEF Delivers, Accepts, Refuses
<1>2. active # "none"  BY <1>1, CurrentHeld DEF Provider
<1>3. UNCHANGED <<phase, started, gen, active, aborted, failed, held, up, tasks>>
  BY DEF Delivers
<1>4. /\ truth' \in BOOLEAN /\ running' \in BOOLEAN /\ seeded' \in BOOLEAN
      /\ (truth' => truth) /\ owes' \subseteq Client
  <2>1. CASE Accepts(c, i)  BY <2>1 DEF Accepts, IInv, TypeOK, Ready
  <2>2. CASE Refuses(c, i)  BY <2>2 DEF Refuses, Revoke, IInv, TypeOK
  <2> QED  BY <2>1, <2>2 DEF Delivers
<1>5. source' \in [Item -> Nat] /\ fresh' \subseteq Item
  <2>1. \/ UNCHANGED data
        \/ source' = [source EXCEPT ![i] = gen] /\ fresh' = fresh \union {i}
    BY DEF Delivers, Accepts, Refuses
  <2> QED  BY <2>1 DEF IInv, TypeOK, data
<1>6. TypeOK'  BY <1>3, <1>4, <1>5 DEF IInv, TypeOK, tasks
<1> QED  BY <1>2, <1>3, <1>4, <1>6, UnchangedKeeps

LEMMA RefusesTradeKeeps ==
    ASSUME IInv, NEW c \in up, RefusesTrade(c)
    PROVE  IInv'
<1>1. TypeOK'  BY DEF RefusesTrade, Revoke, IInv, TypeOK, data, tasks
<1> QED  BY <1>1, UnchangedKeeps DEF RefusesTrade, Revoke, data

LEMMA LapsesKeeps ==
    ASSUME IInv, NEW i \in Item, Lapses(i)
    PROVE  IInv'
<1>1. TypeOK'  BY DEF Lapses, IInv, TypeOK, clients, tasks
<1> QED  BY <1>1, UnchangedKeeps DEF Lapses, clients

LEMMA EndsRunKeeps ==
    ASSUME IInv, EndsRun
    PROVE  IInv'
<1>1. TypeOK'  BY DEF EndsRun, IInv, TypeOK, data, clients, tasks
<1> QED  BY <1>1, UnchangedKeeps DEF EndsRun, data, clients

-----------------------------------------------------------------------------
(* How the feeds stop.                                                     *)

LEMMA StopsKeeps ==
    ASSUME IInv, Stops, Alive, cancelled' \in BOOLEAN, owes' \subseteq Client,
           Pc("main") \in {"starting", "serve", "halt"},
           Pc("main") = "halt" => task["main"].after = "select",
           IF Pc("main") = "serve" THEN up' = up
           ELSE up' = {c \in up : c \notin task["main"].halting \/ c.kind # "stream"}
    PROVE  IInv'
<1> USE DEF Pc
<1>0. /\ TypeOK /\ task \in [Task -> TaskState] /\ "main" \in Task
      /\ \A u \in Failover : u # failover => Pc(u) = "done"
  BY DEF IInv, TypeOK, TaskState, Task, FailoverKnown
<1>1. /\ started' = FALSE /\ truth' = FALSE /\ phase' = "STOPPING"
      /\ UNCHANGED <<running, gen, active, seeded, aborted, failed, data, held, failover>>
  BY DEF Stops
<1> DEFINE r == [Quiet EXCEPT !.pc = "gather"]
<1>2. /\ r \in TaskState /\ r.pc = "gather" /\ r.halting = {} /\ r.after = "none"
      /\ Quiet \in TaskState /\ Quiet.pc = "done" /\ Quiet.halting = {} /\ Quiet.after = "none"
  BY DEF Quiet, TaskState
<1>3. task' = [t \in Task |-> IF t = "main" THEN r
                              ELSE IF t = failover /\ ~Swallows(t) THEN Quiet ELSE task[t]]
  BY DEF Stops
<1> HIDE DEF r
<1>4. \A u \in Failover : task'[u] = Quiet \/ (task'[u] = task[u] /\ (Pc(u) = "done" \/ Swallows(u)))
  <2> SUFFICES ASSUME NEW u \in Failover
               PROVE  task'[u] = Quiet \/ (task'[u] = task[u] /\ (Pc(u) = "done" \/ Swallows(u)))
    OBVIOUS
  <2>1. u \in Task /\ u # "main"  BY FailoverAssumption DEF Task
  <2>2. task'[u] = IF u = failover /\ ~Swallows(u) THEN Quiet ELSE task[u]  BY <1>3, <2>1
  <2>3. u # failover => Pc(u) = "done"  BY <1>0
  <2> QED  BY <2>2, <2>3
<1>5. task'["main"] = r  BY <1>0, <1>3
<1>6. \A u \in Failover : task'[u].pc \in {"halt", "done"}
  BY <1>2, <1>4 DEF Swallows
<1>7. TypeOK'
  <2>1. task' \in [Task -> TaskState]  BY <1>0, <1>2, <1>3
  <2>2. up' \subseteq Client  BY <1>0 DEF TypeOK
  <2> QED  BY <1>0, <1>1, <2>1, <2>2 DEF TypeOK, TaskState, data
<1>8. HeldOfActive'  BY <1>1 DEF HeldOfActive, IInv, data
<1>9. HeldRuns'
  <2>1. \A c \in task["main"].halting : c.gen < gen  BY <1>0 DEF IInv, TaskShape
  <2>2. \A c \in held : c.gen = gen
    BY <1>0, ClientsFacts DEF IInv, HeldOfActive, TypeOK
  <2>3. \A c \in held : c \notin task["main"].halting  BY <2>1, <2>2, <1>0 DEF TypeOK
  <2>4. held \subseteq up  BY DEF IInv, HeldRuns
  <2> QED  BY <2>3, <2>4, <1>1 DEF HeldRuns
<1>10. TaskShape'
  BY <1>1, <1>2, <1>4, <1>5 DEF TaskShape, IInv, Task
<1>11. FailoverKnown'
  BY <1>0, <1>1, <1>2, <1>4, <1>6 DEF FailoverKnown, IInv
<1>12. MainKnows'
  BY <1>1, <1>2, <1>5 DEF MainKnows, Alive
<1>13. StartingKnows' /\ TruthKnows' /\ LossAlone'
  BY <1>1, <1>2, <1>5, <1>6 DEF StartingKnows, TruthKnows, LossAlone, Task
<1>14. SoleActivator'
  BY <1>0, <1>1, <1>2, <1>4, <1>5, <1>6 DEF SoleActivator, Busy, Task
<1>15. NoneLeaks'
  <2>1. ASSUME NEW u \in Failover, task'[u].pc # "done"
        PROVE  \A c \in up' : c \in held \/ \E t \in Task : c \in task'[t].halting
    <3>1. task'[u] = task[u] /\ Pc(u) = "halt" /\ u \in Task /\ u # "main"
      BY <2>1, <1>2, <1>4, <1>6, FailoverAssumption DEF Task
    <3>2. Pc("main") = "serve" /\ \A t \in Task : t # u => task[t].halting = {}
      BY <1>0, <3>1, BusyAlone DEF IInv, TaskShape
    <3>3. \A c \in up : c \in held \/ c \in task[u].halting
      BY <3>1, <3>2 DEF IInv, NoneLeaks
    <3> QED  BY <3>1, <3>2, <3>3
  <2> QED  BY <2>1, <1>1 DEF NoneLeaks
<1> QED  BY <1>7, <1>8, <1>9, <1>10, <1>11, <1>12, <1>13, <1>14, <1>15 DEF IInv

LEMMA LeavesKeeps ==
    ASSUME IInv, Leaves
    PROVE  IInv'
<1>1. Pc("main") = "serve" /\ Alive  BY DEF Leaves, Pc, Alive
<1>2. UNCHANGED <<up, owes, cancelled>> /\ Stops  BY DEF Leaves
<1>3. cancelled' \in BOOLEAN /\ owes' \subseteq Client  BY <1>2 DEF IInv, TypeOK
<1> QED  BY <1>1, <1>2, <1>3, StopsKeeps

LEMMA ClosesKeeps ==
    ASSUME IInv, Closes, cancelled' \in BOOLEAN, UNCHANGED held,
           phase' = phase \/ (phase' = "STOPPED" /\ ~truth)
    PROVE  IInv'
<1> USE DEF Pc
<1>1. /\ task' = [t \in Task |-> Quiet] /\ up' = {} /\ owes' = {}
      /\ UNCHANGED <<started, running, gen, active, truth, seeded, aborted, failed, data, failover>>
  BY DEF Closes
<1>2. /\ Quiet \in TaskState /\ Quiet.pc = "done" /\ Quiet.halting = {} /\ Quiet.after = "none"
      /\ "main" \in Task
  BY DEF Quiet, TaskState, Task
<1>3. \A t \in Task : task'[t] = Quiet  BY <1>1
<1>4. TypeOK'
  <2>1. task' \in [Task -> TaskState]  BY <1>1, <1>2
  <2> QED  BY <1>1, <2>1 DEF IInv, TypeOK, TaskState, data
<1>5. HeldOfActive' /\ HeldRuns'
  BY <1>1, <1>2, <1>3 DEF IInv, HeldOfActive, HeldRuns, Alive, data
<1>6. TaskShape' /\ FailoverKnown' /\ MainKnows'
  BY <1>1, <1>2, <1>3 DEF TaskShape, FailoverKnown, MainKnows, Task, Alive
<1>7. StartingKnows' /\ TruthKnows' /\ SoleActivator' /\ LossAlone' /\ NoneLeaks'
  BY <1>1, <1>2, <1>3 DEF IInv, StartingKnows, TruthKnows, SoleActivator, LossAlone, NoneLeaks, Busy
<1> QED  BY <1>4, <1>5, <1>6, <1>7 DEF IInv

LEMMA StoppedKeeps ==
    ASSUME IInv, Stopped
    PROVE  IInv'
<1>1. "main" \in Task /\ Pc("main") = "halt"  BY DEF Stopped, Task, Pc
<1>2. ~truth  BY <1>1, BusyAlone
<1>3. Closes /\ phase' = "STOPPED" /\ UNCHANGED <<held, cancelled>>  BY DEF Stopped
<1> QED  BY <1>2, <1>3, ClosesKeeps DEF IInv, TypeOK

LEMMA CancelsKeeps ==
    ASSUME IInv, Cancels
    PROVE  IInv'
<1> USE DEF Pc
<1>0. Alive /\ cancelled' = TRUE /\ "main" \in Task  BY DEF Cancels, Task
<1>1. CASE UNCHANGED <<phase, started, running, gen, active, truth, seeded, aborted, failed, data,
                       clients, task, failover>>
  <2>1. TypeOK'  BY <1>0, <1>1 DEF IInv, TypeOK, data, clients
  <2>2. HeldOfActive' /\ HeldRuns' /\ TaskShape' /\ FailoverKnown' /\ MainKnows'
    BY <1>1 DEF IInv, HeldOfActive, HeldRuns, TaskShape, FailoverKnown, MainKnows, Alive,
                data, clients
  <2>3. StartingKnows' /\ TruthKnows' /\ SoleActivator' /\ LossAlone' /\ NoneLeaks'
    BY <1>1 DEF IInv, StartingKnows, TruthKnows, SoleActivator, LossAlone, NoneLeaks, Busy, clients
  <2> QED  BY <2>1, <2>2, <2>3 DEF IInv
<1>2. CASE /\ Pc("main") \in {"starting", "serve"} \/ task["main"].after = "select"
           /\ Stops
           /\ up' = {c \in up : c \notin task["main"].halting \/ c.kind # "stream"}
           /\ owes' = owes \intersect up'
  <2>1. task["main"].after = "select" => Pc("main") = "halt"
    BY <1>0 DEF IInv, TaskShape
  <2>2. Pc("main") = "serve" => task["main"].halting = {}
    BY <1>0 DEF IInv, TaskShape
  <2>3. Pc("main") \in {"starting", "serve"} => task["main"].after = "none"
    BY <1>0 DEF IInv, TaskShape
  <2>4. Pc("main") = "serve" => up' = up
    BY <1>2, <2>2
  <2>5. owes' \subseteq Client  BY <1>2 DEF IInv, TypeOK
  <2> QED  BY <1>0, <1>2, <2>1, <2>3, <2>4, <2>5, StopsKeeps
<1>3. CASE Closes /\ UNCHANGED <<phase, held>>
  BY <1>0, <1>3, ClosesKeeps
<1> QED  BY <1>1, <1>2, <1>3 DEF Cancels

-----------------------------------------------------------------------------
(* Theorems of the specification.                                          *)

LEMMA InitInvariant == Init => IInv
<1> SUFFICES ASSUME Init PROVE IInv  OBVIOUS
<1> USE DEF Init, Pc
<1>1. /\ Quiet \in TaskState /\ [Quiet EXCEPT !.pc = "begin"] \in TaskState
      /\ "main" \in Task
  BY DEF Quiet, TaskState, Task
<1> DEFINE b == [Quiet EXCEPT !.pc = "begin"]
<1>2. /\ b.pc = "begin" /\ b.halting = {} /\ b.after = "none"
      /\ Quiet.pc = "done" /\ Quiet.halting = {} /\ Quiet.after = "none"
  BY DEF Quiet
<1>3. \A t \in Task : task[t] = IF t = "main" THEN b ELSE Quiet  OBVIOUS
<1> HIDE DEF b
<1>4. TypeOK
  <2>1. task \in [Task -> TaskState]  BY <1>1
  <2> QED  BY <2>1 DEF TypeOK, TaskState, Provider
<1>5. HeldOfActive /\ HeldRuns  BY DEF HeldOfActive, HeldRuns
<1>6. TaskShape /\ FailoverKnown /\ MainKnows
  BY <1>1, <1>2, <1>3, FailoverAssumption DEF TaskShape, FailoverKnown, MainKnows, Task, Alive
<1>7. StartingKnows /\ TruthKnows /\ SoleActivator /\ LossAlone /\ NoneLeaks
  BY <1>2, <1>3 DEF StartingKnows, TruthKnows, SoleActivator, LossAlone, NoneLeaks, Busy
<1> QED  BY <1>4, <1>5, <1>6, <1>7 DEF IInv

LEMMA NextInvariant == IInv /\ [Next]_vars => IInv'
<1> SUFFICES ASSUME IInv, [Next]_vars PROVE IInv'  OBVIOUS
<1>1. CASE Main
  BY <1>1, StartKeeps, LeavesKeeps, GathersKeeps, StoppedKeeps DEF Main
<1>2. ASSUME NEW t \in Task, Steps(t) PROVE IInv'
  BY <1>2, SucceedsKeeps, RaisesKeeps, HaltsKeeps, GoesKeeps, FailsOverKeeps DEF Steps
<1>3. ASSUME NEW c \in up, Reports(c) \/ RefusesTrade(c) PROVE IInv'
  BY <1>3, ReportsKeeps, RefusesTradeKeeps
<1>4. ASSUME NEW c \in up, NEW i \in Item, Delivers(c, i) PROVE IInv'
  BY <1>4, DeliversKeeps
<1>5. ASSUME NEW i \in Item, Lapses(i) PROVE IInv'
  BY <1>5, LapsesKeeps
<1>6. CASE FindsStale \/ EndsRun \/ Cancels
  BY <1>6, FindsStaleKeeps, EndsRunKeeps, CancelsKeeps
<1>7. CASE UNCHANGED vars
  <2>1. TypeOK'  BY <1>7 DEF vars, data, clients, tasks, IInv, TypeOK
  <2> QED  BY <1>7, <2>1, UnchangedKeeps DEF vars, data, clients
<1> QED  BY <1>1, <1>2, <1>3, <1>4, <1>5, <1>6, <1>7 DEF Next

LEMMA InvariantHolds == Spec => []IInv
BY InitInvariant, NextInvariant, PTL DEF Spec

\* The state keeps its types; a task that is to mark a provider as failed has
\* one to mark.
THEOREM TypeCorrect == Spec => []TypeOK
<1>1. IInv => TypeOK  BY DEF IInv
<1> QED  BY <1>1, InvariantHolds, PTL

\* At most one task starts, stops or selects clients, and none does while
\* market data is executable: main never meets a failover task in
\* _activate_selection or _stop_active_clients, however many are spawned.
THEOREM SoleActivatorHolds == Spec => []SoleActivator
<1>1. IInv => SoleActivator  BY DEF IInv
<1> QED  BY <1>1, InvariantHolds, PTL

\* While market data may be traded on, the transport it comes from is ACTIVE,
\* its provider did not fail, and its clients run, also after a client was
\* stopped, replaced or cancelled at any await.
THEOREM TruthIsBackedHolds == Spec => []TruthIsBacked
<1>1. IInv => TruthIsBacked
  BY DEF IInv, TruthIsBacked, TruthKnows, HeldOfActive, HeldRuns, Provider
<1> QED  BY <1>1, InvariantHolds, PTL

-----------------------------------------------------------------------------
(* What a step does to the stored data, and to the clients that run.       *)

LEMMA DataStep ==
    ASSUME IInv, CurrentData, [Next]_vars
    PROVE  CurrentData'
<1> USE DEF Pc
<1>1. CASE UNCHANGED <<source, gen>>  BY <1>1 DEF CurrentData
<1>2. CASE Forget  BY <1>2 DEF Forget, CurrentData
<1>3. ASSUME NEW t \in Task, NEW p \in Provider, active = "none", Activate(t, p)
      PROVE  CurrentData'
  BY <1>3 DEF Activate, IInv, HeldOfActive, CurrentData, data
<1>4. ASSUME NEW t \in Task, NEW pc, active = "none", Reselect(t, failed', pc)
      PROVE  CurrentData'
  BY <1>1, <1>3, <1>4 DEF Reselect, FailClosed, data
<1>5. CASE Main
  <2>1. "main" \in Task  BY DEF Task
  <2>2. CASE Start  BY <1>4, <2>1, <2>2 DEF Start, IInv, MainKnows
  <2>3. CASE Gathers  BY <1>2, <2>3 DEF Gathers, Release
  <2>4. CASE Leaves \/ Stopped  BY <1>1, <2>4 DEF Leaves, Stopped, Stops, Closes, data
  <2> QED  BY <1>5, <2>2, <2>3, <2>4 DEF Main
<1>6. ASSUME NEW t \in Task, Steps(t) PROVE CurrentData'
  <2>1. CASE Goes(t)
    <3>1. active = "none"  BY <2>1 DEF Goes, IInv, TaskShape
    <3>2. Reselect(t, failed', IF t = "main" THEN "serve" ELSE "done")  BY <2>1 DEF Goes
    <3> QED  BY <1>4, <3>1, <3>2
  <2>2. CASE Raises(t) \/ SeedRefused(t) \/ FailsOver(t)
    BY <1>2, <2>2 DEF Raises, SeedRefused, FailsOver, Release
  <2>3. CASE Succeeds(t) \/ Halts(t)  BY <1>1, <2>3 DEF Succeeds, Halts, data
  <2> QED  BY <1>6, <2>1, <2>2, <2>3 DEF Steps
<1>7. ASSUME NEW c \in up, NEW i \in Item, Delivers(c, i) PROVE CurrentData'
  <2>1. gen' = gen /\ (UNCHANGED source \/ source' = [source EXCEPT ![i] = gen])
    BY <1>7 DEF Delivers, Accepts, Refuses, data
  <2> QED  BY <2>1 DEF CurrentData, IInv, TypeOK
<1>8. ASSUME NEW c \in up, Reports(c) \/ RefusesTrade(c) PROVE CurrentData'
  BY <1>1, <1>8 DEF Reports, RefusesTrade, Lost, data
<1>9. ASSUME NEW i \in Item, Lapses(i) PROVE CurrentData'
  BY <1>1, <1>9 DEF Lapses
<1>10. CASE FindsStale \/ EndsRun
  BY <1>1, <1>10 DEF FindsStale, EndsRun, Lost, data
<1>11. CASE Cancels
  BY <1>1, <1>11 DEF Cancels, Stops, Closes, data
<1>12. CASE UNCHANGED vars  BY <1>1, <1>12 DEF vars, data
<1> QED  BY <1>5, <1>6, <1>7, <1>8, <1>9, <1>10, <1>11, <1>12 DEF Next

\* Every book and candle in store was delivered by the active transport: a
\* late callback of a replaced client stores nothing, and every switch forgets
\* what the old transport delivered before the new one may be trusted.
THEOREM CurrentDataHolds == Spec => []CurrentData
<1>1. Init => CurrentData  BY DEF Init, CurrentData
<1>2. IInv /\ CurrentData /\ [Next]_vars => CurrentData'  BY DataStep
<1> QED  BY <1>1, <1>2, InvariantHolds, PTL DEF Spec

LEMMA ClientsStep ==
    ASSUME IInv, [Next]_vars
    PROVE  up' \subseteq up \/ up = {}
<1> USE DEF Pc
<1>1. CASE Main
  <2>1. CASE Start  BY <2>1 DEF Start, IInv, MainKnows
  <2>2. CASE Leaves \/ Gathers \/ Stopped
    BY <2>2 DEF Leaves, Gathers, Release, Stopped, Closes
  <2> QED  BY <1>1, <2>1, <2>2 DEF Main
<1>2. ASSUME NEW t \in Task, Steps(t) PROVE up' \subseteq up \/ up = {}
  <2>1. CASE Goes(t)
    <3>1. Pc(t) = "halt" /\ task[t].after = "select" /\ task[t].halting = {}
      BY <2>1 DEF Goes
    <3>2. \A u \in Task : task[u].halting = {}
      BY <3>1, BusyAlone DEF IInv, TaskShape
    <3>3. held = {}  BY <3>1 DEF IInv, TaskShape, HeldOfActive
    <3>4. started \/ \E u \in Failover : Pc(u) # "done"
      BY <3>1 DEF IInv, MainKnows, Task
    <3> QED  BY <3>2, <3>3, <3>4 DEF IInv, NoneLeaks
  <2>2. CASE \/ Raises(t) \/ SeedRefused(t) \/ FailsOver(t)
             \/ Succeeds(t) \/ Halts(t)
    BY <2>2 DEF Raises, SeedRefused, FailsOver, Release, Succeeds, Halts, clients
  <2> QED  BY <1>2, <2>1, <2>2 DEF Steps
<1>3. ASSUME NEW c \in up, Reports(c) \/ RefusesTrade(c) \/ \E i \in Item : Delivers(c, i)
      PROVE  up' \subseteq up
  BY <1>3 DEF Reports, Lost, RefusesTrade, Delivers
<1>4. ASSUME NEW i \in Item, Lapses(i) PROVE up' \subseteq up
  BY <1>4 DEF Lapses, clients
<1>5. CASE FindsStale \/ EndsRun
  BY <1>5 DEF FindsStale, Lost, EndsRun, clients
<1>6. CASE Cancels
  BY <1>6 DEF Cancels, Closes, clients
<1>7. CASE UNCHANGED vars  BY <1>7 DEF vars, clients
<1> QED  BY <1>1, <1>2, <1>3, <1>4, <1>5, <1>6, <1>7 DEF Next

\* No client starts before every client of the older activations has stopped,
\* so that two transports never deliver or poll side by side.
THEOREM NoOverlapHolds == Spec => NoOverlap
<1>1. IInv /\ [Next]_vars => [\A c \in up' \ up, d \in up : d.gen = c.gen]_vars
  BY ClientsStep
<1> QED  BY <1>1, InvariantHolds, PTL DEF Spec, NoOverlap
=============================================================================
